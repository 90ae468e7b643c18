------------------------------ MODULE Workflow ------------------------------
(***************************************************************************)
(* The integrated workflow (shipcheck/workflow.py): one run checks the     *)
(* files under its root against the evidence of a request, asks both       *)
(* gates, rehearses the rollback on a copy of the local state with the     *)
(* transaction of MergeTransaction.tla, checks the files once more, and    *)
(* writes a receipt into its output directory.                             *)
(*                                                                         *)
(* Every file is read in a step of its own.  Meanwhile other programs      *)
(* change the files and the drill copy, the clock is set, a run dies, and  *)
(* another run is given the same output directory.  The drill copy is the  *)
(* file "state" of MergeTransaction.tla, and every run uses the names of   *)
(* its own directory: there is one directory here, so one copy.            *)
(***************************************************************************)
EXTENDS MergeTransaction, ProducerBundle

CONSTANTS
  Path,           \* the paths of the input files
  ContentAt(_),   \* the contents a path may be given; they stand for their digests
  FirstContent,   \* the contents the runs start with
  ShaIn(_),       \* the current_sha in a content of the state file
  Report(_),      \* the JUnit report that a content parses to
  NotAReport,     \* the result of parsing anything else
  Request(_),     \* the request that comes with each merge artifact
  NoBundle,       \* a request without a producer bundle
  Judge(_, _),    \* the release decision on a request at a time
  DrillReceipt,   \* the path of rollback-receipt.json
  MaxTime, MaxInputEdits, MaxTicks   \* bounds on the clock and on its environment

InputContents == UNION {ContentAt(f) : f \in Path}

\* The drill copy of a state file.
Copy(c) == Content(ShaIn(c), c)

IsSequence(s) == s \in Seq(Range(s))

\* The files that a request names are input files.
NamesFiles(q) ==
  /\ q.state_path \in Path
  /\ q.junit \in Seq(Path)
  /\ IsSequence(q.bindings) /\ \A i \in DOMAIN q.bindings : q.bindings[i].path \in Path
  /\ q.bundle # NoBundle =>
       /\ IsSequence(q.bundle.entries)
       /\ \A i \in DOMAIN q.bundle.entries :
            LET e == q.bundle.entries[i]
            IN  /\ e.path \in Path
                /\ IsSequence(e.artifacts)
                /\ \A j \in DOMAIN e.artifacts : e.artifacts[j].path \in Path

\* What other programs put in the place of the drill copy is not the copy itself.
ASSUME WorkflowAssumption ==
  /\ DrillReceipt \in ReceiptPath
  /\ FirstContent \in [Path -> InputContents]
  /\ \A a \in Artifact : NamesFiles(Request(a))
  /\ \A a \in Artifact, t \in 0..MaxTime : Judge(a, t) \in [ready : BOOLEAN, production : BOOLEAN]
  /\ \A c \in InputContents :
       /\ c \notin Artifact
       /\ RunOf(c) # NotARun => RunOf(c).finished \in Nat
       /\ Copy(c) \notin Foreign \cup {Missing}
  /\ [before : Contents \cup {Copy(c) : c \in InputContents}, after : {After(a) : a \in Artifact}]
       \cap {Missing, Torn} = {}
  /\ {MaxTime, MaxInputEdits, MaxTicks} \subseteq Nat

VARIABLES
  disk,       \* the input files
  clock,
  stage,      \* where each run stands
  asked,      \* the artifact whose request it was given
  seen,       \* what it has read: state, producer files, artifacts, reports
  owner,      \* the run that made the output directory
  verdict,    \* the receipt the directory holds, and the run that wrote it
  answer,     \* what each run returned or printed
  judgedDisk, \* history: the files as they were when the gates were asked
  returned,   \* history: some file was given contents it had had before
  past,       \* history: the contents each file has had
  inputEdits, ticks

drillVars == <<state, receipts, pc, job, held, exclusive, lock>>
runVars == <<stage, asked, seen, owner, verdict, answer, judgedDisk>>
worldVars == <<disk, clock, returned, past, inputEdits, ticks>>
workflowVars == <<vars, runVars, worldVars>>

Nothing == [before |-> Missing, started |-> 0, files |-> <<>>, artifacts |-> <<>>,
            reports |-> <<>>, production |-> FALSE, rechecked |-> 0, ended |-> 0]

WorkflowInit ==
  /\ Init /\ ~exclusive
  /\ disk = FirstContent
  /\ clock \in 0..MaxTime
  /\ stage = [p \in Proc |-> "idle"]
  /\ asked = [p \in Proc |-> Missing]
  /\ seen = [p \in Proc |-> Nothing]
  /\ owner = Nobody
  /\ verdict = [run |-> Nobody, status |-> "none"]
  /\ answer = [p \in Proc |-> "none"]
  /\ judgedDisk = [p \in Proc |-> FirstContent]
  /\ returned = FALSE
  /\ past = [f \in Path |-> {FirstContent[f]}]
  /\ inputEdits = 0
  /\ ticks = 0

Ask(p) == Request(asked[p])

-----------------------------------------------------------------------------
(* What a request must be before anything is created.                      *)

RequestValid(a) ==
  LET q == Request(a)
  IN  /\ Snapshot(a).expected_sha = q.candidate.base
      /\ Snapshot(a).observed_sha = q.candidate.base
      /\ Snapshot(a).merge_sha = q.candidate.head
      /\ Len(q.bindings) \in 1..100 /\ Len(q.junit) \in 1..100
      /\ IsInjective([i \in DOMAIN q.bindings |-> q.bindings[i].name])
      /\ {q.bindings[i].name : i \in DOMAIN q.bindings} = q.required_artifacts
      /\ IsInjective(q.junit)

-----------------------------------------------------------------------------
(* normalize_junit and the checks on the suites.                           *)

\* A suite that does not declare its number of tests.
NoCount == -1

Count(cases, kinds) == Len(SelectSeq(cases, LAMBDA c : c \in kinds))

\* The record of a suite: errors are failures, and the declared number of tests, if
\* there is one, is that of its testcase elements.
SuiteOf(s) == [suite |-> s.name, total |-> Len(s.cases),
               passed |-> Count(s.cases, {"passed"}),
               failed |-> Count(s.cases, {"failure", "error"}),
               skipped |-> Count(s.cases, {"skipped"})]

ReportValid(r) ==
  /\ r # NotAReport
  /\ Len(r) \in 1..1000
  /\ IsInjective([i \in DOMAIN r |-> r[i].name])
  /\ \A i \in DOMAIN r : r[i].declared \in {NoCount, Len(r[i].cases)}

\* The suites of the reports, in the order in which they are read.
SuitesIn(contents) ==
  FlattenSeq([i \in DOMAIN contents |->
    [k \in DOMAIN Report(contents[i]) |-> SuiteOf(Report(contents[i])[k])]])

NamesUnique(suites) == IsInjective([i \in DOMAIN suites |-> suites[i].suite])

\* The suites are exactly the required ones, each is what one piece of release
\* evidence says, and all of its tests ran and passed.
SuitesPass(q, suites) ==
  /\ {suites[i].suite : i \in DOMAIN suites} = q.required_suites
  /\ \A i \in DOMAIN suites :
       /\ {c \in Range(q.suite_claims) : c.suite = suites[i].suite} = {suites[i]}
       /\ suites[i].total > 0 /\ suites[i].failed = 0 /\ suites[i].skipped = 0

\* The digest of an artifact is the one that the single claim of its name gives.
ArtifactClaimed(q, b, content) ==
  /\ content # Unreadable
  /\ {c.content : c \in {d \in q.artifact_claims : d.name = b.name}} = {content}

-----------------------------------------------------------------------------
To(p, label) == stage' = [stage EXCEPT ![p] = label]

Notes(p, s) == seen' = [seen EXCEPT ![p] = s]

Rest == UNCHANGED <<vars, asked, owner, verdict, answer, judgedDisk, worldVars>>

\* A check that raises: the except clause makes a blocked result of it.
Stop(p) == To(p, "blocked") /\ UNCHANGED seen

\* The schema and every contract are validated, and the state is read.
Begin(p, a) ==
  /\ stage[p] = "idle"
  /\ LET before == disk[Request(a).state_path]
     IN  IF RequestValid(a) /\ before # Unreadable /\ ShaIn(before) = Snapshot(a).observed_sha
         THEN /\ To(p, "mkdir")
              /\ Notes(p, [Nothing EXCEPT !.before = before])
              /\ asked' = [asked EXCEPT ![p] = a] /\ UNCHANGED answer
         ELSE /\ To(p, "done") /\ answer' = [answer EXCEPT ![p] = "refused"]
              /\ UNCHANGED <<seen, asked>>
  /\ UNCHANGED <<vars, owner, verdict, judgedDisk, worldVars>>

\* Mutant: the output directory may exist.
MakeOutput_ExistOk(p) ==
  /\ stage[p] = "mkdir"
  /\ To(p, IF Ask(p).bundle = NoBundle THEN "artifacts" ELSE "producer")
  /\ owner' = p
  /\ Notes(p, [seen[p] EXCEPT !.started = clock])
  /\ UNCHANGED <<vars, asked, verdict, answer, judgedDisk, worldVars>>

\* The directory must be new. The checks of a bundle start with the time.
MakeOutput(p) ==
  /\ stage[p] = "mkdir"
  /\ IF owner = Nobody
     THEN /\ To(p, IF Ask(p).bundle = NoBundle THEN "artifacts" ELSE "producer")
          /\ owner' = p
          /\ Notes(p, [seen[p] EXCEPT !.started = clock])
          /\ UNCHANGED answer
     ELSE /\ To(p, "done") /\ answer' = [answer EXCEPT ![p] = "refused"]
          /\ UNCHANGED <<seen, owner>>
  /\ UNCHANGED <<vars, asked, verdict, judgedDisk, worldVars>>

\* verify_producer_bundle, a file at a time: a bundle that does not pass is a veto.
ReadProducer(p) ==
  /\ stage[p] = "producer"
  /\ LET b == Ask(p).bundle
         f == seen[p].files
         r == Reads(b)[Len(f) + 1]
         c == disk[r.path]
     IN  IF BundleValid(b, Ask(p).candidate) /\ NextPasses(b, f, c, seen[p].started)
         THEN /\ Notes(p, [seen[p] EXCEPT !.files = Append(f, [path |-> r.path, content |-> c])])
              /\ To(p, IF Len(f) + 1 < Len(Reads(b)) THEN "producer" ELSE "artifacts")
         ELSE Stop(p)
  /\ Rest

\* hash_artifact, and the claim on it; after the last one the inventory of changed
\* files that the two gates judge is compared.
ReadArtifact(p) ==
  /\ stage[p] = "artifacts"
  /\ LET q == Ask(p)
         n == Len(seen[p].artifacts) + 1
         c == disk[q.bindings[n].path]
         last == n = Len(q.bindings)
     IN  IF /\ ArtifactClaimed(q, q.bindings[n], c)
            /\ last => q.diff = ChangeSet(Snapshot(asked[p]))
         THEN /\ Notes(p, [seen[p] EXCEPT !.artifacts = Append(@, c)])
              /\ To(p, IF last THEN "junit" ELSE "artifacts")
         ELSE Stop(p)
  /\ Rest

\* A report is read and normalized; after the last one the suites are checked.
ReadReport(p) ==
  /\ stage[p] = "junit"
  /\ LET q == Ask(p)
         n == Len(seen[p].reports) + 1
         c == disk[q.junit[n]]
         all == Append(seen[p].reports, c)
         last == n = Len(q.junit)
     IN  IF /\ c # Unreadable /\ ReportValid(Report(c))
            /\ NamesUnique(SuitesIn(all))
            /\ last => SuitesPass(q, SuitesIn(all))
         THEN /\ Notes(p, [seen[p] EXCEPT !.reports = all])
              /\ To(p, IF last THEN "gates" ELSE "junit")
         ELSE Stop(p)
  /\ Rest

\* Both decisions are taken and kept, and both must be ready; LAB evidence needs the
\* caller's leave.
AskGates(p) ==
  /\ stage[p] = "gates"
  /\ LET d == Judge(asked[p], clock)
     IN  /\ Notes(p, [seen[p] EXCEPT !.production = d.production])
         /\ IF /\ d.ready /\ ArtifactOf[asked[p]].decision = "ready"
               /\ d.production \/ Ask(p).allow_lab
            THEN To(p, "copy") ELSE To(p, "blocked")
  /\ judgedDisk' = [judgedDisk EXCEPT ![p] = disk]
  /\ UNCHANGED <<vars, asked, owner, verdict, answer, worldVars>>

-----------------------------------------------------------------------------
(* The rehearsal, on a copy of the state read at the beginning.            *)

\* _new_bytes: the copy must not be there yet.
CopyState(p) ==
  /\ stage[p] = "copy"
  /\ IF state = Missing
     THEN state' = Copy(seen[p].before) /\ To(p, "dry_run")
     ELSE To(p, "blocked") /\ UNCHANGED state
  /\ UNCHANGED <<receipts, pc, job, held, exclusive, lock, crashes, edits,
                 asked, seen, owner, verdict, answer, judgedDisk, worldVars>>

DryRun(p) ==
  /\ stage[p] = "dry_run"
  /\ To(p, IF Readable /\ Applicable(asked[p]) THEN "apply" ELSE "blocked")
  /\ Rest /\ UNCHANGED seen

\* The steps of a call on the transaction; ok says that it returns and does not raise.
Call(p, from, step, ok, to) ==
  /\ stage[p] = from
  /\ step
  /\ To(p, IF pc'[p] # "idle" THEN from ELSE IF ok THEN to ELSE "blocked")
  /\ UNCHANGED <<asked, seen, owner, verdict, answer, judgedDisk, worldVars>>

\* The path of the receipt is free: the directory is new.
RehearseApply(p) ==
  \/ Call(p, "apply", StartApply(p, asked[p], DrillReceipt), TRUE, "verify")
  \/ Call(p, "apply",
          \/ CheckApplicable(p) \/ ReadBefore(p) \/ CreateReceipt(p) \/ WriteReceipt(p)
          \/ ReplaceState(p) \/ VerifyApplied(p) \/ RestoreAfterFailure(p),
          pc[p] = "verify", "verify")

\* transaction.verify once more, against the receipt.
RehearseVerify(p) ==
  /\ stage[p] = "verify"
  /\ To(p, IF state = receipts[DrillReceipt].after THEN "rollback" ELSE "blocked")
  /\ Rest /\ UNCHANGED seen

RehearseRollback(p) ==
  \/ Call(p, "rollback", StartRollback(p, DrillReceipt), TRUE, "compare")
  \/ Call(p, "rollback", InspectDivergence(p) \/ UndoState(p) \/ RecheckRestored(p),
          pc[p] # "undo" /\ state = held[p].before, "compare")

\* Mutant: what the rollback says is enough.
Compare_Trusting(p) ==
  /\ stage[p] = "compare"
  /\ To(p, "recheck_state")
  /\ Rest /\ UNCHANGED seen

\* The copy must be what was read at the beginning, byte for byte.
Compare(p) ==
  /\ stage[p] = "compare"
  /\ To(p, IF state = Copy(seen[p].before) THEN "recheck_state" ELSE "blocked")
  /\ Rest /\ UNCHANGED seen

-----------------------------------------------------------------------------
(* The rechecks.                                                           *)

RecheckState(p) ==
  /\ stage[p] = "recheck_state"
  /\ To(p, IF disk[Ask(p).state_path] = seen[p].before THEN "recheck_artifacts" ELSE "blocked")
  /\ Rest /\ UNCHANGED seen

\* The same number of files are read once more, each compared with its first content.
Again(p, label, paths, contents, next) ==
  /\ stage[p] = label
  /\ LET n == seen[p].rechecked + 1
         last == n = Len(paths)
     IN  IF disk[paths[n]] = contents[n]
         THEN /\ To(p, IF last THEN next ELSE label)
              /\ Notes(p, [seen[p] EXCEPT !.rechecked = IF last THEN 0 ELSE n])
         ELSE Stop(p)
  /\ Rest

\* Mutant: the artifacts are not read again.
RecheckArtifacts_None(p) ==
  /\ stage[p] = "recheck_artifacts"
  /\ To(p, "recheck_junit")
  /\ Rest /\ UNCHANGED seen

RecheckArtifacts(p) ==
  LET b == Ask(p).bindings
  IN  Again(p, "recheck_artifacts", [i \in DOMAIN b |-> b[i].path], seen[p].artifacts,
            "recheck_junit")

RecheckReports(p) ==
  Again(p, "recheck_junit", Ask(p).junit, seen[p].reports,
        IF Ask(p).bundle = NoBundle THEN "ready" ELSE "recheck_producer")

RecheckProducer(p) ==
  LET f == seen[p].files
  IN  Again(p, "recheck_producer", [i \in DOMAIN f |-> f[i].path],
            [i \in DOMAIN f |-> f[i].content], "recheck_time")

\* The receipts must still be fresh, by the clock of the end of the run.
RecheckTime(p) ==
  /\ stage[p] = "recheck_time"
  /\ IF StillFresh(Ask(p).bundle, seen[p].files, clock)
     THEN To(p, "ready") /\ Notes(p, [seen[p] EXCEPT !.ended = clock])
     ELSE Stop(p)
  /\ Rest

-----------------------------------------------------------------------------
Status(p) == IF stage[p] = "blocked" THEN "blocked"
             ELSE IF seen[p].production THEN "ready" ELSE "ready_lab"

\* Mutant: a run that stops leaves no receipt.
Finish_OnlyReady(p) ==
  /\ stage[p] \in {"ready", "blocked"}
  /\ To(p, "done")
  /\ verdict' = IF stage[p] = "ready" THEN [run |-> p, status |-> Status(p)] ELSE verdict
  /\ answer' = [answer EXCEPT ![p] = Status(p)]
  /\ UNCHANGED <<vars, asked, seen, owner, judgedDisk, worldVars>>

\* The receipt is written, whatever the result, unless one is there; then the run
\* returns its result. No handler is around the writing of it: when that raises, the
\* directory has no receipt, or part of one.
Finish(p) ==
  /\ stage[p] \in {"ready", "blocked"}
  /\ To(p, "done")
  /\ \/ /\ verdict.run = Nobody
        /\ verdict' = [run |-> p, status |-> Status(p)]
        /\ answer' = [answer EXCEPT ![p] = Status(p)]
     \/ /\ verdict.run # Nobody
        /\ answer' = [answer EXCEPT ![p] = "refused"] /\ UNCHANGED verdict
     \/ /\ verdict.run = Nobody
        /\ answer' = [answer EXCEPT ![p] = "unwritten"] /\ UNCHANGED verdict
  /\ UNCHANGED <<vars, asked, seen, owner, judgedDisk, worldVars>>

Proceed(p) ==
  \/ MakeOutput(p) \/ ReadProducer(p) \/ ReadArtifact(p) \/ ReadReport(p)
  \/ AskGates(p) \/ CopyState(p) \/ DryRun(p) \/ RehearseApply(p)
  \/ RehearseVerify(p) \/ RehearseRollback(p) \/ Compare(p)
  \/ RecheckState(p) \/ RecheckArtifacts(p) \/ RecheckReports(p)
  \/ RecheckProducer(p) \/ RecheckTime(p) \/ Finish(p)

\* The process of a run dies; its directory stays as it is.
Die(p) ==
  /\ crashes < MaxCrashes
  /\ stage[p] \notin {"idle", "done"}
  /\ crashes' = crashes + 1
  /\ To(p, "done")
  /\ answer' = [answer EXCEPT ![p] = "died"]
  /\ Goto(p, "idle")
  /\ job' = [job EXCEPT ![p] = Idle]
  /\ held' = [held EXCEPT ![p] = Missing]
  /\ UNCHANGED <<state, receipts, exclusive, lock, edits,
                 asked, seen, owner, verdict, judgedDisk, worldVars>>

\* Another program replaces an input file.
EditInput ==
  /\ inputEdits < MaxInputEdits
  /\ inputEdits' = inputEdits + 1
  /\ \E f \in Path, c \in UNION {ContentAt(g) : g \in Path} :
       /\ c \in ContentAt(f) \ {disk[f]}
       /\ disk' = [disk EXCEPT ![f] = c]
       /\ returned' = (returned \/ c \in past[f])
       /\ past' = [past EXCEPT ![f] = @ \cup {c}]
  /\ UNCHANGED <<vars, runVars, clock, ticks>>

\* The clock is set, forwards or backwards.
SetClock ==
  /\ ticks < MaxTicks
  /\ ticks' = ticks + 1
  /\ clock' \in (0..MaxTime) \ {clock}
  /\ UNCHANGED <<vars, runVars, disk, returned, past, inputEdits>>

\* Another program changes the drill copy.
EditDrill == EditState /\ owner # Nobody /\ UNCHANGED <<runVars, worldVars>>

WorkflowNext ==
  \/ \E p \in Proc : (\E a \in Artifact : Begin(p, a)) \/ Proceed(p) \/ Die(p)
  \/ EditInput \/ SetClock \/ EditDrill

\* A run that has begun goes on; nothing makes one begin.
WorkflowSpec ==
  /\ WorkflowInit /\ [][WorkflowNext]_workflowVars
  /\ \A p \in Proc : WF_workflowVars(Proceed(p))

-----------------------------------------------------------------------------
(* Properties.                                                             *)

\* The files of d, all at once, are what the request of a says they are.
BundleHolds(b, d, now) ==
  LET file == [k \in DOMAIN Reads(b) |-> [path |-> Reads(b)[k].path,
                                         content |-> d[Reads(b)[k].path]]]
  IN  \A k \in DOMAIN file : NextPasses(b, SubSeq(file, 1, k - 1), file[k].content, now)

Holds(a, d, before, now) ==
  LET q == Request(a)
  IN  /\ d[q.state_path] = before /\ ShaIn(before) = Snapshot(a).observed_sha
      /\ \A i \in DOMAIN q.bindings : ArtifactClaimed(q, q.bindings[i], d[q.bindings[i].path])
      /\ SuitesPass(q, SuitesIn([i \in DOMAIN q.junit |-> d[q.junit[i]]]))
      /\ q.bundle # NoBundle => BundleHolds(q.bundle, d, now)

\* A run that ends ready has judged one state of its inputs: though its files are read
\* one by one while others change them, there is an instant, that of the two
\* decisions, at which all of them together were as the evidence and the bundle say;
\* and the bundle is fresh by the clock of the end as well, whichever way it was set
\* ("A source file changed during the run blocks completion",
\* docs/INTEGRATED-WORKFLOW.md; workflow.py:93, 107-154, 181-195). The rechecks do not
\* see a file that was changed and changed back.
ReadyIsOneState ==
  \A p \in Proc : answer[p] \in {"ready", "ready_lab"} /\ ~returned =>
    /\ Holds(asked[p], judgedDisk[p], seen[p].before, seen[p].started)
    /\ Ask(p).bundle # NoBundle =>
         \A i \in DOMAIN Ask(p).bundle.entries :
           LET run == RunRead(Ask(p).bundle, i, seen[p].files)
           IN  run.finished \in (seen[p].ended - Ask(p).bundle.max_age)..seen[p].ended

\* A run that ends ready has rehearsed the rollback of this very candidate: its
\* directory holds a complete rollback receipt that leads from the exact bytes of the
\* state to those of the merge, though others write to the drill copy meanwhile
\* (workflow.py:166-180, transaction.py:140-217).
ReadyIsRehearsed ==
  \A p \in Proc : answer[p] \in {"ready", "ready_lab"} =>
    /\ Complete(DrillReceipt)
    /\ receipts[DrillReceipt].before = Copy(seen[p].before)
    /\ receipts[DrillReceipt].after = After(asked[p])
    /\ ArtifactOf[asked[p]].decision = "ready"

\* Two runs never share an output directory: the receipt in it is that of the run
\* that made the directory and agrees with what that run returned, and no other run
\* returns a result from it ("never follow an existing output symlink or reuse an old
\* receipt directory", workflow.py:97-102, 199-201).
OneVerdictPerDirectory ==
  /\ verdict.run # Nobody => /\ verdict.run = owner
                             /\ verdict.status = answer[owner]
  /\ \A p \in Proc : answer[p] \in {"ready", "ready_lab", "blocked"} => verdict.run = p

\* Whatever a check, a gate, the transaction or a concurrent change makes of a run that
\* has created its directory, a receipt is in it in the end, unless the process dies or
\* the writing of the receipt itself raises (workflow.py:196-200).
EveryRunLeavesAVerdict ==
  \A p \in Proc : owner = p ~> (verdict.run = p \/ answer[p] \in {"died", "unwritten"})
=============================================================================
