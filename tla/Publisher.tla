----------------------------- MODULE Publisher ------------------------------
(***************************************************************************)
(* The publication of the council's reports (pr_review_council/            *)
(* publisher.py and the publish and rollback commands of cli.py): a served *)
(* output, one backup file per payload, and receipts.  Operators review a  *)
(* pull request and publish the report, or roll a receipt back; every      *)
(* change of a file is a step of its own, operators crash and accesses     *)
(* raise between them.                                                     *)
(*                                                                         *)
(* The program takes no lock; whether everybody takes turns is chosen at   *)
(* the start ("exclusive").  Staged files left behind are not modelled.    *)
(***************************************************************************)
EXTENDS Council

CONSTANTS
  Proc,             \* the operators
  Nobody,           \* the holder of a free external lock
  PullRequest,      \* names of the pull requests
  SnapshotOf(_),    \* their snapshots
  Runs,             \* the reviews: a pull request and the reviewers that fail
  ReceiptPath,      \* the receipt paths
  Missing,          \* a file that is not there
  Origin,           \* what the output is at the start
  Foreign,          \* what others put there
  MaxPublications,  \* bound on the publications begun
  MaxCrashes, MaxFailures, MaxEdits   \* bounds on what goes wrong

ReportOf(run) == Review(run.pr, SnapshotOf(run.pr), run.failing)

Report == {ReportOf(run) : run \in Runs}

ASSUME PublisherAssumption ==
  /\ Nobody \notin Proc
  /\ \A n \in PullRequest : PullRequestValid(SnapshotOf(n))
  /\ \A run \in Runs : run.pr \in PullRequest
  /\ (Foreign \cup {Origin, Missing}) \cap Report = {}
  /\ {MaxPublications, MaxCrashes, MaxFailures, MaxEdits} \subseteq Nat

VARIABLES
  output,     \* the served file; a payload is its own SHA
  backups,    \* the backup file of each payload
  receipts,   \* the receipt files
  pc,         \* where each operator stands
  job,        \* its plan or receipt: report, previous contents, moved, receipt path
  answer,     \* how a call ended in the last step, or "none"
  exclusive, lock,
  publications, crashes, failures, edits

files == <<output, backups, receipts>>
bounds == <<crashes, failures, edits>>
vars == <<output, backups, receipts, pc, job, answer, exclusive, lock,
          publications, crashes, failures, edits>>

NoJob == [report |-> Missing, previous |-> Missing, moved |-> FALSE, path |-> Missing]

Init ==
  /\ output = Origin
  /\ backups = [r \in Report |-> Missing]
  /\ receipts = [r \in ReceiptPath |-> NoJob]
  /\ pc = [p \in Proc |-> "idle"]
  /\ job = [p \in Proc |-> NoJob]
  /\ answer = "none"
  /\ exclusive \in BOOLEAN
  /\ lock = Nobody
  /\ publications = 0 /\ crashes = 0 /\ failures = 0 /\ edits = 0

-----------------------------------------------------------------------------

Backup(p) == backups[job[p].report]

Enter(p, label, newJob) ==
  /\ pc[p] = "idle"
  /\ exclusive => lock = Nobody
  /\ lock' = IF exclusive THEN p ELSE lock
  /\ pc' = [pc EXCEPT ![p] = label]
  /\ job' = [job EXCEPT ![p] = newJob]
  /\ answer' = "none"
  /\ UNCHANGED <<files, exclusive, bounds>>

Step(p, to) ==
  /\ pc' = [pc EXCEPT ![p] = to]
  /\ answer' = "none"
  /\ UNCHANGED <<exclusive, lock, publications>>

\* The command of p ends; "failed" stands for an exception.
Leave(p, outcome) ==
  /\ pc' = [pc EXCEPT ![p] = "idle"]
  /\ job' = [job EXCEPT ![p] = NoJob]
  /\ answer' = outcome
  /\ lock' = IF lock = p THEN Nobody ELSE lock
  /\ UNCHANGED <<exclusive, publications>>

\* An access of p raises, and with it the call.
Failing == failures < MaxFailures /\ failures' = failures + 1 /\ UNCHANGED <<crashes, edits>>

Raises(p) == Failing /\ Leave(p, "failed") /\ UNCHANGED files

-----------------------------------------------------------------------------
\* publish: the review, plan() and apply(), then the receipt.

StartPublish(p, run, path) ==
  /\ publications < MaxPublications
  /\ publications' = publications + 1
  /\ Enter(p, "check", [report |-> ReportOf(run), previous |-> output,
                        moved |-> FALSE, path |-> path])

\* Mutant: an existing backup does not stop the publication.
CheckPlan_BackupIgnored(p) ==
  /\ pc[p] = "check"
  /\ \/ /\ IF output = job[p].previous THEN Step(p, "move") /\ UNCHANGED job ELSE Leave(p, "failed")
        /\ UNCHANGED <<files, bounds>>
     \/ Raises(p)

\* The output must be as planned, and the backup's name free.
CheckPlan(p) ==
  /\ pc[p] = "check"
  /\ \/ /\ IF output = job[p].previous /\ Backup(p) = Missing
           THEN Step(p, "move") /\ UNCHANGED job
           ELSE Leave(p, "failed")
        /\ UNCHANGED <<files, bounds>>
     \/ Raises(p)

\* os.replace: what is there by now becomes the backup.
MoveAway(p) ==
  /\ pc[p] = "move"
  /\ \/ /\ Step(p, "place")
        /\ job' = [job EXCEPT ![p].moved = output # Missing]
        /\ backups' = IF output = Missing THEN backups
                      ELSE [backups EXCEPT ![job[p].report] = output]
        /\ output' = Missing
        /\ UNCHANGED <<receipts, bounds>>
     \/ Raises(p)

\* The payload is staged in a file of its own, which then replaces the output.
Place(p) ==
  /\ pc[p] = "place"
  /\ \/ Step(p, "verify") /\ output' = job[p].report /\ UNCHANGED bounds
     \/ Step(p, "recover") /\ Failing /\ UNCHANGED output
  /\ UNCHANGED <<backups, receipts, job>>

\* Mutant: a failed publication leaves the backup where it is.
Recover_Nothing(p) ==
  /\ pc[p] = "recover"
  /\ Leave(p, "failed")
  /\ UNCHANGED <<files, bounds>>

\* The backup becomes the output.
PutBack(p) ==
  /\ output' = Backup(p)
  /\ backups' = [backups EXCEPT ![job[p].report] = Missing]

\* The handler of a failed staging or replacement; it may itself raise.
Recover(p) ==
  /\ pc[p] = "recover"
  /\ \/ /\ IF job[p].moved /\ Backup(p) # Missing /\ output = Missing
           THEN PutBack(p) ELSE UNCHANGED <<output, backups>>
        /\ UNCHANGED bounds
     \/ Failing /\ UNCHANGED <<output, backups>>
  /\ Leave(p, "failed")
  /\ UNCHANGED receipts

\* The output is read back outside the try statement: when that raises, nothing is undone.
VerifyServed(p) ==
  /\ pc[p] = "verify"
  /\ \/ /\ Step(p, IF output = job[p].report THEN "receipt" ELSE "unverified")
        /\ UNCHANGED <<files, job, bounds>>
     \/ Raises(p)

\* _rollback_unverified: without a backup whatever is served is removed.
RollbackUnverified(p) ==
  /\ pc[p] = "unverified"
  /\ \/ /\ IF job[p].moved /\ Backup(p) # Missing
           THEN PutBack(p) ELSE output' = Missing /\ UNCHANGED backups
        /\ Leave(p, "failed")
        /\ UNCHANGED <<receipts, bounds>>
     \/ Raises(p)

\* write_receipt replaces the file; when it raises, the publication is rolled back.
WriteReceipt(p) ==
  /\ pc[p] = "receipt"
  /\ \/ /\ receipts' = [receipts EXCEPT ![job[p].path] = job[p]]
        /\ Leave(p, "published")
        /\ UNCHANGED bounds
     \/ Step(p, "inspect") /\ Failing /\ UNCHANGED <<receipts, job>>
  /\ UNCHANGED <<output, backups>>

-----------------------------------------------------------------------------
\* rollback, of a receipt file or, with its path set in the job, by publish.

StartRollback(p, r) ==
  /\ receipts[r] # NoJob
  /\ Enter(p, "inspect", [receipts[r] EXCEPT !.path = Missing])
  /\ UNCHANGED publications

InspectServed(p) ==
  /\ pc[p] = "inspect"
  /\ \/ /\ IF output = job[p].report /\ (job[p].moved => Backup(p) = job[p].previous)
           THEN Step(p, "restore") /\ UNCHANGED job
           ELSE Leave(p, "failed")
        /\ UNCHANGED <<files, bounds>>
     \/ Raises(p)

\* os.replace or unlink, which raises when its file has vanished.
Restore(p) ==
  /\ pc[p] = "restore"
  /\ \/ /\ IF job[p].moved THEN Backup(p) # Missing /\ PutBack(p)
           ELSE output # Missing /\ output' = Missing /\ UNCHANGED backups
        /\ Step(p, "recheck") /\ UNCHANGED <<job, bounds>>
     \/ /\ Leave(p, "failed") /\ UNCHANGED <<output, backups>>
        /\ IF Missing \in {output, IF job[p].moved THEN Backup(p) ELSE output}
           THEN UNCHANGED bounds ELSE Failing
  /\ UNCHANGED receipts

RecheckRestored(p) ==
  /\ pc[p] = "recheck"
  /\ \/ /\ Leave(p, IF job[p].path = Missing /\ output = job[p].previous
                   THEN "rolled_back" ELSE "failed")
        /\ UNCHANGED <<files, bounds>>
     \/ Raises(p)

-----------------------------------------------------------------------------

Crash(p) ==
  /\ crashes < MaxCrashes
  /\ pc[p] # "idle"
  /\ crashes' = crashes + 1
  /\ Leave(p, "none")
  /\ UNCHANGED <<files, failures, edits>>

\* Others write or remove the output.
Edit ==
  /\ edits < MaxEdits
  /\ exclusive => lock = Nobody
  /\ edits' = edits + 1
  /\ output' \in Foreign \ {output}
  /\ answer' = "none"
  /\ UNCHANGED <<backups, receipts, pc, job, exclusive, lock, publications, crashes, failures>>

Move(p) ==
  \/ \E run \in Runs, r \in ReceiptPath : StartPublish(p, run, r)
  \/ CheckPlan(p) \/ MoveAway(p) \/ Place(p) \/ Recover(p) \/ VerifyServed(p)
  \/ RollbackUnverified(p) \/ WriteReceipt(p)
  \/ \E r \in ReceiptPath : StartRollback(p, r)
  \/ InspectServed(p) \/ Restore(p) \/ RecheckRestored(p)
  \/ Crash(p)

Next == Edit \/ \E p \in Proc : Move(p)

Spec == Init /\ [][Next]_vars

-----------------------------------------------------------------------------

\* A served approval is earned, however publications race or break off: no reviewer
\* failed, and no added line that the reviewers are shown has a secret, executes code,
\* calls the network without a timeout or catches everything; a change of source comes
\* with a test, no test is only thinned out, and no file is a large change
\* (council.py:49-82; "Reviewer exceptions remain visible and cannot yield approved",
\* docs/SAFETY.md). They are not shown an added line whose own text begins with "++": it
\* cannot be told from the "+++" line of a file header (reviewers.py:30), and an
\* approval says nothing about it.
PublishedApprovalIsEarned ==
  output \in Report /\ output.decision = "approved" =>
    LET changed == Range(SnapshotOf(output.pr).files)
        added == UNION {{f.patch[i].features : i \in {j \in DOMAIN f.patch : f.patch[j].mark = "+"}}
                        : f \in changed}
    IN  /\ output.failed = {}
        /\ \A fs \in added : /\ fs \cap {"secret", "execution", "broad_except"} = {}
                             /\ "network" \in fs => "timeout" \in fs
        /\ (\E f \in changed : f.kind = "source") => \E f \in changed : f.kind = "test"
        /\ \A f \in changed : /\ f.kind = "test" /\ f.additions = 0 => f.deletions = 0
                              /\ f.additions <= LargeChange

\* The step of p leaves the report served, and what was there before in its backup.
Replaced(p) ==
  /\ output' = job[p].report
  /\ job[p].previous = IF job[p].moved THEN backups'[job[p].report] ELSE Missing

\* It leaves the output and the backup as the publication found them.
AsFound(p) ==
  /\ output' = job[p].previous
  /\ job[p].moved => backups'[job[p].report] = Missing

\* For operators that take turns a publication is all or nothing, with one exception:
\* when the command returns, the report is served and its receipt leads to what was there
\* before; when a single access of it raises, the output and the backup are as it found
\* them (publisher.py:118-131, 146-148; cli.py:160-165). The exception is the access that
\* reads the new output back (publisher.py:132): no handler is around it, so the command
\* raises with the report served and no receipt of it; what was there before is then
\* whole in the backup.
AllOrNothing ==
  [][ \A p \in Proc : exclusive /\ pc[p] # "idle" /\ job[p].path # Missing =>
        /\ answer' = "published" => Replaced(p) /\ receipts'[job[p].path] = job[p]
        /\ answer' = "failed" /\ failures' <= 1 =>
             IF pc[p] = "verify" THEN Replaced(p) ELSE AsFound(p) ]_vars

\* A content is still on disk, served or in a backup.
Kept(c) == c = output \/ \E r \in Report : backups[r] = c

\* "Existing backups are never overwritten" (docs/SAFETY.md), as its readers need it:
\* among operators that take turns, what others had put into the output is never lost
\* by publishing or rolling back, whatever raises or crashes: it is still served, or it
\* is in a backup (publisher.py:114-131, 157-163, 178-184).
PriorContentsKept ==
  [][ exclusive /\ edits' = edits =>
        \A c \in (Foreign \cup {Origin}) \ {Missing} : Kept(c) => Kept(c)' ]_vars
=============================================================================
