------------------------- MODULE DeployTransaction --------------------------
(***************************************************************************)
(* The deployment transaction of deploy_truth/transactions.py: operators   *)
(* plan from the bundle to the live directory, apply plans, and roll them  *)
(* back.  Every capture of a directory, every change of a file and of the  *)
(* evidence below the rollback root is a step of its own; operators crash, *)
(* accesses raise, and others change both directories between them.        *)
(*                                                                         *)
(* The program takes no lock; whether everybody keeps off the directories  *)
(* while an operator is at work is chosen at the start ("exclusive").      *)
(***************************************************************************)
EXTENDS DeployTruth

CONSTANTS
  Proc,           \* the operators
  Nobody,         \* the holder of a free external lock
  NoPlan,         \* the absence of a plan
  ReleaseSpec,    \* the release spec they all use
  Bundles,        \* what the bundle may hold
  Lives,          \* what others put into the live directory
  Start,          \* the pairs of a bundle and a live directory to start with
  MaxPlans,       \* bound on the plans made
  MaxCrashes,     \* bound on the crashes
  MaxFailures,    \* bound on the accesses that raise
  MaxEdits        \* bound on the changes made by others

ASSUME DeployAssumption ==
  /\ Nobody \notin Proc
  /\ SpecValid(ReleaseSpec)
  /\ \A c \in ReleaseSpec.components : c.artifacts \in Seq(Nat)
  /\ Start \subseteq Bundles \X Lives
  /\ \A dir \in Bundles \cup Lives : IsDirectory(dir)
  /\ {MaxArtifacts, MaxDependencies, MaxComponents, MaxFiles} \subseteq Nat
  /\ {MaxPlans, MaxCrashes, MaxFailures, MaxEdits} \subseteq Nat

VARIABLES
  bundle, live,  \* the two directories
  plans,         \* the plans written to files
  evidence,      \* the transaction directory of each plan that has one
  pc,            \* where each operator stands
  plan,          \* the plan it works on
  todo,          \* the operations, or the snapshot's paths, that are left
  answer,        \* what a call returned in the last step, or "none"
  exclusive, lock,
  crashes, failures, edits

dirs == <<bundle, live>>
bounds == <<crashes, failures, edits>>
vars == <<bundle, live, plans, evidence, pc, plan, todo, answer,
          exclusive, lock, crashes, failures, edits>>

\* A transaction directory: whether its snapshot is complete, the snapshot, and the
\* status in its state.json.
NoEvidence == [taken |-> FALSE, snapshot |-> EmptyDirectory, status |-> "none"]

Init ==
  /\ \E s \in Start : bundle = s[1] /\ live = s[2]
  /\ plans = {}
  /\ evidence = << >>
  /\ pc = [p \in Proc |-> "idle"]
  /\ plan = [p \in Proc |-> NoPlan]
  /\ todo = [p \in Proc |-> << >>]
  /\ answer = "none"
  /\ exclusive \in BOOLEAN
  /\ lock = Nobody
  /\ crashes = 0 /\ failures = 0 /\ edits = 0

-----------------------------------------------------------------------------

Content(dir) == Capture(dir).artifacts

Goto(p, label) == pc' = [pc EXCEPT ![p] = label]

Enter(p, label) ==
  /\ pc[p] = "idle"
  /\ exclusive => lock = Nobody
  /\ lock' = IF exclusive THEN p ELSE lock
  /\ Goto(p, label)
  /\ answer' = "none"
  /\ UNCHANGED <<todo, exclusive, bounds>>

Step(p, from, to) ==
  /\ pc[p] = from
  /\ Goto(p, to)
  /\ answer' = "none"
  /\ UNCHANGED <<plan, exclusive, lock>>

\* The call of p returns, or ends with an exception.
Leave(p, outcome) ==
  /\ Goto(p, "idle")
  /\ answer' = outcome
  /\ plan' = [plan EXCEPT ![p] = NoPlan]
  /\ todo' = [todo EXCEPT ![p] = << >>]
  /\ lock' = IF lock = p THEN Nobody ELSE lock
  /\ UNCHANGED <<plans, exclusive>>

\* An access of p raises.
Failing == failures < MaxFailures /\ failures' = failures + 1 /\ UNCHANGED <<crashes, edits>>

SetStatus(p, status) ==
  evidence' = [evidence EXCEPT ![plan[p]].status = status]

-----------------------------------------------------------------------------
\* build_plan, and the plan written to a file: it raises on what cannot be planned.

BuildPlan(p) ==
  /\ pc[p] = "idle"
  /\ exclusive => lock = Nobody
  /\ IF Plannable(ReleaseSpec, Capture(bundle), Capture(live))
     THEN plans' = plans \cup {CreatePlan(ReleaseSpec, Capture(bundle), Capture(live))}
     ELSE UNCHANGED plans
  /\ Cardinality(plans') <= MaxPlans
  /\ answer' = "none"
  /\ UNCHANGED <<dirs, evidence, pc, plan, todo, exclusive, lock, bounds>>

-----------------------------------------------------------------------------
\* apply_plan, with the right confirmation and separate roots.

StartApply(p, chosen) ==
  /\ Enter(p, "check")
  /\ plan' = [plan EXCEPT ![p] = chosen]
  /\ UNCHANGED <<dirs, plans, evidence>>

\* Both directories are captured. An applied plan is answered again; any other status,
\* and any change of the directories since the dry-run, blocks.
CheckPreconditions(p) ==
  LET new == Capture(bundle)
      old == Capture(live)
      matches == new.artifacts = plan[p].desired
      marker == IF plan[p] \in DOMAIN evidence THEN evidence[plan[p]].status ELSE "none"
  IN  /\ pc[p] = "check"
      /\ CASE new.state = "blocked" \/ old.state = "blocked" -> Leave(p, "blocked")
           [] new.state = "captured" /\ old.state = "captured" /\ marker # "none" ->
                Leave(p, IF marker = "applied" /\ matches /\ old.artifacts = plan[p].desired
                         THEN "applied" ELSE "blocked")
           [] OTHER ->
                IF matches /\ old.artifacts = plan[p].before
                THEN Step(p, "check", "mkdir") /\ UNCHANGED <<plans, todo>>
                ELSE Leave(p, "blocked")
      /\ UNCHANGED <<dirs, evidence, bounds>>

\* Mutant: mkdir(exist_ok=True).
MakeTransactionDir_ExistOk(p) ==
  /\ Step(p, "mkdir", "snapshot")
  /\ evidence' = Put(evidence, plan[p], NoEvidence)
  /\ UNCHANGED <<dirs, plans, todo, bounds>>

\* mkdir(exist_ok=False) raises when the directory of the plan is already there.
MakeTransactionDir(p) ==
  /\ pc[p] = "mkdir"
  /\ IF plan[p] \in DOMAIN evidence
     THEN Leave(p, "none") /\ UNCHANGED evidence
     ELSE /\ Step(p, "mkdir", "snapshot")
          /\ evidence' = Put(evidence, plan[p], NoEvidence)
          /\ UNCHANGED <<plans, todo>>
  /\ UNCHANGED <<dirs, bounds>>

\* copytree is outside the try block: a failure leaves the directory without a marker.
CopySnapshot(p) ==
  /\ pc[p] = "snapshot"
  /\ \/ /\ Step(p, "snapshot", "operate")
        /\ evidence' = [evidence EXCEPT ![plan[p]] =
                           [taken |-> TRUE, snapshot |-> live, status |-> evidence[plan[p]].status]]
        /\ todo' = [todo EXCEPT ![p] = plan[p].operations]
        /\ UNCHANGED <<plans, bounds>>
     \/ Failing /\ Leave(p, "none") /\ UNCHANGED evidence
  /\ UNCHANGED dirs

Operate(p, op) ==
  live' = IF op.kind = "write"
          THEN Put(live, op.path, bundle[op.path])
          ELSE Restrict(live, DOMAIN live \ {op.path})

\* The next operation; it raises if the bundle lost the file or an access fails.
PerformOperation(p) ==
  /\ pc[p] = "operate" /\ todo[p] # << >>
  /\ LET op == Head(todo[p])
         available == op.kind = "write" =>
                        op.path \in DOMAIN bundle /\ bundle[op.path] # Link
     IN  \/ /\ available
            /\ Operate(p, op)
            /\ todo' = [todo EXCEPT ![p] = Tail(@)]
            /\ answer' = "none"
            /\ UNCHANGED <<pc, plan, lock, bounds>>
         \/ /\ Step(p, "operate", "clear")
            /\ IF available THEN Failing ELSE UNCHANGED bounds
            /\ UNCHANGED <<live, todo>>
  /\ UNCHANGED <<bundle, plans, evidence, exclusive>>

\* The postcondition: the live directory has exactly the planned contents.
CheckPostcondition(p) ==
  /\ pc[p] = "operate" /\ todo[p] = << >>
  /\ Step(p, "operate", IF Content(live) = plan[p].desired THEN "mark" ELSE "clear")
  /\ UNCHANGED <<dirs, plans, evidence, todo, bounds>>

MarkApplied(p) ==
  /\ pc[p] = "mark"
  /\ \/ Leave(p, "applied") /\ SetStatus(p, "applied") /\ UNCHANGED bounds
     \/ Step(p, "mark", "clear") /\ Failing /\ UNCHANGED <<plans, evidence, todo>>
  /\ UNCHANGED dirs

-----------------------------------------------------------------------------
\* _restore_snapshot, at the end of a failed apply ("clear") and in a rollback
\* ("reclear"): remove every child, in any order, then copy the snapshot back.

RollingBack(p) == pc[p] \in {"reclear", "recopy"}

\* Mutant: the snapshot is copied over what is there.
ClearLive_Skipped(p) ==
  /\ pc[p] \in {"clear", "reclear"}
  /\ Goto(p, IF RollingBack(p) THEN "recopy" ELSE "copy")
  /\ todo' = [todo EXCEPT ![p] = SortedPaths(DOMAIN evidence[plan[p]].snapshot)]
  /\ answer' = "none"
  /\ UNCHANGED <<dirs, plans, evidence, plan, exclusive, lock, bounds>>

ClearLive(p) ==
  /\ pc[p] \in {"clear", "reclear"}
  /\ IF live # EmptyDirectory
     THEN /\ \E path \in DOMAIN live : live' = Restrict(live, DOMAIN live \ {path})
          /\ UNCHANGED <<pc, todo>>
     ELSE /\ Goto(p, IF RollingBack(p) THEN "recopy" ELSE "copy")
          /\ todo' = [todo EXCEPT ![p] = SortedPaths(DOMAIN evidence[plan[p]].snapshot)]
          /\ UNCHANGED live
  /\ answer' = "none"
  /\ UNCHANGED <<bundle, plans, evidence, plan, exclusive, lock, bounds>>

\* The next path of the snapshot that p copies back is a link.
AtLink(p) ==
  pc[p] \in {"copy", "recopy"} /\ todo[p] # << >>
    /\ evidence[plan[p]].snapshot[Head(todo[p])] = Link

CopyBack(p) ==
  /\ pc[p] \in {"copy", "recopy"} /\ todo[p] # << >>
  /\ ~AtLink(p)
  /\ LET path == Head(todo[p])
     IN  live' = Put(live, path, evidence[plan[p]].snapshot[path])
  /\ todo' = [todo EXCEPT ![p] = Tail(@)]
  /\ answer' = "none"
  /\ UNCHANGED <<bundle, plans, evidence, pc, plan, exclusive, lock, bounds>>

\* Clearing or copying raises, as copying a link does: nothing catches it.
RestoreRaises(p) ==
  /\ pc[p] \in {"clear", "reclear", "copy", "recopy"}
  /\ IF AtLink(p) THEN UNCHANGED bounds ELSE Failing
  /\ Leave(p, "none")
  /\ UNCHANGED <<dirs, evidence>>

\* A failed apply hashes what it restored, and does not compare it.
MarkAutoRolledBack(p) ==
  /\ pc[p] = "copy" /\ todo[p] = << >>
  /\ SetStatus(p, "auto_rolled_back")
  /\ Leave(p, "auto_rolled_back")
  /\ UNCHANGED <<dirs, bounds>>

-----------------------------------------------------------------------------
\* rollback_plan, with the right confirmation.

\* Mutant: the plan is marked rolled back before it is.
StartRollback_MarkedFirst(p, chosen) ==
  /\ chosen \in DOMAIN evidence
  /\ evidence[chosen].status = "applied" /\ evidence[chosen].taken
  /\ Enter(p, "reclear")
  /\ plan' = [plan EXCEPT ![p] = chosen]
  /\ evidence' = [evidence EXCEPT ![chosen].status = "rolled_back"]
  /\ UNCHANGED <<dirs, plans>>

\* Only an applied plan is rolled back; what live holds by now does not matter.
StartRollback(p, chosen) ==
  /\ chosen \in DOMAIN evidence
  /\ evidence[chosen].status = "applied" /\ evidence[chosen].taken
  /\ Enter(p, "reclear")
  /\ plan' = [plan EXCEPT ![p] = chosen]
  /\ UNCHANGED <<dirs, plans, evidence>>

\* The restored contents are compared with those the plan was made from.
MarkRolledBack(p) ==
  /\ pc[p] = "recopy" /\ todo[p] = << >>
  /\ IF Content(live) = plan[p].before
     THEN SetStatus(p, "rolled_back") /\ Leave(p, "rolled_back")
     ELSE Leave(p, "blocked") /\ UNCHANGED evidence
  /\ UNCHANGED <<dirs, bounds>>

-----------------------------------------------------------------------------

\* An operator's process dies; its files stay as they are.
Crash(p) ==
  /\ crashes < MaxCrashes
  /\ pc[p] # "idle"
  /\ crashes' = crashes + 1
  /\ Leave(p, "none")
  /\ UNCHANGED <<dirs, evidence, failures, edits>>

\* Others publish another bundle or change the live directory.
Change ==
  /\ edits < MaxEdits
  /\ exclusive => lock = Nobody
  /\ edits' = edits + 1
  /\ \/ bundle' \in Bundles \ {bundle} /\ live' = live
     \/ live' \in Lives \ {live} /\ bundle' = bundle
  /\ answer' = "none"
  /\ UNCHANGED <<plans, evidence, pc, plan, todo, exclusive, lock,
                 crashes, failures>>

Move(p) ==
  \/ BuildPlan(p)
  \/ \E chosen \in plans : StartApply(p, chosen) \/ StartRollback(p, chosen)
  \/ CheckPreconditions(p) \/ MakeTransactionDir(p)
  \/ CopySnapshot(p) \/ PerformOperation(p) \/ CheckPostcondition(p) \/ MarkApplied(p)
  \/ ClearLive(p) \/ CopyBack(p) \/ RestoreRaises(p) \/ MarkAutoRolledBack(p)
  \/ MarkRolledBack(p)
  \/ Crash(p)

Next == Change \/ \E p \in Proc : Move(p)

Spec == Init /\ [][Next]_vars

-----------------------------------------------------------------------------

Applying == {"snapshot", "operate", "mark", "clear", "copy"}

\* Every file of dir is one of whole.
Within(dir, whole) ==
  \A path \in DOMAIN dir : path \in DOMAIN whole /\ whole[path] = dir[path]

\* Every file is as it was before plan t, or as t wants it.
Between(dir, t) ==
  \A path \in DOMAIN dir :
    \E side \in {t.before, t.desired} : path \in DOMAIN side /\ side[path] = dir[path]

\* As long as everybody keeps off while an operator is at work, nothing that was live
\* is lost, whatever raises or crashes: every snapshot is what its plan was made from,
\* and live is the whole of what others put there, or of what some kept transaction
\* found or wants - or else it is on the way of a transaction that is neither undone
\* nor restored, each file as before or after it, or part of such a whole that its
\* rollback is clearing away ("partial apply triggers automatic restoration",
\* SECURITY.md; transactions.py:294-327, 362-384).
NothingLost ==
  exclusive =>
    LET kept == {t \in DOMAIN evidence : evidence[t].taken}
        underway == {t \in kept : evidence[t].status \in {"none", "applied"}}
        wholes == Lives \cup {t.before : t \in kept} \cup {t.desired : t \in kept}
    IN  /\ \A t \in kept : evidence[t].snapshot = t.before
        /\ \/ live \in wholes
           \/ \E t \in underway : Between(live, t) \/ \E whole \in wholes : Within(live, whole)

\* The transaction directory is the mutex of its plan: two operators never carry out
\* one plan at once, nor does one undo it while another still applies it, even when
\* nobody keeps off (transactions.py:271-294, 362-371).
OneApplierPerPlan ==
  \A p, q \in Proc :
    p # q /\ pc[p] \in Applying /\ plan[q] = plan[p] => pc[q] \notin Applying /\ ~RollingBack(q)

\* What a call says is so: "applied" that live holds the bundle's release, which
\* verify_inventories then calls verified; "auto_rolled_back" and "rolled_back" that
\* live is what the plan was made from, byte for byte (transactions.py:312-332,
\* 378-388; README.md "restores the exact pre-apply inventory").
AnswersAreTrue ==
  [][ exclusive => \A p \in Proc : pc[p] # "idle" /\ pc'[p] = "idle" =>
        /\ answer' = "applied" =>
             TruthDecision(ReleaseSpec, Capture(bundle), Capture(bundle), Capture(live)) = "verified"
        /\ answer' \in {"auto_rolled_back", "rolled_back"} => live = plan[p].before ]_vars

\* "Investigate the outputs and create a new dry-run after correcting the cause"
\* (docs/RUNBOOK.md): an apply is not refused when its plan is the very one that a
\* dry-run would make at this moment, with nobody else at work.
FreshPlanIsNotBlocked ==
  [][ \A p \in Proc :
        exclusive /\ pc[p] = "check" /\ answer' = "blocked" =>
          ~ (/\ Plannable(ReleaseSpec, Capture(bundle), Capture(live))
             /\ plan[p] = CreatePlan(ReleaseSpec, Capture(bundle), Capture(live))) ]_vars
=============================================================================
