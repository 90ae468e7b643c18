-------------------------- MODULE MergeTransaction --------------------------
(***************************************************************************)
(* The local merge transaction of safe_merge_gate/transaction.py: one      *)
(* state file, receipts beside it, and processes that apply artifacts of   *)
(* MergeGate.tla to the file or roll receipts back.  Every file access is  *)
(* a step of its own; processes crash and accesses raise between them.     *)
(* The module takes no lock.  Whether its callers do ("callers needing     *)
(* those properties must add external locking", docs/FAILURE_MODEL.md) is  *)
(* chosen at the start and called "exclusive" here.                        *)
(***************************************************************************)
EXTENDS MergeGate

CONSTANTS
  Proc,          \* the processes
  Nobody,        \* the holder of a free external lock
  Artifact,      \* names of the artifacts: they stand for their SHA-256
  Snapshot(_),   \* the snapshot and the policy each was evaluated from
  Policy(_),
  ReceiptPath,   \* the receipt paths
  Missing,       \* a file that is not there
  Torn,          \* a receipt file whose bytes are not all written
  Origin,        \* the contents the state file starts with
  Foreign,       \* the contents other programs give it
  MaxCrashes,    \* bound on the crashes
  MaxEdits       \* bound on the changes made by other programs

ArtifactOf == [a \in Artifact |-> GateEvaluate(Snapshot(a), Policy(a))]

(* Contents of the state file: its current_sha, and what tells its bytes   *)
(* apart from others with the same SHA.  "garbled" is a file without one.  *)
Content(sha, by) == [sha |-> sha, by |-> by]

After(a) == Content(ArtifactOf[a].snapshot.merge_sha, a)

Contents == Foreign \cup {Origin, Missing} \cup {After(a) : a \in Artifact}

\* A receipt: the bytes before, and those that the artifact put there.
Receipts == [before : Contents, after : {After(a) : a \in Artifact}]

ASSUME TransactionAssumption ==
  /\ Nobody \notin Proc
  /\ Missing # Torn /\ Receipts \cap {Missing, Torn} = {}
  /\ Missing \notin Artifact /\ Torn \notin Artifact
  /\ \A c \in (Foreign \cup {Origin}) \ {Missing} : c.by \notin Artifact
  /\ \A a \in Artifact : SnapshotValid(Snapshot(a)) /\ GatePolicyValid(Policy(a))
  /\ {MaxCrashes, MaxEdits} \subseteq Nat

VARIABLES
  state,      \* the state file
  receipts,   \* the receipt files
  pc,         \* where each process stands
  job,        \* the artifact it applies, and its receipt path
  held,       \* the receipt it holds in memory
  exclusive,  \* whether the callers serialize their transactions
  lock,       \* holder of the external lock
  crashes, edits

files == <<state, receipts>>
vars == <<state, receipts, pc, job, held, exclusive, lock, crashes, edits>>

Idle == [artifact |-> Missing, path |-> Missing]

Init ==
  /\ state = Origin
  /\ receipts = [r \in ReceiptPath |-> Missing]
  /\ pc = [p \in Proc |-> "idle"]
  /\ job = [p \in Proc |-> Idle]
  /\ held = [p \in Proc |-> Missing]
  /\ exclusive \in BOOLEAN
  /\ lock = Nobody
  /\ crashes = 0
  /\ edits = 0

-----------------------------------------------------------------------------

Complete(r) == receipts[r] \notin {Missing, Torn}

\* _read_current raises on contents without a current_sha.
Readable == state = Missing \/ state.sha # "garbled"

\* dry_run's verdict, taken from one read of the file.
Applicable(a) == /\ ArtifactOf[a].decision = "ready"
                 /\ state # Missing
                 /\ state.sha = ArtifactOf[a].snapshot.observed_sha

Goto(p, label) == pc' = [pc EXCEPT ![p] = label]

\* A call begins; under an external lock, only while nobody else is in one.
Enter(p, label) ==
  /\ pc[p] = "idle"
  /\ exclusive => lock = Nobody
  /\ lock' = IF exclusive THEN p ELSE lock
  /\ Goto(p, label)
  /\ UNCHANGED <<exclusive, crashes, edits>>

\* A call returns or raises, and the caller's lock is given back.
Leave(p) ==
  /\ Goto(p, "idle")
  /\ job' = [job EXCEPT ![p] = Idle]
  /\ held' = [held EXCEPT ![p] = Missing]
  /\ lock' = IF lock = p THEN Nobody ELSE lock
  /\ UNCHANGED <<exclusive, crashes, edits>>

\* The call goes on with the next file access.
Step(p, from, to) ==
  /\ pc[p] = from
  /\ Goto(p, to)
  /\ UNCHANGED <<job, exclusive, lock, crashes, edits>>

-----------------------------------------------------------------------------
\* apply(artifact, state_path, receipt_path).

\* The receipt path must be free; dry_run then reads the state.
StartApply(p, a, r) ==
  /\ Enter(p, "check")
  /\ receipts[r] = Missing
  /\ job' = [job EXCEPT ![p] = [artifact |-> a, path |-> r]]
  /\ UNCHANGED <<state, receipts, held>>

CheckApplicable(p) ==
  /\ pc[p] = "check"
  /\ IF Readable /\ Applicable(job[p].artifact)
     THEN Step(p, "check", "read") /\ UNCHANGED held
     ELSE Leave(p)   \* ApplyBlocked, TransactionConflict
  /\ UNCHANGED files

\* The prior bytes are read a second time and become part of the receipt.
ReadBefore(p) ==
  /\ Step(p, "read", "create")
  /\ held' = [held EXCEPT ![p] = [before |-> state, after |-> After(job[p].artifact)]]
  /\ UNCHANGED files

\* Mutant: the receipt is opened without O_EXCL.
CreateReceipt_Truncate(p) ==
  /\ Step(p, "create", "write")
  /\ receipts' = [receipts EXCEPT ![job[p].path] = Torn]
  /\ UNCHANGED <<state, held>>

\* _write_new: O_EXCL raises when the path was taken meanwhile.
CreateReceipt(p) ==
  /\ pc[p] = "create"
  /\ IF receipts[job[p].path] = Missing
     THEN /\ receipts' = [receipts EXCEPT ![job[p].path] = Torn]
          /\ Step(p, "create", "write") /\ UNCHANGED held
     ELSE Leave(p) /\ UNCHANGED receipts
  /\ UNCHANGED state

\* Mutant: the state is replaced before the receipt has its bytes.
WriteReceipt_Later(p) == Step(p, "write", "replace") /\ UNCHANGED <<files, held>>

WriteReceipt(p) ==
  /\ Step(p, "write", "replace")
  /\ receipts' = [receipts EXCEPT ![job[p].path] = held[p]]
  /\ UNCHANGED <<state, held>>

\* _atomic_replace writes a temporary file first, and may raise there.
ReplaceState(p) ==
  /\ \/ Step(p, "replace", "verify") /\ state' = held[p].after
     \/ Step(p, "replace", "restore") /\ UNCHANGED state
  /\ UNCHANGED <<receipts, held>>

\* verify compares bytes and SHA with the receipt; its reads may raise as well.
VerifyApplied(p) ==
  /\ \/ pc[p] = "verify" /\ state = held[p].after /\ Leave(p)
     \/ Step(p, "verify", "restore") /\ UNCHANGED held
  /\ UNCHANGED files

\* _restore, and the exception is raised again; it may itself raise.
RestoreAfterFailure(p) ==
  /\ pc[p] = "restore"
  /\ state' \in {held[p].before, state}
  /\ Leave(p)
  /\ UNCHANGED receipts

-----------------------------------------------------------------------------
\* rollback(receipt, state_path), of a receipt that Receipt.from_dict accepts.

StartRollback(p, r) ==
  /\ Complete(r)
  /\ Enter(p, "inspect")
  /\ held' = [held EXCEPT ![p] = receipts[r]]
  /\ UNCHANGED <<state, receipts, job>>

\* Mutant: rollback restores whatever it finds.
InspectDivergence_None(p) == Step(p, "inspect", "undo") /\ UNCHANGED <<files, held>>

\* An already restored state is success, a diverged or vanished one a conflict.
InspectDivergence(p) ==
  /\ pc[p] = "inspect"
  /\ LET before == held[p].before
     IN  CASE state = before /\ before # Missing -> Leave(p)
           [] state = held[p].after \/ (state = Missing /\ before = Missing) ->
                Step(p, "inspect", "undo") /\ UNCHANGED held
           [] OTHER -> Leave(p)
  /\ UNCHANGED files

UndoState(p) ==
  /\ \/ Step(p, "undo", "recheck") /\ state' = held[p].before /\ UNCHANGED held
     \/ pc[p] = "undo" /\ Leave(p) /\ UNCHANGED state
  /\ UNCHANGED receipts

RecheckRestored(p) ==
  /\ pc[p] = "recheck"   \* the call raises unless the file is as before
  /\ Leave(p)
  /\ UNCHANGED files

-----------------------------------------------------------------------------

\* A process dies; what it wrote stays, its lock is released.
Crash(p) ==
  /\ crashes < MaxCrashes
  /\ pc[p] # "idle"
  /\ crashes' = crashes + 1
  /\ Goto(p, "idle")
  /\ job' = [job EXCEPT ![p] = Idle]
  /\ held' = [held EXCEPT ![p] = Missing]
  /\ lock' = IF lock = p THEN Nobody ELSE lock
  /\ UNCHANGED <<state, receipts, exclusive, edits>>

\* Another program writes or removes the state file.
EditState ==
  /\ edits < MaxEdits
  /\ exclusive => lock = Nobody
  /\ edits' = edits + 1
  /\ state' \in Foreign \ {state}
  /\ UNCHANGED <<receipts, pc, job, held, exclusive, lock, crashes>>

Move(p) ==
  \/ \E a \in Artifact, r \in ReceiptPath : StartApply(p, a, r)
  \/ CheckApplicable(p) \/ ReadBefore(p) \/ CreateReceipt(p) \/ WriteReceipt(p)
  \/ ReplaceState(p) \/ VerifyApplied(p) \/ RestoreAfterFailure(p)
  \/ \E r \in ReceiptPath : StartRollback(p, r)
  \/ InspectDivergence(p) \/ UndoState(p) \/ RecheckRestored(p)
  \/ Crash(p)

Next == EditState \/ \E p \in Proc : Move(p)

Spec == Init /\ [][Next]_vars

-----------------------------------------------------------------------------

\* The way back is always on disk: whatever apply has put into the state file, also
\* under races and after crashes, a complete receipt names it as its result; and what
\* that receipt would restore is again either somebody else's contents or the result
\* of a receipt ("preventing accidental loss of recovery data", docs/TRANSACTIONS.md;
\* transaction.py:152-169, 210-217).
UndoChain ==
  LET undoable(c) == c = Missing \/ c.by \notin Artifact
                     \/ \E r \in ReceiptPath : Complete(r) /\ receipts[r].after = c
  IN  /\ undoable(state)
      /\ \A r \in ReceiptPath : Complete(r) => undoable(receipts[r].before)

\* Only what the gate found ready ever reaches the state file: every required CI
\* check, the tests and the scan succeeded on the observed base, and the change is
\* within its policy's limits, whatever races or failures brought the contents there
\* (gate.py:19-74, transaction.py:148-151).
OnlyReadyIsApplied ==
  state # Missing /\ state.by \in Artifact =>
    LET s == Snapshot(state.by)
        p == Policy(state.by)
    IN  /\ s.expected_sha = s.observed_sha
        /\ \A n \in Range(s.required_ci) \cup Range(s.optional_ci) :
             n \in DOMAIN s.ci /\ s.ci[n] = "success"
        /\ s.tests_complete /\ s.tests_passed /\ s.clean_tree
        /\ s.secret_scan_complete /\ s.secret_findings = 0
        /\ Len(s.changes) <= p.max_changed_files
        /\ FoldSeq(LAMBDA c, n : c.additions + c.deletions + n, 0, s.changes)
             <= p.max_changed_lines

\* "Receipt paths cannot be reused" (docs/TRANSACTIONS.md): a receipt that was once
\* complete keeps its contents, even when two applies are given the same path and
\* both find it free (transaction.py:51-58, 145, 166).
ReceiptsKept ==
  [][\A r \in ReceiptPath : Complete(r) => receipts'[r] = receipts[r]]_receipts

-----------------------------------------------------------------------------
(* Refinement.                                                             *)

\* May w replace v: v carries the SHA that the ready artifact of w was made for.
MayReplace(v, w) ==
  /\ v # Missing
  /\ w.by \in Artifact
  /\ ArtifactOf[w.by].decision = "ready"
  /\ v.sha = ArtifactOf[w.by].snapshot.observed_sha

Log == [r \in {q \in ReceiptPath : Complete(q)} |-> receipts[r]]

Register == INSTANCE UndoRegister WITH reg <- state, log <- Log, Swappable <- MayReplace

\* Callers that take turns see a register with undo: every change of the state file
\* is a compared swap whose receipt was written before it, the exact undo of one, or
\* an edit, whatever raises or crashes in between ("Apply refuses an unexpected local
\* SHA; rollback refuses any state changed after apply", docs/FAILURE_MODEL.md;
\* transaction.py:140-217).
TurnsMakeARegister == [][exclusive => Register!Next]_<<state, Log>>
=============================================================================
