----------------------- MODULE MergeTransactionProofs -----------------------
(***************************************************************************)
(* Proofs about MergeTransaction.tla, for every set of processes,          *)
(* artifacts, receipt paths and foreign contents, with or without an       *)
(* external lock, and any number of crashes and edits.                     *)
(***************************************************************************)
EXTENDS MergeTransaction, FiniteSetTheorems, WellFoundedInduction, TLAPS

Labels == {"idle", "check", "read", "create", "write", "replace", "verify", "restore",
           "inspect", "undo", "recheck"}

TypeOK ==
  /\ state \in Contents
  /\ receipts \in [ReceiptPath -> Receipts \cup {Missing, Torn}]
  /\ pc \in [Proc -> Labels]
  /\ job \in [Proc -> [artifact : Artifact \cup {Missing}, path : ReceiptPath \cup {Missing}]]
  /\ held \in [Proc -> Receipts \cup {Missing, Torn}]

\* What an apply works on, and the receipt it has made up so far.
JobInv ==
  \A p \in Proc :
    /\ pc[p] \in {"check", "read", "create", "write"} =>
         job[p].artifact \in Artifact /\ job[p].path \in ReceiptPath
    /\ pc[p] \in Labels \ {"idle", "check", "read"} => held[p] \in Receipts

\* A receipt file that is being written has one writer and is not complete.
WriterInv ==
  \A p \in Proc : pc[p] = "write" =>
    /\ receipts[job[p].path] = Torn
    /\ \A q \in Proc \ {p} : pc[q] = "write" => job[q].path # job[p].path

\* There is a way back from these contents.
Undoable(c) == \/ c = Missing
               \/ c.by \notin Artifact
               \/ \E r \in ReceiptPath : Complete(r) /\ receipts[r].after = c

\* Beyond the check the receipt in memory is one of the files.
OnDisk(p) == \E r \in ReceiptPath : Complete(r) /\ receipts[r] = held[p]

UndoInv ==
  /\ Undoable(state)
  /\ \A r \in ReceiptPath : Complete(r) => Undoable(receipts[r].before)
  /\ \A p \in Proc :
       /\ pc[p] \in {"create", "write"} => Undoable(held[p].before)
       /\ pc[p] \in Labels \ {"idle", "check", "read", "create", "write"} => OnDisk(p)

\* Contents that an apply made were judged ready.
Ready(a) == ArtifactOf[a].decision = "ready"
Earned(c) == c = Missing \/ c.by \notin Artifact \/ Ready(c.by)

ReadyInv ==
  /\ Earned(state)
  /\ \A r \in ReceiptPath : Complete(r) => Earned(receipts[r].before) /\ Earned(receipts[r].after)
  /\ \A p \in Proc :
       /\ pc[p] \in {"read", "create", "write"} => Ready(job[p].artifact)
       /\ pc[p] \in {"create", "write"} => Earned(held[p].before) /\ Earned(held[p].after)

IInv == TypeOK /\ JobInv /\ WriterInv /\ UndoInv /\ ReadyInv

\* The gate's decision on whatever an apply has put into the state file is "ready".
OnlyReadyDecisions == Earned(state)

-----------------------------------------------------------------------------
\* What a receipt is made of, and that it is none of the other things a file may hold.
LEMMA ReceiptShape ==
  /\ Missing \in Contents /\ Origin \in Contents /\ Foreign \subseteq Contents
  /\ \A a \in Artifact : After(a) \in Contents
  /\ \A c \in Contents, a \in Artifact : [before |-> c, after |-> After(a)] \in Receipts
  /\ \A x \in Receipts : x \notin {Missing, Torn} /\ {x.before, x.after} \subseteq Contents
BY TransactionAssumption DEF Contents, Receipts

\* A call that ends leaves its process as it was.
LEMMA LeaveShape ==
  ASSUME TypeOK, NEW p \in Proc, Leave(p)
  PROVE  /\ pc' \in [Proc -> Labels]
         /\ job' \in [Proc -> [artifact : Artifact \cup {Missing}, path : ReceiptPath \cup {Missing}]]
         /\ held' \in [Proc -> Receipts \cup {Missing, Torn}]
BY DEF TypeOK, Leave, Goto, Idle, Labels

\* Every step keeps every variable to its kind.
LEMMA TypeStep ==
  ASSUME TypeOK, JobInv, [Next]_vars
  PROVE  TypeOK'
<1> USE TransactionAssumption, ReceiptShape DEF TypeOK, JobInv, Labels
<1>1. ASSUME NEW p \in Proc, NEW a \in Artifact, NEW r \in ReceiptPath,
           StartApply(p, a, r)
    PROVE  TypeOK'
  BY <1>1 DEF StartApply, Enter, Goto
<1>2. ASSUME NEW p \in Proc, CheckApplicable(p) PROVE TypeOK'
  <2>1. CASE Leave(p)
    BY <1>2, <2>1, LeaveShape DEF CheckApplicable, Step, files
  <2>2. CASE ~Leave(p)
    BY <1>2, <2>2 DEF CheckApplicable, Step, Goto, files
  <2>3. QED  BY <2>1, <2>2
<1>3. ASSUME NEW p \in Proc, ReadBefore(p) PROVE TypeOK'
  BY <1>3 DEF ReadBefore, Step, Goto, files
<1>4. ASSUME NEW p \in Proc, CreateReceipt(p) PROVE TypeOK'
  <2>1. CASE Leave(p)
    BY <1>4, <2>1, LeaveShape DEF CreateReceipt, Step
  <2>2. CASE ~Leave(p)
    BY <1>4, <2>2 DEF CreateReceipt, Step, Goto
  <2>3. QED  BY <2>1, <2>2
<1>5. ASSUME NEW p \in Proc, WriteReceipt(p) PROVE TypeOK'
  BY <1>5 DEF WriteReceipt, Step, Goto
<1>6. ASSUME NEW p \in Proc, ReplaceState(p) PROVE TypeOK'
  BY <1>6 DEF ReplaceState, Step, Goto
<1>7. ASSUME NEW p \in Proc, VerifyApplied(p) PROVE TypeOK'
  <2>1. CASE Leave(p)
    BY <1>7, <2>1, LeaveShape DEF VerifyApplied, Step, files
  <2>2. CASE ~Leave(p)
    BY <1>7, <2>2 DEF VerifyApplied, Step, Goto, files
  <2>3. QED  BY <2>1, <2>2
<1>8. ASSUME NEW p \in Proc, RestoreAfterFailure(p) PROVE TypeOK'
  BY <1>8, LeaveShape DEF RestoreAfterFailure
<1>9. ASSUME NEW p \in Proc, NEW r \in ReceiptPath, StartRollback(p, r) PROVE TypeOK'
  BY <1>9 DEF StartRollback, Enter, Goto, Complete
<1>10. ASSUME NEW p \in Proc, InspectDivergence(p) PROVE TypeOK'
  <2>1. CASE Leave(p)
    BY <1>10, <2>1, LeaveShape DEF InspectDivergence, Step, files
  <2>2. CASE ~Leave(p)
    BY <1>10, <2>2 DEF InspectDivergence, Step, Goto, files
  <2>3. QED  BY <2>1, <2>2
<1>11. ASSUME NEW p \in Proc, UndoState(p) PROVE TypeOK'
  <2>1. CASE Leave(p)
    BY <1>11, <2>1, LeaveShape DEF UndoState, Step
  <2>2. CASE ~Leave(p)
    BY <1>11, <2>2 DEF UndoState, Step, Goto
  <2>3. QED  BY <2>1, <2>2
<1>12. ASSUME NEW p \in Proc, RecheckRestored(p) PROVE TypeOK'
  BY <1>12, LeaveShape DEF RecheckRestored, files
<1>13. ASSUME NEW p \in Proc, Crash(p) PROVE TypeOK'
  BY <1>13 DEF Crash, Goto, Idle
<1>14. ASSUME EditState PROVE TypeOK'
  BY <1>14 DEF EditState
<1>15. CASE UNCHANGED vars
  BY <1>15 DEF vars
<1>16. QED  BY <1>1, <1>2, <1>3, <1>4, <1>5, <1>6, <1>7, <1>8, <1>9,
               <1>10, <1>11, <1>12, <1>13, <1>14, <1>15 DEF Next, Move

\* An apply keeps its artifact and its path until its receipt is written, and a call
\* its receipt to the end.
LEMMA JobStep ==
  ASSUME TypeOK, JobInv, [Next]_vars
  PROVE  JobInv'
<1> USE TransactionAssumption, ReceiptShape DEF TypeOK, JobInv, Labels
<1>1. ASSUME NEW p \in Proc, NEW a \in Artifact, NEW r \in ReceiptPath,
           StartApply(p, a, r)
    PROVE  JobInv'
  BY <1>1 DEF StartApply, Enter, Goto
<1>2. ASSUME NEW p \in Proc, CheckApplicable(p) PROVE JobInv'
  BY <1>2 DEF CheckApplicable, Step, Leave, Goto, Idle, files
<1>3. ASSUME NEW p \in Proc, ReadBefore(p) PROVE JobInv'
  BY <1>3 DEF ReadBefore, Step, Goto, files
<1>4. ASSUME NEW p \in Proc, CreateReceipt(p) PROVE JobInv'
  BY <1>4 DEF CreateReceipt, Step, Leave, Goto, Idle
<1>5. ASSUME NEW p \in Proc, WriteReceipt(p) PROVE JobInv'
  BY <1>5 DEF WriteReceipt, Step, Goto
<1>6. ASSUME NEW p \in Proc, ReplaceState(p) PROVE JobInv'
  BY <1>6 DEF ReplaceState, Step, Goto
<1>7. ASSUME NEW p \in Proc, VerifyApplied(p) PROVE JobInv'
  BY <1>7 DEF VerifyApplied, Step, Leave, Goto, Idle, files
<1>8. ASSUME NEW p \in Proc, RestoreAfterFailure(p) PROVE JobInv'
  BY <1>8 DEF RestoreAfterFailure, Leave, Goto, Idle
<1>9. ASSUME NEW p \in Proc, NEW r \in ReceiptPath, StartRollback(p, r) PROVE JobInv'
  BY <1>9 DEF StartRollback, Enter, Goto, Complete
<1>10. ASSUME NEW p \in Proc, InspectDivergence(p) PROVE JobInv'
  BY <1>10 DEF InspectDivergence, Step, Leave, Goto, Idle, files
<1>11. ASSUME NEW p \in Proc, UndoState(p) PROVE JobInv'
  BY <1>11 DEF UndoState, Step, Leave, Goto, Idle
<1>12. ASSUME NEW p \in Proc, RecheckRestored(p) PROVE JobInv'
  BY <1>12 DEF RecheckRestored, Leave, Goto, Idle, files
<1>13. ASSUME NEW p \in Proc, Crash(p) PROVE JobInv'
  BY <1>13 DEF Crash, Goto, Idle
<1>14. ASSUME EditState PROVE JobInv'
  BY <1>14 DEF EditState
<1>15. CASE UNCHANGED vars
  BY <1>15 DEF vars
<1>16. QED  BY <1>1, <1>2, <1>3, <1>4, <1>5, <1>6, <1>7, <1>8, <1>9,
               <1>10, <1>11, <1>12, <1>13, <1>14, <1>15 DEF Next, Move

\* O_EXCL gives a receipt path to one writer (transaction.py:51-58).
LEMMA WriterStep ==
  ASSUME TypeOK, JobInv, WriterInv, [Next]_vars
  PROVE  WriterInv'
<1> USE TransactionAssumption DEF TypeOK, JobInv, WriterInv, Labels
<1>1. ASSUME NEW p \in Proc, NEW a \in Artifact, NEW r \in ReceiptPath,
           StartApply(p, a, r)
    PROVE  WriterInv'
  BY <1>1 DEF StartApply, Enter, Goto
<1>2. ASSUME NEW p \in Proc, CheckApplicable(p) PROVE WriterInv'
  BY <1>2 DEF CheckApplicable, Step, Leave, Goto, Idle, files
<1>3. ASSUME NEW p \in Proc, ReadBefore(p) PROVE WriterInv'
  BY <1>3 DEF ReadBefore, Step, Goto, files
<1>4. ASSUME NEW p \in Proc, CreateReceipt(p) PROVE WriterInv'
  BY <1>4 DEF CreateReceipt, Step, Leave, Goto, Idle
<1>5. ASSUME NEW p \in Proc, WriteReceipt(p) PROVE WriterInv'
  BY <1>5 DEF WriteReceipt, Step, Goto
<1>6. ASSUME NEW p \in Proc, ReplaceState(p) PROVE WriterInv'
  BY <1>6 DEF ReplaceState, Step, Goto
<1>7. ASSUME NEW p \in Proc, VerifyApplied(p) PROVE WriterInv'
  BY <1>7 DEF VerifyApplied, Step, Leave, Goto, Idle, files
<1>8. ASSUME NEW p \in Proc, RestoreAfterFailure(p) PROVE WriterInv'
  BY <1>8 DEF RestoreAfterFailure, Leave, Goto, Idle
<1>9. ASSUME NEW p \in Proc, NEW r \in ReceiptPath, StartRollback(p, r) PROVE WriterInv'
  BY <1>9 DEF StartRollback, Enter, Goto
<1>10. ASSUME NEW p \in Proc, InspectDivergence(p) PROVE WriterInv'
  BY <1>10 DEF InspectDivergence, Step, Leave, Goto, Idle, files
<1>11. ASSUME NEW p \in Proc, UndoState(p) PROVE WriterInv'
  BY <1>11 DEF UndoState, Step, Leave, Goto, Idle
<1>12. ASSUME NEW p \in Proc, RecheckRestored(p) PROVE WriterInv'
  BY <1>12 DEF RecheckRestored, Leave, Goto, Idle, files
<1>13. ASSUME NEW p \in Proc, Crash(p) PROVE WriterInv'
  BY <1>13 DEF Crash, Goto, Idle
<1>14. ASSUME EditState PROVE WriterInv'
  BY <1>14 DEF EditState
<1>15. CASE UNCHANGED vars
  BY <1>15 DEF vars
<1>16. QED  BY <1>1, <1>2, <1>3, <1>4, <1>5, <1>6, <1>7, <1>8, <1>9,
               <1>10, <1>11, <1>12, <1>13, <1>14, <1>15 DEF Next, Move

\* A complete receipt is never written again (transaction.py:51-58).
LEMMA KeptStep ==
  ASSUME TypeOK, JobInv, WriterInv, [Next]_vars
  PROVE  \A r \in ReceiptPath : Complete(r) => receipts'[r] = receipts[r] /\ Complete(r)'
<1> USE TransactionAssumption DEF TypeOK, JobInv, WriterInv, Complete
<1> DEFINE Kept == \A r \in ReceiptPath : Complete(r) => receipts'[r] = receipts[r] /\ Complete(r)'
<1>1. ASSUME NEW p \in Proc, CreateReceipt(p) PROVE Kept
  BY <1>1 DEF CreateReceipt
<1>2. ASSUME NEW p \in Proc, WriteReceipt(p) PROVE Kept
  BY <1>2, ReceiptShape DEF WriteReceipt, Step, Labels
<1>3. ASSUME UNCHANGED receipts PROVE Kept
  BY <1>3
<1>4. QED
  BY <1>1, <1>2, <1>3 DEF Next, Move, EditState, StartApply, CheckApplicable, ReadBefore, ReplaceState,
     VerifyApplied, RestoreAfterFailure, StartRollback, InspectDivergence, UndoState,
     RecheckRestored, Crash, files, vars

\* The receipt is on disk before the state is replaced (transaction.py:152-169), a
\* complete receipt stays, and both ways back take their contents from one (171-178,
\* 210-217).
LEMMA UndoStep ==
  ASSUME TypeOK, JobInv, WriterInv, UndoInv, [Next]_vars
  PROVE  UndoInv'
<1> USE TransactionAssumption DEF TypeOK, JobInv, WriterInv, UndoInv, Labels
<1>1. ASSUME NEW p \in Proc, NEW a \in Artifact, NEW r \in ReceiptPath,
           StartApply(p, a, r)
    PROVE  UndoInv'
  BY <1>1 DEF StartApply, Enter, Goto, Undoable, OnDisk, Complete
<1>2. ASSUME NEW p \in Proc, CheckApplicable(p) PROVE UndoInv'
  BY <1>2 DEF CheckApplicable, Step, Leave, Goto, Idle, files, Undoable, OnDisk, Complete
<1>3. ASSUME NEW p \in Proc, ReadBefore(p) PROVE UndoInv'
  BY <1>3 DEF ReadBefore, Step, Goto, files, Undoable, OnDisk, Complete
<1>4. ASSUME NEW p \in Proc, CreateReceipt(p) PROVE UndoInv'
  <2>1. \A c : Undoable(c) => Undoable(c)'
    BY KeptStep, <1>4 DEF Undoable, Next, Move
  <2>2. \A q \in Proc : OnDisk(q) /\ held'[q] = held[q] => OnDisk(q)'
    BY KeptStep, <1>4 DEF OnDisk, Next, Move
  <2>3. \A r \in ReceiptPath : Complete(r)' => Complete(r) /\ receipts'[r] = receipts[r]
    BY <1>4 DEF CreateReceipt, Complete
  <2>4. CASE receipts[job[p].path] = Missing
    BY <1>4, <2>1, <2>2, <2>3, <2>4 DEF CreateReceipt, Step, Goto
  <2>5. CASE receipts[job[p].path] # Missing
    BY <1>4, <2>1, <2>2, <2>3, <2>5 DEF CreateReceipt, Leave, Goto
  <2>6. QED  BY <2>4, <2>5
<1>5. ASSUME NEW p \in Proc, WriteReceipt(p) PROVE UndoInv'
  <2>1. \A c : Undoable(c) => Undoable(c)'
    BY KeptStep, <1>5 DEF Undoable, Next, Move
  <2>2. \A q \in Proc : OnDisk(q) /\ held'[q] = held[q] => OnDisk(q)'
    BY KeptStep, <1>5 DEF OnDisk, Next, Move
  <2>3. \A r \in ReceiptPath :
          Complete(r)' => r = job[p].path \/ (Complete(r) /\ receipts'[r] = receipts[r])
    BY <1>5 DEF WriteReceipt, Step, Complete
  <2>4. OnDisk(p)'
    BY <1>5, ReceiptShape DEF WriteReceipt, Step, OnDisk, Complete
  <2>5. QED  BY <1>5, <2>1, <2>2, <2>3, <2>4 DEF WriteReceipt, Step, Goto
<1>6. ASSUME NEW p \in Proc, ReplaceState(p) PROVE UndoInv'
  BY <1>6 DEF ReplaceState, Step, Goto, Undoable, OnDisk, Complete
<1>7. ASSUME NEW p \in Proc, VerifyApplied(p) PROVE UndoInv'
  BY <1>7 DEF VerifyApplied, Step, Leave, Goto, Idle, files, Undoable, OnDisk, Complete
<1>8. ASSUME NEW p \in Proc, RestoreAfterFailure(p) PROVE UndoInv'
  BY <1>8 DEF RestoreAfterFailure, Leave, Goto, Idle, Undoable, OnDisk, Complete
<1>9. ASSUME NEW p \in Proc, NEW r \in ReceiptPath, StartRollback(p, r) PROVE UndoInv'
  BY <1>9 DEF StartRollback, Enter, Goto, Undoable, OnDisk, Complete
<1>10. ASSUME NEW p \in Proc, InspectDivergence(p) PROVE UndoInv'
  BY <1>10 DEF InspectDivergence, Step, Leave, Goto, Idle, files, Undoable, OnDisk, Complete
<1>11. ASSUME NEW p \in Proc, UndoState(p) PROVE UndoInv'
  BY <1>11 DEF UndoState, Step, Leave, Goto, Idle, Undoable, OnDisk, Complete
<1>12. ASSUME NEW p \in Proc, RecheckRestored(p) PROVE UndoInv'
  BY <1>12 DEF RecheckRestored, Leave, Goto, Idle, files, Undoable, OnDisk, Complete
<1>13. ASSUME NEW p \in Proc, Crash(p) PROVE UndoInv'
  BY <1>13 DEF Crash, Goto, Idle, Undoable, OnDisk, Complete
<1>14. ASSUME EditState PROVE UndoInv'
  BY <1>14 DEF EditState, Undoable, OnDisk, Complete
<1>15. CASE UNCHANGED vars
  BY <1>15 DEF vars, Undoable, OnDisk, Complete
<1>16. QED  BY <1>1, <1>2, <1>3, <1>4, <1>5, <1>6, <1>7, <1>8, <1>9,
               <1>10, <1>11, <1>12, <1>13, <1>14, <1>15 DEF Next, Move

\* Only a ready artifact passes the check (transaction.py:147-151), and everything
\* written later comes from such an artifact or was there before.
LEMMA ReadyStep ==
  ASSUME TypeOK, JobInv, WriterInv, UndoInv, ReadyInv, [Next]_vars
  PROVE  ReadyInv'
<1> USE TransactionAssumption DEF TypeOK, JobInv, UndoInv, ReadyInv, Labels
<1>1. ASSUME NEW p \in Proc, NEW a \in Artifact, NEW r \in ReceiptPath,
           StartApply(p, a, r)
    PROVE  ReadyInv'
  BY <1>1 DEF StartApply, Enter, Goto, OnDisk, Earned, Complete
<1>2. ASSUME NEW p \in Proc, CheckApplicable(p) PROVE ReadyInv'
  BY <1>2 DEF CheckApplicable, Step, Leave, Goto, Idle, files, OnDisk, Earned, Complete, Applicable, Ready
<1>3. ASSUME NEW p \in Proc, ReadBefore(p) PROVE ReadyInv'
  BY <1>3 DEF ReadBefore, Step, Goto, files, OnDisk, Earned, Complete, After, Content
<1>4. ASSUME NEW p \in Proc, CreateReceipt(p) PROVE ReadyInv'
  <2>1. \A r \in ReceiptPath : Complete(r)' => Complete(r) /\ receipts'[r] = receipts[r]
    BY <1>4 DEF CreateReceipt, Complete
  <2>2. QED  BY <1>4, <2>1 DEF CreateReceipt, Step, Leave, Goto, Earned, Ready
<1>5. ASSUME NEW p \in Proc, WriteReceipt(p) PROVE ReadyInv'
  BY <1>5 DEF WriteReceipt, Step, Goto, OnDisk, Earned, Complete
<1>6. ASSUME NEW p \in Proc, ReplaceState(p) PROVE ReadyInv'
  BY <1>6 DEF ReplaceState, Step, Goto, OnDisk, Earned, Complete
<1>7. ASSUME NEW p \in Proc, VerifyApplied(p) PROVE ReadyInv'
  BY <1>7 DEF VerifyApplied, Step, Leave, Goto, Idle, files, OnDisk, Earned, Complete
<1>8. ASSUME NEW p \in Proc, RestoreAfterFailure(p) PROVE ReadyInv'
  BY <1>8 DEF RestoreAfterFailure, Leave, Goto, Idle, OnDisk, Earned, Complete
<1>9. ASSUME NEW p \in Proc, NEW r \in ReceiptPath, StartRollback(p, r) PROVE ReadyInv'
  BY <1>9 DEF StartRollback, Enter, Goto, OnDisk, Earned, Complete
<1>10. ASSUME NEW p \in Proc, InspectDivergence(p) PROVE ReadyInv'
  BY <1>10 DEF InspectDivergence, Step, Leave, Goto, Idle, files, OnDisk, Earned, Complete
<1>11. ASSUME NEW p \in Proc, UndoState(p) PROVE ReadyInv'
  BY <1>11 DEF UndoState, Step, Leave, Goto, Idle, OnDisk, Earned, Complete
<1>12. ASSUME NEW p \in Proc, RecheckRestored(p) PROVE ReadyInv'
  BY <1>12 DEF RecheckRestored, Leave, Goto, Idle, files, OnDisk, Earned, Complete
<1>13. ASSUME NEW p \in Proc, Crash(p) PROVE ReadyInv'
  BY <1>13 DEF Crash, Goto, Idle, OnDisk, Earned, Complete
<1>14. ASSUME EditState PROVE ReadyInv'
  BY <1>14 DEF EditState, OnDisk, Earned, Complete
<1>15. CASE UNCHANGED vars
  BY <1>15 DEF vars, OnDisk, Earned, Complete
<1>16. QED  BY <1>1, <1>2, <1>3, <1>4, <1>5, <1>6, <1>7, <1>8, <1>9,
               <1>10, <1>11, <1>12, <1>13, <1>14, <1>15 DEF Next, Move

\* The invariant behind the theorems below, inductive as it stands.
THEOREM InvariantHolds == Spec => []IInv
<1>1. Init => IInv
  <2> SUFFICES ASSUME Init PROVE IInv  OBVIOUS
  <2> USE TransactionAssumption DEF Init
  <2>1. TypeOK  BY DEF TypeOK, Labels, Contents, Idle
  <2>2. JobInv  BY DEF JobInv
  <2>3. WriterInv  BY DEF WriterInv
  <2>4. UndoInv  BY DEF UndoInv, Undoable, Complete
  <2>5. ReadyInv  BY DEF ReadyInv, Earned, Complete
  <2>6. QED  BY <2>1, <2>2, <2>3, <2>4, <2>5 DEF IInv
<1>2. IInv /\ [Next]_vars => IInv'
  BY TypeStep, JobStep, WriterStep, UndoStep, ReadyStep DEF IInv
<1>3. QED  BY <1>1, <1>2, PTL DEF Spec

\* Recovery data is never lost: every interleaving of applies, restores and rollbacks,
\* crashes and raising accesses leaves a complete receipt for what apply has put into
\* the file, and a way back from what that receipt restores (transaction.py:140-217).
THEOREM RecoveryDataStays == Spec => []UndoChain
<1>1. IInv => UndoChain
  BY DEF IInv, UndoInv, Undoable, UndoChain
<1>2. QED  BY <1>1, InvariantHolds, PTL

\* A complete receipt keeps its contents ("Receipt paths cannot be reused",
\* docs/TRANSACTIONS.md; transaction.py:51-58).
THEOREM ReceiptsStay == Spec => ReceiptsKept
<1>1. IInv /\ [Next]_vars => [\A r \in ReceiptPath : Complete(r) => receipts'[r] = receipts[r]]_receipts
  BY KeptStep DEF IInv
<1>2. QED  BY <1>1, InvariantHolds, PTL DEF Spec, ReceiptsKept

\* Whatever races or fails, only contents that the gate judged ready are in the state
\* file, beside those that other programs put there (transaction.py:147-151).
THEOREM AppliedIsReady == Spec => []OnlyReadyDecisions
<1>1. IInv => OnlyReadyDecisions
  BY DEF IInv, ReadyInv, OnlyReadyDecisions
<1>2. QED  BY <1>1, InvariantHolds, PTL

-----------------------------------------------------------------------------
(* Sums over finite sets: the iteration of the library's folds.            *)

\* Induction, for a set of numbers in place of a property.
LEMMA SetOfNumbers ==
  ASSUME NEW T, 0 \in T, \A n \in T : n \in Nat => n + 1 \in T
  PROVE  Nat \subseteq T
<1> DEFINE S == FiniteSubsetsOf(Nat)
           R == StrictSubsetOrdering(Nat)
           Upto(n) == 1..n
           U == {1..n : n \in Nat \ T}
<1>1. SUFFICES ASSUME U # {} PROVE FALSE
  OBVIOUS
<1>2. IsWellFoundedOn(R, S)
  BY FS_StrictSubsetOrderingWellFounded
<1>3. U \subseteq S
  <2> SUFFICES ASSUME NEW n \in Nat PROVE 1..n \in S
    OBVIOUS
  <2>1. IsFiniteSet(1..n) /\ 1..n \in SUBSET Nat
    BY FS_Interval
  <2>2. QED
    BY <2>1 DEF FiniteSubsetsOf
<1> HIDE DEF R, S
<1>4. PICK x \in U : \A y \in U : <<y, x>> \notin R
  BY ONLY <1>1, <1>2, <1>3, WFMin
<1>5. PICK n \in Nat \ T : x = 1..n
  BY <1>4
<1>6. n \in Nat /\ n # 0 /\ n - 1 \in Nat /\ n - 1 \notin T
  <2>1. n \in Nat /\ n \notin T /\ n # 0
    BY <1>5
  <2>2. n - 1 \in Nat /\ (n - 1) + 1 = n
    BY <2>1
  <2>3. QED
    BY <2>1, <2>2
<1>7. 1..(n-1) \in U
  BY <1>6
<1>8. 1..(n-1) \subseteq 1..n /\ n \in 1..n /\ n \notin 1..(n-1) /\ 1..n \in SUBSET Nat
  BY <1>6
<1>9. <<1..(n-1), 1..n>> \in R
  BY <1>8 DEF R, StrictSubsetOrdering
<1>10. QED
  BY <1>4, <1>5, <1>7, <1>9

\* Sets of subsets of S that are closed under one more element have them all.
LEMMA AllSubsets ==
  ASSUME NEW S, IsFiniteSet(S), NEW T,
         \A s \in SUBSET S : (\A u \in SUBSET s : u # s => u \in T) => s \in T
  PROVE  SUBSET S \subseteq T
<1> DEFINE F == FiniteSubsetsOf(S)
           R == StrictSubsetOrdering(S)
           U == (SUBSET S) \ T
<1>1. SUFFICES ASSUME U # {} PROVE FALSE
  OBVIOUS
<1>2. IsWellFoundedOn(R, F)
  BY FS_StrictSubsetOrderingWellFounded
<1>3. U \subseteq F
  BY FS_Subset DEF FiniteSubsetsOf
<1> HIDE DEF R, F
<1>4. PICK s \in U : \A u \in U : <<u, s>> \notin R
  <2> HIDE DEF U
  <2>1. QED
    BY ONLY <1>1, <1>2, <1>3, WFMin
<1>5. ASSUME NEW u \in SUBSET s, u # s PROVE u \in T
  <2>1. <<u, s>> \in R
    BY <1>5 DEF R, StrictSubsetOrdering
  <2>2. QED
    BY <2>1, <1>4
<1>6. s \in SUBSET S /\ s \notin T
  BY <1>4
<1>7. s \in T
  BY <1>5, <1>6
<1>8. QED
  BY <1>6, <1>7

\* it sums up the weights w over the subsets of S.
IsSum(it, w, S) ==
  it = [s \in SUBSET S |->
          IF s = {} THEN 0
          ELSE LET x == CHOOSE x \in s : TRUE IN w[x] + it[s \ {x}]]

LEMMA SumExists ==
  ASSUME NEW S, IsFiniteSet(S), NEW w
  PROVE  \E it : IsSum(it, w, S)
<1> DEFINE C(s) == CHOOSE x \in s : TRUE
           Small(n) == {s \in SUBSET S : Cardinality(s) <= n}
           Upto(g, n) == g = [s \in Small(n) |-> IF s = {} THEN 0 ELSE w[C(s)] + g[s \ {C(s)}]]
           T == {n \in Nat : \E g : Upto(g, n)}
<1>1. \A s \in SUBSET S : /\ IsFiniteSet(s) /\ Cardinality(s) \in Nat
                          /\ Cardinality(s) = 0 <=> s = {}
                          /\ Cardinality(s) <= Cardinality(S)
  BY FS_Subset, FS_CardinalityType, FS_EmptySet
<1>2. \A s \in SUBSET S : s # {} =>
        C(s) \in s /\ s \ {C(s)} \in SUBSET S /\ Cardinality(s \ {C(s)}) = Cardinality(s) - 1
  BY <1>1, FS_RemoveElement
<1> HIDE DEF C
<1>3. 0 \in T
  <2> DEFINE g == [s \in Small(0) |-> 0]
  <2>1. \A s \in Small(0) : s = {}
    BY <1>1
  <2>2. Upto(g, 0)
    BY <2>1
  <2>3. QED
    BY <2>2
<1>4. ASSUME NEW n \in Nat, n \in T PROVE n + 1 \in T
  <2>1. PICK g : Upto(g, n)
    BY <1>4
  <2> DEFINE h == [s \in Small(n + 1) |-> IF s = {} THEN 0 ELSE w[C(s)] + g[s \ {C(s)}]]
  <2>2. Small(n) \subseteq Small(n + 1)
    BY <1>1
  <2>3. \A u \in Small(n) : h[u] = g[u]
    BY <2>1, <2>2
  <2>4. \A s \in Small(n + 1) : s # {} => s \ {C(s)} \in Small(n)
    BY <1>1, <1>2
  <2> HIDE DEF Small
  <2>5. Upto(h, n + 1)
    BY <2>3, <2>4
  <2> HIDE DEF Upto, h
  <2>6. \E f : Upto(f, n + 1)
    BY <2>5
  <2>7. QED
    BY <2>6
<1>5. Nat \subseteq T
  <2> HIDE DEF T
  <2>1. QED
    BY <1>3, <1>4, SetOfNumbers
<1>6. PICK it : Upto(it, Cardinality(S))
  BY <1>1, <1>5
<1>7. Small(Cardinality(S)) = SUBSET S
  BY <1>1
<1> HIDE DEF Small
<1>8. IsSum(it, w, S)
  BY <1>6, <1>7 DEF IsSum, C
<1>9. QED
  BY <1>8

\* A sum whose terms can be taken in any order.
Additive(it, w, S) ==
  /\ it[{}] = 0
  /\ \A s \in SUBSET S : it[s] \in Nat /\ \A x \in s : it[s] = w[x] + it[s \ {x}]

\* The order in which the elements are chosen does not matter.
LEMMA SumTakesAny ==
  ASSUME NEW S, IsFiniteSet(S), NEW w \in [S -> Nat], NEW it, IsSum(it, w, S)
  PROVE  Additive(it, w, S)
<1> DEFINE Chosen(s) == it[s] \in Nat /\ \A x \in s : it[s] = w[x] + it[s \ {x}]
           T == {s \in SUBSET S : Chosen(s)}
<1>1. it[{}] = 0
  BY DEF IsSum
<1>2. ASSUME NEW s \in SUBSET S, \A u \in SUBSET s : u # s => u \in T
      PROVE  Chosen(s)
  <2>1. CASE s = {}
    BY <1>1, <2>1
  <2>2. CASE s # {}
    <3>1. PICK c \in s : it[s] = w[c] + it[s \ {c}]
      BY <2>2 DEF IsSum
    <3>2. s \ {c} \in T
      BY <1>2
    <3>3. it[s] \in Nat
      BY <3>1, <3>2
    <3>4. ASSUME NEW x \in s, x # c PROVE it[s] = w[x] + it[s \ {x}]
      <4>1. s \ {x} \in T /\ x \in s \ {c} /\ c \in s \ {x}
        BY <1>2, <3>4
      <4>2. (s \ {c}) \ {x} = (s \ {x}) \ {c}
        OBVIOUS
      <4>3. it[s \ {c}] = w[x] + it[(s \ {c}) \ {x}] /\ it[s \ {x}] = w[c] + it[(s \ {x}) \ {c}]
        BY <3>2, <4>1
      <4>4. (s \ {c}) \ {x} \in T
        BY <1>2
      <4>5. it[(s \ {c}) \ {x}] \in Nat /\ w[x] \in Nat /\ w[c] \in Nat
        BY <4>4
      <4>6. QED
        BY <3>1, <4>2, <4>3, <4>5
    <3>5. QED
      BY <3>1, <3>3, <3>4
  <2>3. QED
    BY <2>1, <2>2
<1>3. SUBSET S \subseteq T
  <2>1. \A s \in SUBSET S : (\A u \in SUBSET s : u # s => u \in T) => s \in T
    BY <1>2
  <2> HIDE DEF T
  <2>2. QED
    BY <2>1, AllSubsets
<1>4. QED
  BY <1>1, <1>3 DEF Additive

\* The sequence has the elements of S, each of them once; the weights are the same.
SameTerms(seq, n, S, w, v) ==
  /\ \A i, j \in 1..n : seq[i] = seq[j] => i = j
  /\ \A i \in 1..n : seq[i] \in S /\ v[i] = w[seq[i]]
  /\ \A x \in S : \E i \in 1..n : seq[i] = x

\* The sum over a sequence without repetitions is that over its elements.
LEMMA SumOfSequence ==
  ASSUME NEW n \in Nat, NEW S, NEW w \in [S -> Nat], NEW v \in [1..n -> Nat],
         NEW seq, SameTerms(seq, n, S, w, v),
         NEW it, IsSum(it, w, S), NEW jt, IsSum(jt, v, 1..n)
  PROVE  it[S] = jt[1..n]
<1> DEFINE Image(k) == {seq[i] : i \in 1..k}
           T == {k \in Nat : k <= n => it[Image(k)] = jt[1..k]}
<1>1. IsFiniteSet(1..n) /\ IsFiniteSet(S)
  <2> DEFINE f == [i \in 1..n |-> seq[i]]
  <2>1. IsFiniteSet(1..n)
    BY FS_Interval
  <2>2. f \in Surjection(1..n, S)
    BY DEF Surjection, SameTerms
  <2>3. QED
    BY <2>1, <2>2, FS_Surjection
<1>2. Additive(it, w, S)
  BY <1>1, SumTakesAny
<1>3. Additive(jt, v, 1..n)
  BY <1>1, SumTakesAny
<1> HIDE DEF Image
<1>4. 0 \in T
  <2>1. Image(0) = {} /\ 1..0 = {}
    BY DEF Image, SameTerms
  <2>2. QED
    BY <2>1, <1>2, <1>3 DEF Additive
<1>5. ASSUME NEW k \in Nat, k \in T PROVE k + 1 \in T
  <2> SUFFICES ASSUME k + 1 <= n PROVE it[Image(k + 1)] = jt[1..(k + 1)]
    OBVIOUS
  <2>1. /\ k + 1 \in 1..n /\ k + 1 \in 1..(k + 1) /\ 1..(k + 1) \in SUBSET (1..n)
        /\ (1..(k + 1)) \ {k + 1} = 1..k
    OBVIOUS
  <2>2. /\ seq[k + 1] \in Image(k + 1) /\ Image(k + 1) \in SUBSET S
        /\ Image(k + 1) \ {seq[k + 1]} = Image(k)
    <3>1. seq[k + 1] \in Image(k + 1) /\ Image(k + 1) \in SUBSET S
      BY <2>1 DEF Image, SameTerms
    <3>2. \A i \in 1..(k + 1) : i \in 1..k \/ i = k + 1
      OBVIOUS
    <3>3. \A i \in 1..k : i \in 1..n /\ i # k + 1 /\ i \in 1..(k + 1)
      BY <2>1
    <3>4. Image(k + 1) \ {seq[k + 1]} \subseteq Image(k)
      BY <3>2 DEF Image
    <3>5. Image(k) \subseteq Image(k + 1) \ {seq[k + 1]}
      BY <2>1, <3>3 DEF Image, SameTerms
    <3>6. QED
      BY <3>1, <3>4, <3>5
  <2>3. it[Image(k + 1)] = w[seq[k + 1]] + it[Image(k)]
    <3>1. ASSUME NEW s \in SUBSET S, NEW x \in s, NEW u, u = s \ {x}
          PROVE  it[s] = w[x] + it[u]
      BY <1>2, <3>1 DEF Additive
    <3>2. QED
      BY <2>2, <3>1
  <2>4. jt[1..(k + 1)] = v[k + 1] + jt[1..k]
    <3>1. ASSUME NEW s \in SUBSET (1..n), NEW x \in s, NEW u, u = s \ {x}
          PROVE  jt[s] = v[x] + jt[u]
      BY <1>3, <3>1 DEF Additive
    <3>2. PICK s, u : s = 1..(k + 1) /\ u = 1..k
      OBVIOUS
    <3>3. s \in SUBSET (1..n) /\ k + 1 \in s /\ u = s \ {k + 1}
      BY <2>1, <3>2
    <3>4. jt[s] = v[k + 1] + jt[u]
      BY <3>1, <3>3
    <3>5. QED
      BY <3>2, <3>4
  <2>5. QED
    BY <1>5, <2>1, <2>3, <2>4 DEF SameTerms
<1>6. Nat \subseteq T
  <2> HIDE DEF T
  <2>1. QED
    BY <1>4, <1>5, SetOfNumbers
<1>7. n \in T
  BY <1>6
<1>8. Image(n) = S
  BY DEF Image, SameTerms
<1>9. it[Image(n)] = jt[1..n]
  BY <1>7
<1>10. QED
  BY <1>8, <1>9

-----------------------------------------------------------------------------
(* What a ready decision says.                                             *)

LinesOf(c) == c.additions + c.deletions

\* The total that the gate compares is what summing up the list of changes gives: no two
\* changes of a valid snapshot are equal, so that their set has them all.
LEMMA LinesAreTotal ==
  ASSUME NEW s, SnapshotValid(s)
  PROVE  Inventory(s).changed_lines
           = FoldSeq(LAMBDA c, n : c.additions + c.deletions + n, 0, s.changes)
<1> DEFINE seq == s.changes
           n == Len(seq)
           S == ChangeSet(s)
           w == [c \in S |-> LinesOf(c)]
           v == [i \in 1..n |-> LinesOf(seq[i])]
           P(it) == it = [u \in SUBSET S |->
                            IF u = {} THEN 0
                            ELSE LET x == CHOOSE x \in u : TRUE
                                 IN  (x.additions + x.deletions) + it[u \ {x}]]
           Q(it) == it = [u \in SUBSET (1..n) |->
                            IF u = {} THEN 0
                            ELSE LET x == CHOOSE x \in u : TRUE
                                 IN  (seq[x].additions + seq[x].deletions) + it[u \ {x}]]
<1>1. /\ n \in Nat /\ DOMAIN seq = 1..n
      /\ \A i \in 1..n : ChangeValid(seq[i])
      /\ \A i, j \in 1..n : seq[i] = seq[j] => i = j
  <2>1. /\ n \in Nat /\ DOMAIN seq = 1..n
        /\ \A i \in 1..n : ChangeValid(seq[i])
    BY DEF SnapshotValid
  <2> DEFINE path == [i \in DOMAIN seq |-> seq[i].path]
  <2>2. \A i, j \in 1..n : path[i] = path[j] => i = j
    BY <2>1 DEF SnapshotValid, IsInjective
  <2>3. \A i, j \in 1..n : seq[i] = seq[j] => path[i] = path[j]
    BY <2>1
  <2>4. QED
    BY <2>1, <2>2, <2>3
<1>2. S = {seq[i] : i \in 1..n}
  BY <1>1 DEF ChangeSet, Range
<1>3. w \in [S -> Nat] /\ v \in [1..n -> Nat] /\ \A i \in 1..n : v[i] = w[seq[i]]
  BY <1>1, <1>2 DEF ChangeValid, LinesOf
<1>4. IsFiniteSet(S) /\ IsFiniteSet(1..n)
  <2> DEFINE f == [i \in 1..n |-> seq[i]]
  <2>1. IsFiniteSet(1..n)
    BY <1>1, FS_Interval
  <2>2. f \in Surjection(1..n, S)
    BY <1>2 DEF Surjection
  <2>3. QED
    BY <2>1, <2>2, FS_Surjection
<1>5. (\A it : IsSum(it, w, S) <=> P(it)) /\ (\A it : IsSum(it, v, 1..n) <=> Q(it))
  BY DEF IsSum, LinesOf
<1>6. Inventory(s).changed_lines = (CHOOSE it : P(it))[S]
  BY DEF Inventory, MapThenSumSet, MapThenFoldSet
<1>7. FoldSeq(LAMBDA c, m : c.additions + c.deletions + m, 0, seq) = (CHOOSE it : Q(it))[1..n]
  BY <1>1 DEF FoldSeq, FoldFunction, FoldFunctionOnSet, MapThenFoldSet
<1> HIDE DEF seq, n, S, w, v
<1>8. (\E it : P(it)) /\ (\E it : Q(it))
  <2>1. (\E it : IsSum(it, w, S)) /\ (\E it : IsSum(it, v, 1..n))
    BY <1>4, SumExists
  <2> HIDE DEF P, Q
  <2>2. QED
    BY <2>1, <1>5
<1> HIDE DEF P, Q
<1>9. P(CHOOSE it : P(it)) /\ Q(CHOOSE it : Q(it))
  BY <1>8
<1>10. PICK it, jt : /\ it = (CHOOSE f : P(f)) /\ jt = (CHOOSE f : Q(f))
                     /\ IsSum(it, w, S) /\ IsSum(jt, v, 1..n)
  BY <1>5, <1>9
<1>11. it[S] = jt[1..n]
  <2>1. SameTerms(seq, n, S, w, v)
    BY <1>1, <1>2, <1>3 DEF SameTerms
  <2>2. QED
    BY <1>1, <1>3, <1>10, <2>1, SumOfSequence
<1>12. QED
  BY <1>6, <1>7, <1>10, <1>11 DEF seq

\* Every check of a ready decision succeeded.
LEMMA ReadyPassed ==
  ASSUME NEW s, NEW p, SnapshotValid(s), GateEvaluate(s, p).decision = "ready"
  PROVE  /\ s.expected_sha = s.observed_sha
         /\ \A n \in Range(s.required_ci) \cup Range(s.optional_ci) :
              n \in DOMAIN s.ci /\ s.ci[n] = "success"
         /\ s.tests_complete /\ s.tests_passed /\ s.clean_tree
         /\ s.secret_scan_complete /\ s.secret_findings = 0
         /\ Inventory(s).files <= p.max_changed_files
         /\ Inventory(s).changed_lines <= p.max_changed_lines
<1>1. \A c \in Checks(s, p) : c.state = "success"
  BY DEF GateEvaluate, DecisionOf
<1>2. ASSUME NEW n \in Range(s.required_ci) \cup Range(s.optional_ci)
      PROVE  n \in DOMAIN s.ci /\ s.ci[n] = "success"
  <2>1. \E r \in BOOLEAN : Check(<<"ci", n>>, Observed(s, n), r) \in Checks(s, p)
    BY DEF Checks
  <2>2. Observed(s, n) = "success"
    BY <1>1, <2>1 DEF Check
  <2>3. QED
    BY <2>2 DEF Observed
<1>3. ASSUME NEW name, NEW result, NEW r, Check(name, result, r) \in Checks(s, p)
      PROVE  result = "success"
  BY <1>1, <1>3 DEF Check
<1> DEFINE As(ok) == IF ok THEN "success" ELSE "failure"
<1>4. /\ s.expected_sha = s.observed_sha
      /\ s.tests_complete /\ s.tests_passed
      /\ s.secret_scan_complete /\ s.secret_findings = 0
      /\ s.clean_tree
      /\ Inventory(s).files <= p.max_changed_files
      /\ Inventory(s).changed_lines <= p.max_changed_lines
  <2>1. s.expected_sha = s.observed_sha
    <3>1. Check(<<"sha-match">>, As(s.expected_sha = s.observed_sha), TRUE) \in Checks(s, p)
      BY DEF Checks, Passed
    <3>2. As(s.expected_sha = s.observed_sha) = "success"
      BY <1>3, <3>1
    <3>3. QED
      BY <3>2
  <2>2. s.tests_complete /\ s.tests_passed
    <3>1. Check(<<"tests">>, As(s.tests_complete /\ s.tests_passed), p.require_tests)
            \in Checks(s, p)
      BY DEF Checks, Passed
    <3>2. As(s.tests_complete /\ s.tests_passed) = "success"
      BY <1>3, <3>1
    <3>3. QED
      BY <3>2
  <2>3. s.secret_scan_complete /\ s.secret_findings = 0
    <3>1. Check(<<"secrets">>, As(s.secret_scan_complete /\ s.secret_findings = 0),
                p.require_secret_scan) \in Checks(s, p)
      BY DEF Checks, Passed
    <3>2. As(s.secret_scan_complete /\ s.secret_findings = 0) = "success"
      BY <1>3, <3>1
    <3>3. QED
      BY <3>2
  <2>4. s.clean_tree
    <3>1. Check(<<"clean-tree">>, As(s.clean_tree), p.require_clean_tree) \in Checks(s, p)
      BY DEF Checks, Passed
    <3>2. As(s.clean_tree) = "success"
      BY <1>3, <3>1
    <3>3. QED
      BY <3>2
  <2>5. Inventory(s).files <= p.max_changed_files
    <3>1. Check(<<"changed-files-limit">>, As(Inventory(s).files <= p.max_changed_files), TRUE)
            \in Checks(s, p)
      BY DEF Checks, Passed
    <3>2. As(Inventory(s).files <= p.max_changed_files) = "success"
      BY <1>3, <3>1
    <3>3. QED
      BY <3>2
  <2>6. Inventory(s).changed_lines <= p.max_changed_lines
    <3>1. Check(<<"changed-lines-limit">>,
                As(Inventory(s).changed_lines <= p.max_changed_lines), TRUE) \in Checks(s, p)
      BY DEF Checks, Passed
    <3>2. As(Inventory(s).changed_lines <= p.max_changed_lines) = "success"
      BY <1>3, <3>1
    <3>3. QED
      BY <3>2
  <2>7. QED
    BY <2>1, <2>2, <2>3, <2>4, <2>5, <2>6
<1>5. QED
  BY <1>2, <1>4

\* Only what the gate found ready ever reaches the state file: every CI check, the tests and
\* the scan succeeded on the observed base, and the change is within its policy's limits,
\* whatever races or failures brought the contents there (gate.py:19-74, transaction.py:148-151).
THEOREM AppliedPassedTheGate == Spec => []OnlyReadyIsApplied
<1>1. OnlyReadyDecisions => OnlyReadyIsApplied
  <2> SUFFICES ASSUME OnlyReadyDecisions, state # Missing, state.by \in Artifact,
                      NEW s, s = Snapshot(state.by), NEW p, p = Policy(state.by)
               PROVE  /\ s.expected_sha = s.observed_sha
                      /\ \A n \in Range(s.required_ci) \cup Range(s.optional_ci) :
                           n \in DOMAIN s.ci /\ s.ci[n] = "success"
                      /\ s.tests_complete /\ s.tests_passed /\ s.clean_tree
                      /\ s.secret_scan_complete /\ s.secret_findings = 0
                      /\ Len(s.changes) <= p.max_changed_files
                      /\ FoldSeq(LAMBDA c, n : c.additions + c.deletions + n, 0, s.changes)
                           <= p.max_changed_lines
    BY DEF OnlyReadyIsApplied
  <2>1. GateEvaluate(s, p).decision = "ready" /\ SnapshotValid(s)
    BY TransactionAssumption DEF OnlyReadyDecisions, Earned, Ready, ArtifactOf
  <2>2. Inventory(s).files = Len(s.changes)
    BY DEF Inventory
  <2>3. QED
    BY <2>1, <2>2, ReadyPassed, LinesAreTotal
<1>2. QED
  BY <1>1, AppliedIsReady, PTL

-----------------------------------------------------------------------------
(* Callers that take turns.                                                *)

\* Who is in a call holds the external lock.
SoloInv == exclusive => \A p \in Proc : pc[p] # "idle" => lock = p

\* What the state file holds at each stage of a call that is alone.
AtStage(p) ==
  /\ pc[p] = "read" => Applicable(job[p].artifact)
  /\ pc[p] \in {"create", "write"} =>
       Applicable(job[p].artifact) /\ held[p] = [before |-> state, after |-> After(job[p].artifact)]
  /\ pc[p] = "replace" => state = held[p].before
  /\ pc[p] = "verify" => state = held[p].after
  /\ pc[p] \in {"restore", "undo"} => state \in {held[p].before, held[p].after}

TurnInv == exclusive => \A p \in Proc : AtStage(p)

LEMMA SoleActor ==
  ASSUME SoloInv, exclusive, NEW p \in Proc, pc[p] # "idle" \/ (exclusive => lock = Nobody)
  PROVE  \A q \in Proc : q # p => pc[q] = "idle"
BY TransactionAssumption DEF SoloInv

LEMMA StageKept ==
  ASSUME TypeOK, NEW p \in Proc, \A q \in Proc : q # p => pc[q] = "idle",
         NEW label, pc' = [pc EXCEPT ![p] = label], lock' = p \/ label = "idle", AtStage(p)'
  PROVE  SoloInv' /\ TurnInv'
<1>1. \A q \in Proc : q # p => pc'[q] = "idle"
  BY DEF TypeOK
<1>2. pc'[p] = label
  BY DEF TypeOK
<1>3. \A q \in Proc : AtStage(q)'
  BY <1>1 DEF AtStage
<1>4. QED
  BY <1>1, <1>2, <1>3 DEF SoloInv, TurnInv

\* Among callers that take turns, what one has found stays true until its next step.
LEMMA TurnStep ==
  ASSUME TypeOK, SoloInv, TurnInv, [Next]_vars
  PROVE  SoloInv' /\ TurnInv'
<1> SUFFICES ASSUME exclusive PROVE SoloInv' /\ TurnInv'
  BY DEF SoloInv, TurnInv, Next, Move, StartApply, StartRollback, Enter, CheckApplicable,
         ReadBefore, CreateReceipt, WriteReceipt, ReplaceState, VerifyApplied,
         RestoreAfterFailure, InspectDivergence, UndoState, RecheckRestored, Crash, EditState,
         Leave, Step, vars
<1> USE DEF TypeOK, AtStage
<1>1. ASSUME NEW p \in Proc, NEW a \in Artifact, NEW r \in ReceiptPath, StartApply(p, a, r)
      PROVE  SoloInv' /\ TurnInv'
  <2>1. \A q \in Proc : q # p => pc[q] = "idle"
    BY <1>1, SoleActor DEF StartApply, Enter
  <2>2. pc' = [pc EXCEPT ![p] = "check"] /\ lock' = p /\ AtStage(p)'
    BY <1>1 DEF StartApply, Enter, Goto
  <2>3. QED
    BY <2>1, <2>2, StageKept
<1>2. ASSUME NEW p \in Proc, NEW r \in ReceiptPath, StartRollback(p, r)
      PROVE  SoloInv' /\ TurnInv'
  <2>1. \A q \in Proc : q # p => pc[q] = "idle"
    BY <1>2, SoleActor DEF StartRollback, Enter
  <2>2. pc' = [pc EXCEPT ![p] = "inspect"] /\ lock' = p /\ AtStage(p)'
    BY <1>2 DEF StartRollback, Enter, Goto
  <2>3. QED
    BY <2>1, <2>2, StageKept
<1>3. ASSUME NEW p \in Proc, pc[p] # "idle", Leave(p) \/ Crash(p)
      PROVE  SoloInv' /\ TurnInv'
  <2>1. \A q \in Proc : q # p => pc[q] = "idle"
    BY <1>3, SoleActor
  <2>2. pc' = [pc EXCEPT ![p] = "idle"] /\ AtStage(p)'
    BY <1>3 DEF Leave, Crash, Goto
  <2>3. QED
    BY <2>1, <2>2, StageKept
<1>4. ASSUME NEW p \in Proc, NEW from \in Labels \ {"idle"}, NEW to \in Labels, Step(p, from, to),
             AtStage(p)'
      PROVE  SoloInv' /\ TurnInv'
  <2>1. pc[p] # "idle" /\ lock' = lock
    BY <1>4 DEF Step
  <2>2. \A q \in Proc : q # p => pc[q] = "idle"
    BY <2>1, SoleActor
  <2>3. pc' = [pc EXCEPT ![p] = to] /\ lock' = p
    BY <1>4, <2>1 DEF Step, Goto, SoloInv
  <2>4. QED
    BY <1>4, <2>2, <2>3, StageKept
<1>5. ASSUME NEW p \in Proc, CheckApplicable(p) PROVE SoloInv' /\ TurnInv'
  <2>1. CASE Leave(p)
    BY <1>3, <1>5, <2>1 DEF CheckApplicable
  <2>2. CASE ~Leave(p)
    <3>1. Step(p, "check", "read") /\ Applicable(job[p].artifact) /\ UNCHANGED <<state, job>>
      BY <1>5, <2>2 DEF CheckApplicable, Step, files
    <3>2. AtStage(p)'
      BY <3>1 DEF Step, Goto, Applicable
    <3>3. QED
      BY <1>4, <3>1, <3>2 DEF Labels
  <2>3. QED
    BY <2>1, <2>2
<1>6. ASSUME NEW p \in Proc, ReadBefore(p) PROVE SoloInv' /\ TurnInv'
  <2>1. Applicable(job[p].artifact) /\ UNCHANGED <<state, job>>
    BY <1>6 DEF ReadBefore, Step, files, TurnInv
  <2>2. AtStage(p)'
    BY <1>6, <2>1 DEF ReadBefore, Step, Goto, Applicable
  <2>3. QED
    BY <1>4, <1>6, <2>2 DEF ReadBefore, Labels
<1>7. ASSUME NEW p \in Proc, CreateReceipt(p) PROVE SoloInv' /\ TurnInv'
  <2>1. CASE Leave(p)
    BY <1>3, <1>7, <2>1 DEF CreateReceipt
  <2>2. CASE ~Leave(p)
    <3>1. Step(p, "create", "write") /\ UNCHANGED <<state, job, held>>
      BY <1>7, <2>2 DEF CreateReceipt, Step
    <3>2. AtStage(p)'
      BY <3>1 DEF Step, Goto, Applicable, TurnInv
    <3>3. QED
      BY <1>4, <3>1, <3>2 DEF Labels
  <2>3. QED
    BY <2>1, <2>2
<1>8. ASSUME NEW p \in Proc, WriteReceipt(p) PROVE SoloInv' /\ TurnInv'
  <2>1. AtStage(p)'
    BY <1>8 DEF WriteReceipt, Step, Goto, TurnInv
  <2>2. QED
    BY <1>4, <1>8, <2>1 DEF WriteReceipt, Labels
<1>9. ASSUME NEW p \in Proc, ReplaceState(p) PROVE SoloInv' /\ TurnInv'
  <2>1. AtStage(p)'
    BY <1>9 DEF ReplaceState, Step, Goto, TurnInv
  <2>2. QED
    BY <1>4, <1>9, <2>1 DEF ReplaceState, Labels
<1>10. ASSUME NEW p \in Proc, VerifyApplied(p) PROVE SoloInv' /\ TurnInv'
  <2>1. CASE Leave(p)
    BY <1>3, <1>10, <2>1 DEF VerifyApplied, Step
  <2>2. CASE ~Leave(p)
    <3>1. Step(p, "verify", "restore") /\ UNCHANGED <<state, held>>
      BY <1>10, <2>2 DEF VerifyApplied, files
    <3>2. state = held[p].after
      BY <3>1 DEF Step, TurnInv
    <3>3. AtStage(p)'
      BY <3>1, <3>2 DEF Step, Goto
    <3>4. QED
      BY <1>4, <3>1, <3>3 DEF Labels
  <2>3. QED
    BY <2>1, <2>2
<1>11. ASSUME NEW p \in Proc, RestoreAfterFailure(p) \/ RecheckRestored(p)
       PROVE  SoloInv' /\ TurnInv'
  BY <1>3, <1>11 DEF RestoreAfterFailure, RecheckRestored
<1>12. ASSUME NEW p \in Proc, InspectDivergence(p) PROVE SoloInv' /\ TurnInv'
  <2>1. CASE Leave(p)
    BY <1>3, <1>12, <2>1 DEF InspectDivergence
  <2>2. CASE ~Leave(p)
    <3>1. /\ Step(p, "inspect", "undo") /\ UNCHANGED <<state, held>>
          /\ state \in {held[p].before, held[p].after}
      BY <1>12, <2>2 DEF InspectDivergence, files
    <3>2. AtStage(p)'
      BY <3>1 DEF Step, Goto
    <3>3. QED
      BY <1>4, <3>1, <3>2 DEF Labels
  <2>3. QED
    BY <2>1, <2>2
<1>13. ASSUME NEW p \in Proc, UndoState(p) PROVE SoloInv' /\ TurnInv'
  <2>1. CASE Leave(p)
    BY <1>3, <1>13, <2>1 DEF UndoState, Step
  <2>2. CASE ~Leave(p)
    <3>1. Step(p, "undo", "recheck")
      BY <1>13, <2>2 DEF UndoState
    <3>2. AtStage(p)'
      BY <3>1 DEF Step, Goto
    <3>3. QED
      BY <1>4, <3>1, <3>2 DEF Labels
  <2>3. QED
    BY <2>1, <2>2
<1>14. ASSUME EditState PROVE SoloInv' /\ TurnInv'
  <2>1. \A p \in Proc : pc[p] = "idle"
    BY <1>14, TransactionAssumption DEF EditState, SoloInv
  <2>2. QED
    BY <1>14, <2>1 DEF EditState, SoloInv, TurnInv
<1>15. CASE UNCHANGED vars
  BY <1>15 DEF vars, SoloInv, TurnInv, Applicable
<1>16. QED
  BY <1>1, <1>2, <1>3, <1>5, <1>6, <1>7, <1>8, <1>9, <1>10, <1>11, <1>12, <1>13, <1>14, <1>15
     DEF Next, Move, Crash

-----------------------------------------------------------------------------
(* The register.                                                           *)

\* The log of some receipt files.
Written(rs) == {r \in ReceiptPath : rs[r] \notin {Missing, Torn}}
LogOf(rs) == [r \in Written(rs) |-> rs[r]]

LEMMA LogIs == Log = LogOf(receipts) /\ Log' = LogOf(receipts')
BY DEF Log, LogOf, Written, Complete

\* One torn receipt of rs is completed with x.
Completes(rs, rs2, r, x) ==
  /\ rs \in [ReceiptPath -> Receipts \cup {Missing, Torn}]
  /\ r \in ReceiptPath /\ rs[r] = Torn /\ x \in Receipts
  /\ rs2 = [rs EXCEPT ![r] = x]

\* A receipt that is written is a new entry of the log.
LEMMA LogGrows ==
  ASSUME NEW rs, NEW rs2, NEW r, NEW x, Completes(rs, rs2, r, x)
  PROVE  /\ r \in Written(rs2) \ Written(rs)
         /\ Written(rs2) = Written(rs) \cup {r}
         /\ LogOf(rs2)[r] = x
         /\ \A q \in Written(rs) : LogOf(rs2)[q] = LogOf(rs)[q]
         /\ DOMAIN LogOf(rs) = Written(rs) /\ DOMAIN LogOf(rs2) = Written(rs2)
<1>1. x \notin {Missing, Torn}
  BY ReceiptShape DEF Completes
<1>2. rs2[r] = x /\ \A q \in ReceiptPath : q # r => rs2[q] = rs[q]
  BY DEF Completes
<1>3. r \in Written(rs2) \ Written(rs)
  BY <1>1, <1>2 DEF Written, Completes
<1>4. Written(rs2) = Written(rs) \cup {r}
  BY <1>2, <1>3 DEF Written
<1>5. \A q \in Written(rs) : q \in Written(rs2) /\ q # r /\ q \in ReceiptPath
  BY <1>3, <1>4 DEF Written
<1>6. /\ LogOf(rs2)[r] = x
      /\ \A q \in Written(rs) : LogOf(rs2)[q] = LogOf(rs)[q]
      /\ DOMAIN LogOf(rs) = Written(rs) /\ DOMAIN LogOf(rs2) = Written(rs2)
  BY <1>2, <1>3, <1>5 DEF LogOf
<1>7. QED
  BY <1>3, <1>4, <1>6

LEMMA WriteIsIntended ==
  ASSUME NEW p \in Proc, TypeOK, JobInv, WriterInv, WriteReceipt(p), Applicable(job[p].artifact),
         held[p] = [before |-> state, after |-> After(job[p].artifact)]
  PROVE  Register!Intend
<1>1. /\ job[p].path \in ReceiptPath /\ job[p].artifact \in Artifact /\ held[p] \in Receipts
      /\ receipts[job[p].path] = Torn
      /\ receipts' = [receipts EXCEPT ![job[p].path] = held[p]] /\ state' = state
  BY DEF JobInv, WriterInv, WriteReceipt, Step, Labels
<1>2. PICK r \in ReceiptPath, a \in Artifact, x \in Receipts :
        /\ receipts[r] = Torn /\ receipts' = [receipts EXCEPT ![r] = x]
        /\ x = [before |-> state, after |-> After(a)] /\ Applicable(a)
  BY <1>1
<1>3. After(a).by = a /\ MayReplace(state, After(a))
  BY <1>2 DEF MayReplace, Applicable, After, Content
<1>4. /\ r \in DOMAIN Log' \ DOMAIN Log /\ DOMAIN Log' = DOMAIN Log \cup {r}
      /\ Log'[r] = x /\ \A q \in DOMAIN Log : Log'[q] = Log[q]
  <2>1. receipts \in [ReceiptPath -> Receipts \cup {Missing, Torn}]
    BY DEF TypeOK
  <2>2. ASSUME NEW rs, rs = receipts, NEW rs2, rs2 = receipts'
        PROVE  /\ r \in Written(rs2) \ Written(rs)
               /\ Written(rs2) = Written(rs) \cup {r}
               /\ LogOf(rs2)[r] = x
               /\ \A q \in Written(rs) : LogOf(rs2)[q] = LogOf(rs)[q]
               /\ DOMAIN LogOf(rs) = Written(rs) /\ DOMAIN LogOf(rs2) = Written(rs2)
    <3>1. Completes(rs, rs2, r, x)
      BY <1>2, <2>1, <2>2 DEF Completes
    <3>2. QED
      BY <3>1, LogGrows
  <2>3. PICK rs, rs2 : rs = receipts /\ rs2 = receipts' /\ Log = LogOf(rs) /\ Log' = LogOf(rs2)
    BY LogIs
  <2>4. QED
    BY <2>2, <2>3
<1>5. Log'[r].before = state /\ MayReplace(state, Log'[r].after)
  BY <1>2, <1>3, <1>4
<1>6. QED
  BY <1>1, <1>4, <1>5 DEF Register!Intend

\* A swap or an undo of what is in the log.
LEMMA Replaced ==
  ASSUME NEW p \in Proc, OnDisk(p), UNCHANGED receipts,
         \/ state = held[p].before /\ state' = held[p].after
         \/ state = held[p].after /\ state' = held[p].before
  PROVE  Register!Next
<1>1. Log' = Log
  BY DEF Log, Complete
<1>2. PICK r \in ReceiptPath : Complete(r) /\ receipts[r] = held[p]
  BY DEF OnDisk
<1>3. r \in DOMAIN Log /\ Log[r] = held[p]
  BY <1>2 DEF Log
<1>4. QED
  BY <1>1, <1>3 DEF Register!Next, Register!Swap, Register!Undo

LEMMA RegisterStep ==
  ASSUME IInv, SoloInv, TurnInv, exclusive, Next
  PROVE  Register!Next \/ UNCHANGED <<state, Log>>
<1>1. /\ TypeOK /\ JobInv /\ WriterInv /\ UndoInv
      /\ \A p \in Proc : AtStage(p)
  BY DEF IInv, TurnInv
<1>2. receipts' = receipts /\ state' = state => UNCHANGED <<state, Log>>
  BY DEF Log, Complete
<1>3. ASSUME EditState PROVE Register!Next
  <2>1. Log' = Log /\ state' \in Foreign
    BY <1>3 DEF EditState, Log, Complete
  <2>2. QED
    BY <2>1 DEF Register!Next, Register!Edit
<1>4. ASSUME NEW p \in Proc, CreateReceipt(p) PROVE UNCHANGED <<state, Log>>
  <2>1. CASE receipts' = receipts
    BY <1>2, <1>4, <2>1 DEF CreateReceipt
  <2>2. CASE receipts' # receipts
    <3> DEFINE r == job[p].path
    <3>1. /\ receipts[r] = Missing /\ receipts' = [receipts EXCEPT ![r] = Torn] /\ state' = state
      BY <1>4, <2>2 DEF CreateReceipt
    <3>2. \A q \in ReceiptPath :
            receipts'[q] = receipts[q] \/ {receipts'[q], receipts[q]} = {Missing, Torn}
      BY <1>1, <3>1 DEF TypeOK
    <3>3. Written(receipts') = Written(receipts)
          /\ \A q \in Written(receipts) : receipts'[q] = receipts[q]
      BY <3>2 DEF Written
    <3>4. QED
      BY <3>1, <3>3, LogIs DEF LogOf
  <2>3. QED
    BY <2>1, <2>2
<1>5. ASSUME NEW p \in Proc, WriteReceipt(p) PROVE Register!Next
  <2>1. /\ Applicable(job[p].artifact)
        /\ held[p] = [before |-> state, after |-> After(job[p].artifact)]
    BY <1>1, <1>5 DEF WriteReceipt, Step, AtStage
  <2>2. QED
    BY <1>1, <1>5, <2>1, WriteIsIntended DEF Register!Next
<1>6. ASSUME NEW p \in Proc, ReplaceState(p) \/ RestoreAfterFailure(p) \/ UndoState(p)
      PROVE  Register!Next \/ UNCHANGED <<state, Log>>
  <2>1. receipts' = receipts /\ pc[p] \in {"replace", "restore", "undo"}
    BY <1>6 DEF ReplaceState, RestoreAfterFailure, UndoState, Step
  <2>2. OnDisk(p)
    BY <1>1, <2>1 DEF UndoInv, Labels
  <2>3. CASE state' = state
    BY <1>2, <2>1, <2>3
  <2>4. CASE state' # state
    <3>1. \/ state = held[p].before /\ state' = held[p].after
          \/ state = held[p].after /\ state' = held[p].before
      BY <1>1, <1>6, <2>4 DEF ReplaceState, RestoreAfterFailure, UndoState, Step, AtStage
    <3>2. QED
      BY <2>1, <2>2, <3>1, Replaced
  <2>5. QED
    BY <2>3, <2>4
<1>7. ASSUME NEW p \in Proc,
             \/ \E a \in Artifact, r \in ReceiptPath : StartApply(p, a, r)
             \/ \E r \in ReceiptPath : StartRollback(p, r)
             \/ CheckApplicable(p) \/ ReadBefore(p) \/ VerifyApplied(p)
             \/ InspectDivergence(p) \/ RecheckRestored(p) \/ Crash(p)
      PROVE  UNCHANGED <<state, Log>>
  BY <1>2, <1>7 DEF StartApply, StartRollback, CheckApplicable, ReadBefore, VerifyApplied,
                    InspectDivergence, RecheckRestored, Crash, files
<1>8. QED
  BY <1>3, <1>4, <1>5, <1>6, <1>7 DEF Next, Move

\* Callers that take turns implement the register with undo of UndoRegister.tla, step by
\* step, whatever raises or crashes in between (transaction.py:140-217).
THEOREM TurnsImplementRegister == Spec => TurnsMakeARegister
<1>1. Init => SoloInv /\ TurnInv
  BY DEF Init, SoloInv, TurnInv, AtStage
<1>2. IInv /\ SoloInv /\ TurnInv /\ [Next]_vars => (SoloInv /\ TurnInv)'
  BY TurnStep DEF IInv
<1>3. IInv /\ SoloInv /\ TurnInv /\ [Next]_vars => [exclusive => Register!Next]_<<state, Log>>
  <2>1. UNCHANGED vars => UNCHANGED <<state, Log>>
    BY DEF vars, Log, Complete
  <2>2. QED
    BY <2>1, RegisterStep
<1>4. QED
  BY <1>1, <1>2, <1>3, InvariantHolds, PTL DEF Spec, TurnsMakeARegister
=============================================================================
