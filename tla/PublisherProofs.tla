--------------------------- MODULE PublisherProofs ---------------------------
(***************************************************************************)
(* Proofs about Publisher.tla, for every number of operators, pull         *)
(* requests, receipt paths, crashes, failures and edits: among operators   *)
(* that take turns nothing of others' is lost, and a publication is all or *)
(* nothing; and an approval that is served has been earned.                *)
(***************************************************************************)
EXTENDS Publisher, FiniteSetTheorems, WellFoundedInduction, TLAPS

-----------------------------------------------------------------------------
(* What the operators keep true, whether they take turns or not.           *)

Content == Report \cup Foreign \cup {Origin, Missing}

Job == [report : Report \cup {Missing}, previous : Content, moved : BOOLEAN,
        path : ReceiptPath \cup {Missing}]

\* A plan, of which the backup may already be made, or a receipt taken up by rollback.
Labels == {"idle", "check", "move", "place", "recover", "verify", "unverified", "receipt",
           "inspect", "restore", "recheck"}
Publishing == {"check", "move", "place", "recover", "verify", "unverified", "receipt"}

TypeOK ==
  /\ output \in Content
  /\ backups \in [Report -> Content]
  /\ receipts \in [ReceiptPath -> Job]
  /\ pc \in [Proc -> Labels]
  /\ job \in [Proc -> Job]
  /\ lock \in Proc \cup {Nobody}
  /\ failures \in Nat /\ edits \in Nat

\* Every plan and every receipt names a report; and a plan a receipt path.
Named ==
  /\ \A p \in Proc : /\ pc[p] # "idle" => job[p].report \in Report
                     /\ pc[p] \in Publishing => job[p].path \in ReceiptPath
  /\ \A r \in ReceiptPath : receipts[r] # NoJob => receipts[r].report \in Report

\* Operators that take turns are in their commands one at a time.
Turns == exclusive => \A p \in Proc : pc[p] # "idle" <=> lock = p

-----------------------------------------------------------------------------
(* What holds of the files at each stage of a command, for operators that  *)
(* take turns.                                                             *)

\* The backup is what was served before the publication, or was not made because
\* nothing was.
BackedUp(p) ==
  IF job[p].moved THEN Backup(p) = job[p].previous /\ job[p].previous # Missing
  ELSE Backup(p) = Missing /\ job[p].previous = Missing

AtStage(p) ==
  /\ pc[p] = "check" => output = job[p].previous /\ ~job[p].moved
  /\ pc[p] = "move" => output = job[p].previous /\ ~job[p].moved /\ Backup(p) = Missing
  /\ pc[p] \in {"place", "recover"} => output = Missing /\ BackedUp(p)
  /\ pc[p] \in {"verify", "receipt"} => output = job[p].report /\ BackedUp(p)
  /\ pc[p] # "unverified"
  /\ pc[p] = "inspect" /\ job[p].path # Missing => output = job[p].report /\ BackedUp(p)
  /\ pc[p] = "restore" => /\ output = job[p].report
                          /\ job[p].moved => Backup(p) = job[p].previous
                          /\ job[p].path # Missing => BackedUp(p)
  /\ pc[p] = "recheck" /\ job[p].path # Missing => /\ output = job[p].previous
                                                   /\ job[p].moved => Backup(p) = Missing

\* A publication that is being undone had an access that raised.
Blamed(p) ==
  \/ pc[p] = "recover"
  \/ pc[p] \in {"inspect", "restore", "recheck"} /\ job[p].path # Missing
  => failures > 0

StageInv == exclusive => \A p \in Proc : AtStage(p) /\ Blamed(p)

IInv == TypeOK /\ Named /\ Turns /\ StageInv

-----------------------------------------------------------------------------
(* Types and names.                                                        *)

LEMMA NoJobType == NoJob \in Job /\ Missing \in Content
BY DEF NoJob, Job, Content

LEMMA EnterStep ==
  ASSUME TypeOK, Named, NEW p \in Proc, NEW label \in Labels \ {"idle"},
         NEW j \in Job, j.report \in Report, label \in Publishing => j.path \in ReceiptPath,
         Enter(p, label, j)
  PROVE  TypeOK' /\ Named'
<1>1. TypeOK'
  BY DEF TypeOK, Enter, files, bounds
<1>2. Named'
  BY DEF TypeOK, Named, Enter, files
<1>3. QED
  BY <1>1, <1>2

LEMMA StartPublishStep ==
  ASSUME TypeOK, Named, NEW p \in Proc, NEW run \in Runs, NEW path \in ReceiptPath,
         StartPublish(p, run, path)
  PROVE  TypeOK' /\ Named'
<1> DEFINE j == [report |-> ReportOf(run), previous |-> output, moved |-> FALSE, path |-> path]
<1>1. ReportOf(run) \in Report
  BY DEF Report
<1>2. j \in Job /\ j.report \in Report /\ j.path \in ReceiptPath
  BY <1>1 DEF Job, TypeOK
<1>3. Enter(p, "check", j)
  BY DEF StartPublish
<1> HIDE DEF j
<1>4. QED
  BY <1>2, <1>3, EnterStep DEF Labels

LEMMA StartRollbackStep ==
  ASSUME TypeOK, Named, NEW p \in Proc, NEW r \in ReceiptPath, StartRollback(p, r)
  PROVE  TypeOK' /\ Named'
<1> DEFINE j == [receipts[r] EXCEPT !.path = Missing]
<1>1. receipts[r] \in Job /\ receipts[r].report \in Report
  BY DEF StartRollback, TypeOK, Named
<1>2. j \in Job /\ j.report \in Report
  BY <1>1 DEF Job
<1>3. Enter(p, "inspect", j)
  BY DEF StartRollback
<1> HIDE DEF j
<1>4. QED
  BY <1>2, <1>3, EnterStep DEF Labels, Publishing

\* The other steps of a command.
Works(p) ==
  \/ CheckPlan(p) \/ MoveAway(p) \/ Place(p) \/ Recover(p) \/ VerifyServed(p)
  \/ RollbackUnverified(p) \/ WriteReceipt(p) \/ InspectServed(p) \/ Restore(p)
  \/ RecheckRestored(p) \/ Crash(p)

LEMMA WorkStep ==
  ASSUME TypeOK, Named, NEW p \in Proc, Works(p)
  PROVE  TypeOK' /\ Named'
<1> USE NoJobType
<1>1. pc[p] # "idle" /\ job[p] \in Job /\ job[p].report \in Report /\ Backup(p) \in Content
  <2>1. pc[p] # "idle"
    BY DEF Works, CheckPlan, MoveAway, Place, Recover, VerifyServed, RollbackUnverified,
           WriteReceipt, InspectServed, Restore, RecheckRestored, Crash, Raises
  <2>2. QED
    BY <2>1 DEF TypeOK, Named, Backup
<1>2. pc' \in [Proc -> Labels] /\ lock' \in Proc \cup {Nobody}
  BY DEF TypeOK, Labels, Works, CheckPlan, MoveAway, Place, Recover, VerifyServed,
         RollbackUnverified, WriteReceipt, InspectServed, Restore, RecheckRestored, Crash, Raises,
         Step, Leave
<1>3. output' \in Content /\ backups' \in [Report -> Content]
  <2>1. job[p].report \in Content
    BY <1>1 DEF Content
  <2>2. CASE MoveAway(p) \/ Place(p) \/ Recover(p) \/ RollbackUnverified(p) \/ Restore(p)
    BY <1>1, <2>1, <2>2 DEF TypeOK, MoveAway, Place, Recover, RollbackUnverified, Restore,
                             PutBack, Raises, files
  <2>3. CASE ~(MoveAway(p) \/ Place(p) \/ Recover(p) \/ RollbackUnverified(p) \/ Restore(p))
    BY <2>3 DEF TypeOK, Works, CheckPlan, VerifyServed, WriteReceipt, InspectServed,
                RecheckRestored, Crash, Raises, files
  <2>4. QED
    BY <2>2, <2>3
<1>4. \/ job' = job
      \/ job' = [job EXCEPT ![p] = NoJob] /\ pc' = [pc EXCEPT ![p] = "idle"]
      \/ job' = [job EXCEPT ![p].moved = output # Missing]
  BY DEF Works, CheckPlan, MoveAway, Place, Recover, VerifyServed,
         RollbackUnverified, WriteReceipt, InspectServed, Restore, RecheckRestored, Crash, Raises,
         Step, Leave
<1>5. receipts' = receipts \/ (pc[p] = "receipt" /\ receipts' = [receipts EXCEPT ![job[p].path] = job[p]])
  BY DEF Works, CheckPlan, MoveAway, Place, Recover, VerifyServed, RollbackUnverified,
         WriteReceipt, InspectServed, Restore, RecheckRestored, Crash, Raises, files
<1>6. failures' \in Nat /\ edits' \in Nat
  BY DEF TypeOK, Works, CheckPlan, MoveAway, Place, Recover, VerifyServed, RollbackUnverified,
         WriteReceipt, InspectServed, Restore, RecheckRestored, Crash, Raises, Failing, bounds
<1>7. TypeOK'
  <2>1. job' \in [Proc -> Job]
    <3>1. \A b \in BOOLEAN : [job EXCEPT ![p].moved = b] \in [Proc -> Job]
      BY DEF TypeOK, Job
    <3>2. (output # Missing) \in BOOLEAN
      OBVIOUS
    <3>3. [job EXCEPT ![p] = NoJob] \in [Proc -> Job]
      BY DEF TypeOK
    <3>4. QED
      BY <1>4, <3>1, <3>2, <3>3 DEF TypeOK
  <2>2. receipts' \in [ReceiptPath -> Job]
    BY <1>1, <1>5 DEF TypeOK
  <2>3. QED
    BY <1>2, <1>3, <1>6, <2>1, <2>2 DEF TypeOK
<1>8. ASSUME NEW q \in Proc
      PROVE  /\ pc'[q] # "idle" => job'[q].report \in Report
             /\ pc'[q] \in Publishing => job'[q].path \in ReceiptPath
  <2>1. CASE q # p
    <3>1. job'[q] = job[q] /\ pc'[q] = pc[q]
      <4>1. pc'[q] = pc[q]
        BY <2>1 DEF TypeOK, Works, CheckPlan, MoveAway, Place, Recover, VerifyServed,
                    RollbackUnverified, WriteReceipt, InspectServed, Restore, RecheckRestored,
                    Crash, Raises, Step, Leave
      <4>2. QED
        BY <1>4, <2>1, <4>1 DEF TypeOK
    <3>2. QED
      BY <3>1 DEF Named
  <2>2. CASE q = p
    <3>1. pc'[p] \in Publishing => pc[p] \in Publishing
      BY DEF TypeOK, Publishing, Works, CheckPlan, MoveAway, Place, Recover, VerifyServed,
             RollbackUnverified, WriteReceipt, InspectServed, Restore, RecheckRestored,
             Crash, Raises, Step, Leave
    <3>2. CASE pc' = [pc EXCEPT ![p] = "idle"]
      BY <2>2, <3>2 DEF TypeOK, Publishing
    <3>3. CASE job' = job \/ job' = [job EXCEPT ![p].moved = output # Missing]
      <4>1. job'[p].report = job[p].report /\ job'[p].path = job[p].path
        BY <3>3 DEF TypeOK, Job
      <4>2. QED
        BY <1>1, <2>2, <3>1, <4>1 DEF Named
    <3>4. QED
      BY <1>4, <3>2, <3>3
  <2>3. QED
    BY <2>1, <2>2
<1>9. \A r \in ReceiptPath : receipts'[r] # NoJob => receipts'[r].report \in Report
  BY <1>1, <1>5 DEF TypeOK, Named
<1>10. QED
  BY <1>7, <1>8, <1>9 DEF Named

LEMMA MoveStep ==
  ASSUME TypeOK, Named, NEW p \in Proc, Move(p)
  PROVE  TypeOK' /\ Named'
BY StartPublishStep, StartRollbackStep, WorkStep DEF Move, Works

-----------------------------------------------------------------------------
(* Turns: between operators that take turns, only one is in a command.     *)

\* The steps that begin a command, and the ones that go on with it or end it.
LEMMA MoveShape ==
  ASSUME TypeOK, NEW p \in Proc, Move(p)
  PROVE  /\ exclusive' = exclusive
         /\ \/ pc[p] = "idle" /\ pc'[p] # "idle" /\ (exclusive => lock = Nobody /\ lock' = p)
            \/ pc[p] # "idle" /\ pc'[p] # "idle" /\ lock' = lock
            \/ pc[p] # "idle" /\ pc'[p] = "idle" /\ lock' = IF lock = p THEN Nobody ELSE lock
         /\ \A q \in Proc : q # p => pc'[q] = pc[q]
<1>1. CASE \E run \in Runs, r \in ReceiptPath : StartPublish(p, run, r)
  BY <1>1 DEF TypeOK, StartPublish, Enter
<1>2. CASE \E r \in ReceiptPath : StartRollback(p, r)
  BY <1>2 DEF TypeOK, StartRollback, Enter
<1>3. CASE Works(p)
  BY <1>3 DEF TypeOK, Works, CheckPlan, MoveAway, Place, Recover, VerifyServed,
              RollbackUnverified, WriteReceipt, InspectServed, Restore, RecheckRestored,
              Crash, Raises, Step, Leave
<1>4. QED
  BY <1>1, <1>2, <1>3 DEF Move, Works

\* In turns, a step of one finds the others idle, and leaves them so.
LEMMA Alone ==
  ASSUME TypeOK, Turns, exclusive, NEW p \in Proc, Move(p)
  PROVE  /\ \A q \in Proc : q # p => pc[q] = "idle" /\ pc'[q] = "idle"
         /\ Turns'
<1> USE PublisherAssumption
<1>1. \A q \in Proc : q # p => pc[q] = "idle" /\ pc'[q] = "idle"
  BY MoveShape DEF Turns
<1>2. pc'[p] # "idle" <=> lock' = p
  BY MoveShape DEF Turns
<1>3. \A q \in Proc : q # p => lock' # q
  BY MoveShape DEF Turns
<1>4. QED
  BY <1>1, <1>2, <1>3 DEF Turns

LEMMA EditTurns ==
  ASSUME TypeOK, Turns, exclusive, Edit
  PROVE  Turns' /\ \A q \in Proc : pc[q] = "idle" /\ pc'[q] = "idle"
BY PublisherAssumption DEF Edit, Turns

-----------------------------------------------------------------------------
(* The stages, for operators that take turns.                              *)

\* An idle operator is at no stage.
LEMMA IdleStage ==
  ASSUME NEW q \in Proc, pc'[q] = "idle"
  PROVE  AtStage(q)' /\ Blamed(q)'
BY DEF AtStage, Blamed

LEMMA WorkStage ==
  ASSUME TypeOK, Named, NEW p \in Proc, AtStage(p), Blamed(p), Works(p)
  PROVE  AtStage(p)' /\ Blamed(p)'
<1> DEFINE r == job[p].report
<1>1. pc[p] # "idle" /\ r \in Report /\ job[p] \in Job
  BY DEF TypeOK, Named, Works, CheckPlan, MoveAway, Place, Recover, VerifyServed,
         RollbackUnverified, WriteReceipt, InspectServed, Restore, RecheckRestored, Crash, Raises
<1>2. r # Missing
  BY <1>1, PublisherAssumption
<1>3. CASE pc'[p] = "idle"
  BY <1>3, IdleStage
<1>4. CASE CheckPlan(p) /\ pc'[p] # "idle"
  <2>1. /\ pc[p] = "check" /\ pc'[p] = "move" /\ job' = job /\ UNCHANGED files /\ Backup(p) = Missing
    BY <1>4 DEF TypeOK, CheckPlan, Raises, Step, Leave
  <2>2. QED
    BY <2>1 DEF AtStage, Blamed, Backup, files
<1>5. CASE MoveAway(p) /\ pc'[p] # "idle"
  <2>1. /\ pc[p] = "move" /\ pc'[p] = "place" /\ output' = Missing
        /\ job' = [job EXCEPT ![p].moved = output # Missing]
        /\ backups' = IF output = Missing THEN backups ELSE [backups EXCEPT ![r] = output]
    BY <1>5 DEF TypeOK, MoveAway, Raises, Step, Leave
  <2>2. output = job[p].previous /\ Backup(p) = Missing
    BY <2>1 DEF AtStage
  <2>3. job'[p].report = r /\ job'[p].previous = output /\ (job'[p].moved <=> output # Missing)
    BY <1>1, <2>1, <2>2 DEF TypeOK, Job
  <2>4. backups'[r] = output
    BY <1>1, <2>1, <2>2 DEF TypeOK, Backup
  <2>5. BackedUp(p)'
    BY <2>3, <2>4 DEF BackedUp, Backup
  <2>6. QED
    BY <2>1, <2>5 DEF AtStage, Blamed
<1>6. CASE Place(p)
  <2>1. /\ pc[p] = "place" /\ job' = job /\ backups' = backups
        /\ \/ pc'[p] = "verify" /\ output' = r
           \/ pc'[p] = "recover" /\ output' = output /\ failures' = failures + 1
    BY <1>6 DEF TypeOK, Place, Step, Failing
  <2>2. output = Missing /\ BackedUp(p)
    BY <2>1 DEF AtStage
  <2>3. BackedUp(p)'
    BY <2>1, <2>2 DEF BackedUp, Backup
  <2>4. QED
    BY <2>1, <2>2, <2>3 DEF AtStage, Blamed, TypeOK
<1>7. CASE VerifyServed(p) /\ pc'[p] # "idle"
  <2>1. /\ pc[p] = "verify" /\ job' = job /\ UNCHANGED files
        /\ pc'[p] = IF output = r THEN "receipt" ELSE "unverified"
    BY <1>7 DEF TypeOK, VerifyServed, Raises, Step, Leave
  <2>2. output = r /\ BackedUp(p)
    BY <2>1 DEF AtStage
  <2>3. QED
    BY <2>1, <2>2 DEF AtStage, Blamed, BackedUp, Backup, files
<1>8. CASE WriteReceipt(p) /\ pc'[p] # "idle"
  <2>1. /\ pc[p] = "receipt" /\ pc'[p] = "inspect" /\ job' = job /\ output' = output
        /\ backups' = backups /\ failures' = failures + 1
    BY <1>8 DEF TypeOK, WriteReceipt, Step, Leave, Failing
  <2>2. output = r /\ BackedUp(p)
    BY <2>1 DEF AtStage
  <2>3. QED
    BY <2>1, <2>2 DEF AtStage, Blamed, BackedUp, Backup, TypeOK
<1>9. CASE InspectServed(p) /\ pc'[p] # "idle"
  <2>1. /\ pc[p] = "inspect" /\ pc'[p] = "restore" /\ job' = job /\ UNCHANGED <<files, bounds>>
        /\ output = r /\ (job[p].moved => Backup(p) = job[p].previous)
    BY <1>9 DEF TypeOK, InspectServed, Raises, Step, Leave
  <2>2. job[p].path # Missing => BackedUp(p) /\ failures > 0
    BY <2>1 DEF AtStage, Blamed
  <2>3. QED
    BY <2>1, <2>2 DEF AtStage, Blamed, BackedUp, Backup, files, bounds
<1>10. CASE Restore(p) /\ pc'[p] # "idle"
  <2>1. /\ pc[p] = "restore" /\ pc'[p] = "recheck" /\ job' = job /\ failures' = failures
        /\ IF job[p].moved THEN output' = Backup(p) /\ backups' = [backups EXCEPT ![r] = Missing]
           ELSE output' = Missing
    BY <1>10 DEF TypeOK, Restore, PutBack, Step, Leave, bounds
  <2>2. job[p].path # Missing => BackedUp(p) /\ failures > 0
    BY <2>1 DEF AtStage, Blamed
  <2>3. job[p].moved => backups'[r] = Missing
    BY <1>1, <2>1 DEF TypeOK
  <2>4. QED
    BY <2>1, <2>2, <2>3 DEF AtStage, Blamed, BackedUp, Backup
<1>11. pc'[p] = "idle" \/ CheckPlan(p) \/ MoveAway(p) \/ Place(p) \/ VerifyServed(p)
       \/ WriteReceipt(p) \/ InspectServed(p) \/ Restore(p)
  BY DEF TypeOK, Works, Recover, RollbackUnverified, RecheckRestored, Crash, Raises, Leave
<1>12. QED
  BY <1>3, <1>4, <1>5, <1>6, <1>7, <1>8, <1>9, <1>10, <1>11

LEMMA EnterStage ==
  ASSUME TypeOK, NEW p \in Proc,
         \/ \E run \in Runs, r \in ReceiptPath : StartPublish(p, run, r)
         \/ \E r \in ReceiptPath : StartRollback(p, r)
  PROVE  AtStage(p)' /\ Blamed(p)'
<1>1. CASE \E run \in Runs, r \in ReceiptPath : StartPublish(p, run, r)
  <2>1. pc'[p] = "check" /\ output' = job'[p].previous /\ ~job'[p].moved
    BY <1>1 DEF TypeOK, StartPublish, Enter, files
  <2>2. QED
    BY <2>1 DEF AtStage, Blamed
<1>2. CASE \E r \in ReceiptPath : StartRollback(p, r)
  <2>1. pc'[p] = "inspect" /\ job'[p].path = Missing
    BY <1>2 DEF TypeOK, StartRollback, Enter, Job
  <2>2. QED
    BY <2>1 DEF AtStage, Blamed
<1>3. QED
  BY <1>1, <1>2

LEMMA InitIInv == Init => IInv
<1> SUFFICES ASSUME Init PROVE IInv
  OBVIOUS
<1> USE NoJobType DEF Init
<1>1. TypeOK
  BY DEF TypeOK, Content, Labels
<1>2. Named /\ Turns /\ StageInv
  BY PublisherAssumption DEF Named, Turns, StageInv, AtStage, Blamed, Publishing
<1>3. QED
  BY <1>1, <1>2 DEF IInv

LEMMA NextIInv == IInv /\ [Next]_vars => IInv'
<1> SUFFICES ASSUME IInv, [Next]_vars PROVE IInv'
  OBVIOUS
<1>0. TypeOK /\ Named /\ Turns /\ StageInv
  BY DEF IInv
<1>1. ASSUME NEW p \in Proc, Move(p) PROVE IInv'
  <2>1. TypeOK' /\ Named' /\ exclusive' = exclusive
    BY <1>0, <1>1, MoveStep, MoveShape
  <2>2. ASSUME exclusive PROVE Turns' /\ StageInv'
    <3>1. Turns' /\ \A q \in Proc : q # p => pc'[q] = "idle"
      BY <1>0, <1>1, <2>2, Alone
    <3>2. AtStage(p)' /\ Blamed(p)'
      BY <1>0, <1>1, <2>2, WorkStage, EnterStage DEF StageInv, Move, Works
    <3>3. QED
      BY <3>1, <3>2, IdleStage DEF StageInv
  <2>3. ASSUME ~exclusive PROVE Turns' /\ StageInv'
    BY <2>1, <2>3 DEF Turns, StageInv
  <2>4. QED
    BY <2>1, <2>2, <2>3 DEF IInv
<1>2. CASE Edit
  <2>1. TypeOK' /\ Named' /\ exclusive' = exclusive
    BY <1>0, <1>2 DEF TypeOK, Named, Edit, Content
  <2>2. ASSUME exclusive PROVE Turns' /\ StageInv'
    BY <1>0, <1>2, <2>2, EditTurns, IdleStage DEF StageInv
  <2>3. QED
    BY <2>1, <2>2 DEF IInv, Turns, StageInv
<1>3. CASE UNCHANGED vars
  BY <1>0, <1>3 DEF vars, IInv, TypeOK, Named, Turns, StageInv, AtStage, Blamed, BackedUp, Backup
<1>4. QED
  BY <1>1, <1>2, <1>3 DEF Next

THEOREM IInvariant == Spec => []IInv
<1>1. QED
  BY InitIInv, NextIInv, PTL DEF Spec

-----------------------------------------------------------------------------
(* Nothing of others' is lost.                                             *)

\* A content that is none of the program's reports.
Others == (Foreign \cup {Origin}) \ {Missing}

\* Moving a content that is kept in one place to another keeps it.
LEMMA KeptIn ==
  ASSUME NEW c, NEW r \in Report, backups'[r] = c
  PROVE  Kept(c)'
BY DEF Kept

LEMMA WorkKeeps ==
  ASSUME TypeOK, Named, NEW p \in Proc, AtStage(p), Works(p),
         NEW c \in Others, Kept(c)
  PROVE  Kept(c)'
<1> DEFINE r == job[p].report
<1>1. r \in Report /\ c \notin Report /\ c # Missing
  BY PublisherAssumption DEF Others, TypeOK, Named, Works, CheckPlan, MoveAway, Place, Recover,
         VerifyServed, RollbackUnverified, WriteReceipt, InspectServed, Restore,
         RecheckRestored, Crash, Raises
<1>2. CASE UNCHANGED <<output, backups>>
  BY <1>2 DEF Kept
<1>3. CASE MoveAway(p) /\ ~UNCHANGED <<output, backups>>
  <2>1. /\ backups[r] = Missing /\ output # Missing
        /\ backups' = [backups EXCEPT ![r] = output]
    BY <1>3 DEF MoveAway, Raises, files, AtStage, Backup
  <2>2. backups'[r] = output /\ \A x \in Report : backups[x] = c => backups'[x] = c
    BY <1>1, <2>1 DEF TypeOK
  <2>3. QED
    BY <1>1, <2>2 DEF Kept
<1>4. CASE Place(p)
  BY <1>1, <1>4 DEF Place, AtStage, Kept
<1>5. CASE output \in Report \cup {Missing} /\ PutBack(p)
  <2>1. output' = backups[r] /\ \A x \in Report : x # r => backups'[x] = backups[x]
    BY <1>1, <1>5 DEF PutBack, Backup, TypeOK
  <2>2. QED
    BY <1>1, <1>5, <2>1 DEF Kept
<1>6. CASE output \in Report \cup {Missing} /\ UNCHANGED backups
  BY <1>1, <1>6 DEF Kept
<1>7. \/ UNCHANGED <<output, backups>> \/ MoveAway(p) \/ Place(p)
      \/ output \in Report \cup {Missing} /\ PutBack(p)
      \/ output \in Report \cup {Missing} /\ UNCHANGED backups
  BY <1>1 DEF Works, CheckPlan, Recover, VerifyServed, RollbackUnverified, WriteReceipt,
              InspectServed, Restore, RecheckRestored, Crash, Raises, files, AtStage
<1>8. QED
  BY <1>2, <1>3, <1>4, <1>5, <1>6, <1>7

\* Among operators that take turns, what others had put into the output is never lost by
\* publishing or rolling back: whatever raises or crashes, it is served or in a backup
\* (publisher.py:114-131, 157-163, 178-184; docs/SAFETY.md).
THEOREM ContentsStay == Spec => PriorContentsKept
<1>1. IInv /\ [Next]_vars =>
        [exclusive /\ edits' = edits =>
           \A c \in (Foreign \cup {Origin}) \ {Missing} : Kept(c) => Kept(c)']_vars
  <2> SUFFICES ASSUME IInv, Next, exclusive, edits' = edits, NEW c \in Others, Kept(c)
               PROVE  Kept(c)'
    BY DEF Others
  <2>1. TypeOK /\ Named
    BY DEF IInv
  <2>2. ~Edit
    <3>1. Edit => edits' = edits + 1
      BY DEF Edit
    <3>2. edits \in Nat => edits # edits + 1
      OBVIOUS
    <3>3. QED
      BY <2>1, <3>1, <3>2 DEF TypeOK
  <2>3. PICK p \in Proc : Move(p)
    BY <2>2 DEF Next
  <2>4. CASE Works(p)
    BY <2>1, <2>4, WorkKeeps DEF IInv, StageInv
  <2>5. CASE \/ \E run \in Runs, r \in ReceiptPath : StartPublish(p, run, r)
             \/ \E r \in ReceiptPath : StartRollback(p, r)
    BY <2>5 DEF StartPublish, StartRollback, Enter, files, Kept
  <2>6. QED
    BY <2>3, <2>4, <2>5 DEF Move, Works
<1>2. QED
  BY <1>1, IInvariant, PTL DEF Spec, PriorContentsKept

-----------------------------------------------------------------------------
(* All or nothing.                                                         *)

LEMMA WorkIsWhole ==
  ASSUME TypeOK, Named, NEW p \in Proc, AtStage(p), Blamed(p), Works(p), job[p].path # Missing
  PROVE  /\ answer' = "published" => Replaced(p) /\ receipts'[job[p].path] = job[p]
         /\ answer' = "failed" /\ failures' <= 1 =>
              IF pc[p] = "verify" THEN Replaced(p) ELSE AsFound(p)
<1> USE DEF Replaced, AsFound
<1> DEFINE r == job[p].report
<1>1. r \in Report /\ r # Missing
  BY PublisherAssumption DEF TypeOK, Named, Works, CheckPlan, MoveAway, Place, Recover,
         VerifyServed, RollbackUnverified, WriteReceipt, InspectServed, Restore,
         RecheckRestored, Crash, Raises
<1>2. CASE CheckPlan(p) \/ MoveAway(p)
  BY <1>2 DEF CheckPlan, MoveAway, Raises, Step, Leave, AtStage, files
<1>3. CASE Place(p) \/ Crash(p) \/ RollbackUnverified(p)
  BY <1>3 DEF Place, Crash, RollbackUnverified, Step, Leave, AtStage
<1>4. CASE Recover(p)
  <2>1. /\ pc[p] = "recover" /\ output = Missing /\ BackedUp(p)
        /\ failures > 0 /\ failures \in Nat
    BY <1>4 DEF Recover, AtStage, Blamed, TypeOK
  <2>2. answer' = "failed"
    BY <1>4 DEF Recover, Leave
  <2>3. CASE Failing
    BY <2>1, <2>2, <2>3 DEF Failing
  <2>4. CASE ~Failing
    <3>1. IF job[p].moved THEN PutBack(p) ELSE UNCHANGED <<output, backups>>
      BY <1>4, <2>1, <2>4 DEF Recover, BackedUp
    <3>2. job[p].moved => output' = job[p].previous /\ backups'[r] = Missing
      BY <1>1, <2>1, <3>1 DEF PutBack, BackedUp, TypeOK
    <3>3. QED
      BY <2>1, <2>2, <3>1, <3>2 DEF BackedUp
  <2>5. QED
    BY <2>3, <2>4
<1>5. CASE WriteReceipt(p)
  <2>1. output = r /\ BackedUp(p) /\ job[p].path \in ReceiptPath
    BY <1>5 DEF WriteReceipt, AtStage, Named, Publishing
  <2>2. \/ answer' = "none"
        \/ /\ answer' = "published" /\ UNCHANGED <<output, backups>>
           /\ receipts' = [receipts EXCEPT ![job[p].path] = job[p]]
    BY <1>5 DEF WriteReceipt, Leave, Step
  <2>3. QED
    BY <2>1, <2>2 DEF BackedUp, Backup, TypeOK
<1>6. CASE InspectServed(p)
  <2>1. output = r /\ BackedUp(p) /\ failures > 0 /\ failures \in Nat
    BY <1>6 DEF InspectServed, AtStage, Blamed, TypeOK
  <2>2. \/ answer' = "none"
        \/ answer' = "failed" /\ Failing
    BY <1>6, <2>1 DEF InspectServed, Raises, Leave, Step, BackedUp
  <2>3. QED
    BY <2>1, <2>2 DEF Failing
<1>7. CASE Restore(p)
  <2>1. output = r /\ BackedUp(p) /\ failures > 0 /\ failures \in Nat
    BY <1>7 DEF Restore, AtStage, Blamed, TypeOK
  <2>2. \/ answer' = "none"
        \/ answer' = "failed" /\ Failing
    BY <1>1, <1>7, <2>1 DEF Restore, Step, Leave, BackedUp
  <2>3. QED
    BY <2>1, <2>2 DEF Failing
<1>8. CASE RecheckRestored(p)
  <2>1. failures > 0 /\ failures \in Nat
    BY <1>8 DEF RecheckRestored, Blamed, TypeOK
  <2>2. CASE Raises(p)
    BY <2>1, <2>2 DEF Raises, Failing, Leave
  <2>3. CASE ~Raises(p)
    BY <1>8, <2>3 DEF RecheckRestored, AtStage, Backup, Leave, files
  <2>4. QED
    BY <2>2, <2>3
<1>9. CASE VerifyServed(p)
  <2>1. output = r /\ BackedUp(p) /\ pc[p] = "verify"
    BY <1>9 DEF VerifyServed, AtStage
  <2>2. UNCHANGED <<output, backups>> /\ answer' \in {"none", "failed"}
    BY <1>9 DEF VerifyServed, Raises, Step, Leave, files
  <2>3. QED
    BY <2>1, <2>2 DEF BackedUp, Backup
<1>10. QED
  BY <1>2, <1>3, <1>4, <1>5, <1>6, <1>7, <1>8, <1>9 DEF Works

\* For operators that take turns a publication that returns serves its report under a
\* receipt that leads back to what was there. One that raises at any single access has left
\* or restored what was there, unless the access was the one that reads the new output
\* back (publisher.py:132): then the report is served without a receipt, over a whole backup.
THEOREM PublicationsAreWhole == Spec => AllOrNothing
<1>1. IInv /\ [Next]_vars =>
        [\A p \in Proc : exclusive /\ pc[p] # "idle" /\ job[p].path # Missing =>
           /\ answer' = "published" => Replaced(p) /\ receipts'[job[p].path] = job[p]
           /\ answer' = "failed" /\ failures' <= 1 =>
                IF pc[p] = "verify" THEN Replaced(p) ELSE AsFound(p)]_vars
  <2> SUFFICES ASSUME IInv, Next, NEW p \in Proc, exclusive, pc[p] # "idle",
                      job[p].path # Missing
               PROVE  /\ answer' = "published" => Replaced(p) /\ receipts'[job[p].path] = job[p]
                      /\ answer' = "failed" /\ failures' <= 1 =>
                           IF pc[p] = "verify" THEN Replaced(p) ELSE AsFound(p)
    OBVIOUS
  <2>1. TypeOK /\ Named /\ Turns /\ AtStage(p) /\ Blamed(p)
    BY DEF IInv, StageInv
  <2>2. ~Edit
    BY <2>1, PublisherAssumption DEF Edit, Turns
  <2>3. Move(p)
    <3>1. PICK q \in Proc : Move(q)
      BY <2>2 DEF Next
    <3>2. QED
      BY <2>1, <3>1, Alone
  <2>4. Works(p)
    BY <2>3 DEF Move, Works, StartPublish, StartRollback, Enter
  <2>5. QED
    BY <2>1, <2>4, WorkIsWhole
<1>2. QED
  BY <1>1, IInvariant, PTL DEF Spec, AllOrNothing

-----------------------------------------------------------------------------
(* What an approval says.                                                  *)

\* A set of numbers has a smallest one.
LEMMA FirstOf ==
  ASSUME NEW T, T \subseteq Nat, T # {}
  PROVE  \E m \in T : \A j \in T : m <= j
<1> DEFINE S == FiniteSubsetsOf(Nat)
           R == StrictSubsetOrdering(Nat)
           U == {0..m : m \in T}
<1>1. IsWellFoundedOn(R, S)
  BY FS_StrictSubsetOrderingWellFounded
<1>2. \A m \in T : IsFiniteSet(0..m)
  BY FS_Interval
<1>3. U \subseteq S /\ U # {}
  <2>1. \A m \in T : 0..m \in SUBSET Nat
    OBVIOUS
  <2>2. \A m \in T : 0..m \in S
    BY <2>1, <1>2 DEF FiniteSubsetsOf
  <2>3. QED
    BY <2>2
<1> HIDE DEF R, S
<1>4. PICK X \in U : \A Y \in U : <<Y, X>> \notin R
  <2> HIDE DEF U
  <2>1. QED
    BY <1>1, <1>3, WFMin
<1>5. PICK m \in T : X = 0..m
  OBVIOUS
<1>6. ASSUME NEW j \in T, j < m PROVE FALSE
  <2>1. 0..j \in U /\ 0..j \subseteq Nat /\ 0..m \subseteq Nat
    OBVIOUS
  <2>2. 0..j \subseteq 0..m /\ m \in 0..m /\ m \notin 0..j
    BY <1>6
  <2>3. <<0..j, 0..m>> \in R
    BY <2>1, <2>2 DEF R, StrictSubsetOrdering
  <2>4. QED
    BY <2>1, <2>3, <1>4, <1>5
<1>7. QED
  BY <1>6


\* Induction, for a set of numbers in place of a property.
LEMMA SetOfNumbers ==
  ASSUME NEW T, 0 \in T, \A n \in T : n \in Nat => n + 1 \in T
  PROVE  Nat \subseteq T
<1>1. SUFFICES ASSUME Nat \ T # {} PROVE FALSE
  OBVIOUS
<1>2. PICK m \in Nat \ T : \A j \in Nat \ T : m <= j
  BY <1>1, FirstOf
<1>3. m - 1 \in Nat /\ m - 1 < m /\ (m - 1) + 1 = m
  BY <1>2
<1>4. m - 1 \in T
  BY <1>2, <1>3
<1>5. QED
  BY <1>2, <1>3, <1>4

\* A non-empty set of positions has a last one.
LEMMA LastOf ==
  ASSUME NEW n \in Nat, NEW s, s \subseteq 1..n, s # {}
  PROVE  Max(s) \in s /\ \A j \in s : Max(s) >= j
<1> DEFINE T == {n - j : j \in s}
<1>1. PICK d \in T : \A e \in T : d <= e
  <2>1. \A j \in s : n - j \in Nat
    OBVIOUS
  <2>2. T \subseteq Nat /\ T # {}
    BY <2>1
  <2> HIDE DEF T
  <2>3. QED
    BY <2>2, FirstOf
<1>2. PICK m \in s : d = n - m
  OBVIOUS
<1>3. ASSUME NEW j \in s PROVE m >= j
  <2>1. m \in Int /\ j \in Int
    OBVIOUS
  <2>2. n - m <= n - j
    BY <1>1, <1>2
  <2>3. QED
    BY <2>1, <2>2
<1>4. \E x \in s : \A y \in s : x >= y
  BY <1>2, <1>3
<1>5. QED
  BY <1>4 DEF Max

\* One step of reading a patch.
ReadLine(seen, l) ==
  CASE l.mark = "hunk" -> [seen EXCEPT !.current = l.start]
    [] l.mark = "+" ->
         [current |-> seen.current + 1,
          lines |-> seen.lines \cup {[line |-> IF seen.current = 0 THEN 1 ELSE seen.current,
                                      features |-> l.features]}]
    [] l.mark = " " -> [seen EXCEPT !.current = @ + 1]
    [] OTHER -> seen

NothingRead == [current |-> 0, lines |-> {}]

\* it reads the lines of a patch whose numbers are in a set, the last one last.
IsReading(it, patch) ==
  it = [s \in SUBSET (1..Len(patch)) |->
          IF s = {} THEN NothingRead
          ELSE LET x == Max(s) IN ReadLine(it[s \ {x}], patch[x])]

LEMMA ReadingExists ==
  ASSUME NEW patch, Len(patch) \in Nat
  PROVE  \E it : IsReading(it, patch)
<1> DEFINE n == Len(patch)
           D == 1..n
           Small(k) == {s \in SUBSET D : Cardinality(s) <= k}
           Upto(g, k) == g = [s \in Small(k) |->
                                IF s = {} THEN NothingRead
                                ELSE ReadLine(g[s \ {Max(s)}], patch[Max(s)])]
           T == {k \in Nat : \E g : Upto(g, k)}
<1>1. /\ IsFiniteSet(D)
      /\ \A s \in SUBSET D : /\ IsFiniteSet(s) /\ Cardinality(s) \in Nat
                             /\ (Cardinality(s) = 0 <=> s = {})
                             /\ Cardinality(s) <= Cardinality(D)
  <2>1. IsFiniteSet(D)
    BY FS_Interval
  <2>2. ASSUME NEW s \in SUBSET D
        PROVE  IsFiniteSet(s) /\ Cardinality(s) <= Cardinality(D)
    BY <2>1, FS_Subset
  <2>3. ASSUME NEW s \in SUBSET D
        PROVE  Cardinality(s) \in Nat /\ (Cardinality(s) = 0 <=> s = {})
    BY <2>2, FS_CardinalityType, FS_EmptySet
  <2>4. QED
    BY <2>1, <2>2, <2>3
<1>2. \A s \in SUBSET D : s # {} =>
        s \ {Max(s)} \in SUBSET D /\ Cardinality(s \ {Max(s)}) = Cardinality(s) - 1
  BY <1>1, LastOf, FS_RemoveElement
<1> HIDE DEF D
<1>3. 0 \in T
  <2> DEFINE g == [s \in Small(0) |-> NothingRead]
  <2>1. \A s \in Small(0) : s = {}
    BY <1>1
  <2>2. Upto(g, 0)
    BY <2>1
  <2>3. QED
    BY <2>2
<1>4. ASSUME NEW k \in Nat, k \in T PROVE k + 1 \in T
  <2>1. PICK g : Upto(g, k)
    BY <1>4
  <2> DEFINE h == [s \in Small(k + 1) |->
                     IF s = {} THEN NothingRead
                     ELSE ReadLine(g[s \ {Max(s)}], patch[Max(s)])]
  <2>2. Small(k) \subseteq Small(k + 1)
    BY <1>1
  <2>3. \A u \in Small(k) : h[u] = g[u]
    BY <2>1, <2>2
  <2>4. \A s \in Small(k + 1) : s # {} => s \ {Max(s)} \in Small(k)
    BY <1>1, <1>2
  <2> HIDE DEF Small
  <2>5. Upto(h, k + 1)
    BY <2>3, <2>4
  <2> HIDE DEF Upto, h
  <2>6. \E f : Upto(f, k + 1)
    BY <2>5
  <2>7. QED
    BY <2>6
<1>5. Nat \subseteq T
  <2> HIDE DEF T
  <2>1. QED
    BY <1>3, <1>4, SetOfNumbers
<1>6. PICK it : Upto(it, Cardinality(D))
  BY <1>1, <1>5
<1>7. Small(Cardinality(D)) = SUBSET D
  BY <1>1
<1> HIDE DEF Small
<1>8. IsReading(it, patch)
  BY <1>6, <1>7 DEF IsReading, D
<1>9. QED
  BY <1>8

\* Reading takes what it has seen, and an added line with its features.
LEMMA ReadLineKeeps ==
  ASSUME NEW l, NEW seen, seen = [current |-> seen.current, lines |-> seen.lines],
         NEW next, next = ReadLine(seen, l)
  PROVE  /\ next = [current |-> next.current, lines |-> next.lines]
         /\ seen.lines \subseteq next.lines
         /\ l.mark = "+" => \E a \in next.lines : a.features = l.features
<1>1. CASE l.mark = "+"
  <2> DEFINE a == [line |-> IF seen.current = 0 THEN 1 ELSE seen.current, features |-> l.features]
  <2>1. next = [current |-> seen.current + 1, lines |-> seen.lines \cup {a}]
    BY <1>1 DEF ReadLine
  <2>2. next.lines = seen.lines \cup {a} /\ next = [current |-> next.current, lines |-> next.lines]
    BY <2>1
  <2>3. a \in next.lines /\ a.features = l.features
    BY <2>2
  <2>4. QED
    BY <2>2, <2>3
<1>2. CASE l.mark = "hunk"
  BY <1>2 DEF ReadLine
<1>3. CASE l.mark = " "
  BY <1>3 DEF ReadLine
<1>4. CASE l.mark \notin {"+", "hunk", " "}
  BY <1>4 DEF ReadLine
<1>5. QED
  BY <1>1, <1>2, <1>3, <1>4

\* No line that begins with "+" and not with "+++" escapes the reviewers, whatever hunks
\* and headers are around it.
LEMMA EveryAddedLineIsRead ==
  ASSUME NEW L, NEW patch \in Seq(L), NEW i \in DOMAIN patch, patch[i].mark = "+"
  PROVE  \E a \in AddedLines(patch) : a.features = patch[i].features
<1> DEFINE n == Len(patch)
           P(it) == it = [s \in SUBSET (1..n) |->
                            IF s = {} THEN NothingRead
                            ELSE LET x == Max(s) IN ReadLine(it[s \ {x}], patch[x])]
           Read(seen, m) == /\ seen = [current |-> seen.current, lines |-> seen.lines]
                            /\ \A j \in 1..m : patch[j].mark = "+" =>
                                 \E a \in seen.lines : a.features = patch[j].features
<1>1. n \in Nat /\ DOMAIN patch = 1..n
  OBVIOUS
<1>2. AddedLines(patch) = (CHOOSE it : P(it))[1..n].lines
  BY <1>1 DEF AddedLines, FoldLeft, MapThenFoldSet, ReadLine, NothingRead
<1>3. \A it : IsReading(it, patch) <=> P(it)
  BY DEF IsReading
<1> HIDE DEF P
<1>4. PICK it : it = (CHOOSE f : P(f)) /\ IsReading(it, patch)
  <2>1. \E f : P(f)
    BY <1>1, <1>3, ReadingExists
  <2>2. P(CHOOSE f : P(f))
    BY <2>1
  <2>3. QED
    BY <1>3, <2>2
<1> DEFINE T == {m \in Nat : m <= n => Read(it[1..m], m)}
<1>5. 0 \in T
  <2>1. it[{}] = NothingRead /\ 1..0 = {}
    <3>1. {} \in SUBSET (1..n) /\ 1..0 = {}
      OBVIOUS
    <3>2. QED
      BY <1>4, <3>1 DEF IsReading
  <2>2. QED
    BY <2>1 DEF NothingRead
<1>6. ASSUME NEW m \in T, m \in Nat PROVE m + 1 \in T
  <2> SUFFICES ASSUME m + 1 <= n PROVE Read(it[1..(m + 1)], m + 1)
    OBVIOUS
  <2>1. PICK s, u : s = 1..(m + 1) /\ u = 1..m
    OBVIOUS
  <2>2. s \in SUBSET (1..n) /\ s # {} /\ m + 1 \in s /\ u = s \ {m + 1}
    BY <1>1, <1>6, <2>1
  <2>3. Max(s) = m + 1
    <3>1. Max(s) \in s /\ Max(s) >= m + 1
      BY <1>1, <2>2, LastOf
    <3>2. QED
      BY <1>6, <2>1, <3>1
  <2>4. it[s] = ReadLine(it[u], patch[m + 1])
    BY <1>4, <2>2, <2>3 DEF IsReading
  <2>5. Read(it[u], m)
    BY <1>1, <1>6, <2>1
  <2>6. /\ it[s] = [current |-> it[s].current, lines |-> it[s].lines]
        /\ it[u].lines \subseteq it[s].lines
        /\ patch[m + 1].mark = "+" => \E a \in it[s].lines : a.features = patch[m + 1].features
    BY <2>4, <2>5, ReadLineKeeps
  <2>7. \A j \in 1..(m + 1) : j \in 1..m \/ j = m + 1
    BY <1>6
  <2>8. Read(it[s], m + 1)
    BY <2>5, <2>6, <2>7
  <2>9. QED
    BY <2>1, <2>8
<1>7. Nat \subseteq T
  <2> HIDE DEF T
  <2>1. QED
    BY <1>5, <1>6, SetOfNumbers
<1>8. Read(it[1..n], n)
  BY <1>1, <1>7
<1>9. QED
  BY <1>1, <1>2, <1>4, <1>8

\* What a reviewer finds in an approved report is of no severity that decides.
LEMMA ApprovedFindings ==
  ASSUME DefaultCouncil, NEW pr, NEW name, NEW failing, NEW report,
         report = Review(name, pr, failing), report.decision = "approved"
  PROVE  /\ report.failed = {}
         /\ \A r \in EnabledReviewers : \A f \in Reviewed(r, pr) :
              f.severity \notin {"critical", "high", "medium"}
<1>1. report.failed = EnabledReviewers \cap failing
  BY DEF Review
<1> DEFINE findings == UNION {Reviewed(r, pr) : r \in EnabledReviewers \ report.failed}
           severities == {f.severity : f \in findings}
<1>2. CouncilDecision(report.failed, findings) = "approved"
  BY <1>1 DEF Review
<1>3. /\ report.failed = {}
      /\ severities \cap BlockingSeverities = {}
      /\ severities \cap {"high", "medium"} = {}
  <2> HIDE DEF findings
  <2>1. QED
    BY <1>2 DEF CouncilDecision
<1>4. ASSUME NEW r \in EnabledReviewers, NEW f \in Reviewed(r, pr)
      PROVE  f.severity \in severities
  <2>1. f \in findings
    BY <1>3
  <2>2. QED
    BY <2>1
<1>5. QED
  BY <1>3, <1>4 DEF DefaultCouncil

\* A rule that looks into the added lines finds every line it is about.
LEMMA FoundInLines ==
  ASSUME NEW pr, NEW rule, NEW severity, NEW feature, NEW excuses,
         NEW f \in Range(pr.files), f.patch \in Seq(PatchLine),
         NEW i \in DOMAIN f.patch, f.patch[i].mark = "+",
         feature \in f.patch[i].features, excuses \cap f.patch[i].features = {}
  PROVE  \E g \in InLines(pr, rule, severity, feature, excuses) : g.severity = severity
<1>1. PICK a \in AddedLines(f.patch) : a.features = f.patch[i].features
  BY EveryAddedLineIsRead
<1> DEFINE g == Finding(rule, severity, f, a.line)
<1>2. g \in InLines(pr, rule, severity, feature, excuses)
  BY <1>1 DEF InLines
<1>3. g.severity = severity
  BY DEF Finding
<1>4. QED
  BY <1>2, <1>3

\* What the bundled reviewers together would have objected to is not there.
LEMMA ApprovedChange ==
  ASSUME DefaultCouncil, NEW pr, PullRequestValid(pr),
         \A r \in EnabledReviewers : \A g \in Reviewed(r, pr) :
           g.severity \notin {"critical", "high", "medium"}
  PROVE  /\ \A f \in Range(pr.files) : \A i \in DOMAIN f.patch : f.patch[i].mark = "+" =>
              /\ f.patch[i].features \cap {"secret", "execution", "broad_except"} = {}
              /\ "network" \in f.patch[i].features => "timeout" \in f.patch[i].features
         /\ (\E f \in Range(pr.files) : f.kind = "source")
              => \E f \in Range(pr.files) : f.kind = "test"
         /\ \A f \in Range(pr.files) :
              /\ f.kind = "test" /\ f.additions = 0 => f.deletions = 0
              /\ f.additions <= LargeChange
<1>1. /\ \A g \in SecurityReview(pr) : g.severity \notin {"critical", "high", "medium"}
      /\ \A g \in ReliabilityReview(pr) : g.severity \notin {"critical", "high", "medium"}
      /\ \A g \in TestingReview(pr) : g.severity \notin {"critical", "high", "medium"}
      /\ \A g \in MaintainabilityReview(pr) : g.severity \notin {"critical", "high", "medium"}
  BY DEF DefaultCouncil, Reviewed
<1>2. ASSUME NEW f \in Range(pr.files), NEW i \in DOMAIN f.patch, f.patch[i].mark = "+"
      PROVE  /\ f.patch[i].features \cap {"secret", "execution", "broad_except"} = {}
             /\ "network" \in f.patch[i].features => "timeout" \in f.patch[i].features
  <2> DEFINE fs == f.patch[i].features
  <2>1. f.patch \in Seq(PatchLine)
    BY DEF PullRequestValid, FileValid
  <2>2. "secret" \notin fs
    <3>1. SUFFICES ASSUME "secret" \in fs PROVE FALSE
      OBVIOUS
    <3>2. \E g \in InLines(pr, "SEC001", "critical", "secret", {}) : g.severity = "critical"
      BY <1>2, <2>1, <3>1, FoundInLines
    <3>3. QED
      BY <1>1, <3>2 DEF SecurityReview
  <2>3. "execution" \notin fs
    <3>1. SUFFICES ASSUME "execution" \in fs PROVE FALSE
      OBVIOUS
    <3>2. \E g \in InLines(pr, "SEC002", "high", "execution", {}) : g.severity = "high"
      BY <1>2, <2>1, <3>1, FoundInLines
    <3>3. QED
      BY <1>1, <3>2 DEF SecurityReview
  <2>4. "broad_except" \notin fs
    <3>1. SUFFICES ASSUME "broad_except" \in fs PROVE FALSE
      OBVIOUS
    <3>2. {} \cap fs = {}
      OBVIOUS
    <3>3. \E g \in InLines(pr, "REL002", "medium", "broad_except", {}) : g.severity = "medium"
      BY <1>2, <2>1, <3>1, <3>2, FoundInLines
    <3>4. QED
      BY <1>1, <3>3 DEF ReliabilityReview
  <2>5. "network" \in fs => "timeout" \in fs
    <3>1. SUFFICES ASSUME "network" \in fs, "timeout" \notin fs PROVE FALSE
      OBVIOUS
    <3>2. PICK excuses : excuses = {"timeout"}
      OBVIOUS
    <3>3. excuses \cap fs = {}
      BY <3>1, <3>2
    <3>4. \E g \in InLines(pr, "REL001", "medium", "network", excuses) : g.severity = "medium"
      BY <1>2, <2>1, <3>1, <3>3, FoundInLines
    <3>5. QED
      BY <1>1, <3>2, <3>4 DEF ReliabilityReview
  <2>6. QED
    BY <2>2, <2>3, <2>4, <2>5
<1>3. ASSUME NEW f \in Range(pr.files), f.kind = "source"
      PROVE  \E t \in Range(pr.files) : t.kind = "test"
  <2>1. SUFFICES ASSUME \A t \in Range(pr.files) : t.kind # "test" PROVE FALSE
    OBVIOUS
  <2> DEFINE sources == {i \in DOMAIN pr.files : pr.files[i].kind = "source"}
             g == Finding("TST001", "medium", pr.files[Min(sources)], 0)
  <2>2. sources # {} /\ {t \in Range(pr.files) : t.kind = "test"} = {}
    BY <1>3, <2>1 DEF Range
  <2>3. g \in TestingReview(pr)
    BY <2>2 DEF TestingReview
  <2>4. QED
    BY <1>1, <2>3 DEF Finding
<1>4. ASSUME NEW f \in Range(pr.files), f.kind = "test", f.additions = 0
      PROVE  f.deletions = 0
  <2>1. f.deletions \in Nat
    BY DEF PullRequestValid, FileValid
  <2>2. SUFFICES ASSUME f.deletions > 0 PROVE FALSE
    BY <2>1
  <2>3. Finding("TST002", "high", f, 0) \in TestingReview(pr)
    BY <1>4, <2>2 DEF TestingReview
  <2>4. QED
    BY <1>1, <2>3 DEF Finding
<1>5. ASSUME NEW f \in Range(pr.files) PROVE f.additions <= LargeChange
  <2>1. SUFFICES ASSUME f.additions > LargeChange PROVE FALSE
    BY CouncilAssumption DEF CouncilAssumption, PullRequestValid, FileValid
  <2>2. Finding("MNT001", "medium", f, 0) \in MaintainabilityReview(pr)
    BY <2>1 DEF MaintainabilityReview
  <2>3. QED
    BY <1>1, <2>2 DEF Finding
<1>6. QED
  BY <1>2, <1>3, <1>4, <1>5

\* A served approval is earned, however publications race or break off, for the council that
\* the command line builds: no reviewer failed, no added line that is told from a file header
\* (reviewers.py:30) has what the reviewers look for, and no file is changed in a way that
\* they object to (council.py:49-82).
THEOREM ApprovalsAreEarned == DefaultCouncil => (Spec => []PublishedApprovalIsEarned)
<1> SUFFICES ASSUME DefaultCouncil PROVE Spec => []PublishedApprovalIsEarned
  OBVIOUS
<1>1. PublishedApprovalIsEarned
  <2> DEFINE changed == Range(SnapshotOf(output.pr).files)
             added == UNION {{f.patch[i].features :
                                i \in {j \in DOMAIN f.patch : f.patch[j].mark = "+"}}
                             : f \in changed}
  <2> SUFFICES ASSUME output \in Report, output.decision = "approved"
               PROVE  /\ output.failed = {}
                      /\ \A fs \in added :
                           /\ fs \cap {"secret", "execution", "broad_except"} = {}
                           /\ "network" \in fs => "timeout" \in fs
                      /\ (\E f \in changed : f.kind = "source")
                           => \E f \in changed : f.kind = "test"
                      /\ \A f \in changed : /\ f.kind = "test" /\ f.additions = 0 => f.deletions = 0
                                            /\ f.additions <= LargeChange
    BY DEF PublishedApprovalIsEarned
  <2>1. PICK run \in Runs : output = Review(run.pr, SnapshotOf(run.pr), run.failing)
    BY DEF Report, ReportOf
  <2>2. output.pr = run.pr
    BY <2>1 DEF Review
  <2> DEFINE pr == SnapshotOf(run.pr)
  <2>3. PullRequestValid(pr) /\ changed = Range(pr.files)
    BY <2>2, PublisherAssumption
  <2>4. /\ output.failed = {}
        /\ \A r \in EnabledReviewers : \A f \in Reviewed(r, pr) :
             f.severity \notin {"critical", "high", "medium"}
    BY <2>1, ApprovedFindings
  <2>5. ASSUME NEW fs \in added
        PROVE  \E f \in Range(pr.files) : \E i \in DOMAIN f.patch :
                 f.patch[i].mark = "+" /\ fs = f.patch[i].features
    BY <2>3
  <2> HIDE DEF pr, changed, added
  <2>6. /\ \A f \in changed : \A i \in DOMAIN f.patch : f.patch[i].mark = "+" =>
             /\ f.patch[i].features \cap {"secret", "execution", "broad_except"} = {}
             /\ "network" \in f.patch[i].features => "timeout" \in f.patch[i].features
        /\ (\E f \in changed : f.kind = "source") => \E f \in changed : f.kind = "test"
        /\ \A f \in changed : /\ f.kind = "test" /\ f.additions = 0 => f.deletions = 0
                              /\ f.additions <= LargeChange
    BY <2>3, <2>4, ApprovedChange
  <2>7. ASSUME NEW fs \in added
        PROVE  /\ fs \cap {"secret", "execution", "broad_except"} = {}
               /\ "network" \in fs => "timeout" \in fs
    BY <2>3, <2>5, <2>6
  <2>8. QED
    BY <2>4, <2>6, <2>7
<1>2. QED
  BY <1>1, PTL
=============================================================================
