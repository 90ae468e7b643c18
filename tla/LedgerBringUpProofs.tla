------------------------ MODULE LedgerBringUpProofs ------------------------
(***************************************************************************)
(* Proofs about LedgerBringUp.tla, for every number of processes, of       *)
(* statements, of opens, calls and crashes.                                *)
(***************************************************************************)
EXTENDS LedgerBringUp, TLAPS

Before == {"closed", "look_lock", "early", "lock_file", "lock", "refused"}
Connecting == {"connect", "inspect", "attach"}
Labels == Before \cup Connecting
          \cup {"locked", "preflight", "script", "work", "anchor", "open"}

TypeOK ==
  /\ origin \in Origins
  /\ file \in {"absent", "empty", "foreign", "sqlite"}
  /\ made \in 0..Statements
  /\ side \in BOOLEAN /\ anchor \in BOOLEAN /\ lockFile \in BOOLEAN /\ torn \in BOOLEAN
  /\ initLock \in Proc \cup {Nobody}
  /\ connected \subseteq Proc
  /\ pc \in [Proc -> Labels]
  /\ goal \in [Proc -> {"none", "initialize", "recover", "call"}]
  /\ done \in [Proc -> 0..Statements]
  /\ opens \in Nat /\ calls \in Nat /\ crashes \in Nat

\* A process works under the initialization lock.
Holds(p) ==
  \/ pc[p] \in {"locked", "preflight", "script", "anchor"}
  \/ pc[p] \in Connecting \cup {"work"} /\ goal[p] # "call"

LockInv == \A p \in Proc : Holds(p) <=> initLock = p

\* What a process that is past the checks has found or made.
StageInv ==
  \A p \in Proc :
    /\ pc[p] \in Connecting => goal[p] # "none" /\ file \in {"empty", "sqlite"}
    /\ pc[p] \in {"preflight", "script"} => goal[p] = "initialize"
    /\ pc[p] = "script" => file = "sqlite" /\ done[p] <= made
    /\ pc[p] = "work" => goal[p] \in {"recover", "call"}
    /\ pc[p] \in Connecting \cup {"work"} /\ goal[p] = "recover" => Exact
    /\ pc[p] = "anchor" => Exact
    /\ pc[p] = "open" \/ goal[p] = "call" => Exact /\ anchor

\* A file that is not a ledger stays what it is, and nobody gets past its checks.
ForeignInv ==
  /\ made > 0 => file = "sqlite"
  /\ (origin = "foreign") <=> (file = "foreign")
  /\ file = "foreign" =>
       connected = {} /\ \A p \in Proc : pc[p] \in Before \cup {"locked", "preflight"}

\* Nobody is past the checks of a file whose creation was cut short.
TornInv ==
  torn => /\ file = "sqlite" /\ made < Statements
          /\ \A p \in Proc : pc[p] \in Before \cup {"locked", "preflight"}

\* While nothing disturbs the creators: an unfinished schema has a creator at work, a
\* check without the lock meets a ledger that was there, the side files are the holder's.
CalmInv ==
  origin # "foreign" /\ crashes = 0 /\ calls = 0 =>
    /\ ~torn
    /\ file = "sqlite" /\ ~Exact => \E p \in Proc : pc[p] = "script"
    /\ origin = "ledger" => Exact
    /\ origin # "ledger" /\ ~lockFile => file # "sqlite"
    /\ \A p \in Proc :
         /\ pc[p] = "look_lock" => file = "sqlite"
         /\ pc[p] = "early" => origin = "ledger"
         /\ pc[p] \in {"lock"} \cup (Labels \ Before) => lockFile
         /\ goal[p] # "call"
         /\ pc[p] = "inspect" => side
         /\ pc[p] # "refused"
         /\ pc[p] = "preflight" => file = "sqlite"

IInv == TypeOK /\ LockInv /\ StageInv /\ ForeignInv /\ TornInv /\ CalmInv

-----------------------------------------------------------------------------
\* Every step keeps every variable to its kind.
LEMMA TypeStep ==
  ASSUME TypeOK, [Next]_vars
  PROVE  TypeOK'
<1> USE BringUpAssumption DEF TypeOK, Origins, Labels, Before, Connecting
<1>1. ASSUME NEW p \in Proc, Open(p) PROVE TypeOK'
  BY <1>1 DEF Open, Goto, Step, Files, NotEmpty
<1>2. ASSUME NEW p \in Proc, LookForLock(p) PROVE TypeOK'
  BY <1>2 DEF LookForLock, Goto, Step, Files, counters
<1>3. ASSUME NEW p \in Proc, EarlyPreflight(p) PROVE TypeOK'
  BY <1>3 DEF EarlyPreflight, Goto, Refuse, Read, counters
<1>4. ASSUME NEW p \in Proc, MakeLockFile(p) PROVE TypeOK'
  BY <1>4 DEF MakeLockFile, Goto, Step, Files, counters
<1>5. ASSUME NEW p \in Proc, TakeLock(p) PROVE TypeOK'
  BY <1>5 DEF TakeLock, Goto, Step, Files, counters
<1>6. ASSUME NEW p \in Proc, CreateFile(p) PROVE TypeOK'
  BY <1>6 DEF CreateFile, Goto, Step, NotEmpty, counters
<1>7. ASSUME NEW p \in Proc, Preflight(p) PROVE TypeOK'
  BY <1>7 DEF Preflight, Goto, Refuse, Read, counters
<1>8. ASSUME NEW p \in Proc, LookAtSide(p) PROVE TypeOK'
  BY <1>8 DEF LookAtSide, Goto, Step, Files, counters
<1>9. ASSUME NEW p \in Proc, InspectSide(p) PROVE TypeOK'
  BY <1>9 DEF InspectSide, Goto, Refuse, counters
<1>10. ASSUME NEW p \in Proc, Attach(p) PROVE TypeOK'
  BY <1>10 DEF Attach, Goto, counters
<1>11. ASSUME NEW p \in Proc, Execute(p) PROVE TypeOK'
  BY <1>11 DEF Execute, Goto, counters
<1>12. ASSUME NEW p \in Proc, ScriptDone(p) PROVE TypeOK'
  BY <1>12 DEF ScriptDone, Goto, Disconnect, counters
<1>13. ASSUME NEW p \in Proc, Work(p) PROVE TypeOK'
  BY <1>13 DEF Work, Goto, Disconnect, counters
<1>14. ASSUME NEW p \in Proc, MakeAnchor(p) PROVE TypeOK'
  BY <1>14 DEF MakeAnchor, Goto, Step, counters
<1>15. ASSUME NEW p \in Proc, StartCall(p) PROVE TypeOK'
  BY <1>15 DEF StartCall, Goto, Step
<1>16. ASSUME NEW p \in Proc, Crash(p) PROVE TypeOK'
  BY <1>16 DEF Crash, Goto
<1>17. CASE UNCHANGED vars
  BY <1>17 DEF vars
<1>18. QED  BY <1>1, <1>2, <1>3, <1>4, <1>5, <1>6, <1>7, <1>8, <1>9,
               <1>10, <1>11, <1>12, <1>13, <1>14, <1>15, <1>16, <1>17 DEF Next, Continue

\* The initialization lock (ledger.py:122-148) is with the one process that works
\* under it, whoever crashes or raises: both of its exits give it back.
LEMMA LockStep ==
  ASSUME TypeOK, LockInv, StageInv, [Next]_vars
  PROVE  LockInv'
<1> USE BringUpAssumption DEF TypeOK, LockInv, StageInv, Holds, Labels, Before,
        Connecting
<1>1. ASSUME NEW p \in Proc, Open(p) PROVE LockInv'
  BY <1>1 DEF Open, Goto, Step, Files, NotEmpty
<1>2. ASSUME NEW p \in Proc, LookForLock(p) PROVE LockInv'
  BY <1>2 DEF LookForLock, Goto, Step, Files, counters
<1>3. ASSUME NEW p \in Proc, EarlyPreflight(p) PROVE LockInv'
  BY <1>3 DEF EarlyPreflight, Goto, Refuse, Read, counters
<1>4. ASSUME NEW p \in Proc, MakeLockFile(p) PROVE LockInv'
  BY <1>4 DEF MakeLockFile, Goto, Step, Files, counters
<1>5. ASSUME NEW p \in Proc, TakeLock(p) PROVE LockInv'
  BY <1>5 DEF TakeLock, Goto, Step, Files, counters
<1>6. ASSUME NEW p \in Proc, CreateFile(p) PROVE LockInv'
  BY <1>6 DEF CreateFile, Goto, Step, NotEmpty, counters
<1>7. ASSUME NEW p \in Proc, Preflight(p) PROVE LockInv'
  BY <1>7 DEF Preflight, Goto, Refuse, Read, counters
<1>8. ASSUME NEW p \in Proc, LookAtSide(p) PROVE LockInv'
  BY <1>8 DEF LookAtSide, Goto, Step, Files, counters
<1>9. ASSUME NEW p \in Proc, InspectSide(p) PROVE LockInv'
  BY <1>9 DEF InspectSide, Goto, Refuse, counters
<1>10. ASSUME NEW p \in Proc, Attach(p) PROVE LockInv'
  BY <1>10 DEF Attach, Goto, counters
<1>11. ASSUME NEW p \in Proc, Execute(p) PROVE LockInv'
  BY <1>11 DEF Execute, Goto, counters
<1>12. ASSUME NEW p \in Proc, ScriptDone(p) PROVE LockInv'
  BY <1>12 DEF ScriptDone, Goto, Disconnect, counters
<1>13. ASSUME NEW p \in Proc, Work(p) PROVE LockInv'
  BY <1>13 DEF Work, Goto, Disconnect, counters
<1>14. ASSUME NEW p \in Proc, MakeAnchor(p) PROVE LockInv'
  BY <1>14 DEF MakeAnchor, Goto, Step, counters
<1>15. ASSUME NEW p \in Proc, StartCall(p) PROVE LockInv'
  BY <1>15 DEF StartCall, Goto, Step
<1>16. ASSUME NEW p \in Proc, Crash(p) PROVE LockInv'
  BY <1>16 DEF Crash, Goto
<1>17. CASE UNCHANGED vars
  BY <1>17 DEF vars
<1>18. QED  BY <1>1, <1>2, <1>3, <1>4, <1>5, <1>6, <1>7, <1>8, <1>9,
               <1>10, <1>11, <1>12, <1>13, <1>14, <1>15, <1>16, <1>17 DEF Next, Continue

\* A process that is past the checks of a constructor goes on with a file that is its
\* own to fill or is a whole ledger; the schema only grows.
LEMMA StageStep ==
  ASSUME TypeOK, LockInv, StageInv, [Next]_vars
  PROVE  StageInv'
<1> USE BringUpAssumption DEF TypeOK, LockInv, StageInv, Holds, Exact, Labels,
        Before, Connecting
<1>1. ASSUME NEW p \in Proc, Open(p) PROVE StageInv'
  BY <1>1 DEF Open, Goto, Step, Files, NotEmpty
<1>2. ASSUME NEW p \in Proc, LookForLock(p) PROVE StageInv'
  BY <1>2 DEF LookForLock, Goto, Step, Files, counters
<1>3. ASSUME NEW p \in Proc, EarlyPreflight(p) PROVE StageInv'
  BY <1>3 DEF EarlyPreflight, Goto, Refuse, Read, counters
<1>4. ASSUME NEW p \in Proc, MakeLockFile(p) PROVE StageInv'
  BY <1>4 DEF MakeLockFile, Goto, Step, Files, counters
<1>5. ASSUME NEW p \in Proc, TakeLock(p) PROVE StageInv'
  BY <1>5 DEF TakeLock, Goto, Step, Files, counters
<1>6. ASSUME NEW p \in Proc, CreateFile(p) PROVE StageInv'
  BY <1>6 DEF CreateFile, Goto, Step, NotEmpty, counters
<1>7. ASSUME NEW p \in Proc, Preflight(p) PROVE StageInv'
  BY <1>7 DEF Preflight, Goto, Refuse, Read, counters
<1>8. ASSUME NEW p \in Proc, LookAtSide(p) PROVE StageInv'
  BY <1>8 DEF LookAtSide, Goto, Step, Files, counters
<1>9. ASSUME NEW p \in Proc, InspectSide(p) PROVE StageInv'
  BY <1>9 DEF InspectSide, Goto, Refuse, counters
<1>10. ASSUME NEW p \in Proc, Attach(p) PROVE StageInv'
  BY <1>10 DEF Attach, Goto, counters
<1>11. ASSUME NEW p \in Proc, Execute(p) PROVE StageInv'
  BY <1>11 DEF Execute, Goto, counters
<1>12. ASSUME NEW p \in Proc, ScriptDone(p) PROVE StageInv'
  BY <1>12 DEF ScriptDone, Goto, Disconnect, counters
<1>13. ASSUME NEW p \in Proc, Work(p) PROVE StageInv'
  BY <1>13 DEF Work, Goto, Disconnect, counters
<1>14. ASSUME NEW p \in Proc, MakeAnchor(p) PROVE StageInv'
  BY <1>14 DEF MakeAnchor, Goto, Step, counters
<1>15. ASSUME NEW p \in Proc, StartCall(p) PROVE StageInv'
  BY <1>15 DEF StartCall, Goto, Step
<1>16. ASSUME NEW p \in Proc, Crash(p) PROVE StageInv'
  BY <1>16 DEF Crash, Goto
<1>17. CASE UNCHANGED vars
  BY <1>17 DEF vars
<1>18. QED  BY <1>1, <1>2, <1>3, <1>4, <1>5, <1>6, <1>7, <1>8, <1>9,
               <1>10, <1>11, <1>12, <1>13, <1>14, <1>15, <1>16, <1>17 DEF Next, Continue

\* Somebody else's database is refused by both preflights (ledger.py:104-119) and
\* nobody connects to it.
LEMMA ForeignStep ==
  ASSUME TypeOK, StageInv, ForeignInv, [Next]_vars
  PROVE  ForeignInv'
<1> USE BringUpAssumption DEF TypeOK, StageInv, ForeignInv, Exact, NotEmpty,
        Labels, Before, Connecting
<1>1. ASSUME NEW p \in Proc, Open(p) PROVE ForeignInv'
  BY <1>1 DEF Open, Goto, Step, Files, NotEmpty
<1>2. ASSUME NEW p \in Proc, LookForLock(p) PROVE ForeignInv'
  BY <1>2 DEF LookForLock, Goto, Step, Files, counters
<1>3. ASSUME NEW p \in Proc, EarlyPreflight(p) PROVE ForeignInv'
  BY <1>3 DEF EarlyPreflight, Goto, Refuse, Read, counters
<1>4. ASSUME NEW p \in Proc, MakeLockFile(p) PROVE ForeignInv'
  BY <1>4 DEF MakeLockFile, Goto, Step, Files, counters
<1>5. ASSUME NEW p \in Proc, TakeLock(p) PROVE ForeignInv'
  BY <1>5 DEF TakeLock, Goto, Step, Files, counters
<1>6. ASSUME NEW p \in Proc, CreateFile(p) PROVE ForeignInv'
  BY <1>6 DEF CreateFile, Goto, Step, NotEmpty, counters
<1>7. ASSUME NEW p \in Proc, Preflight(p) PROVE ForeignInv'
  BY <1>7 DEF Preflight, Goto, Refuse, Read, counters
<1>8. ASSUME NEW p \in Proc, LookAtSide(p) PROVE ForeignInv'
  BY <1>8 DEF LookAtSide, Goto, Step, Files, counters
<1>9. ASSUME NEW p \in Proc, InspectSide(p) PROVE ForeignInv'
  BY <1>9 DEF InspectSide, Goto, Refuse, counters
<1>10. ASSUME NEW p \in Proc, Attach(p) PROVE ForeignInv'
  BY <1>10 DEF Attach, Goto, counters
<1>11. ASSUME NEW p \in Proc, Execute(p) PROVE ForeignInv'
  BY <1>11 DEF Execute, Goto, counters
<1>12. ASSUME NEW p \in Proc, ScriptDone(p) PROVE ForeignInv'
  BY <1>12 DEF ScriptDone, Goto, Disconnect, counters
<1>13. ASSUME NEW p \in Proc, Work(p) PROVE ForeignInv'
  BY <1>13 DEF Work, Goto, Disconnect, counters
<1>14. ASSUME NEW p \in Proc, MakeAnchor(p) PROVE ForeignInv'
  BY <1>14 DEF MakeAnchor, Goto, Step, counters
<1>15. ASSUME NEW p \in Proc, StartCall(p) PROVE ForeignInv'
  BY <1>15 DEF StartCall, Goto, Step
<1>16. ASSUME NEW p \in Proc, Crash(p) PROVE ForeignInv'
  BY <1>16 DEF Crash, Goto
<1>17. CASE UNCHANGED vars
  BY <1>17 DEF vars
<1>18. QED  BY <1>1, <1>2, <1>3, <1>4, <1>5, <1>6, <1>7, <1>8, <1>9,
               <1>10, <1>11, <1>12, <1>13, <1>14, <1>15, <1>16, <1>17 DEF Next, Continue

\* A creation that was cut short leaves nobody past the checks, and the preflight
\* under the lock lets nobody past them (ledger.py:118-119).
LEMMA TornStep ==
  ASSUME TypeOK, LockInv, StageInv, ForeignInv, TornInv, [Next]_vars
  PROVE  TornInv'
<1> USE BringUpAssumption DEF TypeOK, LockInv, StageInv, ForeignInv, TornInv,
        Holds, Exact, NotEmpty, Labels, Before, Connecting
<1>1. ASSUME NEW p \in Proc, Open(p) PROVE TornInv'
  BY <1>1 DEF Open, Goto, Step, Files, NotEmpty
<1>2. ASSUME NEW p \in Proc, LookForLock(p) PROVE TornInv'
  BY <1>2 DEF LookForLock, Goto, Step, Files, counters
<1>3. ASSUME NEW p \in Proc, EarlyPreflight(p) PROVE TornInv'
  BY <1>3 DEF EarlyPreflight, Goto, Refuse, Read, counters
<1>4. ASSUME NEW p \in Proc, MakeLockFile(p) PROVE TornInv'
  BY <1>4 DEF MakeLockFile, Goto, Step, Files, counters
<1>5. ASSUME NEW p \in Proc, TakeLock(p) PROVE TornInv'
  BY <1>5 DEF TakeLock, Goto, Step, Files, counters
<1>6. ASSUME NEW p \in Proc, CreateFile(p) PROVE TornInv'
  BY <1>6 DEF CreateFile, Goto, Step, NotEmpty, counters
<1>7. ASSUME NEW p \in Proc, Preflight(p) PROVE TornInv'
  BY <1>7 DEF Preflight, Goto, Refuse, Read, counters
<1>8. ASSUME NEW p \in Proc, LookAtSide(p) PROVE TornInv'
  BY <1>8 DEF LookAtSide, Goto, Step, Files, counters
<1>9. ASSUME NEW p \in Proc, InspectSide(p) PROVE TornInv'
  BY <1>9 DEF InspectSide, Goto, Refuse, counters
<1>10. ASSUME NEW p \in Proc, Attach(p) PROVE TornInv'
  BY <1>10 DEF Attach, Goto, counters
<1>11. ASSUME NEW p \in Proc, Execute(p) PROVE TornInv'
  BY <1>11 DEF Execute, Goto, counters
<1>12. ASSUME NEW p \in Proc, ScriptDone(p) PROVE TornInv'
  BY <1>12 DEF ScriptDone, Goto, Disconnect, counters
<1>13. ASSUME NEW p \in Proc, Work(p) PROVE TornInv'
  BY <1>13 DEF Work, Goto, Disconnect, counters
<1>14. ASSUME NEW p \in Proc, MakeAnchor(p) PROVE TornInv'
  BY <1>14 DEF MakeAnchor, Goto, Step, counters
<1>15. ASSUME NEW p \in Proc, StartCall(p) PROVE TornInv'
  BY <1>15 DEF StartCall, Goto, Step
<1>16. ASSUME NEW p \in Proc, Crash(p) PROVE TornInv'
  BY <1>16 DEF Crash, Goto
<1>17. CASE UNCHANGED vars
  BY <1>17 DEF vars
<1>18. QED  BY <1>1, <1>2, <1>3, <1>4, <1>5, <1>6, <1>7, <1>8, <1>9,
               <1>10, <1>11, <1>12, <1>13, <1>14, <1>15, <1>16, <1>17 DEF Next, Continue

\* Among creators that are left alone each check meets a whole ledger
\* (ledger.py:104-119), and the side files stay while they are inspected
\* (ledger.py:218-220).
LEMMA CalmStep ==
  ASSUME TypeOK, LockInv, StageInv, ForeignInv, CalmInv, [Next]_vars
  PROVE  CalmInv'
<1> USE BringUpAssumption DEF TypeOK, LockInv, StageInv, ForeignInv, CalmInv,
        Holds, Exact, NotEmpty, Labels, Before, Connecting
<1>1. ASSUME NEW p \in Proc, Open(p) PROVE CalmInv'
  BY <1>1 DEF Open, Goto, Step, Files, NotEmpty
<1>2. ASSUME NEW p \in Proc, LookForLock(p) PROVE CalmInv'
  BY <1>2 DEF LookForLock, Goto, Step, Files, counters
<1>3. ASSUME NEW p \in Proc, EarlyPreflight(p) PROVE CalmInv'
  BY <1>3 DEF EarlyPreflight, Goto, Refuse, Read, counters
<1>4. ASSUME NEW p \in Proc, MakeLockFile(p) PROVE CalmInv'
  BY <1>4 DEF MakeLockFile, Goto, Step, Files, counters
<1>5. ASSUME NEW p \in Proc, TakeLock(p) PROVE CalmInv'
  BY <1>5 DEF TakeLock, Goto, Step, Files, counters
<1>6. ASSUME NEW p \in Proc, CreateFile(p) PROVE CalmInv'
  BY <1>6 DEF CreateFile, Goto, Step, NotEmpty, counters
<1>7. ASSUME NEW p \in Proc, Preflight(p) PROVE CalmInv'
  BY <1>7 DEF Preflight, Goto, Refuse, Read, counters
<1>8. ASSUME NEW p \in Proc, LookAtSide(p) PROVE CalmInv'
  BY <1>8 DEF LookAtSide, Goto, Step, Files, counters
<1>9. ASSUME NEW p \in Proc, InspectSide(p) PROVE CalmInv'
  BY <1>9 DEF InspectSide, Goto, Refuse, counters
<1>10. ASSUME NEW p \in Proc, Attach(p) PROVE CalmInv'
  BY <1>10 DEF Attach, Goto, counters
<1>11. ASSUME NEW p \in Proc, Execute(p) PROVE CalmInv'
  BY <1>11 DEF Execute, Goto, counters
<1>12. ASSUME NEW p \in Proc, ScriptDone(p) PROVE CalmInv'
  BY <1>12 DEF ScriptDone, Goto, Disconnect, counters
<1>13. ASSUME NEW p \in Proc, Work(p) PROVE CalmInv'
  BY <1>13 DEF Work, Goto, Disconnect, counters
<1>14. ASSUME NEW p \in Proc, MakeAnchor(p) PROVE CalmInv'
  BY <1>14 DEF MakeAnchor, Goto, Step, counters
<1>15. ASSUME NEW p \in Proc, StartCall(p) PROVE CalmInv'
  BY <1>15 DEF StartCall, Goto, Step
<1>16. ASSUME NEW p \in Proc, Crash(p) PROVE CalmInv'
  BY <1>16 DEF Crash, Goto
<1>17. CASE UNCHANGED vars
  BY <1>17 DEF vars
<1>18. QED  BY <1>1, <1>2, <1>3, <1>4, <1>5, <1>6, <1>7, <1>8, <1>9,
               <1>10, <1>11, <1>12, <1>13, <1>14, <1>15, <1>16, <1>17 DEF Next, Continue

\* The invariant behind the theorems below, inductive as it stands.
THEOREM InvariantHolds == Spec => []IInv
<1>1. Init => IInv
  <2> SUFFICES ASSUME Init PROVE IInv  OBVIOUS
  <2> USE BringUpAssumption DEF Init, Origins, Labels, Before, Connecting
  <2>1. TypeOK
    <3>1. made \in 0..Statements  BY Z3
    <3>2. file \in {"absent", "empty", "foreign", "sqlite"} /\ origin \in Origins  OBVIOUS
    <3>3. anchor \in BOOLEAN /\ side \in BOOLEAN /\ lockFile \in BOOLEAN /\ torn \in BOOLEAN  OBVIOUS
    <3>4. pc \in [Proc -> Labels] /\ goal \in [Proc -> {"none", "initialize", "recover", "call"}]
      OBVIOUS
    <3>5. done \in [Proc -> 0..Statements]  OBVIOUS
    <3>6. QED  BY <3>1, <3>2, <3>3, <3>4, <3>5 DEF TypeOK
  <2>2. LockInv  BY DEF LockInv, Holds
  <2>3. StageInv  BY DEF StageInv
  <2>4. ForeignInv  BY DEF ForeignInv
  <2>5. TornInv  BY DEF TornInv
  <2>6. CalmInv  BY DEF CalmInv, Exact
  <2>7. QED  BY <2>1, <2>2, <2>3, <2>4, <2>5, <2>6 DEF IInv
<1>2. IInv /\ [Next]_vars => IInv'
  BY TypeStep, LockStep, StageStep, ForeignStep, TornStep, CalmStep DEF IInv
<1>3. QED  BY <1>1, <1>2, PTL DEF Spec

\* Whatever is interleaved, crashes or raises, a constructor that returns has handed out
\* a whole ledger with its anchor, and no foreign file is touched (ledger.py:95-120).
THEOREM LedgersAreWhole == Spec => []OpenedIsWhole
<1>1. IInv => OpenedIsWhole
  BY DEF IInv, TypeOK, StageInv, ForeignInv, OpenedIsWhole
<1>2. QED  BY <1>1, InvariantHolds, PTL

\* Any number of constructors may create one ledger together: without a crash or a user
\* none of them takes the others' work for a foreign file (ledger.py:104-119).
THEOREM CreatorsNeverClash == Spec => []CreatorsAgree
<1>1. IInv => CreatorsAgree
  BY DEF IInv, CalmInv, CreatorsAgree
<1>2. QED  BY <1>1, InvariantHolds, PTL

\* An unfinished creation is never taken up, nor taken for a ledger (ledger.py:115-118,
\* 172-176).
THEOREM TornStaysRefused == Spec => []HalfMadeIsRefused
<1>1. IInv => HalfMadeIsRefused
  BY BringUpAssumption DEF IInv, TornInv, Before, HalfMadeIsRefused
<1>2. QED  BY <1>1, InvariantHolds, PTL
=============================================================================
