--------------------------- MODULE LedgerBringUp ---------------------------
(***************************************************************************)
(* How a decision ledger comes into being and is opened                    *)
(* (DecisionLedger.__init__, _preflight_existing, _connect, _initialize in *)
(* release_gate/ledger.py), by several processes at once.  Ledger.tla      *)
(* starts where this module ends: a file with the whole schema.            *)
(*                                                                         *)
(* The schema is created by a script whose statements commit one by one;   *)
(* "made" counts those that took effect.  SQLite keeps the files -wal and  *)
(* -shm ("side") beside the database while somebody is connected; the last *)
(* connection that is closed removes them.                                 *)
(***************************************************************************)
EXTENDS Integers, FiniteSets

CONSTANTS
  Proc,
  Nobody,      \* the holder of a free lock
  Statements,  \* the number of statements of the script of _initialize
  Tables,      \* how many of them come before all the tables are there
  MaxOpens,    \* bound on the constructor calls
  MaxCalls,    \* bound on the calls on an open ledger
  MaxCrashes   \* bound on the crashes

ASSUME BringUpAssumption ==
  /\ Nobody \notin Proc
  /\ Statements \in Nat /\ Tables \in 0..(Statements - 1)
  /\ {MaxOpens, MaxCalls, MaxCrashes} \subseteq Nat

VARIABLES
  origin,    \* what was at the path to begin with
  file,      \* what is there now
  made,      \* the statements of the schema that took effect
  side,      \* whether -wal and -shm are there
  anchor,    \* whether the anchor file is there
  lockFile,  \* whether <ledger>.init.lock is there
  initLock,  \* holder of the flock on it
  connected, \* the processes that are connected to the database
  pc, goal,  \* where each process stands, and what it connects for
  done,      \* the statements its script has executed
  torn,      \* history: the creation of the schema was cut short
  opens, calls, crashes

vars == <<origin, file, made, side, anchor, lockFile, initLock, connected, pc, goal,
          done, torn, opens, calls, crashes>>
counters == <<opens, calls, crashes>>

\* Nothing, an empty file, somebody else's database, or a ledger; with or without the
\* lock file of an earlier ledger beside it.
Origins == {"absent", "empty", "foreign", "ledger"}

Init ==
  /\ origin \in Origins
  /\ file = IF origin = "ledger" THEN "sqlite" ELSE origin
  /\ made = IF origin = "ledger" THEN Statements ELSE 0
  /\ side = FALSE
  /\ anchor = (origin = "ledger")
  /\ lockFile \in BOOLEAN
  /\ initLock = Nobody
  /\ connected = {}
  /\ pc = [p \in Proc |-> "closed"]
  /\ goal = [p \in Proc |-> "none"]
  /\ done = [p \in Proc |-> 0]
  /\ torn = FALSE
  /\ opens = 0 /\ calls = 0 /\ crashes = 0

Goto(p, label) == pc' = [pc EXCEPT ![p] = label]

\* st_size > 0.
NotEmpty == file \in {"sqlite", "foreign"}

\* Mutant: the tables are enough.
Exact_Tables == file = "sqlite" /\ made >= Tables

\* _preflight_existing: exactly the schema of a ledger, its version the last of it.
Exact == file = "sqlite" /\ made = Statements

Step(p, from, to) == pc[p] = from /\ Goto(p, to)

Files == UNCHANGED <<origin, file, made, side, anchor, connected, goal, done, torn>>

\* Mutant: the lock is given back by a constructor that returns, and no other.
Refuse_KeepsLock(p) == Goto(p, "refused") /\ UNCHANGED initLock

\* The constructor raises and gives the lock back.
Refuse(p) ==
  /\ Goto(p, "refused")
  /\ initLock' = IF initLock = p THEN Nobody ELSE initLock

-----------------------------------------------------------------------------
(* Before the lock.                                                        *)

Open(p) ==
  /\ opens < MaxOpens
  /\ opens' = opens + 1
  /\ Step(p, "closed", IF NotEmpty THEN "look_lock" ELSE "lock_file")
  /\ Files /\ UNCHANGED <<lockFile, initLock, calls, crashes>>

\* Mutant: whatever is there is looked at, also while somebody is creating it.
LookForLock_Always(p) ==
  /\ Step(p, "look_lock", "early")
  /\ Files /\ UNCHANGED <<lockFile, initLock, counters>>

\* A file beside which there is a lock file is left to the check under the lock.
LookForLock(p) ==
  /\ Step(p, "look_lock", IF lockFile THEN "lock_file" ELSE "early")
  /\ Files /\ UNCHANGED <<lockFile, initLock, counters>>

\* The read-only connection of a check brings the side files about and leaves them.
Read == side' = (side \/ file = "sqlite")

EarlyPreflight(p) ==
  /\ pc[p] = "early"
  /\ IF Exact THEN Goto(p, "lock_file") /\ UNCHANGED initLock ELSE Refuse(p)
  /\ Read
  /\ UNCHANGED <<origin, file, made, anchor, connected, goal, done, torn, lockFile, counters>>

\* _initialization_lock: the lock file is created, then locked.
MakeLockFile(p) ==
  /\ Step(p, "lock_file", "lock")
  /\ lockFile' = TRUE
  /\ Files /\ UNCHANGED <<initLock, counters>>

TakeLock(p) ==
  /\ Step(p, "lock", "locked")
  /\ initLock = Nobody /\ initLock' = p
  /\ Files /\ UNCHANGED <<lockFile, counters>>

-----------------------------------------------------------------------------
(* Under the lock.                                                         *)

\* Mutant: the file is taken for a ledger.
CreateFile_NoPreflight(p) ==
  /\ Step(p, "locked", "connect")
  /\ file' = IF file = "absent" THEN "empty" ELSE file
  /\ goal' = [goal EXCEPT ![p] = "initialize"]
  /\ UNCHANGED <<origin, made, side, anchor, connected, done, torn, lockFile, initLock, counters>>

\* A missing file is created empty; one that is not empty is checked.
CreateFile(p) ==
  /\ Step(p, "locked", IF NotEmpty THEN "preflight" ELSE "connect")
  /\ file' = IF file = "absent" THEN "empty" ELSE file
  /\ goal' = [goal EXCEPT ![p] = "initialize"]
  /\ UNCHANGED <<origin, made, side, anchor, connected, done, torn, lockFile, initLock, counters>>

Preflight(p) ==
  /\ pc[p] = "preflight"
  /\ IF Exact THEN Goto(p, "connect") /\ UNCHANGED initLock ELSE Refuse(p)
  /\ Read
  /\ UNCHANGED <<origin, file, made, anchor, connected, goal, done, torn, lockFile, counters>>

\* _connect: the side files that are there are inspected before anything else.
LookAtSide(p) ==
  /\ Step(p, "connect", IF side THEN "inspect" ELSE "attach")
  /\ Files /\ UNCHANGED <<lockFile, initLock, counters>>

\* They may be gone when they are inspected: _connect raises, in a call too.
InspectSide(p) ==
  /\ pc[p] = "inspect"
  /\ IF side THEN Goto(p, "attach") /\ UNCHANGED initLock
     ELSE IF goal[p] = "call" THEN Goto(p, "open") /\ UNCHANGED initLock
     ELSE Refuse(p)
  /\ torn' = (torn \/ (~side /\ initLock = p /\ file = "sqlite" /\ made < Statements))
  /\ UNCHANGED <<origin, file, made, side, anchor, connected, goal, done, lockFile, counters>>

\* journal_mode=WAL writes the first page of an empty file.
Attach(p) ==
  /\ pc[p] = "attach"
  /\ connected' = connected \cup {p}
  /\ side' = TRUE
  /\ file' = IF file = "empty" THEN "sqlite" ELSE file
  /\ done' = [done EXCEPT ![p] = 0]
  /\ Goto(p, IF goal[p] = "initialize" THEN "script" ELSE "work")
  /\ UNCHANGED <<origin, made, anchor, goal, torn, lockFile, initLock, counters>>

\* The next statement of the script; each one has no effect when repeated. In
\* somebody else's database it would leave its mark.
Execute(p) ==
  /\ pc[p] = "script"
  /\ done[p] < Statements
  /\ done' = [done EXCEPT ![p] = @ + 1]
  /\ made' = IF made > done[p] THEN made ELSE done[p] + 1
  /\ UNCHANGED <<origin, file, side, anchor, connected, pc, goal, torn, lockFile, initLock, counters>>

Disconnect(p) ==
  /\ connected' = connected \ {p}
  /\ side' = (connected # {p} /\ side)

\* The connection of _initialize is closed; recover_anchor opens the next one.
ScriptDone(p) ==
  /\ pc[p] = "script" /\ done[p] = Statements
  /\ Disconnect(p)
  /\ goal' = [goal EXCEPT ![p] = "recover"]
  /\ Goto(p, "connect")
  /\ UNCHANGED <<origin, file, made, anchor, done, torn, lockFile, initLock, counters>>

\* verify() or a call closes its connection; the constructor goes on to the anchor.
Work(p) ==
  /\ pc[p] = "work"
  /\ Disconnect(p)
  /\ Goto(p, IF goal[p] = "recover" THEN "anchor" ELSE "open")
  /\ UNCHANGED <<origin, file, made, anchor, goal, done, torn, lockFile, initLock, counters>>

\* An empty ledger gets its anchor, and the lock is given back.
MakeAnchor(p) ==
  /\ Step(p, "anchor", "open")
  /\ anchor' = TRUE
  /\ initLock' = Nobody
  /\ UNCHANGED <<origin, file, made, side, connected, goal, done, torn, lockFile, counters>>

-----------------------------------------------------------------------------
\* A call on an open ledger connects for itself.
StartCall(p) ==
  /\ calls < MaxCalls
  /\ calls' = calls + 1
  /\ Step(p, "open", "connect")
  /\ goal' = [goal EXCEPT ![p] = "call"]
  /\ UNCHANGED <<origin, file, made, side, anchor, connected, done, torn, lockFile, initLock,
                 opens, crashes>>

\* The system releases the flock; the side files of a last connection stay.
Crash(p) ==
  /\ crashes < MaxCrashes
  /\ pc[p] \notin {"closed", "refused"}
  /\ crashes' = crashes + 1
  /\ Goto(p, "closed")
  /\ initLock' = IF initLock = p THEN Nobody ELSE initLock
  /\ connected' = connected \ {p}
  /\ torn' = (torn \/ (initLock = p /\ file = "sqlite" /\ made < Statements))
  /\ UNCHANGED <<origin, file, made, side, anchor, goal, done, lockFile, opens, calls>>

Continue(p) ==
  \/ LookForLock(p) \/ EarlyPreflight(p) \/ MakeLockFile(p) \/ TakeLock(p)
  \/ CreateFile(p) \/ Preflight(p) \/ LookAtSide(p) \/ InspectSide(p) \/ Attach(p)
  \/ Execute(p) \/ ScriptDone(p) \/ Work(p) \/ MakeAnchor(p)

Next == \E p \in Proc : Open(p) \/ Continue(p) \/ StartCall(p) \/ Crash(p)

Spec == Init /\ [][Next]_vars

\* What has begun goes on; flock serves a process that waits.
FairSpec == Spec /\ \A p \in Proc : WF_vars(Continue(p))

-----------------------------------------------------------------------------
(* Properties.                                                             *)

\* The ledger a constructor hands out has the whole schema and its anchor, whoever
\* else was creating it, crashed in it or raised; and a file that is not a ledger is
\* never changed (ledger.py:95-120, 167-214, 241-277).
OpenedIsWhole ==
  /\ \A p \in Proc : pc[p] = "open" \/ goal[p] = "call" => Exact /\ anchor
  /\ origin = "foreign" => file = "foreign" /\ made = 0 /\ connected = {}

\* Constructors that create one ledger together do not take each other's unfinished
\* work for a foreign file: without a crash, and as long as nobody uses the ledger,
\* none of them raises (ledger.py:104-119).
CreatorsAgree ==
  origin # "foreign" /\ crashes = 0 /\ calls = 0 => \A p \in Proc : pc[p] # "refused"

\* The creation of a schema that was cut short is never taken up again nor mistaken
\* for a ledger: every later constructor refuses the file ("existing SQLite file is
\* not an exact Shipcheck ledger schema", ledger.py:115-118, 172-176).
HalfMadeIsRefused ==
  torn => made < Statements /\ \A p \in Proc : pc[p] # "open"

\* A constructor that has begun returns or raises, whoever holds the initialization
\* lock, crashes with it, or raises under it (ledger.py:122-148).
EveryOpenReturns ==
  \A p \in Proc : pc[p] = "lock_file" ~> pc[p] \in {"open", "refused", "closed"}
=============================================================================
