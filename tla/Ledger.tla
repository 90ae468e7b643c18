------------------------------- MODULE Ledger -------------------------------
(***************************************************************************)
(* The decision ledger of release_gate/ledger.py, used by several          *)
(* processes at once. Each process opens the ledger (DecisionLedger(path)) *)
(* and then issues calls on it.                                            *)
(*                                                                         *)
(* A call that writes runs two SQLite transactions. The first one checks   *)
(* the anchor, looks the idempotency key up and inserts the entry, with    *)
(* the row of promotion_state if it is a transition: it is one action,     *)
(* since BEGIN IMMEDIATE keeps every other writer out and the anchor file  *)
(* is read once in it. The second one, _sync_anchor_to_tail, is split at   *)
(* its reads and writes of the anchor file, because opening the ledger     *)
(* reads and writes the same file without holding the database lock.       *)
(*                                                                         *)
(* A call that is refused before its insertion (conflict, fail-closed      *)
(* anchor, busy database) leaves everything as it was: it is the absence   *)
(* of a step.                                                              *)
(***************************************************************************)
EXTENDS LedgerChain

CONSTANTS
  Proc,         \* the processes that use the ledger
  Nobody,       \* the holder of a free lock
  NoCall,       \* the absence of a call in progress
  Workload,     \* the entry types the processes produce
  MayFail,      \* whether processes crash and steps raise
  SerialOpen,   \* whether the ledger is opened only while nobody else uses it
  MaxRows,      \* bound on the length of the chain
  MaxRestores   \* bound on the restorations of an older database file

ASSUME LedgerAssumption ==
  /\ Nobody \notin Proc
  /\ Workload \subseteq EntryType
  /\ MayFail \in BOOLEAN
  /\ SerialOpen \in BOOLEAN
  /\ MaxRows \in Nat
  /\ MaxRestores \in Nat

VARIABLES
  rows,      \* table ledger_entries, in sequence order
  promo,     \* table promotion_state, by candidate
  anchor,    \* the tail anchor file
  dbLock,    \* holder of a write transaction that spans several steps
  initLock,  \* holder of the flock on <ledger>.init.lock
  pc,        \* where each process stands
  call,      \* the call a process is executing
  receipt,   \* the sequence of the row its first transaction found or inserted
  tail,      \* the tail a process is about to write into the anchor
  acknowledged, \* history: the newest receipt a call has returned
  backup,       \* the last copy made of the database file
  restores      \* how often the copy was put back in place of the file

dbVars   == <<rows, promo>>
lockVars == <<dbLock, initLock>>
callVars == <<call, receipt, tail>>
copyVars == <<backup, restores>>
vars == <<rows, promo, anchor, dbLock, initLock, pc, call, receipt, tail,
          acknowledged, backup, restores>>

PC == {"closed",        \* no DecisionLedger object, or its constructor failed
       "verify",        \* in the constructor, holding the initialization lock
       "ready",         \* between calls
       "rollback",      \* rollback_promotion has read the state it starts from
       "sync",          \* the first transaction of a call has committed
       "update_read",   \* in _update_anchor, before it reads the anchor
       "update_write",  \* in _update_anchor, about to replace the anchor
       "return"}        \* the anchor is synced, the call is about to return

Call == [request : Request, decision : Decision \cup {NoDecision}]

-----------------------------------------------------------------------------
Init ==
  /\ rows = <<>>
  /\ promo = [c \in Candidate |-> NoPromotion]
  /\ anchor = NoAnchor
  /\ dbLock = Nobody
  /\ initLock = Nobody
  /\ pc = [p \in Proc |-> "closed"]
  /\ call = [p \in Proc |-> NoCall]
  /\ receipt = [p \in Proc |-> 0]
  /\ tail = [p \in Proc |-> NoAnchor]
  /\ acknowledged = TailOf(<<>>)
  /\ backup = [rows |-> <<>>, promo |-> [c \in Candidate |-> NoPromotion]]
  /\ restores = 0

Goto(p, l) == pc' = [pc EXCEPT ![p] = l]

\* The locks after p has let go of those it holds.
Release(p) ==
  /\ dbLock'   = IF dbLock = p THEN Nobody ELSE dbLock
  /\ initLock' = IF initLock = p THEN Nobody ELSE initLock

\* No call and no constructor is in progress.
Quiescent == \A q \in Proc : pc[q] \in {"closed", "ready"}

-----------------------------------------------------------------------------
(* Opening: __init__ under the initialization lock, then recover_anchor.   *)

OpenLock(p) ==
  /\ pc[p] = "closed"
  /\ initLock = Nobody
  /\ SerialOpen => Quiescent
  /\ initLock' = p
  /\ Goto(p, "verify")
  /\ UNCHANGED <<dbVars, anchor, dbLock, callVars, acknowledged, copyVars>>

\* verify() reports errors: the constructor raises.
RecoverRefuse(p) ==
  /\ pc[p] = "verify"
  /\ dbLock = Nobody
  /\ ~VerifyOK(rows, promo, anchor)
  /\ Goto(p, "closed")
  /\ Release(p)
  /\ UNCHANGED <<dbVars, anchor, callVars, acknowledged, copyVars>>

\* verify() is clean and the anchor is at the tail: the ledger is open.
RecoverCurrent(p) ==
  /\ pc[p] = "verify"
  /\ dbLock = Nobody
  /\ VerifyOK(rows, promo, anchor)
  /\ anchor.sequence = Len(rows)
  /\ Goto(p, "ready")
  /\ Release(p)
  /\ UNCHANGED <<dbVars, anchor, callVars, acknowledged, copyVars>>

\* verify() is clean and the anchor is behind the tail it saw, or is to be
\* created for an empty ledger: recover_anchor goes on to _update_anchor. The
\* snapshot's transaction is over, so the database is not locked meanwhile.
RecoverBehind(p) ==
  /\ pc[p] = "verify"
  /\ dbLock = Nobody
  /\ VerifyOK(rows, promo, anchor)
  /\ anchor.sequence < Len(rows)
  /\ tail' = [tail EXCEPT ![p] = TailOf(rows)]
  /\ Goto(p, "update_read")
  /\ UNCHANGED <<dbVars, anchor, lockVars, call, receipt, acknowledged, copyVars>>

-----------------------------------------------------------------------------
(* _update_anchor, shared by recover_anchor and _sync_anchor_to_tail. A    *)
(* caller that holds the initialization lock is opening the ledger.        *)

\* What follows a completed _update_anchor.
AfterUpdate_KeepsLocks(p) ==
  /\ Goto(p, IF initLock = p THEN "ready" ELSE "return")
  /\ UNCHANGED <<dbLock, initLock>>
AfterUpdate(p) ==
  /\ Goto(p, IF initLock = p THEN "ready" ELSE "return")
  /\ Release(p)

\* The anchor is already at or beyond the tail to be written.
UpdateSkip(p) ==
  /\ pc[p] = "update_read"
  /\ anchor.sequence > tail[p].sequence \/ anchor = tail[p]
  /\ AfterUpdate(p)
  /\ UNCHANGED <<dbVars, anchor, callVars, acknowledged, copyVars>>

\* The anchor is behind. Only an empty ledger may create a missing one.
UpdateNeeded(p) ==
  /\ pc[p] = "update_read"
  /\ anchor.sequence < tail[p].sequence
  /\ anchor = NoAnchor => initLock = p /\ tail[p].sequence = 0
  /\ Goto(p, "update_write")
  /\ UNCHANGED <<dbVars, anchor, lockVars, callVars, acknowledged, copyVars>>

\* atomic_write replaces the file.
UpdateWrite(p) ==
  /\ pc[p] = "update_write"
  /\ anchor' = tail[p]
  /\ AfterUpdate(p)
  /\ UNCHANGED <<dbVars, callVars, acknowledged, copyVars>>

-----------------------------------------------------------------------------
(* The first transaction of a call.                                        *)

\* The call gets its write transaction and passes the anchor check.
Begins(p, label) ==
  /\ pc[p] = label
  /\ dbLock = Nobody
  /\ SerialOpen => initLock = Nobody
  /\ AnchorMatches(rows, anchor)

\* The sequence of the row that holds key k, 0 if there is none.
KeyRow(k) ==
  IF \E s \in 1..Len(rows) : rows[s].key = k
  THEN CHOOSE s \in 1..Len(rows) : rows[s].key = k
  ELSE 0

\* The key is in use by the same request: its row is the answer.
ReplayCall_NoSync(p, r) ==
  /\ KeyRow(r.key) # 0
  /\ SameRequest(rows[KeyRow(r.key)], r)
  /\ receipt' = [receipt EXCEPT ![p] = KeyRow(r.key)]
  /\ call' = [call EXCEPT ![p] = [request |-> r, decision |-> NoDecision]]
  /\ Goto(p, "return")
  /\ UNCHANGED <<dbVars, anchor, lockVars, tail, acknowledged, copyVars>>
ReplayCall(p, r) ==
  /\ KeyRow(r.key) # 0
  /\ SameRequest(rows[KeyRow(r.key)], r)
  /\ receipt' = [receipt EXCEPT ![p] = KeyRow(r.key)]
  /\ call' = [call EXCEPT ![p] = [request |-> r, decision |-> NoDecision]]
  /\ Goto(p, "sync")
  /\ UNCHANGED <<dbVars, anchor, lockVars, tail, acknowledged, copyVars>>

\* The key is new: the entry goes to the tail, and the transaction commits.
InsertCall(p, r, ps) ==
  /\ KeyRow(r.key) = 0
  /\ Len(rows) < MaxRows
  /\ rows' = Append(rows, NewRow(rows, r, restores))
  /\ promo' = ps
  /\ receipt' = [receipt EXCEPT ![p] = Len(rows) + 1]
  /\ call' = [call EXCEPT ![p] = [request |-> r, decision |-> NoDecision]]
  /\ Goto(p, "sync")
  /\ UNCHANGED <<anchor, lockVars, tail, acknowledged, copyVars>>

\* _append: nothing but the idempotency key stands in the way of an entry.
AppendRow(p, r) == ReplayCall(p, r) \/ InsertCall(p, r, promo)

\* A payload that names decision d, and the fencing token t of a transition.
PayloadOf(c, d, t) == [candidate |-> c, decision |-> d, token |-> t]

\* append: any entry type that is not reserved, and a payload of the caller's
\* making, which may look like a decision.
AppendEntry(p) ==
  /\ Begins(p, "ready")
  /\ \E k \in Key, type \in Workload \ Reserved, d \in External :
       AppendRow(p, [key |-> k, type |-> type, context |-> NoContext,
                     payload |-> PayloadOf(CandidateOf[d], d, 0)])

\* append_decision: the audit copy of a decision made elsewhere.
AppendDecision(p) ==
  /\ Begins(p, "ready")
  /\ "IMPORTED_DECISION" \in Workload
  /\ \E k \in Key, d \in External :
       AppendRow(p, [key |-> k, type |-> "IMPORTED_DECISION", context |-> ContextOf[d],
                     payload |-> PayloadOf(CandidateOf[d], d, 0)])

\* evaluate_and_record: the engine comes to some decision for the context; a
\* context evaluated at another time may come to another one.
EvaluateAndRecord(p) ==
  /\ Begins(p, "ready")
  /\ "EVALUATED_DECISION" \in Workload
  /\ \E k \in Key, d \in Decision \ External :
       AppendRow(p, [key |-> k, type |-> "EVALUATED_DECISION", context |-> ContextOf[d],
                     payload |-> PayloadOf(CandidateOf[d], d, 0)])

-----------------------------------------------------------------------------
(* Promotion transitions.                                                  *)

\* plan_promotion: the newest evaluation that recorded the decision counts, and
\* the candidate must have no row of promotion_state.
PlanAdmissible_AnyEntry(d) ==
  /\ promo[CandidateOf[d]] = NoPromotion
  /\ d \in Ready
  /\ \E s \in 1..Len(rows) : rows[s].payload.decision = d
PlanAdmissible(d) ==
  /\ promo[CandidateOf[d]] = NoPromotion
  /\ d \in Ready
  /\ EvaluatedBefore(rows, Len(rows) + 1, d)

PlanPromotion(p) ==
  /\ Begins(p, "ready")
  /\ "PROMOTION_PLANNED" \in Workload
  /\ \E k \in Key, d \in Ready :
       LET r == [key |-> k, type |-> "PROMOTION_PLANNED", context |-> NoContext,
                 payload |-> PayloadOf(CandidateOf[d], d, 0)]
       IN  \/ ReplayCall(p, r)
           \/ /\ PlanAdmissible(d)
              /\ InsertCall(p, r,
                   [promo EXCEPT ![CandidateOf[d]] =
                      [state |-> "PLANNED", fencing_token |-> 1, decision |-> d,
                       plan_sequence |-> Len(rows) + 1,
                       updated_sequence |-> Len(rows) + 1]])

\* expected_states of apply_promotion, verify_promotion and rollback_promotion.
ExpectedStates_PlannedToo == [PROMOTION_APPLIED     |-> {"PLANNED"},
                              PROMOTION_VERIFIED    |-> {"APPLIED"},
                              PROMOTION_ROLLED_BACK |-> {"PLANNED", "APPLIED", "VERIFIED"}]
ExpectedStates == [PROMOTION_APPLIED     |-> {"PLANNED"},
                   PROMOTION_VERIFIED    |-> {"APPLIED"},
                   PROMOTION_ROLLED_BACK |-> {"APPLIED", "VERIFIED"}]

\* _transition's guard: state, fencing token and decision are as the caller says.
TransitionAdmissible_NoFence(type, c, d, t) ==
  /\ promo[c].state \in ExpectedStates[type]
  /\ promo[c].decision = d
TransitionAdmissible(type, c, d, t) ==
  /\ promo[c].state \in ExpectedStates[type]
  /\ promo[c].fencing_token = t
  /\ promo[c].decision = d

\* The row of promotion_state a transition of candidate c leaves.
Advanced_SameToken(type, c) ==
  [state |-> StateOf[type], fencing_token |-> promo[c].fencing_token,
   decision |-> promo[c].decision, plan_sequence |-> promo[c].plan_sequence,
   updated_sequence |-> Len(rows) + 1]
Advanced(type, c) ==
  [state |-> StateOf[type], fencing_token |-> promo[c].fencing_token + 1,
   decision |-> promo[c].decision, plan_sequence |-> promo[c].plan_sequence,
   updated_sequence |-> Len(rows) + 1]

\* _transition for a candidate that has a plan: d is the decision its caller
\* found or was given, r.payload what the entry records.
Transition(p, r, d) ==
  LET c == r.payload.candidate
  IN  \/ ReplayCall(p, r)
      \/ /\ TransitionAdmissible(r.type, c, d, r.payload.token)
         /\ InsertCall(p, r, [promo EXCEPT ![c] = Advanced(r.type, c)])

\* apply_promotion and verify_promotion, on what the caller believes.
AdvancePromotion(p) ==
  /\ Begins(p, "ready")
  /\ \E k \in Key, c \in Candidate, d \in Decision, t \in 1..MaxRows,
        type \in Workload \cap {"PROMOTION_APPLIED", "PROMOTION_VERIFIED"} :
       Transition(p, [key |-> k, type |-> type, context |-> NoContext,
                      payload |-> PayloadOf(c, d, t)], d)

\* rollback_promotion reads the decision outside the transaction it then asks for.
RollbackRead(p) ==
  /\ pc[p] = "ready"
  /\ SerialOpen => initLock = Nobody
  /\ "PROMOTION_ROLLED_BACK" \in Workload
  /\ \E k \in Key, c \in Candidate, t \in 1..MaxRows :
       /\ promo[c] # NoPromotion
       /\ call' = [call EXCEPT ![p] =
            [request |-> [key |-> k, type |-> "PROMOTION_ROLLED_BACK",
                          context |-> NoContext, payload |-> PayloadOf(c, NoDecision, t)],
             decision |-> promo[c].decision]]
  /\ Goto(p, "rollback")
  /\ UNCHANGED <<dbVars, anchor, lockVars, receipt, tail, acknowledged, copyVars>>

RollbackPromotion(p) ==
  /\ Begins(p, "rollback")
  /\ Transition(p, call[p].request, call[p].decision)

\* The transaction of a rollback is refused: a conflict, or a database that stays
\* busy. The one refused call that gives something up, what it has read.
RollbackRefused(p) ==
  /\ pc[p] = "rollback"
  /\ Goto(p, "ready")
  /\ call' = [call EXCEPT ![p] = NoCall]
  /\ UNCHANGED <<dbVars, anchor, lockVars, receipt, tail, acknowledged, copyVars>>

-----------------------------------------------------------------------------
(* The second transaction of a call, and its return.                       *)

\* _sync_anchor_to_tail: lock, check the anchor, read the tail.
SyncBegin_OwnSequence(p) ==
  /\ pc[p] = "sync"
  /\ dbLock = Nobody
  /\ AnchorMatches(rows, anchor)
  /\ dbLock' = p
  /\ tail' = [tail EXCEPT ![p] = [sequence   |-> receipt[p],
                                  entry_hash |-> HashAt(rows, Len(rows))]]
  /\ Goto(p, "update_read")
  /\ UNCHANGED <<dbVars, anchor, initLock, call, receipt, acknowledged, copyVars>>
SyncBegin(p) ==
  /\ pc[p] = "sync"
  /\ dbLock = Nobody
  /\ AnchorMatches(rows, anchor)
  /\ dbLock' = p
  /\ tail' = [tail EXCEPT ![p] = TailOf(rows)]
  /\ Goto(p, "update_read")
  /\ UNCHANGED <<dbVars, anchor, initLock, call, receipt, acknowledged, copyVars>>

\* What a call returns: evaluate_and_record reads the stored decision back when
\* the entry its key names is not the one it computed.
AnsweredDecision_Own(p) == call[p].request.payload.decision
AnsweredDecision(p) ==
  IF rows[receipt[p]].payload # call[p].request.payload
  THEN rows[receipt[p]].payload.decision
  ELSE call[p].request.payload.decision

Return(p) ==
  /\ pc[p] = "return"
  /\ acknowledged' = IF receipt[p] > acknowledged.sequence
                     THEN [sequence |-> receipt[p], entry_hash |-> HashAt(rows, receipt[p])]
                     ELSE acknowledged
  /\ Goto(p, "ready")
  /\ call' = [call EXCEPT ![p] = NoCall]
  /\ receipt' = [receipt EXCEPT ![p] = 0]
  /\ tail' = [tail EXCEPT ![p] = NoAnchor]
  /\ UNCHANGED <<dbVars, anchor, lockVars, copyVars>>

-----------------------------------------------------------------------------
(* Failures.                                                               *)

\* A step of a constructor or of a second transaction raises: the database is
\* busy for five seconds, or a file cannot be read or written. atomic_write may
\* raise after it has replaced the file (the fsync of the directory).
Fail(p) ==
  /\ MayFail
  /\ pc[p] \in {"verify", "sync", "update_read", "update_write"}
  /\ \/ UNCHANGED anchor
     \/ pc[p] = "update_write" /\ anchor' = tail[p]
  /\ Goto(p, IF initLock = p THEN "closed" ELSE "ready")
  /\ Release(p)
  /\ call' = [call EXCEPT ![p] = NoCall]
  /\ receipt' = [receipt EXCEPT ![p] = 0]
  /\ tail' = [tail EXCEPT ![p] = NoAnchor]
  /\ UNCHANGED <<dbVars, acknowledged, copyVars>>

\* The process ends, at any point. The operating system and SQLite release its
\* locks; what was committed or replaced stays.
Crash(p) ==
  /\ MayFail
  /\ pc[p] # "closed"
  /\ Goto(p, "closed")
  /\ Release(p)
  /\ call' = [call EXCEPT ![p] = NoCall]
  /\ receipt' = [receipt EXCEPT ![p] = 0]
  /\ tail' = [tail EXCEPT ![p] = NoAnchor]
  /\ UNCHANGED <<dbVars, anchor, acknowledged, copyVars>>

\* Someone copies the database file, and later puts the copy back, while no call
\* is in progress. The anchor file and the receipts callers hold stay.
Backup ==
  /\ restores < MaxRestores
  /\ Quiescent
  /\ backup' = [rows |-> rows, promo |-> promo]
  /\ UNCHANGED <<dbVars, anchor, lockVars, pc, callVars, acknowledged, restores>>

Restore ==
  /\ restores < MaxRestores
  /\ Quiescent
  /\ rows' = backup.rows
  /\ promo' = backup.promo
  /\ restores' = restores + 1
  /\ UNCHANGED <<anchor, lockVars, pc, callVars, acknowledged, backup>>

-----------------------------------------------------------------------------
Recover(p) == RecoverRefuse(p) \/ RecoverCurrent(p) \/ RecoverBehind(p)

UpdateAnchor(p) == UpdateSkip(p) \/ UpdateNeeded(p) \/ UpdateWrite(p)

StartCall(p) ==
  \/ AppendEntry(p) \/ AppendDecision(p) \/ EvaluateAndRecord(p)
  \/ PlanPromotion(p) \/ AdvancePromotion(p) \/ RollbackRead(p)

\* What a process does once it has begun something.
Continue(p) ==
  \/ Recover(p) \/ UpdateAnchor(p) \/ RollbackPromotion(p) \/ RollbackRefused(p)
  \/ SyncBegin(p) \/ Return(p) \/ Fail(p)

Next ==
  \/ \E p \in Proc : OpenLock(p) \/ StartCall(p) \/ Continue(p) \/ Crash(p)
  \/ Backup \/ Restore

Spec == Init /\ [][Next]_vars

\* A process that has begun something goes on with it (a step waits five seconds
\* for the database at most); nothing makes it begin.
FairSpec == Spec /\ \A p \in Proc : WF_vars(Continue(p))

-----------------------------------------------------------------------------
(* Type invariant.                                                         *)

\* Every variable holds a value of its kind (the columns of the two tables, the
\* shape of the anchor file, the stages of a call).
TypeOK ==
  /\ rows \in Seq(Row)
  /\ promo \in [Candidate -> Promotion]
  /\ anchor \in Anchor
  /\ dbLock \in Proc \cup {Nobody}
  /\ initLock \in Proc \cup {Nobody}
  /\ pc \in [Proc -> PC]
  /\ call \in [Proc -> Call \cup {NoCall}]
  /\ receipt \in [Proc -> Nat]
  /\ tail \in [Proc -> Anchor]
  /\ acknowledged \in Anchor
  /\ backup \in [rows : Seq(Row), promo : [Candidate -> Promotion]]
  /\ restores \in 0..MaxRestores

-----------------------------------------------------------------------------
(* Safety.                                                                 *)

\* As long as the files are not replaced from outside, no interleaving of opens,
\* writes, failures and crashes leaves the anchor naming anything but a state of
\* the chain's own history, so that no call is ever refused by
\* _assert_anchor_matches_tail (ledger.py:828-845).
AnchorHistorical == restores = 0 => AnchorVerified(rows, anchor)

\* The chain, the table promotion_state and the anchor always pass verify()
\* (ledger.py:619-780): the state machine the transitions run and the one the
\* audit replays are the same, and a process that opens the ledger is let in.
AuditClean == restores = 0 => VerifyOK(rows, promo, anchor)

\* A call returns the receipt of the one entry that bears its key, which records
\* the request it made, however often and by whomever the call is repeated after
\* a crash; and the decision that a caller of evaluate_and_record walks away with
\* is the recorded one, also when its own evaluation came to another
\* (ledger.py:311-324, 412-417, 489-499).
AnswerIsTheEntry ==
  \A p \in Proc : pc[p] = "return" =>
    LET row == rows[receipt[p]]
    IN  /\ \A s \in 1..Len(rows) : rows[s].key = call[p].request.key <=> s = receipt[p]
        /\ row.type = call[p].request.type
        /\ row.payload.candidate = call[p].request.payload.candidate
        /\ row.payload.token = call[p].request.payload.token
        /\ row.payload.decision = AnsweredDecision(p)

\* A candidate is promoted only on a decision that the engine computed, that is
\* READY for PRODUCTION and about this candidate, and that was recorded before
\* the plan: an imported or hand-made entry is never enough (ledger.py:284,
\* 357-365, 500-524).
PromotedOnRecordedDecision ==
  \A c \in Candidate : promo[c] # NoPromotion =>
    /\ promo[c].decision \in Ready \ External
    /\ CandidateOf[promo[c].decision] = c
    /\ EvaluatedBefore(rows, promo[c].plan_sequence, promo[c].decision)

\* Of the callers that hold the same fencing token of a candidate, one at most
\* gets its transition into the ledger (ledger.py:528-532).
OneWinnerPerToken ==
  \A s, u \in 1..Len(rows) :
    /\ rows[s].type \in PromotionType
    /\ rows[u].type \in PromotionType
    /\ rows[s].payload.candidate = rows[u].payload.candidate
    /\ rows[s].payload.token = rows[u].payload.token
    => s = u

\* The newest receipt that a caller holds, whose hash covers the older ones, is in
\* the ledger or its absence shows: an older database put back in place of the
\* current one cannot be extended over entries that were acknowledged, and verify()
\* reports it (ledger.py:764-779, 828-845). It takes an anchor that covers every
\* acknowledged entry.
NoUndetectedTruncation ==
  VerifyOK(rows, promo, anchor) =>
    /\ acknowledged.sequence \in 0..Len(rows)
    /\ acknowledged.entry_hash = HashAt(rows, acknowledged.sequence)

\* "A valid anchor behind the database tail is the sole recoverable crash state"
\* (ledger.py:814-815): without a crash or a failure, an anchor is behind only
\* while somebody is about to advance it.
BehindOnlyAfterCrash ==
  ~MayFail /\ Quiescent /\ rows # <<>> => anchor = TailOf(rows)

-----------------------------------------------------------------------------
(* Liveness.                                                               *)

\* Whatever fails or crashes, the initialization lock and the database lock are
\* free again and again: nobody waits for them for ever (ledger.py:140-148,
\* 822-826).
LocksReleased == []<>(initLock = Nobody) /\ []<>(dbLock = Nobody)

-----------------------------------------------------------------------------
(* Refinement.                                                             *)

Promise == INSTANCE Promotion WITH
  recorded <- {rows[s].payload.decision : s \in {e \in 1..Len(rows) :
                                                   rows[e].type = "EVALUATED_DECISION"}},
  state    <- [c \in Candidate |-> promo[c].state],
  token    <- [c \in Candidate |-> promo[c].fencing_token],
  decision <- [c \in Candidate |-> promo[c].decision]

\* The ledger implements the promotion promise: every step of every process is a
\* step of Promotion.tla or leaves the promotions alone (ledger.py:419-560).
PromotionPromise == Promise!Spec
=============================================================================
