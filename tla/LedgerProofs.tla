---------------------------- MODULE LedgerProofs ----------------------------
(***************************************************************************)
(* Proofs about Ledger.tla, for every number of processes, keys, decisions *)
(* and rows, with or without failures, concurrent opens and restorations:  *)
(* the types, the anchor as a state of the chain's own history, and what   *)
(* the ledger promises its callers: fencing, the ground of a promotion, a  *)
(* clean audit, the refinement of Promotion.tla, true answers, and the     *)
(* detection of a truncated database.                                      *)
(*                                                                         *)
(* Every change of the tables is an Insertion or their replacement by a    *)
(* copy (TableSteps). What has to hold of the tables is an invariant of    *)
(* the four kinds of insertion, whichever process makes it (TablesInv);    *)
(* what has to hold of the processes rests on who may hold which lock      *)
(* (LockInv), on what a call has found (AnswerInv) and on what the anchor  *)
(* stands for (AnchorInv, TruncationInv).                                  *)
(***************************************************************************)
EXTENDS Ledger, TLAPS

-----------------------------------------------------------------------------
(* The chain and the anchor, as functions of their arguments.              *)

\* The tail of a chain is an anchor, and matches the chain it is the tail of.
LEMMA TailMatches ==
  ASSUME NEW rs \in Seq(Row)
  PROVE  TailOf(rs) \in Anchor /\ AnchorMatches(rs, TailOf(rs))
<1>1. CASE rs = <<>>
  <2>1. Len(rs) = 0
    BY <1>1
  <2>2. ZeroHash \in Hash
    BY DEF ZeroHash, Hash
  <2>3. QED
    BY <2>1, <2>2 DEF TailOf, AnchorMatches, HashAt, Anchor
<1>2. CASE rs # <<>>
  <2>1. Len(rs) \in 1..Len(rs) /\ Len(rs) # 0
    BY <1>2
  <2>2. rs[Len(rs)] \in Row
    BY <2>1
  <2>3. rs[Len(rs)].entry_hash \in Hash
    BY <2>2 DEF Row
  <2>4. QED
    BY <2>1, <2>3 DEF TailOf, AnchorMatches, HashAt, Anchor
<1>3. QED
  BY <1>1, <1>2

\* Every sequence of a chain has a hash.
LEMMA HashAtType ==
  ASSUME NEW rs \in Seq(Row), NEW s \in 0..Len(rs)
  PROVE  HashAt(rs, s) \in Hash
<1>1. CASE s = 0
  BY <1>1 DEF HashAt, ZeroHash, Hash
<1>2. CASE s # 0
  <2>1. rs[s] \in Row
    BY <1>2
  <2>2. QED
    BY <1>2, <2>1 DEF HashAt, Row
<1>3. QED
  BY <1>1, <1>2

\* An insertion adds a well-formed row.
LEMMA NewRowType ==
  ASSUME NEW rs \in Seq(Row), NEW r \in Request, NEW stamp \in Nat
  PROVE  NewRow(rs, r, stamp) \in Row
<1>1. HashAt(rs, Len(rs)) \in Hash
  BY TailMatches DEF TailOf, Anchor
<1>2. BodyOf(r, Len(rs) + 1, stamp) \in Body
  BY DEF BodyOf, Body, Request
<1>3. EntryHash(HashAt(rs, Len(rs)), BodyOf(r, Len(rs) + 1, stamp)) \in Hash
  BY <1>1, <1>2 DEF EntryHash, Hash
<1>4. QED
  BY <1>1, <1>3 DEF NewRow, Linked, Row, Request

\* An anchor that names a state of the chain still does so when the chain grows.
LEMMA MatchesAppend ==
  ASSUME NEW rs \in Seq(Row), NEW row \in Row, NEW a \in Anchor,
         AnchorMatches(rs, a)
  PROVE  AnchorMatches(Append(rs, row), a)
<1>1. a.sequence \in 0..Len(rs) /\ Len(Append(rs, row)) = Len(rs) + 1
  BY DEF AnchorMatches
<1>2. HashAt(Append(rs, row), a.sequence) = HashAt(rs, a.sequence)
  BY <1>1 DEF HashAt
<1>3. QED
  BY <1>1, <1>2 DEF AnchorMatches

\* An anchor that passes the check is present.
LEMMA MatchesNotAbsent ==
  ASSUME NEW rs \in Seq(Row), NEW a, AnchorMatches(rs, a)
  PROVE  a # NoAnchor
BY DEF AnchorMatches, NoAnchor

-----------------------------------------------------------------------------
(* Type correctness, one lemma per group of actions.                       *)

\* Moving a process, releasing its locks and forgetting its call keep the types.
LEMMA BookkeepingType ==
  ASSUME TypeOK, NEW p \in Proc
  PROVE  /\ \A l \in PC : Goto(p, l) => pc' \in [Proc -> PC]
         /\ Release(p) => /\ dbLock' \in Proc \cup {Nobody}
                          /\ initLock' \in Proc \cup {Nobody}
         /\ [call EXCEPT ![p] = NoCall] \in [Proc -> Call \cup {NoCall}]
         /\ [receipt EXCEPT ![p] = 0] \in [Proc -> Nat]
         /\ [tail EXCEPT ![p] = NoAnchor] \in [Proc -> Anchor]
         /\ [tail EXCEPT ![p] = TailOf(rows)] \in [Proc -> Anchor]
<1>1. NoAnchor \in Anchor
  BY DEF NoAnchor, Anchor, Hash, ZeroHash
<1>2. TailOf(rows) \in Anchor
  BY TailMatches DEF TypeOK
<1>3. QED
  BY <1>1, <1>2 DEF TypeOK, Goto, Release

\* The row a key names is a sequence number or 0.
LEMMA KeyRowType ==
  ASSUME TypeOK, NEW k \in Key
  PROVE  KeyRow(k) \in 0..Len(rows)
<1>1. Len(rows) \in Nat
  BY DEF TypeOK
<1>2. QED
  BY <1>1 DEF KeyRow

LEMMA ReplayCallType ==
  ASSUME TypeOK, NEW p \in Proc, NEW r \in Request, ReplayCall(p, r)
  PROVE  TypeOK'
<1>1. r.key \in Key
  BY DEF Request
<1>2. KeyRow(r.key) \in Nat
  BY <1>1, KeyRowType DEF TypeOK
<1>3. pc' \in [Proc -> PC]
  BY BookkeepingType DEF ReplayCall, PC
<1>4. receipt' \in [Proc -> Nat] /\ call' \in [Proc -> Call \cup {NoCall}]
  BY <1>2 DEF TypeOK, ReplayCall, Call
<1>5. QED
  BY <1>3, <1>4 DEF TypeOK, ReplayCall, dbVars, lockVars, copyVars

LEMMA InsertCallType ==
  ASSUME TypeOK, NEW p \in Proc, NEW r \in Request,
         NEW ps \in [Candidate -> Promotion], InsertCall(p, r, ps)
  PROVE  TypeOK'
<1>1. NewRow(rows, r, restores) \in Row
  BY NewRowType DEF TypeOK
<1>2. rows' \in Seq(Row) /\ Len(rows) + 1 \in Nat
  BY <1>1 DEF TypeOK, InsertCall
<1>3. pc' \in [Proc -> PC]
  BY BookkeepingType DEF InsertCall, PC
<1>4. receipt' \in [Proc -> Nat] /\ call' \in [Proc -> Call \cup {NoCall}]
  BY <1>2 DEF TypeOK, InsertCall, Call
<1>5. QED
  BY <1>2, <1>3, <1>4 DEF TypeOK, InsertCall, lockVars, copyVars

LEMMA AppendRowType ==
  ASSUME TypeOK, NEW p \in Proc, NEW r \in Request, AppendRow(p, r)
  PROVE  TypeOK'
<1>1. promo \in [Candidate -> Promotion]
  BY DEF TypeOK
<1>2. QED
  BY <1>1, ReplayCallType, InsertCallType DEF AppendRow

\* The requests of the operations are requests.
LEMMA RequestType ==
  ASSUME NEW k \in Key, NEW type \in EntryType, NEW x \in Context \cup {NoContext},
         NEW c \in Candidate, NEW d \in Decision \cup {NoDecision}, NEW t \in Nat
  PROVE  [key |-> k, type |-> type, context |-> x, payload |-> PayloadOf(c, d, t)] \in Request
BY DEF Request, Payload, PayloadOf

\* What a transition makes of a row of promotion_state is such a row.
LEMMA AdvancedType ==
  ASSUME TypeOK, NEW type \in PromotionType, NEW c \in Candidate
  PROVE  [promo EXCEPT ![c] = Advanced(type, c)] \in [Candidate -> Promotion]
<1>1. promo[c] \in Promotion /\ Len(rows) + 1 \in Nat
  BY DEF TypeOK
<1>2. StateOf[type] \in PromotionState
  BY DEF StateOf, PromotionType, PromotionState
<1>3. Advanced(type, c) \in Promotion
  BY <1>1, <1>2 DEF Advanced, Promotion
<1>4. QED
  BY <1>3 DEF TypeOK

LEMMA TransitionType ==
  ASSUME TypeOK, NEW p \in Proc, NEW r \in Request, r.type \in PromotionType,
         NEW d, Transition(p, r, d)
  PROVE  TypeOK'
<1>1. r.payload.candidate \in Candidate
  BY DEF Request, Payload
<1>2. QED
  BY <1>1, AdvancedType, ReplayCallType, InsertCallType DEF Transition

LEMMA StartCallType ==
  ASSUME TypeOK, NEW p \in Proc, StartCall(p)
  PROVE  TypeOK'
<1> USE DEF Reserved, EntryType, PromotionType
<1>1. CASE AppendEntry(p)
  <2>1. PICK k \in Key, type \in Workload \ Reserved, d \in External :
          AppendRow(p, [key |-> k, type |-> type, context |-> NoContext,
                        payload |-> PayloadOf(CandidateOf[d], d, 0)])
    BY <1>1 DEF AppendEntry
  <2>2. [key |-> k, type |-> type, context |-> NoContext,
         payload |-> PayloadOf(CandidateOf[d], d, 0)] \in Request
    BY RequestType, DecisionAssumption, LedgerAssumption
  <2>3. QED
    BY <2>1, <2>2, AppendRowType
<1>2. CASE AppendDecision(p)
  <2>1. PICK k \in Key, d \in External :
          AppendRow(p, [key |-> k, type |-> "IMPORTED_DECISION", context |-> ContextOf[d],
                        payload |-> PayloadOf(CandidateOf[d], d, 0)])
    BY <1>2 DEF AppendDecision
  <2>2. [key |-> k, type |-> "IMPORTED_DECISION", context |-> ContextOf[d],
         payload |-> PayloadOf(CandidateOf[d], d, 0)] \in Request
    BY RequestType, DecisionAssumption, LedgerAssumption
  <2>3. QED
    BY <2>1, <2>2, AppendRowType
<1>3. CASE EvaluateAndRecord(p)
  <2>1. PICK k \in Key, d \in Decision \ External :
          AppendRow(p, [key |-> k, type |-> "EVALUATED_DECISION", context |-> ContextOf[d],
                        payload |-> PayloadOf(CandidateOf[d], d, 0)])
    BY <1>3 DEF EvaluateAndRecord
  <2>2. [key |-> k, type |-> "EVALUATED_DECISION", context |-> ContextOf[d],
         payload |-> PayloadOf(CandidateOf[d], d, 0)] \in Request
    BY RequestType, DecisionAssumption, LedgerAssumption
  <2>3. QED
    BY <2>1, <2>2, AppendRowType
<1>4. CASE PlanPromotion(p)
  <2>1. PICK k \in Key, d \in Ready :
          LET r == [key |-> k, type |-> "PROMOTION_PLANNED", context |-> NoContext,
                    payload |-> PayloadOf(CandidateOf[d], d, 0)]
          IN  \/ ReplayCall(p, r)
              \/ InsertCall(p, r,
                   [promo EXCEPT ![CandidateOf[d]] =
                      [state |-> "PLANNED", fencing_token |-> 1, decision |-> d,
                       plan_sequence |-> Len(rows) + 1,
                       updated_sequence |-> Len(rows) + 1]])
    BY <1>4 DEF PlanPromotion
  <2>2. [key |-> k, type |-> "PROMOTION_PLANNED", context |-> NoContext,
         payload |-> PayloadOf(CandidateOf[d], d, 0)] \in Request
    BY RequestType, DecisionAssumption, LedgerAssumption
  <2>3. [state |-> "PLANNED", fencing_token |-> 1, decision |-> d,
         plan_sequence |-> Len(rows) + 1, updated_sequence |-> Len(rows) + 1] \in Promotion
    BY DecisionAssumption, LedgerAssumption DEF TypeOK, Promotion, PromotionState
  <2>4. [promo EXCEPT ![CandidateOf[d]] =
           [state |-> "PLANNED", fencing_token |-> 1, decision |-> d,
            plan_sequence |-> Len(rows) + 1, updated_sequence |-> Len(rows) + 1]]
          \in [Candidate -> Promotion]
    BY <2>3 DEF TypeOK
  <2>5. QED
    BY <2>1, <2>2, <2>4, ReplayCallType, InsertCallType
<1>5. CASE AdvancePromotion(p)
  <2>1. PICK k \in Key, c \in Candidate, d \in Decision, t \in 1..MaxRows,
             type \in Workload \cap {"PROMOTION_APPLIED", "PROMOTION_VERIFIED"} :
          Transition(p, [key |-> k, type |-> type, context |-> NoContext,
                         payload |-> PayloadOf(c, d, t)], d)
    BY <1>5 DEF AdvancePromotion
  <2>2. [key |-> k, type |-> type, context |-> NoContext,
         payload |-> PayloadOf(c, d, t)] \in Request
    BY RequestType
  <2>3. QED
    BY <2>1, <2>2, TransitionType
<1>6. CASE RollbackRead(p)
  <2>1. PICK k \in Key, c \in Candidate, t \in 1..MaxRows :
          call' = [call EXCEPT ![p] =
            [request |-> [key |-> k, type |-> "PROMOTION_ROLLED_BACK",
                          context |-> NoContext, payload |-> PayloadOf(c, NoDecision, t)],
             decision |-> promo[c].decision]]
    BY <1>6 DEF RollbackRead
  <2>2. [key |-> k, type |-> "PROMOTION_ROLLED_BACK",
         context |-> NoContext, payload |-> PayloadOf(c, NoDecision, t)] \in Request
    BY RequestType
  <2>3. promo[c].decision \in Decision \cup {NoDecision}
    BY DEF TypeOK, Promotion
  <2>4. call' \in [Proc -> Call \cup {NoCall}]
    BY <2>1, <2>2, <2>3 DEF TypeOK, Call
  <2>5. pc' \in [Proc -> PC]
    BY <1>6, BookkeepingType DEF RollbackRead, PC
  <2>6. QED
    BY <1>6, <2>4, <2>5 DEF TypeOK, RollbackRead, dbVars, lockVars, copyVars
<1>7. QED
  BY <1>1, <1>2, <1>3, <1>4, <1>5, <1>6 DEF StartCall

-----------------------------------------------------------------------------
(* The stages of a call. A process holds a receipt only between its two     *)
(* transactions, never while it opens the ledger, and a pending rollback    *)
(* carries a rollback request.                                              *)

Stage(p) ==
  /\ receipt[p] \in 0..Len(rows)
  /\ pc[p] \in {"closed", "verify", "ready", "rollback"} => receipt[p] = 0
  /\ initLock = p => /\ pc[p] \in {"verify", "update_read", "update_write"}
                     /\ receipt[p] = 0
  /\ pc[p] = "rollback" => /\ call[p] \in Call
                           /\ call[p].request.type = "PROMOTION_ROLLED_BACK"
                           /\ call[p].request.payload.decision = NoDecision

StageInv == \A p \in Proc : Stage(p)

\* A process that is not moved keeps its stage, while nothing is taken from the
\* chain and the initialization lock does not come to it.
LEMMA StageFrame ==
  ASSUME TypeOK, TypeOK', NEW p \in Proc, NEW q \in Proc, q # p, Stage(q),
         pc'[q] = pc[q], call'[q] = call[q], receipt'[q] = receipt[q],
         Len(rows) <= Len(rows'), initLock' \in {initLock, Nobody, p}
  PROVE  Stage(q)'
<1>1. Len(rows) \in Nat /\ Len(rows') \in Nat
  BY DEF TypeOK
<1>2. QED
  BY <1>1, DecisionAssumption, LedgerAssumption DEF Stage

LEMMA OpenStep ==
  ASSUME TypeOK, StageInv, NEW p \in Proc, OpenLock(p)
  PROVE  TypeOK' /\ StageInv'
<1>1. TypeOK'
  <2>1. pc' \in [Proc -> PC]
    BY BookkeepingType DEF OpenLock, PC
  <2>2. QED
    BY <2>1 DEF TypeOK, OpenLock, dbVars, callVars, copyVars
<1>2. Stage(p)'
  BY DEF StageInv, Stage, OpenLock, Goto, TypeOK, dbVars, callVars
<1>3. ASSUME NEW q \in Proc, q # p PROVE Stage(q)'
  <2>1. Len(rows) <= Len(rows')
    BY DEF OpenLock, dbVars, TypeOK
  <2>2. QED
    BY <1>1, <1>3, <2>1, StageFrame DEF StageInv, OpenLock, Goto, TypeOK, callVars
<1>4. QED
  BY <1>1, <1>2, <1>3 DEF StageInv

LEMMA RecoverStep ==
  ASSUME TypeOK, StageInv, NEW p \in Proc, Recover(p)
  PROVE  TypeOK' /\ StageInv'
<1> USE DEF Recover, RecoverRefuse, RecoverCurrent, RecoverBehind
<1>1. TypeOK'
  <2>1. pc' \in [Proc -> PC]
    BY BookkeepingType DEF PC
  <2>2. dbLock' \in Proc \cup {Nobody} /\ initLock' \in Proc \cup {Nobody}
    BY BookkeepingType DEF TypeOK, lockVars
  <2>3. tail' \in [Proc -> Anchor]
    <3>1. [tail EXCEPT ![p] = TailOf(rows)] \in [Proc -> Anchor]
      BY BookkeepingType
    <3>2. tail \in [Proc -> Anchor]
      BY DEF TypeOK
    <3>3. tail' = tail \/ tail' = [tail EXCEPT ![p] = TailOf(rows)]
      BY DEF callVars
    <3>4. QED
      BY <3>1, <3>2, <3>3
  <2>4. QED
    BY <2>1, <2>2, <2>3 DEF TypeOK, dbVars, callVars, copyVars
<1>2. Stage(p)'
  BY DecisionAssumption, LedgerAssumption
     DEF StageInv, Stage, Goto, Release, TypeOK, dbVars, callVars, lockVars
<1>3. ASSUME NEW q \in Proc, q # p PROVE Stage(q)'
  <2>1. Len(rows) <= Len(rows')
    BY DEF dbVars, TypeOK
  <2>2. initLock' \in {initLock, Nobody, p}
    BY DEF Release, lockVars
  <2>3. pc'[q] = pc[q] /\ call'[q] = call[q] /\ receipt'[q] = receipt[q]
    BY <1>3 DEF Goto, TypeOK, callVars
  <2>4. QED
    BY <1>1, <1>3, <2>1, <2>2, <2>3, StageFrame DEF StageInv
<1>4. QED
  BY <1>1, <1>2, <1>3 DEF StageInv

LEMMA UpdateStep ==
  ASSUME TypeOK, StageInv, NEW p \in Proc, UpdateAnchor(p)
  PROVE  TypeOK' /\ StageInv'
<1> USE DEF UpdateAnchor, UpdateSkip, UpdateNeeded, UpdateWrite, AfterUpdate
<1>1. TypeOK'
  <2>1. pc' \in [Proc -> PC]
    BY BookkeepingType DEF PC
  <2>2. dbLock' \in Proc \cup {Nobody} /\ initLock' \in Proc \cup {Nobody}
    BY BookkeepingType DEF TypeOK, lockVars
  <2>3. anchor' \in Anchor
    BY DEF TypeOK
  <2>4. QED
    BY <2>1, <2>2, <2>3 DEF TypeOK, dbVars, callVars, copyVars
<1>2. Stage(p)'
  BY DecisionAssumption, LedgerAssumption
     DEF StageInv, Stage, Goto, Release, TypeOK, dbVars, callVars, lockVars
<1>3. ASSUME NEW q \in Proc, q # p PROVE Stage(q)'
  <2>1. Len(rows) <= Len(rows')
    BY DEF dbVars, TypeOK
  <2>2. initLock' \in {initLock, Nobody, p}
    BY DEF Release, lockVars
  <2>3. pc'[q] = pc[q] /\ call'[q] = call[q] /\ receipt'[q] = receipt[q]
    BY <1>3 DEF Goto, TypeOK, callVars
  <2>4. QED
    BY <1>1, <1>3, <2>1, <2>2, <2>3, StageFrame DEF StageInv
<1>4. QED
  BY <1>1, <1>2, <1>3 DEF StageInv

LEMMA SyncStep ==
  ASSUME TypeOK, StageInv, NEW p \in Proc, SyncBegin(p)
  PROVE  TypeOK' /\ StageInv'
<1> USE DEF SyncBegin
<1>1. TypeOK'
  <2>1. pc' \in [Proc -> PC]
    BY BookkeepingType DEF PC
  <2>2. tail' \in [Proc -> Anchor]
    BY BookkeepingType
  <2>3. QED
    BY <2>1, <2>2 DEF TypeOK, dbVars, copyVars
<1>2. Stage(p)'
  BY DEF StageInv, Stage, Goto, TypeOK, dbVars
<1>3. ASSUME NEW q \in Proc, q # p PROVE Stage(q)'
  BY <1>1, <1>3, StageFrame DEF StageInv, Goto, TypeOK, dbVars
<1>4. QED
  BY <1>1, <1>2, <1>3 DEF StageInv

LEMMA ReturnStep ==
  ASSUME TypeOK, StageInv, NEW p \in Proc, Return(p)
  PROVE  TypeOK' /\ StageInv'
<1> USE DEF Return
<1>1. TypeOK'
  <2>1. pc' \in [Proc -> PC]
    BY BookkeepingType DEF PC
  <2>2. /\ call' \in [Proc -> Call \cup {NoCall}]
        /\ receipt' \in [Proc -> Nat]
        /\ tail' \in [Proc -> Anchor]
    BY BookkeepingType
  <2>3. receipt[p] \in 0..Len(rows)
    BY DEF StageInv, Stage
  <2>4. HashAt(rows, receipt[p]) \in Hash
    BY <2>3, HashAtType DEF TypeOK
  <2>5. acknowledged' \in Anchor
    BY <2>3, <2>4 DEF TypeOK, Anchor
  <2>6. QED
    BY <2>1, <2>2, <2>5 DEF TypeOK, dbVars, lockVars, copyVars
<1>2. Stage(p)'
  <2>1. pc'[p] = "ready" /\ receipt'[p] = 0 /\ initLock' = initLock /\ initLock # p
    BY DEF StageInv, Stage, Goto, TypeOK, lockVars
  <2>2. Len(rows') \in Nat
    BY <1>1 DEF TypeOK
  <2>3. QED
    BY <2>1, <2>2 DEF Stage
<1>3. ASSUME NEW q \in Proc, q # p PROVE Stage(q)'
  BY <1>1, <1>3, StageFrame DEF StageInv, Goto, TypeOK, dbVars, lockVars
<1>4. QED
  BY <1>1, <1>2, <1>3 DEF StageInv

LEMMA FailureStep ==
  ASSUME TypeOK, StageInv, NEW p \in Proc, Fail(p) \/ Crash(p)
  PROVE  TypeOK' /\ StageInv'
<1> USE DEF Fail, Crash
<1>1. TypeOK'
  <2>1. pc' \in [Proc -> PC]
    BY BookkeepingType DEF PC
  <2>2. /\ call' \in [Proc -> Call \cup {NoCall}]
        /\ receipt' \in [Proc -> Nat]
        /\ tail' \in [Proc -> Anchor]
        /\ dbLock' \in Proc \cup {Nobody}
        /\ initLock' \in Proc \cup {Nobody}
    BY BookkeepingType
  <2>3. anchor' \in Anchor
    BY DEF TypeOK
  <2>4. QED
    BY <2>1, <2>2, <2>3 DEF TypeOK, dbVars, copyVars
<1>2. Stage(p)'
  BY DecisionAssumption, LedgerAssumption DEF StageInv, Stage, Goto, Release, TypeOK, dbVars
<1>3. ASSUME NEW q \in Proc, q # p PROVE Stage(q)'
  <2>1. Len(rows) <= Len(rows')
    BY DEF dbVars, TypeOK
  <2>2. initLock' \in {initLock, Nobody, p}
    BY DEF Release
  <2>3. pc'[q] = pc[q] /\ call'[q] = call[q] /\ receipt'[q] = receipt[q]
    BY <1>3 DEF Goto, TypeOK
  <2>4. QED
    BY <1>1, <1>3, <2>1, <2>2, <2>3, StageFrame DEF StageInv
<1>4. QED
  BY <1>1, <1>2, <1>3 DEF StageInv

\* The copy of the database changes no stage, and neither does putting it back:
\* no process is between its two transactions then.
LEMMA CopyStep ==
  ASSUME TypeOK, StageInv, Backup \/ Restore
  PROVE  TypeOK' /\ StageInv'
<1>1. TypeOK'
  BY DecisionAssumption, LedgerAssumption
     DEF TypeOK, Backup, Restore, dbVars, lockVars, callVars
<1>2. ASSUME NEW q \in Proc PROVE Stage(q)'
  <2>1. pc[q] \in {"closed", "ready"} /\ Stage(q)
    BY DEF Quiescent, StageInv, Backup, Restore
  <2>2. receipt'[q] = 0 /\ pc'[q] = pc[q] /\ initLock' = initLock
    BY <2>1 DEF Stage, Backup, Restore, lockVars, callVars
  <2>3. Len(rows') \in Nat
    BY <1>1 DEF TypeOK
  <2>4. QED
    BY <2>1, <2>2, <2>3 DEF Stage
<1>3. QED
  BY <1>1, <1>2 DEF StageInv

-----------------------------------------------------------------------------
(* The calls.                                                              *)

\* The first transaction of a call, whatever it does to the database, moves p to
\* the second one with the sequence of a row of the chain.
LEMMA CommittedStage ==
  ASSUME TypeOK, TypeOK', StageInv, NEW p \in Proc, initLock # p,
         NEW r, NEW ps, (ReplayCall(p, r) /\ r.key \in Key) \/ InsertCall(p, r, ps)
  PROVE  StageInv'
<1>1. receipt'[p] \in 0..Len(rows') /\ Len(rows) <= Len(rows')
  <2>1. CASE ReplayCall(p, r) /\ r.key \in Key
    <3>1. KeyRow(r.key) \in 0..Len(rows)
      BY <2>1, KeyRowType
    <3>2. QED
      BY <2>1, <3>1 DEF ReplayCall, TypeOK, dbVars
  <2>2. CASE InsertCall(p, r, ps)
    <3>1. Len(rows') = Len(rows) + 1 /\ Len(rows) \in Nat
      BY <2>2 DEF InsertCall, TypeOK
    <3>2. receipt'[p] = Len(rows) + 1
      BY <2>2 DEF InsertCall, TypeOK
    <3>3. QED
      BY <3>1, <3>2
  <2>3. QED
    BY <2>1, <2>2
<1>2. pc'[p] = "sync" /\ initLock' = initLock
  BY DEF ReplayCall, InsertCall, Goto, TypeOK, lockVars
<1>3. Stage(p)'
  BY <1>1, <1>2 DEF Stage
<1>4. ASSUME NEW q \in Proc, q # p PROVE Stage(q)'
  <2>1. pc'[q] = pc[q] /\ call'[q] = call[q] /\ receipt'[q] = receipt[q]
    BY <1>4 DEF ReplayCall, InsertCall, Goto, TypeOK
  <2>2. QED
    BY <1>1, <1>2, <1>4, <2>1, StageFrame DEF StageInv
<1>5. QED
  BY <1>3, <1>4 DEF StageInv

LEMMA StartCallStage ==
  ASSUME TypeOK, StageInv, NEW p \in Proc, StartCall(p)
  PROVE  StageInv'
<1>1. TypeOK'
  BY StartCallType
<1>2. pc[p] = "ready" /\ initLock # p
  BY DEF StageInv, Stage, StartCall, AppendEntry, AppendDecision, EvaluateAndRecord,
         PlanPromotion, AdvancePromotion, RollbackRead, Begins
<1>3. CASE RollbackRead(p)
  <2>1. Stage(p)'
    <3>1. /\ call'[p] \in Call /\ call'[p].request.type = "PROMOTION_ROLLED_BACK"
          /\ call'[p].request.payload.decision = NoDecision
      <4>1. PICK k \in Key, c \in Candidate, t \in 1..MaxRows :
              call' = [call EXCEPT ![p] =
                [request |-> [key |-> k, type |-> "PROMOTION_ROLLED_BACK",
                              context |-> NoContext, payload |-> PayloadOf(c, NoDecision, t)],
                 decision |-> promo[c].decision]]
        BY <1>3 DEF RollbackRead
      <4>2. [key |-> k, type |-> "PROMOTION_ROLLED_BACK",
             context |-> NoContext, payload |-> PayloadOf(c, NoDecision, t)] \in Request
        BY RequestType DEF EntryType, Reserved, PromotionType
      <4>3. promo[c].decision \in Decision \cup {NoDecision}
        BY DEF TypeOK, Promotion
      <4>4. QED
        BY <4>1, <4>2, <4>3 DEF TypeOK, Call, PayloadOf
    <3>2. QED
      BY <1>2, <1>3, <3>1 DEF RollbackRead, Stage, StageInv, Goto, TypeOK, dbVars, lockVars
  <2>2. ASSUME NEW q \in Proc, q # p PROVE Stage(q)'
    <3>1. pc'[q] = pc[q] /\ call'[q] = call[q] /\ receipt'[q] = receipt[q]
      BY <1>3, <2>2 DEF RollbackRead, Goto, TypeOK
    <3>2. Len(rows) <= Len(rows') /\ initLock' = initLock
      BY <1>3 DEF RollbackRead, dbVars, lockVars, TypeOK
    <3>3. QED
      BY <1>1, <2>2, <3>1, <3>2, StageFrame DEF StageInv
  <2>3. QED
    BY <2>1, <2>2 DEF StageInv
<1>4. CASE ~RollbackRead(p)
  <2> DEFINE Commits == \E r, ps : (ReplayCall(p, r) /\ r.key \in Key) \/ InsertCall(p, r, ps)
  <2>1. ASSUME NEW r, r.key \in Key, AppendRow(p, r) PROVE Commits
    BY <2>1 DEF AppendRow
  <2>2. ASSUME NEW r, r.key \in Key, NEW d, Transition(p, r, d) PROVE Commits
    BY <2>2 DEF Transition
  <2>3. AppendEntry(p) \/ AppendDecision(p) \/ EvaluateAndRecord(p) => Commits
    <3> HIDE DEF Commits
    <3>1. QED
      BY <2>1 DEF AppendEntry, AppendDecision, EvaluateAndRecord
  <2>0. ASSUME NEW r, r.key \in Key, NEW ps, ReplayCall(p, r) \/ InsertCall(p, r, ps)
        PROVE  Commits
    BY <2>0
  <2>4. PlanPromotion(p) => Commits
    <3> HIDE DEF Commits
    <3>1. SUFFICES ASSUME NEW k \in Key, NEW d \in Ready, NEW ps,
                   LET r == [key |-> k, type |-> "PROMOTION_PLANNED", context |-> NoContext,
                             payload |-> PayloadOf(CandidateOf[d], d, 0)]
                   IN  ReplayCall(p, r) \/ InsertCall(p, r, ps)
          PROVE Commits
      BY DEF PlanPromotion
    <3>2. QED
      BY <2>0, <3>1
  <2>5. AdvancePromotion(p) => Commits
    <3> HIDE DEF Commits
    <3>1. QED
      BY <2>2 DEF AdvancePromotion
  <2>6. Commits
    BY <1>4, <2>3, <2>4, <2>5 DEF StartCall
  <2>7. QED
    BY <1>1, <1>2, <2>6, CommittedStage
<1>5. QED
  BY <1>3, <1>4

LEMMA RollbackStep ==
  ASSUME TypeOK, StageInv, NEW p \in Proc, RollbackPromotion(p) \/ RollbackRefused(p)
  PROVE  TypeOK' /\ StageInv'
<1>1. pc[p] = "rollback"
  BY DEF RollbackPromotion, RollbackRefused, Begins
<1>2. call[p] \in Call /\ call[p].request.type = "PROMOTION_ROLLED_BACK" /\ initLock # p
  BY <1>1 DEF StageInv, Stage
<1>3. CASE RollbackPromotion(p)
  <2>1. call[p].request \in Request /\ call[p].request.type \in PromotionType
    BY <1>2 DEF Call, PromotionType
  <2>2. Transition(p, call[p].request, call[p].decision)
    BY <1>3 DEF RollbackPromotion
  <2>3. TypeOK'
    BY <2>1, <2>2, TransitionType
  <2>4. \E r, ps : (ReplayCall(p, r) /\ r.key \in Key) \/ InsertCall(p, r, ps)
    BY <2>1, <2>2 DEF Transition, Request
  <2>5. QED
    BY <1>2, <2>3, <2>4, CommittedStage
<1>4. CASE RollbackRefused(p)
  <2>1. TypeOK'
    <3>1. pc' \in [Proc -> PC] /\ call' \in [Proc -> Call \cup {NoCall}]
      BY <1>4, BookkeepingType DEF RollbackRefused, PC
    <3>2. QED
      BY <1>4, <3>1 DEF TypeOK, RollbackRefused, dbVars, lockVars, copyVars
  <2>2. Stage(p)'
    BY <1>1, <1>4 DEF StageInv, Stage, RollbackRefused, Goto, TypeOK, dbVars, lockVars
  <2>3. ASSUME NEW q \in Proc, q # p PROVE Stage(q)'
    BY <1>4, <2>1, <2>3, StageFrame DEF StageInv, RollbackRefused, Goto, TypeOK, dbVars, lockVars
  <2>4. QED
    BY <2>1, <2>2, <2>3 DEF StageInv
<1>5. QED
  BY <1>3, <1>4

-----------------------------------------------------------------------------
(* The anchor. While no copy is put back, the anchor, and every tail that a *)
(* process is about to write into it, name states of the chain's history:   *)
(* the chain only grows, so what was its tail once stays in its history.    *)

Writing(p) == pc[p] \in {"update_read", "update_write"}

AnchorInv ==
  restores = 0 =>
    /\ AnchorVerified(rows, anchor)
    /\ \A p \in Proc : Writing(p) => AnchorMatches(rows, tail[p])

\* A step that adds to the chain, if anything, and that moves nobody towards the
\* anchor but with the chain's tail, preserves it.
LEMMA AnchorFrame ==
  ASSUME TypeOK, TypeOK', AnchorInv, NEW p \in Proc,
         \/ UNCHANGED rows
         \/ (anchor # NoAnchor /\ \E row \in Row : rows' = Append(rows, row)),
         anchor' = anchor \/ (Writing(p) /\ anchor' = tail[p]),
         restores' = restores,
         \A q \in Proc : Writing(q)' =>
            \/ Writing(q) /\ tail'[q] = tail[q]
            \/ rows' = rows /\ tail'[q] = TailOf(rows)
  PROVE  AnchorInv'
<1> SUFFICES ASSUME restores = 0
             PROVE  /\ AnchorVerified(rows', anchor')
                    /\ \A q \in Proc : Writing(q)' => AnchorMatches(rows', tail'[q])
  BY DEF AnchorInv
<1> USE DEF TypeOK
<1>1. ASSUME NEW a \in Anchor, AnchorMatches(rows, a)
      PROVE  AnchorMatches(rows', a)
  <2>1. CASE UNCHANGED rows
    BY <1>1, <2>1
  <2>2. CASE \E row \in Row : rows' = Append(rows, row)
    BY <1>1, <2>2, MatchesAppend
  <2>3. QED
    BY <2>1, <2>2
<1>2. AnchorVerified(rows', anchor')
  <2>1. CASE anchor' = anchor
    BY <1>1, <2>1 DEF AnchorInv, AnchorVerified
  <2>2. CASE Writing(p) /\ anchor' = tail[p]
    BY <1>1, <2>2 DEF AnchorInv, AnchorVerified
  <2>3. QED
    BY <2>1, <2>2
<1>3. ASSUME NEW q \in Proc, Writing(q)'
      PROVE  AnchorMatches(rows', tail'[q])
  <2>1. CASE Writing(q) /\ tail'[q] = tail[q]
    BY <1>1, <2>1 DEF AnchorInv
  <2>2. CASE rows' = rows /\ tail'[q] = TailOf(rows)
    BY <2>2, TailMatches
  <2>3. QED
    BY <1>3, <2>1, <2>2
<1>4. QED
  BY <1>2, <1>3

\* Opening the ledger writes nothing but the tail that its snapshot showed.
LEMMA OpenAnchor ==
  ASSUME TypeOK, StageInv, AnchorInv, NEW p \in Proc, OpenLock(p) \/ Recover(p)
  PROVE  AnchorInv'
<1>1. TypeOK'
  BY OpenStep, RecoverStep
<1>2. UNCHANGED rows /\ anchor' = anchor /\ restores' = restores
  BY DEF OpenLock, Recover, RecoverRefuse, RecoverCurrent, RecoverBehind, dbVars, copyVars
<1>3. ASSUME NEW q \in Proc, Writing(q)'
      PROVE  \/ Writing(q) /\ tail'[q] = tail[q]
             \/ rows' = rows /\ tail'[q] = TailOf(rows)
  <2>1. CASE q = p
    BY <1>2, <1>3, <2>1 DEF OpenLock, Recover, RecoverRefuse, RecoverCurrent,
                            RecoverBehind, Goto, Writing, TypeOK
  <2>2. CASE q # p
    BY <1>3, <2>2 DEF OpenLock, Recover, RecoverRefuse, RecoverCurrent,
                      RecoverBehind, Goto, Writing, TypeOK, callVars
  <2>3. QED
    BY <2>1, <2>2
<1>4. QED
  BY <1>1, <1>2, <1>3, AnchorFrame

\* _update_anchor writes the tail it was given, or nothing.
LEMMA UpdateAnchorAnchor ==
  ASSUME TypeOK, StageInv, AnchorInv, NEW p \in Proc, UpdateAnchor(p)
  PROVE  AnchorInv'
<1>1. TypeOK'
  BY UpdateStep
<1>2. UNCHANGED rows /\ restores' = restores /\ tail' = tail
  BY DEF UpdateAnchor, UpdateSkip, UpdateNeeded, UpdateWrite, dbVars, copyVars, callVars
<1>3. anchor' = anchor \/ (Writing(p) /\ anchor' = tail[p])
  BY DEF UpdateAnchor, UpdateSkip, UpdateNeeded, UpdateWrite, Writing
<1>4. ASSUME NEW q \in Proc, Writing(q)' PROVE Writing(q)
  BY <1>4 DEF UpdateAnchor, UpdateSkip, UpdateNeeded, UpdateWrite, AfterUpdate, Goto,
              Writing, TypeOK
<1>5. QED
  BY <1>1, <1>2, <1>3, <1>4, AnchorFrame

\* The first transaction of a call inserts only past an anchor that it checked.
LEMMA CallAnchor ==
  ASSUME TypeOK, TypeOK', AnchorInv, NEW p \in Proc,
         StartCall(p) \/ RollbackPromotion(p) \/ RollbackRefused(p)
  PROVE  AnchorInv'
<1> DEFINE Insertion == \E r : AnchorMatches(rows, anchor)
                              /\ rows' = Append(rows, NewRow(rows, r, restores))
           Step(l) == /\ pc' = [pc EXCEPT ![p] = l]
                      /\ anchor' = anchor /\ restores' = restores /\ tail' = tail
<1>1. ASSUME NEW r, NEW ps, ReplayCall(p, r) \/ InsertCall(p, r, ps), AnchorMatches(rows, anchor)
      PROVE  Step("sync") /\ (UNCHANGED rows \/ Insertion)
  BY <1>1 DEF ReplayCall, InsertCall, Goto, dbVars, copyVars
<1>2. ASSUME NEW r, AppendRow(p, r), AnchorMatches(rows, anchor)
      PROVE  Step("sync") /\ (UNCHANGED rows \/ Insertion)
  <2> HIDE DEF Insertion, Step
  <2>1. QED
    BY <1>1, <1>2 DEF AppendRow
<1>3. ASSUME NEW r, NEW d, Transition(p, r, d), AnchorMatches(rows, anchor)
      PROVE  Step("sync") /\ (UNCHANGED rows \/ Insertion)
  <2> HIDE DEF Insertion, Step
  <2>1. QED
    BY <1>1, <1>3 DEF Transition
<1>4. /\ Step("sync") \/ Step("rollback") \/ Step("ready")
      /\ UNCHANGED rows \/ Insertion
  <2>1. CASE RollbackRead(p) \/ RollbackRefused(p)
    BY <2>1 DEF RollbackRead, RollbackRefused, Goto, dbVars, copyVars
  <2>2. CASE AppendEntry(p) \/ AppendDecision(p) \/ EvaluateAndRecord(p)
    <3> HIDE DEF Insertion, Step
    <3>1. QED
      BY <1>2, <2>2 DEF AppendEntry, AppendDecision, EvaluateAndRecord, Begins
  <2>3. CASE PlanPromotion(p)
    <3> HIDE DEF Insertion, Step
    <3>1. PICK k, d, ps :
            LET r == [key |-> k, type |-> "PROMOTION_PLANNED", context |-> NoContext,
                      payload |-> PayloadOf(CandidateOf[d], d, 0)]
            IN  ReplayCall(p, r) \/ InsertCall(p, r, ps)
      BY <2>3 DEF PlanPromotion
    <3>2. AnchorMatches(rows, anchor)
      BY <2>3 DEF PlanPromotion, Begins
    <3>3. QED
      BY <1>1, <3>1, <3>2
  <2>4. CASE AdvancePromotion(p) \/ RollbackPromotion(p)
    <3> HIDE DEF Insertion, Step
    <3>1. QED
      BY <1>3, <2>4 DEF AdvancePromotion, RollbackPromotion, Begins
  <2>5. QED
    BY <2>1, <2>2, <2>3, <2>4 DEF StartCall
<1>5. UNCHANGED rows \/ (anchor # NoAnchor /\ \E row \in Row : rows' = Append(rows, row))
  <2>1. CASE Insertion
    <3>1. PICK r : AnchorMatches(rows, anchor)
                   /\ rows' = Append(rows, NewRow(rows, r, restores))
      BY <2>1
    <3>2. anchor # NoAnchor
      BY <3>1, MatchesNotAbsent DEF TypeOK
    <3>3. rows'[Len(rows) + 1] = NewRow(rows, r, restores) /\ Len(rows) + 1 \in 1..Len(rows')
      BY <3>1 DEF TypeOK
    <3>4. NewRow(rows, r, restores) \in Row
      BY <3>3 DEF TypeOK
    <3>5. QED
      BY <3>1, <3>2, <3>4
  <2>2. QED
    BY <1>4, <2>1
<1>6. ASSUME NEW q \in Proc, Writing(q)' PROVE Writing(q) /\ tail'[q] = tail[q]
  BY <1>4, <1>6 DEF Writing, TypeOK
<1>7. QED
  BY <1>4, <1>5, <1>6, AnchorFrame

LEMMA RestAnchor ==
  ASSUME TypeOK, StageInv, AnchorInv, NEW p \in Proc,
         SyncBegin(p) \/ Return(p) \/ Fail(p) \/ Crash(p)
  PROVE  AnchorInv'
<1>1. TypeOK'
  BY SyncStep, ReturnStep, FailureStep
<1>2. UNCHANGED rows /\ restores' = restores
  BY DEF SyncBegin, Return, Fail, Crash, dbVars, copyVars
<1>3. anchor' = anchor \/ (Writing(p) /\ anchor' = tail[p])
  BY DEF SyncBegin, Return, Fail, Crash, Writing
<1>4. ASSUME NEW q \in Proc, Writing(q)'
      PROVE  \/ Writing(q) /\ tail'[q] = tail[q]
             \/ rows' = rows /\ tail'[q] = TailOf(rows)
  BY <1>2, <1>4 DEF SyncBegin, Return, Fail, Crash, Goto, Writing, TypeOK
<1>5. QED
  BY <1>1, <1>2, <1>3, <1>4, AnchorFrame

LEMMA CopyAnchor ==
  ASSUME TypeOK, AnchorInv, Backup \/ Restore
  PROVE  AnchorInv'
<1>1. CASE Backup
  BY <1>1 DEF AnchorInv, Writing, Backup, dbVars, callVars
<1>2. CASE Restore
  BY <1>2 DEF AnchorInv, Restore, TypeOK
<1>3. QED
  BY <1>1, <1>2

-----------------------------------------------------------------------------
(* The inductive invariant and what follows from it.                       *)

IInv == TypeOK /\ StageInv /\ AnchorInv

LEMMA InitIInv == Init => IInv
<1> SUFFICES ASSUME Init PROVE IInv
  OBVIOUS
<1>1. TypeOK
  <2>1. NoPromotion \in Promotion
    BY DEF NoPromotion, Promotion
  <2>2. NoAnchor \in Anchor /\ TailOf(<<>>) \in Anchor
    <3>1. <<>> \in Seq(Row)
      OBVIOUS
    <3>2. NoAnchor \in Anchor
      BY DEF NoAnchor, Anchor, Hash, ZeroHash
    <3>3. QED
      BY <3>1, <3>2, TailMatches
  <2>3. QED
    BY <2>1, <2>2, DecisionAssumption, LedgerAssumption DEF Init, TypeOK, PC
<1>2. StageInv
  BY DecisionAssumption, LedgerAssumption DEF Init, StageInv, Stage
<1>3. AnchorInv
  BY DEF Init, AnchorInv, AnchorVerified, Writing
<1>4. QED
  BY <1>1, <1>2, <1>3 DEF IInv

LEMMA NextIInv == IInv /\ [Next]_vars => IInv'
<1> SUFFICES ASSUME IInv, [Next]_vars PROVE IInv'
  OBVIOUS
<1> USE DEF IInv
<1>1. ASSUME NEW p \in Proc, OpenLock(p) \/ Recover(p) PROVE IInv'
  BY <1>1, OpenStep, RecoverStep, OpenAnchor
<1>2. ASSUME NEW p \in Proc, UpdateAnchor(p) PROVE IInv'
  BY <1>2, UpdateStep, UpdateAnchorAnchor
<1>3. ASSUME NEW p \in Proc, StartCall(p) PROVE IInv'
  BY <1>3, StartCallType, StartCallStage, CallAnchor
<1>4. ASSUME NEW p \in Proc, RollbackPromotion(p) \/ RollbackRefused(p) PROVE IInv'
  BY <1>4, RollbackStep, CallAnchor
<1>5. ASSUME NEW p \in Proc, SyncBegin(p) \/ Return(p) \/ Fail(p) \/ Crash(p) PROVE IInv'
  BY <1>5, SyncStep, ReturnStep, FailureStep, RestAnchor
<1>6. CASE Backup \/ Restore
  BY <1>6, CopyStep, CopyAnchor
<1>7. CASE UNCHANGED vars
  BY <1>7 DEF vars, TypeOK, StageInv, Stage, AnchorInv, Writing
<1>8. QED
  BY <1>1, <1>2, <1>3, <1>4, <1>5, <1>6, <1>7 DEF Next, Continue

THEOREM IInvariant == Spec => []IInv
<1>1. QED
  BY InitIInv, NextIInv, PTL DEF Spec

\* Every variable keeps to its kind, whatever the processes do (the columns of the
\* tables of ledger.py:241-277, the anchor file of 782-796).
THEOREM TypeCorrect == Spec => []TypeOK
<1>1. IInv => TypeOK
  BY DEF IInv
<1>2. QED
  BY <1>1, IInvariant, PTL

\* No interleaving of opens, calls, failures and crashes, serial or not, makes the
\* anchor name anything but a state of the chain's own history: the ledger never
\* locks itself out (ledger.py:798-859).
THEOREM AnchorStaysHistorical == Spec => []AnchorHistorical
<1>1. IInv => AnchorHistorical
  BY DEF IInv, AnchorInv, AnchorHistorical
<1>2. QED
  BY <1>1, IInvariant, PTL

-----------------------------------------------------------------------------
(* What the writers keep true of the two tables together.                  *)

\* No two entries bear the same key.
KeysUnique(rs) == \A s, u \in 1..Len(rs) : rs[s].key = rs[u].key => s = u

\* A recorded evaluation is about the candidate and the context of its decision,
\* which the engine came to.
RecordsEvaluation(e) ==
  e.type = "EVALUATED_DECISION" =>
    /\ e.payload.decision \in Decision \ External
    /\ e.payload.candidate = CandidateOf[e.payload.decision]
    /\ e.context = ContextOf[e.payload.decision]
    /\ e.payload.token = 0

EvaluationsOK(rs) == \A s \in 1..Len(rs) : RecordsEvaluation(rs[s])

\* The tokens of a candidate's transitions are spent: they are all below the one that the
\* next transition must present, and different.
TokensOK(rs, ps) ==
  \A s \in 1..Len(rs) : rs[s].type \in PromotionType =>
    /\ rs[s].payload.token < ps[rs[s].payload.candidate].fencing_token
    /\ \A u \in 1..Len(rs) :
         /\ rs[u].type \in PromotionType
         /\ rs[s].payload.candidate = rs[u].payload.candidate
         /\ rs[s].payload.token = rs[u].payload.token
         => s = u

\* A candidate that has a plan has it on a recorded evaluation.
PlansOK(rs, ps) ==
  \A c \in Candidate :
    IF ps[c].state = "NONE" THEN ps[c] = NoPromotion
    ELSE /\ ps[c].decision \in Ready \ External
         /\ CandidateOf[ps[c].decision] = c
         /\ ps[c].plan_sequence \in 1..Len(rs)
         /\ EvaluatedBefore(rs, ps[c].plan_sequence, ps[c].decision)

TablesOK(rs, ps) ==
  KeysUnique(rs) /\ EvaluationsOK(rs) /\ TokensOK(rs, ps) /\ PlansOK(rs, ps)

-----------------------------------------------------------------------------
(* What one insertion may do to the tables: an entry of the caller's, an   *)
(* evaluation, a plan, or a transition of a candidate that has one.        *)

Fresh(rs, r) == \A s \in 1..Len(rs) : rs[s].key # r.key

PlainEntry(rs, ps, r, ps2) ==
  /\ r.type \notin Reserved
  /\ ps2 = ps

Evaluation(rs, ps, r, ps2) ==
  /\ r.type = "EVALUATED_DECISION"
  /\ RecordsEvaluation(r)
  /\ ps2 = ps

PlanEntry(rs, ps, r, ps2) ==
  LET d == r.payload.decision
      c == r.payload.candidate
  IN  /\ r.type = "PROMOTION_PLANNED"
      /\ d \in Ready /\ c = CandidateOf[d] /\ r.payload.token = 0
      /\ ps[c] = NoPromotion
      /\ EvaluatedBefore(rs, Len(rs) + 1, d)
      /\ ps2 = [ps EXCEPT ![c] = [state |-> "PLANNED", fencing_token |-> 1, decision |-> d,
                                  plan_sequence |-> Len(rs) + 1,
                                  updated_sequence |-> Len(rs) + 1]]

MoveEntry(rs, ps, r, ps2) ==
  LET c == r.payload.candidate
  IN  /\ r.type \in {"PROMOTION_APPLIED", "PROMOTION_VERIFIED", "PROMOTION_ROLLED_BACK"}
      /\ ps[c].state \in ExpectedStates[r.type]
      /\ r.payload.token = ps[c].fencing_token
      /\ r.payload.decision \in {NoDecision, ps[c].decision}
      /\ ps2 = [ps EXCEPT ![c] = [state |-> StateOf[r.type],
                                  fencing_token |-> ps[c].fencing_token + 1,
                                  decision |-> ps[c].decision,
                                  plan_sequence |-> ps[c].plan_sequence,
                                  updated_sequence |-> Len(rs) + 1]]

Insertion(rs, ps, r, rs2, ps2) ==
  /\ r \in Request /\ Fresh(rs, r)
  /\ \E stamp \in Nat : rs2 = Append(rs, NewRow(rs, r, stamp))
  /\ \/ PlainEntry(rs, ps, r, ps2) \/ Evaluation(rs, ps, r, ps2)
     \/ PlanEntry(rs, ps, r, ps2) \/ MoveEntry(rs, ps, r, ps2)

\* The rows that were there are where they were, and the new one is what was asked for.
LEMMA InsertedRows ==
  ASSUME NEW rs \in Seq(Row), NEW ps, NEW r, NEW rs2, NEW ps2, Insertion(rs, ps, r, rs2, ps2)
  PROVE  LET n == Len(rs) + 1
         IN  /\ rs2 \in Seq(Row) /\ Len(rs2) = n /\ n \in 1..n
             /\ \A s \in 1..Len(rs) : rs2[s] = rs[s] /\ s \in 1..n /\ s # n
             /\ \A s \in 1..n : s # n => s \in 1..Len(rs)
             /\ rs2[n].key = r.key /\ rs2[n].type = r.type
             /\ rs2[n].context = r.context /\ rs2[n].payload = r.payload
<1>1. PICK stamp \in Nat : rs2 = Append(rs, NewRow(rs, r, stamp))
  BY DEF Insertion
<1>2. NewRow(rs, r, stamp) \in Row
  BY NewRowType DEF Insertion
<1>3. QED
  BY <1>1, <1>2 DEF NewRow, Linked

\* An earlier evaluation stays one.
LEMMA EvaluatedStays ==
  ASSUME NEW rs \in Seq(Row), NEW ps, NEW r, NEW rs2, NEW ps2, Insertion(rs, ps, r, rs2, ps2),
         NEW k \in 1..(Len(rs) + 1), NEW d
  PROVE  EvaluatedBefore(rs2, k, d) <=> EvaluatedBefore(rs, k, d)
BY InsertedRows DEF EvaluatedBefore

LEMMA InsertionKeepsTables ==
  ASSUME NEW rs \in Seq(Row), NEW ps \in [Candidate -> Promotion], TablesOK(rs, ps),
         NEW r, NEW rs2, NEW ps2, Insertion(rs, ps, r, rs2, ps2)
  PROVE  TablesOK(rs2, ps2)
<1> DEFINE n == Len(rs) + 1
           c == r.payload.candidate
<1>1. /\ rs2 \in Seq(Row) /\ Len(rs2) = n /\ n \in 1..n
      /\ \A s \in 1..Len(rs) : rs2[s] = rs[s] /\ s \in 1..n /\ s # n
      /\ \A s \in 1..n : s # n => s \in 1..Len(rs)
      /\ rs2[n].key = r.key /\ rs2[n].type = r.type
      /\ rs2[n].context = r.context /\ rs2[n].payload = r.payload
  BY InsertedRows
<1>2. c \in Candidate /\ r.payload \in Payload /\ ps[c] \in Promotion
  BY DEF Insertion, Request, Payload
<1>3. KeysUnique(rs2)
  BY <1>1 DEF KeysUnique, TablesOK, Insertion, Fresh
<1>4. EvaluationsOK(rs2)
  BY <1>1 DEF EvaluationsOK, RecordsEvaluation, TablesOK, Insertion, PlainEntry, Evaluation,
              PlanEntry, MoveEntry, Reserved
<1>5. TokensOK(rs2, ps2)
  <2>1. \A s \in 1..Len(rs) : rs[s].payload.token \in Nat /\ rs[s].payload.candidate \in Candidate
    <3>1. \A s \in 1..Len(rs) : rs[s] \in Row
      OBVIOUS
    <3>2. QED
      BY <3>1 DEF Row, Payload
  <2>2. ps[c].fencing_token \in Nat /\ r.payload.token \in Nat
    BY <1>2 DEF Promotion, Payload
  <2>3. ASSUME NEW s \in 1..Len(rs), rs[s].type \in PromotionType
        PROVE  /\ rs[s].payload.token < ps[rs[s].payload.candidate].fencing_token
               /\ \A u \in 1..Len(rs) :
                    /\ rs[u].type \in PromotionType
                    /\ rs[s].payload.candidate = rs[u].payload.candidate
                    /\ rs[s].payload.token = rs[u].payload.token
                    => s = u
    BY <2>3 DEF TablesOK, TokensOK
  <2> DEFINE Spent(s) == /\ rs[s].payload.token < ps2[rs[s].payload.candidate].fencing_token
                         /\ r.type \in PromotionType /\ rs[s].payload.candidate = c =>
                              rs[s].payload.token # r.payload.token
  <2>4. ASSUME \A s \in 1..Len(rs) : rs[s].type \in PromotionType => Spent(s),
               r.type \in PromotionType => r.payload.token < ps2[c].fencing_token
        PROVE  TokensOK(rs2, ps2)
    <3>1. ASSUME NEW s \in 1..n, rs2[s].type \in PromotionType
          PROVE  rs2[s].payload.token < ps2[rs2[s].payload.candidate].fencing_token
      <4>1. CASE s = n
        BY <1>1, <2>4, <3>1, <4>1
      <4>2. CASE s # n
        BY <1>1, <2>4, <3>1, <4>2
      <4>3. QED
        BY <4>1, <4>2
    <3>2. ASSUME NEW s \in 1..n, NEW u \in 1..n,
                 rs2[s].type \in PromotionType, rs2[u].type \in PromotionType,
                 rs2[s].payload.candidate = rs2[u].payload.candidate,
                 rs2[s].payload.token = rs2[u].payload.token
          PROVE  s = u
      <4>1. CASE s # n /\ u # n
        <5>1. s \in 1..Len(rs) /\ u \in 1..Len(rs) /\ rs2[s] = rs[s] /\ rs2[u] = rs[u]
          BY <1>1, <4>1
        <5>2. QED
          BY <2>3, <3>2, <5>1
      <4>2. CASE s = n /\ u # n
        <5>1. u \in 1..Len(rs) /\ rs2[u] = rs[u]
          BY <1>1, <4>2
        <5>2. QED
          BY <1>1, <2>4, <3>2, <4>2, <5>1
      <4>3. CASE s # n /\ u = n
        <5>1. s \in 1..Len(rs) /\ rs2[s] = rs[s]
          BY <1>1, <4>3
        <5>2. QED
          BY <1>1, <2>4, <3>2, <4>3, <5>1
      <4>4. QED
        BY <4>1, <4>2, <4>3
    <3>3. Len(rs2) = n
      BY <1>1
    <3>4. QED
      BY <3>1, <3>2, <3>3 DEF TokensOK
  <2>5. CASE PlainEntry(rs, ps, r, ps2) \/ Evaluation(rs, ps, r, ps2)
    <3>1. r.type \notin PromotionType /\ ps2 = ps
      BY <2>5 DEF PlainEntry, Evaluation, Reserved, PromotionType
    <3>2. QED
      BY <2>3, <2>4, <3>1
  <2>6. CASE PlanEntry(rs, ps, r, ps2)
    <3>1. /\ ps[c].fencing_token = 0 /\ r.payload.token = 0 /\ ps2[c].fencing_token = 1
          /\ \A x \in Candidate : x # c => ps2[x] = ps[x]
      BY <1>2, <2>6 DEF PlanEntry, NoPromotion
    <3>2. ASSUME NEW s \in 1..Len(rs), rs[s].type \in PromotionType PROVE Spent(s)
      <4>1. rs[s].payload.candidate # c
        BY <2>1, <2>3, <3>1, <3>2
      <4>2. QED
        BY <2>1, <2>3, <3>1, <3>2, <4>1
    <3>3. QED
      BY <2>4, <3>1, <3>2
  <2>7. CASE MoveEntry(rs, ps, r, ps2)
    <3>1. /\ r.payload.token = ps[c].fencing_token
          /\ ps2[c].fencing_token = ps[c].fencing_token + 1
          /\ \A x \in Candidate : x # c => ps2[x] = ps[x]
      BY <1>2, <2>7 DEF MoveEntry
    <3>2. ASSUME NEW s \in 1..Len(rs), rs[s].type \in PromotionType PROVE Spent(s)
      <4>1. CASE rs[s].payload.candidate = c
        BY <2>1, <2>2, <2>3, <3>1, <3>2, <4>1
      <4>2. CASE rs[s].payload.candidate # c
        BY <2>1, <2>3, <3>1, <3>2, <4>2
      <4>3. QED
        BY <4>1, <4>2
    <3>3. r.payload.token < ps2[c].fencing_token
      BY <2>2, <3>1
    <3>4. QED
      BY <2>4, <3>2, <3>3
  <2>8. QED
    BY <2>5, <2>6, <2>7 DEF Insertion
<1>6. PlansOK(rs2, ps2)
  <2> USE DEF PlansOK
  <2>1. \A k \in 1..n : \A d : EvaluatedBefore(rs2, k, d) <=> EvaluatedBefore(rs, k, d)
    BY EvaluatedStays
  <2>2. \A x \in Candidate : ps2[x] = ps[x] =>
          IF ps2[x].state = "NONE" THEN ps2[x] = NoPromotion
          ELSE /\ ps2[x].decision \in Ready \ External
               /\ CandidateOf[ps2[x].decision] = x
               /\ ps2[x].plan_sequence \in 1..Len(rs2)
               /\ EvaluatedBefore(rs2, ps2[x].plan_sequence, ps2[x].decision)
    BY <1>1, <2>1 DEF TablesOK
  <2>3. CASE PlainEntry(rs, ps, r, ps2) \/ Evaluation(rs, ps, r, ps2)
    BY <2>2, <2>3 DEF PlainEntry, Evaluation
  <2>4. CASE PlanEntry(rs, ps, r, ps2)
    <3> DEFINE d == r.payload.decision
    <3>1. /\ d \in Ready /\ c = CandidateOf[d] /\ EvaluatedBefore(rs, n, d)
          /\ ps2[c].state = "PLANNED" /\ ps2[c].decision = d /\ ps2[c].plan_sequence = n
          /\ \A x \in Candidate : x # c => ps2[x] = ps[x]
      BY <1>2, <2>4 DEF PlanEntry
    <3>2. d \notin External
      BY <3>1 DEF TablesOK, EvaluatedBefore, EvaluationsOK, RecordsEvaluation
    <3>3. QED
      BY <1>1, <2>1, <2>2, <3>1, <3>2
  <2>5. CASE MoveEntry(rs, ps, r, ps2)
    <3>1. /\ ps[c].state # "NONE" /\ ps2[c].state # "NONE"
          /\ ps2[c].decision = ps[c].decision /\ ps2[c].plan_sequence = ps[c].plan_sequence
          /\ \A x \in Candidate : x # c => ps2[x] = ps[x]
      BY <1>2, <2>5 DEF MoveEntry, ExpectedStates, StateOf
    <3>2. QED
      BY <1>1, <1>2, <2>1, <2>2, <3>1 DEF TablesOK
  <2>6. QED
    BY <2>3, <2>4, <2>5 DEF Insertion
<1>7. QED
  BY <1>3, <1>4, <1>5, <1>6 DEF TablesOK
-----------------------------------------------------------------------------
(* The audit. The replay is a recursive function; an insertion extends it by  *)
(* one value, so that it is followed from state to state and needs no         *)
(* induction over the chain.                                               *)

\* What the replay of entry n makes of the table.
ReplayStep(table, rs, n) ==
  IF rs[n].type \in PromotionType
  THEN [table EXCEPT ![rs[n].payload.candidate] = Replayed(@, rs, n)]
  ELSE table

\* f is the replay of the chain rs.
Replays(f, rs) ==
  f = [n \in 0..Len(rs) |-> IF n = 0 THEN [c \in Candidate |-> NoPromotion]
                            ELSE ReplayStep(f[n - 1], rs, n)]

AuditOK(rs, ps) ==
  /\ ChainOK(rs)
  /\ \A s \in 1..Len(rs) : EnvelopeOK(rs[s])
  /\ \E f : /\ Replays(f, rs)
            /\ \A g : Replays(g, rs) => g = f
            /\ \A s \in 1..Len(rs) : rs[s].type \in PromotionType =>
                 LegalReplay(f[s - 1][rs[s].payload.candidate], rs, s)
            /\ f[Len(rs)] = ps

LEMMA AuditReplays ==
  ASSUME NEW rs, NEW ps, AuditOK(rs, ps)
  PROVE  ChainOK(rs) /\ ReplayOK(rs, ps)
<1>1. PICK f : /\ Replays(f, rs)
               /\ \A g : Replays(g, rs) => g = f
               /\ \A s \in 1..Len(rs) : rs[s].type \in PromotionType =>
                    LegalReplay(f[s - 1][rs[s].payload.candidate], rs, s)
               /\ f[Len(rs)] = ps
  BY DEF AuditOK
<1>2. Derived(rs) = CHOOSE g : Replays(g, rs)
  BY DEF Derived, Replays, ReplayStep
<1>3. Derived(rs) = f
  BY <1>1, <1>2
<1>4. QED
  BY <1>1, <1>3 DEF AuditOK, ReplayOK

LEMMA EmptyAudit == AuditOK(<<>>, [c \in Candidate |-> NoPromotion])
<1> DEFINE none == [c \in Candidate |-> NoPromotion]
           f == [n \in 0..0 |-> none]
<1>1. Len(<<>>) = 0 /\ 1..0 = {}
  OBVIOUS
<1>2. Replays(f, <<>>) /\ \A g : Replays(g, <<>>) => g = f
  BY <1>1 DEF Replays
<1>3. ChainOK(<<>>)
  BY <1>1 DEF ChainOK
<1>4. f[0] = none
  OBVIOUS
<1> HIDE DEF f
<1>5. QED
  BY <1>1, <1>2, <1>3, <1>4 DEF AuditOK

\* An insertion keeps the links.
LEMMA InsertionKeepsChain ==
  ASSUME NEW rs \in Seq(Row), ChainOK(rs), NEW r \in Request, NEW stamp \in Nat,
         NEW row, row = NewRow(rs, r, stamp), NEW rs2, rs2 = Append(rs, row)
  PROVE  ChainOK(rs2)
<1> DEFINE n == Len(rs) + 1
<1>1. Len(rs2) = n /\ rs2[n] = row /\ \A s \in 1..Len(rs) : rs2[s] = rs[s]
  <2>1. row \in Row
    BY NewRowType
  <2>2. QED
    BY <2>1
<1>2. \A s \in 0..Len(rs) : HashAt(rs2, s) = HashAt(rs, s)
  BY <1>1 DEF HashAt
<1>3. ASSUME NEW s \in 1..Len(rs)
      PROVE  /\ rs2[s].previous_hash = HashAt(rs2, s - 1)
             /\ rs2[s].entry_hash = EntryHash(rs2[s].previous_hash, BodyOf(rs2[s], s, rs2[s].created_at))
  BY <1>1, <1>2 DEF ChainOK
<1>4. /\ row.previous_hash = HashAt(rs, Len(rs))
      /\ row.entry_hash = EntryHash(row.previous_hash, BodyOf(row, n, row.created_at))
  BY DEF NewRow, Linked, BodyOf
<1>5. HashAt(rs2, n - 1) = HashAt(rs, Len(rs))
  BY <1>2
<1>6. \A s \in 1..n : s = n \/ s \in 1..Len(rs)
  OBVIOUS
<1>7. QED
  BY <1>1, <1>3, <1>4, <1>5, <1>6 DEF ChainOK

\* The replay of a chain, point by point.
LEMMA ReplayPoints ==
  ASSUME NEW rs, Len(rs) \in Nat, NEW f
  PROVE  Replays(f, rs) <=>
           /\ f = [n \in 0..Len(rs) |-> f[n]]
           /\ f[0] = [c \in Candidate |-> NoPromotion]
           /\ \A n \in 1..Len(rs) : f[n] = ReplayStep(f[n - 1], rs, n)
<1> DEFINE F == [n \in 0..Len(rs) |-> IF n = 0 THEN [c \in Candidate |-> NoPromotion]
                                      ELSE ReplayStep(f[n - 1], rs, n)]
<1>1. Replays(f, rs) <=> f = F
  BY DEF Replays
<1>2. F = [n \in 0..Len(rs) |-> F[n]] /\ F[0] = [c \in Candidate |-> NoPromotion]
  OBVIOUS
<1>3. \A n \in 1..Len(rs) : F[n] = ReplayStep(f[n - 1], rs, n)
  OBVIOUS
<1> HIDE DEF F
<1>4. \A n \in 0..Len(rs) : n = 0 \/ n \in 1..Len(rs)
  OBVIOUS
<1>5. ASSUME f = [n \in 0..Len(rs) |-> f[n]], \A n \in 0..Len(rs) : f[n] = F[n]
      PROVE  f = F
  BY <1>2, <1>5
<1>6. QED
  BY <1>1, <1>2, <1>3, <1>4, <1>5

\* The replay of an entry that was there is what it was.
LEMMA ReplayStepStays ==
  ASSUME NEW rs \in Seq(Row), NEW ps, NEW r, NEW rs2, NEW ps2, Insertion(rs, ps, r, rs2, ps2),
         NEW m \in 1..Len(rs), NEW table
  PROVE  ReplayStep(table, rs2, m) = ReplayStep(table, rs, m)
<1>1. rs2[m] = rs[m]
  BY InsertedRows
<1>2. QED
  BY <1>1 DEF ReplayStep, Replayed

\* The replay of the entry inserted does to the table what its writer did.
LEMMA ReplayStepInserted ==
  ASSUME NEW rs \in Seq(Row), NEW ps \in [Candidate -> Promotion],
         NEW r, NEW rs2, NEW ps2, Insertion(rs, ps, r, rs2, ps2)
  PROVE  ps2 = ReplayStep(ps, rs2, Len(rs) + 1)
<1> DEFINE n == Len(rs) + 1
           c == r.payload.candidate
<1>1. rs2[n].type = r.type /\ rs2[n].payload = r.payload
  BY InsertedRows
<1>2. c \in Candidate /\ r.payload \in Payload /\ ps[c] \in Promotion
  BY DEF Insertion, Request, Payload
<1>3. CASE PlainEntry(rs, ps, r, ps2) \/ Evaluation(rs, ps, r, ps2)
  BY <1>1, <1>3 DEF PlainEntry, Evaluation, Reserved, PromotionType, ReplayStep
<1>4. CASE PlanEntry(rs, ps, r, ps2)
  BY <1>1, <1>4 DEF PlanEntry, PromotionType, ReplayStep, Replayed
<1>5. CASE MoveEntry(rs, ps, r, ps2)
  <2>1. Replayed(ps[c], rs2, n) =
          [state |-> StateOf[r.type], fencing_token |-> ps[c].fencing_token + 1,
           decision |-> ps[c].decision, plan_sequence |-> ps[c].plan_sequence,
           updated_sequence |-> n]
    BY <1>1, <1>2, <1>5 DEF MoveEntry, Replayed, Promotion
  <2>2. r.type \in PromotionType
    BY <1>5 DEF MoveEntry, PromotionType
  <2>3. ps2 = [ps EXCEPT ![c] = Replayed(ps[c], rs2, n)]
    BY <1>5, <2>1 DEF MoveEntry
  <2>4. QED
    BY <1>1, <2>2, <2>3 DEF ReplayStep
<1>6. QED
  BY <1>3, <1>4, <1>5 DEF Insertion

\* The entry inserted is a legal next step of the replay.
LEMMA InsertedIsLegal ==
  ASSUME NEW rs \in Seq(Row), NEW ps \in [Candidate -> Promotion],
         NEW r, NEW rs2, NEW ps2, Insertion(rs, ps, r, rs2, ps2), r.type \in PromotionType
  PROVE  LegalReplay(ps[r.payload.candidate], rs2, Len(rs) + 1)
<1> DEFINE n == Len(rs) + 1
<1>1. rs2[n].type = r.type /\ rs2[n].payload = r.payload /\ n \in 1..n
  BY InsertedRows
<1>2. CASE PlanEntry(rs, ps, r, ps2)
  <2>1. EvaluatedBefore(rs2, n, r.payload.decision)
    BY <1>1, <1>2, EvaluatedStays DEF PlanEntry
  <2>2. QED
    BY <1>1, <1>2, <2>1 DEF PlanEntry, LegalReplay
<1>3. CASE MoveEntry(rs, ps, r, ps2)
  BY <1>1, <1>3 DEF MoveEntry, LegalReplay, ExpectedStates, ReplayAllowed
<1>4. QED
  BY <1>2, <1>3 DEF Insertion, PlainEntry, Evaluation, Reserved, PromotionType

\* The envelope of the entry inserted agrees with its payload.
LEMMA InsertedEnvelope ==
  ASSUME NEW rs \in Seq(Row), NEW ps, NEW r, NEW rs2, NEW ps2, Insertion(rs, ps, r, rs2, ps2)
  PROVE  EnvelopeOK(rs2[Len(rs) + 1])
<1>1. LET row == rs2[Len(rs) + 1]
      IN  row.type = r.type /\ row.context = r.context /\ row.payload = r.payload
  BY InsertedRows
<1>2. r.type = "EVALUATED_DECISION" => RecordsEvaluation(r)
  BY DEF Insertion, PlainEntry, Evaluation, PlanEntry, MoveEntry, Reserved
<1>3. NoDecision \notin Decision
  BY DecisionAssumption
<1>4. QED
  BY <1>1, <1>2, <1>3 DEF RecordsEvaluation, EnvelopeOK

LEMMA InsertionKeepsAudit ==
  ASSUME NEW rs \in Seq(Row), NEW ps \in [Candidate -> Promotion], AuditOK(rs, ps),
         NEW r, NEW rs2, NEW ps2, Insertion(rs, ps, r, rs2, ps2)
  PROVE  AuditOK(rs2, ps2)
<1> DEFINE n == Len(rs) + 1
           none == [c \in Candidate |-> NoPromotion]
<1>1. /\ Len(rs) \in Nat /\ Len(rs2) = n /\ n \in 1..n
      /\ \A s \in 1..Len(rs) : rs2[s] = rs[s] /\ s \in 1..n /\ s # n
      /\ \A s \in 1..n : s # n => s \in 1..Len(rs)
      /\ rs2[n].type = r.type /\ rs2[n].payload = r.payload
  BY InsertedRows
<1>0. /\ 0 \in 0..Len(rs) /\ n - 1 = Len(rs) /\ n - 1 \in 0..Len(rs) /\ n \in 0..n
      /\ \A m \in 1..Len(rs) : m \in 0..Len(rs) /\ m - 1 \in 0..Len(rs)
      /\ \A m \in 1..n : m \in 0..n /\ m - 1 \in 0..Len(rs)
      /\ \A m \in 0..n : m = n \/ m \in 0..Len(rs)
  BY <1>1
<1>2. ChainOK(rs2)
  BY InsertionKeepsChain DEF AuditOK, Insertion
<1>3. \A s \in 1..Len(rs2) : EnvelopeOK(rs2[s])
  <2>1. EnvelopeOK(rs2[n])
    BY InsertedEnvelope
  <2>2. \A s \in 1..Len(rs) : EnvelopeOK(rs2[s])
    BY <1>1 DEF AuditOK
  <2>3. QED
    BY <1>1, <2>1, <2>2
<1>4. PICK f : /\ Replays(f, rs)
               /\ \A g : Replays(g, rs) => g = f
               /\ \A s \in 1..Len(rs) : rs[s].type \in PromotionType =>
                    LegalReplay(f[s - 1][rs[s].payload.candidate], rs, s)
               /\ f[Len(rs)] = ps
  BY DEF AuditOK
<1>5. /\ f[0] = none
      /\ \A m \in 1..Len(rs) : f[m] = ReplayStep(f[m - 1], rs2, m)
  BY <1>1, <1>4, ReplayPoints, ReplayStepStays
<1> DEFINE f2 == [m \in 0..n |-> IF m = n THEN ps2 ELSE f[m]]
<1>6. /\ f2 = [m \in 0..n |-> f2[m]] /\ f2[n] = ps2 /\ f2[n - 1] = ps
      /\ \A m \in 0..Len(rs) : f2[m] = f[m]
  BY <1>1, <1>4
<1> HIDE DEF f2
<1>7. Replays(f2, rs2)
  <2>1. f2[n] = ReplayStep(f2[n - 1], rs2, n)
    BY <1>6, ReplayStepInserted
  <2>2. \A m \in 1..Len(rs) : f2[m] = ReplayStep(f2[m - 1], rs2, m)
    BY <1>0, <1>5, <1>6
  <2>3. f2[0] = none
    BY <1>0, <1>5, <1>6
  <2>4. \A m \in 1..Len(rs2) : f2[m] = ReplayStep(f2[m - 1], rs2, m)
    BY <1>1, <2>1, <2>2
  <2>5. Len(rs2) \in Nat /\ f2 = [m \in 0..Len(rs2) |-> f2[m]]
    BY <1>1, <1>6
  <2>6. QED
    BY <2>3, <2>4, <2>5, ReplayPoints
<1>8. ASSUME NEW g, Replays(g, rs2) PROVE g = f2
  <2> DEFINE h == [m \in 0..Len(rs) |-> g[m]]
  <2>1. /\ g = [m \in 0..n |-> g[m]] /\ g[0] = none
        /\ \A m \in 1..n : g[m] = ReplayStep(g[m - 1], rs2, m)
    BY <1>1, <1>8, ReplayPoints
  <2>2. h = [m \in 0..Len(rs) |-> h[m]] /\ \A m \in 0..Len(rs) : h[m] = g[m]
    OBVIOUS
  <2> HIDE DEF h
  <2>3. \A m \in 1..Len(rs) : h[m] = ReplayStep(h[m - 1], rs, m)
    <3>1. \A m \in 1..Len(rs) : h[m] = ReplayStep(h[m - 1], rs2, m)
      BY <1>0, <1>1, <2>1, <2>2
    <3>2. QED
      BY <3>1, ReplayStepStays
  <2>4. h = f
    <3>1. h[0] = none
      BY <1>0, <2>1, <2>2
    <3>2. Replays(h, rs)
      BY <1>1, <2>2, <2>3, <3>1, ReplayPoints
    <3>3. QED
      BY <1>4, <3>2
  <2>5. g[n - 1] = ps
    BY <1>0, <1>4, <2>2, <2>4
  <2>6. g[n] = ps2
    BY <1>1, <2>1, <2>5, ReplayStepInserted
  <2>7. \A m \in 0..n : g[m] = f2[m]
    BY <1>0, <1>6, <2>2, <2>4, <2>6
  <2>8. QED
    BY <1>6, <2>1, <2>7
<1>9. ASSUME NEW s \in 1..n, rs2[s].type \in PromotionType
      PROVE  LegalReplay(f2[s - 1][rs2[s].payload.candidate], rs2, s)
  <2>1. CASE s # n
    <3>1. f2[s - 1] = f[s - 1] /\ rs2[s] = rs[s]
      BY <1>0, <1>1, <1>6, <2>1
    <3>2. LegalReplay(f2[s - 1][rs[s].payload.candidate], rs, s)
      BY <1>1, <1>4, <1>9, <2>1, <3>1
    <3>3. \A d : EvaluatedBefore(rs2, s, d) <=> EvaluatedBefore(rs, s, d)
      BY EvaluatedStays
    <3>4. QED
      BY <3>1, <3>2, <3>3 DEF LegalReplay
  <2>2. CASE s = n
    BY <1>1, <1>6, <1>9, <2>2, InsertedIsLegal
  <2>3. QED
    BY <2>1, <2>2
<1>10. QED
  <2> HIDE DEF n
  <2>1. /\ \A s \in 1..Len(rs2) : rs2[s].type \in PromotionType =>
             LegalReplay(f2[s - 1][rs2[s].payload.candidate], rs2, s)
        /\ f2[Len(rs2)] = ps2
    BY <1>1, <1>6, <1>9
  <2>2. QED
    BY <1>2, <1>3, <1>7, <1>8, <2>1 DEF AuditOK

-----------------------------------------------------------------------------
(* What the processes do to the tables.                                    *)

\* A call whose key is new inserts, one whose key is not leaves the tables alone.
LEMMA InsertCallInserts ==
  ASSUME TypeOK, NEW p \in Proc, NEW r \in Request, NEW ps, InsertCall(p, r, ps),
         \/ PlainEntry(rows, promo, r, ps) \/ Evaluation(rows, promo, r, ps)
         \/ PlanEntry(rows, promo, r, ps) \/ MoveEntry(rows, promo, r, ps)
  PROVE  Insertion(rows, promo, r, rows', promo')
<1>1. Fresh(rows, r)
  <2>1. SUFFICES ASSUME NEW s \in 1..Len(rows), rows[s].key = r.key PROVE FALSE
    BY DEF Fresh
  <2>2. KeyRow(r.key) \in 1..Len(rows)
    BY <2>1 DEF KeyRow
  <2>3. KeyRow(r.key) = 0 /\ Len(rows) \in Nat
    BY DEF InsertCall, TypeOK
  <2>4. QED
    BY <2>2, <2>3
<1>2. restores \in Nat /\ rows' = Append(rows, NewRow(rows, r, restores)) /\ promo' = ps
  BY DEF InsertCall, TypeOK
<1>3. QED
  BY <1>1, <1>2 DEF Insertion

\* Every call that commits its first transaction asks for something, and finds it or
\* inserts it.
Commits(p) ==
  \E r \in Request :
    /\ RecordsEvaluation(r)
    /\ \/ ReplayCall(p, r)
       \/ (\E ps : InsertCall(p, r, ps)) /\ Insertion(rows, promo, r, rows', promo')

LEMMA AppendRowCommits ==
  ASSUME TypeOK, NEW p \in Proc, NEW r \in Request, AppendRow(p, r), RecordsEvaluation(r),
         r.type \notin PromotionType
  PROVE  Commits(p)
<1>1. PlainEntry(rows, promo, r, promo) \/ Evaluation(rows, promo, r, promo)
  BY DEF PlainEntry, Evaluation, Reserved
<1>2. InsertCall(p, r, promo) => Insertion(rows, promo, r, rows', promo')
  BY <1>1, InsertCallInserts
<1>3. QED
  BY <1>2 DEF AppendRow, Commits

LEMMA TransitionCommits ==
  ASSUME TypeOK, NEW p \in Proc, NEW r \in Request, NEW d, Transition(p, r, d),
         r.type \in {"PROMOTION_APPLIED", "PROMOTION_VERIFIED", "PROMOTION_ROLLED_BACK"},
         r.payload.decision \in {NoDecision, d}
  PROVE  Commits(p)
<1> DEFINE c == r.payload.candidate
           ps == [promo EXCEPT ![c] = Advanced(r.type, c)]
<1>1. ReplayCall(p, r) \/ (TransitionAdmissible(r.type, c, d, r.payload.token) /\ InsertCall(p, r, ps))
  BY DEF Transition
<1>2. TransitionAdmissible(r.type, c, d, r.payload.token) => MoveEntry(rows, promo, r, ps)
  BY DEF TransitionAdmissible, MoveEntry, Advanced
<1>3. RecordsEvaluation(r)
  BY DEF RecordsEvaluation
<1> HIDE DEF ps
<1>4. QED
  BY <1>1, <1>2, <1>3, InsertCallInserts DEF Commits

LEMMA CallCommits ==
  ASSUME TypeOK, StageInv, NEW p \in Proc, StartCall(p) \/ RollbackPromotion(p), ~RollbackRead(p)
  PROVE  Commits(p)
<1> USE DecisionAssumption, LedgerAssumption
<1>1. CASE AppendEntry(p)
  <2>1. PICK k \in Key, type \in Workload \ Reserved, d \in External :
          AppendRow(p, [key |-> k, type |-> type, context |-> NoContext,
                        payload |-> PayloadOf(CandidateOf[d], d, 0)])
    BY <1>1 DEF AppendEntry
  <2> DEFINE r == [key |-> k, type |-> type, context |-> NoContext,
                   payload |-> PayloadOf(CandidateOf[d], d, 0)]
  <2>2. r \in Request
    BY RequestType
  <2>3. RecordsEvaluation(r) /\ r.type \notin PromotionType
    BY DEF RecordsEvaluation, Reserved
  <2>4. QED
    BY <2>1, <2>2, <2>3, AppendRowCommits
<1>2. CASE AppendDecision(p)
  <2>1. PICK k \in Key, d \in External :
          AppendRow(p, [key |-> k, type |-> "IMPORTED_DECISION", context |-> ContextOf[d],
                        payload |-> PayloadOf(CandidateOf[d], d, 0)])
    BY <1>2 DEF AppendDecision
  <2> DEFINE r == [key |-> k, type |-> "IMPORTED_DECISION", context |-> ContextOf[d],
                   payload |-> PayloadOf(CandidateOf[d], d, 0)]
  <2>2. r \in Request
    BY RequestType DEF EntryType
  <2>3. RecordsEvaluation(r) /\ r.type \notin PromotionType
    BY DEF RecordsEvaluation, PromotionType
  <2>4. QED
    BY <2>1, <2>2, <2>3, AppendRowCommits
<1>3. CASE EvaluateAndRecord(p)
  <2>1. PICK k \in Key, d \in Decision \ External :
          AppendRow(p, [key |-> k, type |-> "EVALUATED_DECISION", context |-> ContextOf[d],
                        payload |-> PayloadOf(CandidateOf[d], d, 0)])
    BY <1>3 DEF EvaluateAndRecord
  <2> DEFINE r == [key |-> k, type |-> "EVALUATED_DECISION", context |-> ContextOf[d],
                   payload |-> PayloadOf(CandidateOf[d], d, 0)]
  <2>2. r \in Request
    BY RequestType DEF EntryType, Reserved
  <2>3. RecordsEvaluation(r) /\ r.type \notin PromotionType
    BY DEF RecordsEvaluation, PromotionType, PayloadOf
  <2>4. QED
    BY <2>1, <2>2, <2>3, AppendRowCommits
<1>4. CASE PlanPromotion(p)
  <2> DEFINE R(k, d) == [key |-> k, type |-> "PROMOTION_PLANNED", context |-> NoContext,
                         payload |-> PayloadOf(CandidateOf[d], d, 0)]
             PS(d) == [promo EXCEPT ![CandidateOf[d]] =
                         [state |-> "PLANNED", fencing_token |-> 1, decision |-> d,
                          plan_sequence |-> Len(rows) + 1,
                          updated_sequence |-> Len(rows) + 1]]
  <2>1. PICK k \in Key, d \in Ready :
          ReplayCall(p, R(k, d)) \/ (PlanAdmissible(d) /\ InsertCall(p, R(k, d), PS(d)))
    BY <1>4 DEF PlanPromotion
  <2>2. R(k, d) \in Request
    BY RequestType DEF EntryType, Reserved, PromotionType
  <2>3. RecordsEvaluation(R(k, d))
    BY DEF RecordsEvaluation
  <2>4. PlanAdmissible(d) => PlanEntry(rows, promo, R(k, d), PS(d))
    BY DEF PlanAdmissible, PlanEntry, PayloadOf
  <2> HIDE DEF R, PS
  <2>5. QED
    BY <2>1, <2>2, <2>3, <2>4, InsertCallInserts DEF Commits
<1>5. CASE AdvancePromotion(p)
  <2>1. PICK k \in Key, c \in Candidate, d \in Decision, t \in 1..MaxRows,
             type \in Workload \cap {"PROMOTION_APPLIED", "PROMOTION_VERIFIED"} :
          Transition(p, [key |-> k, type |-> type, context |-> NoContext,
                         payload |-> PayloadOf(c, d, t)], d)
    BY <1>5 DEF AdvancePromotion
  <2> DEFINE r == [key |-> k, type |-> type, context |-> NoContext, payload |-> PayloadOf(c, d, t)]
  <2>2. r \in Request
    BY RequestType DEF EntryType, Reserved, PromotionType
  <2>3. /\ r.type \in {"PROMOTION_APPLIED", "PROMOTION_VERIFIED", "PROMOTION_ROLLED_BACK"}
        /\ r.payload.decision \in {NoDecision, d}
    BY DEF PayloadOf
  <2>4. QED
    BY <2>1, <2>2, <2>3, TransitionCommits
<1>6. CASE RollbackPromotion(p)
  <2>1. pc[p] = "rollback" /\ Transition(p, call[p].request, call[p].decision)
    BY <1>6 DEF RollbackPromotion, Begins
  <2>2. /\ call[p].request \in Request /\ call[p].request.type = "PROMOTION_ROLLED_BACK"
        /\ call[p].request.payload.decision = NoDecision
    BY <2>1 DEF StageInv, Stage, Call
  <2>3. QED
    BY <2>1, <2>2, TransitionCommits
<1>7. QED
  BY <1>1, <1>2, <1>3, <1>4, <1>5, <1>6 DEF StartCall

\* The tables change by a call or by their copy.
LEMMA TablesChangeByCalls ==
  ASSUME TypeOK, StageInv, [Next]_vars, ~UNCHANGED dbVars, ~Restore
  PROVE  \E p \in Proc : (StartCall(p) \/ RollbackPromotion(p)) /\ ~RollbackRead(p)
<1>1. ASSUME NEW p \in Proc, OpenLock(p) \/ Recover(p) \/ RollbackRead(p) \/ RollbackRefused(p)
      PROVE  UNCHANGED dbVars
  BY <1>1 DEF OpenLock, Recover, RecoverRefuse, RecoverCurrent, RecoverBehind, RollbackRead,
              RollbackRefused
<1>2. ASSUME NEW p \in Proc,
             UpdateAnchor(p) \/ SyncBegin(p) \/ Return(p) \/ Fail(p) \/ Crash(p)
      PROVE  UNCHANGED dbVars
  BY <1>2 DEF UpdateAnchor, UpdateSkip, UpdateNeeded, UpdateWrite, SyncBegin, Return, Fail, Crash
<1>3. Backup \/ UNCHANGED vars => UNCHANGED dbVars
  BY DEF Backup, vars, dbVars
<1>4. QED
  BY <1>1, <1>2, <1>3 DEF Next, Continue

\* Whatever the processes do, the tables stay, grow by an insertion, or are replaced by
\* their copy.
LEMMA TableSteps ==
  ASSUME TypeOK, StageInv, [Next]_vars
  PROVE  \/ UNCHANGED dbVars
         \/ restores' = restores /\ \E r : Insertion(rows, promo, r, rows', promo')
         \/ Restore
<1>1. ASSUME NEW p \in Proc, (StartCall(p) \/ RollbackPromotion(p)) /\ ~RollbackRead(p)
      PROVE  \/ UNCHANGED dbVars
             \/ restores' = restores /\ \E r : Insertion(rows, promo, r, rows', promo')
  <2>1. Commits(p)
    BY <1>1, CallCommits
  <2>2. QED
    BY <2>1 DEF Commits, ReplayCall, InsertCall, copyVars
<1>2. QED
  BY <1>1, TablesChangeByCalls

\* The copy changes only by being made anew.
LEMMA CopySteps ==
  ASSUME TypeOK, StageInv, [Next]_vars
  PROVE  backup' = backup \/ backup' = [rows |-> rows, promo |-> promo]
<1>1. ASSUME NEW p \in Proc, OpenLock(p) \/ StartCall(p) \/ Continue(p) \/ Crash(p)
      PROVE  backup' = backup
  <2>1. CASE Commits(p)
    BY <2>1 DEF Commits, ReplayCall, InsertCall, copyVars
  <2>2. CASE ~Commits(p)
    BY <1>1, <2>2, CallCommits
       DEF Continue, OpenLock, RollbackRead, Recover, RecoverRefuse, RecoverCurrent,
           RecoverBehind, RollbackRefused, UpdateAnchor, UpdateSkip, UpdateNeeded, UpdateWrite,
           SyncBegin, Return, Fail, Crash, copyVars
  <2>3. QED
    BY <2>1, <2>2
<1>2. QED
  BY <1>1 DEF Next, Backup, Restore, vars

\* Both the tables and their copy are what the writers made of them.
TablesInv ==
  /\ TablesOK(rows, promo) /\ AuditOK(rows, promo)
  /\ TablesOK(backup.rows, backup.promo) /\ AuditOK(backup.rows, backup.promo)

LEMMA InitTables == Init => TablesInv
<1> SUFFICES ASSUME Init PROVE TablesInv
  OBVIOUS
<1> DEFINE none == [c \in Candidate |-> NoPromotion]
<1>1. rows = <<>> /\ promo = none /\ backup.rows = <<>> /\ backup.promo = none
  BY DEF Init
<1>2. TablesOK(<<>>, none)
  <2>1. 1..Len(<<>>) = {}
    OBVIOUS
  <2>2. NoPromotion.state = "NONE"
    BY DEF NoPromotion
  <2>3. QED
    BY <2>1, <2>2 DEF TablesOK, KeysUnique, EvaluationsOK, TokensOK, PlansOK
<1>3. QED
  BY <1>1, <1>2, EmptyAudit DEF TablesInv

LEMMA NextTables == IInv /\ TablesInv /\ [Next]_vars => TablesInv'
<1> SUFFICES ASSUME IInv, TablesInv, [Next]_vars PROVE TablesInv'
  OBVIOUS
<1>1. TypeOK /\ StageInv
  BY DEF IInv
<1>2. /\ rows \in Seq(Row) /\ promo \in [Candidate -> Promotion]
  BY <1>1 DEF TypeOK
<1>3. TablesOK(rows', promo') /\ AuditOK(rows', promo')
  <2>1. CASE UNCHANGED dbVars
    BY <2>1 DEF TablesInv, dbVars
  <2>2. CASE \E r : Insertion(rows, promo, r, rows', promo')
    BY <1>2, <2>2, InsertionKeepsTables, InsertionKeepsAudit DEF TablesInv
  <2>3. CASE Restore
    BY <2>3 DEF TablesInv, Restore
  <2>4. QED
    BY <1>1, <2>1, <2>2, <2>3, TableSteps
<1>4. backup' = backup \/ backup' = [rows |-> rows, promo |-> promo]
  BY <1>1, CopySteps
<1>5. TablesOK(backup'.rows, backup'.promo) /\ AuditOK(backup'.rows, backup'.promo)
  BY <1>4 DEF TablesInv
<1>6. QED
  BY <1>3, <1>5 DEF TablesInv

THEOREM TablesInvariant == Spec => []TablesInv
<1>1. QED
  BY InitTables, NextTables, IInvariant, PTL DEF Spec

\* Of the callers that hold the same fencing token of a candidate, whoever they are and
\* whatever fails, one at most gets its transition into the ledger (ledger.py:528-532).
THEOREM TokensFence == Spec => []OneWinnerPerToken
<1>1. TablesInv => OneWinnerPerToken
  BY DEF TablesInv, TablesOK, TokensOK, OneWinnerPerToken
<1>2. QED
  BY <1>1, TablesInvariant, PTL

\* No candidate is ever promoted on anything but a READY decision about it that the
\* engine computed and that stands in the ledger before the plan (ledger.py:284,
\* 357-365, 500-524).
THEOREM PromotionsAreEarned == Spec => []PromotedOnRecordedDecision
<1>1. TablesInv => PromotedOnRecordedDecision
  <2>1. SUFFICES ASSUME TablesInv, NEW c \in Candidate, promo[c] # NoPromotion
                 PROVE  /\ promo[c].decision \in Ready \ External
                        /\ CandidateOf[promo[c].decision] = c
                        /\ EvaluatedBefore(rows, promo[c].plan_sequence, promo[c].decision)
    BY DEF PromotedOnRecordedDecision
  <2>2. QED
    BY <2>1 DEF TablesInv, TablesOK, PlansOK
<1>2. QED
  BY <1>1, TablesInvariant, PTL

\* Whatever the processes write, and whatever crashes or fails while they do, verify()
\* finds nothing wrong: the chain links, the entries replay into the table
\* promotion_state, and the anchor names a state of the chain (ledger.py:619-780).
THEOREM AuditStaysClean == Spec => []AuditClean
<1>1. IInv /\ TablesInv => AuditClean
  BY AuditReplays DEF IInv, AnchorInv, TablesInv, AuditClean, VerifyOK
<1>2. QED
  BY <1>1, IInvariant, TablesInvariant, PTL

-----------------------------------------------------------------------------
(* Refinement: the ledger implements Promotion.tla. Every insertion is the step of the  *)
(* promise it records, and every other step leaves the promotions alone.                *)

\* What Promise calls recorded.
Recorded(rs) == {rs[s].payload.decision : s \in {e \in 1..Len(rs) :
                                                   rs[e].type = "EVALUATED_DECISION"}}

LEMMA RecordedInserted ==
  ASSUME NEW rs \in Seq(Row), NEW ps, NEW r, NEW rs2, NEW ps2, Insertion(rs, ps, r, rs2, ps2)
  PROVE  Recorded(rs2) = IF r.type = "EVALUATED_DECISION"
                         THEN Recorded(rs) \cup {r.payload.decision} ELSE Recorded(rs)
BY InsertedRows DEF Recorded

\* An evaluation records its decision, and no other insertion records one.
LEMMA InsertionIsPromised ==
  ASSUME TypeOK, NEW r, Insertion(rows, promo, r, rows', promo')
  PROVE  [Promise!Next]_(Promise!vars)
<1> DEFINE c == r.payload.candidate
           d == r.payload.decision
           st(ps) == [x \in Candidate |-> ps[x].state]
           tk(ps) == [x \in Candidate |-> ps[x].fencing_token]
           dc(ps) == [x \in Candidate |-> ps[x].decision]
<1>1. Recorded(rows') = IF r.type = "EVALUATED_DECISION" THEN Recorded(rows) \cup {d}
                        ELSE Recorded(rows)
  BY RecordedInserted DEF TypeOK
<1>2. c \in Candidate /\ promo \in [Candidate -> Promotion]
  BY DEF Insertion, Request, Payload, TypeOK
<1>3. CASE PlainEntry(rows, promo, r, promo')
  <2>1. Recorded(rows') = Recorded(rows) /\ promo' = promo
    BY <1>1, <1>3 DEF PlainEntry, Reserved
  <2>2. QED
    BY <2>1 DEF Promise!vars, Recorded
<1>4. CASE Evaluation(rows, promo, r, promo')
  <2>1. Recorded(rows') = Recorded(rows) \cup {d} /\ promo' = promo /\ d \in Decision \ External
    BY <1>1, <1>4 DEF Evaluation, RecordsEvaluation
  <2>2. Promise!Record(d)
    BY <2>1 DEF Promise!Record, Recorded
  <2>3. QED
    BY <2>1, <2>2 DEF Promise!Next
<1>5. CASE PlanEntry(rows, promo, r, promo')
  <2>1. /\ d \in Ready /\ CandidateOf[d] = c /\ promo[c] = NoPromotion
        /\ EvaluatedBefore(rows, Len(rows) + 1, d)
        /\ promo' = [promo EXCEPT ![c] = [state |-> "PLANNED", fencing_token |-> 1, decision |-> d,
                                          plan_sequence |-> Len(rows) + 1,
                                          updated_sequence |-> Len(rows) + 1]]
    BY <1>5 DEF PlanEntry
  <2>2. Recorded(rows') = Recorded(rows) /\ d \in Recorded(rows)
    <3>1. Recorded(rows') = Recorded(rows)
      BY <1>1, <1>5 DEF PlanEntry
    <3>2. \E e \in 1..Len(rows) : rows[e].type = "EVALUATED_DECISION" /\ rows[e].payload.decision = d
      BY <2>1 DEF EvaluatedBefore, TypeOK
    <3>3. QED
      BY <3>1, <3>2 DEF Recorded
  <2>3. st(promo)[c] = "NONE"
    BY <1>2, <2>1 DEF NoPromotion
  <2>4. /\ st(promo') = [st(promo) EXCEPT ![c] = "PLANNED"]
        /\ tk(promo') = [tk(promo) EXCEPT ![c] = 1]
        /\ dc(promo') = [dc(promo) EXCEPT ![c] = d]
    BY <1>2, <2>1
  <2>5. Promise!Plan(c, d)
    BY <2>1, <2>2, <2>3, <2>4 DEF Promise!Plan, Recorded
  <2>6. d \in Decision
    BY <2>1, DecisionAssumption
  <2>7. QED
    BY <1>2, <2>5, <2>6 DEF Promise!Next
<1>6. CASE MoveEntry(rows, promo, r, promo')
  <2> DEFINE to == StateOf[r.type]
             from == ExpectedStates[r.type]
  <2>1. /\ promo[c].state \in from
        /\ promo' = [promo EXCEPT ![c] = [state |-> to,
                                          fencing_token |-> promo[c].fencing_token + 1,
                                          decision |-> promo[c].decision,
                                          plan_sequence |-> promo[c].plan_sequence,
                                          updated_sequence |-> Len(rows) + 1]]
    BY <1>6 DEF MoveEntry
  <2>2. Recorded(rows') = Recorded(rows)
    BY <1>1, <1>6 DEF MoveEntry
  <2>3. /\ st(promo') = [st(promo) EXCEPT ![c] = to]
        /\ tk(promo') = [tk(promo) EXCEPT ![c] = @ + 1]
        /\ dc(promo') = dc(promo)
        /\ st(promo)[c] \in from
    BY <1>2, <2>1
  <2> HIDE DEF to, from
  <2>4. Promise!Move(c, from, to)
    BY <2>2, <2>3 DEF Promise!Move, Recorded
  <2>5. \/ from = {"PLANNED"} /\ to = "APPLIED"
        \/ from = {"APPLIED"} /\ to = "VERIFIED"
        \/ from = {"APPLIED", "VERIFIED"} /\ to = "ROLLED_BACK"
    BY <1>6 DEF MoveEntry, ExpectedStates, StateOf, from, to
  <2>6. QED
    BY <1>2, <2>4, <2>5 DEF Promise!Next
<1>7. QED
  BY <1>3, <1>4, <1>5, <1>6 DEF Insertion

\* The ledger implements the promotion promise, as long as no older copy of the
\* database is put in its place (ledger.py:419-560).
THEOREM PromotionsAreKept == MaxRestores = 0 => (Spec => PromotionPromise)
<1> SUFFICES ASSUME MaxRestores = 0 PROVE Spec => PromotionPromise
  OBVIOUS
<1>1. Init => Promise!Init
  <2>1. 1..Len(<<>>) = {}
    OBVIOUS
  <2>2. QED
    BY <2>1 DEF Init, Promise!Init, NoPromotion
<1>2. IInv /\ [Next]_vars => [Promise!Next]_(Promise!vars)
  <2> SUFFICES ASSUME IInv, [Next]_vars PROVE [Promise!Next]_(Promise!vars)
    OBVIOUS
  <2>1. TypeOK /\ StageInv
    BY DEF IInv
  <2>2. ~Restore
    BY <2>1 DEF Restore, TypeOK
  <2>3. CASE UNCHANGED dbVars
    BY <2>3 DEF dbVars, Promise!vars
  <2>4. CASE \E r : Insertion(rows, promo, r, rows', promo')
    BY <2>1, <2>4, InsertionIsPromised
  <2>5. QED
    BY <2>1, <2>2, <2>3, <2>4, TableSteps
<1>3. QED
  BY <1>1, <1>2, IInvariant, PTL DEF Spec, PromotionPromise, Promise!Spec

-----------------------------------------------------------------------------
(* Whose step it is, and who holds the locks.                              *)

\* What a step of one process leaves of another.
Unmoved(q) ==
  /\ pc'[q] = pc[q] /\ call'[q] = call[q] /\ receipt'[q] = receipt[q] /\ tail'[q] = tail[q]
  /\ initLock' = q <=> initLock = q
  /\ dbLock' = q <=> dbLock = q

LEMMA OthersUnmoved ==
  ASSUME TypeOK, StageInv, NEW p \in Proc,
         OpenLock(p) \/ StartCall(p) \/ Continue(p) \/ Crash(p),
         NEW q \in Proc, q # p
  PROVE  Unmoved(q)
<1> USE LedgerAssumption DEF TypeOK, Unmoved, Goto, Release, callVars, lockVars
<1>1. CASE OpenLock(p) \/ Recover(p)
  BY <1>1 DEF OpenLock, Recover, RecoverRefuse, RecoverCurrent, RecoverBehind
<1>2. CASE UpdateAnchor(p)
  BY <1>2 DEF UpdateAnchor, UpdateSkip, UpdateNeeded, UpdateWrite, AfterUpdate
<1>3. CASE SyncBegin(p) \/ Return(p)
  BY <1>3 DEF SyncBegin, Return
<1>4. CASE Fail(p) \/ Crash(p)
  BY <1>4 DEF Fail, Crash
<1>5. CASE RollbackRead(p) \/ RollbackRefused(p)
  BY <1>5 DEF RollbackRead, RollbackRefused
<1>6. CASE (StartCall(p) \/ RollbackPromotion(p)) /\ ~RollbackRead(p)
  <2>1. Commits(p)
    BY <1>6, CallCommits
  <2>2. QED
    BY <2>1 DEF Commits, ReplayCall, InsertCall
<1>7. QED
  BY <1>1, <1>2, <1>3, <1>4, <1>5, <1>6 DEF Continue

\* Where a call begins.
LEMMA CallBegins ==
  ASSUME NEW p \in Proc, StartCall(p) \/ RollbackPromotion(p), ~RollbackRead(p)
  PROVE  /\ pc[p] \in {"ready", "rollback"} /\ dbLock = Nobody
         /\ SerialOpen => initLock = Nobody
         /\ AnchorMatches(rows, anchor)
BY DEF StartCall, AppendEntry, AppendDecision, EvaluateAndRecord, PlanPromotion,
       AdvancePromotion, RollbackPromotion, Begins

\* The initialization lock belongs to the process that opens the ledger, the database to
\* the one that writes the anchor without opening it.
Locks(p) ==
  /\ pc[p] = "verify" => initLock = p
  /\ Writing(p) => initLock = p \/ dbLock = p
  /\ dbLock = p => Writing(p) /\ initLock # p

LockInv == \A p \in Proc : Locks(p)

LEMMA NextLocks == IInv /\ LockInv /\ [Next]_vars => LockInv'
<1> SUFFICES ASSUME IInv, LockInv, [Next]_vars PROVE LockInv'
  OBVIOUS
<1>1. TypeOK /\ StageInv
  BY DEF IInv
<1>2. ASSUME NEW p \in Proc, OpenLock(p) \/ StartCall(p) \/ Continue(p) \/ Crash(p)
      PROVE  LockInv'
  <2>1. ASSUME NEW q \in Proc, q # p PROVE Locks(q)'
    BY <1>1, <1>2, <2>1, OthersUnmoved DEF Unmoved, LockInv, Locks, Writing
  <2>2. Locks(p)'
    <3> USE <1>1, LedgerAssumption DEF TypeOK, LockInv, Locks, Writing, Goto, Release, lockVars
    <3>1. CASE OpenLock(p) \/ Recover(p)
      BY <3>1 DEF OpenLock, Recover, RecoverRefuse, RecoverCurrent, RecoverBehind
    <3>2. CASE UpdateAnchor(p)
      BY <3>2 DEF UpdateAnchor, UpdateSkip, UpdateNeeded, UpdateWrite, AfterUpdate
    <3>3. CASE SyncBegin(p) \/ Return(p)
      BY <3>3 DEF SyncBegin, Return, StageInv, Stage
    <3>4. CASE Fail(p) \/ Crash(p)
      BY <3>4 DEF Fail, Crash
    <3>5. CASE RollbackRead(p) \/ RollbackRefused(p)
      BY <3>5 DEF RollbackRead, RollbackRefused
    <3>6. CASE (StartCall(p) \/ RollbackPromotion(p)) /\ ~RollbackRead(p)
      <4>1. Commits(p) /\ dbLock = Nobody
        BY <3>6, CallCommits, CallBegins
      <4>2. QED
        BY <4>1 DEF Commits, ReplayCall, InsertCall
    <3>7. QED
      BY <1>2, <3>1, <3>2, <3>3, <3>4, <3>5, <3>6 DEF Continue
  <2>3. QED
    BY <2>1, <2>2 DEF LockInv
<1>3. CASE Backup \/ Restore \/ UNCHANGED vars
  BY <1>3 DEF Backup, Restore, vars, lockVars, LockInv, Locks, Writing
<1>4. QED
  BY <1>2, <1>3 DEF Next

THEOREM LocksInvariant == Spec => []LockInv
<1>1. Init => LockInv
  BY LedgerAssumption DEF Init, LockInv, Locks, Writing
<1>2. QED
  BY <1>1, NextLocks, IInvariant, PTL DEF Spec

-----------------------------------------------------------------------------
(* Answers.                                                                *)

\* p is between the first transaction of a call and its return.
Answering(p) == pc[p] \in {"sync", "return"} \/ (Writing(p) /\ initLock # p)

\* Row s answers request r.
Answers(rs, s, r) ==
  /\ s \in 1..Len(rs)
  /\ RecordsEvaluation(r)
  /\ rs[s].key = r.key
  /\ SameRequest(rs[s], r)

\* The row that a call in progress found or inserted is the answer to its request.
AnswerInv == \A p \in Proc : Answering(p) => Answers(rows, receipt[p], call[p].request)

\* An answer stays one while the chain grows.
LEMMA AnswerStays ==
  ASSUME NEW rs \in Seq(Row), NEW ps, NEW e, NEW rs2, NEW ps2, Insertion(rs, ps, e, rs2, ps2),
         NEW s, NEW r, Answers(rs, s, r)
  PROVE  Answers(rs2, s, r)
<1>1. s \in 1..Len(rs) /\ rs2[s] = rs[s] /\ s \in 1..Len(rs2)
  BY InsertedRows DEF Answers
<1>2. QED
  BY <1>1 DEF Answers, SameRequest

\* What commits is answered.
LEMMA CommitAnswers ==
  ASSUME TypeOK, NEW p \in Proc, Commits(p)
  PROVE  Answers(rows', receipt'[p], call'[p].request)
<1>1. PICK r \in Request :
        /\ RecordsEvaluation(r)
        /\ \/ ReplayCall(p, r)
           \/ (\E ps : InsertCall(p, r, ps)) /\ Insertion(rows, promo, r, rows', promo')
  BY DEF Commits
<1>2. call'[p].request = r
  BY <1>1 DEF ReplayCall, InsertCall, TypeOK
<1>3. CASE ReplayCall(p, r)
  <2>1. /\ KeyRow(r.key) # 0 /\ SameRequest(rows[KeyRow(r.key)], r)
        /\ receipt'[p] = KeyRow(r.key) /\ rows' = rows
    BY <1>3 DEF ReplayCall, TypeOK, dbVars
  <2>2. KeyRow(r.key) \in 1..Len(rows) /\ rows[KeyRow(r.key)].key = r.key
    BY <2>1 DEF KeyRow
  <2>3. QED
    BY <1>1, <1>2, <2>1, <2>2 DEF Answers
<1>4. CASE (\E ps : InsertCall(p, r, ps)) /\ Insertion(rows, promo, r, rows', promo')
  <2> DEFINE n == Len(rows) + 1
  <2>1. receipt'[p] = n
    BY <1>4 DEF InsertCall, TypeOK
  <2>2. /\ n \in 1..Len(rows') /\ rows'[n].key = r.key /\ rows'[n].type = r.type
        /\ rows'[n].context = r.context /\ rows'[n].payload = r.payload
    BY <1>4, InsertedRows DEF TypeOK
  <2>3. SameRequest(rows'[n], r)
    BY <2>2 DEF SameRequest
  <2>4. QED
    BY <1>1, <1>2, <2>1, <2>2, <2>3 DEF Answers
<1>5. QED
  BY <1>1, <1>3, <1>4

LEMMA NextAnswers == IInv /\ LockInv /\ AnswerInv /\ [Next]_vars => AnswerInv'
<1> SUFFICES ASSUME IInv, LockInv, AnswerInv, [Next]_vars PROVE AnswerInv'
  OBVIOUS
<1>1. TypeOK /\ StageInv
  BY DEF IInv
<1>2. ASSUME NEW s, NEW r, Answers(rows, s, r), ~Restore PROVE Answers(rows', s, r)
  <2>1. CASE UNCHANGED dbVars
    BY <1>2, <2>1 DEF dbVars
  <2>2. CASE \E e : Insertion(rows, promo, e, rows', promo')
    BY <1>1, <1>2, <2>2, AnswerStays DEF TypeOK
  <2>3. QED
    BY <1>1, <1>2, <2>1, <2>2, TableSteps
<1>3. ASSUME NEW p \in Proc, OpenLock(p) \/ StartCall(p) \/ Continue(p) \/ Crash(p)
      PROVE  AnswerInv'
  <2>0. CASE Restore
    <3>1. ASSUME NEW q \in Proc PROVE ~Answering(q)'
      BY <2>0 DEF Restore, Quiescent, Answering, Writing
    <3>2. QED
      BY <3>1 DEF AnswerInv
  <2> SUFFICES ASSUME ~Restore PROVE AnswerInv'
    BY <2>0
  <2>1. ASSUME NEW q \in Proc, q # p, Answering(q)'
        PROVE  Answers(rows', receipt'[q], call'[q].request)
    <3>1. /\ pc'[q] = pc[q] /\ call'[q] = call[q] /\ receipt'[q] = receipt[q]
          /\ initLock' = q <=> initLock = q
      BY <1>1, <1>3, <2>1, OthersUnmoved DEF Unmoved
    <3>2. Answering(q)
      BY <2>1, <3>1 DEF Answering, Writing
    <3>3. QED
      BY <1>2, <3>1, <3>2 DEF AnswerInv
  <2>2. ASSUME Answering(p)'
        PROVE  Answers(rows', receipt'[p], call'[p].request)
    <3>1. CASE Commits(p)
      BY <1>1, <3>1, CommitAnswers
    <3>2. CASE ~Commits(p)
      <4>1. Answering(p) /\ receipt'[p] = receipt[p] /\ call'[p] = call[p]
        <5> USE <1>1, <2>2, LedgerAssumption
            DEF TypeOK, LockInv, Locks, Answering, Writing, Goto, Release, lockVars, callVars
        <5>1. CASE OpenLock(p) \/ Recover(p)
          BY <5>1 DEF OpenLock, Recover, RecoverRefuse, RecoverCurrent, RecoverBehind
        <5>2. CASE UpdateAnchor(p)
          BY <5>2 DEF UpdateAnchor, UpdateSkip, UpdateNeeded, UpdateWrite, AfterUpdate
        <5>3. CASE SyncBegin(p) \/ Return(p)
          BY <5>3 DEF SyncBegin, Return
        <5>4. CASE Fail(p) \/ Crash(p)
          BY <5>4 DEF Fail, Crash
        <5>5. CASE RollbackRead(p) \/ RollbackRefused(p)
          BY <5>5 DEF RollbackRead, RollbackRefused
        <5>6. ~((StartCall(p) \/ RollbackPromotion(p)) /\ ~RollbackRead(p))
          BY <3>2, CallCommits
        <5>7. QED
          BY <1>3, <5>1, <5>2, <5>3, <5>4, <5>5, <5>6 DEF Continue
      <4>2. QED
        BY <1>2, <4>1 DEF AnswerInv
    <3>3. QED
      BY <3>1, <3>2
  <2>3. QED
    BY <2>1, <2>2 DEF AnswerInv
<1>4. CASE Backup \/ Restore
  <2>1. ASSUME NEW q \in Proc PROVE ~Answering(q)'
    BY <1>4 DEF Backup, Restore, Quiescent, Answering, Writing
  <2>2. QED
    BY <2>1 DEF AnswerInv
<1>5. CASE UNCHANGED vars
  BY <1>5 DEF vars, AnswerInv, Answering, Writing
<1>6. QED
  BY <1>3, <1>4, <1>5 DEF Next

THEOREM AnswersInvariant == Spec => []AnswerInv
<1>1. Init => AnswerInv
  BY DEF Init, AnswerInv, Answering, Writing
<1>2. QED
  BY <1>1, NextAnswers, IInvariant, LocksInvariant, PTL DEF Spec

\* A call returns the receipt of the one entry that bears its key, which records the
\* request it made, and evaluate_and_record the decision recorded there: whoever repeats
\* it, and however it is interleaved, retried or cut short (ledger.py:311-324, 412-417,
\* 489-499).
THEOREM AnswersAreRecorded == Spec => []AnswerIsTheEntry
<1>1. TablesInv /\ AnswerInv => AnswerIsTheEntry
  <2> SUFFICES ASSUME TablesInv, AnswerInv, NEW p \in Proc, pc[p] = "return"
               PROVE  LET row == rows[receipt[p]]
                      IN  /\ \A s \in 1..Len(rows) : rows[s].key = call[p].request.key <=> s = receipt[p]
                          /\ row.type = call[p].request.type
                          /\ row.payload.candidate = call[p].request.payload.candidate
                          /\ row.payload.token = call[p].request.payload.token
                          /\ row.payload.decision = AnsweredDecision(p)
    BY DEF AnswerIsTheEntry
  <2> DEFINE row == rows[receipt[p]]
             r == call[p].request
  <2>1. /\ receipt[p] \in 1..Len(rows) /\ RecordsEvaluation(r) /\ row.key = r.key
        /\ row.type = r.type /\ row.context = r.context
        /\ r.type # "EVALUATED_DECISION" => row.payload = r.payload
    BY DEF AnswerInv, Answering, Answers, SameRequest
  <2>2. RecordsEvaluation(row)
    BY <2>1 DEF TablesInv, TablesOK, EvaluationsOK
  <2>3. \A s \in 1..Len(rows) : rows[s].key = r.key <=> s = receipt[p]
    BY <2>1 DEF TablesInv, TablesOK, KeysUnique
  <2>4. row.payload.candidate = r.payload.candidate /\ row.payload.token = r.payload.token
    BY <2>1, <2>2, ContextAssumption DEF RecordsEvaluation
  <2>5. row.payload.decision = AnsweredDecision(p)
    BY DEF AnsweredDecision
  <2>6. QED
    BY <2>1, <2>3, <2>4, <2>5
<1>2. QED
  BY <1>1, TablesInvariant, AnswersInvariant, PTL

-----------------------------------------------------------------------------
(* Truncation. A hash stands for the history it was computed from (Hash in          *)
(* LedgerChain.tla): an anchor covers an acknowledged receipt if the history of the  *)
(* receipt is a head of the history of the anchor.                                   *)

HeadOf(g, h) == Len(g) <= Len(h) /\ \A i \in 1..Len(g) : g[i] = h[i]

LEMMA HeadsCompose ==
  ASSUME NEW f \in Hash, NEW g \in Hash, NEW h \in Hash, HeadOf(f, g), HeadOf(g, h)
  PROVE  HeadOf(f, h)
BY DEF HeadOf, Hash

\* Two heads of one history that are equally long are the same.
LEMMA HeadsAgree ==
  ASSUME NEW f \in Hash, NEW g \in Hash, NEW h \in Hash, HeadOf(f, h), HeadOf(g, h),
         Len(f) = Len(g)
  PROVE  f = g
BY DEF HeadOf, Hash

\* The hash at a sequence stands for that many entries, and each is a head of the later
\* ones.
HashesOK(rs) ==
  \A s \in 0..Len(rs) :
    /\ Len(HashAt(rs, s)) = s
    /\ \A u \in s..Len(rs) : HeadOf(HashAt(rs, s), HashAt(rs, u))

LEMMA InsertionKeepsHashes ==
  ASSUME NEW rs \in Seq(Row), HashesOK(rs), NEW ps, NEW r, NEW rs2, NEW ps2,
         Insertion(rs, ps, r, rs2, ps2)
  PROVE  HashesOK(rs2)
<1> DEFINE n == Len(rs) + 1
<1>1. /\ rs2 \in Seq(Row) /\ Len(rs) \in Nat /\ Len(rs2) = n
      /\ \A s \in 1..Len(rs) : rs2[s] = rs[s]
  BY InsertedRows
<1>2. \A s \in 0..n : HashAt(rs2, s) \in Hash
  BY <1>1, HashAtType
<1>3. \A s \in 0..Len(rs) : HashAt(rs2, s) = HashAt(rs, s)
  BY <1>1 DEF HashAt
<1>4. \E body : HashAt(rs2, n) = Append(HashAt(rs, Len(rs)), body)
  <2>1. PICK stamp \in Nat : rs2 = Append(rs, NewRow(rs, r, stamp))
    BY DEF Insertion
  <2>2. rs2[n] = NewRow(rs, r, stamp) /\ n # 0
    BY <1>1, <2>1
  <2>3. QED
    BY <2>2 DEF HashAt, NewRow, Linked, EntryHash
<1>5. HashAt(rs, Len(rs)) \in Hash
  BY HashAtType
<1>6. Len(HashAt(rs, Len(rs))) = Len(rs)
  BY <1>1 DEF HashesOK
<1>7. Len(HashAt(rs2, n)) = n /\ HeadOf(HashAt(rs, Len(rs)), HashAt(rs2, n))
  BY <1>4, <1>5, <1>6 DEF HeadOf, Hash
<1>8. HeadOf(HashAt(rs2, n), HashAt(rs2, n))
  BY <1>1, <1>7 DEF HeadOf
<1>9. ASSUME NEW s \in 0..Len(rs) PROVE HeadOf(HashAt(rs2, s), HashAt(rs2, n))
  <2>1. HeadOf(HashAt(rs, s), HashAt(rs, Len(rs)))
    BY <1>1 DEF HashesOK
  <2>2. HashAt(rs, s) \in Hash /\ HashAt(rs2, n) \in Hash
    BY <1>1, <1>2, HashAtType
  <2>3. QED
    BY <1>3, <1>5, <1>7, <2>1, <2>2, HeadsCompose
<1>10. ASSUME NEW s \in 0..n, NEW u \in s..n
       PROVE  Len(HashAt(rs2, s)) = s /\ HeadOf(HashAt(rs2, s), HashAt(rs2, u))
  <2>1. CASE s = n
    BY <1>1, <1>7, <1>8, <2>1
  <2>2. CASE s # n /\ u = n
    BY <1>1, <1>3, <1>9, <2>2 DEF HashesOK
  <2>3. CASE u # n
    <3>1. s \in 0..Len(rs) /\ u \in 0..Len(rs) /\ u \in s..Len(rs)
      BY <1>1, <2>3
    <3>2. QED
      BY <1>3, <3>1 DEF HashesOK
  <2>4. QED
    BY <2>1, <2>2, <2>3
<1>11. QED
  BY <1>1, <1>10 DEF HashesOK

\* An anchor of a chain stands for a head of what the chain's tail stands for.
LEMMA VerifiedIsHead ==
  ASSUME NEW rs \in Seq(Row), HashesOK(rs), NEW a \in Anchor, AnchorVerified(rs, a)
  PROVE  HeadOf(a.entry_hash, TailOf(rs).entry_hash)
<1>1. CASE AnchorMatches(rs, a)
  BY <1>1 DEF AnchorMatches, HashesOK, TailOf
<1>2. CASE a = NoAnchor
  <2>1. a.entry_hash = <<>>
    BY <1>2 DEF NoAnchor, ZeroHash
  <2>2. TailOf(rs).entry_hash \in Hash
    BY TailMatches DEF Anchor
  <2>3. QED
    BY <2>1, <2>2 DEF HeadOf, Hash
<1>3. QED
  BY <1>1, <1>2 DEF AnchorVerified

\* Nobody is in a call, or opens the ledger, while somebody opens it.
SerialInv ==
  \A p, q \in Proc : initLock = p /\ q # p => pc[q] \in {"closed", "ready"}

\* Who is about to write the anchor writes the tail of the chain as it is, over an anchor
\* of this chain; and who is about to return has an anchor at or beyond its receipt.
Covered(p) ==
  /\ Writing(p) => tail[p] = TailOf(rows) /\ AnchorVerified(rows, anchor)
  /\ pc[p] = "return" => AnchorMatches(rows, anchor) /\ receipt[p] <= anchor.sequence

\* What was acknowledged is a head of what the anchor stands for.
AckInv ==
  /\ acknowledged.sequence = Len(acknowledged.entry_hash)
  /\ HeadOf(acknowledged.entry_hash, anchor.entry_hash)

HashesInv == HashesOK(rows) /\ HashesOK(backup.rows)
CoveredInv == \A p \in Proc : Covered(p)

TruncationInv == HashesInv /\ SerialInv /\ CoveredInv /\ AckInv

LEMMA InitTruncation == Init => TruncationInv
<1> SUFFICES ASSUME Init PROVE TruncationInv
  OBVIOUS
<1>1. HashesOK(<<>>)
  BY DEF HashesOK, HashAt, ZeroHash, HeadOf
<1>2. AckInv
  BY DEF Init, AckInv, HeadOf, TailOf, NoAnchor, HashAt, ZeroHash
<1>3. QED
  BY <1>1, <1>2, LedgerAssumption
     DEF Init, TruncationInv, HashesInv, SerialInv, CoveredInv, Covered, Writing

LEMMA NextHashes == IInv /\ HashesInv /\ [Next]_vars => HashesInv'
<1> SUFFICES ASSUME IInv, HashesInv, [Next]_vars PROVE HashesInv'
  OBVIOUS
<1>1. TypeOK /\ StageInv
  BY DEF IInv
<1>2. HashesOK(rows')
  <2>1. CASE UNCHANGED dbVars
    BY <2>1 DEF HashesInv, dbVars
  <2>2. CASE \E r : Insertion(rows, promo, r, rows', promo')
    BY <1>1, <2>2, InsertionKeepsHashes DEF HashesInv, TypeOK
  <2>3. CASE Restore
    BY <2>3 DEF HashesInv, Restore
  <2>4. QED
    BY <1>1, <2>1, <2>2, <2>3, TableSteps
<1>3. backup' = backup \/ backup' = [rows |-> rows, promo |-> promo]
  BY <1>1, CopySteps
<1>4. QED
  BY <1>2, <1>3 DEF HashesInv

LEMMA NextSerial ==
  SerialOpen /\ IInv /\ LockInv /\ SerialInv /\ [Next]_vars => SerialInv'
<1> SUFFICES ASSUME SerialOpen, IInv, LockInv, SerialInv, [Next]_vars,
                    NEW p \in Proc, NEW q \in Proc, initLock' = p, q # p
             PROVE  pc'[q] \in {"closed", "ready"}
  BY DEF SerialInv
<1>1. TypeOK /\ StageInv
  BY DEF IInv
<1>2. ASSUME NEW x \in Proc, OpenLock(x)
      PROVE  pc'[q] \in {"closed", "ready"}
  <2>1. x = p /\ pc[q] \in {"closed", "ready"}
    BY <1>2 DEF OpenLock, Quiescent
  <2>2. QED
    BY <1>1, <1>2, <2>1 DEF OpenLock, Goto, TypeOK
<1>3. ASSUME NEW x \in Proc, StartCall(x) \/ Continue(x) \/ Crash(x)
      PROVE  pc'[q] \in {"closed", "ready"}
  <2>1. initLock = p
    <3> USE LedgerAssumption DEF lockVars, Release
    <3>1. CASE Commits(x)
      BY <3>1 DEF Commits, ReplayCall, InsertCall
    <3>2. CASE ~Commits(x)
      BY <1>1, <1>3, <3>2, CallCommits
         DEF Continue, RollbackRead, Recover, RecoverRefuse, RecoverCurrent,
             RecoverBehind, RollbackRefused, UpdateAnchor, UpdateSkip, UpdateNeeded, UpdateWrite,
             AfterUpdate, SyncBegin, Return, Fail, Crash
    <3>3. QED
      BY <3>1, <3>2
  <2>2. pc[q] \in {"closed", "ready"}
    BY <2>1 DEF SerialInv
  <2>3. CASE x # q
    BY <1>1, <1>3, <2>2, <2>3, OthersUnmoved DEF Unmoved
  <2>4. CASE x = q
    <3>1. ~StartCall(q) /\ ~RollbackPromotion(q)
      BY <2>1, LedgerAssumption, CallBegins DEF RollbackRead, RollbackPromotion
    <3>2. pc[q] = "closed" \/ pc[q] = "ready"
      BY <2>2
    <3>3. ~Continue(q)
      BY <3>1, <3>2 DEF Continue, Recover, RecoverRefuse, RecoverCurrent, RecoverBehind,
                        UpdateAnchor, UpdateSkip, UpdateNeeded, UpdateWrite, RollbackRefused,
                        SyncBegin, Return, Fail
    <3>4. Crash(q)
      BY <1>3, <2>4, <3>1, <3>3
    <3>5. QED
      BY <1>1, <3>4 DEF Crash, Goto, TypeOK
  <2>5. QED
    BY <2>3, <2>4
<1>4. CASE Backup \/ Restore \/ UNCHANGED vars
  BY <1>4 DEF Backup, Restore, vars, lockVars, SerialInv
<1>5. QED
  BY <1>2, <1>3, <1>4 DEF Next

\* A step that writes the anchor writes the tail of the chain over an anchor of it, and
\* no step writes both the anchor and the tables.
LEMMA AnchorSteps ==
  ASSUME IInv, CoveredInv, [Next]_vars
  PROVE  \/ anchor' = anchor
         \/ UNCHANGED dbVars /\ anchor' = TailOf(rows) /\ AnchorVerified(rows, anchor)
<1>1. TypeOK /\ StageInv
  BY DEF IInv
<1>2. ASSUME NEW p \in Proc, Fail(p) \/ UpdateAnchor(p)
      PROVE  \/ anchor' = anchor
             \/ UNCHANGED dbVars /\ anchor' = TailOf(rows) /\ AnchorVerified(rows, anchor)
  <2>1. \/ anchor' = anchor
        \/ UNCHANGED dbVars /\ Writing(p) /\ anchor' = tail[p]
    BY <1>2 DEF Fail, UpdateAnchor, UpdateSkip, UpdateNeeded, UpdateWrite, Writing
  <2>2. QED
    BY <2>1 DEF CoveredInv, Covered
<1>3. ASSUME NEW p \in Proc, OpenLock(p) \/ StartCall(p) \/ Continue(p) \/ Crash(p),
             ~Fail(p), ~UpdateAnchor(p)
      PROVE  anchor' = anchor
  <2>1. CASE Commits(p)
    BY <2>1 DEF Commits, ReplayCall, InsertCall
  <2>2. CASE ~Commits(p)
    BY <1>1, <1>3, <2>2, CallCommits
       DEF Continue, OpenLock, RollbackRead, Recover, RecoverRefuse, RecoverCurrent,
           RecoverBehind, RollbackRefused, SyncBegin, Return, Crash
  <2>3. QED
    BY <2>1, <2>2
<1>4. CASE Backup \/ Restore \/ UNCHANGED vars
  BY <1>4 DEF Backup, Restore, vars
<1>5. QED
  BY <1>2, <1>3, <1>4 DEF Next, Continue

\* Serially, nobody is about to write the anchor while an entry is inserted.
LEMMA NobodyWrites ==
  ASSUME SerialOpen, LockInv, NEW p \in Proc, (StartCall(p) \/ RollbackPromotion(p)) /\ ~RollbackRead(p)
  PROVE  \A q \in Proc : ~Writing(q)
BY CallBegins, LedgerAssumption DEF LockInv, Locks

LEMMA CoveredStays ==
  ASSUME IInv, SerialOpen, LockInv, CoveredInv, [Next]_vars, ~Restore,
         NEW q \in Proc, pc'[q] = pc[q], tail'[q] = tail[q], receipt'[q] = receipt[q]
  PROVE  Covered(q)'
<1>1. TypeOK /\ StageInv /\ Covered(q)
  BY DEF IInv, CoveredInv
<1>2. CASE UNCHANGED dbVars
  <2>1. CASE anchor' = anchor
    BY <1>1, <1>2, <2>1 DEF Covered, Writing, dbVars
  <2>2. CASE anchor' = TailOf(rows)
    <3>1. AnchorMatches(rows', anchor') /\ rows' = rows
      BY <1>1, <1>2, <2>2, TailMatches DEF TypeOK, dbVars
    <3>2. receipt'[q] <= anchor'.sequence
      BY <1>1, <2>2 DEF StageInv, Stage, TailOf, TypeOK
    <3>3. QED
      BY <1>1, <3>1, <3>2 DEF Covered, Writing, AnchorVerified
  <2>3. QED
    BY <2>1, <2>2, AnchorSteps
<1>3. CASE ~UNCHANGED dbVars
  <2>1. PICK r : Insertion(rows, promo, r, rows', promo')
    BY <1>1, <1>3, TableSteps
  <2>2. anchor' = anchor
    BY <1>3, AnchorSteps
  <2>3. ~Writing(q)
    BY <1>1, <1>3, TablesChangeByCalls, NobodyWrites
  <2>4. ASSUME AnchorMatches(rows, anchor) PROVE AnchorMatches(rows', anchor)
    <3>1. PICK stamp \in Nat : rows' = Append(rows, NewRow(rows, r, stamp))
      BY <2>1 DEF Insertion
    <3>2. r \in Request /\ rows \in Seq(Row) /\ anchor \in Anchor
      BY <1>1, <2>1 DEF Insertion, TypeOK
    <3>3. NewRow(rows, r, stamp) \in Row
      BY <3>2, NewRowType
    <3>4. QED
      BY <2>4, <3>1, <3>2, <3>3, MatchesAppend
  <2>5. QED
    BY <1>1, <2>2, <2>3, <2>4 DEF Covered, Writing
<1>4. QED
  BY <1>2, <1>3

LEMMA NextCovered ==
  IInv /\ SerialOpen /\ LockInv /\ CoveredInv /\ [Next]_vars => CoveredInv'
<1> SUFFICES ASSUME IInv, SerialOpen, LockInv, CoveredInv, [Next]_vars PROVE CoveredInv'
  OBVIOUS
<1>1. TypeOK /\ StageInv
  BY DEF IInv
<1>2. CASE Restore \/ Backup
  BY <1>2 DEF Restore, Backup, Quiescent, CoveredInv, Covered, Writing
<1>3. CASE UNCHANGED vars
  BY <1>3 DEF vars, CoveredInv, Covered, Writing
<1>4. ASSUME NEW p \in Proc, OpenLock(p) \/ StartCall(p) \/ Continue(p) \/ Crash(p), ~Restore
      PROVE  CoveredInv'
  <2>1. ASSUME NEW q \in Proc, q # p PROVE Covered(q)'
    BY <1>1, <1>4, <2>1, OthersUnmoved, CoveredStays DEF Unmoved
  <2>2. Covered(p)'
    <3> USE <1>1 DEF TypeOK, Goto
    <3>1. CASE pc'[p] \notin {"update_read", "update_write", "return"}
      BY <3>1 DEF Covered, Writing
    <3>2. CASE RecoverBehind(p) \/ SyncBegin(p)
      BY <3>2 DEF RecoverBehind, SyncBegin, VerifyOK, AnchorVerified, Covered, Writing, dbVars
    <3>3. CASE UpdateNeeded(p)
      BY <3>3 DEF UpdateNeeded, CoveredInv, Covered, Writing, dbVars, callVars
    <3>4. CASE (UpdateSkip(p) \/ UpdateWrite(p)) /\ pc'[p] = "return"
      <4>1. /\ tail[p] = TailOf(rows) /\ AnchorVerified(rows, anchor) /\ rows' = rows
            /\ receipt'[p] = receipt[p] /\ receipt[p] <= Len(rows)
        BY <3>4 DEF UpdateSkip, UpdateWrite, CoveredInv, Covered, Writing, StageInv, Stage,
                    dbVars, callVars
      <4>2. AnchorMatches(rows, anchor') /\ anchor'.sequence >= Len(rows)
        <5>1. CASE UpdateWrite(p)
          BY <4>1, <5>1, TailMatches DEF UpdateWrite, TailOf
        <5>2. CASE UpdateSkip(p)
          BY <4>1, <5>2, TailMatches DEF UpdateSkip, TailOf, AnchorVerified, NoAnchor, Anchor
        <5>3. QED
          BY <3>4, <5>1, <5>2
      <4>3. anchor'.sequence \in Int
        BY <4>2 DEF AnchorMatches
      <4>4. QED
        BY <3>4, <4>1, <4>2, <4>3 DEF Covered, Writing
    <3>5. \/ pc'[p] \notin {"update_read", "update_write", "return"}
          \/ RecoverBehind(p) \/ SyncBegin(p) \/ UpdateNeeded(p)
          \/ (UpdateSkip(p) \/ UpdateWrite(p)) /\ pc'[p] = "return"
      <4>1. CASE Commits(p)
        BY <4>1 DEF Commits, ReplayCall, InsertCall
      <4>2. CASE ~Commits(p)
        BY <1>4, <4>2, CallCommits
           DEF Continue, OpenLock, RollbackRead, Recover, RecoverRefuse, RecoverCurrent,
               RollbackRefused, UpdateAnchor, UpdateSkip, UpdateWrite, AfterUpdate,
               Return, Fail, Crash
      <4>3. QED
        BY <4>1, <4>2
    <3>6. QED
      BY <3>1, <3>2, <3>3, <3>4, <3>5
  <2>3. QED
    BY <2>1, <2>2 DEF CoveredInv
<1>5. QED
  BY <1>2, <1>3, <1>4 DEF Next

LEMMA NextAck ==
  IInv /\ HashesInv /\ CoveredInv /\ AckInv /\ [Next]_vars => AckInv'
<1> SUFFICES ASSUME IInv, HashesInv, CoveredInv, AckInv, [Next]_vars PROVE AckInv'
  OBVIOUS
<1>1. TypeOK /\ StageInv
  BY DEF IInv
<1>2. rows \in Seq(Row) /\ anchor \in Anchor /\ acknowledged \in Anchor /\ HashesOK(rows)
  BY <1>1 DEF TypeOK, HashesInv
<1>3. anchor.entry_hash \in Hash /\ acknowledged.entry_hash \in Hash
  BY <1>2 DEF Anchor
<1>4. CASE acknowledged' = acknowledged
  <2>1. CASE anchor' = anchor
    BY <1>4, <2>1 DEF AckInv
  <2>2. CASE anchor' = TailOf(rows) /\ AnchorVerified(rows, anchor)
    <3>1. HeadOf(anchor.entry_hash, anchor'.entry_hash)
      BY <1>2, <2>2, VerifiedIsHead
    <3>2. anchor'.entry_hash \in Hash
      BY <1>2, <2>2, TailMatches DEF Anchor
    <3>3. HeadOf(acknowledged.entry_hash, anchor'.entry_hash)
      BY <1>3, <3>1, <3>2, HeadsCompose DEF AckInv
    <3>4. QED
      BY <1>4, <3>3 DEF AckInv
  <2>3. QED
    BY <2>1, <2>2, AnchorSteps
<1>5. CASE acknowledged' # acknowledged
  <2>1. PICK p \in Proc : Return(p)
    <3>1. ASSUME NEW p \in Proc, OpenLock(p) \/ StartCall(p) \/ Continue(p) \/ Crash(p), ~Return(p)
          PROVE  acknowledged' = acknowledged
      <4>1. CASE Commits(p)
        BY <4>1 DEF Commits, ReplayCall, InsertCall
      <4>2. CASE ~Commits(p)
        BY <1>1, <3>1, <4>2, CallCommits
           DEF Continue, OpenLock, RollbackRead, Recover, RecoverRefuse, RecoverCurrent,
               RecoverBehind, RollbackRefused, UpdateAnchor, UpdateSkip, UpdateNeeded,
               UpdateWrite, SyncBegin, Fail, Crash
      <4>3. QED
        BY <4>1, <4>2
    <3>2. QED
      BY <1>5, <3>1 DEF Next, Backup, Restore, vars
  <2> DEFINE s == receipt[p]
             u == anchor.sequence
  <2>2. /\ acknowledged' = [sequence |-> s, entry_hash |-> HashAt(rows, s)]
        /\ anchor' = anchor
    BY <1>5, <2>1 DEF Return
  <2>3. AnchorMatches(rows, anchor) /\ s <= u /\ s \in Nat
    BY <1>1, <2>1 DEF Return, CoveredInv, Covered, TypeOK
  <2>4. u \in 0..Len(rows) /\ anchor.entry_hash = HashAt(rows, u)
    BY <2>3 DEF AnchorMatches
  <2>5. s \in 0..Len(rows) /\ u \in s..Len(rows)
    BY <1>2, <2>3, <2>4
  <2>6. Len(HashAt(rows, s)) = s /\ HeadOf(HashAt(rows, s), HashAt(rows, u))
    BY <1>2, <2>5 DEF HashesOK
  <2>7. QED
    BY <2>2, <2>4, <2>6 DEF AckInv
<1>6. QED
  BY <1>4, <1>5

THEOREM TruncationInvariant == SerialOpen => (Spec => []TruncationInv)
<1> SUFFICES ASSUME SerialOpen PROVE Spec => []TruncationInv
  OBVIOUS
<1>1. Init => TruncationInv
  BY InitTruncation
<1>2. IInv /\ LockInv /\ TruncationInv /\ [Next]_vars => TruncationInv'
  BY NextHashes, NextSerial, NextCovered, NextAck DEF TruncationInv
<1>3. QED
  BY <1>1, <1>2, IInvariant, LocksInvariant, PTL DEF Spec

\* When the ledger is opened only while nobody uses it, an older database put back under
\* the anchor, however often, cannot hide an acknowledged entry: verify() passes only
\* while the newest receipt a caller holds is in the chain with its hash
\* (ledger.py:764-779, 828-845).
THEOREM TruncationShows == SerialOpen => (Spec => []NoUndetectedTruncation)
<1>1. IInv /\ TruncationInv => NoUndetectedTruncation
  <2> SUFFICES ASSUME IInv, TruncationInv, VerifyOK(rows, promo, anchor)
               PROVE  /\ acknowledged.sequence \in 0..Len(rows)
                      /\ acknowledged.entry_hash = HashAt(rows, acknowledged.sequence)
    BY DEF NoUndetectedTruncation
  <2> DEFINE a == acknowledged.entry_hash
             s == acknowledged.sequence
             u == anchor.sequence
  <2>1. /\ rows \in Seq(Row) /\ HashesOK(rows) /\ AnchorVerified(rows, anchor)
        /\ anchor.entry_hash \in Hash /\ a \in Hash /\ s = Len(a) /\ HeadOf(a, anchor.entry_hash)
    BY DEF IInv, TypeOK, TruncationInv, HashesInv, AckInv, VerifyOK, Anchor
  <2>2. CASE AnchorMatches(rows, anchor)
    <3>1. u \in 0..Len(rows) /\ anchor.entry_hash = HashAt(rows, u) /\ Len(HashAt(rows, u)) = u
      BY <2>1, <2>2 DEF AnchorMatches, HashesOK
    <3>2. s \in 0..Len(rows) /\ u \in s..Len(rows)
      BY <2>1, <3>1 DEF HeadOf, Hash
    <3>3. Len(HashAt(rows, s)) = s /\ HeadOf(HashAt(rows, s), HashAt(rows, u))
      BY <2>1, <3>2 DEF HashesOK
    <3>4. HashAt(rows, s) \in Hash
      BY <2>1, <3>2, HashAtType
    <3>5. a = HashAt(rows, s)
      BY <2>1, <3>1, <3>3, <3>4, HeadsAgree
    <3>6. QED
      BY <3>2, <3>5
  <2>3. CASE anchor = NoAnchor /\ rows = <<>>
    <3>1. a = <<>> /\ s = 0
      BY <2>1, <2>3 DEF NoAnchor, ZeroHash, HeadOf, Hash
    <3>2. QED
      BY <2>3, <3>1 DEF HashAt, ZeroHash
  <2>4. QED
    BY <2>1, <2>2, <2>3 DEF AnchorVerified
<1>2. QED
  BY <1>1, TruncationInvariant, IInvariant, PTL
=============================================================================
