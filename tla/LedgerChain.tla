---------------------------- MODULE LedgerChain ----------------------------
(***************************************************************************)
(* The data of the decision ledger (release_gate/ledger.py): the rows of   *)
(* the table ledger_entries, the table promotion_state, the tail anchor    *)
(* file, the hash chain that ties them together, and DecisionLedger.verify *)
(* as a predicate over the three.                                          *)
(*                                                                         *)
(* Every operator here is a function of its arguments; Ledger.tla holds    *)
(* the processes that change the data.                                     *)
(***************************************************************************)
EXTENDS Integers, Sequences

CONSTANTS
  Key,          \* idempotency keys (the digests the table stores)
  Candidate,    \* candidate digests
  Context,      \* what evaluate_and_record binds: evidence, policy, trust, waivers
  Decision,     \* decision digests
  External,     \* the decisions DecisionEngine does not compute in this ledger
  Ready,        \* the decisions whose production_ready is true
  CandidateOf,  \* the candidate a decision is about
  ContextOf,    \* the context a decision was computed in
  NoContext,    \* the empty request context
  NoDecision    \* a payload without a decision_digest

ASSUME DecisionAssumption ==
  /\ External \subseteq Decision
  /\ Ready \subseteq Decision
  /\ CandidateOf \in [Decision -> Candidate]
  /\ ContextOf \in [Decision -> Context]
  /\ NoContext \notin Context
  /\ NoDecision \notin Decision

\* The request that evaluate_and_record binds a key to holds the candidate's digest
\* beside those of the evidence, the policy, the trust and the waivers: decisions of one
\* context are about one candidate.
ASSUME ContextAssumption ==
  \A d, e \in Decision : ContextOf[d] = ContextOf[e] => CandidateOf[d] = CandidateOf[e]

-----------------------------------------------------------------------------
(* Entries, and the request an idempotency key is bound to.                *)

PromotionType == {"PROMOTION_PLANNED", "PROMOTION_APPLIED",
                  "PROMOTION_VERIFIED", "PROMOTION_ROLLED_BACK"}

\* The entry types append() refuses: a governed operation produces them.
Reserved == {"EVALUATED_DECISION"} \cup PromotionType

EntryType == {"NOTE", "IMPORTED_DECISION"} \cup Reserved

Payload == [candidate : Candidate,
            decision  : Decision \cup {NoDecision},
            token     : Nat]

Request == [key     : Key,
            type    : EntryType,
            context : Context \cup {NoContext},
            payload : Payload]

\* Equality of the request digests, entry types and payload digests of a
\* stored row and of a call that reuses its key. The digest of an evaluation
\* covers its context and not the decision it comes to (context_idempotent).
SameRequest(row, r) ==
  /\ row.type = r.type
  /\ row.context = r.context
  /\ r.type # "EVALUATED_DECISION" => row.payload = r.payload

-----------------------------------------------------------------------------
(* The hash chain.                                                         *)

\* What the hash of an entry covers, beside the previous hash. created_at tells
\* two otherwise equal entries of different times apart.
Body == [sequence : Nat, key : Key, type : EntryType,
         context : Context \cup {NoContext}, payload : Payload, created_at : Nat]

\* SHA-256 is collision free: a digest stands for all it was computed from,
\* which is the body of the entry and of every entry before it.
Hash == Seq(Body)
ZeroHash == <<>>
EntryHash(prev, body) == Append(prev, body)

Row == [key : Key, type : EntryType, context : Context \cup {NoContext},
        payload : Payload, created_at : Nat, previous_hash : Hash, entry_hash : Hash]

\* The hashed fields of a row or request e at sequence s.
BodyOf(e, s, stamp) ==
  [sequence |-> s, key |-> e.key, type |-> e.type, context |-> e.context,
   payload |-> e.payload, created_at |-> stamp]

\* The entry_hash at sequence s of a chain, that of the empty chain at 0.
HashAt(rs, s) == IF s = 0 THEN ZeroHash ELSE rs[s].entry_hash

\* The row that an insertion of request r adds at the tail of the chain rs.
Linked(rs, r, stamp, prev) ==
  [key |-> r.key, type |-> r.type, context |-> r.context, payload |-> r.payload,
   created_at |-> stamp, previous_hash |-> prev,
   entry_hash |-> EntryHash(prev, BodyOf(r, Len(rs) + 1, stamp))]
NewRow(rs, r, stamp) == Linked(rs, r, stamp, HashAt(rs, Len(rs)))

\* verify()'s walk along the chain: every link and every hash recomputed.
ChainOK(rs) ==
  \A s \in 1..Len(rs) :
    /\ rs[s].previous_hash = HashAt(rs, s - 1)
    /\ rs[s].entry_hash = EntryHash(rs[s].previous_hash, BodyOf(rs[s], s, rs[s].created_at))

-----------------------------------------------------------------------------
(* The tail anchor.                                                        *)

\* The sequence and hash at the tail of a chain, and a file that is absent.
TailOf(rs) == [sequence |-> Len(rs), entry_hash |-> HashAt(rs, Len(rs))]
NoAnchor   == [sequence |-> -1, entry_hash |-> ZeroHash]
Anchor     == [sequence : Nat \cup {-1}, entry_hash : Hash]

\* _assert_anchor_matches_tail: the anchor names a state of the chain's history.
AnchorMatches(rs, a) ==
  /\ a.sequence \in 0..Len(rs)
  /\ a.entry_hash = HashAt(rs, a.sequence)

-----------------------------------------------------------------------------
(* The promotion table, and verify()'s replay of the entries into it.      *)

PromotionState == {"PLANNED", "APPLIED", "VERIFIED", "ROLLED_BACK"}

Promotion == [state           : PromotionState \cup {"NONE"},
              fencing_token   : Nat,
              decision        : Decision \cup {NoDecision},
              plan_sequence   : Nat,
              updated_sequence : Nat]

\* No row of promotion_state.
NoPromotion == [state |-> "NONE", fencing_token |-> 0, decision |-> NoDecision,
                plan_sequence |-> 0, updated_sequence |-> 0]

StateOf_Misspelt == [PROMOTION_PLANNED |-> "PLANNED", PROMOTION_APPLIED |-> "APPLIED",
                     PROMOTION_VERIFIED |-> "VERIFIED", PROMOTION_ROLLED_BACK |-> "ROLLEDBACK"]
StateOf == [PROMOTION_PLANNED |-> "PLANNED", PROMOTION_APPLIED |-> "APPLIED",
            PROMOTION_VERIFIED |-> "VERIFIED", PROMOTION_ROLLED_BACK |-> "ROLLED_BACK"]

\* The states a replayed transition may leave.
ReplayAllowed == [PROMOTION_APPLIED     |-> {"PLANNED"},
                  PROMOTION_VERIFIED    |-> {"APPLIED"},
                  PROMOTION_ROLLED_BACK |-> {"APPLIED", "VERIFIED"}]

\* The envelope of an evaluation agrees with the decision it carries.
EnvelopeOK(row) ==
  row.type = "EVALUATED_DECISION" =>
    /\ row.payload.decision # NoDecision
    /\ row.payload.candidate = CandidateOf[row.payload.decision]
    /\ row.context = ContextOf[row.payload.decision]

\* Decision d was evaluated into an entry below sequence s.
EvaluatedBefore(rs, s, d) ==
  \E e \in 1..(s - 1) : rs[e].type = "EVALUATED_DECISION" /\ rs[e].payload.decision = d

\* Row s of rs is a legal next transition of a candidate that stands at cur.
LegalReplay(cur, rs, s) ==
  LET row == rs[s]
  IN  IF row.type = "PROMOTION_PLANNED"
      THEN /\ cur = NoPromotion
           /\ EvaluatedBefore(rs, s, row.payload.decision)
           /\ row.payload.decision \in Ready
           /\ CandidateOf[row.payload.decision] = row.payload.candidate
      ELSE /\ cur.state \in ReplayAllowed[row.type]
           /\ row.payload.token = cur.fencing_token
           /\ row.payload.decision \in {NoDecision, cur.decision}

\* What the replay of row s makes of cur.
Replayed(cur, rs, s) ==
  LET row == rs[s]
  IN  IF row.type = "PROMOTION_PLANNED"
      THEN [state |-> "PLANNED", fencing_token |-> 1, decision |-> row.payload.decision,
            plan_sequence |-> s, updated_sequence |-> s]
      ELSE [cur EXCEPT !.state = StateOf[row.type],
                       !.fencing_token = @ + 1,
                       !.updated_sequence = s]

\* derived_states after each prefix of the chain.
Derived(rs) ==
  LET after[n \in 0..Len(rs)] ==
        IF n = 0 THEN [c \in Candidate |-> NoPromotion]
        ELSE IF rs[n].type \in PromotionType
             THEN [after[n - 1] EXCEPT ![rs[n].payload.candidate] = Replayed(@, rs, n)]
             ELSE after[n - 1]
  IN  after

\* Every entry is bound to what it claims and the replay is promotion_state.
ReplayOK(rs, ps) ==
  LET after == Derived(rs)
  IN  /\ \A s \in 1..Len(rs) :
           /\ EnvelopeOK(rs[s])
           /\ rs[s].type \in PromotionType =>
                LegalReplay(after[s - 1][rs[s].payload.candidate], rs, s)
      /\ after[Len(rs)] = ps

\* The anchor part of verify(): a missing anchor is right for an empty chain only.
AnchorVerified(rs, a) == AnchorMatches(rs, a) \/ (a = NoAnchor /\ rs = <<>>)

\* result["ok"] of verify().
VerifyOK(rs, ps, a) ==
  /\ ChainOK(rs)
  /\ ReplayOK(rs, ps)
  /\ AnchorVerified(rs, a)
=============================================================================
