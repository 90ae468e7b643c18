----------------------------- MODULE Promotion -----------------------------
(***************************************************************************)
(* What the ledger promises about promotions, whatever its storage does:   *)
(* a candidate is planned once, on a recorded decision that is ready for   *)
(* it, and moves on from there one state and one fencing token at a time.  *)
(* Ledger.tla is shown to implement it.                                    *)
(***************************************************************************)
EXTENDS Integers

CONSTANTS Candidate, Decision, External, Ready, CandidateOf, NoDecision

VARIABLES
  recorded,  \* the decisions evaluated and recorded in the ledger
  state,     \* by candidate, "NONE" before there is a plan
  token,     \* by candidate, the fencing token the next transition must present
  decision   \* by candidate, the decision the plan rests on

vars == <<recorded, state, token, decision>>

Init ==
  /\ recorded = {}
  /\ state = [c \in Candidate |-> "NONE"]
  /\ token = [c \in Candidate |-> 0]
  /\ decision = [c \in Candidate |-> NoDecision]

\* A decision of the engine is recorded.
Record(d) ==
  /\ d \in Decision \ External
  /\ recorded' = recorded \cup {d}
  /\ UNCHANGED <<state, token, decision>>

Plan(c, d) ==
  /\ state[c] = "NONE"
  /\ d \in recorded \cap Ready
  /\ CandidateOf[d] = c
  /\ state' = [state EXCEPT ![c] = "PLANNED"]
  /\ token' = [token EXCEPT ![c] = 1]
  /\ decision' = [decision EXCEPT ![c] = d]
  /\ UNCHANGED recorded

\* One step of a candidate that has a plan.
Move(c, from, to) ==
  /\ state[c] \in from
  /\ state' = [state EXCEPT ![c] = to]
  /\ token' = [token EXCEPT ![c] = @ + 1]
  /\ UNCHANGED <<recorded, decision>>

Next ==
  \/ \E d \in Decision : Record(d)
  \/ \E c \in Candidate :
       \/ \E d \in Decision : Plan(c, d)
       \/ Move(c, {"PLANNED"}, "APPLIED")
       \/ Move(c, {"APPLIED"}, "VERIFIED")
       \/ Move(c, {"APPLIED", "VERIFIED"}, "ROLLED_BACK")

Spec == Init /\ [][Next]_vars
=============================================================================
