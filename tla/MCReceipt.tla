----------------------------- MODULE MCReceipt -----------------------------
(* Receipt.tla on a small instance: a process that writes and one that      *)
(* exports, chains of three entries of which two fit into a receipt, one     *)
(* older database put back.                                                  *)
EXTENDS Receipt, TLC

CONSTANTS c1, x1, first1

MCCandidateOf == [d \in Decision |-> c1]
MCContextOf   == [d \in Decision |-> x1]

\* The keys are numbers, taken up in order (see MCLedger.tla).
KeysInOrder == \A s \in 1..Len(rows) : rows[s].key = s

\* What an evaluation decides matters once an older database is put back: the entries
\* that follow may be others than those that were lost.
OtherAfterRestore ==
  restores = 0 => \A s \in 1..Len(rows) : rows[s].payload.decision = first1
=============================================================================
