------------------------------ MODULE MCLedger ------------------------------
(* Ledger.tla on small instances: the functions its constants need.         *)
EXTENDS Ledger, TLC

CONSTANTS c1, x1

\* One context, evaluated twice with different results, and a decision of another
\* ledger that claims to be ready for the same candidate.
MCCandidateOf == [d \in Decision |-> c1]
MCContextOf   == [d \in Decision |-> x1]

\* Keys are interchangeable, and so are processes. The keys are numbers, and of
\* two behaviours that differ in the names of the keys only the one that takes
\* them up in order is explored (a state constraint: cheaper than a symmetry set).
KeysInOrder == \A s \in 1..Len(rows) : rows[s].key = s

MCSymmetry == Permutations(Proc)
=============================================================================
