-------------------------- MODULE MCMergeTransaction ------------------------
(* MergeTransaction.tla on a small instance: four artifacts over the SHAs "s0" *)
(* and "s1".                                                                   *)
EXTENDS MergeTransaction, TLC

CONSTANTS forward, backward, degraded, blocked

MCOrigin == Content("s0", "origin")
MCForeign == {Missing, Content("s0", "edit"), Content("garbled", "edit")}

Base == [expected_sha |-> "s0", observed_sha |-> "s0", merge_sha |-> "s1",
         ci |-> [build |-> "success", lint |-> "success"],
         required_ci |-> <<"build">>, optional_ci |-> <<"lint">>,
         tests_complete |-> TRUE, tests_passed |-> TRUE,
         secret_scan_complete |-> TRUE, secret_findings |-> 0, clean_tree |-> TRUE,
         changes |-> << [path |-> "a", additions |-> 2, deletions |-> 0, binary |-> FALSE],
                        [path |-> "b", additions |-> 2, deletions |-> 0, binary |-> FALSE] >>]

\* forward is ready, backward undoes its merge and is ready too; degraded lacks the
\* optional check; blocked has more changed lines than its policy allows.
MCSnapshot(a) ==
  CASE a = forward  -> Base
    [] a = backward -> [Base EXCEPT !.expected_sha = "s1", !.observed_sha = "s1",
                                    !.merge_sha = "s0"]
    [] a = degraded -> [Base EXCEPT !.ci = [build |-> "success"]]
    [] OTHER        -> [Base EXCEPT !.changes[2].path = "c"]

MCPolicy(a) == [max_changed_files |-> 2,
                max_changed_lines |-> IF a = blocked THEN 3 ELSE 4,
                max_binary_files |-> 0,
                require_clean_tree |-> TRUE, require_tests |-> TRUE,
                require_secret_scan |-> TRUE]

MCSymmetry == Permutations(Proc) \cup Permutations(ReceiptPath)
=============================================================================
