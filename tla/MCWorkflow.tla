----------------------------- MODULE MCWorkflow -----------------------------
(* Workflow.tla on a small instance: two runs that are given one output       *)
(* directory, four requests about the change from "s0" to "s1", and five      *)
(* input files with some contents each.                                       *)
EXTENDS Workflow, TLC

CONSTANTS full, lab, unfit, halted, p1, p2

\* full is ready for production and carries a producer bundle; lab has LAB evidence,
\* which unfit does not allow; the merge gate finds halted degraded.
MCSnapshot(a) ==
  [expected_sha |-> "s0", observed_sha |-> "s0", merge_sha |-> "s1",
   ci |-> IF a = halted THEN [build |-> "success"]
          ELSE [build |-> "success", lint |-> "success"],
   required_ci |-> <<"build">>, optional_ci |-> <<"lint">>,
   tests_complete |-> TRUE, tests_passed |-> TRUE,
   secret_scan_complete |-> TRUE, secret_findings |-> 0, clean_tree |-> TRUE,
   changes |-> << [path |-> "a", additions |-> 2, deletions |-> 0, binary |-> FALSE] >>]

MCPolicy(a) == [max_changed_files |-> 1, max_changed_lines |-> 2, max_binary_files |-> 0,
                require_clean_tree |-> TRUE, require_tests |-> TRUE,
                require_secret_scan |-> TRUE]

Candidate == [base |-> "s0", head |-> "s1"]

MCBundle ==
  [candidate |-> Candidate, max_age |-> 1, require_quality |-> TRUE,
   entries |-> << [producer |-> "promptops", candidate |-> Candidate, path |-> "run",
                   digest |-> "run0",
                   artifacts |-> << [id |-> "input", path |-> "input"] >>] >>]

MCRequest(a) ==
  [candidate |-> Candidate, required_artifacts |-> {"wheel"}, required_suites |-> {"unit"},
   bindings |-> << [name |-> "wheel", path |-> "wheel"] >>, junit |-> <<"junit">>,
   state_path |-> "state", allow_lab |-> a = lab,
   bundle |-> IF a = full THEN MCBundle ELSE NoBundle,
   artifact_claims |-> {[name |-> "wheel", content |-> "wheel0"]},
   suite_claims |-> << [suite |-> "unit", total |-> 2, passed |-> 2, failed |-> 0, skipped |-> 0] >>,
   diff |-> {[path |-> "a", additions |-> 2, deletions |-> 0, binary |-> FALSE]}]

\* The release evidence is too old after time 1.
MCJudge(a, t) == [ready |-> t <= 1, production |-> a \in {full, halted}]

MCPath == {"state", "wheel", "junit", "run", "input"}

MCContentAt(f) ==
  CASE f = "state" -> {"state0", "reformatted", "elsewhere"}
    [] f = "wheel" -> {"wheel0", "wheel1"}
    [] f = "junit" -> {"junit0", "junit1", "failing"}
    [] f = "run"   -> {"run0", "run1"}
    [] OTHER       -> {"input0", Unreadable}

MCFirstContent == [f \in MCPath |-> CASE f = "state" -> "state0" [] f = "wheel" -> "wheel0"
                                      [] f = "junit" -> "junit0" [] f = "run" -> "run0"
                                      [] OTHER -> "input0"]

MCShaIn(c) == IF c \in {"state0", "reformatted"} THEN "s0" ELSE "s9"

\* Two reports of the same results that differ in their bytes, and a failing one.
MCReport(c) ==
  CASE c \in {"junit0", "junit1"} ->
         << [name |-> "unit", cases |-> <<"passed", "passed">>, declared |-> 2] >>
    [] c = "failing" -> << [name |-> "unit", cases |-> <<"passed", "error">>, declared |-> NoCount] >>
    [] OTHER -> NotAReport

MCRunOf(c) ==
  IF c \notin {"run0", "run1"} THEN NotARun
  ELSE [product |-> "promptops", run |-> c, origin |-> "user_supplied",
        started |-> 0, finished |-> 1, request |-> "input0",
        quality |-> "passed", quality_state |-> "absent", execution_ok |-> TRUE,
        state |-> "completed", timed_out |-> FALSE, exit_code |-> 0,
        artifacts |-> << [id |-> "input", content |-> "input0"] >>]

MCForeign == {Missing, Content("s0", "edit")}

\* A state constraint: at most two things happen to the runs, and the second run
\* begins after the first, with the same request.
FewDisturbances ==
  /\ inputEdits + ticks + edits + crashes <= 2
  /\ stage[p2] # "idle" => stage[p1] # "idle"
  /\ asked[p1] # Missing /\ asked[p2] # Missing => asked[p1] = asked[p2]
=============================================================================
