----------------------------- MODULE MergeGate -----------------------------
(***************************************************************************)
(* The offline merge gate (safe_merge_gate/contract.py, gate.py): which    *)
(* snapshots and policies the contract accepts, and what evaluate() makes  *)
(* of them.  Texts, hashes and timestamps are model values; a digest of a  *)
(* value is the value.                                                     *)
(***************************************************************************)
EXTENDS Naturals, Sequences, FiniteSets, SequencesExt, FiniteSetsExt

CONSTANTS
  MaxChecks,     \* MAX_CHECKS
  MaxChanges,    \* MAX_CHANGES
  MaxFindings    \* MAX_FINDINGS

CheckState == {"success", "failure", "pending", "missing"}

\* A Change: a path, the lines added and deleted, and whether it is binary.
ChangeValid(c) == /\ c.additions \in Nat
                  /\ c.deletions \in Nat
                  /\ c.binary \in BOOLEAN

(* MergeSnapshot.__post_init__; ci is a function from some names to states, *)
(* and the two lists of names are sequences as they are given.              *)
SnapshotValid(s) ==
  /\ Cardinality(DOMAIN s.ci) <= MaxChecks
  /\ \A name \in DOMAIN s.ci : s.ci[name] \in CheckState
  /\ IsInjective(s.required_ci)
  /\ IsInjective(s.optional_ci)
  /\ Range(s.required_ci) \cap Range(s.optional_ci) = {}
  /\ {s.tests_complete, s.tests_passed,
      s.secret_scan_complete, s.clean_tree} \subseteq BOOLEAN
  /\ s.secret_findings <= MaxFindings
  /\ s.changes \in Seq(Range(s.changes)) /\ Len(s.changes) <= MaxChanges
  /\ \A i \in DOMAIN s.changes : ChangeValid(s.changes[i])
  /\ IsInjective([i \in DOMAIN s.changes |-> s.changes[i].path])

GatePolicyValid(p) ==
  /\ {p.max_changed_files, p.max_changed_lines, p.max_binary_files} \subseteq Nat
  /\ {p.require_clean_tree, p.require_tests, p.require_secret_scan} \subseteq BOOLEAN

ChangeSet(s) == Range(s.changes)

\* MergeSnapshot.inventory: the totals the limits are about.
Inventory(s) ==
  [files         |-> Len(s.changes),
   changed_lines |-> MapThenSumSet(LAMBDA c : c.additions + c.deletions, ChangeSet(s)),
   binary_files  |-> Cardinality({c \in ChangeSet(s) : c.binary})]

\* Mutant: a check that did not report counts as a success.
Observed_Lenient(s, name) == IF name \in DOMAIN s.ci THEN s.ci[name] ELSE "success"

Observed(s, name) == IF name \in DOMAIN s.ci THEN s.ci[name] ELSE "missing"

Check(name, state, required) == [name |-> name, state |-> state, required |-> required]

Passed(name, ok, required) ==
  Check(<<name>>, IF ok THEN "success" ELSE "failure", required)

\* The checks evaluate() makes; their order says nothing, so they are a set.
Checks(s, p) ==
  {Check(<<"ci", name>>, Observed(s, name), TRUE) : name \in Range(s.required_ci)}
  \cup {Check(<<"ci", name>>, Observed(s, name), FALSE) : name \in Range(s.optional_ci)}
  \cup {Passed("sha-match", s.expected_sha = s.observed_sha, TRUE),
        Passed("tests", s.tests_complete /\ s.tests_passed, p.require_tests),
        Passed("secrets", s.secret_scan_complete /\ s.secret_findings = 0,
               p.require_secret_scan),
        Passed("clean-tree", s.clean_tree, p.require_clean_tree),
        Passed("changed-files-limit", Inventory(s).files <= p.max_changed_files, TRUE),
        Passed("changed-lines-limit",
               Inventory(s).changed_lines <= p.max_changed_lines, TRUE),
        Passed("binary-files-limit",
               Inventory(s).binary_files <= p.max_binary_files, TRUE)}

DecisionOf(checks) ==
  IF \E c \in checks : c.required /\ c.state # "success" THEN "blocked"
  ELSE IF \E c \in checks : c.state # "success" THEN "degraded"
  ELSE "ready"

\* gate.evaluate: the artifact binds the decision to the snapshot and the policy.
GateEvaluate(s, p) ==
  [decision |-> DecisionOf(Checks(s, p)), snapshot |-> s, policy |-> p,
   checks |-> Checks(s, p)]

(* GateArtifact.from_dict of a stored artifact: every part must be valid   *)
(* again, and a ready artifact lists no failing required check.  The       *)
(* decision is not computed again.                                         *)
ArtifactLoads(a) ==
  /\ SnapshotValid(a.snapshot)
  /\ GatePolicyValid(a.policy)
  /\ a.decision \in {"ready", "degraded", "blocked"}
  /\ a.decision = "ready" => \A c \in a.checks : c.required => c.state = "success"
=============================================================================
