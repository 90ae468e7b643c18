---------------------------- MODULE DeployTruth -----------------------------
(***************************************************************************)
(* deploy-truth without its effects (models.py, inventory.py,              *)
(* verification.py, and the plan of transactions.py): release specs, the   *)
(* capture of a directory, the comparison of source, bundle and live, and  *)
(* the plan from a bundle to a live directory.                             *)
(*                                                                         *)
(* A directory is a function from the relative paths of its files to what  *)
(* they hold; contents stand for their digest and size.  A path holding    *)
(* Link is a symbolic link.                                                *)
(***************************************************************************)
EXTENDS Naturals, Sequences, FiniteSets, SequencesExt, Functions

CONSTANTS
  Link,            \* the contents of a symbolic link
  MaxArtifacts,    \* MAX_ARTIFACTS
  MaxDependencies, \* the 64 dependencies of a component
  MaxComponents,   \* MAX_COMPONENTS
  MaxFiles         \* CaptureLimits.max_files

EmptyDirectory == << >>

\* The paths are numbers, so that they can be sorted.
IsDirectory(dir) ==
  /\ dir = [path \in DOMAIN dir |-> dir[path]]
  /\ DOMAIN dir \subseteq Nat
  /\ IsFiniteSet(DOMAIN dir)

\* A file is written, whatever was there.
Put(dir, path, contents) ==
  [other \in DOMAIN dir \cup {path} |-> IF other = path THEN contents ELSE dir[other]]

-----------------------------------------------------------------------------

ComponentValid(c) ==
  /\ c.state \in {"ready", "disabled", "degraded"}
  /\ Cardinality(c.dependencies) <= MaxDependencies
  /\ Len(c.artifacts) \in 1..MaxArtifacts
  /\ IsInjective(c.artifacts)

\* A dependency cycle is a set of components each depending on one of them.
Acyclic(components) ==
  \A S \in SUBSET components \ {{}} :
    \E c \in S : \A d \in S : d.name \notin c.dependencies

\* artifact_components: the paths a release consists of.
Expected(spec) == UNION {Range(c.artifacts) : c \in spec.components}

\* ReleaseSpec.create: components is a set, since create() orders it by name.
SpecValid(spec) ==
  LET names == {c.name : c \in spec.components}
  IN  /\ Cardinality(spec.components) \in 1..MaxComponents
      /\ Cardinality(names) = Cardinality(spec.components)
      /\ \A c \in spec.components : ComponentValid(c)
      /\ \A c, d \in spec.components :
           c # d => Range(c.artifacts) \cap Range(d.artifacts) = {}
      /\ Cardinality(Expected(spec)) <= MaxArtifacts
      /\ \A c \in spec.components : c.dependencies \subseteq names \ {c.name}
      /\ Acyclic(spec.components)

-----------------------------------------------------------------------------

\* capture_directory refuses links and more files than its limits allow; a blocked
\* inventory lists no artifact, so that its content hash is that of an empty one.
Capture(root) ==
  IF Link \in Range(root) \/ Cardinality(DOMAIN root) > MaxFiles
  THEN [state |-> "blocked", artifacts |-> EmptyDirectory]
  ELSE [state |-> "captured", artifacts |-> root]

\* verify_inventories: how the layers differ at a path.
DifferenceKind(spec, path, source, bundle, live) ==
  IF path \in Expected(spec)
  THEN CASE path \notin DOMAIN source.artifacts -> "missing_source"
         [] path \in DOMAIN source.artifacts \ DOMAIN bundle.artifacts -> "missing_bundle"
         [] path \in (DOMAIN source.artifacts \cap DOMAIN bundle.artifacts)
                     \ DOMAIN live.artifacts -> "missing_live"
         [] OTHER -> IF /\ source.artifacts[path] = bundle.artifacts[path]
                        /\ bundle.artifacts[path] = live.artifacts[path]
                     THEN "match" ELSE "byte_drift"
  ELSE IF path \in DOMAIN source.artifacts THEN "unexpected_source" ELSE "unexpected"

DifferenceKinds(spec, source, bundle, live) ==
  {DifferenceKind(spec, path, source, bundle, live) :
     path \in Expected(spec) \cup DOMAIN source.artifacts
              \cup DOMAIN bundle.artifacts \cup DOMAIN live.artifacts}

\* TruthReport.create: missing files and an extra source file block a release,
\* other differences and components that are not ready degrade it.
TruthDecision(spec, source, bundle, live) ==
  LET kinds == DifferenceKinds(spec, source, bundle, live)
  IN  CASE \/ "blocked" \in {source.state, bundle.state, live.state}
           \/ kinds \cap {"missing_source", "missing_bundle", "missing_live",
                          "unexpected_source"} # {} -> "blocked"
        [] OTHER -> IF \/ kinds \ {"match"} # {}
                       \/ \E c \in spec.components : c.state # "ready"
                    THEN "degraded" ELSE "verified"

-----------------------------------------------------------------------------

Operation(kind, path, sha, previous) ==
  [kind |-> kind, path |-> path, bundle_sha |-> sha, previous |-> previous]

\* DeploymentPlan.create raises unless this holds.
Plannable(spec, bundle, live) ==
  /\ bundle.state = "captured" /\ live.state = "captured"
  /\ DOMAIN bundle.artifacts = Expected(spec)

SortedPaths(S) ==
  CHOOSE s \in [1..Cardinality(S) -> S] : \A i, j \in DOMAIN s : i < j => s[i] < s[j]

\* Writes of what is missing or different come first, then deletions of the rest.
PlanOperations(spec, bundle, live) ==
  LET old == live.artifacts
      new == bundle.artifacts
      previous(path) == IF path \in DOMAIN old THEN {old[path]} ELSE {}
      writes == {path \in Expected(spec) : {new[path]} # previous(path)}
      deletes == DOMAIN old \ Expected(spec)
  IN  [i \in DOMAIN SortedPaths(writes) |->
         LET path == SortedPaths(writes)[i]
         IN  Operation("write", path, {new[path]}, previous(path))]
      \o
      [i \in DOMAIN SortedPaths(deletes) |->
         LET path == SortedPaths(deletes)[i]
         IN  Operation("delete", path, {}, previous(path))]

\* A plan is its own identity: plan_id is the hash of all of it.
CreatePlan(spec, bundle, live) ==
  [before     |-> live.artifacts,
   desired    |-> bundle.artifacts,
   operations |-> PlanOperations(spec, bundle, live)]
=============================================================================
