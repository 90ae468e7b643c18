--------------------------- MODULE ReleaseSession ---------------------------
(***************************************************************************)
(* What surrounds the engine of ReleaseGate.tla: evidence is collected and *)
(* signed, waivers are granted, time passes, and evaluate() is called.     *)
(* A decision is about exactly the inputs it was computed from; it is      *)
(* dropped here as soon as one of them changes.                            *)
(***************************************************************************)
EXTENDS ReleaseGate

CONSTANTS
  Policy,        \* the policies under consideration
  Evidence,      \* the evidence a session may start with
  Arriving,      \* observations that may be added to it
  Grantable,     \* waivers that may be granted
  StartNow,      \* the clock at the start
  MaxNow,        \* bound on the clock
  MaxArrivals,   \* bound on the observations added
  MaxWaivers     \* bound on the waivers granted

\* The observations there may be.
Offered == Arriving \cup UNION {Range(ev.observations) : ev \in Evidence}

\* The time stamps are times, the counts are counts, and a waiver has an id.
ASSUME SessionAssumption ==
  /\ \A pol \in Policy : PolicyValid(pol)
  /\ \A ev \in Evidence : EvidenceValid(ev) /\ ev.observations \in Seq(Offered)
  /\ \A o \in Offered :
       /\ o.at \in Int
       /\ o.kind \in {"rollback_drill", "deploy_observation"} => o.payload.at \in Int
       /\ o.kind = "ci_run" => {o.payload.sequence, o.payload.attempt} \subseteq Nat
       /\ o.kind = "test_summary" => {o.payload.passed, o.payload.failed} \subseteq Nat
  /\ \A w \in Grantable : w.id # NoWaiver /\ w.expires \in Int
  /\ {StartNow, MaxNow, MaxArrivals, MaxWaivers} \subseteq Nat

VARIABLES
  evidence,   \* the ReleaseEvidence collected so far
  policy,     \* the ReleasePolicy of the session
  waivers,    \* the waivers granted so far
  now,        \* the clock
  arrivals,   \* how many observations were added
  decision    \* the decision about the above

vars == <<evidence, policy, waivers, now, arrivals, decision>>

Undecided == [outcome |-> "none", gates |-> <<>>]

Init ==
  /\ evidence \in Evidence
  /\ policy \in Policy
  /\ waivers = <<>>
  /\ now = StartNow
  /\ arrivals = 0
  /\ decision = Undecided

\* One more observation is put into the evidence; its id is new.
Collect ==
  /\ arrivals < MaxArrivals
  /\ \E o \in Arriving :
       /\ evidence' = [evidence EXCEPT !.observations = Append(@, o)]
       /\ EvidenceValid(evidence')
  /\ arrivals' = arrivals + 1
  /\ decision' = Undecided
  /\ UNCHANGED <<policy, waivers, now>>

\* One more waiver is put into the waiver file, whose ids are unique (cli.py:57).
Grant ==
  /\ Len(waivers) < MaxWaivers
  /\ \E w \in Grantable :
       /\ \A i \in DOMAIN waivers : waivers[i].id # w.id
       /\ waivers' = Append(waivers, w)
  /\ decision' = Undecided
  /\ UNCHANGED <<evidence, policy, now, arrivals>>

Tick ==
  /\ now < MaxNow
  /\ now' = now + 1
  /\ decision' = Undecided
  /\ UNCHANGED <<evidence, policy, waivers, arrivals>>

Decide ==
  /\ decision = Undecided
  /\ decision' = Evaluate(evidence, policy, waivers, now)
  /\ UNCHANGED <<evidence, policy, waivers, now, arrivals>>

Next == Collect \/ Grant \/ Tick \/ Decide

Spec == Init /\ [][Next]_vars

-----------------------------------------------------------------------------

Observed == {evidence.observations[i] : i \in DOMAIN evidence.observations}
ObservedOf(kind) == {o \in Observed : o.kind = kind}
Granted == {waivers[i] : i \in DOMAIN waivers}

\* Whatever is waived, a release is READY only on evidence that was signed with a
\* key of the trust store for this candidate, and whose parts all speak of the same
\* artifacts: bills of materials, provenance, drill, deployment, and the builds if
\* there are enough of them to be compared (engine.py:27-35, 370-380, 416, 454, 479).
ReadyIsBound ==
  decision.outcome = "READY" =>
    LET map == ArtifactMap(evidence)
        bound(o) == /\ o.payload.artifact \in DOMAIN map
                    /\ o.payload.digest = map[o.payload.artifact]
        builds == ObservedOf("build_manifest")
    IN  /\ \A o \in Observed :
             o.subject = evidence.candidate /\ Verified(o.trust, "evidence")
        /\ \A o \in ObservedOf("sbom") \cup ObservedOf("provenance") : bound(o)
        /\ \A o \in ObservedOf("rollback_drill") \cup ObservedOf("deploy_observation") :
             \E n \in DOMAIN map : o.payload.digest = map[n]
        /\ Cardinality(builds) >= policy.min_builds =>
             \A o \in builds :
               {<<a.name, a.digest>> : a \in o.payload.artifacts} = {<<n, map[n]>> : n \in DOMAIN map}

\* READY is a statement about now: every time stamp it rests on lies within the
\* policy's window, or a waiver that has not expired yet says that it may lie
\* outside (engine.py:117-131, 481-484, 510, 543).
ReadyIsFresh ==
  decision.outcome = "READY" =>
    LET excused(codes) == \E w \in Granted : w.code \in codes /\ now < w.expires
        within(at, limit) == at \in (now - limit)..(now + FutureSkew)
    IN  /\ \A o \in Observed :
             \/ within(o.at, policy.max_age)
             \/ excused({"EVIDENCE_STALE", "EVIDENCE_FROM_FUTURE"})
        /\ \A o \in ObservedOf("rollback_drill") :
             \/ within(o.payload.at, policy.rollback_max_age)
             \/ excused({"ROLLBACK_STALE", "ROLLBACK_FROM_FUTURE"})
        /\ \A o \in ObservedOf("deploy_observation") :
             \/ within(o.payload.at, policy.max_age)
             \/ excused({"DEPLOY_OBSERVATION_STALE", "DEPLOY_ENVIRONMENT_MISMATCH"})

\* A waiver excuses the one finding it names, of a code that may be waived, and
\* nothing else: a release is READY with waivers only if every gate that does not
\* pass on its own is named by one of them, and none of them is left over
\* (engine.py:525-566).
WaiversOnlyExcuse ==
  decision.outcome = "READY" =>
    LET bare == Gates(evidence, policy, now)
        open == {i \in DOMAIN bare : bare[i].status # "pass"}
        names(w, i) == w.gate = bare[i].gate /\ w.code = bare[i].code
    IN  /\ \A i \in open : \E w \in Granted :
             names(w, i) /\ w.code \notin Unwaivable /\ w.policy = policy.id
        /\ \A w \in Granted : \E i \in open : names(w, i)

\* "a green rerun does not erase earlier failing evidence" (engine.py:237): another
\* attempt of a run that was seen never lets the flakiness gate pass.
RerunNeverErases ==
  [][ LET runs(ev) == [key \in Required(policy) |-> RunsOf(Attempts(ev, key))]
      IN  /\ runs(evidence) = runs(evidence')
          /\ FlakinessGate(evidence, policy).status # "pass"
          => FlakinessGate(evidence', policy).status # "pass" ]_evidence

\* The order in which observations are listed does not decide the outcome, although
\* the engine keeps the first version and the last digest it comes across
\* (engine.py:389-390). A waived disagreement of versions is the exception, or of the
\* set of artifacts, which is found first and hides it (engine.py:303-306): the
\* changelog is then compared with whichever artifact comes first.
OrderIndependent ==
  /\ decision # Undecided
  /\ \A w \in Granted :
       w.code \notin {"ARTIFACT_VERSION_MISMATCH", "ARTIFACT_SET_MISMATCH"}
  => decision.outcome = Evaluate([evidence EXCEPT !.observations = Reverse(@)],
                                 policy, waivers, now).outcome
=============================================================================
