----------------------------- MODULE ReleaseGate -----------------------------
(***************************************************************************)
(* The release decision engine: release_gate/engine.py over the records of *)
(* release_gate/models.py and the trust store of release_gate/trust.py.    *)
(*                                                                         *)
(* evaluate() is a function of the evidence, the policy, the waivers and   *)
(* the clock; every gate is an operator here. A gate of the code is a      *)
(* chain of early returns: Verdict takes the first of its rows that        *)
(* applies. ReleaseSession.tla is what surrounds the engine.               *)
(*                                                                         *)
(* Digests, versions, names and environments are compared and never looked *)
(* into, so they are plain values; the digest of an artifact stands for    *)
(* its size too. Times are whole units of one clock.                       *)
(***************************************************************************)
EXTENDS DiffRisk, Sequences, SequencesExt

CONSTANTS
  TrustKey,      \* key ids of the trust store
  KeyAuthority,  \* the authority of each of them
  KeyUsages,     \* what each may sign: "evidence", "waiver"
  FutureSkew     \* how far in the future a time stamp may be

ASSUME GateAssumption ==
  /\ KeyUsages \in [TrustKey -> SUBSET {"evidence", "waiver"}]
  /\ DOMAIN KeyAuthority = TrustKey
  /\ FutureSkew \in Nat

-----------------------------------------------------------------------------
(* Trust.                                                                  *)

\* A MAC names the key that made it: it cannot be made without the secret, and
\* it covers every other field of what it signs.
NoMac == "no mac"

\* sign_observation and sign_waiver: the authority is that of the key.
SignedBy(key, issuer, workflow) ==
  [level |-> "verified_attestation", key |-> key, authority |-> KeyAuthority[key],
   issuer |-> issuer, workflow |-> workflow, mac |-> key]

\* TrustStore.verify_signed
Verified(trust, usage) ==
  /\ trust.level = "verified_attestation"
  /\ trust.key \in TrustKey
  /\ usage \in KeyUsages[trust.key]
  /\ trust.authority = KeyAuthority[trust.key]
  /\ trust.mac = trust.key

\* An age limit: at most a year of hours.
Hours == 1..8760

\* ReleasePolicy.__post_init__
PolicyValid(pol) ==
  /\ {} \notin {pol.checks, pol.matrix, pol.suites, pol.artifacts}
  /\ pol.profile \in {"LAB", "PRODUCTION"}
  /\ pol.sources \subseteq {"synthetic", "supplied", "observed", "attested"}
  /\ pol.profile = "PRODUCTION" => "synthetic" \notin pol.sources
  /\ pol.min_builds \in 2..20
  /\ pol.min_authorities \in 1..20
  /\ pol.min_samples \in 1..100
  /\ pol.max_risk \in 0..100
  /\ pol.max_flake_percent \in 0..100
  /\ {pol.max_age, pol.rollback_max_age} \subseteq Hours

\* ReleaseEvidence.__post_init__
EvidenceValid(ev) ==
  /\ DOMAIN ev = {"release", "created_at", "candidate", "observations"}
  /\ Len(ev.observations) <= 500
  /\ \A i, j \in DOMAIN ev.observations :
       i # j => ev.observations[i].id # ev.observations[j].id

-----------------------------------------------------------------------------
(* Results of gates.                                                       *)

NoWaiver == "none"

Result(gate, status, code, items) ==
  [gate |-> gate, status |-> status, code |-> code,
   evidence |-> [i \in DOMAIN items |-> items[i].id],
   waived_by |-> NoWaiver, original |-> "none"]

\* A row of a gate's chain of early returns: the result it is about, if it applies.
Row(applies, status, code, items) ==
  IF applies THEN {[status |-> status, code |-> code, items |-> items]} ELSE {}

\* The first of the rows that applies.
Verdict(gate, rows) ==
  LET first == CHOOSE k \in DOMAIN rows :
                 rows[k] # {} /\ \A j \in 1..(k - 1) : rows[j] = {}
      row == CHOOSE r \in rows[first] : TRUE
  IN  Result(gate, row.status, row.code, row.items)

\* The items at the positions I, and those that pass a test, in the order listed.
Those(items, I) ==
  [k \in 1..Cardinality(I) |-> items[CHOOSE i \in I : Cardinality(I \cap (1..i)) = k]]

Select(items, Test(_)) == Those(items, {i \in DOMAIN items : Test(items[i])})

\* group_observations
OfKind(ev, kind) == Select(ev.observations, LAMBDA o : o.kind = kind)

\* A time stamp in the future, or older than a limit.
FromFuture(at, now)  == at > now + FutureSkew
Stale(at, now, limit) == now - at > limit

Sum(items, value(_)) == MapThenSumSet(LAMBDA i : value(items[i]), DOMAIN items)

-----------------------------------------------------------------------------
(* Subject, freshness, authenticity, diff.                                 *)

SubjectGate(ev) ==
  LET bad == Select(ev.observations, LAMBDA o : o.subject # ev.candidate)
  IN  Verdict("subject_binding", <<
        Row(bad # <<>>, "fail", "SUBJECT_MISMATCH", bad),
        Row(TRUE, "pass", "SUBJECT_BOUND", ev.observations) >>)

FreshnessGate(ev, pol, now) ==
  LET future == Select(ev.observations, LAMBDA o : FromFuture(o.at, now))
      stale  == Select(ev.observations, LAMBDA o : Stale(o.at, now, pol.max_age))
  IN  Verdict("freshness", <<
        Row(future # <<>>, "fail", "EVIDENCE_FROM_FUTURE", future),
        Row(stale # <<>>, "unknown", "EVIDENCE_STALE", stale),
        Row(TRUE, "pass", "EVIDENCE_FRESH", ev.observations) >>)

\* Which of the policy's four lists an observation is not on.
OffLists(o, pol) ==
  LET on(list, value) == list = {} \/ value \in list
  IN  <<o.source \notin pol.sources,
        ~on(pol.authorities, o.trust.authority),
        ~on(pol.issuers, o.trust.issuer),
        ~on(pol.workflows, o.trust.workflow)>>

\* Every observation four times, and the copies of those that are not on a list: an
\* observation is listed once for each list it is not on.
Fourfold(items) == [k \in 1..(4 * Len(items)) |-> items[(k + 3) \div 4]]

Mismatches(items, pol) ==
  LET copies == Fourfold(items)
  IN  Those(copies, {k \in DOMAIN copies : OffLists(copies[k], pol)[(k % 4) + 1]})

AuthenticityGate(ev, pol) ==
  LET invalid == Select(ev.observations, LAMBDA o : ~Verified(o.trust, "evidence"))
      policy_bad == Mismatches(ev.observations, pol)
  IN  Verdict("authenticity", <<
        Row(invalid # <<>>, "unknown", "EVIDENCE_UNAUTHENTICATED", invalid),
        Row(policy_bad # <<>>, "fail", "ATTESTATION_POLICY_MISMATCH", policy_bad),
        Row(TRUE, "pass", "EVIDENCE_AUTHENTICATED", ev.observations) >>)

DiffGate(ev, pol) ==
  LET items == OfKind(ev, "diff")
  IN  IF Len(items) # 1
      THEN Result("diff_risk", "unknown", "DIFF_EVIDENCE_MISSING", items)
      ELSE Verdict("diff_risk", <<
             Row(Score(items[1].payload.files) <= pol.max_risk,
               "pass", "DIFF_RISK_ACCEPTABLE", items),
             Row(TRUE, "fail", "DIFF_RISK_TOO_HIGH", items) >>)

DiffMalformed(ev) ==
  LET items == OfKind(ev, "diff")
  IN  Len(items) = 1 /\ DiffRefused(items[1].payload)

-----------------------------------------------------------------------------
(* Continuous integration: attempts of runs of checks on a matrix.         *)

\* A run has one place in the sequence of runs, and an attempt is reported once.
CIMalformed(ev) ==
  LET items == OfKind(ev, "ci_run")
      p(i)  == items[i].payload
  IN  \E i, j \in DOMAIN items : i # j /\
        \/ (p(i).run = p(j).run /\ p(i).attempt = p(j).attempt)
        \/ (p(i).run = p(j).run) # (p(i).sequence = p(j).sequence)

Required(pol) == pol.checks \X pol.matrix

Attempts(ev, key) ==
  Select(OfKind(ev, "ci_run"), LAMBDA o : <<o.payload.check, o.payload.matrix>> = key)

Latest_AsListed(items) == items[Len(items)]
\* The attempt with the greatest run_sequence and, of that run, the greatest attempt.
Latest(items) ==
  LET p(i) == items[i].payload
  IN  items[CHOOSE i \in DOMAIN items : \A j \in DOMAIN items :
              \/ p(j).sequence < p(i).sequence
              \/ p(j).sequence = p(i).sequence /\ p(j).attempt <= p(i).attempt]

RunsOf(items) == {items[i].payload.run : i \in DOMAIN items}

\* A run counts as failed as soon as one of its attempts did not pass.
FailedRuns_Latest(items) ==
  {r \in RunsOf(items) :
     Latest(Select(items, LAMBDA o : o.payload.run = r)).payload.status # "passed"}
FailedRuns(items) ==
  {r \in RunsOf(items) : \E i \in DOMAIN items :
     items[i].payload.run = r /\ items[i].payload.status # "passed"}

FlakeRateExceeded(items, pol) ==
  100 * Cardinality(FailedRuns(items)) > pol.max_flake_percent * Cardinality(RunsOf(items))

TooFewRuns(items, pol) == Cardinality(RunsOf(items)) < pol.min_samples

CIMatrixGate(ev, pol) ==
  LET items == OfKind(ev, "ci_run")
      seen == {key \in Required(pol) : Attempts(ev, key) # <<>>}
      status_bad == Select(items, LAMBDA o :
        \E key \in seen : o = Latest(Attempts(ev, key)) /\ o.payload.status # "passed")
      proven == \E i \in DOMAIN status_bad :
                  status_bad[i].payload.status \in {"failed", "timed_out"}
  IN  Verdict("ci_matrix", <<
        Row(seen # Required(pol), "unknown", "CI_MATRIX_INCOMPLETE", items),
        Row(proven, "fail", "CI_REQUIRED_CHECK_NOT_PASSING", status_bad),
        Row(status_bad # <<>>, "unknown", "CI_REQUIRED_CHECK_NOT_PASSING", status_bad),
        Row(TRUE, "pass", "CI_MATRIX_PASSING", items) >>)

CICacheGate(ev) ==
  LET items == OfKind(ev, "ci_run")
      unsafe == Select(items, LAMBDA o : o.payload.cache_hit /\ ~o.payload.cache_bound)
  IN  Verdict("ci_cache", <<
        Row(unsafe # <<>>, "fail", "CI_CACHE_UNBOUND", unsafe),
        Row(TRUE, "pass", "CI_CACHE_BOUND", items) >>)

FlakinessGate(ev, pol) ==
  LET items == OfKind(ev, "ci_run")
      seen == {key \in Required(pol) : Attempts(ev, key) # <<>>}
      among(keys) == Select(items, LAMBDA o : <<o.payload.check, o.payload.matrix>> \in keys)
      sparse == among({key \in seen : TooFewRuns(Attempts(ev, key), pol)})
      flaky  == among({key \in seen : FlakeRateExceeded(Attempts(ev, key), pol)})
  IN  Verdict("flakiness", <<
        Row(sparse # <<>>, "unknown", "FLAKE_SAMPLES_INSUFFICIENT", sparse),
        Row(flaky # <<>>, "fail", "FLAKE_RATE_EXCEEDED", flaky),
        Row(TRUE, "pass", "FLAKE_RATE_ACCEPTABLE", items) >>)

-----------------------------------------------------------------------------
(* Tests.                                                                  *)

TestsMalformed(ev) ==
  LET items == OfKind(ev, "test_summary")
      p(i)  == items[i].payload
  IN  \/ \E i, j \in DOMAIN items : i # j /\ p(i).suite = p(j).suite /\ p(i).run = p(j).run
      \/ \E i \in DOMAIN items : p(i).passed + p(i).failed + p(i).skipped # p(i).total

TestsGate(ev, pol) ==
  LET items == OfKind(ev, "test_summary")
      suites == {items[i].payload.suite : i \in DOMAIN items}
      bad == Select(items, LAMBDA o : o.payload.failed > 0 \/ o.payload.truncated)
      executed == Sum(items, LAMBDA o : o.payload.passed + o.payload.failed)
  IN  Verdict("tests", <<
        Row(items = <<>>, "unknown", "TEST_EVIDENCE_MISSING", <<>>),
        Row(~(pol.suites \subseteq suites), "unknown", "TEST_SUITES_MISSING", items),
        Row(bad # <<>>, "fail", "TEST_EVIDENCE_FAILED", bad),
        Row(executed < pol.min_tests, "unknown", "TEST_COUNT_INSUFFICIENT", items),
        Row(TRUE, "pass", "TESTS_PASSING", items) >>)

-----------------------------------------------------------------------------
(* Artifacts, and what is bound to them.                                   *)

Names(items) == {items[i].payload.name : i \in DOMAIN items}

\* artifact_map: of two artifacts of one name the later one counts.
ArtifactMap(ev) ==
  LET items == OfKind(ev, "artifact")
      last(n) == CHOOSE i \in DOMAIN items :
                   /\ items[i].payload.name = n
                   /\ \A j \in DOMAIN items : items[j].payload.name = n => j <= i
  IN  [n \in Names(items) |-> items[last(n)].payload.digest]

Digests(ev) ==
  LET items == OfKind(ev, "artifact")
  IN  {items[i].payload.digest : i \in DOMAIN items}

ArtifactGate(ev, pol) ==
  LET items == OfKind(ev, "artifact")
      versions == {items[i].payload.version : i \in DOMAIN items}
  IN  Verdict("artifact", <<
        Row(items = <<>> /\ pol.require_artifact, "unknown", "ARTIFACT_MISSING", <<>>),
        Row(items = <<>>, "pass", "ARTIFACT_OPTIONAL", <<>>),
        Row(Cardinality(Names(items)) # Len(items),
          "fail", "ARTIFACT_BINDING_MISMATCH", items),
        Row(Names(items) # pol.artifacts, "fail", "ARTIFACT_SET_MISMATCH", items),
        Row(versions # {pol.version}, "fail", "ARTIFACT_VERSION_MISMATCH", items),
        Row(\E i \in DOMAIN items : ~items[i].payload.install_tested,
          "unknown", "ARTIFACT_NOT_INSTALL_TESTED", items),
        Row(TRUE, "pass", "ARTIFACT_VERIFIED", items) >>)

\* A build manifest lists artifacts [name, digest, files]; names occur once.
BuildsMalformed(ev, pol) ==
  LET items == OfKind(ev, "build_manifest")
      p(i)  == items[i].payload
  IN  /\ Len(items) >= pol.min_builds
      /\ \/ \E i, j \in DOMAIN items : i # j /\ p(i).build = p(j).build
         \/ \E i \in DOMAIN items : \E a, b \in p(i).artifacts : a # b /\ a.name = b.name

ReproducibilityGate(ev, pol) ==
  LET items == OfKind(ev, "build_manifest")
      released == OfKind(ev, "artifact")
      release_set == {<<released[i].payload.name, released[i].payload.digest>> :
                        i \in DOMAIN released}
      shapes == {items[i].payload.artifacts : i \in DOMAIN items}
      observed(shape) == {<<a.name, a.digest>> : a \in shape}
      environments == {items[i].payload.environment : i \in DOMAIN items}
      authorities  == {items[i].trust.authority : i \in DOMAIN items}
  IN  Verdict("reproducibility", <<
        Row(Len(items) < pol.min_builds, "unknown", "REPRO_BUILDS_INSUFFICIENT", items),
        Row(\/ Cardinality(shapes) # 1
          \/ \E shape \in shapes : observed(shape) # release_set,
          "fail", "REPRODUCIBILITY_MISMATCH", items),
        Row(Cardinality(environments) < 2,
          "unknown", "REPRO_ENVIRONMENTS_INSUFFICIENT", items),
        Row(Cardinality(authorities) < pol.min_authorities,
          "unknown", "REPRO_AUTHORITIES_INSUFFICIENT", items),
        Row(TRUE, "pass", "REPRODUCIBLE", items) >>)

\* The names that items bind, each to the digest the release has for it.
Binds(items, map) ==
  /\ {items[i].payload.artifact : i \in DOMAIN items} = DOMAIN map
  /\ \A i \in DOMAIN items : items[i].payload.digest = map[items[i].payload.artifact]

NamedTwice(items) ==
  \E i, j \in DOMAIN items : i # j /\ items[i].payload.artifact = items[j].payload.artifact

SbomGate(ev, pol) ==
  LET items == OfKind(ev, "sbom")
  IN  Verdict("sbom", <<
        Row(items = <<>> /\ pol.require_sbom, "unknown", "SBOM_MISSING", <<>>),
        Row(items = <<>>, "pass", "SBOM_OPTIONAL", <<>>),
        Row(~Binds(items, ArtifactMap(ev)), "fail", "ARTIFACT_BINDING_MISMATCH", items),
        Row(TRUE, "pass", "SBOM_BOUND", items) >>)

\* The changelog is compared with the version of the first artifact, and with the
\* digest of the whole set.
ChangelogGate(ev, pol) ==
  LET items == OfKind(ev, "changelog")
      artifacts == OfKind(ev, "artifact")
      log == items[1].payload
  IN  IF items = <<>>
      THEN Verdict("changelog", <<
             Row(pol.require_changelog, "unknown", "CHANGELOG_MISSING", <<>>),
             Row(TRUE, "pass", "CHANGELOG_OPTIONAL", <<>>) >>)
      ELSE Verdict("changelog", <<
             Row(artifacts # <<>> /\ log.version # artifacts[1].payload.version,
               "fail", "CHANGELOG_VERSION_MISMATCH", items),
             Row(log.set # ArtifactMap(ev), "fail", "ARTIFACT_BINDING_MISMATCH", items),
             Row(TRUE, "pass", "CHANGELOG_BOUND", items) >>)

ProvenanceGate(ev, pol) ==
  LET items == OfKind(ev, "provenance")
      foreign == \E i \in DOMAIN items :
                   \/ items[i].payload.candidate # ev.candidate
                   \/ items[i].payload.version # pol.version
  IN  Verdict("provenance", <<
        Row(items = <<>>, "unknown", "PROVENANCE_MISSING", <<>>),
        Row(foreign \/ ~Binds(items, ArtifactMap(ev)),
          "fail", "ARTIFACT_BINDING_MISMATCH", items),
        Row(TRUE, "pass", "PROVENANCE_BOUND", items) >>)

SupplyChainMalformed(ev) ==
  \/ NamedTwice(OfKind(ev, "sbom"))
  \/ Len(OfKind(ev, "changelog")) > 1
  \/ NamedTwice(OfKind(ev, "provenance"))

-----------------------------------------------------------------------------
(* Rollback drill and deployment.                                          *)

RollbackGate(ev, pol, now) ==
  LET items == OfKind(ev, "rollback_drill")
      drill == items[1].payload
  IN  IF items = <<>>
      THEN Verdict("rollback", <<
             Row(pol.require_rollback, "unknown", "ROLLBACK_MISSING", <<>>),
             Row(TRUE, "pass", "ROLLBACK_OPTIONAL", <<>>) >>)
      ELSE Verdict("rollback", <<
             Row(drill.digest \notin Digests(ev), "fail", "ARTIFACT_BINDING_MISMATCH", items),
             Row(FromFuture(drill.at, now), "fail", "ROLLBACK_FROM_FUTURE", items),
             Row(Stale(drill.at, now, pol.rollback_max_age), "unknown", "ROLLBACK_STALE", items),
             Row(drill.environment # pol.environment,
               "fail", "ROLLBACK_ENVIRONMENT_MISMATCH", items),
             Row(drill.status = "failed", "fail", "ROLLBACK_NOT_PASSING", items),
             Row(drill.status # "passed", "unknown", "ROLLBACK_NOT_PASSING", items),
             Row(drill.minutes > pol.max_rollback_minutes, "fail", "ROLLBACK_TOO_SLOW", items),
             Row(TRUE, "pass", "ROLLBACK_READY", items) >>)

DeploymentGate(ev, pol, now) ==
  LET items == OfKind(ev, "deploy_observation")
      seen  == items[1].payload
  IN  IF items = <<>>
      THEN Verdict("deploy_truth", <<
             Row(pol.require_deploy, "unknown", "DEPLOY_OBSERVATION_MISSING", <<>>),
             Row(TRUE, "pass", "DEPLOY_OBSERVATION_OPTIONAL", <<>>) >>)
      ELSE Verdict("deploy_truth", <<
             Row(seen.digest \notin Digests(ev) \/ seen.release # ev.release,
               "fail", "ARTIFACT_BINDING_MISMATCH", items),
             Row(seen.environment # pol.environment,
               "fail", "DEPLOY_ENVIRONMENT_MISMATCH", items),
             Row(FromFuture(seen.at, now) \/ Stale(seen.at, now, pol.max_age),
               "unknown", "DEPLOY_OBSERVATION_STALE", items),
             Row(seen.status # "observed", "unknown", "DEPLOY_STATUS_UNKNOWN", items),
             Row(TRUE, "pass", "DEPLOY_TRUTH_BOUND", items) >>)

SeveralDrills(ev)  == Len(OfKind(ev, "rollback_drill")) > 1
SeveralDeploys(ev) == Len(OfKind(ev, "deploy_observation")) > 1

-----------------------------------------------------------------------------
(* Waivers.                                                                *)

\* UNWAIVABLE
Unwaivable == {"SUBJECT_MISMATCH", "EVIDENCE_UNAUTHENTICATED", "ATTESTATION_POLICY_MISMATCH",
               "REPRODUCIBILITY_MISMATCH", "ARTIFACT_BINDING_MISMATCH", "WAIVER_INVALID",
               "LEDGER_INTEGRITY_FAILED"}

WaiverValid_PolicyOnly(w, ev, pol, now) ==
  /\ Verified(w.trust, "waiver")
  /\ w.candidate = ev.candidate /\ w.policy = pol.id
  /\ w.approver = w.trust.authority /\ w.approver \in pol.waiver_authorities
  /\ w.expires > now
  /\ w.code \in pol.waivable
WaiverValid_NeverExpires(w, ev, pol, now) ==
  /\ Verified(w.trust, "waiver")
  /\ w.candidate = ev.candidate /\ w.policy = pol.id
  /\ w.approver = w.trust.authority /\ w.approver \in pol.waiver_authorities
  /\ w.code \in pol.waivable \ Unwaivable
WaiverValid(w, ev, pol, now) ==
  /\ Verified(w.trust, "waiver")
  /\ w.candidate = ev.candidate /\ w.policy = pol.id
  /\ w.approver = w.trust.authority /\ w.approver \in pol.waiver_authorities
  /\ w.expires > now
  /\ w.code \in pol.waivable \ Unwaivable

Targets_Gate(w, gate) == w.gate = gate.gate
Targets(w, gate) == w.gate = gate.gate /\ w.code = gate.code

\* Two waivers of one target: the second one is invalid.
SomeWaiverInvalid(ws, ev, pol, now) ==
  \/ \E i \in DOMAIN ws : ~WaiverValid(ws[i], ev, pol, now)
  \/ \E i, j \in DOMAIN ws : i # j /\ ws[i].gate = ws[j].gate /\ ws[i].code = ws[j].code

Waive(gate, ws) ==
  IF gate.status \in {"fail", "unknown"} /\ \E i \in DOMAIN ws : Targets(ws[i], gate)
  THEN LET i == CHOOSE i \in DOMAIN ws : Targets(ws[i], gate)
       IN  [gate EXCEPT !.status = "warn", !.waived_by = ws[i].id, !.original = gate.status]
  ELSE gate

\* _apply_waivers: one bad waiver spoils them all, and so does one that is not used.
ApplyWaivers(gates, ws, ev, pol, now) ==
  LET refusal == Result("waivers", "fail", "WAIVER_INVALID", <<>>)
      waived  == [i \in DOMAIN gates |-> Waive(gates[i], ws)]
      applied == {waived[i].waived_by : i \in DOMAIN waived}
  IN  IF ws = <<>> THEN gates
      ELSE IF SomeWaiverInvalid(ws, ev, pol, now) THEN Append(gates, refusal)
      ELSE IF \A i \in DOMAIN ws : ws[i].id \in applied THEN waived
      ELSE Append(waived, refusal)

-----------------------------------------------------------------------------
(* The decision.                                                           *)

Gates(ev, pol, now) ==
  <<SubjectGate(ev), FreshnessGate(ev, pol, now), AuthenticityGate(ev, pol),
    DiffGate(ev, pol), CIMatrixGate(ev, pol), CICacheGate(ev), FlakinessGate(ev, pol),
    TestsGate(ev, pol), ArtifactGate(ev, pol), ReproducibilityGate(ev, pol),
    SbomGate(ev, pol), ChangelogGate(ev, pol), ProvenanceGate(ev, pol),
    RollbackGate(ev, pol, now), DeploymentGate(ev, pol, now)>>

\* The ValidationErrors that the content of evidence may raise.
Malformed(ev, pol, now) ==
  \/ FromFuture(ev.created_at, now)
  \/ DiffMalformed(ev) \/ CIMalformed(ev) \/ TestsMalformed(ev)
  \/ BuildsMalformed(ev, pol) \/ SupplyChainMalformed(ev)
  \/ SeveralDrills(ev) \/ SeveralDeploys(ev)

\* GateResult.__post_init__: an observation is listed once.
GateValid(gate) ==
  \A i, j \in DOMAIN gate.evidence : i # j => gate.evidence[i] # gate.evidence[j]

\* Decision.__post_init__: every gate has one result and a waiver one gate.
DecisionValid(gates) ==
  /\ \A i \in DOMAIN gates : GateValid(gates[i])
  /\ \A i, j \in DOMAIN gates : i # j =>
       /\ gates[i].gate # gates[j].gate
       /\ gates[i].waived_by = NoWaiver \/ gates[i].waived_by # gates[j].waived_by

OutcomeOf(gates) ==
  LET statuses == {gates[i].status : i \in DOMAIN gates}
  IN  IF "fail" \in statuses THEN "BLOCKED"
      ELSE IF "unknown" \in statuses THEN "UNKNOWN"
      ELSE "READY"

\* DecisionEngine.evaluate: a decision, or "REFUSED" when it raises.
Evaluate(ev, pol, ws, now) ==
  LET gates == ApplyWaivers(Gates(ev, pol, now), ws, ev, pol, now)
  IN  IF Malformed(ev, pol, now) \/ ~DecisionValid(gates)
      THEN [outcome |-> "REFUSED", gates |-> <<>>]
      ELSE [outcome |-> OutcomeOf(gates), gates |-> gates]

\* Decision.production_ready
ProductionReady(decision, pol) == decision.outcome = "READY" /\ pol.profile = "PRODUCTION"
=============================================================================
