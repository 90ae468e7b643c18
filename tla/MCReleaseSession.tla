--------------------------- MODULE MCReleaseSession ---------------------------
(* ReleaseSession.tla on small evidence: two artifacts, one check on one matrix, *)
(* two runs, two builds. A session starts with the complete evidence or with one *)
(* that differs from it in one or two observations.                              *)
EXTENDS ReleaseSession

MCKeyAuthority == [kA |-> "ciA", kB |-> "ciB", kW |-> "lead"]
MCKeyUsages    == [kA |-> {"evidence"}, kB |-> {"evidence"}, kW |-> {"waiver"}]
MCTrustKey     == DOMAIN MCKeyAuthority

MCFoldOf  == [p \in Path |-> p]
MCTouches == [p \in Path |-> IF p = "login" THEN {"AUTH"} ELSE {}]

Obs(id, kind, payload) ==
  [id |-> id, kind |-> kind, source |-> "attested", subject |-> "cand", at |-> 5,
   trust |-> SignedBy("kA", "gh", "release"), payload |-> payload]

Run(id, run, sequence, attempt, status) ==
  Obs(id, "ci_run", [check |-> "unit", matrix |-> "linux", status |-> status, run |-> run,
                     sequence |-> sequence, attempt |-> attempt,
                     cache_hit |-> FALSE, cache_bound |-> FALSE])
Tests(id, failed) ==
  Obs(id, "test_summary", [suite |-> "all", run |-> id, passed |-> 2, failed |-> failed,
                           skipped |-> 0, total |-> 2 + failed, truncated |-> FALSE])
Artifact(id, name, digest, version) ==
  Obs(id, "artifact", [name |-> name, digest |-> digest, version |-> version,
                       install_tested |-> TRUE])
Shape(whl) == {[name |-> "whl", digest |-> whl, files |-> "fw"],
               [name |-> "sdist", digest |-> "ds", files |-> "fs"]}
Build(id, key, environment, shape) ==
  [Obs(id, "build_manifest", [build |-> id, environment |-> environment,
                              artifacts |-> shape])
   EXCEPT !.trust = SignedBy(key, "gh", "release")]
Sbom(id, name, digest) == Obs(id, "sbom", [artifact |-> name, digest |-> digest])
Provenance(id, name, digest, candidate) ==
  Obs(id, "provenance", [artifact |-> name, digest |-> digest,
                         candidate |-> candidate, version |-> "v1"])
Set(whl) == [n \in {"whl", "sdist"} |-> IF n = "whl" THEN whl ELSE "ds"]
Changelog(version, set) == Obs("log", "changelog", [version |-> version, set |-> set])
Drill(digest, at, status) ==
  Obs("drill", "rollback_drill", [digest |-> digest, at |-> at, environment |-> "prod",
                                  status |-> status, minutes |-> 3])
Deploy(digest, at, environment) ==
  Obs("deploy", "deploy_observation", [digest |-> digest, release |-> "rel", at |-> at,
                                       environment |-> environment, status |-> "observed"])
Diff(path, lines) ==
  Obs("diff", "diff", [files |-> <<[path |-> path, lines |-> lines, binary |-> FALSE]>>,
                       claimed |-> NoClaim])

Complete ==
  <<Diff("readme", 1), Run("ci1", "r1", 1, 1, "passed"), Run("ci2", "r2", 2, 1, "passed"),
    Tests("t1", 0), Artifact("a1", "whl", "dw", "v1"), Artifact("a2", "sdist", "ds", "v1"),
    Build("b1", "kA", "x86", Shape("dw")), Build("b2", "kB", "arm", Shape("dw")),
    Sbom("s1", "whl", "dw"), Sbom("s2", "sdist", "ds"), Changelog("v1", Set("dw")),
    Provenance("p1", "whl", "dw", "cand"), Provenance("p2", "sdist", "ds", "cand"),
    Drill("dw", 5, "passed"), Deploy("dw", 5, "prod")>>

\* What one observation may be instead.
Variants ==
  {Diff("login", 1), Diff("login", 251),
   Run("ci1", "r1", 1, 1, "failed"), Run("ci2", "r2", 2, 1, "failed"),
   Run("ci2", "r2", 2, 1, "pending"), Run("ci2", "r1", 1, 2, "passed"),
   [Run("ci2", "r2", 2, 1, "passed") EXCEPT !.payload.cache_hit = TRUE],
   Tests("t1", 1), [Tests("t1", 0) EXCEPT !.payload.suite = "other"],
   Artifact("a1", "whl", "dx", "v1"), Artifact("a1", "whl", "dw", "v2"),
   Artifact("a2", "whl", "dx", "v1"),
   [Artifact("a1", "whl", "dw", "v1") EXCEPT !.payload.install_tested = FALSE],
   Build("b2", "kB", "x86", Shape("dw")), Build("b2", "kA", "arm", Shape("dw")),
   Build("b2", "kB", "arm", Shape("dx")),
   [Build("b2", "kB", "arm", Shape("dw")) EXCEPT !.subject = "other"],
   Sbom("s1", "whl", "dx"), Sbom("s2", "whl", "dw"),
   Changelog("v2", Set("dw")), Changelog("v1", Set("dx")),
   Provenance("p1", "whl", "dx", "cand"), Provenance("p1", "whl", "dw", "other"),
   Drill("dx", 5, "passed"), Drill("dw", 8, "passed"), Drill("dw", 2, "passed"),
   Drill("dw", 5, "failed"), Deploy("dx", 5, "prod"), Deploy("dw", 5, "lab"),
   [Tests("t1", 0) EXCEPT !.at = 7], [Tests("t1", 0) EXCEPT !.at = 2],
   [Sbom("s1", "whl", "dw") EXCEPT !.trust = SignedBy("kW", "gh", "release")],
   [Sbom("s1", "whl", "dw") EXCEPT !.trust.mac = NoMac],
   [Sbom("s1", "whl", "dw") EXCEPT !.source = "observed"],
   [Sbom("s1", "whl", "dw") EXCEPT !.source = "observed",
                                   !.trust = SignedBy("kA", "other", "release")]}

Replace(obs, v) == [i \in DOMAIN obs |-> IF obs[i].id = v.id THEN v ELSE obs[i]]
Without(obs, id) == SelectSeq(obs, LAMBDA o : o.id # id)

OneEdit == {Complete} \cup {Replace(Complete, v) : v \in Variants}
           \cup {Without(Complete, Complete[i].id) : i \in DOMAIN Complete}
\* The second difference is one that a waiver, an arrival or time may make up for.
TwoEdits == OneEdit \cup {Replace(obs, v) : obs \in OneEdit, v \in
  {Diff("login", 251), Run("ci1", "r1", 1, 1, "failed"), Run("ci2", "r2", 2, 1, "pending"),
   Artifact("a1", "whl", "dw", "v2"), Drill("dw", 2, "passed"), Deploy("dw", 2, "prod")}}

Bundle(obs) == [release |-> "rel", created_at |-> 5, candidate |-> "cand",
                observations |-> obs]
MCEvidence == {Bundle(obs) : obs \in TwoEdits}

\* A rerun of either run, a further run, a failed rerun, and a second test summary.
MCArriving == {Run("ci3", "r1", 1, 2, "passed"), Run("ci3", "r2", 2, 2, "passed"),
               Run("ci3", "r3", 3, 1, "passed"), Run("ci3", "r2", 2, 2, "failed")}

MCWaiver(id, gate, code, expires) ==
  [id |-> id, gate |-> gate, code |-> code, candidate |-> "cand", policy |-> "pol",
   expires |-> expires, approver |-> "lead", trust |-> SignedBy("kW", "gh", "release")]
MCGrantable ==
  {MCWaiver("w1", "flakiness", "FLAKE_RATE_EXCEEDED", 8),
   MCWaiver("w2", "freshness", "EVIDENCE_STALE", 6),
   MCWaiver("w3", "rollback", "ROLLBACK_STALE", 6),
   MCWaiver("w4", "deploy_truth", "DEPLOY_OBSERVATION_STALE", 8),
   MCWaiver("w5", "artifact", "ARTIFACT_VERSION_MISMATCH", 8),
   MCWaiver("w6", "sbom", "ARTIFACT_BINDING_MISMATCH", 8),
   MCWaiver("w7", "diff_risk", "DIFF_RISK_TOO_HIGH", 8),
   MCWaiver("w9", "artifact", "ARTIFACT_SET_MISMATCH", 8),
   [MCWaiver("w8", "diff_risk", "DIFF_RISK_TOO_HIGH", 8) EXCEPT
      !.trust = SignedBy("kA", "gh", "release"), !.approver = "ciA"]}

ProductionPolicy ==
  [id |-> "pol", profile |-> "PRODUCTION", checks |-> {"unit"}, matrix |-> {"linux"},
   suites |-> {"all"}, artifacts |-> {"whl", "sdist"}, environment |-> "prod",
   version |-> "v1", max_age |-> 2, max_risk |-> 20, min_tests |-> 2, min_samples |-> 2,
   max_flake_percent |-> 0, min_builds |-> 2, min_authorities |-> 2,
   require_artifact |-> TRUE, require_sbom |-> TRUE, require_changelog |-> TRUE,
   require_rollback |-> TRUE, require_deploy |-> FALSE, rollback_max_age |-> 2,
   max_rollback_minutes |-> 3, authorities |-> {"ciA", "ciB"}, issuers |-> {"gh"},
   workflows |-> {}, sources |-> {"attested"}, waiver_authorities |-> {"lead"},
   waivable |-> {g.code : g \in MCGrantable}]
\* One of the two artifacts is not expected.
NarrowPolicy == [ProductionPolicy EXCEPT !.artifacts = {"whl"}]
MCPolicy == {ProductionPolicy, NarrowPolicy}

\* The more a session's evidence deviates from the complete one, the less else
\* happens in it (a state constraint).
Deviations == Cardinality({i \in DOMAIN Complete :
                             \A j \in DOMAIN evidence.observations :
                               evidence.observations[j] # Complete[i]})
FewThings ==
  \/ Deviations + arrivals + Len(waivers) + (now - StartNow)
       <= IF policy = ProductionPolicy THEN 3 ELSE 2
  \/ policy = ProductionPolicy /\ Deviations = 2 /\ Len(waivers) = 2 /\ arrivals = 0 /\ now = StartNow
=============================================================================
