------------------------------ MODULE Council -------------------------------
(***************************************************************************)
(* The review council (pr_review_council/models.py, config.py,             *)
(* reviewers.py, council.py): the snapshots of pull requests it accepts,   *)
(* what the bundled reviewers find in them, and the decision it draws.     *)
(*                                                                         *)
(* What the reviewers' patterns match in a line is the set of its          *)
(* features; texts, messages and fingerprints are left out.                *)
(***************************************************************************)
EXTENDS Naturals, Sequences, FiniteSets, SequencesExt

CONSTANTS
  MaxFiles,             \* MAX_FILES
  LargeChange,          \* the additions above which a file is a large change
  EnabledReviewers,     \* CouncilConfig.enabled_reviewers
  MinimumSuccessful,    \* minimum_successful_reviewers
  BlockingSeverities    \* blocking_severities

Features == {"secret", "execution", "network", "timeout", "broad_except", "debt"}

\* CouncilConfig and ReviewCouncil.__init__ raise unless this holds.
CouncilAssumption ==
  /\ EnabledReviewers \subseteq {"security", "reliability", "testing", "maintainability"}
  /\ MinimumSuccessful \in 1..Cardinality(EnabledReviewers)
  /\ BlockingSeverities # {}
  /\ LargeChange \in Nat

ASSUME CouncilAssumption

\* What CouncilConfig() is, as far as the promise of an approval rests on it.
DefaultCouncil ==
  /\ EnabledReviewers = {"security", "reliability", "testing", "maintainability"}
  /\ "critical" \in BlockingSeverities

(* PullRequestSnapshot.from_dict.  A line of a patch is told by how it      *)
(* begins: a hunk header with the number its lines start at, "+++" or       *)
(* "---" (a file header, or an added or removed line whose own text begins  *)
(* with "++" or "--": they look the same), another added, removed or        *)
(* context line, or the "\" line of a missing newline.  What a file is      *)
(* follows from its path.                                                   *)
PatchLine == [mark     : {"hunk", "+++", "---", "+", "-", " ", "no_newline"},
              start    : Nat,
              features : SUBSET Features]

FileValid(f) == /\ f.kind \in {"source", "test", "other"}
                /\ {f.additions, f.deletions} \subseteq Nat
                /\ f.patch \in Seq(PatchLine)

PullRequestValid(pr) ==
  /\ Len(pr.files) \in 1..MaxFiles
  /\ \A f \in Range(pr.files) : FileValid(f)
  /\ IsInjective([i \in DOMAIN pr.files |-> pr.files[i].path])

-----------------------------------------------------------------------------

\* added_lines: the added lines with their numbers in the new file; what begins with
\* "+++" is passed over and does not count.
AddedLines(patch) ==
  LET read(seen, l) ==
        CASE l.mark = "hunk" -> [seen EXCEPT !.current = l.start]
          [] l.mark = "+" ->
               [current |-> seen.current + 1,
                lines |-> seen.lines \cup {[line |-> IF seen.current = 0 THEN 1 ELSE seen.current,
                                            features |-> l.features]}]
          [] l.mark = " " -> [seen EXCEPT !.current = @ + 1]
          [] OTHER -> seen
  IN  FoldLeft(read, [current |-> 0, lines |-> {}], patch).lines

\* A finding about a whole file has no line: 0.
Finding(rule, severity, file, line) ==
  [rule |-> rule, severity |-> severity, path |-> file.path, line |-> line]

\* The findings of a rule that looks for a feature in the added lines, without
\* another that excuses it.
InLines(pr, rule, severity, feature, excuses) ==
  UNION {{Finding(rule, severity, f, l.line) :
            l \in {a \in AddedLines(f.patch) : feature \in a.features /\ excuses \cap a.features = {}}}
         : f \in Range(pr.files)}

SecurityReview(pr) ==
  InLines(pr, "SEC001", "critical", "secret", {})
  \cup InLines(pr, "SEC002", "high", "execution", {})

ReliabilityReview(pr) ==
  InLines(pr, "REL001", "medium", "network", {"timeout"})
  \cup InLines(pr, "REL002", "medium", "broad_except", {})

\* TST001 is about the first source file, TST002 about every thinned test.
TestingReview(pr) ==
  LET sources == {i \in DOMAIN pr.files : pr.files[i].kind = "source"}
      tests   == {f \in Range(pr.files) : f.kind = "test"}
  IN  (IF sources # {} /\ tests = {}
       THEN {Finding("TST001", "medium", pr.files[Min(sources)], 0)} ELSE {})
      \cup {Finding("TST002", "high", f, 0) : f \in {t \in tests : t.deletions > 0 /\ t.additions = 0}}

MaintainabilityReview(pr) ==
  {Finding("MNT001", "medium", f, 0) : f \in {g \in Range(pr.files) : g.additions > LargeChange}}
  \cup InLines(pr, "MNT002", "low", "debt", {})

Reviewed(name, pr) ==
  CASE name = "security"        -> SecurityReview(pr)
    [] name = "reliability"     -> ReliabilityReview(pr)
    [] name = "testing"         -> TestingReview(pr)
    [] name = "maintainability" -> MaintainabilityReview(pr)

-----------------------------------------------------------------------------

\* Mutant: a reviewer that failed does not degrade a review that has its quorum.
CouncilDecision_Quorum(failed, findings) ==
  LET severities == {f.severity : f \in findings}
  IN  IF \/ Cardinality(EnabledReviewers \ failed) < MinimumSuccessful
         \/ severities \cap BlockingSeverities # {} THEN "blocked"
      ELSE IF severities \cap {"high", "medium"} # {} THEN "changes_requested"
      ELSE "approved"

CouncilDecision(failed, findings) ==
  LET severities == {f.severity : f \in findings}
  IN  IF \/ Cardinality(EnabledReviewers \ failed) < MinimumSuccessful
         \/ severities \cap BlockingSeverities # {} THEN "blocked"
      ELSE IF failed # {} THEN "degraded"
      ELSE IF severities \cap {"high", "medium"} # {} THEN "changes_requested"
      ELSE "approved"

(* ReviewCouncil.review, when the given reviewers raise or return something *)
(* other than findings.  The report is a function of the snapshot and of    *)
(* these failures; the order of its findings is fixed and left out.         *)
Review(name, pr, failing) ==
  LET failed   == EnabledReviewers \cap failing
      findings == UNION {Reviewed(r, pr) : r \in EnabledReviewers \ failed}
  IN  [pr |-> name, decision |-> CouncilDecision(failed, findings),
       failed |-> failed, findings |-> findings]
=============================================================================
