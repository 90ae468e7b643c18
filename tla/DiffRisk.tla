------------------------------ MODULE DiffRisk ------------------------------
(* The versioned diff-risk score of release_gate/risk.py: points for the     *)
(* volume of a change and for what its paths touch, capped at 100.           *)
EXTENDS Integers, FiniteSets, FiniteSetsExt

CONSTANTS
  Path,       \* repository paths, as normalize_repo_path returns them
  FoldOf,     \* the case folding of a path, by which two paths collide
  Touches     \* the categories the words of a path put it into

Category == {"WORKFLOW", "MIGRATION", "AUTH", "SECRET", "DEPENDENCY", "PUBLIC_API"}

ASSUME PathAssumption ==
  /\ FoldOf \in [Path -> Path]
  /\ Touches \in [Path -> SUBSET Category]

NoClaim == -1

\* An entry of diff.files: what the score looks at.
Change == [path : Path, lines : Nat, binary : BOOLEAN]

CategoryPoints == [WORKFLOW |-> 20, MIGRATION |-> 18, AUTH |-> 18, SECRET |-> 20,
                   DEPENDENCY |-> 12, PUBLIC_API |-> 10]

Least(a, b) == IF a <= b THEN a ELSE b

\* Changed files and lines, each worth at most 20 points, and something if any.
VolumePoints(n, per) == IF n = 0 THEN 0 ELSE Least(20, n \div per + 1)

ChangedLines(files) == MapThenSumSet(LAMBDA i : files[i].lines, DOMAIN files)
BinaryCount(files)  == Cardinality({i \in DOMAIN files : files[i].binary})
Touched(files)      == UNION {Touches[files[i].path] : i \in DOMAIN files}

\* score_diff's score of a list of files.
Score(files) ==
  Least(100,
        VolumePoints(Cardinality(DOMAIN files), 5)
      + VolumePoints(ChangedLines(files), 250)
      + MapThenSumSet(LAMBDA c : CategoryPoints[c], Touched(files))
      + Least(10, 2 * BinaryCount(files)))

PathsCollide(files) ==
  \E i, j \in DOMAIN files : i # j /\ FoldOf[files[i].path] = FoldOf[files[j].path]

ClaimIsWrong(diff) == diff.claimed \notin {NoClaim, Score(diff.files)}

\* What score_diff refuses: paths that collide, and a claim that is not the score.
DiffRefused(diff) == PathsCollide(diff.files) \/ ClaimIsWrong(diff)
=============================================================================
