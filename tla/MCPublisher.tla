---------------------------- MODULE MCPublisher -----------------------------
(* Publisher.tla on a small instance: a pull request that deserves approval,  *)
(* one that does not, and any one reviewer that may fail.                     *)
EXTENDS Publisher, TLC

Line(mark, features) == [mark |-> mark, start |-> 3, features |-> features]

File(path, kind, patch) ==
  [path |-> path, kind |-> kind, additions |-> 1, deletions |-> 0, patch |-> patch]

Hunk == Line("hunk", {})

\* A removed secret, an old debt, and a call with a timeout added: nothing to object to.
\* What stands in a line that begins with "+++" is not looked at.
Good == [files |-> << File("client", "source", <<Line("+++", {"broad_except"}), Hunk,
                             Line("-", {"secret"}), Line(" ", {"debt"}),
                             Line("+", {"network", "timeout"})>>),
                      File("test", "test", <<Hunk, Line("+", {"debt"}), Line("no_newline", {})>>) >>]

\* The same call without its timeout, which only the reliability reviewer sees.
Slow == [Good EXCEPT !.files[1].patch[5].features = {"network"}]

\* A secret added, no test, and a large change.
Leak == [files |-> << [File("client", "source", <<Line("+", {"secret", "broad_except"})>>)
                       EXCEPT !.additions = 601] >>]

\* The good one with its test thinned out.
Thin == [Good EXCEPT !.files[2].additions = 0, !.files[2].deletions = 2, !.files[2].patch = << >>]

MCSnapshotOf(n) ==
  CASE n = "good" -> Good [] n = "slow" -> Slow [] n = "thin" -> Thin [] OTHER -> Leak

MCRuns == {[pr |-> "good", failing |-> {}],
           [pr |-> "slow", failing |-> {"reliability"}],
           [pr |-> "thin", failing |-> {}],
           [pr |-> "leak", failing |-> {"security"}]}

\* Where operators get into each other's way, two publications and one thing that
\* goes wrong are enough.
FewFaultsInRaces == exclusive \/ (publications <= 2 /\ crashes + failures + edits <= 1)

\* The command line builds no other council.
ASSUME DefaultCouncil

MCSymmetry == Permutations(Proc)
=============================================================================
