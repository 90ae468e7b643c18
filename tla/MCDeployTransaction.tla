------------------------ MODULE MCDeployTransaction -------------------------
(* DeployTransaction.tla on small instances: a release of two files, numbered *)
(* 1 and 2, deployed over an older one that has file 3 as well.               *)
EXTENDS DeployTransaction

MCReleaseSpec ==
  [components |-> {[name |-> "app", state |-> "ready", dependencies |-> {},
                    artifacts |-> <<1>>],
                   [name |-> "config", state |-> "ready", dependencies |-> {"app"},
                    artifacts |-> <<2>>]}]

MCBundles == {1 :> "v2" @@ 2 :> "v2", 1 :> "v1" @@ 2 :> "v3", 1 :> "v2" @@ 2 :> Link}

MCLives == {1 :> "v1" @@ 3 :> "old", 1 :> "hand" @@ 2 :> "v2", 1 :> "hand" @@ 2 :> Link}

MCStart == {<<1 :> "v2" @@ 2 :> "v2", 1 :> "v1" @@ 3 :> "old">>}

\* Where operators get into each other's way, one thing more that goes wrong is enough.
OneFaultInRaces == exclusive \/ crashes + failures + edits <= 1

MCSymmetry == Permutations(Proc)
=============================================================================
