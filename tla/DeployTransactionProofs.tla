---------------------- MODULE DeployTransactionProofs -----------------------
(***************************************************************************)
(* Proofs about DeployTransaction.tla, for every number of operators,      *)
(* release spec, contents of the directories, crashes, failures and        *)
(* changes by others, and whether or not anybody keeps off.                *)
(***************************************************************************)
EXTENDS DeployTransaction, FiniteSetTheorems, WellFoundedInduction, SequenceTheorems, TLAPS

Labels == Applying \cup {"idle", "check", "mkdir", "reclear", "recopy"}

\* What the argument needs of the shapes: which operator stands where, and that every
\* transaction directory has a snapshot and a status.
Shape ==
  /\ pc \in [Proc -> Labels]
  /\ plan = [p \in Proc |-> plan[p]]
  /\ todo = [p \in Proc |-> todo[p]]
  /\ evidence = [t \in DOMAIN evidence |-> evidence[t]]
  /\ \A t \in DOMAIN evidence :
       evidence[t] = [taken |-> evidence[t].taken, snapshot |-> evidence[t].snapshot,
                      status |-> evidence[t].status]

\* The status of a plan that somebody applies is not written yet, that of a plan that
\* somebody rolls back is.
StatusInv ==
  \A p \in Proc :
    /\ pc[p] \in Applying => plan[p] \in DOMAIN evidence /\ evidence[plan[p]].status = "none"
    /\ RollingBack(p) => plan[p] \in DOMAIN evidence /\ evidence[plan[p]].status # "none"

Alone ==
  \A p, q \in Proc :
    p # q /\ pc[p] \in Applying /\ pc[q] \in Applying => plan[p] # plan[q]

IInv == Shape /\ StatusInv /\ Alone

-----------------------------------------------------------------------------
\* Every step keeps these shapes.
LEMMA ShapeStep ==
  ASSUME Shape, StatusInv, [Next]_vars
  PROVE  Shape'
<1> USE DEF Shape, Labels, Applying, StatusInv, RollingBack
<1>1. ASSUME NEW p \in Proc, BuildPlan(p) PROVE Shape'
  BY <1>1 DEF BuildPlan, dirs
<1>2. ASSUME NEW p \in Proc, NEW t \in plans, StartApply(p, t) PROVE Shape'
  BY <1>2 DEF StartApply, Enter, Goto
<1>3. ASSUME NEW p \in Proc, NEW t \in plans, StartRollback(p, t) PROVE Shape'
  BY <1>3 DEF StartRollback, Enter, Goto
<1>4. ASSUME NEW p \in Proc, CheckPreconditions(p) PROVE Shape'
  BY <1>4 DEF CheckPreconditions, Step, Leave, Goto
<1>5. ASSUME NEW p \in Proc, MakeTransactionDir(p) PROVE Shape'
  BY <1>5 DEF MakeTransactionDir, Step, Leave, NoEvidence, Goto, Put
<1>6. ASSUME NEW p \in Proc, CopySnapshot(p) PROVE Shape'
  BY <1>6 DEF CopySnapshot, Step, Leave, Goto
<1>7. ASSUME NEW p \in Proc, PerformOperation(p) PROVE Shape'
  BY <1>7 DEF PerformOperation, Step, Goto
<1>8. ASSUME NEW p \in Proc, CheckPostcondition(p) PROVE Shape'
  BY <1>8 DEF CheckPostcondition, Step, Goto
<1>9. ASSUME NEW p \in Proc, MarkApplied(p) PROVE Shape'
  BY <1>9 DEF MarkApplied, Step, Leave, SetStatus, Goto
<1>10. ASSUME NEW p \in Proc, ClearLive(p) PROVE Shape'
  BY <1>10 DEF ClearLive, Goto
<1>11. ASSUME NEW p \in Proc, CopyBack(p) PROVE Shape'
  BY <1>11 DEF CopyBack, Goto
<1>12. ASSUME NEW p \in Proc, RestoreRaises(p) PROVE Shape'
  BY <1>12 DEF RestoreRaises, Leave, Goto
<1>13. ASSUME NEW p \in Proc, MarkAutoRolledBack(p) PROVE Shape'
  <2>1. /\ pc' = [pc EXCEPT ![p] = "idle"]
        /\ plan' = [plan EXCEPT ![p] = NoPlan]
        /\ todo' = [todo EXCEPT ![p] = << >>]
        /\ evidence' = [evidence EXCEPT ![plan[p]].status = "auto_rolled_back"]
    BY <1>13 DEF MarkAutoRolledBack, Leave, SetStatus, Goto
  <2>2. pc' \in [Proc -> Labels] /\ plan' = [q \in Proc |-> plan'[q]]
       /\ todo' = [q \in Proc |-> todo'[q]]
    BY <2>1
  <2>3. evidence' = [t \in DOMAIN evidence' |-> evidence'[t]]
    BY <2>1
  <2>4. \A t \in DOMAIN evidence' :
          evidence'[t] = [taken |-> evidence'[t].taken, snapshot |-> evidence'[t].snapshot,
                          status |-> evidence'[t].status]
    BY <2>1
  <2>5. QED  BY <2>2, <2>3, <2>4
<1>14. ASSUME NEW p \in Proc, MarkRolledBack(p) PROVE Shape'
  <2>1. /\ pc' = [pc EXCEPT ![p] = "idle"]
        /\ plan' = [plan EXCEPT ![p] = NoPlan]
        /\ todo' = [todo EXCEPT ![p] = << >>]
        /\ \/ evidence' = [evidence EXCEPT ![plan[p]].status = "rolled_back"]
           \/ evidence' = evidence
    BY <1>14 DEF MarkRolledBack, Leave, SetStatus, Goto
  <2>2. pc' \in [Proc -> Labels] /\ plan' = [q \in Proc |-> plan'[q]]
       /\ todo' = [q \in Proc |-> todo'[q]]
    BY <2>1
  <2>3. evidence' = [t \in DOMAIN evidence' |-> evidence'[t]]
    BY <2>1
  <2>4. \A t \in DOMAIN evidence' :
          evidence'[t] = [taken |-> evidence'[t].taken, snapshot |-> evidence'[t].snapshot,
                          status |-> evidence'[t].status]
    BY <2>1
  <2>5. QED  BY <2>2, <2>3, <2>4
<1>15. ASSUME NEW p \in Proc, Crash(p) PROVE Shape'
  BY <1>15 DEF Crash, Leave, Goto
<1>16. ASSUME Change PROVE Shape'
  BY <1>16 DEF Change
<1>17. CASE UNCHANGED vars
  BY <1>17 DEF vars
<1>18. QED  BY <1>1, <1>2, <1>3, <1>4, <1>5, <1>6, <1>7, <1>8, <1>9,
               <1>10, <1>11, <1>12, <1>13, <1>14, <1>15, <1>16, <1>17 DEF Next, Move

\* Only the operator that applies a plan writes its first status
\* (transactions.py:312-327), and only a written one is rolled back (362-371).
LEMMA StatusStep ==
  ASSUME Shape, StatusInv, Alone, [Next]_vars
  PROVE  StatusInv'
<1> USE DEF Shape, Labels, Applying, StatusInv, Alone, RollingBack
<1>1. ASSUME NEW p \in Proc, BuildPlan(p) PROVE StatusInv'
  BY <1>1 DEF BuildPlan, dirs
<1>2. ASSUME NEW p \in Proc, NEW t \in plans, StartApply(p, t) PROVE StatusInv'
  BY <1>2 DEF StartApply, Enter, Goto
<1>3. ASSUME NEW p \in Proc, NEW t \in plans, StartRollback(p, t) PROVE StatusInv'
  BY <1>3 DEF StartRollback, Enter, Goto
<1>4. ASSUME NEW p \in Proc, CheckPreconditions(p) PROVE StatusInv'
  BY <1>4 DEF CheckPreconditions, Step, Leave, Goto
<1>5. ASSUME NEW p \in Proc, MakeTransactionDir(p) PROVE StatusInv'
  BY <1>5 DEF MakeTransactionDir, Step, Leave, NoEvidence, Goto, Put
<1>6. ASSUME NEW p \in Proc, CopySnapshot(p) PROVE StatusInv'
  BY <1>6 DEF CopySnapshot, Step, Leave, Goto
<1>7. ASSUME NEW p \in Proc, PerformOperation(p) PROVE StatusInv'
  BY <1>7 DEF PerformOperation, Step, Goto
<1>8. ASSUME NEW p \in Proc, CheckPostcondition(p) PROVE StatusInv'
  BY <1>8 DEF CheckPostcondition, Step, Goto
<1>9. ASSUME NEW p \in Proc, MarkApplied(p) PROVE StatusInv'
  BY <1>9 DEF MarkApplied, Step, Leave, SetStatus, Goto
<1>10. ASSUME NEW p \in Proc, ClearLive(p) PROVE StatusInv'
  BY <1>10 DEF ClearLive, Goto
<1>11. ASSUME NEW p \in Proc, CopyBack(p) PROVE StatusInv'
  BY <1>11 DEF CopyBack, Goto
<1>12. ASSUME NEW p \in Proc, RestoreRaises(p) PROVE StatusInv'
  BY <1>12 DEF RestoreRaises, Leave, Goto
<1>13. ASSUME NEW p \in Proc, MarkAutoRolledBack(p) PROVE StatusInv'
  BY <1>13 DEF MarkAutoRolledBack, Leave, SetStatus, Goto
<1>14. ASSUME NEW p \in Proc, MarkRolledBack(p) PROVE StatusInv'
  BY <1>14 DEF MarkRolledBack, Leave, SetStatus, Goto
<1>15. ASSUME NEW p \in Proc, Crash(p) PROVE StatusInv'
  BY <1>15 DEF Crash, Leave, Goto
<1>16. ASSUME Change PROVE StatusInv'
  BY <1>16 DEF Change
<1>17. CASE UNCHANGED vars
  BY <1>17 DEF vars
<1>18. QED  BY <1>1, <1>2, <1>3, <1>4, <1>5, <1>6, <1>7, <1>8, <1>9,
               <1>10, <1>11, <1>12, <1>13, <1>14, <1>15, <1>16, <1>17 DEF Next, Move

\* mkdir(exist_ok=False) lets one operator through (transactions.py:294).
LEMMA AloneStep ==
  ASSUME Shape, StatusInv, Alone, [Next]_vars
  PROVE  Alone'
<1> USE DEF Shape, Labels, Applying, StatusInv, Alone
<1>1. ASSUME NEW p \in Proc, BuildPlan(p) PROVE Alone'
  BY <1>1 DEF BuildPlan, dirs
<1>2. ASSUME NEW p \in Proc, NEW t \in plans, StartApply(p, t) PROVE Alone'
  BY <1>2 DEF StartApply, Enter, Goto
<1>3. ASSUME NEW p \in Proc, NEW t \in plans, StartRollback(p, t) PROVE Alone'
  BY <1>3 DEF StartRollback, Enter, Goto
<1>4. ASSUME NEW p \in Proc, CheckPreconditions(p) PROVE Alone'
  BY <1>4 DEF CheckPreconditions, Step, Leave, Goto
<1>5. ASSUME NEW p \in Proc, MakeTransactionDir(p) PROVE Alone'
  BY <1>5 DEF MakeTransactionDir, Step, Leave, NoEvidence, Goto, Put
<1>6. ASSUME NEW p \in Proc, CopySnapshot(p) PROVE Alone'
  BY <1>6 DEF CopySnapshot, Step, Leave, Goto
<1>7. ASSUME NEW p \in Proc, PerformOperation(p) PROVE Alone'
  BY <1>7 DEF PerformOperation, Step, Goto
<1>8. ASSUME NEW p \in Proc, CheckPostcondition(p) PROVE Alone'
  BY <1>8 DEF CheckPostcondition, Step, Goto
<1>9. ASSUME NEW p \in Proc, MarkApplied(p) PROVE Alone'
  BY <1>9 DEF MarkApplied, Step, Leave, SetStatus, Goto
<1>10. ASSUME NEW p \in Proc, ClearLive(p) PROVE Alone'
  <2>1. UNCHANGED plan /\ (UNCHANGED pc \/ \E label : pc' = [pc EXCEPT ![p] = label])
    BY <1>10 DEF ClearLive, Goto
  <2>2. pc'[p] \in Applying => pc[p] \in Applying
    BY <1>10 DEF ClearLive, Goto, RollingBack
  <2>3. QED  BY <2>1, <2>2
<1>11. ASSUME NEW p \in Proc, CopyBack(p) PROVE Alone'
  BY <1>11 DEF CopyBack, Goto
<1>12. ASSUME NEW p \in Proc, RestoreRaises(p) PROVE Alone'
  BY <1>12 DEF RestoreRaises, Leave, Goto
<1>13. ASSUME NEW p \in Proc, MarkAutoRolledBack(p) PROVE Alone'
  BY <1>13 DEF MarkAutoRolledBack, Leave, SetStatus, Goto
<1>14. ASSUME NEW p \in Proc, MarkRolledBack(p) PROVE Alone'
  BY <1>14 DEF MarkRolledBack, Leave, SetStatus, Goto
<1>15. ASSUME NEW p \in Proc, Crash(p) PROVE Alone'
  BY <1>15 DEF Crash, Leave, Goto
<1>16. ASSUME Change PROVE Alone'
  BY <1>16 DEF Change
<1>17. CASE UNCHANGED vars
  BY <1>17 DEF vars
<1>18. QED  BY <1>1, <1>2, <1>3, <1>4, <1>5, <1>6, <1>7, <1>8, <1>9,
               <1>10, <1>11, <1>12, <1>13, <1>14, <1>15, <1>16, <1>17 DEF Next, Move

\* The invariant behind the theorem below, inductive as it stands.
THEOREM InvariantHolds == Spec => []IInv
<1>1. Init => IInv
  BY DEF Init, IInv, Shape, StatusInv, Alone, Labels, Applying, RollingBack
<1>2. IInv /\ [Next]_vars => IInv'
  BY ShapeStep, StatusStep, AloneStep DEF IInv
<1>3. QED  BY <1>1, <1>2, PTL DEF Spec

\* The transaction directory is the mutex of its plan (transactions.py:271-294, 362-371),
\* for any number of operators, also when others change both directories meanwhile.
THEOREM PlansAreExclusive == Spec => []OneApplierPerPlan
<1>1. IInv => OneApplierPerPlan
  BY DEF IInv, StatusInv, Alone, OneApplierPerPlan
<1>2. QED  BY <1>1, InvariantHolds, PTL


-----------------------------------------------------------------------------
(* The helpers on directories and plans (DeployTruth.tla).                 *)

\* A set of sets of numbers has a member without a proper part in it.
LEMMA SmallestSet ==
  ASSUME NEW U, U # {}, \A T \in U : IsFiniteSet(T) /\ T \subseteq Nat
  PROVE  \E T \in U : \A V \in U : V \subseteq T => V = T
<1> DEFINE S == FiniteSubsetsOf(Nat)
           R == StrictSubsetOrdering(Nat)
<1>1. IsWellFoundedOn(R, S)
  BY FS_StrictSubsetOrderingWellFounded
<1>2. U \subseteq S
  BY DEF FiniteSubsetsOf
<1> HIDE DEF R, S
<1>3. PICK T \in U : \A V \in U : <<V, T>> \notin R
  BY ONLY <1>1, <1>2, U # {}, WFMin
<1>4. ASSUME NEW V \in U, V \subseteq T, V # T PROVE FALSE
  <2>1. <<V, T>> \in R
    BY <1>4 DEF R, StrictSubsetOrdering
  <2>2. QED
    BY <2>1, <1>3
<1>5. QED
  BY <1>4

\* A set of paths has a last one.
LEMMA LastPath ==
  ASSUME NEW S, IsFiniteSet(S), S \subseteq Nat, S # {}
  PROVE  \E m \in S : \A x \in S : x <= m
<1> DEFINE HasLast(T) == \E m \in T : \A x \in T : x <= m
           U == {T \in SUBSET S : T # {} /\ ~HasLast(T)}
<1>1. SUFFICES ASSUME U # {} PROVE FALSE
  <2>1. S \in SUBSET S
    OBVIOUS
  <2>2. QED
    BY <2>1
<1>2. \A T \in U : IsFiniteSet(T) /\ T \subseteq Nat
  BY FS_Subset
<1>3. PICK T \in U : \A V \in U : V \subseteq T => V = T
  <2> HIDE DEF U
  <2>1. QED
    BY ONLY <1>1, <1>2, SmallestSet
<1>4. PICK x \in T : x \in Nat
  <2>1. T # {}
    BY <1>3
  <2>2. T \subseteq Nat
    BY <1>2, <1>3
  <2>3. QED
    BY <2>1, <2>2
<1>5. T \ {x} \notin U
  BY <1>3, <1>4
<1>6. CASE T \ {x} = {}
  <2>1. \A y \in T : y = x
    BY <1>6
  <2>2. HasLast(T)
    BY <2>1, <1>4
  <2>3. QED
    BY <2>2, <1>3
<1>7. CASE T \ {x} # {}
  <2>1. T \ {x} \in SUBSET S
    BY <1>3
  <2>2. PICK m \in T \ {x} : \A y \in T \ {x} : y <= m
    BY <2>1, <1>5, <1>7
  <2>3. T \subseteq Nat
    BY <1>2, <1>3
  <2>4. CASE x <= m
    <3>1. \A y \in T : y <= m
      BY <2>2, <2>4
    <3>2. QED
      BY <3>1, <2>2, <1>3
  <2>5. CASE ~(x <= m)
    <3>1. \A y \in T : y <= x
      BY <2>2, <2>3, <2>5, <1>4
    <3>2. QED
      BY <3>1, <1>4, <1>3
  <2>6. QED
    BY <2>4, <2>5
<1>8. QED
  BY <1>6, <1>7

\* A set of paths can be put in order.
LEMMA PathsHaveAnOrder ==
  ASSUME NEW S, IsFiniteSet(S), S \subseteq Nat
  PROVE  \E s \in [1..Cardinality(S) -> S] : \A i, j \in DOMAIN s : i < j => s[i] < s[j]
<1> DEFINE Ordered(T) ==
             \E s \in [1..Cardinality(T) -> T] : \A i, j \in DOMAIN s : i < j => s[i] < s[j]
           U == {T \in SUBSET S : ~Ordered(T)}
<1>1. SUFFICES ASSUME U # {} PROVE FALSE
  <2>1. S \in SUBSET S
    OBVIOUS
  <2>2. Ordered(S)
    BY <2>1
  <2>3. QED
    BY <2>2
<1>2. \A T \in U : IsFiniteSet(T) /\ T \subseteq Nat
  BY FS_Subset
<1>3. PICK T \in U : \A V \in U : V \subseteq T => V = T
  <2> HIDE DEF U
  <2>1. QED
    BY ONLY <1>1, <1>2, SmallestSet
<1>4. IsFiniteSet(T) /\ T \subseteq Nat /\ Cardinality(T) \in Nat
  BY <1>2, <1>3, FS_CardinalityType
<1>5. CASE T = {}
  <2>1. Cardinality(T) = 0
    BY <1>5, FS_EmptySet
  <2>2. 1..Cardinality(T) = {}
    BY <2>1
  <2>3. [i \in {} |-> 0] \in [1..Cardinality(T) -> T]
    BY <2>2
  <2>4. Ordered(T)
    BY <2>3
  <2>5. QED
    BY <2>4, <1>3
<1>6. CASE T # {}
  <2>1. PICK m \in T : \A x \in T : x <= m
    BY <1>4, <1>6, LastPath
  <2> DEFINE V == T \ {m}
             n == Cardinality(V)
  <2>2. IsFiniteSet(V) /\ n = Cardinality(T) - 1 /\ n \in Nat
    <3>1. IsFiniteSet(V) /\ n = Cardinality(T) - 1
      BY <2>1, <1>4, FS_RemoveElement
    <3>2. n \in Nat
      BY <3>1, FS_CardinalityType
    <3>3. QED
      BY <3>1, <3>2
  <2>3. V \notin U /\ V \in SUBSET S
    BY <1>3, <2>1
  <2>4. PICK s \in [1..n -> V] : \A i, j \in DOMAIN s : i < j => s[i] < s[j]
    BY <2>3
  <2> HIDE DEF n
  <2> DEFINE r == [i \in 1..(n + 1) |-> IF i = n + 1 THEN m ELSE s[i]]
  <2>5. Cardinality(T) = n + 1
    BY <2>2, <1>4
  <2>6. r \in [1..(n + 1) -> T]
    <3>1. \A i \in 1..(n + 1) : i # n + 1 => i \in 1..n
      BY <2>2
    <3>2. QED
      BY <3>1, <2>1, <2>4
  <2>7. ASSUME NEW i \in DOMAIN r, NEW j \in DOMAIN r, i < j PROVE r[i] < r[j]
    <3>1. i \in 1..n
      BY <2>7, <2>2
    <3>2. r[i] = s[i] /\ s[i] \in V
      BY <3>1, <2>4, <2>2
    <3>3. CASE j = n + 1
      <4>1. r[j] = m
        BY <3>3
      <4>2. s[i] <= m /\ s[i] # m /\ s[i] \in Nat /\ m \in Nat
        BY <3>2, <2>1, <1>4
      <4>3. QED
        BY <4>1, <4>2, <3>2
    <3>4. CASE j # n + 1
      <4>1. j \in 1..n /\ r[j] = s[j]
        BY <3>4, <2>7, <2>2
      <4>2. QED
        BY <4>1, <3>1, <3>2, <2>4, <2>7
    <3>5. QED
      BY <3>3, <3>4
  <2>8. Ordered(T)
    <3> HIDE DEF r
    <3>1. \A i, j \in DOMAIN r : i < j => r[i] < r[j]
      BY <2>7
    <3>2. QED
      BY <3>1, <2>6, <2>5
  <2>9. QED
    BY <2>8, <1>3
<1>7. QED
  BY <1>5, <1>6

\* sorted() of a set of paths is a sequence of exactly these paths (transactions.py:94-101).
LEMMA SortedPathsOf ==
  ASSUME NEW S, IsFiniteSet(S), S \subseteq Nat
  PROVE  SortedPaths(S) \in Seq(S) /\ \A x \in S : \E i \in DOMAIN SortedPaths(S) : SortedPaths(S)[i] = x
<1> DEFINE n == Cardinality(S)
           s == SortedPaths(S)
<1>1. s \in [1..n -> S] /\ \A i, j \in DOMAIN s : i < j => s[i] < s[j]
  BY PathsHaveAnOrder DEF SortedPaths
<1>2. n \in Nat
  BY FS_CardinalityType
<1>3. IsFiniteSet(1..n) /\ Cardinality(1..n) = n
  BY <1>2, FS_Interval
<1> HIDE DEF s, n
<1>4. s \in Injection(1..n, S)
  <2>1. ASSUME NEW i \in 1..n, NEW j \in 1..n, s[i] = s[j] PROVE i = j
    <3>1. s[i] \in Nat /\ s[j] \in Nat
      BY <1>1
    <3>2. ~(i < j) /\ ~(j < i)
      BY <3>1, <2>1, <1>1
    <3>3. QED
      BY <3>2, <1>2
  <2>2. QED
    BY <2>1, <1>1 DEF Injection, IsInjective
<1>5. s \in Surjection(1..n, S)
  BY <1>3, <1>4, FS_Injection DEF n
<1>6. s \in Seq(S)
  BY <1>1, <1>2
<1>7. \A x \in S : \E i \in DOMAIN s : s[i] = x
  BY <1>5 DEF Surjection
<1>8. QED
  BY <1>6, <1>7 DEF s


LEMMA PutKeepsDirectory ==
  ASSUME NEW dir, IsDirectory(dir), NEW path \in Nat, NEW contents
  PROVE  /\ IsDirectory(Put(dir, path, contents))
         /\ DOMAIN Put(dir, path, contents) = DOMAIN dir \cup {path}
         /\ Put(dir, path, contents)[path] = contents
         /\ \A other \in DOMAIN dir : other # path => Put(dir, path, contents)[other] = dir[other]
<1>1. IsFiniteSet(DOMAIN dir \cup {path})
  BY FS_AddElement DEF IsDirectory
<1>2. QED
  BY <1>1 DEF IsDirectory, Put

LEMMA RemoveKeepsDirectory ==
  ASSUME NEW dir, IsDirectory(dir), NEW path
  PROVE  /\ IsDirectory(Restrict(dir, DOMAIN dir \ {path}))
         /\ Within(Restrict(dir, DOMAIN dir \ {path}), dir)
<1>1. IsFiniteSet(DOMAIN dir \ {path})
  BY FS_RemoveElement DEF IsDirectory
<1>2. QED
  BY <1>1 DEF IsDirectory, Restrict, Within

\* What is taken from a directory leaves it between, or within, what it was.
LEMMA PartsStay ==
  ASSUME NEW part, NEW dir, Within(part, dir)
  PROVE  /\ \A t : Between(dir, t) => Between(part, t)
         /\ \A whole : Within(dir, whole) => Within(part, whole)
  BY DEF Within, Between

\* Directories with the same files are one directory.
LEMMA SameDirectory ==
  ASSUME NEW dir, NEW whole, IsDirectory(dir), IsDirectory(whole),
         Within(dir, whole), DOMAIN whole \subseteq DOMAIN dir
  PROVE  dir = whole
<1>1. DOMAIN dir = DOMAIN whole /\ \A path \in DOMAIN whole : dir[path] = whole[path]
  BY DEF Within
<1>2. QED
  BY <1>1 DEF IsDirectory

-----------------------------------------------------------------------------

\* The operations a plan may have: its writes are of files of the release.
OpsOf(t) ==
  [kind : {"write"}, path : DOMAIN t.desired,
   bundle_sha : SUBSET Range(t.desired), previous : SUBSET Range(t.before)]
  \cup
  [kind : {"delete"}, path : DOMAIN t.before,
   bundle_sha : {{}}, previous : SUBSET Range(t.before)]

IsPlan(t) ==
  /\ IsDirectory(t.before) /\ IsDirectory(t.desired)
  /\ DOMAIN t.desired = Expected(ReleaseSpec)
  /\ t.operations \in Seq(OpsOf(t))

\* A release consists of some file.
LEMMA ReleaseHasFiles == Expected(ReleaseSpec) # {}
<1>1. ReleaseSpec.components # {}
  <2>1. Cardinality(ReleaseSpec.components) \in 1..MaxComponents /\ MaxComponents \in Nat
    BY DeployAssumption DEF SpecValid
  <2>2. Cardinality(ReleaseSpec.components) # 0
    BY <2>1
  <2>3. QED
    BY <2>2, FS_EmptySet
<1>2. PICK c \in ReleaseSpec.components : TRUE
  BY <1>1
<1>3. c.artifacts \in Seq(Nat) /\ Len(c.artifacts) \in 1..MaxArtifacts /\ MaxArtifacts \in Nat
  BY DeployAssumption DEF SpecValid, ComponentValid
<1>4. 1 \in DOMAIN c.artifacts
  <2> DEFINE k == Len(c.artifacts)
  <2>1. k \in Nat /\ 1 <= k
    BY <1>3
  <2>2. DOMAIN c.artifacts = 1..k
    BY <1>3, LenProperties
  <2> HIDE DEF k
  <2>3. QED
    BY <2>1, <2>2
<1>5. c.artifacts[1] \in Range(c.artifacts)
  BY <1>4 DEF Range
<1>6. QED
  BY <1>5 DEF Expected

LEMMA CaptureIsContent ==
  ASSUME NEW dir, Capture(dir).state = "captured"
  PROVE  Capture(dir) = [state |-> "captured", artifacts |-> dir] /\ Content(dir) = dir
  BY DEF Capture, Content

\* Mapping a sequence.
LEMMA MappedSequence ==
  ASSUME NEW S, NEW T, NEW s \in Seq(S), NEW f, f = [i \in DOMAIN s |-> f[i]],
         \A i \in DOMAIN s : f[i] \in T
  PROVE  f \in Seq(T)
<1>1. Len(s) \in Nat /\ DOMAIN s = 1..Len(s)
  BY LenProperties
<1>2. f \in [1..Len(s) -> T]
  BY <1>1
<1>3. QED
  BY <1>1, <1>2

\* DeploymentPlan.create from two captured directories makes a plan.
LEMMA CreatePlanIsPlan ==
  ASSUME IsDirectory(bundle), IsDirectory(live),
         Plannable(ReleaseSpec, Capture(bundle), Capture(live))
  PROVE  IsPlan(CreatePlan(ReleaseSpec, Capture(bundle), Capture(live)))
<1> DEFINE t == CreatePlan(ReleaseSpec, Capture(bundle), Capture(live))
           E == Expected(ReleaseSpec)
           old == Capture(live).artifacts
           new == Capture(bundle).artifacts
           previous(path) == IF path \in DOMAIN old THEN {old[path]} ELSE {}
           writes == {path \in E : {new[path]} # previous(path)}
           deletes == DOMAIN old \ E
           ws == SortedPaths(writes)
           ds == SortedPaths(deletes)
           first == [i \in DOMAIN ws |-> Operation("write", ws[i], {new[ws[i]]}, previous(ws[i]))]
           second == [i \in DOMAIN ds |-> Operation("delete", ds[i], {}, previous(ds[i]))]
<1> SUFFICES IsPlan(t)
  OBVIOUS
<1>1. IsDirectory(old) /\ IsDirectory(new)
  BY CaptureIsContent DEF Plannable
<1>2. DOMAIN new = E
  BY DEF Plannable
<1>3. t.before = old /\ t.desired = new
  BY DEF CreatePlan
<1>4. t.operations = first \o second
  <2>1. t.operations = PlanOperations(ReleaseSpec, Capture(bundle), Capture(live))
    BY DEF CreatePlan
  <2>2. PlanOperations(ReleaseSpec, Capture(bundle), Capture(live)) = first \o second
    BY DEF PlanOperations
  <2>3. QED
    BY ONLY <2>1, <2>2
<1> HIDE DEF old, new
<1>5. /\ IsFiniteSet(writes) /\ writes \subseteq Nat /\ writes \subseteq DOMAIN new
      /\ IsFiniteSet(deletes) /\ deletes \subseteq Nat /\ deletes \subseteq DOMAIN old
  <2>1. writes \subseteq DOMAIN new /\ deletes \subseteq DOMAIN old
    BY <1>2
  <2>2. QED
    BY <2>1, <1>1, FS_Subset DEF IsDirectory
<1>6. ws \in Seq(writes) /\ ds \in Seq(deletes)
  BY <1>5, SortedPathsOf
<1>7. \A path : previous(path) \in SUBSET Range(old)
  BY DEF Range
<1>8. first \in Seq(OpsOf(t))
  <2>1. \A i \in DOMAIN ws : ws[i] \in writes
    <3> HIDE DEF writes, ws
    <3>1. QED
      BY <1>6, ElementOfSeq, LenProperties
  <2>2. ASSUME NEW i \in DOMAIN ws PROVE first[i] \in OpsOf(t)
    <3>1. ws[i] \in DOMAIN new /\ {new[ws[i]]} \in SUBSET Range(new)
      BY <2>1, <1>5 DEF Range
    <3>2. first[i] = Operation("write", ws[i], {new[ws[i]]}, previous(ws[i]))
      OBVIOUS
    <3> HIDE DEF first, ws, t, previous
    <3>3. QED
      BY <3>1, <3>2, <1>3, <1>7 DEF OpsOf, Operation
  <2>3. first = [i \in DOMAIN ws |-> first[i]]
    OBVIOUS
  <2> HIDE DEF first, ws, t, writes
  <2>4. QED
    BY <2>2, <2>3, <1>6, MappedSequence
<1>9. second \in Seq(OpsOf(t))
  <2>1. \A i \in DOMAIN ds : ds[i] \in deletes
    <3> HIDE DEF deletes, ds
    <3>1. QED
      BY <1>6, ElementOfSeq, LenProperties
  <2>2. ASSUME NEW i \in DOMAIN ds PROVE second[i] \in OpsOf(t)
    <3>1. ds[i] \in DOMAIN old
      BY <2>1, <1>5
    <3>2. second[i] = Operation("delete", ds[i], {}, previous(ds[i]))
      OBVIOUS
    <3> HIDE DEF second, ds, t, previous
    <3>3. QED
      BY <3>1, <3>2, <1>3, <1>7 DEF OpsOf, Operation
  <2>3. second = [i \in DOMAIN ds |-> second[i]]
    OBVIOUS
  <2> HIDE DEF second, ds, t, deletes
  <2>4. QED
    BY <2>2, <2>3, <1>6, MappedSequence
<1>10. t.operations \in Seq(OpsOf(t))
  <2> HIDE DEF first, second, t
  <2>1. QED
    BY <1>4, <1>8, <1>9, ConcatProperties
<1>11. QED
  <2> HIDE DEF t
  <2>1. QED
    BY <1>1, <1>2, <1>3, <1>10 DEF IsPlan


-----------------------------------------------------------------------------
(* What holds while everybody keeps off.                                   *)

Kept == {t \in DOMAIN evidence : evidence[t].taken}
Underway == {t \in Kept : evidence[t].status \in {"none", "applied"}}
Wholes == Lives \cup {t.before : t \in Kept} \cup {t.desired : t \in Kept}

FilesInv ==
  /\ IsDirectory(bundle) /\ IsDirectory(live)
  /\ \A t \in plans : IsPlan(t)

EvidenceInv ==
  /\ DOMAIN evidence \subseteq plans
  /\ \A t \in Kept : evidence[t].snapshot = t.before

SoloInv == \A p \in Proc : pc[p] # "idle" => lock = p

LiveInv ==
  \/ live \in Wholes
  \/ \E t \in Underway : Between(live, t) \/ \E whole \in Wholes : Within(live, whole)

\* Where an operator stands with the two directories: up to its marker the bundle is
\* the planned one, up to its snapshot live is what the plan was made from, and what it
\* has copied back and has left to copy is all of that.
Stage(p) ==
  LET t == plan[p]
  IN  /\ pc[p] # "idle" => t \in plans
      /\ pc[p] \in {"mkdir", "snapshot", "operate", "mark"} =>
           Capture(bundle) = [state |-> "captured", artifacts |-> t.desired]
      /\ pc[p] \in {"mkdir", "snapshot"} => live = t.before
      /\ pc[p] \in {"operate", "mark", "clear", "copy", "reclear", "recopy"} => t \in Underway
      /\ pc[p] = "operate" => todo[p] \in Seq(OpsOf(t))
      /\ pc[p] = "mark" => live = t.desired
      /\ pc[p] \in {"operate", "clear"} => Between(live, t)
      /\ pc[p] \in {"copy", "recopy"} =>
           /\ todo[p] \in Seq(DOMAIN t.before)
           /\ Within(live, t.before)
           /\ \A path \in DOMAIN t.before :
                path \in DOMAIN live \/ \E i \in DOMAIN todo[p] : todo[p][i] = path

StageInv == \A p \in Proc : Stage(p)

\* What holds when everybody keeps off.
Good == FilesInv /\ EvidenceInv /\ SoloInv /\ StageInv /\ LiveInv

ExclusiveInv == exclusive => Good

\* Whoever moves is the only one who is anywhere.
LEMMA SoleActor ==
  ASSUME Shape, SoloInv, NEW p \in Proc, pc[p] # "idle" \/ lock = Nobody,
         NEW label, pc' = [pc EXCEPT ![p] = label], lock' = p \/ label = "idle"
  PROVE  SoloInv' /\ \A q \in Proc : q # p => pc'[q] = "idle"
<1>1. \A q \in Proc : q # p => pc[q] = "idle"
  BY DeployAssumption DEF SoloInv
<1>2. \A q \in Proc : q # p => pc'[q] = "idle"
  BY <1>1 DEF Shape
<1>3. pc'[p] = label
  BY DEF Shape
<1>4. QED
  BY <1>2, <1>3 DEF SoloInv

LEMMA OnlyStage ==
  ASSUME NEW p \in Proc, \A q \in Proc : q # p => pc'[q] = "idle", Stage(p)'
  PROVE  StageInv'
  BY DEF StageInv, Stage

LEMMA AllIdle ==
  ASSUME \A q \in Proc : pc'[q] = "idle"
  PROVE  StageInv'
  BY DEF StageInv, Stage

\* What is on disk stays.
LEMMA DiskStays ==
  ASSUME EvidenceInv, FilesInv, LiveInv, UNCHANGED <<bundle, live, plans, evidence>>
  PROVE  EvidenceInv' /\ FilesInv' /\ LiveInv'
  BY DEF EvidenceInv, FilesInv, LiveInv, Kept, Underway, Wholes

LEMMA EvidenceStays ==
  ASSUME EvidenceInv, UNCHANGED <<plans, evidence>>
  PROVE  EvidenceInv' /\ Kept' = Kept /\ Underway' = Underway /\ Wholes' = Wholes
  BY DEF EvidenceInv, Kept, Underway, Wholes

\* An operator leaves, and nothing on disk changes.
LEMMA JustLeaves ==
  ASSUME Shape, Good, NEW p \in Proc, pc[p] # "idle", NEW outcome, Leave(p, outcome),
         UNCHANGED <<bundle, live, evidence>>
  PROVE  Good'
<1>1. pc' = [pc EXCEPT ![p] = "idle"] /\ plans' = plans
  BY DEF Leave, Goto
<1>2. SoloInv' /\ \A q \in Proc : q # p => pc'[q] = "idle"
  BY <1>1, SoleActor DEF Good
<1>3. StageInv'
  BY <1>1, <1>2, AllIdle DEF Shape
<1>4. QED
  BY <1>1, <1>2, <1>3, DiskStays DEF Good

LEMMA BuildPlanStep ==
  ASSUME Shape, Good, exclusive, NEW p \in Proc, BuildPlan(p)
  PROVE  Good'
<1>1. lock = Nobody /\ UNCHANGED <<bundle, live, evidence, pc, plan, todo, lock>>
  BY DEF BuildPlan, dirs
<1>2. \A q \in Proc : pc'[q] = "idle"
  BY <1>1, DeployAssumption DEF Good, SoloInv
<1>3. plans \subseteq plans' /\ \A t \in plans' : IsPlan(t)
  <2>1. CASE Plannable(ReleaseSpec, Capture(bundle), Capture(live))
    <3>1. plans' = plans \cup {CreatePlan(ReleaseSpec, Capture(bundle), Capture(live))}
      BY <2>1 DEF BuildPlan
    <3>2. IsPlan(CreatePlan(ReleaseSpec, Capture(bundle), Capture(live)))
      BY <2>1, CreatePlanIsPlan DEF Good, FilesInv
    <3>3. QED
      BY <3>1, <3>2 DEF Good, FilesInv
  <2>2. CASE ~Plannable(ReleaseSpec, Capture(bundle), Capture(live))
    BY <2>2 DEF BuildPlan, Good, FilesInv
  <2>3. QED
    BY <2>1, <2>2
<1>4. FilesInv'
  BY <1>1, <1>3 DEF Good, FilesInv
<1>5. EvidenceInv' /\ LiveInv'
  BY <1>1, <1>3 DEF Good, EvidenceInv, LiveInv, Kept, Underway, Wholes
<1>6. SoloInv' /\ StageInv'
  BY <1>2, AllIdle DEF SoloInv
<1>7. QED
  BY <1>4, <1>5, <1>6 DEF Good

LEMMA StartStep ==
  ASSUME Shape, Good, exclusive, NEW p \in Proc, NEW t \in plans,
         StartApply(p, t) \/ StartRollback(p, t)
  PROVE  Good'
<1>1. /\ lock = Nobody /\ lock' = p
      /\ plan' = [plan EXCEPT ![p] = t]
      /\ UNCHANGED <<bundle, live, plans, evidence>>
  BY DEF StartApply, StartRollback, Enter, dirs
<1>2. PICK label : /\ pc' = [pc EXCEPT ![p] = label]
                   /\ label = "check" \/ (label = "reclear" /\ t \in Underway)
  <2>1. CASE StartApply(p, t)
    BY <2>1 DEF StartApply, Enter, Goto
  <2>2. CASE StartRollback(p, t)
    BY <2>2 DEF StartRollback, Enter, Goto, Underway, Kept
  <2>3. QED
    BY <2>1, <2>2
<1>3. SoloInv' /\ \A q \in Proc : q # p => pc'[q] = "idle"
  BY <1>1, <1>2, SoleActor DEF Good
<1>4. plan'[p] = t /\ pc'[p] = label
  BY <1>1, <1>2 DEF Shape
<1>5. Underway' = Underway
  BY <1>1 DEF Underway, Kept
<1>6. Stage(p)'
  BY <1>1, <1>2, <1>4, <1>5 DEF Stage
<1>7. StageInv'
  BY <1>3, <1>6, OnlyStage
<1>8. QED
  BY <1>1, <1>3, <1>7, DiskStays DEF Good

LEMMA CheckPreconditionsStep ==
  ASSUME Shape, Good, exclusive, NEW p \in Proc, CheckPreconditions(p)
  PROVE  Good'
<1> DEFINE new == Capture(bundle)
           old == Capture(live)
<1>1. pc[p] = "check" /\ UNCHANGED <<bundle, live, evidence>>
  BY DEF CheckPreconditions, dirs
<1>2. CASE \E outcome : Leave(p, outcome)
  BY <1>1, <1>2, JustLeaves
<1>3. CASE /\ new.state # "blocked" /\ old.state # "blocked"
           /\ new.artifacts = plan[p].desired /\ old.artifacts = plan[p].before
           /\ Step(p, "check", "mkdir") /\ UNCHANGED <<plans, todo>>
  <2>1. pc' = [pc EXCEPT ![p] = "mkdir"] /\ plan' = plan /\ lock' = lock
    BY <1>3 DEF Step, Goto
  <2>2. lock = p /\ plan[p] \in plans
    BY <1>1 DEF Good, SoloInv, StageInv, Stage
  <2>3. SoloInv' /\ \A q \in Proc : q # p => pc'[q] = "idle"
    BY <1>1, <2>1, <2>2, SoleActor DEF Good
  <2>4. new.state = "captured" /\ old.state = "captured"
    BY <1>3 DEF Capture
  <2>5. new = [state |-> "captured", artifacts |-> plan[p].desired] /\ live = plan[p].before
    BY <1>3, <2>4, CaptureIsContent
  <2>6. pc'[p] = "mkdir"
    BY <2>1 DEF Shape
  <2>7. Stage(p)'
    BY <1>1, <1>3, <2>1, <2>2, <2>5, <2>6 DEF Stage
  <2>8. StageInv'
    BY <2>3, <2>7, OnlyStage
  <2>9. QED
    BY <1>1, <1>3, <2>3, <2>8, DiskStays DEF Good
<1>4. QED
  BY <1>2, <1>3 DEF CheckPreconditions

LEMMA MakeTransactionDirStep ==
  ASSUME Shape, Good, exclusive, NEW p \in Proc, MakeTransactionDir(p)
  PROVE  Good'
<1>1. pc[p] = "mkdir" /\ UNCHANGED <<bundle, live>>
  BY DEF MakeTransactionDir, dirs
<1>2. CASE plan[p] \in DOMAIN evidence
  BY <1>1, <1>2, JustLeaves DEF MakeTransactionDir
<1>3. CASE plan[p] \notin DOMAIN evidence
  <2>1. /\ pc' = [pc EXCEPT ![p] = "snapshot"] /\ UNCHANGED <<plan, lock, plans, todo>>
        /\ evidence' = Put(evidence, plan[p], NoEvidence)
    BY <1>3 DEF MakeTransactionDir, Step, Goto
  <2>2. lock = p /\ Stage(p)
    BY <1>1 DEF Good, SoloInv, StageInv
  <2>3. SoloInv' /\ \A q \in Proc : q # p => pc'[q] = "idle"
    BY <1>1, <2>1, <2>2, SoleActor DEF Good
  <2>4. pc'[p] = "snapshot"
    BY <2>1 DEF Shape
  <2>5. Stage(p)'
    BY <1>1, <2>1, <2>2, <2>4 DEF Stage
  <2>6. /\ DOMAIN evidence' = DOMAIN evidence \cup {plan[p]}
        /\ evidence'[plan[p]].taken = FALSE
        /\ \A t \in DOMAIN evidence : evidence'[t] = evidence[t]
    BY <1>3, <2>1 DEF Put, NoEvidence
  <2>7. Kept' = Kept /\ Underway' = Underway
    BY <1>3, <2>6 DEF Kept, Underway
  <2>8. EvidenceInv'
    BY <1>1, <2>1, <2>2, <2>6, <2>7 DEF Good, EvidenceInv, Kept, Stage
  <2>9. LiveInv'
    BY <1>1, <2>7 DEF Good, LiveInv, Wholes
  <2>10. FilesInv'
    BY <1>1, <2>1 DEF Good, FilesInv
  <2>11. QED
    BY <2>3, <2>5, <2>8, <2>9, <2>10, OnlyStage DEF Good
<1>4. QED
  BY <1>2, <1>3

LEMMA CopySnapshotStep ==
  ASSUME Shape, StatusInv, Good, exclusive, NEW p \in Proc, CopySnapshot(p)
  PROVE  Good'
<1>1. pc[p] = "snapshot" /\ UNCHANGED <<bundle, live>>
  BY DEF CopySnapshot, dirs
<1>2. CASE Leave(p, "none") /\ UNCHANGED evidence
  BY <1>1, <1>2, JustLeaves
<1>3. CASE /\ Step(p, "snapshot", "operate")
           /\ evidence' = [evidence EXCEPT ![plan[p]] =
                             [taken |-> TRUE, snapshot |-> live, status |-> evidence[plan[p]].status]]
           /\ todo' = [todo EXCEPT ![p] = plan[p].operations]
           /\ UNCHANGED <<plans, bounds>>
  <2>1. pc' = [pc EXCEPT ![p] = "operate"] /\ UNCHANGED <<plan, lock>>
    BY <1>3 DEF Step, Goto
  <2>2. lock = p /\ Stage(p)
    BY <1>1 DEF Good, SoloInv, StageInv
  <2>3. SoloInv' /\ \A q \in Proc : q # p => pc'[q] = "idle"
    BY <1>1, <2>1, <2>2, SoleActor DEF Good
  <2>4. pc'[p] = "operate"
    BY <2>1 DEF Shape
  <2>5. plan[p] \in DOMAIN evidence /\ evidence[plan[p]].status = "none"
    BY <1>1 DEF StatusInv, Applying
  <2>6. /\ DOMAIN evidence' = DOMAIN evidence
        /\ evidence'[plan[p]].taken /\ evidence'[plan[p]].snapshot = live
        /\ evidence'[plan[p]].status = "none"
        /\ \A t \in DOMAIN evidence : t # plan[p] => evidence'[t] = evidence[t]
    BY <1>3, <2>5 DEF Shape
  <2>7. Kept' = Kept \cup {plan[p]} /\ Underway \subseteq Underway' /\ plan[p] \in Underway'
    BY <2>5, <2>6 DEF Kept, Underway
  <2>8. live = plan[p].before /\ plan[p] \in plans /\ IsPlan(plan[p])
    BY <1>1, <2>2 DEF Stage, Good, FilesInv
  <2>9. EvidenceInv'
    BY <1>3, <2>6, <2>7, <2>8 DEF Good, EvidenceInv, Kept
  <2>10. LiveInv'
    BY <1>1, <2>7, <2>8 DEF LiveInv, Wholes
  <2>11. FilesInv'
    BY <1>1, <1>3 DEF Good, FilesInv
  <2>12. todo' = [todo EXCEPT ![p] = plan[p].operations]
    BY <1>3
  <2>13. Stage(p)'
    <3>1. todo'[p] \in Seq(OpsOf(plan[p]))
      BY <2>8, <2>12 DEF IsPlan, Shape
    <3>2. Between(live, plan[p])
      BY <2>8 DEF Between
    <3>3. /\ plan'[p] = plan[p] /\ live' = live /\ bundle' = bundle
          /\ plan[p] \in plans' /\ plan[p] \in Underway'
      BY <1>1, <1>3, <2>1, <2>7, <2>8
    <3>4. Capture(bundle) = [state |-> "captured", artifacts |-> plan[p].desired]
      BY <1>1, <2>2 DEF Stage
    <3>5. QED
      BY <2>4, <3>1, <3>2, <3>3, <3>4 DEF Stage
  <2>14. QED
    BY <2>3, <2>9, <2>10, <2>11, <2>13, OnlyStage DEF Good
<1>4. QED
  BY <1>2, <1>3 DEF CopySnapshot


\* An operator at work stays the only one, when only live and its own stage change.
LEMMA StillAlone ==
  ASSUME Shape, Good, NEW p \in Proc, pc[p] # "idle", NEW label,
         pc' = [pc EXCEPT ![p] = label], UNCHANGED <<bundle, plans, evidence, plan, lock>>
  PROVE  /\ SoloInv' /\ EvidenceInv'
         /\ Kept' = Kept /\ Underway' = Underway /\ Wholes' = Wholes
         /\ \A q \in Proc : q # p => pc'[q] = "idle"
         /\ pc'[p] = label /\ Stage(p) /\ IsPlan(plan[p])
         /\ Stage(p)' /\ IsDirectory(live') /\ LiveInv' => Good'
<1>1. lock' = p
  BY DEF Good, SoloInv
<1>2. SoloInv' /\ \A q \in Proc : q # p => pc'[q] = "idle"
  BY <1>1, SoleActor DEF Good
<1>3. EvidenceInv' /\ Kept' = Kept /\ Underway' = Underway /\ Wholes' = Wholes
  BY EvidenceStays DEF Good
<1>4. pc'[p] = label /\ Stage(p)
  BY DEF Shape, Good, StageInv
<1>5. IsPlan(plan[p])
  BY <1>4 DEF Stage, Good, FilesInv
<1>6. ASSUME Stage(p)', IsDirectory(live'), LiveInv' PROVE Good'
  <2>1. StageInv'
    BY <1>2, <1>6, OnlyStage
  <2>2. FilesInv'
    BY <1>6 DEF Good, FilesInv
  <2>3. QED
    BY <1>2, <1>3, <1>6, <2>1, <2>2 DEF Good
<1>7. QED
  BY <1>2, <1>3, <1>4, <1>5, <1>6

LEMMA HeadAndTail ==
  ASSUME NEW S, NEW s \in Seq(S), s # << >>
  PROVE  /\ Head(s) \in S /\ Tail(s) \in Seq(S)
         /\ \A x : (\E i \in DOMAIN s : s[i] = x) => x = Head(s) \/ \E i \in DOMAIN Tail(s) : Tail(s)[i] = x
<1>1. Head(s) \in S /\ Tail(s) \in Seq(S) /\ Len(Tail(s)) = Len(s) - 1
  BY HeadTailProperties
<1>2. Len(s) \in Nat /\ Len(s) # 0 /\ DOMAIN s = 1..Len(s) /\ DOMAIN Tail(s) = 1..(Len(s) - 1)
  BY <1>1, LenProperties, EmptySeq
<1>3. Head(s) = s[1]
  BY <1>1, HeadTailProperties
<1>4. ASSUME NEW i \in DOMAIN s, s[i] # Head(s) PROVE i - 1 \in DOMAIN Tail(s) /\ Tail(s)[i - 1] = s[i]
  <2>1. i \in 2..Len(s)
    BY <1>2, <1>3, <1>4
  <2>2. i - 1 \in 1..(Len(s) - 1)
    BY <2>1, <1>2
  <2>3. Tail(s)[i - 1] = s[(i - 1) + 1]
    BY <2>2, <1>2, HeadTailProperties
  <2>4. QED
    BY <2>1, <2>2, <2>3, <1>2
<1>5. QED
  BY <1>1, <1>4

LEMMA PerformOperationStep ==
  ASSUME Shape, Good, exclusive, NEW p \in Proc, PerformOperation(p)
  PROVE  Good'
<1> DEFINE op == Head(todo[p])
           t == plan[p]
           available == op.kind = "write" => op.path \in DOMAIN bundle /\ bundle[op.path] # Link
<1>1. pc[p] = "operate" /\ todo[p] # << >> /\ UNCHANGED <<bundle, plans, evidence, plan, lock>>
  BY DEF PerformOperation, Step
<1>2. CASE available /\ Operate(p, op) /\ todo' = [todo EXCEPT ![p] = Tail(@)] /\ UNCHANGED pc
  <2>1. pc' = [pc EXCEPT ![p] = "operate"]
    BY <1>1, <1>2 DEF Shape
  <2>2. /\ Underway' = Underway /\ pc'[p] = "operate" /\ Stage(p) /\ IsPlan(t)
        /\ Stage(p)' /\ IsDirectory(live') /\ LiveInv' => Good'
    BY <1>1, <2>1, StillAlone
  <2>3. /\ t \in plans /\ t \in Underway /\ Between(live, t)
        /\ Capture(bundle) = [state |-> "captured", artifacts |-> t.desired]
        /\ todo[p] \in Seq(OpsOf(t))
    BY <1>1, <2>2 DEF Stage
  <2>4. op \in OpsOf(t) /\ Tail(todo[p]) \in Seq(OpsOf(t))
    BY <1>1, <2>3, HeadAndTail
  <2>5. todo'[p] = Tail(todo[p])
    BY <1>2 DEF Shape
  <2>6. bundle = t.desired
    BY <2>3, CaptureIsContent
  <2>7. IsDirectory(live') /\ Between(live', t)
    <3>1. CASE op.kind = "write"
      <4>1. op.path \in DOMAIN t.desired
        BY <2>4, <3>1 DEF OpsOf
      <4>2. op.path \in Nat
        BY <4>1, <2>2 DEF IsPlan, IsDirectory
      <4>3. live' = Put(live, op.path, t.desired[op.path])
        BY <1>2, <3>1, <2>6 DEF Operate
      <4>4. IsDirectory(live) 
        BY DEF Good, FilesInv
      <4> HIDE DEF op, t
      <4>5. /\ IsDirectory(live') /\ DOMAIN live' = DOMAIN live \cup {op.path}
            /\ live'[op.path] = t.desired[op.path]
            /\ \A other \in DOMAIN live : other # op.path => live'[other] = live[other]
        BY <4>2, <4>3, <4>4, PutKeepsDirectory
      <4>6. QED
        BY <4>1, <4>5, <2>3 DEF Between
    <3>2. CASE op.kind # "write"
      <4>1. live' = Restrict(live, DOMAIN live \ {op.path})
        BY <1>2, <3>2 DEF Operate
      <4>2. QED
        BY <4>1, <2>3, RemoveKeepsDirectory, PartsStay DEF Good, FilesInv
    <3>3. QED
      BY <3>1, <3>2
  <2>8. Stage(p)'
    BY <1>1, <2>2, <2>3, <2>4, <2>5, <2>7 DEF Stage
  <2>9. LiveInv'
    BY <2>2, <2>3, <2>7 DEF LiveInv
  <2>10. QED
    BY <2>2, <2>7, <2>8, <2>9
<1>3. CASE Step(p, "operate", "clear") /\ UNCHANGED live
  <2>1. pc' = [pc EXCEPT ![p] = "clear"]
    BY <1>3 DEF Step, Goto
  <2>2. /\ Underway' = Underway /\ Wholes' = Wholes /\ pc'[p] = "clear" /\ Stage(p)
        /\ Stage(p)' /\ IsDirectory(live') /\ LiveInv' => Good'
    BY <1>1, <2>1, StillAlone
  <2>3. Stage(p)'
    BY <1>1, <1>3, <2>2 DEF Stage
  <2>4. LiveInv' /\ IsDirectory(live')
    BY <1>3, <2>2 DEF Good, LiveInv, FilesInv
  <2>5. QED
    BY <2>2, <2>3, <2>4
<1>4. QED
  BY <1>2, <1>3 DEF PerformOperation

LEMMA CheckPostconditionStep ==
  ASSUME Shape, Good, exclusive, NEW p \in Proc, CheckPostcondition(p)
  PROVE  Good'
<1>1. pc[p] = "operate" /\ UNCHANGED <<bundle, live, plans, evidence, plan, lock, todo>>
  BY DEF CheckPostcondition, Step, dirs
<1>2. PICK label : /\ pc' = [pc EXCEPT ![p] = label]
                   /\ label = IF Content(live) = plan[p].desired THEN "mark" ELSE "clear"
  BY DEF CheckPostcondition, Step, Goto
<1>3. /\ Underway' = Underway /\ Wholes' = Wholes /\ pc'[p] = label /\ Stage(p) /\ IsPlan(plan[p])
      /\ Stage(p)' /\ IsDirectory(live') /\ LiveInv' => Good'
  BY <1>1, <1>2, StillAlone
<1>4. ASSUME label = "mark" PROVE live = plan[p].desired
  <2>1. Content(live) = plan[p].desired
    BY <1>2, <1>4
  <2>2. CASE Capture(live).state = "captured"
    BY <2>1, <2>2, CaptureIsContent
  <2>3. CASE Capture(live).state # "captured"
    <3>1. Content(live) = << >>
      BY <2>3 DEF Content, Capture, EmptyDirectory
    <3>2. DOMAIN plan[p].desired # {}
      BY <1>3, ReleaseHasFiles DEF IsPlan
    <3>3. QED
      BY <2>1, <3>1, <3>2
  <2>4. QED
    BY <2>2, <2>3
<1>5. Stage(p)'
  BY <1>1, <1>2, <1>3, <1>4 DEF Stage
<1>6. LiveInv' /\ IsDirectory(live')
  BY <1>1, <1>3 DEF Good, LiveInv, FilesInv
<1>7. QED
  BY <1>3, <1>5, <1>6

\* The marker is written, or another status, when live is a whole of that plan.
LEMMA MarkStep ==
  ASSUME Shape, Good, NEW p \in Proc, pc[p] # "idle", plan[p] \in Kept, NEW status, NEW outcome,
         SetStatus(p, status), Leave(p, outcome), UNCHANGED <<bundle, live>>,
         live \in {plan[p].before, plan[p].desired}
  PROVE  Good'
<1>1. pc' = [pc EXCEPT ![p] = "idle"] /\ plans' = plans
  BY DEF Leave, Goto
<1>2. SoloInv' /\ \A q \in Proc : q # p => pc'[q] = "idle"
  BY <1>1, SoleActor DEF Good
<1>3. StageInv'
  BY <1>1, <1>2, AllIdle DEF Shape
<1>4. /\ DOMAIN evidence' = DOMAIN evidence
      /\ \A t \in DOMAIN evidence : /\ evidence'[t].taken = evidence[t].taken
                                    /\ evidence'[t].snapshot = evidence[t].snapshot
  BY DEF SetStatus, Shape
<1>5. Kept' = Kept /\ EvidenceInv'
  BY <1>1, <1>4 DEF Good, EvidenceInv, Kept
<1>6. LiveInv'
  BY <1>5 DEF LiveInv, Wholes
<1>7. FilesInv'
  BY <1>1 DEF Good, FilesInv
<1>8. QED
  BY <1>2, <1>3, <1>5, <1>6, <1>7 DEF Good

LEMMA MarkAppliedStep ==
  ASSUME Shape, Good, exclusive, NEW p \in Proc, MarkApplied(p)
  PROVE  Good'
<1>1. pc[p] = "mark" /\ UNCHANGED <<bundle, live>>
  BY DEF MarkApplied, dirs
<1>2. Stage(p)
  BY DEF Good, StageInv
<1>3. live = plan[p].desired /\ plan[p] \in Kept
  BY <1>1, <1>2 DEF Stage, Underway
<1>4. CASE Leave(p, "applied") /\ SetStatus(p, "applied")
  BY <1>1, <1>3, <1>4, MarkStep
<1>5. CASE Step(p, "mark", "clear") /\ UNCHANGED <<plans, evidence, todo>>
  <2>1. pc' = [pc EXCEPT ![p] = "clear"] /\ UNCHANGED <<plan, lock>>
    BY <1>5 DEF Step, Goto
  <2>2. /\ Underway' = Underway /\ Wholes' = Wholes /\ pc'[p] = "clear" /\ Stage(p)
        /\ Stage(p)' /\ IsDirectory(live') /\ LiveInv' => Good'
    BY <1>1, <1>5, <2>1, StillAlone
  <2>3. Between(live, plan[p])
    BY <1>3 DEF Between
  <2>4. Stage(p)'
    BY <1>1, <1>5, <2>1, <2>2, <2>3 DEF Stage
  <2>5. LiveInv' /\ IsDirectory(live')
    BY <1>1, <2>2 DEF Good, LiveInv, FilesInv
  <2>6. QED
    BY <2>2, <2>4, <2>5
<1>6. QED
  BY <1>4, <1>5 DEF MarkApplied


LEMMA ClearLiveStep ==
  ASSUME Shape, Good, exclusive, NEW p \in Proc, ClearLive(p)
  PROVE  Good'
<1> DEFINE t == plan[p]
<1>1. /\ pc[p] \in {"clear", "reclear"}
      /\ UNCHANGED <<bundle, plans, evidence, plan, lock>>
  BY DEF ClearLive
<1>2. Stage(p) /\ t \in Underway /\ t \in Kept /\ evidence[t].snapshot = t.before
  BY <1>1 DEF Good, StageInv, Stage, EvidenceInv, Underway
<1>3. IsDirectory(live) /\ LiveInv
  BY DEF Good, FilesInv
<1>4. CASE live # EmptyDirectory
  <2>1. PICK path \in DOMAIN live : live' = Restrict(live, DOMAIN live \ {path})
    BY <1>4 DEF ClearLive
  <2>2. UNCHANGED <<pc, todo>>
    BY <1>4 DEF ClearLive
  <2>3. pc' = [pc EXCEPT ![p] = pc[p]]
    BY <2>2 DEF Shape
  <2>4. /\ Underway' = Underway /\ Wholes' = Wholes /\ pc'[p] = pc[p]
        /\ Stage(p)' /\ IsDirectory(live') /\ LiveInv' => Good'
    BY <1>1, <2>3, StillAlone
  <2>5. IsDirectory(live') /\ Within(live', live)
    BY <1>3, <2>1, RemoveKeepsDirectory
  <2>6. \A u : Between(live, u) => Between(live', u)
    BY <2>5, PartsStay
  <2>7. \A whole : Within(live, whole) => Within(live', whole)
    BY <2>5, PartsStay
  <2>8. Stage(p)'
    BY <1>1, <1>2, <2>2, <2>4, <2>6 DEF Stage
  <2>9. LiveInv'
    <3>1. CASE live \in Wholes
      BY <3>1, <1>2, <2>4, <2>5 DEF LiveInv
    <3>2. CASE \E u \in Underway : Between(live, u) \/ \E whole \in Wholes : Within(live, whole)
      BY <3>2, <2>4, <2>6, <2>7 DEF LiveInv
    <3>3. QED
      BY <1>3, <3>1, <3>2 DEF LiveInv
  <2>10. QED
    BY <2>4, <2>5, <2>8, <2>9
<1>5. CASE live = EmptyDirectory
  <2> DEFINE label == IF RollingBack(p) THEN "recopy" ELSE "copy"
             paths == SortedPaths(DOMAIN t.before)
  <2>1. /\ pc' = [pc EXCEPT ![p] = label] /\ UNCHANGED live
        /\ todo' = [todo EXCEPT ![p] = paths]
    BY <1>2, <1>5 DEF ClearLive, Goto
  <2>2. label \in {"copy", "recopy"}
    OBVIOUS
  <2> HIDE DEF label
  <2>3. /\ Underway' = Underway /\ Wholes' = Wholes /\ pc'[p] = label /\ IsPlan(t)
        /\ Stage(p)' /\ IsDirectory(live') /\ LiveInv' => Good'
    BY <1>1, <2>1, StillAlone
  <2>4. paths \in Seq(DOMAIN t.before) /\ \A path \in DOMAIN t.before : \E i \in DOMAIN paths : paths[i] = path
    BY <2>3, SortedPathsOf DEF IsPlan, IsDirectory
  <2> HIDE DEF paths
  <2>5. todo'[p] = paths
    BY <2>1 DEF Shape
  <2>6. Within(live, t.before)
    BY <1>5 DEF Within, EmptyDirectory
  <2>7. Stage(p)'
    BY <1>1, <1>2, <2>1, <2>2, <2>3, <2>4, <2>5, <2>6 DEF Stage
  <2>8. LiveInv' /\ IsDirectory(live')
    BY <1>3, <2>1, <2>3 DEF LiveInv
  <2>9. QED
    BY <2>3, <2>7, <2>8
<1>6. QED
  BY <1>4, <1>5

LEMMA CopyBackStep ==
  ASSUME Shape, Good, exclusive, NEW p \in Proc, CopyBack(p)
  PROVE  Good'
<1> DEFINE t == plan[p]
           path == Head(todo[p])
<1>1. /\ pc[p] \in {"copy", "recopy"} /\ todo[p] # << >>
      /\ UNCHANGED <<bundle, plans, evidence, plan, lock, pc>>
  BY DEF CopyBack
<1>2. /\ Stage(p) /\ t \in plans /\ t \in Underway /\ evidence[t].snapshot = t.before
      /\ todo[p] \in Seq(DOMAIN t.before)
      /\ Within(live, t.before)
      /\ \A other \in DOMAIN t.before :
           other \in DOMAIN live \/ \E i \in DOMAIN todo[p] : todo[p][i] = other
  BY <1>1 DEF Good, StageInv, Stage, EvidenceInv, Underway
<1>3. pc' = [pc EXCEPT ![p] = pc[p]]
  BY <1>1 DEF Shape
<1>4. /\ Underway' = Underway /\ pc'[p] = pc[p] /\ IsPlan(t)
      /\ Stage(p)' /\ IsDirectory(live') /\ LiveInv' => Good'
  BY <1>1, <1>3, StillAlone
<1>5. /\ path \in DOMAIN t.before /\ Tail(todo[p]) \in Seq(DOMAIN t.before)
      /\ \A x : (\E i \in DOMAIN todo[p] : todo[p][i] = x)
                  => x = path \/ \E i \in DOMAIN Tail(todo[p]) : Tail(todo[p])[i] = x
  BY <1>1, <1>2, HeadAndTail
<1>6. todo'[p] = Tail(todo[p]) /\ live' = Put(live, path, t.before[path])
  BY <1>2 DEF CopyBack, Shape
<1> HIDE DEF path
<1>7. /\ IsDirectory(live') /\ DOMAIN live' = DOMAIN live \cup {path}
      /\ live'[path] = t.before[path]
      /\ \A other \in DOMAIN live : other # path => live'[other] = live[other]
  <2>1. path \in Nat /\ IsDirectory(live)
    BY <1>4, <1>5 DEF IsPlan, IsDirectory, Good, FilesInv
  <2>2. QED
    BY <1>6, <2>1, PutKeepsDirectory
<1>8. Within(live', t.before)
  BY <1>2, <1>5, <1>7 DEF Within
<1>9. \A other \in DOMAIN t.before :
        other \in DOMAIN live' \/ \E i \in DOMAIN todo'[p] : todo'[p][i] = other
  BY <1>2, <1>5, <1>6, <1>7
<1>10. Stage(p)'
  BY <1>1, <1>2, <1>4, <1>5, <1>6, <1>8, <1>9 DEF Stage
<1>11. LiveInv'
  BY <1>2, <1>4, <1>8 DEF LiveInv, Within, Between
<1>12. QED
  BY <1>4, <1>7, <1>10, <1>11

\* When nothing is left to copy back, live is what the plan was made from.
LEMMA AllCopiedBack ==
  ASSUME Good, NEW p \in Proc, pc[p] \in {"copy", "recopy"}, todo[p] = << >>
  PROVE  live = plan[p].before /\ plan[p] \in Kept
<1>1. /\ Stage(p) /\ plan[p] \in plans /\ plan[p] \in Kept
      /\ Within(live, plan[p].before)
      /\ \A path \in DOMAIN plan[p].before :
           path \in DOMAIN live \/ \E i \in DOMAIN todo[p] : todo[p][i] = path
  BY DEF Good, StageInv, Stage, Underway
<1>2. DOMAIN plan[p].before \subseteq DOMAIN live
  BY <1>1
<1>3. IsDirectory(live) /\ IsDirectory(plan[p].before)
  BY <1>1 DEF Good, FilesInv, IsPlan
<1>4. QED
  BY <1>1, <1>2, <1>3, SameDirectory

LEMMA MarkAutoRolledBackStep ==
  ASSUME Shape, Good, exclusive, NEW p \in Proc, MarkAutoRolledBack(p)
  PROVE  Good'
<1>1. /\ pc[p] = "copy" /\ todo[p] = << >> /\ UNCHANGED <<bundle, live>>
      /\ SetStatus(p, "auto_rolled_back") /\ Leave(p, "auto_rolled_back")
  BY DEF MarkAutoRolledBack, dirs
<1>2. live = plan[p].before /\ plan[p] \in Kept
  BY <1>1, AllCopiedBack
<1>3. QED
  BY <1>1, <1>2, MarkStep

LEMMA MarkRolledBackStep ==
  ASSUME Shape, Good, exclusive, NEW p \in Proc, MarkRolledBack(p)
  PROVE  Good'
<1>1. /\ pc[p] = "recopy" /\ todo[p] = << >> /\ UNCHANGED <<bundle, live>>
  BY DEF MarkRolledBack, dirs
<1>2. live = plan[p].before /\ plan[p] \in Kept
  BY <1>1, AllCopiedBack
<1>3. CASE SetStatus(p, "rolled_back") /\ Leave(p, "rolled_back")
  BY <1>1, <1>2, <1>3, MarkStep
<1>4. CASE Leave(p, "blocked") /\ UNCHANGED evidence
  BY <1>1, <1>4, JustLeaves
<1>5. QED
  BY <1>3, <1>4 DEF MarkRolledBack

LEMMA ChangeStep ==
  ASSUME Shape, Good, exclusive, Change
  PROVE  Good'
<1>1. lock = Nobody /\ UNCHANGED <<plans, evidence, pc, plan, todo, lock>>
  BY DEF Change
<1>2. \A q \in Proc : pc'[q] = "idle"
  BY <1>1, DeployAssumption DEF Good, SoloInv
<1>3. SoloInv' /\ StageInv'
  BY <1>2, AllIdle DEF SoloInv
<1>4. IsDirectory(bundle') /\ IsDirectory(live') /\ (live' = live \/ live' \in Lives)
  BY DeployAssumption DEF Change, Good, FilesInv
<1>5. FilesInv'
  BY <1>1, <1>4 DEF Good, FilesInv
<1>6. EvidenceInv' /\ Underway' = Underway /\ Wholes' = Wholes
  BY <1>1, EvidenceStays DEF Good
<1>7. LiveInv'
  BY <1>4, <1>6 DEF Good, LiveInv, Wholes
<1>8. QED
  BY <1>3, <1>5, <1>6, <1>7 DEF Good

\* Every step of whoever has the directories for himself keeps all of this.
LEMMA ExclusiveStep ==
  ASSUME Shape, StatusInv, ExclusiveInv, [Next]_vars
  PROVE  ExclusiveInv'
<1>1. UNCHANGED exclusive
  BY DEF Next, Move, vars, Change, BuildPlan, StartApply, StartRollback, Enter, CheckPreconditions,
         MakeTransactionDir, CopySnapshot, PerformOperation, CheckPostcondition, MarkApplied,
         ClearLive, CopyBack, RestoreRaises, MarkAutoRolledBack, MarkRolledBack, Crash, Step, Leave
<1>2. SUFFICES ASSUME exclusive PROVE Good'
  BY <1>1 DEF ExclusiveInv, Good
<1>3. Good
  BY <1>2 DEF ExclusiveInv, Good
<1>4. CASE Change
  BY <1>2, <1>3, <1>4, ChangeStep
<1>5. ASSUME NEW p \in Proc, Move(p) PROVE Good'
  <2>1. CASE BuildPlan(p)
    BY <1>2, <1>3, <2>1, BuildPlanStep
  <2>2. CASE \E t \in plans : StartApply(p, t) \/ StartRollback(p, t)
    BY <1>2, <1>3, <2>2, StartStep
  <2>3. CASE CheckPreconditions(p)
    BY <1>2, <1>3, <2>3, CheckPreconditionsStep
  <2>4. CASE MakeTransactionDir(p)
    BY <1>2, <1>3, <2>4, MakeTransactionDirStep
  <2>5. CASE CopySnapshot(p)
    BY <1>2, <1>3, <2>5, CopySnapshotStep
  <2>6. CASE PerformOperation(p)
    BY <1>2, <1>3, <2>6, PerformOperationStep
  <2>7. CASE CheckPostcondition(p)
    BY <1>2, <1>3, <2>7, CheckPostconditionStep
  <2>8. CASE MarkApplied(p)
    BY <1>2, <1>3, <2>8, MarkAppliedStep
  <2>9. CASE ClearLive(p)
    BY <1>2, <1>3, <2>9, ClearLiveStep
  <2>10. CASE CopyBack(p)
    BY <1>2, <1>3, <2>10, CopyBackStep
  <2>11. CASE RestoreRaises(p)
    <3>1. pc[p] # "idle" /\ Leave(p, "none") /\ UNCHANGED <<bundle, live, evidence>>
      BY <2>11 DEF RestoreRaises, dirs
    <3>2. QED
      BY <1>3, <3>1, JustLeaves
  <2>12. CASE MarkAutoRolledBack(p)
    BY <1>2, <1>3, <2>12, MarkAutoRolledBackStep
  <2>13. CASE MarkRolledBack(p)
    BY <1>2, <1>3, <2>13, MarkRolledBackStep
  <2>14. CASE Crash(p)
    <3>1. pc[p] # "idle" /\ Leave(p, "none") /\ UNCHANGED <<bundle, live, evidence>>
      BY <2>14 DEF Crash, dirs
    <3>2. QED
      BY <1>3, <3>1, JustLeaves
  <2>15. QED
    BY <1>5, <2>1, <2>2, <2>3, <2>4, <2>5, <2>6, <2>7, <2>8, <2>9, <2>10, <2>11, <2>12,
       <2>13, <2>14 DEF Move
<1>6. CASE UNCHANGED vars
  <2>1. EvidenceInv' /\ FilesInv' /\ LiveInv'
    BY <1>3, <1>6, DiskStays DEF vars, Good
  <2>2. SoloInv'
    BY <1>3, <1>6 DEF vars, Good, SoloInv
  <2>3. Kept' = Kept /\ Underway' = Underway
    BY <1>6 DEF vars, Kept, Underway
  <2>4. StageInv'
    BY <1>3, <1>6, <2>3 DEF vars, Good, StageInv, Stage
  <2>5. QED
    BY <2>1, <2>2, <2>4 DEF Good
<1>7. QED
  BY <1>4, <1>5, <1>6 DEF Next


LEMMA ExclusiveInit == Init => ExclusiveInv
<1> SUFFICES ASSUME Init PROVE Good
  BY DEF ExclusiveInv, Good
<1>1. PICK s \in Start : bundle = s[1] /\ live = s[2]
  BY DEF Init
<1>2. bundle \in Bundles /\ live \in Lives
  BY <1>1, DeployAssumption
<1>3. FilesInv
  BY <1>2, DeployAssumption DEF Init, FilesInv
<1>4. EvidenceInv /\ LiveInv
  BY <1>2 DEF Init, EvidenceInv, Kept, LiveInv, Wholes
<1>5. SoloInv /\ StageInv
  BY DEF Init, SoloInv, StageInv, Stage
<1>6. QED
  BY <1>3, <1>4, <1>5 DEF Good

\* As long as everybody keeps off, these hold as well.
THEOREM ExclusiveInvariant == Spec => []ExclusiveInv
<1>1. IInv /\ ExclusiveInv /\ [Next]_vars => ExclusiveInv'
  BY ExclusiveStep DEF IInv
<1>2. QED
  BY <1>1, ExclusiveInit, InvariantHolds, PTL DEF Spec

\* Nothing that was live is lost, whatever raises or crashes, as long as everybody keeps
\* off while an operator is at work (transactions.py:294-327, 362-384): for any number of
\* plans, operators, failures and changes in between.
THEOREM TransactionsLoseNothing == Spec => []NothingLost
<1>1. ExclusiveInv => NothingLost
  <2> SUFFICES ASSUME ExclusiveInv, exclusive
               PROVE  /\ \A t \in Kept : evidence[t].snapshot = t.before
                      /\ \/ live \in Wholes
                         \/ \E t \in Underway :
                              Between(live, t) \/ \E whole \in Wholes : Within(live, whole)
    BY DEF NothingLost, Kept, Underway, Wholes
  <2>1. QED
    BY DEF ExclusiveInv, Good, EvidenceInv, LiveInv
<1>2. QED
  BY <1>1, ExclusiveInvariant, PTL

\* verify_inventories finds three captures of one planned release verified when every
\* component is ready.
LEMMA SameIsVerified ==
  ASSUME \A c \in ReleaseSpec.components : c.state = "ready",
         NEW dir, DOMAIN dir = Expected(ReleaseSpec),
         Capture(dir) = [state |-> "captured", artifacts |-> dir]
  PROVE  TruthDecision(ReleaseSpec, Capture(dir), Capture(dir), Capture(dir)) = "verified"
<1> DEFINE i == [state |-> "captured", artifacts |-> dir]
<1>1. i.state = "captured" /\ i.artifacts = dir
  OBVIOUS
<1> HIDE DEF i
<1>2. ASSUME NEW path \in Expected(ReleaseSpec)
      PROVE  DifferenceKind(ReleaseSpec, path, i, i, i) = "match"
  BY <1>1, <1>2 DEF DifferenceKind
<1>3. DifferenceKinds(ReleaseSpec, i, i, i) \subseteq {"match"}
  BY <1>1, <1>2 DEF DifferenceKinds
<1>4. TruthDecision(ReleaseSpec, i, i, i) = "verified"
  BY <1>1, <1>3 DEF TruthDecision
<1>5. QED
  BY <1>4 DEF i

\* The same for the actions: what a call says is so.
LEMMA AnswersStep ==
  ASSUME \A c \in ReleaseSpec.components : c.state = "ready",
         Shape, Good, exclusive, [Next]_vars,
         NEW p \in Proc, pc[p] # "idle", pc'[p] = "idle"
  PROVE  /\ answer' = "applied" =>
              TruthDecision(ReleaseSpec, Capture(bundle), Capture(bundle), Capture(live)) = "verified"
         /\ answer' \in {"auto_rolled_back", "rolled_back"} => live = plan[p].before
<1> DEFINE Truth == answer' = "applied" =>
              TruthDecision(ReleaseSpec, Capture(bundle), Capture(bundle), Capture(live)) = "verified"
           Restored == answer' \in {"auto_rolled_back", "rolled_back"} => live = plan[p].before
<1>1. CASE Change \/ UNCHANGED vars
  BY <1>1 DEF Change, vars
<1>2. ASSUME NEW q \in Proc, Move(q) PROVE Truth /\ Restored
  <2>1. Stage(p) /\ lock = p /\ IsPlan(plan[p])
    BY DEF Good, StageInv, SoloInv, Stage, FilesInv
  <2>2. ASSUME Capture(bundle) = [state |-> "captured", artifacts |-> plan[p].desired],
               live = plan[p].desired, answer' = "applied"
        PROVE  Truth /\ Restored
    <3>1. bundle = plan[p].desired
      BY <2>2, CaptureIsContent
    <3>2. DOMAIN bundle = Expected(ReleaseSpec)
      BY <2>1, <3>1 DEF IsPlan
    <3>3. TruthDecision(ReleaseSpec, Capture(bundle), Capture(bundle), Capture(bundle)) = "verified"
      BY <2>2, <3>1, <3>2, SameIsVerified
    <3>4. QED
      BY <2>2, <3>1, <3>3
  <2>3. CASE BuildPlan(q) \/ \E t \in plans : StartApply(q, t) \/ StartRollback(q, t)
    BY <2>3 DEF BuildPlan, StartApply, StartRollback, Enter
  <2>4. q # p => pc[q] = "idle"
    BY <2>1, DeployAssumption DEF Good, SoloInv
  <2>5. CASE CheckPreconditions(q)
    <3>1. q = p
      BY <2>4, <2>5 DEF CheckPreconditions
    <3>2. CASE answer' = "applied"
      <4>1. /\ Capture(bundle).state # "blocked" /\ Capture(live).state # "blocked"
            /\ Capture(bundle).artifacts = plan[p].desired /\ Capture(live).artifacts = plan[p].desired
        BY <2>5, <3>1, <3>2 DEF CheckPreconditions, Leave, Step
      <4>2. Capture(bundle).state = "captured" /\ Capture(live).state = "captured"
        BY <4>1 DEF Capture
      <4>3. QED
        BY <2>2, <3>2, <4>1, <4>2, CaptureIsContent
    <3>3. CASE answer' # "applied"
      BY <2>5, <3>1, <3>3 DEF CheckPreconditions, Leave, Step
    <3>4. QED
      BY <3>2, <3>3
  <2>6. CASE MarkApplied(q)
    <3>1. q = p /\ pc[p] = "mark"
      BY <2>4, <2>6 DEF MarkApplied
    <3>2. Capture(bundle) = [state |-> "captured", artifacts |-> plan[p].desired] /\ live = plan[p].desired
      BY <2>1, <3>1 DEF Stage
    <3>3. CASE answer' = "applied"
      BY <2>2, <3>2, <3>3
    <3>4. CASE answer' # "applied"
      BY <2>6, <3>4 DEF MarkApplied, Leave, Step
    <3>5. QED
      BY <3>3, <3>4
  <2>7. CASE MarkAutoRolledBack(q) \/ MarkRolledBack(q)
    <3>1. q = p /\ pc[p] \in {"copy", "recopy"} /\ todo[p] = << >>
      BY <2>4, <2>7 DEF MarkAutoRolledBack, MarkRolledBack
    <3>2. live = plan[p].before
      BY <3>1, AllCopiedBack
    <3>3. answer' # "applied"
      BY <2>7 DEF MarkAutoRolledBack, MarkRolledBack, Leave
    <3>4. QED
      BY <3>2, <3>3
  <2>8. CASE \/ MakeTransactionDir(q) \/ CopySnapshot(q) \/ PerformOperation(q) \/ CheckPostcondition(q)
             \/ ClearLive(q) \/ CopyBack(q) \/ RestoreRaises(q) \/ Crash(q)
    <3>1. answer' = "none"
      BY <2>8 DEF MakeTransactionDir, CopySnapshot, PerformOperation, CheckPostcondition,
                  ClearLive, CopyBack, RestoreRaises, Crash, Step, Leave
    <3>2. QED
      BY <3>1
  <2>9. QED
    BY <1>2, <2>3, <2>5, <2>6, <2>7, <2>8 DEF Move
<1>3. QED
  BY <1>1, <1>2 DEF Next

\* For a release whose components are all ready, "applied" is answered when live holds
\* the bundle's release and the comparison of source, bundle and live says verified, and
\* "rolled_back" and "auto_rolled_back" when live is what the plan was made from
\* (transactions.py:312-332, 378-388).
THEOREM AnswersHoldTrue ==
  ASSUME \A c \in ReleaseSpec.components : c.state = "ready"
  PROVE  Spec => AnswersAreTrue
<1>1. Shape /\ ExclusiveInv /\ [Next]_vars =>
        [ exclusive => \A p \in Proc : pc[p] # "idle" /\ pc'[p] = "idle" =>
            /\ answer' = "applied" =>
                 TruthDecision(ReleaseSpec, Capture(bundle), Capture(bundle), Capture(live)) = "verified"
            /\ answer' \in {"auto_rolled_back", "rolled_back"} => live = plan[p].before ]_vars
  BY AnswersStep DEF ExclusiveInv, Good
<1>2. IInv => Shape
  BY DEF IInv
<1>3. QED
  BY <1>1, <1>2, ExclusiveInvariant, InvariantHolds, PTL DEF Spec, AnswersAreTrue
=============================================================================
