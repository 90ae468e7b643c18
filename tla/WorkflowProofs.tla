--------------------------- MODULE WorkflowProofs ----------------------------
(***************************************************************************)
(* Proofs about Workflow.tla, for every number of runs, requests, files    *)
(* and contents, every bundle, policy and release decision, and any number *)
(* of crashes, edits and settings of the clock: an output directory has    *)
(* one verdict, and a run that ends ready has rehearsed its rollback and   *)
(* has judged one state of its inputs.                                     *)
(***************************************************************************)
EXTENDS Workflow, FiniteSetTheorems, WellFoundedInduction, SequenceTheorems, TLAPS

-----------------------------------------------------------------------------
(* Sequences.                                                              *)

\* Induction, for a set of numbers in place of a property.
LEMMA SetOfNumbers ==
  ASSUME NEW T, 0 \in T, \A n \in T : n \in Nat => n + 1 \in T
  PROVE  Nat \subseteq T
<1> DEFINE S == FiniteSubsetsOf(Nat)
           R == StrictSubsetOrdering(Nat)
           Upto(n) == 1..n
           U == {1..n : n \in Nat \ T}
<1>1. SUFFICES ASSUME U # {} PROVE FALSE
  OBVIOUS
<1>2. IsWellFoundedOn(R, S)
  BY FS_StrictSubsetOrderingWellFounded
<1>3. U \subseteq S
  <2> SUFFICES ASSUME NEW n \in Nat PROVE 1..n \in S
    OBVIOUS
  <2>1. IsFiniteSet(1..n) /\ 1..n \in SUBSET Nat
    BY FS_Interval
  <2>2. QED
    BY <2>1 DEF FiniteSubsetsOf
<1> HIDE DEF R, S
<1>4. PICK x \in U : \A y \in U : <<y, x>> \notin R
  BY ONLY <1>1, <1>2, <1>3, WFMin
<1>5. PICK n \in Nat \ T : x = 1..n
  BY <1>4
<1>6. n \in Nat /\ n # 0 /\ n - 1 \in Nat /\ n - 1 \notin T
  <2>1. n \in Nat /\ n \notin T /\ n # 0
    BY <1>5
  <2>2. n - 1 \in Nat /\ (n - 1) + 1 = n
    BY <2>1
  <2>3. QED
    BY <2>1, <2>2
<1>7. 1..(n-1) \in U
  BY <1>6
<1>8. 1..(n-1) \subseteq 1..n /\ n \in 1..n /\ n \notin 1..(n-1) /\ 1..n \in SUBSET Nat
  BY <1>6
<1>9. <<1..(n-1), 1..n>> \in R
  BY <1>8 DEF R, StrictSubsetOrdering
<1>10. QED
  BY <1>4, <1>5, <1>7, <1>9

\* A concatenation has what its two parts have.
LEMMA RangeConcat ==
  ASSUME NEW S, NEW a \in Seq(S), NEW b \in Seq(S)
  PROVE  /\ a \o b \in Seq(S)
         /\ Range(a \o b) = Range(a) \cup Range(b)
<1>1. /\ a \o b \in Seq(S) /\ Len(a \o b) = Len(a) + Len(b)
      /\ \A k \in 1..Len(a) + Len(b) :
           (a \o b)[k] = IF k <= Len(a) THEN a[k] ELSE b[k - Len(a)]
  BY ConcatProperties
<1>2. /\ Len(a) \in Nat /\ DOMAIN a = 1..Len(a)
      /\ Len(b) \in Nat /\ DOMAIN b = 1..Len(b)
      /\ DOMAIN (a \o b) = 1..Len(a) + Len(b)
  BY <1>1, LenProperties
<1>3. ASSUME NEW i \in DOMAIN a PROVE i \in DOMAIN (a \o b) /\ (a \o b)[i] = a[i]
  BY <1>1, <1>2
<1>4. ASSUME NEW i \in DOMAIN b
      PROVE  Len(a) + i \in DOMAIN (a \o b) /\ (a \o b)[Len(a) + i] = b[i]
  <2>1. Len(a) + i \in 1..Len(a) + Len(b) /\ ~ (Len(a) + i <= Len(a)) /\ (Len(a) + i) - Len(a) = i
    BY <1>2
  <2>2. QED
    BY <1>1, <1>2, <2>1
<1>5. ASSUME NEW k \in DOMAIN (a \o b) PROVE (a \o b)[k] \in Range(a) \cup Range(b)
  <2>1. CASE k <= Len(a)
    BY <1>1, <1>2, <2>1 DEF Range
  <2>2. CASE ~ (k <= Len(a))
    <3>1. k - Len(a) \in DOMAIN b /\ (a \o b)[k] = b[k - Len(a)]
      BY <1>1, <1>2, <2>2
    <3>2. QED
      BY <3>1 DEF Range
  <2>3. QED
    BY <2>1, <2>2
<1>6. Range(a) \cup Range(b) \subseteq Range(a \o b)
  BY <1>3, <1>4, Zenon DEF Range
<1>7. Range(a \o b) \subseteq Range(a) \cup Range(b)
  BY <1>5, Zenon DEF Range
<1>8. QED
  BY <1>1, <1>6, <1>7, Zenon

\* The concatenation of some sequences is one, and has what they have.
LEMMA FlattenType ==
  ASSUME NEW S, NEW s \in Seq(Seq(S))
  PROVE  /\ FlattenSeq(s) \in Seq(S)
         /\ Range(FlattenSeq(s)) = UNION {Range(s[i]) : i \in DOMAIN s}
<1> DEFINE Def(g, i) == IF i = 1 THEN s[i] ELSE g[i - 1] \o s[i]
           Flat(g, n) == /\ g \in [1..n -> Seq(S)]
                         /\ \A i \in 1..n : g[i] = Def(g, i)
           T == {n \in Nat : n <= Len(s) => \E g : Flat(g, n)}
<1>1. Len(s) \in Nat /\ DOMAIN s = 1..Len(s) /\ \A i \in 1..Len(s) : s[i] \in Seq(S)
  OBVIOUS
<1>2. 0 \in T
  <2>1. 1..0 = {} /\ 0 \in Nat
    BY SMT
  <2>2. [i \in {} |-> << >>] \in [1..0 -> Seq(S)]
    BY <2>1
  <2>3. Flat([i \in {} |-> << >>], 0)
    BY <2>1, <2>2
  <2>4. QED
    BY <2>1, <2>3
<1>3. \A n \in T : n \in Nat => n + 1 \in T
  <2> SUFFICES ASSUME NEW n \in Nat, n + 1 <= Len(s), \E g : Flat(g, n)
               PROVE  \E g : Flat(g, n + 1)
    <3> HIDE DEF Flat
    <3> QED
      BY <1>1
  <2>1. PICK g : Flat(g, n)
    OBVIOUS
  <2> DEFINE h == [i \in 1..(n+1) |-> IF i = n + 1 THEN Def(g, i) ELSE g[i]]
  <2>2. Def(g, n + 1) \in Seq(S)
    <3>1. s[n + 1] \in Seq(S)
      BY <1>1
    <3>2. CASE n = 0
      BY <3>1, <3>2
    <3>3. CASE n # 0
      <4>1. n \in 1..n /\ (n + 1) - 1 = n /\ n + 1 # 1
        BY <3>3
      <4>2. g[n] \in Seq(S)
        BY <2>1, <4>1
      <4>3. QED
        BY <3>1, <4>1, <4>2
    <3>4. QED
      BY <3>2, <3>3
  <2>3. h \in [1..(n+1) -> Seq(S)]
    BY <2>1, <2>2
  <2>4. ASSUME NEW i \in 1..(n+1) PROVE h[i] = Def(h, i)
    <3>1. CASE i = 1
      <4>1. CASE n = 0
        BY <3>1, <4>1
      <4>2. CASE n # 0
        <5>1. 1 \in 1..n /\ n + 1 # 1
          BY <4>2
        <5>2. QED
          BY <2>1, <3>1, <5>1
      <4>3. QED
        BY <4>1, <4>2
    <3>2. CASE i # 1
      <4>1. i - 1 \in 1..n /\ i - 1 # n + 1
        BY <3>2
      <4>2. h[i - 1] = g[i - 1]
        BY <4>1
      <4>3. CASE i = n + 1
        BY <3>2, <4>2, <4>3
      <4>4. CASE i # n + 1
        <5>1. i \in 1..n
          BY <4>4
        <5>2. g[i] = Def(g, i)
          BY <2>1, <5>1
        <5>3. QED
          BY <3>2, <4>2, <4>4, <5>2
      <4>5. QED
        BY <4>3, <4>4
    <3>3. QED
      BY <3>1, <3>2
  <2>5. Flat(h, n + 1)
    BY <2>3, <2>4
  <2>6. QED
    BY <2>5
<1>4. \E g : Flat(g, Len(s))
  <2> HIDE DEF T
  <2>1. Len(s) \in T
    BY <1>1, <1>2, <1>3, SetOfNumbers
  <2>2. QED
    BY <1>1, <2>1 DEF T
<1> DEFINE F == CHOOSE g : g = [i \in 1..Len(s) |-> IF i = 1 THEN s[i] ELSE g[i - 1] \o s[i]]
<1>5. F = [i \in 1..Len(s) |-> IF i = 1 THEN s[i] ELSE F[i - 1] \o s[i]]
  <2>1. PICK g : Flat(g, Len(s))
    BY <1>4
  <2>2. g = [i \in 1..Len(s) |-> IF i = 1 THEN s[i] ELSE g[i - 1] \o s[i]]
    BY <2>1
  <2>3. QED
    BY <2>2
<1> HIDE DEF F
<1> DEFINE Has(i) == /\ F[i] \in Seq(S)
                     /\ Range(F[i]) = UNION {Range(s[m]) : m \in 1..i}
           U == {n \in Nat : n \in 1..Len(s) => Has(n)}
<1>6. \A n \in U : n \in Nat => n + 1 \in U
  <2> SUFFICES ASSUME NEW n \in Nat, n \in 1..Len(s) => Has(n), n + 1 \in 1..Len(s)
               PROVE  Has(n + 1)
    <3> HIDE DEF Has
    <3> QED
      BY <1>1
  <2>1. s[n + 1] \in Seq(S)
    BY <1>1
  <2>2. CASE n = 0
    <3>1. F[1] = s[1]
      BY <1>5, <2>2
    <3>2. QED
      BY <2>1, <2>2, <3>1
  <2>3. CASE n # 0
    <3>1. n \in 1..Len(s) /\ n + 1 # 1 /\ (n + 1) - 1 = n
      BY <1>1, <2>3
    <3>2. Has(n)
      BY <3>1
    <3>3. F[n + 1] = F[n] \o s[n + 1]
      BY <1>5, <3>1
    <3>4. F[n + 1] \in Seq(S) /\ Range(F[n + 1]) = Range(F[n]) \cup Range(s[n + 1])
      BY <2>1, <3>2, <3>3, RangeConcat
    <3>5. UNION {Range(s[m]) : m \in 1..(n + 1)}
            = (UNION {Range(s[m]) : m \in 1..n}) \cup Range(s[n + 1])
      <4>1. 1..(n + 1) = (1..n) \cup {n + 1}
        OBVIOUS
      <4>2. PICK A : A = {Range(s[m]) : m \in 1..n}
        OBVIOUS
      <4>3. {Range(s[m]) : m \in 1..(n + 1)} = A \cup {Range(s[n + 1])}
        BY <4>1, <4>2
      <4>4. UNION (A \cup {Range(s[n + 1])}) = (UNION A) \cup Range(s[n + 1])
        BY Zenon
      <4>5. QED
        BY <4>2, <4>3, <4>4
    <3>6. QED
      BY <3>2, <3>4, <3>5
  <2>4. QED
    BY <2>2, <2>3
<1>7. Len(s) # 0 => Has(Len(s))
  <2>1. 0 \in U
    OBVIOUS
  <2> HIDE DEF U
  <2>2. Len(s) \in U
    BY <1>1, <1>6, <2>1, SetOfNumbers
  <2>3. QED
    BY <1>1, <2>2 DEF U
<1>8. FlattenSeq(s) = IF Len(s) = 0 THEN s ELSE F[Len(s)]
  BY DEF FlattenSeq, F
<1>9. CASE Len(s) = 0
  <2>1. s = << >> /\ FlattenSeq(s) = << >> /\ DOMAIN s = {}
    BY <1>1, <1>8, <1>9
  <2>2. Range(<< >>) = {}
    BY DEF Range
  <2>3. UNION {Range(s[i]) : i \in DOMAIN s} = {}
    BY <2>1
  <2>4. << >> \in Seq(S)
    OBVIOUS
  <2>5. QED
    BY ONLY <2>1, <2>2, <2>3, <2>4
<1>10. CASE Len(s) # 0
  BY <1>1, <1>7, <1>8, <1>10
<1>11. QED
  BY <1>9, <1>10

LEMMA OneAndSome ==
  ASSUME NEW r, NEW n \in Nat, NEW f, f = [j \in 1..n |-> f[j]], NEW s, s = <<r>> \o f
  PROVE  s \in Seq({r} \cup Range(f)) /\ Range(s) = {r} \cup Range(f)
<1>1. f \in [1..n -> Range(f)] /\ Range(f) \subseteq {r} \cup Range(f)
  BY DEF Range
<1> DEFINE S == {r} \cup Range(f)
<1>2. f \in [1..n -> S]
  BY <1>1
<1> HIDE DEF S
<1>3. f \in Seq(S)
  BY <1>2, SeqDef
<1>4. PICK x : x = <<r>>
  OBVIOUS
<1>5. r \in S
  BY DEF S
<1>6. x \in Seq(S)
  BY <1>4, <1>5
<1>7. Range(x) = {r}
  BY <1>4 DEF Range
<1>8. s = x \o f
  BY <1>4
<1>9. x \o f \in Seq(S) /\ Range(x \o f) = Range(x) \cup Range(f)
  BY ONLY <1>3, <1>6, RangeConcat
<1>10. QED
  BY <1>7, <1>8, <1>9 DEF S

\* What appending does to the beginnings of a sequence.
LEMMA PrefixOfAppend ==
  ASSUME NEW S, NEW f \in Seq(S), NEW x
  PROVE  /\ Len(f) \in Nat /\ DOMAIN f = 1..Len(f)
         /\ Len(Append(f, x)) = Len(f) + 1
         /\ DOMAIN Append(f, x) = 1..(Len(f) + 1)
         /\ Append(f, x)[Len(f) + 1] = x
         /\ \A k \in 1..Len(f) : Append(f, x)[k] = f[k]
         /\ \A k \in 1..(Len(f) + 1) : SubSeq(Append(f, x), 1, k - 1) = SubSeq(f, 1, k - 1)
         /\ SubSeq(f, 1, Len(f)) = f
<1> DEFINE T == S \cup {x}
           g == Append(f, x)
<1>1. f \in Seq(T) /\ g \in Seq(T)
  BY SeqMonotonic
<1>2. /\ Len(f) \in Nat /\ DOMAIN f = 1..Len(f)
      /\ Len(g) = Len(f) + 1 /\ DOMAIN g = 1..(Len(f) + 1)
      /\ g[Len(f) + 1] = x
      /\ \A k \in 1..Len(f) : g[k] = f[k]
  BY <1>1
<1>3. ASSUME NEW k \in 1..(Len(f) + 1) PROVE SubSeq(g, 1, k - 1) = SubSeq(f, 1, k - 1)
  <2>1. \A i \in 1..(k - 1) : g[i] = f[i] /\ f[i] \in T
    BY <1>1, <1>2
  <2> DEFINE u == SubSeq(g, 1, k - 1)
             v == SubSeq(f, 1, k - 1)
  <2> HIDE DEF g, T
  <2>2. k - 1 \in Int /\ 1 \in Int /\ (k - 1) - 1 + 1 = k - 1
    BY <1>2
  <2>3. /\ u \in Seq(T) /\ Len(u) = IF 1 <= k - 1 THEN (k - 1) - 1 + 1 ELSE 0
        /\ \A i \in 1..((k - 1) - 1 + 1) : u[i] = g[1 + i - 1]
    BY <2>1, <2>2, SubSeqProperties
  <2>4. /\ v \in Seq(T) /\ Len(v) = IF 1 <= k - 1 THEN (k - 1) - 1 + 1 ELSE 0
        /\ \A i \in 1..((k - 1) - 1 + 1) : v[i] = f[1 + i - 1]
    BY <2>1, <2>2, SubSeqProperties
  <2> HIDE DEF u, v
  <2>5. \A i \in 1..Len(u) : u[i] = v[i]
    BY <1>2, <2>1, <2>3, <2>4
  <2>6. u = v
    BY <2>3, <2>4, <2>5, SeqEqual
  <2>7. QED
    BY <2>6 DEF u, v
<1>4. SubSeq(f, 1, Len(f)) = f
  BY <1>1, <1>2
<1>5. QED
  BY <1>2, <1>3, <1>4

-----------------------------------------------------------------------------
(* Types.                                                                  *)

\* The stages from the last one back, each set with those that follow it.
FromReady          == {"ready"}
FromRecheckTime    == {"recheck_time"} \cup FromReady
FromRecheckFiles   == {"recheck_producer"} \cup FromRecheckTime
FromRecheckReports == {"recheck_junit"} \cup FromRecheckFiles
FromRecheckInputs  == {"recheck_artifacts"} \cup FromRecheckReports
FromRecheckState   == {"recheck_state"} \cup FromRecheckInputs
FromCopy           == {"copy", "dry_run", "apply", "verify", "rollback", "compare"}
                         \cup FromRecheckState
FromGates          == {"gates"} \cup FromCopy
FromReports        == {"junit"} \cup FromGates
FromArtifacts      == {"artifacts"} \cup FromReports
Working            == {"producer"} \cup FromArtifacts

Labels == {"idle", "check", "read", "create", "write", "replace", "verify", "restore",
           "inspect", "undo", "recheck"}

FilesRecords == Seq([path : Path, content : InputContents])
ContentRecords == Seq(InputContents)

Memory == [before : InputContents \cup {Missing}, started : Int, files : FilesRecords,
           artifacts : ContentRecords, reports : ContentRecords,
           production : BOOLEAN, rechecked : Nat, ended : Int]

ReadyAnswers == {"ready", "ready_lab"}

WorkflowTypeOK ==
  /\ disk \in [Path -> InputContents]
  /\ past \in [Path -> SUBSET InputContents]
  /\ clock \in 0..MaxTime
  /\ returned \in BOOLEAN
  /\ stage \in [Proc -> Working \cup {"idle", "mkdir", "blocked", "done"}]
  /\ asked \in [Proc -> Artifact \cup {Missing}]
  /\ seen \in [Proc -> Memory]
  /\ owner \in Proc \cup {Nobody}
  /\ answer \in [Proc -> ReadyAnswers \cup {"none", "refused", "died", "unwritten", "blocked"}]
  /\ judgedDisk \in [Proc -> [Path -> InputContents]]
  /\ exclusive = FALSE
  /\ pc \in [Proc -> Labels]
  /\ DOMAIN job = Proc /\ DOMAIN held = Proc /\ DOMAIN receipts = ReceiptPath

-----------------------------------------------------------------------------
(* The output directory.                                                   *)

\* The run that has made the directory is the only one that gets beyond that, and
\* only it leaves a verdict.
DirectoryInv ==
  /\ \A p \in Proc : stage[p] \in Working \cup {"blocked"} => owner = p /\ verdict.run = Nobody
  /\ verdict.run # Nobody =>
       verdict.run = owner /\ verdict.status = answer[owner] /\ stage[owner] = "done"
  /\ \A p \in Proc :
       answer[p] \in ReadyAnswers \cup {"blocked"} => stage[p] = "done" /\ verdict.run = p

\* How far a run has got: one that answered ready is done with all of its stages.
At(p) == IF answer[p] \in ReadyAnswers THEN "ready" ELSE stage[p]

-----------------------------------------------------------------------------
(* The rehearsal.                                                          *)

DrillContents == Contents \cup {Copy(c) : c \in InputContents}
DrillReceipts == [before : DrillContents, after : {After(a) : a \in Artifact}]

\* A receipt of the rehearsal; should it not lead back to the copy, then the copy is
\* gone for good.
Rehearsed(p, r) ==
  /\ r \in DrillReceipts
  /\ r.after = After(asked[p])
  /\ r.before # Copy(seen[p].before) => state # Copy(seen[p].before)

DrillAt(p) ==
  /\ pc[p] # "idle" => stage[p] \in {"apply", "rollback"}
  /\ stage[p] = "apply" /\ pc[p] # "idle" =>
       /\ job[p] = [artifact |-> asked[p], path |-> DrillReceipt]
       /\ pc[p] \in {"check", "read", "create", "write", "replace", "verify", "restore"}
       /\ pc[p] \notin {"check", "read"} => Rehearsed(p, held[p])
       /\ pc[p] \in {"replace", "verify", "restore"} => receipts[DrillReceipt] = held[p]
  /\ stage[p] \in {"verify", "rollback", "compare"} => Rehearsed(p, receipts[DrillReceipt])
  /\ stage[p] = "rollback" /\ pc[p] # "idle" =>
       /\ held[p] = receipts[DrillReceipt]
       /\ pc[p] \in {"inspect", "undo", "recheck"}
  /\ At(p) \in FromRecheckState =>
       receipts[DrillReceipt] = [before |-> Copy(seen[p].before), after |-> After(asked[p])]
  /\ At(p) \in FromCopy => ArtifactOf[asked[p]].decision = "ready"

DrillInv ==
  /\ state \in DrillContents
  /\ \A p \in Proc : DrillAt(p)

-----------------------------------------------------------------------------
(* The inputs.                                                             *)

\* What a run has read: a content was there once, and the checks on it passed.
StateRead(p) ==
  /\ asked[p] \in Artifact /\ RequestValid(asked[p])
  /\ seen[p].before \in past[Ask(p).state_path]
  /\ ShaIn(seen[p].before) = Snapshot(asked[p]).observed_sha

FilesRead(p) ==
  LET b == Ask(p).bundle
      f == seen[p].files
  IN  /\ Len(f) <= Len(Reads(b))
      /\ f # << >> => BundleValid(b, Ask(p).candidate)
      /\ \A k \in DOMAIN f :
           /\ f[k].path = Reads(b)[k].path
           /\ f[k].content \in past[f[k].path]
           /\ NextPasses(b, SubSeq(f, 1, k - 1), f[k].content, seen[p].started)

ArtifactsRead(p) ==
  LET b == Ask(p).bindings
      a == seen[p].artifacts
  IN  /\ Len(a) <= Len(b)
      /\ \A i \in DOMAIN a : a[i] \in past[b[i].path] /\ ArtifactClaimed(Ask(p), b[i], a[i])

ReportsRead(p) ==
  LET j == Ask(p).junit
      r == seen[p].reports
  IN  /\ Len(r) <= Len(j)
      /\ \A i \in DOMAIN r : r[i] \in past[j[i]]

\* A content that is still in the file that it was read from was there when the gates
\* were asked, unless some file got a content back.
Unmoved(p, f, c) == disk[f] = c => judgedDisk[p][f] = c

StillThere(p) ==
  ~returned =>
    /\ Unmoved(p, Ask(p).state_path, seen[p].before)
    /\ \A i \in DOMAIN seen[p].artifacts :
         Unmoved(p, Ask(p).bindings[i].path, seen[p].artifacts[i])
    /\ \A i \in DOMAIN seen[p].reports : Unmoved(p, Ask(p).junit[i], seen[p].reports[i])
    /\ \A k \in DOMAIN seen[p].files :
         Unmoved(p, seen[p].files[k].path, seen[p].files[k].content)

\* The first n of them were found again, and so were there when the gates were asked.
ArtifactsFound(p, n) ==
  ~returned => \A i \in 1..n : judgedDisk[p][Ask(p).bindings[i].path] = seen[p].artifacts[i]

ReportsFound(p, n) ==
  ~returned => \A i \in 1..n : judgedDisk[p][Ask(p).junit[i]] = seen[p].reports[i]

FilesFound(p, n) ==
  ~returned => \A k \in 1..n : judgedDisk[p][seen[p].files[k].path] = seen[p].files[k].content

\* How many of them a loop has read and found again at each stage.
ReadAt(p) ==
  /\ stage[p] \in {"mkdir", "producer"} => seen[p].artifacts = << >>
  /\ stage[p] \in {"mkdir", "producer", "artifacts"} => seen[p].reports = << >>
  /\ stage[p] = "mkdir" => seen[p].files = << >>
  /\ stage[p] = "producer" => Ask(p).bundle # NoBundle
  /\ stage[p] = "producer" /\ BundleValid(Ask(p).bundle, Ask(p).candidate) =>
       Len(seen[p].files) < Len(Reads(Ask(p).bundle))
  /\ At(p) \in FromArtifacts =>
       IF Ask(p).bundle = NoBundle THEN seen[p].files = << >>
       ELSE Len(seen[p].files) = Len(Reads(Ask(p).bundle)) /\ seen[p].files # << >>
  /\ stage[p] = "artifacts" => Len(seen[p].artifacts) < Len(Ask(p).bindings)
  /\ At(p) \in FromReports => Len(seen[p].artifacts) = Len(Ask(p).bindings)
  /\ stage[p] = "junit" => Len(seen[p].reports) < Len(Ask(p).junit)
  /\ At(p) \in FromGates => /\ Len(seen[p].reports) = Len(Ask(p).junit)
                            /\ SuitesPass(Ask(p), SuitesIn(seen[p].reports))

FoundAt(p) ==
  LET n == seen[p].rechecked
  IN  /\ At(p) \notin FromRecheckInputs => n = 0
      /\ At(p) \in FromRecheckInputs /\ ~returned =>
           judgedDisk[p][Ask(p).state_path] = seen[p].before
      /\ stage[p] = "recheck_artifacts" => n < Len(Ask(p).bindings) /\ ArtifactsFound(p, n)
      /\ At(p) \in FromRecheckReports => ArtifactsFound(p, Len(Ask(p).bindings))
      /\ stage[p] = "recheck_junit" => n < Len(Ask(p).junit) /\ ReportsFound(p, n)
      /\ At(p) \in FromRecheckFiles => ReportsFound(p, Len(Ask(p).junit))
      /\ stage[p] \in {"recheck_producer", "recheck_time"} => Ask(p).bundle # NoBundle
      /\ stage[p] = "recheck_producer" => n < Len(seen[p].files) /\ FilesFound(p, n)
      /\ At(p) \in FromRecheckTime => FilesFound(p, Len(seen[p].files))
      /\ At(p) \in FromRecheckTime => n = 0
      /\ At(p) = "ready" /\ Ask(p).bundle # NoBundle =>
           StillFresh(Ask(p).bundle, seen[p].files, seen[p].ended)

InputsAt(p) ==
  /\ stage[p] \in {"mkdir"} \cup Working \/ answer[p] \in ReadyAnswers =>
       /\ StateRead(p)
       /\ Ask(p).bundle # NoBundle => FilesRead(p)
       /\ ArtifactsRead(p) /\ ReportsRead(p)
       /\ ReadAt(p)
       /\ FoundAt(p)
  /\ At(p) \in FromCopy => StillThere(p)

InputsInv ==
  /\ \A f \in Path : disk[f] \in past[f]
  /\ \A p \in Proc : InputsAt(p)

WorkflowInv == WorkflowTypeOK /\ DirectoryInv /\ DrillInv /\ InputsInv
-----------------------------------------------------------------------------
(* The files that a request names.                                         *)

\* The files of a bundle are input files, the receipt of every entry is one of them,
\* and they are read one after the other.
LEMMA ReadsFiles ==
  ASSUME NEW a \in Artifact, NEW b, b = Request(a).bundle, b # NoBundle
  PROVE  /\ Len(Reads(b)) \in Nat /\ DOMAIN Reads(b) = 1..Len(Reads(b))
         /\ \A k \in DOMAIN Reads(b) : Reads(b)[k].path \in Path
         /\ \A i \in DOMAIN b.entries : \E k \in DOMAIN Reads(b) :
              Reads(b)[k] = [entry |-> i, kind |-> "receipt", id |-> "",
                             path |-> b.entries[i].path]
<1> DEFINE receipt(i) == [entry |-> i, kind |-> "receipt", id |-> "", path |-> b.entries[i].path]
           file(i, j) == [entry |-> i, kind |-> "artifact", id |-> b.entries[i].artifacts[j].id,
                          path |-> b.entries[i].artifacts[j].path]
           bound(i) == [j \in DOMAIN b.entries[i].artifacts |-> file(i, j)]
           part == [i \in DOMAIN b.entries |-> <<receipt(i)>> \o bound(i)]
<1>1. /\ b.entries \in Seq(Range(b.entries))
      /\ \A i \in DOMAIN b.entries :
           /\ b.entries[i].path \in Path
           /\ b.entries[i].artifacts \in Seq(Range(b.entries[i].artifacts))
           /\ \A j \in DOMAIN b.entries[i].artifacts : b.entries[i].artifacts[j].path \in Path
  BY WorkflowAssumption DEF NamesFiles, IsSequence
<1>2. ASSUME NEW i \in DOMAIN b.entries
      PROVE  /\ part[i] \in Seq(Range(part[i]))
             /\ receipt(i) \in Range(part[i])
             /\ \A r \in Range(part[i]) : r.path \in Path
  <2> DEFINE f == bound(i)
  <2>1. PICK m \in Nat : DOMAIN b.entries[i].artifacts = 1..m
    BY <1>1
  <2>2. f = [j \in 1..m |-> f[j]]
    BY <2>1
  <2>3. part[i] = <<receipt(i)>> \o f
    OBVIOUS
  <2>4. ASSUME NEW x \in Range(f) PROVE x.path \in Path
    <3>1. PICK j \in DOMAIN b.entries[i].artifacts : x = file(i, j)
      BY DEF Range
    <3>2. QED
      BY <1>1, <3>1
  <2>5. receipt(i).path \in Path
    BY <1>1
  <2> HIDE DEF f, part, receipt
  <2>6. part[i] \in Seq({receipt(i)} \cup Range(f)) /\ Range(part[i]) = {receipt(i)} \cup Range(f)
    BY <2>2, <2>3, OneAndSome
  <2>7. QED
    BY <2>4, <2>5, <2>6
<1> DEFINE S == UNION {Range(part[i]) : i \in DOMAIN part}
<1>3. part \in Seq(Seq(S))
  <2>1. Len(b.entries) \in Nat /\ DOMAIN part = 1..Len(b.entries)
    BY <1>1
  <2>2. \A i \in DOMAIN part : part[i] \in Seq(S)
    <3> TAKE i \in DOMAIN part
    <3>1. part[i] \in Seq(Range(part[i])) /\ Range(part[i]) \subseteq S
      BY <1>2
    <3> HIDE DEF part, S
    <3>2. QED
      BY <3>1, SeqMonotonic
  <2>3. part \in [1..Len(b.entries) -> Seq(S)]
    <3>1. part = [i \in DOMAIN part |-> part[i]]
      OBVIOUS
    <3> HIDE DEF part, S
    <3>2. QED
      BY <2>1, <2>2, <3>1
  <2> HIDE DEF part, S
  <2>4. QED
    BY <2>1, <2>3, SeqDef
<1>4. Reads(b) = FlattenSeq(part)
  BY DEF Reads
<1>5. Reads(b) \in Seq(S) /\ Range(Reads(b)) = S
  <2> HIDE DEF part
  <2>1. QED
    BY <1>3, <1>4, FlattenType
<1>6. Len(Reads(b)) \in Nat /\ DOMAIN Reads(b) = 1..Len(Reads(b))
  <2> HIDE DEF S
  <2>1. QED
    BY <1>5, LenProperties
<1>7. ASSUME NEW k \in DOMAIN Reads(b) PROVE Reads(b)[k].path \in Path
  <2>1. Reads(b)[k] \in Range(Reads(b))
    BY DEF Range
  <2>2. PICK i \in DOMAIN part : Reads(b)[k] \in Range(part[i])
    BY <1>5, <2>1
  <2>3. QED
    BY <1>2, <2>2
<1>8. ASSUME NEW i \in DOMAIN b.entries
      PROVE  \E k \in DOMAIN Reads(b) : Reads(b)[k] = receipt(i)
  <2>1. receipt(i) \in Range(Reads(b))
    BY <1>2, <1>5
  <2> HIDE DEF receipt
  <2>2. QED
    BY <2>1 DEF Range
<1>9. QED
  BY <1>6, <1>7, <1>8

-----------------------------------------------------------------------------
(* What a step of a run leaves alone.                                      *)

\* The steps of the transaction that a run takes.
Rehearses(p) == RehearseApply(p) \/ RehearseRollback(p)

\* The steps of a run that leave the drill copy alone.
Inspects(p) ==
  \/ \E a \in Artifact : Begin(p, a)
  \/ MakeOutput(p) \/ ReadProducer(p) \/ ReadArtifact(p) \/ ReadReport(p) \/ AskGates(p)
  \/ DryRun(p) \/ RehearseVerify(p) \/ Compare(p)
  \/ RecheckState(p) \/ RecheckArtifacts(p) \/ RecheckReports(p) \/ RecheckProducer(p)
  \/ RecheckTime(p) \/ Finish(p)

RunStep(p) == Inspects(p) \/ CopyState(p) \/ Rehearses(p) \/ Die(p)

LEMMA Steps == WorkflowNext <=> (\E p \in Proc : RunStep(p)) \/ EditInput \/ SetClock \/ EditDrill
BY DEF WorkflowNext, Proceed, RunStep, Inspects, Rehearses

\* The steps of the transaction, and what their process does with them.
LEMMA RehearsalShape ==
  ASSUME WorkflowTypeOK, NEW p \in Proc, Rehearses(p)
  PROVE  /\ UNCHANGED <<asked, seen, owner, verdict, answer, judgedDisk, worldVars, exclusive>>
         /\ DOMAIN job' = Proc /\ DOMAIN held' = Proc /\ DOMAIN receipts' = ReceiptPath
         /\ pc' \in [Proc -> Labels]
         /\ \A q \in Proc \ {p} : pc'[q] = pc[q] /\ job'[q] = job[q] /\ held'[q] = held[q]
         /\ stage[p] \in {"apply", "rollback"}
         /\ \E to \in {stage[p], "blocked", IF stage[p] = "apply" THEN "verify" ELSE "compare"} :
              stage' = [stage EXCEPT ![p] = to]
<1> USE DEF WorkflowTypeOK, Labels
<1>1. CASE RehearseApply(p)
  <2>1. /\ stage[p] = "apply"
        /\ UNCHANGED <<asked, seen, owner, verdict, answer, judgedDisk, worldVars>>
        /\ \E x \in {stage[p], "blocked", "verify"} : stage' = [stage EXCEPT ![p] = x]
    BY <1>1 DEF RehearseApply, Call, To
  <2>2. \/ StartApply(p, asked[p], DrillReceipt)
        \/ CheckApplicable(p) \/ ReadBefore(p) \/ CreateReceipt(p) \/ WriteReceipt(p)
        \/ ReplaceState(p) \/ VerifyApplied(p) \/ RestoreAfterFailure(p)
    BY <1>1 DEF RehearseApply, Call
  <2>3. /\ exclusive' = exclusive
        /\ DOMAIN job' = Proc /\ DOMAIN held' = Proc /\ DOMAIN receipts' = ReceiptPath
        /\ pc' \in [Proc -> Labels]
        /\ \A q \in Proc \ {p} : pc'[q] = pc[q] /\ job'[q] = job[q] /\ held'[q] = held[q]
    BY <2>2 DEF StartApply, CheckApplicable, ReadBefore, CreateReceipt, WriteReceipt,
       ReplaceState, VerifyApplied, RestoreAfterFailure, Enter, Step, Leave, Goto, files
  <2>4. QED
    BY <2>1, <2>3
<1>2. CASE RehearseRollback(p)
  <2>1. /\ stage[p] = "rollback"
        /\ UNCHANGED <<asked, seen, owner, verdict, answer, judgedDisk, worldVars>>
        /\ \E x \in {stage[p], "blocked", "compare"} : stage' = [stage EXCEPT ![p] = x]
    BY <1>2 DEF RehearseRollback, Call, To
  <2>2. \/ StartRollback(p, DrillReceipt)
        \/ InspectDivergence(p) \/ UndoState(p) \/ RecheckRestored(p)
    BY <1>2 DEF RehearseRollback, Call
  <2>3. /\ exclusive' = exclusive
        /\ DOMAIN job' = Proc /\ DOMAIN held' = Proc /\ DOMAIN receipts' = ReceiptPath
        /\ pc' \in [Proc -> Labels]
        /\ \A q \in Proc \ {p} : pc'[q] = pc[q] /\ job'[q] = job[q] /\ held'[q] = held[q]
    BY <2>2 DEF StartRollback, InspectDivergence, UndoState, RecheckRestored,
       Enter, Step, Leave, Goto, files
  <2>4. QED
    BY <2>1, <2>3
<1>3. QED
  BY <1>1, <1>2 DEF Rehearses

\* No step of a run touches what another run knows, or the world.
LEMMA RunFrame ==
  ASSUME WorkflowTypeOK, NEW p \in Proc, RunStep(p)
  PROVE  /\ UNCHANGED <<worldVars, exclusive>>
         /\ \A q \in Proc \ {p} :
              /\ stage'[q] = stage[q] /\ asked'[q] = asked[q] /\ seen'[q] = seen[q]
              /\ answer'[q] = answer[q] /\ judgedDisk'[q] = judgedDisk[q]
              /\ pc'[q] = pc[q] /\ job'[q] = job[q] /\ held'[q] = held[q]
<1> USE DEF WorkflowTypeOK
<1>1. CASE Inspects(p)
  BY <1>1 DEF Inspects, Begin, MakeOutput, ReadProducer, ReadArtifact, ReadReport, AskGates,
     DryRun, RehearseVerify, Compare, RecheckState, RecheckArtifacts, RecheckReports,
     RecheckProducer, RecheckTime, Finish, Again, To, Notes, Stop, Rest, vars
<1>2. CASE CopyState(p)
  BY <1>2 DEF CopyState, To
<1>3. CASE Rehearses(p)
  BY <1>3, RehearsalShape DEF worldVars
<1>4. CASE Die(p)
  BY <1>4 DEF Die, To, Goto
<1>5. QED
  BY <1>1, <1>2, <1>3, <1>4 DEF RunStep

-----------------------------------------------------------------------------
(* Types.                                                                  *)

\* What a run works with is known as long as it works.
LEMMA Known ==
  ASSUME WorkflowTypeOK, InputsInv, NEW p \in Proc, stage[p] \in {"mkdir"} \cup Working
  PROVE  /\ asked[p] \in Artifact /\ RequestValid(asked[p]) /\ NamesFiles(Ask(p))
         /\ seen[p] \in Memory
         /\ Ask(p).bundle # NoBundle => FilesRead(p)
         /\ StateRead(p) /\ ArtifactsRead(p) /\ ReportsRead(p) /\ ReadAt(p) /\ FoundAt(p)
BY WorkflowAssumption DEF WorkflowTypeOK, InputsInv, InputsAt, StateRead, Ask

LEMMA MemoryChanges ==
  ASSUME NEW m \in Memory
  PROVE  /\ \A v \in InputContents : [m EXCEPT !.before = v] \in Memory
         /\ \A v \in Int : [m EXCEPT !.started = v] \in Memory /\ [m EXCEPT !.ended = v] \in Memory
         /\ \A v \in FilesRecords : [m EXCEPT !.files = v] \in Memory
         /\ \A v \in ContentRecords : [m EXCEPT !.artifacts = v] \in Memory
         /\ \A v \in ContentRecords : [m EXCEPT !.reports = v] \in Memory
         /\ \A v \in BOOLEAN : [m EXCEPT !.production = v] \in Memory
         /\ \A v \in Nat : [m EXCEPT !.rechecked = v] \in Memory
<1>1. /\ m = [before |-> m.before, started |-> m.started, files |-> m.files,
              artifacts |-> m.artifacts, reports |-> m.reports,
              production |-> m.production, rechecked |-> m.rechecked, ended |-> m.ended]
      /\ m.before \in InputContents \cup {Missing} /\ m.started \in Int
      /\ m.files \in FilesRecords /\ m.artifacts \in ContentRecords
      /\ m.reports \in ContentRecords /\ m.production \in BOOLEAN
      /\ m.rechecked \in Nat /\ m.ended \in Int
  BY DEF Memory
<1>2. \A v \in Int : [m EXCEPT !.started = v] \in Memory /\ [m EXCEPT !.ended = v] \in Memory
  BY <1>1 DEF Memory
<1>3. \A v \in FilesRecords : [m EXCEPT !.files = v] \in Memory
  BY <1>1 DEF Memory
<1>4. \A v \in ContentRecords : [m EXCEPT !.artifacts = v] \in Memory
  BY <1>1 DEF Memory
<1>5. \A v \in ContentRecords : [m EXCEPT !.reports = v] \in Memory
  BY <1>1 DEF Memory
<1>6. \A v \in BOOLEAN : [m EXCEPT !.production = v] \in Memory
  BY <1>1 DEF Memory
<1>7. \A v \in Nat : [m EXCEPT !.rechecked = v] \in Memory
  BY <1>1 DEF Memory
<1>8. \A v \in InputContents : [m EXCEPT !.before = v] \in Memory
  BY <1>1 DEF Memory
<1>9. QED
  BY <1>2, <1>3, <1>4, <1>5, <1>6, <1>7, <1>8

LEMMA NothingType == Nothing \in Memory
<1>1. << >> \in FilesRecords /\ << >> \in ContentRecords
  BY DEF FilesRecords, ContentRecords
<1>2. PICK e : e = << >>
  OBVIOUS
<1>3. Nothing = [before |-> Missing, started |-> 0, files |-> e, artifacts |-> e,
                 reports |-> e, production |-> FALSE, rechecked |-> 0, ended |-> 0]
  BY <1>2, Zenon DEF Nothing
<1>4. e \in FilesRecords /\ e \in ContentRecords
  BY <1>1, <1>2
<1>5. QED
  BY <1>3, <1>4 DEF Memory

LEMMA BeginType ==
  ASSUME WorkflowTypeOK, NEW p \in Proc, NEW a \in Artifact, Begin(p, a)
  PROVE  WorkflowTypeOK'
<1>1. disk[Request(a).state_path] \in InputContents
  BY WorkflowAssumption DEF WorkflowTypeOK, NamesFiles
<1>2. [Nothing EXCEPT !.before = disk[Request(a).state_path]] \in Memory
  BY <1>1, NothingType, MemoryChanges
<1>3. /\ seen' \in [Proc -> Memory] /\ asked' \in [Proc -> Artifact \cup {Missing}]
      /\ answer' \in [Proc -> ReadyAnswers \cup {"none", "refused", "died", "unwritten", "blocked"}]
      /\ stage' \in [Proc -> Working \cup {"idle", "mkdir", "blocked", "done"}]
      /\ UNCHANGED <<vars, owner, verdict, judgedDisk, worldVars>>
  <2>1. /\ \E to \in {"mkdir", "done"} : stage' = [stage EXCEPT ![p] = to]
        /\ UNCHANGED <<vars, owner, verdict, judgedDisk, worldVars>>
        /\ \/ seen' = [seen EXCEPT ![p] = [Nothing EXCEPT !.before = disk[Request(a).state_path]]]
              /\ asked' = [asked EXCEPT ![p] = a] /\ UNCHANGED answer
           \/ answer' = [answer EXCEPT ![p] = "refused"] /\ UNCHANGED <<seen, asked>>
    BY DEF Begin, To, Notes
  <2> HIDE DEF Begin
  <2>2. stage' \in [Proc -> Working \cup {"idle", "mkdir", "blocked", "done"}]
    <3>1. PICK to \in {"mkdir", "done"} : stage' = [stage EXCEPT ![p] = to]
      BY <2>1
    <3>2. QED
      BY <3>1 DEF WorkflowTypeOK
  <2>3. /\ asked' \in [Proc -> Artifact \cup {Missing}]
        /\ answer' \in [Proc -> ReadyAnswers \cup {"none", "refused", "died", "unwritten", "blocked"}]
    <3>1. /\ asked' = [asked EXCEPT ![p] = a] \/ asked' = asked
          /\ answer' = [answer EXCEPT ![p] = "refused"] \/ answer' = answer
      BY <2>1
    <3>2. QED
      BY <3>1 DEF WorkflowTypeOK
  <2>4. seen' \in [Proc -> Memory]
    BY <1>2, <2>1 DEF WorkflowTypeOK
  <2>5. QED
    BY <2>1, <2>2, <2>3, <2>4
<1>4. QED
  BY <1>3 DEF WorkflowTypeOK, vars, worldVars

LEMMA LocalType ==
  ASSUME WorkflowTypeOK, InputsInv, NEW p \in Proc, Inspects(p), ~ \E a \in Artifact : Begin(p, a)
  PROVE  WorkflowTypeOK'
<1> USE DEF WorkflowTypeOK
<1>1. /\ UNCHANGED <<vars, asked, worldVars>>
      /\ \E to \in Working \cup {"blocked", "done"} : stage' = [stage EXCEPT ![p] = to]
  <2> USE DEF To, Working, FromArtifacts, FromReports, FromGates, FromCopy, FromRecheckState,
          FromRecheckInputs, FromRecheckReports, FromRecheckFiles, FromRecheckTime, FromReady,
          Rest, Stop
  <2>1. CASE MakeOutput(p) \/ ReadProducer(p) \/ ReadArtifact(p) \/ ReadReport(p) \/ AskGates(p)
    BY <2>1 DEF MakeOutput, ReadProducer, ReadArtifact, ReadReport, AskGates
  <2>2. CASE DryRun(p) \/ RehearseVerify(p) \/ Compare(p) \/ RecheckState(p) \/ Finish(p)
    BY <2>2 DEF DryRun, RehearseVerify, Compare, RecheckState, Finish
  <2>3. CASE RecheckArtifacts(p) \/ RecheckReports(p) \/ RecheckProducer(p) \/ RecheckTime(p)
    BY <2>3 DEF RecheckArtifacts, RecheckReports, RecheckProducer, RecheckTime, Again
  <2>4. QED
    BY <2>1, <2>2, <2>3 DEF Inspects
<1>2. judgedDisk' \in [Proc -> [Path -> InputContents]]
  BY DEF Inspects, MakeOutput, ReadProducer, ReadArtifact, ReadReport, AskGates,
     DryRun, RehearseVerify, Compare, RecheckState, RecheckArtifacts, RecheckReports,
     RecheckProducer, RecheckTime, Finish, Again, Rest
<1>3. owner' \in Proc \cup {Nobody} /\ answer' \in [Proc -> ReadyAnswers \cup {"none", "refused", "died", "unwritten", "blocked"}]
  BY DEF Inspects, MakeOutput, ReadProducer, ReadArtifact, ReadReport, AskGates,
     DryRun, RehearseVerify, Compare, RecheckState, RecheckArtifacts, RecheckReports,
     RecheckProducer, RecheckTime, Finish, Again, Rest, Status, ReadyAnswers
<1>4. seen' \in [Proc -> Memory]
  <2>1. ASSUME NEW m \in Memory, Notes(p, m) PROVE seen' \in [Proc -> Memory]
    BY <2>1 DEF Notes
  <2>2. CASE UNCHANGED seen
    BY <2>2
  <2>3. seen[p] \in Memory
    OBVIOUS
  <2>4. CASE MakeOutput(p) /\ seen' # seen
    <3>1. [seen[p] EXCEPT !.started = clock] \in Memory
      <4>1. clock \in Int
        BY WorkflowAssumption
      <4>2. QED
        BY <2>3, <4>1, MemoryChanges
    <3>2. QED
      BY <2>1, <2>4, <3>1 DEF MakeOutput
  <2>5. CASE ReadProducer(p) /\ seen' # seen
    <3> DEFINE b == Ask(p).bundle
               f == seen[p].files
               r == Reads(b)[Len(f) + 1]
               x == [path |-> r.path, content |-> disk[r.path]]
    <3>1. /\ stage[p] = "producer" /\ BundleValid(b, Ask(p).candidate)
          /\ Notes(p, [seen[p] EXCEPT !.files = Append(f, x)])
      BY <2>5 DEF ReadProducer, Stop
    <3>2. asked[p] \in Artifact /\ b # NoBundle /\ Len(f) < Len(Reads(b))
      BY <3>1, Known DEF Working, ReadAt
    <3>3. f \in Seq([path : Path, content : InputContents])
      <4>1. f \in FilesRecords
        BY <2>3 DEF Memory
      <4>2. QED
        BY <4>1 DEF FilesRecords
    <3>4. Len(f) + 1 \in DOMAIN Reads(b) /\ r.path \in Path
      <4>1. Len(f) \in Nat
        BY <3>3
      <4>2. Len(Reads(b)) \in Nat /\ DOMAIN Reads(b) = 1..Len(Reads(b))
        BY <3>2, ReadsFiles DEF Ask
      <4>3. Len(f) + 1 \in DOMAIN Reads(b)
        BY <3>2, <4>1, <4>2
      <4>4. QED
        BY <3>2, <4>3, ReadsFiles DEF Ask
    <3>5. x \in [path : Path, content : InputContents]
      BY <3>4
    <3> HIDE DEF x
    <3>6. Append(f, x) \in Seq([path : Path, content : InputContents])
      BY <3>3, <3>5
    <3> HIDE DEF f
    <3>7. [seen[p] EXCEPT !.files = Append(f, x)] \in Memory
      BY <2>3, <3>6, MemoryChanges DEF FilesRecords
    <3>8. QED
      BY <2>1, <3>1, <3>7
  <2>6. CASE ReadArtifact(p) /\ seen' # seen
    <3> DEFINE n == Len(seen[p].artifacts) + 1
               c == disk[Ask(p).bindings[n].path]
    <3>1. stage[p] = "artifacts" /\ Notes(p, [seen[p] EXCEPT !.artifacts = Append(@, c)])
      BY <2>6 DEF ReadArtifact, Stop
    <3>2. NamesFiles(Ask(p)) /\ Len(seen[p].artifacts) < Len(Ask(p).bindings)
      BY <3>1, Known DEF Working, FromArtifacts, ReadAt
    <3> DEFINE r == seen[p].artifacts
    <3>r. r \in Seq(InputContents)
      <4>1. r \in ContentRecords
        BY <2>3 DEF Memory
      <4>2. QED
        BY <4>1 DEF ContentRecords
    <3>3. n \in DOMAIN Ask(p).bindings
      BY <3>r, <3>2 DEF NamesFiles, IsSequence
    <3>4. c \in InputContents
      BY <3>2, <3>3 DEF NamesFiles
    <3> HIDE DEF c
    <3>5. [seen[p] EXCEPT !.artifacts = Append(@, c)] \in Memory
      <4>1. Append(r, c) \in ContentRecords
        BY <3>r, <3>4 DEF ContentRecords
      <4>2. QED
        BY <2>3, <4>1, MemoryChanges
    <3>6. QED
      BY <2>1, <3>1, <3>5
  <2>7. CASE ReadReport(p) /\ seen' # seen
    <3> DEFINE n == Len(seen[p].reports) + 1
               c == disk[Ask(p).junit[n]]
    <3>1. stage[p] = "junit" /\ Notes(p, [seen[p] EXCEPT !.reports = Append(seen[p].reports, c)])
      BY <2>7 DEF ReadReport, Stop
    <3>2. NamesFiles(Ask(p)) /\ Len(seen[p].reports) < Len(Ask(p).junit)
      BY <3>1, Known DEF Working, FromArtifacts, FromReports, ReadAt
    <3> DEFINE r == seen[p].reports
    <3>r. r \in Seq(InputContents)
      <4>1. r \in ContentRecords
        BY <2>3 DEF Memory
      <4>2. QED
        BY <4>1 DEF ContentRecords
    <3>3. n \in DOMAIN Ask(p).junit
      BY <3>r, <3>2 DEF NamesFiles, IsSequence
    <3>4. c \in InputContents
      BY <3>2, <3>3 DEF NamesFiles
    <3> HIDE DEF c
    <3>5. [seen[p] EXCEPT !.reports = Append(seen[p].reports, c)] \in Memory
      <4>1. Append(r, c) \in ContentRecords
        BY <3>r, <3>4 DEF ContentRecords
      <4>2. QED
        BY <2>3, <4>1, MemoryChanges
    <3>6. QED
      BY <2>1, <3>1, <3>5
  <2>8. CASE AskGates(p)
    <3>1. stage[p] = "gates" /\ Notes(p, [seen[p] EXCEPT !.production = Judge(asked[p], clock).production])
      BY <2>8 DEF AskGates
    <3>2. asked[p] \in Artifact
      BY <3>1, Known DEF Working, FromArtifacts, FromReports, FromGates
    <3>3. Judge(asked[p], clock).production \in BOOLEAN
      BY <3>2, WorkflowAssumption
    <3>4. [seen[p] EXCEPT !.production = Judge(asked[p], clock).production] \in Memory
      BY <2>3, <3>3, MemoryChanges
    <3>5. QED
      BY <2>1, <3>1, <3>4
  <2>9. CASE (RecheckArtifacts(p) \/ RecheckReports(p) \/ RecheckProducer(p)) /\ seen' # seen
    <3>1. \E n \in {0, seen[p].rechecked + 1} : Notes(p, [seen[p] EXCEPT !.rechecked = n])
      BY <2>9 DEF RecheckArtifacts, RecheckReports, RecheckProducer, Again, Stop
    <3>2. \A n \in {0, seen[p].rechecked + 1} : [seen[p] EXCEPT !.rechecked = n] \in Memory
      <4>1. seen[p].rechecked \in Nat
        BY <2>3 DEF Memory
      <4>2. \A n \in {0, seen[p].rechecked + 1} : n \in Nat
        BY <4>1
      <4>3. QED
        BY <2>3, <4>2, MemoryChanges
    <3>3. QED
      BY <2>1, <3>1, <3>2
  <2>10. CASE RecheckTime(p) /\ seen' # seen
    <3>1. [seen[p] EXCEPT !.ended = clock] \in Memory
      <4>1. clock \in Int
        BY WorkflowAssumption
      <4>2. QED
        BY <2>3, <4>1, MemoryChanges
    <3>2. QED
      BY <2>1, <2>10, <3>1 DEF RecheckTime, Stop
  <2>11. CASE DryRun(p) \/ RehearseVerify(p) \/ Compare(p) \/ RecheckState(p) \/ Finish(p)
    BY <2>11 DEF DryRun, RehearseVerify, Compare, RecheckState, Finish
  <2>12. QED
    BY <2>2, <2>4, <2>5, <2>6, <2>7, <2>8, <2>9, <2>10, <2>11 DEF Inspects
<1>5. stage' \in [Proc -> Working \cup {"idle", "mkdir", "blocked", "done"}]
  BY <1>1
<1>6. QED
  BY <1>1, <1>2, <1>3, <1>4, <1>5 DEF vars, worldVars

LEMMA WorkflowTypeStep ==
  ASSUME WorkflowTypeOK, InputsInv, [WorkflowNext]_workflowVars
  PROVE  WorkflowTypeOK'
<1> USE DEF WorkflowTypeOK
<1>1. ASSUME NEW p \in Proc, Inspects(p) PROVE WorkflowTypeOK'
  BY <1>1, BeginType, LocalType
<1>2. ASSUME NEW p \in Proc, CopyState(p) PROVE WorkflowTypeOK'
  BY <1>2 DEF CopyState, To, worldVars, Working, FromArtifacts, FromReports, FromGates, FromCopy
<1>3. ASSUME NEW p \in Proc, Rehearses(p) PROVE WorkflowTypeOK'
  <2>1. {"apply", "rollback", "verify", "compare"} \subseteq Working
    BY DEF Working, FromArtifacts, FromReports, FromGates, FromCopy
  <2>2. stage' \in [Proc -> Working \cup {"idle", "mkdir", "blocked", "done"}]
    <3>0. /\ stage[p] \in {"apply", "rollback"}
          /\ \E to \in {stage[p], "blocked", IF stage[p] = "apply" THEN "verify" ELSE "compare"} :
               stage' = [stage EXCEPT ![p] = to]
      BY <1>3, RehearsalShape
    <3>1. PICK to \in {"apply", "rollback", "blocked", "verify", "compare"} :
            stage' = [stage EXCEPT ![p] = to]
      BY ONLY <3>0
    <3>2. QED
      BY <2>1, <3>1
  <2>3. QED
    BY <1>3, <2>2, RehearsalShape DEF worldVars
<1>4. ASSUME NEW p \in Proc, Die(p) PROVE WorkflowTypeOK'
  BY <1>4 DEF Die, To, Goto, worldVars, Labels
<1>5. ASSUME EditInput PROVE WorkflowTypeOK'
  <2>1. \A f \in Path : ContentAt(f) \subseteq InputContents
    BY DEF InputContents
  <2>2. QED
    BY <1>5, <2>1 DEF EditInput, vars, runVars
<1>6. ASSUME SetClock PROVE WorkflowTypeOK'
  BY <1>6 DEF SetClock, vars, runVars
<1>7. ASSUME EditDrill PROVE WorkflowTypeOK'
  BY <1>7 DEF EditDrill, EditState, runVars, worldVars
<1>8. CASE UNCHANGED workflowVars
  BY <1>8 DEF workflowVars, vars, runVars, worldVars
<1>9. QED
  BY <1>1, <1>2, <1>3, <1>4, <1>5, <1>6, <1>7, <1>8, Steps DEF RunStep

-----------------------------------------------------------------------------
(* The output directory.                                                   *)

\* What a run does once it has its directory, and before it is finished.
Works(p) ==
  /\ stage[p] \in Working
  /\ \E to \in Working \cup {"blocked"} : stage' = [stage EXCEPT ![p] = to]
  /\ UNCHANGED <<owner, verdict, answer, asked>>

LEMMA RunWorks ==
  ASSUME WorkflowTypeOK, NEW p \in Proc, RunStep(p)
  PROVE  \/ \E a \in Artifact : Begin(p, a)
         \/ MakeOutput(p) \/ Finish(p) \/ Die(p) \/ Works(p)
<1> USE DEF To, Working, FromArtifacts, FromReports, FromGates, FromCopy, FromRecheckState,
        FromRecheckInputs, FromRecheckReports, FromRecheckFiles, FromRecheckTime, FromReady,
        Rest, Stop, Works
<1>1. CASE ReadProducer(p) \/ ReadArtifact(p) \/ ReadReport(p) \/ AskGates(p)
  BY <1>1 DEF ReadProducer, ReadArtifact, ReadReport, AskGates
<1>2. CASE DryRun(p) \/ RehearseVerify(p) \/ Compare(p) \/ RecheckState(p) \/ CopyState(p)
  BY <1>2 DEF DryRun, RehearseVerify, Compare, RecheckState, CopyState
<1>3. CASE RecheckArtifacts(p) \/ RecheckReports(p) \/ RecheckProducer(p) \/ RecheckTime(p)
  BY <1>3 DEF RecheckArtifacts, RecheckReports, RecheckProducer, RecheckTime, Again
<1>4. CASE Rehearses(p)
  <2>1. /\ stage[p] \in {"apply", "rollback"} /\ UNCHANGED <<owner, verdict, answer, asked>>
        /\ \E to \in {stage[p], "blocked", IF stage[p] = "apply" THEN "verify" ELSE "compare"} :
             stage' = [stage EXCEPT ![p] = to]
    BY <1>4, RehearsalShape
  <2>2. QED
    BY ONLY <2>1 DEF Works, Working, FromArtifacts, FromReports, FromGates, FromCopy
<1>5. QED
  BY <1>1, <1>2, <1>3, <1>4 DEF RunStep, Inspects

\* The stages of work are not those of a run that has no directory or is finished.
LEMMA StagesDiffer == Working \cap {"idle", "mkdir", "blocked", "done"} = {}
BY DEF Working, FromArtifacts, FromReports, FromGates, FromCopy, FromRecheckState,
   FromRecheckInputs, FromRecheckReports, FromRecheckFiles, FromRecheckTime, FromReady

LEMMA DirectoryStep ==
  ASSUME WorkflowTypeOK, DirectoryInv, [WorkflowNext]_workflowVars
  PROVE  DirectoryInv'
<1> USE StagesDiffer DEF ReadyAnswers
<1>0. Nobody \notin Proc /\ owner \in Proc \cup {Nobody}
  BY TransactionAssumption DEF WorkflowTypeOK
<1>1. ASSUME NEW p \in Proc, NEW a \in Artifact, Begin(p, a) PROVE DirectoryInv'
  <2>1. /\ stage[p] = "idle"
        /\ stage'[p] \in {"mkdir", "done"} /\ answer'[p] \in {answer[p], "refused"}
        /\ UNCHANGED <<owner, verdict>>
        /\ \A q \in Proc \ {p} : stage'[q] = stage[q] /\ answer'[q] = answer[q]
    BY <1>1 DEF Begin, To, WorkflowTypeOK
  <2>2. QED
    BY <1>0, <2>1 DEF DirectoryInv
<1>2. ASSUME NEW p \in Proc, MakeOutput(p) PROVE DirectoryInv'
  <2>1. /\ stage[p] = "mkdir" /\ UNCHANGED verdict
        /\ \/ owner = Nobody /\ owner' = p /\ stage'[p] \in Working /\ UNCHANGED answer
           \/ owner' = owner /\ stage'[p] = "done" /\ answer'[p] = "refused"
        /\ \A q \in Proc \ {p} : stage'[q] = stage[q] /\ answer'[q] = answer[q]
    BY <1>2 DEF MakeOutput, To, WorkflowTypeOK, Working, FromArtifacts
  <2>2. QED
    BY <1>0, <2>1 DEF DirectoryInv
<1>3. ASSUME NEW p \in Proc, Finish(p) PROVE DirectoryInv'
  <2>1. stage[p] \in Working \cup {"blocked"}
    BY <1>3 DEF Finish, Working, FromArtifacts, FromReports, FromGates, FromCopy,
       FromRecheckState, FromRecheckInputs, FromRecheckReports, FromRecheckFiles,
       FromRecheckTime, FromReady
  <2>2. owner = p /\ verdict.run = Nobody
    BY <2>1 DEF DirectoryInv
  <2>3. /\ stage'[p] = "done" /\ owner' = owner
        /\ \/ verdict'.run = p /\ verdict'.status = answer'[p]
           \/ verdict' = verdict /\ answer'[p] = "unwritten"
        /\ \A q \in Proc \ {p} : stage'[q] = stage[q] /\ answer'[q] = answer[q]
    BY <1>3, <2>2 DEF Finish, To, WorkflowTypeOK
  <2>4. QED
    BY <1>0, <2>2, <2>3 DEF DirectoryInv
<1>4. ASSUME NEW p \in Proc, Die(p) PROVE DirectoryInv'
  <2>1. /\ stage[p] # "done" /\ UNCHANGED <<owner, verdict>>
        /\ stage'[p] = "done" /\ answer'[p] = "died"
        /\ \A q \in Proc \ {p} : stage'[q] = stage[q] /\ answer'[q] = answer[q]
    BY <1>4 DEF Die, To, WorkflowTypeOK
  <2>2. QED
    BY <1>0, <2>1 DEF DirectoryInv
<1>5. ASSUME NEW p \in Proc, Works(p) PROVE DirectoryInv'
  <2>1. /\ stage[p] \in Working /\ stage'[p] \in Working \cup {"blocked"}
        /\ UNCHANGED <<owner, verdict, answer>>
        /\ \A q \in Proc \ {p} : stage'[q] = stage[q]
    BY <1>5 DEF Works, WorkflowTypeOK
  <2>2. QED
    BY <1>0, <2>1 DEF DirectoryInv
<1>6. CASE EditInput \/ SetClock \/ EditDrill \/ UNCHANGED workflowVars
  BY <1>6 DEF EditInput, SetClock, EditDrill, workflowVars, runVars, DirectoryInv
<1>7. QED
  BY <1>1, <1>2, <1>3, <1>4, <1>5, <1>6, Steps, RunWorks

-----------------------------------------------------------------------------
(* The rehearsal.                                                          *)

\* No merge artifact leaves what the copy of a run is, nor do other programs.
LEMMA CopyIsOther ==
  ASSUME WorkflowTypeOK, InputsInv, NEW p \in Proc, stage[p] \in Working
  PROVE  /\ asked[p] \in Artifact /\ seen[p].before \in InputContents
         /\ Copy(seen[p].before) \in DrillContents
         /\ Copy(seen[p].before) \notin Foreign
         /\ \A a \in Artifact : Copy(seen[p].before) # After(a)
<1>1. asked[p] \in Artifact /\ seen[p].before \in InputContents
  <2>1. StateRead(p) /\ NamesFiles(Ask(p))
    BY Known
  <2>2. QED
    BY <2>1 DEF StateRead, NamesFiles, WorkflowTypeOK
<1>2. \A a \in Artifact : Copy(seen[p].before) # After(a)
  BY <1>1, WorkflowAssumption DEF Copy, After, Content
<1>3. QED
  BY <1>1, <1>2, WorkflowAssumption DEF DrillContents

\* While a run works the others do not, and none has answered.
LEMMA OthersAreOut ==
  ASSUME DirectoryInv, NEW p \in Proc, stage[p] \in Working \cup {"blocked"},
         NEW q \in Proc \ {p}
  PROVE  stage[q] \notin Working \cup {"blocked"} /\ answer[q] \notin ReadyAnswers
BY TransactionAssumption DEF DirectoryInv

LEMMA DrillOfOthers ==
  ASSUME WorkflowTypeOK, DirectoryInv, NEW p \in Proc, RunStep(p), NEW q \in Proc \ {p}, DrillAt(q),
         stage[p] \in Working \/ UNCHANGED <<state, receipts>>
  PROVE  DrillAt(q)'
<1>1. /\ stage'[q] = stage[q] /\ asked'[q] = asked[q] /\ seen'[q] = seen[q]
      /\ answer'[q] = answer[q] /\ pc'[q] = pc[q] /\ job'[q] = job[q] /\ held'[q] = held[q]
  BY RunFrame
<1>2. CASE UNCHANGED <<state, receipts>>
  BY <1>1, <1>2 DEF DrillAt, Rehearsed, At
<1>3. CASE stage[p] \in Working
  <2>1. stage[q] \notin Working /\ answer[q] \notin ReadyAnswers
    BY <1>3, OthersAreOut
  <2>2. {"apply", "rollback", "verify", "compare"} \cup FromRecheckState \cup FromCopy \subseteq Working
    BY DEF Working, FromArtifacts, FromReports, FromGates, FromCopy
  <2>3. QED
    BY <1>1, <2>1, <2>2 DEF DrillAt, At
<1>4. QED
  BY <1>2, <1>3

\* The steps that leave the drill copy alone.
LEMMA DrillInspected ==
  ASSUME WorkflowTypeOK, DirectoryInv, InputsInv, NEW p \in Proc, DrillAt(p), Inspects(p)
  PROVE  DrillAt(p)' /\ UNCHANGED <<state, receipts>>
<1> USE DEF FromCopy, FromRecheckState, FromRecheckInputs, FromRecheckReports, FromRecheckFiles,
            FromRecheckTime, FromReady
<1>1. UNCHANGED <<state, receipts, pc, job, held>>
  BY DEF Inspects, Begin, MakeOutput, ReadProducer, ReadArtifact, ReadReport, AskGates,
     DryRun, RehearseVerify, Compare, RecheckState, RecheckArtifacts, RecheckReports,
     RecheckProducer, RecheckTime, Finish, Again, Rest, vars
<1>2. CASE \/ \E a \in Artifact : Begin(p, a)
           \/ MakeOutput(p) \/ ReadProducer(p) \/ ReadArtifact(p) \/ ReadReport(p)
  <2>1. /\ stage[p] \in {"idle", "mkdir", "producer", "artifacts", "junit"}
        /\ stage'[p] \in {"mkdir", "producer", "artifacts", "junit", "gates", "blocked", "done"}
        /\ answer'[p] \in {answer[p], "refused"}
    BY <1>2 DEF Begin, MakeOutput, ReadProducer, ReadArtifact, ReadReport, To, Stop, Rest,
       WorkflowTypeOK
  <2>2. answer[p] \notin ReadyAnswers /\ answer'[p] \notin ReadyAnswers
    BY <2>1 DEF DirectoryInv, ReadyAnswers
  <2>3. pc'[p] = "idle"
    BY <1>1, <2>1 DEF DrillAt
  <2>4. QED
    BY <1>1, <2>1, <2>2, <2>3 DEF DrillAt, At
<1>3. CASE AskGates(p)
  <2>1. /\ stage[p] = "gates" /\ stage'[p] \in {"copy", "blocked"}
        /\ stage'[p] = "copy" => ArtifactOf[asked[p]].decision = "ready"
        /\ answer' = answer /\ asked' = asked
    BY <1>3 DEF AskGates, To, WorkflowTypeOK
  <2>2. answer[p] \notin ReadyAnswers
    BY <2>1 DEF DirectoryInv, ReadyAnswers
  <2>3. pc'[p] = "idle"
    BY <1>1, <2>1 DEF DrillAt
  <2>4. QED
    BY <1>1, <2>1, <2>2, <2>3 DEF DrillAt, At
<1>4. CASE DryRun(p) \/ RehearseVerify(p) \/ Compare(p)
  <2>1. /\ \/ stage[p] = "dry_run" /\ stage'[p] = "apply"
           \/ stage[p] = "verify" /\ stage'[p] = "rollback"
           \/ stage[p] = "compare" /\ stage'[p] = "recheck_state" /\ state = Copy(seen[p].before)
           \/ stage'[p] = "blocked"
        /\ stage[p] \in {"dry_run", "verify", "compare"}
        /\ answer' = answer /\ asked' = asked /\ seen' = seen
    BY <1>4 DEF DryRun, RehearseVerify, Compare, Rest, To, WorkflowTypeOK
  <2>2. answer[p] \notin ReadyAnswers
    BY <2>1 DEF DirectoryInv, ReadyAnswers
  <2>3. pc'[p] = "idle" /\ pc[p] = "idle"
    BY <1>1, <2>1 DEF DrillAt
  <2>4. stage[p] = "compare" /\ stage'[p] = "recheck_state" =>
          receipts[DrillReceipt] = [before |-> Copy(seen[p].before), after |-> After(asked[p])]
    BY <2>1 DEF DrillAt, Rehearsed, DrillReceipts
  <2>5. QED
    BY <1>1, <2>1, <2>2, <2>3, <2>4 DEF DrillAt, At, Rehearsed
<1>5. CASE RecheckState(p) \/ RecheckArtifacts(p) \/ RecheckReports(p) \/ RecheckProducer(p)
           \/ RecheckTime(p)
  <2>1. /\ stage[p] \in FromRecheckState /\ stage'[p] \in FromRecheckState \cup {"blocked"}
        /\ answer' = answer /\ asked' = asked
        /\ seen'[p].before = seen[p].before
    BY <1>5 DEF RecheckState, RecheckArtifacts, RecheckReports, RecheckProducer, RecheckTime,
       Again, Rest, Stop, To, Notes, WorkflowTypeOK, Memory
  <2>2. answer[p] \notin ReadyAnswers
    BY <2>1 DEF DirectoryInv, ReadyAnswers
  <2>3. pc'[p] = "idle"
    BY <1>1, <2>1 DEF DrillAt
  <2>4. QED
    BY <1>1, <2>1, <2>2, <2>3 DEF DrillAt, At
<1>6. CASE Finish(p)
  <2>1. /\ stage[p] \in {"ready", "blocked"} /\ stage'[p] = "done"
        /\ asked' = asked /\ seen' = seen
        /\ answer'[p] \in {"refused", "unwritten", Status(p)}
    BY <1>6 DEF Finish, To, WorkflowTypeOK
  <2>2. pc'[p] = "idle"
    BY <1>1, <2>1 DEF DrillAt
  <2>3. answer'[p] \in ReadyAnswers => stage[p] = "ready"
    BY <2>1 DEF Status, ReadyAnswers
  <2>4. answer[p] \notin ReadyAnswers
    BY <2>1 DEF DirectoryInv
  <2>5. QED
    BY <1>1, <2>1, <2>2, <2>3, <2>4 DEF DrillAt, At
<1>7. QED
  BY <1>1, <1>2, <1>3, <1>4, <1>5, <1>6 DEF Inspects

\* What a run keeps of its own while it rehearses.
LEMMA RehearsalKeeps ==
  ASSUME WorkflowTypeOK, DirectoryInv, InputsInv, NEW p \in Proc, Rehearses(p)
  PROVE  /\ asked'[p] = asked[p] /\ seen'[p] = seen[p]
         /\ answer'[p] = answer[p] /\ answer[p] \notin ReadyAnswers
         /\ asked[p] \in Artifact
         /\ Copy(seen[p].before) \in DrillContents
         /\ Copy(seen[p].before) \notin Foreign
         /\ \A a \in Artifact : Copy(seen[p].before) # After(a)
         /\ DrillReceipt \in DOMAIN receipts
<1>1. stage[p] \in {"apply", "rollback"} /\ UNCHANGED <<asked, seen, answer>>
  BY RehearsalShape
<1>2. stage[p] \in Working /\ stage[p] # "done"
  BY <1>1 DEF Working, FromArtifacts, FromReports, FromGates, FromCopy
<1>3. answer[p] \notin ReadyAnswers
  BY <1>2 DEF DirectoryInv
<1>4. QED
  BY <1>1, <1>2, <1>3, CopyIsOther, WorkflowAssumption DEF WorkflowTypeOK

LEMMA ApplyRehearsed ==
  ASSUME WorkflowTypeOK, DirectoryInv, InputsInv, DrillInv, NEW p \in Proc, RehearseApply(p)
  PROVE  DrillAt(p)' /\ state' \in DrillContents
<1> USE DEF FromCopy, FromRecheckState, FromRecheckInputs, FromRecheckReports, FromRecheckFiles,
            FromRecheckTime, FromReady
<1>1. /\ asked'[p] = asked[p] /\ seen'[p] = seen[p]
      /\ answer'[p] = answer[p] /\ answer[p] \notin ReadyAnswers
      /\ asked[p] \in Artifact
      /\ Copy(seen[p].before) \in DrillContents
      /\ Copy(seen[p].before) \notin Foreign
      /\ \A a \in Artifact : Copy(seen[p].before) # After(a)
      /\ DrillReceipt \in DOMAIN receipts
  BY RehearsalKeeps DEF Rehearses
<1>2. stage[p] = "apply" /\ state \in DrillContents /\ DrillAt(p)
  BY DEF RehearseApply, Call, DrillInv
<1>3. pc[p] # "idle" =>
        stage'[p] = IF pc'[p] # "idle" THEN "apply" ELSE IF pc[p] = "verify" THEN "verify" ELSE "blocked"
  <2>1. ASSUME StartApply(p, asked[p], DrillReceipt) PROVE pc[p] = "idle"
    BY <2>1 DEF StartApply, Enter
  <2>2. \/ StartApply(p, asked[p], DrillReceipt)
        \/ stage' = [stage EXCEPT ![p] = IF pc'[p] # "idle" THEN "apply"
                                         ELSE IF pc[p] = "verify" THEN "verify" ELSE "blocked"]
    BY DEF RehearseApply, Call, To
  <2>3. QED
    BY <2>1, <2>2 DEF WorkflowTypeOK
<1> USE DEF WorkflowTypeOK, Goto, files
<1>4. CASE StartApply(p, asked[p], DrillReceipt)
  <2>1. stage'[p] = "apply" /\ pc'[p] = "check" /\ UNCHANGED <<state, receipts>>
        /\ job'[p] = [artifact |-> asked[p], path |-> DrillReceipt]
    BY <1>4 DEF StartApply, Enter, RehearseApply, Call, To
  <2>2. QED
    BY <1>1, <1>2, <2>1 DEF DrillAt, At
<1>5. CASE CheckApplicable(p)
  <2>1. \/ pc'[p] = "read" /\ stage'[p] = "apply" /\ UNCHANGED <<state, receipts, job, held>>
        \/ pc'[p] = "idle" /\ stage'[p] = "blocked" /\ UNCHANGED <<state, receipts>>
    BY <1>2, <1>3, <1>5 DEF CheckApplicable, Step, Leave
  <2>2. pc[p] = "check"
    BY <1>5 DEF CheckApplicable
  <2>3. QED
    BY <1>1, <1>2, <2>1, <2>2 DEF DrillAt, At
<1>6. CASE ReadBefore(p)
  <2>1. /\ pc[p] = "read" /\ pc'[p] = "create" /\ stage'[p] = "apply"
        /\ UNCHANGED <<state, receipts, job>>
        /\ held'[p] = [before |-> state, after |-> After(job[p].artifact)]
    BY <1>2, <1>3, <1>6 DEF ReadBefore, Step
  <2>2. job[p] = [artifact |-> asked[p], path |-> DrillReceipt]
    BY <1>2, <2>1 DEF DrillAt
  <2>3. held'[p] = [before |-> state, after |-> After(asked[p])]
    BY <2>1, <2>2
  <2>4. Rehearsed(p, held[p])'
    BY <1>1, <1>2, <2>1, <2>3 DEF Rehearsed, DrillReceipts
  <2>5. QED
    BY <1>1, <1>2, <2>1, <2>2, <2>4 DEF DrillAt, At
<1>7. CASE CreateReceipt(p)
  <2>1. \/ pc'[p] = "write" /\ stage'[p] = "apply" /\ UNCHANGED <<state, job, held>>
        \/ pc'[p] = "idle" /\ stage'[p] = "blocked" /\ UNCHANGED <<state, receipts>>
    BY <1>2, <1>3, <1>7 DEF CreateReceipt, Step, Leave
  <2>2. pc[p] = "create"
    BY <1>7 DEF CreateReceipt
  <2>3. QED
    BY <1>1, <1>2, <2>1, <2>2 DEF DrillAt, At, Rehearsed
<1>8. CASE WriteReceipt(p)
  <2>1. /\ pc[p] = "write" /\ pc'[p] = "replace" /\ stage'[p] = "apply"
        /\ UNCHANGED <<state, job, held>>
        /\ receipts' = [receipts EXCEPT ![job[p].path] = held[p]]
    BY <1>2, <1>3, <1>8 DEF WriteReceipt, Step
  <2>2. job[p].path = DrillReceipt
    BY <1>2, <2>1 DEF DrillAt
  <2>3. receipts'[DrillReceipt] = held[p]
    BY <1>1, <2>1, <2>2
  <2>4. QED
    BY <1>1, <1>2, <2>1, <2>3 DEF DrillAt, At, Rehearsed
<1>9. CASE ReplaceState(p)
  <2>1. /\ pc[p] = "replace" /\ pc'[p] \in {"verify", "restore"} /\ stage'[p] = "apply"
        /\ UNCHANGED <<receipts, job, held>> /\ state' \in {state, held[p].after}
    BY <1>2, <1>3, <1>9 DEF ReplaceState, Step
  <2>2. Rehearsed(p, held[p]) /\ held[p].after = After(asked[p])
    BY <1>2, <2>1 DEF DrillAt, Rehearsed
  <2>3. state' \in DrillContents
    BY <1>1, <1>2, <2>1, <2>2 DEF DrillContents, Contents
  <2>4. Rehearsed(p, held[p])'
    BY <1>1, <2>1, <2>2 DEF Rehearsed
  <2>5. QED
    BY <1>1, <1>2, <2>1, <2>3, <2>4 DEF DrillAt, At
<1>10. CASE VerifyApplied(p)
  <2>1. /\ pc[p] = "verify" /\ UNCHANGED <<state, receipts>>
        /\ \/ pc'[p] = "restore" /\ stage'[p] = "apply" /\ UNCHANGED <<job, held>>
           \/ pc'[p] = "idle" /\ stage'[p] \in {"verify", "blocked"}
    BY <1>2, <1>3, <1>10 DEF VerifyApplied, Step, Leave
  <2>2. Rehearsed(p, held[p]) /\ receipts[DrillReceipt] = held[p]
    BY <1>2, <2>1 DEF DrillAt
  <2>3. QED
    BY <1>1, <1>2, <2>1, <2>2 DEF DrillAt, At, Rehearsed
<1>11. CASE RestoreAfterFailure(p)
  <2>1. /\ pc[p] = "restore" /\ pc'[p] = "idle" /\ stage'[p] = "blocked"
        /\ UNCHANGED receipts /\ state' \in {state, held[p].before}
    BY <1>2, <1>3, <1>11 DEF RestoreAfterFailure, Leave
  <2>2. held[p].before \in DrillContents
    BY <1>2, <2>1 DEF DrillAt, Rehearsed, DrillReceipts
  <2>3. QED
    BY <1>1, <1>2, <2>1, <2>2 DEF DrillAt, At
<1>12. QED
  BY <1>4, <1>5, <1>6, <1>7, <1>8, <1>9, <1>10, <1>11 DEF RehearseApply, Call

LEMMA RollbackRehearsed ==
  ASSUME WorkflowTypeOK, DirectoryInv, InputsInv, DrillInv, NEW p \in Proc, RehearseRollback(p)
  PROVE  DrillAt(p)' /\ state' \in DrillContents
<1> USE DEF FromCopy, FromRecheckState, FromRecheckInputs, FromRecheckReports, FromRecheckFiles,
            FromRecheckTime, FromReady
<1>1. /\ asked'[p] = asked[p] /\ seen'[p] = seen[p]
      /\ answer'[p] = answer[p] /\ answer[p] \notin ReadyAnswers
  BY RehearsalKeeps DEF Rehearses
<1>2. /\ stage[p] = "rollback" /\ state \in DrillContents /\ DrillAt(p)
      /\ Rehearsed(p, receipts[DrillReceipt])
      /\ receipts[DrillReceipt].before \in DrillContents
  BY DEF RehearseRollback, Call, DrillInv, DrillAt, Rehearsed, DrillReceipts
<1>3. /\ stage'[p] \in {"rollback", "blocked", "compare"}
      /\ stage'[p] = "rollback" => pc'[p] # "idle"
      /\ stage'[p] # "rollback" => pc'[p] = "idle"
  BY DEF RehearseRollback, Call, To, WorkflowTypeOK
<1>4. /\ UNCHANGED receipts
      /\ pc'[p] # "idle" => held'[p] = receipts[DrillReceipt] /\ pc'[p] \in {"inspect", "undo", "recheck"}
      /\ state' \in {state, receipts[DrillReceipt].before}
  <2> USE DEF WorkflowTypeOK, Goto, files
  <2>1. CASE StartRollback(p, DrillReceipt)
    BY <2>1 DEF StartRollback, Enter
  <2>2. CASE InspectDivergence(p)
    <3>1. held[p] = receipts[DrillReceipt]
      BY <1>2, <2>2 DEF InspectDivergence, DrillAt
    <3>2. /\ UNCHANGED <<state, receipts>>
          /\ pc'[p] = "idle" \/ (pc'[p] = "undo" /\ UNCHANGED held)
      BY <2>2 DEF InspectDivergence, Step, Leave
    <3>3. QED
      BY <3>1, <3>2
  <2>3. CASE UndoState(p)
    <3>1. held[p] = receipts[DrillReceipt]
      BY <1>2, <2>3 DEF UndoState, Step, DrillAt
    <3>2. QED
      BY <2>3, <3>1 DEF UndoState, Step, Leave
  <2>4. CASE RecheckRestored(p)
    BY <2>4 DEF RecheckRestored, Leave
  <2>5. QED
    BY <2>1, <2>2, <2>3, <2>4 DEF RehearseRollback, Call
<1>5. Rehearsed(p, receipts[DrillReceipt])'
  BY <1>1, <1>2, <1>4 DEF Rehearsed
<1>6. QED
  BY <1>1, <1>2, <1>3, <1>4, <1>5 DEF DrillAt, At

LEMMA DrillStep ==
  ASSUME WorkflowTypeOK, DirectoryInv, InputsInv, DrillInv, [WorkflowNext]_workflowVars
  PROVE  DrillInv'
<1>1. ASSUME NEW p \in Proc, Inspects(p) PROVE DrillInv'
  <2>1. \A q \in Proc : DrillAt(q)
    BY DEF DrillInv
  <2>2. DrillAt(p)' /\ UNCHANGED <<state, receipts>>
    BY <1>1, <2>1, DrillInspected
  <2>3. \A q \in Proc \ {p} : DrillAt(q)'
    BY <1>1, <2>1, <2>2, DrillOfOthers DEF RunStep
  <2>4. QED
    BY <2>2, <2>3 DEF DrillInv
<1>2. ASSUME NEW p \in Proc, CopyState(p) \/ Rehearses(p) PROVE DrillInv'
  <2>1. \A q \in Proc : DrillAt(q)
    BY DEF DrillInv
  <2>2. stage[p] \in {"copy", "apply", "rollback"}
    BY <1>2 DEF CopyState, Rehearses, RehearseApply, RehearseRollback, Call
  <2>3. stage[p] \in Working /\ stage[p] # "done"
    BY <2>2 DEF Working, FromArtifacts, FromReports, FromGates, FromCopy
  <2>4. \A q \in Proc \ {p} : DrillAt(q)'
    BY <1>2, <2>1, <2>3, DrillOfOthers DEF RunStep
  <2>5. DrillAt(p)' /\ state' \in DrillContents
    <3>1. CASE CopyState(p)
      <4>1. /\ UNCHANGED <<receipts, pc, job, held, asked, seen, answer>>
            /\ stage[p] = "copy" /\ stage'[p] \in {"dry_run", "blocked"}
            /\ state' \in {state, Copy(seen[p].before)}
        BY <3>1 DEF CopyState, To, WorkflowTypeOK
      <4>2. pc[p] = "idle" /\ answer[p] \notin ReadyAnswers
        BY <2>1, <2>3, <4>1 DEF DrillAt, DirectoryInv
      <4>3. Copy(seen[p].before) \in DrillContents
        BY <2>3, CopyIsOther
      <4>4. QED
        BY <2>1, <4>1, <4>2, <4>3
           DEF DrillInv, DrillAt, At, FromCopy, FromRecheckState, FromRecheckInputs,
               FromRecheckReports, FromRecheckFiles, FromRecheckTime, FromReady
    <3>2. QED
      BY <1>2, <3>1, ApplyRehearsed, RollbackRehearsed DEF Rehearses
  <2>6. QED
    BY <2>4, <2>5 DEF DrillInv
<1>3. ASSUME NEW p \in Proc, Die(p) PROVE DrillInv'
  <2>1. \A q \in Proc : DrillAt(q)
    BY DEF DrillInv
  <2>2. /\ UNCHANGED <<state, receipts>> /\ stage'[p] = "done" /\ pc'[p] = "idle"
        /\ answer'[p] = "died"
    BY <1>3 DEF Die, To, Goto, WorkflowTypeOK
  <2>3. \A q \in Proc \ {p} : DrillAt(q)'
    BY <1>3, <2>1, <2>2, DrillOfOthers DEF RunStep
  <2>4. DrillAt(p)'
    BY <2>2 DEF DrillAt, At, ReadyAnswers, FromCopy, FromRecheckState, FromRecheckInputs,
       FromRecheckReports, FromRecheckFiles, FromRecheckTime, FromReady
  <2>5. QED
    BY <2>2, <2>3, <2>4 DEF DrillInv
<1>4. CASE EditDrill
  <2>1. /\ state' \in Foreign
        /\ UNCHANGED <<receipts, pc, job, held, stage, asked, seen, answer>>
    BY <1>4 DEF EditDrill, EditState, runVars
  <2>2. ASSUME NEW q \in Proc PROVE DrillAt(q)'
    <3>1. stage[q] \in {"apply", "verify", "rollback", "compare"} =>
            Copy(seen[q].before) \notin Foreign
      BY CopyIsOther DEF Working, FromArtifacts, FromReports, FromGates, FromCopy
    <3>2. QED
      BY <2>1, <3>1 DEF DrillInv, DrillAt, At, Rehearsed
  <2>3. QED
    BY <2>1, <2>2 DEF DrillInv, DrillContents, Contents
<1>5. CASE EditInput \/ SetClock \/ UNCHANGED workflowVars
  BY <1>5 DEF EditInput, SetClock, workflowVars, vars, runVars, DrillInv, DrillAt, At, Rehearsed
<1>6. QED
  BY <1>1, <1>2, <1>3, <1>4, <1>5, Steps DEF RunStep

-----------------------------------------------------------------------------
(* The inputs.                                                             *)

\* What the invariant says of the inputs of a run that has read some of them.
Inputs(p) ==
  /\ StateRead(p)
  /\ Ask(p).bundle # NoBundle => FilesRead(p)
  /\ ArtifactsRead(p) /\ ReportsRead(p)
  /\ ReadAt(p)
  /\ FoundAt(p)

\* A step that takes note of nothing that was read from an input.
Keeps(p) ==
  /\ UNCHANGED worldVars
  /\ asked'[p] = asked[p] /\ judgedDisk'[p] = judgedDisk[p]
  /\ seen'[p].before = seen[p].before /\ seen'[p].started = seen[p].started
  /\ seen'[p].files = seen[p].files /\ seen'[p].artifacts = seen[p].artifacts
  /\ seen'[p].reports = seen[p].reports

LEMMA KeptRead ==
  ASSUME NEW p \in Proc, Keeps(p)
  PROVE  /\ StateRead(p) => StateRead(p)'
         /\ (Ask(p).bundle # NoBundle => FilesRead(p)) => (Ask(p).bundle # NoBundle => FilesRead(p))'
         /\ ArtifactsRead(p) => ArtifactsRead(p)'
         /\ ReportsRead(p) => ReportsRead(p)'
         /\ StillThere(p) => StillThere(p)'
         /\ \A n : ArtifactsFound(p, n) => ArtifactsFound(p, n)'
         /\ \A n : ReportsFound(p, n) => ReportsFound(p, n)'
         /\ \A n : FilesFound(p, n) => FilesFound(p, n)'
<1> USE DEF Keeps, worldVars, Ask
<1>1. StateRead(p) => StateRead(p)'
  BY DEF StateRead
<1>2. (Ask(p).bundle # NoBundle => FilesRead(p)) => (Ask(p).bundle # NoBundle => FilesRead(p))'
  BY DEF FilesRead
<1>3. ArtifactsRead(p) => ArtifactsRead(p)'
  BY DEF ArtifactsRead
<1>4. ReportsRead(p) => ReportsRead(p)'
  BY DEF ReportsRead
<1>5. StillThere(p) => StillThere(p)'
  BY DEF StillThere, Unmoved
<1>6. \A n : ArtifactsFound(p, n) => ArtifactsFound(p, n)'
  BY DEF ArtifactsFound
<1>7. \A n : ReportsFound(p, n) => ReportsFound(p, n)'
  BY DEF ReportsFound
<1>8. \A n : FilesFound(p, n) => FilesFound(p, n)'
  BY DEF FilesFound
<1>9. QED
  BY <1>1, <1>2, <1>3, <1>4, <1>5, <1>6, <1>7, <1>8

\* A run that is working has not answered; what it knows is right.
LEMMA InputsKnown ==
  ASSUME WorkflowTypeOK, DirectoryInv, InputsInv, NEW p \in Proc,
         stage[p] \in {"mkdir"} \cup Working
  PROVE  /\ Inputs(p) /\ At(p) = stage[p] /\ answer[p] \notin ReadyAnswers
         /\ stage[p] \in FromCopy => StillThere(p)
         /\ asked[p] \in Artifact /\ NamesFiles(Ask(p)) /\ RequestValid(asked[p])
         /\ seen[p] \in Memory
         /\ \A f \in Path : disk[f] \in past[f]
<1>1. stage[p] # "done"
  BY StagesDiffer
<1>2. answer[p] \notin ReadyAnswers /\ At(p) = stage[p]
  BY <1>1 DEF DirectoryInv, At
<1>3. QED
  BY <1>2, Known DEF InputsInv, InputsAt, Inputs

\* A stopped or a dead run, and one that was refused, has nothing to account for.
LEMMA InputsOut ==
  ASSUME NEW p \in Proc, stage'[p] \in {"idle", "blocked", "done"}, answer'[p] \notin ReadyAnswers
  PROVE  InputsAt(p)'
BY StagesDiffer
   DEF InputsAt, At, FromCopy, FromRecheckState, FromRecheckInputs, FromRecheckReports,
       FromRecheckFiles, FromRecheckTime, FromReady

LEMMA BeginInputs ==
  ASSUME WorkflowTypeOK, DirectoryInv, InputsInv, NEW p \in Proc, NEW a \in Artifact, Begin(p, a)
  PROVE  InputsAt(p)'
<1>1. stage[p] = "idle" /\ answer[p] \notin ReadyAnswers
  BY DEF Begin, DirectoryInv
<1>2. CASE stage'[p] = "done"
  <2>1. answer'[p] = "refused"
    BY <1>2 DEF Begin, To, WorkflowTypeOK
  <2>2. QED
    BY <1>2, <2>1, InputsOut DEF ReadyAnswers
<1>3. CASE stage'[p] # "done"
  <2> DEFINE before == disk[Request(a).state_path]
  <2>1. /\ RequestValid(a) /\ ShaIn(before) = Snapshot(a).observed_sha
        /\ stage'[p] = "mkdir" /\ seen'[p] = [Nothing EXCEPT !.before = before]
        /\ asked'[p] = a /\ answer'[p] = answer[p] /\ UNCHANGED worldVars
    BY <1>3 DEF Begin, To, Notes, WorkflowTypeOK
  <2>2. /\ seen'[p].before = before /\ seen'[p].files = << >> /\ seen'[p].artifacts = << >>
        /\ seen'[p].reports = << >> /\ seen'[p].rechecked = 0
    BY <2>1, Zenon DEF Nothing
  <2>3. before \in past[Request(a).state_path] /\ NamesFiles(Request(a))
    BY WorkflowAssumption DEF InputsInv, NamesFiles
  <2>4. StateRead(p)'
    BY <2>1, <2>2, <2>3 DEF StateRead, Ask, worldVars
  <2>5. (Ask(p).bundle # NoBundle => FilesRead(p))'
    <3>1. Ask(p)' = Request(a)
      BY <2>1 DEF Ask
    <3>2. Request(a).bundle # NoBundle => Len(Reads(Request(a).bundle)) \in Nat
      BY ReadsFiles
    <3>3. PICK e : e = << >> /\ Len(e) = 0 /\ DOMAIN e = {}
      OBVIOUS
    <3>4. QED
      BY <2>2, <3>1, <3>2, <3>3 DEF FilesRead
  <2>6. ArtifactsRead(p)' /\ ReportsRead(p)'
    <3>1. Ask(p)' = Request(a)
      BY <2>1 DEF Ask
    <3>2. Len(Request(a).bindings) \in Nat /\ Len(Request(a).junit) \in Nat
      BY <2>3 DEF NamesFiles, IsSequence
    <3>3. PICK e : e = << >> /\ Len(e) = 0 /\ DOMAIN e = {}
      OBVIOUS
    <3>4. QED
      BY <2>2, <3>1, <3>2, <3>3 DEF ArtifactsRead, ReportsRead
  <2>7. At(p)' = "mkdir"
    BY <1>1, <2>1 DEF At
  <2>8. ReadAt(p)' /\ FoundAt(p)' /\ ~(At(p)' \in FromCopy)
    BY <2>1, <2>2, <2>7
       DEF ReadAt, FoundAt, FromArtifacts, FromReports, FromGates, FromCopy, FromRecheckState,
           FromRecheckInputs, FromRecheckReports, FromRecheckFiles, FromRecheckTime, FromReady
  <2>9. QED
    BY <2>4, <2>5, <2>6, <2>8 DEF InputsAt
<1>4. QED
  BY <1>2, <1>3

\* What follows from what a step keeps and from where it leads.
LEMMA MakeOutputInputs ==
  ASSUME WorkflowTypeOK, DirectoryInv, InputsInv, NEW p \in Proc, MakeOutput(p)
  PROVE  InputsAt(p)'
<1>1. /\ stage[p] = "mkdir" /\ answer[p] \notin ReadyAnswers
      /\ Inputs(p) /\ asked[p] \in Artifact /\ NamesFiles(Ask(p)) /\ RequestValid(asked[p])
      /\ seen[p] \in Memory
  <2>1. stage[p] = "mkdir"
    BY DEF MakeOutput
  <2>2. QED
    BY <2>1, InputsKnown
<1>2. CASE stage'[p] = "done"
  <2>1. answer'[p] = "refused"
    BY <1>2 DEF MakeOutput, To, WorkflowTypeOK
  <2>2. QED
    BY <1>2, <2>1, InputsOut DEF ReadyAnswers
<1>3. CASE stage'[p] # "done"
  <2> DEFINE b == Ask(p).bundle
  <2>1. /\ seen'[p] = [seen[p] EXCEPT !.started = clock]
        /\ stage'[p] = IF b = NoBundle THEN "artifacts" ELSE "producer"
        /\ UNCHANGED <<asked, answer, judgedDisk, worldVars>>
    BY <1>3 DEF MakeOutput, To, Notes, WorkflowTypeOK
  <2>2. /\ seen'[p].before = seen[p].before /\ seen'[p].files = seen[p].files
        /\ seen'[p].artifacts = seen[p].artifacts /\ seen'[p].reports = seen[p].reports
        /\ seen'[p].rechecked = seen[p].rechecked
    BY <1>1, <2>1 DEF Memory
  <2>3. /\ seen[p].files = << >> /\ seen[p].artifacts = << >> /\ seen[p].reports = << >>
        /\ seen[p].rechecked = 0
    BY <1>1
       DEF Inputs, ReadAt, FoundAt, At, FromRecheckInputs, FromRecheckReports,
           FromRecheckFiles, FromRecheckTime, FromReady, ReadyAnswers
  <2>4. StateRead(p)' /\ ArtifactsRead(p)' /\ ReportsRead(p)'
    BY <1>1, <2>1, <2>2 DEF Inputs, StateRead, ArtifactsRead, ReportsRead, Ask, worldVars
  <2>5. (Ask(p).bundle # NoBundle => FilesRead(p))'
    <3>1. Ask(p)' = Ask(p)
      BY <2>1 DEF Ask
    <3>2. b # NoBundle => Len(Reads(b)) \in Nat
      BY <1>1, ReadsFiles DEF Ask
    <3>3. PICK e : e = << >> /\ Len(e) = 0 /\ DOMAIN e = {}
      OBVIOUS
    <3>4. QED
      BY <2>2, <2>3, <3>1, <3>2, <3>3 DEF FilesRead
  <2>6. b # NoBundle /\ BundleValid(b, Ask(p).candidate) => 0 < Len(Reads(b))
    <3>1. SUFFICES ASSUME b # NoBundle, BundleValid(b, Ask(p).candidate) PROVE 0 < Len(Reads(b))
      OBVIOUS
    <3>2. 1 \in DOMAIN b.entries
      BY <1>1, <3>1 DEF BundleValid, NamesFiles, IsSequence
    <3>3. Len(Reads(b)) \in Nat /\ DOMAIN Reads(b) = 1..Len(Reads(b)) /\ \E k \in DOMAIN Reads(b) : TRUE
      BY <1>1, <3>1, <3>2, ReadsFiles DEF Ask
    <3>4. QED
      BY <3>3
  <2>7. 0 < Len(Ask(p).bindings)
    <3>1. Len(Ask(p).bindings) \in 1..100
      BY <1>1, Zenon DEF RequestValid, Ask
    <3>2. \A n \in 1..100 : 0 < n
      OBVIOUS
    <3>3. QED
      BY ONLY <3>1, <3>2, Zenon
  <2>8. At(p)' = stage'[p]
    BY <1>1, <2>1 DEF At
  <2>9. ReadAt(p)'
    <3>1. PICK e : e = << >> /\ Len(e) = 0
      OBVIOUS
    <3>2. Ask(p)' = Ask(p)
      BY <2>1 DEF Ask
    <3>3. CASE b = NoBundle
      BY <2>1, <2>2, <2>3, <2>7, <2>8, <3>1, <3>2, <3>3
         DEF ReadAt, FromArtifacts, FromReports, FromGates, FromCopy, FromRecheckState,
             FromRecheckInputs, FromRecheckReports, FromRecheckFiles, FromRecheckTime, FromReady
    <3>4. CASE b # NoBundle
      BY <2>1, <2>2, <2>3, <2>6, <2>8, <3>1, <3>2, <3>4
         DEF ReadAt, FromArtifacts, FromReports, FromGates, FromCopy, FromRecheckState,
             FromRecheckInputs, FromRecheckReports, FromRecheckFiles, FromRecheckTime, FromReady
    <3>5. QED
      BY <3>3, <3>4
  <2>10. FoundAt(p)' /\ ~(At(p)' \in FromCopy)
    BY <2>1, <2>2, <2>3, <2>8
       DEF FoundAt, FromCopy, FromRecheckState, FromRecheckInputs, FromRecheckReports,
           FromRecheckFiles, FromRecheckTime, FromReady
  <2>11. QED
    BY <2>4, <2>5, <2>9, <2>10 DEF InputsAt
<1>4. QED
  BY <1>2, <1>3

\* A check that raises leaves nothing to account for.
LEMMA StopInputs ==
  ASSUME WorkflowTypeOK, NEW p \in Proc, answer[p] \notin ReadyAnswers, Stop(p), UNCHANGED answer
  PROVE  InputsAt(p)'
<1>1. stage'[p] = "blocked" /\ answer'[p] \notin ReadyAnswers
  BY DEF Stop, To, WorkflowTypeOK
<1>2. QED
  BY <1>1, InputsOut

LEMMA ReadProducerInputs ==
  ASSUME WorkflowTypeOK, DirectoryInv, InputsInv, NEW p \in Proc, ReadProducer(p)
  PROVE  InputsAt(p)'
<1> DEFINE b == Ask(p).bundle
           f == seen[p].files
           r == Reads(b)[Len(f) + 1]
           c == disk[r.path]
           x == [path |-> r.path, content |-> c]
<1>1. stage[p] = "producer" /\ UNCHANGED <<asked, answer, judgedDisk, worldVars>>
  BY DEF ReadProducer, Rest
<1>2. /\ answer[p] \notin ReadyAnswers /\ Inputs(p) /\ At(p) = "producer"
      /\ asked[p] \in Artifact /\ NamesFiles(Ask(p)) /\ RequestValid(asked[p])
      /\ seen[p] \in Memory /\ \A g \in Path : disk[g] \in past[g]
  BY <1>1, InputsKnown DEF Working
<1>3. CASE Stop(p)
  BY <1>1, <1>2, <1>3, StopInputs
<1>4. CASE ~Stop(p)
  <2>1. /\ BundleValid(b, Ask(p).candidate) /\ NextPasses(b, f, c, seen[p].started)
        /\ seen'[p] = [seen[p] EXCEPT !.files = Append(f, x)]
        /\ stage'[p] = IF Len(f) + 1 < Len(Reads(b)) THEN "producer" ELSE "artifacts"
    BY <1>4 DEF ReadProducer, To, Notes, WorkflowTypeOK
  <2>2. /\ seen'[p].before = seen[p].before /\ seen'[p].started = seen[p].started
        /\ seen'[p].files = Append(f, x)
        /\ seen'[p].artifacts = seen[p].artifacts /\ seen'[p].reports = seen[p].reports
        /\ seen'[p].rechecked = seen[p].rechecked
    BY <1>2, <2>1 DEF Memory
  <2>3. /\ b # NoBundle /\ Len(f) < Len(Reads(b)) /\ FilesRead(p)
        /\ seen[p].artifacts = << >> /\ seen[p].reports = << >> /\ seen[p].rechecked = 0
    BY <1>1, <1>2, <2>1
       DEF Inputs, ReadAt, FoundAt, At, FromRecheckInputs, FromRecheckReports,
           FromRecheckFiles, FromRecheckTime, FromReady
  <2>4. Ask(p)' = Ask(p)
    BY <1>1 DEF Ask
  <2>5. StateRead(p)' /\ ArtifactsRead(p)' /\ ReportsRead(p)'
    BY <1>1, <1>2, <2>2 DEF Inputs, StateRead, ArtifactsRead, ReportsRead, Ask, worldVars
  <2>6. f \in FilesRecords
    BY <1>2 DEF Memory
  <2>7. /\ Len(f) \in Nat /\ DOMAIN f = 1..Len(f)
        /\ Len(Append(f, x)) = Len(f) + 1
        /\ DOMAIN Append(f, x) = 1..(Len(f) + 1)
        /\ Append(f, x)[Len(f) + 1] = x
        /\ \A k \in 1..Len(f) : Append(f, x)[k] = f[k]
        /\ \A k \in 1..(Len(f) + 1) : SubSeq(Append(f, x), 1, k - 1) = SubSeq(f, 1, k - 1)
        /\ SubSeq(f, 1, Len(f)) = f
    BY <2>6, PrefixOfAppend DEF FilesRecords
  <2>8. Len(Reads(b)) \in Nat /\ r.path \in Path
    <3>1. Len(Reads(b)) \in Nat /\ DOMAIN Reads(b) = 1..Len(Reads(b))
      BY <1>2, <2>3, ReadsFiles DEF Ask
    <3>2. Len(f) + 1 \in DOMAIN Reads(b)
      BY <2>3, <2>7, <3>1
    <3>3. QED
      BY <1>2, <2>3, <3>1, <3>2, ReadsFiles DEF Ask
  <2>9. c \in past[r.path]
    BY <1>2, <2>8
  <2>10. FilesRead(p)'
    <3> DEFINE g == Append(f, x)
    <3>1. ASSUME NEW k \in 1..(Len(f) + 1)
          PROVE  /\ g[k].path = Reads(b)[k].path
                 /\ g[k].content \in past[g[k].path]
                 /\ NextPasses(b, SubSeq(g, 1, k - 1), g[k].content, seen[p].started)
      <4>1. CASE k = Len(f) + 1
        <5>1. g[k] = x /\ x.path = r.path /\ x.content = c /\ r = Reads(b)[k]
          BY <2>7, <4>1
        <5>2. SubSeq(g, 1, k - 1) = f
          BY <2>7, <4>1
        <5> HIDE DEF g, x, r, c, f
        <5>3. QED
          BY <2>1, <2>9, <5>1, <5>2
      <4>2. CASE k # Len(f) + 1
        <5>1. k \in DOMAIN f /\ g[k] = f[k] /\ SubSeq(g, 1, k - 1) = SubSeq(f, 1, k - 1)
          <6>1. Len(f) \in Nat /\ DOMAIN f = 1..Len(f)
            BY <2>7
          <6>2. \A i \in 1..Len(f) : g[i] = f[i]
            BY <2>7
          <6>3. \A i \in 1..(Len(f) + 1) : SubSeq(g, 1, i - 1) = SubSeq(f, 1, i - 1)
            BY <2>7
          <6> HIDE DEF g, f
          <6>4. k \in 1..Len(f)
            BY <4>2, <6>1
          <6>5. QED
            BY <6>1, <6>2, <6>3, <6>4
        <5>2. /\ f[k].path = Reads(b)[k].path
              /\ f[k].content \in past[f[k].path]
              /\ NextPasses(b, SubSeq(f, 1, k - 1), f[k].content, seen[p].started)
          BY <2>3, <5>1 DEF FilesRead
        <5> HIDE DEF g, f
        <5>3. QED
          BY <5>1, <5>2
      <4>3. QED
        BY <4>1, <4>2
    <3>2. past' = past /\ seen'[p].files = g /\ seen'[p].started = seen[p].started
      BY <1>1, <2>2 DEF worldVars
    <3>3. Len(g) = Len(f) + 1 /\ DOMAIN g = 1..(Len(f) + 1) /\ Len(g) <= Len(Reads(b))
      BY <2>3, <2>7, <2>8
    <3> HIDE DEF g, f
    <3>4. QED
      BY <2>1, <2>4, <3>1, <3>2, <3>3 DEF FilesRead
  <2>11. At(p)' = stage'[p] /\ stage'[p] \in {"producer", "artifacts"}
    BY <1>1, <1>2, <2>1 DEF At
  <2>12. ReadAt(p)'
    <3>1. PICK e : e = << >> /\ Len(e) = 0
      OBVIOUS
    <3>2. 0 < Len(Ask(p).bindings)
      <4>1. Len(Ask(p).bindings) \in 1..100
        BY <1>2, Zenon DEF RequestValid, Ask
      <4>2. \A n \in 1..100 : 0 < n
        OBVIOUS
      <4>3. QED
        BY ONLY <4>1, <4>2, Zenon
    <3> DEFINE g == Append(f, x)
    <3>0. seen'[p].files = g /\ Len(g) = Len(f) + 1 /\ Len(f) \in Nat /\ Len(f) < Len(Reads(b))
          /\ Len(Reads(b)) \in Nat
      BY <2>2, <2>3, <2>7, <2>8
    <3> HIDE DEF g, f
    <3>3. seen'[p].files # e /\ Len(seen'[p].files) = Len(f) + 1
      BY ONLY <3>0, <3>1
    <3>4. stage'[p] = "producer" => Len(f) + 1 < Len(Reads(b))
      BY <2>1
    <3>5. stage'[p] = "artifacts" => Len(f) + 1 = Len(Reads(b))
      BY <2>1, <3>0
    <3>6. QED
      BY <2>2, <2>3, <2>4, <2>11, <3>1, <3>2, <3>3, <3>4, <3>5
         DEF ReadAt, FromArtifacts, FromReports, FromGates, FromCopy, FromRecheckState,
             FromRecheckInputs, FromRecheckReports, FromRecheckFiles, FromRecheckTime, FromReady
  <2>13. FoundAt(p)' /\ ~(At(p)' \in FromCopy)
    BY <2>2, <2>3, <2>11
       DEF FoundAt, FromCopy, FromRecheckState, FromRecheckInputs, FromRecheckReports,
           FromRecheckFiles, FromRecheckTime, FromReady
  <2>14. QED
    BY <2>5, <2>10, <2>12, <2>13 DEF InputsAt
<1>5. QED
  BY <1>3, <1>4

LEMMA SomeFiles ==
  ASSUME NEW p \in Proc, RequestValid(asked[p])
  PROVE  0 < Len(Ask(p).bindings) /\ 0 < Len(Ask(p).junit)
<1>1. Len(Ask(p).bindings) \in 1..100 /\ Len(Ask(p).junit) \in 1..100
  BY Zenon DEF RequestValid, Ask
<1>2. \A n \in 1..100 : 0 < n
  OBVIOUS
<1>3. QED
  BY ONLY <1>1, <1>2, Zenon

LEMMA ReadArtifactInputs ==
  ASSUME WorkflowTypeOK, DirectoryInv, InputsInv, NEW p \in Proc, ReadArtifact(p)
  PROVE  InputsAt(p)'
<1> DEFINE b == Ask(p).bindings
           a == seen[p].artifacts
           n == Len(a) + 1
           c == disk[b[n].path]
           g == Append(a, c)
<1>1. stage[p] = "artifacts" /\ UNCHANGED <<asked, answer, judgedDisk, worldVars>>
  BY DEF ReadArtifact, Rest
<1>2. /\ answer[p] \notin ReadyAnswers /\ Inputs(p) /\ At(p) = "artifacts"
      /\ asked[p] \in Artifact /\ NamesFiles(Ask(p)) /\ RequestValid(asked[p])
      /\ seen[p] \in Memory /\ \A h \in Path : disk[h] \in past[h]
  BY <1>1, InputsKnown DEF Working, FromArtifacts
<1>3. CASE Stop(p)
  BY <1>1, <1>2, <1>3, StopInputs
<1>4. CASE ~Stop(p)
  <2>1. /\ ArtifactClaimed(Ask(p), b[n], c)
        /\ seen'[p] = [seen[p] EXCEPT !.artifacts = g]
        /\ stage'[p] = IF n = Len(b) THEN "junit" ELSE "artifacts"
    BY <1>4 DEF ReadArtifact, To, Notes, WorkflowTypeOK
  <2>2. /\ seen'[p].before = seen[p].before /\ seen'[p].started = seen[p].started
        /\ seen'[p].files = seen[p].files
        /\ seen'[p].artifacts = g /\ seen'[p].reports = seen[p].reports
        /\ seen'[p].rechecked = seen[p].rechecked
    BY <1>2, <2>1 DEF Memory
  <2>3. /\ Len(a) < Len(b) /\ ArtifactsRead(p) /\ ReadAt(p)
        /\ seen[p].reports = << >> /\ seen[p].rechecked = 0
        /\ IF Ask(p).bundle = NoBundle THEN seen[p].files = << >>
           ELSE Len(seen[p].files) = Len(Reads(Ask(p).bundle)) /\ seen[p].files # << >>
    BY <1>1, <1>2
       DEF Inputs, ReadAt, FoundAt, At, FromArtifacts, FromRecheckInputs, FromRecheckReports,
           FromRecheckFiles, FromRecheckTime, FromReady
  <2>4. Ask(p)' = Ask(p)
    BY <1>1 DEF Ask
  <2>5. StateRead(p)' /\ (Ask(p).bundle # NoBundle => FilesRead(p))' /\ ReportsRead(p)'
    BY <1>1, <1>2, <2>2 DEF Inputs, StateRead, FilesRead, ReportsRead, Ask, worldVars
  <2>6. /\ Len(a) \in Nat /\ DOMAIN a = 1..Len(a) /\ Len(g) = Len(a) + 1
        /\ DOMAIN g = 1..(Len(a) + 1) /\ g[Len(a) + 1] = c
        /\ \A k \in 1..Len(a) : g[k] = a[k]
    <3>1. a \in ContentRecords
      BY <1>2 DEF Memory
    <3>2. QED
      BY <3>1, PrefixOfAppend DEF ContentRecords
  <2>7. Len(b) \in Nat /\ n \in DOMAIN b /\ b[n].path \in Path
    BY <1>2, <2>3, <2>6 DEF NamesFiles, IsSequence
  <2>8. c \in past[b[n].path]
    BY <1>2, <2>7
  <2>9. ArtifactsRead(p)'
    <3>1. ASSUME NEW k \in 1..(Len(a) + 1)
          PROVE  g[k] \in past[b[k].path] /\ ArtifactClaimed(Ask(p), b[k], g[k])
      <4>1. CASE k = n
        BY <2>1, <2>6, <2>8, <4>1
      <4>2. CASE k # n
        <5>1. k \in DOMAIN a /\ g[k] = a[k]
          BY <2>6, <4>2
        <5>2. a[k] \in past[b[k].path] /\ ArtifactClaimed(Ask(p), b[k], a[k])
          BY <2>3, <5>1 DEF ArtifactsRead
        <5> HIDE DEF g, a, b
        <5>3. QED
          BY <5>1, <5>2
      <4>3. QED
        BY <4>1, <4>2
    <3>2. past' = past /\ seen'[p].artifacts = g
      BY <1>1, <2>2 DEF worldVars
    <3>3. DOMAIN g = 1..(Len(a) + 1) /\ Len(g) <= Len(b)
      BY <2>3, <2>6, <2>7
    <3> HIDE DEF g, a
    <3>4. QED
      BY <2>4, <3>1, <3>2, <3>3 DEF ArtifactsRead
  <2>10. At(p)' = stage'[p] /\ stage'[p] \in {"artifacts", "junit"}
    BY <1>1, <1>2, <2>1 DEF At
  <2>11. ReadAt(p)'
    <3>1. PICK e : e = << >> /\ Len(e) = 0
      OBVIOUS
    <3>2. 0 < Len(Ask(p).junit)
      BY <1>2, SomeFiles
    <3>3. /\ stage'[p] = "artifacts" => Len(g) < Len(b)
          /\ stage'[p] = "junit" => Len(g) = Len(b)
      <4>1. stage'[p] = IF n = Len(b) THEN "junit" ELSE "artifacts"
        BY <2>1, Zenon
      <4>2. /\ Len(a) < Len(b) /\ Len(g) = Len(a) + 1
            /\ Len(a) \in Nat /\ Len(b) \in Nat
        BY <2>3, <2>6, <2>7
      <4> HIDE DEF a, g, b
      <4>3. QED
        BY ONLY <4>1, <4>2
    <3> HIDE DEF g
    <3>4. QED
      BY <2>2, <2>3, <2>4, <2>10, <3>1, <3>2, <3>3
         DEF ReadAt, FromArtifacts, FromReports, FromGates, FromCopy, FromRecheckState,
             FromRecheckInputs, FromRecheckReports, FromRecheckFiles, FromRecheckTime, FromReady
  <2>12. FoundAt(p)' /\ ~(At(p)' \in FromCopy)
    BY <2>2, <2>3, <2>10
       DEF FoundAt, FromCopy, FromRecheckState, FromRecheckInputs, FromRecheckReports,
           FromRecheckFiles, FromRecheckTime, FromReady
  <2>13. QED
    BY <2>5, <2>9, <2>11, <2>12 DEF InputsAt
<1>5. QED
  BY <1>3, <1>4

LEMMA ReadReportInputs ==
  ASSUME WorkflowTypeOK, DirectoryInv, InputsInv, NEW p \in Proc, ReadReport(p)
  PROVE  InputsAt(p)'
<1> DEFINE j == Ask(p).junit
           a == seen[p].reports
           n == Len(a) + 1
           c == disk[j[n]]
           g == Append(a, c)
<1>1. stage[p] = "junit" /\ UNCHANGED <<asked, answer, judgedDisk, worldVars>>
  BY DEF ReadReport, Rest
<1>2. /\ answer[p] \notin ReadyAnswers /\ Inputs(p) /\ At(p) = "junit"
      /\ asked[p] \in Artifact /\ NamesFiles(Ask(p)) /\ RequestValid(asked[p])
      /\ seen[p] \in Memory /\ \A h \in Path : disk[h] \in past[h]
  BY <1>1, InputsKnown DEF Working, FromArtifacts, FromReports
<1>3. CASE Stop(p)
  BY <1>1, <1>2, <1>3, StopInputs
<1>4. CASE ~Stop(p)
  <2>1. /\ n = Len(j) => SuitesPass(Ask(p), SuitesIn(g))
        /\ seen'[p] = [seen[p] EXCEPT !.reports = g]
        /\ stage'[p] = IF n = Len(j) THEN "gates" ELSE "junit"
    BY <1>4 DEF ReadReport, To, Notes, WorkflowTypeOK
  <2>2. /\ seen'[p].before = seen[p].before /\ seen'[p].started = seen[p].started
        /\ seen'[p].files = seen[p].files
        /\ seen'[p].artifacts = seen[p].artifacts /\ seen'[p].reports = g
        /\ seen'[p].rechecked = seen[p].rechecked
    BY <1>2, <2>1 DEF Memory
  <2>3. /\ Len(a) < Len(j) /\ ReportsRead(p) /\ ReadAt(p) /\ seen[p].rechecked = 0
        /\ Len(seen[p].artifacts) = Len(Ask(p).bindings)
        /\ IF Ask(p).bundle = NoBundle THEN seen[p].files = << >>
           ELSE Len(seen[p].files) = Len(Reads(Ask(p).bundle)) /\ seen[p].files # << >>
    BY <1>1, <1>2
       DEF Inputs, ReadAt, FoundAt, At, FromArtifacts, FromReports, FromRecheckInputs,
           FromRecheckReports, FromRecheckFiles, FromRecheckTime, FromReady
  <2>4. Ask(p)' = Ask(p)
    BY <1>1 DEF Ask
  <2>5. StateRead(p)' /\ (Ask(p).bundle # NoBundle => FilesRead(p))' /\ ArtifactsRead(p)'
    BY <1>1, <1>2, <2>2 DEF Inputs, StateRead, FilesRead, ArtifactsRead, Ask, worldVars
  <2>6. /\ Len(a) \in Nat /\ DOMAIN a = 1..Len(a) /\ Len(g) = Len(a) + 1
        /\ DOMAIN g = 1..(Len(a) + 1) /\ g[Len(a) + 1] = c
        /\ \A k \in 1..Len(a) : g[k] = a[k]
    <3>1. a \in ContentRecords
      BY <1>2 DEF Memory
    <3>2. QED
      BY <3>1, PrefixOfAppend DEF ContentRecords
  <2>7. Len(j) \in Nat /\ n \in DOMAIN j /\ j[n] \in Path
    BY <1>2, <2>3, <2>6 DEF NamesFiles
  <2>8. c \in past[j[n]]
    BY <1>2, <2>7
  <2>9. ReportsRead(p)'
    <3>1. ASSUME NEW k \in 1..(Len(a) + 1) PROVE g[k] \in past[j[k]]
      <4>1. CASE k = n
        BY <2>6, <2>8, <4>1
      <4>2. CASE k # n
        <5>1. k \in DOMAIN a /\ g[k] = a[k]
          BY <2>6, <4>2
        <5>2. a[k] \in past[j[k]]
          BY <2>3, <5>1 DEF ReportsRead
        <5> HIDE DEF g, a, j
        <5>3. QED
          BY <5>1, <5>2
      <4>3. QED
        BY <4>1, <4>2
    <3>2. past' = past /\ seen'[p].reports = g
      BY <1>1, <2>2 DEF worldVars
    <3>3. DOMAIN g = 1..(Len(a) + 1) /\ Len(g) <= Len(j)
      BY <2>3, <2>6, <2>7
    <3> HIDE DEF g, a
    <3>4. QED
      BY <2>4, <3>1, <3>2, <3>3 DEF ReportsRead
  <2>10. At(p)' = stage'[p] /\ stage'[p] \in {"junit", "gates"}
    BY <1>1, <1>2, <2>1 DEF At
  <2>11. ReadAt(p)'
    <3>1. /\ stage'[p] = "junit" => Len(g) < Len(j)
          /\ stage'[p] = "gates" => Len(g) = Len(j) /\ n = Len(j)
      <4>1. stage'[p] = IF n = Len(j) THEN "gates" ELSE "junit"
        BY <2>1, Zenon
      <4>2. /\ Len(a) < Len(j) /\ Len(g) = Len(a) + 1
            /\ Len(a) \in Nat /\ Len(j) \in Nat
        BY <2>3, <2>6, <2>7
      <4> HIDE DEF a, g, j
      <4>3. QED
        BY ONLY <4>1, <4>2
    <3>2. stage'[p] = "gates" => SuitesPass(Ask(p), SuitesIn(g))
      BY <2>1, <3>1, Zenon
    <3> HIDE DEF g
    <3>3. QED
      BY <2>2, <2>3, <2>4, <2>10, <3>1, <3>2
         DEF ReadAt, FromArtifacts, FromReports, FromGates, FromCopy, FromRecheckState,
             FromRecheckInputs, FromRecheckReports, FromRecheckFiles, FromRecheckTime, FromReady
  <2>12. FoundAt(p)' /\ ~(At(p)' \in FromCopy)
    BY <2>2, <2>3, <2>10
       DEF FoundAt, FromCopy, FromRecheckState, FromRecheckInputs, FromRecheckReports,
           FromRecheckFiles, FromRecheckTime, FromReady
  <2>13. QED
    BY <2>5, <2>9, <2>11, <2>12 DEF InputsAt
<1>5. QED
  BY <1>3, <1>4

\* What is read stays read once all of it is.
LEMMA AllRead ==
  ASSUME NEW p \in Proc, ReadAt(p), At(p) \in FromGates,
         asked'[p] = asked[p], seen'[p].files = seen[p].files,
         seen'[p].artifacts = seen[p].artifacts, seen'[p].reports = seen[p].reports,
         stage'[p] \in FromCopy \cup {"done"}
  PROVE  ReadAt(p)'
<1>1. Ask(p)' = Ask(p)
  BY DEF Ask
<1>2. QED
  BY <1>1
     DEF ReadAt, FromArtifacts, FromReports, FromGates, FromCopy, FromRecheckState,
         FromRecheckInputs, FromRecheckReports, FromRecheckFiles, FromRecheckTime, FromReady

LEMMA AskGatesInputs ==
  ASSUME WorkflowTypeOK, DirectoryInv, InputsInv, NEW p \in Proc, AskGates(p)
  PROVE  InputsAt(p)'
<1>1. /\ stage[p] = "gates" /\ UNCHANGED <<asked, answer, worldVars>>
      /\ seen'[p] = [seen[p] EXCEPT !.production = Judge(asked[p], clock).production]
      /\ judgedDisk'[p] = disk /\ stage'[p] \in {"copy", "blocked"}
  BY DEF AskGates, Notes, To, WorkflowTypeOK
<1>2. /\ answer[p] \notin ReadyAnswers /\ Inputs(p) /\ At(p) = "gates" /\ seen[p] \in Memory
  BY <1>1, InputsKnown DEF Working, FromArtifacts, FromReports, FromGates
<1>3. CASE stage'[p] = "blocked"
  BY <1>1, <1>2, <1>3, InputsOut
<1>4. CASE stage'[p] = "copy"
  <2>1. /\ seen'[p].before = seen[p].before /\ seen'[p].started = seen[p].started
        /\ seen'[p].files = seen[p].files
        /\ seen'[p].artifacts = seen[p].artifacts /\ seen'[p].reports = seen[p].reports
        /\ seen'[p].rechecked = seen[p].rechecked
    BY <1>1, <1>2 DEF Memory
  <2>2. /\ StateRead(p)' /\ (Ask(p).bundle # NoBundle => FilesRead(p))'
        /\ ArtifactsRead(p)' /\ ReportsRead(p)'
    BY <1>1, <1>2, <2>1
       DEF Inputs, StateRead, FilesRead, ArtifactsRead, ReportsRead, Ask, worldVars
  <2>3. ReadAt(p)'
    BY <1>1, <1>2, <1>4, <2>1, AllRead DEF Inputs, FromGates, FromCopy
  <2>4. At(p)' = "copy"
    BY <1>1, <1>2, <1>4 DEF At
  <2>5. seen[p].rechecked = 0
    BY <1>2
       DEF Inputs, FoundAt, FromRecheckInputs, FromRecheckReports, FromRecheckFiles,
           FromRecheckTime, FromReady
  <2>6. FoundAt(p)'
    BY <1>4, <2>1, <2>4, <2>5
       DEF FoundAt, FromRecheckInputs, FromRecheckReports, FromRecheckFiles,
           FromRecheckTime, FromReady
  <2>7. StillThere(p)'
    BY <1>1 DEF StillThere, Unmoved, worldVars
  <2>8. QED
    BY <2>2, <2>3, <2>6, <2>7 DEF InputsAt
<1>5. QED
  BY <1>1, <1>3, <1>4

\* From the rehearsal on a step only adds to what was found again.
LEMMA LateInputs ==
  ASSUME WorkflowTypeOK, DirectoryInv, InputsInv, NEW p \in Proc, stage[p] \in FromCopy,
         Keeps(p), answer'[p] = answer[p], stage'[p] \in FromCopy, FoundAt(p)'
  PROVE  InputsAt(p)'
<1>1. {"copy"} \cup FromCopy \subseteq FromGates /\ FromGates \subseteq Working
  BY DEF Working, FromArtifacts, FromReports, FromGates, FromCopy
<1>2. Inputs(p) /\ At(p) = stage[p] /\ answer[p] \notin ReadyAnswers /\ StillThere(p)
  BY <1>1, InputsKnown
<1>3. /\ StateRead(p)' /\ (Ask(p).bundle # NoBundle => FilesRead(p))'
      /\ ArtifactsRead(p)' /\ ReportsRead(p)' /\ StillThere(p)'
  BY <1>2, KeptRead DEF Inputs
<1>4. ReadAt(p)'
  BY <1>1, <1>2, AllRead DEF Inputs, Keeps
<1>5. QED
  BY <1>3, <1>4 DEF InputsAt

\* The rehearsal.
LEMMA RehearsalInputs ==
  ASSUME WorkflowTypeOK, DirectoryInv, InputsInv, NEW p \in Proc,
         CopyState(p) \/ DryRun(p) \/ Rehearses(p) \/ RehearseVerify(p) \/ Compare(p)
  PROVE  InputsAt(p)'
<1> DEFINE Drill == {"copy", "dry_run", "apply", "verify", "rollback", "compare"}
<1>1. /\ stage[p] \in Drill /\ stage'[p] \in Drill \cup {"recheck_state", "blocked"}
      /\ UNCHANGED <<asked, seen, answer, judgedDisk, worldVars>>
  <2>1. CASE CopyState(p) \/ DryRun(p) \/ RehearseVerify(p) \/ Compare(p)
    BY <2>1 DEF CopyState, DryRun, RehearseVerify, Compare, To, Rest, WorkflowTypeOK
  <2>2. CASE Rehearses(p)
    <3>1. /\ stage[p] \in {"apply", "rollback"}
          /\ \E to \in {stage[p], "blocked", IF stage[p] = "apply" THEN "verify" ELSE "compare"} :
               stage' = [stage EXCEPT ![p] = to]
          /\ UNCHANGED <<asked, seen, answer, judgedDisk, worldVars>>
      BY <2>2, RehearsalShape
    <3>2. p \in DOMAIN stage
      BY DEF WorkflowTypeOK
    <3>3. QED
      BY ONLY <3>1, <3>2
  <2>3. QED
    BY <2>1, <2>2
<1>2. Drill \cup {"recheck_state"} \subseteq FromCopy /\ FromCopy \subseteq Working
  BY DEF Working, FromArtifacts, FromReports, FromGates, FromCopy, FromRecheckState
<1>3. Inputs(p) /\ At(p) = stage[p] /\ answer[p] \notin ReadyAnswers
  BY <1>1, <1>2, InputsKnown
<1>4. CASE stage'[p] = "blocked"
  BY <1>1, <1>3, <1>4, InputsOut
<1>5. CASE stage'[p] # "blocked"
  <2>1. Keeps(p)
    BY <1>1 DEF Keeps
  <2>2. seen[p].rechecked = 0
    BY <1>1, <1>3
       DEF Inputs, FoundAt, FromRecheckInputs, FromRecheckReports, FromRecheckFiles,
           FromRecheckTime, FromReady
  <2>3. At(p)' = stage'[p]
    BY <1>1, <1>3 DEF At
  <2>4. FoundAt(p)'
    BY <1>1, <1>5, <2>2, <2>3
       DEF FoundAt, FromRecheckInputs, FromRecheckReports, FromRecheckFiles,
           FromRecheckTime, FromReady
  <2>5. QED
    BY <1>1, <1>2, <1>5, <2>1, <2>4, LateInputs
<1>6. QED
  BY <1>4, <1>5

LEMMA RecheckStateInputs ==
  ASSUME WorkflowTypeOK, DirectoryInv, InputsInv, NEW p \in Proc, RecheckState(p)
  PROVE  InputsAt(p)'
<1>1. /\ stage[p] = "recheck_state" /\ UNCHANGED <<asked, seen, answer, judgedDisk, worldVars>>
      /\ \/ stage'[p] = "blocked"
         \/ /\ stage'[p] = "recheck_artifacts"
            /\ disk[Ask(p).state_path] = seen[p].before
  BY DEF RecheckState, Rest, To, WorkflowTypeOK
<1>2. FromRecheckState \subseteq FromCopy /\ FromCopy \subseteq Working
  BY DEF Working, FromArtifacts, FromReports, FromGates, FromCopy
<1>3. /\ Inputs(p) /\ At(p) = stage[p] /\ answer[p] \notin ReadyAnswers
      /\ StillThere(p) /\ RequestValid(asked[p])
  BY <1>1, <1>2, InputsKnown DEF FromRecheckState
<1>4. CASE stage'[p] = "blocked"
  BY <1>1, <1>3, <1>4, InputsOut
<1>5. CASE stage'[p] # "blocked"
  <2>1. Keeps(p)
    BY <1>1 DEF Keeps
  <2>2. seen[p].rechecked = 0
    BY <1>1, <1>3
       DEF Inputs, FoundAt, FromRecheckInputs, FromRecheckReports, FromRecheckFiles,
           FromRecheckTime, FromReady
  <2>3. At(p)' = "recheck_artifacts" /\ Ask(p)' = Ask(p)
    BY <1>1, <1>3, <1>5 DEF At, Ask
  <2>4. (~returned => judgedDisk[p][Ask(p).state_path] = seen[p].before)'
    BY <1>1, <1>3, <1>5, <2>3 DEF StillThere, Unmoved, worldVars
  <2>5. 0 < Len(Ask(p).bindings) /\ ArtifactsFound(p, 0)'
    BY <1>3, SomeFiles DEF ArtifactsFound
  <2>6. FoundAt(p)'
    BY <1>1, <1>5, <2>2, <2>3, <2>4, <2>5
       DEF FoundAt, FromRecheckInputs, FromRecheckReports, FromRecheckFiles,
           FromRecheckTime, FromReady
  <2>7. stage[p] \in FromCopy /\ stage'[p] \in FromCopy
    BY <1>1, <1>2, <1>5 DEF FromRecheckState, FromRecheckInputs
  <2>8. QED
    BY <1>1, <2>1, <2>6, <2>7, LateInputs
<1>6. QED
  BY <1>4, <1>5

\* The paths of some files are as many as the files.
LEMMA LenOfPaths ==
  ASSUME NEW S, NEW b \in Seq(S), NEW f, f = [i \in DOMAIN b |-> f[i]]
  PROVE  Len(f) = Len(b) /\ Len(b) \in Nat /\ DOMAIN b = 1..Len(b)
<1>1. Len(b) \in Nat /\ DOMAIN b = 1..Len(b)
  BY LenProperties
<1>2. f \in [1..Len(b) -> Range(f)]
  BY <1>1 DEF Range
<1>3. f \in Seq(Range(f)) /\ DOMAIN f = 1..Len(b)
  BY <1>1, <1>2, SeqDef
<1>4. QED
  BY <1>1, <1>3, LenProperties

\* One more file was found again: where the run stands, and what it compared.
LEMMA AgainShape ==
  ASSUME WorkflowTypeOK, DirectoryInv, InputsInv, NEW p \in Proc, NEW label, NEW paths,
         NEW contents, NEW next, Again(p, label, paths, contents, next), label \in FromRecheckInputs
  PROVE  /\ stage[p] = label /\ At(p) = label /\ Inputs(p) /\ StillThere(p)
         /\ answer[p] \notin ReadyAnswers /\ answer'[p] = answer[p]
         /\ asked[p] \in Artifact /\ RequestValid(asked[p]) /\ NamesFiles(Ask(p)) /\ seen[p] \in Memory
         /\ seen[p].rechecked \in Nat
         /\ ~Stop(p) => /\ Keeps(p) /\ Ask(p)' = Ask(p)
                        /\ disk[paths[seen[p].rechecked + 1]] = contents[seen[p].rechecked + 1]
                        /\ IF seen[p].rechecked + 1 = Len(paths)
                           THEN stage'[p] = next /\ seen'[p].rechecked = 0
                           ELSE stage'[p] = label /\ seen'[p].rechecked = seen[p].rechecked + 1
<1> DEFINE n == seen[p].rechecked + 1
<1>1. stage[p] = label /\ UNCHANGED <<asked, answer, judgedDisk, worldVars>>
  BY DEF Again, Rest
<1>2. FromRecheckInputs \subseteq FromCopy /\ FromCopy \subseteq Working
  BY DEF Working, FromArtifacts, FromReports, FromGates, FromCopy, FromRecheckState
<1>3. /\ At(p) = label /\ Inputs(p) /\ StillThere(p) /\ answer[p] \notin ReadyAnswers
      /\ asked[p] \in Artifact /\ RequestValid(asked[p]) /\ NamesFiles(Ask(p)) /\ seen[p] \in Memory
  BY <1>1, <1>2, InputsKnown
<1>4. seen[p].rechecked \in Nat
  BY <1>3 DEF Memory
<1>5. ASSUME ~Stop(p)
      PROVE  /\ Keeps(p) /\ Ask(p)' = Ask(p) /\ disk[paths[n]] = contents[n]
             /\ IF n = Len(paths) THEN stage'[p] = next /\ seen'[p].rechecked = 0
                ELSE stage'[p] = label /\ seen'[p].rechecked = n
  <2> HIDE DEF n
  <2>1. /\ disk[paths[n]] = contents[n]
        /\ stage'[p] = IF n = Len(paths) THEN next ELSE label
        /\ seen'[p] = [seen[p] EXCEPT !.rechecked = IF n = Len(paths) THEN 0 ELSE n]
    BY <1>5 DEF Again, To, Notes, WorkflowTypeOK, n
  <2>2. /\ seen'[p].before = seen[p].before /\ seen'[p].started = seen[p].started
        /\ seen'[p].files = seen[p].files
        /\ seen'[p].artifacts = seen[p].artifacts /\ seen'[p].reports = seen[p].reports
        /\ seen'[p].rechecked = IF n = Len(paths) THEN 0 ELSE n
    BY <1>3, <2>1 DEF Memory
  <2>3. QED
    BY <1>1, <2>1, <2>2 DEF Keeps, Ask
<1>6. QED
  BY <1>1, <1>3, <1>4, <1>5

LEMMA RecheckArtifactsInputs ==
  ASSUME WorkflowTypeOK, DirectoryInv, InputsInv, NEW p \in Proc, RecheckArtifacts(p)
  PROVE  InputsAt(p)'
<1> DEFINE b == Ask(p).bindings
           paths == [i \in DOMAIN b |-> b[i].path]
<1>count. PICK n : n = seen[p].rechecked
  OBVIOUS
<1>0. Again(p, "recheck_artifacts", paths, seen[p].artifacts, "recheck_junit")
  BY DEF RecheckArtifacts
<1>label. "recheck_artifacts" \in FromRecheckInputs
  BY DEF FromRecheckInputs
<1> HIDE DEF paths
<1>1. /\ stage[p] = "recheck_artifacts" /\ At(p) = "recheck_artifacts"
      /\ Inputs(p) /\ StillThere(p)
      /\ answer[p] \notin ReadyAnswers /\ answer'[p] = answer[p]
      /\ RequestValid(asked[p]) /\ NamesFiles(Ask(p)) /\ seen[p] \in Memory /\ n \in Nat
      /\ ~Stop(p) => /\ Keeps(p) /\ Ask(p)' = Ask(p)
                     /\ disk[paths[n + 1]] = seen[p].artifacts[n + 1]
                     /\ IF n + 1 = Len(paths)
                        THEN stage'[p] = "recheck_junit" /\ seen'[p].rechecked = 0
                        ELSE stage'[p] = "recheck_artifacts" /\ seen'[p].rechecked = n + 1
  BY <1>0, <1>label, <1>count, AgainShape
<1>2. CASE Stop(p)
  BY <1>0, <1>1, <1>2, StopInputs DEF Again, Rest
<1>3. CASE ~Stop(p)
  <2>1. /\ n < Len(b) /\ ArtifactsFound(p, n)
        /\ ~returned => judgedDisk[p][Ask(p).state_path] = seen[p].before
    BY <1>1, <1>count DEF Inputs, FoundAt, FromRecheckInputs
  <2>2. Len(paths) = Len(b) /\ Len(b) \in Nat /\ DOMAIN b = 1..Len(b)
    BY <1>1, LenOfPaths DEF NamesFiles, IsSequence, paths
  <2>3. n + 1 \in DOMAIN b /\ paths[n + 1] = b[n + 1].path
    BY <1>1, <2>1, <2>2 DEF paths
  <2>4. n + 1 \in DOMAIN seen[p].artifacts
    <3>1. Len(seen[p].artifacts) = Len(b)
      BY <1>1 DEF Inputs, ReadAt, FromReports, FromGates, FromCopy, FromRecheckState, FromRecheckInputs
    <3>2. seen[p].artifacts \in Seq(InputContents)
      BY <1>1 DEF Memory, ContentRecords
    <3>3. DOMAIN seen[p].artifacts = 1..Len(seen[p].artifacts)
      BY <3>2, LenProperties
    <3>4. QED
      BY <2>2, <2>3, <3>1, <3>3
  <2>5. ~returned => judgedDisk[p][b[n + 1].path] = seen[p].artifacts[n + 1]
    BY <1>1, <1>3, <2>3, <2>4 DEF StillThere, Unmoved
  <2>6. ArtifactsFound(p, n + 1)
    <3>1. \A i \in 1..(n + 1) : i \in 1..n \/ i = n + 1
      BY <1>1
    <3>2. QED
      BY <2>1, <2>5, <3>1 DEF ArtifactsFound
  <2>7. ArtifactsFound(p, n + 1)'
    BY <1>1, <1>3, <2>6, KeptRead
  <2>8. (~returned => judgedDisk[p][Ask(p).state_path] = seen[p].before)'
    BY <1>1, <1>3, <2>1 DEF Keeps, worldVars
  <2>9. At(p)' = stage'[p]
    BY <1>1 DEF At
  <2>10. FoundAt(p)'
    <3> USE DEF FromRecheckInputs, FromRecheckReports, FromRecheckFiles, FromRecheckTime, FromReady
    <3>1. CASE n + 1 = Len(b)
      <4>1. /\ stage'[p] = "recheck_junit" /\ seen'[p].rechecked = 0
            /\ Ask(p)' = Ask(p)
        BY <1>1, <1>3, <2>2, <3>1
      <4>2. ArtifactsFound(p, Len(b))'
        BY <2>7, <3>1, <4>1 DEF ArtifactsFound
      <4>3. 0 < Len(Ask(p).junit) /\ ReportsFound(p, 0)'
        BY <1>1, SomeFiles DEF ReportsFound
      <4>4. QED
        BY <2>8, <2>9, <4>1, <4>2, <4>3 DEF FoundAt
    <3>2. CASE n + 1 # Len(b)
      <4>1. /\ stage'[p] = "recheck_artifacts" /\ seen'[p].rechecked = n + 1
            /\ Ask(p)' = Ask(p) /\ n + 1 < Len(b)
        BY <1>1, <1>3, <2>1, <2>2, <3>2
      <4>2. QED
        BY <2>7, <2>8, <2>9, <4>1 DEF FoundAt
    <3>3. QED
      BY <3>1, <3>2
  <2>11. stage[p] \in FromCopy /\ stage'[p] \in FromCopy
    BY <1>1, <1>3 DEF FromCopy, FromRecheckState, FromRecheckInputs, FromRecheckReports
  <2>12. QED
    BY <1>1, <1>3, <2>10, <2>11, LateInputs
<1>4. QED
  BY <1>2, <1>3

LEMMA RecheckReportsInputs ==
  ASSUME WorkflowTypeOK, DirectoryInv, InputsInv, NEW p \in Proc, RecheckReports(p)
  PROVE  InputsAt(p)'
<1> DEFINE j == Ask(p).junit
           next == IF Ask(p).bundle = NoBundle THEN "ready" ELSE "recheck_producer"
<1>count. PICK n : n = seen[p].rechecked
  OBVIOUS
<1>0. Again(p, "recheck_junit", j, seen[p].reports, next)
  BY DEF RecheckReports
<1>label. "recheck_junit" \in FromRecheckInputs
  BY DEF FromRecheckInputs, FromRecheckReports
<1>1. /\ stage[p] = "recheck_junit" /\ At(p) = "recheck_junit"
      /\ Inputs(p) /\ StillThere(p)
      /\ answer[p] \notin ReadyAnswers /\ answer'[p] = answer[p]
      /\ asked[p] \in Artifact
      /\ RequestValid(asked[p]) /\ NamesFiles(Ask(p)) /\ seen[p] \in Memory /\ n \in Nat
      /\ ~Stop(p) => /\ Keeps(p) /\ Ask(p)' = Ask(p)
                     /\ disk[j[n + 1]] = seen[p].reports[n + 1]
                     /\ IF n + 1 = Len(j)
                        THEN stage'[p] = next /\ seen'[p].rechecked = 0
                        ELSE stage'[p] = "recheck_junit" /\ seen'[p].rechecked = n + 1
  BY <1>0, <1>label, <1>count, AgainShape
<1>2. CASE Stop(p)
  BY <1>0, <1>1, <1>2, StopInputs DEF Again, Rest
<1>3. CASE ~Stop(p)
  <2>1. /\ n < Len(j) /\ ReportsFound(p, n) /\ ArtifactsFound(p, Len(Ask(p).bindings))
        /\ ~returned => judgedDisk[p][Ask(p).state_path] = seen[p].before
    BY <1>1, <1>count DEF Inputs, FoundAt, FromRecheckInputs, FromRecheckReports
  <2>2. Len(j) \in Nat /\ DOMAIN j = 1..Len(j)
    BY <1>1 DEF NamesFiles
  <2>3. n + 1 \in DOMAIN j
    BY <1>1, <2>1, <2>2
  <2>4. n + 1 \in DOMAIN seen[p].reports
    <3>1. Len(seen[p].reports) = Len(j)
      BY <1>1 DEF Inputs, ReadAt, FromGates, FromCopy, FromRecheckState, FromRecheckInputs,
         FromRecheckReports
    <3>2. seen[p].reports \in Seq(InputContents)
      BY <1>1 DEF Memory, ContentRecords
    <3>3. DOMAIN seen[p].reports = 1..Len(seen[p].reports)
      BY <3>2, LenProperties
    <3>4. QED
      BY <2>2, <2>3, <3>1, <3>3
  <2>5. ~returned => judgedDisk[p][j[n + 1]] = seen[p].reports[n + 1]
    BY <1>1, <1>3, <2>3, <2>4 DEF StillThere, Unmoved
  <2>6. ReportsFound(p, n + 1)
    <3>1. \A i \in 1..(n + 1) : i \in 1..n \/ i = n + 1
      BY <1>1
    <3>2. QED
      BY <2>1, <2>5, <3>1 DEF ReportsFound
  <2>7. ReportsFound(p, n + 1)'
    BY <1>1, <1>3, <2>6, KeptRead
  <2>8. /\ (~returned => judgedDisk[p][Ask(p).state_path] = seen[p].before)'
        /\ ArtifactsFound(p, Len(Ask(p).bindings))'
    BY <1>1, <1>3, <2>1 DEF Keeps, worldVars, ArtifactsFound
  <2>9. At(p)' = stage'[p]
    BY <1>1 DEF At
  <2>10. FoundAt(p)'
    <3> USE DEF FromRecheckInputs, FromRecheckReports, FromRecheckFiles, FromRecheckTime, FromReady
    <3>1. CASE n + 1 = Len(j)
      <4>1. /\ stage'[p] = next /\ seen'[p].rechecked = 0 /\ Ask(p)' = Ask(p)
        BY <1>1, <1>3, <3>1
      <4>2. ReportsFound(p, Len(j))'
        BY <2>7, <3>1, <4>1 DEF ReportsFound
      <4>3. CASE Ask(p).bundle = NoBundle
        <5>1. seen[p].files = << >> /\ seen'[p].files = << >>
          BY <1>1, <1>3, <4>3
             DEF Inputs, ReadAt, FromArtifacts, FromReports, FromGates, FromCopy,
                 FromRecheckState, Keeps
        <5>2. FilesFound(p, Len(seen[p].files))'
          <6>1. PICK e : e = << >> /\ Len(e) = 0
            OBVIOUS
          <6>2. QED
            BY <5>1, <6>1 DEF FilesFound
        <5>3. QED
          BY <2>8, <2>9, <4>1, <4>2, <4>3, <5>2 DEF FoundAt
      <4>4. CASE Ask(p).bundle # NoBundle
        <5>1. /\ Len(seen[p].files) = Len(Reads(Ask(p).bundle)) /\ seen[p].files # << >>
              /\ seen'[p].files = seen[p].files
          BY <1>1, <1>3, <4>4
             DEF Inputs, ReadAt, FromArtifacts, FromReports, FromGates, FromCopy,
                 FromRecheckState, Keeps
        <5>2. 0 < Len(seen[p].files)
          <6>1. seen[p].files \in Seq([path : Path, content : InputContents])
            BY <1>1 DEF Memory, FilesRecords
          <6>2. QED
            BY <5>1, <6>1, EmptySeq
        <5>3. FilesFound(p, 0)'
          BY DEF FilesFound
        <5>4. QED
          BY <2>8, <2>9, <4>1, <4>2, <4>4, <5>1, <5>2, <5>3 DEF FoundAt
      <4>5. QED
        BY <4>3, <4>4
    <3>2. CASE n + 1 # Len(j)
      <4>1. /\ stage'[p] = "recheck_junit" /\ seen'[p].rechecked = n + 1
            /\ Ask(p)' = Ask(p) /\ n + 1 < Len(j)
        BY <1>1, <1>3, <2>1, <2>2, <3>2
      <4>2. QED
        BY <2>7, <2>8, <2>9, <4>1 DEF FoundAt
    <3>3. QED
      BY <3>1, <3>2
  <2>11. stage[p] \in FromCopy /\ stage'[p] \in FromCopy
    BY <1>1, <1>3 DEF FromCopy, FromRecheckState, FromRecheckInputs, FromRecheckReports,
       FromRecheckFiles, FromRecheckTime, FromReady
  <2>12. QED
    BY <1>1, <1>3, <2>10, <2>11, LateInputs
<1>4. QED
  BY <1>2, <1>3

LEMMA RecheckProducerInputs ==
  ASSUME WorkflowTypeOK, DirectoryInv, InputsInv, NEW p \in Proc, RecheckProducer(p)
  PROVE  InputsAt(p)'
<1> DEFINE f == seen[p].files
           paths == [i \in DOMAIN f |-> f[i].path]
           contents == [i \in DOMAIN f |-> f[i].content]
<1>count. PICK n : n = seen[p].rechecked
  OBVIOUS
<1>0. Again(p, "recheck_producer", paths, contents, "recheck_time")
  BY DEF RecheckProducer
<1>label. "recheck_producer" \in FromRecheckInputs
  BY DEF FromRecheckInputs, FromRecheckReports, FromRecheckFiles
<1> HIDE DEF paths, contents
<1>1. /\ stage[p] = "recheck_producer" /\ At(p) = "recheck_producer"
      /\ Inputs(p) /\ StillThere(p)
      /\ answer[p] \notin ReadyAnswers /\ answer'[p] = answer[p]
      /\ seen[p] \in Memory /\ n \in Nat
      /\ ~Stop(p) => /\ Keeps(p) /\ Ask(p)' = Ask(p)
                     /\ disk[paths[n + 1]] = contents[n + 1]
                     /\ IF n + 1 = Len(paths)
                        THEN stage'[p] = "recheck_time" /\ seen'[p].rechecked = 0
                        ELSE stage'[p] = "recheck_producer" /\ seen'[p].rechecked = n + 1
  BY <1>0, <1>label, <1>count, AgainShape
<1>2. CASE Stop(p)
  BY <1>0, <1>1, <1>2, StopInputs DEF Again, Rest
<1>3. CASE ~Stop(p)
  <2>1. /\ n < Len(f) /\ FilesFound(p, n) /\ ArtifactsFound(p, Len(Ask(p).bindings))
        /\ ReportsFound(p, Len(Ask(p).junit)) /\ Ask(p).bundle # NoBundle
        /\ ~returned => judgedDisk[p][Ask(p).state_path] = seen[p].before
    BY <1>1, <1>count DEF Inputs, FoundAt, FromRecheckInputs, FromRecheckReports, FromRecheckFiles
  <2>2. Len(paths) = Len(f) /\ Len(f) \in Nat /\ DOMAIN f = 1..Len(f)
    <3>1. f \in Seq([path : Path, content : InputContents])
      BY <1>1 DEF Memory, FilesRecords
    <3>2. paths = [i \in DOMAIN f |-> paths[i]]
      BY DEF paths
    <3>3. QED
      BY <3>1, <3>2, LenOfPaths
  <2>3. n + 1 \in DOMAIN f /\ paths[n + 1] = f[n + 1].path /\ contents[n + 1] = f[n + 1].content
    BY <1>1, <2>1, <2>2 DEF paths, contents
  <2>4. ~returned => judgedDisk[p][f[n + 1].path] = f[n + 1].content
    BY <1>1, <1>3, <2>3 DEF StillThere, Unmoved
  <2>5. FilesFound(p, n + 1)
    <3>1. \A i \in 1..(n + 1) : i \in 1..n \/ i = n + 1
      BY <1>1
    <3>2. QED
      BY <2>1, <2>4, <3>1 DEF FilesFound
  <2>6. FilesFound(p, n + 1)'
    BY <1>1, <1>3, <2>5, KeptRead
  <2>7. /\ (~returned => judgedDisk[p][Ask(p).state_path] = seen[p].before)'
        /\ ArtifactsFound(p, Len(Ask(p).bindings))' /\ ReportsFound(p, Len(Ask(p).junit))'
        /\ seen'[p].files = f
    BY <1>1, <1>3, <2>1 DEF Keeps, worldVars, ArtifactsFound, ReportsFound
  <2>8. At(p)' = stage'[p]
    BY <1>1 DEF At
  <2>9. FoundAt(p)'
    <3> USE DEF FromRecheckInputs, FromRecheckReports, FromRecheckFiles, FromRecheckTime, FromReady
    <3>1. CASE n + 1 = Len(f)
      <4>1. /\ stage'[p] = "recheck_time" /\ seen'[p].rechecked = 0 /\ Ask(p)' = Ask(p)
        BY <1>1, <1>3, <2>2, <3>1
      <4>2. FilesFound(p, Len(seen[p].files))'
        BY <2>6, <2>7, <3>1 DEF FilesFound
      <4>3. QED
        BY <2>1, <2>7, <2>8, <4>1, <4>2 DEF FoundAt
    <3>2. CASE n + 1 # Len(f)
      <4>1. /\ stage'[p] = "recheck_producer" /\ seen'[p].rechecked = n + 1
            /\ Ask(p)' = Ask(p) /\ n + 1 < Len(f)
        BY <1>1, <1>3, <2>1, <2>2, <3>2
      <4>2. QED
        BY <2>1, <2>6, <2>7, <2>8, <4>1 DEF FoundAt
    <3>3. QED
      BY <3>1, <3>2
  <2>10. stage[p] \in FromCopy /\ stage'[p] \in FromCopy
    BY <1>1, <1>3 DEF FromCopy, FromRecheckState, FromRecheckInputs, FromRecheckReports,
       FromRecheckFiles, FromRecheckTime, FromReady
  <2>11. QED
    BY <1>1, <1>3, <2>9, <2>10, LateInputs
<1>4. QED
  BY <1>2, <1>3

LEMMA RecheckTimeInputs ==
  ASSUME WorkflowTypeOK, DirectoryInv, InputsInv, NEW p \in Proc, RecheckTime(p)
  PROVE  InputsAt(p)'
<1>1. stage[p] = "recheck_time" /\ UNCHANGED <<asked, answer, judgedDisk, worldVars>>
  BY DEF RecheckTime, Rest
<1>2. "recheck_time" \in FromCopy /\ "ready" \in FromCopy /\ FromCopy \subseteq Working
  BY DEF Working, FromArtifacts, FromReports, FromGates, FromCopy, FromRecheckState,
     FromRecheckInputs, FromRecheckReports, FromRecheckFiles, FromRecheckTime, FromReady
<1>3. Inputs(p) /\ At(p) = "recheck_time" /\ answer[p] \notin ReadyAnswers /\ seen[p] \in Memory
  BY <1>1, <1>2, InputsKnown
<1>4. CASE Stop(p)
  BY <1>1, <1>3, <1>4, StopInputs
<1>5. CASE ~Stop(p)
  <2>1. /\ StillFresh(Ask(p).bundle, seen[p].files, clock)
        /\ stage'[p] = "ready" /\ seen'[p] = [seen[p] EXCEPT !.ended = clock]
    BY <1>5 DEF RecheckTime, To, Notes, WorkflowTypeOK
  <2>2. Keeps(p) /\ Ask(p)' = Ask(p) /\ seen'[p].ended = clock
        /\ seen'[p].rechecked = seen[p].rechecked /\ seen'[p].files = seen[p].files
    BY <1>1, <1>3, <2>1 DEF Keeps, Memory, Ask
  <2>3. /\ FilesFound(p, Len(seen[p].files)) /\ ArtifactsFound(p, Len(Ask(p).bindings))
        /\ ReportsFound(p, Len(Ask(p).junit)) /\ seen[p].rechecked = 0
        /\ ~returned => judgedDisk[p][Ask(p).state_path] = seen[p].before
    BY <1>1, <1>3 DEF Inputs, FoundAt, FromRecheckInputs, FromRecheckReports, FromRecheckFiles,
       FromRecheckTime
  <2>4. /\ (~returned => judgedDisk[p][Ask(p).state_path] = seen[p].before)'
        /\ ArtifactsFound(p, Len(Ask(p).bindings))' /\ ReportsFound(p, Len(Ask(p).junit))'
        /\ FilesFound(p, Len(seen[p].files))'
    BY <2>2, <2>3 DEF Keeps, worldVars, ArtifactsFound, ReportsFound, FilesFound
  <2>5. At(p)' = "ready"
    BY <1>1, <1>3, <2>1 DEF At
  <2>6. StillFresh(Ask(p).bundle, seen[p].files, seen[p].ended)'
    BY <2>1, <2>2
  <2>7. FoundAt(p)'
    BY <2>1, <2>2, <2>3, <2>4, <2>5, <2>6
       DEF FoundAt, FromRecheckInputs, FromRecheckReports, FromRecheckFiles, FromRecheckTime,
           FromReady
  <2>8. QED
    BY <1>1, <1>2, <2>1, <2>2, <2>7, LateInputs
<1>6. QED
  BY <1>4, <1>5

LEMMA FinishInputs ==
  ASSUME WorkflowTypeOK, DirectoryInv, InputsInv, NEW p \in Proc, Finish(p)
  PROVE  InputsAt(p)'
<1>1. /\ stage[p] \in {"ready", "blocked"} /\ stage'[p] = "done"
      /\ UNCHANGED <<asked, seen, judgedDisk, worldVars>>
      /\ answer'[p] \in {"refused", "unwritten", Status(p)}
  BY DEF Finish, To, WorkflowTypeOK
<1>2. CASE answer'[p] \notin ReadyAnswers
  BY <1>1, <1>2, InputsOut
<1>3. CASE answer'[p] \in ReadyAnswers
  <2>1. stage[p] = "ready"
    BY <1>1, <1>3 DEF Status, ReadyAnswers
  <2>2. "ready" \in FromCopy /\ FromCopy \subseteq FromGates /\ FromCopy \subseteq Working
    BY DEF Working, FromArtifacts, FromReports, FromGates, FromCopy, FromRecheckState,
       FromRecheckInputs, FromRecheckReports, FromRecheckFiles, FromRecheckTime, FromReady
  <2>3. Inputs(p) /\ At(p) = "ready" /\ StillThere(p)
    BY <2>1, <2>2, InputsKnown
  <2>4. Keeps(p) /\ At(p)' = "ready" /\ Ask(p)' = Ask(p)
    BY <1>1, <1>3 DEF Keeps, At, Ask
  <2>5. /\ StateRead(p)' /\ (Ask(p).bundle # NoBundle => FilesRead(p))'
        /\ ArtifactsRead(p)' /\ ReportsRead(p)' /\ StillThere(p)'
    BY <2>3, <2>4, KeptRead DEF Inputs
  <2>6. ReadAt(p)'
    BY <1>1, <2>2, <2>3, AllRead DEF Inputs
  <2>7. FoundAt(p)'
    BY <1>1, <2>3, <2>4
       DEF Inputs, FoundAt, FromRecheckInputs, FromRecheckReports, FromRecheckFiles,
           FromRecheckTime, FromReady, ArtifactsFound, ReportsFound, FilesFound, worldVars
  <2>8. QED
    BY <2>5, <2>6, <2>7 DEF InputsAt
<1>4. QED
  BY <1>2, <1>3

\* Another program changes a file: what was read was still there at some time, and a
\* file that holds what was read from it has not been changed since, unless it got a
\* content back.
LEMMA EditedInputs ==
  ASSUME WorkflowTypeOK, InputsInv, EditInput
  PROVE  InputsInv'
<1>1. /\ \A f \in Path : past[f] \subseteq past'[f] /\ disk'[f] \in past'[f]
      /\ ~returned' => ~returned
      /\ \A f \in Path : \A c \in past[f] : ~returned' /\ disk'[f] = c => disk[f] = c
      /\ UNCHANGED runVars
  <2>1. PICK g \in Path, d \in InputContents :
          /\ disk' = [disk EXCEPT ![g] = d]
          /\ returned' = (returned \/ d \in past[g])
          /\ past' = [past EXCEPT ![g] = @ \cup {d}]
          /\ UNCHANGED runVars
    BY DEF EditInput, InputContents
  <2>2. /\ disk'[g] = d /\ past'[g] = past[g] \cup {d}
        /\ \A f \in Path \ {g} : disk'[f] = disk[f] /\ past'[f] = past[f]
    BY <2>1 DEF WorkflowTypeOK
  <2>3. \A f \in Path : past[f] \subseteq past'[f] /\ disk'[f] \in past'[f]
    BY <2>2 DEF InputsInv
  <2>4. ~returned' => ~returned /\ d \notin past[g]
    BY <2>1
  <2>5. \A f \in Path : \A c \in past[f] : ~returned' /\ disk'[f] = c => disk[f] = c
    BY <2>2, <2>4
  <2>6. QED
    BY <2>1, <2>3, <2>4, <2>5
<1>2. ASSUME NEW p \in Proc PROVE InputsAt(p)'
  <2>1. /\ stage' = stage /\ asked' = asked /\ seen' = seen /\ answer' = answer
        /\ judgedDisk' = judgedDisk /\ Ask(p)' = Ask(p) /\ At(p)' = At(p)
    BY <1>1 DEF runVars, Ask, At
  <2>2. InputsAt(p)
    BY DEF InputsInv
  <2>3. CASE stage[p] \in {"mkdir"} \cup Working \/ answer[p] \in ReadyAnswers
    <3>1. Inputs(p) /\ (At(p) \in FromCopy => StillThere(p))
      BY <2>2, <2>3 DEF InputsAt, Inputs
    <3>2. asked[p] \in Artifact /\ NamesFiles(Ask(p)) /\ seen[p] \in Memory
      BY <3>1, WorkflowAssumption DEF Inputs, StateRead, Ask, WorkflowTypeOK
    <3>3. StateRead(p)'
      <4>1. Ask(p).state_path \in Path /\ seen[p].before \in past[Ask(p).state_path]
        BY <3>1, <3>2 DEF Inputs, StateRead, NamesFiles
      <4>2. seen[p].before \in past'[Ask(p).state_path]
        BY <1>1, <4>1
      <4>3. QED
        BY <2>1, <3>1, <4>2 DEF Inputs, StateRead
    <3>4. ASSUME Ask(p).bundle # NoBundle
          PROVE  /\ FilesRead(p)'
                 /\ \A k \in DOMAIN seen[p].files :
                      seen[p].files[k].path \in Path /\ seen[p].files[k].content \in past[seen[p].files[k].path]
      <4>1. FilesRead(p)
        BY <3>1, <3>4 DEF Inputs
      <4>2. ASSUME NEW k \in DOMAIN seen[p].files
            PROVE  /\ seen[p].files[k].path \in Path
                   /\ seen[p].files[k].content \in past[seen[p].files[k].path]
        <5>1. seen[p].files \in Seq([path : Path, content : InputContents])
          BY <3>2 DEF Memory, FilesRecords
        <5>2. k \in 1..Len(seen[p].files)
          BY <5>1, LenProperties
        <5>3. seen[p].files[k] \in [path : Path, content : InputContents]
          BY <5>1, <5>2, ElementOfSeq
        <5>4. QED
          BY <4>1, <5>3 DEF FilesRead
      <4>3. ASSUME NEW k \in DOMAIN seen[p].files
            PROVE  seen[p].files[k].content \in past'[seen[p].files[k].path]
        BY <1>1, <4>2
      <4>4. FilesRead(p)'
        BY <2>1, <4>1, <4>3 DEF FilesRead
      <4>5. QED
        BY <4>2, <4>4
    <3>5. ASSUME NEW i \in DOMAIN seen[p].artifacts
          PROVE  /\ Ask(p).bindings[i].path \in Path
                 /\ seen[p].artifacts[i] \in past[Ask(p).bindings[i].path]
      <4>1. seen[p].artifacts \in Seq(InputContents)
        BY <3>2 DEF Memory, ContentRecords
      <4>2. i \in DOMAIN Ask(p).bindings
        <5>1. Len(seen[p].artifacts) <= Len(Ask(p).bindings)
          BY <3>1 DEF Inputs, ArtifactsRead
        <5>2. Ask(p).bindings \in Seq(Range(Ask(p).bindings))
          BY <3>2 DEF NamesFiles, IsSequence
        <5>3. QED
          BY <4>1, <5>1, <5>2, LenProperties
      <4>3. QED
        BY <3>1, <3>2, <4>2 DEF Inputs, ArtifactsRead, NamesFiles
    <3>6. ArtifactsRead(p)'
      <4>1. ASSUME NEW i \in DOMAIN seen[p].artifacts
            PROVE  seen[p].artifacts[i] \in past'[Ask(p).bindings[i].path]
        BY <1>1, <3>5
      <4>2. QED
        BY <2>1, <3>1, <4>1 DEF Inputs, ArtifactsRead
    <3>7. ASSUME NEW i \in DOMAIN seen[p].reports
          PROVE  /\ Ask(p).junit[i] \in Path
                 /\ seen[p].reports[i] \in past[Ask(p).junit[i]]
      <4>1. seen[p].reports \in Seq(InputContents)
        BY <3>2 DEF Memory, ContentRecords
      <4>2. i \in DOMAIN Ask(p).junit
        <5>1. Len(seen[p].reports) <= Len(Ask(p).junit)
          BY <3>1 DEF Inputs, ReportsRead
        <5>2. Ask(p).junit \in Seq(Path)
          BY <3>2 DEF NamesFiles
        <5>3. QED
          BY <4>1, <5>1, <5>2, LenProperties
      <4>3. QED
        BY <3>1, <3>2, <4>2 DEF Inputs, ReportsRead, NamesFiles
    <3>8. ReportsRead(p)'
      <4>1. ASSUME NEW i \in DOMAIN seen[p].reports
            PROVE  seen[p].reports[i] \in past'[Ask(p).junit[i]]
        BY <1>1, <3>7
      <4>2. QED
        BY <2>1, <3>1, <4>1 DEF Inputs, ReportsRead
    <3>9. ReadAt(p)'
      BY <2>1, <3>1 DEF Inputs, ReadAt
    <3>10. FoundAt(p)'
      BY <1>1, <2>1, <3>1 DEF Inputs, FoundAt, ArtifactsFound, ReportsFound, FilesFound
    <3>11. At(p) \in FromCopy => StillThere(p)'
      <4>1. SUFFICES ASSUME At(p) \in FromCopy, ~returned' PROVE StillThere(p)'
        BY DEF StillThere
      <4>2. StillThere(p) /\ ~returned
        BY <1>1, <3>1, <4>1
      <4>3. Unmoved(p, Ask(p).state_path, seen[p].before)'
        <5>1. Ask(p).state_path \in Path /\ seen[p].before \in past[Ask(p).state_path]
          BY <3>1, <3>2 DEF Inputs, StateRead, NamesFiles
        <5>2. QED
          BY <1>1, <2>1, <4>1, <4>2, <5>1 DEF StillThere, Unmoved
      <4>4. ASSUME NEW i \in DOMAIN seen[p].artifacts
            PROVE  disk'[Ask(p).bindings[i].path] = seen[p].artifacts[i] =>
                     judgedDisk[p][Ask(p).bindings[i].path] = seen[p].artifacts[i]
        BY <1>1, <3>5, <4>1, <4>2 DEF StillThere, Unmoved
      <4>5. ASSUME NEW i \in DOMAIN seen[p].reports
            PROVE  disk'[Ask(p).junit[i]] = seen[p].reports[i] =>
                     judgedDisk[p][Ask(p).junit[i]] = seen[p].reports[i]
        BY <1>1, <3>7, <4>1, <4>2 DEF StillThere, Unmoved
      <4>6. ASSUME NEW k \in DOMAIN seen[p].files
            PROVE  disk'[seen[p].files[k].path] = seen[p].files[k].content =>
                     judgedDisk[p][seen[p].files[k].path] = seen[p].files[k].content
        <5>1. Ask(p).bundle # NoBundle
          <6>1. At(p) \in FromArtifacts
            BY <4>1 DEF FromArtifacts, FromReports, FromGates
          <6>2. Ask(p).bundle = NoBundle => seen[p].files = << >>
            BY <3>1, <6>1 DEF Inputs, ReadAt
          <6>3. DOMAIN << >> = {}
            OBVIOUS
          <6>4. QED
            BY <6>2, <6>3
        <5>2. QED
          BY <1>1, <3>4, <4>1, <4>2, <5>1 DEF StillThere, Unmoved
      <4>7. QED
        BY <2>1, <4>3, <4>4, <4>5, <4>6 DEF StillThere, Unmoved
    <3>12. QED
      BY <2>1, <3>3, <3>4, <3>6, <3>8, <3>9, <3>10, <3>11 DEF InputsAt
  <2>4. CASE ~(stage[p] \in {"mkdir"} \cup Working \/ answer[p] \in ReadyAnswers)
    <3>1. At(p) \notin FromCopy
      BY <2>4 DEF At, Working, FromArtifacts, FromReports, FromGates
    <3>2. QED
      BY <2>1, <2>4, <3>1 DEF InputsAt
  <2>5. QED
    BY <2>3, <2>4
<1>3. QED
  BY <1>1, <1>2 DEF InputsInv

LEMMA InputsStep ==
  ASSUME WorkflowTypeOK, DirectoryInv, InputsInv, [WorkflowNext]_workflowVars
  PROVE  InputsInv'
<1>1. ASSUME NEW p \in Proc, RunStep(p) PROVE InputsInv'
  <2>1. InputsAt(p)'
    <3>1. CASE Inspects(p) \/ CopyState(p) \/ Rehearses(p)
      BY <3>1, BeginInputs, MakeOutputInputs, ReadProducerInputs, ReadArtifactInputs,
         ReadReportInputs, AskGatesInputs, RehearsalInputs, RecheckStateInputs,
         RecheckArtifactsInputs, RecheckReportsInputs, RecheckProducerInputs,
         RecheckTimeInputs, FinishInputs DEF Inspects
    <3>2. CASE Die(p)
      <4>1. stage'[p] = "done" /\ answer'[p] = "died"
        BY <3>2 DEF Die, To, WorkflowTypeOK
      <4>2. QED
        BY <4>1, InputsOut DEF ReadyAnswers
    <3>3. QED
      BY <1>1, <3>1, <3>2 DEF RunStep
  <2>2. ASSUME NEW q \in Proc \ {p} PROVE InputsAt(q)'
    <3>1. /\ stage'[q] = stage[q] /\ asked'[q] = asked[q] /\ seen'[q] = seen[q]
          /\ answer'[q] = answer[q] /\ judgedDisk'[q] = judgedDisk[q] /\ UNCHANGED worldVars
      BY <1>1, RunFrame
    <3>2. InputsAt(q) /\ Keeps(q) /\ At(q)' = At(q) /\ Ask(q)' = Ask(q)
      BY <3>1 DEF InputsInv, Keeps, At, Ask
    <3>3. ReadAt(q) => ReadAt(q)'
      BY <3>1, <3>2 DEF ReadAt
    <3>4. FoundAt(q) => FoundAt(q)'
      BY <3>1, <3>2 DEF FoundAt, ArtifactsFound, ReportsFound, FilesFound, worldVars
    <3>5. QED
      BY <3>1, <3>2, <3>3, <3>4, KeptRead DEF InputsAt
  <2>3. UNCHANGED worldVars
    BY <1>1, RunFrame
  <2>4. QED
    BY <2>1, <2>2, <2>3 DEF InputsInv, worldVars
<1>2. CASE EditInput
  BY <1>2, EditedInputs
<1>3. CASE SetClock \/ EditDrill \/ UNCHANGED workflowVars
  <2>1. UNCHANGED <<runVars, disk, past, returned>>
    BY <1>3 DEF SetClock, EditDrill, workflowVars, worldVars
  <2>2. ASSUME NEW q \in Proc PROVE InputsAt(q)'
    BY <2>1 DEF InputsInv, InputsAt, runVars, StateRead, FilesRead, ArtifactsRead, ReportsRead,
       ReadAt, FoundAt, StillThere, Unmoved, ArtifactsFound, ReportsFound, FilesFound, At, Ask
  <2>3. QED
    BY <2>1, <2>2 DEF InputsInv
<1>4. QED
  BY <1>1, <1>2, <1>3, Steps

-----------------------------------------------------------------------------
(* The invariant, and what follows from it.                                *)

LEMMA WorkflowInitial == WorkflowInit => WorkflowInv
<1>1. SUFFICES ASSUME WorkflowInit PROVE WorkflowInv
  OBVIOUS
<1>2. /\ \A p \in Proc : stage[p] = "idle" /\ answer[p] = "none" /\ pc[p] = "idle"
      /\ verdict.run = Nobody
  BY <1>1 DEF WorkflowInit, Init
<1>3. WorkflowTypeOK
  <2>1. /\ disk \in [Path -> InputContents] /\ judgedDisk \in [Proc -> [Path -> InputContents]]
        /\ past \in [Path -> SUBSET InputContents]
    BY <1>1, WorkflowAssumption DEF WorkflowInit
  <2>2. seen \in [Proc -> Memory]
    BY <1>1, NothingType DEF WorkflowInit
  <2>3. /\ clock \in 0..MaxTime /\ returned \in BOOLEAN /\ owner \in Proc \cup {Nobody}
        /\ stage \in [Proc -> Working \cup {"idle", "mkdir", "blocked", "done"}]
        /\ asked \in [Proc -> Artifact \cup {Missing}]
        /\ answer \in [Proc -> ReadyAnswers \cup {"none", "refused", "died", "unwritten", "blocked"}]
    BY <1>1 DEF WorkflowInit
  <2>4. /\ exclusive = FALSE /\ pc \in [Proc -> Labels]
        /\ DOMAIN job = Proc /\ DOMAIN held = Proc /\ DOMAIN receipts = ReceiptPath
    BY <1>1 DEF WorkflowInit, Init, Labels
  <2>5. QED
    BY <2>1, <2>2, <2>3, <2>4 DEF WorkflowTypeOK
<1>4. DirectoryInv
  BY <1>2, StagesDiffer DEF DirectoryInv, ReadyAnswers
<1>5. \A p \in Proc : At(p) = "idle"
  BY <1>2 DEF At, ReadyAnswers
<1>6. "idle" \notin FromCopy /\ FromRecheckState \subseteq FromCopy
  BY DEF FromCopy, FromRecheckState, FromRecheckInputs, FromRecheckReports, FromRecheckFiles,
     FromRecheckTime, FromReady
<1>7. DrillInv
  BY <1>1, <1>2, <1>5, <1>6 DEF DrillInv, DrillAt, WorkflowInit, Init, DrillContents, Contents
<1>8. InputsInv
  <2>1. \A f \in Path : disk[f] \in past[f]
    BY <1>1 DEF WorkflowInit
  <2>2. \A p \in Proc : InputsAt(p)
    BY <1>2, <1>5, <1>6, StagesDiffer DEF InputsAt, ReadyAnswers
  <2>3. QED
    BY <2>1, <2>2 DEF InputsInv
<1>9. QED
  BY <1>3, <1>4, <1>7, <1>8 DEF WorkflowInv

\* Every state of every run satisfies the invariant: the types, one run in the
\* directory, the receipt of the rehearsal, and what was read (workflow.py:86-205).
THEOREM WorkflowInvariant == WorkflowSpec => []WorkflowInv
<1>1. WorkflowInv /\ [WorkflowNext]_workflowVars => WorkflowInv'
  BY WorkflowTypeStep, DirectoryStep, DrillStep, InputsStep DEF WorkflowInv
<1>2. QED
  BY WorkflowInitial, <1>1, PTL DEF WorkflowSpec

\* An output directory is that of one run: its receipt is of the run that made it, and
\* no other returns a result from it (workflow.py:97-102, 199-201).
THEOREM DirectoryIsOwned == WorkflowSpec => []OneVerdictPerDirectory
<1>1. WorkflowInv => OneVerdictPerDirectory
  BY DEF WorkflowInv, DirectoryInv, OneVerdictPerDirectory, ReadyAnswers
<1>2. QED
  BY WorkflowInvariant, <1>1, PTL

\* What a run that answered ready has read.
LEMMA ReadyInputs ==
  ASSUME WorkflowInv, NEW p \in Proc, answer[p] \in ReadyAnswers
  PROVE  /\ At(p) = "ready" /\ Inputs(p)
         /\ asked[p] \in Artifact /\ NamesFiles(Ask(p)) /\ seen[p] \in Memory
         /\ seen[p].before \in InputContents
<1>1. At(p) = "ready" /\ Inputs(p)
  BY DEF At, WorkflowInv, InputsInv, InputsAt, Inputs
<1>2. asked[p] \in Artifact /\ NamesFiles(Ask(p))
  BY <1>1, WorkflowAssumption DEF Inputs, StateRead, Ask
<1>3. seen[p].before \in InputContents
  BY <1>1, <1>2 DEF Inputs, StateRead, NamesFiles, WorkflowInv, WorkflowTypeOK
<1>4. QED
  BY <1>1, <1>2, <1>3 DEF WorkflowInv, WorkflowTypeOK

\* A run that ends ready has rehearsed the way back to the very bytes it read, whatever
\* others do to the drill copy (workflow.py:166-180).
THEOREM RehearsalIsReal == WorkflowSpec => []ReadyIsRehearsed
<1>1. WorkflowInv => ReadyIsRehearsed
  <2>1. SUFFICES ASSUME WorkflowInv, NEW p \in Proc, answer[p] \in ReadyAnswers
                 PROVE  /\ Complete(DrillReceipt)
                        /\ receipts[DrillReceipt].before = Copy(seen[p].before)
                        /\ receipts[DrillReceipt].after = After(asked[p])
                        /\ ArtifactOf[asked[p]].decision = "ready"
    BY DEF ReadyIsRehearsed, ReadyAnswers
  <2>2. At(p) = "ready" /\ asked[p] \in Artifact /\ seen[p].before \in InputContents
    BY <2>1, ReadyInputs
  <2>3. "ready" \in FromRecheckState /\ "ready" \in FromCopy
    BY DEF FromCopy, FromRecheckState, FromRecheckInputs, FromRecheckReports,
       FromRecheckFiles, FromRecheckTime, FromReady
  <2>4. /\ receipts[DrillReceipt] = [before |-> Copy(seen[p].before), after |-> After(asked[p])]
        /\ ArtifactOf[asked[p]].decision = "ready"
    BY <2>1, <2>2, <2>3 DEF WorkflowInv, DrillInv, DrillAt
  <2>5. receipts[DrillReceipt] \in [before : Contents \cup {Copy(c) : c \in InputContents},
                                    after : {After(a) : a \in Artifact}]
    BY <2>2, <2>4
  <2>6. Complete(DrillReceipt)
    BY <2>5, WorkflowAssumption DEF Complete
  <2>7. QED
    BY <2>4, <2>6
<1>2. QED
  BY WorkflowInvariant, <1>1, PTL

\* A file that a run has read is a record of a path and a content, as many as were read.
LEMMA ReadFiles ==
  ASSUME NEW p \in Proc, seen[p] \in Memory, NEW f, f = seen[p].files
  PROVE  /\ f \in Seq([path : Path, content : InputContents])
         /\ Len(f) \in Nat /\ DOMAIN f = 1..Len(f)
         /\ \A k \in DOMAIN f : f[k] \in [path : Path, content : InputContents]
<1>1. f \in Seq([path : Path, content : InputContents])
  BY DEF Memory, FilesRecords
<1>2. Len(f) \in Nat /\ DOMAIN f = 1..Len(f)
  BY <1>1, LenProperties
<1>3. QED
  BY <1>1, <1>2, ElementOfSeq

\* No file is read twice, and the receipt of an entry is that of a known run.
LEMMA RunsAreRead ==
  ASSUME WorkflowInv, NEW p \in Proc, answer[p] \in ReadyAnswers, Ask(p).bundle # NoBundle,
         NEW i \in DOMAIN Ask(p).bundle.entries
  PROVE  RunRead(Ask(p).bundle, i, seen[p].files).finished \in Nat
<1> DEFINE b == Ask(p).bundle
           f == seen[p].files
           r == [entry |-> i, kind |-> "receipt", id |-> "", path |-> b.entries[i].path]
<1>1. /\ At(p) = "ready" /\ Inputs(p) /\ asked[p] \in Artifact /\ seen[p] \in Memory
  BY ReadyInputs
<1>2. Len(f) = Len(Reads(b)) /\ FilesRead(p)
  BY <1>1
     DEF Inputs, ReadAt, FromArtifacts, FromReports, FromGates, FromCopy, FromRecheckState,
         FromRecheckInputs, FromRecheckReports, FromRecheckFiles, FromRecheckTime, FromReady
<1>3. /\ Len(f) \in Nat /\ DOMAIN f = 1..Len(f)
      /\ f \in Seq([path : Path, content : InputContents])
      /\ \A k \in DOMAIN f : f[k] \in [path : Path, content : InputContents]
  BY <1>1, ReadFiles
<1>4. /\ DOMAIN Reads(b) = DOMAIN f
      /\ \E k \in DOMAIN Reads(b) : Reads(b)[k] = r
  BY <1>1, <1>2, <1>3, ReadsFiles DEF Ask
<1>5. PICK k \in DOMAIN f : Reads(b)[k] = r
  BY <1>4
<1> HIDE DEF f
<1>6. ASSUME NEW j \in DOMAIN f
      PROVE  /\ f[j].path = Reads(b)[j].path
             /\ MayRead(SubSeq(f, 1, j - 1), Reads(b)[j].path, f[j].content)
             /\ Reads(b)[j].kind = "receipt" =>
                  RunValid(RunOf(f[j].content), b.entries[Reads(b)[j].entry].producer)
             /\ \A h \in 1..(j - 1) : f[h].path # f[j].path
  <2>1. /\ f[j].path = Reads(b)[j].path
        /\ NextPasses(b, SubSeq(f, 1, j - 1), f[j].content, seen[p].started)
    BY <1>2 DEF FilesRead, f
  <2> DEFINE s == SubSeq(f, 1, j - 1)
  <2>2. /\ Len(s) = j - 1 /\ DOMAIN s = 1..(j - 1)
        /\ \A h \in 1..(j - 1) : s[h] = f[h]
    BY <1>3
  <2>3. Len(s) + 1 = j
    BY <1>3, <2>2
  <2> HIDE DEF s
  <2>4. NextPasses(b, s, f[j].content, seen[p].started)
    BY <2>1 DEF s
  <2>5. /\ MayRead(s, Reads(b)[j].path, f[j].content)
        /\ Reads(b)[j].kind = "receipt" =>
             ReceiptPasses(b, Reads(b)[j].entry, s, f[j].content, seen[p].started)
    BY <2>3, <2>4, Zenon DEF NextPasses
  <2>6. Reads(b)[j].kind = "receipt" =>
          RunValid(RunOf(f[j].content), b.entries[Reads(b)[j].entry].producer)
    BY <2>5, Zenon DEF ReceiptPasses
  <2>7. \A h \in 1..(j - 1) : f[h].path # f[j].path
    BY <2>1, <2>2, <2>5, Zenon DEF MayRead
  <2>8. QED
    BY <2>1, <2>5, <2>6, <2>7 DEF s
<1>7. f[k].path = b.entries[i].path /\ RunValid(RunOf(f[k].content), b.entries[i].producer)
  <2>1. r.path = b.entries[i].path /\ r.kind = "receipt" /\ r.entry = i
    OBVIOUS
  <2> HIDE DEF r
  <2>2. QED
    BY <1>5, <1>6, <2>1
<1>8. ASSUME NEW g \in DOMAIN f, f[g].path = b.entries[i].path PROVE g = k
  <2>1. g \in 1..(k - 1) \/ k \in 1..(g - 1) \/ g = k
    BY <1>3
  <2>2. QED
    BY <1>6, <1>7, <1>8, <2>1
<1>9. (CHOOSE g \in DOMAIN f : f[g].path = b.entries[i].path) = k
  BY <1>7, <1>8
<1>10. RunRead(b, i, f) = RunOf(f[k].content)
  BY <1>9 DEF RunRead
<1>11. f[k].content \in InputContents /\ RunOf(f[k].content) # NotARun
  BY <1>3, <1>7 DEF RunValid
<1>12. RunOf(f[k].content).finished \in Nat
  BY <1>11, WorkflowAssumption
<1>13. QED
  BY <1>10, <1>12 DEF f

\* At the instant of the decisions all the files of a ready run were as it judged them.
LEMMA ReadyHolds ==
  ASSUME WorkflowInv, NEW p \in Proc, answer[p] \in ReadyAnswers, ~returned
  PROVE  Holds(asked[p], judgedDisk[p], seen[p].before, seen[p].started)
<1> DEFINE q == Ask(p)
           d == judgedDisk[p]
           b == q.bundle
           f == seen[p].files
<1>1. /\ At(p) = "ready" /\ Inputs(p) /\ asked[p] \in Artifact /\ NamesFiles(q)
      /\ seen[p] \in Memory
  BY ReadyInputs
<1>2. /\ d[q.state_path] = seen[p].before
      /\ ArtifactsFound(p, Len(q.bindings)) /\ ReportsFound(p, Len(q.junit))
      /\ FilesFound(p, Len(f))
  BY <1>1
     DEF Inputs, FoundAt, FromRecheckInputs, FromRecheckReports, FromRecheckFiles,
         FromRecheckTime, FromReady
<1>3. /\ Len(seen[p].artifacts) = Len(q.bindings)
      /\ Len(seen[p].reports) = Len(q.junit) /\ SuitesPass(q, SuitesIn(seen[p].reports))
      /\ b # NoBundle => Len(f) = Len(Reads(b)) /\ FilesRead(p)
  BY <1>1
     DEF Inputs, ReadAt, FromArtifacts, FromReports, FromGates, FromCopy, FromRecheckState,
         FromRecheckInputs, FromRecheckReports, FromRecheckFiles, FromRecheckTime, FromReady
<1>4. d[q.state_path] = seen[p].before /\ ShaIn(seen[p].before) = Snapshot(asked[p]).observed_sha
  BY <1>1, <1>2 DEF Inputs, StateRead
<1>5. ASSUME NEW i \in DOMAIN q.bindings
      PROVE  ArtifactClaimed(q, q.bindings[i], d[q.bindings[i].path])
  <2>1. seen[p].artifacts \in Seq(InputContents) /\ q.bindings \in Seq(Range(q.bindings))
    BY <1>1 DEF Memory, ContentRecords, NamesFiles, IsSequence
  <2>2. i \in 1..Len(q.bindings) /\ i \in DOMAIN seen[p].artifacts
    BY <1>3, <2>1, LenProperties
  <2>3. d[q.bindings[i].path] = seen[p].artifacts[i]
    BY <1>2, <2>2 DEF ArtifactsFound
  <2>4. ArtifactClaimed(q, q.bindings[i], seen[p].artifacts[i])
    BY <1>1, <2>2 DEF Inputs, ArtifactsRead
  <2>5. QED
    BY <2>3, <2>4
<1>6. SuitesPass(q, SuitesIn([i \in DOMAIN q.junit |-> d[q.junit[i]]]))
  <2> DEFINE m == [i \in DOMAIN q.junit |-> d[q.junit[i]]]
  <2>1. seen[p].reports \in Seq(InputContents) /\ q.junit \in Seq(Path)
    BY <1>1 DEF Memory, ContentRecords, NamesFiles
  <2>2. DOMAIN seen[p].reports = DOMAIN q.junit /\ DOMAIN q.junit = 1..Len(q.junit)
    BY <1>3, <2>1, LenProperties
  <2>3. \A i \in DOMAIN q.junit : seen[p].reports[i] = d[q.junit[i]]
    BY <1>2, <2>2 DEF ReportsFound
  <2>4. seen[p].reports = [i \in DOMAIN q.junit |-> seen[p].reports[i]]
    BY <2>1, <2>2
  <2>5. m = seen[p].reports
    BY <2>3, <2>4
  <2> HIDE DEF m
  <2>6. SuitesPass(q, SuitesIn(m))
    BY <1>3, <2>5
  <2>7. QED
    BY <2>6 DEF m
<1>7. ASSUME b # NoBundle PROVE BundleHolds(b, d, seen[p].started)
  <2> DEFINE file == [k \in DOMAIN Reads(b) |-> [path |-> Reads(b)[k].path,
                                                content |-> d[Reads(b)[k].path]]]
  <2>1. /\ f \in Seq([path : Path, content : InputContents])
        /\ Len(f) \in Nat /\ DOMAIN f = 1..Len(f)
        /\ \A k \in DOMAIN f : f[k] \in [path : Path, content : InputContents]
    BY <1>1, ReadFiles
  <2>2. DOMAIN Reads(b) = DOMAIN f
    BY <1>1, <1>3, <1>7, <2>1, ReadsFiles DEF Ask
  <2>3. ASSUME NEW k \in DOMAIN f
        PROVE  f[k] = [path |-> Reads(b)[k].path, content |-> d[Reads(b)[k].path]]
    <3>1. f[k].path = Reads(b)[k].path
      BY <1>3, <1>7 DEF FilesRead
    <3>2. f[k].content = d[f[k].path]
      BY <1>2, <2>1 DEF FilesFound
    <3>3. f[k] = [path |-> f[k].path, content |-> f[k].content]
      BY <2>1
    <3>4. QED
      BY <3>1, <3>2, <3>3
  <2>4. f = [k \in DOMAIN f |-> f[k]]
    BY <2>1
  <2>5. file = f
    BY <2>2, <2>3, <2>4
  <2>6. \A k \in DOMAIN f : NextPasses(b, SubSeq(f, 1, k - 1), f[k].content, seen[p].started)
    BY <1>3, <1>7 DEF FilesRead
  <2> HIDE DEF file, f
  <2>7. \A k \in DOMAIN file :
          NextPasses(b, SubSeq(file, 1, k - 1), file[k].content, seen[p].started)
    BY <2>5, <2>6
  <2>8. QED
    BY <2>7 DEF BundleHolds, file
<1>8. QED
  BY <1>4, <1>5, <1>6, <1>7 DEF Holds, Ask

\* A run that ends ready has judged one state of its inputs, all the files at once, and
\* its bundle is fresh at the end as well (workflow.py:93, 107-154, 181-195).
THEOREM InputsAreOneState == WorkflowSpec => []ReadyIsOneState
<1>1. WorkflowInv => ReadyIsOneState
  <2>1. SUFFICES ASSUME WorkflowInv, NEW p \in Proc, answer[p] \in ReadyAnswers, ~returned
                 PROVE  /\ Holds(asked[p], judgedDisk[p], seen[p].before, seen[p].started)
                        /\ Ask(p).bundle # NoBundle =>
                             \A i \in DOMAIN Ask(p).bundle.entries :
                               RunRead(Ask(p).bundle, i, seen[p].files).finished
                                 \in (seen[p].ended - Ask(p).bundle.max_age)..seen[p].ended
    BY DEF ReadyIsOneState, ReadyAnswers
  <2>2. ASSUME Ask(p).bundle # NoBundle, NEW i \in DOMAIN Ask(p).bundle.entries
        PROVE  RunRead(Ask(p).bundle, i, seen[p].files).finished
                 \in (seen[p].ended - Ask(p).bundle.max_age)..seen[p].ended
    <3> DEFINE b == Ask(p).bundle
               run == RunRead(b, i, seen[p].files)
               age == b.max_age
    <3>1. At(p) = "ready" /\ Inputs(p) /\ seen[p] \in Memory
      BY <2>1, ReadyInputs
    <3>2. StillFresh(b, seen[p].files, seen[p].ended)
      BY <2>2, <3>1 DEF Inputs, FoundAt
    <3>3. run.finished <= seen[p].ended /\ seen[p].ended - run.finished <= age
      BY <2>2, <3>2, Zenon DEF StillFresh, Fresh
    <3>4. run.finished \in Nat
      BY <2>1, <2>2, RunsAreRead
    <3>5. seen[p].ended \in Int
      BY <3>1 DEF Memory
    <3>6. age \in Int
      <4>1. seen[p].files # << >> /\ FilesRead(p)
        BY <2>2, <3>1
           DEF Inputs, ReadAt, FromArtifacts, FromReports, FromGates, FromCopy, FromRecheckState,
               FromRecheckInputs, FromRecheckReports, FromRecheckFiles, FromRecheckTime, FromReady
      <4>2. b.max_age \in 1..MaxAge
        BY <4>1, Zenon DEF FilesRead, BundleValid
      <4>3. QED
        BY <4>2
    <3> HIDE DEF run, age
    <3>7. run.finished \in (seen[p].ended - age)..seen[p].ended
      BY <3>3, <3>4, <3>5, <3>6
    <3>8. QED
      BY <3>7 DEF run, age
  <2>3. QED
    BY <2>1, <2>2, ReadyHolds
<1>2. QED
  BY WorkflowInvariant, <1>1, PTL
=============================================================================
