------------------------ MODULE ReleaseSessionProofs ------------------------
EXTENDS ReleaseSession, FiniteSetTheorems, FunctionTheorems, SequenceTheorems,
        WellFoundedInduction, TLAPS

\* A set of positions has a first one.
LEMMA FirstOf ==
  ASSUME NEW T, T \subseteq Nat, T # {}
  PROVE  \E m \in T : \A j \in T : m <= j
<1> DEFINE S == FiniteSubsetsOf(Nat)
           R == StrictSubsetOrdering(Nat)
           U == {0..m : m \in T}
<1>1. IsWellFoundedOn(R, S)
  BY FS_StrictSubsetOrderingWellFounded
<1>2. \A m \in T : IsFiniteSet(0..m)
  BY FS_Interval
<1>3. U \subseteq S /\ U # {}
  <2>1. \A m \in T : 0..m \in SUBSET Nat
    OBVIOUS
  <2>2. \A m \in T : 0..m \in S
    BY <2>1, <1>2 DEF FiniteSubsetsOf
  <2>3. QED
    BY <2>2
<1> HIDE DEF R, S
<1>4. PICK X \in U : \A Y \in U : <<Y, X>> \notin R
  <2> HIDE DEF U
  <2>1. QED
    BY <1>1, <1>3, WFMin
<1>5. PICK m \in T : X = 0..m
  OBVIOUS
<1>6. ASSUME NEW j \in T, j < m PROVE FALSE
  <2>1. 0..j \in U /\ 0..j \subseteq Nat /\ 0..m \subseteq Nat
    OBVIOUS
  <2>2. 0..j \subseteq 0..m /\ m \in 0..m /\ m \notin 0..j
    BY <1>6
  <2>3. <<0..j, 0..m>> \in R
    BY <2>1, <2>2 DEF R, StrictSubsetOrdering
  <2>4. QED
    BY <2>1, <2>3, <1>4, <1>5
<1>7. QED
  BY <1>6

\* When row j applies, the verdict is that of a row no later than j.
LEMMA VerdictIsARow ==
  ASSUME NEW gate, NEW n \in Nat, NEW rows, DOMAIN rows = 1..n, NEW j \in 1..n, rows[j] # {}
  PROVE  \E k \in 1..j : \E r \in rows[k] :
           Verdict(gate, rows) = Result(gate, r.status, r.code, r.items)
<1> DEFINE T == {m \in 1..n : rows[m] # {}}
           first == CHOOSE m \in DOMAIN rows : rows[m] # {} /\ \A i \in 1..(m - 1) : rows[i] = {}
           row == CHOOSE x \in rows[first] : TRUE
<1>1. PICK m \in T : \A i \in T : m <= i
  <2>1. T \subseteq Nat /\ j \in T
    OBVIOUS
  <2>2. QED
    BY <2>1, FirstOf
<1>2. m \in DOMAIN rows /\ rows[m] # {} /\ \A i \in 1..(m - 1) : rows[i] = {}
  <2>1. ASSUME NEW i \in 1..(m - 1) PROVE i \notin T /\ i \in 1..n
    BY <1>1
  <2>2. QED
    BY <2>1, <1>1
<1>3. first \in DOMAIN rows /\ rows[first] # {} /\ \A i \in 1..(first - 1) : rows[i] = {}
  BY <1>2
<1>4. row \in rows[first]
  BY <1>3
<1>5. Verdict(gate, rows) = Result(gate, row.status, row.code, row.items)
  BY DEF Verdict
<1>6. first \in 1..j
  <2>1. ~(j < first)
    BY <1>3
  <2>2. QED
    BY <2>1, <1>3
<1>7. QED
  BY <1>4, <1>5, <1>6

\* What a gate may say of itself.
Status == {"pass", "fail", "unknown"}

\* A gate on its own is not waived.
Bare(g) ==
  /\ {"gate", "status", "code", "evidence", "waived_by", "original"} \subseteq DOMAIN g
  /\ g.status \in Status /\ g.waived_by = NoWaiver

\* A gate that found one of some codes.
Found(g, codes) == g.status \in {"fail", "unknown"} /\ g.code \in codes

LEMMA VerdictBare ==
  ASSUME NEW gate, NEW n \in Nat \ {0}, NEW rows, DOMAIN rows = 1..n, rows[n] # {},
         \A k \in 1..n : \A r \in rows[k] : r.status \in Status
  PROVE  Bare(Verdict(gate, rows))
<1>1. PICK k \in 1..n : \E r \in rows[k] :
        Verdict(gate, rows) = Result(gate, r.status, r.code, r.items)
  BY VerdictIsARow
<1>2. QED
  BY <1>1 DEF Bare, Result

LEMMA VerdictFound ==
  ASSUME NEW gate, NEW n \in Nat, NEW rows, DOMAIN rows = 1..n, NEW j \in 1..n, rows[j] # {},
         NEW codes, \A k \in 1..j : \A r \in rows[k] : Found(r, codes)
  PROVE  Found(Verdict(gate, rows), codes)
<1>1. PICK k \in 1..j : \E r \in rows[k] :
        Verdict(gate, rows) = Result(gate, r.status, r.code, r.items)
  BY VerdictIsARow
<1>2. QED
  BY <1>1 DEF Found, Result

\* What a row says, when it applies and when it does not.
LEMMA RowHolds ==
  ASSUME NEW status, NEW code, NEW items
  PROVE  Row(TRUE, status, code, items) # {} /\ Row(FALSE, status, code, items) = {}
BY DEF Row

LEMMA RowBare ==
  ASSUME NEW applies, NEW status \in Status, NEW code, NEW items
  PROVE  \A r \in Row(applies, status, code, items) : r.status \in Status
BY DEF Row

LEMMA RowFound ==
  ASSUME NEW applies, NEW status \in {"fail", "unknown"}, NEW codes, NEW code \in codes,
         NEW items
  PROVE  \A r \in Row(applies, status, code, items) : Found(r, codes)
BY DEF Row, Found

\* s is made of the items at the positions I, each once, in the order h.
Taken(h, s, items, I) ==
  /\ h \in Bijection(1..Cardinality(I), I)
  /\ s = [k \in 1..Cardinality(I) |-> items[h[k]]]

\* Those takes the items at the positions I, each once.
LEMMA ThosePositions ==
  ASSUME NEW items, NEW n \in Nat, NEW I, I \subseteq 1..n
  PROVE  /\ IsFiniteSet(I) /\ Cardinality(I) \in Nat
         /\ \E h : Taken(h, Those(items, I), items, I)
<1> DEFINE N == Cardinality(I)
           rank == [i \in I |-> Cardinality(I \cap (1..i))]
           at(k) == CHOOSE i \in I : Cardinality(I \cap (1..i)) = k
           h == [k \in 1..N |-> at(k)]
<1>1. IsFiniteSet(I) /\ N \in Nat
  <2>1. IsFiniteSet(1..n)
    BY FS_Interval
  <2>2. QED
    BY <2>1, FS_Subset, FS_CardinalityType
<1>2. ASSUME NEW i \in I
      PROVE  IsFiniteSet(I \cap (1..i)) /\ Cardinality(I \cap (1..i)) \in 1..N
  <2>1. IsFiniteSet(I \cap (1..i)) /\ Cardinality(I \cap (1..i)) <= N
    BY <1>1, FS_Subset
  <2>2. i \in I \cap (1..i)
    OBVIOUS
  <2>3. Cardinality(I \cap (1..i)) \in Nat /\ Cardinality(I \cap (1..i)) # 0
    BY <2>1, <2>2, FS_CardinalityType, FS_EmptySet
  <2>4. QED
    BY <1>1, <2>1, <2>3
<1>3. rank \in [I -> 1..N]
  BY <1>2
<1>4. ASSUME NEW i \in I, NEW j \in I, i < j PROVE rank[i] # rank[j]
  <2>1. I \cap (1..i) \subseteq I \cap (1..j) /\ j \notin 1..i /\ j \in I \cap (1..j)
    BY <1>4
  <2>2. Cardinality(I \cap (1..i)) # Cardinality(I \cap (1..j))
    BY <2>1, <1>2, FS_Subset
  <2>3. QED
    BY <2>2
<1>5. rank \in Injection(I, 1..N)
  <2>1. ASSUME NEW i \in I, NEW j \in I, rank[i] = rank[j] PROVE i = j
    BY <2>1, <1>4
  <2>2. QED
    BY <2>1, <1>3 DEF Injection, IsInjective
<1>6. rank \in Surjection(I, 1..N)
  BY <1>5, <1>1, FS_Injection, FS_Interval
<1>7. \A k \in 1..N : \E i \in I : Cardinality(I \cap (1..i)) = k
  BY <1>6 DEF Surjection
<1>8. \A k \in 1..N : at(k) \in I /\ rank[at(k)] = k
  BY <1>7
<1>9. \A i \in I : rank[i] \in 1..N /\ at(rank[i]) = i
  <2> TAKE i \in I
  <2>1. rank[i] \in 1..N
    BY <1>3
  <2>2. at(rank[i]) \in I /\ rank[at(rank[i])] = rank[i]
    BY <2>1, <1>8
  <2>3. QED
    BY <2>1, <2>2, <1>5 DEF Injection, IsInjective
<1>10. Those(items, I) = [k \in 1..N |-> items[h[k]]]
  BY DEF Those
<1> HIDE DEF at, rank
<1>11. h \in [1..N -> I]
  BY <1>8
<1>12. \A k, m \in 1..N : h[k] = h[m] => k = m
  BY <1>8
<1>13. \A i \in I : \E k \in 1..N : h[k] = i
  BY <1>9
<1>14. h \in Bijection(1..N, I)
  <2> HIDE DEF h
  <2>1. QED
    BY <1>11, <1>12, <1>13 DEF Bijection, Injection, Surjection, IsInjective
<1> HIDE DEF h
<1>15. Taken(h, Those(items, I), items, I)
  BY <1>10, <1>14 DEF Taken
<1>16. QED
  BY <1>1, <1>15

\* s lists the items at the positions I, each once.
Lists(s, items, I) ==
  /\ IsFiniteSet(I) /\ Cardinality(I) \in Nat
  /\ DOMAIN s = 1..Cardinality(I) /\ Len(s) = Cardinality(I)
  /\ \A k \in DOMAIN s : \E i \in I : s[k] = items[i]
  /\ \A i \in I : \E k \in DOMAIN s : s[k] = items[i]
  /\ s = <<>> <=> I = {}

\* Those lists the items at the positions I.
LEMMA ThoseAre ==
  ASSUME NEW items, NEW n \in Nat, NEW I, I \subseteq 1..n
  PROVE  Lists(Those(items, I), items, I)
<1> DEFINE N == Cardinality(I)
<1>1. IsFiniteSet(I) /\ N \in Nat
  BY ThosePositions
<1>2. PICK h : h \in Bijection(1..N, I) /\ Those(items, I) = [k \in 1..N |-> items[h[k]]]
  <2>1. PICK h : Taken(h, Those(items, I), items, I)
    BY ThosePositions
  <2>2. QED
    BY <2>1 DEF Taken
<1>3. (\A k \in 1..N : h[k] \in I) /\ \A i \in I : \E k \in 1..N : h[k] = i
  BY <1>2 DEF Bijection, Surjection
<1>4. Those(items, I) = <<>> <=> I = {}
  <2>1. N = 0 <=> I = {}
    BY <1>1, FS_EmptySet
  <2>2. ASSUME I = {} PROVE Those(items, I) = <<>>
    BY <2>1, <2>2, <1>2
  <2>3. ASSUME I # {} PROVE Those(items, I) # <<>>
    <3>1. N \in Nat /\ N # 0
      BY <2>1, <2>3, <1>1
    <3>2. 1 \in DOMAIN Those(items, I)
      BY <3>1, <1>2
    <3>3. QED
      BY <3>2
  <2>4. QED
    BY <2>2, <2>3
<1>5. Len(Those(items, I)) = N /\ DOMAIN Those(items, I) = 1..N
  BY <1>1, <1>2
<1>6. \A k \in 1..N : \E i \in I : Those(items, I)[k] = items[i]
  BY <1>2, <1>3
<1>7. \A i \in I : \E k \in 1..N : Those(items, I)[k] = items[i]
  BY <1>2, <1>3
<1>8. QED
  BY <1>1, <1>4, <1>5, <1>6, <1>7 DEF Lists

\* The observations of a kind, in the order listed.
LEMMA OfKindAre ==
  ASSUME NEW ev, NEW n \in Nat, DOMAIN ev.observations = 1..n, NEW kind
  PROVE  Lists(OfKind(ev, kind), ev.observations,
               {i \in 1..n : ev.observations[i].kind = kind})
<1> DEFINE I == {i \in 1..n : ev.observations[i].kind = kind}
<1>1. OfKind(ev, kind) = Those(ev.observations, I)
  BY DEF OfKind, Select
<1>2. Lists(Those(ev.observations, I), ev.observations, I)
  <2>1. I \subseteq 1..n
    OBVIOUS
  <2> HIDE DEF I
  <2>2. QED
    BY <2>1, ThoseAre
<1>3. QED
  BY <1>1, <1>2

\* Evidence about another candidate is found.
LEMMA SubjectVerdict ==
  ASSUME NEW ev, NEW n \in Nat, DOMAIN ev.observations = 1..n
  PROVE  /\ Bare(SubjectGate(ev))
         /\ \/ \A i \in 1..n : ev.observations[i].subject = ev.candidate
            \/ Found(SubjectGate(ev), {"SUBJECT_MISMATCH"})
<1> DEFINE I == {i \in 1..n : ev.observations[i].subject # ev.candidate}
           bad == Those(ev.observations, I)
           r1 == Row(bad # <<>>, "fail", "SUBJECT_MISMATCH", bad)
           r2 == Row(TRUE, "pass", "SUBJECT_BOUND", ev.observations)
           rows == <<r1, r2>>
<1>1. SubjectGate(ev) = Verdict("subject_binding", rows)
  BY DEF SubjectGate, Select
<1>2. r2 # {}
  BY RowHolds
<1>3. \A r \in r1 \cup r2 : r.status \in Status
  BY RowBare DEF Status
<1>4. ASSUME NEW i \in 1..n, ev.observations[i].subject # ev.candidate
      PROVE  r1 # {} /\ \A r \in r1 : Found(r, {"SUBJECT_MISMATCH"})
  <2>1. I # {} /\ I \subseteq 1..n
    BY <1>4
  <2> HIDE DEF I
  <2>2. bad # <<>>
    BY <2>1, ThoseAre DEF Lists
  <2> HIDE DEF bad
  <2>3. r1 # {}
    BY <2>2, RowHolds
  <2>4. QED
    BY <2>3, RowFound
<1>5. 2 \in Nat \ {0} /\ DOMAIN rows = 1..2 /\ rows[1] = r1 /\ rows[2] = r2
  <2> HIDE DEF r1, r2
  <2>1. QED
    OBVIOUS
<1> HIDE DEF r1, r2, rows
<1>6. Bare(SubjectGate(ev))
  <2>1. \A k \in 1..2 : \A r \in rows[k] : r.status \in Status
    BY <1>3, <1>5
  <2>2. QED
    BY <1>1, <1>2, <1>5, <2>1, VerdictBare
<1>7. ASSUME NEW i \in 1..n, ev.observations[i].subject # ev.candidate
      PROVE  Found(SubjectGate(ev), {"SUBJECT_MISMATCH"})
  <2>1. \A k \in 1..1 : \A r \in rows[k] : Found(r, {"SUBJECT_MISMATCH"})
    BY <1>4, <1>7, <1>5
  <2>2. 2 \in Nat /\ 1 \in 1..2 /\ rows[1] # {}
    BY <1>4, <1>7, <1>5
  <2>3. QED
    BY <1>1, <1>5, <2>1, <2>2, VerdictFound
<1>8. QED
  BY <1>6, <1>7

\* Evidence out of its time is found.
LEMMA FreshnessVerdict ==
  ASSUME NEW ev, NEW n \in Nat, DOMAIN ev.observations = 1..n, NEW pol, NEW date
  PROVE  /\ Bare(FreshnessGate(ev, pol, date))
         /\ \/ \A i \in 1..n : /\ ~FromFuture(ev.observations[i].at, date)
                              /\ ~Stale(ev.observations[i].at, date, pol.max_age)
            \/ Found(FreshnessGate(ev, pol, date), {"EVIDENCE_FROM_FUTURE", "EVIDENCE_STALE"})
<1> DEFINE F == {i \in 1..n : FromFuture(ev.observations[i].at, date)}
           S == {i \in 1..n : Stale(ev.observations[i].at, date, pol.max_age)}
           future == Those(ev.observations, F)
           stale == Those(ev.observations, S)
           r1 == Row(future # <<>>, "fail", "EVIDENCE_FROM_FUTURE", future)
           r2 == Row(stale # <<>>, "unknown", "EVIDENCE_STALE", stale)
           r3 == Row(TRUE, "pass", "EVIDENCE_FRESH", ev.observations)
           rows == <<r1, r2, r3>>
<1>1. FreshnessGate(ev, pol, date) = Verdict("freshness", rows)
  BY DEF FreshnessGate, Select
<1>2. r3 # {}
  BY RowHolds
<1>3. \A r \in r1 \cup r2 \cup r3 : r.status \in Status
  BY RowBare DEF Status
<1>4. ASSUME NEW i \in 1..n, FromFuture(ev.observations[i].at, date)
      PROVE  r1 # {} /\ \A r \in r1 : Found(r, {"EVIDENCE_FROM_FUTURE", "EVIDENCE_STALE"})
  <2>1. F # {} /\ F \subseteq 1..n
    BY <1>4
  <2> HIDE DEF F
  <2>2. future # <<>>
    BY <2>1, ThoseAre DEF Lists
  <2> HIDE DEF future
  <2>3. r1 # {}
    BY <2>2, RowHolds
  <2>4. QED
    BY <2>3, RowFound
<1>5. ASSUME NEW i \in 1..n, Stale(ev.observations[i].at, date, pol.max_age)
      PROVE  r2 # {} /\ \A r \in r1 \cup r2 : Found(r, {"EVIDENCE_FROM_FUTURE", "EVIDENCE_STALE"})
  <2>1. S # {} /\ S \subseteq 1..n
    BY <1>5
  <2> HIDE DEF S
  <2>2. stale # <<>>
    BY <2>1, ThoseAre DEF Lists
  <2> HIDE DEF stale
  <2>3. r2 # {}
    BY <2>2, RowHolds
  <2>4. QED
    BY <2>3, RowFound
<1>6. /\ 3 \in Nat \ {0} /\ DOMAIN rows = 1..3
      /\ rows[1] = r1 /\ rows[2] = r2 /\ rows[3] = r3
  <2> HIDE DEF r1, r2, r3
  <2>1. QED
    OBVIOUS
<1> HIDE DEF r1, r2, r3, rows
<1>7. Bare(FreshnessGate(ev, pol, date))
  <2>1. \A k \in 1..3 : \A r \in rows[k] : r.status \in Status
    BY <1>3, <1>6
  <2>2. QED
    BY <1>1, <1>2, <1>6, <2>1, VerdictBare
<1>8. ASSUME NEW i \in 1..n, FromFuture(ev.observations[i].at, date)
      PROVE  Found(FreshnessGate(ev, pol, date), {"EVIDENCE_FROM_FUTURE", "EVIDENCE_STALE"})
  <2>1. \A k \in 1..1 : \A r \in rows[k] : Found(r, {"EVIDENCE_FROM_FUTURE", "EVIDENCE_STALE"})
    BY <1>4, <1>8, <1>6
  <2>2. 3 \in Nat /\ 1 \in 1..3 /\ rows[1] # {}
    BY <1>4, <1>8, <1>6
  <2>3. QED
    BY <1>1, <1>6, <2>1, <2>2, VerdictFound
<1>9. ASSUME NEW i \in 1..n, Stale(ev.observations[i].at, date, pol.max_age)
      PROVE  Found(FreshnessGate(ev, pol, date), {"EVIDENCE_FROM_FUTURE", "EVIDENCE_STALE"})
  <2>1. \A k \in 1..2 : \A r \in rows[k] : Found(r, {"EVIDENCE_FROM_FUTURE", "EVIDENCE_STALE"})
    BY <1>5, <1>9, <1>6
  <2>2. 3 \in Nat /\ 2 \in 1..3 /\ rows[2] # {}
    BY <1>5, <1>9, <1>6
  <2>3. QED
    BY <1>1, <1>6, <2>1, <2>2, VerdictFound
<1>10. QED
  BY <1>7, <1>8, <1>9

\* Evidence whose signature does not verify is found.
LEMMA AuthenticityVerdict ==
  ASSUME NEW ev, NEW n \in Nat, DOMAIN ev.observations = 1..n, NEW pol
  PROVE  /\ Bare(AuthenticityGate(ev, pol))
         /\ \/ \A i \in 1..n : Verified(ev.observations[i].trust, "evidence")
            \/ Found(AuthenticityGate(ev, pol), {"EVIDENCE_UNAUTHENTICATED"})
<1> DEFINE I == {i \in 1..n : ~Verified(ev.observations[i].trust, "evidence")}
           invalid == Those(ev.observations, I)
           policy_bad == Mismatches(ev.observations, pol)
           r1 == Row(invalid # <<>>, "unknown", "EVIDENCE_UNAUTHENTICATED", invalid)
           r2 == Row(policy_bad # <<>>, "fail", "ATTESTATION_POLICY_MISMATCH", policy_bad)
           r3 == Row(TRUE, "pass", "EVIDENCE_AUTHENTICATED", ev.observations)
           rows == <<r1, r2, r3>>
<1>1. AuthenticityGate(ev, pol) = Verdict("authenticity", rows)
  BY DEF AuthenticityGate, Select
<1>2. r3 # {}
  BY RowHolds
<1>3. \A r \in r1 \cup r2 \cup r3 : r.status \in Status
  BY RowBare DEF Status
<1>4. ASSUME NEW i \in 1..n, ~Verified(ev.observations[i].trust, "evidence")
      PROVE  r1 # {} /\ \A r \in r1 : Found(r, {"EVIDENCE_UNAUTHENTICATED"})
  <2>1. I # {} /\ I \subseteq 1..n
    BY <1>4
  <2> HIDE DEF I
  <2>2. invalid # <<>>
    BY <2>1, ThoseAre DEF Lists
  <2> HIDE DEF invalid
  <2>3. r1 # {}
    BY <2>2, RowHolds
  <2>4. QED
    BY <2>3, RowFound
<1>5. /\ 3 \in Nat \ {0} /\ DOMAIN rows = 1..3
      /\ rows[1] = r1 /\ rows[2] = r2 /\ rows[3] = r3
  <2> HIDE DEF r1, r2, r3
  <2>1. QED
    OBVIOUS
<1> HIDE DEF r1, r2, r3, rows
<1>6. Bare(AuthenticityGate(ev, pol))
  <2>1. \A k \in 1..3 : \A r \in rows[k] : r.status \in Status
    BY <1>3, <1>5
  <2>2. QED
    BY <1>1, <1>2, <1>5, <2>1, VerdictBare
<1>7. ASSUME NEW i \in 1..n, ~Verified(ev.observations[i].trust, "evidence")
      PROVE  Found(AuthenticityGate(ev, pol), {"EVIDENCE_UNAUTHENTICATED"})
  <2>1. \A k \in 1..1 : \A r \in rows[k] : Found(r, {"EVIDENCE_UNAUTHENTICATED"})
    BY <1>4, <1>7, <1>5
  <2>2. 3 \in Nat /\ 1 \in 1..3 /\ rows[1] # {}
    BY <1>4, <1>7, <1>5
  <2>3. QED
    BY <1>1, <1>5, <2>1, <2>2, VerdictFound
<1>8. QED
  BY <1>6, <1>7

\* Two artifacts of one name are found.
LEMMA ArtifactVerdict ==
  ASSUME NEW ev, NEW pol
  PROVE  /\ Bare(ArtifactGate(ev, pol))
         /\ \/ OfKind(ev, "artifact") = <<>>
            \/ Cardinality(Names(OfKind(ev, "artifact"))) = Len(OfKind(ev, "artifact"))
            \/ Found(ArtifactGate(ev, pol), {"ARTIFACT_BINDING_MISMATCH"})
<1> DEFINE items == OfKind(ev, "artifact")
           versions == {items[i].payload.version : i \in DOMAIN items}
           r1 == Row(items = <<>> /\ pol.require_artifact, "unknown", "ARTIFACT_MISSING", <<>>)
           r2 == Row(items = <<>>, "pass", "ARTIFACT_OPTIONAL", <<>>)
           r3 == Row(Cardinality(Names(items)) # Len(items),
                     "fail", "ARTIFACT_BINDING_MISMATCH", items)
           r4 == Row(Names(items) # pol.artifacts, "fail", "ARTIFACT_SET_MISMATCH", items)
           r5 == Row(versions # {pol.version}, "fail", "ARTIFACT_VERSION_MISMATCH", items)
           r6 == Row(\E i \in DOMAIN items : ~items[i].payload.install_tested,
                     "unknown", "ARTIFACT_NOT_INSTALL_TESTED", items)
           r7 == Row(TRUE, "pass", "ARTIFACT_VERIFIED", items)
           rows == <<r1, r2, r3, r4, r5, r6, r7>>
<1>1. ArtifactGate(ev, pol) = Verdict("artifact", rows)
  BY DEF ArtifactGate
<1>2. r7 # {}
  BY RowHolds
<1>3. \A r \in r1 \cup r2 \cup r3 \cup r4 \cup r5 \cup r6 \cup r7 : r.status \in Status
  <2>1. \A r \in r1 \cup r2 \cup r3 : r.status \in Status
    BY RowBare DEF Status
  <2>2. \A r \in r4 \cup r5 \cup r6 \cup r7 : r.status \in Status
    BY RowBare DEF Status
  <2> HIDE DEF r1, r2, r3, r4, r5, r6, r7
  <2>3. QED
    BY <2>1, <2>2
<1>4. ASSUME items # <<>>, Cardinality(Names(items)) # Len(items)
      PROVE  /\ r3 # {} /\ r1 = {} /\ r2 = {}
             /\ \A r \in r1 \cup r2 \cup r3 :
                  Found(r, {"ARTIFACT_BINDING_MISMATCH"})
  <2>1. r3 # {} /\ r2 = {} /\ r1 = {}
    BY <1>4, RowHolds
  <2>2. QED
    BY <2>1, RowFound
<1>5. /\ 7 \in Nat \ {0} /\ DOMAIN rows = 1..7
      /\ rows[1] = r1 /\ rows[2] = r2 /\ rows[3] = r3 /\ rows[4] = r4
      /\ rows[5] = r5 /\ rows[6] = r6 /\ rows[7] = r7
  <2> HIDE DEF r1, r2, r3, r4, r5, r6, r7
  <2>1. QED
    OBVIOUS
<1> HIDE DEF r1, r2, r3, r4, r5, r6, r7, rows
<1>6. Bare(ArtifactGate(ev, pol))
  <2>1. \A k \in 1..7 : \A r \in rows[k] : r.status \in Status
    BY <1>3, <1>5
  <2>2. QED
    BY <1>1, <1>2, <1>5, <2>1, VerdictBare
<1>7. ASSUME items # <<>>, Cardinality(Names(items)) # Len(items)
      PROVE  Found(ArtifactGate(ev, pol), {"ARTIFACT_BINDING_MISMATCH"})
  <2>1. \A k \in 1..3 : \A r \in rows[k] : Found(r, {"ARTIFACT_BINDING_MISMATCH"})
    BY <1>4, <1>7, <1>5
  <2>2. 7 \in Nat /\ 3 \in 1..7 /\ rows[3] # {}
    BY <1>4, <1>7, <1>5
  <2>3. QED
    BY <1>1, <1>5, <2>1, <2>2, VerdictFound
<1>8. QED
  BY <1>6, <1>7

\* A bill of materials that is not bound to the artifacts is found.
LEMMA SbomVerdict ==
  ASSUME NEW ev, NEW pol
  PROVE  /\ Bare(SbomGate(ev, pol))
         /\ \/ OfKind(ev, "sbom") = <<>>
            \/ Binds(OfKind(ev, "sbom"), ArtifactMap(ev))
            \/ Found(SbomGate(ev, pol), {"ARTIFACT_BINDING_MISMATCH"})
<1> DEFINE items == OfKind(ev, "sbom")
           r1 == Row(items = <<>> /\ pol.require_sbom, "unknown", "SBOM_MISSING", <<>>)
           r2 == Row(items = <<>>, "pass", "SBOM_OPTIONAL", <<>>)
           r3 == Row(~Binds(items, ArtifactMap(ev)), "fail", "ARTIFACT_BINDING_MISMATCH", items)
           r4 == Row(TRUE, "pass", "SBOM_BOUND", items)
           rows == <<r1, r2, r3, r4>>
<1>1. SbomGate(ev, pol) = Verdict("sbom", rows)
  BY DEF SbomGate
<1>2. r4 # {}
  BY RowHolds
<1>3. \A r \in r1 \cup r2 \cup r3 \cup r4 : r.status \in Status
  <2>1. \A r \in r1 \cup r2 : r.status \in Status
    BY RowBare DEF Status
  <2>2. \A r \in r3 \cup r4 : r.status \in Status
    BY RowBare DEF Status
  <2> HIDE DEF r1, r2, r3, r4
  <2>3. QED
    BY <2>1, <2>2
<1>4. ASSUME items # <<>>, ~Binds(items, ArtifactMap(ev))
      PROVE  /\ r3 # {} /\ r1 = {} /\ r2 = {}
             /\ \A r \in r1 \cup r2 \cup r3 :
                  Found(r, {"ARTIFACT_BINDING_MISMATCH"})
  <2>1. r3 # {} /\ r2 = {} /\ r1 = {}
    BY <1>4, RowHolds
  <2>2. QED
    BY <2>1, RowFound
<1>5. /\ 4 \in Nat \ {0} /\ DOMAIN rows = 1..4
      /\ rows[1] = r1 /\ rows[2] = r2 /\ rows[3] = r3 /\ rows[4] = r4
  <2> HIDE DEF r1, r2, r3, r4
  <2>1. QED
    OBVIOUS
<1> HIDE DEF r1, r2, r3, r4, rows
<1>6. Bare(SbomGate(ev, pol))
  <2>1. \A k \in 1..4 : \A r \in rows[k] : r.status \in Status
    BY <1>3, <1>5
  <2>2. QED
    BY <1>1, <1>2, <1>5, <2>1, VerdictBare
<1>7. ASSUME items # <<>>, ~Binds(items, ArtifactMap(ev))
      PROVE  Found(SbomGate(ev, pol), {"ARTIFACT_BINDING_MISMATCH"})
  <2>1. \A k \in 1..3 : \A r \in rows[k] : Found(r, {"ARTIFACT_BINDING_MISMATCH"})
    BY <1>4, <1>7, <1>5
  <2>2. 4 \in Nat /\ 3 \in 1..4 /\ rows[3] # {}
    BY <1>4, <1>7, <1>5
  <2>3. QED
    BY <1>1, <1>5, <2>1, <2>2, VerdictFound
<1>8. QED
  BY <1>6, <1>7

\* Provenance that is not bound to the artifacts is found.
LEMMA ProvenanceVerdict ==
  ASSUME NEW ev, NEW pol
  PROVE  /\ Bare(ProvenanceGate(ev, pol))
         /\ \/ OfKind(ev, "provenance") = <<>>
            \/ Binds(OfKind(ev, "provenance"), ArtifactMap(ev))
            \/ Found(ProvenanceGate(ev, pol), {"ARTIFACT_BINDING_MISMATCH"})
<1> DEFINE items == OfKind(ev, "provenance")
           foreign == \E i \in DOMAIN items :
                        \/ items[i].payload.candidate # ev.candidate
                        \/ items[i].payload.version # pol.version
           r1 == Row(items = <<>>, "unknown", "PROVENANCE_MISSING", <<>>)
           r2 == Row(foreign \/ ~Binds(items, ArtifactMap(ev)),
                     "fail", "ARTIFACT_BINDING_MISMATCH", items)
           r3 == Row(TRUE, "pass", "PROVENANCE_BOUND", items)
           rows == <<r1, r2, r3>>
<1>1. ProvenanceGate(ev, pol) = Verdict("provenance", rows)
  BY DEF ProvenanceGate
<1>2. r3 # {}
  BY RowHolds
<1>3. \A r \in r1 \cup r2 \cup r3 : r.status \in Status
  BY RowBare DEF Status
<1>4. ASSUME items # <<>>, ~Binds(items, ArtifactMap(ev))
      PROVE  r2 # {} /\ r1 = {} /\ \A r \in r1 \cup r2 : Found(r, {"ARTIFACT_BINDING_MISMATCH"})
  <2>1. r2 # {} /\ r1 = {}
    BY <1>4, RowHolds
  <2>2. QED
    BY <2>1, RowFound
<1>5. /\ 3 \in Nat \ {0} /\ DOMAIN rows = 1..3
      /\ rows[1] = r1 /\ rows[2] = r2 /\ rows[3] = r3
  <2> HIDE DEF r1, r2, r3
  <2>1. QED
    OBVIOUS
<1> HIDE DEF r1, r2, r3, rows
<1>6. Bare(ProvenanceGate(ev, pol))
  <2>1. \A k \in 1..3 : \A r \in rows[k] : r.status \in Status
    BY <1>3, <1>5
  <2>2. QED
    BY <1>1, <1>2, <1>5, <2>1, VerdictBare
<1>7. ASSUME items # <<>>, ~Binds(items, ArtifactMap(ev))
      PROVE  Found(ProvenanceGate(ev, pol), {"ARTIFACT_BINDING_MISMATCH"})
  <2>1. \A k \in 1..2 : \A r \in rows[k] : Found(r, {"ARTIFACT_BINDING_MISMATCH"})
    BY <1>4, <1>7, <1>5
  <2>2. 3 \in Nat /\ 2 \in 1..3 /\ rows[2] # {}
    BY <1>4, <1>7, <1>5
  <2>3. QED
    BY <1>1, <1>5, <2>1, <2>2, VerdictFound
<1>8. QED
  BY <1>6, <1>7

\* Enough builds that did not make the artifacts released are found.
LEMMA ReproducibilityVerdict ==
  ASSUME NEW ev, NEW pol
  PROVE  /\ Bare(ReproducibilityGate(ev, pol))
         /\ LET items == OfKind(ev, "build_manifest")
                released == OfKind(ev, "artifact")
            IN  \/ Len(items) < pol.min_builds
                \/ \A i \in DOMAIN items :
                     {<<a.name, a.digest>> : a \in items[i].payload.artifacts} =
                     {<<released[j].payload.name, released[j].payload.digest>> :
                        j \in DOMAIN released}
                \/ Found(ReproducibilityGate(ev, pol), {"REPRODUCIBILITY_MISMATCH"})
<1> DEFINE items == OfKind(ev, "build_manifest")
           few == Len(items) < pol.min_builds
           released == OfKind(ev, "artifact")
           release_set == {<<released[i].payload.name, released[i].payload.digest>> :
                             i \in DOMAIN released}
           shapes == {items[i].payload.artifacts : i \in DOMAIN items}
           observed(shape) == {<<a.name, a.digest>> : a \in shape}
           environments == {items[i].payload.environment : i \in DOMAIN items}
           authorities == {items[i].trust.authority : i \in DOMAIN items}
           r1 == Row(few, "unknown", "REPRO_BUILDS_INSUFFICIENT", items)
           r2 == Row(\/ Cardinality(shapes) # 1
                     \/ \E shape \in shapes : observed(shape) # release_set,
                     "fail", "REPRODUCIBILITY_MISMATCH", items)
           r3 == Row(Cardinality(environments) < 2,
                     "unknown", "REPRO_ENVIRONMENTS_INSUFFICIENT", items)
           r4 == Row(Cardinality(authorities) < pol.min_authorities,
                     "unknown", "REPRO_AUTHORITIES_INSUFFICIENT", items)
           r5 == Row(TRUE, "pass", "REPRODUCIBLE", items)
           rows == <<r1, r2, r3, r4, r5>>
<1>1. ReproducibilityGate(ev, pol) = Verdict("reproducibility", rows)
  BY DEF ReproducibilityGate
<1>2. r5 # {}
  BY RowHolds
<1>3. \A r \in r1 \cup r2 \cup r3 \cup r4 \cup r5 : r.status \in Status
  <2>1. \A r \in r1 \cup r2 : r.status \in Status
    BY RowBare DEF Status
  <2>2. \A r \in r3 \cup r4 \cup r5 : r.status \in Status
    BY RowBare DEF Status
  <2> HIDE DEF r1, r2, r3, r4, r5
  <2>3. QED
    BY <2>1, <2>2
<1>4. ASSUME ~(Len(items) < pol.min_builds), NEW i \in DOMAIN items,
             observed(items[i].payload.artifacts) # release_set
      PROVE  r2 # {} /\ r1 = {} /\ \A r \in r1 \cup r2 : Found(r, {"REPRODUCIBILITY_MISMATCH"})
  <2>1. \E shape \in shapes : observed(shape) # release_set
    BY <1>4
  <2> HIDE DEF shapes, observed, release_set
  <2>2. r2 # {}
    BY <2>1, RowHolds
  <2>3. r1 = {}
    <3>1. ~few
      BY <1>4
    <3> HIDE DEF few
    <3>2. QED
      BY <3>1 DEF Row
  <2>4. QED
    BY <2>2, <2>3, RowFound
<1>5. /\ 5 \in Nat \ {0} /\ DOMAIN rows = 1..5
      /\ rows[1] = r1 /\ rows[2] = r2 /\ rows[3] = r3 /\ rows[4] = r4
      /\ rows[5] = r5
  <2> HIDE DEF r1, r2, r3, r4, r5
  <2>1. QED
    OBVIOUS
<1> HIDE DEF r1, r2, r3, r4, r5, rows
<1>6. Bare(ReproducibilityGate(ev, pol))
  <2>1. \A k \in 1..5 : \A r \in rows[k] : r.status \in Status
    BY <1>3, <1>5
  <2>2. QED
    BY <1>1, <1>2, <1>5, <2>1, VerdictBare
<1>7. ASSUME ~(Len(items) < pol.min_builds), NEW i \in DOMAIN items,
             observed(items[i].payload.artifacts) # release_set
      PROVE  Found(ReproducibilityGate(ev, pol), {"REPRODUCIBILITY_MISMATCH"})
  <2>1. \A k \in 1..2 : \A r \in rows[k] : Found(r, {"REPRODUCIBILITY_MISMATCH"})
    BY <1>4, <1>7, <1>5
  <2>2. 5 \in Nat /\ 2 \in 1..5 /\ rows[2] # {}
    BY <1>4, <1>7, <1>5
  <2>3. QED
    BY <1>1, <1>5, <2>1, <2>2, VerdictFound
<1>8. QED
  BY <1>6, <1>7

\* The gate on the matrix is bare.
LEMMA CIMatrixVerdict ==
  ASSUME NEW ev, NEW pol
  PROVE  Bare(CIMatrixGate(ev, pol))
<1> DEFINE items == OfKind(ev, "ci_run")
           seen == {key \in Required(pol) : Attempts(ev, key) # <<>>}
           status_bad == Select(items, LAMBDA o :
             \E key \in seen : o = Latest(Attempts(ev, key)) /\ o.payload.status # "passed")
           proven == \E i \in DOMAIN status_bad :
                       status_bad[i].payload.status \in {"failed", "timed_out"}
           r1 == Row(seen # Required(pol), "unknown", "CI_MATRIX_INCOMPLETE", items)
           r2 == Row(proven, "fail", "CI_REQUIRED_CHECK_NOT_PASSING", status_bad)
           r3 == Row(status_bad # <<>>, "unknown", "CI_REQUIRED_CHECK_NOT_PASSING", status_bad)
           r4 == Row(TRUE, "pass", "CI_MATRIX_PASSING", items)
           rows == <<r1, r2, r3, r4>>
<1>1. CIMatrixGate(ev, pol) = Verdict("ci_matrix", rows)
  BY DEF CIMatrixGate, Select
<1>2. r4 # {}
  BY RowHolds
<1>3. \A r \in r1 \cup r2 \cup r3 \cup r4 : r.status \in Status
  <2>1. \A r \in r1 \cup r2 : r.status \in Status
    BY RowBare DEF Status
  <2>2. \A r \in r3 \cup r4 : r.status \in Status
    BY RowBare DEF Status
  <2> HIDE DEF r1, r2, r3, r4
  <2>3. QED
    BY <2>1, <2>2
<1>4. /\ 4 \in Nat \ {0} /\ DOMAIN rows = 1..4
      /\ rows[1] = r1 /\ rows[2] = r2 /\ rows[3] = r3 /\ rows[4] = r4
  <2> HIDE DEF r1, r2, r3, r4
  <2>1. QED
    OBVIOUS
<1> HIDE DEF r1, r2, r3, r4, rows
<1>5. Bare(CIMatrixGate(ev, pol))
  <2>1. \A k \in 1..4 : \A r \in rows[k] : r.status \in Status
    BY <1>3, <1>4
  <2>2. QED
    BY <1>1, <1>2, <1>4, <2>1, VerdictBare
<1>6. QED
  BY <1>5

\* The gate on the cache is bare.
LEMMA CICacheVerdict ==
  ASSUME NEW ev
  PROVE  Bare(CICacheGate(ev))
<1> DEFINE items == OfKind(ev, "ci_run")
           unsafe == Select(items, LAMBDA o : o.payload.cache_hit /\ ~o.payload.cache_bound)
           r1 == Row(unsafe # <<>>, "fail", "CI_CACHE_UNBOUND", unsafe)
           r2 == Row(TRUE, "pass", "CI_CACHE_BOUND", items)
           rows == <<r1, r2>>
<1>1. CICacheGate(ev) = Verdict("ci_cache", rows)
  BY DEF CICacheGate, Select
<1>2. r2 # {}
  BY RowHolds
<1>3. \A r \in r1 \cup r2 : r.status \in Status
  BY RowBare DEF Status
<1>4. 2 \in Nat \ {0} /\ DOMAIN rows = 1..2 /\ rows[1] = r1 /\ rows[2] = r2
  <2> HIDE DEF r1, r2
  <2>1. QED
    OBVIOUS
<1> HIDE DEF r1, r2, rows
<1>5. Bare(CICacheGate(ev))
  <2>1. \A k \in 1..2 : \A r \in rows[k] : r.status \in Status
    BY <1>3, <1>4
  <2>2. QED
    BY <1>1, <1>2, <1>4, <2>1, VerdictBare
<1>6. QED
  BY <1>5

\* The gate on flakiness is bare.
LEMMA FlakinessVerdict ==
  ASSUME NEW ev, NEW pol
  PROVE  Bare(FlakinessGate(ev, pol))
<1> DEFINE items == OfKind(ev, "ci_run")
           seen == {key \in Required(pol) : Attempts(ev, key) # <<>>}
           among(keys) == Select(items, LAMBDA o :
                            <<o.payload.check, o.payload.matrix>> \in keys)
           sparse == among({key \in seen : TooFewRuns(Attempts(ev, key), pol)})
           flaky == among({key \in seen : FlakeRateExceeded(Attempts(ev, key), pol)})
           r1 == Row(sparse # <<>>, "unknown", "FLAKE_SAMPLES_INSUFFICIENT", sparse)
           r2 == Row(flaky # <<>>, "fail", "FLAKE_RATE_EXCEEDED", flaky)
           r3 == Row(TRUE, "pass", "FLAKE_RATE_ACCEPTABLE", items)
           rows == <<r1, r2, r3>>
<1>1. FlakinessGate(ev, pol) = Verdict("flakiness", rows)
  BY DEF FlakinessGate, Select
<1>2. r3 # {}
  BY RowHolds
<1>3. \A r \in r1 \cup r2 \cup r3 : r.status \in Status
  BY RowBare DEF Status
<1>4. /\ 3 \in Nat \ {0} /\ DOMAIN rows = 1..3
      /\ rows[1] = r1 /\ rows[2] = r2 /\ rows[3] = r3
  <2> HIDE DEF r1, r2, r3
  <2>1. QED
    OBVIOUS
<1> HIDE DEF r1, r2, r3, rows
<1>5. Bare(FlakinessGate(ev, pol))
  <2>1. \A k \in 1..3 : \A r \in rows[k] : r.status \in Status
    BY <1>3, <1>4
  <2>2. QED
    BY <1>1, <1>2, <1>4, <2>1, VerdictBare
<1>6. QED
  BY <1>5

\* The gate on the tests is bare.
LEMMA TestsVerdict ==
  ASSUME NEW ev, NEW pol
  PROVE  Bare(TestsGate(ev, pol))
<1> DEFINE items == OfKind(ev, "test_summary")
           suites == {items[i].payload.suite : i \in DOMAIN items}
           bad == Select(items, LAMBDA o : o.payload.failed > 0 \/ o.payload.truncated)
           executed == Sum(items, LAMBDA o : o.payload.passed + o.payload.failed)
           r1 == Row(items = <<>>, "unknown", "TEST_EVIDENCE_MISSING", <<>>)
           r2 == Row(~(pol.suites \subseteq suites), "unknown", "TEST_SUITES_MISSING", items)
           r3 == Row(bad # <<>>, "fail", "TEST_EVIDENCE_FAILED", bad)
           r4 == Row(executed < pol.min_tests, "unknown", "TEST_COUNT_INSUFFICIENT", items)
           r5 == Row(TRUE, "pass", "TESTS_PASSING", items)
           rows == <<r1, r2, r3, r4, r5>>
<1>1. TestsGate(ev, pol) = Verdict("tests", rows)
  BY DEF TestsGate, Select, Sum
<1>2. r5 # {}
  BY RowHolds
<1>3. \A r \in r1 \cup r2 \cup r3 \cup r4 \cup r5 : r.status \in Status
  <2>1. \A r \in r1 \cup r2 : r.status \in Status
    BY RowBare DEF Status
  <2>2. \A r \in r3 \cup r4 \cup r5 : r.status \in Status
    BY RowBare DEF Status
  <2> HIDE DEF r1, r2, r3, r4, r5
  <2>3. QED
    BY <2>1, <2>2
<1>4. /\ 5 \in Nat \ {0} /\ DOMAIN rows = 1..5
      /\ rows[1] = r1 /\ rows[2] = r2 /\ rows[3] = r3 /\ rows[4] = r4
      /\ rows[5] = r5
  <2> HIDE DEF r1, r2, r3, r4, r5
  <2>1. QED
    OBVIOUS
<1> HIDE DEF r1, r2, r3, r4, r5, rows
<1>5. Bare(TestsGate(ev, pol))
  <2>1. \A k \in 1..5 : \A r \in rows[k] : r.status \in Status
    BY <1>3, <1>4
  <2>2. QED
    BY <1>1, <1>2, <1>4, <2>1, VerdictBare
<1>6. QED
  BY <1>5

\* What may be wrong with a drill, or with an observation of a deployment, in time.
RollbackCodes ==
  {"ARTIFACT_BINDING_MISMATCH", "ROLLBACK_FROM_FUTURE", "ROLLBACK_STALE"}
DeploymentCodes ==
  {"ARTIFACT_BINDING_MISMATCH", "DEPLOY_ENVIRONMENT_MISMATCH", "DEPLOY_OBSERVATION_STALE"}

\* A drill of something else, or out of its time, is found.
LEMMA RollbackVerdict ==
  ASSUME NEW ev, NEW pol, NEW date, OfKind(ev, "rollback_drill") # <<>>
  PROVE  LET drill == OfKind(ev, "rollback_drill")[1].payload
         IN  /\ Bare(RollbackGate(ev, pol, date))
             /\ \/ drill.digest \in Digests(ev)
                \/ Found(RollbackGate(ev, pol, date), {"ARTIFACT_BINDING_MISMATCH"})
             /\ \/ ~FromFuture(drill.at, date) /\ ~Stale(drill.at, date, pol.rollback_max_age)
                \/ Found(RollbackGate(ev, pol, date), RollbackCodes)
<1> DEFINE items == OfKind(ev, "rollback_drill")
           drill == items[1].payload
           r1 == Row(drill.digest \notin Digests(ev),
                     "fail", "ARTIFACT_BINDING_MISMATCH", items)
           r2 == Row(FromFuture(drill.at, date), "fail", "ROLLBACK_FROM_FUTURE", items)
           r3 == Row(Stale(drill.at, date, pol.rollback_max_age),
                     "unknown", "ROLLBACK_STALE", items)
           r4 == Row(drill.environment # pol.environment,
                     "fail", "ROLLBACK_ENVIRONMENT_MISMATCH", items)
           r5 == Row(drill.status = "failed", "fail", "ROLLBACK_NOT_PASSING", items)
           r6 == Row(drill.status # "passed", "unknown", "ROLLBACK_NOT_PASSING", items)
           r7 == Row(drill.minutes > pol.max_rollback_minutes,
                     "fail", "ROLLBACK_TOO_SLOW", items)
           r8 == Row(TRUE, "pass", "ROLLBACK_READY", items)
           rows == <<r1, r2, r3, r4, r5, r6, r7, r8>>
<1>1. RollbackGate(ev, pol, date) = Verdict("rollback", rows)
  BY DEF RollbackGate
<1>2. r8 # {}
  BY RowHolds
<1>3. \A r \in r1 \cup r2 \cup r3 \cup r4 \cup r5 \cup r6 \cup r7 \cup r8 : r.status \in Status
  <2>1. \A r \in r1 \cup r2 \cup r3 \cup r4 : r.status \in Status
    BY RowBare DEF Status
  <2>2. \A r \in r5 \cup r6 \cup r7 \cup r8 : r.status \in Status
    BY RowBare DEF Status
  <2> HIDE DEF r1, r2, r3, r4, r5, r6, r7, r8
  <2>3. QED
    BY <2>1, <2>2
<1>4. ASSUME drill.digest \notin Digests(ev)
      PROVE  r1 # {} /\ \A r \in r1 : Found(r, {"ARTIFACT_BINDING_MISMATCH"})
  <2>1. r1 # {}
    BY <1>4, RowHolds
  <2>2. QED
    BY <2>1, RowFound
<1>5. ASSUME FromFuture(drill.at, date)
      PROVE  /\ r2 # {}
             /\ \A r \in r1 \cup r2 :
                  Found(r, RollbackCodes)
  <2>1. r2 # {}
    BY <1>5, RowHolds
  <2>2. QED
    BY <2>1, RowFound DEF RollbackCodes
<1>6. ASSUME Stale(drill.at, date, pol.rollback_max_age)
      PROVE  /\ r3 # {}
             /\ \A r \in r1 \cup r2 \cup r3 :
                  Found(r, RollbackCodes)
  <2>1. r3 # {}
    BY <1>6, RowHolds
  <2>2. QED
    BY <2>1, RowFound DEF RollbackCodes
<1>7. /\ 8 \in Nat \ {0} /\ DOMAIN rows = 1..8
      /\ rows[1] = r1 /\ rows[2] = r2 /\ rows[3] = r3 /\ rows[4] = r4
      /\ rows[5] = r5 /\ rows[6] = r6 /\ rows[7] = r7 /\ rows[8] = r8
  <2> HIDE DEF r1, r2, r3, r4, r5, r6, r7, r8
  <2>1. QED
    OBVIOUS
<1> HIDE DEF r1, r2, r3, r4, r5, r6, r7, r8, rows
<1>8. Bare(RollbackGate(ev, pol, date))
  <2>1. \A k \in 1..8 : \A r \in rows[k] : r.status \in Status
    BY <1>3, <1>7
  <2>2. QED
    BY <1>1, <1>2, <1>7, <2>1, VerdictBare
<1>9. ASSUME drill.digest \notin Digests(ev)
      PROVE  Found(RollbackGate(ev, pol, date), {"ARTIFACT_BINDING_MISMATCH"})
  <2>1. \A k \in 1..1 : \A r \in rows[k] : Found(r, {"ARTIFACT_BINDING_MISMATCH"})
    BY <1>4, <1>9, <1>7
  <2>2. 8 \in Nat /\ 1 \in 1..8 /\ rows[1] # {}
    BY <1>4, <1>9, <1>7
  <2>3. QED
    BY <1>1, <1>7, <2>1, <2>2, VerdictFound
<1>10. ASSUME FromFuture(drill.at, date)
      PROVE  Found(RollbackGate(ev, pol, date), RollbackCodes)
  <2>1. \A k \in 1..2 : \A r \in rows[k] : Found(r, RollbackCodes)
    BY <1>5, <1>10, <1>7
  <2>2. 8 \in Nat /\ 2 \in 1..8 /\ rows[2] # {}
    BY <1>5, <1>10, <1>7
  <2>3. QED
    BY <1>1, <1>7, <2>1, <2>2, VerdictFound
<1>11. ASSUME Stale(drill.at, date, pol.rollback_max_age)
      PROVE  Found(RollbackGate(ev, pol, date), RollbackCodes)
  <2>1. \A k \in 1..3 : \A r \in rows[k] : Found(r, RollbackCodes)
    BY <1>6, <1>11, <1>7
  <2>2. 8 \in Nat /\ 3 \in 1..8 /\ rows[3] # {}
    BY <1>6, <1>11, <1>7
  <2>3. QED
    BY <1>1, <1>7, <2>1, <2>2, VerdictFound
<1>12. QED
  BY <1>8, <1>9, <1>10, <1>11

\* An observation of something else, or out of its time, is found.
LEMMA DeploymentVerdict ==
  ASSUME NEW ev, NEW pol, NEW date, OfKind(ev, "deploy_observation") # <<>>
  PROVE  LET seen == OfKind(ev, "deploy_observation")[1].payload
         IN  /\ Bare(DeploymentGate(ev, pol, date))
             /\ \/ seen.digest \in Digests(ev)
                \/ Found(DeploymentGate(ev, pol, date), {"ARTIFACT_BINDING_MISMATCH"})
             /\ \/ ~FromFuture(seen.at, date) /\ ~Stale(seen.at, date, pol.max_age)
                \/ Found(DeploymentGate(ev, pol, date), DeploymentCodes)
<1> DEFINE items == OfKind(ev, "deploy_observation")
           seen == items[1].payload
           r1 == Row(seen.digest \notin Digests(ev) \/ seen.release # ev.release,
                     "fail", "ARTIFACT_BINDING_MISMATCH", items)
           r2 == Row(seen.environment # pol.environment,
                     "fail", "DEPLOY_ENVIRONMENT_MISMATCH", items)
           r3 == Row(FromFuture(seen.at, date) \/ Stale(seen.at, date, pol.max_age),
                     "unknown", "DEPLOY_OBSERVATION_STALE", items)
           r4 == Row(seen.status # "observed", "unknown", "DEPLOY_STATUS_UNKNOWN", items)
           r5 == Row(TRUE, "pass", "DEPLOY_TRUTH_BOUND", items)
           rows == <<r1, r2, r3, r4, r5>>
<1>1. DeploymentGate(ev, pol, date) = Verdict("deploy_truth", rows)
  BY DEF DeploymentGate
<1>2. r5 # {}
  BY RowHolds
<1>3. \A r \in r1 \cup r2 \cup r3 \cup r4 \cup r5 : r.status \in Status
  <2>1. \A r \in r1 \cup r2 : r.status \in Status
    BY RowBare DEF Status
  <2>2. \A r \in r3 \cup r4 \cup r5 : r.status \in Status
    BY RowBare DEF Status
  <2> HIDE DEF r1, r2, r3, r4, r5
  <2>3. QED
    BY <2>1, <2>2
<1>4. ASSUME seen.digest \notin Digests(ev)
      PROVE  r1 # {} /\ \A r \in r1 : Found(r, {"ARTIFACT_BINDING_MISMATCH"})
  <2>1. r1 # {}
    BY <1>4, RowHolds
  <2>2. QED
    BY <2>1, RowFound
<1>5. ASSUME FromFuture(seen.at, date) \/ Stale(seen.at, date, pol.max_age)
      PROVE  /\ r3 # {}
             /\ \A r \in r1 \cup r2 \cup r3 :
                  Found(r, DeploymentCodes)
  <2>1. r3 # {}
    BY <1>5, RowHolds
  <2>2. QED
    BY <2>1, RowFound DEF DeploymentCodes
<1>6. /\ 5 \in Nat \ {0} /\ DOMAIN rows = 1..5
      /\ rows[1] = r1 /\ rows[2] = r2 /\ rows[3] = r3 /\ rows[4] = r4
      /\ rows[5] = r5
  <2> HIDE DEF r1, r2, r3, r4, r5
  <2>1. QED
    OBVIOUS
<1> HIDE DEF r1, r2, r3, r4, r5, rows
<1>7. Bare(DeploymentGate(ev, pol, date))
  <2>1. \A k \in 1..5 : \A r \in rows[k] : r.status \in Status
    BY <1>3, <1>6
  <2>2. QED
    BY <1>1, <1>2, <1>6, <2>1, VerdictBare
<1>8. ASSUME seen.digest \notin Digests(ev)
      PROVE  Found(DeploymentGate(ev, pol, date), {"ARTIFACT_BINDING_MISMATCH"})
  <2>1. \A k \in 1..1 : \A r \in rows[k] : Found(r, {"ARTIFACT_BINDING_MISMATCH"})
    BY <1>4, <1>8, <1>6
  <2>2. 5 \in Nat /\ 1 \in 1..5 /\ rows[1] # {}
    BY <1>4, <1>8, <1>6
  <2>3. QED
    BY <1>1, <1>6, <2>1, <2>2, VerdictFound
<1>9. ASSUME FromFuture(seen.at, date) \/ Stale(seen.at, date, pol.max_age)
      PROVE  Found(DeploymentGate(ev, pol, date), DeploymentCodes)
  <2>1. \A k \in 1..3 : \A r \in rows[k] : Found(r, DeploymentCodes)
    BY <1>5, <1>9, <1>6
  <2>2. 5 \in Nat /\ 3 \in 1..5 /\ rows[3] # {}
    BY <1>5, <1>9, <1>6
  <2>3. QED
    BY <1>1, <1>6, <2>1, <2>2, VerdictFound
<1>10. QED
  BY <1>7, <1>8, <1>9

\* The gate on the changelog, when there is one, is bare.
LEMMA ChangelogVerdict ==
  ASSUME NEW ev, NEW pol, OfKind(ev, "changelog") # <<>>
  PROVE  Bare(ChangelogGate(ev, pol))
<1> DEFINE items == OfKind(ev, "changelog")
           artifacts == OfKind(ev, "artifact")
           log == items[1].payload
           r1 == Row(artifacts # <<>> /\ log.version # artifacts[1].payload.version,
                     "fail", "CHANGELOG_VERSION_MISMATCH", items)
           r2 == Row(log.set # ArtifactMap(ev), "fail", "ARTIFACT_BINDING_MISMATCH", items)
           r3 == Row(TRUE, "pass", "CHANGELOG_BOUND", items)
           rows == <<r1, r2, r3>>
<1>1. ChangelogGate(ev, pol) = Verdict("changelog", rows)
  BY DEF ChangelogGate
<1>2. r3 # {}
  BY RowHolds
<1>3. \A r \in r1 \cup r2 \cup r3 : r.status \in Status
  BY RowBare DEF Status
<1>4. /\ 3 \in Nat \ {0} /\ DOMAIN rows = 1..3
      /\ rows[1] = r1 /\ rows[2] = r2 /\ rows[3] = r3
  <2> HIDE DEF r1, r2, r3
  <2>1. QED
    OBVIOUS
<1> HIDE DEF r1, r2, r3, rows
<1>5. Bare(ChangelogGate(ev, pol))
  <2>1. \A k \in 1..3 : \A r \in rows[k] : r.status \in Status
    BY <1>3, <1>4
  <2>2. QED
    BY <1>1, <1>2, <1>4, <2>1, VerdictBare
<1>6. QED
  BY <1>5

\* The gate on the diff, when there is one diff, is bare.
LEMMA DiffVerdict ==
  ASSUME NEW ev, NEW pol, Len(OfKind(ev, "diff")) = 1
  PROVE  Bare(DiffGate(ev, pol))
<1> DEFINE items == OfKind(ev, "diff")
           r1 == Row(Score(items[1].payload.files) <= pol.max_risk,
                     "pass", "DIFF_RISK_ACCEPTABLE", items)
           r2 == Row(TRUE, "fail", "DIFF_RISK_TOO_HIGH", items)
           rows == <<r1, r2>>
<1>1. DiffGate(ev, pol) = Verdict("diff_risk", rows)
  BY DEF DiffGate
<1>2. r2 # {}
  BY RowHolds
<1>3. \A r \in r1 \cup r2 : r.status \in Status
  BY RowBare DEF Status
<1>4. 2 \in Nat \ {0} /\ DOMAIN rows = 1..2 /\ rows[1] = r1 /\ rows[2] = r2
  <2> HIDE DEF r1, r2
  <2>1. QED
    OBVIOUS
<1> HIDE DEF r1, r2, rows
<1>5. Bare(DiffGate(ev, pol))
  <2>1. \A k \in 1..2 : \A r \in rows[k] : r.status \in Status
    BY <1>3, <1>4
  <2>2. QED
    BY <1>1, <1>2, <1>4, <2>1, VerdictBare
<1>6. QED
  BY <1>5

\* The optional gates, whose two rows are about nothing.
LEMMA OptionalVerdict ==
  ASSUME NEW gate, NEW required, NEW missing, NEW optional
  PROVE  Bare(Verdict(gate, <<Row(required, "unknown", missing, <<>>),
                              Row(TRUE, "pass", optional, <<>>)>>))
<1> DEFINE r1 == Row(required, "unknown", missing, <<>>)
           r2 == Row(TRUE, "pass", optional, <<>>)
           rows == <<r1, r2>>
<1>1. r2 # {} /\ \A r \in r1 \cup r2 : r.status \in Status
  BY RowHolds, RowBare DEF Status
<1> HIDE DEF r1, r2
<1>2. 2 \in Nat \ {0} /\ DOMAIN rows = 1..2 /\ rows[2] # {}
  BY <1>1
<1>3. \A k \in 1..2 : \A r \in rows[k] : r.status \in Status
  BY <1>1
<1> HIDE DEF rows
<1>4. Bare(Verdict(gate, rows))
  BY <1>2, <1>3, VerdictBare
<1>5. QED
  BY <1>4 DEF rows, r1, r2

\* Every gate is found to be one of three things, and waived by none.
LEMMA GatesAreBare ==
  ASSUME NEW ev, NEW n \in Nat, DOMAIN ev.observations = 1..n, NEW pol, NEW date
  PROVE  /\ DOMAIN Gates(ev, pol, date) = 1..15
         /\ \A i \in 1..15 : Bare(Gates(ev, pol, date)[i])
         /\ \E S : Gates(ev, pol, date) \in Seq(S)
<1>1. Bare(SubjectGate(ev)) /\ Bare(FreshnessGate(ev, pol, date)) /\ Bare(AuthenticityGate(ev, pol))
  BY SubjectVerdict, FreshnessVerdict, AuthenticityVerdict
<1>2. Bare(DiffGate(ev, pol))
  <2>1. CASE Len(OfKind(ev, "diff")) = 1
    BY <2>1, DiffVerdict
  <2>2. CASE Len(OfKind(ev, "diff")) # 1
    BY <2>2 DEF DiffGate, Result, Bare, Status
  <2>3. QED
    BY <2>1, <2>2
<1>3. Bare(CIMatrixGate(ev, pol)) /\ Bare(CICacheGate(ev)) /\ Bare(FlakinessGate(ev, pol))
      /\ Bare(TestsGate(ev, pol))
  BY CIMatrixVerdict, CICacheVerdict, FlakinessVerdict, TestsVerdict
<1>4. Bare(ArtifactGate(ev, pol)) /\ Bare(ReproducibilityGate(ev, pol)) /\ Bare(SbomGate(ev, pol))
      /\ Bare(ProvenanceGate(ev, pol))
  BY ArtifactVerdict, ReproducibilityVerdict, SbomVerdict, ProvenanceVerdict
<1>5. Bare(ChangelogGate(ev, pol))
  <2>1. CASE OfKind(ev, "changelog") # <<>>
    BY <2>1, ChangelogVerdict
  <2>2. CASE OfKind(ev, "changelog") = <<>>
    BY <2>2, OptionalVerdict DEF ChangelogGate
  <2>3. QED
    BY <2>1, <2>2
<1>6. Bare(RollbackGate(ev, pol, date))
  <2>1. CASE OfKind(ev, "rollback_drill") # <<>>
    BY <2>1, RollbackVerdict
  <2>2. CASE OfKind(ev, "rollback_drill") = <<>>
    BY <2>2, OptionalVerdict DEF RollbackGate
  <2>3. QED
    BY <2>1, <2>2
<1>7. Bare(DeploymentGate(ev, pol, date))
  <2>1. CASE OfKind(ev, "deploy_observation") # <<>>
    BY <2>1, DeploymentVerdict
  <2>2. CASE OfKind(ev, "deploy_observation") = <<>>
    BY <2>2, OptionalVerdict DEF DeploymentGate
  <2>3. QED
    BY <2>1, <2>2
<1>8. /\ DOMAIN Gates(ev, pol, date) = 1..15
      /\ \A i \in 1..15 : Bare(Gates(ev, pol, date)[i])
  BY <1>1, <1>2, <1>3, <1>4, <1>5, <1>6, <1>7 DEF Gates
<1>9. Gates(ev, pol, date) = [i \in 1..15 |-> Gates(ev, pol, date)[i]]
  BY DEF Gates
<1>10. Gates(ev, pol, date) \in Seq({Gates(ev, pol, date)[i] : i \in 1..15})
  <2> DEFINE G == Gates(ev, pol, date)
  <2>1. G = [i \in 1..15 |-> G[i]]
    BY <1>9
  <2> HIDE DEF G
  <2>2. G \in [1..15 -> {G[i] : i \in 1..15}]
    BY <2>1
  <2> DEFINE S == {G[i] : i \in 1..15}
  <2>3. G \in [1..15 -> S]
    BY <2>2
  <2> HIDE DEF S
  <2>4. G \in Seq(S)
    BY ONLY <2>3, 15 \in Nat, SeqDef
  <2>5. QED
    BY <2>4 DEF S, G
<1>11. QED
  BY <1>8, <1>10

\* A failed gate at the end blocks a release.
LEMMA AppendBlocks ==
  ASSUME NEW S, NEW s \in Seq(S), NEW x, x.status = "fail"
  PROVE  OutcomeOf(Append(s, x)) # "READY"
<1>1. s \in Seq(S \cup {x})
  OBVIOUS
<1>2. Len(s) + 1 \in DOMAIN Append(s, x) /\ Append(s, x)[Len(s) + 1] = x
  BY <1>1, AppendProperties
<1>3. "fail" \in {Append(s, x)[i].status : i \in DOMAIN Append(s, x)}
  BY <1>2
<1>4. QED
  BY <1>3 DEF OutcomeOf

\* A release is READY when every gate passes or is excused by a valid waiver, and no
\* waiver is left over.
LEMMA ReadyMeans ==
  ASSUME NEW ev, NEW n \in Nat, DOMAIN ev.observations = 1..n, NEW pol, NEW date, NEW ws,
         \A i \in DOMAIN ws : ws[i].id # NoWaiver,
         \A i, j \in DOMAIN ws : ws[i].id = ws[j].id => i = j,
         Evaluate(ev, pol, ws, date).outcome = "READY"
  PROVE  LET gates == Gates(ev, pol, date)
         IN  /\ ~Malformed(ev, pol, date)
             /\ \A i \in 1..15 : gates[i].status # "pass" =>
                  \E k \in DOMAIN ws : Targets(ws[k], gates[i]) /\ WaiverValid(ws[k], ev, pol, date)
             /\ \A k \in DOMAIN ws : \E i \in 1..15 :
                  gates[i].status # "pass" /\ Targets(ws[k], gates[i])
<1> DEFINE gates == Gates(ev, pol, date)
           refusal == Result("waivers", "fail", "WAIVER_INVALID", <<>>)
           waived == [i \in DOMAIN gates |-> Waive(gates[i], ws)]
           applied == {waived[i].waived_by : i \in DOMAIN waived}
           all == ApplyWaivers(gates, ws, ev, pol, date)
<1>1. ~Malformed(ev, pol, date) /\ OutcomeOf(all) = "READY"
  BY DEF Evaluate
<1>2. DOMAIN gates = 1..15 /\ (\A i \in 1..15 : Bare(gates[i])) /\ \E S : gates \in Seq(S)
  BY GatesAreBare
<1>3. refusal.status = "fail"
  BY DEF Result
<1> HIDE DEF gates, refusal
<1>4. \A i \in DOMAIN all : all[i].status \notin {"fail", "unknown"}
  <2> HIDE DEF all
  <2>1. QED
    BY <1>1 DEF OutcomeOf
<1>5. all = IF ws = <<>> THEN gates
            ELSE IF SomeWaiverInvalid(ws, ev, pol, date) THEN Append(gates, refusal)
            ELSE IF \A i \in DOMAIN ws : ws[i].id \in applied THEN waived
            ELSE Append(waived, refusal)
  BY DEF ApplyWaivers, refusal
<1> HIDE DEF all
<1>6. CASE ws = <<>>
  <2>1. all = gates /\ DOMAIN ws = {}
    BY <1>5, <1>6
  <2>2. \A i \in 1..15 : gates[i].status = "pass"
    BY <2>1, <1>2, <1>4 DEF Bare, Status
  <2>3. QED
    BY <2>1, <2>2, <1>1 DEF gates
<1>7. CASE ws # <<>>
  <2>1. ~SomeWaiverInvalid(ws, ev, pol, date)
    <3>1. OutcomeOf(Append(gates, refusal)) # "READY"
      BY <1>2, <1>3, AppendBlocks
    <3>2. QED
      BY <3>1, <1>1, <1>5, <1>7
  <2>2. \A i \in DOMAIN ws : ws[i].id \in applied
    <3>1. waived \in Seq({waived[i] : i \in 1..15})
      <4>1. waived \in [1..15 -> {waived[i] : i \in 1..15}]
        BY <1>2
      <4>2. QED
        BY <4>1
    <3>2. OutcomeOf(Append(waived, refusal)) # "READY"
      <4> HIDE DEF waived
      <4>1. QED
        BY <3>1, <1>3, AppendBlocks
    <3>3. QED
      BY <2>1, <3>2, <1>1, <1>5, <1>7
  <2>3. all = waived
    BY <2>1, <2>2, <1>5, <1>7
  <2>4. ASSUME NEW i \in 1..15, gates[i].status # "pass"
        PROVE  \E k \in DOMAIN ws : Targets(ws[k], gates[i]) /\ WaiverValid(ws[k], ev, pol, date)
    <3>1. Waive(gates[i], ws).status \notin {"fail", "unknown"}
      BY <1>2, <1>4, <2>3
    <3>2. gates[i].status \in {"fail", "unknown"}
      BY <2>4, <1>2 DEF Bare, Status
    <3>3. PICK k \in DOMAIN ws : Targets(ws[k], gates[i])
      BY <3>1, <3>2 DEF Waive
    <3>4. WaiverValid(ws[k], ev, pol, date)
      BY <2>1 DEF SomeWaiverInvalid
    <3>5. QED
      BY <3>3, <3>4
  <2>5. ASSUME NEW k \in DOMAIN ws
        PROVE  \E i \in 1..15 : gates[i].status # "pass" /\ Targets(ws[k], gates[i])
    <3>1. PICK i \in 1..15 : ws[k].id = Waive(gates[i], ws).waived_by
      BY <2>2, <1>2
    <3>2. gates[i].waived_by = NoWaiver /\ "waived_by" \in DOMAIN gates[i]
      BY <1>2 DEF Bare
    <3>3. gates[i].status \in {"fail", "unknown"} /\ \E c \in DOMAIN ws : Targets(ws[c], gates[i])
      BY <3>1, <3>2 DEF Waive
    <3> DEFINE c == CHOOSE c \in DOMAIN ws : Targets(ws[c], gates[i])
    <3>4. c \in DOMAIN ws /\ Targets(ws[c], gates[i])
      BY <3>3
    <3>5. Waive(gates[i], ws) = [gates[i] EXCEPT !.status = "warn", !.waived_by = ws[c].id,
                                                 !.original = gates[i].status]
      BY <3>3 DEF Waive
    <3> HIDE DEF c
    <3>6. Waive(gates[i], ws).waived_by = ws[c].id
      BY <3>2, <3>5
    <3>7. c = k
      BY <3>1, <3>4, <3>6
    <3>8. QED
      BY <3>3, <3>4, <3>7
  <2>6. QED
    BY <1>1, <2>4, <2>5 DEF gates
<1>8. QED
  BY <1>6, <1>7

\* When no two artifacts have one name, the map has every artifact.
LEMMA MapOfArtifacts ==
  ASSUME NEW ev, NEW n \in Nat, DOMAIN ev.observations = 1..n,
         \/ OfKind(ev, "artifact") = <<>>
         \/ Cardinality(Names(OfKind(ev, "artifact"))) = Len(OfKind(ev, "artifact"))
  PROVE  LET items == OfKind(ev, "artifact")
             map == ArtifactMap(ev)
         IN  /\ DOMAIN map = {items[i].payload.name : i \in DOMAIN items}
             /\ \A i \in DOMAIN items : map[items[i].payload.name] = items[i].payload.digest
<1> DEFINE items == OfKind(ev, "artifact")
           name(i) == items[i].payload.name
           N == Len(items)
           f == [i \in 1..N |-> name(i)]
           last(x) == CHOOSE i \in DOMAIN items :
                        /\ items[i].payload.name = x
                        /\ \A j \in DOMAIN items : items[j].payload.name = x => j <= i
<1>1. ArtifactMap(ev) = [x \in Names(items) |-> items[last(x)].payload.digest]
  BY DEF ArtifactMap
<1>2. N \in Nat /\ DOMAIN items = 1..N /\ (items = <<>> => DOMAIN items = {})
  BY OfKindAre DEF Lists
<1> HIDE DEF items
<1>3. \A i, j \in 1..N : name(i) = name(j) => i = j
  <2>1. CASE items = <<>>
    BY <2>1, <1>2
  <2>2. CASE Cardinality(Names(items)) = N
    <3>1. f \in Surjection(1..N, Names(items))
      BY <1>2 DEF Surjection, Names
    <3>2. IsFiniteSet(1..N) /\ Cardinality(1..N) = N
      <4>1. 1 \in Int /\ N \in Int /\ (1 > N => N = 0)
        BY <1>2
      <4> HIDE DEF N
      <4>2. QED
        BY <4>1, FS_Interval
    <3>3. f \in Injection(1..N, Names(items))
      <4> HIDE DEF f, N
      <4>1. QED
        BY <2>2, <3>1, <3>2, FS_SurjSameCardinalityImpliesInj
    <3>4. QED
      BY <3>3 DEF Injection, IsInjective
  <2>3. QED
    BY <2>1, <2>2 DEF items
<1>4. ASSUME NEW i \in DOMAIN items PROVE last(name(i)) = i
  <2>1. \A j \in DOMAIN items : items[j].payload.name = name(i) => j <= i
    BY <1>2, <1>3, <1>4
  <2>2. \E k \in DOMAIN items : /\ items[k].payload.name = name(i)
                                /\ \A j \in DOMAIN items : items[j].payload.name = name(i) => j <= k
    BY <2>1, <1>4
  <2>3. last(name(i)) \in DOMAIN items /\ items[last(name(i))].payload.name = name(i)
    BY <2>2
  <2> HIDE DEF last
  <2>4. QED
    BY <2>3, <1>2, <1>3, <1>4
<1> HIDE DEF last
<1>5. \A i \in DOMAIN items : name(i) \in Names(items)
  BY DEF Names
<1>6. QED
  BY <1>1, <1>4, <1>5 DEF Names, items

-----------------------------------------------------------------------------
(* The session.                                                            *)

\* The inputs are of the kinds offered, no two waivers have one id, and a decision is
\* the one that the present inputs lead to.
InputsInv ==
  /\ "observations" \in DOMAIN evidence
  /\ evidence.observations \in Seq(Offered)
  /\ policy \in Policy
  /\ waivers \in Seq(Grantable)
  /\ \A i, j \in DOMAIN waivers : waivers[i].id = waivers[j].id => i = j
  /\ now \in Int

DecisionInv == decision \in {Undecided, Evaluate(evidence, policy, waivers, now)}

SessionInv == InputsInv /\ DecisionInv

\* The inputs of a session, and what its decision is about (cli.py:42-59, engine.py:58-107).
THEOREM SessionInvariant == Spec => []SessionInv
<1>1. Init => SessionInv
  <2> SUFFICES ASSUME Init PROVE SessionInv
    OBVIOUS
  <2> USE DEF Init
  <2>1. "observations" \in DOMAIN evidence
    BY SessionAssumption DEF EvidenceValid
  <2>2. evidence.observations \in Seq(Offered) /\ policy \in Policy /\ now \in Int
    BY SessionAssumption
  <2>3. waivers \in Seq(Grantable) /\ DOMAIN waivers = {}
    OBVIOUS
  <2>4. QED
    BY <2>1, <2>2, <2>3 DEF SessionInv, InputsInv, DecisionInv
<1>2. SessionInv /\ [Next]_vars => SessionInv'
  <2> SUFFICES ASSUME SessionInv, [Next]_vars PROVE SessionInv'
    OBVIOUS
  <2> USE DEF SessionInv, InputsInv
  <2>1. CASE Collect
    <3>1. PICK o \in Arriving :
            evidence' = [evidence EXCEPT !.observations = Append(evidence.observations, o)]
      BY <2>1 DEF Collect
    <3>2. o \in Offered
      BY DEF Offered
    <3>3. Append(evidence.observations, o) \in Seq(Offered)
      BY <3>2, AppendProperties
    <3>4. "observations" \in DOMAIN evidence' /\ evidence'.observations \in Seq(Offered)
      BY <3>1, <3>3
    <3>5. QED
      BY <3>4, <2>1 DEF Collect, DecisionInv
  <2>2. CASE Grant
    <3>1. PICK w \in Grantable : /\ \A i \in DOMAIN waivers : waivers[i].id # w.id
                                 /\ waivers' = Append(waivers, w)
      BY <2>2 DEF Grant
    <3>2. /\ waivers' \in Seq(Grantable)
          /\ DOMAIN waivers' = 1..(Len(waivers) + 1) /\ DOMAIN waivers = 1..Len(waivers)
          /\ \A i \in 1..Len(waivers) : waivers'[i] = waivers[i]
          /\ waivers'[Len(waivers) + 1] = w
      BY <3>1, AppendProperties
    <3>3. \A i, j \in DOMAIN waivers' : waivers'[i].id = waivers'[j].id => i = j
      BY <3>1, <3>2
    <3>4. QED
      BY <3>2, <3>3, <2>2 DEF Grant, DecisionInv
  <2>3. CASE Tick
    BY <2>3 DEF Tick, DecisionInv
  <2>4. CASE Decide
    BY <2>4 DEF Decide, DecisionInv
  <2>5. CASE UNCHANGED vars
    BY <2>5 DEF vars, DecisionInv
  <2>6. QED
    BY <2>1, <2>2, <2>3, <2>4, <2>5 DEF Next
<1>3. QED
  BY <1>1, <1>2, PTL DEF Spec

\* What a READY decision of a session means.
LEMMA ReadyHere ==
  ASSUME SessionInv, decision.outcome = "READY"
  PROVE  /\ DOMAIN evidence.observations = 1..Len(evidence.observations)
         /\ Len(evidence.observations) \in Nat
         /\ LET gates == Gates(evidence, policy, now)
            IN  /\ ~Malformed(evidence, policy, now)
                /\ \A i \in 1..15 : gates[i].status # "pass" =>
                     \E w \in Granted : /\ Targets(w, gates[i]) /\ w.expires \in Int
                                        /\ WaiverValid(w, evidence, policy, now)
                /\ \A w \in Granted : \E i \in 1..15 :
                     gates[i].status # "pass" /\ Targets(w, gates[i])
<1> DEFINE gates == Gates(evidence, policy, now)
           n == Len(evidence.observations)
<1>1. n \in Nat /\ DOMAIN evidence.observations = 1..n
  BY DEF SessionInv, InputsInv
<1>2. Evaluate(evidence, policy, waivers, now).outcome = "READY"
  BY DEF SessionInv, DecisionInv, Undecided
<1>3. \A i \in DOMAIN waivers : waivers[i] \in Grantable
  BY DEF SessionInv, InputsInv
<1>4. \A i \in DOMAIN waivers : waivers[i].id # NoWaiver /\ waivers[i].expires \in Int
  BY <1>3, SessionAssumption
<1>5. \A i, j \in DOMAIN waivers : waivers[i].id = waivers[j].id => i = j
  BY DEF SessionInv, InputsInv
<1>6. /\ ~Malformed(evidence, policy, now)
      /\ \A i \in 1..15 : gates[i].status # "pass" =>
           \E k \in DOMAIN waivers : Targets(waivers[k], gates[i])
                                     /\ WaiverValid(waivers[k], evidence, policy, now)
      /\ \A k \in DOMAIN waivers : \E i \in 1..15 :
           gates[i].status # "pass" /\ Targets(waivers[k], gates[i])
  BY <1>1, <1>2, <1>4, <1>5, ReadyMeans
<1> HIDE DEF gates
<1>7. QED
  BY <1>1, <1>4, <1>6 DEF Granted, gates

\* What cannot be waived is not found in a READY release, and the rest is excused.
LEMMA ReadyExcuses ==
  ASSUME SessionInv, decision.outcome = "READY", NEW i \in 1..15, NEW codes,
         Found(Gates(evidence, policy, now)[i], codes)
  PROVE  \E w \in Granted : w.code \in codes \ Unwaivable /\ now < w.expires
<1> DEFINE gate == Gates(evidence, policy, now)[i]
<1>1. gate.status # "pass" /\ gate.code \in codes
  BY DEF Found
<1>2. PICK w \in Granted :
        Targets(w, gate) /\ w.expires \in Int /\ WaiverValid(w, evidence, policy, now)
  BY <1>1, ReadyHere
<1>3. now \in Int
  BY DEF SessionInv, InputsInv
<1> HIDE DEF gate
<1>4. w.code \in codes \ Unwaivable
  BY <1>1, <1>2 DEF Targets, WaiverValid
<1>5. now < w.expires
  BY <1>2, <1>3 DEF WaiverValid
<1>6. QED
  BY <1>4, <1>5

LEMMA ExcusesOnly == SessionInv => WaiversOnlyExcuse
<1> SUFFICES ASSUME SessionInv, decision.outcome = "READY"
             PROVE  LET bare == Gates(evidence, policy, now)
                        open == {i \in DOMAIN bare : bare[i].status # "pass"}
                        names(w, i) == w.gate = bare[i].gate /\ w.code = bare[i].code
                    IN  /\ \A i \in open : \E w \in Granted :
                             names(w, i) /\ w.code \notin Unwaivable /\ w.policy = policy.id
                        /\ \A w \in Granted : \E i \in open : names(w, i)
  BY DEF WaiversOnlyExcuse
<1> DEFINE bare == Gates(evidence, policy, now)
<1>1. DOMAIN bare = 1..15
  BY ReadyHere, GatesAreBare
<1>2. /\ \A i \in 1..15 : bare[i].status # "pass" =>
           \E w \in Granted : Targets(w, bare[i]) /\ WaiverValid(w, evidence, policy, now)
      /\ \A w \in Granted : \E i \in 1..15 : bare[i].status # "pass" /\ Targets(w, bare[i])
  BY ReadyHere
<1> HIDE DEF bare
<1>3. \A i \in 1..15 : bare[i].status # "pass" =>
        \E w \in Granted : /\ w.gate = bare[i].gate /\ w.code = bare[i].code
                           /\ w.code \notin Unwaivable /\ w.policy = policy.id
  BY <1>2 DEF Targets, WaiverValid
<1>4. \A w \in Granted : \E i \in 1..15 :
        bare[i].status # "pass" /\ w.gate = bare[i].gate /\ w.code = bare[i].code
  BY <1>2 DEF Targets
<1>5. QED
  BY <1>1, <1>3, <1>4 DEF bare

\* A waiver excuses what it names and nothing else (engine.py:525-566).
THEOREM ExcusesAreNamed == Spec => []WaiversOnlyExcuse
BY SessionInvariant, ExcusesOnly, PTL

\* The observations of a kind are those the engine gets for it.
LEMMA ObservedAre ==
  ASSUME SessionInv, NEW kind, NEW o \in ObservedOf(kind)
  PROVE  LET items == OfKind(evidence, kind)
         IN  items # <<>> /\ Len(items) \in Nat /\ DOMAIN items = 1..Len(items)
             /\ \E k \in DOMAIN items : items[k] = o
<1> DEFINE n == Len(evidence.observations)
           I == {i \in 1..n : evidence.observations[i].kind = kind}
<1>1. n \in Nat /\ DOMAIN evidence.observations = 1..n
  BY DEF SessionInv, InputsInv
<1>2. PICK i \in I : evidence.observations[i] = o
  BY <1>1 DEF ObservedOf, Observed
<1>3. Lists(OfKind(evidence, kind), evidence.observations, I)
  BY <1>1, OfKindAre
<1> HIDE DEF I
<1>4. QED
  BY <1>2, <1>3 DEF Lists

LEMMA ObservedTimes ==
  ASSUME SessionInv, NEW o \in Observed
  PROVE  /\ o.at \in Int
         /\ o.kind \in {"rollback_drill", "deploy_observation"} => o.payload.at \in Int
<1>1. o \in Offered
  BY DEF SessionInv, InputsInv, Observed
<1>2. QED
  BY <1>1, SessionAssumption

LEMMA PolicyLimits ==
  ASSUME SessionInv
  PROVE  policy.max_age \in Int /\ policy.rollback_max_age \in Int /\ policy.min_builds \in Nat
<1>1. PolicyValid(policy)
  BY SessionAssumption DEF SessionInv, InputsInv
<1> DEFINE age == policy.max_age
           drill_age == policy.rollback_max_age
           builds == policy.min_builds
<1>2. age \in Hours /\ drill_age \in Hours
  BY <1>1 DEF PolicyValid
<1>3. builds \in 2..20
  BY <1>1 DEF PolicyValid
<1> HIDE DEF age, drill_age, builds
<1>4. age \in Int /\ drill_age \in Int /\ builds \in Nat
  BY <1>2, <1>3 DEF Hours
<1>5. QED
  BY <1>4 DEF age, drill_age, builds

\* There are no more builds than build manifests.
LEMMA BuildsCounted ==
  ASSUME SessionInv
  PROVE  /\ Cardinality(ObservedOf("build_manifest")) \in Nat
         /\ Cardinality(ObservedOf("build_manifest")) <= Len(OfKind(evidence, "build_manifest"))
<1> DEFINE n == Len(evidence.observations)
           I == {i \in 1..n : evidence.observations[i].kind = "build_manifest"}
           builds == ObservedOf("build_manifest")
           f == [i \in I |-> evidence.observations[i]]
<1>1. n \in Nat /\ DOMAIN evidence.observations = 1..n
  BY DEF SessionInv, InputsInv
<1>2. IsFiniteSet(I) /\ Len(OfKind(evidence, "build_manifest")) = Cardinality(I)
  <2>1. Lists(OfKind(evidence, "build_manifest"), evidence.observations, I)
    BY <1>1, OfKindAre
  <2> HIDE DEF I
  <2>2. QED
    BY <2>1 DEF Lists
<1>3. f \in Surjection(I, builds)
  BY <1>1 DEF Surjection, ObservedOf, Observed
<1> HIDE DEF f, I, builds
<1>4. IsFiniteSet(builds) /\ Cardinality(builds) <= Cardinality(I)
  BY <1>2, <1>3, FS_Surjection
<1>5. QED
  BY <1>2, <1>4, FS_CardinalityType DEF builds

LEMMA BoundWhenReady == SessionInv => ReadyIsBound
<1> SUFFICES ASSUME SessionInv, decision.outcome = "READY"
             PROVE  LET map == ArtifactMap(evidence)
                        bound(o) == /\ o.payload.artifact \in DOMAIN map
                                    /\ o.payload.digest = map[o.payload.artifact]
                        builds == ObservedOf("build_manifest")
                    IN  /\ \A o \in Observed :
                             o.subject = evidence.candidate /\ Verified(o.trust, "evidence")
                        /\ \A o \in ObservedOf("sbom") \cup ObservedOf("provenance") : bound(o)
                        /\ \A o \in ObservedOf("rollback_drill") \cup ObservedOf("deploy_observation") :
                             \E n \in DOMAIN map : o.payload.digest = map[n]
                        /\ Cardinality(builds) >= policy.min_builds =>
                             \A o \in builds :
                               {<<a.name, a.digest>> : a \in o.payload.artifacts} =
                               {<<n, map[n]>> : n \in DOMAIN map}
  BY DEF ReadyIsBound
<1> DEFINE n == Len(evidence.observations)
           map == ArtifactMap(evidence)
           released == OfKind(evidence, "artifact")
           Unfound(g) == ~Found(g, {"SUBJECT_MISMATCH"}) /\ ~Found(g, {"EVIDENCE_UNAUTHENTICATED"})
                         /\ ~Found(g, {"ARTIFACT_BINDING_MISMATCH"})
                         /\ ~Found(g, {"REPRODUCIBILITY_MISMATCH"})
<1>1. n \in Nat /\ DOMAIN evidence.observations = 1..n
  BY DEF SessionInv, InputsInv
<1>2. \A i \in 1..15 : Unfound(Gates(evidence, policy, now)[i])
  BY ReadyExcuses DEF Unwaivable
<1>3. /\ Unfound(SubjectGate(evidence)) /\ Unfound(AuthenticityGate(evidence, policy))
      /\ Unfound(ArtifactGate(evidence, policy)) /\ Unfound(ReproducibilityGate(evidence, policy))
      /\ Unfound(SbomGate(evidence, policy)) /\ Unfound(ProvenanceGate(evidence, policy))
      /\ Unfound(RollbackGate(evidence, policy, now))
      /\ Unfound(DeploymentGate(evidence, policy, now))
  <2> DEFINE gates == Gates(evidence, policy, now)
  <2>1. /\ gates[1] = SubjectGate(evidence) /\ gates[3] = AuthenticityGate(evidence, policy)
        /\ gates[9] = ArtifactGate(evidence, policy)
        /\ gates[10] = ReproducibilityGate(evidence, policy)
        /\ gates[11] = SbomGate(evidence, policy) /\ gates[13] = ProvenanceGate(evidence, policy)
        /\ gates[14] = RollbackGate(evidence, policy, now)
        /\ gates[15] = DeploymentGate(evidence, policy, now)
    BY DEF Gates
  <2> HIDE DEF gates, Unfound
  <2>2. \A i \in 1..15 : Unfound(gates[i])
    BY <1>2 DEF gates
  <2>3. Unfound(gates[1]) /\ Unfound(gates[3]) /\ Unfound(gates[9]) /\ Unfound(gates[10])
        /\ Unfound(gates[11]) /\ Unfound(gates[13]) /\ Unfound(gates[14]) /\ Unfound(gates[15])
    BY <2>2
  <2>4. QED
    BY <2>1, <2>3
<1>4. /\ DOMAIN map = {released[i].payload.name : i \in DOMAIN released}
      /\ \A i \in DOMAIN released : map[released[i].payload.name] = released[i].payload.digest
  BY <1>1, <1>3, ArtifactVerdict, MapOfArtifacts
<1>5. \A d \in Digests(evidence) : \E x \in DOMAIN map : d = map[x]
  BY <1>4 DEF Digests
<1>6. {<<released[i].payload.name, released[i].payload.digest>> : i \in DOMAIN released} =
      {<<x, map[x]>> : x \in DOMAIN map}
  <2> HIDE DEF map, released
  <2>1. QED
    BY <1>4
<1> HIDE DEF map
<1>7. \A o \in Observed : o.subject = evidence.candidate /\ Verified(o.trust, "evidence")
  BY <1>1, <1>3, SubjectVerdict, AuthenticityVerdict DEF Observed
<1>8. ASSUME NEW o \in ObservedOf("sbom") \cup ObservedOf("provenance")
      PROVE  o.payload.artifact \in DOMAIN map /\ o.payload.digest = map[o.payload.artifact]
  <2>1. CASE o \in ObservedOf("sbom")
    <3> DEFINE items == OfKind(evidence, "sbom")
    <3>1. items # <<>> /\ \E k \in DOMAIN items : items[k] = o
      BY <2>1, ObservedAre
    <3>2. Binds(items, map)
      BY <3>1, <1>3, SbomVerdict DEF map
    <3> HIDE DEF items
    <3>3. QED
      BY <3>1, <3>2 DEF Binds
  <2>2. CASE o \in ObservedOf("provenance")
    <3> DEFINE items == OfKind(evidence, "provenance")
    <3>1. items # <<>> /\ \E k \in DOMAIN items : items[k] = o
      BY <2>2, ObservedAre
    <3>2. Binds(items, map)
      BY <3>1, <1>3, ProvenanceVerdict DEF map
    <3> HIDE DEF items
    <3>3. QED
      BY <3>1, <3>2 DEF Binds
  <2>3. QED
    BY <2>1, <2>2
<1>9. ASSUME NEW o \in ObservedOf("rollback_drill") \cup ObservedOf("deploy_observation")
      PROVE  \E x \in DOMAIN map : o.payload.digest = map[x]
  <2>1. ~Malformed(evidence, policy, now)
    BY ReadyHere
  <2>2. CASE o \in ObservedOf("rollback_drill")
    <3> DEFINE items == OfKind(evidence, "rollback_drill")
    <3>1. items # <<>> /\ Len(items) \in Nat /\ DOMAIN items = 1..Len(items)
          /\ \E k \in DOMAIN items : items[k] = o
      BY <2>2, ObservedAre
    <3>2. ~(Len(items) > 1)
      BY <2>1 DEF Malformed, SeveralDrills
    <3>3. items[1] = o
      <4> HIDE DEF items
      <4>1. QED
        BY <3>1, <3>2
    <3>4. items[1].payload.digest \in Digests(evidence)
      BY <3>1, <1>3, RollbackVerdict
    <3>5. QED
      BY <3>3, <3>4, <1>5
  <2>3. CASE o \in ObservedOf("deploy_observation")
    <3> DEFINE items == OfKind(evidence, "deploy_observation")
    <3>1. items # <<>> /\ Len(items) \in Nat /\ DOMAIN items = 1..Len(items)
          /\ \E k \in DOMAIN items : items[k] = o
      BY <2>3, ObservedAre
    <3>2. ~(Len(items) > 1)
      BY <2>1 DEF Malformed, SeveralDeploys
    <3>3. items[1] = o
      <4> HIDE DEF items
      <4>1. QED
        BY <3>1, <3>2
    <3>4. items[1].payload.digest \in Digests(evidence)
      BY <3>1, <1>3, DeploymentVerdict
    <3>5. QED
      BY <3>3, <3>4, <1>5
  <2>4. QED
    BY <2>2, <2>3
<1>10. ASSUME Cardinality(ObservedOf("build_manifest")) >= policy.min_builds,
              NEW o \in ObservedOf("build_manifest")
       PROVE  {<<a.name, a.digest>> : a \in o.payload.artifacts} = {<<x, map[x]>> : x \in DOMAIN map}
  <2> DEFINE items == OfKind(evidence, "build_manifest")
  <2>1. policy.min_builds \in Nat
    BY PolicyLimits
  <2>2. PICK k \in DOMAIN items : items[k] = o /\ Len(items) \in Nat
    BY ObservedAre
  <2>3. ~(Len(items) < policy.min_builds)
    <3> HIDE DEF items
    <3>1. Cardinality(ObservedOf("build_manifest")) \in Nat
          /\ Cardinality(ObservedOf("build_manifest")) <= Len(items)
      BY BuildsCounted DEF items
    <3>2. QED
      BY <1>10, <2>1, <2>2, <3>1
  <2>4. \A i \in DOMAIN items :
          {<<a.name, a.digest>> : a \in items[i].payload.artifacts} =
          {<<released[j].payload.name, released[j].payload.digest>> : j \in DOMAIN released}
    BY <1>3, <2>3, ReproducibilityVerdict
  <2> HIDE DEF items, released
  <2>5. QED
    BY <2>2, <2>4, <1>6
<1>11. QED
  BY <1>7, <1>8, <1>9, <1>10 DEF map

\* Whatever is waived, the parts of a READY release are signed and speak of the same
\* candidate and the same artifacts (engine.py:27-35, 370-380, 416, 454, 479).
THEOREM ReadyReleasesAreBound == Spec => []ReadyIsBound
BY SessionInvariant, BoundWhenReady, PTL

LEMMA FreshWhenReady == SessionInv => ReadyIsFresh
<1> SUFFICES ASSUME SessionInv, decision.outcome = "READY"
             PROVE  LET excused(codes) == \E w \in Granted : w.code \in codes /\ now < w.expires
                        within(at, limit) == at \in (now - limit)..(now + FutureSkew)
                    IN  /\ \A o \in Observed :
                             \/ within(o.at, policy.max_age)
                             \/ excused({"EVIDENCE_STALE", "EVIDENCE_FROM_FUTURE"})
                        /\ \A o \in ObservedOf("rollback_drill") :
                             \/ within(o.payload.at, policy.rollback_max_age)
                             \/ excused({"ROLLBACK_STALE", "ROLLBACK_FROM_FUTURE"})
                        /\ \A o \in ObservedOf("deploy_observation") :
                             \/ within(o.payload.at, policy.max_age)
                             \/ excused({"DEPLOY_OBSERVATION_STALE", "DEPLOY_ENVIRONMENT_MISMATCH"})
  BY DEF ReadyIsFresh
<1> DEFINE n == Len(evidence.observations)
           gates == Gates(evidence, policy, now)
           excused(codes) == \E w \in Granted : w.code \in codes /\ now < w.expires
           within(at, limit) == at \in (now - limit)..(now + FutureSkew)
<1>1. n \in Nat /\ DOMAIN evidence.observations = 1..n /\ now \in Int
  BY DEF SessionInv, InputsInv
<1>2. policy.max_age \in Int /\ policy.rollback_max_age \in Int /\ FutureSkew \in Int
  BY PolicyLimits, GateAssumption
<1>3. ASSUME NEW at \in Int, NEW limit \in Int, ~FromFuture(at, now), ~Stale(at, now, limit)
      PROVE  within(at, limit)
  BY <1>1, <1>2, <1>3 DEF FromFuture, Stale
<1>4. ~Malformed(evidence, policy, now)
  BY ReadyHere
<1>5. /\ gates[2] = FreshnessGate(evidence, policy, now)
      /\ gates[14] = RollbackGate(evidence, policy, now)
      /\ gates[15] = DeploymentGate(evidence, policy, now)
  BY DEF Gates
<1>6. ASSUME NEW i \in 1..15, NEW codes, Found(gates[i], codes \cup {"ARTIFACT_BINDING_MISMATCH"})
      PROVE  excused(codes)
  <2>1. PICK w \in Granted : /\ w.code \in (codes \cup {"ARTIFACT_BINDING_MISMATCH"}) \ Unwaivable
                             /\ now < w.expires
    BY <1>6, ReadyExcuses
  <2>2. QED
    BY <2>1 DEF Unwaivable
<1> HIDE DEF gates, within, excused
<1>7. ASSUME NEW o \in Observed
      PROVE  within(o.at, policy.max_age) \/ excused({"EVIDENCE_STALE", "EVIDENCE_FROM_FUTURE"})
  <2>1. CASE Found(gates[2], {"EVIDENCE_FROM_FUTURE", "EVIDENCE_STALE"})
    <3>1. Found(gates[2], {"EVIDENCE_STALE", "EVIDENCE_FROM_FUTURE"}
                            \cup {"ARTIFACT_BINDING_MISMATCH"})
      BY <2>1 DEF Found
    <3>2. QED
      BY <3>1, <1>6
  <2>2. CASE ~Found(gates[2], {"EVIDENCE_FROM_FUTURE", "EVIDENCE_STALE"})
    <3>1. ~FromFuture(o.at, now) /\ ~Stale(o.at, now, policy.max_age)
      BY <2>2, <1>1, <1>5, FreshnessVerdict DEF Observed
    <3>2. QED
      BY <3>1, <1>2, <1>3, ObservedTimes
  <2>3. QED
    BY <2>1, <2>2
<1>8. ASSUME NEW o \in ObservedOf("rollback_drill")
      PROVE  \/ within(o.payload.at, policy.rollback_max_age)
             \/ excused({"ROLLBACK_STALE", "ROLLBACK_FROM_FUTURE"})
  <2> DEFINE items == OfKind(evidence, "rollback_drill")
  <2>1. items # <<>> /\ Len(items) \in Nat /\ DOMAIN items = 1..Len(items)
        /\ \E k \in DOMAIN items : items[k] = o
    BY ObservedAre
  <2>2. ~(Len(items) > 1)
    BY <1>4 DEF Malformed, SeveralDrills
  <2>3. items[1] = o
    <3> HIDE DEF items
    <3>1. QED
      BY <2>1, <2>2
  <2>4. o.payload.at \in Int
    BY ObservedTimes DEF ObservedOf
  <2>5. CASE Found(gates[14], RollbackCodes)
    <3>1. Found(gates[14], {"ROLLBACK_STALE", "ROLLBACK_FROM_FUTURE"}
                             \cup {"ARTIFACT_BINDING_MISMATCH"})
      BY <2>5 DEF Found, RollbackCodes
    <3>2. QED
      BY <3>1, <1>6
  <2>6. CASE ~Found(gates[14], RollbackCodes)
    <3>1. ~FromFuture(o.payload.at, now) /\ ~Stale(o.payload.at, now, policy.rollback_max_age)
      BY <2>1, <2>3, <2>6, <1>5, RollbackVerdict
    <3>2. QED
      BY <3>1, <2>4, <1>2, <1>3
  <2>7. QED
    BY <2>5, <2>6
<1>9. ASSUME NEW o \in ObservedOf("deploy_observation")
      PROVE  \/ within(o.payload.at, policy.max_age)
             \/ excused({"DEPLOY_OBSERVATION_STALE", "DEPLOY_ENVIRONMENT_MISMATCH"})
  <2> DEFINE items == OfKind(evidence, "deploy_observation")
  <2>1. items # <<>> /\ Len(items) \in Nat /\ DOMAIN items = 1..Len(items)
        /\ \E k \in DOMAIN items : items[k] = o
    BY ObservedAre
  <2>2. ~(Len(items) > 1)
    BY <1>4 DEF Malformed, SeveralDeploys
  <2>3. items[1] = o
    <3> HIDE DEF items
    <3>1. QED
      BY <2>1, <2>2
  <2>4. o.payload.at \in Int
    BY ObservedTimes DEF ObservedOf
  <2>5. CASE Found(gates[15], DeploymentCodes)
    <3>1. Found(gates[15], {"DEPLOY_OBSERVATION_STALE", "DEPLOY_ENVIRONMENT_MISMATCH"}
                           \cup {"ARTIFACT_BINDING_MISMATCH"})
      BY <2>5 DEF Found, DeploymentCodes
    <3>2. QED
      BY <3>1, <1>6
  <2>6. CASE ~Found(gates[15], DeploymentCodes)
    <3>1. ~FromFuture(o.payload.at, now) /\ ~Stale(o.payload.at, now, policy.max_age)
      BY <2>1, <2>3, <2>6, <1>5, DeploymentVerdict
    <3>2. QED
      BY <3>1, <2>4, <1>2, <1>3
  <2>7. QED
    BY <2>5, <2>6
<1>10. QED
  BY <1>7, <1>8, <1>9 DEF within, excused

\* A READY release rests on evidence of now, or on a waiver that has not expired
\* (engine.py:117-131, 481-484, 510, 543).
THEOREM ReadyReleasesAreFresh == Spec => []ReadyIsFresh
BY SessionInvariant, FreshWhenReady, PTL

-----------------------------------------------------------------------------
(* Reruns.                                                                 *)

\* What a run of continuous integration is an attempt at.
CIKey(o) == <<o.payload.check, o.payload.matrix>>

AttemptsIn(obs, n, key) ==
  {i \in 1..n : obs[i].kind = "ci_run" /\ CIKey(obs[i]) = key}

Gathers(s, items, I) ==
  /\ IsFiniteSet(DOMAIN s)
  /\ \A k \in DOMAIN s : \E i \in I : s[k] = items[i]
  /\ \A i \in I : \E k \in DOMAIN s : s[k] = items[i]

LEMMA AttemptsAre ==
  ASSUME NEW ev, NEW n \in Nat, DOMAIN ev.observations = 1..n, NEW key
  PROVE  Gathers(Attempts(ev, key), ev.observations, AttemptsIn(ev.observations, n, key))
<1> DEFINE J == {i \in 1..n : ev.observations[i].kind = "ci_run"}
           I == AttemptsIn(ev.observations, n, key)
           all == OfKind(ev, "ci_run")
           K == {k \in DOMAIN all : CIKey(all[k]) = key}
           items == Those(all, K)
<1>1. Attempts(ev, key) = items
  BY DEF Attempts, Select, CIKey
<1>2. Lists(all, ev.observations, J)
  BY OfKindAre
<1> HIDE DEF all, J
<1>3. Cardinality(J) \in Nat /\ DOMAIN all = 1..Cardinality(J)
  BY <1>2 DEF Lists
<1>4. Lists(items, all, K)
  <2>1. K \subseteq 1..Cardinality(J)
    BY <1>3
  <2> HIDE DEF K
  <2>2. QED
    BY <2>1, <1>3, ThoseAre
<1> HIDE DEF items
<1>5. IsFiniteSet(DOMAIN items)
  BY <1>4, FS_Interval DEF Lists
<1>6. \A k \in DOMAIN items : \E i \in I : items[k] = ev.observations[i]
  <2> TAKE k \in DOMAIN items
  <2>1. PICK m \in K : items[k] = all[m]
    BY <1>4 DEF Lists
  <2>2. PICK i \in J : all[m] = ev.observations[i]
    BY <2>1, <1>2 DEF Lists
  <2>3. i \in I
    BY <2>1, <2>2 DEF J, AttemptsIn
  <2>4. QED
    BY <2>1, <2>2, <2>3
<1>7. \A i \in I : \E k \in DOMAIN items : items[k] = ev.observations[i]
  <2> TAKE i \in I
  <2>1. PICK m \in DOMAIN all : all[m] = ev.observations[i]
    BY <1>2 DEF Lists, J, AttemptsIn
  <2>2. m \in K
    BY <2>1 DEF AttemptsIn
  <2>3. QED
    BY <2>1, <2>2, <1>4 DEF Lists
<1>8. QED
  BY <1>1, <1>5, <1>6, <1>7 DEF Gathers

\* The gate does not pass exactly when the attempts of some required check are too few
\* or fail too often.
LEMMA FlakinessPasses ==
  ASSUME NEW ev, NEW n \in Nat, DOMAIN ev.observations = 1..n, NEW pol
  PROVE  FlakinessGate(ev, pol).status # "pass" <=>
           \E i \in 1..n : LET o == ev.observations[i] IN
             /\ o.kind = "ci_run" /\ CIKey(o) \in Required(pol)
             /\ \/ TooFewRuns(Attempts(ev, CIKey(o)), pol)
                \/ FlakeRateExceeded(Attempts(ev, CIKey(o)), pol)
<1> DEFINE items == OfKind(ev, "ci_run")
           seen == {key \in Required(pol) : Attempts(ev, key) # <<>>}
           few == {key \in seen : TooFewRuns(Attempts(ev, key), pol)}
           many == {key \in seen : FlakeRateExceeded(Attempts(ev, key), pol)}
           A == {k \in DOMAIN items : CIKey(items[k]) \in few}
           B == {k \in DOMAIN items : CIKey(items[k]) \in many}
           sparse == Those(items, A)
           flaky == Those(items, B)
           r1 == Row(sparse # <<>>, "unknown", "FLAKE_SAMPLES_INSUFFICIENT", sparse)
           r2 == Row(flaky # <<>>, "fail", "FLAKE_RATE_EXCEEDED", flaky)
           r3 == Row(TRUE, "pass", "FLAKE_RATE_ACCEPTABLE", items)
           rows == <<r1, r2, r3>>
           gate == FlakinessGate(ev, pol)
<1>1. gate = Verdict("flakiness", rows)
  BY DEF FlakinessGate, Select, CIKey
<1> HIDE DEF gate
<1>2. Lists(items, ev.observations, {i \in 1..n : ev.observations[i].kind = "ci_run"})
  BY OfKindAre
<1>3. \E N \in Nat : DOMAIN items = 1..N
  BY <1>2 DEF Lists
<1>4. (sparse = <<>> <=> A = {}) /\ (flaky = <<>> <=> B = {})
  <2>1. PICK N \in Nat : DOMAIN items = 1..N
    BY <1>3
  <2>2. A \subseteq 1..N /\ B \subseteq 1..N
    BY <2>1
  <2> HIDE DEF A, B, items
  <2>3. Lists(sparse, items, A) /\ Lists(flaky, items, B)
    BY <2>2, ThoseAre
  <2> HIDE DEF sparse, flaky
  <2>4. QED
    BY <2>3 DEF Lists
<1>5. \A i \in 1..n : ev.observations[i].kind = "ci_run" =>
        Attempts(ev, CIKey(ev.observations[i])) # <<>>
  <2> TAKE i \in 1..n
  <2> HAVE ev.observations[i].kind = "ci_run"
  <2>1. i \in AttemptsIn(ev.observations, n, CIKey(ev.observations[i]))
    BY DEF AttemptsIn
  <2>2. \E k \in DOMAIN Attempts(ev, CIKey(ev.observations[i])) : TRUE
    BY <2>1, AttemptsAre DEF Gathers
  <2>3. QED
    BY <2>2
<1> DEFINE Bad(key) == \/ TooFewRuns(Attempts(ev, key), pol)
                       \/ FlakeRateExceeded(Attempts(ev, key), pol)
<1>6. A # {} \/ B # {} <=>
        \E i \in 1..n : /\ ev.observations[i].kind = "ci_run"
                        /\ CIKey(ev.observations[i]) \in Required(pol)
                        /\ Bad(CIKey(ev.observations[i]))
  <2>1. ASSUME NEW k \in A \cup B
        PROVE  \E i \in 1..n : /\ ev.observations[i].kind = "ci_run"
                               /\ CIKey(ev.observations[i]) \in Required(pol)
                               /\ Bad(CIKey(ev.observations[i]))
    <3>1. CIKey(items[k]) \in Required(pol) /\ Bad(CIKey(items[k])) /\ k \in DOMAIN items
      OBVIOUS
    <3> HIDE DEF items, Bad
    <3>2. PICK i \in 1..n : ev.observations[i].kind = "ci_run" /\ items[k] = ev.observations[i]
      BY <3>1, <1>2 DEF Lists
    <3>3. QED
      BY <3>1, <3>2
  <2>2. ASSUME NEW i \in 1..n, ev.observations[i].kind = "ci_run",
               CIKey(ev.observations[i]) \in Required(pol), Bad(CIKey(ev.observations[i]))
        PROVE  A # {} \/ B # {}
    <3>1. PICK k \in DOMAIN items : items[k] = ev.observations[i]
      BY <2>2, <1>2 DEF Lists
    <3>2. CIKey(items[k]) \in seen
      BY <3>1, <2>2, <1>5
    <3>3. CIKey(items[k]) \in few \/ CIKey(items[k]) \in many
      BY <3>1, <3>2, <2>2
    <3>4. QED
      BY <3>3
  <2>3. QED
    BY <2>1, <2>2
<1>7. (r1 # {} <=> A # {}) /\ (r2 # {} <=> B # {}) /\ r3 # {}
  <2> HIDE DEF A, B, sparse, flaky
  <2>1. QED
    BY <1>4 DEF Row
<1>8. /\ \A r \in r1 \cup r2 : Found(r, {"FLAKE_SAMPLES_INSUFFICIENT", "FLAKE_RATE_EXCEEDED"})
      /\ \A r \in r3 : r.status = "pass"
  <2>1. \A r \in r1 \cup r2 : Found(r, {"FLAKE_SAMPLES_INSUFFICIENT", "FLAKE_RATE_EXCEEDED"})
    BY RowFound
  <2>2. \A r \in r3 : r.status = "pass"
    BY DEF Row
  <2>3. QED
    BY <2>1, <2>2
<1> HIDE DEF r1, r2, r3, A, B
<1>9. DOMAIN rows = 1..3 /\ rows[1] = r1 /\ rows[2] = r2 /\ rows[3] = r3
  OBVIOUS
<1> HIDE DEF rows
<1>10. ASSUME A # {} \/ B # {} PROVE gate.status # "pass"
  <2>1. PICK j \in 1..2 : rows[j] # {}
    BY <1>7, <1>9, <1>10
  <2>2. j \in 1..3 /\ 3 \in Nat
        /\ \A k \in 1..j : \A r \in rows[k] :
             Found(r, {"FLAKE_SAMPLES_INSUFFICIENT", "FLAKE_RATE_EXCEEDED"})
    BY <1>8, <1>9
  <2>3. Found(gate, {"FLAKE_SAMPLES_INSUFFICIENT", "FLAKE_RATE_EXCEEDED"})
    BY <2>1, <2>2, <1>1, <1>9, VerdictFound
  <2>4. QED
    BY <2>3 DEF Found
<1>11. ASSUME gate.status # "pass" PROVE A # {} \/ B # {}
  <2>1. 3 \in Nat /\ 3 \in 1..3 /\ rows[3] # {}
    BY <1>7, <1>9
  <2>2. PICK k \in 1..3 : \E r \in rows[k] :
          Verdict("flakiness", rows) = Result("flakiness", r.status, r.code, r.items)
    BY <2>1, <1>9, VerdictIsARow
  <2>3. k # 3
    BY <2>2, <1>1, <1>8, <1>9, <1>11 DEF Result
  <2>4. QED
    BY <2>2, <2>3, <1>7, <1>9
<1>12. QED
  BY <1>6, <1>10, <1>11 DEF gate

\* One more observation takes nothing away from the attempts that failed.
LEMMA FailuresStay ==
  ASSUME NEW ev, NEW n \in Nat, DOMAIN ev.observations = 1..n,
         NEW ew, NEW m \in Nat, DOMAIN ew.observations = 1..m, n <= m,
         \A i \in 1..n : ew.observations[i] = ev.observations[i], NEW key
  PROVE  /\ FailedRuns(Attempts(ev, key)) \subseteq FailedRuns(Attempts(ew, key))
         /\ IsFiniteSet(FailedRuns(Attempts(ew, key)))
         /\ IsFiniteSet(RunsOf(Attempts(ew, key)))
<1> DEFINE old == Attempts(ev, key)
           new == Attempts(ew, key)
           I == AttemptsIn(ev.observations, n, key)
           J == AttemptsIn(ew.observations, m, key)
<1>1. Gathers(old, ev.observations, I) /\ Gathers(new, ew.observations, J)
  BY AttemptsAre
<1>2. \A i \in I : i \in J /\ ew.observations[i] = ev.observations[i]
  BY DEF AttemptsIn
<1> HIDE DEF old, new, I, J
<1>3. \A k \in DOMAIN old : \E l \in DOMAIN new : new[l] = old[k]
  <2> TAKE k \in DOMAIN old
  <2>1. PICK i \in I : old[k] = ev.observations[i]
    BY <1>1 DEF Gathers
  <2>2. PICK l \in DOMAIN new : new[l] = ew.observations[i]
    BY <2>1, <1>1, <1>2 DEF Gathers
  <2>3. QED
    BY <2>1, <2>2, <1>2
<1>4. FailedRuns(old) \subseteq FailedRuns(new)
  BY <1>3 DEF FailedRuns, RunsOf
<1>5. IsFiniteSet(RunsOf(new))
  <2> DEFINE f == [i \in DOMAIN new |-> new[i].payload.run]
  <2>1. f \in Surjection(DOMAIN new, RunsOf(new))
    BY DEF Surjection, RunsOf
  <2>2. IsFiniteSet(DOMAIN new)
    BY <1>1 DEF Gathers
  <2> HIDE DEF f
  <2>3. QED
    BY <2>1, <2>2, FS_Surjection
<1>6. FailedRuns(new) \subseteq RunsOf(new)
  BY DEF FailedRuns
<1>7. QED
  BY <1>4, <1>5, <1>6, FS_Subset DEF old, new

LEMMA RerunStep ==
  ASSUME SessionInv, Collect,
         [key \in Required(policy) |-> RunsOf(Attempts(evidence, key))]
           = [key \in Required(policy) |-> RunsOf(Attempts(evidence', key))],
         FlakinessGate(evidence, policy).status # "pass"
  PROVE  FlakinessGate(evidence', policy).status # "pass"
<1> DEFINE n == Len(evidence.observations)
<1>1. n \in Nat /\ DOMAIN evidence.observations = 1..n
  BY DEF SessionInv, InputsInv
<1>2. /\ DOMAIN evidence'.observations = 1..(n + 1)
      /\ \A i \in 1..n : evidence'.observations[i] = evidence.observations[i]
  <2>1. PICK o \in Arriving :
          evidence' = [evidence EXCEPT !.observations = Append(evidence.observations, o)]
    BY DEF Collect
  <2>2. evidence'.observations = Append(evidence.observations, o)
    BY <2>1 DEF SessionInv, InputsInv
  <2>3. o \in Offered /\ evidence.observations \in Seq(Offered)
    BY DEF Offered, SessionInv, InputsInv
  <2>4. QED
    BY <2>2, <2>3, AppendProperties
<1> HIDE DEF n
<1>3. PICK i \in 1..n :
        /\ evidence.observations[i].kind = "ci_run"
        /\ CIKey(evidence.observations[i]) \in Required(policy)
        /\ \/ TooFewRuns(Attempts(evidence, CIKey(evidence.observations[i])), policy)
           \/ FlakeRateExceeded(Attempts(evidence, CIKey(evidence.observations[i])), policy)
  BY <1>1, FlakinessPasses
<1> DEFINE key == CIKey(evidence.observations[i])
           old == Attempts(evidence, key)
           new == Attempts(evidence', key)
           limit == policy.max_flake_percent * Cardinality(RunsOf(old))
<1>4. RunsOf(old) = RunsOf(new)
  BY <1>3
<1>5. TooFewRuns(old, policy) => TooFewRuns(new, policy)
  <2> HIDE DEF old, new
  <2>1. QED
    BY <1>4 DEF TooFewRuns
<1>6. FlakeRateExceeded(old, policy) => FlakeRateExceeded(new, policy)
  <2>1. /\ FailedRuns(old) \subseteq FailedRuns(new)
        /\ IsFiniteSet(FailedRuns(new)) /\ IsFiniteSet(RunsOf(new))
    <3> DEFINE m == n + 1
    <3>1. m \in Nat /\ n <= m /\ DOMAIN evidence'.observations = 1..m
      BY <1>1, <1>2
    <3> HIDE DEF m, key
    <3>2. QED
      BY <3>1, <1>1, <1>2, FailuresStay
  <2> HIDE DEF old, new
  <2>2. /\ Cardinality(FailedRuns(old)) \in Nat /\ Cardinality(FailedRuns(new)) \in Nat
        /\ Cardinality(FailedRuns(old)) <= Cardinality(FailedRuns(new))
    BY <2>1, FS_Subset, FS_CardinalityType
  <2>3. limit \in Int
    <3>1. Cardinality(RunsOf(old)) \in Int
      BY <1>4, <2>1, FS_CardinalityType
    <3>2. policy.max_flake_percent \in 0..100
      BY SessionAssumption DEF SessionInv, InputsInv, PolicyValid
    <3> DEFINE p == policy.max_flake_percent
               c == Cardinality(RunsOf(old))
    <3>3. p \in 0..100 /\ c \in Int
      BY <3>1, <3>2
    <3> HIDE DEF p, c
    <3>4. p * c \in Int
      BY <3>3
    <3>5. QED
      BY <3>4 DEF p, c
  <2>4. /\ FlakeRateExceeded(old, policy) <=> 100 * Cardinality(FailedRuns(old)) > limit
        /\ FlakeRateExceeded(new, policy) <=> 100 * Cardinality(FailedRuns(new)) > limit
    BY <1>4 DEF FlakeRateExceeded
  <2> HIDE DEF limit
  <2>5. QED
    BY <2>2, <2>3, <2>4
<1>7. evidence'.observations[i] = evidence.observations[i] /\ i \in 1..(n + 1) /\ n + 1 \in Nat
  BY <1>1, <1>2
<1>8. TooFewRuns(new, policy) \/ FlakeRateExceeded(new, policy)
  BY <1>3, <1>5, <1>6
<1> HIDE DEF key, new
<1>9. \E j \in 1..(n + 1) : LET o == evidence'.observations[j] IN
        /\ o.kind = "ci_run" /\ CIKey(o) \in Required(policy)
        /\ \/ TooFewRuns(Attempts(evidence', CIKey(o)), policy)
           \/ FlakeRateExceeded(Attempts(evidence', CIKey(o)), policy)
  BY <1>3, <1>7, <1>8 DEF key, new
<1>10. QED
  BY <1>2, <1>7, <1>9, FlakinessPasses

\* "a green rerun does not erase earlier failing evidence" (engine.py:237).
THEOREM RerunsEraseNothing == Spec => RerunNeverErases
<1> DEFINE runs(ev) == [key \in Required(policy) |-> RunsOf(Attempts(ev, key))]
           A == /\ runs(evidence) = runs(evidence')
                /\ FlakinessGate(evidence, policy).status # "pass"
                => FlakinessGate(evidence', policy).status # "pass"
<1>1. SessionInv /\ [Next]_vars => [A]_evidence
  <2> SUFFICES ASSUME SessionInv, [Next]_vars, evidence' # evidence PROVE A
    OBVIOUS
  <2>1. Collect
    BY DEF Next, Grant, Tick, Decide, vars
  <2>2. QED
    BY <2>1, RerunStep
<1>2. QED
  BY <1>1, SessionInvariant, PTL DEF Spec, RerunNeverErases

-----------------------------------------------------------------------------
(* The order of observations.                                              *)

\* A list, of which nothing is known but that it has a length.
IsList(s) ==
  /\ Len(s) \in Nat /\ DOMAIN s = 1..Len(s)
  /\ s = <<>> <=> Len(s) = 0

\* f says where the items of s are in t.
Moves(f, s, t) ==
  /\ f \in Bijection(1..Len(s), 1..Len(s))
  /\ \A i \in 1..Len(s) : t[f[i]] = s[i]

\* t has the items of s, in an order of its own.
Shuffled(s, t) ==
  /\ IsList(s) /\ IsList(t) /\ Len(s) = Len(t)
  /\ \E f : Moves(f, s, t)

\* Every two items of s are in t, at two positions if they are at two.
PairsIn(s, t) ==
  \A i, k \in DOMAIN s : \E j, l \in DOMAIN t :
    t[j] = s[i] /\ t[l] = s[k] /\ (i = k <=> j = l)

\* The items of a shuffled list, two at a time.
LEMMA ShuffledPairs ==
  ASSUME NEW s, NEW t, Shuffled(s, t)
  PROVE  PairsIn(s, t) /\ PairsIn(t, s)
<1>1. PICK f : Moves(f, s, t)
  BY DEF Shuffled
<1>2. /\ \A i \in 1..Len(s) : f[i] \in 1..Len(s) /\ t[f[i]] = s[i]
      /\ \A i, k \in 1..Len(s) : f[i] = f[k] => i = k
      /\ \A j \in 1..Len(s) : \E i \in 1..Len(s) : f[i] = j
  BY <1>1 DEF Moves, Bijection, Injection, Surjection, IsInjective
<1>3. DOMAIN s = 1..Len(s) /\ DOMAIN t = 1..Len(s)
  BY DEF Shuffled, IsList
<1>4. ASSUME NEW i \in 1..Len(s), NEW k \in 1..Len(s)
      PROVE  \E j, l \in DOMAIN t : t[j] = s[i] /\ t[l] = s[k] /\ (i = k <=> j = l)
  <2>1. f[i] \in DOMAIN t /\ f[k] \in DOMAIN t /\ (i = k <=> f[i] = f[k])
    BY <1>2, <1>3
  <2>2. t[f[i]] = s[i] /\ t[f[k]] = s[k]
    BY <1>2
  <2>3. QED
    BY <2>1, <2>2
<1>5. ASSUME NEW j \in 1..Len(s), NEW l \in 1..Len(s)
      PROVE  \E i, k \in DOMAIN s : s[i] = t[j] /\ s[k] = t[l] /\ (j = l <=> i = k)
  <2>1. PICK i \in 1..Len(s) : f[i] = j
    BY <1>2
  <2>2. PICK k \in 1..Len(s) : f[k] = l
    BY <1>2
  <2>3. t[j] = s[i] /\ t[l] = s[k] /\ (i = k <=> j = l)
    BY <1>2, <2>1, <2>2
  <2>4. QED
    BY <1>3, <2>3
<1>6. QED
  BY <1>3, <1>4, <1>5 DEF PairsIn

\* The items alone, when it does not matter how often they are there.
LEMMA ShuffledItems ==
  ASSUME NEW s, NEW t, Shuffled(s, t)
  PROVE  /\ \A i \in DOMAIN s : \E j \in DOMAIN t : t[j] = s[i]
         /\ \A j \in DOMAIN t : \E i \in DOMAIN s : t[j] = s[i]
         /\ Len(s) = Len(t) /\ Len(s) \in Nat
         /\ s = <<>> <=> t = <<>>
         /\ Len(s) = 1 => 1 \in DOMAIN s /\ t[1] = s[1]
<1>1. /\ \A i \in DOMAIN s : \E j \in DOMAIN t : t[j] = s[i]
      /\ \A j \in DOMAIN t : \E i \in DOMAIN s : t[j] = s[i]
  BY ShuffledPairs DEF PairsIn
<1>2. /\ Len(s) = Len(t) /\ Len(s) \in Nat /\ (s = <<>> <=> t = <<>>)
      /\ DOMAIN s = 1..Len(s) /\ DOMAIN t = 1..Len(s)
  BY DEF Shuffled, IsList
<1>3. ASSUME Len(s) = 1 PROVE 1 \in DOMAIN s /\ t[1] = s[1]
  BY <1>1, <1>2, <1>3
<1>4. QED
  BY <1>1, <1>2, <1>3

\* Nothing can be shuffled only one way.
LEMMA ShuffledEmpty == Shuffled(<<>>, <<>>)
<1> DEFINE f == [i \in {} |-> i]
<1>1. Len(<<>>) = 0 /\ DOMAIN <<>> = {} /\ 1..0 = {}
  OBVIOUS
<1>2. f \in Bijection({}, {})
  BY DEF Bijection, Injection, Surjection, IsInjective
<1>3. Moves(f, <<>>, <<>>)
  BY <1>1, <1>2 DEF Moves
<1>4. QED
  BY <1>1, <1>3 DEF Shuffled, IsList

\* What is taken from s at the positions I, and from t at those where the same items are.
LEMMA SelectedBy ==
  ASSUME NEW s, NEW t, NEW f, IsList(s), IsList(t), Len(s) = Len(t), Moves(f, s, t),
         NEW I, I \subseteq DOMAIN s, NEW J, J \subseteq DOMAIN t,
         \A i \in DOMAIN s : i \in I <=> f[i] \in J
  PROVE  Shuffled(Those(s, I), Those(t, J))
<1> DEFINE n == Len(s)
           a == Those(s, I)
           b == Those(t, J)
           N == Cardinality(I)
<1>1. n \in Nat /\ DOMAIN s = 1..n /\ DOMAIN t = 1..n /\ I \subseteq 1..n /\ J \subseteq 1..n
  BY DEF IsList
<1>2. /\ \A i \in 1..n : f[i] \in 1..n /\ t[f[i]] = s[i]
      /\ \A i, k \in 1..n : f[i] = f[k] => i = k
      /\ \A j \in 1..n : \E i \in 1..n : f[i] = j
  BY DEF Moves, Bijection, Injection, Surjection, IsInjective
<1> HIDE DEF n
<1>3. /\ IsFiniteSet(I) /\ N \in Nat /\ IsFiniteSet(J)
      /\ \E h : Taken(h, a, s, I)
      /\ \E h : Taken(h, b, t, J)
  BY <1>1, ThosePositions
<1>4. Cardinality(J) = N
  <2> DEFINE g == [i \in I |-> f[i]]
  <2>1. g \in [I -> J] /\ \A i, k \in I : g[i] = g[k] => i = k
    BY <1>1, <1>2
  <2>2. \A j \in J : \E i \in I : g[i] = j
    <3> TAKE j \in J
    <3>1. PICK i \in 1..n : f[i] = j
      BY <1>1, <1>2
    <3>2. i \in I
      BY <3>1, <1>1
    <3>3. QED
      BY <3>1, <3>2
  <2> HIDE DEF g
  <2>3. g \in Bijection(I, J)
    BY <2>1, <2>2 DEF Bijection, Injection, Surjection, IsInjective
  <2>4. ExistsBijection(I, J)
    BY <2>3 DEF ExistsBijection
  <2>5. QED
    BY <2>4, <1>3, FS_Bijection
<1>5. PICK h : Taken(h, a, s, I)
  BY <1>3
<1>6. PICK e : Taken(e, b, t, J)
  BY <1>3
<1> HIDE DEF a, b
<1>7. /\ a = [k \in 1..N |-> s[h[k]]]
      /\ \A k \in 1..N : h[k] \in I
      /\ \A k, m \in 1..N : h[k] = h[m] => k = m
      /\ \A i \in I : \E k \in 1..N : h[k] = i
  BY <1>5 DEF Taken, Bijection, Injection, Surjection, IsInjective
<1>8. /\ b = [k \in 1..N |-> t[e[k]]]
      /\ \A k \in 1..N : e[k] \in J
      /\ \A k, m \in 1..N : e[k] = e[m] => k = m
      /\ \A j \in J : \E k \in 1..N : e[k] = j
  BY <1>4, <1>6 DEF Taken, Bijection, Injection, Surjection, IsInjective
<1> HIDE DEF N
<1>9. /\ Len(a) = N /\ DOMAIN a = 1..N /\ Len(b) = N /\ DOMAIN b = 1..N
  BY <1>3, <1>7, <1>8
<1>10. (a = <<>> <=> N = 0) /\ (b = <<>> <=> N = 0)
  <2>1. N = 0 => a = <<>> /\ b = <<>>
    BY <1>7, <1>8
  <2>2. a = <<>> \/ b = <<>> => N = 0
    BY <1>9
  <2>3. QED
    BY <2>1, <2>2
<1>11. IsList(a) /\ IsList(b) /\ Len(a) = Len(b)
  BY <1>3, <1>9, <1>10 DEF IsList
<1> DEFINE to(k) == CHOOSE m \in 1..N : e[m] = f[h[k]]
           g == [k \in 1..N |-> to(k)]
<1>12. \A k \in 1..N : to(k) \in 1..N /\ e[to(k)] = f[h[k]]
  <2> TAKE k \in 1..N
  <2>1. f[h[k]] \in J
    BY <1>1, <1>7
  <2>2. \E m \in 1..N : e[m] = f[h[k]]
    BY <2>1, <1>8
  <2>3. QED
    BY <2>2
<1>13. \A k \in 1..N : g[k] \in 1..N /\ e[g[k]] = f[h[k]]
  BY <1>12
<1>14. g \in [1..N -> 1..N]
  BY <1>12
<1> HIDE DEF g, to
<1>15. \A k, m \in 1..N : g[k] = g[m] => k = m
  <2> SUFFICES ASSUME NEW k \in 1..N, NEW m \in 1..N, g[k] = g[m] PROVE k = m
    OBVIOUS
  <2>1. f[h[k]] = f[h[m]] /\ h[k] \in 1..n /\ h[m] \in 1..n
    BY <1>1, <1>7, <1>13
  <2>2. h[k] = h[m]
    <3>1. \A i, j \in 1..n : f[i] = f[j] => i = j
      BY <1>2
    <3>2. QED
      BY ONLY <2>1, <3>1
  <2>3. QED
    BY <2>2, <1>7
<1>16. \A m \in 1..N : \E k \in 1..N : g[k] = m
  <2> TAKE m \in 1..N
  <2>1. PICK i \in 1..n : f[i] = e[m]
    BY <1>1, <1>2, <1>8
  <2>2. i \in I
    BY <2>1, <1>1, <1>8
  <2>3. PICK k \in 1..N : h[k] = i
    BY <2>2, <1>7
  <2>4. e[g[k]] = e[m] /\ g[k] \in 1..N
    BY <2>1, <2>3, <1>13
  <2>5. QED
    BY <2>4, <1>8
<1>17. g \in Bijection(1..N, 1..N)
  BY <1>14, <1>15, <1>16 DEF Bijection, Injection, Surjection, IsInjective
<1>18. \A k \in 1..N : b[g[k]] = a[k]
  <2> TAKE k \in 1..N
  <2>1. g[k] \in 1..N /\ b[g[k]] = t[f[h[k]]] /\ h[k] \in 1..n
    BY <1>1, <1>7, <1>8, <1>13
  <2>2. QED
    BY <2>1, <1>2, <1>7
<1>19. Moves(g, a, b)
  BY <1>9, <1>17, <1>18 DEF Moves
<1>20. QED
  BY <1>11, <1>19 DEF Shuffled, a, b

\* When the items alone decide what is taken.
LEMMA Selected ==
  ASSUME NEW s, NEW t, Shuffled(s, t),
         NEW I, I \subseteq DOMAIN s, NEW J, J \subseteq DOMAIN t,
         \A i \in DOMAIN s, j \in DOMAIN t : s[i] = t[j] => (i \in I <=> j \in J)
  PROVE  Shuffled(Those(s, I), Those(t, J))
<1>1. PICK f : Moves(f, s, t)
  BY DEF Shuffled
<1>2. IsList(s) /\ IsList(t) /\ Len(s) = Len(t)
  BY DEF Shuffled
<1>3. \A i \in DOMAIN s : i \in I <=> f[i] \in J
  BY <1>1, <1>2 DEF Moves, IsList, Bijection, Surjection
<1>4. QED
  BY <1>1, <1>2, <1>3, SelectedBy

\* Evidence that lists the same observations in another order.
Reordered(ev, ev2) ==
  /\ ev2.candidate = ev.candidate /\ ev2.release = ev.release
  /\ ev2.created_at = ev.created_at
  /\ Shuffled(ev.observations, ev2.observations)

\* The observations of one kind are in an order of their own too.
LEMMA ReorderedKind ==
  ASSUME NEW ev, NEW ev2, Reordered(ev, ev2), NEW kind
  PROVE  Shuffled(OfKind(ev, kind), OfKind(ev2, kind))
<1> DEFINE s == ev.observations
           t == ev2.observations
           I == {i \in DOMAIN s : s[i].kind = kind}
           J == {i \in DOMAIN t : t[i].kind = kind}
<1>1. OfKind(ev, kind) = Those(s, I) /\ OfKind(ev2, kind) = Those(t, J)
  BY DEF OfKind, Select
<1>2. Shuffled(s, t)
  BY DEF Reordered
<1>3. \A i \in DOMAIN s, j \in DOMAIN t : s[i] = t[j] => (i \in I <=> j \in J)
  OBVIOUS
<1>4. I \subseteq DOMAIN s /\ J \subseteq DOMAIN t
  OBVIOUS
<1> HIDE DEF s, t, I, J
<1>5. Shuffled(Those(s, I), Those(t, J))
  BY <1>2, <1>3, <1>4, Selected
<1>6. QED
  BY <1>1, <1>5

\* The other way round is an order.
LEMMA ReverseShuffles ==
  ASSUME NEW S, NEW s \in Seq(S)
  PROVE  Shuffled(s, Reverse(s))
<1> DEFINE n == Len(s)
           t == Reverse(s)
           f == [i \in 1..n |-> (n - i) + 1]
<1>1. n \in Nat /\ DOMAIN s = 1..n /\ (s = <<>> <=> n = 0)
  OBVIOUS
<1>2. t = [i \in 1..n |-> s[(n - i) + 1]]
  BY DEF Reverse
<1>3. \A i \in 1..n : (n - i) + 1 \in 1..n /\ (n - ((n - i) + 1)) + 1 = i
  BY <1>1
<1> HIDE DEF n, t
<1>4. Len(t) = n /\ DOMAIN t = 1..n
  BY <1>1, <1>2
<1>5. t = <<>> <=> n = 0
  <2>1. n = 0 => t = <<>>
    BY <1>2
  <2>2. t = <<>> => n = 0
    BY <1>4
  <2>3. QED
    BY <2>1, <2>2
<1>6. \A i \in 1..n : f[i] \in 1..n /\ f[f[i]] = i /\ t[f[i]] = s[i]
  BY <1>2, <1>3
<1>7. f \in [1..n -> 1..n]
  BY <1>3
<1> HIDE DEF f
<1>8. f \in Bijection(1..n, 1..n)
  BY <1>6, <1>7 DEF Bijection, Injection, Surjection, IsInjective
<1>9. Moves(f, s, t)
  BY <1>6, <1>8 DEF Moves, n
<1>10. IsList(s) /\ IsList(t) /\ Len(s) = Len(t)
  BY <1>1, <1>4, <1>5 DEF IsList, n
<1>11. QED
  BY <1>9, <1>10 DEF Shuffled, t

-----------------------------------------------------------------------------
(* What an order leaves of the result of a gate.                           *)

\* Two results that differ at most in the order of what they list.
SameResult(g, h) ==
  /\ g.gate = h.gate /\ g.status = h.status /\ g.code = h.code
  /\ GateValid(g) <=> GateValid(h)

\* Two rows that apply to the same, and say the same of it.
SameRow(r, q) ==
  /\ r = {} <=> q = {}
  /\ \A a \in r, b \in q : a.status = b.status /\ a.code = b.code /\ Shuffled(a.items, b.items)

\* The ids of the items are different in any order.
LEMMA SameValid ==
  ASSUME NEW s, NEW t, Shuffled(s, t), NEW gate, NEW status, NEW code,
         NEW gate2, NEW status2, NEW code2
  PROVE  GateValid(Result(gate, status, code, s)) <=> GateValid(Result(gate2, status2, code2, t))
<1>1. PairsIn(s, t) /\ PairsIn(t, s)
  BY ShuffledPairs
<1> DEFINE a == [i \in DOMAIN s |-> s[i].id]
           b == [i \in DOMAIN t |-> t[i].id]
<1>2. /\ Result(gate, status, code, s).evidence = a
      /\ Result(gate2, status2, code2, t).evidence = b
  BY DEF Result
<1>3. ASSUME NEW i \in DOMAIN s, NEW k \in DOMAIN s, i # k, a[i] = a[k],
             \A j, l \in DOMAIN t : j # l => b[j] # b[l]
      PROVE  FALSE
  <2>1. PICK j \in DOMAIN t, l \in DOMAIN t : t[j] = s[i] /\ t[l] = s[k] /\ (i = k <=> j = l)
    BY <1>1 DEF PairsIn
  <2>2. QED
    BY <2>1, <1>3
<1>4. ASSUME NEW j \in DOMAIN t, NEW l \in DOMAIN t, j # l, b[j] = b[l],
             \A i, k \in DOMAIN s : i # k => a[i] # a[k]
      PROVE  FALSE
  <2>1. PICK i \in DOMAIN s, k \in DOMAIN s : s[i] = t[j] /\ s[k] = t[l] /\ (j = l <=> i = k)
    BY <1>1 DEF PairsIn
  <2>2. QED
    BY <2>1, <1>4
<1>5. DOMAIN a = DOMAIN s /\ DOMAIN b = DOMAIN t
  OBVIOUS
<1> HIDE DEF a, b
<1>6. (\A i, k \in DOMAIN a : i # k => a[i] # a[k])
        <=> (\A j, l \in DOMAIN b : j # l => b[j] # b[l])
  BY <1>3, <1>4, <1>5
<1>7. QED
  BY <1>2, <1>6 DEF GateValid

\* A result about the items in another order.
LEMMA SameResults ==
  ASSUME NEW gate, NEW status, NEW code, NEW s, NEW t, Shuffled(s, t)
  PROVE  SameResult(Result(gate, status, code, s), Result(gate, status, code, t))
<1>1. GateValid(Result(gate, status, code, s)) <=> GateValid(Result(gate, status, code, t))
  BY SameValid
<1>2. QED
  BY <1>1 DEF SameResult, Result

\* A row about the items in another order.
LEMMA SameRows ==
  ASSUME NEW p, NEW q, p <=> q, NEW status, NEW code, NEW s, NEW t,
         p => Shuffled(s, t)
  PROVE  SameRow(Row(p, status, code, s), Row(q, status, code, t))
<1>1. CASE p
  <2>1. /\ Row(p, status, code, s) = {[status |-> status, code |-> code, items |-> s]}
        /\ Row(q, status, code, t) = {[status |-> status, code |-> code, items |-> t]}
    BY <1>1 DEF Row
  <2>2. ASSUME NEW x \in Row(p, status, code, s), NEW y \in Row(q, status, code, t)
        PROVE  x.status = y.status /\ x.code = y.code /\ x.items = s /\ y.items = t
    BY <2>1
  <2>3. QED
    BY <1>1, <2>1, <2>2 DEF SameRow
<1>2. CASE ~p
  BY <1>2 DEF Row, SameRow
<1>3. QED
  BY <1>1, <1>2

\* Row by row the same: the verdict is the same.
SameTable(n, rows, rows2) ==
  /\ n \in Nat /\ DOMAIN rows = 1..n /\ DOMAIN rows2 = 1..n
  /\ \A k \in 1..n : SameRow(rows[k], rows2[k])
  /\ \E k \in 1..n : rows[k] # {}

\* Chains of early returns that are the same row by row end in the same result.
LEMMA SameVerdict ==
  ASSUME NEW gate, NEW n, NEW rows, NEW rows2, SameTable(n, rows, rows2)
  PROVE  SameResult(Verdict(gate, rows), Verdict(gate, rows2))
<1> DEFINE P(k) == rows[k] # {} /\ \A i \in 1..(k - 1) : rows[i] = {}
           Q(k) == rows2[k] # {} /\ \A i \in 1..(k - 1) : rows2[i] = {}
           T == {m \in 1..n : rows[m] # {}}
           first == CHOOSE k \in 1..n : P(k)
           a == CHOOSE x \in rows[first] : TRUE
           b == CHOOSE x \in rows2[first] : TRUE
<1>0. /\ n \in Nat /\ DOMAIN rows = 1..n /\ DOMAIN rows2 = 1..n
      /\ \A k \in 1..n : SameRow(rows[k], rows2[k])
      /\ \E k \in 1..n : rows[k] # {}
  BY DEF SameTable
<1>1. \A k \in 1..n : rows[k] = {} <=> rows2[k] = {}
  BY <1>0 DEF SameRow
<1>2. \A k \in 1..n : P(k) <=> Q(k)
  BY <1>0, <1>1
<1>3. (CHOOSE k \in 1..n : P(k)) = (CHOOSE k \in 1..n : Q(k))
  BY <1>2
<1>4. PICK m \in T : \A i \in T : m <= i
  <2>1. T \subseteq Nat /\ T # {}
    BY <1>0
  <2>2. QED
    BY <2>1, FirstOf
<1>5. P(m)
  <2>1. ASSUME NEW i \in 1..(m - 1) PROVE i \notin T /\ i \in 1..n
    BY <1>0, <1>4
  <2>2. QED
    BY <2>1, <1>0, <1>4
<1>6. first \in 1..n /\ P(first)
  BY <1>4, <1>5
<1>7. Verdict(gate, rows) = Result(gate, a.status, a.code, a.items)
  BY <1>0 DEF Verdict
<1>8. Verdict(gate, rows2) = Result(gate, b.status, b.code, b.items)
  BY <1>0, <1>3 DEF Verdict
<1> HIDE DEF first
<1>9. a \in rows[first] /\ b \in rows2[first]
  BY <1>1, <1>6
<1>10. a.status = b.status /\ a.code = b.code /\ Shuffled(a.items, b.items)
  BY <1>0, <1>6, <1>9 DEF SameRow
<1> HIDE DEF a, b
<1>11. QED
  BY <1>7, <1>8, <1>10, SameResults

-----------------------------------------------------------------------------
(* The gates, one by one.                                                  *)

\* The subjects in another order.
LEMMA SameSubject ==
  ASSUME NEW ev, NEW ev2, Reordered(ev, ev2)
  PROVE  SameResult(SubjectGate(ev), SubjectGate(ev2))
<1> DEFINE s == ev.observations
           t == ev2.observations
           I == {i \in DOMAIN s : s[i].subject # ev.candidate}
           J == {i \in DOMAIN t : t[i].subject # ev2.candidate}
           bad == Those(s, I)
           bad2 == Those(t, J)
           r1 == Row(bad # <<>>, "fail", "SUBJECT_MISMATCH", bad)
           r2 == Row(TRUE, "pass", "SUBJECT_BOUND", s)
           q1 == Row(bad2 # <<>>, "fail", "SUBJECT_MISMATCH", bad2)
           q2 == Row(TRUE, "pass", "SUBJECT_BOUND", t)
           rows == <<r1, r2>>
           rows2 == <<q1, q2>>
<1>1. SubjectGate(ev) = Verdict("subject_binding", rows)
  BY DEF SubjectGate, Select
<1>2. SubjectGate(ev2) = Verdict("subject_binding", rows2)
  BY DEF SubjectGate, Select
<1>3. Shuffled(s, t) /\ ev2.candidate = ev.candidate
  BY DEF Reordered
<1>4. Shuffled(bad, bad2)
  <2>1. \A i \in DOMAIN s, j \in DOMAIN t : s[i] = t[j] => (i \in I <=> j \in J)
    BY <1>3
  <2>2. I \subseteq DOMAIN s /\ J \subseteq DOMAIN t
    OBVIOUS
  <2> HIDE DEF s, t, I, J
  <2>3. QED
    BY <1>3, <2>1, <2>2, Selected
<1> HIDE DEF s, t, bad, bad2
<1>5. bad # <<>> <=> bad2 # <<>>
  BY <1>4, ShuffledItems
<1>6. SameRow(r1, q1) /\ SameRow(r2, q2) /\ r2 # {}
  BY <1>3, <1>4, <1>5, SameRows, RowHolds
<1> HIDE DEF r1, r2, q1, q2
<1>7. SameTable(2, rows, rows2)
  BY <1>6 DEF SameTable
<1> HIDE DEF rows, rows2
<1>8. QED
  BY <1>1, <1>2, <1>7, SameVerdict
\* The time stamps in another order.
LEMMA SameFreshness ==
  ASSUME NEW ev, NEW ev2, Reordered(ev, ev2), NEW pol, NEW date
  PROVE  SameResult(FreshnessGate(ev, pol, date), FreshnessGate(ev2, pol, date))
<1> DEFINE s == ev.observations
           t == ev2.observations
           F == {i \in DOMAIN s : FromFuture(s[i].at, date)}
           F2 == {i \in DOMAIN t : FromFuture(t[i].at, date)}
           S == {i \in DOMAIN s : Stale(s[i].at, date, pol.max_age)}
           S2 == {i \in DOMAIN t : Stale(t[i].at, date, pol.max_age)}
           future == Those(s, F)
           future2 == Those(t, F2)
           stale == Those(s, S)
           stale2 == Those(t, S2)
           r1 == Row(future # <<>>, "fail", "EVIDENCE_FROM_FUTURE", future)
           r2 == Row(stale # <<>>, "unknown", "EVIDENCE_STALE", stale)
           r3 == Row(TRUE, "pass", "EVIDENCE_FRESH", s)
           q1 == Row(future2 # <<>>, "fail", "EVIDENCE_FROM_FUTURE", future2)
           q2 == Row(stale2 # <<>>, "unknown", "EVIDENCE_STALE", stale2)
           q3 == Row(TRUE, "pass", "EVIDENCE_FRESH", t)
           rows == <<r1, r2, r3>>
           rows2 == <<q1, q2, q3>>
<1>1. FreshnessGate(ev, pol, date) = Verdict("freshness", rows)
  BY DEF FreshnessGate, Select
<1>2. FreshnessGate(ev2, pol, date) = Verdict("freshness", rows2)
  BY DEF FreshnessGate, Select
<1>3. Shuffled(s, t)
  BY DEF Reordered
<1>4. Shuffled(future, future2)
  <2>1. \A i \in DOMAIN s, j \in DOMAIN t : s[i] = t[j] => (i \in F <=> j \in F2)
    OBVIOUS
  <2>2. F \subseteq DOMAIN s /\ F2 \subseteq DOMAIN t
    OBVIOUS
  <2> HIDE DEF s, t, F, F2
  <2>3. QED
    BY <1>3, <2>1, <2>2, Selected
<1>5. Shuffled(stale, stale2)
  <2>1. \A i \in DOMAIN s, j \in DOMAIN t : s[i] = t[j] => (i \in S <=> j \in S2)
    OBVIOUS
  <2>2. S \subseteq DOMAIN s /\ S2 \subseteq DOMAIN t
    OBVIOUS
  <2> HIDE DEF s, t, S, S2
  <2>3. QED
    BY <1>3, <2>1, <2>2, Selected
<1> HIDE DEF s, t, future, future2, stale, stale2
<1>6. (future # <<>> <=> future2 # <<>>) /\ (stale # <<>> <=> stale2 # <<>>)
  BY <1>4, <1>5, ShuffledItems
<1>7. SameRow(r1, q1)
  BY <1>4, <1>6, SameRows
<1>8. SameRow(r2, q2)
  BY <1>5, <1>6, SameRows
<1>9. SameRow(r3, q3)
  BY <1>3, SameRows
<1>10. r3 # {}
  BY RowHolds
<1> HIDE DEF r1, q1, r2, q2, r3, q3
<1>11. SameTable(3, rows, rows2)
  BY <1>7, <1>8, <1>9, <1>10 DEF SameTable
<1> HIDE DEF rows, rows2
<1>12. QED
  BY <1>1, <1>2, <1>11, SameVerdict

\* The caches in another order.
LEMMA SameCICache ==
  ASSUME NEW ev, NEW ev2, Reordered(ev, ev2)
  PROVE  SameResult(CICacheGate(ev), CICacheGate(ev2))
<1> DEFINE s == OfKind(ev, "ci_run")
           t == OfKind(ev2, "ci_run")
           I == {i \in DOMAIN s : s[i].payload.cache_hit /\ ~s[i].payload.cache_bound}
           J == {i \in DOMAIN t : t[i].payload.cache_hit /\ ~t[i].payload.cache_bound}
           unsafe == Those(s, I)
           unsafe2 == Those(t, J)
           r1 == Row(unsafe # <<>>, "fail", "CI_CACHE_UNBOUND", unsafe)
           r2 == Row(TRUE, "pass", "CI_CACHE_BOUND", s)
           q1 == Row(unsafe2 # <<>>, "fail", "CI_CACHE_UNBOUND", unsafe2)
           q2 == Row(TRUE, "pass", "CI_CACHE_BOUND", t)
           rows == <<r1, r2>>
           rows2 == <<q1, q2>>
<1>1. CICacheGate(ev) = Verdict("ci_cache", rows)
  BY DEF CICacheGate, Select
<1>2. CICacheGate(ev2) = Verdict("ci_cache", rows2)
  BY DEF CICacheGate, Select
<1>3. Shuffled(s, t)
  BY ReorderedKind
<1>4. Shuffled(unsafe, unsafe2)
  <2>1. \A i \in DOMAIN s, j \in DOMAIN t : s[i] = t[j] => (i \in I <=> j \in J)
    OBVIOUS
  <2>2. I \subseteq DOMAIN s /\ J \subseteq DOMAIN t
    OBVIOUS
  <2> HIDE DEF s, t, I, J
  <2>3. QED
    BY <1>3, <2>1, <2>2, Selected
<1> HIDE DEF s, t, unsafe, unsafe2
<1>5. unsafe # <<>> <=> unsafe2 # <<>>
  BY <1>4, ShuffledItems
<1>6. SameRow(r1, q1)
  BY <1>4, <1>5, SameRows
<1>7. SameRow(r2, q2)
  BY <1>3, SameRows
<1>8. r2 # {}
  BY RowHolds
<1> HIDE DEF r1, q1, r2, q2
<1>9. SameTable(2, rows, rows2)
  BY <1>6, <1>7, <1>8 DEF SameTable
<1> HIDE DEF rows, rows2
<1>10. QED
  BY <1>1, <1>2, <1>9, SameVerdict

\* The artifacts in another order: the gate looks at sets of them.
LEMMA SameArtifact ==
  ASSUME NEW ev, NEW ev2, Reordered(ev, ev2), NEW pol
  PROVE  SameResult(ArtifactGate(ev, pol), ArtifactGate(ev2, pol))
<1> DEFINE s == OfKind(ev, "artifact")
           t == OfKind(ev2, "artifact")
           v == {s[i].payload.version : i \in DOMAIN s}
           v2 == {t[i].payload.version : i \in DOMAIN t}
           r1 == Row(s = <<>> /\ pol.require_artifact, "unknown", "ARTIFACT_MISSING", <<>>)
           r2 == Row(s = <<>>, "pass", "ARTIFACT_OPTIONAL", <<>>)
           r3 == Row(Cardinality(Names(s)) # Len(s), "fail", "ARTIFACT_BINDING_MISMATCH", s)
           r4 == Row(Names(s) # pol.artifacts, "fail", "ARTIFACT_SET_MISMATCH", s)
           r5 == Row(v # {pol.version}, "fail", "ARTIFACT_VERSION_MISMATCH", s)
           r6 == Row(\E i \in DOMAIN s : ~s[i].payload.install_tested,
                     "unknown", "ARTIFACT_NOT_INSTALL_TESTED", s)
           r7 == Row(TRUE, "pass", "ARTIFACT_VERIFIED", s)
           q1 == Row(t = <<>> /\ pol.require_artifact, "unknown", "ARTIFACT_MISSING", <<>>)
           q2 == Row(t = <<>>, "pass", "ARTIFACT_OPTIONAL", <<>>)
           q3 == Row(Cardinality(Names(t)) # Len(t), "fail", "ARTIFACT_BINDING_MISMATCH", t)
           q4 == Row(Names(t) # pol.artifacts, "fail", "ARTIFACT_SET_MISMATCH", t)
           q5 == Row(v2 # {pol.version}, "fail", "ARTIFACT_VERSION_MISMATCH", t)
           q6 == Row(\E i \in DOMAIN t : ~t[i].payload.install_tested,
                     "unknown", "ARTIFACT_NOT_INSTALL_TESTED", t)
           q7 == Row(TRUE, "pass", "ARTIFACT_VERIFIED", t)
           rows == <<r1, r2, r3, r4, r5, r6, r7>>
           rows2 == <<q1, q2, q3, q4, q5, q6, q7>>
<1>1. ArtifactGate(ev, pol) = Verdict("artifact", rows)
  BY DEF ArtifactGate
<1>2. ArtifactGate(ev2, pol) = Verdict("artifact", rows2)
  BY DEF ArtifactGate
<1>3. Shuffled(s, t) /\ Shuffled(<<>>, <<>>)
  BY ReorderedKind, ShuffledEmpty
<1> HIDE DEF s, t
<1>4. /\ s = <<>> <=> t = <<>>
      /\ Len(s) = Len(t)
      /\ \A i \in DOMAIN s : \E j \in DOMAIN t : t[j] = s[i]
      /\ \A j \in DOMAIN t : \E i \in DOMAIN s : t[j] = s[i]
  BY <1>3, ShuffledItems
<1>5. Names(s) = Names(t) /\ v = v2
  BY <1>4 DEF Names
<1>6. (\E i \in DOMAIN s : ~s[i].payload.install_tested)
        <=> (\E i \in DOMAIN t : ~t[i].payload.install_tested)
  BY <1>4
<1> HIDE DEF v, v2
<1>7. SameRow(r1, q1)
  BY <1>3, <1>4, SameRows
<1>8. SameRow(r2, q2)
  BY <1>3, <1>4, SameRows
<1>9. SameRow(r3, q3)
  BY <1>3, <1>4, <1>5, SameRows
<1>10. SameRow(r4, q4)
  BY <1>3, <1>5, SameRows
<1>11. SameRow(r5, q5)
  BY <1>3, <1>5, SameRows
<1>12. SameRow(r6, q6)
  BY <1>3, <1>6, SameRows
<1>13. SameRow(r7, q7)
  BY <1>3, SameRows
<1>14. r7 # {}
  BY RowHolds
<1> HIDE DEF r1, q1, r2, q2, r3, q3, r4, q4, r5, q5, r6, q6, r7, q7
<1>15. SameTable(7, rows, rows2)
  BY <1>7, <1>8, <1>9, <1>10, <1>11, <1>12, <1>13, <1>14 DEF SameTable
<1> HIDE DEF rows, rows2
<1>16. QED
  BY <1>1, <1>2, <1>15, SameVerdict

\* The builds in another order.
LEMMA SameReproducibility ==
  ASSUME NEW ev, NEW ev2, Reordered(ev, ev2), NEW pol
  PROVE  SameResult(ReproducibilityGate(ev, pol), ReproducibilityGate(ev2, pol))
<1> DEFINE s == OfKind(ev, "build_manifest")
           t == OfKind(ev2, "build_manifest")
           a == OfKind(ev, "artifact")
           b == OfKind(ev2, "artifact")
           release == {<<a[i].payload.name, a[i].payload.digest>> : i \in DOMAIN a}
           release2 == {<<b[i].payload.name, b[i].payload.digest>> : i \in DOMAIN b}
           shapes == {s[i].payload.artifacts : i \in DOMAIN s}
           shapes2 == {t[i].payload.artifacts : i \in DOMAIN t}
           observed(shape) == {<<x.name, x.digest>> : x \in shape}
           env == {s[i].payload.environment : i \in DOMAIN s}
           env2 == {t[i].payload.environment : i \in DOMAIN t}
           auth == {s[i].trust.authority : i \in DOMAIN s}
           auth2 == {t[i].trust.authority : i \in DOMAIN t}
           r1 == Row(Len(s) < pol.min_builds, "unknown", "REPRO_BUILDS_INSUFFICIENT", s)
           r2 == Row(Cardinality(shapes) # 1 \/ \E shape \in shapes : observed(shape) # release,
                     "fail", "REPRODUCIBILITY_MISMATCH", s)
           r3 == Row(Cardinality(env) < 2, "unknown", "REPRO_ENVIRONMENTS_INSUFFICIENT", s)
           r4 == Row(Cardinality(auth) < pol.min_authorities,
                     "unknown", "REPRO_AUTHORITIES_INSUFFICIENT", s)
           r5 == Row(TRUE, "pass", "REPRODUCIBLE", s)
           q1 == Row(Len(t) < pol.min_builds, "unknown", "REPRO_BUILDS_INSUFFICIENT", t)
           q2 == Row(Cardinality(shapes2) # 1 \/ \E shape \in shapes2 : observed(shape) # release2,
                     "fail", "REPRODUCIBILITY_MISMATCH", t)
           q3 == Row(Cardinality(env2) < 2, "unknown", "REPRO_ENVIRONMENTS_INSUFFICIENT", t)
           q4 == Row(Cardinality(auth2) < pol.min_authorities,
                     "unknown", "REPRO_AUTHORITIES_INSUFFICIENT", t)
           q5 == Row(TRUE, "pass", "REPRODUCIBLE", t)
           rows == <<r1, r2, r3, r4, r5>>
           rows2 == <<q1, q2, q3, q4, q5>>
<1>1. ReproducibilityGate(ev, pol) = Verdict("reproducibility", rows)
  BY DEF ReproducibilityGate
<1>2. ReproducibilityGate(ev2, pol) = Verdict("reproducibility", rows2)
  BY DEF ReproducibilityGate
<1>3. Shuffled(s, t) /\ Shuffled(a, b)
  BY ReorderedKind
<1> HIDE DEF s, t, a, b
<1>4. /\ Len(s) = Len(t)
      /\ \A i \in DOMAIN s : \E j \in DOMAIN t : t[j] = s[i]
      /\ \A j \in DOMAIN t : \E i \in DOMAIN s : t[j] = s[i]
  BY <1>3, ShuffledItems
<1>5. /\ \A i \in DOMAIN a : \E j \in DOMAIN b : b[j] = a[i]
      /\ \A j \in DOMAIN b : \E i \in DOMAIN a : b[j] = a[i]
  BY <1>3, ShuffledItems
<1>6. shapes = shapes2 /\ env = env2 /\ auth = auth2
  BY <1>4
<1>7. release = release2
  BY <1>5
<1> HIDE DEF release, release2, shapes, shapes2, observed, env, env2, auth, auth2
<1>8. SameRow(r1, q1)
  BY <1>3, <1>4, SameRows
<1>9. SameRow(r2, q2)
  BY <1>3, <1>6, <1>7, SameRows
<1>10. SameRow(r3, q3)
  BY <1>3, <1>6, SameRows
<1>11. SameRow(r4, q4)
  BY <1>3, <1>6, SameRows
<1>12. SameRow(r5, q5)
  BY <1>3, SameRows
<1>13. r5 # {}
  BY RowHolds
<1> HIDE DEF r1, q1, r2, q2, r3, q3, r4, q4, r5, q5
<1>14. SameTable(5, rows, rows2)
  BY <1>8, <1>9, <1>10, <1>11, <1>12, <1>13 DEF SameTable
<1> HIDE DEF rows, rows2
<1>15. QED
  BY <1>1, <1>2, <1>14, SameVerdict

\* The bills of materials in another order, bound to the same map.
LEMMA SameSbom ==
  ASSUME NEW ev, NEW ev2, Reordered(ev, ev2), NEW pol,
         ArtifactMap(ev2) = ArtifactMap(ev)
  PROVE  SameResult(SbomGate(ev, pol), SbomGate(ev2, pol))
<1> DEFINE s == OfKind(ev, "sbom")
           t == OfKind(ev2, "sbom")
           map == ArtifactMap(ev)
           map2 == ArtifactMap(ev2)
           r1 == Row(s = <<>> /\ pol.require_sbom, "unknown", "SBOM_MISSING", <<>>)
           r2 == Row(s = <<>>, "pass", "SBOM_OPTIONAL", <<>>)
           r3 == Row(~Binds(s, map), "fail", "ARTIFACT_BINDING_MISMATCH", s)
           r4 == Row(TRUE, "pass", "SBOM_BOUND", s)
           q1 == Row(t = <<>> /\ pol.require_sbom, "unknown", "SBOM_MISSING", <<>>)
           q2 == Row(t = <<>>, "pass", "SBOM_OPTIONAL", <<>>)
           q3 == Row(~Binds(t, map2), "fail", "ARTIFACT_BINDING_MISMATCH", t)
           q4 == Row(TRUE, "pass", "SBOM_BOUND", t)
           rows == <<r1, r2, r3, r4>>
           rows2 == <<q1, q2, q3, q4>>
<1>1. SbomGate(ev, pol) = Verdict("sbom", rows)
  BY DEF SbomGate
<1>2. SbomGate(ev2, pol) = Verdict("sbom", rows2)
  BY DEF SbomGate
<1>3. Shuffled(s, t) /\ Shuffled(<<>>, <<>>) /\ map = map2
  BY ReorderedKind, ShuffledEmpty
<1> HIDE DEF s, t, map, map2
<1>4. /\ s = <<>> <=> t = <<>>
      /\ \A i \in DOMAIN s : \E j \in DOMAIN t : t[j] = s[i]
      /\ \A j \in DOMAIN t : \E i \in DOMAIN s : t[j] = s[i]
  BY <1>3, ShuffledItems
<1>5. Binds(s, map) <=> Binds(t, map2)
  <2>1. {s[i].payload.artifact : i \in DOMAIN s} = {t[i].payload.artifact : i \in DOMAIN t}
    BY <1>4
  <2>2. (\A i \in DOMAIN s : s[i].payload.digest = map[s[i].payload.artifact])
          <=> (\A i \in DOMAIN t : t[i].payload.digest = map[t[i].payload.artifact])
    BY <1>4
  <2>3. QED
    BY <1>3, <2>1, <2>2 DEF Binds
<1>6. SameRow(r1, q1)
  BY <1>3, <1>4, SameRows
<1>7. SameRow(r2, q2)
  BY <1>3, <1>4, SameRows
<1>8. SameRow(r3, q3)
  BY <1>3, <1>5, SameRows
<1>9. SameRow(r4, q4)
  BY <1>3, SameRows
<1>10. r4 # {}
  BY RowHolds
<1> HIDE DEF r1, q1, r2, q2, r3, q3, r4, q4
<1>11. SameTable(4, rows, rows2)
  BY <1>6, <1>7, <1>8, <1>9, <1>10 DEF SameTable
<1> HIDE DEF rows, rows2
<1>12. QED
  BY <1>1, <1>2, <1>11, SameVerdict

\* The provenance in another order, bound to the same map.
LEMMA SameProvenance ==
  ASSUME NEW ev, NEW ev2, Reordered(ev, ev2), NEW pol,
         ArtifactMap(ev2) = ArtifactMap(ev)
  PROVE  SameResult(ProvenanceGate(ev, pol), ProvenanceGate(ev2, pol))
<1> DEFINE s == OfKind(ev, "provenance")
           t == OfKind(ev2, "provenance")
           map == ArtifactMap(ev)
           map2 == ArtifactMap(ev2)
           foreign(items, e) == \E i \in DOMAIN items :
                                  \/ items[i].payload.candidate # e.candidate
                                  \/ items[i].payload.version # pol.version
           r1 == Row(s = <<>>, "unknown", "PROVENANCE_MISSING", <<>>)
           r2 == Row(foreign(s, ev) \/ ~Binds(s, map), "fail", "ARTIFACT_BINDING_MISMATCH", s)
           r3 == Row(TRUE, "pass", "PROVENANCE_BOUND", s)
           q1 == Row(t = <<>>, "unknown", "PROVENANCE_MISSING", <<>>)
           q2 == Row(foreign(t, ev2) \/ ~Binds(t, map2), "fail", "ARTIFACT_BINDING_MISMATCH", t)
           q3 == Row(TRUE, "pass", "PROVENANCE_BOUND", t)
           rows == <<r1, r2, r3>>
           rows2 == <<q1, q2, q3>>
<1>1. ProvenanceGate(ev, pol) = Verdict("provenance", rows)
  BY DEF ProvenanceGate
<1>2. ProvenanceGate(ev2, pol) = Verdict("provenance", rows2)
  BY DEF ProvenanceGate
<1>3. Shuffled(s, t) /\ Shuffled(<<>>, <<>>) /\ map = map2
  BY ReorderedKind, ShuffledEmpty
<1> HIDE DEF s, t, map, map2
<1>4. /\ s = <<>> <=> t = <<>>
      /\ \A i \in DOMAIN s : \E j \in DOMAIN t : t[j] = s[i]
      /\ \A j \in DOMAIN t : \E i \in DOMAIN s : t[j] = s[i]
  BY <1>3, ShuffledItems
<1>5. Binds(s, map) <=> Binds(t, map2)
  <2>1. {s[i].payload.artifact : i \in DOMAIN s} = {t[i].payload.artifact : i \in DOMAIN t}
    BY <1>4
  <2>2. (\A i \in DOMAIN s : s[i].payload.digest = map[s[i].payload.artifact])
          <=> (\A i \in DOMAIN t : t[i].payload.digest = map[t[i].payload.artifact])
    BY <1>4
  <2>3. QED
    BY <1>3, <2>1, <2>2 DEF Binds
<1>6. ev2.candidate = ev.candidate
  BY DEF Reordered
<1>7. foreign(s, ev) <=> foreign(t, ev2)
  BY <1>4, <1>6
<1> HIDE DEF foreign
<1>8. SameRow(r1, q1)
  BY <1>3, <1>4, SameRows
<1>9. SameRow(r2, q2)
  BY <1>3, <1>5, <1>7, SameRows
<1>10. SameRow(r3, q3)
  BY <1>3, SameRows
<1>11. r3 # {}
  BY RowHolds
<1> HIDE DEF r1, q1, r2, q2, r3, q3
<1>12. SameTable(3, rows, rows2)
  BY <1>8, <1>9, <1>10, <1>11 DEF SameTable
<1> HIDE DEF rows, rows2
<1>13. QED
  BY <1>1, <1>2, <1>12, SameVerdict

\* The copies keep their place behind their observation.
LEMMA FourfoldMoves ==
  ASSUME NEW s, NEW t, Shuffled(s, t)
  PROVE  \E f : /\ Moves(f, Fourfold(s), Fourfold(t))
                /\ \A k \in 1..(4 * Len(s)) : f[k] % 4 = k % 4
<1> DEFINE n == Len(s)
           of(k) == (k + 3) \div 4
<1>1. PICK e : Moves(e, s, t)
  BY DEF Shuffled
<1>2. n \in Nat /\ Len(t) = n /\ DOMAIN s = 1..n /\ DOMAIN t = 1..n
  BY DEF Shuffled, IsList
<1>3. /\ \A i \in 1..n : e[i] \in 1..n /\ t[e[i]] = s[i]
      /\ \A i, k \in 1..n : e[i] = e[k] => i = k
      /\ \A j \in 1..n : \E i \in 1..n : e[i] = j
  BY <1>1 DEF Moves, Bijection, Injection, Surjection, IsInjective
<1>4. /\ Fourfold(s) = [k \in 1..(4 * n) |-> s[of(k)]]
      /\ Fourfold(t) = [k \in 1..(4 * n) |-> t[of(k)]]
  BY <1>2 DEF Fourfold
<1> HIDE DEF n
<1>5. \A k \in 1..(4 * n) : of(k) \in 1..n /\ 4 * of(k) - k \in 0..3
  BY <1>2
<1>6. \A i \in 1..n, r \in 0..3 : /\ 4 * i - r \in 1..(4 * n)
                                  /\ of(4 * i - r) = i
  BY <1>2
<1> DEFINE f == [k \in 1..(4 * n) |-> 4 * e[of(k)] - (4 * of(k) - k)]
<1>7. \A k \in 1..(4 * n) : /\ f[k] \in 1..(4 * n) /\ of(f[k]) = e[of(k)]
                            /\ 4 * of(f[k]) - f[k] = 4 * of(k) - k
                            /\ f[k] % 4 = k % 4
  <2> TAKE k \in 1..(4 * n)
  <2>1. of(k) \in 1..n /\ 4 * of(k) - k \in 0..3 /\ e[of(k)] \in 1..n
    BY <1>3, <1>5
  <2>2. f[k] = 4 * e[of(k)] - (4 * of(k) - k)
    OBVIOUS
  <2> HIDE DEF f
  <2>3. f[k] \in 1..(4 * n) /\ of(f[k]) = e[of(k)]
    BY <1>6, <2>1, <2>2
  <2>4. f[k] \in Nat /\ f[k] = 4 * (e[of(k)] - of(k)) + k /\ e[of(k)] - of(k) \in Int
    <3>1. \A x, y \in Int : 4 * x - (4 * y - k) = 4 * (x - y) + k /\ x - y \in Int
      OBVIOUS
    <3> HIDE DEF of
    <3>2. e[of(k)] \in Int /\ of(k) \in Int
      BY <2>1
    <3>3. QED
      BY <3>1, <3>2, <2>2, <2>3
  <2>5. f[k] % 4 = k % 4
    BY <2>4
  <2>6. QED
    BY <2>1, <2>2, <2>3, <2>5
<1>8. f \in [1..(4 * n) -> 1..(4 * n)]
  BY <1>7
<1> HIDE DEF f
<1>9. \A k, m \in 1..(4 * n) : f[k] = f[m] => k = m
  <2> SUFFICES ASSUME NEW k \in 1..(4 * n), NEW m \in 1..(4 * n), f[k] = f[m] PROVE k = m
    OBVIOUS
  <2>1. e[of(k)] = e[of(m)] /\ 4 * of(k) - k = 4 * of(m) - m
    BY <1>7
  <2>2. of(k) = of(m) /\ of(k) \in Int
    BY <1>3, <1>5, <2>1
  <2> HIDE DEF of
  <2>3. QED
    BY <2>1, <2>2
<1>10. \A m \in 1..(4 * n) : \E k \in 1..(4 * n) : f[k] = m
  <2> TAKE m \in 1..(4 * n)
  <2>1. of(m) \in 1..n /\ 4 * of(m) - m \in 0..3
    BY <1>5
  <2>2. PICK i \in 1..n : e[i] = of(m)
    BY <1>3, <2>1
  <2> DEFINE k == 4 * i - (4 * of(m) - m)
  <2>3. k \in 1..(4 * n) /\ of(k) = i
    BY <1>6, <2>1
  <2>4. of(f[k]) = of(m) /\ 4 * of(f[k]) - f[k] = 4 * i - k /\ f[k] \in 1..(4 * n)
    BY <1>7, <2>2, <2>3
  <2>5. 4 * i - k = 4 * of(m) - m
    BY <2>1
  <2> HIDE DEF of, k
  <2>6. f[k] = m
    BY <2>1, <2>4, <2>5
  <2>7. QED
    BY <2>3, <2>6
<1>11. f \in Bijection(1..(4 * n), 1..(4 * n))
  BY <1>8, <1>9, <1>10 DEF Bijection, Injection, Surjection, IsInjective
<1>12. \A k \in 1..(4 * n) : Fourfold(t)[f[k]] = Fourfold(s)[k]
  <2> TAKE k \in 1..(4 * n)
  <2>1. Fourfold(t)[f[k]] = t[e[of(k)]] /\ Fourfold(s)[k] = s[of(k)] /\ of(k) \in 1..n
    BY <1>4, <1>5, <1>7
  <2>2. QED
    BY <1>3, <2>1
<1>13. Len(Fourfold(s)) = 4 * n
  BY <1>2, <1>4
<1>14. Moves(f, Fourfold(s), Fourfold(t))
  BY <1>11, <1>12, <1>13 DEF Moves
<1>15. QED
  BY <1>7, <1>14 DEF n

\* Four times a list is a list.
LEMMA FourfoldLists ==
  ASSUME NEW s, IsList(s)
  PROVE  IsList(Fourfold(s)) /\ Len(Fourfold(s)) = 4 * Len(s)
<1> DEFINE n == Len(s)
           c == Fourfold(s)
<1>1. n \in Nat /\ 4 * n \in Nat /\ c = [k \in 1..(4 * n) |-> s[(k + 3) \div 4]]
  BY DEF IsList, Fourfold
<1> HIDE DEF n, c
<1>2. Len(c) = 4 * n /\ DOMAIN c = 1..(4 * n)
  BY <1>1
<1>3. c = <<>> => 4 * n = 0
  BY <1>2
<1>4. 4 * n = 0 => c = <<>>
  <2>1. n = 0 => c = <<>>
    BY <1>1
  <2>2. QED
    BY <1>1, <2>1
<1>5. QED
  BY <1>1, <1>2, <1>3, <1>4 DEF IsList, n, c

\* An observation is listed once for each list it is not on, in any order.
LEMMA SameMismatches ==
  ASSUME NEW s, NEW t, Shuffled(s, t), NEW pol
  PROVE  Shuffled(Mismatches(s, pol), Mismatches(t, pol))
<1> DEFINE a == Fourfold(s)
           b == Fourfold(t)
           I == {k \in DOMAIN a : OffLists(a[k], pol)[(k % 4) + 1]}
           J == {k \in DOMAIN b : OffLists(b[k], pol)[(k % 4) + 1]}
<1>1. Mismatches(s, pol) = Those(a, I) /\ Mismatches(t, pol) = Those(b, J)
  BY DEF Mismatches
<1>2. PICK f : /\ Moves(f, a, b)
               /\ \A k \in 1..(4 * Len(s)) : f[k] % 4 = k % 4
  BY FourfoldMoves
<1>3. /\ IsList(a) /\ IsList(b) /\ Len(a) = 4 * Len(s) /\ Len(b) = Len(a)
  <2>1. IsList(s) /\ IsList(t) /\ Len(s) = Len(t)
    BY DEF Shuffled
  <2> HIDE DEF a, b
  <2>2. QED
    BY <2>1, FourfoldLists DEF a, b
<1> HIDE DEF a, b
<1>4. \A k \in DOMAIN a : f[k] \in DOMAIN b /\ b[f[k]] = a[k] /\ f[k] % 4 = k % 4
  BY <1>2, <1>3 DEF Moves, IsList, Bijection, Injection
<1>5. \A k \in DOMAIN a : k \in I <=> f[k] \in J
  BY <1>4
<1>6. I \subseteq DOMAIN a /\ J \subseteq DOMAIN b
  OBVIOUS
<1> HIDE DEF I, J
<1>7. QED
  BY <1>1, <1>2, <1>3, <1>5, <1>6, SelectedBy

\* The signatures in another order.
LEMMA SameAuthenticity ==
  ASSUME NEW ev, NEW ev2, Reordered(ev, ev2), NEW pol
  PROVE  SameResult(AuthenticityGate(ev, pol), AuthenticityGate(ev2, pol))
<1> DEFINE s == ev.observations
           t == ev2.observations
           I == {i \in DOMAIN s : ~Verified(s[i].trust, "evidence")}
           J == {i \in DOMAIN t : ~Verified(t[i].trust, "evidence")}
           invalid == Those(s, I)
           invalid2 == Those(t, J)
           bad == Mismatches(s, pol)
           bad2 == Mismatches(t, pol)
           r1 == Row(invalid # <<>>, "unknown", "EVIDENCE_UNAUTHENTICATED", invalid)
           r2 == Row(bad # <<>>, "fail", "ATTESTATION_POLICY_MISMATCH", bad)
           r3 == Row(TRUE, "pass", "EVIDENCE_AUTHENTICATED", s)
           q1 == Row(invalid2 # <<>>, "unknown", "EVIDENCE_UNAUTHENTICATED", invalid2)
           q2 == Row(bad2 # <<>>, "fail", "ATTESTATION_POLICY_MISMATCH", bad2)
           q3 == Row(TRUE, "pass", "EVIDENCE_AUTHENTICATED", t)
           rows == <<r1, r2, r3>>
           rows2 == <<q1, q2, q3>>
<1>1. AuthenticityGate(ev, pol) = Verdict("authenticity", rows)
  BY DEF AuthenticityGate, Select
<1>2. AuthenticityGate(ev2, pol) = Verdict("authenticity", rows2)
  BY DEF AuthenticityGate, Select
<1>3. Shuffled(s, t)
  BY DEF Reordered
<1>4. Shuffled(invalid, invalid2)
  <2>1. \A i \in DOMAIN s, j \in DOMAIN t : s[i] = t[j] => (i \in I <=> j \in J)
    OBVIOUS
  <2>2. I \subseteq DOMAIN s /\ J \subseteq DOMAIN t
    OBVIOUS
  <2> HIDE DEF s, t, I, J
  <2>3. QED
    BY <1>3, <2>1, <2>2, Selected
<1> HIDE DEF s, t, invalid, invalid2
<1>5. Shuffled(bad, bad2)
  BY <1>3, SameMismatches
<1> HIDE DEF bad, bad2
<1>6. (invalid # <<>> <=> invalid2 # <<>>) /\ (bad # <<>> <=> bad2 # <<>>)
  BY <1>4, <1>5, ShuffledItems
<1>7. SameRow(r1, q1)
  BY <1>4, <1>6, SameRows
<1>8. SameRow(r2, q2)
  BY <1>5, <1>6, SameRows
<1>9. SameRow(r3, q3)
  BY <1>3, SameRows
<1>10. r3 # {}
  BY RowHolds
<1> HIDE DEF r1, q1, r2, q2, r3, q3
<1>11. SameTable(3, rows, rows2)
  BY <1>7, <1>8, <1>9, <1>10 DEF SameTable
<1> HIDE DEF rows, rows2
<1>12. QED
  BY <1>1, <1>2, <1>11, SameVerdict

\* The numbers in the evidence are numbers.
Counted(ev) ==
  \A i \in DOMAIN ev.observations :
    LET o == ev.observations[i]
    IN  /\ o.kind = "ci_run" => {o.payload.sequence, o.payload.attempt} \subseteq Nat
        /\ o.kind = "test_summary" => {o.payload.passed, o.payload.failed} \subseteq Nat

\* An observation of a kind is an observation.
LEMMA KindOf ==
  ASSUME NEW ev, IsList(ev.observations), NEW kind, NEW i \in DOMAIN OfKind(ev, kind)
  PROVE  \E j \in DOMAIN ev.observations :
           OfKind(ev, kind)[i] = ev.observations[j] /\ ev.observations[j].kind = kind
<1> DEFINE n == Len(ev.observations)
<1>1. n \in Nat /\ DOMAIN ev.observations = 1..n
  BY DEF IsList
<1> HIDE DEF n
<1>2. Lists(OfKind(ev, kind), ev.observations, {j \in 1..n : ev.observations[j].kind = kind})
  BY <1>1, OfKindAre
<1>3. QED
  BY <1>1, <1>2 DEF Lists

\* The attempts at a check in another order.
LEMMA SameAttempts ==
  ASSUME NEW ev, NEW ev2, Reordered(ev, ev2), NEW key
  PROVE  /\ Shuffled(Attempts(ev, key), Attempts(ev2, key))
         /\ \A k \in DOMAIN Attempts(ev, key) : \E i \in DOMAIN OfKind(ev, "ci_run") :
              Attempts(ev, key)[k] = OfKind(ev, "ci_run")[i]
<1> DEFINE s == OfKind(ev, "ci_run")
           t == OfKind(ev2, "ci_run")
           I == {i \in DOMAIN s : <<s[i].payload.check, s[i].payload.matrix>> = key}
           J == {i \in DOMAIN t : <<t[i].payload.check, t[i].payload.matrix>> = key}
<1>1. Attempts(ev, key) = Those(s, I) /\ Attempts(ev2, key) = Those(t, J)
  BY DEF Attempts, Select
<1>2. Shuffled(s, t)
  BY ReorderedKind
<1>3. \A i \in DOMAIN s, j \in DOMAIN t : s[i] = t[j] => (i \in I <=> j \in J)
  OBVIOUS
<1>4. I \subseteq DOMAIN s /\ J \subseteq DOMAIN t
  OBVIOUS
<1> HIDE DEF s, t, I, J
<1>5. Shuffled(Those(s, I), Those(t, J))
  BY <1>2, <1>3, <1>4, Selected
<1>6. Lists(Those(s, I), s, I)
  <2>1. Len(s) \in Nat /\ DOMAIN s = 1..Len(s)
    BY <1>2 DEF Shuffled, IsList
  <2>2. QED
    BY <2>1, <1>4, ThoseAre
<1>7. \A k \in DOMAIN Those(s, I) : \E i \in DOMAIN s : Those(s, I)[k] = s[i]
  BY <1>4, <1>6 DEF Lists
<1>8. QED
  BY <1>1, <1>5, <1>7 DEF s

\* Whether the runs of a check are too few or fail too often is no matter of order.
LEMMA SameRuns ==
  ASSUME NEW a, NEW b, Shuffled(a, b), NEW pol
  PROVE  /\ TooFewRuns(a, pol) <=> TooFewRuns(b, pol)
         /\ FlakeRateExceeded(a, pol) <=> FlakeRateExceeded(b, pol)
<1>1. /\ \A i \in DOMAIN a : \E j \in DOMAIN b : b[j] = a[i]
      /\ \A j \in DOMAIN b : \E i \in DOMAIN a : b[j] = a[i]
  BY ShuffledItems
<1>2. RunsOf(a) = RunsOf(b)
  BY <1>1 DEF RunsOf
<1>3. \A r : (\E i \in DOMAIN a : a[i].payload.run = r /\ a[i].payload.status # "passed")
               <=> (\E i \in DOMAIN b : b[i].payload.run = r /\ b[i].payload.status # "passed")
  BY <1>1
<1>4. FailedRuns(a) = FailedRuns(b)
  BY <1>2, <1>3 DEF FailedRuns
<1>5. QED
  BY <1>2, <1>4 DEF TooFewRuns, FlakeRateExceeded

\* The runs in another order: a check is flaky or not.
LEMMA SameFlakiness ==
  ASSUME NEW ev, NEW ev2, Reordered(ev, ev2), NEW pol
  PROVE  SameResult(FlakinessGate(ev, pol), FlakinessGate(ev2, pol))
<1> DEFINE s == OfKind(ev, "ci_run")
           t == OfKind(ev2, "ci_run")
           seen == {key \in Required(pol) : Attempts(ev, key) # <<>>}
           seen2 == {key \in Required(pol) : Attempts(ev2, key) # <<>>}
           K == {key \in seen : TooFewRuns(Attempts(ev, key), pol)}
           K2 == {key \in seen2 : TooFewRuns(Attempts(ev2, key), pol)}
           L == {key \in seen : FlakeRateExceeded(Attempts(ev, key), pol)}
           L2 == {key \in seen2 : FlakeRateExceeded(Attempts(ev2, key), pol)}
           I == {i \in DOMAIN s : <<s[i].payload.check, s[i].payload.matrix>> \in K}
           J == {i \in DOMAIN t : <<t[i].payload.check, t[i].payload.matrix>> \in K2}
           F == {i \in DOMAIN s : <<s[i].payload.check, s[i].payload.matrix>> \in L}
           G == {i \in DOMAIN t : <<t[i].payload.check, t[i].payload.matrix>> \in L2}
           sparse == Those(s, I)
           sparse2 == Those(t, J)
           flaky == Those(s, F)
           flaky2 == Those(t, G)
           r1 == Row(sparse # <<>>, "unknown", "FLAKE_SAMPLES_INSUFFICIENT", sparse)
           r2 == Row(flaky # <<>>, "fail", "FLAKE_RATE_EXCEEDED", flaky)
           r3 == Row(TRUE, "pass", "FLAKE_RATE_ACCEPTABLE", s)
           q1 == Row(sparse2 # <<>>, "unknown", "FLAKE_SAMPLES_INSUFFICIENT", sparse2)
           q2 == Row(flaky2 # <<>>, "fail", "FLAKE_RATE_EXCEEDED", flaky2)
           q3 == Row(TRUE, "pass", "FLAKE_RATE_ACCEPTABLE", t)
           rows == <<r1, r2, r3>>
           rows2 == <<q1, q2, q3>>
<1>1. FlakinessGate(ev, pol) = Verdict("flakiness", rows)
  BY DEF FlakinessGate, Select
<1>2. FlakinessGate(ev2, pol) = Verdict("flakiness", rows2)
  BY DEF FlakinessGate, Select
<1>3. Shuffled(s, t)
  BY ReorderedKind
<1>4. \A key : /\ Attempts(ev, key) # <<>> <=> Attempts(ev2, key) # <<>>
               /\ TooFewRuns(Attempts(ev, key), pol) <=> TooFewRuns(Attempts(ev2, key), pol)
               /\ FlakeRateExceeded(Attempts(ev, key), pol)
                    <=> FlakeRateExceeded(Attempts(ev2, key), pol)
  <2> TAKE key
  <2>1. Shuffled(Attempts(ev, key), Attempts(ev2, key))
    BY SameAttempts
  <2>2. QED
    BY <2>1, ShuffledItems, SameRuns
<1>5. seen = seen2
  BY <1>4
<1> HIDE DEF seen, seen2
<1>6. K = K2 /\ L = L2
  BY <1>4, <1>5
<1> HIDE DEF K, K2, L, L2
<1>7. Shuffled(sparse, sparse2)
  <2>1. \A i \in DOMAIN s, j \in DOMAIN t : s[i] = t[j] => (i \in I <=> j \in J)
    BY <1>6
  <2>2. I \subseteq DOMAIN s /\ J \subseteq DOMAIN t
    OBVIOUS
  <2> HIDE DEF s, t, I, J
  <2>3. QED
    BY <1>3, <2>1, <2>2, Selected
<1>8. Shuffled(flaky, flaky2)
  <2>1. \A i \in DOMAIN s, j \in DOMAIN t : s[i] = t[j] => (i \in F <=> j \in G)
    BY <1>6
  <2>2. F \subseteq DOMAIN s /\ G \subseteq DOMAIN t
    OBVIOUS
  <2> HIDE DEF s, t, F, G
  <2>3. QED
    BY <1>3, <2>1, <2>2, Selected
<1> HIDE DEF s, t, sparse, sparse2, flaky, flaky2
<1>9. (sparse # <<>> <=> sparse2 # <<>>) /\ (flaky # <<>> <=> flaky2 # <<>>)
  BY <1>7, <1>8, ShuffledItems
<1>10. SameRow(r1, q1)
  BY <1>7, <1>9, SameRows
<1>11. SameRow(r2, q2)
  BY <1>8, <1>9, SameRows
<1>12. SameRow(r3, q3)
  BY <1>3, SameRows
<1>13. r3 # {}
  BY RowHolds
<1> HIDE DEF r1, q1, r2, q2, r3, q3
<1>14. SameTable(3, rows, rows2)
  BY <1>10, <1>11, <1>12, <1>13 DEF SameTable
<1> HIDE DEF rows, rows2
<1>15. QED
  BY <1>1, <1>2, <1>14, SameVerdict

\* No attempt of the list comes after the one at i.
IsLatest(a, i) ==
  /\ i \in DOMAIN a
  /\ \A j \in DOMAIN a :
       \/ a[j].payload.sequence < a[i].payload.sequence
       \/ /\ a[j].payload.sequence = a[i].payload.sequence
          /\ a[j].payload.attempt <= a[i].payload.attempt

\* Of attempts whose numbers are numbers, one is the latest.
LEMMA SomeIsLatest ==
  ASSUME NEW a, NEW n \in Nat, DOMAIN a = 1..n, a # <<>>, n # 0,
         \A i \in 1..n : a[i].payload.sequence \in Nat /\ a[i].payload.attempt \in Nat
  PROVE  \E i : IsLatest(a, i)
<1> DEFINE q(i) == a[i].payload.sequence
           p(i) == a[i].payload.attempt
           Later(j, i) == q(i) < q(j) \/ (q(i) = q(j) /\ p(i) < p(j))
           After(i) == {j \in 1..n : Later(j, i)}
           S == FiniteSubsetsOf(1..n)
           R == StrictSubsetOrdering(1..n)
           U == {After(i) : i \in 1..n}
<1>1. IsWellFoundedOn(R, S)
  BY FS_StrictSubsetOrderingWellFounded
<1>2. U \subseteq S /\ U # {}
  <2>1. IsFiniteSet(1..n)
    BY FS_Interval
  <2>2. \A i \in 1..n : After(i) \in S
    BY <2>1, FS_Subset DEF FiniteSubsetsOf
  <2>3. 1 \in 1..n
    OBVIOUS
  <2> HIDE DEF S, After
  <2>4. QED
    BY <2>2, <2>3
<1> HIDE DEF R, S
<1>3. PICK X \in U : \A Y \in U : <<Y, X>> \notin R
  <2> HIDE DEF U
  <2>1. QED
    BY ONLY <1>1, <1>2, WFMin
<1>4. PICK i \in 1..n : X = After(i)
  BY <1>3
<1>5. \A k \in 1..n : q(k) \in Nat /\ p(k) \in Nat
  OBVIOUS
<1> HIDE DEF q, p
<1>6. ASSUME NEW j \in After(i) PROVE FALSE
  <2>1. After(j) \subseteq After(i) /\ j \notin After(j) /\ After(i) \in SUBSET (1..n)
        /\ After(j) \in SUBSET (1..n)
    BY <1>5
  <2>2. <<After(j), After(i)>> \in R
    BY <2>1, <1>6 DEF R, StrictSubsetOrdering
  <2>3. After(j) \in U
    OBVIOUS
  <2>4. QED
    BY <2>2, <2>3, <1>3, <1>4
<1>7. \A j \in 1..n : q(j) < q(i) \/ (q(j) = q(i) /\ p(j) <= p(i))
  BY <1>5, <1>6
<1>8. IsLatest(a, i)
  BY <1>7 DEF IsLatest, q, p
<1>9. QED
  BY <1>8

\* Unless a run or an attempt is reported twice, there is one latest attempt.
LEMMA SameLatest ==
  ASSUME NEW ev, NEW ev2, Reordered(ev, ev2), ~CIMalformed(ev), Counted(ev), NEW key,
         Attempts(ev, key) # <<>>
  PROVE  Latest(Attempts(ev, key)) = Latest(Attempts(ev2, key))
<1> DEFINE s == OfKind(ev, "ci_run")
           a == Attempts(ev, key)
           b == Attempts(ev2, key)
<1>1. Shuffled(a, b) /\ \A k \in DOMAIN a : \E i \in DOMAIN s : a[k] = s[i]
  BY SameAttempts
<1>2. \A i \in DOMAIN s : s[i].payload.sequence \in Nat /\ s[i].payload.attempt \in Nat
  <2> TAKE i \in DOMAIN s
  <2>1. IsList(ev.observations)
    BY DEF Reordered, Shuffled
  <2>2. PICK j \in DOMAIN ev.observations :
          s[i] = ev.observations[j] /\ ev.observations[j].kind = "ci_run"
    BY <2>1, KindOf
  <2> HIDE DEF s
  <2>3. QED
    BY <2>2 DEF Counted
<1>3. \A i, j \in DOMAIN s : /\ s[i].payload.sequence = s[j].payload.sequence
                             /\ s[i].payload.attempt = s[j].payload.attempt
                             => i = j
  BY DEF CIMalformed
<1> HIDE DEF s
<1>4. /\ Latest(a) = a[CHOOSE i \in DOMAIN a : IsLatest(a, i)]
      /\ Latest(b) = b[CHOOSE i \in DOMAIN b : IsLatest(b, i)]
  BY DEF Latest, IsLatest
<1>5. a # <<>>
  OBVIOUS
<1> HIDE DEF a, b
<1>6. /\ Len(a) \in Nat /\ Len(b) = Len(a) /\ DOMAIN a = 1..Len(a) /\ DOMAIN b = 1..Len(a)
      /\ Len(a) # 0 /\ b # <<>>
      /\ \A i \in DOMAIN a : \E j \in DOMAIN b : b[j] = a[i]
      /\ \A j \in DOMAIN b : \E i \in DOMAIN a : b[j] = a[i]
  <2>1. /\ Len(a) \in Nat /\ Len(b) = Len(a) /\ DOMAIN a = 1..Len(a) /\ DOMAIN b = 1..Len(a)
        /\ Len(a) # 0 /\ b # <<>>
    BY <1>1, <1>5 DEF Shuffled, IsList
  <2>2. /\ \A i \in DOMAIN a : \E j \in DOMAIN b : b[j] = a[i]
        /\ \A j \in DOMAIN b : \E i \in DOMAIN a : b[j] = a[i]
    BY <1>1, ShuffledItems
  <2>3. QED
    BY <2>1, <2>2
<1>7. /\ \A i \in DOMAIN a : a[i].payload.sequence \in Nat /\ a[i].payload.attempt \in Nat
      /\ \A i \in DOMAIN b : b[i].payload.sequence \in Nat /\ b[i].payload.attempt \in Nat
  <2>1. \A i \in DOMAIN a : a[i].payload.sequence \in Nat /\ a[i].payload.attempt \in Nat
    BY <1>1, <1>2
  <2>2. ASSUME NEW j \in DOMAIN b
        PROVE  b[j].payload.sequence \in Nat /\ b[j].payload.attempt \in Nat
    <3>1. PICK i \in DOMAIN a : b[j] = a[i]
      BY <1>6
    <3>2. QED
      BY <2>1, <3>1
  <2>3. QED
    BY <2>1, <2>2
<1>8. (\E i : IsLatest(a, i)) /\ \E i : IsLatest(b, i)
  BY <1>5, <1>6, <1>7, SomeIsLatest
<1>9. PICK i : IsLatest(a, i) /\ Latest(a) = a[i]
  BY <1>4, <1>8 DEF IsLatest
<1>10. PICK j : IsLatest(b, j) /\ Latest(b) = b[j]
  BY <1>4, <1>8 DEF IsLatest
<1>11. PICK k \in DOMAIN a : b[j] = a[k]
  BY <1>6, <1>10 DEF IsLatest
<1>12. PICK l \in DOMAIN b : b[l] = a[i]
  BY <1>6, <1>9 DEF IsLatest
<1>13. /\ a[i].payload.sequence = a[k].payload.sequence
       /\ a[i].payload.attempt = a[k].payload.attempt
  <2>1. \/ a[k].payload.sequence < a[i].payload.sequence
        \/ /\ a[k].payload.sequence = a[i].payload.sequence
           /\ a[k].payload.attempt <= a[i].payload.attempt
    BY <1>9 DEF IsLatest
  <2>2. \/ a[i].payload.sequence < a[k].payload.sequence
        \/ /\ a[i].payload.sequence = a[k].payload.sequence
           /\ a[i].payload.attempt <= a[k].payload.attempt
    BY <1>10, <1>11, <1>12 DEF IsLatest
  <2>3. /\ a[i].payload.sequence \in Nat /\ a[i].payload.attempt \in Nat
        /\ a[k].payload.sequence \in Nat /\ a[k].payload.attempt \in Nat
    BY <1>7, <1>9 DEF IsLatest
  <2>4. QED
    BY <2>1, <2>2, <2>3
<1>14. PICK m1 \in DOMAIN s : a[i] = s[m1]
  BY <1>1, <1>9 DEF IsLatest
<1>15. PICK m2 \in DOMAIN s : a[k] = s[m2]
  BY <1>1
<1>16. m1 = m2
  BY <1>3, <1>13, <1>14, <1>15
<1>17. QED
  BY <1>9, <1>10, <1>11, <1>14, <1>15, <1>16 DEF a, b

\* The attempts in another order: the latest one is the same, whatever comes last.
LEMMA SameCIMatrix ==
  ASSUME NEW ev, NEW ev2, Reordered(ev, ev2), NEW pol,
         ~CIMalformed(ev), Counted(ev)
  PROVE  SameResult(CIMatrixGate(ev, pol), CIMatrixGate(ev2, pol))
<1> DEFINE s == OfKind(ev, "ci_run")
           t == OfKind(ev2, "ci_run")
           seen == {key \in Required(pol) : Attempts(ev, key) # <<>>}
           seen2 == {key \in Required(pol) : Attempts(ev2, key) # <<>>}
           I == {i \in DOMAIN s : \E key \in seen :
                    s[i] = Latest(Attempts(ev, key)) /\ s[i].payload.status # "passed"}
           J == {i \in DOMAIN t : \E key \in seen2 :
                    t[i] = Latest(Attempts(ev2, key)) /\ t[i].payload.status # "passed"}
           bad == Those(s, I)
           bad2 == Those(t, J)
           proven == \E i \in DOMAIN bad : bad[i].payload.status \in {"failed", "timed_out"}
           proven2 == \E i \in DOMAIN bad2 : bad2[i].payload.status \in {"failed", "timed_out"}
           r1 == Row(seen # Required(pol), "unknown", "CI_MATRIX_INCOMPLETE", s)
           r2 == Row(proven, "fail", "CI_REQUIRED_CHECK_NOT_PASSING", bad)
           r3 == Row(bad # <<>>, "unknown", "CI_REQUIRED_CHECK_NOT_PASSING", bad)
           r4 == Row(TRUE, "pass", "CI_MATRIX_PASSING", s)
           q1 == Row(seen2 # Required(pol), "unknown", "CI_MATRIX_INCOMPLETE", t)
           q2 == Row(proven2, "fail", "CI_REQUIRED_CHECK_NOT_PASSING", bad2)
           q3 == Row(bad2 # <<>>, "unknown", "CI_REQUIRED_CHECK_NOT_PASSING", bad2)
           q4 == Row(TRUE, "pass", "CI_MATRIX_PASSING", t)
           rows == <<r1, r2, r3, r4>>
           rows2 == <<q1, q2, q3, q4>>
<1>1. CIMatrixGate(ev, pol) = Verdict("ci_matrix", rows)
  BY DEF CIMatrixGate, Select
<1>2. CIMatrixGate(ev2, pol) = Verdict("ci_matrix", rows2)
  BY DEF CIMatrixGate, Select
<1>3. Shuffled(s, t)
  BY ReorderedKind
<1>4. seen = seen2
  <2>1. \A key : Attempts(ev, key) # <<>> <=> Attempts(ev2, key) # <<>>
    BY SameAttempts, ShuffledItems
  <2>2. QED
    BY <2>1
<1>5. \A key \in seen : Latest(Attempts(ev, key)) = Latest(Attempts(ev2, key))
  BY SameLatest
<1> HIDE DEF seen, seen2
<1>6. Shuffled(bad, bad2)
  <2>1. \A i \in DOMAIN s, j \in DOMAIN t : s[i] = t[j] => (i \in I <=> j \in J)
    BY <1>4, <1>5
  <2>2. I \subseteq DOMAIN s /\ J \subseteq DOMAIN t
    OBVIOUS
  <2> HIDE DEF s, t, I, J
  <2>3. QED
    BY <1>3, <2>1, <2>2, Selected
<1> HIDE DEF s, t, bad, bad2
<1>7. (bad # <<>> <=> bad2 # <<>>) /\ (proven <=> proven2)
  <2>1. /\ bad # <<>> <=> bad2 # <<>>
        /\ \A i \in DOMAIN bad : \E j \in DOMAIN bad2 : bad2[j] = bad[i]
        /\ \A j \in DOMAIN bad2 : \E i \in DOMAIN bad : bad2[j] = bad[i]
    BY <1>6, ShuffledItems
  <2>2. QED
    BY <2>1
<1> HIDE DEF proven, proven2
<1>8. SameRow(r1, q1)
  BY <1>3, <1>4, SameRows
<1>9. SameRow(r2, q2)
  BY <1>6, <1>7, SameRows
<1>10. SameRow(r3, q3)
  BY <1>6, <1>7, SameRows
<1>11. SameRow(r4, q4)
  BY <1>3, SameRows
<1>12. r4 # {}
  BY RowHolds
<1> HIDE DEF r1, q1, r2, q2, r3, q3, r4, q4
<1>13. SameTable(4, rows, rows2)
  BY <1>8, <1>9, <1>10, <1>11, <1>12 DEF SameTable
<1> HIDE DEF rows, rows2
<1>14. QED
  BY <1>1, <1>2, <1>13, SameVerdict

\* The digests of the artifacts in another order.
LEMMA SameDigests ==
  ASSUME NEW ev, NEW ev2, Reordered(ev, ev2)
  PROVE  Digests(ev) = Digests(ev2)
<1> DEFINE s == OfKind(ev, "artifact")
           t == OfKind(ev2, "artifact")
<1>1. Shuffled(s, t)
  BY ReorderedKind
<1> HIDE DEF s, t
<1>2. /\ \A i \in DOMAIN s : \E j \in DOMAIN t : t[j] = s[i]
      /\ \A j \in DOMAIN t : \E i \in DOMAIN s : t[j] = s[i]
  BY <1>1, ShuffledItems
<1>3. {s[i].payload.digest : i \in DOMAIN s} = {t[i].payload.digest : i \in DOMAIN t}
  BY <1>2
<1>4. QED
  BY <1>3 DEF Digests, s, t

\* There is one drill at most, whose order is its own.
LEMMA SameRollbackHere ==
  ASSUME NEW ev, NEW ev2, Reordered(ev, ev2), NEW pol, NEW date,
         OfKind(ev, "rollback_drill") # <<>>, Len(OfKind(ev, "rollback_drill")) <= 1
  PROVE  SameResult(RollbackGate(ev, pol, date), RollbackGate(ev2, pol, date))
<1> DEFINE s == OfKind(ev, "rollback_drill")
           t == OfKind(ev2, "rollback_drill")
           x == s[1].payload
           y == t[1].payload
           D == Digests(ev)
           D2 == Digests(ev2)
           r1 == Row(x.digest \notin D, "fail", "ARTIFACT_BINDING_MISMATCH", s)
           r2 == Row(FromFuture(x.at, date), "fail", "ROLLBACK_FROM_FUTURE", s)
           r3 == Row(Stale(x.at, date, pol.rollback_max_age), "unknown", "ROLLBACK_STALE", s)
           r4 == Row(x.environment # pol.environment,
                     "fail", "ROLLBACK_ENVIRONMENT_MISMATCH", s)
           r5 == Row(x.status = "failed", "fail", "ROLLBACK_NOT_PASSING", s)
           r6 == Row(x.status # "passed", "unknown", "ROLLBACK_NOT_PASSING", s)
           r7 == Row(x.minutes > pol.max_rollback_minutes, "fail", "ROLLBACK_TOO_SLOW", s)
           r8 == Row(TRUE, "pass", "ROLLBACK_READY", s)
           q1 == Row(y.digest \notin D2, "fail", "ARTIFACT_BINDING_MISMATCH", t)
           q2 == Row(FromFuture(y.at, date), "fail", "ROLLBACK_FROM_FUTURE", t)
           q3 == Row(Stale(y.at, date, pol.rollback_max_age), "unknown", "ROLLBACK_STALE", t)
           q4 == Row(y.environment # pol.environment,
                     "fail", "ROLLBACK_ENVIRONMENT_MISMATCH", t)
           q5 == Row(y.status = "failed", "fail", "ROLLBACK_NOT_PASSING", t)
           q6 == Row(y.status # "passed", "unknown", "ROLLBACK_NOT_PASSING", t)
           q7 == Row(y.minutes > pol.max_rollback_minutes, "fail", "ROLLBACK_TOO_SLOW", t)
           q8 == Row(TRUE, "pass", "ROLLBACK_READY", t)
           rows == <<r1, r2, r3, r4, r5, r6, r7, r8>>
           rows2 == <<q1, q2, q3, q4, q5, q6, q7, q8>>
<1>1. RollbackGate(ev, pol, date) = Verdict("rollback", rows)
  BY DEF RollbackGate
<1>2. RollbackGate(ev2, pol, date) = Verdict("rollback", rows2)
  <2>1. OfKind(ev2, "rollback_drill") # <<>>
    <3>1. Shuffled(OfKind(ev, "rollback_drill"), OfKind(ev2, "rollback_drill"))
      BY ReorderedKind
    <3>2. QED
      BY <3>1, ShuffledItems
  <2>2. QED
    BY <2>1 DEF RollbackGate
<1>3. Shuffled(s, t) /\ t # <<>> /\ x = y
  <2>1. Shuffled(s, t)
    BY ReorderedKind
  <2>2. s # <<>> /\ Len(s) <= 1
    OBVIOUS
  <2> HIDE DEF s, t
  <2>3. Len(s) = 1
    BY <2>1, <2>2 DEF Shuffled, IsList
  <2>4. QED
    BY <2>1, <2>3, ShuffledItems
<1>4. D = D2
  BY SameDigests
<1> HIDE DEF s, t, x, y, D, D2
<1>5. SameRow(r1, q1)
  BY <1>3, <1>4, SameRows
<1>6. SameRow(r2, q2)
  BY <1>3, SameRows
<1>7. SameRow(r3, q3)
  BY <1>3, SameRows
<1>8. SameRow(r4, q4)
  BY <1>3, SameRows
<1>9. SameRow(r5, q5)
  BY <1>3, SameRows
<1>10. SameRow(r6, q6)
  BY <1>3, SameRows
<1>11. SameRow(r7, q7)
  BY <1>3, SameRows
<1>12. SameRow(r8, q8)
  BY <1>3, SameRows
<1>13. r8 # {}
  BY RowHolds
<1> HIDE DEF r1, q1, r2, q2, r3, q3, r4, q4, r5, q5, r6, q6, r7, q7, r8, q8
<1>14. SameTable(8, rows, rows2)
  BY <1>5, <1>6, <1>7, <1>8, <1>9, <1>10, <1>11, <1>12, <1>13 DEF SameTable
<1> HIDE DEF rows, rows2
<1>15. QED
  BY <1>1, <1>2, <1>14, SameVerdict

\* The drill, or that there is none.
LEMMA SameRollback ==
  ASSUME NEW ev, NEW ev2, Reordered(ev, ev2), NEW pol, NEW date,
         Len(OfKind(ev, "rollback_drill")) <= 1
  PROVE  SameResult(RollbackGate(ev, pol, date), RollbackGate(ev2, pol, date))
<1>1. CASE OfKind(ev, "rollback_drill") # <<>>
  BY <1>1, SameRollbackHere
<1>2. CASE OfKind(ev, "rollback_drill") = <<>>
  <2>1. OfKind(ev2, "rollback_drill") = <<>>
    <3>1. Shuffled(OfKind(ev, "rollback_drill"), OfKind(ev2, "rollback_drill"))
      BY ReorderedKind
    <3>2. QED
      BY <3>1, <1>2, ShuffledItems
  <2>2. RollbackGate(ev2, pol, date) = RollbackGate(ev, pol, date)
    BY <1>2, <2>1 DEF RollbackGate
  <2>3. Bare(RollbackGate(ev, pol, date))
    BY <1>2, OptionalVerdict DEF RollbackGate
  <2>4. QED
    BY <2>2 DEF SameResult
<1>3. QED
  BY <1>1, <1>2

\* There is one observation of the deployment at most.
LEMMA SameDeploymentHere ==
  ASSUME NEW ev, NEW ev2, Reordered(ev, ev2), NEW pol, NEW date,
         OfKind(ev, "deploy_observation") # <<>>, Len(OfKind(ev, "deploy_observation")) <= 1
  PROVE  SameResult(DeploymentGate(ev, pol, date), DeploymentGate(ev2, pol, date))
<1> DEFINE s == OfKind(ev, "deploy_observation")
           t == OfKind(ev2, "deploy_observation")
           x == s[1].payload
           y == t[1].payload
           D == Digests(ev)
           D2 == Digests(ev2)
           r1 == Row(x.digest \notin D \/ x.release # ev.release,
                     "fail", "ARTIFACT_BINDING_MISMATCH", s)
           r2 == Row(x.environment # pol.environment, "fail", "DEPLOY_ENVIRONMENT_MISMATCH", s)
           r3 == Row(FromFuture(x.at, date) \/ Stale(x.at, date, pol.max_age),
                     "unknown", "DEPLOY_OBSERVATION_STALE", s)
           r4 == Row(x.status # "observed", "unknown", "DEPLOY_STATUS_UNKNOWN", s)
           r5 == Row(TRUE, "pass", "DEPLOY_TRUTH_BOUND", s)
           q1 == Row(y.digest \notin D2 \/ y.release # ev2.release,
                     "fail", "ARTIFACT_BINDING_MISMATCH", t)
           q2 == Row(y.environment # pol.environment, "fail", "DEPLOY_ENVIRONMENT_MISMATCH", t)
           q3 == Row(FromFuture(y.at, date) \/ Stale(y.at, date, pol.max_age),
                     "unknown", "DEPLOY_OBSERVATION_STALE", t)
           q4 == Row(y.status # "observed", "unknown", "DEPLOY_STATUS_UNKNOWN", t)
           q5 == Row(TRUE, "pass", "DEPLOY_TRUTH_BOUND", t)
           rows == <<r1, r2, r3, r4, r5>>
           rows2 == <<q1, q2, q3, q4, q5>>
<1>1. DeploymentGate(ev, pol, date) = Verdict("deploy_truth", rows)
  BY DEF DeploymentGate
<1>2. DeploymentGate(ev2, pol, date) = Verdict("deploy_truth", rows2)
  <2>1. OfKind(ev2, "deploy_observation") # <<>>
    <3>1. Shuffled(OfKind(ev, "deploy_observation"), OfKind(ev2, "deploy_observation"))
      BY ReorderedKind
    <3>2. QED
      BY <3>1, ShuffledItems
  <2>2. QED
    BY <2>1 DEF DeploymentGate
<1>3. Shuffled(s, t) /\ t # <<>> /\ x = y
  <2>1. Shuffled(s, t)
    BY ReorderedKind
  <2>2. s # <<>> /\ Len(s) <= 1
    OBVIOUS
  <2> HIDE DEF s, t
  <2>3. Len(s) = 1
    BY <2>1, <2>2 DEF Shuffled, IsList
  <2>4. QED
    BY <2>1, <2>3, ShuffledItems
<1>4. D = D2 /\ ev2.release = ev.release
  BY SameDigests DEF Reordered
<1> HIDE DEF s, t, x, y, D, D2
<1>5. SameRow(r1, q1)
  BY <1>3, <1>4, SameRows
<1>6. SameRow(r2, q2)
  BY <1>3, SameRows
<1>7. SameRow(r3, q3)
  BY <1>3, SameRows
<1>8. SameRow(r4, q4)
  BY <1>3, SameRows
<1>9. SameRow(r5, q5)
  BY <1>3, SameRows
<1>10. r5 # {}
  BY RowHolds
<1> HIDE DEF r1, q1, r2, q2, r3, q3, r4, q4, r5, q5
<1>11. SameTable(5, rows, rows2)
  BY <1>5, <1>6, <1>7, <1>8, <1>9, <1>10 DEF SameTable
<1> HIDE DEF rows, rows2
<1>12. QED
  BY <1>1, <1>2, <1>11, SameVerdict

\* The deployment, or that there is none.
LEMMA SameDeployment ==
  ASSUME NEW ev, NEW ev2, Reordered(ev, ev2), NEW pol, NEW date,
         Len(OfKind(ev, "deploy_observation")) <= 1
  PROVE  SameResult(DeploymentGate(ev, pol, date), DeploymentGate(ev2, pol, date))
<1>1. CASE OfKind(ev, "deploy_observation") # <<>>
  BY <1>1, SameDeploymentHere
<1>2. CASE OfKind(ev, "deploy_observation") = <<>>
  <2>1. OfKind(ev2, "deploy_observation") = <<>>
    <3>1. Shuffled(OfKind(ev, "deploy_observation"), OfKind(ev2, "deploy_observation"))
      BY ReorderedKind
    <3>2. QED
      BY <3>1, <1>2, ShuffledItems
  <2>2. DeploymentGate(ev2, pol, date) = DeploymentGate(ev, pol, date)
    BY <1>2, <2>1 DEF DeploymentGate
  <2>3. Bare(DeploymentGate(ev, pol, date))
    BY <1>2, OptionalVerdict DEF DeploymentGate
  <2>4. QED
    BY <2>2 DEF SameResult
<1>3. QED
  BY <1>1, <1>2

\* Artifacts that agree on their names, and on their version.
NamesAgree(ev) ==
  LET items == OfKind(ev, "artifact")
  IN  items = <<>> \/ Cardinality(Names(items)) = Len(items)
VersionsAgree(ev) ==
  LET items == OfKind(ev, "artifact")
  IN  \A i, j \in DOMAIN items : items[i].payload.version = items[j].payload.version

\* The later of two artifacts of one name counts: when there are no two, the order does not.
LEMMA SameMap ==
  ASSUME NEW ev, NEW ev2, Reordered(ev, ev2), NamesAgree(ev)
  PROVE  ArtifactMap(ev2) = ArtifactMap(ev)
<1> DEFINE s == OfKind(ev, "artifact")
           t == OfKind(ev2, "artifact")
           m == ArtifactMap(ev)
           m2 == ArtifactMap(ev2)
<1>1. Shuffled(s, t)
  BY ReorderedKind
<1>2. /\ Len(ev.observations) \in Nat /\ DOMAIN ev.observations = 1..Len(ev.observations)
      /\ Len(ev2.observations) \in Nat /\ DOMAIN ev2.observations = 1..Len(ev2.observations)
  BY DEF Reordered, Shuffled, IsList
<1>3. (\E f : m = [n \in Names(s) |-> f[n]]) /\ \E f : m2 = [n \in Names(t) |-> f[n]]
  <2>1. m = [n \in Names(s) |-> m[n]] /\ m2 = [n \in Names(t) |-> m2[n]]
    BY DEF ArtifactMap
  <2> HIDE DEF m, m2, s, t
  <2>2. QED
    BY <2>1
<1>4. s = <<>> \/ Cardinality(Names(s)) = Len(s)
  BY DEF NamesAgree
<1> HIDE DEF s, t
<1>5. /\ s = <<>> <=> t = <<>>
      /\ Len(s) = Len(t)
      /\ \A i \in DOMAIN s : \E j \in DOMAIN t : t[j] = s[i]
      /\ \A j \in DOMAIN t : \E i \in DOMAIN s : t[j] = s[i]
  BY <1>1, ShuffledItems
<1>6. Names(s) = Names(t)
  BY <1>5 DEF Names
<1>7. t = <<>> \/ Cardinality(Names(t)) = Len(t)
  BY <1>4, <1>5, <1>6
<1>8. \A i \in DOMAIN s : m[s[i].payload.name] = s[i].payload.digest
  BY <1>2, <1>4, MapOfArtifacts DEF s
<1>9. \A i \in DOMAIN t : m2[t[i].payload.name] = t[i].payload.digest
  BY <1>2, <1>7, MapOfArtifacts DEF t
<1> HIDE DEF m, m2
<1>10. \A n \in Names(s) : m[n] = m2[n]
  <2> TAKE n \in Names(s)
  <2>1. PICK i \in DOMAIN s : n = s[i].payload.name
    BY DEF Names
  <2>2. PICK j \in DOMAIN t : t[j] = s[i]
    BY <1>5
  <2>3. QED
    BY <1>8, <1>9, <2>1, <2>2
<1>11. m = m2
  BY <1>3, <1>6, <1>10
<1>12. QED
  BY <1>11 DEF m, m2

\* The changelog is compared with the first artifact: when the versions agree, with any.
LEMMA SameChangelogHere ==
  ASSUME NEW ev, NEW ev2, Reordered(ev, ev2), NEW pol,
         ArtifactMap(ev2) = ArtifactMap(ev), VersionsAgree(ev),
         OfKind(ev, "changelog") # <<>>, Len(OfKind(ev, "changelog")) <= 1
  PROVE  SameResult(ChangelogGate(ev, pol), ChangelogGate(ev2, pol))
<1> DEFINE s == OfKind(ev, "changelog")
           t == OfKind(ev2, "changelog")
           x == s[1].payload
           y == t[1].payload
           a == OfKind(ev, "artifact")
           b == OfKind(ev2, "artifact")
           map == ArtifactMap(ev)
           map2 == ArtifactMap(ev2)
           r1 == Row(a # <<>> /\ x.version # a[1].payload.version,
                     "fail", "CHANGELOG_VERSION_MISMATCH", s)
           r2 == Row(x.set # map, "fail", "ARTIFACT_BINDING_MISMATCH", s)
           r3 == Row(TRUE, "pass", "CHANGELOG_BOUND", s)
           q1 == Row(b # <<>> /\ y.version # b[1].payload.version,
                     "fail", "CHANGELOG_VERSION_MISMATCH", t)
           q2 == Row(y.set # map2, "fail", "ARTIFACT_BINDING_MISMATCH", t)
           q3 == Row(TRUE, "pass", "CHANGELOG_BOUND", t)
           rows == <<r1, r2, r3>>
           rows2 == <<q1, q2, q3>>
<1>1. ChangelogGate(ev, pol) = Verdict("changelog", rows)
  BY DEF ChangelogGate
<1>2. ChangelogGate(ev2, pol) = Verdict("changelog", rows2)
  <2>1. OfKind(ev2, "changelog") # <<>>
    <3>1. Shuffled(OfKind(ev, "changelog"), OfKind(ev2, "changelog"))
      BY ReorderedKind
    <3>2. QED
      BY <3>1, ShuffledItems
  <2>2. QED
    BY <2>1 DEF ChangelogGate
<1>3. Shuffled(s, t) /\ t # <<>> /\ x = y
  <2>1. Shuffled(s, t)
    BY ReorderedKind
  <2>2. s # <<>> /\ Len(s) <= 1
    OBVIOUS
  <2> HIDE DEF s, t
  <2>3. Len(s) = 1
    BY <2>1, <2>2 DEF Shuffled, IsList
  <2>4. QED
    BY <2>1, <2>3, ShuffledItems
<1>4. map = map2
  OBVIOUS
<1>5. Shuffled(a, b) /\ \A i, j \in DOMAIN a : a[i].payload.version = a[j].payload.version
  BY ReorderedKind DEF VersionsAgree
<1> HIDE DEF s, t, x, y, a, b, map, map2
<1>6. /\ a # <<>> <=> b # <<>>
      /\ a # <<>> => a[1].payload.version = b[1].payload.version
  <2>1. a # <<>> <=> b # <<>>
    BY <1>5, ShuffledItems
  <2>2. a # <<>> => 1 \in DOMAIN a /\ 1 \in DOMAIN b
    BY <1>5 DEF Shuffled, IsList
  <2>3. 1 \in DOMAIN b => \E i \in DOMAIN a : b[1] = a[i]
    BY <1>5, ShuffledItems
  <2>4. QED
    BY <1>5, <2>1, <2>2, <2>3
<1>7. SameRow(r1, q1)
  BY <1>3, <1>6, SameRows
<1>8. SameRow(r2, q2)
  BY <1>3, <1>4, SameRows
<1>9. SameRow(r3, q3)
  BY <1>3, SameRows
<1>10. r3 # {}
  BY RowHolds
<1> HIDE DEF r1, q1, r2, q2, r3, q3
<1>11. SameTable(3, rows, rows2)
  BY <1>7, <1>8, <1>9, <1>10 DEF SameTable
<1> HIDE DEF rows, rows2
<1>12. QED
  BY <1>1, <1>2, <1>11, SameVerdict

\* The changelog, or that there is none.
LEMMA SameChangelog ==
  ASSUME NEW ev, NEW ev2, Reordered(ev, ev2), NEW pol,
         ArtifactMap(ev2) = ArtifactMap(ev), VersionsAgree(ev),
         Len(OfKind(ev, "changelog")) <= 1
  PROVE  SameResult(ChangelogGate(ev, pol), ChangelogGate(ev2, pol))
<1>1. CASE OfKind(ev, "changelog") # <<>>
  BY <1>1, SameChangelogHere
<1>2. CASE OfKind(ev, "changelog") = <<>>
  <2>1. OfKind(ev2, "changelog") = <<>>
    <3>1. Shuffled(OfKind(ev, "changelog"), OfKind(ev2, "changelog"))
      BY ReorderedKind
    <3>2. QED
      BY <3>1, <1>2, ShuffledItems
  <2>2. ChangelogGate(ev2, pol) = ChangelogGate(ev, pol)
    BY <1>2, <2>1 DEF ChangelogGate
  <2>3. Bare(ChangelogGate(ev, pol))
    BY <1>2, OptionalVerdict DEF ChangelogGate
  <2>4. QED
    BY <2>2 DEF SameResult
<1>3. QED
  BY <1>1, <1>2

\* The diff, when there is one.
LEMMA SameDiffHere ==
  ASSUME NEW ev, NEW ev2, Reordered(ev, ev2), NEW pol,
         Len(OfKind(ev, "diff")) = 1
  PROVE  SameResult(DiffGate(ev, pol), DiffGate(ev2, pol))
<1> DEFINE s == OfKind(ev, "diff")
           t == OfKind(ev2, "diff")
           x == s[1].payload.files
           y == t[1].payload.files
           r1 == Row(Score(x) <= pol.max_risk, "pass", "DIFF_RISK_ACCEPTABLE", s)
           r2 == Row(TRUE, "fail", "DIFF_RISK_TOO_HIGH", s)
           q1 == Row(Score(y) <= pol.max_risk, "pass", "DIFF_RISK_ACCEPTABLE", t)
           q2 == Row(TRUE, "fail", "DIFF_RISK_TOO_HIGH", t)
           rows == <<r1, r2>>
           rows2 == <<q1, q2>>
<1>1. DiffGate(ev, pol) = Verdict("diff_risk", rows)
  BY DEF DiffGate
<1>2. DiffGate(ev2, pol) = Verdict("diff_risk", rows2)
  <2>1. Shuffled(OfKind(ev, "diff"), OfKind(ev2, "diff"))
    BY ReorderedKind
  <2>2. Len(OfKind(ev2, "diff")) = 1
    BY <2>1 DEF Shuffled
  <2>3. QED
    BY <2>2 DEF DiffGate
<1>3. Shuffled(s, t) /\ x = y
  BY ReorderedKind, ShuffledItems
<1> HIDE DEF s, t, x, y
<1>4. SameRow(r1, q1)
  BY <1>3, SameRows
<1>5. SameRow(r2, q2)
  BY <1>3, SameRows
<1>6. r2 # {}
  BY RowHolds
<1> HIDE DEF r1, q1, r2, q2
<1>7. SameTable(2, rows, rows2)
  BY <1>4, <1>5, <1>6 DEF SameTable
<1> HIDE DEF rows, rows2
<1>8. QED
  BY <1>1, <1>2, <1>7, SameVerdict

\* The diff, or that there is not exactly one.
LEMMA SameDiff ==
  ASSUME NEW ev, NEW ev2, Reordered(ev, ev2), NEW pol
  PROVE  SameResult(DiffGate(ev, pol), DiffGate(ev2, pol))
<1> DEFINE s == OfKind(ev, "diff")
           t == OfKind(ev2, "diff")
<1>1. Shuffled(s, t)
  BY ReorderedKind
<1>2. CASE Len(s) = 1
  BY <1>2, SameDiffHere
<1>3. CASE Len(s) # 1
  <2>1. Len(t) # 1
    BY <1>1, <1>3 DEF Shuffled
  <2>2. /\ DiffGate(ev, pol) = Result("diff_risk", "unknown", "DIFF_EVIDENCE_MISSING", s)
        /\ DiffGate(ev2, pol) = Result("diff_risk", "unknown", "DIFF_EVIDENCE_MISSING", t)
    BY <1>3, <2>1 DEF DiffGate
  <2> HIDE DEF s, t
  <2>3. QED
    BY <1>1, <2>2, SameResults
<1>4. QED
  BY <1>2, <1>3

-----------------------------------------------------------------------------
(* Sums over finite sets: the iteration of the library's folds.            *)

\* Induction, for a set of numbers in place of a property.
LEMMA SetOfNumbers ==
  ASSUME NEW T, 0 \in T, \A n \in T : n \in Nat => n + 1 \in T
  PROVE  Nat \subseteq T
<1> DEFINE S == FiniteSubsetsOf(Nat)
           R == StrictSubsetOrdering(Nat)
           Upto(n) == 1..n
           U == {1..n : n \in Nat \ T}
<1>1. SUFFICES ASSUME U # {} PROVE FALSE
  OBVIOUS
<1>2. IsWellFoundedOn(R, S)
  BY FS_StrictSubsetOrderingWellFounded
<1>3. U \subseteq S
  <2> SUFFICES ASSUME NEW n \in Nat PROVE 1..n \in S
    OBVIOUS
  <2>1. IsFiniteSet(1..n) /\ 1..n \in SUBSET Nat
    BY FS_Interval
  <2>2. QED
    BY <2>1 DEF FiniteSubsetsOf
<1> HIDE DEF R, S
<1>4. PICK x \in U : \A y \in U : <<y, x>> \notin R
  BY ONLY <1>1, <1>2, <1>3, WFMin
<1>5. PICK n \in Nat \ T : x = 1..n
  BY <1>4
<1>6. n \in Nat /\ n # 0 /\ n - 1 \in Nat /\ n - 1 \notin T
  <2>1. n \in Nat /\ n \notin T /\ n # 0
    BY <1>5
  <2>2. n - 1 \in Nat /\ (n - 1) + 1 = n
    BY <2>1
  <2>3. QED
    BY <2>1, <2>2
<1>7. 1..(n-1) \in U
  BY <1>6
<1>8. 1..(n-1) \subseteq 1..n /\ n \in 1..n /\ n \notin 1..(n-1) /\ 1..n \in SUBSET Nat
  BY <1>6
<1>9. <<1..(n-1), 1..n>> \in R
  BY <1>8 DEF R, StrictSubsetOrdering
<1>10. QED
  BY <1>4, <1>5, <1>7, <1>9

\* Sets of subsets of S that are closed under one more element have them all.
LEMMA AllSubsets ==
  ASSUME NEW S, IsFiniteSet(S), NEW T,
         \A s \in SUBSET S : (\A u \in SUBSET s : u # s => u \in T) => s \in T
  PROVE  SUBSET S \subseteq T
<1> DEFINE F == FiniteSubsetsOf(S)
           R == StrictSubsetOrdering(S)
           U == (SUBSET S) \ T
<1>1. SUFFICES ASSUME U # {} PROVE FALSE
  OBVIOUS
<1>2. IsWellFoundedOn(R, F)
  BY FS_StrictSubsetOrderingWellFounded
<1>3. U \subseteq F
  BY FS_Subset DEF FiniteSubsetsOf
<1> HIDE DEF R, F
<1>4. PICK s \in U : \A u \in U : <<u, s>> \notin R
  <2> HIDE DEF U
  <2>1. QED
    BY ONLY <1>1, <1>2, <1>3, WFMin
<1>5. ASSUME NEW u \in SUBSET s, u # s PROVE u \in T
  <2>1. <<u, s>> \in R
    BY <1>5 DEF R, StrictSubsetOrdering
  <2>2. QED
    BY <2>1, <1>4
<1>6. s \in SUBSET S /\ s \notin T
  BY <1>4
<1>7. s \in T
  BY <1>5, <1>6
<1>8. QED
  BY <1>6, <1>7

\* it sums up the weights w over the subsets of S.
IsSum(it, w, S) ==
  it = [s \in SUBSET S |->
          IF s = {} THEN 0
          ELSE LET x == CHOOSE x \in s : TRUE IN w[x] + it[s \ {x}]]

\* Every set of numbered things has a sum.
LEMMA SumExists ==
  ASSUME NEW S, IsFiniteSet(S), NEW w
  PROVE  \E it : IsSum(it, w, S)
<1> DEFINE C(s) == CHOOSE x \in s : TRUE
           Small(n) == {s \in SUBSET S : Cardinality(s) <= n}
           Upto(g, n) == g = [s \in Small(n) |-> IF s = {} THEN 0 ELSE w[C(s)] + g[s \ {C(s)}]]
           T == {n \in Nat : \E g : Upto(g, n)}
<1>1. \A s \in SUBSET S : /\ IsFiniteSet(s) /\ Cardinality(s) \in Nat
                          /\ Cardinality(s) = 0 <=> s = {}
                          /\ Cardinality(s) <= Cardinality(S)
  BY FS_Subset, FS_CardinalityType, FS_EmptySet
<1>2. \A s \in SUBSET S : s # {} =>
        C(s) \in s /\ s \ {C(s)} \in SUBSET S /\ Cardinality(s \ {C(s)}) = Cardinality(s) - 1
  BY <1>1, FS_RemoveElement
<1> HIDE DEF C
<1>3. 0 \in T
  <2> DEFINE g == [s \in Small(0) |-> 0]
  <2>1. \A s \in Small(0) : s = {}
    BY <1>1
  <2>2. Upto(g, 0)
    BY <2>1
  <2>3. QED
    BY <2>2
<1>4. ASSUME NEW n \in Nat, n \in T PROVE n + 1 \in T
  <2>1. PICK g : Upto(g, n)
    BY <1>4
  <2> DEFINE h == [s \in Small(n + 1) |-> IF s = {} THEN 0 ELSE w[C(s)] + g[s \ {C(s)}]]
  <2>2. Small(n) \subseteq Small(n + 1)
    BY <1>1
  <2>3. \A u \in Small(n) : h[u] = g[u]
    BY <2>1, <2>2
  <2>4. \A s \in Small(n + 1) : s # {} => s \ {C(s)} \in Small(n)
    BY <1>1, <1>2
  <2> HIDE DEF Small
  <2>5. Upto(h, n + 1)
    BY <2>3, <2>4
  <2> HIDE DEF Upto, h
  <2>6. \E f : Upto(f, n + 1)
    BY <2>5
  <2>7. QED
    BY <2>6
<1>5. Nat \subseteq T
  <2> HIDE DEF T
  <2>1. QED
    BY <1>3, <1>4, SetOfNumbers
<1>6. PICK it : Upto(it, Cardinality(S))
  BY <1>1, <1>5
<1>7. Small(Cardinality(S)) = SUBSET S
  BY <1>1
<1> HIDE DEF Small
<1>8. IsSum(it, w, S)
  BY <1>6, <1>7 DEF IsSum, C
<1>9. QED
  BY <1>8

\* A sum whose terms can be taken in any order.
Additive(it, w, S) ==
  /\ it[{}] = 0
  /\ \A s \in SUBSET S : it[s] \in Nat /\ \A x \in s : it[s] = w[x] + it[s \ {x}]

\* The order in which the elements are chosen does not matter.
LEMMA SumTakesAny ==
  ASSUME NEW S, IsFiniteSet(S), NEW w \in [S -> Nat], NEW it, IsSum(it, w, S)
  PROVE  Additive(it, w, S)
<1> DEFINE Chosen(s) == it[s] \in Nat /\ \A x \in s : it[s] = w[x] + it[s \ {x}]
           T == {s \in SUBSET S : Chosen(s)}
<1>1. it[{}] = 0
  BY DEF IsSum
<1>2. ASSUME NEW s \in SUBSET S, \A u \in SUBSET s : u # s => u \in T
      PROVE  Chosen(s)
  <2>1. CASE s = {}
    BY <1>1, <2>1
  <2>2. CASE s # {}
    <3>1. PICK c \in s : it[s] = w[c] + it[s \ {c}]
      BY <2>2 DEF IsSum
    <3>2. s \ {c} \in T
      BY <1>2
    <3>3. it[s] \in Nat
      BY <3>1, <3>2
    <3>4. ASSUME NEW x \in s, x # c PROVE it[s] = w[x] + it[s \ {x}]
      <4>1. s \ {x} \in T /\ x \in s \ {c} /\ c \in s \ {x}
        BY <1>2, <3>4
      <4>2. (s \ {c}) \ {x} = (s \ {x}) \ {c}
        OBVIOUS
      <4>3. it[s \ {c}] = w[x] + it[(s \ {c}) \ {x}] /\ it[s \ {x}] = w[c] + it[(s \ {x}) \ {c}]
        BY <3>2, <4>1
      <4>4. (s \ {c}) \ {x} \in T
        BY <1>2
      <4>5. it[(s \ {c}) \ {x}] \in Nat /\ w[x] \in Nat /\ w[c] \in Nat
        BY <4>4
      <4>6. QED
        BY <3>1, <4>2, <4>3, <4>5
    <3>5. QED
      BY <3>1, <3>3, <3>4
  <2>3. QED
    BY <2>1, <2>2
<1>3. SUBSET S \subseteq T
  <2>1. \A s \in SUBSET S : (\A u \in SUBSET s : u # s => u \in T) => s \in T
    BY <1>2
  <2> HIDE DEF T
  <2>2. QED
    BY <2>1, AllSubsets
<1>4. QED
  BY <1>1, <1>3 DEF Additive

\* The sequence has the elements of S, each of them once; the weights are the same.
SameTerms(seq, n, S, w, v) ==
  /\ \A i, j \in 1..n : seq[i] = seq[j] => i = j
  /\ \A i \in 1..n : seq[i] \in S /\ v[i] = w[seq[i]]
  /\ \A x \in S : \E i \in 1..n : seq[i] = x

\* The sum over a sequence without repetitions is that over its elements.
LEMMA SumOfSequence ==
  ASSUME NEW n \in Nat, NEW S, NEW w \in [S -> Nat], NEW v \in [1..n -> Nat],
         NEW seq, SameTerms(seq, n, S, w, v),
         NEW it, IsSum(it, w, S), NEW jt, IsSum(jt, v, 1..n)
  PROVE  it[S] = jt[1..n]
<1> DEFINE Image(k) == {seq[i] : i \in 1..k}
           T == {k \in Nat : k <= n => it[Image(k)] = jt[1..k]}
<1>1. IsFiniteSet(1..n) /\ IsFiniteSet(S)
  <2> DEFINE f == [i \in 1..n |-> seq[i]]
  <2>1. IsFiniteSet(1..n)
    BY FS_Interval
  <2>2. f \in Surjection(1..n, S)
    BY DEF Surjection, SameTerms
  <2>3. QED
    BY <2>1, <2>2, FS_Surjection
<1>2. Additive(it, w, S)
  BY <1>1, SumTakesAny
<1>3. Additive(jt, v, 1..n)
  BY <1>1, SumTakesAny
<1> HIDE DEF Image
<1>4. 0 \in T
  <2>1. Image(0) = {} /\ 1..0 = {}
    BY DEF Image, SameTerms
  <2>2. QED
    BY <2>1, <1>2, <1>3 DEF Additive
<1>5. ASSUME NEW k \in Nat, k \in T PROVE k + 1 \in T
  <2> SUFFICES ASSUME k + 1 <= n PROVE it[Image(k + 1)] = jt[1..(k + 1)]
    OBVIOUS
  <2>1. /\ k + 1 \in 1..n /\ k + 1 \in 1..(k + 1) /\ 1..(k + 1) \in SUBSET (1..n)
        /\ (1..(k + 1)) \ {k + 1} = 1..k
    OBVIOUS
  <2>2. /\ seq[k + 1] \in Image(k + 1) /\ Image(k + 1) \in SUBSET S
        /\ Image(k + 1) \ {seq[k + 1]} = Image(k)
    <3>1. seq[k + 1] \in Image(k + 1) /\ Image(k + 1) \in SUBSET S
      BY <2>1 DEF Image, SameTerms
    <3>2. \A i \in 1..(k + 1) : i \in 1..k \/ i = k + 1
      OBVIOUS
    <3>3. \A i \in 1..k : i \in 1..n /\ i # k + 1 /\ i \in 1..(k + 1)
      BY <2>1
    <3>4. Image(k + 1) \ {seq[k + 1]} \subseteq Image(k)
      BY <3>2 DEF Image
    <3>5. Image(k) \subseteq Image(k + 1) \ {seq[k + 1]}
      BY <2>1, <3>3 DEF Image, SameTerms
    <3>6. QED
      BY <3>1, <3>4, <3>5
  <2>3. it[Image(k + 1)] = w[seq[k + 1]] + it[Image(k)]
    <3>1. ASSUME NEW s \in SUBSET S, NEW x \in s, NEW u, u = s \ {x}
          PROVE  it[s] = w[x] + it[u]
      BY <1>2, <3>1 DEF Additive
    <3>2. QED
      BY <2>2, <3>1
  <2>4. jt[1..(k + 1)] = v[k + 1] + jt[1..k]
    <3>1. ASSUME NEW s \in SUBSET (1..n), NEW x \in s, NEW u, u = s \ {x}
          PROVE  jt[s] = v[x] + jt[u]
      BY <1>3, <3>1 DEF Additive
    <3>2. PICK s, u : s = 1..(k + 1) /\ u = 1..k
      OBVIOUS
    <3>3. s \in SUBSET (1..n) /\ k + 1 \in s /\ u = s \ {k + 1}
      BY <2>1, <3>2
    <3>4. jt[s] = v[k + 1] + jt[u]
      BY <3>1, <3>3
    <3>5. QED
      BY <3>2, <3>4
  <2>5. QED
    BY <1>5, <2>1, <2>3, <2>4 DEF SameTerms
<1>6. Nat \subseteq T
  <2> HIDE DEF T
  <2>1. QED
    BY <1>4, <1>5, SetOfNumbers
<1>7. n \in T
  BY <1>6
<1>8. Image(n) = S
  BY DEF Image, SameTerms
<1>9. it[Image(n)] = jt[1..n]
  BY <1>7
<1>10. QED
  BY <1>8, <1>9

\* The number of tests executed does not depend on the order of the summaries.
LEMMA SameExecuted ==
  ASSUME NEW s, NEW t, Shuffled(s, t),
         \A i \in DOMAIN s : s[i].payload.passed \in Nat /\ s[i].payload.failed \in Nat
  PROVE  Sum(s, LAMBDA o : o.payload.passed + o.payload.failed)
           = Sum(t, LAMBDA o : o.payload.passed + o.payload.failed)
<1> DEFINE n == Len(s)
           v == [i \in 1..n |-> s[i].payload.passed + s[i].payload.failed]
           w == [i \in 1..n |-> t[i].payload.passed + t[i].payload.failed]
           P(it) == it = [u \in SUBSET (1..n) |->
                            IF u = {} THEN 0
                            ELSE LET x == CHOOSE x \in u : TRUE
                                 IN  (s[x].payload.passed + s[x].payload.failed) + it[u \ {x}]]
           Q(it) == it = [u \in SUBSET (1..n) |->
                            IF u = {} THEN 0
                            ELSE LET x == CHOOSE x \in u : TRUE
                                 IN  (t[x].payload.passed + t[x].payload.failed) + it[u \ {x}]]
<1>1. n \in Nat /\ DOMAIN s = 1..n /\ DOMAIN t = 1..n
  BY DEF Shuffled, IsList
<1>2. PICK f : Moves(f, s, t)
  BY DEF Shuffled
<1>3. /\ \A i \in 1..n : f[i] \in 1..n /\ t[f[i]] = s[i]
      /\ \A i, k \in 1..n : f[i] = f[k] => i = k
      /\ \A j \in 1..n : \E i \in 1..n : f[i] = j
  BY <1>2 DEF Moves, Bijection, Injection, Surjection, IsInjective
<1>4. (\A it : IsSum(it, v, 1..n) <=> P(it)) /\ (\A it : IsSum(it, w, 1..n) <=> Q(it))
  BY DEF IsSum
<1>5. Sum(s, LAMBDA o : o.payload.passed + o.payload.failed) = (CHOOSE it : P(it))[1..n]
  BY <1>1 DEF Sum, MapThenSumSet, MapThenFoldSet
<1>6. Sum(t, LAMBDA o : o.payload.passed + o.payload.failed) = (CHOOSE it : Q(it))[1..n]
  BY <1>1 DEF Sum, MapThenSumSet, MapThenFoldSet
<1>7. v \in [1..n -> Nat] /\ w \in [1..n -> Nat] /\ \A i \in 1..n : v[i] = w[f[i]]
  <2>1. \A i \in 1..n : s[i].payload.passed + s[i].payload.failed \in Nat
    BY <1>1
  <2>2. \A j \in 1..n : t[j].payload.passed + t[j].payload.failed \in Nat
    <3> TAKE j \in 1..n
    <3>1. PICK i \in 1..n : f[i] = j
      BY <1>3
    <3>2. t[j] = s[i]
      BY <1>3, <3>1
    <3>3. QED
      BY <2>1, <3>2
  <2>3. QED
    BY <1>3, <2>1, <2>2
<1> HIDE DEF n, v, w
<1>8. IsFiniteSet(1..n)
  BY <1>1, FS_Interval
<1>9. (\E it : P(it)) /\ (\E it : Q(it))
  <2>1. (\E it : IsSum(it, v, 1..n)) /\ (\E it : IsSum(it, w, 1..n))
    BY <1>8, SumExists
  <2> HIDE DEF P, Q
  <2>2. QED
    BY <2>1, <1>4
<1> HIDE DEF P, Q
<1>10. P(CHOOSE it : P(it)) /\ Q(CHOOSE it : Q(it))
  BY <1>9
<1>11. PICK jt, it : /\ jt = (CHOOSE g : P(g)) /\ it = (CHOOSE g : Q(g))
                     /\ IsSum(jt, v, 1..n) /\ IsSum(it, w, 1..n)
  BY <1>4, <1>10
<1>12. it[1..n] = jt[1..n]
  <2>1. SameTerms(f, n, 1..n, w, v)
    BY <1>3, <1>7 DEF SameTerms
  <2>2. PICK S : S = 1..n
    OBVIOUS
  <2>3. /\ w \in [S -> Nat] /\ v \in [1..n -> Nat] /\ SameTerms(f, n, S, w, v)
        /\ IsSum(it, w, S) /\ IsSum(jt, v, 1..n)
    BY <1>7, <1>11, <2>1, <2>2
  <2>4. it[S] = jt[1..n]
    BY ONLY <1>1, <2>3, SumOfSequence
  <2>5. QED
    BY <2>2, <2>4
<1>13. QED
  BY <1>5, <1>6, <1>11, <1>12

\* The tests in another order.
LEMMA SameTests ==
  ASSUME NEW ev, NEW ev2, Reordered(ev, ev2), NEW pol, Counted(ev)
  PROVE  SameResult(TestsGate(ev, pol), TestsGate(ev2, pol))
<1> DEFINE s == OfKind(ev, "test_summary")
           t == OfKind(ev2, "test_summary")
           suites == {s[i].payload.suite : i \in DOMAIN s}
           suites2 == {t[i].payload.suite : i \in DOMAIN t}
           I == {i \in DOMAIN s : s[i].payload.failed > 0 \/ s[i].payload.truncated}
           J == {i \in DOMAIN t : t[i].payload.failed > 0 \/ t[i].payload.truncated}
           bad == Those(s, I)
           bad2 == Those(t, J)
           done == Sum(s, LAMBDA o : o.payload.passed + o.payload.failed)
           done2 == Sum(t, LAMBDA o : o.payload.passed + o.payload.failed)
           r1 == Row(s = <<>>, "unknown", "TEST_EVIDENCE_MISSING", <<>>)
           r2 == Row(~(pol.suites \subseteq suites), "unknown", "TEST_SUITES_MISSING", s)
           r3 == Row(bad # <<>>, "fail", "TEST_EVIDENCE_FAILED", bad)
           r4 == Row(done < pol.min_tests, "unknown", "TEST_COUNT_INSUFFICIENT", s)
           r5 == Row(TRUE, "pass", "TESTS_PASSING", s)
           q1 == Row(t = <<>>, "unknown", "TEST_EVIDENCE_MISSING", <<>>)
           q2 == Row(~(pol.suites \subseteq suites2), "unknown", "TEST_SUITES_MISSING", t)
           q3 == Row(bad2 # <<>>, "fail", "TEST_EVIDENCE_FAILED", bad2)
           q4 == Row(done2 < pol.min_tests, "unknown", "TEST_COUNT_INSUFFICIENT", t)
           q5 == Row(TRUE, "pass", "TESTS_PASSING", t)
           rows == <<r1, r2, r3, r4, r5>>
           rows2 == <<q1, q2, q3, q4, q5>>
<1>1. TestsGate(ev, pol) = Verdict("tests", rows)
  BY DEF TestsGate, Select
<1>2. TestsGate(ev2, pol) = Verdict("tests", rows2)
  BY DEF TestsGate, Select
<1>3. Shuffled(s, t) /\ Shuffled(<<>>, <<>>)
  BY ReorderedKind, ShuffledEmpty
<1>4. \A i \in DOMAIN s : s[i].payload.passed \in Nat /\ s[i].payload.failed \in Nat
  <2> TAKE i \in DOMAIN s
  <2>1. IsList(ev.observations)
    BY DEF Reordered, Shuffled
  <2>2. PICK j \in DOMAIN ev.observations :
          s[i] = ev.observations[j] /\ ev.observations[j].kind = "test_summary"
    BY <2>1, KindOf
  <2> HIDE DEF s
  <2>3. QED
    BY <2>2 DEF Counted
<1>5. Shuffled(bad, bad2)
  <2>1. \A i \in DOMAIN s, j \in DOMAIN t : s[i] = t[j] => (i \in I <=> j \in J)
    OBVIOUS
  <2>2. I \subseteq DOMAIN s /\ J \subseteq DOMAIN t
    OBVIOUS
  <2> HIDE DEF s, t, I, J
  <2>3. QED
    BY <1>3, <2>1, <2>2, Selected
<1> HIDE DEF s, t, bad, bad2
<1>6. done = done2
  BY <1>3, <1>4, SameExecuted
<1> HIDE DEF done, done2
<1>7. /\ s = <<>> <=> t = <<>>
      /\ \A i \in DOMAIN s : \E j \in DOMAIN t : t[j] = s[i]
      /\ \A j \in DOMAIN t : \E i \in DOMAIN s : t[j] = s[i]
  BY <1>3, ShuffledItems
<1>8. suites = suites2
  BY <1>7
<1> HIDE DEF suites, suites2
<1>9. bad # <<>> <=> bad2 # <<>>
  BY <1>5, ShuffledItems
<1>10. SameRow(r1, q1)
  BY <1>3, <1>7, SameRows
<1>11. SameRow(r2, q2)
  BY <1>3, <1>8, SameRows
<1>12. SameRow(r3, q3)
  BY <1>5, <1>9, SameRows
<1>13. SameRow(r4, q4)
  BY <1>3, <1>6, SameRows
<1>14. SameRow(r5, q5)
  BY <1>3, SameRows
<1>15. r5 # {}
  BY RowHolds
<1> HIDE DEF r1, q1, r2, q2, r3, q3, r4, q4, r5, q5
<1>16. SameTable(5, rows, rows2)
  BY <1>10, <1>11, <1>12, <1>13, <1>14, <1>15 DEF SameTable
<1> HIDE DEF rows, rows2
<1>17. QED
  BY <1>1, <1>2, <1>16, SameVerdict

-----------------------------------------------------------------------------
(* What makes the engine refuse evidence.                                  *)

\* Two attempts that contradict each other do so in any order.
LEMMA CIMalformedIn ==
  ASSUME NEW ev, NEW ev2, PairsIn(OfKind(ev, "ci_run"), OfKind(ev2, "ci_run")), CIMalformed(ev)
  PROVE  CIMalformed(ev2)
<1> DEFINE s == OfKind(ev, "ci_run")
           t == OfKind(ev2, "ci_run")
<1>1. PICK i \in DOMAIN s, k \in DOMAIN s : i # k /\
        \/ s[i].payload.run = s[k].payload.run /\ s[i].payload.attempt = s[k].payload.attempt
        \/ (s[i].payload.run = s[k].payload.run) # (s[i].payload.sequence = s[k].payload.sequence)
  BY DEF CIMalformed
<1>2. PICK j \in DOMAIN t, l \in DOMAIN t : t[j] = s[i] /\ t[l] = s[k] /\ j # l
  BY <1>1 DEF PairsIn
<1> HIDE DEF s, t
<1>3. j # l /\
        \/ t[j].payload.run = t[l].payload.run /\ t[j].payload.attempt = t[l].payload.attempt
        \/ (t[j].payload.run = t[l].payload.run) # (t[j].payload.sequence = t[l].payload.sequence)
  BY <1>1, <1>2
<1>4. QED
  BY <1>3 DEF CIMalformed, t

\* So do two reports of one suite, or one that does not add up.
LEMMA TestsMalformedIn ==
  ASSUME NEW ev, NEW ev2, PairsIn(OfKind(ev, "test_summary"), OfKind(ev2, "test_summary")),
         TestsMalformed(ev)
  PROVE  TestsMalformed(ev2)
<1> DEFINE s == OfKind(ev, "test_summary")
           t == OfKind(ev2, "test_summary")
           twice(x, y) == x.payload.suite = y.payload.suite /\ x.payload.run = y.payload.run
           wrong(x) == x.payload.passed + x.payload.failed + x.payload.skipped # x.payload.total
<1>1. /\ TestsMalformed(ev) <=> (\/ \E i, j \in DOMAIN s : i # j /\ twice(s[i], s[j])
                                 \/ \E i \in DOMAIN s : wrong(s[i]))
      /\ TestsMalformed(ev2) <=> (\/ \E i, j \in DOMAIN t : i # j /\ twice(t[i], t[j])
                                  \/ \E i \in DOMAIN t : wrong(t[i]))
  BY DEF TestsMalformed
<1>2. PairsIn(s, t)
  OBVIOUS
<1> HIDE DEF s, t, twice, wrong
<1>3. QED
  BY <1>1, <1>2 DEF PairsIn

\* So do two reports of one build.
LEMMA BuildsMalformedIn ==
  ASSUME NEW ev, NEW ev2, NEW pol,
         PairsIn(OfKind(ev, "build_manifest"), OfKind(ev2, "build_manifest")),
         Len(OfKind(ev, "build_manifest")) = Len(OfKind(ev2, "build_manifest")),
         BuildsMalformed(ev, pol)
  PROVE  BuildsMalformed(ev2, pol)
<1> DEFINE s == OfKind(ev, "build_manifest")
           t == OfKind(ev2, "build_manifest")
           twice(x, y) == x.payload.build = y.payload.build
           wrong(x) == \E a, b \in x.payload.artifacts : a # b /\ a.name = b.name
<1>1. /\ BuildsMalformed(ev, pol) <=>
           /\ Len(s) >= pol.min_builds
           /\ \/ \E i, j \in DOMAIN s : i # j /\ twice(s[i], s[j])
              \/ \E i \in DOMAIN s : wrong(s[i])
      /\ BuildsMalformed(ev2, pol) <=>
           /\ Len(t) >= pol.min_builds
           /\ \/ \E i, j \in DOMAIN t : i # j /\ twice(t[i], t[j])
              \/ \E i \in DOMAIN t : wrong(t[i])
  BY DEF BuildsMalformed
<1>2. PairsIn(s, t) /\ Len(s) = Len(t)
  OBVIOUS
<1> HIDE DEF s, t, twice, wrong
<1>3. Len(t) >= pol.min_builds
  BY <1>1, <1>2
<1>4. \/ \E i, j \in DOMAIN t : i # j /\ twice(t[i], t[j])
      \/ \E i \in DOMAIN t : wrong(t[i])
  BY <1>1, <1>2 DEF PairsIn
<1>5. QED
  BY <1>1, <1>3, <1>4

\* So do two items of one name.
LEMMA NamedTwiceIn ==
  ASSUME NEW s, NEW t, PairsIn(s, t), NamedTwice(s)
  PROVE  NamedTwice(t)
BY DEF PairsIn, NamedTwice

\* The observations of a kind, two at a time.
LEMMA SameKind ==
  ASSUME NEW ev, NEW ev2, Reordered(ev, ev2), NEW kind
  PROVE  LET s == OfKind(ev, kind)
             t == OfKind(ev2, kind)
         IN  PairsIn(s, t) /\ PairsIn(t, s) /\ Len(t) = Len(s) /\ (Len(s) = 1 => t[1] = s[1])
<1> DEFINE s == OfKind(ev, kind)
           t == OfKind(ev2, kind)
<1>1. Shuffled(s, t)
  BY ReorderedKind
<1> HIDE DEF s, t
<1>2. PairsIn(s, t) /\ PairsIn(t, s) /\ Len(t) = Len(s) /\ (Len(s) = 1 => t[1] = s[1])
  BY <1>1, ShuffledPairs, ShuffledItems
<1>3. QED
  BY <1>2 DEF s, t

\* Evidence is refused in any order or in none.
LEMMA SameMalformed ==
  ASSUME NEW ev, NEW ev2, Reordered(ev, ev2), NEW pol, NEW date
  PROVE  Malformed(ev, pol, date) <=> Malformed(ev2, pol, date)
<1>1. FromFuture(ev.created_at, date) <=> FromFuture(ev2.created_at, date)
  BY DEF Reordered
<1>2. DiffMalformed(ev) <=> DiffMalformed(ev2)
  BY SameKind DEF DiffMalformed
<1>3. CIMalformed(ev) <=> CIMalformed(ev2)
  BY SameKind, CIMalformedIn
<1>4. TestsMalformed(ev) <=> TestsMalformed(ev2)
  BY SameKind, TestsMalformedIn
<1>5. BuildsMalformed(ev, pol) <=> BuildsMalformed(ev2, pol)
  BY SameKind, BuildsMalformedIn
<1>6. SupplyChainMalformed(ev) <=> SupplyChainMalformed(ev2)
  <2>1. NamedTwice(OfKind(ev, "sbom")) <=> NamedTwice(OfKind(ev2, "sbom"))
    BY SameKind, NamedTwiceIn
  <2>2. NamedTwice(OfKind(ev, "provenance")) <=> NamedTwice(OfKind(ev2, "provenance"))
    BY SameKind, NamedTwiceIn
  <2>3. Len(OfKind(ev, "changelog")) = Len(OfKind(ev2, "changelog"))
    BY SameKind
  <2>4. QED
    BY <2>1, <2>2, <2>3 DEF SupplyChainMalformed
<1>7. SeveralDrills(ev) <=> SeveralDrills(ev2)
  BY SameKind DEF SeveralDrills
<1>8. SeveralDeploys(ev) <=> SeveralDeploys(ev2)
  BY SameKind DEF SeveralDeploys
<1>9. QED
  BY <1>1, <1>2, <1>3, <1>4, <1>5, <1>6, <1>7, <1>8 DEF Malformed

-----------------------------------------------------------------------------
(* Waivers and the outcome.                                                *)

\* What the gates are called, in the order of the engine.
GateOf ==
  <<"subject_binding", "freshness", "authenticity", "diff_risk", "ci_matrix", "ci_cache",
    "flakiness", "tests", "artifact", "reproducibility", "sbom", "changelog", "provenance",
    "rollback", "deploy_truth">>

\* A verdict is that of the gate that asked for it.
LEMMA VerdictNamed ==
  ASSUME NEW gate, NEW rows
  PROVE  Verdict(gate, rows).gate = gate
BY DEF Verdict, Result

\* Every gate has its name.
LEMMA GatesAreNamed ==
  ASSUME NEW ev, NEW pol, NEW date
  PROVE  \A i \in 1..15 : Gates(ev, pol, date)[i].gate = GateOf[i]
<1>1. /\ SubjectGate(ev).gate = "subject_binding"
      /\ FreshnessGate(ev, pol, date).gate = "freshness"
      /\ AuthenticityGate(ev, pol).gate = "authenticity"
  BY VerdictNamed DEF SubjectGate, FreshnessGate, AuthenticityGate
<1>2. DiffGate(ev, pol).gate = "diff_risk"
  BY VerdictNamed DEF DiffGate, Result
<1>3. /\ CIMatrixGate(ev, pol).gate = "ci_matrix"
      /\ CICacheGate(ev).gate = "ci_cache"
      /\ FlakinessGate(ev, pol).gate = "flakiness"
      /\ TestsGate(ev, pol).gate = "tests"
  BY VerdictNamed DEF CIMatrixGate, CICacheGate, FlakinessGate, TestsGate
<1>4. /\ ArtifactGate(ev, pol).gate = "artifact"
      /\ ReproducibilityGate(ev, pol).gate = "reproducibility"
      /\ SbomGate(ev, pol).gate = "sbom"
  BY VerdictNamed DEF ArtifactGate, ReproducibilityGate, SbomGate
<1>5. /\ ChangelogGate(ev, pol).gate = "changelog"
      /\ ProvenanceGate(ev, pol).gate = "provenance"
  BY VerdictNamed DEF ChangelogGate, ProvenanceGate
<1>6. /\ RollbackGate(ev, pol, date).gate = "rollback"
      /\ DeploymentGate(ev, pol, date).gate = "deploy_truth"
  BY VerdictNamed DEF RollbackGate, DeploymentGate
<1>7. QED
  BY <1>1, <1>2, <1>3, <1>4, <1>5, <1>6 DEF Gates, GateOf

\* No two of them have the same, and none has that of the refusal.
LEMMA NamesDiffer ==
  ASSUME NEW i \in 1..15
  PROVE  GateOf[i] # "waivers" /\ \A j \in 1..15 : GateOf[i] = GateOf[j] => i = j
BY DEF GateOf

\* A chain of rows that all list the same lists it.
LEMMA VerdictLists ==
  ASSUME NEW gate, NEW n \in Nat \ {0}, NEW rows, DOMAIN rows = 1..n, rows[n] # {},
         NEW s, \A k \in 1..n : \A r \in rows[k] : r.items = s
  PROVE  \E st, c : Verdict(gate, rows) = Result(gate, st, c, s)
<1>1. PICK k \in 1..n : \E r \in rows[k] :
        Verdict(gate, rows) = Result(gate, r.status, r.code, r.items)
  BY VerdictIsARow
<1>2. QED
  BY <1>1

\* The gate lists the bills of materials, whatever it finds.
LEMMA SbomLists ==
  ASSUME NEW ev, NEW pol
  PROVE  \E st, c : SbomGate(ev, pol) = Result("sbom", st, c, OfKind(ev, "sbom"))
<1> DEFINE items == OfKind(ev, "sbom")
           r1 == Row(items = <<>> /\ pol.require_sbom, "unknown", "SBOM_MISSING", <<>>)
           r2 == Row(items = <<>>, "pass", "SBOM_OPTIONAL", <<>>)
           r3 == Row(~Binds(items, ArtifactMap(ev)), "fail", "ARTIFACT_BINDING_MISMATCH", items)
           r4 == Row(TRUE, "pass", "SBOM_BOUND", items)
           rows == <<r1, r2, r3, r4>>
<1>1. SbomGate(ev, pol) = Verdict("sbom", rows)
  BY DEF SbomGate
<1> HIDE DEF items
<1>2. \A r \in r1 : r.items = items
  BY DEF Row
<1>3. \A r \in r2 : r.items = items
  BY DEF Row
<1>4. \A r \in r3 : r.items = items
  BY DEF Row
<1>5. r4 # {} /\ \A r \in r4 : r.items = items
  BY DEF Row
<1> HIDE DEF r1, r2, r3, r4
<1>6. 4 \in Nat \ {0} /\ DOMAIN rows = 1..4 /\ rows[4] # {}
      /\ \A k \in 1..4 : \A r \in rows[k] : r.items = items
  BY <1>2, <1>3, <1>4, <1>5
<1> HIDE DEF rows
<1>7. \E st, c : Verdict("sbom", rows) = Result("sbom", st, c, items)
  BY <1>6, VerdictLists
<1>8. QED
  BY <1>1, <1>7 DEF items

\* The gate lists the provenance, whatever it finds.
LEMMA ProvenanceLists ==
  ASSUME NEW ev, NEW pol
  PROVE  \E st, c : ProvenanceGate(ev, pol) = Result("provenance", st, c, OfKind(ev, "provenance"))
<1> DEFINE items == OfKind(ev, "provenance")
           foreign == \E i \in DOMAIN items :
                        \/ items[i].payload.candidate # ev.candidate
                        \/ items[i].payload.version # pol.version
           r1 == Row(items = <<>>, "unknown", "PROVENANCE_MISSING", <<>>)
           r2 == Row(foreign \/ ~Binds(items, ArtifactMap(ev)),
                     "fail", "ARTIFACT_BINDING_MISMATCH", items)
           r3 == Row(TRUE, "pass", "PROVENANCE_BOUND", items)
           rows == <<r1, r2, r3>>
<1>1. ProvenanceGate(ev, pol) = Verdict("provenance", rows)
  BY DEF ProvenanceGate
<1> HIDE DEF items, foreign
<1>2. \A r \in r1 : r.items = items
  BY DEF Row
<1>3. \A r \in r2 : r.items = items
  BY DEF Row
<1>4. r3 # {} /\ \A r \in r3 : r.items = items
  BY DEF Row
<1> HIDE DEF r1, r2, r3
<1>5. 3 \in Nat \ {0} /\ DOMAIN rows = 1..3 /\ rows[3] # {}
      /\ \A k \in 1..3 : \A r \in rows[k] : r.items = items
  BY <1>2, <1>3, <1>4
<1> HIDE DEF rows
<1>6. \E st, c : Verdict("provenance", rows) = Result("provenance", st, c, items)
  BY <1>5, VerdictLists
<1>7. QED
  BY <1>1, <1>6 DEF items

\* The gate lists the changelog, whatever it finds.
LEMMA ChangelogListsHere ==
  ASSUME NEW ev, NEW pol, OfKind(ev, "changelog") # <<>>
  PROVE  \E st, c : ChangelogGate(ev, pol) = Result("changelog", st, c, OfKind(ev, "changelog"))
<1> DEFINE items == OfKind(ev, "changelog")
           artifacts == OfKind(ev, "artifact")
           log == items[1].payload
           r1 == Row(artifacts # <<>> /\ log.version # artifacts[1].payload.version,
                     "fail", "CHANGELOG_VERSION_MISMATCH", items)
           r2 == Row(log.set # ArtifactMap(ev), "fail", "ARTIFACT_BINDING_MISMATCH", items)
           r3 == Row(TRUE, "pass", "CHANGELOG_BOUND", items)
           rows == <<r1, r2, r3>>
<1>1. ChangelogGate(ev, pol) = Verdict("changelog", rows)
  BY DEF ChangelogGate
<1> HIDE DEF items, artifacts, log
<1>2. \A r \in r1 : r.items = items
  BY DEF Row
<1>3. \A r \in r2 : r.items = items
  BY DEF Row
<1>4. r3 # {} /\ \A r \in r3 : r.items = items
  BY DEF Row
<1> HIDE DEF r1, r2, r3
<1>5. 3 \in Nat \ {0} /\ DOMAIN rows = 1..3 /\ rows[3] # {}
      /\ \A k \in 1..3 : \A r \in rows[k] : r.items = items
  BY <1>2, <1>3, <1>4
<1> HIDE DEF rows
<1>6. \E st, c : Verdict("changelog", rows) = Result("changelog", st, c, items)
  BY <1>5, VerdictLists
<1>7. QED
  BY <1>1, <1>6 DEF items

\* The changelog, or that there is none.
LEMMA ChangelogLists ==
  ASSUME NEW ev, NEW pol
  PROVE  \E st, c : ChangelogGate(ev, pol) = Result("changelog", st, c, OfKind(ev, "changelog"))
<1>1. CASE OfKind(ev, "changelog") # <<>>
  BY <1>1, ChangelogListsHere
<1>2. CASE OfKind(ev, "changelog") = <<>>
  <2> DEFINE r1 == Row(pol.require_changelog, "unknown", "CHANGELOG_MISSING", <<>>)
             r2 == Row(TRUE, "pass", "CHANGELOG_OPTIONAL", <<>>)
             rows == <<r1, r2>>
  <2>1. ChangelogGate(ev, pol) = Verdict("changelog", rows)
    BY <1>2 DEF ChangelogGate
  <2>2. \A r \in r1 : r.items = <<>>
    BY DEF Row
  <2>3. r2 # {} /\ \A r \in r2 : r.items = <<>>
    BY DEF Row
  <2> HIDE DEF r1, r2
  <2>4. 2 \in Nat \ {0} /\ DOMAIN rows = 1..2 /\ rows[2] # {}
        /\ \A k \in 1..2 : \A r \in rows[k] : r.items = <<>>
    BY <2>2, <2>3
  <2> HIDE DEF rows
  <2>5. \E st, c : Verdict("changelog", rows) = Result("changelog", st, c, <<>>)
    BY <2>4, VerdictLists
  <2>6. QED
    BY <2>1, <2>5, <1>2
<1>3. QED
  BY <1>1, <1>2
\* What an order never changes: whether a gate lists an observation twice.
LEMMA GatesAreValidAlike ==
  ASSUME NEW ev, NEW ev2, Reordered(ev, ev2), NEW pol, NEW date,
         ~Malformed(ev, pol, date), Counted(ev)
  PROVE  \A i \in 1..15 :
           GateValid(Gates(ev, pol, date)[i]) <=> GateValid(Gates(ev2, pol, date)[i])
<1>1. /\ ~CIMalformed(ev)
      /\ Len(OfKind(ev, "rollback_drill")) <= 1
      /\ Len(OfKind(ev, "deploy_observation")) <= 1
  <2>1. /\ Len(OfKind(ev, "rollback_drill")) \in Nat
        /\ Len(OfKind(ev, "deploy_observation")) \in Nat
    BY ReorderedKind, ShuffledItems
  <2>2. QED
    BY <2>1 DEF Malformed, SeveralDrills, SeveralDeploys
<1>2. /\ SameResult(SubjectGate(ev), SubjectGate(ev2))
      /\ SameResult(FreshnessGate(ev, pol, date), FreshnessGate(ev2, pol, date))
      /\ SameResult(AuthenticityGate(ev, pol), AuthenticityGate(ev2, pol))
      /\ SameResult(DiffGate(ev, pol), DiffGate(ev2, pol))
  BY SameSubject, SameFreshness, SameAuthenticity, SameDiff
<1>3. /\ SameResult(CIMatrixGate(ev, pol), CIMatrixGate(ev2, pol))
      /\ SameResult(CICacheGate(ev), CICacheGate(ev2))
      /\ SameResult(FlakinessGate(ev, pol), FlakinessGate(ev2, pol))
      /\ SameResult(TestsGate(ev, pol), TestsGate(ev2, pol))
  BY <1>1, SameCIMatrix, SameCICache, SameFlakiness, SameTests
<1>4. /\ SameResult(ArtifactGate(ev, pol), ArtifactGate(ev2, pol))
      /\ SameResult(ReproducibilityGate(ev, pol), ReproducibilityGate(ev2, pol))
      /\ SameResult(RollbackGate(ev, pol, date), RollbackGate(ev2, pol, date))
      /\ SameResult(DeploymentGate(ev, pol, date), DeploymentGate(ev2, pol, date))
  BY <1>1, SameArtifact, SameReproducibility, SameRollback, SameDeployment
<1>5. GateValid(SbomGate(ev, pol)) <=> GateValid(SbomGate(ev2, pol))
  <2>1. PICK st, c : SbomGate(ev, pol) = Result("sbom", st, c, OfKind(ev, "sbom"))
    BY SbomLists
  <2>2. PICK st2, c2 : SbomGate(ev2, pol) = Result("sbom", st2, c2, OfKind(ev2, "sbom"))
    BY SbomLists
  <2>3. QED
    BY <2>1, <2>2, ReorderedKind, SameValid
<1>6. GateValid(ProvenanceGate(ev, pol)) <=> GateValid(ProvenanceGate(ev2, pol))
  <2>1. PICK st, c : ProvenanceGate(ev, pol)
                       = Result("provenance", st, c, OfKind(ev, "provenance"))
    BY ProvenanceLists
  <2>2. PICK st2, c2 : ProvenanceGate(ev2, pol)
                         = Result("provenance", st2, c2, OfKind(ev2, "provenance"))
    BY ProvenanceLists
  <2>3. QED
    BY <2>1, <2>2, ReorderedKind, SameValid
<1>7. GateValid(ChangelogGate(ev, pol)) <=> GateValid(ChangelogGate(ev2, pol))
  <2>1. PICK st, c : ChangelogGate(ev, pol)
                       = Result("changelog", st, c, OfKind(ev, "changelog"))
    BY ChangelogLists
  <2>2. PICK st2, c2 : ChangelogGate(ev2, pol)
                         = Result("changelog", st2, c2, OfKind(ev2, "changelog"))
    BY ChangelogLists
  <2>3. QED
    BY <2>1, <2>2, ReorderedKind, SameValid
<1>8. QED
  BY <1>2, <1>3, <1>4, <1>5, <1>6, <1>7 DEF SameResult, Gates

\* When the artifacts agree with each other, the order decides no gate.
LEMMA SameGates ==
  ASSUME NEW ev, NEW ev2, Reordered(ev, ev2), NEW pol, NEW date,
         ~Malformed(ev, pol, date), Counted(ev), NamesAgree(ev), VersionsAgree(ev)
  PROVE  \A i \in 1..15 : SameResult(Gates(ev, pol, date)[i], Gates(ev2, pol, date)[i])
<1>1. /\ ~CIMalformed(ev)
      /\ Len(OfKind(ev, "rollback_drill")) <= 1
      /\ Len(OfKind(ev, "deploy_observation")) <= 1
      /\ Len(OfKind(ev, "changelog")) <= 1
  <2>1. /\ Len(OfKind(ev, "rollback_drill")) \in Nat
        /\ Len(OfKind(ev, "deploy_observation")) \in Nat
        /\ Len(OfKind(ev, "changelog")) \in Nat
    BY ReorderedKind, ShuffledItems
  <2>2. QED
    BY <2>1 DEF Malformed, SeveralDrills, SeveralDeploys, SupplyChainMalformed
<1>2. ArtifactMap(ev2) = ArtifactMap(ev)
  BY SameMap
<1>3. /\ SameResult(SubjectGate(ev), SubjectGate(ev2))
      /\ SameResult(FreshnessGate(ev, pol, date), FreshnessGate(ev2, pol, date))
      /\ SameResult(AuthenticityGate(ev, pol), AuthenticityGate(ev2, pol))
      /\ SameResult(DiffGate(ev, pol), DiffGate(ev2, pol))
  BY SameSubject, SameFreshness, SameAuthenticity, SameDiff
<1>4. /\ SameResult(CIMatrixGate(ev, pol), CIMatrixGate(ev2, pol))
      /\ SameResult(CICacheGate(ev), CICacheGate(ev2))
      /\ SameResult(FlakinessGate(ev, pol), FlakinessGate(ev2, pol))
      /\ SameResult(TestsGate(ev, pol), TestsGate(ev2, pol))
  BY <1>1, SameCIMatrix, SameCICache, SameFlakiness, SameTests
<1>5. /\ SameResult(ArtifactGate(ev, pol), ArtifactGate(ev2, pol))
      /\ SameResult(ReproducibilityGate(ev, pol), ReproducibilityGate(ev2, pol))
      /\ SameResult(SbomGate(ev, pol), SbomGate(ev2, pol))
      /\ SameResult(ChangelogGate(ev, pol), ChangelogGate(ev2, pol))
  BY <1>1, <1>2, SameArtifact, SameReproducibility, SameSbom, SameChangelog
<1>6. /\ SameResult(ProvenanceGate(ev, pol), ProvenanceGate(ev2, pol))
      /\ SameResult(RollbackGate(ev, pol, date), RollbackGate(ev2, pol, date))
      /\ SameResult(DeploymentGate(ev, pol, date), DeploymentGate(ev2, pol, date))
  BY <1>1, <1>2, SameProvenance, SameRollback, SameDeployment
<1>7. QED
  BY <1>3, <1>4, <1>5, <1>6 DEF Gates

\* When they do not, the gate of the artifacts fails.
Disagreement == {"ARTIFACT_BINDING_MISMATCH", "ARTIFACT_SET_MISMATCH", "ARTIFACT_VERSION_MISMATCH"}

\* Artifacts that do not agree on names or versions are found, in this order or another.
LEMMA DisagreementIsFound ==
  ASSUME NEW ev, NEW pol, ~(NamesAgree(ev) /\ VersionsAgree(ev))
  PROVE  ArtifactGate(ev, pol).status = "fail" /\ ArtifactGate(ev, pol).code \in Disagreement
<1> DEFINE s == OfKind(ev, "artifact")
           v == {s[i].payload.version : i \in DOMAIN s}
           r1 == Row(s = <<>> /\ pol.require_artifact, "unknown", "ARTIFACT_MISSING", <<>>)
           r2 == Row(s = <<>>, "pass", "ARTIFACT_OPTIONAL", <<>>)
           r3 == Row(Cardinality(Names(s)) # Len(s), "fail", "ARTIFACT_BINDING_MISMATCH", s)
           r4 == Row(Names(s) # pol.artifacts, "fail", "ARTIFACT_SET_MISMATCH", s)
           r5 == Row(v # {pol.version}, "fail", "ARTIFACT_VERSION_MISMATCH", s)
           r6 == Row(\E i \in DOMAIN s : ~s[i].payload.install_tested,
                     "unknown", "ARTIFACT_NOT_INSTALL_TESTED", s)
           r7 == Row(TRUE, "pass", "ARTIFACT_VERIFIED", s)
           rows == <<r1, r2, r3, r4, r5, r6, r7>>
           fails(r) == r.status = "fail" /\ r.code \in Disagreement
<1>1. ArtifactGate(ev, pol) = Verdict("artifact", rows)
  BY DEF ArtifactGate
<1>2. s # <<>> /\ (Cardinality(Names(s)) # Len(s) \/ v # {pol.version})
  <2>1. ASSUME s = <<>> PROVE FALSE
    <3>1. NamesAgree(ev) /\ DOMAIN s = {}
      BY <2>1 DEF NamesAgree
    <3>2. VersionsAgree(ev)
      BY <3>1 DEF VersionsAgree
    <3>3. QED
      BY <3>1, <3>2
  <2>2. ASSUME Cardinality(Names(s)) = Len(s), v = {pol.version} PROVE FALSE
    <3>1. NamesAgree(ev)
      BY <2>2 DEF NamesAgree
    <3>2. \A i \in DOMAIN s : s[i].payload.version \in {pol.version}
      BY <2>2
    <3>3. VersionsAgree(ev)
      BY <3>2 DEF VersionsAgree
    <3>4. QED
      BY <3>1, <3>3
  <2>3. QED
    BY <2>1, <2>2
<1> HIDE DEF s, v
<1>3. r1 = {} /\ r2 = {}
  BY <1>2 DEF Row
<1>4. r3 # {} \/ r5 # {}
  BY <1>2 DEF Row
<1>5. \A r \in r3 \cup r4 \cup r5 : fails(r)
  BY DEF Row, Disagreement
<1> HIDE DEF r1, r2, r3, r4, r5, r6, r7, fails
<1>6. PICK j \in {3, 5} : rows[j] # {}
  BY <1>4
<1>7. /\ 7 \in Nat /\ DOMAIN rows = 1..7 /\ j \in 1..7 /\ 1..j \subseteq 1..5
      /\ \A k \in 1..5 : \A r \in rows[k] : fails(r)
  BY <1>3, <1>5
<1> HIDE DEF rows
<1>8. PICK k \in 1..j : \E r \in rows[k] :
        Verdict("artifact", rows) = Result("artifact", r.status, r.code, r.items)
  BY <1>6, <1>7, VerdictIsARow
<1>9. PICK r : fails(r) /\ ArtifactGate(ev, pol) = Result("artifact", r.status, r.code, r.items)
  BY <1>1, <1>7, <1>8
<1>10. QED
  BY <1>9 DEF fails, Result
\* Whether _apply_waivers adds its refusal to gates, and what it makes of each of them.
Refuses(gates, ws, ev, pol, date) ==
  /\ ws # <<>>
  /\ \/ SomeWaiverInvalid(ws, ev, pol, date)
     \/ \E k \in DOMAIN ws : \A i \in 1..15 : ws[k].id # Waive(gates[i], ws).waived_by

Shown(gate, ws, ev, pol, date) ==
  IF ws = <<>> \/ SomeWaiverInvalid(ws, ev, pol, date) THEN gate ELSE Waive(gate, ws)

\* What _apply_waivers returns, gate by gate (engine.py:525-566).
LEMMA WaiversApplied ==
  ASSUME NEW S, NEW gates \in Seq(S), DOMAIN gates = 1..15,
         NEW ws, NEW ev, NEW pol, NEW date
  PROVE  LET all == ApplyWaivers(gates, ws, ev, pol, date)
         IN  /\ DOMAIN all = IF Refuses(gates, ws, ev, pol, date) THEN 1..16 ELSE 1..15
             /\ \A i \in 1..15 : all[i] = Shown(gates[i], ws, ev, pol, date)
             /\ Refuses(gates, ws, ev, pol, date) =>
                  all[16] = Result("waivers", "fail", "WAIVER_INVALID", <<>>)
<1> DEFINE refusal == Result("waivers", "fail", "WAIVER_INVALID", <<>>)
           waived == [i \in DOMAIN gates |-> Waive(gates[i], ws)]
           applied == {waived[i].waived_by : i \in DOMAIN waived}
           all == ApplyWaivers(gates, ws, ev, pol, date)
           more == Refuses(gates, ws, ev, pol, date)
<1>1. all = IF ws = <<>> THEN gates
            ELSE IF SomeWaiverInvalid(ws, ev, pol, date) THEN Append(gates, refusal)
            ELSE IF \A i \in DOMAIN ws : ws[i].id \in applied THEN waived
            ELSE Append(waived, refusal)
  BY DEF ApplyWaivers
<1>2. Len(gates) = 15
  OBVIOUS
<1>3. DOMAIN waived = 1..15 /\ \A i \in 1..15 : waived[i] = Waive(gates[i], ws)
  OBVIOUS
<1>4. (\A k \in DOMAIN ws : ws[k].id \in applied)
        <=> ~\E k \in DOMAIN ws : \A i \in 1..15 : ws[k].id # Waive(gates[i], ws).waived_by
  BY <1>3
<1>5. waived \in Seq({waived[i] : i \in 1..15}) /\ Len(waived) = 15
  <2>1. waived \in [1..15 -> {waived[i] : i \in 1..15}]
    BY <1>3
  <2>2. QED
    BY <2>1
<1> HIDE DEF applied, waived, refusal, all
<1>6. ASSUME NEW T, NEW s \in Seq(T), Len(s) = 15
      PROVE  /\ DOMAIN Append(s, refusal) = 1..16
             /\ \A i \in 1..15 : Append(s, refusal)[i] = s[i]
             /\ Append(s, refusal)[16] = refusal
  <2>1. s \in Seq(T \cup {refusal})
    OBVIOUS
  <2>2. /\ DOMAIN Append(s, refusal) = 1..(Len(s) + 1)
        /\ \A i \in 1..Len(s) : Append(s, refusal)[i] = s[i]
        /\ Append(s, refusal)[Len(s) + 1] = refusal
    BY <2>1, AppendProperties
  <2>3. Len(s) + 1 = 16
    BY <1>6
  <2> DEFINE t == Append(s, refusal)
  <2>4. DOMAIN t = 1..16 /\ (\A i \in 1..15 : t[i] = s[i]) /\ t[16] = refusal
    <3> HIDE DEF t
    <3>1. QED
      BY <1>6, <2>2, <2>3 DEF t
  <2>5. QED
    BY <2>4
<1>7. CASE ws = <<>>
  BY <1>1, <1>7 DEF Refuses, Shown, all
<1>8. CASE ws # <<>> /\ SomeWaiverInvalid(ws, ev, pol, date)
  BY <1>1, <1>2, <1>6, <1>8 DEF Refuses, Shown, all, refusal
<1>9. CASE /\ ws # <<>> /\ ~SomeWaiverInvalid(ws, ev, pol, date)
           /\ \A k \in DOMAIN ws : ws[k].id \in applied
  <2>1. ~more /\ all = waived
    BY <1>1, <1>4, <1>9 DEF Refuses
  <2>2. QED
    BY <2>1, <1>3, <1>9 DEF Shown, all
<1>10. CASE /\ ws # <<>> /\ ~SomeWaiverInvalid(ws, ev, pol, date)
            /\ ~\A k \in DOMAIN ws : ws[k].id \in applied
  <2>1. more /\ all = Append(waived, refusal)
    BY <1>1, <1>4, <1>10 DEF Refuses
  <2>2. /\ DOMAIN all = 1..16 /\ all[16] = refusal
        /\ \A i \in 1..15 : all[i] = waived[i]
    BY <2>1, <1>5, <1>6
  <2>3. QED
    BY <2>1, <2>2, <1>3, <1>10 DEF Shown, all, refusal
<1>11. QED
  BY <1>7, <1>8, <1>9, <1>10

\* A waiver changes neither the name of a gate nor what it lists.
LEMMA ShownKeeps ==
  ASSUME NEW g, Bare(g), NEW ws, NEW ev, NEW pol, NEW date
  PROVE  LET h == Shown(g, ws, ev, pol, date)
         IN  /\ h.gate = g.gate
             /\ GateValid(h) <=> GateValid(g)
             /\ \/ h.status = g.status /\ h.waived_by = NoWaiver
                \/ /\ h.status = "warn" /\ ~SomeWaiverInvalid(ws, ev, pol, date)
                   /\ \E k \in DOMAIN ws : Targets(ws[k], g) /\ h.waived_by = ws[k].id
<1> DEFINE h == Shown(g, ws, ev, pol, date)
           k == CHOOSE k \in DOMAIN ws : Targets(ws[k], g)
<1>1. CASE h = g
  BY <1>1 DEF Bare
<1>2. CASE h # g
  <2>1. ~SomeWaiverInvalid(ws, ev, pol, date) /\ h = Waive(g, ws)
    BY <1>2 DEF Shown
  <2>2. \E i \in DOMAIN ws : Targets(ws[i], g)
    BY <1>2, <2>1 DEF Waive
  <2>3. k \in DOMAIN ws /\ Targets(ws[k], g)
    BY <2>2
  <2>4. h = [g EXCEPT !.status = "warn", !.waived_by = ws[k].id, !.original = g.status]
    BY <1>2, <2>1 DEF Waive
  <2> HIDE DEF k, h
  <2>5. /\ h.gate = g.gate /\ h.evidence = g.evidence
        /\ h.status = "warn" /\ h.waived_by = ws[k].id
    BY <2>4 DEF Bare
  <2>6. GateValid(h) <=> GateValid(g)
    BY <2>5 DEF GateValid
  <2>7. QED
    BY <2>1, <2>3, <2>5, <2>6 DEF h
<1>3. QED
  BY <1>1, <1>2

\* A decision is valid exactly when no gate lists an observation twice: the gates have
\* names of their own, and a waiver names one gate.
LEMMA ValidApplied ==
  ASSUME NEW S, NEW gates \in Seq(S), DOMAIN gates = 1..15,
         \A i \in 1..15 : Bare(gates[i]) /\ gates[i].gate = GateOf[i],
         NEW ws, \A i, j \in DOMAIN ws : ws[i].id = ws[j].id => i = j,
         NEW ev, NEW pol, NEW date
  PROVE  DecisionValid(ApplyWaivers(gates, ws, ev, pol, date))
           <=> \A i \in 1..15 : GateValid(gates[i])
<1> DEFINE all == ApplyWaivers(gates, ws, ev, pol, date)
           more == Refuses(gates, ws, ev, pol, date)
           h(i) == Shown(gates[i], ws, ev, pol, date)
           refusal == Result("waivers", "fail", "WAIVER_INVALID", <<>>)
<1>1. /\ DOMAIN all = IF more THEN 1..16 ELSE 1..15
      /\ \A i \in 1..15 : all[i] = h(i)
      /\ more => all[16] = refusal
  BY WaiversApplied
<1>2. \A i \in 1..15 :
        /\ h(i).gate = GateOf[i]
        /\ GateValid(h(i)) <=> GateValid(gates[i])
        /\ \/ h(i).waived_by = NoWaiver
           \/ \E k \in DOMAIN ws : ws[k].gate = GateOf[i] /\ h(i).waived_by = ws[k].id
  <2> TAKE i \in 1..15
  <2>1. Bare(gates[i]) /\ gates[i].gate = GateOf[i]
    OBVIOUS
  <2>2. QED
    BY <2>1, ShownKeeps DEF Targets
<1>3. GateValid(refusal) /\ refusal.gate = "waivers" /\ refusal.waived_by = NoWaiver
  BY DEF GateValid, Result
<1> HIDE DEF all, more, h, refusal
<1>4. (\A i \in DOMAIN all : GateValid(all[i])) <=> \A i \in 1..15 : GateValid(gates[i])
  <2>1. ASSUME \A i \in DOMAIN all : GateValid(all[i]), NEW i \in 1..15
        PROVE  GateValid(gates[i])
    <3>1. i \in DOMAIN all /\ all[i] = h(i)
      BY <1>1
    <3>2. QED
      BY <2>1, <3>1, <1>2
  <2>2. ASSUME \A i \in 1..15 : GateValid(gates[i]), NEW i \in DOMAIN all
        PROVE  GateValid(all[i])
    <3>1. i \in 1..15 \/ (more /\ i = 16)
      BY <1>1
    <3>2. QED
      BY <2>2, <3>1, <1>1, <1>2, <1>3
  <2>3. QED
    BY <2>1, <2>2
<1>5. ASSUME NEW i \in DOMAIN all, NEW j \in DOMAIN all, i # j
      PROVE  /\ all[i].gate # all[j].gate
             /\ all[i].waived_by = NoWaiver \/ all[i].waived_by # all[j].waived_by
  <2>1. (i \in 1..15 \/ (more /\ i = 16)) /\ (j \in 1..15 \/ (more /\ j = 16))
    BY <1>1
  <2>2. CASE i \in 1..15 /\ j \in 1..15
    <3>1. GateOf[i] # GateOf[j]
      BY <1>5, <2>2, NamesDiffer
    <3>2. all[i] = h(i) /\ all[j] = h(j)
      BY <1>1, <2>2
    <3>3. all[i].gate # all[j].gate
      BY <2>2, <3>1, <3>2, <1>2
    <3>4. ASSUME all[i].waived_by # NoWaiver, all[i].waived_by = all[j].waived_by PROVE FALSE
      <4>1. PICK k \in DOMAIN ws : ws[k].gate = GateOf[i] /\ all[i].waived_by = ws[k].id
        BY <2>2, <3>2, <3>4, <1>2
      <4>2. PICK m \in DOMAIN ws : ws[m].gate = GateOf[j] /\ all[j].waived_by = ws[m].id
        BY <2>2, <3>2, <3>4, <1>2
      <4>3. k = m
        BY <3>4, <4>1, <4>2
      <4>4. QED
        BY <3>1, <4>1, <4>2, <4>3
    <3>5. QED
      BY <3>3, <3>4
  <2>3. CASE i = 16
    <3>1. all[i] = refusal /\ j \in 1..15 /\ all[j] = h(j)
      BY <1>1, <1>5, <2>1, <2>3
    <3>2. all[j].gate # "waivers"
      BY <3>1, <1>2, NamesDiffer
    <3>3. QED
      BY <3>1, <3>2, <1>3
  <2>4. CASE j = 16
    <3>1. all[j] = refusal /\ i \in 1..15 /\ all[i] = h(i)
      BY <1>1, <1>5, <2>1, <2>4
    <3>2. all[i].gate # "waivers"
      BY <3>1, <1>2, NamesDiffer
    <3>3. QED
      BY <3>1, <3>2, <1>3
  <2>5. QED
    BY <2>1, <2>2, <2>3, <2>4
<1>6. DecisionValid(all) <=> \A i \in DOMAIN all : GateValid(all[i])
  BY <1>5 DEF DecisionValid
<1>7. QED
  BY <1>4, <1>6 DEF all
\* A gate with the same result is waived by the same waiver.
LEMMA WaivedAlike ==
  ASSUME NEW g, NEW h, Bare(g), Bare(h), SameResult(g, h), NEW ws
  PROVE  /\ Waive(g, ws).status = Waive(h, ws).status
         /\ Waive(g, ws).waived_by = Waive(h, ws).waived_by
         /\ g.status = h.status
<1> DEFINE k == CHOOSE i \in DOMAIN ws : Targets(ws[i], g)
           m == CHOOSE i \in DOMAIN ws : Targets(ws[i], h)
<1>1. g.gate = h.gate /\ g.code = h.code /\ g.status = h.status
      /\ g.waived_by = NoWaiver /\ h.waived_by = NoWaiver
  BY DEF SameResult, Bare
<1>2. \A i \in DOMAIN ws : Targets(ws[i], g) <=> Targets(ws[i], h)
  BY <1>1 DEF Targets
<1>3. k = m
  BY <1>2
<1>5. CASE g.status \in {"fail", "unknown"} /\ \E i \in DOMAIN ws : Targets(ws[i], g)
  <2>1. Waive(g, ws) = [g EXCEPT !.status = "warn", !.waived_by = ws[k].id, !.original = g.status]
    BY <1>5 DEF Waive
  <2>2. Waive(h, ws) = [h EXCEPT !.status = "warn", !.waived_by = ws[m].id, !.original = h.status]
    <3>1. h.status \in {"fail", "unknown"} /\ \E i \in DOMAIN ws : Targets(ws[i], h)
      BY <1>1, <1>2, <1>5
    <3>2. QED
      BY <3>1 DEF Waive
  <2> HIDE DEF k, m
  <2>3. /\ Waive(g, ws).status = "warn" /\ Waive(h, ws).status = "warn"
        /\ Waive(g, ws).waived_by = ws[k].id /\ Waive(h, ws).waived_by = ws[m].id
    BY <2>1, <2>2 DEF Bare
  <2>4. QED
    BY <2>3, <1>1, <1>3
<1>6. CASE ~(g.status \in {"fail", "unknown"} /\ \E i \in DOMAIN ws : Targets(ws[i], g))
  <2>1. Waive(g, ws) = g /\ Waive(h, ws) = h
    BY <1>1, <1>2, <1>6 DEF Waive
  <2>2. QED
    BY <2>1, <1>1
<1>7. QED
  BY <1>5, <1>6

\* The results of the fifteen gates, and that two of them are the same.
AllBare(gates) ==
  /\ DOMAIN gates = 1..15
  /\ \A i \in 1..15 : Bare(gates[i])
  /\ \E S : gates \in Seq(S)

AllSame(a, b) == \A i \in 1..15 : SameResult(a[i], b[i])

\* Gates with the same results, and the same waivers: the same outcome.
LEMMA SameOutcome ==
  ASSUME NEW a, AllBare(a), NEW b, AllBare(b), AllSame(a, b),
         NEW ws, NEW ev, NEW ev2, ev2.candidate = ev.candidate, NEW pol, NEW date
  PROVE  OutcomeOf(ApplyWaivers(a, ws, ev, pol, date))
           = OutcomeOf(ApplyWaivers(b, ws, ev2, pol, date))
<1> DEFINE p == ApplyWaivers(a, ws, ev, pol, date)
           q == ApplyWaivers(b, ws, ev2, pol, date)
           more == Refuses(a, ws, ev, pol, date)
           more2 == Refuses(b, ws, ev2, pol, date)
           refusal == Result("waivers", "fail", "WAIVER_INVALID", <<>>)
<1>0. /\ DOMAIN a = 1..15 /\ DOMAIN b = 1..15
      /\ \A i \in 1..15 : Bare(a[i]) /\ Bare(b[i]) /\ SameResult(a[i], b[i])
      /\ (\E S : a \in Seq(S)) /\ (\E S : b \in Seq(S))
  BY DEF AllBare, AllSame
<1>1. /\ DOMAIN p = IF more THEN 1..16 ELSE 1..15
      /\ \A i \in 1..15 : p[i] = Shown(a[i], ws, ev, pol, date)
      /\ more => p[16] = refusal
  <2>1. PICK S : a \in Seq(S)
    BY <1>0
  <2>2. QED
    BY <2>1, <1>0, WaiversApplied
<1>2. /\ DOMAIN q = IF more2 THEN 1..16 ELSE 1..15
      /\ \A i \in 1..15 : q[i] = Shown(b[i], ws, ev2, pol, date)
      /\ more2 => q[16] = refusal
  <2>1. PICK S : b \in Seq(S)
    BY <1>0
  <2>2. QED
    BY <2>1, <1>0, WaiversApplied
<1>3. SomeWaiverInvalid(ws, ev, pol, date) <=> SomeWaiverInvalid(ws, ev2, pol, date)
  BY DEF SomeWaiverInvalid, WaiverValid
<1>4. \A i \in 1..15 :
        /\ Shown(a[i], ws, ev, pol, date).status = Shown(b[i], ws, ev2, pol, date).status
        /\ Waive(a[i], ws).waived_by = Waive(b[i], ws).waived_by
  <2> TAKE i \in 1..15
  <2>1. Bare(a[i]) /\ Bare(b[i]) /\ SameResult(a[i], b[i])
    BY <1>0
  <2>2. /\ Waive(a[i], ws).status = Waive(b[i], ws).status
        /\ Waive(a[i], ws).waived_by = Waive(b[i], ws).waived_by
        /\ a[i].status = b[i].status
    BY <2>1, WaivedAlike
  <2>3. QED
    BY <2>2, <1>3 DEF Shown
<1>5. more <=> more2
  BY <1>3, <1>4 DEF Refuses
<1> HIDE DEF p, q, more, more2, refusal
<1>6. DOMAIN p = DOMAIN q
  BY <1>1, <1>2, <1>5
<1>7. \A i \in DOMAIN p : p[i].status = q[i].status
  <2> TAKE i \in DOMAIN p
  <2>1. i \in 1..15 \/ (more /\ i = 16)
    BY <1>1
  <2>2. QED
    BY <2>1, <1>1, <1>2, <1>4, <1>5
<1>8. {p[i].status : i \in DOMAIN p} = {q[i].status : i \in DOMAIN q}
  BY <1>6, <1>7
<1>9. OutcomeOf(p) = OutcomeOf(q)
  BY <1>8 DEF OutcomeOf
<1>10. QED
  BY <1>9 DEF p, q

\* A gate that fails and is excused by no waiver blocks the release.
LEMMA UnexcusedBlocks ==
  ASSUME NEW S, NEW a \in Seq(S), DOMAIN a = 1..15,
         NEW i \in 1..15, Bare(a[i]), a[i].status = "fail",
         NEW ws, NEW ev, NEW pol, NEW date,
         \A k \in DOMAIN ws : ~(Targets(ws[k], a[i]) /\ WaiverValid(ws[k], ev, pol, date))
  PROVE  OutcomeOf(ApplyWaivers(a, ws, ev, pol, date))
           = "BLOCKED"
<1> DEFINE p == ApplyWaivers(a, ws, ev, pol, date)
           h == Shown(a[i], ws, ev, pol, date)
<1>1. i \in DOMAIN p /\ p[i] = h
  <2>1. /\ DOMAIN p = IF Refuses(a, ws, ev, pol, date) THEN 1..16 ELSE 1..15
        /\ \A j \in 1..15 : p[j] = Shown(a[j], ws, ev, pol, date)
        /\ Refuses(a, ws, ev, pol, date) =>
             p[16] = Result("waivers", "fail", "WAIVER_INVALID", <<>>)
    BY WaiversApplied
  <2> HIDE DEF p
  <2>2. QED
    BY <2>1
<1>2. h.status = "fail"
  <2>1. \/ h.status = a[i].status
        \/ ~SomeWaiverInvalid(ws, ev, pol, date) /\ \E k \in DOMAIN ws : Targets(ws[k], a[i])
    BY ShownKeeps
  <2>2. ~SomeWaiverInvalid(ws, ev, pol, date) =>
          \A k \in DOMAIN ws : WaiverValid(ws[k], ev, pol, date)
    BY DEF SomeWaiverInvalid
  <2> HIDE DEF h
  <2>3. QED
    BY <2>1, <2>2
<1> HIDE DEF p, h
<1>3. "fail" \in {p[j].status : j \in DOMAIN p}
  BY <1>1, <1>2
<1>4. OutcomeOf(p) = "BLOCKED"
  BY <1>3 DEF OutcomeOf
<1>5. QED
  BY <1>4 DEF p

\* The order of observations does not decide the outcome, unless the artifacts disagree
\* and a waiver lets them.
LEMMA OrderDecidesNoOutcome ==
  ASSUME NEW ev, NEW ev2, Reordered(ev, ev2), Counted(ev), NEW pol, NEW date, NEW ws,
         \A i, j \in DOMAIN ws : ws[i].id = ws[j].id => i = j,
         \A i \in DOMAIN ws :
           ws[i].code \notin {"ARTIFACT_VERSION_MISMATCH", "ARTIFACT_SET_MISMATCH"}
  PROVE  Evaluate(ev, pol, ws, date).outcome = Evaluate(ev2, pol, ws, date).outcome
<1> DEFINE a == Gates(ev, pol, date)
           b == Gates(ev2, pol, date)
           p == ApplyWaivers(a, ws, ev, pol, date)
           q == ApplyWaivers(b, ws, ev2, pol, date)
           n == Len(ev.observations)
<1>1. Malformed(ev, pol, date) <=> Malformed(ev2, pol, date)
  BY SameMalformed
<1>2. ev2.candidate = ev.candidate
  BY DEF Reordered
<1>3. CASE Malformed(ev, pol, date)
  BY <1>1, <1>3 DEF Evaluate
<1>4. CASE ~Malformed(ev, pol, date)
  <2>1. n \in Nat /\ DOMAIN ev.observations = 1..n /\ DOMAIN ev2.observations = 1..n
    BY DEF Reordered, Shuffled, IsList
  <2> HIDE DEF n
  <2>2. DOMAIN a = 1..15 /\ (\A i \in 1..15 : Bare(a[i])) /\ \E S : a \in Seq(S)
    BY <2>1, GatesAreBare
  <2>3. DOMAIN b = 1..15 /\ (\A i \in 1..15 : Bare(b[i])) /\ \E S : b \in Seq(S)
    BY <2>1, GatesAreBare
  <2>4. \A i \in 1..15 : a[i].gate = GateOf[i] /\ b[i].gate = GateOf[i]
    BY GatesAreNamed
  <2>5. \A i \in 1..15 : GateValid(a[i]) <=> GateValid(b[i])
    BY <1>4, GatesAreValidAlike
  <2>6. OutcomeOf(p) = OutcomeOf(q)
    <3>1. CASE NamesAgree(ev) /\ VersionsAgree(ev)
      <4>1. \A i \in 1..15 : SameResult(a[i], b[i])
        BY <3>1, <1>4, SameGates
      <4> HIDE DEF a, b
      <4>2. QED
        <5>1. AllBare(a) /\ AllBare(b) /\ AllSame(a, b)
          BY <4>1, <2>2, <2>3 DEF AllBare, AllSame
        <5>2. QED
          BY <5>1, <1>2, SameOutcome
    <3>2. CASE ~(NamesAgree(ev) /\ VersionsAgree(ev))
      <4>1. a[9] = ArtifactGate(ev, pol) /\ b[9] = ArtifactGate(ev2, pol) /\ 9 \in 1..15
        BY DEF Gates
      <4>2. a[9].status = "fail" /\ a[9].code \in Disagreement
        BY <3>2, <4>1, DisagreementIsFound
      <4>3. b[9].status = "fail" /\ b[9].code \in Disagreement
        BY <4>1, <4>2, SameArtifact DEF SameResult
      <4> HIDE DEF a, b
      <4>4. ASSUME NEW k \in DOMAIN ws, NEW g, g.code \in Disagreement, Targets(ws[k], g), NEW ew
            PROVE  ~WaiverValid(ws[k], ew, pol, date)
        BY <4>4 DEF Targets, WaiverValid, Unwaivable, Disagreement
      <4>5. OutcomeOf(p) = "BLOCKED"
        <5>1. \A k \in DOMAIN ws : ~(Targets(ws[k], a[9]) /\ WaiverValid(ws[k], ev, pol, date))
          BY <4>2, <4>4
        <5>2. QED
          BY <4>1, <4>2, <5>1, <2>2, UnexcusedBlocks
      <4>6. OutcomeOf(q) = "BLOCKED"
        <5>1. \A k \in DOMAIN ws : ~(Targets(ws[k], b[9]) /\ WaiverValid(ws[k], ev2, pol, date))
          BY <4>3, <4>4
        <5>2. QED
          BY <4>1, <4>3, <5>1, <2>3, UnexcusedBlocks
      <4>7. QED
        BY <4>5, <4>6
    <3>3. QED
      BY <3>1, <3>2
  <2>7. DecisionValid(p) <=> DecisionValid(q)
    <3> HIDE DEF a, b
    <3>1. DecisionValid(p) <=> \A i \in 1..15 : GateValid(a[i])
      BY <2>2, <2>4, ValidApplied
    <3>2. DecisionValid(q) <=> \A i \in 1..15 : GateValid(b[i])
      BY <2>3, <2>4, ValidApplied
    <3>3. QED
      BY <3>1, <3>2, <2>5
  <2>8. QED
    BY <1>1, <1>4, <2>6, <2>7 DEF Evaluate
<1>5. QED
  BY <1>3, <1>4

\* The observations of a session are counted, and reversing them is an order of them.
LEMMA SessionOrder ==
  ASSUME SessionInv
  PROVE  OrderIndependent
<1> DEFINE back == [evidence EXCEPT !.observations = Reverse(evidence.observations)]
<1> SUFFICES ASSUME decision # Undecided,
                    \A w \in Granted :
                      w.code \notin {"ARTIFACT_VERSION_MISMATCH", "ARTIFACT_SET_MISMATCH"}
             PROVE  decision.outcome = Evaluate(back, policy, waivers, now).outcome
  BY DEF OrderIndependent
<1>1. decision = Evaluate(evidence, policy, waivers, now)
  BY DEF SessionInv, DecisionInv
<1>2. /\ back.observations = Reverse(evidence.observations)
      /\ back.candidate = evidence.candidate /\ back.release = evidence.release
      /\ back.created_at = evidence.created_at
  BY DEF SessionInv, InputsInv
<1>3. Reordered(evidence, back)
  <2>1. Shuffled(evidence.observations, Reverse(evidence.observations))
    BY ReverseShuffles DEF SessionInv, InputsInv
  <2> HIDE DEF back
  <2>2. QED
    BY <1>2, <2>1 DEF Reordered
<1>4. Counted(evidence)
  <2>1. \A i \in DOMAIN evidence.observations : evidence.observations[i] \in Offered
    BY DEF SessionInv, InputsInv
  <2>2. QED
    BY <2>1, SessionAssumption DEF Counted
<1>5. \A i \in DOMAIN waivers :
        waivers[i].code \notin {"ARTIFACT_VERSION_MISMATCH", "ARTIFACT_SET_MISMATCH"}
  BY DEF Granted
<1>6. \A i, j \in DOMAIN waivers : waivers[i].id = waivers[j].id => i = j
  BY DEF SessionInv, InputsInv
<1> HIDE DEF back
<1>7. Evaluate(evidence, policy, waivers, now).outcome
        = Evaluate(back, policy, waivers, now).outcome
  BY <1>3, <1>4, <1>5, <1>6, OrderDecidesNoOutcome
<1>8. QED
  BY <1>1, <1>7

\* In whatever order observations are listed, the decision is the same, unless a waiver
\* lets the artifacts disagree (engine.py:303-312, 389-390).
THEOREM OrderDecidesNothing == Spec => []OrderIndependent
BY SessionInvariant, SessionOrder, PTL
=============================================================================
