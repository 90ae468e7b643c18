---------------------------- MODULE ReceiptProofs ----------------------------
(***************************************************************************)
(* Proofs about Receipt.tla: what an offline verifier may take from a      *)
(* portable receipt, for every number of processes, entries, exports and   *)
(* restorations of an older database.                                      *)
(*                                                                         *)
(* An anchor that an export has read keeps its place in the ledger         *)
(* (PlacedInv): whenever the chain is as long as the anchor says, it has   *)
(* the anchor's hash there.  The copy of the database is the beginning of  *)
(* the chain (CopyInv), so that putting it back moves nothing, and nobody  *)
(* writes to a chain that the anchor file does not belong to.              *)
(***************************************************************************)
EXTENDS Receipt, LedgerProofs

-----------------------------------------------------------------------------
(* The ledger under the exports.                                           *)

\* Exports read: every step is a step of the ledger or leaves it alone.
LEMMA StepsOfTheLedger == [ReceiptNext]_allVars => [Next]_vars
BY DEF ReceiptNext, LedgerStep, Export, ExportVerify, ExportEntry, ExportChain, Reads, Next,
       allVars

LEMMA LedgerRuns == ReceiptSpec => Spec
BY StepsOfTheLedger, PTL DEF ReceiptSpec, ReceiptInit, Spec

-----------------------------------------------------------------------------
(* Chains, as functions of their arguments.                                *)

\* The chain rs begins with the chain cs.
BeginsWith(rs, cs) == Len(cs) <= Len(rs) /\ \A s \in 1..Len(cs) : rs[s] = cs[s]

LEMMA HashOfBeginning ==
  ASSUME NEW rs, NEW cs, BeginsWith(rs, cs), Len(cs) \in Nat, NEW s \in 0..Len(cs)
  PROVE  HashAt(rs, s) = HashAt(cs, s)
BY DEF BeginsWith, HashAt

\* What a hash stands for: clean chains with one hash at s agree up to s.
LEMMA HashDetermines ==
  ASSUME NEW rs \in Seq(Row), NEW cs \in Seq(Row), ChainOK(rs), ChainOK(cs),
         HashesOK(rs), HashesOK(cs),
         NEW n \in 0..Len(cs), n <= Len(rs), HashAt(rs, n) = HashAt(cs, n),
         NEW s \in 1..n
  PROVE  rs[s] = cs[s]
<1>1. s \in 1..Len(rs) /\ s \in 1..Len(cs) /\ s \in 0..Len(rs) /\ s \in 0..Len(cs)
      /\ n \in s..Len(rs) /\ n \in s..Len(cs) /\ s # 0 /\ s - 1 \in 0..Len(rs) /\ s - 1 \in 0..Len(cs)
      /\ n \in (s - 1)..Len(rs) /\ n \in (s - 1)..Len(cs) /\ n \in 0..Len(rs)
  OBVIOUS
<1>2. ASSUME NEW k \in {s, s - 1} PROVE HashAt(rs, k) = HashAt(cs, k)
  <2>1. /\ HeadOf(HashAt(rs, k), HashAt(rs, n)) /\ HeadOf(HashAt(cs, k), HashAt(rs, n))
        /\ Len(HashAt(rs, k)) = k /\ Len(HashAt(cs, k)) = k
    BY <1>1, <1>2 DEF HashesOK
  <2>2. HashAt(rs, k) \in Hash /\ HashAt(cs, k) \in Hash /\ HashAt(rs, n) \in Hash
    BY <1>1, HashAtType
  <2>3. QED
    BY <2>1, <2>2, HeadsAgree
<1> DEFINE g == HashAt(rs, s - 1)
           b == BodyOf(rs[s], s, rs[s].created_at)
           c == BodyOf(cs[s], s, cs[s].created_at)
<1>3. /\ rs[s].previous_hash = g /\ cs[s].previous_hash = g
      /\ rs[s].entry_hash = Append(g, b) /\ cs[s].entry_hash = Append(g, c)
      /\ rs[s].entry_hash = cs[s].entry_hash
  BY <1>1, <1>2 DEF ChainOK, HashAt, EntryHash
<1>4. rs[s] \in Row /\ cs[s] \in Row /\ g \in Hash
  BY <1>1, HashAtType
<1>5. b = c
  <2>1. g \in Seq(Body)
    BY <1>4 DEF Hash
  <2>2. Append(g, b)[Len(g) + 1] = b /\ Append(g, c)[Len(g) + 1] = c
    BY <2>1
  <2>3. QED
    BY <1>3, <2>2
<1>6. /\ rs[s].key = cs[s].key /\ rs[s].type = cs[s].type /\ rs[s].context = cs[s].context
      /\ rs[s].payload = cs[s].payload /\ rs[s].created_at = cs[s].created_at
  BY <1>5 DEF BodyOf
<1>7. ASSUME NEW row \in Row
      PROVE  row = [key |-> row.key, type |-> row.type, context |-> row.context,
                    payload |-> row.payload, created_at |-> row.created_at,
                    previous_hash |-> row.previous_hash, entry_hash |-> row.entry_hash]
  BY DEF Row
<1>8. QED
  BY <1>3, <1>4, <1>6, <1>7

LEMMA BeginningIsPrefix ==
  ASSUME NEW rs \in Seq(Row), NEW cs \in Seq(Row), BeginsWith(rs, cs)
  PROVE  IsPrefix(cs, rs)
<1> DEFINE a == SubSeq(cs, 1, Len(cs))
           b == SubSeq(rs, 1, Len(cs))
<1>1. Len(cs) \in Nat /\ Len(rs) \in Nat /\ Len(cs) <= Len(rs)
  BY DEF BeginsWith
<1>2. a \in Seq(Row) /\ b \in Seq(Row) /\ Len(a) = Len(cs) /\ Len(b) = Len(cs)
  BY <1>1
<1>3. \A s \in 1..Len(cs) : a[s] = cs[s] /\ b[s] = rs[s]
  BY <1>1
<1> HIDE DEF a, b
<1>4. a = b
  BY <1>1, <1>2, <1>3 DEF BeginsWith
<1>5. QED
  BY <1>1, <1>4 DEF IsPrefix, a, b

\* A beginning of a clean chain is clean.
LEMMA BeginningIsClean ==
  ASSUME NEW rs \in Seq(Row), NEW n \in 0..Len(rs), NEW cs, cs = SubSeq(rs, 1, n),
         ChainOK(rs), HashesOK(rs)
  PROVE  /\ cs \in Seq(Row) /\ Len(cs) = n /\ BeginsWith(rs, cs)
         /\ ChainOK(cs) /\ HashesOK(cs)
<1>1. cs \in Seq(Row) /\ Len(cs) = n /\ BeginsWith(rs, cs) /\ Len(cs) \in Nat
  BY DEF BeginsWith
<1>2. \A s \in 0..n : HashAt(rs, s) = HashAt(cs, s)
  BY <1>1, HashOfBeginning
<1>3. ChainOK(cs)
  BY <1>1, <1>2 DEF ChainOK, BeginsWith
<1>4. HashesOK(cs)
  BY <1>1, <1>2 DEF HashesOK
<1>5. QED
  BY <1>1, <1>3, <1>4

-----------------------------------------------------------------------------
(* Anchors, and the copy of the database.                                  *)

\* If the chain rs is as long as anchor a says, a is of this chain.
Placed(rs, a) == a.sequence \in 0..Len(rs) => AnchorMatches(rs, a)

\* The database was copied from a beginning of the chain.
CopyInv == BeginsWith(rows, backup.rows)

\* a was read from the anchor file, whose sequence has not become smaller since.
Witnessed(a) == a \in Anchor /\ a.sequence <= anchor.sequence /\ Placed(rows, a)

\* What an export has read, at its two stages.
ExportOK(e) ==
  /\ Witnessed(e.anchor)
  /\ e.entries \in Nat
  /\ e.entries # 0 => e.anchor.sequence \in 0..e.entries
  /\ e.stage = "chain" => e.entry.type = "EVALUATED_DECISION" /\ Assessed(e.entry)

\* What a receipt says of itself, and of the ledger through its anchor.
ReceiptOK(r) ==
  /\ r = [sequence |-> r.sequence, envelope |-> r.envelope, entry |-> r.entry,
          chain |-> r.chain, anchor |-> r.anchor]
  /\ r.chain \in Seq(Row) /\ Len(r.chain) \in 1..MaxChainEntries
  /\ ChainOK(r.chain) /\ HashesOK(r.chain) /\ EntryBound(r)
  /\ AnchorMatches(r.chain, r.anchor)
  /\ Witnessed(r.anchor)

PlacedInv ==
  /\ CopyInv
  /\ Witnessed(anchor)
  /\ export = [p \in Proc |-> export[p]]
  /\ \A p \in Proc : export[p] # NoExport => ExportOK(export[p])
  /\ \A r \in exported : ReceiptOK(r)

LEMMA WitnessStays ==
  ASSUME IInv, CoveredInv, CopyInv, Witnessed(anchor), [Next]_vars,
         NEW a, Witnessed(a)
  PROVE  Witnessed(a)'
<1>1. TypeOK /\ StageInv
  BY DEF IInv
<1>2. /\ rows \in Seq(Row) /\ anchor \in Anchor /\ a \in Anchor /\ backup.rows \in Seq(Row)
      /\ a.sequence \in Int /\ anchor.sequence \in Int /\ Len(rows) \in Nat
      /\ a.sequence <= anchor.sequence
  BY <1>1 DEF TypeOK, Anchor, Witnessed
<1>3. a.sequence <= anchor'.sequence
  <2>1. CASE anchor' = anchor
    BY <1>2, <2>1
  <2>2. CASE anchor' = TailOf(rows) /\ AnchorVerified(rows, anchor)
    BY <1>2, <2>2 DEF TailOf, AnchorVerified, AnchorMatches, NoAnchor
  <2>3. QED
    BY <2>1, <2>2, AnchorSteps
<1>4. Placed(rows', a)
  <2>1. CASE UNCHANGED dbVars
    BY <2>1 DEF dbVars, Witnessed
  <2>2. CASE Restore
    <3>1. SUFFICES ASSUME a.sequence \in 0..Len(backup.rows) PROVE AnchorMatches(backup.rows, a)
      BY <2>2 DEF Restore, Placed
    <3>2. a.sequence \in 0..Len(rows)
      BY <1>2, <3>1 DEF CopyInv, BeginsWith
    <3>3. a.entry_hash = HashAt(rows, a.sequence)
      BY <3>2 DEF Witnessed, Placed, AnchorMatches
    <3>4. QED
      BY <1>2, <3>1, <3>3, HashOfBeginning DEF CopyInv, AnchorMatches
  <2>3. CASE ~UNCHANGED dbVars /\ ~Restore
    <3>1. AnchorMatches(rows, anchor)
      BY <1>1, <2>3, TablesChangeByCalls, CallBegins
    <3>2. PICK r : Insertion(rows, promo, r, rows', promo')
      BY <1>1, <2>3, TableSteps
    <3>3. rows' \in Seq(Row) /\ Len(rows') = Len(rows) + 1 /\ \A s \in 1..Len(rows) : rows'[s] = rows[s]
      BY <1>2, <3>2, InsertedRows
    <3>4. SUFFICES ASSUME a.sequence \in 0..Len(rows') PROVE AnchorMatches(rows', a)
      BY DEF Placed
    <3>5. a.sequence \in 0..Len(rows)
      BY <1>2, <3>1, <3>4 DEF AnchorMatches
    <3>6. a.entry_hash = HashAt(rows, a.sequence)
      BY <3>5 DEF Witnessed, Placed, AnchorMatches
    <3>7. HashAt(rows', a.sequence) = HashAt(rows, a.sequence)
      BY <3>3, <3>5 DEF HashAt
    <3>8. QED
      BY <3>4, <3>6, <3>7 DEF AnchorMatches
  <2>4. QED
    BY <2>1, <2>2, <2>3
<1>5. QED
  BY <1>2, <1>3, <1>4 DEF Witnessed

LEMMA AnchorStays ==
  ASSUME IInv, CoveredInv, CopyInv, Witnessed(anchor), [Next]_vars
  PROVE  Witnessed(anchor)'
<1>1. TypeOK /\ StageInv
  BY DEF IInv
<1>2. rows \in Seq(Row) /\ anchor \in Anchor
  BY <1>1 DEF TypeOK
<1>3. CASE anchor' = anchor
  <2>1. PICK a : a = anchor
    OBVIOUS
  <2>2. Witnessed(a)'
    BY <2>1, WitnessStays
  <2>3. QED
    BY <1>3, <2>1, <2>2
<1>4. CASE UNCHANGED dbVars /\ anchor' = TailOf(rows)
  <2>1. TailOf(rows) \in Anchor /\ AnchorMatches(rows, TailOf(rows)) /\ TailOf(rows).sequence \in Int
    BY <1>2, TailMatches DEF TailOf
  <2>2. QED
    BY <1>4, <2>1 DEF Witnessed, Placed, dbVars
<1>5. QED
  BY <1>3, <1>4, AnchorSteps

LEMMA CopyStays ==
  ASSUME IInv, CopyInv, [Next]_vars
  PROVE  CopyInv'
<1>1. TypeOK /\ StageInv
  BY DEF IInv
<1>2. rows \in Seq(Row) /\ backup.rows \in Seq(Row)
  BY <1>1 DEF TypeOK
<1>3. CASE Restore
  BY <1>2, <1>3 DEF Restore, CopyInv, BeginsWith
<1>4. CASE ~Restore
  <2>1. backup' = backup \/ backup'.rows = rows
    BY <1>1, CopySteps
  <2>2. BeginsWith(rows, backup'.rows) /\ Len(backup'.rows) \in Nat
    BY <1>2, <2>1 DEF CopyInv, BeginsWith
  <2>3. CASE UNCHANGED dbVars
    BY <2>2, <2>3 DEF dbVars, CopyInv
  <2>4. CASE \E r : Insertion(rows, promo, r, rows', promo')
    <3>1. Len(rows') = Len(rows) + 1 /\ \A s \in 1..Len(rows) : rows'[s] = rows[s]
      BY <1>2, <2>4, InsertedRows
    <3>2. QED
      BY <1>2, <2>2, <3>1 DEF CopyInv, BeginsWith
  <2>5. QED
    BY <1>1, <1>4, <2>3, <2>4, TableSteps
<1>5. QED
  BY <1>3, <1>4

-----------------------------------------------------------------------------
(* The exports.                                                            *)

\* The ledger is clean, and what was read from it is in its place.
LedgerInv == IInv /\ TablesInv /\ HashesInv /\ CoveredInv

LEMMA ReadsOnly ==
  ASSUME NEW p \in Proc, Export(p)
  PROVE  UNCHANGED vars /\ UNCHANGED <<rows, promo, anchor>>
BY DEF Export, ExportVerify, ExportEntry, ExportChain, Reads, vars

\* verify() leaves an export with an anchor of the chain.
LEMMA VerifyPlaces ==
  ASSUME PlacedInv, LedgerInv, NEW p \in Proc, NEW s, ExportVerify(p, s), NEW e, e = export'[p]
  PROVE  ExportOK(e)
<1>1. /\ e = [stage |-> "entry", sequence |-> s, entries |-> Len(rows), anchor |-> anchor]
      /\ AnchorVerified(rows, anchor)
  BY DEF ExportVerify, Reads, PlacedInv, VerifyOK
<1>2. Len(rows) \in Nat /\ Witnessed(anchor)
  BY DEF LedgerInv, IInv, TypeOK, PlacedInv
<1>3. Len(rows) # 0 => anchor.sequence \in 0..Len(rows)
  BY <1>1, <1>2 DEF AnchorVerified, AnchorMatches
<1>4. QED
  BY <1>1, <1>2, <1>3 DEF ExportOK

\* get_entry() adds an evaluation that agrees with its decision, or gives up.
LEMMA EntryPlaces ==
  ASSUME PlacedInv, NEW p \in Proc, ExportEntry(p), NEW e, e = export'[p], e # NoExport
  PROVE  ExportOK(e)
<1> DEFINE s == export[p].sequence
<1>1. /\ ExportOK(export[p])
      /\ e = [stage |-> "chain", sequence |-> s, entries |-> export[p].entries,
              anchor |-> export[p].anchor, entry |-> rows[s]]
      /\ rows[s].type = "EVALUATED_DECISION" /\ Assessed(rows[s])
  BY DEF PlacedInv, ExportEntry, Reads
<1>2. QED
  BY <1>1 DEF ExportOK

\* A listing that ends where verify() saw the tail makes a receipt whose anchor is of its
\* chain, whatever happened to the ledger in between.
LEMMA ChainPlaces ==
  ASSUME PlacedInv, LedgerInv, NEW p \in Proc, ExportChain(p), NEW r, r \in exported',
         r \notin exported
  PROVE  ReceiptOK(r)
<1> DEFINE e == export[p]
           n == Min({Len(rows), MaxChainEntries})
<1>1. /\ e # NoExport /\ e.stage = "chain" /\ Exportable(e) /\ r = ReceiptOf(e, Listed)
  BY DEF ExportChain
<1>2. /\ ExportOK(e) /\ Witnessed(e.anchor) /\ e.entries \in Nat
      /\ e.entry.type = "EVALUATED_DECISION" /\ Assessed(e.entry)
  BY <1>1 DEF PlacedInv, ExportOK
<1>3. /\ rows \in Seq(Row) /\ Len(rows) \in Nat /\ ChainOK(rows) /\ HashesOK(rows)
  BY DEF LedgerInv, IInv, TypeOK, TablesInv, AuditOK, HashesInv
<1>4. n \in {Len(rows), MaxChainEntries} /\ n <= Len(rows) /\ n <= MaxChainEntries
  BY <1>3, ReceiptAssumption DEF Min
<1>5. n \in 0..Len(rows) /\ Listed = SubSeq(rows, 1, n)
  BY <1>3, <1>4, ReceiptAssumption DEF Listed
<1> HIDE DEF n
<1>6. /\ Listed \in Seq(Row) /\ Len(Listed) = n /\ BeginsWith(rows, Listed)
      /\ ChainOK(Listed) /\ HashesOK(Listed)
  BY <1>3, <1>5, BeginningIsClean
<1>7. /\ n \in 1..MaxChainEntries /\ n = e.entries /\ n # 0
      /\ e.sequence \in DOMAIN Listed /\ Listed[e.sequence] = e.entry
  BY <1>1, <1>4, <1>5, <1>6, ReceiptAssumption DEF Exportable
<1>8. AnchorMatches(Listed, e.anchor)
  <2>1. e.anchor.sequence \in 0..n
    BY <1>2, <1>7 DEF ExportOK
  <2>2. AnchorMatches(rows, e.anchor)
    BY <1>2, <1>5, <2>1 DEF Witnessed, Placed
  <2>3. HashAt(rows, e.anchor.sequence) = HashAt(Listed, e.anchor.sequence)
    <3>1. PICK cs : cs = Listed
      OBVIOUS
    <3>2. /\ BeginsWith(rows, cs) /\ Len(cs) \in Nat /\ e.anchor.sequence \in 0..Len(cs)
      BY <1>3, <1>5, <1>6, <2>1, <3>1
    <3>3. QED
      BY <3>1, <3>2, HashOfBeginning
  <2>4. QED
    BY <1>6, <2>1, <2>2, <2>3 DEF AnchorMatches
<1>9. /\ r = [sequence |-> e.sequence, envelope |-> e.entry.payload, entry |-> e.entry,
              chain |-> Listed, anchor |-> e.anchor]
  BY <1>1 DEF ReceiptOf
<1>10. EntryBound(r)
  BY <1>2, <1>7, <1>9 DEF EntryBound
<1>11. QED
  BY <1>2, <1>6, <1>7, <1>8, <1>9, <1>10 DEF ReceiptOK

LEMMA ExportPlaces ==
  ASSUME PlacedInv, LedgerInv, NEW p \in Proc, Export(p)
  PROVE  PlacedInv'
<1>1. UNCHANGED vars /\ UNCHANGED <<rows, anchor, backup>>
  BY ReadsOnly DEF vars
<1>2. CopyInv' /\ Witnessed(anchor)'
  BY <1>1 DEF PlacedInv, CopyInv, Witnessed, Placed
<1>3. \A e : ExportOK(e) => ExportOK(e)'
  BY <1>1 DEF ExportOK, Witnessed, Placed
<1>4. \A r : ReceiptOK(r) => ReceiptOK(r)'
  BY <1>1 DEF ReceiptOK, Witnessed, Placed
<1>5. /\ \E e : export' = [export EXCEPT ![p] = e]
      /\ \A e : e = export'[p] /\ e # NoExport => ExportOK(e)
      /\ \A r : r \in exported' /\ r \notin exported => ReceiptOK(r)
  <2>1. CASE \E s \in 1..MaxRows : ExportVerify(p, s)
    BY <2>1, VerifyPlaces DEF ExportVerify, Reads
  <2>2. CASE ExportEntry(p)
    BY <2>2, EntryPlaces DEF ExportEntry, Reads
  <2>3. CASE ExportChain(p)
    <3>1. export' = [export EXCEPT ![p] = NoExport] /\ export'[p] = NoExport
      BY <2>3 DEF ExportChain, Reads, PlacedInv
    <3>2. QED
      BY <2>3, <3>1, ChainPlaces
  <2>4. QED
    BY <2>1, <2>2, <2>3 DEF Export
<1>6. /\ export' = [q \in Proc |-> export'[q]]
      /\ \A q \in Proc : q # p => export'[q] = export[q]
  BY <1>5 DEF PlacedInv
<1>7. ASSUME NEW q \in Proc, export'[q] # NoExport PROVE ExportOK(export[q])'
  <2>1. PICK e : e = export'[q]
    OBVIOUS
  <2>2. ExportOK(e)
    BY <1>5, <1>6, <1>7, <2>1 DEF PlacedInv
  <2>3. ExportOK(e)'
    BY <1>3, <2>2
  <2>4. QED
    BY <2>1, <2>3
<1>8. ASSUME NEW r \in exported' PROVE ReceiptOK(r)'
  <2>1. ReceiptOK(r)
    BY <1>5, <1>8 DEF PlacedInv
  <2>2. QED
    BY <1>4, <2>1
<1>9. QED
  BY <1>2, <1>6, <1>7, <1>8 DEF PlacedInv

LEMMA LedgerPlaces ==
  ASSUME PlacedInv, LedgerInv, [Next]_vars, exported' = exported,
         \/ export' = export
         \/ \E p \in Proc : export' = [export EXCEPT ![p] = NoExport]
  PROVE  PlacedInv'
<1>1. IInv /\ CoveredInv /\ CopyInv /\ Witnessed(anchor)
  BY DEF LedgerInv, PlacedInv
<1>2. CopyInv' /\ Witnessed(anchor)'
  BY <1>1, CopyStays, AnchorStays
<1>3. \A a : Witnessed(a) => Witnessed(a)'
  BY <1>1, WitnessStays
<1>4. \A e : ExportOK(e) => ExportOK(e)'
  BY <1>3 DEF ExportOK
<1>5. \A r : ReceiptOK(r) => ReceiptOK(r)'
  BY <1>3 DEF ReceiptOK
<1>6. /\ export' = [q \in Proc |-> export'[q]]
      /\ \A q \in Proc : export'[q] = export[q] \/ export'[q] = NoExport
  BY DEF PlacedInv
<1>7. ASSUME NEW q \in Proc, export'[q] # NoExport PROVE ExportOK(export[q])'
  <2>1. PICK e : e = export'[q] /\ e = export[q]
    BY <1>6, <1>7
  <2>2. ExportOK(e)'
    BY <1>4, <1>7, <2>1 DEF PlacedInv
  <2>3. QED
    BY <2>1, <2>2
<1>8. ASSUME NEW r \in exported' PROVE ReceiptOK(r)'
  BY <1>5, <1>8 DEF PlacedInv
<1>9. QED
  BY <1>2, <1>6, <1>7, <1>8 DEF PlacedInv

LEMMA NextPlaced == LedgerInv /\ PlacedInv /\ [ReceiptNext]_allVars => PlacedInv'
<1> SUFFICES ASSUME LedgerInv, PlacedInv, [ReceiptNext]_allVars PROVE PlacedInv'
  OBVIOUS
<1>1. [Next]_vars
  BY StepsOfTheLedger
<1>2. CASE \E p \in Proc : Export(p)
  BY <1>2, ExportPlaces
<1>3. CASE ~(\E p \in Proc : Export(p))
  <2>1. exported' = exported /\ (\/ export' = export
                                 \/ \E p \in Proc : export' = [export EXCEPT ![p] = NoExport])
    BY <1>3 DEF ReceiptNext, LedgerStep, allVars, receiptVars
  <2>2. QED
    BY <1>1, <2>1, LedgerPlaces
<1>4. QED
  BY <1>2, <1>3

LEMMA InitPlaced == ReceiptInit => PlacedInv
<1> SUFFICES ASSUME ReceiptInit PROVE PlacedInv
  OBVIOUS
<1>1. anchor = NoAnchor /\ rows = <<>> /\ backup.rows = <<>> /\ exported = {}
      /\ export = [p \in Proc |-> NoExport]
  BY DEF ReceiptInit, Init
<1>2. NoAnchor \in Anchor /\ NoAnchor.sequence = -1
  BY DEF NoAnchor, Anchor, Hash, ZeroHash
<1>3. QED
  BY <1>1, <1>2 DEF PlacedInv, CopyInv, BeginsWith, Witnessed, Placed

\* The ledger under the exports is clean: its own invariants hold whatever receipts read.
THEOREM LedgerHolds == SerialOpen => (ReceiptSpec => []LedgerInv)
<1> SUFFICES ASSUME SerialOpen PROVE ReceiptSpec => []LedgerInv
  OBVIOUS
<1>1. IInv /\ TablesInv /\ TruncationInv => LedgerInv
  BY DEF TruncationInv, LedgerInv
<1>2. Spec => []TruncationInv
  BY TruncationInvariant
<1>3. QED
  BY <1>1, <1>2, LedgerRuns, IInvariant, TablesInvariant, PTL

\* The copy is a beginning of the chain, and the anchors in exports and receipts keep
\* their place.
THEOREM PlacedInvariant == SerialOpen => (ReceiptSpec => []PlacedInv)
<1> SUFFICES ASSUME SerialOpen PROVE ReceiptSpec => []PlacedInv
  OBVIOUS
<1>1. ReceiptSpec => []LedgerInv
  BY LedgerHolds
<1>2. QED
  BY <1>1, InitPlaced, NextPlaced, PTL DEF ReceiptSpec

-----------------------------------------------------------------------------
(* What a receipt shows.                                                   *)

\* However the three transactions of an export are interleaved with writers, crashes and
\* replaced files, what they read fits together: a receipt is consistent but for an anchor
\* that may lie behind the end of its chain (receipt.py:166-203, 314).
THEOREM ReceiptsFit == SerialOpen => (ReceiptSpec => []OnlyTheAnchorMayLag)
<1> SUFFICES ASSUME SerialOpen PROVE ReceiptSpec => []OnlyTheAnchorMayLag
  OBVIOUS
<1>1. PlacedInv => OnlyTheAnchorMayLag
  <2> SUFFICES ASSUME PlacedInv, NEW r \in exported
               PROVE  \/ Consistent(r)
                      \/ /\ Consistent([r EXCEPT !.anchor = TailOf(r.chain)])
                         /\ r.anchor.sequence < Len(r.chain)
                         /\ AnchorMatches(r.chain, r.anchor)
    BY DEF OnlyTheAnchorMayLag
  <2>1. ReceiptOK(r)
    BY DEF PlacedInv
  <2>2. /\ Len(r.chain) \in 1..MaxChainEntries /\ ChainOK(r.chain) /\ EntryBound(r)
        /\ AnchorMatches(r.chain, r.anchor) /\ r.anchor \in Anchor /\ Len(r.chain) \in Nat
    BY <2>1, ReceiptAssumption DEF ReceiptOK, Witnessed
  <2>3. CASE r.anchor.sequence = Len(r.chain)
    <3>1. r.anchor = [sequence |-> r.anchor.sequence, entry_hash |-> r.anchor.entry_hash]
      BY <2>2 DEF Anchor
    <3>2. r.anchor = TailOf(r.chain)
      BY <2>2, <2>3, <3>1 DEF AnchorMatches, TailOf
    <3>3. QED
      BY <2>2, <3>2 DEF Consistent
  <2>4. CASE r.anchor.sequence # Len(r.chain)
    <3>1. r.anchor.sequence < Len(r.chain)
      BY <2>2, <2>4 DEF AnchorMatches
    <3>2. PICK s : s = [r EXCEPT !.anchor = TailOf(r.chain)]
      OBVIOUS
    <3>3. /\ s.anchor = TailOf(s.chain) /\ s.chain = r.chain /\ s.sequence = r.sequence
          /\ s.entry = r.entry /\ s.envelope = r.envelope
      BY <2>1, <3>2 DEF ReceiptOK
    <3>4. Consistent(s)
      BY <2>2, <3>3 DEF Consistent, EntryBound
    <3>5. QED
      BY <2>2, <3>1, <3>2, <3>4
  <2>5. QED
    BY <2>3, <2>4
<1>2. QED
  BY <1>1, PlacedInvariant, PTL

\* As long as the ledger itself passes its audit, what an offline verifier accepts is what
\* the ledger says, also after later entries, crashes and older databases put back in place
\* of the current one (receipt.py:166-185, 281-315, ledger.py:764-779).
THEOREM AcceptedStaysTrue == SerialOpen => (ReceiptSpec => []AcceptedReceiptsStayTrue)
<1> SUFFICES ASSUME SerialOpen PROVE ReceiptSpec => []AcceptedReceiptsStayTrue
  OBVIOUS
<1>1. LedgerInv /\ PlacedInv => AcceptedReceiptsStayTrue
  <2> SUFFICES ASSUME LedgerInv, PlacedInv, NEW r \in exported, Explained(r) # NoDecision,
                      VerifyOK(rows, promo, anchor)
               PROVE  /\ IsPrefix(r.chain, rows)
                      /\ EvaluatedBefore(rows, Len(rows) + 1, Explained(r))
    BY DEF AcceptedReceiptsStayTrue
  <2> DEFINE cs == r.chain
             n == Len(cs)
  <2>1. ReceiptOK(r) /\ r.anchor = TailOf(cs) /\ Explained(r) = r.envelope.decision
    BY DEF PlacedInv, Explained, Consistent
  <2>2. /\ cs \in Seq(Row) /\ n \in Nat /\ n # 0 /\ ChainOK(cs) /\ HashesOK(cs) /\ EntryBound(r)
        /\ r.anchor.sequence = n /\ r.anchor.entry_hash = HashAt(cs, n) /\ Witnessed(r.anchor)
    BY <2>1, ReceiptAssumption DEF ReceiptOK, TailOf
  <2>3. /\ rows \in Seq(Row) /\ Len(rows) \in Nat /\ ChainOK(rows) /\ HashesOK(rows)
        /\ anchor \in Anchor
    BY DEF LedgerInv, IInv, TypeOK, TablesInv, AuditOK, HashesInv
  <2>4. anchor.sequence \in 0..Len(rows) /\ n <= anchor.sequence
    BY <2>2, <2>3 DEF VerifyOK, AnchorVerified, AnchorMatches, NoAnchor, Witnessed
  <2>5. n <= Len(rows) /\ n \in 0..Len(rows) /\ n \in 0..n
    BY <2>2, <2>3, <2>4
  <2>6. HashAt(rows, n) = HashAt(cs, n)
    BY <2>2, <2>5 DEF Witnessed, Placed, AnchorMatches
  <2>7. \A s \in 1..n : rows[s] = cs[s]
    BY <2>2, <2>3, <2>5, <2>6, HashDetermines
  <2>8. IsPrefix(cs, rows)
    BY <2>2, <2>3, <2>5, <2>7, BeginningIsPrefix DEF BeginsWith
  <2>9. /\ r.sequence \in 1..n /\ rows[r.sequence] = r.entry /\ r.entry.type = "EVALUATED_DECISION"
        /\ r.entry.payload.decision = Explained(r)
    BY <2>1, <2>2, <2>7 DEF EntryBound
  <2>10. r.sequence \in 1..((Len(rows) + 1) - 1)
    BY <2>3, <2>5, <2>9
  <2>11. QED
    BY <2>8, <2>9, <2>10 DEF EvaluatedBefore
<1>2. ReceiptSpec => []LedgerInv /\ []PlacedInv
  BY LedgerHolds, PlacedInvariant
<1>3. QED
  BY <1>1, <1>2, PTL
=============================================================================
