------------------------------ MODULE Receipt ------------------------------
(***************************************************************************)
(* Portable receipts (release_gate/receipt.py), exported from the ledger   *)
(* of Ledger.tla while other processes write to it.                        *)
(*                                                                         *)
(* export_receipt reads the ledger in three transactions - verify(),       *)
(* get_entry(), list_entries() - and each one is an action; what it has    *)
(* read is kept in "export" in between.  A check that fails raises and     *)
(* gives the export up.  verify_receipt and explain_receipt read nothing   *)
(* but the receipt: they are operators.                                    *)
(***************************************************************************)
EXTENDS Ledger, SequencesExt, FiniteSetsExt

CONSTANTS
  Exporter,         \* the processes that export receipts; the others write
  NoExport,         \* the absence of an export in progress
  MaxChainEntries,  \* MAX_CHAIN_ENTRIES
  MaxReceipts       \* bound on the receipts exported

ASSUME ReceiptAssumption ==
  /\ Exporter \subseteq Proc
  /\ MaxChainEntries \in Nat \ {0}
  /\ MaxReceipts \in Nat

VARIABLES
  export,    \* what each process has read for the export it is in
  exported   \* the receipts written

receiptVars == <<export, exported>>
allVars == <<vars, receiptVars>>

ReceiptInit == Init /\ export = [p \in Proc |-> NoExport] /\ exported = {}

-----------------------------------------------------------------------------
(* export_receipt.                                                         *)

\* Set what p has read, and leave the ledger alone.
Reads(p, e) == export' = [export EXCEPT ![p] = e] /\ UNCHANGED vars

\* verify() must be clean; the number of entries and the anchor are kept. The
\* anchor of a clean ledger may be behind its tail.
ExportVerify(p, s) ==
  /\ p \in Exporter /\ pc[p] = "ready" /\ export[p] = NoExport
  /\ dbLock = Nobody
  /\ Cardinality(exported) < MaxReceipts
  /\ VerifyOK(rows, promo, anchor)
  /\ Reads(p, [stage |-> "entry", sequence |-> s, entries |-> Len(rows), anchor |-> anchor])
  /\ UNCHANGED exported

\* _assessment: the envelope of an entry agrees with the decision it carries,
\* which was computed for the entry's request.
Assessed(entry) ==
  LET d == entry.payload.decision
  IN  /\ d # NoDecision
      /\ entry.payload.candidate = CandidateOf[d]
      /\ entry.context = ContextOf[d]

\* get_entry(): the row must be there and be an evaluation of a decision.
ExportEntry(p) ==
  /\ export[p] # NoExport /\ export[p].stage = "entry"
  /\ LET s == export[p].sequence
     IN  IF s \in DOMAIN rows /\ rows[s].type = "EVALUATED_DECISION" /\ Assessed(rows[s])
         THEN Reads(p, [stage |-> "chain", sequence |-> s, entries |-> export[p].entries,
                        anchor |-> export[p].anchor, entry |-> rows[s]])
         ELSE Reads(p, NoExport)
  /\ UNCHANGED exported

\* The receipt of an export e whose chain is as listed.
ReceiptOf(e, chain) ==
  [sequence |-> e.sequence, envelope |-> e.entry.payload, entry |-> e.entry,
   chain |-> chain, anchor |-> e.anchor]

\* list_entries(): at most MaxChainEntries from genesis, which must end where
\* verify() saw the tail and contain the entry read before.
Listed == SubSeq(rows, 1, Min({Len(rows), MaxChainEntries}))

Exportable_AnyChain(e) == Listed # <<>> /\ Len(Listed) = e.entries
Exportable(e) ==
  /\ Listed # <<>>
  /\ Len(Listed) = e.entries
  /\ e.sequence \in DOMAIN Listed /\ Listed[e.sequence] = e.entry

ExportChain(p) ==
  /\ export[p] # NoExport /\ export[p].stage = "chain"
  /\ exported' = IF Exportable(export[p])
                 THEN exported \cup {ReceiptOf(export[p], Listed)}
                 ELSE exported
  /\ Reads(p, NoExport)

-----------------------------------------------------------------------------
(* verify_receipt and explain_receipt, of a receipt of the right shape.    *)

EntryBound(r) ==
  /\ r.sequence \in DOMAIN r.chain /\ r.chain[r.sequence] = r.entry
  /\ r.entry.type = "EVALUATED_DECISION"
  /\ r.entry.payload = r.envelope
  /\ Assessed(r.entry)

\* result["internally_consistent"]: the chain replays from genesis, binds the entry and
\* the request, and ends at the anchor.
Consistent_AnyAnchor(r) ==
  /\ Len(r.chain) \in 1..MaxChainEntries
  /\ ChainOK(r.chain)
  /\ EntryBound(r)
Consistent(r) ==
  /\ Len(r.chain) \in 1..MaxChainEntries
  /\ ChainOK(r.chain)
  /\ EntryBound(r)
  /\ r.anchor = TailOf(r.chain)

\* explain_receipt: an inconsistent receipt explains no decision.
Explained(r) == IF Consistent(r) THEN r.envelope.decision ELSE NoDecision

-----------------------------------------------------------------------------
Export(p) ==
  \/ \E s \in 1..MaxRows : ExportVerify(p, s)
  \/ ExportEntry(p)
  \/ ExportChain(p)

\* A crash of a process ends its export with it.
LedgerStep(p) ==
  \/ /\ OpenLock(p) \/ Continue(p) \/ (p \notin Exporter /\ StartCall(p))
     /\ UNCHANGED receiptVars
  \/ Crash(p) /\ export' = [export EXCEPT ![p] = NoExport] /\ UNCHANGED exported

ReceiptNext ==
  \/ \E p \in Proc : LedgerStep(p) \/ Export(p)
  \/ (Backup \/ Restore) /\ UNCHANGED receiptVars

ReceiptSpec == ReceiptInit /\ [][ReceiptNext]_allVars

-----------------------------------------------------------------------------
(* Properties.                                                             *)

\* Whatever an offline verifier accepts is what the ledger says: as long as the
\* ledger itself passes its audit, the chain of an accepted receipt is the
\* beginning of the ledger's and the decision it explains is recorded there, also
\* after crashes, later entries, and an older database put back in place of the
\* current one, before or in the middle of the export (receipt.py:166-185,
\* 281-315, ledger.py:764-779).
AcceptedReceiptsStayTrue ==
  \A r \in exported : Explained(r) # NoDecision /\ VerifyOK(rows, promo, anchor) =>
    /\ IsPrefix(r.chain, rows)
    /\ EvaluatedBefore(rows, Len(rows) + 1, Explained(r))

\* However the three transactions of an export are interleaved with writers and
\* replaced files, what they read fits together; all that a receipt can lack is
\* an anchor at the end of its chain, when the ledger was verified after an entry
\* was committed and before its anchor was written (receipt.py:166-203, 314).
OnlyTheAnchorMayLag ==
  \A r \in exported :
    \/ Consistent(r)
    \/ /\ Consistent([r EXCEPT !.anchor = TailOf(r.chain)])
       /\ r.anchor.sequence < Len(r.chain)
       /\ AnchorMatches(r.chain, r.anchor)
=============================================================================
