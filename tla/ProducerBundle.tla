--------------------------- MODULE ProducerBundle ---------------------------
(***************************************************************************)
(* The optional producer bundle of a workflow request                      *)
(* (shipcheck/producer_receipts.py): the receipts of the runs that         *)
(* produced the candidate, and the physical files they declare.            *)
(*                                                                         *)
(* Files are read one after the other, and each one is checked as it is    *)
(* read; the operators here say what is read and what passes.  A content   *)
(* stands for its bytes, its length and its SHA-256.                       *)
(***************************************************************************)
EXTENDS Integers, Sequences, SequencesExt

CONSTANTS
  Producers,      \* PRODUCERS
  MaxFiles,       \* MAX_FILES
  MaxRunReceipts, \* the 16 receipts of a bundle
  MaxArtifacts,   \* the 32 artifacts of a receipt
  MaxAge,         \* the greatest max_age_seconds
  RunOf(_),       \* the run receipt that a content parses to
  NotARun,        \* the result of parsing anything else
  Unreadable      \* a file that is not there, linked, too large or changing

Quality == {"passed", "failed", "not_measured"}

\* _receipt: what a run receipt of a producer says of itself is complete and
\* consistent: the execution succeeded, the states agree with the quality, the
\* artifacts are listed once each, and the input is the request.
RunValid(v, producer) ==
  /\ v # NotARun
  /\ v.product = producer
  /\ v.origin = "user_supplied"
  /\ v.quality \in Quality
  /\ v.quality_state \in {"absent", v.quality}
  /\ v.execution_ok
  /\ v.state = IF v.quality = "failed" THEN "quality_failed" ELSE "completed"
  /\ ~v.timed_out /\ v.exit_code = 0
  /\ Len(v.artifacts) \in 1..MaxArtifacts
  /\ IsInjective([i \in DOMAIN v.artifacts |-> v.artifacts[i].id])
  /\ \E i \in DOMAIN v.artifacts : v.artifacts[i] = [id |-> "input", content |-> v.request]

\* The two freshness checks, against one reading of the clock.
Fresh(v, now, age) == v.finished <= now /\ now - v.finished <= age

\* What of a bundle is checked before any file is read.
BundleValid(b, candidate) ==
  /\ b.candidate = candidate
  /\ b.max_age \in 1..MaxAge
  /\ Len(b.entries) \in 1..MaxRunReceipts

\* The files in the order in which they are read: the receipt of each entry, then
\* the artifacts bound to it.
Reads(b) ==
  FlattenSeq([i \in DOMAIN b.entries |->
    <<[entry |-> i, kind |-> "receipt", id |-> "", path |-> b.entries[i].path]>> \o
    [j \in DOMAIN b.entries[i].artifacts |->
       [entry |-> i, kind |-> "artifact", id |-> b.entries[i].artifacts[j].id,
        path |-> b.entries[i].artifacts[j].path]]])

\* _Reader.read: a regular file of its own, within the limit on files; files are
\* those read before.
MayRead(files, path, content) ==
  /\ content # Unreadable
  /\ Len(files) < MaxFiles
  /\ \A i \in DOMAIN files : files[i].path # path

\* The run receipt of entry i, among the files read before. Each entry's receipt is
\* a file of its own.
RunRead(b, i, files) ==
  RunOf(files[CHOOSE f \in DOMAIN files : files[f].path = b.entries[i].path].content)

\* A receipt file: of a known producer, for this candidate, with the digest that was
\* claimed, of a run no earlier entry had, fresh, of sufficient quality, and every
\* artifact it declares is bound to one path.
ReceiptPasses(b, i, files, content, now) ==
  LET e   == b.entries[i]
      run == RunOf(content)
  IN  /\ e.producer \in Producers
      /\ e.candidate = b.candidate
      /\ content = e.digest
      /\ RunValid(run, e.producer)
      /\ \A k \in 1..(i - 1) :
           b.entries[k].digest # e.digest /\ RunRead(b, k, files).run # run.run
      /\ run.started <= run.finished
      /\ Fresh(run, now, b.max_age)
      /\ b.require_quality => run.quality = "passed"
      /\ Len(e.artifacts) = Len(run.artifacts)
      /\ IsInjective([j \in DOMAIN e.artifacts |-> e.artifacts[j].id])
      /\ {e.artifacts[j].id : j \in DOMAIN e.artifacts}
           = {run.artifacts[j].id : j \in DOMAIN run.artifacts}

\* An artifact file: the bytes the receipt of its entry declares under its name.
ArtifactPasses(b, r, files, content) ==
  [id |-> r.id, content |-> content] \in Range(RunRead(b, r.entry, files).artifacts)

\* Whether the next file of verify_producer_bundle passes, with the time of its start.
NextPasses(b, files, content, now) ==
  LET r == Reads(b)[Len(files) + 1]
  IN  /\ MayRead(files, r.path, content)
      /\ IF r.kind = "receipt" THEN ReceiptPasses(b, r.entry, files, content, now)
         ELSE ArtifactPasses(b, r, files, content)

\* recheck_producer_files, once its fresh reader has found the same bytes in every
\* file: every receipt is still fresh.
StillFresh(b, proof, now) ==
  \A i \in DOMAIN b.entries : Fresh(RunRead(b, i, proof), now, b.max_age)
=============================================================================
