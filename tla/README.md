# Shipcheck in TLA+

Specifications, model-checking configurations and machine-checked proofs for
Shipcheck, the offline merge and release gate of this repository. Paths below
are those of the repository; `ledger.py` alone is
`src/shipcheck/release_gate/ledger.py`.

## 1. Inventory of the system

Shipcheck is a set of small tools on local files. Nearly all of it runs to
completion in one process, so the hard behaviour is where several processes share
a file, where a process dies between two writes, and where something is checked
first and used later.

| Component | State it keeps | Operations | Interacts with |
|---|---|---|---|
| **Decision ledger** (`release_gate/ledger.py`) | SQLite tables `ledger_entries` (a hash chain) and `promotion_state`; the tail anchor, a file of its own; the lock file | open (with anchor recovery), `append`, `append_decision`, `evaluate_and_record`, `plan/apply/verify/rollback_promotion`, `verify`, reads | other processes on the same files; engine (evaluations), receipts, API (reads), `atomic_write` |
| **Portable receipts** (`receipt.py`) | none | `export_receipt` (three read transactions), `verify_receipt` | ledger |
| **Release gate engine** (`engine.py`, `models.py`, `trust.py`, `risk.py`) | none; a clock | `evaluate`: gates, waivers, outcome | ledger, workflow |
| **Merge gate** (`safe_merge_gate/gate.py`, `contract.py`) | none | `evaluate` | merge transaction, workflow |
| **Local merge transaction** (`safe_merge_gate/transaction.py`) | the state file, receipt files | `dry_run`, `apply`, `verify`, `rollback` | merge gate; other processes on the state file |
| **Integrated workflow** (`shipcheck/workflow.py`, `producer_receipts.py`) | a new output directory | `run_workflow`: evidence, risk, tests, gates, rollback drill, recheck, receipt | both gates, merge transaction, the files it is given |
| **Loopback API** (`api.py`) | sixteen request slots | accept, serve, release | ledger (reads) |
| **deploy-truth** (`packages/deploy-truth`) | live tree, snapshot, marker | build plan, apply, verify, rollback | the file system |
| **pr-review-council** (`packages/pr-review-council`) | published report, backup, receipt | review, decide; plan/apply/verify/rollback of a publication | the file system |
| **Evaluator packages** (the other `packages/*`) | none | one pure evaluation each | command line |
| Artifacts, adapters, limits, redaction, canonical JSON | none | parse, hash, bound one input | all of the above |
| Command lines, reports, demos, scripts | none | argument parsing, rendering | all of the above |

What makes each of them correct, and what is hard about it:

* **Ledger.** The chain and the promotion table always pass the audit that every
  open performs; a fencing token is spent once; promotion rests on a recorded
  evaluation of the engine; an idempotency key names one entry whatever is
  retried; the anchor never locks the ledger out and exposes a truncated
  database. Hard: the anchor is a second store, updated after the commit; opening
  reads it under the database lock and writes it outside; crashes fall between
  any two steps.
* **Receipts.** What is exported verifies. Hard: the export is not one transaction.
* **Release gate.** No unwaived failure, no unauthenticated, stale or foreign
  evidence in a READY decision for production. Hard: boundaries, waiver
  sets, the order of the tests that pick a reason.
* **Merge gate and transaction.** Only READY artifacts are applied, on the SHA they
  were judged on; rollback restores the exact prior bytes or refuses. Hard: test
  and use are apart, two writers, a crash between receipt and replacement.
* **Workflow.** Ready only if all stages passed on files that did not change. Hard:
  files change while the run goes on.
* **API.** No more than sixteen requests at once, and slots come back.
* **deploy-truth, publisher.** What was live can be restored whole, a publication is done or undone, and
  an approval is earned. Hard: crashes between two moves, a raising access outside of any
  handler, drift between check and use.

## 2. Plan

Everything that keeps state is modelled; this is how the modules hang together.

| Layer | Modules | Composed of |
|---|---|---|
| Decision ledger | `LedgerBringUp`, `LedgerBringUpProofs`; `LedgerChain`, `Ledger`, `LedgerProofs`; `Promotion` (abstract) | `Ledger` EXTENDS `LedgerChain` and instantiates `Promotion` |
| Receipts | `Receipt`, `ReceiptProofs` | EXTENDS `Ledger`: an exporter beside its writers; the proofs EXTEND `Receipt` and `LedgerProofs` |
| Release gate | `DiffRisk`, `ReleaseGate`, `ReleaseSession`, `ReleaseSessionProofs` | each EXTENDS the one before |
| Merge | `MergeGate`, `MergeTransaction`, `MergeTransactionProofs`; `UndoRegister` (abstract) | `MergeTransaction` EXTENDS `MergeGate` and instantiates `UndoRegister` |
| Workflow | `ProducerBundle`, `Workflow`, `WorkflowProofs` | `Workflow` EXTENDS `MergeTransaction` and `ProducerBundle` |
| deploy-truth | `DeployTruth`, `DeployTransaction`, `DeployTransactionProofs` | the second EXTENDS the first |
| pr-review-council | `Council`, `Publisher`, `PublisherProofs` | each EXTENDS the one before |

Every run has a module `MC...` with its instance. The proof modules EXTEND the module they
are about. Every safety property and every action property that a passing run checks is
also a theorem (section 5); liveness is left to TLC.

## 3. What is modelled

### The ledger

**`LedgerChain.tla`** is the data. A row of `ledger_entries` is a record; its sequence
number is its position. SHA-256 is taken as collision free: a digest is what it was
computed from, so the hash of an entry is the sequence of all bodies up to it and a
changed or replaced entry shows in every later hash. A request is its key, type,
context and payload; equal request digests are equal requests, and the digest of
an evaluation leaves the decision out (`context_idempotent`). A payload is
reduced to the candidate, the decision and the fencing token, which is all the ledger
ever looks at. `VerifyOK` is `verify()`: the walk along the chain, the
assessment envelopes, the replay of the transitions into `promotion_state`, the
anchor. SQLite's own integrity checks and the column types are left out, since
nothing in the model stores a malformed row.

**`Ledger.tla`** is the processes.

| Variable | Code |
|---|---|
| `rows`, `promo` | the two tables |
| `anchor` | `<ledger>.anchor`, `NoAnchor` if absent |
| `dbLock` | the holder of a `BEGIN IMMEDIATE` that lasts several steps |
| `initLock` | the `flock` of `_initialization_lock` |
| `pc`, `call`, `receipt`, `tail` | where a process is in its call, and its local variables |
| `acknowledged` | history: the newest receipt a call returned |
| `backup`, `restores` | a copy of the database file made from outside |

| Actions | Code |
|---|---|
| `OpenLock`, `RecoverRefuse`, `RecoverCurrent`, `RecoverBehind` | `__init__`, `recover_anchor` |
| `AppendEntry`, `AppendDecision`, `EvaluateAndRecord` | `append`, `append_decision`, `evaluate_and_record` through `_append` |
| `PlanPromotion`, `AdvancePromotion`, `RollbackRead`, `RollbackPromotion`, `RollbackRefused` | the promotion operations through `_transition` |
| `SyncBegin`, `UpdateSkip`, `UpdateNeeded`, `UpdateWrite` | `_sync_anchor_to_tail`, `_update_anchor` |
| `Return` | the receipt and the decision handed back |
| `Fail`, `Crash` | a step raises; a process dies |
| `Backup`, `Restore` | the database file copied and put back |

Grain of atomicity. The first transaction of a writing call is one action: the
write lock keeps every other writer and every `verify()` out, and the anchor file is
read once in it. The second one is three actions, because the opener of a ledger
reads and replaces the anchor without the database lock. A refused call
changes nothing and is the absence of a step, except where it gives up a lock or a
half-done call. Payload limits, redaction and digest syntax only refuse calls and are
left out.

`SerialOpen` restricts openings to times when nobody else uses the ledger. `Restore`
happens between calls.

**`Promotion.tla`** is what the ledger promises about promotions, with no storage,
process or key in it. `Ledger` maps itself to it (`Promise`): `recorded` is the set
of decisions in evaluation entries, the rest is the promotion table.

**`LedgerBringUp.tla`** is how a ledger comes into being, up to where `Ledger.tla` starts. A
constructor is a chain of steps: `Open` and `LookForLock` (the size and the lock file
decide whether the file is checked before the lock), `EarlyPreflight`, `MakeLockFile`,
`TakeLock`, `CreateFile`, `Preflight`, `LookAtSide` and `InspectSide` (`exists()` and `lstat()`
of `-wal` and `-shm`), `Attach`, `Execute` (one statement of the script; each commits by
itself), `ScriptDone`, `Work` (`verify()`), `MakeAnchor`. `side` is whether SQLite's side
files are there: a connection makes them and the last read-write connection to be
closed removes them, while the read-only connection of a preflight leaves them.
Three consequences are worth knowing. A crash between the first page and the last
statement leaves a file that every later constructor refuses, until somebody removes
it. A constructor or a call may raise `FileNotFoundError` because another process's
last connection went away between the two looks; nothing is lost and the lock is
given back. And a lock file that is lying about sends a foreign database to the
check under the lock, which refuses it just the same.

### Receipts

**`Receipt.tla`** adds an exporter to the ledger: `ExportVerify`, `ExportEntry` and
`ExportChain` are the three transactions of `export_receipt`, with the ledger's own
actions between them. `Consistent` and `EntryBound` are `verify_receipt`,
`Explained` is `explain_receipt`. An export accepts a ledger whose anchor is behind, so a
receipt that is exported between another process's commit and its anchor (or
after a crash and before the next open) is one that `verify_receipt` itself calls
inconsistent; `OnlyTheAnchorMayLag` shows that nothing else can be wrong with it.
`verify_receipt` fills in the outcome of an inconsistent receipt as well; only
`explain_receipt` withholds it, so the property about truth is stated of that.

### The release gate

**`DiffRisk.tla`** is the score of `risk.py`. **`ReleaseGate.tla`** is `evaluate()`: fifteen gates,
each a chain of early returns of which `Verdict` takes the first row that applies, the
waivers and the outcome. A MAC names the key that made it.
**`ReleaseSession.tla`** surrounds it: evidence is collected (`Collect`), waivers are granted
(`Grant`), time passes (`Tick`), a decision is made (`Decide`).

What the code does and a reader might not expect: two policy mismatches raise a
`ValidationError` instead of failing a gate (`engine.py:139-147`, `models.py:613-615`); ids
of waivers are unique only because the command line refuses duplicates (`cli.py:57`); a
waiver of the first finding of a gate also hides the later ones of its chain; and the
changelog is compared with the version of whichever artifact comes first (`engine.py:389`).
That matters once artifacts of different versions get past the gate: by a waiver of
`ARTIFACT_VERSION_MISMATCH`, or by one of `ARTIFACT_SET_MISMATCH`, which the gate finds first
(`engine.py:303-312`), so that the versions are never looked at. `OrderIndependent` leaves out
these two waivers and nothing else; a policy that expects one artifact of two
(`NarrowPolicy`) and a waiver for it are in the run to reach the second case.

### The merge gate and its transaction

**`MergeGate.tla`** is `contract.py` and `gate.py`: what a snapshot and a policy may be, the
checks, the decision, and whether a stored artifact is one. **`MergeTransaction.tla`** is
`transaction.py` with one file access a step: `StartApply`, `CheckApplicable`, `ReadBefore`,
`CreateReceipt`, `WriteReceipt`, `ReplaceState`, `VerifyApplied`, `RestoreAfterFailure`;
`StartRollback`, `InspectDivergence`, `UndoState`, `RecheckRestored`; `Crash` anywhere and
`EditState` by others. The module takes no lock and says so; `exclusive`, chosen in the
initial state, is whether its callers do. Contents are a SHA and what tells the bytes
apart. **`UndoRegister.tla`** is the promise to callers that take turns: a compared and
swapped register with a log whose entries undo their own swap.

### The workflow

**`ProducerBundle.tla`** is `producer_receipts.py` file by file. **`Workflow.tla`** is `run_workflow`:
`Begin`, `MakeOutput`, `ReadProducer`, `ReadArtifact`, `ReadReport`, `AskGates`, `CopyState`, `DryRun`,
`RehearseApply`, `RehearseVerify`, `RehearseRollback` (the steps of `MergeTransaction` on the drill
copy), `Compare`, `RecheckState`, `RecheckArtifacts`, `RecheckReports`, `RecheckProducer`,
`RecheckTime`, `Finish`. `EditInput`, `EditDrill`, `SetClock` and `Die` are the world. The
release decision is a function `Judge` of the request and the time. The write of the receipt is
outside the `try` of `run_workflow` and may raise (`workflow.py:200`): such a run ends
"unwritten", with no receipt and no answer.

The rechecks see neither a file that was changed and changed back nor a change
behind them, so "a source file changed during the run blocks completion"
(`docs/INTEGRATED-WORKFLOW.md`) is to be read as `ReadyIsOneState` puts it. And because a rollback
that finds the prior bytes is a success, the drill also passes when another program
has put them back; `WorkflowAssumption` leaves that program out.

### deploy-truth

**`DeployTruth.tla`** has captures, the comparison of layers, the decision and the plan.
**`DeployTransaction.tla`** has `BuildPlan`; `StartApply`, `CheckPreconditions`, `MakeTransactionDir`,
`CopySnapshot`, `PerformOperation`, `CheckPostcondition`, `MarkApplied`; the restore `ClearLive`,
`CopyBack`, `MarkAutoRolledBack`; `StartRollback`, `MarkRolledBack`; `RestoreRaises` (an access
raises, or the next file of a snapshot is a symbolic link, which is not copied), `Crash`, and
`Change` by others. `evidence` is the directory below the rollback root: the snapshot and
`state.json`. A rollback does not compare live with what was applied; and a capture
that is blocked has the hash of an empty one (`transactions.py:379`), so the rollback of a
first deployment may call a blocked directory restored. Precondition, snapshot and operations
are steps of their own, so others may change live between them; what they change after the
apply, a rollback wipes out.

### pr-review-council

**`Council.tla`** has the four bundled reviewers on the features of added lines, failures
and the decision. **`Publisher.tla`** has `StartPublish`, `CheckPlan`, `MoveAway`, `Place`, `Recover`,
`VerifyServed`, `RollbackUnverified`, `WriteReceipt`; `StartRollback`, `InspectServed`, `Restore`,
`RecheckRestored`; `Crash`, `Edit`. Any access may raise (`Raises`), inside a
`try` statement of the code or outside. `AllOrNothing` and `PriorContentsKept` are stated for
operators that take turns, since nothing in the code keeps others apart (see the end of
section 4).

Three limits of the code are limits of these properties. The read of the new output
(`publisher.py:132`) has no handler around it, neither there nor in the command: when it
raises, the report stays served, without a receipt, and what was there before is in the
backup. `AllOrNothing` says exactly that of this access, and of every other one that the output and
the backup are as they were found. A reviewer is not shown an added line whose own text begins with `++`:
with the mark in front of it it reads like the `+++` line of a file header
(`reviewers.py:30`), so both are lines with the mark `+++` in `Council`, and
`PublishedApprovalIsEarned` says nothing of them. And publishing A, then B, then A again is
refused as long as the backup of A is there. The printing of the answer after the receipt
is written is left out.

## 4. Runs

| Run | Instance | Shows |
|---|---|---|
| `ledger_promotion` | 2 processes, 1 candidate, 1 decision, 5 keys and entries, openings at any time, no failures | `TypeOK`; `AuditClean`: `verify()` passes in every state; `OneWinnerPerToken`; `PromotionPromise`: every step is one of `Promotion` or leaves it alone |
| `ledger_answers` | 2 processes, 3 decisions (ready, not ready, foreign), 3 keys and entries, crashes and raising steps anywhere | `AnchorHistorical`: nobody is locked out; `AnswerIsTheEntry`: retries return the one entry; `PromotedOnRecordedDecision` |
| `ledger_truncation` | 2 processes, 2 keys and entries, crashes, serial openings, 1 restored copy, weak fairness | `NoUndetectedTruncation`; `LocksReleased` |
| `ledger_anchor_race` | 2 processes, 2 entries, openings at any time, no failure at all | finds a violation of `BehindOnlyAfterCrash`, see below |
| `ledger_bring_up` | 3 processes, 6 statements of which 3 make the tables, nothing, an empty file, a foreign one or a ledger at the path, with or without a lock file; 4 constructors, 1 call, 1 crash; weak fairness | `OpenedIsWhole`; `CreatorsAgree`; `HalfMadeIsRefused`; `EveryOpenReturns` |
| `receipt` | 1 writer and 1 exporter, 2 decisions, 3 entries of which 2 fit into a receipt, failures, crashes, 1 restored copy, serial openings | `AcceptedReceiptsStayTrue`; `OnlyTheAnchorMayLag` |
| `release_session` | complete evidence (15 observations) or evidence that differs in one or two; 4 observations that may arrive, 9 waivers, a policy for both artifacts and one for one of them, a clock over every window | `ReadyIsBound`; `ReadyIsFresh`; `WaiversOnlyExcuse`; `OrderIndependent`; `RerunNeverErases` |
| `merge_transaction` | 2 processes, 4 artifacts (two ready ones that undo each other, one degraded, one blocked), 3 receipt paths, 1 crash, 1 edit, with and without an external lock | `UndoChain`; `OnlyReadyIsApplied`; `ReceiptsKept`; `TurnsMakeARegister` |
| `workflow` | 2 runs given one output directory, 4 requests, 5 input files, at most 2 disturbances of 4 kinds; weak fairness | `ReadyIsOneState`; `ReadyIsRehearsed`; `OneVerdictPerDirectory`; `EveryRunLeavesAVerdict` |
| `deploy_transaction` | 2 operators, a release of 2 files over another, 2 plans, 1 crash, 1 raising access, 1 change by others, of files or to a link | `NothingLost`: what live held while others keep off can be restored whole; `OneApplierPerPlan`; `AnswersAreTrue` |
| `deploy_retry` | 1 operator, 1 plan, 1 raising access | finds a violation of `FreshPlanIsNotBlocked`, see below |
| `publisher` | 2 operators, 4 pull requests and their reviews (good, with a failing reviewer, with a thinned test, with a leak), 3 publications, 1 crash, 2 raising accesses, 1 edit | `PublishedApprovalIsEarned`; `AllOrNothing`, but for a raising read of the new output; `PriorContentsKept` |

Why the bounds are enough.

* *Ledger.* Five entries hold a whole promotion: evaluation, plan, apply, verify,
  rollback; with fewer a state of the machine is not reached. Three entries hold
  an import or evaluation that ought not to be planned, one that may be and the
  plan. Two suffice for truncation: one that is acknowledged and lost, and one that
  takes its place. Two processes give every race between an opener and a writer and
  between two holders of a token; the code never looks at how many others there are.
  `MaxRows` bounds the chain, `MaxRestores` the restored copies; fencing tokens are drawn
  from `1..MaxRows`, which includes wrong ones. Keys are interchangeable, and so is
  their order of use: `KeysInOrder` explores one order.
* *Bring-up.* Three processes are a creator, one that waits for the lock and one that looks
  before it. The statements after the tables are what makes a file with all tables not
  yet a ledger. The theorems of section 5 drop these bounds.
* *Receipts.* The properties are about each receipt by itself, so `MaxReceipts` is 1.
  `MaxChainEntries` is 500 in the code; 2 of 3 entries is the same case. Evaluations come to the same
  decision until a copy is put back and to either of two afterwards (`OtherAfterRestore`), so that
  the chain may go on differently. Openings are serial
  because of the first disagreement below.
* *Release gate.* A finding depends on one observation or on two that disagree, hence two
  differences; `FewThings` lets more time, waivers and arrivals meet the less the evidence
  deviates. The window is 2, the skew 1 and the clock runs from 5 to 7, so each time stamp
  is before, on and behind each edge.
* *Merge, deploy, publisher.* A crash and one raising access or edit reach every
  pair of "half done" and "somebody was here". Where operators race, one thing
  more that goes wrong is enough (`OneFaultInRaces`, `FewFaultsInRaces`): the properties
  that are stated of races do not depend on who else is disturbed.
* *Workflow.* `FewDisturbances` allows two changes, clock steps, drill edits or deaths in all: a
  file that changes after it was read and another one before. The second run begins after
  the first, with the same request. More edits would only meet the same reads again.

Symmetry (of processes, operators, receipt paths) is used in runs without liveness only.
The constraints are state predicates. In `workflow`, the one run with both a
constraint and liveness, the liveness is that of behaviours with at most two disturbances.
Deadlock is not checked where a system may come to rest with its bounds used up.

Fairness. `FairSpec` of the ledger is weakly fair to a process that has begun an open or
a call: its steps are local, and what it waits for, SQLite's lock, times out after five
seconds and raises (`Fail`). `FairSpec` of the bring-up is weakly fair to a constructor
that has begun: `flock` is released by the system when its holder dies. (A waiter is served:
there are finitely many constructors, so the lock does not pass by it for ever.)
`WorkflowSpec` is weakly fair to a run that has begun: it is one thread that waits for
nobody. Nothing makes anybody begin, crash, edit or restore.

Every property is broken by at least one plausible error in the code: a fencing
token that is not compared, an anchor written with the caller's own sequence, a receipt
opened without `O_EXCL`, a recheck left out, a backup overwritten, a waiver that is not
bound to its finding. These are the definitions with an underscore beside the ones they
would replace.

### Disagreements between code and documents

**The anchor.** `ledger.py:814-815` says that "a valid anchor behind the database tail is the sole
recoverable crash state". `recover_anchor` (`ledger.py:847-859`) takes the tail from
`verify()`, whose transaction is over by then, and calls `_update_anchor` without the
database lock. Its read and its replacement of the anchor are apart. If another
process appends and syncs between the two, the older tail replaces the newer one:
the anchor is behind with every process idle and none having crashed or failed
(run `ledger_anchor_race`). The next call or open brings it forward, and
`AnchorStaysHistorical` proves that it can; but until then the entries after it
are not covered by the anchor, and a database truncated to it passes `verify()`.
`NoUndetectedTruncation` therefore holds for serial openings only.

**The retry of a plan.** `docs/RUNBOOK.md:13` of deploy-truth says of a blocked transaction:
"Investigate the outputs and create a new dry-run after correcting the cause". The id of a
plan is a hash of the contents it was made from. When the cause of a failure lies
outside both directories (a full disk, a permission), the restore brings back the
very contents, the new dry-run has the old id, and `apply_plan` refuses it, since the
evidence of the first attempt says `auto_rolled_back` (`transactions.py:274`; run `deploy_retry`). It
stays refused until a file changes or somebody removes the evidence.

### What the code does not keep apart

Three more statements of the documents hold less widely than they read. The models have these
behaviours; the properties say where they stop.

* *The late change.* "A plan is invalidated automatically if either bundle or live bytes change"
  (`docs/RUNBOOK.md:9` of deploy-truth). `apply_plan` compares live with the plan
  (`transactions.py:289`) and then copies live into the snapshot (`transactions.py:295`). A
  file that changes in between does not stop the plan; its snapshot is not what the
  plan was made from, so a rollback restores that and then calls itself blocked. `NothingLost` and
  `AnswersAreTrue` are therefore said of others who keep off during a transaction.
* *The gap in a publication.* "Publication is atomic within one filesystem" (`docs/SAFETY.md:9` of
  pr-review-council). Each rename is, but between that of the old report (`publisher.py:120`) and
  that of the new one (`publisher.py:127`) nothing is served; a crash there leaves it so, with the
  old report in the backup. `PriorContentsKept` asks for the backup only.
* *The backup in a race.* "Existing backups are never overwritten" (`docs/SAFETY.md:11`). `apply` tests that
  there is no backup (`publisher.py:114`) and later renames the output onto it
  (`publisher.py:120`), which overwrites. Of two operators that publish one report at once
  both pass the test; the first one moves the old report into the backup and serves the new
  one, and the second one moves the new one over the backup. `AllOrNothing` and `PriorContentsKept`
  are therefore said of operators that take turns.

## 5. Proofs

Eight modules hold proofs; each speaks of every number of processes and of every value
of the constants that its named assumptions allow. Each follows one pattern: an inductive
invariant, a conjunction of named parts; a lemma for each part with a step for each
action; the theorem `Spec => []` of it; and the properties as consequences of it.

**`LedgerProofs`** (assumes `DecisionAssumption` and `LedgerAssumption`, the shapes of the constants):

* `TypeCorrect`: `Spec => []TypeOK`.
* `AnchorStaysHistorical`: `Spec => []AnchorHistorical`: unless the file was replaced
  from outside, the anchor is a state of the chain's own history (or absent, with an
  empty chain), so `_assert_anchor_matches_tail` refuses no call.

`AnchorHistorical` is not inductive: a process that carries a tail to the anchor could
carry anything. `StageInv` says what a process holds where: a receipt only between
its two transactions, a pending rollback only in a rollback request. `AnchorInv` says
that the anchor *and every tail that a process is about to write* match the
chain. The chain only grows (`MatchesAppend`), tails are taken from it (`TailMatches`),
and an insertion has passed the anchor check, so the anchor exists (`MatchesNotAbsent`).
The lemmas go by groups of actions (`OpenStep`, `UpdateStep`, ...), over frame lemmas for
the processes that do not move (`StageFrame`, `AnchorFrame`).

The rest assumes `ContextAssumption` too (decisions of one context are about one candidate,
whose digest is part of the context) and is what the ledger promises its callers:

* `TokensFence`: `Spec => []OneWinnerPerToken`.
* `PromotionsAreEarned`: `Spec => []PromotedOnRecordedDecision`.
* `AuditStaysClean`: `Spec => []AuditClean`, for a chain of any length.
* `PromotionsAreKept`: `MaxRestores = 0 => (Spec => PromotionPromise)`: the ledger implements
  `Promotion.tla` as long as no old copy of the database is put back. With such a copy
  promotions are undone, and the ledger is not to blame.
* `AnswersAreRecorded`: `Spec => []AnswerIsTheEntry`.
* `TruncationShows`: `SerialOpen => (Spec => []NoUndetectedTruncation)`. `ledger_anchor_race` is why
  the hypothesis is needed.

Every step that changes the tables is an `Insertion` of one of four kinds, or puts the copy
back (`TableSteps`). `TablesInv` says of the tables and of the copy that keys are unique, evaluations
are about their own decision, spent tokens are different and below the one that is next, a
plan has a recorded evaluation before it (`TablesOK`), and that the audit passes (`AuditOK`).
The audit replays the chain by a recursive function. That needs an induction, and no
operator can be instantiated here: instead `AuditOK` says that there is one
function from the prefixes of the chain to tables that is the replay, and an insertion
extends it. `LockInv` says
which lock is held by whoever writes the anchor, `AnswerInv` that the row a call has found or
inserted answers its request. `TruncationInv` says that what was acknowledged is a prefix of
what the anchor stands for, that whoever is about to write the anchor writes the tail of the
chain as it is, over an anchor of this chain, and that an opener is alone.

**`ReceiptProofs`** (assumes what `LedgerProofs` does, and serial openings):

* `ReceiptsFit`: `SerialOpen => (ReceiptSpec => []OnlyTheAnchorMayLag)`.
* `AcceptedStaysTrue`: `SerialOpen => (ReceiptSpec => []AcceptedReceiptsStayTrue)`.

A step of an export is a stutter of the ledger (`StepsOfTheLedger`), so the invariants of the
ledger hold beside it (`LedgerHolds`). The three transactions of an export meet three states
of it. `PlacedInv` is what is left of each of them later: an anchor that an export or a receipt
has read is no further than the anchor file (`Witnessed`) and, as soon as the chain has the
length it speaks of, an anchor of this chain (`Placed`); and the copy of the database is a
beginning of the chain, so putting it back takes nothing out of place. Nobody can write rows
under an anchor that is not of their chain, which is why `Placed` survives an insertion:
`TruncationInv` is needed for it, and with it the hypothesis `SerialOpen`. Of two clean chains with the
same hash at a place one is the other up to there (`HashDetermines`), so what a receipt
carries is what the ledger has.

**`LedgerBringUpProofs`** (assumes `BringUpAssumption`: the bounds are natural numbers, and some statement
comes after the tables):

* `LedgersAreWhole`: `Spec => []OpenedIsWhole`.
* `CreatorsNeverClash`: `Spec => []CreatorsAgree`.
* `TornStaysRefused`: `Spec => []HalfMadeIsRefused`.

`LockInv` makes the initialization lock a mutex: exactly its holder is past `TakeLock` and not
yet out. `StageInv` is what the holder has found or made so far: a script has executed no
more than took effect, an anchor is made only beside a whole schema. `ForeignInv` and
`TornInv` say that nobody is past the checks of a foreign or torn file. `CalmInv` is needed
for `CreatorsAgree`: while nothing crashes and nobody uses the ledger, an unfinished
schema has a creator in its script, so whoever passes or takes the lock sees it whole;
and without a lock file there was no creator.

**`MergeTransactionProofs`** (assumes `TransactionAssumption`: a receipt is neither an absent nor a torn file,
and others' contents are not an artifact's):

* `RecoveryDataStays`: `Spec => []UndoChain`.
* `ReceiptsStay`: `Spec => ReceiptsKept`.
* `AppliedIsReady`: the state file holds what the gate judged ready, or others' contents.
* `AppliedPassedTheGate`: `Spec => []OnlyReadyIsApplied`: what was judged ready is within every limit
  of its policy, has its checks and keeps its rollback.
* `TurnsImplementRegister`: `Spec => TurnsMakeARegister`, the refinement of `UndoRegister`, step by
  step: the mapping takes the state file as the register and the complete receipts as its log.

`UndoChain` becomes inductive when it is said of every process that what its receipt in memory
would restore has a way back too (`UndoInv`), and that beyond `WriteReceipt` this
receipt is one of the files (`OnDisk`). That rests on `WriterInv`: a receipt path that is being
written has one writer. `AppliedIsReady` (`ReadyInv`) follows contents from the check into the
receipt and from there into the file. `OnlyReadyIsApplied` adds what a READY decision means.
The gate counts the lines of the changes as they are listed, the property those of the set of
changes; both are folds that pick by CHOOSE. `SumExists` and `SumTakesAny` show, by induction over
finite subsets, that a sum does not depend on what is picked, and `SumOfSequence` that the two
agree when no change is listed twice.
The refinement needs two more facts of callers that take turns: whoever is in a
call holds the lock (`SoloInv`), so that nobody else and no edit comes between its steps, and
what it has checked or written is therefore still in the state file when it acts on it
(`TurnInv`). Then writing a receipt is `Intend`, replacing the file is `Swap`, both ways of
putting the old contents back are `Undo`, and every other step stutters; without a lock the
property says nothing, and steps that are no step of the register do occur.

**`WorkflowProofs`** (assumes `WorkflowAssumption`: requests name files that there are, an input is
neither an artifact nor, copied, what other programs put in the place of the drill copy, and
`Judge` has an answer):

* `DirectoryIsOwned`: `WorkflowSpec => []OneVerdictPerDirectory`.
* `RehearsalIsReal`: `WorkflowSpec => []ReadyIsRehearsed`.
* `InputsAreOneState`: `WorkflowSpec => []ReadyIsOneState`.

`WorkflowInv` has a part for each. `DirectoryInv`: the run that made the directory is the only one
beyond that step, and only it leaves a verdict. `DrillInv`: where a run stands in its drill says
what the drill copy and the rollback receipt hold; others may write to the copy, so it is
what they wrote or what the drill put there. `InputsInv`: each file holds something out of its
past, what a run has read of a file was in it once and passed its checks, and from the
gates on what was read is what the files held at that instant, unless a content came back.
Reading a bundle walks along sequences; `SetOfNumbers` is the induction for it, said of a set
of numbers in place of a property and proved from the well-foundedness of finite subsets.

**`ReleaseSessionProofs`** (assumes `PathAssumption`, `GateAssumption` and `SessionAssumption`: policies and
evidence pass their own validation, time stamps and counts are numbers, waivers have ids):

* `ReadyReleasesAreBound`: `Spec => []ReadyIsBound`.
* `ReadyReleasesAreFresh`: `Spec => []ReadyIsFresh`.
* `ExcusesAreNamed`: `Spec => []WaiversOnlyExcuse`.
* `RerunsEraseNothing`: `Spec => RerunNeverErases`.
* `OrderDecidesNothing`: `Spec => []OrderIndependent`, a consequence of `OrderDecidesNoOutcome`, which says
  it of any order and not only of the reverse.

`SessionInv` says that the inputs are of their kinds and a decision is the one that they lead
to, so the rest is about what the engine computes. The results of a gate are rows, of which
`VerdictIsARow` finds the first that applies: a gate that passes, or whose finding is
waived, has none of its earlier rows applying. `ReadyMeans`: in a READY decision each gate
passes or is named by a valid waiver of a waivable code. `ReadyIsBound` follows since the codes
of a broken binding cannot be waived; where a waivable row comes before one of them
(a missing rebuild, a version that disagrees), that row says that there is nothing to be
bound or is excluded by the property. `RerunNeverErases` rests on `AppendBlocks` and `FailuresStay`:
one more observation adds one more attempt, a failed run stays failed, and with the same runs
the rate cannot fall.

Two lists are each other's order when a bijection of positions takes one to the other
(`Shuffled`). What a gate picks from one it picks from the other (`SelectedBy`), so row by row the
same applies (`SameRow`) and the results differ at most in the order of what they list
(`SameResult`); there is such a lemma for each of the fifteen gates. Three of them need more. The
latest attempt is the same only because two attempts of one number are refused (`SameCIMatrix`).
The map of the artifacts is the same when no name is there twice (`SameMap`), and the
changelog meets the same version when the versions agree (`SameChangelog`). When the artifacts do
not agree, the map and the changelog do depend on the order: then the artifact gate fails in
either order (`DisagreementIsFound`), and with a finding that no waiver left in the property
excuses (`UnexcusedBlocks`). The waivers are applied alike (`WaivedAlike`), and a decision is refused
only over a gate that lists an observation twice (`ValidApplied`), which no order changes.

**`PublisherProofs`** (assumes `PublisherAssumption` and `CouncilAssumption`):

* `ContentsStay`: `Spec => PriorContentsKept`.
* `PublicationsAreWhole`: `Spec => AllOrNothing`, with the raising read of `publisher.py:132` as the
  exception that the property names.
* `ApprovalsAreEarned`: `DefaultCouncil => (Spec => []PublishedApprovalIsEarned)`. Without the hypothesis it is
  false: a council that leaves out a reviewer, or for which "critical" does not block, approves
  what the property excludes. Lines whose text begins with `++` are outside of it (section 3).

`IInv` adds to the types and names that operators who take turns are in their commands one
at a time (`Turns`), and what the output and the backup hold at each stage (`StageInv`): the
backup is what was served before, or was not made because nothing was; and whoever is
in a recovery has an access that raised to thank for it.

`ApprovalsAreEarned` rests on the review alone: whatever report is in the output directory is that of
some snapshot. The lines of a patch are read by a fold that carries the line number along;
that every line marked as added is looked at by the enabled reviewers, whatever comes before it in the patch, is an
induction over the prefixes of the patch, said of the set of lengths for which it holds.

**`DeployTransactionProofs`** (assumes `DeployAssumption`, the shapes of the constants):

* `PlansAreExclusive`: `Spec => []OneApplierPerPlan`, also when others change both
  directories meanwhile.
* `TransactionsLoseNothing`: `Spec => []NothingLost`.
* `AnswersHoldTrue`: `Spec => AnswersAreTrue` for a release whose components are all ready, as those
  of the run are. An
  unready one can be deployed, and the comparison does not call that verified.

`StatusInv` ties an operator to the evidence of its plan: while it applies the plan, the
directory is there and its status is not written yet; while it rolls back, it is. So a
rollback never meets an apply, and `Alone` says that of two applies only one can have
passed `mkdir(exist_ok=False)`.

The other two rest on `ExclusiveInv`, what holds while everybody keeps off: one operator is at
work (`SoloInv`); up to its marker the bundle is the planned one, up to its snapshot live is
what the plan was made from, and what it has copied back and has left to copy is all of
that (`StageInv`); and every snapshot is what its plan was made from (`EvidenceInv`). A
rollback clears away whatever it finds in live, so one that is cut short leaves a part of a
whole that others may have put there: that is why `NothingLost` allows for it, beside a
transaction underway, of which each file is as before or after it.

Model-checked only: `LocksReleased`, `EveryOpenReturns` and `EveryRunLeavesAVerdict`, which are liveness
under fairness and out of the prover's reach; and the two disagreements of section 4, which are
counterexamples.

## 6. Not modelled

* The loopback API: its handlers only read. A request slot that is taken by
  `process_request` and whose thread cannot be started is not given back (`api.py:35`);
  nothing else in the server has a state.
* The evaluator packages (the other `packages/*`): one evaluation of one input
  each, without state.
* Parsing, hashing, redaction and limits of single inputs (`artifacts.py`, `adapters.py`,
  `limits.py`, ...): sequential, and tests reach them. A refusal of an input is there where another
  step depends on it.
* Command lines, reports, dashboards, demonstrations, migration scripts and
  continuous-integration files.
* Within the modelled parts: listings and summaries of the ledger, which change nothing;
  file modes, symbolic links and owner checks; SQLite's journal, trusted to be atomic
  and durable; Windows locking; short writes (`transaction.py:55` does not look at the
  count of `os.write`; a receipt is torn by a crash only); temporary files that a
  crash leaves beside the artifacts of deploy-truth and of the publisher.
