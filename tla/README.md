# A TLA+ model of ntsql's transactional storage

ntsql is a storage engine in Rust whose core is a write-ahead log (WAL), a page
store, restart checkpoints and the recovery that brings them back together
after a crash. This directory models that core, checks it with TLC on small
instances and proves what matters most with TLAPS for all of them. Line numbers
refer to the repository; `PROJECT.json` maps every definition to its lines.

## The system

| Part | State | Operations | What must hold |
| --- | --- | --- | --- |
| **Recovery model** `ntsql-recovery-model` | WAL records and flush frontier, allocators, transaction tables, page store, checkpoint slot, WAL generation header, completion evidence, two file-replacement candidates, locks, phase | live operations, checkpoint publication, stepwise replacement of both files, crash, reopen, select, plan, repair, restore, complete, retention analysis, reclamation | no image in the store without its durable committed record; recovery from any crash; no epoch used twice; reclamation loses nothing recovery needs |
| **Transaction coordination** `ntsql-transaction`, `ntsql-wal` | lifecycles, staged pages, tokens held by callers | open, begin, stage, commit, resolve, flush staged page | the lifecycle agrees with the log; outcomes are decided once |
| **Pages** `ntsql-page` | dirty page tokens | stage, flush, reconcile | write-ahead, no steal |
| **Committed page recovery** `ntsql-transaction` 932-3854 | ownership of an unrecovered log and store | inventory, candidate derivation, compare and replace per page | the store shows the latest committed image |
| **Memory adapter** `ntsql-storage-memory` | records, durable length, allocators, one armed fault | append, flush, restart, lookup, page writes | as the contracts of the crates above |
| **Restart pipeline** `ntsql-transaction` 3815-25450 | a typestate chain of owners over analysis, checkpoint selection, replay plan, repair, restoration, completion, retention, reclamation | consuming transitions with retry and failure owners | what the recovery model promises, by adapters that may fail in between |
| **File adapter** `ntsql-storage-file` | frames in files, poison flags, generation headers, checkpoint slots | append, sync, marker, open with truncation, reclamation by rename, slot publication | a crash between any two system calls leaves a state that opens |
| **Database lifecycle** `ntsql-database`, `database_ownership.rs` | manifest generation and lifecycle, five locks | create, open, recover, prepare close, close, abandon | a clean manifest certifies what the files hold; generations never repeat |
| Codecs, contract and governance, diagnostics, test kit | none of their own | encode, decode, validate | not part of the concurrent or recoverable state |

The coordinator calls the log (append, flush) and hands tokens to its callers;
callers present tokens to the page flush, which calls log and store in that
order; recovery owns both until it succeeds. The restart pipeline does the same
with checkpoints, and the database lifecycle wraps the pipeline in file locks
and a manifest. `ntsql-recovery-model` is the repository's own executable
reference for the pipeline and its crash behaviour (ADR 0061).

Nothing here runs on several threads, and processes meet only at the owner
file and its lock. The hard behaviours are the *orders* in
which legal calls may come: a crash between any two of them, tokens used long
after they were handed out, operations that took effect and reported failure,
two file replacements in progress at once, an analysis used after the state it
analysed has moved, and allocators at their last value. `PROJECT.json` lists
these hazards line by line with the properties that cover them.

## Modules

| Module | What it is |
| --- | --- |
| `Extrema` | `Earliest` and `Latest` of a set of positions, 0 for none |
| `RecoveryModel` | the state machine of `ntsql-recovery-model/src/lib.rs` |
| `RecoveryProperties` | its type invariant, safety, action and liveness properties |
| `DurablePages` | abstract specification: durable images are never lost and never shown out of order |
| `RecoveryInvariant` | the inductive strengthening |
| `ExtremaProofs` | lemmas about `Extrema` and finite sets of positions |
| `RecoverySafety` | type correctness, the write-ahead rule, epochs, reclamation, the transaction table, the next open, and the refinement of `DurablePages` |
| `TransactionStorage` | coordinators, logs, stores, dirty pages, committed page recovery |
| `TransactionProperties` | its properties |
| `CommitOutcomes` | abstract specification: the outcome of a transaction is decided once and a verdict is true |
| `TransactionInvariant` | the inductive strengthening |
| `TransactionSafety` | type correctness, safety, discharge and recovery theorems, and the refinement of `CommitOutcomes` |
| `AppendFile` | a file of checksummed frames: what an interrupted write and a power loss leave, how an open repairs its end |
| `LogFile` | the log in such a file: records, page groups, markers, what a scan accepts, replacement |
| `FileLog` | the state machine of `FileCommitLog` in `ntsql-storage-file/src/lib.rs`, with the coordinators that commit and resolve on it |
| `FileLogProperties` | its properties |
| `DurableLog` | abstract specification: a log whose durable records are never lost and never come back once reclaimed |
| `FileLogInvariant` | the inductive strengthening, in two layers: the files and their adapter, and what lasts from one power loss to the next |
| `FileLogSafety` | theorems about it, and the refinement of `DurableLog` |
| `FilePageStore` | the state machine of `FilePageStore` in the same file, with the committed page recovery that owns it after every open |
| `FilePageStoreProperties` | its properties |
| `FilePageStoreInvariant` | the inductive strengthening |
| `FilePageStoreSafety` | theorems about it, and the refinement of `PageImages` |
| `PageImages` | abstract specification: a page shows the image last written, and a failed write is whole or absent |
| `RestartAnalysis` | pure: transaction table, page states, replay start, baseline, derived from a log and a store |
| `RestartReplay` | pure: checks of a loaded baseline, the replay window and plan, a complete or reclaimed log |
| `RestartRepair` | pure: targets of repair, their resolution against the store, restoration and completion evidence |
| `RestartRetention` | pure: retention requirements, the reclamation permit, clean close and clean reopen |
| `RestartPipeline` | the typestate chain of `ntsql-transaction` from unrecovered storage to reclamation and clean close |
| `RestartProperties` | its properties, stated over everything that was ever durable |
| `RestartInvariant` | the inductive strengthening, in two layers: what restarts lead to, and why their evidence is accepted |
| `RestartSafety` | theorems from the first layer |
| `RestartEvidence` | theorems from the second: when the evidence of a restart, a clean close or a clean reopen is accepted |
| `CheckpointSlot` | a slot directory: candidate, rename, directory sync, what a power loss leaves |
| `DatabaseFiles` | creation, opening, recovery and close of a database by several processes, effect by effect |
| `DatabaseFilesProperties` | its properties |
| `DatabaseFilesInvariant` | the inductive strengthening |
| `DatabaseFilesSafety` | theorems about it, and the refinement of `DatabaseLifecycle` |
| `DatabaseLifecycle` | abstract specification, from the typestate of `ntsql-database`: no manifest is acted on that may be taken back, a failed close says what is so |
| `MCRecoveryModel`, `MCTransactionStorage`, `MCFileLog`, `MCFilePageStore`, `MCRestartPipeline`, `MCDatabaseFiles` | instances for TLC |

Three layers meet at shared abstractions. `RecoveryModel` is the repository's
own reference of what `RestartPipeline` does in the product code; both speak
of durable records by position, and so do `TransactionStorage` (commit outcomes
and pages over the adapters' contract) and the adapters themselves (`FileLog`,
`FilePageStore`, on `AppendFile`). `DatabaseFiles` sees children as files with
bytes and a frontier, and `CheckpointSlot` inside one of them.

### Recovery model: correspondence

Each `&mut self` method of `RecoveryModel` is an action of the same name in
camel case; its guard is the conjunction of the checks that return an error,
and an operation that returns an error is no step, since each of them checks
before it assigns. `Some`/`None` of positions and epochs are positive numbers
and 0. What is abstracted:

- page values and versions: an image is identified with the position of the
  record that wrote it. Positions are never reused (`WalBelowNext`);
- `wal_records`, always in position order, is a function from positions;
- `log_id` has one value, since every record is created by the model itself; the lineage number counts reopens;
- checks of record shapes that the model's own operations cannot violate are
  conjuncts only where they can fail (`SelectedValidOnOpen`,
  `CompletePrefixCheckpoint`, `AnalyzeRetention`);
- `restoration_summary` repeats `active`, `persisted` and `committed`;
- `Reclaim` is the one-call form, `BeginWalCandidate`/`AdvanceWalCandidate`
  the ten-stage form; both install `ReplacementHeader` and `Retained`;
- `repair_pages_applied_fault` has the effect of `repair_pages`, and
  `repair_pages_fault` has none.

Damage found at open (`set_selected_entries_for_open` and its siblings) is a
choice of `Crash`ed states, limited by `SelectedEntries` and `CandidateEntries`.

### Transaction storage: correspondence

A call that is rejected changes nothing and is no step. A call that an adapter
fault interrupts is a step with a `Fault` conjunct: the effect with a failure
report, or the failure without effect, at most `MaxFaults` times. Commit is one
step because `&mut` holds coordinator and log for the whole call, with an
outcome for each fault inside `commit_durability`. Several lineages exist, and
their numbers coincide on purpose. Dirty pages and committed tokens stay with
the caller across `Restart`, as Rust values do. A recovery is a sequence of
steps, one per page, because a failure leaves the rest undone
(`UnrecoveredTransactionPageStorage::recover` returns the owner for a retry);
nobody else has the log and the store meanwhile. The persistent `reopen` and
the ephemeral `restart` of the memory log differ only in how a lineage
capability is rebuilt, and are one action. A raw page in the store makes
recovery refuse the page (`RawBacked`), which the properties say.

### File log: correspondence

`selected` is the file that the path names: its header fields, its frames and
how many of them a `sync_all` has made permanent. `former` are the files the
path may name again, because the directory was not synchronized after a rename.
The fields of `FileCommitLog` are variables of the same names. One call is one
action with the choice of how far it got: a write that fails leaves part of
what it was to write, a failed `sync_all` leaves it written and not permanent,
and both poison the adapter as the code does, except the first sync of
`flush_through`, after which the record is volatile and the writer goes on. A
process that dies inside a call is such a failure followed by `Drop`;
`arm_fault` stops calls at the same places. `PowerLoss` keeps any choice of the
unsynced frames, so that a later frame may survive an earlier one, which then
fails its checksum; the last bytes may be part of a frame. `Open` is
`inspect_internal` and `finish` in one: synchronize, scan (`Accepted`), cut an
incomplete end (`Repaired`), remove a left candidate.

The coordinators of `ntsql-transaction` run on this log. `Commit` is the append
and the flush of `commit_durability` in one call; an error at any byte of it,
also the refusal of a poisoned writer or of the last position, leaves the
transaction `Indeterminate`, and an error of a page append leaves it
`PageAppendIndeterminate`. `Resolve` is `lookup_durable_commit` with its three
answers: durable, absent, or an error while the record is volatile, which is no
step. Tokens outlive the adapter (`Drop`) and are lost with the machine
(`PowerLoss`). `VerdictsStand` compares what callers were told with every file
the path may still name, `AbsentChecksLineage` with what reclamations removed.

Abstracted: bytes of headers and frames, formats V1 to V5 (one with page
support and one header), page numbers and contents, and all transactions of an
epoch but one. A reclamation may keep any suffix of the durable records: which
one the permit names is the retention analysis. What it demands of the
coordinators is `Permitted`: the newest allocated epoch is that of the coordinator
which the restart opened (`ntsql-transaction` 24131-24138), and that coordinator has
begun nothing (23573-23620). Coordinators of earlier restarts may have been kept
(`into_parts`, 8206-8222), their commits unresolved, and a persistent lineage lets
them use the log when it is opened again (`ntsql-wal` 74-82). Projections for
recovery only read.

Assumptions about the system underneath and the callers:

- a `sync_all` that failed leaves its data to be written by the next one, which
  lets `flush_through` be retried after its first sync failed (ADR 0013);
- a rename is permanent once the directory is synchronized and may otherwise be
  reverted. `UnsyncedRenameOpens` says whether the path may be opened while a
  rename is still in doubt. It is FALSE in the passing run: after such a
  failure the next open comes after a power loss or after
  `SyncSharedDirectory`, in which the owner of the database synchronizes the
  directory for its manifest. It is TRUE in `MCFileLogRename`.

### File page store: correspondence

`file` and `owner` are as in `FileLog`; `pages`, `nextSequence` and `poisoned`
are the fields. An image is the position of the log record that carries it. A
snapshot is a group of `GroupFrames` frames and one sync, and any failure after
the first byte poisons the store, so that only a new open goes on. The store is
given to recovery by every open: `CompareAndReplace` walks the pages to their
last committed image (`durable`), and only then is it live. Live callers flush
the images they hold, in any order, also an older one over a newer one:
`write_page` compares nothing, and recovery puts it right at the next open.
`durable` is what the log promises (`FileLog`, `DurableLog`).

`Unreadable` is the exception to `StoreMatchesFile` and `RecoveryInstallsAll`: a
power loss that keeps a later frame of an unsynced group and loses an earlier
one leaves a file that every open refuses, as ADR 0018 specifies for a malformed
frame that is not an incomplete end. Left out is the fault `AfterWrite` of
`arm_fault`, a failure report of a call that succeeded.

### Restart pipeline: correspondence

`phase` is the Rust type that owns log, store and slot; `held` is what the
owner carries along (baseline, plan, repairs, retention result). A transition
consumes its owner: success, refusal of the evidence (`Rejected`,
`PlanningFailed`, `PreparationFailed`, `RestorationFailed`) and an adapter error
(`Fault`, which returns the owner for a retry) are different phases. The
conditions are the operators of the four pure modules, each translated from one
check or derivation of the code, with the difference between a complete log
(`generation = 0`, where everything is derived again) and a reclaimed one (where
the checkpoint anchored in the header is believed and advanced over the suffix).

Abstracted: the anchor is the baseline itself, of which the code keeps a
digest; records become durable at once, since a volatile tail is in
`TransactionStorage` and `FileLog`; lineages and identities agree, because
there is one log. Permits are Rust values without a state of their own, and are
the guards of what they permit. The transaction-only baseline is the completeness
baseline without its pages, and is not repeated. A page that raw images and
transactions share stops complete recovery for good, by design of the code, and
`RestartDecides` says so (`NoRawImage`); `MaxRaw` bounds these images.

`history` keeps every record that was ever durable. The properties compare
store, table, retention and close with it and not with the log, which a
reclamation shortens.

### Database files: correspondence

`where` is the one directory of owner file, children, manifest and clean-close
slot, as running processes see it; `disk` is the set of directories a power
loss may leave, since each create and rename is permanent only after the next
sync of the directory and may be lost independently of others; `content` is the
same for bytes. An action is one effect: creating an entry, writing it,
`sync_all`, rename, directory sync. A process fails (`Stop`, `CloseFails`, the
refusals) or is killed between any two, and another may come with a `create` or
an open of its own. `Phases` is
`CreateNamespaceObservation::phase`. The stages of a process follow the
typestate of `ntsql-database`: bound, recovered, live, close pending, closed.
`AsLifecycle` maps them, with the manifests that the directory and its possible
successors select, to `DatabaseLifecycle`, where the promise of that crate is
stated: a power loss takes any manifest that is not yet under its barrier.

Abstracted: two directory syncs that follow each other in one call without an
effect in between are one; the five locks are the owner lock, which every path
takes first; there is one database, so identities and generations agree; a
committed change is a number. A clean manifest is refused by every open in this
version (`BindRefused`, `database_ownership.rs` 2902-2962), hence a closed
database stays closed. The restart slot is a child that creation publishes; its
later publications are in `RestartPipeline`, without files.

## Runs

| Run | Question | Bounds |
| --- | --- | --- |
| `MCRecoveryCore` | live operations, crashes that drop or keep the unflushed tail, damaged selected files, recovery and reclamation in every order: is the store backed, is the table of transactions right, are epochs fresh, does the next open accept the files, does recovery always come to an end? | 1 page, 3 positions, 2 epochs, 1 sequence, 2 lineages, 2 anchors, 1 reclamation |
| `MCRecoveryReplacement` | both file replacements stage by stage, with everything else in between, a crash at every stage and complete candidates of other attempts found at open: is reclamation anchored in the slot, does the candidate keep what pages need, does all of it implement `DurablePages`? | 1 page, 2 positions, 1 epoch, 1 lineage, 1 anchor, 2 reclamations |
| `MCTransactionStorage` | two coordinators on one or two logs with equal numbers, a raw page, a restart, a fault and recovery anywhere: does a lifecycle agree with the log, do outcomes and committed images stay, are discharged pages in the store, does recovery end with the latest images? | 1 page, 4 positions, 1 fault, raw writes at the first position of one log |
| `MCFileLog` | partial writes, failed syncs, poison, power loss, repair, reclamation anywhere, and commits resolved after any of them: does any later step overturn what a caller was told, does the file open, does memory agree with it, does all of it implement `DurableLog`? | pages of 2 frames, 2 positions, 2 epochs, 1 reclamation |
| `MCFilePageStore` | partial groups, failed syncs, poison, power loss, late flushes of old images, recovery after every open: does it implement `PageImages`, does recovery end at the committed images? | 2 pages, groups of 3 frames, 3 images, 4 snapshots, 2 faults |
| `MCRestartPipeline` | commit, restart, reclaim and close in every order, with an adapter error and a crash anywhere: what do repairs show, what is retained, what does a clean close prove, does a restart decide? | 2 pages, one of them with 1 raw image, 4 positions, 2 epochs, 1 fault, 1 reclamation |
| `MCDatabaseFiles` | two processes that create, open, recover and close, with failures and power losses between any two effects: what may a manifest be found over, what does it certify, do selection and close implement `DatabaseLifecycle`, does creation finish? | 2 processes, 2 changes, 3 faults |
| `MCRecoveryTail`, `MCFileLogRename`, `MCFileLogReclaim`, `MCCleanReopen`, `MCCleanSlotUnsynced` | five statements of the documentation that the code does not keep | the smallest instance that shows it |

Bounds. The runs of the recovery model have one page: what it does to a page
never looks at another one, and the theorems below hold for any number. Three
positions hold a page record, its commit and a later record, which is what
replay start, frontier and floor are compared with; two are enough for a
replacement that keeps or drops one of them. Two epochs give one crash with a
full recovery and a second coordinator. The second reclamation of
`MCRecoveryReplacement` is over a log that starts above position 1, and later ones
differ only in the number. Its candidates found at open are complete ones, since
an incomplete one is removed on the way; that an aliased one is refused is part of
`CrashReopens`. `ImplementsDurablePages` is about crashes that take the
unflushed tail with them, as the memory adapter does (ADR 0061, 148-151); a kept
tail is the subject of `MCRecoveryTail`. Four
positions of `TransactionStorage` hold two images of its page and two commits, of
coordinators before and after a restart or of two logs. Its one page is enough
for what a step looks at: a call that stages or flushes names one page, and a
recovery interrupted between two pages is checked by `MCFilePageStore` and
`MCRestartPipeline`, which have two. A raw write at the first position of one log
(`RawLogs`, `MaxRawPosition`) leaves a dirty page that may be flushed late, over a
committed image. The seven safety properties of this run are theorems for any
number of pages, logs, transactions and raw writes. Four positions of
`RestartPipeline` hold two pages and two commits, before and after a checkpoint. A page
group of two or three frames is torn at its header, its owner and its data; two
positions give a record that a marker covers and one that it does not, and a
reclamation that keeps neither, one or both. Three images are an old and a new
committed one of a page and one of another, four snapshots let recovery write
after both a torn and a late one. Two faults are a failed effect and a power
loss after it, or two power losses, of which the second finds what the first
left half done; the third of `MCDatabaseFiles` is for a close after a create that
had both. Two processes are enough for the only race there is, between
creating the owner file and locking it, and for one that finds what another
left. The bounds
`MaxPosition`, `MaxEpoch`, `MaxSequence` are also what the code's `u64` ends
are: the allocators are exhausted in these runs, which is the numeric edge
behind the type invariants and `EpochsNeverReissued`. Deadlock is not checked
since a live database, a crashed one that cannot open, a closed one and
exhausted allocators are legal ends.

Fairness, always weak, always of what one caller drives:

- `RecoveryConverges`: the recovery steps as a whole. ADR 0061 gives the caller
  one legal next operation in each phase, and a caller that wants the database
  back calls it. A crash may interrupt recovery as long as lineages last.
- `RecoveryEnds`: a recovery that was begun goes on to its next page, as the
  loop of `recover_committed_transaction_pages` does, and the caller retries
  after an injected fault, of which there are finitely many.
- `RestartDecides`: the steps of the restart and the fallback to complete
  recovery. The handoff drives a restart end to end in one call. Live work,
  publication, reclamation and close are not fair.
- `RecoveryInstallsAll`: open, compare and replace and giving up a poisoned
  store; the typestate gives no other way to the storage, and a new open is the
  documented way out of poison (ADR 0031, 0056).
- `CreateFinishes`: the steps of a create of each process; a caller that wants
  the database calls create again until it has it. The exception `PartialFile`
  is documented as terminal (ADR 0065, 56-59).

### What the violated runs show

1. `MCRecoveryTail`: a crash keeps a complete page record above the flush
   frontier, recovery leaves it out, a flush after recovery makes it durable,
   and `analyze_retention` sets a floor above it, although its comment names the
   durable suffix as one of the things the floor is derived from. Without a kept
   tail the floor covers it (theorem `FloorCoversSuffix`).
2. `MCFileLogRename`: a reclamation fails between its rename and the directory
   sync, the log is opened again without synchronizing the directory, a
   transaction commits on the new file, and a power loss brings the old file
   back. Opening the whole database hides it when its manifest is in the same
   directory.
3. `MCFileLogReclaim`: a commit fails after its append, its record becomes durable,
   a restart opens a second coordinator and the prefix with the record is
   reclaimed. The first coordinator, kept by its holder, then resolves the
   transaction as one without a durable commit record: `lookup_durable_commit`
   (2983-3014) looks at the records that are left and not at the generation, while
   `ntsql-transaction` (114-118) asks for an answer of absence only after a complete
   check of the lineage. Only a superseded coordinator is told so (`VerdictsStand`).
4. `MCCleanReopen`: `validate_clean_reopen` of a complete log looks at the
   prefix up to the frontier of the candidate, so a candidate of an earlier
   clean close is proved clean over a log that has gone on. A reclaimed log
   compares the frontiers, which `PrunedCleanReopenComplete` checks.
5. `MCCleanSlotUnsynced`: `prepare_close` is interrupted after it wrote the
   control file of the clean-close slot and before it synchronized it; the next
   one finds a readable control file and uses the slot as it is; after a completed
   close, a power loss leaves a clean manifest whose checkpoint cannot be read.

Two more limits of the code are part of passing properties. `CrashReopens`
says that a crashed recovery model opens, or a file is damaged, or the selected
checkpoint has one of two defects: it names positions of active transactions
that no flush covered and that the crash lost, or it was published after a
reclamation under another anchor than the one the WAL generation is bound to.
`RestartRefusedOnlyForMovedPages` says that the pipeline refuses a checkpoint
only because the store has moved a page since its publication, with complete
recovery as the way on if the log is complete.

## Proofs

All theorems hold for every value of the constants that satisfies the
assumptions in `RecoveryModel`, `TransactionStorage`, `LogFile`, `FileLog`,
`FilePageStore`, `RestartPipeline` and `DatabaseFiles`: bounds are naturals, `None` is not a value of
any other kind and `Nobody` no process, the pages of the recovery, transaction and
restart models are numbers, a group has a header, a descriptor and data, a page record
two frames or more. Each safety proof has the same form: an invariant that contains the
property or implies it, that the initial states satisfy and that every action
preserves, action by action. TLC checked each invariant on the instances of the
runs before it was proved.

**Recovery.** `TypeCorrect`: type correctness, with `PlanDurable` and
`NoCandidateInRecovery`, which keep a replay plan and a half-done replacement
meaningful. `WriteAheadRule` (`PagesBackedByDurableWal`) is not inductive:
repair and reclamation could break it from unreachable states. The
strengthening says that

- positions grow, epochs are bounded by the high-water mark, identities in the
  log were begun, and an active transaction has no commit marker; hence nothing
  follows a commit marker of its transaction (`CommitIsLast`);
- so a suffix of the log that keeps every durable record from the oldest stored
  image on keeps the commits of these images too;
- the floor of an analysis is at or below every stored image, and a
  replacement in progress agrees with the log until its rename;
- checkpoints hold no image newer than the store, so repair picks the image of
  the store or a record of the plan, which is durable and committed;
- logical and flush frontier are equal.

`EpochsAreFresh` needs `KnownBounded`: all transactions in checkpoints, tables
and log are below the epoch high-water mark. `PagesNeverGoBack` follows step by
step from the guard of `WritePageStore` and the maximum that repair takes.

The second half of `RecoverySafety` adds to this invariant, in the order in which
one rests on the other:

- `AnchorInv`: from selection until the first live change, and again from the
  analysis of retention on, the frozen selection is what the slot holds, with no
  checkpoint replacement pending; so a reclaimed log is bound to the anchor of
  the slot (`ReclaimsAgainstSlot`). `ReplacementAgrees` was part of the invariant
  above already.
- `UnresolvedInv`: floor and pending replacement leave every durable record of
  a transaction in the restored table alone (`UnresolvedOutliveReclamation`, an
  action property: the rename takes a replacement that was filled earlier).
- `ReplayInv`: every checkpoint that recovery may select replays from at or below
  each record whose image the store lacks, whether it is durable yet or not;
  hence the plan reaches all of them, and the table that
  restoration builds forgets none (`RecoveryRemembers`).
- `ReopenInv` with `FlushEndsLog`: a reclaimed log starts at the floor in its header
  and ends at its frontier, and before a reclamation every
  checkpoint describes a prefix of the log (`CrashAlwaysReopens`).
- `DurableInv`, when no crash keeps an unflushed tail (`TailForgotten`): once pages are
  repaired and until something live happens, the store shows every durable
  image, so neither the floor (`FloorCoversSuffix`) nor a replacement drops one. From
  it every step of the model is a step of `DurablePages` or none
  (`DurablePagesImplemented`). The hypothesis is needed: TLC violates
  `RequiredSuffixRetained` without it (`MCRecoveryTail`).

**Transactions.** `TransactionTypeCorrect` is type correctness.
`LifecycleIsTrue`, `EvidenceAlwaysReconciles` and `CommittedImagesAreKept` come
from one invariant (`TransactionInvariant`): a restart rewinds no position, so
a token never describes another record than its own; coordinators of one log
have distinct epochs, so identities are unique; a commit record is written once,
only for an issued transaction and after all its pages; tokens of committed
transactions name durable records. Hence every image a flush puts into the store
is durable and committed (`StoreBacked`), which is what recovery demands.

`DischargesAreStored` follows from it step by step: the only step that takes a staged
page from its coordinator flushes a durable record of the same transaction.
`RecoveryIsCurrent` needs one thing more (`VisitedPagesCurrent`): a page that a running
recovery has visited stays current, because nobody else writes to the store
until it ends. `OutcomesAreFinal` maps a transaction to its outcome in the log,
durable, lost or open, and its verdict in the lifecycle: no step of log,
coordinator or restart changes an outcome that is no longer open or a verdict
that was given.

**Database files.** A process acts on what it knows of the directory, and others act
in between. The invariant (`DatabaseFilesInvariant`) says that

- every directory that a power loss may leave has one of ten shapes: what one
  of the nine prefixes of creation leaves, or a database with a manifest
  (`DirInv`), which is what makes each of them resumable
  (`EveryDirectoryResumable`);
- the owner lock is held exactly from its acquisition to the return of the
  call, and while an owner file is created and not yet locked the directory does
  not change, whoever opens and locks it first (`OwnerInv`);
- for the holder, by stage (`HeldInv`): creation has synchronized the bytes of
  all it has been through and stands at the effect that its phase and item name;
  recovery, live work and close run only under the source manifest in every
  directory that a power loss may leave; the slot holds one checkpoint when close begins,
  that of the final data; the certificate is written and synchronized before the rename.

`SelectionAlwaysComplete` and `CleanManifestAlwaysCertified` are conjuncts of it
that are not inductive alone. `FilesImplementLifecycle` then takes the files step by step to
`DatabaseLifecycle`: one lemma for each abstract action (`StepCreates`,
`StepSelects`, `StepBinds`, ...) and one for each group of effects, most of which are
a synchronization or a stutter there. These theorems hold for any number of
processes, changes and faults.

**File page store.** The invariant (`FilePageStoreInvariant`) describes what any
sequence of interrupted calls leaves. Unless a power loss took a frame before one that
it kept, the complete frames follow each other as `apply_frame` demands
(`Chained`), each group carries its number (`Numbered`), and part of a frame is
only found last (`FileInv`). At most one group is not permanent, and it is the last
(`OneGroupUnsynced`): a write that fails poisons the store, and an open
synchronizes what it finds. A store that is open and not poisoned has only whole
groups in its file, all permanent, and its fields are what a scan returns
(`HealthyInv`). The lemmas that carry the proof are about frames: any beginning of
a sound file is sound (`PrefixSound`), so a power loss leaves a sound file
(`PowerLossReads`); the next group appended to whole groups, or any part of it,
is sound and changes one page or none (`BegunSound`, `BegunSnapshots`); the repair
of an open removes nothing that a reader finds (`RepairedElements`).
`StoreAlwaysMatchesFile` follows from the invariant, and
`StoreImplementsPageImages` maps every step: an open and a power loss are `Decide`,
a write is `Write`, and a write that fails is `Attempt` when the whole group may be
found later and a stutter when it cannot.

**File log.** `FileLogInvariant` has two layers. The first, `BaseInv`, holds for both
values of `UnsyncedRenameOpens`:

- every file that the path may name is `FileSound`: part of a frame is only found
  last, what can be read of it is what `apply_frame` demands frame by frame, and the
  synchronized beginning alone meets the header (`HeaderMet`), so that no power loss
  can make `inspect_internal` refuse it. A frame that cannot be read comes from a power
  loss only, and such a log is never opened (`FileInv`);
- an adapter that is open and not poisoned has whole page groups in its file, its
  fields are what a scan returns, and only frames of records after the durable
  position are not permanent (`HealthyInv`), so that the durable records are the same
  in the synchronized beginning as in the whole file (`VolatileSure`);
- a transaction that may still commit owns an epoch allocated for good and has no
  commit record (`ActiveInv`). Without it `OwnersAllocated` and `CommitsOnce` would not
  survive the next append.

`LogOpensAgain`, `MemoryIsTheFile` and `TypeCorrect` follow from it without a hypothesis.
The scan is not a recursion but a set of conditions on each frame and the frames
before it (`SoundAt`), and the n-th record is the one whose last frame has n - 1
such frames before it (`NthEnd`), so no induction over a sequence of frames is needed:
soundness is a statement about each frame (`SoundLocally`), a beginning of a sound sequence is
sound, and a group or a frame added to one, or a part of a group, is sound if it fits
(`GroupGrows`, `EpochGrows`, `MarkerGrows`). What can be read after an interrupted write, a repair
or a power loss is a beginning of what was there or was to be. The replacement
file of a reclamation is the one place where a group is added for each of any number
of records, by the least record that would break it (`PlannedAll`).

The second, `LineageInv`, is what lasts from one power loss to the next: every file that
the path may name has allocated each epoch that was handed out (`EpochInv`),
contradicts no verdict (`VerdictInv`), and while a rename is pending the old file
ends with all that the new one holds, with nothing volatile in either (`FormerInv`).
It needs `~UnsyncedRenameOpens`. The hypothesis is not for convenience: with an open that
trusts a pending rename, a commit or an epoch goes to a file that a power loss may
take back, which `MCFileLogRename` shows. Under both values TLC
checked `BaseInv`, and with FALSE the whole invariant. `CommittedStays`,
`EpochsAreNeverReissued`, `VerdictsAlwaysStand` and the refinement assume nothing
else; in particular commits may be unresolved when a prefix with their record is
reclaimed. `ReclaimedAreSuperseded` needs no hypothesis at all: each owner of
a record has an epoch below the next one (`OwnerIssued`), the newest epoch
belongs to the coordinator of the restart, which has no record yet (`Permitted`), so
a commit record that goes belongs to an older one. `VerdictsAlwaysStand` takes from it
that the answer `MCFileLogReclaim` shows can reach a superseded coordinator only.

`ImplementsLog` maps each call to `DurableLog`: `ContentOf` a file is its records, split at
the last marker that is permanent, and the log is the content of the file that
the disk certainly names (`Permanent`). An append that is whole is `AppendRecord`, a commit
that reaches its marker `AppendDurably`, and all that fails, opens, repairs or loses power
keeps a beginning of the file (`Keeps`) and is `Settle`. A rename is a stutter, and
`Reclaim` is the step that makes it permanent: the directory sync of the call, that of the
owner, or a power loss that does not take it back.

**Restart pipeline.** `RestartInvariant` compares what the owners carry along with
`history`, all that was ever durable, of which the log is what reclamation left:

- positions are handed out in order and a commit is the last record of its
  transaction, so nothing is ever added to a prefix of the history (`HistoryInv`);
- every baseline, in the slot, anchored or held, is what that prefix derives, but
  for the images that the store showed when it was published (`BaselineTrue`);
- the log is an end of the history. Once reclaimed it starts no later than the
  anchored frontier and has every record of a transaction without a commit
  (`LogInv`, `AnchorInv`);
- a page that does not show its last committed image has it among the records
  replayed from the anchored or held baseline (`Covers`);
- the typestates hold the one plan that the present log gives, and repairs whose
  targets are the last committed images; what a live coordinator has yet to flush
  comes after the frontier of its plan (`HeldInv`).

One argument carries most of the proof. A log that starts no later than the
frontier of a true baseline lets the table, advanced over the records after that
frontier, know every commit of a transaction that the log names (`NowTable`,
`TableKnows`), whether the log is complete or reclaimed. So the last image
in the window that may be installed is the last committed one, or the page
has shown that one since before the log was cut; the targets of repair follow, then
`RepairsAlwaysShowEveryCommit`, and the baseline that is published next is true
again. For reclamation, the demands of retention put the floor at or below the
frontier of the slot, the replay start and the first record of each unresolved
transaction (`RetainableFacts`), which keeps `Covers` and gives
`NeededRecordsAlwaysRetained`. `TableAlwaysContinuesHistory` is the argument itself
at the frontier of the plan; `StoreAlwaysShowsCommitted` and
`LifecycleAlwaysFollowsHistory` are conjuncts of the invariant that need the rest:
a repair writes only a committed image because the table is right, and a verdict
is right because a reclaimed log still has all records of the coordinator's epoch
(`LifecycleInv`).

The second layer (`EvidenceInv`, proved in `RestartEvidence` over the first) says
why what was published is accepted again:

- a published baseline is not only true: it is exactly the complete analysis of its
  prefix of the history over the images that it notes (`PublishedTrue`);
- the slot holds one of them, the anchored one once the log is reclaimed, with the
  start of its window in the log (`SelectionInv`), and the log has the record of
  every image in the store (`RecordsInv`). Reclamation keeps both because
  retention demanded them (`RequirementsKept`);
- a step that refused did so over a page that had moved (`RefusedForMovedPages`);
- a clean candidate that is still at the high water has nothing after it to
  recover and nobody with an image left to write (`CleanInv`).

Selection derives the baseline again, from the whole log (`CompleteAccepts`) or,
once reclaimed, from its window and the anchor (`AnchoredAccepts`); all but the
images of pages are functions of the same prefix, so these images are all that
can differ, and the same holds for planning and preparation (`PreparableNow`).
Once pages are repaired, restoration and completion derive the same table again,
in a log that nobody has appended to (`EntryContinues`, `RestorationHolds`,
`RestoredCompletes`): this gives `RestartsRefusedOnlyForMovedPages`. A clean close
leaves nothing to recover (`NothingLeft`), and what it publishes passes the checks
of the next open in both kinds of log (`CompleteReopens`, `PrunedReopens`): this is
`CleanCloseAlwaysProven`. `PrunedReopenAlwaysComplete` is `CleanInv` at a reopen, whose
candidate has the frontier of the log. TLC finds the same claim false for a
complete log (`MCCleanReopen`), whose clean reopen does not ask for that frontier.

`CommitIsLast` states `CommitClosesTransaction`, which no run lists, while
`FloorCoversSuffix` and `CommittedStays` state properties that a run violates when
their hypothesis fails.

Only model-checked is liveness (`RecoveryConverges`, `RecoveryEnds`, `RestartDecides`,
`RecoveryInstallsAll`, `CreateFinishes`): temporal reasoning about fairness and `ENABLED`
is outside the proof system in use. Every invariant, action property and refinement
of a passing run is a theorem.

## Not modelled, and the plan

1. *Trace runner* of the recovery model (2918-3959): `compare_observations`,
   `generate_trace`, `execute_trace`, `find_minimal_prefix` drive and compare
   instances of the state machine; planned as `TraceRunner`, a client that
   keeps to the bounds of `TraceBounds`.
2. *Restart slot files*: publications after creation. `CheckpointSlot` has the
   steps of a publication; composing them with `RestartPipeline` would show
   what a restart may select after a power loss between rename and directory
   sync. An open (`restart_checkpoint_file.rs` 1387-1467) does not synchronize
   the slot's directory either.
3. *Manifest generations and identities* of `ntsql-database`: one database and
   one clean close are modelled, and all checks that compare identities are left
   out.
4. *In-memory database ownership*: a test double of the file owner behind the
   same trait. It implements the same `DatabaseLifecycle`, with several databases
   in one world of objects; the refinement is worth stating.
5. *Ordered multi-snapshot reports* of committed page recovery, and the
   adapter-side reclamation of the memory log.

Binary codecs are sequential, pure and pinned by golden-byte tests. Contract,
governance, compatibility profile, diagnostics, test kit and the architecture
check hold no storage state. They stay out. A large part of the source lines
that no definition stands for are inline tests, accessors, error types and
their formatting.
