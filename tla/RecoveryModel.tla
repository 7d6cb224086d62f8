--------------------------- MODULE RecoveryModel ---------------------------
(***************************************************************************)
(* The logical durability state machine of ntsql                           *)
(* (crates/ntsql-recovery-model/src/lib.rs, struct RecoveryModel): one     *)
(* write-ahead log, one page store, one checkpoint slot, the crash/reopen/ *)
(* recover cycle that rebuilds the live state from them, and the           *)
(* reclamation that replaces the log by a retained suffix (a new           *)
(* "generation").  One action per public operation of the Rust struct; an  *)
(* operation that returns a ModelError changes nothing and is the absence  *)
(* of a step.                                                              *)
(*                                                                         *)
(* Abstractions of data, none of control:                                  *)
(*  - u64::MAX is MaxPosition, MaxEpoch, ..., so that "exhausted" (None    *)
(*    after checked_add) is reachable; an exhausted allocator is Max + 1;  *)
(*  - an Option<WalPosition> or Option<epoch> that is None is 0: the Rust  *)
(*    ordering None < Some(1) is the ordering of the integers;             *)
(*  - a Vec<WalRecord>, always strictly increasing, is a function from     *)
(*    the positions it holds; a Vec of positions of a transaction is a set;*)
(*  - page bytes and version are identified with the position of the       *)
(*    record that carries them, since positions are never reused;          *)
(*  - there is one log identity, and the lineage that reopen writes on     *)
(*    every record, snapshot and checkpoint is kept once, in "lineage";    *)
(*  - the format version is 3 in generation 0 and 4 in every other.        *)
(***************************************************************************)
EXTENDS Integers, FiniteSets, Functions, Extrema

CONSTANTS
    Pages,                 \* page identities
    Anchors,               \* opaque checkpoint anchors a caller may supply
    MaxPosition, MaxEpoch, MaxSequence, MaxLineage, MaxGeneration,
    TailOutcomes,          \* subset of BOOLEAN: may a crash keep the unflushed tail?
    SelectedEntries,       \* what a crash may leave of the selected files
    CandidateEntries,      \* what a crash may leave of a candidate file
    CandidateAnchors,      \* anchors used for stepwise checkpoint replacement
    StepwiseReplacement,   \* BOOLEAN: does a caller drive begin/advance_wal_candidate?
    None

Positions == 1 .. MaxPosition
Epochs == 1 .. MaxEpoch
TransactionIds == [epoch : Epochs, sequence : 1 .. MaxSequence]
Phases == {"Live", "Crashed", "Unrecovered", "Selected", "ReplayPlanned",
           "PagesRepaired", "TransactionsRestored", "CompleteLive",
           "RetentionAnalyzed", "Reclaimed"}
EntryStates == {"Valid", "PartialWrite", "Corrupt"}
CandidateEntryStates == EntryStates \cup
    {"Absent", "ValidHigher", "DanglingSymlink", "InodeAlias"}

ASSUME BoundsAssumption ==
    /\ MaxPosition \in Nat \ {0}
    /\ MaxEpoch \in Nat \ {0}
    /\ MaxSequence \in Nat \ {0}
    /\ MaxLineage \in Nat
    /\ MaxGeneration \in Nat

ASSUME InputsAssumption ==
    /\ TailOutcomes \subseteq BOOLEAN
    /\ SelectedEntries \subseteq EntryStates
    /\ CandidateEntries \subseteq CandidateEntryStates
    /\ CandidateAnchors \subseteq Anchors
    /\ StepwiseReplacement \in BOOLEAN

WalRecord ==
    [kind : {"TransactionPage"}, transaction : TransactionIds, page : Pages]
        \cup [kind : {"TransactionCommit"}, transaction : TransactionIds, page : {None}]
        \cup [kind : {"RawPage"}, transaction : {None}, page : Pages]

Wals == UNION {[S -> WalRecord] : S \in SUBSET Positions}
TransactionTables == UNION {[S -> SUBSET Positions] : S \in SUBSET TransactionIds}
PageImages == [Pages -> 0 .. MaxPosition]

(* CheckpointSnapshot: pages[p] = 0 when the snapshot has no entry for p.   *)
CheckpointSnapshot ==
    [anchor : Anchors, frontier : 0 .. MaxPosition, replayStart : 0 .. MaxPosition,
     pages : PageImages, active : TransactionTables, epochHighWater : 0 .. MaxEpoch]

(* The replacement header: what reclamation wrote into the installed WAL.   *)
Headers ==
    [generation : 0 .. MaxGeneration, anchor : Anchors \cup {None},
     retainedFirst : 0 .. MaxPosition, logicalHighWater : 0 .. MaxPosition,
     epochHighWater : 0 .. MaxEpoch]

(* The ten stages of a file replacement, in order; a stage is its index.    *)
ReplacementStages == 0 .. 9
BeforeCleanup == 0
AfterCleanup == 1
AfterCreate == 2
BeforeRename == 6
AfterCurrentReplace == 7
AfterDirectorySync == 9

(* None is a value of its own, different from every checkpoint, record, ... *)
ASSUME NoneAssumption ==
    None \notin Anchors \cup Pages \cup TransactionIds \cup CheckpointSnapshot \cup BOOLEAN

VARIABLES
    lineage,            \* how often the database was opened
    phase,              \* RecoveryPhase
    wal,                \* wal_records
    flush,              \* flush_position: the durable frontier
    nextPosition,       \* next_position; MaxPosition + 1 when exhausted
    logicalHighWater,
    currentEpoch, nextEpoch, nextSequence, epochHighWater,
    active,             \* active_transactions of this incarnation
    persisted,          \* persisted_transactions: unresolved, found by recovery
    committed,          \* keys of committed_transactions
    store,              \* page_store: position of the image of each page, or 0
    slot,               \* checkpoint_slot
    selected,           \* selected_checkpoint, frozen by select
    header,             \* generation, anchor and replacement header fields
    evidence,           \* completion_evidence, or None
    analysis,           \* retention_analysis, or None
    checkpointCandidate, walCandidate,
    locks,              \* owner of the three files; owner of the two WAL inodes
    plan,               \* positions of replay_plan
    walEntry, checkpointEntry   \* selected_wal_entry, selected_checkpoint_entry

walVars == <<wal, flush, nextPosition, logicalHighWater>>
epochVars == <<currentEpoch, nextEpoch, nextSequence, epochHighWater>>
transactionVars == <<active, persisted, committed>>
checkpointVars == <<slot, selected>>
recoveryVars == <<evidence, analysis, plan>>
candidateVars == <<checkpointCandidate, walCandidate>>
entryVars == <<walEntry, checkpointEntry>>
vars == <<lineage, phase, walVars, epochVars, transactionVars, store, checkpointVars,
          header, recoveryVars, candidateVars, locks, entryVars>>

----------------------------------------------------------------------------
(* Observations on the state that several operations share.                 *)

Records(S) == S \cap DOMAIN wal
IsPage(r) == r.kind \in {"TransactionPage", "RawPage"}
DurablePositions == {q \in DOMAIN wal : q <= flush}

CommittedBy(tx, frontier) ==
    \E q \in DOMAIN wal : /\ q <= frontier
                          /\ wal[q].kind = "TransactionCommit"
                          /\ wal[q].transaction = tx

(* A page record whose effect recovery may install: raw, or committed.      *)
Installable(q, frontier) ==
    \/ wal[q].kind = "RawPage"
    \/ wal[q].kind = "TransactionPage" /\ CommittedBy(wal[q].transaction, frontier)

Put(f, k, v) == [x \in DOMAIN f \cup {k} |-> IF x = k THEN v ELSE f[x]]

(* The checked_add of an allocator: is the value it would hand out in range?*)
(* Defect: the counter is advanced without looking for its end.             *)
AvailableUnchecked(next, limit) == TRUE
Available(next, limit) == next <= limit

AllLive == [files |-> "Live", inodes |-> "Free"]
AllFree == [files |-> "Free", inodes |-> "Free"]
AllRecovery == [files |-> "Recovery", inodes |-> "Free"]

LiveOrComplete == phase \in {"Live", "CompleteLive"}
(* Defect: a live operation leaves the completion evidence fresh.           *)
KeepCompletionFresh == evidence' = evidence
MarkCompletionStale ==
    evidence' = IF evidence = None THEN None ELSE [evidence EXCEPT !.stale = TRUE]

Init ==
    /\ lineage = 0
    /\ phase = "Live"
    /\ wal = [q \in {} |-> None]
    /\ flush = 0
    /\ nextPosition = 1
    /\ logicalHighWater = 0
    /\ currentEpoch = 0
    /\ nextEpoch = 1
    /\ nextSequence = 0
    /\ epochHighWater = 0
    /\ active = [tx \in {} |-> {}]
    /\ persisted = [tx \in {} |-> {}]
    /\ committed = {}
    /\ store = [p \in Pages |-> 0]
    /\ slot = None
    /\ selected = None
    /\ header = [generation |-> 0, anchor |-> None, retainedFirst |-> 0,
                 logicalHighWater |-> 0, epochHighWater |-> 0]
    /\ evidence = None
    /\ analysis = None
    /\ checkpointCandidate = None
    /\ walCandidate = None
    /\ locks = AllLive
    /\ plan = {}
    /\ walEntry = "Valid"
    /\ checkpointEntry = "Valid"

----------------------------------------------------------------------------
(* Live operations.                                                         *)

AllocateCoordinatorEpoch ==
    /\ LiveOrComplete
    /\ Available(nextEpoch, MaxEpoch)
    /\ nextEpoch' = nextEpoch + 1
    /\ currentEpoch' = nextEpoch
    /\ nextSequence' = 1
    /\ epochHighWater' = IF epochHighWater >= nextEpoch THEN epochHighWater ELSE nextEpoch
    /\ MarkCompletionStale
    /\ UNCHANGED <<lineage, phase, walVars, transactionVars, store, checkpointVars,
                   header, analysis, plan, candidateVars, locks, entryVars>>

BeginTransaction ==
    LET id == [epoch |-> currentEpoch, sequence |-> nextSequence]
    IN /\ LiveOrComplete
       /\ currentEpoch # 0
       /\ nextSequence \in 1 .. MaxSequence
       /\ nextSequence' = nextSequence + 1
       /\ id \notin DOMAIN active
       /\ active' = Put(active, id, {})
       /\ MarkCompletionStale
       /\ UNCHANGED <<lineage, phase, walVars, currentEpoch, nextEpoch, epochHighWater,
                      persisted, committed, store, checkpointVars, header, analysis, plan,
                      candidateVars, locks, entryVars>>

(* allocate_position, then the push onto wal_records.                       *)
AppendRecord(record) ==
    /\ Available(nextPosition, MaxPosition)
    /\ nextPosition' = nextPosition + 1
    /\ wal' = Put(wal, nextPosition, record)
    /\ MarkCompletionStale
    /\ UNCHANGED <<lineage, phase, flush, logicalHighWater, epochVars, persisted, store,
                   checkpointVars, header, analysis, plan, candidateVars, locks, entryVars>>

AppendTransactionPage(tx, page) ==
    /\ LiveOrComplete
    /\ tx \in DOMAIN active
    /\ AppendRecord([kind |-> "TransactionPage", transaction |-> tx, page |-> page])
    /\ active' = [active EXCEPT ![tx] = @ \cup {nextPosition}]
    /\ UNCHANGED committed

AppendTransactionCommit(tx) ==
    /\ LiveOrComplete
    /\ tx \in DOMAIN active
    /\ tx \notin committed
    /\ AppendRecord([kind |-> "TransactionCommit", transaction |-> tx, page |-> None])
    /\ committed' = committed \cup {tx}
    /\ active' = Restrict(active, DOMAIN active \ {tx})

AppendRawPage(page) ==
    /\ LiveOrComplete
    /\ AppendRecord([kind |-> "RawPage", transaction |-> None, page |-> page])
    /\ UNCHANGED <<active, committed>>

(* An empty WAL keeps its frontier.  Completion evidence is not touched.    *)
FlushWal ==
    /\ LiveOrComplete
    /\ wal # [q \in {} |-> None]
    /\ flush' = Latest(DOMAIN wal)
    /\ logicalHighWater' = Latest(DOMAIN wal)
    /\ UNCHANGED <<lineage, phase, wal, nextPosition, epochVars, transactionVars, store,
                   checkpointVars, header, recoveryVars, candidateVars, locks, entryVars>>

WritePageStore(position) ==
    /\ LiveOrComplete
    /\ position \in DurablePositions
    /\ Installable(position, flush)
    /\ store[wal[position].page] <= position
    /\ store' = [store EXCEPT ![wal[position].page] = position]
    /\ MarkCompletionStale
    /\ UNCHANGED <<lineage, phase, walVars, epochVars, transactionVars, checkpointVars,
                   header, analysis, plan, candidateVars, locks, entryVars>>

(* Defect: replay always starts after the frontier.                         *)
ReplayAfterFrontier == 0

(* compute_replay_start: the first durable page record the store lacks.     *)
ReplayStart ==
    Earliest({q \in DurablePositions : IsPage(wal[q]) /\ store[wal[q].page] < q})

(* The image publish_checkpoint builds.  Positions of active transactions   *)
(* are copied whether they are flushed or not.                              *)
CheckpointImage(anchor) ==
    [anchor |-> anchor, frontier |-> flush, replayStart |-> ReplayStart,
     pages |-> store,
     active |-> [tx \in DOMAIN active \cup DOMAIN persisted |->
                    IF tx \in DOMAIN active THEN active[tx] ELSE persisted[tx]],
     epochHighWater |-> epochHighWater]

PublishCheckpoint(anchor) ==
    /\ LiveOrComplete
    /\ slot' = CheckpointImage(anchor)
    /\ MarkCompletionStale
    /\ UNCHANGED <<lineage, phase, walVars, epochVars, transactionVars, store, selected,
                   header, analysis, plan, candidateVars, locks, entryVars>>

----------------------------------------------------------------------------
(* Stepwise replacement of the checkpoint file and of the WAL.  Advancing a *)
(* candidate and reclassifying its file are guarded by the candidate alone, *)
(* not by the phase.                                                        *)

EntryAfter(stage) ==
    CASE stage = AfterCreate -> "PartialWrite"
      [] stage \in AfterCreate + 1 .. BeforeRename -> "Valid"
      [] OTHER -> "Absent"

BeginCheckpointCandidate(anchor) ==
    /\ LiveOrComplete
    /\ checkpointCandidate' = [snapshot |-> CheckpointImage(anchor),
                               stage |-> BeforeCleanup, entry |-> "Absent"]
    /\ MarkCompletionStale
    /\ UNCHANGED <<lineage, phase, walVars, epochVars, transactionVars, store,
                   checkpointVars, header, analysis, plan, walCandidate, locks, entryVars>>

AdvanceCheckpointCandidate ==
    LET next == checkpointCandidate.stage + 1
    IN /\ checkpointCandidate # None
       /\ IF next = AfterCurrentReplace
          THEN slot' = checkpointCandidate.snapshot /\ MarkCompletionStale
          ELSE UNCHANGED <<slot, evidence>>
       /\ checkpointCandidate' =
            IF next = AfterDirectorySync THEN None
            ELSE [checkpointCandidate EXCEPT
                    !.stage = next,
                    !.entry = IF next <= AfterCurrentReplace THEN EntryAfter(next) ELSE @]
       /\ UNCHANGED <<lineage, phase, walVars, epochVars, transactionVars, store, selected,
                      header, analysis, plan, walCandidate, locks, entryVars>>

SetCheckpointCandidateEntry(entry) ==
    /\ checkpointCandidate # None
    /\ checkpointCandidate' = [checkpointCandidate EXCEPT !.entry = entry]
    /\ UNCHANGED <<lineage, phase, walVars, epochVars, transactionVars, store,
                   checkpointVars, header, recoveryVars, walCandidate, locks, entryVars>>

(* What reclaim requires of its analysis, and the replacement it derives.   *)
ReclamationReady ==
    /\ phase = "RetentionAnalyzed"
    /\ analysis # None
    /\ wal = [q \in {} |-> None] \/ Latest(DOMAIN wal) = flush
    /\ header.generation < MaxGeneration
    /\ selected # None
    /\ selected.anchor = analysis.anchor
    /\ analysis.retainedFirst # 0 => analysis.retainedFirst \in DOMAIN wal

(* Defect: the record at the retained floor itself is dropped.              *)
RetainedAboveFloor ==
    {q \in DOMAIN wal : analysis.retainedFirst # 0 /\ q > analysis.retainedFirst}
Retained == {q \in DOMAIN wal : analysis.retainedFirst # 0 /\ q >= analysis.retainedFirst}

ReplacementHeader ==
    [generation |-> header.generation + 1, anchor |-> analysis.anchor,
     retainedFirst |-> analysis.retainedFirst,
     logicalHighWater |-> logicalHighWater, epochHighWater |-> epochHighWater]

(* begin_wal_candidate takes its replacement from the caller; a caller has  *)
(* only the one that reclaim derives.  An attempt in progress is discarded. *)
BeginWalCandidate ==
    /\ StepwiseReplacement
    /\ ReclamationReady
    /\ walCandidate' = [header |-> ReplacementHeader, suffix |-> Restrict(wal, Retained),
                        stage |-> BeforeCleanup, entry |-> "Absent"]
    /\ locks' = [locks EXCEPT !.inodes = "Live"]
    /\ UNCHANGED <<lineage, phase, walVars, epochVars, transactionVars, store,
                   checkpointVars, header, recoveryVars, checkpointCandidate, entryVars>>

(* The rename: the selected WAL becomes the candidate.                      *)
Install(replacement, suffix) ==
    /\ header' = replacement
    /\ wal' = suffix
    /\ flush' = replacement.logicalHighWater
    /\ logicalHighWater' = replacement.logicalHighWater
    /\ epochHighWater' = replacement.epochHighWater

InodesReleased(stage) == stage = AfterDirectorySync

AdvanceWalCandidate ==
    LET next == walCandidate.stage + 1
    IN /\ walCandidate # None
       /\ IF next = AfterCurrentReplace
          THEN Install(walCandidate.header, walCandidate.suffix)
          ELSE UNCHANGED <<header, wal, flush, logicalHighWater, epochHighWater>>
       /\ walCandidate' =
            IF next = AfterDirectorySync THEN None
            ELSE [walCandidate EXCEPT !.stage = next, !.entry = EntryAfter(next)]
       /\ locks' = IF InodesReleased(next)
                   THEN [locks EXCEPT !.inodes = "Free"] ELSE locks
       /\ UNCHANGED <<lineage, phase, nextPosition, currentEpoch, nextEpoch, nextSequence,
                      transactionVars, store, checkpointVars, recoveryVars,
                      checkpointCandidate, entryVars>>

SetWalCandidateEntry(entry) ==
    /\ walCandidate # None
    /\ walCandidate' = [walCandidate EXCEPT !.entry = entry]
    /\ UNCHANGED <<lineage, phase, walVars, epochVars, transactionVars, store,
                   checkpointVars, header, recoveryVars, checkpointCandidate, locks,
                   entryVars>>

----------------------------------------------------------------------------
(* Crash, what a crash may leave on disk, and the next open.                *)

Crash(preserveTail) ==
    LET kept == IF preserveTail THEN DOMAIN wal ELSE DurablePositions
    IN /\ phase # "Crashed"
       /\ wal' = Restrict(wal, kept)
       /\ logicalHighWater' = flush
       /\ active' = [tx \in {} |-> {}]
       /\ persisted' = [tx \in {} |-> {}]
       /\ committed' = {}
       /\ currentEpoch' = 0
       /\ nextSequence' = 0
       /\ evidence' = None
       /\ analysis' = None
       /\ plan' = {}
       /\ selected' = None
       /\ locks' = AllFree
       /\ phase' = "Crashed"
       /\ UNCHANGED <<lineage, flush, nextPosition, nextEpoch, epochHighWater, store, slot,
                      header, candidateVars, entryVars>>

SetSelectedEntriesForOpen(walState, checkpointState) ==
    /\ phase = "Crashed"
    /\ walEntry' = walState
    /\ checkpointEntry' = checkpointState
    /\ UNCHANGED <<lineage, phase, walVars, epochVars, transactionVars, store,
                   checkpointVars, header, recoveryVars, candidateVars, locks>>

(* An interrupted attempt found at open: the image it would have installed. *)
SetCheckpointCandidateForOpen(anchor, entry) ==
    /\ phase = "Crashed"
    /\ checkpointCandidate' = [snapshot |-> CheckpointImage(anchor),
                               stage |-> BeforeRename, entry |-> entry]
    /\ UNCHANGED <<lineage, phase, walVars, epochVars, transactionVars, store,
                   checkpointVars, header, recoveryVars, walCandidate, locks, entryVars>>

SetWalCandidateForOpen(entry) ==
    /\ phase = "Crashed"
    /\ slot # None
    /\ header.generation < MaxGeneration
    /\ walCandidate' =
          [header |-> [generation |-> header.generation + 1, anchor |-> slot.anchor,
                       retainedFirst |-> Earliest(DurablePositions),
                       logicalHighWater |-> flush, epochHighWater |-> epochHighWater],
           suffix |-> Restrict(wal, DurablePositions),
           stage |-> BeforeRename, entry |-> entry]
    /\ UNCHANGED <<lineage, phase, walVars, epochVars, transactionVars, store,
                   checkpointVars, header, recoveryVars, checkpointCandidate, locks,
                   entryVars>>

(* Defect: a checkpoint at the very end of the WAL is refused.              *)
StrictlyWithinPrefix(cp) == cp.frontier < logicalHighWater
WithinPrefix(cp) == cp.frontier <= logicalHighWater

(* validate_complete_prefix_checkpoint                                      *)
CompletePrefixCheckpoint(cp) ==
    /\ WithinPrefix(cp)
    /\ cp.replayStart # 0 => cp.replayStart \in Records(1 .. cp.frontier)
    /\ \A p \in Pages : cp.pages[p] # 0 =>
          /\ cp.pages[p] \in Records(1 .. cp.frontier)
          /\ wal[cp.pages[p]].page = p
          /\ Installable(cp.pages[p], cp.frontier)
    /\ \A tx \in DOMAIN cp.active : \A q \in cp.active[tx] :
          /\ q \in Records(1 .. cp.frontier)
          /\ wal[q].kind = "TransactionPage"
          /\ wal[q].transaction = tx
    /\ cp.epochHighWater <= epochHighWater

(* The retained-first part of validate_selected_on_open, generation > 0.    *)
RetainedFirstConsistent ==
    LET first == Earliest(DurablePositions)
    IN IF header.retainedFirst # 0
       THEN first = header.retainedFirst
       ELSE first # 0 /\ header.logicalHighWater # 0 => first > header.logicalHighWater

(* validate_selected_on_open                                                *)
SelectedValidOnOpen ==
    /\ walEntry = "Valid"
    /\ header.generation > 0 =>
          /\ header.anchor # None
          /\ RetainedFirstConsistent
          /\ logicalHighWater >= header.logicalHighWater
          /\ epochHighWater >= header.epochHighWater
    /\ flush = logicalHighWater
    /\ checkpointEntry = "Valid"
    /\ IF header.generation > 0
       THEN slot # None /\ slot.anchor = header.anchor
       ELSE slot # None => CompletePrefixCheckpoint(slot)

AliasedCandidate ==
    \/ checkpointCandidate # None /\ checkpointCandidate.entry = "InodeAlias"
    \/ walCandidate # None /\ walCandidate.entry = "InodeAlias"

Reopen ==
    /\ phase = "Crashed"
    /\ lineage < MaxLineage
    /\ SelectedValidOnOpen
    /\ ~AliasedCandidate
    /\ lineage' = lineage + 1
    /\ checkpointCandidate' = None
    /\ walCandidate' = None
    /\ locks' = AllRecovery
    /\ phase' = "Unrecovered"
    /\ UNCHANGED <<walVars, epochVars, transactionVars, store, checkpointVars, header,
                   recoveryVars, entryVars>>

----------------------------------------------------------------------------
(* Recovery.                                                                *)

(* select_observed, called with the metadata observed in this phase.        *)
Select ==
    /\ phase = "Unrecovered"
    /\ IF header.generation > 0
       THEN header.anchor # None /\ slot # None /\ slot.anchor = header.anchor
       ELSE slot # None => CompletePrefixCheckpoint(slot)
    /\ selected' = slot
    /\ phase' = "Selected"
    /\ UNCHANGED <<lineage, walVars, epochVars, transactionVars, store, slot, header,
                   recoveryVars, candidateVars, locks, entryVars>>

(* Defect: the inclusive replay start is taken as exclusive.                *)
ReplayedStrictly(q) ==
    \/ selected = None
    \/ IF selected.replayStart # 0 THEN q > selected.replayStart
                                  ELSE q > selected.frontier
Replayed(q) ==
    \/ selected = None
    \/ IF selected.replayStart # 0 THEN q >= selected.replayStart
                                  ELSE q > selected.frontier

PlanReplay ==
    /\ phase = "Selected"
    /\ plan' = {q \in DurablePositions : Replayed(q)}
    /\ phase' = "ReplayPlanned"
    /\ UNCHANGED <<lineage, walVars, epochVars, transactionVars, store, checkpointVars,
                   header, evidence, analysis, candidateVars, locks, entryVars>>

(* The images repair may install for a page: what the store and the         *)
(* selected checkpoint have, and the planned records.                       *)
RepairSources(p) ==
    {store[p]}
        \cup (IF selected = None THEN {} ELSE {selected.pages[p]})
        \cup {q \in plan : wal[q].page = p /\ Installable(q, logicalHighWater)}

(* repair_pages; repair_pages_applied_fault has the same effect and reports *)
(* an error, repair_pages_fault has none.                                   *)
RepairPages ==
    /\ phase = "ReplayPlanned"
    /\ store' = [p \in Pages |-> Latest(RepairSources(p))]
    /\ phase' = "PagesRepaired"
    /\ UNCHANGED <<lineage, walVars, epochVars, transactionVars, checkpointVars, header,
                   recoveryVars, candidateVars, locks, entryVars>>

PlannedCommits == {wal[q].transaction : q \in {c \in plan : wal[c].kind = "TransactionCommit"}}
PlannedPages(tx) == {q \in plan : wal[q].kind = "TransactionPage" /\ wal[q].transaction = tx}

SeededTransactions ==
    IF selected = None THEN [tx \in {} |-> {}] ELSE selected.active

(* The unresolved transactions after the replay of the planned records over *)
(* the checkpoint's table.  Replay in order comes to this because a commit  *)
(* marker is the last record of its transaction (CommitClosesTransaction).  *)
RestoredTransactions ==
    LET owners == {wal[q].transaction : q \in {r \in plan : wal[r].kind = "TransactionPage"}}
    IN [tx \in (DOMAIN SeededTransactions \cup owners) \ PlannedCommits |->
          (IF tx \in DOMAIN SeededTransactions THEN SeededTransactions[tx] ELSE {})
              \cup PlannedPages(tx)]

PersistedEpochHighWater ==
    IF selected # None /\ selected.epochHighWater > epochHighWater
    THEN selected.epochHighWater ELSE epochHighWater

(* Defect: the epoch at the high-water mark is taken again.                 *)
FreshEpochReused == IF PersistedEpochHighWater = 0 THEN 1 ELSE PersistedEpochHighWater
FreshEpoch == PersistedEpochHighWater + 1

RestoreTransactions ==
    /\ phase = "PagesRepaired"
    /\ Available(FreshEpoch, MaxEpoch)
    /\ currentEpoch' = FreshEpoch
    /\ nextEpoch' = FreshEpoch + 1
    /\ nextSequence' = 1
    /\ epochHighWater' = FreshEpoch
    /\ active' = [tx \in {} |-> {}]
    /\ persisted' = RestoredTransactions
    /\ committed' = PlannedCommits
    /\ phase' = "TransactionsRestored"
    /\ UNCHANGED <<lineage, walVars, store, checkpointVars, header, recoveryVars,
                   candidateVars, locks, entryVars>>

Complete ==
    /\ phase = "TransactionsRestored"
    /\ evidence' = [frontier |-> flush, generation |-> header.generation,
                    anchor |-> IF selected = None THEN None ELSE selected.anchor,
                    epochHighWater |-> epochHighWater, stale |-> FALSE]
    /\ locks' = AllLive
    /\ phase' = "CompleteLive"
    /\ UNCHANGED <<lineage, walVars, epochVars, transactionVars, store, checkpointVars,
                   header, analysis, plan, candidateVars, entryVars>>

----------------------------------------------------------------------------
(* Retention and reclamation.                                               *)

FirstOwned(tx) == Earliest(persisted[tx])

(* Defect: unresolved transactions do not hold the floor back.              *)
ConstraintsWithoutTransactions ==
    ({selected.frontier, selected.replayStart, header.retainedFirst}
        \cup {store[p] : p \in Pages}) \ {0}

(* Every position the retained suffix must start at or before.              *)
RetentionConstraints ==
    ({selected.frontier, selected.replayStart, header.retainedFirst}
        \cup {FirstOwned(tx) : tx \in DOMAIN persisted}
        \cup {store[p] : p \in Pages}) \ {0}

AnalyzeRetention ==
    /\ phase = "CompleteLive"
    /\ evidence # None
    /\ ~evidence.stale
    /\ selected # None
    /\ RetentionConstraints \subseteq DOMAIN wal
    /\ \A tx \in DOMAIN persisted : persisted[tx] # {} =>
          /\ wal[FirstOwned(tx)].kind = "TransactionPage"
          /\ wal[FirstOwned(tx)].transaction = tx
    /\ \A p \in Pages : store[p] # 0 =>
          /\ selected.pages[p] <= store[p]
          /\ wal[store[p]].page = p
          /\ Installable(store[p], logicalHighWater)
    /\ analysis' = [retainedFirst |-> Earliest(RetentionConstraints),
                    anchor |-> selected.anchor]
    /\ phase' = "RetentionAnalyzed"
    /\ UNCHANGED <<lineage, walVars, epochVars, transactionVars, store, checkpointVars,
                   header, evidence, plan, candidateVars, locks, entryVars>>

(* begin_wal_candidate and all ten stages in one call.                      *)
Reclaim ==
    /\ ReclamationReady
    /\ walCandidate = None
    /\ Install(ReplacementHeader, Restrict(wal, Retained))
    /\ analysis' = None
    /\ locks' = [locks EXCEPT !.inodes = "Free"]
    /\ phase' = "Reclaimed"
    /\ UNCHANGED <<lineage, nextPosition, currentEpoch, nextEpoch, nextSequence,
                   transactionVars, store, checkpointVars, evidence, plan,
                   candidateVars, entryVars>>

----------------------------------------------------------------------------
LiveStep ==
    \/ AllocateCoordinatorEpoch
    \/ BeginTransaction
    \/ \E tx \in DOMAIN active, p \in Pages : AppendTransactionPage(tx, p)
    \/ \E tx \in DOMAIN active : AppendTransactionCommit(tx)
    \/ \E p \in Pages : AppendRawPage(p)
    \/ FlushWal
    \/ \E q \in Positions : WritePageStore(q)
    \/ \E a \in Anchors : PublishCheckpoint(a)

ReplacementStep ==
    \/ \E a \in CandidateAnchors : BeginCheckpointCandidate(a)
    \/ AdvanceCheckpointCandidate
    \/ \E e \in CandidateEntries : SetCheckpointCandidateEntry(e)
    \/ BeginWalCandidate
    \/ AdvanceWalCandidate
    \/ \E e \in CandidateEntries : SetWalCandidateEntry(e)

CrashStep ==
    \/ \E preserveTail \in TailOutcomes : Crash(preserveTail)
    \/ \E w, c \in SelectedEntries : SetSelectedEntriesForOpen(w, c)
    \/ \E a \in CandidateAnchors, e \in CandidateEntries :
            SetCheckpointCandidateForOpen(a, e)
    \/ \E e \in CandidateEntries : SetWalCandidateForOpen(e)

RecoveryStep ==
    \/ Reopen
    \/ Select
    \/ PlanReplay
    \/ RepairPages
    \/ RestoreTransactions
    \/ Complete

RetentionStep == AnalyzeRetention \/ Reclaim

Next == LiveStep \/ ReplacementStep \/ CrashStep \/ RecoveryStep \/ RetentionStep

Spec == Init /\ [][Next]_vars

(* The caller of the crashed database keeps driving recovery forward.       *)
Fairness == WF_vars(RecoveryStep)
FairSpec == Spec /\ Fairness
============================================================================
