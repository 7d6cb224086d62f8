-------------------------- MODULE RecoverySafety --------------------------
(***************************************************************************)
(* Proofs about the recovery model, for every value of its constants: its  *)
(* types, and from the inductive invariant IInv of RecoveryInvariant the   *)
(* write-ahead rule, the commit markers and the epochs.                    *)
(***************************************************************************)
EXTENDS RecoveryInvariant, ExtremaProofs

USE BoundsAssumption
    DEF Positions, Epochs, ReplacementStages, AttemptStages, AfterDirectorySync

----------------------------------------------------------------------------
(* Partial functions over positions and over transactions.                  *)

(* A log is a function from some positions to records.                      *)
LEMMA WalsElim ==
    ASSUME NEW w \in Wals
    PROVE  /\ DOMAIN w \in SUBSET Positions
           /\ \A q \in DOMAIN w : w[q] \in WalRecord
           /\ w \in [DOMAIN w -> WalRecord]
<1>1. PICK S \in SUBSET Positions : w \in [S -> WalRecord]
  BY DEF Wals
<1>. QED  BY <1>1

(* Every function from some positions to records is a log.                  *)
LEMMA WalsIntro ==
    ASSUME NEW S \in SUBSET Positions, NEW w \in [S -> WalRecord]
    PROVE  w \in Wals
BY DEF Wals

(* A transaction table maps some identities to sets of positions.           *)
LEMMA TablesElim ==
    ASSUME NEW t \in TransactionTables
    PROVE  /\ DOMAIN t \in SUBSET TransactionIds
           /\ \A tx \in DOMAIN t : t[tx] \in SUBSET Positions
           /\ t \in [DOMAIN t -> SUBSET Positions]
<1>1. PICK S \in SUBSET TransactionIds : t \in [S -> SUBSET Positions]
  BY DEF TransactionTables
<1>. QED  BY <1>1

(* Every function from some identities to sets of positions is a table.     *)
LEMMA TablesIntro ==
    ASSUME NEW S \in SUBSET TransactionIds, NEW t \in [S -> SUBSET Positions]
    PROVE  t \in TransactionTables
BY DEF TransactionTables

(* The table a crash leaves has the type.                                   *)
LEMMA EmptyTable == [tx \in {} |-> {}] \in TransactionTables
<1>1. [tx \in {} |-> {}] \in [{} -> SUBSET Positions]
  OBVIOUS
<1>. QED  BY <1>1, TablesIntro

(* The log of a new database has the type.                                  *)
LEMMA EmptyWal == [q \in {} |-> None] \in Wals
<1>1. [q \in {} |-> None] \in [{} -> WalRecord]
  OBVIOUS
<1>. QED  BY <1>1, WalsIntro

(* Dropping records of a log (crash, reclaim) keeps the others.             *)
LEMMA RestrictWal ==
    ASSUME NEW w \in Wals, NEW S \in SUBSET DOMAIN w
    PROVE  /\ Restrict(w, S) \in Wals
           /\ DOMAIN Restrict(w, S) = S
           /\ \A q \in S : Restrict(w, S)[q] = w[q]
<1>1. S \in SUBSET Positions /\ \A q \in S : w[q] \in WalRecord
  BY WalsElim
<1>2. Restrict(w, S) \in [S -> WalRecord]
  BY <1>1 DEF Restrict
<1>. QED  BY <1>1, <1>2, WalsIntro DEF Restrict

(* Appending a record keeps the others.                                     *)
LEMMA PutWal ==
    ASSUME NEW w \in Wals, NEW q \in Positions, NEW r \in WalRecord
    PROVE  /\ Put(w, q, r) \in Wals
           /\ DOMAIN Put(w, q, r) = DOMAIN w \cup {q}
           /\ Put(w, q, r)[q] = r
           /\ \A p \in DOMAIN w \ {q} : Put(w, q, r)[p] = w[p]
<1>1. DOMAIN w \cup {q} \in SUBSET Positions /\ \A p \in DOMAIN w : w[p] \in WalRecord
  BY WalsElim
<1>2. Put(w, q, r) \in [DOMAIN w \cup {q} -> WalRecord]
  BY <1>1 DEF Put
<1>. QED  BY <1>1, <1>2, WalsIntro DEF Put

(* Latest returns the greatest member, in the range of positions.           *)
LEMMA LatestInRange ==
    ASSUME NEW S \in SUBSET (0 .. MaxPosition)
    PROVE  /\ Latest(S) \in 0 .. MaxPosition
           /\ S # {} => Latest(S) \in S
           /\ \A q \in S : q <= Latest(S)
<1>1. S = {} => Latest(S) = 0
  BY LatestIsLast
<1>2. CASE S = {}
  BY <1>1, <1>2
<1>3. CASE S # {}
  <2>1. IsLatest(Latest(S), S)
    BY <1>3, LatestIsLast
  <2>. QED  BY <1>3, <2>1 DEF IsLatest
<1>. QED  BY <1>2, <1>3

(* Earliest returns the least member, in the range of positions.            *)
LEMMA EarliestInRange ==
    ASSUME NEW S \in SUBSET (0 .. MaxPosition)
    PROVE  /\ Earliest(S) \in 0 .. MaxPosition
           /\ S # {} => Earliest(S) \in S
           /\ \A q \in S : Earliest(S) <= q
<1>1. S = {} => Earliest(S) = 0
  BY EarliestIsFirst
<1>2. CASE S = {}
  BY <1>1, <1>2
<1>3. CASE S # {}
  <2>1. IsEarliest(Earliest(S), S)
    BY <1>3, EarliestIsFirst
  <2>. QED  BY <1>3, <2>1 DEF IsEarliest
<1>. QED  BY <1>2, <1>3

----------------------------------------------------------------------------
(* The values the operations compute have the types of the state.           *)

(* The durable records are records of the log, at positions.                *)
LEMMA DurableRange ==
    ASSUME TypeOK
    PROVE  DurablePositions \in SUBSET (DOMAIN wal) /\ DOMAIN wal \in SUBSET (1 .. MaxPosition)
BY WalsElim DEF TypeOK, DurablePositions

(* What publish_checkpoint builds is a checkpoint snapshot.                 *)
LEMMA CheckpointImageType ==
    ASSUME TypeOK, NEW anchor \in Anchors
    PROVE  CheckpointImage(anchor) \in CheckpointSnapshot
<1>. DEFINE S == DOMAIN active \cup DOMAIN persisted
            table == [tx \in S |-> IF tx \in DOMAIN active THEN active[tx] ELSE persisted[tx]]
<1>1. ReplayStart \in 0 .. MaxPosition
  <2>. DEFINE behind == {q \in DurablePositions : IsPage(wal[q]) /\ store[wal[q].page] < q}
  <2>1. behind \in SUBSET (0 .. MaxPosition)
    BY DurableRange
  <2>2. Earliest(behind) \in 0 .. MaxPosition
    BY <2>1, EarliestInRange
  <2>. QED  BY <2>2 DEF ReplayStart
<1>2. table \in TransactionTables
  <2>1. S \in SUBSET TransactionIds /\ table \in [S -> SUBSET Positions]
    BY TablesElim DEF TypeOK
  <2>. QED  BY <2>1, TablesIntro
<1>. QED
  BY <1>1, <1>2 DEF CheckpointImage, CheckpointSnapshot, TypeOK

(* What repair_pages chooses from are positions.                            *)
LEMMA RepairType ==
    ASSUME TypeOK
    PROVE  \A p \in Pages : RepairSources(p) \in SUBSET (0 .. MaxPosition)
<1>. SUFFICES ASSUME NEW p \in Pages
             PROVE  RepairSources(p) \in SUBSET (0 .. MaxPosition)
  OBVIOUS
<1>1. store[p] \in 0 .. MaxPosition
  BY DEF TypeOK, PageImages
<1>2. selected # None => selected.pages[p] \in 0 .. MaxPosition
  BY DEF TypeOK, CheckpointSnapshot, PageImages
<1>3. plan \in SUBSET (0 .. MaxPosition)
  BY DEF TypeOK
<1>. QED  BY <1>1, <1>2, <1>3 DEF RepairSources

(* What restore_transactions rebuilds is a transaction table.               *)
LEMMA RestoredType ==
    ASSUME TypeOK, plan \subseteq DurablePositions
    PROVE  /\ RestoredTransactions \in TransactionTables
           /\ PlannedCommits \in SUBSET TransactionIds
<1>. DEFINE owners == {wal[q].transaction : q \in {r \in plan : wal[r].kind = "TransactionPage"}}
            S == (DOMAIN SeededTransactions \cup owners) \ PlannedCommits
            T == [tx \in S |->
                    (IF tx \in DOMAIN SeededTransactions THEN SeededTransactions[tx] ELSE {})
                        \cup PlannedPages(tx)]
<1>1. \A q \in plan : wal[q] \in WalRecord /\ q \in Positions
  BY DurableRange, WalsElim DEF TypeOK
<1>2. owners \in SUBSET TransactionIds /\ PlannedCommits \in SUBSET TransactionIds
  BY <1>1 DEF PlannedCommits, WalRecord
<1>3. SeededTransactions \in TransactionTables
  BY EmptyTable DEF SeededTransactions, TypeOK, CheckpointSnapshot
<1>4. /\ DOMAIN SeededTransactions \in SUBSET TransactionIds
      /\ \A tx \in DOMAIN SeededTransactions : SeededTransactions[tx] \in SUBSET Positions
  BY <1>3, TablesElim
<1>5. \A tx : PlannedPages(tx) \in SUBSET Positions
  BY <1>1 DEF PlannedPages
<1>6. S \in SUBSET TransactionIds /\ T \in [S -> SUBSET Positions]
  BY <1>2, <1>4, <1>5
<1>7. T \in TransactionTables
  BY <1>6, TablesIntro
<1>. QED  BY <1>2, <1>7 DEF RestoredTransactions

(* An append stays within the positions.                                    *)
LEMMA AppendType ==
    ASSUME TypeOK, NEW record \in WalRecord, AppendRecord(record)
    PROVE  /\ wal' \in Wals
           /\ nextPosition' \in 1 .. MaxPosition + 1
           /\ nextPosition \in Positions
<1>1. nextPosition \in Positions /\ nextPosition' = nextPosition + 1
  BY DEF AppendRecord, Available, TypeOK
<1>2. wal' = Put(wal, nextPosition, record) /\ wal \in Wals
  BY DEF AppendRecord, TypeOK
<1>3. wal' \in Wals
  BY <1>1, <1>2, PutWal
<1>4. nextPosition' \in 1 .. MaxPosition + 1
  BY <1>1
<1>. QED  BY <1>1, <1>3, <1>4

(* Installing a typed replacement leaves a typed log and header.            *)
LEMMA InstallType ==
    ASSUME TypeOK, NEW replacement \in Headers, NEW suffix \in Wals,
           Install(replacement, suffix)
    PROVE  /\ header' \in Headers
           /\ wal' \in Wals
           /\ flush' \in 0 .. MaxPosition
           /\ logicalHighWater' \in 0 .. MaxPosition
           /\ epochHighWater' \in 0 .. MaxEpoch
BY DEF Install, Headers

(* Marking the completion evidence stale keeps its type.                    *)
LEMMA StaleType ==
    ASSUME TypeOK, MarkCompletionStale
    PROVE  evidence' \in [frontier : 0 .. MaxPosition, generation : 0 .. MaxGeneration,
                           anchor : Anchors \cup {None}, epochHighWater : 0 .. MaxEpoch,
                           stale : BOOLEAN] \cup {None}
BY DEF TypeOK, MarkCompletionStale

(* What reclaim derives is a header and a log.                              *)
LEMMA ReplacementType ==
    ASSUME TypeOK, ReclamationReady
    PROVE  /\ ReplacementHeader \in Headers
           /\ Restrict(wal, Retained) \in Wals
<1>1. Retained \in SUBSET DOMAIN wal
  BY DEF Retained
<1>2. Restrict(wal, Retained) \in Wals
  BY <1>1, RestrictWal DEF TypeOK
<1>3. analysis \in [retainedFirst : 0 .. MaxPosition, anchor : Anchors]
  BY DEF TypeOK, ReclamationReady
<1>4. header.generation + 1 \in 0 .. MaxGeneration
  BY DEF TypeOK, ReclamationReady, Headers
<1>. QED  BY <1>2, <1>3, <1>4 DEF ReplacementHeader, Headers, TypeOK

----------------------------------------------------------------------------
(* Live operations keep the types: one step per operation.                  *)
LEMMA LiveStepType ==
    ASSUME TypeInv, LiveStep
    PROVE  TypeOK'
<1>. USE DEF TypeInv
<1>1. CASE AllocateCoordinatorEpoch
  BY <1>1, StaleType
     DEF AllocateCoordinatorEpoch, Available, TypeOK, walVars, transactionVars,
         checkpointVars, candidateVars, entryVars
<1>2. CASE BeginTransaction
  <2>. DEFINE id == [epoch |-> currentEpoch, sequence |-> nextSequence]
  <2>1. id \in TransactionIds
    BY <1>2 DEF BeginTransaction, TypeOK, TransactionIds
  <2>2. Put(active, id, {}) \in [DOMAIN active \cup {id} -> SUBSET Positions]
    BY TablesElim DEF TypeOK, Put
  <2>3. active' \in TransactionTables
    BY <1>2, <2>1, <2>2, TablesElim, TablesIntro DEF BeginTransaction, TypeOK
  <2>. QED
    BY <1>2, <2>3, StaleType
       DEF BeginTransaction, TypeOK, walVars, checkpointVars, candidateVars, entryVars
<1>3. ASSUME NEW tx \in DOMAIN active, NEW p \in Pages, AppendTransactionPage(tx, p)
      PROVE  TypeOK'
  <2>. DEFINE record == [kind |-> "TransactionPage", transaction |-> tx, page |-> p]
  <2>1. record \in WalRecord /\ AppendRecord(record)
    BY <1>3, TablesElim DEF AppendTransactionPage, WalRecord, TypeOK
  <2>2. active' \in [DOMAIN active -> SUBSET Positions]
    BY <1>3, <2>1, AppendType, TablesElim DEF AppendTransactionPage, TypeOK
  <2>3. active' \in TransactionTables
    BY <2>2, TablesElim, TablesIntro DEF TypeOK
  <2>. HIDE DEF record
  <2>. QED
    BY <1>3, <2>1, <2>3, AppendType, StaleType
       DEF AppendTransactionPage, AppendRecord, TypeOK, epochVars, checkpointVars, candidateVars,
           entryVars
<1>4. ASSUME NEW tx \in DOMAIN active, AppendTransactionCommit(tx)
      PROVE  TypeOK'
  <2>. DEFINE record == [kind |-> "TransactionCommit", transaction |-> tx, page |-> None]
  <2>1. record \in WalRecord /\ AppendRecord(record) /\ tx \in TransactionIds
    BY <1>4, TablesElim DEF AppendTransactionCommit, WalRecord, TypeOK
  <2>2. active' \in [DOMAIN active \ {tx} -> SUBSET Positions]
    BY <1>4, TablesElim DEF AppendTransactionCommit, TypeOK, Restrict
  <2>3. active' \in TransactionTables
    BY <2>2, TablesElim, TablesIntro DEF TypeOK
  <2>. HIDE DEF record
  <2>. QED
    BY <1>4, <2>1, <2>3, AppendType, StaleType
       DEF AppendTransactionCommit, AppendRecord, TypeOK, epochVars, checkpointVars,
           candidateVars, entryVars
<1>5. ASSUME NEW p \in Pages, AppendRawPage(p)
      PROVE  TypeOK'
  <2>. DEFINE record == [kind |-> "RawPage", transaction |-> None, page |-> p]
  <2>1. record \in WalRecord /\ AppendRecord(record)
    BY <1>5 DEF AppendRawPage, WalRecord
  <2>. HIDE DEF record
  <2>. QED
    BY <1>5, <2>1, AppendType, StaleType
       DEF AppendRawPage, AppendRecord, TypeOK, epochVars, checkpointVars, candidateVars, entryVars
<1>6. CASE FlushWal
  <2>1. Latest(DOMAIN wal) \in 0 .. MaxPosition
    BY DurableRange, LatestInRange
  <2>. QED
    BY <1>6, <2>1
       DEF FlushWal, TypeOK, epochVars, transactionVars, checkpointVars, recoveryVars,
           candidateVars, entryVars
<1>7. ASSUME NEW q \in Positions, WritePageStore(q)
      PROVE  TypeOK'
  <2>1. store' \in PageImages
    <3>1. store \in [Pages -> 0 .. MaxPosition] /\ q \in 0 .. MaxPosition
      BY DEF TypeOK, PageImages
    <3>2. store' = [store EXCEPT ![wal[q].page] = q]
      BY <1>7 DEF WritePageStore
    <3>. QED  BY <3>1, <3>2 DEF PageImages
  <2>. QED
    BY <1>7, <2>1, StaleType
       DEF WritePageStore, TypeOK, walVars, epochVars, transactionVars, checkpointVars,
           candidateVars, entryVars
<1>8. ASSUME NEW a \in Anchors, PublishCheckpoint(a)
      PROVE  TypeOK'
  BY <1>8, CheckpointImageType, StaleType
     DEF PublishCheckpoint, TypeOK, walVars, epochVars, transactionVars, candidateVars,
         entryVars
<1>. QED
  BY <1>1, <1>2, <1>3, <1>4, <1>5, <1>6, <1>7, <1>8 DEF LiveStep

(* Every stage of a replacement leaves a known file state.                  *)
LEMMA EntryAfterType == \A stage \in Nat : EntryAfter(stage) \in CandidateEntryStates
BY DEF EntryAfter, CandidateEntryStates, EntryStates, AfterCreate, BeforeRename

(* The steps of file replacement keep the types.                            *)
LEMMA ReplacementStepType ==
    ASSUME TypeInv, ReplacementStep
    PROVE  TypeOK'
<1>. USE DEF TypeInv
<1>1. ASSUME NEW a \in CandidateAnchors, BeginCheckpointCandidate(a)
      PROVE  TypeOK'
  <2>1. a \in Anchors
    BY InputsAssumption
  <2>2. checkpointCandidate' \in
          [snapshot : CheckpointSnapshot, stage : AttemptStages,
           entry : CandidateEntryStates]
    BY <1>1, <2>1, CheckpointImageType
       DEF BeginCheckpointCandidate, BeforeCleanup, CandidateEntryStates
  <2>. QED
    BY <1>1, <2>2, StaleType
       DEF BeginCheckpointCandidate, TypeOK, walVars, epochVars, transactionVars,
           checkpointVars, entryVars
<1>2. CASE AdvanceCheckpointCandidate
  <2>. DEFINE Attempts == [snapshot : CheckpointSnapshot, stage : AttemptStages,
                           entry : CandidateEntryStates]
              next == checkpointCandidate.stage + 1
  <2>1. checkpointCandidate \in Attempts
    BY <1>2 DEF AdvanceCheckpointCandidate, TypeOK
  <2>2. next \in Nat /\ (next # AfterDirectorySync => next \in AttemptStages)
    BY <2>1
  <2>3. EntryAfter(next) \in CandidateEntryStates
    BY <2>2, EntryAfterType
  <2>4. checkpointCandidate' \in Attempts \cup {None}
    BY <1>2, <2>1, <2>2, <2>3 DEF AdvanceCheckpointCandidate
  <2>5. slot' \in CheckpointSnapshot \cup {None}
    BY <1>2, <2>1 DEF AdvanceCheckpointCandidate, TypeOK
  <2>. QED
    BY <1>2, <2>4, <2>5, StaleType
       DEF AdvanceCheckpointCandidate, TypeOK, walVars, epochVars, transactionVars, entryVars
<1>3. ASSUME NEW e \in CandidateEntries, SetCheckpointCandidateEntry(e)
      PROVE  TypeOK'
  <2>1. e \in CandidateEntryStates
    BY InputsAssumption
  <2>. QED
    BY <1>3, <2>1
       DEF SetCheckpointCandidateEntry, TypeOK, walVars, epochVars, transactionVars,
           checkpointVars, recoveryVars, entryVars
<1>4. CASE BeginWalCandidate
  <2>1. walCandidate' \in [header : Headers, suffix : Wals, stage : AttemptStages,
                           entry : CandidateEntryStates]
    BY <1>4, ReplacementType DEF BeginWalCandidate, BeforeCleanup, CandidateEntryStates
  <2>. QED
    BY <1>4, <2>1
       DEF BeginWalCandidate, TypeOK, walVars, epochVars, transactionVars, checkpointVars,
           recoveryVars, entryVars
<1>5. CASE AdvanceWalCandidate
  <2>. DEFINE Attempts == [header : Headers, suffix : Wals, stage : AttemptStages,
                           entry : CandidateEntryStates]
              next == walCandidate.stage + 1
  <2>1. walCandidate \in Attempts
    BY <1>5 DEF AdvanceWalCandidate, TypeOK
  <2>2. /\ next \in Nat /\ EntryAfter(next) \in CandidateEntryStates
        /\ next # AfterDirectorySync => next \in AttemptStages
    BY <2>1, EntryAfterType
  <2>3. walCandidate' \in Attempts \cup {None}
    BY <1>5, <2>1, <2>2 DEF AdvanceWalCandidate
  <2>4. /\ header' \in Headers
        /\ wal' \in Wals
        /\ flush' \in 0 .. MaxPosition
        /\ logicalHighWater' \in 0 .. MaxPosition
        /\ epochHighWater' \in 0 .. MaxEpoch
    BY <1>5, <2>1, InstallType DEF AdvanceWalCandidate, TypeOK
  <2>. QED
    BY <1>5, <2>3, <2>4
       DEF AdvanceWalCandidate, TypeOK, transactionVars, checkpointVars, recoveryVars,
           entryVars
<1>6. ASSUME NEW e \in CandidateEntries, SetWalCandidateEntry(e)
      PROVE  TypeOK'
  <2>1. e \in CandidateEntryStates
    BY InputsAssumption
  <2>. QED
    BY <1>6, <2>1
       DEF SetWalCandidateEntry, TypeOK, walVars, epochVars, transactionVars,
           checkpointVars, recoveryVars, entryVars
<1>. QED
  BY <1>1, <1>2, <1>3, <1>4, <1>5, <1>6 DEF ReplacementStep

(* A crash and what it leaves on disk keep the types.                       *)
LEMMA CrashStepType ==
    ASSUME TypeInv, CrashStep
    PROVE  TypeOK'
<1>. USE DEF TypeInv
<1>1. ASSUME NEW preserve \in TailOutcomes, Crash(preserve)
      PROVE  TypeOK'
  <2>1. wal' \in Wals
    BY <1>1, DurableRange, RestrictWal DEF Crash, TypeOK
  <2>. QED
    BY <1>1, <2>1, EmptyTable
       DEF Crash, TypeOK, candidateVars, entryVars, AllFree, Phases
<1>2. ASSUME NEW w \in SelectedEntries, NEW c \in SelectedEntries,
             SetSelectedEntriesForOpen(w, c)
      PROVE  TypeOK'
  BY <1>2, InputsAssumption
     DEF SetSelectedEntriesForOpen, TypeOK, walVars, epochVars, transactionVars,
         checkpointVars, recoveryVars, candidateVars
<1>3. ASSUME NEW a \in CandidateAnchors, NEW e \in CandidateEntries,
             SetCheckpointCandidateForOpen(a, e)
      PROVE  TypeOK'
  <2>1. a \in Anchors /\ e \in CandidateEntryStates
    BY InputsAssumption
  <2>2. checkpointCandidate' \in
          [snapshot : CheckpointSnapshot, stage : AttemptStages,
           entry : CandidateEntryStates]
    BY <1>3, <2>1, CheckpointImageType DEF SetCheckpointCandidateForOpen, BeforeRename
  <2>. QED
    BY <1>3, <2>2
       DEF SetCheckpointCandidateForOpen, TypeOK, walVars, epochVars, transactionVars,
           checkpointVars, recoveryVars, entryVars
<1>4. ASSUME NEW e \in CandidateEntries, SetWalCandidateForOpen(e)
      PROVE  TypeOK'
  <2>1. e \in CandidateEntryStates
    BY InputsAssumption
  <2>2. Earliest(DurablePositions) \in 0 .. MaxPosition
    BY DurableRange, EarliestInRange
  <2>3. Restrict(wal, DurablePositions) \in Wals
    BY DurableRange, RestrictWal DEF TypeOK
  <2>4. header.generation + 1 \in 0 .. MaxGeneration /\ slot.anchor \in Anchors
    BY <1>4 DEF SetWalCandidateForOpen, TypeOK, Headers, CheckpointSnapshot
  <2>5. walCandidate' \in [header : Headers, suffix : Wals, stage : AttemptStages,
                           entry : CandidateEntryStates]
    BY <1>4, <2>1, <2>2, <2>3, <2>4 DEF SetWalCandidateForOpen, BeforeRename, TypeOK, Headers
  <2>. QED
    BY <1>4, <2>5
       DEF SetWalCandidateForOpen, TypeOK, walVars, epochVars, transactionVars,
           checkpointVars, recoveryVars, entryVars
<1>. QED
  BY <1>1, <1>2, <1>3, <1>4 DEF CrashStep

(* Reopening and recovery keep the types.                                   *)
LEMMA RecoveryStepType ==
    ASSUME TypeInv, RecoveryStep
    PROVE  TypeOK'
<1>. USE DEF TypeInv
<1>1. CASE Reopen
  BY <1>1
     DEF Reopen, TypeOK, walVars, epochVars, transactionVars, checkpointVars, recoveryVars,
         entryVars, AllRecovery, Phases
<1>2. CASE Select
  BY <1>2
     DEF Select, TypeOK, walVars, epochVars, transactionVars, recoveryVars, candidateVars,
         entryVars, Phases
<1>3. CASE PlanReplay
  <2>1. plan' \subseteq 1 .. MaxPosition
    BY <1>3, DurableRange DEF PlanReplay
  <2>. QED
    BY <1>3, <2>1
       DEF PlanReplay, TypeOK, walVars, epochVars, transactionVars, checkpointVars,
           candidateVars, entryVars, Phases
<1>4. CASE RepairPages
  <2>1. \A p \in Pages : Latest(RepairSources(p)) \in 0 .. MaxPosition
    BY RepairType, LatestInRange
  <2>2. store' \in PageImages
    BY <1>4, <2>1 DEF RepairPages, PageImages
  <2>. QED
    BY <1>4, <2>2
       DEF RepairPages, TypeOK, walVars, epochVars, transactionVars, checkpointVars,
           recoveryVars, candidateVars, entryVars, Phases
<1>5. CASE RestoreTransactions
  <2>1. plan \subseteq DurablePositions
    BY <1>5 DEF RestoreTransactions, PlanDurable
  <2>2. FreshEpoch \in 1 .. MaxEpoch
    BY <1>5
       DEF RestoreTransactions, Available, FreshEpoch, PersistedEpochHighWater, TypeOK,
           CheckpointSnapshot
  <2>. QED
    BY <1>5, <2>1, <2>2, RestoredType, EmptyTable
       DEF RestoreTransactions, TypeOK, walVars, checkpointVars, recoveryVars,
           candidateVars, entryVars, Phases
<1>6. CASE Complete
  <2>1. evidence' \in [frontier : 0 .. MaxPosition, generation : 0 .. MaxGeneration,
                       anchor : Anchors \cup {None}, epochHighWater : 0 .. MaxEpoch,
                       stale : BOOLEAN]
    BY <1>6 DEF Complete, TypeOK, Headers, CheckpointSnapshot
  <2>. QED
    BY <1>6, <2>1
       DEF Complete, TypeOK, walVars, epochVars, transactionVars, checkpointVars,
           candidateVars, entryVars, AllLive, Phases
<1>. QED
  BY <1>1, <1>2, <1>3, <1>4, <1>5, <1>6 DEF RecoveryStep

(* Retention analysis and reclamation keep the types.                       *)
LEMMA RetentionStepType ==
    ASSUME TypeInv, RetentionStep
    PROVE  TypeOK'
<1>. USE DEF TypeInv
<1>1. CASE AnalyzeRetention
  <2>1. RetentionConstraints \in SUBSET (0 .. MaxPosition)
    BY <1>1, DurableRange DEF AnalyzeRetention
  <2>2. Earliest(RetentionConstraints) \in 0 .. MaxPosition
    BY <2>1, EarliestInRange
  <2>3. analysis' \in [retainedFirst : 0 .. MaxPosition, anchor : Anchors]
    BY <1>1, <2>2 DEF AnalyzeRetention, TypeOK, CheckpointSnapshot
  <2>. QED
    BY <1>1, <2>3
       DEF AnalyzeRetention, TypeOK, walVars, epochVars, transactionVars, checkpointVars,
           candidateVars, entryVars, Phases
<1>2. CASE Reclaim
  <2>1. /\ header' \in Headers
        /\ wal' \in Wals
        /\ flush' \in 0 .. MaxPosition
        /\ logicalHighWater' \in 0 .. MaxPosition
        /\ epochHighWater' \in 0 .. MaxEpoch
    BY <1>2, ReplacementType, InstallType DEF Reclaim
  <2>. QED
    BY <1>2, <2>1
       DEF Reclaim, TypeOK, transactionVars, checkpointVars, candidateVars, entryVars, Phases
<1>. QED
  BY <1>1, <1>2 DEF RetentionStep

----------------------------------------------------------------------------
(* A planned record stays durable until recovery has used it, and no        *)
(* replacement starts before recovery is complete.                          *)
LEMMA PlanInvStep ==
    ASSUME TypeInv, Next
    PROVE  PlanDurable' /\ NoCandidateInRecovery'
<1>. USE DEF TypeInv, PlanDurable, NoCandidateInRecovery, Recovering
<1>1. CASE LiveStep
  <2>1. phase \in {"Live", "CompleteLive"} /\ phase' = phase
    BY <1>1
       DEF LiveStep, AllocateCoordinatorEpoch, BeginTransaction, AppendTransactionPage,
           AppendTransactionCommit, AppendRawPage, AppendRecord, FlushWal, WritePageStore,
           PublishCheckpoint, LiveOrComplete
  <2>. QED  BY <2>1
<1>2. CASE ReplacementStep
  <2>1. phase' = phase /\ phase \notin Recovering
    BY <1>2
       DEF ReplacementStep, BeginCheckpointCandidate, AdvanceCheckpointCandidate,
           SetCheckpointCandidateEntry, BeginWalCandidate, AdvanceWalCandidate,
           SetWalCandidateEntry, LiveOrComplete, ReclamationReady
  <2>. QED  BY <2>1
<1>3. CASE CrashStep
  <2>1. phase' = "Crashed"
    BY <1>3
       DEF CrashStep, Crash, SetSelectedEntriesForOpen, SetCheckpointCandidateForOpen,
           SetWalCandidateForOpen
  <2>. QED  BY <2>1
<1>4. CASE RecoveryStep
  <2>1. wal' = wal /\ flush' = flush
    BY <1>4
       DEF RecoveryStep, Reopen, Select, PlanReplay, RepairPages, RestoreTransactions,
           Complete, walVars
  <2>2. DurablePositions' = DurablePositions
    BY <2>1 DEF DurablePositions
  <2>3. NoCandidateInRecovery'
    BY <1>4
       DEF RecoveryStep, Reopen, Select, PlanReplay, RepairPages, RestoreTransactions,
           Complete, candidateVars
  <2>4. PlanDurable'
    BY <1>4, <2>2
       DEF RecoveryStep, Reopen, Select, PlanReplay, RepairPages, RestoreTransactions,
           Complete, recoveryVars
  <2>. QED  BY <2>3, <2>4
<1>5. CASE RetentionStep
  <2>1. phase' \in {"RetentionAnalyzed", "Reclaimed"}
    BY <1>5 DEF RetentionStep, AnalyzeRetention, Reclaim
  <2>. QED  BY <2>1
<1>. QED
  BY <1>1, <1>2, <1>3, <1>4, <1>5 DEF Next

(* The initial state has the types.                                         *)
LEMMA TypeInvInit == Init => TypeInv
<1>. SUFFICES ASSUME Init PROVE TypeInv
  OBVIOUS
<1>1. wal \in Wals /\ active \in TransactionTables /\ persisted \in TransactionTables
  BY EmptyTable, EmptyWal DEF Init
<1>2. store \in PageImages
  BY DEF Init, PageImages
<1>3. header \in Headers
  BY DEF Init, Headers
<1>4. TypeOK
  BY <1>1, <1>2, <1>3 DEF Init, TypeOK, Phases, EntryStates, AllLive
<1>. QED
  BY <1>4 DEF Init, TypeInv, PlanDurable, NoCandidateInRecovery, Recovering

(* Every step, and every stuttering step, keeps the type invariant.         *)
LEMMA TypeInvStep == TypeInv /\ [Next]_vars => TypeInv'
<1>1. ASSUME TypeInv, Next PROVE TypeInv'
  <2>1. TypeOK'
    BY <1>1, LiveStepType, ReplacementStepType, CrashStepType, RecoveryStepType,
       RetentionStepType DEF Next
  <2>. QED  BY <1>1, <2>1, PlanInvStep DEF TypeInv
<1>2. ASSUME TypeInv, UNCHANGED vars PROVE TypeInv'
  <2>1. TypeOK'
    BY <1>2
       DEF vars, TypeInv, TypeOK, walVars, epochVars, transactionVars, checkpointVars,
           recoveryVars, candidateVars, entryVars
  <2>2. PlanDurable' /\ NoCandidateInRecovery'
    BY <1>2
       DEF vars, TypeInv, PlanDurable, NoCandidateInRecovery, DurablePositions, walVars,
           recoveryVars, candidateVars
  <2>. QED  BY <2>1, <2>2 DEF TypeInv
<1>. QED  BY <1>1, <1>2

(* Every reachable state of the recovery model is typed as its Rust fields  *)
(* are: no allocator, frontier or stage leaves its range, whatever crash,   *)
(* replacement or recovery step the callers interleave.                     *)
THEOREM TypeCorrect == Spec => []TypeOK
<1>1. Spec => []TypeInv
  BY TypeInvInit, TypeInvStep, PTL DEF Spec
<1>2. TypeInv => TypeOK
  BY DEF TypeInv
<1>. QED  BY <1>1, <1>2, PTL

USE DEF AfterCurrentReplace

(* A record names a transaction unless it is a raw page.                    *)
LEMMA RecordTransaction ==
    ASSUME NEW r \in WalRecord
    PROVE  /\ r.kind # "RawPage" => r.transaction \in TransactionIds
           /\ r.kind = "RawPage" => r.transaction = None
           /\ r.kind = "TransactionCommit" => r.kind # "RawPage"
           /\ r.kind = "TransactionPage" => r.kind # "RawPage"
BY DEF WalRecord

(* Identities are pairs of integers, different from None.                   *)
LEMMA TransactionIdFields ==
    /\ None \notin TransactionIds
    /\ \A tx \in TransactionIds : tx.epoch \in 1 .. MaxEpoch /\ tx.sequence \in 1 .. MaxSequence
BY NoneAssumption DEF TransactionIds

----------------------------------------------------------------------------
(* The log between two states: nothing happened to it, records were dropped *)
(* from it, or one was appended.                                            *)

WalShrinks ==
    /\ DOMAIN wal' \in SUBSET DOMAIN wal
    /\ \A q \in DOMAIN wal' : wal'[q] = wal[q]

(* Restricting the log drops records and changes none.                      *)
LEMMA RestrictShrinks ==
    ASSUME TypeOK, NEW S \in SUBSET DOMAIN wal, wal' = Restrict(wal, S)
    PROVE  WalShrinks /\ DOMAIN wal' = S
BY RestrictWal DEF TypeOK, WalShrinks

(* A log that lost records is still ordered and closed by its commits, if   *)
(* the coordinator goes on or is gone.                                      *)
LEMMA WalInvShrink ==
    ASSUME TypeOK, TypeOK', WalInv, WalShrinks,
           UNCHANGED <<nextPosition, nextEpoch, epochHighWater>>,
           logicalHighWater' = flush',
           \/ UNCHANGED <<currentEpoch, nextSequence, active>>
           \/ currentEpoch' = 0 /\ DOMAIN active' = {}
    PROVE  WalInv'
<1>. USE DEF WalInv, WalShrinks
<1>1. WalBelowNext' /\ FrontiersAgree' /\ CommitClosesTransaction'
  BY DEF WalBelowNext, FrontiersAgree, CommitClosesTransaction
<1>2. EpochsBounded'
  BY DEF EpochsBounded, TypeOK
<1>3. \A tx \in TransactionIds : Begun(tx) => Begun(tx)'
  BY TransactionIdFields DEF Begun
<1>4. \A q \in DOMAIN wal' : wal[q].kind # "RawPage" => wal[q].transaction \in TransactionIds
  BY WalsElim, RecordTransaction DEF TypeOK
<1>5. \A tx \in DOMAIN active : tx \in TransactionIds
  BY TablesElim DEF TypeOK
<1>6. IdentitiesBegun'
  BY <1>3, <1>4, <1>5 DEF IdentitiesBegun
<1>7. ActiveUncommitted'
  BY DEF ActiveUncommitted, IsCommitOf
<1>. QED  BY <1>1, <1>2, <1>6, <1>7

(* Nothing that the log invariant speaks of changed.                        *)
LEMMA WalInvUnchanged ==
    ASSUME TypeOK, TypeOK', WalInv, UNCHANGED <<walVars, epochVars, active>>
    PROVE  WalInv'
<1>1. WalShrinks /\ logicalHighWater' = flush'
  BY DEF WalShrinks, walVars, WalInv, FrontiersAgree
<1>. QED  BY <1>1, WalInvShrink DEF walVars, epochVars

(* An append keeps every record and adds the one at nextPosition.           *)
LEMMA AppendGrows ==
    ASSUME TypeOK, WalInv, NEW record \in WalRecord, AppendRecord(record)
    PROVE  /\ DOMAIN wal' = DOMAIN wal \cup {nextPosition}
           /\ nextPosition \notin DOMAIN wal
           /\ wal'[nextPosition] = record
           /\ \A q \in DOMAIN wal : wal'[q] = wal[q]
           /\ \A q \in DOMAIN wal : q < nextPosition
           /\ nextPosition' = nextPosition + 1
           /\ nextPosition \in Positions
<1>. HIDE DEF Positions
<1>1. nextPosition \in Positions
  BY AppendType
<1>2. wal' = Put(wal, nextPosition, record) /\ wal \in Wals /\ nextPosition' = nextPosition + 1
  BY DEF AppendRecord, TypeOK
<1>3. /\ DOMAIN wal' = DOMAIN wal \cup {nextPosition}
      /\ wal'[nextPosition] = record
      /\ \A q \in DOMAIN wal \ {nextPosition} : wal'[q] = wal[q]
  <2>. DEFINE grown == Put(wal, nextPosition, record)
  <2>1. /\ DOMAIN grown = DOMAIN wal \cup {nextPosition}
        /\ grown[nextPosition] = record
        /\ \A q \in DOMAIN wal \ {nextPosition} : grown[q] = wal[q]
    BY ONLY <1>1, <1>2, PutWal, record \in WalRecord
  <2>. QED  BY ONLY <1>2, <2>1
<1>4. \A q \in DOMAIN wal : q < nextPosition /\ q \in Int
  BY DurableRange DEF WalInv, WalBelowNext
<1>5. nextPosition \notin DOMAIN wal
  BY <1>1, <1>4 DEF Positions
<1>. QED  BY <1>1, <1>2, <1>3, <1>4, <1>5

(* Appending the record of a begun transaction without a commit, or of      *)
(* none, keeps the log invariant; a commit removes its owner from active.   *)
LEMMA WalInvAppend ==
    ASSUME TypeOK, TypeOK', WalInv, NEW record \in WalRecord, AppendRecord(record),
           record.kind # "RawPage" => record.transaction \in DOMAIN active,
           DOMAIN active' \in SUBSET DOMAIN active,
           record.kind = "TransactionCommit" => record.transaction \notin DOMAIN active'
    PROVE  WalInv'
<1>. DEFINE new == nextPosition
<1>1. /\ DOMAIN wal' = DOMAIN wal \cup {new}
      /\ wal'[new] = record
      /\ \A q \in DOMAIN wal : wal'[q] = wal[q]
      /\ \A q \in DOMAIN wal : q < new
      /\ nextPosition' = new + 1
      /\ new \in Positions
  BY AppendGrows
<1>2. UNCHANGED <<flush, logicalHighWater, epochVars>>
  BY DEF AppendRecord
<1>3. \A q \in DOMAIN wal : q \in Int
  BY DurableRange
<1>4. WalBelowNext'
  <2>1. \A q \in DOMAIN wal : q < new + 1
    BY <1>1, <1>3
  <2>2. new < new + 1
    BY <1>1
  <2>. QED  BY <1>1, <2>1, <2>2 DEF WalBelowNext
<1>5. FrontiersAgree' /\ EpochsBounded'
  BY <1>2 DEF WalInv, FrontiersAgree, EpochsBounded, epochVars
<1>6. \A tx : Begun(tx) => Begun(tx)'
  BY <1>2 DEF Begun, epochVars
<1>7. IdentitiesBegun'
  BY <1>1, <1>6 DEF WalInv, IdentitiesBegun
<1>8. ActiveUncommitted'
  <2>. SUFFICES ASSUME NEW tx \in DOMAIN active', NEW q \in DOMAIN wal',
                       IsCommitOf(wal'[q], tx)
                PROVE  FALSE
    BY DEF ActiveUncommitted, IsCommitOf
  <2>1. tx \in DOMAIN active
    OBVIOUS
  <2>2. q \notin DOMAIN wal
    BY <1>1, <2>1 DEF WalInv, ActiveUncommitted
  <2>3. q = new
    BY <1>1, <2>2
  <2>. QED  BY <1>1, <2>3 DEF IsCommitOf
<1>9. CommitClosesTransaction'
  <2>. SUFFICES ASSUME NEW c \in DOMAIN wal', NEW q \in DOMAIN wal',
                       wal'[c].kind = "TransactionCommit",
                       wal'[q].transaction = wal'[c].transaction
                PROVE  q <= c
    BY DEF CommitClosesTransaction
  <2>1. CASE c = new
    BY <1>1, <1>3, <2>1
  <2>2. CASE c \in DOMAIN wal /\ q \in DOMAIN wal
    BY <1>1, <2>2 DEF WalInv, CommitClosesTransaction
  <2>3. CASE c \in DOMAIN wal /\ q = new
    <3>1. IsCommitOf(wal[c], record.transaction)
      BY <1>1, <2>3 DEF IsCommitOf
    <3>2. record.transaction \notin DOMAIN active
      BY <2>3, <3>1 DEF WalInv, ActiveUncommitted
    <3>3. record.transaction = None
      BY <3>2, RecordTransaction
    <3>4. wal[c] \in WalRecord
      BY <2>3, WalsElim DEF TypeOK
    <3>5. record.transaction \in TransactionIds
      BY <3>1, <3>4, RecordTransaction DEF IsCommitOf
    <3>. QED  BY <3>3, <3>5, TransactionIdFields
  <2>. QED  BY <1>1, <2>1, <2>2, <2>3
<1>. QED  BY <1>4, <1>5, <1>7, <1>8, <1>9 DEF WalInv

----------------------------------------------------------------------------
(* The replacement that a reclamation installs drops records and changes    *)
(* no frontier.                                                             *)
LEMMA ReclaimShrinks ==
    ASSUME TypeOK, WalInv, ReclamationReady,
           Install(ReplacementHeader, Restrict(wal, Retained))
    PROVE  /\ WalShrinks
           /\ DOMAIN wal' = Retained
           /\ UNCHANGED <<flush, logicalHighWater, epochHighWater>>
<1>1. Retained \in SUBSET DOMAIN wal
  BY DEF Retained
<1>2. wal' = Restrict(wal, Retained) /\ logicalHighWater = flush
  BY DEF Install, WalInv, FrontiersAgree
<1>3. WalShrinks /\ DOMAIN wal' = Retained
  BY <1>1, <1>2, RestrictShrinks
<1>. QED  BY <1>2, <1>3 DEF Install, ReplacementHeader

(* So does the rename of a stepwise replacement, because the candidate      *)
(* still agrees with the log it replaces.                                   *)
LEMMA RenameShrinks ==
    ASSUME TypeOK, WalInv, CandidateRetainsPages, AdvanceWalCandidate
    PROVE  /\ WalShrinks
           /\ UNCHANGED <<flush, logicalHighWater, epochHighWater>>
           /\ \A p \in Pages, q \in DurablePositions :
                 store[p] # 0 /\ store[p] <= q => q \in DOMAIN wal'
<1>1. CASE walCandidate.stage + 1 = AfterCurrentReplace
  <2>1. walCandidate # None /\ walCandidate.stage \in 0 .. 8
    BY DEF AdvanceWalCandidate, TypeOK
  <2>2. walCandidate.stage < AfterCurrentReplace
    BY <1>1, <2>1
  <2>3. /\ wal' = walCandidate.suffix
        /\ flush' = walCandidate.header.logicalHighWater
        /\ logicalHighWater' = walCandidate.header.logicalHighWater
        /\ epochHighWater' = walCandidate.header.epochHighWater
    BY <1>1 DEF AdvanceWalCandidate, Install
  <2>4. logicalHighWater = flush
    BY DEF WalInv, FrontiersAgree
  <2>. QED
    BY <2>1, <2>2, <2>3, <2>4 DEF CandidateRetainsPages, WalShrinks, DurablePositions
<1>2. CASE walCandidate.stage + 1 # AfterCurrentReplace
  <2>1. UNCHANGED <<header, wal, flush, logicalHighWater, epochHighWater>>
    BY <1>2 DEF AdvanceWalCandidate
  <2>. QED  BY <2>1 DEF WalShrinks, DurablePositions
<1>. QED  BY <1>1, <1>2

(* Live operations keep the log ordered, its commits closing and its        *)
(* identities begun.                                                        *)
LEMMA LiveStepWalInv ==
    ASSUME TypeOK, TypeOK', WalInv, LiveStep
    PROVE  WalInv'
<1>1. CASE AllocateCoordinatorEpoch
  <2>1. /\ UNCHANGED <<walVars, active>>
        /\ currentEpoch' = nextEpoch /\ nextEpoch' = nextEpoch + 1
        /\ epochHighWater' = nextEpoch
    BY <1>1 DEF AllocateCoordinatorEpoch, transactionVars, WalInv, EpochsBounded, TypeOK
  <2>2. EpochsBounded'
    BY <2>1 DEF EpochsBounded, TypeOK
  <2>3. \A tx \in TransactionIds : Begun(tx) => Begun(tx)'
    BY <2>1, TransactionIdFields DEF Begun, WalInv, EpochsBounded, TypeOK
  <2>4. \A q \in DOMAIN wal : wal[q].kind # "RawPage" => wal[q].transaction \in TransactionIds
    BY WalsElim, RecordTransaction DEF TypeOK
  <2>5. \A tx \in DOMAIN active : tx \in TransactionIds
    BY TablesElim DEF TypeOK
  <2>6. IdentitiesBegun'
    BY <2>1, <2>3, <2>4, <2>5 DEF IdentitiesBegun, WalInv, walVars
  <2>. QED
    BY <2>1, <2>2, <2>6
       DEF WalInv, walVars, WalBelowNext, FrontiersAgree, ActiveUncommitted, IsCommitOf,
           CommitClosesTransaction
<1>2. CASE BeginTransaction
  <2>0. PICK id : id = [epoch |-> currentEpoch, sequence |-> nextSequence]
    OBVIOUS
  <2>1. /\ UNCHANGED <<walVars, currentEpoch, nextEpoch, epochHighWater>>
        /\ nextSequence' = nextSequence + 1
        /\ DOMAIN active' = DOMAIN active \cup {id}
    BY <1>2, <2>0 DEF BeginTransaction, Put
  <2>2. nextSequence \in Nat
    BY DEF TypeOK
  <2>3. \A tx \in TransactionIds : Begun(tx) => Begun(tx)'
    BY <2>1, <2>2, TransactionIdFields DEF Begun
  <2>4. \A q \in DOMAIN wal : wal[q].kind # "RawPage" => wal[q].transaction \in TransactionIds
    BY WalsElim, RecordTransaction DEF TypeOK
  <2>5. \A tx \in DOMAIN active : tx \in TransactionIds
    BY TablesElim DEF TypeOK
  <2>6. Begun(id)' /\ ~Begun(id)
    BY <2>0, <2>1, <2>2 DEF Begun, WalInv, EpochsBounded
  <2>7. IdentitiesBegun'
    BY <2>1, <2>3, <2>4, <2>5, <2>6 DEF IdentitiesBegun, WalInv, walVars
  <2>8. \A q \in DOMAIN wal : ~IsCommitOf(wal[q], id)
    BY <2>6 DEF IsCommitOf, WalInv, IdentitiesBegun
  <2>9. ActiveUncommitted'
    BY <2>1, <2>8 DEF ActiveUncommitted, WalInv, walVars
  <2>. QED
    BY <2>1, <2>7, <2>9
       DEF WalInv, walVars, WalBelowNext, FrontiersAgree, EpochsBounded,
           CommitClosesTransaction
<1>3. ASSUME NEW tx \in DOMAIN active, NEW p \in Pages, AppendTransactionPage(tx, p)
      PROVE  WalInv'
  <2>. DEFINE record == [kind |-> "TransactionPage", transaction |-> tx, page |-> p]
  <2>1. record \in WalRecord /\ AppendRecord(record)
    BY <1>3, TablesElim DEF AppendTransactionPage, WalRecord, TypeOK
  <2>2. DOMAIN active' = DOMAIN active
    BY <1>3, TablesElim DEF AppendTransactionPage, TypeOK
  <2>3. record.transaction = tx /\ record.kind = "TransactionPage"
    OBVIOUS
  <2>. HIDE DEF record
  <2>. QED  BY <2>1, <2>2, <2>3, WalInvAppend
<1>4. ASSUME NEW tx \in DOMAIN active, AppendTransactionCommit(tx)
      PROVE  WalInv'
  <2>. DEFINE record == [kind |-> "TransactionCommit", transaction |-> tx, page |-> None]
  <2>1. record \in WalRecord /\ AppendRecord(record)
    BY <1>4, TablesElim DEF AppendTransactionCommit, WalRecord, TypeOK
  <2>2. DOMAIN active' = DOMAIN active \ {tx}
    BY <1>4, TablesElim DEF AppendTransactionCommit, TypeOK, Restrict
  <2>3. record.transaction = tx
    OBVIOUS
  <2>. HIDE DEF record
  <2>. QED  BY <2>1, <2>2, <2>3, WalInvAppend
<1>5. ASSUME NEW p \in Pages, AppendRawPage(p)
      PROVE  WalInv'
  <2>. DEFINE record == [kind |-> "RawPage", transaction |-> None, page |-> p]
  <2>1. record \in WalRecord /\ AppendRecord(record) /\ active' = active
    BY <1>5 DEF AppendRawPage, WalRecord
  <2>2. record.kind = "RawPage"
    OBVIOUS
  <2>. HIDE DEF record
  <2>. QED  BY <2>1, <2>2, WalInvAppend
<1>6. CASE FlushWal
  <2>1. /\ UNCHANGED <<wal, nextPosition, epochVars, active>>
        /\ logicalHighWater' = flush'
    BY <1>6 DEF FlushWal, transactionVars
  <2>. QED  BY <2>1, WalInvShrink DEF WalShrinks, epochVars
<1>7. ASSUME NEW q \in Positions, WritePageStore(q)
      PROVE  WalInv'
  BY <1>7, WalInvUnchanged DEF WritePageStore, transactionVars
<1>8. ASSUME NEW a \in Anchors, PublishCheckpoint(a)
      PROVE  WalInv'
  BY <1>8, WalInvUnchanged DEF PublishCheckpoint, transactionVars
<1>. QED
  BY <1>1, <1>2, <1>3, <1>4, <1>5, <1>6, <1>7, <1>8 DEF LiveStep

(* A recovered coordinator starts on an epoch above every epoch of the log. *)
LEMMA RestoreWalInv ==
    ASSUME TypeOK, WalInv, RestoreTransactions
    PROVE  WalInv'
<1>1. /\ UNCHANGED walVars
      /\ currentEpoch' = FreshEpoch /\ nextEpoch' = FreshEpoch + 1
      /\ epochHighWater' = FreshEpoch
      /\ DOMAIN active' = {}
  BY DEF RestoreTransactions
<1>2. FreshEpoch \in Nat /\ epochHighWater < FreshEpoch /\ epochHighWater \in Nat
  BY DEF FreshEpoch, PersistedEpochHighWater, TypeOK, CheckpointSnapshot
<1>3. EpochsBounded'
  BY <1>1, <1>2 DEF EpochsBounded
<1>4. \A tx \in TransactionIds : Begun(tx) => Begun(tx)'
  BY <1>1, <1>2, TransactionIdFields DEF Begun
<1>5. \A q \in DOMAIN wal : wal[q].kind # "RawPage" => wal[q].transaction \in TransactionIds
  BY WalsElim, RecordTransaction DEF TypeOK
<1>6. IdentitiesBegun'
  BY <1>1, <1>4, <1>5 DEF IdentitiesBegun, WalInv, walVars
<1>. QED
  BY <1>1, <1>3, <1>6
     DEF WalInv, walVars, WalBelowNext, FrontiersAgree, ActiveUncommitted,
         CommitClosesTransaction

(* Every step keeps the log invariant: one case per kind of step.           *)
LEMMA WalInvStep ==
    ASSUME TypeOK, TypeOK', WalInv, CandidateRetainsPages, Next
    PROVE  WalInv'
<1>1. CASE LiveStep
  BY <1>1, LiveStepWalInv
<1>2. CASE ReplacementStep
  <2>1. CASE AdvanceWalCandidate
    <3>1. WalShrinks /\ UNCHANGED <<flush, logicalHighWater, epochHighWater>>
      BY <2>1, RenameShrinks
    <3>2. UNCHANGED <<nextPosition, currentEpoch, nextEpoch, nextSequence, active>>
      BY <2>1 DEF AdvanceWalCandidate, transactionVars
    <3>3. logicalHighWater' = flush'
      BY <3>1 DEF WalInv, FrontiersAgree
    <3>. QED  BY <3>1, <3>2, <3>3, WalInvShrink
  <2>2. CASE ~AdvanceWalCandidate
    BY <1>2, <2>2, WalInvUnchanged
       DEF ReplacementStep, BeginCheckpointCandidate, AdvanceCheckpointCandidate,
           SetCheckpointCandidateEntry, BeginWalCandidate, SetWalCandidateEntry,
           transactionVars
  <2>. QED  BY <2>1, <2>2
<1>3. CASE CrashStep
  <2>1. ASSUME NEW preserve \in TailOutcomes, Crash(preserve)
        PROVE  WalInv'
    <3>1. \E S \in SUBSET DOMAIN wal : wal' = Restrict(wal, S)
      BY <2>1 DEF Crash, DurablePositions
    <3>2. WalShrinks
      BY <3>1, RestrictShrinks
    <3>3. /\ UNCHANGED <<nextPosition, nextEpoch, epochHighWater>>
          /\ logicalHighWater' = flush'
          /\ currentEpoch' = 0 /\ DOMAIN active' = {}
      BY <2>1 DEF Crash
    <3>. QED  BY <3>2, <3>3, WalInvShrink
  <2>2. ASSUME ~(\E preserve \in TailOutcomes : Crash(preserve))
        PROVE  WalInv'
    BY <1>3, <2>2, WalInvUnchanged
       DEF CrashStep, SetSelectedEntriesForOpen, SetCheckpointCandidateForOpen,
           SetWalCandidateForOpen, transactionVars
  <2>. QED  BY <2>1, <2>2
<1>4. CASE RecoveryStep
  <2>1. CASE RestoreTransactions
    BY <2>1, RestoreWalInv
  <2>2. CASE ~RestoreTransactions
    BY <1>4, <2>2, WalInvUnchanged
       DEF RecoveryStep, Reopen, Select, PlanReplay, RepairPages, Complete, transactionVars
  <2>. QED  BY <2>1, <2>2
<1>5. CASE RetentionStep
  <2>1. CASE AnalyzeRetention
    BY <2>1, WalInvUnchanged DEF AnalyzeRetention, transactionVars
  <2>2. CASE Reclaim
    <3>1. WalShrinks /\ UNCHANGED <<flush, logicalHighWater, epochHighWater>>
      BY <2>2, ReclaimShrinks DEF Reclaim
    <3>2. UNCHANGED <<nextPosition, currentEpoch, nextEpoch, nextSequence, active>>
      BY <2>2 DEF Reclaim, transactionVars
    <3>3. logicalHighWater' = flush'
      BY <3>1 DEF WalInv, FrontiersAgree
    <3>. QED  BY <3>1, <3>2, <3>3, WalInvShrink
  <2>. QED  BY <1>5, <2>1, <2>2 DEF RetentionStep
<1>. QED  BY <1>1, <1>2, <1>3, <1>4, <1>5 DEF Next

----------------------------------------------------------------------------
(* The images of the page store stay backed when the log grows or more of   *)
(* it becomes durable ...                                                   *)
LEMMA BackedGrow ==
    ASSUME PagesBackedByDurableWal, store' = store,
           DOMAIN wal \in SUBSET DOMAIN wal',
           \A q \in DOMAIN wal : wal'[q] = wal[q] /\ (q <= flush => q <= flush')
    PROVE  PagesBackedByDurableWal'
BY DEF PagesBackedByDurableWal, Installable, CommittedBy

(* ... and when it loses records, if it keeps the durable ones from the     *)
(* image on: the commit that makes an image installable comes after it.     *)
LEMMA BackedShrink ==
    ASSUME TypeOK, CommitClosesTransaction, PagesBackedByDurableWal, WalShrinks,
           UNCHANGED <<store, flush>>,
           \A p \in Pages, q \in DurablePositions :
                store[p] # 0 /\ store[p] <= q => q \in DOMAIN wal'
    PROVE  PagesBackedByDurableWal'
<1>. SUFFICES ASSUME NEW p \in Pages, store[p] # 0
              PROVE  /\ store[p] \in DOMAIN wal'
                     /\ wal'[store[p]] = wal[store[p]]
                     /\ wal'[store[p]].kind = "RawPage"
                           \/ /\ wal'[store[p]].kind = "TransactionPage"
                              /\ \E c \in DOMAIN wal' :
                                    /\ c <= flush
                                    /\ wal'[c].kind = "TransactionCommit"
                                    /\ wal'[c].transaction = wal'[store[p]].transaction
  BY DEF PagesBackedByDurableWal, Installable, CommittedBy
<1>. DEFINE s == store[p]
<1>1. s \in DurablePositions /\ s \in DOMAIN wal /\ s <= s
  BY DurableRange DEF PagesBackedByDurableWal, DurablePositions
<1>2. s \in DOMAIN wal' /\ wal'[s] = wal[s]
  BY <1>1 DEF WalShrinks
<1>3. CASE wal[s].kind = "RawPage"
  BY <1>2, <1>3
<1>4. CASE wal[s].kind # "RawPage"
  <2>1. PICK c \in DOMAIN wal : /\ c <= flush
                                /\ wal[c].kind = "TransactionCommit"
                                /\ wal[c].transaction = wal[s].transaction
    BY <1>4 DEF PagesBackedByDurableWal, Installable, CommittedBy
  <2>2. s <= c
    BY <1>1, <2>1 DEF CommitClosesTransaction
  <2>3. c \in DOMAIN wal' /\ wal'[c] = wal[c]
    BY <2>1, <2>2 DEF DurablePositions, WalShrinks
  <2>4. wal[s].kind = "TransactionPage"
    BY <1>4 DEF PagesBackedByDurableWal, Installable
  <2>. QED  BY <1>2, <2>1, <2>3, <2>4
<1>. QED  BY <1>3, <1>4

(* What repair_pages puts in the store is backed: the store's own image, or *)
(* a planned record whose effect may be installed; a checkpoint has no      *)
(* newer image.  No page goes back to an older image.                       *)
LEMMA RepairBacked ==
    ASSUME TypeInv, WalInv, PagesBackedByDurableWal, SnapshotsBehindStore, RepairPages
    PROVE  /\ PagesBackedByDurableWal'
           /\ \A p \in Pages : store[p] <= store'[p]
<1>1. /\ UNCHANGED <<wal, flush, selected>>
      /\ store' = [p \in Pages |-> Latest(RepairSources(p))]
      /\ plan \subseteq DurablePositions
      /\ logicalHighWater = flush
  BY DEF RepairPages, walVars, checkpointVars, TypeInv, PlanDurable, WalInv, FrontiersAgree
<1>2. ASSUME NEW p \in Pages
      PROVE  /\ store'[p] \in RepairSources(p)
             /\ store[p] <= store'[p]
             /\ selected # None => selected.pages[p] <= store'[p]
  <2>1. /\ store[p] \in RepairSources(p)
        /\ selected # None => selected.pages[p] \in RepairSources(p)
    BY DEF RepairSources
  <2>2. RepairSources(p) \in SUBSET (0 .. MaxPosition)
    BY RepairType DEF TypeInv
  <2>3. /\ Latest(RepairSources(p)) \in RepairSources(p)
        /\ \A q \in RepairSources(p) : q <= Latest(RepairSources(p))
    BY <2>1, <2>2, LatestInRange
  <2>. QED  BY <1>1, <2>1, <2>3
<1>3. ASSUME NEW p \in Pages, store'[p] # 0
      PROVE  /\ store'[p] \in DOMAIN wal
             /\ store'[p] <= flush
             /\ wal[store'[p]].page = p
             /\ Installable(store'[p], flush)
  <2>. DEFINE s == store'[p]
  <2>1. CASE s = store[p]
    BY <1>3, <2>1 DEF PagesBackedByDurableWal
  <2>2. CASE selected # None /\ s = selected.pages[p]
    <3>1. s <= store[p] /\ store[p] <= s
      BY <1>2, <2>2 DEF SnapshotsBehindStore, BehindStore
    <3>2. s \in Int /\ store[p] \in Int
      BY <2>2 DEF TypeInv, TypeOK, CheckpointSnapshot, PageImages
    <3>. QED  BY <2>1, <3>1, <3>2
  <2>3. CASE s \in plan /\ wal[s].page = p /\ Installable(s, logicalHighWater)
    BY <1>1, <2>3 DEF DurablePositions
  <2>. QED  BY <1>2, <2>1, <2>2, <2>3 DEF RepairSources
<1>4. PagesBackedByDurableWal'
  BY <1>1, <1>3 DEF PagesBackedByDurableWal, Installable, CommittedBy
<1>. QED  BY <1>2, <1>4

(* A log record that write_page_store installs is durable and installable.  *)
LEMMA WriteBacked ==
    ASSUME TypeOK, PagesBackedByDurableWal, NEW q \in Positions, WritePageStore(q)
    PROVE  /\ PagesBackedByDurableWal'
           /\ \A p \in Pages : store[p] <= store'[p]
<1>. DEFINE page == wal[q].page
<1>1. /\ UNCHANGED <<wal, flush>>
      /\ q \in DOMAIN wal /\ q <= flush /\ Installable(q, flush)
      /\ store[page] <= q
      /\ store' = [store EXCEPT ![page] = q]
  BY DEF WritePageStore, walVars, DurablePositions
<1>2. store \in [Pages -> 0 .. MaxPosition]
  BY DEF TypeOK, PageImages
<1>3. \A p \in Pages : store'[p] = IF p = page THEN q ELSE store[p]
  BY <1>1, <1>2
<1>4. PagesBackedByDurableWal'
  BY <1>1, <1>3 DEF PagesBackedByDurableWal, Installable, CommittedBy
<1>5. \A p \in Pages : store[p] <= store[p]
  BY <1>2
<1>. QED  BY <1>1, <1>3, <1>4, <1>5

(* The write-ahead rule survives every step.                                *)
LEMMA BackedStep ==
    ASSUME TypeInv, WalInv, PagesInv, Next
    PROVE  PagesBackedByDurableWal'
<1>. USE DEF TypeInv, PagesInv
<1>a. ASSUME UNCHANGED <<wal, flush, store>> PROVE PagesBackedByDurableWal'
  BY <1>a, BackedGrow
<1>1. CASE LiveStep
  <2>1. ASSUME NEW record \in WalRecord, AppendRecord(record)
        PROVE  PagesBackedByDurableWal'
    BY <2>1, AppendGrows, BackedGrow DEF AppendRecord
  <2>2. CASE FlushWal
    <3>1. UNCHANGED <<wal, store>> /\ flush' = Latest(DOMAIN wal)
      BY <2>2 DEF FlushWal
    <3>2. \A q \in DOMAIN wal : q <= flush'
      BY <3>1, DurableRange, LatestInRange
    <3>. QED  BY <3>1, <3>2, BackedGrow
  <2>3. ASSUME NEW q \in Positions, WritePageStore(q)
        PROVE  PagesBackedByDurableWal'
    BY <2>3, WriteBacked
  <2>4. ASSUME NEW tx \in DOMAIN active, NEW p \in Pages, AppendTransactionPage(tx, p)
        PROVE  PagesBackedByDurableWal'
    <3>1. [kind |-> "TransactionPage", transaction |-> tx, page |-> p] \in WalRecord
      BY TablesElim DEF WalRecord, TypeOK
    <3>. QED  BY <2>1, <2>4, <3>1 DEF AppendTransactionPage
  <2>5. ASSUME NEW tx \in DOMAIN active, AppendTransactionCommit(tx)
        PROVE  PagesBackedByDurableWal'
    <3>1. [kind |-> "TransactionCommit", transaction |-> tx, page |-> None] \in WalRecord
      BY TablesElim DEF WalRecord, TypeOK
    <3>. QED  BY <2>1, <2>5, <3>1 DEF AppendTransactionCommit
  <2>6. ASSUME NEW p \in Pages, AppendRawPage(p)
        PROVE  PagesBackedByDurableWal'
    <3>1. [kind |-> "RawPage", transaction |-> None, page |-> p] \in WalRecord
      BY DEF WalRecord
    <3>. QED  BY <2>1, <2>6, <3>1 DEF AppendRawPage
  <2>. QED
    BY <1>1, <1>a, <2>2, <2>3, <2>4, <2>5, <2>6
       DEF LiveStep, AllocateCoordinatorEpoch, BeginTransaction, PublishCheckpoint, walVars
<1>2. CASE ReplacementStep
  <2>1. CASE AdvanceWalCandidate
    <3>1. store' = store
      BY <2>1 DEF AdvanceWalCandidate
    <3>. QED  BY <2>1, <3>1, RenameShrinks, BackedShrink DEF WalInv
  <2>2. CASE ~AdvanceWalCandidate
    BY <1>2, <2>2, <1>a
       DEF ReplacementStep, BeginCheckpointCandidate, AdvanceCheckpointCandidate,
           SetCheckpointCandidateEntry, BeginWalCandidate, SetWalCandidateEntry, walVars
  <2>. QED  BY <2>1, <2>2
<1>3. CASE CrashStep
  <2>1. ASSUME NEW preserve \in TailOutcomes, Crash(preserve)
        PROVE  PagesBackedByDurableWal'
    <3>1. UNCHANGED <<store, flush>>
      BY <2>1 DEF Crash
    <3>2. PICK S \in SUBSET DOMAIN wal :
             wal' = Restrict(wal, S) /\ DurablePositions \in SUBSET S
      BY <2>1 DEF Crash, DurablePositions
    <3>3. WalShrinks /\ DOMAIN wal' = S
      BY <3>2, RestrictShrinks
    <3>. QED  BY <3>1, <3>2, <3>3, BackedShrink DEF WalInv
  <2>2. ASSUME ~(\E preserve \in TailOutcomes : Crash(preserve))
        PROVE  PagesBackedByDurableWal'
    BY <1>3, <2>2, <1>a
       DEF CrashStep, SetSelectedEntriesForOpen, SetCheckpointCandidateForOpen,
           SetWalCandidateForOpen, walVars
  <2>. QED  BY <2>1, <2>2
<1>4. CASE RecoveryStep
  <2>1. CASE RepairPages
    BY <2>1, RepairBacked
  <2>2. CASE ~RepairPages
    BY <1>4, <2>2, <1>a
       DEF RecoveryStep, Reopen, Select, PlanReplay, RestoreTransactions, Complete, walVars
  <2>. QED  BY <2>1, <2>2
<1>5. CASE AnalyzeRetention
  BY <1>5, <1>a DEF AnalyzeRetention, walVars
<1>6. CASE Reclaim
  <2>1. /\ store' = store /\ phase = "RetentionAnalyzed" /\ analysis # None
        /\ ReclamationReady /\ Install(ReplacementHeader, Restrict(wal, Retained))
    BY <1>6 DEF Reclaim, ReclamationReady
  <2>2. WalShrinks /\ DOMAIN wal' = Retained /\ flush' = flush
    BY <2>1, ReclaimShrinks
  <2>3. analysis.retainedFirst \in Int /\ DurablePositions \in SUBSET DOMAIN wal
    BY <2>1, DurableRange DEF TypeOK
  <2>4. \A p \in Pages : store[p] \in Int
    BY DEF TypeOK, PageImages
  <2>5. \A q \in DOMAIN wal : q \in Int
    BY DurableRange
  <2>6. \A p \in Pages, q \in DurablePositions :
           store[p] # 0 /\ store[p] <= q => q \in Retained
    BY <2>1, <2>3, <2>4, <2>5 DEF FloorBelowStore, Retained
  <2>. QED  BY <2>1, <2>2, <2>6, BackedShrink DEF WalInv
<1>. QED  BY <1>1, <1>2, <1>3, <1>4, <1>5, <1>6 DEF Next, RetentionStep

(* Images of the page store never go back, in any step.                     *)
LEMMA StoreGrows ==
    ASSUME TypeInv, WalInv, PagesInv, Next
    PROVE  \A p \in Pages : store[p] <= store'[p]
<1>. USE DEF TypeInv, PagesInv
<1>1. \A p \in Pages : store[p] \in Int
  BY DEF TypeOK, PageImages
<1>2. CASE RepairPages
  BY <1>2, RepairBacked
<1>3. ASSUME NEW q \in Positions, WritePageStore(q)
      PROVE  \A p \in Pages : store[p] <= store'[p]
  BY <1>3, WriteBacked
<1>4. CASE store' = store
  BY <1>1, <1>4
<1>. QED
  BY <1>2, <1>3, <1>4
     DEF Next, LiveStep, ReplacementStep, CrashStep, RecoveryStep, RetentionStep,
         AllocateCoordinatorEpoch, BeginTransaction, AppendTransactionPage,
         AppendTransactionCommit, AppendRawPage, AppendRecord, FlushWal, PublishCheckpoint,
         BeginCheckpointCandidate, AdvanceCheckpointCandidate, SetCheckpointCandidateEntry,
         BeginWalCandidate, AdvanceWalCandidate, SetWalCandidateEntry, Crash,
         SetSelectedEntriesForOpen, SetCheckpointCandidateForOpen, SetWalCandidateForOpen,
         Reopen, Select, PlanReplay, RestoreTransactions, Complete, AnalyzeRetention, Reclaim

(* Where a checkpoint that recovery may read comes from: it was there, it   *)
(* is the attempt that was renamed, it is the slot that select froze, or it *)
(* is built from the current state.                                         *)
Known(snapshot) ==
    \/ slot # None /\ snapshot = slot
    \/ selected # None /\ snapshot = selected
    \/ checkpointCandidate # None /\ snapshot = checkpointCandidate.snapshot
    \/ \E a \in Anchors : snapshot = CheckpointImage(a)

(* No step makes up a checkpoint.                                           *)
LEMMA SnapshotOrigin ==
    ASSUME TypeInv, Next
    PROVE  /\ slot' # None => Known(slot')
           /\ selected' # None => Known(selected')
           /\ checkpointCandidate' # None => Known(checkpointCandidate'.snapshot)
<1>. USE DEF TypeInv, Known
<1>1. ASSUME NEW a \in Anchors, PublishCheckpoint(a)
      PROVE  /\ slot' = CheckpointImage(a)
             /\ UNCHANGED <<selected, checkpointCandidate>>
  BY <1>1 DEF PublishCheckpoint, candidateVars
<1>2. ASSUME NEW a \in CandidateAnchors, BeginCheckpointCandidate(a)
      PROVE  /\ UNCHANGED checkpointVars
             /\ checkpointCandidate'.snapshot = CheckpointImage(a) /\ a \in Anchors
  BY <1>2, InputsAssumption DEF BeginCheckpointCandidate
<1>3. ASSUME AdvanceCheckpointCandidate
      PROVE  /\ selected' = selected
             /\ checkpointCandidate # None
             /\ slot' = slot \/ slot' = checkpointCandidate.snapshot
             /\ checkpointCandidate' # None =>
                  checkpointCandidate'.snapshot = checkpointCandidate.snapshot
  <2>1. checkpointCandidate \in [snapshot : CheckpointSnapshot, stage : AttemptStages,
                                 entry : CandidateEntryStates]
    BY <1>3 DEF AdvanceCheckpointCandidate, TypeOK
  <2>2. /\ checkpointCandidate # None
        /\ selected' = selected
        /\ slot' = slot \/ slot' = checkpointCandidate.snapshot
    BY <1>3 DEF AdvanceCheckpointCandidate
  <2>3. checkpointCandidate' = None
          \/ \E e : checkpointCandidate' = [checkpointCandidate EXCEPT
                                             !.stage = checkpointCandidate.stage + 1,
                                             !.entry = e]
    BY <1>3, Zenon DEF AdvanceCheckpointCandidate
  <2>4. checkpointCandidate' # None => checkpointCandidate'.snapshot = checkpointCandidate.snapshot
    BY <2>1, <2>3
  <2>. QED  BY <2>2, <2>4
<1>4. ASSUME NEW e \in CandidateEntries, SetCheckpointCandidateEntry(e)
      PROVE  /\ UNCHANGED checkpointVars
             /\ checkpointCandidate # None
             /\ checkpointCandidate'.snapshot = checkpointCandidate.snapshot
  <2>1. checkpointCandidate \in [snapshot : CheckpointSnapshot, stage : AttemptStages,
                                 entry : CandidateEntryStates]
    BY <1>4 DEF SetCheckpointCandidateEntry, TypeOK
  <2>. QED  BY <1>4, <2>1 DEF SetCheckpointCandidateEntry
<1>5. ASSUME NEW a \in CandidateAnchors, NEW e \in CandidateEntries,
             SetCheckpointCandidateForOpen(a, e)
      PROVE  /\ UNCHANGED checkpointVars
             /\ checkpointCandidate'.snapshot = CheckpointImage(a) /\ a \in Anchors
  BY <1>5, InputsAssumption DEF SetCheckpointCandidateForOpen
<1>6. ASSUME NEW preserve \in TailOutcomes, Crash(preserve)
      PROVE  UNCHANGED <<slot, checkpointCandidate>> /\ selected' = None
  BY <1>6 DEF Crash, candidateVars
<1>7. CASE Reopen
  BY <1>7 DEF Reopen, checkpointVars
<1>8. CASE Select
  BY <1>8 DEF Select, candidateVars
<1>9. CASE UNCHANGED <<slot, selected, checkpointCandidate>>
  BY <1>9
<1>. QED
  BY <1>1, <1>2, <1>3, <1>4, <1>5, <1>6, <1>7, <1>8, <1>9
     DEF Next, LiveStep, ReplacementStep, CrashStep, RecoveryStep, RetentionStep,
         AllocateCoordinatorEpoch, BeginTransaction, AppendTransactionPage,
         AppendTransactionCommit, AppendRawPage, AppendRecord, FlushWal, WritePageStore,
         BeginWalCandidate, AdvanceWalCandidate, SetWalCandidateEntry,
         SetSelectedEntriesForOpen, SetWalCandidateForOpen, PlanReplay, RepairPages,
         RestoreTransactions, Complete, AnalyzeRetention, Reclaim, checkpointVars,
         candidateVars

(* No checkpoint that recovery may read gets ahead of the page store.       *)
LEMMA BehindStoreStep ==
    ASSUME TypeInv, TypeInv', WalInv, PagesInv, Next
    PROVE  SnapshotsBehindStore'
<1>. USE DEF TypeInv
<1>1. \A p \in Pages : store[p] \in Int /\ store'[p] \in Int /\ store[p] <= store'[p]
  BY StoreGrows DEF TypeOK, PageImages
<1>2. ASSUME NEW snapshot \in CheckpointSnapshot, Known(snapshot)
      PROVE  \A p \in Pages : snapshot.pages[p] <= store'[p]
  <2>1. \A p \in Pages : snapshot.pages[p] <= store[p]
    <3>1. \A a \in Anchors, p \in Pages : CheckpointImage(a).pages[p] <= store[p]
      BY <1>1 DEF CheckpointImage
    <3>. QED  BY <1>2, <3>1 DEF Known, PagesInv, SnapshotsBehindStore, BehindStore
  <2>2. \A p \in Pages : snapshot.pages[p] \in Int
    BY DEF CheckpointSnapshot, PageImages
  <2>. QED  BY <1>1, <2>1, <2>2
<1>3. /\ slot' # None => slot' \in CheckpointSnapshot
      /\ selected' # None => selected' \in CheckpointSnapshot
      /\ checkpointCandidate' # None => checkpointCandidate'.snapshot \in CheckpointSnapshot
  BY DEF TypeOK
<1>. QED  BY <1>2, <1>3, SnapshotOrigin DEF SnapshotsBehindStore, BehindStore

(* The retention floor stays at or below every image of the page store      *)
(* until the reclamation is over.                                           *)
LEMMA FloorStep ==
    ASSUME TypeInv, PagesInv, Next
    PROVE  FloorBelowStore'
<1>1. CASE AnalyzeRetention
  <2>1. RetentionConstraints \in SUBSET (0 .. MaxPosition)
    BY <1>1, DurableRange DEF AnalyzeRetention, TypeInv
  <2>2. /\ \A q \in RetentionConstraints : Earliest(RetentionConstraints) <= q
        /\ RetentionConstraints # {} =>
              Earliest(RetentionConstraints) \in RetentionConstraints
    BY <2>1, EarliestInRange
  <2>3. \A p \in Pages : store[p] # 0 => store[p] \in RetentionConstraints
    BY DEF RetentionConstraints
  <2>4. 0 \notin RetentionConstraints
    BY DEF RetentionConstraints
  <2>5. store' = store /\ analysis'.retainedFirst = Earliest(RetentionConstraints)
    BY <1>1 DEF AnalyzeRetention
  <2>. QED  BY <2>2, <2>3, <2>4, <2>5 DEF FloorBelowStore
<1>2. CASE ReplacementStep
  <2>1. UNCHANGED <<phase, analysis, store>>
    BY <1>2
       DEF ReplacementStep, BeginCheckpointCandidate, AdvanceCheckpointCandidate,
           SetCheckpointCandidateEntry, BeginWalCandidate, AdvanceWalCandidate,
           SetWalCandidateEntry, recoveryVars
  <2>. QED  BY <2>1 DEF PagesInv, FloorBelowStore
<1>3. CASE phase' # "RetentionAnalyzed"
  BY <1>3 DEF FloorBelowStore
<1>. QED
  BY <1>1, <1>2, <1>3
     DEF Next, LiveStep, CrashStep, RecoveryStep, RetentionStep, LiveOrComplete,
         AllocateCoordinatorEpoch, BeginTransaction, AppendTransactionPage,
         AppendTransactionCommit, AppendRawPage, AppendRecord, FlushWal, WritePageStore,
         PublishCheckpoint, Crash, SetSelectedEntriesForOpen, SetCheckpointCandidateForOpen,
         SetWalCandidateForOpen, Reopen, Select, PlanReplay, RepairPages,
         RestoreTransactions, Complete, Reclaim

(* Nothing a WAL replacement was derived from changes under it.             *)
LEMMA CandidateKept ==
    ASSUME CandidateRetainsPages,
           UNCHANGED <<wal, flush, epochHighWater, store, walCandidate>>
    PROVE  CandidateRetainsPages'
BY DEF CandidateRetainsPages, DurablePositions

(* A replacement that begins carries every durable record from the oldest   *)
(* image of the page store on.                                              *)
LEMMA BeginKept ==
    ASSUME TypeInv, WalInv, PagesInv, BeginWalCandidate
    PROVE  CandidateRetainsPages' /\ phase = "RetentionAnalyzed" /\ phase' = phase
<1>1. /\ UNCHANGED <<phase, wal, flush, epochHighWater, store>>
      /\ phase = "RetentionAnalyzed" /\ analysis # None
      /\ walCandidate' = [header |-> ReplacementHeader, suffix |-> Restrict(wal, Retained),
                          stage |-> BeforeCleanup, entry |-> "Absent"]
  BY DEF BeginWalCandidate, ReclamationReady, walVars, epochVars
<1>2. /\ DOMAIN Restrict(wal, Retained) = Retained
      /\ \A q \in Retained : Restrict(wal, Retained)[q] = wal[q]
  BY RestrictWal DEF TypeInv, TypeOK, Retained
<1>3. Retained \in SUBSET DurablePositions
  <2>1. Latest(DOMAIN wal) = flush \/ DOMAIN wal = {}
    BY DEF BeginWalCandidate, ReclamationReady
  <2>2. \A q \in DOMAIN wal : q <= Latest(DOMAIN wal)
    BY DurableRange, LatestInRange DEF TypeInv
  <2>. QED  BY <2>1, <2>2 DEF Retained, DurablePositions
<1>4. \A p \in Pages, q \in DurablePositions : store[p] # 0 /\ store[p] <= q => q \in Retained
  <2>1. analysis.retainedFirst \in Int /\ \A p \in Pages : store[p] \in Int
    BY <1>1 DEF TypeInv, TypeOK, PageImages
  <2>2. \A q \in DurablePositions : q \in Int /\ q \in DOMAIN wal
    BY DurableRange DEF TypeInv
  <2>. QED  BY <1>1, <2>1, <2>2 DEF PagesInv, FloorBelowStore, Retained
<1>5. /\ ReplacementHeader.logicalHighWater = flush
      /\ ReplacementHeader.epochHighWater = epochHighWater
  BY DEF ReplacementHeader, WalInv, FrontiersAgree
<1>. DEFINE c == walCandidate'
<1>6. /\ c.header.logicalHighWater = flush
      /\ c.header.epochHighWater = epochHighWater
      /\ c.suffix = Restrict(wal, Retained)
  BY <1>1, <1>5
<1>7. DurablePositions' = DurablePositions
  BY <1>1 DEF DurablePositions
<1>. QED
  BY <1>1, <1>2, <1>3, <1>4, <1>6, <1>7 DEF CandidateRetainsPages

(* A replacement that an open finds carries every durable record.           *)
LEMMA FoundKept ==
    ASSUME TypeInv, NEW e \in CandidateEntries, SetWalCandidateForOpen(e)
    PROVE  CandidateRetainsPages' /\ phase' = "Crashed"
<1>1. /\ UNCHANGED <<wal, flush, epochHighWater, store>>
      /\ phase' = "Crashed"
      /\ walCandidate'.header.logicalHighWater = flush
      /\ walCandidate'.header.epochHighWater = epochHighWater
      /\ walCandidate'.suffix = Restrict(wal, DurablePositions)
  BY DEF SetWalCandidateForOpen, walVars, epochVars
<1>2. /\ DOMAIN Restrict(wal, DurablePositions) = DurablePositions
      /\ \A q \in DurablePositions : Restrict(wal, DurablePositions)[q] = wal[q]
  BY DurableRange, RestrictWal DEF TypeInv, TypeOK
<1>3. DurablePositions' = DurablePositions
  BY <1>1 DEF DurablePositions
<1>. QED  BY <1>1, <1>2, <1>3 DEF CandidateRetainsPages

(* A replacement in progress agrees with its log through every step, a      *)
(* crash included, until it is installed or dropped.                        *)
LEMMA CandidateStep ==
    ASSUME TypeInv, TypeInv', WalInv, PagesInv, Next
    PROVE  CandidateOnlyInReclamation' /\ CandidateRetainsPages'
<1>. USE DEF CandidateOnlyInReclamation
<1>. DEFINE Goal == CandidateOnlyInReclamation' /\ CandidateRetainsPages'
<1>a. ASSUME UNCHANGED <<wal, flush, epochHighWater, store, walCandidate, phase>>
      PROVE  Goal
  BY <1>a, CandidateKept DEF PagesInv
<1>b. ASSUME walCandidate' = None
      PROVE  Goal
  BY <1>b DEF CandidateRetainsPages
<1>1. CASE LiveStep
  <2>1. UNCHANGED walCandidate /\ phase \in {"Live", "CompleteLive"}
    BY <1>1
       DEF LiveStep, AllocateCoordinatorEpoch, BeginTransaction, AppendTransactionPage,
           AppendTransactionCommit, AppendRawPage, AppendRecord, FlushWal, WritePageStore,
           PublishCheckpoint, LiveOrComplete, candidateVars
  <2>2. walCandidate' = None
    BY <2>1 DEF PagesInv
  <2>. QED  BY <1>b, <2>2
<1>2. CASE BeginWalCandidate
  BY <1>2, BeginKept
<1>3. CASE AdvanceWalCandidate
  <2>. DEFINE next == walCandidate.stage + 1
  <2>1. walCandidate \in [header : Headers, suffix : Wals, stage : AttemptStages,
                          entry : CandidateEntryStates]
    BY <1>3 DEF AdvanceWalCandidate, TypeInv, TypeOK
  <2>2. UNCHANGED <<store, phase>> /\ walCandidate # None
    BY <1>3 DEF AdvanceWalCandidate
  <2>3. walCandidate' = None
          \/ walCandidate' = [walCandidate EXCEPT !.stage = next, !.entry = EntryAfter(next)]
    BY <1>3 DEF AdvanceWalCandidate
  <2>4. CASE walCandidate' = None
    BY <1>b, <2>4
  <2>5. CASE walCandidate' # None /\ next < AfterCurrentReplace
    <3>1. UNCHANGED <<header, wal, flush, logicalHighWater, epochHighWater>>
      BY <1>3, <2>1, <2>5 DEF AdvanceWalCandidate
    <3>2. /\ walCandidate'.header = walCandidate.header
          /\ walCandidate'.suffix = walCandidate.suffix
      <4>. HIDE DEF next
      <4>. QED  BY <2>1, <2>3, <2>5
    <3>3. walCandidate.stage < AfterCurrentReplace
      BY <2>1, <2>5
    <3>4. DurablePositions' = DurablePositions
      BY <3>1 DEF DurablePositions
    <3>5. CandidateRetainsPages'
      BY <2>2, <3>1, <3>2, <3>3, <3>4 DEF PagesInv, CandidateRetainsPages
    <3>. QED  BY <2>2, <3>5 DEF PagesInv
  <2>6. CASE walCandidate' # None /\ ~(next < AfterCurrentReplace)
    <3>1. ~(walCandidate'.stage < AfterCurrentReplace)
      BY <2>1, <2>3, <2>6
    <3>. QED  BY <2>2, <3>1 DEF PagesInv, CandidateRetainsPages
  <2>. QED  BY <2>4, <2>5, <2>6
<1>4. ASSUME NEW e \in CandidateEntries, SetWalCandidateEntry(e)
      PROVE  Goal
  <2>1. walCandidate \in [header : Headers, suffix : Wals, stage : AttemptStages,
                          entry : CandidateEntryStates]
    BY <1>4 DEF SetWalCandidateEntry, TypeInv, TypeOK
  <2>2. /\ UNCHANGED <<wal, flush, epochHighWater, store, phase>>
        /\ walCandidate # None
        /\ walCandidate' = [walCandidate EXCEPT !.entry = e]
    BY <1>4 DEF SetWalCandidateEntry, walVars, epochVars
  <2>3. /\ walCandidate'.header = walCandidate.header
        /\ walCandidate'.suffix = walCandidate.suffix
        /\ walCandidate'.stage = walCandidate.stage
    BY <2>1, <2>2
  <2>4. DurablePositions' = DurablePositions
    BY <2>2 DEF DurablePositions
  <2>5. CandidateRetainsPages'
    BY <2>2, <2>3, <2>4 DEF PagesInv, CandidateRetainsPages
  <2>. QED  BY <2>2, <2>5 DEF PagesInv
<1>5. ASSUME NEW preserve \in TailOutcomes, Crash(preserve)
      PROVE  Goal
  <2>1. UNCHANGED <<flush, epochHighWater, store, walCandidate>> /\ phase' = "Crashed"
    BY <1>5 DEF Crash, candidateVars
  <2>2. PICK S \in SUBSET DOMAIN wal :
           wal' = Restrict(wal, S) /\ DurablePositions \in SUBSET S
    BY <1>5 DEF Crash, DurablePositions
  <2>3. WalShrinks /\ DOMAIN wal' = S
    BY <2>2, RestrictShrinks DEF TypeInv
  <2>4. DurablePositions' = DurablePositions
    BY <2>1, <2>2, <2>3 DEF DurablePositions
  <2>5. \A q \in DurablePositions : wal'[q] = wal[q]
    BY <2>2, <2>3 DEF WalShrinks
  <2>6. CandidateRetainsPages'
    BY <2>1, <2>4, <2>5 DEF PagesInv, CandidateRetainsPages
  <2>. QED  BY <2>1, <2>6
<1>6. ASSUME NEW e \in CandidateEntries, SetWalCandidateForOpen(e)
      PROVE  Goal
  BY <1>6, FoundKept
<1>7. CASE RecoveryStep
  <2>1. walCandidate' = None
    BY <1>7
       DEF RecoveryStep, Reopen, Select, PlanReplay, RepairPages, RestoreTransactions,
           Complete, candidateVars, TypeInv, NoCandidateInRecovery, Recovering
  <2>. QED  BY <1>b, <2>1
<1>8. CASE RetentionStep
  <2>1. walCandidate' = None
    BY <1>8 DEF RetentionStep, AnalyzeRetention, Reclaim, candidateVars, PagesInv
  <2>. QED  BY <1>b, <2>1
<1>9. CASE \/ \E a \in CandidateAnchors : BeginCheckpointCandidate(a)
           \/ AdvanceCheckpointCandidate
           \/ \E e \in CandidateEntries : SetCheckpointCandidateEntry(e)
           \/ \E w, c \in SelectedEntries : SetSelectedEntriesForOpen(w, c)
           \/ \E a \in CandidateAnchors, e \in CandidateEntries :
                 SetCheckpointCandidateForOpen(a, e)
  <2>1. UNCHANGED <<wal, flush, epochHighWater, store, walCandidate, phase>>
    BY <1>9
       DEF BeginCheckpointCandidate, AdvanceCheckpointCandidate,
           SetCheckpointCandidateEntry, SetSelectedEntriesForOpen,
           SetCheckpointCandidateForOpen, walVars, epochVars, candidateVars
  <2>. QED  BY <1>a, <2>1
<1>. QED
  <2>. USE DEF Goal
  <2>1. CASE ReplacementStep
    BY <2>1, <1>2, <1>3, <1>4, <1>9 DEF ReplacementStep
  <2>2. CASE CrashStep
    BY <2>2, <1>5, <1>6, <1>9 DEF CrashStep
  <2>. QED  BY <1>1, <1>7, <1>8, <2>1, <2>2 DEF Next

----------------------------------------------------------------------------
(* Every identity that recovery or the log knows has an epoch at or below   *)
(* the persisted high-water mark.                                           *)
LEMMA EpochsKnown ==
    ASSUME TypeOK, WalInv, KnownBounded
    PROVE  \A e \in KnownEpochs : e <= epochHighWater
<1>1. \A q \in DOMAIN wal : wal[q].kind # "RawPage" => wal[q].transaction.epoch <= epochHighWater
  BY DEF WalInv, IdentitiesBegun, Begun
<1>2. \A tx \in DOMAIN active : tx.epoch <= epochHighWater
  BY DEF WalInv, IdentitiesBegun, Begun
<1>3. \A tx \in DOMAIN persisted \cup committed : tx.epoch <= epochHighWater
  BY DEF KnownBounded
<1>. QED  BY <1>1, <1>2, <1>3 DEF KnownEpochs

(* So has every transaction a checkpoint names, for the checkpoint's own    *)
(* mark, whoever published it.                                              *)
LEMMA SnapshotEpochsStep ==
    ASSUME TypeInv, WalInv, KnownBounded, Next
    PROVE  /\ slot' # None => SnapshotEpochs(slot')
           /\ selected' # None => SnapshotEpochs(selected')
           /\ checkpointCandidate' # None => SnapshotEpochs(checkpointCandidate'.snapshot)
<1>1. \A a \in Anchors : SnapshotEpochs(CheckpointImage(a))
  BY DEF CheckpointImage, SnapshotEpochs, WalInv, IdentitiesBegun, Begun, KnownBounded
<1>2. \A snapshot : Known(snapshot) => SnapshotEpochs(snapshot)
  BY <1>1 DEF Known, KnownBounded
<1>. QED  BY <1>2, SnapshotOrigin

(* The transactions recovery restores have epochs below the fresh one.      *)
LEMMA RestoredBounded ==
    ASSUME TypeInv, WalInv, KnownBounded, RestoreTransactions
    PROVE  \A tx \in DOMAIN persisted' \cup committed' : tx.epoch <= epochHighWater'
<1>1. plan \subseteq DurablePositions
  BY DEF RestoreTransactions, TypeInv, PlanDurable
<1>2. /\ persisted' = RestoredTransactions
      /\ committed' = PlannedCommits
      /\ epochHighWater' = FreshEpoch
  BY DEF RestoreTransactions
<1>3. \A q \in plan : wal[q].kind # "RawPage" => wal[q].transaction.epoch <= epochHighWater
  BY <1>1 DEF DurablePositions, WalInv, IdentitiesBegun, Begun
<1>4. \A tx \in DOMAIN SeededTransactions :
         /\ selected # None
         /\ tx.epoch <= selected.epochHighWater
  BY DEF SeededTransactions, KnownBounded, SnapshotEpochs
<1>5. RestoredTransactions \in TransactionTables /\ PlannedCommits \in SUBSET TransactionIds
  BY <1>1, RestoredType DEF TypeInv
<1>6. \A tx \in DOMAIN RestoredTransactions \cup PlannedCommits : tx.epoch \in Int
  BY <1>5, TablesElim, TransactionIdFields
<1>7. \A tx \in DOMAIN RestoredTransactions \cup PlannedCommits :
         \/ tx.epoch <= epochHighWater
         \/ selected # None /\ tx.epoch <= selected.epochHighWater
  BY <1>3, <1>4 DEF RestoredTransactions, PlannedCommits
<1>8. /\ FreshEpoch \in Int /\ epochHighWater \in Int /\ epochHighWater < FreshEpoch
      /\ selected # None =>
            selected.epochHighWater \in Int /\ selected.epochHighWater < FreshEpoch
  BY DEF FreshEpoch, PersistedEpochHighWater, TypeInv, TypeOK, CheckpointSnapshot
<1>. QED  BY <1>2, <1>6, <1>7, <1>8

(* The epochs that recovery knows stay bounded by the high-water mark.      *)
LEMMA KnownBoundedStep ==
    ASSUME TypeInv, TypeInv', WalInv, PagesInv, KnownBounded, Next
    PROVE  KnownBounded'
<1>. DEFINE Bounded == \A tx \in DOMAIN persisted \cup committed : tx.epoch <= epochHighWater
<1>1. Bounded'
  <2>1. CASE RestoreTransactions
    BY <2>1, RestoredBounded
  <2>2. CASE \E preserve \in TailOutcomes : Crash(preserve)
    BY <2>2 DEF Crash
  <2>3. ASSUME NEW tx \in DOMAIN active, AppendTransactionCommit(tx)
        PROVE  Bounded'
    <3>1. UNCHANGED <<persisted, epochHighWater>> /\ committed' = committed \cup {tx}
      BY <2>3 DEF AppendTransactionCommit, AppendRecord, epochVars
    <3>2. tx.epoch <= epochHighWater
      BY DEF WalInv, IdentitiesBegun, Begun
    <3>. QED  BY <3>1, <3>2 DEF KnownBounded
  <2>4. CASE AllocateCoordinatorEpoch
    <3>1. UNCHANGED <<persisted, committed>> /\ epochHighWater <= epochHighWater'
      BY <2>4 DEF AllocateCoordinatorEpoch, transactionVars, TypeInv, TypeOK
    <3>2. epochHighWater \in Int /\ epochHighWater' \in Int
      BY DEF TypeInv, TypeOK
    <3>3. \A tx \in DOMAIN persisted \cup committed : tx.epoch \in Int
      BY TablesElim, TransactionIdFields DEF TypeInv, TypeOK
    <3>. QED  BY <3>1, <3>2, <3>3 DEF KnownBounded
  <2>5. CASE AdvanceWalCandidate \/ Reclaim
    <3>1. epochHighWater' = epochHighWater
      BY <2>5, RenameShrinks, ReclaimShrinks DEF Reclaim, TypeInv, PagesInv
    <3>2. UNCHANGED <<persisted, committed>>
      BY <2>5 DEF AdvanceWalCandidate, Reclaim, transactionVars
    <3>. QED  BY <3>1, <3>2 DEF KnownBounded
  <2>6. CASE UNCHANGED <<persisted, committed, epochHighWater>>
    BY <2>6 DEF KnownBounded
  <2>. QED
    BY <2>1, <2>2, <2>3, <2>4, <2>5, <2>6
       DEF Next, LiveStep, ReplacementStep, CrashStep, RecoveryStep, RetentionStep,
           BeginTransaction, AppendTransactionPage, AppendRawPage, AppendRecord, FlushWal,
           WritePageStore, PublishCheckpoint, BeginCheckpointCandidate,
           AdvanceCheckpointCandidate, SetCheckpointCandidateEntry, BeginWalCandidate,
           SetWalCandidateEntry, SetSelectedEntriesForOpen, SetCheckpointCandidateForOpen,
           SetWalCandidateForOpen, Reopen, Select, PlanReplay, RepairPages, Complete,
           AnalyzeRetention, epochVars, transactionVars
<1>. QED  BY <1>1, SnapshotEpochsStep DEF KnownBounded, SnapshotEpochs

----------------------------------------------------------------------------
(* The initial state satisfies the invariant.                               *)
LEMMA IInvInit == Init => IInv
<1>. SUFFICES ASSUME Init PROVE IInv
  OBVIOUS
<1>1. TypeInv
  BY TypeInvInit
<1>2. WalInv
  BY DEF Init, WalInv, WalBelowNext, FrontiersAgree, EpochsBounded, IdentitiesBegun,
         ActiveUncommitted, CommitClosesTransaction
<1>3. PagesInv
  BY DEF Init, PagesInv, PagesBackedByDurableWal, SnapshotsBehindStore, FloorBelowStore,
         CandidateOnlyInReclamation, CandidateRetainsPages
<1>4. KnownBounded
  BY DEF Init, KnownBounded
<1>. QED  BY <1>1, <1>2, <1>3, <1>4 DEF IInv

(* Every step, and every stuttering step, keeps the invariant.              *)
LEMMA IInvStep == IInv /\ [Next]_vars => IInv'
<1>1. ASSUME IInv, Next PROVE IInv'
  <2>. USE <1>1 DEF IInv
  <2>1. TypeInv' /\ TypeOK /\ TypeOK'
    BY TypeInvStep DEF TypeInv
  <2>2. WalInv'
    BY <2>1, WalInvStep DEF PagesInv
  <2>3. PagesInv'
    BY <2>1, BackedStep, BehindStoreStep, FloorStep, CandidateStep DEF PagesInv
  <2>4. KnownBounded'
    BY <2>1, KnownBoundedStep
  <2>. QED  BY <2>1, <2>2, <2>3, <2>4
<1>2. ASSUME IInv, UNCHANGED vars PROVE IInv'
  <2>1. TypeInv'
    BY <1>2, TypeInvStep DEF IInv
  <2>2. WalInv'
    BY <1>2, <2>1, WalInvUnchanged DEF vars, IInv, TypeInv, transactionVars
  <2>3. PagesInv'
    BY <1>2, BackedGrow, CandidateKept
       DEF vars, walVars, epochVars, checkpointVars, recoveryVars, candidateVars, IInv,
           PagesInv, SnapshotsBehindStore, BehindStore, FloorBelowStore,
           CandidateOnlyInReclamation
  <2>4. KnownBounded'
    BY <1>2
       DEF vars, epochVars, transactionVars, checkpointVars, candidateVars, IInv,
           KnownBounded, SnapshotEpochs
  <2>. QED  BY <2>1, <2>2, <2>3, <2>4 DEF IInv
<1>. QED  BY <1>1, <1>2

(* The invariant holds in every reachable state.                            *)
LEMMA IInvAlways == Spec => []IInv
BY IInvInit, IInvStep, PTL DEF Spec

(* The write-ahead rule, for every number of pages, anchors, positions and  *)
(* reopens: whatever the interleaving of writes, flushes, checkpoints,      *)
(* crashes with or without the unflushed tail, stepwise and atomic WAL      *)
(* replacement, every image in the page store is backed by a durable record *)
(* of its page in the WAL, committed if a transaction wrote it.             *)
THEOREM WriteAheadRule == Spec => []PagesBackedByDurableWal
<1>1. IInv => PagesBackedByDurableWal
  BY DEF IInv, PagesInv
<1>. QED  BY <1>1, IInvAlways, PTL

(* No record of a transaction follows its commit marker, in any incarnation.*)
THEOREM CommitIsLast == Spec => []CommitClosesTransaction
<1>1. IInv => CommitClosesTransaction
  BY DEF IInv, WalInv
<1>. QED  BY <1>1, IInvAlways, PTL

(* A coordinator that starts, by allocate_coordinator_epoch or by           *)
(* restore_transactions, gets an epoch above every epoch a transaction of   *)
(* the WAL, of the live state or of recovery has.                           *)
THEOREM EpochsAreFresh == Spec => EpochsNeverReused
<1>. DEFINE Fresh == currentEpoch' \notin {0, currentEpoch} =>
                        \A e \in KnownEpochs : e < currentEpoch'
<1>1. ASSUME IInv, Next PROVE Fresh
  <2>1. TypeOK /\ \A e \in KnownEpochs : e <= epochHighWater
    BY <1>1, EpochsKnown DEF IInv, TypeInv
  <2>2. \A e \in KnownEpochs : e \in Int
    <3>1. \A q \in DOMAIN wal : wal[q].kind # "RawPage" => wal[q].transaction \in TransactionIds
      BY <2>1, WalsElim, RecordTransaction DEF TypeOK
    <3>2. DOMAIN active \cup DOMAIN persisted \cup committed \in SUBSET TransactionIds
      BY <2>1, TablesElim DEF TypeOK
    <3>. QED  BY <3>1, <3>2, TransactionIdFields DEF KnownEpochs
  <2>3. CASE AllocateCoordinatorEpoch
    <3>1. currentEpoch' = nextEpoch /\ epochHighWater < nextEpoch
      BY <1>1, <2>3 DEF AllocateCoordinatorEpoch, IInv, WalInv, EpochsBounded
    <3>. QED  BY <2>1, <2>2, <3>1 DEF TypeOK
  <2>4. CASE RestoreTransactions
    <3>1. /\ currentEpoch' = FreshEpoch
          /\ FreshEpoch \in Int /\ epochHighWater < FreshEpoch
      BY <2>1, <2>4
         DEF RestoreTransactions, FreshEpoch, PersistedEpochHighWater, TypeOK,
             CheckpointSnapshot
    <3>. QED  BY <2>1, <2>2, <3>1 DEF TypeOK
  <2>5. CASE currentEpoch' \in {0, currentEpoch}
    BY <2>5
  <2>. QED
    BY <1>1, <2>3, <2>4, <2>5
       DEF Next, LiveStep, ReplacementStep, CrashStep, RecoveryStep, RetentionStep,
           BeginTransaction, AppendTransactionPage, AppendTransactionCommit,
           AppendRawPage, AppendRecord, FlushWal, WritePageStore, PublishCheckpoint,
           BeginCheckpointCandidate, AdvanceCheckpointCandidate,
           SetCheckpointCandidateEntry, BeginWalCandidate, AdvanceWalCandidate,
           SetWalCandidateEntry, Crash, SetSelectedEntriesForOpen,
           SetCheckpointCandidateForOpen, SetWalCandidateForOpen, Reopen, Select,
           PlanReplay, RepairPages, Complete, AnalyzeRetention, Reclaim, epochVars
<1>2. ASSUME IInv, UNCHANGED vars PROVE Fresh
  BY <1>2 DEF vars, epochVars
<1>3. IInv /\ [Next]_vars => [Fresh]_vars
  BY <1>1, <1>2
<1>. QED  BY <1>3, IInvAlways, PTL DEF Spec, EpochsNeverReused

(* No step, not even repair after a crash, puts an older image of a page    *)
(* into the page store.                                                     *)
THEOREM PagesNeverGoBack == Spec => [][\A p \in Pages : store[p] <= store'[p]]_vars
<1>1. IInv /\ [Next]_vars => [\A p \in Pages : store[p] <= store'[p]]_vars
  BY StoreGrows DEF IInv
<1>. QED  BY <1>1, IInvAlways, PTL DEF Spec

----------------------------------------------------------------------------
(* What retention and reclamation may drop, what replay has to find, and    *)
(* the refinement of DurablePages.  Each invariant from here on is          *)
(* inductive together with IInv.                                            *)

USE BoundsAssumption
    DEF Positions, Epochs, ReplacementStages, AttemptStages, AfterDirectorySync,
        AfterCurrentReplace

(* The conjuncts of IInv, as most lemmas below assume them.                 *)
LEMMA IInvParts ==
    ASSUME IInv
    PROVE  TypeInv /\ TypeOK /\ WalInv /\ PagesInv
BY DEF IInv, TypeInv

(* Every step but those named here leaves log, frontier and page store as  *)
(* they are.                                                                *)
LEMMA StepKinds ==
    ASSUME Next, TypeInv
    PROVE  \/ UNCHANGED <<wal, flush, nextPosition, store>>
           \/ \E record \in WalRecord : AppendRecord(record) /\ LiveOrComplete
           \/ FlushWal
           \/ \E q \in Positions : WritePageStore(q)
           \/ \E preserveTail \in TailOutcomes : Crash(preserveTail)
           \/ RepairPages
           \/ AdvanceWalCandidate
           \/ Reclaim
<1>1. ASSUME NEW tx \in DOMAIN active, NEW p \in Pages, AppendTransactionPage(tx, p)
      PROVE  \E record \in WalRecord : AppendRecord(record) /\ LiveOrComplete
  <2>. DEFINE record == [kind |-> "TransactionPage", transaction |-> tx, page |-> p]
  <2>1. record \in WalRecord /\ AppendRecord(record) /\ LiveOrComplete
    BY <1>1, TablesElim DEF AppendTransactionPage, WalRecord, TypeOK, TypeInv
  <2>. QED  BY <2>1
<1>2. ASSUME NEW tx \in DOMAIN active, AppendTransactionCommit(tx)
      PROVE  \E record \in WalRecord : AppendRecord(record) /\ LiveOrComplete
  <2>. DEFINE record == [kind |-> "TransactionCommit", transaction |-> tx, page |-> None]
  <2>1. record \in WalRecord /\ AppendRecord(record) /\ LiveOrComplete
    BY <1>2, TablesElim DEF AppendTransactionCommit, WalRecord, TypeOK, TypeInv
  <2>. QED  BY <2>1
<1>3. ASSUME NEW p \in Pages, AppendRawPage(p)
      PROVE  \E record \in WalRecord : AppendRecord(record) /\ LiveOrComplete
  <2>. DEFINE record == [kind |-> "RawPage", transaction |-> None, page |-> p]
  <2>1. record \in WalRecord /\ AppendRecord(record) /\ LiveOrComplete
    BY <1>3 DEF AppendRawPage, WalRecord
  <2>. QED  BY <2>1
<1>4. CASE LiveStep
  BY <1>1, <1>2, <1>3, <1>4
     DEF LiveStep, AllocateCoordinatorEpoch, BeginTransaction, PublishCheckpoint, walVars
<1>5. CASE ReplacementStep
  BY <1>5
     DEF ReplacementStep, BeginCheckpointCandidate, AdvanceCheckpointCandidate,
         SetCheckpointCandidateEntry, BeginWalCandidate, SetWalCandidateEntry, walVars
<1>6. CASE CrashStep
  BY <1>6
     DEF CrashStep, SetSelectedEntriesForOpen, SetCheckpointCandidateForOpen,
         SetWalCandidateForOpen, walVars
<1>7. CASE RecoveryStep
  BY <1>7
     DEF RecoveryStep, Reopen, Select, PlanReplay, RestoreTransactions, Complete, walVars
<1>8. CASE RetentionStep
  BY <1>8 DEF RetentionStep, AnalyzeRetention, walVars
<1>. QED  BY <1>4, <1>5, <1>6, <1>7, <1>8 DEF Next

(* Where a WAL replacement comes from: it is new, or the one there was, not *)
(* further behind its rename than before.                                   *)
LEMMA WalCandidateOrigin ==
    ASSUME TypeInv, Next
    PROVE  \/ walCandidate' = None
           \/ BeginWalCandidate
           \/ \E e \in CandidateEntries : SetWalCandidateForOpen(e)
           \/ /\ walCandidate # None
              /\ walCandidate'.header = walCandidate.header
              /\ walCandidate'.suffix = walCandidate.suffix
              /\ walCandidate'.stage < AfterCurrentReplace =>
                    /\ walCandidate.stage < AfterCurrentReplace
                    /\ AdvanceWalCandidate => UNCHANGED <<header, wal, flush>>
<1>. DEFINE Goal == /\ walCandidate # None
                    /\ walCandidate'.header = walCandidate.header
                    /\ walCandidate'.suffix = walCandidate.suffix
                    /\ walCandidate'.stage < AfterCurrentReplace =>
                          /\ walCandidate.stage < AfterCurrentReplace
                          /\ AdvanceWalCandidate => UNCHANGED <<header, wal, flush>>
<1>0. walCandidate # None =>
        walCandidate \in [header : Headers, suffix : Wals, stage : AttemptStages,
                          entry : CandidateEntryStates]
  BY DEF TypeInv, TypeOK
<1>1. ASSUME AdvanceWalCandidate, walCandidate' # None PROVE Goal
  <2>. DEFINE next == walCandidate.stage + 1
  <2>1. walCandidate # None
    BY <1>1 DEF AdvanceWalCandidate
  <2>2. walCandidate' = [walCandidate EXCEPT !.stage = next, !.entry = EntryAfter(next)]
    BY <1>1 DEF AdvanceWalCandidate
  <2>3. next # AfterCurrentReplace => UNCHANGED <<header, wal, flush>>
    BY <1>1 DEF AdvanceWalCandidate
  <2>4. walCandidate.stage \in 0 .. 8
    BY <1>0, <2>1
  <2>5. /\ walCandidate'.header = walCandidate.header
        /\ walCandidate'.suffix = walCandidate.suffix
        /\ walCandidate'.stage = next
    <3>. HIDE DEF next
    <3>. QED  BY <1>0, <2>1, <2>2
  <2>. QED  BY <2>1, <2>3, <2>4, <2>5
<1>2. ASSUME NEW e \in CandidateEntries, SetWalCandidateEntry(e) PROVE Goal
  <2>1. walCandidate # None /\ walCandidate' = [walCandidate EXCEPT !.entry = e]
    BY <1>2 DEF SetWalCandidateEntry
  <2>2. UNCHANGED <<header, wal, flush>>
    BY <1>2 DEF SetWalCandidateEntry, walVars
  <2>3. /\ walCandidate'.header = walCandidate.header
        /\ walCandidate'.suffix = walCandidate.suffix
        /\ walCandidate'.stage = walCandidate.stage
    BY <1>0, <2>1
  <2>. QED  BY <2>1, <2>2, <2>3
<1>3. CASE UNCHANGED walCandidate /\ walCandidate # None
  <2>1. ~AdvanceWalCandidate
    <3>. SUFFICES ASSUME AdvanceWalCandidate PROVE FALSE
      OBVIOUS
    <3>1. walCandidate' = [walCandidate EXCEPT !.stage = walCandidate.stage + 1,
                                               !.entry = EntryAfter(walCandidate.stage + 1)]
      BY <1>3 DEF AdvanceWalCandidate
    <3>2. walCandidate'.stage = walCandidate.stage + 1
      BY <1>0, <1>3, <3>1
    <3>. QED  BY <1>0, <1>3, <3>2
  <2>. QED  BY <1>3, <2>1
<1>4. \/ walCandidate' = None
      \/ BeginWalCandidate
      \/ \E e \in CandidateEntries : SetWalCandidateForOpen(e)
      \/ \E e \in CandidateEntries : SetWalCandidateEntry(e)
      \/ AdvanceWalCandidate
      \/ UNCHANGED walCandidate
  BY DEF Next, LiveStep, ReplacementStep, CrashStep, RecoveryStep, RetentionStep,
         AllocateCoordinatorEpoch, BeginTransaction, AppendTransactionPage,
         AppendTransactionCommit, AppendRawPage, AppendRecord, FlushWal, WritePageStore,
         PublishCheckpoint, BeginCheckpointCandidate, AdvanceCheckpointCandidate,
         SetCheckpointCandidateEntry, Crash, SetSelectedEntriesForOpen,
         SetCheckpointCandidateForOpen, Reopen, Select, PlanReplay, RepairPages,
         RestoreTransactions, Complete, AnalyzeRetention, Reclaim, candidateVars
<1>. QED  BY <1>1, <1>2, <1>3, <1>4

----------------------------------------------------------------------------
(* Retention is analysed against the checkpoint of the slot.                *)

(* A live operation that says so leaves no fresh evidence of completion.    *)
LEMMA StaleNotFresh ==
    ASSUME TypeOK, MarkCompletionStale
    PROVE  ~FreshlyComplete'
BY DEF TypeOK, MarkCompletionStale, FreshlyComplete

LEMMA AnchorInit == Init => AnchorInv
BY DEF Init, AnchorInv, SelectionInForce, FreshlyComplete, Recovering

(* Nothing AnchorInv speaks of changed, or it did not hold the selection.   *)
LEMMA AnchorKept ==
    ASSUME AnchorInv, SelectionInForce' => SelectionInForce,
           UNCHANGED <<slot, selected, checkpointCandidate, header, walCandidate>>
    PROVE  AnchorInv'
BY DEF AnchorInv

(* The selection comes into force at select, and goes out of force with the *)
(* first step that replaces the slot or starts to; every replacement of the *)
(* WAL in between takes the anchor of the selection.                        *)
LEMMA AnchorStep ==
    ASSUME IInv, AnchorInv, Next
    PROVE  AnchorInv'
<1>0. TypeInv /\ TypeOK /\ WalInv /\ PagesInv
  BY IInvParts
<1>. USE DEF SelectionInForce, FreshlyComplete, Recovering
<1>1. CASE LiveStep
  <2>1. CASE FlushWal
    BY <2>1, AnchorKept DEF FlushWal, checkpointVars, candidateVars, recoveryVars
  <2>2. CASE ~FlushWal
    <3>1. MarkCompletionStale /\ LiveOrComplete /\ phase' = phase
      BY <1>1, <2>2
         DEF LiveStep, AllocateCoordinatorEpoch, BeginTransaction, AppendTransactionPage,
             AppendTransactionCommit, AppendRawPage, AppendRecord, WritePageStore,
             PublishCheckpoint
    <3>2. ~FreshlyComplete'
      BY <1>0, <3>1, StaleNotFresh
    <3>. QED  BY <3>1, <3>2 DEF LiveOrComplete, AnchorInv
  <2>. QED  BY <2>1, <2>2
<1>2. CASE ReplacementStep
  <2>1. ASSUME NEW a \in CandidateAnchors, BeginCheckpointCandidate(a) PROVE AnchorInv'
    <3>1. LiveOrComplete /\ phase' = phase /\ ~FreshlyComplete'
      BY <1>0, <2>1, StaleNotFresh DEF BeginCheckpointCandidate
    <3>. QED  BY <3>1 DEF LiveOrComplete, AnchorInv
  <2>2. CASE AdvanceCheckpointCandidate
    <3>1. ~SelectionInForce /\ phase' = phase
      BY <2>2 DEF AdvanceCheckpointCandidate, AnchorInv
    <3>2. MarkCompletionStale \/ evidence' = evidence
      BY <2>2 DEF AdvanceCheckpointCandidate
    <3>3. ~SelectionInForce'
      BY <1>0, <3>1, <3>2, StaleNotFresh
    <3>. QED  BY <3>3 DEF AnchorInv
  <2>3. ASSUME NEW e \in CandidateEntries, SetCheckpointCandidateEntry(e) PROVE AnchorInv'
    <3>1. ~SelectionInForce /\ UNCHANGED <<phase, evidence>>
      BY <2>3 DEF SetCheckpointCandidateEntry, AnchorInv, recoveryVars
    <3>. QED  BY <3>1 DEF AnchorInv
  <2>4. CASE BeginWalCandidate
    <3>1. /\ phase = "RetentionAnalyzed" /\ selected.anchor = analysis.anchor
          /\ UNCHANGED <<phase, slot, selected, checkpointCandidate, header>>
      BY <2>4 DEF BeginWalCandidate, ReclamationReady, checkpointVars
    <3>2. walCandidate'.header = ReplacementHeader
      BY <2>4 DEF BeginWalCandidate
    <3>3. walCandidate'.header.anchor = selected.anchor
      BY <3>1, <3>2 DEF ReplacementHeader
    <3>. QED  BY <3>1, <3>3 DEF AnchorInv
  <2>5. CASE AdvanceWalCandidate
    <3>1. /\ UNCHANGED <<phase, slot, selected, checkpointCandidate, evidence>>
          /\ walCandidate # None
          /\ header' = header \/ header' = walCandidate.header
      BY <2>5 DEF AdvanceWalCandidate, Install, checkpointVars, recoveryVars
    <3>2. walCandidate' # None => walCandidate'.header = walCandidate.header
      <4>1. walCandidate \in [header : Headers, suffix : Wals, stage : AttemptStages,
                              entry : CandidateEntryStates]
        BY <1>0, <3>1 DEF TypeOK
      <4>2. walCandidate' = None
              \/ \E n, e : walCandidate' = [walCandidate EXCEPT !.stage = n, !.entry = e]
        BY <2>5, Zenon DEF AdvanceWalCandidate
      <4>. QED  BY <4>1, <4>2
    <3>. QED  BY <3>1, <3>2 DEF AnchorInv
  <2>6. ASSUME NEW e \in CandidateEntries, SetWalCandidateEntry(e) PROVE AnchorInv'
    <3>1. /\ UNCHANGED <<phase, slot, selected, checkpointCandidate, evidence, header>>
          /\ walCandidate # None
          /\ walCandidate' = [walCandidate EXCEPT !.entry = e]
      BY <2>6 DEF SetWalCandidateEntry, checkpointVars, recoveryVars
    <3>2. walCandidate'.header = walCandidate.header
      BY <1>0, <3>1 DEF TypeOK
    <3>. QED  BY <3>1, <3>2 DEF AnchorInv
  <2>. QED  BY <1>2, <2>1, <2>2, <2>3, <2>4, <2>5, <2>6 DEF ReplacementStep
<1>3. CASE CrashStep
  <2>1. phase' = "Crashed"
    BY <1>3 DEF CrashStep, Crash, SetSelectedEntriesForOpen, SetCheckpointCandidateForOpen,
                SetWalCandidateForOpen
  <2>. QED  BY <2>1 DEF AnchorInv
<1>4. CASE RecoveryStep
  <2>1. CASE Reopen
    BY <2>1 DEF Reopen, AnchorInv
  <2>2. CASE Select
    <3>1. checkpointCandidate = None /\ walCandidate = None
      BY <1>0, <2>2 DEF Select, TypeInv, NoCandidateInRecovery
    <3>. QED  BY <2>2, <3>1 DEF Select, AnchorInv, candidateVars
  <2>3. CASE PlanReplay \/ RepairPages \/ RestoreTransactions \/ Complete
    <3>1. UNCHANGED <<slot, selected, checkpointCandidate, header, walCandidate>>
      BY <2>3 DEF PlanReplay, RepairPages, RestoreTransactions, Complete, checkpointVars,
                  candidateVars
    <3>2. SelectionInForce
      BY <2>3 DEF PlanReplay, RepairPages, RestoreTransactions, Complete
    <3>. QED  BY <3>1, <3>2, AnchorKept
  <2>. QED  BY <1>4, <2>1, <2>2, <2>3 DEF RecoveryStep
<1>5. CASE AnalyzeRetention
  BY <1>5, AnchorKept DEF AnalyzeRetention, checkpointVars, candidateVars
<1>6. CASE Reclaim
  <2>1. /\ phase = "RetentionAnalyzed" /\ selected.anchor = analysis.anchor
        /\ UNCHANGED <<slot, selected, checkpointCandidate, walCandidate>>
        /\ walCandidate = None
        /\ header' = ReplacementHeader
    BY <1>6 DEF Reclaim, ReclamationReady, Install, checkpointVars, candidateVars
  <2>2. header'.anchor = selected.anchor
    BY <2>1 DEF ReplacementHeader
  <2>. QED  BY <2>1, <2>2 DEF AnchorInv
<1>. QED  BY <1>1, <1>2, <1>3, <1>4, <1>5, <1>6 DEF Next, RetentionStep

LEMMA AnchorAlways == Spec => []AnchorInv
<1>1. IInv /\ AnchorInv /\ [Next]_vars => AnchorInv'
  <2>1. ASSUME AnchorInv, UNCHANGED vars PROVE AnchorInv'
    BY <2>1 DEF vars, checkpointVars, candidateVars, recoveryVars, AnchorInv,
                SelectionInForce, FreshlyComplete
  <2>. QED  BY <2>1, AnchorStep
<1>. QED  BY <1>1, AnchorInit, IInvAlways, PTL DEF Spec

(* Whatever is published, replaced stage by stage or installed in between,  *)
(* retention is analysed and the WAL reclaimed against the checkpoint the   *)
(* slot holds, and a reclaimed WAL is bound to the anchor of that one.      *)
THEOREM ReclaimsAgainstSlot == Spec => []ReclamationAnchoredInSlot
<1>1. AnchorInv => ReclamationAnchoredInSlot
  BY DEF AnchorInv, SelectionInForce, ReclamationAnchoredInSlot
<1>. QED  BY <1>1, AnchorAlways, PTL

(* A WAL replacement that is still to be renamed has the frontiers of the   *)
(* log, only durable records of it, and all of them from the oldest image   *)
(* of the page store on.                                                    *)
THEOREM ReplacementAgrees == Spec => []CandidateRetainsPages
<1>1. IInv => CandidateRetainsPages
  BY DEF IInv, PagesInv
<1>. QED  BY <1>1, IInvAlways, PTL

----------------------------------------------------------------------------
(* Reclamation keeps the records of unresolved transactions.                *)

(* While a WAL replacement is pending, only a crash and the replacement     *)
(* itself touch what it was derived from.                                   *)
LEMMA PendingFrame ==
    ASSUME TypeInv, PagesInv, Next, walCandidate # None, walCandidate' # None
    PROVE  \/ UNCHANGED <<wal, flush, store, persisted>>
           \/ AdvanceWalCandidate /\ UNCHANGED <<store, persisted>>
           \/ \E preserveTail \in TailOutcomes : Crash(preserveTail)
<1>1. phase \in {"RetentionAnalyzed", "Crashed"}
  BY DEF PagesInv, CandidateOnlyInReclamation
<1>. QED
  BY <1>1
     DEF Next, LiveStep, ReplacementStep, CrashStep, RecoveryStep, RetentionStep,
         AllocateCoordinatorEpoch, BeginTransaction, AppendTransactionPage,
         AppendTransactionCommit, AppendRawPage, FlushWal, WritePageStore,
         PublishCheckpoint, LiveOrComplete, BeginCheckpointCandidate,
         AdvanceCheckpointCandidate, SetCheckpointCandidateEntry, BeginWalCandidate,
         AdvanceWalCandidate, SetWalCandidateEntry, SetSelectedEntriesForOpen,
         SetCheckpointCandidateForOpen, SetWalCandidateForOpen, Reopen, Select, PlanReplay,
         RepairPages, RestoreTransactions, Complete, AnalyzeRetention, Reclaim, walVars,
         transactionVars

(* A crash keeps the durable log and frontier, the store, and nothing of    *)
(* the transaction table.                                                   *)
LEMMA CrashKeepsDurable ==
    ASSUME TypeOK, NEW preserveTail \in TailOutcomes, Crash(preserveTail)
    PROVE  /\ WalShrinks
           /\ UNCHANGED <<flush, store>>
           /\ DurablePositions' = DurablePositions
           /\ DOMAIN persisted' = {}
           /\ phase' = "Crashed"
           /\ preserveTail = FALSE => DOMAIN wal' = DurablePositions
<1>. DEFINE kept == IF preserveTail THEN DOMAIN wal ELSE DurablePositions
<1>1. /\ wal' = Restrict(wal, kept)
      /\ UNCHANGED <<flush, store>>
      /\ DOMAIN persisted' = {} /\ phase' = "Crashed"
  BY DEF Crash
<1>2. kept \in SUBSET DOMAIN wal /\ DurablePositions \in SUBSET kept
  BY DEF DurablePositions
<1>3. WalShrinks /\ DOMAIN wal' = kept
  BY <1>1, <1>2, RestrictShrinks
<1>. QED  BY <1>1, <1>2, <1>3 DEF DurablePositions

(* The floor of an analysis is no later than the first record of any        *)
(* unresolved transaction.                                                  *)
LEMMA AnalyzedFloor ==
    ASSUME TypeOK, AnalyzeRetention
    PROVE  FloorBelowUnresolved'
<1>. DEFINE floor == Earliest(RetentionConstraints)
<1>1. /\ RetentionConstraints \in SUBSET (0 .. MaxPosition)
      /\ UNCHANGED persisted
      /\ analysis'.retainedFirst = floor
  BY DurableRange DEF AnalyzeRetention, transactionVars
<1>2. /\ \A q \in RetentionConstraints : floor <= q
      /\ RetentionConstraints # {} => floor \in RetentionConstraints
      /\ floor \in 0 .. MaxPosition
  BY <1>1, EarliestInRange
<1>3. 0 \notin RetentionConstraints
  BY DEF RetentionConstraints
<1>4. ASSUME NEW tx \in DOMAIN persisted, NEW q \in persisted[tx]
      PROVE  floor # 0 /\ floor <= q
  <2>1. persisted[tx] \in SUBSET (0 .. MaxPosition) /\ 0 \notin persisted[tx]
    BY TablesElim DEF TypeOK
  <2>2. /\ FirstOwned(tx) \in persisted[tx]
        /\ FirstOwned(tx) <= q
    BY <2>1, EarliestInRange DEF FirstOwned
  <2>3. FirstOwned(tx) \in RetentionConstraints
    BY <2>1, <2>2 DEF RetentionConstraints
  <2>4. floor <= FirstOwned(tx) /\ FirstOwned(tx) \in Int /\ q \in Int
    BY <1>2, <2>1, <2>2, <2>3
  <2>. QED  BY <1>2, <1>3, <2>2, <2>3, <2>4
<1>. QED  BY <1>1, <1>4 DEF FloorBelowUnresolved

LEMMA FloorUnresolvedStep ==
    ASSUME TypeInv, FloorBelowUnresolved, Next
    PROVE  FloorBelowUnresolved'
<1>1. CASE AnalyzeRetention
  BY <1>1, AnalyzedFloor DEF TypeInv
<1>2. CASE ReplacementStep
  <2>1. UNCHANGED <<phase, analysis, persisted>>
    BY <1>2
       DEF ReplacementStep, BeginCheckpointCandidate, AdvanceCheckpointCandidate,
           SetCheckpointCandidateEntry, BeginWalCandidate, AdvanceWalCandidate,
           SetWalCandidateEntry, recoveryVars, transactionVars
  <2>. QED  BY <2>1 DEF FloorBelowUnresolved
<1>3. CASE phase' # "RetentionAnalyzed"
  BY <1>3 DEF FloorBelowUnresolved
<1>. QED
  BY <1>1, <1>2, <1>3
     DEF Next, LiveStep, CrashStep, RecoveryStep, RetentionStep, LiveOrComplete,
         AllocateCoordinatorEpoch, BeginTransaction, AppendTransactionPage,
         AppendTransactionCommit, AppendRawPage, AppendRecord, FlushWal, WritePageStore,
         PublishCheckpoint, Crash, SetSelectedEntriesForOpen, SetCheckpointCandidateForOpen,
         SetWalCandidateForOpen, Reopen, Select, PlanReplay, RepairPages,
         RestoreTransactions, Complete, Reclaim

(* What a reclamation retains of the log includes every durable record of   *)
(* an unresolved transaction.                                               *)
LEMMA RetainedUnresolved ==
    ASSUME TypeOK, FloorBelowUnresolved, ReclamationReady
    PROVE  \A tx \in DOMAIN persisted : persisted[tx] \cap DurablePositions \subseteq Retained
<1>1. \A q \in DurablePositions : q \in DOMAIN wal
  BY DEF DurablePositions
<1>. QED  BY <1>1 DEF ReclamationReady, FloorBelowUnresolved, Retained

LEMMA CandidateUnresolvedStep ==
    ASSUME TypeInv, PagesInv, UnresolvedInv, Next
    PROVE  CandidateRetainsUnresolved'
<1>0. TypeOK
  BY DEF TypeInv
<1>1. CASE walCandidate' = None
  BY <1>1 DEF CandidateRetainsUnresolved
<1>2. CASE BeginWalCandidate
  <2>1. /\ ReclamationReady
        /\ UNCHANGED <<wal, flush, persisted>>
        /\ walCandidate'.suffix = Restrict(wal, Retained)
    BY <1>2 DEF BeginWalCandidate, walVars, transactionVars
  <2>2. DOMAIN walCandidate'.suffix = Retained
    BY <1>0, <2>1, RestrictWal DEF TypeOK, Retained
  <2>3. DurablePositions' = DurablePositions
    BY <2>1 DEF DurablePositions
  <2>. QED  BY <1>0, <2>1, <2>2, <2>3, RetainedUnresolved
            DEF UnresolvedInv, CandidateRetainsUnresolved
<1>3. ASSUME NEW e \in CandidateEntries, SetWalCandidateForOpen(e)
      PROVE  CandidateRetainsUnresolved'
  <2>1. /\ UNCHANGED <<wal, flush, persisted>>
        /\ walCandidate'.suffix = Restrict(wal, DurablePositions)
    BY <1>3 DEF SetWalCandidateForOpen, walVars, transactionVars
  <2>2. DOMAIN walCandidate'.suffix = DurablePositions
    BY <1>0, <2>1, RestrictWal, DurableRange DEF TypeOK
  <2>3. DurablePositions' = DurablePositions
    BY <2>1 DEF DurablePositions
  <2>. QED  BY <2>1, <2>2, <2>3 DEF CandidateRetainsUnresolved
<1>4. CASE /\ walCandidate # None
           /\ walCandidate' # None
           /\ walCandidate'.suffix = walCandidate.suffix
           /\ walCandidate'.stage < AfterCurrentReplace =>
                /\ walCandidate.stage < AfterCurrentReplace
                /\ AdvanceWalCandidate => UNCHANGED <<header, wal, flush>>
  <2>. SUFFICES ASSUME walCandidate'.stage < AfterCurrentReplace
                PROVE  CandidateRetainsUnresolved'
    BY DEF CandidateRetainsUnresolved
  <2>1. CASE UNCHANGED <<wal, flush, persisted>>
    <3>1. DurablePositions' = DurablePositions
      BY <2>1 DEF DurablePositions
    <3>. QED  BY <1>4, <2>1, <3>1 DEF UnresolvedInv, CandidateRetainsUnresolved
  <2>2. ASSUME NEW preserveTail \in TailOutcomes, Crash(preserveTail)
        PROVE  CandidateRetainsUnresolved'
    BY <1>0, <2>2, CrashKeepsDurable DEF CandidateRetainsUnresolved
  <2>. QED  BY <1>4, <2>1, <2>2, PendingFrame
<1>. QED  BY <1>1, <1>2, <1>3, <1>4, WalCandidateOrigin

LEMMA UnresolvedAlways == Spec => []UnresolvedInv
<1>1. Init => UnresolvedInv
  BY DEF Init, UnresolvedInv, FloorBelowUnresolved, CandidateRetainsUnresolved
<1>2. IInv /\ UnresolvedInv /\ [Next]_vars => UnresolvedInv'
  <2>1. ASSUME IInv, UnresolvedInv, Next PROVE UnresolvedInv'
    BY <2>1, IInvParts, FloorUnresolvedStep, CandidateUnresolvedStep DEF UnresolvedInv
  <2>2. ASSUME UnresolvedInv, UNCHANGED vars PROVE UnresolvedInv'
    BY <2>2 DEF vars, walVars, transactionVars, candidateVars, recoveryVars, UnresolvedInv,
                FloorBelowUnresolved, CandidateRetainsUnresolved, DurablePositions
  <2>. QED  BY <2>1, <2>2
<1>. QED  BY <1>1, <1>2, IInvAlways, PTL DEF Spec

(* No step takes a durable record of a transaction that recovery found      *)
(* unresolved out of the WAL, the reclamation in one call and the rename of *)
(* the stepwise one included.                                               *)
THEOREM UnresolvedOutliveReclamation == Spec => UnresolvedRecordsRetained
<1>. DEFINE Kept == \A tx \in DOMAIN persisted :
                        persisted[tx] \cap DurablePositions \subseteq DOMAIN wal'
<1>1. ASSUME IInv, UnresolvedInv, Next PROVE Kept
  <2>0. TypeInv /\ TypeOK /\ WalInv /\ PagesInv
    BY <1>1, IInvParts
  <2>a. CASE DurablePositions \subseteq DOMAIN wal'
    BY <2>a
  <2>1. CASE UNCHANGED wal
    BY <2>1, <2>a DEF DurablePositions
  <2>2. ASSUME NEW record \in WalRecord, AppendRecord(record) PROVE Kept
    BY <2>0, <2>2, AppendGrows, <2>a DEF DurablePositions
  <2>3. CASE FlushWal
    BY <2>1, <2>3 DEF FlushWal
  <2>4. ASSUME NEW q \in Positions, WritePageStore(q) PROVE Kept
    BY <2>1, <2>4 DEF WritePageStore, walVars
  <2>5. ASSUME NEW preserveTail \in TailOutcomes, Crash(preserveTail) PROVE Kept
    <3>1. DurablePositions' = DurablePositions
      BY <2>0, <2>5, CrashKeepsDurable
    <3>2. DurablePositions' \subseteq DOMAIN wal'
      BY DEF DurablePositions
    <3>. QED  BY <2>a, <3>1, <3>2
  <2>6. CASE RepairPages
    BY <2>1, <2>6 DEF RepairPages, walVars
  <2>7. CASE AdvanceWalCandidate
    <3>1. CASE walCandidate.stage + 1 = AfterCurrentReplace
      <4>1. wal' = walCandidate.suffix /\ walCandidate # None
        BY <2>7, <3>1 DEF AdvanceWalCandidate, Install
      <4>2. walCandidate.stage < AfterCurrentReplace
        BY <2>0, <3>1, <4>1 DEF TypeOK
      <4>. QED  BY <1>1, <4>1, <4>2 DEF UnresolvedInv, CandidateRetainsUnresolved
    <3>2. CASE walCandidate.stage + 1 # AfterCurrentReplace
      BY <2>1, <2>7, <3>2 DEF AdvanceWalCandidate
    <3>. QED  BY <3>1, <3>2
  <2>8. CASE Reclaim
    <3>1. DOMAIN wal' = Retained /\ ReclamationReady
      BY <2>0, <2>8, ReclaimShrinks DEF Reclaim
    <3>. QED  BY <1>1, <2>0, <3>1, RetainedUnresolved DEF UnresolvedInv
  <2>. QED  BY <1>1, <2>0, <2>1, <2>2, <2>3, <2>4, <2>5, <2>6, <2>7, <2>8, StepKinds
<1>2. IInv /\ UnresolvedInv /\ [Next]_vars => [Kept]_vars
  BY <1>1
<1>. QED  BY <1>2, IInvAlways, UnresolvedAlways, PTL DEF Spec, UnresolvedRecordsRetained

----------------------------------------------------------------------------
(* Replay finds every record whose image the store lacks.                   *)

(* The log loses records, or gains the one at the next position.            *)
WalGains ==
    /\ DOMAIN wal' = DOMAIN wal \cup {nextPosition}
    /\ \A q \in DOMAIN wal : wal'[q] = wal[q]
    /\ nextPosition' = nextPosition + 1

LEMMA WalChange ==
    ASSUME IInv, Next
    PROVE  (WalShrinks /\ nextPosition' = nextPosition) \/ WalGains
<1>0. TypeInv /\ TypeOK /\ WalInv /\ PagesInv
  BY IInvParts
<1>1. ASSUME UNCHANGED wal PROVE WalShrinks
  BY <1>1 DEF WalShrinks
<1>2. ASSUME NEW record \in WalRecord, AppendRecord(record) PROVE WalGains
  BY <1>0, <1>2, AppendGrows DEF WalGains
<1>3. CASE FlushWal
  BY <1>1, <1>3 DEF FlushWal
<1>4. ASSUME NEW q \in Positions, WritePageStore(q)
      PROVE  WalShrinks /\ nextPosition' = nextPosition
  BY <1>1, <1>4 DEF WritePageStore, walVars
<1>5. ASSUME NEW preserveTail \in TailOutcomes, Crash(preserveTail)
      PROVE  WalShrinks /\ nextPosition' = nextPosition
  BY <1>0, <1>5, CrashKeepsDurable DEF Crash
<1>6. CASE RepairPages
  BY <1>1, <1>6 DEF RepairPages, walVars
<1>7. CASE AdvanceWalCandidate
  BY <1>0, <1>7, RenameShrinks DEF AdvanceWalCandidate, PagesInv
<1>8. CASE Reclaim
  BY <1>0, <1>8, ReclaimShrinks DEF Reclaim
<1>. QED  BY <1>0, <1>1, <1>2, <1>3, <1>4, <1>5, <1>6, <1>7, <1>8, StepKinds

(* The frontier is below the next position, so a record to come is above    *)
(* every frontier a checkpoint was taken at.                                *)
LEMMA FlushBelowNextStep ==
    ASSUME IInv, FlushBelowNext, Next
    PROVE  FlushBelowNext'
<1>0. TypeInv /\ TypeOK /\ WalInv /\ PagesInv
  BY IInvParts
<1>1. nextPosition \in Int /\ flush \in Int
  BY <1>0 DEF TypeOK
<1>2. nextPosition' = nextPosition \/ nextPosition' = nextPosition + 1
  BY WalChange DEF WalGains
<1>3. CASE flush' = flush
  BY <1>1, <1>2, <1>3 DEF FlushBelowNext
<1>4. CASE FlushWal
  <2>1. flush' = Latest(DOMAIN wal) /\ nextPosition' = nextPosition /\ DOMAIN wal # {}
    <3>1. DOMAIN wal # {}
      <4>. SUFFICES ASSUME DOMAIN wal = {} PROVE FALSE
        OBVIOUS
      <4>1. wal \in [{} -> WalRecord]
        BY <1>0, WalsElim DEF TypeOK
      <4>2. wal = [q \in {} |-> None]
        BY <4>1
      <4>. QED  BY <1>4, <4>2 DEF FlushWal
    <3>. QED  BY <1>4, <3>1 DEF FlushWal
  <2>2. Latest(DOMAIN wal) \in DOMAIN wal
    BY <1>0, <2>1, DurableRange, LatestInRange
  <2>. QED  BY <1>0, <2>1, <2>2 DEF WalInv, WalBelowNext, FlushBelowNext
<1>5. CASE ~FlushWal
  <2>1. ASSUME NEW record \in WalRecord, AppendRecord(record) PROVE flush' = flush
    BY <2>1 DEF AppendRecord
  <2>2. ASSUME NEW q \in Positions, WritePageStore(q) PROVE flush' = flush
    BY <2>2 DEF WritePageStore, walVars
  <2>3. ASSUME NEW preserveTail \in TailOutcomes, Crash(preserveTail) PROVE flush' = flush
    BY <2>3 DEF Crash
  <2>4. RepairPages => flush' = flush
    BY DEF RepairPages, walVars
  <2>5. AdvanceWalCandidate => flush' = flush
    BY <1>0, RenameShrinks DEF PagesInv
  <2>6. Reclaim => flush' = flush
    BY <1>0, ReclaimShrinks DEF Reclaim
  <2>. QED  BY <1>0, <1>3, <1>5, <2>1, <2>2, <2>3, <2>4, <2>5, <2>6, StepKinds
<1>. QED  BY <1>4, <1>5

(* A record missing after a step was missing before, unless it is new.      *)
LEMMA MissingStep ==
    ASSUME IInv, Next, NEW q \in DOMAIN wal, q \in DOMAIN wal', Missing(q)'
    PROVE  Missing(q) /\ wal'[q] = wal[q]
<1>0. TypeInv /\ TypeOK /\ TypeOK' /\ WalInv /\ PagesInv
  BY IInvParts, TypeInvStep DEF TypeInv
<1>1. wal'[q] = wal[q]
  BY WalChange DEF WalShrinks, WalGains
<1>2. IsPage(wal[q])
  BY <1>1 DEF Missing, IsPage
<1>3. wal[q].page \in Pages
  <2>1. wal[q] \in WalRecord
    BY <1>0, WalsElim DEF TypeOK
  <2>. QED  BY <1>2, <2>1 DEF WalRecord, IsPage
<1>4. store[wal[q].page] <= store'[wal[q].page]
  BY <1>0, <1>3, StoreGrows
<1>5. store[wal[q].page] \in Int /\ store'[wal[q].page] \in Int /\ q \in Int
  BY <1>0, <1>3, DurableRange DEF TypeOK, PageImages
<1>6. store'[wal[q].page] < q
  BY <1>1 DEF Missing
<1>. QED  BY <1>1, <1>2, <1>4, <1>5, <1>6 DEF Missing

(* A checkpoint taken now replays from the first durable record missing.    *)
LEMMA ImageReplays ==
    ASSUME TypeOK, WalInv, FlushBelowNext, NEW anchor \in Anchors
    PROVE  ReplaysMissing(CheckpointImage(anchor))
<1>. DEFINE M == {q \in DurablePositions : Missing(q)}
            image == CheckpointImage(anchor)
<1>1. image.replayStart = Earliest(M) /\ image.frontier = flush
  BY DEF CheckpointImage, ReplayStart, Missing
<1>2. M \in SUBSET (0 .. MaxPosition) /\ 0 \notin M
  BY DurableRange
<1>3. /\ Earliest(M) \in 0 .. MaxPosition
      /\ M # {} => Earliest(M) \in M
      /\ \A q \in M : Earliest(M) <= q
  BY <1>2, EarliestInRange
<1>4. M = {} => Earliest(M) = 0
  BY DEF Earliest
<1>5. flush \in Int /\ nextPosition \in Int /\ \A q \in DOMAIN wal : q \in Int
  BY DurableRange DEF TypeOK
<1>6. Earliest(M) # 0 => Earliest(M) <= flush
  BY <1>3, <1>4 DEF DurablePositions
<1>7. Earliest(M) < nextPosition
  BY <1>3, <1>5, <1>6 DEF FlushBelowNext, TypeOK
<1>8. ASSUME NEW q \in DOMAIN wal, Missing(q)
      PROVE  IF Earliest(M) # 0 THEN q >= Earliest(M) ELSE q > flush
  <2>1. CASE q <= flush
    <3>1. q \in M
      BY <1>8, <2>1 DEF DurablePositions
    <3>. QED  BY <1>2, <1>3, <3>1
  <2>2. CASE q > flush
    <3>. HIDE DEF M
    <3>. QED  BY <1>3, <1>5, <1>6, <2>2
  <2>. QED  BY <1>5, <2>1, <2>2
<1>. HIDE DEF M, image
<1>9. \A q \in DOMAIN wal : Missing(q) => ReachedFrom(image, q)
  BY <1>1, <1>8 DEF ReachedFrom
<1>10. ReplaysMissing(image)
  BY <1>1, <1>7, <1>9 DEF ReplaysMissing, FlushBelowNext
<1>. QED  BY <1>10 DEF image

(* A checkpoint from which replay finds what is missing stays one.          *)
LEMMA ReplaysStep ==
    ASSUME IInv, Next, NEW snapshot \in CheckpointSnapshot, ReplaysMissing(snapshot)
    PROVE  ReplaysMissing(snapshot)'
<1>0. TypeOK /\ TypeOK' /\ WalInv
  BY IInvParts, TypeInvStep DEF TypeInv
<1>1. /\ snapshot.frontier \in Int /\ snapshot.replayStart \in Int
      /\ nextPosition \in Int
      /\ snapshot.frontier < nextPosition /\ snapshot.replayStart < nextPosition
  BY <1>0 DEF CheckpointSnapshot, TypeOK, ReplaysMissing
<1>2. nextPosition' = nextPosition \/ nextPosition' = nextPosition + 1
  BY WalChange DEF WalGains
<1>3. ASSUME NEW q \in DOMAIN wal', Missing(q)'
      PROVE  ReachedFrom(snapshot, q)
  <2>1. CASE q \in DOMAIN wal
    BY <1>3, <2>1, MissingStep DEF ReplaysMissing
  <2>2. CASE q \notin DOMAIN wal
    <3>1. q = nextPosition
      BY <1>3, <2>2, WalChange DEF WalShrinks, WalGains
    <3>. QED  BY <1>1, <3>1 DEF ReachedFrom
  <2>. QED  BY <2>1, <2>2
<1>. QED  BY <1>1, <1>2, <1>3 DEF ReplaysMissing, ReachedFrom

LEMMA SnapshotsReplayStep ==
    ASSUME IInv, FlushBelowNext, SnapshotsReplayMissing, Next
    PROVE  SnapshotsReplayMissing'
<1>0. TypeInv /\ TypeOK /\ TypeOK' /\ WalInv
  BY IInvParts, TypeInvStep DEF TypeInv
<1>1. ASSUME NEW snapshot \in CheckpointSnapshot, Known(snapshot)
      PROVE  ReplaysMissing(snapshot)'
  <2>1. ReplaysMissing(snapshot)
    BY <1>0, <1>1, ImageReplays DEF Known, SnapshotsReplayMissing
  <2>. QED  BY <2>1, ReplaysStep
<1>2. /\ slot' # None => slot' \in CheckpointSnapshot
      /\ selected' # None => selected' \in CheckpointSnapshot
      /\ checkpointCandidate' # None => checkpointCandidate'.snapshot \in CheckpointSnapshot
  BY <1>0 DEF TypeOK
<1>3. ReplaysMissing(slot)' \/ slot' = None
  BY <1>0, <1>1, <1>2, SnapshotOrigin DEF ReplaysMissing, ReachedFrom
<1>4. ReplaysMissing(selected)' \/ selected' = None
  BY <1>0, <1>1, <1>2, SnapshotOrigin DEF ReplaysMissing, ReachedFrom
<1>5. ReplaysMissing(checkpointCandidate.snapshot)' \/ checkpointCandidate' = None
  BY <1>0, <1>1, <1>2, SnapshotOrigin DEF ReplaysMissing, ReachedFrom
<1>. QED  BY <1>3, <1>4, <1>5 DEF SnapshotsReplayMissing

(* While the database recovers, nothing but recovery moves it on.           *)
LEMMA OnlyRecovery ==
    ASSUME TypeInv, Next, phase' \in Recovering
    PROVE  RecoveryStep
<1>1. LiveStep => phase' \in {"Live", "CompleteLive"}
  BY DEF LiveStep, AllocateCoordinatorEpoch, BeginTransaction, AppendTransactionPage,
         AppendTransactionCommit, AppendRawPage, AppendRecord, FlushWal, WritePageStore,
         PublishCheckpoint, LiveOrComplete
<1>2. ReplacementStep => phase' = phase
  BY DEF ReplacementStep, BeginCheckpointCandidate, AdvanceCheckpointCandidate,
         SetCheckpointCandidateEntry, BeginWalCandidate, AdvanceWalCandidate,
         SetWalCandidateEntry
<1>3. ReplacementStep => phase \notin Recovering
  BY DEF ReplacementStep, BeginCheckpointCandidate, AdvanceCheckpointCandidate,
         SetCheckpointCandidateEntry, BeginWalCandidate, AdvanceWalCandidate,
         SetWalCandidateEntry, LiveOrComplete, ReclamationReady, TypeInv,
         NoCandidateInRecovery, Recovering
<1>4. CrashStep => phase' = "Crashed"
  BY DEF CrashStep, Crash, SetSelectedEntriesForOpen, SetCheckpointCandidateForOpen,
         SetWalCandidateForOpen
<1>5. RetentionStep => phase' \in {"RetentionAnalyzed", "Reclaimed"}
  BY DEF RetentionStep, AnalyzeRetention, Reclaim
<1>. QED  BY <1>1, <1>2, <1>3, <1>4, <1>5 DEF Next, Recovering

(* The plan names every durable record whose image the store lacks.         *)
LEMMA PlanReachesStep ==
    ASSUME IInv, SnapshotsReplayMissing, PlanReachesMissing, Next
    PROVE  PlanReachesMissing'
<1>. SUFFICES ASSUME phase' \in {"ReplayPlanned", "PagesRepaired"},
                     NEW q \in DurablePositions', Missing(q)'
              PROVE  q \in plan'
  BY DEF PlanReachesMissing
<1>0. TypeInv
  BY IInvParts
<1>1. PlanReplay \/ RepairPages
  BY <1>0, OnlyRecovery
     DEF Recovering, RecoveryStep, Reopen, Select, RestoreTransactions, Complete
<1>2. UNCHANGED <<wal, flush, selected>>
  BY <1>1 DEF PlanReplay, RepairPages, walVars, checkpointVars
<1>3. q \in DurablePositions /\ q \in DOMAIN wal /\ q \in DOMAIN wal'
  BY <1>2 DEF DurablePositions
<1>4. Missing(q)
  BY <1>3, MissingStep
<1>5. CASE RepairPages
  BY <1>3, <1>4, <1>5 DEF RepairPages, PlanReachesMissing, recoveryVars
<1>6. CASE PlanReplay
  <2>1. selected # None => ReachedFrom(selected, q)
    BY <1>3, <1>4 DEF SnapshotsReplayMissing, ReplaysMissing
  <2>2. Replayed(q)
    BY <2>1 DEF Replayed, ReachedFrom
  <2>. QED  BY <1>3, <1>6, <2>2 DEF PlanReplay
<1>. QED  BY <1>1, <1>5, <1>6

(* What the plan names of an unresolved transaction is restored.            *)
LEMMA RestoredRemembered ==
    ASSUME TypeInv, PlanReachesMissing, RestoreTransactions
    PROVE  UnresolvedRemembered'
<1>1. /\ UNCHANGED <<wal, flush, store, plan>>
      /\ phase = "PagesRepaired"
      /\ persisted' = RestoredTransactions
  BY DEF RestoreTransactions, walVars, recoveryVars
<1>2. plan \subseteq DurablePositions
  BY <1>1 DEF TypeInv, PlanDurable
<1>. SUFFICES ASSUME NEW q \in DurablePositions,
                     wal[q].kind = "TransactionPage",
                     ~CommittedBy(wal[q].transaction, flush),
                     store[wal[q].page] < q
              PROVE  /\ wal[q].transaction \in DOMAIN RestoredTransactions
                     /\ q \in RestoredTransactions[wal[q].transaction]
  <2>1. DurablePositions' = DurablePositions
    BY <1>1 DEF DurablePositions
  <2>2. \A tx : CommittedBy(tx, flush)' <=> CommittedBy(tx, flush)
    BY <1>1 DEF CommittedBy
  <2>. QED  BY <1>1, <2>1, <2>2 DEF UnresolvedRemembered
<1>. DEFINE tx == wal[q].transaction
            owners == {wal[r].transaction : r \in {s \in plan : wal[s].kind = "TransactionPage"}}
<1>3. q \in plan
  BY <1>1 DEF PlanReachesMissing, Missing, IsPage
<1>4. tx \in owners /\ q \in PlannedPages(tx)
  BY <1>3 DEF PlannedPages
<1>5. tx \notin PlannedCommits
  BY <1>2 DEF PlannedCommits, CommittedBy, DurablePositions
<1>6. tx \in (DOMAIN SeededTransactions \cup owners) \ PlannedCommits
  BY <1>4, <1>5
<1>. HIDE DEF owners, tx
<1>7. tx \in DOMAIN RestoredTransactions /\ q \in RestoredTransactions[tx]
  BY <1>4, <1>6 DEF RestoredTransactions, owners
<1>. QED  BY <1>7 DEF tx

LEMMA RememberedStep ==
    ASSUME TypeInv, PlanReachesMissing, UnresolvedRemembered, Next
    PROVE  UnresolvedRemembered'
<1>. SUFFICES ASSUME phase' = "TransactionsRestored" PROVE UnresolvedRemembered'
  BY DEF UnresolvedRemembered
<1>1. RestoreTransactions
  BY OnlyRecovery
     DEF Recovering, RecoveryStep, Reopen, Select, PlanReplay, RepairPages, Complete
<1>. QED  BY <1>1, RestoredRemembered

LEMMA ReplayAlways == Spec => []ReplayInv
<1>1. Init => ReplayInv
  BY DEF Init, ReplayInv, FlushBelowNext, SnapshotsReplayMissing, PlanReachesMissing,
         UnresolvedRemembered
<1>2. IInv /\ ReplayInv /\ [Next]_vars => ReplayInv'
  <2>1. ASSUME IInv, ReplayInv, Next PROVE ReplayInv'
    <3>1. TypeInv
      BY <2>1, IInvParts
    <3>2. FlushBelowNext' /\ SnapshotsReplayMissing' /\ PlanReachesMissing'
      BY <2>1, FlushBelowNextStep, SnapshotsReplayStep, PlanReachesStep DEF ReplayInv
    <3>. QED  BY <2>1, <3>1, <3>2, RememberedStep DEF ReplayInv
  <2>2. ASSUME ReplayInv, UNCHANGED vars PROVE ReplayInv'
    BY <2>2
       DEF vars, walVars, transactionVars, checkpointVars, candidateVars, recoveryVars,
           ReplayInv, FlushBelowNext, SnapshotsReplayMissing, PlanReachesMissing,
           ReplaysMissing, ReachedFrom, Missing, UnresolvedRemembered, DurablePositions,
           CommittedBy
  <2>. QED  BY <2>1, <2>2
<1>. QED  BY <1>1, <1>2, IInvAlways, PTL DEF Spec

(* After recovery the transaction table holds every durable page record of *)
(* an unresolved transaction that the store does not supersede: replay from *)
(* whichever checkpoint was selected misses none of them.                   *)
THEOREM RecoveryRemembers == Spec => []UnresolvedRemembered
<1>1. ReplayInv => UnresolvedRemembered
  BY DEF ReplayInv
<1>. QED  BY <1>1, ReplayAlways, PTL

----------------------------------------------------------------------------
(* The newest durable image of a page, and the steps that leave it alone.   *)

ImagesOf(p) == {q \in DurablePositions : wal[q].page = p /\ Installable(q, flush)}

LEMMA DurableImageIsLatest ==
    ASSUME TypeOK, NEW p \in Pages
    PROVE  /\ DurableImage[p] = Latest({store[p]} \cup ImagesOf(p))
           /\ DurableImage[p] \in {store[p]} \cup ImagesOf(p)
           /\ DurableImage[p] \in 0 .. MaxPosition
           /\ store[p] <= DurableImage[p]
           /\ \A q \in ImagesOf(p) : q <= DurableImage[p]
<1>. DEFINE S == {store[p]} \cup ImagesOf(p)
<1>1. S \in SUBSET (0 .. MaxPosition) /\ S # {}
  BY DurableRange DEF ImagesOf, TypeOK, PageImages
<1>2. DurableImage[p] = Latest(S)
  BY DEF DurableImage, ImagesOf
<1>. HIDE DEF S
<1>3. Latest(S) \in S /\ Latest(S) \in 0 .. MaxPosition /\ \A q \in S : q <= Latest(S)
  BY <1>1, LatestInRange
<1>. QED  BY <1>2, <1>3 DEF S

(* The same of a state and of the one after it.                             *)
ImageAtOrAboveStore ==
    \A p \in Pages :
        /\ DurableImage[p] \in {store[p]} \cup ImagesOf(p)
        /\ DurableImage[p] \in 0 .. MaxPosition
        /\ store[p] <= DurableImage[p]
        /\ \A q \in ImagesOf(p) : q <= DurableImage[p]

LEMMA ImageAboveStore == TypeOK => ImageAtOrAboveStore
BY DurableImageIsLatest DEF ImageAtOrAboveStore

LEMMA ImageAboveStoreNext == TypeOK' => ImageAtOrAboveStore'
BY ImageAboveStore, PTL

(* The images are a matter of the durable records.                          *)
LEMMA SameImages ==
    ASSUME UNCHANGED flush, DurablePositions' = DurablePositions,
           \A q \in DurablePositions : wal'[q] = wal[q]
    PROVE  /\ \A p : ImagesOf(p)' = ImagesOf(p)
           /\ UNCHANGED store => DurableImage' = DurableImage
<1>1. \A tx : CommittedBy(tx, flush) <=> \E q \in DurablePositions : IsCommitOf(wal[q], tx)
  BY DEF CommittedBy, DurablePositions, IsCommitOf
<1>2. \A tx : CommittedBy(tx, flush)' <=>
                 \E q \in DurablePositions' : IsCommitOf(wal'[q], tx)
  BY DEF CommittedBy, DurablePositions, IsCommitOf
<1>3. \A tx : CommittedBy(tx, flush)' <=> CommittedBy(tx, flush)
  BY <1>1, <1>2 DEF IsCommitOf
<1>4. \A q \in DurablePositions : Installable(q, flush)' <=> Installable(q, flush)
  BY <1>3 DEF Installable
<1>5. \A p : ImagesOf(p)' = ImagesOf(p)
  BY <1>4 DEF ImagesOf
<1>6. UNCHANGED store => DurableImage' = DurableImage
  BY <1>5 DEF DurableImage, ImagesOf
<1>. QED  BY <1>5, <1>6

(* Dropping records makes no image newer ...                                *)
LEMMA FewerImages ==
    ASSUME WalShrinks, UNCHANGED flush
    PROVE  \A p : ImagesOf(p)' \subseteq ImagesOf(p)
<1>1. \A tx : CommittedBy(tx, flush)' => CommittedBy(tx, flush)
  BY DEF CommittedBy, WalShrinks
<1>2. \A q \in DurablePositions' : q \in DurablePositions /\ wal'[q] = wal[q]
  BY DEF DurablePositions, WalShrinks
<1>3. \A q \in DurablePositions' : Installable(q, flush)' => Installable(q, flush)
  BY <1>1, <1>2 DEF Installable
<1>. QED  BY <1>2, <1>3 DEF ImagesOf

(* ... so a store that shows every durable image goes on showing it.        *)
LEMMA CurrentShrinks ==
    ASSUME TypeOK, TypeOK', StoreCurrent, WalShrinks, UNCHANGED <<flush, store>>
    PROVE  StoreCurrent' /\ DurableImage' = DurableImage
<1>1. \A p : ImagesOf(p)' \subseteq ImagesOf(p)
  BY FewerImages
<1>2. ASSUME NEW p \in Pages PROVE DurableImage'[p] = store[p]
  <2>1. \A q \in ImagesOf(p)' : q <= store[p]
    BY <1>1, DurableImageIsLatest DEF StoreCurrent
  <2>2. /\ DurableImage'[p] \in {store'[p]} \cup ImagesOf(p)'
        /\ DurableImage'[p] \in 0 .. MaxPosition
        /\ store'[p] <= DurableImage'[p]
    BY ImageAboveStoreNext DEF ImageAtOrAboveStore
  <2>. QED  BY <2>1, <2>2 DEF TypeOK, PageImages
<1>3. StoreCurrent'
  BY <1>2 DEF StoreCurrent
<1>4. DurableImage' = DurableImage
  <2>1. DurableImage = [p \in Pages |-> DurableImage[p]]
    BY DEF DurableImage
  <2>2. DurableImage' = [p \in Pages |-> DurableImage'[p]]
    BY DEF DurableImage
  <2>. QED  BY <1>2, <2>1, <2>2 DEF StoreCurrent
<1>. QED  BY <1>3, <1>4

----------------------------------------------------------------------------
(* Which steps bring the database to rest after a crash.                    *)

LEMMA RestBefore ==
    ASSUME TypeInv, Next
    PROVE  /\ NoLiveChange' => NoLiveChange \/ \E keep \in TailOutcomes : Crash(keep)
           /\ Settled' => Settled \/ RepairPages
<1>0. TypeOK
  BY DEF TypeInv
<1>. USE DEF NoLiveChange, Settled, Recovering
<1>1. CASE LiveStep
  <2>1. CASE FlushWal
    BY <2>1 DEF FlushWal, recoveryVars, FreshlyComplete
  <2>2. CASE ~FlushWal
    <3>1. MarkCompletionStale /\ LiveOrComplete /\ phase' = phase
      BY <1>1, <2>2
         DEF LiveStep, AllocateCoordinatorEpoch, BeginTransaction, AppendTransactionPage,
             AppendTransactionCommit, AppendRawPage, AppendRecord, WritePageStore,
             PublishCheckpoint
    <3>2. ~FreshlyComplete'
      BY <1>0, <3>1, StaleNotFresh
    <3>. QED  BY <3>1, <3>2 DEF LiveOrComplete
  <2>. QED  BY <2>1, <2>2
<1>2. CASE ReplacementStep
  <2>1. phase' = phase /\ (MarkCompletionStale \/ evidence' = evidence)
    BY <1>2
       DEF ReplacementStep, BeginCheckpointCandidate, AdvanceCheckpointCandidate,
           SetCheckpointCandidateEntry, BeginWalCandidate, AdvanceWalCandidate,
           SetWalCandidateEntry, recoveryVars
  <2>2. CASE MarkCompletionStale
    <3>1. ~FreshlyComplete'
      BY <1>0, <2>2, StaleNotFresh
    <3>. QED  BY <2>1, <3>1
  <2>3. CASE evidence' = evidence
    BY <2>1, <2>3 DEF FreshlyComplete
  <2>. QED  BY <2>1, <2>2, <2>3
<1>3. CASE CrashStep
  <2>1. CASE \E keep \in TailOutcomes : Crash(keep)
    BY <2>1 DEF Crash, FreshlyComplete
  <2>2. CASE ~(\E keep \in TailOutcomes : Crash(keep))
    BY <1>3, <2>2 DEF CrashStep, SetSelectedEntriesForOpen, SetCheckpointCandidateForOpen,
                      SetWalCandidateForOpen, FreshlyComplete
  <2>. QED  BY <2>1, <2>2
<1>4. CASE RecoveryStep
  BY <1>4 DEF RecoveryStep, Reopen, Select, PlanReplay, RepairPages, RestoreTransactions,
              Complete, FreshlyComplete
<1>5. CASE RetentionStep
  BY <1>5 DEF RetentionStep, AnalyzeRetention, Reclaim, ReclamationReady, FreshlyComplete
<1>. QED  BY <1>1, <1>2, <1>3, <1>4, <1>5 DEF Next

(* The log that a step other than a live one leaves holds no more records   *)
(* and the same frontier.                                                   *)
LEMMA RestShrinks ==
    ASSUME IInv, Next, NoLiveChange, NoLiveChange'
    PROVE  WalShrinks /\ (UNCHANGED flush \/ FlushWal)
<1>0. TypeInv /\ TypeOK /\ WalInv /\ PagesInv
  BY IInvParts
<1>1. CASE UNCHANGED <<wal, flush>>
  BY <1>1 DEF WalShrinks
<1>2. ASSUME NEW record \in WalRecord, AppendRecord(record), LiveOrComplete PROVE FALSE
  <2>1. ~FreshlyComplete' /\ phase' \in {"Live", "CompleteLive"}
    BY <1>0, <1>2, StaleNotFresh DEF AppendRecord, LiveOrComplete
  <2>. QED  BY <2>1 DEF NoLiveChange, Recovering
<1>3. CASE FlushWal
  BY <1>3 DEF FlushWal, WalShrinks
<1>4. ASSUME NEW q \in Positions, WritePageStore(q) PROVE UNCHANGED <<wal, flush>>
  BY <1>4 DEF WritePageStore, walVars
<1>5. ASSUME NEW keep \in TailOutcomes, Crash(keep) PROVE WalShrinks /\ UNCHANGED flush
  BY <1>0, <1>5, CrashKeepsDurable
<1>6. RepairPages => UNCHANGED <<wal, flush>>
  BY DEF RepairPages, walVars
<1>7. CASE AdvanceWalCandidate
  BY <1>0, <1>7, RenameShrinks DEF PagesInv
<1>8. CASE Reclaim
  BY <1>0, <1>8, ReclaimShrinks DEF Reclaim
<1>. QED  BY <1>0, <1>1, <1>2, <1>3, <1>4, <1>5, <1>6, <1>7, <1>8, StepKinds

(* What FlushWal makes of the frontier.                                     *)
LEMMA FlushCovers ==
    ASSUME TypeOK, FlushWal
    PROVE  /\ flush' \in DOMAIN wal
           /\ \A q \in DOMAIN wal : q <= flush'
           /\ UNCHANGED <<wal, store>>
<1>1. flush' = Latest(DOMAIN wal) /\ UNCHANGED <<wal, store>>
  BY DEF FlushWal
<1>2. DOMAIN wal # {}
  <2>. SUFFICES ASSUME DOMAIN wal = {} PROVE FALSE
    OBVIOUS
  <2>1. wal \in [{} -> WalRecord]
    BY WalsElim DEF TypeOK
  <2>2. wal = [q \in {} |-> None]
    BY <2>1
  <2>. QED  BY <2>2 DEF FlushWal
<1>. QED  BY <1>1, <1>2, DurableRange, LatestInRange

(* Without a preserved tail, the log of a database at rest is durable.      *)
LEMMA NoTailStep ==
    ASSUME IInv, TailForgotten, NoTail, Next
    PROVE  NoTail'
<1>0. TypeInv /\ TypeOK
  BY IInvParts
<1>. SUFFICES ASSUME NoLiveChange' PROVE DOMAIN wal' \subseteq DurablePositions'
  BY DEF NoTail
<1>1. CASE FlushWal
  BY <1>0, <1>1, FlushCovers DEF DurablePositions
<1>2. ASSUME NEW keep \in TailOutcomes, Crash(keep)
      PROVE  DOMAIN wal' \subseteq DurablePositions'
  <2>1. keep = FALSE
    BY <1>2 DEF TailForgotten
  <2>. QED  BY <1>0, <1>2, <2>1, CrashKeepsDurable
<1>3. CASE NoLiveChange /\ ~FlushWal
  <2>1. WalShrinks /\ UNCHANGED flush
    BY <1>3, RestShrinks
  <2>. QED  BY <1>3, <2>1 DEF NoTail, WalShrinks, DurablePositions
<1>. QED  BY <1>0, <1>1, <1>2, <1>3, RestBefore

(* What a reclamation retains ends at the frontier.                         *)
LEMMA RetainedEnds ==
    ASSUME TypeOK, ReclamationReady
    PROVE  Retained # {} => flush \in Retained
<1>. SUFFICES ASSUME NEW q \in Retained PROVE flush \in Retained
  OBVIOUS
<1>1. q \in DOMAIN wal /\ analysis.retainedFirst # 0 /\ q >= analysis.retainedFirst
  BY DEF Retained
<1>2. Latest(DOMAIN wal) = flush
  BY <1>1 DEF ReclamationReady
<1>3. flush \in DOMAIN wal /\ q <= flush
  BY <1>1, <1>2, DurableRange, LatestInRange
<1>4. analysis.retainedFirst \in Int /\ q \in Int /\ flush \in Int
  BY <1>1, DurableRange DEF ReclamationReady, TypeOK
<1>. QED  BY <1>1, <1>3, <1>4 DEF Retained

(* The durable log ends at the frontier: appends come above it, a flush     *)
(* moves it to the last record, and nothing else drops the record it is at. *)
LEMMA DurableEndStep ==
    ASSUME IInv, FlushBelowNext, FlushEndsLog, Next
    PROVE  DurablePositions' # {} => flush' \in DOMAIN wal'
<1>0. TypeInv /\ TypeOK /\ WalInv /\ PagesInv
  BY IInvParts
<1>. DEFINE Ends == DurablePositions # {} => flush \in DOMAIN wal
<1>1. CASE UNCHANGED <<wal, flush>>
  BY <1>1 DEF FlushEndsLog, DurablePositions
<1>2. ASSUME NEW record \in WalRecord, AppendRecord(record) PROVE Ends'
  <2>1. DOMAIN wal' = DOMAIN wal \cup {nextPosition} /\ UNCHANGED flush
    BY <1>0, <1>2, AppendGrows DEF AppendRecord
  <2>2. ~(nextPosition <= flush)
    BY <1>0 DEF FlushBelowNext, TypeOK
  <2>3. DurablePositions' = DurablePositions
    BY <2>1, <2>2 DEF DurablePositions
  <2>. QED  BY <2>1, <2>3 DEF FlushEndsLog
<1>3. CASE FlushWal
  BY <1>0, <1>3, FlushCovers
<1>4. ASSUME NEW q \in Positions, WritePageStore(q) PROVE UNCHANGED <<wal, flush>>
  BY <1>4 DEF WritePageStore, walVars
<1>5. ASSUME NEW keep \in TailOutcomes, Crash(keep) PROVE Ends'
  <2>1. UNCHANGED flush /\ DurablePositions' = DurablePositions
    BY <1>0, <1>5, CrashKeepsDurable
  <2>2. DurablePositions # {} => flush \in DurablePositions
    BY <1>0 DEF FlushEndsLog, DurablePositions, TypeOK
  <2>. QED  BY <2>1, <2>2 DEF DurablePositions
<1>6. RepairPages => UNCHANGED <<wal, flush>>
  BY DEF RepairPages, walVars
<1>7. CASE AdvanceWalCandidate
  <2>1. CASE walCandidate.stage + 1 = AfterCurrentReplace
    <3>1. wal' = walCandidate.suffix /\ walCandidate # None
      BY <1>7, <2>1 DEF AdvanceWalCandidate, Install
    <3>2. walCandidate.stage < AfterCurrentReplace
      BY <1>0, <2>1, <3>1 DEF TypeOK
    <3>3. UNCHANGED flush
      BY <1>0, <1>7, RenameShrinks DEF PagesInv
    <3>. QED  BY <3>1, <3>2, <3>3 DEF FlushEndsLog, DurablePositions
  <2>2. CASE walCandidate.stage + 1 # AfterCurrentReplace
    BY <1>1, <1>7, <2>2 DEF AdvanceWalCandidate
  <2>. QED  BY <2>1, <2>2
<1>8. CASE Reclaim
  <2>1. DOMAIN wal' = Retained /\ UNCHANGED flush /\ ReclamationReady
    BY <1>0, <1>8, ReclaimShrinks DEF Reclaim
  <2>. QED  BY <1>0, <2>1, RetainedEnds DEF DurablePositions
<1>. QED  BY <1>0, <1>1, <1>2, <1>3, <1>4, <1>5, <1>6, <1>7, <1>8, StepKinds

(* So does what a pending replacement carries.                              *)
LEMMA CandidateEndsStep ==
    ASSUME IInv, FlushEndsLog, Next,
           walCandidate' # None, walCandidate'.stage < AfterCurrentReplace
    PROVE  DOMAIN walCandidate'.suffix # {} => flush' \in DOMAIN walCandidate'.suffix
<1>0. TypeInv /\ TypeOK /\ WalInv /\ PagesInv
  BY IInvParts
<1>2. CASE BeginWalCandidate
  <2>1. /\ ReclamationReady
        /\ UNCHANGED flush
        /\ walCandidate'.suffix = Restrict(wal, Retained)
    BY <1>2 DEF BeginWalCandidate, walVars
  <2>2. DOMAIN walCandidate'.suffix = Retained
    BY <1>0, <2>1, RestrictWal DEF TypeOK, Retained
  <2>. QED  BY <1>0, <2>1, <2>2, RetainedEnds
<1>3. ASSUME NEW e \in CandidateEntries, SetWalCandidateForOpen(e)
      PROVE  DOMAIN walCandidate'.suffix # {} => flush' \in DOMAIN walCandidate'.suffix
  <2>1. UNCHANGED flush /\ walCandidate'.suffix = Restrict(wal, DurablePositions)
    BY <1>3 DEF SetWalCandidateForOpen, walVars
  <2>2. DOMAIN walCandidate'.suffix = DurablePositions
    BY <1>0, <2>1, RestrictWal, DurableRange DEF TypeOK
  <2>3. DurablePositions # {} => flush \in DurablePositions
    BY <1>0 DEF FlushEndsLog, DurablePositions, TypeOK
  <2>. QED  BY <2>1, <2>2, <2>3
<1>4. CASE /\ walCandidate # None
           /\ walCandidate'.suffix = walCandidate.suffix
           /\ walCandidate.stage < AfterCurrentReplace
           /\ AdvanceWalCandidate => UNCHANGED <<header, wal, flush>>
  <2>1. UNCHANGED flush
    BY <1>0, <1>4, PendingFrame, CrashKeepsDurable
  <2>. QED  BY <1>4, <2>1 DEF FlushEndsLog
<1>. QED  BY <1>0, <1>2, <1>3, <1>4, WalCandidateOrigin

LEMMA FlushEndsAlways == Spec => []FlushEndsLog
<1>1. Init => FlushEndsLog
  BY DEF Init, FlushEndsLog, DurablePositions
<1>2. IInv /\ ReplayInv /\ FlushEndsLog /\ [Next]_vars => FlushEndsLog'
  <2>1. ASSUME IInv, ReplayInv, FlushEndsLog, Next PROVE FlushEndsLog'
    <3>1. DurablePositions' # {} => flush' \in DOMAIN wal'
      BY <2>1, DurableEndStep DEF ReplayInv
    <3>2. ASSUME walCandidate' # None, walCandidate'.stage < AfterCurrentReplace
          PROVE  DOMAIN walCandidate'.suffix # {} => flush' \in DOMAIN walCandidate'.suffix
      BY <2>1, <3>2, CandidateEndsStep
    <3>. QED  BY <3>1, <3>2 DEF FlushEndsLog
  <2>2. ASSUME FlushEndsLog, UNCHANGED vars PROVE FlushEndsLog'
    BY <2>2 DEF FlushEndsLog, DurablePositions, vars, walVars, candidateVars
  <2>. QED  BY <2>1, <2>2
<1>. QED  BY <1>1, <1>2, IInvAlways, ReplayAlways, PTL DEF Spec

(* A pending replacement carries the whole durable log unless the store     *)
(* already shows every image of it.                                         *)
LEMMA CandidateImagesStep ==
    ASSUME IInv, SettledStoreCurrent, CandidateRetainsImages, Next,
           walCandidate' # None, walCandidate'.stage < AfterCurrentReplace
    PROVE  StoreCurrent' \/ DurablePositions' \subseteq DOMAIN walCandidate'.suffix
<1>0. TypeInv /\ TypeOK /\ WalInv /\ PagesInv
  BY IInvParts
<1>1. ASSUME UNCHANGED <<wal, flush, store>>
      PROVE  StoreCurrent' <=> StoreCurrent
  <2>1. DurablePositions' = DurablePositions
    BY <1>1 DEF DurablePositions
  <2>2. DurableImage' = DurableImage
    BY <1>1, <2>1, SameImages
  <2>. QED  BY <1>1, <2>2 DEF StoreCurrent
<1>2. CASE BeginWalCandidate
  <2>1. ReclamationReady /\ UNCHANGED <<wal, flush, store>>
    BY <1>2 DEF BeginWalCandidate, walVars
  <2>2. StoreCurrent
    BY <2>1 DEF ReclamationReady, SettledStoreCurrent, Settled
  <2>. QED  BY <1>1, <2>1, <2>2
<1>3. ASSUME NEW e \in CandidateEntries, SetWalCandidateForOpen(e)
      PROVE  DurablePositions' \subseteq DOMAIN walCandidate'.suffix
  <2>1. /\ UNCHANGED <<wal, flush>>
        /\ walCandidate'.suffix = Restrict(wal, DurablePositions)
    BY <1>3 DEF SetWalCandidateForOpen, walVars
  <2>2. DOMAIN walCandidate'.suffix = DurablePositions
    BY <1>0, <2>1, RestrictWal, DurableRange DEF TypeOK
  <2>3. DurablePositions' = DurablePositions
    BY <2>1 DEF DurablePositions
  <2>. QED  BY <2>2, <2>3
<1>4. CASE /\ walCandidate # None
           /\ walCandidate'.suffix = walCandidate.suffix
           /\ walCandidate.stage < AfterCurrentReplace
           /\ AdvanceWalCandidate => UNCHANGED <<header, wal, flush>>
  <2>0. StoreCurrent \/ DurablePositions \subseteq DOMAIN walCandidate.suffix
    BY <1>4 DEF CandidateRetainsImages
  <2>1. CASE UNCHANGED <<wal, flush, store>>
    <3>1. DurablePositions' = DurablePositions
      BY <2>1 DEF DurablePositions
    <3>. QED  BY <1>1, <1>4, <2>0, <2>1, <3>1
  <2>2. ASSUME NEW keep \in TailOutcomes, Crash(keep)
        PROVE  /\ DurablePositions' = DurablePositions
               /\ StoreCurrent' <=> StoreCurrent
    <3>1. /\ WalShrinks /\ UNCHANGED <<flush, store>>
          /\ DurablePositions' = DurablePositions
      BY <1>0, <2>2, CrashKeepsDurable
    <3>2. \A q \in DurablePositions : wal'[q] = wal[q]
      BY <3>1 DEF WalShrinks, DurablePositions
    <3>3. DurableImage' = DurableImage
      BY <3>1, <3>2, SameImages
    <3>. QED  BY <3>1, <3>3 DEF StoreCurrent
  <2>. QED  BY <1>0, <1>4, <2>0, <2>1, <2>2, PendingFrame
<1>. QED  BY <1>0, <1>2, <1>3, <1>4, WalCandidateOrigin

(* Repair installs, for each page, the newest image that is durable: the    *)
(* plan has every one the store lacks.                                      *)
LEMMA RepairInstallsNewest ==
    ASSUME IInv, PlanReachesMissing, RepairPages
    PROVE  store' = DurableImage /\ DurableImage' = DurableImage
<1>0. TypeInv /\ TypeOK /\ TypeOK' /\ WalInv /\ PagesInv
  BY IInvParts, TypeInvStep DEF TypeInv, Next, RecoveryStep
<1>1. /\ UNCHANGED <<wal, flush, selected>>
      /\ store' = [p \in Pages |-> Latest(RepairSources(p))]
      /\ phase = "ReplayPlanned"
      /\ logicalHighWater = flush
  BY <1>0 DEF RepairPages, walVars, checkpointVars, WalInv, FrontiersAgree
<1>2. plan \subseteq DurablePositions
  BY <1>0, <1>1 DEF TypeInv, PlanDurable
<1>3. ASSUME NEW p \in Pages PROVE store'[p] = DurableImage[p]
  <2>. DEFINE S == RepairSources(p)
              d == DurableImage[p]
  <2>1. S \in SUBSET (0 .. MaxPosition) /\ store[p] \in S
    BY <1>0, RepairType DEF RepairSources
  <2>2. Latest(S) \in S /\ \A q \in S : q <= Latest(S)
    BY <2>1, LatestInRange
  <2>3. /\ d \in {store[p]} \cup ImagesOf(p)
        /\ d \in 0 .. MaxPosition
        /\ store[p] <= d
        /\ \A q \in ImagesOf(p) : q <= d
    BY <1>0, DurableImageIsLatest
  <2>4. \A q \in S : q <= d
    <3>1. selected # None => selected.pages[p] <= store[p] /\ selected.pages[p] \in Int
      BY <1>0 DEF PagesInv, SnapshotsBehindStore, BehindStore, TypeOK, CheckpointSnapshot,
                  PageImages
    <3>2. store[p] \in Int
      BY <1>0 DEF TypeOK, PageImages
    <3>3. \A q \in plan : wal[q].page = p /\ Installable(q, logicalHighWater)
                             => q \in ImagesOf(p)
      BY <1>1, <1>2 DEF ImagesOf
    <3>4. \A q \in S : \/ q = store[p]
                       \/ selected # None /\ q = selected.pages[p]
                       \/ q \in ImagesOf(p)
      BY <3>3 DEF RepairSources
    <3>. HIDE DEF S, d
    <3>. QED  BY <2>3, <3>1, <3>2, <3>4
  <2>5. d \in S
    <3>1. CASE d = store[p]
      BY <2>1, <3>1
    <3>2. CASE d # store[p]
      <4>1. d \in DurablePositions /\ wal[d].page = p /\ Installable(d, flush)
        BY <2>3, <3>2 DEF ImagesOf
      <4>2. store[p] < d
        BY <1>0, <2>3, <3>2 DEF TypeOK, PageImages
      <4>3. Missing(d)
        BY <4>1, <4>2 DEF Missing, IsPage, Installable
      <4>4. d \in plan
        BY <1>1, <4>1, <4>3 DEF PlanReachesMissing
      <4>. QED  BY <1>1, <4>1, <4>4 DEF RepairSources
    <3>. QED  BY <3>1, <3>2
  <2>6. store'[p] = Latest(S)
    BY <1>1
  <2>. HIDE DEF S, d
  <2>7. Latest(S) <= d /\ d <= Latest(S) /\ Latest(S) \in Int /\ d \in Int
    <3>1. Latest(S) <= d
      BY <2>2, <2>4
    <3>2. d <= Latest(S)
      BY <2>2, <2>5
    <3>3. \A q \in S : q \in Int
      BY <2>1
    <3>. QED  BY <2>2, <2>5, <3>1, <3>2, <3>3
  <2>8. Latest(S) = d
    BY <2>7
  <2>. QED  BY <2>6, <2>8 DEF d
<1>4. store' = DurableImage
  <2>1. DurableImage = [p \in Pages |-> DurableImage[p]]
    BY DEF DurableImage
  <2>2. store' = [p \in Pages |-> store'[p]]
    BY <1>1
  <2>. QED  BY <1>3, <2>1, <2>2
<1>5. DurableImage' = DurableImage
  <2>0. DurablePositions' = DurablePositions
    BY <1>1 DEF DurablePositions
  <2>1. \A p : ImagesOf(p)' = ImagesOf(p)
    BY <1>1, <2>0, SameImages
  <2>2. ASSUME NEW p \in Pages PROVE DurableImage'[p] = DurableImage[p]
    <3>1. /\ DurableImage'[p] \in {store'[p]} \cup ImagesOf(p)'
          /\ DurableImage'[p] \in 0 .. MaxPosition
          /\ store'[p] <= DurableImage'[p]
      BY <1>0, ImageAboveStoreNext DEF ImageAtOrAboveStore
    <3>2. /\ \A q \in ImagesOf(p) : q <= DurableImage[p]
          /\ DurableImage[p] \in 0 .. MaxPosition
      BY <1>0, DurableImageIsLatest
    <3>. QED  BY <1>3, <2>1, <3>1, <3>2
  <2>3. DurableImage = [p \in Pages |-> DurableImage[p]]
    BY DEF DurableImage
  <2>4. DurableImage' = [p \in Pages |-> DurableImage'[p]]
    BY DEF DurableImage
  <2>. QED  BY <2>2, <2>3, <2>4
<1>. QED  BY <1>4, <1>5

(* From repair to the first live operation, and through a reclamation, the  *)
(* store shows every durable image.                                         *)
LEMMA SettledStep ==
    ASSUME IInv, PlanReachesMissing, FlushEndsLog, NoTail, SettledStoreCurrent, Next
    PROVE  SettledStoreCurrent'
<1>0. TypeInv /\ TypeOK /\ TypeOK' /\ WalInv /\ PagesInv
  BY IInvParts, TypeInvStep DEF TypeInv
<1>. SUFFICES ASSUME Settled' PROVE StoreCurrent'
  BY DEF SettledStoreCurrent
<1>1. CASE RepairPages
  BY <1>1, RepairInstallsNewest DEF StoreCurrent
<1>2. CASE ~RepairPages
  <2>1. Settled /\ StoreCurrent /\ NoLiveChange /\ NoLiveChange'
    BY <1>0, <1>2, RestBefore DEF Settled, NoLiveChange, Recovering, SettledStoreCurrent
  <2>2. WalShrinks /\ UNCHANGED flush
    <3>1. CASE FlushWal
      <4>1. flush' \in DOMAIN wal /\ \A q \in DOMAIN wal : q <= flush' /\ UNCHANGED wal
        BY <1>0, <3>1, FlushCovers
      <4>2. flush' <= flush /\ flush \in DOMAIN wal
        BY <2>1, <4>1 DEF NoTail, DurablePositions, FlushEndsLog
      <4>. QED  BY <1>0, <4>1, <4>2 DEF WalShrinks, TypeOK
    <3>2. CASE ~FlushWal
      BY <2>1, <3>2, RestShrinks
    <3>. QED  BY <3>1, <3>2
  <2>3. UNCHANGED store
    <3>1. ASSUME NEW record \in WalRecord, AppendRecord(record) PROVE UNCHANGED store
      BY <3>1 DEF AppendRecord
    <3>2. ASSUME NEW q \in Positions, WritePageStore(q) PROVE FALSE
      <4>1. ~FreshlyComplete' /\ phase' \in {"Live", "CompleteLive"}
        BY <1>0, <3>2, StaleNotFresh DEF WritePageStore, LiveOrComplete
      <4>. QED  BY <4>1 DEF Settled
    <3>3. FlushWal => UNCHANGED store
      BY DEF FlushWal
    <3>4. \A keep \in TailOutcomes : Crash(keep) => UNCHANGED store
      BY DEF Crash
    <3>5. (AdvanceWalCandidate => UNCHANGED store) /\ (Reclaim => UNCHANGED store)
      BY DEF AdvanceWalCandidate, Reclaim
    <3>. QED  BY <1>0, <1>2, <3>1, <3>2, <3>3, <3>4, <3>5, StepKinds
  <2>. QED  BY <1>0, <2>1, <2>2, <2>3, CurrentShrinks
<1>. QED  BY <1>1, <1>2

LEMMA DurableAlways == Spec /\ TailForgotten => []DurableInv
<1>1. Init /\ TailForgotten => DurableInv
  <2>. SUFFICES ASSUME Init, TailForgotten PROVE DurableInv
    OBVIOUS
  <2>1. DOMAIN wal = {} /\ DurablePositions = {} /\ walCandidate = None /\ phase = "Live"
    BY DEF Init, DurablePositions
  <2>. QED
    BY <2>1 DEF DurableInv, NoTail, SettledStoreCurrent, Settled, FreshlyComplete,
                CandidateRetainsImages
<1>2. IInv /\ ReplayInv /\ FlushEndsLog /\ DurableInv /\ [Next]_vars => DurableInv'
  <2>1. ASSUME IInv, ReplayInv, FlushEndsLog, DurableInv, Next PROVE DurableInv'
    <3>. USE <2>1 DEF DurableInv, ReplayInv
    <3>1. TailForgotten'
      BY DEF TailForgotten
    <3>2. CandidateRetainsImages'
      BY CandidateImagesStep DEF CandidateRetainsImages
    <3>3. NoTail'
      BY NoTailStep
    <3>4. SettledStoreCurrent'
      BY SettledStep
    <3>. QED  BY <3>1, <3>2, <3>3, <3>4
  <2>2. ASSUME DurableInv, UNCHANGED vars PROVE DurableInv'
    <3>1. /\ UNCHANGED <<wal, flush, store, phase, evidence, walCandidate>>
          /\ DurablePositions' = DurablePositions
      BY <2>2 DEF vars, walVars, recoveryVars, candidateVars, DurablePositions
    <3>2. DurableImage' = DurableImage
      BY <3>1, SameImages
    <3>. QED
      BY <2>2, <3>1, <3>2
         DEF DurableInv, TailForgotten, NoTail, NoLiveChange, FreshlyComplete,
             SettledStoreCurrent, Settled, StoreCurrent, CandidateRetainsImages
  <2>. QED  BY <2>1, <2>2
<1>. QED  BY <1>1, <1>2, IInvAlways, ReplayAlways, FlushEndsAlways, PTL DEF Spec

(* The comment above analyze_retention, that the floor covers the durable   *)
(* suffix the store still needs, holds when no crash keeps an unflushed     *)
(* tail.                                                                    *)
THEOREM FloorCoversSuffix == Spec /\ TailForgotten => []RequiredSuffixRetained
<1>1. IInv /\ DurableInv => RequiredSuffixRetained
  <2>. SUFFICES ASSUME IInv, DurableInv, phase = "RetentionAnalyzed",
                       NEW q \in DurablePositions, IsPage(wal[q]), Installable(q, flush),
                       store[wal[q].page] < q
                PROVE  FALSE
    BY DEF RequiredSuffixRetained
  <2>1. TypeOK
    BY IInvParts
  <2>2. wal[q].page \in Pages
    <3>1. wal[q] \in WalRecord
      BY <2>1, WalsElim DEF TypeOK, DurablePositions
    <3>. QED  BY <3>1 DEF WalRecord, IsPage
  <2>3. q \in ImagesOf(wal[q].page)
    BY DEF ImagesOf
  <2>4. q <= store[wal[q].page]
    BY <2>1, <2>2, <2>3, DurableImageIsLatest
       DEF DurableInv, SettledStoreCurrent, Settled, StoreCurrent
  <2>. QED  BY <2>1, <2>2, <2>4, DurableRange DEF TypeOK, PageImages
<1>. QED  BY <1>1, IInvAlways, DurableAlways, PTL

----------------------------------------------------------------------------
(* A crashed database reopens.                                              *)

(* A slot that holds a checkpoint always does.                              *)
LEMMA SlotStays ==
    ASSUME TypeInv, Next, slot # None
    PROVE  slot' # None
<1>1. \A a \in Anchors : CheckpointImage(a) # None
  BY CheckpointImageType, NoneAssumption DEF TypeInv
<1>2. ASSUME NEW a \in Anchors, PublishCheckpoint(a) PROVE slot' # None
  BY <1>1, <1>2 DEF PublishCheckpoint
<1>3. CASE AdvanceCheckpointCandidate
  <2>1. checkpointCandidate.snapshot \in CheckpointSnapshot
    BY <1>3 DEF AdvanceCheckpointCandidate, TypeInv, TypeOK
  <2>2. slot' = slot \/ slot' = checkpointCandidate.snapshot
    BY <1>3 DEF AdvanceCheckpointCandidate
  <2>. QED  BY <2>1, <2>2, NoneAssumption
<1>4. CASE UNCHANGED slot
  BY <1>4
<1>. QED
  BY <1>2, <1>3, <1>4
     DEF Next, LiveStep, ReplacementStep, CrashStep, RecoveryStep, RetentionStep,
         AllocateCoordinatorEpoch, BeginTransaction, AppendTransactionPage,
         AppendTransactionCommit, AppendRawPage, AppendRecord, FlushWal, WritePageStore,
         BeginCheckpointCandidate, SetCheckpointCandidateEntry, BeginWalCandidate,
         AdvanceWalCandidate, SetWalCandidateEntry, Crash, SetSelectedEntriesForOpen,
         SetCheckpointCandidateForOpen, SetWalCandidateForOpen, Reopen, Select, PlanReplay,
         RepairPages, RestoreTransactions, Complete, AnalyzeRetention, Reclaim,
         checkpointVars

(* The two frontiers a header records only move forward.                    *)
LEMMA FrontiersGrow ==
    ASSUME IInv, FlushEndsLog, Next
    PROVE  flush <= flush' /\ epochHighWater <= epochHighWater'
<1>0. TypeInv /\ TypeOK /\ WalInv /\ PagesInv
  BY IInvParts
<1>1. flush \in Int /\ epochHighWater \in Int
  BY <1>0 DEF TypeOK
<1>2. CASE FlushWal
  <2>1. /\ flush' \in DOMAIN wal
        /\ \A q \in DOMAIN wal : q <= flush'
        /\ UNCHANGED epochHighWater
    BY <1>0, <1>2, FlushCovers DEF FlushWal, epochVars
  <2>2. flush' \in Int
    BY <1>0, <2>1, DurableRange
  <2>3. CASE DurablePositions = {}
    BY <1>1, <2>1, <2>2, <2>3 DEF DurablePositions
  <2>4. CASE DurablePositions # {}
    BY <1>1, <2>1, <2>4 DEF FlushEndsLog
  <2>. QED  BY <2>3, <2>4
<1>3. ASSUME NEW keep \in TailOutcomes, Crash(keep)
      PROVE  UNCHANGED <<flush, epochHighWater>>
  BY <1>3 DEF Crash
<1>4. CASE AdvanceWalCandidate
  BY <1>0, <1>1, <1>4, RenameShrinks DEF PagesInv
<1>5. CASE Reclaim
  BY <1>0, <1>1, <1>5, ReclaimShrinks DEF Reclaim
<1>6. CASE RestoreTransactions
  BY <1>0, <1>1, <1>6
     DEF RestoreTransactions, FreshEpoch, PersistedEpochHighWater, walVars, TypeOK,
         CheckpointSnapshot
<1>7. CASE AllocateCoordinatorEpoch
  BY <1>0, <1>1, <1>7 DEF AllocateCoordinatorEpoch, walVars, TypeOK
<1>8. CASE UNCHANGED <<flush, epochHighWater>>
  BY <1>1, <1>8
<1>. QED
  BY <1>1, <1>2, <1>3, <1>4, <1>5, <1>6, <1>7, <1>8
     DEF Next, LiveStep, ReplacementStep, CrashStep, RecoveryStep, RetentionStep,
         BeginTransaction, AppendTransactionPage, AppendTransactionCommit, AppendRawPage,
         AppendRecord, WritePageStore, PublishCheckpoint, BeginCheckpointCandidate,
         AdvanceCheckpointCandidate, SetCheckpointCandidateEntry, BeginWalCandidate,
         SetWalCandidateEntry, SetSelectedEntriesForOpen, SetCheckpointCandidateForOpen,
         SetWalCandidateForOpen, Reopen, Select, PlanReplay, RepairPages, Complete,
         AnalyzeRetention, walVars, epochVars

(* Every step that installs no replacement keeps the durable records, and   *)
(* adds at most one record, at the next position.                           *)
LEMMA GenerationKept ==
    ASSUME IInv, FlushBelowNext, FlushEndsLog, Next,
           AdvanceWalCandidate => UNCHANGED <<header, wal, flush>>, ~Reclaim
    PROVE  /\ header' = header
           /\ \A q \in DurablePositions : q \in DOMAIN wal' /\ wal'[q] = wal[q]
           /\ \A q \in DOMAIN wal' : q \in DOMAIN wal \/ q = nextPosition
           /\ \/ \E keep \in TailOutcomes : Crash(keep)
              \/ \A q \in DOMAIN wal : q \in DOMAIN wal' /\ wal'[q] = wal[q]
<1>0. TypeInv /\ TypeOK /\ WalInv
  BY IInvParts
<1>1. header' = header
  BY DEF Next, LiveStep, ReplacementStep, CrashStep, RecoveryStep, RetentionStep,
         AllocateCoordinatorEpoch, BeginTransaction, AppendTransactionPage,
         AppendTransactionCommit, AppendRawPage, AppendRecord, FlushWal, WritePageStore,
         PublishCheckpoint, BeginCheckpointCandidate, AdvanceCheckpointCandidate,
         SetCheckpointCandidateEntry, BeginWalCandidate, SetWalCandidateEntry, Crash,
         SetSelectedEntriesForOpen, SetCheckpointCandidateForOpen, SetWalCandidateForOpen,
         Reopen, Select, PlanReplay, RepairPages, RestoreTransactions, Complete,
         AnalyzeRetention
<1>. DEFINE Grows == /\ \A q \in DOMAIN wal : q \in DOMAIN wal' /\ wal'[q] = wal[q]
                     /\ \A q \in DOMAIN wal' : q \in DOMAIN wal \/ q = nextPosition
<1>2. CASE UNCHANGED wal
  BY <1>1, <1>2 DEF DurablePositions
<1>3. ASSUME NEW record \in WalRecord, AppendRecord(record) PROVE Grows
  BY <1>0, <1>3, AppendGrows DEF AppendRecord
<1>4. ASSUME NEW keep \in TailOutcomes, Crash(keep)
      PROVE  /\ \A q \in DurablePositions : q \in DOMAIN wal' /\ wal'[q] = wal[q]
             /\ \A q \in DOMAIN wal' : q \in DOMAIN wal
  BY <1>0, <1>4, CrashKeepsDurable DEF WalShrinks, DurablePositions
<1>5. CASE Grows
  BY <1>1, <1>5 DEF DurablePositions
<1>6. FlushWal => UNCHANGED wal
  BY DEF FlushWal
<1>7. \A q \in Positions : WritePageStore(q) => UNCHANGED wal
  BY DEF WritePageStore, walVars
<1>8. RepairPages => UNCHANGED wal
  BY DEF RepairPages, walVars
<1>. QED  BY <1>0, <1>1, <1>2, <1>3, <1>4, <1>5, <1>6, <1>7, <1>8, StepKinds

(* What retention leaves starts at the analysed floor.                      *)
LEMMA RetainedStarts ==
    ASSUME TypeOK, WalInv, AnchorInv, ReclamationReady
    PROVE  /\ StartsAtFloor(ReplacementHeader, Retained)
           /\ ReplacementHeader.generation > 0
           /\ ReplacementHeader.anchor # None
           /\ ReplacementHeader.retainedFirst <= flush
           /\ slot # None
<1>. DEFINE floor == analysis.retainedFirst
<1>1. /\ floor \in 0 .. MaxPosition /\ analysis.anchor \in Anchors
      /\ flush \in Nat /\ header.generation \in Nat
  BY DEF ReclamationReady, TypeOK, Headers
<1>2. slot # None
  BY DEF AnchorInv, SelectionInForce, ReclamationReady
<1>3. floor # 0 => floor \in DOMAIN wal /\ floor <= flush
  <2>. SUFFICES ASSUME floor # 0 PROVE floor \in DOMAIN wal /\ floor <= flush
    OBVIOUS
  <2>1. floor \in DOMAIN wal
    BY DEF ReclamationReady
  <2>2. DOMAIN wal # {} /\ wal # [q \in {} |-> None]
    BY <2>1
  <2>3. Latest(DOMAIN wal) = flush
    BY <2>2 DEF ReclamationReady
  <2>. QED  BY <2>1, <2>3, DurableRange, LatestInRange
<1>4. StartsAtFloor(ReplacementHeader, Retained)
  BY <1>1, <1>3 DEF StartsAtFloor, ReplacementHeader, Retained
<1>5. /\ ReplacementHeader.generation > 0
      /\ ReplacementHeader.anchor # None
      /\ ReplacementHeader.retainedFirst <= flush
  BY <1>1, <1>3, NoneAssumption DEF ReplacementHeader
<1>. QED  BY <1>2, <1>4, <1>5

(* The installed generation stays in agreement with log and slot.           *)
LEMMA GenerationStep ==
    ASSUME IInv, FlushBelowNext, FlushEndsLog, AnchorInv, GenerationSound,
           PendingGenerationSound, Next
    PROVE  GenerationSound'
<1>0. TypeInv /\ TypeOK /\ WalInv /\ PagesInv
  BY IInvParts
<1>1. flush <= flush' /\ epochHighWater <= epochHighWater' /\ (slot # None => slot' # None)
  BY <1>0, FrontiersGrow, SlotStays
<1>2. CASE Reclaim
  <2>1. /\ ReclamationReady
        /\ DOMAIN wal' = Retained
        /\ header' = ReplacementHeader
        /\ UNCHANGED <<flush, epochHighWater>>
    BY <1>0, <1>2, ReclaimShrinks DEF Reclaim, Install
  <2>2. /\ header'.logicalHighWater = flush
        /\ header'.epochHighWater = epochHighWater
    BY <1>0, <2>1 DEF ReplacementHeader, WalInv, FrontiersAgree
  <2>3. flush \in Int /\ epochHighWater \in Int
    BY <1>0 DEF TypeOK
  <2>4. StartsAtFloor(header', DOMAIN wal')
    BY <1>0, <2>1, RetainedStarts
  <2>5. header'.anchor # None /\ header'.retainedFirst <= flush' /\ slot' # None
    BY <1>0, <1>1, <2>1, RetainedStarts
  <2>. QED  BY <2>1, <2>2, <2>3, <2>4, <2>5 DEF GenerationSound
<1>3. CASE AdvanceWalCandidate /\ walCandidate.stage + 1 = AfterCurrentReplace
  <2>1. /\ walCandidate # None
        /\ header' = walCandidate.header
        /\ wal' = walCandidate.suffix
    BY <1>3 DEF AdvanceWalCandidate, Install
  <2>2. walCandidate.stage < AfterCurrentReplace
    BY <1>0, <1>3, <2>1 DEF TypeOK
  <2>3. /\ walCandidate.header.logicalHighWater = flush
        /\ walCandidate.header.epochHighWater = epochHighWater
        /\ \A q \in DOMAIN walCandidate.suffix : q \in DurablePositions
        /\ UNCHANGED <<flush, epochHighWater>>
    BY <1>0, <1>3, <2>1, <2>2, RenameShrinks DEF PagesInv, CandidateRetainsPages
  <2>4. flush \in Nat /\ epochHighWater \in Nat
    BY <1>0 DEF TypeOK
  <2>5. /\ walCandidate.header.anchor # None
        /\ slot' # None
        /\ StartsAtFloor(walCandidate.header, DOMAIN walCandidate.suffix)
    BY <1>1, <2>1, <2>2 DEF PendingGenerationSound
  <2>6. walCandidate.header.retainedFirst <= flush
    BY <2>3, <2>4, <2>5 DEF StartsAtFloor, DurablePositions
  <2>. QED  BY <2>1, <2>3, <2>4, <2>5, <2>6 DEF GenerationSound
<1>4. CASE ~Reclaim /\ ~(AdvanceWalCandidate /\ walCandidate.stage + 1 = AfterCurrentReplace)
  <2>. SUFFICES ASSUME header'.generation > 0 PROVE GenerationSound'
    BY DEF GenerationSound
  <2>1. AdvanceWalCandidate => UNCHANGED <<header, wal, flush>>
    BY <1>4 DEF AdvanceWalCandidate
  <2>2. /\ header' = header
        /\ \A q \in DurablePositions : q \in DOMAIN wal' /\ wal'[q] = wal[q]
        /\ \A q \in DOMAIN wal' : q \in DOMAIN wal \/ q = nextPosition
    BY <1>4, <2>1, GenerationKept
  <2>3. /\ header.anchor # None /\ slot # None
        /\ header.logicalHighWater <= flush
        /\ header.epochHighWater <= epochHighWater
        /\ StartsAtFloor(header, DOMAIN wal)
        /\ header.retainedFirst <= flush
    BY <2>2 DEF GenerationSound
  <2>4. /\ header.logicalHighWater \in Int /\ header.epochHighWater \in Int
        /\ header.retainedFirst \in Int
        /\ flush \in Int /\ flush' \in Int
        /\ epochHighWater \in Int /\ epochHighWater' \in Int
        /\ nextPosition \in Int /\ flush < nextPosition
    BY <1>0, TypeInvStep DEF TypeOK, Headers, TypeInv, FlushBelowNext
  <2>5. StartsAtFloor(header, DOMAIN wal')
    <3>1. CASE header.retainedFirst = 0
      BY <2>2, <2>3, <2>4, <3>1 DEF StartsAtFloor
    <3>2. CASE header.retainedFirst # 0
      <4>1. header.retainedFirst \in DurablePositions
        BY <2>3, <3>2 DEF StartsAtFloor, DurablePositions
      <4>. QED  BY <2>2, <2>3, <2>4, <3>2, <4>1 DEF StartsAtFloor
    <3>. QED  BY <3>1, <3>2
  <2>6. /\ header.logicalHighWater <= flush' /\ header.retainedFirst <= flush'
        /\ header.epochHighWater <= epochHighWater'
    BY <1>1, <2>3, <2>4
  <2>. QED  BY <1>1, <2>2, <2>3, <2>5, <2>6 DEF GenerationSound
<1>. QED  BY <1>2, <1>3, <1>4

(* So will the pending one.                                                 *)
LEMMA PendingGenerationStep ==
    ASSUME IInv, AnchorInv, PendingGenerationSound, Next
    PROVE  PendingGenerationSound'
<1>0. TypeInv /\ TypeOK /\ WalInv /\ PagesInv
  BY IInvParts
<1>1. slot # None => slot' # None
  BY <1>0, SlotStays
<1>. SUFFICES ASSUME walCandidate' # None, walCandidate'.stage < AfterCurrentReplace
              PROVE  /\ walCandidate'.header.generation > 0
                     /\ walCandidate'.header.anchor # None
                     /\ slot' # None
                     /\ StartsAtFloor(walCandidate'.header, DOMAIN walCandidate'.suffix)
  BY DEF PendingGenerationSound
<1>2. CASE BeginWalCandidate
  <2>1. /\ ReclamationReady
        /\ walCandidate'.header = ReplacementHeader
        /\ walCandidate'.suffix = Restrict(wal, Retained)
    BY <1>2 DEF BeginWalCandidate
  <2>2. DOMAIN walCandidate'.suffix = Retained
    BY <1>0, <2>1, RestrictWal DEF TypeOK, Retained
  <2>. QED  BY <1>0, <1>1, <2>1, <2>2, RetainedStarts
<1>3. ASSUME NEW e \in CandidateEntries, SetWalCandidateForOpen(e)
      PROVE  /\ walCandidate'.header.generation > 0
             /\ walCandidate'.header.anchor # None
             /\ slot' # None
             /\ StartsAtFloor(walCandidate'.header, DOMAIN walCandidate'.suffix)
  <2>1. /\ walCandidate'.header.generation = header.generation + 1
        /\ walCandidate'.header.anchor = slot.anchor
        /\ walCandidate'.header.retainedFirst = Earliest(DurablePositions)
        /\ walCandidate'.suffix = Restrict(wal, DurablePositions)
        /\ slot # None
    BY <1>3 DEF SetWalCandidateForOpen
  <2>2. DOMAIN walCandidate'.suffix = DurablePositions
    BY <1>0, <2>1, RestrictWal, DurableRange DEF TypeOK
  <2>3. slot.anchor # None /\ header.generation \in Nat
    BY <1>0, <2>1, NoneAssumption DEF TypeOK, CheckpointSnapshot, Headers
  <2>4. StartsAtFloor(walCandidate'.header, DurablePositions)
    <3>1. CASE DurablePositions = {}
      <4>1. Earliest(DurablePositions) = 0
        BY <3>1 DEF Earliest
      <4>. QED  BY <2>1, <3>1, <4>1 DEF StartsAtFloor
    <3>2. CASE DurablePositions # {}
      <4>1. /\ Earliest(DurablePositions) \in DurablePositions
            /\ Earliest(DurablePositions) # 0
            /\ \A q \in DurablePositions : Earliest(DurablePositions) <= q
        BY <1>0, <3>2, DurableRange, EarliestInRange
      <4>. QED  BY <2>1, <4>1 DEF StartsAtFloor
    <3>. QED  BY <3>1, <3>2
  <2>. QED  BY <1>1, <2>1, <2>2, <2>3, <2>4
<1>4. CASE /\ walCandidate # None
           /\ walCandidate'.header = walCandidate.header
           /\ walCandidate'.suffix = walCandidate.suffix
           /\ walCandidate.stage < AfterCurrentReplace
  BY <1>1, <1>4 DEF PendingGenerationSound
<1>. QED  BY <1>0, <1>2, <1>3, <1>4, WalCandidateOrigin

(* A sound checkpoint of generation 0 stays sound.                          *)
LEMMA SnapshotKept ==
    ASSUME IInv, FlushBelowNext, FlushEndsLog, Next,
           \A q \in DurablePositions : q \in DOMAIN wal' /\ wal'[q] = wal[q],
           NEW snapshot \in CheckpointSnapshot, SnapshotSound(snapshot)
    PROVE  SnapshotSound(snapshot)'
<1>0. TypeInv /\ TypeOK /\ TypeOK'
  BY IInvParts, TypeInvStep DEF TypeInv
<1>1. flush <= flush' /\ epochHighWater <= epochHighWater'
  BY FrontiersGrow
<1>2. /\ flush \in Int /\ flush' \in Int
      /\ epochHighWater \in Int /\ epochHighWater' \in Int
      /\ snapshot.frontier \in Int /\ snapshot.epochHighWater \in Int
      /\ \A q \in DOMAIN wal : q \in Int
  BY <1>0, DurableRange DEF TypeOK, CheckpointSnapshot
<1>3. snapshot.frontier <= flush /\ snapshot.epochHighWater <= epochHighWater
  BY DEF SnapshotSound
<1>4. \A q \in DOMAIN wal : q <= snapshot.frontier => q \in DOMAIN wal' /\ wal'[q] = wal[q]
  BY <1>2, <1>3 DEF DurablePositions
<1>5. \A q : q \in Records(1 .. snapshot.frontier) =>
                q \in Records(1 .. snapshot.frontier)' /\ wal'[q] = wal[q]
  BY <1>2, <1>4 DEF Records
<1>6. \A tx : CommittedBy(tx, snapshot.frontier) => CommittedBy(tx, snapshot.frontier)'
  BY <1>4 DEF CommittedBy
<1>7. \A q \in Records(1 .. snapshot.frontier) :
         Installable(q, snapshot.frontier) => Installable(q, snapshot.frontier)'
  BY <1>5, <1>6 DEF Installable
<1>8. ASSUME NEW p \in Pages, snapshot.pages[p] # 0
      PROVE  /\ snapshot.pages[p] \in Records(1 .. snapshot.frontier)'
             /\ wal'[snapshot.pages[p]].page = p
             /\ Installable(snapshot.pages[p], snapshot.frontier)'
  BY <1>5, <1>7, <1>8 DEF SnapshotSound
<1>9. ASSUME NEW tx \in DOMAIN snapshot.active
      PROVE  OwnedIn(tx, {q \in snapshot.active[tx] : q <= snapshot.frontier})'
  BY <1>4, <1>9 DEF SnapshotSound, OwnedIn
<1>10. snapshot.replayStart # 0 => snapshot.replayStart \in Records(1 .. snapshot.frontier)'
  BY <1>5 DEF SnapshotSound
<1>11. snapshot.frontier <= flush' /\ snapshot.epochHighWater <= epochHighWater'
  BY <1>1, <1>2, <1>3
<1>. QED  BY <1>8, <1>9, <1>10, <1>11 DEF SnapshotSound

(* In generation 0, publish_checkpoint builds a sound one.                  *)
LEMMA ImageSound ==
    ASSUME IInv, OwnersSound, header.generation = 0, NEW a \in Anchors
    PROVE  SnapshotSound(CheckpointImage(a))
<1>0. TypeInv /\ TypeOK /\ PagesInv
  BY IInvParts
<1>1. \A q \in DurablePositions : q \in Records(1 .. flush)
  BY <1>0, DurableRange DEF DurablePositions, Records, TypeOK
<1>2. ReplayStart # 0 => ReplayStart \in DurablePositions
  <2>. DEFINE S == {q \in DurablePositions : IsPage(wal[q]) /\ store[wal[q].page] < q}
  <2>1. S \in SUBSET (0 .. MaxPosition) /\ S \in SUBSET DurablePositions
    BY <1>0, DurableRange
  <2>2. ReplayStart = Earliest(S)
    BY DEF ReplayStart
  <2>3. S = {} => Earliest(S) = 0
    BY DEF Earliest
  <2>. HIDE DEF S
  <2>. QED  BY <2>1, <2>2, <2>3, EarliestInRange
<1>3. ASSUME NEW p \in Pages, store[p] # 0
      PROVE  /\ store[p] \in Records(1 .. flush)
             /\ wal[store[p]].page = p
             /\ Installable(store[p], flush)
  BY <1>0, <1>1, <1>3 DEF PagesInv, PagesBackedByDurableWal, DurablePositions
<1>4. ASSUME NEW tx \in DOMAIN active \cup DOMAIN persisted
      PROVE  OwnedIn(tx, IF tx \in DOMAIN active THEN active[tx] ELSE persisted[tx])
  BY DEF OwnersSound
<1>5. ASSUME NEW tx \in DOMAIN CheckpointImage(a).active
      PROVE  OwnedIn(tx, {q \in CheckpointImage(a).active[tx] :
                              q <= CheckpointImage(a).frontier})
  BY <1>4, <1>5 DEF CheckpointImage, OwnedIn
<1>6. flush <= flush /\ epochHighWater <= epochHighWater
  BY <1>0 DEF TypeOK
<1>7. /\ CheckpointImage(a).frontier = flush
      /\ CheckpointImage(a).replayStart = ReplayStart
      /\ CheckpointImage(a).pages = store
      /\ CheckpointImage(a).epochHighWater = epochHighWater
  BY DEF CheckpointImage
<1>. HIDE DEF CheckpointImage
<1>. QED  BY <1>1, <1>2, <1>3, <1>5, <1>6, <1>7 DEF SnapshotSound

LEMMA PrefixStep ==
    ASSUME IInv, ReplayInv, FlushEndsLog, OwnersSound, PrefixSound, Next,
           header'.generation = 0, header' = header,
           \A q \in DurablePositions : q \in DOMAIN wal' /\ wal'[q] = wal[q]
    PROVE  PrefixSound'
<1>0. TypeInv /\ TypeOK /\ TypeOK'
  BY IInvParts, TypeInvStep DEF TypeInv
<1>1. ASSUME NEW snapshot \in CheckpointSnapshot, Known(snapshot)
      PROVE  SnapshotSound(snapshot)'
  <2>1. SnapshotSound(snapshot)
    BY <1>1, ImageSound DEF Known, PrefixSound
  <2>. QED  BY <2>1, SnapshotKept DEF ReplayInv
<1>2. /\ slot' # None => slot' \in CheckpointSnapshot
      /\ selected' # None => selected' \in CheckpointSnapshot
      /\ checkpointCandidate' # None => checkpointCandidate'.snapshot \in CheckpointSnapshot
  BY <1>0 DEF TypeOK
<1>3. /\ slot' # None => Known(slot')
      /\ selected' # None => Known(selected')
      /\ checkpointCandidate' # None => Known(checkpointCandidate'.snapshot)
  BY <1>0, SnapshotOrigin
<1>4. ASSUME slot' # None PROVE SnapshotSound(slot)'
  BY <1>1, <1>2, <1>3, <1>4 DEF SnapshotSound, OwnedIn, Records, Installable, CommittedBy
<1>5. ASSUME selected' # None PROVE SnapshotSound(selected)'
  BY <1>1, <1>2, <1>3, <1>5 DEF SnapshotSound, OwnedIn, Records, Installable, CommittedBy
<1>6. ASSUME checkpointCandidate' # None PROVE SnapshotSound(checkpointCandidate.snapshot)'
  BY <1>1, <1>2, <1>3, <1>6 DEF SnapshotSound, OwnedIn, Records, Installable, CommittedBy
<1>. QED  BY <1>4, <1>5, <1>6 DEF PrefixSound

(* Every step but these leaves the two transaction tables as they are, and  *)
(* only select begins a phase in which the selected checkpoint is used.     *)
LEMMA OwnerFrame ==
    ASSUME Next
    PROVE  /\ \/ UNCHANGED active
              \/ BeginTransaction
              \/ \E tx \in DOMAIN active, p \in Pages : AppendTransactionPage(tx, p)
              \/ \E tx \in DOMAIN active : AppendTransactionCommit(tx)
              \/ DOMAIN active' = {}
           /\ UNCHANGED persisted \/ DOMAIN persisted' = {} \/ RestoreTransactions
           /\ phase' \in {"Selected", "ReplayPlanned", "PagesRepaired"} =>
                 \/ Select
                 \/ /\ phase \in {"Selected", "ReplayPlanned", "PagesRepaired"}
                    /\ UNCHANGED selected
BY DEF Next, LiveStep, ReplacementStep, CrashStep, RecoveryStep, RetentionStep,
       LiveOrComplete, AllocateCoordinatorEpoch, AppendTransactionPage,
       AppendTransactionCommit, AppendRawPage, AppendRecord, BeginTransaction, FlushWal,
       WritePageStore, PublishCheckpoint, BeginCheckpointCandidate,
       AdvanceCheckpointCandidate, SetCheckpointCandidateEntry, BeginWalCandidate,
       AdvanceWalCandidate, SetWalCandidateEntry, Crash, SetSelectedEntriesForOpen,
       SetCheckpointCandidateForOpen, SetWalCandidateForOpen, Reopen, Select, PlanReplay,
       RepairPages, RestoreTransactions, Complete, AnalyzeRetention, Reclaim,
       checkpointVars, transactionVars

(* In generation 0 the tables name page records of their transactions.      *)
LEMMA OwnersStep ==
    ASSUME IInv, FlushBelowNext, FlushEndsLog, OwnersSound, Next, ~Reclaim,
           AdvanceWalCandidate => UNCHANGED <<header, wal, flush>>, header.generation = 0
    PROVE  OwnersSound'
<1>0. TypeInv /\ TypeOK /\ WalInv
  BY IInvParts
<1>. DEFINE Grows == \A q \in DOMAIN wal : q \in DOMAIN wal' /\ wal'[q] = wal[q]
<1>1. (\E keep \in TailOutcomes : Crash(keep)) \/ Grows
  BY GenerationKept
<1>2. ASSUME Grows, NEW tx, NEW S, OwnedIn(tx, S)
      PROVE  OwnedIn(tx, S)'
  BY <1>2 DEF OwnedIn
<1>3. (\E keep \in TailOutcomes : Crash(keep)) =>
        DOMAIN active' = {} /\ DOMAIN persisted' = {} /\ phase' = "Crashed"
  BY DEF Crash
<1>4. ASSUME NEW tx \in DOMAIN active' PROVE OwnedIn(tx, active[tx])'
  <2>0. Grows
    BY <1>1, <1>3, <1>4
  <2>1. CASE UNCHANGED active
    <3>1. tx \in DOMAIN active /\ active'[tx] = active[tx]
      BY <1>4, <2>1
    <3>2. OwnedIn(tx, active[tx])
      BY <3>1 DEF OwnersSound
    <3>. QED  BY <2>0, <3>1, <3>2 DEF OwnedIn
  <2>2. CASE BeginTransaction
    <3>1. active' = Put(active, [epoch |-> currentEpoch, sequence |-> nextSequence], {})
      BY <2>2 DEF BeginTransaction
    <3>2. active'[tx] = {} \/ (tx \in DOMAIN active /\ active'[tx] = active[tx])
      BY <1>4, <3>1 DEF Put
    <3>. QED  BY <2>0, <3>2 DEF OwnersSound, OwnedIn
  <2>3. ASSUME NEW t \in DOMAIN active, NEW p \in Pages, AppendTransactionPage(t, p)
        PROVE  OwnedIn(tx, active[tx])'
    <3>. DEFINE record == [kind |-> "TransactionPage", transaction |-> t, page |-> p]
    <3>1. record \in WalRecord /\ AppendRecord(record)
      BY <1>0, <2>3, TablesElim DEF AppendTransactionPage, WalRecord, TypeOK
    <3>2. /\ nextPosition \in DOMAIN wal'
          /\ wal'[nextPosition] = record
      BY <1>0, <3>1, AppendGrows
    <3>3. active' = [active EXCEPT ![t] = @ \cup {nextPosition}]
      BY <2>3 DEF AppendTransactionPage
    <3>4. /\ tx \in DOMAIN active
          /\ active'[tx] = active[tx] \/ (tx = t /\ active'[tx] = active[tx] \cup {nextPosition})
      BY <1>4, <3>3
    <3>5. OwnedIn(tx, active[tx])
      BY <3>4 DEF OwnersSound
    <3>. QED  BY <2>0, <3>2, <3>4, <3>5 DEF OwnedIn
  <2>4. ASSUME NEW t \in DOMAIN active, AppendTransactionCommit(t)
        PROVE  OwnedIn(tx, active[tx])'
    <3>1. active' = Restrict(active, DOMAIN active \ {t})
      BY <2>4 DEF AppendTransactionCommit
    <3>2. tx \in DOMAIN active /\ active'[tx] = active[tx]
      BY <1>4, <3>1 DEF Restrict
    <3>3. OwnedIn(tx, active[tx])
      BY <3>2 DEF OwnersSound
    <3>. QED  BY <2>0, <3>2, <3>3 DEF OwnedIn
  <2>. QED  BY <1>4, <2>1, <2>2, <2>3, <2>4, OwnerFrame
<1>5. ASSUME NEW tx \in DOMAIN persisted' PROVE OwnedIn(tx, persisted[tx])'
  <2>0. Grows
    BY <1>1, <1>3, <1>5
  <2>1. CASE UNCHANGED persisted
    <3>1. tx \in DOMAIN persisted /\ persisted'[tx] = persisted[tx]
      BY <1>5, <2>1
    <3>2. OwnedIn(tx, persisted[tx])
      BY <3>1 DEF OwnersSound
    <3>. QED  BY <2>0, <3>1, <3>2 DEF OwnedIn
  <2>2. CASE RestoreTransactions
    <3>1. persisted' = RestoredTransactions /\ phase = "PagesRepaired"
      BY <2>2 DEF RestoreTransactions
    <3>2. plan \subseteq DurablePositions
      BY <1>0, <3>1 DEF TypeInv, PlanDurable
    <3>3. OwnedIn(tx, PlannedPages(tx))
      BY <3>2 DEF OwnedIn, PlannedPages, DurablePositions
    <3>4. tx \in DOMAIN SeededTransactions => OwnedIn(tx, SeededTransactions[tx])
      BY <3>1 DEF SeededTransactions, OwnersSound
    <3>5. persisted'[tx] =
            (IF tx \in DOMAIN SeededTransactions THEN SeededTransactions[tx] ELSE {})
                \cup PlannedPages(tx)
      BY <1>5, <3>1 DEF RestoredTransactions
    <3>. QED  BY <2>0, <3>3, <3>4, <3>5 DEF OwnedIn
  <2>. QED  BY <1>5, <2>1, <2>2, OwnerFrame
<1>6. ASSUME phase' \in {"Selected", "ReplayPlanned", "PagesRepaired"}, selected' # None,
             NEW tx \in DOMAIN selected'.active
      PROVE  OwnedIn(tx, selected.active[tx])'
  <2>0. Grows
    BY <1>1, <1>3, <1>6
  <2>1. CASE Select
    <3>1. selected' = slot /\ CompletePrefixCheckpoint(slot)
      BY <1>6, <2>1 DEF Select
    <3>2. OwnedIn(tx, slot.active[tx])
      BY <1>6, <3>1 DEF CompletePrefixCheckpoint, OwnedIn, Records
    <3>. QED  BY <2>0, <3>1, <3>2 DEF OwnedIn
  <2>2. CASE phase \in {"Selected", "ReplayPlanned", "PagesRepaired"} /\ UNCHANGED selected
    <3>1. OwnedIn(tx, selected.active[tx])
      BY <1>6, <2>2 DEF OwnersSound
    <3>. QED  BY <2>0, <2>2, <3>1 DEF OwnedIn
  <2>. QED  BY <1>6, <2>1, <2>2, OwnerFrame
<1>. QED  BY <1>4, <1>5, <1>6 DEF OwnersSound

LEMMA ReopenAlways == Spec => []ReopenInv
<1>1. Init => ReopenInv
  BY DEF Init, ReopenInv, GenerationSound, PendingGenerationSound, PrefixSound, OwnersSound
<1>2. IInv /\ ReplayInv /\ FlushEndsLog /\ AnchorInv /\ ReopenInv /\ [Next]_vars => ReopenInv'
  <2>1. ASSUME IInv, ReplayInv, FlushEndsLog, AnchorInv, ReopenInv, Next PROVE ReopenInv'
    <3>0. TypeInv /\ TypeOK /\ FlushBelowNext
      BY <2>1, IInvParts DEF ReplayInv
    <3>1. GenerationSound'
      BY <2>1, <3>0, GenerationStep DEF ReopenInv
    <3>2. PendingGenerationSound'
      BY <2>1, PendingGenerationStep DEF ReopenInv
    <3>3. ASSUME header'.generation = 0
          PROVE  /\ ~Reclaim
                 /\ AdvanceWalCandidate => UNCHANGED <<header, wal, flush>>
      <4>1. header.generation \in Nat
        BY <3>0 DEF TypeOK, Headers
      <4>2. Reclaim => header'.generation = header.generation + 1
        BY DEF Reclaim, Install, ReplacementHeader
      <4>3. ASSUME AdvanceWalCandidate, walCandidate.stage + 1 = AfterCurrentReplace
            PROVE  FALSE
        <5>1. walCandidate # None /\ header' = walCandidate.header
          BY <4>3 DEF AdvanceWalCandidate, Install
        <5>2. walCandidate.stage < AfterCurrentReplace
          BY <3>0, <4>3, <5>1 DEF TypeOK
        <5>. QED  BY <2>1, <3>3, <5>1, <5>2 DEF ReopenInv, PendingGenerationSound
      <4>. QED  BY <3>3, <4>1, <4>2, <4>3 DEF AdvanceWalCandidate
    <3>4. ASSUME header'.generation = 0
          PROVE  /\ header' = header
                 /\ \A q \in DurablePositions : q \in DOMAIN wal' /\ wal'[q] = wal[q]
      BY <2>1, <3>0, <3>3, <3>4, GenerationKept
    <3>5. PrefixSound'
      <4>. SUFFICES ASSUME header'.generation = 0 PROVE PrefixSound'
        BY DEF PrefixSound
      <4>. QED  BY <2>1, <3>4, PrefixStep DEF ReopenInv
    <3>6. OwnersSound'
      <4>. SUFFICES ASSUME header'.generation = 0 PROVE OwnersSound'
        BY DEF OwnersSound
      <4>. QED  BY <2>1, <3>0, <3>3, <3>4, OwnersStep DEF ReopenInv
    <3>. QED  BY <3>1, <3>2, <3>5, <3>6 DEF ReopenInv
  <2>2. ASSUME ReopenInv, UNCHANGED vars PROVE ReopenInv'
    BY <2>2
       DEF ReopenInv, GenerationSound, PendingGenerationSound, PrefixSound, OwnersSound,
           StartsAtFloor, SnapshotSound, OwnedIn, Records, Installable, CommittedBy, vars,
           walVars, epochVars, transactionVars, checkpointVars, candidateVars
  <2>. QED  BY <2>1, <2>2
<1>. QED  BY <1>1, <1>2, IInvAlways, ReplayAlways, FlushEndsAlways, AnchorAlways, PTL DEF Spec

(* Whatever phase a crash interrupts, the next open accepts the selected    *)
(* files: log, header, slot and epochs agree unless a checkpoint published  *)
(* before the crash is the unusable one the exception names.                *)
THEOREM CrashAlwaysReopens == Spec => []CrashReopens
<1>1. IInv /\ FlushEndsLog /\ ReopenInv => CrashReopens
  <2>. SUFFICES ASSUME IInv, FlushEndsLog, ReopenInv, phase = "Crashed", FilesIntact,
                       ~SlotUnusable
                PROVE  SelectedValidOnOpen
    BY DEF CrashReopens
  <2>0. TypeInv /\ TypeOK /\ WalInv /\ flush = logicalHighWater
    BY IInvParts DEF WalInv, FrontiersAgree
  <2>1. /\ DurablePositions \in SUBSET (1 .. MaxPosition)
        /\ DurablePositions \in SUBSET DOMAIN wal
        /\ DOMAIN wal \in SUBSET (1 .. MaxPosition)
    BY <2>0, DurableRange
  <2>2. ASSUME header.generation > 0 PROVE RetainedFirstConsistent
    <3>. DEFINE first == Earliest(DurablePositions)
    <3>1. /\ StartsAtFloor(header, DOMAIN wal) /\ header.retainedFirst <= flush
          /\ header.retainedFirst \in Int
      BY <2>0, <2>2 DEF ReopenInv, GenerationSound, TypeOK, Headers
    <3>2. /\ DurablePositions # {} => first \in DurablePositions
          /\ \A q \in DurablePositions : first <= q
          /\ first \in Int
      BY <2>1, EarliestInRange
    <3>3. DurablePositions = {} => first = 0
      BY DEF Earliest
    <3>. HIDE DEF first
    <3>4. CASE header.retainedFirst # 0
      <4>1. header.retainedFirst \in DurablePositions
        BY <3>1, <3>4 DEF StartsAtFloor, DurablePositions
      <4>2. first \in DOMAIN wal /\ first <= header.retainedFirst
        BY <2>1, <3>2, <4>1
      <4>3. header.retainedFirst <= first
        BY <3>1, <3>4, <4>2 DEF StartsAtFloor
      <4>4. first = header.retainedFirst
        BY <3>1, <3>2, <4>2, <4>3
      <4>. QED  BY <3>4, <4>4 DEF RetainedFirstConsistent, first
    <3>5. CASE header.retainedFirst = 0
      <4>1. first # 0 => first \in DOMAIN wal
        BY <2>1, <3>2, <3>3
      <4>2. first # 0 => first > header.logicalHighWater
        BY <3>1, <3>5, <4>1 DEF StartsAtFloor
      <4>. QED  BY <3>5, <4>2 DEF RetainedFirstConsistent, first
    <3>. QED  BY <3>4, <3>5
  <2>3. ASSUME header.generation > 0
        PROVE  /\ header.anchor # None
               /\ logicalHighWater >= header.logicalHighWater
               /\ epochHighWater >= header.epochHighWater
               /\ slot # None /\ slot.anchor = header.anchor
    BY <2>0, <2>3 DEF ReopenInv, GenerationSound, SlotUnusable, TypeOK, Headers
  <2>4. ASSUME ~(header.generation > 0), slot # None PROVE CompletePrefixCheckpoint(slot)
    <3>1. header.generation = 0
      BY <2>0, <2>4 DEF TypeOK, Headers
    <3>2. SnapshotSound(slot)
      BY <2>4, <3>1 DEF ReopenInv, PrefixSound
    <3>3. slot \in CheckpointSnapshot
      BY <2>0, <2>4 DEF TypeOK
    <3>4. \A tx \in DOMAIN slot.active : \A q \in slot.active[tx] :
             q <= slot.frontier /\ q \in Positions
      <4>1. slot.active \in TransactionTables
        BY <3>3 DEF CheckpointSnapshot
      <4>2. \A tx \in DOMAIN slot.active : slot.active[tx] \in SUBSET Positions
        BY <4>1, TablesElim
      <4>. QED  BY <2>4, <3>3, <4>2 DEF SlotUnusable, CheckpointSnapshot
    <3>5. ASSUME NEW tx \in DOMAIN slot.active, NEW q \in slot.active[tx]
          PROVE  /\ q \in Records(1 .. slot.frontier)
                 /\ wal[q].kind = "TransactionPage"
                 /\ wal[q].transaction = tx
      BY <3>2, <3>3, <3>4, <3>5 DEF SnapshotSound, OwnedIn, Records, CheckpointSnapshot
    <3>6. WithinPrefix(slot) /\ slot.epochHighWater <= epochHighWater
      BY <2>0, <3>2 DEF SnapshotSound, WithinPrefix
    <3>. QED  BY <3>2, <3>5, <3>6 DEF SnapshotSound, CompletePrefixCheckpoint
  <2>. QED  BY <2>0, <2>2, <2>3, <2>4 DEF SelectedValidOnOpen, FilesIntact
<1>. QED  BY <1>1, IInvAlways, FlushEndsAlways, ReopenAlways, PTL

----------------------------------------------------------------------------
(* The refinement.                                                          *)

(* Only complete puts the database back in operation.                       *)
LEMMA ServesAgain ==
    ASSUME Next, ~Serving, Serving'
    PROVE  Complete
BY DEF Next, LiveStep, ReplacementStep, CrashStep, RecoveryStep, RetentionStep,
       AllocateCoordinatorEpoch, BeginTransaction, AppendTransactionPage,
       AppendTransactionCommit, AppendRawPage, AppendRecord, FlushWal, WritePageStore,
       PublishCheckpoint, LiveOrComplete, BeginCheckpointCandidate,
       AdvanceCheckpointCandidate, SetCheckpointCandidateEntry, BeginWalCandidate,
       AdvanceWalCandidate, SetWalCandidateEntry, Crash, SetSelectedEntriesForOpen,
       SetCheckpointCandidateForOpen, SetWalCandidateForOpen, Reopen, Select, PlanReplay,
       RepairPages, RestoreTransactions, AnalyzeRetention, Reclaim, ReclamationReady, Serving

LEMMA CurrentStore ==
    ASSUME TypeOK, StoreCurrent
    PROVE  store = DurableImage
<1>1. store = [p \in Pages |-> store[p]]
  BY DEF TypeOK, PageImages
<1>2. DurableImage = [p \in Pages |-> DurableImage[p]]
  BY DEF DurableImage
<1>. QED  BY <1>1, <1>2 DEF StoreCurrent

(* Neither image changed: the database stayed as it was, stopped, or serves *)
(* again and then shows every durable image.                                *)
LEMMA QuietStep ==
    ASSUME TypeOK, DurableInv, Next, UNCHANGED store, DurableImage' = DurableImage
    PROVE  [Abstract!Next]_<<DurableImage, store, Serving>>
<1>1. CASE Serving' <=> Serving
  BY <1>1 DEF Serving
<1>2. CASE Serving /\ ~Serving'
  <2>1. Abstract!Fail
    BY <1>2 DEF Abstract!Fail, Serving
  <2>. QED  BY <2>1 DEF Abstract!Next
<1>3. CASE ~Serving /\ Serving'
  <2>1. phase = "TransactionsRestored"
    BY <1>3, ServesAgain DEF Complete
  <2>2. StoreCurrent
    BY <2>1 DEF DurableInv, SettledStoreCurrent, Settled
  <2>3. store = DurableImage
    BY <2>2, CurrentStore
  <2>4. Abstract!Serve
    BY <1>3, <2>3 DEF Abstract!Serve, Serving
  <2>. QED  BY <2>4 DEF Abstract!Next
<1>. QED  BY <1>1, <1>2, <1>3

LEMMA RefinementInit == Init => Abstract!Init
<1>. SUFFICES ASSUME Init PROVE Abstract!Init
  OBVIOUS
<1>1. store = [p \in Pages |-> 0] /\ Serving = TRUE /\ wal = [q \in {} |-> None]
  BY DEF Init, Serving
<1>2. TypeOK
  BY TypeInvInit DEF TypeInv
<1>3. ASSUME NEW p \in Pages PROVE DurableImage[p] = 0
  <2>1. ImagesOf(p) = {}
    BY <1>1 DEF ImagesOf, DurablePositions
  <2>. QED  BY <1>1, <1>2, <2>1, DurableImageIsLatest
<1>4. DurableImage = [p \in Pages |-> DurableImage[p]]
  BY DEF DurableImage
<1>5. DurableImage = [p \in Pages |-> 0]
  BY <1>3, <1>4
<1>. QED  BY <1>1, <1>5 DEF Abstract!Init

(* Every step of the recovery model is a step of the durable page store.    *)
LEMMA RefinementStep ==
    ASSUME IInv, ReplayInv, DurableInv, Next
    PROVE  [Abstract!Next]_<<DurableImage, store, Serving>>
<1>0. TypeInv /\ TypeOK /\ TypeOK' /\ WalInv /\ PagesInv
  BY IInvParts, TypeInvStep DEF TypeInv
<1>1. CASE UNCHANGED <<wal, flush, store>>
  <2>1. DurablePositions' = DurablePositions
    BY <1>1 DEF DurablePositions
  <2>. QED  BY <1>0, <1>1, <2>1, SameImages, QuietStep
<1>2. ASSUME NEW record \in WalRecord, AppendRecord(record)
      PROVE  [Abstract!Next]_<<DurableImage, store, Serving>>
  <2>1. /\ DOMAIN wal' = DOMAIN wal \cup {nextPosition} /\ UNCHANGED <<flush, store>>
        /\ \A q \in DOMAIN wal : wal'[q] = wal[q]
    BY <1>0, <1>2, AppendGrows DEF AppendRecord
  <2>2. ~(nextPosition <= flush)
    BY <1>0 DEF ReplayInv, FlushBelowNext, TypeOK
  <2>3. DurablePositions' = DurablePositions
    BY <2>1, <2>2 DEF DurablePositions
  <2>4. \A q \in DurablePositions : wal'[q] = wal[q]
    BY <2>1 DEF DurablePositions
  <2>. QED  BY <1>0, <2>1, <2>3, <2>4, SameImages, QuietStep
<1>3. CASE FlushWal
  <2>1. /\ UNCHANGED <<wal, store, phase>> /\ flush' \in DOMAIN wal
        /\ \A q \in DOMAIN wal : q <= flush'
        /\ phase \in {"Live", "CompleteLive"}
    BY <1>0, <1>3, FlushCovers DEF FlushWal, LiveOrComplete
  <2>2. \A q \in DOMAIN wal : Installable(q, flush) => Installable(q, flush)'
    BY <2>1 DEF Installable, CommittedBy
  <2>3. \A p : ImagesOf(p) \subseteq ImagesOf(p)'
    BY <2>1, <2>2 DEF ImagesOf, DurablePositions
  <2>4. ASSUME NEW p \in Pages PROVE DurableImage'[p] >= DurableImage[p]
    <3>1. /\ DurableImage[p] \in {store[p]} \cup ImagesOf(p)
          /\ DurableImage[p] \in 0 .. MaxPosition
      BY <1>0, DurableImageIsLatest
    <3>2. /\ DurableImage'[p] \in 0 .. MaxPosition
          /\ store'[p] <= DurableImage'[p]
          /\ \A q \in ImagesOf(p)' : q <= DurableImage'[p]
      BY <1>0, ImageAboveStoreNext DEF ImageAtOrAboveStore
    <3>. QED  BY <2>1, <2>3, <3>1, <3>2
  <2>5. Abstract!Harden
    BY <2>1, <2>4 DEF Abstract!Harden, Serving
  <2>. QED  BY <2>5 DEF Abstract!Next
<1>4. ASSUME NEW n \in Positions, WritePageStore(n)
      PROVE  [Abstract!Next]_<<DurableImage, store, Serving>>
  <2>1. /\ UNCHANGED <<wal, flush, phase>>
        /\ n \in DurablePositions /\ Installable(n, flush)
        /\ store' = [store EXCEPT ![wal[n].page] = n]
        /\ store[wal[n].page] <= n
        /\ phase \in {"Live", "CompleteLive"}
    BY <1>4 DEF WritePageStore, walVars, LiveOrComplete
  <2>2. DurablePositions' = DurablePositions
    BY <2>1 DEF DurablePositions
  <2>3. \A p : ImagesOf(p)' = ImagesOf(p)
    BY <2>1, <2>2, SameImages
  <2>4. ASSUME NEW p \in Pages
        PROVE  DurableImage'[p] = DurableImage[p] /\ store'[p] <= DurableImage[p]
    <3>1. store'[p] = store[p] \/ store'[p] \in ImagesOf(p)
      BY <1>0, <2>1 DEF ImagesOf, TypeOK, PageImages
    <3>2. /\ DurableImage[p] \in {store[p]} \cup ImagesOf(p)
          /\ DurableImage[p] \in 0 .. MaxPosition
          /\ store[p] <= DurableImage[p]
          /\ \A q \in ImagesOf(p) : q <= DurableImage[p]
      BY <1>0, DurableImageIsLatest
    <3>3. /\ DurableImage'[p] \in {store'[p]} \cup ImagesOf(p)
          /\ DurableImage'[p] \in 0 .. MaxPosition
          /\ store'[p] <= DurableImage'[p]
          /\ \A q \in ImagesOf(p) : q <= DurableImage'[p]
      BY <1>0, <2>3, ImageAboveStoreNext DEF ImageAtOrAboveStore
    <3>4. store[p] <= store'[p]
      BY <1>0, <1>4, WriteBacked DEF PagesInv
    <3>5. store'[p] <= DurableImage[p]
      BY <3>1, <3>2
    <3>6. DurableImage'[p] <= DurableImage[p]
      BY <3>2, <3>3, <3>5
    <3>7. DurableImage[p] <= DurableImage'[p]
      BY <1>0, <3>2, <3>3, <3>4 DEF TypeOK, PageImages
    <3>. QED  BY <3>2, <3>3, <3>5, <3>6, <3>7
  <2>5. DurableImage' = DurableImage
    <3>1. DurableImage = [p \in Pages |-> DurableImage[p]]
      BY DEF DurableImage
    <3>2. DurableImage' = [p \in Pages |-> DurableImage'[p]]
      BY DEF DurableImage
    <3>. QED  BY <2>4, <3>1, <3>2
  <2>6. \A p \in Pages : store[p] <= store'[p]
    BY <1>0, <1>4, WriteBacked DEF PagesInv
  <2>7. Abstract!Show
    BY <2>1, <2>4, <2>5, <2>6 DEF Abstract!Show, Serving
  <2>. QED  BY <2>7 DEF Abstract!Next
<1>5. ASSUME NEW keep \in TailOutcomes, Crash(keep)
      PROVE  [Abstract!Next]_<<DurableImage, store, Serving>>
  <2>1. /\ WalShrinks /\ UNCHANGED <<flush, store>>
        /\ DurablePositions' = DurablePositions
    BY <1>0, <1>5, CrashKeepsDurable
  <2>2. \A q \in DurablePositions : wal'[q] = wal[q]
    BY <2>1 DEF WalShrinks, DurablePositions
  <2>. QED  BY <1>0, <2>1, <2>2, SameImages, QuietStep
<1>6. CASE RepairPages
  <2>1. store' = DurableImage /\ DurableImage' = DurableImage
    BY <1>6, RepairInstallsNewest DEF ReplayInv
  <2>2. Serving = FALSE /\ Serving' = FALSE
    BY <1>6 DEF RepairPages, Serving
  <2>3. Abstract!Repair
    BY <2>1, <2>2 DEF Abstract!Repair
  <2>. QED  BY <2>3 DEF Abstract!Next
<1>7. CASE AdvanceWalCandidate
  <2>1. WalShrinks /\ UNCHANGED <<flush, store>> /\ walCandidate # None
    BY <1>0, <1>7, RenameShrinks DEF PagesInv, AdvanceWalCandidate
  <2>2. CASE walCandidate.stage + 1 = AfterCurrentReplace
    <3>1. wal' = walCandidate.suffix
      BY <1>7, <2>2 DEF AdvanceWalCandidate, Install
    <3>2. walCandidate.stage < AfterCurrentReplace
      BY <1>0, <2>1, <2>2 DEF TypeOK
    <3>3. CASE StoreCurrent
      BY <1>0, <2>1, <3>3, CurrentShrinks, QuietStep
    <3>4. CASE DurablePositions \subseteq DOMAIN wal'
      <4>1. DurablePositions' = DurablePositions
        BY <2>1, <3>4 DEF WalShrinks, DurablePositions
      <4>2. \A q \in DurablePositions : wal'[q] = wal[q]
        BY <2>1, <3>4 DEF WalShrinks
      <4>. QED  BY <1>0, <2>1, <4>1, <4>2, SameImages, QuietStep
    <3>. QED  BY <2>1, <3>1, <3>2, <3>3, <3>4 DEF DurableInv, CandidateRetainsImages
  <2>3. CASE walCandidate.stage + 1 # AfterCurrentReplace
    BY <1>1, <1>7, <2>1, <2>3 DEF AdvanceWalCandidate
  <2>. QED  BY <2>2, <2>3
<1>8. CASE Reclaim
  <2>1. WalShrinks /\ UNCHANGED <<flush, store>> /\ StoreCurrent
    BY <1>0, <1>8, ReclaimShrinks
       DEF Reclaim, ReclamationReady, DurableInv, SettledStoreCurrent, Settled
  <2>. QED  BY <1>0, <2>1, CurrentShrinks, QuietStep
<1>. QED  BY <1>0, <1>1, <1>2, <1>3, <1>4, <1>5, <1>6, <1>7, <1>8, StepKinds

(* Flush, page write, checkpoint, crash, replay, repair and reclamation, in *)
(* one call or stage by stage, implement a page store that loses no durable *)
(* image and serves again only when it shows every one of them, as long as  *)
(* a crash takes the unflushed tail with it (the in-memory adapter).        *)
THEOREM DurablePagesImplemented == Spec /\ TailForgotten => ImplementsDurablePages
<1>1. IInv /\ ReplayInv /\ DurableInv /\ [Next]_vars
        => [Abstract!Next]_<<DurableImage, store, Serving>>
  <2>1. ASSUME UNCHANGED vars PROVE UNCHANGED <<DurableImage, store, Serving>>
    <3>1. UNCHANGED <<wal, flush, store, phase>> /\ DurablePositions' = DurablePositions
      BY <2>1 DEF vars, walVars, DurablePositions
    <3>2. DurableImage' = DurableImage
      BY <3>1, SameImages
    <3>. QED  BY <3>1, <3>2 DEF Serving
  <2>. QED  BY <2>1, RefinementStep
<1>. QED
  BY <1>1, RefinementInit, IInvAlways, ReplayAlways, DurableAlways, PTL
     DEF Spec, ImplementsDurablePages, Abstract!Spec
============================================================================
