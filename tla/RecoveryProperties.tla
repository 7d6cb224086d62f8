------------------------ MODULE RecoveryProperties ------------------------
(***************************************************************************)
(* What the recovery model of RecoveryModel.tla has to guarantee.          *)
(***************************************************************************)
EXTENDS RecoveryModel

(* An attempt that reached its last stage is gone.                          *)
AttemptStages == ReplacementStages \ {AfterDirectorySync}

(* Every variable holds a value of its Rust type.                           *)
TypeOK ==
    /\ lineage \in 0 .. MaxLineage
    /\ phase \in Phases
    /\ wal \in Wals
    /\ flush \in 0 .. MaxPosition
    /\ nextPosition \in 1 .. MaxPosition + 1
    /\ logicalHighWater \in 0 .. MaxPosition
    /\ currentEpoch \in 0 .. MaxEpoch
    /\ nextEpoch \in 1 .. MaxEpoch + 1
    /\ nextSequence \in 0 .. MaxSequence + 1
    /\ epochHighWater \in 0 .. MaxEpoch
    /\ active \in TransactionTables
    /\ persisted \in TransactionTables
    /\ committed \subseteq TransactionIds
    /\ store \in PageImages
    /\ slot \in CheckpointSnapshot \cup {None}
    /\ selected \in CheckpointSnapshot \cup {None}
    /\ header \in Headers
    /\ evidence \in [frontier : 0 .. MaxPosition, generation : 0 .. MaxGeneration,
                     anchor : Anchors \cup {None}, epochHighWater : 0 .. MaxEpoch,
                     stale : BOOLEAN] \cup {None}
    /\ analysis \in [retainedFirst : 0 .. MaxPosition, anchor : Anchors] \cup {None}
    /\ checkpointCandidate \in [snapshot : CheckpointSnapshot, stage : AttemptStages,
                                entry : CandidateEntryStates] \cup {None}
    /\ walCandidate \in [header : Headers, suffix : Wals, stage : AttemptStages,
                         entry : CandidateEntryStates] \cup {None}
    /\ locks \in [files : {"Free", "Recovery", "Live"}, inodes : {"Free", "Live"}]
    /\ plan \subseteq Positions
    /\ walEntry \in EntryStates
    /\ checkpointEntry \in EntryStates

(* Write-ahead rule, kept through reclamation: the image the page store     *)
(* holds for a page comes from a record of that page that is still in the   *)
(* WAL, is durable, and if a transaction wrote it, that transaction's       *)
(* commit is durable too (write_page_store, repair_pages, reclaim).         *)
PagesBackedByDurableWal ==
    \A p \in Pages : store[p] # 0 =>
        /\ store[p] \in DOMAIN wal
        /\ store[p] <= flush
        /\ wal[store[p]].page = p
        /\ Installable(store[p], flush)

(* Nothing follows a commit marker of its transaction in the WAL, in this   *)
(* or in any later incarnation: identities are not used again.              *)
CommitClosesTransaction ==
    \A c, q \in DOMAIN wal :
        wal[c].kind = "TransactionCommit" /\ wal[q].transaction = wal[c].transaction => q <= c

(* Retention is analysed, and the WAL reclaimed, against the checkpoint     *)
(* that the next open will find: nothing replaced the slot since select.    *)
ReclamationAnchoredInSlot ==
    phase \in {"RetentionAnalyzed", "Reclaimed"} =>
        /\ slot = selected
        /\ header.generation > 0 => slot.anchor = header.anchor

(* A checkpoint in the slot that a crash makes unusable: it lists a page    *)
(* record of an active transaction above its own frontier, or it replaced   *)
(* the checkpoint whose anchor a reclaimed WAL is bound to.                 *)
SlotUnusable ==
    /\ slot # None
    /\ \/ \E tx \in DOMAIN slot.active : \E q \in slot.active[tx] : q > slot.frontier
       \/ header.generation > 0 /\ slot.anchor # header.anchor

FilesIntact == walEntry = "Valid" /\ checkpointEntry = "Valid" /\ ~AliasedCandidate

(* A crashed database reopens from every phase, unless its selected files   *)
(* were damaged, a candidate aliases them, or the slot is unusable.         *)
CrashReopens ==
    phase = "Crashed" /\ FilesIntact /\ ~SlotUnusable => SelectedValidOnOpen

(* An unresolved transaction page the store does not supersede is in the    *)
(* restored transaction table.                                              *)
UnresolvedRemembered ==
    phase = "TransactionsRestored" =>
        \A q \in DurablePositions :
            (/\ wal[q].kind = "TransactionPage"
             /\ ~CommittedBy(wal[q].transaction, flush)
             /\ store[wal[q].page] < q)
            => wal[q].transaction \in DOMAIN persisted /\ q \in persisted[wal[q].transaction]

(* Every transaction identity recovery or the WAL knows.                    *)
KnownEpochs ==
    {wal[q].transaction.epoch : q \in {r \in DOMAIN wal : wal[r].kind # "RawPage"}}
        \cup {tx.epoch : tx \in DOMAIN active \cup DOMAIN persisted \cup committed}

(* A coordinator never starts on an epoch some transaction already used,    *)
(* in this incarnation or before any crash.                                 *)
EpochsNeverReused ==
    [][currentEpoch' \notin {0, currentEpoch} => \A e \in KnownEpochs : e < currentEpoch']_vars

(* Reclamation never removes the records of an unresolved transaction that  *)
(* recovery put in the transaction table (analyze_retention, reclaim).      *)
UnresolvedRecordsRetained ==
    [][\A tx \in DOMAIN persisted :
         persisted[tx] \cap DurablePositions \subseteq DOMAIN wal']_vars

(* The analysed floor leaves every durable image that the page store still  *)
(* lacks in the retained suffix ("current durable post-frontier suffix      *)
(* requirements", analyze_retention).                                       *)
RequiredSuffixRetained ==
    phase = "RetentionAnalyzed" /\ analysis # None =>
        \A q \in DurablePositions :
            IsPage(wal[q]) /\ Installable(q, flush) /\ store[wal[q].page] < q
                => analysis.retainedFirst # 0 /\ analysis.retainedFirst <= q

(* The newest image of each page that no crash may undo: what the page      *)
(* store has, or a durable record that recovery would install.              *)
DurableImage ==
    [p \in Pages |-> Latest({store[p]} \cup
        {q \in DurablePositions : wal[q].page = p /\ Installable(q, flush)})]
Serving == phase \in {"Live", "CompleteLive", "RetentionAnalyzed", "Reclaimed"}

Abstract == INSTANCE DurablePages
    WITH durable <- DurableImage, visible <- store, serving <- Serving

(* Flush, page write, checkpoint, crash, replay and reclamation together    *)
(* implement a page store that loses no durable image and serves again only *)
(* when it shows every one of them.                                         *)
ImplementsDurablePages == Abstract!Spec

(* After a crash the database comes back to live operation, unless its      *)
(* files are unusable or an identity space is exhausted.                    *)
RecoveryConverges ==
    phase = "Crashed" ~>
        \/ phase = "CompleteLive"
        \/ phase = "Crashed" /\ (lineage = MaxLineage \/ ~FilesIntact \/ SlotUnusable)
        \/ phase = "PagesRepaired" /\ PersistedEpochHighWater >= MaxEpoch
============================================================================
