------------------------- MODULE RecoveryInvariant -------------------------
(***************************************************************************)
(* The strengthening of the safety properties of the recovery model that   *)
(* its steps preserve: what has to hold between the operations for none of *)
(* them to break the write-ahead rule or reuse an epoch.                   *)
(***************************************************************************)
EXTENDS RecoveryProperties

Recovering == {"Unrecovered", "Selected", "ReplayPlanned", "PagesRepaired",
               "TransactionsRestored"}

(* The replay plan names durable records as long as it is used.             *)
PlanDurable == phase \in {"ReplayPlanned", "PagesRepaired"} => plan \subseteq DurablePositions

(* No replacement is in progress while the database recovers.               *)
NoCandidateInRecovery ==
    phase \in Recovering => checkpointCandidate = None /\ walCandidate = None

TypeInv == TypeOK /\ PlanDurable /\ NoCandidateInRecovery

(* Positions grow: allocate_position never hands out one that is in use.    *)
WalBelowNext == \A q \in DOMAIN wal : q < nextPosition

(* The two frontiers move together.                                         *)
FrontiersAgree == logicalHighWater = flush

(* The coordinator's epoch is at most the persisted high-water mark, and    *)
(* the next one is above it.                                                *)
EpochsBounded == currentEpoch <= epochHighWater /\ epochHighWater < nextEpoch

(* A transaction the coordinator of this incarnation began, or any other    *)
(* before it: not an identity that begin_transaction may still hand out.    *)
Begun(tx) ==
    /\ tx.epoch <= epochHighWater
    /\ tx.epoch = currentEpoch => tx.sequence < nextSequence

IsCommitOf(r, tx) == r.kind = "TransactionCommit" /\ r.transaction = tx

IdentitiesBegun ==
    /\ \A q \in DOMAIN wal : wal[q].kind # "RawPage" => Begun(wal[q].transaction)
    /\ \A tx \in DOMAIN active : Begun(tx)

(* An active transaction has no commit marker in the WAL.                   *)
ActiveUncommitted == \A tx \in DOMAIN active, q \in DOMAIN wal : ~IsCommitOf(wal[q], tx)

(* The checkpoints that recovery may read hold no page image newer than the *)
(* store's.                                                                 *)
BehindStore(snapshot) == \A p \in Pages : snapshot.pages[p] <= store[p]
SnapshotsBehindStore ==
    /\ slot # None => BehindStore(slot)
    /\ selected # None => BehindStore(selected)
    /\ checkpointCandidate # None => BehindStore(checkpointCandidate.snapshot)

(* The retained floor is at or below every image of the page store.         *)
FloorBelowStore ==
    phase = "RetentionAnalyzed" /\ analysis # None =>
        \A p \in Pages : store[p] # 0 =>
            analysis.retainedFirst # 0 /\ analysis.retainedFirst <= store[p]

(* A WAL replacement outlives its analysis only in a crashed database.      *)
CandidateOnlyInReclamation ==
    walCandidate # None => phase \in {"RetentionAnalyzed", "Crashed"}

(* Until its rename, a WAL replacement agrees with the log it replaces: it  *)
(* carries the same frontiers, only durable records of the log, and all of  *)
(* those from the oldest image of the page store on.                        *)
CandidateRetainsPages ==
    walCandidate # None /\ walCandidate.stage < AfterCurrentReplace =>
        /\ walCandidate.header.logicalHighWater = flush
        /\ walCandidate.header.epochHighWater = epochHighWater
        /\ \A q \in DOMAIN walCandidate.suffix :
              q \in DurablePositions /\ walCandidate.suffix[q] = wal[q]
        /\ \A p \in Pages, q \in DurablePositions :
              store[p] # 0 /\ store[p] <= q => q \in DOMAIN walCandidate.suffix

WalInv ==
    /\ WalBelowNext
    /\ FrontiersAgree
    /\ EpochsBounded
    /\ IdentitiesBegun
    /\ ActiveUncommitted
    /\ CommitClosesTransaction

PagesInv ==
    /\ PagesBackedByDurableWal
    /\ SnapshotsBehindStore
    /\ FloorBelowStore
    /\ CandidateOnlyInReclamation
    /\ CandidateRetainsPages

(* The checkpoints name only transactions at or below their own high-water  *)
(* mark, and recovery restores only such.                                   *)
SnapshotEpochs(snapshot) == \A tx \in DOMAIN snapshot.active : tx.epoch <= snapshot.epochHighWater
KnownBounded ==
    /\ \A tx \in DOMAIN persisted \cup committed : tx.epoch <= epochHighWater
    /\ slot # None => SnapshotEpochs(slot)
    /\ selected # None => SnapshotEpochs(selected)
    /\ checkpointCandidate # None => SnapshotEpochs(checkpointCandidate.snapshot)

IInv == TypeInv /\ WalInv /\ PagesInv /\ KnownBounded

----------------------------------------------------------------------------
(* What the selection, the analysis and the reclamation rely on beyond     *)
(* IInv, each part with IInv preserved by every step.                       *)

(* The frozen selection still speaks for the checkpoint slot: from select  *)
(* to the first change after completion, and once retention is analysed.    *)
FreshlyComplete == phase = "CompleteLive" /\ evidence # None /\ ~evidence.stale
SelectionInForce ==
    \/ phase \in (Recovering \ {"Unrecovered"}) \cup {"RetentionAnalyzed", "Reclaimed"}
    \/ FreshlyComplete

(* No checkpoint replacement is pending then, and the installed WAL, or the *)
(* one about to be installed, is bound to the anchor of the slot.           *)
AnchorInv ==
    SelectionInForce =>
        /\ slot = selected
        /\ checkpointCandidate = None
        /\ header.generation > 0 => slot.anchor = header.anchor
        /\ walCandidate # None => walCandidate.header.anchor = selected.anchor

(* The retained floor is at or below every record of an unresolved         *)
(* transaction, and a WAL replacement carries the durable ones.             *)
FloorBelowUnresolved ==
    phase = "RetentionAnalyzed" /\ analysis # None =>
        \A tx \in DOMAIN persisted : \A q \in persisted[tx] :
            analysis.retainedFirst # 0 /\ analysis.retainedFirst <= q
CandidateRetainsUnresolved ==
    walCandidate # None /\ walCandidate.stage < AfterCurrentReplace =>
        \A tx \in DOMAIN persisted :
            persisted[tx] \cap DurablePositions \subseteq DOMAIN walCandidate.suffix
UnresolvedInv == FloorBelowUnresolved /\ CandidateRetainsUnresolved

(* A page record whose image the store does not have or supersede.          *)
Missing(q) == IsPage(wal[q]) /\ store[wal[q].page] < q

(* Replay from a checkpoint reaches every missing record of the log, those  *)
(* not yet durable or not yet written included.                             *)
ReachedFrom(snapshot, q) ==
    IF snapshot.replayStart # 0 THEN q >= snapshot.replayStart ELSE q > snapshot.frontier
ReplaysMissing(snapshot) ==
    /\ snapshot.frontier < nextPosition
    /\ snapshot.replayStart < nextPosition
    /\ \A q \in DOMAIN wal : Missing(q) => ReachedFrom(snapshot, q)
SnapshotsReplayMissing ==
    /\ slot # None => ReplaysMissing(slot)
    /\ selected # None => ReplaysMissing(selected)
    /\ checkpointCandidate # None => ReplaysMissing(checkpointCandidate.snapshot)

PlanReachesMissing ==
    phase \in {"ReplayPlanned", "PagesRepaired"} =>
        \A q \in DurablePositions : Missing(q) => q \in plan
FlushBelowNext == flush < nextPosition
ReplayInv ==
    /\ FlushBelowNext
    /\ SnapshotsReplayMissing
    /\ PlanReachesMissing
    /\ UnresolvedRemembered

(* The durable log ends at the frontier, in a replacement too.              *)
FlushEndsLog ==
    /\ DurablePositions # {} => flush \in DOMAIN wal
    /\ walCandidate # None /\ walCandidate.stage < AfterCurrentReplace =>
          (DOMAIN walCandidate.suffix # {} => flush \in DOMAIN walCandidate.suffix)

----------------------------------------------------------------------------
(* What the next open checks of the selected files, kept between crashes.   *)

(* A reclaimed log starts at the floor of its header, or above the frontier *)
(* of its header when nothing was retained.                                 *)
StartsAtFloor(h, S) ==
    IF h.retainedFirst # 0
    THEN h.retainedFirst \in S /\ \A q \in S : h.retainedFirst <= q
    ELSE \A q \in S : q > h.logicalHighWater

(* The installed generation agrees with log, slot and allocator ...         *)
GenerationSound ==
    header.generation > 0 =>
        /\ header.anchor # None
        /\ slot # None
        /\ header.logicalHighWater <= flush
        /\ header.epochHighWater <= epochHighWater
        /\ StartsAtFloor(header, DOMAIN wal)
        /\ header.retainedFirst <= flush

(* ... and so will the one a pending replacement installs.                  *)
PendingGenerationSound ==
    walCandidate # None /\ walCandidate.stage < AfterCurrentReplace =>
        /\ walCandidate.header.generation > 0
        /\ walCandidate.header.anchor # None
        /\ slot # None
        /\ StartsAtFloor(walCandidate.header, DOMAIN walCandidate.suffix)

(* Positions that a transaction is said to own are page records of it.      *)
OwnedIn(tx, S) ==
    \A q \in S : /\ q \in DOMAIN wal
                 /\ wal[q].kind = "TransactionPage"
                 /\ wal[q].transaction = tx

(* Before any reclamation a checkpoint is one of the log up to its frontier *)
(* but for positions of active transactions above it.                       *)
SnapshotSound(snapshot) ==
    /\ snapshot.frontier <= flush
    /\ snapshot.replayStart # 0 => snapshot.replayStart \in Records(1 .. snapshot.frontier)
    /\ \A p \in Pages : snapshot.pages[p] # 0 =>
          /\ snapshot.pages[p] \in Records(1 .. snapshot.frontier)
          /\ wal[snapshot.pages[p]].page = p
          /\ Installable(snapshot.pages[p], snapshot.frontier)
    /\ \A tx \in DOMAIN snapshot.active :
          OwnedIn(tx, {q \in snapshot.active[tx] : q <= snapshot.frontier})
    /\ snapshot.epochHighWater <= epochHighWater

PrefixSound ==
    header.generation = 0 =>
        /\ slot # None => SnapshotSound(slot)
        /\ selected # None => SnapshotSound(selected)
        /\ checkpointCandidate # None => SnapshotSound(checkpointCandidate.snapshot)

OwnersSound ==
    header.generation = 0 =>
        /\ \A tx \in DOMAIN active : OwnedIn(tx, active[tx])
        /\ \A tx \in DOMAIN persisted : OwnedIn(tx, persisted[tx])
        /\ phase \in {"Selected", "ReplayPlanned", "PagesRepaired"} /\ selected # None =>
              \A tx \in DOMAIN selected.active : OwnedIn(tx, selected.active[tx])

ReopenInv ==
    /\ GenerationSound
    /\ PendingGenerationSound
    /\ PrefixSound
    /\ OwnersSound

----------------------------------------------------------------------------
(* The part that a crash keeping the unflushed tail breaks: what the store *)
(* shows after recovery is all there is, until a live operation.            *)
TailForgotten == TailOutcomes \subseteq {FALSE}

(* No live operation happened since the crash that recovery started from,  *)
(* and from repair on the store shows all there is.                         *)
NoLiveChange ==
    phase \in Recovering \cup {"Crashed", "RetentionAnalyzed", "Reclaimed"} \/ FreshlyComplete
NoTail == NoLiveChange => DOMAIN wal \subseteq DurablePositions

Settled ==
    \/ phase \in {"PagesRepaired", "TransactionsRestored", "RetentionAnalyzed", "Reclaimed"}
    \/ FreshlyComplete
StoreCurrent == \A p \in Pages : store[p] = DurableImage[p]
SettledStoreCurrent == Settled => StoreCurrent
CandidateRetainsImages ==
    walCandidate # None /\ walCandidate.stage < AfterCurrentReplace =>
        StoreCurrent \/ DurablePositions \subseteq DOMAIN walCandidate.suffix

DurableInv ==
    /\ TailForgotten
    /\ NoTail
    /\ SettledStoreCurrent
    /\ CandidateRetainsImages
============================================================================
