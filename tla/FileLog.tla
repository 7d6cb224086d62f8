------------------------------ MODULE FileLog ------------------------------
(***************************************************************************)
(* FileCommitLog of crates/ntsql-storage-file/src/lib.rs: the adapter that *)
(* keeps a write-ahead log in one file, replaces the file when it reclaims *)
(* a prefix, and rebuilds its memory from the file when it is opened, with *)
(* the coordinators of ntsql-transaction that commit and resolve on it.    *)
(*                                                                         *)
(* A call makes several system calls, and any of them may fail, or the     *)
(* process die in it.  Nothing else runs in between, so an action is a     *)
(* whole call with the choice of how far it got.  A call that fails after  *)
(* it may have changed the file poisons the writer; a process that dies    *)
(* inside a call is the same, followed by Drop.  A call that is rejected,  *)
(* or fails with nothing changed (the first sync_all of flush_through), is *)
(* no step, unless it is a transaction's append: whatever the error, the   *)
(* transaction cannot be committed any more.  The faults of arm_fault stop *)
(* calls at the same places.                                               *)
(***************************************************************************)
EXTENDS LogFile

CONSTANTS
    MaxPosition, MaxEpoch, MaxGeneration,   \* the ends of the number spaces
    UnsyncedRenameOpens  \* an adapter may open the path again before anything
                         \* has made the last rename permanent

Positions == 1 .. MaxPosition
Epochs == 1 .. MaxEpoch

(* Of the transaction of each epoch: its TransactionLifecycleStatus, or     *)
(* whether its coordinator does not exist yet, or not any more.             *)
Undecided == {"Active", "Indeterminate", "PageAppendIndeterminate"}
Lifecycles == Undecided \cup {"NotIssued", "Committed", "NoDurableCommitRecord", "Forgotten"}

ASSUME BoundsAssumption ==
    /\ MaxPosition \in Nat
    /\ MaxEpoch \in Nat
    /\ MaxGeneration \in Nat
    /\ UnsyncedRenameOpens \in BOOLEAN

VARIABLES
    selected,   \* the file that the path names
    former,     \* files the path may name again after a power loss
    candidate,  \* a replacement candidate is left beside the selected file
    opened,     \* the adapter is open
    records, durableLen, nextEpoch, nextPosition, poisoned,  \* its fields
    generation, reclaimedHighWater,                          \* and those of its header
    lifecycle,     \* of the transaction of each epoch
    handedOut,     \* epochs that allocate_transaction_epoch returned, in order
    reclaimed      \* epochs whose durable commit record a reclamation removed

memory == <<records, durableLen, nextEpoch, nextPosition, generation, reclaimedHighWater>>
client == <<lifecycle, handedOut, reclaimed>>
vars == <<selected, former, candidate, opened, memory, poisoned, client>>

(* create_new_internal has returned.                                        *)
Init ==
    /\ selected = EmptyFile
    /\ former = {}
    /\ candidate = FALSE
    /\ opened = TRUE
    /\ records = <<>>
    /\ durableLen = 0
    /\ nextEpoch = 1
    /\ nextPosition = 1
    /\ poisoned = FALSE
    /\ generation = 0
    /\ reclaimedHighWater = 0
    /\ lifecycle = [by \in Epochs |-> "NotIssued"]
    /\ handedOut = <<>>
    /\ reclaimed = {}

UsableWhenPoisoned == opened
Usable == opened /\ ~poisoned

(* checked_add of the position and epoch counters.                          *)
Available(number, limit) == number <= limit

(* A write or a sync_all failed.                                            *)
Poison(file) ==
    /\ selected' = file
    /\ poisoned' = TRUE
    /\ UNCHANGED memory

----------------------------------------------------------------------------
(* append_commit and append_page_group: the record is written, or part of   *)
(* it, or nothing, when the writer is poisoned or the positions used up.    *)
Appended(record) ==
    /\ Usable
    /\ Available(record.at, MaxPosition)
    /\ selected' = Extended(selected, FramesOf(record))
    /\ records' = Append(records, record)
    /\ nextPosition' = nextPosition + 1
    /\ UNCHANGED <<durableLen, nextEpoch, generation, reclaimedHighWater, poisoned>>

AppendInterrupted(record) ==
    /\ Usable
    /\ Available(record.at, MaxPosition)
    /\ \E file \in Interrupted(selected, FramesOf(record)) : Poison(file)

AppendRefused ==
    /\ UsableWhenPoisoned
    /\ poisoned \/ ~Available(nextPosition, MaxPosition)
    /\ UNCHANGED <<selected, memory, poisoned>>

AppendFailed(record) == AppendInterrupted(record) \/ AppendRefused

Now(by, status) == lifecycle' = [lifecycle EXCEPT ![by] = status]

(* A page without a transaction.                                            *)
AppendRawPage ==
    LET record == [kind |-> "Page", at |-> nextPosition, by |-> 0] IN
    /\ Appended(record) \/ AppendInterrupted(record)
    /\ UNCHANGED <<former, candidate, opened, client>>

(* stage_page_write of the coordinator.                                     *)
StagePage(by) ==
    LET record == [kind |-> "Page", at |-> nextPosition, by |-> by] IN
    /\ lifecycle[by] = "Active"
    /\ \/ Appended(record) /\ UNCHANGED lifecycle
       \/ AppendFailed(record) /\ Now(by, "PageAppendIndeterminate")
    /\ UNCHANGED <<former, candidate, opened, handedOut, reclaimed>>

(* allocate_transaction_epoch_frame writes a frame and synchronizes it.     *)
EpochWrittenOnly(file) == file
EpochSynced(file) == Synced(file)

AllocateEpoch ==
    LET frame == <<EpochFrame(nextEpoch)>>
        written == Extended(selected, frame)
    IN
    /\ Usable
    /\ Available(nextEpoch, MaxEpoch)
    /\ \/ /\ selected' = EpochSynced(written)
          /\ nextEpoch' = nextEpoch + 1
          /\ Now(nextEpoch, "Active")
          /\ handedOut' = Append(handedOut, nextEpoch)
          /\ UNCHANGED <<records, durableLen, nextPosition, generation, reclaimedHighWater,
                         poisoned>>
       \/ /\ \E file \in Interrupted(selected, frame) \cup {written} : Poison(file)
          /\ UNCHANGED <<lifecycle, handedOut>>
    /\ UNCHANGED <<former, candidate, opened, reclaimed>>

(* flush_through, for a position that is not durable yet: sync_all for the  *)
(* records, write the marker, sync_all for the marker.                      *)
RecordsSynced(file) == Synced(file)

MarkerSynced(file) == Synced(file)

(* The log [file, content] is flushed through its i-th record; the calls    *)
(* differ in what they wrote before.                                        *)
Flushed(file, content, i) ==
    /\ selected' = MarkerSynced(Extended(RecordsSynced(file), <<Marker(content[i].at)>>))
    /\ durableLen' = i
    /\ UNCHANGED <<nextEpoch, generation, reclaimedHighWater, poisoned>>

MarkerInterrupted(file, content, i) ==
    LET marker == <<Marker(content[i].at)>>
        synced == RecordsSynced(file)
    IN
    /\ selected' \in Interrupted(synced, marker) \cup {Extended(synced, marker)}
    /\ poisoned' = TRUE
    /\ UNCHANGED <<durableLen, nextEpoch, generation, reclaimedHighWater>>

FlushThrough(i) ==
    /\ Usable
    /\ i > durableLen
    /\ Flushed(selected, records, i) \/ MarkerInterrupted(selected, records, i)
    /\ UNCHANGED <<records, nextPosition, former, candidate, opened, lifecycle, handedOut,
                   reclaimed>>

----------------------------------------------------------------------------
(* commit of the coordinator, over commit_durability: append, then flush    *)
(* through the record.  Any error leaves the transaction indeterminate.     *)
CommitRecord(by) == [kind |-> "Commit", at |-> nextPosition, by |-> by]

(* The record is in the log and the flush comes to its end, fails to make   *)
(* the record permanent, or fails at the marker.                            *)
CommitAppends(by) ==
    LET written == Extended(selected, FramesOf(CommitRecord(by)))
        content == Append(records, CommitRecord(by))
    IN
    /\ Usable
    /\ Available(nextPosition, MaxPosition)
    /\ records' = content
    /\ nextPosition' = nextPosition + 1
    /\ \/ Flushed(written, content, Len(content)) /\ Now(by, "Committed")
       \/ MarkerInterrupted(written, content, Len(content)) /\ Now(by, "Indeterminate")
       \/ /\ selected' = written
          /\ Now(by, "Indeterminate")
          /\ UNCHANGED <<durableLen, nextEpoch, generation, reclaimedHighWater, poisoned>>

Commit(by) ==
    /\ lifecycle[by] = "Active"
    /\ \/ CommitAppends(by)
       \/ AppendFailed(CommitRecord(by)) /\ Now(by, "Indeterminate")
    /\ UNCHANGED <<former, candidate, opened, handedOut, reclaimed>>

(* lookup_durable_commit: the one answer, or none when the record is still  *)
(* volatile.  An answer is the index of the record, or absence.             *)
CommitsOf(by) ==
    {i \in DOMAIN records : records[i].kind = "Commit" /\ records[i].by = by}

(* Defect: a volatile commit record counts as absent.                       *)
LookupIgnoringVolatile(by) == {{i \in CommitsOf(by) : i <= durableLen}}

LookupDurableCommit(by) ==
    {found \in {CommitsOf(by)} :
        Cardinality(found) <= 1 /\ \A i \in found : i <= durableLen}

Resolve(by) ==
    /\ Usable
    /\ lifecycle[by] = "Indeterminate"
    /\ \E found \in LookupDurableCommit(by) :
         Now(by, IF found = {} THEN "NoDurableCommitRecord" ELSE "Committed")
    /\ UNCHANGED <<selected, former, candidate, opened, memory, poisoned, handedOut,
                   reclaimed>>

----------------------------------------------------------------------------
(* reclaim_restart_wal_prefix keeps the records from index `start' on; the  *)
(* permit names the first of them, or none.                                 *)

DurablePosition == IF durableLen > 0 THEN records[durableLen].at ELSE reclaimedHighWater

WithVolatileSuffix == TRUE
WithoutVolatileSuffix == Len(records) = durableLen

Retained(start) == SubSeq(records, start, durableLen)

Replacement(start) ==
    LET kept == Retained(start) IN
    Synced([generation |-> generation + 1,
            first |-> IF kept = <<>> THEN 0 ELSE Head(kept).at,
            highWater |-> DurablePosition,
            epoch |-> nextEpoch - 1,
            frames |-> ReplacementFrames(kept, DurablePosition),
            synced |-> 0])

(* Removing a left candidate makes the directory permanent.                 *)
FormerAfterCleanup == IF candidate THEN {} ELSE former

(* The history of what goes with the records below index `start'.           *)
Removes(start) ==
    reclaimed' = reclaimed \cup
        {records[j].by : j \in {i \in 1 .. start - 1 : records[i].kind = "Commit"}}

(* The call fails before the rename, which leaves or removes a candidate.   *)
ReclaimStops ==
    /\ Poison(selected)
    /\ candidate' \in BOOLEAN
    /\ former' \in {former, FormerAfterCleanup}
    /\ UNCHANGED reclaimed

(* It fails after the rename, before the directory is synchronized or, in   *)
(* its seek to the end, after.                                              *)
ReclaimRenames(start) ==
    /\ Poison(Replacement(start))
    /\ candidate' = FALSE
    /\ former' \in {FormerAfterCleanup \cup {selected}, {}}
    /\ Removes(start)

ReclaimSucceeds(start) ==
    /\ selected' = Replacement(start)
    /\ candidate' = FALSE
    /\ former' = {}
    /\ records' = Retained(start)
    /\ durableLen' = durableLen - start + 1
    /\ nextPosition' = DurablePosition + 1
    /\ generation' = generation + 1
    /\ reclaimedHighWater' = DurablePosition
    /\ Removes(start)
    /\ UNCHANGED <<nextEpoch, poisoned>>

(* Its permit is made from a restart.  The newest epoch is that of the      *)
(* coordinator that this restart opened, which has begun nothing since.     *)
(* Coordinators of earlier restarts, which their holder may have kept, are  *)
(* not asked whether they still have a commit to resolve.                   *)
Permitted ==
    \E newest \in Epochs :
        /\ nextEpoch = newest + 1
        /\ lifecycle[newest] = "Active"
        /\ \A i \in DOMAIN records : records[i].by # newest

Reclaim(start) ==
    /\ Usable
    /\ Permitted
    /\ generation < MaxGeneration
    /\ WithoutVolatileSuffix
    /\ ReclaimStops \/ ReclaimRenames(start) \/ ReclaimSucceeds(start)
    /\ UNCHANGED <<opened, lifecycle, handedOut>>

----------------------------------------------------------------------------
(* The adapter is dropped, or its process dies.  Coordinators of the same   *)
(* lineage may outlive it and use the log when it is opened again.          *)
Drop ==
    /\ opened
    /\ opened' = FALSE
    /\ records' = <<>>
    /\ durableLen' = 0
    /\ nextEpoch' = 0
    /\ nextPosition' = 0
    /\ generation' = 0
    /\ reclaimedHighWater' = 0
    /\ poisoned' = FALSE
    /\ UNCHANGED <<selected, former, candidate, client>>

(* The machine loses what was not permanent, and every coordinator.         *)
PowerLoss ==
    /\ ~opened
    /\ \E file \in {selected} \cup former : selected' \in AfterPowerLoss(file)
    /\ former' = {}
    /\ candidate' \in IF candidate \/ former # {} THEN BOOLEAN ELSE {FALSE}
    /\ lifecycle' = [by \in Epochs |->
                        IF lifecycle[by] \in Undecided THEN "Forgotten" ELSE lifecycle[by]]
    /\ UNCHANGED <<opened, memory, poisoned, handedOut, reclaimed>>

(* open_internal: synchronize, scan, repair the end, remove a candidate.    *)
Open ==
    LET file == Synced(selected)
        frames == CompleteFrames(file)
    IN
    /\ ~opened
    /\ former = {} \/ UnsyncedRenameOpens
    /\ Accepted(file)
    /\ selected' = Repaired(file)
    /\ former' = FormerAfterCleanup
    /\ candidate' = FALSE
    /\ opened' = TRUE
    /\ records' = Records(frames)
    /\ durableLen' = DurableLen(file, frames)
    /\ nextEpoch' = AllocatedEpoch(file, frames) + 1
    /\ nextPosition' = LastCompleted(file, frames) + 1
    /\ generation' = file.generation
    /\ reclaimedHighWater' = file.highWater
    /\ UNCHANGED <<poisoned, client>>

(* open_internal fails: the scan refuses the file, or a system call fails,  *)
(* the last of them being the sync of the directory after a candidate was   *)
(* removed.                                                                 *)
OpenFails ==
    /\ ~opened
    /\ former = {} \/ UnsyncedRenameOpens
    /\ \/ selected' = Synced(selected) /\ candidate' = candidate
       \/ /\ Accepted(Synced(selected))
          /\ selected' = Repaired(Synced(selected))
          /\ candidate' \in {candidate, FALSE}
    /\ UNCHANGED <<former, opened, memory, poisoned, client>>

(* The database that owns the directory synchronizes it before it opens the *)
(* log: sync_selected_manifest_publication, when both are in one directory. *)
SyncSharedDirectory ==
    /\ ~opened
    /\ former # {}
    /\ former' = {}
    /\ UNCHANGED <<selected, candidate, opened, memory, poisoned, client>>

Next ==
    \/ AppendRawPage
    \/ \E by \in Epochs : StagePage(by) \/ Commit(by) \/ Resolve(by)
    \/ AllocateEpoch
    \/ \E i \in 1 .. Len(records) : FlushThrough(i)
    \/ \E start \in 1 .. durableLen + 1 : Reclaim(start)
    \/ Drop
    \/ PowerLoss
    \/ Open
    \/ OpenFails
    \/ SyncSharedDirectory

Spec == Init /\ [][Next]_vars
============================================================================
