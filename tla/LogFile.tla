------------------------------ MODULE LogFile ------------------------------
(***************************************************************************)
(* The physical form of ntsql's write-ahead log, as FileCommitLog of       *)
(* crates/ntsql-storage-file writes and reads it: a header and a sequence  *)
(* of checksummed frames.  A commit record is one frame, a page record a   *)
(* group of them (header, owner if it has one, data chunks); epoch         *)
(* allocations and durable-through markers are frames of their own.        *)
(***************************************************************************)
EXTENDS AppendFile

CONSTANT PageFrames     \* frames of a page record: 1 + ceil(page width / 8)

ASSUME PageFramesAssumption == PageFrames \in Nat \ {0, 1}

(* FileLogRecord: `by' is the epoch of the transaction, 0 for a page        *)
(* without one; one transaction of each epoch stands for all.               *)
LogRecords == [kind : {"Commit", "Page"}, at : Nat \ {0}, by : Nat]

(* The page of a transaction has an owner frame besides.                    *)
FramesIn(r) ==
    CASE r.kind = "Commit" -> 1
      [] r.kind = "Page" /\ r.by = 0 -> PageFrames
      [] r.kind = "Page" /\ r.by > 0 -> PageFrames + 1

RecordFrame(r, part) == [kind |-> "Record", record |-> r, part |-> part]
EpochFrame(e) == [kind |-> "EpochAllocation", value |-> e]
Marker(p) == [kind |-> "DurableThrough", value |-> p]

FramesOf(r) == [part \in 1 .. FramesIn(r) |-> RecordFrame(r, part)]

(* The header: retained_first and logical_high_water are 0 for None.        *)
EmptyFile == [generation |-> 0, first |-> 0, highWater |-> 0, epoch |-> 0,
              frames |-> <<>>, synced |-> 0]

----------------------------------------------------------------------------
(* Reading a file.                                                          *)

Before(indices, i) == {j \in indices : j < i}

(* The frames that complete a record.                                       *)
Ends(frames) ==
    {i \in Of(frames, "Record") : frames[i].part = FramesIn(frames[i].record)}

(* The n-th of them completes the n-th record.                              *)
NthEnd(frames, n) ==
    CHOOSE i \in Ends(frames) : Cardinality(Before(Ends(frames), i)) = n - 1

Records(frames) == [n \in 1 .. Cardinality(Ends(frames)) |-> frames[NthEnd(frames, n)].record]

(* initial_completed_position and initial_durable_position.                 *)
CompletedBeforeFirst(f) == IF f.first # 0 THEN f.first - 1 ELSE 0
CompletedBefore(f) == IF f.first # 0 THEN f.first - 1 ELSE f.highWater
DurableBefore(f) == IF f.first # 0 THEN 0 ELSE f.highWater

LastCompleted(f, frames) == CompletedBefore(f) + Cardinality(Ends(frames))

LastDurable(f, frames) ==
    Latest({DurableBefore(f)} \cup {frames[i].value : i \in Of(frames, "DurableThrough")})

DurableLen(f, frames) ==
    LET last == LastDurable(f, frames) IN
    Cardinality({i \in Ends(frames) : frames[i].record.at <= last})

AllocatedEpoch(f, frames) == f.epoch + Cardinality(Of(frames, "EpochAllocation"))

(* A page group is not interrupted by another frame.                        *)
GroupsContiguous(frames) ==
    \A i \in Of(frames, "Record") :
        LET r == frames[i].record part == frames[i].part IN
        /\ part > 1 => i > 1 /\ frames[i - 1] = RecordFrame(r, part - 1)
        /\ part < FramesIn(r) /\ i < Len(frames) => frames[i + 1] = RecordFrame(r, part + 1)

PositionsContiguous(f, frames) ==
    \A i \in Of(frames, "Record") :
        frames[i].record.at
            = CompletedBefore(f) + Cardinality(Before(Ends(frames), i)) + 1

EpochsContiguous(f, frames) ==
    \A i \in Of(frames, "EpochAllocation") :
        frames[i].value
            = f.epoch + Cardinality(Before(Of(frames, "EpochAllocation"), i)) + 1

(* The header of a page group does not name its owner yet.                  *)
OwnersAllocated(f, frames) ==
    \A i \in Of(frames, "Record") :
        frames[i].record.kind = "Commit" \/ frames[i].part > 1 =>
            frames[i].record.by
                <= f.epoch + Cardinality(Before(Of(frames, "EpochAllocation"), i))

CommitsOnce(frames) ==
    \A i, j \in Of(frames, "Record") :
        /\ frames[i].record.kind = "Commit"
        /\ frames[j].record.kind = "Commit"
        /\ frames[i].record.by = frames[j].record.by
        => i = j

MarkersAdvance(f, frames) ==
    \A i \in Of(frames, "DurableThrough") :
        /\ frames[i].value > DurableBefore(f)
        /\ \A j \in Before(Of(frames, "DurableThrough"), i) : frames[j].value < frames[i].value
        /\ \E j \in Before(Ends(frames), i) : frames[j].record.at = frames[i].value

(* The retained suffix begins and ends as the header says.                  *)
HeaderMet(f, frames) ==
    /\ LastCompleted(f, frames) >= f.highWater
    /\ LastDurable(f, frames) >= f.highWater
    /\ f.first # 0 => DurableLen(f, frames) > 0 /\ Head(Records(frames)).at = f.first

(* inspect_internal accepts the file.                                       *)
Accepted(f) ==
    LET frames == CompleteFrames(f) IN
    /\ Of(frames, "Malformed") = {}
    /\ GroupsContiguous(frames)
    /\ PositionsContiguous(f, frames)
    /\ EpochsContiguous(f, frames)
    /\ OwnersAllocated(f, frames)
    /\ CommitsOnce(frames)
    /\ MarkersAdvance(f, frames)
    /\ HeaderMet(f, frames)

(* The frames of an unfinished page group at the end of a file.             *)
NothingPending(frames) == 0

PendingLen(frames) ==
    IF frames # <<>> /\ frames[Len(frames)].kind = "Record"
    THEN LET last == frames[Len(frames)] IN
         IF last.part < FramesIn(last.record) THEN last.part ELSE 0
    ELSE 0

(* LockedFileCommitLogOpen::finish truncates it, and a torn frame.          *)
Repaired(f) ==
    LET frames == CompleteFrames(f) IN
    Synced([f EXCEPT !.frames = SubSeq(frames, 1, Len(frames) - PendingLen(frames))])

(* build_reclamation_frame_plan: the retained records and one marker.       *)
ReplacementFrames(records, highWater) ==
    LET plan[n \in 0 .. Len(records)] ==
            IF n = 0 THEN <<>> ELSE plan[n - 1] \o FramesOf(records[n])
    IN  IF records = <<>> THEN <<>> ELSE plan[Len(records)] \o <<Marker(highWater)>>
============================================================================
