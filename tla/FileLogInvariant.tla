-------------------------- MODULE FileLogInvariant --------------------------
(***************************************************************************)
(* The inductive invariant behind the promises of FileLogProperties: what  *)
(* interrupted calls and power losses leave in the files that the path may *)
(* name, what an open adapter knows of its file, and what the files hold   *)
(* of every transaction.                                                   *)
(***************************************************************************)
EXTENDS FileLogProperties

RecordFrames == {frame \in [kind : {"Record"}, record : LogRecords, part : Nat \ {0}] :
                    frame.part <= FramesIn(frame.record)}
EpochFrames == [kind : {"EpochAllocation"}, value : Nat]
MarkerFrames == [kind : {"DurableThrough"}, value : Nat]
Frames == RecordFrames \cup EpochFrames \cup MarkerFrames \cup {Torn, Malformed}

Files == [generation : Nat, first : Nat, highWater : Nat, epoch : Nat,
          frames : Seq(Frames), synced : Nat]

\* The files that the path names or may name again.
Named == {selected} \cup former

\* The variables have the types of the Rust fields.
TypeInv ==
    /\ Named \subseteq Files
    /\ \A file \in Named : file.synced <= Len(file.frames)
    /\ candidate \in BOOLEAN /\ opened \in BOOLEAN /\ poisoned \in BOOLEAN
    /\ records \in Seq(LogRecords)
    /\ durableLen \in Nat /\ nextEpoch \in Nat /\ nextPosition \in Nat
    /\ generation \in Nat /\ reclaimedHighWater \in Nat
    /\ lifecycle \in [Epochs -> Lifecycles]
    /\ handedOut \in Seq(Nat)
    /\ reclaimed \subseteq Nat

----------------------------------------------------------------------------
\* Part of a frame is only found at the end of a file.
TornIsLast(frames) ==
    \A i \in 1 .. Len(frames) : frames[i].kind = "Torn" => i = Len(frames)

\* What every prefix of a file that an open accepts has too.
Sound(f, frames) ==
    /\ GroupsContiguous(frames)
    /\ PositionsContiguous(f, frames)
    /\ EpochsContiguous(f, frames)
    /\ OwnersAllocated(f, frames)
    /\ CommitsOnce(frames)
    /\ MarkersAdvance(f, frames)

\* What Sound says at one frame; the frames after it do not matter.
GroupAt(s, i) ==
    /\ (s[i].kind = "Record" /\ s[i].part > 1) =>
         (i > 1 /\ s[i - 1] = RecordFrame(s[i].record, s[i].part - 1))
    /\ (i > 1 /\ s[i - 1].kind = "Record" /\ s[i - 1].part < FramesIn(s[i - 1].record)) =>
         s[i] = RecordFrame(s[i - 1].record, s[i - 1].part + 1)

PositionAt(f, s, i) ==
    s[i].kind = "Record" =>
        s[i].record.at = CompletedBefore(f) + Cardinality(Before(Ends(s), i)) + 1

EpochAt(f, s, i) ==
    s[i].kind = "EpochAllocation" =>
        s[i].value = f.epoch + Cardinality(Before(Of(s, "EpochAllocation"), i)) + 1

OwnerAt(f, s, i) ==
    (s[i].kind = "Record" /\ (s[i].record.kind = "Commit" \/ s[i].part > 1)) =>
        s[i].record.by <= f.epoch + Cardinality(Before(Of(s, "EpochAllocation"), i))

CommitAt(s, i) ==
    (s[i].kind = "Record" /\ s[i].record.kind = "Commit") =>
        \A j \in Before(Of(s, "Record"), i) :
            ~(s[j].record.kind = "Commit" /\ s[j].record.by = s[i].record.by)

MarkerAt(f, s, i) ==
    s[i].kind = "DurableThrough" =>
        /\ s[i].value > DurableBefore(f)
        /\ \A j \in Before(Of(s, "DurableThrough"), i) : s[j].value < s[i].value
        /\ \E j \in Before(Ends(s), i) : s[j].record.at = s[i].value

SoundAt(f, s, i) ==
    /\ GroupAt(s, i) /\ PositionAt(f, s, i) /\ EpochAt(f, s, i)
    /\ OwnerAt(f, s, i) /\ CommitAt(s, i) /\ MarkerAt(f, s, i)

\* The part of a file that no power loss takes away.
Sure(f) == SureFrames(f, Readable(f))

FileSound(f) ==
    /\ TornIsLast(f.frames)
    /\ Sound(f, Readable(f))
    /\ HeaderMet(f, Sure(f))

\* Only a power loss leaves a frame that cannot be read, and then the log is never opened.
Lost(f) == Of(f.frames, "Malformed") # {}

FileInv ==
    /\ \A file \in Named : FileSound(file)
    /\ Lost(selected) => ~opened /\ former = {} /\ selected.synced = Len(selected.frames)
    /\ \A file \in former : ~Lost(file)

----------------------------------------------------------------------------
(* What an adapter that is open and not poisoned knows.                     *)

\* Only records that are volatile are not permanent.
VolatileUnsynced(f) ==
    \A i \in 1 .. Len(f.frames) :
        i > f.synced => f.frames[i].kind = "Record"
                        /\ f.frames[i].record.at > LastDurable(f, f.frames)

MemoryKnows ==
    /\ records = Records(selected.frames)
    /\ durableLen = DurableLen(selected, selected.frames)
    /\ nextEpoch = AllocatedEpoch(selected, selected.frames) + 1
    /\ nextPosition = LastCompleted(selected, selected.frames) + 1
    /\ generation = selected.generation
    /\ reclaimedHighWater = selected.highWater

HealthyInv ==
    Usable =>
        /\ UnsyncedRenameOpens \/ former = {}
        /\ ~EndsTorn(selected.frames) /\ PendingLen(selected.frames) = 0
        /\ VolatileUnsynced(selected)
        /\ MemoryKnows

ClosedInv == ~opened => ~poisoned

----------------------------------------------------------------------------
(* Transactions                                                             *)

CommitFrames(frames, by) ==
    {i \in Of(frames, "Record") : frames[i].record.kind = "Commit" /\ frames[i].record.by = by}

\* The record of its commit is in the file for good.
CommittedIn(f, by) ==
    \E i \in CommitFrames(Sure(f), by) : Sure(f)[i].record.at <= LastDurable(f, Sure(f))

\* A transaction that may still commit owns an epoch of the file and has not yet.
ActiveInv ==
    \A by \in Epochs :
        lifecycle[by] = "Active" =>
            /\ CommitFrames(selected.frames, by) = {}
            /\ by <= AllocatedEpoch(selected, Sure(selected))

\* What a step that no assumption about the directory restricts relies on.
BaseInv ==
    /\ TypeInv
    /\ FileInv
    /\ HealthyInv
    /\ ClosedInv
    /\ ActiveInv

----------------------------------------------------------------------------
(* What lasts from one power loss to the next, when a renamed file is only  *)
(* opened after the directory has been synchronized.                        *)

\* An epoch that was handed out is allocated in every file, for good.
EpochInv ==
    /\ \A file \in Named :
         /\ \A i \in DOMAIN handedOut : handedOut[i] <= AllocatedEpoch(file, Sure(file))
         /\ \A by \in Epochs :
              lifecycle[by] # "NotIssued" => by <= AllocatedEpoch(file, Sure(file))
    /\ EpochsNeverReissued

\* No file has a commit record of these.
Uncommitted == {"NotIssued", "Active", "PageAppendIndeterminate", "NoDurableCommitRecord"}

VerdictInv ==
    \A by \in Epochs :
        /\ lifecycle[by] \in Uncommitted =>
             \A file \in Named : CommitFrames(file.frames, by) = {}
        /\ lifecycle[by] = "Committed" =>
             by \in reclaimed \/ \A file \in Named : CommittedIn(file, by)

\* What a file holds, and for certain.
ContentOf(f) ==
    Split(Records(Readable(f)), DurableLen(f, Sure(f)))

\* The file before a reclamation held all of the file after it, durable.
FormerInv ==
    \A old \in former :
        /\ former = {old}
        /\ ContentOf(old).volatile = <<>> /\ ContentOf(selected).volatile = <<>>
        /\ AsDurableLog!IsSuffix(ContentOf(selected).durable, ContentOf(old).durable)

LineageInv ==
    /\ EpochInv
    /\ VerdictInv
    /\ FormerInv

IInv ==
    /\ BaseInv
    /\ UnsyncedRenameOpens \/ LineageInv
============================================================================
