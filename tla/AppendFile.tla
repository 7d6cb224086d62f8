----------------------------- MODULE AppendFile -----------------------------
(***************************************************************************)
(* A file that the storage adapters of crates/ntsql-storage-file append    *)
(* checksummed frames to.  A file is what the running system reads back,   *)
(* with the number of its frames that a sync_all has made permanent.  A    *)
(* power loss keeps those and any choice of the others: a frame that is    *)
(* lost before one that is kept reads back as Malformed, since its         *)
(* checksum fails, and the last bytes of a file may be part of a frame,    *)
(* Torn.                                                                   *)
(***************************************************************************)
EXTENDS Integers, Sequences, FiniteSets, Extrema

Torn == [kind |-> "Torn"]
Malformed == [kind |-> "Malformed"]

Synced(f) == [f EXCEPT !.synced = Len(f.frames)]

Extended(f, frames) == [f EXCEPT !.frames = @ \o frames]

(* A write that fails leaves a proper prefix of the bytes it was to write.  *)
Interrupted(f, frames) ==
    {Extended(f, SubSeq(frames, 1, n) \o end) :
        n \in 0 .. Len(frames) - 1, end \in {<<>>, <<Torn>>}}

(* What may be on disk after a power loss.                                  *)
AfterPowerLoss(f) ==
    LET Image(kept) ==
            LET length == Latest(kept \cup {f.synced}) IN
            [i \in 1 .. length |->
                IF i <= f.synced \/ i \in kept THEN f.frames[i] ELSE Malformed]
        Tails(frames) == IF Len(frames) < Len(f.frames) THEN {<<>>, <<Torn>>} ELSE {<<>>}
    IN  UNION {{Synced([f EXCEPT !.frames = Image(kept) \o tail]) : tail \in Tails(Image(kept))}
                : kept \in SUBSET (f.synced + 1 .. Len(f.frames))}

(* The frames that are complete: all but a torn end.                        *)
EndsTorn(frames) == frames # <<>> /\ frames[Len(frames)].kind = "Torn"

CompleteFrames(f) ==
    IF EndsTorn(f.frames) THEN SubSeq(f.frames, 1, Len(f.frames) - 1) ELSE f.frames

Of(frames, kind) == {i \in DOMAIN frames : frames[i].kind = kind}

(* For properties: the frames up to the first that did not survive.         *)
Readable(f) ==
    LET frames == CompleteFrames(f)
        lost == Of(frames, "Malformed")
    IN  SubSeq(frames, 1, IF lost = {} THEN Len(frames) ELSE Earliest(lost) - 1)
=============================================================================
