----------------------- MODULE FilePageStoreProperties -----------------------
(***************************************************************************)
(* What the file page store promises to page flushes and to recovery.      *)
(***************************************************************************)
EXTENDS FilePageStore

(* The snapshots that the disk holds for certain, and those that it may be  *)
(* found to hold, whatever survives of an unfinished or unsynchronized      *)
(* group.                                                                   *)
Certain == Readable([file EXCEPT !.frames = SubSeq(@, 1, file.synced)])

Images ==
    LET Both == {<<Certain, Readable(file)>>} IN
    CHOOSE images \in
        {[shown |-> s[1], possible |-> {s[1], s[2]}]
         : s \in {<<Snapshots(f[1]), Snapshots(f[2])>> : f \in Both}} : TRUE

AsPageImages == INSTANCE PageImages WITH store <- Images

(* Through partial groups, failed syncs, poison, drops, repairs and power   *)
(* losses a page shows the last snapshot that was reported written, or a    *)
(* whole later one whose write failed: never a part of one, and never an    *)
(* earlier one (ADR 0018: "Ok(()) means the complete group is durable").    *)
ImplementsPageImages == AsPageImages!Spec

(* A store that is open and not poisoned agrees with its file, so that the  *)
(* recovery of the next open sees what this one showed; and whatever is     *)
(* left by failures, the file opens again unless a power loss took a frame  *)
(* before one that it kept.                                                 *)
StoreMatchesFile ==
    /\ Of(file.frames, "Malformed") = {} => Accepted(file)
    /\ owner # "Nobody" /\ ~poisoned =>
           /\ file = Repaired(file)
           /\ pages = Snapshots(file.frames)
           /\ nextSequence = Cardinality(Ends(file.frames)) + 1

(* A recovery that is driven on, with the store opened again after a write  *)
(* that failed half-way, ends with every page at its last committed image,  *)
(* whatever a late flush showed before.  It cannot when the file refuses to *)
(* open, or when the store sequence is used up.                             *)
Unreadable == Of(file.frames, "Malformed") # {}
SequenceExhausted == Cardinality(Ends(file.frames)) = MaxSequence

RecoveryInstallsAll ==
    owner # "Live" ~>
        \/ owner = "Live" /\ pages = durable
        \/ Unreadable
        \/ SequenceExhausted
==============================================================================
