----------------------- MODULE FilePageStoreInvariant -----------------------
(***************************************************************************)
(* The inductive invariant behind the promises of FilePageStoreProperties: *)
(* what any interrupted call leaves in the file, and what an open store    *)
(* knows of it.                                                            *)
(***************************************************************************)
EXTENDS FilePageStoreProperties

SnapshotFrames ==
    [kind : {"Snapshot"}, page : Pages, at : Nat, sequence : Nat, part : 1 .. GroupFrames]

Frames == SnapshotFrames \cup {Torn, Malformed}

\* The variables have the types of the Rust fields.
TypeInv ==
    /\ durable \in [Pages -> 0 .. MaxPosition]
    /\ dirty \subseteq [page : Pages, at : Nat]
    /\ file \in [frames : Seq(Frames), synced : Nat]
    /\ file.synced <= Len(file.frames)
    /\ owner \in {"Nobody", "Recovery", "Live"}
    /\ pages \in [Pages -> Nat]
    /\ nextSequence \in Nat
    /\ poisoned \in BOOLEAN
    /\ faults \in Nat

\* Part of a frame is only found at the end of a file.
TornIsLast(frames) ==
    \A i \in 1 .. Len(frames) : frames[i].kind = "Torn" => i = Len(frames)

Lost(frames) == \E i \in 1 .. Len(frames) : frames[i].kind = "Malformed"

\* Each frame follows the one before it, and the groups are numbered.
Chained(frames) ==
    \A i \in 1 .. Len(frames) :
        Follows(frames[i], IF i = 1 THEN Nothing ELSE frames[i - 1])

Numbered(frames) ==
    \A i \in Ends(frames) : frames[i].sequence = Cardinality({j \in Ends(frames) : j <= i})

Sound(frames) == Chained(frames) /\ Numbered(frames)

\* Only a power loss leaves a frame that cannot be read, and then the store is never opened.
FileInv ==
    /\ TornIsLast(file.frames)
    /\ ~Lost(file.frames) => Sound(CompleteFrames(file))
    /\ Lost(file.frames) => owner = "Nobody" /\ file.synced = Len(file.frames)

\* At most one group is not permanent, the last one.
OneGroupUnsynced ==
    \A i \in Ends(CompleteFrames(file)) :
        i <= file.synced \/ i = Len(CompleteFrames(file))

\* What an open store that was not poisoned knows.
Healthy == owner # "Nobody" /\ ~poisoned

HealthyInv ==
    Healthy =>
        /\ file.synced = Len(file.frames)
        /\ ~EndsTorn(file.frames)
        /\ Latest(Ends(file.frames)) = Len(file.frames)
        /\ pages = Snapshots(file.frames)
        /\ nextSequence = Cardinality(Ends(file.frames)) + 1

ClosedInv == owner = "Nobody" => ~poisoned

IInv == TypeInv /\ FileInv /\ OneGroupUnsynced /\ HealthyInv /\ ClosedInv
=============================================================================
