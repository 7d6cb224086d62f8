------------------------ MODULE DatabaseFilesInvariant ------------------------
(***************************************************************************)
(* The inductive invariant behind the promises of DatabaseFilesProperties: *)
(* the shapes that a directory takes, what the holder of the owner lock    *)
(* knows of it at each stage, and what an owner that is not locked yet     *)
(* leaves to others.                                                       *)
(***************************************************************************)
EXTENDS DatabaseFilesProperties

Places == {"absent", "candidate", "selected"}
Dirs == [Objects -> Places]
Bytes == {"empty", "written", "synced"}

SlotType ==
    [current : Int, whole : BOOLEAN, images : SUBSET Int, candidate : Int, synced : BOOLEAN]

CreateStages ==
    {"observed", "ownerCreated", "ownerLocked", "ownerWritten", "owner", "creating",
     "objectCreated", "objectWritten", "objectPublished", "published"}
OpenStages == {"inspected", "selected", "repaired", "recoveryRequired"}
Stages ==
    {"idle", "closed", "failed"} \cup CreateStages \cup OpenStages \cup PreparingClose
        \cup Publishing

Reported ==
    {"none", "SourceSelected", "SelectionIndeterminate",
     "TargetSelectedDurabilityIndeterminate", "TargetDurable"}

\* The directory, its bytes and the processes have their types.
TypeInv ==
    /\ disk \subseteq Dirs /\ where \in disk
    /\ content \in [Objects -> Bytes]
    /\ slot \in SlotType
    /\ certificate \in Int /\ frontier \in Nat /\ used \in BOOLEAN
    /\ lock \in Processes \cup {Nobody}
    /\ stage \in [Processes -> Stages]
    /\ phase \in [Processes -> 0 .. Published + 1]
    /\ item \in [Processes -> 1 .. Len(Effects) + 1]
    /\ report \in Reported
    /\ faults \in Nat

\* The owner lock is held exactly from its acquisition to the return of the call.
Unlocked == {"idle", "observed", "ownerCreated"}
LockInv == \A p \in Processes : lock = p <=> stage[p] \notin Unlocked

\* Only the holder of the lock has a failed close to report.
ReportInv == report # "none" => \E p \in Processes : lock = p /\ stage[p] = "failed"

-------------------------------------------------------------------------------
(* The shapes of a directory *)

\* What creation leaves after phase n, before the manifest is selected.
Unpublished(n) ==
    [o \in Objects |->
        CASE o = "owner" -> Namespaces[n + 1][1]
          [] o = "source" -> Namespaces[n + 1][2]
          [] o = "wal" -> Namespaces[n + 1][3]
          [] o = "pages" -> Namespaces[n + 1][4]
          [] o = "checkpoint" -> Namespaces[n + 1][5]
          [] OTHER -> "absent"]

\* Everything but the slot is settled, and one manifest is selected.
Opened(dir) ==
    /\ \A o \in Children \cup {"owner"} : dir[o] = "selected"
    /\ dir["cleanSlot"] # "candidate"
    /\ \/ dir["source"] = "selected" /\ dir["target"] # "selected"
       \/ dir["source"] = "absent" /\ dir["target"] = "selected"

Shaped(dir) == Opened(dir) \/ \E n \in 0 .. Published - 1 : dir = Unpublished(n)
DirInv == \A dir \in disk : Shaped(dir)

\* The effects of creation before the n-th are in the directory, the others not.
AtPhase(dir, n) ==
    IF n = Published THEN Opened(dir) /\ dir["source"] = "selected" ELSE dir = Unpublished(n)

-------------------------------------------------------------------------------
(* The owner file *)

\* A process that created the owner and has not written it: nothing happens to
\* the directory meanwhile, whoever holds the lock.
OwnerInv ==
    /\ where["owner"] = "absent" => disk = {where} /\ content["owner"] = "empty"
    /\ \A p \in Processes : stage[p] \in {"ownerCreated", "ownerLocked"} =>
        /\ content["owner"] = "empty"
        /\ where = Unpublished(1) /\ disk \subseteq {Unpublished(0), Unpublished(1)}
        /\ \A q \in Processes \ {p} : stage[q] \notin {"ownerCreated", "ownerLocked"}

-------------------------------------------------------------------------------
(* What the holder of the lock knows *)

\* The bytes of what creation has been through are synchronized.
Prepared(p) ==
    /\ content["owner"] = "synced"
    /\ \A i \in 1 .. 4 : i < item[p] => content[Effects[i]] = "synced"

Creating(p) ==
    /\ phase[p] \in 1 .. Published - 1
    /\ disk = {where}
    /\ AtPhase(where, IF Undone(p) THEN item[p] ELSE phase[p])
    /\ Prepared(p)

PreparingObject(p) ==
    /\ phase[p] \in 1 .. Published - 1 /\ item[p] \in 1 .. 4 /\ Undone(p)
    /\ where = Unpublished(item[p] + 1)
    /\ disk \subseteq {Unpublished(item[p]), Unpublished(item[p] + 1)}
    /\ Prepared(p)

PublishingObject(p) ==
    /\ phase[p] \in 1 .. Published - 1 /\ item[p] \in 5 .. Len(Effects) /\ Undone(p)
    /\ AtPhase(where, item[p] + 1)
    /\ Prepared(p)

UnderSource == \A dir \in disk : Selected(dir) = "source"
SlotEntered == \A dir \in disk : dir["cleanSlot"] = "selected"

CreateHeld(p) ==
    /\ where["owner"] = "selected"
    /\ stage[p] \notin {"ownerLocked", "owner"} => content["owner"] # "empty"
    /\ stage[p] = "creating" => Creating(p)
    /\ stage[p] \in {"objectCreated", "objectWritten"} => PreparingObject(p)
    /\ stage[p] = "objectPublished" => PublishingObject(p)

OpenHeld(p) ==
    /\ stage[p] \in {"inspected", "selected", "repaired"} => Selected(where) # "none"
    /\ stage[p] \in {"selected", "repaired", "recoveryRequired"} => disk = {where}
    /\ stage[p] \in {"recoveryRequired"} \cup PreparingClose \cup BeforeReplacement => UnderSource

SlotHeld(p) ==
    /\ stage[p] = "live" /\ where["cleanSlot"] = "selected" => SlotEntered
    /\ stage[p] \in {"slotCreated", "slotWritten"} => where["cleanSlot"] = "selected"
    /\ stage[p] \in (PreparingClose \ {"live", "slotCreated", "slotWritten"}) \cup BeforeReplacement =>
        SlotEntered
    /\ stage[p] = "slotSynced" => slot.synced
    /\ stage[p] = "slotReplaced" => slot.whole
    /\ stage[p] = "slotPublished" => slot.images = {slot.current}
    /\ stage[p] \in BeforeReplacement => slot.images = {frontier}

TargetHeld(p) ==
    /\ stage[p] \in {"targetWritten", "targetSynced"} => certificate = frontier
    /\ stage[p] = "targetSynced" => content["target"] = "synced"
    /\ stage[p] \in {"targetSelected", "targetDurable"} => Selected(where) = "target"
    /\ stage[p] = "targetDurable" => disk = {where}

Held(p) == CreateHeld(p) /\ OpenHeld(p) /\ SlotHeld(p) /\ TargetHeld(p)
HeldInv == \A p \in Processes : lock = p => Held(p)

IInv ==
    /\ TypeInv /\ LockInv /\ ReportInv /\ DirInv /\ OwnerInv /\ HeldInv
    /\ SelectionIsComplete /\ CleanManifestCertified
================================================================================
