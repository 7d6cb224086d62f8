----------------------------- MODULE DatabaseFiles -----------------------------
(***************************************************************************)
(* A filesystem database: creation, opening, recovery and clean close, as  *)
(* ntsql-storage-file/src/database_ownership.rs and ntsql-database/src/    *)
(* lib.rs drive the entries of one directory, by several processes that    *)
(* may be killed, fail or lose power between any two effects.              *)
(*                                                                         *)
(* `where` is the directory: an object is absent, at its candidate name or *)
(* at its selected name.  The source manifest (recovery required, V1) and  *)
(* the target manifest (clean, V2) share the selected name.  `disk` holds  *)
(* the directories a power loss may leave: an entry operation is in them   *)
(* or not until the directory is synchronized.  `content` says whether the *)
(* bytes of an object are there and whether sync_all covered them.         *)
(*                                                                         *)
(* Left out: identities, path aliases, format versions and the children's  *)
(* own locks, which the owner lock makes uncontended.  A call that fails   *)
(* before it owns anything durable returns to "idle".                      *)
(* Bounds: MaxFrontier committed changes, MaxFaults faults.                *)
(***************************************************************************)
EXTENDS CheckpointSlot, Sequences, FiniteSetsExt

CONSTANTS Processes, MaxFrontier, MaxFaults, Nobody

ASSUME ProcessesAssumption == Nobody \notin Processes
ASSUME FilesBounds == MaxFrontier \in Nat /\ MaxFaults \in Nat

Children == {"wal", "pages", "checkpoint"}
Objects == {"owner", "source", "target", "cleanSlot"} \cup Children

VARIABLES
    where, content, disk,     \* the directory, the bytes, what may be left of it
    slot,                     \* the clean-close checkpoint slot
    certificate,              \* the frontier that the target manifest certifies
    frontier, used,           \* committed changes; recovery ran on the children
    lock, stage,              \* holder of the owner lock; where each process is
    phase, item,              \* what creation found, and its next effect
    report,                   \* what the failed close of the lock's holder reported
    faults

files == <<where, content, disk>>
clean == <<slot, certificate>>
data == <<frontier, used>>
creating == <<phase, item>>
vars == <<where, content, disk, slot, certificate, frontier, used, lock, stage,
          phase, item, report, faults>>

Init ==
    /\ where = [o \in Objects |-> "absent"]
    /\ content = [o \in Objects |-> "empty"]
    /\ disk = {where}
    /\ slot = EmptySlot
    /\ certificate = Missing
    /\ frontier = 0 /\ used = FALSE
    /\ lock = Nobody
    /\ stage = [p \in Processes |-> "idle"]
    /\ phase = [p \in Processes |-> 0]
    /\ item = [p \in Processes |-> 1]
    /\ report = "none"
    /\ faults = 0

-------------------------------------------------------------------------------
(* The directory *)

\* An entry operation moves objects now, and on disk now or later.
Moved(dir, moves) == [o \in Objects |-> IF o \in DOMAIN moves THEN moves[o] ELSE dir[o]]

Placed(object, place) == [o \in {object} |-> place]

Enter(moves) ==
    /\ where' = Moved(where, moves)
    /\ disk' = disk \cup {Moved(dir, moves) : dir \in disk}

\* The containing directory is synchronized.
DirectorySynced == disk' = {where}

\* The manifest under the selected name.
Selected(dir) ==
    IF dir["target"] = "selected" THEN "target"
    ELSE IF dir["source"] = "selected" THEN "source" ELSE "none"

ManifestPlace(dir) == IF Selected(dir) = "none" THEN dir["source"] ELSE "selected"

\* The entries creation looks at, in each of its phases.
Namespaces ==
    LET A == "absent" C == "candidate" S == "selected" IN
    << <<A, A, A, A, A>>, <<S, A, A, A, A>>, <<S, C, A, A, A>>, <<S, C, C, A, A>>,
       <<S, C, C, C, A>>, <<S, C, C, C, C>>, <<S, C, S, C, C>>, <<S, C, S, S, C>>,
       <<S, C, S, S, S>>, <<S, S, S, S, S>> >>

Published == 9

Phases(dir) ==
    {n \in 0..Published : Namespaces[n + 1] =
        <<dir["owner"], ManifestPlace(dir), dir["wal"], dir["pages"], dir["checkpoint"]>>}

-------------------------------------------------------------------------------
(* Processes *)

Goto(p, s) == stage' = [stage EXCEPT ![p] = s]

Step(p, from, to) == stage[p] = from /\ Goto(p, to) /\ UNCHANGED lock

Forgotten(p) ==
    /\ phase' = [phase EXCEPT ![p] = 0]
    /\ item' = [item EXCEPT ![p] = 1]

\* The call returns and drops its files, and with them its lock.
Released(p) ==
    /\ Goto(p, "idle")
    /\ lock' = IF lock = p THEN Nobody ELSE lock
    /\ report' = IF lock = p THEN "none" ELSE report
    /\ Forgotten(p)

Return(p) == Released(p) /\ UNCHANGED <<files, clean, data, faults>>

-------------------------------------------------------------------------------
(* create_file_database: the owner file *)

ObserveNamespace(p) ==
    /\ Step(p, "idle", "observed")
    /\ phase' = [phase EXCEPT ![p] = IF Phases(where) = {} THEN Published + 1 ELSE Min(Phases(where))]
    /\ UNCHANGED <<files, clean, data, item, report, faults>>

CreateOwner(p) ==
    /\ phase[p] = 0 /\ where["owner"] = "absent"
    /\ Step(p, "observed", "ownerCreated")
    /\ Enter(Placed("owner", "selected"))
    /\ UNCHANGED <<content, clean, data, creating, report, faults>>

\* create_new and the lock are two calls: another process may come between.
LockCreatedOwner(p) ==
    /\ stage[p] = "ownerCreated" /\ lock = Nobody
    /\ lock' = p
    /\ Goto(p, "ownerLocked")
    /\ UNCHANGED <<files, clean, data, creating, report, faults>>

WriteOwner(p) ==
    /\ Step(p, "ownerLocked", "ownerWritten")
    /\ content' = [content EXCEPT !["owner"] = "written"]
    /\ UNCHANGED <<where, disk, clean, data, creating, report, faults>>

SyncOwner(p) ==
    /\ Step(p, "ownerWritten", "owner")
    /\ content' = [content EXCEPT !["owner"] = "synced"]
    /\ DirectorySynced
    /\ UNCHANGED <<where, clean, data, creating, report, faults>>

OpenOwner(p) ==
    /\ stage[p] = "observed" /\ phase[p] \in 1..Published
    /\ where["owner"] = "selected" /\ lock = Nobody
    /\ lock' = p
    /\ Goto(p, "owner")
    /\ UNCHANGED <<files, clean, data, creating, report, faults>>

\* The owner must be whole; it is synchronized, and the directory observed again.
OwnerReadable == content["owner"] # "empty"

ResumeCreate(p) ==
    /\ stage[p] = "owner" /\ OwnerReadable /\ Phases(where) \ {0} # {}
    /\ content' = [content EXCEPT !["owner"] = "synced"]
    /\ DirectorySynced
    /\ phase' = [phase EXCEPT ![p] = Min(Phases(where))]
    /\ item' = [item EXCEPT ![p] = 1]
    /\ Step(p, "owner", IF phase'[p] = Published THEN "published" ELSE "creating")
    /\ UNCHANGED <<where, clean, data, report, faults>>

CreateRefused(p) ==
    /\ \/ stage[p] = "observed" /\ phase[p] > Published
       \/ stage[p] = "observed" /\ phase[p] = 0 /\ where["owner"] # "absent"
       \/ stage[p] = "observed" /\ phase[p] > 0 /\ (where["owner"] = "absent" \/ lock # Nobody)
       \/ stage[p] = "ownerCreated" /\ lock # Nobody
       \/ stage[p] = "owner" /\ (~OwnerReadable \/ Phases(where) \ {0} = {})
    /\ Return(p)

-------------------------------------------------------------------------------
(* create_file_database: candidates, then publication with the manifest last *)

\* Defect: the manifest is published before the children.
EffectsManifestFirst ==
    <<"source", "wal", "pages", "checkpoint", "source", "wal", "pages", "checkpoint">>

Effects == <<"source", "wal", "pages", "checkpoint", "wal", "pages", "checkpoint", "source">>

Prepares(i) == i <= 4

\* Defect: a retry takes the candidate it still has to create for present.
MissingAfter(p) == phase[p] < item[p]

\* Creation found the effect undone.
Undone(p) == phase[p] <= item[p]

Current(p) == Effects[item[p]]

NextItem(p) == item' = [item EXCEPT ![p] = @ + 1]

CreateObject(p) ==
    /\ item[p] <= Len(Effects) /\ Prepares(item[p]) /\ Undone(p)
    /\ where[Current(p)] = "absent"
    /\ Step(p, "creating", "objectCreated")
    /\ Enter(Placed(Current(p), "candidate"))
    /\ UNCHANGED <<content, clean, data, creating, report, faults>>

WriteObject(p) ==
    /\ Step(p, "objectCreated", "objectWritten")
    /\ content' = [content EXCEPT ![Current(p)] = "written"]
    /\ UNCHANGED <<where, disk, clean, data, creating, report, faults>>

SyncObject(p) ==
    /\ Step(p, "objectWritten", "creating")
    /\ content' = [content EXCEPT ![Current(p)] = "synced"]
    /\ DirectorySynced
    /\ NextItem(p)
    /\ UNCHANGED <<where, clean, data, phase, report, faults>>

\* What an earlier attempt left is validated and synchronized again.
ReopenObject(p) ==
    /\ item[p] <= Len(Effects) /\ Prepares(item[p]) /\ ~Undone(p)
    /\ where[Current(p)] # "absent" /\ content[Current(p)] # "empty"
    /\ Step(p, "creating", "creating")
    /\ content' = [content EXCEPT ![Current(p)] = "synced"]
    /\ DirectorySynced
    /\ NextItem(p)
    /\ UNCHANGED <<where, clean, data, phase, report, faults>>

ObjectRefused(p) ==
    /\ stage[p] = "creating" /\ Prepares(item[p])
    /\ IF Undone(p) THEN where[Current(p)] # "absent"
       ELSE where[Current(p)] = "absent" \/ content[Current(p)] = "empty"
    /\ Return(p)

PublishObject(p) ==
    /\ item[p] <= Len(Effects) /\ ~Prepares(item[p]) /\ Undone(p)
    /\ where[Current(p)] = "candidate"
    /\ Step(p, "creating", "objectPublished")
    /\ Enter(Placed(Current(p), "selected"))
    /\ UNCHANGED <<content, clean, data, creating, report, faults>>

SyncPublished(p) ==
    /\ Step(p, "objectPublished", "creating")
    /\ DirectorySynced
    /\ NextItem(p)
    /\ UNCHANGED <<where, content, clean, data, phase, report, faults>>

PublishedBefore(p) ==
    /\ item[p] <= Len(Effects) /\ ~Prepares(item[p]) /\ ~Undone(p)
    /\ Step(p, "creating", "creating")
    /\ NextItem(p)
    /\ UNCHANGED <<files, clean, data, phase, report, faults>>

BindCreated(p) ==
    /\ item[p] > Len(Effects)
    /\ Step(p, "creating", "recoveryRequired")
    /\ Forgotten(p)
    /\ UNCHANGED <<files, clean, data, report, faults>>

-------------------------------------------------------------------------------
(* Opening a published database *)

\* Everything that a selection needs is there and readable.
Whole(dir, objects) == \A o \in objects : dir[o] = "selected" /\ content[o] # "empty"

SelectedWhole == Whole(where, Children \cup {"owner", Selected(where)})

ContentSynced(objects) ==
    content' = [o \in Objects |-> IF o \in objects THEN "synced" ELSE content[o]]

\* create_file_database finds its own database: unused, and synchronized again.
OpenPublished(p) ==
    /\ stage[p] = "published" /\ Selected(where) = "source" /\ SelectedWhole /\ ~used
    /\ ContentSynced(Children \cup {"source"})
    /\ DirectorySynced
    /\ Step(p, "published", "recoveryRequired")
    /\ Forgotten(p)
    /\ UNCHANGED <<where, clean, data, report, faults>>

PublishedRefused(p) ==
    /\ stage[p] = "published"
    /\ Selected(where) # "source" \/ ~SelectedWhole \/ used
    /\ Return(p)

\* acquire_file_database_ownership locks the owner and the manifest and inspects
\* the children, without changing a file.
Acquire(p) ==
    /\ stage[p] = "idle" /\ lock = Nobody
    /\ Selected(where) # "none" /\ SelectedWhole
    /\ lock' = p
    /\ Goto(p, "inspected")
    /\ UNCHANGED <<files, clean, data, creating, report, faults>>

\* Defect: only the manifest itself is synchronized.
SyncManifestOnly(p) ==
    /\ Step(p, "inspected", "selected")
    /\ ContentSynced({Selected(where)})
    /\ UNCHANGED <<where, disk, clean, data, creating, report, faults>>

SyncSelectedManifest(p) ==
    /\ Step(p, "inspected", "selected")
    /\ ContentSynced({Selected(where)})
    /\ DirectorySynced
    /\ UNCHANGED <<where, clean, data, creating, report, faults>>

\* The children's torn ends are cut off, under the selected manifest.
FinishChildren(p) ==
    /\ Step(p, "selected", "repaired")
    /\ ContentSynced(Children)
    /\ UNCHANGED <<where, disk, clean, data, creating, report, faults>>

BindSelected(p) ==
    /\ stage[p] = "repaired" /\ Selected(where) = "source"
    /\ Goto(p, "recoveryRequired")
    /\ UNCHANGED <<files, clean, data, lock, creating, report, faults>>

\* A clean manifest is refused: it has no owner until a reopen exists.
BindRefused(p) ==
    /\ stage[p] = "repaired" /\ Selected(where) = "target"
    /\ Return(p)

-------------------------------------------------------------------------------
(* Recovery and live work *)

CompleteRecovery(p) ==
    /\ Step(p, "recoveryRequired", "live")
    /\ used' = TRUE
    /\ UNCHANGED <<files, clean, frontier, creating, report, faults>>

CommitChange(p) ==
    /\ frontier < MaxFrontier
    /\ Step(p, "live", "live")
    /\ frontier' = frontier + 1
    /\ UNCHANGED <<files, clean, used, creating, report, faults>>

-------------------------------------------------------------------------------
(* prepare_close: the clean-close checkpoint goes to a slot of its own *)

CreateCleanSlot(p) ==
    /\ where["cleanSlot"] = "absent"
    /\ Step(p, "live", "slotCreated")
    /\ Enter(Placed("cleanSlot", "selected"))
    /\ slot' = EmptySlot
    /\ UNCHANGED <<content, certificate, data, creating, report, faults>>

WriteSlotControl(p) ==
    /\ Step(p, "slotCreated", "slotWritten")
    /\ content' = [content EXCEPT !["cleanSlot"] = "written"]
    /\ UNCHANGED <<where, disk, clean, data, creating, report, faults>>

SyncSlotControl(p) ==
    /\ Step(p, "slotWritten", "slotReady")
    /\ content' = [content EXCEPT !["cleanSlot"] = "synced"]
    /\ DirectorySynced
    /\ UNCHANGED <<where, clean, data, creating, report, faults>>

\* A slot that is there and has a readable control is used as it is.
OpenCleanSlot(p) ==
    /\ where["cleanSlot"] = "selected" /\ content["cleanSlot"] # "empty"
    /\ Step(p, "live", "slotReady")
    /\ UNCHANGED <<files, clean, data, creating, report, faults>>

\* One whose control is missing or does not decode is removed and made again.
ReconcileCleanSlot(p) ==
    /\ where["cleanSlot"] = "selected" /\ content["cleanSlot"] = "empty"
    /\ Step(p, "live", "live")
    /\ Enter(Placed("cleanSlot", "absent"))
    /\ slot' = EmptySlot
    /\ UNCHANGED <<content, certificate, data, creating, report, faults>>

SlotStep(p, from, to, after) ==
    /\ Step(p, from, to)
    /\ slot' = after
    /\ UNCHANGED <<files, certificate, data, creating, report, faults>>

PublishCleanCheckpoint(p) ==
    \/ SlotStep(p, "slotReady", "slotCleared", RemoveCandidate(slot))
    \/ Creatable(slot) /\ SlotStep(p, "slotCleared", "slotCandidate", CreateCandidate(slot))
    \/ SlotStep(p, "slotCandidate", "slotFilled", WriteCandidate(slot, frontier))
    \/ SlotStep(p, "slotFilled", "slotSynced", SyncCandidate(slot))
    \/ SlotStep(p, "slotSynced", "slotReplaced", ReplaceCurrent(slot))
    \/ SlotStep(p, "slotReplaced", "slotPublished", SyncDirectory(slot))

\* The checkpoint is loaded again and must be the current baseline.
BindClosePending(p) ==
    /\ slot.current = frontier
    /\ Step(p, "slotPublished", "closePending")
    /\ UNCHANGED <<files, clean, data, creating, report, faults>>

-------------------------------------------------------------------------------
(* close: publish_clean_manifest *)

RemoveManifestCandidate(p) ==
    /\ Step(p, "closePending", "targetCleared")
    /\ IF where["target"] = "candidate" THEN Enter(Placed("target", "absent"))
       ELSE UNCHANGED <<where, disk>>
    /\ content' = [content EXCEPT !["target"] = "empty"]
    /\ certificate' = Missing
    /\ UNCHANGED <<slot, data, creating, report, faults>>

CreateManifestCandidate(p) ==
    /\ where["target"] = "absent"
    /\ Step(p, "targetCleared", "targetCreated")
    /\ Enter(Placed("target", "candidate"))
    /\ UNCHANGED <<content, clean, data, creating, report, faults>>

WriteManifestCandidate(p) ==
    /\ Step(p, "targetCreated", "targetWritten")
    /\ content' = [content EXCEPT !["target"] = "written"]
    /\ certificate' = frontier
    /\ UNCHANGED <<where, disk, slot, data, creating, report, faults>>

\* Defect: the candidate is renamed unsynchronized.
SkipManifestSync(p) ==
    /\ Step(p, "targetWritten", "targetSynced")
    /\ UNCHANGED <<files, clean, data, creating, report, faults>>

SyncManifestCandidate(p) ==
    /\ Step(p, "targetWritten", "targetSynced")
    /\ content' = [content EXCEPT !["target"] = "synced"]
    /\ UNCHANGED <<where, disk, clean, data, creating, report, faults>>

TargetReplacesSource == [source |-> "absent", target |-> "selected"]

ReplaceManifest(p) ==
    /\ Step(p, "targetSynced", "targetSelected")
    /\ Enter(TargetReplacesSource)
    /\ UNCHANGED <<content, clean, data, creating, report, faults>>

SyncManifestDirectory(p) ==
    /\ Step(p, "targetSelected", "targetDurable")
    /\ DirectorySynced
    /\ UNCHANGED <<where, content, clean, data, creating, report, faults>>

Closed(p) ==
    /\ Step(p, "targetDurable", "closed")
    /\ UNCHANGED <<files, clean, data, creating, report, faults>>

-------------------------------------------------------------------------------
(* Failures *)

BeforeReplacement == {"closePending", "targetCleared", "targetCreated", "targetWritten", "targetSynced"}

Reports(p, state) ==
    /\ Goto(p, "failed")
    /\ report' = state
    /\ faults < MaxFaults /\ faults' = faults + 1
    /\ UNCHANGED <<content, clean, data, lock, creating>>

SourceReported(p) ==
    /\ stage[p] \in BeforeReplacement
    /\ Reports(p, "SourceSelected")
    /\ UNCHANGED <<where, disk>>

\* Defect: a failed rename is reported as one that did not happen.
ReplacementReportedUndone(p) ==
    /\ stage[p] = "targetSynced"
    /\ Reports(p, "SourceSelected")
    /\ Enter(TargetReplacesSource) \/ UNCHANGED <<where, disk>>

\* The rename failed, whether or not it took effect.
ReplacementReported(p) ==
    /\ stage[p] = "targetSynced"
    /\ Reports(p, "SelectionIndeterminate")
    /\ Enter(TargetReplacesSource) \/ UNCHANGED <<where, disk>>

\* Verification or synchronization failed after the rename.
SelectionReported(p) ==
    /\ stage[p] = "targetSelected"
    /\ Reports(p, "TargetSelectedDurabilityIndeterminate")
    /\ DirectorySynced \/ UNCHANGED disk
    /\ UNCHANGED where

DurabilityReported(p) ==
    /\ stage[p] = "targetDurable"
    /\ Reports(p, "TargetDurable")
    /\ UNCHANGED <<where, disk>>

CloseFails(p) ==
    SourceReported(p) \/ ReplacementReported(p) \/ SelectionReported(p) \/ DurabilityReported(p)

\* Every owner may be dropped or abandoned; nothing but its locks goes with it.
Drop(p) ==
    /\ stage[p] \in {"recoveryRequired", "live", "closePending", "closed", "failed"}
    /\ Return(p)

\* A call fails between two effects, or its process is killed.
Stop(p) ==
    /\ stage[p] # "idle"
    /\ Released(p)
    /\ faults < MaxFaults /\ faults' = faults + 1
    /\ UNCHANGED <<files, clean, data>>

\* Power fails: the directory is one of those on disk, unsynchronized bytes are
\* there or lost.
PowerLoss ==
    /\ faults < MaxFaults /\ faults' = faults + 1
    /\ \E dir \in disk, lost \in SUBSET {o \in Objects : content[o] = "written"} :
        /\ where' = dir
        /\ disk' = {dir}
        /\ content' = [o \in Objects |->
                          IF dir[o] = "absent" \/ o \in lost \/ content[o] = "empty"
                          THEN "empty" ELSE "synced"]
    /\ \E left \in AfterPowerLoss(slot) :
        slot' = IF where'["cleanSlot"] = "selected" THEN left ELSE EmptySlot
    /\ stage' = [p \in Processes |-> "idle"]
    /\ lock' = Nobody
    /\ report' = "none"
    /\ phase' = [p \in Processes |-> 0]
    /\ item' = [p \in Processes |-> 1]
    /\ UNCHANGED <<certificate, data>>

-------------------------------------------------------------------------------
CreateStep(p) ==
    \/ ObserveNamespace(p) \/ CreateOwner(p) \/ LockCreatedOwner(p) \/ WriteOwner(p)
    \/ SyncOwner(p) \/ OpenOwner(p) \/ ResumeCreate(p) \/ CreateRefused(p)
    \/ CreateObject(p) \/ WriteObject(p) \/ SyncObject(p) \/ ReopenObject(p)
    \/ ObjectRefused(p) \/ PublishObject(p) \/ SyncPublished(p) \/ PublishedBefore(p)
    \/ BindCreated(p) \/ OpenPublished(p) \/ PublishedRefused(p)

OpenStep(p) ==
    \/ Acquire(p) \/ SyncSelectedManifest(p) \/ FinishChildren(p) \/ BindSelected(p)
    \/ BindRefused(p) \/ CompleteRecovery(p) \/ CommitChange(p)

CloseStep(p) ==
    \/ CreateCleanSlot(p) \/ WriteSlotControl(p) \/ SyncSlotControl(p) \/ OpenCleanSlot(p)
    \/ ReconcileCleanSlot(p) \/ PublishCleanCheckpoint(p) \/ BindClosePending(p)
    \/ RemoveManifestCandidate(p) \/ CreateManifestCandidate(p) \/ WriteManifestCandidate(p)
    \/ SyncManifestCandidate(p) \/ ReplaceManifest(p) \/ SyncManifestDirectory(p)
    \/ Closed(p) \/ CloseFails(p)

Next ==
    \/ \E p \in Processes :
        CreateStep(p) \/ OpenStep(p) \/ CloseStep(p) \/ Drop(p) \/ Stop(p)
    \/ PowerLoss

\* A caller that wants the database calls create again until it has it, and a
\* call that was made goes on.
Fairness == \A p \in Processes : WF_vars(CreateStep(p))

Spec == Init /\ [][Next]_vars /\ Fairness
================================================================================
