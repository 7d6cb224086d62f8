---------------------------- MODULE CheckpointSlot ----------------------------
(***************************************************************************)
(* The directory of a checkpoint slot, as publish_slot_current_bytes of    *)
(* ntsql-storage-file/src/restart_checkpoint_file.rs changes it and        *)
(* read_current_slot_bytes reads it: the file `current` that readers see,  *)
(* the file `candidate` of a publication, and `images`, what a power loss  *)
(* may leave under the name `current`.  A checkpoint is a number; `Missing`*)
(* is no file, `Torn` one whose bytes do not decode.                       *)
(***************************************************************************)
EXTENDS Integers

Missing == -1
Torn == -2

\* A slot directory that was just created.
EmptySlot ==
    [current |-> Missing, whole |-> TRUE, images |-> {Missing},
     candidate |-> Missing, synced |-> FALSE]

\* The steps of a publication; `whole` says that sync_all covered the bytes of
\* current, `synced` that it covered those of the candidate.
RemoveCandidate(slot) == [slot EXCEPT !.candidate = Missing, !.synced = FALSE]

Creatable(slot) == slot.candidate = Missing

CreateCandidate(slot) == [slot EXCEPT !.candidate = Torn]

WriteCandidate(slot, checkpoint) == [slot EXCEPT !.candidate = checkpoint]

SyncCandidate(slot) == [slot EXCEPT !.synced = TRUE]

ReplaceCurrent(slot) ==
    [slot EXCEPT !.current = slot.candidate,
                 !.whole = slot.synced,
                 !.images = @ \cup {slot.candidate} \cup (IF slot.synced THEN {} ELSE {Torn}),
                 !.candidate = Missing,
                 !.synced = FALSE]

\* Defect: the directory is not synchronized after the rename.
KeepDirectory(slot) == slot

SyncDirectory(slot) ==
    [slot EXCEPT !.images = {slot.current} \cup (IF slot.whole THEN {} ELSE {Torn})]

\* The slot after a power loss: one of the images, with or without what the
\* directory still lists as a candidate.
AfterPowerLoss(slot) ==
    {[current |-> current, whole |-> TRUE, images |-> {current},
      candidate |-> candidate, synced |-> FALSE] :
        current \in slot.images, candidate \in {Missing, slot.candidate}}
===============================================================================
