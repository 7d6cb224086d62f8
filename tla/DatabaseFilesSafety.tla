------------------------- MODULE DatabaseFilesSafety -------------------------
(***************************************************************************)
(* Proofs that the promises of DatabaseFilesProperties hold for any number *)
(* of processes, committed changes and faults, and that the files          *)
(* implement DatabaseLifecycle step by step.                               *)
(***************************************************************************)
EXTENDS DatabaseFilesInvariant, TLAPS

-------------------------------------------------------------------------------
(* Directories *)

\* The objects, one by one.
LEMMA ObjectsEnumerated ==
    Objects = {"owner", "source", "target", "cleanSlot", "wal", "pages", "checkpoint"}
  BY DEF Objects, Children

\* One entry is moved, the others stay.
LEMMA MovedOne ==
    ASSUME NEW dir \in Dirs, NEW o \in Objects, NEW place \in Places
    PROVE  /\ Moved(dir, Placed(o, place)) = [dir EXCEPT ![o] = place]
           /\ Moved(dir, Placed(o, place)) \in Dirs
  BY DEF Moved, Placed, Dirs

\* The replacement of the source by the target.
LEMMA MovedTarget ==
    ASSUME NEW dir \in Dirs
    PROVE  /\ Moved(dir, TargetReplacesSource)
                = [dir EXCEPT !["source"] = "absent", !["target"] = "selected"]
           /\ Moved(dir, TargetReplacesSource) \in Dirs
<1>1. DOMAIN TargetReplacesSource = {"source", "target"}
  BY DEF TargetReplacesSource
<1>2. TargetReplacesSource["source"] = "absent" /\ TargetReplacesSource["target"] = "selected"
  BY DEF TargetReplacesSource
<1> QED
  BY <1>1, <1>2, ObjectsEnumerated DEF Moved, Dirs, Places

\* A publication goes through eight effects.
LEMMA EffectsEnumerated ==
    /\ Len(Effects) = 8 /\ Published = 9
    /\ Effects[1] = "source" /\ Effects[2] = "wal"
    /\ Effects[3] = "pages" /\ Effects[4] = "checkpoint"
    /\ Effects[5] = "wal" /\ Effects[6] = "pages"
    /\ Effects[7] = "checkpoint" /\ Effects[8] = "source"
  BY DEF Effects, Published

LEMMA NamespacesEnumerated ==
    /\ Namespaces[1] = <<"absent", "absent", "absent", "absent", "absent">>
    /\ Namespaces[2] = <<"selected", "absent", "absent", "absent", "absent">>
    /\ Namespaces[3] = <<"selected", "candidate", "absent", "absent", "absent">>
    /\ Namespaces[4] = <<"selected", "candidate", "candidate", "absent", "absent">>
    /\ Namespaces[5] = <<"selected", "candidate", "candidate", "candidate", "absent">>
    /\ Namespaces[6] = <<"selected", "candidate", "candidate", "candidate", "candidate">>
    /\ Namespaces[7] = <<"selected", "candidate", "selected", "candidate", "candidate">>
    /\ Namespaces[8] = <<"selected", "candidate", "selected", "selected", "candidate">>
    /\ Namespaces[9] = <<"selected", "candidate", "selected", "selected", "selected">>
    /\ Namespaces[10] = <<"selected", "selected", "selected", "selected", "selected">>
  BY DEF Namespaces

\* The directory of each phase, entry by entry.
Entries(dir, owner, source, wal, pages, checkpoint) ==
    dir = [o \in Objects |->
            CASE o = "owner" -> owner [] o = "source" -> source [] o = "wal" -> wal
              [] o = "pages" -> pages [] o = "checkpoint" -> checkpoint [] OTHER -> "absent"]

LEMMA UnpublishedEnumerated ==
    /\ Entries(Unpublished(0), "absent", "absent", "absent", "absent", "absent")
    /\ Entries(Unpublished(1), "selected", "absent", "absent", "absent", "absent")
    /\ Entries(Unpublished(2), "selected", "candidate", "absent", "absent", "absent")
    /\ Entries(Unpublished(3), "selected", "candidate", "candidate", "absent", "absent")
    /\ Entries(Unpublished(4), "selected", "candidate", "candidate", "candidate", "absent")
    /\ Entries(Unpublished(5), "selected", "candidate", "candidate", "candidate", "candidate")
    /\ Entries(Unpublished(6), "selected", "candidate", "selected", "candidate", "candidate")
    /\ Entries(Unpublished(7), "selected", "candidate", "selected", "selected", "candidate")
    /\ Entries(Unpublished(8), "selected", "candidate", "selected", "selected", "selected")
  BY NamespacesEnumerated DEF Unpublished, Entries

LEMMA UnpublishedDir ==
    ASSUME NEW n \in 0 .. 8
    PROVE  /\ Unpublished(n) \in Dirs
           /\ Selected(Unpublished(n)) = "none"
           /\ Unpublished(n)["target"] = "absent"
           /\ Unpublished(n)["cleanSlot"] = "absent"
           /\ Unpublished(n)["owner"] = "absent" <=> n = 0
           /\ Unpublished(n)["owner"] # "absent" => Unpublished(n)["owner"] = "selected"
<1>1. n = 0 \/ n = 1 \/ n = 2 \/ n = 3 \/ n = 4 \/ n = 5 \/ n = 6 \/ n = 7 \/ n = 8
  OBVIOUS
<1>2. Unpublished(n) \in Dirs
  BY <1>1, UnpublishedEnumerated, ObjectsEnumerated DEF Entries, Dirs, Places
<1>3. /\ Unpublished(n)["target"] = "absent"
      /\ Unpublished(n)["cleanSlot"] = "absent"
      /\ Unpublished(n)["source"] # "selected"
      /\ Unpublished(n)["owner"] = "absent" <=> n = 0
      /\ Unpublished(n)["owner"] # "absent" => Unpublished(n)["owner"] = "selected"
  BY <1>1, UnpublishedEnumerated, ObjectsEnumerated DEF Entries
<1> QED
  BY <1>2, <1>3 DEF Selected

LEMMA OpenedDir ==
    ASSUME NEW dir \in Dirs, Opened(dir)
    PROVE  /\ Selected(dir) \in {"source", "target"}
           /\ Selected(dir) = "source" <=> dir["source"] = "selected"
           /\ dir[Selected(dir)] = "selected"
           /\ dir["owner"] = "selected"
  BY DEF Opened, Selected

LEMMA PhaseOfUnpublished ==
    ASSUME NEW n \in 0 .. 8
    PROVE  Phases(Unpublished(n)) = {n}
<1>1. n = 0 \/ n = 1 \/ n = 2 \/ n = 3 \/ n = 4 \/ n = 5 \/ n = 6 \/ n = 7 \/ n = 8
  OBVIOUS
<1>2. ManifestPlace(Unpublished(n)) = Unpublished(n)["source"]
  BY UnpublishedDir DEF ManifestPlace
<1>3. Namespaces[n + 1] =
        <<Unpublished(n)["owner"], Unpublished(n)["source"], Unpublished(n)["wal"],
          Unpublished(n)["pages"], Unpublished(n)["checkpoint"]>>
  BY <1>1, UnpublishedEnumerated, NamespacesEnumerated, ObjectsEnumerated DEF Entries
<1>4. ASSUME NEW m \in 0 .. 9, Namespaces[m + 1] = Namespaces[n + 1] PROVE m = n
  BY <1>1, <1>4, NamespacesEnumerated
<1> QED
  BY <1>2, <1>3, <1>4 DEF Phases, Published

LEMMA PhaseOfOpened ==
    ASSUME NEW dir \in Dirs, Opened(dir)
    PROVE  Phases(dir) = {9}
<1>1. /\ ManifestPlace(dir) = "selected" /\ dir["owner"] = "selected"
      /\ dir["wal"] = "selected" /\ dir["pages"] = "selected" /\ dir["checkpoint"] = "selected"
  BY OpenedDir DEF Opened, ManifestPlace, Children
<1>2. ASSUME NEW m \in 0 .. 9, Namespaces[m + 1] = Namespaces[10] PROVE m = 9
  BY <1>2, NamespacesEnumerated
<1> QED
  BY <1>1, <1>2, NamespacesEnumerated DEF Phases, Published

LEMMA MinOfOne ==
    ASSUME NEW n \in Int
    PROVE  Min({n}) = n
  BY DEF Min

\* Creation takes every directory for the phase that it is in.
LEMMA ShapedPhase ==
    ASSUME NEW dir \in Dirs, Shaped(dir)
    PROVE  \E n \in 0 .. 9 :
              /\ Phases(dir) = {n} /\ Min(Phases(dir)) = n
              /\ n = 9 => Opened(dir)
              /\ n # 9 => dir = Unpublished(n)
<1>1. CASE Opened(dir)
  BY <1>1, PhaseOfOpened, MinOfOne
<1>2. CASE \E n \in 0 .. Published - 1 : dir = Unpublished(n)
  BY <1>2, PhaseOfUnpublished, MinOfOne DEF Published
<1> QED
  BY <1>1, <1>2 DEF Shaped

\* Each effect of creation takes a directory from its phase to the next.
LEMMA PreparingEffect ==
    ASSUME NEW i \in 1 .. 4
    PROVE  /\ Effects[i] \in {"source", "wal", "pages", "checkpoint"}
           /\ [Unpublished(i) EXCEPT ![Effects[i]] = "candidate"] = Unpublished(i + 1)
           /\ Unpublished(i)[Effects[i]] = "absent"
           /\ \A n \in i + 1 .. 8 : Unpublished(n)[Effects[i]] # "absent"
<1>1. i = 1 \/ i = 2 \/ i = 3 \/ i = 4
  OBVIOUS
<1>2. \A n \in i + 1 .. 8 : n \in {2, 3, 4, 5, 6, 7, 8} /\ n > i
  OBVIOUS
<1> QED
  BY <1>1, <1>2, UnpublishedEnumerated, EffectsEnumerated, ObjectsEnumerated DEF Entries

LEMMA PublishingEffect ==
    ASSUME NEW i \in 5 .. 8
    PROVE  /\ Effects[i] \in {"source", "wal", "pages", "checkpoint"}
           /\ AtPhase([Unpublished(i) EXCEPT ![Effects[i]] = "selected"], i + 1)
<1>1. i = 5 \/ i = 6 \/ i = 7 \/ i = 8
  OBVIOUS
<1>2. i = 8 => /\ Opened([Unpublished(i) EXCEPT ![Effects[i]] = "selected"])
               /\ [Unpublished(i) EXCEPT ![Effects[i]] = "selected"]["source"] = "selected"
  BY UnpublishedEnumerated, EffectsEnumerated, ObjectsEnumerated DEF Entries, Opened, Children
<1>3. i # 8 => [Unpublished(i) EXCEPT ![Effects[i]] = "selected"] = Unpublished(i + 1)
  BY <1>1, UnpublishedEnumerated, EffectsEnumerated, ObjectsEnumerated DEF Entries
<1> QED
  BY <1>1, <1>2, <1>3, EffectsEnumerated DEF AtPhase

\* The selected manifest, case by case.
LEMMA SelectedCases ==
    ASSUME NEW dir
    PROVE  /\ Selected(dir) = "target" <=> dir["target"] = "selected"
           /\ Selected(dir) = "source"
                <=> dir["target"] # "selected" /\ dir["source"] = "selected"
           /\ Selected(dir) = "none"
                <=> dir["target"] # "selected" /\ dir["source"] # "selected"
  BY DEF Selected

\* A directory with a selected manifest is an opened one.
LEMMA SelectedIsOpened ==
    ASSUME NEW dir \in Dirs, Shaped(dir), Selected(dir) # "none"
    PROVE  /\ Opened(dir)
           /\ Selected(dir) = "source" \/ Selected(dir) = "target"
  BY UnpublishedDir, OpenedDir DEF Shaped, Published

-------------------------------------------------------------------------------
(* Steps of the holder of the lock, once the owner is written *)

PastOwner == Stages \ (Unlocked \cup {"ownerLocked", "owner"})

LEMMA PastOwnerStages ==
    {"ownerWritten", "creating", "objectCreated", "objectWritten", "objectPublished",
     "published", "inspected", "selected", "repaired", "recoveryRequired", "live",
     "slotCreated", "slotWritten", "slotReady", "slotCleared", "slotCandidate",
     "slotFilled", "slotSynced", "slotReplaced", "slotPublished", "closePending",
     "targetCleared", "targetCreated", "targetWritten", "targetSynced",
     "targetSelected", "targetDurable", "closed", "failed"} = PastOwner
  BY DEF PastOwner, Stages, Unlocked, CreateStages, OpenStages, PreparingClose,
         Publishing, BeforeReplacement

\* The holder goes on to a stage, and what holds of the locks goes with it.
Advances(p, s) ==
    /\ lock = p /\ lock' = p
    /\ stage' \in [Processes -> Stages] /\ stage'[p] = s
    /\ Held(p) /\ content["owner"] # "empty"
    /\ LockInv' /\ ReportInv' /\ OwnerInv'
    /\ Held(p)' => HeldInv'

LEMMA HolderStep ==
    ASSUME IInv, NEW p \in Processes, stage[p] \in PastOwner,
           NEW s \in PastOwner \cup {"owner"}, Goto(p, s), lock' = lock,
           where'["owner"] = where["owner"],
           \/ report' = report /\ stage[p] # "failed"
           \/ s = "failed"
    PROVE  Advances(p, s)
<1>1. TypeInv /\ LockInv /\ ReportInv /\ OwnerInv /\ HeldInv
  BY DEF IInv
<1>2. lock = p /\ lock' = p /\ p # Nobody
  BY <1>1, ProcessesAssumption DEF LockInv, PastOwner
<1>3. stage' \in [Processes -> Stages] /\ stage'[p] = s
      /\ \A q \in Processes \ {p} : stage'[q] = stage[q]
  BY <1>1 DEF TypeInv, Goto, PastOwner, Stages, CreateStages
<1>4. LockInv'
  BY <1>1, <1>2, <1>3 DEF LockInv, PastOwner, Unlocked
<1>5. ReportInv'
  BY <1>1, <1>2, <1>3 DEF ReportInv
<1>6. Held(p) /\ content["owner"] # "empty" /\ where["owner"] = "selected"
  BY <1>1, <1>2 DEF HeldInv, Held, CreateHeld, PastOwner
<1>7. \A q \in Processes : stage[q] \notin {"ownerCreated", "ownerLocked"}
  BY <1>1, <1>6 DEF OwnerInv
<1>8. OwnerInv'
  BY <1>3, <1>6, <1>7 DEF OwnerInv, PastOwner, Unlocked
<1>9. Held(p)' => HeldInv'
  BY <1>2 DEF HeldInv
<1> QED
  BY <1>2, <1>3, <1>4, <1>5, <1>6, <1>8, <1>9 DEF Advances

LEMMA FilesKept ==
    ASSUME IInv, UNCHANGED <<files, clean, frontier>>
    PROVE  DirInv' /\ SelectionIsComplete' /\ CleanManifestCertified'
  BY DEF IInv, files, clean, DirInv, Shaped, Opened, Unpublished, SelectionIsComplete,
         CleanManifestCertified, Directories, Selected

\* What a step has to leave for creation to go on.
LEMMA CreatingNext ==
    ASSUME NEW p \in Processes, phase'[p] \in 1 .. 8, disk' = {where'}, Prepared(p)',
           AtPhase(where', IF phase'[p] <= item'[p] THEN item'[p] ELSE phase'[p])
    PROVE  Creating(p)'
<1>1. (IF Undone(p) THEN item[p] ELSE phase[p])'
          = IF phase'[p] <= item'[p] THEN item'[p] ELSE phase'[p]
  BY DEF Undone
<1>2. AtPhase(where, IF Undone(p) THEN item[p] ELSE phase[p])'
  BY <1>1 DEF AtPhase, Opened
<1> QED
  BY <1>2, EffectsEnumerated DEF Creating

\* Steps that change no file: most of them leave the slot alone as well.
LEMMA BindCreatedStep ==
    ASSUME IInv, NEW p \in Processes, BindCreated(p)
    PROVE  IInv'
<1>1. TypeInv /\ stage[p] = "creating" /\ UNCHANGED <<files, clean, data>>
  BY DEF IInv, BindCreated, Step
<1>2. Advances(p, "recoveryRequired")
  BY <1>1, PastOwnerStages, HolderStep DEF BindCreated, Step, files
<1>3. TypeInv'
  BY <1>1, <1>2, EffectsEnumerated
     DEF Advances, TypeInv, BindCreated, Forgotten, files, clean, data
<1>4. Held(p)'
  <2>1. Creating(p)
    BY <1>1, <1>2 DEF Advances, Held, CreateHeld
  <2>2. item[p] = 9 /\ phase[p] \in 1 .. 8
    BY <1>1, <2>1, EffectsEnumerated DEF TypeInv, BindCreated, Creating
  <2>3. Opened(where) /\ where["source"] = "selected" /\ disk = {where}
    BY <2>1, <2>2, EffectsEnumerated DEF Creating, AtPhase, Undone
  <2>4. UnderSource
    BY <2>3, SelectedCases DEF UnderSource, Opened
  <2> QED
    BY <1>1, <1>2, <2>3, <2>4
       DEF Advances, Held, CreateHeld, OpenHeld, SlotHeld, TargetHeld, files, clean, data,
           UnderSource, SlotEntered, PreparingClose, BeforeReplacement, Selected
<1> QED
  BY <1>1, <1>2, <1>3, <1>4, FilesKept DEF IInv, Advances, data

LEMMA PublishedBeforeStep ==
    ASSUME IInv, NEW p \in Processes, PublishedBefore(p)
    PROVE  IInv'
<1>1. TypeInv /\ stage[p] = "creating" /\ UNCHANGED <<files, clean, data>>
  BY DEF IInv, PublishedBefore, Step
<1>2. Advances(p, "creating")
  BY <1>1, PastOwnerStages, HolderStep DEF PublishedBefore, Step, files
<1>3. /\ phase' = phase /\ item[p] \in 5 .. 8 /\ item' = [item EXCEPT ![p] = @ + 1]
      /\ phase[p] > item[p]
  BY <1>1, EffectsEnumerated DEF PublishedBefore, Prepares, Undone, NextItem, TypeInv
<1>4. TypeInv'
  BY <1>1, <1>2, <1>3, EffectsEnumerated
     DEF Advances, TypeInv, PublishedBefore, files, clean, data
<1>5. Held(p)'
  <2>1. Creating(p)
    BY <1>1, <1>2 DEF Advances, Held, CreateHeld
  <2>2. Creating(p)'
    <3>1. phase' = phase /\ disk' = disk /\ where' = where /\ content' = content
      BY <1>1, <1>3 DEF files
    <3>2. item'[p] = item[p] + 1
      BY <1>1, <1>3 DEF TypeInv
    <3>3. phase[p] \in 1 .. 8 /\ disk = {where} /\ Prepared(p) /\ AtPhase(where, phase[p])
      BY <1>3, <2>1, EffectsEnumerated DEF Creating, Undone
    <3>4. Prepared(p)'
      BY <1>3, <3>1, <3>2, <3>3 DEF Prepared
    <3>5. phase[p] = IF phase[p] <= item[p] + 1 THEN item[p] + 1 ELSE phase[p]
      BY <1>3, <3>3
    <3> QED
      BY <3>1, <3>2, <3>3, <3>4, <3>5, CreatingNext
  <2> QED
    BY <1>1, <1>2, <2>2
       DEF Advances, Held, CreateHeld, OpenHeld, SlotHeld, TargetHeld, files, clean, data,
           PreparingClose, BeforeReplacement
<1> QED
  BY <1>1, <1>2, <1>4, <1>5, FilesKept DEF IInv, Advances, data

LEMMA QuietStep ==
    ASSUME IInv, NEW p \in Processes,
           \/ BindSelected(p) \/ CompleteRecovery(p) \/ OpenCleanSlot(p)
           \/ BindClosePending(p) \/ Closed(p)
    PROVE  IInv'
<1>1. TypeInv /\ DirInv /\ UNCHANGED <<files, clean, frontier, lock, phase, item, report, faults>>
  BY DEF IInv, BindSelected, CompleteRecovery, OpenCleanSlot, BindClosePending, Closed,
         Step, data, creating
<1>2. used' \in BOOLEAN
  BY <1>1 DEF BindSelected, CompleteRecovery, OpenCleanSlot, BindClosePending, Closed,
              TypeInv, data
<1>3. DirInv' /\ SelectionIsComplete' /\ CleanManifestCertified'
  BY <1>1, FilesKept
<1>4. ASSUME NEW s \in PastOwner, Advances(p, s), Held(p)' PROVE IInv'
  BY <1>1, <1>2, <1>3, <1>4 DEF Advances, IInv, TypeInv, files, clean
<1>5. CASE BindSelected(p)
  <2>1. stage[p] = "repaired" /\ Goto(p, "recoveryRequired")
    BY <1>5 DEF BindSelected
  <2>2. Advances(p, "recoveryRequired")
    BY <1>1, <2>1, PastOwnerStages, HolderStep DEF files
  <2>3. disk = {where} /\ UnderSource
    BY <1>5, <2>1, <2>2 DEF BindSelected, Advances, Held, OpenHeld, UnderSource
  <2>4. Held(p)'
    BY <1>1, <2>2, <2>3
       DEF Advances, Held, CreateHeld, OpenHeld, SlotHeld, TargetHeld, files, clean,
           UnderSource, SlotEntered, PreparingClose, BeforeReplacement, Selected
  <2> QED
    BY <1>4, <2>2, <2>4, PastOwnerStages
<1>6. CASE CompleteRecovery(p)
  <2>1. stage[p] = "recoveryRequired" /\ Goto(p, "live")
    BY <1>6 DEF CompleteRecovery, Step
  <2>2. Advances(p, "live")
    BY <1>1, <2>1, PastOwnerStages, HolderStep DEF files
  <2>3. disk = {where} /\ UnderSource
    BY <2>1, <2>2 DEF Advances, Held, OpenHeld
  <2>4. Held(p)'
    BY <1>1, <2>2, <2>3
       DEF Advances, Held, CreateHeld, OpenHeld, SlotHeld, TargetHeld, files, clean,
           UnderSource, SlotEntered, PreparingClose, BeforeReplacement, Selected
  <2> QED
    BY <1>4, <2>2, <2>4, PastOwnerStages
<1>7. CASE OpenCleanSlot(p)
  <2>1. stage[p] = "live" /\ Goto(p, "slotReady")
    BY <1>7 DEF OpenCleanSlot, Step
  <2>2. Advances(p, "slotReady")
    BY <1>1, <2>1, PastOwnerStages, HolderStep DEF files
  <2>3. SlotEntered /\ UnderSource
    BY <1>7, <2>1, <2>2 DEF OpenCleanSlot, Advances, Held, OpenHeld, SlotHeld, PreparingClose
  <2>4. Held(p)'
    BY <1>1, <2>2, <2>3
       DEF Advances, Held, CreateHeld, OpenHeld, SlotHeld, TargetHeld, files, clean,
           UnderSource, SlotEntered, PreparingClose, BeforeReplacement, Selected
  <2> QED
    BY <1>4, <2>2, <2>4, PastOwnerStages
<1>8. CASE BindClosePending(p)
  <2>1. stage[p] = "slotPublished" /\ Goto(p, "closePending") /\ slot.current = frontier
    BY <1>8 DEF BindClosePending, Step
  <2>2. Advances(p, "closePending")
    BY <1>1, <2>1, PastOwnerStages, HolderStep DEF files
  <2>3. SlotEntered /\ UnderSource /\ slot.images = {frontier}
    BY <2>1, <2>2 DEF Advances, Held, OpenHeld, SlotHeld, PreparingClose
  <2>4. Held(p)'
    BY <1>1, <2>2, <2>3
       DEF Advances, Held, CreateHeld, OpenHeld, SlotHeld, TargetHeld, files, clean,
           UnderSource, SlotEntered, PreparingClose, BeforeReplacement, Selected
  <2> QED
    BY <1>4, <2>2, <2>4, PastOwnerStages
<1>9. CASE Closed(p)
  <2>1. stage[p] = "targetDurable" /\ Goto(p, "closed")
    BY <1>9 DEF Closed, Step
  <2>2. Advances(p, "closed")
    BY <1>1, <2>1, PastOwnerStages, HolderStep DEF files
  <2>3. Held(p)'
    BY <1>1, <2>2
       DEF Advances, Held, CreateHeld, OpenHeld, SlotHeld, TargetHeld, files, clean,
           PreparingClose, BeforeReplacement
  <2> QED
    BY <1>4, <2>2, <2>3, PastOwnerStages
<1> QED
  BY <1>5, <1>6, <1>7, <1>8, <1>9

-------------------------------------------------------------------------------
(* Steps under the source manifest: live work, the slot and the candidate *)

HeldUnderSource == {"recoveryRequired"} \cup PreparingClose \cup BeforeReplacement

\* Nothing is certified and nothing that was selected is touched.
LEMMA SourceStep ==
    ASSUME IInv, NEW p \in Processes, NEW s \in PastOwner, Advances(p, s),
           TypeInv', DirInv', UnderSource, UnderSource', Held(p)',
           \A o \in Children \cup {"owner", "source"} : content'[o] = content[o]
    PROVE  IInv'
<1>1. where \in disk /\ where' \in disk' /\ disk' \subseteq Dirs
  BY DEF IInv, TypeInv
<1>2. \A o \in Children \cup {"owner", "source"} : content[o] = "synced"
  BY <1>1 DEF IInv, SelectionIsComplete, Directories, UnderSource
<1>3. \A dir \in disk' : Opened(dir) /\ Selected(dir) = "source" /\ dir["source"] = "selected"
  BY <1>1, SelectedIsOpened, SelectedCases DEF DirInv, UnderSource
<1>4. SelectionIsComplete'
  BY <1>1, <1>2, <1>3 DEF SelectionIsComplete, Directories, Opened
<1>5. CleanManifestCertified'
  BY <1>1, <1>3 DEF CleanManifestCertified, Directories
<1> QED
  BY <1>4, <1>5 DEF IInv, Advances

\* An entry that no selection depends on is moved.
LEMMA EnterUnderSource ==
    ASSUME TypeInv, DirInv, UnderSource, NEW o, NEW place,
           \/ o = "cleanSlot" /\ place \in {"absent", "selected"}
           \/ o = "target" /\ place \in {"absent", "candidate"},
           Enter(Placed(o, place))
    PROVE  /\ o \in Objects /\ place \in Places
           /\ disk' = disk \cup {[dir EXCEPT ![o] = place] : dir \in disk}
           /\ where' = [where EXCEPT ![o] = place]
           /\ disk' \subseteq Dirs /\ where' \in disk'
           /\ DirInv' /\ UnderSource'
<1>1. o \in Objects /\ place \in Places
  BY ObjectsEnumerated DEF Places
<1>2. where \in disk /\ disk \subseteq Dirs
  BY DEF TypeInv
<1>3. \A dir \in disk : /\ Moved(dir, Placed(o, place)) = [dir EXCEPT ![o] = place]
                        /\ Moved(dir, Placed(o, place)) \in Dirs
  BY <1>1, <1>2, MovedOne
<1>4. /\ disk' = disk \cup {[dir EXCEPT ![o] = place] : dir \in disk}
      /\ where' = [where EXCEPT ![o] = place]
  BY <1>2, <1>3 DEF Enter
<1>5. disk' \subseteq Dirs /\ where' \in disk'
  BY <1>2, <1>3, <1>4
<1>6. \A dir \in disk : Opened(dir) /\ dir["source"] = "selected" /\ Selected(dir) = "source"
  BY <1>2, SelectedIsOpened, SelectedCases DEF DirInv, UnderSource
<1>7. \A dir \in disk : /\ Opened([dir EXCEPT ![o] = place])
                        /\ Selected([dir EXCEPT ![o] = place]) = "source"
  BY <1>1, <1>2, <1>6, ObjectsEnumerated DEF Opened, Selected, Dirs, Children
<1>8. \A dir \in disk' : Opened(dir) /\ Selected(dir) = "source"
  BY <1>4, <1>6, <1>7
<1> QED
  BY <1>1, <1>4, <1>5, <1>8 DEF DirInv, Shaped, UnderSource

\* The directory is synchronized, or not touched.
LEMMA SyncedOrKept ==
    ASSUME TypeInv, DirInv, where' = where, disk' = disk \/ DirectorySynced
    PROVE  /\ disk' \subseteq disk /\ disk' \subseteq Dirs /\ where' \in disk'
           /\ DirInv'
           /\ UnderSource => UnderSource'
           /\ SlotEntered => SlotEntered'
<1>1. disk' \subseteq disk /\ disk' \subseteq Dirs /\ where' \in disk'
  BY DEF TypeInv, DirectorySynced
<1>2. DirInv'
  BY <1>1 DEF DirInv, Shaped, Opened, Unpublished
<1>3. UnderSource => UnderSource'
  BY <1>1 DEF UnderSource, Selected
<1>4. SlotEntered => SlotEntered'
  BY <1>1 DEF SlotEntered
<1> QED
  BY <1>1, <1>2, <1>3, <1>4

LEMMA SourceHolder ==
    ASSUME IInv, NEW p \in Processes, stage[p] \in HeldUnderSource
    PROVE  /\ lock = p /\ stage[p] \in PastOwner
           /\ Held(p) /\ UnderSource
<1>1. stage[p] \in PastOwner
  BY PastOwnerStages DEF HeldUnderSource, PreparingClose, BeforeReplacement
<1>2. lock = p
  BY <1>1 DEF IInv, LockInv, PastOwner
<1>3. Held(p)
  BY <1>2 DEF IInv, HeldInv
<1> QED
  BY <1>1, <1>2, <1>3 DEF Held, OpenHeld, HeldUnderSource

LEMMA CommitChangeStep ==
    ASSUME IInv, NEW p \in Processes, CommitChange(p)
    PROVE  IInv'
<1>1. /\ TypeInv /\ DirInv /\ stage[p] = "live" /\ Goto(p, "live")
      /\ frontier' = frontier + 1
      /\ UNCHANGED <<files, clean, lock, used, phase, item, report, faults>>
  BY DEF IInv, CommitChange, Step, creating
<1>2. UnderSource
  BY <1>1, SourceHolder DEF HeldUnderSource, PreparingClose
<1>3. Advances(p, "live")
  BY <1>1, PastOwnerStages, HolderStep DEF files
<1>4. TypeInv'
  BY <1>1, <1>3 DEF Advances, TypeInv, files, clean
<1>5. DirInv' /\ UnderSource'
  BY <1>1, <1>2, SyncedOrKept DEF files
<1>6. Held(p)'
  BY <1>1, <1>3, <1>5
     DEF Advances, Held, CreateHeld, OpenHeld, SlotHeld, TargetHeld, files, clean,
         SlotEntered, PreparingClose, BeforeReplacement
<1> QED
  BY <1>1, <1>2, <1>3, <1>4, <1>5, <1>6, PastOwnerStages, SourceStep DEF files

LEMMA CreateCleanSlotStep ==
    ASSUME IInv, NEW p \in Processes, CreateCleanSlot(p)
    PROVE  IInv'
<1>1. /\ TypeInv /\ DirInv /\ stage[p] = "live" /\ Goto(p, "slotCreated")
      /\ Enter(Placed("cleanSlot", "selected")) /\ slot' = EmptySlot
      /\ UNCHANGED <<content, certificate, frontier, used, lock, phase, item, report, faults>>
  BY DEF IInv, CreateCleanSlot, Step, creating, data
<1>2. UnderSource
  BY <1>1, SourceHolder DEF HeldUnderSource, PreparingClose
<1>3. /\ where' = [where EXCEPT !["cleanSlot"] = "selected"]
      /\ disk' \subseteq Dirs /\ where' \in disk' /\ DirInv' /\ UnderSource'
  BY <1>1, <1>2, EnterUnderSource
<1>4. where \in Dirs
  BY <1>1 DEF TypeInv
<1>5. where'["owner"] = where["owner"] /\ where'["cleanSlot"] = "selected"
  BY <1>3, <1>4, ObjectsEnumerated DEF Dirs
<1>6. Advances(p, "slotCreated")
  BY <1>1, <1>5, PastOwnerStages, HolderStep
<1>7. TypeInv'
  BY <1>1, <1>3, <1>6 DEF Advances, TypeInv, SlotType, EmptySlot, Missing
<1>8. Held(p)'
  BY <1>1, <1>3, <1>5, <1>6
     DEF Advances, Held, CreateHeld, OpenHeld, SlotHeld, TargetHeld,
         PreparingClose, BeforeReplacement
<1> QED
  BY <1>1, <1>2, <1>3, <1>6, <1>7, <1>8, PastOwnerStages, SourceStep

LEMMA ReconcileCleanSlotStep ==
    ASSUME IInv, NEW p \in Processes, ReconcileCleanSlot(p)
    PROVE  IInv'
<1>1. /\ TypeInv /\ DirInv /\ stage[p] = "live" /\ Goto(p, "live")
      /\ Enter(Placed("cleanSlot", "absent")) /\ slot' = EmptySlot
      /\ UNCHANGED <<content, certificate, frontier, used, lock, phase, item, report, faults>>
  BY DEF IInv, ReconcileCleanSlot, Step, creating, data
<1>2. UnderSource
  BY <1>1, SourceHolder DEF HeldUnderSource, PreparingClose
<1>3. /\ where' = [where EXCEPT !["cleanSlot"] = "absent"]
      /\ disk' \subseteq Dirs /\ where' \in disk' /\ DirInv' /\ UnderSource'
  BY <1>1, <1>2, EnterUnderSource
<1>4. where \in Dirs
  BY <1>1 DEF TypeInv
<1>5. where'["owner"] = where["owner"] /\ where'["cleanSlot"] = "absent"
  BY <1>3, <1>4, ObjectsEnumerated DEF Dirs
<1>6. Advances(p, "live")
  BY <1>1, <1>5, PastOwnerStages, HolderStep
<1>7. TypeInv'
  BY <1>1, <1>3, <1>6 DEF Advances, TypeInv, SlotType, EmptySlot, Missing
<1>8. Held(p)'
  BY <1>1, <1>3, <1>5, <1>6
     DEF Advances, Held, CreateHeld, OpenHeld, SlotHeld, TargetHeld,
         PreparingClose, BeforeReplacement
<1> QED
  BY <1>1, <1>2, <1>3, <1>6, <1>7, <1>8, PastOwnerStages, SourceStep

LEMMA WriteSlotControlStep ==
    ASSUME IInv, NEW p \in Processes, WriteSlotControl(p)
    PROVE  IInv'
<1>1. /\ TypeInv /\ DirInv /\ stage[p] = "slotCreated" /\ Goto(p, "slotWritten")
      /\ content' = [content EXCEPT !["cleanSlot"] = "written"]
      /\ UNCHANGED <<where, disk, slot, certificate, frontier, used, lock, phase, item,
                     report, faults>>
  BY DEF IInv, WriteSlotControl, Step, creating, data, clean
<1>2. UnderSource
  BY <1>1, SourceHolder DEF HeldUnderSource, PreparingClose
<1>3. Advances(p, "slotWritten")
  BY <1>1, PastOwnerStages, HolderStep
<1>4. TypeInv'
  BY <1>1, <1>3, ObjectsEnumerated DEF Advances, TypeInv, Bytes
<1>5. DirInv' /\ UnderSource'
  BY <1>1, <1>2, SyncedOrKept
<1>6. \A o \in Children \cup {"owner", "source"} : content'[o] = content[o]
  BY <1>1, ObjectsEnumerated DEF TypeInv, Children
<1>7. Held(p)'
  BY <1>1, <1>3, <1>5, <1>6
     DEF Advances, Held, CreateHeld, OpenHeld, SlotHeld, TargetHeld,
         PreparingClose, BeforeReplacement
<1> QED
  BY <1>1, <1>2, <1>3, <1>4, <1>5, <1>6, <1>7, PastOwnerStages, SourceStep

LEMMA SyncSlotControlStep ==
    ASSUME IInv, NEW p \in Processes, SyncSlotControl(p)
    PROVE  IInv'
<1>1. /\ TypeInv /\ DirInv /\ stage[p] = "slotWritten" /\ Goto(p, "slotReady")
      /\ content' = [content EXCEPT !["cleanSlot"] = "synced"]
      /\ where' = where /\ DirectorySynced
      /\ UNCHANGED <<slot, certificate, frontier, used, lock, phase, item, report, faults>>
  BY DEF IInv, SyncSlotControl, Step, creating, data, clean
<1>2. UnderSource
  BY <1>1, SourceHolder DEF HeldUnderSource, PreparingClose
<1>3. Advances(p, "slotReady")
  BY <1>1, PastOwnerStages, HolderStep
<1>4. DirInv' /\ UnderSource' /\ disk' \subseteq Dirs /\ where' \in disk'
  BY <1>1, <1>2, SyncedOrKept
<1>5. TypeInv'
  BY <1>1, <1>3, <1>4, ObjectsEnumerated DEF Advances, TypeInv, Bytes
<1>6. \A o \in Children \cup {"owner", "source"} : content'[o] = content[o]
  BY <1>1, ObjectsEnumerated DEF TypeInv, Children
<1>7. SlotEntered'
  BY <1>1, <1>3 DEF Advances, Held, SlotHeld, SlotEntered, DirectorySynced
<1>8. Held(p)'
  BY <1>1, <1>3, <1>4, <1>6, <1>7
     DEF Advances, Held, CreateHeld, OpenHeld, SlotHeld, TargetHeld,
         PreparingClose, BeforeReplacement
<1> QED
  BY <1>1, <1>2, <1>3, <1>4, <1>5, <1>6, <1>8, PastOwnerStages, SourceStep

\* The publication of a checkpoint, on the slot alone.
LEMMA SlotSteps ==
    ASSUME NEW s \in SlotType, NEW n \in Int
    PROVE  /\ RemoveCandidate(s) \in SlotType
           /\ CreateCandidate(s) \in SlotType
           /\ WriteCandidate(s, n) \in SlotType
           /\ SyncCandidate(s) \in SlotType /\ SyncCandidate(s).synced
           /\ ReplaceCurrent(s) \in SlotType
           /\ s.synced => ReplaceCurrent(s).whole
           /\ SyncDirectory(s) \in SlotType
           /\ s.whole => SyncDirectory(s).images = {SyncDirectory(s).current}
<1>1. Missing \in Int /\ Torn \in Int
  BY DEF Missing, Torn
<1>2. RemoveCandidate(s) \in SlotType
  BY <1>1 DEF RemoveCandidate, SlotType
<1>3. CreateCandidate(s) \in SlotType
  BY <1>1 DEF CreateCandidate, SlotType
<1>4. WriteCandidate(s, n) \in SlotType
  BY DEF WriteCandidate, SlotType
<1>5. SyncCandidate(s) \in SlotType /\ SyncCandidate(s).synced
  BY DEF SyncCandidate, SlotType
<1>6. ReplaceCurrent(s) \in SlotType
  <2>1. s.images \cup {s.candidate} \cup (IF s.synced THEN {} ELSE {Torn}) \in SUBSET Int
    BY <1>1 DEF SlotType
  <2>2. s.synced \in BOOLEAN /\ s.candidate \in Int
    BY DEF SlotType
  <2> QED
    BY <1>1, <2>1, <2>2 DEF ReplaceCurrent, SlotType
<1>7. s.synced => ReplaceCurrent(s).whole
  BY DEF ReplaceCurrent, SlotType
<1>8. /\ SyncDirectory(s) \in SlotType
      /\ s.whole => SyncDirectory(s).images = {SyncDirectory(s).current}
  BY DEF SyncDirectory, SlotType, Torn
<1> QED
  BY <1>2, <1>3, <1>4, <1>5, <1>6, <1>7, <1>8

SlotStages ==
    {"slotReady", "slotCleared", "slotCandidate", "slotFilled", "slotSynced", "slotReplaced",
     "slotPublished"}

\* A step of the publication, given what the slot is afterwards.
LEMMA SlotStepHeld ==
    ASSUME IInv, NEW p \in Processes, NEW s \in SlotStages, NEW t \in SlotStages,
           NEW after \in SlotType, SlotStep(p, s, t, after),
           t = "slotSynced" => after.synced,
           t = "slotReplaced" => after.whole,
           t = "slotPublished" => after.images = {after.current}
    PROVE  IInv'
<1>1. /\ TypeInv /\ DirInv /\ stage[p] = s /\ Goto(p, t) /\ slot' = after
      /\ UNCHANGED <<where, content, disk, certificate, frontier, used, lock, phase, item,
                     report, faults>>
  BY DEF IInv, SlotStep, Step, creating, data, files
<1>2. UnderSource
  BY <1>1, SourceHolder DEF HeldUnderSource, PreparingClose, SlotStages
<1>3. s \in PastOwner /\ t \in PastOwner
  BY PastOwnerStages DEF SlotStages
<1>4. Advances(p, t)
  BY <1>1, <1>3, HolderStep DEF SlotStages
<1>5. TypeInv'
  BY <1>1, <1>4 DEF Advances, TypeInv
<1>6. DirInv' /\ UnderSource'
  BY <1>1, <1>2, SyncedOrKept
<1>7. SlotEntered'
  BY <1>1, <1>4 DEF Advances, Held, SlotHeld, SlotEntered, SlotStages, PreparingClose
<1>8. Held(p)'
  BY <1>1, <1>4, <1>6, <1>7
     DEF Advances, Held, CreateHeld, OpenHeld, SlotHeld, TargetHeld, SlotStages,
         PreparingClose, BeforeReplacement
<1> QED
  BY <1>1, <1>2, <1>3, <1>4, <1>5, <1>6, <1>8, SourceStep

LEMMA PublishCleanCheckpointStep ==
    ASSUME IInv, NEW p \in Processes, PublishCleanCheckpoint(p)
    PROVE  IInv'
<1>1. slot \in SlotType /\ frontier \in Int
  BY DEF IInv, TypeInv
<1>2. stage[p] \in {"slotReady", "slotCleared", "slotCandidate", "slotFilled", "slotSynced",
                    "slotReplaced"}
  BY DEF PublishCleanCheckpoint, SlotStep, Step
<1>3. lock = p /\ SlotHeld(p)
  BY <1>2, SourceHolder DEF HeldUnderSource, PreparingClose, Held
<1>4. CASE SlotStep(p, "slotReady", "slotCleared", RemoveCandidate(slot))
  BY <1>1, <1>4, SlotSteps, SlotStepHeld DEF SlotStages
<1>5. CASE SlotStep(p, "slotCleared", "slotCandidate", CreateCandidate(slot))
  BY <1>1, <1>5, SlotSteps, SlotStepHeld DEF SlotStages
<1>6. CASE SlotStep(p, "slotCandidate", "slotFilled", WriteCandidate(slot, frontier))
  BY <1>1, <1>6, SlotSteps, SlotStepHeld DEF SlotStages
<1>7. CASE SlotStep(p, "slotFilled", "slotSynced", SyncCandidate(slot))
  BY <1>1, <1>7, SlotSteps, SlotStepHeld DEF SlotStages
<1>8. CASE SlotStep(p, "slotSynced", "slotReplaced", ReplaceCurrent(slot))
  <2>1. slot.synced
    BY <1>3, <1>8 DEF SlotHeld, SlotStep, Step
  <2> QED
    BY <1>1, <1>8, <2>1, SlotSteps, SlotStepHeld DEF SlotStages
<1>9. CASE SlotStep(p, "slotReplaced", "slotPublished", SyncDirectory(slot))
  <2>1. slot.whole
    BY <1>3, <1>9 DEF SlotHeld, SlotStep, Step
  <2> QED
    BY <1>1, <1>9, <2>1, SlotSteps, SlotStepHeld DEF SlotStages
<1> QED
  BY <1>4, <1>5, <1>6, <1>7, <1>8, <1>9 DEF PublishCleanCheckpoint

\* Before the replacement, the slot is entered and holds the final frontier.
LEMMA ReadyToReplace ==
    ASSUME IInv, NEW p \in Processes, stage[p] \in BeforeReplacement
    PROVE  /\ Held(p) /\ UnderSource /\ SlotEntered /\ slot.images = {frontier}
           /\ stage[p] \in PastOwner
<1>1. Held(p) /\ UnderSource /\ stage[p] \in PastOwner
  BY SourceHolder DEF HeldUnderSource
<1> QED
  BY <1>1 DEF Held, SlotHeld

LEMMA RemoveManifestCandidateStep ==
    ASSUME IInv, NEW p \in Processes, RemoveManifestCandidate(p)
    PROVE  IInv'
<1>1. /\ TypeInv /\ DirInv /\ stage[p] = "closePending" /\ Goto(p, "targetCleared")
      /\ where["target"] = "candidate" => Enter(Placed("target", "absent"))
      /\ where["target"] # "candidate" => where' = where /\ disk' = disk
      /\ content' = [content EXCEPT !["target"] = "empty"]
      /\ certificate' = Missing
      /\ UNCHANGED <<slot, frontier, used, lock, phase, item, report, faults>>
  BY DEF IInv, RemoveManifestCandidate, Step, creating, data
<1>2. Held(p) /\ UnderSource /\ SlotEntered /\ slot.images = {frontier}
  BY <1>1, ReadyToReplace DEF BeforeReplacement
<1>3. where \in Dirs
  BY <1>1 DEF TypeInv
<1>4. /\ disk' \subseteq Dirs /\ where' \in disk' /\ DirInv' /\ UnderSource' /\ SlotEntered'
      /\ where'["owner"] = where["owner"]
  <2>1. CASE where["target"] = "candidate"
    <3>1. /\ where' = [where EXCEPT !["target"] = "absent"]
          /\ disk' = disk \cup {[dir EXCEPT !["target"] = "absent"] : dir \in disk}
          /\ disk' \subseteq Dirs /\ where' \in disk' /\ DirInv' /\ UnderSource'
      BY <1>1, <1>2, <2>1, EnterUnderSource
    <3>2. where'["owner"] = where["owner"]
      BY <1>3, <3>1, ObjectsEnumerated DEF Dirs
    <3>3. SlotEntered'
      BY <1>1, <1>2, <3>1, ObjectsEnumerated DEF SlotEntered, TypeInv, Dirs
    <3> QED
      BY <3>1, <3>2, <3>3
  <2>2. CASE where["target"] # "candidate"
    BY <1>1, <1>2, <2>2, SyncedOrKept
  <2> QED
    BY <2>1, <2>2
<1>5. Advances(p, "targetCleared")
  BY <1>1, <1>4, PastOwnerStages, HolderStep
<1>6. TypeInv'
  BY <1>1, <1>4, <1>5, ObjectsEnumerated DEF Advances, TypeInv, Bytes, Missing
<1>7. \A o \in Children \cup {"owner", "source"} : content'[o] = content[o]
  BY <1>1, ObjectsEnumerated DEF TypeInv, Children
<1>8. Held(p)'
  BY <1>1, <1>2, <1>4, <1>5, <1>7
     DEF Advances, Held, CreateHeld, OpenHeld, SlotHeld, TargetHeld,
         PreparingClose, BeforeReplacement
<1> QED
  BY <1>1, <1>2, <1>4, <1>5, <1>6, <1>7, <1>8, PastOwnerStages, SourceStep

LEMMA CreateManifestCandidateStep ==
    ASSUME IInv, NEW p \in Processes, CreateManifestCandidate(p)
    PROVE  IInv'
<1>1. /\ TypeInv /\ DirInv /\ stage[p] = "targetCleared" /\ Goto(p, "targetCreated")
      /\ Enter(Placed("target", "candidate"))
      /\ UNCHANGED <<content, slot, certificate, frontier, used, lock, phase, item, report,
                     faults>>
  BY DEF IInv, CreateManifestCandidate, Step, creating, data, clean
<1>2. Held(p) /\ UnderSource /\ SlotEntered /\ slot.images = {frontier}
  BY <1>1, ReadyToReplace DEF BeforeReplacement
<1>3. /\ where' = [where EXCEPT !["target"] = "candidate"]
      /\ disk' = disk \cup {[dir EXCEPT !["target"] = "candidate"] : dir \in disk}
      /\ disk' \subseteq Dirs /\ where' \in disk' /\ DirInv' /\ UnderSource'
  BY <1>1, <1>2, EnterUnderSource
<1>4. where'["owner"] = where["owner"] /\ SlotEntered'
  BY <1>1, <1>2, <1>3, ObjectsEnumerated DEF SlotEntered, TypeInv, Dirs
<1>5. Advances(p, "targetCreated")
  BY <1>1, <1>4, PastOwnerStages, HolderStep
<1>6. TypeInv'
  BY <1>1, <1>3, <1>5 DEF Advances, TypeInv
<1>7. Held(p)'
  BY <1>1, <1>2, <1>3, <1>4, <1>5
     DEF Advances, Held, CreateHeld, OpenHeld, SlotHeld, TargetHeld,
         PreparingClose, BeforeReplacement
<1> QED
  BY <1>1, <1>2, <1>3, <1>5, <1>6, <1>7, PastOwnerStages, SourceStep

LEMMA WriteManifestCandidateStep ==
    ASSUME IInv, NEW p \in Processes,
           WriteManifestCandidate(p) \/ SyncManifestCandidate(p)
    PROVE  IInv'
<1>1. /\ TypeInv /\ DirInv
      /\ UNCHANGED <<where, disk, slot, frontier, used, lock, phase, item, report, faults>>
  BY DEF IInv, WriteManifestCandidate, SyncManifestCandidate, Step, creating, data, clean
<1>2. PICK s \in {"targetWritten", "targetSynced"} :
        /\ stage[p] \in {"targetCreated", "targetWritten"} /\ Goto(p, s)
        /\ certificate' = frontier \/ (stage[p] = "targetWritten" /\ certificate' = certificate)
        /\ content' = [content EXCEPT !["target"] =
                          IF s = "targetSynced" THEN "synced" ELSE "written"]
  BY DEF WriteManifestCandidate, SyncManifestCandidate, Step, clean
<1>3. Held(p) /\ UnderSource /\ SlotEntered /\ slot.images = {frontier}
  BY <1>2, ReadyToReplace DEF BeforeReplacement
<1>4. stage[p] \in PastOwner /\ s \in PastOwner
  BY <1>2, PastOwnerStages
<1>5. Advances(p, s)
  BY <1>1, <1>2, <1>4, HolderStep
<1>6. DirInv' /\ UnderSource' /\ SlotEntered'
  BY <1>1, <1>3, SyncedOrKept
<1>7. /\ certificate' = frontier /\ content' \in [Objects -> Bytes]
      /\ s = "targetSynced" => content'["target"] = "synced"
  BY <1>1, <1>2, <1>3, ObjectsEnumerated DEF Held, TargetHeld, TypeInv, Bytes
<1>8. TypeInv'
  <2>1. certificate' \in Int
    BY <1>1, <1>7 DEF TypeInv
  <2>2. content' \in [Objects -> Bytes] /\ stage' \in [Processes -> Stages]
    BY <1>5, <1>7 DEF Advances
  <2> QED
    BY <1>1, <2>1, <2>2 DEF TypeInv
<1>9. \A o \in Children \cup {"owner", "source"} : content'[o] = content[o]
  BY <1>1, <1>2, ObjectsEnumerated DEF TypeInv, Children
<1>10. Held(p)'
  <2>1. stage'[p] = s /\ content["owner"] # "empty" /\ CreateHeld(p)
    BY <1>5 DEF Advances, Held
  <2>2. CreateHeld(p)'
    BY <1>1, <1>9, <2>1 DEF CreateHeld
  <2>3. OpenHeld(p)'
    BY <1>6, <2>1 DEF OpenHeld
  <2>4. SlotHeld(p)'
    BY <1>1, <1>3, <1>6, <2>1 DEF SlotHeld, PreparingClose
  <2>5. TargetHeld(p)'
    BY <1>1, <1>7, <2>1 DEF TargetHeld
  <2> QED
    BY <2>2, <2>3, <2>4, <2>5 DEF Held
<1> QED
  BY <1>3, <1>4, <1>5, <1>6, <1>8, <1>9, <1>10, SourceStep

LEMMA SourceReportedStep ==
    ASSUME IInv, NEW p \in Processes, SourceReported(p)
    PROVE  IInv'
<1>1. /\ TypeInv /\ DirInv /\ stage[p] \in BeforeReplacement /\ Goto(p, "failed")
      /\ report' = "SourceSelected" /\ faults' = faults + 1
      /\ UNCHANGED <<where, disk, content, slot, certificate, frontier, used, lock, phase,
                     item>>
  BY DEF IInv, SourceReported, Reports, creating, data, clean
<1>2. Held(p) /\ UnderSource /\ stage[p] \in PastOwner
  BY <1>1, ReadyToReplace
<1>3. Advances(p, "failed")
  BY <1>1, <1>2, PastOwnerStages, HolderStep
<1>4. TypeInv'
  BY <1>1, <1>3 DEF Advances, TypeInv, Reported
<1>5. DirInv' /\ UnderSource'
  BY <1>1, <1>2, SyncedOrKept
<1>6. Held(p)'
  BY <1>1, <1>3
     DEF Advances, Held, CreateHeld, OpenHeld, SlotHeld, TargetHeld,
         PreparingClose, BeforeReplacement
<1> QED
  BY <1>1, <1>2, <1>3, <1>4, <1>5, <1>6, PastOwnerStages, SourceStep

-------------------------------------------------------------------------------
(* Steps of the replacement, and steps that only synchronize *)

\* Bytes that are synchronized stay so.
BytesStay == \A o \in Objects : content[o] = "synced" => content'[o] = "synced"

LEMMA SyncKeepsPromises ==
    ASSUME IInv, where' = where, disk' = disk \/ DirectorySynced, BytesStay,
           UNCHANGED <<clean, frontier>>
    PROVE  /\ disk' \subseteq Dirs /\ where' \in disk' /\ DirInv'
           /\ SelectionIsComplete' /\ CleanManifestCertified'
<1>1. TypeInv /\ DirInv
  BY DEF IInv
<1>2. disk' \subseteq disk /\ disk' \subseteq Dirs /\ where' \in disk' /\ DirInv'
  BY <1>1, SyncedOrKept
<1>3. \A dir \in disk : Selected(dir) # "none" => Selected(dir) \in Objects
  BY <1>1, SelectedIsOpened, ObjectsEnumerated DEF DirInv, TypeInv
<1>4. SelectionIsComplete'
  <2>1. SUFFICES ASSUME NEW dir \in disk, Selected(dir) # "none",
                        NEW o \in Children \cup {"owner", Selected(dir)}
                 PROVE  dir[o] = "selected" /\ content'[o] = "synced"
    BY <1>2 DEF SelectionIsComplete, Directories, Selected
  <2>2. dir[o] = "selected" /\ content[o] = "synced"
    BY <2>1 DEF IInv, SelectionIsComplete, Directories
  <2>3. o \in Objects
    BY <1>3, <2>1, ObjectsEnumerated DEF Children
  <2> QED
    BY <2>2, <2>3 DEF BytesStay
<1>5. CleanManifestCertified'
  BY <1>2 DEF IInv, CleanManifestCertified, Directories, Selected, clean
<1> QED
  BY <1>2, <1>4, <1>5

LEMMA TargetIsEntered ==
    ASSUME IInv, NEW p \in Processes, stage[p] = "targetSynced", Enter(TargetReplacesSource),
           UNCHANGED <<content, clean, frontier>>
    PROVE  /\ disk' \subseteq Dirs /\ where' \in disk' /\ DirInv'
           /\ where'["owner"] = where["owner"] /\ Selected(where') = "target"
           /\ SelectionIsComplete' /\ CleanManifestCertified'
<1> DEFINE After(dir) == [dir EXCEPT !["source"] = "absent", !["target"] = "selected"]
<1>1. TypeInv /\ DirInv /\ SelectionIsComplete
  BY DEF IInv
<1>2. where \in disk /\ disk \subseteq Dirs
  BY <1>1 DEF TypeInv
<1>3. /\ UnderSource /\ SlotEntered /\ slot.images = {frontier}
      /\ certificate = frontier /\ content["target"] = "synced"
  BY ReadyToReplace DEF BeforeReplacement, Held, TargetHeld
<1>4. \A dir \in disk : Moved(dir, TargetReplacesSource) = After(dir) /\ After(dir) \in Dirs
  BY <1>2, MovedTarget
<1>5. disk' = disk \cup {After(dir) : dir \in disk} /\ where' = After(where)
  BY <1>2, <1>4 DEF Enter
<1>6. \A dir \in disk : Opened(dir) /\ Selected(dir) = "source" /\ dir["source"] = "selected"
  BY <1>1, <1>2, <1>3, SelectedIsOpened, SelectedCases DEF DirInv, UnderSource
<1>7. ASSUME NEW dir \in disk
      PROVE  /\ Opened(After(dir)) /\ Selected(After(dir)) = "target"
             /\ After(dir)["cleanSlot"] = "selected" /\ After(dir)["target"] = "selected"
             /\ After(dir)["owner"] = dir["owner"]
  BY <1>2, <1>3, <1>6, <1>7, ObjectsEnumerated
     DEF Opened, Selected, Dirs, Children, SlotEntered
<1>8. where' \in disk' /\ disk' \subseteq Dirs
  BY <1>2, <1>4, <1>5
<1>9. DirInv'
  BY <1>5, <1>6, <1>7 DEF DirInv, Shaped
<1>10. \A o \in Children \cup {"owner", "source", "target"} : content[o] = "synced"
  BY <1>1, <1>2, <1>3, <1>6 DEF SelectionIsComplete, Directories
<1>11. Directories' = disk'
  BY <1>8 DEF Directories
<1>12. \A dir \in disk' :
          /\ Opened(dir) /\ dir[Selected(dir)] = "selected"
          /\ Selected(dir) \in {"source", "target"}
          /\ Selected(dir) = "target" => dir["cleanSlot"] = "selected"
  <2>1. TAKE dir \in disk'
  <2>2. CASE dir \in disk
    BY <1>6, <2>2
  <2>3. CASE dir \notin disk
    <3>1. PICK old \in disk : dir = After(old)
      BY <1>5, <2>3
    <3> QED
      BY <1>7, <3>1
  <2> QED
    BY <2>2, <2>3
<1>13. SelectionIsComplete'
  <2>1. SUFFICES ASSUME NEW dir \in disk', NEW o \in Children \cup {"owner", Selected(dir)}
                 PROVE  dir[o] = "selected" /\ content'[o] = "synced"
    BY <1>11 DEF SelectionIsComplete, Selected
  <2>2. o \in Children \cup {"owner", "source", "target"} /\ dir[o] = "selected"
    BY <1>12, <2>1 DEF Opened
  <2> QED
    BY <1>10, <2>2
<1>14. CleanManifestCertified'
  BY <1>3, <1>11, <1>12 DEF CleanManifestCertified, clean, Selected
<1> QED
  BY <1>2, <1>5, <1>7, <1>8, <1>9, <1>13, <1>14

\* A step of close from the replacement on, given what it does to the directory.
LEMMA ReplacedStep ==
    ASSUME IInv, NEW p \in Processes, stage[p] \in {"targetSynced", "targetSelected", "targetDurable"},
           NEW s \in {"targetSelected", "targetDurable", "failed"}, Goto(p, s),
           UNCHANGED <<content, clean, data, lock, creating>>,
           report' = report \/ (s = "failed" /\ report' \in Reported),
           faults' \in Nat,
           \/ stage[p] = "targetSynced" /\ Enter(TargetReplacesSource)
           \/ where' = where /\ (disk' = disk \/ DirectorySynced),
           s = "targetSelected" => Enter(TargetReplacesSource) /\ stage[p] = "targetSynced",
           s = "targetDurable" => DirectorySynced /\ stage[p] = "targetSelected"
    PROVE  IInv'
<1>1. TypeInv /\ DirInv /\ LockInv
  BY DEF IInv
<1>2. stage[p] \in PastOwner /\ s \in PastOwner /\ stage[p] # "failed"
  BY PastOwnerStages
<1>3. /\ disk' \subseteq Dirs /\ where' \in disk' /\ DirInv'
      /\ where'["owner"] = where["owner"]
      /\ SelectionIsComplete' /\ CleanManifestCertified'
  <2>1. UNCHANGED <<content, clean, frontier>> /\ BytesStay
    BY DEF data, BytesStay
  <2> QED
    BY <2>1, TargetIsEntered, SyncKeepsPromises
<1>4. Advances(p, s)
  BY <1>2, <1>3, HolderStep
<1>5. TypeInv'
  BY <1>1, <1>3, <1>4 DEF Advances, TypeInv, clean, data, creating
<1>6. s \in {"targetSelected", "targetDurable"} => Selected(where') = "target"
  <2>1. CASE s = "targetSelected"
    BY <2>1, TargetIsEntered DEF data
  <2>2. CASE s = "targetDurable"
    <3>1. Selected(where) = "target"
      BY <1>4, <2>2 DEF Advances, Held, TargetHeld
    <3>2. where' = where
      BY <2>2
    <3> QED
      BY <3>1, <3>2
  <2> QED
    BY <2>1, <2>2
<1>7. s = "targetDurable" => disk' = {where'}
  BY DEF DirectorySynced
<1>8. Held(p)'
  <2>1. /\ stage'[p] = s /\ content'["owner"] # "empty" /\ where'["owner"] = "selected"
    BY <1>3, <1>4 DEF Advances, Held, CreateHeld
  <2>2. CreateHeld(p)'
    BY <2>1 DEF CreateHeld
  <2>3. OpenHeld(p)'
    BY <2>1 DEF OpenHeld, PreparingClose, BeforeReplacement
  <2>4. SlotHeld(p)'
    BY <2>1 DEF SlotHeld, PreparingClose, BeforeReplacement
  <2>5. TargetHeld(p)'
    BY <1>6, <1>7, <2>1 DEF TargetHeld, Selected
  <2> QED
    BY <2>2, <2>3, <2>4, <2>5 DEF Held
<1> QED
  BY <1>3, <1>4, <1>5, <1>8 DEF IInv, Advances

LEMMA ReplacementStep ==
    ASSUME IInv, NEW p \in Processes,
           \/ ReplaceManifest(p) \/ SyncManifestDirectory(p) \/ ReplacementReported(p)
           \/ SelectionReported(p) \/ DurabilityReported(p)
    PROVE  IInv'
<1>1. faults \in Nat
  BY DEF IInv, TypeInv
<1>2. CASE ReplaceManifest(p)
  BY <1>1, <1>2, ReplacedStep DEF ReplaceManifest, Step
<1>3. CASE SyncManifestDirectory(p)
  BY <1>1, <1>3, ReplacedStep DEF SyncManifestDirectory, Step
<1>4. CASE ReplacementReported(p)
  BY <1>1, <1>4, ReplacedStep DEF ReplacementReported, Reports, Reported
<1>5. CASE SelectionReported(p)
  BY <1>1, <1>5, ReplacedStep DEF SelectionReported, Reports, Reported
<1>6. CASE DurabilityReported(p)
  BY <1>1, <1>6, ReplacedStep DEF DurabilityReported, Reports, Reported
<1> QED
  BY <1>2, <1>3, <1>4, <1>5, <1>6

-------------------------------------------------------------------------------
(* Steps of an opening, which synchronize what they found *)

LEMMA ContentSyncs ==
    ASSUME content \in [Objects -> Bytes], NEW objects, ContentSynced(objects)
    PROVE  /\ content' \in [Objects -> Bytes] /\ BytesStay
           /\ content["owner"] # "empty" => content'["owner"] # "empty"
  BY ObjectsEnumerated DEF ContentSynced, BytesStay, Bytes

LEMMA OpeningStep ==
    ASSUME IInv, NEW p \in Processes,
           \/ SyncSelectedManifest(p) \/ FinishChildren(p) \/ OpenPublished(p)
    PROVE  IInv'
<1>1. PICK from \in {"inspected", "selected", "published"},
           s \in {"selected", "repaired", "recoveryRequired"}, objects \in SUBSET (Objects \cup {"none"}) :
        /\ stage[p] = from /\ Goto(p, s) /\ ContentSynced(objects)
        /\ s # "repaired" => DirectorySynced
        /\ s = "repaired" => disk' = disk /\ from = "selected"
        /\ s = "recoveryRequired" => Selected(where) = "source"
        /\ s = "selected" => from = "inspected"
  <2>1. Selected(where) \in Objects \cup {"none"} /\ Children \subseteq Objects
    BY ObjectsEnumerated DEF Selected, Children
  <2>2. "source" \in Objects
    BY ObjectsEnumerated
  <2> QED
    BY <2>1, <2>2 DEF SyncSelectedManifest, FinishChildren, OpenPublished, Step
<1>2. /\ TypeInv /\ DirInv /\ HeldInv
      /\ UNCHANGED <<where, clean, data, lock, report, faults>>
  BY DEF IInv, SyncSelectedManifest, FinishChildren, OpenPublished, Step
<1>3. phase' \in [Processes -> 0 .. Published + 1] /\ item' \in [Processes -> 1 .. Len(Effects) + 1]
  BY <1>2, EffectsEnumerated
     DEF SyncSelectedManifest, FinishChildren, OpenPublished, creating, Forgotten, TypeInv
<1>4. /\ content' \in [Objects -> Bytes] /\ BytesStay
      /\ disk' = disk \/ DirectorySynced
  BY <1>1, <1>2, ContentSyncs DEF TypeInv
<1>5. /\ disk' \subseteq Dirs /\ where' \in disk' /\ DirInv'
      /\ SelectionIsComplete' /\ CleanManifestCertified'
  BY <1>2, <1>4, SyncKeepsPromises DEF data
<1>6. Advances(p, s)
  BY <1>1, <1>2, PastOwnerStages, HolderStep
<1>7. TypeInv'
  BY <1>2, <1>3, <1>4, <1>5, <1>6 DEF Advances, TypeInv, clean, data
<1>8. Held(p)'
  <2>1. disk' = {where'}
    BY <1>1, <1>2, <1>6 DEF Advances, Held, OpenHeld, DirectorySynced
  <2>2. Selected(where') # "none" /\ (s = "recoveryRequired" => UnderSource')
    BY <1>1, <1>2, <1>6, <2>1 DEF Advances, Held, OpenHeld, UnderSource, Selected
  <2>3. stage'[p] = s /\ where'["owner"] = "selected" /\ content'["owner"] # "empty"
    BY <1>1, <1>2, <1>6, ContentSyncs DEF Advances, Held, CreateHeld, TypeInv
  <2>4. CreateHeld(p)'
    BY <2>3 DEF CreateHeld
  <2>5. OpenHeld(p)'
    BY <2>1, <2>2, <2>3 DEF OpenHeld, PreparingClose, BeforeReplacement, Selected
  <2>6. SlotHeld(p)'
    BY <2>3 DEF SlotHeld, PreparingClose, BeforeReplacement
  <2>7. TargetHeld(p)'
    BY <2>3 DEF TargetHeld
  <2> QED
    BY <2>4, <2>5, <2>6, <2>7 DEF Held
<1> QED
  BY <1>5, <1>6, <1>7, <1>8 DEF IInv, Advances

-------------------------------------------------------------------------------
(* Steps of a creation *)

\* Where nothing is selected, nothing is promised.
LEMMA NothingSelected ==
    ASSUME where' \in disk', \A dir \in disk' : Selected(dir) = "none"
    PROVE  SelectionIsComplete' /\ CleanManifestCertified'
<1>1. Directories' = disk'
  BY DEF Directories
<1>2. SelectionIsComplete'
  BY <1>1 DEF SelectionIsComplete, Selected
<1>3. CleanManifestCertified'
  BY <1>1 DEF CleanManifestCertified, Selected
<1> QED
  BY <1>2, <1>3

\* At one of these stages, the other parts of what the holder knows are void.
LEMMA CreationHeld ==
    ASSUME NEW p \in Processes,
           NEW s \in {"ownerWritten", "owner", "creating", "objectCreated", "objectWritten",
                      "objectPublished", "published"},
           stage'[p] = s, CreateHeld(p)'
    PROVE  Held(p)'
<1>1. OpenHeld(p)'
  BY DEF OpenHeld, PreparingClose, BeforeReplacement
<1>2. SlotHeld(p)'
  BY DEF SlotHeld, PreparingClose, BeforeReplacement
<1>3. TargetHeld(p)'
  BY DEF TargetHeld
<1> QED
  BY <1>1, <1>2, <1>3 DEF Held

\* The effect that is being undone or done, and what creation knows.
LEMMA CreatingFacts ==
    ASSUME IInv, NEW p \in Processes, stage[p] = "creating"
    PROVE  /\ lock = p /\ Held(p) /\ Creating(p) /\ content["owner"] # "empty"
           /\ phase[p] \in 1 .. 8 /\ item[p] \in 1 .. 9
           /\ Undone(p) <=> phase[p] <= item[p]
           /\ Undone(p) /\ item[p] <= 8 => where = Unpublished(item[p])
           /\ ~Undone(p) => where = Unpublished(phase[p])
<1>1. lock = p /\ Held(p) /\ Creating(p) /\ content["owner"] # "empty"
  BY PastOwnerStages DEF IInv, LockInv, HeldInv, Held, CreateHeld, PastOwner
<1>2. phase[p] \in 1 .. 8 /\ item[p] \in 1 .. 9
  BY <1>1, EffectsEnumerated DEF Creating, IInv, TypeInv
<1> QED
  BY <1>1, <1>2, EffectsEnumerated DEF Creating, AtPhase, Undone

LEMMA CreateObjectStep ==
    ASSUME IInv, NEW p \in Processes, CreateObject(p)
    PROVE  IInv'
<1> DEFINE i == item[p]
<1>1. /\ TypeInv /\ DirInv /\ stage[p] = "creating" /\ Goto(p, "objectCreated")
      /\ Enter(Placed(Effects[i], "candidate"))
      /\ UNCHANGED <<content, clean, data, lock, phase, item, report, faults>>
  BY DEF IInv, CreateObject, Step, creating, Current
<1>2. Held(p) /\ Creating(p) /\ content["owner"] # "empty"
  BY <1>1, CreatingFacts
<1>3. i \in 1 .. 4 /\ Undone(p) /\ where = Unpublished(i) /\ disk = {where}
      /\ phase[p] \in 1 .. 8
  BY <1>1, CreatingFacts, EffectsEnumerated DEF CreateObject, Prepares, Creating
<1>4. Moved(where, Placed(Effects[i], "candidate")) = Unpublished(i + 1)
  <2>1. Effects[i] \in Objects /\ where \in Dirs /\ "candidate" \in Places
    BY <1>1, <1>3, PreparingEffect, ObjectsEnumerated DEF TypeInv, Places
  <2> QED
    BY <1>3, <2>1, MovedOne, PreparingEffect
<1>5. where' = Unpublished(i + 1) /\ disk' = {Unpublished(i), Unpublished(i + 1)}
  BY <1>1, <1>3, <1>4 DEF Enter
<1>6. i \in 0 .. 8 /\ i + 1 \in 0 .. 8 /\ i # 0 /\ i + 1 # 0
  BY <1>3
<1>7. /\ disk' \subseteq Dirs /\ where' \in disk'
      /\ \A dir \in disk' : Selected(dir) = "none"
      /\ where'["owner"] = "selected" /\ where["owner"] = "selected"
  BY <1>3, <1>5, <1>6, UnpublishedDir
<1>8. DirInv'
  <2>1. \A dir \in disk' : \E n \in 0 .. Published - 1 : dir = Unpublished(n)
    BY <1>5, <1>6, EffectsEnumerated
  <2> QED
    BY <2>1 DEF DirInv, Shaped
<1>9. Advances(p, "objectCreated")
  BY <1>1, <1>7, PastOwnerStages, HolderStep
<1>10. TypeInv'
  BY <1>1, <1>7, <1>9 DEF Advances, TypeInv, clean, data
<1>11. PreparingObject(p)'
  <2>1. item'[p] = i /\ phase'[p] = phase[p] /\ content' = content
    BY <1>1
  <2>2. Undone(p)'
    BY <1>3, <2>1 DEF Undone
  <2>3. Prepared(p)'
    BY <1>2, <2>1 DEF Creating, Prepared
  <2> QED
    BY <1>3, <1>5, <2>1, <2>2, <2>3, EffectsEnumerated DEF PreparingObject
<1>12. Held(p)'
  BY <1>1, <1>2, <1>7, <1>9, <1>11, CreationHeld DEF Advances, CreateHeld
<1>13. SelectionIsComplete' /\ CleanManifestCertified'
  BY <1>7, NothingSelected
<1> QED
  BY <1>8, <1>9, <1>10, <1>12, <1>13 DEF IInv, Advances

\* The holder is between the creation of a candidate and its synchronization.
LEMMA PreparingFacts ==
    ASSUME IInv, NEW p \in Processes, stage[p] \in {"objectCreated", "objectWritten"}
    PROVE  /\ lock = p /\ Held(p) /\ PreparingObject(p) /\ content["owner"] # "empty"
           /\ item[p] \in 1 .. 4 /\ phase[p] \in 1 .. 8
           /\ where["owner"] = "selected"
           /\ \A dir \in disk : Selected(dir) = "none"
<1>1. lock = p /\ Held(p) /\ PreparingObject(p) /\ content["owner"] # "empty"
  BY PastOwnerStages DEF IInv, LockInv, HeldInv, Held, CreateHeld, PastOwner
<1>2. /\ item[p] \in 1 .. 4 /\ phase[p] \in 1 .. 8
      /\ item[p] \in 0 .. 8 /\ item[p] + 1 \in 0 .. 8
  BY <1>1, EffectsEnumerated DEF PreparingObject
<1> QED
  BY <1>1, <1>2, UnpublishedDir DEF PreparingObject, Held, CreateHeld

LEMMA WriteObjectStep ==
    ASSUME IInv, NEW p \in Processes, WriteObject(p)
    PROVE  IInv'
<1> DEFINE i == item[p]
<1>1. /\ TypeInv /\ DirInv /\ stage[p] = "objectCreated" /\ Goto(p, "objectWritten")
      /\ content' = [content EXCEPT ![Effects[i]] = "written"]
      /\ UNCHANGED <<where, disk, clean, data, lock, phase, item, report, faults>>
  BY DEF IInv, WriteObject, Step, creating, Current
<1>2. /\ PreparingObject(p) /\ i \in 1 .. 4 /\ where["owner"] = "selected"
      /\ content["owner"] # "empty" /\ \A dir \in disk : Selected(dir) = "none"
  BY <1>1, PreparingFacts
<1>3. Effects[i] \in Objects \ {"owner"} /\ \A j \in 1 .. 4 : j < i => Effects[j] # Effects[i]
  <2>1. i = 1 \/ i = 2 \/ i = 3 \/ i = 4
    BY <1>2
  <2>2. \A j \in 1 .. 4 : j = 1 \/ j = 2 \/ j = 3 \/ j = 4
    OBVIOUS
  <2> QED
    BY <2>1, <2>2, EffectsEnumerated, ObjectsEnumerated
<1>4. Advances(p, "objectWritten")
  BY <1>1, PastOwnerStages, HolderStep
<1>5. content' \in [Objects -> Bytes] /\ content'["owner"] = content["owner"]
  BY <1>1, <1>3, ObjectsEnumerated DEF TypeInv, Bytes
<1>6. TypeInv'
  BY <1>1, <1>4, <1>5 DEF Advances, TypeInv, clean, data
<1>7. DirInv' /\ SelectionIsComplete' /\ CleanManifestCertified'
  BY <1>1, <1>2, SyncedOrKept, NothingSelected DEF TypeInv
<1>8. PreparingObject(p)'
  <2>1. \A j \in 1 .. 4 : j < i => content[Effects[j]] = "synced"
    BY <1>2 DEF PreparingObject, Prepared
  <2>2. \A j \in 1 .. 4 : j < i => Effects[j] \in Objects
    BY PreparingEffect, ObjectsEnumerated
  <2>3. \A j \in 1 .. 4 : j < i => content'[Effects[j]] = "synced"
    BY <1>1, <1>3, <2>1, <2>2 DEF TypeInv
  <2>4. Prepared(p)' /\ Undone(p)'
    BY <1>1, <1>2, <1>5, <2>3 DEF PreparingObject, Prepared, Undone
  <2> QED
    BY <1>1, <1>2, <1>5, <2>4 DEF PreparingObject
<1>9. Held(p)'
  BY <1>1, <1>2, <1>4, <1>5, <1>8, CreationHeld DEF Advances, CreateHeld
<1> QED
  BY <1>4, <1>6, <1>7, <1>9 DEF IInv, Advances

LEMMA SyncObjectStep ==
    ASSUME IInv, NEW p \in Processes, SyncObject(p)
    PROVE  IInv'
<1> DEFINE i == item[p]
<1>1. /\ TypeInv /\ DirInv /\ stage[p] = "objectWritten" /\ Goto(p, "creating")
      /\ content' = [content EXCEPT ![Effects[i]] = "synced"]
      /\ DirectorySynced /\ item' = [item EXCEPT ![p] = @ + 1]
      /\ UNCHANGED <<where, clean, data, lock, phase, report, faults>>
  BY DEF IInv, SyncObject, Step, Current, NextItem
<1>2. /\ PreparingObject(p) /\ i \in 1 .. 4 /\ where["owner"] = "selected"
      /\ content["owner"] # "empty" /\ phase[p] \in 1 .. 8
  BY <1>1, PreparingFacts
<1>3. content' \in [Objects -> Bytes] /\ BytesStay
  BY <1>1, ObjectsEnumerated, PreparingEffect DEF TypeInv, Bytes, BytesStay
<1>4. Advances(p, "creating")
  BY <1>1, PastOwnerStages, HolderStep
<1>5. /\ disk' \subseteq Dirs /\ where' \in disk' /\ DirInv'
      /\ SelectionIsComplete' /\ CleanManifestCertified'
  BY <1>1, <1>3, SyncKeepsPromises DEF data
<1>6. item' \in [Processes -> 1 .. Len(Effects) + 1] /\ item'[p] = i + 1
  BY <1>1, <1>2, EffectsEnumerated DEF TypeInv
<1>7. TypeInv'
  BY <1>1, <1>3, <1>4, <1>5, <1>6 DEF Advances, TypeInv, clean, data
<1>8. Creating(p)'
  <2>1. content'["owner"] = "synced"
    BY <1>2, <1>3, ObjectsEnumerated DEF PreparingObject, Prepared, BytesStay
  <2>2. ASSUME NEW j \in 1 .. 4, j < i + 1 PROVE content'[Effects[j]] = "synced"
    <3>1. Effects[j] \in Objects
      BY PreparingEffect, ObjectsEnumerated
    <3>2. CASE j < i
      BY <1>2, <1>3, <3>1, <3>2 DEF PreparingObject, Prepared, BytesStay
    <3>3. CASE j = i
      BY <1>1, <3>1, <3>3 DEF TypeInv
    <3> QED
      BY <1>2, <2>2, <3>2, <3>3
  <2>3. AtPhase(where', i + 1) /\ phase[p] <= i
    BY <1>1, <1>2, EffectsEnumerated DEF PreparingObject, AtPhase, Undone
  <2>4. Prepared(p)'
    BY <1>6, <2>1, <2>2 DEF Prepared
  <2>5. phase' = phase /\ disk' = {where'}
    BY <1>1 DEF DirectorySynced
  <2>6. i + 1 = IF phase'[p] <= item'[p] THEN item'[p] ELSE phase'[p]
    BY <1>2, <1>6, <2>3, <2>5
  <2> QED
    BY <1>2, <2>3, <2>4, <2>5, <2>6, CreatingNext
<1>9. Held(p)'
  <2>1. content'["owner"] # "empty"
    BY <1>8 DEF Creating, Prepared
  <2> QED
    BY <1>1, <1>2, <1>4, <1>8, <2>1, CreationHeld DEF Advances, CreateHeld
<1> QED
  BY <1>4, <1>5, <1>7, <1>9 DEF IInv, Advances

LEMMA ReopenObjectStep ==
    ASSUME IInv, NEW p \in Processes, ReopenObject(p)
    PROVE  IInv'
<1> DEFINE i == item[p]
<1>1. /\ TypeInv /\ DirInv /\ stage[p] = "creating" /\ Goto(p, "creating")
      /\ content' = [content EXCEPT ![Effects[i]] = "synced"]
      /\ DirectorySynced /\ item' = [item EXCEPT ![p] = @ + 1]
      /\ UNCHANGED <<where, clean, data, lock, phase, report, faults>>
  BY DEF IInv, ReopenObject, Step, Current, NextItem
<1>2. /\ Creating(p) /\ i \in 1 .. 4 /\ ~Undone(p) /\ where["owner"] = "selected"
      /\ content["owner"] # "empty" /\ phase[p] \in 1 .. 8 /\ where = Unpublished(phase[p])
  BY <1>1, CreatingFacts, EffectsEnumerated DEF ReopenObject, Prepares, Held, CreateHeld
<1>3. content' \in [Objects -> Bytes] /\ BytesStay
  BY <1>1, ObjectsEnumerated, PreparingEffect DEF TypeInv, Bytes, BytesStay
<1>4. Advances(p, "creating")
  BY <1>1, PastOwnerStages, HolderStep
<1>5. /\ disk' \subseteq Dirs /\ where' \in disk' /\ DirInv'
      /\ SelectionIsComplete' /\ CleanManifestCertified'
  BY <1>1, <1>3, SyncKeepsPromises DEF data
<1>6. item' \in [Processes -> 1 .. Len(Effects) + 1] /\ item'[p] = i + 1
  BY <1>1, <1>2, EffectsEnumerated DEF TypeInv
<1>7. TypeInv'
  BY <1>1, <1>3, <1>4, <1>5, <1>6 DEF Advances, TypeInv, clean, data
<1>8. Creating(p)'
  <2>1. content'["owner"] = "synced"
    BY <1>2, <1>3, ObjectsEnumerated DEF Creating, Prepared, BytesStay
  <2>2. ASSUME NEW j \in 1 .. 4, j < i + 1 PROVE content'[Effects[j]] = "synced"
    <3>1. Effects[j] \in Objects
      BY PreparingEffect, ObjectsEnumerated
    <3>2. CASE j < i
      BY <1>2, <1>3, <3>1, <3>2 DEF Creating, Prepared, BytesStay
    <3>3. CASE j = i
      BY <1>1, <3>1, <3>3 DEF TypeInv
    <3> QED
      BY <1>2, <2>2, <3>2, <3>3
  <2>3. i + 1 <= phase[p]
    BY <1>2 DEF Undone
  <2>4. AtPhase(where', IF phase[p] <= i + 1 THEN i + 1 ELSE phase[p])
    BY <1>1, <1>2, <2>3, EffectsEnumerated DEF AtPhase
  <2>5. phase' = phase /\ disk' = {where'}
    BY <1>1 DEF DirectorySynced
  <2>6. Prepared(p)'
    BY <1>6, <2>1, <2>2 DEF Prepared
  <2> QED
    BY <1>2, <1>6, <2>4, <2>5, <2>6, CreatingNext
<1>9. Held(p)'
  <2>1. content'["owner"] # "empty"
    BY <1>8 DEF Creating, Prepared
  <2> QED
    BY <1>1, <1>2, <1>4, <1>8, <2>1, CreationHeld DEF Advances, CreateHeld
<1> QED
  BY <1>4, <1>5, <1>7, <1>9 DEF IInv, Advances

\* Once the candidates are there, their bytes are too.
LEMMA PreparedAll ==
    ASSUME NEW p \in Processes, Prepared(p), item[p] \in 5 .. 9
    PROVE  \A o \in Children \cup {"owner", "source"} : content[o] = "synced"
<1>1. \A i \in 1 .. 4 : content[Effects[i]] = "synced"
  BY DEF Prepared
<1>2. /\ content["source"] = "synced" /\ content["wal"] = "synced"
      /\ content["pages"] = "synced" /\ content["checkpoint"] = "synced"
  BY <1>1, EffectsEnumerated
<1> QED
  BY <1>2 DEF Prepared, Children

LEMMA PublishObjectStep ==
    ASSUME IInv, NEW p \in Processes, PublishObject(p)
    PROVE  IInv'
<1> DEFINE i == item[p]
<1>1. /\ TypeInv /\ DirInv /\ stage[p] = "creating" /\ Goto(p, "objectPublished")
      /\ Enter(Placed(Effects[i], "selected"))
      /\ UNCHANGED <<content, clean, data, lock, phase, item, report, faults>>
  BY DEF IInv, PublishObject, Step, creating, Current
<1>2. Held(p) /\ Creating(p) /\ content["owner"] # "empty"
  BY <1>1, CreatingFacts
<1>3. i \in 5 .. 8 /\ Undone(p) /\ where = Unpublished(i) /\ disk = {where}
      /\ phase[p] \in 1 .. 8 /\ i \in 0 .. 8
  BY <1>1, CreatingFacts, EffectsEnumerated DEF PublishObject, Prepares, Creating
<1>4. /\ where' = Moved(where, Placed(Effects[i], "selected"))
      /\ disk' = {Unpublished(i), where'}
  BY <1>1, <1>3 DEF Enter
<1>5. where' \in Dirs /\ AtPhase(where', i + 1) /\ where'["owner"] = where["owner"]
  <2>1. Effects[i] \in Objects \ {"owner"} /\ where \in Dirs /\ "selected" \in Places
    BY <1>1, <1>3, PublishingEffect, ObjectsEnumerated DEF TypeInv, Places
  <2>2. where' = [where EXCEPT ![Effects[i]] = "selected"] /\ where' \in Dirs
    BY <1>4, <2>1, MovedOne
  <2> QED
    BY <1>3, <2>1, <2>2, PublishingEffect, ObjectsEnumerated DEF Dirs
<1>6. disk' \subseteq Dirs /\ where' \in disk' /\ Directories' = disk'
  BY <1>3, <1>4, <1>5, UnpublishedDir DEF Directories
<1>7. Shaped(where') /\ Shaped(Unpublished(i))
  BY <1>3, <1>5, EffectsEnumerated DEF AtPhase, Shaped
<1>8. DirInv'
  <2>1. \A dir \in disk' : Shaped(dir)
    BY <1>4, <1>7
  <2> QED
    BY <2>1 DEF DirInv
<1>9. Advances(p, "objectPublished")
  BY <1>1, <1>5, PastOwnerStages, HolderStep
<1>10. TypeInv'
  BY <1>1, <1>6, <1>9 DEF Advances, TypeInv, clean, data
<1>11. PublishingObject(p)'
  <2>1. item'[p] = i /\ phase'[p] = phase[p] /\ content' = content
    BY <1>1
  <2>2. Undone(p)'
    BY <1>3, <2>1 DEF Undone
  <2>3. Prepared(p)'
    BY <1>2, <2>1 DEF Creating, Prepared
  <2>4. AtPhase(where, item[p] + 1)'
    BY <1>5, <2>1 DEF AtPhase, Opened
  <2> QED
    BY <1>3, <2>1, <2>2, <2>3, <2>4, EffectsEnumerated DEF PublishingObject
<1>12. Held(p)'
  BY <1>1, <1>2, <1>5, <1>9, <1>11, CreationHeld DEF Advances, CreateHeld, Held
<1>13. Selected(Unpublished(i)) = "none" /\ Selected(where') \in {"none", "source"}
  <2>1. i # 8 => Selected(where') = "none"
    <3>1. i # 8 => i + 1 \in 0 .. 8
      BY <1>3
    <3> QED
      BY <1>5, <3>1, EffectsEnumerated, UnpublishedDir DEF AtPhase
  <2>2. i = 8 => Selected(where') = "source"
    BY <1>5, EffectsEnumerated DEF AtPhase, Opened, Selected
  <2> QED
    BY <1>3, <2>1, <2>2, UnpublishedDir
<1>14. \A o \in Children \cup {"owner", "source"} : content'[o] = "synced"
  BY <1>1, <1>2, <1>3, PreparedAll DEF Creating
<1>15. SelectionIsComplete'
  <2>1. Selected(where') = "source" => Opened(where') /\ where'["source"] = "selected"
    BY <1>5, <1>7, SelectedIsOpened, SelectedCases
  <2>2. Selected(where') = "source" =>
            \A o \in Children \cup {"owner", "source"} :
                where'[o] = "selected" /\ content'[o] = "synced"
    BY <1>14, <2>1 DEF Opened
  <2> QED
    BY <1>4, <1>6, <1>13, <2>2 DEF SelectionIsComplete, Selected
<1>16. CleanManifestCertified'
  BY <1>4, <1>6, <1>13 DEF CleanManifestCertified, Selected
<1> QED
  BY <1>8, <1>9, <1>10, <1>12, <1>15, <1>16 DEF IInv, Advances

LEMMA SyncPublishedStep ==
    ASSUME IInv, NEW p \in Processes, SyncPublished(p)
    PROVE  IInv'
<1> DEFINE i == item[p]
<1>1. /\ TypeInv /\ DirInv /\ stage[p] = "objectPublished" /\ Goto(p, "creating")
      /\ DirectorySynced /\ item' = [item EXCEPT ![p] = @ + 1]
      /\ UNCHANGED <<where, content, clean, data, lock, phase, report, faults>>
  BY DEF IInv, SyncPublished, Step, NextItem
<1>2. Advances(p, "creating") /\ BytesStay
  BY <1>1, PastOwnerStages, HolderStep DEF BytesStay
<1>3. /\ PublishingObject(p) /\ i \in 5 .. 8 /\ where["owner"] = "selected"
      /\ content["owner"] # "empty" /\ phase[p] \in 1 .. 8
  BY <1>1, <1>2, EffectsEnumerated DEF Advances, Held, CreateHeld, PublishingObject
<1>4. /\ disk' \subseteq Dirs /\ where' \in disk' /\ DirInv'
      /\ SelectionIsComplete' /\ CleanManifestCertified'
  BY <1>1, <1>2, SyncKeepsPromises DEF data
<1>5. item' \in [Processes -> 1 .. Len(Effects) + 1] /\ item'[p] = i + 1
  BY <1>1, <1>3, EffectsEnumerated DEF TypeInv
<1>6. TypeInv'
  BY <1>1, <1>2, <1>4, <1>5 DEF Advances, TypeInv, clean, data
<1>7. Creating(p)'
  <2>1. content'["owner"] = "synced" /\ \A j \in 1 .. 4 : content'[Effects[j]] = "synced"
    BY <1>1, <1>3 DEF PublishingObject, Prepared
  <2>2. AtPhase(where', i + 1) /\ phase[p] <= i
    BY <1>1, <1>3, EffectsEnumerated DEF PublishingObject, Undone
  <2>3. Prepared(p)'
    BY <2>1 DEF Prepared
  <2>4. phase' = phase /\ disk' = {where'} /\ phase[p] \in 1 .. 8 /\ i \in 5 .. 8
    BY <1>1, <1>3, EffectsEnumerated DEF DirectorySynced, PublishingObject
  <2>5. i + 1 = IF phase'[p] <= item'[p] THEN item'[p] ELSE phase'[p]
    BY <1>5, <2>2, <2>4
  <2> QED
    BY <2>2, <2>3, <2>4, <2>5, CreatingNext
<1>8. Held(p)'
  BY <1>1, <1>2, <1>3, <1>7, CreationHeld DEF Advances, CreateHeld
<1> QED
  BY <1>2, <1>4, <1>6, <1>8 DEF IInv, Advances

-------------------------------------------------------------------------------
(* Steps on the owner file, and what processes without the lock do *)

LEMMA WriteOwnerStep ==
    ASSUME IInv, NEW p \in Processes, WriteOwner(p)
    PROVE  IInv'
<1>1. /\ TypeInv /\ DirInv /\ LockInv /\ ReportInv /\ OwnerInv /\ HeldInv
      /\ stage[p] = "ownerLocked" /\ Goto(p, "ownerWritten")
      /\ content' = [content EXCEPT !["owner"] = "written"]
      /\ UNCHANGED <<where, disk, clean, data, lock, phase, item, report, faults>>
  BY DEF IInv, WriteOwner, Step, creating
<1>2. lock = p /\ p # Nobody
  BY <1>1, ProcessesAssumption DEF LockInv, Unlocked
<1>3. /\ stage' \in [Processes -> Stages] /\ stage'[p] = "ownerWritten"
      /\ \A q \in Processes \ {p} : stage'[q] = stage[q]
  BY <1>1 DEF TypeInv, Goto, Stages, CreateStages
<1>4. /\ where = Unpublished(1) /\ disk \subseteq {Unpublished(0), Unpublished(1)}
      /\ \A q \in Processes \ {p} : stage[q] \notin {"ownerCreated", "ownerLocked"}
  BY <1>1 DEF OwnerInv
<1>5. where["owner"] = "selected" /\ \A dir \in disk : Selected(dir) = "none"
  BY <1>4, UnpublishedDir
<1>6. content' \in [Objects -> Bytes] /\ content'["owner"] = "written"
  BY <1>1, ObjectsEnumerated DEF TypeInv, Bytes
<1>7. TypeInv'
  BY <1>1, <1>3, <1>6 DEF TypeInv, clean, data
<1>8. LockInv' /\ ReportInv'
  BY <1>1, <1>2, <1>3 DEF LockInv, ReportInv, Unlocked
<1>9. OwnerInv'
  BY <1>1, <1>3, <1>4, <1>5 DEF OwnerInv
<1>10. DirInv' /\ SelectionIsComplete' /\ CleanManifestCertified'
  BY <1>1, <1>5, SyncedOrKept, NothingSelected DEF TypeInv
<1>11. Held(p)'
  BY <1>1, <1>3, <1>5, <1>6, CreationHeld DEF CreateHeld
<1>12. HeldInv'
  BY <1>1, <1>2, <1>11 DEF HeldInv
<1> QED
  BY <1>7, <1>8, <1>9, <1>10, <1>12 DEF IInv

LEMMA SyncOwnerStep ==
    ASSUME IInv, NEW p \in Processes, SyncOwner(p)
    PROVE  IInv'
<1>1. /\ TypeInv /\ DirInv /\ stage[p] = "ownerWritten" /\ Goto(p, "owner")
      /\ content' = [content EXCEPT !["owner"] = "synced"] /\ DirectorySynced
      /\ UNCHANGED <<where, clean, data, lock, phase, item, report, faults>>
  BY DEF IInv, SyncOwner, Step, creating
<1>2. content' \in [Objects -> Bytes] /\ BytesStay
  BY <1>1, ObjectsEnumerated DEF TypeInv, Bytes, BytesStay
<1>3. Advances(p, "owner")
  BY <1>1, PastOwnerStages, HolderStep
<1>4. /\ disk' \subseteq Dirs /\ where' \in disk' /\ DirInv'
      /\ SelectionIsComplete' /\ CleanManifestCertified'
  BY <1>1, <1>2, SyncKeepsPromises DEF data
<1>5. TypeInv'
  BY <1>1, <1>2, <1>3, <1>4 DEF Advances, TypeInv, clean, data
<1>6. Held(p)'
  BY <1>1, <1>3, CreationHeld DEF Advances, Held, CreateHeld
<1> QED
  BY <1>3, <1>4, <1>5, <1>6 DEF IInv, Advances

LEMMA ResumeCreateStep ==
    ASSUME IInv, NEW p \in Processes, ResumeCreate(p)
    PROVE  IInv'
<1> DEFINE n == Min(Phases(where))
           s == IF n = Published THEN "published" ELSE "creating"
<1>1. /\ TypeInv /\ DirInv /\ LockInv /\ ReportInv /\ OwnerInv /\ HeldInv
      /\ stage[p] = "owner" /\ content["owner"] # "empty" /\ Phases(where) \ {0} # {}
      /\ content' = [content EXCEPT !["owner"] = "synced"] /\ DirectorySynced
      /\ phase' = [phase EXCEPT ![p] = n] /\ item' = [item EXCEPT ![p] = 1]
      /\ UNCHANGED <<where, clean, data, lock, report, faults>>
  BY DEF IInv, ResumeCreate, Step, OwnerReadable
<1>2. /\ n \in 1 .. 9 /\ (n = 9 => Opened(where)) /\ (n # 9 => where = Unpublished(n))
  <2>1. where \in Dirs /\ Shaped(where)
    BY <1>1 DEF TypeInv, DirInv
  <2>2. PICK m \in 0 .. 9 :
            /\ Phases(where) = {m} /\ n = m
            /\ m = 9 => Opened(where)
            /\ m # 9 => where = Unpublished(m)
    BY <2>1, ShapedPhase
  <2> QED
    BY <1>1, <2>2
<1>3. phase'[p] = n /\ item'[p] = 1
  BY <1>1 DEF TypeInv
<1>4. Goto(p, s)
  BY <1>3 DEF ResumeCreate, Step
<1>5. lock = p /\ lock' = p /\ p # Nobody
  BY <1>1, ProcessesAssumption DEF LockInv, Unlocked
<1>6. /\ stage' \in [Processes -> Stages] /\ stage'[p] = s
      /\ \A q \in Processes \ {p} : stage'[q] = stage[q]
  BY <1>1, <1>4 DEF TypeInv, Goto, Stages, CreateStages
<1>7. content' \in [Objects -> Bytes] /\ BytesStay /\ content'["owner"] = "synced"
  BY <1>1, ObjectsEnumerated DEF TypeInv, Bytes, BytesStay
<1>8. /\ disk' \subseteq Dirs /\ where' \in disk' /\ DirInv'
      /\ SelectionIsComplete' /\ CleanManifestCertified'
  BY <1>1, <1>7, SyncKeepsPromises DEF data
<1>9. TypeInv'
  <2>1. phase' \in [Processes -> 0 .. Published + 1] /\ item' \in [Processes -> 1 .. Len(Effects) + 1]
    BY <1>1, <1>2, EffectsEnumerated DEF TypeInv
  <2> QED
    BY <1>1, <1>6, <1>7, <1>8, <2>1 DEF TypeInv, clean, data
<1>10. LockInv' /\ ReportInv'
  BY <1>1, <1>5, <1>6 DEF LockInv, ReportInv, Unlocked
<1>11. where["owner"] = "selected"
  BY <1>1, <1>5 DEF HeldInv, Held, CreateHeld
<1>12. OwnerInv'
  <2>1. \A q \in Processes : stage[q] \notin {"ownerCreated", "ownerLocked"}
    BY <1>1 DEF OwnerInv
  <2>2. \A q \in Processes : stage'[q] \notin {"ownerCreated", "ownerLocked"}
    BY <1>6, <2>1
  <2> QED
    BY <1>1, <1>11, <2>2 DEF OwnerInv
<1>13. s = "creating" => Creating(p)'
  <2>1. SUFFICES ASSUME n \in 1 .. 8 PROVE Creating(p)'
    BY <1>2, EffectsEnumerated
  <2>2. where' = Unpublished(n) /\ disk' = {where'}
    BY <1>1, <1>2, <2>1 DEF DirectorySynced
  <2>3. AtPhase(where', IF n <= 1 THEN 1 ELSE n)
    BY <2>1, <2>2, EffectsEnumerated DEF AtPhase
  <2>4. Prepared(p)'
    BY <1>3, <1>7 DEF Prepared
  <2> QED
    BY <1>3, <2>1, <2>2, <2>3, <2>4, CreatingNext
<1>14. Held(p)'
  BY <1>1, <1>6, <1>7, <1>11, <1>13, CreationHeld DEF CreateHeld
<1>15. HeldInv'
  BY <1>5, <1>14 DEF HeldInv
<1> QED
  BY <1>8, <1>9, <1>10, <1>12, <1>15 DEF IInv

LEMMA CreateOwnerStep ==
    ASSUME IInv, NEW p \in Processes, CreateOwner(p)
    PROVE  IInv'
<1>1. /\ TypeInv /\ DirInv /\ LockInv /\ ReportInv /\ OwnerInv /\ HeldInv
      /\ stage[p] = "observed" /\ Goto(p, "ownerCreated") /\ where["owner"] = "absent"
      /\ Enter(Placed("owner", "selected"))
      /\ UNCHANGED <<content, clean, data, lock, phase, item, report, faults>>
  BY DEF IInv, CreateOwner, Step, creating
<1>2. disk = {where} /\ content["owner"] = "empty" /\ where = Unpublished(0)
  <2>1. where \in Dirs /\ Shaped(where)
    BY <1>1 DEF TypeInv, DirInv
  <2> QED
    BY <1>1, <2>1, UnpublishedDir, OpenedDir, EffectsEnumerated DEF OwnerInv, Shaped
<1>3. lock = Nobody
  BY <1>1 DEF HeldInv, Held, CreateHeld, TypeInv
<1>4. \A q \in Processes : stage[q] \notin {"ownerCreated", "ownerLocked"}
  <2>1. Unpublished(1)["owner"] # "absent"
    BY UnpublishedDir
  <2> QED
    BY <1>1, <2>1 DEF OwnerInv
<1>5. /\ stage' \in [Processes -> Stages] /\ stage'[p] = "ownerCreated"
      /\ \A q \in Processes \ {p} : stage'[q] = stage[q]
  BY <1>1 DEF TypeInv, Goto, Stages, CreateStages
<1>6. Moved(where, Placed("owner", "selected")) = Unpublished(1)
  <2>1. "owner" \in Objects /\ "selected" \in Places /\ where \in Dirs
    BY <1>1, ObjectsEnumerated DEF TypeInv, Places
  <2>2. [Unpublished(0) EXCEPT !["owner"] = "selected"] = Unpublished(1)
    BY UnpublishedEnumerated, ObjectsEnumerated DEF Entries
  <2> QED
    BY <1>2, <2>1, <2>2, MovedOne
<1>7. where' = Unpublished(1) /\ disk' = {Unpublished(0), Unpublished(1)}
  BY <1>1, <1>2, <1>6 DEF Enter
<1>8. /\ disk' \subseteq Dirs /\ where' \in disk' /\ where'["owner"] = "selected"
      /\ \A dir \in disk' : Selected(dir) = "none"
  BY <1>7, UnpublishedDir
<1>9. TypeInv'
  BY <1>1, <1>5, <1>8 DEF TypeInv, clean, data
<1>10. LockInv' /\ ReportInv'
  BY <1>1, <1>3, <1>5 DEF LockInv, ReportInv, Unlocked
<1>11. OwnerInv'
  BY <1>1, <1>2, <1>4, <1>5, <1>7, <1>8 DEF OwnerInv, Unpublished
<1>12. DirInv'
  <2>1. \A dir \in disk' : Shaped(dir)
    BY <1>7, EffectsEnumerated DEF Shaped
  <2> QED
    BY <2>1 DEF DirInv
<1>13. SelectionIsComplete' /\ CleanManifestCertified'
  BY <1>8, NothingSelected
<1>14. HeldInv'
  BY <1>1, <1>3, ProcessesAssumption DEF HeldInv
<1> QED
  BY <1>9, <1>10, <1>11, <1>12, <1>13, <1>14 DEF IInv

\* The lock is taken, over files that stay as they are.
LEMMA LockStep ==
    ASSUME IInv, NEW p \in Processes, stage[p] \in Unlocked, lock = Nobody, lock' = p,
           NEW s \in {"ownerLocked", "owner", "inspected"}, Goto(p, s),
           s = "ownerLocked" => stage[p] = "ownerCreated",
           s # "ownerLocked" => stage[p] # "ownerCreated",
           s = "owner" => where["owner"] = "selected",
           s = "inspected" => Selected(where) # "none",
           UNCHANGED <<files, clean, data, creating, report, faults>>
    PROVE  IInv'
<1>1. TypeInv /\ DirInv /\ LockInv /\ ReportInv /\ OwnerInv /\ HeldInv /\ SelectionIsComplete
  BY DEF IInv
<1>2. /\ stage' \in [Processes -> Stages] /\ stage'[p] = s
      /\ \A q \in Processes \ {p} : stage'[q] = stage[q]
  BY <1>1 DEF TypeInv, Goto, Stages, CreateStages, OpenStages
<1>3. p # Nobody /\ \A q \in Processes : stage[q] \in Unlocked
  BY <1>1, ProcessesAssumption DEF LockInv
<1>4. TypeInv'
  BY <1>1, <1>2 DEF TypeInv, files, clean, data, creating
<1>5. LockInv'
  BY <1>2, <1>3 DEF LockInv, Unlocked
<1>6. ReportInv'
  BY <1>1, <1>3, ProcessesAssumption DEF ReportInv, Unlocked
<1>7. OwnerInv'
  BY <1>1, <1>2 DEF OwnerInv, files, Unpublished
<1>8. DirInv' /\ SelectionIsComplete' /\ CleanManifestCertified'
  BY FilesKept DEF data
<1>9. where["owner"] = "selected" /\ (s = "inspected" => content["owner"] # "empty")
  <2>1. CASE s = "ownerLocked"
    <3>1. where = Unpublished(1)
      BY <1>1, <2>1 DEF OwnerInv
    <3> QED
      BY <2>1, <3>1, UnpublishedDir
  <2>2. CASE s = "owner"
    BY <2>2
  <2>3. CASE s = "inspected"
    BY <1>1, <2>3 DEF SelectionIsComplete, Directories
  <2> QED
    BY <2>1, <2>2, <2>3
<1>10. Held(p)'
  <2>1. where' = where /\ content' = content
    BY DEF files
  <2>2. CreateHeld(p)'
    BY <1>2, <1>9, <2>1 DEF CreateHeld
  <2>3. OpenHeld(p)'
    BY <1>2, <2>1 DEF OpenHeld, PreparingClose, BeforeReplacement, Selected
  <2>4. SlotHeld(p)'
    BY <1>2 DEF SlotHeld, PreparingClose, BeforeReplacement
  <2>5. TargetHeld(p)'
    BY <1>2 DEF TargetHeld
  <2> QED
    BY <2>2, <2>3, <2>4, <2>5 DEF Held
<1>11. HeldInv'
  BY <1>10 DEF HeldInv
<1> QED
  BY <1>4, <1>5, <1>6, <1>7, <1>8, <1>11 DEF IInv

LEMMA AcquisitionStep ==
    ASSUME IInv, NEW p \in Processes, LockCreatedOwner(p) \/ OpenOwner(p) \/ Acquire(p)
    PROVE  IInv'
<1>1. CASE LockCreatedOwner(p)
  BY <1>1, LockStep DEF LockCreatedOwner, Unlocked
<1>2. CASE OpenOwner(p)
  BY <1>2, LockStep DEF OpenOwner, Unlocked
<1>3. CASE Acquire(p)
  BY <1>3, LockStep DEF Acquire, Unlocked
<1> QED
  BY <1>1, <1>2, <1>3

\* What the holder knows does not depend on what the others do.
LEMMA OthersHeld ==
    ASSUME NEW q \in Processes, Held(q), UNCHANGED <<files, clean, frontier>>,
           stage'[q] = stage[q], phase'[q] = phase[q], item'[q] = item[q]
    PROVE  Held(q)'
<1>1. CreateHeld(q)'
  <2>1. Prepared(q)' = Prepared(q) /\ Undone(q)' = Undone(q)
    BY DEF Prepared, Undone, files
  <2>2. Creating(q)' = Creating(q)
    BY <2>1 DEF Creating, AtPhase, Opened, files
  <2>3. PreparingObject(q)' = PreparingObject(q)
    BY <2>1 DEF PreparingObject, files
  <2>4. PublishingObject(q)' = PublishingObject(q)
    BY <2>1 DEF PublishingObject, AtPhase, Opened, files
  <2> QED
    BY <2>2, <2>3, <2>4 DEF Held, CreateHeld, files
<1>2. OpenHeld(q)'
  BY DEF Held, OpenHeld, UnderSource, Selected, files
<1>3. SlotHeld(q)'
  BY DEF Held, SlotHeld, SlotEntered, files, clean
<1>4. TargetHeld(q)'
  BY DEF Held, TargetHeld, Selected, files, clean
<1> QED
  BY <1>1, <1>2, <1>3, <1>4 DEF Held

LEMMA ObserveNamespaceStep ==
    ASSUME IInv, NEW p \in Processes, ObserveNamespace(p)
    PROVE  IInv'
<1>1. /\ TypeInv /\ DirInv /\ LockInv /\ ReportInv /\ OwnerInv /\ HeldInv
      /\ stage[p] = "idle" /\ Goto(p, "observed")
      /\ UNCHANGED <<files, clean, data, lock, item, report, faults>>
  BY DEF IInv, ObserveNamespace, Step
<1>2. /\ stage' \in [Processes -> Stages] /\ stage'[p] = "observed"
      /\ \A q \in Processes \ {p} : stage'[q] = stage[q]
  BY <1>1 DEF TypeInv, Goto, Stages, CreateStages
<1>3. /\ phase' \in [Processes -> 0 .. Published + 1]
      /\ \A q \in Processes \ {p} : phase'[q] = phase[q]
  <2>1. where \in Dirs /\ Shaped(where)
    BY <1>1 DEF TypeInv, DirInv
  <2>2. PICK m \in 0 .. 9 : Phases(where) = {m} /\ Min(Phases(where)) = m
    BY <2>1, ShapedPhase
  <2>3. phase' = [phase EXCEPT ![p] = m]
    BY <2>2 DEF ObserveNamespace
  <2> QED
    BY <1>1, <2>3, EffectsEnumerated DEF TypeInv
<1>4. TypeInv'
  BY <1>1, <1>2, <1>3 DEF TypeInv, files, clean, data
<1>5. lock # p
  BY <1>1 DEF LockInv, Unlocked
<1>6. LockInv' /\ ReportInv' /\ OwnerInv'
  BY <1>1, <1>2, <1>5 DEF LockInv, ReportInv, OwnerInv, Unlocked, files, Unpublished
<1>7. DirInv' /\ SelectionIsComplete' /\ CleanManifestCertified'
  BY <1>1, FilesKept DEF data
<1>8. HeldInv'
  BY <1>1, <1>2, <1>3, <1>5, OthersHeld DEF HeldInv, data
<1> QED
  BY <1>4, <1>6, <1>7, <1>8 DEF IInv

\* A call returns, whatever it had reached: the files stay.
LEMMA ReleaseStep ==
    ASSUME IInv, NEW p \in Processes, Released(p), UNCHANGED <<files, clean, data>>,
           faults' \in Nat
    PROVE  IInv'
<1>1. TypeInv /\ DirInv /\ LockInv /\ ReportInv /\ OwnerInv /\ HeldInv
  BY DEF IInv
<1>2. /\ stage' \in [Processes -> Stages] /\ stage'[p] = "idle"
      /\ \A q \in Processes \ {p} : stage'[q] = stage[q]
  BY <1>1 DEF TypeInv, Released, Goto, Stages
<1>3. /\ phase' \in [Processes -> 0 .. Published + 1]
      /\ item' \in [Processes -> 1 .. Len(Effects) + 1]
      /\ \A q \in Processes \ {p} : phase'[q] = phase[q] /\ item'[q] = item[q]
  BY <1>1, EffectsEnumerated DEF TypeInv, Released, Forgotten
<1>4. /\ lock' = IF lock = p THEN Nobody ELSE lock
      /\ report' = IF lock = p THEN "none" ELSE report
  BY DEF Released
<1>5. TypeInv'
  BY <1>1, <1>2, <1>3, <1>4 DEF TypeInv, Reported, files, clean, data
<1>6. LockInv'
  BY <1>1, <1>2, <1>4, ProcessesAssumption DEF LockInv, Unlocked
<1>7. ReportInv'
  BY <1>1, <1>2, <1>4 DEF ReportInv
<1>8. OwnerInv'
  BY <1>1, <1>2 DEF OwnerInv, files, Unpublished
<1>9. DirInv' /\ SelectionIsComplete' /\ CleanManifestCertified'
  BY FilesKept DEF data
<1>10. HeldInv'
  <2>1. SUFFICES ASSUME NEW q \in Processes, lock' = q PROVE Held(q)'
    BY DEF HeldInv
  <2>2. q # p /\ lock = q
    BY <1>4, <2>1, ProcessesAssumption
  <2> QED
    BY <1>1, <1>2, <1>3, <2>2, OthersHeld DEF HeldInv, data
<1> QED
  BY <1>5, <1>6, <1>7, <1>8, <1>9, <1>10 DEF IInv

LEMMA ReturnStep ==
    ASSUME IInv, NEW p \in Processes,
           \/ CreateRefused(p) \/ ObjectRefused(p) \/ PublishedRefused(p) \/ BindRefused(p)
           \/ Drop(p) \/ Stop(p)
    PROVE  IInv'
<1>1. faults \in Nat
  BY DEF IInv, TypeInv
<1>2. Released(p) /\ UNCHANGED <<files, clean, data>> /\ faults' \in Nat
  BY <1>1 DEF CreateRefused, ObjectRefused, PublishedRefused, BindRefused, Drop, Stop, Return
<1> QED
  BY <1>2, ReleaseStep

-------------------------------------------------------------------------------
(* A loss of power *)

LEMMA PowerLossStep ==
    ASSUME IInv, PowerLoss
    PROVE  IInv'
<1>1. TypeInv /\ DirInv /\ OwnerInv /\ SelectionIsComplete /\ CleanManifestCertified
  BY DEF IInv
<1>2. PICK dir \in disk, lost \in SUBSET {o \in Objects : content[o] = "written"} :
        /\ where' = dir /\ disk' = {dir}
        /\ content' = [o \in Objects |->
                          IF dir[o] = "absent" \/ o \in lost \/ content[o] = "empty"
                          THEN "empty" ELSE "synced"]
  BY DEF PowerLoss
<1>3. PICK left \in AfterPowerLoss(slot) :
        slot' = IF where'["cleanSlot"] = "selected" THEN left ELSE EmptySlot
  BY DEF PowerLoss
<1>4. /\ stage' = [q \in Processes |-> "idle"] /\ lock' = Nobody /\ report' = "none"
      /\ phase' = [q \in Processes |-> 0] /\ item' = [q \in Processes |-> 1]
      /\ faults' = faults + 1 /\ UNCHANGED <<certificate, frontier, used>>
  BY DEF PowerLoss, data
<1>5. /\ left \in SlotType /\ \E current \in slot.images : left.images = {current}
  <2>1. PICK current \in slot.images, candidate \in {Missing, slot.candidate} :
            left = [current |-> current, whole |-> TRUE, images |-> {current},
                    candidate |-> candidate, synced |-> FALSE]
    BY <1>3 DEF AfterPowerLoss
  <2>2. current \in Int /\ candidate \in Int
    BY <1>1, <2>1 DEF TypeInv, SlotType, Missing
  <2> QED
    BY <2>1, <2>2 DEF SlotType
<1>6. EmptySlot \in SlotType
  BY DEF EmptySlot, SlotType, Missing
<1>7. TypeInv'
  <2>1. disk' \subseteq Dirs /\ where' \in disk' /\ content' \in [Objects -> Bytes]
    BY <1>1, <1>2 DEF TypeInv, Bytes
  <2>2. slot' \in SlotType
    BY <1>3, <1>5, <1>6
  <2>3. /\ stage' \in [Processes -> Stages]
        /\ phase' \in [Processes -> 0 .. Published + 1]
        /\ item' \in [Processes -> 1 .. Len(Effects) + 1]
    BY <1>4, EffectsEnumerated DEF Stages
  <2> QED
    BY <1>1, <1>4, <2>1, <2>2, <2>3 DEF TypeInv, Reported
<1>8. LockInv' /\ ReportInv' /\ HeldInv'
  BY <1>4, ProcessesAssumption DEF LockInv, ReportInv, HeldInv, Unlocked
<1>9. DirInv'
  <2>1. \A d \in disk' : Shaped(d)
    BY <1>1, <1>2 DEF DirInv
  <2> QED
    BY <2>1 DEF DirInv
<1>10. OwnerInv'
  BY <1>2, <1>4, ObjectsEnumerated DEF OwnerInv
<1>11. Directories' = {dir} /\ dir \in Directories
  BY <1>2 DEF Directories
<1>12. SelectionIsComplete'
  <2>1. SUFFICES ASSUME Selected(dir) # "none", NEW o \in Children \cup {"owner", Selected(dir)}
                 PROVE  dir[o] = "selected" /\ content'[o] = "synced"
    BY <1>11 DEF SelectionIsComplete, Selected
  <2>2. dir[o] = "selected" /\ content[o] = "synced"
    BY <1>1, <1>11, <2>1 DEF SelectionIsComplete
  <2>3. o \in Objects
    BY <2>1, ObjectsEnumerated DEF Children, Selected
  <2> QED
    BY <1>2, <2>2, <2>3
<1>13. CleanManifestCertified'
  <2>1. SUFFICES ASSUME Selected(dir) = "target"
                 PROVE  /\ certificate' = frontier' /\ dir["cleanSlot"] = "selected"
                        /\ slot'.images = {certificate'}
    BY <1>11 DEF CleanManifestCertified, Selected
  <2>2. /\ certificate = frontier /\ dir["cleanSlot"] = "selected"
        /\ slot.images = {certificate}
    BY <1>1, <1>11, <2>1 DEF CleanManifestCertified
  <2> QED
    BY <1>2, <1>3, <1>4, <1>5, <2>2
<1> QED
  BY <1>7, <1>8, <1>9, <1>10, <1>12, <1>13 DEF IInv

-------------------------------------------------------------------------------
(* The invariant and what it promises *)

LEMMA InitInv ==
    ASSUME Init
    PROVE  IInv
<1>1. where = Unpublished(0) /\ disk = {where}
  BY UnpublishedEnumerated DEF Init, Entries
<1>2. TypeInv
  <2>1. where \in Dirs /\ slot \in SlotType
    BY <1>1, UnpublishedDir DEF Init, EmptySlot, SlotType, Missing
  <2>2. /\ content \in [Objects -> Bytes] /\ certificate \in Int
        /\ stage \in [Processes -> Stages]
        /\ phase \in [Processes -> 0 .. Published + 1]
        /\ item \in [Processes -> 1 .. Len(Effects) + 1]
    BY EffectsEnumerated DEF Init, Bytes, Stages, Missing
  <2> QED
    BY <1>1, <2>1, <2>2 DEF Init, TypeInv, Reported
<1>3. LockInv /\ ReportInv /\ HeldInv
  BY ProcessesAssumption DEF Init, LockInv, ReportInv, HeldInv, Unlocked
<1>4. DirInv
  BY <1>1, EffectsEnumerated DEF DirInv, Shaped
<1>5. OwnerInv
  BY ObjectsEnumerated DEF Init, OwnerInv
<1>6. Selected(where) = "none"
  BY <1>1, UnpublishedDir
<1>7. SelectionIsComplete /\ CleanManifestCertified
  BY <1>1, <1>6 DEF SelectionIsComplete, CleanManifestCertified, Directories
<1> QED
  BY <1>2, <1>3, <1>4, <1>5, <1>7 DEF IInv

LEMMA NextInv ==
    ASSUME IInv, Next
    PROVE  IInv'
<1>1. CASE PowerLoss
  BY <1>1, PowerLossStep
<1>2. ASSUME NEW p \in Processes, CreateStep(p) PROVE IInv'
  BY <1>2, ObserveNamespaceStep, CreateOwnerStep, AcquisitionStep, WriteOwnerStep,
     SyncOwnerStep, ResumeCreateStep, ReturnStep, CreateObjectStep, WriteObjectStep,
     SyncObjectStep, ReopenObjectStep, PublishObjectStep, SyncPublishedStep,
     PublishedBeforeStep, BindCreatedStep, OpeningStep
     DEF CreateStep
<1>3. ASSUME NEW p \in Processes, OpenStep(p) PROVE IInv'
  BY <1>3, AcquisitionStep, OpeningStep, QuietStep, ReturnStep, CommitChangeStep
     DEF OpenStep
<1>4. ASSUME NEW p \in Processes, CloseStep(p) PROVE IInv'
  BY <1>4, CreateCleanSlotStep, WriteSlotControlStep, SyncSlotControlStep, QuietStep,
     ReconcileCleanSlotStep, PublishCleanCheckpointStep, RemoveManifestCandidateStep,
     CreateManifestCandidateStep, WriteManifestCandidateStep, ReplacementStep,
     SourceReportedStep
     DEF CloseStep, CloseFails
<1>5. ASSUME NEW p \in Processes, Drop(p) \/ Stop(p) PROVE IInv'
  BY <1>5, ReturnStep
<1> QED
  BY <1>1, <1>2, <1>3, <1>4, <1>5 DEF Next

LEMMA StutterInv ==
    ASSUME IInv, UNCHANGED vars
    PROVE  IInv'
<1>1. DirInv' /\ SelectionIsComplete' /\ CleanManifestCertified'
  BY FilesKept DEF vars, files, clean
<1>2. TypeInv' /\ LockInv' /\ ReportInv'
  BY DEF IInv, TypeInv, LockInv, ReportInv, vars
<1>3. OwnerInv'
  BY DEF IInv, OwnerInv, Unpublished, vars
<1>4. HeldInv'
  BY OthersHeld DEF IInv, HeldInv, vars, files, clean
<1> QED
  BY <1>1, <1>2, <1>3, <1>4 DEF IInv

\* What each process knows of the files is so, whatever the others do, fail to
\* do or lose: the invariant that the promises rest on.
THEOREM FilesInvariant == Spec => []IInv
<1>1. Init => IInv
  BY InitInv
<1>2. IInv /\ [Next]_vars => IInv'
  BY NextInv, StutterInv
<1> QED
  BY <1>1, <1>2, PTL DEF Spec

\* No selected manifest is ever found over a missing, misplaced or unsynchronized
\* owner or child, before or after any loss of power (publish_create_candidate).
THEOREM SelectionAlwaysComplete == Spec => []SelectionIsComplete
<1>1. IInv => SelectionIsComplete
  BY DEF IInv
<1> QED
  BY <1>1, FilesInvariant, PTL

\* Every certificate of a clean manifest is about the final data, and about the
\* checkpoint in the clean-close slot (publish_clean_manifest).
THEOREM CleanManifestAlwaysCertified == Spec => []CleanManifestCertified
<1>1. IInv => CleanManifestCertified
  BY DEF IInv
<1> QED
  BY <1>1, FilesInvariant, PTL

\* A later create takes whatever an earlier one left for one of its own phases
\* (CreateNamespaceObservation::phase).
THEOREM EveryDirectoryResumable == Spec => []EveryDirectoryIsAPhase
<1>1. IInv => EveryDirectoryIsAPhase
  <2>1. SUFFICES ASSUME IInv, NEW dir \in Directories PROVE Phases(dir) # {}
    BY DEF EveryDirectoryIsAPhase
  <2>2. dir \in Dirs /\ Shaped(dir)
    BY <2>1 DEF IInv, TypeInv, DirInv, Directories
  <2> QED
    BY <2>2, ShapedPhase
<1> QED
  BY <1>1, FilesInvariant, PTL

-------------------------------------------------------------------------------
(* The files implement the lifecycle of a database *)

Sel == AsManifest(where)
Poss == {AsManifest(dir) : dir \in disk}
HolderStage == IF lock = Nobody THEN "Unbound" ELSE AsStage(stage[lock])
LifecycleStep == [AsLifecycle!Next]_(AsLifecycle!vars)

First == [lifecycle |-> "RecoveryRequired", generation |-> 1, certified |-> 0]
None == [lifecycle |-> "None", generation |-> 0, certified |-> 0]
Clean == [lifecycle |-> "Clean", generation |-> 2, certified |-> certificate]

\* The manifest of a directory, case by case.
LEMMA ManifestCases ==
    ASSUME NEW dir
    PROVE  /\ Selected(dir) = "none" => AsManifest(dir) = None
           /\ Selected(dir) = "source" => AsManifest(dir) = First
           /\ Selected(dir) = "target" => AsManifest(dir) = Clean
  BY DEF AsManifest, None, First, Clean

LEMMA ManifestsDiffer == First # None /\ Clean # None /\ Clean # First
  BY DEF None, First, Clean

\* The stage that the holder of the lock has, case by case.
LEMMA StageCases ==
    /\ \A s \in {"idle", "observed", "ownerCreated", "ownerLocked", "ownerWritten", "owner",
                 "creating", "objectCreated", "objectWritten", "objectPublished", "published",
                 "inspected", "selected"} : AsStage(s) = "Unbound"
    /\ AsStage("repaired") = "ManifestSelected"
    /\ AsStage("recoveryRequired") = "RecoveryRequired"
    /\ \A s \in PreparingClose : AsStage(s) = "Live"
    /\ \A s \in Publishing : AsStage(s) = "ClosePending"
    /\ AsStage("failed") = "PublicationFailed"
    /\ AsStage("closed") = "Closed"
  BY DEF AsStage, PreparingClose, Publishing, BeforeReplacement

LEMMA StepSynchronizes ==
    ASSUME Sel' = Sel, Poss' = Poss \/ Poss' = {Sel'}, HolderStage' = HolderStage,
           frontier' = frontier, report' = report
    PROVE  LifecycleStep
<1>1. CASE Poss' = Poss
  BY <1>1 DEF LifecycleStep, AsLifecycle!vars, Sel, Poss, HolderStage
<1>2. CASE Poss' = {Sel'}
  BY <1>2 DEF LifecycleStep, AsLifecycle!Next, AsLifecycle!Synchronize,
              AsLifecycle!Synchronized, AsLifecycle!Durably, Sel, Poss, HolderStage
<1> QED
  BY <1>1, <1>2

LEMMA StepCreates ==
    ASSUME HolderStage = "Unbound", HolderStage' = HolderStage, Sel = None, Sel' = First,
           Poss' = Poss \cup {First}, frontier' = frontier, report' = report
    PROVE  LifecycleStep
<1>1. AsLifecycle!NoManifest = None /\ AsLifecycle!FirstManifest = First
  BY DEF AsLifecycle!NoManifest, AsLifecycle!FirstManifest, AsLifecycle!Manifest, None, First
<1>2. AsLifecycle!Create
  BY <1>1 DEF AsLifecycle!Create, AsLifecycle!Replaced, Sel, Poss, HolderStage
<1> QED
  BY <1>2 DEF LifecycleStep, AsLifecycle!Next

LEMMA StepSelects ==
    ASSUME HolderStage = "Unbound", HolderStage' = "ManifestSelected", Sel # None, Sel' = Sel,
           Poss' = {Sel'}, frontier' = frontier, report' = report
    PROVE  LifecycleStep
<1>1. AsLifecycle!NoManifest = None
  BY DEF AsLifecycle!NoManifest, AsLifecycle!Manifest, None
<1>2. AsLifecycle!SelectManifest
  BY <1>1 DEF AsLifecycle!SelectManifest, AsLifecycle!From, AsLifecycle!Synchronized,
              AsLifecycle!Durably, Sel, Poss, HolderStage
<1> QED
  BY <1>2 DEF LifecycleStep, AsLifecycle!Next

LEMMA StepBinds ==
    ASSUME HolderStage \in {"Unbound", "ManifestSelected"}, HolderStage' = "RecoveryRequired",
           Sel = First, Sel' = Sel, Poss' = {Sel'}, frontier' = frontier, report' = report
    PROVE  LifecycleStep
<1>1. Sel.lifecycle = "RecoveryRequired"
  BY DEF First
<1>2. AsLifecycle!BindObservedStorage
  BY <1>1 DEF AsLifecycle!BindObservedStorage, AsLifecycle!From, AsLifecycle!Synchronized,
              AsLifecycle!Durably, Sel, Poss, HolderStage
<1> QED
  BY <1>2 DEF LifecycleStep, AsLifecycle!Next

LEMMA StepRecoversOrPrepares ==
    ASSUME \/ HolderStage = "RecoveryRequired" /\ HolderStage' = "Live"
           \/ HolderStage = "Live" /\ HolderStage' = "ClosePending" /\ Sel = First,
           Sel' = Sel, Poss' = Poss, frontier' = frontier, report' = report
    PROVE  LifecycleStep
<1>1. CASE HolderStage = "RecoveryRequired" /\ HolderStage' = "Live"
  <2>1. AsLifecycle!CompleteRecovery
    BY <1>1 DEF AsLifecycle!CompleteRecovery, AsLifecycle!From, AsLifecycle!Untouched,
                Sel, Poss, HolderStage
  <2> QED
    BY <2>1 DEF LifecycleStep, AsLifecycle!Next
<1>2. CASE HolderStage = "Live" /\ HolderStage' = "ClosePending" /\ Sel = First
  <2>1. Sel.lifecycle = "RecoveryRequired"
    BY <1>2 DEF First
  <2>2. AsLifecycle!PrepareClose
    BY <1>2, <2>1 DEF AsLifecycle!PrepareClose, AsLifecycle!From, AsLifecycle!Untouched,
                      Sel, Poss, HolderStage
  <2> QED
    BY <2>2 DEF LifecycleStep, AsLifecycle!Next
<1> QED
  BY <1>1, <1>2

LEMMA StepCommits ==
    ASSUME HolderStage = "Live", HolderStage' = HolderStage, Sel' = Sel, Poss' = Poss,
           frontier' = frontier + 1, report' = report
    PROVE  LifecycleStep
<1>1. AsLifecycle!LiveWork
  BY DEF AsLifecycle!LiveWork, AsLifecycle!Untouched, Sel, Poss, HolderStage
<1> QED
  BY <1>1 DEF LifecycleStep, AsLifecycle!Next

\* The source is replaced by the clean manifest of the present changes.
Replaces == Sel = First /\ certificate = frontier /\ Sel' = Clean /\ Poss' = Poss \cup {Clean}

LEMMA ReplacesPublishes ==
    ASSUME Replaces
    PROVE  AsLifecycle!Published
<1>1. AsLifecycle!NextClean(Sel) = Clean
  BY DEF AsLifecycle!NextClean, AsLifecycle!Manifest, Replaces, First, Clean
<1>2. Sel.lifecycle = "RecoveryRequired"
  BY DEF Replaces, First
<1> QED
  BY <1>1, <1>2 DEF AsLifecycle!Published, AsLifecycle!Replaced, Replaces, Sel, Poss

LEMMA StepPublishes ==
    ASSUME HolderStage = "ClosePending", HolderStage' = HolderStage, Replaces,
           frontier' = frontier, report' = report
    PROVE  LifecycleStep
<1>1. AsLifecycle!PublishCleanManifest
  BY ReplacesPublishes DEF AsLifecycle!PublishCleanManifest, HolderStage
<1> QED
  BY <1>1 DEF LifecycleStep, AsLifecycle!Next

LEMMA StepCloses ==
    ASSUME HolderStage = "ClosePending", HolderStage' = "Closed", Sel = Clean, Poss = {Sel},
           Sel' = Sel, Poss' = Poss, frontier' = frontier, report' = report
    PROVE  LifecycleStep
<1>1. Sel.lifecycle = "Clean"
  BY DEF Clean
<1>2. AsLifecycle!Close
  BY <1>1 DEF AsLifecycle!Close, AsLifecycle!From, AsLifecycle!Untouched, Sel, Poss, HolderStage
<1> QED
  BY <1>2 DEF LifecycleStep, AsLifecycle!Next

LEMMA StepFails ==
    ASSUME HolderStage = "ClosePending", HolderStage' = "PublicationFailed",
           \/ Sel' = Sel /\ (Poss' = Poss \/ Poss' = {Sel'})
           \/ Replaces,
           \/ report' = "SelectionIndeterminate"
           \/ report' = "TargetSelectedDurabilityIndeterminate" /\ Sel'.lifecycle = "Clean"
           \/ report' = "TargetDurable" /\ Sel'.lifecycle = "Clean" /\ Poss' = {Sel'}
           \/ report' = "SourceSelected" /\ Sel'.lifecycle # "Clean" /\ Poss' = {Sel'},
           frontier' = frontier
    PROVE  LifecycleStep
<1>1. AsLifecycle!Untouched \/ AsLifecycle!Published \/ AsLifecycle!Synchronized
  BY ReplacesPublishes
     DEF AsLifecycle!Untouched, AsLifecycle!Synchronized, AsLifecycle!Durably, Sel, Poss
<1>2. report' \in AsLifecycle!Reportable
  BY DEF AsLifecycle!Reportable, AsLifecycle!Durably, Sel, Poss
<1>3. AsLifecycle!PublicationFails
  BY <1>1, <1>2 DEF AsLifecycle!PublicationFails, AsLifecycle!From, HolderStage
<1> QED
  BY <1>3 DEF LifecycleStep, AsLifecycle!Next

LEMMA StepReleases ==
    ASSUME HolderStage # "Unbound", HolderStage' = "Unbound", report' = "none",
           Sel' = Sel, Poss' = Poss, frontier' = frontier
    PROVE  LifecycleStep
<1>1. AsLifecycle!Release
  BY DEF AsLifecycle!Release, AsLifecycle!Untouched, Sel, Poss, HolderStage
<1> QED
  BY <1>1 DEF LifecycleStep, AsLifecycle!Next

LEMMA StepLosesPower ==
    ASSUME Sel' \in Poss, Poss' = {Sel'}, HolderStage' = "Unbound", report' = "none",
           frontier' = frontier
    PROVE  LifecycleStep
<1>1. AsLifecycle!PowerLoss
  BY DEF AsLifecycle!PowerLoss, AsLifecycle!Durably, Sel, Poss, HolderStage
<1> QED
  BY <1>1 DEF LifecycleStep, AsLifecycle!Next

\* What the directories show, when they all show the same.
LEMMA SourceMapped == where \in disk /\ UnderSource => Sel = First /\ Poss = {First}
  BY ManifestCases DEF Sel, Poss, UnderSource

LEMMA NoneMapped ==
    where \in disk /\ (\A dir \in disk : Selected(dir) = "none") => Sel = None /\ Poss = {None}
  BY ManifestCases DEF Sel, Poss

LEMMA SyncedMapped == disk = {where} => Poss = {Sel}
  BY DEF Sel, Poss

LEMMA KeptMapped ==
    ASSUME where' = where, certificate' = certificate, disk' = disk \/ DirectorySynced
    PROVE  /\ Sel' = Sel
           /\ disk' = disk => Poss' = Poss
           /\ DirectorySynced => Poss' = {Sel'}
           /\ Poss' = Poss \/ Poss' = {Sel'}
<1>1. Sel' = Sel
  BY DEF Sel, AsManifest, Selected
<1>2. disk' = disk => Poss' = Poss
  BY DEF Poss, AsManifest, Selected
<1>3. DirectorySynced => Poss' = {Sel'}
  <2>1. (disk = {where})' => (Poss = {Sel})'
    BY SyncedMapped, PTL
  <2> QED
    BY <2>1 DEF DirectorySynced
<1> QED
  BY <1>1, <1>2, <1>3

LEMMA HolderGoes ==
    ASSUME IInv, NEW p \in Processes, stage[p] \notin Unlocked, NEW s, Goto(p, s), lock' = lock
    PROVE  /\ lock = p
           /\ HolderStage = AsStage(stage[p]) /\ HolderStage' = AsStage(s)
<1>1. lock = p /\ p # Nobody /\ stage'[p] = s
  BY ProcessesAssumption DEF IInv, LockInv, TypeInv, Goto
<1> QED
  BY <1>1 DEF HolderStage, AsStage

\* The holder goes on within a stage of the lifecycle.
LEMMA QuietLifecycle ==
    ASSUME IInv, NEW p \in Processes, stage[p] \notin Unlocked, NEW s, Goto(p, s), lock' = lock,
           AsStage(s) = AsStage(stage[p]), where' = where, disk' = disk \/ DirectorySynced,
           UNCHANGED <<certificate, frontier, report>>
    PROVE  LifecycleStep
<1>1. HolderStage' = HolderStage
  BY HolderGoes
<1> QED
  BY <1>1, KeptMapped, StepSynchronizes

LEMMA CreationLifecycle ==
    ASSUME IInv, NEW p \in Processes,
           \/ WriteOwner(p) \/ SyncOwner(p) \/ ResumeCreate(p) \/ WriteObject(p)
           \/ SyncObject(p) \/ ReopenObject(p) \/ SyncPublished(p) \/ PublishedBefore(p)
           \/ SyncSelectedManifest(p)
    PROVE  LifecycleStep
<1>1. /\ UNCHANGED <<where, certificate, frontier, report, lock>>
      /\ disk' = disk \/ DirectorySynced
  BY DEF WriteOwner, SyncOwner, ResumeCreate, WriteObject, SyncObject, ReopenObject,
         SyncPublished, PublishedBefore, SyncSelectedManifest, Step, files, clean, data
<1>2. PICK s \in {"ownerWritten", "owner", "published", "creating", "objectWritten",
                  "selected"} : Goto(p, s)
  BY DEF WriteOwner, SyncOwner, ResumeCreate, WriteObject, SyncObject, ReopenObject,
         SyncPublished, PublishedBefore, SyncSelectedManifest, Step
<1>3. stage[p] \in {"ownerLocked", "ownerWritten", "owner", "creating", "objectCreated",
                    "objectWritten", "objectPublished", "inspected"}
  BY DEF WriteOwner, SyncOwner, ResumeCreate, WriteObject, SyncObject, ReopenObject,
         SyncPublished, PublishedBefore, SyncSelectedManifest, Step
<1>4. AsStage(s) = "Unbound" /\ AsStage(stage[p]) = "Unbound" /\ stage[p] \notin Unlocked
  BY <1>3, StageCases DEF Unlocked
<1> QED
  BY <1>1, <1>2, <1>4, QuietLifecycle

LEMMA SlotLifecycle ==
    ASSUME IInv, NEW p \in Processes,
           \/ WriteSlotControl(p) \/ SyncSlotControl(p) \/ OpenCleanSlot(p)
           \/ PublishCleanCheckpoint(p)
    PROVE  LifecycleStep
<1>1. /\ UNCHANGED <<where, certificate, frontier, report, lock>>
      /\ disk' = disk \/ DirectorySynced
  BY DEF WriteSlotControl, SyncSlotControl, OpenCleanSlot, PublishCleanCheckpoint, SlotStep,
         Step, files, clean, data
<1>2. PICK s \in PreparingClose : Goto(p, s)
  BY DEF WriteSlotControl, SyncSlotControl, OpenCleanSlot, PublishCleanCheckpoint, SlotStep,
         Step, PreparingClose
<1>3. stage[p] \in PreparingClose
  BY DEF WriteSlotControl, SyncSlotControl, OpenCleanSlot, PublishCleanCheckpoint, SlotStep,
         Step, PreparingClose
<1>4. AsStage(s) = AsStage(stage[p]) /\ stage[p] \notin Unlocked
  BY <1>3, StageCases DEF Unlocked, PreparingClose
<1> QED
  BY <1>1, <1>2, <1>4, QuietLifecycle

LEMMA ClosingLifecycle ==
    ASSUME IInv, NEW p \in Processes, SyncManifestCandidate(p) \/ SyncManifestDirectory(p)
    PROVE  LifecycleStep
<1>1. /\ UNCHANGED <<where, certificate, frontier, report, lock>>
      /\ disk' = disk \/ DirectorySynced
  BY DEF SyncManifestCandidate, SyncManifestDirectory, Step, clean, data
<1>2. PICK s \in {"targetSynced", "targetDurable"} : Goto(p, s)
  BY DEF SyncManifestCandidate, SyncManifestDirectory, Step
<1>3. stage[p] \in {"targetWritten", "targetSelected"}
  BY DEF SyncManifestCandidate, SyncManifestDirectory, Step
<1>4. AsStage(s) = AsStage(stage[p]) /\ stage[p] \notin Unlocked
  BY <1>3, StageCases DEF Unlocked, Publishing, BeforeReplacement
<1> QED
  BY <1>1, <1>2, <1>4, QuietLifecycle

\* Entries that no selection depends on come and go under the source.
LEMMA SourceLifecycle ==
    ASSUME IInv, IInv', NEW p \in Processes,
           \/ CreateCleanSlot(p) \/ ReconcileCleanSlot(p) \/ RemoveManifestCandidate(p)
           \/ CreateManifestCandidate(p) \/ WriteManifestCandidate(p)
    PROVE  LifecycleStep
<1>1. UNCHANGED <<frontier, report, lock>>
  BY DEF CreateCleanSlot, ReconcileCleanSlot, RemoveManifestCandidate,
         CreateManifestCandidate, WriteManifestCandidate, Step, data
<1>2. PICK s \in {"slotCreated", "live", "targetCleared", "targetCreated", "targetWritten"} :
          /\ Goto(p, s) /\ AsStage(s) = AsStage(stage[p])
          /\ stage[p] \in HeldUnderSource
  BY StageCases
     DEF CreateCleanSlot, ReconcileCleanSlot, RemoveManifestCandidate, Publishing,
         CreateManifestCandidate, WriteManifestCandidate, Step, HeldUnderSource,
         PreparingClose, BeforeReplacement
<1>3. stage[p] \in PastOwner /\ UnderSource
  BY <1>2, SourceHolder
<1>4. stage'[p] = s
  BY <1>2 DEF IInv, TypeInv, Goto
<1>5. UnderSource'
  <2>1. lock' = p
    BY <1>1, <1>2, <1>3, HolderGoes DEF PastOwner
  <2>2. OpenHeld(p)'
    BY <2>1 DEF IInv, HeldInv, Held
  <2> QED
    BY <1>2, <1>4, <2>2 DEF OpenHeld, PreparingClose, BeforeReplacement
<1>6. Sel = First /\ Poss = {First}
  BY <1>3, SourceMapped DEF IInv, TypeInv
<1>7. Sel' = First' /\ Poss' = {First}'
  <2>1. where' \in disk'
    BY DEF IInv, TypeInv
  <2>2. (where \in disk /\ UnderSource)' => (Sel = First /\ Poss = {First})'
    BY SourceMapped, PTL
  <2> QED
    BY <1>5, <2>1, <2>2
<1>8. HolderStage' = HolderStage
  BY <1>1, <1>2, <1>3, HolderGoes DEF PastOwner
<1> QED
  BY <1>1, <1>6, <1>7, <1>8, StepSynchronizes DEF First

\* Effects of creation before the manifest is selected.
LEMMA UnselectedLifecycle ==
    ASSUME IInv, IInv', NEW p \in Processes,
           CreateOwner(p) \/ CreateObject(p) \/ (PublishObject(p) /\ item[p] # 8)
    PROVE  LifecycleStep
<1>1. UNCHANGED <<frontier, report, lock>> /\ where \in disk /\ where' \in disk'
  BY DEF CreateOwner, CreateObject, PublishObject, Step, data, IInv, TypeInv
<1>2. /\ \A dir \in disk : Selected(dir) = "none"
      /\ \A dir \in disk' : Selected(dir) = "none"
      /\ HolderStage' = HolderStage
  <2>1. CASE CreateOwner(p)
    <3>1. lock = Nobody
      BY <2>1 DEF CreateOwner, IInv, HeldInv, Held, CreateHeld, TypeInv
    <3>2. stage'[p] = "ownerCreated"
      BY <2>1 DEF CreateOwner, Step, Goto, IInv, TypeInv
    <3>3. disk' \subseteq {Unpublished(0), Unpublished(1)}
      BY <3>2 DEF IInv, OwnerInv, Unpublished
    <3>4. disk \subseteq disk'
      BY <2>1 DEF CreateOwner, Enter
    <3> QED
      BY <1>1, <3>1, <3>3, <3>4, UnpublishedDir DEF HolderStage
  <2>2. CASE CreateObject(p)
    <3>1. stage[p] = "creating" /\ Goto(p, "objectCreated")
      BY <2>2 DEF CreateObject, Step
    <3>2. stage'[p] = "objectCreated" /\ disk \subseteq disk'
      BY <2>2, <3>1 DEF CreateObject, Enter, Goto, IInv, TypeInv
    <3>3. \A dir \in disk' : Selected(dir) = "none"
      <4>1. (IInv /\ stage[p] \in {"objectCreated", "objectWritten"})'
                => (\A dir \in disk : Selected(dir) = "none")'
        BY PreparingFacts, PTL
      <4> QED
        BY <3>2, <4>1 DEF Selected
    <3>4. HolderStage' = HolderStage
      BY <1>1, <3>1, HolderGoes, StageCases DEF Unlocked
    <3> QED
      BY <3>2, <3>3, <3>4
  <2>3. CASE PublishObject(p) /\ item[p] # 8
    <3>1. stage[p] = "creating" /\ Goto(p, "objectPublished")
      BY <2>3 DEF PublishObject, Step
    <3>2. item[p] \in 5 .. 7 /\ disk = {where} /\ where = Unpublished(item[p])
      BY <2>3, <3>1, CreatingFacts, EffectsEnumerated DEF PublishObject, Prepares, Creating
    <3>3. disk' = disk \cup {where'}
      BY <2>3, <3>2 DEF PublishObject, Enter
    <3>4. Selected(where') = "none" /\ Selected(where) = "none"
      <4>1. stage'[p] = "objectPublished" /\ lock' = p /\ item' = item
        BY <1>1, <2>3, <3>1, HolderGoes DEF PublishObject, Goto, IInv, TypeInv, Unlocked, creating
      <4>2. PublishingObject(p)'
        BY <4>1 DEF IInv, HeldInv, Held, CreateHeld
      <4>3. AtPhase(where', item[p] + 1)
        BY <4>1, <4>2 DEF PublishingObject, AtPhase, Unpublished, Opened
      <4>4. item[p] + 1 \in 0 .. 8 /\ item[p] \in 0 .. 8 /\ item[p] + 1 # 9
        BY <3>2
      <4> QED
        BY <3>2, <4>3, <4>4, UnpublishedDir, EffectsEnumerated DEF AtPhase
    <3>5. HolderStage' = HolderStage
      BY <1>1, <3>1, HolderGoes, StageCases DEF Unlocked
    <3> QED
      BY <3>2, <3>3, <3>4, <3>5
  <2> QED
    BY <2>1, <2>2, <2>3
<1>3. Sel = None /\ Poss = {None}
  BY <1>1, <1>2, NoneMapped
<1>4. Sel' = None' /\ Poss' = {None}'
  <2>1. (where \in disk /\ \A dir \in disk : Selected(dir) = "none")'
            => (Sel = None /\ Poss = {None})'
    BY NoneMapped, PTL
  <2> QED
    BY <1>1, <1>2, <2>1 DEF Selected
<1> QED
  BY <1>1, <1>2, <1>3, <1>4, StepSynchronizes DEF None

\* The manifest is the last object that creation publishes.
LEMMA PublishedLifecycle ==
    ASSUME IInv, IInv', NEW p \in Processes, PublishObject(p), item[p] = 8
    PROVE  LifecycleStep
<1>1. /\ stage[p] = "creating" /\ Goto(p, "objectPublished")
      /\ UNCHANGED <<certificate, frontier, report, lock, item>>
      /\ Enter(Placed(Effects[8], "selected"))
  BY DEF PublishObject, Step, data, clean, creating, Current
<1>2. disk = {where} /\ where = Unpublished(8)
  BY <1>1, CreatingFacts, EffectsEnumerated DEF PublishObject, Creating
<1>3. disk' = disk \cup {where'}
  BY <1>1, <1>2 DEF Enter
<1>4. /\ HolderStage = "Unbound" /\ HolderStage' = "Unbound"
      /\ lock' = p /\ stage'[p] = "objectPublished"
  <2>1. stage'[p] = "objectPublished"
    BY <1>1 DEF Goto, IInv, TypeInv
  <2>2. lock = p /\ lock' = p
    BY <1>1, HolderGoes DEF Unlocked
  <2>3. HolderStage = "Unbound" /\ HolderStage' = "Unbound"
    BY <1>1, <2>1, <2>2, HolderGoes, StageCases DEF Unlocked
  <2> QED
    BY <2>1, <2>2, <2>3
<1>5. Selected(where') = "source"
  <2>1. PublishingObject(p)'
    BY <1>4 DEF IInv, HeldInv, Held, CreateHeld
  <2>2. AtPhase(where', 9)
    BY <1>1, <2>1 DEF PublishingObject, AtPhase, Unpublished, Opened
  <2> QED
    BY <2>2, EffectsEnumerated DEF AtPhase, Opened, Selected
<1>6. Sel = None /\ Poss = {None}
  BY <1>2, UnpublishedDir, NoneMapped
<1>7. Sel' = First
  BY <1>5, ManifestCases DEF Sel, AsManifest, First
<1>8. Poss' = Poss \cup {First}
  <2>1. \A dir : AsManifest(dir)' = AsManifest(dir)
    BY <1>1 DEF AsManifest, Selected
  <2>2. Poss' = {AsManifest(dir) : dir \in disk'}
    BY <2>1 DEF Poss
  <2>3. AsManifest(where') = First
    BY <1>5, ManifestCases
  <2> QED
    BY <1>3, <2>2, <2>3 DEF Poss
<1> QED
  BY <1>1, <1>4, <1>6, <1>7, <1>8, StepCreates

\* A database is selected, bound and recovered, worked on and prepared for its close.
LEMMA FinishLifecycle ==
    ASSUME IInv, NEW p \in Processes, FinishChildren(p)
    PROVE  LifecycleStep
<1>1. /\ stage[p] = "selected" /\ Goto(p, "repaired")
      /\ UNCHANGED <<where, disk, certificate, frontier, report, lock>>
  BY DEF FinishChildren, Step, clean, data
<1>2. lock = p /\ HolderStage = "Unbound" /\ HolderStage' = "ManifestSelected"
  BY <1>1, HolderGoes, StageCases DEF Unlocked
<1>3. Selected(where) # "none" /\ disk = {where}
  BY <1>1, <1>2 DEF IInv, HeldInv, Held, OpenHeld
<1>4. Sel # None
  <2>1. Selected(where) = "source" \/ Selected(where) = "target"
    BY <1>3 DEF Selected
  <2> QED
    BY <2>1, ManifestCases, ManifestsDiffer DEF Sel
<1>5. Sel' = Sel /\ Poss' = {Sel'}
  BY <1>1, <1>3, KeptMapped, SyncedMapped
<1> QED
  BY <1>1, <1>2, <1>4, <1>5, StepSelects

LEMMA BindLifecycle ==
    ASSUME IInv, NEW p \in Processes, BindCreated(p) \/ BindSelected(p) \/ OpenPublished(p)
    PROVE  LifecycleStep
<1>1. /\ stage[p] \in {"creating", "repaired", "published"} /\ Goto(p, "recoveryRequired")
      /\ UNCHANGED <<where, certificate, frontier, report, lock>>
      /\ disk' = disk \/ DirectorySynced
  BY DEF BindCreated, BindSelected, OpenPublished, Step, files, clean, data
<1>2. lock = p /\ HolderStage = AsStage(stage[p]) /\ HolderStage' = AsStage("recoveryRequired")
  BY <1>1, HolderGoes DEF Unlocked
<1>3. HolderStage \in {"Unbound", "ManifestSelected"} /\ HolderStage' = "RecoveryRequired"
  BY <1>1, <1>2, StageCases
<1>4. Selected(where) = "source" /\ (disk' = disk => disk = {where} \/ DirectorySynced)
  <2>1. CASE BindCreated(p)
    <3>1. item[p] = 9 /\ phase[p] \in 1 .. 8 /\ Creating(p)
      BY <2>1, CreatingFacts, EffectsEnumerated DEF BindCreated, Step
    <3>2. Opened(where) /\ where["source"] = "selected" /\ disk = {where}
      BY <3>1, EffectsEnumerated DEF Creating, AtPhase, Undone
    <3> QED
      BY <3>2, SelectedCases DEF Opened
  <2>2. CASE BindSelected(p)
    BY <1>2, <2>2 DEF BindSelected, IInv, HeldInv, Held, OpenHeld
  <2>3. CASE OpenPublished(p)
    BY <2>3 DEF OpenPublished
  <2> QED
    BY <2>1, <2>2, <2>3
<1>5. Sel = First
  BY <1>4, ManifestCases DEF Sel
<1>6. Sel' = Sel /\ Poss' = {Sel'}
  BY <1>1, <1>4, KeptMapped, SyncedMapped
<1> QED
  BY <1>1, <1>3, <1>5, <1>6, StepBinds

LEMMA WorkLifecycle ==
    ASSUME IInv, NEW p \in Processes,
           CompleteRecovery(p) \/ CommitChange(p) \/ BindClosePending(p)
    PROVE  LifecycleStep
<1>1. UNCHANGED <<where, disk, certificate, report, lock>>
  BY DEF CompleteRecovery, CommitChange, BindClosePending, Step, files, clean, data
<1>2. stage[p] \in HeldUnderSource
  BY DEF CompleteRecovery, CommitChange, BindClosePending, Step, HeldUnderSource, PreparingClose
<1>3. /\ Sel = First /\ Sel' = Sel /\ Poss' = Poss /\ stage[p] \notin Unlocked
  BY <1>1, <1>2, SourceHolder, SourceMapped, KeptMapped DEF IInv, TypeInv, PastOwner
<1>4. CASE CompleteRecovery(p)
  <2>1. stage[p] = "recoveryRequired" /\ Goto(p, "live") /\ frontier' = frontier
    BY <1>4 DEF CompleteRecovery, Step
  <2>2. HolderStage = "RecoveryRequired" /\ HolderStage' = "Live"
    BY <1>1, <1>3, <2>1, HolderGoes, StageCases DEF PreparingClose
  <2> QED
    BY <1>1, <1>3, <2>1, <2>2, StepRecoversOrPrepares
<1>5. CASE CommitChange(p)
  <2>1. stage[p] = "live" /\ Goto(p, "live") /\ frontier' = frontier + 1
    BY <1>5 DEF CommitChange, Step
  <2>2. HolderStage = "Live" /\ HolderStage' = "Live"
    BY <1>1, <1>3, <2>1, HolderGoes, StageCases DEF PreparingClose
  <2> QED
    BY <1>1, <1>3, <2>1, <2>2, StepCommits
<1>6. CASE BindClosePending(p)
  <2>1. stage[p] = "slotPublished" /\ Goto(p, "closePending") /\ frontier' = frontier
    BY <1>6 DEF BindClosePending, Step, data
  <2>2. HolderStage = "Live" /\ HolderStage' = "ClosePending"
    BY <1>1, <1>3, <2>1, HolderGoes, StageCases DEF PreparingClose, Publishing, BeforeReplacement
  <2> QED
    BY <1>1, <1>3, <2>1, <2>2, StepRecoversOrPrepares
<1> QED
  BY <1>4, <1>5, <1>6

\* The clean manifest takes the place of the source, now and on disk now or later.
LEMMA TargetReplaces ==
    ASSUME IInv, IInv', NEW p \in Processes, stage[p] = "targetSynced",
           Enter(TargetReplacesSource), UNCHANGED <<content, clean, frontier>>
    PROVE  Replaces
<1>1. where \in disk /\ disk \subseteq Dirs /\ DirInv
  BY DEF IInv, TypeInv
<1>2. lock = p /\ Held(p)
  BY PastOwnerStages DEF IInv, LockInv, HeldInv, PastOwner
<1>3. UnderSource /\ certificate = frontier /\ certificate' = certificate
  BY <1>2 DEF Held, OpenHeld, TargetHeld, BeforeReplacement, clean
<1>4. Sel = First
  BY <1>1, <1>3, SourceMapped
<1>5. \A dir \in disk : Selected(Moved(dir, TargetReplacesSource)) = "target"
  <2>1. SUFFICES ASSUME NEW dir \in disk
                 PROVE  Selected(Moved(dir, TargetReplacesSource)) = "target"
    OBVIOUS
  <2>2. Moved(dir, TargetReplacesSource)["target"] = "selected"
    BY <1>1, <2>1, MovedTarget, ObjectsEnumerated DEF Dirs
  <2> QED
    BY <2>2, SelectedCases
<1>6. \A dir : AsManifest(dir)' = AsManifest(dir)
  BY <1>3 DEF AsManifest, Selected
<1>7. \A dir \in disk : AsManifest(Moved(dir, TargetReplacesSource)) = Clean
  BY <1>5, ManifestCases
<1>8. Sel' = Clean
  <2>1. Sel' = AsManifest(where')
    BY <1>6 DEF Sel
  <2> QED
    BY <1>1, <1>7, <2>1 DEF Enter
<1>9. Poss' = Poss \cup {Clean}
  <2>1. Poss' = {AsManifest(dir) : dir \in disk'}
    BY <1>6 DEF Poss
  <2>2. disk' = disk \cup {Moved(dir, TargetReplacesSource) : dir \in disk}
    BY DEF Enter
  <2> QED
    BY <1>1, <1>7, <2>1, <2>2 DEF Poss
<1> QED
  BY <1>3, <1>4, <1>8, <1>9 DEF Replaces

LEMMA ReplaceLifecycle ==
    ASSUME IInv, IInv', NEW p \in Processes, ReplaceManifest(p)
    PROVE  LifecycleStep
<1>1. /\ stage[p] = "targetSynced" /\ Goto(p, "targetSelected")
      /\ Enter(TargetReplacesSource) /\ UNCHANGED <<content, clean, frontier, report, lock>>
  BY DEF ReplaceManifest, Step, data
<1>2. HolderStage = "ClosePending" /\ HolderStage' = "ClosePending"
  BY <1>1, HolderGoes, StageCases DEF Unlocked, Publishing, BeforeReplacement
<1> QED
  BY <1>1, <1>2, TargetReplaces, StepPublishes

LEMMA ClosedLifecycle ==
    ASSUME IInv, NEW p \in Processes, Closed(p)
    PROVE  LifecycleStep
<1>1. /\ stage[p] = "targetDurable" /\ Goto(p, "closed")
      /\ UNCHANGED <<where, disk, certificate, frontier, report, lock>>
  BY DEF Closed, Step, files, clean, data
<1>2. lock = p /\ HolderStage = "ClosePending" /\ HolderStage' = "Closed"
  BY <1>1, HolderGoes, StageCases DEF Unlocked, Publishing
<1>3. Selected(where) = "target" /\ disk = {where}
  BY <1>1, <1>2 DEF IInv, HeldInv, Held, TargetHeld
<1>4. Sel = Clean /\ Poss = {Sel}
  BY <1>3, ManifestCases, SyncedMapped DEF Sel
<1>5. Sel' = Sel /\ Poss' = Poss
  BY <1>1, KeptMapped
<1> QED
  BY <1>1, <1>2, <1>4, <1>5, StepCloses

\* A failed close says no more than what is so.
LEMMA FailsLifecycle ==
    ASSUME IInv, IInv', NEW p \in Processes, CloseFails(p)
    PROVE  LifecycleStep
<1>1. /\ stage[p] \in Publishing /\ Goto(p, "failed")
      /\ UNCHANGED <<content, clean, certificate, frontier, lock>>
  BY DEF CloseFails, SourceReported, ReplacementReported, SelectionReported,
         DurabilityReported, Reports, Publishing, BeforeReplacement, clean, data
<1>2. lock = p /\ HolderStage = "ClosePending" /\ HolderStage' = "PublicationFailed"
  BY <1>1, HolderGoes, StageCases DEF Unlocked, Publishing, BeforeReplacement
<1>3. Held(p) /\ where \in disk
  BY <1>2 DEF IInv, HeldInv, TypeInv
<1>4. CASE SourceReported(p)
  <2>1. stage[p] \in BeforeReplacement /\ report' = "SourceSelected" /\ UNCHANGED <<where, disk>>
    BY <1>4 DEF SourceReported, Reports
  <2>2. Sel = First /\ Poss = {Sel}
    BY <1>3, <2>1, SourceMapped DEF Held, OpenHeld
  <2>3. Sel' = Sel /\ Poss' = Poss
    BY <1>1, <2>1, KeptMapped
  <2> QED
    BY <1>1, <1>2, <2>1, <2>2, <2>3, StepFails DEF First
<1>5. CASE ReplacementReported(p)
  <2>1. /\ stage[p] = "targetSynced" /\ report' = "SelectionIndeterminate"
        /\ Enter(TargetReplacesSource) \/ UNCHANGED <<where, disk>>
    BY <1>5 DEF ReplacementReported, Reports
  <2>2. Enter(TargetReplacesSource) => Replaces
    BY <1>1, <2>1, TargetReplaces
  <2>3. UNCHANGED <<where, disk>> => Sel' = Sel /\ Poss' = Poss
    BY <1>1, KeptMapped
  <2> QED
    BY <1>1, <1>2, <2>1, <2>2, <2>3, StepFails
<1>6. CASE SelectionReported(p)
  <2>1. /\ stage[p] = "targetSelected" /\ report' = "TargetSelectedDurabilityIndeterminate"
        /\ where' = where /\ (disk' = disk \/ DirectorySynced)
    BY <1>6 DEF SelectionReported, Reports
  <2>2. Sel = Clean
    BY <1>3, <2>1, ManifestCases DEF Held, TargetHeld, Sel
  <2>3. Sel' = Sel /\ (Poss' = Poss \/ Poss' = {Sel'})
    BY <1>1, <2>1, KeptMapped
  <2> QED
    BY <1>1, <1>2, <2>1, <2>2, <2>3, StepFails DEF Clean
<1>7. CASE DurabilityReported(p)
  <2>1. stage[p] = "targetDurable" /\ report' = "TargetDurable" /\ UNCHANGED <<where, disk>>
    BY <1>7 DEF DurabilityReported, Reports
  <2>2. Sel = Clean /\ Poss = {Sel}
    BY <1>3, <2>1, ManifestCases, SyncedMapped DEF Held, TargetHeld, Sel
  <2>3. Sel' = Sel /\ Poss' = Poss
    BY <1>1, <2>1, KeptMapped
  <2> QED
    BY <1>1, <1>2, <2>1, <2>2, <2>3, StepFails DEF Clean
<1> QED
  BY <1>4, <1>5, <1>6, <1>7 DEF CloseFails

\* A lock is taken, or nothing but a process changes: no owner is bound by that.
LEMMA AcquisitionLifecycle ==
    ASSUME IInv, NEW p \in Processes,
           ObserveNamespace(p) \/ LockCreatedOwner(p) \/ OpenOwner(p) \/ Acquire(p)
    PROVE  LifecycleStep
<1>1. UNCHANGED <<where, disk, certificate, frontier, report>>
  BY DEF ObserveNamespace, LockCreatedOwner, OpenOwner, Acquire, files, clean, data
<1>2. stage \in [Processes -> Stages] /\ p # Nobody
  BY ProcessesAssumption DEF IInv, TypeInv
<1>3. HolderStage' = HolderStage
  <2>1. CASE ObserveNamespace(p)
    <3>1. lock # p /\ lock' = lock /\ Goto(p, "observed")
      BY <2>1 DEF ObserveNamespace, Step, IInv, LockInv, Unlocked
    <3>2. lock # Nobody => stage'[lock] = stage[lock]
      BY <1>2, <3>1 DEF Goto, IInv, TypeInv
    <3> QED
      BY <3>1, <3>2 DEF HolderStage, AsStage
  <2>2. CASE LockCreatedOwner(p) \/ OpenOwner(p) \/ Acquire(p)
    <3>1. lock = Nobody /\ lock' = p
      BY <2>2 DEF LockCreatedOwner, OpenOwner, Acquire
    <3>2. stage'[p] \in {"ownerLocked", "owner", "inspected"}
      BY <1>2, <2>2 DEF LockCreatedOwner, OpenOwner, Acquire, Goto
    <3>3. AsStage(stage'[p]) = "Unbound"
      BY <3>2, StageCases
    <3> QED
      BY <1>2, <3>1, <3>3 DEF HolderStage, AsStage
  <2> QED
    BY <2>1, <2>2
<1> QED
  BY <1>1, <1>3, KeptMapped, StepSynchronizes

\* Whoever returns gives up what it owns, and no more.
LEMMA ReturnLifecycle ==
    ASSUME IInv, NEW p \in Processes,
           \/ CreateRefused(p) \/ ObjectRefused(p) \/ PublishedRefused(p) \/ BindRefused(p)
           \/ Drop(p) \/ Stop(p)
    PROVE  LifecycleStep
<1>1. Released(p) /\ UNCHANGED <<where, disk, certificate, frontier>>
  BY DEF CreateRefused, ObjectRefused, PublishedRefused, BindRefused, Drop, Stop, Return,
         files, clean, data
<1>2. Sel' = Sel /\ Poss' = Poss
  BY <1>1, KeptMapped
<1>3. CASE lock = p
  <2>1. lock' = Nobody /\ report' = "none"
    BY <1>1, <1>3 DEF Released
  <2>2. HolderStage' = "Unbound"
    BY <2>1 DEF HolderStage
  <2>3. HolderStage = "Unbound" => report = "none"
    <3>1. AsStage("failed") # "Unbound"
      BY StageCases
    <3> QED
      BY <1>3, <3>1, ProcessesAssumption DEF HolderStage, IInv, ReportInv
  <2> QED
    BY <1>1, <1>2, <2>1, <2>2, <2>3, StepReleases, StepSynchronizes
<1>4. CASE lock # p
  <2>1. lock' = lock /\ report' = report /\ Goto(p, "idle")
    BY <1>1, <1>4 DEF Released
  <2>2. lock # Nobody => stage'[lock] = stage[lock]
    BY <1>4, <2>1 DEF Goto, IInv, TypeInv
  <2>3. HolderStage' = HolderStage
    BY <2>1, <2>2 DEF HolderStage, AsStage
  <2> QED
    BY <1>1, <1>2, <2>1, <2>3, StepSynchronizes
<1> QED
  BY <1>3, <1>4

LEMMA PowerLossLifecycle ==
    ASSUME PowerLoss
    PROVE  LifecycleStep
<1>1. PICK dir \in disk : where' = dir /\ disk' = {dir}
  BY DEF PowerLoss
<1>2. /\ lock' = Nobody /\ report' = "none"
      /\ UNCHANGED <<certificate, frontier>>
  BY DEF PowerLoss, data
<1>3. Sel' = AsManifest(dir)
  BY <1>1, <1>2 DEF Sel, AsManifest, Selected
<1>4. Sel' \in Poss
  BY <1>1, <1>3 DEF Poss
<1>5. Poss' = {Sel'}
  <2>1. (disk = {where})' => (Poss = {Sel})'
    BY SyncedMapped, PTL
  <2> QED
    BY <1>1, <2>1
<1>6. HolderStage' = "Unbound"
  BY <1>2 DEF HolderStage
<1> QED
  BY <1>2, <1>4, <1>5, <1>6, StepLosesPower

LEMMA NextLifecycle ==
    ASSUME IInv, IInv', [Next]_vars
    PROVE  LifecycleStep
<1>1. CASE UNCHANGED vars
  <2>1. UNCHANGED <<where, disk, certificate, frontier, report, lock, stage>>
    BY <1>1 DEF vars
  <2> QED
    BY <2>1, KeptMapped, StepSynchronizes DEF HolderStage, AsStage
<1>2. CASE PowerLoss
  BY <1>2, PowerLossLifecycle
<1>3. ASSUME NEW p \in Processes, CreateStep(p) PROVE LifecycleStep
  BY <1>3, AcquisitionLifecycle, UnselectedLifecycle, CreationLifecycle, ReturnLifecycle,
     PublishedLifecycle, BindLifecycle
     DEF CreateStep
<1>4. ASSUME NEW p \in Processes, OpenStep(p) PROVE LifecycleStep
  BY <1>4, AcquisitionLifecycle, CreationLifecycle, FinishLifecycle, BindLifecycle,
     ReturnLifecycle, WorkLifecycle
     DEF OpenStep
<1>5. ASSUME NEW p \in Processes, CloseStep(p) PROVE LifecycleStep
  BY <1>5, SourceLifecycle, SlotLifecycle, WorkLifecycle, ClosingLifecycle,
     ReplaceLifecycle, ClosedLifecycle, FailsLifecycle
     DEF CloseStep
<1>6. ASSUME NEW p \in Processes, Drop(p) \/ Stop(p) PROVE LifecycleStep
  BY <1>6, ReturnLifecycle
<1> QED
  BY <1>1, <1>2, <1>3, <1>4, <1>5, <1>6 DEF Next

LEMMA InitLifecycle ==
    ASSUME Init
    PROVE  AsLifecycle!Init
<1>1. where \in disk /\ \A dir \in disk : Selected(dir) = "none"
  BY ObjectsEnumerated DEF Init, Selected
<1>2. Sel = None /\ Poss = {None}
  BY <1>1, NoneMapped
<1>3. HolderStage = "Unbound" /\ frontier = 0 /\ report = "none"
  BY DEF Init, HolderStage
<1>4. AsLifecycle!NoManifest = None
  BY DEF AsLifecycle!NoManifest, AsLifecycle!Manifest, None
<1> QED
  BY <1>2, <1>3, <1>4 DEF AsLifecycle!Init, Sel, Poss, HolderStage

\* The files of a database go through the lifecycle of ntsql-database, in whatever
\* order their processes act, stop, fail and lose power (select_manifest, close).
THEOREM FilesImplementLifecycle == Spec => ImplementsDatabaseLifecycle
<1>1. Init => AsLifecycle!Init
  BY InitLifecycle
<1>2. IInv /\ IInv' /\ [Next]_vars => LifecycleStep
  BY NextLifecycle
<1>3. IInv /\ IInv' /\ [Next]_vars => [AsLifecycle!Next]_(AsLifecycle!vars)
  BY <1>2 DEF LifecycleStep
<1> QED
  BY <1>1, <1>3, FilesInvariant, PTL
     DEF Spec, ImplementsDatabaseLifecycle, AsLifecycle!Spec
================================================================================
