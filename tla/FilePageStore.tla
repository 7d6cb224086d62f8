---------------------------- MODULE FilePageStore ----------------------------
(***************************************************************************)
(* FilePageStore of crates/ntsql-storage-file/src/lib.rs: page snapshots   *)
(* appended to one file, each a group of frames followed by a sync_all,    *)
(* and the last snapshot of each page kept in memory; with the committed   *)
(* page recovery that owns the store after every open.                     *)
(*                                                                         *)
(* An image is the position of the log record that carries it.  The log    *)
(* gives `durable`, the last committed image of each page, and never takes *)
(* it back (TransactionStorage, FileLog).  A call is one action with the   *)
(* choice of how far it got, as in FileLog.  Left out: page versions and   *)
(* bytes, lineages, the V1 and V2 headers, and AfterWrite of arm_fault,    *)
(* which reports a failure of a call that succeeded.                       *)
(*                                                                         *)
(* Bounds: MaxPosition images, MaxSequence snapshots, the end of the store *)
(* sequence, MaxFaults failures.                                           *)
(***************************************************************************)
EXTENDS AppendFile

CONSTANTS Pages, GroupFrames, MaxPosition, MaxSequence, MaxFaults

ASSUME PagesAssumption == Pages # {}
ASSUME GroupAssumption == GroupFrames \in Nat \ {0, 1, 2}
ASSUME StoreBounds == MaxPosition \in Nat /\ MaxSequence \in Nat /\ MaxFaults \in Nat

VARIABLES
    durable,    \* page -> its last committed durable image
    dirty,      \* page snapshots in the hands of callers, waiting for a flush
    file,       \* the file of the store
    owner,      \* nobody, recovery or live work has the store open
    pages, nextSequence, poisoned,      \* its fields
    faults

memory == <<pages, nextSequence>>
storeVars == <<file, owner, memory, poisoned>>
vars == <<durable, dirty, storeVars, faults>>

NoPages == [p \in Pages |-> 0]

(* create_new_internal has returned, and the store goes to recovery.        *)
Init ==
    /\ durable = NoPages /\ dirty = {}
    /\ file = [frames |-> <<>>, synced |-> 0]
    /\ owner = "Recovery"
    /\ pages = NoPages /\ nextSequence = 1 /\ poisoned = FALSE
    /\ faults = 0

Fault == faults < MaxFaults /\ faults' = faults + 1

------------------------------------------------------------------------------
(* Reading the file: groups in store sequence order, each of them whole.    *)
SnapshotFrame(p, at, sequence, part) ==
    [kind |-> "Snapshot", page |-> p, at |-> at, sequence |-> sequence, part |-> part]

GroupOf(p, at, sequence) ==
    [part \in 1 .. GroupFrames |-> SnapshotFrame(p, at, sequence, part)]

Ends(frames) == {i \in Of(frames, "Snapshot") : frames[i].part = GroupFrames}

(* apply_frame accepts each frame after those before it.                    *)
Follows(frame, before) ==
    IF frame.part > 1
    THEN before = [frame EXCEPT !.part = @ - 1]
    ELSE before.part = GroupFrames /\ frame.sequence = before.sequence + 1

Nothing == SnapshotFrame(0, 0, 0, GroupFrames)

Accepted(f) ==
    LET frames == CompleteFrames(f) IN
    /\ Of(frames, "Malformed") = {}
    /\ \A i \in DOMAIN frames :
           Follows(frames[i], IF i = 1 THEN Nothing ELSE frames[i - 1])

Snapshots(frames) ==
    [p \in Pages |->
        LET ends == {i \in Ends(frames) : frames[i].page = p} IN
        IF ends = {} THEN 0 ELSE frames[Latest(ends)].at]

(* Defect: only bytes that are no whole frame are cut off.                  *)
NothingPending(frames) == 0

(* The frames of an unfinished group at the end of the file.                *)
Pending(frames) == Len(frames) - Latest(Ends(frames))

Repaired(f) ==
    LET frames == CompleteFrames(f) IN
    Synced([f EXCEPT !.frames = SubSeq(frames, 1, Len(frames) - Pending(frames))])

------------------------------------------------------------------------------
(* Writing a group.                                                         *)

(* Defect: the frames are written and not synchronized.                     *)
GroupWrittenOnly(f) == f
GroupSynced(f) == Synced(f)

WriteSnapshotGroup(p, at) ==
    LET group == GroupOf(p, at, nextSequence)
        written == Extended(file, group)
    IN
    /\ ~poisoned /\ nextSequence <= MaxSequence
    /\ \/ /\ file' = GroupSynced(written)
          /\ pages' = [pages EXCEPT ![p] = at]
          /\ nextSequence' = nextSequence + 1
          /\ UNCHANGED <<poisoned, faults>>
       \/ /\ Fault
          /\ file' \in Interrupted(file, group) \cup {written}
          /\ poisoned' = TRUE
          /\ UNCHANGED memory
    /\ UNCHANGED owner

(* The call is refused or fails before it writes.                           *)
NothingWritten ==
    /\ \/ (poisoned \/ nextSequence > MaxSequence) /\ UNCHANGED faults
       \/ Fault
    /\ UNCHANGED storeVars

------------------------------------------------------------------------------
(* A transaction commits an image of a page, whose dirty page stays with    *)
(* the caller.                                                              *)
CommitImage(p) ==
    LET at == Latest({durable[q] : q \in Pages}) + 1 IN
    /\ owner = "Live" /\ at <= MaxPosition
    /\ durable' = [durable EXCEPT ![p] = at]
    /\ dirty' = dirty \cup {[page |-> p, at |-> at]}
    /\ UNCHANGED <<storeVars, faults>>

(* write_page: whatever happens, the dirty page is used up.                 *)
WritePage(page) ==
    /\ owner = "Live"
    /\ WriteSnapshotGroup(page.page, page.at) \/ NothingWritten
    /\ dirty' = dirty \ {page}
    /\ UNCHANGED durable

(* compare_and_replace, of a page whose snapshot is not the last committed  *)
(* image; a poisoned store lets no page be observed.                        *)
(* Defect: only a page that was never written counts.                       *)
MissingOnly(p) == pages[p] = 0 /\ durable[p] # 0
Behind(p) == pages[p] # durable[p]

CompareAndReplace(p) ==
    /\ owner = "Recovery" /\ Behind(p)
    /\ WriteSnapshotGroup(p, durable[p])
    /\ UNCHANGED <<durable, dirty>>

Recovered ==
    /\ owner = "Recovery" /\ ~poisoned
    /\ \A p \in Pages : ~Behind(p)
    /\ owner' = "Live"
    /\ UNCHANGED <<durable, dirty, file, memory, poisoned, faults>>

------------------------------------------------------------------------------
(* The store is dropped; dirty pages stay with callers that live on.        *)
Closed ==
    /\ owner' = "Nobody"
    /\ pages' = NoPages /\ nextSequence' = 0 /\ poisoned' = FALSE

Drop == owner = "Live" /\ Closed /\ UNCHANGED <<durable, dirty, file, faults>>

(* A recovery that failed is given up, so that the store can be opened      *)
(* again; a poisoned one has no other way on.                               *)
GiveUp ==
    /\ owner = "Recovery" /\ poisoned
    /\ Closed /\ UNCHANGED <<durable, dirty, file, faults>>

PowerLoss ==
    /\ Fault
    /\ Closed
    /\ file' \in AfterPowerLoss(file)
    /\ dirty' = {}
    /\ UNCHANGED durable

(* inspect and finish: synchronize, scan, cut off an unfinished end.        *)
Open ==
    LET frames == CompleteFrames(file) IN
    /\ owner = "Nobody"
    /\ Accepted(file)
    /\ file' = Repaired(file)
    /\ owner' = "Recovery"
    /\ pages' = Snapshots(frames)
    /\ nextSequence' = Cardinality(Ends(frames)) + 1
    /\ UNCHANGED <<durable, dirty, poisoned, faults>>

(* A system call of the open fails, or the scan refuses the file.           *)
OpenFails ==
    /\ owner = "Nobody"
    /\ \/ file' = Synced(file) /\ ~Accepted(file) /\ UNCHANGED faults
       \/ Fault /\ file' = Synced(file)
       \/ Fault /\ Accepted(file) /\ file' = Repaired(file)
    /\ UNCHANGED <<durable, dirty, owner, memory, poisoned>>

RecoveryStep == Open \/ (\E p \in Pages : CompareAndReplace(p)) \/ Recovered \/ GiveUp

Next ==
    \/ RecoveryStep
    \/ \E p \in Pages : CommitImage(p)
    \/ \E page \in dirty : WritePage(page)
    \/ Drop
    \/ PowerLoss
    \/ OpenFails

(* Whoever opens the storage drives its recovery to an end, the only way to *)
(* get at the storage, and opens it again when a write failed.              *)
Spec == Init /\ [][Next]_vars /\ WF_vars(RecoveryStep)
==============================================================================
