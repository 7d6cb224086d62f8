-------------------------- MODULE RestartPipeline --------------------------
(***************************************************************************)
(* The restart of a transaction page storage: the typestates of            *)
(* crates/ntsql-transaction that lead from a log and a page store nobody   *)
(* may use yet to a coordinator with live work, the retention analysis,    *)
(* reclamation and clean close that may follow, and crashes anywhere.      *)
(* One action is one transition of the typestate; an error of an adapter   *)
(* is a Fault, and a refusal of the evidence leads to a phase of its own.  *)
(*                                                                         *)
(* Appends and their flush are one step here: TransactionStorage has the   *)
(* volatile tail of a log, and a crash never keeps a part of it.           *)
(*                                                                         *)
(* Bounds: MaxPosition records, MaxRaw raw ones, MaxEpoch epochs,          *)
(* MaxSequence transactions of a coordinator, MaxFaults adapter errors,    *)
(* MaxGeneration reclamations.                                             *)
(***************************************************************************)
EXTENDS RestartRetention

CONSTANTS Pages, RawPages, MaxRaw, MaxPosition, MaxEpoch, MaxSequence, MaxFaults, MaxGeneration

ASSUME PagesAssumption == Pages \subseteq Nat \ {0} /\ RawPages \subseteq Pages
ASSUME BoundsAssumption ==
    /\ MaxRaw \in Nat /\ MaxPosition \in Nat /\ MaxEpoch \in Nat /\ MaxSequence \in Nat
    /\ MaxFaults \in Nat /\ MaxGeneration \in Nat

VARIABLES
    log,           \* the durable records that the log retains
    highWater,     \* its last position, also when the record is gone
    generation,    \* how often its prefix was reclaimed
    anchor,        \* the checkpoint in its header: a set of at most one
    epoch,         \* the highest coordinator epoch it has allocated
    store,         \* page -> position of the image in the page store
    slot,          \* the restart checkpoint: a set of at most one baseline
    cleanSlot,     \* the candidate that a clean close published
    phase,         \* the typestate that owns all of them
    held,          \* the evidence that it carries along
    coordinator,   \* the coordinator, from restoration on, and the dirty
                   \* pages in the hands of its callers
    faults,        \* adapter errors so far
    history        \* every durable record there ever was, removed or not

logVars == <<log, highWater, generation, anchor, epoch>>
slotVars == <<slot, cleanSlot>>
vars == <<logVars, store, slotVars, phase, held, coordinator, faults, history>>

Live == {"Completed", "Analyzed", "Reclaimed"}

NoEvidence == [baseline |-> {}, plan |-> {}, repairs |-> <<>>, todo |-> {}, retention |-> {}]
NewCoordinator(e) ==
    [epoch |-> e, next |-> 1, lifecycles |-> <<>>, staged |-> {}, dirty |-> {}]
NoCoordinator == NewCoordinator(0)

Metadata ==
    [generation |-> generation, anchor |-> anchor,
     retainedFirst |-> Earliest(PositionsIn(log)), highWater |-> highWater, epoch |-> epoch]

To(p) == phase' = p
Fault == faults < MaxFaults /\ faults' = faults + 1
Idle(t) == UNCHANGED <<logVars, history, t>>

Init ==
    /\ log = {} /\ highWater = 0 /\ generation = 0 /\ anchor = {} /\ epoch = 0
    /\ store = [p \in Pages |-> 0]
    /\ slot = {} /\ cleanSlot = {}
    /\ phase = "Unchecked" /\ held = NoEvidence /\ coordinator = NoCoordinator
    /\ faults = 0 /\ history = {}

----------------------------------------------------------------------------
(* Selection.  A complete log is asked to derive the checkpoint again; a    *)
(* reclaimed one has it anchored, and the page store is not looked at.      *)
Hold(baseline) == held' = [held EXCEPT !.baseline = {baseline}]

AnchoredSelectable(baseline) ==
    MetadataValid(Metadata, baseline.frontier) /\ Anchored(baseline, Metadata)

Select ==
    /\ phase = "Unchecked"
    /\ \/ Fault /\ To("Unreadable") /\ UNCHANGED held
       \/ /\ slot = {}
          /\ To(IF generation = 0 THEN "Absent" ELSE "Unreadable")
          /\ UNCHANGED <<held, faults>>
       \/ \E b \in slot :
            LET selectable == IF generation = 0 THEN BaselineHolds(log, highWater, store, b)
                              ELSE AnchoredSelectable(b)
            IN /\ IF selectable THEN To("Selected") /\ Hold(b)
                  ELSE To("Rejected") /\ UNCHANGED held
               /\ UNCHANGED faults
    /\ Idle(<<store, slotVars, coordinator>>)

(* Complete recovery needs a complete log; nothing else may fall back to it. *)
Declinable == {"Absent", "Rejected", "Selected", "PlanningFailed", "PreparationFailed"}
ContinueWithFullRecovery ==
    /\ phase \in Declinable /\ generation = 0
    /\ To("FullRecovery")
    /\ held' = [NoEvidence EXCEPT !.todo = {r.page : r \in {x \in log : x.kind = "TransactionPage"}}]
    /\ Idle(<<store, slotVars, coordinator, faults>>)

----------------------------------------------------------------------------
(* Complete recovery: the latest committed image of every page, in order of *)
(* the page numbers; raw images are not its business, and stop it.          *)
CommittedImages(page) ==
    {r.at : r \in {x \in log : /\ x.kind = "TransactionPage" /\ x.page = page
                               /\ Committed(Transactions(log), x.by)}}
Reconciles(page) == store[page] \in CommittedImages(page) \cup {0}

RecoverPage ==
    LET p == Earliest(held.todo)
        target == Latest(CommittedImages(p))
        shown == [store EXCEPT ![p] = IF target = 0 THEN @ ELSE target]
    IN
    /\ phase = "FullRecovery" /\ held.todo # {}
    /\ \/ ~Reconciles(p) /\ To("Stopped") /\ UNCHANGED <<held, store, faults>>
       \/ /\ Reconciles(p)
          /\ store' = shown
          /\ held' = [held EXCEPT !.todo = @ \ {p}]
          /\ UNCHANGED <<phase, faults>>
       \/ /\ Reconciles(p) /\ Fault
          /\ store' \in {store, shown}
          /\ held' = [held EXCEPT !.todo = {r.page : r \in {x \in log : x.kind = "TransactionPage"}}]
          /\ UNCHANGED phase
    /\ Idle(<<slotVars, coordinator>>)

(* analyze_restart of the recovered storage.                                *)
AnalyzeRestart ==
    /\ phase = "FullRecovery" /\ held.todo = {}
    /\ To(IF Analyzable(log, highWater) THEN "Recovered" ELSE "Stopped")
    /\ Idle(<<store, slotVars, held, coordinator, faults>>)

----------------------------------------------------------------------------
(* Publication of the baseline of now, which needs the complete log.  An    *)
(* error leaves the old or the new checkpoint.                              *)
Publishable == generation = 0 /\ CompleteAnalyzable(log, highWater, store)
Published(s) == s' = {Completeness(log, highWater, store)}

PublishCheckpoint ==
    /\ phase \in {"Recovered", "Completed"}
    /\ Publishable
    /\ \/ Published(slot) /\ UNCHANGED faults
       \/ Fault /\ (Published(slot) \/ UNCHANGED slot)
    /\ Idle(<<store, cleanSlot, phase, held, coordinator>>)

(* The owner of the recovered storage hands it to a new selection.          *)
SelectAgain ==
    /\ phase = "Recovered"
    /\ To("Unchecked") /\ held' = NoEvidence
    /\ Idle(<<store, slotVars, coordinator, faults>>)

----------------------------------------------------------------------------
(* Planning, from evidence read again.                                      *)
TheBaseline == CHOOSE b \in held.baseline : TRUE
ThePlan == CHOOSE p \in held.plan : TRUE

(* The transaction table of now, and whether the evidence yields one.       *)
Plannable(b) ==
    IF generation = 0 THEN Analyzable(log, highWater)
    ELSE PlanningMetadataValid(Metadata, b) /\ AnchoredPlannable(log, Metadata, b)
EntriesNow(b) == IF generation = 0 THEN Transactions(log) ELSE Advanced(b, log)

PlanReplay ==
    LET b == TheBaseline
        plannable == IF generation = 0 THEN SelectedPlannable(log, highWater, store, b)
                     ELSE Plannable(b)
    IN
    /\ phase = "Selected"
    /\ IF plannable
       THEN To("Planned") /\ held' = [held EXCEPT !.plan = {Plan(EntriesNow(b), log, highWater, b)}]
       ELSE To("PlanningFailed") /\ UNCHANGED held
    /\ Idle(<<store, slotVars, coordinator, faults>>)

PrepareRepairs ==
    /\ phase = "Planned"
    /\ IF Preparable(ThePlan, TheBaseline, store)
       THEN /\ To("Prepared")
            /\ held' = [held EXCEPT !.repairs = Repairs(ThePlan, TheBaseline, store)]
       ELSE To("PreparationFailed") /\ UNCHANGED held
    /\ Idle(<<store, slotVars, coordinator, faults>>)

(* execute_page_repairs, and retry, which starts over at the first page.    *)
ExecuteRepairs ==
    /\ phase \in {"Prepared", "RepairFailed"}
    /\ To("Repairing") /\ held' = [held EXCEPT !.todo = DOMAIN held.repairs]
    /\ Idle(<<store, slotVars, coordinator, faults>>)

RepairPage ==
    LET p == Earliest(held.todo)
        shown == [store EXCEPT ![p] = ImageAfter(held.repairs[p], @)]
        ready == Executable(held.repairs[p], store[p])
    IN
    /\ phase = "Repairing" /\ held.todo # {}
    /\ \/ ~ready /\ To("RepairFailed") /\ UNCHANGED <<store, held, faults>>
       \/ /\ ready /\ store' = shown
          /\ held' = [held EXCEPT !.todo = @ \ {p}]
          /\ UNCHANGED <<phase, faults>>
       \/ /\ ready /\ Fault /\ To("RepairFailed")
          /\ store' \in {store, shown} /\ UNCHANGED held
    /\ Idle(<<slotVars, coordinator>>)

FinishRepairs ==
    /\ phase = "Repairing" /\ held.todo = {}
    /\ To("Repaired")
    /\ Idle(<<store, slotVars, held, coordinator, faults>>)

----------------------------------------------------------------------------
(* Restoration allocates the epoch; an allocation that failed may have      *)
(* reached the log.  A retry allocates another one.                         *)
RestoreTransactions ==
    LET e == epoch + 1
        evident == RestorationEvidence(TheBaseline, ThePlan.frontier, ThePlan.entries)
    IN
    /\ phase \in {"Repaired", "RestorationFailed"}
    /\ \/ ~evident /\ To("Stopped") /\ UNCHANGED <<epoch, coordinator, faults>>
       \/ /\ evident /\ e <= MaxEpoch /\ epoch' = e
          /\ IF e > PersistedEpoch(TheBaseline, ThePlan.entries)
             THEN To("Restored") /\ coordinator' = NewCoordinator(e)
             ELSE To("Stopped") /\ UNCHANGED coordinator
          /\ UNCHANGED faults
       \/ /\ evident /\ Fault /\ To("RestorationFailed")
          /\ epoch' \in {epoch, e} /\ epoch' <= MaxEpoch
          /\ UNCHANGED coordinator
    /\ UNCHANGED <<log, highWater, generation, anchor, store, slotVars, held, history>>

(* complete_restart compares everything once more.                          *)
Completable ==
    /\ Plannable(TheBaseline)
    /\ CompletionEvidence(TheBaseline, ThePlan, coordinator, highWater, EntriesNow(TheBaseline))
    /\ \A p \in DOMAIN held.repairs : OutcomeHolds(held.repairs[p], store[p])

CompleteRestart ==
    /\ phase = "Restored"
    /\ To(IF Completable THEN "Completed" ELSE "Stopped")
    /\ Idle(<<store, slotVars, held, coordinator, faults>>)

----------------------------------------------------------------------------
(* Live work.  A failure of an append consumes the transaction, a failure   *)
(* of a commit leaves it to resolve; the record may be durable or not.      *)
Append(r) ==
    /\ log' = log \cup {r} /\ highWater' = r.at /\ history' = history \cup {r}
    /\ UNCHANGED <<generation, anchor, epoch>>
MayAppend(r) ==
    Fault /\ (Append(r) \/ UNCHANGED <<logVars, history>>)
NextPosition == highWater + 1

Moved(t, status) == coordinator' = [coordinator EXCEPT !.lifecycles[t] = status]

BeginTransaction ==
    LET t == <<coordinator.epoch, coordinator.next>> IN
    /\ phase \in Live /\ coordinator.next <= MaxSequence
    /\ coordinator' = [coordinator EXCEPT
           !.next = @ + 1,
           !.lifecycles = [x \in DOMAIN @ \cup {t} |-> IF x = t THEN "Active" ELSE @[x]]]
    /\ Idle(<<store, slotVars, phase, held, faults>>)

StagePageWrite(t, p) ==
    LET r == TransactionPageRecord(NextPosition, p, t)
        staging == [coordinator EXCEPT !.staged = @ \cup {<<t, p>>}]
    IN
    /\ phase \in Live /\ coordinator.lifecycles[t] = "Active"
    /\ <<t, p>> \notin coordinator.staged /\ NextPosition <= MaxPosition
    /\ \/ Append(r) /\ coordinator' = [staging EXCEPT !.dirty = @ \cup {r}] /\ UNCHANGED faults
       \/ /\ MayAppend(r)
          /\ coordinator' = [staging EXCEPT !.lifecycles[t] = "PageAppendIndeterminate"]
    /\ UNCHANGED <<store, slotVars, phase, held>>

Commit(t) ==
    LET r == CommitRecord(NextPosition, t) IN
    /\ phase \in Live /\ coordinator.lifecycles[t] = "Active" /\ NextPosition <= MaxPosition
    /\ \/ Append(r) /\ Moved(t, "Committed") /\ UNCHANGED faults
       \/ MayAppend(r) /\ Moved(t, "Indeterminate")
    /\ UNCHANGED <<store, slotVars, phase, held>>

Resolve(t) ==
    /\ phase \in Live /\ coordinator.lifecycles[t] = "Indeterminate"
    /\ Moved(t, IF Commits(log, t) = {} THEN "NoDurableCommitRecord" ELSE "Committed")
    /\ Idle(<<store, slotVars, phase, held, faults>>)

WriteRawPage(p) ==
    LET r == PageRecord(NextPosition, p) IN
    /\ phase \in Live /\ p \in RawPages /\ NextPosition <= MaxPosition
    /\ Cardinality({x \in history : x.kind = "Page"}) < MaxRaw
    /\ Append(r)
    /\ coordinator' = [coordinator EXCEPT !.dirty = @ \cup {r}]
    /\ UNCHANGED <<store, slotVars, phase, held, faults>>

(* Dirty pages are flushed in any order, a transaction's after its commit.  *)
FlushPage(r) ==
    /\ phase \in Live /\ r \in coordinator.dirty
    /\ r.kind = "TransactionPage" => coordinator.lifecycles[r.by] = "Committed"
    /\ coordinator' = [coordinator EXCEPT !.dirty = @ \ {r}, !.staged = @ \ {<<r.by, r.page>>}]
    /\ store' = [store EXCEPT ![r.page] = r.at]
    /\ Idle(<<slotVars, phase, held, faults>>)

----------------------------------------------------------------------------
(* Retention, from the evidence of now.                                     *)
Retainable ==
    /\ Plannable(TheBaseline)
    /\ RetentionDerivable(TheBaseline, ThePlan, coordinator, Metadata, log, highWater,
                          EntriesNow(TheBaseline), store)
RetentionNow == Retention(TheBaseline, Metadata, highWater, EntriesNow(TheBaseline), store)

AnalyzeRetention ==
    /\ phase = "Completed"
    /\ IF Retainable THEN To("Analyzed") /\ held' = [held EXCEPT !.retention = {RetentionNow}]
       ELSE To("Stopped") /\ UNCHANGED held
    /\ Idle(<<store, slotVars, coordinator, faults>>)

(* reclaim_wal_prefix believes nothing it read before: the slot still holds *)
(* the selected checkpoint, and the analysis comes out the same.            *)
(* Defect: the analysis of before is used as it is.                         *)
ReclaimableAsAnalyzed(retention) == slot = held.baseline
Reclaimable(retention) ==
    /\ slot = held.baseline
    /\ Retainable /\ RetentionNow = retention
    /\ ReclamationReady(retention, Metadata, log, TheBaseline)

InstallReclaimed(retention) ==
    LET installed == MetadataAfter(retention, Metadata, TheBaseline) IN
    /\ log' = RetainedFrom(log, retention.floor)
    /\ generation' = installed.generation /\ anchor' = installed.anchor
    /\ UNCHANGED <<highWater, epoch>>

ReclaimWalPrefix ==
    /\ phase = "Analyzed" /\ generation < MaxGeneration
    /\ \E retention \in held.retention :
         \/ /\ ~Reclaimable(retention)
            /\ To("Stopped") /\ UNCHANGED <<logVars, faults>>
         \/ /\ Reclaimable(retention) /\ InstallReclaimed(retention)
            /\ To("Reclaimed") /\ UNCHANGED faults
         \/ /\ Reclaimable(retention) /\ Fault
            /\ InstallReclaimed(retention) \/ UNCHANGED logVars
            /\ To("Stopped")
    /\ UNCHANGED <<store, slotVars, held, coordinator, history>>

----------------------------------------------------------------------------
(* Clean close, of the retention owner, and what a reopen makes of it.      *)
PagesOfCheckpoint == IF generation = 0 THEN {} ELSE DOMAIN TheBaseline.pages
CurrentDerivable ==
    /\ Plannable(TheBaseline)
    /\ Derivable(EntriesNow(TheBaseline), log, highWater, PagesOfCheckpoint, store)
CurrentBaseline ==
    Derived(EntriesNow(TheBaseline), log, highWater, PagesOfCheckpoint, store)

PrepareCleanClose ==
    LET closable == /\ CurrentDerivable
                    /\ Closable(coordinator, coordinator.staged, CurrentBaseline, Metadata)
        publish == cleanSlot' = {CurrentBaseline}
    IN
    /\ phase = "Analyzed"
    /\ \/ ~closable /\ To("Stopped") /\ UNCHANGED <<cleanSlot, faults>>
       \/ closable /\ publish /\ To("Closed") /\ UNCHANGED faults
       \/ closable /\ (publish \/ UNCHANGED cleanSlot) /\ To("Stopped") /\ Fault
    /\ Idle(<<store, slot, held, coordinator>>)

ValidateCleanReopen ==
    /\ phase = "Unchecked"
    /\ To(IF \E b \in cleanSlot : CleanReopenValid(Metadata, log, highWater, b, store)
          THEN "CleanReopened" ELSE "CleanRefused")
    /\ Idle(<<store, slotVars, held, coordinator, faults>>)

(* The process stops, or drops the owner: everything held in memory is gone. *)
Crash ==
    /\ phase # "Unchecked"
    /\ To("Unchecked") /\ held' = NoEvidence /\ coordinator' = NoCoordinator
    /\ Idle(<<store, slotVars, faults>>)

----------------------------------------------------------------------------
FallbackStep == ContinueWithFullRecovery \/ RecoverPage \/ AnalyzeRestart \/ SelectAgain
RestartStep ==
    \/ Select \/ PlanReplay \/ PrepareRepairs
    \/ ExecuteRepairs \/ RepairPage \/ FinishRepairs
    \/ RestoreTransactions \/ CompleteRestart
LiveStep ==
    \/ BeginTransaction
    \/ \E t \in DOMAIN coordinator.lifecycles :
         \/ Commit(t)
         \/ Resolve(t)
         \/ \E p \in Pages : StagePageWrite(t, p)
    \/ \E p \in Pages : WriteRawPage(p)
    \/ \E r \in coordinator.dirty : FlushPage(r)
Next ==
    \/ RestartStep
    \/ FallbackStep
    \/ LiveStep
    \/ PublishCheckpoint
    \/ AnalyzeRetention
    \/ ReclaimWalPrefix
    \/ PrepareCleanClose
    \/ ValidateCleanReopen
    \/ Crash

(* The handoff drives a restart from end to end in one call, its caller     *)
(* tries a failed step again; nothing makes anyone begin a transaction.     *)
Fairness == WF_vars(RestartStep) /\ WF_vars(FallbackStep)

Spec == Init /\ [][Next]_vars /\ Fairness
============================================================================
