-------------------------- MODULE RestartInvariant --------------------------
(***************************************************************************)
(* The inductive invariant behind the promises of RestartProperties: what  *)
(* the evidence that a restart carries along says of the records that ever *)
(* became durable, whatever was reclaimed, faulted or crashed before.      *)
(***************************************************************************)
EXTENDS RestartProperties

Owners == (Nat \ {0}) \X (Nat \ {0})
Records ==
    [kind : {"Page"}, at : Nat \ {0}, page : Pages, by : {NoOwner}]
    \cup [kind : {"TransactionPage"}, at : Nat \ {0}, page : Pages, by : Owners]
    \cup [kind : {"Commit"}, at : Nat \ {0}, page : {0}, by : Owners]

Statuses == {"Active", "PageAppendIndeterminate", "Indeterminate", "Committed",
             "NoDurableCommitRecord"}

\* The typestates that carry a selected checkpoint, and those with a plan of
\* replay that nothing has been appended since.
Restarting == {"Planned", "Prepared", "Repairing", "RepairFailed", "Repaired",
               "RestorationFailed", "Restored"}
WithBaseline == {"Selected"} \cup Restarting \cup Live

IsEvidence(h) ==
    h = [baseline |-> h.baseline, plan |-> h.plan, repairs |-> h.repairs, todo |-> h.todo,
         retention |-> h.retention]

IsCoordinator(c) ==
    c = [epoch |-> c.epoch, next |-> c.next, lifecycles |-> c.lifecycles,
         staged |-> c.staged, dirty |-> c.dirty]

\* The variables have the types of the Rust fields; a coordinator knows the
\* transactions of its epoch.
TypeInv ==
    /\ history \subseteq Records /\ log \subseteq history
    /\ highWater \in Nat /\ generation \in Nat /\ epoch \in Nat
    /\ store \in [Pages -> Nat]
    /\ IsEvidence(held)
    /\ IsCoordinator(coordinator)
    /\ coordinator.epoch \in 0 .. epoch /\ coordinator.next \in Nat \ {0}
    /\ DOMAIN coordinator.lifecycles
           \subseteq {coordinator.epoch} \X (1 .. coordinator.next - 1)
    /\ coordinator.lifecycles \in [DOMAIN coordinator.lifecycles -> Statuses]

\* Positions are handed out in order, and a commit is the last record of its
\* transaction.
HistoryInv ==
    /\ \A r \in history : r.at <= highWater /\ r.by[1] <= epoch
    /\ \A r, s \in history : r.at = s.at => r = s
    /\ \A c, r \in history : c.kind = "Commit" /\ r.by = c.by => r.at <= c.at

\* The log is the end of the history, from the needed records of transactions
\* on; all of it before the first reclamation.
LogInv ==
    /\ \A r \in log, s \in history : r.at <= s.at => s \in log
    /\ \A r \in history : r.by \in Unresolved(Ever) => r \in log
    /\ IF generation = 0 THEN log = history /\ anchor = {} ELSE anchor # {}

\* Images that a coordinator may have to flush: raw ones, and those of its own
\* transactions.
Dirtied ==
    {r \in log : \/ r.kind = "Page"
                 \/ r.kind = "TransactionPage" /\ r.by \in DOMAIN coordinator.lifecycles}

\* A coordinator has every record of its epoch in the log, and none of an
\* earlier one has it.
LifecycleInv ==
    /\ phase \in {"Restored"} \cup Live => coordinator.epoch # 0
    /\ coordinator.epoch = 0 => coordinator.lifecycles = <<>>
    /\ \A r \in history : r.by[1] = coordinator.epoch /\ coordinator.epoch # 0 =>
           r \in log /\ r.by \in DOMAIN coordinator.lifecycles
    /\ \A t \in DOMAIN coordinator.lifecycles :
         coordinator.lifecycles[t] \in {"Active", "PageAppendIndeterminate"} => ~DurablyCommitted(t)
    /\ LifecycleFollowsHistory
    /\ coordinator.dirty \subseteq Dirtied
    /\ phase = "Restored" => coordinator.dirty = {}

----------------------------------------------------------------------------
\* A baseline is what the history up to its frontier derives, but for the
\* images that the store showed when it was published.
BaselineTrue(b) ==
    LET prefix == Prefix(history, b.frontier) IN
    /\ b.frontier \in 0 .. highWater
    /\ b.entries = Transactions(prefix)
    /\ b.replay = ReplayStart(b.entries, b.pages, b.frontier)
    /\ \A p \in DOMAIN b.pages :
         b.pages[p] = PageState(RequiredImage(b.entries, prefix, p), b.pages[p].stored)

\* A page that does not show its last committed image has it in the records
\* that are replayed from the baseline.
Covers(b) ==
    \A p \in Pages :
        store[p] = CommittedAt(p) \/ CommittedAt(p) \in PositionsIn(Window(log, b.replay))

SlotInv == \A b \in slot : BaselineTrue(b)

\* A reclaimed log has every record from its anchored frontier on.
AnchorInv ==
    \A b \in anchor :
        /\ BaselineTrue(b) /\ Covers(b)
        /\ b.frontier # 0 => \A r \in history : r.at >= b.frontier => r \in log

RepairsDone(pages) == \A p \in pages : store[p] = CommittedAt(p)

\* What the typestates hold: complete recovery the pages of the log; a restart
\* one true baseline, the anchored one if the log is reclaimed, and until live
\* work a plan of the records as they are, with repairs that lead to the last
\* committed images; live work only changes pages that the plan had not seen.
RecoveryHeld ==
    phase = "FullRecovery" => generation = 0 /\ held.todo \subseteq PagesIn(log)

BaselineHeld ==
    phase \in WithBaseline =>
        /\ held.baseline = {TheBaseline}
        /\ \A b \in held.baseline : BaselineTrue(b) /\ (generation # 0 => anchor = {b})

PlanHeld ==
    phase \in Restarting =>
        /\ held.plan = {ThePlan}
        /\ \A b \in held.baseline :
             Covers(b) /\ held.plan = {Plan(EntriesNow(b), log, highWater, b)}

RepairsFound ==
    /\ \A plan \in held.plan : DOMAIN held.repairs = PagesIn(plan.window)
    /\ \A p \in DOMAIN held.repairs :
         IF held.repairs[p].kind = "Candidate"
         THEN held.repairs[p].target = CommittedAt(p) /\ CommittedAt(p) # 0
         ELSE held.repairs[p].from = CommittedAt(p)

RepairsHeld ==
    /\ phase \in Restarting \ {"Planned"} => RepairsFound
    /\ phase = "Repairing" =>
         held.todo \subseteq DOMAIN held.repairs /\ RepairsDone(DOMAIN held.repairs \ held.todo)
    /\ phase \in {"Repaired", "RestorationFailed", "Restored"} => RepairsDone(Pages)

LiveHeld ==
    phase \in Live =>
        /\ held.plan = {ThePlan}
        /\ \A b \in held.baseline, plan \in held.plan :
             /\ plan.frontier \in 0 .. highWater /\ b.frontier <= plan.frontier
             /\ \A r \in coordinator.dirty : r.at > plan.frontier

HeldInv == RecoveryHeld /\ BaselineHeld /\ PlanHeld /\ RepairsHeld /\ LiveHeld

IInv ==
    /\ TypeInv
    /\ HistoryInv
    /\ LogInv
    /\ LifecycleInv
    /\ StoreShowsCommitted
    /\ SlotInv
    /\ AnchorInv
    /\ HeldInv

----------------------------------------------------------------------------
(* Why the evidence is accepted again: what every checkpoint was derived    *)
(* from is still there, or may no longer be asked for.                      *)

\* A published baseline is the complete analysis of its prefix over the images
\* that it says the store showed.
StoredBy(b) == [p \in DOMAIN b.pages |-> b.pages[p].stored]
PublishedTrue(b) ==
    LET prefix == Prefix(history, b.frontier) IN
    /\ CompleteAnalyzable(prefix, b.frontier, StoredBy(b))
    /\ b = Completeness(prefix, b.frontier, StoredBy(b))

\* The history ends at the high water, images in the store keep their records.
RecordsInv ==
    /\ highWater = 0 \/ highWater \in PositionsIn(history)
    /\ \A p \in Pages : store[p] = 0 \/ store[p] \in PositionsIn(log)

\* The slot holds one baseline that was published, once anchored for good, with
\* the start of its window in the log; a restart has selected it.
SelectionInv ==
    /\ \A b, c \in slot : b = c
    /\ \A b \in slot : PublishedTrue(b) /\ WindowSelectable(log, b.replay)
    /\ generation # 0 => slot = anchor
    /\ phase \in {"Selected"} \cup Restarting => held.baseline = slot

RefusedForMovedPages ==
    phase \in {"Rejected", "PlanningFailed", "PreparationFailed"} =>
        \E b \in slot : \E p \in DOMAIN b.pages : store[p] # b.pages[p].stored

\* What completion compares once more.
CompletionInv ==
    /\ phase \in Restarting \ {"Planned"} =>
         \A p \in DOMAIN held.repairs :
             held.repairs[p].kind = "AlreadyCurrent" => held.repairs[p].target = held.repairs[p].from
    /\ phase = "Restored" =>
         coordinator.epoch > PersistedEpoch(TheBaseline, ThePlan.entries) /\ Pristine(coordinator)

\* A clean candidate that is still at the high water has nothing after it, and
\* nobody has an image left to write.
CleanInv ==
    \A b \in cleanSlot :
        /\ b.frontier \in 0 .. highWater
        /\ b.frontier = highWater =>
             /\ NothingToRecover
             /\ phase \in {"Restored"} \cup Live => coordinator.dirty = {}

EvidenceInv ==
    /\ RecordsInv
    /\ SelectionInv
    /\ RefusedForMovedPages
    /\ CompletionInv
    /\ CleanInv
    /\ CleanCloseProven
    /\ PrunedCleanReopenComplete
============================================================================
