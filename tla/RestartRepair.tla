--------------------------- MODULE RestartRepair ---------------------------
(***************************************************************************)
(* From a replay plan to a coordinator: which pages of the replay window   *)
(* have to be rewritten and from what image, what a repair does to the     *)
(* store, and the evidence that has to agree before a coordinator is       *)
(* handed out.  A plan is what RestartReplay makes: the frontier, the      *)
(* transaction table of now, and the window of records to replay.          *)
(***************************************************************************)
EXTENDS RestartReplay

(* The records of a page that replay may install: raw, or of a transaction  *)
(* whose commit follows in the window.                                      *)
CommitFollows(plan, r) ==
    \E c \in plan.window :
        /\ c.kind = "Commit" /\ c.by = r.by
        /\ c.at = plan.entries[r.by].commit /\ c.at > r.at
ReplayRecordsKnown(plan) ==
    \A r \in plan.window : r.kind = "TransactionPage" =>
        /\ r.by \in DOMAIN plan.entries
        /\ Committed(plan.entries, r.by) => CommitFollows(plan, r)

(* The last of them is the target of the page's repair.                     *)
(* Defect: the first one is.                                                *)
EarliestTarget(plan, page) ==
    LET images == {r \in plan.window : r.page = page /\ Installable(plan.entries, r)}
    IN  IF images = {} THEN NoImage
        ELSE Image(plan.entries, CHOOSE r \in images : IsEarliest(r.at, PositionsIn(images)))
Target(plan, page) == RequiredImage(plan.entries, plan.window, page)

(* A page that the checkpoint found lagging has its image in the window.    *)
DirtyImageOwned(plan, page, required) ==
    \E r \in plan.window :
        /\ r.at = required.at /\ r.page = page /\ r.by = required.by
        /\ Installable(plan.entries, r)
        /\ Image(plan.entries, r) = required
DirtyImagesOwned(plan, baseline) ==
    \A p \in DOMAIN baseline.pages : Lagging(baseline.pages[p]) =>
        DirtyImageOwned(plan, p, baseline.pages[p].required)

----------------------------------------------------------------------------
(* What the checkpoint says of the image a repair starts from.              *)
SourceExpectation(baseline, page) ==
    IF page \notin DOMAIN baseline.pages THEN [kind |-> "SuffixOnly", at |-> 0]
    ELSE IF baseline.pages[page].stored = 0 THEN [kind |-> "MissingAtCheckpoint", at |-> 0]
    ELSE [kind |-> "ExactCheckpointSnapshot", at |-> baseline.pages[page].stored]

(* The window has nothing newer than what the checkpoint found current.     *)
UnchangedSinceCheckpoint(plan, baseline, page) ==
    /\ page \in DOMAIN baseline.pages
    /\ baseline.pages[page].state = "StoreCurrent"
    /\ Target(plan, page).at <= baseline.pages[page].required.at

SourceAsExpected(baseline, page, current) ==
    LET expected == SourceExpectation(baseline, page)
    IN  expected.kind # "SuffixOnly" => current = expected.at

(* An image in the store that a record of the window accounts for.          *)
OwnedAt(plan, page, at) == \E r \in plan.window : r.at = at /\ r.page = page
ReplayBacked(plan, page, at) ==
    \E r \in plan.window : r.at = at /\ r.page = page /\ Installable(plan.entries, r)

(* resolve_prepared_restart_checkpoint_page_repair finds no contradiction.  *)
Resolvable(plan, baseline, page, current) ==
    LET target == Target(plan, page)
        suffixOnly == SourceExpectation(baseline, page).kind = "SuffixOnly"
        backed == OwnedAt(plan, page, current) => ReplayBacked(plan, page, current)
    IN
    /\ SourceAsExpected(baseline, page, current)
    /\ IF UnchangedSinceCheckpoint(plan, baseline, page) THEN current # 0 /\ backed
       ELSE IF target = NoImage THEN current = 0
       ELSE /\ current <= target.at
            /\ current \notin {0, target.at} =>
                 IF suffixOnly THEN ReplayBacked(plan, page, current) ELSE backed

(* Defect: a page that the checkpoint knows is left alone.                  *)
ResolutionForSuffixPages(plan, baseline, page, current) ==
    LET target == Target(plan, page) IN
    [from |-> current, target |-> target.at,
     kind |-> IF page \in DOMAIN baseline.pages THEN "CheckpointCurrent"
              ELSE IF target = NoImage THEN "NoRequiredImage"
              ELSE IF current = target.at THEN "AlreadyCurrent" ELSE "Candidate"]
Resolution(plan, baseline, page, current) ==
    LET target == Target(plan, page) IN
    [from |-> current, target |-> target.at,
     kind |-> IF UnchangedSinceCheckpoint(plan, baseline, page) THEN "CheckpointCurrent"
              ELSE IF target = NoImage THEN "NoRequiredImage"
              ELSE IF current = target.at THEN "AlreadyCurrent" ELSE "Candidate"]

(* prepare_transaction_restart_checkpoint_page_repairs.                     *)
Preparable(plan, baseline, store) ==
    /\ ReplayRecordsKnown(plan)
    /\ DirtyImagesOwned(plan, baseline)
    /\ \A p \in PagesIn(plan.window) : Resolvable(plan, baseline, p, store[p])
Repairs(plan, baseline, store) ==
    [p \in PagesIn(plan.window) |-> Resolution(plan, baseline, p, store[p])]

----------------------------------------------------------------------------
(* Execution: a candidate is written if the store still shows the image it  *)
(* was prepared from, or shows its target already; the others are compared. *)
SourceUnchanged(repair, current) == current = repair.from
(* Defect: a repair that was written and not confirmed is not recognized.   *)
ExecutableFromSource(repair, current) == SourceUnchanged(repair, current)
Executable(repair, current) ==
    \/ SourceUnchanged(repair, current)
    \/ repair.kind = "Candidate" /\ current = repair.target
ImageAfter(repair, current) ==
    IF repair.kind = "Candidate" THEN repair.target ELSE current

(* What completion asks of a page that a repair dealt with.                 *)
OutcomeHolds(repair, current) ==
    current = IF repair.kind \in {"Candidate", "AlreadyCurrent"}
              THEN repair.target ELSE repair.from

----------------------------------------------------------------------------
(* Restoration: the table of now continues the one in the checkpoint.       *)
CommittedStays(before, now) == now = before
UnresolvedContinues(before, now, frontier) ==
    /\ now.first = before.first
    /\ \/ now.count = before.count /\ now.last = before.last
       \/ now.count > before.count /\ now.last > frontier
    /\ now.commit # 0 => now.commit > frontier

FirstPosition(e) == Earliest({e.first, e.commit} \ {0})

RestorationEvidence(baseline, frontier, entries) ==
    /\ baseline.frontier <= frontier
    /\ \A t \in DOMAIN baseline.entries :
         /\ t \in DOMAIN entries
         /\ IF Committed(baseline.entries, t)
            THEN CommittedStays(baseline.entries[t], entries[t])
            ELSE UnresolvedContinues(baseline.entries[t], entries[t], baseline.frontier)
    /\ \A t \in DOMAIN entries :
         FirstPosition(entries[t]) <= baseline.frontier => t \in DOMAIN baseline.entries

(* The epoch of the newest transaction the evidence names.                  *)
PersistedEpoch(baseline, entries) ==
    Latest({t[1] : t \in DOMAIN entries \cup DOMAIN baseline.entries})

(* Completion: nothing moved between planning and the new coordinator.      *)
Pristine(coordinator) == coordinator.next = 1 /\ coordinator.lifecycles = <<>>
CompletionEvidence(baseline, plan, coordinator, frontier, entries) ==
    /\ RestorationEvidence(baseline, plan.frontier, plan.entries)
    /\ frontier = plan.frontier
    /\ entries = plan.entries
    /\ coordinator.epoch > PersistedEpoch(baseline, plan.entries)
    /\ Pristine(coordinator)
============================================================================
