--------------------------- MODULE RestartReplay ---------------------------
(***************************************************************************)
(* Checkpoints of a log whose oldest records were removed, and the replay  *)
(* planned from a selected checkpoint.  Once records are gone a baseline   *)
(* cannot be derived again: it is believed when it is the one anchored in  *)
(* the header of the log and its own parts agree with one another, and the *)
(* transaction table is the baseline's, advanced by the retained records.  *)
(*                                                                         *)
(* The metadata of a log is a record of its generation, the checkpoint     *)
(* anchored in its header, the positions of its first retained record and  *)
(* of its last record, and the highest epoch allocated.  The anchor is a   *)
(* digest of the baseline's canonical encoding; here it is the baseline.   *)
(***************************************************************************)
EXTENDS RestartAnalysis

Between(p, first, last) == first <= p /\ p <= last
Bounded(p, frontier) == p # 0 /\ p <= frontier

----------------------------------------------------------------------------
(* validate_restart_pruned_generation_metadata.                             *)
MetadataValid(metadata, frontier) ==
    /\ metadata.retainedFirst # 0 => metadata.retainedFirst <= metadata.highWater
    /\ (metadata.generation = 0) = (metadata.anchor = {})
    /\ frontier # 0 =>
         /\ frontier <= metadata.highWater
         /\ metadata.retainedFirst <= frontier

(* The parts of a baseline that refer to one another.                       *)
EntryShape(e, frontier) ==
    /\ IF e.count = 0 THEN e.first = 0 /\ e.last = 0
       ELSE /\ Bounded(e.first, frontier)
            /\ Bounded(e.last, frontier)
            /\ e.count = 1 <=> e.first = e.last
            /\ e.count <= e.last - e.first + 1
    /\ IF e.commit = 0 THEN e.count > 0
       ELSE Bounded(e.commit, frontier) /\ e.last < e.commit

ImageShape(image, entries, frontier) ==
    /\ Bounded(image.at, frontier)
    /\ image.by # NoOwner =>
         /\ image.by \in DOMAIN entries
         /\ Bounded(image.commit, frontier)
         /\ entries[image.by].commit = image.commit
         /\ Between(image.at, entries[image.by].first, entries[image.by].last)
         /\ image.at < image.commit

PageShape(page, entries, frontier) ==
    /\ page.required # NoImage => ImageShape(page.required, entries, frontier)
    /\ page.stored # 0 => Bounded(page.stored, frontier)
    /\ CASE page.state = "NoRequiredImage" -> page.required = NoImage /\ page.stored = 0
         [] page.state = "StoreMissing" -> page.required # NoImage /\ page.stored = 0
         [] page.state = "StoreCurrent" ->
              page.required # NoImage /\ page.stored = page.required.at
         [] page.state = "StoreBehind" ->
              page.required # NoImage /\ page.stored # 0 /\ page.stored < page.required.at

(* materialize_anchored_restart_checkpoint_without_selected_anchor.         *)
BaselineShape(baseline, metadata) ==
    /\ \A t \in DOMAIN baseline.entries :
         /\ t[1] <= metadata.epoch
         /\ EntryShape(baseline.entries[t], baseline.frontier)
    /\ \A p \in DOMAIN baseline.pages :
         PageShape(baseline.pages[p], baseline.entries, baseline.frontier)
    /\ baseline.replay = ReplayStart(baseline.entries, baseline.pages, baseline.frontier)

(* materialize_anchored_restart_checkpoint.                                 *)
Anchored(baseline, metadata) ==
    /\ BaselineShape(baseline, metadata)
    /\ metadata.anchor = {baseline}

----------------------------------------------------------------------------
(* Planning.  A window starts at, or just after, a record of the log.       *)
WindowSelectable(log, replay) == replay.at = 0 \/ replay.at \in PositionsIn(log)
(* Defect: the start is exclusive, as it is after a frontier.               *)
WindowAfterStart(log, replay) == {r \in log : r.at > replay.at}
Window(log, replay) ==
    {r \in log : IF replay.kind = "AtPosition" THEN r.at >= replay.at ELSE r.at > replay.at}

(* plan_selected_restart_checkpoint_replay_evidence.                        *)
SelectedPlannable(log, frontier, store, baseline) ==
    /\ BaselineHolds(log, frontier, store, baseline)
    /\ Analyzable(log, frontier)
    /\ WindowSelectable(log, baseline.replay)

(* What plan_selected_restart_checkpoint_replay and its anchored sibling    *)
(* both keep: the transaction table of now and the records to replay.       *)
Plan(entries, log, frontier, baseline) ==
    [frontier |-> frontier, entries |-> entries, window |-> Window(log, baseline.replay)]

(* The order of the retained records, against the metadata of the log.      *)
RetainedInOrder(log, metadata, frontier) ==
    /\ metadata.retainedFirst = Earliest(PositionsIn(log))
    /\ log # {} => metadata.highWater = Latest(PositionsIn(log))
    /\ \A r, s \in log : r.at = s.at => r = s
    /\ \A r \in log : r.at # 0 /\ r.by[1] <= metadata.epoch
    /\ frontier # 0 => frontier \in PositionsIn(log)

(* Retained records that the checkpoint already covers.                     *)
CheckpointedPageMatches(entries, r) ==
    r.by \in DOMAIN entries /\ Between(r.at, entries[r.by].first, entries[r.by].last)
CheckpointedCommitMatches(entries, r) ==
    r.by \in DOMAIN entries /\ entries[r.by].commit = r.at

(* apply_retained_restart_suffix: the table of the baseline advanced by the *)
(* records above its frontier.                                              *)
SuffixApplies(baseline, log) ==
    \A r \in log :
        IF r.at <= baseline.frontier
        THEN CASE r.kind = "TransactionPage" -> CheckpointedPageMatches(baseline.entries, r)
               [] r.kind = "Commit" -> CheckpointedCommitMatches(baseline.entries, r)
               [] OTHER -> TRUE
        ELSE r.kind # "Page" =>
               /\ ~Committed(baseline.entries, r.by)
               /\ \A c \in log : c.kind = "Commit" /\ c.by = r.by => r.at <= c.at

(* Defect: the retained pages start the transaction anew.                   *)
EntryAdvancedAnew(e, later) ==
    [first |-> IF later.first = 0 THEN e.first ELSE later.first,
     last |-> IF later.last = 0 THEN e.last ELSE later.last,
     count |-> e.count + later.count,
     commit |-> IF later.commit = 0 THEN e.commit ELSE later.commit]
EntryAdvanced(e, later) ==
    [first |-> IF e.first = 0 THEN later.first ELSE e.first,
     last |-> IF later.last = 0 THEN e.last ELSE later.last,
     count |-> e.count + later.count,
     commit |-> IF later.commit = 0 THEN e.commit ELSE later.commit]

Advanced(baseline, log) ==
    LET suffix == log \ Prefix(log, baseline.frontier)
        later == Transactions(suffix)
        known == DOMAIN baseline.entries
    IN  [t \in known \cup DOMAIN later |->
           IF t \notin known THEN later[t]
           ELSE IF t \notin DOMAIN later THEN baseline.entries[t]
           ELSE EntryAdvanced(baseline.entries[t], later[t])]

(* plan_anchored_restart_checkpoint_replay_evidence.                        *)
AnchoredPlannable(log, metadata, baseline) ==
    /\ RetainedInOrder(log, metadata, baseline.frontier)
    /\ SuffixApplies(baseline, log)
    /\ WindowSelectable(log, baseline.replay)

(* validate_anchored_restart_planning_metadata.                             *)
PlanningMetadataValid(metadata, baseline) ==
    /\ MetadataValid(metadata, baseline.frontier)
    /\ metadata.generation # 0
    /\ metadata.anchor = {baseline}
    /\ \A t \in DOMAIN baseline.entries : t[1] <= metadata.epoch
============================================================================
