-------------------------- MODULE RestartRetention --------------------------
(***************************************************************************)
(* What may be done with a restarted database before it goes live: which   *)
(* records of its log must stay, the reclamation of the others, and the    *)
(* two ends of a clean close: the proof taken when it closes and the       *)
(* check made when it is opened again.                                     *)
(*                                                                         *)
(* A coordinator is a record of its epoch, the next sequence number and    *)
(* the lifecycles of its transactions.  The storage adapters of the        *)
(* repository never ask for a position of their own to be kept, so the     *)
(* source constraint of the retention metadata is left out.                *)
(***************************************************************************)
EXTENDS RestartRepair

(* A requirement is a position at or before the frontier with a record.     *)
Requirable(log, frontier, p) == p <= frontier /\ p \in PositionsIn(log)

(* The pages that the records or the store name.                            *)
RetainedPages(log, store) == PagesIn(log) \cup {p \in DOMAIN store : store[p] # 0}

(* Retention asks that every page shows its required image already.         *)
PageRetainable(entries, log, frontier, store, page) ==
    LET required == RequiredImage(entries, log, page) IN
    IF store[page] = 0 THEN required = NoImage
    ELSE /\ required # NoImage
         /\ SnapshotBacked(entries, log, frontier, page, store[page])
         /\ store[page] = required.at

(* Defect: a transaction without a commit holds nothing back.               *)
RequirementsOfCheckpoint(baseline, entries, store) ==
    (({baseline.frontier} \cup
      (IF baseline.replay.kind = "AtPosition" THEN {baseline.replay.at} ELSE {})) \ {0})
    \cup ({store[p] : p \in DOMAIN store} \ {0})
Requirements(baseline, entries, store) ==
    (({baseline.frontier} \cup
      (IF baseline.replay.kind = "AtPosition" THEN {baseline.replay.at} ELSE {})) \ {0})
    \cup ({store[p] : p \in DOMAIN store} \ {0})
    \cup {entries[t].first : t \in Unresolved(entries)}

(* derive_completed_transaction_restart_wal_retention_evidence.             *)
RetentionDerivable(baseline, plan, coordinator, metadata, log, frontier, entries, store) ==
    /\ CompletionEvidence(baseline, plan, coordinator, frontier, entries)
    /\ metadata.epoch = coordinator.epoch
    /\ \A p \in RetainedPages(log, store) : PageRetainable(entries, log, frontier, store, p)
    /\ \A p \in Requirements(baseline, entries, store) : Requirable(log, frontier, p)

Retention(baseline, metadata, frontier, entries, store) ==
    [frontier |-> frontier,
     floor |-> Earliest(Requirements(baseline, entries, store)),
     requirements |-> Requirements(baseline, entries, store),
     epoch |-> metadata.epoch]

----------------------------------------------------------------------------
(* Reclamation: the log still is what the analysis saw, and it is bound to  *)
(* the selected checkpoint or to none.                                      *)
ReclamationReady(retention, metadata, log, baseline) ==
    /\ metadata.highWater = retention.frontier
    /\ metadata.retainedFirst = Earliest(PositionsIn(log))
    /\ (metadata.retainedFirst # 0 /\ retention.floor # 0) =>
         metadata.retainedFirst <= retention.floor
    /\ metadata.epoch = retention.epoch
    /\ IF metadata.generation = 0 THEN metadata.anchor = {} ELSE metadata.anchor = {baseline}

(* The records that stay, and the header of the log that holds them.        *)
RetainedFrom(log, floor) == IF floor = 0 THEN {} ELSE {r \in log : r.at >= floor}
MetadataAfter(retention, metadata, baseline) ==
    [generation |-> metadata.generation + 1, anchor |-> {baseline},
     retainedFirst |-> retention.floor, highWater |-> metadata.highWater,
     epoch |-> metadata.epoch]

----------------------------------------------------------------------------
(* Clean close.                                                             *)
CoordinatorTerminal(coordinator, staged) ==
    /\ \A t \in DOMAIN coordinator.lifecycles :
         coordinator.lifecycles[t] \in {"Committed", "NoDurableCommitRecord"}
    /\ staged = {}

(* Defect: transactions without a commit are left for the next restart.     *)
BaselineCleanButUnresolved(baseline) ==
    \A p \in DOMAIN baseline.pages : baseline.pages[p].state = "StoreCurrent"
BaselineClean(baseline) ==
    /\ Unresolved(baseline.entries) = {}
    /\ \A p \in DOMAIN baseline.pages : baseline.pages[p].state = "StoreCurrent"
    /\ baseline.replay.kind = "AfterFrontier"

CoordinatorMatchesDurable(coordinator, entries) ==
    /\ \A t \in DOMAIN coordinator.lifecycles :
         coordinator.lifecycles[t] = "Committed" <=> t \in DOMAIN entries
    /\ \A t \in DOMAIN entries : t[1] = coordinator.epoch =>
         /\ t \in DOMAIN coordinator.lifecycles
         /\ coordinator.lifecycles[t] = "Committed"

CleanMetadata(baseline, metadata) ==
    \A t \in DOMAIN baseline.entries : t[1] <= metadata.epoch

(* prepare_clean_close, up to the publication of the baseline of now.       *)
Closable(coordinator, staged, baseline, metadata) ==
    /\ CoordinatorTerminal(coordinator, staged)
    /\ BaselineClean(baseline)
    /\ CoordinatorMatchesDurable(coordinator, baseline.entries)
    /\ metadata.epoch = coordinator.epoch
    /\ CleanMetadata(baseline, metadata)

----------------------------------------------------------------------------
(* Clean reopen of a log whose oldest records were removed.                 *)
RetainedPageCovered(entries, log, candidate) ==
    \A r \in log : Installable(entries, r) =>
        r.page \in DOMAIN candidate.pages /\ candidate.pages[r.page].required.at >= r.at

RequiredImageRetained(log, page, required, metadata) ==
    (metadata.retainedFirst # 0 /\ required.at >= metadata.retainedFirst) =>
        \E r \in log : r.at = required.at /\ r.page = page /\ r.by = required.by

CurrentPageKept(entries, log, frontier, page, known, stored, metadata) ==
    known.state = "StoreCurrent" =>
        /\ stored = known.stored
        /\ (metadata.retainedFirst # 0 /\ known.required.at >= metadata.retainedFirst) =>
             SnapshotBacked(entries, log, frontier, page, stored)

PrunedPagesValid(metadata, log, candidate, store) ==
    LET entries == Advanced(candidate, log) IN
    /\ RetainedPageCovered(entries, log, candidate)
    /\ \A p \in DOMAIN candidate.pages : candidate.pages[p].required # NoImage =>
         /\ RequiredImageRetained(log, p, candidate.pages[p].required, metadata)
         /\ CurrentPageKept(entries, log, candidate.frontier, p,
                            candidate.pages[p], store[p], metadata)

(* Defect: only the candidate's own prefix of the log is looked at.         *)
PrunedReopenOfPrefix(metadata, log, candidate, store) ==
    /\ MetadataValid(metadata, 0)
    /\ BaselineShape(candidate, metadata)
    /\ SuffixApplies(candidate, log)
    /\ PrunedPagesValid(metadata, Prefix(log, candidate.frontier), candidate, store)
PrunedReopenValid(metadata, log, candidate, store) ==
    /\ MetadataValid(metadata, 0)
    /\ BaselineShape(candidate, metadata)
    /\ candidate.frontier = metadata.highWater
    /\ RetainedInOrder(log, metadata, 0)
    /\ SuffixApplies(candidate, log)
    /\ PrunedPagesValid(metadata, log, candidate, store)
    /\ Advanced(candidate, log) = candidate.entries

(* validate_clean_reopen.                                                   *)
CleanReopenValid(metadata, log, frontier, candidate, store) ==
    /\ IF metadata.generation = 0 THEN BaselineHolds(log, frontier, store, candidate)
       ELSE PrunedReopenValid(metadata, log, candidate, store)
    /\ BaselineClean(candidate)
    /\ CleanMetadata(candidate, metadata)
============================================================================
