------------------------- MODULE RestartProperties -------------------------
(***************************************************************************)
(* What a restart of a transaction page storage has to achieve, stated     *)
(* over the records that were ever durable, removed from the log or not.   *)
(***************************************************************************)
EXTENDS RestartPipeline

(* What the complete history says of transactions and pages.                *)
Ever == Transactions(history)
DurablyCommitted(t) == \E r \in history : r.kind = "Commit" /\ r.by = t
Shown(r) == r.kind = "Page" \/ (r.kind = "TransactionPage" /\ DurablyCommitted(r.by))
CommittedAt(p) == Latest({r.at : r \in {x \in history : x.page = p /\ Shown(x)}})
NothingToRecover ==
    /\ \A r \in history : r.kind = "TransactionPage" => DurablyCommitted(r.by)
    /\ \A p \in Pages : store[p] = CommittedAt(p)

(* No page ever shows the image of a transaction without a durable commit,  *)
(* whether live work, a repair or complete recovery put it there.           *)
StoreShowsCommitted ==
    \A p \in Pages : store[p] # 0 =>
        \E r \in history : r.at = store[p] /\ r.page = p /\ Shown(r)

(* Once repairs are done, every page shows the last committed image that    *)
(* ever became durable, also after the log lost its oldest records, a       *)
(* repair failed half-way, or a crash interrupted an earlier restart.       *)
RepairsShowEveryCommit ==
    phase \in {"Repaired", "RestorationFailed", "Restored"} =>
        \A p \in Pages : store[p] = CommittedAt(p)

(* The transaction table of a plan has every transaction that is still      *)
(* unresolved, as the complete history has it, and never contradicts the    *)
(* history about a commit.                                                  *)
TableContinuesHistory ==
    phase \in {"Planned", "Prepared", "Repairing", "Repaired", "Restored"} =>
        LET entries == ThePlan.entries IN
        /\ \A t \in Unresolved(Ever) : t \in DOMAIN entries /\ entries[t] = Ever[t]
        /\ \A t \in DOMAIN entries : t \in DOMAIN Ever /\ entries[t].commit = Ever[t].commit

(* What the coordinator of the present restart says of its transactions is  *)
(* what became durable, also when it asks a log that was reclaimed          *)
(* meanwhile.  One of an earlier restart that its holder kept may be told   *)
(* otherwise: that is AbsentChecksLineage of FileLogProperties.             *)
LifecycleFollowsHistory ==
    \A t \in DOMAIN coordinator.lifecycles :
        /\ coordinator.lifecycles[t] = "Committed" => DurablyCommitted(t)
        /\ coordinator.lifecycles[t] = "NoDurableCommitRecord" => ~DurablyCommitted(t)

(* The evidence refuses a checkpoint for one reason: since its publication  *)
(* the store moved a page that it describes.  Once the pages are repaired   *)
(* nothing is refused: restoration and completion read everything again and *)
(* find it as it was.                                                       *)
RestartRefusedOnlyForMovedPages ==
    /\ phase \in {"Rejected", "PlanningFailed", "PreparationFailed"} =>
         \E b \in slot : \E p \in DOMAIN b.pages : store[p] # b.pages[p].stored
    /\ phase \in {"Repaired", "RestorationFailed"} =>
         RestorationEvidence(TheBaseline, ThePlan.frontier, ThePlan.entries)
    /\ phase = "Restored" => Completable

(* Reclamation keeps every page record of an unresolved transaction, and    *)
(* the image of every page that the store does not show yet.                *)
NeededRecordsRetained ==
    /\ \A r \in history : r.by \in Unresolved(Ever) => r \in log
    /\ \A p \in Pages : store[p] # CommittedAt(p) =>
         CommittedAt(p) = 0 \/ CommittedAt(p) \in PositionsIn(log)

(* A clean close proves that nothing is left to recover, and the next open  *)
(* accepts what it published.                                               *)
CleanCloseProven ==
    phase = "Closed" =>
        /\ NothingToRecover
        /\ \E b \in cleanSlot : CleanReopenValid(Metadata, log, highWater, b, store)

(* A clean candidate of an earlier life is not accepted over a reclaimed    *)
(* log that has moved on.                                                   *)
PrunedCleanReopenComplete ==
    (phase = "CleanReopened" /\ generation > 0) => NothingToRecover

(* docs/adr/0071, decision: clean reopen freshly proves that every          *)
(* transaction is terminal and every required page is current.              *)
CleanReopenComplete == phase = "CleanReopened" => NothingToRecover

(* Every restart and every complete recovery comes to an end: live work, a  *)
(* recovered storage, a refusal of the evidence, or a crash and a new       *)
(* beginning.  Errors of the adapters are retried and only delay it.        *)
(* A raw image of a page of transactions stops complete recovery for good.  *)
(* RestoreTransactions needs an epoch below the bound.                      *)
NoRawImage == \A r \in history : r.kind # "Page"
Decided ==
    \/ phase \in Live \cup {"Recovered", "Rejected", "PreparationFailed", "Unchecked"}
    \/ epoch = MaxEpoch
RestartDecides == (phase \in {"Selected", "FullRecovery"} /\ NoRawImage) ~> Decided
============================================================================
