------------------------ MODULE TransactionInvariant ------------------------
(***************************************************************************)
(* The inductive strengthening of LifecycleMatchesLog and of               *)
(* EvidenceReconciles: who may have written a record, and in what order;   *)
(* and that of RecoveryInstallsLatest.                                     *)
(***************************************************************************)
EXTENDS TransactionProperties

(* The allocator of a log is past every position handed out: a restart      *)
(* loses records and never positions.                                       *)
LogsOrdered ==
    \A l \in Logs :
        /\ durable[l] < nextPosition[l]
        /\ \A q \in DOMAIN records[l] : q < nextPosition[l]

(* The coordinators of one log have epochs of their own, all handed out.    *)
CoordinatorsDistinct ==
    /\ \A c \in DOMAIN coordinators : coordinators[c].epoch < nextEpoch[coordinators[c].log]
    /\ \A c, d \in DOMAIN coordinators : coordinators[c] = coordinators[d] => c = d
    /\ \A t \in Issued : t[1] \in DOMAIN coordinators

(* A commit record was written for a transaction that its log issued, ...   *)
CommitsIssued ==
    \A l \in Logs : \A q \in DOMAIN records[l] :
        records[l][q].kind = "TransactionCommit" =>
            \E t \in Issued : LogOf(t) = l /\ Id(t) = records[l][q].transaction

(* ... at most once, ...                                                    *)
CommitsUnique ==
    \A l \in Logs : \A q, c \in DOMAIN records[l] :
        records[l][q].kind = "TransactionCommit" /\ records[l][q] = records[l][c] => q = c

(* ... and after every page that the transaction wrote.                     *)
PagesBeforeCommits ==
    \A l \in Logs : \A q, c \in DOMAIN records[l] :
        /\ records[l][q].kind = "TransactionPageWrite"
        /\ records[l][c] = CommitRecord(records[l][q].transaction)
        => q < c

(* A commit record is where the lifecycle says that there is one.           *)
LifecycleAgrees ==
    \A t \in Issued :
        /\ lifecycle[t] = "Committed" => CommitsOf(t) # {} /\ CommitsOf(t) \subseteq Durable(LogOf(t))
        /\ lifecycle[t] \notin {"Committed", "Indeterminate"} => CommitsOf(t) = {}

(* The tokens handed out describe records of the log.  That of a dirty page *)
(* may be lost to a restart, and nothing takes its position.                *)
CommittedTokensDurable ==
    \A k \in committed :
        k.position \in Durable(k.log) /\ records[k.log][k.position] = CommitRecord(k.transaction)

DirtyTokensMatch ==
    \A d \in dirty :
        /\ d.position < nextPosition[d.log]
        /\ d.position \in DOMAIN records[d.log] =>
             records[d.log][d.position] =
               [kind |-> IF d.transaction = None THEN "PageWrite" ELSE "TransactionPageWrite",
                transaction |-> d.transaction, page |-> d.page]

(* No steal: what a transaction has in the store is durable and committed.  *)
StoreBacked ==
    \A l \in Logs, p \in Pages :
        store[l][p] # 0 => store[l][p] \in CommittedPages(l, p) \/ RawBacked(l, p)

LogInv ==
    /\ LogsOrdered
    /\ CoordinatorsDistinct
    /\ CommitsIssued
    /\ CommitsUnique
    /\ PagesBeforeCommits
    /\ LifecycleAgrees
    /\ CommittedTokensDurable
    /\ DirtyTokensMatch

IInv == TypeOK /\ LogInv /\ StoreBacked

(* While a recovery holds a log and its store, every page of the inventory  *)
(* that it has visited shows its latest committed image.                    *)
VisitedPagesCurrent ==
    \A l \in Logs : recovering[l] # None =>
        \A p \in Inventory(l) \ recovering[l] : store[l][p] = LatestCommitted(l, p)
=============================================================================
