----------------------- MODULE TransactionProperties -----------------------
(***************************************************************************)
(* What the coordinator, the log and the page store of TransactionStorage  *)
(* have to guarantee together.                                             *)
(***************************************************************************)
EXTENDS TransactionStorage

(* Every variable holds a value of its Rust type.                           *)
TypeOK ==
    /\ DOMAIN records = Logs
    /\ \A l \in Logs : /\ DOMAIN records[l] \subseteq Positions
                       /\ \A q \in DOMAIN records[l] : records[l][q] \in LogRecord
    /\ durable \in [Logs -> 0 .. MaxPosition]
    /\ nextPosition \in [Logs -> 1 .. MaxPosition + 1]
    /\ nextEpoch \in [Logs -> 1 .. MaxEpoch + 1]
    /\ store \in [Logs -> [Pages -> 0 .. MaxPosition]]
    /\ coordinators \in Seq([log : Logs, epoch : 1 .. MaxEpoch])
    /\ Len(coordinators) <= MaxCoordinators
    /\ nextSequence \in [1 .. MaxCoordinators -> 1 .. MaxSequence + 1]
    /\ lifecycle \in [Transactions -> Lifecycles \cup {None}]
    /\ staged \subseteq Transactions \X Pages
    /\ committed \subseteq CommittedTransaction
    /\ dirty \subseteq DirtyPage
    /\ recovering \in [Logs -> (SUBSET Pages) \cup {None}]
    /\ faults \in 0 .. MaxFaults

Issued == {t \in Transactions : lifecycle[t] # None}
LogOf(t) == coordinators[t[1]].log
CommitsOf(t) == CommitPositions(LogOf(t), Id(t))

(* The lifecycle never says more than the log: a transaction is Committed   *)
(* with exactly one commit record, durable in its own log, and only one     *)
(* whose commit was attempted has a commit record at all.  In particular    *)
(* NoDurableCommitRecord stays true after restarts and later flushes.       *)
LifecycleMatchesLog ==
    \A t \in Issued :
        /\ lifecycle[t] = "Committed" => CommitsOf(t) # {} /\ CommitsOf(t) \subseteq Durable(LogOf(t))
        /\ lifecycle[t] \notin {"Committed", "Indeterminate"} => CommitsOf(t) = {}
        /\ Cardinality(CommitsOf(t)) <= 1

(* No steal, and no state that recovery refuses: whatever was called, lost  *)
(* or retried, the evidence of a page reconciles, unless a page written     *)
(* without a transaction is in the store (reconcile_committed_transaction_  *)
(* page, classify_durable_transaction_page).                                *)
EvidenceReconciles ==
    \A l \in Logs, p \in Pages : Reconciles(l, p) \/ RawBacked(l, p)

(* A close obligation is discharged only when the image that the            *)
(* transaction staged is the one in the store (flush_staged_committed_page).*)
DischargedInStore ==
    [][\A ob \in staged \ staged' :
         LET l == LogOf(ob[1]) q == store'[l][ob[2]]
         IN q \in Durable(l)' /\ records'[l][q].transaction = Id(ob[1])]_vars

(* A committed image of a page that is durable stays durable, across        *)
(* restarts and flushes through older positions.                            *)
CommittedImagesStay ==
    [][\A l \in Logs, p \in Pages : CommittedPages(l, p) \subseteq CommittedPages(l, p)']_vars

(* Recovery gives access back only when every page with durable             *)
(* transaction-owned records shows its latest committed image, even if      *)
(* older committed images were flushed over newer ones before.              *)
RecoveryInstallsLatest ==
    [][\A l \in Logs : recovering[l] # None /\ recovering'[l] = None =>
         \A p \in Inventory(l) : store'[l][p] = LatestCommitted(l, p)]_vars

(* A recovery comes to its end, when no page written without a transaction  *)
(* is in its way.                                                           *)
RecoveryEnds ==
    \A l \in Logs :
        recovering[l] # None ~> recovering[l] = None \/ \E p \in Pages : RawBacked(l, p)

(* What decides a transaction: a durable commit record, or that no commit   *)
(* record of it can come any more.                                          *)
Outcome(t) ==
    IF lifecycle[t] \in {None, "Active"} THEN "Open"
    ELSE IF CommitsOf(t) \cap Durable(LogOf(t)) # {} THEN "Durable"
    ELSE IF CommitsOf(t) = {} THEN "Lost" ELSE "Open"

Verdict(t) ==
    CASE lifecycle[t] = "Committed" -> "Durable"
      [] lifecycle[t] = "NoDurableCommitRecord" -> "Lost"
      [] OTHER -> "None"

Abstract == INSTANCE CommitOutcomes
    WITH outcome <- [t \in Transactions |-> Outcome(t)],
         verdict <- [t \in Transactions |-> Verdict(t)]

(* Commit, its failures, restarts and resolution implement outcomes that    *)
(* are decided once, and verdicts that are true.                            *)
ImplementsCommitOutcomes == Abstract!Spec
=============================================================================
