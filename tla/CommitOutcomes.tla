--------------------------- MODULE CommitOutcomes ---------------------------
(***************************************************************************)
(* What a transaction coordinator promises about commit outcomes: the      *)
(* outcome of a transaction is decided once and for all, by the log and    *)
(* possibly for many transactions at a time, and the verdict given out for *)
(* it, by the commit call or by a later resolution, is the outcome.        *)
(***************************************************************************)
CONSTANT Transactions

VARIABLES
    outcome,    \* of each transaction: "Open", "Durable" or "Lost"
    verdict     \* what the coordinator said: "None", "Durable" or "Lost"

vars == <<outcome, verdict>>

Init ==
    /\ outcome = [t \in Transactions |-> "Open"]
    /\ verdict = [t \in Transactions |-> "None"]

Next ==
    /\ outcome' \in [Transactions -> {"Open", "Durable", "Lost"}]
    /\ verdict' \in [Transactions -> {"None", "Durable", "Lost"}]
    /\ \A t \in Transactions :
         /\ outcome[t] # "Open" => outcome'[t] = outcome[t]
         /\ verdict[t] # "None" => verdict'[t] = verdict[t]
         /\ verdict'[t] # "None" => verdict'[t] = outcome'[t]

Spec == Init /\ [][Next]_vars
=============================================================================
