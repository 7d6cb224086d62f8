--------------------------- MODULE DurablePages ---------------------------
(***************************************************************************)
(* What ntsql's write-ahead log, page store, checkpoints and reclamation   *)
(* promise together: a page image that became durable is never lost, the   *)
(* page store never shows an image that is not durable nor an older one    *)
(* than it showed before, and after a crash the database serves again only *)
(* once the store shows every durable image.  Images of one page are       *)
(* ordered by the position of the log record that carries them; 0 is "no   *)
(* image".                                                                 *)
(***************************************************************************)
EXTENDS Naturals

CONSTANTS Pages, MaxPosition

VARIABLES
    durable,    \* newest image of each page that no crash undoes
    visible,    \* image of each page in the page store
    serving     \* the database is in live operation

Images == [Pages -> 0 .. MaxPosition]

Init ==
    /\ durable = [p \in Pages |-> 0]
    /\ visible = [p \in Pages |-> 0]
    /\ serving = TRUE

(* Log records become durable.                                              *)
Harden ==
    /\ serving
    /\ \A p \in Pages : durable'[p] >= durable[p]
    /\ UNCHANGED <<visible, serving>>

(* A durable image reaches the page store.                                  *)
Show ==
    /\ serving
    /\ \A p \in Pages : visible[p] <= visible'[p] /\ visible'[p] <= durable[p]
    /\ UNCHANGED <<durable, serving>>

Fail == serving' = FALSE /\ UNCHANGED <<durable, visible>>

Repair == ~serving /\ visible' = durable /\ UNCHANGED <<durable, serving>>

Serve ==
    /\ ~serving
    /\ visible = durable
    /\ serving' = TRUE
    /\ UNCHANGED <<durable, visible>>

Next == Harden \/ Show \/ Fail \/ Repair \/ Serve

Spec == Init /\ [][Next]_<<durable, visible, serving>>
============================================================================
