----------------------------- MODULE DurableLog -----------------------------
(***************************************************************************)
(* What a write-ahead log promises: records are appended in order, become  *)
(* durable in that order, and only the end of those that are not durable   *)
(* can be lost.  A durable record leaves the log only from its front, when *)
(* nothing in the log is volatile, and what has left never comes back.     *)
(***************************************************************************)
EXTENDS Naturals, Sequences, SequencesExt

VARIABLE log    \* [durable |-> records, volatile |-> records]

Init == log = [durable |-> <<>>, volatile |-> <<>>]

(* A record is added at the end.                                            *)
AppendRecord(old, new) ==
    /\ new.durable = old.durable
    /\ Len(new.volatile) = Len(old.volatile) + 1
    /\ IsPrefix(old.volatile, new.volatile)

(* A commit adds a record and makes it durable, with those before it.       *)
AppendDurably(old, new) ==
    LET all == old.durable \o old.volatile IN
    /\ new.volatile = <<>>
    /\ Len(new.durable) = Len(all) + 1
    /\ IsPrefix(all, new.durable)

(* A flush makes a part of the volatile records durable; a crash may do so, *)
(* and loses an end of the others.                                          *)
Settle(old, new) ==
    /\ IsPrefix(old.durable, new.durable)
    /\ IsPrefix(new.durable \o new.volatile, old.durable \o old.volatile)

Reclaim(old, new) ==
    /\ old.volatile = <<>>
    /\ new.volatile = <<>>
    /\ IsSuffix(new.durable, old.durable)

Next ==
    \E old \in {log}, new \in {log'} :
        \/ Settle(old, new)
        \/ AppendRecord(old, new)
        \/ AppendDurably(old, new)
        \/ Reclaim(old, new)

Spec == Init /\ [][Next]_log
============================================================================
