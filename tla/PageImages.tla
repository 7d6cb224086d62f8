------------------------------ MODULE PageImages ------------------------------
(***************************************************************************)
(* What a page store promises: a page shows the image last written to it.  *)
(* A write that fails leaves it open whether the image will be shown, and  *)
(* nothing else can be written until an open or a power loss decides.      *)
(***************************************************************************)
CONSTANT Pages

VARIABLE store      \* [shown |-> page -> image, possible |-> what may be found next]

At(shown) == [shown |-> shown, possible |-> {shown}]

Init == store = At([p \in Pages |-> 0])

Settled(s) == s = At(s.shown)

Replaced(shown, after) ==
    \E p \in Pages : \A q \in Pages \ {p} : after[q] = shown[q]

Write(old, new) ==
    /\ Settled(old) /\ Settled(new)
    /\ Replaced(old.shown, new.shown)

Attempt(old, new) ==
    /\ Settled(old)
    /\ new.shown = old.shown
    /\ \E after \in new.possible :
           Replaced(old.shown, after) /\ new.possible = {old.shown, after}

Decide(old, new) ==
    /\ new.shown \in old.possible
    /\ Settled(new)

Next ==
    \E old \in {store}, new \in {store'} :
        Write(old, new) \/ Attempt(old, new) \/ Decide(old, new)

Spec == Init /\ [][Next]_store
===============================================================================
