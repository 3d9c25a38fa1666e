----------------------------- MODULE LatestValue -----------------------------
(***************************************************************************)
(* What a single-element, drop-old mailbox promises, whatever carries it:  *)
(* a producer offers numbered values, a consumer is shown some of them,    *)
(* never one twice, never an older one after a newer one, never one that   *)
(* was not offered, and none after the mailbox has closed.  FramePath      *)
(* implements it twice: the slot between the camera and the worker, and    *)
(* the composite mailbox between the worker and the output's writer.       *)
(***************************************************************************)
EXTENDS Naturals

VARIABLES
    offered,  \* number of the newest value the producer has offered
    shown,    \* number of the newest value the consumer has been shown
    showings, \* how many times it has been shown one
    open      \* the mailbox still delivers

vars == <<offered, shown, showings, open>>

TypeOK ==
    /\ offered \in Nat
    /\ shown \in 0..offered
    /\ showings \in 0..shown
    /\ open \in BOOLEAN

Init ==
    /\ offered = 0
    /\ shown = 0
    /\ showings = 0
    /\ open = TRUE

\* The producer offers its next value.  A closed mailbox takes it and drops it.
Offer ==
    /\ offered' = offered + 1
    /\ UNCHANGED <<shown, showings, open>>

\* The consumer is shown a value newer than the last one; what lies between
\* the two is dropped.
Show ==
    /\ open
    /\ shown' \in (shown + 1)..offered
    /\ showings' = showings + 1
    /\ UNCHANGED <<offered, open>>

Close ==
    /\ open' = FALSE
    /\ UNCHANGED <<offered, shown, showings>>

Next ==
    \/ Offer
    \/ Show
    \/ Close

Spec == Init /\ [][Next]_vars
==============================================================================
