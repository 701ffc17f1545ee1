--------------------------- MODULE DurableCounter ---------------------------
(***************************************************************************)
(* What the pulse store promises to the rest of the node (the comments of  *)
(* main/include/flash.h): a count that is stored after every pulse, that a *)
(* boot reads back, and of which a crash loses at most the pulse that was  *)
(* being stored.                                                           *)
(***************************************************************************)
EXTENDS Naturals

VARIABLES
    up,      \* the node is counting
    count,   \* the count it works with
    durable  \* the count that survives a crash

vars == <<up, count, durable>>

Init == up = FALSE /\ count = 0 /\ durable = 0

Boot == /\ ~up
        /\ up' = TRUE
        /\ count' = durable
        /\ UNCHANGED durable

\* The next pulse is counted only when the one before is durable.
Count == /\ up
         /\ count = durable
         /\ count' = count + 1
         /\ UNCHANGED <<up, durable>>

Save == /\ up
        /\ count # durable
        /\ durable' = count
        /\ UNCHANGED <<up, count>>

Crash == /\ up
         /\ up' = FALSE
         /\ count' = 0
         /\ UNCHANGED durable

Next == Boot \/ Count \/ Save \/ Crash

\* A node that stays up eventually boots and stores what it counted.
Spec == Init /\ [][Next]_vars /\ WF_vars(Boot) /\ WF_vars(Save)
=============================================================================
