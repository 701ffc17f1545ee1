---------------------------- MODULE MeterDurable ----------------------------
(***************************************************************************)
(* The pulse task implements DurableCounter for as long as the counter is  *)
(* in the first page of the store and the partition has room, which        *)
(* FirstPageSuffices and PageFits say of the constants.                    *)
(***************************************************************************)
EXTENDS Meter

\* The bound on the pulses keeps the counter in the first page.
FirstPageSuffices ==
    \A e \in InitialEnergies :
        LET offset == writes_offset(e, IMPULSE_CONVERSION)
        IN Cardinality({n \in 1 .. MaxPulses : EntryWorn(n, offset)}) < MAX_ENTRIES

\* A partition takes the four slots of its "storage" namespace and keys, a page,
\* all the entries of the page and the spare slot that overwriting one needs.
PageFits == NvsCapacity > MAX_ENTRIES + 5

Durable == INSTANCE DurableCounter WITH
    up      <- Running,
    count   <- pulses,
    durable <- saved

\* Every step of the task, the interrupt and the resets is a step of the abstract
\* counter or leaves it alone, and a running task stores what it counted.
ImplementsDurableCounter == Durable!Spec
=============================================================================
