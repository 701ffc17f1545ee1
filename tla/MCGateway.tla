----------------------------- MODULE MCGateway -----------------------------
(***************************************************************************)
(* Measures and commands for small gateways.  The gateway is node 3, and   *)
(* ids are taken modulo 4.                                                 *)
(***************************************************************************)
EXTENDS Gateway

\* A meter whose second step is within the tolerance, changes every byte and carries
\* into the high word (3 to 4, bytes of base 2), after a first one beyond it.
MCOneMeter == [s \in {1} |-> {0, 3, 4}]

\* A step that changes one byte of each word, so that only words can be mixed.
MCTwoWords == [s \in {1, 2} |-> {0, 5}]

\* Measures of one byte.
MCOneByte == [s \in {1, 2} |-> IF s = 1 THEN {0, 2} ELSE {0}]

\* Commands for slave 1, whose mask they write, for the gateway itself, and for
\* addresses beyond a byte: once cut, 5 is slave 1 and 7 the gateway's own id.
MCReadCommands ==
    {[address |-> 1, value |-> "ON"], [address |-> 3, value |-> "ON"],
     [address |-> 5, value |-> "OTHER"], [address |-> 7, value |-> "ON"]}

\* Meters that stand still, and two commands that reach the same slave.
MCStill == [s \in {1, 2} |-> {0}]
MCRelayCommands == {[address |-> 1, value |-> "OFF"], [address |-> 5, value |-> "ON"]}
=============================================================================
