------------------------------ MODULE SlaveTask ------------------------------
(***************************************************************************)
(* task_modbus_slave of main/main.c: it takes an event of the RS485        *)
(* driver, reads the bytes that the event announces, checks the CRC and    *)
(* the node id, and answers.  A CRC error flushes the buffer but leaves    *)
(* the events; the other errors flush the buffer, then reset the queue.    *)
(*                                                                         *)
(* The CRC is ideal: it holds for one whole frame that arrived as it was   *)
(* sent, and for nothing else.  What the slave does to answer is in        *)
(* Gateway and Meter, but for one request: a write of a coil that is not   *)
(* its own resets the node, for address 0 with esp_restart and for         *)
(* another node's coil because this node has no uart_send_queue to put the *)
(* command in and xQueueSend stops the program.  Nothing is answered then. *)
(*                                                                         *)
(* error_count is only ever set to 0, so the test for LIMIT_ERROR_COUNT    *)
(* never restarts the node and is left out.                                *)
(***************************************************************************)
EXTENDS UartDriver

ASSUME SlaveAssumption == Kinds = {"own", "reset", "other", "noise"}

VARIABLES
    pc,       \* "receive", "read", "flush", "reset", "reinstall"
    event,    \* the event being handled
    received_buffer, \* what it has read so far
    answered  \* ghost: the frames answered so far

taskVars == <<pc, event, received_buffer, answered>>
vars == <<uartVars, taskVars>>

NoEvent == [type |-> "UART_DATA", size |-> 0]

TypeOK ==
    /\ UartTypeOK
    /\ pc \in {"receive", "read", "flush", "reset", "reinstall"}
    /\ event \in Event
    /\ received_buffer \in Seq(Piece)
    /\ Len(received_buffer) <= event.size
    /\ answered \in Seq(1 .. MaxFrames)

Init ==
    /\ UartInit
    /\ pc = "receive"
    /\ event = NoEvent
    /\ received_buffer = <<>>
    /\ answered = <<>>

-----------------------------------------------------------------------------
(* The interrupt handler and the line *)

Driver ==
    /\ \/ \E k \in Kinds : Arrive(k)
       \/ IsrData
       \/ \E type \in Errors : IsrError(type)
    /\ UNCHANGED taskVars

-----------------------------------------------------------------------------
(* The task *)

\* Nothing for TWDT_RESET: the watchdog is fed, as after every event.
Idle ==
    /\ pc = "receive"
    /\ uart_queue = <<>>
    /\ UNCHANGED vars

Receive ==
    /\ pc = "receive"
    /\ uart_queue # <<>>
    /\ event' = Head(uart_queue)
    /\ uart_queue' = Tail(uart_queue)
    /\ pc' = IF Head(uart_queue).type = "UART_DATA" THEN "read" ELSE "flush"
    /\ UNCHANGED <<line, part, fifo, ring, errors, trouble, received_buffer, answered>>

Missing == event.size - Len(received_buffer)

\* Faulty: reads whatever has arrived, not what the event announced.
Readable_all == Len(ring)

Readable == IF Len(ring) < Missing THEN Len(ring) ELSE Missing

\* uart_read_bytes takes what there is and, with portMAX_DELAY, waits for the rest.
ReadBytes ==
    LET n == Readable
    IN /\ pc = "read"
       /\ Missing > 0
       /\ n > 0
       /\ received_buffer' = received_buffer \o SubSeq(ring, 1, n)
       /\ ring' = SubSeq(ring, n + 1, Len(ring))
       /\ UNCHANGED <<line, part, fifo, uart_queue, errors, trouble, pc, event, answered>>

\* CRC16(received_buffer, event.size) == 0
CrcHolds ==
    \E f \in 1 .. Len(line) :
        /\ received_buffer = <<[frame |-> f, part |-> 1], [frame |-> f, part |-> 2]>>
        /\ line[f] # "noise"

\* Faulty: answers whoever was asked.
ForThisNode_any == TRUE

\* received_buffer[0] == NODE_ID, and modbus_slave_functions gets to its end
ForThisNode == line[received_buffer[1].frame] = "own"

\* WRITE_SINGLE_COIL of address 0, or of the coil of another node
ResetsThisNode == line[received_buffer[1].frame] = "reset"

HaveRead == pc = "read" /\ Missing = 0

ToReceive == pc' = "receive" /\ event' = NoEvent /\ received_buffer' = <<>>

\* A new driver, and a task that waits for its first event: what had arrived is lost.
Reset == uart_flush_input /\ xQueueReset /\ ToReceive

\* Faulty: the buffer is flushed after good frames too.
Answer_flushes ==
    /\ HaveRead
    /\ CrcHolds
    /\ ~ResetsThisNode
    /\ answered' = IF ForThisNode THEN Append(answered, received_buffer[1].frame) ELSE answered
    /\ uart_flush_input
    /\ ToReceive
    /\ UNCHANGED <<line, part, uart_queue, errors, trouble>>

\* A frame for another node is passed over.
Answer ==
    /\ HaveRead
    /\ CrcHolds
    /\ ~ResetsThisNode
    /\ answered' = IF ForThisNode THEN Append(answered, received_buffer[1].frame) ELSE answered
    /\ ToReceive
    /\ UNCHANGED uartVars

\* The write of a coil that is not this node's own.
Restart ==
    /\ HaveRead
    /\ CrcHolds
    /\ ResetsThisNode
    /\ trouble' = trouble \cup {"restart"}
    /\ Reset
    /\ UNCHANGED <<line, part, errors, answered>>

CrcError ==
    /\ HaveRead
    /\ ~CrcHolds
    /\ uart_flush_input
    /\ trouble' = trouble \cup {"crc"}
    /\ ToReceive
    /\ UNCHANGED <<line, part, uart_queue, errors, answered>>

FlushInput ==
    /\ pc = "flush"
    /\ uart_flush_input
    /\ pc' = "reset"
    /\ UNCHANGED <<line, part, uart_queue, errors, trouble, event, received_buffer,
                   answered>>

\* Faulty: the events survive an error of the line.
ResetQueue_keeps ==
    /\ pc = "reset"
    /\ IF event.type = "UART_FRAME_ERR"
         THEN pc' = "reinstall" /\ UNCHANGED <<event, received_buffer>>
         ELSE ToReceive
    /\ UNCHANGED <<uartVars, answered>>

ResetQueue ==
    /\ pc = "reset"
    /\ xQueueReset
    /\ IF event.type = "UART_FRAME_ERR"
         THEN pc' = "reinstall" /\ UNCHANGED <<event, received_buffer>>
         ELSE ToReceive
    /\ UNCHANGED <<line, part, fifo, ring, errors, trouble, answered>>

\* uart_init deletes the driver and installs it again.
Reinstall ==
    /\ pc = "reinstall"
    /\ Reset
    /\ UNCHANGED <<line, part, errors, trouble, answered>>

Blocked == pc = "read" /\ Missing > 0 /\ ring = <<>>

\* Faulty: esp_task_wdt_init(TWDT_TIMEOUT_S, false)
Watchdog_off == FALSE /\ UNCHANGED vars

\* A task that has not fed the watchdog for TWDT_TIMEOUT_S resets the node.
Watchdog ==
    /\ Blocked
    /\ Reset
    /\ UNCHANGED <<line, part, errors, trouble, answered>>

-----------------------------------------------------------------------------
Task == Receive \/ ReadBytes \/ Answer \/ Restart \/ CrcError \/ FlushInput \/ ResetQueue \/ Reinstall

Next == Driver \/ Idle \/ Task \/ Watchdog

Spec == Init /\ [][Next]_vars

\* The task runs when it can, the interrupt handler when the FIFO has something,
\* and the watchdog when the task hangs.
FairSpec ==
    /\ Spec
    /\ WF_vars(Task) /\ WF_vars(IsrData /\ UNCHANGED taskVars) /\ WF_vars(Watchdog)

-----------------------------------------------------------------------------
(* Properties *)

\* The task never waits for bytes that are gone, unless a CRC error has flushed
\* them from under their events: neither the errors of the line, with their flush
\* and reset in two steps, nor events dropped by a full queue leave such an event.
EventsHaveTheirBytes ==
    "crc" \notin trouble /\ pc \notin {"reset", "reinstall"} =>
        Announced(uart_queue) + Missing <= Len(ring)

\* No request is answered twice or after a later one, and nothing is answered that
\* was not a whole request for this node, whatever events split or merge frames,
\* also once events and bytes are out of step.
AnswersOnceInOrder ==
    \A i \in DOMAIN answered :
        /\ line[answered[i]] = "own"
        /\ \A j \in DOMAIN answered : i < j => answered[i] < answered[j]

\* The task comes back to its queue for ever: a read that waits for lost bytes ends
\* with the next frames or with the watchdog.
TaskReturns == []<>(pc = "receive")

\* A request that has arrived is answered, unless the line failed, the queue of
\* events overflowed, a frame (this or another) failed its CRC, or a write of a coil
\* that is not this node's own has reset the node and lost what waited behind it.
RequestAnswered ==
    \A f \in 1 .. MaxFrames :
        (Len(line) >= f /\ line[f] = "own" /\ (Len(line) > f \/ part = 1))
            ~> (f \in Range(answered) \/ errors > 0 \/ trouble # {})
=============================================================================
