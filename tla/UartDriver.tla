----------------------------- MODULE UartDriver -----------------------------
(***************************************************************************)
(* The receiving side of an ESP-IDF UART driver, as the tasks of main/ use *)
(* it: the interrupt handler moves what the hardware FIFO holds to a ring  *)
(* buffer and posts an event with its size; a task takes the event, reads  *)
(* that many bytes, and may flush the buffer or reset the queue.  Nothing  *)
(* keeps the two in step.                                                  *)
(*                                                                         *)
(* A frame is two pieces, so that an event may announce a part of a frame, *)
(* or the end of one with the start of another.                            *)
(***************************************************************************)
EXTENDS Integers, SequencesExt

CONSTANTS
    EVENT_QUEUE, \* events that the queue of the driver holds (20)
    FIFO,        \* pieces that the hardware holds
    Kinds,       \* kinds of frames on the line
    MaxFrames,   \* bound: frames on the line
    MaxErrors    \* bound: overflows and framing errors

ASSUME UartAssumption ==
    /\ EVENT_QUEUE \in Nat \ {0}
    /\ FIFO \in Nat \ {0}
    /\ MaxFrames \in Nat
    /\ MaxErrors \in Nat

Piece == [frame : 1 .. MaxFrames, part : {1, 2}]

Errors == {"UART_FIFO_OVF", "UART_BUFFER_FULL", "UART_FRAME_ERR"}
Event  == [type : {"UART_DATA"} \cup Errors, size : Nat]

VARIABLES
    line,      \* the kinds of the frames that have started to arrive
    part,      \* 2 when the last of them lacks its second piece
    fifo,      \* the hardware FIFO
    ring,      \* the ring buffer of the driver
    uart_queue,\* its events
    errors,    \* ghost: overflows and framing errors so far
    trouble    \* ghost: what else has gone wrong: "dropped", "crc", "restart"

uartVars == <<line, part, fifo, ring, uart_queue, errors, trouble>>

UartTypeOK ==
    /\ line \in Seq(Kinds)
    /\ Len(line) <= MaxFrames
    /\ part \in {1, 2}
    /\ fifo \in Seq(Piece) /\ Len(fifo) <= FIFO
    /\ ring \in Seq(Piece)
    /\ uart_queue \in Seq(Event) /\ Len(uart_queue) <= EVENT_QUEUE
    /\ errors \in 0 .. MaxErrors
    /\ trouble \subseteq {"dropped", "crc", "restart"}

UartInit ==
    /\ line = <<>>
    /\ part = 1
    /\ fifo = <<>>
    /\ ring = <<>>
    /\ uart_queue = <<>>
    /\ errors = 0
    /\ trouble = {}

\* A piece of a frame of kind k arrives.
Arrive(k) ==
    /\ Len(fifo) < FIFO
    /\ IF part = 1 THEN Len(line) < MaxFrames /\ line' = Append(line, k)
                   ELSE k = line[Len(line)] /\ UNCHANGED line
    /\ fifo' = Append(fifo, [frame |-> Len(line'), part |-> part])
    /\ part' = 3 - part
    /\ UNCHANGED <<ring, uart_queue, errors, trouble>>

\* An event that finds the queue full is dropped.
Post(e) ==
    IF Len(uart_queue) < EVENT_QUEUE
    THEN uart_queue' = Append(uart_queue, e) /\ UNCHANGED trouble
    ELSE UNCHANGED uart_queue /\ trouble' = trouble \cup {"dropped"}

\* The FIFO is full enough, or the line has been silent.
IsrData ==
    /\ fifo # <<>>
    /\ ring' = ring \o fifo
    /\ fifo' = <<>>
    /\ Post([type |-> "UART_DATA", size |-> Len(fifo)])
    /\ UNCHANGED <<line, part, errors>>

\* An overflow or a framing error costs what the FIFO holds.
IsrError(type) ==
    /\ errors < MaxErrors
    /\ errors' = errors + 1
    /\ fifo' = <<>>
    /\ Post([type |-> type, size |-> 0])
    /\ UNCHANGED <<line, part, ring>>

-----------------------------------------------------------------------------
(* What a task calls *)

\* uart_flush, uart_flush_input: the events stay.
uart_flush_input == ring' = <<>> /\ fifo' = <<>>

xQueueReset == uart_queue' = <<>>

\* The pieces that the queued events announce, and their number.
PiecesOfEvent(q, i) == {i} \X (1 .. q[i].size)
Announced(q) == Cardinality(UNION {PiecesOfEvent(q, i) : i \in DOMAIN q})
=============================================================================
