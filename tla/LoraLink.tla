------------------------------- MODULE LoraLink -------------------------------
(***************************************************************************)
(* The modem side of the LoRa task: init_lora_mesh and uart_event_task of  *)
(* main/esp_rf1276.c, lora_queue, and task_lora of main/main.c as far as   *)
(* it takes packages and answers them (what it answers is in Gateway).     *)
(* A package that writes the coil of address 0 restarts the node, and a    *)
(* package whose cipher fails is dropped.  The task waits up to TIME_SCAN  *)
(* for a place in the poll queue; here that is time spent in "handle".     *)
(*                                                                         *)
(* The checksum of a frame is the XOR of its bytes, so frames that follow  *)
(* each other whole pass together; different frames are taken to differ in *)
(* their XOR.  A read that times out leaves zeros, which add nothing.      *)
(* The daily reset of the modem by a timer touches a pin only.             *)
(***************************************************************************)
EXTENDS UartDriver

CONSTANT BUF_LORA_SIZE  \* packages that lora_queue holds (5)

ASSUME LoraAssumption ==
    /\ BUF_LORA_SIZE \in Nat \ {0}
    /\ Kinds \subseteq {"package", "reset", "ack", "ack_error", "noise"}

VARIABLES
    modem,     \* "configuring" or "running"
    pc,        \* uart_event_task: "receive", "read", "forward"
    event,     \* its event
    dtmp,      \* what it has read of it
    lora_queue,\* the frames forwarded; 0 is one without a known type
    loraPc,    \* task_lora: "receive" or "handle"
    loraFrame, \* the frame that it handles
    answered,  \* ghost: the frames answered so far
    modemResets\* ghost: times that lora_reset_modem was called

rxVars   == <<modem, pc, event, dtmp>>
loraVars == <<loraPc, loraFrame, answered, modemResets>>
vars     == <<uartVars, rxVars, lora_queue, loraVars>>

NoEvent == [type |-> "UART_DATA", size |-> 0]
Frames  == 0 .. MaxFrames

\* Those of UartDriver, two frames that passed as one, the events of init, and a
\* package that could not be deciphered or whose answer could not be ciphered.
Troubles == {"dropped", "crc", "restart", "merged", "stale", "cipher"}

TypeOK ==
    /\ line \in Seq(Kinds) /\ Len(line) <= MaxFrames
    /\ part \in {1, 2}
    /\ fifo \in Seq(Piece) /\ ring \in Seq(Piece)
    /\ uart_queue \in Seq(Event) /\ Len(uart_queue) <= EVENT_QUEUE
    /\ errors \in 0 .. MaxErrors
    /\ trouble \subseteq Troubles
    /\ modem \in {"configuring", "running"}
    /\ pc \in {"receive", "read", "forward"}
    /\ event \in Event
    /\ dtmp \in Seq(Piece) /\ Len(dtmp) <= event.size
    /\ lora_queue \in Seq(Frames) /\ Len(lora_queue) <= BUF_LORA_SIZE
    /\ loraPc \in {"receive", "handle"}
    /\ loraFrame \in Frames
    /\ answered \in Seq(1 .. MaxFrames)
    /\ modemResets \in Nat

Init ==
    /\ UartInit
    /\ modem = "configuring"
    /\ pc = "receive"
    /\ event = NoEvent
    /\ dtmp = <<>>
    /\ lora_queue = <<>>
    /\ loraPc = "receive"
    /\ loraFrame = 0
    /\ answered = <<>>
    /\ modemResets = 0

-----------------------------------------------------------------------------
(* init_lora_mesh *)

\* The modem confirms its configuration.  init_lora_mesh reads the answer and the
\* version itself, and their events stay in the queue without their bytes.
Configured ==
    /\ modem = "configuring"
    /\ modem' = "running"
    /\ \E stale \in {<<>>, <<1>>, <<1, 2>>} :
          /\ Len(stale) <= EVENT_QUEUE
          /\ uart_queue' = [i \in DOMAIN stale |-> [type |-> "UART_DATA", size |-> stale[i]]]
          /\ trouble' = trouble \cup (IF stale = <<>> THEN {} ELSE {"stale"})
    /\ UNCHANGED <<line, part, fifo, ring, errors, pc, event, dtmp, lora_queue, loraVars>>

\* Anything else fails, and ESP_ERROR_CHECK resets the node, which tries again.
NotConfigured == modem = "configuring" /\ UNCHANGED vars

-----------------------------------------------------------------------------
(* The interrupt handler and the modem's line *)

Driver ==
    /\ modem = "running"
    /\ \/ \E k \in Kinds : Arrive(k)
       \/ IsrData
       \/ \E type \in Errors : IsrError(type)
    /\ UNCHANGED <<rxVars, lora_queue, loraVars>>

-----------------------------------------------------------------------------
(* uart_event_task *)

\* Faulty: while lora_queue is full, an event is thrown away with its bytes unread.
Receive_busy ==
    /\ modem = "running"
    /\ pc = "receive"
    /\ uart_queue # <<>>
    /\ uart_queue' = Tail(uart_queue)
    /\ IF Head(uart_queue).type = "UART_DATA" /\ Len(lora_queue) < BUF_LORA_SIZE
         THEN pc' = "read" /\ event' = Head(uart_queue)
         ELSE UNCHANGED <<pc, event>>
    /\ UNCHANGED <<line, part, fifo, ring, errors, trouble, modem, dtmp, lora_queue, loraVars>>

\* Events other than UART_DATA are passed over, their bytes stay.
Receive ==
    /\ modem = "running"
    /\ pc = "receive"
    /\ uart_queue # <<>>
    /\ uart_queue' = Tail(uart_queue)
    /\ IF Head(uart_queue).type = "UART_DATA"
         THEN pc' = "read" /\ event' = Head(uart_queue)
         ELSE UNCHANGED <<pc, event>>
    /\ UNCHANGED <<line, part, fifo, ring, errors, trouble, modem, dtmp, lora_queue, loraVars>>

\* What uart_read_bytes still waits for.
Missing == IF pc = "read" THEN event.size - Len(dtmp) ELSE 0

ReadBytes ==
    LET n == IF Len(ring) < Missing THEN Len(ring) ELSE Missing
    IN /\ pc = "read"
       /\ n > 0
       /\ dtmp' = dtmp \o SubSeq(ring, 1, n)
       /\ ring' = SubSeq(ring, n + 1, Len(ring))
       /\ UNCHANGED <<line, part, fifo, uart_queue, errors, trouble, modem, pc, event,
                      lora_queue, loraVars>>

\* uart_read_bytes has everything, or has waited 500 ms for it.
HaveRead == pc = "read" /\ (Missing = 0 \/ ring = <<>>)

PiecesOf(f) == {i \in DOMAIN dtmp : dtmp[i].frame = f}
FramesRead  == {f \in 1 .. Len(line) : PiecesOf(f) # {}}

\* Faulty: a frame counts as whole when its first byte is there.
CHECK_SUM_header == \A f \in FramesRead : line[f] # "noise"

\* CHECK_SUM(dtmp, event.size) == 0
CHECK_SUM_holds ==
    \A f \in FramesRead : line[f] # "noise" /\ Cardinality(PiecesOf(f)) = 2

ToReceive == pc' = "receive" /\ event' = NoEvent /\ dtmp' = <<>>

\* Nothing is flushed: what the event did not announce stays in the ring.
ChecksumError ==
    /\ HaveRead
    /\ ~CHECK_SUM_holds
    /\ trouble' = trouble \cup {"crc"}
    /\ ToReceive
    /\ UNCHANGED <<line, part, fifo, ring, uart_queue, errors, modem, lora_queue, loraVars>>

\* recv_data_prepare parses the first frame; zeros are a frame of no known type.
ChecksumOk ==
    /\ HaveRead
    /\ CHECK_SUM_holds
    /\ pc' = "forward"
    /\ trouble' = trouble \cup (IF Cardinality(FramesRead) > 1 THEN {"merged"} ELSE {})
    /\ UNCHANGED <<line, part, fifo, ring, uart_queue, errors, modem, event, dtmp,
                   lora_queue, loraVars>>

recvFrame == IF dtmp = <<>> THEN 0 ELSE dtmp[1].frame

\* Faulty: off by one.
HasPlace_last == Len(lora_queue) <= BUF_LORA_SIZE

HasPlace == Len(lora_queue) < BUF_LORA_SIZE

\* Faulty: xQueueSend does not wait, and a frame without a place is lost.
Forward_nowait ==
    /\ pc = "forward"
    /\ lora_queue' = IF HasPlace THEN Append(lora_queue, recvFrame) ELSE lora_queue
    /\ ToReceive
    /\ UNCHANGED <<uartVars, modem, loraVars>>

\* xQueueSend waits for a place for ever.
Forward ==
    /\ pc = "forward"
    /\ HasPlace
    /\ lora_queue' = Append(lora_queue, recvFrame)
    /\ ToReceive
    /\ UNCHANGED <<uartVars, modem, loraVars>>

-----------------------------------------------------------------------------
(* task_lora *)

\* Faulty: the frame is looked at and stays in the queue.
LoraReceive_peek ==
    /\ loraPc = "receive"
    /\ lora_queue # <<>>
    /\ loraFrame' = Head(lora_queue)
    /\ loraPc' = "handle"
    /\ UNCHANGED <<uartVars, rxVars, lora_queue, answered, modemResets>>

LoraReceive ==
    /\ loraPc = "receive"
    /\ lora_queue # <<>>
    /\ loraFrame' = Head(lora_queue)
    /\ lora_queue' = Tail(lora_queue)
    /\ loraPc' = "handle"
    /\ UNCHANGED <<uartVars, rxVars, answered, modemResets>>

HandlesAs(k) == loraPc = "handle" /\ loraFrame # 0 /\ line[loraFrame] = k

Handled ==
    /\ loraPc' = "receive"
    /\ loraFrame' = 0
    /\ UNCHANGED <<line, part, fifo, ring, uart_queue, errors, rxVars, lora_queue>>

\* RECV_PACKAGE: the request is answered to its source.
LoraAnswer ==
    /\ HandlesAs("package")
    /\ answered' = Append(answered, loraFrame)
    /\ Handled
    /\ UNCHANGED <<trouble, modemResets>>

\* cfb8decrypt or cfb8encrypt fails, and nothing is sent.
LoraCipherError ==
    /\ HandlesAs("package") \/ HandlesAs("reset")
    /\ trouble' = trouble \cup {"cipher"}
    /\ Handled
    /\ UNCHANGED <<answered, modemResets>>

\* WRITE_SINGLE_COIL of address 0: esp_restart.  The packages that wait in lora_queue
\* and the bytes not yet read are lost, and the modem is configured again.
LoraRestart ==
    /\ HandlesAs("reset")
    /\ trouble' = trouble \cup {"restart"}
    /\ uart_flush_input
    /\ xQueueReset
    /\ modem' = "configuring"
    /\ ToReceive
    /\ lora_queue' = <<>>
    /\ loraPc' = "receive"
    /\ loraFrame' = 0
    /\ UNCHANGED <<line, part, errors, answered, modemResets>>

\* ACK_SEND with one of the errors that lora_reset_modem is for.
LoraResetModem ==
    /\ HandlesAs("ack_error")
    /\ modemResets' = modemResets + 1
    /\ Handled
    /\ UNCHANGED <<trouble, answered>>

\* Other acknowledgements are logged, frames of no known type are ignored.
LoraIgnore ==
    /\ HandlesAs("ack") \/ (loraPc = "handle" /\ loraFrame = 0)
    /\ Handled
    /\ UNCHANGED <<trouble, answered, modemResets>>

-----------------------------------------------------------------------------
RxTask   == Receive \/ ReadBytes \/ ChecksumError \/ ChecksumOk \/ Forward
LoraTask ==
    \/ LoraReceive
    \/ LoraAnswer \/ LoraCipherError \/ LoraRestart
    \/ LoraResetModem \/ LoraIgnore

\* Both tasks wait with portMAX_DELAY.
Idle ==
    /\ pc = "receive" /\ uart_queue = <<>>
    /\ loraPc = "receive" /\ lora_queue = <<>>
    /\ UNCHANGED vars

Next == Configured \/ NotConfigured \/ Driver \/ RxTask \/ LoraTask \/ Idle

Spec == Init /\ [][Next]_vars

\* Both tasks run when they can, the interrupt handler when the FIFO has something.
FairSpec ==
    /\ Spec
    /\ WF_vars(RxTask) /\ WF_vars(LoraTask)
    /\ WF_vars(IsrData /\ UNCHANGED <<rxVars, lora_queue, loraVars>>)

-----------------------------------------------------------------------------
(* Properties *)

\* No bytes are left in the ring that no event announces, unless the queue dropped
\* their event: such bytes would be read in place of the next frame, and nothing in
\* uart_event_task ever flushes them.
NothingLeftBehind ==
    "dropped" \notin trouble => Len(ring) <= Announced(uart_queue) + Missing

\* A package is answered once, and never after a later one; the events without
\* bytes that init_lora_mesh leaves and frames torn or merged by events never make
\* the LoRa task act on anything else.
AnswersOnceInOrder ==
    \A i \in DOMAIN answered :
        /\ line[answered[i]] = "package"
        /\ \A j \in DOMAIN answered : i < j => answered[i] < answered[j]

\* The modem is reset only for an acknowledgement that asks for it, once for each.
ResetsAreAsked ==
    modemResets <= Cardinality({f \in DOMAIN line : line[f] = "ack_error"})

\* A package that has arrived is answered, although both queues are small and block
\* their writer, unless the line failed, an event was dropped, merged, torn or left
\* over from the start of the modem, the cipher failed, or a package for coil 0 has
\* restarted the node and lost those that waited behind it.
PackageAnswered ==
    \A f \in 1 .. MaxFrames :
        (Len(line) >= f /\ line[f] = "package" /\ (Len(line) > f \/ part = 1))
            ~> (f \in Range(answered) \/ errors > 0 \/ trouble # {})
=============================================================================
