---------------------------- MODULE LoraLinkProofs ----------------------------
(***************************************************************************)
(* Theorems about LoraLink, for any number of frames of any kinds, any     *)
(* sizes of the FIFO and of both queues and any number of errors:          *)
(*   TypeCorrect      the state has its types;                             *)
(*   AnswersInOrder   no package is answered twice or after a later one,   *)
(*                    and nothing else is answered;                        *)
(*   ResetsAnswerAcks the modem is reset once at most for each             *)
(*                    acknowledgement that asks for it;                    *)
(*   NoBytesAlone     the ring holds only bytes that events announce,      *)
(*                    unless an event was dropped.                         *)
(***************************************************************************)
EXTENDS LoraLink, UartProofs

-----------------------------------------------------------------------------
(* The inductive invariants *)

TypeInv ==
    /\ TypeOK
    /\ UartTypes
    /\ pc = "receive" => dtmp = <<>>
    /\ modem = "configuring" => ring = <<>>
    /\ loraPc = "receive" => loraFrame = 0

\* All that is still to be read comes after frame f.
Rest(f) == Stream(2 * f + 2, dtmp, ring, fifo, NextPos)

\* So do the frames that wait for the LoRa task,
Ahead(f) ==
    /\ Rest(f)
    /\ \A i \in 1 .. Len(lora_queue) : lora_queue[i] # 0 => f < lora_queue[i]

\* and the one that it handles.
Over(f) == Ahead(f) /\ (loraFrame # 0 => f < loraFrame)

\* The frames between the modem and the LoRa task are whole and in order.
FlightInv ==
    /\ Rest(0)
    /\ pc = "forward" /\ dtmp # <<>> =>
          /\ recvFrame \in 1 .. Len(line)
          /\ \E p \in Range(dtmp) : Pos(p) = 2 * recvFrame + 2
    /\ \A i \in 1 .. Len(lora_queue) : lora_queue[i] # 0 =>
          /\ lora_queue[i] \in 1 .. Len(line)
          /\ Rest(lora_queue[i])
          /\ \A j \in 1 .. Len(lora_queue) :
                i < j /\ lora_queue[j] # 0 => lora_queue[i] < lora_queue[j]
    /\ loraFrame # 0 => loraFrame \in 1 .. Len(line) /\ Ahead(loraFrame)

AnswerInv ==
    /\ AnswersOnceInOrder
    /\ \A i \in DOMAIN answered : answered[i] \in 1 .. Len(line) /\ Over(answered[i])

AckErrors == {f \in DOMAIN line : line[f] = "ack_error"}

\* Each reset was for another acknowledgement, and that one is over.
ResetInv ==
    \E R \in SUBSET AckErrors : Cardinality(R) = modemResets /\ \A f \in R : Over(f)

-----------------------------------------------------------------------------
(* Types *)

LEMMA NoEventType == NoEvent \in Event /\ NoEvent.size = 0
  BY DEF NoEvent, Event

LEMMA TypeInit == Init => TypeInv
<1> SUFFICES ASSUME Init PROVE TypeInv
  OBVIOUS
<1>1. /\ \A S : <<>> \in Seq(S)
      /\ Len(<<>>) = 0
  BY EmptySeq
<1> QED
  BY <1>1, NoEventType, UartAssumption, LoraAssumption
     DEF Init, UartInit, TypeInv, TypeOK, UartTypes, Frames

\* The events that init_lora_mesh leaves.
LEMMA StaleEvents ==
    ASSUME NEW n \in Nat, NEW stale \in [1 .. n -> Nat]
    PROVE  LET q == [i \in 1 .. n |-> [type |-> "UART_DATA", size |-> stale[i]]]
           IN q \in Seq(Event) /\ q \in Seq(SizedEvent) /\ Len(q) = n
<1> DEFINE q == [i \in 1 .. n |-> [type |-> "UART_DATA", size |-> stale[i]]]
<1>1. q \in [1 .. n -> SizedEvent] /\ q \in [1 .. n -> Event]
  BY DEF SizedEvent, Event
<1> HIDE DEF q
<1>2. q \in Seq(SizedEvent) /\ q \in Seq(Event)
  BY <1>1, SeqDef
<1>3. Len(q) \in Nat /\ DOMAIN q = 1 .. Len(q) /\ DOMAIN q = 1 .. n
  BY <1>1, <1>2, LenProperties
<1>4. Len(q) = n
  <2>1. \A i : i \in 1 .. Len(q) <=> i \in 1 .. n
    BY <1>3
  <2>2. n >= 1 => n <= Len(q)
    BY <1>3, <2>1
  <2>3. Len(q) >= 1 => Len(q) <= n
    BY <1>3, <2>1
  <2>4. Len(q) \in Nat
    BY <1>3
  <2> QED
    BY <2>2, <2>3, <2>4
<1> QED
  BY <1>2, <1>4 DEF q

LEMMA ConfiguredTypes ==
    ASSUME TypeInv, Configured
    PROVE  /\ uart_queue' \in Seq(Event) /\ uart_queue' \in Seq(SizedEvent)
           /\ Len(uart_queue') <= EVENT_QUEUE
           /\ trouble' \subseteq Troubles
<1>1. PICK stale \in {<<>>, <<1>>, <<1, 2>>} :
         /\ Len(stale) <= EVENT_QUEUE
         /\ uart_queue' = [i \in DOMAIN stale |-> [type |-> "UART_DATA", size |-> stale[i]]]
         /\ trouble' = trouble \cup (IF stale = <<>> THEN {} ELSE {"stale"})
  BY DEF Configured
<1>2. stale \in Seq(Nat)
  <2>1. <<>> \in Seq(Nat) /\ <<1>> \in Seq(Nat) /\ <<1, 2>> \in Seq(Nat)
    OBVIOUS
  <2> QED
    BY <2>1
<1>3. /\ Len(stale) \in Nat /\ DOMAIN stale = 1 .. Len(stale)
      /\ stale \in [1 .. Len(stale) -> Nat]
  BY <1>2, LenProperties
<1>4. trouble' \subseteq Troubles
  BY <1>1 DEF Troubles, TypeInv, TypeOK
<1> QED
  BY <1>1, <1>3, <1>4, StaleEvents

\* How much is read at once.
Readable == IF Len(ring) < Missing THEN Len(ring) ELSE Missing

LEMMA ReadTypes ==
    ASSUME TypeInv
    PROVE  /\ Missing \in Nat /\ Len(ring) \in Nat /\ Len(dtmp) \in Nat /\ event.size \in Nat
           /\ Readable \in 0 .. Len(ring) /\ Readable <= Missing
           /\ ReadBytes => /\ dtmp' = dtmp \o SubSeq(ring, 1, Readable)
                           /\ ring' = SubSeq(ring, Readable + 1, Len(ring))
                           /\ ring' \in Seq(Piece) /\ dtmp' \in Seq(Piece)
                           /\ Len(ring') = Len(ring) - Readable
                           /\ Len(dtmp') = Len(dtmp) + Readable
                           /\ Missing' = Missing - Readable
<1>1. /\ Len(ring) \in Nat /\ Len(dtmp) \in Nat /\ event.size \in Nat
      /\ Len(dtmp) <= event.size /\ ring \in Seq(Piece) /\ dtmp \in Seq(Piece)
  BY LenProperties, EventType DEF TypeInv, TypeOK
<1>2. Missing \in Nat /\ Readable \in 0 .. Len(ring) /\ Readable <= Missing
  BY <1>1 DEF Missing, Readable
<1>3. ASSUME ReadBytes
      PROVE  /\ dtmp' = dtmp \o SubSeq(ring, 1, Readable)
             /\ ring' = SubSeq(ring, Readable + 1, Len(ring))
             /\ pc = "read" /\ UNCHANGED <<pc, event>>
  BY <1>3 DEF ReadBytes, Readable
<1>4. ASSUME ReadBytes
      PROVE  /\ ring' \in Seq(Piece) /\ dtmp' \in Seq(Piece)
             /\ Len(ring') = Len(ring) - Readable
             /\ Len(dtmp') = Len(dtmp) + Readable
  <2>1. /\ dtmp \o SubSeq(ring, 1, Readable) \in Seq(Piece)
        /\ Len(dtmp \o SubSeq(ring, 1, Readable)) = Len(dtmp) + Readable
        /\ SubSeq(ring, Readable + 1, Len(ring)) \in Seq(Piece)
        /\ Len(SubSeq(ring, Readable + 1, Len(ring))) = Len(ring) - Readable
    BY <1>1, <1>2, ReadMoves
  <2> QED
    BY <1>3, <1>4, <2>1
<1>5. ASSUME ReadBytes
      PROVE  Missing' = Missing - Readable
  BY <1>1, <1>2, <1>3, <1>4, <1>5 DEF Missing
<1> QED
  BY <1>1, <1>2, <1>3, <1>4, <1>5

LEMMA TypeRx ==
    ASSUME TypeInv, Driver \/ RxTask
    PROVE  TypeInv'
<1> USE DEF TypeInv, TypeOK
<1>0. UartTypes /\ UartTypes' => /\ line' \in Seq(Kinds) /\ Len(line') <= MaxFrames
                                /\ part' \in {1, 2}
                                /\ fifo' \in Seq(Piece) /\ ring' \in Seq(Piece)
                                /\ uart_queue' \in Seq(Event) /\ Len(uart_queue') <= EVENT_QUEUE
                                /\ errors' \in 0 .. MaxErrors
  BY DEF UartTypes
<1>e. ASSUME ToReceive
      PROVE  /\ pc' = "receive" /\ event' \in Event /\ event'.size = 0
             /\ dtmp' = <<>> /\ dtmp' \in Seq(Piece) /\ Len(dtmp') <= event'.size
  BY <1>e, NoEventType, EmptySeq DEF ToReceive
<1>1. CASE Driver
  <2>1. /\ UartStep /\ modem = "running"
        /\ UNCHANGED <<modem, pc, event, dtmp, lora_queue, loraPc, loraFrame, answered, modemResets>>
    BY <1>1 DEF Driver, UartStep, rxVars, loraVars
  <2>2. UartTypes' /\ trouble' \subseteq trouble \cup {"dropped"}
    BY <2>1, UartStepKeeps
  <2> QED
    BY <1>0, <2>1, <2>2 DEF Troubles
<1>2. CASE Receive
  <2> DEFINE e == Head(uart_queue)
             q == Tail(uart_queue)
  <2>1. /\ q \in Seq(Event) /\ q \in Seq(SizedEvent) /\ Len(q) = Len(uart_queue) - 1
        /\ e \in Event /\ Len(uart_queue) \in Nat
    BY <1>2, QueueTypes DEF Receive, UartTypes
  <2>2. /\ uart_queue' = q /\ pc = "receive" /\ modem = "running"
        /\ (pc' = "read" /\ event' = e) \/ UNCHANGED <<pc, event>>
        /\ UNCHANGED <<line, part, fifo, ring, errors, trouble, modem, dtmp, lora_queue>>
        /\ UNCHANGED <<loraPc, loraFrame, answered, modemResets>>
    BY <1>2 DEF Receive, loraVars
  <2>3. e.size \in Nat
    BY <2>1, EventType
  <2> HIDE DEF e, q
  <2>4. Len(uart_queue') <= EVENT_QUEUE
    BY <2>1, <2>2, UartAssumption
  <2>5. dtmp' = <<>> /\ Len(dtmp') = 0 /\ event'.size \in Nat
    BY <2>2, <2>3, EmptySeq, EventType
  <2>6. UartTypes'
    BY <2>1, <2>2, <2>4 DEF UartTypes
  <2> QED
    BY <1>0, <2>1, <2>2, <2>5, <2>6
<1>3. CASE ReadBytes
  <2>1. /\ ring' \in Seq(Piece) /\ dtmp' \in Seq(Piece) /\ Len(dtmp') = Len(dtmp) + Readable
        /\ Missing \in Nat /\ Readable <= Missing /\ Readable \in Nat
        /\ Len(dtmp) \in Nat /\ event.size \in Nat /\ Len(ring) \in Nat
    BY <1>3, ReadTypes
  <2>2. /\ UNCHANGED <<line, part, fifo, uart_queue, errors, trouble, modem, pc, event>>
        /\ UNCHANGED <<lora_queue, loraPc, loraFrame, answered, modemResets>>
        /\ pc = "read"
    BY <1>3 DEF ReadBytes, loraVars
  <2>3. Len(dtmp') <= event'.size
    BY <2>1, <2>2 DEF Missing
  <2>4. UartTypes'
    BY <2>1, <2>2 DEF UartTypes
  <2>5. modem = "running"
    <3>1. ASSUME ring = <<>>
          PROVE  FALSE
      BY <1>3, <3>1, <2>1, EmptySeq DEF ReadBytes
    <3> QED
      BY <3>1
  <2> QED
    BY <1>0, <2>1, <2>2, <2>3, <2>4, <2>5
<1>4. CASE ChecksumError
  <2>1. /\ UNCHANGED <<line, part, fifo, ring, uart_queue, errors, modem, lora_queue>>
        /\ UNCHANGED <<loraPc, loraFrame, answered, modemResets>>
        /\ ToReceive /\ trouble' = trouble \cup {"crc"}
    BY <1>4 DEF ChecksumError, loraVars
  <2>2. UartTypes' /\ trouble' \subseteq Troubles
    BY <2>1 DEF UartTypes, Troubles
  <2> QED
    BY <1>0, <1>e, <2>1, <2>2
<1>5. CASE ChecksumOk
  <2>1. /\ UNCHANGED <<line, part, fifo, ring, uart_queue, errors, modem, event, dtmp, lora_queue>>
        /\ UNCHANGED <<loraPc, loraFrame, answered, modemResets>>
        /\ pc' = "forward" /\ trouble' \subseteq trouble \cup {"merged"}
    BY <1>5 DEF ChecksumOk, loraVars
  <2>2. UartTypes' /\ trouble' \subseteq Troubles
    BY <2>1 DEF UartTypes, Troubles
  <2> QED
    BY <1>0, <2>1, <2>2
<1>6. CASE Forward
  <2>1. /\ UNCHANGED <<line, part, fifo, ring, uart_queue, errors, trouble, modem>>
        /\ UNCHANGED <<loraPc, loraFrame, answered, modemResets>>
        /\ ToReceive /\ lora_queue' = Append(lora_queue, recvFrame)
        /\ Len(lora_queue) < BUF_LORA_SIZE
    BY <1>6 DEF Forward, HasPlace, uartVars, loraVars
  <2>2. recvFrame \in Frames
    <3>1. CASE dtmp = <<>>
      BY <3>1, UartAssumption DEF recvFrame, Frames
    <3>2. CASE dtmp # <<>>
      <4>1. dtmp[1] \in Piece
        BY <3>2, QueueTypes
      <4> QED
        BY <3>2, <4>1, UartAssumption DEF recvFrame, Frames, Piece
    <3> QED
      BY <3>1, <3>2
  <2>3. lora_queue' \in Seq(Frames) /\ Len(lora_queue') <= BUF_LORA_SIZE
    BY <2>1, <2>2, QueueTypes, LoraAssumption
  <2>4. UartTypes'
    BY <2>1 DEF UartTypes
  <2> QED
    BY <1>0, <1>e, <2>1, <2>3, <2>4
<1> QED
  BY <1>1, <1>2, <1>3, <1>4, <1>5, <1>6 DEF RxTask

LEMMA TypeRestart ==
    ASSUME TypeInv, LoraRestart
    PROVE  TypeInv'
<1>1. /\ UNCHANGED <<line, part, errors, answered, modemResets>>
      /\ fifo' = <<>> /\ ring' = <<>> /\ uart_queue' = <<>> /\ lora_queue' = <<>>
      /\ trouble' = trouble \cup {"restart"} /\ modem' = "configuring"
      /\ pc' = "receive" /\ event' = NoEvent /\ dtmp' = <<>>
      /\ loraPc' = "receive" /\ loraFrame' = 0
  BY DEF LoraRestart, uart_flush_input, xQueueReset, ToReceive
<1>2. /\ \A S : <<>> \in Seq(S)
      /\ Len(<<>>) = 0
  BY EmptySeq
<1>3. UartTypes'
  BY <1>1, <1>2, UartAssumption DEF TypeInv, UartTypes
<1> QED
  BY <1>1, <1>2, <1>3, NoEventType, UartAssumption, LoraAssumption
     DEF TypeInv, TypeOK, Troubles, Frames

LEMMA TypeLora ==
    ASSUME TypeInv, LoraTask, ~LoraRestart
    PROVE  TypeInv'
<1> USE DEF TypeInv, TypeOK
<1>1. /\ UNCHANGED <<line, part, fifo, ring, uart_queue, errors, modem, pc, event, dtmp>>
      /\ trouble' \subseteq trouble \cup {"cipher"} /\ trouble' \subseteq Troubles
  BY DEF LoraTask, LoraReceive, LoraAnswer, LoraCipherError, LoraResetModem, LoraIgnore, Handled,
         uartVars, rxVars, Troubles
<1>2. UartTypes'
  BY <1>1 DEF UartTypes
<1>3. CASE LoraReceive
  <2>1. /\ Head(lora_queue) \in Frames /\ Tail(lora_queue) \in Seq(Frames)
        /\ Len(Tail(lora_queue)) = Len(lora_queue) - 1 /\ Len(lora_queue) \in Nat
    BY <1>3, QueueTypes DEF LoraReceive
  <2>2. /\ loraFrame' = Head(lora_queue) /\ lora_queue' = Tail(lora_queue)
        /\ loraPc' = "handle" /\ UNCHANGED <<answered, modemResets>>
    BY <1>3 DEF LoraReceive
  <2>3. Len(lora_queue') <= BUF_LORA_SIZE
    BY <2>1, <2>2, LoraAssumption
  <2> QED
    BY <1>1, <1>2, <2>1, <2>2, <2>3
<1>4. CASE LoraAnswer \/ LoraCipherError \/ LoraResetModem \/ LoraIgnore
  <2>1. loraPc' = "receive" /\ loraFrame' = 0 /\ 0 \in Frames /\ lora_queue' = lora_queue
    BY <1>4, UartAssumption DEF LoraAnswer, LoraCipherError, LoraResetModem, LoraIgnore, Handled, Frames
  <2>2. answered' \in Seq(1 .. MaxFrames)
    <3>1. CASE LoraAnswer
      <4>1. loraFrame \in 1 .. MaxFrames /\ answered' = Append(answered, loraFrame)
        BY <3>1, UartAssumption DEF LoraAnswer, HandlesAs, Frames
      <4> QED
        BY <4>1, QueueTypes
    <3>2. CASE LoraCipherError \/ LoraResetModem \/ LoraIgnore
      BY <3>2 DEF LoraCipherError, LoraResetModem, LoraIgnore
    <3> QED
      BY <1>4, <3>1, <3>2
  <2>3. modemResets' \in Nat
    BY <1>4 DEF LoraAnswer, LoraCipherError, LoraResetModem, LoraIgnore
  <2> QED
    BY <1>1, <1>2, <2>1, <2>2, <2>3
<1> QED
  BY <1>3, <1>4 DEF LoraTask

LEMMA TypeStep == TypeInv /\ [Next]_vars => TypeInv'
<1> SUFFICES ASSUME TypeInv, [Next]_vars PROVE TypeInv'
  OBVIOUS
<1>1. CASE Idle \/ NotConfigured \/ UNCHANGED vars
  BY <1>1 DEF Idle, NotConfigured, vars, uartVars, rxVars, loraVars, TypeInv, TypeOK, UartTypes
<1>2. CASE Configured
  <2>1. /\ UNCHANGED <<line, part, fifo, ring, errors, pc, event, dtmp, lora_queue>>
        /\ UNCHANGED <<loraPc, loraFrame, answered, modemResets>>
        /\ modem' = "running"
    BY <1>2 DEF Configured, loraVars
  <2> QED
    BY <1>2, <2>1, ConfiguredTypes DEF TypeInv, TypeOK, UartTypes
<1> QED
  BY <1>1, <1>2, TypeRx, TypeRestart, TypeLora DEF Next, LoraTask

\* The state has its types: every queue keeps to its size, and uart_event_task never
\* reads more than its event announced.
THEOREM TypeCorrect == Spec => []TypeOK
<1>1. TypeInv => TypeOK
  BY DEF TypeInv
<1> QED
  BY <1>1, TypeInit, TypeStep, PTL DEF Spec

-----------------------------------------------------------------------------
(* The order of the frames *)

\* Frames keep their kinds, and what comes after a frame stays after it.
LEMMA RestStep ==
    ASSUME TypeInv, [Next]_vars
    PROVE  /\ \A f \in Frames : Rest(f) => Rest(f)'
           /\ Len(line) \in Nat /\ Len(line') \in Nat
           /\ \A i \in 1 .. Len(line) : i \in 1 .. Len(line') /\ line'[i] = line[i]
<1>l. Len(line) \in Nat /\ dtmp \in Seq(Piece)
  BY LenProperties DEF TypeInv, TypeOK
<1>f. \A f \in Frames : 2 * f + 2 \in Int
  BY UartAssumption DEF Frames
<1>1. CASE Driver
  <2>1. UartStep /\ dtmp' = dtmp
    BY <1>1 DEF Driver, UartStep, rxVars
  <2>2. /\ \A low \in Int, q \in Seq(Piece) :
              Stream(low, q, ring, fifo, NextPos) => Stream(low, q, ring', fifo', NextPos')
        /\ Len(line') \in Nat
        /\ \A i \in 1 .. Len(line) : i \in 1 .. Len(line') /\ line'[i] = line[i]
    BY <2>1, UartStepKeeps DEF TypeInv
  <2>3. ASSUME NEW f \in Frames, Rest(f)
        PROVE  Stream(2 * f + 2, dtmp', ring', fifo', NextPos')
    BY <1>l, <1>f, <2>1, <2>2, <2>3 DEF Rest
  <2> QED
    BY <1>l, <2>2, <2>3 DEF Rest
<1>2. CASE ReadBytes
  <2>1. /\ Readable \in 0 .. Len(ring) /\ ring \in Seq(Piece)
        /\ dtmp' = dtmp \o SubSeq(ring, 1, Readable)
        /\ ring' = SubSeq(ring, Readable + 1, Len(ring))
    BY <1>2, ReadTypes DEF TypeInv, TypeOK
  <2>2. UNCHANGED <<line, fifo>> /\ NextPos' = NextPos
    BY <1>2 DEF ReadBytes, NextPos
  <2>3. ASSUME NEW f \in Frames, Rest(f)
        PROVE  Stream(2 * f + 2, dtmp', ring', fifo', NextPos')
    BY <1>l, <2>1, <2>2, <2>3, StreamRead DEF Rest
  <2> QED
    BY <1>l, <2>2, <2>3 DEF Rest
<1>3. CASE ChecksumError \/ Forward
  <2>1. UNCHANGED <<line, fifo, ring>> /\ NextPos' = NextPos /\ dtmp' = <<>>
    BY <1>3 DEF ChecksumError, Forward, ToReceive, uartVars, NextPos
  <2>2. ASSUME NEW f \in Frames, Rest(f)
        PROVE  Stream(2 * f + 2, dtmp', ring', fifo', NextPos')
    BY <2>1, <2>2, StreamDone DEF Rest
  <2> QED
    BY <1>l, <2>1, <2>2 DEF Rest
<1>4. CASE UNCHANGED <<line, part, fifo, ring, dtmp>>
  BY <1>l, <1>4 DEF Rest, NextPos
<1>5. CASE Configured \/ NotConfigured \/ Idle \/ UNCHANGED vars
  BY <1>4, <1>5 DEF Configured, NotConfigured, Idle, vars, uartVars, rxVars
<1>6. CASE Receive \/ ChecksumOk
  BY <1>4, <1>6 DEF Receive, ChecksumOk
<1>7. CASE LoraTask /\ ~LoraRestart
  BY <1>4, <1>7 DEF LoraTask, LoraReceive, LoraAnswer, LoraCipherError, LoraResetModem,
                    LoraIgnore, Handled, uartVars, rxVars
<1>8. CASE LoraRestart
  <2>1. /\ UNCHANGED line /\ NextPos' = NextPos
        /\ dtmp' = <<>> /\ ring' = <<>> /\ fifo' = <<>>
    BY <1>8 DEF LoraRestart, uart_flush_input, ToReceive, NextPos
  <2>2. ASSUME NEW f \in Frames, Rest(f)
        PROVE  Stream(2 * f + 2, dtmp', ring', fifo', NextPos')
    <3>1. Stream(2 * f + 2, <<>>, ring, fifo, NextPos)
      BY <2>2, StreamDone DEF Rest
    <3>2. Stream(2 * f + 2, <<>>, <<>>, <<>>, NextPos)
      BY <3>1, StreamFlush
    <3> QED
      BY <2>1, <3>2
  <2> QED
    BY <1>l, <2>1, <2>2 DEF Rest
<1> QED
  BY <1>1, <1>2, <1>3, <1>5, <1>6, <1>7, <1>8 DEF Next, RxTask

\* The frame that has been read is one of those.
LEMMA RestBefore ==
    ASSUME TypeInv, NEW f \in Frames, Rest(f), recvFrame # 0
    PROVE  f < recvFrame
<1>1. dtmp # <<>> /\ recvFrame = dtmp[1].frame
  BY DEF recvFrame
<1>2. dtmp[1] \in Piece /\ dtmp[1] \in Range(dtmp)
  BY <1>1, QueueTypes, RangeOf DEF TypeInv, TypeOK
<1>3. 2 * f + 2 < Pos(dtmp[1])
  BY <1>2 DEF Rest, Stream
<1> QED
  BY <1>1, <1>2, <1>3, PieceType, UartAssumption DEF Pos, Frames

LEMMA FramesOf ==
    ASSUME TypeInv
    PROVE  /\ lora_queue \in Seq(Frames) /\ Len(lora_queue) \in Nat /\ Len(line) \in Nat
           /\ \A i \in 1 .. Len(lora_queue) : lora_queue[i] \in Frames
           /\ 0 \in Frames /\ loraFrame \in Frames /\ recvFrame \in Frames
           /\ \A f \in 1 .. Len(line) : f \in Frames
           /\ Frames \subseteq Nat
<1>1. lora_queue \in Seq(Frames) /\ line \in Seq(Kinds) /\ Len(line) <= MaxFrames
      /\ loraFrame \in Frames /\ dtmp \in Seq(Piece)
  BY DEF TypeInv, TypeOK
<1>2. 0 \in Frames /\ Frames \subseteq Nat
  BY UartAssumption DEF Frames
<1>3. Len(line) \in Nat /\ \A f \in 1 .. Len(line) : f \in Frames
  <2>1. Len(line) \in Nat
    BY <1>1, LenProperties
  <2> QED
    BY <1>1, <2>1, UartAssumption DEF Frames
<1>4. recvFrame \in Frames
  <2>1. CASE dtmp = <<>>
    BY <1>2, <2>1 DEF recvFrame
  <2>2. CASE dtmp # <<>>
    <3>1. dtmp[1] \in Piece
      BY <1>1, <2>2, QueueTypes
    <3> QED
      BY <2>2, <3>1, UartAssumption DEF recvFrame, Frames, Piece
  <2> QED
    BY <2>1, <2>2
<1> QED
  BY <1>1, <1>2, <1>3, <1>4, QueueTypes

\* What lora_queue becomes.
LEMMA LoraQueueStep ==
    ASSUME TypeInv, [Next]_vars
    PROVE  \/ UNCHANGED <<lora_queue, loraFrame>>
           \/ lora_queue' = lora_queue /\ loraFrame' = 0
           \/ lora_queue' = <<>> /\ loraFrame' = 0
           \/ Forward /\ lora_queue' = Append(lora_queue, recvFrame) /\ loraFrame' = loraFrame
           \/ /\ LoraReceive /\ lora_queue # <<>>
              /\ lora_queue' = Tail(lora_queue) /\ loraFrame' = Head(lora_queue)
<1>1. CASE Configured \/ NotConfigured \/ Idle \/ Driver \/ UNCHANGED vars
  BY <1>1 DEF Configured, NotConfigured, Idle, Driver, vars, loraVars
<1>2. CASE Receive \/ ReadBytes \/ ChecksumError \/ ChecksumOk
  BY <1>2 DEF Receive, ReadBytes, ChecksumError, ChecksumOk, loraVars
<1>3. CASE Forward
  BY <1>3 DEF Forward, loraVars
<1>4. CASE LoraReceive
  BY <1>4 DEF LoraReceive
<1>5. CASE LoraAnswer \/ LoraCipherError \/ LoraResetModem \/ LoraIgnore
  BY <1>5 DEF LoraAnswer, LoraCipherError, LoraResetModem, LoraIgnore, Handled
<1>6. CASE LoraRestart
  BY <1>6 DEF LoraRestart
<1> QED
  BY <1>1, <1>2, <1>3, <1>4, <1>5, <1>6 DEF Next, RxTask, LoraTask

LEMMA AheadStep ==
    ASSUME TypeInv, [Next]_vars
    PROVE  \A f \in Frames : (Ahead(f) => Ahead(f)') /\ (Over(f) => Over(f)')
<1> SUFFICES ASSUME NEW f \in Frames, Ahead(f)
             PROVE  Ahead(f)' /\ (Over(f) => Over(f)')
  BY DEF Over
<1>q. /\ lora_queue \in Seq(Frames) /\ Len(lora_queue) \in Nat
      /\ \A i \in 1 .. Len(lora_queue) : lora_queue[i] \in Frames
      /\ recvFrame \in Frames /\ Frames \subseteq Nat
  BY FramesOf
<1>r. Rest(f) /\ Rest(f)'
  BY RestStep DEF Ahead
<1>a. \A i \in 1 .. Len(lora_queue) : lora_queue[i] # 0 => f < lora_queue[i]
  BY DEF Ahead
<1>1. CASE UNCHANGED <<lora_queue, loraFrame>>
  BY <1>r, <1>a, <1>1 DEF Ahead, Over
<1>2. CASE lora_queue' = lora_queue /\ loraFrame' = 0
  BY <1>r, <1>a, <1>2 DEF Ahead, Over
<1>5. CASE lora_queue' = <<>> /\ loraFrame' = 0
  <2>1. Len(lora_queue') = 0
    BY <1>5, EmptySeq
  <2> QED
    BY <1>r, <1>5, <2>1 DEF Ahead, Over
<1>3. CASE lora_queue' = Append(lora_queue, recvFrame) /\ loraFrame' = loraFrame
  <2>1. recvFrame # 0 => f < recvFrame
    BY <1>r, RestBefore
  <2>2. /\ Len(lora_queue') = Len(lora_queue) + 1
        /\ \A i \in 1 .. Len(lora_queue') :
              lora_queue'[i] = IF i = Len(lora_queue) + 1 THEN recvFrame ELSE lora_queue[i]
    BY <1>q, <1>3, QueueTypes
  <2>3. \A i \in 1 .. Len(lora_queue') : lora_queue'[i] # 0 => f < lora_queue'[i]
    BY <1>q, <1>a, <2>1, <2>2
  <2> QED
    BY <1>r, <1>3, <2>3 DEF Ahead, Over
<1>4. CASE /\ lora_queue # <<>>
           /\ lora_queue' = Tail(lora_queue) /\ loraFrame' = Head(lora_queue)
  <2>1. /\ Head(lora_queue) = lora_queue[1] /\ 1 \in 1 .. Len(lora_queue)
        /\ \A i \in 1 .. Len(Tail(lora_queue)) :
              i + 1 \in 1 .. Len(lora_queue) /\ Tail(lora_queue)[i] = lora_queue[i + 1]
    BY <1>q, <1>4, QueueTypes
  <2>2. \A i \in 1 .. Len(lora_queue') : lora_queue'[i] # 0 => f < lora_queue'[i]
    BY <1>a, <1>4, <2>1
  <2> QED
    BY <1>r, <1>a, <1>4, <2>1, <2>2 DEF Ahead, Over
<1> QED
  BY <1>1, <1>2, <1>3, <1>4, <1>5, LoraQueueStep

\* A frame whose checksum holds has been read whole, by the order of its pieces.
LEMMA WholeFrame ==
    ASSUME TypeInv, Rest(0), CHECK_SUM_holds, dtmp # <<>>
    PROVE  /\ recvFrame \in 1 .. Len(line)
           /\ \E p \in Range(dtmp) : Pos(p) = 2 * recvFrame + 2
<1> DEFINE f == dtmp[1].frame
<1>1. /\ dtmp \in Seq(Piece) /\ DOMAIN dtmp = 1 .. Len(dtmp) /\ Len(dtmp) \in Nat
      /\ \A i \in DOMAIN dtmp : dtmp[i] \in Piece /\ dtmp[i] \in Range(dtmp)
      /\ 1 \in DOMAIN dtmp /\ recvFrame = f /\ Len(line) \in Nat
  <2>1. dtmp \in Seq(Piece) /\ line \in Seq(Kinds)
    BY DEF TypeInv, TypeOK
  <2>2. DOMAIN dtmp = 1 .. Len(dtmp) /\ Len(dtmp) \in Nat /\ Len(line) \in Nat
    BY <2>1, LenProperties
  <2>3. Range(dtmp) = {dtmp[i] : i \in 1 .. Len(dtmp)}
    BY <2>1, RangeOf
  <2> QED
    BY <2>1, <2>2, <2>3, QueueTypes DEF recvFrame
<1>2. \A i \in DOMAIN dtmp :
         /\ dtmp[i].frame \in Nat /\ dtmp[i].frame >= 1 /\ dtmp[i].part \in {1, 2}
         /\ Pos(dtmp[i]) < NextPos
  BY <1>1, PieceType DEF Rest, Stream
<1>3. f \in 1 .. Len(line)
  BY <1>1, <1>2 DEF Pos, NextPos
<1> HIDE DEF f
<1>4. 1 \in PiecesOf(f)
  BY <1>1 DEF PiecesOf, f
<1>5. Cardinality(PiecesOf(f)) = 2
  BY <1>3, <1>4 DEF CHECK_SUM_holds, FramesRead
<1>6. PICK j \in PiecesOf(f) : j # 1
  <2>1. ASSUME PiecesOf(f) = {1}
        PROVE  FALSE
    <3>1. Cardinality({1}) = 1
      BY FS_Singleton
    <3> QED
      BY <1>5, <2>1, <3>1
  <2> QED
    BY <1>4, <2>1
<1>7. j \in DOMAIN dtmp /\ dtmp[j].frame = f /\ dtmp[1].frame = f
  BY <1>6 DEF PiecesOf, f
<1>8. Pos(dtmp[1]) < Pos(dtmp[j])
  BY <1>1, <1>6, <1>7 DEF Rest, Stream, Ascending
<1>9. dtmp[j].part = 2
  BY <1>1, <1>2, <1>7, <1>8 DEF Pos
<1>10. Pos(dtmp[j]) = 2 * recvFrame + 2
  BY <1>1, <1>7, <1>9 DEF Pos
<1> QED
  BY <1>1, <1>3, <1>7, <1>10

LEMMA FlightInit == Init => FlightInv
<1> SUFFICES ASSUME Init PROVE FlightInv
  OBVIOUS
<1>1. Len(<<>>) = 0 /\ Range(<<>>) = {}
  BY EmptySeq, RangeOfShort
<1>2. /\ line = <<>> /\ part = 1 /\ fifo = <<>> /\ ring = <<>> /\ dtmp = <<>>
      /\ lora_queue = <<>> /\ loraFrame = 0
  BY DEF Init, UartInit
<1>3. NextPos = 3
  BY <1>1, <1>2 DEF NextPos
<1>4. Rest(0)
  BY <1>1, <1>2, <1>3, AscendingShort DEF Rest, Stream
<1> QED
  BY <1>1, <1>2, <1>4 DEF FlightInv

\* The frame that task uart_event_task has read stays as it is until it is forwarded.
LEMMA ForwardKept ==
    ASSUME TypeInv, FlightInv, [Next]_vars, pc' = "forward", dtmp' # <<>>
    PROVE  /\ recvFrame' \in 1 .. Len(line')
           /\ \E p \in Range(dtmp') : Pos(p) = 2 * recvFrame' + 2
<1>1. \A i \in 1 .. Len(line) : i \in 1 .. Len(line')
  BY RestStep
<1>2. ASSUME dtmp' = dtmp,
             recvFrame \in 1 .. Len(line) /\ \E p \in Range(dtmp) : Pos(p) = 2 * recvFrame + 2
      PROVE  /\ recvFrame' \in 1 .. Len(line')
             /\ \E p \in Range(dtmp') : Pos(p) = 2 * recvFrame' + 2
  <2>1. recvFrame' = recvFrame
    BY <1>2 DEF recvFrame
  <2> QED
    BY <1>1, <1>2, <2>1
<1>3. CASE ChecksumOk
  <2>1. dtmp' = dtmp /\ CHECK_SUM_holds
    BY <1>3 DEF ChecksumOk
  <2>2. recvFrame \in 1 .. Len(line) /\ \E p \in Range(dtmp) : Pos(p) = 2 * recvFrame + 2
    BY <2>1, WholeFrame DEF FlightInv
  <2> QED
    BY <1>2, <2>1, <2>2
<1>4. CASE UNCHANGED <<pc, dtmp>>
  BY <1>2, <1>4 DEF FlightInv
<1>5. CASE Configured \/ NotConfigured \/ Idle \/ Driver \/ UNCHANGED vars
  BY <1>4, <1>5 DEF Configured, NotConfigured, Idle, Driver, vars, rxVars
<1>6. CASE LoraTask /\ ~LoraRestart
  BY <1>4, <1>6 DEF LoraTask, LoraReceive, LoraAnswer, LoraCipherError, LoraResetModem, LoraIgnore,
                    Handled, rxVars
<1>7. ~Receive /\ ~ReadBytes /\ ~ChecksumError /\ ~Forward /\ ~LoraRestart
  BY DEF Receive, ReadBytes, ChecksumError, Forward, LoraRestart, ToReceive
<1> QED
  BY <1>3, <1>5, <1>6, <1>7 DEF Next, RxTask

LEMMA FlightStep == TypeInv /\ FlightInv /\ [Next]_vars => FlightInv'
<1> SUFFICES ASSUME TypeInv, FlightInv, [Next]_vars PROVE FlightInv'
  OBVIOUS
<1>q. /\ lora_queue \in Seq(Frames) /\ Len(lora_queue) \in Nat
      /\ \A i \in 1 .. Len(lora_queue) : lora_queue[i] \in Frames
      /\ 0 \in Frames /\ loraFrame \in Frames /\ recvFrame \in Frames
      /\ \A f \in 1 .. Len(line) : f \in Frames
      /\ Frames \subseteq Nat
  BY FramesOf
<1>r. /\ \A f \in Frames : Rest(f) => Rest(f)'
      /\ \A i \in 1 .. Len(line) : i \in 1 .. Len(line') /\ line'[i] = line[i]
  BY RestStep
<1>a. \A f \in Frames : Ahead(f) => Ahead(f)'
  BY AheadStep
<1>0. Rest(0)'
  BY <1>q, <1>r DEF FlightInv
\* The same with its primes spelled out.
<1>R. \A f \in Frames :
         Rest(f) => Stream(2 * f + 2, dtmp', ring', fifo', NextPos')
  BY <1>r DEF Rest
<1>f. \A i \in 1 .. Len(lora_queue) : lora_queue[i] # 0 =>
         /\ lora_queue[i] \in 1 .. Len(line)
         /\ Rest(lora_queue[i])
         /\ \A j \in 1 .. Len(lora_queue) :
               i < j /\ lora_queue[j] # 0 => lora_queue[i] < lora_queue[j]
  BY DEF FlightInv
<1>Q. \A i \in 1 .. Len(lora_queue') : lora_queue'[i] # 0 =>
         /\ lora_queue'[i] \in 1 .. Len(line')
         /\ Stream(2 * lora_queue'[i] + 2, dtmp', ring', fifo', NextPos')
         /\ \A j \in 1 .. Len(lora_queue') :
               i < j /\ lora_queue'[j] # 0 => lora_queue'[i] < lora_queue'[j]
  <2>1. CASE lora_queue' = lora_queue
    BY <1>q, <1>r, <1>R, <1>f, <2>1
  <2>2. CASE Forward /\ lora_queue' = Append(lora_queue, recvFrame)
    <3>1. /\ Len(lora_queue') = Len(lora_queue) + 1
          /\ \A i \in 1 .. Len(lora_queue') :
                lora_queue'[i] = IF i = Len(lora_queue) + 1 THEN recvFrame ELSE lora_queue[i]
      BY <1>q, <2>2, QueueTypes
    <3>2. ASSUME recvFrame # 0
          PROVE  /\ recvFrame \in 1 .. Len(line)
                 /\ Stream(2 * recvFrame + 2, dtmp', ring', fifo', NextPos')
      <4>1. /\ UNCHANGED <<ring, fifo>> /\ NextPos' = NextPos /\ dtmp' = <<>> /\ pc = "forward"
        BY <2>2 DEF Forward, ToReceive, uartVars, NextPos
      <4>2. recvFrame \in 1 .. Len(line) /\ \E p \in Range(dtmp) : Pos(p) = 2 * recvFrame + 2
        BY <3>2, <4>1 DEF FlightInv, recvFrame
      <4>3. Stream(2 * recvFrame + 2, <<>>, ring, fifo, NextPos)
        BY <4>2, StreamDone DEF FlightInv, Rest
      <4> QED
        BY <4>1, <4>2, <4>3
    <3>3. \A i \in 1 .. Len(lora_queue) :
             lora_queue[i] # 0 /\ recvFrame # 0 => lora_queue[i] < recvFrame
      BY <1>q, <1>f, RestBefore
    <3>4. ASSUME NEW i \in 1 .. Len(lora_queue'), lora_queue'[i] # 0
          PROVE  /\ lora_queue'[i] \in 1 .. Len(line')
                 /\ Stream(2 * lora_queue'[i] + 2, dtmp', ring', fifo', NextPos')
                 /\ \A j \in 1 .. Len(lora_queue') :
                       i < j /\ lora_queue'[j] # 0 => lora_queue'[i] < lora_queue'[j]
      <4>1. CASE i = Len(lora_queue) + 1
        BY <1>q, <1>r, <3>1, <3>2, <3>4, <4>1
      <4>2. CASE i # Len(lora_queue) + 1
        <5>1. i \in 1 .. Len(lora_queue) /\ lora_queue'[i] = lora_queue[i]
          BY <1>q, <3>1, <4>2
        <5>2. ASSUME NEW j \in 1 .. Len(lora_queue'), i < j, lora_queue'[j] # 0
              PROVE  lora_queue'[i] < lora_queue'[j]
          <6>1. CASE j = Len(lora_queue) + 1
            BY <3>1, <3>3, <3>4, <5>1, <5>2, <6>1
          <6>2. CASE j # Len(lora_queue) + 1
            BY <1>q, <1>f, <3>1, <3>4, <5>1, <5>2, <6>2
          <6> QED
            BY <6>1, <6>2
        <5> QED
          BY <1>q, <1>r, <1>R, <1>f, <3>4, <5>1, <5>2
      <4> QED
        BY <4>1, <4>2
    <3> QED
      BY <3>4
  <2>3. CASE lora_queue # <<>> /\ lora_queue' = Tail(lora_queue)
    <3>1. /\ \A i \in 1 .. Len(lora_queue') :
                i + 1 \in 1 .. Len(lora_queue) /\ lora_queue'[i] = lora_queue[i + 1]
          /\ Len(lora_queue') \in Nat
      BY <1>q, <2>3, QueueTypes
    <3>2. \A i, j \in 1 .. Len(lora_queue') : i < j => i + 1 < j + 1
      BY <3>1
    <3> QED
      BY <1>q, <1>r, <1>R, <1>f, <3>1, <3>2
  <2>4. CASE lora_queue' = <<>>
    <3>1. Len(lora_queue') = 0
      BY <2>4, EmptySeq
    <3> QED
      BY <3>1
  <2> QED
    BY <2>1, <2>2, <2>3, <2>4, LoraQueueStep
<1>L. ASSUME loraFrame' # 0
      PROVE  loraFrame' \in 1 .. Len(line') /\ Ahead(loraFrame)'
  <2>1. CASE loraFrame' = loraFrame
    <3>1. loraFrame \in 1 .. Len(line) /\ Ahead(loraFrame)
      BY <1>L, <2>1 DEF FlightInv
    <3> QED
      BY <1>q, <1>r, <1>a, <2>1, <3>1 DEF Ahead, Rest
  <2>2. CASE lora_queue # <<>> /\ lora_queue' = Tail(lora_queue) /\ loraFrame' = Head(lora_queue)
    <3>1. /\ Head(lora_queue) = lora_queue[1] /\ 1 \in 1 .. Len(lora_queue)
          /\ \A i \in 1 .. Len(lora_queue') :
                i + 1 \in 1 .. Len(lora_queue) /\ lora_queue'[i] = lora_queue[i + 1]
          /\ Len(lora_queue') \in Nat
      BY <1>q, <2>2, QueueTypes
    <3>2. loraFrame' = lora_queue[1]
      BY <2>2, <3>1
    <3>3. /\ lora_queue[1] \in 1 .. Len(line) /\ lora_queue[1] \in Frames
          /\ Stream(2 * lora_queue[1] + 2, dtmp', ring', fifo', NextPos')
      BY <1>L, <1>q, <1>R, <1>f, <3>1, <3>2
    <3>4. \A i \in 1 .. Len(lora_queue') : lora_queue'[i] # 0 => lora_queue[1] < lora_queue'[i]
      <4>1. \A i \in 1 .. Len(lora_queue') : 1 < i + 1
        BY <3>1
      <4> QED
        BY <1>L, <1>f, <3>1, <3>2, <4>1
    <3>5. Ahead(loraFrame)'
      BY <3>2, <3>3, <3>4 DEF Ahead, Rest
    <3> QED
      BY <1>r, <3>2, <3>3, <3>5
  <2> QED
    BY <1>L, <2>1, <2>2, LoraQueueStep
<1> QED
  BY <1>0, <1>Q, <1>L, ForwardKept DEF FlightInv, Rest

-----------------------------------------------------------------------------
(* Answers and resets *)

\* What a task_lora that is done with a frame leaves: only later frames.
LEMMA HandledIsOver ==
    ASSUME TypeInv, FlightInv, [Next]_vars, Handled, loraFrame # 0
    PROVE  loraFrame \in 1 .. Len(line) /\ \A f \in Frames : f = loraFrame => Over(f)'
<1>1. loraFrame \in 1 .. Len(line) /\ Ahead(loraFrame)
  BY DEF FlightInv
<1>2. loraFrame' = 0
  BY DEF Handled
<1>3. ASSUME NEW f \in Frames, f = loraFrame
      PROVE  Over(f)'
  <2>1. Ahead(f)
    BY <1>1, <1>3
  <2>2. Ahead(f)'
    BY <2>1, AheadStep
  <2> QED
    BY <1>2, <2>2 DEF Over
<1> QED
  BY <1>1, <1>3

LEMMA AnswerInit == Init => AnswerInv
<1> SUFFICES ASSUME Init PROVE AnswerInv
  OBVIOUS
<1>1. answered = <<>> /\ DOMAIN answered = {}
  BY EmptySeq DEF Init
<1> QED
  BY <1>1 DEF AnswerInv, AnswersOnceInOrder

LEMMA AnswerStep == TypeInv /\ FlightInv /\ AnswerInv /\ [Next]_vars => AnswerInv'
<1> SUFFICES ASSUME TypeInv, FlightInv, AnswerInv, [Next]_vars PROVE AnswerInv'
  OBVIOUS
<1>t. /\ answered \in Seq(1 .. MaxFrames) /\ Len(answered) \in Nat
      /\ DOMAIN answered = 1 .. Len(answered)
  BY LenProperties DEF TypeInv, TypeOK
<1>q. Frames \subseteq Nat /\ \A f \in 1 .. Len(line) : f \in Frames
  BY FramesOf
<1>l. \A i \in 1 .. Len(line) : i \in 1 .. Len(line') /\ line'[i] = line[i]
  BY RestStep
<1>a. \A i \in DOMAIN answered :
         /\ answered[i] \in 1 .. Len(line) /\ answered[i] \in Frames
         /\ Over(answered[i]) /\ line[answered[i]] = "package"
         /\ \A j \in DOMAIN answered : i < j => answered[i] < answered[j]
  BY <1>q DEF AnswerInv, AnswersOnceInOrder
<1>o. \A f \in Frames : Over(f) => Over(f)'
  BY AheadStep DEF Over
<1>1. CASE answered' = answered
  <2>1. ASSUME NEW i \in DOMAIN answered'
        PROVE  /\ answered'[i] \in 1 .. Len(line') /\ Over(answered[i])'
               /\ line'[answered'[i]] = "package"
               /\ \A j \in DOMAIN answered' : i < j => answered'[i] < answered'[j]
    <3>1. i \in DOMAIN answered /\ answered'[i] = answered[i]
      BY <1>1, <2>1
    <3>2. \A f \in Frames : f = answered[i] => Over(f)'
      BY <1>a, <1>o, <3>1
    <3>3. Over(answered[i])'
      BY <1>a, <1>1, <3>1, <3>2 DEF Over, Ahead, Rest
    <3> QED
      BY <1>1, <1>a, <1>l, <3>1, <3>3
  <2> QED
    BY <2>1 DEF AnswerInv, AnswersOnceInOrder
<1>2. CASE LoraAnswer
  <2>1. /\ loraFrame # 0 /\ line[loraFrame] = "package" /\ Handled
        /\ answered' = Append(answered, loraFrame)
    BY <1>2 DEF LoraAnswer, HandlesAs
  <2>2. loraFrame \in 1 .. Len(line) /\ \A f \in Frames : f = loraFrame => Over(f)'
    BY <2>1, HandledIsOver
  <2>3. loraFrame \in 1 .. MaxFrames
    BY <1>q, <2>2, UartAssumption DEF Frames
  <2>4. /\ Len(answered') = Len(answered) + 1 /\ DOMAIN answered' = 1 .. Len(answered')
        /\ \A i \in 1 .. Len(answered') :
              answered'[i] = IF i = Len(answered) + 1 THEN loraFrame ELSE answered[i]
    BY <1>t, <2>1, <2>3, QueueTypes, LenProperties
  <2>5. \A i \in DOMAIN answered : answered[i] < loraFrame
    BY <1>a, <2>1 DEF Over
  <2>6. ASSUME NEW i \in DOMAIN answered'
        PROVE  /\ answered'[i] \in 1 .. Len(line') /\ answered'[i] \in Frames
               /\ \A f \in Frames : f = answered'[i] => Over(f)'
               /\ line'[answered'[i]] = "package"
               /\ \A j \in DOMAIN answered' : i < j => answered'[i] < answered'[j]
    <3>1. CASE i = Len(answered) + 1
      BY <1>t, <1>q, <1>l, <2>1, <2>2, <2>4, <3>1
    <3>2. CASE i # Len(answered) + 1
      <4>1. i \in DOMAIN answered /\ answered'[i] = answered[i]
        BY <1>t, <2>4, <3>2
      <4>2. ASSUME NEW j \in DOMAIN answered', i < j
            PROVE  answered'[i] < answered'[j]
        <5>1. CASE j = Len(answered) + 1
          BY <2>4, <2>5, <4>1, <5>1
        <5>2. CASE j # Len(answered) + 1
          BY <1>t, <1>a, <2>4, <4>1, <4>2, <5>2
        <5> QED
          BY <5>1, <5>2
      <4>3. \A f \in Frames : f = answered[i] => Over(f)'
        BY <1>a, <1>o, <4>1
      <4> QED
        BY <1>a, <1>l, <4>1, <4>2, <4>3
    <3> QED
      BY <3>1, <3>2
  <2>7. \A i \in DOMAIN answered' : Over(answered[i])'
    BY <2>6 DEF Over, Ahead, Rest
  <2> QED
    BY <2>6, <2>7 DEF AnswerInv, AnswersOnceInOrder
<1>3. ~LoraAnswer => answered' = answered
  <2>1. CASE Configured \/ NotConfigured \/ Idle \/ Driver \/ UNCHANGED vars
    BY <2>1 DEF Configured, NotConfigured, Idle, Driver, vars, loraVars
  <2>2. CASE RxTask
    BY <2>2 DEF RxTask, Receive, ReadBytes, ChecksumError, ChecksumOk, Forward, loraVars
  <2>3. CASE LoraTask
    BY <2>3 DEF LoraTask, LoraReceive, LoraCipherError, LoraRestart, LoraResetModem, LoraIgnore
  <2> QED
    BY <2>1, <2>2, <2>3 DEF Next
<1> QED
  BY <1>1, <1>2, <1>3

\* A package is answered once at most and never after a later one, and the LoRa task
\* answers nothing else, whatever events tear, merge or leave without bytes.
THEOREM AnswersInOrder == Spec => []AnswersOnceInOrder
<1>1. Init => TypeInv /\ FlightInv /\ AnswerInv
  BY TypeInit, FlightInit, AnswerInit
<1>2. TypeInv /\ FlightInv /\ AnswerInv /\ [Next]_vars => (TypeInv /\ FlightInv /\ AnswerInv)'
  BY TypeStep, FlightStep, AnswerStep
<1>3. AnswerInv => AnswersOnceInOrder
  BY DEF AnswerInv
<1> QED
  BY <1>1, <1>2, <1>3, PTL DEF Spec

LEMMA ResetStep == TypeInv /\ FlightInv /\ ResetInv /\ [Next]_vars => ResetInv'
<1> SUFFICES ASSUME TypeInv, FlightInv, ResetInv, [Next]_vars PROVE ResetInv'
  OBVIOUS
<1>1. PICK R \in SUBSET AckErrors : Cardinality(R) = modemResets /\ \A f \in R : Over(f)
  BY DEF ResetInv
<1>t. /\ Len(line) \in Nat /\ DOMAIN line = 1 .. Len(line)
      /\ Len(line') \in Nat /\ DOMAIN line' = 1 .. Len(line')
  <2>1. TypeInv'
    BY TypeStep
  <2> QED
    BY <2>1, LenProperties DEF TypeInv, UartTypes
<1>l. \A i \in 1 .. Len(line) : i \in 1 .. Len(line') /\ line'[i] = line[i]
  BY RestStep
<1>e. AckErrors \subseteq AckErrors' /\ AckErrors \subseteq Frames
  BY <1>t, <1>l, FramesOf DEF AckErrors
<1>o. \A f \in R : Over(f)'
  BY <1>1, <1>e, AheadStep
<1>2. CASE modemResets' = modemResets
  <2>1. R \in SUBSET AckErrors' /\ Cardinality(R) = modemResets'
    BY <1>1, <1>2, <1>e
  <2> QED
    BY <1>o, <2>1 DEF ResetInv
<1>3. CASE LoraResetModem
  <2> DEFINE S == R \cup {loraFrame}
  <2>1. loraFrame # 0 /\ line[loraFrame] = "ack_error" /\ Handled /\ modemResets' = modemResets + 1
    BY <1>3 DEF LoraResetModem, HandlesAs
  <2>2. loraFrame \in 1 .. Len(line) /\ \A f \in Frames : f = loraFrame => Over(f)'
    BY <2>1, HandledIsOver
  <2>3. loraFrame \in AckErrors
    BY <1>t, <2>1, <2>2 DEF AckErrors
  <2>4. loraFrame \notin R
    <3>1. \A f \in R : f < loraFrame /\ f \in Nat
      BY <1>1, <1>e, <2>1, FramesOf DEF Over
    <3> QED
      BY <3>1
  <2>5. IsFiniteSet(R)
    <3>1. IsFiniteSet(1 .. Len(line)) /\ R \subseteq 1 .. Len(line)
      BY <1>t, FS_Interval DEF AckErrors
    <3> QED
      BY <3>1, FS_Subset
  <2>6. Cardinality(S) = modemResets'
    BY <1>1, <2>1, <2>4, <2>5, FS_AddElement
  <2>7. S \in SUBSET AckErrors'
    BY <1>e, <2>3
  <2>8. \A f \in S : Over(f)'
    BY <1>e, <1>o, <2>2, <2>3
  <2> HIDE DEF S
  <2> QED
    BY <2>6, <2>7, <2>8 DEF ResetInv
<1>4. ~LoraResetModem => modemResets' = modemResets
  <2>1. CASE Configured \/ NotConfigured \/ Idle \/ Driver \/ UNCHANGED vars
    BY <2>1 DEF Configured, NotConfigured, Idle, Driver, vars, loraVars
  <2>2. CASE RxTask
    BY <2>2 DEF RxTask, Receive, ReadBytes, ChecksumError, ChecksumOk, Forward, loraVars
  <2>3. CASE LoraTask
    BY <2>3 DEF LoraTask, LoraReceive, LoraAnswer, LoraCipherError, LoraRestart, LoraIgnore
  <2> QED
    BY <2>1, <2>2, <2>3 DEF Next
<1> QED
  BY <1>2, <1>3, <1>4

\* The modem is reset only for an acknowledgement that asks for it, once for each.
THEOREM ResetsAnswerAcks == Spec => []ResetsAreAsked
<1>1. Init => ResetInv
  <2> SUFFICES ASSUME Init PROVE ResetInv
    OBVIOUS
  <2>1. modemResets = 0 /\ Cardinality({}) = 0
    BY FS_EmptySet DEF Init
  <2> QED
    BY <2>1 DEF ResetInv
<1>2. TypeInv /\ ResetInv => ResetsAreAsked
  <2> SUFFICES ASSUME TypeInv, ResetInv PROVE ResetsAreAsked
    OBVIOUS
  <2>1. PICK R \in SUBSET AckErrors : Cardinality(R) = modemResets
    BY DEF ResetInv
  <2>2. IsFiniteSet(AckErrors)
    <3>1. Len(line) \in Nat /\ DOMAIN line = 1 .. Len(line)
      BY LenProperties DEF TypeInv, TypeOK
    <3>2. IsFiniteSet(1 .. Len(line)) /\ AckErrors \subseteq 1 .. Len(line)
      BY <3>1, FS_Interval DEF AckErrors
    <3> QED
      BY <3>2, FS_Subset
  <2>3. Cardinality(R) <= Cardinality(AckErrors)
    BY <2>1, <2>2, FS_Subset
  <2> QED
    BY <2>1, <2>3 DEF ResetsAreAsked, AckErrors
<1> QED
  BY <1>1, <1>2, TypeInit, TypeStep, FlightInit, FlightStep, ResetStep, PTL DEF Spec

-----------------------------------------------------------------------------
(* Events and their bytes *)

LEMMA BytesStep == TypeInv /\ NothingLeftBehind /\ [Next]_vars => NothingLeftBehind'
<1> SUFFICES ASSUME TypeInv, NothingLeftBehind, [Next]_vars, "dropped" \notin trouble'
             PROVE  Len(ring') <= Announced(uart_queue') + Missing'
  BY DEF NothingLeftBehind
<1>t. /\ uart_queue \in Seq(Event) /\ Announced(uart_queue) \in Nat
      /\ Missing \in Nat /\ Len(ring) \in Nat
  BY AnnouncedType, ReadTypes DEF TypeInv, UartTypes
<1>n. /\ uart_queue' \in Seq(Event) /\ Announced(uart_queue') \in Nat
      /\ Missing' \in Nat /\ Len(ring') \in Nat
  <2>1. TypeInv'
    BY TypeStep
  <2>2. Len(ring') \in Nat /\ Announced(uart_queue') \in Nat /\ uart_queue' \in Seq(Event)
    BY <2>1, AnnouncedType, LenProperties DEF TypeInv, UartTypes
  <2>3. event'.size \in Nat /\ Len(dtmp') \in Nat /\ Len(dtmp') <= event'.size
    BY <2>1, EventType, LenProperties DEF TypeInv, TypeOK
  <2> QED
    BY <2>2, <2>3 DEF Missing
<1>p. "dropped" \notin trouble => Len(ring) <= Announced(uart_queue) + Missing
  BY DEF NothingLeftBehind
<1>1. CASE UNCHANGED <<ring, uart_queue, pc, event, dtmp>> /\ trouble \subseteq trouble'
  BY <1>1, <1>p DEF Missing
<1>2. CASE NotConfigured \/ Idle \/ UNCHANGED vars \/ (LoraTask /\ ~LoraRestart)
  BY <1>1, <1>2 DEF NotConfigured, Idle, LoraTask, LoraReceive, LoraAnswer, LoraCipherError,
                    LoraResetModem, LoraIgnore, Handled, vars, uartVars, rxVars
<1>3. CASE Configured \/ LoraRestart
  <2>1. ring' = <<>> /\ Len(ring') = 0
    BY <1>3, EmptySeq DEF Configured, LoraRestart, uart_flush_input, TypeInv
  <2> QED
    BY <1>n, <2>1
<1>4. CASE Driver
  <2>1. UartStep /\ UNCHANGED <<pc, event, dtmp>>
    BY <1>4 DEF Driver, UartStep, rxVars
  <2>2. /\ trouble \subseteq trouble'
        /\ \E n \in Nat :
              /\ Len(ring') = Len(ring) + n
              /\ \/ Announced(uart_queue') = Announced(uart_queue) + n
                 \/ Announced(uart_queue') = Announced(uart_queue) /\ "dropped" \in trouble'
    BY <2>1, UartStepKeeps DEF TypeInv
  <2>3. Missing' = Missing
    BY <2>1 DEF Missing
  <2> QED
    BY <1>t, <1>p, <2>2, <2>3
<1>5. CASE Receive
  <2>1. /\ uart_queue # <<>> /\ uart_queue' = Tail(uart_queue) /\ pc = "receive"
        /\ IF Head(uart_queue).type = "UART_DATA"
             THEN pc' = "read" /\ event' = Head(uart_queue)
             ELSE UNCHANGED <<pc, event>>
        /\ UNCHANGED <<ring, trouble, dtmp>>
    BY <1>5 DEF Receive
  <2>2. /\ Announced(uart_queue) = Announced(uart_queue') + Head(uart_queue).size
        /\ Head(uart_queue) \in SizedEvent /\ Head(uart_queue) \in Event
    BY <1>t, <2>1, AnnouncedTail, QueueTypes DEF TypeInv, UartTypes
  <2>3. Missing = 0 /\ Len(dtmp') = 0
    BY <2>1, EmptySeq DEF Missing, TypeInv
  <2>4. Head(uart_queue).size \in Nat
    BY <2>2, EventType
  <2>5. Missing' = Head(uart_queue).size
    <3>1. CASE Head(uart_queue).type = "UART_DATA"
      BY <2>1, <2>3, <2>4, <3>1 DEF Missing
    <3>2. CASE Head(uart_queue).type # "UART_DATA"
      <4>1. Head(uart_queue).size = 0
        BY <2>2, <3>2 DEF SizedEvent
      <4> QED
        BY <2>1, <3>2, <4>1 DEF Missing
    <3> QED
      BY <3>1, <3>2
  <2> QED
    BY <1>t, <1>n, <1>p, <2>1, <2>2, <2>3, <2>4, <2>5
<1>6. CASE ReadBytes
  <2>1. Len(ring') = Len(ring) - Readable /\ Missing' = Missing - Readable /\ Readable \in Nat
    BY <1>6, ReadTypes
  <2>2. UNCHANGED <<uart_queue, trouble>>
    BY <1>6 DEF ReadBytes
  <2> QED
    BY <1>t, <1>p, <2>1, <2>2
<1>7. CASE ChecksumError \/ ChecksumOk
  <2>1. /\ UNCHANGED <<ring, uart_queue>> /\ trouble \subseteq trouble'
        /\ Missing = 0 \/ ring = <<>>
        /\ pc' # "read"
    BY <1>7 DEF ChecksumError, ChecksumOk, HaveRead, ToReceive
  <2>2. Missing' = 0
    BY <2>1 DEF Missing
  <2>3. CASE Missing = 0
    BY <1>p, <2>1, <2>2, <2>3
  <2>4. CASE ring = <<>>
    <3>1. Len(ring') = 0
      BY <2>1, <2>4, EmptySeq
    <3> QED
      BY <1>n, <2>2, <3>1
  <2> QED
    BY <2>1, <2>3, <2>4
<1>8. CASE Forward
  <2>1. /\ UNCHANGED <<ring, uart_queue, trouble>>
        /\ pc = "forward" /\ pc' = "receive"
    BY <1>8 DEF Forward, ToReceive, uartVars
  <2>2. Missing = 0 /\ Missing' = 0
    BY <2>1 DEF Missing
  <2> QED
    BY <1>p, <2>1, <2>2
<1> QED
  BY <1>2, <1>3, <1>4, <1>5, <1>6, <1>7, <1>8 DEF Next, RxTask

\* The ring holds only bytes that queued events announce or that the task waits for,
\* unless the queue of events was full: nothing would ever read or flush others.
THEOREM NoBytesAlone == Spec => []NothingLeftBehind
<1>1. Init => NothingLeftBehind
  <2> SUFFICES ASSUME Init PROVE NothingLeftBehind
    OBVIOUS
  <2>1. Announced(uart_queue) = 0 /\ Missing = 0 /\ Len(ring) = 0
    BY AnnouncedNone, EmptySeq DEF Init, UartInit, Missing
  <2> QED
    BY <2>1 DEF NothingLeftBehind
<1> QED
  BY <1>1, TypeInit, TypeStep, BytesStep, PTL DEF Spec
=============================================================================
