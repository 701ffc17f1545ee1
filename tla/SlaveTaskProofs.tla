--------------------------- MODULE SlaveTaskProofs ---------------------------
(***************************************************************************)
(* Theorems about SlaveTask, for any number of frames, any sizes of the    *)
(* FIFO and the queue of events and any number of errors:                  *)
(*   TypeCorrect       the state has its types;                            *)
(*   AnswersInOrder    no request is answered twice, after a later one, or *)
(*                     without being a whole request for this node;        *)
(*   NoEventIsAlone    the task waits for bytes that are gone only after a *)
(*                     CRC error.                                          *)
(***************************************************************************)
EXTENDS SlaveTask, UartProofs

-----------------------------------------------------------------------------
(* The inductive invariants *)

TypeInv ==
    /\ TypeOK
    /\ UartTypes
    /\ pc # "read" => received_buffer = <<>> /\ event.size = 0

\* The frame that was answered last.
LastAnswered == IF answered = <<>> THEN 0 ELSE answered[Len(answered)]

\* What has been read, what waits in the ring buffer and what waits in the FIFO
\* are in order, behind the last frame that was answered.
AnswerInv ==
    /\ AnswersOnceInOrder
    /\ LastAnswered \in 0 .. Len(line)
    /\ Stream(2 * LastAnswered + 2, received_buffer, ring, fifo, NextPos)

-----------------------------------------------------------------------------
(* Types *)

LEMMA NoEventType == NoEvent \in Event /\ NoEvent.size = 0
  BY DEF NoEvent, Event

LEMMA EmptyQueue ==
    ASSUME uart_queue' = <<>>
    PROVE  /\ uart_queue' \in Seq(Event) /\ uart_queue' \in Seq(SizedEvent)
           /\ Len(uart_queue') <= EVENT_QUEUE /\ Announced(uart_queue') = 0
  BY EmptySeq, AnnouncedNone, UartAssumption

LEMMA EmptyBuffers ==
    ASSUME uart_flush_input
    PROVE  /\ ring' \in Seq(Piece) /\ fifo' \in Seq(Piece)
           /\ Len(ring') = 0 /\ Len(fifo') <= FIFO
  BY EmptySeq, UartAssumption DEF uart_flush_input

LEMMA TypeInit == Init => TypeInv
<1> SUFFICES ASSUME Init PROVE TypeInv
  OBVIOUS
<1>1. /\ \A S : <<>> \in Seq(S)
      /\ Len(<<>>) = 0
  BY EmptySeq
<1> QED
  BY <1>1, NoEventType, UartAssumption
     DEF Init, UartInit, TypeInv, TypeOK, UartTypeOK, UartTypes

LEMMA TypeDriver == TypeInv /\ Driver => TypeInv'
<1> SUFFICES ASSUME TypeInv, Driver PROVE TypeInv'
  OBVIOUS
<1>1. UartStep /\ UNCHANGED <<pc, event, received_buffer, answered>>
  BY DEF Driver, UartStep, taskVars
<1>2. /\ UartTypes'
      /\ Len(fifo) <= FIFO => Len(fifo') <= FIFO
      /\ trouble' \subseteq trouble \cup {"dropped"}
  BY <1>1, UartStepKeeps DEF TypeInv
<1>3. UartTypeOK'
  BY <1>2 DEF TypeInv, TypeOK, UartTypeOK, UartTypes
<1> QED
  BY <1>1, <1>2, <1>3 DEF TypeInv, TypeOK

\* How much the task reads at once.
LEMMA ReadableType ==
    ASSUME TypeInv
    PROVE  /\ Missing \in Nat /\ Readable \in 0 .. Len(ring) /\ Readable <= Missing
           /\ Len(ring) \in Nat /\ Len(received_buffer) \in Nat /\ event.size \in Nat
<1>1. /\ Len(ring) \in Nat /\ Len(received_buffer) \in Nat /\ event.size \in Nat
      /\ Len(received_buffer) <= event.size
  BY LenProperties, EventType DEF TypeInv, TypeOK, UartTypeOK
<1> QED
  BY <1>1 DEF Missing, Readable

\* Readable pieces move from the ring buffer to the task.
LEMMA ReadTypes ==
    ASSUME TypeInv, ReadBytes
    PROVE  /\ ring' \in Seq(Piece) /\ received_buffer' \in Seq(Piece)
           /\ Len(ring') = Len(ring) - Readable
           /\ Len(received_buffer') = Len(received_buffer) + Readable
           /\ Missing' = Missing - Readable
<1>1. ring \in Seq(Piece) /\ received_buffer \in Seq(Piece)
  BY DEF TypeInv, TypeOK, UartTypeOK
<1>2. /\ received_buffer' = received_buffer \o SubSeq(ring, 1, Readable) /\ event' = event
      /\ ring' = SubSeq(ring, Readable + 1, Len(ring))
  BY DEF ReadBytes
<1>3. /\ Readable \in 0 .. Len(ring) /\ Len(ring) \in Nat /\ Len(received_buffer) \in Nat
      /\ event.size \in Nat
  BY ReadableType
<1>4. /\ ring' \in Seq(Piece) /\ received_buffer' \in Seq(Piece)
      /\ Len(ring') = Len(ring) - Readable
      /\ Len(received_buffer') = Len(received_buffer) + Readable
  BY <1>1, <1>2, <1>3, ReadMoves
<1> QED
  BY <1>2, <1>3, <1>4 DEF Missing

\* A frame whose CRC holds has arrived whole.
LEMMA WholeFrame ==
    ASSUME TypeInv, CrcHolds
    PROVE  /\ received_buffer[1].frame \in 1 .. Len(line)
           /\ LET f == received_buffer[1].frame
              IN \E p \in Range(received_buffer) : Pos(p) = 2 * f + 2
<1>1. PICK f \in 1 .. Len(line) :
         received_buffer = <<[frame |-> f, part |-> 1], [frame |-> f, part |-> 2]>>
  BY DEF CrcHolds
<1>2. received_buffer[1].frame = f
  BY <1>1
<1> DEFINE p == [frame |-> f, part |-> 2]
<1>3. p = received_buffer[2] /\ 2 \in DOMAIN received_buffer
  BY <1>1
<1>4. p \in Range(received_buffer) /\ Pos(p) = 2 * f + 2
  BY <1>3 DEF Range, Pos
<1> QED
  BY <1>2, <1>4

LEMMA TypeTask == TypeInv /\ (Task \/ Watchdog) => TypeInv'
<1> SUFFICES ASSUME TypeInv, Task \/ Watchdog PROVE TypeInv'
  OBVIOUS
<1> USE DEF TypeInv, TypeOK, UartTypeOK
<1>e. ASSUME ToReceive
      PROVE  /\ pc' = "receive" /\ event' \in Event /\ event'.size = 0
             /\ received_buffer' = <<>> /\ received_buffer' \in Seq(Piece)
             /\ Len(received_buffer') <= event'.size
  BY <1>e, NoEventType, EmptySeq DEF ToReceive
<1>a. ASSUME CrcHolds
      PROVE  Append(answered, received_buffer[1].frame) \in Seq(1 .. MaxFrames)
  <2>1. received_buffer[1].frame \in 1 .. MaxFrames
    <3>1. Len(line) \in Nat /\ Len(line) <= MaxFrames /\ MaxFrames \in Nat
      BY LenProperties, UartAssumption
    <3>2. received_buffer[1].frame \in 1 .. Len(line)
      BY <1>a, WholeFrame
    <3> QED
      BY <3>1, <3>2
  <2> QED
    BY <2>1, QueueTypes
<1>1. CASE Receive
  <2> DEFINE e == Head(uart_queue)
             q == Tail(uart_queue)
  <2>1. /\ q \in Seq(Event) /\ q \in Seq(SizedEvent) /\ Len(q) = Len(uart_queue) - 1
        /\ e \in Event /\ e \in SizedEvent /\ Len(uart_queue) \in Nat
    BY <1>1, QueueTypes DEF Receive, UartTypes
  <2>2. /\ event' = e /\ uart_queue' = q
        /\ pc' = IF e.type = "UART_DATA" THEN "read" ELSE "flush"
        /\ pc = "receive"
        /\ UNCHANGED <<line, part, fifo, ring, errors, trouble, received_buffer, answered>>
    BY <1>1 DEF Receive
  <2>3. e.size \in Nat /\ (e.type # "UART_DATA" => e.size = 0)
    BY <2>1, EventType DEF SizedEvent
  <2> HIDE DEF e, q
  <2>4. Len(uart_queue') <= EVENT_QUEUE
    BY <2>1, <2>2, UartAssumption
  <2>5. received_buffer' = <<>> /\ Len(received_buffer') = 0
    BY <2>2, EmptySeq
  <2>6. UartTypes'
    BY <2>1, <2>2, <2>4 DEF UartTypes
  <2> QED
    BY <2>1, <2>2, <2>3, <2>4, <2>5, <2>6
<1>2. CASE ReadBytes
  <2>1. /\ ring' \in Seq(Piece) /\ received_buffer' \in Seq(Piece)
        /\ Len(received_buffer') = Len(received_buffer) + Readable
    BY <1>2, ReadTypes
  <2>2. /\ UNCHANGED <<line, part, fifo, uart_queue, errors, trouble, pc, event, answered>>
        /\ pc = "read"
    BY <1>2 DEF ReadBytes
  <2>3. Len(received_buffer') <= event'.size
    BY <2>1, <2>2, ReadableType DEF Missing
  <2>4. UartTypes'
    BY <2>1, <2>2 DEF UartTypes
  <2> QED
    BY <2>1, <2>2, <2>3, <2>4
<1>3. CASE Answer
  <2>1. /\ UNCHANGED <<line, part, fifo, ring, uart_queue, errors, trouble>> /\ ToReceive
        /\ answered' \in Seq(1 .. MaxFrames)
    BY <1>3, <1>a DEF Answer, uartVars
  <2>2. UartTypes'
    BY <2>1 DEF UartTypes
  <2> QED
    BY <2>1, <2>2, <1>e
<1>4. CASE CrcError
  <2>1. /\ UNCHANGED <<line, part, uart_queue, errors, answered>> /\ ToReceive
        /\ uart_flush_input /\ trouble' \subseteq {"dropped", "crc", "restart"}
    BY <1>4 DEF CrcError
  <2>2. UartTypes'
    BY <2>1, EmptyBuffers DEF UartTypes
  <2> QED
    BY <2>1, <2>2, <1>e, EmptyBuffers
<1>5. CASE FlushInput
  <2>1. /\ UNCHANGED <<line, part, uart_queue, errors, trouble, event, received_buffer, answered>>
        /\ pc = "flush" /\ pc' = "reset" /\ uart_flush_input
    BY <1>5 DEF FlushInput
  <2>2. UartTypes'
    BY <2>1, EmptyBuffers DEF UartTypes
  <2> QED
    BY <2>1, <2>2, EmptyBuffers
<1>6. CASE ResetQueue
  <2>1. /\ UNCHANGED <<line, part, fifo, ring, errors, trouble, answered>>
        /\ uart_queue' = <<>> /\ pc = "reset"
        /\ (pc' = "reinstall" /\ UNCHANGED <<event, received_buffer>>) \/ ToReceive
    BY <1>6 DEF ResetQueue, xQueueReset
  <2>2. UartTypes'
    BY <2>1, EmptyQueue DEF UartTypes
  <2> QED
    BY <2>1, <2>2, <1>e, EmptyQueue
<1>7. CASE Reinstall \/ Restart \/ Watchdog
  <2>1. /\ UNCHANGED <<line, part, errors, answered>>
        /\ trouble' \subseteq {"dropped", "crc", "restart"}
        /\ uart_queue' = <<>> /\ uart_flush_input /\ ToReceive
    BY <1>7 DEF Reinstall, Restart, Watchdog, Reset, xQueueReset
  <2>2. UartTypes'
    BY <2>1, EmptyQueue, EmptyBuffers DEF UartTypes
  <2> QED
    BY <2>1, <2>2, <1>e, EmptyQueue, EmptyBuffers
<1> QED
  BY <1>1, <1>2, <1>3, <1>4, <1>5, <1>6, <1>7 DEF Task

LEMMA TypeStep == TypeInv /\ [Next]_vars => TypeInv'
<1> SUFFICES ASSUME TypeInv, [Next]_vars PROVE TypeInv'
  OBVIOUS
<1>1. CASE Idle \/ UNCHANGED vars
  BY <1>1 DEF Idle, vars, uartVars, taskVars, TypeInv, TypeOK, UartTypeOK, UartTypes
<1> QED
  BY <1>1, TypeDriver, TypeTask DEF Next

\* The state has its types: the buffers hold pieces in frames that were sent, and
\* the task never reads more than its event announced.
THEOREM TypeCorrect == Spec => []TypeOK
<1>1. TypeInv => TypeOK
  BY DEF TypeInv
<1> QED
  BY <1>1, TypeInit, TypeStep, PTL DEF Spec

-----------------------------------------------------------------------------
(* Answers *)

LEMMA AnswerInit == Init => AnswerInv
<1> SUFFICES ASSUME Init PROVE AnswerInv
  OBVIOUS
<1>1. Len(<<>>) = 0 /\ DOMAIN <<>> = {} /\ Range(<<>>) = {}
  BY EmptySeq, RangeOfShort
<1>2. line = <<>> /\ part = 1 /\ fifo = <<>> /\ ring = <<>> /\ received_buffer = <<>>
      /\ answered = <<>>
  BY DEF Init, UartInit
<1>3. AnswersOnceInOrder
  BY <1>1, <1>2 DEF AnswersOnceInOrder
<1>4. LastAnswered = 0 /\ Len(line) = 0 /\ NextPos = 3
  BY <1>1, <1>2 DEF LastAnswered, NextPos
<1>5. Stream(2, <<>>, <<>>, <<>>, 3)
  BY <1>1, AscendingShort DEF Stream
<1> QED
  BY <1>2, <1>3, <1>4, <1>5 DEF AnswerInv

\* The frames that were answered are not after the last of them.
LEMMA LastIsGreatest ==
    ASSUME TypeInv, AnswerInv
    PROVE  /\ Len(line) \in Nat /\ Len(answered) \in Nat /\ DOMAIN answered = 1 .. Len(answered)
           /\ LastAnswered \in Nat /\ LastAnswered <= Len(line)
           /\ \A i \in DOMAIN answered : answered[i] \in 1 .. LastAnswered
<1>1. /\ Len(line) \in Nat /\ Len(answered) \in Nat /\ DOMAIN answered = 1 .. Len(answered)
      /\ \A i \in 1 .. Len(answered) : answered[i] \in 1 .. MaxFrames
  BY LenProperties, ElementOfSeq DEF TypeInv, TypeOK, UartTypes
<1>2. LastAnswered \in Nat /\ LastAnswered <= Len(line)
  BY <1>1 DEF AnswerInv
<1>3. ASSUME NEW i \in DOMAIN answered
      PROVE  answered[i] \in 1 .. LastAnswered
  <2>1. LastAnswered = answered[Len(answered)] /\ Len(answered) \in DOMAIN answered
    BY <1>1, EmptySeq DEF LastAnswered
  <2>2. CASE i = Len(answered)
    BY <1>1, <1>2, <2>1, <2>2
  <2>3. CASE i < Len(answered)
    <3>1. answered[i] < LastAnswered
      BY <2>1, <2>3 DEF AnswerInv, AnswersOnceInOrder
    <3> QED
      BY <1>1, <1>2, <3>1
  <2> QED
    BY <1>1, <2>2, <2>3
<1> QED
  BY <1>1, <1>2, <1>3

\* Steps that answer nothing.
LEMMA AnswersKept ==
    ASSUME TypeInv, AnswerInv, answered' = answered, Len(line') \in Nat,
           \A i \in 1 .. Len(line) : i \in 1 .. Len(line') /\ line'[i] = line[i],
           Stream(2 * LastAnswered + 2, received_buffer', ring', fifo', NextPos')
    PROVE  AnswerInv'
<1>1. /\ LastAnswered \in Nat /\ LastAnswered <= Len(line) /\ Len(line) \in Nat
      /\ \A i \in DOMAIN answered : answered[i] \in 1 .. LastAnswered
  BY LastIsGreatest
<1>2. LastAnswered' = LastAnswered
  BY DEF LastAnswered
<1>3. LastAnswered \in 0 .. Len(line')
  BY <1>1
<1>4. \A i \in DOMAIN answered : line'[answered[i]] = line[answered[i]]
  <2>1. \A i \in DOMAIN answered : answered[i] \in 1 .. Len(line)
    BY <1>1
  <2> QED
    BY <2>1
<1>5. AnswersOnceInOrder'
  BY <1>4 DEF AnswerInv, AnswersOnceInOrder
<1> QED
  BY <1>2, <1>3, <1>5 DEF AnswerInv

LEMMA AnswerDriver == TypeInv /\ AnswerInv /\ Driver => AnswerInv'
<1> SUFFICES ASSUME TypeInv, AnswerInv, Driver PROVE AnswerInv'
  OBVIOUS
<1>1. UartStep /\ UNCHANGED <<received_buffer, answered>>
  BY DEF Driver, UartStep, taskVars
<1>2. /\ \A low \in Int, q \in Seq(Piece) :
            Stream(low, q, ring, fifo, NextPos) => Stream(low, q, ring', fifo', NextPos')
      /\ Len(line') \in Nat
      /\ \A i \in 1 .. Len(line) : i \in 1 .. Len(line') /\ line'[i] = line[i]
  BY <1>1, UartStepKeeps DEF TypeInv
<1>3. 2 * LastAnswered + 2 \in Int /\ received_buffer \in Seq(Piece)
  BY LastIsGreatest DEF TypeInv, TypeOK
<1>4. Stream(2 * LastAnswered + 2, received_buffer, ring', fifo', NextPos')
  BY <1>2, <1>3 DEF AnswerInv
<1> QED
  BY <1>1, <1>2, <1>4, AnswersKept

\* A whole frame for this node is answered, and is later than those before it.
LEMMA AnswerAnswers == TypeInv /\ AnswerInv /\ Answer => AnswerInv'
<1> SUFFICES ASSUME TypeInv, AnswerInv, Answer PROVE AnswerInv'
  OBVIOUS
<1> DEFINE f == received_buffer[1].frame
<1>1. /\ UNCHANGED <<line, part, fifo, ring>> /\ NextPos' = NextPos
      /\ received_buffer' = <<>> /\ CrcHolds
      /\ answered' = IF ForThisNode THEN Append(answered, f) ELSE answered
  BY DEF Answer, ToReceive, uartVars, NextPos
<1>2. /\ f \in 1 .. Len(line) /\ Len(line) \in Nat /\ LastAnswered \in Nat /\ Len(answered) \in Nat
      /\ DOMAIN answered = 1 .. Len(answered) /\ \A i \in DOMAIN answered : answered[i] \in 1 .. LastAnswered
  BY <1>1, WholeFrame, LastIsGreatest
<1>3. /\ Stream(2 * LastAnswered + 2, <<>>, ring, fifo, NextPos)
      /\ Stream(2 * f + 2, <<>>, ring, fifo, NextPos) /\ 2 * LastAnswered + 2 < 2 * f + 2
  <2>1. \E p \in Range(received_buffer) : Pos(p) = 2 * f + 2
    BY <1>1, WholeFrame
  <2> HIDE DEF f
  <2> QED
    BY <2>1, StreamDone DEF AnswerInv
<1>4. CASE ForThisNode
  <2>1. answered \in Seq(1 .. MaxFrames) /\ f \in 1 .. MaxFrames
    BY <1>2, UartAssumption DEF TypeInv, TypeOK, UartTypes
  <2>2. line[f] = "own"
    BY <1>4 DEF ForThisNode
  <2> HIDE DEF f
  <2>3. /\ answered' \in Seq(1 .. MaxFrames) /\ Len(answered') = Len(answered) + 1
        /\ \A i \in 1 .. Len(answered') :
              answered'[i] = IF i = Len(answered) + 1 THEN f ELSE answered[i]
        /\ DOMAIN answered' = 1 .. Len(answered')
    BY <1>1, <1>4, <2>1, QueueTypes, LenProperties
  <2>4. LastAnswered' = f
    BY <1>2, <2>3, EmptySeq DEF LastAnswered
  <2>5. ASSUME NEW i \in DOMAIN answered'
        PROVE  /\ line'[answered'[i]] = "own"
               /\ \A j \in DOMAIN answered' : i < j => answered'[i] < answered'[j]
    <3>1. CASE i = Len(answered) + 1
      BY <1>1, <1>2, <2>2, <2>3, <3>1
    <3>2. CASE i # Len(answered) + 1
      <4>1. i \in DOMAIN answered /\ answered'[i] = answered[i]
        BY <1>2, <2>3, <3>2
      <4>2. answered[i] \in Nat /\ answered[i] < f
        BY <1>2, <1>3, <4>1
      <4>3. ASSUME NEW j \in DOMAIN answered', i < j
            PROVE  answered'[i] < answered'[j]
        <5>1. CASE j = Len(answered) + 1
          BY <2>3, <4>1, <4>2, <5>1
        <5>2. CASE j # Len(answered) + 1
          BY <1>2, <2>3, <4>1, <4>3, <5>2 DEF AnswerInv, AnswersOnceInOrder
        <5> QED
          BY <5>1, <5>2
      <4> QED
        BY <1>1, <4>1, <4>3 DEF AnswerInv, AnswersOnceInOrder
    <3> QED
      BY <3>1, <3>2
  <2>6. AnswersOnceInOrder'
    BY <2>5 DEF AnswersOnceInOrder
  <2>7. LastAnswered' \in 0 .. Len(line')
    BY <1>1, <1>2, <2>4
  <2> QED
    BY <1>1, <1>3, <2>4, <2>6, <2>7 DEF AnswerInv
<1>5. CASE ~ForThisNode
  BY <1>1, <1>2, <1>3, <1>5, AnswersKept
<1> QED
  BY <1>4, <1>5

LEMMA AnswerStep == TypeInv /\ AnswerInv /\ [Next]_vars => AnswerInv'
<1> SUFFICES ASSUME TypeInv, AnswerInv, [Next]_vars PROVE AnswerInv'
  OBVIOUS
<1>s. Stream(2 * LastAnswered + 2, received_buffer, ring, fifo, NextPos)
  BY DEF AnswerInv
<1>l. Len(line) \in Nat
  BY LastIsGreatest
<1>k. ASSUME answered' = answered, line' = line, part' = part,
             Stream(2 * LastAnswered + 2, received_buffer', ring', fifo', NextPos)
      PROVE  AnswerInv'
  <2>1. NextPos' = NextPos
    BY <1>k DEF NextPos
  <2> QED
    BY <1>l, <1>k, <2>1, AnswersKept
<1>1. CASE UNCHANGED vars \/ Idle
  BY <1>1, <1>s, <1>k DEF Idle, vars, uartVars, taskVars
<1>2. CASE Receive
  BY <1>2, <1>s, <1>k DEF Receive
<1>3. CASE ReadBytes
  <2>1. Readable \in 0 .. Len(ring) /\ ring \in Seq(Piece) /\ received_buffer \in Seq(Piece)
    BY ReadableType DEF TypeInv, TypeOK, UartTypeOK
  <2>2. /\ received_buffer' = received_buffer \o SubSeq(ring, 1, Readable)
        /\ ring' = SubSeq(ring, Readable + 1, Len(ring))
        /\ UNCHANGED <<line, part, fifo, answered>>
    BY <1>3 DEF ReadBytes
  <2>3. Stream(2 * LastAnswered + 2, received_buffer', ring', fifo', NextPos)
    BY <1>s, <2>1, <2>2, StreamRead
  <2> QED
    BY <1>k, <2>2, <2>3
<1>4. CASE CrcError \/ Reinstall \/ Restart \/ Watchdog
  <2>1. /\ ring' = <<>> /\ fifo' = <<>> /\ received_buffer' = <<>>
        /\ UNCHANGED <<line, part, answered>>
    BY <1>4 DEF CrcError, Reinstall, Restart, Watchdog, Reset, uart_flush_input, ToReceive
  <2>2. Stream(2 * LastAnswered + 2, <<>>, ring, fifo, NextPos)
    BY <1>s, StreamDone
  <2>3. Stream(2 * LastAnswered + 2, <<>>, <<>>, <<>>, NextPos)
    BY <2>2, StreamFlush
  <2> QED
    BY <1>k, <2>1, <2>3
<1>5. CASE FlushInput
  <2>1. /\ ring' = <<>> /\ fifo' = <<>> /\ received_buffer' = received_buffer
        /\ UNCHANGED <<line, part, answered>>
    BY <1>5 DEF FlushInput, uart_flush_input
  <2>2. Stream(2 * LastAnswered + 2, received_buffer, <<>>, <<>>, NextPos)
    BY <1>s, StreamFlush
  <2> QED
    BY <1>k, <2>1, <2>2
<1>6. CASE ResetQueue
  <2>1. /\ UNCHANGED <<line, part, fifo, ring, answered>>
        /\ received_buffer' = received_buffer \/ received_buffer' = <<>>
    BY <1>6 DEF ResetQueue, ToReceive
  <2>2. Stream(2 * LastAnswered + 2, <<>>, ring, fifo, NextPos)
    BY <1>s, StreamDone
  <2> QED
    BY <1>s, <1>k, <2>1, <2>2
<1> QED
  BY <1>1, <1>2, <1>3, <1>4, <1>5, <1>6, AnswerDriver, AnswerAnswers DEF Next, Task

\* No request is answered twice or after a later one, and only whole requests for
\* this node are answered, whatever events split, merge or outlive their bytes.
THEOREM AnswersInOrder == Spec => []AnswersOnceInOrder
<1>1. AnswerInv => AnswersOnceInOrder
  BY DEF AnswerInv
<1> QED
  BY <1>1, TypeInit, TypeStep, AnswerInit, AnswerStep, PTL DEF Spec

-----------------------------------------------------------------------------
(* Events and their bytes *)

LEMMA AloneStep == TypeInv /\ EventsHaveTheirBytes /\ [Next]_vars => EventsHaveTheirBytes'
<1> SUFFICES ASSUME TypeInv, EventsHaveTheirBytes, [Next]_vars,
                    "crc" \notin trouble', pc' \notin {"reset", "reinstall"}
             PROVE  Announced(uart_queue') + Missing' <= Len(ring')
  BY DEF EventsHaveTheirBytes
<1>t. /\ uart_queue \in Seq(Event) /\ Announced(uart_queue) \in Nat
      /\ Missing \in Nat /\ Len(ring) \in Nat
  BY AnnouncedType, ReadableType DEF TypeInv, UartTypes
<1>e. pc # "read" => Missing = 0
  BY EmptySeq DEF TypeInv, Missing
<1>z. ToReceive => Missing' = 0
  BY EmptySeq DEF ToReceive, NoEvent, Missing
<1>n. TypeInv'
  BY TypeStep
<1>m. Len(ring') \in Nat
  BY <1>n, LenProperties DEF TypeInv, UartTypes
<1>1. CASE UNCHANGED vars \/ Idle
  BY <1>1 DEF Idle, vars, uartVars, taskVars, EventsHaveTheirBytes, Missing
<1>2. CASE Driver
  <2>1. UartStep /\ UNCHANGED <<pc, event, received_buffer>>
    BY <1>2 DEF Driver, UartStep, taskVars
  <2>2. /\ trouble \subseteq trouble'
        /\ \E n \in Nat :
              /\ Len(ring') = Len(ring) + n
              /\ \/ Announced(uart_queue') = Announced(uart_queue) + n
                 \/ Announced(uart_queue') = Announced(uart_queue) /\ "dropped" \in trouble'
    BY <2>1, UartStepKeeps DEF TypeInv
  <2>3. Announced(uart_queue) + Missing <= Len(ring) /\ Missing' = Missing
    BY <2>1, <2>2 DEF EventsHaveTheirBytes, Missing
  <2> QED
    BY <1>t, <2>2, <2>3
<1>3. CASE Receive
  <2>1. /\ event' = Head(uart_queue) /\ uart_queue' = Tail(uart_queue) /\ uart_queue # <<>>
        /\ pc = "receive" /\ UNCHANGED <<ring, trouble, received_buffer>>
    BY <1>3 DEF Receive
  <2>2. received_buffer = <<>> /\ Len(received_buffer) = 0
    BY <2>1, EmptySeq DEF TypeInv
  <2>3. Announced(uart_queue) = Announced(uart_queue') + event'.size
    BY <1>t, <2>1, AnnouncedTail
  <2>4. event'.size \in Nat /\ Announced(uart_queue') \in Nat
    BY <1>n, EventType, AnnouncedType DEF TypeInv, TypeOK, UartTypes
  <2>5. Missing' = event'.size /\ Missing = 0
    BY <1>e, <2>1, <2>2, <2>4 DEF Missing
  <2>6. Announced(uart_queue) + Missing <= Len(ring)
    BY <2>1 DEF EventsHaveTheirBytes
  <2> QED
    BY <1>t, <2>1, <2>3, <2>4, <2>5, <2>6
<1>4. CASE ReadBytes
  <2>1. Len(ring') = Len(ring) - Readable /\ Missing' = Missing - Readable /\ Readable \in Nat
    BY <1>4, ReadTypes, ReadableType
  <2>2. pc = "read" /\ UNCHANGED <<uart_queue, trouble>>
    BY <1>4 DEF ReadBytes
  <2>3. Announced(uart_queue) + Missing <= Len(ring)
    BY <2>2 DEF EventsHaveTheirBytes
  <2> QED
    BY <1>t, <2>1, <2>2, <2>3
<1>5. CASE Answer
  <2>1. ToReceive /\ pc = "read" /\ Missing = 0 /\ UNCHANGED <<uart_queue, ring, trouble>>
    BY <1>5 DEF Answer, HaveRead, uartVars
  <2>2. Announced(uart_queue) + Missing <= Len(ring)
    BY <2>1 DEF EventsHaveTheirBytes
  <2> QED
    BY <1>z, <2>1, <2>2
<1>6. CASE CrcError \/ FlushInput
  BY <1>6 DEF CrcError, FlushInput
<1>7. CASE ResetQueue \/ Reinstall \/ Restart \/ Watchdog
  <2>1. uart_queue' = <<>> /\ ToReceive
    BY <1>7 DEF ResetQueue, Reinstall, Restart, Watchdog, Reset, xQueueReset
  <2> QED
    BY <1>z, <1>m, <2>1, EmptyQueue
<1> QED
  BY <1>1, <1>2, <1>3, <1>4, <1>5, <1>6, <1>7 DEF Next, Task

\* The task never waits for bytes that are gone, unless a CRC error has flushed them
\* from under their events: neither the errors of the line, whose flush and reset are
\* two steps, nor a full queue leave such an event.
THEOREM NoEventIsAlone == Spec => []EventsHaveTheirBytes
<1>1. Init => EventsHaveTheirBytes
  <2> SUFFICES ASSUME Init PROVE EventsHaveTheirBytes
    OBVIOUS
  <2>1. Announced(uart_queue) = 0 /\ Missing = 0 /\ Len(ring) = 0
    BY AnnouncedNone, EmptySeq DEF Init, UartInit, NoEvent, Missing
  <2> QED
    BY <2>1 DEF EventsHaveTheirBytes
<1> QED
  BY <1>1, TypeInit, TypeStep, AloneStep, PTL DEF Spec
=============================================================================
