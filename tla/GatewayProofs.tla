---------------------------- MODULE GatewayProofs ----------------------------
(***************************************************************************)
(* Theorems about Gateway, for any number of slaves, any sizes of the      *)
(* queues and of the ring, any measures, commands, losses and resets:      *)
(*   TypeCorrect        the state has its types;                           *)
(*   RelaysObey         a relay does only what a command asked for whose   *)
(*                      address, cut to a byte, is its node;               *)
(*   RelaysInOrder      and obeys no command twice or after a later one;   *)
(*   CacheGenuine       the cache of a slave is a measure it has had, if   *)
(*                      it was not published while it was read;            *)
(*   CacheInOrder       and never goes back, but to the 0 of a reset;      *)
(*   JumpsAreMasked     a slave is masked exactly when its cache jumped,   *)
(*                      for measures without the topmost bit;              *)
(*   AnswersAreMeasures the answers over LoRa are measures of the slave    *)
(*                      asked, for measures of one byte.                   *)
(***************************************************************************)
EXTENDS Gateway, QueueLemmas

-----------------------------------------------------------------------------
(* Types *)

IsWrite(e) == e.function = "WRITE_SINGLE_COIL"

\* A frame with a measure has its four bytes, damaged or not.
Whole == {f \in Frame : f.function = "READ_INPUT" => Len(f.data) = 4}

TypeInv ==
    /\ TypeOK
    /\ ring \in Seq(Whole) /\ slave_response \in Whole
    /\ masterPc \in SaveSteps => slave_response.function = "READ_INPUT"
    /\ \A s \in Slaves : measure[s] \in Measures[s] /\ Len(sampled[s].bytes) <= 3
    /\ loraPc = "read" => request.address \in ReadAddresses /\ Len(response) <= 3
    /\ loraPc = "enqueue" => IsWrite(request.event)

LEMMA NodeTypes ==
    /\ 1 \in Slaves /\ Slaves \subseteq Nodes /\ NODE_ID \in Nodes /\ NODE_ID \notin Slaves
    /\ \A s \in Slaves : /\ s \in Coils /\ s \in 0 .. (UINT8 - 1)
                         /\ High(s) \in Registers /\ Low(s) \in Registers
    /\ 0 \in Registers
  BY GatewayAssumption DEF Slaves, Nodes, Coils, Registers, High, Low

\* The bounds, apart from what GatewayAssumption says of the sets.
LEMMA Bounds ==
    /\ SLAVES \in Nat \ {0} /\ MAX_POLL_QUEUE_SIZE \in Nat \ {0}
    /\ EVENT_QUEUE \in Nat \ {0} /\ RING \in Nat \ {0}
    /\ UINT8 \in Nat \ {0} /\ BYTE \in Nat \ {0} /\ TOLERANCE \in Nat
    /\ MaxCommands \in Nat /\ MaxLosses \in Nat /\ MaxRestarts \in Nat
  BY GatewayAssumption

LEMMA Modulus == \A a \in Nat, b \in Nat \ {0} : a % b \in 0 .. (b - 1)
  OBVIOUS

\* Two digits of base n.
LEMMA Digits ==
    ASSUME NEW n \in Nat \ {0}
    PROVE  /\ n * n \in Nat \ {0}
           /\ \A a, b \in 0 .. (n - 1) : a * n + b \in 0 .. (n * n - 1)
           /\ \A m \in 0 .. (n * n - 1) :
                 /\ m \div n \in 0 .. (n - 1) /\ m % n \in 0 .. (n - 1)
                 /\ (m \div n) * n + (m % n) = m
<1>1. n * n \in Nat \ {0}
  OBVIOUS
<1>2. ASSUME NEW a \in 0 .. (n - 1), NEW b \in 0 .. (n - 1)
      PROVE  a * n + b \in 0 .. (n * n - 1)
  <2>1. a * n <= (n - 1) * n /\ a * n \in Nat
    BY <1>2
  <2>2. (n - 1) * n = n * n - n
    OBVIOUS
  <2> QED
    BY <2>1, <2>2
<1>3. ASSUME NEW m \in 0 .. (n * n - 1)
      PROVE  /\ m \div n \in 0 .. (n - 1) /\ m % n \in 0 .. (n - 1)
             /\ (m \div n) * n + (m % n) = m
  <2> DEFINE d == m \div n
  <2>1. /\ d \in Nat /\ m % n \in 0 .. (n - 1)
        /\ m = n * d + (m % n)
    OBVIOUS
  <2> HIDE DEF d
  <2>2. n * d = d * n
    BY <2>1
  <2>3. d <= n - 1
    <3> SUFFICES ASSUME d >= n PROVE FALSE
      BY <2>1
    <3>1. n * d >= n * n
      BY <2>1
    <3> QED
      BY <2>1, <3>1
  <2> QED
    BY <2>1, <2>2, <2>3 DEF d
<1> QED
  BY <1>1, <1>2, <1>3

\* A register is two bytes, a measure two registers.
LEMMA ByteTypes ==
    /\ WORD \in Nat \ {0}
    /\ \A a, b \in Bytes : a * BYTE + b \in 0 .. (WORD - 1)
    /\ \A w \in 0 .. (WORD - 1) : /\ w \div BYTE \in Bytes /\ w % BYTE \in Bytes
                                  /\ (w \div BYTE) * BYTE + (w % BYTE) = w
    /\ 0 \in Bytes /\ 0 \in 0 .. (WORD - 1)
<1>1. BYTE \in Nat \ {0}
  BY Bounds
<1>2. /\ BYTE * BYTE \in Nat \ {0}
      /\ \A a, b \in 0 .. (BYTE - 1) : a * BYTE + b \in 0 .. (BYTE * BYTE - 1)
      /\ \A w \in 0 .. (BYTE * BYTE - 1) :
            /\ w \div BYTE \in 0 .. (BYTE - 1) /\ w % BYTE \in 0 .. (BYTE - 1)
            /\ (w \div BYTE) * BYTE + (w % BYTE) = w
  BY <1>1, Digits
<1>3. WORD \in Nat \ {0}
  BY <1>2 DEF WORD
<1>4. 0 \in Bytes /\ 0 \in 0 .. (WORD - 1)
  BY <1>1, <1>3 DEF Bytes
<1> QED
  BY <1>2, <1>3, <1>4 DEF WORD, Bytes

LEMMA WordTypes ==
    ASSUME NEW s \in Slaves, NEW m \in Measures[s]
    PROVE  /\ m \in Nat
           /\ m \div WORD \in 0 .. (WORD - 1) /\ m % WORD \in 0 .. (WORD - 1)
           /\ (m \div WORD) * WORD + (m % WORD) = m
<1>1. WORD \in Nat \ {0}
  BY ByteTypes
<1>2. m \in 0 .. (WORD * WORD - 1)
  BY GatewayAssumption
<1>3. /\ m \div WORD \in 0 .. (WORD - 1) /\ m % WORD \in 0 .. (WORD - 1)
      /\ (m \div WORD) * WORD + (m % WORD) = m
  BY <1>1, <1>2, Digits
<1>4. WORD * WORD \in Nat
  BY <1>1
<1> QED
  BY <1>2, <1>3, <1>4

LEMMA ReadPollType ==
    ASSUME NEW s \in Slaves
    PROVE  ReadPoll(s) \in PollEvent /\ ~IsWrite(ReadPoll(s))
  BY GatewayAssumption, NodeTypes DEF ReadPoll, PollEvent, IsWrite

LEMMA NoneTypes ==
    /\ NoFrame \in Whole /\ NoFrame \in Frame
    /\ NoWords \in [high : 0 .. (WORD - 1), low : 0 .. (WORD - 1)]
    /\ NoWords \in Words
    /\ NoRequest \in [address : Registers, event : PollEvent]
    /\ <<>> \in Seq(Bytes) /\ Len(<<>>) = 0
    /\ NoSample \in [bytes : Seq(Bytes), raced : BOOLEAN]
<1>1. <<>> \in Seq(Bytes) /\ Len(<<>>) = 0
  BY EmptySeq
<1> QED
  BY <1>1, NodeTypes, ReadPollType, ByteTypes
     DEF NoFrame, Frame, Whole, NoWords, Words, NoRequest, NoSample, Bytes

\* One byte, and two.
LEMMA ShortTypes ==
    ASSUME NEW x \in Bytes, NEW y \in Bytes
    PROVE  /\ <<x>> \in Seq(Bytes) /\ Len(<<x>>) = 1
           /\ <<x, y>> \in Seq(Bytes) /\ Len(<<x, y>>) = 2
<1>1. /\ <<x>> \in Seq(Bytes) /\ <<x, y>> \in Seq(Bytes)
  OBVIOUS
<1>2. Len(<<x>>) = 1 /\ Len(<<x, y>>) = 2
  OBVIOUS
<1> QED
  BY <1>1, <1>2

LEMMA EventType ==
    ASSUME NEW e \in PollEvent
    PROVE  /\ e.coil_state \in BOOLEAN /\ e.command \in 0 .. MaxCommands
           /\ e.function \in {"READ_INPUT", "WRITE_SINGLE_COIL"}
  BY DEF PollEvent

LEMMA FrameType ==
    ASSUME NEW f \in Whole
    PROVE  /\ f \in Frame /\ f.slave \in Slaves /\ f.function \in {"READ_INPUT", "WRITE_SINGLE_COIL"}
           /\ f.data \in Seq(Bytes) /\ f.intact \in BOOLEAN /\ f.raced \in BOOLEAN
           /\ f.function = "READ_INPUT" =>
                 /\ f.data[1] \in Bytes /\ f.data[2] \in Bytes
                 /\ f.data[3] \in Bytes /\ f.data[4] \in Bytes
           /\ [f EXCEPT !.intact = FALSE] \in Whole
<1>1. f \in Frame /\ f.data \in Seq(Bytes) /\ (f.function = "READ_INPUT" => Len(f.data) = 4)
  BY DEF Whole, Frame
<1>2. [f EXCEPT !.intact = FALSE] \in Whole
  BY <1>1 DEF Whole, Frame
<1>3. \A i \in 1 .. Len(f.data) : f.data[i] \in Bytes
  BY <1>1, QueueTypes
<1> QED
  BY <1>1, <1>2, <1>3 DEF Frame

\* The bytes of a pair of registers.
LEMMA ByteOfType ==
    ASSUME NEW words \in [high : 0 .. (WORD - 1), low : 0 .. (WORD - 1)], NEW i \in Nat
    PROVE  ByteOf(words, i) \in Bytes
  BY ByteTypes DEF ByteOf

LEMMA ReceivedType ==
    ASSUME TypeInv, masterPc \in SaveSteps
    PROVE  Received(1) \in 0 .. (WORD - 1) /\ Received(2) \in 0 .. (WORD - 1)
<1>1. /\ slave_response.data[1] \in Bytes /\ slave_response.data[2] \in Bytes
      /\ slave_response.data[3] \in Bytes /\ slave_response.data[4] \in Bytes
  BY FrameType DEF TypeInv
<1>2. /\ Received(1) = slave_response.data[1] * BYTE + slave_response.data[2]
      /\ Received(2) = slave_response.data[3] * BYTE + slave_response.data[4]
  <2>1. 2 * 1 - 1 = 1 /\ 2 * 1 = 2 /\ 2 * 2 - 1 = 3 /\ 2 * 2 = 4
    OBVIOUS
  <2> QED
    BY <2>1, Zenon DEF Received
<1>3. ASSUME NEW a \in Bytes, NEW b \in Bytes, NEW x, x = a * BYTE + b
      PROVE  x \in 0 .. (WORD - 1)
  BY <1>3, ByteTypes
<1>4. Received(1) \in 0 .. (WORD - 1)
  BY <1>1, <1>2, <1>3
<1>5. Received(2) \in 0 .. (WORD - 1)
  BY <1>1, <1>2, <1>3
<1> QED
  BY <1>4, <1>5

LEMMA CachedType ==
    ASSUME TypeOK, NEW s \in Slaves
    PROVE  /\ inputRegister[High(s)] \in 0 .. (WORD - 1) /\ inputRegister[Low(s)] \in 0 .. (WORD - 1)
           /\ Cached(s) \in Nat
<1>1. inputRegister[High(s)] \in 0 .. (WORD - 1) /\ inputRegister[Low(s)] \in 0 .. (WORD - 1)
  BY NodeTypes DEF TypeOK
<1>2. ASSUME NEW a \in Nat, NEW b \in Nat, NEW w \in Nat
      PROVE  a * w + b \in Nat
  BY <1>2
<1>3. WORD \in Nat
  BY ByteTypes
<1> QED
  BY <1>1, <1>2, <1>3 DEF Cached

\* The frames and events of the receiver.
LEMMA SignalType ==
    ASSUME TypeInv, NEW e \in UartEvents, Signal(e)
    PROVE  uart_queue' \in Seq(UartEvents) /\ Len(uart_queue') <= EVENT_QUEUE
  BY QueueTypes, Bounds DEF TypeInv, TypeOK, Signal

LEMMA ArriveType ==
    ASSUME TypeInv, NEW f \in Whole, Arrive(f)
    PROVE  /\ uart_queue' \in Seq(UartEvents) /\ Len(uart_queue') <= EVENT_QUEUE
           /\ ring' \in Seq(Frame) /\ ring' \in Seq(Whole) /\ Len(ring') <= RING
           /\ ring' \in {ring, Append(ring, f)}
<1>1. /\ f \in Frame /\ f.function \in UartEvents /\ "UART_BUFFER_FULL" \in UartEvents
  BY FrameType DEF UartEvents, UartErrors, Overflows
<1>2. uart_queue' \in Seq(UartEvents) /\ Len(uart_queue') <= EVENT_QUEUE
  BY <1>1, SignalType DEF Arrive
<1>3. /\ ring' \in Seq(Frame) /\ ring' \in Seq(Whole) /\ Len(ring') <= RING
      /\ ring' \in {ring, Append(ring, f)}
  <2>1. /\ ring \in Seq(Frame) /\ ring \in Seq(Whole) /\ Len(ring) \in Nat /\ Len(ring) <= RING
    BY QueueTypes DEF TypeInv, TypeOK
  <2>2. /\ Append(ring, f) \in Seq(Frame) /\ Append(ring, f) \in Seq(Whole)
        /\ Len(Append(ring, f)) = Len(ring) + 1
    BY <1>1, <2>1, QueueTypes
  <2>3. ring' = ring \/ (Len(ring) < RING /\ ring' = Append(ring, f))
    BY DEF Arrive
  <2> QED
    BY <2>1, <2>2, <2>3, Bounds
<1> QED
  BY <1>2, <1>3

LEMMA LoseType ==
    ASSUME TypeInv, Lose
    PROVE  losses' \in 0 .. MaxLosses
  BY Bounds DEF Lose, TypeInv, TypeOK

LEMMA RespondType ==
    ASSUME TypeInv, NEW f \in Whole, Respond(f)
    PROVE  /\ uart_queue' \in Seq(UartEvents) /\ Len(uart_queue') <= EVENT_QUEUE
           /\ ring' \in Seq(Frame) /\ ring' \in Seq(Whole) /\ Len(ring') <= RING
           /\ losses' \in 0 .. MaxLosses
           /\ ring' \in {ring, Append(ring, f), Append(ring, [f EXCEPT !.intact = FALSE])}
<1>1. CASE Arrive(f) /\ UNCHANGED losses
  BY <1>1, ArriveType DEF TypeInv, TypeOK
<1>2. CASE Lose /\ Arrive([f EXCEPT !.intact = FALSE])
  <2> DEFINE g == [f EXCEPT !.intact = FALSE]
  <2>1. g \in Whole
    BY FrameType
  <2> HIDE DEF g
  <2> QED
    BY <1>2, <2>1, ArriveType, LoseType DEF g
<1>3. CASE Lose /\ UNCHANGED uartVars
  BY <1>3, LoseType DEF uartVars, TypeInv, TypeOK
<1> QED
  BY <1>1, <1>2, <1>3 DEF Respond

\* The buffer after a read.
LEMMA BufferType ==
    ASSUME TypeInv
    PROVE  Buffer \in Whole /\ Buffer \in Frame /\ Buffer.slave \in Slaves
<1>1. ring # <<>> => Head(ring) \in Whole
  BY QueueTypes DEF TypeInv
<1>2. slave_response \in Whole /\ [slave_response EXCEPT !.intact = FALSE] \in Whole
  BY FrameType DEF TypeInv
<1>3. Buffer \in Whole
  BY <1>1, <1>2 DEF Buffer
<1> QED
  BY <1>3, FrameType

LEMMA TypeInit == Init => TypeInv
<1> SUFFICES ASSUME Init PROVE TypeInv
  OBVIOUS
<1>1. <<ReadPoll(1)>> \in Seq(PollEvent) /\ Len(<<ReadPoll(1)>>) = 1
  BY NodeTypes, ReadPollType
<1>2. /\ MAX_POLL_QUEUE_SIZE >= 1 /\ 0 \in 0 .. (UINT8 - 1) /\ 0 <= EVENT_QUEUE /\ 0 <= RING
      /\ 0 \in 0 .. MaxCommands /\ 0 \in 0 .. MaxLosses /\ 0 \in 0 .. MaxRestarts
  BY GatewayAssumption
<1>3. /\ inputRegister \in [Registers -> 0 .. (WORD - 1)]
      /\ registers \in [Slaves -> [high : 0 .. (WORD - 1), low : 0 .. (WORD - 1)]]
      /\ sampled \in [Slaves -> [bytes : Seq(Bytes), raced : BOOLEAN]]
      /\ response \in Seq(Bytes)
  BY ByteTypes, NoneTypes DEF Init, PoweredOn
<1>4. \A s \in Slaves : /\ measure[s] \in Measures[s]
                        /\ Len(sampled[s].bytes) = 0
  BY GatewayAssumption, NoneTypes DEF Init, NoSample
<1>5. /\ ring \in Seq(Whole) /\ ring \in Seq(Frame) /\ Len(ring) = 0
      /\ uart_queue \in Seq(UartEvents) /\ Len(uart_queue) = 0
      /\ line \in [Slaves -> Seq(PollEvent)]
  BY EmptySeq DEF Init, PoweredOn
<1>6. /\ modbus_coils \in [Coils -> BOOLEAN] /\ issued \in Seq([address : Coils, value : {"ON", "OFF", "OTHER"}])
      /\ relay \in [Nodes -> [coil : BOOLEAN, command : 0 .. MaxCommands]]
      /\ measure \in [Slaves -> Nat]
      /\ pulsePc \in [Slaves -> {"wait", "store_high", "store_low"}]
      /\ before \in [Slaves -> Nat] /\ shown \in [Slaves -> Nat]
  BY <1>2, EmptySeq DEF Init, PoweredOn
<1>7. /\ uart_send_queue = <<ReadPoll(1)>> /\ pollPc = "receive" /\ curr_slave = 1
      /\ masterPc = "receive" /\ event = "none" /\ slave_response = NoFrame
      /\ tolerance_register = NoWords /\ loraPc = "receive" /\ request = NoRequest
      /\ queue_size = 0 /\ raced = {} /\ overridden = {} /\ losses = 0 /\ restarts = 0
  BY DEF Init, PoweredOn
<1>8. TypeOK
  BY <1>1, <1>2, <1>3, <1>5, <1>6, <1>7, NodeTypes, NoneTypes DEF TypeOK, MasterSteps, Bytes
<1> QED
  BY <1>4, <1>5, <1>7, <1>8, NoneTypes DEF TypeInv, SaveSteps

LEMMA TypePoll == TypeInv /\ PollStep => TypeInv'
<1> SUFFICES ASSUME TypeInv, PollStep PROVE TypeInv'
  OBVIOUS
<1>0. /\ UNCHANGED <<uartVars, masterVars, cacheVars, maskVars, loraVars, slaveVars, relay,
                     losses, restarts>>
  BY DEF PollStep, PollTake, PollIdle, PollSend
<1>1. CASE PollTake
  <2> DEFINE e == Head(uart_send_queue)
  <2>1. /\ e \in PollEvent /\ Tail(uart_send_queue) \in Seq(PollEvent)
        /\ Len(Tail(uart_send_queue)) = Len(uart_send_queue) - 1
        /\ Len(uart_send_queue) \in Nat
    BY <1>1, QueueTypes DEF PollTake, TypeInv, TypeOK
  <2>2. \A s \in Slaves : Append(line[s], e) \in Seq(PollEvent) /\ line[s] \in Seq(PollEvent)
    BY <2>1, QueueTypes DEF TypeInv, TypeOK
  <2>3. line' \in [Slaves -> Seq(PollEvent)]
    BY <1>1, <2>2 DEF PollTake, WriteRequest
  <2>4. uart_send_queue' \in Seq(PollEvent) /\ Len(uart_send_queue') <= MAX_POLL_QUEUE_SIZE
    BY <1>1, <2>1, Bounds DEF PollTake, TypeInv, TypeOK
  <2>5. UNCHANGED <<pollPc, curr_slave>>
    BY <1>1 DEF PollTake
  <2>6. TypeOK'
    BY <1>0, <2>3, <2>4, <2>5
       DEF TypeInv, TypeOK, uartVars, masterVars, cacheVars, maskVars, loraVars, slaveVars
  <2> QED
    BY <1>0, <2>6
       DEF TypeInv, uartVars, masterVars, cacheVars, maskVars, loraVars, slaveVars
<1>2. CASE PollIdle
  <2>1. curr_slave' \in Slaves
    <3>1. curr_slave \in 1 .. SLAVES /\ SLAVES \in Nat \ {0}
      BY Bounds DEF TypeInv, TypeOK, Slaves
    <3> QED
      BY <1>2, <3>1 DEF PollIdle, Slaves
  <2> QED
    BY <1>0, <1>2, <2>1
       DEF PollIdle, TypeInv, TypeOK, uartVars, masterVars, cacheVars, maskVars, loraVars, slaveVars
<1>3. CASE PollSend
  <2>1. ReadPoll(curr_slave) \in PollEvent
    BY ReadPollType DEF TypeInv, TypeOK
  <2>2. uart_send_queue' \in Seq(PollEvent) /\ Len(uart_send_queue') <= MAX_POLL_QUEUE_SIZE
    BY <1>3, <2>1, QueueTypes, Bounds DEF PollSend, Send, HasPlace, TypeInv, TypeOK
  <2> QED
    BY <1>0, <1>3, <2>2
       DEF PollSend, TypeInv, TypeOK, uartVars, masterVars, cacheVars, maskVars, loraVars, slaveVars
<1> QED
  BY <1>1, <1>2, <1>3 DEF PollStep

\* What the master task leaves alone.
LEMMA MasterLeaves ==
    MasterStep => UNCHANGED <<pollVars, line, loraVars, slaveVars, relay, losses, restarts>>
  BY DEF MasterStep, InputStep, SaveStep, MasterReceive, MasterRead, CrcError, FlushInput, ResetQueue,
         FrameError, SaveHigh, SaveLow, ClearMask, SetMask

LEMMA TypeInput == TypeInv /\ InputStep => TypeInv'
<1> SUFFICES ASSUME TypeInv, InputStep PROVE TypeInv'
  OBVIOUS
<1>0. UNCHANGED <<pollVars, line, loraVars, slaveVars, relay, losses, restarts>>
  BY MasterLeaves DEF MasterStep
<1> USE DEF TypeInv, TypeOK, pollVars, uartVars, masterVars, cacheVars, maskVars, loraVars,
            slaveVars, MasterSteps, SaveSteps
<1>q. uart_queue # <<>> => /\ Head(uart_queue) \in UartEvents /\ Tail(uart_queue) \in Seq(UartEvents)
                          /\ Len(Tail(uart_queue)) <= EVENT_QUEUE
  BY QueueTypes, Bounds
<1>e. /\ <<>> \in Seq(Frame) /\ <<>> \in Seq(Whole) /\ Len(<<>>) = 0 /\ <<>> \in Seq(UartEvents)
      /\ 0 <= RING /\ 0 <= EVENT_QUEUE
  BY EmptySeq, Bounds
<1>1. CASE MasterReceive
  BY <1>0, <1>1, <1>q DEF MasterReceive
<1>2. CASE MasterRead
  <2> DEFINE s == Buffer.slave
  <2>1. Buffer \in Whole /\ Buffer \in Frame /\ s \in Slaves
    BY BufferType
  <2>2. Cached(s) \in Nat
    BY <2>1, CachedType
  <2>3. ring' \in Seq(Frame) /\ ring' \in Seq(Whole) /\ Len(ring') <= RING
    <3>0. ring' = (IF ring = <<>> THEN ring ELSE Tail(ring))
      BY <1>2 DEF MasterRead
    <3>1. CASE ring = <<>>
      BY <3>0, <3>1
    <3>2. CASE ring # <<>>
      <4>1. /\ Tail(ring) \in Seq(Frame) /\ Len(Tail(ring)) = Len(ring) - 1
            /\ Tail(ring) \in Seq(Whole) /\ Len(ring) \in Nat
        BY <3>2, QueueTypes
      <4> QED
        BY <3>0, <3>2, <4>1, Bounds
    <3> QED
      BY <3>1, <3>2
  <2>4. before' \in [Slaves -> Nat] /\ shown' \in [Slaves -> Nat]
    <3>1. before \in [Slaves -> Nat] /\ shown \in [Slaves -> Nat]
      OBVIOUS
    <3>2. /\ before' \in {before, [before EXCEPT ![s] = Cached(s)]}
          /\ shown' \in {shown, [shown EXCEPT ![s] = IF s \in raced THEN @ ELSE Cached(s)]}
      BY <1>2 DEF MasterRead
    <3> HIDE DEF s, TypeInv, TypeOK
    <3> QED
      BY <2>1, <2>2, <3>1, <3>2
  <2>5. masterPc' \in MasterSteps
        /\ (masterPc' \in SaveSteps => slave_response'.function = "READ_INPUT")
    BY <1>2 DEF MasterRead, Verified
  <2>6. slave_response' = Buffer /\ event' = "none"
        /\ UNCHANGED <<uart_queue, tolerance_register, inputRegister, raced, maskVars>>
    BY <1>2 DEF MasterRead
  <2> HIDE DEF s
  <2> QED
    BY <1>0, <2>1, <2>3, <2>4, <2>5, <2>6
<1>3. CASE CrcError
  BY <1>0, <1>3, <1>e, BufferType DEF CrcError
<1>4. CASE FlushInput
  BY <1>0, <1>4, <1>e, <1>q DEF FlushInput
<1>5. CASE ResetQueue
  BY <1>0, <1>5, <1>e DEF ResetQueue
<1>6. CASE FrameError
  BY <1>0, <1>6, <1>e DEF FrameError
<1> QED
  BY <1>1, <1>2, <1>3, <1>4, <1>5, <1>6 DEF InputStep

LEMMA TypeSave == TypeInv /\ SaveStep => TypeInv'
<1> SUFFICES ASSUME TypeInv, SaveStep PROVE TypeInv'
  OBVIOUS
<1>0. UNCHANGED <<pollVars, line, loraVars, slaveVars, relay, losses, restarts>>
  BY MasterLeaves DEF MasterStep
<1>t. slave_response.slave \in Slaves
  BY FrameType DEF TypeInv
<1>r. masterPc \in SaveSteps
  BY DEF SaveStep, SaveHigh, SaveLow, ClearMask, SetMask, SaveSteps
<1>w. /\ Received(1) \in 0 .. (WORD - 1) /\ Received(2) \in 0 .. (WORD - 1)
      /\ 0 .. (WORD - 1) \subseteq Nat
      /\ High(slave_response.slave) \in Registers /\ Low(slave_response.slave) \in Registers
      /\ slave_response.slave \in Coils
  BY <1>t, <1>r, ReceivedType, NodeTypes
<1> HIDE DEF Received
<1> USE DEF TypeInv, TypeOK, pollVars, uartVars, masterVars, cacheVars, maskVars, loraVars,
            slaveVars, MasterSteps, SaveSteps, Words
<1>1. CASE SaveHigh
  <2>1. inputRegister' \in [Registers -> 0 .. (WORD - 1)] /\ tolerance_register' \in Words
    BY <1>1, <1>w DEF SaveHigh
  <2> QED
    BY <1>0, <1>1, <1>t, <2>1 DEF SaveHigh
<1>2. CASE SaveLow
  <2>1. inputRegister' \in [Registers -> 0 .. (WORD - 1)] /\ tolerance_register' \in Words
    BY <1>2, <1>w DEF SaveLow
  <2> QED
    BY <1>0, <1>2, <2>1 DEF SaveLow
<1>3. CASE ClearMask
  BY <1>0, <1>3, NoneTypes DEF ClearMask
<1>4. CASE SetMask
  BY <1>0, <1>4 DEF SetMask
<1> QED
  BY <1>1, <1>2, <1>3, <1>4 DEF SaveStep

\* A register that is being read, and its bytes.
LEMMA ReadType ==
    ASSUME TypeInv, loraPc = "read"
    PROVE  LET i == Len(response) + 1
               r == request.address + (i - 1) \div 2
           IN /\ i \in 1 .. 4
              /\ \E s \in Slaves : r = High(s) \/ r = Low(s)
              /\ r \in Registers
              /\ \/ i % 2 = 0 /\ Shown(r, i) = <<inputRegister[r] % BYTE>>
                 \/ i % 2 = 1 /\ Shown(r, i) \in {<<0, 0>>, <<inputRegister[r] \div BYTE>>}
<1> DEFINE i == Len(response) + 1
           r == request.address + (i - 1) \div 2
<1>1. Len(response) \in 0 .. 3
  <2>1. response \in Seq(Bytes) /\ Len(response) <= 3
    BY DEF TypeInv, TypeOK
  <2>2. Len(response) \in Nat
    BY <2>1, LenProperties
  <2> DEFINE n == Len(response)
  <2>3. n \in Nat /\ n <= 3
    BY <2>1, <2>2
  <2> HIDE DEF n
  <2>4. n \in 0 .. 3
    BY <2>3
  <2> QED
    BY <2>4 DEF n
<1>2. i \in 1 .. 4 /\ (i - 1) \div 2 \in {0, 1} /\ i % 2 \in {0, 1}
  <2>1. /\ (1 - 1) \div 2 = 0 /\ (2 - 1) \div 2 = 0 /\ (3 - 1) \div 2 = 1 /\ (4 - 1) \div 2 = 1
        /\ 1 % 2 = 1 /\ 2 % 2 = 0 /\ 3 % 2 = 1 /\ 4 % 2 = 0
    OBVIOUS
  <2>2. i \in {1, 2, 3, 4}
    <3> DEFINE n == Len(response)
    <3> HIDE DEF n
    <3>1. n \in 0 .. 3
      BY <1>1 DEF n
    <3>2. n + 1 \in {1, 2, 3, 4}
      BY <3>1
    <3> QED
      BY <3>2 DEF n
  <2> HIDE DEF i
  <2> QED
    BY <2>1, <2>2
<1>3. PICK s \in Slaves : request.address = High(s)
  BY GatewayAssumption DEF TypeInv
<1>4. r = High(s) \/ r = Low(s)
  BY <1>2, <1>3 DEF High, Low, Slaves
<1>5. r \in Registers
  BY <1>4, NodeTypes
<1>6. \/ i % 2 = 0 /\ Shown(r, i) = <<inputRegister[r] % BYTE>>
      \/ i % 2 = 1 /\ Shown(r, i) \in {<<0, 0>>, <<inputRegister[r] \div BYTE>>}
  BY <1>2 DEF Shown
<1> HIDE DEF i, r
<1> QED
  BY <1>2, <1>4, <1>5, <1>6 DEF i, r

LEMMA TypeLora == TypeInv /\ (LoraStep \/ Requests) => TypeInv'
<1> SUFFICES ASSUME TypeInv, LoraStep \/ Requests PROVE TypeInv'
  OBVIOUS
<1>0. UNCHANGED <<pollPc, curr_slave, line, uartVars, masterVars, cacheVars, slaveVars,
                  losses, restarts>>
  BY DEF LoraStep, Requests, ReadBytes, LoraSend, LoraRead, LoraCommandOwn, LoraCommand, pollVars
<1> USE DEF TypeInv, TypeOK, pollVars, uartVars, masterVars, cacheVars, maskVars, loraVars, slaveVars
<1>1. CASE ReadBytes
  <2> DEFINE i == Len(response) + 1
             r == request.address + (i - 1) \div 2
             b == Shown(r, i)
  <2>1. /\ i \in 1 .. 4 /\ r \in Registers
        /\ \/ i % 2 = 0 /\ b = <<inputRegister[r] % BYTE>>
           \/ i % 2 = 1 /\ b \in {<<0, 0>>, <<inputRegister[r] \div BYTE>>}
    BY <1>1, ReadType DEF ReadBytes
  <2>2. /\ b \in Seq(Bytes) /\ Len(b) \in {1, 2} /\ (Len(b) = 2 => i % 2 = 1)
    <3>1. inputRegister[r] % BYTE \in Bytes /\ inputRegister[r] \div BYTE \in Bytes /\ 0 \in Bytes
      BY <2>1, ByteTypes
    <3> HIDE DEF b, i, r, TypeInv, TypeOK
    <3>2. CASE i % 2 = 0 /\ b = <<inputRegister[r] % BYTE>>
      BY <3>1, <3>2, ShortTypes
    <3>3. CASE i % 2 = 1 /\ b \in {<<0, 0>>, <<inputRegister[r] \div BYTE>>}
      BY <3>1, <3>3, ShortTypes
    <3> QED
      BY <2>1, <3>2, <3>3
  <2>3. /\ response' = response \o b /\ loraPc' = (IF Len(response') = 4 THEN "receive" ELSE "read")
        /\ request' = request /\ UNCHANGED <<queue_size, issued, relay, pollVars, maskVars>>
    BY <1>1 DEF ReadBytes
  <2> HIDE DEF b
  <2>4. response' \in Seq(Bytes) /\ Len(response') = Len(response) + Len(b)
    <3>1. response \in Seq(Bytes) /\ b \in Seq(Bytes)
      BY <2>2
    <3> HIDE DEF TypeInv, TypeOK
    <3> QED
      BY <2>3, <3>1, ConcatProperties
  <2>5. loraPc' = "read" => Len(response') <= 3
    <3>1. 2 % 2 = 0 /\ 4 % 2 = 0
      OBVIOUS
    <3>2. Len(response) \in Nat
      BY LenProperties
    <3>3. i \in {1, 2, 3, 4} /\ Len(response) = i - 1
      BY <2>1, <3>2
    <3>4. Len(response') = Len(response) + Len(b) /\ Len(b) \in {1, 2}
      BY <2>2, <2>4
    <3> DEFINE n == Len(response)
               d == Len(b)
               m == Len(response')
    <3> HIDE DEF i, r, n, d, m, TypeInv, TypeOK
    <3>5. m = n + d /\ d \in {1, 2} /\ (d = 2 => i % 2 = 1) /\ n = i - 1
      BY <2>2, <3>3, <3>4 DEF n, d, m
    <3>6. m <= 4
      BY <3>1, <3>3, <3>5
    <3>7. m \in Nat
      BY <3>3, <3>5
    <3> QED
      BY <2>3, <3>6, <3>7 DEF m
  <2>6. loraPc' \in {"receive", "read"} /\ request.address \in ReadAddresses
    BY <1>1, <2>3 DEF ReadBytes
  <2> HIDE DEF i, r
  <2> QED
    BY <1>0, <1>1, <2>3, <2>4, <2>5, <2>6 DEF ReadBytes
<1>3. CASE LoraSend
  <2>1. request.event \in PollEvent
    BY <1>3 DEF LoraSend
  <2>2. uart_send_queue' \in Seq(PollEvent) /\ Len(uart_send_queue') <= MAX_POLL_QUEUE_SIZE
    BY <1>3, <2>1, QueueTypes, Bounds DEF LoraSend, Send, HasPlace
  <2> QED
    BY <1>0, <1>3, <2>2, NoneTypes DEF LoraSend
<1>4. ASSUME NEW a \in ReadAddresses, LoraRead(a)
      PROVE  TypeInv'
  <2>1. a \in Registers
    BY GatewayAssumption, NodeTypes
  <2>2. request' \in [address : Registers, event : PollEvent] /\ request'.address = a
    BY <1>4, <2>1, NoneTypes DEF LoraRead
  <2>3. /\ response' \in Seq(Bytes) /\ Len(response') = 0 /\ loraPc' = "read"
        /\ UNCHANGED <<pollVars, maskVars, queue_size, issued, relay>>
    BY <1>4, NoneTypes DEF LoraRead
  <2>4. response' \in Seq(Bytes) /\ Len(response') <= 3
    <3> DEFINE n == Len(response')
    <3> HIDE DEF n, TypeInv, TypeOK
    <3>1. n = 0
      BY <2>3 DEF n
    <3>2. n <= 3
      BY <3>1
    <3> QED
      BY <2>3, <3>2 DEF n
  <2> QED
    BY <1>0, <2>2, <2>3, <2>4
<1>c. ASSUME NEW c \in Commands
      PROVE  /\ c \in [address : Coils, value : {"ON", "OFF", "OTHER"}]
             /\ c.address \in Coils /\ c.address \in Nat
             /\ Len(issued) \in Nat
             /\ Len(issued) < MaxCommands =>
                  Len(issued) + 1 \in 0 .. MaxCommands
  <2>1. c \in [address : Coils \ {0}, value : {"ON", "OFF", "OTHER"}]
    BY GatewayAssumption
  <2>2. c.address \in Coils /\ c \in [address : Coils, value : {"ON", "OFF", "OTHER"}]
    BY <2>1
  <2>3. c.address \in Nat
    BY <2>2, Bounds DEF Coils
  <2>4. Len(issued) \in Nat
    BY QueueTypes
  <2>5. \A n \in Nat, m \in Nat : n < m => n + 1 \in 0 .. m
    OBVIOUS
  <2>6. MaxCommands \in Nat
    BY Bounds
  <2> DEFINE n == Len(issued)
  <2> HIDE DEF TypeInv, TypeOK, n
  <2>7. n < MaxCommands => n + 1 \in 0 .. MaxCommands
    BY <2>4, <2>5, <2>6 DEF n
  <2> QED
    BY <2>2, <2>3, <2>4, <2>7 DEF n
<1>5. ASSUME NEW c \in Commands, LoraCommandOwn(c)
      PROVE  TypeInv'
  <2>1. issued' \in Seq([address : Coils, value : {"ON", "OFF", "OTHER"}])
    BY <1>5, <1>c, QueueTypes DEF LoraCommandOwn
  <2>2. relay' \in [Nodes -> [coil : BOOLEAN, command : 0 .. MaxCommands]]
    BY <1>5, <1>c, NodeTypes DEF LoraCommandOwn
  <2> QED
    BY <1>0, <1>5, <2>1, <2>2 DEF LoraCommandOwn
<1>6. ASSUME NEW c \in Commands, LoraCommand(c)
      PROVE  TypeInv'
  <2>1. issued' \in Seq([address : Coils, value : {"ON", "OFF", "OTHER"}])
    BY <1>6, <1>c, QueueTypes DEF LoraCommand
  <2>2. PICK coil \in BOOLEAN :
          request' = [NoRequest EXCEPT
                !.event = [slave |-> Addressed(c), function |-> "WRITE_SINGLE_COIL",
                           coil_state |-> coil, command |-> Len(issued) + 1]]
    BY <1>6 DEF LoraCommand
  <2> DEFINE e == [slave |-> Addressed(c), function |-> "WRITE_SINGLE_COIL",
                   coil_state |-> coil, command |-> Len(issued) + 1]
  <2>3. Addressed(c) \in 0 .. (UINT8 - 1)
    BY <1>c, Modulus, Bounds DEF Addressed
  <2>4. e \in PollEvent /\ IsWrite(e)
    BY <1>6, <1>c, <2>3 DEF LoraCommand, PollEvent, IsWrite
  <2>5. request' \in [address : Registers, event : PollEvent] /\ IsWrite(request'.event)
    BY <2>2, <2>4, NoneTypes
  <2>6. queue_size' \in 0 .. (UINT8 - 1)
    <3>1. queue_size + 1 \in Nat /\ UINT8 \in Nat \ {0}
      BY Bounds
    <3> QED
      BY <1>6, Modulus, <3>1 DEF LoraCommand
  <2>7. modbus_coils' \in [Coils -> BOOLEAN] /\ overridden' \subseteq Slaves
    BY <1>6, <1>c DEF LoraCommand
  <2>8. response' \in Seq(Bytes) /\ loraPc' = "enqueue" /\ UNCHANGED <<pollVars, relay>>
    BY <1>6, NoneTypes DEF LoraCommand
  <2> QED
    BY <1>0, <2>1, <2>5, <2>6, <2>7, <2>8
<1> QED
  BY <1>1, <1>3, <1>4, <1>5, <1>6 DEF LoraStep, Requests

\* The request that a slave task takes.
LEMMA LineType ==
    ASSUME TypeInv, NEW s \in Slaves, line[s] # <<>>
    PROVE  /\ Head(line[s]) \in PollEvent /\ line[s] \in Seq(PollEvent)
           /\ [line EXCEPT ![s] = Tail(line[s])] \in [Slaves -> Seq(PollEvent)]
<1>1. line[s] \in Seq(PollEvent) /\ line \in [Slaves -> Seq(PollEvent)]
  BY DEF TypeInv, TypeOK
<1>2. Head(line[s]) \in PollEvent /\ Tail(line[s]) \in Seq(PollEvent)
  BY <1>1, QueueTypes
<1> QED
  BY <1>1, <1>2

LEMMA SampledType ==
    ASSUME TypeInv, NEW s \in Slaves
    PROVE  /\ sampled[s].bytes \in Seq(Bytes) /\ sampled[s].raced \in BOOLEAN
           /\ sampled[s] = [bytes |-> sampled[s].bytes, raced |-> sampled[s].raced]
           /\ Len(sampled[s].bytes) \in 0 .. 3
           /\ \A i \in 1 .. Len(sampled[s].bytes) : sampled[s].bytes[i] \in Bytes
           /\ \A b \in Bytes :
                 LET bytes == Append(sampled[s].bytes, b)
                 IN /\ bytes \in Seq(Bytes) /\ Len(bytes) = Len(sampled[s].bytes) + 1
                    /\ \A i \in 1 .. Len(bytes) :
                          bytes[i] = IF i = Len(sampled[s].bytes) + 1 THEN b
                                     ELSE sampled[s].bytes[i]
<1>1. /\ sampled[s].bytes \in Seq(Bytes) /\ Len(sampled[s].bytes) <= 3
      /\ sampled[s].raced \in BOOLEAN
      /\ sampled[s] = [bytes |-> sampled[s].bytes, raced |-> sampled[s].raced]
  BY DEF TypeInv, TypeOK
<1> DEFINE q == sampled[s].bytes
<1> HIDE DEF q
<1>2. q \in Seq(Bytes) /\ Len(q) \in Nat
  BY <1>1, LenProperties DEF q
<1>3. /\ \A i \in 1 .. Len(q) : q[i] \in Bytes
      /\ \A b \in Bytes :
            /\ Append(q, b) \in Seq(Bytes) /\ Len(Append(q, b)) = Len(q) + 1
            /\ \A i \in 1 .. Len(Append(q, b)) :
                  Append(q, b)[i] = IF i = Len(q) + 1 THEN b ELSE q[i]
  BY <1>2, QueueTypes
<1>4. Len(q) \in 0 .. 3
  <2> DEFINE n == Len(q)
  <2> HIDE DEF n
  <2>1. n \in Nat /\ n <= 3
    BY <1>1, <1>2 DEF n, q
  <2>2. n \in 0 .. 3
    BY <2>1
  <2> QED
    BY <2>2 DEF n
<1> QED
  BY <1>1, <1>3, <1>4 DEF q

\* The registers of a slave, and what is read of them.
LEMMA RegistersType ==
    ASSUME TypeInv, NEW s \in Slaves
    PROVE  /\ registers[s] \in [high : 0 .. (WORD - 1), low : 0 .. (WORD - 1)]
           /\ \A i \in Nat : ByteOf(registers[s], i) \in Bytes
<1>1. registers[s] \in [high : 0 .. (WORD - 1), low : 0 .. (WORD - 1)]
  BY DEF TypeInv, TypeOK
<1> QED
  BY <1>1, ByteOfType

\* The answer to a read, and the echo of a command.
LEMMA AnswerType ==
    ASSUME TypeInv, NEW s \in Slaves
    PROVE  /\ Len(sampled[s].bytes) = 3 =>
                 [slave |-> s, function |-> "READ_INPUT",
                  data |-> Append(sampled[s].bytes, ByteOf(registers[s], 4)),
                  raced |-> sampled[s].raced, intact |-> TRUE] \in Whole
           /\ [slave |-> s, function |-> "WRITE_SINGLE_COIL", data |-> <<>>,
               raced |-> FALSE, intact |-> TRUE] \in Whole
<1>1. ASSUME Len(sampled[s].bytes) = 3
      PROVE  LET data == Append(sampled[s].bytes, ByteOf(registers[s], 4))
             IN data \in Seq(Bytes) /\ Len(data) = 4
  <2>1. ByteOf(registers[s], 4) \in Bytes
    BY RegistersType
  <2> DEFINE b == ByteOf(registers[s], 4)
             n == Len(sampled[s].bytes)
             m == Len(Append(sampled[s].bytes, b))
  <2>2. Append(sampled[s].bytes, b) \in Seq(Bytes) /\ m = n + 1 /\ n = 3
    BY <1>1, <2>1, SampledType
  <2> HIDE DEF n, m
  <2>3. m = 4
    BY <2>2
  <2> QED
    BY <2>2, <2>3 DEF m
<1>2. sampled[s].raced \in BOOLEAN
  BY SampledType
<1>3. <<>> \in Seq(Bytes)
  BY NoneTypes
<1> QED
  BY <1>1, <1>2, <1>3 DEF Whole, Frame

\* What the slaves and the line leave alone.
LEMMA SlaveLeaves ==
    ASSUME NEW s \in Slaves, SlaveStep(s) \/ PulseStep(s) \/ LoseRequest(s) \/ SlaveReset(s)
    PROVE  UNCHANGED <<pollVars, masterVars, cacheVars, maskVars, loraVars, restarts>>
  BY DEF SlaveStep, PulseStep, ReadFirst, ReadNext, AnswerRead, AnswerCoil, Consume, StoreHigh,
         StoreLow, LoseRequest, SlaveReset

LEMMA TypePulse ==
    ASSUME TypeInv, NEW s \in Slaves, PulseStep(s)
    PROVE  TypeInv'
<1>0. UNCHANGED <<pollVars, masterVars, cacheVars, maskVars, loraVars, restarts>>
  BY SlaveLeaves
<1>1. UNCHANGED <<line, uartVars, relay, losses>>
  BY DEF PulseStep, Consume, StoreHigh, StoreLow
<1>m. /\ \A t \in Slaves : measure[t] \in Measures[t] /\ measure[t] \in Nat
      /\ measure[s] \div WORD \in 0 .. (WORD - 1) /\ measure[s] % WORD \in 0 .. (WORD - 1)
  BY WordTypes DEF TypeInv
<1>2. /\ measure' \in [Slaves -> Nat] /\ \A t \in Slaves : measure'[t] \in Measures[t]
      /\ pulsePc' \in [Slaves -> {"wait", "store_high", "store_low"}]
      /\ registers' \in [Slaves -> [high : 0 .. (WORD - 1), low : 0 .. (WORD - 1)]]
      /\ sampled' \in [Slaves -> [bytes : Seq(Bytes), raced : BOOLEAN]]
      /\ \A t \in Slaves : sampled'[t].bytes = sampled[t].bytes
  <2>t. /\ measure \in [Slaves -> Nat]
        /\ pulsePc \in [Slaves -> {"wait", "store_high", "store_low"}]
        /\ registers \in [Slaves -> [high : 0 .. (WORD - 1), low : 0 .. (WORD - 1)]]
        /\ sampled \in [Slaves -> [bytes : Seq(Bytes), raced : BOOLEAN]]
    BY DEF TypeInv, TypeOK
  <2>1. CASE Consume(s)
    <3>1. PICK m \in Measures[s] : measure' = [measure EXCEPT ![s] = m]
      BY <2>1 DEF Consume
    <3>2. m \in Nat
      BY <3>1, WordTypes
    <3> QED
      BY <1>m, <2>t, <2>1, <3>1, <3>2 DEF Consume
  <2>2. CASE StoreHigh(s)
    BY <1>m, <2>t, <2>2 DEF StoreHigh, Sampling
  <2>3. CASE StoreLow(s)
    BY <1>m, <2>t, <2>3 DEF StoreLow
  <2> QED
    BY <2>1, <2>2, <2>3 DEF PulseStep
<1> QED
  BY <1>0, <1>1, <1>2
     DEF TypeInv, TypeOK, pollVars, uartVars, masterVars, cacheVars, maskVars, loraVars

LEMMA TypeSlave ==
    ASSUME TypeInv, NEW s \in Slaves, SlaveStep(s) \/ LoseRequest(s) \/ SlaveReset(s)
    PROVE  TypeInv'
<1>0. UNCHANGED <<pollVars, masterVars, cacheVars, maskVars, loraVars, restarts>>
  BY SlaveLeaves
<1>t. /\ line \in [Slaves -> Seq(PollEvent)] /\ relay \in [Nodes -> [coil : BOOLEAN, command : 0 .. MaxCommands]]
      /\ measure \in [Slaves -> Nat] /\ \A t \in Slaves : measure[t] \in Measures[t]
      /\ pulsePc \in [Slaves -> {"wait", "store_high", "store_low"}]
      /\ registers \in [Slaves -> [high : 0 .. (WORD - 1), low : 0 .. (WORD - 1)]]
      /\ sampled \in [Slaves -> [bytes : Seq(Bytes), raced : BOOLEAN]]
      /\ ring \in Seq(Frame) /\ ring \in Seq(Whole) /\ Len(ring) <= RING
      /\ uart_queue \in Seq(UartEvents) /\ Len(uart_queue) <= EVENT_QUEUE
      /\ losses \in 0 .. MaxLosses
      /\ \A t \in Slaves : Len(sampled[t].bytes) <= 3
  BY DEF TypeInv, TypeOK
<1>1. /\ line' \in [Slaves -> Seq(PollEvent)]
      /\ relay' \in [Nodes -> [coil : BOOLEAN, command : 0 .. MaxCommands]]
  <2>1. CASE ReadFirst(s) \/ LoseRequest(s)
    BY <1>t, <2>1, LineType DEF ReadFirst, LoseRequest
  <2>2. CASE ReadNext(s) \/ AnswerRead(s)
    BY <1>t, <2>2 DEF ReadNext, AnswerRead
  <2>3. CASE AnswerCoil(s)
    <3>1. Head(line[s]) \in PollEvent
      BY <2>3, LineType DEF AnswerCoil
    <3>2. line' \in [Slaves -> Seq(PollEvent)]
      BY <2>3, LineType DEF AnswerCoil
    <3> QED
      BY <1>t, <2>3, <3>1, <3>2, EventType, NodeTypes DEF AnswerCoil
  <2>4. CASE SlaveReset(s)
    BY <1>t, <2>4, EmptySeq DEF SlaveReset
  <2> QED
    BY <2>1, <2>2, <2>3, <2>4 DEF SlaveStep
<1>2. /\ ring' \in Seq(Frame) /\ ring' \in Seq(Whole) /\ Len(ring') <= RING
      /\ uart_queue' \in Seq(UartEvents) /\ Len(uart_queue') <= EVENT_QUEUE
      /\ losses' \in 0 .. MaxLosses
  <2>1. CASE ReadFirst(s) \/ ReadNext(s)
    BY <1>t, <2>1 DEF ReadFirst, ReadNext, uartVars
  <2>2. CASE LoseRequest(s) \/ SlaveReset(s)
    BY <1>t, <2>2, LoseType DEF LoseRequest, SlaveReset, uartVars
  <2>3. CASE AnswerRead(s)
    BY <2>3, AnswerType, RespondType DEF AnswerRead
  <2>4. CASE AnswerCoil(s)
    BY <2>4, AnswerType, RespondType DEF AnswerCoil
  <2> QED
    BY <2>1, <2>2, <2>3, <2>4 DEF SlaveStep
<1>3. /\ measure' \in [Slaves -> Nat] /\ \A t \in Slaves : measure'[t] \in Measures[t]
      /\ pulsePc' \in [Slaves -> {"wait", "store_high", "store_low"}]
      /\ registers' \in [Slaves -> [high : 0 .. (WORD - 1), low : 0 .. (WORD - 1)]]
  <2>1. CASE SlaveStep(s) \/ LoseRequest(s)
    BY <1>t, <2>1 DEF SlaveStep, ReadFirst, ReadNext, AnswerRead, AnswerCoil, LoseRequest, slaveVars
  <2>2. CASE SlaveReset(s)
    BY <1>t, <2>2, NoneTypes DEF SlaveReset, Recovered
  <2> QED
    BY <2>1, <2>2
<1>4. sampled' \in [Slaves -> [bytes : Seq(Bytes), raced : BOOLEAN]]
      /\ \A t \in Slaves : Len(sampled'[t].bytes) <= 3
  <2>1. CASE ReadFirst(s)
    <3>1. ByteOf(registers[s], 1) \in Bytes
      BY RegistersType
    <3>2. <<ByteOf(registers[s], 1)>> \in Seq(Bytes) /\ Len(<<ByteOf(registers[s], 1)>>) = 1
      BY <3>1, ShortTypes
    <3> DEFINE new == [bytes |-> <<ByteOf(registers[s], 1)>>, raced |-> pulsePc[s] = "store_low"]
    <3>3. new \in [bytes : Seq(Bytes), raced : BOOLEAN] /\ Len(new.bytes) = 1
      BY <3>2
    <3>4. sampled' = [sampled EXCEPT ![s] = new]
      BY <2>1 DEF ReadFirst
    <3> HIDE DEF new
    <3>5. \A t \in Slaves : sampled'[t] = IF t = s THEN new ELSE sampled[t]
      BY <1>t, <3>4
    <3>6. Len(new.bytes) <= 3
      <4> DEFINE n == Len(new.bytes)
      <4>1. n = 1
        BY <3>3
      <4> HIDE DEF n
      <4>2. n <= 3
        BY <4>1
      <4> QED
        BY <4>2 DEF n
    <3> QED
      BY <1>t, <3>3, <3>4, <3>5, <3>6
  <2>2. CASE ReadNext(s)
    <3> DEFINE b == ByteOf(registers[s], Len(sampled[s].bytes) + 1)
               new == Append(sampled[s].bytes, b)
    <3>1. Len(sampled[s].bytes) \in 1 .. 2
      BY <2>2 DEF ReadNext
    <3>2. b \in Bytes
      BY <3>1, RegistersType
    <3>3. new \in Seq(Bytes) /\ Len(new) = Len(sampled[s].bytes) + 1
      BY <3>2, SampledType
    <3>4. Len(new) <= 3
      <4> DEFINE n == Len(sampled[s].bytes)
                 m == Len(new)
      <4>1. m = n + 1 /\ n \in 1 .. 2
        BY <3>1, <3>3
      <4> HIDE DEF n, m
      <4>2. m <= 3
        BY <4>1
      <4> QED
        BY <4>2 DEF m
    <3>5. sampled' = [sampled EXCEPT ![s].bytes = new]
      BY <2>2 DEF ReadNext
    <3> HIDE DEF new
    <3> QED
      BY <1>t, <3>3, <3>4, <3>5
  <2>3. CASE AnswerRead(s) \/ SlaveReset(s)
    <3>1. sampled' = [sampled EXCEPT ![s] = NoSample]
      BY <2>3 DEF AnswerRead, SlaveReset
    <3>2. NoSample \in [bytes : Seq(Bytes), raced : BOOLEAN] /\ Len(NoSample.bytes) = 0
      BY NoneTypes DEF NoSample
    <3> QED
      BY <1>t, <3>1, <3>2
  <2>4. CASE AnswerCoil(s) \/ LoseRequest(s)
    BY <1>t, <2>4 DEF AnswerCoil, LoseRequest, slaveVars
  <2> QED
    BY <2>1, <2>2, <2>3, <2>4 DEF SlaveStep
<1>5. TypeOK'
  BY <1>0, <1>1, <1>2, <1>3, <1>4
     DEF TypeInv, TypeOK, pollVars, masterVars, cacheVars, maskVars, loraVars
<1> QED
  BY <1>0, <1>2, <1>3, <1>4, <1>5
     DEF TypeInv, masterVars, loraVars

LEMMA TypeLine ==
    TypeInv /\ (\E e \in {"UART_FIFO_OVF", "UART_FRAME_ERR"} : LineError(e)) => TypeInv'
<1> SUFFICES ASSUME TypeInv, NEW e \in {"UART_FIFO_OVF", "UART_FRAME_ERR"}, LineError(e)
             PROVE  TypeInv'
  OBVIOUS
<1>1. e \in UartEvents /\ Signal(e) /\ Lose
  BY DEF LineError, UartEvents, UartErrors, Overflows
<1>2. /\ uart_queue' \in Seq(UartEvents) /\ Len(uart_queue') <= EVENT_QUEUE
      /\ losses' \in 0 .. MaxLosses
  BY <1>1, SignalType, LoseType
<1>3. TypeOK'
  BY <1>2
     DEF LineError, TypeInv, TypeOK, pollVars, masterVars, cacheVars, maskVars, loraVars, slaveVars
<1> QED
  BY <1>2, <1>3 DEF LineError, TypeInv, masterVars, loraVars, slaveVars

LEMMA TypeRestart == TypeInv /\ Restart => TypeInv'
<1> SUFFICES ASSUME TypeInv, Restart PROVE TypeInv'
  OBVIOUS
<1>1. <<ReadPoll(1)>> \in Seq(PollEvent) /\ Len(<<ReadPoll(1)>>) = 1
  BY NodeTypes, ReadPollType
<1>2. /\ MAX_POLL_QUEUE_SIZE >= 1 /\ 0 \in 0 .. (UINT8 - 1) /\ 0 <= EVENT_QUEUE /\ 0 <= RING
  BY Bounds
<1>3. restarts' \in 0 .. MaxRestarts
  BY Bounds DEF Restart, TypeInv, TypeOK
<1>4. /\ inputRegister' \in [Registers -> 0 .. (WORD - 1)]
      /\ response' \in Seq(Bytes)
      /\ modbus_coils' \in [Coils -> BOOLEAN]
      /\ before' \in [Slaves -> Nat] /\ shown' \in [Slaves -> Nat]
  BY ByteTypes, NoneTypes DEF Restart
<1>5. /\ ring' \in Seq(Whole) /\ ring' \in Seq(Frame) /\ Len(ring') = 0
      /\ uart_queue' \in Seq(UartEvents) /\ Len(uart_queue') = 0
  BY EmptySeq DEF Restart
<1>6. /\ uart_send_queue' = <<ReadPoll(1)>> /\ pollPc' = "receive" /\ curr_slave' = 1
      /\ masterPc' = "receive" /\ event' = "none" /\ slave_response' = NoFrame
      /\ tolerance_register' = NoWords /\ loraPc' = "receive" /\ request' = NoRequest
      /\ queue_size' = 0 /\ raced' = {} /\ overridden' = {}
      /\ UNCHANGED <<line, slaveVars, relay, issued, losses>>
  BY DEF Restart
<1>7. TypeOK'
  BY <1>1, <1>2, <1>3, <1>4, <1>5, <1>6, NodeTypes, NoneTypes
     DEF TypeInv, TypeOK, MasterSteps, slaveVars
<1> QED
  BY <1>5, <1>6, <1>7, NoneTypes DEF TypeInv, SaveSteps, slaveVars

LEMMA TypeStep == TypeInv /\ [Next]_vars => TypeInv'
<1> SUFFICES ASSUME TypeInv, [Next]_vars PROVE TypeInv'
  OBVIOUS
<1>1. CASE UNCHANGED vars
  BY <1>1 DEF vars, pollVars, uartVars, masterVars, cacheVars, maskVars, loraVars, slaveVars,
              TypeInv, TypeOK
<1> QED
  BY <1>1, TypePoll, TypeInput, TypeSave, TypeLora, TypeSlave, TypePulse, TypeLine, TypeRestart
     DEF Next, MasterStep

LEMMA TypeInvHolds == Spec => []TypeInv
<1> QED
  BY TypeInit, TypeStep, PTL DEF Spec

\* The state has its types: among them, that the queue of polls never holds more
\* than MAX_POLL_QUEUE_SIZE events (main.c:222), and the driver's no more than it has.
THEOREM TypeCorrect == Spec => []TypeOK
<1>1. TypeInv => TypeOK
  BY DEF TypeInv
<1> QED
  BY <1>1, TypeInvHolds, PTL
-----------------------------------------------------------------------------
(* Relays *)

\* If both are commands, e was given before f.
Older(e, f) == IsWrite(e) /\ IsWrite(f) => e.command < f.command

InOrder(q) == \A i, j \in 1 .. Len(q) : i < j => Older(q[i], q[j])

LEMMA InOrderOfShort == InOrder(<<>>) /\ \A e : InOrder(<<e>>)
  BY EmptySeq DEF InOrder

LEMMA InOrderOf ==
    ASSUME NEW q \in Seq(PollEvent)
    PROVE  /\ InOrder(q) => \A e \in PollEvent :
                 (\A f \in Range(q) : Older(f, e)) => InOrder(Append(q, e))
           /\ InOrder(q) /\ q # <<>> =>
                 InOrder(Tail(q)) /\ \A f \in Range(Tail(q)) : Older(Head(q), f)
<1>2. ASSUME InOrder(q), NEW e \in PollEvent, \A f \in Range(q) : Older(f, e)
      PROVE  InOrder(Append(q, e))
  <2> DEFINE p == Append(q, e)
  <2>1. /\ Len(q) \in Nat /\ Len(p) = Len(q) + 1
        /\ \A i \in 1 .. Len(p) : p[i] = IF i = Len(q) + 1 THEN e ELSE q[i]
    BY QueueTypes
  <2> HIDE DEF p
  <2> SUFFICES ASSUME NEW i \in 1 .. Len(p), NEW j \in 1 .. Len(p), i < j
               PROVE  Older(p[i], p[j])
    BY DEF InOrder, p
  <2>2. i \in 1 .. Len(q) /\ p[i] = q[i] /\ q[i] \in Range(q)
    BY <2>1, RangeOf
  <2>3. CASE j = Len(q) + 1
    BY <1>2, <2>1, <2>2, <2>3
  <2>4. CASE j # Len(q) + 1
    BY <1>2, <2>1, <2>2, <2>4 DEF InOrder
  <2> QED
    BY <2>3, <2>4
<1>3. ASSUME InOrder(q), q # <<>>
      PROVE  InOrder(Tail(q)) /\ \A f \in Range(Tail(q)) : Older(Head(q), f)
  <2> DEFINE p == Tail(q)
  <2>1. /\ Head(q) = q[1] /\ 1 \in 1 .. Len(q) /\ Len(p) \in Nat
        /\ \A i \in 1 .. Len(p) : i + 1 \in 1 .. Len(q) /\ p[i] = q[i + 1]
        /\ p \in Seq(PollEvent)
    BY <1>3, QueueTypes
  <2> HIDE DEF p
  <2>2. ASSUME NEW i \in 1 .. Len(p), NEW j \in 1 .. Len(p), i < j
        PROVE  Older(p[i], p[j])
    BY <1>3, <2>1, <2>2 DEF InOrder
  <2>3. ASSUME NEW f \in Range(p)
        PROVE  Older(Head(q), f)
    <3>1. PICK i \in 1 .. Len(p) : f = p[i]
      BY <2>1, RangeOf
    <3> QED
      BY <1>3, <2>1, <3>1 DEF InOrder
  <2> QED
    BY <2>2, <2>3 DEF InOrder, p
<1> QED
  BY <1>2, <1>3

\* A write does what the command that it comes from asks for.
Obeys(e, commands) ==
    IsWrite(e) =>
        /\ e.command \in 1 .. Len(commands)
        /\ Addressed(commands[e.command]) = e.slave
        /\ commands[e.command].value # "OTHER" =>
               e.coil_state = (commands[e.command].value = "ON")

\* The event that the LoRa task is about to put into the queue.
Coming == IF loraPc = "enqueue" THEN {request.event} ELSE {}

\* RelayObeys for one relay.
Moved(r, id, commands) ==
    r.command # 0 =>
        /\ IF id = NODE_ID THEN commands[r.command].address = id
                           ELSE Addressed(commands[r.command]) = id
        /\ commands[r.command].value # "OTHER" =>
               r.coil = (commands[r.command].value = "ON")

LEMMA RelayObeysIs == RelayObeys <=> \A id \in Nodes : Moved(relay[id], id, issued)
  BY DEF RelayObeys, Moved, Addressed

RelayInv ==
    /\ \A e \in Range(uart_send_queue) \cup Coming : Obeys(e, issued)
    /\ \A s \in Slaves : \A e \in Range(line[s]) : Obeys(e, issued) /\ e.slave = s
    /\ \A id \in Nodes : relay[id].command <= Len(issued)
    /\ \A id \in Nodes : Moved(relay[id], id, issued)

Newer(e, n) == IsWrite(e) => n < e.command

\* A command goes from the LoRa task through the queue and a line to its relay,
\* and what is further on is older.
OrderInv ==
    /\ InOrder(uart_send_queue)
    /\ \A e \in Range(uart_send_queue), f \in Coming : Older(e, f)
    /\ \A s \in Slaves :
          /\ InOrder(line[s])
          /\ \A e \in Range(line[s]), f \in Range(uart_send_queue) \cup Coming : Older(e, f)
          /\ \A e \in Range(line[s]) \cup Range(uart_send_queue) \cup Coming :
                Newer(e, relay[s].command)

LEMMA RelayInit == Init => RelayInv /\ OrderInv
<1> SUFFICES ASSUME Init PROVE RelayInv /\ OrderInv
  OBVIOUS
<1>1. /\ Range(uart_send_queue) = {ReadPoll(1)} /\ ~IsWrite(ReadPoll(1)) /\ Coming = {}
      /\ InOrder(uart_send_queue)
  BY NodeTypes, ReadPollType, RangeOfShort, InOrderOfShort DEF Init, PoweredOn, Coming
<1>2. \A s \in Slaves : Range(line[s]) = {} /\ InOrder(line[s])
  BY RangeOfShort, InOrderOfShort DEF Init
<1>3. \A id \in Nodes : relay[id].command = 0
  BY DEF Init
<1>4. Len(issued) = 0
  BY DEF Init
<1>5. RelayInv
  BY <1>1, <1>2, <1>3, <1>4 DEF RelayInv, Obeys, Moved
<1> QED
  BY <1>1, <1>2, <1>5 DEF OrderInv, Newer, Older

\* What no relay sees: events are lost, sent on or answered, polls are added.
LEMMA FewerEvents ==
    ASSUME RelayInv, OrderInv, UNCHANGED <<relay, issued>>,
           \A e \in Range(uart_send_queue') : e \in Range(uart_send_queue) \/ ~IsWrite(e),
           InOrder(uart_send_queue'),
           \A s \in Slaves : InOrder(line'[s]) /\ Range(line'[s]) \subseteq Range(line[s]),
           Coming' \subseteq Coming
    PROVE  RelayInv' /\ OrderInv'
<1>1. RelayInv'
  <2>1. \A e \in Range(uart_send_queue') \cup Coming' : Obeys(e, issued)
    BY DEF RelayInv, Obeys
  <2> QED
    BY <2>1 DEF RelayInv, Moved
<1>2. OrderInv'
  BY DEF OrderInv, Older, Newer
<1> QED
  BY <1>1, <1>2

\* A request leaves the line of s.
LEMMA LineTaken ==
    ASSUME TypeInv, OrderInv, NEW s \in Slaves, line[s] # <<>>,
           line' = [line EXCEPT ![s] = Tail(line[s])]
    PROVE  \A t \in Slaves : InOrder(line'[t]) /\ Range(line'[t]) \subseteq Range(line[t])
<1>1. line[s] \in Seq(PollEvent) /\ InOrder(line[s])
  BY DEF TypeInv, TypeOK, OrderInv
<1>2. InOrder(Tail(line[s])) /\ Range(Tail(line[s])) \subseteq Range(line[s])
  BY <1>1, InOrderOf, RangeOf
<1>3. \A t \in Slaves : line'[t] = IF t = s THEN Tail(line[s]) ELSE line[t]
  BY DEF TypeInv, TypeOK
<1> QED
  BY <1>2, <1>3 DEF OrderInv

LEMMA RelayPoll == TypeInv /\ RelayInv /\ OrderInv /\ PollStep => RelayInv' /\ OrderInv'
<1> SUFFICES ASSUME TypeInv, RelayInv, OrderInv, PollStep PROVE RelayInv' /\ OrderInv'
  OBVIOUS
<1>t. /\ uart_send_queue \in Seq(PollEvent)
      /\ \A s \in Slaves : line[s] \in Seq(PollEvent)
      /\ InOrder(uart_send_queue) /\ curr_slave \in Slaves
  BY DEF TypeInv, TypeOK, OrderInv
<1>1. CASE PollTake
  <2> DEFINE e == Head(uart_send_queue)
             s == e.slave
             q == Tail(uart_send_queue)
  <2>1. e \in PollEvent
    BY <1>1, <1>t, QueueTypes DEF PollTake
  <2>2. /\ e \in Range(uart_send_queue) /\ Range(q) \subseteq Range(uart_send_queue)
        /\ InOrder(q) /\ \A f \in Range(q) : Older(e, f)
    BY <1>1, <1>t, RangeOf, InOrderOf DEF PollTake
  <2>3. /\ uart_send_queue' = q /\ UNCHANGED <<relay, issued, loraPc, request>>
        /\ Coming' = Coming
    BY <1>1 DEF PollTake, loraVars, Coming
  <2>4. \A t \in Slaves : line'[t] = IF t = s THEN Append(line[t], e) ELSE line[t]
    BY <1>1 DEF PollTake, WriteRequest
  <2>5. \A t \in Slaves : \A f \in Range(line[t]) : Older(f, e)
    BY <2>2 DEF OrderInv
  <2>6. \A t \in Slaves :
           /\ InOrder(line'[t])
           /\ Range(line'[t]) = Range(line[t]) \cup (IF t = s THEN {e} ELSE {})
    <3> HIDE DEF e, q
    <3>1. \A t \in Slaves : Range(Append(line[t], e)) = Range(line[t]) \cup {e}
      BY <1>t, <2>1, RangeOf
    <3>2. \A t \in Slaves : InOrder(Append(line[t], e))
      BY <1>t, <2>1, <2>5, InOrderOf DEF OrderInv
    <3> QED
      BY <2>4, <3>1, <3>2 DEF OrderInv
  <2> HIDE DEF e, q
  <2>7. RelayInv'
    <3>1. \A f \in Range(uart_send_queue') \cup Coming' : Obeys(f, issued')
      BY <2>2, <2>3 DEF RelayInv
    <3>2. \A t \in Slaves : \A f \in Range(line'[t]) : Obeys(f, issued') /\ f.slave = t
      BY <2>2, <2>3, <2>6 DEF RelayInv
    <3> QED
      BY <2>3, <3>1, <3>2 DEF RelayInv, Moved
  <2>8. OrderInv'
    <3>1. \A f \in Range(uart_send_queue') \cup Coming' : Older(e, f)
      BY <2>2, <2>3 DEF OrderInv
    <3>2. \A t \in Slaves :
             \A f \in Range(line'[t]), g \in Range(uart_send_queue') \cup Coming' : Older(f, g)
      BY <2>2, <2>3, <2>6, <3>1 DEF OrderInv
    <3>3. \A t \in Slaves :
             \A f \in Range(line'[t]) \cup Range(uart_send_queue') \cup Coming' :
                 Newer(f, relay'[t].command)
      BY <2>2, <2>3, <2>6 DEF OrderInv
    <3> QED
      BY <2>2, <2>3, <2>6, <3>2, <3>3 DEF OrderInv
  <2> QED
    BY <2>7, <2>8
<1>2. CASE PollIdle
  <2>1. UNCHANGED <<relay, issued, uart_send_queue, line>> /\ Coming' = Coming
    BY <1>2 DEF PollIdle, loraVars, Coming
  <2> QED
    BY <2>1, FewerEvents DEF OrderInv
<1>3. CASE PollSend
  <2> DEFINE e == ReadPoll(curr_slave)
  <2>1. e \in PollEvent /\ ~IsWrite(e)
    BY <1>t, ReadPollType
  <2>2. UNCHANGED <<relay, issued, line>> /\ Coming' = Coming
    BY <1>3 DEF PollSend, loraVars, Coming
  <2>3. uart_send_queue' \in {uart_send_queue, Append(uart_send_queue, e)}
    BY <1>3 DEF PollSend, Send
  <2>4. \A f \in Range(uart_send_queue) : Older(f, e)
    BY <2>1 DEF Older
  <2> HIDE DEF e
  <2>5. /\ InOrder(uart_send_queue')
        /\ Range(uart_send_queue') \subseteq Range(uart_send_queue) \cup {e}
    <3>1. Range(Append(uart_send_queue, e)) = Range(uart_send_queue) \cup {e}
      BY <1>t, <2>1, RangeOf
    <3>2. InOrder(Append(uart_send_queue, e))
      BY <1>t, <2>1, <2>4, InOrderOf
    <3> QED
      BY <1>t, <2>1, <2>3, <3>1, <3>2
  <2> QED
    BY <2>1, <2>2, <2>5, FewerEvents DEF OrderInv
<1> QED
  BY <1>1, <1>2, <1>3 DEF PollStep

LEMMA RelayLora ==
    TypeInv /\ RelayInv /\ OrderInv /\ (LoraStep \/ Requests) => RelayInv' /\ OrderInv'
<1> SUFFICES ASSUME TypeInv, RelayInv, OrderInv, LoraStep \/ Requests PROVE RelayInv' /\ OrderInv'
  OBVIOUS
<1>t. /\ uart_send_queue \in Seq(PollEvent)
      /\ InOrder(uart_send_queue) /\ \A s \in Slaves : InOrder(line[s])
      /\ issued \in Seq([address : Coils, value : {"ON", "OFF", "OTHER"}])
      /\ relay \in [Nodes -> [coil : BOOLEAN, command : 0 .. MaxCommands]]
  BY DEF TypeInv, TypeOK, OrderInv
<1>1. CASE ReadBytes \/ \E a \in ReadAddresses : LoraRead(a)
  <2>1. UNCHANGED <<relay, issued, uart_send_queue, line>> /\ Coming' = {}
    BY <1>1 DEF ReadBytes, LoraRead, pollVars, Coming
  <2> QED
    BY <1>t, <2>1, FewerEvents
<1>2. CASE LoraSend
  <2> DEFINE e == request.event
  <2>1. e \in PollEvent /\ Coming = {e}
    BY <1>2 DEF TypeInv, TypeOK, LoraSend, Coming
  <2>2. UNCHANGED <<relay, issued, line>> /\ Coming' = {}
    BY <1>2 DEF LoraSend, Coming
  <2>3. uart_send_queue' \in {uart_send_queue, Append(uart_send_queue, e)}
    BY <1>2 DEF LoraSend, Send
  <2>4. \A f \in Range(uart_send_queue) : Older(f, e)
    BY <2>1 DEF OrderInv
  <2> HIDE DEF e
  <2>5. /\ InOrder(uart_send_queue')
        /\ Range(uart_send_queue') \subseteq Range(uart_send_queue) \cup Coming
    <3>1. Range(Append(uart_send_queue, e)) = Range(uart_send_queue) \cup {e}
      BY <1>t, <2>1, RangeOf
    <3>2. InOrder(Append(uart_send_queue, e))
      BY <1>t, <2>1, <2>4, InOrderOf
    <3> QED
      BY <1>t, <2>1, <2>3, <3>1, <3>2
  <2>6. RelayInv'
    <3>1. /\ \A f \in Range(uart_send_queue') \cup Coming' : Obeys(f, issued')
          /\ \A s \in Slaves : \A f \in Range(line'[s]) : Obeys(f, issued') /\ f.slave = s
      BY <2>2, <2>5 DEF RelayInv
    <3> QED
      BY <2>2, <3>1 DEF RelayInv, Moved
  <2>7. OrderInv'
    BY <1>t, <2>2, <2>5 DEF OrderInv
  <2> QED
    BY <2>6, <2>7
<1>i. ASSUME NEW c \in Commands, issued' = Append(issued, c)
      PROVE  /\ Len(issued) \in Nat /\ Len(issued') = Len(issued) + 1
             /\ issued'[Len(issued) + 1] = c
             /\ \A n \in 1 .. Len(issued) : issued'[n] = issued[n]
             /\ \A e : Obeys(e, issued) => Obeys(e, issued')
  <2>1. c \in [address : Coils, value : {"ON", "OFF", "OTHER"}]
    BY GatewayAssumption
  <2>2. /\ Len(issued) \in Nat /\ Len(issued') = Len(issued) + 1
        /\ \A n \in 1 .. Len(issued') :
              issued'[n] = IF n = Len(issued) + 1 THEN c ELSE issued[n]
    BY <1>t, <1>i, <2>1, QueueTypes
  <2>3. /\ issued'[Len(issued) + 1] = c
        /\ \A n \in 1 .. Len(issued) : n \in 1 .. Len(issued') /\ issued'[n] = issued[n]
    BY <2>2
  <2> QED
    BY <2>2, <2>3 DEF Obeys
<1>o. ASSUME NEW c \in Commands, issued' = Append(issued, c), UNCHANGED <<uart_send_queue, line>>
      PROVE  /\ \A e \in Range(uart_send_queue') \cup Coming : Obeys(e, issued')
             /\ \A s \in Slaves : \A e \in Range(line'[s]) : Obeys(e, issued') /\ e.slave = s
             /\ \A id \in Nodes : LET n == relay[id].command
                                  IN /\ n \in 0 .. Len(issued)
                                     /\ n # 0 => issued'[n] = issued[n]
  <2>1. \A id \in Nodes : relay[id].command \in 0 .. Len(issued)
    BY <1>t, <1>o, <1>i DEF RelayInv
  <2> QED
    BY <1>o, <1>i, <2>1 DEF RelayInv
<1>3. ASSUME NEW c \in Commands, LoraCommandOwn(c)
      PROVE  RelayInv' /\ OrderInv'
  <2>1. /\ UNCHANGED <<uart_send_queue, line>> /\ Coming' = {} /\ Coming = {}
        /\ issued' = Append(issued, c) /\ c.address = NODE_ID
    BY <1>3 DEF LoraCommandOwn, pollVars, Coming
  <2>2. ASSUME NEW id \in Nodes, relay'[id] # relay[id]
        PROVE  /\ id = NODE_ID /\ c.value # "OTHER"
               /\ relay'[id] = [coil |-> c.value = "ON", command |-> Len(issued) + 1]
    BY <1>3, <1>t, <2>2 DEF LoraCommandOwn
  <2>3. RelayInv'
    <3>1. ASSUME NEW id \in Nodes
          PROVE  LET n == relay'[id].command
                 IN /\ n <= Len(issued')
                    /\ Moved(relay'[id], id, issued')
      <4>1. CASE relay'[id] = relay[id]
        BY <2>1, <4>1, <1>i, <1>o DEF RelayInv, Moved
      <4>2. CASE relay'[id] # relay[id]
        BY <2>1, <2>2, <4>2, <1>i DEF Moved
      <4> QED
        BY <4>1, <4>2
    <3> QED
      BY <2>1, <3>1, <1>o DEF RelayInv, Moved
  <2>4. \A s \in Slaves : relay'[s] = relay[s]
    BY <2>2, NodeTypes
  <2> QED
    BY <2>1, <2>3, <2>4 DEF OrderInv
<1>4. ASSUME NEW c \in Commands, LoraCommand(c)
      PROVE  RelayInv' /\ OrderInv'
  <2> DEFINE n == Len(issued) + 1
  <2>1. /\ UNCHANGED <<uart_send_queue, line, relay>> /\ Coming = {}
        /\ issued' = Append(issued, c) /\ Coming' = {request'.event}
    BY <1>4 DEF LoraCommand, pollVars, Coming
  <2>2. /\ request'.event.slave = Addressed(c) /\ request'.event.command = n
        /\ c.value # "OTHER" => request'.event.coil_state = (c.value = "ON")
    <3>1. PICK coil \in BOOLEAN :
             /\ c.value # "OTHER" => coil = (c.value = "ON")
             /\ request' = [NoRequest EXCEPT
                   !.event = [slave |-> Addressed(c), function |-> "WRITE_SINGLE_COIL",
                              coil_state |-> coil, command |-> Len(issued) + 1]]
      BY <1>4 DEF LoraCommand
    <3>2. request'.event = [slave |-> Addressed(c), function |-> "WRITE_SINGLE_COIL",
                            coil_state |-> coil, command |-> Len(issued) + 1]
      BY <3>1 DEF NoRequest
    <3> QED
      BY <3>1, <3>2
  <2>3. Obeys(request'.event, issued')
    BY <2>1, <2>2, <1>i DEF Obeys
  <2>4. RelayInv'
    <3>1. \A id \in Nodes : relay'[id].command <= Len(issued')
      BY <2>1, <1>i, <1>o
    <3>2. \A id \in Nodes : Moved(relay'[id], id, issued')
      BY <2>1, <1>o DEF RelayInv, Moved
    <3> QED
      BY <2>1, <2>3, <3>1, <3>2, <1>o DEF RelayInv
  <2>5. /\ \A e : Obeys(e, issued) => Older(e, request'.event)
        /\ \A s \in Slaves : Newer(request'.event, relay'[s].command)
    <3>1. \A s \in Slaves : relay'[s].command < n
      BY <2>1, <1>i, <1>o, NodeTypes
    <3> QED
      BY <2>1, <2>2, <3>1, <1>i DEF Obeys, Older, Newer
  <2>6. OrderInv'
    <3>1. /\ \A e \in Range(uart_send_queue') : Older(e, request'.event)
          /\ \A s \in Slaves : \A e \in Range(line'[s]) : Older(e, request'.event)
      BY <2>1, <2>5 DEF RelayInv
    <3> QED
      BY <2>1, <2>5, <3>1 DEF OrderInv
  <2> QED
    BY <2>4, <2>6
<1> QED
  BY <1>1, <1>2, <1>3, <1>4 DEF LoraStep, Requests

LEMMA RelaySlave ==
    ASSUME TypeInv, RelayInv, OrderInv, NEW s \in Slaves,
           SlaveStep(s) \/ PulseStep(s) \/ LoseRequest(s) \/ SlaveReset(s)
    PROVE  RelayInv' /\ OrderInv'
<1>t. /\ InOrder(uart_send_queue) /\ \A t \in Slaves : InOrder(line[t])
      /\ line[s] \in Seq(PollEvent)
      /\ relay \in [Nodes -> [coil : BOOLEAN, command : 0 .. MaxCommands]]
  BY DEF TypeInv, TypeOK, OrderInv
<1>1. CASE ReadFirst(s) \/ LoseRequest(s)
  <2>1. /\ UNCHANGED <<relay, issued, uart_send_queue>> /\ Coming' = Coming
        /\ line[s] # <<>> /\ line' = [line EXCEPT ![s] = Tail(line[s])]
    BY <1>1 DEF ReadFirst, LoseRequest, pollVars, loraVars, Coming
  <2> QED
    BY <1>t, <2>1, LineTaken, FewerEvents
<1>2. CASE SlaveReset(s)
  <2>1. /\ UNCHANGED <<relay, issued, uart_send_queue>> /\ Coming' = Coming
        /\ \A t \in Slaves : line'[t] = IF t = s THEN <<>> ELSE line[t]
    BY <1>2 DEF SlaveReset, pollVars, loraVars, Coming, TypeInv, TypeOK
  <2>2. \A t \in Slaves : InOrder(line'[t]) /\ Range(line'[t]) \subseteq Range(line[t])
    BY <1>t, <2>1, InOrderOfShort, RangeOfShort
  <2> QED
    BY <1>t, <2>1, <2>2, FewerEvents
<1>3. CASE PulseStep(s) \/ ReadNext(s) \/ AnswerRead(s)
  <2>1. UNCHANGED <<relay, issued, uart_send_queue, line>> /\ Coming' = Coming
    BY <1>3 DEF PulseStep, Consume, StoreHigh, StoreLow, ReadNext, AnswerRead, pollVars, loraVars, Coming
  <2> QED
    BY <1>t, <2>1, FewerEvents
<1>4. CASE AnswerCoil(s)
  <2> DEFINE e == Head(line[s])
  <2>1. /\ UNCHANGED <<issued, uart_send_queue>> /\ Coming' = Coming
        /\ line[s] # <<>> /\ line' = [line EXCEPT ![s] = Tail(line[s])]
        /\ IsWrite(e)
    BY <1>4 DEF AnswerCoil, pollVars, loraVars, Coming, IsWrite
  <2>2. \A id \in Nodes :
           relay'[id] = IF id = s THEN [coil |-> e.coil_state, command |-> e.command]
                        ELSE relay[id]
    BY <1>4, <1>t DEF AnswerCoil
  <2>3. /\ e \in Range(line[s]) /\ \A f \in Range(Tail(line[s])) : Older(e, f)
        /\ e \in PollEvent /\ Obeys(e, issued) /\ e.slave = s
    BY <1>t, <2>1, RangeOf, InOrderOf, QueueTypes DEF RelayInv
  <2>4. \A t \in Slaves : InOrder(line'[t]) /\ Range(line'[t]) \subseteq Range(line[t])
    BY <2>1, LineTaken
  <2>5. line'[s] = Tail(line[s])
    BY <2>1 DEF TypeInv, TypeOK
  <2> HIDE DEF e
  <2>6. RelayInv'
    <3>1. ASSUME NEW id \in Nodes
          PROVE  LET n == relay'[id].command
                 IN /\ n <= Len(issued)
                    /\ Moved(relay'[id], id, issued)
      <4>1. CASE id # s
        BY <2>2, <4>1 DEF RelayInv, Moved
      <4>2. CASE id = s
        BY <2>1, <2>2, <2>3, <4>2, NodeTypes DEF Obeys, Moved
      <4> QED
        BY <4>1, <4>2
    <3>2. /\ \A f \in Range(uart_send_queue') \cup Coming' : Obeys(f, issued')
          /\ \A t \in Slaves : \A f \in Range(line'[t]) : Obeys(f, issued') /\ f.slave = t
      BY <2>1, <2>4 DEF RelayInv
    <3> QED
      BY <2>1, <3>1, <3>2 DEF RelayInv, Moved
  <2>7. OrderInv'
    <3>1. \A t \in Slaves :
             \A f \in Range(line'[t]) \cup Range(uart_send_queue') \cup Coming' :
                 Newer(f, relay'[t].command)
      <4>1. ASSUME NEW t \in Slaves, t # s
            PROVE  relay'[t] = relay[t]
        BY <2>2, <4>1, NodeTypes
      <4>2. relay'[s].command = e.command
        BY <2>2, NodeTypes
      <4>3. \A f \in Range(line'[s]) \cup Range(uart_send_queue') \cup Coming' : Older(e, f)
        BY <2>1, <2>3, <2>5 DEF OrderInv
      <4>4. \A f \in Range(line'[s]) \cup Range(uart_send_queue') \cup Coming' :
               Newer(f, relay'[s].command)
        BY <2>1, <4>2, <4>3 DEF Older, Newer
      <4> QED
        BY <2>1, <2>4, <4>1, <4>4 DEF OrderInv
    <3> QED
      BY <2>1, <2>4, <3>1 DEF OrderInv
  <2> QED
    BY <2>6, <2>7
<1> QED
  BY <1>1, <1>2, <1>3, <1>4 DEF SlaveStep

LEMMA RelayRestart == TypeInv /\ RelayInv /\ OrderInv /\ Restart => RelayInv' /\ OrderInv'
<1> SUFFICES ASSUME TypeInv, RelayInv, OrderInv, Restart PROVE RelayInv' /\ OrderInv'
  OBVIOUS
<1>1. /\ UNCHANGED <<relay, issued, line>> /\ Coming' = {}
      /\ uart_send_queue' = <<ReadPoll(1)>>
  BY DEF Restart, Coming
<1>2. ReadPoll(1) \in PollEvent /\ ~IsWrite(ReadPoll(1))
  BY NodeTypes, ReadPollType
<1>3. Range(uart_send_queue') = {ReadPoll(1)} /\ InOrder(uart_send_queue')
  BY <1>1, RangeOfShort, InOrderOfShort
<1> QED
  BY <1>1, <1>2, <1>3, FewerEvents DEF OrderInv

LEMMA RelayStep ==
    TypeInv /\ RelayInv /\ OrderInv /\ [Next]_vars => RelayInv' /\ OrderInv'
<1> SUFFICES ASSUME TypeInv, RelayInv, OrderInv, [Next]_vars PROVE RelayInv' /\ OrderInv'
  OBVIOUS
<1>1. CASE MasterStep \/ (\E e \in {"UART_FIFO_OVF", "UART_FRAME_ERR"} : LineError(e)) \/ UNCHANGED vars
  <2>1. UNCHANGED <<relay, issued, uart_send_queue, line>> /\ Coming' = Coming
    BY <1>1, MasterLeaves DEF LineError, vars, pollVars, loraVars, Coming
  <2> QED
    BY <2>1, FewerEvents DEF OrderInv
<1> QED
  BY <1>1, RelayPoll, RelayLora, RelaySlave, RelayRestart DEF Next

LEMMA RelayInvHolds == Spec => [](TypeInv /\ RelayInv /\ OrderInv)
<1> QED
  BY TypeInit, TypeStep, RelayInit, RelayStep, PTL DEF Spec

\* A relay moves only to what a command asked for whose address, cut to a byte, is its
\* node (the gateway's own: all of it): the queue of polls (main.c:222) and the line
\* take no event for another and lose no coil state.
THEOREM RelaysObey == Spec => []RelayObeys
<1>1. RelayInv => RelayObeys
  BY RelayObeysIs DEF RelayInv
<1> QED
  BY <1>1, RelayInvHolds, PTL

\* No relay obeys an older command after a newer one, or one twice.
THEOREM RelaysInOrder == Spec => RelayInOrder
<1> DEFINE A == \A id \in Nodes : relay'[id] # relay[id] =>
                                      relay'[id].command > relay[id].command
<1>1. TypeInv /\ RelayInv /\ OrderInv /\ [Next]_vars => [A]_vars
  <2> SUFFICES ASSUME TypeInv, RelayInv, OrderInv, Next,
                      NEW id \in Nodes, relay'[id] # relay[id]
               PROVE  relay'[id].command > relay[id].command
    BY DEF vars
  <2>t. /\ relay \in [Nodes -> [coil : BOOLEAN, command : 0 .. MaxCommands]]
        /\ Len(issued) \in Nat
    BY QueueTypes DEF TypeInv, TypeOK
  <2>1. CASE \E c \in Commands : LoraCommandOwn(c)
    <3>1. relay'[id].command = Len(issued) + 1 /\ relay[id].command <= Len(issued)
      BY <2>1, <2>t DEF LoraCommandOwn, RelayInv
    <3> QED
      BY <2>t, <3>1
  <2>2. CASE \E s \in Slaves : AnswerCoil(s)
    <3>1. PICK s \in Slaves : AnswerCoil(s)
      BY <2>2
    <3> DEFINE e == Head(line[s])
    <3>2. id = s /\ relay'[id].command = e.command /\ IsWrite(e) /\ line[s] # <<>>
      BY <2>t, <3>1 DEF AnswerCoil, IsWrite
    <3>3. e \in Range(line[s]) /\ e \in PollEvent
      BY <3>2, RangeOf, LineType
    <3>4. Newer(e, relay[s].command)
      BY <3>3 DEF OrderInv
    <3> QED
      BY <3>2, <3>4 DEF Newer
  <2>3. CASE UNCHANGED relay
    BY <2>3
  <2>4. \/ \E c \in Commands : LoraCommandOwn(c)
        \/ \E s \in Slaves : AnswerCoil(s)
        \/ UNCHANGED relay
    BY MasterLeaves
       DEF Next, PollStep, PollTake, PollIdle, PollSend, LoraStep, ReadBytes, LoraSend, Requests,
           LoraRead, LoraCommand, SlaveStep, ReadFirst, ReadNext, AnswerRead, PulseStep, Consume,
           StoreHigh, StoreLow, LoseRequest, SlaveReset, LineError, Restart
  <2> QED
    BY <2>1, <2>2, <2>3, <2>4
<1> QED
  BY <1>1, RelayInvHolds, PTL DEF Spec, RelayInOrder


-----------------------------------------------------------------------------
(* The cache: what the slaves read *)

\* A register pair as one number: what a slave's registers show, and what an answer says.
Reg(s)   == registers[s].high * WORD + registers[s].low
Value(f) == (f.data[1] * BYTE + f.data[2]) * WORD + (f.data[3] * BYTE + f.data[4])

\* An answer that says what the registers of s showed.
Clean(f, s) == f.function = "READ_INPUT" /\ f.slave = s /\ f.intact /\ ~f.raced

\* A measure m may be shown after n.
Follows(m, n) == m >= n \/ m = 0

\* The registers of a slave are those of a measure that it has had, except between the
\* two stores, and so is what its task has read of them, unless it raced with one.
SlaveInv ==
    \A s \in Slaves :
        /\ pulsePc[s] = "wait" => Reg(s) = measure[s]
        /\ pulsePc[s] = "store_low" => registers[s].high = measure[s] \div WORD
        /\ pulsePc[s] # "store_low" => Reg(s) \in Had(s)
        /\ Sampling(s) /\ ~sampled[s].raced =>
              /\ pulsePc[s] # "store_low"
              /\ \A i \in 1 .. Len(sampled[s].bytes) :
                    sampled[s].bytes[i] = ByteOf(registers[s], i)

\* A value that slave s may have shown before.
Past(s, u) == u \in Had(s) /\ (pulsePc[s] # "store_low" => Follows(Reg(s), u))

LEMMA HadTypes ==
    ASSUME TypeInv, NEW s \in Slaves
    PROVE  /\ measure[s] \in Nat /\ measure[s] \in Measures[s] /\ measure[s] \in Had(s)
           /\ 0 \in Had(s) /\ Had(s) \subseteq Nat
           /\ \A u : u \in Had(s) <=> u \in Measures[s] /\ u <= measure[s]
<1>1. 0 \in Measures[s] /\ \A m \in Measures[s] : m \in Nat
  BY WordTypes, GatewayAssumption
<1>2. measure[s] \in Measures[s] /\ measure[s] \in Nat
  BY <1>1 DEF TypeInv
<1> QED
  BY <1>1, <1>2 DEF Had

LEMMA RegType ==
    ASSUME TypeInv, NEW s \in Slaves
    PROVE  /\ Reg(s) \in Nat
           /\ registers[s].high \in 0 .. (WORD - 1) /\ registers[s].low \in 0 .. (WORD - 1)
<1>1. registers[s].high \in 0 .. (WORD - 1) /\ registers[s].low \in 0 .. (WORD - 1)
  BY RegistersType
<1>2. \A h, l, w \in Nat : h * w + l \in Nat
  OBVIOUS
<1>3. WORD \in Nat
  BY ByteTypes
<1> QED
  BY <1>1, <1>2, <1>3 DEF Reg

\* The four bytes of a pair of registers.
LEMMA BytesOfWords ==
    ASSUME NEW words \in [high : 0 .. (WORD - 1), low : 0 .. (WORD - 1)]
    PROVE  /\ ByteOf(words, 1) * BYTE + ByteOf(words, 2) = words.high
           /\ ByteOf(words, 3) * BYTE + ByteOf(words, 4) = words.low
<1>1. 1 % 2 = 1 /\ 2 % 2 = 0 /\ 3 % 2 = 1 /\ 4 % 2 = 0
  OBVIOUS
<1>2. /\ ByteOf(words, 1) = words.high \div BYTE /\ ByteOf(words, 2) = words.high % BYTE
      /\ ByteOf(words, 3) = words.low \div BYTE /\ ByteOf(words, 4) = words.low % BYTE
  BY <1>1 DEF ByteOf
<1> QED
  BY <1>2, ByteTypes

\* What changes the registers of a slave, or what its task has read.
LEMMA SlaveChanges ==
    ASSUME [Next]_vars
    PROVE  \/ UNCHANGED slaveVars
           \/ \E s \in Slaves : PulseStep(s) \/ ReadFirst(s) \/ ReadNext(s) \/ AnswerRead(s)
                                 \/ SlaveReset(s)
<1>1. CASE UNCHANGED vars
  BY <1>1 DEF vars
<1>2. CASE Next
  <2>1. CASE PollStep \/ LoraStep \/ Requests \/ Restart
    BY <2>1 DEF PollStep, PollTake, PollIdle, PollSend, LoraStep, ReadBytes, LoraSend, Requests,
                LoraRead, LoraCommandOwn, LoraCommand, Restart
  <2>2. CASE MasterStep
    BY <2>2, MasterLeaves
  <2>3. CASE \E error \in {"UART_FIFO_OVF", "UART_FRAME_ERR"} : LineError(error)
    BY <2>3 DEF LineError
  <2>4. CASE \E s \in Slaves : SlaveStep(s) \/ PulseStep(s) \/ LoseRequest(s) \/ SlaveReset(s)
    BY <2>4 DEF SlaveStep, AnswerCoil, LoseRequest
  <2> QED
    BY <1>2, <2>1, <2>2, <2>3, <2>4 DEF Next
<1> QED
  BY <1>1, <1>2

LEMMA SlaveInit == Init => SlaveInv
<1> SUFFICES ASSUME Init, NEW s \in Slaves
             PROVE  /\ pulsePc[s] = "wait" /\ Reg(s) = 0 /\ measure[s] = 0 /\ 0 \in Had(s)
                    /\ ~Sampling(s)
  BY DEF SlaveInv
<1>1. registers[s].high = 0 /\ registers[s].low = 0 /\ pulsePc[s] = "wait" /\ measure[s] = 0
      /\ sampled[s].bytes = <<>>
  BY DEF Init, NoWords, NoSample
<1>2. 0 \in Measures[s]
  BY GatewayAssumption
<1>3. Reg(s) = 0
  BY <1>1, ByteTypes DEF Reg
<1> QED
  BY <1>1, <1>2, <1>3 DEF Had, Sampling

\* One slave's registers and sample, after a step of its own.
SlaveOf(s) ==
    /\ pulsePc[s] = "wait" => Reg(s) = measure[s]
    /\ pulsePc[s] = "store_low" => registers[s].high = measure[s] \div WORD
    /\ pulsePc[s] # "store_low" => Reg(s) \in Had(s)
    /\ Sampling(s) /\ ~sampled[s].raced =>
          /\ pulsePc[s] # "store_low"
          /\ \A i \in 1 .. Len(sampled[s].bytes) :
                sampled[s].bytes[i] = ByteOf(registers[s], i)

LEMMA SlavePulse ==
    ASSUME TypeInv, TypeInv', NEW s \in Slaves, SlaveOf(s), PulseStep(s) \/ SlaveReset(s)
    PROVE  SlaveOf(s)' /\ \A u : Past(s, u) => Past(s, u)'
<1>t. /\ measure \in [Slaves -> Nat] /\ pulsePc \in [Slaves -> {"wait", "store_high", "store_low"}]
      /\ registers \in [Slaves -> [high : 0 .. (WORD - 1), low : 0 .. (WORD - 1)]]
      /\ sampled \in [Slaves -> [bytes : Seq(Bytes), raced : BOOLEAN]]
  BY DEF TypeInv, TypeOK
<1>h. /\ measure[s] \in Nat /\ measure[s] \in Had(s) /\ measure'[s] \in Nat
      /\ \A u : u \in Had(s) => u \in Nat /\ u \in Measures[s] /\ u <= measure[s]
      /\ 0 \in Measures[s] /\ measure[s] \in Measures[s] /\ measure'[s] \in Measures[s]
  <2>1. /\ measure[s] \in Nat /\ measure[s] \in Had(s)
        /\ \A u : u \in Had(s) => u \in Nat /\ u \in Measures[s] /\ u <= measure[s]
        /\ 0 \in Measures[s] /\ measure[s] \in Measures[s]
    BY HadTypes
  <2>2. measure'[s] \in Nat /\ measure'[s] \in Measures[s]
    BY DEF TypeInv, TypeOK
  <2> QED
    BY <2>1, <2>2
<1>g. ASSUME measure'[s] >= measure[s]
      PROVE  \A u : u \in Had(s) => u \in Had(s)'
  BY <1>h, <1>g DEF Had
<1>r. Reg(s) \in Nat
  BY RegType
<1>1. CASE Consume(s)
  <2>1. /\ pulsePc[s] = "wait" /\ pulsePc'[s] = "store_high" /\ measure'[s] > measure[s]
        /\ UNCHANGED <<registers, sampled>>
    BY <1>1, <1>t DEF Consume
  <2>2. Reg(s)' = Reg(s) /\ Sampling(s)' = Sampling(s)
    BY <2>1 DEF Reg, Sampling
  <2>3. \A u : u \in Had(s) => u \in Had(s)'
    BY <1>g, <1>h, <2>1
  <2> QED
    BY <2>1, <2>2, <2>3 DEF SlaveOf, Past
<1>2. CASE StoreHigh(s)
  <2>1. /\ pulsePc'[s] = "store_low" /\ measure' = measure
        /\ registers'[s].high = measure[s] \div WORD
        /\ sampled'[s].bytes = sampled[s].bytes /\ sampled'[s].raced = Sampling(s)
    BY <1>2, <1>t DEF StoreHigh
  <2>2. Sampling(s)' = Sampling(s)
    BY <2>1 DEF Sampling
  <2>3. \A u : u \in Had(s) => u \in Had(s)'
    BY <1>g, <1>h, <2>1
  <2> QED
    BY <2>1, <2>2, <2>3 DEF SlaveOf, Past
<1>3. CASE StoreLow(s)
  <2>1. /\ pulsePc[s] = "store_low" /\ pulsePc'[s] = "wait" /\ UNCHANGED <<measure, sampled>>
        /\ registers'[s].high = registers[s].high /\ registers'[s].low = measure[s] % WORD
    BY <1>3, <1>t DEF StoreLow
  <2>2. Reg(s)' = measure[s]
    <3>1. registers'[s].high = measure[s] \div WORD
      BY <2>1 DEF SlaveOf
    <3> QED
      BY <1>h, <2>1, <3>1, WordTypes DEF Reg
  <2>3. \A u : u \in Had(s) => u \in Had(s)'
    BY <1>g, <1>h, <2>1
  <2>4. ~(Sampling(s)' /\ ~sampled'[s].raced)
    BY <2>1 DEF Sampling, SlaveOf
  <2>5. \A u : u \in Had(s) => Follows(measure[s], u)
    BY <1>h DEF Follows
  <2> QED
    BY <1>h, <2>1, <2>2, <2>3, <2>4, <2>5 DEF SlaveOf, Past
<1>4. CASE SlaveReset(s)
  <2>1. /\ pulsePc'[s] = "store_high" /\ measure'[s] = measure[s]
        /\ registers'[s] = NoWords /\ sampled'[s] = NoSample
    BY <1>4, <1>t DEF SlaveReset, Recovered
  <2>2. Reg(s)' = 0
    BY <2>1, ByteTypes DEF Reg, NoWords
  <2>3. ~Sampling(s)'
    BY <2>1 DEF Sampling, NoSample
  <2>4. \A u : u \in Had(s) => u \in Had(s)'
    BY <1>g, <1>h, <2>1
  <2>5. 0 \in Had(s)' /\ \A u : Follows(0, u)
    BY <2>4, HadTypes DEF Follows
  <2> QED
    BY <2>1, <2>2, <2>3, <2>4, <2>5 DEF SlaveOf, Past
<1> QED
  BY <1>1, <1>2, <1>3, <1>4 DEF PulseStep

LEMMA SlaveReads ==
    ASSUME TypeInv, TypeInv', NEW s \in Slaves, SlaveOf(s),
           ReadFirst(s) \/ ReadNext(s) \/ AnswerRead(s)
    PROVE  SlaveOf(s)' /\ \A u : Past(s, u) => Past(s, u)'
<1>t. sampled \in [Slaves -> [bytes : Seq(Bytes), raced : BOOLEAN]]
  BY DEF TypeInv, TypeOK
<1>1. UNCHANGED <<measure, pulsePc, registers>>
  BY DEF ReadFirst, ReadNext, AnswerRead
<1>2. Reg(s)' = Reg(s) /\ Had(s)' = Had(s)
  BY <1>1 DEF Reg, Had
<1>3. \A u : Past(s, u) => Past(s, u)'
  BY <1>1, <1>2 DEF Past
<1>4. Sampling(s)' /\ ~sampled'[s].raced =>
          /\ pulsePc[s] # "store_low"
          /\ \A i \in 1 .. Len(sampled'[s].bytes) : sampled'[s].bytes[i] = ByteOf(registers[s], i)
  <2>1. CASE ReadFirst(s)
    <3>1. /\ sampled'[s].bytes = <<ByteOf(registers[s], 1)>>
          /\ sampled'[s].raced = (pulsePc[s] = "store_low")
      BY <1>t, <2>1 DEF ReadFirst
    <3> DEFINE q == <<ByteOf(registers[s], 1)>>
    <3>2. Len(q) = 1 /\ q[1] = ByteOf(registers[s], 1)
      OBVIOUS
    <3> HIDE DEF q
    <3>3. \A i \in 1 .. Len(q) : q[i] = ByteOf(registers[s], i)
      BY <3>2
    <3> QED
      BY <3>1, <3>3 DEF q
  <2>2. CASE ReadNext(s)
    <3> DEFINE n == Len(sampled[s].bytes)
               b == ByteOf(registers[s], n + 1)
    <3>1. /\ n \in 1 .. 2 /\ sampled'[s].bytes = Append(sampled[s].bytes, b)
          /\ sampled'[s].raced = sampled[s].raced
      BY <1>t, <2>2 DEF ReadNext
    <3>2. b \in Bytes
      <4>1. \A i \in 1 .. 2 : i + 1 \in Nat
        OBVIOUS
      <4>2. \A i \in Nat : ByteOf(registers[s], i) \in Bytes
        BY RegistersType
      <4> HIDE DEF n
      <4>3. n + 1 \in Nat
        BY <3>1, <4>1
      <4> QED
        BY <4>2, <4>3
    <3>3. Len(sampled'[s].bytes) = n + 1
          /\ \A i \in 1 .. n + 1 : sampled'[s].bytes[i] = IF i = n + 1 THEN b ELSE sampled[s].bytes[i]
      BY <3>1, <3>2, SampledType
    <3> HIDE DEF n
    <3>n. n # 0
      BY <3>1
    <3>4. Sampling(s)
      BY <3>n, NoneTypes DEF Sampling, n
    <3>5. \A i \in 1 .. n + 1 : i # n + 1 => i \in 1 .. n
      BY <3>1
    <3> QED
      BY <3>1, <3>3, <3>4, <3>5 DEF SlaveOf, n
  <2>3. CASE AnswerRead(s)
    <3>1. sampled'[s] = NoSample
      BY <1>t, <2>3 DEF AnswerRead
    <3> QED
      BY <3>1 DEF Sampling, NoSample
  <2> QED
    BY <2>1, <2>2, <2>3
<1> QED
  BY <1>1, <1>2, <1>3, <1>4 DEF SlaveOf

LEMMA SlaveStays ==
    ASSUME TypeInv, NEW t \in Slaves, SlaveOf(t),
           UNCHANGED <<measure[t], pulsePc[t], registers[t], sampled[t]>>
    PROVE  SlaveOf(t)' /\ \A u : Past(t, u) => Past(t, u)'
<1>1. Reg(t)' = Reg(t) /\ Had(t)' = Had(t) /\ Sampling(t)' = Sampling(t)
  BY DEF Reg, Had, Sampling
<1> QED
  BY <1>1 DEF SlaveOf, Past

\* What a slave has shown stays behind what it shows: its measure only grows, and its
\* registers are 0 after a reset.
LEMMA SlaveInvStep ==
    ASSUME TypeInv, TypeInv', SlaveInv, [Next]_vars
    PROVE  SlaveInv' /\ \A t \in Slaves : \A u : Past(t, u) => Past(t, u)'
<1>1. \A t \in Slaves : SlaveOf(t)
  BY DEF SlaveInv, SlaveOf
<1>2. ASSUME NEW t \in Slaves
      PROVE  SlaveOf(t)' /\ \A u : Past(t, u) => Past(t, u)'
  <2>1. CASE UNCHANGED slaveVars
    BY <1>1, <2>1, SlaveStays DEF slaveVars
  <2>2. ASSUME NEW s \in Slaves,
               PulseStep(s) \/ ReadFirst(s) \/ ReadNext(s) \/ AnswerRead(s) \/ SlaveReset(s)
        PROVE  SlaveOf(t)' /\ \A u : Past(t, u) => Past(t, u)'
    <3>1. CASE s = t
      BY <1>1, <2>2, <3>1, SlavePulse, SlaveReads
    <3>2. CASE s # t
      <4>1. UNCHANGED <<measure[t], pulsePc[t], registers[t], sampled[t]>>
        <5>t. /\ measure \in [Slaves -> Nat]
              /\ pulsePc \in [Slaves -> {"wait", "store_high", "store_low"}]
              /\ registers \in [Slaves -> [high : 0 .. (WORD - 1), low : 0 .. (WORD - 1)]]
              /\ sampled \in [Slaves -> [bytes : Seq(Bytes), raced : BOOLEAN]]
          BY <1>1 DEF TypeInv, TypeOK
        <5>1. CASE PulseStep(s)
          BY <3>2, <5>t, <5>1 DEF PulseStep, Consume, StoreHigh, StoreLow
        <5>2. CASE ReadFirst(s) \/ ReadNext(s) \/ AnswerRead(s)
          BY <3>2, <5>t, <5>2 DEF ReadFirst, ReadNext, AnswerRead
        <5>3. CASE SlaveReset(s)
          BY <3>2, <5>t, <5>3 DEF SlaveReset
        <5> QED
          BY <2>2, <5>1, <5>2, <5>3
      <4> QED
        BY <1>1, <4>1, SlaveStays
    <3> QED
      BY <3>1, <3>2
  <2> QED
    BY <2>1, <2>2, SlaveChanges
<1>3. SlaveInv'
  BY <1>2 DEF SlaveInv, SlaveOf
<1> QED
  BY <1>2, <1>3

\* The answer to a read that did not race says what the registers show.
LEMMA AnswerIsReg ==
    ASSUME TypeInv, SlaveInv, NEW s \in Slaves, Len(sampled[s].bytes) = 3, ~sampled[s].raced,
           NEW f, f.data = Append(sampled[s].bytes, ByteOf(registers[s], 4))
    PROVE  Value(f) = Reg(s) /\ pulsePc[s] # "store_low" /\ Reg(s) \in Had(s)
<1> DEFINE q == sampled[s].bytes
           b == ByteOf(registers[s], 4)
<1>1. Sampling(s)
  <2> SUFFICES ASSUME q = <<>> PROVE FALSE
    BY DEF Sampling
  <2> DEFINE n == Len(<<>>)
  <2>1. n = 0
    BY EmptySeq
  <2> HIDE DEF n
  <2>2. n = 3
    BY DEF n
  <2> QED
    BY <2>1, <2>2
<1>2. /\ pulsePc[s] # "store_low" /\ Reg(s) \in Had(s)
      /\ \A i \in 1 .. Len(q) : q[i] = ByteOf(registers[s], i)
  BY <1>1 DEF SlaveInv
<1>3. b \in Bytes
  BY RegistersType
<1>4. /\ Len(f.data) = 4
      /\ \A i \in 1 .. 4 : f.data[i] = IF i = 4 THEN b ELSE q[i]
  <2> DEFINE n == Len(q)
             m == Len(f.data)
  <2>1. n = 3 /\ m = n + 1 /\ \A i \in 1 .. m : f.data[i] = IF i = n + 1 THEN b ELSE q[i]
    <3> HIDE DEF b
    <3>1. LET bytes == Append(q, b)
          IN /\ Len(bytes) = Len(q) + 1
             /\ \A i \in 1 .. Len(bytes) : bytes[i] = IF i = Len(q) + 1 THEN b ELSE q[i]
      BY <1>3, SampledType
    <3>2. f.data = Append(q, b)
      BY DEF b
    <3>3. Len(q) = 3
      OBVIOUS
    <3> QED
      BY <3>1, <3>2, <3>3
  <2> HIDE DEF n, m, b, q
  <2>2. m = 4
    BY <2>1
  <2> QED
    BY <2>1, <2>2 DEF m
<1>5. /\ f.data[1] = ByteOf(registers[s], 1) /\ f.data[2] = ByteOf(registers[s], 2)
      /\ f.data[3] = ByteOf(registers[s], 3) /\ f.data[4] = ByteOf(registers[s], 4)
  BY <1>2, <1>4
<1>6. Value(f) = registers[s].high * WORD + registers[s].low
  BY <1>5, BytesOfWords, RegistersType DEF Value
<1> QED
  BY <1>2, <1>6 DEF Reg

-----------------------------------------------------------------------------
(* The cache: what the master task saves *)

Settled(s) == ~(Saving(s) /\ masterPc = "save_low") /\ s \notin raced

\* The values of slave s that the master task has taken out of the ring.
Taken(s) == {shown[s]}
            \cup (IF Settled(s) THEN {Cached(s)} ELSE {})
            \cup (IF Clean(slave_response, s) THEN {Value(slave_response)} ELSE {})

\* No value that the gateway has of a slave is ahead of what the slave shows.
KnownInv ==
    \A s \in Slaves :
        /\ \A u \in Taken(s) : Past(s, u)
        /\ \A i \in 1 .. Len(ring) : Clean(ring[i], s) => Past(s, Value(ring[i]))

\* The ring keeps the order in which the slave was read.
RingInv ==
    \A s \in Slaves :
        /\ \A i, j \in 1 .. Len(ring) :
              i < j /\ Clean(ring[i], s) /\ Clean(ring[j], s) =>
                  Follows(Value(ring[j]), Value(ring[i]))
        /\ \A i \in 1 .. Len(ring) : Clean(ring[i], s) =>
              \A u \in Taken(s) : Follows(Value(ring[i]), u)

\* The buffer is an answer that is being saved or the last one saved for its slave.
SaveInv ==
    LET r == slave_response.slave
    IN /\ masterPc \in SaveSteps => slave_response.intact
       /\ masterPc = "save_low" => /\ inputRegister[High(r)] = Received(1)
                                   /\ r \in raced <=> slave_response.raced
       /\ /\ slave_response.function = "READ_INPUT" /\ slave_response.intact
          /\ masterPc \notin {"save_high", "save_low"}
          => /\ Cached(r) = Value(slave_response)
             /\ r \in raced <=> slave_response.raced
       /\ masterPc \in SaveSteps /\ ~slave_response.raced =>
              Follows(Value(slave_response), shown[r])
       /\ CacheNeverGoesBack

\* A slave has its own two registers.
LEMMA OwnRegisters ==
    ASSUME NEW s \in Slaves, NEW t \in Slaves
    PROVE  /\ High(s) # Low(t) /\ Low(s) # High(t)
           /\ s # t => High(s) # High(t) /\ Low(s) # Low(t)
  BY GatewayAssumption DEF High, Low, Slaves

LEMMA ValueType ==
    ASSUME NEW f \in Whole, f.function = "READ_INPUT"
    PROVE  Value(f) \in Nat
<1>1. /\ f.data[1] \in Bytes /\ f.data[2] \in Bytes /\ f.data[3] \in Bytes /\ f.data[4] \in Bytes
  BY FrameType
<1>2. \A a, b \in Bytes : a * BYTE + b \in 0 .. (WORD - 1)
  BY ByteTypes
<1>3. \A h, l, w \in Nat : h * w + l \in Nat
  OBVIOUS
<1>4. WORD \in Nat /\ 0 .. (WORD - 1) \subseteq Nat
  BY ByteTypes
<1>5. f.data[1] * BYTE + f.data[2] \in Nat /\ f.data[3] * BYTE + f.data[4] \in Nat
  BY <1>1, <1>2, <1>4
<1>6. ASSUME NEW h \in Nat, NEW l \in Nat
      PROVE  h * WORD + l \in Nat
  BY <1>3, <1>4
<1> QED
  BY <1>5, <1>6 DEF Value

\* Frames leave the ring from the front, or all of them.
LEMMA KnownKept ==
    ASSUME KnownInv, RingInv, ring' \in {ring, <<>>},
           \A s \in Slaves : /\ \A u : Past(s, u) => Past(s, u)'
                             /\ Taken(s)' \subseteq Taken(s)
    PROVE  KnownInv' /\ RingInv'
<1>1. \A i \in 1 .. Len(ring') : i \in 1 .. Len(ring) /\ ring'[i] = ring[i]
  <2>1. CASE ring' = ring
    BY <2>1
  <2>2. CASE ring' = <<>>
    <3> DEFINE n == Len(ring')
    <3>1. n = 0
      BY <2>2, EmptySeq
    <3> HIDE DEF n
    <3>2. 1 .. n = {}
      BY <3>1
    <3> QED
      BY <3>2 DEF n
  <2> QED
    BY <2>1, <2>2
<1>2. \A f, s : Clean(f, s)' = Clean(f, s) /\ Value(f)' = Value(f)
  BY DEF Clean, Value
<1>3. KnownInv'
  <2> SUFFICES ASSUME NEW s \in Slaves
               PROVE  /\ \A u \in Taken(s)' : Past(s, u)'
                      /\ \A i \in 1 .. Len(ring') : Clean(ring[i], s)' => Past(s, Value(ring[i]))'
    BY DEF KnownInv
  <2>1. \A u \in Taken(s)' : Past(s, u)'
    BY DEF KnownInv
  <2>2. ASSUME NEW i \in 1 .. Len(ring'), Clean(ring[i], s)'
        PROVE  Past(s, Value(ring[i]))'
    <3>1. ring'[i] = ring[i] /\ i \in 1 .. Len(ring)
      BY <1>1
    <3>2. Clean(ring[i], s) /\ Value(ring[i])' = Value(ring[i])
      BY <2>2, <3>1 DEF Clean, Value
    <3>3. Past(s, Value(ring[i]))
      BY <3>1, <3>2 DEF KnownInv
    <3>4. \A u : Past(s, u) => Past(s, u)'
      OBVIOUS
    <3>5. \A u : u = Value(ring[i]) => Past(s, u)'
      BY <3>3, <3>4
    <3> QED
      BY <3>2, <3>5 DEF Past
  <2> QED
    BY <2>1, <2>2
<1>4. RingInv'
  BY <1>1 DEF RingInv, Clean, Value
<1> QED
  BY <1>3, <1>4

\* Nothing is saved.
LEMMA SaveKept ==
    ASSUME SaveInv, UNCHANGED <<slave_response, inputRegister, raced, shown>>,
           masterPc' = masterPc \/ (masterPc \notin SaveSteps /\ masterPc' \notin SaveSteps)
    PROVE  SaveInv' /\ \A s \in Slaves : Taken(s)' = Taken(s)
<1>1. \A s : /\ Cached(s)' = Cached(s) /\ Saving(s)' = Saving(s)
             /\ (Saving(s) /\ masterPc = "save_low")' = (Saving(s) /\ masterPc = "save_low")
  BY DEF Cached, Saving, SaveSteps
<1>2. \A f, s : Value(f)' = Value(f) /\ Clean(f, s)' = Clean(f, s)
  BY DEF Value, Clean
<1>3. \A s \in Slaves : Taken(s)' = Taken(s)
  <2>1. \A s : Settled(s)' = Settled(s)
    BY <1>1 DEF Settled
  <2>2. \A s : Clean(slave_response, s)' = Clean(slave_response, s)
    BY DEF Clean
  <2>3. Value(slave_response)' = Value(slave_response)
    BY DEF Value
  <2> QED
    BY <1>1, <2>1, <2>2, <2>3 DEF Taken
<1>4. SaveInv'
  <2>1. CacheNeverGoesBack'
    BY <1>1 DEF SaveInv, CacheNeverGoesBack
  <2>2. Received(1)' = Received(1) /\ Value(slave_response)' = Value(slave_response)
        /\ Cached(slave_response.slave)' = Cached(slave_response.slave)
    BY DEF Received, Value, Cached
  <2>3. /\ masterPc' \in SaveSteps <=> masterPc \in SaveSteps
        /\ masterPc' = "save_low" <=> masterPc = "save_low"
        /\ masterPc' = "save_high" <=> masterPc = "save_high"
    BY DEF SaveSteps
  <2> QED
    BY <2>1, <2>2, <2>3 DEF SaveInv
<1> QED
  BY <1>3, <1>4

\* A frame that comes behind the others, and says what its slave shows.
LEMMA KnownMore ==
    ASSUME TypeInv, KnownInv, RingInv, NEW f \in Whole, NEW t \in Slaves, f.slave = t,
           ring' = Append(ring, f),
           Clean(f, t) => Value(f) = Reg(t) /\ pulsePc[t] # "store_low" /\ Reg(t) \in Had(t),
           \A s \in Slaves : /\ \A u : Past(s, u) => Past(s, u)'
                             /\ Taken(s)' = Taken(s)
    PROVE  KnownInv' /\ RingInv'
<1> DEFINE n == Len(ring)
<1>1. /\ n \in Nat /\ Len(ring') = n + 1
      /\ \A i \in 1 .. n + 1 : ring'[i] = IF i = n + 1 THEN f ELSE ring[i]
  <2>1. ring \in Seq(Whole)
    BY DEF TypeInv
  <2> QED
    BY <2>1, QueueTypes
<1> HIDE DEF n
<1>2. \A s \in Slaves : Clean(f, s) => s = t
  BY DEF Clean
<1>3. ASSUME Clean(f, t)
      PROVE  /\ Past(t, Value(f))
             /\ \A u : Past(t, u) => Follows(Value(f), u)
  <2>1. Value(f) = Reg(t) /\ pulsePc[t] # "store_low" /\ Reg(t) \in Had(t) /\ Reg(t) \in Nat
    BY <1>3, RegType
  <2>2. Follows(Reg(t), Reg(t))
    BY <2>1 DEF Follows
  <2> QED
    BY <2>1, <2>2 DEF Past
<1>4. ASSUME NEW i \in 1 .. n + 1, i # n + 1
      PROVE  i \in 1 .. n
  BY <1>1, <1>4
<1>k. 1 .. Len(ring) = 1 .. n
  BY DEF n
<1>5. KnownInv'
  <2> SUFFICES ASSUME NEW s \in Slaves
               PROVE  /\ \A u \in Taken(s)' : Past(s, u)'
                      /\ \A i \in 1 .. Len(ring') : Clean(ring[i], s)' => Past(s, Value(ring[i]))'
    BY DEF KnownInv
  <2>1. \A u \in Taken(s)' : Past(s, u)'
    BY DEF KnownInv
  <2>2. ASSUME NEW i \in 1 .. n + 1, Clean(ring[i], s)'
        PROVE  Past(s, Value(ring[i]))'
    <3> DEFINE g == ring'[i]
    <3>1. Clean(g, s)
      BY <2>2 DEF Clean
    <3>2. Past(s, Value(g))
      <4>1. CASE i = n + 1
        BY <1>1, <1>2, <1>3, <3>1, <4>1
      <4>2. CASE i # n + 1
        BY <1>1, <1>4, <1>k, <3>1, <4>2 DEF KnownInv
      <4> QED
        BY <4>1, <4>2
    <3>3. \A u : Past(s, u) => Past(s, u)'
      OBVIOUS
    <3>4. \A u : u = Value(g) => Past(s, u)'
      BY <3>2, <3>3
    <3>5. Value(ring[i])' = Value(g)
      BY DEF Value
    <3> QED
      BY <3>4, <3>5 DEF Past
  <2> QED
    BY <1>1, <2>1, <2>2
<1>6. RingInv'
  <2>c. \A g, s : Clean(g, s)' = Clean(g, s) /\ Value(g)' = Value(g)
    BY DEF Clean, Value
  <2>1. ASSUME NEW s \in Slaves, NEW i \in 1 .. n + 1, NEW j \in 1 .. n + 1, i < j,
               Clean(ring'[i], s), Clean(ring'[j], s)
        PROVE  Follows(Value(ring'[j]), Value(ring'[i]))
    <3>1. i \in 1 .. n /\ ring'[i] = ring[i]
      <4>1. i # n + 1
        BY <1>1, <2>1
      <4> QED
        BY <1>1, <1>4, <4>1
    <3>2. CASE j = n + 1
      <4>1. ring'[j] = f /\ s = t
        BY <1>1, <1>2, <2>1, <3>2
      <4>2. Past(s, Value(ring[i]))
        BY <1>k, <2>1, <3>1 DEF KnownInv
      <4> QED
        BY <1>3, <2>1, <3>1, <4>1, <4>2
    <3>3. CASE j # n + 1
      <4>1. j \in 1 .. n /\ ring'[j] = ring[j]
        BY <1>1, <1>4, <3>3
      <4> QED
        BY <1>k, <2>1, <3>1, <4>1 DEF RingInv
    <3> QED
      BY <3>2, <3>3
  <2>2. ASSUME NEW s \in Slaves, NEW i \in 1 .. n + 1, Clean(ring'[i], s), NEW u \in Taken(s)
        PROVE  Follows(Value(ring'[i]), u)
    <3>1. CASE i = n + 1
      <4>1. ring'[i] = f /\ s = t
        BY <1>1, <1>2, <2>2, <3>1
      <4>2. Past(s, u)
        BY DEF KnownInv
      <4> QED
        BY <1>3, <2>2, <4>1, <4>2
    <3>2. CASE i # n + 1
      <4>1. i \in 1 .. n /\ ring'[i] = ring[i]
        BY <1>1, <1>4, <3>2
      <4> QED
        BY <1>k, <2>2, <4>1 DEF RingInv
    <3> QED
      BY <3>1, <3>2
  <2> QED
    BY <1>1, <2>1, <2>2 DEF RingInv, Clean, Value
<1> QED
  BY <1>5, <1>6

\* The last frame of the ring or none of them comes: what Arrive does to the ring.
LEMMA CacheAnswer ==
    ASSUME TypeInv, TypeInv', SlaveInv, KnownInv, RingInv, SaveInv, NEW t \in Slaves,
           AnswerRead(t) \/ AnswerCoil(t),
           \A s \in Slaves : \A u : Past(s, u) => Past(s, u)'
    PROVE  KnownInv' /\ RingInv' /\ SaveInv'
<1>1. UNCHANGED <<masterPc, slave_response, inputRegister, raced, shown>>
  BY DEF AnswerRead, AnswerCoil, masterVars, cacheVars
<1>2. SaveInv' /\ \A s \in Slaves : Taken(s)' = Taken(s)
  BY <1>1, SaveKept
<1>3. PICK f \in Whole :
        /\ f.slave = t /\ ring' \in {ring, Append(ring, f), Append(ring, [f EXCEPT !.intact = FALSE])}
        /\ Clean(f, t) => Value(f) = Reg(t) /\ pulsePc[t] # "store_low" /\ Reg(t) \in Had(t)
  <2>1. CASE AnswerRead(t)
    <3> DEFINE f == [slave |-> t, function |-> "READ_INPUT",
                     data |-> Append(sampled[t].bytes, ByteOf(registers[t], 4)),
                     raced |-> sampled[t].raced, intact |-> TRUE]
    <3>1. f \in Whole /\ f.slave = t /\ f.raced = sampled[t].raced
          /\ f.data = Append(sampled[t].bytes, ByteOf(registers[t], 4))
      BY <2>1, AnswerType DEF AnswerRead
    <3>2. Respond(f) /\ Len(sampled[t].bytes) = 3
      BY <2>1 DEF AnswerRead
    <3> HIDE DEF f
    <3>3. ring' \in {ring, Append(ring, f), Append(ring, [f EXCEPT !.intact = FALSE])}
      BY <3>1, <3>2, RespondType
    <3>4. Clean(f, t) => Value(f) = Reg(t) /\ pulsePc[t] # "store_low" /\ Reg(t) \in Had(t)
      BY <3>1, <3>2, AnswerIsReg DEF Clean
    <3> QED
      BY <3>1, <3>3, <3>4
  <2>2. CASE AnswerCoil(t)
    <3> DEFINE f == [slave |-> t, function |-> "WRITE_SINGLE_COIL", data |-> <<>>,
                     raced |-> FALSE, intact |-> TRUE]
    <3>1. f \in Whole /\ f.slave = t /\ ~Clean(f, t)
      BY AnswerType DEF Clean
    <3>2. Respond(f)
      BY <2>2 DEF AnswerCoil
    <3> HIDE DEF f
    <3>3. ring' \in {ring, Append(ring, f), Append(ring, [f EXCEPT !.intact = FALSE])}
      BY <3>1, <3>2, RespondType
    <3> QED
      BY <3>1, <3>3
  <2> QED
    BY <2>1, <2>2
<1>4. CASE ring' = ring
  BY <1>2, <1>4, KnownKept
<1>5. CASE ring' = Append(ring, f)
  BY <1>2, <1>3, <1>5, KnownMore
<1>6. CASE ring' = Append(ring, [f EXCEPT !.intact = FALSE])
  <2> DEFINE g == [f EXCEPT !.intact = FALSE]
  <2>1. g \in Whole /\ g.slave = t /\ ~Clean(g, t)
    BY <1>3, FrameType DEF Clean, Whole, Frame
  <2>2. ring' = Append(ring, g)
    BY <1>6
  <2> HIDE DEF g
  <2>3. KnownInv' /\ RingInv'
    BY <1>2, <2>1, <2>2, KnownMore
  <2> QED
    BY <1>2, <2>3
<1> QED
  BY <1>2, <1>3, <1>4, <1>5, <1>6

\* Steps of the master task leave the slaves alone.
LEMMA MasterPast ==
    ASSUME MasterStep
    PROVE  /\ UNCHANGED <<measure, pulsePc, registers>>
           /\ \A s \in Slaves : \A u : Past(s, u)' <=> Past(s, u)
<1>1. UNCHANGED <<measure, pulsePc, registers>>
  BY MasterLeaves DEF slaveVars
<1> QED
  BY <1>1 DEF Past, Had, Reg, Follows

\* save_register takes up the next answer, or the one in the buffer once more.
LEMMA CacheRead ==
    ASSUME TypeInv, TypeInv', KnownInv, RingInv, SaveInv, MasterRead
    PROVE  KnownInv' /\ RingInv' /\ SaveInv'
<1> DEFINE b == Buffer
           r == b.slave
<1>b. /\ b \in Whole /\ r \in Slaves /\ b.intact /\ b.function = event /\ b.raced \in BOOLEAN
      /\ b = (IF ring = <<>> THEN slave_response ELSE Head(ring))
  <2>1. b \in Whole /\ r \in Slaves /\ b.intact /\ b.function = event
    BY BufferType DEF MasterRead, Verified
  <2>2. [slave_response EXCEPT !.intact = FALSE].intact = FALSE
    BY DEF TypeInv, TypeOK, Frame
  <2>3. b = (IF ring = <<>> THEN slave_response ELSE Head(ring))
    BY <2>1, <2>2 DEF Buffer
  <2> QED
    BY <2>1, <2>3, FrameType
<1>1. /\ slave_response' = b /\ masterPc = "read"
      /\ ring' = (IF ring = <<>> THEN ring ELSE Tail(ring))
      /\ UNCHANGED <<inputRegister, raced>>
  BY DEF MasterRead
<1> HIDE DEF b
<1>p. /\ \A s \in Slaves : \A u : Past(s, u)' <=> Past(s, u)
      /\ \A f, s : Clean(f, s)' = Clean(f, s) /\ Value(f)' = Value(f)
  BY MasterPast DEF MasterStep, InputStep, Clean, Value
<1>2. \A s \in Slaves :
         /\ ~Saving(s) /\ Cached(s)' = Cached(s)
         /\ Settled(s) <=> s \notin raced
         /\ Settled(s)' <=> s \notin raced
  <2>1. masterPc' \in {"save_high", "receive"}
    BY DEF MasterRead
  <2> QED
    BY <1>1, <2>1 DEF Saving, Settled, Cached, SaveSteps
<1>3. \A s \in Slaves : shown'[s] \in Taken(s)
  <2>1. \A s \in Slaves : shown'[s] = IF event = "READ_INPUT" /\ s = r /\ s \notin raced
                                      THEN Cached(s) ELSE shown[s]
    <3>1. /\ shown \in [Slaves -> Nat] /\ r \in Slaves
          /\ shown' = IF event = "READ_INPUT"
                       THEN [shown EXCEPT ![r] = IF r \in raced THEN @ ELSE Cached(r)]
                       ELSE shown
      BY <1>b DEF MasterRead, TypeInv, TypeOK, b
    <3> HIDE DEF r
    <3> QED
      BY <3>1
  <2> QED
    BY <1>2, <2>1 DEF Taken
<1>4. \A s \in Slaves : \A u \in Taken(s)' :
         u \in Taken(s) \/ (Clean(b, s) /\ u = Value(b))
  <2>1. \A s : Clean(slave_response, s)' = Clean(b, s)
    BY <1>1 DEF Clean
  <2>2. Value(slave_response)' = Value(b)
    BY <1>1 DEF Value
  <2> QED
    BY <1>2, <1>3, <2>1, <2>2 DEF Taken
<1>5. SaveInv'
  <2>1. masterPc' \in SaveSteps => masterPc' = "save_high" /\ event = "READ_INPUT"
    BY DEF MasterRead, SaveSteps
  <2>2. masterPc' = (IF event = "READ_INPUT" THEN "save_high" ELSE "receive")
    BY DEF MasterRead
  <2>3. masterPc' \in SaveSteps /\ ~b.raced => Follows(Value(b), shown'[r])
    <3> SUFFICES ASSUME event = "READ_INPUT", ~b.raced
                 PROVE  Follows(Value(b), shown'[r])
      BY <2>1
    <3>1. Clean(b, r)
      BY <1>b DEF Clean
    <3>2. CASE ring = <<>>
      <4>1. b = slave_response /\ masterPc \notin {"save_high", "save_low"}
        BY <1>b, <1>1, <3>2
      <4>2. Cached(r) = Value(b) /\ r \notin raced
        BY <1>b, <4>1 DEF SaveInv
      <4>3. shown'[r] = Cached(r)
        BY <1>b, <4>2 DEF MasterRead, TypeInv, TypeOK, b
      <4>4. Cached(r) \in Nat
        BY <1>b, CachedType DEF TypeInv
      <4> QED
        BY <4>2, <4>3, <4>4 DEF Follows
    <3>3. CASE ring # <<>>
      <4>1. b = ring[1] /\ 1 \in 1 .. Len(ring)
        BY <1>b, <3>3, QueueTypes DEF TypeInv
      <4> QED
        BY <1>b, <1>3, <3>1, <4>1 DEF RingInv
    <3> QED
      BY <3>2, <3>3
  <2>4. CacheNeverGoesBack'
    <3> SUFFICES ASSUME NEW s \in Slaves, ~Saving(s)', s \notin raced
                 PROVE  Cached(s)' >= shown'[s] \/ Cached(s)' = 0
      BY <1>1 DEF CacheNeverGoesBack
    <3>1. ~(event = "READ_INPUT" /\ s = r)
      BY <1>1, <2>2 DEF Saving, SaveSteps
    <3>2. shown'[s] = shown[s]
      BY <3>1 DEF MasterRead, TypeInv, TypeOK, b
    <3> QED
      BY <1>2, <3>2 DEF SaveInv, CacheNeverGoesBack
  <2>5. masterPc' # "save_low"
    BY <2>2
  <2>6. masterPc' \notin {"save_high", "save_low"} => b.function # "READ_INPUT"
    BY <1>b, <2>2
  <2>7. Value(slave_response)' = Value(b)
    BY <1>1 DEF Value
  <2> QED
    BY <1>b, <1>1, <2>3, <2>4, <2>5, <2>6, <2>7 DEF SaveInv
<1>6. CASE ring = <<>>
  <2>1. \A s \in Slaves : Taken(s)' \subseteq Taken(s)
    <3>1. b = slave_response
      BY <1>b, <1>6
    <3> QED
      BY <1>4, <3>1 DEF Taken
  <2> QED
    BY <1>1, <1>5, <1>6, <1>p, <2>1, KnownKept
<1>7. CASE ring # <<>>
  <2> DEFINE n == Len(ring')
  <2>1. /\ b = ring[1] /\ 1 \in 1 .. Len(ring) /\ n \in Nat
        /\ \A i \in 1 .. n : i + 1 \in 1 .. Len(ring) /\ ring'[i] = ring[i + 1]
    <3>1. ring \in Seq(Whole) /\ ring' \in Seq(Whole) /\ ring' = Tail(ring)
      BY <1>1, <1>7 DEF TypeInv
    <3>2. n \in Nat
      BY <3>1, LenProperties
    <3> QED
      BY <1>b, <1>7, <3>1, <3>2, QueueTypes
  <2> HIDE DEF n
  <2>2. KnownInv'
    <3> SUFFICES ASSUME NEW s \in Slaves
                 PROVE  /\ \A u \in Taken(s)' : Past(s, u)'
                        /\ \A i \in 1 .. Len(ring') : Clean(ring[i], s)' => Past(s, Value(ring[i]))'
      BY DEF KnownInv
    <3>1. \A u \in Taken(s)' : Past(s, u)'
      <4>1. \A u \in Taken(s)' : Past(s, u)
        BY <1>4, <2>1 DEF KnownInv
      <4> QED
        BY <4>1, <1>p
    <3>2. ASSUME NEW i \in 1 .. n, Clean(ring[i], s)'
          PROVE  Past(s, Value(ring[i]))'
      <4> DEFINE g == ring'[i]
      <4>1. Clean(g, s) /\ g = ring[i + 1] /\ i + 1 \in 1 .. Len(ring)
        BY <2>1, <3>2 DEF Clean
      <4>2. Past(s, Value(g))
        BY <4>1 DEF KnownInv
      <4>3. \A u : u = Value(g) => Past(s, u)'
        BY <1>p, <4>2
      <4>4. Value(ring[i])' = Value(g)
        BY DEF Value
      <4> QED
        BY <4>3, <4>4 DEF Past
    <3> QED
      BY <3>1, <3>2 DEF n
  <2>3. RingInv'
    <3>1. ASSUME NEW s \in Slaves, NEW i \in 1 .. n, NEW j \in 1 .. n, i < j,
                 Clean(ring'[i], s), Clean(ring'[j], s)
          PROVE  Follows(Value(ring'[j]), Value(ring'[i]))
      <4>1. i + 1 < j + 1
        BY <2>1, <3>1
      <4> QED
        BY <2>1, <3>1, <4>1 DEF RingInv
    <3>2. ASSUME NEW s \in Slaves, NEW i \in 1 .. n, Clean(ring'[i], s), NEW u \in Taken(s)'
          PROVE  Follows(Value(ring'[i]), u)
      <4>1. ring'[i] = ring[i + 1] /\ i + 1 \in 1 .. Len(ring) /\ 1 < i + 1
        BY <2>1
      <4>2. CASE u \in Taken(s)
        BY <3>2, <4>1, <4>2 DEF RingInv
      <4>3. CASE Clean(b, s) /\ u = Value(b)
        BY <2>1, <3>2, <4>1, <4>3 DEF RingInv
      <4> QED
        BY <1>4, <3>2, <4>2, <4>3
    <3> QED
      BY <3>1, <3>2 DEF RingInv, Clean, Value, n
  <2> QED
    BY <1>5, <2>2, <2>3
<1> QED
  BY <1>6, <1>7

\* The master task reads nothing and saves nothing.
LEMMA CacheIdle ==
    ASSUME TypeInv, KnownInv, RingInv, SaveInv,
           UNCHANGED <<slave_response, inputRegister, raced, shown>>,
           ring' \in {ring, <<>>},
           masterPc' = masterPc \/ (masterPc \notin SaveSteps /\ masterPc' \notin SaveSteps),
           \A s \in Slaves : \A u : Past(s, u) => Past(s, u)'
    PROVE  KnownInv' /\ RingInv' /\ SaveInv'
<1>1. SaveInv' /\ \A s \in Slaves : Taken(s)' = Taken(s)
  BY SaveKept
<1>2. KnownInv' /\ RingInv'
  BY <1>1, KnownKept
<1> QED
  BY <1>1, <1>2

\* A damaged answer in the buffer is not saved, nor is what it replaced any more.
LEMMA CacheCrc ==
    ASSUME TypeInv, TypeInv', KnownInv, RingInv, SaveInv, CrcError
    PROVE  KnownInv' /\ RingInv' /\ SaveInv'
<1>p. \A s \in Slaves : \A u : Past(s, u)' <=> Past(s, u)
  BY MasterPast DEF MasterStep, InputStep
<1>1. /\ masterPc = "read" /\ masterPc' = "receive" /\ ring' = <<>>
      /\ UNCHANGED <<inputRegister, raced, shown>> /\ slave_response' = Buffer
  BY DEF CrcError, cacheVars
<1>2. slave_response' = slave_response \/ ~slave_response'.intact
      \/ slave_response'.function # "READ_INPUT"
  <2>1. CASE ring = <<>>
    BY <1>1, <2>1 DEF Buffer
  <2>2. CASE ring # <<>> /\ Head(ring).function = event
    <3>1. ~slave_response'.intact
      BY <1>1, <2>2 DEF Buffer, CrcError, Verified
    <3> QED
      BY <3>1
  <2>3. CASE ring # <<>> /\ Head(ring).function # event
    <3>1. slave_response' = [slave_response EXCEPT !.intact = FALSE]
      BY <1>1, <2>3 DEF Buffer
    <3> QED
      BY <3>1 DEF TypeInv, TypeOK, Frame
  <2> QED
    BY <2>1, <2>2, <2>3
<1>3. CASE slave_response' = slave_response
  BY <1>1, <1>3, <1>p, CacheIdle DEF SaveSteps
<1>4. CASE ~slave_response'.intact \/ slave_response'.function # "READ_INPUT"
  <2>1. \A s : ~Clean(slave_response, s)'
    BY <1>4 DEF Clean
  <2>2. \A s \in Slaves : /\ Saving(s)' = Saving(s) /\ ~Saving(s) /\ Cached(s)' = Cached(s)
                          /\ Settled(s)' = Settled(s)
    BY <1>1 DEF Saving, SaveSteps, Cached, Settled
  <2>3. \A s \in Slaves : Taken(s)' \subseteq Taken(s)
    <3>1. \A s \in Slaves : Clean(slave_response, s)' = FALSE
      BY <2>1 DEF Clean
    <3> QED
      BY <1>1, <2>2, <3>1 DEF Taken
  <2>4. SaveInv'
    <3>1. CacheNeverGoesBack'
      BY <1>1, <2>2 DEF SaveInv, CacheNeverGoesBack
    <3> QED
      BY <1>1, <1>4, <3>1 DEF SaveInv, SaveSteps
  <2> QED
    BY <1>1, <1>p, <2>3, <2>4, KnownKept
<1> QED
  BY <1>2, <1>3, <1>4

\* The two stores of save_register, and the checks behind them.
LEMMA CacheSave ==
    ASSUME TypeInv, TypeInv', KnownInv, RingInv, SaveInv, SaveStep
    PROVE  KnownInv' /\ RingInv' /\ SaveInv'
<1> DEFINE r == slave_response.slave
<1>p. \A s \in Slaves : \A u : Past(s, u)' <=> Past(s, u)
  BY MasterPast DEF MasterStep
<1>r. /\ r \in Slaves /\ slave_response \in Whole /\ slave_response.function = "READ_INPUT"
      /\ slave_response.intact /\ masterPc \in SaveSteps
      /\ slave_response.raced \in BOOLEAN
  <2>1. masterPc \in SaveSteps
    BY DEF SaveStep, SaveHigh, SaveLow, ClearMask, SetMask, SaveSteps
  <2> QED
    BY <2>1, FrameType DEF TypeInv, SaveInv
<1>1. UNCHANGED <<ring, slave_response, shown>>
  BY DEF SaveStep, SaveHigh, SaveLow, ClearMask, SetMask, cacheVars, uartVars
<1>2. /\ Received(1)' = Received(1) /\ Value(slave_response)' = Value(slave_response)
      /\ \A s : Clean(slave_response, s)' = Clean(slave_response, s)
      /\ \A s : Clean(slave_response, s) <=> s = r /\ ~slave_response.raced
  BY <1>1, <1>r DEF Received, Value, Clean
<1>3. Follows(Value(slave_response), shown[r]) \/ slave_response.raced
  BY <1>r DEF SaveInv
<1>c. inputRegister \in [Registers -> 0 .. (WORD - 1)]
  BY DEF TypeInv, TypeOK
<1>o. \A s \in Slaves : /\ High(s) \in Registers /\ Low(s) \in Registers
                        /\ High(s) # Low(r) /\ Low(s) # High(r)
                        /\ s # r => High(s) # High(r) /\ Low(s) # Low(r)
  BY <1>r, OwnRegisters, NodeTypes
<1>v. Value(slave_response) = Received(1) * WORD + Received(2)
  BY DEF Value, Received
<1> HIDE DEF r
<1>s. Saving(r) /\ \A s \in Slaves : Saving(s) <=> s = r
  BY <1>r DEF Saving, r
<1>k. ASSUME SaveInv', \A s \in Slaves : Taken(s)' \subseteq Taken(s)
      PROVE  KnownInv' /\ RingInv' /\ SaveInv'
  BY <1>1, <1>p, <1>k, KnownKept
<1>4. CASE SaveHigh
  <2>1. /\ masterPc' = "save_low"
        /\ inputRegister' = [inputRegister EXCEPT ![High(r)] = Received(1)]
        /\ raced' = IF slave_response.raced THEN raced \cup {r} ELSE raced \ {r}
    BY <1>4 DEF SaveHigh, r
  <2>2. /\ \A s \in Slaves : Saving(s)' <=> s = r
        /\ \A s \in Slaves : s # r => Cached(s)' = Cached(s)
        /\ inputRegister'[High(r)] = Received(1)
    BY <1>c, <1>o, <1>r, <1>1, <2>1 DEF Saving, SaveSteps, Cached, r
  <2>3. \A s \in Slaves : Taken(s)' \subseteq Taken(s)
    <3> SUFFICES ASSUME NEW s \in Slaves PROVE Taken(s)' \subseteq Taken(s)
      OBVIOUS
    <3>1. Settled(s)' => s # r /\ Settled(s)
      BY <1>s, <2>1, <2>2 DEF Settled
    <3>2. Settled(s)' => Cached(s)' = Cached(s)
      BY <2>2, <3>1
    <3> QED
      BY <1>1, <1>2, <3>1, <3>2 DEF Taken
  <2>4. CacheNeverGoesBack'
    <3> SUFFICES ASSUME NEW s \in Slaves, ~Saving(s)', s \notin raced'
                 PROVE  Cached(s)' >= shown'[s] \/ Cached(s)' = 0
      BY DEF CacheNeverGoesBack
    <3>1. s # r /\ s \notin raced /\ ~Saving(s) /\ Cached(s)' = Cached(s)
      BY <1>s, <2>1, <2>2
    <3> QED
      BY <1>1, <3>1 DEF SaveInv, CacheNeverGoesBack
  <2>5. SaveInv'
    BY <1>1, <1>2, <1>3, <1>r, <2>1, <2>2, <2>4 DEF SaveInv, SaveSteps, r
  <2> QED
    BY <1>k, <2>3, <2>5
<1>5. CASE SaveLow
  <2>1. /\ masterPc = "save_low" /\ masterPc' = "clear_mask" /\ raced' = raced
        /\ inputRegister' = [inputRegister EXCEPT ![Low(r)] = Received(2)]
    BY <1>5 DEF SaveLow, r
  <2>2. /\ \A s \in Slaves : Saving(s)' <=> s = r
        /\ \A s \in Slaves : s # r => Cached(s)' = Cached(s)
    BY <1>c, <1>o, <1>r, <1>1, <2>1 DEF Saving, SaveSteps, Cached, r
  <2>3. /\ \A s \in Slaves : s = r => Cached(s)' = Value(slave_response)
        /\ r \in raced <=> slave_response.raced
    <3>1. inputRegister[High(r)] = Received(1) /\ (r \in raced <=> slave_response.raced)
      BY <2>1 DEF SaveInv, r
    <3>2. \A s \in Slaves : s = r => /\ inputRegister'[High(s)] = Received(1)
                                     /\ inputRegister'[Low(s)] = Received(2)
      BY <1>c, <1>o, <2>1, <3>1
    <3> QED
      BY <1>v, <3>1, <3>2 DEF Cached
  <2>4. \A s \in Slaves : Taken(s)' \subseteq Taken(s)
    <3> SUFFICES ASSUME NEW s \in Slaves PROVE Taken(s)' \subseteq Taken(s)
      OBVIOUS
    <3>1. CASE s = r
      <4>1. Settled(s)' => ~slave_response.raced
        BY <2>1, <2>3, <3>1 DEF Settled
      <4>2. Settled(s)' => Clean(slave_response, s) /\ Cached(s)' = Value(slave_response)
        BY <1>2, <2>3, <3>1, <4>1
      <4> QED
        BY <1>1, <1>2, <4>2 DEF Taken
    <3>2. CASE s # r
      <4>1. Cached(s)' = Cached(s) /\ (Settled(s)' <=> Settled(s))
        BY <1>s, <2>1, <2>2, <3>2 DEF Settled
      <4> QED
        BY <1>1, <1>2, <4>1 DEF Taken
    <3> QED
      BY <3>1, <3>2
  <2>5. CacheNeverGoesBack'
    <3> SUFFICES ASSUME NEW s \in Slaves, ~Saving(s)', s \notin raced'
                 PROVE  Cached(s)' >= shown'[s] \/ Cached(s)' = 0
      BY DEF CacheNeverGoesBack
    <3>1. s # r /\ s \notin raced /\ ~Saving(s) /\ Cached(s)' = Cached(s)
      BY <1>s, <2>1, <2>2
    <3> QED
      BY <1>1, <3>1 DEF SaveInv, CacheNeverGoesBack
  <2>6. SaveInv'
    <3>1. masterPc' # "save_low"
      BY <2>1
    <3>2. Cached(slave_response.slave)' = Value(slave_response)
      <4>1. slave_response.slave \in Slaves /\ slave_response'.slave = slave_response.slave
        BY <1>1, <1>r DEF r
      <4> QED
        BY <2>3, <4>1 DEF r, Cached
    <3> QED
      BY <1>1, <1>2, <1>3, <1>r, <2>1, <2>3, <2>5, <3>1, <3>2 DEF SaveInv, r
  <2> QED
    BY <1>k, <2>4, <2>6
<1>6. CASE ClearMask \/ SetMask
  <2>1. /\ masterPc \in {"clear_mask", "set_mask"} /\ masterPc' \in {"set_mask", "receive"}
        /\ UNCHANGED <<inputRegister, raced>>
    BY <1>6 DEF ClearMask, SetMask, cacheVars
  <2>2. \A s \in Slaves : Cached(s)' = Cached(s) /\ (Settled(s)' <=> Settled(s))
    BY <2>1 DEF Cached, Settled
  <2>3. \A s \in Slaves : Taken(s)' \subseteq Taken(s)
    BY <1>1, <1>2, <2>2 DEF Taken
  <2>4. Cached(r) = Value(slave_response) /\ (r \in raced <=> slave_response.raced)
    BY <1>r, <2>1 DEF SaveInv, r
  <2>5. CacheNeverGoesBack'
    <3> SUFFICES ASSUME NEW s \in Slaves, s \notin raced
                 PROVE  Cached(s) >= shown[s] \/ Cached(s) = 0
      BY <1>1, <2>1, <2>2 DEF CacheNeverGoesBack
    <3>1. CASE s = r
      BY <1>3, <2>4, <3>1 DEF Follows
    <3>2. CASE s # r
      BY <1>s, <3>2 DEF SaveInv, CacheNeverGoesBack
    <3> QED
      BY <3>1, <3>2
  <2>6. SaveInv'
    <3>1. masterPc' \notin {"save_high", "save_low"}
      BY <2>1
    <3>2. Cached(slave_response.slave)' = Value(slave_response)
      BY <1>1, <1>r, <2>2, <2>4 DEF r
    <3> QED
      BY <1>1, <1>2, <1>3, <1>r, <2>1, <2>4, <2>5, <3>1, <3>2 DEF SaveInv, r
  <2> QED
    BY <1>k, <2>3, <2>6
<1> QED
  BY <1>4, <1>5, <1>6 DEF SaveStep

LEMMA CacheMaster ==
    ASSUME TypeInv, TypeInv', KnownInv, RingInv, SaveInv, MasterStep
    PROVE  KnownInv' /\ RingInv' /\ SaveInv'
<1>1. CASE MasterRead
  BY <1>1, CacheRead
<1>2. CASE CrcError
  BY <1>2, CacheCrc
<1>3. CASE SaveStep
  BY <1>3, CacheSave
<1>4. CASE MasterReceive \/ FlushInput \/ ResetQueue \/ FrameError
  <2>1. /\ UNCHANGED <<slave_response, inputRegister, raced, shown>> /\ ring' \in {ring, <<>>}
        /\ masterPc' = masterPc \/ (masterPc \notin SaveSteps /\ masterPc' \notin SaveSteps)
    BY <1>4 DEF MasterReceive, FlushInput, ResetQueue, FrameError, cacheVars, masterVars, SaveSteps
  <2> QED
    BY <2>1, MasterPast, CacheIdle
<1> QED
  BY <1>1, <1>2, <1>3, <1>4 DEF MasterStep, InputStep

\* After a reset the cache of every slave is 0.
NoCache ==
    /\ ring = <<>> /\ masterPc = "receive" /\ slave_response = NoFrame
    /\ inputRegister = [r \in Registers |-> 0] /\ shown = [s \in Slaves |-> 0]

LEMMA CacheNew == TypeInv /\ SlaveInv /\ NoCache => KnownInv /\ RingInv /\ SaveInv
<1> SUFFICES ASSUME TypeInv, SlaveInv, NoCache PROVE KnownInv /\ RingInv /\ SaveInv
  OBVIOUS
<1> USE DEF NoCache
<1>1. \A s \in Slaves : Cached(s) = 0
  BY NodeTypes, ByteTypes DEF Cached
<1>2. \A s \in Slaves : Taken(s) = {0} /\ ~Saving(s)
  BY <1>1 DEF Taken, Clean, NoFrame, Saving, SaveSteps
<1>3. \A s \in Slaves : Past(s, 0)
  <2> SUFFICES ASSUME NEW s \in Slaves PROVE Past(s, 0)
    OBVIOUS
  <2>1. 0 \in Had(s) /\ Reg(s) \in Nat
    BY HadTypes, RegType
  <2> QED
    BY <2>1 DEF Past, Follows
<1>4. 1 .. Len(ring) = {}
  <2> DEFINE n == Len(ring)
  <2>1. n = 0
    BY EmptySeq
  <2> HIDE DEF n
  <2>2. 1 .. n = {}
    BY <2>1
  <2> QED
    BY <2>2 DEF n
<1>5. KnownInv /\ RingInv
  BY <1>2, <1>3, <1>4 DEF KnownInv, RingInv
<1>6. SaveInv
  BY <1>1, <1>2 DEF SaveInv, NoFrame, SaveSteps, CacheNeverGoesBack
<1> QED
  BY <1>5, <1>6

CacheInv == TypeInv /\ SlaveInv /\ KnownInv /\ RingInv /\ SaveInv

LEMMA CacheInit == Init => CacheInv
<1> SUFFICES ASSUME Init PROVE CacheInv
  OBVIOUS
<1>1. TypeInv /\ SlaveInv
  BY TypeInit, SlaveInit
<1>2. NoCache
  BY DEF Init, PoweredOn, NoCache
<1> QED
  BY <1>1, <1>2, CacheNew DEF CacheInv

LEMMA CacheStep == CacheInv /\ [Next]_vars => CacheInv'
<1> SUFFICES ASSUME CacheInv, [Next]_vars PROVE CacheInv'
  OBVIOUS
<1>1. /\ TypeInv /\ TypeInv' /\ SlaveInv /\ SlaveInv'
      /\ KnownInv /\ RingInv /\ SaveInv
      /\ \A s \in Slaves : \A u : Past(s, u) => Past(s, u)'
  BY TypeStep, SlaveInvStep DEF CacheInv
<1>i. ASSUME UNCHANGED <<ring, masterVars, cacheVars>>
      PROVE  CacheInv'
  <2>1. UNCHANGED <<ring, masterPc, slave_response, inputRegister, raced, shown>>
    BY <1>i DEF masterVars, cacheVars
  <2> QED
    BY <1>1, <2>1, CacheIdle DEF CacheInv
<1>2. CASE UNCHANGED vars
  BY <1>i, <1>2 DEF vars, uartVars
<1>3. CASE PollStep \/ LoraStep \/ Requests
  <2>1. UNCHANGED <<ring, masterVars, cacheVars>>
    BY <1>3 DEF PollStep, PollTake, PollIdle, PollSend, LoraStep, ReadBytes, LoraSend, Requests,
                LoraRead, LoraCommandOwn, LoraCommand, uartVars
  <2> QED
    BY <1>i, <2>1
<1>4. CASE MasterStep
  BY <1>1, <1>4, CacheMaster DEF CacheInv
<1>5. CASE Restart
  <2>1. NoCache'
    BY <1>5 DEF Restart, NoCache
  <2>2. TypeInv' /\ SlaveInv' /\ NoCache' => KnownInv' /\ RingInv' /\ SaveInv'
    BY CacheNew, PTL
  <2>3. KnownInv' /\ RingInv' /\ SaveInv'
    BY <1>1, <2>1, <2>2
  <2> QED
    BY <1>1, <2>3 DEF CacheInv
<1>6. CASE \E error \in {"UART_FIFO_OVF", "UART_FRAME_ERR"} : LineError(error)
  BY <1>i, <1>6 DEF LineError
<1>7. ASSUME NEW s \in Slaves, SlaveStep(s) \/ PulseStep(s) \/ LoseRequest(s) \/ SlaveReset(s)
      PROVE  CacheInv'
  <2>1. CASE AnswerRead(s) \/ AnswerCoil(s)
    BY <1>1, <2>1, CacheAnswer DEF CacheInv
  <2>2. CASE ~(AnswerRead(s) \/ AnswerCoil(s))
    <3>1. UNCHANGED ring
      BY <1>7, <2>2 DEF SlaveStep, PulseStep, ReadFirst, ReadNext, Consume, StoreHigh, StoreLow,
                        LoseRequest, SlaveReset, uartVars
    <3> QED
      BY <1>i, <1>7, <3>1, SlaveLeaves
  <2> QED
    BY <2>1, <2>2
<1> QED
  BY <1>2, <1>3, <1>4, <1>5, <1>6, <1>7 DEF Next

LEMMA CacheInvHolds == Spec => []CacheInv
<1>1. CacheInv /\ [Next]_vars => CacheInv'
  BY CacheStep
<1> QED
  BY CacheInit, <1>1, PTL DEF Spec

\* Whatever comes between a request and its answer, the cache of a slave is a measure
\* that the slave has had, if it did not publish it while it was read (save_register).
THEOREM CacheGenuine == Spec => []CacheIsGenuine
<1>1. ASSUME CacheInv PROVE CacheIsGenuine
  <2> SUFFICES ASSUME NEW s \in Slaves, Settled(s) PROVE Cached(s) \in Had(s)
    BY DEF CacheIsGenuine, Settled
  <2>1. Cached(s) \in Taken(s)
    BY DEF Taken
  <2>2. Past(s, Cached(s))
    BY <1>1, <2>1 DEF CacheInv, KnownInv
  <2> QED
    BY <2>2 DEF Past
<1> QED
  BY <1>1, CacheInvHolds, PTL

\* A later answer never takes the cached measure back, but to the 0 of a slave that has
\* just reset (task_modbus_master, save_register).
THEOREM CacheInOrder == Spec => []CacheNeverGoesBack
<1>1. CacheInv => CacheNeverGoesBack
  BY DEF CacheInv, SaveInv
<1> QED
  BY <1>1, CacheInvHolds, PTL

-----------------------------------------------------------------------------
(* Bytes: what a raced read can mix *)

\* Byte i of some measure of slave s.
MeasureByte(s, i) ==
    {ByteOf([high |-> m \div WORD, low |-> m % WORD], i) : m \in Measures[s]}

\* A register pair put together from bytes of measures of s, perhaps of several.
MixedHigh(s) == {a * BYTE + b : a \in MeasureByte(s, 1), b \in MeasureByte(s, 2)}
MixedLow(s)  == {a * BYTE + b : a \in MeasureByte(s, 3), b \in MeasureByte(s, 4)}

\* Frame f has the bytes of measures of its slave.
HasBytes(f) ==
    f.function = "READ_INPUT" => \A i \in 1 .. 4 : f.data[i] \in MeasureByte(f.slave, i)

\* Raced or not, damaged or not, no byte of another slave gets anywhere.
BytesInv ==
    /\ \A s \in Slaves :
          /\ \E m \in Measures[s] : registers[s].high = m \div WORD
          /\ \E m \in Measures[s] : registers[s].low = m % WORD
          /\ \A i \in 1 .. Len(sampled[s].bytes) : sampled[s].bytes[i] \in MeasureByte(s, i)
          /\ inputRegister[High(s)] \in MixedHigh(s) /\ inputRegister[Low(s)] \in MixedLow(s)
          /\ \E h \in MixedHigh(s), l \in MixedLow(s) : before[s] = h * WORD + l
    /\ \A k \in 1 .. Len(ring) : HasBytes(ring[k])
    /\ HasBytes(slave_response)

LEMMA ZeroBytes ==
    ASSUME NEW s \in Slaves
    PROVE  /\ 0 \in Measures[s] /\ 0 \div WORD = 0 /\ 0 % WORD = 0
           /\ \A i \in 1 .. 4 : 0 \in MeasureByte(s, i)
           /\ 0 \in MixedHigh(s) /\ 0 \in MixedLow(s)
<1>1. /\ 0 \in Measures[s] /\ BYTE \in Nat \ {0} /\ WORD \in Nat \ {0}
  BY GatewayAssumption, ByteTypes
<1>2. \A n \in Nat \ {0} : 0 \div n = 0 /\ 0 % n = 0 /\ 0 * n + 0 = 0
  OBVIOUS
<1>3. \A i \in 1 .. 4 : 0 \in MeasureByte(s, i)
  <2> SUFFICES ASSUME NEW i \in 1 .. 4 PROVE 0 \in MeasureByte(s, i)
    OBVIOUS
  <2>1. ByteOf([high |-> 0 \div WORD, low |-> 0 % WORD], i) = 0
    BY <1>1, <1>2 DEF ByteOf
  <2> QED
    BY <1>1, <2>1 DEF MeasureByte
<1>4. 1 \in 1 .. 4 /\ 2 \in 1 .. 4 /\ 3 \in 1 .. 4 /\ 4 \in 1 .. 4
  OBVIOUS
<1>5. 0 * BYTE + 0 = 0
  BY <1>1, <1>2
<1> QED
  BY <1>1, <1>2, <1>3, <1>4, <1>5 DEF MixedHigh, MixedLow

\* What is read of registers that hold words of measures.
LEMMA ReadBytesOf ==
    ASSUME BytesInv, NEW s \in Slaves, NEW i \in 1 .. 4
    PROVE  ByteOf(registers[s], i) \in MeasureByte(s, i)
<1>1. PICK m \in Measures[s] : registers[s].high = m \div WORD
  BY DEF BytesInv
<1>2. PICK n \in Measures[s] : registers[s].low = n % WORD
  BY DEF BytesInv
<1>3. CASE i <= 2
  <2>1. ByteOf(registers[s], i) = ByteOf([high |-> m \div WORD, low |-> m % WORD], i)
    BY <1>1, <1>3 DEF ByteOf
  <2> QED
    BY <2>1 DEF MeasureByte
<1>4. CASE ~(i <= 2)
  <2>1. ByteOf(registers[s], i) = ByteOf([high |-> n \div WORD, low |-> n % WORD], i)
    BY <1>2, <1>4 DEF ByteOf
  <2> QED
    BY <2>1 DEF MeasureByte
<1> QED
  BY <1>3, <1>4

\* The parts of BytesInv of the slaves, of the line, and of the cache.
SlaveBytes(s) ==
    /\ \E m \in Measures[s] : registers[s].high = m \div WORD
    /\ \E m \in Measures[s] : registers[s].low = m % WORD
    /\ \A i \in 1 .. Len(sampled[s].bytes) : sampled[s].bytes[i] \in MeasureByte(s, i)

LineBytes == (\A k \in 1 .. Len(ring) : HasBytes(ring[k])) /\ HasBytes(slave_response)

CacheBytes(s) ==
    /\ inputRegister[High(s)] \in MixedHigh(s) /\ inputRegister[Low(s)] \in MixedLow(s)
    /\ \E h \in MixedHigh(s), l \in MixedLow(s) : before[s] = h * WORD + l

LEMMA BytesInvIs ==
    BytesInv <=> (\A s \in Slaves : SlaveBytes(s) /\ CacheBytes(s)) /\ LineBytes
  BY DEF BytesInv, SlaveBytes, CacheBytes, LineBytes

LEMMA BytesOfSlave ==
    ASSUME TypeInv, BytesInv, [Next]_vars, NEW s \in Slaves
    PROVE  SlaveBytes(s)'
<1>t. /\ pulsePc \in [Slaves -> {"wait", "store_high", "store_low"}]
      /\ registers \in [Slaves -> [high : 0 .. (WORD - 1), low : 0 .. (WORD - 1)]]
      /\ sampled \in [Slaves -> [bytes : Seq(Bytes), raced : BOOLEAN]]
      /\ measure[s] \in Measures[s]
  BY DEF TypeInv, TypeOK
<1>s. SlaveBytes(s)
  BY BytesInvIs
<1>z. /\ NoWords.high = 0 /\ NoWords.low = 0 /\ 0 \in Measures[s]
      /\ 0 \div WORD = 0 /\ 0 % WORD = 0
  BY ZeroBytes DEF NoWords
<1>n. \A i \in 1 .. Len(NoSample.bytes) : FALSE
  <2> DEFINE n == Len(NoSample.bytes)
  <2>1. n = 0
    BY NoneTypes DEF NoSample
  <2> HIDE DEF n
  <2>2. \A i \in 1 .. n : FALSE
    BY <2>1
  <2> QED
    BY <2>2 DEF n
<1>0. ASSUME UNCHANGED <<registers[s], sampled[s]>>
      PROVE  SlaveBytes(s)'
  BY <1>0, <1>s DEF SlaveBytes
<1>1. CASE UNCHANGED slaveVars
  BY <1>0, <1>1 DEF slaveVars
<1>2. ASSUME NEW t \in Slaves, t # s,
             PulseStep(t) \/ ReadFirst(t) \/ ReadNext(t) \/ AnswerRead(t) \/ SlaveReset(t)
      PROVE  SlaveBytes(s)'
  BY <1>0, <1>2, <1>t
     DEF PulseStep, Consume, StoreHigh, StoreLow, ReadFirst, ReadNext, AnswerRead, SlaveReset
<1>3. CASE Consume(s)
  BY <1>0, <1>3 DEF Consume
<1>4. CASE StoreHigh(s) \/ StoreLow(s)
  <2>1. /\ registers'[s].high = registers[s].high \/ registers'[s].high = measure[s] \div WORD
        /\ registers'[s].low = registers[s].low \/ registers'[s].low = measure[s] % WORD
        /\ sampled'[s].bytes = sampled[s].bytes
    BY <1>4, <1>t DEF StoreHigh, StoreLow
  <2> QED
    BY <1>s, <1>t, <2>1 DEF SlaveBytes
<1>5. CASE SlaveReset(s)
  <2>1. registers'[s] = NoWords /\ sampled'[s] = NoSample
    BY <1>5, <1>t DEF SlaveReset
  <2>2. \E m \in Measures[s] : registers'[s].high = m \div WORD
    BY <1>z, <2>1
  <2>3. \E m \in Measures[s] : registers'[s].low = m % WORD
    BY <1>z, <2>1
  <2> QED
    BY <1>n, <2>1, <2>2, <2>3 DEF SlaveBytes
<1>6. CASE AnswerRead(s)
  <2>1. registers'[s] = registers[s] /\ sampled'[s] = NoSample
    BY <1>6, <1>t DEF AnswerRead
  <2> QED
    BY <1>n, <1>s, <2>1 DEF SlaveBytes
<1>7. CASE ReadFirst(s)
  <2> DEFINE q == <<ByteOf(registers[s], 1)>>
  <2>1. registers'[s] = registers[s] /\ sampled'[s].bytes = q
    BY <1>7, <1>t DEF ReadFirst
  <2>2. Len(q) = 1 /\ q[1] \in MeasureByte(s, 1)
    BY ReadBytesOf
  <2> HIDE DEF q
  <2>3. \A i \in 1 .. Len(q) : q[i] \in MeasureByte(s, i)
    BY <2>2
  <2> QED
    BY <1>s, <2>1, <2>3 DEF SlaveBytes
<1>8. CASE ReadNext(s)
  <2> DEFINE n == Len(sampled[s].bytes)
             b == ByteOf(registers[s], n + 1)
  <2>1. /\ n \in 1 .. 2 /\ registers'[s] = registers[s]
        /\ sampled'[s].bytes = Append(sampled[s].bytes, b)
    BY <1>8, <1>t DEF ReadNext
  <2>2. n + 1 \in 1 .. 4
    <3> HIDE DEF n
    <3> QED
      BY <2>1
  <2>3. b \in MeasureByte(s, n + 1) /\ b \in Bytes
    <3> HIDE DEF n
    <3>1. \A i \in 1 .. 4 : ByteOf(registers[s], i) \in MeasureByte(s, i)
      BY ReadBytesOf
    <3>2. \A i \in 1 .. 4 : ByteOf(registers[s], i) \in Bytes
      BY RegistersType
    <3> QED
      BY <2>2, <3>1, <3>2
  <2>4. Len(sampled'[s].bytes) = n + 1
        /\ \A i \in 1 .. n + 1 : sampled'[s].bytes[i] = IF i = n + 1 THEN b ELSE sampled[s].bytes[i]
    BY <2>1, <2>3, SampledType
  <2> HIDE DEF n, b
  <2>5. \A i \in 1 .. n + 1 : i # n + 1 => i \in 1 .. n
    BY <2>1
  <2>6. \A i \in 1 .. n + 1 : sampled'[s].bytes[i] \in MeasureByte(s, i)
    BY <1>s, <2>3, <2>4, <2>5 DEF SlaveBytes, n
  <2> QED
    BY <1>s, <2>1, <2>4, <2>6 DEF SlaveBytes
<1> QED
  BY <1>1, <1>2, <1>3, <1>4, <1>5, <1>6, <1>7, <1>8, SlaveChanges DEF PulseStep

LEMMA BytesOfLine ==
    ASSUME TypeInv, BytesInv, [Next]_vars
    PROVE  LineBytes'
<1>i. \A f : HasBytes(f)' = HasBytes(f)
  BY DEF HasBytes
<1>r. (\A k \in 1 .. Len(ring) : HasBytes(ring[k])) /\ HasBytes(slave_response)
  BY DEF BytesInv
<1>k. ASSUME \A k \in 1 .. Len(ring') : HasBytes(ring'[k]), HasBytes(slave_response')
      PROVE  LineBytes'
  BY <1>k DEF LineBytes, HasBytes
<1>e. \A k \in 1 .. Len(<<>>) : FALSE
  OBVIOUS
<1>w. ring \in Seq(Whole) /\ slave_response \in Whole
  BY DEF TypeInv
<1>b. HasBytes(Buffer)
  <2>1. \A f \in Whole : HasBytes(f) => HasBytes([f EXCEPT !.intact = FALSE])
    BY DEF HasBytes, Whole, Frame
  <2>2. ring # <<>> => HasBytes(Head(ring))
    <3> SUFFICES ASSUME ring # <<>> PROVE HasBytes(Head(ring))
      OBVIOUS
    <3>1. Head(ring) = ring[1] /\ 1 \in 1 .. Len(ring)
      BY <1>w, QueueTypes
    <3> QED
      BY <1>r, <3>1
  <2> QED
    BY <1>r, <1>w, <2>1, <2>2 DEF Buffer
<1>1. CASE UNCHANGED <<ring, slave_response>>
  BY <1>1, <1>k, <1>r
<1>2. CASE MasterRead
  <2>1. /\ slave_response' = Buffer /\ ring' = (IF ring = <<>> THEN ring ELSE Tail(ring))
    BY <1>2 DEF MasterRead
  <2>2. \A k \in 1 .. Len(ring') : HasBytes(ring'[k])
    <3>1. CASE ring = <<>>
      BY <1>r, <2>1, <3>1
    <3>2. CASE ring # <<>>
      <4>1. \A k \in 1 .. Len(ring') : k + 1 \in 1 .. Len(ring) /\ ring'[k] = ring[k + 1]
        BY <1>w, <2>1, <3>2, QueueTypes
      <4> QED
        BY <1>r, <4>1
    <3> QED
      BY <3>1, <3>2
  <2> QED
    BY <1>b, <1>k, <2>1, <2>2
<1>3. CASE CrcError
  BY <1>3, <1>b, <1>e, <1>k DEF CrcError
<1>4. CASE ring' = <<>> /\ slave_response' = slave_response
  BY <1>4, <1>e, <1>k, <1>r
<1>5. CASE Restart
  BY <1>5, <1>e, <1>k DEF Restart, NoFrame, HasBytes
<1>6. ASSUME NEW s \in Slaves, AnswerRead(s) \/ AnswerCoil(s)
      PROVE  LineBytes'
  <2>0. slave_response' = slave_response
    BY <1>6 DEF AnswerRead, AnswerCoil, masterVars
  <2>1. PICK f \in Whole :
          /\ HasBytes(f)
          /\ ring' \in {ring, Append(ring, f), Append(ring, [f EXCEPT !.intact = FALSE])}
    <3>1. CASE AnswerRead(s)
      <4> DEFINE q == sampled[s].bytes
                 b == ByteOf(registers[s], 4)
                 f == [slave |-> s, function |-> "READ_INPUT", data |-> Append(q, b),
                       raced |-> sampled[s].raced, intact |-> TRUE]
      <4>1. f \in Whole /\ Respond(f) /\ Len(q) = 3
        BY <3>1, AnswerType DEF AnswerRead
      <4>2. b \in MeasureByte(s, 4) /\ b \in Bytes
        BY ReadBytesOf, RegistersType
      <4>3. \A i \in 1 .. 4 : Append(q, b)[i] \in MeasureByte(s, i)
        <5>1. \A i \in 1 .. Len(q) : q[i] \in MeasureByte(s, i)
          BY DEF BytesInv
        <5>2. \A i \in 1 .. 4 : Append(q, b)[i] = IF i = 4 THEN b ELSE q[i]
          <6> HIDE DEF b
          <6>1. LET d == Append(q, b)
                IN /\ Len(d) = Len(q) + 1
                   /\ \A i \in 1 .. Len(d) : d[i] = IF i = Len(q) + 1 THEN b ELSE q[i]
            BY <4>2, SampledType
          <6> DEFINE n == Len(q)
                     d == Append(q, b)
                     m == Len(d)
          <6>2. n = 3 /\ m = n + 1
            BY <4>1, <6>1
          <6>3. \A i \in 1 .. m : d[i] = IF i = n + 1 THEN b ELSE q[i]
            BY <6>1
          <6> HIDE DEF n, m, q, d
          <6>4. m = 4 /\ \A i \in 1 .. m : d[i] = IF i = 4 THEN b ELSE q[i]
            BY <6>2, <6>3
          <6> QED
            BY <6>4 DEF d
        <5>3. \A i \in 1 .. 4 : i # 4 => i \in 1 .. 3
          OBVIOUS
        <5> HIDE DEF b
        <5> QED
          BY <4>1, <4>2, <5>1, <5>2, <5>3
      <4>4. HasBytes(f)
        <5> HIDE DEF q, b
        <5> QED
          BY <4>3 DEF HasBytes
      <4> HIDE DEF f
      <4> QED
        BY <4>1, <4>4, RespondType
    <3>2. CASE AnswerCoil(s)
      <4> DEFINE f == [slave |-> s, function |-> "WRITE_SINGLE_COIL", data |-> <<>>,
                       raced |-> FALSE, intact |-> TRUE]
      <4>1. f \in Whole /\ Respond(f) /\ HasBytes(f)
        BY <3>2, AnswerType DEF AnswerCoil, HasBytes
      <4> HIDE DEF f
      <4> QED
        BY <4>1, RespondType
    <3> QED
      BY <1>6, <3>1, <3>2
  <2>2. ASSUME NEW g \in Whole, HasBytes(g), ring' = Append(ring, g)
        PROVE  LineBytes'
    <3> DEFINE n == Len(ring)
    <3>1. /\ n \in Nat /\ Len(ring') = n + 1
          /\ \A i \in 1 .. n + 1 : ring'[i] = IF i = n + 1 THEN g ELSE ring[i]
      BY <1>w, <2>2, QueueTypes
    <3> HIDE DEF n
    <3>2. \A i \in 1 .. n + 1 : i # n + 1 => i \in 1 .. n
      BY <3>1
    <3>3. \A k \in 1 .. n + 1 : HasBytes(ring'[k])
      BY <1>r, <2>2, <3>1, <3>2 DEF n
    <3> QED
      BY <1>k, <1>r, <2>0, <3>1, <3>3
  <2>3. [f EXCEPT !.intact = FALSE] \in Whole /\ HasBytes([f EXCEPT !.intact = FALSE])
    <3>1. [f EXCEPT !.intact = FALSE].function = f.function
          /\ [f EXCEPT !.intact = FALSE].data = f.data
          /\ [f EXCEPT !.intact = FALSE].slave = f.slave
      BY DEF Whole, Frame
    <3> QED
      BY <2>1, <3>1, FrameType DEF HasBytes
  <2> QED
    BY <1>1, <2>0, <2>1, <2>2, <2>3
<1>7. CASE \/ MasterReceive \/ SaveStep \/ PollStep \/ LoraStep \/ Requests \/ UNCHANGED vars
           \/ \E error \in {"UART_FIFO_OVF", "UART_FRAME_ERR"} : LineError(error)
  BY <1>1, <1>7
     DEF vars, uartVars, masterVars, MasterReceive, SaveStep, SaveHigh, SaveLow, ClearMask, SetMask,
         PollStep, PollTake, PollIdle, PollSend, LoraStep, ReadBytes, LoraSend, Requests, LoraRead,
         LoraCommandOwn, LoraCommand, LineError
<1>8. CASE FlushInput \/ ResetQueue \/ FrameError
  BY <1>1, <1>4, <1>8 DEF FlushInput, ResetQueue, FrameError, masterVars
<1>9. ASSUME NEW s \in Slaves, SlaveStep(s) \/ PulseStep(s) \/ LoseRequest(s) \/ SlaveReset(s),
             ~(AnswerRead(s) \/ AnswerCoil(s))
      PROVE  LineBytes'
  BY <1>1, <1>9
     DEF SlaveStep, PulseStep, ReadFirst, ReadNext, Consume, StoreHigh, StoreLow, LoseRequest,
         SlaveReset, uartVars, masterVars
<1> QED
  BY <1>2, <1>3, <1>5, <1>6, <1>7, <1>8, <1>9 DEF Next, MasterStep, InputStep

\* What save_register stores.
LEMMA ReceivedBytes ==
    ASSUME TypeInv, BytesInv, masterPc \in SaveSteps
    PROVE  /\ Received(1) \in MixedHigh(slave_response.slave)
           /\ Received(2) \in MixedLow(slave_response.slave)
<1>1. \A i \in 1 .. 4 : slave_response.data[i] \in MeasureByte(slave_response.slave, i)
  BY DEF BytesInv, HasBytes, TypeInv
<1>2. /\ Received(1) = slave_response.data[1] * BYTE + slave_response.data[2]
      /\ Received(2) = slave_response.data[3] * BYTE + slave_response.data[4]
  BY DEF Received
<1>3. 1 \in 1 .. 4 /\ 2 \in 1 .. 4 /\ 3 \in 1 .. 4 /\ 4 \in 1 .. 4
  OBVIOUS
<1> QED
  BY <1>1, <1>2, <1>3 DEF MixedHigh, MixedLow

LEMMA BytesOfCache ==
    ASSUME TypeInv, BytesInv, [Next]_vars, NEW s \in Slaves
    PROVE  CacheBytes(s)'
<1>t. /\ inputRegister \in [Registers -> 0 .. (WORD - 1)] /\ before \in [Slaves -> Nat]
      /\ slave_response.slave \in Slaves
  BY FrameType DEF TypeInv, TypeOK
<1>s. CacheBytes(s)
  BY BytesInvIs
<1>0. ASSUME UNCHANGED <<inputRegister, before>>
      PROVE  CacheBytes(s)'
  BY <1>0, <1>s DEF CacheBytes
<1>1. CASE MasterRead
  <2> DEFINE r == Buffer.slave
  <2>1. /\ inputRegister' = inputRegister /\ r \in Slaves
        /\ before' \in {before, [before EXCEPT ![r] = Cached(r)]}
    BY <1>1, BufferType DEF MasterRead
  <2> HIDE DEF r
  <2>2. before'[s] = before[s] \/ before'[s] = Cached(s)
    BY <1>t, <2>1
  <2> QED
    BY <1>s, <2>1, <2>2 DEF CacheBytes, Cached
<1>2. CASE SaveHigh \/ SaveLow
  <2> DEFINE r == slave_response.slave
  <2>1. Received(1) \in MixedHigh(r) /\ Received(2) \in MixedLow(r) /\ before' = before
    BY <1>2, ReceivedBytes DEF SaveHigh, SaveLow, SaveSteps
  <2>2. inputRegister' \in {[inputRegister EXCEPT ![High(r)] = Received(1)],
                            [inputRegister EXCEPT ![Low(r)] = Received(2)]}
    BY <1>2 DEF SaveHigh, SaveLow
  <2>3. /\ High(s) \in Registers /\ Low(s) \in Registers /\ High(s) # Low(r) /\ Low(s) # High(r)
        /\ s # r => High(s) # High(r) /\ Low(s) # Low(r)
    BY <1>t, OwnRegisters, NodeTypes
  <2> HIDE DEF r
  <2>4. /\ inputRegister'[High(s)] \in {inputRegister[High(s)]}
              \cup (IF s = r THEN {Received(1)} ELSE {})
        /\ inputRegister'[Low(s)] \in {inputRegister[Low(s)]}
              \cup (IF s = r THEN {Received(2)} ELSE {})
    BY <1>t, <2>2, <2>3
  <2> QED
    BY <1>s, <2>1, <2>4 DEF CacheBytes
<1>3. CASE Restart
  <2>1. inputRegister'[High(s)] = 0 /\ inputRegister'[Low(s)] = 0 /\ before'[s] = 0
    BY <1>3, NodeTypes DEF Restart
  <2>2. 0 * WORD + 0 = 0
    BY ByteTypes
  <2> QED
    BY <2>1, <2>2, ZeroBytes DEF CacheBytes
<1>4. CASE \/ MasterReceive \/ CrcError \/ FlushInput \/ ResetQueue \/ FrameError
           \/ ClearMask \/ SetMask
  BY <1>0, <1>4 DEF MasterReceive, CrcError, FlushInput, ResetQueue, FrameError, ClearMask,
                    SetMask, cacheVars
<1>5. CASE \/ PollStep \/ LoraStep \/ Requests \/ UNCHANGED vars
           \/ \E error \in {"UART_FIFO_OVF", "UART_FRAME_ERR"} : LineError(error)
  BY <1>0, <1>5
     DEF vars, cacheVars, PollStep, PollTake, PollIdle, PollSend, LoraStep, ReadBytes, LoraSend,
         Requests, LoraRead, LoraCommandOwn, LoraCommand, LineError
<1>6. CASE \E t \in Slaves : SlaveStep(t) \/ PulseStep(t) \/ LoseRequest(t) \/ SlaveReset(t)
  BY <1>0, <1>6, SlaveLeaves DEF cacheVars
<1> QED
  BY <1>1, <1>2, <1>3, <1>4, <1>5, <1>6 DEF Next, MasterStep, InputStep, SaveStep

LEMMA BytesInit == Init => BytesInv
<1> SUFFICES ASSUME Init PROVE BytesInv
  OBVIOUS
<1>e. \A k \in 1 .. Len(<<>>) : FALSE
  OBVIOUS
<1>1. ASSUME NEW s \in Slaves
      PROVE  SlaveBytes(s) /\ CacheBytes(s)
  <2>1. /\ registers[s].high = 0 /\ registers[s].low = 0 /\ sampled[s].bytes = <<>>
        /\ inputRegister[High(s)] = 0 /\ inputRegister[Low(s)] = 0 /\ before[s] = 0
    BY NodeTypes DEF Init, PoweredOn, NoWords, NoSample
  <2>2. 0 * WORD + 0 = 0
    BY ByteTypes
  <2>3. SlaveBytes(s)
    BY <1>e, <2>1, ZeroBytes DEF SlaveBytes
  <2>4. CacheBytes(s)
    BY <2>1, <2>2, ZeroBytes DEF CacheBytes
  <2> QED
    BY <2>3, <2>4
<1>2. LineBytes
  BY <1>e DEF Init, PoweredOn, NoFrame, LineBytes, HasBytes
<1> QED
  BY <1>1, <1>2, BytesInvIs

LEMMA BytesStep == TypeInv /\ BytesInv /\ [Next]_vars => BytesInv'
<1> SUFFICES ASSUME TypeInv, BytesInv, [Next]_vars PROVE BytesInv'
  OBVIOUS
<1>1. (\A s \in Slaves : SlaveBytes(s)' /\ CacheBytes(s)') /\ LineBytes'
  BY BytesOfSlave, BytesOfCache, BytesOfLine
<1> QED
  BY <1>1 DEF BytesInv, SlaveBytes, CacheBytes, LineBytes

-----------------------------------------------------------------------------
(* The mask *)

\* No two values, mixed or not, are so far apart that their 32-bit difference comes
\* back into the tolerance: no measure has the topmost bit set.
NoWrap ==
    /\ \E half \in Nat : BYTE = 2 * half
    /\ 2 * TOLERANCE < WORD * WORD
    /\ \A s \in Slaves : \A m \in Measures[s] : 2 * m < WORD * WORD

\* save_register keeps the words that it replaces until the mask is decided.
MaskInv ==
    /\ \A s \in Slaves :
          Saving(s) =>
             /\ masterPc = "save_high" => Cached(s) = before[s]
             /\ masterPc = "save_low" =>
                   tolerance_register.high * WORD + inputRegister[Low(s)] = before[s]
             /\ masterPc = "clear_mask" =>
                   tolerance_register.high * WORD + tolerance_register.low = before[s]
             /\ masterPc = "set_mask" => Distance(Cached(s), before[s]) > TOLERANCE
    /\ MaskFollowsJump

\* The upper digit of a number without its topmost bit, and back.
LEMMA HalfDigits ==
    ASSUME NEW n \in Nat \ {0}, NEW half \in Nat, n = 2 * half
    PROVE  /\ \A m \in 0 .. (n * n - 1) : 2 * m < n * n => 2 * (m \div n) < n
           /\ \A a, b \in 0 .. (n - 1) : 2 * a < n => 2 * (a * n + b) < n * n
<1>1. ASSUME NEW m \in 0 .. (n * n - 1), 2 * m < n * n
      PROVE  2 * (m \div n) < n
  <2> DEFINE d == m \div n
  <2>1. d \in Nat /\ m % n \in Nat /\ m = d * n + (m % n)
    <3>1. d \in 0 .. (n - 1) /\ m % n \in 0 .. (n - 1) /\ d * n + (m % n) = m
      BY Digits
    <3> HIDE DEF d
    <3> QED
      BY <3>1
  <2> HIDE DEF d
  <2> SUFFICES ASSUME 2 * d >= n PROVE FALSE
    BY <2>1 DEF d
  <2>2. (2 * d) * n >= n * n
    <3>1. \A x, y, z \in Nat : x >= y => x * z >= y * z
      OBVIOUS
    <3> QED
      BY <2>1, <3>1
  <2>3. (2 * d) * n = 2 * (d * n) /\ d * n \in Nat
    BY <2>1
  <2> QED
    BY <1>1, <2>1, <2>2, <2>3
<1>2. ASSUME NEW a \in 0 .. (n - 1), NEW b \in 0 .. (n - 1), 2 * a < n
      PROVE  2 * (a * n + b) < n * n
  <2>1. a + 1 <= half
    BY <1>2
  <2>2. (a + 1) * n <= half * n
    <3>1. \A x, y, z \in Nat : x <= y => x * z <= y * z
      OBVIOUS
    <3> QED
      BY <2>1, <3>1
  <2>3. (a + 1) * n = a * n + n /\ a * n \in Nat /\ half * n \in Nat
    BY <1>2
  <2>4. 2 * (half * n) = n * n
    <3>1. 2 * (half * n) = (2 * half) * n
      OBVIOUS
    <3> QED
      BY <3>1
  <2> QED
    BY <2>2, <2>3, <2>4
<1> QED
  BY <1>1, <1>2

\* No value that bytes of such measures make has the topmost bit set either.
LEMMA MixedIsLow ==
    ASSUME NoWrap, NEW s \in Slaves, NEW h \in MixedHigh(s), NEW l \in MixedLow(s)
    PROVE  h * WORD + l \in Nat /\ 2 * (h * WORD + l) < WORD * WORD
<1>1. PICK half \in Nat : BYTE = 2 * half
  BY DEF NoWrap
<1>2. /\ BYTE \in Nat \ {0} /\ WORD \in Nat \ {0}
      /\ BYTE * half \in Nat /\ WORD = 2 * (BYTE * half)
  <2>1. BYTE \in Nat \ {0} /\ WORD \in Nat \ {0}
    BY Bounds, ByteTypes
  <2>2. BYTE * (2 * half) = 2 * (BYTE * half) /\ BYTE * half \in Nat
    BY <2>1
  <2> QED
    BY <1>1, <2>1, <2>2 DEF WORD
<1>3. /\ \A m \in 0 .. (WORD * WORD - 1) : 2 * m < WORD * WORD => 2 * (m \div WORD) < WORD
      /\ \A a, b \in 0 .. (WORD - 1) : 2 * a < WORD => 2 * (a * WORD + b) < WORD * WORD
  BY <1>2, HalfDigits
<1>4. /\ \A m \in 0 .. (WORD - 1) : 2 * m < WORD => 2 * (m \div BYTE) < BYTE
      /\ \A a, b \in 0 .. (BYTE - 1) : 2 * a < BYTE => 2 * (a * BYTE + b) < WORD
  BY <1>1, <1>2, HalfDigits DEF WORD
<1>5. \A i \in 1 .. 4 : MeasureByte(s, i) \subseteq Bytes
  <2> SUFFICES ASSUME NEW i \in 1 .. 4, NEW m \in Measures[s]
               PROVE  ByteOf([high |-> m \div WORD, low |-> m % WORD], i) \in Bytes
    BY DEF MeasureByte
  <2>1. [high |-> m \div WORD, low |-> m % WORD] \in [high : 0 .. (WORD - 1), low : 0 .. (WORD - 1)]
    BY WordTypes
  <2> QED
    BY <2>1, ByteOfType
<1>6. \A a \in MeasureByte(s, 1) : 2 * a < BYTE
  <2> SUFFICES ASSUME NEW m \in Measures[s]
               PROVE  2 * ByteOf([high |-> m \div WORD, low |-> m % WORD], 1) < BYTE
    BY DEF MeasureByte
  <2>1. 2 * (m \div WORD) < WORD /\ m \div WORD \in 0 .. (WORD - 1)
    <3>1. m \in 0 .. (WORD * WORD - 1) /\ 2 * m < WORD * WORD
      BY GatewayAssumption DEF NoWrap
    <3> QED
      BY <1>3, <3>1, WordTypes
  <2>2. ByteOf([high |-> m \div WORD, low |-> m % WORD], 1) = (m \div WORD) \div BYTE
    BY DEF ByteOf
  <2> QED
    BY <1>4, <2>1, <2>2
<1>7. h \in 0 .. (WORD - 1) /\ 2 * h < WORD
  <2>1. PICK a \in MeasureByte(s, 1), b \in MeasureByte(s, 2) : h = a * BYTE + b
    BY DEF MixedHigh
  <2>2. 1 \in 1 .. 4 /\ 2 \in 1 .. 4
    OBVIOUS
  <2>3. a \in Bytes /\ b \in Bytes /\ 2 * a < BYTE
    BY <1>5, <1>6, <2>1, <2>2
  <2> QED
    BY <1>4, <2>1, <2>3, ByteTypes DEF Bytes
<1>8. l \in 0 .. (WORD - 1)
  <2>1. PICK a \in MeasureByte(s, 3), b \in MeasureByte(s, 4) : l = a * BYTE + b
    BY DEF MixedLow
  <2>2. 3 \in 1 .. 4 /\ 4 \in 1 .. 4
    OBVIOUS
  <2> QED
    BY <1>5, <2>1, <2>2, ByteTypes
<1>9. h * WORD + l \in Nat
  <2>1. \A x, y, z \in Nat : x * y + z \in Nat
    OBVIOUS
  <2>2. h \in Nat /\ l \in Nat
    BY <1>2, <1>7, <1>8
  <2> QED
    BY <1>2, <2>1, <2>2
<1> QED
  BY <1>3, <1>7, <1>8, <1>9

\* abs of the 32-bit difference finds the jumps, if nothing wraps.
LEMMA SlopeFindsJumps ==
    ASSUME NoWrap, NEW m \in Nat, NEW n \in Nat, 2 * m < WORD * WORD, 2 * n < WORD * WORD
    PROVE  Slope(m, n) > TOLERANCE <=> Distance(m, n) > TOLERANCE
<1> DEFINE u == WORD * WORD
           d == (m - n) % u
<1>1. TOLERANCE \in Nat
  BY Bounds
<1>2. u \in Nat \ {0}
  <2>1. \A w \in Nat \ {0} : w * w \in Nat \ {0}
    OBVIOUS
  <2> QED
    BY <2>1, ByteTypes
<1>3. 2 * TOLERANCE < u /\ 2 * m < u /\ 2 * n < u
  BY DEF NoWrap
<1>4. Slope(m, n) = IF 2 * d < u THEN d ELSE u - d
  BY DEF Slope
<1> HIDE DEF u
<1>5. CASE m >= n
  <2>1. Distance(m, n) = m - n
    BY <1>5 DEF Distance
  <2>2. d = m - n
    <3>1. m - n \in 0 .. (u - 1)
      BY <1>2, <1>3, <1>5
    <3>2. \A a \in Nat, b \in Nat \ {0} : a < b => a % b = a
      OBVIOUS
    <3> QED
      BY <1>2, <3>1, <3>2
  <2> QED
    BY <1>1, <1>2, <1>3, <1>4, <1>5, <2>1, <2>2
<1>6. CASE m < n
  <2>1. Distance(m, n) = n - m
    BY <1>6 DEF Distance
  <2>2. d = u - (n - m)
    <3> DEFINE v == n - m
    <3>1. v \in Nat \ {0} /\ v < u /\ m - n = -v
      BY <1>2, <1>3, <1>6
    <3>2. \A a \in Nat \ {0}, b \in Nat \ {0} : a < b => (-a) % b = b - a
      OBVIOUS
    <3> HIDE DEF v
    <3>3. (-v) % u = u - v
      BY <1>2, <3>1, <3>2
    <3>4. d = u - v
      BY <3>1, <3>3
    <3> QED
      BY <3>4 DEF v
  <2> QED
    BY <1>1, <1>2, <1>3, <1>4, <1>6, <2>1, <2>2
<1> QED
  BY <1>5, <1>6

LEMMA MaskInit == Init => MaskInv
<1> SUFFICES ASSUME Init PROVE MaskInv
  OBVIOUS
<1>1. \A s \in Slaves : inputRegister[High(s)] = 0 /\ inputRegister[Low(s)] = 0
  BY NodeTypes DEF Init, PoweredOn
<1>2. \A s \in Slaves : Cached(s) = 0 /\ before[s] = 0 /\ ~Saving(s) /\ modbus_coils[s] = FALSE
  BY <1>1, NodeTypes, ByteTypes DEF Init, PoweredOn, Cached, Saving, SaveSteps
<1>3. (Distance(0, 0) > TOLERANCE) = FALSE
  BY Bounds DEF Distance
<1> QED
  BY <1>2, <1>3 DEF MaskInv, MaskFollowsJump

\* Coils that only commands write.
LEMMA MaskKept ==
    ASSUME MaskInv, UNCHANGED <<before, inputRegister>>,
           \/ UNCHANGED <<masterPc, slave_response, tolerance_register>>
           \/ masterPc \notin SaveSteps /\ masterPc' \notin SaveSteps,
           overridden \subseteq overridden',
           \A s \in Slaves : s \notin overridden' => modbus_coils'[s] = modbus_coils[s]
    PROVE  MaskInv'
<1>1. \A s \in Slaves : Cached(s)' = Cached(s) /\ Saving(s)' = Saving(s)
  BY DEF Cached, Saving
<1>2. MaskFollowsJump'
  BY <1>1 DEF MaskInv, MaskFollowsJump
<1>3. CASE UNCHANGED <<masterPc, slave_response, tolerance_register>>
  BY <1>1, <1>2, <1>3 DEF MaskInv
<1>4. CASE masterPc \notin SaveSteps /\ masterPc' \notin SaveSteps
  BY <1>2, <1>4 DEF MaskInv, Saving
<1> QED
  BY <1>3, <1>4

LEMMA MaskMaster ==
    ASSUME NoWrap, TypeInv, BytesInv, MaskInv, MasterStep
    PROVE  MaskInv'
<1> DEFINE r == slave_response.slave
<1>t. /\ r \in Slaves /\ inputRegister \in [Registers -> 0 .. (WORD - 1)]
      /\ modbus_coils \in [Coils -> BOOLEAN]
      /\ before \in [Slaves -> Nat] /\ tolerance_register \in [high : Nat, low : Nat]
  BY FrameType DEF TypeInv, TypeOK, Words
<1>o. \A s \in Slaves : /\ High(s) \in Registers /\ Low(s) \in Registers /\ s \in Coils
                        /\ High(s) # Low(r) /\ Low(s) # High(r)
                        /\ s # r => High(s) # High(r) /\ Low(s) # Low(r)
  BY <1>t, OwnRegisters, NodeTypes
<1>0. CASE MasterReceive \/ CrcError \/ FlushInput \/ ResetQueue \/ FrameError
  <2>1. /\ UNCHANGED <<before, inputRegister, overridden, modbus_coils>>
        /\ \/ UNCHANGED <<masterPc, slave_response, tolerance_register>>
           \/ masterPc \notin SaveSteps /\ masterPc' \notin SaveSteps
    BY <1>0 DEF MasterReceive, CrcError, FlushInput, ResetQueue, FrameError, masterVars, cacheVars,
                maskVars, SaveSteps
  <2> QED
    BY <2>1, MaskKept
<1>1. CASE MasterRead
  <2> DEFINE b == Buffer.slave
  <2>1. /\ b \in Slaves /\ masterPc = "read" /\ slave_response'.slave = b
        /\ UNCHANGED <<inputRegister, tolerance_register, modbus_coils, overridden>>
        /\ \/ masterPc' = "receive" /\ before' = before
           \/ masterPc' = "save_high" /\ before' = [before EXCEPT ![b] = Cached(b)]
    BY <1>1, BufferType DEF MasterRead, maskVars
  <2> HIDE DEF b
  <2>2. \A s \in Slaves : Cached(s)' = Cached(s) /\ ~Saving(s)
    BY <2>1 DEF Cached, Saving, SaveSteps
  <2>3. CASE masterPc' = "receive" /\ before' = before
    BY <2>1, <2>3, MaskKept DEF SaveSteps
  <2>4. CASE masterPc' = "save_high" /\ before' = [before EXCEPT ![b] = Cached(b)]
    <3>1. \A s \in Slaves : before'[s] = IF s = b THEN Cached(s) ELSE before[s]
      BY <1>t, <2>1, <2>4
    <3>2. \A s \in Slaves : Saving(s)' <=> s = b
      BY <2>1, <2>4 DEF Saving, SaveSteps
    <3>3. MaskFollowsJump'
      BY <2>1, <2>2, <3>1, <3>2 DEF MaskInv, MaskFollowsJump
    <3> QED
      BY <2>2, <2>4, <3>1, <3>2, <3>3 DEF MaskInv
  <2> QED
    BY <2>1, <2>3, <2>4
<1> HIDE DEF r
<1>2. CASE SaveHigh
  <2>1. /\ masterPc = "save_high" /\ masterPc' = "save_low"
        /\ UNCHANGED <<slave_response, before, modbus_coils, overridden>>
        /\ tolerance_register'.high = inputRegister[High(r)]
        /\ inputRegister'[Low(r)] = inputRegister[Low(r)]
        /\ \A s \in Slaves : s # r => /\ inputRegister'[High(s)] = inputRegister[High(s)]
                                      /\ inputRegister'[Low(s)] = inputRegister[Low(s)]
    BY <1>2, <1>t, <1>o DEF SaveHigh, maskVars, r
  <2>2. \A s \in Slaves : Saving(s)' = Saving(s) /\ (Saving(s) <=> s = r)
    BY <2>1 DEF Saving, SaveSteps, r
  <2>3. Cached(r) = before[r]
    BY <1>t, <2>1, <2>2 DEF MaskInv
  <2>4. MaskFollowsJump'
    BY <2>1, <2>2 DEF MaskInv, MaskFollowsJump, Cached
  <2>5. \A s \in Slaves : s = r => tolerance_register'.high * WORD + inputRegister'[Low(s)] = before[s]
    BY <2>1, <2>3 DEF Cached
  <2> QED
    BY <2>1, <2>2, <2>4, <2>5 DEF MaskInv
<1>3. CASE SaveLow
  <2>1. /\ masterPc = "save_low" /\ masterPc' = "clear_mask"
        /\ UNCHANGED <<slave_response, before, modbus_coils, overridden>>
        /\ tolerance_register'.low = inputRegister[Low(r)]
        /\ tolerance_register'.high = tolerance_register.high
        /\ \A s \in Slaves : s # r => /\ inputRegister'[High(s)] = inputRegister[High(s)]
                                      /\ inputRegister'[Low(s)] = inputRegister[Low(s)]
    BY <1>3, <1>t, <1>o DEF SaveLow, maskVars, r
  <2>2. \A s \in Slaves : Saving(s)' = Saving(s) /\ (Saving(s) <=> s = r)
    BY <2>1 DEF Saving, SaveSteps, r
  <2>3. tolerance_register.high * WORD + inputRegister[Low(r)] = before[r]
    BY <1>t, <2>1, <2>2 DEF MaskInv
  <2>4. MaskFollowsJump'
    BY <2>1, <2>2 DEF MaskInv, MaskFollowsJump, Cached
  <2> QED
    BY <2>1, <2>2, <2>3, <2>4 DEF MaskInv
<1>4. CASE ClearMask
  <2> DEFINE previous == tolerance_register.high * WORD + tolerance_register.low
  <2>1. /\ masterPc = "clear_mask"
        /\ UNCHANGED <<before, inputRegister, slave_response>>
        /\ overridden' = overridden \ {r}
        /\ modbus_coils' = [modbus_coils EXCEPT ![r] = FALSE]
        /\ masterPc' = IF Slope(Cached(r), previous) > TOLERANCE THEN "set_mask" ELSE "receive"
    BY <1>4 DEF ClearMask, cacheVars, r
  <2>2. \A s \in Slaves : /\ Cached(s)' = Cached(s) /\ (Saving(s) <=> s = r)
                          /\ modbus_coils'[s] = IF s = r THEN FALSE ELSE modbus_coils[s]
    BY <1>t, <1>o, <2>1 DEF Cached, Saving, SaveSteps, r
  <2>3. previous = before[r]
    BY <1>t, <2>1, <2>2 DEF MaskInv
  <2>4. /\ Cached(r) \in Nat /\ 2 * Cached(r) < WORD * WORD
        /\ before[r] \in Nat /\ 2 * before[r] < WORD * WORD
    BY <1>t, MixedIsLow DEF BytesInv, Cached
  <2>5. Slope(Cached(r), previous) > TOLERANCE <=> Distance(Cached(r), before[r]) > TOLERANCE
    BY <2>3, <2>4, SlopeFindsJumps
  <2>6. \A s \in Slaves : Saving(s)' <=> masterPc' = "set_mask" /\ s = r
    BY <2>1 DEF Saving, SaveSteps, r
  <2>7. \A s \in Slaves : Saving(s)' => Distance(Cached(s)', before'[s]) > TOLERANCE
    BY <2>1, <2>2, <2>5, <2>6
  <2>8. ASSUME NEW s \in Slaves, ~Saving(s)', s \notin overridden'
        PROVE  modbus_coils'[s] = (Distance(Cached(s)', before'[s]) > TOLERANCE)
    <3>1. CASE s = r
      <4>1. ~(Distance(Cached(s)', before'[s]) > TOLERANCE)
        BY <2>1, <2>2, <2>5, <2>6, <2>8, <3>1
      <4>2. modbus_coils'[s] = FALSE
        BY <2>2, <3>1
      <4>3. (Distance(Cached(s)', before'[s]) > TOLERANCE) = FALSE
        BY <4>1
      <4> QED
        BY <4>2, <4>3, Zenon
    <3>2. CASE s # r
      <4>1. modbus_coils[s] = (Distance(Cached(s), before[s]) > TOLERANCE)
        BY <2>1, <2>2, <2>8, <3>2 DEF MaskInv, MaskFollowsJump
      <4> QED
        BY <2>1, <2>2, <3>2, <4>1
    <3> QED
      BY <3>1, <3>2
  <2>9. MaskFollowsJump'
    BY <2>8 DEF MaskFollowsJump
  <2> QED
    BY <2>1, <2>6, <2>7, <2>9 DEF MaskInv
<1>5. CASE SetMask
  <2>1. /\ masterPc = "set_mask" /\ masterPc' = "receive"
        /\ UNCHANGED <<before, inputRegister, overridden>>
        /\ modbus_coils' = [modbus_coils EXCEPT ![r] = TRUE]
    BY <1>5 DEF SetMask, Jumped, cacheVars, r
  <2>2. \A s \in Slaves : /\ Cached(s)' = Cached(s) /\ (Saving(s) <=> s = r) /\ ~Saving(s)'
                          /\ modbus_coils'[s] = IF s = r THEN TRUE ELSE modbus_coils[s]
    BY <1>t, <1>o, <2>1 DEF Cached, Saving, SaveSteps, r
  <2>3. Distance(Cached(r), before[r]) > TOLERANCE
    BY <1>t, <2>1, <2>2 DEF MaskInv
  <2>4. ASSUME NEW s \in Slaves, s \notin overridden'
        PROVE  modbus_coils'[s] = (Distance(Cached(s)', before'[s]) > TOLERANCE)
    <3>1. CASE s = r
      <4>1. Distance(Cached(s)', before'[s]) > TOLERANCE
        BY <2>1, <2>2, <2>3, <3>1
      <4>2. modbus_coils'[s] = TRUE
        BY <2>2, <3>1
      <4> QED
        BY <4>1, <4>2
    <3>2. CASE s # r
      <4>1. modbus_coils[s] = (Distance(Cached(s), before[s]) > TOLERANCE)
        BY <2>1, <2>2, <2>4, <3>2 DEF MaskInv, MaskFollowsJump
      <4> QED
        BY <2>1, <2>2, <3>2, <4>1
    <3> QED
      BY <3>1, <3>2
  <2>5. MaskFollowsJump'
    BY <2>4 DEF MaskFollowsJump
  <2> QED
    BY <2>2, <2>5 DEF MaskInv
<1> QED
  BY <1>0, <1>1, <1>2, <1>3, <1>4, <1>5 DEF MasterStep, InputStep, SaveStep

LEMMA MaskRestart == Restart => MaskInv'
<1> SUFFICES ASSUME Restart PROVE MaskInv'
  OBVIOUS
<1>1. \A s \in Slaves : inputRegister'[High(s)] = 0 /\ inputRegister'[Low(s)] = 0
  BY NodeTypes DEF Restart
<1>2. \A s \in Slaves : Cached(s)' = 0 /\ before'[s] = 0 /\ ~Saving(s)' /\ modbus_coils'[s] = FALSE
  BY <1>1, NodeTypes, ByteTypes DEF Restart, Cached, Saving, SaveSteps
<1>3. (Distance(0, 0) > TOLERANCE) = FALSE
  BY Bounds DEF Distance
<1> QED
  BY <1>2, <1>3 DEF MaskInv, MaskFollowsJump

LEMMA MaskStep ==
    ASSUME NoWrap, TypeInv, BytesInv, MaskInv, [Next]_vars
    PROVE  MaskInv'
<1>1. CASE \E c \in Commands : LoraCommand(c)
  <2>1. PICK c \in Commands : LoraCommand(c)
    BY <1>1
  <2>2. UNCHANGED <<masterPc, slave_response, before, tolerance_register, inputRegister>>
    BY <2>1 DEF LoraCommand, masterVars, cacheVars
  <2>3. \/ UNCHANGED <<modbus_coils, overridden>>
        \/ /\ modbus_coils' = [modbus_coils EXCEPT ![c.address] = (c.value = "ON")]
           /\ overridden' = overridden \cup ({c.address} \cap Slaves)
    BY <2>1 DEF LoraCommand, maskVars
  <2>4. /\ overridden \subseteq overridden'
        /\ \A s \in Slaves : s \notin overridden' => modbus_coils'[s] = modbus_coils[s]
    BY <2>3, NodeTypes DEF TypeInv, TypeOK
  <2> QED
    BY <2>2, <2>4, MaskKept
<1>2. CASE \/ PollStep \/ LoraStep \/ UNCHANGED vars
           \/ \E error \in {"UART_FIFO_OVF", "UART_FRAME_ERR"} : LineError(error)
           \/ \E a \in ReadAddresses : LoraRead(a)
           \/ \E c \in Commands : LoraCommandOwn(c)
           \/ \E s \in Slaves : SlaveStep(s) \/ PulseStep(s) \/ LoseRequest(s) \/ SlaveReset(s)
  <2>1. UNCHANGED <<masterPc, slave_response, before, tolerance_register, inputRegister,
                    modbus_coils, overridden>>
    <3>1. CASE \E s \in Slaves : SlaveStep(s) \/ PulseStep(s) \/ LoseRequest(s) \/ SlaveReset(s)
      BY <3>1, SlaveLeaves DEF masterVars, cacheVars, maskVars
    <3> QED
      BY <1>2, <3>1
         DEF vars, masterVars, cacheVars, maskVars, PollStep, PollTake, PollIdle, PollSend,
             LoraStep, ReadBytes, LoraSend, LineError, LoraRead, LoraCommandOwn
  <2> QED
    BY <2>1, MaskKept
<1> QED
  BY <1>1, <1>2, MaskMaster, MaskRestart DEF Next, Requests

\* check_toletance masks the registers of a slave exactly when the answer just
\* saved moved them by more than TOLERANCE, whatever the LoRa task and its commands
\* do between its stores, unless measures wrap.
THEOREM JumpsAreMasked ==
    ASSUME NoWrap
    PROVE  Spec => []MaskFollowsJump
<1>1. Init => TypeInv /\ BytesInv /\ MaskInv
  BY TypeInit, BytesInit, MaskInit
<1>2. TypeInv /\ BytesInv /\ MaskInv /\ [Next]_vars => (TypeInv /\ BytesInv /\ MaskInv)'
  BY TypeStep, BytesStep, MaskStep
<1>3. MaskInv => MaskFollowsJump
  BY DEF MaskInv
<1> QED
  BY <1>1, <1>2, <1>3, PTL DEF Spec

-----------------------------------------------------------------------------
(* Answers of the LoRa task *)

\* Every measure fits in one byte, so that the other bytes never change.
OneByte == \A s \in Slaves : Measures[s] \subseteq Bytes

\* The bytes of an answer so far.
AnswerInv ==
    loraPc = "read" \/ (loraPc = "receive" /\ request.address # 0) =>
        \E s \in Slaves :
            /\ request.address = High(s)
            /\ \A i \in 1 .. Len(response) : response[i] = 0 \/ (i = 4 /\ response[i] \in Measures[s])
            /\ loraPc = "receive" => Len(response) = 4

LEMMA OneByteCache ==
    ASSUME OneByte, BytesInv, NEW s \in Slaves
    PROVE  /\ inputRegister[High(s)] \div BYTE = 0 /\ inputRegister[High(s)] % BYTE = 0
           /\ inputRegister[Low(s)] \div BYTE = 0 /\ inputRegister[Low(s)] % BYTE \in Measures[s]
<1>1. /\ BYTE \in Nat \ {0} /\ WORD = BYTE * BYTE /\ WORD \in Nat \ {0} /\ BYTE <= WORD
  <2>1. \A n \in Nat \ {0} : n <= n * n
    OBVIOUS
  <2> QED
    BY <2>1, Bounds, ByteTypes DEF WORD
<1>2. \A a \in Nat, n \in Nat \ {0} : a < n => a \div n = 0 /\ a % n = a
  OBVIOUS
<1>3. ASSUME NEW m \in Measures[s]
      PROVE  /\ m \div WORD = 0 /\ m % WORD = m /\ m \div BYTE = 0 /\ m % BYTE = m
  <2>1. m \in Nat /\ m < BYTE /\ m < WORD
    BY <1>1 DEF OneByte, Bytes
  <2> QED
    BY <1>1, <1>2, <2>1
<1>4. 0 \div BYTE = 0 /\ 0 % BYTE = 0 /\ 0 * BYTE + 0 = 0
  BY <1>1, <1>2
<1>5. /\ MeasureByte(s, 1) \subseteq {0} /\ MeasureByte(s, 2) \subseteq {0}
      /\ MeasureByte(s, 3) \subseteq {0} /\ MeasureByte(s, 4) \subseteq Measures[s]
  <2> SUFFICES ASSUME NEW m \in Measures[s]
               PROVE  LET w == [high |-> m \div WORD, low |-> m % WORD]
                      IN /\ ByteOf(w, 1) = 0 /\ ByteOf(w, 2) = 0
                         /\ ByteOf(w, 3) = 0 /\ ByteOf(w, 4) = m
    BY DEF MeasureByte
  <2>1. 1 % 2 = 1 /\ 2 % 2 = 0 /\ 3 % 2 = 1 /\ 4 % 2 = 0
    OBVIOUS
  <2> QED
    BY <1>3, <1>4, <2>1 DEF ByteOf
<1>6. inputRegister[High(s)] = 0
  <2>1. MixedHigh(s) \subseteq {0}
    BY <1>4, <1>5 DEF MixedHigh
  <2> QED
    BY <2>1 DEF BytesInv
<1>7. inputRegister[Low(s)] \in Measures[s]
  <2>1. \A b \in Measures[s] : 0 * BYTE + b = b
    <3>1. \A b \in Measures[s] : b \in Nat
      BY WordTypes
    <3> QED
      BY <1>1, <3>1
  <2>2. MixedLow(s) \subseteq Measures[s]
    BY <1>5, <2>1 DEF MixedLow
  <2> QED
    BY <2>2 DEF BytesInv
<1> QED
  BY <1>3, <1>4, <1>6, <1>7

LEMMA AnswerBytes ==
    ASSUME OneByte, TypeInv, BytesInv, AnswerInv, ReadBytes
    PROVE  AnswerInv'
<1> DEFINE i == Len(response) + 1
           r == request.address + (i - 1) \div 2
           x == Shown(r, i)
<1>1. /\ loraPc = "read" /\ response' = response \o x /\ request' = request
      /\ loraPc' = IF Len(response') = 4 THEN "receive" ELSE "read"
  BY DEF ReadBytes
<1>2. PICK s \in Slaves :
        /\ request.address = High(s)
        /\ \A k \in 1 .. Len(response) : response[k] = 0 \/ (k = 4 /\ response[k] \in Measures[s])
  BY <1>1 DEF AnswerInv
<1>3. /\ i \in 1 .. 4
      /\ \/ i % 2 = 0 /\ x = <<inputRegister[r] % BYTE>>
         \/ i % 2 = 1 /\ x \in {<<0, 0>>, <<inputRegister[r] \div BYTE>>}
  BY <1>1, ReadType
<1>4. r = IF i <= 2 THEN High(s) ELSE Low(s)
  <2>1. /\ (1 - 1) \div 2 = 0 /\ (2 - 1) \div 2 = 0 /\ (3 - 1) \div 2 = 1 /\ (4 - 1) \div 2 = 1
    OBVIOUS
  <2>2. High(s) + 0 = High(s) /\ High(s) + 1 = Low(s)
    BY GatewayAssumption DEF High, Low, Slaves
  <2> HIDE DEF i
  <2>3. i \in {1, 2, 3, 4}
    BY <1>3
  <2> QED
    BY <1>2, <2>1, <2>2, <2>3
<1>q. response \in Seq(Bytes) /\ Len(response) \in Nat
  <2>1. response \in Seq(Bytes)
    BY DEF TypeInv, TypeOK
  <2> QED
    BY <2>1, LenProperties
<1>y. /\ 1 % 2 = 1 /\ 2 % 2 = 0 /\ 3 % 2 = 1 /\ 4 % 2 = 0
  OBVIOUS
<1>z. 0 \in Bytes /\ \A m \in Measures[s] : m \in Bytes
  BY ByteTypes DEF OneByte
<1> DEFINE n == Len(response)
           d == Len(x)
<1> HIDE DEF x, i, r
<1>i. i = n + 1
  BY DEF i
\* What is appended: two zeros, or one byte, which is 0 unless it is the last.
<1>5. /\ x \in Seq(Bytes) /\ d \in 1 .. 2
      /\ \A k \in 1 .. d : x[k] = 0 \/ (i = 4 /\ k = 1 /\ x[k] \in Measures[s])
  <2>1. CASE x = <<0, 0>>
    <3>1. x \in Seq(Bytes) /\ d = 2 /\ x[1] = 0 /\ x[2] = 0
      BY <1>z, <2>1, ShortTypes
    <3> HIDE DEF d
    <3>2. \A k \in 1 .. d : k = 1 \/ k = 2
      BY <3>1
    <3>3. d \in 1 .. 2
      BY <3>1
    <3> QED
      BY <3>1, <3>2, <3>3
  <2>2. ASSUME NEW y \in Bytes, x = <<y>>, y = 0 \/ (i = 4 /\ y \in Measures[s])
        PROVE  /\ x \in Seq(Bytes) /\ d \in 1 .. 2
               /\ \A k \in 1 .. d : x[k] = 0 \/ (i = 4 /\ k = 1 /\ x[k] \in Measures[s])
    <3>1. x \in Seq(Bytes) /\ d = 1 /\ x[1] = y
      BY <2>2, ShortTypes
    <3> HIDE DEF d
    <3>2. \A k \in 1 .. d : k = 1
      BY <3>1
    <3>3. d \in 1 .. 2
      BY <3>1
    <3> QED
      BY <2>2, <3>1, <3>2, <3>3
  <2>3. CASE i % 2 = 1 /\ x = <<inputRegister[r] \div BYTE>>
    <3>1. inputRegister[r] \div BYTE = 0
      BY <1>4, OneByteCache
    <3> QED
      BY <1>z, <2>2, <2>3, <3>1
  <2>4. CASE i % 2 = 0 /\ x = <<inputRegister[r] % BYTE>>
    <3>1. i = 2 \/ i = 4
      BY <1>3, <1>y, <2>4
    <3>2. inputRegister[r] % BYTE = 0 \/ (i = 4 /\ inputRegister[r] % BYTE \in Measures[s])
      <4>1. CASE i = 2
        <5>1. r = High(s)
          BY <1>4, <4>1
        <5> QED
          BY <5>1, OneByteCache
      <4>2. CASE i = 4
        <5>1. r = Low(s)
          BY <1>4, <4>2
        <5> QED
          BY <4>2, <5>1, OneByteCache
      <4> QED
        BY <3>1, <4>1, <4>2
    <3> QED
      BY <1>z, <2>2, <2>4, <3>2
  <2> QED
    BY <1>3, <2>1, <2>3, <2>4
<1>6. /\ Len(response') = n + d
      /\ \A k \in 1 .. n + d : response'[k] = IF k <= n THEN response[k] ELSE x[k - n]
  BY <1>1, <1>5, <1>q, ConcatProperties
<1>7. n \in Nat /\ n = i - 1
  <2>1. n \in Nat
    BY <1>q
  <2> HIDE DEF n
  <2> QED
    BY <1>i, <2>1
<1>k. \A k \in 1 .. n : response[k] = 0 \/ (k = 4 /\ response[k] \in Measures[s])
  BY <1>2
<1> HIDE DEF n, d
<1>8. \A k \in 1 .. n + d : response'[k] = 0 \/ (k = 4 /\ response'[k] \in Measures[s])
  <2> SUFFICES ASSUME NEW k \in 1 .. n + d
               PROVE  response'[k] = 0 \/ (k = 4 /\ response'[k] \in Measures[s])
    OBVIOUS
  <2>1. CASE k <= n
    BY <1>6, <1>k, <1>7, <2>1
  <2>2. CASE ~(k <= n)
    <3>1. k - n \in 1 .. d
      BY <1>5, <1>7, <2>2
    <3>2. i = 4 /\ k - n = 1 => k = 4
      BY <1>7
    <3> QED
      BY <1>5, <1>6, <2>2, <3>1, <3>2
  <2> QED
    BY <2>1, <2>2
<1>9. \E t \in Slaves :
        /\ request'.address = High(t)
        /\ \A k \in 1 .. Len(response') : response'[k] = 0 \/ (k = 4 /\ response'[k] \in Measures[t])
        /\ loraPc' = "receive" => Len(response') = 4
  <2>1. loraPc' = "receive" => Len(response') = 4
    BY <1>1
  <2>2. request'.address = High(s)
    BY <1>1, <1>2
  <2> QED
    BY <1>6, <1>8, <2>1, <2>2
<1> QED
  BY <1>9 DEF AnswerInv

LEMMA AnswerLora ==
    ASSUME OneByte, TypeInv, BytesInv, AnswerInv, LoraStep \/ Requests
    PROVE  AnswerInv'
<1>1. CASE ReadBytes
  BY <1>1, AnswerBytes
<1>2. CASE LoraSend
  BY <1>2 DEF LoraSend, AnswerInv, NoRequest
<1>3. CASE \E c \in Commands : LoraCommandOwn(c)
  BY <1>3 DEF LoraCommandOwn, AnswerInv
<1>4. CASE \E c \in Commands : LoraCommand(c)
  BY <1>4 DEF LoraCommand, AnswerInv
<1>5. ASSUME NEW a \in ReadAddresses, LoraRead(a)
      PROVE  AnswerInv'
  <2>1. PICK s \in Slaves : a = High(s)
    BY GatewayAssumption
  <2>2. request'.address = a /\ response' = <<>> /\ loraPc' = "read"
    BY <1>5 DEF LoraRead, NoRequest
  <2>3. \A k \in 1 .. Len(<<>>) : FALSE
    OBVIOUS
  <2> QED
    BY <2>1, <2>2, <2>3 DEF AnswerInv
<1> QED
  BY <1>1, <1>2, <1>3, <1>4, <1>5 DEF LoraStep, Requests

LEMMA AnswerStep ==
    ASSUME OneByte, TypeInv, BytesInv, AnswerInv, [Next]_vars
    PROVE  AnswerInv'
<1>1. CASE Restart
  BY <1>1 DEF Restart, AnswerInv, NoRequest
<1>2. CASE \/ PollStep \/ MasterStep \/ UNCHANGED vars
           \/ \E error \in {"UART_FIFO_OVF", "UART_FRAME_ERR"} : LineError(error)
           \/ \E s \in Slaves : SlaveStep(s) \/ PulseStep(s) \/ LoseRequest(s) \/ SlaveReset(s)
  <2>1. UNCHANGED loraVars
    BY <1>2, MasterLeaves, SlaveLeaves
       DEF vars, PollStep, PollTake, PollIdle, PollSend, LineError
  <2> QED
    BY <2>1 DEF loraVars, AnswerInv
<1> QED
  BY <1>1, <1>2, AnswerLora DEF Next

\* While measures fit in one byte, what the LoRa task answers is a measure of the
\* slave that was asked, or 0, whatever the stores of both nodes do between its reads.
THEOREM AnswersAreMeasures ==
    ASSUME OneByte
    PROVE  Spec => []AnswerIsAMeasure
<1>1. Init => TypeInv /\ BytesInv /\ AnswerInv
  <2>1. Init => AnswerInv
    BY DEF Init, PoweredOn, AnswerInv, NoRequest
  <2> QED
    BY <2>1, TypeInit, BytesInit
<1>2. TypeInv /\ BytesInv /\ AnswerInv /\ [Next]_vars => (TypeInv /\ BytesInv /\ AnswerInv)'
  BY TypeStep, BytesStep, AnswerStep
<1>3. AnswerInv => AnswerIsAMeasure
  <2> SUFFICES ASSUME AnswerInv, loraPc = "receive", request.address # 0
               PROVE  \E s \in Slaves :
                        /\ request.address = High(s)
                        /\ (response[1] * BYTE + response[2]) * WORD
                              + response[3] * BYTE + response[4] \in Measures[s]
    BY DEF AnswerIsAMeasure
  <2>1. PICK s \in Slaves :
          /\ request.address = High(s) /\ Len(response) = 4
          /\ \A i \in 1 .. Len(response) : response[i] = 0 \/ (i = 4 /\ response[i] \in Measures[s])
    BY DEF AnswerInv
  <2>2. /\ response[1] = 0 /\ response[2] = 0 /\ response[3] = 0
        /\ response[4] \in Measures[s]
    <3>1. 1 \in 1 .. 4 /\ 2 \in 1 .. 4 /\ 3 \in 1 .. 4 /\ 4 \in 1 .. 4
      OBVIOUS
    <3> QED
      BY <2>1, <3>1, ZeroBytes
  <2>3. (0 * BYTE + 0) * WORD + 0 * BYTE + response[4] = response[4]
    <3>1. response[4] \in Nat
      BY <2>2, WordTypes
    <3>2. \A b, w, m \in Nat : (0 * b + 0) * w + 0 * b + m = m
      OBVIOUS
    <3> QED
      BY <3>1, <3>2, ByteTypes, Bounds
  <2> QED
    BY <2>1, <2>2, <2>3
<1> QED
  BY <1>1, <1>2, <1>3, PTL DEF Spec
=============================================================================
