------------------------------- MODULE Gateway -------------------------------
(***************************************************************************)
(* A gateway: a node built with CONFIG_MASTER_MODBUS and CONFIG_LORA,      *)
(* without CONFIG_PULSE_PERIPHERAL: the poll task and the master task of   *)
(* main/main.c on the RS485 line, and the LoRa task that serves the        *)
(* registers and relays coil commands.  They share the input registers,    *)
(* the coils (which mask the measures that jumped) and the queue of polls. *)
(*                                                                         *)
(* The slaves run the same firmware without CONFIG_MASTER_MODBUS: a pulse  *)
(* task that publishes the measure and a slave task that serves it.  A     *)
(* measure is two registers, stored word by word and read byte by byte.    *)
(* A request arrives whole, in order, or is lost; so does an answer, which *)
(* may also arrive damaged.  Time is left out: a timeout may come whenever *)
(* what it waits for is not there.                                         *)
(***************************************************************************)
EXTENDS Integers, Sequences, FiniteSets

CONSTANTS
    SLAVES,              \* slaves on the line, numbered from 1
    NODE_ID,             \* id of the gateway itself
    MAX_POLL_QUEUE_SIZE, \* events that uart_send_queue holds (5)
    EVENT_QUEUE,         \* events that the UART driver's queue holds (20)
    RING,                \* frames that its ring buffer holds (1024 bytes)
    TOLERANCE,           \* largest step of a measure that is shown (1000)
    BYTE,                \* 2^8, the modulus of a byte on the line
    UINT8,               \* 2^8, the modulus of a slave id and of queue_size
    Measures,            \* the measures that each slave can have
    Commands,            \* the coil commands that come over LoRa
    ReadAddresses,       \* first registers that are read over LoRa
    MaxRequests,         \* bound: slaves that are busy with a request at once
    MaxCommands,         \* bound: coil commands accepted
    MaxLosses,           \* bound: faults of the line and resets of slaves
    MaxRestarts          \* bound: resets of the gateway

Slaves == 1 .. SLAVES
Nodes  == Slaves \cup {NODE_ID}

\* What a byte holds, and the modulus of a register.
Bytes == 0 .. (BYTE - 1)
WORD  == BYTE * BYTE

\* The two registers of a slave.
High(s) == s * 2 - 1
Low(s)  == s * 2

\* modbus_coils has 512 entries; an address beyond them is undefined behaviour and
\* left out, address 0 resets the node (Restart).
Coils == 0 .. (2 * UINT8 - 1)

ASSUME GatewayAssumption ==
    /\ SLAVES \in Nat \ {0}
    /\ MAX_POLL_QUEUE_SIZE \in Nat \ {0}
    /\ EVENT_QUEUE \in Nat \ {0}
    /\ RING \in Nat \ {0}
    /\ TOLERANCE \in Nat
    /\ BYTE \in Nat \ {0}
    /\ UINT8 \in Nat \ {0}
    /\ SLAVES < UINT8
    /\ NODE_ID \in (SLAVES + 1) .. (UINT8 - 1)
    /\ \A s \in Slaves : 0 \in Measures[s] /\ Measures[s] \subseteq 0 .. (WORD * WORD - 1)
    /\ Commands \subseteq [address : Coils \ {0}, value : {"ON", "OFF", "OTHER"}]
    /\ ReadAddresses \subseteq {High(s) : s \in Slaves}
    /\ MaxRequests \in Nat \ {0}
    /\ MaxCommands \in Nat
    /\ MaxLosses \in Nat
    /\ MaxRestarts \in Nat

Registers == 0 .. (2 * SLAVES)

\* modbus_poll_event_t, and the request that it becomes.  command numbers the
\* commands, 0 for a cyclic poll.
PollEvent == [slave : 0 .. (UINT8 - 1), function : {"READ_INPUT", "WRITE_SINGLE_COIL"},
              coil_state : BOOLEAN, command : 0 .. MaxCommands]
ReadPoll(s) == [slave |-> s, function |-> "READ_INPUT", coil_state |-> FALSE,
                command |-> 0]

\* What arrives from a slave.  The function stands for the length (9 bytes for a
\* measure, 8 for the echo of a command), intact for a CRC of 0.  raced is a ghost:
\* the measure was being published while it was read.
Frame   == [slave : Slaves, function : {"READ_INPUT", "WRITE_SINGLE_COIL"},
            data : Seq(Bytes), raced : BOOLEAN, intact : BOOLEAN]
NoFrame == [slave |-> 1, function |-> "WRITE_SINGLE_COIL", data |-> <<>>,
            raced |-> FALSE, intact |-> FALSE]

\* uart_event_t: data of that length, or an error.
Overflows  == {"UART_FIFO_OVF", "UART_BUFFER_FULL"}
UartErrors == Overflows \cup {"UART_FRAME_ERR"}
UartEvents == {"READ_INPUT", "WRITE_SINGLE_COIL"} \cup UartErrors

VARIABLES
    uart_send_queue, \* events for the poll task
    pollPc,          \* poll task: "receive" or "send" the next cyclic poll
    curr_slave,      \* poll task: the slave polled last
    line,            \* requests on their way to each slave
    ring,            \* frames in the UART ring of the gateway
    uart_queue,      \* events of the UART driver for the master task
    masterPc,        \* master task: "receive", "read", "reset_queue" or a step of save_register
    event,           \* master task: the event being handled
    slave_response,  \* master task: its receive buffer
    tolerance_register, \* master task: the words that it replaced
    inputRegister,
    modbus_coils,    \* TRUE masks the registers of the slave
    loraPc,          \* LoRa task: "receive", "read", "enqueue"
    request,         \* LoRa task: first register to read, or the event to send
    response,        \* LoRa task: the bytes read
    queue_size,
    measure,         \* what each slave's meter has counted and stored
    pulsePc,         \* each slave's pulse task: "wait", "store_high", "store_low"
    registers,       \* each slave's registers of its own measure
    sampled,         \* each slave's task: the bytes of them read so far
    relay,           \* each node's relay, with the command that set it
    issued,          \* ghost: the commands accepted
    before,          \* ghost: the value that the last save replaced
    shown,           \* ghost: the last value before the present one that was not raced
    raced,           \* ghost: slaves whose value was published while it was read
    overridden,      \* ghost: slaves whose mask a command wrote since the last save
    losses,          \* ghost
    restarts         \* ghost

pollVars   == <<uart_send_queue, pollPc, curr_slave>>
uartVars   == <<ring, uart_queue>>
masterVars == <<masterPc, event, slave_response, tolerance_register>>
cacheVars  == <<inputRegister, before, shown, raced>>
maskVars   == <<modbus_coils, overridden>>
loraVars   == <<loraPc, request, response, queue_size, issued>>
slaveVars  == <<measure, pulsePc, registers, sampled>>
vars == <<pollVars, line, uartVars, masterVars, cacheVars, maskVars, loraVars,
          slaveVars, relay, losses, restarts>>

SaveSteps   == {"save_high", "save_low", "clear_mask", "set_mask"}
MasterSteps == {"receive", "read", "reset_queue"} \cup SaveSteps

Words    == [high : Nat, low : Nat]
NoWords  == [high |-> 0, low |-> 0]
NoSample == [bytes |-> <<>>, raced |-> FALSE]

TypeOK ==
    /\ uart_send_queue \in Seq(PollEvent)
    /\ Len(uart_send_queue) <= MAX_POLL_QUEUE_SIZE
    /\ pollPc \in {"receive", "send"}
    /\ curr_slave \in Slaves
    /\ line \in [Slaves -> Seq(PollEvent)]
    /\ ring \in Seq(Frame)
    /\ Len(ring) <= RING
    /\ uart_queue \in Seq(UartEvents)
    /\ Len(uart_queue) <= EVENT_QUEUE
    /\ masterPc \in MasterSteps
    /\ event \in UartEvents \cup {"none"}
    /\ slave_response \in Frame
    /\ tolerance_register \in Words
    /\ inputRegister \in [Registers -> 0 .. (WORD - 1)]
    /\ modbus_coils \in [Coils -> BOOLEAN]
    /\ loraPc \in {"receive", "read", "enqueue"}
    /\ request \in [address : Registers, event : PollEvent]
    /\ response \in Seq(Bytes)
    /\ queue_size \in 0 .. (UINT8 - 1)
    /\ measure \in [Slaves -> Nat]
    /\ pulsePc \in [Slaves -> {"wait", "store_high", "store_low"}]
    /\ registers \in [Slaves -> [high : 0 .. (WORD - 1), low : 0 .. (WORD - 1)]]
    /\ sampled \in [Slaves -> [bytes : Seq(Bytes), raced : BOOLEAN]]
    /\ relay \in [Nodes -> [coil : BOOLEAN, command : 0 .. MaxCommands]]
    /\ issued \in Seq([address : Coils, value : {"ON", "OFF", "OTHER"}])
    /\ before \in [Slaves -> Nat]
    /\ shown \in [Slaves -> Nat]
    /\ raced \subseteq Slaves
    /\ overridden \subseteq Slaves
    /\ losses \in 0 .. MaxLosses
    /\ restarts \in 0 .. MaxRestarts

NoRequest == [address |-> 0, event |-> ReadPoll(1)]

\* The gateway's memory after a reset, with the first poll in the queue: the
\* LoRa task waits until the poll task has created it.
PoweredOn ==
    /\ uart_send_queue = <<ReadPoll(1)>>
    /\ pollPc = "receive"
    /\ curr_slave = 1
    /\ ring = <<>>
    /\ uart_queue = <<>>
    /\ masterPc = "receive"
    /\ event = "none"
    /\ slave_response = NoFrame
    /\ tolerance_register = NoWords
    /\ inputRegister = [r \in Registers |-> 0]
    /\ modbus_coils = [c \in Coils |-> FALSE]
    /\ loraPc = "receive"
    /\ request = NoRequest
    /\ response = <<>>
    /\ queue_size = 0
    /\ before = [s \in Slaves |-> 0]
    /\ shown = [s \in Slaves |-> 0]
    /\ raced = {}
    /\ overridden = {}

Init ==
    /\ PoweredOn
    /\ line = [s \in Slaves |-> <<>>]
    /\ measure = [s \in Slaves |-> 0]
    /\ pulsePc = [s \in Slaves |-> "wait"]
    /\ registers = [s \in Slaves |-> NoWords]
    /\ sampled = [s \in Slaves |-> NoSample]
    /\ relay = [id \in Nodes |-> [coil |-> FALSE, command |-> 0]]
    /\ issued = <<>>
    /\ losses = 0
    /\ restarts = 0

-----------------------------------------------------------------------------
(* modbus_master_poll *)

\* Faulty: has no case for WRITE_SINGLE_COIL.
WriteRequest_reads_only(e) ==
    line' = [s \in Slaves |-> IF s = e.slave /\ e.function = "READ_INPUT"
                              THEN Append(line[s], e) ELSE line[s]]

\* read_input_register or write_single_coil; nobody hears an id that no slave has.
WriteRequest(e) ==
    line' = [s \in Slaves |-> IF s = e.slave THEN Append(line[s], e) ELSE line[s]]

Sampling(s) == sampled[s].bytes # <<>>
Waiting     == {s \in Slaves : line[s] # <<>>}
Busy        == Waiting \cup {s \in Slaves : Sampling(s)}

\* An event becomes a request on the line.
PollTake ==
    LET e == Head(uart_send_queue)
    IN /\ pollPc = "receive"
       /\ uart_send_queue # <<>>
       /\ Cardinality(Busy) < MaxRequests /\ e.slave \notin Waiting
       /\ uart_send_queue' = Tail(uart_send_queue)
       /\ WriteRequest(e)
       /\ UNCHANGED <<pollPc, curr_slave, uartVars, masterVars, cacheVars, maskVars,
                      loraVars, slaveVars, relay, losses, restarts>>

\* Faulty: starts over at slave 1 and then steps to 2.
PollIdle_skips_first ==
    /\ pollPc = "receive"
    /\ uart_send_queue = <<>>
    /\ curr_slave' = IF curr_slave >= SLAVES THEN 2 ELSE curr_slave + 1
    /\ pollPc' = "send"
    /\ UNCHANGED <<uart_send_queue, line, uartVars, masterVars, cacheVars,
                   maskVars, loraVars, slaveVars, relay, losses, restarts>>

\* Nothing came for TIME_SCAN: the next slave is due.
PollIdle ==
    /\ pollPc = "receive"
    /\ uart_send_queue = <<>>
    /\ curr_slave' = IF curr_slave >= SLAVES THEN 1 ELSE curr_slave + 1
    /\ pollPc' = "send"
    /\ UNCHANGED <<uart_send_queue, line, uartVars, masterVars, cacheVars,
                   maskVars, loraVars, slaveVars, relay, losses, restarts>>

\* Faulty: one event too many.
HasPlace_last == Len(uart_send_queue) <= MAX_POLL_QUEUE_SIZE

HasPlace == Len(uart_send_queue) < MAX_POLL_QUEUE_SIZE

\* Faulty: xQueueSendToFront.
Send_front(e) ==
    uart_send_queue' = IF HasPlace THEN <<e>> \o uart_send_queue ELSE uart_send_queue

\* A full queue is waited for and, after TIME_SCAN, given up.
Send(e) ==
    uart_send_queue' = IF HasPlace THEN Append(uart_send_queue, e) ELSE uart_send_queue

PollSend ==
    /\ pollPc = "send"
    /\ Send(ReadPoll(curr_slave))
    /\ pollPc' = "receive"
    /\ UNCHANGED <<curr_slave, line, uartVars, masterVars, cacheVars, maskVars,
                   loraVars, slaveVars, relay, losses, restarts>>

-----------------------------------------------------------------------------
(* task_pulse of a slave *)

\* A pulse is counted and stored (put_nvs), and the measure grows.
Consume(s) ==
    /\ pulsePc[s] = "wait"
    /\ \E m \in Measures[s] : m > measure[s] /\ measure' = [measure EXCEPT ![s] = m]
    /\ pulsePc' = [pulsePc EXCEPT ![s] = "store_high"]
    /\ UNCHANGED <<pollVars, line, uartVars, masterVars, cacheVars, maskVars, loraVars,
                   registers, sampled, relay, losses, restarts>>

\* register_save stores the two words one after the other; the slave task runs on
\* the other core and may be reading them.
StoreHigh(s) ==
    /\ pulsePc[s] = "store_high"
    /\ registers' = [registers EXCEPT ![s].high = measure[s] \div WORD]
    /\ sampled' = [sampled EXCEPT ![s].raced = Sampling(s)]
    /\ pulsePc' = [pulsePc EXCEPT ![s] = "store_low"]
    /\ UNCHANGED <<pollVars, line, uartVars, masterVars, cacheVars, maskVars, loraVars,
                   measure, relay, losses, restarts>>

StoreLow(s) ==
    /\ pulsePc[s] = "store_low"
    /\ registers' = [registers EXCEPT ![s].low = measure[s] % WORD]
    /\ pulsePc' = [pulsePc EXCEPT ![s] = "wait"]
    /\ UNCHANGED <<pollVars, line, uartVars, masterVars, cacheVars, maskVars, loraVars,
                   measure, sampled, relay, losses, restarts>>

-----------------------------------------------------------------------------
(* task_modbus_slave of a slave, and the line *)

Lose == losses < MaxLosses /\ losses' = losses + 1

\* An event that finds no place in the driver's queue is dropped.
Signal(e) ==
    uart_queue' = IF Len(uart_queue) < EVENT_QUEUE THEN Append(uart_queue, e) ELSE uart_queue

\* A frame goes into the ring; one that finds it full is lost.
Arrive(frame) ==
    IF Len(ring) < RING
      THEN ring' = Append(ring, frame) /\ Signal(frame.function)
      ELSE UNCHANGED ring /\ Signal("UART_BUFFER_FULL")

\* An answer arrives, or is damaged or lost on the line.
Respond(frame) ==
    \/ Arrive(frame) /\ UNCHANGED losses
    \/ Lose /\ Arrive([frame EXCEPT !.intact = FALSE])
    \/ Lose /\ UNCHANGED uartVars

\* Byte i of the four of a measure.
ByteOf(words, i) ==
    LET word == IF i <= 2 THEN words.high ELSE words.low
    IN IF i % 2 = 1 THEN word \div BYTE ELSE word % BYTE

\* The slave task takes a read and copies its registers, byte by byte.
ReadFirst(s) ==
    /\ ~Sampling(s)
    /\ line[s] # <<>>
    /\ Head(line[s]).function = "READ_INPUT"
    /\ line' = [line EXCEPT ![s] = Tail(@)]
    /\ sampled' = [sampled EXCEPT ![s] = [bytes |-> <<ByteOf(registers[s], 1)>>,
                                          raced |-> pulsePc[s] = "store_low"]]
    /\ UNCHANGED <<pollVars, uartVars, masterVars, cacheVars, maskVars, loraVars,
                   measure, pulsePc, registers, relay, losses, restarts>>

ReadNext(s) ==
    /\ Len(sampled[s].bytes) \in 1 .. 2
    /\ sampled' = [sampled EXCEPT ![s].bytes =
                       Append(@, ByteOf(registers[s], Len(@) + 1))]
    /\ UNCHANGED <<pollVars, line, uartVars, masterVars, cacheVars, maskVars, loraVars,
                   measure, pulsePc, registers, relay, losses, restarts>>

\* The last byte, and the answer.
AnswerRead(s) ==
    /\ Len(sampled[s].bytes) = 3
    /\ Respond([slave |-> s, function |-> "READ_INPUT",
                data |-> Append(sampled[s].bytes, ByteOf(registers[s], 4)),
                raced |-> sampled[s].raced, intact |-> TRUE])
    /\ sampled' = [sampled EXCEPT ![s] = NoSample]
    /\ UNCHANGED <<pollVars, line, masterVars, cacheVars, maskVars, loraVars,
                   measure, pulsePc, registers, relay, restarts>>

\* It obeys a coil command and sends it back.
AnswerCoil(s) ==
    LET e == Head(line[s])
    IN /\ ~Sampling(s)
       /\ line[s] # <<>>
       /\ e.function = "WRITE_SINGLE_COIL"
       /\ line' = [line EXCEPT ![s] = Tail(@)]
       /\ relay' = [relay EXCEPT ![s] = [coil |-> e.coil_state, command |-> e.command]]
       /\ Respond([slave |-> s, function |-> "WRITE_SINGLE_COIL", data |-> <<>>,
                   raced |-> FALSE, intact |-> TRUE])
       /\ UNCHANGED <<pollVars, masterVars, cacheVars, maskVars, loraVars,
                      slaveVars, restarts>>

\* A request is lost: noise, or a collision with an answer.
LoseRequest(s) ==
    /\ line[s] # <<>>
    /\ Lose
    /\ line' = [line EXCEPT ![s] = Tail(@)]
    /\ UNCHANGED <<pollVars, uartVars, masterVars, cacheVars, maskVars, loraVars,
                   slaveVars, relay, restarts>>

\* Faulty: the count starts again from 0.
Recovered_zero(s) == 0

\* What get_initial_pulse brings back: the last count stored.
Recovered(s) == measure[s]

\* A slave resets: what it had not handled is lost, and its registers are 0 until
\* its pulse task has published the measure again.
SlaveReset(s) ==
    /\ Lose
    /\ line' = [line EXCEPT ![s] = <<>>]
    /\ measure' = [measure EXCEPT ![s] = Recovered(s)]
    /\ pulsePc' = [pulsePc EXCEPT ![s] = "store_high"]
    /\ registers' = [registers EXCEPT ![s] = NoWords]
    /\ sampled' = [sampled EXCEPT ![s] = NoSample]
    /\ UNCHANGED <<pollVars, uartVars, masterVars, cacheVars, maskVars, loraVars,
                   relay, restarts>>

\* The driver reports an overflow or a framing error.
LineError(error) ==
    /\ Lose
    /\ Signal(error)
    /\ UNCHANGED <<pollVars, line, ring, masterVars, cacheVars, maskVars, loraVars,
                   slaveVars, relay, restarts>>

-----------------------------------------------------------------------------
(* task_modbus_master *)

Cached(s) == inputRegister[High(s)] * WORD + inputRegister[Low(s)]

\* An event with data.
MasterReceive ==
    /\ masterPc = "receive"
    /\ uart_queue # <<>>
    /\ Head(uart_queue) \notin UartErrors
    /\ event' = Head(uart_queue)
    /\ uart_queue' = Tail(uart_queue)
    /\ masterPc' = "read"
    /\ UNCHANGED <<pollVars, line, ring, slave_response, tolerance_register, cacheVars,
                   maskVars, loraVars, slaveVars, relay, losses, restarts>>

\* The buffer after uart_read_bytes: the frame that the event announced, bytes of
\* frames of other lengths, or, when no byte came within MODBUS_TIMEOUT, what was
\* there before: the buffer is not cleared.
Buffer ==
    IF ring = <<>> THEN slave_response
    ELSE IF Head(ring).function = event THEN Head(ring)
    ELSE [slave_response EXCEPT !.intact = FALSE]

\* CRC16 of as many bytes as the event announced is 0.
Verified == Buffer.intact /\ Buffer.function = event

\* Echoes of commands pass check_exceptions and are ignored by save_register.
MasterRead ==
    /\ masterPc = "read"
    /\ Verified
    /\ slave_response' = Buffer
    /\ ring' = IF ring = <<>> THEN ring ELSE Tail(ring)
    /\ event' = "none"
    /\ LET s == Buffer.slave
       IN IF event = "READ_INPUT"
            THEN /\ before' = [before EXCEPT ![s] = Cached(s)]
                 /\ shown' = [shown EXCEPT ![s] = IF s \in raced THEN @ ELSE Cached(s)]
                 /\ masterPc' = "save_high"
            ELSE masterPc' = "receive" /\ UNCHANGED <<before, shown>>
    /\ UNCHANGED <<pollVars, line, uart_queue, tolerance_register, inputRegister, raced,
                   maskVars, loraVars, slaveVars, relay, losses, restarts>>

\* A CRC error: uart_flush empties the ring and leaves the events of what it held.
CrcError ==
    /\ masterPc = "read"
    /\ ~Verified
    /\ slave_response' = Buffer
    /\ ring' = <<>>
    /\ event' = "none"
    /\ masterPc' = "receive"
    /\ UNCHANGED <<pollVars, line, uart_queue, tolerance_register, cacheVars, maskVars,
                   loraVars, slaveVars, relay, losses, restarts>>

\* An overflow: uart_flush_input, then xQueueReset.
FlushInput ==
    /\ masterPc = "receive"
    /\ uart_queue # <<>>
    /\ Head(uart_queue) \in Overflows
    /\ ring' = <<>>
    /\ uart_queue' = Tail(uart_queue)
    /\ masterPc' = "reset_queue"
    /\ UNCHANGED <<pollVars, line, event, slave_response, tolerance_register, cacheVars,
                   maskVars, loraVars, slaveVars, relay, losses, restarts>>

\* The events that came in between go, their frames stay.
ResetQueue ==
    /\ masterPc = "reset_queue"
    /\ uart_queue' = <<>>
    /\ masterPc' = "receive"
    /\ UNCHANGED <<pollVars, line, ring, event, slave_response, tolerance_register,
                   cacheVars, maskVars, loraVars, slaveVars, relay, losses, restarts>>

\* A framing error: uart_init installs the driver anew, with an empty ring and queue.
FrameError ==
    /\ masterPc = "receive"
    /\ uart_queue # <<>>
    /\ Head(uart_queue) = "UART_FRAME_ERR"
    /\ ring' = <<>>
    /\ uart_queue' = <<>>
    /\ UNCHANGED <<pollVars, line, masterVars, cacheVars, maskVars, loraVars,
                   slaveVars, relay, losses, restarts>>

-----------------------------------------------------------------------------
(* save_register and check_toletance *)

\* Faulty: takes the low byte first.
Received_low_first(i) == slave_response.data[2 * i] * BYTE + slave_response.data[2 * i - 1]

\* Word i of the two in the answer being saved.
Received(i) == slave_response.data[2 * i - 1] * BYTE + slave_response.data[2 * i]

SaveHigh ==
    LET s == slave_response.slave
        r == High(s)
    IN /\ masterPc = "save_high"
       /\ tolerance_register' = [tolerance_register EXCEPT !.high = inputRegister[r]]
       /\ inputRegister' = [inputRegister EXCEPT ![r] = Received(1)]
       /\ raced' = IF slave_response.raced THEN raced \cup {s} ELSE raced \ {s}
       /\ masterPc' = "save_low"
       /\ UNCHANGED <<pollVars, line, uartVars, event, slave_response, before, shown,
                      maskVars, loraVars, slaveVars, relay, losses, restarts>>

\* Faulty: saves for the slave polled last instead of the one that answers.
SaveLow_polled ==
    LET r == Low(curr_slave)
    IN /\ masterPc = "save_low"
       /\ tolerance_register' = [tolerance_register EXCEPT !.low = inputRegister[r]]
       /\ inputRegister' = [inputRegister EXCEPT ![r] = Received(2)]
       /\ masterPc' = "clear_mask"
       /\ UNCHANGED <<pollVars, line, uartVars, event, slave_response, before, shown, raced,
                      maskVars, loraVars, slaveVars, relay, losses, restarts>>

SaveLow ==
    LET r == Low(slave_response.slave)
    IN /\ masterPc = "save_low"
       /\ tolerance_register' = [tolerance_register EXCEPT !.low = inputRegister[r]]
       /\ inputRegister' = [inputRegister EXCEPT ![r] = Received(2)]
       /\ masterPc' = "clear_mask"
       /\ UNCHANGED <<pollVars, line, uartVars, event, slave_response, before, shown, raced,
                      maskVars, loraVars, slaveVars, relay, losses, restarts>>

\* Faulty: takes the difference in one word.
Slope_word(current, previous) ==
    LET d == (current % WORD) - (previous % WORD)
    IN IF d < 0 THEN -d ELSE d

\* abs of the 32-bit difference of two measures
Slope(current, previous) ==
    LET uint32 == WORD * WORD
        d      == (current - previous) % uint32
    IN IF 2 * d < uint32 THEN d ELSE uint32 - d

ClearMask ==
    LET s        == slave_response.slave
        previous == tolerance_register.high * WORD + tolerance_register.low
    IN /\ masterPc = "clear_mask"
       /\ modbus_coils' = [modbus_coils EXCEPT ![s] = FALSE]
       /\ overridden' = overridden \ {s}
       /\ masterPc' = IF Slope(Cached(s), previous) > TOLERANCE
                      THEN "set_mask" ELSE "receive"
       /\ tolerance_register' = NoWords
       /\ UNCHANGED <<pollVars, line, uartVars, event, slave_response, cacheVars, loraVars,
                      slaveVars, relay, losses, restarts>>

\* Faulty: masks the slave polled last.
Jumped_polled == curr_slave

\* The slave whose measure jumped.
Jumped == slave_response.slave

SetMask ==
    /\ masterPc = "set_mask"
    /\ modbus_coils' = [modbus_coils EXCEPT ![Jumped] = TRUE]
    /\ masterPc' = "receive"
    /\ UNCHANGED <<pollVars, line, uartVars, event, slave_response, tolerance_register,
                   cacheVars, overridden, loraVars, slaveVars, relay, losses, restarts>>

-----------------------------------------------------------------------------
(* task_lora and modbus_slave_functions *)

\* READ_INPUT of two registers.
LoraRead(address) ==
    /\ loraPc = "receive"
    /\ request' = [NoRequest EXCEPT !.address = address]
    /\ response' = <<>>
    /\ loraPc' = "read"
    /\ UNCHANGED <<pollVars, line, uartVars, masterVars, cacheVars, maskVars,
                   queue_size, issued, slaveVars, relay, losses, restarts>>

\* Faulty: counts registers from 1.
Shown_from_one(r, i) ==
    IF i % 2 = 0 THEN <<inputRegister[r - 1] % BYTE>>
    ELSE IF modbus_coils[(r + 1) \div 2] THEN <<0, 0>>
    ELSE <<inputRegister[r - 1] \div BYTE>>

\* From byte i of the answer on: a register is shown as 0 while the coil of its
\* slave is set, else byte by byte.
Shown(r, i) ==
    IF i % 2 = 0 THEN <<inputRegister[r] % BYTE>>
    ELSE IF modbus_coils[(r + 1) \div 2] THEN <<0, 0>>
    ELSE <<inputRegister[r] \div BYTE>>

ReadBytes ==
    LET i == Len(response) + 1
    IN /\ loraPc = "read"
       /\ response' = response \o Shown(request.address + (i - 1) \div 2, i)
       /\ loraPc' = IF Len(response') = 4 THEN "receive" ELSE "read"
       /\ UNCHANGED <<pollVars, line, uartVars, masterVars, cacheVars, maskVars, request,
                      queue_size, issued, slaveVars, relay, losses, restarts>>

\* Faulty: tells its own relay by the byte of the address.
LoraCommandOwn_cut(c) ==
    /\ loraPc = "receive"
    /\ c.address % UINT8 = NODE_ID
    /\ Len(issued) < MaxCommands
    /\ issued' = Append(issued, c)
    /\ relay' = IF c.value = "OTHER" THEN relay
                ELSE [relay EXCEPT ![NODE_ID] = [coil    |-> c.value = "ON",
                                                 command |-> Len(issued) + 1]]
    /\ UNCHANGED <<pollVars, line, uartVars, masterVars, cacheVars, maskVars, loraPc,
                   request, response, queue_size, slaveVars, losses, restarts>>

\* A command with a wrong key, and WRITE_MULTIPLES_COILS, are sent back and change
\* nothing.  WRITE_SINGLE_COIL for the gateway's own relay, which is told by all 16
\* bits of the address; other values leave it.
LoraCommandOwn(c) ==
    /\ loraPc = "receive"
    /\ c.address = NODE_ID
    /\ Len(issued) < MaxCommands
    /\ issued' = Append(issued, c)
    /\ relay' = IF c.value = "OTHER" THEN relay
                ELSE [relay EXCEPT ![NODE_ID] = [coil    |-> c.value = "ON",
                                                 command |-> Len(issued) + 1]]
    /\ UNCHANGED <<pollVars, line, uartVars, masterVars, cacheVars, maskVars, loraPc,
                   request, response, queue_size, slaveVars, losses, restarts>>

\* poll_event->slave is a byte: the id is cut off the address of the coil.
Addressed(c) == c.address % UINT8

\* WRITE_SINGLE_COIL for a slave.  The mask is the coil of the whole address.  The
\* coil of the event is what malloc left there when the value is neither 0xff00 nor
\* 0.
LoraCommand(c) ==
    /\ loraPc = "receive"
    /\ c.address # NODE_ID
    /\ Len(issued) < MaxCommands
    /\ issued' = Append(issued, c)
    /\ queue_size' = (queue_size + 1) % UINT8
    /\ \E coil \in BOOLEAN :
          /\ c.value # "OTHER" => coil = (c.value = "ON")
          /\ request' = [NoRequest EXCEPT
                !.event = [slave |-> Addressed(c), function |-> "WRITE_SINGLE_COIL",
                           coil_state |-> coil, command |-> Len(issued) + 1]]
    /\ IF c.value = "OTHER"
         THEN UNCHANGED maskVars
         ELSE /\ modbus_coils' = [modbus_coils EXCEPT ![c.address] = (c.value = "ON")]
              /\ overridden' = overridden \cup ({c.address} \cap Slaves)
    /\ response' = <<>>
    /\ loraPc' = "enqueue"
    /\ UNCHANGED <<pollVars, line, uartVars, masterVars, cacheVars, slaveVars,
                   relay, losses, restarts>>

\* The result of xQueueSend is not looked at.
LoraSend ==
    /\ loraPc = "enqueue"
    /\ Send(request.event)
    /\ loraPc' = "receive"
    /\ request' = NoRequest
    /\ UNCHANGED <<pollPc, curr_slave, line, uartVars, masterVars, cacheVars,
                   maskVars, response, queue_size, issued, slaveVars,
                   relay, losses, restarts>>

-----------------------------------------------------------------------------
\* Power loss, the watchdog, or a coil command for address 0: what is on the
\* line stays there, the rest is lost.
Restart ==
    /\ restarts < MaxRestarts
    /\ restarts' = restarts + 1
    /\ uart_send_queue' = <<ReadPoll(1)>>
    /\ pollPc' = "receive"
    /\ curr_slave' = 1
    /\ ring' = <<>>
    /\ uart_queue' = <<>>
    /\ masterPc' = "receive"
    /\ event' = "none"
    /\ slave_response' = NoFrame
    /\ tolerance_register' = NoWords
    /\ inputRegister' = [r \in Registers |-> 0]
    /\ modbus_coils' = [c \in Coils |-> FALSE]
    /\ loraPc' = "receive"
    /\ request' = NoRequest
    /\ response' = <<>>
    /\ queue_size' = 0
    /\ before' = [s \in Slaves |-> 0]
    /\ shown' = [s \in Slaves |-> 0]
    /\ raced' = {}
    /\ overridden' = {}
    /\ UNCHANGED <<line, slaveVars, relay, issued, losses>>

-----------------------------------------------------------------------------
PollStep   == PollTake \/ PollIdle \/ PollSend
InputStep  == MasterReceive \/ MasterRead \/ CrcError \/ FlushInput \/ ResetQueue \/ FrameError
SaveStep   == SaveHigh \/ SaveLow \/ ClearMask \/ SetMask
MasterStep == InputStep \/ SaveStep
LoraStep   == ReadBytes \/ LoraSend
PulseStep(s) == Consume(s) \/ StoreHigh(s) \/ StoreLow(s)
SlaveStep(s) == ReadFirst(s) \/ ReadNext(s) \/ AnswerRead(s) \/ AnswerCoil(s)

Requests ==
    \/ \E address \in ReadAddresses : LoraRead(address)
    \/ \E c \in Commands : LoraCommandOwn(c) \/ LoraCommand(c)

Next ==
    \/ PollStep \/ MasterStep \/ LoraStep \/ Requests \/ Restart
    \/ \E error \in {"UART_FIFO_OVF", "UART_FRAME_ERR"} : LineError(error)
    \/ \E s \in Slaves : SlaveStep(s) \/ PulseStep(s) \/ LoseRequest(s) \/ SlaveReset(s)

Spec == Init /\ [][Next]_vars

\* FreeRTOS schedules every ready task and a slave answers what reaches it.
FairSpec ==
    /\ Spec
    /\ WF_vars(PollStep) /\ WF_vars(MasterStep) /\ WF_vars(LoraStep)
    /\ \A s \in Slaves : WF_vars(SlaveStep(s))

-----------------------------------------------------------------------------
(* Properties *)

Saving(s) == masterPc \in SaveSteps /\ slave_response.slave = s

\* What a slave has had: no measure of it is larger than its count.
Had(s) == {m \in Measures[s] : m <= measure[s]}

\* The cache of a slave holds a measure that this slave has had, if the slave did not
\* publish it while it was read: whatever polls, commands, damaged answers, stale
\* events and resets come between a request and its answer, no words of another node
\* or of another answer get in (save_register).  Only between its two stores the
\* pair is mixed.
CacheIsGenuine ==
    \A s \in Slaves :
        ~(Saving(s) /\ masterPc = "save_low") /\ s \notin raced => Cached(s) \in Had(s)

\* A later answer never takes a measure back, except to the 0 of a slave that has
\* just reset: of the values read while nothing was published, none is below an
\* earlier one, through flushes that leave events behind and answers saved twice.
CacheNeverGoesBack ==
    \A s \in Slaves :
        ~Saving(s) /\ s \notin raced => Cached(s) >= shown[s] \/ Cached(s) = 0

Distance(m, n) == IF m > n THEN m - n ELSE n - m

\* check_toletance against the commands that write the same coil: outside
\* save_register, and unless a command wrote it since, the coil of a slave masks
\* its registers exactly when the last answer moved them by more than TOLERANCE.
MaskFollowsJump ==
    \A s \in Slaves :
        ~Saving(s) /\ s \notin overridden =>
            modbus_coils[s] = (Distance(Cached(s), before[s]) > TOLERANCE)

\* A relay moves only to what a command asked for whose address, cut to a byte, is
\* this node (the gateway's own: all of it), with a coil value of the protocol,
\* through both queues and the line.
RelayObeys ==
    \A id \in Nodes :
        LET n == relay[id].command
        IN n # 0 =>
              /\ IF id = NODE_ID THEN issued[n].address = id
                                 ELSE issued[n].address % UINT8 = id
              /\ issued[n].value # "OTHER" => relay[id].coil = (issued[n].value = "ON")

\* No relay obeys an older command after a newer one, or the same one twice.
RelayInOrder ==
    [][\A id \in Nodes : relay'[id] # relay[id] =>
           relay'[id].command > relay[id].command]_vars

\* The cyclic polls go on for ever and leave no slave out, whatever was reset, once
\* no command comes before the poll task is idle (MaxCommands).
EverySlavePolled ==
    \A s \in Slaves :
        []<>(\E i \in DOMAIN line[s] : line[s][i].function = "READ_INPUT")

\* Unless the line or a node fails, a command that is in the queue moves the relay
\* or is overtaken by a newer one.
CommandArrives ==
    \A s \in Slaves, n \in 1 .. MaxCommands :
        (\E i \in DOMAIN uart_send_queue :
             uart_send_queue[i].slave = s /\ uart_send_queue[i].command = n)
            ~> relay[s].command >= n \/ losses > 0 \/ restarts > 0

\* What the LoRa task answers is a measure of the node that was asked, or 0.
AnswerIsAMeasure ==
    loraPc = "receive" /\ request.address # 0 =>
        \E s \in Slaves :
            /\ request.address = High(s)
            /\ (response[1] * BYTE + response[2]) * WORD + response[3] * BYTE + response[4]
                  \in Measures[s]

\* The same where no slave raced its read, so that only the gateway's own stores and
\* reads are left to mix two measures.  Violated by save_register of the master task
\* and modbus_slave_functions of the LoRa task.
ReadIsAMeasure == raced = {} => AnswerIsAMeasure
=============================================================================
