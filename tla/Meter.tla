-------------------------------- MODULE Meter --------------------------------
(***************************************************************************)
(* The pulse task of main/main.c (task_pulse) with its interrupt handler   *)
(* (pulse_isr), the store it keeps the count in (FlashStore) and the       *)
(* Modbus input registers it publishes the measure in (register_save).     *)
(* The node can lose power at any step; a give on a semaphore that does    *)
(* not exist yet aborts it.                                                *)
(*                                                                         *)
(* A step of the task is the code between two points where another task,   *)
(* an interrupt or a reset can come in: a blocking call or an access to    *)
(* state that is shared or persistent.                                     *)
(***************************************************************************)
EXTENDS FlashStore

CONSTANTS
    WORD,             \* 2^16, the modulus of a Modbus register
    IMPULSE_CONVERSION, \* pulses per kWh
    InitialEnergies,  \* the values INITIAL_ENERGY may be configured to
    MaxPulses,        \* bound: pulses counted
    MaxRestarts       \* bound: resets of the node

ASSUME MeterAssumption ==
    /\ WORD \in Nat \ {0}
    /\ UINT32 = WORD * WORD
    /\ IMPULSE_CONVERSION \in Nat \ {0}
    /\ InitialEnergies \subseteq Nat
    /\ MaxPulses \in 0 .. (UINT32 - 1)
    /\ MaxRestarts \in Nat

VARIABLES
    INITIAL_ENERGY,        \* configured energy, in hundredths of kWh
    pc,                    \* where task_pulse is
    smph_pulse_handler,    \* the binary semaphore of pulse_isr
    pulses,                \* local of task_pulse: the count
    pulse_address,         \* where the count is stored
    err,                   \* local of task_pulse: result of put_nvs
    inputRegister,         \* the two words of this node's measure
    restarts,              \* ghost: resets so far
    rolledBack             \* ghost: some boot loaded less than was last stored

taskVars == <<pc, pulses, pulse_address, err>>
vars == <<flashVars, INITIAL_ENERGY, pc, smph_pulse_handler, pulses,
          pulse_address, err, inputRegister, restarts, rolledBack>>

BootSteps    == {"isr_init", "create_semaphore", "search", "read_page", "read_count"}
PublishSteps == {"publish_high", "publish_low"}
InitialSave  == {"init_high", "init_low"}
PutSteps     == {"put", "open", "set"}
LoopSteps    == {"wait", "debounce", "holdoff"} \cup PutSteps
Steps        == BootSteps \cup InitialSave \cup LoopSteps \cup PublishSteps

TypeOK ==
    /\ FlashTypeOK
    /\ INITIAL_ENERGY \in InitialEnergies
    /\ pc \in Steps
    /\ smph_pulse_handler \in {"NULL", "empty", "given"}
    /\ pulses \in Nat
    /\ pulse_address \in AddressVar
    /\ err \in {"ESP_OK", "ESP_FAIL"}
    /\ inputRegister \in [high : Nat, low : Nat]
    /\ restarts \in 0 .. MaxRestarts
    /\ rolledBack \in BOOLEAN

\* The values of main.c's globals and of task_pulse's locals after a reset.
PoweredOn ==
    [pc |-> "isr_init", smph |-> "NULL", pulses |-> 0, address |-> ZeroAddress,
     err |-> "ESP_OK", register |-> [high |-> 0, low |-> 0]]

Init ==
    /\ FlashInit
    /\ INITIAL_ENERGY \in InitialEnergies
    /\ pc = PoweredOn.pc
    /\ smph_pulse_handler = PoweredOn.smph
    /\ pulses = PoweredOn.pulses
    /\ pulse_address = PoweredOn.address
    /\ err = PoweredOn.err
    /\ inputRegister = PoweredOn.register
    /\ restarts = 0
    /\ rolledBack = FALSE

Reset ==
    /\ restarts < MaxRestarts
    /\ restarts' = restarts + 1
    /\ pc' = PoweredOn.pc
    /\ smph_pulse_handler' = PoweredOn.smph
    /\ pulses' = PoweredOn.pulses
    /\ pulse_address' = PoweredOn.address
    /\ err' = PoweredOn.err
    /\ inputRegister' = PoweredOn.register
    /\ UNCHANGED <<flashVars, INITIAL_ENERGY, rolledBack>>

-----------------------------------------------------------------------------
(* The interrupt handler *)

IsrArmed == pc # "isr_init"

\* A rising edge of the meter's output: xSemaphoreGiveFromISR.
PulseEdge ==
    /\ IsrArmed
    /\ smph_pulse_handler # "NULL"
    /\ smph_pulse_handler' = "given"
    /\ UNCHANGED <<flashVars, INITIAL_ENERGY, taskVars, inputRegister, restarts,
                   rolledBack>>

\* The same with no semaphore yet: FreeRTOS asserts on the NULL handle and the
\* panic handler resets the chip.
PulseEdgeAborts ==
    /\ IsrArmed
    /\ smph_pulse_handler = "NULL"
    /\ Reset

-----------------------------------------------------------------------------
(* Start of the task *)

pulse_isr_init ==
    /\ pc = "isr_init"
    /\ pc' = "create_semaphore"
    /\ UNCHANGED <<flashVars, INITIAL_ENERGY, smph_pulse_handler, pulses,
                   pulse_address, err, inputRegister, restarts, rolledBack>>

CreateSemaphore ==
    /\ pc = "create_semaphore"
    /\ smph_pulse_handler' = "empty"
    /\ pulse_address' = [pulse_address EXCEPT !.partition = 0]
    /\ pc' = "search"
    /\ UNCHANGED <<flashVars, INITIAL_ENERGY, pulses, err, inputRegister, restarts,
                   rolledBack>>

SearchPartition ==
    /\ pc = "search"
    /\ search_init_partition
    /\ pulse_address' = [pulse_address EXCEPT !.partition = FoundPartition]
    /\ pc' = "read_page"
    /\ UNCHANGED <<nvs, namespaces, ghostVars, INITIAL_ENERGY, smph_pulse_handler,
                   pulses, err, inputRegister, restarts, rolledBack>>

ReadPageIndex ==
    /\ pc = "read_page"
    /\ read_pvcounter_from_storage(pulse_address.partition)
    /\ pc' = "read_count"
    /\ UNCHANGED <<nvs, namespaces, ghostVars, INITIAL_ENERGY, smph_pulse_handler,
                   pulses, pulse_address, err, inputRegister, restarts, rolledBack>>

\* Faulty: the value read does not reach the caller.
ReadCount_zero ==
    LET p == pulse_address.partition
        g == PageIndex(p)
        a == At(p, g, LastEntry(p, g))
    IN /\ pc = "read_count"
       /\ get_pulse_counter_info(p, g)
       /\ pulses' = 0
       /\ pulse_address' = a
       /\ rolledBack' = (rolledBack \/ pulses' < saved)
       /\ err' = "ESP_OK"
       /\ pc' = "init_high"
       /\ UNCHANGED <<storage, INITIAL_ENERGY, smph_pulse_handler, inputRegister,
                      restarts>>

\* Faulty: the registers are not written before the first pulse.
ReadCount_unpublished ==
    LET p == pulse_address.partition
        g == PageIndex(p)
        a == At(p, g, LastEntry(p, g))
    IN /\ pc = "read_count"
       /\ get_pulse_counter_info(p, g)
       /\ pulses' = IF nvs[a] = NotFound THEN 0 ELSE nvs[a]
       /\ pulse_address' = a
       /\ rolledBack' = (rolledBack \/ pulses' < saved)
       /\ err' = "ESP_OK"
       /\ pc' = "wait"
       /\ UNCHANGED <<storage, INITIAL_ENERGY, smph_pulse_handler, inputRegister,
                      restarts>>

ReadCount ==
    LET p == pulse_address.partition
        g == PageIndex(p)
        a == At(p, g, LastEntry(p, g))
    IN /\ pc = "read_count"
       /\ get_pulse_counter_info(p, g)
       /\ pulses' = IF nvs[a] = NotFound THEN 0 ELSE nvs[a]
       /\ pulse_address' = a
       /\ rolledBack' = (rolledBack \/ pulses' < saved)
       /\ err' = "ESP_OK"
       /\ pc' = "init_high"
       /\ UNCHANGED <<storage, INITIAL_ENERGY, smph_pulse_handler, inputRegister,
                      restarts>>

-----------------------------------------------------------------------------
(* register_save: two 16-bit stores that a reader on the other core can see
   one at a time *)

\* round(value / IMPULSE_CONVERSION / 0.01): hundredths of kWh
normalize_pulses(value) ==
    ((200 * value + IMPULSE_CONVERSION) \div (2 * IMPULSE_CONVERSION)) % UINT32

PublishHigh ==
    /\ pc \in {"init_high", "publish_high"}
    /\ inputRegister' = [inputRegister EXCEPT !.high = normalize_pulses(pulses) \div WORD]
    /\ pc' = IF pc = "init_high" THEN "init_low" ELSE "publish_low"
    /\ UNCHANGED <<flashVars, INITIAL_ENERGY, smph_pulse_handler, pulses,
                   pulse_address, err, restarts, rolledBack>>

\* The save of a boot is followed by the first wait, that of a pulse by the
\* 500 ms hold-off.
PublishLow ==
    /\ pc \in {"init_low", "publish_low"}
    /\ inputRegister' = [inputRegister EXCEPT !.low = normalize_pulses(pulses) % WORD]
    /\ pc' = IF pc = "init_low" THEN "wait" ELSE "holdoff"
    /\ UNCHANGED <<flashVars, INITIAL_ENERGY, smph_pulse_handler, pulses,
                   pulse_address, err, restarts, rolledBack>>

-----------------------------------------------------------------------------
(* The loop of the task *)

TakeSemaphore ==
    /\ pc = "wait"
    /\ smph_pulse_handler = "given"
    /\ smph_pulse_handler' = "empty"
    /\ pc' = "debounce"
    /\ UNCHANGED <<flashVars, INITIAL_ENERGY, pulses, pulse_address, err,
                   inputRegister, restarts, rolledBack>>

\* After 10 ms the line is still high: the edge counts.
SampleHigh ==
    /\ pc = "debounce"
    /\ pulses < MaxPulses
    /\ pulses' = pulses + 1
    /\ pc' = "put"
    /\ UNCHANGED <<flashVars, INITIAL_ENERGY, smph_pulse_handler, pulse_address, err,
                   inputRegister, restarts, rolledBack>>

\* The line is low again: a glitch.
SampleLow ==
    /\ pc = "debounce"
    /\ pc' = "wait"
    /\ UNCHANGED <<flashVars, INITIAL_ENERGY, smph_pulse_handler, pulses,
                   pulse_address, err, inputRegister, restarts, rolledBack>>

Worn == EntryWorn(pulses, writes_offset(INITIAL_ENERGY, IMPULSE_CONVERSION))

\* put_nvs up to its call of save2address.
PutAddress ==
    /\ pc = "put"
    /\ ~(Worn /\ IsLast(pulse_address))
    /\ pulse_address' = IF Worn THEN NextAddress(pulse_address) ELSE pulse_address
    /\ pc' = "open"
    /\ UNCHANGED <<flashVars, INITIAL_ENERGY, smph_pulse_handler, pulses, err,
                   inputRegister, restarts, rolledBack>>

\* Faulty: a pulse that put_nvs has no place for is not published.
FlashFull_quiet ==
    /\ pc = "put"
    /\ Worn /\ IsLast(pulse_address)
    /\ err' = "ESP_FAIL"
    /\ pc' = "holdoff"
    /\ UNCHANGED <<flashVars, INITIAL_ENERGY, smph_pulse_handler, pulses,
                   pulse_address, inputRegister, restarts, rolledBack>>

FlashFull ==
    /\ pc = "put"
    /\ Worn /\ IsLast(pulse_address)
    /\ err' = "ESP_FAIL"
    /\ pc' = "publish_high"
    /\ UNCHANGED <<flashVars, INITIAL_ENERGY, smph_pulse_handler, pulses,
                   pulse_address, inputRegister, restarts, rolledBack>>

\* put_nvs drops the result of save2address and returns ESP_OK.
PutReturns == err' = "ESP_OK" /\ pc' = "publish_high"

\* save2address, opening the page.
SaveOpen ==
    LET p == pulse_address.partition
        g == pulse_address.page
    IN /\ pc = "open"
       /\ \/ /\ CanOpen(p, g)
             /\ OpenPage(p, g)
             /\ pc' = "set"
             /\ UNCHANGED err
          \/ /\ ~CanOpen(p, g)
             /\ PutReturns
             /\ UNCHANGED <<namespaces, used>>
       /\ UNCHANGED <<nvs, storage, ghostVars, INITIAL_ENERGY, smph_pulse_handler,
                      pulses, pulse_address, inputRegister, restarts, rolledBack>>

\* Faulty: put_nvs(pulses++, ..), the value stored is the one before the pulse.
SaveSet_before_count ==
    /\ pc = "set"
    /\ \/ /\ HasRoom(pulse_address.partition)
          /\ WriteEntry(pulse_address, pulses - 1)
       \/ /\ ~HasRoom(pulse_address.partition)
          /\ UNCHANGED <<nvs, used, ghostVars>>
    /\ PutReturns
    /\ UNCHANGED <<namespaces, storage, INITIAL_ENERGY, smph_pulse_handler, pulses,
                   pulse_address, inputRegister, restarts, rolledBack>>

\* save2address, writing the entry.
SaveSet ==
    /\ pc = "set"
    /\ \/ /\ HasRoom(pulse_address.partition)
          /\ WriteEntry(pulse_address, pulses)
       \/ /\ ~HasRoom(pulse_address.partition)
          /\ UNCHANGED <<nvs, used, ghostVars>>
    /\ PutReturns
    /\ UNCHANGED <<namespaces, storage, INITIAL_ENERGY, smph_pulse_handler, pulses,
                   pulse_address, inputRegister, restarts, rolledBack>>

EndHoldoff ==
    /\ pc = "holdoff"
    /\ pc' = "wait"
    /\ UNCHANGED <<flashVars, INITIAL_ENERGY, smph_pulse_handler, pulses,
                   pulse_address, err, inputRegister, restarts, rolledBack>>

-----------------------------------------------------------------------------
TaskStep ==
    \/ pulse_isr_init \/ CreateSemaphore \/ SearchPartition \/ ReadPageIndex \/ ReadCount
    \/ PublishHigh \/ PublishLow
    \/ TakeSemaphore \/ SampleHigh \/ SampleLow
    \/ PutAddress \/ FlashFull \/ SaveOpen \/ SaveSet \/ EndHoldoff

PowerLoss == Reset

Next == TaskStep \/ PulseEdge \/ PulseEdgeAborts \/ PowerLoss

Spec == Init /\ [][Next]_vars

\* The task runs whenever it can: FreeRTOS schedules a ready task, and nothing
\* in its loop waits for another task.
FairSpec == Spec /\ WF_vars(TaskStep)

-----------------------------------------------------------------------------
(* Properties *)

Running == pc \notin BootSteps

\* A boot comes back to the last address written and to the value stored there
\* (get_initial_pulse after put_nvs), for as long as the counter lives in the
\* first page: page_index and isFull never move on.
RecoverExact ==
    InFirstPage(savedAt) => /\ RecoveredAddress = savedAt
                            /\ RecoveredCount = saved

\* The same without the restriction to the first page: what flash.h promises of
\* get_initial_pulse ("the last counter value and the address saved before
\* reboot").
RecoversLastSave == savedAt # NoAddress => RecoveredCount = saved

\* A power loss costs at most the pulse being stored: outside put_nvs the count
\* in RAM is the count a boot would load (first page, with room to write).
AtMostOneLost ==
    Running /\ InFirstPage(pulse_address) /\ HasRoom(1) =>
        pulses = IF pc \in PutSteps THEN RecoveredCount + 1 ELSE RecoveredCount

Published == inputRegister.high * WORD + inputRegister.low

\* No Modbus master is shown energy that a power loss would take back: except
\* while a measure is being published, the registers hold the measure of the
\* count that a boot would load (first page, with room to write).
PublishedIsDurable ==
    /\ pc \in LoopSteps
    /\ InFirstPage(pulse_address) /\ HasRoom(1)
    => Published = normalize_pulses(RecoveredCount)

\* Addresses in the order put_nvs uses them.
Before(a, b) ==
    \/ a.partition < b.partition
    \/ a.partition = b.partition /\ a.page < b.page
    \/ a.partition = b.partition /\ a.page = b.page /\ a.entry_index < b.entry_index

\* The store is a log: of two written addresses the later one holds the larger
\* count.  get_pulse_counter_info relies on it when it takes the last entry of a
\* page for the newest value.
StoreOrdered ==
    \A a, b \in Address :
        Before(a, b) /\ nvs[a] # NotFound /\ nvs[b] # NotFound => nvs[a] < nvs[b]

\* Wear levelling: until a boot rolls the counter back, no entry but the last is
\* written more often than MAX_WRITES and the few writes more that the wrap of
\* writes_count below the configured offset allows.
WearLevelled ==
    ~rolledBack =>
        \A a \in Address :
            IsLast(a) \/ writes[a] <= MAX_WRITES + (UINT32 % MAX_WRITES)

\* A pulse that was counted reaches the input registers, unless the node resets, also
\* when put_nvs could not store it and when the last entry of the flash is worn.
PulsePublished ==
    \A n \in 1 .. MaxPulses :
        (pc = "put" /\ pulses = n)
            ~> (pc = "holdoff" /\ Published = normalize_pulses(n)) \/ pc = "isr_init"
=============================================================================
