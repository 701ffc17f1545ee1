------------------------------ MODULE MeterConfig ------------------------------
(***************************************************************************)
(* The console of main/config_rtu.c (uart_event_task, config_save_flash)   *)
(* against the pulse task of Meter: "-energy e -save" replaces the stored  *)
(* count by the pulses of e through the same put_nvs, on the same address, *)
(* from a task that nothing keeps apart from the pulse task.               *)
(*                                                                         *)
(* What the two tasks share is the global pulse_address, INITIAL_ENERGY    *)
(* and the NVS library, whose nvs_flash_deinit_partition closes every      *)
(* handle of the partition, also the one that the other task is using.     *)
(* A deinit that falls between the other task's init and open is taken     *)
(* together with one between its open and its set: both lose the store.    *)
(*                                                                         *)
(* Named bounds: Saves counts -save commands, and they arrive when the     *)
(* task has booted (its start takes milliseconds).  -id, -pulse and        *)
(* -slaves change no variable of this module.                              *)
(***************************************************************************)
EXTENDS Meter

CONSTANT MaxSaves       \* bound: -save commands

\* AUX is a zero-initialised global, so 0 can always become the energy.
ASSUME ConfigAssumption == 0 \in InitialEnergies /\ MaxSaves \in Nat

VARIABLES
    INITIAL_E, \* the energy in the default partition
    AUX,       \* the energy the console was last told
    console,   \* where config_save_flash is, "idle" outside
    target,    \* the address that the console's put_nvs gives save2address
    handle,    \* partition of each task's open NVS handle, 0 when not valid
    saves,     \* ghost: -save commands so far
    asked,     \* ghost: -energy has been given since the last reset
    counted,   \* ghost: pulses when the console's put_nvs began
    overlap    \* ghost: the pulse task was in put_nvs since then

consoleVars == <<INITIAL_E, AUX, console, target, saves, asked, counted>>
configVars  == <<consoleVars, handle, overlap>>
allVars     == <<vars, configVars>>

Writers == {"pulse", "console"}
StoreSteps == {"open", "set", "restart"}

ConfigTypeOK ==
    /\ TypeOK
    /\ INITIAL_E \in InitialEnergies
    /\ AUX \in InitialEnergies
    /\ console \in {"idle", "set_energy", "put"} \cup StoreSteps
    /\ target \in AddressVar
    /\ handle \in [Writers -> 0 .. MAX_PARTITIONS]
    /\ saves \in 0 .. MaxSaves
    /\ asked \in BOOLEAN
    /\ counted \in Nat
    /\ overlap \in BOOLEAN

ConfigInit ==
    /\ Init
    /\ INITIAL_E = INITIAL_ENERGY
    /\ AUX = 0
    /\ console = "idle"
    /\ target = NoAddress
    /\ handle = [w \in Writers |-> 0]
    /\ saves = 0
    /\ asked = FALSE
    /\ counted = 0
    /\ overlap = FALSE

\* Every reset: the globals are zeroed and check_rtu_config loads the energy
\* before the tasks start.
Reboot ==
    /\ pc' = PoweredOn.pc
    /\ smph_pulse_handler' = PoweredOn.smph
    /\ pulses' = PoweredOn.pulses
    /\ pulse_address' = PoweredOn.address
    /\ err' = PoweredOn.err
    /\ inputRegister' = PoweredOn.register
    /\ INITIAL_ENERGY' = INITIAL_E
    /\ AUX' = 0
    /\ console' = "idle"
    /\ target' = NoAddress
    /\ handle' = [w \in Writers |-> 0]
    /\ asked' = FALSE
    /\ counted' = 0
    /\ overlap' = FALSE
    /\ UNCHANGED <<flashVars, rolledBack, INITIAL_E, saves>>

-----------------------------------------------------------------------------
(* The NVS library under two tasks *)

Opened(w, p) == handle' = [handle EXCEPT ![w] = p]

\* nvs_flash_deinit_partition.
Deinit(p) == handle' = [w \in Writers |-> IF handle[w] = p THEN 0 ELSE handle[w]]

-----------------------------------------------------------------------------
(* The console *)

\* Faulty: e is taken for kWh instead of hundredths.
SetAux_kwh(e) ==
    /\ console = "idle"
    /\ AUX' = 100 * e
    /\ asked' = TRUE
    /\ UNCHANGED <<vars, INITIAL_E, console, target, handle, saves, counted, overlap>>

\* -energy e
SetAux(e) ==
    /\ console = "idle"
    /\ AUX' = e
    /\ asked' = TRUE
    /\ UNCHANGED <<vars, INITIAL_E, console, target, handle, saves, counted, overlap>>

NewEnergy == AUX # INITIAL_ENERGY

\* -save, up to the commit of the default partition.
SaveConfig ==
    /\ console = "idle" /\ Running
    /\ saves < MaxSaves
    /\ saves' = saves + 1
    /\ INITIAL_E' = IF NewEnergy THEN AUX ELSE INITIAL_E
    /\ console' = IF NewEnergy THEN "set_energy" ELSE "restart"
    /\ UNCHANGED <<vars, AUX, target, handle, asked, counted, overlap>>

\* Faulty: INITIAL_ENERGY keeps the energy of the last boot.
SetEnergy_kept ==
    /\ console = "set_energy"
    /\ console' = "put"
    /\ UNCHANGED <<vars, INITIAL_E, AUX, target, handle, saves, asked, counted, overlap>>

SetEnergy ==
    /\ console = "set_energy"
    /\ INITIAL_ENERGY' = AUX
    /\ console' = "put"
    /\ UNCHANGED <<flashVars, pc, smph_pulse_handler, pulses, pulse_address, err,
                   inputRegister, restarts, rolledBack,
                   INITIAL_E, AUX, target, handle, saves, asked, counted, overlap>>

initial_pulses == writes_offset(INITIAL_ENERGY, IMPULSE_CONVERSION)

\* put_nvs(initial_pulses, &pulse_address) up to its call of save2address, which
\* takes the address by value.
ConsolePut ==
    LET worn == EntryWorn(initial_pulses, initial_pulses)
        next == IF worn THEN NextAddress(pulse_address) ELSE pulse_address
    IN /\ console = "put"
       /\ pulse_address' = next
       /\ target' = next
       /\ console' = "open"
       /\ counted' = pulses
       /\ overlap' = (pc \in PutSteps)
       /\ UNCHANGED <<flashVars, INITIAL_ENERGY, pc, smph_pulse_handler, pulses, err,
                      inputRegister, restarts, rolledBack,
                      INITIAL_E, AUX, handle, saves, asked>>

ConsoleOpen ==
    LET p == target.partition
        g == target.page
    IN /\ console = "open"
       /\ \/ /\ CanOpen(p, g)
             /\ OpenPage(p, g)
             /\ Opened("console", p)
             /\ console' = "set"
          \/ /\ ~CanOpen(p, g)
             /\ console' = "restart"
             /\ UNCHANGED <<namespaces, used, handle>>
       /\ UNCHANGED <<nvs, storage, ghostVars, INITIAL_ENERGY, taskVars,
                      smph_pulse_handler, inputRegister, restarts, rolledBack,
                      INITIAL_E, AUX, target, saves, asked, counted, overlap>>

\* The set, the commit, the close and the deinit of save2address; with a handle
\* that the pulse task has closed, nothing is stored and nothing deinitialised.
ConsoleSet ==
    /\ console = "set"
    /\ \/ /\ handle["console"] # 0 /\ HasRoom(target.partition)
          /\ WriteEntry(target, initial_pulses)
          /\ Deinit(target.partition)
       \/ /\ handle["console"] # 0 /\ ~HasRoom(target.partition)
          /\ Deinit(target.partition)
          /\ UNCHANGED <<nvs, used, ghostVars>>
       \/ /\ handle["console"] = 0
          /\ UNCHANGED <<nvs, used, ghostVars, handle>>
    /\ console' = "restart"
    /\ UNCHANGED <<namespaces, storage, INITIAL_ENERGY, taskVars, smph_pulse_handler,
                   inputRegister, restarts, rolledBack,
                   INITIAL_E, AUX, target, saves, asked, counted, overlap>>

\* Faulty: the node goes on without the restart.
Restart_missing ==
    /\ console = "restart"
    /\ console' = "idle"
    /\ UNCHANGED <<vars, INITIAL_E, AUX, target, handle, saves, asked, counted, overlap>>

\* esp_restart
Restart ==
    /\ console = "restart"
    /\ Reboot
    /\ UNCHANGED restarts

-----------------------------------------------------------------------------
(* The pulse task, with its handle *)

PulseOpen ==
    /\ SaveOpen
    /\ IF pc' = "set" THEN Opened("pulse", pulse_address.partition) ELSE UNCHANGED handle

PulseSet ==
    /\ handle["pulse"] # 0
    /\ SaveSet
    /\ Deinit(pulse_address.partition)

\* nvs_set_u32 and nvs_commit on a handle that the console's deinit has closed.
PulseSetFails ==
    /\ pc = "set" /\ handle["pulse"] = 0
    /\ PutReturns
    /\ UNCHANGED <<flashVars, INITIAL_ENERGY, smph_pulse_handler, pulses,
                   pulse_address, inputRegister, restarts, rolledBack, handle>>

PulseOther ==
    /\ \/ pulse_isr_init \/ CreateSemaphore \/ SearchPartition \/ ReadPageIndex
       \/ ReadCount \/ PublishHigh \/ PublishLow
       \/ TakeSemaphore \/ SampleHigh \/ SampleLow
       \/ PutAddress \/ FlashFull \/ EndHoldoff
       \/ PulseEdge
    /\ UNCHANGED handle

PulseStep ==
    /\ PulseOpen \/ PulseSet \/ PulseSetFails \/ PulseOther
    /\ overlap' = (overlap \/ (console \in StoreSteps /\ pc' \in PutSteps))
    /\ UNCHANGED consoleVars

ConsoleStep ==
    \/ \E e \in InitialEnergies : SetAux(e)
    \/ SaveConfig \/ SetEnergy \/ ConsolePut \/ ConsoleOpen \/ ConsoleSet \/ Restart

\* Also what an edge before the semaphore exists does (PulseEdgeAborts).
ConfigPowerLoss ==
    /\ restarts < MaxRestarts
    /\ restarts' = restarts + 1
    /\ Reboot

ConfigNext == PulseStep \/ ConsoleStep \/ ConfigPowerLoss

ConfigSpec == ConfigInit /\ [][ConfigNext]_allVars

-----------------------------------------------------------------------------
(* Properties *)

\* What -energy promises: when the node restarts after a save that went into the
\* store, the next boot shows the energy asked for, up to the rounding of
\* writes_offset and of normalize_pulses.  If the pulse task was in put_nvs
\* meanwhile the boot may find its count instead: at the least the one stored
\* before the save, and never a value that neither task meant.
EnergyTakes ==
    LET shown == normalize_pulses(RecoveredCount)
        error == IF shown > INITIAL_E THEN shown - INITIAL_E ELSE INITIAL_E - shown
    IN console = "restart" /\ target # NoAddress
       /\ InFirstPage(target) /\ InFirstPage(pulse_address) /\ HasRoom(1)
       => \/ 2 * IMPULSE_CONVERSION * error <= 100 + IMPULSE_CONVERSION
          \/ overlap /\ RecoveredCount \in (counted - 1) .. pulses

\* Whatever the console has stored, stopped storing or closed under the pulse
\* task is over with its restart: outside a save, a power loss costs at most the
\* pulse being stored.
AtMostOneLostOutsideSave == console = "idle" => AtMostOneLost

\* get_pulse_counter_info takes the number of entries of a page for the index of
\* the next one: with two writers, and stores that a closed handle loses, the
\* entries of the first page must still be created without a gap.
NoGap ==
    \A e, f \in Entries :
        e < f /\ f \in WrittenIn(1, 1) => e \in WrittenIn(1, 1)

\* Until a boot rolls the counter back an entry takes one share, and at most two more
\* for each save: the old count goes on under the new offset until the restart, with
\* one store by the console, and the boot may bring the counter back to the entry.
WearPerSave ==
    ~rolledBack =>
        \A a \in Address :
            \/ IsLast(a)
            \/ writes[a] <= (2 * saves + 1) * (MAX_WRITES + (UINT32 % MAX_WRITES))

\* Only -energy changes the energy that the meter starts from
\* (global_variables.h: the energy in the meter when the device is coupled to it).
EnergyKept == [][INITIAL_E' # INITIAL_E => asked]_allVars
=============================================================================
