------------------------------- MODULE Watchdog -------------------------------
(***************************************************************************)
(* Start and supervision of a node: app_main of main/main.c, the tasks it  *)
(* creates, and the task watchdog they feed.  Time is counted in seconds:  *)
(* a blocking call with a timeout is the seconds it may still take, and an *)
(* event can end it before.  What the tasks do with their events is in     *)
(* Meter, Gateway, SlaveTask and LoraLink; here only when they feed the    *)
(* watchdog, and what resets the node.                                     *)
(*                                                                         *)
(* ESP-IDF's watchdog (external) restarts its timer when every subscribed  *)
(* task has fed it since the last restart; a deleted task stays            *)
(* subscribed.  The idle tasks are taken to feed it in time.               *)
(***************************************************************************)
EXTENDS Integers

CONSTANTS
    TWDT_TIMEOUT_S, \* 20
    TWDT_RESET,     \* 5, TWDT_RESET milliseconds
    TIME_SCAN,      \* 1
    Timeouts,       \* MODBUS_TIMEOUT ticks in seconds, one for each tick rate
    MaxSlaves       \* bound: slaves of a gateway

ASSUME WatchdogAssumption ==
    /\ TWDT_RESET \in Nat \ {0} /\ TIME_SCAN \in Nat \ {0}
    /\ TWDT_TIMEOUT_S \in Nat
    /\ TWDT_TIMEOUT_S > TWDT_RESET + 1 /\ TWDT_TIMEOUT_S > 2 * TIME_SCAN
    /\ Timeouts \subseteq Nat \ {0}
    /\ MaxSlaves \in Nat

VARIABLES
    build,           \* menuconfig's options, SLAVES, and what works on this board
    at,              \* where each task is
    left,            \* seconds until the call a task is in times out
    subscribed,      \* tasks on the watchdog's list
    has_reset,       \* those that have fed it since its timer was restarted
    twdt,            \* seconds until it bites
    uart_send_queue, \* whether the queue of polls exists
    reason           \* ghost: what caused the last reset

vars == <<build, at, left, subscribed, has_reset, twdt, uart_send_queue, reason>>

Tasks   == {"app_main", "task_pulse", "task_modbus", "modbus_master_poll", "task_lora"}
Watched == {"task_pulse", "task_modbus", "modbus_master_poll"}

\* task_modbus is task_modbus_master or task_modbus_slave.
Builds == [pulse : BOOLEAN, master : BOOLEAN, lora : BOOLEAN,
           slaves : 0 .. MaxSlaves, timeout : Timeouts,
           modem : BOOLEAN, flash : BOOLEAN]

Timed   == {"wait", "work", "read", "modem", "version", "delay"}
Untimed == {"absent", "done", "deleted", "read_for_ever", "serve"}

TypeOK ==
    /\ build \in Builds
    /\ at \in [Tasks -> {"start"} \cup Timed \cup Untimed]
    /\ left \in [Tasks -> Nat]
    /\ subscribed \subseteq Watched
    /\ has_reset \subseteq subscribed
    /\ twdt \in 0 .. TWDT_TIMEOUT_S
    /\ uart_send_queue \in BOOLEAN
    /\ reason \in {"power_on", "watchdog", "modem", "null_queue", "coil_zero"}

Off == [t \in Tasks |-> IF t = "app_main" THEN "start" ELSE "absent"]

Init ==
    /\ build \in Builds
    /\ at = Off
    /\ left = [t \in Tasks |-> 0]
    /\ subscribed = {}
    /\ has_reset = {}
    /\ twdt = TWDT_TIMEOUT_S
    /\ uart_send_queue = FALSE
    /\ reason = "power_on"

Reset(why) ==
    /\ at' = Off
    /\ left' = [t \in Tasks |-> 0]
    /\ subscribed' = {}
    /\ has_reset' = {}
    /\ twdt' = TWDT_TIMEOUT_S
    /\ uart_send_queue' = FALSE
    /\ reason' = why
    /\ UNCHANGED build

-----------------------------------------------------------------------------
(* The watchdog *)

Restarts(fed, watched) == watched \subseteq fed

\* esp_task_wdt_reset.
Feed(t) ==
    LET fed == has_reset \cup {t}
    IN /\ has_reset' = IF Restarts(fed, subscribed) THEN {} ELSE fed
       /\ twdt' = IF Restarts(fed, subscribed) THEN TWDT_TIMEOUT_S ELSE twdt
       /\ UNCHANGED subscribed

\* A task that is added counts as fed.
esp_task_wdt_add(t) ==
    LET fed     == has_reset \cup {t}
        watched == subscribed \cup {t}
    IN /\ subscribed' = watched
       /\ has_reset' = IF Restarts(fed, watched) THEN {} ELSE fed
       /\ twdt' = IF Restarts(fed, watched) THEN TWDT_TIMEOUT_S ELSE twdt

unfed == <<subscribed, has_reset, twdt>>

Bite == twdt = 0 /\ Reset("watchdog")

\* Task t goes to state s, for at most n seconds.
Goes(t, s, n) ==
    /\ at' = [at EXCEPT ![t] = s]
    /\ left' = [left EXCEPT ![t] = n]

\* A call with a timeout ends: by its event at any time, by the timeout at 0.
Returns(t, s)  == at[t] = s
TimesOut(t, s) == at[t] = s /\ left[t] = 0

-----------------------------------------------------------------------------
(* app_main *)

\* The watchdog, the tasks of this build and then the modem.
AppMain ==
    /\ at["app_main"] = "start"
    /\ twdt' = TWDT_TIMEOUT_S
    /\ at' = [at EXCEPT
                !["app_main"]           = IF build.lora THEN "modem" ELSE "done",
                !["task_pulse"]         = IF build.pulse THEN "start" ELSE @,
                !["task_modbus"]        = "start",
                !["modbus_master_poll"] = IF build.master THEN "start" ELSE @]
    /\ left' = [left EXCEPT !["app_main"] = IF build.lora THEN 1 ELSE 0]
    /\ UNCHANGED <<build, subscribed, has_reset, uart_send_queue, reason>>

\* init_lora_mesh: the answer to the configuration, then the version string.
ModemAnswers ==
    /\ Returns("app_main", "modem") /\ build.modem
    /\ Goes("app_main", "version", 4)
    /\ UNCHANGED <<build, unfed, uart_send_queue, reason>>

\* Faulty: gives up although the modem is there, if its answer takes long.
ModemSilent_early ==
    /\ Returns("app_main", "modem")
    /\ Reset("modem")

\* ESP_ERROR_CHECK(init_lora()) aborts.
ModemSilent ==
    /\ TimesOut("app_main", "modem") /\ ~build.modem
    /\ Reset("modem")

\* Faulty: without the wait for the first polls.
LoraDelay_none == 0

\* Faulty: the sign of the two scans.
LoraDelay_minus == (build.slaves - 2) * TIME_SCAN

LoraDelay == IF build.master THEN (build.slaves + 2) * TIME_SCAN ELSE 0

StartLora ==
    /\ Returns("app_main", "version")
    /\ at' = [at EXCEPT !["app_main"] = "done", !["task_lora"] = "delay"]
    /\ left' = [left EXCEPT !["app_main"] = 0, !["task_lora"] = LoraDelay]
    /\ UNCHANGED <<build, unfed, uart_send_queue, reason>>

LoraServes ==
    /\ TimesOut("task_lora", "delay")
    /\ Goes("task_lora", "serve", 0)
    /\ UNCHANGED <<build, unfed, uart_send_queue, reason>>

-----------------------------------------------------------------------------
(* task_pulse *)

\* Faulty: RESET_WDT, the wait of the console (which is not on the list).
PulseWait_console == 5 * TWDT_RESET

PulseWait == TWDT_RESET

\* get_initial_pulse fails when the flash does: the task deletes itself.
PulseStart ==
    /\ at["task_pulse"] = "start"
    /\ esp_task_wdt_add("task_pulse")
    /\ IF build.flash THEN Goes("task_pulse", "wait", PulseWait)
                      ELSE Goes("task_pulse", "deleted", 0)
    /\ UNCHANGED <<build, uart_send_queue, reason>>

\* A pulse: debounce, store and hold-off, less than a second together.
PulseArrives ==
    /\ Returns("task_pulse", "wait")
    /\ Goes("task_pulse", "work", 1)
    /\ UNCHANGED <<build, unfed, uart_send_queue, reason>>

PulseFeeds ==
    /\ TimesOut("task_pulse", "wait") \/ Returns("task_pulse", "work")
    /\ Feed("task_pulse")
    /\ Goes("task_pulse", "wait", PulseWait)
    /\ UNCHANGED <<build, uart_send_queue, reason>>

-----------------------------------------------------------------------------
(* task_modbus_slave and task_modbus_master *)

ModbusWait == IF build.master THEN build.timeout ELSE TWDT_RESET

ModbusStart ==
    /\ at["task_modbus"] = "start"
    /\ esp_task_wdt_add("task_modbus")
    /\ Goes("task_modbus", "wait", ModbusWait)
    /\ UNCHANGED <<build, uart_send_queue, reason>>

\* The event announces bytes that a flush has taken (SlaveTask, Gateway).
ModbusReads ==
    /\ Returns("task_modbus", "wait")
    /\ IF build.master THEN Goes("task_modbus", "read", build.timeout)
                       ELSE Goes("task_modbus", "read_for_ever", 0)
    /\ UNCHANGED <<build, unfed, uart_send_queue, reason>>

\* An event with its bytes, no event at all, or the end of the read.
ModbusFeeds ==
    /\ \/ Returns("task_modbus", "wait")
       \/ Returns("task_modbus", "read")
       \/ Returns("task_modbus", "read_for_ever")
    /\ Feed("task_modbus")
    /\ Goes("task_modbus", "wait", ModbusWait)
    /\ UNCHANGED <<build, uart_send_queue, reason>>

-----------------------------------------------------------------------------
(* modbus_master_poll *)

\* Faulty: the task leaves before it is on the list.
PollStart_unwatched ==
    /\ at["modbus_master_poll"] = "start"
    /\ \/ /\ build.slaves = 0
          /\ Goes("modbus_master_poll", "deleted", 0)
          /\ UNCHANGED <<subscribed, has_reset, twdt, uart_send_queue>>
       \/ /\ build.slaves > 0
          /\ esp_task_wdt_add("modbus_master_poll")
          /\ uart_send_queue' = TRUE
          /\ Goes("modbus_master_poll", "wait", TIME_SCAN)
    /\ UNCHANGED <<build, reason>>

\* With no slaves the task deletes itself and leaves the queue uncreated.
PollStart ==
    /\ at["modbus_master_poll"] = "start"
    /\ esp_task_wdt_add("modbus_master_poll")
    /\ \/ /\ build.slaves = 0
          /\ Goes("modbus_master_poll", "deleted", 0)
          /\ UNCHANGED uart_send_queue
       \/ /\ build.slaves > 0
          /\ uart_send_queue' = TRUE
          /\ Goes("modbus_master_poll", "wait", TIME_SCAN)
    /\ UNCHANGED <<build, reason>>

\* No poll came: the cyclic poll is queued, waiting for a place.
PollIdle ==
    /\ TimesOut("modbus_master_poll", "wait")
    /\ Goes("modbus_master_poll", "work", TIME_SCAN)
    /\ UNCHANGED <<build, unfed, uart_send_queue, reason>>

\* Faulty: the idle branch goes on to the next wait without feeding.
PollFeeds_sent ==
    /\ \/ Returns("modbus_master_poll", "wait") /\ Feed("modbus_master_poll")
       \/ Returns("modbus_master_poll", "work") /\ UNCHANGED unfed
    /\ Goes("modbus_master_poll", "wait", TIME_SCAN)
    /\ UNCHANGED <<build, uart_send_queue, reason>>

\* A poll was sent, or the cyclic one queued.
PollFeeds ==
    /\ Returns("modbus_master_poll", "wait") \/ Returns("modbus_master_poll", "work")
    /\ Feed("modbus_master_poll")
    /\ Goes("modbus_master_poll", "wait", TIME_SCAN)
    /\ UNCHANGED <<build, uart_send_queue, reason>>

-----------------------------------------------------------------------------
(* modbus_slave_functions: a coil of another node is put into the queue of
   polls; FreeRTOS asserts on a queue that does not exist.  The coil of address 0
   restarts the node. *)

ServesCoils(t) ==
    \/ t = "task_lora" /\ at[t] = "serve"
    \/ t = "task_modbus" /\ at[t] = "wait" /\ ~build.master

CoilWithoutQueue ==
    /\ \E t \in Tasks : ServesCoils(t)
    /\ ~uart_send_queue
    /\ Reset("null_queue")

CoilZero ==
    /\ \E t \in Tasks : ServesCoils(t)
    /\ Reset("coil_zero")

-----------------------------------------------------------------------------
Ready(t) == at[t] = "start" \/ (at[t] \in Timed /\ left[t] = 0)

\* Time passes when every task waits; a bite and a timeout that fall on the
\* same second come in either order.
Tick ==
    /\ \A t \in Tasks : ~Ready(t)
    /\ twdt > 0
    /\ twdt' = IF subscribed = {} THEN twdt ELSE twdt - 1
    /\ left' = [t \in Tasks |-> IF left[t] > 0 THEN left[t] - 1 ELSE 0]
    /\ UNCHANGED <<build, at, subscribed, has_reset, uart_send_queue, reason>>

MainStep  == AppMain \/ ModemAnswers \/ ModemSilent \/ StartLora
LoraStep  == LoraServes
PulseStep == PulseStart \/ PulseArrives \/ PulseFeeds
ModbusStep == ModbusStart \/ ModbusReads \/ ModbusFeeds
PollStep  == PollStart \/ PollIdle \/ PollFeeds

Next ==
    \/ MainStep \/ LoraStep \/ PulseStep \/ ModbusStep \/ PollStep
    \/ CoilWithoutQueue \/ CoilZero \/ Bite \/ Tick

Spec == Init /\ [][Next]_vars

\* Time passes, the scheduler runs a task whose call has timed out, and the
\* watchdog's interrupt comes.  Events need not.
FairSpec ==
    /\ Spec
    /\ WF_vars(Tick) /\ WF_vars(Bite)
    /\ WF_vars(Ready("app_main") /\ MainStep)
    /\ WF_vars(Ready("task_lora") /\ LoraStep)
    /\ WF_vars(Ready("task_pulse") /\ PulseStep)
    /\ WF_vars(Ready("task_modbus") /\ ModbusStep)
    /\ WF_vars(Ready("modbus_master_poll") /\ PollStep)

-----------------------------------------------------------------------------
(* Properties *)

\* A task that no longer feeds the watchdog.
Stuck(t) == at[t] \in {"deleted", "read_for_ever"}

\* The master's two calls can together take as long as the watchdog waits.
SlowMaster == build.master /\ 2 * build.timeout >= TWDT_TIMEOUT_S

\* The watchdog never bites because of a task that runs: when its time is up,
\* the tasks that have not fed it are deleted, in a read without a timeout, or
\* the master task of a build whose MODBUS_TIMEOUT ticks are too long.
BlamesOnlyStuck ==
    twdt = 0 => \A t \in subscribed \ has_reset :
                    Stuck(t) \/ (t = "task_modbus" /\ SlowMaster)

\* A gateway with slaves has its queue before task_lora takes a command: only a
\* gateway without slaves, or a slave told to set another node's coil, sends to
\* a queue that does not exist.
QueueBeforeCommands ==
    reason = "null_queue" => ~build.master \/ build.slaves = 0

\* What the watchdog is for: a task that has stopped for good is noticed and
\* the node starts again, unless bytes on the line release the task first.
StuckIsReset ==
    \A t \in Watched : Stuck(t) ~> (~Stuck(t) \/ at["app_main"] = "start")

\* A gateway with slaves, modem and flash in order, and a short MODBUS_TIMEOUT.
Sound ==
    build.master /\ build.lora /\ build.slaves > 0 /\ build.modem /\ build.flash
    /\ ~SlowMaster

\* Nothing in its own timing or order of start ever resets a sound gateway: only a
\* command for the coil of address 0 does.
SoundIsOnlyAsked == Sound => reason \in {"power_on", "coil_zero"}

\* A sound gateway comes up, at first and after every reset, and task_lora serves.
GatewayComesUp == Sound => []<>(at["task_lora"] = "serve")
=============================================================================
