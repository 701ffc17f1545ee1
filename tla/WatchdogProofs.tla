---------------------------- MODULE WatchdogProofs ----------------------------
(***************************************************************************)
(* Theorems about Watchdog, for every timeout that meets its assumption:   *)
(*   TypeCorrect        the state has its types;                           *)
(*   BlamesOnlyTheStuck the watchdog never bites because of a task that    *)
(*                      runs;                                              *)
(*   QueueComesFirst    a gateway with slaves has its queue of polls       *)
(*                      before task_lora takes a command;                  *)
(*   SoundRunsOn        a sound gateway is reset by nothing but a command    *)
(*                      for the coil of address 0.                         *)
(***************************************************************************)
EXTENDS Watchdog, TLAPS

-----------------------------------------------------------------------------
(* The inductive invariant *)

OnList  == {"wait", "work", "read", "deleted", "read_for_ever"}

\* A task is on the list exactly when it has come past esp_task_wdt_add.
Placed ==
    /\ \A t \in Watched : t \in subscribed <=> at[t] \in OnList
    /\ at["app_main"] = "start" => \A t \in Tasks \ {"app_main"} : at[t] = "absent"

\* The time that the second blocking call of a loop can add.
Second(t) ==
    IF t = "task_pulse" THEN 1
    ELSE IF t = "task_modbus" THEN (IF build.master THEN build.timeout ELSE 0)
    ELSE TIME_SCAN

\* How long a task may still take to feed the watchdog.
Needs(t) == IF at[t] = "wait" THEN left[t] + Second(t) ELSE left[t]

Slow(t) == t = "task_modbus" /\ SlowMaster

\* A task that runs feeds before the watchdog bites: before its time is up if
\* the task still has to feed, and within one full wait in any case.
InTime(t) ==
    ~Stuck(t) /\ ~Slow(t) => /\ Needs(t) < TWDT_TIMEOUT_S
                             /\ t \notin has_reset => Needs(t) < twdt

Punctual == \A t \in subscribed : InTime(t)

Poll == "modbus_master_poll"

\* task_lora serves only after a wait that the poll task's first step precedes,
\* so that a reset for want of the queue had one of the two other causes.
QueueInv ==
    /\ build.slaves > 0 /\ at[Poll] \in OnList => uart_send_queue
    /\ at[Poll] \in {"absent", "start"} \cup OnList
    /\ at["app_main"] # "start" /\ build.master => at[Poll] # "absent"
    /\ at["task_lora"] = "serve" /\ build.master => at[Poll] # "start"
    /\ at["task_lora"] = "delay" /\ build.master
         => left["task_lora"] > 0 \/ at[Poll] # "start"
    /\ QueueBeforeCommands

\* Somebody on the list has still to feed, or the list is empty and time does not
\* count, so that a bite has somebody to blame.
ListInv ==
    /\ subscribed # {} => ~(subscribed \subseteq has_reset)
    /\ subscribed = {} => twdt = TWDT_TIMEOUT_S

\* No task of a sound gateway stops.
SoundInv ==
    /\ Sound => \A t \in Watched : ~Stuck(t)
    /\ SoundIsOnlyAsked

Inv == TypeOK /\ Placed /\ Punctual

-----------------------------------------------------------------------------
(* Types *)

LEMMA NeedsType ==
    ASSUME TypeOK, NEW t \in Tasks
    PROVE  Second(t) \in Nat /\ Needs(t) \in Nat
<1>1. build.timeout \in Nat
  <2>1. build.timeout \in Timeouts
    BY DEF TypeOK, Builds
  <2> QED
    BY <2>1, WatchdogAssumption
<1>2. Second(t) \in Nat
  BY <1>1, WatchdogAssumption DEF Second
<1>3. left[t] \in Nat
  BY DEF TypeOK
<1> QED
  BY <1>2, <1>3 DEF Needs

LEMMA OffType ==
    /\ Off \in [Tasks -> {"start"} \cup Timed \cup Untimed]
    /\ [t \in Tasks |-> 0] \in [Tasks -> Nat]
    /\ TWDT_TIMEOUT_S \in 0 .. TWDT_TIMEOUT_S
<1>1. \A t \in Tasks : Off[t] \in {"start"} \cup Timed \cup Untimed
  BY DEF Off, Untimed
<1> QED
  BY <1>1, WatchdogAssumption DEF Off

-----------------------------------------------------------------------------
(* Steps of one kind *)

\* A watched task goes from one call to the next without feeding, and needs no
\* longer than before.
LEMMA OneMoves ==
    ASSUME Inv, NEW t \in Watched, t \in subscribed,
           NEW s \in {"work", "read", "read_for_ever"}, NEW n \in Nat,
           Goes(t, s, n), UNCHANGED <<build, unfed, uart_send_queue, reason>>,
           ~Stuck(t), s # "read_for_ever" => n <= Needs(t)
    PROVE  Inv'
<1> USE DEF Inv, Goes, unfed
<1>1. TypeOK'
  BY DEF TypeOK, Watched, Tasks, Timed, Untimed
<1>2. Placed'
  BY DEF Placed, TypeOK, Watched, Tasks, OnList
<1>3. ASSUME NEW u \in subscribed'
      PROVE  InTime(u)'
  <2>1. u \in Tasks /\ t \in Tasks
    BY DEF TypeOK, Watched, Tasks
  <2>2. CASE u # t
    BY <1>3, <2>1, <2>2 DEF Punctual, InTime, Stuck, Slow, SlowMaster, Needs, Second, TypeOK
  <2>3. CASE u = t
    <3>1. at'[t] = s /\ left'[t] = n
      BY <2>1 DEF TypeOK
    <3>2. Needs(t) \in Nat
      BY <2>1, NeedsType
    <3>3. InTime(t)
      BY DEF Punctual
    <3>4. s # "read_for_ever" => Needs(t)' <= Needs(t)
      BY <3>1 DEF Needs
    <3>5. Needs(t)' \in Nat
      BY <3>1 DEF Needs
    <3>6. twdt' = twdt /\ twdt \in Nat /\ TWDT_TIMEOUT_S \in Nat
      BY WatchdogAssumption DEF TypeOK
    <3> QED
      BY <2>3, <3>1, <3>2, <3>3, <3>4, <3>5, <3>6 DEF InTime, Stuck, Slow, SlowMaster
  <2> QED
    BY <2>2, <2>3
<1> QED
  BY <1>1, <1>2, <1>3 DEF Punctual

\* What a task that waits from now on can need is less than the watchdog's time.
LEMMA WaitIsShort ==
    ASSUME TypeOK, NEW t \in Watched, ~Slow(t),
           NEW n \in Nat,
           n = IF t = "task_pulse" THEN PulseWait
               ELSE IF t = "task_modbus" THEN ModbusWait ELSE TIME_SCAN
    PROVE  n + Second(t) < TWDT_TIMEOUT_S
<1>1. CASE t = "task_pulse"
  BY <1>1, WatchdogAssumption DEF PulseWait, Second
<1>2. CASE t = "task_modbus"
  <2>1. CASE build.master
    BY <1>2, <2>1, WatchdogAssumption DEF ModbusWait, Second, Slow, SlowMaster, TypeOK, Builds
  <2>2. CASE ~build.master
    BY <1>2, <2>2, WatchdogAssumption DEF ModbusWait, Second
  <2> QED
    BY <2>1, <2>2
<1>3. CASE t = "modbus_master_poll"
  BY <1>3, WatchdogAssumption DEF Second
<1> QED
  BY <1>1, <1>2, <1>3 DEF Watched

\* A watched task feeds, and goes back to its wait.
LEMMA OneFeeds ==
    ASSUME Inv, NEW t \in Watched, t \in subscribed, NEW n \in Nat,
           Goes(t, "wait", n), Feed(t), UNCHANGED <<build, uart_send_queue, reason>>,
           ~Slow(t) => n + Second(t) < TWDT_TIMEOUT_S
    PROVE  Inv'
<1> USE DEF Inv, Goes
<1> DEFINE fed == has_reset \cup {t}
<1>0. t \in Tasks /\ subscribed' = subscribed /\ at'[t] = "wait" /\ left'[t] = n
      /\ \A u \in Tasks : u # t => at'[u] = at[u] /\ left'[u] = left[u]
  BY DEF TypeOK, Watched, Tasks, Feed
<1>1. TypeOK'
  <2>1. has_reset' \subseteq subscribed' /\ twdt' \in 0 .. TWDT_TIMEOUT_S
    BY WatchdogAssumption DEF TypeOK, Feed
  <2> QED
    BY <1>0, <2>1 DEF TypeOK, Timed
<1>2. Placed'
  BY <1>0 DEF Placed, TypeOK, Watched, Tasks, OnList
<1>3. ASSUME NEW u \in subscribed'
      PROVE  InTime(u)'
  <2>1. u \in Tasks /\ u \in subscribed
    BY <1>0 DEF TypeOK, Watched, Tasks
  <2>2. ~Stuck(u)' /\ ~Slow(u)' => Needs(u)' < TWDT_TIMEOUT_S
    <3>1. CASE u = t
      BY <3>1, <1>0 DEF Needs, Second, Slow, SlowMaster
    <3>2. CASE u # t
      BY <3>2, <1>0, <2>1 DEF Punctual, InTime, Stuck, Slow, SlowMaster, Needs, Second
    <3> QED
      BY <3>1, <3>2
  <2>3. CASE Restarts(fed, subscribed)
    <3>1. twdt' = TWDT_TIMEOUT_S
      BY <2>3 DEF Feed
    <3> QED
      BY <2>2, <3>1 DEF InTime
  <2>4. CASE ~Restarts(fed, subscribed)
    <3>1. twdt' = twdt /\ has_reset' = fed
      BY <2>4 DEF Feed
    <3>2. CASE u = t
      BY <2>2, <3>1, <3>2 DEF InTime
    <3>3. CASE u # t
      BY <2>1, <2>2, <3>1, <3>3, <1>0
         DEF Punctual, InTime, Stuck, Slow, SlowMaster, Needs, Second
    <3> QED
      BY <3>2, <3>3
  <2> QED
    BY <2>3, <2>4
<1> QED
  BY <1>1, <1>2, <1>3 DEF Punctual

\* A watched task starts: it is put on the list as one that has fed.
LEMMA OneStarts ==
    ASSUME Inv, NEW t \in Watched, at[t] = "start",
           NEW s \in {"wait", "deleted"}, NEW n \in Nat,
           Goes(t, s, n), esp_task_wdt_add(t), UNCHANGED <<build, reason>>,
           uart_send_queue' \in BOOLEAN,
           ~Slow(t) /\ s = "wait" => n + Second(t) < TWDT_TIMEOUT_S
    PROVE  Inv'
<1> USE DEF Inv, Goes
<1> DEFINE fed == has_reset \cup {t}
           watched == subscribed \cup {t}
<1>0. t \in Tasks /\ subscribed' = watched /\ at'[t] = s /\ left'[t] = n
      /\ t # "app_main"
      /\ \A u \in Tasks : u # t => at'[u] = at[u] /\ left'[u] = left[u]
  BY DEF TypeOK, Watched, Tasks, esp_task_wdt_add
<1>1. TypeOK'
  <2>1. has_reset' \subseteq subscribed' /\ subscribed' \subseteq Watched
        /\ twdt' \in 0 .. TWDT_TIMEOUT_S
    BY WatchdogAssumption DEF TypeOK, esp_task_wdt_add
  <2> QED
    BY <1>0, <2>1 DEF TypeOK, Timed, Untimed
<1>2. Placed'
  <2>1. at["app_main"] # "start"
    BY <1>0 DEF Placed
  <2> QED
    BY <1>0, <2>1 DEF Placed, TypeOK, Watched, Tasks, OnList
<1>3. ASSUME NEW u \in subscribed'
      PROVE  InTime(u)'
  <2>1. u \in Tasks /\ u \in watched
    BY <1>0 DEF TypeOK, Watched, Tasks
  <2>2. ~Stuck(u)' /\ ~Slow(u)' => Needs(u)' < TWDT_TIMEOUT_S
    <3>1. CASE u = t
      BY <3>1, <1>0 DEF Needs, Second, Slow, SlowMaster, Stuck
    <3>2. CASE u # t
      BY <3>2, <1>0, <2>1 DEF Punctual, InTime, Stuck, Slow, SlowMaster, Needs, Second
    <3> QED
      BY <3>1, <3>2
  <2>3. CASE Restarts(fed, watched)
    <3>1. twdt' = TWDT_TIMEOUT_S
      BY <2>3 DEF esp_task_wdt_add
    <3> QED
      BY <2>2, <3>1 DEF InTime
  <2>4. CASE ~Restarts(fed, watched)
    <3>1. twdt' = twdt /\ has_reset' = fed
      BY <2>4 DEF esp_task_wdt_add
    <3>2. CASE u = t
      BY <2>2, <3>1, <3>2 DEF InTime
    <3>3. CASE u # t
      BY <2>1, <2>2, <3>1, <3>3, <1>0
         DEF Punctual, InTime, Stuck, Slow, SlowMaster, Needs, Second
    <3> QED
      BY <3>2, <3>3
  <2> QED
    BY <2>3, <2>4
<1> QED
  BY <1>1, <1>2, <1>3 DEF Punctual

\* A reset starts from the empty list.
LEMMA ResetKeeps ==
    ASSUME TypeOK, NEW why \in {"watchdog", "modem", "null_queue", "coil_zero"}, Reset(why)
    PROVE  Inv'
<1>1. TypeOK'
  BY OffType DEF TypeOK, Reset
<1>2. Placed'
  BY DEF Placed, Reset, Off, Tasks, Watched, OnList
<1>3. Punctual'
  BY DEF Punctual, Reset
<1> QED
  BY <1>1, <1>2, <1>3 DEF Inv

\* Steps of app_main and task_lora, which are not on the list.
LEMMA OthersMove ==
    ASSUME Inv, UNCHANGED <<build, unfed>>, TypeOK',
           at["app_main"] # "start", at'["app_main"] # "start",
           \A u \in Watched : at'[u] = at[u] /\ left'[u] = left[u]
    PROVE  Inv'
<1>1. Placed'
  BY DEF Inv, Placed, unfed
<1>2. Punctual'
  BY DEF Inv, TypeOK, Punctual, InTime, Stuck, Slow, SlowMaster, Needs, Second, unfed
<1> QED
  BY <1>1, <1>2 DEF Inv

-----------------------------------------------------------------------------
(* The steps of the node *)

LEMMA InitInv == Init => Inv
<1> SUFFICES ASSUME Init PROVE Inv
  OBVIOUS
<1>1. TypeOK
  BY OffType DEF Init, TypeOK
<1>2. Placed
  BY DEF Init, Placed, Off, Tasks, Watched, OnList
<1>3. Punctual
  BY DEF Init, Punctual
<1> QED
  BY <1>1, <1>2, <1>3 DEF Inv

LEMMA MainKeeps == Inv /\ MainStep => Inv'
<1> SUFFICES ASSUME Inv, MainStep PROVE Inv'
  OBVIOUS
<1>1. CASE AppMain
  <2>1. subscribed = {}
    BY <1>1 DEF AppMain, Inv, Placed, TypeOK, Watched, Tasks, OnList
  <2>2. TypeOK'
    BY <1>1, WatchdogAssumption DEF AppMain, Inv, TypeOK, Tasks, Watched, Timed, Untimed
  <2>3. Placed'
    BY <1>1, <2>1 DEF AppMain, Inv, Placed, TypeOK, Tasks, Watched, OnList
  <2> QED
    BY <1>1, <2>1, <2>2, <2>3 DEF AppMain, Inv, Punctual
<1>2. CASE ModemAnswers
  <2>1. TypeOK'
    BY <1>2 DEF ModemAnswers, Returns, Goes, unfed, Inv, TypeOK, Tasks, Timed, Untimed
  <2> QED
    BY <1>2, <2>1, OthersMove
       DEF ModemAnswers, Returns, Goes, unfed, Inv, TypeOK, Tasks, Watched
<1>3. CASE ModemSilent
  BY <1>3, ResetKeeps DEF ModemSilent, Inv
<1>4. CASE StartLora
  <2>1. LoraDelay \in Nat
    <3>1. build.slaves \in Nat /\ TIME_SCAN \in Nat
      BY WatchdogAssumption DEF Inv, TypeOK, Builds
    <3>2. \A a, b \in Nat : (a + 2) * b \in Nat
      OBVIOUS
    <3> QED
      BY <3>1, <3>2 DEF LoraDelay
  <2>2. TypeOK'
    BY <1>4, <2>1 DEF StartLora, Returns, unfed, Inv, TypeOK, Tasks, Timed, Untimed
  <2> QED
    BY <1>4, <2>2, OthersMove DEF StartLora, Returns, unfed, Inv, TypeOK, Tasks, Watched
<1> QED
  BY <1>1, <1>2, <1>3, <1>4 DEF MainStep

LEMMA LoraKeeps == Inv /\ LoraStep => Inv'
<1> SUFFICES ASSUME Inv, LoraServes PROVE Inv'
  BY DEF LoraStep
<1>1. at["app_main"] # "start"
  BY DEF LoraServes, TimesOut, Inv, Placed, Tasks
<1>2. TypeOK'
  BY DEF LoraServes, Goes, unfed, Inv, TypeOK, Tasks, Timed, Untimed
<1> QED
  BY <1>1, <1>2, OthersMove DEF LoraServes, Goes, unfed, Inv, TypeOK, Tasks, Watched

LEMMA PulseKeeps == Inv /\ PulseStep => Inv'
<1> SUFFICES ASSUME Inv, PulseStep PROVE Inv'
  OBVIOUS
<1> DEFINE t == "task_pulse"
<1>0. t \in Watched /\ t \in Tasks /\ ~Slow(t) /\ PulseWait \in Nat /\ 0 \in Nat
  BY WatchdogAssumption DEF Watched, Tasks, Slow, PulseWait
<1>1. PulseWait + Second(t) < TWDT_TIMEOUT_S
  BY <1>0, WaitIsShort DEF Inv
<1>2. CASE PulseStart
  BY <1>0, <1>1, <1>2, OneStarts DEF PulseStart, Inv, TypeOK
<1>3. CASE PulseArrives
  <2>1. at[t] = "wait" /\ t \in subscribed /\ ~Stuck(t)
    BY <1>0, <1>3 DEF PulseArrives, Returns, Inv, Placed, OnList, Stuck
  <2>2. 1 <= Needs(t)
    BY <1>0, <2>1 DEF Needs, Second, Inv, TypeOK
  <2> QED
    BY <1>0, <1>3, <2>1, <2>2, OneMoves DEF PulseArrives
<1>4. CASE PulseFeeds
  <2>1. t \in subscribed
    BY <1>0, <1>4 DEF PulseFeeds, Returns, TimesOut, Inv, Placed, OnList
  <2> QED
    BY <1>0, <1>1, <1>4, <2>1, OneFeeds DEF PulseFeeds
<1> QED
  BY <1>2, <1>3, <1>4 DEF PulseStep

LEMMA ModbusKeeps == Inv /\ ModbusStep => Inv'
<1> SUFFICES ASSUME Inv, ModbusStep PROVE Inv'
  OBVIOUS
<1> DEFINE t == "task_modbus"
<1>0. /\ t \in Watched /\ t \in Tasks /\ 0 \in Nat
      /\ build.timeout \in Nat /\ ModbusWait \in Nat
  BY WatchdogAssumption DEF Watched, Tasks, ModbusWait, Inv, TypeOK, Builds
<1>1. ~Slow(t) => ModbusWait + Second(t) < TWDT_TIMEOUT_S
  BY <1>0, WaitIsShort DEF Inv
<1>2. CASE ModbusStart
  BY <1>0, <1>1, <1>2, OneStarts DEF ModbusStart, Inv, TypeOK
<1>3. CASE ModbusReads
  <2>1. at[t] = "wait" /\ t \in subscribed /\ ~Stuck(t)
    BY <1>0, <1>3 DEF ModbusReads, Returns, Inv, Placed, OnList, Stuck
  <2>2. CASE build.master
    <3>1. build.timeout <= Needs(t)
      BY <1>0, <2>1, <2>2 DEF Needs, Second, Inv, TypeOK
    <3> QED
      BY <1>0, <1>3, <2>1, <2>2, <3>1, OneMoves DEF ModbusReads
  <2>3. CASE ~build.master
    BY <1>0, <1>3, <2>1, <2>3, OneMoves DEF ModbusReads
  <2> QED
    BY <2>2, <2>3
<1>4. CASE ModbusFeeds
  <2>1. t \in subscribed
    BY <1>0, <1>4 DEF ModbusFeeds, Returns, Inv, Placed, OnList
  <2> QED
    BY <1>0, <1>1, <1>4, <2>1, OneFeeds DEF ModbusFeeds
<1> QED
  BY <1>2, <1>3, <1>4 DEF ModbusStep

LEMMA PollKeeps == Inv /\ PollStep => Inv'
<1> SUFFICES ASSUME Inv, PollStep PROVE Inv'
  OBVIOUS
<1> DEFINE t == "modbus_master_poll"
<1>0. t \in Watched /\ t \in Tasks /\ ~Slow(t) /\ TIME_SCAN \in Nat /\ 0 \in Nat
  BY WatchdogAssumption DEF Watched, Tasks, Slow
<1>1. TIME_SCAN + Second(t) < TWDT_TIMEOUT_S
  BY <1>0, WaitIsShort DEF Inv
<1>2. CASE PollStart
  BY <1>0, <1>1, <1>2, OneStarts DEF PollStart, Inv, TypeOK
<1>3. CASE PollIdle
  <2>1. at[t] = "wait" /\ t \in subscribed /\ ~Stuck(t)
    BY <1>0, <1>3 DEF PollIdle, TimesOut, Inv, Placed, OnList, Stuck
  <2>2. TIME_SCAN <= Needs(t)
    BY <1>0, <2>1 DEF Needs, Second, Inv, TypeOK
  <2> QED
    BY <1>0, <1>3, <2>1, <2>2, OneMoves DEF PollIdle
<1>4. CASE PollFeeds
  <2>1. t \in subscribed
    BY <1>0, <1>4 DEF PollFeeds, Returns, Inv, Placed, OnList
  <2> QED
    BY <1>0, <1>1, <1>4, <2>1, OneFeeds DEF PollFeeds
<1> QED
  BY <1>2, <1>3, <1>4 DEF PollStep

\* A second passes for the watchdog and for every task that still has to feed.
LEMMA TickKeeps == Inv /\ Tick => Inv'
<1> SUFFICES ASSUME Inv, Tick PROVE Inv'
  OBVIOUS
<1>1. TypeOK'
  BY WatchdogAssumption DEF Inv, Tick, TypeOK
<1>2. Placed'
  BY DEF Inv, Tick, Placed
<1>3. ASSUME NEW t \in subscribed', ~Stuck(t), ~Slow(t)
      PROVE  InTime(t)'
  <2>1. t \in Tasks /\ t \in Watched /\ t \in subscribed
    BY <1>3 DEF Tick, Inv, TypeOK, Watched, Tasks
  <2>2. at[t] \in Timed
    BY <1>3, <2>1 DEF Inv, Placed, OnList, Stuck, Timed
  <2>3. left[t] > 0 /\ left[t] \in Nat
    BY <2>1, <2>2 DEF Tick, Ready, Inv, TypeOK
  <2>4. left'[t] = left[t] - 1 /\ at'[t] = at[t]
    BY <2>1, <2>3 DEF Tick
  <2>5. twdt' = twdt - 1 /\ twdt \in Nat /\ TWDT_TIMEOUT_S \in Nat
    BY <2>1, WatchdogAssumption DEF Tick, Inv, TypeOK
  <2>6. Second(t)' = Second(t) /\ Second(t) \in Nat
    BY WatchdogAssumption DEF Tick, Second, Inv, TypeOK, Builds
  <2>7. Needs(t)' = Needs(t) - 1 /\ Needs(t) \in Nat
    BY <2>3, <2>4, <2>6 DEF Needs
  <2>8. InTime(t) /\ has_reset' = has_reset
    BY <2>1 DEF Tick, Inv, Punctual
  <2> QED
    BY <1>3, <2>5, <2>7, <2>8 DEF InTime
<1>4. ASSUME NEW t \in subscribed', Stuck(t) \/ Slow(t)
      PROVE  InTime(t)'
  BY <1>4 DEF Tick, InTime, Stuck, Slow, SlowMaster
<1> QED
  BY <1>1, <1>2, <1>3, <1>4 DEF Inv, Punctual

LEMMA StepKeepsInv == Inv /\ [Next]_vars => Inv'
<1> SUFFICES ASSUME Inv, [Next]_vars PROVE Inv'
  OBVIOUS
<1>1. CASE MainStep
  BY <1>1, MainKeeps
<1>2. CASE LoraStep
  BY <1>2, LoraKeeps
<1>3. CASE PulseStep
  BY <1>3, PulseKeeps
<1>4. CASE ModbusStep
  BY <1>4, ModbusKeeps
<1>5. CASE PollStep
  BY <1>5, PollKeeps
<1>6. CASE CoilWithoutQueue
  BY <1>6, ResetKeeps DEF CoilWithoutQueue, Inv
<1>7. CASE Bite
  BY <1>7, ResetKeeps DEF Bite, Inv
<1>10. CASE CoilZero
  BY <1>10, ResetKeeps DEF CoilZero, Inv
<1>8. CASE Tick
  BY <1>8, TickKeeps
<1>9. CASE UNCHANGED vars
  BY <1>9 DEF vars, Inv, TypeOK, Placed, Punctual, InTime, Stuck, Slow, SlowMaster,
              Needs, Second
<1> QED
  BY <1>1, <1>2, <1>3, <1>4, <1>5, <1>6, <1>7, <1>8, <1>9, <1>10 DEF Next

-----------------------------------------------------------------------------
(* The theorems *)

LEMMA InvHolds == Spec => []Inv
<1> QED
  BY InitInv, StepKeepsInv, PTL DEF Spec

\* The state has its types, whatever the timeouts: no call is left with a
\* negative time, and only tasks on the list feed the watchdog.
THEOREM TypeCorrect == Spec => []TypeOK
<1>1. Inv => TypeOK
  BY DEF Inv
<1> QED
  BY <1>1, InvHolds, PTL

LEMMA Blames == Inv => BlamesOnlyStuck
<1> SUFFICES ASSUME Inv, twdt = 0,
                    NEW t \in subscribed \ has_reset, ~Stuck(t), ~Slow(t)
             PROVE  FALSE
  BY DEF BlamesOnlyStuck, Slow
<1>1. t \in Tasks
  BY DEF Inv, TypeOK, Watched, Tasks
<1>2. Needs(t) \in Nat
  BY <1>1, NeedsType DEF Inv
<1>3. Needs(t) < twdt
  BY DEF Inv, Punctual, InTime
<1> QED
  BY <1>2, <1>3

\* The watchdog of main.c:457 bites only when a task has stopped, or when the
\* two waits of task_modbus_master are too long for it.
THEOREM BlamesOnlyTheStuck == Spec => []BlamesOnlyStuck
<1> QED
  BY Blames, InvHolds, PTL

-----------------------------------------------------------------------------
(* The queue of polls *)

LEMMA QueueInit == Init => QueueInv
  BY DEF Init, QueueInv, QueueBeforeCommands, Off, Tasks, Poll, OnList

\* The wait of task_lora is at least a second on a gateway.
LEMMA DelayIsPositive ==
    ASSUME TypeOK, build.master
    PROVE  LoraDelay \in Nat \ {0}
<1>1. build.slaves \in Nat /\ TIME_SCAN \in Nat \ {0}
  BY WatchdogAssumption DEF TypeOK, Builds
<1>2. \A a \in Nat, b \in Nat \ {0} : (a + 2) * b \in Nat \ {0}
  OBVIOUS
<1> QED
  BY <1>1, <1>2 DEF LoraDelay

\* A step of a task other than task_lora, app_main and the poll task.
LEMMA QueueIdle ==
    ASSUME QueueInv, UNCHANGED <<build, uart_send_queue, reason>>,
           at'[Poll] = at[Poll], at'["task_lora"] = at["task_lora"],
           at'["app_main"] = at["app_main"],
           left'["task_lora"] = left["task_lora"]
    PROVE  QueueInv'
  BY DEF QueueInv, QueueBeforeCommands

LEMMA QueueMain == Inv /\ QueueInv /\ MainStep => QueueInv'
<1> SUFFICES ASSUME Inv, QueueInv, MainStep PROVE QueueInv'
  OBVIOUS
<1> USE DEF Inv, TypeOK, Tasks, Poll
<1>1. CASE AppMain
  <2>1. at["task_lora"] = "absent" /\ at[Poll] = "absent"
    BY <1>1 DEF AppMain, Placed
  <2> QED
    BY <1>1, <2>1 DEF AppMain, QueueInv, QueueBeforeCommands, OnList
<1>2. CASE ModemAnswers
  BY <1>2 DEF ModemAnswers, Returns, Goes, unfed, QueueInv, QueueBeforeCommands
<1>3. CASE ModemSilent
  BY <1>3 DEF ModemSilent, Reset, Off, QueueInv, QueueBeforeCommands, OnList
<1>4. CASE StartLora
  <2>1. build.master => LoraDelay > 0
    BY DelayIsPositive
  <2> QED
    BY <1>4, <2>1 DEF StartLora, Returns, unfed, QueueInv, QueueBeforeCommands
<1> QED
  BY <1>1, <1>2, <1>3, <1>4 DEF MainStep

LEMMA QueuePoll == Inv /\ QueueInv /\ PollStep => QueueInv'
<1> SUFFICES ASSUME Inv, QueueInv, PollStep PROVE QueueInv'
  OBVIOUS
<1> USE DEF Inv, TypeOK, Tasks, Poll, Goes
<1>1. CASE PollStart
  BY <1>1 DEF PollStart, QueueInv, QueueBeforeCommands, OnList
<1>2. CASE PollIdle
  BY <1>2 DEF PollIdle, TimesOut, QueueInv, QueueBeforeCommands, OnList
<1>3. CASE PollFeeds
  BY <1>3 DEF PollFeeds, Returns, QueueInv, QueueBeforeCommands, OnList
<1> QED
  BY <1>1, <1>2, <1>3 DEF PollStep

LEMMA QueueOthers ==
    Inv /\ QueueInv /\ (LoraStep \/ PulseStep \/ ModbusStep \/ Tick) => QueueInv'
<1> SUFFICES ASSUME Inv, QueueInv, LoraStep \/ PulseStep \/ ModbusStep \/ Tick
             PROVE  QueueInv'
  OBVIOUS
<1>1. CASE LoraStep
  BY <1>1 DEF LoraStep, LoraServes, TimesOut, Goes, Inv, TypeOK, Tasks, Poll,
              QueueInv, QueueBeforeCommands
<1>2. CASE PulseStep
  BY <1>2, QueueIdle DEF PulseStep, PulseStart, PulseArrives, PulseFeeds, Goes,
                         Inv, TypeOK, Tasks, Poll
<1>3. CASE ModbusStep
  BY <1>3, QueueIdle DEF ModbusStep, ModbusStart, ModbusReads, ModbusFeeds, Goes,
                         Inv, TypeOK, Tasks, Poll
<1>4. CASE Tick
  <2>1. at[Poll] # "start"
    BY <1>4 DEF Tick, Ready, Tasks, Poll
  <2> QED
    BY <1>4, <2>1 DEF Tick, QueueInv, QueueBeforeCommands
<1> QED
  BY <1>1, <1>2, <1>3, <1>4

LEMMA QueueReset ==
    ASSUME Inv, QueueInv, CoilWithoutQueue \/ CoilZero \/ Bite
    PROVE  QueueInv'
<1>1. CASE CoilZero \/ Bite
  BY <1>1 DEF CoilZero, Bite, Reset, Off, Tasks, QueueInv, QueueBeforeCommands, Poll, OnList
<1>2. CASE CoilWithoutQueue
  <2>1. ~build.master \/ build.slaves = 0
    <3> SUFFICES ASSUME build.master, build.slaves # 0 PROVE FALSE
      OBVIOUS
    <3>1. build.slaves > 0
      BY DEF Inv, TypeOK, Builds
    <3>2. at["task_lora"] = "serve" /\ ~uart_send_queue
      BY <1>2 DEF CoilWithoutQueue, ServesCoils
    <3>3. at["app_main"] # "start"
      BY <3>2 DEF Inv, Placed, Tasks
    <3> QED
      BY <3>1, <3>2, <3>3 DEF QueueInv
  <2> QED
    BY <1>2, <2>1 DEF CoilWithoutQueue, Reset, Off, Tasks, QueueInv,
                      QueueBeforeCommands, Poll, OnList
<1> QED
  BY <1>1, <1>2

LEMMA QueueStep == Inv /\ QueueInv /\ [Next]_vars => QueueInv'
<1> SUFFICES ASSUME Inv, QueueInv, [Next]_vars PROVE QueueInv'
  OBVIOUS
<1>1. CASE UNCHANGED vars
  BY <1>1, QueueIdle DEF vars
<1> QED
  BY <1>1, QueueMain, QueuePoll, QueueOthers, QueueReset DEF Next

\* A gateway with slaves creates the queue of polls (main.c:222) before task_lora
\* takes a command (main.c:390): a reset for want of the queue is a slave's, or a
\* gateway's without slaves.
THEOREM QueueComesFirst == Spec => []QueueBeforeCommands
<1>1. QueueInv => QueueBeforeCommands
  BY DEF QueueInv
<1> QED
  BY <1>1, QueueInit, QueueStep, InvHolds, PTL DEF Spec

-----------------------------------------------------------------------------
(* A sound gateway *)

LEMMA ListInit == Init => ListInv
  BY DEF Init, ListInv

LEMMA ListFeeds ==
    ASSUME Inv, ListInv, NEW t \in subscribed, Feed(t)
    PROVE  ListInv'
  BY DEF ListInv, Feed, Restarts

LEMMA ListAdds ==
    ASSUME Inv, ListInv, NEW t \in Watched, esp_task_wdt_add(t)
    PROVE  ListInv'
  BY DEF ListInv, esp_task_wdt_add, Restarts

LEMMA ListStep == Inv /\ ListInv /\ [Next]_vars => ListInv'
<1> SUFFICES ASSUME Inv, ListInv, [Next]_vars PROVE ListInv'
  OBVIOUS
<1>1. CASE UNCHANGED unfed
  BY <1>1 DEF unfed, ListInv
<1>2. ASSUME NEW why, Reset(why)
      PROVE  ListInv'
  BY <1>2 DEF Reset, ListInv
<1>3. CASE UNCHANGED vars \/ MainStep
  <2>1. AppMain => subscribed = {}
    BY DEF AppMain, Inv, Placed, TypeOK, Watched, Tasks, OnList
  <2>2. CASE AppMain
    BY <2>1, <2>2 DEF AppMain, ListInv
  <2>3. CASE ModemAnswers \/ StartLora \/ UNCHANGED vars
    BY <1>1, <2>3 DEF ModemAnswers, StartLora, vars, unfed
  <2> QED
    BY <1>2, <1>3, <2>2, <2>3 DEF MainStep, ModemSilent
<1>4. CASE LoraStep \/ PulseArrives \/ ModbusReads \/ PollIdle
  BY <1>1, <1>4 DEF LoraStep, LoraServes, PulseArrives, ModbusReads, PollIdle
<1>5. CASE PulseStart \/ ModbusStart \/ PollStart
  BY <1>5, ListAdds DEF PulseStart, ModbusStart, PollStart, Watched
<1>6. CASE PulseFeeds
  <2>1. "task_pulse" \in subscribed
    BY <1>6 DEF PulseFeeds, TimesOut, Returns, Inv, Placed, Watched, OnList
  <2> QED
    BY <1>6, <2>1, ListFeeds DEF PulseFeeds
<1>7. CASE ModbusFeeds
  <2>1. "task_modbus" \in subscribed
    BY <1>7 DEF ModbusFeeds, Returns, Inv, Placed, Watched, OnList
  <2> QED
    BY <1>7, <2>1, ListFeeds DEF ModbusFeeds
<1>8. CASE PollFeeds
  <2>1. "modbus_master_poll" \in subscribed
    BY <1>8 DEF PollFeeds, Returns, Inv, Placed, Watched, OnList
  <2> QED
    BY <1>8, <2>1, ListFeeds DEF PollFeeds
<1>9. CASE CoilWithoutQueue \/ CoilZero \/ Bite
  BY <1>2, <1>9 DEF CoilWithoutQueue, CoilZero, Bite
<1>10. CASE Tick
  BY <1>10 DEF Tick, ListInv
<1> QED
  BY <1>3, <1>4, <1>5, <1>6, <1>7, <1>8, <1>9, <1>10 DEF Next, PulseStep, ModbusStep, PollStep

LEMMA SoundInit == Init => SoundInv
  BY DEF Init, SoundInv, SoundIsOnlyAsked, Stuck, Off, Watched, Tasks

\* What a reset does to a sound gateway, whose cause it may be.
LEMMA SoundReset ==
    ASSUME SoundInv, NEW why, Reset(why), Sound => why = "coil_zero"
    PROVE  SoundInv'
<1>1. Sound' <=> Sound
  BY DEF Reset, Sound, SlowMaster
<1>2. \A t \in Watched : ~Stuck(t)'
  BY DEF Reset, Off, Stuck, Watched, Tasks
<1> QED
  BY <1>1, <1>2 DEF Reset, SoundInv, SoundIsOnlyAsked

\* The watchdog has nobody to blame on a sound gateway.
LEMMA SoundBite ==
    ASSUME Inv, ListInv, SoundInv, twdt = 0
    PROVE  ~Sound
<1>1. PICK t \in subscribed : t \notin has_reset
  BY WatchdogAssumption DEF ListInv
<1>2. Stuck(t) \/ SlowMaster
  BY <1>1, Blames DEF BlamesOnlyStuck
<1>3. t \in Watched
  BY DEF Inv, TypeOK
<1> QED
  BY <1>2, <1>3 DEF SoundInv, Sound

LEMMA SoundStep == Inv /\ ListInv /\ QueueInv /\ SoundInv /\ [Next]_vars => SoundInv'
<1> SUFFICES ASSUME Inv, ListInv, QueueInv, SoundInv, [Next]_vars PROVE SoundInv'
  OBVIOUS
<1> USE DEF Inv, TypeOK, Tasks, Watched
<1>k. ASSUME UNCHANGED <<build, reason>>,
             Sound => \A t \in Watched : at'[t] \notin {"deleted", "read_for_ever"}
      PROVE  SoundInv'
  BY <1>k DEF SoundInv, SoundIsOnlyAsked, Sound, SlowMaster, Stuck
<1>s. Sound => \A t \in Watched : at[t] \notin {"deleted", "read_for_ever"}
  BY DEF SoundInv, Stuck
<1>1. CASE UNCHANGED vars \/ Tick
  BY <1>1, <1>k, <1>s DEF vars, Tick
<1>2. CASE AppMain
  BY <1>2, <1>k, <1>s DEF AppMain
<1>3. CASE ModemAnswers \/ StartLora \/ LoraStep
  BY <1>3, <1>k, <1>s DEF ModemAnswers, StartLora, LoraStep, LoraServes, Goes
<1>4. CASE ModemSilent
  BY <1>4, SoundReset DEF ModemSilent, Sound
<1>5. CASE PulseStep
  BY <1>5, <1>k, <1>s DEF PulseStep, PulseStart, PulseArrives, PulseFeeds, Goes, Sound
<1>6. CASE ModbusStep
  BY <1>6, <1>k, <1>s DEF ModbusStep, ModbusStart, ModbusReads, ModbusFeeds, Goes, Sound
<1>7. CASE PollStep
  BY <1>7, <1>k, <1>s DEF PollStep, PollStart, PollIdle, PollFeeds, Goes, Sound
<1>8. CASE CoilZero
  BY <1>8, SoundReset DEF CoilZero
<1>9. CASE CoilWithoutQueue
  <2>1. ~Sound
    <3> SUFFICES ASSUME Sound PROVE FALSE
      OBVIOUS
    <3>1. at["task_lora"] = "serve" /\ ~uart_send_queue /\ build.master /\ build.slaves > 0
      BY <1>9 DEF CoilWithoutQueue, ServesCoils, Sound
    <3>2. at["app_main"] # "start"
      BY <3>1 DEF Placed
    <3> QED
      BY <3>1, <3>2 DEF QueueInv
  <2> QED
    BY <1>9, <2>1, SoundReset DEF CoilWithoutQueue
<1>10. CASE Bite
  BY <1>10, SoundBite, SoundReset DEF Bite
<1> QED
  BY <1>1, <1>2, <1>3, <1>4, <1>5, <1>6, <1>7, <1>8, <1>9, <1>10 DEF Next, MainStep

\* A gateway with slaves, modem and flash in order and a short MODBUS_TIMEOUT is
\* reset by nothing but a command for the coil of address 0
\* (modbus_slave.c:149-152), whatever the timeouts and the number of slaves.
THEOREM SoundRunsOn == Spec => []SoundIsOnlyAsked
<1>1. SoundInv => SoundIsOnlyAsked
  BY DEF SoundInv
<1> QED
  BY <1>1, SoundInit, SoundStep, ListInit, ListStep, QueueInit, QueueStep, InvHolds, PTL
     DEF Spec
=============================================================================
