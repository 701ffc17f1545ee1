# Edge node: specification, model checking and proofs

The repository is the firmware of an ESP32 "edge node". A node counts the pulses
of an energy meter, keeps the count in flash, shows it as a measure in Modbus
input registers, and opens or closes a relay. Built as a *slave* it answers a
Modbus master on an RS485 line; built as a *master* (a gateway) it polls up to
255 slaves, caches their measures, and relays the requests that reach it over a
LoRa mesh. A console on UART 0 configures it, and it can update itself over
HTTPS. Everything is FreeRTOS tasks that share globals, queues and semaphores;
there is one watchdog for all of them, and `esp_restart` or the panic handler is
the only recovery.

## 1. Inventory

| part | code | state it keeps | operations | talks to |
|---|---|---|---|---|
| pulse task | `main.c:87-121`, ISR `flash.c:30-39` | `pulses`, `pulse_address`, binary semaphore | boot, count, store, publish | store (calls), input registers (shared memory), ISR (semaphore) |
| pulse store | `flash.c:150-409` | NVS partitions app1..app3: pages, entries, keys `isFull`, `pnumber`, `page_index` | `put_nvs`, `get_initial_pulse` | pulse task, console (`put_nvs`) |
| Modbus slave functions | `modbus_slave.c:68-249` | `inputRegister[512]`, `modbus_coils[512]`, `queue_size`, `queue_changed_slaves` | read registers, write coil, exceptions, `register_save` | slave task, LoRa task, poll task (queue), pulse task (registers) |
| slave task | `main.c:122-203` | UART ring buffer and event queue | receive, check CRC, answer, recover from line errors | UART driver, slave functions, watchdog |
| poll task | `main.c:210-256` | `uart_send_queue` (5), `curr_slave` | take an event and write its request; when idle, the next cyclic poll | LoRa task (queue), RS485 line |
| master task | `main.c:258-322`, `modbus_master.c:101-192` | UART event queue | receive an answer, save its registers, check the tolerance | RS485 line, registers and coils (shared memory) |
| LoRa task | `main.c:324-414`, `lora_mesh.c` | `lora_queue` (5) | take a package, run the slave function, answer; reset the modem | LoRa UART task (queue), slave functions |
| LoRa modem driver | `esp_rf1276.c` | UART ring buffer, timer | configure the modem, frame check, send, daily reset | LoRa task, modem |
| configuration | `config_rtu.c` | `NODE_ID`, `SLAVES`, `IMPULSE_CONVERSION`, `INITIAL_ENERGY`, `AUX` | load at boot, console commands, `-save` | every task (globals), pulse store (`put_nvs` on the pulse task's address) |
| OTA | `ota_update.c`, `connect.c` | timer semaphore, WiFi event group | connect, wait for the timer, update, restart | bootloader, network |
| pure code | `CRC.c`, `esp_rf1276.c:32-39`, `unordered_map.c`, `normalize_pulses` | - | CRC-16, XOR checksum, hash map, rounding | all of the above |
| start, watchdog | `main.c:454-494`, the `esp_task_wdt_*` calls of the tasks, `led.c` | the watchdog's list, who has fed it, its timer | load the configuration, start the tasks, add a task, feed | every task |
| docs | `docs/docs/html` | - | HTML and JavaScript generated by Doxygen; not code of the node | - |

### How the parts interact, and what is hard about it

* **Shared memory without locks.** `inputRegister` and `modbus_coils` are arrays of
  16-bit words and of bits that the pulse task, the master task and whoever runs
  `modbus_slave_functions` read and write from two cores. A measure takes two
  words: every writer stores it in two steps, and every reader copies it in four,
  byte by byte. That is so on the gateway and on each slave.
* **Queues.** `uart_send_queue` (5 polls, a full queue is waited for and then
  given up, and nobody looks at the result), `lora_queue` (5 packages, waited for
  without a timeout) and the event queues of the two UART drivers (20 events, the
  interrupt handler drops what does not fit).
* **Two records of the same bytes.** A UART driver keeps bytes in a ring buffer
  and their count in events. A task that flushes one and not the other, a dropped
  event, or a read that ends early puts them out of step for good.
* **Resets.** Power loss, the task watchdog, a failed `ESP_ERROR_CHECK`, a coil
  command for address 0 and `esp_restart` can end the program between any two
  steps. Flash is all that survives.
* **A lossy line.** RS485 requests and answers are lost to noise and collisions,
  late answers come in when the next slave has been asked, and slaves reset.
* **Wrapping arithmetic.** 32-bit counts and energies, an 8-bit `queue_size`, and
  measures split into words whose difference is taken by `check_toletance`.

What makes the parts correct:

| part | it is correct when |
|---|---|
| pulse store | a boot loads what was stored last; the store is a log in address order; entries wear evenly; success means stored |
| pulse task | a reset loses at most the pulse in hand; the registers never show energy that a reset takes back; a counted pulse is published |
| poll and master task | every slave is polled for ever; what is cached of a slave is a measure it had and never goes back, unless the slave published it while it was read; it is masked exactly after a jump |
| relayed commands | a relay does only what was asked of its address (of which a byte is left), in order, once; a queued command arrives |
| LoRa reads | an answer is a measure of the node that was asked |
| slave task | events and bytes stay in step; every whole request for this node is answered, in order, once; the task does not hang |
| LoRa link | the same without any flush; a modem is reset only when asked for |
| configuration | after `-save` the next boot shows the energy asked for; the store keeps its shape with two writers; only `-energy` changes the energy |
| watchdog | it bites for tasks that have stopped, always, and for nothing else; a sound gateway comes up after every reset, and only a command for coil 0 resets it |
| start | what a task uses exists before the task can use it |

`PROJECT.json` lists each of these hazards with its line and the properties that
watch it.

## 2. Plan

In this order, the most important behaviour first. Done:

1. `FlashStore`, `Meter`: the count and what a reset does to it.
2. `DurableCounter`, `MeterDurable`: the abstract crash-safe counter and the
   refinement.
3. `MeterProofs`: types, recovery, loss and publication for every geometry.
4. `Gateway`: polls, cache, mask, relay and LoRa reads.
5. `UartDriver`, `SlaveTask`, `LoraLink`: the driver's two records and the two
   tasks that work on them.
6. `MeterConfig`: the console against the pulse task.
7. `Watchdog`: start and supervision in seconds, for every build.
8. `WatchdogProofs`: types, blame, the order of the start and the sound gateway that
   runs on, for all timeouts.
9. `GatewayProofs`: every safety property of the gateway, for any number of slaves
   and any size of the queue.
10. `UartProofs`, `SlaveTaskProofs`, `LoraLinkProofs`: every safety property of the
    two receivers, for any FIFO, any queues and any number of errors.
11. `MeterProofs` again: the order of the store, its wear, and the refinement of
    `DurableCounter`, for every geometry.
12. `MeterConfigProofs`: every safety property of the pulse task with the console
    beside it: types, the shape of the store, what a reset loses, the energy that a
    save brings back, the wear of an entry.

Left, in this order:

13. A gateway that also counts pulses: `Meter` and `Gateway` on one register array.
14. A slave of `Gateway` that is `SlaveTask`, so that the loss of requests is
    derived instead of assumed.
15. Pure code: CRC-16, the XOR checksum, `unordered_map` with collisions, each
    against a reference definition.

## 3. The modules

| module | what it is | EXTENDS |
|---|---|---|
| `FlashStore` | the NVS partitions of the pulse store and the operations of `flash.c` on them | - |
| `Meter` | `task_pulse`, its interrupt handler, resets; the system of the meter | `FlashStore` |
| `DurableCounter` | abstract: a counter that a crash takes back by one at most | - |
| `MeterDurable` | `Meter` with `DurableCounter` as INSTANCE | `Meter` |
| `MeterProofs` | theorems about `Meter` and `MeterDurable` | `MeterDurable`, `TLAPS` |
| `Gateway` | poll, master and LoRa task on shared registers, the line and the slaves | - |
| `MCGateway` | measures and commands of the gateway's runs | `Gateway` |
| `QueueLemmas` | lemmas about the sequences that are used as queues | `TLAPS` |
| `GatewayProofs` | theorems about `Gateway` | `Gateway`, `QueueLemmas` |
| `UartDriver` | external: the receiving side of an ESP-IDF UART driver | - |
| `SlaveTask` | `task_modbus_slave` on its driver | `UartDriver` |
| `LoraLink` | `uart_event_task`, `lora_queue` and the loop of `task_lora` | `UartDriver` |
| `UartProofs` | lemmas about `UartDriver`: the count of what a queue announces, the order of the pieces | `UartDriver`, `QueueLemmas` |
| `SlaveTaskProofs` | theorems about `SlaveTask` | `SlaveTask`, `UartProofs` |
| `LoraLinkProofs` | theorems about `LoraLink` | `LoraLink`, `UartProofs` |
| `MeterConfig` | the console's `-energy` and `-save` beside the pulse task | `Meter` |
| `MeterConfigProofs` | theorems about `MeterConfig` | `MeterConfig`, `MeterProofs` |
| `Watchdog` | `app_main`, the task watchdog and when each task feeds it | - |
| `WatchdogProofs` | theorems about `Watchdog` | `Watchdog`, `TLAPS` |

Some definitions are preceded by a variant whose comment starts with "Faulty": a
plausible bug in the same code. PROJECT.json ("mutants") pairs each property with
the variant that must violate it, so that no property holds whatever the code does.

### 3.1 The meter: FlashStore and Meter

`nvs` maps an address (partition, page, entry) to the value of its NVS key.
`namespaces`, `storage` and `used` are what else the partitions hold: the page
namespaces, the keys `isFull` and `page_index`, and the number of slots taken. The
NVS library is external. The code depends on two facts about it: a new namespace
or key takes a slot of the partition, writing needs a free one, and both fail
otherwise; a commit is atomic. `pc` is where `task_pulse` is; a step ends where
another task or a reset can come in between.

| action | code |
|---|---|
| `pulse_isr_init`, `CreateSemaphore` | `main.c:94-97` |
| `SearchPartition`, `ReadPageIndex`, `ReadCount` | the three parts of `get_initial_pulse` |
| `PublishHigh`, `PublishLow` | the two stores of `register_save` |
| `TakeSemaphore`, `SampleHigh`, `SampleLow`, `EndHoldoff` | the loop: debounce and hold-off |
| `PutAddress`, `FlashFull` | `put_nvs`, its address arithmetic and its early return |
| `SaveOpen`, `SaveSet` | `save2address`, with their failures, which `put_nvs` drops |
| `PulseEdge`, `PulseEdgeAborts` | `pulse_isr` with and without its semaphore |
| `PowerLoss` | a reset at any step |

`normalize_pulses` and `writes_offset` compute in floating point in the code. Here
they are the exact rational value, rounded half up. Beyond 2^24 pulses a `float`
is coarser than that; properties about the measure are about the formula, not its
precision.

The ghosts `saved`, `savedAt`, `writes` record what was stored last, where, and how
often; `rolledBack` records that some boot loaded less than that.

### 3.2 The gateway

One node built with `CONFIG_MASTER_MODBUS` and `CONFIG_LORA`, its slaves and the
line between them. A slave is its pulse task, which stores the words of a new
measure one after the other, and its slave task, which copies them byte by byte
into an answer, on two cores. Requests reach it whole, in order, or are lost; an
answer may be lost or arrive damaged. On the gateway it goes through the UART
driver's ring and event queue, which the master task reads and, after an error,
flushes. Time is left out: `PollIdle` (nothing came for `TIME_SCAN`) needs only an
empty queue, so a late answer may come in after any number of other polls, `Send`
gives up whenever the queue is full, and a read whose bytes were flushed ends with
the old content of the buffer.

| action | code |
|---|---|
| `PollTake`, `PollIdle`, `PollSend` | `modbus_master_poll`: take an event, next slave, send its poll |
| `Consume`, `StoreHigh`, `StoreLow` | a slave's pulse task: a pulse counted, the two stores of `register_save` |
| `ReadFirst`, `ReadNext`, `AnswerRead`, `AnswerCoil` | a slave's task: READ_INPUT byte by byte, WRITE_SINGLE_COIL |
| `LoseRequest`, `SlaveReset`, `LineError` | faults: a request, a slave, an overflow or framing error |
| `MasterReceive` | `task_modbus_master` takes an event with data |
| `MasterRead`, `CrcError` | it reads the bytes; the check holds, or the ring is flushed and the queue is not |
| `FlushInput`, `ResetQueue` | an overflow: ring flushed, then the queue emptied, two calls |
| `FrameError` | a framing error: the driver is installed anew |
| `SaveHigh`, `SaveLow` | `save_register`, one store each |
| `ClearMask`, `SetMask` | `check_toletance` with the coil it writes twice |
| `LoraRead`, `ReadBytes` | READ_INPUT of two registers in `modbus_slave_functions`, byte by byte |
| `LoraCommand`, `LoraCommandOwn`, `LoraSend` | WRITE_SINGLE_COIL for another node and for the gateway |
| `Restart` | a reset of the gateway; the line and the slaves go on |

A coil has an address of 16 bits, and a poll event a slave id of 8
(`modbus_slave.c:181`): `Addressed` is the cut, so that a command for coil 257 goes
to slave 1, while the mask it sets, and the comparison with `NODE_ID`, take the
whole address. An id that no slave has goes out on the line and nobody answers.
The coil of a queued command is what `malloc` left in it when the value is neither
0xff00 nor 0: a free choice in `LoraCommand`.

Ghosts make the properties sayable. Each command has a number, which travels with
it to the relay. `before` is the measure that the last save replaced. A frame is
*raced* if its slave published a measure while it was read, and `raced` has the
slaves whose cache came from such a frame; `shown` is the last value before the
present one that was not raced. `overridden` has the slaves whose mask a command
wrote since their last save.

### 3.3 The two receivers

`UartDriver` is external and only as detailed as the tasks can tell: frames of two
pieces arrive in a FIFO; the interrupt handler moves what is there to the ring and
posts an event with its size, or drops the event; errors cost what the FIFO holds.
An event may thus announce half a frame, or the end of one with the start of the
next. The ring itself has no bound.

`SlaveTask`: `Receive`, `ReadBytes` (a read waits, without a timeout, for what the
event announced), then `Answer` (also for frames of other nodes, which are passed
over), `Restart` (a coil of address 0, which restarts the node, or of another node,
which on a slave aborts on a queue that does not exist: no answer, and all that
waits is lost), `CrcError` (flush of the input, not of the queue), or for an event of an
error `FlushInput` and then `ResetQueue`, with the interrupt handler free to post
between the two; after a framing error also `Reinstall` (`uart_init` again). `Watchdog` resets a task that
waits for bytes which are gone.

`LoraLink`: `Configured` is all of `init_lora_mesh`; it reads the modem's answer
without taking the events, which stay in the queue without their bytes (none, one
or two of them). `Receive`, `ReadBytes` (500 ms at most, the rest of the buffer
stays zero), `ChecksumError`, `ChecksumOk` and `Forward` are `uart_event_task`;
`LoraReceive`, `LoraAnswer`, `LoraResetModem`, `LoraIgnore` are `task_lora`, with
`LoraCipherError` (a package is dropped without an answer) and `LoraRestart` (a
package for coil 0: `lora_queue` and the driver's content are lost and the modem is
configured again). Its wait for a place in the poll queue is time spent handling a
package, during which everything behind it fills up. The
checksum is an XOR: frames that follow each other whole pass as one (ghost
"merged"), and so does a read of nothing but zeros.

### 3.4 The console: MeterConfig

`MeterConfig` adds the console task to all of `Meter`. The two share three things
and no lock: the global `pulse_address`, `INITIAL_ENERGY`, and the NVS library,
whose `nvs_flash_deinit_partition` closes every handle of a partition, also the one
the other task has just opened (`handle`). A store is therefore two steps for
either task, open and set.

| action | code |
|---|---|
| `SetAux` | `-energy e` in `uart_event_task` of `config_rtu.c` |
| `SaveConfig` | `-save`: `config_save_flash` up to the commit of the default partition |
| `SetEnergy` | the assignment of `INITIAL_ENERGY` |
| `ConsolePut`, `ConsoleOpen`, `ConsoleSet` | `put_nvs(initial_pulses, &pulse_address)` and its `save2address` |
| `Restart` | `esp_restart` |
| `PulseOpen`, `PulseSet`, `PulseSetFails`, `PulseOther` | the actions of `Meter`, with the pulse task's handle |
| `ConfigPowerLoss` | a reset at any step, of either task |

A deinit that falls between the other task's init and its open is taken together
with one between its open and its set: both lose that store. Commands come when
the task has booted. `-id`, `-pulse` and `-slaves` are left out: they change
globals that other modules have as constants (see section 7).

### 3.5 Start and supervision: Watchdog

Time is the point of this module, so it is counted: a state is a second, `left` is
how long the call that a task is in may still take, `Tick` passes a second when
every task waits. An event ends a call before its time. What the tasks compute is
left to the other modules; here a task is where it stands between two feeds.

`build` is a board and its configuration: which of the tasks menuconfig puts in,
the number of slaves, the tick rate (`timeout`), whether the modem answers and
whether the flash does. `Init` takes any of them.

| action | code |
|---|---|
| `AppMain`, `ModemAnswers`, `ModemSilent`, `StartLora` | `app_main`, `init_lora` and its `ESP_ERROR_CHECK` |
| `LoraServes` | the delay before the loop of `task_lora` (`main.c:335`) |
| `PulseStart`, `PulseArrives`, `PulseFeeds` | `task_pulse`, also when the flash fails and the task deletes itself |
| `ModbusStart`, `ModbusReads`, `ModbusFeeds` | `task_modbus_slave` or `task_modbus_master`, whichever the build has |
| `PollStart`, `PollIdle`, `PollFeeds` | `modbus_master_poll`, also with `SLAVES = 0` |
| `CoilWithoutQueue` | a coil command that finds `uart_send_queue` NULL (`modbus_slave.c:194`) |
| `CoilZero` | a command for the coil of address 0: `esp_restart` (`modbus_slave.c:149-152`) |
| `Bite` | the watchdog's reset |

`esp_task_wdt_add` and `Feed` (`esp_task_wdt_reset`) are ESP-IDF's: the timer
restarts only when every task on the list has fed it since it last restarted; a
task that is added counts as fed; a task that is deleted stays on the list. The
idle tasks of the two cores are on the list as well and are taken to feed in time.

## 4. The runs

| run | what it asks | bounds, and why they are enough |
|---|---|---|
| `meter_store` | what a boot recovers, a reset loses, the registers show, an entry takes, whether a counted pulse is published | 2 partitions x 2 pages x 3 entries, 2 writes each: 25 pulses pass every address and fill the flash. 8 slots: partition 1 runs out while its first page fills. 49 for 2^32: the offset subtraction wraps. 2 resets: one after a boot that was itself cut short |
| `meter_durable` | is `DurableCounter` implemented, its fairness included | 1 partition, 5 pulses in 3 entries, 3 resets: all within the first page, where the promise holds |
| `gateway_cache` | what is cached, does it go back, is it masked | 1 slave, 2 frames in the ring, 1 event in the queue while another is handled, 1 fault of any kind (an answer lost or damaged, a line error, a slave that resets), 1 reset of the gateway: a stale event, bytes without their event, an answer saved twice, a slave that shows 0. Bytes of base 2 and steps within and beyond the tolerance, one with a carry: the bytes of two measures are mixed in every way |
| `gateway_reads` | cache of two slaves, mask, answers and relays under LoRa reads and a command | 2 slaves, one of them counting, 1 command out of 4 (for a slave, for the gateway, for an address that is each of them once cut), no faults, measures of one byte |
| `gateway_relay` | order and arrival of commands, polls for ever | 2 commands, one of them for an address that is the same slave once cut; queue of 2, 1 reset; measures stand still, no losses |
| `slave_task` | events against bytes, answers, hanging | 3 frames of 4 kinds in 6 pieces, FIFO of 3, queue of 2, 1 error: every way to split and merge, with a drop and a restart |
| `lora_link` | events against bytes without a flush, answers, blocked queues | 2 frames of 5 kinds in 4 pieces, FIFO of 4, both queues smaller than the traffic, 1 error, 0 to 2 events left over |
| `meter_config` | what `-save` stores, what a reset finds, what two writers do to the store | 1 partition x 2 pages x 3 entries, 9 slots: the page fills and the partition runs out. 2 saves, so that the second meets what the first has left; 1 power loss at any step of either task; 3 writes an entry and 8 pulses around the saves, enough to wear an entry out before, between and after them; one energy besides 0 |
| `watchdog` | who is to blame for a bite, whether a stopped task is noticed, what resets a sound gateway, whether it comes up | the seconds of the code; every build; 0 or 1 slaves (more only lengthen one delay, and the theorems have any number); 2000 ticks at 100 and at 1000 a second |
| `meter_rollback`, `gateway_torn`, `config_energy` | violated, see section 6 | - |

`MaxRequests` bounds the slaves that are busy with a request at once, `RING` and
`EVENT_QUEUE` what the driver holds, none of them what is ever sent. `MaxLosses`
counts the faults of the line and the resets of slaves together.
`MaxCommands` bounds commands for good, so `EverySlavePolled` says nothing of a
LoRa side that sends commands faster than `TIME_SCAN` for ever: `PollIdle` needs an
empty queue, and such a stream does starve the cyclic polls.

### What the properties say

* Meter: `RecoverExact` (a boot comes back to the last value in the first page and
  to its address), `AtMostOneLost`, `PublishedIsDurable`, `StoreOrdered` (of two
  written addresses the later holds the larger count, on which the recovery
  relies), `WearLevelled`, `PulsePublished` (liveness), `ImplementsDurableCounter`.
* Gateway: `CacheIsGenuine` (a cached pair is a measure of this slave, or it raced:
  no words of another slave, of another answer or of a damaged one),
  `CacheNeverGoesBack` (of the values that did not race, none is below an earlier
  one, but the 0 of a reset), `MaskFollowsJump` (also for values that raced),
  `RelayObeys`, `RelayInOrder` (an action property), `AnswerIsAMeasure` (measures of
  one byte), `EverySlavePolled` and `CommandArrives` (liveness). The race itself is
  what the code does, see section 6.
* Receivers: `EventsHaveTheirBytes` for the slave (no event waits for bytes that
  are gone, before a CRC error), `NothingLeftBehind` for the modem (no bytes without
  an event, before a drop), `AnswersOnceInOrder` for both, `ResetsAreAsked`,
  `TaskReturns`, `RequestAnswered`, `PackageAnswered` (liveness; the exceptions are a
  line error, a CRC error, a drop or merge, a restart for coil 0, a failed cipher).
* Console: `EnergyTakes` (the boot after a `-save` shows the energy asked for up to
  rounding; if a pulse was being stored meanwhile, possibly the count instead, but
  one that was really counted), `AtMostOneLostOutsideSave` (nothing of a save lives
  on after its restart), `NoGap` (the entries of the first page are written without
  a hole, on which the recovery relies, even with two writers and lost stores),
  `WearPerSave` (an entry takes its own share of writes, and at most two more for each
  save: the old count goes on under the new offset until the restart, with one store
  by the console, and the boot may bring the counter back to the entry).
* Start and supervision: `BlamesOnlyStuck` (when the watchdog's time is up, who has
  not fed it has stopped, or is the master of a build with too long a
  `MODBUS_TIMEOUT`), `QueueBeforeCommands` (a gateway with slaves has its queue
  before the first command), `SoundIsOnlyAsked` (a gateway with slaves, modem and flash
  in order and a short `MODBUS_TIMEOUT` is reset by a command for coil 0 and by
  nothing else), `StuckIsReset` and `GatewayComesUp` (liveness: again and again the
  LoRa task of a sound gateway serves; it comes up after each reset).

### Fairness

Weak fairness of each task: FreeRTOS schedules a ready task, the tasks of one core
here have the same priority and take turns (`uart_event_task` has the highest, but
blocks on its queues), and no loop holds a lock.
`Meter` has it for the pulse task only, which waits for nobody. `Gateway` adds the
slave task: one that received a request reads on and answers it. Its pulses need
not come nor be stored, and nothing is assumed of losses. `SlaveTask` and `LoraLink` add the interrupt handler when
the FIFO is not empty (its receive timeout), and `SlaveTask` the watchdog when the
task hangs. `Watchdog` has it for time, for the watchdog's interrupt and for a task
whose call has timed out; an event that would end a call sooner need not come.
Nothing is fair that the outside decides: pulses, commands, frames,
errors, resets. Safety properties do not use fairness.

## 5. What is proved

### The meter

`MeterProofs` proves seven theorems of `Spec`, for every geometry of at least two
pages, every capacity of at least six slots, every conversion and every set of
configured energies.

* `TypeCorrect == Spec => []TypeOK`, from `TypeInv == TypeOK /\ BootInv`. `TypeOK`
  is not inductive by itself: that `put_nvs` stays inside the store needs to know
  that the address is one once the boot is over, and that needs the order of the
  boot steps (`BootInv`).
* `RecoversExactly == Spec => []RecoverExact`, from `StoreInv`: the entries written
  in the first page are a prefix of it (so that counting them finds the last), the
  last save in that page is under the last of them, and the task's address is that
  entry, the next one while it is being written, or anything once the partition
  has no slot left. The last case is why `StoreInv` is needed: after a failed
  write the address walks on and the prefix stays.
* `LosesAtMostOne` and `PublishesDurable`, from `CountInv`, which relates count,
  stored value and both registers at each step while the counter is in the first
  page and has room, and uses that two words make up the measure (`WordsOfMeasure`).
* `StoreInOrder == Spec => []StoreOrdered`. Numbers alone do not give it: an entry
  whose store failed stays empty and a boot may have gone back. `OrderInv` ties
  each value to its place: an address has as many addresses before it as the count
  in it has changes of entry behind it (`Place`, `Changes`; at the last address, at
  least as many), and the same of the task's count and its address. Both are
  cardinalities, so that an address that moves on and a count that passes a change
  grow by one together.
* `LevelsWear == ASSUME NoEvenWrap PROVE Spec => []WearLevelled`, from `WearInv` with
  `OrderInv`: until a boot goes back, an entry has taken each count from the first
  that belongs to it to the one it holds at most once, and counts that belong to one
  entry are less than `Share` apart. `NoEvenWrap` is `UINT32 % MAX_WRITES # 0`, as it
  is for 2^32 and 80000 (7296). It is needed: `put_nvs` does not change the entry
  where the wrapped difference is 0 (`flash.c:383-385`), so that a divisor of 2^32
  would let an entry that meets the wrap take two shares.
* `IsDurableCounter == ASSUME FirstPageSuffices, PageFits PROVE Spec => Durable!Init
  /\ [][Durable!Next]_Durable!vars`: the pulse task implements `DurableCounter`, but
  for the fairness in `Durable!Spec`. The two hypotheses say that the pulses of the
  run stay in the first page and that the partition has slots for a page; the code
  has 126 entries of 80000 writes and checks neither, and beyond them the promise
  is false (`meter_rollback`). `DurableInv` bounds the slots taken by what the
  partition is known to hold, so that no store fails; the steps that count, store
  and lose a pulse then are the abstract ones, and all others leave the abstract
  counter alone.

Each has the same shape: the invariant holds in `Init`, each action of `Next`
preserves it (one step per action), it implies the property; the temporal step is
the last. The assumptions are those named in `FlashStore` and `Meter`, which TLC
evaluates in every run: `GeometryAssumption`, `UintAssumption`,
`CapacityAssumption`, `NotFoundAssumption`, `MeterAssumption`.

### The gateway

`GatewayProofs` proves seven theorems of `Spec`, for any number of slaves, sizes,
measures, commands, losses and resets within `GatewayAssumption`.

* `TypeCorrect == Spec => []TypeOK`.
* `RelaysObey == Spec => []RelayObeys` (the address cut to a byte is the slave's id;
  for the gateway's own relay all of it is `NODE_ID`) and `RelaysInOrder == Spec => RelayInOrder`.
  `RelayInv` says of every write in the LoRa task's hands, in the queue and on a
  line what the property says of a relay; `OrderInv` that the commands are newer
  the further back they are on that way, each of the four stages (relay, line,
  queue, LoRa task) behind the one before it, and sorted within each. A
  reset of the gateway empties two of the stages and keeps the order of the rest.
* `CacheGenuine == Spec => []CacheIsGenuine` and `CacheInOrder == Spec =>
  []CacheNeverGoesBack`, from `CacheInv`, whose parts follow a value along its way.
  `SlaveInv`: a slave's registers are a measure that it has had, except between its
  two stores, and so is what its task has read, unless it raced. `KnownInv`: no
  value that the gateway has of a slave, in the ring, in the buffer or cached, is
  ahead of what the slave shows. `RingInv`: the ring keeps the order in which the
  slave was read, behind what was taken out. `SaveInv`: the buffer is the answer
  being saved or the last one saved for its slave, which is why a read that finds
  no bytes repeats the newest value and not an older one.
* `JumpsAreMasked == ASSUME NoWrap PROVE Spec => []MaskFollowsJump`: `MaskInv` says
  where the two words that a save replaces are at each of its four steps. `BytesInv`
  says that raced or not, every byte cached of a slave is that byte of some measure
  of it. `NoWrap` (bytes are even in number, twice the tolerance and twice each
  measure are below 2^32) makes mixtures of such bytes stay in the lower half of
  the range too: `check_toletance` takes the difference in 32 bits, and takes one
  that wraps for a small one. In hundredths of a kWh that is 21 GWh.
* `AnswersAreMeasures == ASSUME OneByte PROVE Spec => []AnswerIsAMeasure`, from
  `AnswerInv` and `BytesInv`: for measures of one byte, since then the other three
  never change. For larger ones the statement is false, as `gateway_torn` shows.

### The two receivers

`UartProofs` has what both proofs use: what a queue of events announces grows and
shrinks with its events (`Announced` counts pieces as a cardinality, so that it can
be reasoned about), and `Stream`, the order of the pieces in a task's buffer, the
ring and the FIFO, behind a frame that is done and before the next one to arrive,
which every step of the driver preserves. The sizes of FIFO and queues, the frames
and the number of errors are arbitrary.

* `SlaveTaskProofs`: `TypeCorrect`; `AnswersInOrder == Spec => []AnswersOnceInOrder`,
  from `AnswerInv`: all that is still to be read comes behind the last frame
  answered; `NoEventIsAlone == Spec => []EventsHaveTheirBytes`, which is inductive
  with the types: until a CRC error flushes the ring and leaves the queue, no step
  takes bytes without their announcements, and a restart takes both.
* `LoraLinkProofs`: `TypeCorrect`; `AnswersInOrder`, from `FlightInv`: between modem
  and LoRa task every frame is whole, and newer than what is ahead of it;
  `ResetsAnswerAcks == Spec => []ResetsAreAsked`, from `ResetInv`: there is a set of
  acknowledgements that asked for a reset, as large as the number of resets, none
  of them still on the way; `NoBytesAlone == Spec => []NothingLeftBehind`.

### The console

`MeterConfigProofs` proves five theorems of `ConfigSpec`, for every geometry,
capacity and set of energies.

* `ConfigTypeCorrect == ConfigSpec => []ConfigTypeOK`. The steps of the pulse task
  are those of `Meter`, and what `MeterProofs` says of them is cited.
* `LeavesNoGap == ASSUME MAX_WRITES > 1 PROVE ConfigSpec => []NoGap`, from `GapInv`. The
  danger is a store that a closed handle loses: the task's address is then one
  past the last entry (`AtNext`), and the next pulse must not move it on. `FailsOnce`
  is why it does not: only the first store of an entry can be lost that way, the
  count that made the entry change is lost with it, and before a second change the
  console restarts the node. `ConsoleAt` says that the console creates no entry but
  the one the task is creating. The code has 80000 for `MAX_WRITES`; with 1 each
  pulse changes the entry and TLC finds a gap.
* `LosesAtMostOneOutside == ASSUME MAX_WRITES > 1 PROVE ConfigSpec =>
  []AtMostOneLostOutsideSave`, from `GapInv` and `LostInv`: until the console has
  stored, the task's count is the one stored, or one more inside `put_nvs`.
* `TakesEnergy == ASSUME MAX_WRITES > 1, EnergiesFit PROVE ConfigSpec =>
  []EnergyTakes`, from `EnergyInv`, `GapInv` and `LostInv`. `SaveInv`: what the console
  stores belongs to the energy that the next boot loads, at every step where a power
  loss can come in between. `ReplaceInv`: before the console's store the page holds a
  count of the pulse task, and afterwards the console's own, unless the two were in
  `put_nvs` together; then it is one of the two and never a third. `EnergyRounds` is the
  arithmetic: an energy taken to pulses and back is off by at most half a pulse and
  half a hundredth of a kWh. `EnergiesFit` says that the counter is not full: neither the pulses of an
  energy asked for nor the energy they are shown as wraps at 2^32.
* `WearsPerSave == ASSUME NoEvenWrap PROVE ConfigSpec => []WearPerSave`, from
  `PerSaveInv`. A bound on the writes so far is not inductive: two tasks store, and a
  boot may return to an entry. `Budget` bounds what each entry can still take from a
  given place and count, once for the task where it stands (`TaskBudget`) and once for
  a boot that would come now (`BootBudget`). `Allowance` grows with the steps of a
  save: the first of its two shares pays for the change of the offset, under which the
  count may be a whole share from its next change (`DueFresh`), and for the store by
  the console; the second for the boot. `NoEvenWrap` is that of `LevelsWear`.
  A boot to an entry left long ago is not always a rollback: a save may store a
  smaller count in a later page, and a boot that returns to the first page then finds
  nothing larger behind it. So the entries after it have a share to take again. With
  one entry a page and a `MAX_WRITES` that divides the modulus TLC finds an entry
  beyond `(saves + 1) * Share + saves * (MAX_WRITES - 1)`, a bound that looks natural
  on the instance of `meter_config`.

### The watchdog

`WatchdogProofs` proves four theorems of `Spec`, for every number of slaves and
every choice of the timeouts that meets `WatchdogAssumption`: two polls or a pulse
after its wait take less than the watchdog's time, all of them positive. The set
of `MODBUS_TIMEOUT`s is free.

* `TypeCorrect == Spec => []TypeOK`.
* `BlamesOnlyTheStuck == Spec => []BlamesOnlyStuck`. `BlamesOnlyStuck` speaks of the
  moment the time is up, and is not inductive. `Punctual` says it of every moment:
  a task on the list that runs needs less than the watchdog's whole time until it
  feeds, and, if it has not fed since the timer restarted, less than what is left.
  `Needs` counts what the rest of the present call takes, and the second call that
  may follow it before the feed. A second takes one from both sides, a call that
  follows fits into what its task had left, and a feed starts a whole wait, which
  is where the first half is needed: another task's feed may restart the timer, or
  not. `Placed` ties the list to where the tasks are.
* `QueueComesFirst == Spec => []QueueBeforeCommands`, from `QueueInv`: while
  `task_lora` is in its delay there are seconds left or the poll task has made its
  first step, because time does not pass for `Tick` while a task is ready to run.
  That a ready task runs within the second is thus an assumption of the model, and
  the theorem is about the delay of `main.c:335` under it.

* `SoundRunsOn == Spec => []SoundIsOnlyAsked`, from all of these and two more.
  `ListInv`: as long as a task is on the list, one of them has still to feed since
  the timer restarted, and while the list is empty the time does not count; so a
  bite has somebody to blame, and by `BlamesOnlyStuck` that is a task which has
  stopped. `SoundInv`: no task of a sound gateway stops, because its flash works,
  it has slaves, its reads end and its modem answers; and a command that finds no
  queue is excluded by `QueueInv`.

Each step preserves `Inv` by one of four lemmas (a watched task moves on,
feeds, starts, or the node resets), so that the proofs of the tasks only have to
say what their waits amount to.

### What is only model-checked

* Every liveness property: `PulsePublished`, the fairness that
  `ImplementsDurableCounter` adds to `IsDurableCounter`, `EverySlavePolled`,
  `CommandArrives`, `TaskReturns`, `RequestAnswered`, `PackageAnswered`, `StuckIsReset`,
  `GatewayComesUp`. Fairness and ENABLED are out of the prover's reach. Every safety
  property of the passing runs is stated by a theorem.

## 6. Where the code departs from what it says

| run | the code | it says |
|---|---|---|
| `meter_rollback` | `page_index` and `isFull` are never written when the counter moves to the next page or partition (`flash.c:276`, `flash.c:396-402`): a reset brings back the last value of the first page | `flash.h:56-57`: the last counter value before reboot |
| `gateway_torn` | a LoRa answer pairs the high word of one measure with the low word of another (`modbus_master.c:133`, `modbus_slave.c:128-139`) | `README.md:28`: the input register holds the energy measure |
| `config_energy` | `-save` stores `AUX` whenever it differs from `INITIAL_ENERGY`, and `AUX` is 0 until `-energy` is given: `-id 5 -save` sets the energy to 0 and replaces the count (`config_rtu.c:57-70`) | `global_variables.h:25`: the energy in the meter when coupled with this device |

The other properties of the meter are stated for the first page, for as long as
the partition has room: beyond the first page `meter_rollback` shows what happens,
and in a full partition `put_nvs` drops the result of `save2address` and returns
ESP_OK (`flash.c:407`), so that nothing is stored and the caller's test of the
result (`main.c:112`) never sees it.

Seen while modelling, and stated by no property of their own:

* The interrupt handler is added before its semaphore is created
  (`main.c:94-96`): an edge in between gives a NULL semaphore and aborts
  (`PulseEdgeAborts`).
* `MODBUS_TIMEOUT` is 2000 ticks with the comment "in ticks == 1 s" (`main.c:49`): it
  is 2 s at 1000 ticks a second and 20 s at 100, where the two waits of the master
  task reach the watchdog's 20 s (`SlowMaster`).
* With `SLAVES = 0` the poll task deletes itself while on the watchdog's list; the
  call that would take it off is commented out (`main.c:218`), and the node resets
  every 20 s for ever.
* A slave stores the two words of its measure one after the other
  (`modbus_slave.c:240-241`) while its slave task may be copying them into an answer
  on the other core (`modbus_slave.c:128-139`). The answer then mixes two measures,
  with a good CRC, and the gateway caches it until the next poll: the frames and
  slaves that are `raced` in `Gateway`.
* A slave that is told to set another node's coil sends to a queue that only a
  gateway creates, and aborts (`SlaveTask.Restart`).
* A command for coil 257 moves the relay of slave 1 and masks coil 257, which is
  nobody's: the id of a poll event is a byte (`modbus_slave.c:181`,
  `modbus_master.h:27`), the mask takes the whole address.
* A command for coil 0 restarts the node before it has answered; the packages and
  requests behind it are lost. The one who asked sees no more than a loss.
* `-energy` with the energy that is already stored does nothing on `-save`. After a
  power loss between the commit of INITIAL_E and `put_nvs` that is also so for the
  energy which was being set, and the old count stays.
* Between `SetEnergy` and the restart the pulse task goes on counting with the old
  count and the new offset, so that its next change of entry may be almost a share of
  pulses further off than it was, and the boot may come back to the same entry: a
  `-save` costs an entry up to two shares of writes besides its own (`WearPerSave`).
* The OTA task's timer starts before its semaphore exists (`ota_update.c:90`), and
  `connect` waits for an address without a timeout (`connect.c:75`).
* `esp_rf1276.c` and `ota_update.c` both define `timer_group0_isr`: a build with OTA
  and LoRa does not link.

## 7. What is not modelled

* OTA and the network: one task around `esp_https_ota` and the drivers of WiFi and
  Ethernet, without state shared with the rest. `partitions.csv` has a factory
  partition and no OTA slot, so that an update can only fail; what is left is a loop
  of failing calls of a library.
* The JavaScript under `docs/docs/html` (search box, menus, jQuery): generated with
  the documentation by Doxygen, no part of the node.
* The console's `-id`, `-slaves` and `-pulse`: they change `NODE_ID`, `SLAVES` and
  `IMPULSE_CONVERSION`, constants of `Gateway`, `SlaveTask` and `Meter`, which take
  effect in the running tasks at once. Commands during the milliseconds of a boot.
* Pure code (CRC-16, XOR checksum, hash map): planned; the modules take a checksum
  as right or wrong.
* `flash_save`, `flash_get` (nobody calls them), `put_partition_info` and all
  logging; LEDs; the daily reset of the modem by a timer, which touches a pin only.
* `check_partition`: it erases a partition that NVS reports to be without a free
  page, or of a newer layout. NVS keeps a page free of what this program writes, so
  that the model's partitions are never erased; damaged flash is left out.
* The cipher: two calls of AES-CFB8, without state of their own; that one of them
  fails is in `LoraLink`.
* A coil address of 512 or more: `modbus_coils` has 512 entries and the code does not
  check (`modbus_slave.c:185`): undefined behaviour, left out of `Coils`.
* Frames of the gateway's line that arrive in pieces or merged: in `Gateway` a frame
  is one event, and one that is not would fail its check, as a damaged one does;
  `SlaveTask` has the pieces. The CRC is ideal: a damaged frame never passes.
* A slave of `Gateway` that rolls back beyond its first page (`meter_rollback`):
  `Recovered` is the last count. What arrives while a node starts is left out.
* Modbus exceptions and WRITE_MULTIPLES_COILS: they change no state. Which
  exception an answer carries is only logged, and `error_count` is never
  incremented.
* A gateway that also counts pulses: it shares two registers with a slave when
  `NODE_ID <= 2 * SLAVES` (hazard `modbus_slave.c:240`); `Gateway` assumes that the
  ids are distinct and that it does not count.
* A full ring buffer of a UART driver: in `Gateway` a frame that finds it full is
  lost, where ESP-IDF keeps the chunk and pushes it later without an event; in
  `UartDriver` the ring has no bound. And heap exhaustion (the poll events of
  relayed commands are never freed).
