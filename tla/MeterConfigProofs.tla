-------------------------- MODULE MeterConfigProofs --------------------------
(***************************************************************************)
(* Theorems about MeterConfig, the pulse task under the console's saves,   *)
(* for every geometry of the store, every capacity and every set of        *)
(* energies:                                                               *)
(*   ConfigTypeCorrect      the state has its types;                       *)
(*   LeavesNoGap            the entries of the first page are created one  *)
(*                          after the other, whatever store a closed       *)
(*                          handle loses;                                  *)
(*   LosesAtMostOneOutside  outside a save a reset costs at most the pulse *)
(*                          being stored;                                  *)
(*   TakesEnergy            after a save the boot shows the energy that    *)
(*                          was asked for, or a count that the pulse task  *)
(*                          really had;                                    *)
(*   WearsPerSave           a save costs an entry at most two shares       *)
(*                          besides its own.                               *)
(***************************************************************************)
EXTENDS MeterConfig, MeterProofs

-----------------------------------------------------------------------------
(* The inductive invariant *)

\* The console works on a node that has booted, on an address of the store.
ConsoleInv ==
    /\ console # "idle" => Running
    /\ console \in {"open", "set"} => target \in Address
    /\ pc = "set" /\ handle["pulse"] = 0 => console = "restart"

ConfigTypeInv == ConfigTypeOK /\ TypeInv /\ ConsoleInv

\* The entry after the last one, which the pulse task is about to create.
AtNext == InFirstPage(pulse_address) /\ pulse_address.entry_index = Last + 1

\* The count that the pulse task stores next.
NextCount == IF pc \in PutSteps THEN pulses ELSE pulses + 1

\* While the task works in the first page its address is the last entry, or the one
\* after it that is being created, or that one after the console has closed the
\* handle it was to be created with: the next count then does not move on.
TaskAt ==
    Running /\ InFirstPage(pulse_address) =>
        \/ pulse_address.entry_index = Last
        \/ AtNext /\ pc \in {"open", "set"}
        \/ AtNext /\ console = "restart" /\ ~EntryWorn(NextCount, Offset)
        \/ ~HasRoom(1)

\* The console stores in an entry that exists or in the one the task is creating.
ConsoleAt ==
    console \in {"open", "set"} /\ InFirstPage(target) =>
        \/ target.entry_index \in Written
        \/ target = pulse_address /\ AtNext /\ pc \in {"open", "set"}
        \/ ~HasRoom(1)

\* A store that the console makes fail is the first one in its entry, or the console
\* has created the entry itself.
FailsOnce ==
    /\ Running /\ AtNext /\ HasRoom(1)
    /\ \/ console \in {"open", "set"} /\ pc \in {"open", "set"} /\ target # pulse_address
       \/ pc = "set" /\ handle["pulse"] = 0
    => EntryWorn(pulses, Offset)

GapInv == PrefixInv /\ TaskAt /\ ConsoleAt /\ FailsOnce

-----------------------------------------------------------------------------
(* Type correctness *)

\* The steps of the pulse task that Meter has as well; what the others do is
\* PulseSetFails.
LEMMA PulseIsMeterStep == PulseOpen \/ PulseSet \/ PulseOther => [Next]_vars
  BY DEF PulseOpen, PulseSet, PulseOther, Next, TaskStep

\* A boot is over once and for all until the next reset.
LEMMA PulseKeepsRunning == PulseStep /\ Running => Running'
<1> USE DEF Running, BootSteps
<1> SUFFICES ASSUME PulseStep, Running PROVE Running'
  OBVIOUS
<1>1. CASE PulseOpen
  BY <1>1 DEF PulseOpen, SaveOpen, PutReturns
<1>2. CASE PulseSet
  BY <1>2 DEF PulseSet, SaveSet, PutReturns
<1>3. CASE PulseSetFails
  BY <1>3 DEF PulseSetFails, PutReturns
<1>4. CASE PulseOther
  BY <1>4 DEF PulseOther, pulse_isr_init, CreateSemaphore, SearchPartition,
              ReadPageIndex, ReadCount, PublishHigh, PublishLow, TakeSemaphore,
              SampleHigh, SampleLow, PutAddress, FlashFull, EndHoldoff, PulseEdge, taskVars
<1> QED
  BY <1>1, <1>2, <1>3, <1>4 DEF PulseStep

\* The console's put_nvs never moves the address: it counts the value it stores from
\* that value, and EntryWorn leaves out the count it starts from.
LEMMA ConsoleStaysPut ==
    ASSUME ConfigTypeInv
    PROVE  initial_pulses \in Nat /\ ~EntryWorn(initial_pulses, initial_pulses)
<1>1. INITIAL_ENERGY * IMPULSE_CONVERSION \in Int
  BY MeterAssumption DEF ConfigTypeInv, TypeInv, TypeOK
<1>2. initial_pulses \in Nat
  <2>1. \A n \in Int : (n \div 100) % UINT32 \in 0 .. (UINT32 - 1)
    BY UintAssumption, Division
  <2> QED
    BY <1>1, <2>1, UintAssumption DEF initial_pulses, writes_offset
<1>3. writes_count(initial_pulses, initial_pulses) = 0
  <2>1. \A n \in Nat : n - n = 0
    OBVIOUS
  <2>2. 0 % UINT32 = 0
    BY UintAssumption, Division
  <2> HIDE DEF initial_pulses
  <2> QED
    BY <1>2, <2>1, <2>2 DEF writes_count
<1> QED
  BY <1>2, <1>3 DEF EntryWorn

\* A node that has never counted, with no command given.
LEMMA ConfigTypeInit == ConfigInit => ConfigTypeInv
<1> SUFFICES ASSUME ConfigInit PROVE ConfigTypeInv
  OBVIOUS
<1>1. TypeInv /\ TypeOK
  BY TypeInvInit DEF ConfigInit, TypeInv
<1>2. /\ NoAddress \in AddressVar
      /\ 0 \in 0 .. MAX_PARTITIONS
      /\ 0 \in 0 .. MaxSaves
  BY GeometryAssumption, ConfigAssumption DEF NoAddress, ZeroAddress, AddressVar, Entries
<1>3. ConfigTypeOK
  BY <1>1, <1>2, ConfigAssumption DEF ConfigInit, ConfigTypeOK, TypeOK
<1>4. ConsoleInv
  BY DEF ConfigInit, Init, PoweredOn, ConsoleInv
<1> QED
  BY <1>1, <1>3, <1>4 DEF ConfigTypeInv

\* No step of the pulse task, the console or a reset breaks the types.
LEMMA ConfigTypeStep == ConfigTypeInv /\ [ConfigNext]_allVars => ConfigTypeInv'
<1> SUFFICES ASSUME ConfigTypeInv, [ConfigNext]_allVars PROVE ConfigTypeInv'
  OBVIOUS
<1>type. /\ TypeInv /\ TypeOK /\ FlashTypeOK /\ ConsoleInv /\ BootInv
         /\ handle \in [Writers -> 0 .. MAX_PARTITIONS]
         /\ "pulse" \in Writers /\ "console" \in Writers
  BY DEF ConfigTypeInv, ConfigTypeOK, TypeInv, TypeOK, Writers
<1>handle. ASSUME NEW p \in 0 .. MAX_PARTITIONS, NEW w \in Writers
           PROVE  /\ Opened(w, p) => handle' \in [Writers -> 0 .. MAX_PARTITIONS]
                  /\ Deinit(p) => handle' \in [Writers -> 0 .. MAX_PARTITIONS]
  BY <1>type, GeometryAssumption DEF Opened, Deinit
<1>zero. /\ ZeroAddress \in AddressVar
         /\ [w \in Writers |-> 0] \in [Writers -> 0 .. MAX_PARTITIONS]
         /\ PoweredOn.pc \in Steps
  BY GeometryAssumption DEF ZeroAddress, AddressVar, Entries, PoweredOn, Steps, BootSteps
<1>1. CASE PulseStep
  <2>1. CASE PulseOpen
    <3>1. TypeInv'
      BY <1>type, <2>1, PulseIsMeterStep, TypeInvStep
    <3>2. handle' \in [Writers -> 0 .. MAX_PARTITIONS]
      <4>1. pulse_address.partition \in 0 .. MAX_PARTITIONS
        BY <1>type DEF TypeOK, AddressVar
      <4> QED
        BY <1>type, <1>handle, <2>1, <4>1 DEF PulseOpen
    <3>3. pc' = "set" => handle'["pulse"] # 0
      <4>1. pc = "open" /\ pulse_address.partition # 0
        BY <1>type, <2>1, GeometryAssumption
        DEF PulseOpen, SaveOpen, BootInv, Running, BootSteps, Address, Partitions
      <4> QED
        BY <1>type, <2>1, <4>1 DEF PulseOpen, Opened
    <3>4. overlap' \in BOOLEAN
      BY <1>1 DEF PulseStep, ConfigTypeInv, ConfigTypeOK
    <3> QED
      BY <1>1, <1>type, <3>1, <3>2, <3>3, <3>4, PulseKeepsRunning
      DEF PulseStep, consoleVars, ConfigTypeInv, ConfigTypeOK, ConsoleInv, TypeInv
  <2>2. CASE PulseSet
    <3>1. TypeInv'
      BY <1>type, <2>2, PulseIsMeterStep, TypeInvStep
    <3>2. handle' \in [Writers -> 0 .. MAX_PARTITIONS] /\ pc' # "set"
      <4>1. pulse_address.partition \in 0 .. MAX_PARTITIONS
        BY <1>type DEF TypeOK, AddressVar
      <4> QED
        BY <1>type, <1>handle, <2>2, <4>1 DEF PulseSet, SaveSet, PutReturns
    <3>4. overlap' \in BOOLEAN
      BY <1>1 DEF PulseStep, ConfigTypeInv, ConfigTypeOK
    <3> QED
      BY <1>1, <1>type, <3>1, <3>2, <3>4, PulseKeepsRunning
      DEF PulseStep, consoleVars, ConfigTypeInv, ConfigTypeOK, ConsoleInv, TypeInv
  <2>3. CASE PulseSetFails
    <3>1. TypeInv'
      BY <1>type, <2>3
      DEF PulseSetFails, PutReturns, flashVars, TypeInv, TypeOK, FlashTypeOK, BootInv,
          Running, BootSteps, Steps, LoopSteps, PublishSteps
    <3>4. overlap' \in BOOLEAN
      BY <1>1 DEF PulseStep, ConfigTypeInv, ConfigTypeOK
    <3> QED
      BY <1>1, <1>type, <2>3, <3>1, <3>4, PulseKeepsRunning
      DEF PulseSetFails, PutReturns, PulseStep, consoleVars, ConfigTypeInv, ConfigTypeOK,
          ConsoleInv, TypeInv
  <2>4. CASE PulseOther
    <3>1. TypeInv'
      BY <1>type, <2>4, PulseIsMeterStep, TypeInvStep
    <3>2. handle' = handle /\ (pc' = "set" => pc = "set")
      BY <2>4
      DEF PulseOther, pulse_isr_init, CreateSemaphore, SearchPartition,
          ReadPageIndex, ReadCount, PublishHigh, PublishLow, TakeSemaphore,
          SampleHigh, SampleLow, PutAddress, FlashFull, EndHoldoff, PulseEdge, taskVars
    <3>4. overlap' \in BOOLEAN
      BY <1>1 DEF PulseStep, ConfigTypeInv, ConfigTypeOK
    <3> QED
      BY <1>1, <1>type, <3>1, <3>2, <3>4, PulseKeepsRunning
      DEF PulseStep, consoleVars, ConfigTypeInv, ConfigTypeOK, ConsoleInv, TypeInv
  <2> QED
    BY <1>1, <2>1, <2>2, <2>3, <2>4 DEF PulseStep
\* Steps of the console that do not touch the state of Meter.
<1>meter. ASSUME UNCHANGED vars
          PROVE  TypeInv' /\ (Running' <=> Running) /\ pc' = pc
  <2>1. TypeInv'
    BY <1>meter, <1>type, TypeInvStep
  <2> QED
    BY <1>meter, <2>1 DEF vars, Running
<1>2. ASSUME NEW e \in InitialEnergies, SetAux(e)
      PROVE  ConfigTypeInv'
  BY <1>2, <1>type, <1>meter
  DEF SetAux, ConfigTypeInv, ConfigTypeOK, ConsoleInv, TypeInv
<1>3. CASE SaveConfig
  <2>1. saves' \in 0 .. MaxSaves /\ INITIAL_E' \in InitialEnergies
    BY <1>3, ConfigAssumption DEF SaveConfig, ConfigTypeInv, ConfigTypeOK
  <2> QED
    BY <1>3, <1>type, <1>meter, <2>1
    DEF SaveConfig, StoreSteps, ConfigTypeInv, ConfigTypeOK, ConsoleInv, TypeInv
<1>4. CASE SetEnergy
  <2>1. TypeInv'
    BY <1>4, <1>type
    DEF SetEnergy, flashVars, ConfigTypeInv, ConfigTypeOK, TypeInv, TypeOK, FlashTypeOK,
        BootInv, Running
  <2> QED
    BY <1>4, <1>type, <2>1
    DEF SetEnergy, ConfigTypeInv, ConfigTypeOK, ConsoleInv, TypeInv, Running
<1>5. CASE ConsolePut
  <2>1. pulse_address' = pulse_address /\ target' = pulse_address
    BY <1>5, ConsoleStaysPut DEF ConsolePut
  <2>2. pulse_address \in Address /\ pulse_address \in AddressVar /\ Running
    BY <1>5, <1>type DEF ConsolePut, BootInv, TypeOK, ConsoleInv
  <2>3. TypeInv'
    BY <1>5, <1>type, <2>1
    DEF ConsolePut, flashVars, TypeInv, TypeOK, FlashTypeOK, BootInv, Running
  <2>4. overlap' \in BOOLEAN /\ counted' \in Nat
    BY <1>5, <1>type DEF ConsolePut, TypeOK
  <2> QED
    BY <1>5, <1>type, <2>1, <2>2, <2>3, <2>4
    DEF ConsolePut, StoreSteps, ConfigTypeInv, ConfigTypeOK, ConsoleInv, TypeInv, Running
<1>6. CASE ConsoleOpen
  <2> DEFINE p == target.partition
             g == target.page
  <2>1. /\ p \in Partitions /\ g \in Pages /\ p \in 0 .. MAX_PARTITIONS
        /\ 1 \in Partitions
    BY <1>6, <1>type, GeometryAssumption DEF ConsoleOpen, ConsoleInv, Address, Partitions
  <2>2. /\ namespaces' \in [Partitions -> SUBSET Pages]
        /\ 1 \in namespaces[1] => 1 \in namespaces'[1]
        /\ used' \in [Partitions -> Nat]
    BY <1>6, <1>type, <2>1 DEF ConsoleOpen, OpenPage, FlashTypeOK
  <2>3. TypeInv'
    BY <1>6, <1>type, <2>2
    DEF ConsoleOpen, ghostVars, taskVars, TypeInv, TypeOK, FlashTypeOK, BootInv, Running
  <2>4. handle' \in [Writers -> 0 .. MAX_PARTITIONS]
    BY <1>6, <1>type, <1>handle, <2>1 DEF ConsoleOpen
  <2>5. handle'["pulse"] = handle["pulse"]
    BY <1>6, <1>type DEF ConsoleOpen, Opened
  <2> QED
    BY <1>6, <1>type, <2>3, <2>4, <2>5
    DEF ConsoleOpen, StoreSteps, taskVars, ConfigTypeInv, ConfigTypeOK, ConsoleInv,
        TypeInv, Running
<1>7. CASE ConsoleSet
  <2>1. target \in Address /\ target.partition \in Partitions
    BY <1>7, <1>type DEF ConsoleSet, ConsoleInv, Address
  <2>2. initial_pulses \in Nat
    BY ConsoleStaysPut
  <2>3. /\ nvs' \in [Address -> Nat \cup {NotFound}]
        /\ used' \in [Partitions -> Nat]
        /\ saved' \in Nat
        /\ savedAt' \in Address \cup {NoAddress}
        /\ writes' \in [Address -> Nat]
    <3>1. CASE UNCHANGED <<nvs, used, ghostVars>>
      BY <1>type, <3>1 DEF ghostVars, FlashTypeOK
    <3>2. CASE WriteEntry(target, initial_pulses)
      <4> HIDE DEF initial_pulses
      <4> QED
        BY <1>type, <2>1, <2>2, <3>2 DEF WriteEntry, FlashTypeOK
    <3> QED
      BY <1>7, <3>1, <3>2 DEF ConsoleSet
  <2>4. TypeInv'
    BY <1>7, <1>type, <2>3
    DEF ConsoleSet, taskVars, TypeInv, TypeOK, FlashTypeOK, BootInv, Running
  <2>5. handle' \in [Writers -> 0 .. MAX_PARTITIONS]
    <3>1. target.partition \in 0 .. MAX_PARTITIONS
      BY <2>1, GeometryAssumption DEF Partitions
    <3> QED
      BY <1>7, <1>type, <1>handle, <3>1 DEF ConsoleSet
  <2> QED
    BY <1>7, <1>type, <2>4, <2>5
    DEF ConsoleSet, StoreSteps, taskVars, ConfigTypeInv, ConfigTypeOK, ConsoleInv,
        TypeInv, Running
<1>8. ASSUME Reboot, restarts' \in 0 .. MaxRestarts
      PROVE  ConfigTypeInv'
  <2>1. FlashTypeOK'
    BY <1>8, <1>type DEF Reboot, flashVars, FlashTypeOK
  <2>2. TypeOK'
    BY <1>8, <1>type, <1>zero, <2>1, MeterAssumption
    DEF Reboot, PoweredOn, ConfigTypeInv, ConfigTypeOK, TypeOK
  <2>3. BootInv' /\ ConsoleInv'
    BY <1>8 DEF Reboot, PoweredOn, BootInv, ConsoleInv, Running, BootSteps
  <2>4. ConfigTypeOK'
    BY <1>8, <1>zero, <2>2, ConfigAssumption
    DEF Reboot, NoAddress, ConfigTypeInv, ConfigTypeOK
  <2> QED
    BY <2>2, <2>3, <2>4 DEF ConfigTypeInv, TypeInv
<1>9. CASE Restart
  BY <1>8, <1>9, <1>type DEF Restart, TypeOK
<1>10. CASE ConfigPowerLoss
  BY <1>8, <1>10, <1>type, MeterAssumption DEF ConfigPowerLoss, TypeOK
<1>11. CASE UNCHANGED allVars
  BY <1>11, <1>type, <1>meter
  DEF allVars, configVars, consoleVars, ConfigTypeInv, ConfigTypeOK, ConsoleInv, TypeInv
<1> QED
  BY <1>1, <1>2, <1>3, <1>4, <1>5, <1>6, <1>7, <1>9, <1>10, <1>11
  DEF ConfigNext, ConsoleStep

\* The state always has its types.
THEOREM ConfigTypeCorrect == ConfigSpec => []ConfigTypeOK
<1>1. ConfigTypeInv => ConfigTypeOK
  BY DEF ConfigTypeInv
<1> QED
  BY <1>1, ConfigTypeInit, ConfigTypeStep, PTL DEF ConfigSpec

-----------------------------------------------------------------------------
(* The entries of the first page *)

\* With more than one write an entry, two counts in a row do not both change it.
LEMMA NotWornTwice ==
    ASSUME MAX_WRITES > 1, NEW n \in Nat, NEW offset \in Int, EntryWorn(n, offset)
    PROVE  ~EntryWorn(n + 1, offset)
<1> DEFINE c == (n - offset) % UINT32
           i == (n - offset) \div UINT32
           q == c \div MAX_WRITES
<1>1. /\ c \in 0 .. (UINT32 - 1) /\ i \in Int
      /\ n - offset = UINT32 * i + c
      /\ UINT32 \in Nat \ {0}
  <2> DEFINE m == n - offset
  <2>1. m \in Int /\ UINT32 \in Nat \ {0}
    BY UintAssumption
  <2>2. /\ m % UINT32 \in 0 .. (UINT32 - 1) /\ m \div UINT32 \in Int
        /\ m = UINT32 * (m \div UINT32) + (m % UINT32)
    <3> HIDE DEF m
    <3> QED
      BY <2>1, Division
  <2> QED
    BY <2>1, <2>2
<1>2. c % MAX_WRITES = 0 /\ c > 0
  BY DEF EntryWorn, writes_count
<1>3. q \in Int /\ c = MAX_WRITES * q
  <2>1. c \in Int
    BY <1>1
  <2> HIDE DEF c
  <2>2. q \in Int /\ c = MAX_WRITES * q + (c % MAX_WRITES)
    BY <2>1, GeometryAssumption, Division
  <2>3. MAX_WRITES * q \in Int
    BY <2>2, GeometryAssumption
  <2> HIDE DEF q
  <2> QED
    BY <1>2, <2>2, <2>3
<1> HIDE DEF c, i, q
<1>4. CASE c + 1 < UINT32
  <2>1. /\ c + 1 \in 0 .. (UINT32 - 1)
        /\ (n + 1) - offset = UINT32 * i + (c + 1)
    BY <1>1, <1>4
  <2>2. writes_count(n + 1, offset) = c + 1
    <3> DEFINE d == c + 1
    <3>1. d \in 0 .. (UINT32 - 1) /\ (n + 1) - offset = UINT32 * i + d
      BY <2>1
    <3>2. (UINT32 * i + d) % UINT32 = d
      <4> HIDE DEF d
      <4> QED
        BY <1>1, <3>1, Remainder
    <3> QED
      BY <3>1, <3>2 DEF writes_count
  <2>3. (c + 1) % MAX_WRITES = 1
    <3>1. 1 \in 0 .. (MAX_WRITES - 1)
      BY GeometryAssumption
    <3> QED
      BY <1>3, <3>1, GeometryAssumption, Remainder
  <2> QED
    BY <2>2, <2>3 DEF EntryWorn
<1>5. CASE c + 1 = UINT32
  <2>1. (n + 1) - offset = UINT32 * (i + 1) + 0 /\ i + 1 \in Int /\ 0 \in 0 .. (UINT32 - 1)
    BY <1>1, <1>5
  <2>2. writes_count(n + 1, offset) = 0
    <3> DEFINE j == i + 1
    <3>1. (UINT32 * j + 0) % UINT32 = 0
      <4>1. j \in Int
        BY <2>1
      <4> HIDE DEF j
      <4> QED
        BY <1>1, <2>1, <4>1, Remainder
    <3> QED
      BY <2>1, <3>1 DEF writes_count
  <2> QED
    BY <2>2 DEF EntryWorn
<1> QED
  BY <1>1, <1>4, <1>5

\* A store in an entry of the first page that is written, or in the one after them.
LEMMA StoreInFirst ==
    ASSUME FlashTypeOK, PrefixInv, Written # {}, NEW e \in Entries, e <= Last + 1,
           NEW v \in Nat, nvs' = [nvs EXCEPT ![First(e)] = v]
    PROVE  /\ Written' = 0 .. Last'
           /\ Last' = (IF e = Last + 1 THEN e ELSE Last)
           /\ Last' \in Entries
           /\ nvs'[First(e)] = v
<1> DEFINE k == IF e = Last + 1 THEN e ELSE Last
<1>last. Written = 0 .. Last /\ Last \in Entries
  BY LastOfPrefix
<1>1. ASSUME NEW i \in Entries
      PROVE  i \in Written' <=> i \in Written \/ i = e
  <2>1. i \in Written' <=> nvs'[First(i)] # NotFound
    BY DEF Written, WrittenIn, First
  <2>2. i \in Written <=> nvs[First(i)] # NotFound
    BY WrittenDef
  <2>3. i # e => First(i) # First(e)
    BY DEF First, At
  <2>4. First(i) \in Address
    BY FirstPageIsAddress
  <2> QED
    BY <2>1, <2>2, <2>3, <2>4, NotFoundAssumption DEF FlashTypeOK
<1>2. k \in Entries /\ k \in Nat /\ Last \in Nat /\ e \in Nat
  BY <1>last, GeometryAssumption DEF Entries
<1>3. Written' = 0 .. k
  <2>1. Written' \subseteq Entries
    BY DEF Written, WrittenIn
  <2>2. ASSUME NEW i \in Int
        PROVE  i \in 0 .. k <=> i \in Entries /\ (i \in 0 .. Last \/ i = e)
    BY <1>2, GeometryAssumption DEF Entries
  <2>3. 0 .. k \subseteq Int /\ Entries \subseteq Int
    BY DEF Entries
  <2> HIDE DEF k
  <2> QED
    BY <1>1, <1>last, <2>1, <2>2, <2>3
<1>4. Last' = k
  <2> HIDE DEF k
  <2>1. 0 .. k # {} /\ Cardinality(0 .. k) - 1 = k
    BY <1>2, PrefixCardinality
  <2> QED
    BY <1>3, <2>1 DEF Written, Last, LastEntry
<1>5. nvs'[First(e)] = v
  BY FirstPageIsAddress DEF FlashTypeOK
<1> QED
  BY <1>2, <1>3, <1>4, <1>5

\* A store elsewhere.
LEMMA StoreElsewhere ==
    ASSUME FlashTypeOK, NEW a \in Address, ~InFirstPage(a), NEW v,
           nvs' = [nvs EXCEPT ![a] = v]
    PROVE  Written' = Written /\ Last' = Last /\ Stored' = Stored
<1>1. \A i \in Entries : First(i) # a
  BY DEF First, At, InFirstPage
<1>2. \A i \in Entries : nvs'[First(i)] = nvs[First(i)]
  BY <1>1, FirstPageIsAddress DEF FlashTypeOK
<1>3. Written' = Written
  BY <1>2 DEF Written, WrittenIn, First
<1>4. Last' = Last /\ Last \in Entries
  BY <1>3, LastEntryType, GeometryAssumption
  DEF Written, Last, LastEntry, Partitions, Pages
<1> QED
  BY <1>2, <1>3, <1>4 DEF Stored

\* Once the node has booted there is a count to come back to.
LEMMA StoredType ==
    ASSUME FlashTypeOK, PrefixInv, Written # {}
    PROVE  Stored \in Nat
<1>1. Written = 0 .. Last /\ Last \in Entries
  BY LastOfPrefix
<1>2. Last \in Written
  BY <1>1, GeometryAssumption DEF Entries
<1>3. Stored # NotFound /\ First(Last) \in Address
  BY <1>1, <1>2, WrittenDef, FirstPageIsAddress DEF Stored
<1> QED
  BY <1>3 DEF Stored, FlashTypeOK

\* The boot reads the last entry of the first page, or creates the first one.
LEMMA BootReads ==
    ASSUME TypeInv, PrefixInv, ReadCount
    PROVE  /\ Written' = 0 .. Last'
           /\ Last' \in Entries
           /\ pulse_address' = First(Last')
           /\ pulses' = Stored'
<1> DEFINE a == First(Last)
<1>part. 1 \in Partitions /\ 1 \in Pages /\ 0 \in Entries
  BY GeometryAssumption DEF Partitions, Pages, Entries
<1>flash. FlashTypeOK
  BY DEF TypeInv, TypeOK
<1>1. pulse_address.partition = 1 /\ PageIndex(1) = 1
  BY <1>flash, <1>part DEF ReadCount, PageIndex, FlashTypeOK, TypeInv, BootInv
<1>2. /\ get_pulse_counter_info(1, 1)
      /\ pulse_address' = a
      /\ pulses' = IF nvs[a] = NotFound THEN 0 ELSE nvs[a]
  BY <1>1 DEF ReadCount, First, Last
<1>3. Last \in Entries /\ a \in Address
  BY <1>part, LastEntryType, FirstPageIsAddress DEF Last
<1>4. CASE nvs[a] # NotFound
  <2>1. nvs' = nvs
    BY <1>flash, <1>2, <1>3, <1>4 DEF get_pulse_counter_info, First, Last, FlashTypeOK
  <2>2. Written' = Written /\ Last' = Last /\ Stored' = Stored
    BY <2>1 DEF Written, WrittenIn, Last, LastEntry, Stored
  <2>3. Written # {}
    BY <1>3, <1>4, WrittenDef
  <2> QED
    BY <1>2, <1>3, <1>4, <2>2, <2>3, LastOfPrefix DEF Stored
<1>5. CASE nvs[a] = NotFound
  <2>1. Written = {} /\ Last = 0
    BY <1>3, <1>5, LastOfPrefix, WrittenDef, GeometryAssumption DEF Entries
  <2>2. nvs' = [nvs EXCEPT ![First(0)] = 0]
    BY <1>2, <1>5, <2>1 DEF get_pulse_counter_info, First, Last
  <2>3. ASSUME NEW i \in Entries
        PROVE  i \in Written' <=> i = 0
    <3>1. i \in Written' <=> nvs'[First(i)] # NotFound
      BY DEF Written, WrittenIn, First
    <3>2. i \in Written <=> nvs[First(i)] # NotFound
      BY WrittenDef
    <3>3. i # 0 => First(i) # First(0)
      BY DEF First, At
    <3>4. First(i) \in Address
      BY FirstPageIsAddress
    <3> QED
      BY <1>flash, <2>1, <2>2, <3>1, <3>2, <3>3, <3>4, NotFoundAssumption
      DEF FlashTypeOK
  <2>4. Written' \subseteq Entries
    BY DEF Written, WrittenIn
  <2>5. Written' = 0 .. 0
    BY <1>part, <2>3, <2>4
  <2>6. Last' = 0
    BY <1>part, <2>5, PrefixCardinality DEF Written, Last, LastEntry
  <2>7. Stored' = 0
    BY <1>flash, <1>3, <2>1, <2>2, <2>6 DEF Stored, FlashTypeOK
  <2> QED
    BY <1>part, <1>2, <1>5, <2>1, <2>5, <2>6, <2>7
<1> QED
  BY <1>4, <1>5

-----------------------------------------------------------------------------
(* No gap *)

LEMMA GapInit == ConfigInit => GapInv
<1> SUFFICES ASSUME ConfigInit PROVE GapInv
  OBVIOUS
<1>1. PrefixInv
  BY StoreInvInit DEF ConfigInit, StoreInv
<1>2. ~Running /\ console = "idle"
  BY DEF ConfigInit, Init, PoweredOn, Running, BootSteps
<1> QED
  BY <1>1, <1>2 DEF GapInv, TaskAt, ConsoleAt, FailsOnce

\* Every step of the pulse task leaves no gap.
LEMMA GapPulseStep ==
    ASSUME MAX_WRITES > 1
    PROVE  ConfigTypeInv /\ ConfigTypeInv' /\ GapInv /\ PulseStep => GapInv'
<1> SUFFICES ASSUME ConfigTypeInv, ConfigTypeInv', GapInv, PulseStep PROVE GapInv'
  OBVIOUS
<1>type. /\ TypeInv /\ TypeOK /\ FlashTypeOK /\ ConsoleInv /\ BootInv
         /\ "pulse" \in Writers /\ pulses \in Nat /\ Last \in Entries
         /\ handle \in [Writers -> 0 .. MAX_PARTITIONS]
         /\ 1 \in Partitions /\ Entries \subseteq Nat
  <2>1. 1 \in Partitions /\ 1 \in Pages /\ Entries \subseteq Nat
    BY GeometryAssumption DEF Partitions, Pages, Entries
  <2> QED
    BY <2>1, LastEntryType DEF ConfigTypeInv, ConfigTypeOK, TypeInv, TypeOK, Writers, Last
<1>gap. PrefixInv /\ TaskAt /\ ConsoleAt /\ FailsOnce
  BY DEF GapInv
<1>console. UNCHANGED <<console, target>>
  BY DEF PulseStep, consoleVars
<1>running. (Running => Running') /\ (console # "idle" => Running)
  BY <1>type, PulseKeepsRunning DEF ConsoleInv
<1>same. ASSUME UNCHANGED nvs
         PROVE  Written' = Written /\ Last' = Last /\ (PrefixInv /\ Running => PrefixInv')
  <2>1. Written' = Written /\ Last' = Last
    BY <1>same DEF Written, WrittenIn, Last, LastEntry
  <2> QED
    BY <2>1 DEF PrefixInv
<1>offset. ASSUME UNCHANGED INITIAL_ENERGY
           PROVE  Offset' = Offset
  BY <1>offset DEF Offset
<1> HIDE DEF Offset
\* Steps away from put_nvs's stores.
<1>away. ASSUME UNCHANGED <<nvs, used, pulse_address, handle, INITIAL_ENERGY>>, Running,
                pc' \in {"open", "set"} <=> pc \in {"open", "set"},
                pc' = "set" <=> pc = "set",
                pc \in {"open", "set"} => pulses' = pulses,
                NextCount' = NextCount
         PROVE  GapInv'
  <2>1. /\ Written' = Written /\ Last' = Last /\ PrefixInv'
        /\ Offset' = Offset /\ (AtNext' <=> AtNext) /\ (HasRoom(1)' <=> HasRoom(1))
    BY <1>away, <1>same, <1>offset, <1>gap DEF AtNext, HasRoom
  <2>2. TaskAt'
    BY <1>away, <1>console, <1>gap, <1>running, <2>1 DEF TaskAt
  <2>3. ConsoleAt'
    BY <1>away, <1>console, <1>gap, <2>1 DEF ConsoleAt
  <2>4. FailsOnce'
    BY <1>away, <1>console, <1>gap, <1>running, <2>1 DEF FailsOnce
  <2> QED
    BY <2>1, <2>2, <2>3, <2>4 DEF GapInv
\* Steps of the boot.
<1>boot. ASSUME UNCHANGED nvs, ~Running, ~Running'
         PROVE  GapInv'
  <2>1. PrefixInv'
    BY <1>boot, <1>same, <1>gap DEF PrefixInv
  <2> QED
    BY <1>boot, <1>console, <1>running, <2>1 DEF GapInv, TaskAt, ConsoleAt, FailsOnce
<1> USE DEF Running, BootSteps
<1>1. CASE pulse_isr_init \/ CreateSemaphore \/ SearchPartition \/ ReadPageIndex
  BY <1>1, <1>boot DEF pulse_isr_init, CreateSemaphore, SearchPartition, ReadPageIndex,
                       flashVars
<1>2. CASE PulseEdge /\ PulseOther
  <2>1. CASE Running
    BY <1>2, <1>away, <2>1
    DEF PulseEdge, PulseOther, flashVars, taskVars, NextCount, PutSteps,
        pulse_isr_init, CreateSemaphore, SearchPartition, ReadPageIndex, ReadCount,
        PublishHigh, PublishLow, TakeSemaphore, SampleHigh, SampleLow, PutAddress,
        FlashFull, EndHoldoff
  <2>2. CASE ~Running
    BY <1>2, <1>boot, <2>2 DEF PulseEdge, flashVars, taskVars
  <2> QED
    BY <2>1, <2>2
<1>3. CASE (PublishHigh \/ PublishLow \/ TakeSemaphore \/ SampleLow \/ EndHoldoff)
           /\ UNCHANGED handle
  BY <1>3, <1>away
  DEF PublishHigh, PublishLow, TakeSemaphore, SampleLow, EndHoldoff, flashVars,
      NextCount, PutSteps
<1>4. CASE SampleHigh /\ UNCHANGED handle
  BY <1>4, <1>away DEF SampleHigh, flashVars, NextCount, PutSteps
<1>5. CASE ReadCount
  <2>1. /\ Written' = 0 .. Last'
        /\ Last' \in Entries
        /\ pulse_address' = First(Last')
    BY <1>5, <1>type, <1>gap, BootReads
  <2>n. Last' \in Nat
    BY <1>type, <2>1
  <2>2. PrefixInv' /\ Written' # {}
    <3>1. Written' # {}
      BY <2>1, <2>n
    <3> QED
      BY <2>1, <3>1 DEF PrefixInv
  <2>3. pulse_address'.entry_index = Last' /\ Last' # Last' + 1
    <3>1. \A i : First(i).entry_index = i
      BY DEF First, At
    <3>2. \A i \in Nat : i # i + 1
      OBVIOUS
    <3> QED
      BY <2>1, <2>n, <3>1, <3>2
  <2>4. TaskAt' /\ FailsOnce'
    BY <2>3 DEF TaskAt, FailsOnce, AtNext
  <2>5. ConsoleAt'
    BY <1>5, <1>console, <1>running DEF ReadCount, ConsoleAt
  <2> QED
    BY <2>2, <2>4, <2>5 DEF GapInv
<1>6. CASE PutAddress /\ UNCHANGED handle
  <2>1. /\ Written' = Written /\ Last' = Last /\ PrefixInv' /\ Offset' = Offset
        /\ (HasRoom(1)' <=> HasRoom(1)) /\ Running /\ pulses' = pulses
    BY <1>6, <1>same, <1>offset, <1>gap DEF PutAddress, flashVars, HasRoom
  <2>2. pulse_address \in Address
    BY <1>6, <1>type DEF PutAddress, BootInv
  <2>worn. Worn <=> EntryWorn(pulses, Offset)
    BY DEF Worn, Offset
  \* The address stays, or moves on by one entry or out of the page.
  <2>3. InFirstPage(pulse_address') =>
            /\ InFirstPage(pulse_address)
            /\ pulse_address'.entry_index = IF Worn THEN pulse_address.entry_index + 1
                                                    ELSE pulse_address.entry_index
    <3>1. CASE Worn
      BY <1>6, <2>2, <3>1
      DEF PutAddress, NextAddress, InFirstPage, Address, Partitions, Pages, Entries
    <3>2. CASE ~Worn
      BY <1>6, <3>2 DEF PutAddress
    <3> QED
      BY <3>1, <3>2
  <2>4. InFirstPage(pulse_address) =>
            \/ pulse_address.entry_index = Last
            \/ /\ AtNext /\ console = "restart"
               /\ ~Worn
            \/ ~HasRoom(1)
    BY <1>6, <1>gap, <2>1, <2>worn DEF PutAddress, TaskAt, NextCount, PutSteps
  <2>5. TaskAt'
    BY <1>6, <2>1, <2>3, <2>4 DEF PutAddress, TaskAt, AtNext
  <2>6. ConsoleAt'
    BY <1>6, <1>console, <1>gap, <2>1 DEF PutAddress, ConsoleAt
  <2>7. FailsOnce'
    <3>1. SUFFICES ASSUME AtNext', HasRoom(1), console # "restart"
                   PROVE  EntryWorn(pulses, Offset)
      BY <1>6, <1>console, <2>1 DEF PutAddress, FailsOnce
    <3>2. InFirstPage(pulse_address) /\ pulse_address.entry_index = Last
      BY <2>3, <2>4, <3>1 DEF AtNext
    <3> QED
      BY <1>type, <2>1, <2>3, <2>worn, <3>1, <3>2 DEF AtNext
  <2> QED
    BY <2>1, <2>5, <2>6, <2>7 DEF GapInv
<1>7. CASE FlashFull
  <2>1. ~InFirstPage(pulse_address) /\ pulse_address' = pulse_address
    BY <1>7, GeometryAssumption DEF FlashFull, IsLast, InFirstPage
  <2>2. /\ Written' = Written /\ Last' = Last /\ PrefixInv'
        /\ (HasRoom(1)' <=> HasRoom(1))
    BY <1>7, <1>same, <1>gap DEF FlashFull, flashVars, HasRoom
  <2>3. TaskAt' /\ FailsOnce'
    BY <2>1 DEF TaskAt, FailsOnce, AtNext
  <2>4. ConsoleAt'
    BY <1>console, <1>gap, <2>1, <2>2 DEF ConsoleAt, AtNext
  <2> QED
    BY <2>2, <2>3, <2>4 DEF GapInv
<1>8. CASE PulseOpen
  <2>1. pulse_address \in Address /\ pc = "open" /\ Running /\ Running'
    BY <1>8, <1>type, <1>running DEF PulseOpen, SaveOpen, BootInv
  <2>2. HasRoom(1)' => HasRoom(1)
    <3>1. used'[1] = used[1] \/ used'[1] = used[1] + 1
      BY <1>8, <1>type, <2>1 DEF PulseOpen, SaveOpen, OpenPage, FlashTypeOK, Address
    <3> QED
      BY <1>type, <3>1, CapacityAssumption DEF HasRoom, FlashTypeOK
  <2>3. /\ Written' = Written /\ Last' = Last /\ PrefixInv' /\ Offset' = Offset
        /\ pulse_address' = pulse_address /\ pulses' = pulses /\ (AtNext' <=> AtNext)
    BY <1>8, <1>same, <1>offset, <1>gap, <2>1 DEF PulseOpen, SaveOpen, ghostVars, AtNext
  <2>4. \/ pc' = "set" /\ handle'["pulse"] = pulse_address.partition
        \/ pc' = "publish_high" /\ ~HasRoom(pulse_address.partition)
    BY <1>8, <1>type DEF PulseOpen, SaveOpen, CanOpen, PutReturns, Opened
  <2>5. TaskAt'
    BY <1>console, <1>gap, <2>1, <2>2, <2>3, <2>4
    DEF TaskAt, AtNext, InFirstPage, NextCount, PutSteps
  <2>6. ConsoleAt'
    BY <1>console, <1>gap, <2>1, <2>2, <2>3, <2>4 DEF ConsoleAt, AtNext, InFirstPage
  <2>7. FailsOnce'
    <3>1. pulse_address.partition # 0
      BY <2>1, GeometryAssumption DEF Address, Partitions
    <3> QED
      BY <1>console, <1>gap, <2>1, <2>2, <2>3, <2>4, <3>1 DEF FailsOnce
  <2> QED
    BY <2>3, <2>5, <2>6, <2>7 DEF GapInv
<1>9. CASE PulseSet
  <2> DEFINE e == pulse_address.entry_index
  <2>1. /\ pulse_address \in Address /\ e \in Entries /\ Written # {} /\ Running'
        /\ pulse_address' = pulse_address /\ pc = "set" /\ pc' = "publish_high"
    BY <1>9, <1>type, <1>gap, <1>running
    DEF PulseSet, SaveSet, PutReturns, BootInv, Address, PrefixInv
  <2>2. CASE ~HasRoom(pulse_address.partition)
    <3>1. /\ Written' = Written /\ Last' = Last /\ PrefixInv'
          /\ (HasRoom(1)' <=> HasRoom(1))
      BY <1>9, <1>same, <1>gap, <2>2 DEF PulseSet, SaveSet, HasRoom
    <3>2. TaskAt'
      BY <1>gap, <2>1, <2>2, <3>1 DEF TaskAt, AtNext, InFirstPage
    <3>3. ConsoleAt'
      BY <1>console, <1>gap, <2>1, <2>2, <3>1 DEF ConsoleAt, AtNext, InFirstPage
    <3>4. FailsOnce'
      BY <2>1, <2>2, <3>1 DEF FailsOnce, AtNext, InFirstPage
    <3> QED
      BY <3>1, <3>2, <3>3, <3>4 DEF GapInv
  <2>3. CASE HasRoom(pulse_address.partition) /\ InFirstPage(pulse_address)
    <3>1. pulse_address = First(e) /\ HasRoom(1)
      BY <2>1, <2>3 DEF Address, InFirstPage, First, At
    <3>2. e = Last \/ e = Last + 1
      BY <1>9, <1>gap, <2>1, <2>3, <3>1 DEF TaskAt, AtNext
    <3>3. nvs' = [nvs EXCEPT ![First(e)] = pulses]
      BY <1>9, <2>3, <3>1 DEF PulseSet, SaveSet, WriteEntry
    <3>4. /\ Written' = 0 .. Last' /\ Last' \in Entries /\ Last' = e
      <4>1. e \in Nat /\ Last \in Nat
        BY <1>type, <2>1
      <4>2. e <= Last + 1
        BY <3>2, <4>1
      <4> HIDE DEF e
      <4>3. /\ Written' = 0 .. Last' /\ Last' \in Entries
            /\ Last' = (IF e = Last + 1 THEN e ELSE Last)
        BY <1>type, <1>gap, <2>1, <3>3, <4>2, StoreInFirst
      <4> QED
        BY <3>2, <4>3
    <3>5. PrefixInv' /\ TaskAt' /\ FailsOnce'
      <4>1. e \in Nat /\ Last' \in Nat
        BY <1>type, <2>1, <3>4
      <4>2. Written' # {}
        BY <3>4, <4>1
      <4>3. PrefixInv'
        BY <3>4, <4>2 DEF PrefixInv
      <4>4. ~AtNext' /\ pulse_address'.entry_index = Last'
        BY <2>1, <3>4, <4>1 DEF AtNext
      <4> QED
        BY <4>3, <4>4 DEF TaskAt, FailsOnce
    <3>6. ConsoleAt'
      <4>1. SUFFICES ASSUME console \in {"open", "set"}, InFirstPage(target),
                            target.entry_index \in Written
                              \/ target = pulse_address
                     PROVE  target.entry_index \in Written'
        BY <1>console, <1>gap, <3>1 DEF ConsoleAt
      <4>2. Written = 0 .. Last /\ Last \in Entries
        BY <1>gap, <2>1, LastOfPrefix
      <4> QED
        BY <1>type, <3>2, <3>4, <4>1, <4>2
    <3> QED
      BY <3>5, <3>6 DEF GapInv
  <2>4. CASE HasRoom(pulse_address.partition) /\ ~InFirstPage(pulse_address)
    <3>1. nvs' = [nvs EXCEPT ![pulse_address] = pulses]
      BY <1>9, <2>4 DEF PulseSet, SaveSet, WriteEntry
    <3>2. Written' = Written /\ Last' = Last
      BY <1>type, <2>1, <2>4, <3>1, StoreElsewhere
    <3>3. PrefixInv' /\ TaskAt' /\ FailsOnce'
      BY <1>gap, <2>1, <2>4, <3>2 DEF PrefixInv, TaskAt, FailsOnce, AtNext
    <3>4. HasRoom(1)' => HasRoom(1)
      <4>1. used'[1] = used[1] \/ used'[1] = used[1] + 1
        BY <1>9, <1>type, <2>1, <2>4 DEF PulseSet, SaveSet, WriteEntry, FlashTypeOK
      <4> QED
        BY <1>type, <4>1, CapacityAssumption DEF HasRoom, FlashTypeOK
    <3>5. ConsoleAt'
      BY <1>console, <1>gap, <2>1, <2>4, <3>2, <3>4 DEF ConsoleAt, AtNext
    <3> QED
      BY <3>3, <3>5 DEF GapInv
  <2> QED
    BY <2>2, <2>3, <2>4
<1>10. CASE PulseSetFails
  <2>1. /\ pc = "set" /\ handle["pulse"] = 0 /\ pc' = "publish_high" /\ Running
        /\ console = "restart" /\ pulse_address' = pulse_address /\ pulses' = pulses
    BY <1>10, <1>type DEF PulseSetFails, PutReturns, ConsoleInv
  <2>2. /\ Written' = Written /\ Last' = Last /\ PrefixInv' /\ Offset' = Offset
        /\ (HasRoom(1)' <=> HasRoom(1)) /\ (AtNext' <=> AtNext)
    BY <1>10, <1>same, <1>offset, <1>gap, <2>1
    DEF PulseSetFails, flashVars, HasRoom, AtNext
  <2>3. ConsoleAt' /\ FailsOnce'
    BY <1>console, <2>1 DEF ConsoleAt, FailsOnce
  <2>4. NextCount' = pulses + 1
    BY <2>1 DEF NextCount, PutSteps
  <2>5. AtNext /\ HasRoom(1) => ~EntryWorn(pulses + 1, Offset)
    <3>1. Offset \in Int
      <4>1. INITIAL_ENERGY * IMPULSE_CONVERSION \in Int
        BY <1>type, MeterAssumption DEF TypeOK
      <4>2. \A n \in Int : (n \div 100) % UINT32 \in 0 .. (UINT32 - 1)
        BY UintAssumption, Division
      <4> QED
        BY <4>1, <4>2, UintAssumption DEF Offset, writes_offset
    <3>2. AtNext /\ HasRoom(1) => EntryWorn(pulses, Offset)
      BY <1>gap, <2>1 DEF FailsOnce
    <3> QED
      BY <1>type, <3>1, <3>2, NotWornTwice
  <2>6. TaskAt'
    BY <1>console, <1>gap, <2>1, <2>2, <2>4, <2>5 DEF TaskAt
  <2> QED
    BY <2>2, <2>3, <2>6 DEF GapInv
<1> QED
  BY <1>1, <1>2, <1>3, <1>4, <1>5, <1>6, <1>7, <1>8, <1>9, <1>10
  DEF PulseStep, PulseOther

\* Nor does a step of the console or a reset.
LEMMA GapConsoleStep ==
    ConfigTypeInv /\ ConfigTypeInv' /\ GapInv /\ (ConsoleStep \/ ConfigPowerLoss) => GapInv'
<1> SUFFICES ASSUME ConfigTypeInv, ConfigTypeInv', GapInv, ConsoleStep \/ ConfigPowerLoss
             PROVE  GapInv'
  OBVIOUS
<1>type. /\ TypeInv /\ FlashTypeOK /\ ConsoleInv /\ BootInv
         /\ "pulse" \in Writers /\ "console" \in Writers
         /\ Last \in Entries
         /\ handle \in [Writers -> 0 .. MAX_PARTITIONS]
         /\ 1 \in Partitions /\ Entries \subseteq Nat
  <2>1. 1 \in Partitions /\ 1 \in Pages /\ Entries \subseteq Nat
    BY GeometryAssumption DEF Partitions, Pages, Entries
  <2> QED
    BY <2>1, LastEntryType DEF ConfigTypeInv, ConfigTypeOK, TypeInv, TypeOK, Writers, Last
<1>gap. PrefixInv /\ TaskAt /\ ConsoleAt /\ FailsOnce
  BY DEF GapInv
<1>last. Running => Written = 0 .. Last /\ Last \in Written
  <2>1. Running => Written = 0 .. Last
    BY <1>gap, LastOfPrefix DEF PrefixInv
  <2>2. Last \in Nat
    BY <1>type
  <2> QED
    BY <2>1, <2>2
<1>same. ASSUME UNCHANGED nvs
         PROVE  Written' = Written /\ Last' = Last
  BY <1>same DEF Written, WrittenIn, Last, LastEntry
<1>offset. ASSUME UNCHANGED INITIAL_ENERGY
           PROVE  Offset' = Offset
  BY <1>offset DEF Offset
<1> HIDE DEF Offset
\* Steps that leave the state of Meter alone, before the console's put_nvs.
<1>wait. ASSUME UNCHANGED <<vars, handle>>, console = "idle", console' \notin {"open", "set"}
         PROVE  GapInv'
  <2>1. /\ Written' = Written /\ Last' = Last /\ Offset' = Offset
        /\ (AtNext' <=> AtNext) /\ (HasRoom(1)' <=> HasRoom(1))
        /\ NextCount' = NextCount /\ (Running' <=> Running)
        /\ (InFirstPage(pulse_address)' <=> InFirstPage(pulse_address))
    BY <1>wait, <1>same, <1>offset
    DEF vars, flashVars, AtNext, HasRoom, NextCount, Running, InFirstPage
  <2>2. PrefixInv' /\ TaskAt'
    BY <1>wait, <1>gap, <2>1 DEF PrefixInv, TaskAt, vars
  <2>3. ConsoleAt' /\ FailsOnce'
    BY <1>wait, <1>type DEF ConsoleAt, FailsOnce, ConsoleInv, vars
  <2> QED
    BY <2>2, <2>3 DEF GapInv
<1>1. ASSUME NEW e \in InitialEnergies, SetAux(e)
      PROVE  GapInv'
  BY <1>1, <1>wait DEF SetAux
<1>2. CASE SaveConfig
  BY <1>2, <1>wait DEF SaveConfig
<1>3. CASE SetEnergy
  <2>1. /\ Written' = Written /\ Last' = Last
        /\ (AtNext' <=> AtNext) /\ (HasRoom(1)' <=> HasRoom(1)) /\ (Running' <=> Running)
        /\ (InFirstPage(pulse_address)' <=> InFirstPage(pulse_address))
    BY <1>3, <1>same DEF SetEnergy, flashVars, AtNext, HasRoom, Running, InFirstPage
  <2>2. PrefixInv' /\ TaskAt'
    BY <1>3, <1>gap, <2>1 DEF SetEnergy, PrefixInv, TaskAt
  <2>3. ConsoleAt' /\ FailsOnce'
    BY <1>3, <1>type DEF SetEnergy, ConsoleAt, FailsOnce, ConsoleInv
  <2> QED
    BY <2>2, <2>3 DEF GapInv
<1>4. CASE ConsolePut
  <2>1. pulse_address' = pulse_address /\ target' = pulse_address
    BY <1>4, ConsoleStaysPut DEF ConsolePut
  <2>2. /\ Written' = Written /\ Last' = Last
        /\ (AtNext' <=> AtNext) /\ (HasRoom(1)' <=> HasRoom(1)) /\ (Running' <=> Running)
        /\ (InFirstPage(pulse_address)' <=> InFirstPage(pulse_address))
    BY <1>4, <1>same, <2>1
    DEF ConsolePut, flashVars, AtNext, HasRoom, Running, InFirstPage
  <2>3. PrefixInv' /\ TaskAt'
    BY <1>4, <1>gap, <2>1, <2>2 DEF ConsolePut, PrefixInv, TaskAt
  <2>4. ConsoleAt'
    BY <1>4, <1>gap, <1>last, <1>type, <2>1, <2>2
    DEF ConsolePut, ConsoleAt, TaskAt, ConsoleInv
  <2>5. FailsOnce'
    BY <1>4, <1>type, <2>1 DEF ConsolePut, FailsOnce, ConsoleInv
  <2> QED
    BY <2>3, <2>4, <2>5 DEF GapInv
<1>5. CASE ConsoleOpen
  <2>1. target \in Address /\ console = "open"
    BY <1>5, <1>type DEF ConsoleOpen, ConsoleInv
  <2>2. HasRoom(1)' => HasRoom(1)
    <3>1. used'[1] = used[1] \/ used'[1] = used[1] + 1
      BY <1>5, <1>type, <2>1 DEF ConsoleOpen, OpenPage, FlashTypeOK, Address
    <3> QED
      BY <1>type, <3>1, CapacityAssumption DEF HasRoom, FlashTypeOK
  <2>3. /\ Written' = Written /\ Last' = Last /\ Offset' = Offset
        /\ pulse_address' = pulse_address /\ pulses' = pulses /\ pc' = pc
        /\ target' = target /\ console' \in {"set", "restart"}
        /\ (AtNext' <=> AtNext) /\ (Running' <=> Running)
        /\ NextCount' = NextCount /\ handle'["pulse"] = handle["pulse"]
    BY <1>5, <1>type, <1>same, <1>offset
    DEF ConsoleOpen, taskVars, AtNext, Running, NextCount, Opened
  <2>4. PrefixInv' /\ TaskAt'
    BY <1>gap, <2>1, <2>2, <2>3 DEF PrefixInv, TaskAt
  <2>5. ConsoleAt'
    BY <1>gap, <2>1, <2>2, <2>3 DEF ConsoleAt
  <2>6. FailsOnce'
    BY <1>gap, <2>1, <2>2, <2>3 DEF FailsOnce
  <2> QED
    BY <2>4, <2>5, <2>6 DEF GapInv
<1>6. CASE ConsoleSet
  <2> DEFINE e == target.entry_index
  <2>1. /\ target \in Address /\ console = "set" /\ Running /\ e \in Entries
        /\ console' = "restart"
    BY <1>6, <1>type DEF ConsoleSet, ConsoleInv, Address
  <2>2. HasRoom(1)' => HasRoom(1)
    <3>1. used'[1] = used[1] \/ used'[1] = used[1] + 1
      BY <1>6, <1>type, <2>1 DEF ConsoleSet, WriteEntry, FlashTypeOK, Address
    <3> QED
      BY <1>type, <3>1, CapacityAssumption DEF HasRoom, FlashTypeOK
  <2>3. /\ Offset' = Offset /\ pulse_address' = pulse_address /\ pulses' = pulses
        /\ pc' = pc /\ (Running' <=> Running) /\ NextCount' = NextCount
    BY <1>6, <1>offset DEF ConsoleSet, taskVars, Running, NextCount
  <2>4. ConsoleAt'
    BY <2>1 DEF ConsoleAt
  \* What the entries of the first page look like afterwards.
  <2>5. /\ Written' = 0 .. Last' /\ Last' \in Entries
        /\ \/ Last' = Last
           \/ Last' = Last + 1 /\ target = pulse_address /\ InFirstPage(pulse_address)
              /\ pulse_address.entry_index = Last'
    <3>1. CASE UNCHANGED nvs
      BY <1>last, <1>same, <1>type, <2>1, <3>1
    <3>2. CASE WriteEntry(target, initial_pulses) /\ HasRoom(target.partition)
      <4>1. nvs' = [nvs EXCEPT ![target] = initial_pulses] /\ initial_pulses \in Nat
        BY <3>2, ConsoleStaysPut DEF WriteEntry
      <4> HIDE DEF initial_pulses
      <4>2. CASE ~InFirstPage(target)
        BY <1>last, <1>type, <2>1, <4>1, <4>2, StoreElsewhere
      <4>3. CASE InFirstPage(target)
        <5>1. target = First(e) /\ HasRoom(1)
          BY <2>1, <3>2, <4>3 DEF Address, InFirstPage, First, At
        <5>2. \/ e \in Written
              \/ target = pulse_address /\ AtNext
          BY <1>gap, <2>1, <4>3, <5>1 DEF ConsoleAt
        <5>3. e <= Last + 1 /\ (e = Last + 1 => target = pulse_address /\ AtNext)
          <6>1. Last \in Nat /\ e \in Nat
            BY <1>type, <2>1
          <6> QED
            BY <1>last, <2>1, <5>2, <6>1 DEF AtNext
        <5>4. Written # {}
          BY <1>last, <2>1
        <5> HIDE DEF e
        <5>5. /\ Written' = 0 .. Last' /\ Last' \in Entries
              /\ Last' = (IF e = Last + 1 THEN e ELSE Last)
          BY <1>gap, <1>type, <2>1, <4>1, <5>1, <5>3, <5>4, StoreInFirst
        <5> QED
          BY <5>3, <5>5 DEF AtNext
      <4> QED
        BY <4>2, <4>3
    <3> QED
      BY <1>6, <3>1, <3>2 DEF ConsoleSet
  <2>n. Last \in Nat /\ Last' \in Nat
    BY <1>type, <2>5
  <2>6. PrefixInv'
    <3>1. Written' # {}
      BY <2>5, <2>n
    <3> QED
      BY <2>5, <3>1 DEF PrefixInv
  <2>7. CASE Last' = Last
    <3>1. AtNext' <=> AtNext
      BY <2>3, <2>7 DEF AtNext
    <3>2. TaskAt'
      BY <1>gap, <2>1, <2>2, <2>3, <2>7, <3>1 DEF TaskAt
    <3>3. FailsOnce'
      <4>1. SUFFICES ASSUME AtNext, HasRoom(1), pc = "set", handle'["pulse"] = 0
                     PROVE  EntryWorn(pulses, Offset)
        BY <2>1, <2>2, <2>3, <3>1 DEF FailsOnce
      <4>2. CASE target # pulse_address
        BY <1>gap, <2>1, <4>1, <4>2 DEF FailsOnce
      <4>3. CASE target = pulse_address
        \* Either the console has created the entry, or it has closed no handle.
        <5>1. target = First(e) /\ e = Last + 1 /\ target.partition = 1
          BY <2>1, <4>1, <4>3 DEF AtNext, Address, InFirstPage, First, At
        <5>2. CASE handle["console"] # 0
          <6>1. nvs' = [nvs EXCEPT ![First(e)] = initial_pulses]
            BY <1>6, <4>1, <5>1, <5>2 DEF ConsoleSet, WriteEntry
          <6>2. initial_pulses \in Nat
            BY ConsoleStaysPut
          <6>3. Written # {} /\ e <= Last + 1
            BY <1>last, <2>1, <2>n, <5>1
          <6> HIDE DEF e, initial_pulses
          <6>4. Last' = (IF e = Last + 1 THEN e ELSE Last)
            BY <1>gap, <1>type, <2>1, <6>1, <6>2, <6>3, StoreInFirst
          <6> QED
            BY <2>7, <2>n, <5>1, <6>4
        <5>3. CASE handle["console"] = 0
          <6>1. handle' = handle
            BY <1>6, <5>3 DEF ConsoleSet
          <6> QED
            BY <1>type, <1>gap, <2>1, <4>1, <6>1 DEF ConsoleInv, FailsOnce
        <5> QED
          BY <5>2, <5>3
      <4> QED
        BY <4>2, <4>3
    <3> QED
      BY <2>4, <2>6, <3>2, <3>3 DEF GapInv
  <2>8. CASE Last' # Last
    <3>1. pulse_address'.entry_index = Last' /\ ~AtNext'
      BY <2>3, <2>5, <2>8, <2>n DEF AtNext
    <3> QED
      BY <2>4, <2>6, <3>1 DEF GapInv, TaskAt, FailsOnce
  <2> QED
    BY <2>7, <2>8
<1>7. CASE Reboot
  <2>1. ~Running' /\ console' = "idle" /\ UNCHANGED nvs
    BY <1>7 DEF Reboot, PoweredOn, Running, BootSteps, flashVars
  <2>2. PrefixInv'
    BY <1>gap, <1>same, <2>1 DEF PrefixInv
  <2> QED
    BY <2>1, <2>2 DEF GapInv, TaskAt, ConsoleAt, FailsOnce
<1> QED
  BY <1>1, <1>2, <1>3, <1>4, <1>5, <1>6, <1>7
  DEF ConsoleStep, ConfigPowerLoss, Restart

\* Every step leaves no gap.
LEMMA GapStep ==
    ASSUME MAX_WRITES > 1
    PROVE  ConfigTypeInv /\ ConfigTypeInv' /\ GapInv /\ [ConfigNext]_allVars => GapInv'
<1>1. ConfigTypeInv /\ GapInv /\ UNCHANGED allVars => GapInv'
  <2> SUFFICES ASSUME GapInv, UNCHANGED allVars PROVE GapInv'
    OBVIOUS
  <2>1. Written' = Written /\ Last' = Last
    BY DEF allVars, vars, flashVars, Written, WrittenIn, Last, LastEntry
  <2>u. /\ UNCHANGED <<pc, pulses, pulse_address, used, INITIAL_ENERGY>>
        /\ UNCHANGED <<console, target, handle>>
    BY DEF allVars, vars, flashVars, configVars, consoleVars
  <2>o. Offset' = Offset
    BY <2>u DEF Offset
  <2> HIDE DEF Offset
  <2>2. PrefixInv' /\ TaskAt'
    BY <2>1, <2>u, <2>o
    DEF GapInv, PrefixInv, TaskAt, AtNext, NextCount, HasRoom, Running, InFirstPage
  <2>3. ConsoleAt' /\ FailsOnce'
    BY <2>1, <2>u, <2>o
    DEF GapInv, ConsoleAt, FailsOnce, AtNext, HasRoom, Running, InFirstPage
  <2> QED
    BY <2>2, <2>3 DEF GapInv
<1> QED
  BY <1>1, GapPulseStep, GapConsoleStep DEF ConfigNext

\* get_pulse_counter_info can take the number of entries of the first page for the
\* index of the next one, whatever the two tasks do to each other's stores.  With
\* one write an entry it could not: the next pulse after a store that failed would
\* move on past the entry.
THEOREM LeavesNoGap ==
    ASSUME MAX_WRITES > 1
    PROVE  ConfigSpec => []NoGap
<1>1. ConfigTypeInv /\ GapInv => NoGap
  <2> SUFFICES ASSUME GapInv, NEW e \in Entries, NEW f \in Entries,
                      e < f, f \in WrittenIn(1, 1)
               PROVE  e \in WrittenIn(1, 1)
    BY DEF NoGap
  <2>1. PICK k \in Entries : Written = 0 .. k
    BY DEF GapInv, PrefixInv, Written
  <2> QED
    BY <2>1, GeometryAssumption DEF Written, Entries
<1> QED
  BY <1>1, ConfigTypeInit, ConfigTypeStep, GapInit, GapStep, PTL DEF ConfigSpec

-----------------------------------------------------------------------------
(* What a reset costs *)

\* In the first page, with room to write and until the console has stored, the task's
\* count is the stored one, or one more while put_nvs runs.
LostInv ==
    console # "restart" /\ Running /\ InFirstPage(pulse_address) /\ HasRoom(1) =>
        pulses = IF pc \in PutSteps THEN Stored + 1 ELSE Stored

LEMMA LostInit == ConfigInit => LostInv
  BY DEF ConfigInit, Init, PoweredOn, LostInv, Running, BootSteps

LEMMA LostStep == ConfigTypeInv /\ GapInv /\ LostInv /\ [ConfigNext]_allVars => LostInv'
<1> SUFFICES ASSUME ConfigTypeInv, GapInv, LostInv, [ConfigNext]_allVars,
                    console' # "restart"
             PROVE  LostInv'
  BY DEF LostInv
<1>type. TypeInv /\ FlashTypeOK /\ ConsoleInv /\ BootInv /\ pulses \in Nat
         /\ 1 \in Partitions /\ Entries \subseteq Nat
  <2>1. 1 \in Partitions /\ Entries \subseteq Nat
    BY GeometryAssumption DEF Partitions, Entries
  <2> QED
    BY <2>1 DEF ConfigTypeInv, TypeInv, TypeOK
<1>gap. PrefixInv /\ TaskAt
  BY DEF GapInv
<1>stored. ASSUME UNCHANGED nvs
           PROVE  Stored' = Stored
  BY <1>stored DEF Stored, Written, WrittenIn, Last, LastEntry
<1> USE DEF LostInv, Running, BootSteps, PutSteps
<1>reset. CASE Reboot
  BY <1>reset DEF Reboot, PoweredOn
<1>same. ASSUME UNCHANGED <<nvs, used, pc, pulses, pulse_address>>,
                console # "restart"
         PROVE  LostInv'
  BY <1>same, <1>stored DEF HasRoom, InFirstPage
<1>1. CASE ConsoleStep
  <2>1. ASSUME NEW e \in InitialEnergies, SetAux(e)
        PROVE  LostInv'
    BY <2>1, <1>same DEF SetAux, vars, flashVars
  <2>2. CASE SaveConfig \/ SetEnergy
    BY <1>same, <2>2 DEF SaveConfig, SetEnergy, vars, flashVars
  <2>3. CASE ConsolePut
    <3>1. pulse_address' = pulse_address
      BY <2>3, ConsoleStaysPut DEF ConsolePut
    <3> QED
      BY <1>same, <2>3, <3>1 DEF ConsolePut, flashVars
  <2>4. CASE ConsoleOpen
    <3>1. HasRoom(1)' => HasRoom(1)
      <4>1. target \in Address
        BY <1>type, <2>4 DEF ConsoleOpen, ConsoleInv
      <4>2. used'[1] = used[1] \/ used'[1] = used[1] + 1
        BY <1>type, <2>4, <4>1 DEF ConsoleOpen, OpenPage, FlashTypeOK, Address
      <4> QED
        BY <1>type, <4>2, CapacityAssumption DEF HasRoom, FlashTypeOK
    <3> QED
      BY <1>stored, <2>4, <3>1 DEF ConsoleOpen, taskVars, InFirstPage
  <2>5. ~ConsoleSet
    BY DEF ConsoleSet
  <2> QED
    BY <1>1, <1>reset, <2>1, <2>2, <2>3, <2>4, <2>5 DEF ConsoleStep, Restart
<1>2. CASE ConfigPowerLoss
  BY <1>2, <1>reset DEF ConfigPowerLoss
<1>3. CASE UNCHANGED allVars
  <2>1. UNCHANGED <<nvs, used, pc, pulses, pulse_address, console>>
    BY <1>3 DEF allVars, vars, flashVars, configVars, consoleVars
  <2> QED
    BY <1>same, <2>1
<1>4. CASE PulseStep
  <2>idle. console # "restart"
    BY <1>4 DEF PulseStep, consoleVars
  <2>1. CASE pulse_isr_init \/ CreateSemaphore \/ SearchPartition \/ ReadPageIndex
    BY <2>1 DEF pulse_isr_init, CreateSemaphore, SearchPartition, ReadPageIndex
  <2>2. CASE PulseEdge
    BY <1>same, <2>idle, <2>2 DEF PulseEdge, flashVars, taskVars
  <2>3. CASE PublishHigh \/ PublishLow \/ TakeSemaphore \/ SampleHigh \/ SampleLow
             \/ EndHoldoff
    BY <1>stored, <2>idle, <2>3
    DEF PublishHigh, PublishLow, TakeSemaphore, SampleHigh, SampleLow, EndHoldoff,
        flashVars, HasRoom
  <2>4. CASE ReadCount
    <3>1. pulses' = Stored' /\ pc' = "init_high"
      BY <1>type, <1>gap, <2>4, BootReads DEF ReadCount
    <3> QED
      BY <3>1
  <2>5. CASE PutAddress
    <3>1. pulse_address \in Address
      BY <1>type, <2>5 DEF PutAddress, BootInv
    <3>2. InFirstPage(pulse_address') => InFirstPage(pulse_address)
      <4>1. CASE Worn
        BY <2>5, <3>1, <4>1
        DEF PutAddress, NextAddress, InFirstPage, Address, Partitions, Pages, Entries
      <4>2. CASE ~Worn
        BY <2>5, <4>2 DEF PutAddress
      <4> QED
        BY <4>1, <4>2
    <3> QED
      BY <1>stored, <2>idle, <2>5, <3>2 DEF PutAddress, flashVars, HasRoom
  <2>6. CASE FlashFull
    BY <2>6, GeometryAssumption DEF FlashFull, IsLast, InFirstPage
  <2>7. CASE PulseOpen
    <3>1. pulse_address \in Address
      BY <1>type, <2>7 DEF PulseOpen, SaveOpen, BootInv
    <3>2. HasRoom(1)' => HasRoom(1)
      <4>1. used'[1] = used[1] \/ used'[1] = used[1] + 1
        BY <2>7, <1>type, <3>1 DEF PulseOpen, SaveOpen, OpenPage, FlashTypeOK, Address
      <4> QED
        BY <1>type, <4>1, CapacityAssumption DEF HasRoom, FlashTypeOK
    <3>3. pc' = "set" \/ ~HasRoom(pulse_address.partition)
      BY <2>7 DEF PulseOpen, SaveOpen, CanOpen
    <3> QED
      BY <1>stored, <2>idle, <2>7, <3>2, <3>3
      DEF PulseOpen, SaveOpen, ghostVars, InFirstPage
  <2>8. CASE PulseSet
    <3> DEFINE e == pulse_address.entry_index
    <3>1. /\ pulse_address \in Address /\ e \in Entries /\ Written # {}
          /\ pulse_address' = pulse_address /\ pulses' = pulses
          /\ pc = "set" /\ pc' = "publish_high"
      BY <1>type, <1>gap, <2>8
      DEF PulseSet, SaveSet, PutReturns, BootInv, Address, PrefixInv
    <3>2. CASE ~HasRoom(pulse_address.partition)
      BY <2>8, <3>1, <3>2 DEF PulseSet, SaveSet, InFirstPage, HasRoom
    <3>3. CASE HasRoom(pulse_address.partition) /\ InFirstPage(pulse_address)
      <4>1. pulse_address = First(e) /\ HasRoom(1)
        BY <3>1, <3>3 DEF Address, InFirstPage, First, At
      <4>2. e = Last \/ e = Last + 1
        BY <1>gap, <2>idle, <3>1, <3>3, <4>1 DEF TaskAt, AtNext
      <4>3. nvs' = [nvs EXCEPT ![First(e)] = pulses]
        BY <2>8, <3>3, <4>1 DEF PulseSet, SaveSet, WriteEntry
      <4>4. e \in Nat /\ Last \in Entries
        BY <1>gap, <1>type, <3>1, LastOfPrefix
      <4>5. e <= Last + 1 /\ e \in Entries
        BY <1>type, <3>1, <4>2, <4>4
      <4> HIDE DEF e
      <4>6. Last' = (IF e = Last + 1 THEN e ELSE Last) /\ nvs'[First(e)] = pulses
        BY <1>gap, <1>type, <3>1, <4>3, <4>5, StoreInFirst
      <4>7. Stored' = pulses
        BY <4>2, <4>6 DEF Stored
      <4> QED
        BY <3>1, <4>7
    <3>4. CASE ~InFirstPage(pulse_address)
      BY <3>1, <3>4
    <3> QED
      BY <3>2, <3>3, <3>4
  <2>9. ~PulseSetFails
    BY <1>type, <2>idle DEF PulseSetFails, ConsoleInv
  <2> QED
    BY <1>4, <2>1, <2>2, <2>3, <2>4, <2>5, <2>6, <2>7, <2>8, <2>9
    DEF PulseStep, PulseOther
<1> QED
  BY <1>1, <1>2, <1>3, <1>4 DEF ConfigNext

\* Whatever the console has stored, stopped storing or closed under the pulse task is
\* over with its restart: outside a save a reset costs at most the pulse being stored.
THEOREM LosesAtMostOneOutside ==
    ASSUME MAX_WRITES > 1
    PROVE  ConfigSpec => []AtMostOneLostOutsideSave
<1>1. ConfigTypeInv /\ GapInv /\ LostInv => AtMostOneLostOutsideSave
  <2> SUFFICES ASSUME ConfigTypeInv, GapInv, LostInv, Running
               PROVE  RecoveredCount = Stored
    BY DEF AtMostOneLostOutsideSave, AtMostOneLost, LostInv
  <2>1. Stored \in Nat
    BY StoredType DEF GapInv, PrefixInv, ConfigTypeInv, TypeInv, TypeOK
  <2> QED
    BY <2>1, BootReadsFirstPage, NotFoundAssumption DEF Stored, ConfigTypeInv
<1> QED
  BY <1>1, ConfigTypeInit, ConfigTypeStep, GapInit, GapStep, LostInit, LostStep, PTL
  DEF ConfigSpec
-----------------------------------------------------------------------------
(* What a save brings back *)

\* The counter is not full: neither the pulses of a configured energy nor the energy
\* they stand for wraps.
EnergiesFit ==
    \A e \in InitialEnergies :
        LET v == (e * IMPULSE_CONVERSION + 50) \div 100
        IN /\ v < UINT32
           /\ (200 * v + IMPULSE_CONVERSION) \div (2 * IMPULSE_CONVERSION) < UINT32

\* What the console stores is the energy that the next boot will load.
SaveInv ==
    /\ console \in {"idle", "set_energy", "put"} => target = NoAddress
    /\ console = "set_energy" => INITIAL_E = AUX
    /\ console = "put" \/ target # NoAddress => INITIAL_ENERGY = INITIAL_E

\* A count that the pulse task had, in RAM or in the store, since put_nvs began.
TaskCount == Stored \in (counted - 1) .. pulses

\* While the console replaces the count of the first page: before its store the page
\* holds a count of the pulse task, afterwards the console's own, unless the pulse task
\* has been in put_nvs as well.
ReplaceInv ==
    /\ console \in StoreSteps
    /\ InFirstPage(target) /\ InFirstPage(pulse_address) /\ HasRoom(1)
    => /\ counted <= pulses
       /\ pc \in PutSteps => overlap
       /\ console # "restart" => /\ TaskCount
                                 /\ overlap \/ target.entry_index = Last
       /\ console = "set" /\ handle["console"] = 0 => overlap
       /\ console = "restart" => Stored = initial_pulses \/ (overlap /\ TaskCount)

EnergyInv == SaveInv /\ ReplaceInv

\* The pulse task only reads the energy.
LEMMA PulseKeepsEnergy == PulseStep => INITIAL_ENERGY' = INITIAL_ENERGY
<1>1. CASE PulseOpen
  BY <1>1 DEF PulseOpen, SaveOpen
<1>2. CASE PulseSet
  BY <1>2 DEF PulseSet, SaveSet
<1>3. CASE PulseSetFails
  BY <1>3 DEF PulseSetFails
<1>4. CASE PulseOther
  BY <1>4 DEF PulseOther, pulse_isr_init, CreateSemaphore, SearchPartition,
              ReadPageIndex, ReadCount, PublishHigh, PublishLow, TakeSemaphore,
              SampleHigh, SampleLow, PutAddress, FlashFull, EndHoldoff, PulseEdge
<1> QED
  BY <1>1, <1>2, <1>3, <1>4 DEF PulseStep

LEMMA EnergyInit == ConfigInit => EnergyInv
  BY DEF ConfigInit, EnergyInv, SaveInv, ReplaceInv, StoreSteps

\* The energy that SetEnergy takes over is the one that goes into the default partition.
LEMMA SaveStep == ConfigTypeInv /\ SaveInv /\ [ConfigNext]_allVars => SaveInv'
<1> SUFFICES ASSUME ConfigTypeInv, SaveInv, [ConfigNext]_allVars PROVE SaveInv'
  OBVIOUS
<1> USE DEF SaveInv
<1>1. CASE PulseStep
  <2>1. UNCHANGED <<console, target, INITIAL_E, AUX>>
    BY <1>1 DEF PulseStep, consoleVars
  <2>2. INITIAL_ENERGY' = INITIAL_ENERGY
    BY <1>1, PulseKeepsEnergy
  <2> QED
    BY <2>1, <2>2
<1>2. CASE Reboot
  BY <1>2 DEF Reboot
<1>3. ASSUME NEW e \in InitialEnergies, SetAux(e)
      PROVE  SaveInv'
  BY <1>3 DEF SetAux
<1>4. CASE SaveConfig
  BY <1>4 DEF SaveConfig, NewEnergy, vars
<1>5. CASE SetEnergy
  BY <1>5 DEF SetEnergy
<1>6. CASE ConsolePut
  BY <1>6 DEF ConsolePut
<1>7. CASE ConsoleOpen
  <2>1. target # NoAddress
    BY <1>7, GeometryAssumption
    DEF ConsoleOpen, ConfigTypeInv, ConsoleInv, Address, Partitions, NoAddress, ZeroAddress
  <2> QED
    BY <1>7, <2>1 DEF ConsoleOpen
<1>8. CASE ConsoleSet
  BY <1>8 DEF ConsoleSet
<1>9. CASE UNCHANGED allVars
  BY <1>9 DEF allVars, vars, configVars, consoleVars
<1> QED
  BY <1>1, <1>2, <1>3, <1>4, <1>5, <1>6, <1>7, <1>8, <1>9
  DEF ConfigNext, ConsoleStep, Restart, ConfigPowerLoss

\* Under the console's store the pulse task only puts its own count in the page.
LEMMA ReplacePulseStep ==
    ConfigTypeInv /\ GapInv /\ ReplaceInv /\ PulseStep => ReplaceInv'
<1> SUFFICES ASSUME ConfigTypeInv, GapInv, ReplaceInv, PulseStep,
                    console \in StoreSteps, InFirstPage(target),
                    InFirstPage(pulse_address)', HasRoom(1)'
             PROVE  ReplaceInv'
  BY DEF PulseStep, consoleVars, ReplaceInv, InFirstPage
<1>type. /\ TypeInv /\ FlashTypeOK /\ ConsoleInv /\ BootInv
         /\ pulses \in Nat /\ counted \in Nat /\ overlap \in BOOLEAN
         /\ 1 \in Partitions /\ Entries \subseteq Nat
  <2>1. 1 \in Partitions /\ Entries \subseteq Nat
    BY GeometryAssumption DEF Partitions, Entries
  <2> QED
    BY <2>1 DEF ConfigTypeInv, ConfigTypeOK, TypeInv, TypeOK
<1>gap. PrefixInv /\ TaskAt
  BY DEF GapInv
<1>console. /\ UNCHANGED <<console, target, counted>> /\ Running
            /\ overlap \/ pc' \in PutSteps => overlap'
  BY <1>type DEF PulseStep, consoleVars, ConsoleInv, StoreSteps
<1>stored. ASSUME UNCHANGED nvs
           PROVE  Stored' = Stored
  BY <1>stored DEF Stored, Written, WrittenIn, Last, LastEntry
<1>initial. ASSUME UNCHANGED INITIAL_ENERGY
            PROVE  initial_pulses' = initial_pulses
  BY <1>initial DEF initial_pulses
<1> HIDE DEF initial_pulses
\* Steps that store nothing.  An entry that is still the target while the task has not
\* been in put_nvs is the last one: nothing has been created since.
<1>same. ASSUME UNCHANGED <<nvs, INITIAL_ENERGY>>,
                InFirstPage(pulse_address), HasRoom(1),
                pulses' = pulses \/ pulses' = pulses + 1,
                handle'["console"] = handle["console"]
         PROVE  ReplaceInv'
  <2>1. /\ Stored' = Stored /\ Last' = Last /\ initial_pulses' = initial_pulses
        /\ counted <= pulses
    BY <1>same, <1>stored, <1>initial DEF Last, LastEntry, WrittenIn, ReplaceInv
  <2>2. counted <= pulses' /\ (TaskCount => TaskCount')
    BY <1>same, <1>type, <1>console, <2>1 DEF TaskCount
  <2> QED
    BY <1>same, <1>console, <1>type, <2>1, <2>2 DEF ReplaceInv
<1>1. CASE PulseOpen
  <2>1. pulse_address \in Address
    BY <1>type, <1>1, <1>console DEF PulseOpen, SaveOpen, BootInv
  <2>2. HasRoom(1)
    <3>1. used'[1] = used[1] \/ used'[1] = used[1] + 1
      BY <1>1, <1>type, <2>1 DEF PulseOpen, SaveOpen, OpenPage, FlashTypeOK, Address
    <3> QED
      BY <1>type, <3>1, CapacityAssumption DEF HasRoom, FlashTypeOK
  <2>3. handle'["console"] = handle["console"]
    BY <1>1 DEF PulseOpen, Opened, ConfigTypeInv, ConfigTypeOK, Writers
  <2> QED
    BY <1>1, <1>same, <2>2, <2>3 DEF PulseOpen, SaveOpen, InFirstPage
<1>2. CASE PulseSet
  <2> DEFINE e == pulse_address.entry_index
  <2>1. /\ pulse_address \in Address /\ e \in Entries /\ Written # {}
        /\ pulse_address' = pulse_address /\ pulses' = pulses
        /\ pc = "set" /\ INITIAL_ENERGY' = INITIAL_ENERGY
    BY <1>type, <1>gap, <1>2, <1>console
    DEF PulseSet, SaveSet, BootInv, Address, PrefixInv
  <2>2. InFirstPage(pulse_address) /\ pulse_address = First(e)
    BY <2>1 DEF Address, InFirstPage, First, At
  <2>3. HasRoom(1) /\ WriteEntry(pulse_address, pulses)
    <3>1. HasRoom(1)
      <4>1. used'[1] = used[1] \/ used'[1] = used[1] + 1
        BY <1>2, <1>type, <2>1 DEF PulseSet, SaveSet, WriteEntry, FlashTypeOK, Address
      <4> QED
        BY <1>type, <4>1, CapacityAssumption DEF HasRoom, FlashTypeOK
    <3> QED
      BY <1>2, <2>2, <3>1 DEF PulseSet, SaveSet, InFirstPage
  <2>4. overlap /\ counted <= pulses
    BY <2>1, <2>2, <2>3 DEF ReplaceInv, PutSteps
  <2>5. Stored' = pulses
    <3>1. e = Last \/ e = Last + 1
      BY <1>gap, <1>console, <2>2, <2>3 DEF TaskAt, AtNext
    <3>2. nvs' = [nvs EXCEPT ![First(e)] = pulses]
      BY <2>2, <2>3 DEF WriteEntry
    <3>3. e \in Nat /\ Last \in Entries
      BY <1>gap, <1>type, <2>1, LastOfPrefix
    <3>4. e <= Last + 1
      BY <1>type, <3>1, <3>3
    <3> HIDE DEF e
    <3>5. Last' = (IF e = Last + 1 THEN e ELSE Last) /\ nvs'[First(e)] = pulses
      BY <1>gap, <1>type, <2>1, <3>2, <3>4, StoreInFirst
    <3> QED
      BY <3>1, <3>5 DEF Stored
  <2>6. overlap' /\ counted' <= pulses' /\ TaskCount'
    BY <1>type, <1>console, <2>1, <2>4, <2>5 DEF TaskCount
  <2> QED
    BY <2>6 DEF ReplaceInv
<1>3. CASE PulseSetFails
  BY <1>3, <1>same DEF PulseSetFails, flashVars, HasRoom, InFirstPage
<1>4. CASE PulseOther
  <2> USE DEF Running, BootSteps
  <2>1. CASE PublishHigh \/ PublishLow \/ TakeSemaphore \/ SampleHigh \/ SampleLow
             \/ EndHoldoff \/ FlashFull
    BY <1>4, <1>same, <2>1
    DEF PulseOther, PublishHigh, PublishLow, TakeSemaphore, SampleHigh, SampleLow,
        EndHoldoff, FlashFull, flashVars, HasRoom, InFirstPage
  <2>2. CASE PulseEdge
    BY <1>4, <1>same, <2>2 DEF PulseOther, PulseEdge, flashVars, taskVars, HasRoom, InFirstPage
  <2>3. CASE PutAddress
    <3>1. pulse_address \in Address
      BY <1>type, <2>3 DEF PutAddress, BootInv
    <3>2. InFirstPage(pulse_address)
      <4>1. CASE Worn
        BY <2>3, <3>1, <4>1
        DEF PutAddress, NextAddress, InFirstPage, Address, Partitions, Pages, Entries
      <4>2. CASE ~Worn
        BY <2>3, <4>2 DEF PutAddress
      <4> QED
        BY <4>1, <4>2
    <3> QED
      BY <1>4, <1>same, <2>3, <3>2 DEF PulseOther, PutAddress, flashVars, HasRoom
  <2>4. ~(pulse_isr_init \/ CreateSemaphore \/ SearchPartition \/ ReadPageIndex \/ ReadCount)
    BY <1>console
    DEF pulse_isr_init, CreateSemaphore, SearchPartition, ReadPageIndex, ReadCount
  <2> QED
    BY <1>4, <2>1, <2>2, <2>3, <2>4 DEF PulseOther
<1> QED
  BY <1>1, <1>2, <1>3, <1>4 DEF PulseStep

\* The console's put_nvs starts from the task's count, opens the first page, which every
\* boot creates, and replaces the count of the last entry.
LEMMA ReplaceConsoleStep ==
    ConfigTypeInv /\ GapInv /\ LostInv /\ LostInv' /\ EnergyInv /\ ConsoleStep
        => ReplaceInv'
<1> SUFFICES ASSUME ConfigTypeInv, GapInv, LostInv, LostInv', EnergyInv, ConsoleStep,
                    console' \in StoreSteps, InFirstPage(target)',
                    InFirstPage(pulse_address)', HasRoom(1)'
             PROVE  ReplaceInv'
  BY DEF ReplaceInv
<1>energy. SaveInv /\ ReplaceInv
  BY DEF EnergyInv
<1>type. /\ TypeInv /\ FlashTypeOK /\ ConsoleInv /\ BootInv
         /\ pulses \in Nat /\ counted \in Nat /\ overlap \in BOOLEAN
         /\ handle \in [Writers -> 0 .. MAX_PARTITIONS] /\ "console" \in Writers
         /\ 1 \in Partitions /\ Entries \subseteq Nat
  <2>1. 1 \in Partitions /\ Entries \subseteq Nat
    BY GeometryAssumption DEF Partitions, Entries
  <2> QED
    BY <2>1 DEF ConfigTypeInv, ConfigTypeOK, TypeInv, TypeOK, Writers
<1>gap. PrefixInv /\ TaskAt /\ ConsoleAt
  BY DEF GapInv
<1>stored. ASSUME UNCHANGED nvs
           PROVE  Stored' = Stored /\ Last' = Last
  BY <1>stored DEF Stored, Written, WrittenIn, Last, LastEntry
<1>1. CASE ConsolePut
  <2>1. /\ pulse_address' = pulse_address /\ target' = pulse_address
        /\ pulses' = pulses /\ counted' = pulses /\ console' = "open"
        /\ (pc \in PutSteps => overlap') /\ pc' = pc
        /\ InFirstPage(pulse_address) /\ HasRoom(1) /\ Running
        /\ Stored' = Stored /\ Last' = Last
    BY <1>1, <1>type, <1>stored, ConsoleStaysPut
    DEF ConsolePut, ConsoleInv, flashVars, HasRoom, InFirstPage
  <2>2. pulses = IF pc \in PutSteps THEN Stored + 1 ELSE Stored
    BY <1>1, <2>1 DEF ConsolePut, LostInv
  <2>3. Stored \in Nat
    BY <1>gap, <1>type, <2>1, StoredType DEF PrefixInv
  <2>4. TaskCount'
    BY <1>type, <2>1, <2>2, <2>3 DEF TaskCount
  <2>5. overlap' \/ target'.entry_index = Last'
    BY <1>1, <1>gap, <2>1 DEF ConsolePut, TaskAt, PutSteps
  <2> QED
    BY <1>type, <2>1, <2>4, <2>5 DEF ReplaceInv
<1>2. CASE ConsoleOpen
  <2>1. /\ target' = target /\ target.partition = 1 /\ target.page = 1
        /\ InFirstPage(target) /\ InFirstPage(pulse_address) /\ Running
        /\ UNCHANGED <<nvs, pulses, pc, counted, overlap>>
        /\ console = "open"
    BY <1>2, <1>type DEF ConsoleOpen, taskVars, InFirstPage, ConsoleInv
  <2>2. 1 \in namespaces[1]
    BY <1>type, <2>1 DEF BootInv
  <2>3. /\ used' = used /\ console' = "set" /\ handle'["console"] # 0
    BY <1>2, <1>type, <2>1, <2>2, GeometryAssumption
    DEF ConsoleOpen, CanOpen, OpenPage, Opened, FlashTypeOK
  <2>4. Stored' = Stored /\ Last' = Last /\ HasRoom(1)
    BY <1>stored, <2>1, <2>3 DEF HasRoom
  <2> QED
    BY <1>energy, <2>1, <2>3, <2>4 DEF ReplaceInv, StoreSteps, TaskCount
<1>3. CASE ConsoleSet
  <2> DEFINE e == target.entry_index
  <2>1. /\ target \in Address /\ e \in Entries /\ Written # {} /\ Running
        /\ InFirstPage(target) /\ InFirstPage(pulse_address) /\ target = First(e)
        /\ UNCHANGED <<target, pulses, pc, counted, overlap, INITIAL_ENERGY>>
        /\ console = "set" /\ console' = "restart"
    BY <1>3, <1>type, <1>gap
    DEF ConsoleSet, taskVars, InFirstPage, ConsoleInv, Address, PrefixInv, First, At
  <2>2. HasRoom(1)
    <3>1. used'[1] = used[1] \/ used'[1] = used[1] + 1
      BY <1>3, <1>type, <2>1 DEF ConsoleSet, WriteEntry, FlashTypeOK, Address
    <3> QED
      BY <1>type, <3>1, CapacityAssumption DEF HasRoom, FlashTypeOK
  <2>3. /\ counted <= pulses /\ (pc \in PutSteps => overlap) /\ TaskCount
        /\ overlap \/ e = Last
        /\ handle["console"] = 0 => overlap
    BY <1>energy, <2>1, <2>2 DEF ReplaceInv, StoreSteps
  <2>4. initial_pulses' = initial_pulses /\ initial_pulses \in Nat
    BY <2>1, ConsoleStaysPut DEF initial_pulses
  <2> HIDE DEF initial_pulses
  <2>5. Stored' = initial_pulses \/ (overlap /\ Stored' = Stored)
    <3>1. CASE UNCHANGED nvs
      <4>1. handle["console"] = 0 \/ WriteEntry(target, initial_pulses)
        BY <1>3, <2>1, <2>2 DEF ConsoleSet, InFirstPage
      <4>2. CASE handle["console"] = 0
        BY <1>stored, <2>3, <3>1, <4>2
      <4>3. CASE handle["console"] # 0
        <5>1. nvs[First(e)] = initial_pulses
          BY <1>type, <2>1, <3>1, <4>1, <4>3 DEF WriteEntry, FlashTypeOK
        <5> QED
          BY <1>stored, <2>3, <3>1, <5>1 DEF Stored
      <4> QED
        BY <4>2, <4>3
    <3>2. CASE nvs' = [nvs EXCEPT ![First(e)] = initial_pulses]
      <4>1. Written = 0 .. Last /\ Last \in Nat /\ e \in Nat /\ Last \in Entries
        BY <1>gap, <1>type, <2>1, LastOfPrefix
      <4>2. e <= Last + 1
        BY <1>gap, <2>1, <2>2, <4>1 DEF ConsoleAt, AtNext
      <4> HIDE DEF e
      <4>3. Last' = (IF e = Last + 1 THEN e ELSE Last) /\ nvs'[First(e)] = initial_pulses
        BY <1>gap, <1>type, <2>1, <2>4, <3>2, <4>2, StoreInFirst
      <4>4. CASE e = Last' /\ (e = Last \/ e = Last + 1)
        BY <4>3, <4>4 DEF Stored
      <4>5. CASE e # Last /\ e # Last + 1
        <5>1. Last' = Last /\ First(Last) # First(e) /\ First(Last) \in Address
          BY <4>1, <4>3, <4>5, FirstPageIsAddress DEF First, At
        <5>2. nvs'[First(Last)] = nvs[First(Last)]
          BY <1>type, <3>2, <5>1 DEF FlashTypeOK
        <5> QED
          BY <2>3, <4>5, <5>1, <5>2 DEF Stored
      <4> QED
        BY <4>1, <4>3, <4>4, <4>5
    <3> QED
      BY <1>3, <2>1, <3>1, <3>2 DEF ConsoleSet, WriteEntry
  <2>6. Stored' = Stored => TaskCount'
    BY <2>1, <2>3 DEF TaskCount
  <2> QED
    BY <2>1, <2>3, <2>4, <2>5, <2>6 DEF ReplaceInv
<1>4. ~Restart /\ ~SetEnergy /\ \A e \in InitialEnergies : ~SetAux(e)
  BY <1>type DEF Restart, Reboot, SetEnergy, SetAux, StoreSteps
<1>5. ~SaveConfig
  BY <1>energy, GeometryAssumption
  DEF SaveConfig, SaveInv, NoAddress, ZeroAddress, InFirstPage
<1> QED
  BY <1>1, <1>2, <1>3, <1>4, <1>5 DEF ConsoleStep

LEMMA EnergyStep ==
    ConfigTypeInv /\ GapInv /\ LostInv /\ LostInv' /\ EnergyInv /\ [ConfigNext]_allVars
        => EnergyInv'
<1> SUFFICES ASSUME ConfigTypeInv, GapInv, LostInv, LostInv', EnergyInv,
                    [ConfigNext]_allVars
             PROVE  EnergyInv'
  OBVIOUS
<1>1. SaveInv'
  BY SaveStep DEF EnergyInv
<1>2. ReplaceInv'
  <2>1. CASE PulseStep
    BY <2>1, ReplacePulseStep DEF EnergyInv
  <2>2. CASE ConsoleStep
    BY <2>2, ReplaceConsoleStep
  <2>3. CASE ConfigPowerLoss
    BY <2>3 DEF ConfigPowerLoss, Reboot, ReplaceInv, StoreSteps
  <2>4. CASE UNCHANGED allVars
    <3>1. /\ UNCHANGED <<nvs, used, pc, pulses, pulse_address, INITIAL_ENERGY>>
          /\ UNCHANGED <<console, target, handle, counted, overlap>>
      BY <2>4 DEF allVars, vars, flashVars, configVars, consoleVars
    <3>2. Stored' = Stored /\ Last' = Last /\ initial_pulses' = initial_pulses
      BY <3>1 DEF Stored, Written, WrittenIn, Last, LastEntry, initial_pulses
    <3> HIDE DEF initial_pulses
    <3> QED
      BY <3>1, <3>2 DEF EnergyInv, ReplaceInv, TaskCount, HasRoom, InFirstPage
  <2> QED
    BY <2>1, <2>2, <2>3, <2>4 DEF ConfigNext
<1> QED
  BY <1>1, <1>2 DEF EnergyInv

\* writes_offset takes hundredths of kWh to pulses, normalize_pulses takes them back:
\* what is lost on the way is half a pulse and half a hundredth.
LEMMA EnergyRounds ==
    ASSUME EnergiesFit, NEW e \in InitialEnergies
    PROVE  LET shown == normalize_pulses(writes_offset(e, IMPULSE_CONVERSION))
               error == IF shown > e THEN shown - e ELSE e - shown
           IN 2 * IMPULSE_CONVERSION * error <= 100 + IMPULSE_CONVERSION
<1> DEFINE c == IMPULSE_CONVERSION
           x == e * c
           v == (x + 50) \div 100
           w == 2 * c
           n == (200 * v + c) \div w
<1>1. e \in Nat /\ c \in Nat \ {0} /\ x \in Nat /\ w \in Nat \ {0} /\ w = 2 * c
  BY MeterAssumption
<1>2. v \in Int /\ x + 50 - 100 * v \in 0 .. 99
  <2>1. x + 50 \in Int /\ 100 \in Nat \ {0}
    BY <1>1
  <2>2. /\ v \in Int /\ (x + 50) % 100 \in 0 .. 99
        /\ x + 50 = 100 * v + ((x + 50) % 100)
    <3> DEFINE y == x + 50
    <3> HIDE DEF x
    <3>1. y \in Int
      BY <2>1
    <3> HIDE DEF y
    <3>2. \A m \in Int : /\ m % 100 \in 0 .. (100 - 1) /\ m \div 100 \in Int
                         /\ m = 100 * (m \div 100) + (m % 100)
      BY <2>1, Division
    <3>3. /\ y % 100 \in 0 .. 99 /\ y \div 100 \in Int
          /\ y = 100 * (y \div 100) + (y % 100)
      BY <3>1, <3>2
    <3> QED
      BY <3>3 DEF y
  <2> HIDE DEF v, x
  <2> QED
    BY <1>1, <2>2
<1>3. n \in Int /\ (200 * v + c) - w * n \in 0 .. (w - 1)
  <2> DEFINE m == 200 * v + c
  <2> HIDE DEF v, c, w
  <2>1. m \in Int
    BY <1>1, <1>2
  <2> HIDE DEF m
  <2>2. /\ m % w \in 0 .. (w - 1) /\ m \div w \in Int
        /\ m = w * (m \div w) + (m % w)
    BY <1>1, <2>1, Division
  <2>3. w * (m \div w) \in Int
    BY <1>1, <2>2
  <2>4. m - w * (m \div w) = m % w
    BY <2>1, <2>2, <2>3
  <2> QED
    BY <2>2, <2>4 DEF m
<1>4. v >= 0 /\ v < UINT32 /\ n >= 0 /\ n < UINT32
  <2>1. v < UINT32 /\ n < UINT32
    BY DEF EnergiesFit
  <2>2. v >= 0
    <3> HIDE DEF v, x
    <3> QED
      BY <1>1, <1>2
  <2>3. n >= 0
    <3>1. n <= -1 => w * n <= w * (-1)
      <4> HIDE DEF n, w
      <4> QED
        BY <1>1, <1>3
    <3> HIDE DEF n, v, c
    <3>2. w * n \in Int
      BY <1>1, <1>3
    <3> QED
      BY <1>1, <1>2, <1>3, <2>2, <3>1, <3>2
  <2> QED
    BY <2>1, <2>2, <2>3
<1>5. writes_offset(e, IMPULSE_CONVERSION) = v
  <2> HIDE DEF v
  <2>1. v % UINT32 = v
    BY <1>2, <1>4, UintAssumption
  <2> QED
    BY <2>1 DEF writes_offset, v
<1>6. normalize_pulses(v) = n
  <2> HIDE DEF n
  <2>1. n % UINT32 = n
    BY <1>3, <1>4, UintAssumption
  <2> QED
    BY <2>1 DEF normalize_pulses, n
<1>7. w * e = 2 * x
  BY <1>1
<1> HIDE DEF v, n, x, w
<1>8. w * n - w * e <= 100 + c /\ w * e - w * n <= 100 + c
  <2> HIDE DEF c
  <2>1. w * n \in Int /\ w * e \in Int
    BY <1>1, <1>3
  <2> QED
    BY <1>1, <1>2, <1>3, <1>7, <2>1
<1>9. w * (n - e) = w * n - w * e /\ w * (e - n) = w * e - w * n
  BY <1>1, <1>3
<1> QED
  BY <1>1, <1>5, <1>6, <1>8, <1>9

\* After a save that went into the store, the next boot shows the energy asked for up to
\* the rounding, or a count that the pulse task has stored since the save began.
THEOREM TakesEnergy ==
    ASSUME MAX_WRITES > 1, EnergiesFit
    PROVE  ConfigSpec => []EnergyTakes
<1>1. ConfigTypeInv /\ GapInv /\ EnergyInv => EnergyTakes
  <2> SUFFICES ASSUME ConfigTypeInv, GapInv, EnergyInv,
                      console = "restart", target # NoAddress,
                      InFirstPage(target), InFirstPage(pulse_address), HasRoom(1)
               PROVE  EnergyTakes
    BY DEF EnergyTakes
  <2>1. Running /\ Stored \in Nat
    BY StoredType DEF GapInv, PrefixInv, ConfigTypeInv, ConsoleInv, TypeInv, TypeOK
  <2>4. RecoveredCount = Stored
    BY <2>1, BootReadsFirstPage, NotFoundAssumption DEF Stored, ConfigTypeInv
  <2>5. Stored = initial_pulses \/ (overlap /\ TaskCount)
    BY DEF EnergyInv, ReplaceInv, StoreSteps
  <2>6. INITIAL_ENERGY = INITIAL_E /\ INITIAL_E \in InitialEnergies
    BY DEF EnergyInv, SaveInv, ConfigTypeInv, ConfigTypeOK
  <2>7. CASE Stored = initial_pulses
    BY <2>4, <2>6, <2>7, EnergyRounds DEF EnergyTakes, initial_pulses
  <2>8. CASE overlap /\ TaskCount
    BY <2>4, <2>8 DEF EnergyTakes, TaskCount
  <2> QED
    BY <2>5, <2>7, <2>8
<1> QED
  BY <1>1, ConfigTypeInit, ConfigTypeStep, GapInit, GapStep, LostInit, LostStep,
     EnergyInit, EnergyStep, PTL DEF ConfigSpec

-----------------------------------------------------------------------------
(* Wear under saves *)

\* After count c an entry takes at most k more before the next one is used.
Due(offset, c, k) ==
    \E j \in 1 .. (k + 1) : EntryWorn(c + j, offset) \/ c + j > MaxPulses

\* What the entries, already written so often, can still take when the task goes on from
\* count c at here with so many stores under way: each entry after here a whole share,
\* and the entry itself the counts up to its next change.
Budget(written, offset, here, c, pending, bound) ==
    \A a \in Address :
        ~IsLast(a) =>
            /\ Before(here, a) => written[a] + Share <= bound
            /\ a = here => /\ written[a] + pending <= bound
                           /\ Due(offset, c, bound - written[a] - pending)

\* The shares that the saves so far have given to an entry besides its own.
SaveShares == 2 * saves * Share

\* A save spends the first of its two shares on the count that goes on under the new
\* offset, the last store of it being the console's, and leaves the second to the boot.
Allowance ==
    CASE console = "idle"       -> SaveShares + Share
      [] console = "set_energy" -> SaveShares - Share
      [] console = "restart"    -> SaveShares
      [] OTHER                  -> SaveShares - 1

\* The last count that put_nvs has given an address, and whether it is still to be stored.
PlacedCount == IF pc = "put" THEN pulses - 1 ELSE pulses
Pending     == IF pc \in {"open", "set"} THEN 1 ELSE 0

WithinAllowance == \A a \in Address : ~IsLast(a) => writes[a] <= Allowance
TaskBudget == Budget(writes, Offset, pulse_address, PlacedCount, Pending, Allowance)
BootBudget == Budget(writes, Offset, First(Last), Stored, 0, Allowance)

\* A boot that goes back to an entry long left, because nothing stored since is larger,
\* is not a rollback: the later entries then have a share to take again.
PerSaveInv ==
    /\ console = "idle" => INITIAL_E = INITIAL_ENERGY
    /\ pc \in PutSteps => pulses \in 1 .. MaxPulses
    /\ Written = {} => \A a \in Address : writes[a] = 0
    /\ console = "idle" /\ Running =>
          Stored <= IF pc \in PutSteps THEN pulses - 1 ELSE pulses
    /\ ~rolledBack =>
          /\ WithinAllowance
          /\ Running => TaskBudget
          /\ console = "idle" /\ Written # {} /\ saved <= Stored => BootBudget

LEMMA ShareType ==
    ASSUME NoEvenWrap
    PROVE  Share \in Nat /\ Share >= 2
<1>1. /\ UINT32 % MAX_WRITES \in 0 .. (MAX_WRITES - 1)
      /\ UINT32 % MAX_WRITES # 0
  BY GeometryAssumption, UintAssumption, Division DEF NoEvenWrap
<1> QED
  BY <1>1, GeometryAssumption DEF Share

LEMMA OffsetType ==
    ASSUME NEW e \in Nat
    PROVE  writes_offset(e, IMPULSE_CONVERSION) \in 0 .. (UINT32 - 1)
<1>1. e * IMPULSE_CONVERSION \in Int
  BY MeterAssumption
<1>2. \A n \in Int : (n \div 100) % UINT32 \in 0 .. (UINT32 - 1)
  BY UintAssumption, Division
<1> QED
  BY <1>1, <1>2 DEF writes_offset

LEMMA DueMore ==
    ASSUME NEW offset, NEW c, NEW k \in Int, NEW l \in Int, k <= l, Due(offset, c, k)
    PROVE  Due(offset, c, l)
  BY DEF Due

\* A share of counts in a row always changes the entry.
LEMMA DueFresh ==
    ASSUME NoEvenWrap, NEW offset \in 0 .. (UINT32 - 1), NEW c \in Nat
    PROVE  Due(offset, c, Share - 1)
<1>share. Share \in Nat /\ Share >= 2
  BY ShareType
<1>1. CASE c + Share <= UINT32 - 1
  <2>1. PICK k \in (c + 1) .. (c + Share) : EntryWorn(k, offset)
    BY <1>1, WornWithin
  <2>2. k - c \in 1 .. ((Share - 1) + 1) /\ c + (k - c) = k
    BY <1>share
  <2> QED
    BY <2>1, <2>2 DEF Due
<1>2. CASE c + Share > UINT32 - 1
  <2>1. c + Share > MaxPulses /\ Share \in 1 .. ((Share - 1) + 1)
    BY <1>2, <1>share, MeterAssumption, UintAssumption
  <2> QED
    BY <2>1 DEF Due
<1> QED
  BY <1>1, <1>2, <1>share, UintAssumption

\* A larger bound, or fewer stores under way.
LEMMA BudgetMore ==
    ASSUME NEW w \in [Address -> Nat], NEW offset, NEW here, NEW c,
           NEW p \in Int, NEW q \in Int, NEW b \in Int, NEW d \in Int,
           q <= p, b <= d, Budget(w, offset, here, c, p, b)
    PROVE  Budget(w, offset, here, c, q, d)
<1> SUFFICES ASSUME NEW a \in Address, ~IsLast(a)
             PROVE  /\ Before(here, a) => w[a] + Share <= d
                    /\ a = here => w[a] + q <= d /\ Due(offset, c, d - w[a] - q)
  BY DEF Budget
<1>1. /\ Before(here, a) => w[a] + Share <= b
      /\ a = here => w[a] + p <= b /\ Due(offset, c, b - w[a] - p)
  BY DEF Budget
<1>2. w[a] \in Nat /\ Share \in Int
  BY GeometryAssumption, UintAssumption, Division DEF Share
<1>3. ASSUME a = here
      PROVE  w[a] + q <= d /\ Due(offset, c, d - w[a] - q)
  <2>1. /\ b - w[a] - p \in Int /\ d - w[a] - q \in Int
        /\ b - w[a] - p <= d - w[a] - q
    BY <1>2
  <2> QED
    BY <1>1, <1>2, <1>3, <2>1, DueMore
<1> QED
  BY <1>1, <1>2, <1>3

\* The task is given a new offset: the entry can take up to a share more than it has.
LEMMA BudgetNew ==
    ASSUME NoEvenWrap, NEW w \in [Address -> Nat], NEW old, NEW offset \in 0 .. (UINT32 - 1),
           NEW here, NEW c \in Nat, NEW p \in Nat, NEW b \in Int,
           Budget(w, old, here, c, p, b)
    PROVE  Budget(w, offset, here, c, p, b + Share - 1)
<1>share. Share \in Nat /\ Share >= 2
  BY ShareType
<1> SUFFICES ASSUME NEW a \in Address, ~IsLast(a)
             PROVE  /\ Before(here, a) => w[a] + Share <= b + Share - 1
                    /\ a = here => /\ w[a] + p <= b + Share - 1
                                   /\ Due(offset, c, b + Share - 1 - w[a] - p)
  BY <1>share DEF Budget
<1>1. /\ Before(here, a) => w[a] + Share <= b
      /\ a = here => w[a] + p <= b
  BY DEF Budget
<1>2. w[a] \in Nat
  OBVIOUS
<1>3. a = here => Due(offset, c, b + Share - 1 - w[a] - p)
  <2>1. a = here => Share - 1 <= b + Share - 1 - w[a] - p
    BY <1>share, <1>1, <1>2
  <2> QED
    BY <1>share, <1>2, <2>1, DueFresh, DueMore
<1> QED
  BY <1>share, <1>1, <1>2, <1>3

\* The task starts anywhere, on any count, with a share to take in every entry.
LEMMA BudgetFresh ==
    ASSUME NoEvenWrap, NEW w \in [Address -> Nat], NEW offset \in 0 .. (UINT32 - 1),
           NEW here, NEW c \in Nat, NEW p \in 0 .. 1, NEW b \in Int,
           \A a \in Address : ~IsLast(a) => w[a] <= b
    PROVE  Budget(w, offset, here, c, p, b + Share)
<1>share. Share \in Nat /\ Share >= 2
  BY ShareType
<1> SUFFICES ASSUME NEW a \in Address, ~IsLast(a)
             PROVE  /\ w[a] + Share <= b + Share
                    /\ w[a] + p <= b + Share
                    /\ Due(offset, c, b + Share - w[a] - p)
  BY <1>share DEF Budget
<1>1. w[a] \in Nat /\ w[a] <= b
  OBVIOUS
<1>2. /\ Share - 1 <= b + Share - w[a] - p
      /\ b + Share - w[a] - p \in Int /\ Share - 1 \in Int
  BY <1>share, <1>1
<1> QED
  BY <1>share, <1>1, <1>2, DueFresh, DueMore

\* The task stores the count that is under way.
LEMMA BudgetStore ==
    ASSUME NEW w \in [Address -> Nat], NEW offset, NEW here \in Address, NEW c,
           NEW b \in Int, Budget(w, offset, here, c, 1, b)
    PROVE  Budget([w EXCEPT ![here] = @ + 1], offset, here, c, 0, b)
<1> DEFINE v == [w EXCEPT ![here] = @ + 1]
<1> SUFFICES ASSUME NEW a \in Address, ~IsLast(a)
             PROVE  /\ Before(here, a) => v[a] + Share <= b
                    /\ a = here => v[a] + 0 <= b /\ Due(offset, c, b - v[a] - 0)
  BY DEF Budget
<1>1. /\ Before(here, a) => w[a] + Share <= b
      /\ a = here => w[a] + 1 <= b /\ Due(offset, c, b - w[a] - 1)
  BY DEF Budget
<1>2. w[a] \in Nat /\ v[a] = IF a = here THEN w[a] + 1 ELSE w[a]
  OBVIOUS
<1>3. ~Before(here, here)
  BY AddressFields
<1>4. b - (w[a] + 1) - 0 = b - w[a] - 1
  BY <1>2
<1> QED
  BY <1>1, <1>2, <1>3, <1>4

\* The console stores somewhere.
LEMMA BudgetWrite ==
    ASSUME NEW w \in [Address -> Nat], NEW offset, NEW here, NEW c, NEW p \in Int,
           NEW b \in Int, NEW t \in Address, Budget(w, offset, here, c, p, b)
    PROVE  Budget([w EXCEPT ![t] = @ + 1], offset, here, c, p, b + 1)
<1> DEFINE v == [w EXCEPT ![t] = @ + 1]
<1> SUFFICES ASSUME NEW a \in Address, ~IsLast(a)
             PROVE  /\ Before(here, a) => v[a] + Share <= b + 1
                    /\ a = here => v[a] + p <= b + 1 /\ Due(offset, c, b + 1 - v[a] - p)
  BY DEF Budget
<1>1. /\ Before(here, a) => w[a] + Share <= b
      /\ a = here => w[a] + p <= b /\ Due(offset, c, b - w[a] - p)
  BY DEF Budget
<1>2. /\ w[a] \in Nat /\ v[a] \in Nat /\ (v[a] = w[a] \/ v[a] = w[a] + 1)
      /\ Share \in Int
  BY GeometryAssumption, UintAssumption, Division DEF Share
<1>3. b - w[a] - p \in Int /\ b + 1 - v[a] - p \in Int /\ b - w[a] - p <= b + 1 - v[a] - p
  BY <1>2
<1> HIDE DEF v
<1> QED
  BY <1>1, <1>2, <1>3, DueMore

\* put_nvs gives the next count an address: the entry in use has one count less to take,
\* or the next one starts on its share.
LEMMA BudgetNext ==
    ASSUME NoEvenWrap, NEW w \in [Address -> Nat], NEW offset \in 0 .. (UINT32 - 1),
           NEW here \in Address, NEW c \in Nat, c + 1 <= MaxPulses, NEW b \in Int,
           Budget(w, offset, here, c, 0, b)
    PROVE  /\ ~EntryWorn(c + 1, offset) => Budget(w, offset, here, c + 1, 1, b)
           /\ EntryWorn(c + 1, offset) /\ ~IsLast(here) =>
                 Budget(w, offset, NextAddress(here), c + 1, 1, b)
<1>share. Share \in Nat /\ Share >= 2 /\ MaxPulses \in Nat
  BY ShareType, MeterAssumption, UintAssumption
<1>at. ASSUME NEW a \in Address, ~IsLast(a)
       PROVE  /\ Before(here, a) => w[a] + Share <= b
              /\ a = here => w[a] + 0 <= b /\ Due(offset, c, b - w[a] - 0)
  BY <1>at DEF Budget
<1>1. ASSUME ~EntryWorn(c + 1, offset)
      PROVE  Budget(w, offset, here, c + 1, 1, b)
  <2> SUFFICES ASSUME ~IsLast(here)
               PROVE  w[here] + 1 <= b /\ Due(offset, c + 1, b - w[here] - 1)
    BY <1>at DEF Budget
  <2>1. w[here] \in Nat
    OBVIOUS
  <2>2. PICK j \in 1 .. (b - w[here] - 0 + 1) : EntryWorn(c + j, offset) \/ c + j > MaxPulses
    BY <1>at DEF Due
  <2>3. j # 1
    BY <1>1, <1>share, <2>2
  <2> DEFINE i == j - 1
  <2>4. /\ w[here] + 1 <= b
        /\ i \in 1 .. (b - w[here] - 1 + 1)
        /\ (c + 1) + i = c + j
    BY <2>1, <2>2, <2>3
  <2> HIDE DEF i
  <2> QED
    BY <2>2, <2>4 DEF Due
<1>2. ASSUME EntryWorn(c + 1, offset), ~IsLast(here)
      PROVE  Budget(w, offset, NextAddress(here), c + 1, 1, b)
  <2> DEFINE n == NextAddress(here)
  <2>1. n \in Address /\ Before(here, n)
    <3>1. n \in Address
      BY <1>2, NextAddressType
    <3> QED
      BY <1>2, <3>1, AddressFields DEF NextAddress, Before, Address
  <2>2. ASSUME NEW a \in Address, Before(n, a)
        PROVE  Before(here, a)
    <3> HIDE DEF n
    <3> QED
      BY <2>1, <2>2, AddressFields DEF Before
  <2> HIDE DEF n
  <2>3. ASSUME NEW a \in Address, ~IsLast(a), a = n
        PROVE  w[a] + 1 <= b /\ Due(offset, c + 1, b - w[a] - 1)
    <3>1. w[a] + Share <= b /\ w[a] \in Nat
      BY <1>at, <2>1, <2>3
    <3>2. Share - 1 <= b - w[a] - 1 /\ b - w[a] - 1 \in Int
      BY <1>share, <3>1
    <3>3. Due(offset, c + 1, Share - 1)
      BY DueFresh
    <3> QED
      BY <1>share, <3>1, <3>2, <3>3, DueMore
  <2> QED
    BY <1>at, <2>2, <2>3 DEF Budget, n
<1> QED
  BY <1>1, <1>2

\* A budget depends on the state only through its arguments.
LEMMA BudgetsPrimed ==
    /\ TaskBudget' <=>
          Budget(writes', Offset', pulse_address', PlacedCount', Pending', Allowance')
    /\ BootBudget' <=> Budget(writes', Offset', First(Last'), Stored', 0, Allowance')
<1> HIDE DEF Offset, PlacedCount, Pending, Allowance, Last, Stored
<1>1. ASSUME NEW a, NEW b
      PROVE  /\ Before(a, b)' <=> Before(a, b)
             /\ IsLast(a)' <=> IsLast(a)
  BY DEF Before, IsLast
<1> QED
  BY DEF TaskBudget, BootBudget, Budget, Due, EntryWorn, writes_count, Before, IsLast,
         First, At, Share

LEMMA AllowanceType ==
    ASSUME NoEvenWrap, ConfigTypeInv
    PROVE  /\ SaveShares \in Int /\ Allowance \in Int
           /\ console # "idle" => Allowance <= SaveShares
           /\ Allowance <= SaveShares + Share
<1>1. Share \in Nat /\ Share >= 2 /\ saves \in Nat
  BY ShareType, ConfigAssumption DEF ConfigTypeInv, ConfigTypeOK
<1>2. SaveShares \in Int
  BY <1>1 DEF SaveShares
<1> QED
  BY <1>1, <1>2 DEF Allowance

LEMMA PerSaveInit == ConfigInit => PerSaveInv
<1> SUFFICES ASSUME ConfigInit PROVE PerSaveInv
  OBVIOUS
<1>1. /\ \A a \in Address : nvs[a] = NotFound /\ writes[a] = 0
      /\ console = "idle" /\ saves = 0 /\ pc = "isr_init"
  BY DEF ConfigInit, Init, FlashInit, PoweredOn
<1>2. Written = {}
  BY <1>1, WrittenDef, GeometryAssumption
  DEF Written, WrittenIn, Address, Partitions, Pages, Entries, At
<1>3. Allowance >= 0
  <2>1. UINT32 % MAX_WRITES \in 0 .. (MAX_WRITES - 1)
    BY GeometryAssumption, UintAssumption, Division
  <2> QED
    BY <1>1, <2>1, GeometryAssumption DEF Allowance, SaveShares, Share
<1> QED
  BY <1>1, <1>2, <1>3
  DEF ConfigInit, PerSaveInv, WithinAllowance, Running, BootSteps, PutSteps

\* The pulse task spends what is left, and a boot that is not a rollback finds as much.
LEMMA PerSavePulseStep ==
    ASSUME NoEvenWrap
    PROVE  ConfigTypeInv /\ ConfigTypeInv' /\ GapInv /\ GapInv' /\ PerSaveInv /\ PulseStep
               => PerSaveInv'
<1> SUFFICES ASSUME ConfigTypeInv, ConfigTypeInv', GapInv, GapInv', PerSaveInv, PulseStep
             PROVE  PerSaveInv'
  OBVIOUS
<1>type. /\ TypeInv /\ FlashTypeOK /\ FlashTypeOK' /\ ConsoleInv /\ BootInv
         /\ pulses \in Nat /\ writes \in [Address -> Nat] /\ saved \in Nat
         /\ rolledBack \in BOOLEAN
         /\ Share \in Nat /\ Share >= 2
         /\ Entries \subseteq Nat
  <2>1. Entries \subseteq Nat
    BY GeometryAssumption DEF Entries
  <2> QED
    BY <2>1, ShareType DEF ConfigTypeInv, ConfigTypeOK, TypeInv, TypeOK, FlashTypeOK
<1>gap. PrefixInv /\ TaskAt /\ PrefixInv'
  BY DEF GapInv
<1>energy. UNCHANGED <<INITIAL_ENERGY, INITIAL_E, console, saves>>
  BY PulseKeepsEnergy DEF PulseStep, consoleVars
<1>offset. Offset' = Offset /\ Offset \in 0 .. (UINT32 - 1)
  <2>1. INITIAL_ENERGY \in Nat
    BY MeterAssumption DEF ConfigTypeInv, TypeInv, TypeOK
  <2> QED
    BY <1>energy, <2>1, OffsetType DEF Offset
<1>allow. /\ Allowance' = Allowance /\ Allowance \in Int /\ SaveShares \in Int
          /\ console = "idle" => Allowance = SaveShares + Share
  BY <1>energy, AllowanceType DEF Allowance, SaveShares
<1>within. ~rolledBack => WithinAllowance
  BY DEF PerSaveInv
<1>written. Running' => Written' # {}
  BY <1>gap DEF PrefixInv
<1> HIDE DEF Offset
<1> USE DEF Running, BootSteps, PutSteps
\* Steps that store nothing.
<1>keep. ASSUME UNCHANGED <<nvs, saved, writes, rolledBack>>,
                pc' \in PutSteps => pulses' \in 1 .. MaxPulses,
                console = "idle" /\ Running' =>
                    Stored <= IF pc' \in PutSteps THEN pulses' - 1 ELSE pulses',
                ~rolledBack /\ Running' =>
                    Budget(writes, Offset, pulse_address', PlacedCount', Pending', Allowance)
         PROVE  PerSaveInv'
  <2>1. Written' = Written /\ Last' = Last /\ Stored' = Stored
    BY <1>keep DEF Written, WrittenIn, Last, LastEntry, Stored
  <2>2. WithinAllowance' <=> WithinAllowance
    BY <1>keep, <1>allow DEF WithinAllowance, IsLast
  <2>3. BootBudget' <=> BootBudget
    BY <1>keep, <1>allow, <1>offset, <2>1, BudgetsPrimed DEF BootBudget
  <2>4. ~rolledBack /\ Running' => TaskBudget'
    BY <1>keep, <1>allow, <1>offset, BudgetsPrimed
  <2> HIDE DEF Running
  <2> QED
    BY <1>keep, <1>energy, <2>1, <2>2, <2>3, <2>4 DEF PerSaveInv
<1>budget. ~rolledBack /\ Running =>
               Budget(writes, Offset, pulse_address, PlacedCount, Pending, Allowance)
  BY DEF PerSaveInv, TaskBudget
\* Steps away from put_nvs, and those of put_nvs that drop its store.
<1>away. ASSUME UNCHANGED <<nvs, saved, writes, rolledBack, pulse_address>>,
                Running, PlacedCount' = PlacedCount, Pending' <= Pending,
                pc' \in PutSteps => pulses' \in 1 .. MaxPulses,
                console = "idle" => Stored <= IF pc' \in PutSteps THEN pulses' - 1
                                                                  ELSE pulses'
         PROVE  PerSaveInv'
  <2>1. Pending \in Int /\ Pending' \in Int
    BY DEF Pending
  <2>2. ~rolledBack =>
            Budget(writes, Offset, pulse_address, PlacedCount, Pending', Allowance)
    <3> HIDE DEF PlacedCount, Pending
    <3> QED
      BY <1>type, <1>allow, <1>budget, <1>away, <2>1, BudgetMore
  <2> QED
    BY <1>away, <1>keep, <2>2
<1>idle. console = "idle" /\ Running =>
             Stored <= IF pc \in PutSteps THEN pulses - 1 ELSE pulses
  BY DEF PerSaveInv
<1>stored. Running => Stored \in Nat
  BY <1>gap, <1>type, StoredType DEF PrefixInv
<1>put. pc \in PutSteps => pulses \in 1 .. MaxPulses
  BY DEF PerSaveInv
<1>1. CASE pulse_isr_init \/ CreateSemaphore \/ SearchPartition \/ ReadPageIndex
  BY <1>1, <1>keep DEF pulse_isr_init, CreateSemaphore, SearchPartition, ReadPageIndex,
                       flashVars, ghostVars
<1>2. CASE PulseEdge
  <2>1. CASE Running
    BY <1>2, <1>away, <1>idle, <1>put, <2>1
    DEF PulseEdge, flashVars, taskVars, PlacedCount, Pending
  <2>2. CASE ~Running
    BY <1>2, <1>keep, <2>2 DEF PulseEdge, flashVars, taskVars
  <2> QED
    BY <2>1, <2>2
<1>3. CASE PublishHigh \/ PublishLow \/ TakeSemaphore \/ SampleLow \/ EndHoldoff
  BY <1>3, <1>away, <1>idle
  DEF PublishHigh, PublishLow, TakeSemaphore, SampleLow, EndHoldoff, flashVars,
      PlacedCount, Pending
<1>4. CASE SampleHigh
  BY <1>4, <1>away, <1>idle, <1>type, <1>stored, MeterAssumption
  DEF SampleHigh, flashVars, PlacedCount, Pending
<1>5. CASE PutAddress
  <2>1. /\ pulse_address \in Address /\ Running /\ pc = "put" /\ pc' = "open"
        /\ UNCHANGED <<nvs, saved, writes, rolledBack, pulses>>
        /\ ~(Worn /\ IsLast(pulse_address))
        /\ pulse_address' = IF Worn THEN NextAddress(pulse_address) ELSE pulse_address
    BY <1>5, <1>type DEF PutAddress, BootInv, flashVars
  <2>2. /\ PlacedCount = pulses - 1 /\ PlacedCount' = pulses /\ Pending = 0 /\ Pending' = 1
        /\ pulses - 1 \in Nat /\ (pulses - 1) + 1 = pulses /\ pulses <= MaxPulses
    BY <1>put, <2>1, MeterAssumption DEF PlacedCount, Pending
  <2>3. ~rolledBack =>
            Budget(writes, Offset, pulse_address', PlacedCount', Pending', Allowance)
    <3>1. Worn <=> EntryWorn(pulses, Offset)
      BY DEF Worn, Offset
    <3> DEFINE c == pulses - 1
    <3>2. c \in Nat /\ c + 1 = pulses /\ c + 1 <= MaxPulses
      BY <2>2
    <3>3. ~rolledBack => Budget(writes, Offset, pulse_address, c, 0, Allowance)
      BY <1>budget, <2>1, <2>2
    <3> HIDE DEF c
    <3>4. ~rolledBack =>
            /\ ~EntryWorn(c + 1, Offset) =>
                  Budget(writes, Offset, pulse_address, c + 1, 1, Allowance)
            /\ EntryWorn(c + 1, Offset) /\ ~IsLast(pulse_address) =>
                  Budget(writes, Offset, NextAddress(pulse_address), c + 1, 1, Allowance)
      BY <1>allow, <1>offset, <1>type, <2>1, <3>2, <3>3, BudgetNext
    <3> QED
      BY <2>1, <2>2, <3>1, <3>2, <3>4
  <2> QED
    BY <1>idle, <1>keep, <1>put, <2>1, <2>3
<1>6. CASE FlashFull
  <2>1. ~rolledBack =>
            Budget(writes, Offset, pulse_address', PlacedCount', Pending', Allowance)
    <3>1. pulse_address' = pulse_address /\ IsLast(pulse_address) /\ Running
      BY <1>6 DEF FlashFull
    <3> QED
      BY <1>budget, <3>1 DEF Budget
  <2> QED
    BY <1>6, <1>idle, <1>keep, <1>type, <1>stored, <2>1 DEF FlashFull, flashVars
<1>7. CASE PulseOpen
  <2>1. /\ pc = "open" /\ pc' \in {"set", "publish_high"}
        /\ UNCHANGED <<nvs, saved, writes, rolledBack, pulse_address, pulses>>
    BY <1>7 DEF PulseOpen, SaveOpen, PutReturns, ghostVars
  <2> QED
    BY <1>away, <1>idle, <1>put, <1>type, <1>stored, <2>1 DEF PlacedCount, Pending
<1>8. CASE PulseSetFails
  BY <1>8, <1>away, <1>idle, <1>type, <1>stored
  DEF PulseSetFails, PutReturns, flashVars, PlacedCount, Pending
<1>9. CASE PulseSet
  <2> DEFINE a == pulse_address
  <2>1. /\ a \in Address /\ Written # {} /\ pc = "set" /\ pc' = "publish_high"
        /\ UNCHANGED <<pulse_address, pulses, rolledBack>>
    BY <1>9, <1>gap, <1>type DEF PulseSet, SaveSet, PutReturns, BootInv, PrefixInv
  <2>2. CASE ~HasRoom(a.partition)
    BY <1>9, <1>away, <1>idle, <1>type, <1>stored, <2>1, <2>2
    DEF PulseSet, SaveSet, ghostVars, PlacedCount, Pending
  <2>3. CASE HasRoom(a.partition)
    <3>1. /\ nvs' = [nvs EXCEPT ![a] = pulses]
          /\ writes' = [writes EXCEPT ![a] = @ + 1]
          /\ saved' = pulses
      BY <1>9, <2>3 DEF PulseSet, SaveSet, WriteEntry
    <3>2. PlacedCount = pulses /\ PlacedCount' = pulses /\ Pending = 1 /\ Pending' = 0
      BY <2>1 DEF PlacedCount, Pending
    <3>3. ~rolledBack => Budget(writes', Offset', a', PlacedCount', Pending', Allowance')
      <4>1. ~rolledBack => Budget(writes, Offset, a, pulses, 1, Allowance)
        BY <1>budget, <2>1, <3>2
      <4>2. ~rolledBack => Budget(writes', Offset, a, pulses, 0, Allowance)
        BY <1>allow, <1>type, <2>1, <3>1, <4>1, BudgetStore
      <4> QED
        BY <1>allow, <1>offset, <2>1, <3>2, <4>2
    <3>4. ~rolledBack => WithinAllowance'
      <4>1. ASSUME ~rolledBack, NEW b \in Address, ~IsLast(b)
            PROVE  writes'[b] <= Allowance
        <5>1. writes[b] <= Allowance
          BY <1>within, <4>1 DEF WithinAllowance
        <5>2. b = a => writes[a] + 1 <= Allowance
          BY <1>budget, <2>1, <3>2, <4>1 DEF Budget
        <5> QED
          BY <1>type, <2>1, <3>1, <5>1, <5>2
      <4> QED
        BY <1>allow, <4>1 DEF WithinAllowance, IsLast
    \* In the first page the boot then goes on where the task is.
    <3>5. CASE InFirstPage(a) /\ console = "idle"
      <4> DEFINE e == a.entry_index
      <4>1. a = First(e) /\ e \in Entries /\ HasRoom(1)
        BY <2>1, <2>3, <3>5 DEF Address, InFirstPage, First, At
      <4>2. e = Last \/ e = Last + 1
        BY <1>gap, <2>1, <3>5, <4>1 DEF TaskAt, AtNext
      <4>3. e \in Nat /\ Last \in Entries
        BY <1>gap, <1>type, <2>1, <4>1, LastOfPrefix
      <4>4. e <= Last + 1
        BY <1>type, <4>2, <4>3
      <4> HIDE DEF e
      <4>5. Last' = (IF e = Last + 1 THEN e ELSE Last) /\ nvs'[First(e)] = pulses
        BY <1>gap, <1>type, <2>1, <3>1, <4>1, <4>4, StoreInFirst
      <4>6. Last' = e /\ Stored' = pulses
        BY <4>2, <4>5 DEF Stored
      <4>7. First(Last') = a' /\ Stored' = PlacedCount' /\ Pending' = 0
        BY <2>1, <3>2, <4>1, <4>6
      <4>8. ~rolledBack => TaskBudget' /\ BootBudget'
        BY <3>3, <4>7, BudgetsPrimed
      <4> QED
        BY <1>energy, <1>written, <2>1, <3>4, <4>6, <4>8 DEF PerSaveInv
    \* Elsewhere the boot would find less than was stored.
    <3>6. CASE ~InFirstPage(a) /\ console = "idle"
      <4>1. Stored' = Stored /\ Stored <= pulses - 1 /\ Stored \in Nat
        BY <1>idle, <1>stored, <1>type, <2>1, <3>1, <3>6, StoreElsewhere
      <4>2. Stored' <= pulses' /\ ~(saved' <= Stored')
        BY <1>type, <2>1, <3>1, <4>1
      <4>3. ~rolledBack => TaskBudget'
        BY <3>3, BudgetsPrimed
      <4> QED
        BY <1>energy, <1>written, <2>1, <3>4, <4>2, <4>3 DEF PerSaveInv
    <3>7. CASE console # "idle"
      <4>1. ~rolledBack => TaskBudget'
        BY <3>3, BudgetsPrimed
      <4> QED
        BY <1>energy, <1>written, <2>1, <3>4, <3>7, <4>1 DEF PerSaveInv
    <3> QED
      BY <3>5, <3>6, <3>7
  <2> QED
    BY <2>2, <2>3
<1>10. CASE ReadCount
  <2> DEFINE a == First(Last)
  <2>part. 1 \in Partitions /\ 1 \in Pages /\ 0 \in Entries
    BY GeometryAssumption DEF Partitions, Pages, Entries
  <2>1. pulse_address.partition = 1 /\ PageIndex(1) = 1 /\ console = "idle"
    BY <1>10, <1>type, <2>part
    DEF ReadCount, PageIndex, FlashTypeOK, TypeInv, BootInv, ConsoleInv
  <2>2. /\ get_pulse_counter_info(1, 1)
        /\ pulses' = IF nvs[a] = NotFound THEN 0 ELSE nvs[a]
        /\ rolledBack' = (rolledBack \/ pulses' < saved)
        /\ pc' = "init_high"
        /\ pulse_address' = a
    BY <1>10, <2>1 DEF ReadCount, First, Last
  <2>3. Last \in Entries /\ a \in Address
    BY <2>part, LastEntryType, FirstPageIsAddress DEF Last
  <2>4. /\ Written' = 0 .. Last' /\ pulse_address' = First(Last') /\ pulses' = Stored'
    BY <1>10, <1>gap, <1>type, BootReads
  <2>5. PlacedCount' = Stored' /\ Pending' = 0 /\ TaskBudget' = BootBudget'
    BY <2>2, <2>4 DEF PlacedCount, Pending, TaskBudget, BootBudget
  <2>n. pulses' \in Nat
    BY DEF ConfigTypeInv, TypeInv, TypeOK
  <2>6. CASE nvs[a] # NotFound
    <3>1. UNCHANGED <<nvs, saved, writes>> /\ pulses' = Stored
      BY <1>type, <2>2, <2>3, <2>6
      DEF get_pulse_counter_info, First, Last, FlashTypeOK, Stored
    <3>2. Written' = Written /\ Last' = Last /\ Stored' = Stored
      BY <3>1 DEF Written, WrittenIn, Last, LastEntry, Stored
    <3>3. ~rolledBack' => ~rolledBack /\ saved <= Stored
      <4>1. ~rolledBack' => ~rolledBack /\ ~(pulses' < saved)
        BY <2>2, Zenon
      <4> QED
        BY <1>type, <2>n, <3>1, <4>1
    <3>4. ~rolledBack' => BootBudget' /\ WithinAllowance'
      <4>1. Written # {}
        BY <2>3, <2>6, WrittenDef
      <4>2. ~rolledBack' => BootBudget /\ WithinAllowance
        BY <2>1, <3>3, <4>1 DEF PerSaveInv
      <4>3. WithinAllowance' <=> WithinAllowance
        BY <1>allow, <3>1 DEF WithinAllowance, IsLast
      <4>4. BootBudget' <=> BootBudget
        BY <1>allow, <1>offset, <3>1, <3>2, BudgetsPrimed DEF BootBudget
      <4> QED
        BY <4>2, <4>3, <4>4
    <3> QED
      BY <1>energy, <1>written, <2>2, <2>4, <2>5, <2>n, <3>4 DEF PerSaveInv
  <2>7. CASE nvs[a] = NotFound
    <3>1. Written = {} /\ Last = 0 /\ a = First(0)
      BY <1>gap, <2>3, <2>7, LastOfPrefix, WrittenDef, GeometryAssumption DEF Entries
    <3>2. /\ writes' = [writes EXCEPT ![a] = @ + 1]
          /\ pulses' = 0
      BY <2>2, <2>7 DEF get_pulse_counter_info, First, Last
    <3>3. \A b \in Address : writes[b] = 0
      BY <3>1 DEF PerSaveInv
    <3>4. SaveShares >= 0
      <4>1. saves \in Nat
        BY ConfigAssumption DEF ConfigTypeInv, ConfigTypeOK
      <4> QED
        BY <1>type, <4>1 DEF SaveShares
    <3>5. Budget(writes', Offset, a, 0, 0, Allowance)
      <4>1. Budget(writes, Offset, a, 0, 1, SaveShares + Share)
        <5>1. \A b \in Address : ~IsLast(b) => writes[b] <= SaveShares
          BY <3>3, <3>4
        <5>2. 0 \in Nat /\ 1 \in 0 .. 1
          OBVIOUS
        <5> QED
          BY <1>allow, <1>offset, <1>type, <5>1, <5>2, BudgetFresh
      <4> QED
        BY <1>allow, <1>type, <2>1, <2>3, <3>2, <4>1, BudgetStore
    <3>6. BootBudget'
      <4>1. First(Last') = a /\ Stored' = 0
        BY <2>2, <2>4, <3>2
      <4> QED
        BY <1>allow, <1>offset, <3>5, <4>1, BudgetsPrimed
    <3>7. WithinAllowance'
      <4>1. ASSUME NEW b \in Address
            PROVE  writes'[b] <= Allowance
        BY <1>allow, <1>type, <2>1, <2>3, <3>2, <3>3, <3>4
      <4> QED
        BY <1>allow, <4>1 DEF WithinAllowance
    <3> QED
      BY <1>energy, <1>written, <2>2, <2>4, <2>5, <2>n, <3>6, <3>7 DEF PerSaveInv
  <2> QED
    BY <2>6, <2>7
<1> QED
  BY <1>1, <1>2, <1>3, <1>4, <1>5, <1>6, <1>7, <1>8, <1>9, <1>10
  DEF PulseStep, PulseOther

\* The console spends the share that the save gives, and the boot finds the other.
LEMMA PerSaveConsoleStep ==
    ASSUME NoEvenWrap
    PROVE  ConfigTypeInv /\ ConfigTypeInv' /\ GapInv /\ GapInv' /\ PerSaveInv
           /\ (ConsoleStep \/ ConfigPowerLoss \/ UNCHANGED allVars)
               => PerSaveInv'
<1> SUFFICES ASSUME ConfigTypeInv, ConfigTypeInv', GapInv, GapInv', PerSaveInv,
                    ConsoleStep \/ ConfigPowerLoss \/ UNCHANGED allVars
             PROVE  PerSaveInv'
  OBVIOUS
<1>type. /\ TypeInv /\ FlashTypeOK /\ ConsoleInv /\ BootInv
         /\ pulses \in Nat /\ writes \in [Address -> Nat]
         /\ saves \in Nat /\ saves' \in Nat
         /\ Share \in Nat /\ Share >= 2
  <2>1. saves \in Nat /\ saves' \in Nat
    BY ConfigAssumption DEF ConfigTypeInv, ConfigTypeOK
  <2>2. pulses \in Nat /\ writes \in [Address -> Nat]
    BY DEF ConfigTypeInv, TypeInv, TypeOK, FlashTypeOK
  <2> QED
    BY <2>1, <2>2, ShareType DEF ConfigTypeInv, TypeInv, TypeOK
<1>gap. PrefixInv /\ PrefixInv'
  BY DEF GapInv
<1>shares. SaveShares \in Int /\ SaveShares' \in Int
  BY <1>type DEF SaveShares, Share
<1>allow. /\ Allowance \in Int /\ Allowance' \in Int
          /\ Allowance <= SaveShares + Share
          /\ console # "idle" => Allowance <= SaveShares
  BY <1>shares, <1>type, AllowanceType DEF Allowance, Share
<1>offset. /\ Offset' \in 0 .. (UINT32 - 1)
           /\ INITIAL_ENERGY' = INITIAL_ENERGY => Offset' = Offset
  <2>1. INITIAL_ENERGY' \in Nat
    BY MeterAssumption DEF ConfigTypeInv, TypeInv, TypeOK
  <2> QED
    BY <2>1, OffsetType DEF Offset
<1>within. ~rolledBack => WithinAllowance
  BY DEF PerSaveInv
<1>budget. ~rolledBack /\ Running =>
               Budget(writes, Offset, pulse_address, PlacedCount, Pending, Allowance)
  BY DEF PerSaveInv, TaskBudget
<1>written. Written = {} => ~Running
  BY <1>gap DEF PrefixInv
<1>same. ASSUME UNCHANGED nvs
         PROVE  Written' = Written /\ Last' = Last /\ Stored' = Stored
  BY <1>same DEF Written, WrittenIn, Last, LastEntry, Stored
<1> HIDE DEF Offset
<1> USE DEF PutSteps
\* Steps that change nothing of Meter and keep or extend the allowance.
<1>more. ASSUME UNCHANGED <<nvs, saved, writes, rolledBack, INITIAL_ENERGY, pc, pulses,
                            pulse_address>>,
                Allowance <= Allowance', console' # "idle"
         PROVE  PerSaveInv'
  <2>1. /\ (Running' <=> Running) /\ PlacedCount' = PlacedCount /\ Pending' = Pending
        /\ Written' = Written
    BY <1>more, <1>same DEF Running, PlacedCount, Pending
  <2>2. ~rolledBack => WithinAllowance'
    <3> HIDE DEF Allowance
    <3> QED
      BY <1>allow, <1>more, <1>type, <1>within DEF WithinAllowance, IsLast
  <2>3. ~rolledBack /\ Running => TaskBudget'
    <3>1. Pending \in Int
      BY DEF Pending
    <3>2. ~rolledBack /\ Running =>
              Budget(writes, Offset, pulse_address, PlacedCount, Pending, Allowance')
      <4> HIDE DEF Allowance, PlacedCount, Pending
      <4> QED
        BY <1>allow, <1>budget, <1>more, <1>type, <3>1, BudgetMore
    <3> QED
      BY <1>more, <1>offset, <2>1, <3>2, BudgetsPrimed
  <2> QED
    BY <1>more, <2>1, <2>2, <2>3 DEF PerSaveInv
<1>0. ASSUME UNCHANGED vars, UNCHANGED <<console, saves, INITIAL_E>>
      PROVE  PerSaveInv'
  <2>1. UNCHANGED <<nvs, saved, writes, rolledBack, INITIAL_ENERGY, pc, pulses,
                    pulse_address>>
    BY <1>0 DEF vars, flashVars
  <2>2. /\ Allowance' = Allowance /\ Offset' = Offset
        /\ (Running' <=> Running) /\ PlacedCount' = PlacedCount /\ Pending' = Pending
        /\ Written' = Written /\ Last' = Last /\ Stored' = Stored
    BY <1>0, <1>offset, <1>same, <2>1
    DEF Allowance, SaveShares, Running, PlacedCount, Pending
  <2>3. /\ WithinAllowance' <=> WithinAllowance
        /\ TaskBudget' <=> TaskBudget
        /\ BootBudget' <=> BootBudget
    BY <2>1, <2>2, BudgetsPrimed DEF WithinAllowance, IsLast, TaskBudget, BootBudget
  <2> QED
    BY <1>0, <2>1, <2>2, <2>3 DEF PerSaveInv
<1>1. ASSUME NEW e \in InitialEnergies, SetAux(e)
      PROVE  PerSaveInv'
  BY <1>0, <1>1 DEF SetAux
<1>2. CASE SaveConfig
  <2>1. SaveShares' = SaveShares + 2 * Share
    BY <1>2, <1>type DEF SaveConfig, SaveShares, Share
  <2>2. Allowance <= Allowance'
    BY <1>2, <1>allow, <1>shares, <1>type, <2>1 DEF SaveConfig, Allowance
  <2> QED
    BY <1>2, <1>more, <2>2 DEF SaveConfig, vars, flashVars
<1>3. CASE SetEnergy
  <2>1. /\ UNCHANGED <<nvs, saved, writes, rolledBack, pc, pulses, pulse_address, saves>>
        /\ console = "set_energy" /\ console' = "put" /\ Running /\ Running'
    BY <1>3, <1>type DEF SetEnergy, flashVars, ConsoleInv, Running
  <2>2. /\ SaveShares' = SaveShares
        /\ Allowance = SaveShares - Share /\ Allowance' = SaveShares - 1
        /\ PlacedCount' = PlacedCount /\ Pending' = Pending /\ Written' = Written
    BY <1>same, <2>1 DEF SaveShares, Allowance, PlacedCount, Pending
  <2>3. ~rolledBack => WithinAllowance'
    BY <1>shares, <1>type, <1>within, <2>1, <2>2 DEF WithinAllowance, IsLast
  <2>4. ~rolledBack => TaskBudget'
    <3>1. PlacedCount \in Nat /\ Pending \in Nat
      BY <1>type, MeterAssumption DEF PlacedCount, Pending, PerSaveInv
    <3>2. ~rolledBack => Budget(writes, Offset', pulse_address, PlacedCount, Pending,
                                Allowance + Share - 1)
      <4> HIDE DEF PlacedCount, Pending, Allowance
      <4> QED
        BY <1>allow, <1>budget, <1>offset, <1>type, <2>1, <3>1, BudgetNew
    <3>3. Allowance + Share - 1 = Allowance'
      BY <1>shares, <1>type, <2>2
    <3> QED
      BY <2>1, <2>2, <3>2, <3>3, BudgetsPrimed
  <2> QED
    BY <2>1, <2>2, <2>3, <2>4 DEF PerSaveInv
<1>4. CASE ConsolePut
  <2>1. pulse_address' = pulse_address
    BY <1>4, ConsoleStaysPut DEF ConsolePut
  <2>2. Allowance' = Allowance
    BY <1>4 DEF ConsolePut, Allowance, SaveShares
  <2> QED
    BY <1>4, <1>allow, <1>more, <2>1, <2>2 DEF ConsolePut, flashVars
<1>5. CASE ConsoleOpen
  <2>1. SaveShares' = SaveShares
    BY <1>5 DEF ConsoleOpen, SaveShares
  <2>2. Allowance <= Allowance'
    BY <1>5, <1>shares, <2>1 DEF ConsoleOpen, Allowance
  <2> QED
    BY <1>5, <1>more, <2>2 DEF ConsoleOpen, ghostVars, taskVars
<1>6. CASE ConsoleSet
  <2>1. /\ target \in Address /\ Running /\ Running'
        /\ UNCHANGED <<rolledBack, pc, pulses, pulse_address, saves, INITIAL_ENERGY>>
        /\ console = "set" /\ console' = "restart"
    BY <1>6, <1>type DEF ConsoleSet, taskVars, ConsoleInv, Running
  <2>2. /\ SaveShares' = SaveShares
        /\ Allowance = SaveShares - 1 /\ Allowance' = SaveShares
        /\ PlacedCount' = PlacedCount /\ Pending' = Pending
    BY <2>1 DEF SaveShares, Allowance, PlacedCount, Pending
  <2>3. CASE UNCHANGED <<nvs, used, ghostVars>>
    BY <1>more, <1>shares, <2>1, <2>2, <2>3 DEF ghostVars
  <2>4. CASE WriteEntry(target, initial_pulses)
    <3>1. writes' = [writes EXCEPT ![target] = @ + 1]
      BY <2>4 DEF WriteEntry
    <3>2. ~rolledBack => WithinAllowance'
      <4>1. ASSUME ~rolledBack, NEW a \in Address, ~IsLast(a)
            PROVE  writes'[a] <= Allowance'
        <5>1. writes[a] <= SaveShares - 1
          BY <1>within, <2>2, <4>1 DEF WithinAllowance
        <5> QED
          BY <1>shares, <1>type, <2>1, <2>2, <3>1, <5>1
      <4> QED
        BY <4>1 DEF WithinAllowance, IsLast
    <3>3. ~rolledBack => TaskBudget'
      <4>1. Pending \in Int
        BY DEF Pending
      <4>2. ~rolledBack => Budget(writes', Offset, pulse_address, PlacedCount, Pending,
                                  Allowance + 1)
        <5> HIDE DEF PlacedCount, Pending, Allowance
        <5> QED
          BY <1>allow, <1>budget, <1>type, <2>1, <3>1, <4>1, BudgetWrite
      <4>3. Allowance + 1 = Allowance'
        BY <1>shares, <2>2
      <4> QED
        BY <1>offset, <2>1, <2>2, <4>2, <4>3, BudgetsPrimed
    <3>4. Written' # {}
      BY <1>gap, <2>1 DEF PrefixInv
    <3> QED
      BY <2>1, <3>2, <3>3, <3>4 DEF PerSaveInv
  <2> QED
    BY <1>6, <2>3, <2>4 DEF ConsoleSet
<1>7. CASE Reboot
  <2>1. /\ UNCHANGED <<nvs, saved, writes, rolledBack, saves, INITIAL_E>>
        /\ INITIAL_ENERGY' = INITIAL_E /\ console' = "idle" /\ ~Running'
        /\ pc' \notin PutSteps
    BY <1>7 DEF Reboot, PoweredOn, flashVars, Running, BootSteps
  <2>2. /\ Written' = Written /\ Last' = Last /\ Stored' = Stored
        /\ SaveShares' = SaveShares /\ Allowance' = SaveShares + Share
    BY <1>same, <2>1 DEF SaveShares, Allowance
  <2>3. ~rolledBack => WithinAllowance'
    <3>1. Allowance <= Allowance'
      BY <1>allow, <2>2
    <3> HIDE DEF Allowance
    <3> QED
      BY <1>allow, <1>type, <1>within, <2>1, <3>1 DEF WithinAllowance, IsLast
  <2>4. ~rolledBack /\ Written # {} /\ saved <= Stored => BootBudget'
    <3>1. CASE console = "idle"
      <4>1. Offset' = Offset /\ Allowance' = Allowance
        BY <1>offset, <2>1, <2>2, <3>1 DEF PerSaveInv, Allowance
      <4>2. BootBudget' <=> BootBudget
        BY <2>1, <2>2, <4>1, BudgetsPrimed DEF BootBudget
      <4> QED
        BY <3>1, <4>2 DEF PerSaveInv
    <3>2. CASE console # "idle" /\ ~rolledBack /\ Written # {}
      <4>1. \A a \in Address : ~IsLast(a) => writes[a] <= SaveShares
        <5> HIDE DEF Allowance
        <5> QED
          BY <1>allow, <1>shares, <1>type, <1>within, <3>2 DEF WithinAllowance
      <4>2. Stored \in Nat /\ 0 \in 0 .. 1
        BY <1>gap, <1>type, <3>2, StoredType
      <4>3. Budget(writes, Offset', First(Last), Stored, 0, SaveShares + Share)
        BY <1>offset, <1>shares, <1>type, <4>1, <4>2, BudgetFresh
      <4> QED
        BY <2>1, <2>2, <4>3, BudgetsPrimed
    <3> QED
      BY <3>1, <3>2
  <2> QED
    BY <2>1, <2>2, <2>3, <2>4 DEF PerSaveInv
<1>8. CASE UNCHANGED allVars
  BY <1>0, <1>8 DEF allVars, configVars, consoleVars
<1> QED
  BY <1>1, <1>2, <1>3, <1>4, <1>5, <1>6, <1>7, <1>8
  DEF ConsoleStep, ConfigPowerLoss, Restart

LEMMA PerSaveStep ==
    ASSUME NoEvenWrap
    PROVE  ConfigTypeInv /\ ConfigTypeInv' /\ GapInv /\ GapInv' /\ PerSaveInv
           /\ [ConfigNext]_allVars => PerSaveInv'
  BY PerSavePulseStep, PerSaveConsoleStep DEF ConfigNext

\* Until a boot rolls the counter back, an entry takes its share and two more for each
\* save, whatever the console and the pulse task do to each other's stores.
THEOREM WearsPerSave ==
    ASSUME NoEvenWrap
    PROVE  ConfigSpec => []WearPerSave
<1>1. MAX_WRITES > 1
  <2>1. MAX_WRITES = 1 => UINT32 % MAX_WRITES \in 0 .. 0
    BY UintAssumption, GeometryAssumption, Division
  <2> QED
    BY <2>1, GeometryAssumption DEF NoEvenWrap
<1>2. ConfigTypeInv /\ PerSaveInv => WearPerSave
  <2> SUFFICES ASSUME ConfigTypeInv, PerSaveInv, ~rolledBack,
                      NEW a \in Address, ~IsLast(a)
               PROVE  writes[a] <= (2 * saves + 1) * Share
    BY DEF WearPerSave, Share
  <2>1. /\ saves \in Nat /\ Share \in Nat
        /\ Allowance <= SaveShares + Share /\ SaveShares \in Int /\ Allowance \in Int
        /\ writes[a] \in Nat
    <3>1. saves \in Nat
      BY ConfigAssumption DEF ConfigTypeInv, ConfigTypeOK
    <3>2. writes[a] \in Nat
      BY DEF ConfigTypeInv, TypeInv, TypeOK, FlashTypeOK
    <3> QED
      BY <3>1, <3>2, ShareType, AllowanceType
  <2>2. writes[a] <= Allowance
    BY DEF PerSaveInv, WithinAllowance
  <2>3. SaveShares + Share = (2 * saves + 1) * Share
    <3> HIDE DEF Share
    <3> QED
      BY <2>1 DEF SaveShares
  <2> QED
    BY <2>1, <2>2, <2>3
<1> QED
  BY <1>1, <1>2, ConfigTypeInit, ConfigTypeStep, GapInit, GapStep, PerSaveInit, PerSaveStep,
     PTL DEF ConfigSpec
=============================================================================
