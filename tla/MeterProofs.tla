----------------------------- MODULE MeterProofs -----------------------------
(***************************************************************************)
(* Theorems about Meter, for every geometry of the store, every capacity   *)
(* and every configured energy:                                            *)
(*   TypeCorrect       the state has its types;                            *)
(*   RecoversExactly   a boot comes back to the last value stored in the   *)
(*                     first page and to its address;                      *)
(*   LosesAtMostOne    a reset costs at most the pulse being stored;       *)
(*   PublishesDurable  the input registers show only counts that a reset   *)
(*                     would bring back;                                   *)
(*   StoreInOrder      of two written addresses the later one holds the    *)
(*                     larger count;                                       *)
(*   LevelsWear        no entry but the last takes more than its share of  *)
(*                     writes, unless shares end where the count wraps;    *)
(*   IsDurableCounter  the pulse task takes only steps of DurableCounter,  *)
(*                     while its pulses fit in the first page.             *)
(***************************************************************************)
EXTENDS MeterDurable, FiniteSetTheorems, TLAPS

-----------------------------------------------------------------------------
(* The inductive invariant *)

First(e) == At(1, 1, e)

\* The boot steps prepare partition 1, in order.
BootInv ==
    /\ pc = "read_page" => storage[1].isFull = FALSE
    /\ pc = "read_count" \/ Running => storage[1].page_index = 1
    /\ pc \in {"read_page", "read_count"} => pulse_address.partition = 1
    /\ Running => pulse_address \in Address /\ 1 \in namespaces[1]

TypeInv == TypeOK /\ BootInv

-----------------------------------------------------------------------------
(* Operators *)

\* search_init_partition always stops at the first partition: nothing marks a
\* partition full.
LEMMA SearchStopsAtFirst ==
    ASSUME FlashTypeOK
    PROVE  Searched = {1} /\ FoundPartition = 1
<1>1. 1 \in Partitions
  BY GeometryAssumption DEF Partitions
<1>2. storage[1].isFull # TRUE
  BY <1>1, NotFoundAssumption DEF FlashTypeOK
<1>3. ASSUME NEW p \in Partitions, p # 1
      PROVE  p \notin Searched
  <2>1. 1 \in 1 .. (p - 1)
    BY <1>3, GeometryAssumption DEF Partitions
  <2> QED
    BY <1>2, <2>1 DEF Searched
<1>4. 1 \in Searched
  BY <1>1 DEF Searched
<1>5. Searched = {1}
  BY <1>3, <1>4 DEF Searched
<1> QED
  BY <1>5 DEF FoundPartition

\* put_nvs stays inside the store.
LEMMA NextAddressType ==
    ASSUME NEW a \in Address, ~IsLast(a)
    PROVE  NextAddress(a) \in Address
<1>1. CASE a.entry_index < MAX_ENTRIES - 1
  <2>1. NextAddress(a) = [a EXCEPT !.entry_index = @ + 1]
    BY <1>1 DEF NextAddress
  <2>2. a.entry_index + 1 \in Entries
    BY <1>1, GeometryAssumption DEF Address, Entries
  <2> QED
    BY <2>1, <2>2 DEF Address
<1>2. CASE ~(a.entry_index < MAX_ENTRIES - 1) /\ a.page < MAX_PAGES
  <2>1. NextAddress(a) = [a EXCEPT !.page = @ + 1, !.entry_index = 0]
    BY <1>2 DEF NextAddress
  <2>2. a.page + 1 \in Pages /\ 0 \in Entries
    BY <1>2, GeometryAssumption DEF Address, Pages, Entries
  <2> QED
    BY <2>1, <2>2 DEF Address
<1>3. CASE ~(a.entry_index < MAX_ENTRIES - 1) /\ ~(a.page < MAX_PAGES)
  <2>1. NextAddress(a) = At(a.partition + 1, 1, 0)
    BY <1>3 DEF NextAddress, At
  <2>2. /\ a.partition + 1 \in Partitions
        /\ 1 \in Pages
        /\ 0 \in Entries
    BY <1>3, GeometryAssumption DEF Address, IsLast, Partitions, Pages, Entries
  <2> QED
    BY <2>1, <2>2 DEF Address, At
<1> QED
  BY <1>1, <1>2, <1>3

\* Both halves of a measure are Modbus words.
LEMMA MeasureType ==
    ASSUME NEW n \in Nat
    PROVE  /\ normalize_pulses(n) \in Nat
           /\ normalize_pulses(n) \div WORD \in Nat
           /\ normalize_pulses(n) % WORD \in Nat
<1>1. /\ 200 * n + IMPULSE_CONVERSION \in Nat
      /\ 2 * IMPULSE_CONVERSION \in Nat \ {0}
  BY MeterAssumption
<1>2. ASSUME NEW a \in Nat, NEW b \in Nat \ {0}
      PROVE  a \div b \in Nat /\ a % b \in Nat
  BY <1>2
<1>3. (200 * n + IMPULSE_CONVERSION) \div (2 * IMPULSE_CONVERSION) \in Nat
  BY <1>1, <1>2
<1>4. normalize_pulses(n) \in Nat
  BY <1>2, <1>3, UintAssumption DEF normalize_pulses
<1> QED
  BY <1>2, <1>4, MeterAssumption

\* The first page lies in the store.
LEMMA FirstPageIsAddress ==
    ASSUME NEW e \in Entries
    PROVE  First(e) \in Address
  BY GeometryAssumption DEF First, At, Address, Partitions, Pages, Entries

\* A boot looks at an entry of the page it opened.
LEMMA LastEntryType ==
    ASSUME NEW p \in Partitions, NEW g \in Pages
    PROVE  LastEntry(p, g) \in Entries
<1> DEFINE W == WrittenIn(p, g)
<1>1. IsFiniteSet(Entries) /\ Cardinality(Entries) = MAX_ENTRIES
  BY FS_Interval, GeometryAssumption DEF Entries
<1>2. W \subseteq Entries
  BY DEF WrittenIn
<1>3. IsFiniteSet(W) /\ Cardinality(W) <= MAX_ENTRIES /\ Cardinality(W) \in Nat
  BY <1>1, <1>2, FS_Subset, FS_CardinalityType
<1>4. W # {} => Cardinality(W) # 0
  BY <1>3, FS_EmptySet
<1> QED
  BY <1>3, <1>4, GeometryAssumption DEF LastEntry, Entries

-----------------------------------------------------------------------------
(* Type correctness *)

\* A board that has never counted has the types.
LEMMA TypeInvInit == Init => TypeInv
<1> SUFFICES ASSUME Init PROVE TypeInv
  OBVIOUS
<1>1. /\ 0 \in 0 .. NvsCapacity
      /\ 0 \in Entries
      /\ 0 \in 0 .. MaxRestarts
      /\ ZeroAddress \in AddressVar
  BY CapacityAssumption, GeometryAssumption, MeterAssumption
  DEF Entries, ZeroAddress, AddressVar
<1>2. TypeOK
  BY <1>1 DEF Init, FlashInit, TypeOK, FlashTypeOK, PoweredOn, Steps, BootSteps, NoAddress
<1>3. BootInv
  BY DEF Init, PoweredOn, BootInv, Running, BootSteps
<1> QED
  BY <1>2, <1>3 DEF TypeInv

\* No step of the task, the interrupt or a reset breaks the types.
LEMMA TypeInvStep == TypeInv /\ [Next]_vars => TypeInv'
<1> SUFFICES ASSUME TypeInv, [Next]_vars PROVE TypeInv'
  OBVIOUS
<1> USE DEF TypeInv, TypeOK, BootInv, Running, BootSteps, Steps, LoopSteps,
            InitialSave, PublishSteps, PutSteps
<1>part. 1 \in Partitions /\ 1 \in Pages /\ 0 \in Entries /\ First(0) \in Address
  BY GeometryAssumption, FirstPageIsAddress DEF Partitions, Pages, Entries
<1>vars. Address \subseteq AddressVar
  BY DEF Address, AddressVar, Partitions, Pages
<1>1. CASE Reset
  <2>1. ZeroAddress \in AddressVar
    BY <1>part, GeometryAssumption DEF ZeroAddress, AddressVar
  <2>2. restarts' \in 0 .. MaxRestarts
    BY <1>1, MeterAssumption DEF Reset
  <2>3. FlashTypeOK'
    BY <1>1 DEF Reset, FlashTypeOK, flashVars
  <2> QED
    BY <1>1, <2>1, <2>2, <2>3 DEF Reset, PoweredOn, flashVars
<1>2. CASE PulseEdge
  BY <1>2 DEF PulseEdge, FlashTypeOK, flashVars, taskVars
<1>3. CASE pulse_isr_init
  BY <1>3 DEF pulse_isr_init, FlashTypeOK, flashVars
<1>4. CASE CreateSemaphore
  <2>1. pulse_address' \in AddressVar
    BY <1>4, GeometryAssumption DEF CreateSemaphore, AddressVar
  <2>2. FlashTypeOK'
    BY <1>4 DEF CreateSemaphore, FlashTypeOK, flashVars
  <2> QED
    BY <1>4, <2>1, <2>2 DEF CreateSemaphore, flashVars
<1>5. CASE SearchPartition
  <2>1. Searched = {1} /\ FoundPartition = 1
    BY SearchStopsAtFirst
  <2>2. /\ storage' \in [Partitions -> [isFull     : {FALSE, NotFound},
                                        page_index : {1, NotFound}]]
        /\ storage'[1].isFull = FALSE
        /\ storage'[1].page_index = storage[1].page_index
    <3>1. /\ storage'[1] = IF storage[1].isFull = NotFound
                             THEN [storage[1] EXCEPT !.isFull = FALSE]
                             ELSE storage[1]
          /\ \A p \in Partitions \ {1} : storage'[p] = storage[p]
          /\ storage' = [p \in Partitions |-> storage'[p]]
      BY <1>5, <1>part, <2>1 DEF SearchPartition, search_init_partition
    <3>2. storage'[1] \in [isFull : {FALSE, NotFound}, page_index : {1, NotFound}]
      BY <1>part, <3>1 DEF FlashTypeOK
    <3> QED
      BY <1>part, <3>1, <3>2 DEF FlashTypeOK
  <2>3. used' \in [Partitions -> Nat]
    BY <1>5, <1>part, <2>1
    DEF SearchPartition, search_init_partition, FlashTypeOK
  <2>4. FlashTypeOK'
    BY <1>5, <2>2, <2>3 DEF SearchPartition, ghostVars, FlashTypeOK
  <2>5. pulse_address' \in AddressVar /\ pulse_address'.partition = 1
    BY <1>5, <2>1, GeometryAssumption DEF SearchPartition, AddressVar
  <2> QED
    BY <1>5, <2>2, <2>4, <2>5 DEF SearchPartition
<1>6. CASE ReadPageIndex
  <2>1. pulse_address.partition = 1 /\ PageIndex(1) = 1
    BY <1>6, <1>part DEF ReadPageIndex, PageIndex, FlashTypeOK
  <2>2. /\ storage' \in [Partitions -> [isFull     : {FALSE, NotFound},
                                        page_index : {1, NotFound}]]
        /\ storage'[1].page_index = 1
        /\ storage'[1].isFull = storage[1].isFull
    BY <1>6, <1>part, <2>1 DEF ReadPageIndex, read_pvcounter_from_storage, FlashTypeOK
  <2>3. used' \in [Partitions -> Nat]
    BY <1>6, <1>part, <2>1
    DEF ReadPageIndex, read_pvcounter_from_storage, FlashTypeOK
  <2>4. FlashTypeOK'
    BY <1>6, <2>2, <2>3 DEF ReadPageIndex, ghostVars, FlashTypeOK
  <2> QED
    BY <1>6, <2>1, <2>2, <2>4 DEF ReadPageIndex
<1>7. CASE ReadCount
  <2> DEFINE a == First(LastEntry(1, 1))
  <2>1. pulse_address.partition = 1 /\ PageIndex(1) = 1
    BY <1>7, <1>part DEF ReadCount, PageIndex, FlashTypeOK
  <2>2. a \in Address /\ a.partition = 1 /\ a.page = 1
    BY <1>part, LastEntryType, FirstPageIsAddress DEF First, At
  <2>3. /\ get_pulse_counter_info(1, 1)
        /\ pulses' = IF nvs[a] = NotFound THEN 0 ELSE nvs[a]
        /\ pulse_address' = a
    BY <1>7, <2>1 DEF ReadCount, First
  <2>4. namespaces' \in [Partitions -> SUBSET Pages] /\ 1 \in namespaces'[1]
    BY <1>part, <2>3 DEF get_pulse_counter_info, FlashTypeOK
  <2>5. nvs' \in [Address -> Nat \cup {NotFound}]
    BY <2>2, <2>3 DEF get_pulse_counter_info, FlashTypeOK, First
  <2>6. /\ writes' \in [Address -> Nat]
        /\ saved' \in Nat
        /\ savedAt' \in Address \cup {NoAddress}
    BY <2>2, <2>3 DEF get_pulse_counter_info, FlashTypeOK, First
  <2>7. used' \in [Partitions -> Nat]
    BY <1>part, <2>3 DEF get_pulse_counter_info, FlashTypeOK
  <2>8. FlashTypeOK'
    BY <1>7, <2>4, <2>5, <2>6, <2>7 DEF ReadCount, FlashTypeOK
  <2>9. pulses' \in Nat
    BY <2>2, <2>3 DEF FlashTypeOK
  <2> QED
    BY <1>7, <1>vars, <2>2, <2>3, <2>4, <2>8, <2>9 DEF ReadCount
<1>8. CASE PublishHigh
  <2>1. inputRegister' \in [high : Nat, low : Nat]
    BY <1>8, MeasureType DEF PublishHigh
  <2> QED
    BY <1>8, <2>1 DEF PublishHigh, FlashTypeOK, flashVars
<1>9. CASE PublishLow
  <2>1. inputRegister' \in [high : Nat, low : Nat]
    BY <1>9, MeasureType DEF PublishLow
  <2> QED
    BY <1>9, <2>1 DEF PublishLow, FlashTypeOK, flashVars
<1>10. CASE TakeSemaphore
  BY <1>10 DEF TakeSemaphore, FlashTypeOK, flashVars
<1>11. CASE SampleHigh
  <2>1. pulses' \in Nat
    BY <1>11 DEF SampleHigh
  <2>2. FlashTypeOK'
    BY <1>11 DEF SampleHigh, FlashTypeOK, flashVars
  <2> QED
    BY <1>11, <2>1, <2>2 DEF SampleHigh, flashVars
<1>12. CASE SampleLow
  BY <1>12 DEF SampleLow, FlashTypeOK, flashVars
<1>13. CASE PutAddress
  <2>1. pulse_address' \in Address
    BY <1>13, NextAddressType DEF PutAddress
  <2> QED
    BY <1>13, <1>vars, <2>1 DEF PutAddress, flashVars, FlashTypeOK
<1>14. CASE FlashFull
  BY <1>14 DEF FlashFull, FlashTypeOK, flashVars
<1>15. CASE SaveOpen
  <2> DEFINE p == pulse_address.partition
             g == pulse_address.page
  <2>1. p \in Partitions /\ g \in Pages
    BY <1>15 DEF SaveOpen, Address
  <2>2. /\ namespaces' \in [Partitions -> SUBSET Pages]
        /\ 1 \in namespaces'[1]
        /\ used' \in [Partitions -> Nat]
    BY <1>15, <1>part, <2>1 DEF SaveOpen, OpenPage, FlashTypeOK
  <2>3. FlashTypeOK'
    BY <1>15, <2>2 DEF SaveOpen, ghostVars, FlashTypeOK
  <2> QED
    BY <1>15, <2>2, <2>3 DEF SaveOpen, PutReturns
<1>16. CASE SaveSet
  <2>1. pulse_address \in Address /\ pulse_address.partition \in Partitions
    BY <1>16 DEF SaveSet, Address
  <2>2. /\ nvs' \in [Address -> Nat \cup {NotFound}]
        /\ used' \in [Partitions -> Nat]
        /\ saved' \in Nat
        /\ savedAt' \in Address \cup {NoAddress}
        /\ writes' \in [Address -> Nat]
    BY <1>16, <2>1 DEF SaveSet, WriteEntry, ghostVars, FlashTypeOK
  <2>3. FlashTypeOK'
    BY <1>16, <2>2 DEF SaveSet, FlashTypeOK
  <2> QED
    BY <1>16, <2>3 DEF SaveSet, PutReturns
<1>17. CASE EndHoldoff
  BY <1>17 DEF EndHoldoff, FlashTypeOK, flashVars
<1>18. CASE UNCHANGED vars
  <2>1. FlashTypeOK'
    BY <1>18 DEF vars, flashVars, FlashTypeOK
  <2> QED
    BY <1>18, <2>1 DEF vars, flashVars
<1> QED
  BY <1>1, <1>2, <1>3, <1>4, <1>5, <1>6, <1>7, <1>8, <1>9, <1>10, <1>11, <1>12,
     <1>13, <1>14, <1>15, <1>16, <1>17, <1>18
  DEF Next, TaskStep, PulseEdgeAborts, PowerLoss

\* The state always has its types.
THEOREM TypeCorrect == Spec => []TypeOK
<1>1. TypeInv => TypeOK
  BY DEF TypeInv
<1> QED
  BY <1>1, TypeInvInit, TypeInvStep, PTL DEF Spec

-----------------------------------------------------------------------------
(* Recovery *)

Written == WrittenIn(1, 1)
Last    == LastEntry(1, 1)

\* The written entries of the first page are its first ones.
PrefixInv ==
    /\ Written # {} => \E k \in Entries : Written = 0 .. k
    /\ Running => Written # {}

\* The last value stored in the first page is under the last of them.
SavedInv ==
    InFirstPage(savedAt) => /\ Written # {}
                            /\ savedAt = First(Last)
                            /\ nvs[savedAt] = saved

\* While the task works in the first page its address is the last written entry,
\* the next one while that is being stored, or any after the partition has run
\* out of slots and nothing can be stored any more.
AddressInv ==
    Running /\ InFirstPage(pulse_address) =>
        \/ pulse_address.entry_index = Last
        \/ pulse_address.entry_index = Last + 1 /\ pc \in {"open", "set"}
        \/ ~HasRoom(1)

StoreInv == PrefixInv /\ SavedInv /\ AddressInv

\* The entries written without a gap are as many as the last index says.
LEMMA PrefixCardinality ==
    ASSUME NEW k \in Entries
    PROVE  0 .. k # {} /\ Cardinality(0 .. k) - 1 = k
<1>1. k \in Nat
  BY GeometryAssumption DEF Entries
<1>2. Cardinality(0 .. k) = k + 1
  BY <1>1, FS_Interval
<1> QED
  BY <1>1, <1>2

\* Counting entries finds the last one when they were written without a gap.
LEMMA LastOfPrefix ==
    ASSUME PrefixInv
    PROVE  /\ Written = {} => Last = 0
           /\ Written # {} => Written = 0 .. Last /\ Last \in Entries
<1>1. Written = {} => Last = 0
  BY DEF Written, Last, LastEntry
<1>2. ASSUME Written # {}
      PROVE  Written = 0 .. Last /\ Last \in Entries
  <2>1. PICK k \in Entries : Written = 0 .. k
    BY <1>2 DEF PrefixInv
  <2>2. Last = Cardinality(Written) - 1
    BY <1>2 DEF Written, Last, LastEntry
  <2>3. Last = k
    BY <2>1, <2>2, PrefixCardinality
  <2> QED
    BY <2>1, <2>3
<1> QED
  BY <1>1, <1>2

\* The written entries of the first page, in the words of FlashStore.
LEMMA WrittenDef ==
    ASSUME NEW e \in Entries
    PROVE  e \in Written <=> nvs[First(e)] # NotFound
  BY DEF Written, WrittenIn, First

\* A boot always looks at the first page.
LEMMA BootReadsFirstPage ==
    ASSUME TypeInv
    PROVE  /\ RecoveredAddress = First(Last)
           /\ RecoveredCount = IF nvs[First(Last)] = NotFound
                               THEN 0 ELSE nvs[First(Last)]
<1>1. FoundPartition = 1
  BY SearchStopsAtFirst DEF TypeInv, TypeOK
<1>2. PageIndex(1) = 1
  <2>1. 1 \in Partitions
    BY GeometryAssumption DEF Partitions
  <2>2. storage[1].page_index \in {1, NotFound}
    BY <2>1 DEF TypeInv, TypeOK, FlashTypeOK
  <2> QED
    BY <2>2 DEF PageIndex
<1> QED
  BY <1>1, <1>2 DEF RecoveredAddress, RecoveredCount, First, Last

\* An erased store is in order.
LEMMA StoreInvInit == Init => StoreInv
<1> SUFFICES ASSUME Init PROVE StoreInv
  OBVIOUS
<1>1. Written = {}
  BY WrittenDef, FirstPageIsAddress DEF Init, FlashInit, Written, WrittenIn
<1>2. ~InFirstPage(savedAt)
  BY DEF Init, FlashInit, NoAddress, ZeroAddress, InFirstPage
<1>3. ~Running
  BY DEF Init, PoweredOn, Running, BootSteps
<1> QED
  BY <1>1, <1>2, <1>3 DEF StoreInv, PrefixInv, SavedInv, AddressInv

\* Every step keeps the first page gapless and its last entry the newest.
LEMMA StoreInvStep == TypeInv /\ TypeInv' /\ StoreInv /\ [Next]_vars => StoreInv'
<1> SUFFICES ASSUME TypeInv, TypeInv', StoreInv, [Next]_vars PROVE StoreInv'
  OBVIOUS
<1>part. 1 \in Partitions /\ 1 \in Pages /\ 0 \in Entries
  BY GeometryAssumption DEF Partitions, Pages, Entries
<1>flash. FlashTypeOK /\ FlashTypeOK'
  BY DEF TypeInv, TypeOK
<1>first. \A e \in Entries : First(e) \in Address
  BY FirstPageIsAddress
<1>last. /\ Written = {} => Last = 0
         /\ Written # {} => Written = 0 .. Last
         /\ Last \in Entries
  BY LastOfPrefix, <1>part DEF StoreInv
<1>written. \A e \in Entries : e \in Written <=> nvs[First(e)] # NotFound
  BY WrittenDef
<1>same. ASSUME UNCHANGED nvs
         PROVE  Written' = Written /\ Last' = Last
  BY <1>same DEF Written, WrittenIn, Last, LastEntry
\* Steps that store nothing, seen from the address they leave.
<1>keep. ASSUME UNCHANGED <<nvs, saved, savedAt>>,
                Running' => Running,
                Running' /\ InFirstPage(pulse_address') =>
                    \/ pulse_address'.entry_index = Last
                    \/ /\ pulse_address'.entry_index = Last + 1
                       /\ pc' \in {"open", "set"}
                    \/ ~HasRoom(1)'
         PROVE  StoreInv'
  BY <1>keep, <1>same DEF StoreInv, PrefixInv, SavedInv, AddressInv
<1> USE DEF Running, BootSteps
<1>1. CASE Reset
  BY <1>1, <1>keep DEF Reset, PoweredOn, flashVars
<1>2. CASE PulseEdge
  BY <1>2, <1>keep DEF PulseEdge, flashVars, taskVars, StoreInv, AddressInv, HasRoom
<1>3. CASE pulse_isr_init
  BY <1>3, <1>keep DEF pulse_isr_init, flashVars
<1>4. CASE CreateSemaphore
  BY <1>4, <1>keep DEF CreateSemaphore, flashVars
<1>5. CASE SearchPartition
  BY <1>5, <1>keep DEF SearchPartition, ghostVars
<1>6. CASE ReadPageIndex
  BY <1>6, <1>keep DEF ReadPageIndex, ghostVars
<1>7. CASE ReadCount
  <2> DEFINE a == First(Last)
  <2>1. pulse_address.partition = 1 /\ PageIndex(1) = 1
    BY <1>7, <1>part, <1>flash DEF ReadCount, PageIndex, FlashTypeOK, TypeInv, BootInv
  <2>2. get_pulse_counter_info(1, 1) /\ pulse_address' = a
    BY <1>7, <2>1 DEF ReadCount, First, Last
  <2>3. a \in Address
    BY <1>first, <1>last
  <2>4. pulse_address'.entry_index = Last
    BY <2>2 DEF First, At
  <2>5. CASE Written # {}
    <3>1. nvs[a] # NotFound
      BY <1>last, <1>written, <2>5, GeometryAssumption DEF Entries
    <3>2. UNCHANGED <<nvs, saved, savedAt>>
      BY <1>flash, <2>2, <2>3, <3>1 DEF get_pulse_counter_info, First, Last, FlashTypeOK
    <3>3. Written' = Written /\ Last' = Last
      BY <1>same, <3>2
    <3> QED
      BY <2>4, <2>5, <3>2, <3>3 DEF StoreInv, PrefixInv, SavedInv, AddressInv
  <2>6. CASE Written = {}
    <3>1. Last = 0 /\ nvs[a] = NotFound
      BY <1>last, <1>written, <1>part, <2>6
    <3>2. nvs' = [nvs EXCEPT ![First(0)] = 0] /\ saved' = 0 /\ savedAt' = First(0)
      BY <2>2, <3>1 DEF get_pulse_counter_info, First, Last
    <3>3. ASSUME NEW i \in Entries
          PROVE  i \in Written' <=> i = 0
      <4>1. i \in Written' <=> nvs'[First(i)] # NotFound
        BY DEF Written, WrittenIn, First
      <4>2. i # 0 => First(i) # First(0)
        BY DEF First, At
      <4> QED
        BY <1>first, <1>flash, <1>part, <1>written, <2>6, <3>2, <4>1, <4>2,
           NotFoundAssumption
        DEF FlashTypeOK
    <3>4. Written' \subseteq Entries
      BY DEF Written, WrittenIn
    <3>5. Written' = 0 .. 0
      BY <1>part, <3>3, <3>4
    <3>6. Written' # {} /\ Last' = 0
      BY <1>part, <3>5, PrefixCardinality DEF Written, Last, LastEntry
    <3>7. nvs'[First(0)] = 0
      BY <1>first, <1>part, <1>flash, <3>2 DEF FlashTypeOK
    <3> QED
      BY <1>part, <2>4, <3>1, <3>2, <3>5, <3>6, <3>7
      DEF StoreInv, PrefixInv, SavedInv, AddressInv
  <2> QED
    BY <2>5, <2>6
<1>8. CASE PublishHigh
  BY <1>8, <1>keep DEF PublishHigh, flashVars, StoreInv, AddressInv, HasRoom
<1>9. CASE PublishLow
  BY <1>9, <1>keep DEF PublishLow, flashVars, StoreInv, AddressInv, HasRoom
<1>10. CASE TakeSemaphore
  BY <1>10, <1>keep DEF TakeSemaphore, flashVars, StoreInv, AddressInv, HasRoom
<1>11. CASE SampleHigh
  BY <1>11, <1>keep DEF SampleHigh, flashVars, StoreInv, AddressInv, HasRoom
<1>12. CASE SampleLow
  BY <1>12, <1>keep DEF SampleLow, flashVars, StoreInv, AddressInv, HasRoom
<1>13. CASE PutAddress
  <2>1. pulse_address \in Address
    BY <1>13 DEF PutAddress, TypeInv, BootInv
  <2>2. InFirstPage(pulse_address') =>
            /\ InFirstPage(pulse_address)
            /\ pulse_address'.entry_index \in
                   {pulse_address.entry_index, pulse_address.entry_index + 1}
    <3>1. CASE Worn
      BY <1>13, <2>1, <3>1
      DEF PutAddress, NextAddress, InFirstPage, Address, Partitions, Pages, Entries
    <3>2. CASE ~Worn
      BY <1>13, <3>2 DEF PutAddress
    <3> QED
      BY <3>1, <3>2
  <2>3. InFirstPage(pulse_address) =>
            pulse_address.entry_index = Last \/ ~HasRoom(1)
    BY <1>13 DEF PutAddress, StoreInv, AddressInv
  <2> QED
    BY <1>13, <1>keep, <2>2, <2>3 DEF PutAddress, flashVars, HasRoom
<1>14. CASE FlashFull
  BY <1>14, <1>keep DEF FlashFull, flashVars, StoreInv, AddressInv, HasRoom
<1>15. CASE SaveOpen
  <2>1. pulse_address \in Address
    BY <1>15 DEF SaveOpen, TypeInv, BootInv
  <2>2. HasRoom(1)' => HasRoom(1)
    <3>1. used'[1] = used[1] \/ used'[1] = used[1] + 1
      BY <1>15, <1>part, <1>flash, <2>1 DEF SaveOpen, OpenPage, FlashTypeOK, Address
    <3> QED
      BY <1>part, <1>flash, <3>1, CapacityAssumption DEF HasRoom, FlashTypeOK
  <2>3. pc' = "set" \/ ~HasRoom(pulse_address.partition)
    BY <1>15 DEF SaveOpen, CanOpen
  <2> QED
    BY <1>15, <1>keep, <2>2, <2>3
    DEF SaveOpen, ghostVars, StoreInv, AddressInv, InFirstPage
<1>16. CASE SaveSet
  <2> DEFINE e == pulse_address.entry_index
  <2>1. /\ pulse_address \in Address
        /\ e \in Entries
        /\ Written # {}
    BY <1>16 DEF SaveSet, TypeInv, BootInv, Address, StoreInv, PrefixInv
  <2>2. CASE ~HasRoom(pulse_address.partition)
    BY <1>16, <1>keep, <2>2 DEF SaveSet, PutReturns, ghostVars, InFirstPage, HasRoom
  <2>3. CASE HasRoom(pulse_address.partition) /\ InFirstPage(pulse_address)
    <3>1. pulse_address = First(e)
      BY <2>1, <2>3 DEF Address, InFirstPage, First, At
    <3>2. e = Last \/ e = Last + 1
      BY <1>16, <2>3 DEF SaveSet, StoreInv, AddressInv, InFirstPage
    <3>3. nvs' = [nvs EXCEPT ![First(e)] = pulses] /\ pulses \in Nat
      BY <1>16, <2>3, <3>1 DEF SaveSet, WriteEntry, TypeInv, TypeOK
    <3>4. ASSUME NEW i \in Entries
          PROVE  i \in Written' <=> i \in Written \/ i = e
      <4>1. i \in Written' <=> nvs'[First(i)] # NotFound
        BY DEF Written, WrittenIn, First
      <4>2. i # e => First(i) # First(e)
        BY DEF First, At
      <4> QED
        BY <1>first, <1>flash, <1>written, <2>1, <3>3, <4>1, <4>2, NotFoundAssumption
        DEF FlashTypeOK
    <3>5. Written \subseteq Entries /\ Written' \subseteq Entries
      BY DEF Written, WrittenIn
    <3>6. Written' = 0 .. e
      <4>1. /\ Written = 0 .. Last
            /\ Last \in Nat
            /\ e \in Nat
            /\ e <= MAX_ENTRIES - 1
        BY <1>last, <2>1, GeometryAssumption DEF Entries
      <4>2. ASSUME NEW i \in Int
            PROVE  i \in 0 .. e <=> i \in Entries /\ (i \in Written \/ i = e)
        BY <3>2, <4>1, GeometryAssumption DEF Entries
      <4>3. 0 .. e \subseteq Int /\ Entries \subseteq Int
        BY DEF Entries
      <4> QED
        BY <3>4, <3>5, <4>2, <4>3
    <3>7. Written' # {} /\ Last' = e
      BY <2>1, <3>6, PrefixCardinality DEF Written, Last, LastEntry
    <3>8. nvs'[First(e)] = pulses
      BY <1>first, <1>flash, <2>1, <3>3 DEF FlashTypeOK
    <3>9. /\ savedAt' = First(e)
          /\ saved' = pulses
          /\ pulse_address' = pulse_address
      BY <1>16, <2>3, <3>1 DEF SaveSet, WriteEntry
    <3> QED
      BY <2>1, <3>6, <3>7, <3>8, <3>9 DEF StoreInv, PrefixInv, SavedInv, AddressInv
  <2>4. CASE HasRoom(pulse_address.partition) /\ ~InFirstPage(pulse_address)
    <3>1. \A i \in Entries : First(i) # pulse_address
      BY <2>4 DEF First, At, InFirstPage
    <3>2. \A i \in Entries : nvs'[First(i)] = nvs[First(i)]
      BY <1>16, <1>first, <1>flash, <2>4, <3>1 DEF SaveSet, WriteEntry, FlashTypeOK
    <3>3. Written' = Written
      BY <3>2 DEF Written, WrittenIn, First
    <3>4. Last' = Last
      BY <3>3 DEF Written, Last, LastEntry
    <3>5. ~InFirstPage(savedAt') /\ ~InFirstPage(pulse_address')
      BY <1>16, <2>4 DEF SaveSet, WriteEntry
    <3> QED
      BY <1>16, <3>3, <3>4, <3>5
      DEF SaveSet, StoreInv, PrefixInv, SavedInv, AddressInv
  <2> QED
    BY <2>2, <2>3, <2>4
<1>17. CASE EndHoldoff
  BY <1>17, <1>keep DEF EndHoldoff, flashVars, StoreInv, AddressInv, HasRoom
<1>18. CASE UNCHANGED vars
  BY <1>18, <1>keep DEF vars, flashVars, StoreInv, AddressInv, HasRoom
<1> QED
  BY <1>1, <1>2, <1>3, <1>4, <1>5, <1>6, <1>7, <1>8, <1>9, <1>10, <1>11, <1>12,
     <1>13, <1>14, <1>15, <1>16, <1>17, <1>18
  DEF Next, TaskStep, PulseEdgeAborts, PowerLoss

\* A boot comes back to the last value stored in the first page and to its
\* address (get_initial_pulse after put_nvs), whatever resets came between.
THEOREM RecoversExactly == Spec => []RecoverExact
<1>1. TypeInv /\ StoreInv => RecoverExact
  <2> SUFFICES ASSUME TypeInv, StoreInv, InFirstPage(savedAt)
               PROVE  RecoveredAddress = savedAt /\ RecoveredCount = saved
    BY DEF RecoverExact
  <2>1. savedAt = First(Last) /\ nvs[savedAt] = saved
    BY DEF StoreInv, SavedInv
  <2>2. saved # NotFound
    BY NotFoundAssumption DEF TypeInv, TypeOK, FlashTypeOK
  <2> QED
    BY <2>1, <2>2, BootReadsFirstPage
<1> QED
  BY <1>1, TypeInvInit, TypeInvStep, StoreInvInit, StoreInvStep, PTL DEF Spec

-----------------------------------------------------------------------------
(* The count, the store and the registers *)

Stored == nvs[First(Last)]

\* In the first page, with room to write: the task's count is the stored one, or
\* one more while put_nvs runs, and the registers show the stored one except
\* while they are being written.
CountInv ==
    Running /\ InFirstPage(pulse_address) /\ HasRoom(1) =>
        /\ pulses = IF pc \in PutSteps THEN Stored + 1 ELSE Stored
        /\ pc \in {"init_low", "publish_low"} =>
               inputRegister.high = normalize_pulses(pulses) \div WORD
        /\ pc \in LoopSteps => Published = normalize_pulses(Stored)

\* The two words of register_save make up the measure.
LEMMA WordsOfMeasure ==
    ASSUME NEW n \in Nat
    PROVE  ((n \div WORD) * WORD) + (n % WORD) = n
<1>1. ASSUME NEW m \in Int, NEW b \in Int, b > 0
      PROVE  m % b = m - b * (m \div b)
  BY <1>1
<1>2. n % WORD = n - WORD * (n \div WORD)
  BY <1>1, MeterAssumption
<1>3. ASSUME NEW a \in Int, NEW b \in Int
      PROVE  a * b = b * a /\ a * b \in Int
  BY <1>3
<1>4. WORD \in Int /\ n \div WORD \in Int
  BY MeterAssumption
<1>5. /\ (n \div WORD) * WORD = WORD * (n \div WORD)
      /\ WORD * (n \div WORD) \in Int
  BY <1>3, <1>4
<1> QED
  BY <1>2, <1>5

\* Before the task runs there is no count to compare.
LEMMA CountInvInit == Init => CountInv
  BY DEF Init, PoweredOn, CountInv, Running, BootSteps

\* Every step keeps the count, the store and the registers together.
LEMMA CountInvStep ==
    /\ TypeInv /\ TypeInv' /\ StoreInv /\ StoreInv' /\ CountInv /\ [Next]_vars
    => CountInv'
<1> SUFFICES ASSUME TypeInv, TypeInv', StoreInv, StoreInv', CountInv, [Next]_vars
             PROVE  CountInv'
  OBVIOUS
<1>part. 1 \in Partitions
  BY GeometryAssumption DEF Partitions
<1>flash. FlashTypeOK /\ FlashTypeOK'
  BY DEF TypeInv, TypeOK
<1>stored. ASSUME UNCHANGED nvs
           PROVE  Stored' = Stored
  BY <1>stored DEF Stored, Written, WrittenIn, Last, LastEntry
<1> USE DEF CountInv, Running, BootSteps, PutSteps, LoopSteps
<1>1. CASE Reset
  BY <1>1 DEF Reset, PoweredOn
<1>2. CASE PulseEdge
  BY <1>2, <1>stored DEF PulseEdge, flashVars, taskVars, HasRoom, Published
<1>3. CASE pulse_isr_init \/ CreateSemaphore \/ SearchPartition \/ ReadPageIndex
  BY <1>3 DEF pulse_isr_init, CreateSemaphore, SearchPartition, ReadPageIndex
<1>7. CASE ReadCount
  <2>1. pulse_address.partition = 1 /\ PageIndex(1) = 1
    BY <1>7, <1>part, <1>flash DEF ReadCount, PageIndex, FlashTypeOK, TypeInv, BootInv
  <2>2. /\ get_pulse_counter_info(1, 1)
        /\ pulses' = IF Stored = NotFound THEN 0 ELSE Stored
    BY <1>7, <2>1 DEF ReadCount, Stored, First, Last
  <2>3. First(Last) \in Address
    BY <1>part, GeometryAssumption, LastEntryType, FirstPageIsAddress DEF Last, Pages
  <2>4. CASE Stored = NotFound
    <3>1. savedAt' = First(Last) /\ saved' = 0 /\ InFirstPage(savedAt')
      BY <2>2, <2>4 DEF get_pulse_counter_info, Stored, First, Last, At, InFirstPage
    <3>2. Stored' = 0
      BY <3>1 DEF StoreInv, SavedInv, Stored
    <3> QED
      BY <1>7, <2>2, <2>4, <3>2 DEF ReadCount
  <2>5. CASE Stored # NotFound
    <3>1. UNCHANGED nvs
      BY <1>flash, <2>2, <2>3, <2>5
      DEF get_pulse_counter_info, Stored, First, Last, FlashTypeOK
    <3> QED
      BY <1>7, <1>stored, <2>2, <2>5, <3>1 DEF ReadCount
  <2> QED
    BY <2>4, <2>5
<1>8. CASE PublishHigh
  BY <1>8, <1>stored DEF PublishHigh, flashVars, HasRoom, TypeInv, TypeOK
<1>9. CASE PublishLow
  <2>1. inputRegister' = [inputRegister EXCEPT !.low = normalize_pulses(pulses) % WORD]
    BY <1>9 DEF PublishLow
  <2>2. normalize_pulses(pulses) \in Nat /\ inputRegister \in [high : Nat, low : Nat]
    BY MeasureType DEF TypeInv, TypeOK
  <2>3. inputRegister.high = normalize_pulses(pulses) \div WORD
        => Published' = normalize_pulses(pulses)
    <3>1. inputRegister'.high = inputRegister.high
      BY <2>1, <2>2
    <3>2. inputRegister'.low = normalize_pulses(pulses) % WORD
      BY <2>1, <2>2
    <3> QED
      BY <2>2, <3>1, <3>2, WordsOfMeasure DEF Published
  <2> QED
    BY <1>9, <1>stored, <2>3 DEF PublishLow, flashVars, HasRoom
<1>10. CASE TakeSemaphore
  BY <1>10, <1>stored DEF TakeSemaphore, flashVars, HasRoom, Published
<1>11. CASE SampleHigh
  BY <1>11, <1>stored DEF SampleHigh, flashVars, HasRoom, Published
<1>12. CASE SampleLow
  BY <1>12, <1>stored DEF SampleLow, flashVars, HasRoom, Published
<1>13. CASE PutAddress
  <2>1. pulse_address \in Address
    BY <1>13 DEF PutAddress, TypeInv, BootInv
  <2>2. InFirstPage(pulse_address') => InFirstPage(pulse_address)
    <3>1. CASE Worn
      BY <1>13, <2>1, <3>1
      DEF PutAddress, NextAddress, InFirstPage, Address, Partitions, Pages, Entries
    <3>2. CASE ~Worn
      BY <1>13, <3>2 DEF PutAddress
    <3> QED
      BY <3>1, <3>2
  <2> QED
    BY <1>13, <1>stored, <2>2 DEF PutAddress, flashVars, HasRoom, Published
<1>14. CASE FlashFull
  BY <1>14, GeometryAssumption DEF FlashFull, IsLast, InFirstPage
<1>15. CASE SaveOpen
  <2>1. pulse_address \in Address
    BY <1>15 DEF SaveOpen, TypeInv, BootInv
  <2>2. HasRoom(1)' => HasRoom(1)
    <3>1. used'[1] = used[1] \/ used'[1] = used[1] + 1
      BY <1>15, <1>part, <1>flash, <2>1 DEF SaveOpen, OpenPage, FlashTypeOK, Address
    <3> QED
      BY <1>part, <1>flash, <3>1, CapacityAssumption DEF HasRoom, FlashTypeOK
  <2>3. pc' = "set" \/ ~HasRoom(pulse_address.partition)
    BY <1>15 DEF SaveOpen, CanOpen
  <2> QED
    BY <1>15, <1>stored, <2>2, <2>3 DEF SaveOpen, ghostVars, InFirstPage, Published
<1>16. CASE SaveSet
  <2>1. CASE ~HasRoom(pulse_address.partition)
    BY <1>16, <2>1 DEF SaveSet, InFirstPage, HasRoom
  <2>2. CASE HasRoom(pulse_address.partition)
    <3>1. savedAt' = pulse_address /\ saved' = pulses
      BY <1>16, <2>2 DEF SaveSet, WriteEntry
    <3>2. InFirstPage(pulse_address) => Stored' = pulses
      BY <3>1 DEF StoreInv, SavedInv, Stored
    <3> QED
      BY <1>16, <3>2 DEF SaveSet, PutReturns
  <2> QED
    BY <2>1, <2>2
<1>17. CASE EndHoldoff
  BY <1>17, <1>stored DEF EndHoldoff, flashVars, HasRoom, Published
<1>18. CASE UNCHANGED vars
  BY <1>18, <1>stored DEF vars, flashVars, HasRoom, Published
<1> QED
  BY <1>1, <1>2, <1>3, <1>7, <1>8, <1>9, <1>10, <1>11, <1>12,
     <1>13, <1>14, <1>15, <1>16, <1>17, <1>18
  DEF Next, TaskStep, PulseEdgeAborts, PowerLoss

\* CountInv in the words of Meter's properties.
LEMMA CountInvImplies ==
    ASSUME TypeInv, StoreInv, CountInv
    PROVE  AtMostOneLost /\ PublishedIsDurable
<1>1. ASSUME Running
      PROVE  RecoveredCount = Stored
  <2>1. Written # {}
    BY <1>1 DEF StoreInv, PrefixInv
  <2>2. Last \in Written /\ Last \in Entries
    BY <2>1, LastOfPrefix, GeometryAssumption DEF StoreInv, Entries
  <2>3. Stored # NotFound
    BY <2>2, WrittenDef DEF Stored
  <2> QED
    BY <2>3, BootReadsFirstPage DEF Stored
<1>2. AtMostOneLost
  BY <1>1 DEF AtMostOneLost, CountInv
<1>3. PublishedIsDurable
  BY <1>1 DEF PublishedIsDurable, CountInv, Running, BootSteps, LoopSteps, PutSteps
<1> QED
  BY <1>2, <1>3

\* A reset costs at most the pulse being stored.
THEOREM LosesAtMostOne == Spec => []AtMostOneLost
  BY TypeInvInit, TypeInvStep, StoreInvInit, StoreInvStep, CountInvInit, CountInvStep,
     CountInvImplies, PTL DEF Spec

\* The registers never show energy that a reset would take back.
THEOREM PublishesDurable == Spec => []PublishedIsDurable
  BY TypeInvInit, TypeInvStep, StoreInvInit, StoreInvStep, CountInvInit, CountInvStep,
     CountInvImplies, PTL DEF Spec

-----------------------------------------------------------------------------
(* The order of the store *)

\* The counts up to n at which the entry changes.
WornUpTo(offset, n) == {k \in 1 .. n : EntryWorn(k, offset)}
Changes(offset, n)  == Cardinality(WornUpTo(offset, n))

AddressesBefore(a) == {b \in Address : Before(b, a)}
Place(a)           == Cardinality(AddressesBefore(a))

\* put_nvs stores count n after as many changes as there are addresses before a; at
\* the last address the changes stop.
BelongsAt(offset, a, n) ==
    \/ Place(a) = Changes(offset, n)
    \/ IsLast(a) /\ Place(a) <= Changes(offset, n)

Offset == writes_offset(INITIAL_ENERGY, IMPULSE_CONVERSION)

\* Every stored count is where it belongs, and so is the count of the task, except
\* between the count of a pulse and its address.
OrderInv ==
    /\ \A a \in Address : nvs[a] # NotFound => BelongsAt(Offset, a, nvs[a])
    /\ Running => BelongsAt(Offset, pulse_address, IF pc = "put" THEN pulses - 1 ELSE pulses)
    /\ pc = "put" => pulses >= 1

LEMMA AddressesFinite == IsFiniteSet(Address)
<1> DEFINE S == Partitions \X (Pages \X Entries)
           f == [x \in S |-> At(x[1], x[2][1], x[2][2])]
<1>1. IsFiniteSet(Partitions) /\ IsFiniteSet(Pages) /\ IsFiniteSet(Entries)
  BY FS_Interval, GeometryAssumption DEF Partitions, Pages, Entries
<1>2. IsFiniteSet(S)
  BY <1>1, FS_Product
<1>3. f \in Surjection(S, Address)
  <2>1. f \in [S -> Address]
    BY DEF At, Address
  <2>2. ASSUME NEW a \in Address
        PROVE  \E x \in S : f[x] = a
    <3> DEFINE x == <<a.partition, <<a.page, a.entry_index>>>>
    <3>1. x \in S /\ a = At(a.partition, a.page, a.entry_index)
      BY DEF Address, At
    <3>2. f[x] = a
      BY <3>1
    <3> QED
      BY <3>1, <3>2
  <2> HIDE DEF f, S
  <2> QED
    BY <2>1, <2>2 DEF Surjection
<1> HIDE DEF f, S
<1> QED
  BY <1>2, <1>3, FS_Surjection

LEMMA PlaceType ==
    ASSUME NEW a
    PROVE  IsFiniteSet(AddressesBefore(a)) /\ Place(a) \in Nat
<1>1. AddressesBefore(a) \subseteq Address
  BY DEF AddressesBefore
<1> QED
  BY <1>1, AddressesFinite, FS_Subset, FS_CardinalityType DEF Place

LEMMA AddressFields ==
    ASSUME NEW a \in Address
    PROVE  /\ a.partition \in 1 .. MAX_PARTITIONS /\ a.page \in 1 .. MAX_PAGES
           /\ a.entry_index \in 0 .. (MAX_ENTRIES - 1)
           /\ a = At(a.partition, a.page, a.entry_index)
           /\ ~Before(a, a)
  BY GeometryAssumption DEF Address, Partitions, Pages, Entries, At, Before

LEMMA PlaceLess ==
    ASSUME NEW a \in Address, NEW b \in Address, Before(a, b)
    PROVE  Place(a) < Place(b) /\ ~IsLast(a)
<1> DEFINE A == AddressesBefore(a)
<1>f. /\ a.partition \in 1 .. MAX_PARTITIONS /\ a.page \in 1 .. MAX_PAGES
      /\ a.entry_index \in 0 .. (MAX_ENTRIES - 1)
      /\ b.partition \in 1 .. MAX_PARTITIONS /\ b.page \in 1 .. MAX_PAGES
      /\ b.entry_index \in 0 .. (MAX_ENTRIES - 1)
      /\ MAX_PARTITIONS \in Nat /\ MAX_PAGES \in Nat /\ MAX_ENTRIES \in Nat
  BY AddressFields, GeometryAssumption
<1>1. ~IsLast(a)
  BY <1>f DEF IsLast, Before
<1>2. A \cup {a} \subseteq AddressesBefore(b)
  <2>1. ASSUME NEW c \in Address, Before(c, a)
        PROVE  Before(c, b)
    <3>1. /\ c.partition \in 1 .. MAX_PARTITIONS /\ c.page \in 1 .. MAX_PAGES
          /\ c.entry_index \in 0 .. (MAX_ENTRIES - 1)
      BY AddressFields
    <3> QED
      BY <1>f, <2>1, <3>1 DEF Before
  <2> QED
    BY <2>1 DEF AddressesBefore
<1>3. a \notin A /\ IsFiniteSet(A) /\ IsFiniteSet(AddressesBefore(b))
  BY PlaceType, AddressFields DEF AddressesBefore
<1> HIDE DEF A
<1>4. Cardinality(A \cup {a}) = Cardinality(A) + 1
  BY <1>3, FS_AddElement
<1>5. Cardinality(A \cup {a}) <= Cardinality(AddressesBefore(b))
  BY <1>2, <1>3, FS_Subset
<1>6. Place(a) = Cardinality(A) /\ Place(a) \in Nat /\ Place(b) \in Nat
  BY PlaceType DEF Place, A
<1> QED
  BY <1>1, <1>4, <1>5, <1>6 DEF Place

LEMMA PlaceNext ==
    ASSUME NEW a \in Address, ~IsLast(a)
    PROVE  Place(NextAddress(a)) = Place(a) + 1
<1> DEFINE A == AddressesBefore(a)
           n == NextAddress(a)
<1>f. /\ a.partition \in 1 .. MAX_PARTITIONS /\ a.page \in 1 .. MAX_PAGES
      /\ a.entry_index \in 0 .. (MAX_ENTRIES - 1)
      /\ MAX_PARTITIONS \in Nat /\ MAX_PAGES \in Nat /\ MAX_ENTRIES \in Nat
      /\ a = At(a.partition, a.page, a.entry_index)
  BY AddressFields, GeometryAssumption
<1>n. \/ /\ a.entry_index < MAX_ENTRIES - 1
         /\ n.partition = a.partition /\ n.page = a.page /\ n.entry_index = a.entry_index + 1
      \/ /\ a.entry_index = MAX_ENTRIES - 1 /\ a.page < MAX_PAGES
         /\ n.partition = a.partition /\ n.page = a.page + 1 /\ n.entry_index = 0
      \/ /\ a.entry_index = MAX_ENTRIES - 1 /\ a.page = MAX_PAGES
         /\ n.partition = a.partition + 1 /\ n.page = 1 /\ n.entry_index = 0
  <2>1. CASE a.entry_index < MAX_ENTRIES - 1
    <3>1. n = [a EXCEPT !.entry_index = @ + 1]
      BY <2>1 DEF NextAddress
    <3> QED
      BY <2>1, <3>1 DEF Address
  <2>2. CASE ~(a.entry_index < MAX_ENTRIES - 1) /\ a.page < MAX_PAGES
    <3>1. n = [a EXCEPT !.page = @ + 1, !.entry_index = 0]
      BY <2>2 DEF NextAddress
    <3>2. a.entry_index = MAX_ENTRIES - 1
      BY <1>f, <2>2
    <3> QED
      BY <2>2, <3>1, <3>2 DEF Address
  <2>3. CASE ~(a.entry_index < MAX_ENTRIES - 1) /\ ~(a.page < MAX_PAGES)
    <3>1. n = [partition |-> a.partition + 1, page |-> 1, entry_index |-> 0]
      BY <2>3 DEF NextAddress
    <3>2. a.entry_index = MAX_ENTRIES - 1 /\ a.page = MAX_PAGES
      BY <1>f, <2>3
    <3> QED
      BY <2>3, <3>1, <3>2
  <2> QED
    BY <2>1, <2>2, <2>3
<1> HIDE DEF n
<1>1. ASSUME NEW b \in Address
      PROVE  Before(b, n) <=> Before(b, a) \/ b = a
  <2>1. /\ b.partition \in 1 .. MAX_PARTITIONS /\ b.page \in 1 .. MAX_PAGES
        /\ b.entry_index \in 0 .. (MAX_ENTRIES - 1)
        /\ b = At(b.partition, b.page, b.entry_index)
    BY AddressFields
  <2>2. b = a <=> /\ b.partition = a.partition /\ b.page = a.page
                  /\ b.entry_index = a.entry_index
    BY <1>f, <2>1
  <2>3. Before(b, n) <=>
          \/ Before(b, a)
          \/ /\ b.partition = a.partition /\ b.page = a.page
             /\ b.entry_index = a.entry_index
    BY <1>f, <1>n, <2>1 DEF Before
  <2> QED
    BY <2>2, <2>3
<1>2. AddressesBefore(n) = A \cup {a}
  BY <1>1 DEF AddressesBefore
<1>3. a \notin A /\ IsFiniteSet(A)
  BY PlaceType, AddressFields DEF AddressesBefore
<1> HIDE DEF A
<1>4. Cardinality(A \cup {a}) = Cardinality(A) + 1
  BY <1>3, FS_AddElement
<1> QED
  BY <1>2, <1>4 DEF Place, A, n

LEMMA PlaceFirst == Place(First(0)) = 0
<1>1. ASSUME NEW b \in Address
      PROVE  ~Before(b, First(0))
  BY AddressFields DEF Before, First, At
<1>2. AddressesBefore(First(0)) = {}
  BY <1>1 DEF AddressesBefore
<1> QED
  BY <1>2, FS_EmptySet DEF Place

LEMMA ChangesType ==
    ASSUME NEW offset, NEW n \in Nat
    PROVE  IsFiniteSet(WornUpTo(offset, n)) /\ Changes(offset, n) \in Nat
<1>1. WornUpTo(offset, n) \subseteq 1 .. n /\ IsFiniteSet(1 .. n)
  BY FS_Interval DEF WornUpTo
<1> QED
  BY <1>1, FS_Subset, FS_CardinalityType DEF Changes

LEMMA ChangesNone == \A offset : Changes(offset, 0) = 0
<1>1. ASSUME NEW offset
      PROVE  WornUpTo(offset, 0) = {}
  BY DEF WornUpTo
<1> QED
  BY <1>1, FS_EmptySet DEF Changes

LEMMA ChangesStep ==
    ASSUME NEW offset, NEW n \in Nat
    PROVE  Changes(offset, n + 1)
              = IF EntryWorn(n + 1, offset) THEN Changes(offset, n) + 1 ELSE Changes(offset, n)
<1>1. \A k : k \in 1 .. (n + 1) <=> k \in 1 .. n \/ k = n + 1
  OBVIOUS
<1>2. n + 1 \notin WornUpTo(offset, n)
  BY DEF WornUpTo
<1>3. CASE EntryWorn(n + 1, offset)
  <2>1. WornUpTo(offset, n + 1) = WornUpTo(offset, n) \cup {n + 1}
    BY <1>1, <1>3 DEF WornUpTo
  <2> QED
    BY <1>2, <1>3, <2>1, ChangesType, FS_AddElement DEF Changes
<1>4. CASE ~EntryWorn(n + 1, offset)
  <2>1. WornUpTo(offset, n + 1) = WornUpTo(offset, n)
    BY <1>1, <1>4 DEF WornUpTo
  <2> QED
    BY <1>4, <2>1 DEF Changes
<1> QED
  BY <1>3, <1>4

\* More counts, more changes; and strictly more when one of the counts changes it.
LEMMA ChangesMonotone ==
    ASSUME NEW offset, NEW m \in Nat, NEW n \in Nat, m <= n
    PROVE  /\ Changes(offset, m) <= Changes(offset, n)
           /\ \A k \in (m + 1) .. n :
                 EntryWorn(k, offset) => Changes(offset, m) < Changes(offset, n)
<1> DEFINE A == WornUpTo(offset, m)
           B == WornUpTo(offset, n)
<1>1. A \subseteq B
  BY DEF WornUpTo
<1>2. IsFiniteSet(A) /\ IsFiniteSet(B) /\ Cardinality(A) \in Nat /\ Cardinality(B) \in Nat
  BY ChangesType DEF Changes
<1>3. \A k \in (m + 1) .. n : EntryWorn(k, offset) => k \in B /\ k \notin A
  BY DEF WornUpTo
<1> HIDE DEF A, B
<1>4. Cardinality(A) <= Cardinality(B)
  BY <1>1, <1>2, FS_Subset
<1>5. ASSUME NEW k \in (m + 1) .. n, EntryWorn(k, offset)
      PROVE  Cardinality(A) < Cardinality(B)
  <2>1. A # B
    BY <1>3, <1>5
  <2>2. Cardinality(A) # Cardinality(B)
    BY <1>1, <1>2, <2>1, FS_Subset
  <2> QED
    BY <1>2, <1>4, <2>2
<1> QED
  BY <1>4, <1>5 DEF Changes, A, B

\* What put_nvs does with the address keeps the next count where it belongs.
LEMMA BelongsNext ==
    ASSUME NEW offset, NEW a \in Address, NEW n \in Nat, BelongsAt(offset, a, n)
    PROVE  IF EntryWorn(n + 1, offset) /\ ~IsLast(a)
             THEN BelongsAt(offset, NextAddress(a), n + 1)
             ELSE BelongsAt(offset, a, n + 1)
<1>1. Place(a) \in Nat /\ Changes(offset, n) \in Nat
  BY PlaceType, ChangesType
<1>2. CASE EntryWorn(n + 1, offset) /\ ~IsLast(a)
  <2>1. Place(NextAddress(a)) = Changes(offset, n + 1)
    BY <1>1, <1>2, PlaceNext, ChangesStep DEF BelongsAt
  <2> QED
    BY <1>2, <2>1 DEF BelongsAt
<1>3. CASE IsLast(a)
  BY <1>1, <1>3, ChangesStep DEF BelongsAt
<1>4. CASE ~EntryWorn(n + 1, offset) /\ ~IsLast(a)
  <2>1. Place(a) = Changes(offset, n + 1)
    BY <1>4, ChangesStep DEF BelongsAt
  <2> QED
    BY <1>4, <2>1 DEF BelongsAt
<1> QED
  BY <1>2, <1>3, <1>4

\* An erased store is in order.
LEMMA OrderInit == Init => OrderInv
<1> SUFFICES ASSUME Init PROVE OrderInv
  OBVIOUS
<1>1. \A a \in Address : nvs[a] = NotFound
  BY DEF Init, FlashInit
<1>2. ~Running /\ pc # "put"
  BY DEF Init, PoweredOn, Running, BootSteps
<1> QED
  BY <1>1, <1>2 DEF OrderInv

\* Every step keeps each count where it belongs.
LEMMA OrderStep == TypeInv /\ TypeInv' /\ StoreInv /\ OrderInv /\ [Next]_vars => OrderInv'
<1> SUFFICES ASSUME TypeInv, TypeInv', StoreInv, OrderInv, [Next]_vars PROVE OrderInv'
  OBVIOUS
<1>flash. FlashTypeOK /\ FlashTypeOK' /\ pulses \in Nat
  BY DEF TypeInv, TypeOK
<1>offset. Offset' = Offset
  BY DEF Next, TaskStep, PulseEdgeAborts, PowerLoss, Reset, PulseEdge, pulse_isr_init,
         CreateSemaphore, SearchPartition, ReadPageIndex, ReadCount, PublishHigh,
         PublishLow, TakeSemaphore, SampleHigh, SampleLow, PutAddress, FlashFull,
         SaveOpen, SaveSet, EndHoldoff, vars, Offset
<1> HIDE DEF Offset
\* Steps that store nothing.
<1>keep. ASSUME UNCHANGED nvs,
                Running' => BelongsAt(Offset, pulse_address',
                                      IF pc' = "put" THEN pulses' - 1 ELSE pulses'),
                pc' = "put" => pulses' >= 1
         PROVE  OrderInv'
  BY <1>keep, <1>offset DEF OrderInv, BelongsAt, Place, AddressesBefore, Before, IsLast,
                            Changes, WornUpTo
\* And leave the count and its address alone.
<1>same. ASSUME UNCHANGED <<nvs, pulses, pulse_address>>, pc # "put", pc' # "put",
                Running' => Running
         PROVE  OrderInv'
  BY <1>same, <1>keep DEF OrderInv
<1> USE DEF Running, BootSteps
<1>1. CASE Reset
  BY <1>1, <1>keep DEF Reset, PoweredOn, flashVars
<1>2. CASE PulseEdge
  BY <1>2, <1>keep DEF PulseEdge, flashVars, taskVars, OrderInv
<1>3. CASE pulse_isr_init \/ CreateSemaphore \/ SearchPartition \/ ReadPageIndex
  BY <1>3, <1>keep DEF pulse_isr_init, CreateSemaphore, SearchPartition, ReadPageIndex,
                       flashVars
<1>7. CASE ReadCount
  <2> DEFINE a == First(Last)
  <2>part. 1 \in Partitions /\ 1 \in Pages /\ 0 \in Entries
    BY GeometryAssumption DEF Partitions, Pages, Entries
  <2>1. pulse_address.partition = 1 /\ PageIndex(1) = 1
    BY <1>7, <1>flash, <2>part DEF ReadCount, PageIndex, FlashTypeOK, TypeInv, BootInv
  <2>2. /\ get_pulse_counter_info(1, 1)
        /\ pulse_address' = a
        /\ pulses' = IF nvs[a] = NotFound THEN 0 ELSE nvs[a]
        /\ pc' = "init_high"
    BY <1>7, <2>1 DEF ReadCount, First, Last
  <2>3. Last \in Entries /\ a \in Address
    BY <2>part, LastEntryType, FirstPageIsAddress DEF Last
  <2>4. CASE nvs[a] # NotFound
    <3>1. UNCHANGED nvs
      BY <1>flash, <2>2, <2>3, <2>4
      DEF get_pulse_counter_info, First, Last, FlashTypeOK
    <3>2. BelongsAt(Offset, a, nvs[a])
      BY <2>3, <2>4 DEF OrderInv
    <3> QED
      BY <1>keep, <2>2, <2>4, <3>1, <3>2
  <2>5. CASE nvs[a] = NotFound
    <3>1. Last = 0
      BY <2>3, <2>5, LastOfPrefix, WrittenDef, GeometryAssumption DEF StoreInv, Entries
    <3>2. nvs' = [nvs EXCEPT ![a] = 0] /\ pulses' = 0
      BY <2>2, <2>5 DEF get_pulse_counter_info, First, Last
    <3>3. BelongsAt(Offset, a, 0)
      BY <3>1, PlaceFirst, ChangesNone DEF BelongsAt
    <3>4. ASSUME NEW b \in Address, nvs'[b] # NotFound
          PROVE  BelongsAt(Offset, b, nvs'[b])
      BY <1>flash, <2>3, <3>2, <3>3, <3>4 DEF OrderInv, FlashTypeOK
    <3> QED
      BY <1>offset, <2>2, <3>2, <3>3, <3>4 DEF OrderInv
  <2> QED
    BY <2>4, <2>5
<1>8. CASE PublishHigh
  BY <1>8, <1>same DEF PublishHigh, flashVars
<1>9. CASE PublishLow
  BY <1>9, <1>same DEF PublishLow, flashVars
<1>10. CASE TakeSemaphore
  BY <1>10, <1>same DEF TakeSemaphore, flashVars
<1>11. CASE SampleHigh
  <2>1. pulses' = pulses + 1 /\ pulses' - 1 = pulses
    BY <1>11, <1>flash DEF SampleHigh
  <2> QED
    BY <1>11, <1>flash, <1>keep, <2>1 DEF SampleHigh, flashVars, OrderInv
<1>12. CASE SampleLow
  BY <1>12, <1>same DEF SampleLow, flashVars
<1>13. CASE PutAddress
  <2>1. /\ pulse_address \in Address
        /\ pulses - 1 \in Nat
        /\ (pulses - 1) + 1 = pulses
        /\ BelongsAt(Offset, pulse_address, pulses - 1)
    BY <1>13, <1>flash DEF PutAddress, TypeInv, BootInv, OrderInv
  <2>2. Worn <=> EntryWorn(pulses, Offset)
    BY DEF Worn, Offset
  <2>3. BelongsAt(Offset, pulse_address', pulses)
    <3>1. IF EntryWorn((pulses - 1) + 1, Offset) /\ ~IsLast(pulse_address)
            THEN BelongsAt(Offset, NextAddress(pulse_address), (pulses - 1) + 1)
            ELSE BelongsAt(Offset, pulse_address, (pulses - 1) + 1)
      BY <2>1, BelongsNext
    <3> QED
      BY <1>13, <2>1, <2>2, <3>1 DEF PutAddress
  <2> QED
    BY <1>13, <1>keep, <2>3 DEF PutAddress, flashVars
<1>14. CASE FlashFull
  <2>1. /\ pulse_address \in Address
        /\ pulses - 1 \in Nat
        /\ (pulses - 1) + 1 = pulses
        /\ BelongsAt(Offset, pulse_address, pulses - 1)
    BY <1>14, <1>flash DEF FlashFull, TypeInv, BootInv, OrderInv
  <2>2. BelongsAt(Offset, pulse_address, (pulses - 1) + 1)
    BY <1>14, <2>1, BelongsNext DEF FlashFull
  <2> QED
    BY <1>14, <1>keep, <2>1, <2>2 DEF FlashFull, flashVars
<1>15. CASE SaveOpen
  BY <1>15, <1>same DEF SaveOpen, PutReturns, ghostVars
<1>16. CASE SaveSet
  <2>1. CASE ~HasRoom(pulse_address.partition)
    BY <1>16, <1>same, <2>1 DEF SaveSet, PutReturns
  <2>2. CASE HasRoom(pulse_address.partition)
    <3>1. /\ nvs' = [nvs EXCEPT ![pulse_address] = pulses]
          /\ pulse_address \in Address
          /\ BelongsAt(Offset, pulse_address, pulses)
      BY <1>16, <2>2 DEF SaveSet, WriteEntry, TypeInv, BootInv, OrderInv
    <3>2. ASSUME NEW b \in Address, nvs'[b] # NotFound
          PROVE  BelongsAt(Offset, b, nvs'[b])
      BY <1>flash, <3>1, <3>2 DEF OrderInv, FlashTypeOK
    <3> QED
      BY <1>16, <1>offset, <3>1, <3>2 DEF SaveSet, PutReturns, OrderInv
  <2> QED
    BY <2>1, <2>2
<1>17. CASE EndHoldoff
  BY <1>17, <1>same DEF EndHoldoff, flashVars
<1>18. CASE UNCHANGED vars
  BY <1>18, <1>keep DEF vars, flashVars, OrderInv
<1> QED
  BY <1>1, <1>2, <1>3, <1>7, <1>8, <1>9, <1>10, <1>11, <1>12,
     <1>13, <1>14, <1>15, <1>16, <1>17, <1>18
  DEF Next, TaskStep, PulseEdgeAborts, PowerLoss

\* The store is a log: of two written addresses the later one holds the larger
\* count.
THEOREM StoreInOrder == Spec => []StoreOrdered
<1>1. TypeInv /\ OrderInv => StoreOrdered
  <2> SUFFICES ASSUME TypeInv, OrderInv, NEW a \in Address, NEW b \in Address,
                      Before(a, b), nvs[a] # NotFound, nvs[b] # NotFound
               PROVE  nvs[a] < nvs[b]
    BY DEF StoreOrdered
  <2>1. nvs[a] \in Nat /\ nvs[b] \in Nat
    BY DEF TypeInv, TypeOK, FlashTypeOK
  <2>2. Place(a) < Place(b) /\ ~IsLast(a)
    BY PlaceLess
  <2>3. BelongsAt(Offset, a, nvs[a]) /\ BelongsAt(Offset, b, nvs[b])
    BY DEF OrderInv
  <2>4. Changes(Offset, nvs[a]) \in Nat /\ Changes(Offset, nvs[b]) \in Nat
    BY <2>1, ChangesType
  <2>5. Place(a) \in Nat /\ Place(b) \in Nat
    BY PlaceType
  <2>6. Changes(Offset, nvs[a]) < Changes(Offset, nvs[b])
    BY <2>2, <2>3, <2>4, <2>5 DEF BelongsAt
  <2>7. nvs[b] <= nvs[a] => Changes(Offset, nvs[b]) <= Changes(Offset, nvs[a])
    BY <2>1, ChangesMonotone
  <2> QED
    BY <2>1, <2>4, <2>6, <2>7
<1> QED
  BY <1>1, TypeInvInit, TypeInvStep, StoreInvInit, StoreInvStep, OrderInit, OrderStep,
     PTL DEF Spec

-----------------------------------------------------------------------------
(* Wear *)

\* The entry is not due to change at the wrap of the 32-bit count as well: so it
\* is with 2^32 and 80000.  Where MAX_WRITES divides the modulus an entry can take
\* 2 * MAX_WRITES values, because EntryWorn leaves out the count it starts from.
NoEvenWrap == UINT32 % MAX_WRITES # 0

\* The most values an entry takes.
Share == MAX_WRITES + (UINT32 % MAX_WRITES)

\* The values an entry has taken lie between the first count that belongs to it and
\* the one it holds, each taken once, for as long as no boot goes back.
WearInv ==
    /\ pulses <= MaxPulses /\ saved <= MaxPulses
    /\ \A a \in Address :
          IF nvs[a] = NotFound THEN writes[a] = 0 ELSE nvs[a] <= MaxPulses
    /\ Written = {} => \A a \in Address : nvs[a] = NotFound
    /\ ~rolledBack =>
          /\ Running => IF pc \in PutSteps THEN saved < pulses ELSE saved <= pulses
          /\ \A a \in Address :
                nvs[a] # NotFound =>
                    /\ nvs[a] <= saved
                    /\ \/ IsLast(a)
                       \/ \E m \in 0 .. nvs[a] :
                             /\ Changes(Offset, m) = Place(a)
                             /\ writes[a] <= nvs[a] - m + 1

\* Division with a rest.
LEMMA Division ==
    ASSUME NEW x \in Int, NEW b \in Nat \ {0}
    PROVE  /\ x \div b \in Int
           /\ x % b \in 0 .. (b - 1)
           /\ x = b * (x \div b) + (x % b)
  OBVIOUS

\* And the rest that it leaves.
LEMMA Remainder ==
    ASSUME NEW b \in Nat \ {0}, NEW q \in Int, NEW r \in 0 .. (b - 1)
    PROVE  (b * q + r) % b = r
<1> DEFINE x == b * q + r
           p == x \div b
           s == x % b
<1>1. x \in Int
  OBVIOUS
<1>2. p \in Int /\ s \in 0 .. (b - 1) /\ x = b * p + s
  BY <1>1, Division
<1> HIDE DEF p, s
<1>5. b * (q - p) = s - r
  BY <1>1, <1>2
<1>6. q - p >= 1 => b * (q - p) >= b
  BY <1>2
<1>7. q - p <= -1 => b * (q - p) <= -b
  BY <1>2
<1>8. q = p
  BY <1>2, <1>5, <1>6, <1>7
<1>9. s = r
  BY <1>2, <1>8
<1> QED BY <1>9 DEF s

\* A count that lies z past the offset, on the ring of 32-bit numbers.
LEMMA WornAt ==
    ASSUME NEW k \in Int, NEW offset \in Int, NEW i \in Int, NEW q \in Int,
           MAX_WRITES * q \in 1 .. (UINT32 - 1), k - offset = UINT32 * i + MAX_WRITES * q
    PROVE  EntryWorn(k, offset)
<1> DEFINE z == MAX_WRITES * q
<1>z. /\ z \in Int
      /\ z \in 0 .. (UINT32 - 1)
      /\ k - offset = UINT32 * i + z
  BY GeometryAssumption, UintAssumption
<1>4. (UINT32 * i + z) % UINT32 = z
  <2> HIDE DEF z
  <2> QED
    BY <1>z, UintAssumption, Remainder
<1>1. writes_count(k, offset) = MAX_WRITES * q
  BY <1>z, <1>4 DEF writes_count
<1>2. MAX_WRITES * q = MAX_WRITES * q + 0
  OBVIOUS
<1>3. (MAX_WRITES * q + 0) % MAX_WRITES = 0
  BY GeometryAssumption, Remainder
<1> QED
  BY <1>1, <1>2, <1>3 DEF EntryWorn

\* No Share counts in a row leave the entry alone.
LEMMA WornWithin ==
    ASSUME NoEvenWrap,
           NEW offset \in 0 .. (UINT32 - 1), NEW x \in Nat, x + Share <= UINT32 - 1
    PROVE  \E k \in (x + 1) .. (x + Share) : EntryWorn(k, offset)
<1> DEFINE M == MAX_WRITES
           U == UINT32
           r == U % M
<1>1. /\ M \in Nat \ {0}
      /\ U \in Nat \ {0}
      /\ r \in 1 .. (M - 1)
      /\ Share = M + r
      /\ Share \in Nat
  BY GeometryAssumption, UintAssumption, Division DEF Share, NoEvenWrap
\* The next multiple of M above a distance y.
<1>2. ASSUME NEW y \in Nat
      PROVE  \E q \in Int : M * q \in (y + 1) .. (y + M)
  <2> DEFINE q == (y \div M) + 1
  <2>1. /\ y \div M \in Int
        /\ y % M \in 0 .. (M - 1)
        /\ y = M * (y \div M) + (y % M)
    <3>1. y \in Int
      OBVIOUS
    <3> HIDE DEF M, r, q, U
    <3> QED
      BY <1>1, <3>1, Division
  <2>2. M * q = M * (y \div M) + M
    BY <1>1, <2>1
  <2>3. q \in Int /\ M * q \in (y + 1) .. (y + M)
    <3> HIDE DEF M
    <3> QED
      BY <1>1, <2>1, <2>2
  <2> QED
    BY <2>3
<1>3. CASE x >= offset
  <2>1. PICK q \in Int : M * q \in (x - offset + 1) .. (x - offset + M)
    BY <1>2, <1>3
  <2> DEFINE k == offset + M * q
  <2>2. /\ k \in (x + 1) .. (x + Share)
        /\ M * q \in 1 .. (U - 1)
        /\ k - offset = U * 0 + M * q
    BY <1>1, <1>3, <2>1
  <2>3. EntryWorn(k, offset)
    BY <2>2, WornAt
  <2> QED
    BY <2>2, <2>3
<1>4. CASE x < offset
  <2> DEFINE y == x - offset + U
  <2>y. y \in Nat
    BY <1>1
  <2>1. PICK q \in Int : M * q \in (y + 1) .. (y + M)
    BY <1>2, <2>y
  <2>2. CASE M * q <= U - 1
    <3> DEFINE k == offset - U + M * q
    <3>1. /\ k \in (x + 1) .. (x + Share)
          /\ M * q \in 1 .. (U - 1)
          /\ k - offset = U * (-1) + M * q
      BY <1>1, <2>1, <2>2, <2>y
    <3>2. EntryWorn(k, offset)
      BY <3>1, WornAt
    <3> QED
      BY <3>1, <3>2
  <2>3. CASE M * q >= U
    <3> DEFINE d == U \div M
    <3>1. d \in Int /\ U = M * d + r
      BY <1>1, Division
    <3>2. q >= d + 1
      <4>1. ASSUME q <= d
            PROVE  M * q <= M * d
        BY <1>1, <3>1, <4>1
      <4> HIDE DEF d, r, M
      <4> QED
        BY <1>1, <2>3, <3>1, <4>1
    <3>3. M * (q - 1) >= M * d
      BY <1>1, <3>1, <3>2
    <3>4. y >= U - r
      <4>1. M * (q - 1) = M * q - M
        BY <1>1
      <4> HIDE DEF d, r, M
      <4> QED
        BY <1>1, <2>1, <2>y, <3>1, <3>3, <4>1
    <3> DEFINE k == offset + M
    <3>5. /\ k \in (x + 1) .. (x + Share)
          /\ M \in 1 .. (U - 1)
          /\ M * 1 = M
          /\ k - offset = U * 0 + M * 1
      BY <1>1, <1>4, <3>4
    <3>6. EntryWorn(k, offset)
      <4> HIDE DEF k
      <4>1. k \in Int /\ offset \in Int /\ MAX_WRITES * 1 \in 1 .. (UINT32 - 1)
        BY <1>1, <3>5
      <4>2. k - offset = UINT32 * 0 + MAX_WRITES * 1
        BY <3>5
      <4> QED
        BY <4>1, <4>2, WornAt
    <3> QED
      BY <3>5, <3>6
  <2> QED
    BY <1>1, <2>1, <2>2, <2>3
<1> QED
  BY <1>3, <1>4

\* Nothing has been written in an erased store.
LEMMA WearInit == Init => WearInv
<1> SUFFICES ASSUME Init PROVE WearInv
  OBVIOUS
<1>1. \A a \in Address : nvs[a] = NotFound /\ writes[a] = 0
  BY DEF Init, FlashInit
<1>2. ~Running /\ pulses = 0 /\ saved = 0
  BY DEF Init, FlashInit, PoweredOn, Running, BootSteps
<1> QED
  BY <1>1, <1>2, MeterAssumption DEF WearInv

\* Every step keeps the values of each entry within their counts.
LEMMA WearStep ==
    /\ TypeInv /\ TypeInv' /\ StoreInv /\ StoreInv' /\ OrderInv /\ WearInv
    /\ [Next]_vars
    => WearInv'
<1> SUFFICES ASSUME TypeInv, TypeInv', StoreInv, StoreInv', OrderInv, WearInv,
                    [Next]_vars
             PROVE  WearInv'
  OBVIOUS
<1>flash. FlashTypeOK /\ FlashTypeOK' /\ pulses \in Nat /\ MaxPulses \in Nat
  BY MeterAssumption DEF TypeInv, TypeOK
<1>offset. Offset' = Offset
  BY DEF Next, TaskStep, PulseEdgeAborts, PowerLoss, Reset, PulseEdge, pulse_isr_init,
         CreateSemaphore, SearchPartition, ReadPageIndex, ReadCount, PublishHigh,
         PublishLow, TakeSemaphore, SampleHigh, SampleLow, PutAddress, FlashFull,
         SaveOpen, SaveSet, EndHoldoff, vars, Offset
<1>running. Running' => Written' # {}
  BY DEF StoreInv, PrefixInv
<1> HIDE DEF Offset
\* What the invariant says of an address does not mention the state otherwise.
<1>at. ASSUME NEW a
       PROVE  /\ Place(a)' = Place(a)
              /\ \A m : Changes(Offset, m)' = Changes(Offset, m)
              /\ IsLast(a)' = IsLast(a)
  BY <1>offset DEF Place, AddressesBefore, Before, IsLast, Changes, WornUpTo
\* Steps that store nothing.
<1>keep. ASSUME UNCHANGED <<nvs, saved, writes, rolledBack>>,
                pulses' <= MaxPulses,
                ~rolledBack /\ Running' => IF pc' \in PutSteps THEN saved < pulses'
                                                              ELSE saved <= pulses'
         PROVE  WearInv'
  <2>1. Written' = Written
    BY <1>keep DEF Written, WrittenIn
  <2> QED
    BY <1>keep, <1>at, <1>offset, <2>1 DEF WearInv
<1> USE DEF Running, BootSteps, PutSteps
<1>1. CASE Reset
  BY <1>1, <1>keep, <1>flash DEF Reset, PoweredOn, flashVars
<1>2. CASE PulseEdge
  BY <1>2, <1>keep DEF PulseEdge, flashVars, taskVars, WearInv
<1>3. CASE pulse_isr_init \/ CreateSemaphore \/ SearchPartition \/ ReadPageIndex
  BY <1>3, <1>keep DEF pulse_isr_init, CreateSemaphore, SearchPartition, ReadPageIndex,
                       flashVars, ghostVars, WearInv
<1>7. CASE ReadCount
  <2> DEFINE a == First(Last)
  <2>part. 1 \in Partitions /\ 1 \in Pages /\ 0 \in Entries
    BY GeometryAssumption DEF Partitions, Pages, Entries
  <2>1. pulse_address.partition = 1 /\ PageIndex(1) = 1
    BY <1>7, <1>flash, <2>part DEF ReadCount, PageIndex, FlashTypeOK, TypeInv, BootInv
  <2>2. /\ get_pulse_counter_info(1, 1)
        /\ pulses' = IF nvs[a] = NotFound THEN 0 ELSE nvs[a]
        /\ rolledBack' = (rolledBack \/ pulses' < saved)
        /\ pc' = "init_high"
    BY <1>7, <2>1 DEF ReadCount, First, Last
  <2>3. Last \in Entries /\ a \in Address
    BY <2>part, LastEntryType, FirstPageIsAddress DEF Last
  <2>4. CASE nvs[a] # NotFound
    <3>1. UNCHANGED <<nvs, saved, writes>> /\ pulses' = nvs[a]
      BY <1>flash, <2>2, <2>3, <2>4
      DEF get_pulse_counter_info, First, Last, FlashTypeOK
    <3>2. pulses' <= MaxPulses
      BY <2>3, <2>4, <3>1 DEF WearInv
    <3>3. Written' = Written
      BY <3>1 DEF Written, WrittenIn
    <3>4. ~rolledBack' => ~rolledBack /\ saved <= pulses'
      <4>1. ~rolledBack' => ~rolledBack /\ ~(pulses' < saved)
        BY <2>2, Zenon
      <4>2. pulses' \in Nat /\ saved \in Nat
        BY <1>flash, <2>3, <2>4, <3>1 DEF FlashTypeOK
      <4> QED
        BY <4>1, <4>2
    <3> QED
      BY <1>at, <1>offset, <2>2, <3>1, <3>2, <3>3, <3>4 DEF WearInv
  <2>5. CASE nvs[a] = NotFound
    <3>1. Written = {} /\ Last = 0
      BY <2>3, <2>5, LastOfPrefix, WrittenDef, GeometryAssumption DEF StoreInv, Entries
    <3>2. /\ nvs' = [nvs EXCEPT ![a] = 0]
          /\ writes' = [writes EXCEPT ![a] = @ + 1]
          /\ saved' = 0
          /\ pulses' = 0
      BY <2>2, <2>5 DEF get_pulse_counter_info, First, Last
    <3>3. \A b \in Address : nvs[b] = NotFound /\ writes[b] = 0
      BY <3>1 DEF WearInv
    <3>4. ASSUME NEW b \in Address
          PROVE  IF b = a THEN nvs'[b] = 0 /\ writes'[b] = 1
                          ELSE nvs'[b] = NotFound /\ writes'[b] = 0
      BY <1>flash, <2>3, <3>2, <3>3 DEF FlashTypeOK
    <3>5. 0 # NotFound
      BY NotFoundAssumption
    <3>6. Written' # {}
      BY <1>running, <2>2
    <3>7. Changes(Offset, 0) = Place(a) /\ 1 <= 0 - 0 + 1 /\ 0 \in 0 .. 0
      BY <3>1, PlaceFirst, ChangesNone
    <3>8. ASSUME NEW b \in Address, nvs'[b] # NotFound
          PROVE  /\ nvs'[b] <= saved'
                 /\ \E m \in 0 .. nvs'[b] : /\ Changes(Offset', m) = Place(b)
                                            /\ writes'[b] <= nvs'[b] - m + 1
      <4>1. b = a /\ nvs'[b] = 0 /\ writes'[b] = 1
        BY <3>4, <3>8
      <4> QED
        BY <1>offset, <3>2, <3>7, <4>1
    <3>9. /\ pulses' <= MaxPulses /\ saved' <= MaxPulses /\ saved' <= pulses'
          /\ pc' \notin PutSteps
      BY <1>flash, <2>2, <3>2
    <3>10. ASSUME NEW b \in Address
           PROVE  IF nvs'[b] = NotFound THEN writes'[b] = 0 ELSE nvs'[b] <= MaxPulses
      BY <1>flash, <3>4, <3>5
    <3> HIDE DEF a
    <3> QED
      BY <1>at, <3>6, <3>8, <3>9, <3>10 DEF WearInv
  <2> QED
    BY <2>4, <2>5
<1>8. CASE PublishHigh
  BY <1>8, <1>keep DEF PublishHigh, flashVars, WearInv
<1>9. CASE PublishLow
  BY <1>9, <1>keep DEF PublishLow, flashVars, WearInv
<1>10. CASE TakeSemaphore
  BY <1>10, <1>keep DEF TakeSemaphore, flashVars, WearInv
<1>11. CASE SampleHigh
  <2>1. pulses' = pulses + 1 /\ pulses' <= MaxPulses /\ pc = "debounce" /\ saved \in Nat
    BY <1>11, <1>flash DEF SampleHigh, FlashTypeOK
  <2>2. ~rolledBack => saved < pulses'
    BY <1>flash, <2>1 DEF WearInv
  <2> QED
    BY <1>11, <1>keep, <2>1, <2>2 DEF SampleHigh, flashVars
<1>12. CASE SampleLow
  BY <1>12, <1>keep DEF SampleLow, flashVars, WearInv
<1>13. CASE PutAddress
  BY <1>13, <1>keep DEF PutAddress, flashVars, WearInv
<1>14. CASE FlashFull
  BY <1>14, <1>flash, <1>keep DEF FlashFull, flashVars, WearInv, FlashTypeOK
<1>15. CASE SaveOpen
  BY <1>15, <1>flash, <1>keep DEF SaveOpen, PutReturns, ghostVars, WearInv, FlashTypeOK
<1>16. CASE SaveSet
  <2> DEFINE a == pulse_address
  <2>1. CASE ~HasRoom(a.partition)
    BY <1>16, <1>flash, <1>keep, <2>1
    DEF SaveSet, PutReturns, ghostVars, WearInv, FlashTypeOK
  <2>2. CASE HasRoom(a.partition)
    <3>1. /\ nvs' = [nvs EXCEPT ![a] = pulses]
          /\ writes' = [writes EXCEPT ![a] = @ + 1]
          /\ saved' = pulses
          /\ pulses' = pulses
          /\ rolledBack' = rolledBack
          /\ pc' = "publish_high"
      BY <1>16, <2>2 DEF SaveSet, WriteEntry, PutReturns
    <3>2. /\ a \in Address
          /\ BelongsAt(Offset, a, pulses)
          /\ ~rolledBack => saved < pulses
          /\ pulses <= MaxPulses
          /\ saved \in Nat
      BY <1>16, <1>flash DEF SaveSet, TypeInv, BootInv, OrderInv, WearInv, FlashTypeOK
    <3>3. Written' # {}
      BY <1>running, <3>1
    <3>4. ASSUME NEW b \in Address
          PROVE  IF b = a THEN nvs'[b] = pulses /\ writes'[b] = writes[b] + 1
                          ELSE nvs'[b] = nvs[b] /\ writes'[b] = writes[b]
      BY <1>flash, <3>1, <3>2 DEF FlashTypeOK
    <3>5. /\ pulses # NotFound
          /\ \A b \in Address : writes[b] \in Nat /\ nvs[b] \in Nat \cup {NotFound}
      BY <1>flash, NotFoundAssumption DEF FlashTypeOK
    <3>6. ASSUME NEW b \in Address
          PROVE  IF nvs'[b] = NotFound THEN writes'[b] = 0 ELSE nvs'[b] <= MaxPulses
      BY <3>2, <3>4, <3>5 DEF WearInv
    <3>7. ASSUME ~rolledBack, NEW b \in Address, nvs'[b] # NotFound
          PROVE  /\ nvs'[b] <= saved'
                 /\ \/ IsLast(b)
                    \/ \E m \in 0 .. nvs'[b] : /\ Changes(Offset, m) = Place(b)
                                               /\ writes'[b] <= nvs'[b] - m + 1
      <4>1. CASE b # a
        <5>1. /\ nvs'[b] = nvs[b] /\ writes'[b] = writes[b] /\ nvs[b] \in Nat
              /\ nvs[b] <= saved
          BY <3>4, <3>5, <3>7, <4>1 DEF WearInv
        <5>2. \/ IsLast(b)
              \/ \E m \in 0 .. nvs[b] : /\ Changes(Offset, m) = Place(b)
                                        /\ writes[b] <= nvs[b] - m + 1
          BY <3>7, <5>1 DEF WearInv
        <5> QED
          BY <1>flash, <3>1, <3>2, <3>7, <5>1, <5>2
      <4>2. CASE b = a /\ ~IsLast(a) /\ nvs[a] = NotFound
        <5>1. writes'[b] = 1 /\ nvs'[b] = pulses
          BY <3>2, <3>4, <4>2 DEF WearInv
        <5>2. Changes(Offset, pulses) = Place(b)
          BY <3>2, <4>2 DEF BelongsAt
        <5>3. pulses \in 0 .. pulses /\ 1 <= pulses - pulses + 1 /\ pulses <= saved'
          BY <1>flash, <3>1
        <5> QED
          BY <5>1, <5>2, <5>3
      <4>3. CASE b = a /\ ~IsLast(a) /\ nvs[a] # NotFound
        <5>1. /\ writes'[b] = writes[a] + 1 /\ nvs'[b] = pulses /\ nvs[a] \in Nat
              /\ nvs[a] <= saved
          BY <3>2, <3>4, <3>5, <3>7, <4>3 DEF WearInv
        <5>2. PICK m \in 0 .. nvs[a] : /\ Changes(Offset, m) = Place(a)
                                       /\ writes[a] <= nvs[a] - m + 1
          BY <3>2, <3>7, <4>3 DEF WearInv
        <5>3. m \in 0 .. pulses /\ writes[a] + 1 <= pulses - m + 1 /\ pulses <= saved'
          BY <1>flash, <3>1, <3>2, <3>5, <3>7, <5>1, <5>2
        <5> QED
          BY <4>3, <5>1, <5>2, <5>3
      <4>4. CASE b = a /\ IsLast(a)
        BY <1>flash, <3>1, <3>4, <4>4
      <4> QED
        BY <4>1, <4>2, <4>3, <4>4
    <3> HIDE DEF a
    <3> QED
      BY <1>at, <1>offset, <3>1, <3>2, <3>3, <3>6, <3>7, <1>flash DEF WearInv
  <2> QED
    BY <2>1, <2>2
<1>17. CASE EndHoldoff
  BY <1>17, <1>keep DEF EndHoldoff, flashVars, WearInv
<1>18. CASE UNCHANGED vars
  BY <1>18, <1>keep DEF vars, flashVars, WearInv
<1> QED
  BY <1>1, <1>2, <1>3, <1>7, <1>8, <1>9, <1>10, <1>11, <1>12,
     <1>13, <1>14, <1>15, <1>16, <1>17, <1>18
  DEF Next, TaskStep, PulseEdgeAborts, PowerLoss

\* Until a boot rolls the counter back, no entry but the last takes more values than
\* its share.
THEOREM LevelsWear ==
    ASSUME NoEvenWrap
    PROVE  Spec => []WearLevelled
<1>1. TypeInv /\ OrderInv /\ WearInv => WearLevelled
  <2> SUFFICES ASSUME TypeInv, OrderInv, WearInv, ~rolledBack,
                      NEW a \in Address, ~IsLast(a)
               PROVE  writes[a] <= Share
    BY DEF WearLevelled, Share
  <2>1. /\ writes[a] \in Nat
        /\ nvs[a] \in Nat \cup {NotFound}
        /\ Share \in Nat
        /\ Offset \in 0 .. (UINT32 - 1)
    <3>1. UINT32 % MAX_WRITES \in Nat /\ Share \in Nat
      BY GeometryAssumption, UintAssumption, Division DEF Share
    <3>2. INITIAL_ENERGY * IMPULSE_CONVERSION \in Int
      BY MeterAssumption DEF TypeInv, TypeOK
    <3>3. \A n \in Int : (n \div 100) % UINT32 \in 0 .. (UINT32 - 1)
      BY UintAssumption, Division
    <3> QED
      BY <3>1, <3>2, <3>3 DEF TypeInv, TypeOK, FlashTypeOK, Offset, writes_offset
  <2>2. CASE nvs[a] = NotFound
    BY <2>1, <2>2 DEF WearInv
  <2>3. CASE nvs[a] # NotFound
    <3>1. PICK m \in 0 .. nvs[a] : /\ Changes(Offset, m) = Place(a)
                                   /\ writes[a] <= nvs[a] - m + 1
      BY <2>3 DEF WearInv
    <3>2. nvs[a] \in Nat /\ nvs[a] <= UINT32 - 1
      BY <2>1, <2>3, MeterAssumption, UintAssumption DEF WearInv
    <3>3. Changes(Offset, nvs[a]) = Place(a) /\ Place(a) \in Nat
      BY <2>3, PlaceType DEF OrderInv, BelongsAt
    <3>4. ASSUME nvs[a] >= m + Share
          PROVE  FALSE
      <4>0. m \in Nat /\ m + Share <= UINT32 - 1
        BY <2>1, <3>2, <3>4, UintAssumption
      <4>1. PICK k \in (m + 1) .. (m + Share) : EntryWorn(k, Offset)
        <5> HIDE DEF Offset
        <5> QED
          BY <2>1, <4>0, WornWithin
      <4>2. k \in (m + 1) .. nvs[a] /\ m <= nvs[a] /\ m \in Nat
        BY <2>1, <3>2, <3>4
      <4>3. Changes(Offset, m) < Changes(Offset, nvs[a])
        BY <3>2, <4>1, <4>2, ChangesMonotone
      <4> QED
        BY <3>1, <3>3, <4>3
    <3> QED
      BY <2>1, <3>1, <3>2, <3>4
  <2> QED
    BY <2>2, <2>3
<1> QED
  BY <1>1, TypeInvInit, TypeInvStep, StoreInvInit, StoreInvStep, OrderInit, OrderStep,
     WearInit, WearStep, PTL DEF Spec

-----------------------------------------------------------------------------
(* The abstract counter *)

\* The slots of partition 1 while the counter is in its first page.
SlotsTaken ==
    (IF storage[1].isFull = NotFound THEN 0 ELSE 3)
    + (IF storage[1].page_index = NotFound THEN 0 ELSE 1)
    + (IF 1 \in namespaces[1] THEN 1 ELSE 0)
    + Cardinality(Written)

\* The task counts from the value stored last, which is in the store.
DurableInv ==
    /\ ~Running => pulses = 0
    /\ Running => pulses = IF pc \in PutSteps THEN saved + 1 ELSE saved
    /\ IF savedAt = NoAddress THEN saved = 0 /\ Written = {} ELSE nvs[savedAt] # NotFound
    /\ used[1] <= SlotsTaken

\* Past the first page there are as many addresses before as a page has entries.
LEMMA FirstPlaces ==
    ASSUME NEW a \in Address, Place(a) < MAX_ENTRIES
    PROVE  InFirstPage(a)
<1> SUFFICES ASSUME ~InFirstPage(a) PROVE FALSE
  OBVIOUS
<1> DEFINE T == AddressesBefore(a)
           f == [e \in Entries |-> First(e)]
<1>1. ASSUME NEW e \in Entries
      PROVE  First(e) \in T
    <2>1. Before(First(e), a)
      BY AddressFields DEF Before, First, At, InFirstPage
    <2> QED
      BY <2>1, FirstPageIsAddress DEF AddressesBefore
<1>2. f \in Injection(Entries, T)
  <2>1. \A d, e \in Entries : First(d) = First(e) => d = e
    BY DEF First, At
  <2>2. f \in [Entries -> T] /\ \A e \in Entries : f[e] = First(e)
    BY <1>1
  <2> HIDE DEF f, T
  <2> QED
    BY <2>1, <2>2 DEF Injection, IsInjective
<1>3. IsFiniteSet(T) /\ Cardinality(T) \in Nat
  BY PlaceType DEF Place
<1>4. Cardinality(Entries) = MAX_ENTRIES
  BY FS_Interval, GeometryAssumption DEF Entries
<1> HIDE DEF T, f
<1>5. Cardinality(Entries) <= Cardinality(T)
  BY <1>2, <1>3, FS_Injection
<1> QED
  BY <1>3, <1>4, <1>5, GeometryAssumption DEF Place, T

\* The bound on the pulses keeps the counter in the first page.
LEMMA StaysInFirstPage ==
    ASSUME FirstPageSuffices, TypeInv, OrderInv, WearInv
    PROVE  /\ Running => InFirstPage(pulse_address)
           /\ \A a \in Address : nvs[a] # NotFound => InFirstPage(a)
<1>1. /\ pulses \in Nat /\ pulses <= MaxPulses /\ MaxPulses \in Nat
      /\ \A a \in Address : nvs[a] \in Nat \cup {NotFound}
      /\ INITIAL_ENERGY \in InitialEnergies
  BY MeterAssumption DEF TypeInv, TypeOK, FlashTypeOK, WearInv
<1>2. Changes(Offset, MaxPulses) < MAX_ENTRIES
  BY <1>1 DEF FirstPageSuffices, Changes, WornUpTo, Offset
<1>3. ASSUME NEW a \in Address, NEW n \in Nat, n <= MaxPulses, BelongsAt(Offset, a, n)
      PROVE  InFirstPage(a)
  <2>1. Place(a) <= Changes(Offset, n) /\ Changes(Offset, n) <= Changes(Offset, MaxPulses)
    BY <1>1, <1>3, ChangesMonotone, ChangesType, PlaceType DEF BelongsAt
  <2>2. Place(a) < MAX_ENTRIES
    BY <1>1, <1>2, <1>3, <2>1, ChangesType, PlaceType, GeometryAssumption
  <2> QED
    BY <2>2, FirstPlaces
<1>4. ASSUME Running
      PROVE  InFirstPage(pulse_address)
  <2>1. pulse_address \in Address
    BY <1>4 DEF TypeInv, BootInv
  <2>2. BelongsAt(Offset, pulse_address, IF pc = "put" THEN pulses - 1 ELSE pulses)
    BY <1>4 DEF OrderInv
  <2>3. pc = "put" => pulses >= 1
    BY DEF OrderInv
  <2>4. CASE pc = "put"
    BY <1>1, <1>3, <2>1, <2>2, <2>3, <2>4
  <2>5. CASE pc # "put"
    BY <1>1, <1>3, <2>1, <2>2, <2>5
  <2> QED
    BY <2>4, <2>5
<1>5. ASSUME NEW a \in Address, nvs[a] # NotFound
      PROVE  InFirstPage(a)
  BY <1>1, <1>3, <1>5 DEF OrderInv, WearInv
<1> QED
  BY <1>4, <1>5

\* In the first page there is always room, and a boot finds the value stored last.
LEMMA DurableFacts ==
    ASSUME FirstPageSuffices, PageFits, TypeInv, StoreInv, OrderInv, WearInv, DurableInv
    PROVE  /\ HasRoom(1)
           /\ Written = {} => saved = 0
           /\ Written # {} => nvs[First(Last)] = saved
<1>1. 1 \in Partitions /\ used[1] \in Nat
  BY GeometryAssumption DEF Partitions, TypeInv, TypeOK, FlashTypeOK
<1>2. HasRoom(1)
  <2>1. Written \subseteq Entries
    BY DEF Written, WrittenIn
  <2>2. IsFiniteSet(Entries) /\ Cardinality(Entries) = MAX_ENTRIES
    BY FS_Interval, GeometryAssumption DEF Entries
  <2>3. Cardinality(Written) \in Nat /\ Cardinality(Written) <= MAX_ENTRIES
    BY <2>1, <2>2, FS_Subset, FS_CardinalityType
  <2>4. SlotsTaken <= 5 + MAX_ENTRIES /\ SlotsTaken \in Nat
    BY <2>3, GeometryAssumption DEF SlotsTaken
  <2> QED
    BY <1>1, <2>4, CapacityAssumption, GeometryAssumption
    DEF PageFits, DurableInv, HasRoom
<1>3. ASSUME savedAt # NoAddress
      PROVE  Written # {} /\ nvs[First(Last)] = saved
  <2>1. savedAt \in Address /\ nvs[savedAt] # NotFound
    BY <1>3 DEF TypeInv, TypeOK, FlashTypeOK, DurableInv
  <2>2. InFirstPage(savedAt)
    BY <2>1, StaysInFirstPage
  <2> QED
    BY <2>2 DEF StoreInv, SavedInv
<1>4. ASSUME savedAt = NoAddress
      PROVE  Written = {} /\ saved = 0
  BY <1>4 DEF DurableInv
<1> QED
  BY <1>2, <1>3, <1>4

\* An erased store.
LEMMA DurableInit == Init => DurableInv /\ Durable!Init
<1> SUFFICES ASSUME Init PROVE DurableInv /\ Durable!Init
  OBVIOUS
<1>1. Written = {}
  BY WrittenDef, FirstPageIsAddress DEF Init, FlashInit, Written, WrittenIn
<1>2. ~Running /\ pulses = 0 /\ saved = 0 /\ savedAt = NoAddress
  BY DEF Init, FlashInit, PoweredOn, Running, BootSteps
<1>3. used[1] = 0 /\ SlotsTaken = 0
  <2>1. 1 \in Partitions
    BY GeometryAssumption DEF Partitions
  <2>2. Cardinality(Written) = 0
    BY <1>1, FS_EmptySet
  <2> QED
    BY <2>1, <2>2 DEF Init, FlashInit, SlotsTaken
<1> QED
  BY <1>1, <1>2, <1>3 DEF DurableInv, Durable!Init

\* Every step of the node is one of the abstract counter or leaves it alone: a boot
\* reads what is durable, a pulse is counted when the one before is stored, a store
\* makes the count durable, a reset crashes it.
LEMMA DurableStep ==
    ASSUME FirstPageSuffices, PageFits
    PROVE  /\ TypeInv /\ TypeInv' /\ StoreInv /\ StoreInv' /\ OrderInv /\ OrderInv'
           /\ WearInv /\ WearInv' /\ DurableInv /\ [Next]_vars
           => DurableInv' /\ [Durable!Next]_Durable!vars
<1> SUFFICES ASSUME TypeInv, TypeInv', StoreInv, StoreInv', OrderInv, OrderInv',
                    WearInv, WearInv', DurableInv, [Next]_vars
             PROVE  DurableInv' /\ [Durable!Next]_Durable!vars
  OBVIOUS
<1>flash. /\ FlashTypeOK /\ FlashTypeOK' /\ pulses \in Nat /\ saved \in Nat
          /\ 1 \in Partitions
  <2>1. FlashTypeOK /\ FlashTypeOK' /\ pulses \in Nat
    BY DEF TypeInv, TypeOK
  <2>2. saved \in Nat
    BY <2>1 DEF FlashTypeOK
  <2>3. 1 \in Partitions
    BY GeometryAssumption DEF Partitions
  <2> QED
    BY <2>1, <2>2, <2>3
<1>facts. /\ HasRoom(1)
          /\ Written = {} => saved = 0
          /\ Written # {} => nvs[First(Last)] = saved
          /\ Running => InFirstPage(pulse_address) /\ 1 \in namespaces[1]
  BY DurableFacts, StaysInFirstPage DEF TypeInv, BootInv
\* Steps that store nothing.
<1>keep. ASSUME UNCHANGED nvsVars
         PROVE  SlotsTaken' = SlotsTaken /\ used'[1] = used[1]
  <2>1. Written' = Written
    BY <1>keep DEF Written, WrittenIn, nvsVars
  <2> QED
    BY <1>keep, <2>1 DEF SlotsTaken, nvsVars
<1>same. ASSUME UNCHANGED <<flashVars, pulses>>, Running' <=> Running,
                Running => (pc' \in PutSteps <=> pc \in PutSteps)
         PROVE  DurableInv' /\ [Durable!Next]_Durable!vars
  <2>1. Written' = Written
    BY <1>same DEF Written, WrittenIn, flashVars
  <2>2. UNCHANGED Durable!vars
    BY <1>same DEF Durable!vars, flashVars, Running
  <2> QED
    BY <1>same, <1>keep, <2>1, <2>2 DEF DurableInv, flashVars, nvsVars
<1> USE DEF Running, BootSteps, PutSteps
<1>1. CASE Reset
  <2>1. DurableInv'
    <3>1. Written' = Written
      BY <1>1 DEF Reset, Written, WrittenIn, flashVars
    <3> QED
      BY <1>1, <1>keep, <3>1 DEF Reset, PoweredOn, DurableInv, flashVars, nvsVars
  <2>2. CASE Running
    BY <1>1, <2>1, <2>2 DEF Reset, PoweredOn, flashVars, Durable!Next, Durable!Crash
  <2>3. CASE ~Running
    BY <1>1, <2>1, <2>3 DEF Reset, PoweredOn, flashVars, Durable!vars, DurableInv
  <2> QED
    BY <2>1, <2>2, <2>3
<1>2. CASE PulseEdge
  BY <1>2, <1>same DEF PulseEdge, taskVars
<1>3. CASE pulse_isr_init
  BY <1>3, <1>same DEF pulse_isr_init
<1>4. CASE CreateSemaphore
  BY <1>4, <1>same DEF CreateSemaphore
<1>5. CASE SearchPartition
  <2>1. Written' = Written /\ UNCHANGED <<nvs, namespaces, saved, savedAt, pulses>>
    BY <1>5 DEF SearchPartition, Written, WrittenIn, ghostVars
  <2>2. used'[1] <= SlotsTaken'
    <3>1. Searched = {1}
      BY <1>flash, SearchStopsAtFirst
    <3>2. /\ storage'[1] = IF storage[1].isFull = NotFound
                             THEN [storage[1] EXCEPT !.isFull = FALSE]
                             ELSE storage[1]
          /\ used'[1] = IF storage[1].isFull = NotFound THEN used[1] + 3 ELSE used[1]
      BY <1>5, <1>flash, <3>1 DEF SearchPartition, search_init_partition
    <3>3. /\ storage'[1].isFull # NotFound
          /\ storage'[1].page_index = storage[1].page_index
      BY <1>flash, <3>2, NotFoundAssumption DEF FlashTypeOK
    <3>4. Cardinality(Written) \in Nat /\ used[1] \in Nat
      <4>1. Written \subseteq Entries /\ IsFiniteSet(Entries)
        BY FS_Interval, GeometryAssumption DEF Written, WrittenIn, Entries
      <4> QED
        BY <1>flash, <4>1, FS_Subset, FS_CardinalityType DEF FlashTypeOK
    <3> QED
      BY <2>1, <3>2, <3>3, <3>4 DEF SlotsTaken, DurableInv
  <2> QED
    BY <1>5, <2>1, <2>2 DEF SearchPartition, DurableInv, Durable!vars
<1>6. CASE ReadPageIndex
  <2>1. Written' = Written /\ UNCHANGED <<nvs, namespaces, saved, savedAt, pulses>>
    BY <1>6 DEF ReadPageIndex, Written, WrittenIn, ghostVars
  <2>2. used'[1] <= SlotsTaken'
    <3>1. pulse_address.partition = 1
      BY <1>6 DEF ReadPageIndex, TypeInv, BootInv
    <3>2. /\ storage' = [storage EXCEPT ![1].page_index = PageIndex(1)]
          /\ used' = [used EXCEPT ![1] =
                        IF storage[1].page_index = NotFound THEN @ + 1 ELSE @]
      BY <1>6, <3>1 DEF ReadPageIndex, read_pvcounter_from_storage
    <3>3. /\ storage'[1].isFull = storage[1].isFull
          /\ storage'[1].page_index # NotFound
          /\ used'[1] = IF storage[1].page_index = NotFound THEN used[1] + 1 ELSE used[1]
      BY <1>flash, <3>2, NotFoundAssumption DEF FlashTypeOK, PageIndex
    <3>4. Cardinality(Written) \in Nat /\ used[1] \in Nat
      <4>1. Written \subseteq Entries /\ IsFiniteSet(Entries)
        BY FS_Interval, GeometryAssumption DEF Written, WrittenIn, Entries
      <4> QED
        BY <1>flash, <4>1, FS_Subset, FS_CardinalityType DEF FlashTypeOK
    <3> QED
      BY <2>1, <3>3, <3>4 DEF SlotsTaken, DurableInv
  <2> QED
    BY <1>6, <2>1, <2>2 DEF ReadPageIndex, DurableInv, Durable!vars
<1>7. CASE ReadCount
  <2> DEFINE a == First(Last)
  <2>part. 1 \in Pages /\ 0 \in Entries
    BY GeometryAssumption DEF Pages, Entries
  <2>1. pulse_address.partition = 1 /\ PageIndex(1) = 1
    BY <1>7, <1>flash DEF ReadCount, PageIndex, FlashTypeOK, TypeInv, BootInv
  <2>2. /\ get_pulse_counter_info(1, 1)
        /\ pulses' = IF nvs[a] = NotFound THEN 0 ELSE nvs[a]
        /\ pc' = "init_high"
        /\ UNCHANGED storage
    BY <1>7, <2>1 DEF ReadCount, First, Last
  <2>3. Last \in Entries /\ a \in Address
    BY <1>flash, <2>part, LastEntryType, FirstPageIsAddress DEF Last
  <2>4. /\ IsFiniteSet(Written) /\ Cardinality(Written) \in Nat
        /\ IsFiniteSet(Written') /\ Cardinality(Written') \in Nat
    <3>1. Written \subseteq Entries /\ Written' \subseteq Entries /\ IsFiniteSet(Entries)
      BY FS_Interval, GeometryAssumption DEF Written, WrittenIn, Entries
    <3> QED
      BY <3>1, FS_Subset, FS_CardinalityType
  <2>5. Cardinality(Written') = Cardinality(Written) + (IF nvs[a] = NotFound THEN 1 ELSE 0)
    <3>1. CASE nvs[a] # NotFound
      <4>1. nvs' = nvs
        BY <1>flash, <2>2, <2>3, <3>1 DEF get_pulse_counter_info, First, Last, FlashTypeOK
      <4>2. Written' = Written
        BY <4>1 DEF Written, WrittenIn
      <4> QED
        BY <2>4, <3>1, <4>2
    <3>2. CASE nvs[a] = NotFound
      <4>1. nvs' = [nvs EXCEPT ![a] = 0]
        BY <2>2, <3>2 DEF get_pulse_counter_info, First, Last
      <4>2. ASSUME NEW e \in Entries
            PROVE  e \in Written' <=> e \in Written \/ e = Last
        <5>1. e \in Written' <=> nvs'[First(e)] # NotFound
          BY DEF Written, WrittenIn, First
        <5>2. e \in Written <=> nvs[First(e)] # NotFound
          BY WrittenDef
        <5>3. e # Last => First(e) # First(Last)
          BY DEF First, At
        <5>4. First(e) \in Address
          BY FirstPageIsAddress
        <5> QED
          BY <1>flash, <2>3, <4>1, <5>1, <5>2, <5>3, <5>4, NotFoundAssumption
          DEF FlashTypeOK
      <4>3. Last \notin Written
        BY <2>3, <3>2, WrittenDef
      <4>4. Written' = Written \cup {Last}
        <5>1. Written \subseteq Entries /\ Written' \subseteq Entries
          BY DEF Written, WrittenIn
        <5> QED
          BY <2>3, <4>2, <5>1
      <4> QED
        BY <2>4, <3>2, <4>3, <4>4, FS_AddElement
    <3> QED
      BY <3>1, <3>2
  <2>6. used'[1] = used[1] + (IF 1 \in namespaces[1] THEN 0 ELSE 1)
                     + (IF nvs[a] = NotFound THEN 1 ELSE 0)
    BY <1>flash, <2>2 DEF get_pulse_counter_info, First, Last, FlashTypeOK
  <2>7. used'[1] <= SlotsTaken'
    <3>1. 1 \in namespaces'[1]
      BY <1>flash, <2>2 DEF get_pulse_counter_info, FlashTypeOK
    <3>2. used[1] \in Nat
      BY <1>flash DEF FlashTypeOK
    <3> HIDE DEF a
    <3> QED
      BY <2>2, <2>4, <2>5, <2>6, <3>1, <3>2 DEF SlotsTaken, DurableInv
  <2>8. saved' = saved /\ pulses' = saved /\ savedAt' # NoAddress /\ nvs'[savedAt'] # NotFound
    <3>1. a # NoAddress
      BY DEF First, At, NoAddress, ZeroAddress
    <3>2. CASE nvs[a] = NotFound
      <4>1. nvs' = [nvs EXCEPT ![a] = 0] /\ saved' = 0 /\ savedAt' = a /\ pulses' = 0
        BY <2>2, <3>2 DEF get_pulse_counter_info, First, Last
      <4>2. Written = {}
        BY <2>3, <3>2, LastOfPrefix, WrittenDef, GeometryAssumption DEF StoreInv, Entries
      <4>3. nvs'[a] = 0 /\ 0 # NotFound
        BY <1>flash, <2>3, <4>1, NotFoundAssumption DEF FlashTypeOK
      <4> QED
        BY <1>facts, <3>1, <4>1, <4>2, <4>3
    <3>3. CASE nvs[a] # NotFound
      <4>1. nvs' = nvs /\ saved' = saved /\ savedAt' = savedAt /\ pulses' = nvs[a]
        BY <1>flash, <2>2, <2>3, <3>3 DEF get_pulse_counter_info, First, Last, FlashTypeOK
      <4>2. Written # {}
        BY <2>3, <3>3, WrittenDef
      <4> QED
        BY <1>facts, <4>1, <4>2 DEF DurableInv
    <3> QED
      BY <3>2, <3>3
  <2>9. DurableInv'
    BY <2>2, <2>7, <2>8 DEF DurableInv
  <2>10. Durable!Boot
    BY <1>7, <2>2, <2>8 DEF ReadCount, Durable!Boot
  <2> QED
    BY <2>9, <2>10 DEF Durable!Next
<1>8. CASE PublishHigh
  BY <1>8, <1>same DEF PublishHigh
<1>9. CASE PublishLow
  BY <1>9, <1>same DEF PublishLow
<1>10. CASE TakeSemaphore
  BY <1>10, <1>same DEF TakeSemaphore
<1>11. CASE SampleHigh
  <2>1. pulses = saved /\ Running /\ pulses' = pulses + 1
    BY <1>11 DEF SampleHigh, DurableInv
  <2>2. DurableInv'
    <3>1. Written' = Written
      BY <1>11 DEF SampleHigh, Written, WrittenIn, flashVars
    <3> QED
      BY <1>11, <1>keep, <2>1, <3>1 DEF SampleHigh, DurableInv, flashVars, nvsVars
  <2> QED
    BY <1>11, <2>1, <2>2 DEF SampleHigh, flashVars, Durable!Next, Durable!Count
<1>12. CASE SampleLow
  BY <1>12, <1>same DEF SampleLow
<1>13. CASE PutAddress
  BY <1>13, <1>same DEF PutAddress
<1>14. CASE FlashFull
  BY <1>14, <1>facts, GeometryAssumption DEF FlashFull, IsLast, InFirstPage
<1>15. CASE SaveOpen
  <2>1. pulse_address.partition = 1 /\ pulse_address.page = 1 /\ 1 \in namespaces[1]
    BY <1>15, <1>facts DEF SaveOpen, InFirstPage
  <2>2. CanOpen(1, 1) /\ pc' = "set" /\ OpenPage(1, 1)
    BY <1>15, <2>1 DEF SaveOpen, CanOpen
  <2>3. UNCHANGED <<namespaces, used>>
    BY <1>flash, <2>1, <2>2 DEF OpenPage, FlashTypeOK
  <2> QED
    BY <1>15, <1>same, <2>2, <2>3 DEF SaveOpen, ghostVars, flashVars
<1>16. CASE SaveSet
  <2> DEFINE e == pulse_address.entry_index
  <2>1. /\ pulse_address \in Address
        /\ e \in Entries
        /\ pulse_address = First(e)
        /\ pulse_address.partition = 1
    BY <1>16, <1>facts
    DEF SaveSet, TypeInv, BootInv, Address, InFirstPage, First, At
  <2>2. /\ WriteEntry(First(e), pulses)
        /\ pulses' = pulses
        /\ pc' = "publish_high"
        /\ UNCHANGED <<storage, namespaces>>
    BY <1>16, <1>facts, <2>1 DEF SaveSet, PutReturns
  <2>3. /\ nvs' = [nvs EXCEPT ![First(e)] = pulses]
        /\ saved' = pulses /\ savedAt' = First(e)
        /\ used'[1] = IF nvs[First(e)] = NotFound THEN used[1] + 1 ELSE used[1]
    BY <1>flash, <2>1, <2>2 DEF WriteEntry, FlashTypeOK
  <2>4. /\ IsFiniteSet(Written) /\ Cardinality(Written) \in Nat
        /\ IsFiniteSet(Written') /\ Cardinality(Written') \in Nat
    <3>1. Written \subseteq Entries /\ Written' \subseteq Entries /\ IsFiniteSet(Entries)
      BY FS_Interval, GeometryAssumption DEF Written, WrittenIn, Entries
    <3> QED
      BY <3>1, FS_Subset, FS_CardinalityType
  <2>5. ASSUME NEW i \in Entries
        PROVE  i \in Written' <=> i \in Written \/ i = e
    <3>1. i \in Written' <=> nvs'[First(i)] # NotFound
      BY DEF Written, WrittenIn, First
    <3>2. i \in Written <=> nvs[First(i)] # NotFound
      BY WrittenDef
    <3>3. i # e => First(i) # First(e)
      BY DEF First, At
    <3>4. First(i) \in Address
      BY FirstPageIsAddress
    <3> HIDE DEF e
    <3> QED
      BY <1>flash, <2>1, <2>3, <3>1, <3>2, <3>3, <3>4, NotFoundAssumption DEF FlashTypeOK
  <2>6. Written' = Written \cup {e}
    <3>1. Written \subseteq Entries /\ Written' \subseteq Entries
      BY DEF Written, WrittenIn
    <3> QED
      BY <2>1, <2>5, <3>1
  <2>7. Cardinality(Written') = Cardinality(Written)
                                  + (IF nvs[First(e)] = NotFound THEN 1 ELSE 0)
    <3>1. e \in Written <=> nvs[First(e)] # NotFound
      BY <2>1, WrittenDef
    <3> HIDE DEF e
    <3> QED
      BY <2>4, <2>6, <3>1, FS_AddElement
  <2>8. used'[1] <= SlotsTaken'
    <3>1. used[1] \in Nat
      BY <1>flash DEF FlashTypeOK
    <3> HIDE DEF e
    <3> QED
      BY <2>2, <2>3, <2>4, <2>7, <3>1 DEF SlotsTaken, DurableInv
  <2>9. savedAt' # NoAddress /\ nvs'[savedAt'] # NotFound
    BY <1>flash, <2>1, <2>3, NotFoundAssumption
    DEF First, At, NoAddress, ZeroAddress, FlashTypeOK
  <2>10. DurableInv'
    BY <2>2, <2>3, <2>8, <2>9 DEF DurableInv
  <2>11. pulses = saved + 1 /\ Running /\ Running'
    BY <1>16, <2>2 DEF SaveSet, DurableInv
  <2>12. Durable!Save
    BY <1>flash, <2>2, <2>3, <2>11 DEF Durable!Save
  <2> QED
    BY <2>10, <2>12 DEF Durable!Next
<1>17. CASE EndHoldoff
  BY <1>17, <1>same DEF EndHoldoff
<1>18. CASE UNCHANGED vars
  BY <1>18, <1>same DEF vars
<1> QED
  BY <1>1, <1>2, <1>3, <1>4, <1>5, <1>6, <1>7, <1>8, <1>9, <1>10, <1>11,
     <1>12, <1>13, <1>14, <1>15, <1>16, <1>17, <1>18
  DEF Next, TaskStep, PulseEdgeAborts, PowerLoss

\* The pulse task is the abstract counter: every behaviour is one of its behaviours,
\* liveness aside.
THEOREM IsDurableCounter ==
    ASSUME FirstPageSuffices, PageFits
    PROVE  Spec => Durable!Init /\ [][Durable!Next]_Durable!vars
<1>1. Init => TypeInv /\ StoreInv /\ OrderInv /\ WearInv /\ DurableInv /\ Durable!Init
  BY TypeInvInit, StoreInvInit, OrderInit, WearInit, DurableInit
<1>2. TypeInv /\ StoreInv /\ OrderInv /\ WearInv /\ DurableInv /\ [Next]_vars
      => /\ TypeInv' /\ StoreInv' /\ OrderInv' /\ WearInv' /\ DurableInv'
         /\ [Durable!Next]_Durable!vars
  BY TypeInvStep, StoreInvStep, OrderStep, WearStep, DurableStep
<1> QED
  BY <1>1, <1>2, PTL DEF Spec
=============================================================================
