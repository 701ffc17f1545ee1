------------------------------ MODULE FlashStore ------------------------------
(***************************************************************************)
(* The pulse store of main/flash.c: the counter is kept in the NVS         *)
(* partitions "app1".."appN", each split into pages (NVS namespaces) of    *)
(* entries (NVS keys).  A counter value overwrites the current entry until *)
(* the entry has taken its share of writes, then the next entry is used.   *)
(*                                                                         *)
(* The module holds the persisted state, the address arithmetic and the    *)
(* single NVS operations; Meter composes them into the pulse task.  The    *)
(* NVS library is external: it is modelled by the two facts that the code  *)
(* depends on, namely that creating a namespace or writing a key takes a   *)
(* slot of the partition and fails when none is left.                      *)
(***************************************************************************)
EXTENDS Integers, FiniteSets

CONSTANTS
    MAX_PARTITIONS, \* pulse partitions (3)
    MAX_PAGES,      \* pages of a partition (15)
    MAX_ENTRIES,    \* entries of a page (126)
    MAX_WRITES,     \* writes an entry takes before the next one is used (80000)
    UINT32,         \* 2^32, the modulus of the counter's arithmetic
    NvsCapacity,    \* slots of a 64K NVS partition (15 * 126)
    NotFound        \* ESP_ERR_NVS_NOT_FOUND: the key does not exist

\* A partition has more than one page.
ASSUME GeometryAssumption ==
    /\ MAX_PARTITIONS \in Nat \ {0}
    /\ MAX_PAGES \in Nat \ {0, 1}
    /\ MAX_ENTRIES \in Nat \ {0}
    /\ MAX_WRITES \in Nat \ {0}

ASSUME UintAssumption == UINT32 \in Nat \ {0}

\* A fresh partition has room for everything a first boot creates in it: the
\* "storage" namespace with its three keys, the first page and its first entry.
ASSUME CapacityAssumption == NvsCapacity \in Nat /\ NvsCapacity >= 6

ASSUME NotFoundAssumption == NotFound \notin Nat \cup BOOLEAN

Partitions == 1 .. MAX_PARTITIONS
Pages      == 1 .. MAX_PAGES
Entries    == 0 .. (MAX_ENTRIES - 1)

\* nvs_address_t
Address == [partition : Partitions, page : Pages, entry_index : Entries]

\* pulse_address is a zero-initialised global until the store has been searched.
AddressVar == [partition   : 0 .. MAX_PARTITIONS,
               page        : 0 .. MAX_PAGES,
               entry_index : Entries]
ZeroAddress == [partition |-> 0, page |-> 0, entry_index |-> 0]
NoAddress   == ZeroAddress

VARIABLES
    nvs,        \* counter value under each address, NotFound if never written
    namespaces, \* page namespaces that exist in each partition
    storage,    \* keys of the "storage" namespace of each partition
    used,       \* NVS slots taken in each partition
    saved,      \* ghost: the last value stored through put_nvs or created at boot
    savedAt,    \* ghost: where it was stored
    writes      \* ghost: times each address has been written

nvsVars   == <<nvs, namespaces, storage, used>>
ghostVars == <<saved, savedAt, writes>>
flashVars == <<nvs, namespaces, storage, used, saved, savedAt, writes>>

FlashTypeOK ==
    /\ nvs \in [Address -> Nat \cup {NotFound}]
    /\ namespaces \in [Partitions -> SUBSET Pages]
    /\ storage \in [Partitions -> [isFull     : {FALSE, NotFound},
                                   page_index : {1, NotFound}]]
    /\ used \in [Partitions -> Nat]
    /\ saved \in Nat
    /\ savedAt \in Address \cup {NoAddress}
    /\ writes \in [Address -> Nat]

\* A board that has never counted: every partition is erased.
FlashInit ==
    /\ nvs = [a \in Address |-> NotFound]
    /\ namespaces = [p \in Partitions |-> {}]
    /\ storage = [p \in Partitions |->
                    [isFull |-> NotFound, page_index |-> NotFound]]
    /\ used = [p \in Partitions |-> 0]
    /\ saved = 0
    /\ savedAt = NoAddress
    /\ writes = [a \in Address |-> 0]

-----------------------------------------------------------------------------
(* Slots of the NVS library *)

HasRoom(p) == used[p] < NvsCapacity

\* nvs_open_from_partition(.., NVS_READWRITE, ..): a new namespace takes a slot.
CanOpen(p, g) == g \in namespaces[p] \/ HasRoom(p)

OpenPage(p, g) ==
    /\ namespaces' = [namespaces EXCEPT ![p] = @ \cup {g}]
    /\ used' = [used EXCEPT ![p] = IF g \in namespaces[p] THEN @ ELSE @ + 1]

\* nvs_set_u32 and nvs_commit: a new key takes a slot, and overwriting one
\* needs a spare slot for the new copy before the old one is erased.
WriteEntry(a, value) ==
    /\ nvs' = [nvs EXCEPT ![a] = value]
    /\ used' = [used EXCEPT ![a.partition] = IF nvs[a] = NotFound THEN @ + 1 ELSE @]
    /\ saved' = value
    /\ savedAt' = a
    /\ writes' = [writes EXCEPT ![a] = @ + 1]

-----------------------------------------------------------------------------
(* Where the next value goes: the address arithmetic of put_nvs *)

\* round((float)INITIAL_ENERGY / 100 * IMPULSE_CONVERSION)
writes_offset(energy, conversion) == ((energy * conversion + 50) \div 100) % UINT32

writes_count(data, offset) == (data - offset) % UINT32

\* Faulty: the entry is changed once instead of every MAX_WRITES values.
EntryWorn_once(data, offset) == writes_count(data, offset) = MAX_WRITES

\* Faulty: the entry is also changed at the count it starts from.
EntryWorn_start(data, offset) == writes_count(data, offset) % MAX_WRITES = 0

\* !writeNext && (writes_count > 0)
EntryWorn(data, offset) ==
    /\ writes_count(data, offset) % MAX_WRITES = 0
    /\ writes_count(data, offset) > 0

\* Faulty: one past the last page and entry.
IsLast_past(a) ==
    /\ a.partition >= MAX_PARTITIONS
    /\ a.page > MAX_PAGES
    /\ a.entry_index >= MAX_ENTRIES

IsLast(a) ==
    /\ a.partition >= MAX_PARTITIONS
    /\ a.page >= MAX_PAGES
    /\ a.entry_index >= MAX_ENTRIES - 1

NextAddress(a) ==
    IF a.entry_index < MAX_ENTRIES - 1
      THEN [a EXCEPT !.entry_index = @ + 1]
      ELSE IF a.page < MAX_PAGES
             THEN [a EXCEPT !.page = @ + 1, !.entry_index = 0]
             ELSE [partition |-> a.partition + 1, page |-> 1, entry_index |-> 0]

-----------------------------------------------------------------------------
(* What a boot finds: get_initial_pulse *)

\* The partitions search_init_partition looks at: up to and including the first
\* one that is not marked full.
Searched == {p \in Partitions : \A q \in 1 .. (p - 1) : storage[q].isFull = TRUE}

FoundPartition == CHOOSE p \in Searched : \A q \in Searched : q <= p

\* It creates the keys "isFull" and "pnumber" where they are missing (with the
\* namespace, three slots).  check_partition, which it calls first, erases a partition
\* that NVS cannot use: one without a free page, or of a newer layout.  NVS keeps a page
\* free of what this program writes, so neither happens here.
search_init_partition ==
    /\ storage' = [p \in Partitions |->
            IF p \in Searched /\ storage[p].isFull = NotFound
              THEN [storage[p] EXCEPT !.isFull = FALSE]
              ELSE storage[p]]
    /\ used' = [p \in Partitions |->
            IF p \in Searched /\ storage[p].isFull = NotFound
              THEN used[p] + 3 ELSE used[p]]

\* read_pvcounter_from_storage: the page to look at, 1 when none was recorded.
PageIndex(p) == IF storage[p].page_index = NotFound THEN 1 ELSE storage[p].page_index

read_pvcounter_from_storage(p) ==
    /\ storage' = [storage EXCEPT ![p].page_index = PageIndex(p)]
    /\ used' = [used EXCEPT ![p] =
                  IF storage[p].page_index = NotFound THEN @ + 1 ELSE @]

At(p, g, e) == [partition |-> p, page |-> g, entry_index |-> e]

WrittenIn(p, g) == {e \in Entries : nvs[At(p, g, e)] # NotFound}

\* Faulty: the number of entries taken for the index of the last one.
LastEntry_next(p, g) == Cardinality(WrittenIn(p, g))

\* get_pulse_counter_info counts the entries of the page; the last one is taken
\* to be the current one.
LastEntry(p, g) == IF WrittenIn(p, g) = {} THEN 0 ELSE Cardinality(WrittenIn(p, g)) - 1

\* Faulty: the entry is set to 0 whether or not it exists.
get_pulse_counter_info_reset(p, g) ==
    LET a == At(p, g, LastEntry(p, g))
    IN /\ namespaces' = [namespaces EXCEPT ![p] = @ \cup {g}]
       /\ used' = [used EXCEPT ![p] = @ + IF g \in namespaces[p] THEN 0 ELSE 2]
       /\ nvs' = [nvs EXCEPT ![a] = 0]
       /\ writes' = [writes EXCEPT ![a] = @ + 1]
       /\ saved' = 0
       /\ savedAt' = a

\* It opens the page, creating its namespace and an entry 0 that holds 0 when
\* the key is missing.
get_pulse_counter_info(p, g) ==
    LET a        == At(p, g, LastEntry(p, g))
        newPage  == IF g \in namespaces[p] THEN 0 ELSE 1
        newEntry == IF nvs[a] = NotFound THEN 1 ELSE 0
    IN /\ namespaces' = [namespaces EXCEPT ![p] = @ \cup {g}]
       /\ used' = [used EXCEPT ![p] = @ + newPage + newEntry]
       /\ nvs' = [nvs EXCEPT ![a] = IF newEntry = 1 THEN 0 ELSE @]
       /\ writes' = [writes EXCEPT ![a] = @ + newEntry]
       /\ saved' = IF newEntry = 1 THEN 0 ELSE saved
       /\ savedAt' = IF newEntry = 1 THEN a ELSE savedAt

\* What get_initial_pulse would return if the node booted now.
RecoveredAddress ==
    LET p == FoundPartition
    IN At(p, PageIndex(p), LastEntry(p, PageIndex(p)))
RecoveredCount ==
    IF nvs[RecoveredAddress] = NotFound THEN 0 ELSE nvs[RecoveredAddress]

\* The addresses a boot can come back to: the first page of the first partition.
InFirstPage(a) == a.partition = 1 /\ a.page = 1
=============================================================================
