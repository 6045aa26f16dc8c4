---------------------------- MODULE StrDictionary ----------------------------
(***************************************************************************)
(* src/dictionary/str_dictionary.c: the open-addressing hash table that    *)
(* holds the database.  A call is one step; the linear-probing loops are   *)
(* written as conditions on the offsets they visit (StrDictionaryLoops     *)
(* states the same loops iteration by iteration and compares).             *)
(***************************************************************************)
EXTENDS Integers, FiniteSets

CONSTANTS
  Keys,                    \* strings used as keys
  Values,                  \* strings used as values
  NULL,                    \* the NULL pointer
  Hash,                    \* Hash[k] is XXH3_64bits of key k
  SizeModulus,             \* 2 ^ (width of size_t)
  DEFAULT_START_CAPACITY,  \* capacity used when dict_new is passed 0
  Requests,                \* capacities callers pass to dict_new
  FailingAllocs            \* the mallocs that may return NULL

ASSUME DictAssumption ==
  /\ NULL \notin Keys \cup Values
  /\ Hash \in [Keys -> Nat]
  /\ SizeModulus \in Nat
  /\ DEFAULT_START_CAPACITY \in 1 .. (SizeModulus - 1)
  /\ Requests \subseteq 0 .. (SizeModulus - 1)
  /\ FailingAllocs \subseteq {"dict", "resize", "entry", "json"}

VARIABLES
  entries,   \* dict->entries, a function on the slots; empty without a dict
  capacity,  \* dict->capacity, 0 when the caller holds no dict (NULL)
  size,      \* dict->size
  ret,       \* <<operation, result>> of the last call
  crashed    \* the process dereferenced NULL

vars == <<entries, capacity, size, ret, crashed>>

EMPTY   == "EMPTY"
FILLED  == "FILLED"
DELETED == "DELETED"

Entry ==
  [state : {EMPTY, FILLED, DELETED}, key : Keys \cup {NULL}, value : Values \cup {NULL}]

EmptyEntry   == [state |-> EMPTY, key |-> NULL, value |-> NULL]

\* Mutant: a removal leaves no tombstone.
DeletedEntry_Empty == EmptyEntry

DeletedEntry == [state |-> DELETED, key |-> NULL, value |-> NULL]
FilledEntry(k, v) == [state |-> FILLED, key |-> k, value |-> v]

Slots(c) == 0 .. (c - 1)

NewTable(c) == [s \in Slots(c) |-> EmptyEntry]

Filled(e)   == {s \in DOMAIN e : e[s].state = FILLED}
Occupied(e) == {s \in DOMAIN e : e[s].state # EMPTY}

\* Slots whose entry has a key: those a probe can compare with strcmp.
Keyed(e) == {s \in Filled(e) : e[s].key # NULL}

\* Every entry has both its strings.
Complete(e) == \A s \in Filled(e) : e[s].key # NULL /\ e[s].value # NULL

------------------------------------------------------------------------------
(* Probing: the j-th slot visited for key k in a table of capacity c.       *)

SlotAt(c, k, j) == (Hash[k] + j) % c

HasKey(entry, k) == entry.state = FILLED /\ entry.key = k

\* The loop ends at offset j: no entry, the entry of k, or strcmp on NULL.
Stops(e, c, k, j) ==
  LET entry == e[SlotAt(c, k, j)]
  IN  entry.state = EMPTY \/ HasKey(entry, k) \/ HasKey(entry, NULL)

Reaches(e, c, k, j) == \A i \in 0 .. (j - 1) : ~Stops(e, c, k, i)

Hits(e, c, k, j) == Reaches(e, c, k, j) /\ HasKey(e[SlotAt(c, k, j)], k)

Found(e, c, k) == \E j \in Slots(c) : Hits(e, c, k, j)

FoundSlot(e, c, k) == SlotAt(c, k, CHOOSE j \in Slots(c) : Hits(e, c, k, j))

\* The probe compares the key with an entry whose key is NULL.
Faults(e, c, k) ==
  \E j \in Slots(c) : Reaches(e, c, k, j) /\ HasKey(e[SlotAt(c, k, j)], NULL)

\* Where a new key goes: the first slot of its path that holds no entry, be
\* it the first tombstone (first_deleted) or the EMPTY slot ending the probe.
FreeAt(e, c, k, j) ==
  /\ e[SlotAt(c, k, j)].state # FILLED
  /\ \A i \in 0 .. (j - 1) : e[SlotAt(c, k, i)].state = FILLED

------------------------------------------------------------------------------
(* Growing: MAX_LOAD_FACTOR is 3/4, RESIZE_FACTOR is 2.                     *)

\* Mutant: the table grows only once it is overfull.
NeedsResize_Late(e, c) == Cardinality(Occupied(e)) > c

NeedsResize(e, c) == 4 * Cardinality(Occupied(e)) >= 3 * c

\* The capacity of the dict that dict_new makes for `request' slots.
StartCapacity(request) == IF request = 0 THEN DEFAULT_START_CAPACITY ELSE request

\* Mutant: the capacity grows by one.
Doubled_PlusOne(c) == (c + 1) % SizeModulus

Doubled(c) == (2 * c) % SizeModulus

NewCapacity(c) == StartCapacity(Doubled(c))

\* Mutant: no check that the doubled capacity has not wrapped.
ResizeFits_Unchecked(c) == TRUE

ResizeFits(c) == Doubled(c) >= c

\* Mutant: the old array is copied, slot by slot, into the larger one.
IsRehash_Copied(pos, e, c) == \A i \in Filled(e) : pos[i] = i

\* pos[i] is where the entry of old slot i is put when the old slots are
\* inserted in ascending order: the first slot of its path in the new table
\* that no earlier entry has taken.
IsRehash(pos, e, c) ==
  /\ \A i1, i2 \in Filled(e) : pos[i1] = pos[i2] => i1 = i2
  /\ \A i \in Filled(e) : \E j \in Slots(c) :
       /\ pos[i] = SlotAt(c, e[i].key, j)
       /\ \A m \in 0 .. (j - 1) :
            \E i0 \in Filled(e) : i0 < i /\ pos[i0] = SlotAt(c, e[i].key, m)

Relocate(pos, e, c) ==
  [s \in Slots(c) |->
     IF \E i \in Filled(e) : pos[i] = s
     THEN e[CHOOSE i \in Filled(e) : pos[i] = s]
     ELSE EmptyEntry]

Rehashed(e, c) ==
  {Relocate(pos, e, c) : pos \in {p \in [Filled(e) -> Slots(c)] : IsRehash(p, e, c)}}

\* The tables dict_insert may probe after its load-factor check: none when a
\* resize is due and cannot succeed.
PreparedCapacity ==
  IF NeedsResize(entries, capacity) THEN NewCapacity(capacity) ELSE capacity

PreparedTables ==
  IF ~NeedsResize(entries, capacity) THEN {entries}
  ELSE IF ResizeFits(capacity) /\ Complete(entries)
       THEN Rehashed(entries, NewCapacity(capacity))
       ELSE {}

------------------------------------------------------------------------------
(* The operations.  A live process holds one dict or none (capacity 0).     *)

Init ==
  /\ entries = NewTable(0)
  /\ capacity = 0
  /\ size = 0
  /\ ret = <<"free", 0>>
  /\ crashed = FALSE

Reply(op, result) == ret' = <<op, result>> /\ UNCHANGED crashed

DictNew(request) ==
  /\ capacity = 0
  /\ capacity' = StartCapacity(request)
  /\ entries' = NewTable(capacity')
  /\ size' = 0
  /\ Reply("new", TRUE)

DictNewFails ==
  /\ capacity = 0
  /\ "dict" \in FailingAllocs
  /\ Reply("new", FALSE)
  /\ UNCHANGED <<entries, capacity, size>>

\* Mutant: an update counts as one more entry.
InsertUpdate_Counted(e, c, k, v) ==
  /\ Found(e, c, k)
  /\ entries' = [e EXCEPT ![FoundSlot(e, c, k)].value = v]
  /\ Reply("insert", 0)
  /\ capacity' = c
  /\ size' = size + 1

\* The key is there: its value is freed, then the copy of v is allocated.
InsertUpdate(e, c, k, v) ==
  /\ Found(e, c, k)
  /\ LET s == FoundSlot(e, c, k)
     IN  \/ entries' = [e EXCEPT ![s].value = v] /\ Reply("insert", 0)
         \/ /\ "entry" \in FailingAllocs
            /\ entries' = [e EXCEPT ![s].value = NULL]
            /\ Reply("insert", -1)
  /\ capacity' = c
  /\ UNCHANGED size

\* A new key: the slot is marked FILLED before its strings are allocated, and
\* stays so, with no key, when either allocation fails.
InsertNew(e, c, k, v) ==
  /\ ~Found(e, c, k)
  /\ ~Faults(e, c, k)
  /\ \E j \in Slots(c) :
       /\ FreeAt(e, c, k, j)
       /\ \/ /\ entries' = [e EXCEPT ![SlotAt(c, k, j)] = FilledEntry(k, v)]
             /\ size' = size + 1
             /\ Reply("insert", 0)
          \/ /\ "entry" \in FailingAllocs
             /\ entries' = [e EXCEPT ![SlotAt(c, k, j)] = FilledEntry(NULL, NULL)]
             /\ Reply("insert", -1)
             /\ UNCHANGED size
  /\ capacity' = c

DictInsert(k, v) ==
  /\ capacity # 0
  /\ \E e \in PreparedTables :
       \/ InsertUpdate(e, PreparedCapacity, k, v)
       \/ InsertNew(e, PreparedCapacity, k, v)

\* No dict, or a resize is due and fails: the size would wrap, malloc fails,
\* or an incomplete entry is refused by the insertion into the new table.
InsertRefused ==
  /\ \/ capacity = 0
     \/ /\ NeedsResize(entries, capacity)
        /\ \/ ~ResizeFits(capacity)
           \/ ~Complete(entries)
           \/ "resize" \in FailingAllocs
  /\ Reply("insert", -1)
  /\ UNCHANGED <<entries, capacity, size>>

\* The entry of k is freed; its slot is left holding `left'.
RemoveLeaving(k, left) ==
  /\ size # 0
  /\ Found(entries, capacity, k)
  /\ entries' = [entries EXCEPT ![FoundSlot(entries, capacity, k)] = left]
  /\ size' = size - 1
  /\ Reply("remove", 0)
  /\ UNCHANGED capacity

\* Mutant: the state is not reset.
DictRemove_StillFilled(k) == RemoveLeaving(k, FilledEntry(NULL, NULL))

DictRemove(k) == RemoveLeaving(k, DeletedEntry)

RemoveRefused(k) ==
  /\ \/ size = 0
     \/ ~Found(entries, capacity, k) /\ ~Faults(entries, capacity, k)
  /\ Reply("remove", -1)
  /\ UNCHANGED <<entries, capacity, size>>

\* dict_get_fb; dict_get is the case fallback = NULL.
DictGet(k, fallback) ==
  /\ ~Faults(entries, capacity, k)
  /\ LET value == IF Found(entries, capacity, k)
                  THEN entries[FoundSlot(entries, capacity, k)].value
                  ELSE NULL
     IN  Reply("get", IF value = NULL THEN fallback ELSE value)
  /\ UNCHANGED <<entries, capacity, size>>

DictContains(k) ==
  /\ ~Faults(entries, capacity, k)
  /\ Reply("contains", Found(entries, capacity, k))
  /\ UNCHANGED <<entries, capacity, size>>

DictSize ==
  /\ Reply("size", IF capacity = 0 THEN SizeModulus - 1 ELSE size)
  /\ UNCHANGED <<entries, capacity, size>>

\* The pairs written into the JSON object; "{}" is decided on size alone.
DictGetall ==
  /\ capacity # 0
  /\ IF size = 0
     THEN Reply("getall", {})
     ELSE /\ Complete(entries)
          /\ Reply("getall", {<<entries[s].key, entries[s].value>> : s \in Filled(entries)})
  /\ UNCHANGED <<entries, capacity, size>>

GetallRefused ==
  /\ \/ capacity = 0
     \/ "json" \in FailingAllocs /\ (size = 0 \/ Complete(entries))
  /\ Reply("getall", NULL)
  /\ UNCHANGED <<entries, capacity, size>>

DictFree ==
  /\ entries' = NewTable(0)
  /\ capacity' = 0
  /\ size' = 0
  /\ Reply("free", IF capacity = 0 THEN -1 ELSE 0)

\* strcmp or strlen on NULL: the call never returns.
Crash ==
  /\ \/ \E k \in Keys : Faults(entries, capacity, k)
     \/ size # 0 /\ ~Complete(entries)
  /\ crashed' = TRUE
  /\ UNCHANGED <<entries, capacity, size, ret>>

Next ==
  /\ ~crashed
  /\ \/ \E request \in Requests : DictNew(request)
     \/ DictNewFails
     \/ \E k \in Keys, v \in Values : DictInsert(k, v)
     \/ InsertRefused
     \/ \E k \in Keys : DictRemove(k)
     \/ \E k \in Keys : RemoveRefused(k)
     \/ \E k \in Keys, fallback \in Values \cup {NULL} : DictGet(k, fallback)
     \/ \E k \in Keys : DictContains(k)
     \/ DictSize
     \/ DictGetall
     \/ GetallRefused
     \/ DictFree
     \/ Crash

Spec == Init /\ [][Next]_vars

------------------------------------------------------------------------------
(* Properties.                                                              *)

\* Types of the fields of str_dictionary; there are never more entries than
\* slots.
TypeOK ==
  /\ capacity \in 0 .. (SizeModulus - 1)
  /\ entries \in [Slots(capacity) -> Entry]
  /\ size \in 0 .. capacity
  /\ crashed \in BOOLEAN

\* No key is in two slots: an insertion that reuses a tombstone has first
\* looked for the key beyond it.
KeysUnique ==
  \A s1, s2 \in Keyed(entries) : entries[s1].key = entries[s2].key => s1 = s2

\* Every entry is found by the probe for its key: no EMPTY slot lies between
\* the slot its hash names and the slot it is in, after any sequence of
\* insertions, removals and resizes.
ProbeReachable ==
  \A s \in Keyed(entries) : \E j \in Slots(capacity) :
    /\ s = SlotAt(capacity, entries[s].key, j)
    /\ \A i \in 0 .. (j - 1) : entries[SlotAt(capacity, entries[s].key, i)].state # EMPTY

\* dict->size is the number of entries with a key, also after failed
\* insertions and after a resize, which copies size unchanged.
SizeIsEntryCount == size = Cardinality(Keyed(entries))

\* "if dict is full (should not happen)": once the load factor has been
\* checked, and the table resized where that is due, a slot is free.
RoomForNewKey ==
  capacity # 0 => \A e \in PreparedTables : Filled(e) # DOMAIN e

\* "key & value can not be NULL": an entry has both its strings.  A failed
\* insertion is the only thing that could leave one without.
FilledEntriesComplete == Complete(entries)

\* No call dereferences NULL: each returns, with its error value if need be.
CallsReturn == ~crashed

\* A dictionary never loses slots while it lives, so the wrapped product of a
\* size_t overflow is never used as a capacity.
CapacityNeverShrinks ==
  [][capacity' >= capacity \/ (ret' = <<"free", 0>> /\ capacity' = 0)]_vars

\* The map a table stands for.
Contents(e) ==
  [k \in Keys |->
     IF \E s \in Keyed(e) : e[s].key = k
     THEN e[CHOOSE s \in Keyed(e) : e[s].key = k].value
     ELSE NULL]

KV == INSTANCE KVStore WITH store <- Contents(entries), live <- capacity # 0

\* The dictionary is a map: what a caller observes through any sequence of
\* calls is what KVStore allows.
ImplementsMap == KV!Spec
==============================================================================
