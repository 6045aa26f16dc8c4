------------------------- MODULE StrDictionaryProofs -------------------------
(***************************************************************************)
(* Safety of StrDictionary for every set of keys, every hash function and  *)
(* every size_t width, whatever mallocs fail; and that it implements       *)
(* KVStore as long as none of those for dict_insert's strings fails.       *)
(***************************************************************************)
EXTENDS StrDictionary, Foundations, FiniteSetTheorems, TLAPS

USE DictAssumption

------------------------------------------------------------------------------
(* Arithmetic and finite sets.                                              *)

\* The slots a probe visits are slots of the table.
LEMMA SlotAtType ==
  ASSUME NEW c \in Nat \ {0}, NEW k \in Keys, NEW j \in Nat
  PROVE  SlotAt(c, k, j) \in Slots(c)
<1>1. Hash[k] \in Nat
  OBVIOUS
<1>2. (Hash[k] + j) % c \in 0 .. (c - 1)
  BY <1>1
<1> QED
  BY <1>2 DEF SlotAt, Slots

\* A capacity that passes resize's check is the doubled one, not a wrapped one.
LEMMA ResizeDoubles ==
  ASSUME NEW c \in 1 .. (SizeModulus - 1), ResizeFits(c)
  PROVE  NewCapacity(c) = 2 * c /\ NewCapacity(c) \in 1 .. (SizeModulus - 1)
<1>1. CASE 2 * c < SizeModulus
  <2>1. (2 * c) % SizeModulus = 2 * c
    BY <1>1
  <2> QED
    BY <1>1, <2>1 DEF NewCapacity, StartCapacity, Doubled
<1>2. CASE 2 * c >= SizeModulus
  <2>1. (2 * c) % SizeModulus = 2 * c - SizeModulus
    BY <1>2
  <2> QED
    BY <2>1 DEF ResizeFits, Doubled
<1> QED
  BY <1>1, <1>2

------------------------------------------------------------------------------
(* Tables.                                                                  *)

\* What the invariants say of a table e of capacity c holding n entries.
TableInv(e, c, n) ==
  /\ c \in 0 .. (SizeModulus - 1)
  /\ e \in [Slots(c) -> Entry]
  /\ \A s1, s2 \in Keyed(e) : e[s1].key = e[s2].key => s1 = s2
  /\ \A s \in Keyed(e) : \E j \in Slots(c) :
       /\ s = SlotAt(c, e[s].key, j)
       /\ \A i \in 0 .. (j - 1) : e[SlotAt(c, e[s].key, i)].state # EMPTY
  /\ n = Cardinality(Keyed(e))

\* The sets of slots of a table are finite and no larger than it.
LEMMA SlotSets ==
  ASSUME NEW c \in Nat, NEW e \in [Slots(c) -> Entry]
  PROVE  /\ Keyed(e) \subseteq Filled(e) /\ Filled(e) \subseteq Occupied(e)
         /\ Occupied(e) \subseteq Slots(c)
         /\ IsFiniteSet(Slots(c)) /\ Cardinality(Slots(c)) = c
         /\ IsFiniteSet(Keyed(e)) /\ IsFiniteSet(Filled(e)) /\ IsFiniteSet(Occupied(e))
         /\ Cardinality(Keyed(e)) \in 0 .. c
         /\ Cardinality(Filled(e)) \in 0 .. c
         /\ Cardinality(Occupied(e)) \in 0 .. c
<1>1. /\ Keyed(e) \subseteq Filled(e) /\ Filled(e) \subseteq Occupied(e)
      /\ Occupied(e) \subseteq Slots(c)
  BY DEF Keyed, Filled, Occupied, FILLED, EMPTY
<1>2. IsFiniteSet(Slots(c)) /\ Cardinality(Slots(c)) = c
  BY FS_Interval DEF Slots
<1>3. ASSUME NEW T \in SUBSET Slots(c)
      PROVE  IsFiniteSet(T) /\ Cardinality(T) \in 0 .. c
  BY <1>2, FS_Subset, FS_CardinalityType
<1> QED
  BY <1>1, <1>2, <1>3

\* There are never more entries than slots.
LEMMA EntriesFit ==
  ASSUME NEW e, NEW c, NEW n, TableInv(e, c, n)
  PROVE  n \in 0 .. c
BY SlotSets DEF TableInv

LEMMA NewTableInv ==
  ASSUME NEW c \in 0 .. (SizeModulus - 1)
  PROVE  TableInv(NewTable(c), c, 0)
<1>1. NewTable(c) \in [Slots(c) -> Entry]
  BY DEF NewTable, EmptyEntry, Entry
<1>2. Keyed(NewTable(c)) = {}
  BY DEF NewTable, EmptyEntry, Keyed, Filled, FILLED, EMPTY
<1>3. Cardinality({}) = 0
  BY FS_EmptySet
<1> QED
  BY <1>1, <1>2, <1>3 DEF TableInv

\* The slot find_get_index returns holds the key.
LEMMA FoundSlotHoldsKey ==
  ASSUME NEW c \in Nat \ {0}, NEW e \in [Slots(c) -> Entry], NEW k \in Keys, Found(e, c, k)
  PROVE  /\ FoundSlot(e, c, k) \in Slots(c)
         /\ FoundSlot(e, c, k) \in Keyed(e)
         /\ e[FoundSlot(e, c, k)].key = k
<1> DEFINE j == CHOOSE i \in Slots(c) : Hits(e, c, k, i)
<1>1. j \in Slots(c) /\ Hits(e, c, k, j)
  BY DEF Found
<1>2. FoundSlot(e, c, k) = SlotAt(c, k, j)
  BY DEF FoundSlot
<1>3. j \in Nat
  BY <1>1 DEF Slots
<1> HIDE DEF j
<1>4. SlotAt(c, k, j) \in Slots(c)
  BY <1>3, SlotAtType
<1> QED
  BY <1>1, <1>2, <1>4 DEF Hits, HasKey, Keyed, Filled

\* A key that is in the table is found, unless an entry without a key comes
\* first on its path.
LEMMA KeyIsFound ==
  ASSUME NEW e, NEW c, NEW n, TableInv(e, c, n),
         NEW s \in Keyed(e), NEW k \in Keys, e[s].key = k
  PROVE  Found(e, c, k) \/ Faults(e, c, k)
<1>1. PICK j \in Slots(c) :
        /\ s = SlotAt(c, k, j)
        /\ \A i \in 0 .. (j - 1) : e[SlotAt(c, k, i)].state # EMPTY
  BY DEF TableInv
<1> DEFINE T == {i \in 0 .. j : Stops(e, c, k, i)}
<1>2. j \in Nat
  BY <1>1 DEF Slots
<1>3. HasKey(e[SlotAt(c, k, j)], k)
  BY <1>1 DEF HasKey, Keyed, Filled
<1>4. T \in SUBSET Nat /\ T # {}
  <2>1. j \in T
    BY <1>2, <1>3 DEF Stops
  <2> QED
    BY <2>1
<1>5. PICK m \in T : \A i \in T : m <= i
  <2> HIDE DEF T
  <2> QED
    BY <1>4, LeastElement
<1>6. m \in Slots(c) /\ m \in Nat
  BY <1>1, <1>2 DEF Slots, TableInv
<1>7. Reaches(e, c, k, m)
  BY <1>2, <1>5, <1>6 DEF Reaches
<1>8. e[SlotAt(c, k, m)].state # EMPTY
  BY <1>1, <1>2, <1>3, <1>6 DEF HasKey, EMPTY, FILLED
<1>9. HasKey(e[SlotAt(c, k, m)], k) \/ HasKey(e[SlotAt(c, k, m)], NULL)
  BY <1>8 DEF Stops
<1> QED
  BY <1>6, <1>7, <1>9 DEF Found, Hits, Faults

\* Replacing the value of an entry, by NULL when the copy cannot be allocated.
LEMMA UpdateTableInv ==
  ASSUME NEW e, NEW c, NEW n, TableInv(e, c, n),
         NEW s \in Keyed(e), NEW v \in Values \cup {NULL}
  PROVE  TableInv([e EXCEPT ![s].value = v], c, n)
<1> DEFINE f == [e EXCEPT ![s].value = v]
<1>1. /\ s \in Slots(c)
      /\ f \in [Slots(c) -> Entry]
      /\ \A t \in Slots(c) : f[t].state = e[t].state /\ f[t].key = e[t].key
  BY DEF TableInv, Keyed, Filled, Entry
<1>2. Keyed(f) = Keyed(e)
  BY <1>1 DEF TableInv, Keyed, Filled
<1> HIDE DEF f
<1>3. \A t \in Keyed(e) : t \in Slots(c)
  BY DEF TableInv, Keyed, Filled
<1>4. ASSUME NEW t \in Keyed(f)
      PROVE  \E j \in Slots(c) :
               /\ t = SlotAt(c, f[t].key, j)
               /\ \A i \in 0 .. (j - 1) : f[SlotAt(c, f[t].key, i)].state # EMPTY
  <2>1. f[t].key = e[t].key /\ e[t].key \in Keys /\ c \in Nat \ {0}
    BY <1>1, <1>2, <1>3 DEF TableInv, Keyed, Filled, Entry, Slots
  <2>2. PICK j \in Slots(c) :
          /\ t = SlotAt(c, e[t].key, j)
          /\ \A i \in 0 .. (j - 1) : e[SlotAt(c, e[t].key, i)].state # EMPTY
    BY <1>2 DEF TableInv
  <2>3. \A i \in 0 .. (j - 1) : SlotAt(c, e[t].key, i) \in Slots(c)
    BY <2>1, SlotAtType
  <2> QED
    BY <1>1, <2>1, <2>2, <2>3
<1>5. \A s1, s2 \in Keyed(f) : f[s1].key = f[s2].key => s1 = s2
  BY <1>1, <1>2, <1>3 DEF TableInv
<1> QED
  BY <1>1, <1>2, <1>4, <1>5 DEF TableInv, f

\* Changing one slot to an entry that does not end the paths through it: what
\* is left to check is that its key, if it has one, is new and is reachable.
LEMMA ReplaceTableInv ==
  ASSUME NEW e, NEW c, NEW n, TableInv(e, c, n),
         NEW s \in Slots(c), NEW x \in Entry, x.state # EMPTY, NEW m,
         m = Cardinality(Keyed([e EXCEPT ![s] = x])),
         x.state = FILLED /\ x.key # NULL =>
           /\ \A t \in Keyed(e) : e[t].key # x.key
           /\ \E j \in Slots(c) :
                /\ s = SlotAt(c, x.key, j)
                /\ \A i \in 0 .. (j - 1) : e[SlotAt(c, x.key, i)].state # EMPTY
  PROVE  TableInv([e EXCEPT ![s] = x], c, m)
<1> DEFINE f == [e EXCEPT ![s] = x]
<1>1. /\ f \in [Slots(c) -> Entry]
      /\ f[s] = x
      /\ \A t \in Slots(c) : t # s => f[t] = e[t]
      /\ c \in Nat \ {0}
  BY DEF TableInv, Slots
<1>2. \A t \in Slots(c) : e[t].state # EMPTY => f[t].state # EMPTY
  BY <1>1
<1>3. \A t \in Keyed(f) : t # s => t \in Keyed(e) /\ t \in Slots(c) /\ f[t] = e[t]
  BY <1>1 DEF TableInv, Keyed, Filled
<1>4. s \in Keyed(f) => x.state = FILLED /\ x.key # NULL
  BY <1>1 DEF Keyed, Filled
<1>5. \A t \in Keyed(f) : f[t].key \in Keys
  BY <1>1 DEF Keyed, Filled, Entry
<1> HIDE DEF f
<1>6. ASSUME NEW s1 \in Keyed(f), NEW s2 \in Keyed(f), f[s1].key = f[s2].key
      PROVE  s1 = s2
  BY <1>1, <1>3, <1>4, <1>6 DEF TableInv
<1>7. ASSUME NEW t \in Keyed(f)
      PROVE  \E j \in Slots(c) :
               /\ t = SlotAt(c, f[t].key, j)
               /\ \A i \in 0 .. (j - 1) : f[SlotAt(c, f[t].key, i)].state # EMPTY
  <2>1. PICK j \in Slots(c) :
          /\ t = SlotAt(c, f[t].key, j)
          /\ \A i \in 0 .. (j - 1) : e[SlotAt(c, f[t].key, i)].state # EMPTY
    <3>1. CASE t = s
      BY <1>1, <1>4, <3>1
    <3>2. CASE t # s
      BY <1>3, <3>2 DEF TableInv
    <3> QED
      BY <3>1, <3>2
  <2>2. \A i \in 0 .. (j - 1) : SlotAt(c, f[t].key, i) \in Slots(c)
    BY <1>1, <1>5, SlotAtType
  <2> QED
    BY <1>2, <2>1, <2>2
<1> QED
  BY <1>1, <1>6, <1>7 DEF TableInv, f

\* dict_remove: a tombstone in place of an entry.
LEMMA RemoveTableInv ==
  ASSUME NEW e, NEW c, NEW n, TableInv(e, c, n), NEW s \in Keyed(e)
  PROVE  TableInv([e EXCEPT ![s] = DeletedEntry], c, n - 1)
<1> DEFINE f == [e EXCEPT ![s] = DeletedEntry]
<1>1. s \in Slots(c) /\ e \in [Slots(c) -> Entry] /\ c \in Nat
  BY DEF TableInv, Keyed, Filled
<1>2. /\ DeletedEntry \in Entry
      /\ DeletedEntry.state # EMPTY /\ DeletedEntry.state # FILLED
  BY DEF DeletedEntry, Entry, EMPTY, FILLED, DELETED
<1>3. Keyed(f) = Keyed(e) \ {s}
  BY <1>1, <1>2 DEF Keyed, Filled
<1>4. Cardinality(Keyed(f)) = n - 1
  BY <1>1, <1>3, SlotSets, FS_RemoveElement DEF TableInv
<1> QED
  BY <1>1, <1>2, <1>4, ReplaceTableInv

\* dict_insert of a new key, whether or not its strings could be allocated.
LEMMA InsertTableInv ==
  ASSUME NEW e, NEW c \in Nat \ {0}, NEW n, TableInv(e, c, n),
         NEW k \in Keys, NEW v \in Values,
         ~Found(e, c, k), ~Faults(e, c, k), NEW j \in Slots(c), FreeAt(e, c, k, j)
  PROVE  /\ TableInv([e EXCEPT ![SlotAt(c, k, j)] = FilledEntry(k, v)], c, n + 1)
         /\ TableInv([e EXCEPT ![SlotAt(c, k, j)] = FilledEntry(NULL, NULL)], c, n)
<1> DEFINE s == SlotAt(c, k, j)
           f == [e EXCEPT ![s] = FilledEntry(k, v)]
           g == [e EXCEPT ![s] = FilledEntry(NULL, NULL)]
<1>1. s \in Slots(c) /\ e \in [Slots(c) -> Entry]
  BY SlotAtType DEF TableInv, Slots
<1>2. s \notin Keyed(e) /\ \A i \in 0 .. (j - 1) : e[SlotAt(c, k, i)].state # EMPTY
  BY DEF FreeAt, Keyed, Filled, FILLED, EMPTY
<1>3. \A t \in Keyed(e) : e[t].key # k
  BY KeyIsFound
<1>4. /\ FilledEntry(k, v) \in Entry /\ FilledEntry(k, v).state = FILLED
      /\ FilledEntry(k, v).key = k /\ k # NULL
      /\ FilledEntry(NULL, NULL) \in Entry /\ FilledEntry(NULL, NULL).state = FILLED
      /\ FilledEntry(NULL, NULL).key = NULL /\ FILLED # EMPTY
  BY DEF FilledEntry, Entry, FILLED, EMPTY
<1> HIDE DEF s
<1>5. Keyed(f) = Keyed(e) \cup {s}
  BY <1>1, <1>4 DEF Keyed, Filled
<1>6. Keyed(g) = Keyed(e)
  BY <1>1, <1>2, <1>4 DEF Keyed, Filled
<1>7. Cardinality(Keyed(f)) = n + 1 /\ Cardinality(Keyed(g)) = n
  BY <1>1, <1>2, <1>5, <1>6, SlotSets, FS_AddElement DEF TableInv
<1>8. TableInv(f, c, n + 1)
  <2>1. s = SlotAt(c, k, j)
    BY DEF s
  <2> HIDE DEF f
  <2>2. n + 1 = Cardinality(Keyed([e EXCEPT ![s] = FilledEntry(k, v)]))
    BY <1>7 DEF f
  <2>3. TableInv([e EXCEPT ![s] = FilledEntry(k, v)], c, n + 1)
    BY <1>1, <1>2, <1>3, <1>4, <2>1, <2>2, ReplaceTableInv
  <2> QED
    BY <2>3 DEF f
<1>9. TableInv(g, c, n)
  <2>1. n = Cardinality(Keyed([e EXCEPT ![s] = FilledEntry(NULL, NULL)]))
    BY <1>7
  <2> QED
    BY <1>1, <1>4, <2>1, ReplaceTableInv
<1> QED
  BY <1>8, <1>9 DEF s

\* resize: the entries at their new places are a table with the same entries.
LEMMA RehashTableInv ==
  ASSUME NEW e, NEW c, NEW n, TableInv(e, c, n), Complete(e),
         NEW d \in 1 .. (SizeModulus - 1), NEW f \in Rehashed(e, d)
  PROVE  /\ TableInv(f, d, n)
         /\ Complete(f)
         /\ Cardinality(Filled(f)) = Cardinality(Filled(e))
<1>1. PICK pos \in [Filled(e) -> Slots(d)] : IsRehash(pos, e, d) /\ f = Relocate(pos, e, d)
  BY DEF Rehashed
<1>2. /\ e \in [Slots(c) -> Entry] /\ c \in Nat /\ d \in Nat \ {0}
      /\ Keyed(e) = Filled(e) /\ Filled(e) \subseteq Slots(c)
      /\ EmptyEntry \in Entry /\ EmptyEntry.state # FILLED
  BY DEF TableInv, Complete, Keyed, Filled, EmptyEntry, Entry, EMPTY, FILLED
<1>3. \A i1, i2 \in Filled(e) : pos[i1] = pos[i2] => i1 = i2
  BY <1>1 DEF IsRehash
<1>4. \A i \in Filled(e) : pos[i] \in Slots(d) /\ f[pos[i]] = e[i]
  BY <1>1, <1>3 DEF Relocate
<1>5. \A s \in Slots(d) : (\A i \in Filled(e) : pos[i] # s) => f[s] = EmptyEntry
  BY <1>1 DEF Relocate
<1>6. f \in [Slots(d) -> Entry]
  <2>1. \A s \in Slots(d) : f[s] \in Entry
    BY <1>2, <1>4, <1>5
  <2>2. f = [s \in Slots(d) |-> f[s]]
    BY <1>1 DEF Relocate
  <2> QED
    BY <2>1, <2>2
<1>7. \A s \in Filled(f) : \E i \in Filled(e) : s = pos[i]
  BY <1>2, <1>5, <1>6 DEF Filled
<1>8. \A i \in Filled(e) : pos[i] \in Filled(f)
  BY <1>4, <1>6 DEF Filled
<1>9. Complete(f)
  BY <1>4, <1>7 DEF Complete
<1>10. Keyed(f) = Filled(f)
  BY <1>9 DEF Complete, Keyed
<1>11. Cardinality(Filled(f)) = Cardinality(Filled(e))
  <2>1. pos \in Bijection(Filled(e), Filled(f))
    <3>1. pos \in [Filled(e) -> Filled(f)]
      BY <1>8
    <3> QED
      BY <1>3, <1>7, <3>1 DEF Bijection, Injection, Surjection, IsInjective
  <2>2. IsFiniteSet(Filled(e))
    BY <1>2, SlotSets
  <2> QED
    BY <2>1, <2>2, FS_Bijection DEF ExistsBijection
<1>12. \A s1, s2 \in Keyed(f) : f[s1].key = f[s2].key => s1 = s2
  BY <1>2, <1>4, <1>7, <1>10 DEF TableInv
<1>13. ASSUME NEW s \in Keyed(f)
       PROVE  \E j \in Slots(d) :
                /\ s = SlotAt(d, f[s].key, j)
                /\ \A m \in 0 .. (j - 1) : f[SlotAt(d, f[s].key, m)].state # EMPTY
  <2>1. PICK i \in Filled(e) : s = pos[i]
    BY <1>7, <1>10
  <2>2. f[s].key = e[i].key
    BY <1>4, <2>1
  <2>3. PICK j \in Slots(d) :
          /\ pos[i] = SlotAt(d, e[i].key, j)
          /\ \A m \in 0 .. (j - 1) :
               \E i0 \in Filled(e) : i0 < i /\ pos[i0] = SlotAt(d, e[i].key, m)
    BY <1>1 DEF IsRehash
  <2>4. \A m \in 0 .. (j - 1) : f[SlotAt(d, e[i].key, m)].state = FILLED
    BY <1>4, <2>3 DEF Filled
  <2> QED
    BY <2>1, <2>2, <2>3, <2>4 DEF FILLED, EMPTY
<1>14. n = Cardinality(Keyed(f))
  BY <1>2, <1>10, <1>11 DEF TableInv
<1> QED
  BY <1>2, <1>6, <1>9, <1>11, <1>12, <1>13, <1>14 DEF TableInv

------------------------------------------------------------------------------
(* The inductive invariant.                                                 *)

\* An insertion is only safe in a table whose entries are where their probes
\* find them, and removal only keeps the count if no key is there twice: the
\* safety properties are inductive together, none of them alone.
IInv == TableInv(entries, capacity, size) /\ crashed \in BOOLEAN

LEMMA IInvImpliesSafety ==
  IInv => TypeOK /\ KeysUnique /\ ProbeReachable /\ SizeIsEntryCount
BY EntriesFit DEF IInv, TableInv, TypeOK, KeysUnique, ProbeReachable, SizeIsEntryCount

LEMMA InitIInv == Init => IInv
<1>1. TableInv(NewTable(0), 0, 0)
  BY NewTableInv
<1> QED
  BY <1>1 DEF Init, IInv

\* What dict_insert probes after its load-factor check is a table too.
LEMMA PreparedTableInv ==
  ASSUME IInv, capacity # 0, NEW e \in PreparedTables
  PROVE  /\ TableInv(e, PreparedCapacity, size)
         /\ PreparedCapacity \in Nat \ {0}
         /\ PreparedCapacity >= capacity
         /\ NeedsResize(entries, capacity) =>
              /\ PreparedCapacity = 2 * capacity
              /\ Cardinality(Filled(e)) = Cardinality(Filled(entries))
<1>1. capacity \in 1 .. (SizeModulus - 1)
  BY DEF IInv, TableInv
<1>2. CASE ~NeedsResize(entries, capacity)
  BY <1>1, <1>2 DEF IInv, PreparedTables, PreparedCapacity
<1>3. CASE NeedsResize(entries, capacity)
  <2>1. ResizeFits(capacity) /\ Complete(entries) /\ e \in Rehashed(entries, NewCapacity(capacity))
    BY <1>3 DEF PreparedTables
  <2>2. NewCapacity(capacity) = 2 * capacity /\ NewCapacity(capacity) \in 1 .. (SizeModulus - 1)
    BY <1>1, <2>1, ResizeDoubles
  <2>3. /\ TableInv(e, NewCapacity(capacity), size)
        /\ Cardinality(Filled(e)) = Cardinality(Filled(entries))
    BY <2>1, <2>2, RehashTableInv DEF IInv
  <2> QED
    BY <1>1, <1>3, <2>2, <2>3 DEF PreparedCapacity
<1> QED
  BY <1>2, <1>3

LEMMA InsertIInv ==
  ASSUME IInv, NEW k \in Keys, NEW v \in Values, DictInsert(k, v)
  PROVE  IInv'
<1>1. capacity # 0
  BY DEF DictInsert
<1>2. PICK e \in PreparedTables :
        \/ InsertUpdate(e, PreparedCapacity, k, v)
        \/ InsertNew(e, PreparedCapacity, k, v)
  BY DEF DictInsert
<1> DEFINE c == PreparedCapacity
<1>3. TableInv(e, c, size) /\ c \in Nat \ {0} /\ e \in [Slots(c) -> Entry]
  BY <1>1, PreparedTableInv DEF TableInv
<1>4. CASE InsertUpdate(e, c, k, v)
  <2>1. FoundSlot(e, c, k) \in Keyed(e)
    BY <1>3, <1>4, FoundSlotHoldsKey DEF InsertUpdate
  <2>2. PICK w \in Values \cup {NULL} : entries' = [e EXCEPT ![FoundSlot(e, c, k)].value = w]
    BY <1>4 DEF InsertUpdate
  <2>3. TableInv(entries', c, size)
    BY <1>3, <2>1, <2>2, UpdateTableInv
  <2> QED
    BY <1>4, <2>3 DEF InsertUpdate, Reply, IInv
<1>5. CASE InsertNew(e, c, k, v)
  <2>1. PICK j \in Slots(c) :
          /\ FreeAt(e, c, k, j)
          /\ \/ /\ entries' = [e EXCEPT ![SlotAt(c, k, j)] = FilledEntry(k, v)]
                /\ size' = size + 1
             \/ /\ entries' = [e EXCEPT ![SlotAt(c, k, j)] = FilledEntry(NULL, NULL)]
                /\ size' = size
    BY <1>5 DEF InsertNew
  <2>2. ~Found(e, c, k) /\ ~Faults(e, c, k)
    BY <1>5 DEF InsertNew
  <2> HIDE DEF c
  <2>3. /\ TableInv([e EXCEPT ![SlotAt(c, k, j)] = FilledEntry(k, v)], c, size + 1)
        /\ TableInv([e EXCEPT ![SlotAt(c, k, j)] = FilledEntry(NULL, NULL)], c, size)
    BY <1>3, <2>1, <2>2, InsertTableInv
  <2>4. TableInv(entries', c, size')
    BY <2>1, <2>3
  <2>5. capacity' = c /\ crashed' = crashed
    BY <1>5 DEF InsertNew, Reply
  <2> QED
    BY <2>4, <2>5 DEF IInv
<1> QED
  BY <1>2, <1>4, <1>5

LEMMA RemoveIInv ==
  ASSUME IInv, NEW k \in Keys, DictRemove(k)
  PROVE  IInv'
<1> DEFINE s == FoundSlot(entries, capacity, k)
<1>1. /\ Found(entries, capacity, k)
      /\ entries' = [entries EXCEPT ![s] = DeletedEntry]
      /\ size' = size - 1 /\ UNCHANGED <<capacity, crashed>>
  BY DEF DictRemove, RemoveLeaving, Reply
<1>2. capacity \in Nat \ {0} /\ entries \in [Slots(capacity) -> Entry]
  BY <1>1 DEF IInv, TableInv, Found, Slots
<1>3. s \in Keyed(entries)
  BY <1>1, <1>2, FoundSlotHoldsKey
<1> QED
  BY <1>1, <1>3, RemoveTableInv DEF IInv

LEMMA NextIInv == IInv /\ [Next]_vars => IInv'
<1> SUFFICES ASSUME IInv, [Next]_vars
             PROVE  IInv'
  OBVIOUS
<1>1. ASSUME NEW request \in Requests, DictNew(request)
      PROVE  IInv'
  <2>1. capacity' \in 0 .. (SizeModulus - 1)
    BY <1>1 DEF DictNew, StartCapacity
  <2> QED
    BY <1>1, <2>1, NewTableInv DEF DictNew, Reply, IInv
<1>2. CASE DictFree
  BY <1>2, NewTableInv DEF DictFree, Reply, IInv
<1>3. CASE UNCHANGED <<entries, capacity, size>> /\ crashed' \in BOOLEAN
  BY <1>3 DEF IInv
<1>4. CASE DictNewFails \/ InsertRefused \/ DictSize \/ DictGetall \/ GetallRefused
  BY <1>3, <1>4 DEF DictNewFails, InsertRefused, DictSize, DictGetall, GetallRefused, Reply, IInv
<1>5. ASSUME NEW k \in Keys,
             \/ RemoveRefused(k)
             \/ \E fallback \in Values \cup {NULL} : DictGet(k, fallback)
             \/ DictContains(k)
      PROVE  IInv'
  BY <1>3, <1>5 DEF RemoveRefused, DictGet, DictContains, Reply, IInv
<1>6. CASE Crash
  BY <1>3, <1>6 DEF Crash
<1>7. CASE UNCHANGED vars
  BY <1>3, <1>7 DEF vars, IInv
<1> QED
  BY <1>1, <1>2, <1>4, <1>5, <1>6, <1>7, InsertIInv, RemoveIInv DEF Next

\* Whatever calls are made and whatever mallocs fail: the fields keep their types,
\* and there are never more entries than slots.
THEOREM TypeTheorem == Spec => []TypeOK
<1>1. Spec => []IInv
  BY InitIInv, NextIInv, PTL DEF Spec
<1> QED
  BY <1>1, IInvImpliesSafety, PTL

\* No key is twice in the table, although insertions reuse tombstones.
THEOREM UniqueTheorem == Spec => []KeysUnique
<1>1. Spec => []IInv
  BY InitIInv, NextIInv, PTL DEF Spec
<1> QED
  BY <1>1, IInvImpliesSafety, PTL

\* Every entry is where the probe for its key finds it, whatever has been removed
\* and however often the table has grown.
THEOREM ReachableTheorem == Spec => []ProbeReachable
<1>1. Spec => []IInv
  BY InitIInv, NextIInv, PTL DEF Spec
<1> QED
  BY <1>1, IInvImpliesSafety, PTL

\* dict_size is the number of entries with a key, failed insertions included.
THEOREM CountTheorem == Spec => []SizeIsEntryCount
<1>1. Spec => []IInv
  BY InitIInv, NextIInv, PTL DEF Spec
<1> QED
  BY <1>1, IInvImpliesSafety, PTL

------------------------------------------------------------------------------
(* Consequences.                                                            *)

\* After its load-factor check dict_insert always has a slot for a new key: the
\* branch "if dict is full (should not happen)" is dead.
THEOREM RoomTheorem == Spec => []RoomForNewKey
<1>1. IInv => RoomForNewKey
  <2> SUFFICES ASSUME IInv, capacity # 0, NEW e \in PreparedTables
               PROVE  Filled(e) # DOMAIN e
    BY DEF RoomForNewKey
  <2> DEFINE c == PreparedCapacity
  <2>1. /\ TableInv(e, c, size) /\ c \in Nat \ {0}
        /\ e \in [Slots(c) -> Entry] /\ DOMAIN e = Slots(c)
    BY PreparedTableInv DEF TableInv
  <2>2. Cardinality(Slots(c)) = c
    BY <2>1, SlotSets
  <2>3. capacity \in Nat \ {0} /\ entries \in [Slots(capacity) -> Entry]
    BY DEF IInv, TableInv
  <2>4. CASE NeedsResize(entries, capacity)
    <3>1. c = 2 * capacity /\ Cardinality(Filled(e)) = Cardinality(Filled(entries))
      BY <2>4, PreparedTableInv
    <3>2. Cardinality(Filled(entries)) \in 0 .. capacity
      BY <2>3, SlotSets
    <3>3. Cardinality(Filled(e)) # Cardinality(Slots(c))
      BY <2>2, <2>3, <3>1, <3>2
    <3> QED
      BY <2>1, <3>3
  <2>5. CASE ~NeedsResize(entries, capacity)
    <3>1. e = entries
      BY <2>5 DEF PreparedTables
    <3>2. Cardinality(Occupied(entries)) \in Nat /\ 4 * Cardinality(Occupied(entries)) < 3 * capacity
      BY <2>3, <2>5, SlotSets DEF NeedsResize
    <3>3. Occupied(entries) # Slots(capacity)
      BY <2>3, <3>2, SlotSets
    <3> QED
      BY <2>3, <3>1, <3>3, SlotSets
  <2> QED
    BY <2>4, <2>5
<1>2. Spec => []IInv
  BY InitIInv, NextIInv, PTL DEF Spec
<1> QED
  BY <1>1, <1>2, PTL

\* No insertion leaves a dictionary with fewer slots than it had, whatever the
\* width of size_t: only dict_free ends it.
THEOREM CapacityTheorem == Spec => CapacityNeverShrinks
<1> DEFINE Keeps == capacity' >= capacity \/ (ret' = <<"free", 0>> /\ capacity' = 0)
<1>1. IInv /\ [Next]_vars => [Keeps]_vars
  <2> SUFFICES ASSUME IInv, Next
               PROVE  Keeps
    OBVIOUS
  <2>1. capacity \in Nat
    BY DEF IInv, TableInv
  <2>2. CASE UNCHANGED capacity
    BY <2>1, <2>2
  <2>3. ASSUME NEW k \in Keys, NEW v \in Values, DictInsert(k, v)
        PROVE  Keeps
    BY <2>3, PreparedTableInv DEF DictInsert, InsertUpdate, InsertNew
  <2>4. ASSUME NEW request \in Requests, DictNew(request)
        PROVE  Keeps
    BY <2>4 DEF DictNew, StartCapacity
  <2>5. CASE DictFree
    BY <2>1, <2>5 DEF DictFree, Reply
  <2> QED
    BY <2>2, <2>3, <2>4, <2>5
      DEF Next, DictNewFails, InsertRefused, DictRemove, RemoveLeaving, RemoveRefused,
          DictGet, DictContains, DictSize, DictGetall, GetallRefused, Crash
<1>2. Spec => []IInv
  BY InitIInv, NextIInv, PTL DEF Spec
<1> QED
  BY <1>1, <1>2, PTL DEF Spec, CapacityNeverShrinks

\* Only a failed malloc in dict_insert can leave an entry without its key or its
\* value.
THEOREM CompleteTheorem ==
  ASSUME "entry" \notin FailingAllocs
  PROVE  Spec => []FilledEntriesComplete
<1>1. Init => FilledEntriesComplete
  BY DEF Init, NewTable, Slots, FilledEntriesComplete, Complete, Filled
<1>2. IInv /\ FilledEntriesComplete /\ [Next]_vars => FilledEntriesComplete'
  <2> SUFFICES ASSUME IInv, FilledEntriesComplete, [Next]_vars
               PROVE  Complete(entries')
    BY DEF FilledEntriesComplete, Complete, Filled
  <2>1. CASE UNCHANGED entries
    BY <2>1 DEF FilledEntriesComplete
  <2>2. ASSUME NEW d \in Nat, entries' = NewTable(d)
        PROVE  Complete(entries')
    BY <2>2 DEF NewTable, EmptyEntry, Complete, Filled, EMPTY, FILLED
  <2>3. ASSUME NEW request \in Requests, DictNew(request)
        PROVE  Complete(entries')
    BY <2>2, <2>3 DEF DictNew, StartCapacity
  <2>4. CASE DictFree
    BY <2>2, <2>4 DEF DictFree
  <2>5. ASSUME NEW k \in Keys, DictRemove(k)
        PROVE  Complete(entries')
    BY <2>5 DEF DictRemove, RemoveLeaving, FilledEntriesComplete, Complete, Filled,
                DeletedEntry, DELETED, FILLED, IInv, TableInv
  <2>6. ASSUME NEW k \in Keys, NEW v \in Values, DictInsert(k, v)
        PROVE  Complete(entries')
    <3>1. PICK e \in PreparedTables :
            \/ InsertUpdate(e, PreparedCapacity, k, v)
            \/ InsertNew(e, PreparedCapacity, k, v)
      BY <2>6 DEF DictInsert
    <3> DEFINE c == PreparedCapacity
    <3>2. Complete(e)
      <4>1. CASE NeedsResize(entries, capacity)
        <5>1. capacity \in 1 .. (SizeModulus - 1)
          BY <2>6 DEF DictInsert, IInv, TableInv
        <5>2. ResizeFits(capacity) /\ Complete(entries) /\ e \in Rehashed(entries, NewCapacity(capacity))
          BY <4>1 DEF PreparedTables
        <5> QED
          BY <5>1, <5>2, ResizeDoubles, RehashTableInv DEF IInv
      <4>2. CASE ~NeedsResize(entries, capacity)
        BY <4>2 DEF PreparedTables, FilledEntriesComplete
      <4> QED
        BY <4>1, <4>2
    <3>3. PICK s : \/ entries' = [e EXCEPT ![s].value = v]
                  \/ entries' = [e EXCEPT ![s] = FilledEntry(k, v)]
      BY <3>1 DEF InsertUpdate, InsertNew
    <3>4. e \in [Slots(c) -> Entry]
      BY <2>6, PreparedTableInv DEF DictInsert, TableInv
    <3>5. CASE entries' = [e EXCEPT ![s].value = v]
      <4>1. \A t \in DOMAIN e : /\ entries'[t].state = e[t].state
                                /\ entries'[t].key = e[t].key
                                /\ entries'[t].value \in {e[t].value, v}
        BY <3>4, <3>5 DEF Entry
      <4> QED
        BY <3>2, <3>5, <4>1 DEF Complete, Filled
    <3>6. CASE entries' = [e EXCEPT ![s] = FilledEntry(k, v)]
      BY <3>2, <3>6 DEF Complete, Filled, FilledEntry
    <3> QED
      BY <3>3, <3>5, <3>6
  <2> QED
    BY <2>1, <2>3, <2>4, <2>5, <2>6
      DEF Next, vars, DictNewFails, InsertRefused, RemoveRefused, DictGet, DictContains,
          DictSize, DictGetall, GetallRefused, Crash
<1>3. Spec => []IInv
  BY InitIInv, NextIInv, PTL DEF Spec
<1> QED
  BY <1>1, <1>2, <1>3, PTL DEF Spec

------------------------------------------------------------------------------
(* The dictionary implements the map.                                       *)

\* A probe never meets an entry without a key when there is none.
LEMMA NoFault ==
  ASSUME NEW c \in Nat, NEW e \in [Slots(c) -> Entry], Complete(e), NEW k \in Keys
  PROVE  ~Faults(e, c, k)
<1> SUFFICES ASSUME NEW j \in Slots(c), HasKey(e[SlotAt(c, k, j)], NULL)
             PROVE  FALSE
  BY DEF Faults
<1>1. SlotAt(c, k, j) \in Slots(c)
  BY SlotAtType DEF Slots
<1> QED
  BY <1>1 DEF Complete, Filled, HasKey

\* The map a table stands for, slot by slot.
LEMMA ContentsOf ==
  ASSUME NEW e, NEW c, NEW n, TableInv(e, c, n), Complete(e)
  PROVE  /\ \A s \in Keyed(e) : /\ e[s].key \in Keys /\ e[s].value \in Values
                                /\ Contents(e)[e[s].key] = e[s].value
         /\ \A k \in Keys : Contents(e)[k] # NULL => \E s \in Keyed(e) : e[s].key = k
         /\ \A k \in Keys : Contents(e)[k] \in Values \cup {NULL}
<1>1. ASSUME NEW s \in Keyed(e)
      PROVE  e[s].key \in Keys /\ e[s].value \in Values
  BY DEF TableInv, Complete, Keyed, Filled, Entry
<1>2. ASSUME NEW s \in Keyed(e)
      PROVE  Contents(e)[e[s].key] = e[s].value
  <2> DEFINE t == CHOOSE t \in Keyed(e) : e[t].key = e[s].key
  <2>1. t \in Keyed(e) /\ e[t].key = e[s].key
    OBVIOUS
  <2>2. t = s
    BY <2>1 DEF TableInv
  <2> QED
    BY <1>1, <2>2 DEF Contents
<1>3. ASSUME NEW k \in Keys, Contents(e)[k] # NULL
      PROVE  \E s \in Keyed(e) : e[s].key = k
  BY <1>3 DEF Contents
<1> QED
  BY <1>1, <1>2, <1>3

\* A table is determined, as a map, by its entries.
LEMMA ContentsAre ==
  ASSUME NEW e, NEW c, NEW n, TableInv(e, c, n), Complete(e),
         NEW m \in [Keys -> Values \cup {NULL}],
         \A s \in Keyed(e) : m[e[s].key] = e[s].value,
         \A k \in Keys : m[k] # NULL => \E s \in Keyed(e) : e[s].key = k
  PROVE  Contents(e) = m
<1>1. ASSUME NEW k \in Keys
      PROVE  Contents(e)[k] = m[k]
  <2>1. CASE \E s \in Keyed(e) : e[s].key = k
    BY <2>1, ContentsOf
  <2>2. CASE ~\E s \in Keyed(e) : e[s].key = k
    BY <2>2 DEF Contents
  <2> QED
    BY <2>1, <2>2
<1> QED
  BY <1>1 DEF Contents

\* Looking a key up finds it exactly when the map has it.
LEMMA LookUp ==
  ASSUME NEW e, NEW c, NEW n, TableInv(e, c, n), c # 0, Complete(e), NEW k \in Keys
  PROVE  /\ ~Faults(e, c, k)
         /\ Found(e, c, k) <=> Contents(e)[k] # NULL
         /\ Found(e, c, k) => Contents(e)[k] = e[FoundSlot(e, c, k)].value
<1>1. c \in Nat \ {0} /\ e \in [Slots(c) -> Entry]
  BY DEF TableInv
<1>2. ~Faults(e, c, k)
  BY <1>1, NoFault
<1>3. ASSUME Found(e, c, k)
      PROVE  Contents(e)[k] = e[FoundSlot(e, c, k)].value /\ Contents(e)[k] # NULL
  <2> DEFINE s == FoundSlot(e, c, k)
  <2>1. s \in Keyed(e) /\ e[s].key = k
    BY <1>1, <1>3, FoundSlotHoldsKey
  <2> HIDE DEF s
  <2>2. e[s].value \in Values /\ Contents(e)[e[s].key] = e[s].value
    BY <2>1, ContentsOf
  <2> QED
    BY <2>1, <2>2 DEF s
<1>4. ASSUME Contents(e)[k] # NULL
      PROVE  Found(e, c, k)
  BY <1>2, <1>4, ContentsOf, KeyIsFound
<1> QED
  BY <1>2, <1>3, <1>4

LEMMA EmptyContents ==
  ASSUME NEW e, Keyed(e) = {}
  PROVE  Contents(e) = KV!NoEntries
BY DEF Contents, KV!NoEntries

\* Growing the table leaves the map as it was.
LEMMA RehashContents ==
  ASSUME NEW e, NEW c, NEW n, TableInv(e, c, n), Complete(e),
         NEW d \in 1 .. (SizeModulus - 1), NEW f \in Rehashed(e, d)
  PROVE  Contents(f) = Contents(e)
<1>1. TableInv(f, d, n) /\ Complete(f)
  BY RehashTableInv
<1>2. PICK pos \in [Filled(e) -> Slots(d)] : IsRehash(pos, e, d) /\ f = Relocate(pos, e, d)
  BY DEF Rehashed
<1>3. \A i \in Filled(e) : pos[i] \in Slots(d) /\ f[pos[i]] = e[i]
  BY <1>2 DEF IsRehash, Relocate
<1>4. Keyed(e) = Filled(e) /\ Keyed(f) = Filled(f)
  BY <1>1 DEF Complete, Keyed
<1>5. \A s \in Filled(f) : \E i \in Filled(e) : s = pos[i]
  BY <1>2 DEF Relocate, Filled, EmptyEntry, EMPTY, FILLED
<1>6. \A i \in Filled(e) : pos[i] \in Filled(f)
  BY <1>1, <1>3 DEF Filled, TableInv
<1>7. \A s \in Keyed(f) : Contents(e)[f[s].key] = f[s].value
  BY <1>3, <1>4, <1>5, ContentsOf
<1>8. \A k \in Keys : Contents(e)[k] # NULL => \E s \in Keyed(f) : f[s].key = k
  <2> SUFFICES ASSUME NEW k \in Keys, Contents(e)[k] # NULL
               PROVE  \E s \in Keyed(f) : f[s].key = k
    OBVIOUS
  <2>1. PICK i \in Keyed(e) : e[i].key = k
    BY ContentsOf
  <2> QED
    BY <1>3, <1>4, <1>6, <2>1
<1> DEFINE m == Contents(e)
<1>9. m \in [Keys -> Values \cup {NULL}]
  BY ContentsOf DEF Contents
<1>10. \A s \in Keyed(f) : m[f[s].key] = f[s].value
  BY <1>7
<1>11. \A k \in Keys : m[k] # NULL => \E s \in Keyed(f) : f[s].key = k
  BY <1>8
<1> HIDE DEF m
<1>12. Contents(f) = m
  BY <1>1, <1>9, <1>10, <1>11, ContentsAre
<1> QED
  BY <1>12 DEF m

------------------------------------------------------------------------------
(* The steps.                                                               *)

Inv == IInv /\ FilledEntriesComplete

\* What dict_insert probes is the same map as the table it was given.
LEMMA PreparedContents ==
  ASSUME Inv, capacity # 0, NEW e \in PreparedTables
  PROVE  Complete(e) /\ Contents(e) = Contents(entries)
<1>1. CASE NeedsResize(entries, capacity)
  <2>1. ResizeFits(capacity) /\ Complete(entries) /\ e \in Rehashed(entries, NewCapacity(capacity))
    BY <1>1 DEF PreparedTables
  <2>2. capacity \in 1 .. (SizeModulus - 1)
    BY DEF Inv, IInv, TableInv
  <2> QED
    BY <2>1, <2>2, ResizeDoubles, RehashTableInv, RehashContents DEF Inv, IInv
<1>2. CASE ~NeedsResize(entries, capacity)
  BY <1>2 DEF PreparedTables, Inv, FilledEntriesComplete
<1> QED
  BY <1>1, <1>2

LEMMA InsertStep ==
  ASSUME Inv, "entry" \notin FailingAllocs, NEW k \in Keys, NEW v \in Values, DictInsert(k, v),
         Inv'
  PROVE  KV!Insert(k, v)
<1> DEFINE c == PreparedCapacity
           m == [Contents(entries) EXCEPT ![k] = v]
<1>1. PICK e \in PreparedTables : InsertUpdate(e, c, k, v) \/ InsertNew(e, c, k, v)
  BY DEF DictInsert
<1>2. capacity # 0
  BY DEF DictInsert
<1>3. /\ TableInv(e, c, size) /\ c \in Nat \ {0} /\ e \in [Slots(c) -> Entry]
      /\ Complete(e) /\ Contents(e) = Contents(entries)
  BY <1>2, PreparedTableInv, PreparedContents DEF Inv, TableInv
<1> HIDE DEF c
<1>4. PICK s \in Slots(c) :
        /\ entries' \in {[e EXCEPT ![s].value = v], [e EXCEPT ![s] = FilledEntry(k, v)]}
        /\ s \in Filled(e) => e[s].key = k
        /\ entries' = [e EXCEPT ![s].value = v] => s \in Keyed(e) /\ e[s].key = k
        /\ capacity' = c /\ ret' = <<"insert", 0>>
  <2>1. CASE InsertUpdate(e, c, k, v)
    <3>1. /\ FoundSlot(e, c, k) \in Slots(c) /\ FoundSlot(e, c, k) \in Keyed(e)
          /\ e[FoundSlot(e, c, k)].key = k
      BY <1>3, <2>1, FoundSlotHoldsKey DEF InsertUpdate
    <3> QED
      BY <2>1, <3>1 DEF InsertUpdate, Reply
  <2>2. CASE InsertNew(e, c, k, v)
    <3>1. PICK j \in Slots(c) :
            /\ FreeAt(e, c, k, j)
            /\ entries' = [e EXCEPT ![SlotAt(c, k, j)] = FilledEntry(k, v)]
            /\ capacity' = c /\ ret' = <<"insert", 0>>
      BY <2>2 DEF InsertNew, Reply
    <3>2. SlotAt(c, k, j) \in Slots(c) /\ SlotAt(c, k, j) \notin Filled(e)
      <4>1. j \in Nat
        BY DEF Slots
      <4> QED
        BY <1>3, <3>1, <4>1, SlotAtType DEF FreeAt, Filled
    <3>3. entries' # [e EXCEPT ![SlotAt(c, k, j)].value = v]
      <4>1. entries'[SlotAt(c, k, j)].state = FILLED
        BY <1>3, <3>1, <3>2 DEF FilledEntry
      <4>2. [e EXCEPT ![SlotAt(c, k, j)].value = v][SlotAt(c, k, j)].state # FILLED
        BY <1>3, <3>2 DEF Filled, Entry
      <4> QED
        BY <4>1, <4>2
    <3> QED
      BY <3>1, <3>2, <3>3
  <2> QED
    BY <1>1, <2>1, <2>2
<1>5. /\ entries' \in [Slots(c) -> Entry]
      /\ entries'[s].state = FILLED /\ entries'[s].key = k /\ entries'[s].value = v
      /\ \A t \in Slots(c) : t # s => entries'[t] = e[t]
  <2>1. CASE entries' = [e EXCEPT ![s].value = v]
    BY <1>3, <1>4, <2>1 DEF Keyed, Filled, Entry
  <2>2. CASE entries' = [e EXCEPT ![s] = FilledEntry(k, v)]
    BY <1>3, <1>4, <2>2 DEF FilledEntry, Entry
  <2> QED
    BY <1>4, <2>1, <2>2
<1>6. \A t \in Slots(c) : t # s => (t \in Keyed(entries') <=> t \in Keyed(e))
  BY <1>3, <1>5 DEF Keyed, Filled
<1>7. s \in Keyed(entries') /\ Keyed(entries') \subseteq Slots(c) /\ Keyed(e) \subseteq Slots(c)
  <2>1. DOMAIN entries' = Slots(c) /\ DOMAIN e = Slots(c)
    BY <1>3, <1>5
  <2>2. k # NULL
    OBVIOUS
  <2> QED
    BY <1>5, <2>1, <2>2 DEF Keyed, Filled
<1>8. TableInv(entries', c, size') /\ Complete(entries')
  BY <1>4 DEF Inv, IInv, FilledEntriesComplete, Complete, Filled
<1>9. \A t \in Keyed(entries') : m[entries'[t].key] = entries'[t].value
  <2> SUFFICES ASSUME NEW t \in Keyed(entries')
               PROVE  m[entries'[t].key] = entries'[t].value
    OBVIOUS
  <2>1. CASE t = s
    BY <1>5, <2>1 DEF Contents
  <2>2. CASE t # s
    <3>1. t \in Keyed(e) /\ entries'[t] = e[t] /\ e[t].key \in Keys /\ Contents(e)[e[t].key] = e[t].value
      BY <1>3, <1>5, <1>6, <1>7, <2>2, ContentsOf
    <3>2. e[t].key # k
      BY <1>5, <1>7, <1>8, <2>2, <3>1 DEF TableInv
    <3> QED
      BY <1>3, <3>1, <3>2 DEF Contents
  <2> QED
    BY <2>1, <2>2
<1>10. \A l \in Keys : m[l] # NULL => \E t \in Keyed(entries') : entries'[t].key = l
  <2> SUFFICES ASSUME NEW l \in Keys, m[l] # NULL, l # k
               PROVE  \E t \in Keyed(entries') : entries'[t].key = l
    BY <1>5, <1>7
  <2>1. Contents(e)[l] # NULL
    BY <1>3 DEF Contents
  <2>2. PICK t \in Keyed(e) : e[t].key = l
    BY <1>3, <2>1, ContentsOf
  <2>3. t # s
    BY <1>4, <2>2 DEF Keyed
  <2> QED
    BY <1>5, <1>6, <1>7, <2>2, <2>3
<1>11. m \in [Keys -> Values \cup {NULL}]
  <2>1. Contents(entries) = [l \in Keys |-> Contents(entries)[l]]
    BY DEF Contents
  <2>2. \A l \in Keys : Contents(entries)[l] \in Values \cup {NULL}
    BY <1>3, ContentsOf
  <2>3. Contents(entries) \in [Keys -> Values \cup {NULL}]
    BY <2>1, <2>2
  <2> QED
    BY <2>3
<1>12. Contents(entries') = m
  <2> HIDE DEF m
  <2> QED
    BY <1>8, <1>9, <1>10, <1>11, ContentsAre
<1>13. capacity' # 0
  BY <1>3, <1>4
<1> QED
  BY <1>2, <1>4, <1>12, <1>13 DEF KV!Insert, Contents

LEMMA RemoveStep ==
  ASSUME Inv, NEW k \in Keys, DictRemove(k), Inv'
  PROVE  KV!Remove(k)
<1> DEFINE s == FoundSlot(entries, capacity, k)
           m == [Contents(entries) EXCEPT ![k] = NULL]
<1>1. /\ Found(entries, capacity, k)
      /\ entries' = [entries EXCEPT ![s] = DeletedEntry]
      /\ UNCHANGED capacity /\ ret' = <<"remove", 0>>
  BY DEF DictRemove, RemoveLeaving, Reply
<1>2. /\ capacity \in Nat \ {0} /\ entries \in [Slots(capacity) -> Entry]
      /\ TableInv(entries, capacity, size) /\ Complete(entries)
  BY <1>1 DEF Inv, IInv, TableInv, FilledEntriesComplete, Found, Slots
<1>3. s \in Keyed(entries) /\ entries[s].key = k
  BY <1>1, <1>2, FoundSlotHoldsKey
<1> HIDE DEF s
<1>4. Contents(entries)[k] # NULL
  <2>1. Contents(entries)[entries[s].key] = entries[s].value /\ entries[s].value \in Values
    BY <1>2, <1>3, ContentsOf
  <2> QED
    BY <1>3, <2>1
<1>5. Keyed(entries') = Keyed(entries) \ {s}
  BY <1>1, <1>2, <1>3 DEF Keyed, Filled, DeletedEntry, DELETED, FILLED
<1>6. \A t \in Keyed(entries) : t # s => entries'[t] = entries[t] /\ entries[t].key # k
  BY <1>1, <1>2, <1>3 DEF TableInv, Keyed, Filled
<1>7. TableInv(entries', capacity, size') /\ Complete(entries')
  BY <1>1 DEF Inv, IInv, FilledEntriesComplete, Complete, Filled
<1>8. \A t \in Keyed(entries') : m[entries'[t].key] = entries'[t].value
  <2> SUFFICES ASSUME NEW t \in Keyed(entries')
               PROVE  m[entries'[t].key] = entries'[t].value
    OBVIOUS
  <2>1. t \in Keyed(entries) /\ entries'[t] = entries[t] /\ entries[t].key # k
    BY <1>5, <1>6
  <2>2. entries[t].key \in Keys /\ Contents(entries)[entries[t].key] = entries[t].value
    BY <1>2, <2>1, ContentsOf
  <2> QED
    BY <2>1, <2>2 DEF Contents
<1>9. \A l \in Keys : m[l] # NULL => \E t \in Keyed(entries') : entries'[t].key = l
  <2> SUFFICES ASSUME NEW l \in Keys, m[l] # NULL
               PROVE  \E t \in Keyed(entries') : entries'[t].key = l
    OBVIOUS
  <2>1. l # k /\ Contents(entries)[l] # NULL
    BY DEF Contents
  <2>2. PICK t \in Keyed(entries) : entries[t].key = l
    BY <1>2, <2>1, ContentsOf
  <2> QED
    BY <1>3, <1>5, <1>6, <2>1, <2>2
<1>10. m \in [Keys -> Values \cup {NULL}]
  <2>1. Contents(entries) = [l \in Keys |-> Contents(entries)[l]]
    BY DEF Contents
  <2>2. \A l \in Keys : Contents(entries)[l] \in Values \cup {NULL}
    BY <1>2, ContentsOf
  <2>3. Contents(entries) \in [Keys -> Values \cup {NULL}]
    BY <2>1, <2>2
  <2> QED
    BY <2>3
<1>11. Contents(entries') = m
  <2> HIDE DEF m
  <2> QED
    BY <1>7, <1>8, <1>9, <1>10, ContentsAre
<1> QED
  BY <1>1, <1>4, <1>11 DEF KV!Remove

\* dict_size counts the keys of the map: an entry for each key, a key for each
\* entry.
LEMMA SizeIsPresent ==
  ASSUME Inv
  PROVE  size = Cardinality(KV!Present)
<1>1. TableInv(entries, capacity, size) /\ Complete(entries)
  BY DEF Inv, IInv, FilledEntriesComplete
<1> DEFINE f == [s \in Keyed(entries) |-> entries[s].key]
<1>2. f \in [Keyed(entries) -> KV!Present]
  <2> SUFFICES ASSUME NEW s \in Keyed(entries)
               PROVE  entries[s].key \in KV!Present
    OBVIOUS
  <2>1. /\ entries[s].key \in Keys /\ entries[s].value \in Values
        /\ Contents(entries)[entries[s].key] = entries[s].value
    BY <1>1, ContentsOf
  <2> QED
    BY <2>1 DEF KV!Present
<1>3. \A k \in KV!Present : \E s \in Keyed(entries) : f[s] = k
  BY <1>1, ContentsOf DEF KV!Present
<1>4. \A s1, s2 \in Keyed(entries) : f[s1] = f[s2] => s1 = s2
  BY <1>1 DEF TableInv
<1>5. f \in Bijection(Keyed(entries), KV!Present)
  <2> HIDE DEF f
  <2> QED
    BY <1>2, <1>3, <1>4 DEF Bijection, Injection, Surjection, IsInjective
<1>6. IsFiniteSet(Keyed(entries))
  BY <1>1, SlotSets DEF TableInv
<1>7. Cardinality(KV!Present) = Cardinality(Keyed(entries))
  BY <1>5, <1>6, FS_Bijection DEF ExistsBijection
<1> QED
  BY <1>1, <1>7 DEF TableInv

\* Without a dictionary, or with size 0, the map is empty.
LEMMA NoneIsEmpty ==
  ASSUME Inv, capacity = 0 \/ size = 0
  PROVE  Keyed(entries) = {} /\ Contents(entries) = KV!NoEntries
<1>1. Keyed(entries) = {}
  <2>1. TableInv(entries, capacity, size)
    BY DEF Inv, IInv
  <2>2. IsFiniteSet(Keyed(entries)) /\ Cardinality(Keyed(entries)) \in 0 .. capacity
    BY <2>1, SlotSets DEF TableInv
  <2> QED
    BY <2>1, <2>2, FS_EmptySet DEF TableInv
<1> QED
  BY <1>1, EmptyContents

LEMMA GetallStep ==
  ASSUME Inv, DictGetall
  PROVE  KV!GetAll
<1>1. TableInv(entries, capacity, size) /\ Complete(entries) /\ capacity # 0
  BY DEF Inv, IInv, FilledEntriesComplete, DictGetall
<1>2. Keyed(entries) = Filled(entries)
  BY <1>1 DEF Complete, Keyed
<1>3. {<<k, Contents(entries)[k]>> : k \in KV!Present}
        = {<<entries[s].key, entries[s].value>> : s \in Filled(entries)}
  <2>1. \A s \in Filled(entries) :
          /\ entries[s].key \in KV!Present
          /\ Contents(entries)[entries[s].key] = entries[s].value
    BY <1>1, <1>2, ContentsOf DEF KV!Present
  <2>2. \A k \in KV!Present : \E s \in Filled(entries) : entries[s].key = k
    BY <1>1, <1>2, ContentsOf DEF KV!Present
  <2> QED
    BY <2>1, <2>2
<1>4. ret' = <<"getall", {<<k, Contents(entries)[k]>> : k \in KV!Present}>>
  <2>1. CASE size = 0
    <3>1. Filled(entries) = {}
      BY <1>2, <2>1, NoneIsEmpty
    <3>2. ret' = <<"getall", {}>>
      BY <2>1 DEF DictGetall, Reply
    <3> QED
      BY <1>3, <3>1, <3>2
  <2>2. CASE size # 0
    BY <1>3, <2>2 DEF DictGetall, Reply
  <2> QED
    BY <2>1, <2>2
<1> QED
  BY <1>1, <1>4 DEF KV!GetAll, DictGetall, Contents

\* The calls that change nothing report what the map says.
LEMMA LookupStep ==
  ASSUME Inv, NEW k \in Keys
  PROVE  /\ RemoveRefused(k) => KV!RemoveError(k)
         /\ \A fallback \in Values \cup {NULL} : DictGet(k, fallback) => KV!Get(k, fallback)
         /\ DictContains(k) => KV!Contains(k)
<1>1. TableInv(entries, capacity, size) /\ Complete(entries)
  BY DEF Inv, IInv, FilledEntriesComplete
<1>2. /\ Found(entries, capacity, k) <=> Contents(entries)[k] # NULL
      /\ Found(entries, capacity, k) =>
           Contents(entries)[k] = entries[FoundSlot(entries, capacity, k)].value
  <2>1. CASE capacity = 0
    BY <2>1, NoneIsEmpty DEF KV!NoEntries, Found, Slots
  <2>2. CASE capacity # 0
    BY <1>1, <2>2, LookUp
  <2> QED
    BY <2>1, <2>2
<1>3. RemoveRefused(k) => KV!RemoveError(k)
  BY <1>2, NoneIsEmpty DEF RemoveRefused, Reply, KV!RemoveError, KV!NoEntries
<1>4. ASSUME NEW fallback \in Values \cup {NULL}, DictGet(k, fallback)
      PROVE  KV!Get(k, fallback)
  BY <1>2, <1>4 DEF DictGet, Reply, KV!Get
<1>5. DictContains(k) => KV!Contains(k)
  <2>1. Found(entries, capacity, k) = (Contents(entries)[k] # NULL)
    BY <1>2 DEF Found
  <2> QED
    BY <2>1, Zenon DEF DictContains, Reply, KV!Contains
<1> QED
  BY <1>3, <1>4, <1>5

LEMMA LifetimeStep ==
  ASSUME Inv, Inv'
  PROVE  /\ \A request \in Requests : DictNew(request) => KV!New
         /\ DictNewFails => KV!New
         /\ DictFree => KV!Free
<1>1. ASSUME NEW request \in Requests, DictNew(request)
      PROVE  KV!New
  <2>1. capacity' # 0
    BY <1>1 DEF DictNew, StartCapacity
  <2>2. Contents(entries') = KV!NoEntries
    <3>1. Keyed(entries') = {}
      BY <1>1 DEF DictNew, NewTable, EmptyEntry, Keyed, Filled, EMPTY, FILLED
    <3> QED
      BY <3>1, EmptyContents
  <2> QED
    BY <1>1, <2>1, <2>2 DEF DictNew, Reply, KV!New
<1>2. DictNewFails => KV!New
  BY NoneIsEmpty DEF DictNewFails, Reply, KV!New
<1>3. ASSUME DictFree
      PROVE  KV!Free
  <2>1. Keyed(entries') = {}
    BY <1>3 DEF DictFree, NewTable, Slots, Keyed, Filled
  <2>2. Contents(entries') = KV!NoEntries
    BY <2>1, EmptyContents
  <2> QED
    BY <1>3, <2>2 DEF DictFree, Reply, KV!Free
<1> QED
  BY <1>1, <1>2, <1>3

\* Without incomplete entries no call dereferences NULL.
LEMMA NoCrash == Inv => ~Crash
<1> SUFFICES ASSUME Inv, NEW k \in Keys
             PROVE  ~Faults(entries, capacity, k) /\ Complete(entries)
  BY DEF Crash, Inv, FilledEntriesComplete, Complete
<1>1. TableInv(entries, capacity, size) /\ Complete(entries)
  BY DEF Inv, IInv, FilledEntriesComplete
<1> QED
  BY <1>1, NoFault DEF TableInv

\* What callers observe of a dictionary through any sequence of calls is what a
\* map allows, and no call fails to return, when no malloc of dict_insert's
\* strings fails.
THEOREM Refinement ==
  ASSUME "entry" \notin FailingAllocs
  PROVE  Spec => ImplementsMap
<1>1. Init => KV!Init
  <2> SUFFICES ASSUME Init
               PROVE  KV!Init
    OBVIOUS
  <2>1. Keyed(entries) = {}
    BY DEF Init, NewTable, Slots, Keyed, Filled
  <2> QED
    BY <2>1, EmptyContents DEF Init, KV!Init
<1>2. Inv /\ Inv' /\ [Next]_vars => [KV!Next]_(KV!vars)
  <2> SUFFICES ASSUME Inv, Inv', [Next]_vars
               PROVE  [KV!Next]_(KV!vars)
    OBVIOUS
  <2>1. ASSUME NEW k \in Keys, NEW v \in Values, DictInsert(k, v)
        PROVE  KV!Next
    BY <2>1, InsertStep DEF KV!Next
  <2>2. ASSUME NEW k \in Keys,
               \/ DictRemove(k) \/ RemoveRefused(k) \/ DictContains(k)
               \/ \E fallback \in Values \cup {NULL} : DictGet(k, fallback)
        PROVE  KV!Next
    BY <2>2, RemoveStep, LookupStep DEF KV!Next
  <2>3. ASSUME \/ \E request \in Requests : DictNew(request)
               \/ DictNewFails
               \/ DictFree
        PROVE  KV!Next
    BY <2>3, LifetimeStep DEF KV!Next
  <2>4. CASE InsertRefused
    BY <2>4 DEF InsertRefused, Reply, KV!InsertError, KV!Next
  <2>5. CASE DictSize
    <3>1. KV!Cardinality(KV!Present) = Cardinality(KV!Present)
      BY DEF KV!Cardinality, Cardinality
    <3> QED
      BY <2>5, <3>1, SizeIsPresent DEF DictSize, Reply, KV!Size, KV!Next
  <2>6. CASE DictGetall
    BY <2>6, GetallStep DEF KV!Next
  <2>7. CASE GetallRefused
    BY <2>7 DEF GetallRefused, Reply, KV!GetAll, KV!Next
  <2>8. CASE UNCHANGED vars
    BY <2>8 DEF vars, KV!vars
  <2> QED
    BY <2>1, <2>2, <2>3, <2>4, <2>5, <2>6, <2>7, <2>8, NoCrash DEF Next
<1>3. Spec => []Inv
  <2>1. Spec => []IInv
    BY InitIInv, NextIInv, PTL DEF Spec
  <2>2. Spec => []FilledEntriesComplete
    BY CompleteTheorem
  <2> QED
    BY <2>1, <2>2, PTL DEF Inv
<1> QED
  BY <1>1, <1>2, <1>3, PTL DEF Spec, ImplementsMap, KV!Spec
==============================================================================
