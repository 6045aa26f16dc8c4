----------------------- MODULE StrDictionaryLoopsProofs -----------------------
(***************************************************************************)
(* The loops of the dictionary implement its calls, for every table, every *)
(* hash function and every failing malloc.                                 *)
(***************************************************************************)
EXTENDS StrDictionaryProofs, StrDictionaryLoops

USE DictAssumption

------------------------------------------------------------------------------
(* The invariant of the loops.                                              *)

\* What dict_insert knows after the first j slots of k's path: none ended the
\* probe, and first_deleted is the first tombstone among them.
Passed(e, c, k, j, first) ==
  /\ Reaches(e, c, k, j)
  /\ IF first = -1
     THEN \A m \in 0 .. (j - 1) : e[SlotAt(c, k, m)].state = FILLED
     ELSE \E m \in 0 .. (j - 1) :
            /\ first = SlotAt(c, k, m)
            /\ e[first].state = DELETED
            /\ FreeAt(e, c, k, m)

\* The probe of dict_insert is on the path of its key, in a table with room.
OnPath ==
  /\ ProbeKey \in Keys
  /\ loop.capacity \in Nat \ {0}
  /\ loop.table \in [Slots(loop.capacity) -> Entry]
  /\ Filled(loop.table) # Slots(loop.capacity)
  /\ \E j \in Slots(loop.capacity) :
       /\ loop.index = SlotAt(loop.capacity, ProbeKey, j)
       /\ Passed(loop.table, loop.capacity, ProbeKey, j, loop.first_deleted)

FilledBelow(e, i) == {s \in Filled(e) : s < i}

\* The old slots below i are in the new table t of capacity d, the entry of s at
\* pos[s], and nothing else is.
Places(pos, t, e, d, i) ==
  /\ pos \in [FilledBelow(e, i) -> Slots(d)]
  /\ \A s1, s2 \in FilledBelow(e, i) : pos[s1] = pos[s2] => s1 = s2
  /\ \A s \in FilledBelow(e, i) :
       /\ e[s].key # NULL /\ e[s].value # NULL
       /\ t[pos[s]] = e[s]
       /\ \E j \in Slots(d) :
            /\ pos[s] = SlotAt(d, e[s].key, j)
            /\ \A m \in 0 .. (j - 1) :
                 \E s0 \in FilledBelow(e, i) : s0 < s /\ pos[s0] = SlotAt(d, e[s].key, m)
  /\ t \in [Slots(d) -> Entry]
  /\ \A s \in Slots(d) :
       (\A s0 \in FilledBelow(e, i) : pos[s0] # s) => t[s] = EmptyEntry

\* The places in the loops, and what holds at each.
Finding ==
  /\ capacity # 0 /\ loop.key \in Keys
  /\ loop.table = entries /\ loop.capacity = capacity
  /\ loop.op = "remove" => size # 0
  /\ \E j \in Slots(capacity) :
       /\ loop.index = SlotAt(capacity, loop.key, j)
       /\ Reaches(entries, capacity, loop.key, j)

Inserting == capacity # 0 /\ loop.key \in Keys /\ loop.value \in Values

Rehashing ==
  /\ Inserting
  /\ NeedsResize(entries, capacity) /\ ResizeFits(capacity)
  /\ loop.capacity = NewCapacity(capacity)
  /\ loop.i \in 0 .. capacity
  /\ \E pos \in [FilledBelow(entries, loop.i) -> Slots(loop.capacity)] :
       Places(pos, loop.table, entries, loop.capacity, loop.i)

Placing == loop.i \in Keyed(entries) /\ entries[loop.i].value # NULL /\ OnPath

Probing ==
  /\ Inserting
  /\ loop.table \in PreparedTables /\ loop.capacity = PreparedCapacity
  /\ OnPath

Tables == UNION {[Slots(c) -> Entry] : c \in Nat}

Call ==
  [at : {"idle", "find", "rehash", "place", "probe"}, op : {"none", "contains", "get", "remove"},
   key : Keys \cup {NULL}, value : Values \cup {NULL}, table : Tables, capacity : Nat,
   i : Nat, index : Nat, first_deleted : Int]

\* The dictionary itself only changes when a call returns.
LoopInv ==
  /\ IInv
  /\ loop \in Call
  /\ loop.at = "find" => Finding
  /\ loop.at \in {"rehash", "place"} => Rehashing
  /\ loop.at = "place" => Placing
  /\ loop.at = "probe" => Probing
------------------------------------------------------------------------------
(* Arithmetic.                                                              *)

\* What is left of a sum that exceeds a multiple of c by less than c.
LEMMA Unique ==
  ASSUME NEW c \in Nat \ {0}, NEW q \in Nat, NEW r \in Slots(c)
  PROVE  (q * c + r) % c = r
BY DEF Slots

LEMMA Remainder ==
  ASSUME NEW c \in Nat \ {0}, NEW a \in Nat
  PROVE  \E q \in Nat : a = q * c + (a % c) /\ a % c \in Slots(c)
<1>1. a \div c \in Nat
  OBVIOUS
<1>2. a = c * (a \div c) + (a % c)
  OBVIOUS
<1>3. c * (a \div c) = (a \div c) * c
  BY <1>1
<1>4. a % c \in Slots(c)
  BY DEF Slots
<1> QED
  BY <1>1, <1>2, <1>3, <1>4

\* index = (index + 1) % capacity goes to the next slot of the path.
LEMMA NextSlot ==
  ASSUME NEW c \in Nat \ {0}, NEW a \in Nat
  PROVE  ((a % c) + 1) % c = (a + 1) % c
<1>1. PICK q \in Nat : a = q * c + (a % c) /\ a % c \in Slots(c)
  BY Remainder
<1> DEFINE r == a % c
<1>0. r \in Slots(c) /\ a = q * c + r
  BY <1>1 DEF r
<1> HIDE DEF r
<1>2. CASE r + 1 < c
  <2>1. r + 1 \in Slots(c)
    BY <1>0, <1>2 DEF Slots
  <2>2. (q * c + (r + 1)) % c = r + 1 /\ (0 * c + (r + 1)) % c = r + 1
    BY <2>1, Unique
  <2>3. q * c + (r + 1) = a + 1 /\ 0 * c + (r + 1) = r + 1
    BY <1>0 DEF Slots
  <2> QED
    BY <2>2, <2>3 DEF r
<1>3. CASE r + 1 = c
  <2>1. 0 \in Slots(c) /\ q + 1 \in Nat
    BY DEF Slots
  <2>2. ((q + 1) * c + 0) % c = 0 /\ (1 * c + 0) % c = 0
    BY <2>1, Unique
  <2>3. (q + 1) * c + 0 = a + 1 /\ 1 * c + 0 = r + 1
    BY <1>0, <1>3 DEF Slots
  <2> QED
    BY <2>2, <2>3 DEF r
<1> QED
  BY <1>0, <1>2, <1>3 DEF Slots

LEMMA NextOnPath ==
  ASSUME NEW c \in Nat \ {0}, NEW k \in Keys, NEW j \in Nat
  PROVE  (SlotAt(c, k, j) + 1) % c = SlotAt(c, k, j + 1)
<1>1. Hash[k] + j \in Nat /\ Hash[k] + (j + 1) = (Hash[k] + j) + 1
  OBVIOUS
<1> QED
  BY <1>1, NextSlot DEF SlotAt

\* After c slots it is back at the first.
LEMMA PathReturns ==
  ASSUME NEW c \in Nat \ {0}, NEW k \in Keys
  PROVE  SlotAt(c, k, c) = SlotAt(c, k, 0)
<1> DEFINE h == Hash[k]
<1>1. h \in Nat
  OBVIOUS
<1>2. SlotAt(c, k, c) = (h + c) % c /\ SlotAt(c, k, 0) = h % c
  BY DEF SlotAt
<1> HIDE DEF h
<1>3. PICK q \in Nat : h = q * c + (h % c) /\ h % c \in Slots(c)
  BY <1>1, Remainder
<1>4. q + 1 \in Nat /\ h + c = (q + 1) * c + (h % c)
  BY <1>3 DEF Slots
<1>5. ((q + 1) * c + (h % c)) % c = h % c
  BY <1>3, <1>4, Unique
<1> QED
  BY <1>2, <1>4, <1>5

\* It visits no slot twice before that ...
LEMMA PathDistinct ==
  ASSUME NEW c \in Nat \ {0}, NEW k \in Keys, NEW i \in Slots(c), NEW j \in Slots(c),
         SlotAt(c, k, i) = SlotAt(c, k, j)
  PROVE  i = j
<1> DEFINE h == Hash[k]
<1>1. /\ h \in Nat /\ h + i \in Nat /\ h + j \in Nat
      /\ (h + i) % c = (h + j) % c
  BY DEF Slots, SlotAt
<1> HIDE DEF h
<1>2. PICK q \in Nat : h + i = q * c + ((h + i) % c)
  BY <1>1, Remainder
<1>3. PICK p \in Nat : h + j = p * c + ((h + j) % c)
  BY <1>1, Remainder
<1>4. i - j = (q - p) * c
  BY <1>1, <1>2, <1>3 DEF Slots
<1>5. ASSUME NEW d \in Nat \ {0}
      PROVE  d * c >= c
  <2>1. (d - 1) * c >= 0 /\ d * c = (d - 1) * c + c
    OBVIOUS
  <2> QED
    BY <2>1
<1>6. CASE q > p
  <2>1. (q - p) * c >= c
    BY <1>5, <1>6
  <2> QED
    BY <1>4, <2>1 DEF Slots
<1>7. CASE p > q
  <2>1. (p - q) * c >= c /\ (p - q) * c = j - i
    BY <1>4, <1>5, <1>7 DEF Slots
  <2> QED
    BY <2>1 DEF Slots
<1> QED
  BY <1>1, <1>2, <1>3, <1>6, <1>7 DEF Slots

\* ... and so it visits them all.
LEMMA PathCovers ==
  ASSUME NEW c \in Nat \ {0}, NEW k \in Keys, NEW s \in Slots(c)
  PROVE  \E j \in Slots(c) : SlotAt(c, k, j) = s
<1> DEFINE h == Hash[k]
<1>1. h \in Nat /\ \A j : SlotAt(c, k, j) = (h + j) % c
  BY DEF SlotAt
<1> HIDE DEF h
<1>2. PICK q \in Nat : h = q * c + (h % c) /\ h % c \in Slots(c)
  BY <1>1, Remainder
<1>3. PICK r \in Slots(c) : h = q * c + r
  BY <1>2
<1>4. CASE s >= r
  <2> DEFINE m == q * c
  <2>1. (m + s) % c = s /\ m \in Nat /\ h = m + r
    BY <1>3, Unique
  <2> HIDE DEF m
  <2>2. s - r \in Slots(c) /\ h + (s - r) = m + s
    BY <1>4, <2>1 DEF Slots
  <2> QED
    BY <1>1, <2>1, <2>2
<1>5. CASE s < r
  <2>1. s - r + c \in Slots(c) /\ h + (s - r + c) = (q + 1) * c + s /\ q + 1 \in Nat
    BY <1>3, <1>5 DEF Slots
  <2>2. ((q + 1) * c + s) % c = s
    BY <2>1, Unique
  <2> QED
    BY <1>1, <2>1, <2>2
<1> QED
  BY <1>3, <1>4, <1>5 DEF Slots

------------------------------------------------------------------------------
(* Probes.                                                                  *)

\* The loops end their round where they began, and only there.
LEMMA RoundEnds ==
  ASSUME NEW c \in Nat \ {0}, NEW k \in Keys, NEW j \in Slots(c)
  PROVE  /\ (SlotAt(c, k, j) + 1) % c = SlotAt(c, k, j + 1)
         /\ Hash[k] % c = SlotAt(c, k, 0)
         /\ SlotAt(c, k, j + 1) = SlotAt(c, k, 0) <=> j + 1 = c
<1>1. (SlotAt(c, k, j) + 1) % c = SlotAt(c, k, j + 1)
  BY NextOnPath DEF Slots
<1>2. Hash[k] % c = SlotAt(c, k, 0)
  BY DEF SlotAt
<1>3. j + 1 = c => SlotAt(c, k, j + 1) = SlotAt(c, k, 0)
  BY PathReturns
<1>4. ASSUME SlotAt(c, k, j + 1) = SlotAt(c, k, 0), j + 1 # c
      PROVE  FALSE
  <2>1. j + 1 \in Slots(c) /\ 0 \in Slots(c) /\ j + 1 # 0
    BY <1>4 DEF Slots
  <2> QED
    BY <1>4, <2>1, PathDistinct
<1> QED
  BY <1>1, <1>2, <1>3, <1>4

\* The slot where a probe stops decides what it finds.
LEMMA ProbeStops ==
  ASSUME NEW c \in Nat \ {0}, NEW e, NEW k \in Keys, NEW j \in Slots(c),
         Reaches(e, c, k, j), Stops(e, c, k, j)
  PROVE  /\ Found(e, c, k) <=> HasKey(e[SlotAt(c, k, j)], k)
         /\ Faults(e, c, k) <=> HasKey(e[SlotAt(c, k, j)], NULL)
         /\ Found(e, c, k) => FoundSlot(e, c, k) = SlotAt(c, k, j)
<1>1. ASSUME NEW i \in Slots(c), Reaches(e, c, k, i), Stops(e, c, k, i)
      PROVE  i = j
  <2>1. i \in 0 .. (j - 1) \/ j \in 0 .. (i - 1) \/ i = j
    BY DEF Slots
  <2> QED
    BY <1>1, <2>1 DEF Reaches
<1>2. ASSUME NEW i \in Slots(c), Hits(e, c, k, i)
      PROVE  i = j
  BY <1>1, <1>2 DEF Hits, Stops
<1>3. Found(e, c, k) <=> HasKey(e[SlotAt(c, k, j)], k)
  BY <1>2 DEF Found, Hits
<1>4. Faults(e, c, k) <=> HasKey(e[SlotAt(c, k, j)], NULL)
  BY <1>1 DEF Faults, Stops
<1>5. ASSUME Found(e, c, k)
      PROVE  FoundSlot(e, c, k) = SlotAt(c, k, j)
  BY <1>2, <1>5 DEF Found, FoundSlot
<1> QED
  BY <1>3, <1>4, <1>5

\* A probe that passes every slot finds nothing.
LEMMA ProbePassesAll ==
  ASSUME NEW c \in Nat \ {0}, NEW e, NEW k \in Keys, Reaches(e, c, k, c)
  PROVE  ~Found(e, c, k) /\ ~Faults(e, c, k)
BY DEF Reaches, Slots, Found, Hits, Faults, Stops

\* One more slot passed.
LEMMA PassesOne ==
  ASSUME NEW c \in Nat \ {0}, NEW e \in [Slots(c) -> Entry], NEW k \in Keys, NEW j \in Slots(c),
         NEW first \in Int, Passed(e, c, k, j, first), ~Stops(e, c, k, j)
  PROVE  Passed(e, c, k, j + 1,
                IF e[SlotAt(c, k, j)].state = DELETED /\ first = -1
                THEN SlotAt(c, k, j) ELSE first)
<1> DEFINE s == SlotAt(c, k, j)
<1>1. s \in Slots(c)
  BY SlotAtType DEF Slots
<1>2. \A m \in 0 .. j : m \in 0 .. (j - 1) \/ m = j
  BY DEF Slots
<1>3. 0 .. ((j + 1) - 1) = 0 .. j /\ j \in 0 .. j /\ \A m \in 0 .. (j - 1) : m \in 0 .. j
  BY DEF Slots
<1>4. Reaches(e, c, k, j + 1)
  BY <1>2, <1>3 DEF Passed, Reaches
<1>5. e[s].state \in {FILLED, DELETED}
  BY <1>1 DEF Stops, Entry
<1>6. CASE first = -1 /\ e[s].state = DELETED
  <2>1. FreeAt(e, c, k, j)
    BY <1>6 DEF FreeAt, Passed, DELETED, FILLED
  <2>2. s # -1
    BY <1>1 DEF Slots
  <2> HIDE DEF s
  <2>3. Passed(e, c, k, j + 1, s)
    BY <1>3, <1>4, <1>6, <2>1, <2>2 DEF Passed, s
  <2> QED
    BY <1>6, <2>3 DEF s
<1>7. CASE first = -1 /\ e[s].state = FILLED
  <2>1. Passed(e, c, k, j + 1, first)
    BY <1>2, <1>3, <1>4, <1>7 DEF Passed
  <2> QED
    BY <1>7, <2>1 DEF FILLED, DELETED
<1>8. CASE first # -1
  <2>1. Passed(e, c, k, j + 1, first)
    BY <1>3, <1>4, <1>8 DEF Passed
  <2> QED
    BY <1>8, <2>1
<1> QED
  BY <1>5, <1>6, <1>7, <1>8

LEMMA OnPathGoesOn ==
  ASSUME OnPath, loop \in Call, ProbeGoesOn
  PROVE  OnPath'
<1> DEFINE c == loop.capacity
           e == loop.table
           k == ProbeKey
           first == loop.first_deleted
<1>1. /\ k \in Keys /\ c \in Nat \ {0} /\ e \in [Slots(c) -> Entry]
      /\ Filled(e) # Slots(c) /\ first \in Int
  BY DEF OnPath, Call
<1>2. PICK j \in Slots(c) : loop.index = SlotAt(c, k, j) /\ Passed(e, c, k, j, first)
  BY DEF OnPath
<1>3. /\ ~Stops(e, c, k, j)
      /\ NextIndex = SlotAt(c, k, j + 1)
      /\ HashIndex(k) = SlotAt(c, k, 0)
      /\ FirstDeleted = IF e[SlotAt(c, k, j)].state = DELETED /\ first = -1
                        THEN SlotAt(c, k, j) ELSE first
  <2>1. ~Stops(e, c, k, j)
    BY <1>2 DEF ProbeGoesOn, ProbePasses, EntryHere, Stops
  <2> QED
    BY <1>1, <1>2, <2>1, RoundEnds DEF NextIndex, HashIndex, FirstDeleted, EntryHere
<1>4. j + 1 \in Slots(c)
  BY <1>1, <1>2, <1>3, RoundEnds DEF ProbeGoesOn, Slots
<1>5. Passed(e, c, k, j + 1, FirstDeleted)
  BY <1>1, <1>2, <1>3, PassesOne
<1>6. /\ loop'.capacity = c /\ loop'.table = e /\ ProbeKey' = k
      /\ loop'.index = SlotAt(c, k, j + 1) /\ loop'.first_deleted = FirstDeleted
  <2>1. /\ loop' = [loop EXCEPT !.index = NextIndex, !.first_deleted = FirstDeleted]
        /\ entries' = entries
    BY DEF ProbeGoesOn, vars
  <2>2. /\ loop'.capacity = loop.capacity /\ loop'.table = loop.table
        /\ loop'.at = loop.at /\ loop'.key = loop.key /\ loop'.i = loop.i
        /\ loop'.index = NextIndex /\ loop'.first_deleted = FirstDeleted
    BY <2>1 DEF Call
  <2> QED
    BY <1>3, <2>1, <2>2 DEF ProbeKey
<1> HIDE DEF c, e, k
<1>7. \E i \in Slots(c) : loop'.index = SlotAt(c, k, i) /\ Passed(e, c, k, i, loop'.first_deleted)
  BY <1>4, <1>5, <1>6
<1> QED
  BY <1>1, <1>6, <1>7 DEF OnPath

\* The probe of dict_insert ends at a free slot: the first of the key's path, and
\* the key is nowhere in the table.
LEMMA ProbeFindsSlot ==
  ASSUME OnPath, loop \in Call, ProbeEnds
  PROVE  /\ ~Full
         /\ ~Found(loop.table, loop.capacity, ProbeKey)
         /\ ~Faults(loop.table, loop.capacity, ProbeKey)
         /\ \E j \in Slots(loop.capacity) :
              /\ Target = SlotAt(loop.capacity, ProbeKey, j)
              /\ FreeAt(loop.table, loop.capacity, ProbeKey, j)
<1> DEFINE c == loop.capacity
           e == loop.table
           k == ProbeKey
           first == loop.first_deleted
<1>1. /\ k \in Keys /\ c \in Nat \ {0} /\ e \in [Slots(c) -> Entry]
      /\ Filled(e) # Slots(c) /\ first \in Int
  BY DEF OnPath, Call
<1>2. PICK j \in Slots(c) : loop.index = SlotAt(c, k, j) /\ Passed(e, c, k, j, first)
  BY DEF OnPath
<1>3. EntryHere = e[SlotAt(c, k, j)] /\ loop.index # -1
  BY <1>1, <1>2, SlotAtType DEF EntryHere, Slots
<1>4. CASE EntryHere.state = EMPTY
  <2>1. Stops(e, c, k, j) /\ Reaches(e, c, k, j)
    BY <1>2, <1>3, <1>4 DEF Stops, Passed
  <2>2. ~Found(e, c, k) /\ ~Faults(e, c, k)
    BY <1>1, <1>3, <1>4, <2>1, ProbeStops DEF HasKey, EMPTY, FILLED
  <2>3. FirstDeleted = first
    BY <1>4 DEF FirstDeleted, EMPTY, DELETED
  <2>4. CASE first = -1
    <3>1. IndexAfter = loop.index /\ ~Full /\ Target = loop.index
      BY <1>4, <2>3, <2>4 DEF IndexAfter, Full, Target, EntryHere, EMPTY, FILLED
    <3>2. FreeAt(e, c, k, j)
      BY <1>2, <1>3, <1>4, <2>4 DEF FreeAt, Passed, EMPTY, FILLED
    <3> QED
      BY <1>2, <2>2, <3>1, <3>2
  <2>5. CASE first # -1
    <3>1. PICK m \in 0 .. (j - 1) : /\ first = SlotAt(c, k, m) /\ e[first].state = DELETED
                                    /\ FreeAt(e, c, k, m)
      BY <1>2, <2>5 DEF Passed
    <3>2. IndexAfter = first /\ ~Full /\ Target = first
      BY <1>4, <2>3, <2>5, <3>1 DEF IndexAfter, Full, Target, DELETED, FILLED
    <3>3. m \in Slots(c)
      BY <1>1 DEF Slots
    <3> QED
      BY <2>2, <3>1, <3>2, <3>3
  <2> QED
    BY <2>4, <2>5
<1>5. CASE EntryHere.state # EMPTY
  <2>1. ~Stops(e, c, k, j) /\ ProbePasses /\ NextIndex = HashIndex(k)
    BY <1>3, <1>5 DEF ProbeEnds, ProbePasses, Stops
  <2>2. j + 1 = c /\ NextIndex = SlotAt(c, k, 0)
    BY <1>1, <1>2, <2>1, RoundEnds DEF NextIndex, HashIndex
  <2>3. FirstDeleted = IF e[SlotAt(c, k, j)].state = DELETED /\ first = -1
                       THEN SlotAt(c, k, j) ELSE first
    BY <1>2, <1>3 DEF FirstDeleted
  <2>4. Passed(e, c, k, c, FirstDeleted)
    BY <1>1, <1>2, <2>1, <2>2, <2>3, PassesOne
  <2>5. ~Found(e, c, k) /\ ~Faults(e, c, k)
    BY <1>1, <2>4, ProbePassesAll DEF Passed
  <2>6. FirstDeleted # -1
    <3>1. ASSUME FirstDeleted = -1
          PROVE  \A s \in Slots(c) : s \in Filled(e)
      <4>1. \A m \in Slots(c) : e[SlotAt(c, k, m)].state = FILLED
        BY <2>4, <3>1 DEF Passed, Slots
      <4> QED
        BY <1>1, <4>1, PathCovers DEF Filled
    <3>2. Filled(e) \subseteq Slots(c)
      BY <1>1 DEF Filled
    <3> QED
      BY <1>1, <3>1, <3>2
  <2>7. PICK m \in 0 .. (c - 1) : /\ FirstDeleted = SlotAt(c, k, m)
                                  /\ e[FirstDeleted].state = DELETED
                                  /\ FreeAt(e, c, k, m)
    BY <2>4, <2>6 DEF Passed
  <2>8. e[SlotAt(c, k, 0)].state # EMPTY
    BY <1>1, <2>4 DEF Passed, Reaches, Stops
  <2>9. IndexAfter = SlotAt(c, k, 0) /\ ~Full /\ Target = FirstDeleted
    BY <1>5, <2>2, <2>6, <2>8 DEF IndexAfter, Full, Target
  <2> QED
    BY <2>5, <2>7, <2>9 DEF Slots
<1> QED
  BY <1>4, <1>5

------------------------------------------------------------------------------
(* The new table of resize.                                                 *)

LEMMA PlacesNone ==
  ASSUME NEW c \in Nat, NEW e \in [Slots(c) -> Entry], NEW d \in Nat
  PROVE  \E pos \in [FilledBelow(e, 0) -> Slots(d)] : Places(pos, NewTable(d), e, d, 0)
<1>1. FilledBelow(e, 0) = {}
  BY DEF FilledBelow, Filled, Slots
<1>2. NewTable(d) \in [Slots(d) -> Entry] /\ \A s \in Slots(d) : NewTable(d)[s] = EmptyEntry
  BY DEF NewTable, EmptyEntry, Entry
<1> DEFINE pos == [s \in {} |-> 0]
<1>3. pos \in [FilledBelow(e, 0) -> Slots(d)]
  BY <1>1
<1>4. Places(pos, NewTable(d), e, d, 0)
  BY <1>1, <1>2, <1>3 DEF Places
<1> QED
  BY <1>3, <1>4

\* An old slot without an entry is skipped.
LEMMA PlacesSkip ==
  ASSUME NEW c \in Nat, NEW e \in [Slots(c) -> Entry], NEW d, NEW t, NEW pos,
         NEW i \in Slots(c), e[i].state # FILLED, Places(pos, t, e, d, i)
  PROVE  Places(pos, t, e, d, i + 1)
<1>1. \A s \in Filled(e) : s \in Int /\ s # i
  BY DEF Filled, Slots
<1>2. FilledBelow(e, i + 1) = FilledBelow(e, i)
  BY <1>1 DEF FilledBelow, Slots
<1> QED
  BY <1>2 DEF Places

\* The entry of the next old slot goes to the first free slot of its path.
LEMMA PlacesOne ==
  ASSUME NEW c \in Nat, NEW e \in [Slots(c) -> Entry], NEW d \in Nat \ {0}, NEW t, NEW pos,
         NEW i \in Keyed(e), e[i].value # NULL, Places(pos, t, e, d, i),
         NEW m \in Slots(d), FreeAt(t, d, e[i].key, m)
  PROVE  \E p \in [FilledBelow(e, i + 1) -> Slots(d)] :
           Places(p, [t EXCEPT ![SlotAt(d, e[i].key, m)] = e[i]], e, d, i + 1)
<1> DEFINE k == e[i].key
           s == SlotAt(d, k, m)
           B == FilledBelow(e, i)
           B1 == FilledBelow(e, i + 1)
           p == [b \in B1 |-> IF b = i THEN s ELSE pos[b]]
           u == [t EXCEPT ![s] = e[i]]
<1>1. /\ i \in Slots(c) /\ i \in Int /\ i \in Filled(e) /\ e[i].state = FILLED
      /\ k \in Keys /\ k # NULL /\ e[i] \in Entry
  BY DEF Keyed, Filled, Entry, Slots
<1>2. s \in Slots(d)
  BY <1>1, SlotAtType DEF Slots
<1>3. B1 = B \cup {i} /\ i \notin B /\ \A b \in B : b < i /\ b \in B1
  BY <1>1 DEF FilledBelow, Filled, Slots
<1>4. /\ t \in [Slots(d) -> Entry] /\ pos \in [B -> Slots(d)]
      /\ \A b \in B : t[pos[b]] = e[b] /\ e[b].state = FILLED
  BY DEF Places, FilledBelow, Filled
<1>5. t[s].state # FILLED /\ \A n \in 0 .. (m - 1) : t[SlotAt(d, k, n)].state = FILLED
  BY DEF FreeAt
<1> HIDE DEF s, B, B1, k
<1>6. p \in [B1 -> Slots(d)] /\ p[i] = s /\ \A b \in B : p[b] = pos[b] /\ p[b] # s
  BY <1>2, <1>3, <1>4, <1>5
<1>7. u \in [Slots(d) -> Entry] /\ u[s] = e[i] /\ \A r \in Slots(d) : r # s => u[r] = t[r]
  BY <1>1, <1>2, <1>4
<1>8. \A b1, b2 \in B1 : p[b1] = p[b2] => b1 = b2
  BY <1>3, <1>6 DEF Places, B
<1> HIDE DEF p, u
<1>9. ASSUME NEW b \in B1
      PROVE  /\ e[b].key # NULL /\ e[b].value # NULL
             /\ u[p[b]] = e[b]
             /\ \E j \in Slots(d) :
                  /\ p[b] = SlotAt(d, e[b].key, j)
                  /\ \A n \in 0 .. (j - 1) :
                       \E b0 \in B1 : b0 < b /\ p[b0] = SlotAt(d, e[b].key, n)
  <2>1. CASE b = i
    <3>1. ASSUME NEW n \in 0 .. (m - 1)
          PROVE  \E b0 \in B1 : b0 < b /\ p[b0] = SlotAt(d, k, n)
      <4>1. SlotAt(d, k, n) \in Slots(d)
        BY <1>1, SlotAtType
      <4>2. t[SlotAt(d, k, n)] # EmptyEntry
        BY <1>5 DEF EmptyEntry, EMPTY, FILLED
      <4>3. PICK b0 \in B : pos[b0] = SlotAt(d, k, n)
        BY <4>1, <4>2 DEF Places, B
      <4> QED
        BY <1>3, <1>6, <2>1, <4>3
    <3> QED
      BY <1>1, <1>6, <1>7, <2>1, <3>1 DEF k, s
  <2>2. CASE b # i
    <3>1. b \in B
      BY <1>3, <2>2
    <3>2. e[b].key # NULL /\ e[b].value # NULL
      BY <3>1 DEF Places, B
    <3>3. u[p[b]] = e[b]
      BY <1>4, <1>6, <1>7, <3>1
    <3>4. PICK j \in Slots(d) :
            /\ pos[b] = SlotAt(d, e[b].key, j)
            /\ \A n \in 0 .. (j - 1) : \E b0 \in B : b0 < b /\ pos[b0] = SlotAt(d, e[b].key, n)
      BY <3>1 DEF Places, B
    <3>5. \A n \in 0 .. (j - 1) : \E b0 \in B1 : b0 < b /\ p[b0] = SlotAt(d, e[b].key, n)
      BY <1>3, <1>6, <3>4
    <3> QED
      BY <1>6, <3>1, <3>2, <3>3, <3>4, <3>5
  <2> QED
    BY <2>1, <2>2
<1>10. ASSUME NEW r \in Slots(d), \A b \in B1 : p[b] # r
       PROVE  u[r] = EmptyEntry
  <2>1. r # s /\ \A b \in B : pos[b] # r
    BY <1>3, <1>6, <1>10
  <2>2. t[r] = EmptyEntry
    BY <2>1 DEF Places, B
  <2> QED
    BY <1>7, <2>1, <2>2
<1>11. Places(p, u, e, d, i + 1)
  BY <1>6, <1>7, <1>8, <1>9, <1>10 DEF Places, B1
<1> QED
  BY <1>6, <1>11 DEF B1, p, u, s, k

\* There are no tombstones in it, and no more entries than there were.
LEMMA PlacesRoom ==
  ASSUME NEW c \in Nat, NEW e \in [Slots(c) -> Entry], NEW d \in Nat, NEW t, NEW pos,
         NEW i \in 0 .. c, Places(pos, t, e, d, i)
  PROVE  /\ Complete(t)
         /\ Occupied(t) = Filled(t)
         /\ Cardinality(Filled(t)) \in 0 .. c
<1> DEFINE B == FilledBelow(e, i)
<1>1. /\ pos \in [B -> Slots(d)] /\ t \in [Slots(d) -> Entry]
      /\ \A b \in B : t[pos[b]] = e[b] /\ e[b].state = FILLED
      /\ \A b \in B : e[b].key # NULL /\ e[b].value # NULL
  BY DEF Places, FilledBelow, Filled
<1>2. \A s \in Occupied(t) : \E b \in B : pos[b] = s
  BY DEF Places, Occupied, EmptyEntry, EMPTY
<1>3. Filled(t) \subseteq Occupied(t)
  BY DEF Filled, Occupied, EMPTY, FILLED
<1>4. \A b \in B : pos[b] \in Filled(t)
  BY <1>1 DEF Filled
<1>5. Occupied(t) = Filled(t) /\ Complete(t)
  BY <1>1, <1>2, <1>3, <1>4 DEF Complete
<1>6. B \subseteq Slots(c) /\ IsFiniteSet(B) /\ Cardinality(B) \in 0 .. c
  <2>1. B \subseteq Slots(c)
    BY DEF FilledBelow, Filled
  <2>2. IsFiniteSet(Slots(c)) /\ Cardinality(Slots(c)) = c
    BY SlotSets
  <2> QED
    BY <2>1, <2>2, FS_Subset, FS_CardinalityType
<1>7. pos \in Bijection(B, Filled(t))
  <2>1. pos \in [B -> Filled(t)]
    BY <1>1, <1>4
  <2>2. \A b1, b2 \in B : pos[b1] = pos[b2] => b1 = b2
    BY DEF Places
  <2> QED
    BY <1>2, <1>5, <2>1, <2>2 DEF Bijection, Injection, Surjection, IsInjective
<1>8. Cardinality(Filled(t)) = Cardinality(B)
  BY <1>6, <1>7, FS_Bijection DEF ExistsBijection
<1> QED
  BY <1>5, <1>6, <1>8

\* At the end it is the table StrDictionary says.
LEMMA PlacesAll ==
  ASSUME NEW c \in Nat, NEW e \in [Slots(c) -> Entry], NEW d \in Nat, NEW t, NEW pos,
         Places(pos, t, e, d, c)
  PROVE  Complete(e) /\ t \in Rehashed(e, d)
<1>1. FilledBelow(e, c) = Filled(e)
  BY DEF FilledBelow, Filled, Slots
<1>2. Complete(e)
  BY <1>1 DEF Places, Complete
<1>3. pos \in [Filled(e) -> Slots(d)] /\ IsRehash(pos, e, d)
  BY <1>1 DEF Places, IsRehash
<1>4. t = Relocate(pos, e, d)
  <2>1. t \in [Slots(d) -> Entry]
    BY DEF Places
  <2>2. ASSUME NEW s \in Slots(d)
        PROVE  t[s] = IF \E i \in Filled(e) : pos[i] = s
                      THEN e[CHOOSE i \in Filled(e) : pos[i] = s] ELSE EmptyEntry
    BY <1>1 DEF Places
  <2> QED
    BY <2>1, <2>2 DEF Relocate
<1> QED
  BY <1>2, <1>3, <1>4 DEF Rehashed

------------------------------------------------------------------------------
(* The steps.                                                               *)

LEMMA NoCallInv == NoCall \in Call /\ NoCall.at = "idle"
<1>1. NewTable(0) \in [Slots(0) -> Entry]
  BY DEF NewTable, EmptyEntry, Entry
<1>2. NewTable(0) \in Tables
  BY <1>1 DEF Tables
<1> QED
  BY <1>2 DEF NoCall, Call

LEMMA TableIsInTables ==
  ASSUME NEW c \in Nat, NEW t \in [Slots(c) -> Entry]
  PROVE  t \in Tables
BY DEF Tables

\* A call that returns with a step of StrDictionary leaves the invariant.
LEMMA ReturnInv ==
  ASSUME LoopInv, [Next]_vars, Return
  PROVE  LoopInv'
<1>1. IInv'
  BY NextIInv DEF LoopInv
<1>2. loop' \in Call /\ loop'.at = "idle"
  BY NoCallInv DEF Return
<1> QED
  BY <1>1, <1>2 DEF LoopInv, Call

\* While a call goes on, the dictionary is as it was.
LEMMA KeepsIInv ==
  ASSUME LoopInv, UNCHANGED vars
  PROVE  IInv'
BY NextIInv DEF LoopInv

\* What dict_contains, dict_get and dict_remove make of the index.
LEMMA FindReply ==
  ASSUME LoopInv, ~crashed, loop.at = "find", NEW index, FindReturns(index),
         ~Faults(entries, capacity, loop.key),
         Found(entries, capacity, loop.key) <=> index # -1,
         index # -1 => FoundSlot(entries, capacity, loop.key) = index
  PROVE  Next /\ LoopInv'
<1> DEFINE k == loop.key
<1>1. k \in Keys /\ loop.value \in Values \cup {NULL} /\ (loop.op = "remove" => size # 0)
  BY DEF LoopInv, Finding, Call
<1>2. Return
  BY DEF FindReturns
<1> HIDE DEF k
<1>3. CASE loop.op = "contains" /\ Reply("contains", index # -1) /\ Unchanged
  <2>1. (index # -1) = Found(entries, capacity, loop.key)
    BY DEF Found
  <2>2. DictContains(k)
    BY <1>3, <2>1 DEF DictContains, Reply, Unchanged, k
  <2> QED
    BY <1>1, <1>2, <2>2, ReturnInv DEF Next
<1>4. CASE /\ Reply("get", IF index = -1 \/ entries[index].value = NULL
                           THEN loop.value ELSE entries[index].value)
           /\ Unchanged
  <2>1. DictGet(k, loop.value)
    BY <1>4 DEF DictGet, Reply, Unchanged, k
  <2> QED
    BY <1>1, <1>2, <2>1, ReturnInv DEF Next
<1>5. CASE loop.op = "remove" /\ index = -1 /\ Reply("remove", -1) /\ Unchanged
  <2>1. RemoveRefused(k)
    BY <1>5 DEF RemoveRefused, Unchanged, k
  <2> QED
    BY <1>1, <1>2, <2>1, ReturnInv DEF Next
<1>6. CASE /\ loop.op = "remove" /\ index # -1
           /\ entries' = [entries EXCEPT ![index] = DeletedEntry]
           /\ size' = size - 1 /\ Reply("remove", 0) /\ UNCHANGED capacity
  <2>1. DictRemove(k)
    BY <1>1, <1>6 DEF DictRemove, RemoveLeaving, k
  <2> QED
    BY <1>1, <1>2, <2>1, ReturnInv DEF Next
<1> QED
  BY <1>3, <1>4, <1>5, <1>6 DEF FindReturns

LEMMA FindStep ==
  ASSUME LoopInv, ~crashed, FindTurn
  PROVE  [Next]_vars /\ LoopInv'
<1> DEFINE c == capacity
           e == entries
           k == loop.key
<1>1. /\ loop.at = "find" /\ loop \in Call /\ Finding
      /\ k \in Keys /\ k # NULL /\ c \in Nat \ {0} /\ e \in [Slots(c) -> Entry]
  BY DEF FindTurn, LoopInv, Finding, IInv, TableInv
<1>2. PICK j \in Slots(c) : loop.index = SlotAt(c, k, j) /\ Reaches(e, c, k, j)
  BY <1>1 DEF Finding
<1>3. EntryHere = e[SlotAt(c, k, j)] /\ loop.index # -1
  BY <1>1, <1>2, SlotAtType DEF EntryHere, Finding, Slots
<1>4. /\ NextIndex = SlotAt(c, k, j + 1) /\ HashIndex(k) = SlotAt(c, k, 0)
      /\ NextIndex = HashIndex(k) <=> j + 1 = c
  BY <1>1, <1>2, RoundEnds DEF NextIndex, HashIndex, Finding
<1> HIDE DEF c, e, k
<1>5. CASE EntryHere.state = EMPTY /\ FindReturns(-1)
  <2>1. Stops(e, c, k, j)
    BY <1>3, <1>5 DEF Stops
  <2>2. ~Found(e, c, k) /\ ~Faults(e, c, k)
    BY <1>1, <1>2, <1>3, <1>5, <2>1, ProbeStops DEF HasKey, EMPTY, FILLED
  <2> QED
    BY <1>1, <1>5, <2>2, FindReply DEF e, c, k
<1>6. CASE HasKey(EntryHere, NULL) /\ Fault
  <2>1. Faults(e, c, k)
    BY <1>1, <1>2, <1>3, <1>6, ProbeStops DEF Stops
  <2>2. Crash
    BY <1>1, <1>6, <2>1 DEF Crash, Fault, Unchanged, e, c, k
  <2>3. Next
    BY <2>2 DEF Next
  <2> QED
    BY <1>6, <2>3, ReturnInv DEF Fault
<1>7. CASE HasKey(EntryHere, k) /\ FindReturns(loop.index)
  <2>1. Stops(e, c, k, j)
    BY <1>3, <1>7 DEF Stops
  <2>2. Found(e, c, k) /\ ~Faults(e, c, k) /\ FoundSlot(e, c, k) = loop.index
    BY <1>1, <1>2, <1>3, <1>7, <2>1, ProbeStops DEF HasKey
  <2> QED
    BY <1>1, <1>3, <1>7, <2>2, FindReply DEF e, c, k
<1>8. CASE FindGoesOn
  <2>1. ~Stops(e, c, k, j)
    BY <1>3, <1>8 DEF FindGoesOn, Stops, k
  <2>2. Reaches(e, c, k, j + 1)
    <3>1. \A i \in 0 .. ((j + 1) - 1) : i \in 0 .. (j - 1) \/ i = j
      BY DEF Slots
    <3> QED
      BY <1>2, <2>1, <3>1 DEF Reaches
  <2>3. CASE NextIndex # HashIndex(k)
    <3>1. loop' = [loop EXCEPT !.index = NextIndex] /\ UNCHANGED vars
      BY <1>8, <2>3 DEF FindGoesOn, k
    <3>2. j + 1 \in Slots(c)
      BY <1>1, <1>2, <1>4, <2>3 DEF Slots
    <3>3. NextIndex \in Nat
      BY <1>1, <1>4, <3>2, SlotAtType DEF Slots
    <3>4. /\ loop' \in Call /\ loop'.at = "find" /\ loop'.index = NextIndex
          /\ loop'.key = k /\ loop'.table = loop.table /\ loop'.capacity = loop.capacity
          /\ loop'.op = loop.op
      BY <1>1, <3>1, <3>3 DEF Call, k
    <3>5. \E i \in Slots(c) : loop'.index = SlotAt(c, k, i) /\ Reaches(e, c, k, i)
      BY <1>4, <2>2, <3>2, <3>4
    <3>6. Finding'
      BY <1>1, <3>1, <3>4, <3>5 DEF Finding, vars, e, c, k
    <3> QED
      BY <3>1, <3>4, <3>6, KeepsIInv DEF LoopInv
  <2>4. CASE NextIndex = HashIndex(k)
    <3>1. ~Found(e, c, k) /\ ~Faults(e, c, k)
      BY <1>1, <1>4, <2>2, <2>4, ProbePassesAll
    <3>2. FindReturns(-1)
      BY <1>8, <2>4 DEF FindGoesOn, k
    <3> QED
      BY <1>1, <3>1, <3>2, FindReply DEF e, c, k
  <2> QED
    BY <2>3, <2>4
<1> QED
  BY <1>5, <1>6, <1>7, <1>8 DEF FindTurn, k

\* The new table of a resize has twice the slots, room, and no tombstone.
LEMMA RehashTable ==
  ASSUME IInv, Rehashing
  PROVE  /\ capacity \in 1 .. (SizeModulus - 1) /\ entries \in [Slots(capacity) -> Entry]
         /\ loop.capacity = 2 * capacity /\ loop.capacity \in 1 .. (SizeModulus - 1)
         /\ loop.capacity = PreparedCapacity
         /\ loop.table \in [Slots(loop.capacity) -> Entry]
         /\ Complete(loop.table)
         /\ Filled(loop.table) # Slots(loop.capacity)
         /\ ~NeedsResize(loop.table, loop.capacity)
<1>1. capacity \in 1 .. (SizeModulus - 1) /\ entries \in [Slots(capacity) -> Entry]
  BY DEF IInv, TableInv, Rehashing, Inserting
<1>2. /\ loop.capacity = 2 * capacity /\ loop.capacity \in 1 .. (SizeModulus - 1)
      /\ loop.capacity = PreparedCapacity
  BY <1>1, ResizeDoubles DEF Rehashing, PreparedCapacity
<1>3. PICK pos : Places(pos, loop.table, entries, loop.capacity, loop.i)
  BY DEF Rehashing
<1>4. /\ Complete(loop.table) /\ Occupied(loop.table) = Filled(loop.table)
      /\ Cardinality(Filled(loop.table)) \in 0 .. capacity
  BY <1>1, <1>2, <1>3, PlacesRoom DEF Rehashing
<1>5. loop.table \in [Slots(loop.capacity) -> Entry]
  BY <1>3 DEF Places
<1>6. Cardinality(Slots(loop.capacity)) = loop.capacity
  BY <1>2, <1>5, SlotSets
<1>7. Filled(loop.table) # Slots(loop.capacity)
  BY <1>1, <1>2, <1>4, <1>6
<1>8. ~NeedsResize(loop.table, loop.capacity)
  BY <1>1, <1>2, <1>4 DEF NeedsResize
<1> QED
  BY <1>1, <1>2, <1>4, <1>5, <1>7, <1>8

\* The invariant of the new table after a step within the loop of resize.
LEMMA RehashingKept ==
  ASSUME LoopInv, Rehashing, UNCHANGED vars,
         loop' \in Call, loop'.at \in {"rehash", "place"},
         loop'.key = loop.key, loop'.value = loop.value, loop'.capacity = loop.capacity,
         loop'.i \in 0 .. capacity,
         \E pos \in [FilledBelow(entries, loop'.i) -> Slots(loop.capacity)] :
           Places(pos, loop'.table, entries, loop.capacity, loop'.i),
         loop'.at = "place" => Placing'
  PROVE  LoopInv'
<1>1. Rehashing'
  BY DEF Rehashing, Inserting, vars, NeedsResize, ResizeFits, NewCapacity
<1> QED
  BY <1>1, KeepsIInv DEF LoopInv

\* A probe begins at the slot the hash names.
LEMMA ProbeBegins ==
  ASSUME NEW c \in Nat \ {0}, NEW k \in Keys, NEW e
  PROVE  \E j \in Slots(c) : Hash[k] % c = SlotAt(c, k, j) /\ Passed(e, c, k, j, -1)
<1>1. 0 \in Slots(c) /\ Hash[k] % c = SlotAt(c, k, 0)
  BY RoundEnds DEF Slots
<1>2. Passed(e, c, k, 0, -1)
  BY DEF Passed, Reaches
<1> QED
  BY <1>1, <1>2

LEMMA RehashStep ==
  ASSUME LoopInv, ~crashed, RehashSkips \/ RehashFails \/ RehashPlaces \/ RehashEnds
  PROVE  [Next]_vars /\ LoopInv'
<1> DEFINE c == capacity
           e == entries
           d == loop.capacity
           t == loop.table
           i == loop.i
<1>1. /\ loop.at = "rehash" /\ loop \in Call /\ Rehashing /\ IInv
      /\ i \in 0 .. c /\ loop.key \in Keys /\ loop.value \in Values
  BY DEF RehashSkips, RehashFails, RehashPlaces, RehashEnds, LoopInv, Rehashing, Inserting
<1>2. /\ c \in Nat \ {0} /\ e \in [Slots(c) -> Entry]
      /\ d \in Nat \ {0} /\ d = PreparedCapacity
      /\ t \in [Slots(d) -> Entry] /\ Filled(t) # Slots(d)
  BY <1>1, RehashTable
<1>3. PICK pos \in [FilledBelow(e, i) -> Slots(d)] : Places(pos, t, e, d, i)
  BY <1>1 DEF Rehashing
<1>4. CASE RehashSkips
  <2>1. /\ i \in Slots(c) /\ e[i].state # FILLED
        /\ loop' = [loop EXCEPT !.i = @ + 1] /\ UNCHANGED vars
    BY <1>2, <1>4 DEF RehashSkips
  <2>2. /\ loop' \in Call /\ loop'.at = "rehash" /\ loop'.key = loop.key
        /\ loop'.value = loop.value /\ loop'.capacity = d /\ loop'.table = t /\ loop'.i = i + 1
    BY <1>1, <2>1 DEF Call
  <2>3. Places(pos, t, e, d, i + 1)
    BY <1>2, <1>3, <2>1, PlacesSkip
  <2>4. pos \in [FilledBelow(e, i + 1) -> Slots(d)]
    BY <2>3 DEF Places
  <2>5. i + 1 \in 0 .. c
    BY <1>1, <1>2, <2>1 DEF Slots
  <2> QED
    BY <1>1, <2>1, <2>2, <2>3, <2>4, <2>5, RehashingKept
<1>5. CASE RehashFails
  <2>1. ~Complete(e)
    BY <1>5 DEF RehashFails, Complete
  <2>2. InsertRefused
    BY <1>1, <1>5, <2>1 DEF RehashFails, InsertFails, InsertRefused, Unchanged, Rehashing
  <2>3. Next
    BY <2>2 DEF Next
  <2> QED
    BY <1>5, <2>3, ReturnInv DEF RehashFails, InsertFails
<1>6. CASE RehashPlaces
  <2> DEFINE k == e[i].key
  <2>1. /\ i \in Keyed(e) /\ e[i].value # NULL /\ k \in Keys
        /\ loop' = [loop EXCEPT !.at = "place", !.index = HashIndex(k), !.first_deleted = -1]
        /\ UNCHANGED vars
    BY <1>2, <1>6 DEF RehashPlaces, Keyed, Filled, Entry
  <2>2. PICK j \in Slots(d) : Hash[k] % d = SlotAt(d, k, j) /\ Passed(t, d, k, j, -1)
    BY <1>2, <2>1, ProbeBegins
  <2>3. HashIndex(k) = SlotAt(d, k, j) /\ HashIndex(k) \in Nat
    BY <1>2, <2>1, <2>2, SlotAtType DEF HashIndex, Slots
  <2> HIDE DEF k
  <2>4. /\ loop' \in Call /\ loop'.at = "place" /\ loop'.key = loop.key
        /\ loop'.value = loop.value /\ loop'.capacity = d /\ loop'.table = t /\ loop'.i = i
        /\ loop'.index = HashIndex(k) /\ loop'.first_deleted = -1
    <3> DEFINE h == HashIndex(k)
    <3>1. h \in Nat /\ loop' = [loop EXCEPT !.at = "place", !.index = h, !.first_deleted = -1]
      BY <2>1, <2>3
    <3> HIDE DEF h
    <3>2. /\ loop'.at = "place" /\ loop'.key = loop.key
          /\ loop'.value = loop.value /\ loop'.capacity = d /\ loop'.table = t /\ loop'.i = i
          /\ loop'.index = h /\ loop'.first_deleted = -1
      BY <1>1, <3>1 DEF Call
    <3>3. loop' \in Call
      <4> DEFINE l == [loop EXCEPT !.at = "place", !.index = h]
      <4>1. l \in Call
        BY <1>1, <3>1 DEF Call
      <4>2. loop' = [l EXCEPT !.first_deleted = -1]
        BY <3>1
      <4> HIDE DEF l
      <4> QED
        BY <4>1, <4>2 DEF Call
    <3> QED
      BY <3>2, <3>3 DEF h
  <2>5. ProbeKey' = k
    BY <2>1, <2>4 DEF ProbeKey, vars, k
  <2>6. OnPath'
    BY <1>2, <2>1, <2>2, <2>3, <2>4, <2>5 DEF OnPath
  <2>7. Placing'
    BY <2>1, <2>4, <2>6 DEF Placing, vars
  <2> QED
    BY <1>1, <1>3, <2>1, <2>4, <2>7, RehashingKept
<1>7. CASE RehashEnds
  <2> DEFINE k == loop.key
  <2>1. /\ i = c /\ UNCHANGED vars
        /\ loop' = [loop EXCEPT !.at = "probe", !.i = 0, !.index = HashIndex(k),
                                !.first_deleted = -1]
    BY <1>7 DEF RehashEnds
  <2>2. PICK j \in Slots(d) : Hash[k] % d = SlotAt(d, k, j) /\ Passed(t, d, k, j, -1)
    BY <1>1, <1>2, ProbeBegins
  <2>3. HashIndex(k) = SlotAt(d, k, j) /\ HashIndex(k) \in Nat
    BY <1>1, <1>2, <2>2, SlotAtType DEF HashIndex, Slots
  <2>4. /\ loop' \in Call /\ loop'.at = "probe" /\ loop'.key = k
        /\ loop'.value = loop.value /\ loop'.capacity = d /\ loop'.table = t
        /\ loop'.index = HashIndex(k) /\ loop'.first_deleted = -1
    <3> DEFINE h == HashIndex(k)
    <3>1. /\ h \in Nat
          /\ loop' = [loop EXCEPT !.at = "probe", !.i = 0, !.index = h, !.first_deleted = -1]
      BY <2>1, <2>3
    <3> HIDE DEF h
    <3>2. /\ loop'.at = "probe" /\ loop'.key = loop.key
          /\ loop'.value = loop.value /\ loop'.capacity = d /\ loop'.table = t
          /\ loop'.index = h /\ loop'.first_deleted = -1
      BY <1>1, <3>1 DEF Call
    <3>3. loop' \in Call
      <4> DEFINE l == [loop EXCEPT !.at = "probe", !.i = 0]
      <4>1. l \in Call
        BY <1>1 DEF Call
      <4> DEFINE m == [l EXCEPT !.index = h]
      <4>2. loop' = [m EXCEPT !.first_deleted = -1]
        BY <3>1
      <4> HIDE DEF l
      <4>3. m \in Call
        BY <3>1, <4>1 DEF Call
      <4> HIDE DEF m
      <4> QED
        BY <4>2, <4>3 DEF Call
    <3> QED
      BY <3>2, <3>3 DEF h
  <2>5. Complete(e) /\ t \in Rehashed(e, d)
    BY <1>2, <1>3, <2>1, PlacesAll
  <2>6. t \in PreparedTables
    BY <1>1, <2>5 DEF PreparedTables, Rehashing
  <2>7. ProbeKey' = k
    BY <2>4 DEF ProbeKey
  <2>8. OnPath'
    BY <1>1, <1>2, <2>2, <2>3, <2>4, <2>7 DEF OnPath
  <2>9. PreparedTables' = PreparedTables /\ PreparedCapacity' = PreparedCapacity /\ capacity' = capacity
    BY <2>1 DEF PreparedTables, PreparedCapacity, vars
  <2>10. Probing'
    BY <1>1, <1>2, <2>4, <2>6, <2>8, <2>9 DEF Probing, Inserting
  <2> QED
    BY <2>1, <2>4, <2>10, KeepsIInv DEF LoopInv
<1> QED
  BY <1>4, <1>5, <1>6, <1>7

LEMMA ProbeGoesOnStep ==
  ASSUME LoopInv, ProbeGoesOn
  PROVE  [Next]_vars /\ LoopInv'
<1>1. /\ loop.at \in {"place", "probe"} /\ loop \in Call /\ OnPath /\ UNCHANGED vars
      /\ loop' = [loop EXCEPT !.index = NextIndex, !.first_deleted = FirstDeleted]
  BY DEF ProbeGoesOn, LoopInv, Placing, Probing
<1>2. OnPath'
  BY <1>1, OnPathGoesOn
<1>3. NextIndex \in Nat /\ FirstDeleted \in Int
  <2>1. loop.index \in Nat /\ loop.first_deleted \in Int /\ loop.capacity \in Nat \ {0}
    BY <1>1 DEF OnPath, Call
  <2> QED
    BY <2>1 DEF NextIndex, FirstDeleted
<1>4. /\ loop' \in Call /\ loop'.at = loop.at /\ loop'.key = loop.key
      /\ loop'.value = loop.value /\ loop'.capacity = loop.capacity
      /\ loop'.table = loop.table /\ loop'.i = loop.i
  BY <1>1, <1>3 DEF Call
<1>5. CASE loop.at = "place"
  <2>1. Rehashing /\ Placing
    BY <1>5 DEF LoopInv
  <2>2. Placing'
    BY <1>1, <1>2, <1>4, <2>1 DEF Placing, vars
  <2>3. \E pos \in [FilledBelow(entries, loop'.i) -> Slots(loop.capacity)] :
          Places(pos, loop'.table, entries, loop.capacity, loop'.i)
    BY <1>4, <2>1 DEF Rehashing
  <2>4. loop'.i \in 0 .. capacity
    BY <1>4, <2>1 DEF Rehashing
  <2> QED
    BY <1>1, <1>4, <1>5, <2>1, <2>2, <2>3, <2>4, RehashingKept
<1>6. CASE loop.at = "probe"
  <2>1. Probing
    BY <1>6 DEF LoopInv
  <2>2. PreparedTables' = PreparedTables /\ PreparedCapacity' = PreparedCapacity /\ capacity' = capacity
    BY <1>1 DEF PreparedTables, PreparedCapacity, vars
  <2>3. Probing'
    BY <1>2, <1>4, <2>1, <2>2 DEF Probing, Inserting
  <2> QED
    BY <1>1, <1>4, <1>6, <2>3, KeepsIInv DEF LoopInv
<1> QED
  BY <1>1, <1>5, <1>6

\* resize's call of dict_insert: the entry is in the new table, or a malloc failed.
LEMMA PlaceStep ==
  ASSUME LoopInv, ~crashed, Place \/ PlaceFails
  PROVE  [Next]_vars /\ LoopInv'
<1> DEFINE e == entries
           d == loop.capacity
           t == loop.table
           i == loop.i
           k == e[i].key
<1>1. /\ loop.at = "place" /\ loop \in Call /\ Rehashing /\ Placing /\ OnPath /\ ProbeEnds /\ IInv
      /\ i \in Keyed(e) /\ e[i].value # NULL /\ ProbeKey = k
  BY DEF Place, PlaceFails, LoopInv, Placing, ProbeKey
<1>2. /\ capacity \in Nat /\ e \in [Slots(capacity) -> Entry] /\ d \in Nat \ {0}
      /\ t \in [Slots(d) -> Entry]
  BY <1>1, RehashTable
<1>3. CASE PlaceFails
  <2>1. InsertRefused
    BY <1>1, <1>3 DEF PlaceFails, InsertFails, InsertRefused, Unchanged, Rehashing
  <2>2. Next
    BY <2>1 DEF Next
  <2> QED
    BY <1>3, <2>2, ReturnInv DEF PlaceFails, InsertFails
<1>4. CASE Place
  <2>1. PICK m \in Slots(d) : Target = SlotAt(d, k, m) /\ FreeAt(t, d, k, m)
    BY <1>1, ProbeFindsSlot
  <2>2. ~Full
    BY <1>1, ProbeFindsSlot
  <2>3. /\ loop' = [loop EXCEPT !.at = "rehash", !.i = @ + 1,
                                !.table = [@ EXCEPT ![Target] = e[i]]]
        /\ UNCHANGED vars
    BY <1>4, <2>2 DEF Place
  <2> DEFINE u == [t EXCEPT ![SlotAt(d, k, m)] = e[i]]
  <2>4. PICK pos \in [FilledBelow(e, i) -> Slots(d)] : Places(pos, t, e, d, i)
    BY <1>1 DEF Rehashing
  <2>5. \E p \in [FilledBelow(e, i + 1) -> Slots(d)] : Places(p, u, e, d, i + 1)
    BY <1>1, <1>2, <2>1, <2>4, PlacesOne
  <2>6. e[i] \in Entry
    BY <1>1, <1>2 DEF Keyed, Filled
  <2>7. u \in [Slots(d) -> Entry]
    BY <1>2, <2>6
  <2> HIDE DEF u
  <2>8. u \in Tables
    BY <1>2, <2>7, TableIsInTables
  <2>9. /\ loop'.at = "rehash" /\ loop'.key = loop.key /\ loop'.value = loop.value
        /\ loop'.capacity = d /\ loop'.i = i + 1 /\ loop'.table = u
    BY <1>1, <2>1, <2>3 DEF Call, u
  <2>10. loop' \in Call
    <3> DEFINE n == i + 1
               l == [loop EXCEPT !.at = "rehash", !.i = n]
    <3>0. n \in Nat
      BY <1>1 DEF Call
    <3> HIDE DEF n
    <3>1. l \in Call
      BY <1>1, <3>0 DEF Call
    <3>2. loop' = [l EXCEPT !.table = u]
      BY <1>1, <2>1, <2>3 DEF u, n
    <3> HIDE DEF l
    <3> QED
      BY <2>8, <3>1, <3>2 DEF Call
  <2>11. i + 1 \in 0 .. capacity
    BY <1>1, <1>2 DEF Keyed, Filled, Slots
  <2> QED
    BY <1>1, <2>3, <2>5, <2>9, <2>10, <2>11, RehashingKept
<1> QED
  BY <1>3, <1>4

\* The end of dict_insert is an insertion into the table it has prepared.
LEMMA InsertionStep ==
  ASSUME LoopInv, ~crashed, Insert \/ Update \/ ProbeFaults
  PROVE  [Next]_vars /\ LoopInv'
<1> DEFINE d == loop.capacity
           t == loop.table
           k == loop.key
           v == loop.value
<1>1. /\ loop.at = "probe" /\ loop \in Call /\ Probing /\ OnPath /\ IInv
      /\ ProbeKey = k /\ k \in Keys /\ k # NULL /\ v \in Values /\ capacity # 0
      /\ t \in PreparedTables /\ d = PreparedCapacity
      /\ d \in Nat \ {0} /\ t \in [Slots(d) -> Entry]
  BY DEF Insert, Update, ProbeFaults, LoopInv, Probing, Inserting, OnPath, ProbeKey
<1>2. PICK j \in Slots(d) : loop.index = SlotAt(d, k, j) /\ Reaches(t, d, k, j)
  BY <1>1 DEF OnPath, Passed
<1>3. EntryHere = t[SlotAt(d, k, j)]
  BY <1>2 DEF EntryHere
<1>4. ASSUME DictInsert(k, v), Return
      PROVE  Next /\ LoopInv'
  BY <1>1, <1>4, ReturnInv DEF Next
<1> HIDE DEF d, t, k, v
<1>5. CASE Insert
  <2>1. ProbeEnds /\ Return /\ capacity' = d
    BY <1>5 DEF Insert, d
  <2>2. /\ ~Full /\ ~Found(t, d, k) /\ ~Faults(t, d, k)
        /\ \E m \in Slots(d) : Target = SlotAt(d, k, m) /\ FreeAt(t, d, k, m)
    BY <1>1, <2>1, ProbeFindsSlot DEF d, t
  <2>3. \/ /\ entries' = [t EXCEPT ![Target] = FilledEntry(k, v)]
           /\ size' = size + 1
           /\ Reply("insert", 0)
        \/ /\ "entry" \in FailingAllocs
           /\ entries' = [t EXCEPT ![Target] = FilledEntry(NULL, NULL)]
           /\ Reply("insert", -1)
           /\ UNCHANGED size
    BY <1>5, <2>2 DEF Insert, d, t, k, v
  <2>4. InsertNew(t, d, k, v)
    BY <2>1, <2>2, <2>3 DEF InsertNew
  <2>5. DictInsert(k, v)
    BY <1>1, <2>4 DEF DictInsert
  <2> QED
    BY <1>4, <2>1, <2>5
<1>6. CASE Update
  <2>1. HasKey(t[SlotAt(d, k, j)], k) /\ Return /\ capacity' = d /\ size' = size
    BY <1>3, <1>6 DEF Update, d, k
  <2>2. Stops(t, d, k, j)
    BY <2>1 DEF Stops
  <2>3. Found(t, d, k) /\ FoundSlot(t, d, k) = loop.index
    BY <1>1, <1>2, <2>1, <2>2, ProbeStops
  <2>4. \/ entries' = [t EXCEPT ![loop.index].value = v] /\ Reply("insert", 0)
        \/ /\ "entry" \in FailingAllocs
           /\ entries' = [t EXCEPT ![loop.index].value = NULL]
           /\ Reply("insert", -1)
    BY <1>6 DEF Update, t, v
  <2>5. InsertUpdate(t, d, k, v)
    BY <2>1, <2>3, <2>4 DEF InsertUpdate
  <2>6. DictInsert(k, v)
    BY <1>1, <2>5 DEF DictInsert
  <2> QED
    BY <1>4, <2>1, <2>6
<1>7. CASE ProbeFaults
  <2>1. HasKey(t[SlotAt(d, k, j)], NULL)
    BY <1>3, <1>7 DEF ProbeFaults
  <2>2. Faults(t, d, k)
    BY <1>2, <2>1 DEF Faults
  <2>3. CASE NeedsResize(entries, capacity)
    <3>1. Complete(t)
      <4>1. capacity \in 1 .. (SizeModulus - 1)
        BY <1>1 DEF IInv, TableInv
      <4>2. ResizeFits(capacity) /\ Complete(entries) /\ t \in Rehashed(entries, NewCapacity(capacity))
        BY <1>1, <2>3 DEF PreparedTables
      <4> QED
        BY <1>1, <4>1, <4>2, ResizeDoubles, RehashTableInv DEF IInv
    <3>2. SlotAt(d, k, j) \in Slots(d)
      BY <1>1, SlotAtType DEF Slots
    <3> QED
      BY <1>1, <2>1, <3>1, <3>2 DEF Complete, Filled, HasKey
  <2>4. CASE ~NeedsResize(entries, capacity)
    <3>1. Faults(entries, capacity, k)
      BY <1>1, <2>2, <2>4 DEF PreparedTables, PreparedCapacity
    <3>2. Crash
      BY <1>1, <1>7, <3>1 DEF Crash, ProbeFaults, Fault, Unchanged
    <3>3. Next
      BY <3>2 DEF Next
    <3> QED
      BY <1>7, <3>3, ReturnInv DEF ProbeFaults, Fault
  <2> QED
    BY <2>3, <2>4
<1> QED
  BY <1>5, <1>6, <1>7

\* The calls: those that probe begin, the others are StrDictionary's.
LEMMA CallStep ==
  ASSUME LoopInv, ~crashed, loop.at = "idle",
         \/ \E op \in {"contains", "remove"}, k \in Keys : CallFind(op, k, NULL)
         \/ \E k \in Keys, fallback \in Values \cup {NULL} : CallFind("get", k, fallback)
         \/ \E k \in Keys, v \in Values : CallInsert(k, v)
         \/ ResizeFails
         \/ Others
  PROVE  [Next]_vars /\ LoopInv'
<1>1. IInv /\ loop \in Call /\ capacity \in 0 .. (SizeModulus - 1) /\ entries \in [Slots(capacity) -> Entry]
  BY DEF LoopInv, IInv, TableInv
<1>2. ASSUME NEW op \in {"contains", "get", "remove"}, NEW k \in Keys,
             NEW fallback \in Values \cup {NULL}, CallFind(op, k, fallback)
      PROVE  [Next]_vars /\ LoopInv'
  <2> DEFINE c == capacity
             h == Hash[k] % c
  <2>0. c \in Nat \ {0} /\ UNCHANGED vars
    <3>1. c # 0 /\ UNCHANGED vars
      BY <1>2 DEF CallFind
    <3> QED
      BY <1>1, <3>1
  <2>1. /\ c \in Nat \ {0} /\ (op = "remove" => size # 0) /\ UNCHANGED vars
        /\ loop' = [NoCall EXCEPT !.at = "find", !.op = op, !.key = k, !.value = fallback,
                                  !.table = entries, !.capacity = c, !.index = h]
    BY <1>2, <2>0 DEF CallFind
  <2>2. PICK j \in Slots(c) : h = SlotAt(c, k, j) /\ Passed(entries, c, k, j, -1)
    BY <2>1, ProbeBegins
  <2>3. h \in Nat
    BY <2>1, <2>2, SlotAtType DEF Slots
  <2> HIDE DEF h
  <2>4. loop' = [at |-> "find", op |-> op, key |-> k, value |-> fallback, table |-> entries,
                 capacity |-> c, i |-> 0, index |-> h, first_deleted |-> -1]
    BY <2>1 DEF NoCall
  <2>5. entries \in Tables
    BY <1>1, <2>1, TableIsInTables
  <2>6. loop' \in Call
    BY <2>1, <2>3, <2>4, <2>5 DEF Call
  <2>7. Finding'
    BY <2>1, <2>2, <2>4 DEF Finding, Passed, vars
  <2> QED
    BY <2>1, <2>4, <2>6, <2>7, KeepsIInv DEF LoopInv
<1>3. ASSUME NEW k \in Keys, NEW v \in Values, CallInsert(k, v)
      PROVE  [Next]_vars /\ LoopInv'
  <2> DEFINE c == capacity
             h == Hash[k] % c
             d == NewCapacity(c)
  <2>1. c \in 1 .. (SizeModulus - 1) /\ c \in Nat \ {0} /\ UNCHANGED vars
    <3>1. c # 0 /\ UNCHANGED vars
      BY <1>3 DEF CallInsert
    <3> QED
      BY <1>1, <3>1
  <2>2. CASE /\ ~NeedsResize(entries, c)
             /\ loop' = [NoCall EXCEPT !.at = "probe", !.key = k, !.value = v, !.table = entries,
                                       !.capacity = c, !.index = h]
    <3>1. PICK j \in Slots(c) : h = SlotAt(c, k, j) /\ Passed(entries, c, k, j, -1)
      BY <2>1, ProbeBegins
    <3>2. h \in Nat
      BY <2>1, <3>1, SlotAtType DEF Slots
    <3> HIDE DEF h
    <3>3. loop' = [at |-> "probe", op |-> "none", key |-> k, value |-> v, table |-> entries,
                   capacity |-> c, i |-> 0, index |-> h, first_deleted |-> -1]
      BY <2>2 DEF NoCall
    <3>4. entries \in Tables
      BY <1>1, <2>1, TableIsInTables
    <3>5. loop' \in Call
      BY <2>1, <3>2, <3>3, <3>4 DEF Call
    <3>6. entries \in PreparedTables /\ c = PreparedCapacity
      BY <2>2 DEF PreparedTables, PreparedCapacity
    <3>7. Filled(entries) # Slots(c)
      <4>1. Cardinality(Slots(c)) = c /\ Cardinality(Occupied(entries)) \in Nat
            /\ Filled(entries) \subseteq Occupied(entries) /\ Occupied(entries) \subseteq Slots(c)
        BY <1>1, <2>1, SlotSets
      <4>2. Cardinality(Occupied(entries)) # c
        BY <2>1, <2>2, <4>1 DEF NeedsResize
      <4> QED
        BY <4>1, <4>2
    <3>8. ProbeKey' = k
      BY <3>3 DEF ProbeKey
    <3>9. OnPath'
      BY <1>1, <2>1, <3>1, <3>3, <3>7, <3>8 DEF OnPath
    <3>10. PreparedTables' = PreparedTables /\ PreparedCapacity' = PreparedCapacity /\ capacity' = capacity
      BY <2>1 DEF PreparedTables, PreparedCapacity, vars
    <3>11. Probing'
      BY <2>1, <3>3, <3>6, <3>9, <3>10 DEF Probing, Inserting
    <3> QED
      BY <2>1, <3>3, <3>5, <3>11, KeepsIInv DEF LoopInv
  <2>3. CASE /\ NeedsResize(entries, c) /\ ResizeFits(c)
             /\ loop' = [NoCall EXCEPT !.at = "rehash", !.key = k, !.value = v,
                                       !.table = NewTable(d), !.capacity = d]
    <3>1. d \in Nat \ {0}
      BY <2>1, <2>3, ResizeDoubles
    <3> HIDE DEF d
    <3>2. loop' = [at |-> "rehash", op |-> "none", key |-> k, value |-> v, table |-> NewTable(d),
                   capacity |-> d, i |-> 0, index |-> 0, first_deleted |-> -1]
      BY <2>3 DEF NoCall
    <3>3. NewTable(d) \in [Slots(d) -> Entry]
      BY DEF NewTable, EmptyEntry, Entry
    <3>4. NewTable(d) \in Tables
      BY <3>1, <3>3, TableIsInTables
    <3>5. loop' \in Call
      BY <3>1, <3>2, <3>4 DEF Call
    <3>6. \E pos \in [FilledBelow(entries, 0) -> Slots(d)] : Places(pos, NewTable(d), entries, d, 0)
      BY <1>1, <2>1, <3>1, PlacesNone
    <3>7. Rehashing'
      <4>1. entries' = entries /\ capacity' = capacity /\ d = NewCapacity(capacity)
        BY <2>1 DEF vars, d
      <4>3. /\ loop'.i = 0 /\ loop'.table = NewTable(d) /\ loop'.capacity = d
            /\ loop'.key = k /\ loop'.value = v
        BY <3>2
      <4>4. Inserting'
        BY <2>1, <4>1, <4>3 DEF Inserting
      <4>5. \E pos \in [FilledBelow(entries, loop'.i) -> Slots(loop'.capacity)] :
              Places(pos, loop'.table, entries, loop'.capacity, loop'.i)
        BY <3>6, <4>3
      <4>2. 0 \in 0 .. capacity
        BY <2>1
      <4> QED
        BY <2>3, <4>1, <4>2, <4>3, <4>4, <4>5
          DEF Rehashing, NeedsResize, ResizeFits, NewCapacity
    <3> QED
      BY <2>1, <3>2, <3>5, <3>7, KeepsIInv DEF LoopInv
  <2> QED
    BY <1>3, <2>2, <2>3 DEF CallInsert
<1>4. ASSUME Next, UNCHANGED loop
      PROVE  LoopInv'
  <2>1. IInv'
    BY <1>1, <1>4, NextIInv
  <2> QED
    BY <1>4, <2>1 DEF LoopInv
<1>5. CASE ResizeFails
  <2>1. InsertRefused
    BY <1>5 DEF ResizeFails, InsertFails, InsertRefused, Unchanged
  <2>2. Next
    BY <2>1 DEF Next
  <2> QED
    BY <1>5, <2>2, ReturnInv DEF ResizeFails, InsertFails
<1>6. CASE Others
  <2>1. Next /\ UNCHANGED loop
    <3>1. ASSUME NEW request \in Requests, DictNew(request)
          PROVE  Next
      BY <3>1 DEF Next
    <3>2. ASSUME NEW k \in Keys, RemoveRefused(k) \/ DictContains(k)
          PROVE  Next
      BY <3>2 DEF Next
    <3>3. ASSUME NEW k \in Keys, NEW fallback \in Values \cup {NULL}, DictGet(k, fallback)
          PROVE  Next
      BY <3>3 DEF Next
    <3>4. ASSUME DictNewFails \/ InsertRefused \/ DictSize \/ DictGetall
          PROVE  Next
      BY <3>4 DEF Next
    <3>5. ASSUME GetallRefused \/ DictFree \/ Crash
          PROVE  Next
      BY <3>5 DEF Next
    <3> QED
      BY <1>6, <3>1, <3>2, <3>3, <3>4, <3>5 DEF Others
  <2> QED
    BY <1>4, <2>1
<1> QED
  BY <1>2, <1>3, <1>5, <1>6

LEMMA LoopNextInv == LoopInv /\ [LoopNext]_loopVars => [Next]_vars /\ LoopInv'
<1> SUFFICES ASSUME LoopInv, [LoopNext]_loopVars
             PROVE  [Next]_vars /\ LoopInv'
  OBVIOUS
<1>1. CASE UNCHANGED loopVars
  <2>1. UNCHANGED vars /\ UNCHANGED loop
    BY <1>1 DEF loopVars
  <2> QED
    BY <2>1, KeepsIInv DEF LoopInv, Finding, Rehashing, Placing, Probing, Inserting, OnPath,
         ProbeKey, PreparedTables, PreparedCapacity, vars
<1>2. CASE LoopNext
  <2>1. ~crashed
    BY <1>2 DEF LoopNext
  <2>2. CASE Turn
    BY <2>1, <2>2, FindStep, RehashStep, ProbeGoesOnStep, PlaceStep, InsertionStep DEF Turn
  <2>3. CASE ~Turn
    <3>1. \/ \E op \in {"contains", "remove"}, k \in Keys : CallFind(op, k, NULL)
          \/ \E k \in Keys, fallback \in Values \cup {NULL} : CallFind("get", k, fallback)
          \/ \E k \in Keys, v \in Values : CallInsert(k, v)
          \/ ResizeFails
          \/ Others
      BY <1>2, <2>3 DEF LoopNext
    <3>2. loop.at = "idle"
      BY <3>1 DEF CallFind, CallInsert, ResizeFails, Others
    <3> QED
      BY <2>1, <3>1, <3>2, CallStep
  <2> QED
    BY <2>2, <2>3
<1> QED
  BY <1>1, <1>2

LEMMA LoopInitInv == LoopInit => LoopInv
BY InitIInv, NoCallInv DEF LoopInit, LoopInv

\* However the loops turn: each call has at one step the effect and the result
\* that StrDictionary gives it, and no effect before.
THEOREM LoopsTheorem == LoopSpec => LoopsImplementCalls
<1>1. LoopSpec => []LoopInv
  BY LoopInitInv, LoopNextInv, PTL DEF LoopSpec
<1>2. LoopInit => Init
  BY DEF LoopInit
<1> QED
  BY <1>1, <1>2, LoopNextInv, PTL DEF LoopSpec, LoopsImplementCalls, Spec

\* resize does not call itself: its insertions never find the table they fill in
\* need of a resize.
THEOREM NoNestedResizeTheorem == LoopSpec => []NoNestedResize
<1>1. LoopSpec => []LoopInv
  BY LoopInitInv, LoopNextInv, PTL DEF LoopSpec
<1>2. LoopInv => NoNestedResize
  BY RehashTable DEF LoopInv, NoNestedResize
<1> QED
  BY <1>1, <1>2, PTL

===============================================================================
