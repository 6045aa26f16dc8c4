-------------------------- MODULE StrDictionaryLoops --------------------------
(***************************************************************************)
(* The loops of src/dictionary/str_dictionary.c, one iteration a step: the *)
(* probe of find_get_index, the probe of dict_insert, and resize with the  *)
(* insertions it makes.  StrDictionary does each call in one step; here a  *)
(* call that probes begins, turns its loop, and returns.                   *)
(*                                                                         *)
(* entries and capacity are the dictionary as it was when the call began;  *)
(* the call works on the table in `loop', which a resize replaces, and     *)
(* writes it back when it returns.                                         *)
(***************************************************************************)
EXTENDS StrDictionary

VARIABLE loop  \* the call in progress, its arguments and local variables

loopVars == <<vars, loop>>

\* `at' is "find" in find_get_index, "rehash" in the loop of resize, "place" in
\* the dict_insert it calls for old slot i, "probe" in dict_insert itself.
NoCall ==
  [at |-> "idle", op |-> "none", key |-> NULL, value |-> NULL, table |-> NewTable(0),
   capacity |-> 0, i |-> 0, index |-> 0, first_deleted |-> -1]

LoopInit == Init /\ loop = NoCall

HashIndex(k) == Hash[k] % loop.capacity

\* The slot after this one, and whether it ends the round.
NextIndex == (loop.index + 1) % loop.capacity

EntryHere == loop.table[loop.index]

Return == loop' = NoCall
Unchanged == UNCHANGED <<entries, capacity, size>>

\* strcmp with a key that is NULL.
Fault ==
  /\ crashed' = TRUE
  /\ Return
  /\ Unchanged /\ UNCHANGED ret

------------------------------------------------------------------------------
(* dict_contains, dict_get_fb and dict_remove.                              *)

CallFind(op, k, fallback) ==
  /\ loop.at = "idle" /\ capacity # 0
  /\ op = "remove" => size # 0
  /\ loop' = [NoCall EXCEPT !.at = "find", !.op = op, !.key = k, !.value = fallback,
                            !.table = entries, !.capacity = capacity,
                            !.index = Hash[k] % capacity]
  /\ UNCHANGED vars

\* What the caller of find_get_index does with the result.
FindReturns(index) ==
  /\ Return
  /\ \/ /\ loop.op = "contains"
        /\ Reply("contains", index # -1)
        /\ Unchanged
     \/ /\ loop.op = "get"
        /\ Reply("get", IF index = -1 \/ entries[index].value = NULL
                        THEN loop.value ELSE entries[index].value)
        /\ Unchanged
     \/ /\ loop.op = "remove" /\ index = -1
        /\ Reply("remove", -1)
        /\ Unchanged
     \/ /\ loop.op = "remove" /\ index # -1
        /\ entries' = [entries EXCEPT ![index] = DeletedEntry]
        /\ size' = size - 1
        /\ Reply("remove", 0)
        /\ UNCHANGED capacity

\* Mutant: find_get_index does not stop after one round.
FindGoesOn_ForEver ==
  /\ EntryHere.state # EMPTY
  /\ ~HasKey(EntryHere, NULL) /\ ~HasKey(EntryHere, loop.key)
  /\ loop' = [loop EXCEPT !.index = NextIndex]
  /\ UNCHANGED vars

FindGoesOn ==
  /\ EntryHere.state # EMPTY
  /\ ~HasKey(EntryHere, NULL) /\ ~HasKey(EntryHere, loop.key)
  /\ IF NextIndex # HashIndex(loop.key)
     THEN loop' = [loop EXCEPT !.index = NextIndex] /\ UNCHANGED vars
     ELSE FindReturns(-1)

FindTurn ==
  /\ loop.at = "find"
  /\ \/ EntryHere.state = EMPTY /\ FindReturns(-1)
     \/ HasKey(EntryHere, NULL) /\ Fault
     \/ HasKey(EntryHere, loop.key) /\ FindReturns(loop.index)
     \/ FindGoesOn

------------------------------------------------------------------------------
(* dict_insert.                                                             *)

\* After the load-factor check: the probe begins, or a resize.
CallInsert(k, v) ==
  /\ loop.at = "idle" /\ capacity # 0
  /\ \/ /\ ~NeedsResize(entries, capacity)
        /\ loop' = [NoCall EXCEPT !.at = "probe", !.key = k, !.value = v, !.table = entries,
                                  !.capacity = capacity, !.index = Hash[k] % capacity]
     \/ /\ NeedsResize(entries, capacity) /\ ResizeFits(capacity)
        /\ loop' = [NoCall EXCEPT !.at = "rehash", !.key = k, !.value = v,
                                  !.table = NewTable(NewCapacity(capacity)),
                                  !.capacity = NewCapacity(capacity)]
  /\ UNCHANGED vars

InsertFails == Return /\ Reply("insert", -1) /\ Unchanged

\* The size wraps, or dict_new fails.
ResizeFails ==
  /\ loop.at = "idle" /\ capacity # 0 /\ NeedsResize(entries, capacity)
  /\ ~ResizeFits(capacity) \/ "resize" \in FailingAllocs
  /\ InsertFails

\* The key whose slot dict_insert looks for.
ProbeKey == IF loop.at = "place" THEN entries[loop.i].key ELSE loop.key

FirstDeleted ==
  IF EntryHere.state = DELETED /\ loop.first_deleted = -1 THEN loop.index ELSE loop.first_deleted

\* The slot is no reason to stop.
ProbePasses ==
  EntryHere.state # EMPTY /\ ~HasKey(EntryHere, NULL) /\ ~HasKey(EntryHere, ProbeKey)

ProbeGoesOn ==
  /\ loop.at \in {"place", "probe"}
  /\ ProbePasses /\ NextIndex # HashIndex(ProbeKey)
  /\ loop' = [loop EXCEPT !.index = NextIndex, !.first_deleted = FirstDeleted]
  /\ UNCHANGED vars

\* Mutant: the first tombstone ends the probe.
ProbeEnds_AtTombstone ==
  EntryHere.state # FILLED \/ (ProbePasses /\ NextIndex = HashIndex(ProbeKey))

\* The loop is left by its break, or after one round...
ProbeEnds == EntryHere.state = EMPTY \/ (ProbePasses /\ NextIndex = HashIndex(ProbeKey))

IndexAfter ==
  IF EntryHere.state # EMPTY THEN NextIndex
  ELSE IF loop.first_deleted # -1 THEN loop.first_deleted ELSE loop.index

Full == loop.table[IndexAfter].state = FILLED /\ FirstDeleted = -1

\* ... and this is the slot that is used then.
Target ==
  IF FirstDeleted # -1 /\ loop.table[IndexAfter].state # EMPTY THEN FirstDeleted ELSE IndexAfter

\* dict_insert, called by resize, copies an entry into the new table.
Place ==
  /\ loop.at = "place" /\ ProbeEnds
  /\ IF Full
     THEN InsertFails
     ELSE /\ loop' = [loop EXCEPT !.at = "rehash", !.i = @ + 1,
                                  !.table = [@ EXCEPT ![Target] = entries[loop.i]]]
          /\ UNCHANGED vars

PlaceFails == loop.at = "place" /\ ProbeEnds /\ "resize" \in FailingAllocs /\ InsertFails

\* Mutant: the entry is counted when its slot is marked, before the mallocs.
Insert_CountedEarly ==
  /\ loop.at = "probe" /\ ProbeEnds
  /\ Return
  /\ capacity' = loop.capacity
  /\ \E e \in {FilledEntry(loop.key, loop.value), FilledEntry(NULL, NULL)} :
       entries' = [loop.table EXCEPT ![Target] = e]
  /\ size' = size + 1
  /\ Reply("insert", 0)

\* dict_insert ends: the new entry is written, or one of its mallocs fails.
Insert ==
  /\ loop.at = "probe" /\ ProbeEnds
  /\ Return
  /\ capacity' = loop.capacity
  /\ IF Full
     THEN Reply("insert", -1) /\ entries' = loop.table /\ UNCHANGED size
     ELSE \/ /\ entries' = [loop.table EXCEPT ![Target] = FilledEntry(loop.key, loop.value)]
             /\ size' = size + 1
             /\ Reply("insert", 0)
          \/ /\ "entry" \in FailingAllocs
             /\ entries' = [loop.table EXCEPT ![Target] = FilledEntry(NULL, NULL)]
             /\ Reply("insert", -1)
             /\ UNCHANGED size

Update ==
  /\ loop.at = "probe" /\ HasKey(EntryHere, loop.key)
  /\ Return
  /\ capacity' = loop.capacity
  /\ \/ /\ entries' = [loop.table EXCEPT ![loop.index].value = loop.value]
        /\ Reply("insert", 0)
     \/ /\ "entry" \in FailingAllocs
        /\ entries' = [loop.table EXCEPT ![loop.index].value = NULL]
        /\ Reply("insert", -1)
  /\ UNCHANGED size

ProbeFaults == loop.at = "probe" /\ HasKey(EntryHere, NULL) /\ Fault

------------------------------------------------------------------------------
(* resize: each old entry is given to dict_insert with the new table.       *)

RehashSkips ==
  /\ loop.at = "rehash" /\ loop.i \in DOMAIN entries
  /\ entries[loop.i].state # FILLED
  /\ loop' = [loop EXCEPT !.i = @ + 1]
  /\ UNCHANGED vars

\* dict_insert refuses an entry that has lost its key or value.
RehashFails ==
  /\ loop.at = "rehash" /\ loop.i \in Filled(entries)
  /\ entries[loop.i].key = NULL \/ entries[loop.i].value = NULL
  /\ InsertFails

\* dict_insert checks the load factor of the new table too: see NoNestedResize.
RehashPlaces ==
  /\ loop.at = "rehash" /\ loop.i \in Keyed(entries)
  /\ entries[loop.i].value # NULL
  /\ ~NeedsResize(loop.table, loop.capacity)
  /\ loop' = [loop EXCEPT !.at = "place", !.index = HashIndex(entries[loop.i].key),
                          !.first_deleted = -1]
  /\ UNCHANGED vars

\* Mutant: the last old slot is forgotten.
RehashEnds_Early ==
  /\ loop.at = "rehash" /\ loop.i = capacity - 1
  /\ loop' = [loop EXCEPT !.at = "probe", !.i = 0, !.index = HashIndex(loop.key),
                          !.first_deleted = -1]
  /\ UNCHANGED vars

RehashEnds ==
  /\ loop.at = "rehash" /\ loop.i = capacity
  /\ loop' = [loop EXCEPT !.at = "probe", !.i = 0, !.index = HashIndex(loop.key),
                          !.first_deleted = -1]
  /\ UNCHANGED vars

------------------------------------------------------------------------------
\* Calls that do not probe.
Others ==
  /\ loop.at = "idle"
  /\ \/ \E request \in Requests : DictNew(request)
     \/ DictNewFails
     \/ capacity = 0 /\ InsertRefused
     \/ \E k \in Keys : size = 0 /\ RemoveRefused(k)
     \/ \E k \in Keys, fallback \in Values \cup {NULL} : capacity = 0 /\ DictGet(k, fallback)
     \/ \E k \in Keys : capacity = 0 /\ DictContains(k)
     \/ DictSize
     \/ DictGetall
     \/ GetallRefused
     \/ DictFree
     \/ size # 0 /\ ~Complete(entries) /\ Crash
  /\ UNCHANGED loop

Turn ==
  \/ FindTurn \/ ProbeGoesOn \/ Place \/ PlaceFails \/ Insert \/ Update \/ ProbeFaults
  \/ RehashSkips \/ RehashFails \/ RehashPlaces \/ RehashEnds

LoopNext ==
  /\ ~crashed
  /\ \/ \E op \in {"contains", "remove"}, k \in Keys : CallFind(op, k, NULL)
     \/ \E k \in Keys, fallback \in Values \cup {NULL} : CallFind("get", k, fallback)
     \/ \E k \in Keys, v \in Values : CallInsert(k, v)
     \/ ResizeFails
     \/ Others
     \/ Turn

LoopSpec == LoopInit /\ [][LoopNext]_loopVars

\* The thread that calls the dictionary runs.
LoopFairSpec == LoopSpec /\ WF_loopVars(~crashed /\ Turn)

------------------------------------------------------------------------------
(* Properties.                                                              *)

\* The loops do what StrDictionary says a call does: wrap-around, first_deleted,
\* the entries inserted one by one into the doubled table, and the ends of all
\* loops included, every call has its effect and its result at one step.
LoopsImplementCalls == Spec

\* The insertions that resize makes check the load factor of the new table, and
\* none of them finds that it has to be resized in turn.
NoNestedResize ==
  loop.at \in {"rehash", "place"} => ~NeedsResize(loop.table, loop.capacity)

\* Every call returns: each loop ends, also in a table without an EMPTY slot, and
\* none of the branches a resize leaves out is ever needed.
CallsEnd == loop.at # "idle" ~> loop.at = "idle"
===============================================================================
