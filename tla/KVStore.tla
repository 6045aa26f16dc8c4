------------------------------- MODULE KVStore -------------------------------
(***************************************************************************)
(* What a str_dictionary promises its callers: a map from keys to values.  *)
(* No slots, no hashes, no tombstones; StrDictionary implements it.        *)
(***************************************************************************)
EXTENDS Integers, FiniteSets

CONSTANTS
  Keys,        \* strings used as keys
  Values,      \* strings used as values
  NULL,        \* the NULL pointer; no key or value is NULL
  SizeModulus  \* 2 ^ (width of size_t)

VARIABLES
  store,       \* the value of each key, NULL where the key is absent
  live,        \* there is a dictionary (the caller's pointer is not NULL)
  ret          \* <<operation, result>> of the last call

vars == <<store, live, ret>>

NoEntries == [k \in Keys |-> NULL]

Present == {k \in Keys : store[k] # NULL}

Init ==
  /\ store = NoEntries
  /\ live = FALSE
  /\ ret = <<"free", 0>>

New ==
  /\ ~live
  /\ store' = NoEntries
  /\ live' \in BOOLEAN
  /\ ret' = <<"new", live'>>

Insert(k, v) ==
  /\ live
  /\ store' = [store EXCEPT ![k] = v]
  /\ ret' = <<"insert", 0>>
  /\ UNCHANGED live

\* A failed insertion leaves every entry as it was.
InsertError ==
  /\ ret' = <<"insert", -1>>
  /\ UNCHANGED <<store, live>>

Remove(k) ==
  /\ store[k] # NULL
  /\ store' = [store EXCEPT ![k] = NULL]
  /\ ret' = <<"remove", 0>>
  /\ UNCHANGED live

RemoveError(k) ==
  /\ store[k] = NULL
  /\ ret' = <<"remove", -1>>
  /\ UNCHANGED <<store, live>>

Get(k, fallback) ==
  /\ ret' = <<"get", IF store[k] = NULL THEN fallback ELSE store[k]>>
  /\ UNCHANGED <<store, live>>

Contains(k) ==
  /\ ret' = <<"contains", store[k] # NULL>>
  /\ UNCHANGED <<store, live>>

Size ==
  /\ ret' = <<"size", IF live THEN Cardinality(Present) ELSE SizeModulus - 1>>
  /\ UNCHANGED <<store, live>>

GetAll ==
  /\ \/ live /\ ret' = <<"getall", {<<k, store[k]>> : k \in Present}>>
     \/ ret' = <<"getall", NULL>>
  /\ UNCHANGED <<store, live>>

Free ==
  /\ store' = NoEntries
  /\ live' = FALSE
  /\ ret' = <<"free", IF live THEN 0 ELSE -1>>

Next ==
  \/ New
  \/ InsertError
  \/ Size
  \/ GetAll
  \/ Free
  \/ \E k \in Keys :
       \/ \E v \in Values : Insert(k, v)
       \/ Remove(k)
       \/ RemoveError(k)
       \/ \E fallback \in Values \cup {NULL} : Get(k, fallback)
       \/ Contains(k)

Spec == Init /\ [][Next]_vars
==============================================================================
