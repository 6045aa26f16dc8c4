------------------------------ MODULE Handlers ------------------------------
(***************************************************************************)
(* The route functions of src/ceriousdb/main.c that requests reach, as the *)
(* worker threads run them: each works on the one dictionary through       *)
(* cache.c, and nothing locks it.                                          *)
(*                                                                         *)
(* The server never fills in a request's key and value, so both are "" and *)
(* the dictionary only ever uses the slot of "", far below its load        *)
(* factor.  A step is one access of that slot, of dict->size or of the     *)
(* heap, in the order of the C statements.  malloc succeeds here; what its *)
(* failures do is in StrDictionary.  HEAD does what GET does.              *)
(***************************************************************************)
EXTENDS Integers

CONSTANTS
  Workers,    \* threads that serve one request after the other
  Blocks,     \* addresses malloc returns
  NULL,       \* the NULL pointer
  SizeModulus \* 2^w, where w is the width of size_t

ASSUME HandlersAssumption ==
  /\ NULL \notin Blocks
  /\ SizeModulus \in Nat \ {0, 1}

VARIABLES
  slot,      \* the entry of key "": its state and its two pointers
  heap,      \* each block: "free", "raw" from malloc, or a "string"
  size,      \* dict->size
  worker,    \* each worker: its request, where it is, its locals, its answer
  undefined, \* a step had undefined behaviour: the program means nothing more
  raced      \* history: two requests, not both GETs, were past their probe together

vars == <<slot, heap, size, worker, undefined, raced>>

Requests == {"GET", "PUT", "DELETE"}

Pointers == Blocks \cup {NULL}

\* The statement a worker is at, "idle" between two requests.
Places ==
  {"idle", "size", "state", "key", "compare", "found", "respond", "check", "mark",
   "alloc key", "write key", "alloc value", "write value", "tombstone",
   "old key", "free key", "clear key", "old value", "free value", "clear value",
   "load size", "store size"}

Locals ==
  [pc : Places, request : Requests, new : BOOLEAN, ptr : Pointers, count : 0 .. SizeModulus - 1,
   status : {0, 200, 404, 500}]

\* A worker whose locals are as at the start of a request.
Fresh(request, pc) ==
  [pc |-> pc, request |-> request, new |-> FALSE, ptr |-> NULL, count |-> 0, status |-> 0]

Init ==
  /\ slot = [state |-> "EMPTY", key |-> NULL, value |-> NULL]
  /\ heap = [b \in Blocks |-> "free"]
  /\ size = 0
  /\ worker = [w \in Workers |-> Fresh("GET", "idle")]
  /\ undefined = FALSE
  /\ raced = FALSE

------------------------------------------------------------------------------
At(w, pc) == worker[w].pc = pc

Goto(w, pc) == worker' = [worker EXCEPT ![w].pc = pc]

Load(w, ptr, pc) == worker' = [worker EXCEPT ![w].ptr = ptr, ![w].pc = pc]

\* respond(client, status, ...) and the end of the request and its locals.
Answer(w, status) ==
  worker' = [worker EXCEPT ![w] = [Fresh("GET", "idle") EXCEPT !.status = status]]

Undefined == undefined' = TRUE /\ UNCHANGED worker

\* The block at p is given a string, or freed; then A.
SetBlock(p, contents, A) ==
  IF heap[p] # "free"
  THEN A /\ heap' = [heap EXCEPT ![p] = contents] /\ UNCHANGED undefined
  ELSE Undefined /\ UNCHANGED heap

\* The string at p is read; then A.  NULL, a freed block and one without a
\* string yet cannot be read.
ReadString(p, A) ==
  IF p \in Blocks /\ heap[p] = "string" THEN A /\ UNCHANGED undefined ELSE Undefined

\* The requests that are past the probe of the slot, and those that change it.
Inside == {w \in Workers : worker[w].pc \notin {"idle", "size", "state"}}
Writers == {w \in Inside : worker[w].request # "GET"}

------------------------------------------------------------------------------
(* All requests: dict_remove looks at the size first, then                  *)
(* find_get_index or the probe of dict_insert.                              *)

Begin(w, request) ==
  /\ At(w, "idle")
  /\ worker' = [worker EXCEPT ![w] =
       Fresh(request, IF request = "DELETE" THEN "size" ELSE "state")]
  /\ UNCHANGED <<slot, heap, size, undefined, raced>>

CheckSize(w) ==
  /\ At(w, "size")
  /\ IF size = 0 THEN Answer(w, 404) ELSE Goto(w, "state")
  /\ UNCHANGED <<slot, heap, size, undefined, raced>>

\* Beyond a tombstone the next slot is EMPTY and ends the probe; dict_insert
\* then takes the tombstone without another look at its state.
ReadState(w) ==
  /\ At(w, "state")
  /\ IF slot.state = "FILLED" THEN Goto(w, "key")
     ELSE IF worker[w].request # "PUT" THEN Answer(w, 404)
     ELSE Goto(w, IF slot.state = "EMPTY" THEN "check" ELSE "mark")
  /\ raced' = (raced \/ /\ w \in Inside'
                        /\ \E other \in Inside : "GET" # worker[w].request
                                                  \/ "GET" # worker[other].request)
  /\ UNCHANGED <<slot, heap, size, undefined>>

LoadKey(w) ==
  /\ At(w, "key")
  /\ Load(w, slot.key, "compare")
  /\ UNCHANGED <<slot, heap, size, undefined, raced>>

\* strcmp(entry.key, key) == 0: every key is "".
CompareKey(w) ==
  /\ At(w, "compare")
  /\ ReadString(worker[w].ptr, Goto(w, CASE worker[w].request = "GET"    -> "found"
                                         [] worker[w].request = "PUT"    -> "old value"
                                         [] worker[w].request = "DELETE" -> "tombstone"))
  /\ UNCHANGED <<slot, heap, size, raced>>

------------------------------------------------------------------------------
(* GET: dict_get returns the pointer, respond takes the string's length.   *)
(* The value is "", and respond writes a body only when its length is not 0, *)
(* so this is the one time it reads the string.                             *)

LoadFound(w) ==
  /\ At(w, "found")
  /\ IF slot.value = NULL THEN Answer(w, 404) ELSE Load(w, slot.value, "respond")
  /\ UNCHANGED <<slot, heap, size, undefined, raced>>

RespondFound(w) ==
  /\ At(w, "respond")
  /\ ReadString(worker[w].ptr, Answer(w, 200))
  /\ UNCHANGED <<slot, heap, size, raced>>

------------------------------------------------------------------------------
(* PUT: a new entry is marked, gets its strings and is counted; the value   *)
(* of one that is there is freed and replaced.                              *)

\* "if dict is full (should not happen)": another PUT has filled the slot that
\* was EMPTY, which looks like a table without room.
CheckFull(w) ==
  /\ At(w, "check")
  /\ IF slot.state = "FILLED" THEN Answer(w, 500) ELSE Goto(w, "mark")
  /\ UNCHANGED <<slot, heap, size, undefined, raced>>

Mark(w) ==
  /\ At(w, "mark")
  /\ slot' = [slot EXCEPT !.state = "FILLED"]
  /\ worker' = [worker EXCEPT ![w].pc = "alloc key", ![w].new = TRUE]
  /\ UNCHANGED <<heap, size, undefined, raced>>

Malloc(b) == heap[b] = "free" /\ heap' = [heap EXCEPT ![b] = "raw"]

AllocKey(w) ==
  /\ At(w, "alloc key")
  /\ \E b \in Blocks : Malloc(b) /\ slot' = [slot EXCEPT !.key = b]
  /\ Goto(w, "write key")
  /\ UNCHANGED <<size, undefined, raced>>

AllocValue(w) ==
  /\ At(w, "alloc value")
  /\ \E b \in Blocks : Malloc(b) /\ slot' = [slot EXCEPT !.value = b]
  /\ Goto(w, "write value")
  /\ UNCHANGED <<size, undefined, raced>>

\* The string is copied to where the slot points now; when that is NULL the
\* insertion takes it for a failed malloc.
WriteString(w, p, A) ==
  IF p = NULL
  THEN Answer(w, 500) /\ UNCHANGED <<heap, undefined>>
  ELSE SetBlock(p, "string", A)

WriteKey(w) ==
  /\ At(w, "write key")
  /\ WriteString(w, slot.key, Goto(w, "alloc value"))
  /\ UNCHANGED <<slot, size, raced>>

\* Mutant: an update is counted like a new entry.
WriteValue_Counting(w) ==
  /\ At(w, "write value")
  /\ WriteString(w, slot.value, Goto(w, "load size"))
  /\ UNCHANGED <<slot, size, raced>>

WriteValue(w) ==
  /\ At(w, "write value")
  /\ WriteString(w, slot.value,
                 IF worker[w].new THEN Goto(w, "load size") ELSE Answer(w, 200))
  /\ UNCHANGED <<slot, size, raced>>

------------------------------------------------------------------------------
(* DELETE: the state changes first, then the key and the value are freed    *)
(* and their pointers cleared, then the entry is uncounted.                 *)

\* Mutant: the entry's state stays FILLED.
Tombstone_Skipped(w) ==
  /\ At(w, "tombstone")
  /\ Goto(w, "old key")
  /\ UNCHANGED <<slot, heap, size, undefined, raced>>

Tombstone(w) ==
  /\ At(w, "tombstone")
  /\ slot' = [slot EXCEPT !.state = "DELETED"]
  /\ Goto(w, "old key")
  /\ UNCHANGED <<heap, size, undefined, raced>>

LoadOld(w) ==
  /\ \/ At(w, "old key") /\ Load(w, slot.key, "free key")
     \/ At(w, "old value") /\ Load(w, slot.value, "free value")
  /\ UNCHANGED <<slot, heap, size, undefined, raced>>

\* free(p), where NULL is allowed; then A.
Free(p, A) ==
  IF p = NULL THEN A /\ UNCHANGED <<heap, undefined>> ELSE SetBlock(p, "free", A)

FreeKey(w) ==
  /\ At(w, "free key")
  /\ Free(worker[w].ptr, Goto(w, "clear key"))
  /\ UNCHANGED <<slot, size, raced>>

\* Mutant: the old value is not freed before it is replaced.
FreeValue_Dropping(w) ==
  /\ At(w, "free value")
  /\ Goto(w, IF worker[w].request = "PUT" THEN "alloc value" ELSE "clear value")
  /\ UNCHANGED <<slot, heap, size, undefined, raced>>

FreeValue(w) ==
  /\ At(w, "free value")
  /\ Free(worker[w].ptr,
          Goto(w, IF worker[w].request = "PUT" THEN "alloc value" ELSE "clear value"))
  /\ UNCHANGED <<slot, size, raced>>

ClearPointer(w) ==
  /\ \/ At(w, "clear key") /\ slot' = [slot EXCEPT !.key = NULL] /\ Goto(w, "old value")
     \/ At(w, "clear value") /\ slot' = [slot EXCEPT !.value = NULL] /\ Goto(w, "load size")
  /\ UNCHANGED <<heap, size, undefined, raced>>

------------------------------------------------------------------------------
(* size++ of PUT and size-- of DELETE: a load and a store, and a size_t     *)
(* wraps around.                                                            *)

Increment(n) == IF n + 1 = SizeModulus THEN 0 ELSE n + 1
Decrement(n) == IF n = 0 THEN SizeModulus - 1 ELSE n - 1

LoadSize(w) ==
  /\ At(w, "load size")
  /\ worker' = [worker EXCEPT ![w].count = size, ![w].pc = "store size"]
  /\ UNCHANGED <<slot, heap, size, undefined, raced>>

\* Mutant: a removed entry is not uncounted.
StoreSize_Keeping(w) ==
  /\ At(w, "store size")
  /\ size' = IF worker[w].request = "PUT" THEN Increment(worker[w].count) ELSE worker[w].count
  /\ Answer(w, 200)
  /\ UNCHANGED <<slot, heap, undefined, raced>>

StoreSize(w) ==
  /\ At(w, "store size")
  /\ size' = IF worker[w].request = "PUT" THEN Increment(worker[w].count)
                                          ELSE Decrement(worker[w].count)
  /\ Answer(w, 200)
  /\ UNCHANGED <<slot, heap, undefined, raced>>

------------------------------------------------------------------------------
Serve(w) ==
  \/ CheckSize(w) \/ ReadState(w) \/ LoadKey(w) \/ CompareKey(w)
  \/ LoadFound(w) \/ RespondFound(w)
  \/ CheckFull(w) \/ Mark(w) \/ AllocKey(w) \/ WriteKey(w) \/ AllocValue(w) \/ WriteValue(w)
  \/ Tombstone(w) \/ LoadOld(w) \/ FreeKey(w) \/ FreeValue(w) \/ ClearPointer(w)
  \/ LoadSize(w) \/ StoreSize(w)

Next ==
  /\ ~undefined
  /\ \E w \in Workers :
       \/ \E request \in Requests : Begin(w, request)
       \/ Serve(w)

Spec == Init /\ [][Next]_vars

------------------------------------------------------------------------------
(* Properties.                                                              *)

\* The dictionary holds at most the one entry and counts it once, until
\* requests have raced.
TypeOK ==
  /\ slot \in [state : {"EMPTY", "FILLED", "DELETED"}, key : Pointers, value : Pointers]
  /\ heap \in [Blocks -> {"free", "raw", "string"}]
  /\ size \in 0 .. SizeModulus - 1
  /\ worker \in [Workers -> Locals]
  /\ undefined \in BOOLEAN
  /\ raced \in BOOLEAN
  /\ ~raced => size <= 1

\* No worker reads, writes or frees a string that is not there, unless two
\* requests, one of them a PUT or DELETE, have been past their probe together.
MemorySafe == undefined => raced

\* "copy the value into a local buffer or only use it before calling
\* dict_insert afterwards": the value a GET got from the dictionary is still
\* there when respond reads it.
FoundValueValid ==
  \A w \in Workers : At(w, "respond") => heap[worker[w].ptr] = "string"

\* Until then the heap holds the strings of the entry and nothing else
\* whenever no PUT or DELETE is at work.
NoLeak ==
  ~raced /\ Writers = {} =>
    {b \in Blocks : heap[b] # "free"} = {slot.key, slot.value} \ {NULL}

\* Until then a GET that no PUT or DELETE is overlapping when it answers says
\* 200 exactly when the dictionary counts an entry: requests see the effect of
\* every PUT and DELETE answered before them.
AnswersFresh ==
  [][\A w \in Workers :
       /\ worker[w].request = "GET" /\ ~At(w, "idle") /\ At(w, "idle")'
       /\ ~raced /\ Writers = {}
       => (worker'[w].status = 200 <=> size = 1)]_vars
==============================================================================
