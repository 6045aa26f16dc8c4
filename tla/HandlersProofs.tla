--------------------------- MODULE HandlersProofs ---------------------------
(***************************************************************************)
(* The route functions for any number of workers and blocks and any width  *)
(* of size_t, with requests that overlap freely: what holds until two      *)
(* requests race in the dictionary, and the types, which always do.        *)
(***************************************************************************)
EXTENDS Handlers, TLAPS

\* What is at p.
BlockAt(p) == IF p = NULL THEN "none" ELSE heap[p]

\* The entry's state, what its key and its value point to, and the size.
Entry(states, key, value, count) ==
  /\ slot.state \in states
  /\ BlockAt(slot.key) = key
  /\ BlockAt(slot.value) = value
  /\ size = count

Present == Entry({"FILLED"}, "string", "string", 1)

Absent == Entry({"EMPTY", "DELETED"}, "none", "none", 0)

\* A GET that has seen the entry works while it stays.
GetInv(w) ==
  /\ Present
  /\ \/ At(w, "key") \/ At(w, "found")
     \/ At(w, "compare") /\ worker[w].ptr = slot.key
     \/ At(w, "respond") /\ worker[w].ptr = slot.value

UpdateInv(w) ==
  \/ At(w, "key") /\ Present
  \/ At(w, "compare") /\ Present /\ worker[w].ptr = slot.key
  \/ At(w, "old value") /\ Present
  \/ At(w, "free value") /\ Present /\ worker[w].ptr = slot.value
  \/ At(w, "alloc value") /\ Entry({"FILLED"}, "string", "free", 1)
  \/ At(w, "write value") /\ Entry({"FILLED"}, "string", "raw", 1)

InsertInv(w) ==
  \/ At(w, "alloc key") /\ Entry({"FILLED"}, "none", "none", 0)
  \/ At(w, "write key") /\ Entry({"FILLED"}, "raw", "none", 0)
  \/ At(w, "alloc value") /\ Entry({"FILLED"}, "string", "none", 0)
  \/ At(w, "write value") /\ Entry({"FILLED"}, "string", "raw", 0)
  \/ At(w, "load size") /\ Entry({"FILLED"}, "string", "string", 0)
  \/ At(w, "store size") /\ Entry({"FILLED"}, "string", "string", 0) /\ worker[w].count = 0

PutInv(w) ==
  \/ (At(w, "check") \/ At(w, "mark")) /\ Absent
  \/ ~worker[w].new /\ UpdateInv(w)
  \/ worker[w].new /\ InsertInv(w)

DeleteInv(w) ==
  \/ At(w, "key") /\ Present
  \/ At(w, "compare") /\ Present /\ worker[w].ptr = slot.key
  \/ At(w, "tombstone") /\ Present
  \/ At(w, "old key") /\ Entry({"DELETED"}, "string", "string", 1)
  \/ At(w, "free key") /\ Entry({"DELETED"}, "string", "string", 1) /\ worker[w].ptr = slot.key
  \/ At(w, "clear key") /\ Entry({"DELETED"}, "free", "string", 1)
  \/ At(w, "old value") /\ Entry({"DELETED"}, "none", "string", 1)
  \/ At(w, "free value") /\ Entry({"DELETED"}, "none", "string", 1) /\ worker[w].ptr = slot.value
  \/ At(w, "clear value") /\ Entry({"DELETED"}, "none", "free", 1)
  \/ At(w, "load size") /\ Entry({"DELETED"}, "none", "none", 1)
  \/ At(w, "store size") /\ Entry({"DELETED"}, "none", "none", 1) /\ worker[w].count = 1

RequestInv(w) ==
  IF w \in Inside
  THEN \/ worker[w].request = "GET" /\ GetInv(w)
       \/ worker[w].request = "PUT" /\ PutInv(w)
       \/ worker[w].request = "DELETE" /\ DeleteInv(w)
  ELSE ~worker[w].new

\* Only GETs are past their probe together.
Exclusion ==
  \A w1, w2 \in Inside : w1 # w2 => worker[w1].request = "GET"

Writing == \E w \in Inside : worker[w].request # "GET"

\* The entry's strings are two blocks, and nothing else is allocated.
HeapInv ==
  /\ slot.key = slot.value => slot.key = NULL
  /\ \A b \in Blocks : heap[b] # "free" => b \in {slot.key, slot.value}

Tight ==
  /\ slot \in [state : {"EMPTY", "FILLED", "DELETED"}, key : Pointers, value : Pointers]
  /\ heap \in [Blocks -> {"free", "raw", "string"}]
  /\ size \in 0 .. 1
  /\ worker \in [Workers -> Locals]
  /\ undefined \in BOOLEAN

\* What holds until requests race.
Whole ==
  /\ Tight
  /\ ~undefined
  /\ HeapInv
  /\ Exclusion
  /\ ~Writing => Present \/ Absent
  /\ \A w \in Workers : RequestInv(w)

IInv == TypeOK /\ (raced \/ Whole)

USE HandlersAssumption

------------------------------------------------------------------------------
(* Steps of one worker.                                                     *)

\* A size_t holds at least 0 and 1.
LEMMA Counts == 0 \in 0 .. SizeModulus - 1 /\ 0 .. 1 \subseteq 0 .. SizeModulus - 1
OBVIOUS

\* Fresh locals are locals.
LEMMA FreshLocals ==
  ASSUME NEW request \in Requests, NEW pc \in Places
  PROVE  /\ Fresh(request, pc) \in Locals
         /\ Fresh(request, pc).pc = pc /\ ~Fresh(request, pc).new
BY Counts DEF Fresh, Locals, Pointers

\* A worker is not disturbed by steps that leave the entry alone.
LEMMA SameRequestInv ==
  ASSUME NEW w \in Workers, worker'[w] = worker[w], UNCHANGED <<slot, heap, size>>,
         RequestInv(w)
  PROVE  RequestInv(w)'
<1>1. GetInv(w) => GetInv(w)'
  BY DEF GetInv, At, Present, Entry, BlockAt
<1>2. UpdateInv(w) => UpdateInv(w)'
  BY DEF UpdateInv, At, Present, Absent, Entry, BlockAt
<1>3. InsertInv(w) => InsertInv(w)'
  BY DEF InsertInv, At, Entry, BlockAt
<1>4. DeleteInv(w) => DeleteInv(w)'
  BY DEF DeleteInv, At, Present, Absent, Entry, BlockAt
<1>5. Absent => Absent'
  BY DEF Absent, Entry, BlockAt
<1>6. w \in Inside <=> w \in Inside'
  BY DEF Inside
<1> QED
  BY <1>1, <1>2, <1>3, <1>4, <1>5, <1>6 DEF RequestInv, PutInv, At

\* A step of a worker past its probe preserves the invariant when it leaves
\* what that worker needs, and touches the entry only if the worker is alone.
LEMMA Frame ==
  ASSUME Whole, NEW w \in Inside,
         Tight', HeapInv', ~undefined', RequestInv(w)',
         \A other \in Workers \ {w} : worker'[other] = worker[other],
         At(w, "idle")' \/ (w \in Inside' /\ worker'[w].request = worker[w].request),
         worker[w].request = "GET" => UNCHANGED <<slot, heap, size>>,
         At(w, "idle")' => worker[w].request = "GET" \/ (Present \/ Absent)'
  PROVE  Whole'
<1>1. w \in Workers /\ Inside \subseteq Workers
  BY DEF Inside
<1>2. Inside' \subseteq Inside
  BY <1>1 DEF Inside
<1>3. Exclusion'
  BY <1>1, <1>2 DEF Whole, Exclusion, Inside, At
<1>4. ASSUME ~Writing'
      PROVE  (Present \/ Absent)'
  <2>1. CASE worker[w].request = "GET"
    <3>1. ~Writing
      BY <1>1, <2>1 DEF Writing, Whole, Exclusion
    <3> QED
      BY <2>1, <3>1 DEF Whole, Present, Absent, Entry, BlockAt
  <2>2. CASE worker[w].request # "GET"
    <3>1. At(w, "idle")'
      BY <1>1, <1>4, <2>2 DEF Writing
    <3> QED
      BY <2>2, <3>1
  <2> QED
    BY <2>1, <2>2
<1>5. ASSUME NEW other \in Workers
      PROVE  RequestInv(other)'
  <2>1. CASE other = w
    BY <2>1
  <2>2. CASE other # w /\ other \notin Inside
    <3>1. other \notin Inside'
      BY <1>2, <2>2
    <3> QED
      BY <2>2, <3>1 DEF RequestInv, Whole
  <2>3. CASE other # w /\ other \in Inside
    <3>1. worker[w].request = "GET"
      BY <2>3 DEF Whole, Exclusion
    <3> QED
      BY <1>5, <2>3, <3>1, SameRequestInv DEF Whole
  <2> QED
    BY <2>1, <2>2, <2>3
<1> QED
  BY <1>3, <1>4, <1>5 DEF Whole

\* A step of a worker before its probe that keeps it there.
LEMMA Outside ==
  ASSUME Whole, NEW w \in Workers \ Inside,
         worker' \in [Workers -> Locals],
         \A other \in Workers \ {w} : worker'[other] = worker[other],
         UNCHANGED <<slot, heap, size, undefined>>,
         w \notin Inside', ~worker'[w].new
  PROVE  Whole'
<1>1. Inside' = Inside /\ \A v \in Inside : worker'[v] = worker[v]
  BY DEF Inside
<1>2. Tight' /\ HeapInv' /\ ~undefined'
  BY DEF Whole, Tight, HeapInv
<1>3. Exclusion' /\ (Writing' => Writing) /\ (Writing => Writing')
  BY <1>1 DEF Whole, Exclusion, Writing
<1>4. (Present => Present') /\ (Absent => Absent')
  BY DEF Present, Absent, Entry, BlockAt
<1>5. RequestInv(w)'
  BY DEF RequestInv
<1>6. ASSUME NEW other \in Workers \ {w}
      PROVE  RequestInv(other)'
  BY SameRequestInv DEF Whole
<1> QED
  BY <1>2, <1>3, <1>4, <1>5, <1>6 DEF Whole

\* A worker passes its probe, unless it races with another.
LEMMA Enter ==
  ASSUME Whole, NEW w \in Workers \ Inside,
         worker' \in [Workers -> Locals],
         \A other \in Workers \ {w} : worker'[other] = worker[other],
         UNCHANGED <<slot, heap, size, undefined>>,
         w \in Inside', RequestInv(w)',
         \A other \in Inside : worker'[w].request = "GET" /\ worker[other].request = "GET"
  PROVE  Whole'
<1>1. Inside' = Inside \cup {w} /\ \A v \in Inside : worker'[v] = worker[v]
  BY DEF Inside
<1>2. Tight' /\ HeapInv' /\ ~undefined'
  BY DEF Whole, Tight, HeapInv
<1>3. Exclusion' /\ ~Writing
  BY <1>1 DEF Exclusion, Writing
<1>4. (Present \/ Absent)'
  BY <1>3 DEF Whole, Present, Absent, Entry, BlockAt
<1>5. ASSUME NEW other \in Workers \ {w}
      PROVE  RequestInv(other)'
  BY SameRequestInv DEF Whole
<1> QED
  BY <1>2, <1>3, <1>4, <1>5 DEF Whole

\* What the steps of w do to the workers: only w's locals change, and not the
\* request it serves before it is answered.
Moves(w, pc) ==
  /\ worker' \in [Workers -> Locals]
  /\ \A other \in Workers \ {w} : worker'[other] = worker[other]
  /\ IF pc = "idle"
     THEN ~worker'[w].new
     ELSE worker'[w].request = worker[w].request /\ worker'[w].new = worker[w].new
  /\ worker'[w].pc = pc

\* Beginning a request changes that worker's locals only.
LEMMA BeginMoves ==
  ASSUME Whole \/ TypeOK, NEW w \in Workers, NEW request \in Requests, Begin(w, request)
  PROVE  /\ worker' \in [Workers -> Locals]
         /\ \A other \in Workers \ {w} : worker'[other] = worker[other]
         /\ worker'[w].pc \in {"size", "state"} /\ ~worker'[w].new
         /\ worker'[w] = Fresh(request, worker'[w].pc)
<1>1. worker \in [Workers -> Locals]
  BY DEF Whole, Tight, TypeOK
<1>2. PICK pc \in {"size", "state"} : worker' = [worker EXCEPT ![w] = Fresh(request, pc)]
  BY DEF Begin
<1>3. Fresh(request, pc) \in Locals /\ Fresh(request, pc).pc = pc /\ ~Fresh(request, pc).new
  <2>1. pc \in Places
    BY DEF Places
  <2> QED
    BY <2>1, FreshLocals
<1> QED
  BY <1>1, <1>2, <1>3

\* Going on changes the place only.
LEMMA GotoMoves ==
  ASSUME Whole \/ TypeOK, NEW w \in Workers, NEW pc \in Places \ {"idle"}, Goto(w, pc)
  PROVE  Moves(w, pc) /\ worker'[w].ptr = worker[w].ptr
<1>1. worker \in [Workers -> Locals]
  BY DEF Whole, Tight, TypeOK
<1> QED
  BY <1>1 DEF Goto, Moves, Locals

\* Loading a pointer changes it and the place.
LEMMA LoadMoves ==
  ASSUME Whole \/ TypeOK, NEW w \in Workers, NEW pc \in Places \ {"idle"}, NEW ptr \in Pointers,
         Load(w, ptr, pc)
  PROVE  Moves(w, pc) /\ worker'[w].ptr = ptr
<1>1. worker \in [Workers -> Locals]
  BY DEF Whole, Tight, TypeOK
<1> DEFINE once == [worker EXCEPT ![w].ptr = ptr]
<1>2. /\ once \in [Workers -> Locals]
      /\ \A other \in Workers \ {w} : once[other] = worker[other]
      /\ once[w].request = worker[w].request /\ once[w].new = worker[w].new /\ once[w].ptr = ptr
  BY <1>1 DEF Locals
<1>3. worker' = [once EXCEPT ![w].pc = pc]
  BY <1>1 DEF Load
<1> HIDE DEF once
<1> QED
  BY <1>2, <1>3 DEF Moves, Locals

\* Answering ends the request.
LEMMA AnswerMoves ==
  ASSUME Whole \/ TypeOK, NEW w \in Workers, NEW status \in {200, 404, 500}, Answer(w, status)
  PROVE  Moves(w, "idle") /\ worker'[w].status = status
<1>1. worker \in [Workers -> Locals]
  BY DEF Whole, Tight, TypeOK
<1> DEFINE after == [Fresh("GET", "idle") EXCEPT !.status = status]
<1>2. after \in Locals /\ after.pc = "idle" /\ ~after.new /\ after.status = status
  <2>1. "GET" \in Requests /\ "idle" \in Places /\ status \in {0, 200, 404, 500}
    BY DEF Requests, Places
  <2>2. after \in Locals
    BY <2>1, Counts DEF Fresh, Locals, Pointers
  <2> QED
    BY <2>2 DEF Fresh
<1>3. worker' = [worker EXCEPT ![w] = after]
  BY <1>1 DEF Answer
<1> HIDE DEF after
<1> QED
  BY <1>1, <1>2, <1>3 DEF Moves

\* Marking the slot is remembered as a new entry.
LEMMA MarkMoves ==
  ASSUME Whole \/ TypeOK, NEW w \in Workers, Mark(w)
  PROVE  /\ worker' \in [Workers -> Locals]
         /\ \A other \in Workers \ {w} : worker'[other] = worker[other]
         /\ worker'[w].request = worker[w].request /\ worker'[w].new = TRUE
         /\ worker'[w].pc = "alloc key"
<1>1. worker \in [Workers -> Locals]
  BY DEF Whole, Tight, TypeOK
<1>2. PICK pc \in Places, yes \in BOOLEAN : pc = "alloc key" /\ yes = TRUE
  BY DEF Places
<1> DEFINE once == [worker EXCEPT ![w].pc = pc]
<1>3. /\ once \in [Workers -> Locals]
      /\ \A other \in Workers \ {w} : once[other] = worker[other]
      /\ once[w].request = worker[w].request /\ once[w].pc = pc
  BY <1>1 DEF Locals
<1>4. worker' = [once EXCEPT ![w].new = yes]
  BY <1>1, <1>2 DEF Mark
<1> HIDE DEF once
<1>5. /\ worker' \in [Workers -> Locals]
      /\ \A other \in Workers \ {w} : worker'[other] = once[other]
      /\ worker'[w].request = once[w].request
      /\ worker'[w].new = yes
      /\ worker'[w].pc = once[w].pc
  BY <1>3, <1>4 DEF Locals
<1> QED
  BY <1>2, <1>3, <1>5

\* The size is loaded as it is.
LEMMA LoadSizeMoves ==
  ASSUME Whole \/ TypeOK, NEW w \in Workers, LoadSize(w)
  PROVE  Moves(w, "store size") /\ worker'[w].count = size
<1>1. worker \in [Workers -> Locals] /\ size \in 0 .. SizeModulus - 1
  BY DEF Whole, Tight, TypeOK
<1>2. PICK pc \in Places : pc = "store size"
  BY DEF Places
<1> DEFINE once == [worker EXCEPT ![w].count = size]
<1>3. /\ once \in [Workers -> Locals]
      /\ \A other \in Workers \ {w} : once[other] = worker[other]
      /\ once[w].request = worker[w].request /\ once[w].new = worker[w].new
      /\ once[w].count = size
  BY <1>1 DEF Locals
<1>4. worker' = [once EXCEPT ![w].pc = pc]
  BY <1>1, <1>2 DEF LoadSize
<1> HIDE DEF once
<1>5. /\ worker' \in [Workers -> Locals]
      /\ \A other \in Workers \ {w} : worker'[other] = once[other]
      /\ worker'[w].request = once[w].request /\ worker'[w].new = once[w].new
      /\ worker'[w].count = once[w].count
      /\ worker'[w].pc = pc
  BY <1>3, <1>4 DEF Locals
<1> QED
  BY <1>2, <1>3, <1>5 DEF Moves

\* A step of a worker past its probe that touches nothing shared.
LEMMA LocalStep ==
  ASSUME Whole, NEW w \in Inside, NEW pc \in Places \ {"size", "state"}, Moves(w, pc),
         UNCHANGED <<slot, heap, size, undefined>>,
         pc = "idle" => worker[w].request = "GET" \/ Present \/ Absent,
         pc # "idle" => RequestInv(w)'
  PROVE  Whole'
<1>1. Tight' /\ HeapInv' /\ ~undefined'
  BY DEF Whole, Tight, HeapInv, Moves
<1>2. (Present => Present') /\ (Absent => Absent')
  BY DEF Present, Absent, Entry, BlockAt
<1>3. RequestInv(w)'
  BY DEF RequestInv, Inside, Moves
<1>4. At(w, "idle")' \/ (w \in Inside' /\ worker'[w].request = worker[w].request)
  BY DEF At, Inside, Moves
<1> QED
  BY <1>1, <1>2, <1>3, <1>4, Frame DEF At, Moves

\* A request begins before its probe.
LEMMA BeginWhole ==
  ASSUME Whole, NEW w \in Workers, NEW request \in Requests, Begin(w, request)
  PROVE  Whole'
<1>1. w \notin Inside /\ w \notin Inside'
  BY BeginMoves DEF Begin, At, Inside
<1> QED
  BY <1>1, BeginMoves, Outside DEF Begin

\* dict_remove finds nothing when the size is 0.
LEMMA CheckSizeWhole ==
  ASSUME Whole, NEW w \in Workers, CheckSize(w)
  PROVE  Whole'
<1>1. w \notin Inside /\ ~worker[w].new
  <2>1. w \notin Inside
    BY DEF CheckSize, At, Inside
  <2> QED
    BY <2>1 DEF Whole, RequestInv
<1>2. PICK pc \in {"idle", "state"} : Moves(w, pc)
  <2>1. CASE size = 0
    <3>1. Answer(w, 404)
      BY <2>1 DEF CheckSize
    <3> QED
      BY <3>1, AnswerMoves
  <2>2. CASE size # 0
    <3>1. Goto(w, "state") /\ "state" \in Places \ {"idle"}
      BY <2>2 DEF CheckSize, Places
    <3> QED
      BY <3>1, GotoMoves
  <2> QED
    BY <2>1, <2>2
<1>3. w \notin Inside' /\ ~worker'[w].new
  BY <1>1, <1>2 DEF Moves, Inside
<1> QED
  BY <1>1, <1>2, <1>3, Outside DEF CheckSize, Moves

\* The probe: GET and DELETE go on when the entry is there, PUT in any case.
LEMMA ReadStateWhole ==
  ASSUME Whole, NEW w \in Workers, ReadState(w), ~raced'
  PROVE  Whole'
<1>1. w \notin Inside /\ ~worker[w].new /\ worker[w].request \in Requests
  <2>1. w \notin Inside
    BY DEF ReadState, At, Inside
  <2> QED
    BY <2>1 DEF Whole, RequestInv, Tight, Locals
<1>2. (Present => Present') /\ (Absent => Absent')
  BY DEF ReadState, Present, Absent, Entry, BlockAt
<1>3. ASSUME Answer(w, 404)
      PROVE  Whole'
  <2>1. Moves(w, "idle")
    BY <1>3, AnswerMoves
  <2>2. w \notin Inside' /\ ~worker'[w].new
    BY <2>1 DEF Moves, Inside
  <2> QED
    BY <1>1, <2>1, <2>2, Outside DEF ReadState, Moves
<1>4. ASSUME NEW pc \in {"key", "check", "mark"}, Goto(w, pc)
      PROVE  /\ Moves(w, pc) /\ w \in Inside'
             /\ \A other \in Inside : worker'[w].request = "GET" /\ worker[other].request = "GET"
             /\ Present \/ Absent
  <2>1. Moves(w, pc)
    BY <1>4, GotoMoves DEF Places
  <2>2. w \in Inside'
    BY <2>1 DEF Moves, Inside
  <2>3. \A other \in Inside : worker'[w].request = "GET" /\ worker[other].request = "GET"
    BY <2>1, <2>2 DEF ReadState, Moves
  <2>4. ~Writing
    BY <2>3 DEF Writing
  <2> QED
    BY <2>1, <2>2, <2>3, <2>4 DEF Whole
<1>5. CASE slot.state = "FILLED"
  <2>1. Goto(w, "key")
    BY <1>5 DEF ReadState
  <2>2. Moves(w, "key") /\ w \in Inside' /\ (Present \/ Absent)
    BY <1>4, <2>1
  <2>3. Present'
    BY <1>2, <1>5, <2>2 DEF Absent, Entry
  <2>4. RequestInv(w)'
    BY <1>1, <2>2, <2>3
    DEF Moves, RequestInv, GetInv, PutInv, UpdateInv, DeleteInv, At, Requests
  <2> QED
    BY <1>1, <1>4, <2>1, <2>2, <2>4, Enter DEF ReadState, Moves
<1>6. CASE slot.state # "FILLED" /\ worker[w].request = "PUT"
  <2>1. PICK pc \in {"check", "mark"} : Goto(w, pc)
    BY <1>6 DEF ReadState
  <2>2. Moves(w, pc) /\ w \in Inside' /\ (Present \/ Absent)
    BY <1>4, <2>1
  <2>3. Absent'
    BY <1>2, <1>6, <2>2 DEF Present, Entry
  <2>4. RequestInv(w)'
    BY <1>6, <2>2, <2>3 DEF Moves, RequestInv, PutInv, At
  <2> QED
    BY <1>1, <1>4, <2>1, <2>2, <2>4, Enter DEF ReadState, Moves
<1>7. CASE slot.state # "FILLED" /\ worker[w].request # "PUT"
  BY <1>3, <1>7 DEF ReadState
<1> QED
  BY <1>5, <1>6, <1>7

\* The slot a PUT has seen EMPTY is not FILLED when it looks again.
LEMMA CheckFullWhole ==
  ASSUME Whole, NEW w \in Workers, CheckFull(w)
  PROVE  Whole'
<1>1. w \in Inside
  BY DEF CheckFull, At, Inside
<1>2. worker[w].request = "PUT" /\ Absent
  BY DEF Whole, CheckFull, At, RequestInv, GetInv, PutInv, UpdateInv, InsertInv, DeleteInv, Inside
<1>3. Goto(w, "mark")
  BY <1>2 DEF CheckFull, Absent, Entry
<1>4. Moves(w, "mark")
  BY <1>3, GotoMoves DEF Places
<1>5. Absent'
  BY <1>2 DEF CheckFull, Absent, Entry, BlockAt
<1>6. RequestInv(w)'
  BY <1>1, <1>2, <1>4, <1>5 DEF Moves, RequestInv, PutInv, At, Inside
<1> QED
  BY <1>1, <1>4, <1>6, LocalStep DEF CheckFull, Places

\* The key found is that of the entry.
LEMMA LoadKeyWhole ==
  ASSUME Whole, NEW w \in Workers, LoadKey(w)
  PROVE  Whole'
<1>1. w \in Inside
  BY DEF LoadKey, At, Inside
<1>2. Moves(w, "compare") /\ worker'[w].ptr = slot.key
  <2>1. slot.key \in Pointers
    BY DEF Whole, Tight
  <2> QED
    BY <2>1, LoadMoves DEF LoadKey, Places
<1>3. /\ Present
      /\ worker[w].request \in Requests
      /\ worker[w].request = "PUT" => ~worker[w].new
  BY DEF Whole, LoadKey, At, RequestInv, GetInv, PutInv, UpdateInv, InsertInv, DeleteInv,
     Inside, Requests
<1>4. Present'
  BY <1>3 DEF LoadKey, Present, Entry, BlockAt
<1>5. RequestInv(w)'
  BY <1>2, <1>3, <1>4
  DEF Inside, LoadKey, Moves, RequestInv, GetInv, PutInv, UpdateInv, DeleteInv, At, Requests
<1> QED
  BY <1>1, <1>2, <1>5, LocalStep DEF LoadKey, Places

\* The key that strcmp reads is there.
LEMMA CompareKeyWhole ==
  ASSUME Whole, NEW w \in Workers, CompareKey(w)
  PROVE  Whole'
<1>1. w \in Inside
  BY DEF CompareKey, At, Inside
<1>2. /\ Present
      /\ worker[w].ptr = slot.key
      /\ worker[w].request \in Requests
      /\ worker[w].request = "PUT" => ~worker[w].new
  BY DEF Whole, CompareKey, At, RequestInv, GetInv, PutInv, UpdateInv, InsertInv, DeleteInv,
     Inside, Requests
<1>3. worker[w].ptr \in Blocks /\ heap[worker[w].ptr] = "string"
  BY <1>2 DEF Present, Entry, BlockAt, Whole, Tight, Pointers
<1>4. Present'
  BY <1>2 DEF CompareKey, Present, Entry, BlockAt
<1>5. CASE worker[w].request = "GET"
  <2>1. Moves(w, "found")
    BY <1>3, <1>5, GotoMoves DEF CompareKey, ReadString, Places
  <2>2. RequestInv(w)'
    BY <1>4, <1>5, <2>1 DEF Inside, Moves, RequestInv, GetInv, At
  <2> QED
    BY <1>1, <1>3, <2>1, <2>2, LocalStep DEF CompareKey, ReadString, Places
<1>6. CASE worker[w].request = "PUT"
  <2>1. Moves(w, "old value")
    BY <1>3, <1>6, GotoMoves DEF CompareKey, ReadString, Places
  <2>2. RequestInv(w)'
    BY <1>2, <1>4, <1>6, <2>1 DEF Inside, Moves, RequestInv, PutInv, UpdateInv, At
  <2> QED
    BY <1>1, <1>3, <2>1, <2>2, LocalStep DEF CompareKey, ReadString, Places
<1>7. CASE worker[w].request = "DELETE"
  <2>1. Moves(w, "tombstone")
    BY <1>3, <1>7, GotoMoves DEF CompareKey, ReadString, Places
  <2>2. RequestInv(w)'
    BY <1>4, <1>7, <2>1 DEF Inside, Moves, RequestInv, DeleteInv, At
  <2> QED
    BY <1>1, <1>3, <2>1, <2>2, LocalStep DEF CompareKey, ReadString, Places
<1> QED
  BY <1>2, <1>5, <1>6, <1>7 DEF Requests

\* A GET's value is that of the entry.
LEMMA LoadFoundWhole ==
  ASSUME Whole, NEW w \in Workers, LoadFound(w)
  PROVE  Whole'
<1>1. w \in Inside
  BY DEF LoadFound, At, Inside
<1>2. Present /\ worker[w].request = "GET"
  BY DEF Whole, LoadFound, At, RequestInv, GetInv, PutInv, UpdateInv, InsertInv, DeleteInv, Inside
<1>3. slot.value # NULL /\ slot.value \in Pointers
  BY <1>2 DEF Present, Entry, BlockAt, Whole, Tight
<1>4. Moves(w, "respond") /\ worker'[w].ptr = slot.value
  BY <1>3, LoadMoves DEF LoadFound, Places
<1>5. Present'
  BY <1>2 DEF LoadFound, Present, Entry, BlockAt
<1>6. RequestInv(w)'
  BY <1>2, <1>4, <1>5 DEF Inside, LoadFound, Moves, RequestInv, GetInv, At
<1> QED
  BY <1>1, <1>4, <1>6, LocalStep DEF LoadFound, Places

\* The value that respond reads is there.
LEMMA RespondFoundWhole ==
  ASSUME Whole, NEW w \in Workers, RespondFound(w)
  PROVE  Whole'
<1>1. w \in Inside
  BY DEF RespondFound, At, Inside
<1>2. Present /\ worker[w].request = "GET" /\ worker[w].ptr = slot.value
  BY DEF Whole, RespondFound, At, RequestInv, GetInv, PutInv, UpdateInv, InsertInv, DeleteInv, Inside
<1>3. worker[w].ptr \in Blocks /\ heap[worker[w].ptr] = "string"
  BY <1>2 DEF Present, Entry, BlockAt, Whole, Tight, Pointers
<1>4. Moves(w, "idle")
  BY <1>3, AnswerMoves DEF RespondFound, ReadString
<1> QED
  BY <1>1, <1>2, <1>3, <1>4, LocalStep DEF RespondFound, ReadString, Places

\* PUT and DELETE read the pointer they are about to free.
LEMMA LoadOldWhole ==
  ASSUME Whole, NEW w \in Workers, LoadOld(w)
  PROVE  Whole'
<1>1. w \in Inside
  BY DEF LoadOld, At, Inside
<1>2. slot.key \in Pointers /\ slot.value \in Pointers
  BY DEF Whole, Tight
<1>3. CASE At(w, "old key")
  <2>1. Moves(w, "free key") /\ worker'[w].ptr = slot.key
    <3>1. Load(w, slot.key, "free key") /\ "free key" \in Places
      BY <1>3 DEF LoadOld, At, Places
    <3> QED
      BY <1>2, <3>1, LoadMoves
  <2>2. worker[w].request = "DELETE" /\ Entry({"DELETED"}, "string", "string", 1)
    BY <1>3 DEF Whole, At, RequestInv, GetInv, PutInv, UpdateInv, InsertInv, DeleteInv, Inside
  <2>3. RequestInv(w)'
    BY <2>1, <2>2 DEF Inside, LoadOld, Moves, RequestInv, DeleteInv, At, Entry, BlockAt
  <2> QED
    BY <1>1, <2>1, <2>3, LocalStep DEF LoadOld, Places
<1>4. CASE At(w, "old value")
  <2>1. Moves(w, "free value") /\ worker'[w].ptr = slot.value
    <3>1. Load(w, slot.value, "free value") /\ "free value" \in Places
      BY <1>4 DEF LoadOld, At, Places
    <3> QED
      BY <1>2, <3>1, LoadMoves
  <2>2. \/ /\ worker[w].request = "DELETE" /\ Entry({"DELETED"}, "none", "string", 1)
        \/ /\ worker[w].request = "PUT" /\ ~worker[w].new /\ Present
    BY <1>4 DEF Whole, At, RequestInv, GetInv, PutInv, UpdateInv, InsertInv, DeleteInv, Inside
  <2>3. RequestInv(w)'
    BY <2>1, <2>2
    DEF Inside, LoadOld, Moves, RequestInv, PutInv, UpdateInv, DeleteInv, At, Present, Entry, BlockAt
  <2> QED
    BY <1>1, <2>1, <2>3, LocalStep DEF LoadOld, Places
<1> QED
  BY <1>3, <1>4 DEF LoadOld

\* A step of a PUT or a DELETE, which is alone, on the entry and its strings.
LEMMA SharedStep ==
  ASSUME Whole, NEW w \in Inside, NEW pc \in Places \ {"size", "state"}, Moves(w, pc),
         worker[w].request # "GET",
         UNCHANGED undefined,
         slot' \in [state : {"EMPTY", "FILLED", "DELETED"}, key : Pointers, value : Pointers],
         heap' \in [Blocks -> {"free", "raw", "string"}],
         size' \in 0 .. 1,
         HeapInv',
         pc = "idle" => (Present \/ Absent)',
         pc # "idle" => RequestInv(w)'
  PROVE  Whole'
<1>1. Tight' /\ ~undefined'
  BY DEF Whole, Tight, Moves
<1>2. RequestInv(w)'
  BY DEF RequestInv, Inside, Moves
<1>3. At(w, "idle")' \/ (w \in Inside' /\ worker'[w].request = worker[w].request)
  BY DEF At, Inside, Moves
<1> QED
  BY <1>1, <1>2, <1>3, Frame DEF At, Moves

\* PUT takes the slot for a new entry.
LEMMA MarkWhole ==
  ASSUME Whole, NEW w \in Workers, Mark(w)
  PROVE  Whole'
<1>1. w \in Inside
  BY DEF Mark, At, Inside
<1>2. worker[w].request = "PUT" /\ Absent
  BY DEF Whole, Mark, At, RequestInv, GetInv, PutInv, UpdateInv, InsertInv, DeleteInv, Inside
<1>3. slot'.state = "FILLED" /\ slot'.key = slot.key /\ slot'.value = slot.value
  BY DEF Mark, Whole, Tight
<1>4. Tight' /\ HeapInv' /\ ~undefined'
  BY <1>3, MarkMoves DEF Mark, Whole, Tight, HeapInv
<1>5. RequestInv(w)' /\ w \in Inside'
  <2>1. worker'[w].request = "PUT" /\ worker'[w].new /\ worker'[w].pc = "alloc key"
    BY <1>2, MarkMoves
  <2>2. w \in Inside'
    BY <2>1 DEF Inside
  <2>3. Entry({"FILLED"}, "none", "none", 0)'
    BY <1>2, <1>3 DEF Mark, Absent, Entry, BlockAt
  <2> QED
    BY <2>1, <2>2, <2>3 DEF RequestInv, PutInv, InsertInv, At
<1>6. worker'[w].pc = "alloc key"
  BY MarkMoves
<1> QED
  BY <1>1, <1>2, <1>4, <1>5, <1>6, MarkMoves, Frame DEF At

\* PUT copies a new entry's key to a block nothing else points to.
LEMMA AllocKeyWhole ==
  ASSUME Whole, NEW w \in Workers, AllocKey(w)
  PROVE  Whole'
<1>1. w \in Inside
  BY DEF AllocKey, At, Inside
<1>2. /\ worker[w].request = "PUT" /\ worker[w].new
      /\ Entry({"FILLED"}, "none", "none", 0)
  BY DEF Whole, AllocKey, At, RequestInv, GetInv, PutInv, UpdateInv, InsertInv, DeleteInv, Inside
<1>3. slot.key = NULL /\ slot.value = NULL
  BY <1>2 DEF Entry, BlockAt, Whole, Tight, Pointers
<1>4. PICK b \in Blocks : Malloc(b) /\ slot' = [slot EXCEPT !.key = b]
  BY DEF AllocKey
<1>5. Moves(w, "write key")
  BY GotoMoves DEF AllocKey, Places
<1>6. /\ heap' \in [Blocks -> {"free", "raw", "string"}]
      /\ slot' \in [state : {"EMPTY", "FILLED", "DELETED"}, key : Pointers, value : Pointers]
  BY <1>4 DEF Whole, Tight, Malloc, Pointers
<1>7. HeapInv'
  BY <1>3, <1>4 DEF HeapInv, Whole, Tight, Malloc
<1>8. Entry({"FILLED"}, "raw", "none", 0)'
  BY <1>2, <1>3, <1>4 DEF AllocKey, Entry, BlockAt, Whole, Tight, Malloc
<1>9. RequestInv(w)'
  BY <1>2, <1>5, <1>8 DEF Inside, Moves, RequestInv, PutInv, InsertInv, At
<1> QED
  BY <1>1, <1>2, <1>5, <1>6, <1>7, <1>9, SharedStep DEF AllocKey, Whole, Tight, Places

\* PUT copies the value to a block nothing else points to.
LEMMA AllocValueWhole ==
  ASSUME Whole, NEW w \in Workers, AllocValue(w)
  PROVE  Whole'
<1>1. w \in Inside
  BY DEF AllocValue, At, Inside
<1>2. /\ worker[w].request = "PUT"
      /\ \/ ~worker[w].new /\ Entry({"FILLED"}, "string", "free", 1)
         \/ worker[w].new /\ Entry({"FILLED"}, "string", "none", 0)
  BY DEF Whole, AllocValue, At, RequestInv, GetInv, PutInv, UpdateInv, InsertInv, DeleteInv, Inside
<1>3. slot.key \in Blocks /\ heap[slot.key] = "string"
  BY <1>2 DEF Entry, BlockAt, Whole, Tight, Pointers
<1>4. PICK b \in Blocks : Malloc(b) /\ slot' = [slot EXCEPT !.value = b]
  BY DEF AllocValue
<1>5. Moves(w, "write value")
  BY GotoMoves DEF AllocValue, Places
<1>6. /\ heap' \in [Blocks -> {"free", "raw", "string"}]
      /\ slot' \in [state : {"EMPTY", "FILLED", "DELETED"}, key : Pointers, value : Pointers]
  BY <1>4 DEF Whole, Tight, Malloc, Pointers
<1>7. /\ b # slot.key
      /\ slot'.key = slot.key /\ slot'.value = b /\ slot'.state = slot.state
      /\ heap'[slot.key] = "string" /\ heap'[b] = "raw"
      /\ \A c \in Blocks : c # b => heap'[c] = heap[c]
  BY <1>3, <1>4 DEF Whole, Tight, Malloc
<1>8. HeapInv'
  <2>1. \A c \in Blocks : heap[c] # "free" => c = slot.key
    BY <1>2 DEF Entry, BlockAt, HeapInv, Whole, Tight
  <2> QED
    BY <1>7, <2>1 DEF HeapInv
<1>9. RequestInv(w)'
  BY <1>2, <1>3, <1>5, <1>7
  DEF Inside, AllocValue, Moves, RequestInv, PutInv, UpdateInv, InsertInv, At, Entry, BlockAt
<1> QED
  BY <1>1, <1>2, <1>5, <1>6, <1>8, <1>9, SharedStep DEF AllocValue, Whole, Tight, Places

\* What becomes of a block one pointer of the entry points to is nothing to the
\* other pointer.
LEMMA KeyBlock ==
  ASSUME Tight, NEW contents, slot.key \in Blocks, slot.key # slot.value,
         slot' = slot, heap' = [heap EXCEPT ![slot.key] = contents]
  PROVE  BlockAt(slot.key)' = contents /\ BlockAt(slot.value)' = BlockAt(slot.value)
<1>1. heap'[slot.key] = contents
  BY DEF Tight
<1>2. slot.value # NULL => heap'[slot.value] = heap[slot.value]
  BY DEF Tight, Pointers
<1> QED
  BY <1>1, <1>2 DEF BlockAt

\* The same of the value's block.
LEMMA ValueBlock ==
  ASSUME Tight, NEW contents, slot.value \in Blocks, slot.key # slot.value,
         slot' = slot, heap' = [heap EXCEPT ![slot.value] = contents]
  PROVE  BlockAt(slot.value)' = contents /\ BlockAt(slot.key)' = BlockAt(slot.key)
<1>1. heap'[slot.value] = contents
  BY DEF Tight
<1>2. slot.key # NULL => heap'[slot.key] = heap[slot.key]
  BY DEF Tight, Pointers
<1> QED
  BY <1>1, <1>2 DEF BlockAt

\* PUT writes the new key to the block it has just got.
LEMMA WriteKeyWhole ==
  ASSUME Whole, NEW w \in Workers, WriteKey(w)
  PROVE  Whole'
<1>1. w \in Inside
  BY DEF WriteKey, At, Inside
<1>2. /\ worker[w].request = "PUT" /\ worker[w].new
      /\ Entry({"FILLED"}, "raw", "none", 0)
  BY DEF Whole, WriteKey, At, RequestInv, GetInv, PutInv, UpdateInv, InsertInv, DeleteInv, Inside
<1>3. slot.key \in Blocks /\ heap[slot.key] = "raw" /\ slot.value = NULL
  BY <1>2 DEF Entry, BlockAt, Whole, Tight, Pointers
<1>4. heap' = [heap EXCEPT ![slot.key] = "string"] /\ Goto(w, "alloc value") /\ UNCHANGED undefined
  BY <1>3 DEF WriteKey, WriteString, SetBlock
<1>5. Moves(w, "alloc value")
  BY <1>4, GotoMoves DEF Places
<1>6. heap' \in [Blocks -> {"free", "raw", "string"}] /\ HeapInv'
  BY <1>3, <1>4 DEF WriteKey, Whole, Tight, HeapInv
<1>7. Entry({"FILLED"}, "string", "none", 0)'
  BY <1>2, <1>3, <1>4 DEF WriteKey, Entry, BlockAt, Whole, Tight
<1>8. RequestInv(w)'
  BY <1>2, <1>5, <1>7 DEF Inside, Moves, RequestInv, PutInv, InsertInv, At
<1> QED
  BY <1>1, <1>2, <1>4, <1>5, <1>6, <1>8, SharedStep DEF WriteKey, Whole, Tight, Places

\* PUT writes the value to the block it has just got; an update ends here.
LEMMA WriteValueWhole ==
  ASSUME Whole, NEW w \in Workers, WriteValue(w)
  PROVE  Whole'
<1>1. w \in Inside
  BY DEF WriteValue, At, Inside
<1>2. /\ worker[w].request = "PUT"
      /\ \/ ~worker[w].new /\ Entry({"FILLED"}, "string", "raw", 1)
         \/ worker[w].new /\ Entry({"FILLED"}, "string", "raw", 0)
  BY DEF Whole, WriteValue, At, RequestInv, GetInv, PutInv, UpdateInv, InsertInv, DeleteInv, Inside
<1>3. slot.value \in Blocks /\ heap[slot.value] = "raw" /\ slot.key # slot.value
  BY <1>2 DEF Entry, BlockAt, Whole, Tight, Pointers
<1>4. /\ heap' = [heap EXCEPT ![slot.value] = "string"]
      /\ IF worker[w].new THEN Goto(w, "load size") ELSE Answer(w, 200)
      /\ UNCHANGED undefined
  BY <1>3 DEF WriteValue, WriteString, SetBlock
<1>5. heap' \in [Blocks -> {"free", "raw", "string"}] /\ HeapInv'
  BY <1>3, <1>4 DEF WriteValue, Whole, Tight, HeapInv
<1>6. CASE worker[w].new
  <2>1. Moves(w, "load size")
    BY <1>4, <1>6, GotoMoves DEF Places
  <2>2. Entry({"FILLED"}, "string", "string", 0)'
    BY <1>2, <1>3, <1>4, <1>6, ValueBlock DEF WriteValue, Entry, Whole
  <2>3. RequestInv(w)'
    BY <1>2, <1>6, <2>1, <2>2 DEF Inside, Moves, RequestInv, PutInv, InsertInv, At
  <2> QED
    BY <1>1, <1>2, <1>4, <1>5, <2>1, <2>3, SharedStep DEF WriteValue, Whole, Tight, Places
<1>7. CASE ~worker[w].new
  <2>1. Moves(w, "idle")
    BY <1>4, <1>7, AnswerMoves
  <2>2. Present'
    BY <1>2, <1>3, <1>4, <1>7, ValueBlock DEF WriteValue, Present, Entry, Whole
  <2> QED
    BY <1>1, <1>2, <1>4, <1>5, <2>1, <2>2, SharedStep DEF WriteValue, Whole, Tight, Places
<1> QED
  BY <1>6, <1>7

\* DELETE turns the entry into a tombstone and still has its strings.
LEMMA TombstoneWhole ==
  ASSUME Whole, NEW w \in Workers, Tombstone(w)
  PROVE  Whole'
<1>1. w \in Inside
  BY DEF Tombstone, At, Inside
<1>2. worker[w].request = "DELETE" /\ Present
  BY DEF Whole, Tombstone, At, RequestInv, GetInv, PutInv, UpdateInv, InsertInv, DeleteInv, Inside
<1>3. Moves(w, "old key")
  BY GotoMoves DEF Tombstone, Places
<1>4. /\ slot' \in [state : {"EMPTY", "FILLED", "DELETED"}, key : Pointers, value : Pointers]
      /\ slot'.state = "DELETED" /\ slot'.key = slot.key /\ slot'.value = slot.value
  BY DEF Tombstone, Whole, Tight
<1>5. HeapInv'
  BY <1>4 DEF Tombstone, Whole, HeapInv
<1>6. RequestInv(w)'
  BY <1>2, <1>3, <1>4
  DEF Inside, Tombstone, Moves, RequestInv, DeleteInv, At, Present, Entry, BlockAt
<1> QED
  BY <1>1, <1>2, <1>3, <1>4, <1>5, <1>6, SharedStep DEF Tombstone, Whole, Tight, Places

\* The key that DELETE frees is there.
LEMMA FreeKeyWhole ==
  ASSUME Whole, NEW w \in Workers, FreeKey(w)
  PROVE  Whole'
<1>1. w \in Inside
  BY DEF FreeKey, At, Inside
<1>2. /\ worker[w].request = "DELETE" /\ worker[w].ptr = slot.key
      /\ Entry({"DELETED"}, "string", "string", 1)
  BY DEF Whole, FreeKey, At, RequestInv, GetInv, PutInv, UpdateInv, InsertInv, DeleteInv, Inside
<1>3. slot.key \in Blocks /\ heap[slot.key] = "string" /\ slot.key # slot.value
  BY <1>2 DEF Entry, BlockAt, Whole, Tight, HeapInv, Pointers
<1>4. heap' = [heap EXCEPT ![slot.key] = "free"] /\ Goto(w, "clear key") /\ UNCHANGED undefined
  BY <1>2, <1>3 DEF FreeKey, Free, SetBlock
<1>5. Moves(w, "clear key")
  BY <1>4, GotoMoves DEF Places
<1>6. heap' \in [Blocks -> {"free", "raw", "string"}] /\ HeapInv'
  BY <1>3, <1>4 DEF FreeKey, Whole, Tight, HeapInv
<1>7. Entry({"DELETED"}, "free", "string", 1)'
  BY <1>2, <1>3, <1>4, KeyBlock DEF FreeKey, Entry, Whole
<1>8. RequestInv(w)'
  BY <1>2, <1>5, <1>7 DEF Inside, Moves, RequestInv, DeleteInv, At
<1> QED
  BY <1>1, <1>2, <1>4, <1>5, <1>6, <1>8, SharedStep DEF FreeKey, Whole, Tight, Places

\* The value that PUT or DELETE frees is there.
LEMMA FreeValueWhole ==
  ASSUME Whole, NEW w \in Workers, FreeValue(w)
  PROVE  Whole'
<1>1. w \in Inside
  BY DEF FreeValue, At, Inside
<1>2. /\ worker[w].ptr = slot.value
      /\ \/ worker[w].request = "DELETE" /\ Entry({"DELETED"}, "none", "string", 1)
         \/ worker[w].request = "PUT" /\ ~worker[w].new /\ Present
  BY DEF Whole, FreeValue, At, RequestInv, GetInv, PutInv, UpdateInv, InsertInv, DeleteInv, Inside
<1>3. slot.value \in Blocks /\ heap[slot.value] = "string" /\ slot.key # slot.value
  BY <1>2 DEF Present, Entry, BlockAt, Whole, Tight, HeapInv, Pointers
<1>4. /\ heap' = [heap EXCEPT ![slot.value] = "free"]
      /\ Goto(w, IF worker[w].request = "PUT" THEN "alloc value" ELSE "clear value")
      /\ UNCHANGED undefined
  BY <1>2, <1>3 DEF FreeValue, Free, SetBlock
<1>5. heap' \in [Blocks -> {"free", "raw", "string"}] /\ HeapInv'
  BY <1>3, <1>4 DEF FreeValue, Whole, Tight, HeapInv
<1>6. CASE worker[w].request = "PUT"
  <2>1. Moves(w, "alloc value")
    BY <1>4, <1>6, GotoMoves DEF Places
  <2>2. Entry({"FILLED"}, "string", "free", 1)'
    BY <1>2, <1>3, <1>4, <1>6, ValueBlock DEF FreeValue, Present, Entry, Whole
  <2>3. RequestInv(w)'
    BY <1>2, <1>6, <2>1, <2>2 DEF Inside, Moves, RequestInv, PutInv, UpdateInv, At
  <2> QED
    BY <1>1, <1>4, <1>5, <1>6, <2>1, <2>3, SharedStep DEF FreeValue, Whole, Tight, Places
<1>7. CASE worker[w].request = "DELETE"
  <2>1. Moves(w, "clear value")
    BY <1>4, <1>7, GotoMoves DEF Places
  <2>2. Entry({"DELETED"}, "none", "free", 1)'
    BY <1>2, <1>3, <1>4, <1>7, ValueBlock DEF FreeValue, Entry, Whole
  <2>3. RequestInv(w)'
    BY <1>2, <1>7, <2>1, <2>2 DEF Inside, Moves, RequestInv, DeleteInv, At
  <2> QED
    BY <1>1, <1>4, <1>5, <1>7, <2>1, <2>3, SharedStep DEF FreeValue, Whole, Tight, Places
<1> QED
  BY <1>2, <1>6, <1>7

\* DELETE forgets the pointers it has freed.
LEMMA ClearPointerWhole ==
  ASSUME Whole, NEW w \in Workers, ClearPointer(w)
  PROVE  Whole'
<1>1. w \in Inside
  BY DEF ClearPointer, At, Inside
<1>2. CASE At(w, "clear key")
  <2>1. Goto(w, "old value") /\ slot' = [slot EXCEPT !.key = NULL]
    BY <1>2 DEF ClearPointer, At
  <2>2. worker[w].request = "DELETE" /\ Entry({"DELETED"}, "free", "string", 1)
    BY <1>2 DEF Whole, At, RequestInv, GetInv, PutInv, UpdateInv, InsertInv, DeleteInv, Inside
  <2>3. Moves(w, "old value")
    BY <2>1, GotoMoves DEF Places
  <2>4. /\ slot' \in [state : {"EMPTY", "FILLED", "DELETED"}, key : Pointers, value : Pointers]
        /\ slot'.state = slot.state /\ slot'.key = NULL /\ slot'.value = slot.value
    BY <2>1 DEF Whole, Tight, Pointers
  <2>5. HeapInv'
    BY <2>2, <2>4 DEF ClearPointer, Whole, HeapInv, Entry, BlockAt
  <2>6. RequestInv(w)'
    BY <2>2, <2>3, <2>4 DEF Inside, ClearPointer, Moves, RequestInv, DeleteInv, At, Entry, BlockAt
  <2> QED
    BY <1>1, <2>2, <2>3, <2>4, <2>5, <2>6, SharedStep DEF ClearPointer, Whole, Tight, Places
<1>3. CASE At(w, "clear value")
  <2>1. Goto(w, "load size") /\ slot' = [slot EXCEPT !.value = NULL]
    BY <1>3 DEF ClearPointer, At
  <2>2. worker[w].request = "DELETE" /\ Entry({"DELETED"}, "none", "free", 1)
    BY <1>3 DEF Whole, At, RequestInv, GetInv, PutInv, UpdateInv, InsertInv, DeleteInv, Inside
  <2>3. Moves(w, "load size")
    BY <2>1, GotoMoves DEF Places
  <2>4. /\ slot' \in [state : {"EMPTY", "FILLED", "DELETED"}, key : Pointers, value : Pointers]
        /\ slot'.state = slot.state /\ slot'.key = slot.key /\ slot'.value = NULL
    BY <2>1 DEF Whole, Tight, Pointers
  <2>5. slot.key = NULL
    BY <2>2 DEF Entry, BlockAt, Whole, Tight, Pointers
  <2>6. HeapInv'
    BY <2>2, <2>4, <2>5 DEF ClearPointer, Whole, HeapInv, Entry, BlockAt
  <2>7. RequestInv(w)'
    BY <2>2, <2>3, <2>4 DEF Inside, ClearPointer, Moves, RequestInv, DeleteInv, At, Entry, BlockAt
  <2> QED
    BY <1>1, <2>2, <2>3, <2>4, <2>6, <2>7, SharedStep DEF ClearPointer, Whole, Tight, Places
<1> QED
  BY <1>2, <1>3 DEF ClearPointer

\* What size++ and size-- read is still the size when they write it.
LEMMA LoadSizeWhole ==
  ASSUME Whole, NEW w \in Workers, LoadSize(w)
  PROVE  Whole'
<1>1. w \in Inside
  BY DEF LoadSize, At, Inside
<1>2. \/ /\ worker[w].request = "PUT" /\ worker[w].new
         /\ Entry({"FILLED"}, "string", "string", 0)
      \/ /\ worker[w].request = "DELETE"
         /\ Entry({"DELETED"}, "none", "none", 1)
  BY DEF Whole, LoadSize, At, RequestInv, GetInv, PutInv, UpdateInv, InsertInv, DeleteInv, Inside
<1>3. Moves(w, "store size") /\ worker'[w].count = size
  BY LoadSizeMoves
<1>4. RequestInv(w)'
  <2>1. w \in Inside'
    BY <1>1, <1>3 DEF Inside, Moves
  <2>2. UNCHANGED <<slot, heap, size>>
    BY DEF LoadSize
  <2>3. CASE worker[w].request = "PUT"
    BY <1>2, <1>3, <2>1, <2>2, <2>3
    DEF Moves, RequestInv, PutInv, InsertInv, At, Entry, BlockAt
  <2>4. CASE worker[w].request = "DELETE"
    BY <1>2, <1>3, <2>1, <2>2, <2>4 DEF Moves, RequestInv, DeleteInv, At, Entry, BlockAt
  <2> QED
    BY <1>2, <2>3, <2>4
<1> QED
  BY <1>1, <1>3, <1>4, LocalStep DEF LoadSize, Places

\* The size is that of the dictionary again when PUT and DELETE answer.
LEMMA StoreSizeWhole ==
  ASSUME Whole, NEW w \in Workers, StoreSize(w)
  PROVE  Whole'
<1>1. w \in Inside
  BY DEF StoreSize, At, Inside
<1>2. Moves(w, "idle")
  <2>1. Answer(w, 200)
    BY DEF StoreSize
  <2> QED
    BY <2>1, AnswerMoves
<1>3. \/ /\ worker[w].request = "PUT" /\ worker[w].count = 0
         /\ Entry({"FILLED"}, "string", "string", 0)
      \/ /\ worker[w].request = "DELETE" /\ worker[w].count = 1
         /\ Entry({"DELETED"}, "none", "none", 1)
  <2>1. worker[w].pc = "store size" /\ RequestInv(w)
    BY DEF Whole, StoreSize, At
  <2> QED
    BY <2>1 DEF At, RequestInv, GetInv, PutInv, UpdateInv, InsertInv, DeleteInv, Inside
<1>4. size' \in 0 .. 1 /\ (Present \/ Absent)'
  <2>1. UNCHANGED <<slot, heap>>
    BY DEF StoreSize
  <2>2. CASE worker[w].request = "PUT"
    <3>1. size' = Increment(worker[w].count)
      BY <2>2 DEF StoreSize
    <3>2. worker[w].count = 0
      BY <1>3, <2>2
    <3>3. size' = 1
      BY <1>3, <2>2, <3>1, <3>2 DEF Increment, Whole, Tight, Locals, Entry
    <3> QED
      BY <1>3, <2>1, <2>2, <3>3 DEF Present, Entry, BlockAt
  <2>3. CASE worker[w].request = "DELETE"
    <3>1. size' = Decrement(worker[w].count)
      BY <2>3 DEF StoreSize
    <3>2. worker[w].count = 1
      BY <1>3, <2>3
    <3>3. size' = 0
      BY <3>1, <3>2 DEF Decrement
    <3> QED
      BY <1>3, <2>1, <2>3, <3>3 DEF Absent, Entry, BlockAt
  <2> QED
    BY <1>3, <2>2, <2>3
<1>5. HeapInv'
  BY DEF StoreSize, Whole, HeapInv
<1> QED
  BY <1>1, <1>2, <1>3, <1>4, <1>5, SharedStep DEF StoreSize, Whole, Tight, Places

------------------------------------------------------------------------------
(* The invariant and what it gives.                                         *)

\* At first nothing runs and the dictionary is empty.
LEMMA InitWhole == Init => Whole
<1> SUFFICES ASSUME Init PROVE Whole
  OBVIOUS
<1>1. \A w \in Workers : At(w, "idle")
  BY DEF Init, At, Fresh
<1>2. Tight
  <2>1. Fresh("GET", "idle") \in Locals
    <3>1. "GET" \in Requests /\ "idle" \in Places
      BY DEF Places, Requests
    <3> QED
      BY <3>1, FreshLocals
  <2>2. worker \in [Workers -> Locals]
    BY <2>1 DEF Init
  <2>3. heap \in [Blocks -> {"free", "raw", "string"}] /\ undefined \in BOOLEAN
    BY DEF Init
  <2>4. slot \in [state : {"EMPTY", "FILLED", "DELETED"}, key : Pointers, value : Pointers]
    BY DEF Init, Pointers
  <2>5. size \in 0 .. 1
    BY DEF Init
  <2> QED
    BY <2>2, <2>3, <2>4, <2>5 DEF Tight
<1>3. Absent
  BY DEF Init, Absent, Entry, BlockAt
<1>4. HeapInv /\ ~undefined
  BY DEF Init, HeapInv
<1> QED
  <2>1. Inside = {} /\ \A w \in Workers : ~worker[w].new
    BY <1>1 DEF Inside, At, Init, Fresh
  <2> QED
    BY <1>2, <1>3, <1>4, <2>1 DEF Whole, Exclusion, RequestInv

\* Every step of every worker that does not race preserves it.
LEMMA NextWhole ==
  ASSUME Whole, [Next]_vars, ~raced'
  PROVE  Whole'
<1>1. ASSUME NEW w \in Workers, NEW request \in Requests, Begin(w, request)
      PROVE  Whole'
  BY <1>1, BeginWhole
<1>2. ASSUME NEW w \in Workers, Serve(w)
      PROVE  Whole'
  BY <1>2, CheckSizeWhole, ReadStateWhole, LoadKeyWhole, CompareKeyWhole, LoadFoundWhole,
     RespondFoundWhole, CheckFullWhole, MarkWhole, AllocKeyWhole, WriteKeyWhole,
     AllocValueWhole, WriteValueWhole, TombstoneWhole, LoadOldWhole, FreeKeyWhole,
     FreeValueWhole, ClearPointerWhole, LoadSizeWhole, StoreSizeWhole
  DEF Serve
<1>3. CASE UNCHANGED vars
  <2>1. Tight' /\ ~undefined' /\ HeapInv'
    BY <1>3 DEF vars, Whole, Tight, HeapInv
  <2>2. Exclusion'
    BY <1>3 DEF vars, Whole, Exclusion, Inside
  <2>3. (~Writing => Present \/ Absent)'
    BY <1>3 DEF vars, Whole, Writing, Inside, Present, Absent, Entry, BlockAt
  <2>4. \A w \in Workers : RequestInv(w)'
    BY <1>3, SameRequestInv DEF vars, Whole
  <2> QED
    BY <2>1, <2>2, <2>3, <2>4 DEF Whole
<1> QED
  BY <1>1, <1>2, <1>3 DEF Next

------------------------------------------------------------------------------
(* The types, which every step preserves whether requests race or not.      *)

Slots == [state : {"EMPTY", "FILLED", "DELETED"}, key : Pointers, value : Pointers]

Loose ==
  /\ slot \in Slots
  /\ heap \in [Blocks -> {"free", "raw", "string"}]
  /\ size \in 0 .. SizeModulus - 1
  /\ worker \in [Workers -> Locals]
  /\ undefined \in BOOLEAN
  /\ raced \in BOOLEAN

\* What a step of a worker does to the workers' locals.
LEMMA ServeLocals ==
  ASSUME TypeOK, NEW w \in Workers,
         \/ \E pc \in Places \ {"idle"} : Goto(w, pc)
         \/ \E pc \in Places \ {"idle"}, ptr \in Pointers : Load(w, ptr, pc)
         \/ \E status \in {200, 404, 500} : Answer(w, status)
         \/ UNCHANGED worker
  PROVE  worker' \in [Workers -> Locals]
<1>1. ASSUME NEW pc \in Places \ {"idle"}, Goto(w, pc) PROVE worker' \in [Workers -> Locals]
  BY <1>1, GotoMoves DEF Moves
<1>2. ASSUME NEW pc \in Places \ {"idle"}, NEW ptr \in Pointers, Load(w, ptr, pc)
      PROVE  worker' \in [Workers -> Locals]
  BY <1>2, LoadMoves DEF Moves
<1>3. ASSUME NEW status \in {200, 404, 500}, Answer(w, status) PROVE worker' \in [Workers -> Locals]
  BY <1>3, AnswerMoves DEF Moves
<1> QED
  BY <1>1, <1>2, <1>3 DEF TypeOK

\* Every step of a request keeps the types.
LEMMA ServeLoose ==
  ASSUME TypeOK, NEW w \in Workers, Serve(w)
  PROVE  Loose'
<1>1. slot \in Slots /\ slot.key \in Pointers /\ slot.value \in Pointers
  BY DEF TypeOK, Slots
<1>2. worker[w] \in Locals /\ worker[w].ptr \in Pointers /\ worker[w].count \in 0 .. SizeModulus - 1
  BY DEF TypeOK, Locals
<1>3. CASE CheckSize(w) \/ ReadState(w) \/ LoadKey(w) \/ LoadFound(w) \/ CheckFull(w) \/ LoadOld(w)
  <2>1. worker' \in [Workers -> Locals]
    <3>1. CASE CheckSize(w) \/ ReadState(w) \/ CheckFull(w)
      <4>1. \/ \E pc \in Places \ {"idle"} : Goto(w, pc)
            \/ Answer(w, 404) \/ Answer(w, 500)
        BY <3>1 DEF CheckSize, ReadState, CheckFull, Places
      <4> QED
        BY <4>1, ServeLocals
    <3>2. CASE LoadKey(w) \/ LoadOld(w)
      <4>1. \E pc \in Places \ {"idle"}, ptr \in Pointers : Load(w, ptr, pc)
        BY <1>1, <3>2 DEF LoadKey, LoadOld, Places
      <4> QED
        BY <4>1, ServeLocals
    <3>3. CASE LoadFound(w)
      <4>1. \/ \E pc \in Places \ {"idle"}, ptr \in Pointers : Load(w, ptr, pc)
            \/ Answer(w, 404)
        BY <1>1, <3>3 DEF LoadFound, Places
      <4> QED
        BY <4>1, ServeLocals
    <3> QED
      BY <1>3, <3>1, <3>2, <3>3
  <2>2. UNCHANGED <<slot, heap, size, undefined>>
    BY <1>3 DEF CheckSize, ReadState, LoadKey, LoadFound, CheckFull, LoadOld
  <2>3. raced' \in BOOLEAN
    BY <1>3 DEF CheckSize, ReadState, LoadKey, LoadFound, CheckFull, LoadOld, TypeOK
  <2> QED
    BY <1>1, <2>1, <2>2, <2>3 DEF Loose, TypeOK
<1>4. CASE CompareKey(w) \/ RespondFound(w)
  <2>1. worker' \in [Workers -> Locals]
    <3>1. worker[w].request \in Requests
      BY <1>2 DEF Locals
    <3>2. \/ \E pc \in {"found", "old value", "tombstone"} : Goto(w, pc)
          \/ Answer(w, 200)
          \/ UNCHANGED worker
      <4>1. CASE CompareKey(w)
        BY <3>1, <4>1 DEF CompareKey, ReadString, Undefined, Requests
      <4>2. CASE RespondFound(w)
        BY <4>2 DEF RespondFound, ReadString, Undefined
      <4> QED
        BY <1>4, <4>1, <4>2
    <3>3. ASSUME NEW pc \in {"found", "old value", "tombstone"}, Goto(w, pc)
          PROVE  worker' \in [Workers -> Locals]
      <4>1. pc \in Places \ {"idle"}
        BY DEF Places
      <4> QED
        BY <3>3, <4>1, ServeLocals
    <3>4. ASSUME Answer(w, 200) \/ UNCHANGED worker
          PROVE  worker' \in [Workers -> Locals]
      BY <3>4, ServeLocals
    <3> QED
      BY <3>2, <3>3, <3>4
  <2>2. UNCHANGED <<slot, heap, size, raced>>
    BY <1>4 DEF CompareKey, RespondFound
  <2>3. undefined' \in BOOLEAN
    BY <1>4 DEF CompareKey, RespondFound, ReadString, Undefined, TypeOK
  <2> QED
    BY <1>1, <2>1, <2>2, <2>3 DEF Loose, TypeOK
<1>5. CASE Mark(w)
  <2>1. slot' \in Slots
    BY <1>1, <1>5 DEF Mark, Slots
  <2> QED
    BY <1>5, <2>1, MarkMoves DEF Mark, Loose, TypeOK
<1>6. CASE AllocKey(w) \/ AllocValue(w)
  <2>1. worker' \in [Workers -> Locals]
    BY <1>6, ServeLocals DEF AllocKey, AllocValue, Places
  <2>2. slot' \in Slots
    BY <1>1, <1>6 DEF AllocKey, AllocValue, Slots, Pointers
  <2>3. heap' \in [Blocks -> {"free", "raw", "string"}]
    BY <1>6 DEF AllocKey, AllocValue, Malloc, TypeOK
  <2>4. UNCHANGED <<size, undefined, raced>>
    BY <1>6 DEF AllocKey, AllocValue
  <2> QED
    BY <2>1, <2>2, <2>3, <2>4 DEF Loose, TypeOK
<1>7. ASSUME NEW status \in {200, 404, 500}, Answer(w, status) PROVE worker' \in [Workers -> Locals]
  BY <1>7, AnswerMoves DEF Moves
<1>8. CASE WriteKey(w) \/ WriteValue(w)
  <2>1. PICK p \in Pointers, pc \in {"alloc value", "load size", "idle"} :
          WriteString(w, p, IF pc = "idle" THEN Answer(w, 200) ELSE Goto(w, pc))
    <3>1. CASE WriteKey(w)
      BY <1>1, <3>1 DEF WriteKey
    <3>2. CASE WriteValue(w) /\ worker[w].new
      BY <1>1, <3>2 DEF WriteValue
    <3>3. CASE WriteValue(w) /\ ~worker[w].new
      BY <1>1, <3>3 DEF WriteValue
    <3> QED
      BY <1>8, <3>1, <3>2, <3>3
  <2>2. worker' \in [Workers -> Locals]
    <3>1. ASSUME NEW place \in Places \ {"idle"}, Goto(w, place)
          PROVE  worker' \in [Workers -> Locals]
      BY <3>1, GotoMoves DEF Moves
    <3>2. CASE pc = "idle"
      <4>1. Answer(w, 200) \/ Answer(w, 500) \/ UNCHANGED worker
        BY <2>1, <3>2 DEF WriteString, SetBlock, Undefined
      <4> QED
        BY <1>7, <4>1 DEF TypeOK
    <3>3. CASE pc # "idle"
      <4>1. Goto(w, pc) \/ Answer(w, 500) \/ UNCHANGED worker
        BY <2>1, <3>3 DEF WriteString, SetBlock, Undefined
      <4>2. pc \in Places \ {"idle"}
        BY <3>3 DEF Places
      <4> QED
        BY <1>7, <3>1, <4>1, <4>2 DEF TypeOK
    <3> QED
      BY <3>2, <3>3
  <2>3. heap' \in [Blocks -> {"free", "raw", "string"}] /\ undefined' \in BOOLEAN
    BY <2>1 DEF WriteString, SetBlock, Undefined, TypeOK, Pointers
  <2>4. UNCHANGED <<slot, size, raced>>
    BY <1>8 DEF WriteKey, WriteValue
  <2> QED
    BY <1>1, <2>2, <2>3, <2>4 DEF Loose, TypeOK
<1>9. CASE Tombstone(w) \/ ClearPointer(w)
  <2>1. worker' \in [Workers -> Locals]
    BY <1>9, ServeLocals DEF Tombstone, ClearPointer, Places
  <2>2. slot' \in Slots
    BY <1>1, <1>9 DEF Tombstone, ClearPointer, Slots, Pointers
  <2>3. UNCHANGED <<heap, size, undefined, raced>>
    BY <1>9 DEF Tombstone, ClearPointer
  <2> QED
    BY <2>1, <2>2, <2>3 DEF Loose, TypeOK
<1>10. CASE FreeKey(w) \/ FreeValue(w)
  <2>1. PICK pc \in {"clear key", "alloc value", "clear value"} : Free(worker[w].ptr, Goto(w, pc))
    BY <1>10 DEF FreeKey, FreeValue
  <2>2. worker' \in [Workers -> Locals]
    <3>1. Goto(w, pc) \/ UNCHANGED worker
      BY <2>1 DEF Free, SetBlock, Undefined
    <3>2. pc \in Places \ {"idle"}
      BY DEF Places
    <3> QED
      BY <3>1, <3>2, ServeLocals
  <2>3. heap' \in [Blocks -> {"free", "raw", "string"}] /\ undefined' \in BOOLEAN
    BY <2>1 DEF Free, SetBlock, Undefined, TypeOK, Pointers
  <2>4. UNCHANGED <<slot, size, raced>>
    BY <1>10 DEF FreeKey, FreeValue
  <2> QED
    BY <1>1, <2>2, <2>3, <2>4 DEF Loose, TypeOK
<1>11. CASE LoadSize(w)
  BY <1>1, <1>11, LoadSizeMoves DEF LoadSize, Moves, Loose, TypeOK
<1>12. CASE StoreSize(w)
  <2>1. worker' \in [Workers -> Locals]
    <3>1. Answer(w, 200)
      BY <1>12 DEF StoreSize
    <3> QED
      BY <3>1, ServeLocals
  <2>2. size' \in 0 .. SizeModulus - 1
    <3>1. \A n \in 0 .. SizeModulus - 1 : /\ Increment(n) \in 0 .. SizeModulus - 1
                                         /\ Decrement(n) \in 0 .. SizeModulus - 1
      BY DEF Increment, Decrement
    <3> QED
      BY <1>2, <1>12, <3>1 DEF StoreSize
  <2> QED
    BY <1>1, <1>12, <2>1, <2>2 DEF StoreSize, Loose, TypeOK
<1> QED
  BY <1>3, <1>4, <1>5, <1>6, <1>8, <1>9, <1>10, <1>11, <1>12 DEF Serve

\* Every step keeps the types.
LEMMA NextLoose ==
  ASSUME TypeOK, [Next]_vars
  PROVE  Loose'
<1>1. ASSUME NEW w \in Workers, NEW request \in Requests, Begin(w, request)
      PROVE  Loose'
  BY <1>1, BeginMoves DEF Begin, Loose, Slots, TypeOK
<1>2. CASE UNCHANGED vars
  BY <1>2 DEF vars, Loose, Slots, TypeOK
<1> QED
  BY <1>1, <1>2, ServeLoose DEF Next

------------------------------------------------------------------------------
(* The theorems.                                                            *)

\* Races do not end.
LEMMA RacedStays ==
  ASSUME [Next]_vars, raced
  PROVE  raced'
BY DEF Next, vars, Begin, Serve, CheckSize, ReadState, LoadKey, CompareKey, LoadFound,
   RespondFound, CheckFull, Mark, AllocKey, WriteKey, AllocValue, WriteValue, Tombstone,
   LoadOld, FreeKey, FreeValue, ClearPointer, LoadSize, StoreSize

\* The types hold always, and the dictionary is whole until requests race.
THEOREM Invariance == Spec => []IInv
<1>1. Init => IInv
  <2> SUFFICES ASSUME Init PROVE IInv
    OBVIOUS
  <2>1. Tight /\ raced = FALSE
    BY InitWhole DEF Whole, Init
  <2>2. size \in 0 .. SizeModulus - 1 /\ size <= 1
    BY <2>1, Counts DEF Tight
  <2> QED
    BY <2>1, <2>2, InitWhole DEF IInv, TypeOK, Tight
<1>2. IInv /\ [Next]_vars => IInv'
  <2> SUFFICES ASSUME IInv, [Next]_vars PROVE IInv'
    OBVIOUS
  <2>1. Loose'
    BY NextLoose DEF IInv
  <2>2. CASE raced'
    BY <2>1, <2>2 DEF IInv, TypeOK, Loose, Slots
  <2>3. CASE ~raced'
    <3>1. Whole'
      BY <2>3, RacedStays, NextWhole DEF IInv
    <3>2. size' \in 0 .. 1
      BY <3>1 DEF Whole, Tight
    <3> QED
      BY <2>1, <3>1, <3>2 DEF IInv, TypeOK, Loose, Slots
  <2> QED
    BY <2>2, <2>3
<1> QED
  BY <1>1, <1>2, PTL DEF Spec

\* However requests overlap, the locals, the entry, the heap and the size keep
\* their types, and the size stays in 0 .. 1 until they race.
THEOREM TypeCorrect == Spec => []TypeOK
<1>1. IInv => TypeOK
  BY DEF IInv
<1> QED
  BY <1>1, Invariance, PTL

\* No request reads, writes or frees a string that is not there before two
\* requests, one of them a PUT or DELETE, have been past their probe together:
\* neither waiting requests, nor GETs beside GETs, nor probes that find nothing
\* while a PUT or DELETE is at work do any harm.
THEOREM MemorySafety == Spec => []MemorySafe
<1>1. IInv => MemorySafe
  BY DEF IInv, Whole, MemorySafe
<1> QED
  BY <1>1, Invariance, PTL

\* Until then no block is left behind that the entry does not point to, and
\* none is freed that it does.
THEOREM LeakFreedom == Spec => []NoLeak
<1>1. ASSUME IInv, ~raced, Writers = {}
      PROVE  {b \in Blocks : heap[b] # "free"} = {slot.key, slot.value} \ {NULL}
  <2>1. Present \/ Absent
    BY <1>1 DEF IInv, Whole, Writing, Writers
  <2>2. \A b \in Blocks : heap[b] # "free" => b \in {slot.key, slot.value}
    BY <1>1 DEF IInv, Whole, HeapInv
  <2>3. \A p \in {slot.key, slot.value} \ {NULL} : p \in Blocks /\ heap[p] # "free"
    BY <1>1, <2>1 DEF Present, Absent, Entry, BlockAt, IInv, TypeOK, Pointers
  <2> QED
    BY <2>2, <2>3
<1> QED
  BY <1>1, Invariance, PTL DEF NoLeak

\* A step of one worker leaves the others where they are.
LEMMA OthersStay ==
  ASSUME Whole, NEW v \in Workers, Serve(v), NEW w \in Workers \ {v}
  PROVE  worker'[w] = worker[w]
<1>1. worker \in [Workers -> Locals]
  BY DEF Whole, Tight
<1>2. \A pc : Goto(v, pc) => worker'[w] = worker[w]
  BY <1>1 DEF Goto
<1>3. \A ptr, pc : Load(v, ptr, pc) => worker'[w] = worker[w]
  BY <1>1 DEF Load
<1>4. \A status : Answer(v, status) => worker'[w] = worker[w]
  BY <1>1 DEF Answer
<1>5. Undefined => worker'[w] = worker[w]
  BY DEF Undefined
<1>6. CASE \/ CheckSize(v) \/ ReadState(v) \/ LoadKey(v) \/ LoadFound(v) \/ CheckFull(v)
          \/ LoadOld(v)
  BY <1>2, <1>3, <1>4, <1>6 DEF CheckSize, ReadState, LoadKey, LoadFound, CheckFull, LoadOld
<1>7. CASE CompareKey(v) \/ RespondFound(v)
  BY <1>2, <1>4, <1>5, <1>7 DEF CompareKey, RespondFound, ReadString
<1>8. CASE AllocKey(v) \/ AllocValue(v) \/ Tombstone(v) \/ ClearPointer(v) \/ StoreSize(v)
  BY <1>2, <1>4, <1>8 DEF AllocKey, AllocValue, Tombstone, ClearPointer, StoreSize
<1>9. CASE WriteKey(v) \/ WriteValue(v)
  BY <1>2, <1>4, <1>5, <1>9 DEF WriteKey, WriteValue, WriteString, SetBlock
<1>10. CASE FreeKey(v) \/ FreeValue(v)
  BY <1>2, <1>5, <1>10 DEF FreeKey, FreeValue, Free, SetBlock
<1>11. CASE Mark(v) \/ LoadSize(v)
  BY <1>1, <1>11 DEF Mark, LoadSize
<1> QED
  BY <1>6, <1>7, <1>8, <1>9, <1>10, <1>11 DEF Serve

\* A GET answers 404 when its probe does not find the entry, and 200 when it has
\* read its value.
LEMMA GetAnswer ==
  ASSUME Whole, NEW w \in Workers, Serve(w),
         Writers = {}, worker[w].request = "GET", ~At(w, "idle"), At(w, "idle")'
  PROVE  worker'[w].status = 200 <=> size = 1
<1>1. worker \in [Workers -> Locals]
  BY DEF Whole, Tight
<1>2. w \in Inside => GetInv(w)
  BY DEF Inside, Whole, RequestInv
<1>3. Present \/ Absent
  BY DEF Whole, Writing, Writers
<1>4. \A status \in {200, 404, 500} : Answer(w, status) => worker'[w].status = status
  BY AnswerMoves
<1>5. \A pc \in Places \ {"idle"} : Goto(w, pc) => worker'[w].pc = pc
  BY GotoMoves DEF Moves
<1>6. CASE At(w, "state")
  <2>1. ReadState(w)
    BY <1>6 DEF Serve, At, CheckSize, LoadKey, CompareKey, LoadFound, RespondFound, CheckFull, Mark,
       AllocKey, WriteKey, AllocValue, WriteValue, Tombstone, LoadOld, FreeKey, FreeValue,
       ClearPointer, LoadSize, StoreSize
  <2>2. CASE slot.state = "FILLED"
    BY <1>5, <2>1, <2>2 DEF ReadState, At, Places
  <2>3. CASE slot.state # "FILLED"
    <3>1. Answer(w, 404)
      BY <2>1, <2>3 DEF ReadState
    <3>2. size = 0
      BY <1>3, <2>3 DEF Present, Absent, Entry
    <3> QED
      BY <1>4, <3>1, <3>2
  <2> QED
    BY <2>2, <2>3
<1>7. CASE At(w, "respond")
  <2>1. RespondFound(w)
    BY <1>7 DEF Serve, At, CheckSize, ReadState, LoadKey, CompareKey, LoadFound, CheckFull, Mark,
       AllocKey, WriteKey, AllocValue, WriteValue, Tombstone, LoadOld, FreeKey, FreeValue,
       ClearPointer, LoadSize, StoreSize
  <2>2. Present /\ worker[w].ptr = slot.value
    BY <1>2, <1>7 DEF GetInv, At, Inside
  <2>3. Answer(w, 200) /\ size = 1
    BY <2>1, <2>2
    DEF RespondFound, ReadString, Present, Entry, BlockAt, Whole, Tight, Pointers
  <2> QED
    BY <1>4, <2>3
<1>8. CASE At(w, "key") \/ At(w, "compare") \/ At(w, "found")
  <2>1. LoadKey(w) \/ CompareKey(w) \/ LoadFound(w)
    BY <1>8 DEF Serve, At, CheckSize, ReadState, RespondFound, CheckFull, Mark,
       AllocKey, WriteKey, AllocValue, WriteValue, Tombstone, LoadOld, FreeKey, FreeValue,
       ClearPointer, LoadSize, StoreSize
  <2>2. Present
    BY <1>2, <1>8 DEF GetInv, At, Inside
  <2>3. slot.key # NULL /\ slot.value # NULL /\ slot.key \in Pointers /\ slot.value \in Pointers
    BY <2>2 DEF Present, Entry, BlockAt, Whole, Tight
  <2>4. CASE LoadKey(w)
    <3>1. worker'[w].pc = "compare"
      BY <2>3, <2>4, LoadMoves DEF LoadKey, Moves, Places
    <3> QED
      BY <3>1 DEF At
  <2>5. CASE LoadFound(w)
    <3>1. worker'[w].pc = "respond"
      BY <2>3, <2>5, LoadMoves DEF LoadFound, Moves, Places
    <3> QED
      BY <3>1 DEF At
  <2>6. CASE CompareKey(w)
    <3>1. worker[w].ptr = slot.key
      BY <1>2, <2>6 DEF GetInv, CompareKey, At, Inside
    <3>2. Goto(w, "found")
      BY <2>2, <2>6, <3>1
      DEF CompareKey, ReadString, Present, Entry, BlockAt, Whole, Tight, Pointers
    <3> QED
      BY <1>5, <3>2 DEF At, Places
  <2> QED
    BY <2>1, <2>4, <2>5, <2>6
<1>9. CASE At(w, "size")
  <2>1. CheckSize(w)
    BY <1>9 DEF Serve, At, ReadState, LoadKey, CompareKey, LoadFound, RespondFound, CheckFull, Mark,
       AllocKey, WriteKey, AllocValue, WriteValue, Tombstone, LoadOld, FreeKey, FreeValue,
       ClearPointer, LoadSize, StoreSize
  <2>2. CASE size = 0
    <3>1. Answer(w, 404)
      BY <2>1, <2>2 DEF CheckSize
    <3> QED
      BY <1>4, <2>2, <3>1
  <2>3. CASE size # 0
    BY <1>5, <2>1, <2>3 DEF CheckSize, At, Places
  <2> QED
    BY <2>2, <2>3
<1>10. \/ At(w, "size") \/ At(w, "state") \/ At(w, "key") \/ At(w, "compare") \/ At(w, "found")
       \/ At(w, "respond")
  BY <1>2 DEF GetInv, Inside, At
<1> QED
  BY <1>6, <1>7, <1>8, <1>9, <1>10

\* Until requests race, a GET that answers while no PUT or DELETE is at work
\* says what the last PUT or DELETE left.
THEOREM FreshAnswers == Spec => AnswersFresh
<1>1. ASSUME IInv, [Next]_vars, NEW w \in Workers, ~raced, Writers = {},
             worker[w].request = "GET", ~At(w, "idle"), At(w, "idle")'
      PROVE  worker'[w].status = 200 <=> size = 1
  <2>0. Whole
    BY <1>1 DEF IInv
  <2>1. worker \in [Workers -> Locals] /\ worker'[w] # worker[w]
    BY <1>1, <2>0 DEF Whole, Tight, At
  <2>2. PICK v \in Workers : (\E request \in Requests : Begin(v, request)) \/ Serve(v)
    BY <1>1, <2>1 DEF Next, vars
  <2>3. v = w
    <3>1. CASE Serve(v)
      BY <1>1, <2>0, <2>1, <3>1, OthersStay
    <3>2. CASE \E request \in Requests : Begin(v, request)
      BY <2>1, <3>2 DEF Begin
    <3> QED
      BY <2>2, <3>1, <3>2
  <2>4. Serve(w)
    BY <1>1, <2>2, <2>3 DEF Begin
  <2> QED
    BY <1>1, <2>0, <2>4, GetAnswer
<1>2. IInv /\ [Next]_vars =>
        [\A w \in Workers :
           /\ worker[w].request = "GET" /\ ~At(w, "idle") /\ At(w, "idle")'
           /\ ~raced /\ Writers = {}
           => (worker'[w].status = 200 <=> size = 1)]_vars
  BY <1>1
<1> QED
  BY <1>2, Invariance, PTL DEF Spec, AnswersFresh
=============================================================================
