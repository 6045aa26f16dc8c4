# A specification of CeriousDB

TLA+ modules that model the running parts of CeriousDB, TLC configurations that
check them on small instances, and proofs, for every size, about the dictionary,
the accept loop and its workers, the functions that serve requests, the reader of
`.env` and the start-up of the process. Paths below are relative to the repository; `server.c` is
`src/ceriousapi/server.c`, `str_dictionary.c` is
`src/dictionary/str_dictionary.c`, and so on.

## 1. The system

CeriousDB is one process that serves a string-to-string map over HTTP. `main`
loads the configuration, registers four routes, starts the server thread and
then runs the terminal interface until it returns, which ends the process.

| Component | State | Operations | Interacts with | What makes it correct |
| --- | --- | --- | --- | --- |
| dictionary (`str_dictionary.c`) | array of entries (EMPTY, FILLED, DELETED), capacity, size | new, insert, remove, get, contains, size, getall, free; resize inside insert | called by the cache; hash values from xxhash; malloc | it is a map; keys are unique and reachable by their probe; size counts the entries; a free slot is left for every probe to end at |
| routing (`server.c`) | array of routes, `route_count` | `ceriousapi_setroute`; the lookup in `execute_function` | filled by `main`, read by every worker | a registration is stored in the array or refused |
| server (`server.c`) | listening socket, descriptor table, one detached thread per connection, strtok's static position | accept loop; parse, execute, respond, close | clients; route functions | every worker keeps its own client; every descriptor is closed once; no client waits for another before `accept` or `pthread_detach` has failed |
| route functions and cache (`main.c`, `cache.c`) | the one shared dictionary | head, get, put, delete (and three that no request reaches) | called by workers, call the dictionary and `respond` | strings read are still there; nothing leaks; the entry is counted once; a GET sees the last PUT or DELETE |
| interface (`interface.c`) | stdin and stdio's buffer, start time | print the prompt, select, read a line, run the command | ends the process | `q` or `stop` on a line of its own ends the process, and nothing else does |
| config (`config.c`) | four globals | defaults, then `.env`, then arguments | dotenv, getopt, `ceriousapi_setconf` | later sources win; the port is one that can be bound |
| dotenv (`dotenv.c`) | the process environment, a mutex | `load_dotenv_f`, `get_env` | config | every line has the effect the header says, and the lines around it none on it; every failure is reported, also that of a read |
| logging (`logging.c`) | the level, a mutex | set the level, print | everyone | messages are filtered by the level last set |
| ceriousdb-cli | none | none (empty file) | | |
| xxhash | none | vendored hash function | dictionary | |

**Hard behaviours.** Threads: any number of workers run at once, with no lock on
the dictionary and with `strtok`'s hidden static pointer. Descriptors are reused
as soon as they are closed. Clients may send part of a request, nothing, or
leave. `accept`, `malloc`, `pthread_create`, `pthread_detach`, `read` and
`write` can fail, and `write` can raise SIGPIPE. In the dictionary the hard part
is long sequences: tombstones, wrapped probes and resizes that happen together,
and a `malloc` that fails halfway through an insertion. In the interface `select`
watches a descriptor while `fgets` reads from a buffer in front of it. In the
configuration five sources write the same globals one after the other, and the
server thread starts while `main` is still running. In the reader of `.env` the hard
part is where a line ends: at the buffer's limit, in quotes, or in a comment.

## 2. The modules

| Module | Models | Role |
| --- | --- | --- |
| `KVStore` | a map with a lifetime and failing calls | what the dictionary promises |
| `StrDictionary` | `str_dictionary.c`, one action per call | the dictionary |
| `StrDictionaryLoops` | the probe and rehash loops of the same file, one iteration a step | shows that `StrDictionary` states them correctly |
| `StrDictionaryProofs` | | theorems about `StrDictionary`, its refinement of `KVStore` among them |
| `StrDictionaryLoopsProofs` | | theorems about `StrDictionaryLoops`: it implements `StrDictionary` |
| `Dispatch` | the lookup of `execute_function` | operator used by `Server` |
| `Routing` | `ceriousapi_setroute` and the route table | before the server starts |
| `Server` | `server_loop`, `process_single_request`, `parse_requestline`, `respond` | threads and descriptors |
| `ServerProofs` | | theorems about `Server` |
| `Handlers` | `head`, `get`, `put`, `handle_delete` with the cache and dictionary code under them, access by access | threads and the heap |
| `HandlersProofs` | | theorems about `Handlers` |
| `Dotenv` | `load_dotenv_f` and what it parses with | the reader of `.env` |
| `DotenvProofs` | | theorems about `Dotenv` |
| `Config` | `config.c`, `get_env`, the level of `logging.c`, the address of `server.c` | operators used by `App` |
| `Interface` | `server_interface`, stdio and whoever writes to it | the loop on standard input |
| `App` | `main`, `run_app`, `ceriousapi_setconf`, `ceriousapi_startserver`, composed with `Interface` | the process from start to end |
| `AppProofs` | | theorems about `App` |
| `Foundations` | | lemmas on least elements and on sums of sequences, for the proofs |
| `MC*` | | values for the constants |

### StrDictionary

A call is one step: the dictionary itself has no concurrency, and what workers
do to it without a lock is the subject of `Handlers`. The variables are the
fields of the struct; `capacity = 0` stands for a NULL dictionary, `ret` is the
result of the last call and `crashed` records a dereference of NULL.

The probe loops are conditions on the offsets they visit: `Reaches(e, c, k, j)`
says that the loop of `find_get_index` gets to the `j`-th slot, `Hits` that it
ends there with the key, `FreeAt` where a new key goes. `IsRehash` says where
each old entry goes in a resize.

`StrDictionaryLoops` is the same file with its loops turned: a call that probes begins
(`CallFind`, `CallInsert`), takes a step for each iteration, and returns. `loop` holds the
arguments and local variables of the call, `index`, `first_deleted` and the `i` of `resize`
among them, and the table the call works on. `entries` and `capacity` stay what they were
when the call began and are written when it returns; nothing else reads them meanwhile, as
one thread makes the call. `resize` calls `dict_insert` for every old entry: `at` is "rehash"
in the one and "place" in the other. The load-factor check of these insertions is
a guard of `RehashPlaces`, with no step for the case that it asks for another resize:
`NoNestedResize` says that it never does.

Every `malloc` may fail when `FailingAllocs` says so, in one of four groups:
the struct and array of a dictionary, the array of a resize, the copies of key
and value, the JSON text. When the copy of a key fails the entry stays FILLED
with a NULL key, as in the code (`InsertNew`), and the next probe through it
dereferences NULL (`Crash`). `SizeModulus` is 2^(width of `size_t`), so the
doubling in `resize` wraps and its check is not vacuous; the multiplication by
`sizeof(entry)` inside `malloc` is not modelled. NULL passed as a key or a value returns
at once and is left out.

### Routing and Dispatch

`HandlerOf` is the loop of `execute_function`. Every branch of its body returns,
so only the first route is ever compared; `main.c` registers four. The
repository's README says that "automatic path routing is currently pending
implementation", so this is recorded here and in `HandlerOf`, not reported as a
disagreement: until then `/db/all`, `/db/count` and `/health` are refused.

`Routing` is the array that `main` fills. Its check for a full array compares with `>`
where it needs `>=`, so the call that finds the array full is let through and writes behind
it. What lies there the language does not say: `SetRouteOverrun` sets `undefined` and the
behaviour ends, as the program means nothing any more. `StoredInArray` says that it never
happens, and `routes_limit` refutes it.

### Server

A connection is both a client and the worker thread started for it. A step is
one system or library call on something shared. `fds` is the part of the
process's descriptor table that is left for clients; `accept` takes the lowest
free one, `close` frees it, and a `close` of a free one does nothing (EBADF).
`strtok` is glibc's static pointer, as a worker's `request_line` and the token it
has come to; a call of `strtok(NULL, ...)` loads it in one step and stores it in
another, so that two calls may race. When it points into the stack frame of a
`parse_requestline` that has returned, any path may come out, and when that
thread is gone the process may die. A request arrives in one `read`, cut after any token (or empty);
the cut inside a token is not modelled. `respond` writes a header and perhaps a
body; with no body one write is all. A route function is external: it ends in
one `respond`. That all of them do is seen in `main.c`.

`failed` is a history of the calls whose failure changes what the loop does from then on:
`accept`, whose failure ends it, for want of a descriptor (`FreeFds = {}`) or for another reason
(`FailingCalls`), and `pthread_detach`, after whose failure the loop joins the worker and
waits with it for its client. `EventuallyAccepted` makes its claim for the time before. `Vanished`
are the clients that dropped their connection after their request: with the first of them a
write may fail, and the worker closes its client twice.

Left out: the branch of `respond` for a header that does not fit (the buffer
holds every header the code can build), the test `client == 0` in
`execute_function` (0 is stdin), the NULL argument of the worker (it never is).

### Handlers

The server leaves a request's key and value empty (`parse_requestline` casts
them to void), so every request works on key `""` and a dictionary with at most
one entry, in one slot, which never needs a resize. (The dictionary
starts with 64 slots.) That makes it possible to
model the four route functions access by access: the two pointers and the state
of the entry, `dict->size` as a load and a store (modulo `SizeModulus`, as two DELETEs
may take it below 0), each `malloc` and `free`, and a heap that knows which blocks are
free, unwritten or hold a string. `dict_insert` looks at an EMPTY slot a second time before
it marks it, and answers 500 when another PUT has filled it (`CheckFull`). The value is
always `""`, so `respond` reads it once, for its length: with a length of 0 the body is not
written (`server.c:267`). A step that uses a string that is not there sets `undefined` and ends
the behaviour. Any requests may overlap, since the server does not keep them apart. The
accesses are interleaved in program order; what a compiler or a weak memory
model adds to a data race is not modelled and could only add bad outcomes.

The history `raced` becomes TRUE when two requests, not both GETs, are past their probe of
the slot together (`Inside`). The safety properties are about the time before: a request may
begin, wait, test the size and probe while a PUT or DELETE is in the middle of its writes, and
readers may overlap, yet all strings are there, none is lost, and the count and the answers are
right. With the first race all four may fail; `handlers_overlap` shows how.

### Dotenv

One step is one turn of the `fgets` loop: `TrashLine` for a line that does not fit the
buffer, `ReadLine` for any other. The parsing is pure (`Parse`), with one operator per
helper of the source. A text is a sequence of characters; only those the parser compares
with are told apart, and all white space within a line is " ". The inputs are files of lines
(`Lines`), each given together with what it is *meant* to say in the words of `dotenv.h`, so
that `LineByLine` compares the parser with a meaning it did not compute. What a file is,
whatever its lines say, is in `DotenvAssumption`: no line has a line end inside, and only
the last may lack one. That the parser agrees with the meaning of each single line is
`MeantAsParsed`, which TLC evaluates on the inputs of `MCDotenv` as an assumption. In the
loop, `strlen(line) > MAX_ENV_FILE_LINE_LEN` after the cut, and the test of `feof` beside a
full buffer, can never decide anything; both are noted where they belong. Any read may fail
(`ReadFails`): `fgets` then returns NULL as at the end of the file, nothing asks `ferror`,
and the result is what the lines before made it. `pc` tells the two ends apart, "returned"
and "failed": `FailureReported` is about files that are missing or read to their end,
`ReadErrorReported` about the others. The mutex is not modelled: `load_dotenv_f` is called
once, before there is a second thread. Neither are NUL bytes inside a file.

### Config, Interface and App

`App` is the life of the process. `stage` is where `main` is, `Following` the order of its
steps; each call that can fail may fail (`Fail`), and `SetConf`, `InitCache`, `Bind`, ...
have the effects of the functions of that name. `Config` has the sources of the settings as
operators: `FromEnv` for what `load_configs_from_env` does after `.env` has been loaded,
`WithArg` and `ValidArg` for one turn of the loop over the arguments. A port is the number
that `atoi` reads, and `AddressOf` keeps the 16 bits that `htons` keeps. `LaterSourcesWin`
covers every number: from an argument only 1 to 65535, from the environment or `.env` any,
of which 0 stands for the default, and the others, negative ones included, are cut to 16
bits (65536 to 0, for which the kernel chooses a port). The default port is the constant of
`config.h`. What `.env` says enters `App` as the settings that `Dotenv` would make of it
(`given.dotenv`) and whether it was well formed (`given.ok`).

`Interface` is the loop of `select` and `fgets`. `script` is cut into chunks that
somebody writes one after another; a `read` returns one of them on a terminal and
all there is on a pipe. stdio's `buffer` lies between `read` and `fgets`, `select`
sees only what has not been read, and an end of file, once seen, is kept (`eof`), as
glibc keeps it. `q` stands for both commands. The half second after which `select`
returns and the prompt is printed again changes nothing and is a stuttering step.

The server thread is only started in `App`; what it then does is `Server`, and what
its workers do to the cache is `Handlers`. `ReadyBeforeServing` and `SettingsFrozen`
are what those modules assume of the start: routes, dictionary and socket
are there before the first `accept` and are not touched again. The dictionary may
be NULL then (`cache_init` does not look), which every function of it copes with.

## 3. What is checked

| Run | Bounds | Shows |
| --- | --- | --- |
| `dict_map` | 3 keys, 2 values, capacities 1 to 6, a 3-bit `size_t` | the dictionary implements `KVStore`; it never fills up; no entry lacks a string; it never shrinks |
| `dict_failures` | 3 keys, capacities 1 to 12, every malloc may fail, loops turned one iteration a step | unique, reachable, counted keys in spite of half-made entries; the loops implement the calls; a resize causes no other; every call ends |
| `dict_calls_return` | as `dict_map`, failing copies | **violated**: after a failed copy a later call dereferences NULL |
| `routes_limit` | an array of 2 routes, 2 paths and NULL | **violated**: the registration that finds the array full is written past its end |
| `server_serve` | 2 connections, 2 descriptors, fair threads, every call of the loop may fail, clients may vanish | no descriptor is left that nobody will close; until a client vanishes, own client and no cross talk; everyone is closed; until accept or detach fails, everyone is accepted |
| `server_own_path` | 2 connections | **violated**: a request is answered for another request's path |
| `server_double_close` | 2 connections, 1 descriptor | **violated**: a worker closes a descriptor that is another connection's |
| `handlers_serve` | 3 workers, 2 blocks, `SizeModulus` 3, all requests overlap | until requests have raced, strings are there, nothing leaks, the count is right, answers are fresh |
| `handlers_overlap` | 3 workers, 3 blocks | **violated**: the value a GET sends is freed under it |
| `dotenv_load` | every way to write an assignment from 7 names, 12 values and 3 comments; files of 3 lines, a limit of 10 characters | lines take effect one by one as they are meant; failures are reported; what exists is kept |
| `dotenv_read_error` | the same | **violated**: a read that fails counts as the end of the file, and 0 is returned |
| `app_run` | 16 environments, 36 `.env` files, up to 2 arguments of 6; scripts of up to 3 chunks, lines of up to 2 characters | the right source wins; the server starts when all is ready; stop, and only stop, ends it |

**The bounds.** In the dictionary, k1 and k2 have the same hash and wrap round the end of
the table onto k3's slot, so a probe of three slots with a tombstone in the middle, a reused
tombstone, a wrapped probe and two consecutive resizes all occur; a fourth key would only
lengthen the probe. Three bits of `size_t` let the doubling wrap. In the server two
connections suffice for every interference of two workers and for a descriptor to be reused
(one closes, the other is accepted); safety was also run once with three connections,
without a new behaviour. When both descriptors are taken there is no third client to refuse,
but `accept` may fail at any time (`FailingCalls`), which is the same step of the loop; one
descriptor for two clients, where want of a descriptor ends it, was run as well. In
`Handlers` an entry holds two blocks, which a PUT after a DELETE may take in either role;
three workers give a reader and a writer beside one that waits or probes, and a size below 3
tells the counts 0, 1 and a wrong one apart. `handlers_overlap` has a third block, so that
the freed one need not come back. In `Routing` two routes fill the array. In `Dotenv` lines
have the limit's length, one character more, and enough more for their tail to be an
assignment of its own; three lines put one of them between two others, and give a name twice
or three times. In `App` two arguments can disagree with each other and with every file;
three chunks are enough for a command to come before, after and in the middle of another
line, before and after an end of file, and `MAXINPUT_LEN` of 3 makes lines of three
characters too long. Configuration and typing are explored beside a plain choice of the
other, as no step of one reads a variable of the other.

**Symmetry.** `handlers_serve` takes workers and blocks for interchangeable. No definition
chooses among them (`Malloc` is an `\E`), no property names one, and the run checks no
liveness, so this is sound.

**Deadlock.** The server's runs allow it: when all requests are served, or the process has
died, nothing more happens. The handlers and the routes stop with `undefined`. The
dictionary stops only after a crash. `dotenv_load` and `app_run` end when the function or
the process has returned, and the interface waits for ever when nobody types.

**Fairness.** `StrDictionaryLoops!LoopFairSpec` assumes that a thread inside a call goes on
(weak fairness of a turn of its loop), and nothing about who calls what. `Server!FairSpec`
assumes that the operating system runs each thread that is not blocked: weak fairness of the
accept loop and of each worker. A blocked `accept` or `read` is an action that is not
enabled. Clients are not fair: they may connect and stay silent for ever, so a connection is
only claimed to be closed once its client has sent something or has given up, and
`EventuallyAccepted` holds although workers may wait for ever. It claims nothing once
`accept` has failed: a silent client keeps its descriptor, and when such clients hold all of
them the next `accept` fails and the loop ends. Nor once `pthread_detach` has failed, when
the loop waits for a worker and thus for a client.

`App!FairSpec` assumes the same of the main thread, in `main` and in the interface
(`WF(Main)`, `WF(Interface)`). Nobody has to type, and `select` need not fail. Weak
fairness is enough since nothing but the thread itself disables its next step. `StopStops` on
a pipe asks for the writer to hang up: as long as it does not, a stop behind another
line may stay in stdio's buffer while `select` waits for the descriptor.

**Races.** Nothing in the server keeps a PUT or DELETE from overlapping another request.
`handlers_serve` lets them: its properties stop at the first race (`raced`), not at the
first overlap, and `handlers_overlap` shows that they have to.

### Disagreements found

1. `str_dictionary.c:313`: an insertion whose `malloc` fails leaves a FILLED entry
   with a NULL key; the next call that probes past it crashes instead of
   returning its error value (`CallsReturn`).
2. `server.c:97`: `strtok` in threads; a request may be routed by another one's
   path (`RoutedByOwnPath`).
3. `server.c:165`: `respond` has closed the client even when it fails, and the
   worker closes the number again (`TouchesNoOther`).
4. `main.c:33`: `respond` is given a pointer into the dictionary that another
   worker may free (`FoundValueValid`).
5. `server.c:45`: `>` for `>=`; the registration that finds the array full is written
   behind it instead of being refused (`StoredInArray`). `main` registers four routes and
   the array has 512, so this program does not get there.
6. `dotenv.c:162`: a read error ends the loop as the end of the file does, and 0 is returned
   where `dotenv.h` promises -1 (`ReadErrorReported`).

### Observations

What the code does and the models have, without a run of its own:

- `config.h:20`: the default port is 8000; `src/README.md:67` gives the default of
  `CERIOUSDB_PORT` as 8080, and its example (`:54`) uses `http://127.0.0.1:8080/db`. The models
  take the code's constant; two constants that differ need no run.
- `main.c:33`: once requests race, more than a freed string can go wrong: two DELETEs may
  both uncount the entry and wrap the size, two PUTs may both count it or lose a block.
- `str_dictionary.c:286`: an update frees the old value before it allocates the new one; when
  that `malloc` fails the key stays and its value is lost.
- `server.c:180`: any failure of `accept`, running out of descriptors included,
  silently ends the accept loop; process and interface run on.
- `config.c:24`: a port of the environment or `.env` is not checked. One that is negative or has
  more than 16 bits is truncated by `htons`; only 0 falls back to the default. `LaterSourcesWin`
  states this.
- `interface.c:151`: after an end of file typed on a terminal glibc's stdin stays at its
  end: a `q` typed later is never heard. On a pipe that is hung up `select` returns at
  once each time, and the loop spins.
- `interface.c:151`: `fgets` returns a line that is too long in pieces, and the last of them may be `q`.
- `dotenv.c:167`: a lone CR that is the last character of a full buffer passes for a line end, and
  what follows it is read as a new line. `LineByLine` covers CR only before LF.

## 4. What is proved

`StrDictionaryProofs`, checked by TLAPS, holds for
every set of keys and values, every hash function, every width of `size_t` and
every set of failing mallocs:

- `TypeTheorem`, `UniqueTheorem`, `ReachableTheorem`, `CountTheorem`: `TypeOK`, `KeysUnique`,
  `ProbeReachable` and `SizeIsEntryCount` are invariants.
- `RoomTheorem`: after the load-factor check a slot is free (`RoomForNewKey`).
- `CapacityTheorem`: the action property `CapacityNeverShrinks`.
- `CompleteTheorem`: where the copies of strings never fail, every entry has both its
  strings (`FilledEntriesComplete`).
- `Refinement`: under the same assumption, `Spec` implies `ImplementsMap`, that is,
  the dictionary implements `KVStore`.

The argument: `IInv` consists of the structural invariant `TableInv(entries, capacity,
size)` and the type of `crashed`. `TableInv` is inductive only as a whole. That an insertion
finds no second copy of a key needs both uniqueness and reachability; reachability after a
removal needs the tombstone; that `FreeAt` does not put an entry behind an EMPTY slot needs
reachability of everything before it. For a resize, a rehash position is a slot on the new
probe path whose predecessors are all taken, hence reachable, and two entries share no
position, hence unique. The lemmas follow the operations (`UpdateTableInv`,
`RemoveTableInv`, `InsertTableInv`, `RehashTableInv`), and `NextIInv` combines them, one
step per action. `LeastElement` of `Foundations` (a nonempty set of naturals has a least
element) is derived from the well-foundedness of strict inclusion on finite sets, since
induction over a predicate is out of the prover's reach. `DictAssumption` is the only
assumption: NULL is not a string, hashes are naturals, the default capacity fits in
`size_t`.

For the refinement, a table stands for `Contents(entries)`, the value under each
key. The lemmas say what each operation does to the contents (a rehash: nothing)
and `NoCrash` that under the assumption no probe meets a NULL key.

`StrDictionaryLoopsProofs` holds for the same constants:

- `LoopsTheorem`: `LoopSpec` implies `LoopsImplementCalls`, that is, every turn of a loop is
  a stutter of `StrDictionary` except the one with which the call returns, and that
  is a step of the call. With it, everything above holds of the loops.
- `NoNestedResizeTheorem`: the insertions of a resize never ask for a resize.

`LoopInv` adds to `IInv` what is true at each place of a call: `Finding`, that the slots before
`index` on the path of the key did not end the probe; `OnPath`, the same for `dict_insert`,
with `first_deleted` the first tombstone among them (`Passed`); `Rehashing`, that the new
table holds the entries of the slots below `i`, each at a place of its own behind
places that are taken (`Places`), and nothing else. `Places` of all slots is the rehash that
`IsRehash` asks for, and the counts of both tables give the room for the next entry and the
load factor. The rest is the arithmetic of `%`: `(index + 1) % capacity` goes along the path
(`NextOnPath`), which visits every slot once (`PathCovers`) and comes back to its beginning
only after all of them (`RoundEnds`).

`HandlersProofs` holds for any number of workers and blocks and any width of `size_t`, with
requests that overlap as they please; assumed is only that NULL is no block and that
sizes go up to 1 at least (`HandlersAssumption`):

- `TypeCorrect`: `TypeOK`, with the count of at most one entry until requests have raced.
- `MemorySafety`: until then no request uses a string that is not there (`MemorySafe`).
- `LeakFreedom`: until then, when no PUT or DELETE is past its probe, the heap holds the
  entry's strings (`NoLeak`).
- `FreshAnswers`: the action property `AnswersFresh`.

Nobody enforces that requests do not race: the theorems say how far the code is safe, and
that it is the race, not waiting or probing beside a writer, that harms it.

None of the last three is inductive, because a request disturbs the entry for several
steps. The invariant is `IInv`, `TypeOK` and `raced \/ Whole`. `Whole` says for every place of
every request what the two pointers of the entry point to and what the size is (`GetInv`, `PutInv`,
`DeleteInv`), that only GETs are inside together (`Exclusion`), that the entry is whole or absent
while nobody writes, and that nothing is allocated but what the entry points to.
`Frame` reduces it to the worker that steps: a GET changes nothing shared, and a PUT or DELETE that
is inside has nobody inside beside it. One lemma per action follows (`CheckSizeWhole`
to `StoreSizeWhole`); for `ReadState`, where a request gets inside, either nobody else writes
or `raced` becomes TRUE. After a race only types are left, which `NextLoose` keeps, and `RacedStays`
says that it is never undone.

`ServerProofs` holds for any number of connections and descriptors, any request lines,
any order of steps and any set of failing calls of the accept loop:

- `TypeTheorem`: `TypeOK`.
- `LeakTheorem`: no descriptor is left that nobody will close (`NoDescriptorLeak`), with
  clients that vanish and descriptors that are closed twice.
- `OwnsTheorem`, `CrossTalkTheorem`: `OwnsClient` and `NoCrossTalk`, which both speak of the time
  until a client drops its connection after its request. After that
  `server_double_close` refutes a weaker property than `OwnsClient`.

`Types` adds to the types that strtok never points before the path of a line, which is what
makes the path a path. `Leak` adds to `NoDescriptorLeak` that a worker serves the descriptor
in its argument, and that a connection accept has not returned, or that waits for its
thread, has an idle worker. `Own` adds to the two properties the descriptors that are
still on their way (in the accept loop, in an argument), until a client has vanished
(`VanishedStays`: none comes back), and `Waiting`: who has sent a request
is not gone, so no write fails, and the one path that closes twice is not taken. `WorkMoves` and
`WorkAnswers` say what a step of a worker changes, so that the invariants need not go through
its nine actions. `accept` takes the least free descriptor, which exists by `LeastElement`.
`ServerAssumption` is assumed: descriptors are positive, and the words of a request after
its method are among the paths.

`AppProofs` holds for every set of inputs, of failing calls and of bad hosts:

- `ReadyTheorem`: the server thread exists only when what its workers read is
  complete (`ReadyBeforeServing`).
- `FrozenTheorem`: the action property `SettingsFrozen`.
- `SourcesTheorem`: each setting of the address, and the level, come from the last
  source that has one (`LaterSourcesWin`), whatever number the port is.
- `OnlyStopTheorem`: only a line that asks for it ends a server that runs well
  (`OnlyStopStops`), however the text is cut into chunks, whenever they are written and
  read, on a terminal or a pipe, and whatever the length of the buffer.

The first two follow from `Progress`, which says what has been done when `main` is at
a stage. For the third `Sources` says of the loop over the arguments that the settings
are what the first k of them have won (`Won(k)`) while the others are still to come
(`ArgsLeft(k)`); `ArgAfterNext` adds one argument, and the other steps hand the settings on.
For the fourth `Reading` ties what stdio has read, and its end of file, to the chunks, and
`Stopping` says that the text written so far goes on, after the `a` characters that `fgets`
has returned, with stdio's buffer and then with what is unread (`Follows`). After `a`
characters a line begins, or all that fits of one has been returned (`Between`), or a line is
too long, or an end of file has been met and nothing is left. Only in the first case can
what `fgets` takes next be a command that is no line of its own; a buffer of two
characters is the odd case, where "q" is returned before its line is known to end (`Stops`).
Assumed are that arguments are a finite sequence with values, that chunks are texts and
none written to a pipe is empty (`AppAssumption`), that
the default port is one (`ConfigAssumption`), and that a line has room for a
character (`InterfaceAssumption`).

`DotenvProofs` holds for every file of lines, every limit, every environment and every set
of names that cannot be set:

- `LineByLineTheorem`: `LineByLine`.
- `ReportedTheorem`: `FailureReported`, for files that are missing or read to their end. After a
  failed read the result may be 0 (`dotenv_read_error`), and the theorem does not say otherwise.
- `KeptTheorem`: the action property `ExistingKept`, whatever the parser makes of a line.

The first two have the premise `MeantAsParsed`: that `Parse` makes of each line what is
meant is a question about single lines, which TLC answers. What is proved is everything
around it: that the characters of a file are taken apart into the lines they were put
together from, with LF, CRLF or no end, shorter than the limit, as long, and longer, and
that effects and results add up in order. The invariant `IInv` says that after `k` lines the
rest of the file is that of the lines from `k + 1` on (`At(k)`), or has an LF before it that
belongs to a CR already taken; that the environment is `EnvAfter(k)`; and that the result is
-1 exactly when one of the `k` lines fails. A read that fails leaves all this as it is.
`FlattenSeq`, which makes a file of its lines, is a fold; `FlattenFirst` of `Foundations`
takes its first sequence off, by a least counterexample, and `LineRead` says what `fgets`
then returns, one lemma for each end a line can have (`ChunkWithEnd`, `ChunkWithCR`,
`ChunkWithout`, `ChunkOfLF`, `ChunkTooLong`). `EnvAfterSet` and `EnvAfterOther` compute
`EnvAfter(k + 1)`.

## 5. What is only model-checked

- Liveness, since the prover has no `ENABLED`: of the server (`EventuallyClosed`,
  `EventuallyAccepted`), of the interface (`StopStops`) and of the dictionary's calls (`CallsEnd`).
- That `Parse` makes of a line what `dotenv.h` says (`MeantAsParsed`): a statement about every
  text a line may have, checked for those of `MCDotenv`.
- The six disagreements below "Disagreements found": a counterexample is found, not proved.

Every invariant and every action property of the passing runs, and both refinements,
are theorems.

## 6. What is not modelled

xxhash (vendored; hashes are a constant); the printing half of logging and the prompt with
its uptime (output that nothing reads; the level is modelled); `get_statusstring` (a table
of strings); the truncation of host, level and path to their buffers, and `DB_FILE`, which
nothing uses; the Windows branches; the command-line client (empty); the unit tests;
persistence (`cache_load` and `cache_flush` are stubs: nothing is written or read, so there
is no crash to recover from); and the three route functions no request reaches.

A table's size follows the number of distinct keys ever stored rather than the
keys it holds (tombstones count as load and a resize always doubles). The model
has this behaviour, but the repository states no bound to check it against.

## 7. Plan

Done, in order: `KVStore`, `StrDictionary` and its proofs; `Dispatch`,
`Routing`; `Server` and its proofs; `Handlers` and its proofs; `Dotenv`;
`Config`, `Interface`, `App` and the proofs about its start; the loops of the dictionary as
steps, and the proof that they implement its calls; the proofs about `Dotenv`; the proof
about the interface.

Left: the end of the process while workers are still in the middle of a request, as a
composition of `App` and `Server`. As nothing is persisted it has no property yet beyond
`OnlyStopStops`.
