---------------------------- MODULE ServerProofs ----------------------------
(***************************************************************************)
(* The descriptors of the server, for every number of connections and of   *)
(* descriptors, every interleaving and every set of failing calls.         *)
(***************************************************************************)
EXTENDS Server, Foundations

\* Request lines, of which all but the first token may be a path, and what
\* strtok has stored of them: never the first token.
Tokens == {s \in Seq(STRING) : \A i \in 2 .. Len(s) : s[i] \in Paths}
Positions == {p \in [line : Conns \cup {NoConn}, at : Nat] : p.line \in Conns => p.at >= 2}

Places == Serving \cup {"idle", "start", "done"}
Locals == [pc : Places, client : Fds \cup {0}, tokens : Tokens, method : Methods \cup {""},
           path : Paths \cup {""}, saved : Positions]

WorkerTypes ==
  /\ worker \in [Conns -> Locals]
  /\ strtok \in Positions
  /\ \A w \in Conns : /\ worker[w].pc = "path" => strtok.line \in Conns
                      /\ worker[w].pc = "token" => worker[w].saved.line \in Conns

LoopTypes ==
  /\ loop \in [pc : {"accept", "spawn", "detach", "join", "ended"},
               conn : Conns \cup {NoConn}, client : Fds \cup {0}]
  /\ loop.pc \in {"spawn", "detach", "join"} => loop.conn \in Conns
  /\ loop.pc = "spawn" => loop.client \in Fds

SharedTypes ==
  /\ up \in BOOLEAN
  /\ peer \in [Conns -> {"away", "open", "gone"}]
  /\ sent \in [Conns -> Int]
  /\ \A c \in Conns : sent[c] <= Len(Request[c])
  /\ fds \in [Fds -> Conns \cup {NoConn}]
  /\ accepted \in SUBSET Conns
  /\ arg \in [Conns -> Fds \cup {0}]
  /\ heard \in [Conns -> SUBSET Conns]
  /\ failed \in SUBSET {"accept", "detach"}

Types == WorkerTypes /\ LoopTypes /\ SharedTypes

LEMMA RequestTokens ==
  ASSUME NEW c \in Conns
  PROVE  Request[c] \in Tokens /\ Len(Request[c]) \in Nat
<1>1. Request[c] \in Seq(STRING) /\ \A i \in 2 .. Len(Request[c]) : Request[c][i] \in Paths
  BY ServerAssumption, Zenon
<1> QED
  BY <1>1 DEF Tokens

LEMMA PrefixTokens ==
  ASSUME NEW s \in Tokens, NEW n \in 0 .. Len(s)
  PROVE  SubSeq(s, 1, n) \in Tokens
<1>1. s \in Seq(STRING) /\ Len(s) \in Nat
  BY DEF Tokens
<1>2. /\ SubSeq(s, 1, n) \in Seq(STRING) /\ Len(SubSeq(s, 1, n)) = n
      /\ \A i \in 1 .. n : SubSeq(s, 1, n)[i] = s[i]
  BY <1>1
<1>3. \A i \in 2 .. n : SubSeq(s, 1, n)[i] \in Paths
  BY <1>1, <1>2 DEF Tokens
<1> QED
  BY <1>2, <1>3 DEF Tokens

LEMMA TypesInit == Init => Types
<1> SUFFICES ASSUME Init PROVE Types
  OBVIOUS
<1>1. <<>> \in Tokens
  BY DEF Tokens
<1>2. NoPosition \in Positions
  BY ServerAssumption DEF NoPosition, Positions
<1>3. Idle \in Locals /\ Idle.pc = "idle"
  BY <1>1, <1>2 DEF Idle, Locals, Places
<1>4. WorkerTypes
  BY <1>2, <1>3 DEF Init, WorkerTypes
<1>5. LoopTypes
  BY DEF Init, LoopTypes
<1>6. SharedTypes
  BY RequestTokens DEF Init, SharedTypes, Nothing
<1> QED
  BY <1>4, <1>5, <1>6 DEF Types

LEMMA NextFdFree ==
  ASSUME FreeFds # {}
  PROVE  NextFd \in FreeFds
<1>1. FreeFds \in SUBSET Nat
  BY ServerAssumption DEF FreeFds
<1>2. PICK f \in FreeFds : \A g \in FreeFds : f <= g
  BY <1>1, LeastElement
<1> QED
  BY <1>2 DEF NextFd

LEMMA ClientTypes ==
  ASSUME Types, NEW c \in Conns, ClientStep(c)
  PROVE  Types'
<1>1. WorkerTypes' /\ LoopTypes'
  BY DEF ClientStep, Connect, Send, Quit, Vanish, Types, WorkerTypes, LoopTypes
<1>2. peer' \in [Conns -> {"away", "open", "gone"}]
  BY DEF ClientStep, Connect, Send, Quit, Vanish, Types, SharedTypes
<1>3. sent' \in [Conns -> Int] /\ \A d \in Conns : sent'[d] <= Len(Request[d])
  BY RequestTokens DEF ClientStep, Connect, Send, Quit, Vanish, Types, SharedTypes
<1> QED
  BY <1>1, <1>2, <1>3 DEF ClientStep, Connect, Send, Quit, Vanish, Types, SharedTypes

\* What a step of a worker does to its own locals is enough to know.
LEMMA LocalStep ==
  ASSUME WorkerTypes, NEW w \in Conns, NEW r \in Locals,
         worker' = [worker EXCEPT ![w] = r],
         strtok' \in Positions, strtok' = strtok \/ strtok'.line \in Conns,
         r.pc = "path" => strtok'.line \in Conns,
         r.pc = "token" => r.saved.line \in Conns
  PROVE  WorkerTypes'
BY DEF WorkerTypes

LEMMA ServerLoopTypes ==
  ASSUME Types, ServerLoop
  PROVE  Types'
<1> USE DEF Types, LoopTypes, SharedTypes, WorkerTypes
<1>1. ASSUME NEW c \in Conns, Accept(c)
      PROVE  Types'
  <2>1. NextFd \in Fds
    BY <1>1, NextFdFree DEF Accept, FreeFds
  <2> QED
    BY <1>1, <2>1 DEF Accept
<1>2. CASE AcceptFails
  BY <1>2 DEF AcceptFails
<1>3. CASE SpawnFails
  BY <1>3 DEF SpawnFails, Close
<1>4. CASE Spawn
  <2> DEFINE r == [worker[loop.conn] EXCEPT !.pc = "start"]
  <2>1. loop.conn \in Conns /\ loop.client \in Fds /\ worker[loop.conn] \in Locals
    BY <1>4 DEF Spawn
  <2>2. r \in Locals /\ r.pc = "start"
    <3> HIDE DEF WorkerTypes, LoopTypes, SharedTypes, Types
    <3> QED
      BY <2>1 DEF Locals, Places
  <2>3. worker' = [worker EXCEPT ![loop.conn] = r]
    BY <1>4, <2>1 DEF Spawn
  <2> HIDE DEF r
  <2>4. WorkerTypes'
    <3>1. WorkerTypes /\ strtok \in Positions /\ strtok' = strtok
      BY <1>4 DEF Spawn
    <3> HIDE DEF WorkerTypes, LoopTypes, SharedTypes, Types
    <3> QED
      BY <2>1, <2>2, <2>3, <3>1, LocalStep
  <2> QED
    BY <1>4, <2>1, <2>4 DEF Spawn
<1>5. CASE Detach \/ DetachFails \/ Join
  BY <1>5 DEF Detach, DetachFails, Join
<1> QED
  BY <1>1, <1>2, <1>3, <1>4, <1>5 DEF ServerLoop

LEMMA GotoTypes ==
  ASSUME WorkerTypes, NEW w \in Conns, NEW pc \in Places \ {"path", "token"}, Goto(w, pc),
         UNCHANGED strtok
  PROVE  WorkerTypes'
<1> DEFINE r == [worker[w] EXCEPT !.pc = pc]
<1>1. r \in Locals /\ r.pc = pc
  BY DEF WorkerTypes, Locals
<1>2. worker' = [worker EXCEPT ![w] = r]
  BY DEF Goto, WorkerTypes
<1> HIDE DEF r
<1> QED
  BY <1>1, <1>2, LocalStep DEF WorkerTypes

LEMMA WorkTypes ==
  ASSUME Types, NEW w \in Conns, Work(w)
  PROVE  Types'
<1> USE DEF Types
<1>1. worker[w] \in Locals /\ strtok \in Positions
  BY DEF WorkerTypes
<1>2. LoopTypes'
  BY DEF Work, Start, Read, ParseMethod, LoadPosition, ParsePath, Execute, Write, RespondClose,
     Fail, LoopTypes
<1>3. CASE Start(w)
  <2> DEFINE r == [worker[w] EXCEPT !.pc = "read", !.client = arg[w]]
  <2>1. r \in Locals /\ r.pc = "read"
    BY <1>1 DEF Locals, SharedTypes, Places, Serving, Parsing
  <2>2. worker' = [worker EXCEPT ![w] = r] /\ strtok' = strtok
    BY <1>3 DEF Start, WorkerTypes
  <2> HIDE DEF r
  <2>3. WorkerTypes'
    BY <1>1, <2>1, <2>2, LocalStep
  <2> QED
    BY <1>2, <1>3, <2>3 DEF Start, SharedTypes
<1>4. CASE Read(w)
  <2>1. CASE Goto(w, "fail") /\ UNCHANGED sent
    <3>1. WorkerTypes'
      BY <1>4, <2>1, GotoTypes DEF Read, Places, Serving, Parsing
    <3> QED
      BY <1>2, <1>4, <2>1, <3>1 DEF Read, SharedTypes
  <2>2. ASSUME NEW d \in Conns, sent[d] >= 0, sent' = [sent EXCEPT ![d] = Consumed],
               worker' = [worker EXCEPT ![w].pc = "method",
                            ![w].tokens = SubSeq(Request[d], 1, sent[d])]
        PROVE  Types'
    <3> DEFINE tokens == SubSeq(Request[d], 1, sent[d])
    <3>1. tokens \in Tokens
      BY <2>2, RequestTokens, PrefixTokens DEF SharedTypes
    <3> HIDE DEF tokens
    <3> DEFINE r == [worker[w] EXCEPT !.pc = "method", !.tokens = tokens]
    <3>2. r \in Locals /\ r.pc = "method"
      BY <1>1, <3>1 DEF Locals, Places, Serving, Parsing
    <3>3. worker' = [worker EXCEPT ![w] = r] /\ strtok' = strtok
      BY <1>4, <2>2 DEF Read, WorkerTypes, tokens
    <3> HIDE DEF r
    <3>4. WorkerTypes'
      BY <1>1, <3>2, <3>3, LocalStep
    <3>5. sent' \in [Conns -> Int] /\ \A c \in Conns : sent'[c] <= Len(Request[c])
      BY <2>2, RequestTokens DEF SharedTypes, Consumed
    <3> QED
      BY <1>2, <1>4, <3>4, <3>5 DEF Read, SharedTypes
  <2> QED
    BY <1>4, <2>1, <2>2 DEF Read
<1>5. CASE ParseMethod(w)
  <2>1. strtok' \in Positions /\ strtok'.line \in Conns
    <3>1. [line |-> w, at |-> 2] \in Positions
      BY DEF Positions
    <3> QED
      BY <1>5, <3>1 DEF ParseMethod
  <2>2. CASE worker[w].tokens = <<>>
    <3> DEFINE r == [worker[w] EXCEPT !.pc = "fail"]
    <3>1. r \in Locals /\ r.pc = "fail"
      BY <1>1 DEF Locals, Places, Serving
    <3>2. worker' = [worker EXCEPT ![w] = r]
      BY <1>5, <2>2 DEF ParseMethod, WorkerTypes
    <3> HIDE DEF r
    <3> QED
      BY <1>2, <1>5, <2>1, <3>1, <3>2, LocalStep DEF ParseMethod, SharedTypes
  <2>3. CASE worker[w].tokens # <<>>
    <3> DEFINE method == IF worker[w].tokens[1] \in Methods THEN worker[w].tokens[1] ELSE ""
    <3>1. method \in Methods \cup {""}
      OBVIOUS
    <3> HIDE DEF method
    <3> DEFINE r == [worker[w] EXCEPT !.pc = "path", !.method = method]
    <3>2. r \in Locals /\ r.pc = "path"
      BY <1>1, <3>1 DEF Locals, Places, Serving, Parsing
    <3>3. worker' = [worker EXCEPT ![w] = r]
      BY <1>5, <2>3 DEF ParseMethod, WorkerTypes, method
    <3> HIDE DEF r
    <3> QED
      BY <1>2, <1>5, <2>1, <3>2, <3>3, LocalStep DEF ParseMethod, SharedTypes
  <2> QED
    BY <2>2, <2>3
<1>6. CASE LoadPosition(w)
  <2> DEFINE r == [worker[w] EXCEPT !.pc = "token", !.saved = strtok]
  <2>1. r \in Locals /\ r.pc = "token" /\ r.saved = strtok
    BY <1>1 DEF Locals, Places, Serving, Parsing
  <2>2. worker' = [worker EXCEPT ![w] = r] /\ strtok' = strtok /\ strtok.line \in Conns
    BY <1>6 DEF LoadPosition, WorkerTypes
  <2> HIDE DEF r
  <2>3. WorkerTypes'
    BY <1>1, <2>1, <2>2, LocalStep
  <2> QED
    BY <1>2, <1>6, <2>3 DEF LoadPosition, SharedTypes
<1>7. CASE ParsePath(w)
  <2> DEFINE saved == worker[w].saved
  <2>1. saved \in Positions /\ saved.line \in Conns /\ saved.at \in Nat /\ saved.at >= 2
    BY <1>1, <1>7 DEF ParsePath, WorkerTypes, Locals, Positions
  <2>2. CASE Die /\ UNCHANGED <<worker, strtok>>
    BY <1>2, <1>7, <2>2 DEF ParsePath, Die, WorkerTypes, SharedTypes
  <2>3. ASSUME NEW token \in TokensAt(saved), UNCHANGED <<up, fds>>,
               worker' = [worker EXCEPT ![w].pc = "execute", ![w].path = token],
               strtok' = [saved EXCEPT !.at = @ + 1]
        PROVE  Types'
    <3>1. token \in Paths
      <4>1. worker[saved.line].tokens \in Tokens
        BY <2>1 DEF WorkerTypes, Locals
      <4>2. \A i \in DOMAIN worker[saved.line].tokens : i >= 2 => worker[saved.line].tokens[i] \in Paths
        BY <4>1 DEF Tokens
      <4> QED
        BY <2>1, <2>3, <4>2, ServerAssumption DEF TokensAt
    <3>2. strtok' \in Positions /\ strtok'.line \in Conns
      <4> HIDE DEF saved
      <4> QED
        BY <2>1, <2>3 DEF Positions
    <3> DEFINE r == [worker[w] EXCEPT !.pc = "execute", !.path = token]
    <3>3. r \in Locals /\ r.pc = "execute"
      BY <1>1, <3>1 DEF Locals, Places, Serving
    <3>4. worker' = [worker EXCEPT ![w] = r]
      BY <2>3 DEF WorkerTypes
    <3> HIDE DEF r
    <3> QED
      BY <1>2, <1>7, <2>3, <3>2, <3>3, <3>4, LocalStep DEF ParsePath, SharedTypes
  <2> QED
    BY <1>7, <2>2, <2>3 DEF ParsePath
<1>8. CASE Execute(w)
  <2>1. WorkerTypes'
    BY <1>8, GotoTypes DEF Execute, Places, Serving
  <2> QED
    BY <1>2, <1>8, <2>1 DEF Execute, SharedTypes
<1>9. CASE Write(w)
  <2>1. WorkerTypes'
    <3>1. CASE UNCHANGED worker
      BY <1>9, <3>1 DEF Write, WorkerTypes
    <3>2. CASE Goto(w, "close") \/ Goto(w, "body") \/ Goto(w, "giveup")
      BY <1>9, <3>2, GotoTypes DEF Write, Places, Serving
    <3> QED
      BY <1>9, <3>1, <3>2 DEF Write
  <2>2. heard' \in [Conns -> SUBSET Conns]
    BY <1>9 DEF Write, SharedTypes
  <2>3. up' \in BOOLEAN /\ fds' \in [Fds -> Conns \cup {NoConn}]
    BY <1>9 DEF Write, Die, SharedTypes
  <2> QED
    BY <1>2, <1>9, <2>1, <2>2, <2>3 DEF Write, SharedTypes
<1>10. CASE RespondClose(w) \/ Fail(w)
  <2>1. WorkerTypes'
    BY <1>10, GotoTypes DEF RespondClose, Fail, Places, Serving
  <2>2. fds' \in [Fds -> Conns \cup {NoConn}]
    BY <1>10 DEF RespondClose, Fail, Close, SharedTypes
  <2> QED
    BY <1>2, <1>10, <2>1, <2>2 DEF RespondClose, Fail, SharedTypes
<1> QED
  BY <1>3, <1>4, <1>5, <1>6, <1>7, <1>8, <1>9, <1>10 DEF Work

LEMMA TypesStep ==
  ASSUME Types, [Next]_vars
  PROVE  Types'
<1>1. CASE UNCHANGED vars
  BY <1>1 DEF vars, Types, WorkerTypes, LoopTypes, SharedTypes
<1> QED
  BY <1>1, ClientTypes, ServerLoopTypes, WorkTypes DEF Next

\* The variables keep their types; strtok never points outside a request line
\* or before its path.
THEOREM TypeTheorem == Spec => []TypeOK
<1>1. Types /\ [Next]_vars => Types'
  BY TypesStep
<1>2. Types => TypeOK
  <2> SUFFICES ASSUME Types PROVE TypeOK
    OBVIOUS
  <2>1. Tokens \subseteq Seq(STRING)
    BY DEF Tokens
  <2>2. Positions \subseteq [line : Conns \cup {NoConn}, at : Nat]
    BY DEF Positions
  <2>3. worker \in [Conns -> [pc : Places, client : Fds \cup {0}, tokens : Seq(STRING),
                             method : Methods \cup {""}, path : Paths \cup {""},
                             saved : [line : Conns \cup {NoConn}, at : Nat]]]
    BY <2>1, <2>2 DEF Types, WorkerTypes, Locals
  <2> QED
    BY <2>2, <2>3 DEF Types, WorkerTypes, LoopTypes, SharedTypes, TypeOK, Places
<1> QED
  BY <1>1, <1>2, TypesInit, PTL DEF Spec

------------------------------------------------------------------------------
(* Every client is closed by somebody.                                      *)

Leak ==
  /\ NoDescriptorLeak
  /\ \A w \in Conns : /\ worker[w].pc \in Serving => worker[w].client = arg[w]
                      /\ w \notin accepted => worker[w].pc = "idle"
  /\ loop.pc = "spawn" => worker[loop.conn].pc = "idle" /\ loop.conn \in accepted

LEMMA LeakInit == Init => Leak
<1> SUFFICES ASSUME Init PROVE Leak
  OBVIOUS
<1>1. \A w \in Conns : worker[w].pc = "idle"
  BY DEF Init, Idle
<1>2. NoDescriptorLeak
  BY DEF Init, NoDescriptorLeak
<1> QED
  BY <1>1, <1>2 DEF Init, Leak, Serving, Parsing

\* What an assignment of two of its locals, one of them its place, does to a worker.
LEMMA GotoMoves ==
  ASSUME WorkerTypes, NEW w \in Conns, NEW pc, Goto(w, pc)
  PROVE  /\ \A v \in Conns \ {w} : worker'[v] = worker[v]
         /\ worker'[w].pc = pc /\ worker'[w].client = worker[w].client
<1>1. worker[w] \in Locals /\ DOMAIN worker = Conns
  BY DEF WorkerTypes
<1>2. worker' = [worker EXCEPT ![w] = [worker[w] EXCEPT !.pc = pc]]
  BY <1>1 DEF Goto
<1>3. worker'[w] = [worker[w] EXCEPT !.pc = pc] /\ \A v \in Conns \ {w} : worker'[v] = worker[v]
  BY <1>1, <1>2
<1> QED
  BY <1>1, <1>3 DEF Locals

LEMMA ReadMoves ==
  ASSUME WorkerTypes, NEW w \in Conns, NEW tokens,
         worker' = [worker EXCEPT ![w].pc = "method", ![w].tokens = tokens]
  PROVE  /\ \A v \in Conns \ {w} : worker'[v] = worker[v]
         /\ worker'[w].pc = "method" /\ worker'[w].client = worker[w].client
<1>1. worker[w] \in Locals /\ DOMAIN worker = Conns
  BY DEF WorkerTypes
<1>2. worker' = [worker EXCEPT ![w] = [worker[w] EXCEPT !.pc = "method", !.tokens = tokens]]
  BY <1>1
<1>3. /\ worker'[w] = [worker[w] EXCEPT !.pc = "method", !.tokens = tokens]
      /\ \A v \in Conns \ {w} : worker'[v] = worker[v]
  BY <1>1, <1>2
<1> QED
  BY <1>1, <1>3 DEF Locals

LEMMA MethodMoves ==
  ASSUME WorkerTypes, NEW w \in Conns, NEW method,
         worker' = [worker EXCEPT ![w].pc = "path", ![w].method = method]
  PROVE  /\ \A v \in Conns \ {w} : worker'[v] = worker[v]
         /\ worker'[w].pc = "path" /\ worker'[w].client = worker[w].client
<1>1. worker[w] \in Locals /\ DOMAIN worker = Conns
  BY DEF WorkerTypes
<1>2. worker' = [worker EXCEPT ![w] = [worker[w] EXCEPT !.pc = "path", !.method = method]]
  BY <1>1
<1>3. /\ worker'[w] = [worker[w] EXCEPT !.pc = "path", !.method = method]
      /\ \A v \in Conns \ {w} : worker'[v] = worker[v]
  BY <1>1, <1>2
<1> QED
  BY <1>1, <1>3 DEF Locals

LEMMA PositionMoves ==
  ASSUME WorkerTypes, NEW w \in Conns, NEW position,
         worker' = [worker EXCEPT ![w].pc = "token", ![w].saved = position]
  PROVE  /\ \A v \in Conns \ {w} : worker'[v] = worker[v]
         /\ worker'[w].pc = "token" /\ worker'[w].client = worker[w].client
<1>1. worker[w] \in Locals /\ DOMAIN worker = Conns
  BY DEF WorkerTypes
<1>2. worker' = [worker EXCEPT ![w] = [worker[w] EXCEPT !.pc = "token", !.saved = position]]
  BY <1>1
<1>3. /\ worker'[w] = [worker[w] EXCEPT !.pc = "token", !.saved = position]
      /\ \A v \in Conns \ {w} : worker'[v] = worker[v]
  BY <1>1, <1>2
<1> QED
  BY <1>1, <1>3 DEF Locals

LEMMA PathMoves ==
  ASSUME WorkerTypes, NEW w \in Conns, NEW path,
         worker' = [worker EXCEPT ![w].pc = "execute", ![w].path = path]
  PROVE  /\ \A v \in Conns \ {w} : worker'[v] = worker[v]
         /\ worker'[w].pc = "execute" /\ worker'[w].client = worker[w].client
<1>1. worker[w] \in Locals /\ DOMAIN worker = Conns
  BY DEF WorkerTypes
<1>2. worker' = [worker EXCEPT ![w] = [worker[w] EXCEPT !.pc = "execute", !.path = path]]
  BY <1>1
<1>3. /\ worker'[w] = [worker[w] EXCEPT !.pc = "execute", !.path = path]
      /\ \A v \in Conns \ {w} : worker'[v] = worker[v]
  BY <1>1, <1>2
<1> QED
  BY <1>1, <1>3 DEF Locals

\* A worker goes on with its client until it has closed it.
LEMMA WorkMoves ==
  ASSUME Types, NEW w \in Conns, Work(w)
  PROVE  /\ UNCHANGED <<loop, accepted, arg>>
         /\ \A v \in Conns \ {w} : worker'[v] = worker[v]
         /\ worker[w].pc \notin {"idle", "done"}
         /\ \/ UNCHANGED worker
            \/ worker'[w].pc \in Serving
            \/ worker'[w].pc = "done" /\ worker[w].pc \in Serving /\ Close(worker[w].client)
         /\ worker'[w].client = IF worker[w].pc = "start" THEN arg[w] ELSE worker[w].client
         /\ \A f \in Fds : fds'[f] \in {fds[f], NoConn}
<1> USE DEF Types, WorkerTypes, Locals, SharedTypes, Serving, Parsing, Goto
<1>1. CASE Start(w)
  <2>1. /\ \A v \in Conns \ {w} : worker'[v] = worker[v]
        /\ worker'[w].pc = "read" /\ worker'[w].client = arg[w]
    <3> HIDE DEF SharedTypes
    <3> QED
      BY <1>1 DEF Start
  <2> HIDE DEF WorkerTypes, Locals
  <2> QED
    BY <1>1, <2>1 DEF Start
<1>2. CASE Read(w)
  <2>1. ASSUME NEW tokens, worker' = [worker EXCEPT ![w].pc = "method", ![w].tokens = tokens]
        PROVE  /\ \A v \in Conns \ {w} : worker'[v] = worker[v]
               /\ worker'[w].pc = "method" /\ worker'[w].client = worker[w].client
    <3> HIDE DEF Locals, WorkerTypes
    <3> QED
      BY <2>1, ReadMoves
  <2>2. CASE Goto(w, "fail")
    <3>1. /\ \A v \in Conns \ {w} : worker'[v] = worker[v]
          /\ worker'[w].pc = "fail" /\ worker'[w].client = worker[w].client
      <4> HIDE DEF Goto, WorkerTypes
      <4> QED
        BY <2>2, GotoMoves
    <3> QED
      BY <1>2, <3>1 DEF Read
  <2> QED
    BY <1>2, <2>1, <2>2 DEF Read
<1>3. CASE ParseMethod(w)
  <2>1. /\ \A v \in Conns \ {w} : worker'[v] = worker[v]
        /\ worker'[w].pc \in {"fail", "path"} /\ worker'[w].client = worker[w].client
    <3> DEFINE method == IF worker[w].tokens[1] \in Methods THEN worker[w].tokens[1] ELSE ""
    <3>1. \/ Goto(w, "fail")
          \/ worker' = [worker EXCEPT ![w].pc = "path", ![w].method = method]
      BY <1>3 DEF ParseMethod
    <3> HIDE DEF Goto, WorkerTypes, method
    <3> QED
      BY <3>1, GotoMoves, MethodMoves
  <2> HIDE DEF WorkerTypes, Locals
  <2> QED
    BY <1>3, <2>1 DEF ParseMethod
<1>4. CASE LoadPosition(w)
  <2>1. /\ \A v \in Conns \ {w} : worker'[v] = worker[v]
        /\ worker'[w].pc = "token" /\ worker'[w].client = worker[w].client
    <3>1. worker' = [worker EXCEPT ![w].pc = "token", ![w].saved = strtok]
      BY <1>4 DEF LoadPosition
    <3> HIDE DEF WorkerTypes
    <3> QED
      BY <3>1, PositionMoves
  <2> HIDE DEF WorkerTypes, Locals
  <2> QED
    BY <1>4, <2>1 DEF LoadPosition
<1>5. CASE ParsePath(w)
  <2>1. ASSUME NEW path, worker' = [worker EXCEPT ![w].pc = "execute", ![w].path = path]
        PROVE  /\ \A v \in Conns \ {w} : worker'[v] = worker[v]
               /\ worker'[w].pc = "execute" /\ worker'[w].client = worker[w].client
    <3> HIDE DEF Locals, WorkerTypes
    <3> QED
      BY <2>1, PathMoves
  <2>2. CASE Die /\ UNCHANGED worker
    BY <1>5, <2>2 DEF ParsePath, Die
  <2> QED
    BY <1>5, <2>1, <2>2 DEF ParsePath
<1>6. CASE Execute(w)
  <2>1. /\ \A v \in Conns \ {w} : worker'[v] = worker[v]
        /\ worker'[w].pc \in {"header", "fail"} /\ worker'[w].client = worker[w].client
    <3>1. PICK pc \in {"header", "fail"} : Goto(w, pc)
      BY <1>6 DEF Execute
    <3> HIDE DEF Goto, WorkerTypes
    <3> QED
      BY <3>1, GotoMoves
  <2> HIDE DEF WorkerTypes, Locals
  <2> QED
    BY <1>6, <2>1 DEF Execute
<1>7. CASE Write(w)
  <2>1. CASE Goto(w, "close") \/ Goto(w, "body") \/ Goto(w, "giveup")
    <3>1. /\ \A v \in Conns \ {w} : worker'[v] = worker[v]
          /\ worker'[w].pc \in Serving /\ worker'[w].client = worker[w].client
      <4>1. PICK pc \in {"close", "body", "giveup"} : Goto(w, pc)
        BY <2>1
      <4> HIDE DEF Goto, WorkerTypes
      <4> QED
        BY <4>1, GotoMoves
    <3>2. \A f \in Fds : fds'[f] \in {fds[f], NoConn}
      BY <1>7 DEF Write, Die
    <3> QED
      BY <1>7, <3>1, <3>2 DEF Write
  <2>2. CASE Die /\ UNCHANGED worker
    BY <1>7, <2>2 DEF Write, Die
  <2> QED
    BY <1>7, <2>1, <2>2 DEF Write
<1>8. CASE RespondClose(w)
  <2>1. /\ \A v \in Conns \ {w} : worker'[v] = worker[v]
        /\ worker'[w].pc \in {"done", "fail"} /\ worker'[w].client = worker[w].client
    <3>1. PICK pc \in {"done", "fail"} : Goto(w, pc)
      BY <1>8 DEF RespondClose
    <3> HIDE DEF Goto, WorkerTypes
    <3> QED
      BY <3>1, GotoMoves
  <2>2. \A f \in Fds : fds'[f] \in {fds[f], NoConn}
    BY <1>8 DEF RespondClose, Close
  <2> HIDE DEF WorkerTypes, Locals
  <2> QED
    BY <1>8, <2>1, <2>2 DEF RespondClose
<1>9. CASE Fail(w)
  <2>1. /\ \A v \in Conns \ {w} : worker'[v] = worker[v]
        /\ worker'[w].pc = "done" /\ worker'[w].client = worker[w].client
    <3> HIDE DEF Goto, WorkerTypes
    <3> QED
      BY <1>9, GotoMoves DEF Fail
  <2>2. \A f \in Fds : fds'[f] \in {fds[f], NoConn}
    BY <1>9 DEF Fail, Close
  <2> HIDE DEF WorkerTypes, Locals
  <2> QED
    BY <1>9, <2>1, <2>2 DEF Fail
<1> QED
  BY <1>1, <1>2, <1>3, <1>4, <1>5, <1>6, <1>7, <1>8, <1>9 DEF Work

\* pthread_create starts the one worker and leaves the others.
LEMMA SpawnMoves ==
  ASSUME Types, Spawn
  PROVE  /\ worker'[loop.conn].pc = "start"
         /\ \A v \in Conns \ {loop.conn} : worker'[v] = worker[v]
<1>1. worker' = [worker EXCEPT ![loop.conn].pc = "start"] /\ loop.pc = "spawn"
  BY DEF Spawn
<1>2. loop.conn \in Conns
  BY <1>1 DEF Types, LoopTypes
<1>3. DOMAIN worker = Conns /\ worker[loop.conn] \in Locals
  BY <1>2 DEF Types, WorkerTypes
<1>4. worker'[loop.conn] = [worker[loop.conn] EXCEPT !.pc = "start"]
  BY <1>1, <1>2, <1>3
<1>5. worker'[loop.conn].pc = "start"
  BY <1>3, <1>4 DEF Locals
<1> QED
  BY <1>1, <1>3, <1>5

LEMMA WorkLeak ==
  ASSUME Types, Leak, NEW w \in Conns, Work(w)
  PROVE  Leak'
<1>1. NoDescriptorLeak'
  <2> SUFFICES ASSUME NEW f \in Fds, fds'[f] # NoConn
               PROVE  \/ worker'[fds'[f]].pc \in Serving \cup {"start"} /\ arg'[fds'[f]] = f
                      \/ loop'.pc = "spawn" /\ loop'.conn = fds'[f] /\ loop'.client = f
    BY DEF NoDescriptorLeak
  <2>1. fds'[f] = fds[f] /\ fds[f] \in Conns
    BY WorkMoves DEF Types, SharedTypes
  <2>2. CASE fds[f] # w
    BY <2>1, <2>2, WorkMoves DEF Leak, NoDescriptorLeak
  <2>3. CASE fds[f] = w
    <3>1. worker[w].pc \in Serving \cup {"start"} /\ arg[w] = f
      BY <2>1, <2>3, WorkMoves DEF Leak, NoDescriptorLeak
    <3>2. ~(worker[w].pc \in Serving /\ Close(worker[w].client))
      <4> SUFFICES ASSUME worker[w].pc \in Serving, Close(worker[w].client) PROVE FALSE
        OBVIOUS
      <4>1. worker[w].client = f
        BY <3>1 DEF Leak
      <4>2. fds'[f] = NoConn
        BY <4>1 DEF Close, Types, SharedTypes
      <4> QED
        BY <4>2
    <3> QED
      BY <2>1, <2>3, <3>1, <3>2, WorkMoves
  <2> QED
    BY <2>2, <2>3
<1>2. worker'[w].pc \in Serving => worker'[w].client = arg'[w]
  <2>1. worker[w].pc \in Serving \cup {"idle", "start", "done"}
    BY DEF Types, WorkerTypes, Locals, Places
  <2>2. worker[w].pc \in Serving => worker[w].client = arg[w]
    BY DEF Leak
  <2> QED
    BY <2>1, <2>2, WorkMoves
<1>3. \A v \in Conns : v # w => /\ worker'[v].pc \in Serving => worker'[v].client = arg'[v]
                                /\ v \notin accepted' => worker'[v].pc = "idle"
  BY WorkMoves DEF Leak
<1>4. w \in accepted
  BY WorkMoves DEF Leak
<1>5. loop'.pc = "spawn" => worker'[loop'.conn].pc = "idle" /\ loop'.conn \in accepted'
  BY WorkMoves DEF Leak, Types, LoopTypes
<1> QED
  BY <1>1, <1>2, <1>3, <1>4, <1>5, WorkMoves DEF Leak

LEMMA LoopLeak ==
  ASSUME Types, Leak, ServerLoop
  PROVE  Leak'
<1> USE DEF Types, LoopTypes, SharedTypes, Leak, NoDescriptorLeak
<1>1. ASSUME NEW c \in Conns, Accept(c)
      PROVE  Leak'
  <2>1. NextFd \in FreeFds
    BY <1>1, NextFdFree DEF Accept
  <2> QED
    BY <1>1, <2>1 DEF Accept, FreeFds
<1>2. CASE SpawnFails
  <2>1. \A f \in Fds : fds'[f] = IF f = loop.client THEN NoConn ELSE fds[f]
    BY <1>2 DEF SpawnFails, Close
  <2>2. loop'.pc = "accept" /\ UNCHANGED <<accepted, arg, worker>> /\ loop.pc = "spawn"
    BY <1>2 DEF SpawnFails
  <2>3. NoDescriptorLeak'
    <3> SUFFICES ASSUME NEW f \in Fds, fds'[f] # NoConn
                 PROVE  worker'[fds'[f]].pc \in Serving \cup {"start"} /\ arg'[fds'[f]] = f
      OBVIOUS
    <3> QED
      BY <2>1, <2>2
  <2> QED
    BY <2>2, <2>3
<1>3. CASE Spawn
  <2>1. /\ worker'[loop.conn].pc = "start"
        /\ \A v \in Conns \ {loop.conn} : worker'[v] = worker[v]
    BY <1>3, SpawnMoves
  <2> QED
    BY <1>3, <2>1 DEF Spawn, Serving, Parsing
<1>4. CASE AcceptFails \/ Detach \/ DetachFails \/ Join
  BY <1>4 DEF AcceptFails, Detach, DetachFails, Join
<1> QED
  BY <1>1, <1>2, <1>3, <1>4 DEF ServerLoop

LEMMA LeakStep ==
  ASSUME Types, Leak, [Next]_vars
  PROVE  Leak'
<1>1. CASE UNCHANGED vars
  BY <1>1 DEF vars, Leak, NoDescriptorLeak
<1>2. ASSUME NEW c \in Conns, ClientStep(c)
      PROVE  Leak'
  BY <1>2 DEF ClientStep, Connect, Send, Quit, Vanish, Leak, NoDescriptorLeak
<1> QED
  BY <1>1, <1>2, WorkLeak, LoopLeak DEF Next

\* Whatever calls fail and whatever clients do, no descriptor is lost.
THEOREM LeakTheorem == Spec => []NoDescriptorLeak
<1>1. Init => Types /\ Leak
  BY TypesInit, LeakInit
<1>2. Types /\ Leak /\ [Next]_vars => (Types /\ Leak)'
  BY TypesStep, LeakStep
<1>3. Leak => NoDescriptorLeak
  BY DEF Leak
<1> QED
  BY <1>1, <1>2, <1>3, PTL DEF Spec

------------------------------------------------------------------------------
(* While clients wait for their answers, a worker owns its descriptor.      *)

\* The places of a worker that has read its request and goes on to answer it.
Answering == Serving \ {"read", "fail", "giveup"}

Owned ==
  /\ \A w \in Conns : worker[w].pc \in Serving => At(worker[w].client) = w
  /\ \A w \in Conns : worker[w].pc = "start" => At(arg[w]) = w
  /\ loop.pc = "spawn" => At(loop.client) = loop.conn

\* A client only hears its own worker.
Apart == \A c \in Conns : heard[c] \subseteq {c}

\* Nobody who has sent a request is gone, so no write fails and no descriptor
\* is closed twice.
Waiting ==
  \A w \in Conns : /\ sent[w] # Nothing => peer[w] # "gone"
                   /\ worker[w].pc \in Answering => sent[w] # Nothing
                   /\ worker[w].pc # "giveup"

Own == Apart /\ Waiting /\ (up => Owned)

LEMMA OwnInit == Init => Own
<1> SUFFICES ASSUME Init PROVE Own
  OBVIOUS
<1>1. \A w \in Conns : worker[w].pc = "idle"
  BY DEF Init, Idle
<1> QED
  BY <1>1 DEF Init, Own, Apart, Waiting, Owned, Answering, Serving, Parsing

LEMMA ClientOwn ==
  ASSUME Vanished' = {}, Types, Own, NEW c \in Conns, ClientStep(c)
  PROVE  Own'
<1>1. Connect(c) \/ Send(c) \/ Quit(c)
  <2>1. ASSUME Vanish(c) PROVE c \in Vanished'
    BY <2>1 DEF Vanish, Vanished, Types, SharedTypes
  <2> QED
    BY <2>1 DEF ClientStep
<1>2. Waiting'
  <2>1. CASE Connect(c)
    BY <2>1 DEF Connect, Types, SharedTypes, Own, Waiting
  <2>2. CASE Send(c)
    BY <2>2, RequestTokens DEF Send, Types, SharedTypes, Own, Waiting, Nothing
  <2>3. CASE Quit(c)
    BY <2>3 DEF Quit, Types, SharedTypes, Own, Waiting
  <2> QED
    BY <1>1, <2>1, <2>2, <2>3
<1>3. UNCHANGED <<up, fds, loop, arg, worker, heard>>
  BY <1>1 DEF Connect, Send, Quit
<1> QED
  BY <1>2, <1>3 DEF Own, Apart, Owned, At

\* The descriptor of a worker that answers refers to a client who waits.
LEMMA SomebodyThere ==
  ASSUME Types, Own, up, NEW w \in Conns, worker[w].pc \in Serving
  PROVE  /\ At(worker[w].client) = w /\ worker[w].client \in Fds
         /\ worker[w].pc \in Answering => ~NobodyAt(worker[w].client)
<1>1. At(worker[w].client) = w
  BY DEF Own, Owned
<1>2. worker[w].client \in Fds
  BY <1>1, ServerAssumption DEF At
<1> QED
  BY <1>1, <1>2 DEF NobodyAt, Own, Waiting

\* A step of a worker says nothing to others, waits for its request, and
\* changes the descriptor table by the close of its client or the end of all.
LEMMA WorkAnswers ==
  ASSUME Types, Own, up, NEW w \in Conns, Work(w)
  PROVE  /\ UNCHANGED peer
         /\ \A c \in Conns : sent'[c] # Nothing <=> sent[c] # Nothing
         /\ worker'[w].pc \in Answering => sent'[w] # Nothing
         /\ worker'[w].pc # "giveup"
         /\ Apart'
         /\ \/ ~up'
            \/ UNCHANGED fds
            \/ worker[w].pc \in Serving /\ worker'[w].pc = "done" /\ Close(worker[w].client)
<1> USE DEF Serving, Parsing, Answering
<1>1. /\ \A c \in Conns : heard[c] \subseteq {c}
      /\ worker[w].pc \in Answering => sent[w] # Nothing
  BY DEF Own, Apart, Waiting
<1>2. worker \in [Conns -> Locals] /\ sent \in [Conns -> Int]
  BY DEF Types, WorkerTypes, SharedTypes
<1>3. CASE Start(w)
  <2>1. worker'[w].pc = "read"
    BY <1>2, <1>3 DEF Start, Locals
  <2> QED
    BY <1>1, <1>3, <2>1 DEF Start, Apart
<1>4. CASE Read(w)
  <2>1. UNCHANGED <<peer, up, fds, heard>>
    BY <1>4 DEF Read
  <2>2. CASE Goto(w, "fail") /\ UNCHANGED sent
    <3>1. worker'[w].pc = "fail"
      BY <2>2, GotoMoves DEF Types
    <3> QED
      BY <1>1, <2>1, <2>2, <3>1 DEF Apart
  <2>3. ASSUME NEW d \in Conns, At(worker[w].client) = d, sent[d] >= 0,
               sent' = [sent EXCEPT ![d] = Consumed],
               worker' = [worker EXCEPT ![w].pc = "method",
                            ![w].tokens = SubSeq(Request[d], 1, sent[d])]
        PROVE  /\ \A c \in Conns : sent'[c] # Nothing <=> sent[c] # Nothing
               /\ worker'[w].pc = "method" /\ sent'[w] # Nothing
    <3>1. d = w
      BY <1>4, <2>3, SomebodyThere DEF Read
    <3>2. worker'[w].pc = "method"
      BY <2>3, ReadMoves DEF Types
    <3>3. \A c \in Conns : sent'[c] = IF c = w THEN Consumed ELSE sent[c]
      BY <1>2, <2>3, <3>1
    <3> QED
      BY <1>2, <2>3, <3>1, <3>2, <3>3 DEF Nothing, Consumed
  <2> QED
    BY <1>1, <1>4, <2>1, <2>2, <2>3 DEF Read, Apart
<1>5. CASE ParseMethod(w) \/ LoadPosition(w)
  <2>1. UNCHANGED <<peer, sent, up, fds, heard>> /\ worker[w].pc \in Answering
    BY <1>5 DEF ParseMethod, LoadPosition
  <2>2. CASE ParseMethod(w)
    <3>1. PICK r \in {[worker[w] EXCEPT !.pc = "fail"],
                      [worker[w] EXCEPT !.pc = "path",
                         !.method = IF worker[w].tokens[1] \in Methods
                                    THEN worker[w].tokens[1] ELSE ""]} :
               worker' = [worker EXCEPT ![w] = r]
      BY <1>2, <2>2 DEF ParseMethod
    <3>2. r.pc \in {"fail", "path"}
      BY <1>2, <3>1 DEF Locals
    <3>3. worker'[w].pc \in {"fail", "path"}
      BY <1>2, <3>1, <3>2
    <3> QED
      BY <2>1, <3>3, <1>1 DEF Apart
  <2>3. CASE LoadPosition(w)
    <3>1. worker' = [worker EXCEPT ![w] = [worker[w] EXCEPT !.pc = "token", !.saved = strtok]]
      BY <1>2, <2>3 DEF LoadPosition
    <3>2. worker'[w].pc = "token"
      BY <1>2, <3>1 DEF Locals
    <3> QED
      BY <2>1, <3>2, <1>1 DEF Apart
  <2> QED
    BY <1>5, <2>2, <2>3
<1>6. CASE ParsePath(w)
  <2>1. UNCHANGED <<peer, sent, heard>> /\ worker[w].pc \in Answering
    BY <1>6 DEF ParsePath
  <2>2. CASE Die /\ UNCHANGED worker
    BY <1>1, <1>6, <2>1, <2>2 DEF ParsePath, Die, Apart
  <2>3. ASSUME NEW path, worker' = [worker EXCEPT ![w].pc = "execute", ![w].path = path]
        PROVE  worker'[w].pc = "execute"
    BY <2>3, PathMoves DEF Types
  <2> QED
    BY <1>1, <1>6, <2>1, <2>2, <2>3 DEF ParsePath, Apart
<1>7. CASE Execute(w)
  <2>1. UNCHANGED <<peer, sent, up, fds, heard>> /\ worker[w].pc \in Answering
    BY <1>7 DEF Execute
  <2>2. PICK pc \in {"header", "fail"} : Goto(w, pc)
    BY <1>7 DEF Execute
  <2>3. worker'[w].pc = pc
    BY <2>2, GotoMoves DEF Types
  <2> QED
    BY <1>1, <2>1, <2>3 DEF Apart
<1>8. CASE Write(w)
  <2>1. At(worker[w].client) = w /\ ~NobodyAt(worker[w].client) /\ worker[w].pc \in Answering
    BY <1>8, SomebodyThere DEF Write
  <2>2. heard' = [heard EXCEPT ![w] = @ \cup {w}] /\ UNCHANGED <<peer, sent, up, fds>>
    BY <1>8, <2>1 DEF Write
  <2>3. PICK pc \in {"close", "body"} : Goto(w, pc)
    BY <1>8, <2>1 DEF Write
  <2>4. worker'[w].pc = pc
    BY <2>3, GotoMoves DEF Types
  <2>5. Apart'
    BY <1>1, <2>2 DEF Apart, Types, SharedTypes
  <2> QED
    BY <1>1, <2>1, <2>2, <2>4, <2>5
<1>9. CASE RespondClose(w) \/ Fail(w)
  <2>1. UNCHANGED <<peer, sent, up, heard>> /\ Close(worker[w].client) /\ worker[w].pc \in Serving
    BY <1>9 DEF RespondClose, Fail
  <2>2. Goto(w, "done")
    BY <1>9 DEF RespondClose, Fail, Own, Waiting
  <2>3. worker'[w].pc = "done"
    BY <2>2, GotoMoves DEF Types
  <2> QED
    BY <1>1, <2>1, <2>3 DEF Apart
<1> QED
  BY <1>3, <1>4, <1>5, <1>6, <1>7, <1>8, <1>9 DEF Work

LEMMA WorkOwn ==
  ASSUME Types, Leak, Own, up, NEW w \in Conns, Work(w)
  PROVE  Own'
<1>1. Waiting'
  BY WorkAnswers, WorkMoves DEF Own, Waiting
<1>2. ASSUME up'
      PROVE  Owned'
  <2>1. ASSUME NEW v \in Conns, NEW f \in Fds, fds[f] = v, v = w => worker'[w].pc # "done"
        PROVE  fds'[f] = v
    <3>1. CASE UNCHANGED fds
      BY <2>1, <3>1
    <3>2. CASE worker[w].pc \in Serving /\ worker'[w].pc = "done" /\ Close(worker[w].client)
      <4>1. fds[worker[w].client] = w /\ worker[w].client \in Fds
        BY <3>2, SomebodyThere DEF At
      <4> QED
        BY <2>1, <3>2, <4>1 DEF Close
    <3> QED
      BY <1>2, <3>1, <3>2, WorkAnswers
  <2>2. worker[w].pc \in Serving \cup {"start"}
    BY WorkMoves DEF Types, WorkerTypes, Locals, Places
  <2>3. ASSUME NEW v \in Conns, worker'[v].pc \in Serving
        PROVE  worker'[v].client \in Fds /\ fds'[worker'[v].client] = v
    <3>1. worker'[v].pc # "done"
      BY <2>3 DEF Serving, Parsing
    <3>2. worker[v].pc \in Serving \cup {"start"}
      BY <2>2, <2>3, WorkMoves
    <3>3. worker'[v].client = IF worker[v].pc = "start" THEN arg[v] ELSE worker[v].client
      <4>1. CASE v = w
        BY <4>1, WorkMoves
      <4>2. CASE v # w
        BY <2>3, <4>2, WorkMoves DEF Serving, Parsing
      <4> QED
        BY <4>1, <4>2
    <3>4. At(worker'[v].client) = v
      BY <3>2, <3>3 DEF Own, Owned, Serving, Parsing
    <3>5. worker'[v].client \in Fds /\ fds[worker'[v].client] = v
      BY <3>4, ServerAssumption DEF At
    <3> QED
      BY <2>1, <3>1, <3>5
  <2>4. ASSUME NEW v \in Conns, worker'[v].pc = "start"
        PROVE  arg'[v] \in Fds /\ fds'[arg'[v]] = v
    <3>1. v # w /\ worker[v].pc = "start" /\ arg'[v] = arg[v]
      <4>1. worker'[w].pc # "start"
        <5>1. CASE worker[w].pc = "start"
          <6>1. Start(w)
            BY <5>1 DEF Work, Read, ParseMethod, LoadPosition, ParsePath, Execute, Write,
                        RespondClose, Fail
          <6>2. worker'[w].pc = "read"
            BY <6>1 DEF Start, Types, WorkerTypes, Locals
          <6> QED
            BY <6>2
        <5>2. CASE worker[w].pc # "start"
          BY <5>2, WorkMoves DEF Serving, Parsing
        <5> QED
          BY <5>1, <5>2
      <4> QED
        BY <2>4, <4>1, WorkMoves
    <3>2. arg[v] \in Fds /\ fds[arg[v]] = v
      BY <3>1, ServerAssumption DEF Own, Owned, At
    <3> QED
      BY <2>1, <3>1, <3>2
  <2>5. ASSUME loop'.pc = "spawn"
        PROVE  loop'.client \in Fds /\ fds'[loop'.client] = loop'.conn
    <3>1. /\ loop' = loop /\ loop.conn \in Conns
          /\ loop.client \in Fds /\ fds[loop.client] = loop.conn
      BY <2>5, WorkMoves DEF Own, Owned, At, Types, LoopTypes
    <3>2. loop.conn # w
      BY <2>5, <3>1, WorkMoves DEF Leak
    <3> QED
      BY <2>1, <3>1, <3>2
  <2> QED
    BY <2>3, <2>4, <2>5 DEF Owned, At
<1> QED
  BY <1>1, <1>2, WorkAnswers DEF Own

LEMMA LoopOwn ==
  ASSUME Types, Leak, Own, up, ServerLoop
  PROVE  Own'
<1>1. UNCHANGED <<up, peer, sent, heard>>
  BY DEF ServerLoop, Accept, AcceptFails, SpawnFails, Spawn, Detach, DetachFails, Join
<1>2. ASSUME UNCHANGED worker
      PROVE  Waiting'
  BY <1>1, <1>2 DEF Own, Waiting
<1>3. ASSUME NEW c \in Conns, Accept(c)
      PROVE  Own'
  <2>1. NextFd \in Fds /\ fds[NextFd] = NoConn
    BY <1>3, NextFdFree DEF Accept, FreeFds
  <2>2. fds' = [fds EXCEPT ![NextFd] = c] /\ UNCHANGED <<worker, arg>>
        /\ loop' = [pc |-> "spawn", conn |-> c, client |-> NextFd]
    BY <1>3 DEF Accept
  <2>3. /\ fds'[NextFd] = c
        /\ \A f \in Fds, v \in Conns : fds[f] = v => fds'[f] = v
    BY <2>1, <2>2, ServerAssumption DEF Types, SharedTypes
  <2>4. Owned'
    <3>1. \A v \in Conns : \A f : At(f) = v => f \in Fds /\ fds[f] = v
      BY ServerAssumption DEF At
    <3>2. \A w \in Conns : worker[w].pc \in Serving =>
            worker[w].client \in Fds /\ fds'[worker[w].client] = w
      BY <2>3, <3>1 DEF Own, Owned
    <3>3. \A w \in Conns : worker[w].pc = "start" => arg[w] \in Fds /\ fds'[arg[w]] = w
      BY <2>3, <3>1 DEF Own, Owned
    <3> QED
      BY <2>1, <2>2, <2>3, <3>2, <3>3 DEF Owned, At
  <2> QED
    BY <1>1, <1>2, <2>2, <2>4 DEF Own, Apart
<1>4. CASE SpawnFails
  <2>1. /\ loop.pc = "spawn" /\ loop'.pc = "accept" /\ UNCHANGED <<worker, arg>>
        /\ loop.client \in Fds /\ fds[loop.client] = loop.conn
        /\ worker[loop.conn].pc = "idle"
    BY <1>4 DEF SpawnFails, Types, LoopTypes, Own, Owned, Leak, At
  <2>2. \A f \in Fds, v \in Conns : fds[f] = v /\ v # loop.conn => fds'[f] = v
    BY <1>4, <2>1 DEF SpawnFails, Close, Types, SharedTypes
  <2>3. Owned'
    <3>1. \A v \in Conns : \A f : At(f) = v => f \in Fds /\ fds[f] = v
      BY ServerAssumption DEF At
    <3>2. \A w \in Conns : worker[w].pc \in Serving =>
            worker[w].client \in Fds /\ fds'[worker[w].client] = w
      BY <2>1, <2>2, <3>1 DEF Own, Owned, Serving, Parsing
    <3>3. \A w \in Conns : worker[w].pc = "start" => arg[w] \in Fds /\ fds'[arg[w]] = w
      BY <2>1, <2>2, <3>1 DEF Own, Owned
    <3> QED
      BY <2>1, <3>2, <3>3 DEF Owned, At
  <2> QED
    BY <1>1, <1>2, <2>1, <2>3 DEF Own, Apart
<1>5. CASE Spawn
  <2>1. loop.pc = "spawn" /\ loop.conn \in Conns /\ At(loop.client) = loop.conn
    BY <1>5 DEF Spawn, Types, LoopTypes, Own, Owned
  <2>2. Goto(loop.conn, "start") /\ UNCHANGED fds /\ loop'.pc = "detach"
        /\ arg' = [arg EXCEPT ![loop.conn] = loop.client]
    BY <1>5 DEF Spawn, Goto, Types, LoopTypes
  <2>3. /\ worker'[loop.conn].pc = "start"
        /\ \A v \in Conns \ {loop.conn} : worker'[v] = worker[v]
    BY <2>1, <2>2, GotoMoves DEF Types
  <2>4. /\ arg'[loop.conn] = loop.client
        /\ \A v \in Conns \ {loop.conn} : arg'[v] = arg[v]
    BY <2>1, <2>2 DEF Types, SharedTypes
  <2>5. Owned'
    BY <2>1, <2>2, <2>3, <2>4 DEF Own, Owned, At, Serving, Parsing
  <2>6. Waiting'
    BY <1>1, <2>1, <2>3 DEF Own, Waiting, Answering, Serving, Parsing
  <2> QED
    BY <1>1, <2>5, <2>6 DEF Own, Apart
<1>6. CASE AcceptFails \/ Detach \/ DetachFails \/ Join
  <2>1. loop'.pc # "spawn" /\ UNCHANGED <<worker, arg, fds>>
    BY <1>6 DEF AcceptFails, Detach, DetachFails, Join, Types, LoopTypes
  <2>2. Owned'
    BY <2>1 DEF Own, Owned, At
  <2> QED
    BY <1>1, <1>2, <2>1, <2>2 DEF Own, Apart
<1> QED
  BY <1>3, <1>4, <1>5, <1>6 DEF ServerLoop

\* A client that has dropped its connection does not come back, and what it
\* sent stays sent.
LEMMA VanishedStays ==
  ASSUME Types, [Next]_vars, Vanished' = {}
  PROVE  Vanished = {}
<1> SUFFICES ASSUME NEW d \in Conns, peer[d] = "gone", sent[d] # Nothing
             PROVE  FALSE
  BY DEF Vanished
<1>1. peer'[d] = "gone" /\ sent'[d] # Nothing
  <2> USE DEF Types, SharedTypes
  <2>1. ASSUME NEW c \in Conns, ClientStep(c) PROVE peer'[d] = "gone" /\ sent'[d] # Nothing
    BY <2>1 DEF ClientStep, Connect, Send, Quit, Vanish
  <2>2. ASSUME NEW c \in Conns, Work(c) PROVE peer'[d] = "gone" /\ sent'[d] # Nothing
    <3>1. peer' = peer
      BY <2>2 DEF Work, Start, Read, ParseMethod, LoadPosition, ParsePath, Execute, Write,
                  RespondClose, Fail
    <3>2. sent' = sent \/ \E e \in Conns : sent' = [sent EXCEPT ![e] = Consumed]
      BY <2>2 DEF Work, Start, Read, ParseMethod, LoadPosition, ParsePath, Execute, Write,
                  RespondClose, Fail
    <3> QED
      BY <3>1, <3>2 DEF Consumed, Nothing
  <2>3. ASSUME ServerLoop PROVE peer'[d] = "gone" /\ sent'[d] # Nothing
    BY <2>3 DEF ServerLoop, Accept, AcceptFails, SpawnFails, Spawn, Detach, DetachFails, Join
  <2>4. CASE UNCHANGED vars
    BY <2>4 DEF vars
  <2> QED
    BY <2>1, <2>2, <2>3, <2>4 DEF Next
<1> QED
  BY <1>1 DEF Vanished

\* What holds until a client drops its connection after its request.
UntilVanished == Vanished = {} => Own

LEMMA OwnStep ==
  ASSUME Types, Leak, UntilVanished, [Next]_vars
  PROVE  UntilVanished'
<1> SUFFICES ASSUME Vanished' = {} PROVE Own'
  BY DEF UntilVanished
<1>1. Own
  BY VanishedStays DEF UntilVanished
<1>2. CASE UNCHANGED vars
  BY <1>1, <1>2 DEF vars, Own, Apart, Waiting, Owned, At
<1> QED
  BY <1>1, <1>2, ClientOwn, WorkOwn, LoopOwn DEF Next

\* Until a client drops its connection after its request, a worker's
\* descriptor is its own until its last close of it: no second close, no use
\* of a number that was given to another connection.
THEOREM OwnsTheorem == Spec => []OwnsClient
<1>1. Init => Types /\ Leak /\ UntilVanished
  BY TypesInit, LeakInit, OwnInit DEF UntilVanished
<1>2. Types /\ Leak /\ UntilVanished /\ [Next]_vars => (Types /\ Leak /\ UntilVanished)'
  BY TypesStep, LeakStep, OwnStep
<1>3. UntilVanished => OwnsClient
  BY DEF UntilVanished, Own, Owned, OwnsClient
<1> QED
  BY <1>1, <1>2, <1>3, PTL DEF Spec

\* Until then, no client reads another's response.
THEOREM CrossTalkTheorem == Spec => []NoCrossTalk
<1>1. Init => Types /\ Leak /\ UntilVanished
  BY TypesInit, LeakInit, OwnInit DEF UntilVanished
<1>2. Types /\ Leak /\ UntilVanished /\ [Next]_vars => (Types /\ Leak /\ UntilVanished)'
  BY TypesStep, LeakStep, OwnStep
<1>3. UntilVanished => NoCrossTalk
  BY DEF UntilVanished, Own, Apart, NoCrossTalk
<1> QED
  BY <1>1, <1>2, <1>3, PTL DEF Spec
==============================================================================
