------------------------------- MODULE Server -------------------------------
(***************************************************************************)
(* src/ceriousapi/server.c at run time: the thread that accepts            *)
(* connections, one detached worker thread per connection, and what they   *)
(* share: the descriptor table of the process and strtok's position.       *)
(*                                                                         *)
(* A connection stands for the client that opens it and for the worker     *)
(* thread started for it.  A step is one system or library call on shared  *)
(* state.  Route functions are external: each ends in one call of respond. *)
(***************************************************************************)
EXTENDS Dispatch

CONSTANTS
  Conns,         \* connections clients open
  NoConn,        \* no connection
  Fds,           \* descriptors the process has left for client sockets
  Paths,         \* path tokens of requests
  Root,          \* "/"
  Methods,       \* HEAD, GET, PUT and DELETE
  Routes,        \* the registered routes
  Request,       \* Request[c] is the request line of c, as a sequence of tokens
  FailingCalls   \* calls of the accept loop that may fail

ASSUME ServerAssumption ==
  /\ NoConn \notin Conns
  /\ Fds \subseteq Nat \ {0}
  /\ Root \in Paths
  /\ "" \notin Methods
  /\ \A c \in Conns : /\ Request[c] \in Seq(STRING)
                       /\ \A i \in 2 .. Len(Request[c]) : Request[c][i] \in Paths
  /\ FailingCalls \subseteq {"accept", "malloc", "create", "detach"}

VARIABLES
  up,      \* the process runs
  peer,    \* each client: "away", "open" once it has connected, "gone"
  sent,    \* each client: how many tokens of its request wait to be read
  fds,     \* the connection each descriptor refers to, NoConn if it is free
  loop,    \* server_loop: where it is, the connection and client of this turn
  accepted, \* connections accept has returned
  arg,     \* the malloc'd argument of each worker
  worker,  \* each worker thread: its locals and where it is
  strtok,  \* strtok's static pointer: a worker's request_line and a token of it
  heard,   \* each client: the workers whose response was written to it
  failed   \* history: accept and detach, once they have failed

vars == <<up, peer, sent, fds, loop, accepted, arg, worker, strtok, heard, failed>>

\* Where a worker is between the entry of parse_requestline and its return,
\* while its request_line is on its stack.
Parsing == {"read", "method", "path", "token"}

\* The client has not sent its request yet; the request has been read.
Nothing == -1
Consumed == -2

NoPosition == [line |-> NoConn, at |-> 0]

Idle == [pc |-> "idle", client |-> 0, tokens |-> <<>>, method |-> "", path |-> "",
         saved |-> NoPosition]

\* Where a worker is between its start and its last close of its client.
Serving == Parsing \cup {"execute", "header", "body", "close", "giveup", "fail"}

Init ==
  /\ up = TRUE
  /\ peer = [c \in Conns |-> "away"]
  /\ sent = [c \in Conns |-> Nothing]
  /\ fds = [f \in Fds |-> NoConn]
  /\ loop = [pc |-> "accept", conn |-> NoConn, client |-> 0]
  /\ accepted = {}
  /\ arg = [c \in Conns |-> 0]
  /\ worker = [c \in Conns |-> Idle]
  /\ strtok = NoPosition
  /\ heard = [c \in Conns |-> {}]
  /\ failed = {}

------------------------------------------------------------------------------
(* Clients (external).                                                      *)

Connect(c) ==
  /\ peer[c] = "away"
  /\ peer' = [peer EXCEPT ![c] = "open"]
  /\ UNCHANGED <<up, sent, fds, loop, accepted, arg, worker, strtok, heard, failed>>

\* What one read finds is a prefix of the request line, cut between tokens.
Send(c) ==
  /\ peer[c] = "open" /\ sent[c] = Nothing
  /\ \E n \in 0 .. Len(Request[c]) : sent' = [sent EXCEPT ![c] = n]
  /\ UNCHANGED <<up, peer, fds, loop, accepted, arg, worker, strtok, heard, failed>>

\* The client gives the connection up before it has sent anything.
Quit(c) ==
  /\ peer[c] = "open" /\ sent[c] = Nothing
  /\ peer' = [peer EXCEPT ![c] = "gone"]
  /\ UNCHANGED <<up, sent, fds, loop, accepted, arg, worker, strtok, heard, failed>>

\* The client drops the connection after its request.
Vanish(c) ==
  /\ peer[c] = "open" /\ sent[c] # Nothing
  /\ peer' = [peer EXCEPT ![c] = "gone"]
  /\ UNCHANGED <<up, sent, fds, loop, accepted, arg, worker, strtok, heard, failed>>

------------------------------------------------------------------------------
(* The descriptor table.                                                    *)

FreeFds == {f \in Fds : fds[f] = NoConn}

\* A new socket gets the lowest free descriptor.
NextFd == CHOOSE f \in FreeFds : \A g \in FreeFds : f <= g

\* close(f): nothing happens (EBADF) when f is free.
Close(f) == fds' = IF f \in Fds THEN [fds EXCEPT ![f] = NoConn] ELSE fds

\* The process ends and the system closes its descriptors.
Die == up' = FALSE /\ fds' = [f \in Fds |-> NoConn]

At(f) == IF f \in Fds THEN fds[f] ELSE NoConn

\* Nobody is at the other end: f is closed, or its client is gone.
NobodyAt(f) == At(f) \in Conns => peer[At(f)] = "gone"

------------------------------------------------------------------------------
(* The accept loop.                                                         *)

Accept(c) ==
  /\ loop.pc = "accept"
  /\ peer[c] # "away" /\ c \notin accepted
  /\ FreeFds # {}
  /\ fds' = [fds EXCEPT ![NextFd] = c]
  /\ accepted' = accepted \cup {c}
  /\ loop' = [pc |-> "spawn", conn |-> c, client |-> NextFd]
  /\ UNCHANGED <<up, peer, sent, arg, worker, strtok, heard, failed>>

\* Mutant: the result of accept is not checked.
AcceptFails_Served ==
  /\ loop.pc = "accept"
  /\ FreeFds = {} \/ "accept" \in FailingCalls
  /\ loop' = [pc |-> "spawn", conn |-> NoConn, client |-> -1]
  /\ UNCHANGED <<up, peer, sent, fds, accepted, arg, worker, strtok, heard, failed>>

\* accept returns -1, for want of a descriptor (EMFILE) or otherwise, and
\* ends the loop.
AcceptFails ==
  /\ loop.pc = "accept"
  /\ FreeFds = {} \/ "accept" \in FailingCalls
  /\ loop' = [loop EXCEPT !.pc = "ended"]
  /\ UNCHANGED <<up, peer, sent, fds, accepted, arg, worker, strtok, heard>>
  /\ failed' = failed \cup {"accept"}

\* malloc of the argument or pthread_create fails: the client is closed.
SpawnFails ==
  /\ loop.pc = "spawn"
  /\ FailingCalls \cap {"malloc", "create"} # {}
  /\ Close(loop.client)
  /\ loop' = [loop EXCEPT !.pc = "accept"]
  /\ UNCHANGED <<up, peer, sent, accepted, arg, worker, strtok, heard, failed>>

Spawn ==
  /\ loop.pc = "spawn"
  /\ arg' = [arg EXCEPT ![loop.conn] = loop.client]
  /\ worker' = [worker EXCEPT ![loop.conn].pc = "start"]
  /\ loop' = [loop EXCEPT !.pc = "detach"]
  /\ UNCHANGED <<up, peer, sent, fds, accepted, strtok, heard, failed>>

\* Mutant: the loop waits for the worker instead of detaching it.
Detach_Joining ==
  /\ loop.pc = "detach"
  /\ loop' = [loop EXCEPT !.pc = "join"]
  /\ UNCHANGED <<up, peer, sent, fds, accepted, arg, worker, strtok, heard, failed>>

Detach ==
  /\ loop.pc = "detach"
  /\ loop' = [loop EXCEPT !.pc = "accept"]
  /\ UNCHANGED <<up, peer, sent, fds, accepted, arg, worker, strtok, heard, failed>>

DetachFails ==
  /\ loop.pc = "detach"
  /\ "detach" \in FailingCalls
  /\ loop' = [loop EXCEPT !.pc = "join"]
  /\ UNCHANGED <<up, peer, sent, fds, accepted, arg, worker, strtok, heard>>
  /\ failed' = failed \cup {"detach"}

Join ==
  /\ loop.pc = "join"
  /\ worker[loop.conn].pc = "done"
  /\ loop' = [loop EXCEPT !.pc = "accept"]
  /\ UNCHANGED <<up, peer, sent, fds, accepted, arg, worker, strtok, heard, failed>>

ServerLoop ==
  \/ \E c \in Conns : Accept(c)
  \/ AcceptFails \/ SpawnFails \/ Spawn \/ Detach \/ DetachFails \/ Join

------------------------------------------------------------------------------
(* A worker thread: process_single_request.                                 *)

Goto(w, pc) == worker' = [worker EXCEPT ![w].pc = pc]

\* Mutant: the workers share one argument, the loop's own variable.
Start_SharedArg(w) ==
  /\ worker[w].pc = "start"
  /\ worker' = [worker EXCEPT ![w].pc = "read", ![w].client = loop.client]
  /\ UNCHANGED <<up, peer, sent, fds, loop, accepted, arg, strtok, heard, failed>>

Start(w) ==
  /\ worker[w].pc = "start"
  /\ worker' = [worker EXCEPT ![w].pc = "read", ![w].client = arg[w]]
  /\ UNCHANGED <<up, peer, sent, fds, loop, accepted, arg, strtok, heard, failed>>

\* read: blocks until something arrives; 0 or -1 when nothing will.
Read(w) ==
  /\ worker[w].pc = "read"
  /\ \/ \E d \in Conns :
          /\ At(worker[w].client) = d
          /\ sent[d] >= 0
          /\ sent' = [sent EXCEPT ![d] = Consumed]
          /\ worker' = [worker EXCEPT
               ![w].pc = "method", ![w].tokens = SubSeq(Request[d], 1, sent[d])]
     \/ /\ NobodyAt(worker[w].client)
        /\ Goto(w, "fail")
        /\ UNCHANGED sent
  /\ UNCHANGED <<up, peer, fds, loop, accepted, arg, strtok, heard, failed>>

\* strtok(request_line, " ").
ParseMethod(w) ==
  /\ worker[w].pc = "method"
  /\ strtok' = [line |-> w, at |-> 2]
  /\ worker' = IF worker[w].tokens = <<>>
               THEN [worker EXCEPT ![w].pc = "fail"]
               ELSE [worker EXCEPT ![w].pc = "path",
                       ![w].method = IF worker[w].tokens[1] \in Methods
                                     THEN worker[w].tokens[1]
                                     ELSE ""]
  /\ UNCHANGED <<up, peer, sent, fds, loop, accepted, arg, heard, failed>>

\* strtok(NULL, " ") loads the static position...
LoadPosition(w) ==
  /\ worker[w].pc = "path"
  /\ worker' = [worker EXCEPT ![w].pc = "token", ![w].saved = strtok]
  /\ UNCHANGED <<up, peer, sent, fds, loop, accepted, arg, strtok, heard, failed>>

\* What strtok finds at a position: the path is "/" if nothing is left; where
\* the request_line of a returned parse_requestline was, it finds anything.
TokensAt(position) ==
  LET other == worker[position.line]
  IN  IF other.pc \notin Parsing THEN Paths
      ELSE IF position.at \in DOMAIN other.tokens THEN {other.tokens[position.at]}
      ELSE {Root}

\* ... and stores the position after the token it returns.  The stack of a
\* thread that is done may no longer be there to read.
ParsePath(w) ==
  /\ worker[w].pc = "token"
  /\ \/ /\ \E token \in TokensAt(worker[w].saved) :
               worker' = [worker EXCEPT ![w].pc = "execute", ![w].path = token]
        /\ strtok' = [worker[w].saved EXCEPT !.at = @ + 1]
        /\ UNCHANGED <<up, fds>>
     \/ /\ worker[worker[w].saved.line].pc = "done"
        /\ Die
        /\ UNCHANGED <<worker, strtok>>
  /\ UNCHANGED <<peer, sent, loop, accepted, arg, heard, failed>>

\* execute_function calls the route's function, which calls respond.
Execute(w) ==
  /\ worker[w].pc = "execute"
  /\ Goto(w, IF HandlerOf(Routes, worker[w].path, worker[w].method) # 0
             THEN "header" ELSE "fail")
  /\ UNCHANGED <<up, peer, sent, fds, loop, accepted, arg, strtok, heard, failed>>

\* respond: the writes of the header and of the body, which may be empty.  A
\* write to a client that is gone may succeed, fail, or raise SIGPIPE, which
\* the process does not handle.
Write(w) ==
  /\ worker[w].pc \in {"header", "body"}
  /\ \/ /\ At(worker[w].client) # NoConn
        /\ heard' = [heard EXCEPT ![At(worker[w].client)] = @ \cup {w}]
        /\ \/ Goto(w, "close")
           \/ worker[w].pc = "header" /\ Goto(w, "body")
        /\ UNCHANGED <<up, fds>>
     \/ /\ NobodyAt(worker[w].client)
        /\ Goto(w, "giveup")
        /\ UNCHANGED <<up, fds, heard>>
     \/ /\ At(worker[w].client) # NoConn
        /\ NobodyAt(worker[w].client)
        /\ Die
        /\ UNCHANGED <<worker, heard>>
  /\ UNCHANGED <<peer, sent, loop, accepted, arg, strtok, failed>>

\* Mutant: respond closes the client and reports failure although it wrote.
RespondClose_Failing(w) ==
  /\ worker[w].pc \in {"close", "giveup"}
  /\ Close(worker[w].client)
  /\ Goto(w, "fail")
  /\ UNCHANGED <<up, peer, sent, loop, accepted, arg, strtok, heard, failed>>

\* respond closes the client in any case, and returns -1 if a write failed.
RespondClose(w) ==
  /\ worker[w].pc \in {"close", "giveup"}
  /\ Close(worker[w].client)
  /\ Goto(w, IF worker[w].pc = "close" THEN "done" ELSE "fail")
  /\ UNCHANGED <<up, peer, sent, loop, accepted, arg, strtok, heard, failed>>

\* Mutant: the error paths return without the close.
Fail_Leaking(w) ==
  /\ worker[w].pc = "fail"
  /\ Goto(w, "done")
  /\ UNCHANGED <<up, peer, sent, fds, loop, accepted, arg, strtok, heard, failed>>

\* The error paths of process_single_request: close(client), also when the
\* route function failed because its respond, which closed it, had failed.
Fail(w) ==
  /\ worker[w].pc = "fail"
  /\ Close(worker[w].client)
  /\ Goto(w, "done")
  /\ UNCHANGED <<up, peer, sent, loop, accepted, arg, strtok, heard, failed>>

Work(w) ==
  \/ Start(w) \/ Read(w) \/ ParseMethod(w) \/ LoadPosition(w) \/ ParsePath(w)
  \/ Execute(w) \/ Write(w) \/ RespondClose(w) \/ Fail(w)

------------------------------------------------------------------------------
ClientStep(c) == Connect(c) \/ Send(c) \/ Quit(c) \/ Vanish(c)

Next ==
  /\ up
  /\ \/ ServerLoop
     \/ \E c \in Conns : Work(c) \/ ClientStep(c)

Spec == Init /\ [][Next]_vars

\* The operating system runs every thread that is not blocked.
FairSpec ==
  /\ Spec
  /\ WF_vars(up /\ ServerLoop)
  /\ \A c \in Conns : WF_vars(up /\ Work(c))

------------------------------------------------------------------------------
(* Properties.                                                              *)

TypeOK ==
  /\ up \in BOOLEAN
  /\ peer \in [Conns -> {"away", "open", "gone"}]
  /\ sent \in [Conns -> Int]
  /\ fds \in [Fds -> Conns \cup {NoConn}]
  /\ loop \in [pc : {"accept", "spawn", "detach", "join", "ended"},
                conn : Conns \cup {NoConn}, client : Fds \cup {0}]
  /\ accepted \in SUBSET Conns
  /\ arg \in [Conns -> Fds \cup {0}]
  /\ worker \in [Conns -> [pc : Serving \cup {"idle", "start", "done"}, client : Fds \cup {0},
                            tokens : Seq(STRING), method : Methods \cup {""}, path : Paths \cup {""},
                            saved : [line : Conns \cup {NoConn}, at : Nat]]]
  /\ strtok \in [line : Conns \cup {NoConn}, at : Nat]
  /\ heard \in [Conns -> SUBSET Conns]
  /\ failed \in SUBSET {"accept", "detach"}

\* The clients that dropped their connection after their request.
Vanished == {c \in Conns : peer[c] = "gone" /\ sent[c] # Nothing}

\* Until a client drops its connection after its request: while a worker
\* serves its client, the descriptor it holds refers to the connection it was
\* started for.  Nobody else closes it, and it is not used after its own
\* close, when another connection may have it.
OwnsClient ==
  up /\ Vanished = {} => \A w \in Conns : worker[w].pc \in Serving => At(worker[w].client) = w

\* However a request ends, the descriptor a worker goes on to use or close is
\* not one that was given to another connection in the meantime.
TouchesNoOther ==
  \A w \in Conns : worker[w].pc \in Serving => At(worker[w].client) \in {w, NoConn}

\* Until a client drops its connection after its request, a client only hears
\* the response of the worker that serves it.
NoCrossTalk == Vanished = {} => \A c \in Conns : heard[c] \subseteq {c}

\* A descriptor in use is still going to be closed by someone: no path through
\* the loop or a worker ends with its client open, whatever calls failed, even
\* when descriptors are closed twice.
NoDescriptorLeak ==
  \A f \in Fds : fds[f] # NoConn =>
    \/ worker[fds[f]].pc \in Serving \cup {"start"} /\ arg[fds[f]] = f
    \/ loop.pc = "spawn" /\ loop.conn = fds[f] /\ loop.client = f

\* A worker answers for the path in its own request line.
RoutedByOwnPath ==
  \A w \in Conns : worker[w].pc \in {"execute", "header", "body", "close"} =>
    worker[w].path = IF Len(worker[w].tokens) >= 2 THEN worker[w].tokens[2] ELSE Root

\* An accepted connection is closed, once its client has sent something or
\* given up: answered or refused, no worker keeps it.
EventuallyClosed ==
  \A c \in Conns :
    c \in accepted /\ (sent[c] # Nothing \/ peer[c] = "gone")
      ~> \A f \in Fds : fds[f] # c

\* A client that connects is accepted, however long another keeps its worker
\* waiting for a request, unless accept has failed, which ends the loop (for
\* one when clients hold all descriptors), or detach has, for which the loop
\* waits for a worker.
EventuallyAccepted ==
  \A c \in Conns : peer[c] # "away" ~> c \in accepted \/ failed # {} \/ ~up
==============================================================================
