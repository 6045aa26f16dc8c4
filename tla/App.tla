--------------------------------- MODULE App ---------------------------------
(***************************************************************************)
(* The life of the process: main and run_app of src/ceriousdb/main.c with  *)
(* ceriousapi_setconf and ceriousapi_startserver of                        *)
(* src/ceriousapi/server.c, the interface, and the end of everything.      *)
(* The accept loop is only started here; Server models what it does.       *)
(***************************************************************************)
EXTENDS Config, Interface, Functions

CONSTANTS
  Inputs,        \* what the process may be started with: the environment env, what
                 \* dotenv sets in it and whether .env was ok, the args, each a pair
                 \* of option and value, tty, and the script written to it
  LevelNames,    \* the strings that name a log level, with the level
  BadHosts,      \* hosts that bind refuses
  FailingCalls   \* calls that may fail

\* What the proofs need to know of an input.  (On a pipe nobody writes nothing.)
ASSUME AppAssumption ==
  \A input \in Inputs :
    /\ input.args \in Seq(Range(input.args))
    /\ \A i \in DOMAIN input.args : input.args[i][2] # Unset
    /\ input.tty \in BOOLEAN
    /\ input.script \in Seq(Seq(STRING))
    /\ ~input.tty => \A i \in 1 .. Len(input.script) : input.script[i] # <<>>

VARIABLES
  given,     \* the input
  stage,     \* where main is
  args,      \* arguments getopt_long has not returned yet
  conf,      \* HOST, PORT and LOG_LEVEL of config.c
  serverConf, \* host and port of server.c
  level,     \* the log level
  db,        \* db_cache: "none", with a dictionary or with a NULL one
  routes,    \* number of registered routes
  address,   \* the address the server's socket is bound to
  thread,    \* the server thread exists
  exit       \* exit status, -1 while the process runs

settings == <<conf, serverConf, level, db, routes, address>>
vars == <<given, stage, args, settings, thread, exit, interfaceVars>>

\* Mutant: the server thread is created before its socket is bound.
Following_ThreadFirst ==
  [env |-> "args", args |-> "setconf", setconf |-> "cache", cache |-> "routes",
   routes |-> "socket", socket |-> "create", create |-> "bind", bind |-> "listen",
   listen |-> "detach", detach |-> "interface"]

\* Mutant: the routes are set after the server has been started.
Following_RoutesLast ==
  [env |-> "args", args |-> "setconf", setconf |-> "cache", cache |-> "socket",
   socket |-> "bind", bind |-> "listen", listen |-> "create", create |-> "detach",
   detach |-> "routes", routes |-> "interface"]

\* main's steps, one after the other.
Following ==
  [env |-> "args", args |-> "setconf", setconf |-> "cache", cache |-> "routes",
   routes |-> "socket", socket |-> "bind", bind |-> "listen", listen |-> "create",
   create |-> "detach", detach |-> "interface"]

\* Those of run_app that may fail.
RunApp == {"cache", "routes", "socket", "bind", "listen", "create", "detach"}

NoSettings == [host |-> HOST_DEFAULT, port |-> PORT_DEFAULT, level |-> "INFO"]

Init ==
  /\ given \in Inputs
  /\ tty = given.tty /\ script = given.script
  /\ InterfaceInit
  /\ stage = "env"
  /\ args = given.args
  /\ conf = NoSettings
  /\ serverConf = NoSettings
  /\ level = "INFO"
  /\ db = "none"
  /\ routes = 0
  /\ address = Unset
  /\ thread = FALSE
  /\ exit = -1

\* main is at this stage; it goes to the next, or the process ends.
Running(s) == exit = -1 /\ stage = s
Done == stage' = Following[stage] /\ UNCHANGED <<given, exit>>
Exit(status) == exit' = status /\ UNCHANGED <<given, stage>>

------------------------------------------------------------------------------
(* Start-up.                                                                *)

\* Mutant: .env does not overwrite the environment.
LoadEnv_NoOverwrite ==
  /\ Running("env")
  /\ IF given.ok
     THEN /\ conf' = FromEnv([n \in Names |->
                       IF given.env[n] # Unset \/ n \notin DOMAIN given.dotenv
                       THEN given.env[n] ELSE given.dotenv[n]])
          /\ Done
     ELSE Exit(1) /\ UNCHANGED conf
  /\ UNCHANGED <<args, serverConf, level, db, routes, address, thread, interfaceVars>>

\* load_dotenv(1), then the environment.  No .env file, or an invalid line in
\* it, and the process ends.
LoadEnv ==
  /\ Running("env")
  /\ IF given.ok
     THEN /\ conf' = FromEnv([n \in Names |->
                       IF n \in DOMAIN given.dotenv THEN given.dotenv[n] ELSE given.env[n]])
          /\ Done
     ELSE Exit(1) /\ UNCHANGED conf
  /\ UNCHANGED <<args, serverConf, level, db, routes, address, thread, interfaceVars>>

LoadArg ==
  /\ Running("args") /\ args # <<>>
  /\ conf' = WithArg(conf, Head(args))
  /\ args' = Tail(args)
  /\ IF ValidArg(Head(args)) THEN UNCHANGED <<given, stage, exit>> ELSE Exit(1)
  /\ UNCHANGED <<serverConf, level, db, routes, address, thread, interfaceVars>>

LoadArgsDone ==
  /\ Running("args") /\ args = <<>>
  /\ Done
  /\ UNCHANGED <<args, settings, thread, interfaceVars>>

SetConf ==
  /\ Running("setconf")
  /\ serverConf' = conf
  /\ level' = LevelOf(LevelNames, conf.level)
  /\ Done
  /\ UNCHANGED <<args, conf, db, routes, address, thread, interfaceVars>>

\* cache_init, which is content with a NULL dictionary, and cache_load.
InitCache ==
  /\ Running("cache")
  /\ db' \in {"dictionary"} \cup (IF "dict_new" \in FailingCalls THEN {"NULL"} ELSE {})
  /\ Done
  /\ UNCHANGED <<args, conf, serverConf, level, routes, address, thread, interfaceVars>>

\* The four calls of ceriousapi_setroute, far from its limit.
SetRoutes ==
  /\ Running("routes")
  /\ routes' = routes + 4
  /\ Done
  /\ UNCHANGED <<args, conf, serverConf, level, db, address, thread, interfaceVars>>

Socket ==
  /\ Running("socket")
  /\ Done
  /\ UNCHANGED <<args, settings, thread, interfaceVars>>

Bind ==
  /\ Running("bind")
  /\ serverConf.host \notin BadHosts
  /\ address' = AddressOf(serverConf)
  /\ Done
  /\ UNCHANGED <<args, conf, serverConf, level, db, routes, thread, interfaceVars>>

Listen ==
  /\ Running("listen")
  /\ Done
  /\ UNCHANGED <<args, settings, thread, interfaceVars>>

CreateThread ==
  /\ Running("create")
  /\ thread' = TRUE
  /\ Done
  /\ UNCHANGED <<args, settings, interfaceVars>>

\* pthread_detach, and server_interface begins.
Detach ==
  /\ Running("detach")
  /\ Done
  /\ at' = "select"
  /\ UNCHANGED <<args, settings, thread, userVars, stdioVars>>

\* A call of run_app fails: an error is logged and the process ends.
Fail ==
  /\ exit = -1 /\ stage \in RunApp
  /\ \/ stage \in FailingCalls
     \/ stage = "bind" /\ serverConf.host \in BadHosts
  /\ Exit(1)
  /\ UNCHANGED <<args, settings, thread, interfaceVars>>

\* server_interface has returned 0: run_app and main return.
Finish ==
  /\ Running("interface") /\ at \in {"returned", "failed"}
  /\ Exit(0)
  /\ UNCHANGED <<args, settings, thread, interfaceVars>>

Main ==
  \/ LoadEnv \/ LoadArg \/ LoadArgsDone \/ SetConf \/ InitCache \/ SetRoutes
  \/ Socket \/ Bind \/ Listen \/ CreateThread \/ Detach \/ Fail \/ Finish

------------------------------------------------------------------------------
\* The interface runs in the main thread; somebody may type from the start.
Apart(step) ==
  /\ exit = -1
  /\ step
  /\ UNCHANGED <<given, stage, args, settings, thread, exit>>

User == Apart(UserStep)
Interface == Apart(LoopStep)

Next == Main \/ User \/ Interface \/ Apart(SelectFailure)

Spec == Init /\ [][Next]_vars

\* The system runs the main thread whenever it is not blocked in select or
\* read.  Nobody has to type anything, and select does not have to fail.
FairSpec == Spec /\ WF_vars(Main) /\ WF_vars(Interface)

------------------------------------------------------------------------------
(* Properties.                                                              *)

\* The sources in the order of their precedence: the last valid argument, .env,
\* the environment, the default; a port of 0 in the environment is none.
LastArg(option) ==
  LET found == {i \in DOMAIN given.args : given.args[i][1] = option}
  IN  IF found = {} THEN Unset ELSE given.args[Max(found)][2]
FromFiles(name) == IF name \in DOMAIN given.dotenv THEN given.dotenv[name] ELSE given.env[name]
Or(value, fallback) == IF value # Unset THEN value ELSE fallback

\* A later source wins, setting by setting, and the server listens at what won.
\* Only the port of an argument is checked: 0 from the environment stands for the
\* default, and of any other number, negative ones included, the 16 low bits are
\* the port (0 then lets the kernel choose).
LaterSourcesWin ==
  address # Unset =>
    /\ address.host = Or(LastArg("h"), Or(FromFiles("CERIOUSDB_HOST"), HOST_DEFAULT))
    /\ LET port == Or(LastArg("p"), Or(FromFiles("CERIOUSDB_PORT"), PORT_DEFAULT))
       IN  /\ address.port = IF port = 0 THEN PORT_DEFAULT ELSE port % 65536
           /\ LastArg("p") # Unset => IsPort(port)
    /\ level = LevelOf(LevelNames, Or(FromFiles("LOG_LEVEL"), "INFO"))

\* When the server thread exists, everything it and its workers use without a
\* lock is complete: the routes, the cache they dereference, the bound socket.
ReadyBeforeServing ==
  thread => /\ routes = 4
            /\ db # "none"
            /\ address = AddressOf(serverConf)
            /\ serverConf = conf

\* ... and never changes again, so that these reads race with nothing.
SettingsFrozen == [][thread => UNCHANGED settings]_vars

\* interface.h, "q / stop -> stop server (terminate process with all threads)":
\* a stop that is written as a line of its own, before any end of file, ends
\* the process, whatever came before it.  On a pipe this takes the writer to
\* hang up: until then a line may stay in stdio's buffer while select waits.
StopStops == (StopRequested /\ (tty \/ hungup)) ~> exit # -1

\* Nothing else ends a server that runs well: no unknown command, no part of
\* a line, no end of file, no hang-up.  (The tail of a line that is too long
\* for fgets, and a failing select, do.)
OnlyStopStops ==
  exit = 0 /\ at = "returned" /\ LinesFit => StopLine \in LinesOf(Stream(typed), FALSE)
==============================================================================
