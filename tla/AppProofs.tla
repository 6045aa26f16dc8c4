------------------------------ MODULE AppProofs ------------------------------
(***************************************************************************)
(* The start-up of the server is safe for every input: when the server     *)
(* thread exists, what it reads without a lock is complete and stays as it *)
(* is, and every setting comes from the last source that has it.  And the  *)
(* interface ends a server that runs well only when it is told to.         *)
(***************************************************************************)
EXTENDS App, Foundations

\* What main has done when it is at a stage.
Progress ==
  /\ stage \in {"env", "args", "setconf"} \cup RunApp \cup {"interface"}
  /\ stage \notin {"env", "args", "setconf"} => serverConf = conf
  /\ stage \notin {"env", "args", "setconf", "cache"} => db # "none"
  /\ routes = IF stage \in {"env", "args", "setconf", "cache", "routes"} THEN 0 ELSE 4
  /\ stage \in {"listen", "create", "detach", "interface"} => address = AddressOf(serverConf)
  /\ thread => stage \in {"detach", "interface"}

LEMMA ProgressInit == Init => Progress
BY DEF Init, Progress

\* Every step keeps Progress, and none changes a setting beside the thread.
LEMMA ProgressStep ==
  ASSUME Progress, [Next]_vars
  PROVE  Progress' /\ (thread => UNCHANGED settings)
<1> USE DEF Progress, RunApp, Running, Done, Exit, Following, settings
<1>1. CASE LoadEnv
  BY <1>1 DEF LoadEnv
<1>2. CASE LoadArg
  BY <1>2 DEF LoadArg
<1>3. CASE LoadArgsDone
  BY <1>3 DEF LoadArgsDone
<1>4. CASE SetConf
  BY <1>4 DEF SetConf
<1>5. CASE InitCache
  BY <1>5 DEF InitCache
<1>6. CASE SetRoutes
  BY <1>6 DEF SetRoutes
<1>7. CASE Socket
  BY <1>7 DEF Socket
<1>8. CASE Bind
  BY <1>8 DEF Bind
<1>9. CASE Listen
  BY <1>9 DEF Listen
<1>10. CASE CreateThread
  BY <1>10 DEF CreateThread
<1>11. CASE Detach
  BY <1>11 DEF Detach
<1>12. CASE Fail
  BY <1>12 DEF Fail
<1>13. CASE Finish
  BY <1>13 DEF Finish
<1>14. CASE User \/ Interface \/ Apart(SelectFailure)
  BY <1>14 DEF User, Interface, Apart
<1>15. CASE UNCHANGED vars
  BY <1>15 DEF vars
<1> QED
  BY <1>1, <1>2, <1>3, <1>4, <1>5, <1>6, <1>7, <1>8, <1>9, <1>10, <1>11, <1>12,
     <1>13, <1>14, <1>15 DEF Next, Main

\* For every input and every set of failing calls: the server thread exists
\* only when routes, cache, settings and socket are complete.
THEOREM ReadyTheorem == Spec => []ReadyBeforeServing
<1>1. Progress => ReadyBeforeServing
  BY DEF Progress, ReadyBeforeServing, RunApp
<1> QED
  BY <1>1, ProgressInit, ProgressStep, PTL DEF Spec

\* ... and from then on none of them is written.
THEOREM FrozenTheorem == Spec => SettingsFrozen
<1>1. Progress /\ [Next]_vars => [thread => UNCHANGED settings]_vars
  BY ProgressStep
<1> QED
  BY <1>1, ProgressInit, ProgressStep, PTL DEF Spec, SettingsFrozen

------------------------------------------------------------------------------
(* Where the settings come from.                                            *)

\* LastArg among the first k arguments.
ArgAfter(option, k) ==
  LET found == {i \in 1 .. k : given.args[i][1] = option}
  IN  IF found = {} THEN Unset ELSE given.args[Max(found)][2]

EnvPort ==
  LET port == Or(FromFiles("CERIOUSDB_PORT"), PORT_DEFAULT)
  IN  IF port = 0 THEN PORT_DEFAULT ELSE port

\* The settings after the first k arguments, all of them valid.
Won(k) ==
  /\ conf = [host  |-> Or(ArgAfter("h", k), Or(FromFiles("CERIOUSDB_HOST"), HOST_DEFAULT)),
             port  |-> Or(ArgAfter("p", k), EnvPort),
             level |-> Or(FromFiles("LOG_LEVEL"), "INFO")]
  /\ ArgAfter("p", k) # Unset => IsPort(ArgAfter("p", k))

ArgsLeft(k) == args = SubSeq(given.args, k + 1, Len(given.args))

Sources ==
  /\ given \in Inputs
  /\ stage = "env" => ArgsLeft(0)
  /\ stage = "args" /\ exit = -1 =>
       \E k \in 0 .. Len(given.args) : ArgsLeft(k) /\ Won(k)
  /\ stage \notin {"env", "args"} => Won(Len(given.args))
  /\ stage \notin {"env", "args", "setconf"} => level = LevelOf(LevelNames, conf.level)
  /\ address # Unset => /\ stage \notin {"env", "args", "setconf"}
                        /\ address = AddressOf(serverConf)

\* The arguments are a sequence.
LEMMA ArgsAreSeq ==
  ASSUME given \in Inputs
  PROVE  /\ given.args \in Seq(Range(given.args))
         /\ \A i \in 1 .. Len(given.args) : given.args[i][2] # Unset
         /\ Len(given.args) \in Nat
BY AppAssumption

\* What was won stays so while input and settings do.
LEMMA InputKept ==
  ASSUME given' = given
  PROVE  /\ EnvPort' = EnvPort
         /\ \A n : FromFiles(n)' = FromFiles(n)
         /\ \A option, k : ArgAfter(option, k)' = ArgAfter(option, k)
<1>1. EnvPort' = EnvPort
  BY DEF EnvPort, FromFiles
<1>2. \A n : FromFiles(n)' = FromFiles(n)
  BY DEF FromFiles
<1>3. \A option, k : ArgAfter(option, k)' = ArgAfter(option, k)
  BY DEF ArgAfter
<1> QED
  BY <1>1, <1>2, <1>3

LEMMA WonKept ==
  ASSUME NEW k, given' = given, conf' = conf, Won(k)
  PROVE  Won(k)'
BY InputKept DEF Won

LEMMA SourcesKept ==
  ASSUME Sources, UNCHANGED <<given, stage, args, conf, level, address, serverConf, exit>>
  PROVE  Sources'
<1>1. UNCHANGED <<given, conf>> /\ stage' = stage
  OBVIOUS
<1>2. \A k : (Won(k) => Won(k)') /\ (ArgsLeft(k) => ArgsLeft(k)')
  BY WonKept DEF ArgsLeft
<1> QED
  BY <1>2 DEF Sources

\* The first of the arguments that are left.
LEMMA RestOfArgs ==
  ASSUME NEW s, s \in Seq(Range(s)), NEW k \in 0 .. Len(s),
         SubSeq(s, k + 1, Len(s)) # <<>>
  PROVE  /\ k < Len(s)
         /\ Head(SubSeq(s, k + 1, Len(s))) = s[k + 1]
         /\ Tail(SubSeq(s, k + 1, Len(s))) = SubSeq(s, k + 1 + 1, Len(s))
<1>1. k < Len(s)
  OBVIOUS
<1> QED
  BY <1>1

\* One more argument replaces what the earlier ones said of its option.
LEMMA ArgAfterNext ==
  ASSUME NEW k \in Nat, NEW option, given.args[k + 1][2] # Unset
  PROVE  ArgAfter(option, k + 1) =
           IF given.args[k + 1][1] = option THEN given.args[k + 1][2] ELSE ArgAfter(option, k)
<1> DEFINE found(n) == {i \in 1 .. n : given.args[i][1] = option}
<1>1. CASE given.args[k + 1][1] = option
  <2>1. k + 1 \in found(k + 1) /\ \A i \in found(k + 1) : k + 1 >= i
    BY <1>1
  <2>2. Max(found(k + 1)) = k + 1
    <3> HIDE DEF found
    <3>1. \A x : x \in found(k + 1) => x \in Int
      BY DEF found
    <3> QED
      BY <2>1, <3>1 DEF Max
  <2> QED
    BY <1>1, <2>1, <2>2 DEF ArgAfter
<1>2. CASE given.args[k + 1][1] # option
  <2>1. found(k + 1) = found(k)
    BY <1>2
  <2> QED
    BY <1>2, <2>1 DEF ArgAfter
<1> QED
  BY <1>1, <1>2

LEMMA SourcesInit == Init => Sources
<1> SUFFICES ASSUME Init PROVE Sources
  OBVIOUS
<1>1. given.args = SubSeq(given.args, 1, Len(given.args))
  BY ArgsAreSeq DEF Init
<1> QED
  BY <1>1 DEF Init, Sources, ArgsLeft

\* The environment alone: nothing has been said by arguments.
LEMMA LoadEnvSources ==
  ASSUME Progress, Sources, LoadEnv
  PROVE  Sources'
<1> USE DEF LoadEnv, Running, Exit, Done, Following
<1>1. CASE given.ok
  <2> DEFINE env == [n \in Names |-> IF n \in DOMAIN given.dotenv THEN given.dotenv[n] ELSE given.env[n]]
  <2>1. stage' = "args" /\ conf' = FromEnv(env) /\ UNCHANGED <<given, args, exit, level, address, serverConf>>
    BY <1>1 DEF settings
  <2>2. ArgAfter("h", 0) = Unset /\ ArgAfter("p", 0) = Unset
    BY DEF ArgAfter
  <2>3. \A n \in Names : GetEnv(env, n, HOST_DEFAULT) = Or(FromFiles(n), HOST_DEFAULT)
                       /\ GetEnv(env, n, PORT_DEFAULT) = Or(FromFiles(n), PORT_DEFAULT)
                       /\ GetEnv(env, n, "INFO") = Or(FromFiles(n), "INFO")
    BY DEF GetEnv, Or, FromFiles
  <2>4. conf' = [host  |-> Or(FromFiles("CERIOUSDB_HOST"), HOST_DEFAULT), port |-> EnvPort,
                 level |-> Or(FromFiles("LOG_LEVEL"), "INFO")]
    BY <2>1, <2>3 DEF FromEnv, EnvPort, Names
  <2>5. Won(0)'
    BY <2>1, <2>2, <2>4 DEF Won, Or, ArgAfter, EnvPort, FromFiles
  <2>6. ArgsLeft(0)' /\ 0 \in 0 .. Len(given'.args)
    BY <2>1, ArgsAreSeq DEF Sources, ArgsLeft
  <2> QED
    BY <2>1, <2>5, <2>6 DEF Sources
<1>2. CASE ~given.ok
  BY <1>2 DEF Sources, ArgsLeft
<1> QED
  BY <1>1, <1>2

LEMMA LoadArgSources ==
  ASSUME Progress, Sources, LoadArg
  PROVE  Sources'
<1>1. /\ UNCHANGED <<given, stage, level, address, serverConf>> /\ stage = "args" /\ exit = -1
      /\ args # <<>> /\ args' = Tail(args) /\ conf' = WithArg(conf, Head(args))
      /\ (~ValidArg(Head(args)) => exit' = 1)
  BY DEF LoadArg, Running, Exit
<1>2. PICK k \in 0 .. Len(given.args) : ArgsLeft(k) /\ Won(k)
  BY <1>1 DEF Sources
<1>3. given.args \in Seq(Range(given.args)) /\ Len(given.args) \in Nat
  BY ArgsAreSeq DEF Sources
<1>4. k < Len(given.args) /\ Head(args) = given.args[k + 1]
      /\ args' = SubSeq(given.args, k + 1 + 1, Len(given.args))
  BY <1>1, <1>2, <1>3, RestOfArgs DEF ArgsLeft
<1>5. ArgsLeft(k + 1)'
  BY <1>1, <1>4 DEF ArgsLeft
<1>6. CASE ~ValidArg(Head(args))
  BY <1>1, <1>6 DEF Sources
<1>7. CASE ValidArg(Head(args))
  <2> DEFINE arg == given.args[k + 1]
  <2>1. arg[2] # Unset /\ k \in Nat
    BY <1>3, <1>4, ArgsAreSeq DEF Sources
  <2>2. /\ ArgAfter("h", k + 1) = IF arg[1] = "h" THEN arg[2] ELSE ArgAfter("h", k)
        /\ ArgAfter("p", k + 1) = IF arg[1] = "p" THEN arg[2] ELSE ArgAfter("p", k)
    BY <2>1, ArgAfterNext
  <2> HIDE DEF arg
  <2>3. conf' = WithArg(conf, arg) /\ ValidArg(arg)
    BY <1>1, <1>4, <1>7 DEF arg
  <2>4. conf' = [host  |-> Or(ArgAfter("h", k + 1), Or(FromFiles("CERIOUSDB_HOST"), HOST_DEFAULT)),
                 port  |-> Or(ArgAfter("p", k + 1), EnvPort),
                 level |-> Or(FromFiles("LOG_LEVEL"), "INFO")]
    BY <1>2, <2>1, <2>2, <2>3 DEF Won, WithArg, Or
  <2>5. ArgAfter("p", k + 1) # Unset => IsPort(ArgAfter("p", k + 1))
    <3>1. arg[1] = "p" => IsPort(arg[2])
      BY <2>3 DEF ValidArg
    <3> QED
      BY <1>2, <2>2, <3>1 DEF Won
  <2>6. Won(k + 1)'
    BY <1>1, <2>4, <2>5, InputKept DEF Won
  <2>7. k + 1 \in 0 .. Len(given'.args)
    BY <1>1, <1>3, <1>4
  <2> QED
    BY <1>1, <1>5, <2>6, <2>7 DEF Sources
<1> QED
  BY <1>6, <1>7

LEMMA LoadArgsDoneSources ==
  ASSUME Progress, Sources, LoadArgsDone
  PROVE  Sources'
<1>1. /\ UNCHANGED <<given, conf, level, address, serverConf, exit>>
      /\ stage = "args" /\ stage' = "setconf" /\ exit = -1 /\ args = <<>>
  BY DEF LoadArgsDone, Running, Done, Following, settings
<1>2. PICK k \in 0 .. Len(given.args) : ArgsLeft(k) /\ Won(k)
  BY <1>1 DEF Sources
<1>3. given.args \in Seq(Range(given.args)) /\ Len(given.args) \in Nat
  BY ArgsAreSeq DEF Sources
<1>4. k = Len(given.args)
  <2>1. Len(SubSeq(given.args, k + 1, Len(given.args))) = Len(given.args) - k
    BY <1>3
  <2>2. SubSeq(given.args, k + 1, Len(given.args)) = <<>>
    BY <1>1, <1>2 DEF ArgsLeft
  <2>3. Len(given.args) - k = 0
    BY <2>1, <2>2
  <2> QED
    BY <1>3, <2>3
<1>5. Won(k)' /\ k = Len(given'.args)
  BY <1>1, <1>2, <1>4, WonKept
<1> QED
  BY <1>1, <1>5 DEF Sources

\* After the arguments, what was won is only handed on.
LEMMA LaterSources ==
  ASSUME Progress, Sources, stage \notin {"env", "args"}, [Next]_vars
  PROVE  Sources'
<1> USE DEF Progress, RunApp, Running, Done, Exit, Following, settings
<1>1. UNCHANGED <<given, conf>> /\ stage' \notin {"env", "args"}
  <2>1. CASE User \/ Interface \/ Apart(SelectFailure) \/ UNCHANGED vars
    BY <2>1 DEF User, Interface, Apart, vars
  <2>2. CASE Main
    BY <2>2 DEF Main, LoadEnv, LoadArg, LoadArgsDone, SetConf, InitCache, SetRoutes, Socket,
       Bind, Listen, CreateThread, Detach, Fail, Finish
  <2> QED
    BY <2>1, <2>2 DEF Next
<1>2. PICK k : k = Len(given.args) /\ Won(k)
  BY DEF Sources
<1>3. Won(Len(given.args))' /\ (given \in Inputs)'
  <2>1. Won(k)'
    BY <1>1, <1>2, WonKept
  <2>2. k = Len(given.args)'
    BY <1>1, <1>2
  <2> QED
    BY <1>1, <2>1, <2>2 DEF Sources
<1>4. CASE SetConf
  BY <1>1, <1>2, <1>3, <1>4 DEF SetConf, Sources
<1>5. CASE Bind
  BY <1>1, <1>2, <1>3, <1>5 DEF Bind, Sources
<1>6. CASE Main /\ ~SetConf /\ ~Bind
  <2>1. UNCHANGED <<serverConf, level, address>> /\ (stage = "setconf" <=> stage' = "setconf")
    BY <1>6 DEF Main, LoadEnv, LoadArg, LoadArgsDone, InitCache, SetRoutes, Socket, Listen,
       CreateThread, Detach, Fail, Finish
  <2> QED
    BY <1>1, <1>2, <1>3, <2>1 DEF Sources
<1>7. CASE User \/ Interface \/ Apart(SelectFailure) \/ UNCHANGED vars
  BY <1>1, <1>2, <1>3, <1>7 DEF User, Interface, Apart, vars, Sources
<1> QED
  BY <1>4, <1>5, <1>6, <1>7 DEF Next

LEMMA SourcesStep ==
  ASSUME Progress, Sources, [Next]_vars
  PROVE  Sources'
<1>1. CASE stage \in {"env", "args"} /\ Next
  <2> USE <1>1 DEF Running, RunApp
  <2>1. CASE LoadEnv
    BY <2>1, LoadEnvSources
  <2>2. CASE LoadArg
    BY <2>2, LoadArgSources
  <2>3. CASE LoadArgsDone
    BY <2>3, LoadArgsDoneSources
  <2>4. CASE User \/ Interface \/ Apart(SelectFailure)
    <3>1. UNCHANGED <<given, stage, args, conf, level, address, serverConf, exit>>
      BY <2>4 DEF User, Interface, Apart, settings
    <3> QED
      BY <3>1, SourcesKept
  <2>5. ~(SetConf \/ InitCache \/ SetRoutes \/ Socket \/ Bind \/ Listen \/ CreateThread
          \/ Detach \/ Fail \/ Finish)
    BY DEF SetConf, InitCache, SetRoutes, Socket, Bind, Listen, CreateThread, Detach, Fail,
       Finish
  <2> QED
    BY <2>1, <2>2, <2>3, <2>4, <2>5 DEF Next, Main
<1>2. CASE stage \notin {"env", "args"}
  BY <1>2, LaterSources
<1>3. CASE UNCHANGED vars
  <2>1. UNCHANGED <<given, stage, args, conf, level, address, serverConf, exit>>
    BY <1>3 DEF vars, settings
  <2> QED
    BY <2>1, SourcesKept
<1> QED
  BY <1>1, <1>2, <1>3

\* A port of 16 bits is not truncated.
LEMMA SmallRemainder ==
  ASSUME NEW c \in Nat \ {0}, NEW r \in 0 .. (c - 1)
  PROVE  r % c = r
OBVIOUS

LEMMA PortKept ==
  ASSUME NEW port, IsPort(port)
  PROVE  port % 65536 = port
<1> DEFINE c == 65536
<1>1. c \in Nat \ {0} /\ port \in 0 .. (c - 1)
  <2>1. port \in Int /\ 0 <= port /\ port < 65536
    BY DEF IsPort
  <2>2. c \in Nat \ {0} /\ port < c
    BY <2>1
  <2> HIDE DEF c
  <2> QED
    BY <2>1, <2>2
<1> HIDE DEF c
<1>2. port % c = port
  BY <1>1, SmallRemainder
<1> QED
  BY <1>2 DEF c

LEMMA ZeroIsNoPort == ~IsPort(0)
BY DEF IsPort

LEMMA SourcesWin ==
  ASSUME Progress, Sources
  PROVE  LaterSourcesWin
<1> DEFINE port == Or(LastArg("p"), Or(FromFiles("CERIOUSDB_PORT"), PORT_DEFAULT))
<1> SUFFICES ASSUME address # Unset
             PROVE  /\ address.host = Or(LastArg("h"), Or(FromFiles("CERIOUSDB_HOST"), HOST_DEFAULT))
                    /\ address.port = IF port = 0 THEN PORT_DEFAULT ELSE port % 65536
                    /\ LastArg("p") # Unset => IsPort(port)
                    /\ level = LevelOf(LevelNames, Or(FromFiles("LOG_LEVEL"), "INFO"))
  BY DEF LaterSourcesWin
<1>1. PICK k : k = Len(given.args) /\ Won(k)
  BY DEF Sources
<1>2. level = LevelOf(LevelNames, conf.level) /\ serverConf = conf /\ address = AddressOf(conf)
  BY DEF Progress, Sources, RunApp
<1>3. address.host = conf.host /\ address.port = conf.port % 65536
  BY <1>2 DEF AddressOf
<1>4. LastArg("h") = ArgAfter("h", k) /\ LastArg("p") = ArgAfter("p", k)
  <2>1. DOMAIN given.args = 1 .. k
    BY <1>1, ArgsAreSeq DEF Sources
  <2> QED
    BY <2>1 DEF LastArg, ArgAfter
<1>5. /\ conf.host = Or(LastArg("h"), Or(FromFiles("CERIOUSDB_HOST"), HOST_DEFAULT))
      /\ conf.port = Or(LastArg("p"), EnvPort)
      /\ conf.level = Or(FromFiles("LOG_LEVEL"), "INFO")
      /\ LastArg("p") # Unset => IsPort(LastArg("p"))
  BY <1>1, <1>4 DEF Won
<1>6. LastArg("p") # Unset => IsPort(port)
  BY <1>5 DEF Or
<1>7. port # 0 => conf.port = port
  BY <1>5 DEF Or, EnvPort
<1>8. port = 0 => conf.port = PORT_DEFAULT
  <2> SUFFICES ASSUME port = 0 PROVE conf.port = PORT_DEFAULT
    OBVIOUS
  <2>1. LastArg("p") = Unset
    BY <1>6, ZeroIsNoPort
  <2> QED
    BY <1>5, <2>1 DEF Or, EnvPort
<1> HIDE DEF port
<1>9. port # 0 => address.port = port % 65536
  BY <1>3, <1>7
<1>10. port = 0 => address.port = PORT_DEFAULT
  BY <1>3, <1>8, PortKept, ConfigAssumption
<1>11. address.host = Or(LastArg("h"), Or(FromFiles("CERIOUSDB_HOST"), HOST_DEFAULT))
  BY <1>3, <1>5
<1>12. level = LevelOf(LevelNames, Or(FromFiles("LOG_LEVEL"), "INFO"))
  BY <1>2, <1>5
<1> QED
  BY <1>6, <1>9, <1>10, <1>11, <1>12

\* For every input: each setting comes from the last source that has it, and the
\* port is that source's number, cut to 16 bits.
THEOREM SourcesTheorem == Spec => []LaterSourcesWin
<1>1. Init => Progress /\ Sources
  BY ProgressInit, SourcesInit
<1>2. Progress /\ Sources /\ [Next]_vars => (Progress /\ Sources)'
  BY ProgressStep, SourcesStep
<1>3. Progress /\ Sources => LaterSourcesWin
  BY SourcesWin
<1> QED
  BY <1>1, <1>2, <1>3, PTL DEF Spec

------------------------------------------------------------------------------
(* What ends the interface.                                                 *)

\* A line of text begins after its first p characters, ...
Start(text, p) == p = 0 \/ (p \in 1 .. Len(text) /\ text[p] = LF)

\* ... and does not end within those up to q.
Unbroken(text, p, q) == \A i \in (p + 1) .. q : text[i] # LF

\* A line of text is longer than what one fgets returns.
Long(text) ==
  \E p \in 0 .. Len(text) :
    Start(text, p) /\ p + MAXINPUT_LEN <= Len(text) /\ Unbroken(text, p, p + MAXINPUT_LEN)

\* After a characters fgets is between two lines, or has returned all that fits of one.
Between(text, a) ==
  \E p \in 0 .. a :
    Start(text, p) /\ Unbroken(text, p, a) /\ (a = p \/ a = p + (MAXINPUT_LEN - 1))

\* A line of text asks to stop, and will go on doing so.
Stops(text, final) ==
  \E p \in 0 .. (Len(text) - 1) :
    /\ Start(text, p) /\ text[p + 1] = StopLine[1]
    /\ p + 1 < Len(text) => text[p + 2] = LF
    /\ p + 1 = Len(text) => final \/ MAXINPUT_LEN = 2

\* After a characters text goes on with b and then with u.
Follows(text, a, b, u) ==
  /\ a \in Nat
  /\ Len(text) = a + Len(b) + Len(u)
  /\ \A i \in 1 .. Len(b) : text[a + i] = b[i]
  /\ \A i \in 1 .. Len(u) : text[a + Len(b) + i] = u[i]

\* How many of the first k chunks make up Stream(k).
Ends(k) == {i \in 1 .. k : script[i] = <<>>}
Shown(k) == Min(Ends(k) \cup {k})

\* What has been read, and what stdio makes of it.
Reading ==
  /\ given \in Inputs /\ tty = given.tty /\ script = given.script
  /\ typed \in 0 .. Len(script) /\ read \in 0 .. typed
  /\ buffer \in Seq(STRING)
  /\ eof \in BOOLEAN /\ (tty => ~hungup)
  /\ \A i \in 1 .. read : script[i] = <<>> => eof /\ i = read
  /\ eof => IF tty THEN read > 0 /\ script[read] = <<>> ELSE hungup /\ read = typed
  /\ stage # "interface" => at = "starting"

\* The stream up to what has been typed, and what of it has not been read.
Text == Stream(typed)
Unread == Part(script, read, Shown(typed))

\* Where fgets is in the stream, and why it has returned a stop.
Place(a) == Long(Text) \/ (eof /\ buffer = <<>>) \/ Between(Text, a)

Stopping ==
  /\ \E a \in Nat : Follows(Text, a, buffer, Unread) /\ (at # "returned" => Place(a))
  /\ at = "returned" => Long(Text) \/ Stops(Text, eof)

------------------------------------------------------------------------------
(* Texts, and what is written after them.                                   *)

\* text is the beginning of longer.
Extends(longer, text) ==
  Len(text) <= Len(longer) /\ \A i \in 1 .. Len(text) : longer[i] = text[i]

LEMMA SumIs ==
  ASSUME NEW S, NEW s \in Seq(S), NEW t \in Seq(S)
  PROVE  /\ s \o t \in Seq(S) /\ Len(s \o t) = Len(s) + Len(t)
         /\ \A i \in 1 .. Len(s) : (s \o t)[i] = s[i]
         /\ \A i \in 1 .. Len(t) : (s \o t)[Len(s) + i] = t[i]
<1>1. s \o t \in Seq(S) /\ Len(s \o t) = Len(s) + Len(t) /\ Len(s) \in Nat /\ Len(t) \in Nat
  BY ConcatProperties, LenProperties
<1>2. ASSUME NEW i \in 1 .. Len(s)
      PROVE  (s \o t)[i] = s[i]
  BY <1>1, ConcatProperties
<1>3. ASSUME NEW i \in 1 .. Len(t)
      PROVE  (s \o t)[Len(s) + i] = t[i]
  BY <1>1, ConcatProperties
<1> QED
  BY <1>1, <1>2, <1>3

\* Lines that have begun, and lines that are too long, stay so.
LEMMA StartKept ==
  ASSUME NEW text \in Seq(STRING), NEW longer \in Seq(STRING), Extends(longer, text),
         NEW p \in 0 .. Len(text), NEW q \in 0 .. Len(text)
  PROVE  /\ Start(text, p) => Start(longer, p)
         /\ Unbroken(text, p, q) => Unbroken(longer, p, q)
<1>1. Len(text) \in Nat /\ Len(longer) \in Nat
  BY LenProperties
<1> QED
  BY <1>1 DEF Start, Unbroken, Extends

LEMMA LongKept ==
  ASSUME NEW text \in Seq(STRING), NEW longer \in Seq(STRING), Extends(longer, text), Long(text)
  PROVE  Long(longer)
<1>1. Len(text) \in Nat /\ Len(longer) \in Nat /\ Len(text) <= Len(longer) /\ MAXINPUT_LEN \in Nat
  BY LenProperties, InterfaceAssumption DEF Extends
<1>2. PICK p \in 0 .. Len(text) :
        Start(text, p) /\ p + MAXINPUT_LEN <= Len(text) /\ Unbroken(text, p, p + MAXINPUT_LEN)
  BY DEF Long
<1>3. p + MAXINPUT_LEN \in 0 .. Len(text) /\ p \in 0 .. Len(longer)
  BY <1>1, <1>2
<1>4. Start(longer, p) /\ Unbroken(longer, p, p + MAXINPUT_LEN)
  BY <1>2, <1>3, StartKept
<1> QED
  BY <1>1, <1>2, <1>3, <1>4 DEF Long

LEMMA BetweenKept ==
  ASSUME NEW text \in Seq(STRING), NEW longer \in Seq(STRING), Extends(longer, text),
         NEW a \in 0 .. Len(text), Between(text, a)
  PROVE  Between(longer, a)
<1>1. Len(text) \in Nat
  BY LenProperties
<1>2. PICK p \in 0 .. a :
        Start(text, p) /\ Unbroken(text, p, a) /\ (a = p \/ a = p + (MAXINPUT_LEN - 1))
  BY DEF Between
<1>3. p \in 0 .. Len(text)
  BY <1>1
<1>4. Start(longer, p) /\ Unbroken(longer, p, a)
  BY <1>2, <1>3, StartKept
<1> QED
  BY <1>2, <1>4 DEF Between

\* One more character, or a line feed, after MAXINPUT_LEN - 1 of them.
LEMMA OneMore ==
  ASSUME NEW text \in Seq(STRING), NEW p \in 0 .. Len(text), Start(text, p),
         p + MAXINPUT_LEN <= Len(text), Unbroken(text, p, p + (MAXINPUT_LEN - 1)),
         text[p + MAXINPUT_LEN] # LF
  PROVE  Long(text)
<1>1. MAXINPUT_LEN \in Nat /\ MAXINPUT_LEN > 1 /\ p \in Nat
  BY InterfaceAssumption, LenProperties
<1>2. Unbroken(text, p, p + MAXINPUT_LEN)
  BY <1>1 DEF Unbroken
<1> QED
  BY <1>2 DEF Long

\* A stop stays one, or its line gets too long.
LEMMA StopsKept ==
  ASSUME NEW text \in Seq(STRING), NEW longer \in Seq(STRING), Extends(longer, text),
         NEW final \in BOOLEAN, final => longer = text, Stops(text, final)
  PROVE  Long(longer) \/ Stops(longer, final)
<1>1. /\ Len(text) \in Nat /\ Len(longer) \in Nat /\ Len(text) <= Len(longer)
      /\ \A i \in 1 .. Len(text) : longer[i] = text[i]
  BY LenProperties DEF Extends
<1>2. PICK p \in 0 .. (Len(text) - 1) :
        /\ Start(text, p) /\ text[p + 1] = StopLine[1]
        /\ p + 1 < Len(text) => text[p + 2] = LF
        /\ p + 1 = Len(text) => final \/ MAXINPUT_LEN = 2
  BY DEF Stops
<1>3. p \in 0 .. Len(text) /\ p \in 0 .. (Len(longer) - 1) /\ p + 1 \in 1 .. Len(text) /\ p \in 0 .. Len(longer)
  BY <1>1
<1>4. Start(longer, p)
  BY <1>2, <1>3, StartKept
<1>5. longer[p + 1] = StopLine[1]
  BY <1>1, <1>2, <1>3
<1>6. CASE p + 1 < Len(text)
  <2>1. p + 2 \in 1 .. Len(text)
    BY <1>1, <1>6
  <2>2. longer[p + 2] = LF
    BY <1>1, <1>2, <1>6, <2>1
  <2>3. p + 1 < Len(longer)
    BY <1>1, <1>6
  <2> QED
    BY <1>3, <1>4, <1>5, <2>2, <2>3 DEF Stops
<1>7. CASE p + 1 = Len(text) /\ final
  <2>1. longer = text
    BY <1>7
  <2> QED
    BY <2>1
<1>8. CASE p + 1 = Len(text) /\ MAXINPUT_LEN = 2
  <2>1. CASE p + 1 < Len(longer) /\ longer[p + 2] # LF
    <3>1. p + MAXINPUT_LEN <= Len(longer) /\ longer[p + MAXINPUT_LEN] # LF
      BY <1>1, <1>3, <1>8, <2>1
    <3>2. Unbroken(longer, p, p + (MAXINPUT_LEN - 1))
      <4>1. longer[p + 1] # LF
        BY <1>5 DEF StopLine, LF
      <4>2. p + (MAXINPUT_LEN - 1) = p + 1
        BY <1>8
      <4> QED
        BY <1>3, <4>1, <4>2 DEF Unbroken
    <3> QED
      BY <1>3, <1>4, <3>1, <3>2, OneMore
  <2>2. CASE ~(p + 1 < Len(longer) /\ longer[p + 2] # LF)
    BY <1>3, <1>4, <1>5, <1>8, <2>2 DEF Stops
  <2> QED
    BY <2>1, <2>2
<1>9. p + 1 < Len(text) \/ p + 1 = Len(text)
  BY <1>1
<1> QED
  BY <1>2, <1>6, <1>7, <1>8, <1>9

LEMMA CutIs ==
  ASSUME NEW S, NEW s \in Seq(S), NEW m \in Nat, NEW n \in m .. Len(s)
  PROVE  /\ SubSeq(s, m + 1, n) \in Seq(S) /\ Len(SubSeq(s, m + 1, n)) = n - m
         /\ \A i \in 1 .. (n - m) : SubSeq(s, m + 1, n)[i] = s[m + i]
<1> DEFINE a == m + 1
           r == SubSeq(s, a, n)
<1>1. Len(s) \in Nat /\ \A i \in 1 .. Len(s) : s[i] \in S
  BY LenProperties, ElementOfSeq
<1>2. a \in Int /\ n \in Int /\ n \in Nat /\ \A i \in a .. n : s[i] \in S
  BY <1>1
<1>3. a = m + 1 /\ m <= n
  BY <1>1
<1> HIDE DEF a
<1>4. /\ r \in Seq(S)
      /\ Len(r) = IF a <= n THEN n - a + 1 ELSE 0
      /\ \A i \in 1 .. (n - a + 1) : r[i] = s[a + i - 1]
  BY <1>2, SubSeqProperties
<1> HIDE DEF r
<1>5. Len(r) = n - m
  BY <1>2, <1>3, <1>4
<1>6. ASSUME NEW i \in 1 .. (n - m)
      PROVE  r[i] = s[m + i]
  <2>1. i \in 1 .. (n - a + 1) /\ a + i - 1 = m + i
    BY <1>2, <1>3
  <2> QED
    BY <1>4, <2>1
<1> QED
  BY <1>4, <1>5, <1>6 DEF r, a

\* What Follows says when text grows, when more of it is read, when some of it is taken.
LEMMA FollowsGrown ==
  ASSUME NEW text \in Seq(STRING), NEW a, NEW b \in Seq(STRING), NEW u \in Seq(STRING),
         NEW c \in Seq(STRING), Follows(text, a, b, u)
  PROVE  Follows(text \o c, a, b, u \o c) /\ Extends(text \o c, text)
<1> DEFINE longer == text \o c
           more == u \o c
<1>1. /\ longer \in Seq(STRING) /\ Len(longer) = Len(text) + Len(c)
      /\ \A i \in 1 .. Len(text) : longer[i] = text[i]
      /\ \A i \in 1 .. Len(c) : longer[Len(text) + i] = c[i]
  BY SumIs
<1>2. /\ more \in Seq(STRING) /\ Len(more) = Len(u) + Len(c)
      /\ \A i \in 1 .. Len(u) : more[i] = u[i]
      /\ \A i \in 1 .. Len(c) : more[Len(u) + i] = c[i]
  BY SumIs
<1>3. /\ a \in Nat /\ Len(text) \in Nat /\ Len(b) \in Nat /\ Len(u) \in Nat /\ Len(c) \in Nat
      /\ Len(text) = a + Len(b) + Len(u)
      /\ \A i \in 1 .. Len(b) : text[a + i] = b[i]
      /\ \A i \in 1 .. Len(u) : text[a + Len(b) + i] = u[i]
  BY LenProperties DEF Follows
<1> HIDE DEF longer, more
<1>4. ASSUME NEW i \in 1 .. Len(b)
      PROVE  longer[a + i] = b[i]
  <2>1. a + i \in 1 .. Len(text)
    BY <1>3
  <2> QED
    BY <1>1, <1>3, <2>1
<1>5. ASSUME NEW i \in 1 .. Len(more)
      PROVE  longer[a + Len(b) + i] = more[i]
  <2>1. CASE i \in 1 .. Len(u)
    <3>1. a + Len(b) + i \in 1 .. Len(text)
      BY <1>3, <2>1
    <3> QED
      BY <1>1, <1>2, <1>3, <2>1, <3>1
  <2>2. CASE i \notin 1 .. Len(u)
    <3> DEFINE j == i - Len(u)
    <3>1. j \in 1 .. Len(c) /\ i = Len(u) + j /\ a + Len(b) + i = Len(text) + j
      BY <1>2, <1>3, <2>2
    <3> HIDE DEF j
    <3>2. more[Len(u) + j] = c[j] /\ longer[Len(text) + j] = c[j]
      BY <1>1, <1>2, <3>1
    <3> QED
      BY <3>1, <3>2
  <2> QED
    BY <2>1, <2>2
<1>6. Len(longer) = a + Len(b) + Len(more)
  BY <1>1, <1>2, <1>3
<1>7. Follows(longer, a, b, more)
  BY <1>3, <1>4, <1>5, <1>6 DEF Follows
<1>8. Extends(longer, text)
  BY <1>1, <1>3 DEF Extends
<1> QED
  BY <1>7, <1>8 DEF longer, more

LEMMA FollowsRead ==
  ASSUME NEW text \in Seq(STRING), NEW a, NEW b \in Seq(STRING), NEW d \in Seq(STRING),
         NEW u \in Seq(STRING), NEW v \in Seq(STRING), u = d \o v, Follows(text, a, b, u)
  PROVE  Follows(text, a, b \o d, v)
<1> DEFINE more == b \o d
<1>1. /\ more \in Seq(STRING) /\ Len(more) = Len(b) + Len(d)
      /\ \A i \in 1 .. Len(b) : more[i] = b[i]
      /\ \A i \in 1 .. Len(d) : more[Len(b) + i] = d[i]
  BY SumIs
<1>2. /\ Len(u) = Len(d) + Len(v)
      /\ \A i \in 1 .. Len(d) : u[i] = d[i]
      /\ \A i \in 1 .. Len(v) : u[Len(d) + i] = v[i]
  BY SumIs
<1>3. /\ a \in Nat /\ Len(b) \in Nat /\ Len(d) \in Nat /\ Len(v) \in Nat
      /\ Len(text) = a + Len(b) + Len(u)
      /\ \A i \in 1 .. Len(b) : text[a + i] = b[i]
      /\ \A i \in 1 .. Len(u) : text[a + Len(b) + i] = u[i]
  BY LenProperties DEF Follows
<1> HIDE DEF more
<1>4. ASSUME NEW i \in 1 .. Len(more)
      PROVE  text[a + i] = more[i]
  <2>1. CASE i \in 1 .. Len(b)
    BY <1>1, <1>3, <2>1
  <2>2. CASE i \notin 1 .. Len(b)
    <3> DEFINE j == i - Len(b)
    <3>1. j \in 1 .. Len(d) /\ j \in 1 .. Len(u) /\ i = Len(b) + j /\ a + i = a + Len(b) + j
      BY <1>1, <1>2, <1>3, <2>2
    <3> HIDE DEF j
    <3>2. more[Len(b) + j] = d[j] /\ u[j] = d[j] /\ text[a + Len(b) + j] = u[j]
      BY <1>1, <1>2, <1>3, <3>1
    <3> QED
      BY <3>1, <3>2
  <2> QED
    BY <2>1, <2>2
<1>5. ASSUME NEW i \in 1 .. Len(v)
      PROVE  text[a + Len(more) + i] = v[i]
  <2> DEFINE j == Len(d) + i
  <2>1. j \in 1 .. Len(u) /\ a + Len(more) + i = a + Len(b) + j
    BY <1>1, <1>2, <1>3
  <2>2. u[j] = v[i]
    BY <1>2
  <2> HIDE DEF j
  <2> QED
    BY <1>3, <2>1, <2>2
<1>6. Len(text) = a + Len(more) + Len(v)
  BY <1>1, <1>2, <1>3
<1>7. Follows(text, a, more, v)
  BY <1>3, <1>4, <1>5, <1>6 DEF Follows
<1> QED
  BY <1>7 DEF more

LEMMA FollowsTaken ==
  ASSUME NEW text \in Seq(STRING), NEW a, NEW b \in Seq(STRING), NEW u \in Seq(STRING),
         NEW n \in 0 .. Len(b), Follows(text, a, b, u)
  PROVE  Follows(text, a + n, SubSeq(b, n + 1, Len(b)), u)
<1> DEFINE rest == SubSeq(b, n + 1, Len(b))
<1>1. /\ a \in Nat /\ Len(b) \in Nat /\ Len(u) \in Nat /\ n \in Nat
      /\ Len(text) = a + Len(b) + Len(u)
      /\ \A i \in 1 .. Len(b) : text[a + i] = b[i]
      /\ \A i \in 1 .. Len(u) : text[a + Len(b) + i] = u[i]
  BY LenProperties DEF Follows
<1>2. /\ rest \in Seq(STRING) /\ Len(rest) = Len(b) - n
      /\ \A i \in 1 .. (Len(b) - n) : rest[i] = b[n + i]
  BY <1>1, CutIs
<1> HIDE DEF rest
<1>3. ASSUME NEW i \in 1 .. Len(rest)
      PROVE  text[(a + n) + i] = rest[i]
  <2>1. n + i \in 1 .. Len(b) /\ (a + n) + i = a + (n + i) /\ i \in 1 .. (Len(b) - n)
    BY <1>1, <1>2
  <2> QED
    BY <1>1, <1>2, <2>1
<1>4. ASSUME NEW i \in 1 .. Len(u)
      PROVE  text[(a + n) + Len(rest) + i] = u[i]
  <2>1. (a + n) + Len(rest) + i = a + Len(b) + i
    BY <1>1, <1>2
  <2> QED
    BY <1>1, <2>1
<1>5. a + n \in Nat /\ Len(text) = (a + n) + Len(rest) + Len(u)
  BY <1>1, <1>2
<1>6. Follows(text, a + n, rest, u)
  BY <1>3, <1>4, <1>5 DEF Follows
<1> QED
  BY <1>6 DEF rest

\* What fgets takes, up to n, is a line or as much as fits.
Takes(b, n, final) ==
  /\ n \in 1 .. Len(b) /\ n <= MAXINPUT_LEN - 1
  /\ \A i \in 1 .. (n - 1) : b[i] # LF
  /\ b[n] = LF \/ n = MAXINPUT_LEN - 1 \/ (n = Len(b) /\ final)

\* A line was taken as a whole: the next one begins.
LEMMA TakenLine ==
  ASSUME NEW text \in Seq(STRING), NEW a, NEW b \in Seq(STRING), NEW u \in Seq(STRING),
         Follows(text, a, b, u), NEW final, NEW n, Takes(b, n, final), b[n] = LF,
         Between(text, a)
  PROVE  /\ Between(text, a + n)
         /\ SubSeq(b, 1, n - 1) = StopLine => Long(text) \/ Stops(text, final)
<1>1. /\ a \in Nat /\ Len(text) \in Nat /\ Len(b) \in Nat /\ Len(u) \in Nat
      /\ Len(text) = a + Len(b) + Len(u)
      /\ \A i \in 1 .. Len(b) : text[a + i] = b[i]
  BY LenProperties DEF Follows
<1>2. n \in 1 .. Len(b) /\ MAXINPUT_LEN \in Nat /\ MAXINPUT_LEN > 1
  BY InterfaceAssumption DEF Takes
<1>3. Between(text, a + n)
  <2>1. a + n \in 1 .. Len(text) /\ text[a + n] = LF
    BY <1>1, <1>2
  <2>2. Start(text, a + n) /\ Unbroken(text, a + n, a + n)
    BY <2>1 DEF Start, Unbroken
  <2> QED
    BY <1>1, <1>2, <2>2 DEF Between
<1>4. ASSUME SubSeq(b, 1, n - 1) = StopLine
      PROVE  Long(text) \/ Stops(text, final)
  <2>1. n = 2 /\ b[1] = StopLine[1]
    <3> DEFINE s == SubSeq(b, 0 + 1, n - 1)
    <3>1. n - 1 \in 0 .. Len(b) /\ 0 \in Nat
      BY <1>2
    <3>2. Len(s) = (n - 1) - 0 /\ \A i \in 1 .. ((n - 1) - 0) : s[i] = b[0 + i]
      BY <3>1, CutIs
    <3>3. s = StopLine
      BY <1>4
    <3> HIDE DEF s
    <3>4. Len(s) = 1
      BY <3>3 DEF StopLine
    <3>5. n = 2
      <4>1. Len(s) = (n - 1) - 0
        BY <3>2
      <4> QED
        <5>1. n \in Int
          BY <1>1, <1>2
        <5>2. 1 = (n - 1) - 0
          BY <3>4, <4>1, Zenon
        <5> QED
          BY <5>1, <5>2
    <3>6. s[1] = b[1]
      BY <3>2, <3>5
    <3> QED
      BY <3>3, <3>5, <3>6
  <2>2. /\ text[a + 1] = StopLine[1] /\ text[a + 2] = LF
        /\ a + 2 <= Len(text)
    <3>1. 1 \in 1 .. Len(b) /\ 2 \in 1 .. Len(b)
      BY <1>2, <2>1
    <3>2. text[a + 1] = b[1] /\ text[a + 2] = b[2]
      BY <1>1, <3>1
    <3> QED
      BY <1>1, <2>1, <3>1, <3>2
  <2>3. PICK p \in 0 .. a :
          Start(text, p) /\ Unbroken(text, p, a) /\ (a = p \/ a = p + (MAXINPUT_LEN - 1))
    BY DEF Between
  <2>4. CASE a = p
    BY <1>1, <2>2, <2>3, <2>4 DEF Stops
  <2>5. CASE a = p + (MAXINPUT_LEN - 1)
    <3>1. /\ p \in 0 .. Len(text) /\ p + MAXINPUT_LEN = a + 1 /\ p + MAXINPUT_LEN <= Len(text)
          /\ Unbroken(text, p, p + (MAXINPUT_LEN - 1))
      BY <1>1, <1>2, <2>2, <2>3, <2>5
    <3>2. text[p + MAXINPUT_LEN] # LF
      BY <2>2, <3>1 DEF StopLine, LF
    <3> QED
      BY <2>3, <3>1, <3>2, OneMore
  <2> QED
    BY <2>3, <2>4, <2>5
<1> QED
  BY <1>3, <1>4

\* What was taken is not the end of a line.
LEMMA TakenPart ==
  ASSUME NEW text \in Seq(STRING), NEW a, NEW b \in Seq(STRING), NEW u \in Seq(STRING),
         Follows(text, a, b, u), NEW final \in BOOLEAN, final => u = <<>>,
         NEW n, Takes(b, n, final), b[n] # LF, Between(text, a)
  PROVE  /\ Long(text) \/ Between(text, a + n) \/ (final /\ n = Len(b))
         /\ SubSeq(b, 1, n) = StopLine => Long(text) \/ Stops(text, final)
<1>1. /\ a \in Nat /\ Len(text) \in Nat /\ Len(b) \in Nat /\ Len(u) \in Nat
      /\ Len(text) = a + Len(b) + Len(u)
      /\ \A i \in 1 .. Len(b) : text[a + i] = b[i]
  BY LenProperties DEF Follows
<1>2. /\ n \in 1 .. Len(b) /\ n <= MAXINPUT_LEN - 1 /\ MAXINPUT_LEN \in Nat /\ MAXINPUT_LEN > 1
      /\ n = MAXINPUT_LEN - 1 \/ (n = Len(b) /\ final)
      /\ \A i \in 1 .. n : b[i] # LF
  BY InterfaceAssumption DEF Takes
<1>3. PICK p \in 0 .. a :
        Start(text, p) /\ Unbroken(text, p, a) /\ (a = p \/ a = p + (MAXINPUT_LEN - 1))
  BY DEF Between
<1>4. p \in 0 .. Len(text) /\ p \in Nat
  BY <1>1
<1>5. Unbroken(text, p, a + n)
  <2> SUFFICES ASSUME NEW i \in (p + 1) .. (a + n)
               PROVE  text[i] # LF
    BY DEF Unbroken
  <2>1. CASE i <= a
    BY <1>3, <1>4, <2>1 DEF Unbroken
  <2>2. CASE ~(i <= a)
    <3> DEFINE j == i - a
    <3>1. j \in 1 .. n /\ j \in 1 .. Len(b) /\ i = a + j
      BY <1>1, <1>2, <1>4, <2>2
    <3> HIDE DEF j
    <3>2. text[a + j] = b[j] /\ b[j] # LF
      BY <1>1, <1>2, <3>1
    <3> QED
      BY <3>1, <3>2
  <2> QED
    BY <2>1, <2>2
<1>6. a + n \in Nat /\ a + n <= Len(text) /\ a + 1 \in (p + 1) .. (a + n)
  BY <1>1, <1>2, <1>4
<1>7. CASE a = p + (MAXINPUT_LEN - 1)
  <2>1. p + MAXINPUT_LEN = a + 1 /\ p + MAXINPUT_LEN <= Len(text)
    BY <1>1, <1>2, <1>4, <1>6, <1>7
  <2>2. Unbroken(text, p, p + MAXINPUT_LEN)
    BY <1>1, <1>2, <1>4, <1>5, <2>1 DEF Unbroken
  <2> QED
    BY <1>3, <1>4, <2>1, <2>2 DEF Long
<1>8. CASE a = p
  <2>1. ASSUME n = MAXINPUT_LEN - 1
        PROVE  Between(text, a + n)
    <3> DEFINE z == a + n
    <3>1. p \in 0 .. z /\ z = p + (MAXINPUT_LEN - 1)
      BY <1>1, <1>2, <1>4, <1>8, <2>1
    <3>2. Start(text, p) /\ Unbroken(text, p, z)
      BY <1>3, <1>5
    <3> HIDE DEF z
    <3>3. Between(text, z)
      BY <3>1, <3>2 DEF Between
    <3> QED
      BY <3>3 DEF z
  <2>2. Long(text) \/ Between(text, a + n) \/ (final /\ n = Len(b))
    <3>1. n = MAXINPUT_LEN - 1 \/ (n = Len(b) /\ final)
      BY <1>2
    <3> QED
      BY <2>1, <3>1
  <2>3. ASSUME SubSeq(b, 1, n) = StopLine
        PROVE  Long(text) \/ Stops(text, final)
    <3>1. n = 1 /\ b[1] = StopLine[1]
      <4> DEFINE s == SubSeq(b, 0 + 1, n)
      <4>1. n \in 0 .. Len(b) /\ 0 \in Nat
        BY <1>2
      <4>2. Len(s) = n - 0 /\ \A i \in 1 .. (n - 0) : s[i] = b[0 + i]
        BY <4>1, CutIs
      <4>3. s = StopLine
        BY <2>3
      <4> HIDE DEF s
      <4>4. Len(s) = 1
        BY <4>3 DEF StopLine
      <4>5. n = 1
        <5>1. Len(s) = n - 0
          BY <4>2
        <5> QED
          <6>1. n \in Int
            BY <1>1, <1>2
          <6>2. 1 = n - 0
            BY <4>4, <5>1, Zenon
          <6> QED
            BY <6>1, <6>2
      <4>6. s[1] = b[1]
        BY <4>2, <4>5
      <4> QED
        BY <4>3, <4>5, <4>6
    <3>2. text[p + 1] = StopLine[1] /\ p \in 0 .. (Len(text) - 1)
      <4>1. 1 \in 1 .. Len(b)
        BY <1>2
      <4>2. text[a + 1] = b[1]
        BY <1>1, <4>1
      <4> QED
        BY <1>1, <1>4, <1>6, <1>8, <3>1, <4>2
    <3>3. CASE final /\ n = Len(b)
      <4>1. Len(u) = 0
        BY <3>3, EmptySeq
      <4>2. n = Len(b)
        BY <3>3
      <4>3. p + 1 = Len(text)
        <5>1. a \in Nat /\ Len(text) = a + Len(b) + Len(u)
          BY <1>1
        <5>2. Len(text) = a + 1 + 0
          BY <3>1, <4>1, <4>2, <5>1, Zenon
        <5> QED
          BY <1>8, <5>1, <5>2
      <4> QED
        BY <1>3, <3>2, <3>3, <4>3 DEF Stops
    <3>4. CASE n = MAXINPUT_LEN - 1
      <4>1. MAXINPUT_LEN = 2
        BY <1>2, <3>1, <3>4
      <4>2. CASE p + 1 < Len(text) /\ text[p + 2] # LF
        <5>1. p + MAXINPUT_LEN <= Len(text) /\ text[p + MAXINPUT_LEN] # LF
          BY <1>1, <1>4, <4>1, <4>2
        <5>2. p + (MAXINPUT_LEN - 1) = a + n
          BY <1>8, <3>4
        <5> QED
          BY <1>3, <1>4, <1>5, <5>1, <5>2, OneMore
      <4>3. CASE ~(p + 1 < Len(text) /\ text[p + 2] # LF)
        BY <1>3, <3>2, <4>1, <4>3 DEF Stops
      <4> QED
        BY <4>2, <4>3
    <3> QED
      BY <1>2, <3>3, <3>4
  <2> QED
    BY <2>2, <2>3
<1> QED
  BY <1>3, <1>7, <1>8

------------------------------------------------------------------------------
(* The chunks of the stream.                                                *)

LEMMA ShownIs ==
  ASSUME NEW k \in Nat
  PROVE  /\ Shown(k) \in Ends(k) \cup {k} /\ Shown(k) \in 0 .. k
         /\ \A i \in Ends(k) : Shown(k) <= i
         /\ Ends(k) = {} => Shown(k) = k
<1> DEFINE T == Ends(k) \cup {k}
<1>1. T \in SUBSET Nat /\ k \in T /\ \A i \in T : i \in 0 .. k
  BY DEF Ends
<1> HIDE DEF T
<1>2. Min(T) \in T /\ \A i \in T : Min(T) <= i
  BY <1>1, MinIs
<1>3. Shown(k) = Min(T)
  BY DEF Shown, T
<1>4. Shown(k) \in T /\ \A i \in T : Shown(k) <= i
  BY <1>2, <1>3
<1> QED
  BY <1>1, <1>4 DEF T

LEMMA ShownNext ==
  ASSUME NEW k \in Nat
  PROVE  /\ Ends(k) = {} => Shown(k + 1) = k + 1
         /\ Ends(k) # {} => Shown(k + 1) = Shown(k)
<1>1. k + 1 \in Nat
  OBVIOUS
<1>2. Ends(k) \subseteq Ends(k + 1) /\ Ends(k + 1) \subseteq Ends(k) \cup {k + 1}
  BY DEF Ends
<1>3. CASE Ends(k) = {}
  <2>1. Shown(k + 1) \in Ends(k + 1) \cup {k + 1}
    BY <1>1, ShownIs
  <2> QED
    BY <1>2, <1>3, <2>1
<1>4. CASE Ends(k) # {}
  <2>1. PICK e \in Ends(k) : TRUE
    BY <1>4
  <2>2. /\ Shown(k) \in Ends(k) \cup {k} /\ Shown(k) \in 0 .. k
        /\ \A i \in Ends(k) : Shown(k) <= i
    BY ShownIs
  <2>3. /\ Shown(k + 1) \in Ends(k + 1) \cup {k + 1} /\ Shown(k + 1) \in 0 .. (k + 1)
        /\ \A i \in Ends(k + 1) : Shown(k + 1) <= i
    BY <1>1, ShownIs
  <2>4. e \in 1 .. k
    BY DEF Ends
  <2>5. Shown(k) \in Ends(k)
    <3>1. CASE Shown(k) = k
      <4>1. k <= e
        BY <2>2, <3>1
      <4> QED
        BY <2>4, <3>1, <4>1
    <3> QED
      BY <2>2, <3>1
  <2>6. Shown(k + 1) <= Shown(k)
    BY <1>2, <2>3, <2>5
  <2>7. Shown(k + 1) \in Ends(k)
    <3>1. Shown(k + 1) # k + 1
      BY <2>2, <2>6
    <3> QED
      BY <1>2, <2>3, <3>1
  <2>8. Shown(k) <= Shown(k + 1)
    BY <2>2, <2>7
  <2> QED
    BY <1>4, <2>2, <2>3, <2>6, <2>8
<1> QED
  BY <1>3, <1>4

LEMMA StreamIs ==
  ASSUME NEW k
  PROVE  Stream(k) = Part(script, 0, Shown(k))
<1>1. 0 + 1 = 1
  OBVIOUS
<1> QED
  BY <1>1 DEF Stream, Part, Shown, Ends

\* What has been read lies in the stream.
LEMMA ReadingShown ==
  ASSUME Reading
  PROVE  /\ script \in Seq(Seq(STRING)) /\ Len(script) \in Nat
         /\ typed \in 0 .. Len(script) /\ read \in 0 .. typed
         /\ Shown(typed) \in read .. typed
         /\ eof => Shown(typed) = read
         /\ ~tty => Shown(typed) = typed /\ \A i \in 1 .. Len(script) : script[i] # <<>>
         /\ ~eof /\ read < typed => read + 1 <= Shown(typed)
<1>1. /\ script \in Seq(Seq(STRING)) /\ Len(script) \in Nat
      /\ ~tty => \A i \in 1 .. Len(script) : script[i] # <<>>
  BY AppAssumption, LenProperties DEF Reading
<1>2. typed \in 0 .. Len(script) /\ read \in 0 .. typed /\ typed \in Nat /\ read \in Nat
  BY <1>1 DEF Reading
<1>3. \A i \in Ends(typed) : i \in 1 .. typed /\ script[i] = <<>>
  BY DEF Ends
<1>4. \A i \in Ends(typed) : i <= read => eof /\ i = read
  BY <1>2, <1>3 DEF Reading
<1>5. /\ Shown(typed) \in Ends(typed) \cup {typed} /\ Shown(typed) \in 0 .. typed
      /\ \A i \in Ends(typed) : Shown(typed) <= i
  BY <1>2, ShownIs
<1>6. Shown(typed) \in read .. typed
  BY <1>2, <1>3, <1>4, <1>5
<1>7. ASSUME ~tty
      PROVE  Shown(typed) = typed
  <2>1. ASSUME NEW i \in Ends(typed)
        PROVE  FALSE
    <3>1. i \in 1 .. Len(script) /\ script[i] = <<>>
      BY <1>2, <1>3
    <3> QED
      BY <1>1, <1>7, <3>1
  <2> QED
    BY <1>5, <2>1
<1>8. ASSUME eof
      PROVE  Shown(typed) = read
  <2>1. CASE tty
    <3>1. read > 0 /\ script[read] = <<>>
      BY <1>8, <2>1 DEF Reading
    <3>2. read \in Ends(typed)
      BY <1>2, <3>1 DEF Ends
    <3> QED
      BY <1>2, <1>5, <1>6, <3>2
  <2>2. CASE ~tty
    <3>1. read = typed
      BY <1>8, <2>2 DEF Reading
    <3> QED
      BY <1>7, <2>2, <3>1
  <2> QED
    BY <2>1, <2>2
<1>9. ASSUME ~eof, read < typed
      PROVE  read + 1 <= Shown(typed)
  BY <1>2, <1>3, <1>4, <1>5, <1>9
<1> QED
  BY <1>1, <1>2, <1>6, <1>7, <1>8, <1>9

LEMMA TextIs ==
  ASSUME Reading
  PROVE  /\ Text = Part(script, 0, Shown(typed)) /\ Text \in Seq(STRING)
         /\ Unread \in Seq(STRING) /\ buffer \in Seq(STRING)
         /\ eof => Unread = <<>>
<1>1. /\ script \in Seq(Seq(STRING)) /\ Len(script) \in Nat
      /\ typed \in 0 .. Len(script) /\ read \in 0 .. typed
      /\ Shown(typed) \in read .. typed
      /\ eof => Shown(typed) = read
  BY ReadingShown
<1> DEFINE j == Shown(typed)
<1>2. j \in 0 .. Len(script) /\ read \in 0 .. j /\ 0 \in 0 .. j /\ read \in 0 .. Len(script)
  BY <1>1
<1>3. Text = Part(script, 0, j)
  BY StreamIs DEF Text
<1> HIDE DEF j
<1>4. Part(script, 0, j) \in Seq(STRING) /\ Part(script, read, j) \in Seq(STRING)
  BY <1>1, <1>2, PartType
<1>5. Part(script, read, read) = <<>>
  BY <1>1, <1>2, PartNone
<1> QED
  BY <1>1, <1>3, <1>4, <1>5 DEF Unread, j, Reading

LEMMA ReadingInit == Init => Reading /\ Stopping
<1> SUFFICES ASSUME Init
             PROVE  Reading /\ Stopping
  OBVIOUS
<1>1. /\ given \in Inputs /\ tty = given.tty /\ script = given.script
      /\ typed = 0 /\ read = 0 /\ hungup = FALSE /\ buffer = <<>> /\ eof = FALSE
      /\ at = "starting"
  BY DEF Init, InterfaceInit
<1>2. Len(script) \in Nat
  BY <1>1, AppAssumption, LenProperties
<1>3. Reading
  <2>1. <<>> \in Seq(STRING)
    BY EmptySeq
  <2>2. eof \in BOOLEAN /\ ~eof /\ ~hungup
    BY <1>1
  <2>3. typed \in 0 .. Len(script) /\ read \in 0 .. typed /\ \A i \in 1 .. read : FALSE
    BY <1>1, <1>2
  <2> QED
    BY <1>1, <2>1, <2>2, <2>3 DEF Reading
<1>4. Shown(typed) = 0
  BY <1>1, <1>3, ReadingShown
<1>5. Text = <<>> /\ Unread = <<>>
  <2>1. script \in Seq(Seq(STRING)) /\ 0 \in 0 .. Len(script)
    BY <1>2, <1>3, ReadingShown
  <2>2. Part(script, 0, 0) = <<>>
    BY <2>1, PartNone
  <2> QED
    BY <1>1, <1>3, <1>4, <2>2, TextIs DEF Unread
<1>6. Follows(Text, 0, buffer, Unread)
  BY <1>1, <1>5 DEF Follows
<1>7. Between(Text, 0)
  BY DEF Between, Start, Unbroken
<1> QED
  BY <1>1, <1>3, <1>6, <1>7 DEF Stopping, Place

\* Steps that neither type nor read keep the place.
LEMMA SameStopping ==
  ASSUME Stopping, UNCHANGED <<script, typed, read, buffer, eof>>,
         (at' = "returned") <=> (at = "returned")
  PROVE  Stopping'
<1>1. Text' = Text /\ Unread' = Unread
  BY DEF Text, Unread, Stream, Shown, Ends, Part
<1>2. \A a : Place(a)' <=> Place(a)
  BY <1>1 DEF Place
<1>3. \A a : Follows(Text, a, buffer, Unread)' <=> Follows(Text, a, buffer, Unread)
  BY <1>1 DEF Follows
<1>4. Long(Text)' <=> Long(Text)
  BY <1>1
<1>5. Stops(Text, eof)' <=> Stops(Text, eof)
  BY <1>1
<1>6. PICK a \in Nat : Follows(Text, a, buffer, Unread) /\ (at # "returned" => Place(a))
  BY DEF Stopping
<1>7. Follows(Text, a, buffer, Unread)' /\ (at' # "returned" => Place(a)')
  BY <1>2, <1>3, <1>6
<1>8. at = "returned" => Long(Text) \/ Stops(Text, eof)
  BY DEF Stopping
<1> QED
  BY <1>4, <1>5, <1>7, <1>8 DEF Stopping

LEMMA TypeStopping ==
  ASSUME Reading, Stopping, Type, UNCHANGED <<given, stage>>
  PROVE  Reading' /\ Stopping'
<1>1. /\ typed < Len(script) /\ ~hungup /\ typed' = typed + 1
      /\ UNCHANGED <<tty, script, hungup, read, buffer, eof, at, given, stage>>
  BY DEF Type, stdioVars
<1>2. /\ script \in Seq(Seq(STRING)) /\ Len(script) \in Nat
      /\ typed \in 0 .. Len(script) /\ read \in 0 .. typed
      /\ Shown(typed) \in read .. typed
  BY ReadingShown
<1>3. typed \in Nat /\ typed \in 0 .. (Len(script) - 1) /\ 0 \in 0 .. typed /\ typed + 1 \in 0 .. Len(script)
      /\ typed + 1 \in 1 .. Len(script) /\ read \in Nat
  BY <1>1, <1>2
<1>4. Reading'
  <2>1. typed' \in 0 .. Len(script)' /\ read' \in 0 .. typed'
    BY <1>1, <1>2, <1>3
  <2>2. eof => tty
    BY <1>1 DEF Reading
  <2> QED
    BY <1>1, <2>1, <2>2 DEF Reading
<1>5. Text' = Part(script, 0, Shown(typed + 1)) /\ Unread' = Part(script, read, Shown(typed + 1))
  <2>1. Text' = Stream(typed + 1)
    BY <1>1 DEF Text, Stream
  <2>2. Unread' = Part(script, read, Shown(typed + 1))
    BY <1>1 DEF Unread, Part, Shown, Ends
  <2> QED
    BY <2>1, <2>2, StreamIs
<1>6. /\ Text = Part(script, 0, Shown(typed)) /\ Text \in Seq(STRING)
      /\ Unread \in Seq(STRING) /\ buffer \in Seq(STRING)
  BY TextIs
<1>7. CASE Ends(typed) # {}
  <2>1. Text' = Text /\ Unread' = Unread
    BY <1>3, <1>5, <1>6, <1>7, ShownNext DEF Unread
  <2>2. \A a : Place(a)' <=> Place(a)
    BY <1>1, <2>1 DEF Place
  <2>3. PICK a \in Nat : Follows(Text, a, buffer, Unread) /\ (at # "returned" => Place(a))
    BY DEF Stopping
  <2>4. Follows(Text, a, buffer, Unread)' /\ (at' # "returned" => Place(a)')
    BY <1>1, <2>1, <2>2, <2>3
  <2>5. at' = "returned" => (Long(Text) \/ Stops(Text, eof))'
    BY <1>1, <2>1 DEF Stopping
  <2>6. Stopping'
    BY <2>4, <2>5 DEF Stopping
  <2> QED
    BY <1>4, <2>6
<1>8. CASE Ends(typed) = {}
  <2> DEFINE c == script[typed + 1]
             longer == Text \o c
             more == Unread \o c
  <2>1. c \in Seq(STRING)
    BY <1>2, <1>3, ElementOfSeq
  <2>2. Shown(typed) = typed /\ Shown(typed + 1) = typed + 1
    BY <1>3, <1>8, ShownIs, ShownNext
  <2>3. Text' = longer /\ Unread' = more
    <3>1. Part(script, 0, typed + 1) = Part(script, 0, typed) \o c
      BY <1>2, <1>3, PartLast
    <3>2. Part(script, read, typed + 1) = Part(script, read, typed) \o c
      BY <1>2, <1>3, PartLast
    <3> QED
      BY <1>5, <1>6, <2>2, <3>1, <3>2 DEF Unread
  <2>4. ~eof
    <3> SUFFICES ASSUME eof
                 PROVE  FALSE
      OBVIOUS
    <3>1. tty /\ read > 0 /\ script[read] = <<>>
      BY <1>1 DEF Reading
    <3>2. read \in Ends(typed)
      BY <1>2, <1>3, <3>1 DEF Ends
    <3> QED
      BY <1>8, <3>2
  <2>5. PICK a \in Nat : Follows(Text, a, buffer, Unread) /\ (at # "returned" => Place(a))
    BY DEF Stopping
  <2>6. a \in 0 .. Len(Text)
    <3>1. Len(Text) = a + Len(buffer) + Len(Unread)
      BY <2>5 DEF Follows
    <3>2. Len(buffer) \in Nat /\ Len(Unread) \in Nat
      BY <1>6, LenProperties
    <3> QED
      BY <2>5, <3>1, <3>2
  <2>7. longer \in Seq(STRING)
    BY <1>6, <2>1, ConcatProperties
  <2> HIDE DEF c
  <2>8. Follows(longer, a, buffer, more) /\ Extends(longer, Text)
    BY <1>6, <2>1, <2>5, FollowsGrown
  <2> HIDE DEF longer, more
  <2>9. ASSUME at # "returned"
        PROVE  Long(longer) \/ Between(longer, a)
    <3>1. Long(Text) \/ Between(Text, a)
      BY <2>4, <2>5, <2>9 DEF Place
    <3> QED
      BY <1>6, <2>6, <2>7, <2>8, <3>1, LongKept, BetweenKept
  <2>10. ASSUME at = "returned"
         PROVE  Long(longer) \/ Stops(longer, FALSE)
    <3>1. Long(Text) \/ Stops(Text, FALSE)
      <4>1. eof = FALSE
        BY <2>4 DEF Reading
      <4> QED
        BY <2>10, <4>1 DEF Stopping
    <3>2. ASSUME Long(Text) PROVE Long(longer)
      BY <1>6, <2>7, <2>8, <3>2, LongKept
    <3>3. ASSUME Stops(Text, FALSE) PROVE Long(longer) \/ Stops(longer, FALSE)
      BY <1>6, <2>7, <2>8, <3>3, StopsKept
    <3> QED
      BY <3>1, <3>2, <3>3
  <2>11. Follows(Text, a, buffer, Unread)' /\ (at' # "returned" => Place(a)')
    <3>1. Follows(Text, a, buffer, Unread)'
      BY <1>1, <2>3, <2>8 DEF Follows
    <3>2. ASSUME at' # "returned"
          PROVE  (Long(Text) \/ Between(Text, a))'
      <4>1. Long(longer) \/ Between(longer, a)
        BY <1>1, <2>9, <3>2
      <4>2. Long(Text)' <=> Long(longer)
        BY <2>3
      <4>3. Between(Text, a)' <=> Between(longer, a)
        BY <2>3
      <4> QED
        BY <4>1, <4>2, <4>3
    <3> QED
      BY <3>1, <3>2 DEF Place
  <2>12. at' = "returned" => (Long(Text) \/ Stops(Text, eof))'
    <3>1. Long(Text)' <=> Long(longer)
      BY <2>3
    <3>2. Stops(Text, eof)' <=> Stops(longer, FALSE)
      <4>1. eof' = FALSE
        BY <1>1, <2>4 DEF Reading
      <4> QED
        BY <2>3, <4>1
    <3> QED
      BY <1>1, <2>10, <3>1, <3>2
  <2>13. Stopping'
    BY <2>11, <2>12 DEF Stopping
  <2> QED
    BY <1>4, <2>13
<1> QED
  BY <1>7, <1>8

LEMMA FillStopping ==
  ASSUME Reading, Stopping, Fill, UNCHANGED <<given, stage>>
  PROVE  Reading' /\ Stopping'
<1> DEFINE data == Part(script, read, read')
<1>1. /\ at = "fgets" /\ ~eof /\ (read < typed \/ hungup)
      /\ read' = IF read < typed THEN IF tty THEN read + 1 ELSE typed ELSE read
      /\ buffer' = buffer \o data /\ eof' = (data = <<>>)
      /\ UNCHANGED <<tty, script, typed, hungup, at, given, stage>>
  BY DEF Fill, Readable, Part, userVars
<1>2. /\ script \in Seq(Seq(STRING)) /\ Len(script) \in Nat
      /\ typed \in 0 .. Len(script) /\ read \in 0 .. typed
      /\ Shown(typed) \in read .. typed
      /\ ~tty => Shown(typed) = typed /\ \A i \in 1 .. Len(script) : script[i] # <<>>
      /\ read < typed => read + 1 <= Shown(typed)
  BY <1>1, ReadingShown
<1>3. /\ Text \in Seq(STRING) /\ Unread \in Seq(STRING) /\ buffer \in Seq(STRING)
  BY TextIs
<1> DEFINE j == Shown(typed)
<1>4. /\ typed \in Nat /\ read \in Nat /\ j \in Nat /\ j \in 0 .. Len(script)
      /\ read \in 0 .. Len(script) /\ read \in 0 .. j
  BY <1>2
<1>5. Text' = Text /\ Unread' = Part(script, read', j)
  BY <1>1 DEF Text, Unread, Stream, Shown, Ends, Part
<1>6. Unread = Part(script, read, j)
  BY DEF Unread
<1> HIDE DEF data, j
<1>7. ASSUME tty
      PROVE  /\ read' = read + 1 /\ read' \in 1 .. typed /\ read' \in 0 .. j
             /\ data = script[read'] /\ Unread = data \o Unread'
  <2>1. read < typed /\ read' = read + 1
    BY <1>1, <1>7 DEF Reading
  <2>2. read' \in 1 .. typed /\ read' \in 0 .. j /\ read' \in 0 .. Len(script) /\ read' \in 1 .. Len(script)
        /\ read \in 0 .. (j - 1) /\ read \in 0 .. (read' - 1)
    BY <1>2, <1>4, <2>1 DEF j
  <2>3. script[read'] \in Seq(STRING)
    BY <1>2, <2>2, ElementOfSeq
  <2>4. data = script[read + 1] \o Part(script, read + 1, read')
    BY <1>2, <2>2, PartFirst DEF data
  <2>5. Part(script, read', read') = <<>>
    BY <1>2, <2>2, PartNone
  <2>6. data = script[read']
    <3>1. script[read'] \o <<>> = script[read']
      BY <2>3, ConcatEmptySeq
    <3> QED
      BY <2>1, <2>4, <2>5, <3>1
  <2>7. Unread = script[read + 1] \o Part(script, read + 1, j)
    BY <1>2, <1>4, <1>6, <2>2, PartFirst
  <2> QED
    BY <1>5, <2>1, <2>2, <2>6, <2>7
<1>8. ASSUME ~tty
      PROVE  /\ read' = typed /\ read' \in 0 .. j /\ Unread = data \o Unread'
             /\ data = <<>> => hungup
  <2>1. read' = typed /\ j = typed /\ \A i \in 1 .. Len(script) : script[i] # <<>>
    BY <1>1, <1>2, <1>8 DEF j
  <2>2. Unread' = <<>> /\ Unread = data
    BY <1>2, <1>5, <1>6, <2>1, PartNone DEF data
  <2>3. Unread \o <<>> = Unread
    BY <1>3, ConcatEmptySeq
  <2>4. ASSUME read < typed
        PROVE  data # <<>>
    <3>1. read \in 0 .. (typed - 1) /\ read + 1 \in 0 .. typed /\ read + 1 \in 1 .. Len(script)
      BY <1>2, <1>4, <2>4
    <3>2. data = script[read + 1] \o Part(script, read + 1, typed)
      BY <1>2, <2>1, <3>1, PartFirst DEF data
    <3>3. script[read + 1] \in Seq(STRING) /\ script[read + 1] # <<>>
      BY <1>2, <2>1, <3>1, ElementOfSeq
    <3>4. Part(script, read + 1, typed) \in Seq(STRING)
      BY <1>2, <3>1, PartType
    <3> QED
      BY <3>2, <3>3, <3>4, ConcatEmptySeq
  <2> QED
    BY <1>1, <1>4, <2>1, <2>2, <2>3, <2>4
<1>9. data \in Seq(STRING) /\ Unread' \in Seq(STRING) /\ read' \in 0 .. typed /\ read' \in Nat
  <2>1. read' \in 0 .. typed /\ read' \in 0 .. j /\ read \in 0 .. read' /\ read' \in 0 .. Len(script)
    <3>1. tty \/ ~tty
      OBVIOUS
    <3>2. read' \in 0 .. typed /\ read' \in 0 .. j /\ read \in 0 .. read'
      BY <1>2, <1>4, <1>7, <1>8, <3>1
    <3> QED
      BY <1>2, <1>4, <3>2
  <2>2. data \in Seq(STRING)
    BY <1>2, <2>1, PartType DEF data
  <2>3. Unread' \in Seq(STRING)
    BY <1>2, <1>4, <1>5, <2>1, PartType
  <2> QED
    BY <1>4, <2>1, <2>2, <2>3
<1>10. Reading'
  <2>1. given' \in Inputs /\ tty' = given'.tty /\ script' = given'.script /\ (tty' => ~hungup')
        /\ (stage' # "interface" => at' = "starting")
    BY <1>1 DEF Reading
  <2>2. typed' \in 0 .. Len(script') /\ read' \in 0 .. typed'
    BY <1>1, <1>2, <1>9
  <2>3. buffer' \in Seq(STRING)
    BY <1>1, <1>3, <1>9, ConcatProperties
  <2>4. ASSUME NEW i \in 1 .. read', script[i] = <<>>
        PROVE  eof' /\ i = read'
    <3>1. i \in 1 .. Len(script)
      BY <1>2, <1>9
    <3>2. tty
      BY <1>2, <2>4, <3>1
    <3>3. i \notin 1 .. read
      BY <1>1, <2>4 DEF Reading
    <3>4. i = read'
      BY <1>4, <1>7, <3>2, <3>3
    <3>5. data = <<>>
      BY <1>7, <2>4, <3>2, <3>4
    <3> QED
      BY <1>1, <3>4, <3>5
  <2>5. eof' => IF tty' THEN read' > 0 /\ script'[read'] = <<>> ELSE hungup' /\ read' = typed'
    <3>1. eof' => data = <<>>
      BY <1>1
    <3>2. CASE tty
      <4>1. tty' /\ read' > 0 /\ (data = <<>> => script'[read'] = <<>>)
        BY <1>1, <1>4, <1>7, <3>2
      <4> QED
        BY <3>1, <4>1
    <3>3. CASE ~tty
      <4>1. ~tty' /\ read' = typed' /\ (data = <<>> => hungup')
        BY <1>1, <1>8, <3>3
      <4> QED
        BY <3>1, <4>1
    <3> QED
      BY <3>2, <3>3
  <2> QED
    BY <1>1, <2>1, <2>2, <2>3, <2>4, <2>5 DEF Reading
<1>11. Stopping'
  <2>1. PICK a \in Nat : Follows(Text, a, buffer, Unread) /\ Place(a)
    BY <1>1 DEF Stopping
  <2>2. Long(Text) \/ Between(Text, a)
    BY <1>1, <2>1 DEF Place
  <2>3. Unread = data \o Unread'
    BY <1>7, <1>8
  <2>4. Follows(Text, a, buffer \o data, Unread')
    BY <1>3, <1>9, <2>1, <2>3, FollowsRead
  <2>5. Follows(Text, a, buffer, Unread)'
    BY <1>1, <1>5, <2>4 DEF Follows
  <2>6. Place(a)'
    BY <1>5, <2>2 DEF Place
  <2> QED
    BY <1>1, <2>5, <2>6 DEF Stopping
<1> QED
  BY <1>10, <1>11

\* What fgets returns ends at the first line feed, at the end of the buffer it is
\* given, or at the end of the file.
LEMMA TakeLineTakes ==
  ASSUME Reading, Complete \/ (eof /\ buffer # <<>>)
  PROVE  Takes(buffer, Min(LineEnds \cup {Len(buffer)}), eof)
<1> DEFINE T == LineEnds \cup {Len(buffer)}
           n == Min(T)
           e == Min(LineEnds)
<1>1. buffer \in Seq(STRING) /\ Len(buffer) \in Nat /\ MAXINPUT_LEN \in Nat /\ MAXINPUT_LEN > 1
  BY LenProperties, InterfaceAssumption DEF Reading
<1>2. /\ LineEnds \in SUBSET Nat /\ MAXINPUT_LEN - 1 \in LineEnds
      /\ \A i \in LineEnds : i >= 1 /\ (i = MAXINPUT_LEN - 1 \/ buffer[i] = LF)
      /\ \A i \in 1 .. Len(buffer) : buffer[i] = LF => i \in LineEnds
  BY <1>1 DEF LineEnds
<1>3. T \in SUBSET Nat /\ T # {} /\ LineEnds # {}
  BY <1>1, <1>2
<1>4. /\ n \in T /\ \A i \in T : n <= i
      /\ e \in LineEnds /\ \A i \in LineEnds : e <= i
  BY <1>2, <1>3, MinIs, Zenon
<1>5. Complete => e <= Len(buffer)
  BY DEF Complete
<1>6. n \in LineEnds \/ n = Len(buffer)
  BY <1>4
<1>7. n <= Len(buffer) /\ \A i \in LineEnds : n <= i
  BY <1>4
<1> HIDE DEF T, n, e
<1>8. n \in Nat /\ e \in Nat /\ e >= 1
  BY <1>1, <1>2, <1>4, <1>6
<1>9. n >= 1
  <2>1. CASE n \in LineEnds
    BY <1>2, <2>1
  <2>2. CASE n = Len(buffer)
    <3>1. Len(buffer) # 0
      <4>1. CASE Complete
        BY <1>1, <1>5, <1>8, <4>1
      <4>2. CASE buffer # <<>>
        BY <1>1, <4>2, EmptySeq
      <4> QED
        BY <4>1, <4>2
    <3> QED
      BY <1>1, <2>2, <3>1
  <2> QED
    BY <1>6, <2>1, <2>2
<1>10. n \in 1 .. Len(buffer) /\ n <= MAXINPUT_LEN - 1
  BY <1>1, <1>2, <1>7, <1>8, <1>9
<1>11. ASSUME NEW i \in 1 .. (n - 1), buffer[i] = LF
       PROVE  FALSE
  <2>1. i \in 1 .. Len(buffer)
    BY <1>1, <1>10
  <2>2. n <= i
    BY <1>2, <1>7, <1>11, <2>1
  <2> QED
    BY <1>8, <2>2
<1>12. buffer[n] = LF \/ n = MAXINPUT_LEN - 1 \/ (n = Len(buffer) /\ eof)
  <2>1. CASE n \in LineEnds
    BY <1>2, <2>1
  <2>2. CASE n \notin LineEnds
    <3>1. n = Len(buffer)
      BY <1>6, <2>2
    <3>2. ~Complete
      <4> SUFFICES ASSUME Complete
                   PROVE  FALSE
        OBVIOUS
      <4>1. e <= n /\ n <= e
        BY <1>4, <1>5, <1>7, <3>1
      <4>2. n = e
        BY <1>8, <4>1
      <4> QED
        BY <1>4, <2>2, <4>2
    <3> QED
      BY <3>1, <3>2
  <2> QED
    BY <2>1, <2>2
<1>13. Takes(buffer, n, eof)
  BY <1>10, <1>11, <1>12 DEF Takes
<1> QED
  BY <1>13 DEF n, T

LEMMA TakeLineStopping ==
  ASSUME Reading, Stopping, TakeLine, UNCHANGED <<given, stage>>
  PROVE  Reading' /\ Stopping'
<1>0. PICK n : n = Min(LineEnds \cup {Len(buffer)})
  OBVIOUS
<1> DEFINE line == SubSeq(buffer, 1, IF buffer[n] = LF THEN n - 1 ELSE n)
<1>1. /\ at = "fgets" /\ (Complete \/ (eof /\ buffer # <<>>))
      /\ buffer' = SubSeq(buffer, n + 1, Len(buffer))
      /\ at' = IF line = StopLine THEN "returned" ELSE "select"
      /\ UNCHANGED <<tty, script, typed, hungup, read, eof, given, stage>>
  BY <1>0 DEF TakeLine, userVars, IsStop
<1>2. Takes(buffer, n, eof)
  BY <1>0, <1>1, TakeLineTakes
<1>3. /\ Text \in Seq(STRING) /\ Unread \in Seq(STRING) /\ buffer \in Seq(STRING)
      /\ eof => Unread = <<>>
  BY TextIs
<1>4. n \in 1 .. Len(buffer) /\ Len(buffer) \in Nat /\ n \in Nat /\ n \in 0 .. Len(buffer)
  BY <1>2, <1>3, LenProperties DEF Takes
<1>5. buffer' \in Seq(STRING) /\ (n = Len(buffer) => buffer' = <<>>)
  <2>1. /\ SubSeq(buffer, n + 1, Len(buffer)) \in Seq(STRING)
        /\ Len(SubSeq(buffer, n + 1, Len(buffer))) = Len(buffer) - n
    <3>1. Len(buffer) \in n .. Len(buffer)
      BY <1>4
    <3> QED
      BY <1>3, <1>4, <3>1, CutIs
  <2>2. n = Len(buffer) => Len(buffer') = 0
    BY <1>1, <1>4, <2>1
  <2> QED
    BY <1>1, <2>1, <2>2, EmptySeq
<1>6. Reading'
  <2>1. stage' = "interface"
    BY <1>1 DEF Reading
  <2> QED
    BY <1>1, <1>5, <2>1 DEF Reading
<1>7. Text' = Text /\ Unread' = Unread
  BY <1>1 DEF Text, Unread, Stream, Shown, Ends, Part
<1>8. PICK a \in Nat : Follows(Text, a, buffer, Unread) /\ Place(a)
  BY <1>1 DEF Stopping
<1>9. Follows(Text, a + n, buffer, Unread)'
  <2>1. Follows(Text, a + n, SubSeq(buffer, n + 1, Len(buffer)), Unread)
    BY <1>3, <1>4, <1>8, FollowsTaken
  <2> QED
    BY <1>1, <1>7, <2>1 DEF Follows
<1>10. ASSUME Between(Text, a)
       PROVE  /\ Long(Text) \/ Between(Text, a + n) \/ (eof /\ n = Len(buffer))
              /\ line = StopLine => Long(Text) \/ Stops(Text, eof)
  <2>1. eof \in BOOLEAN
    BY DEF Reading
  <2>2. CASE buffer[n] = LF
    <3>1. line = SubSeq(buffer, 1, n - 1)
      BY <2>2
    <3> QED
      BY <1>2, <1>3, <1>8, <1>10, <2>2, <3>1, TakenLine
  <2>3. CASE buffer[n] # LF
    <3>1. line = SubSeq(buffer, 1, n)
      BY <2>3
    <3> QED
      BY <1>2, <1>3, <1>8, <1>10, <2>1, <2>3, <3>1, TakenPart
  <2> QED
    BY <2>2, <2>3
<1> HIDE DEF line
<1>11. /\ Long(Text) \/ Between(Text, a + n) \/ (eof /\ n = Len(buffer))
       /\ line = StopLine => Long(Text) \/ Stops(Text, eof)
  <2>1. ~(eof /\ buffer = <<>>)
    <3>1. Len(buffer) # 0
      BY <1>4
    <3> QED
      BY <3>1, EmptySeq
  <2>2. Long(Text) \/ Between(Text, a)
    BY <1>8, <2>1 DEF Place
  <2> QED
    BY <1>10, <2>2
<1>12. Place(a + n)'
  <2>1. (Long(Text) \/ Between(Text, a + n))' <=> Long(Text) \/ Between(Text, a + n)
    BY <1>7
  <2> QED
    BY <1>1, <1>5, <1>11, <2>1 DEF Place
<1>13. at' = "returned" => (Long(Text) \/ Stops(Text, eof))'
  BY <1>1, <1>7, <1>11
<1>14. a + n \in Nat
  BY <1>4
<1> QED
  BY <1>6, <1>9, <1>12, <1>13, <1>14 DEF Stopping

LEMMA NextStopping ==
  ASSUME Reading, Stopping, [Next]_vars
  PROVE  Reading' /\ Stopping'
<1>1. CASE Main \/ UNCHANGED vars
  <2>1. /\ UNCHANGED <<given, tty, script, typed, hungup, read, buffer, eof>>
        /\ stage = "interface" => stage' = "interface" /\ at' = at
        /\ stage # "interface" => at' = at \/ (at' = "select" /\ stage' = "interface")
    <3>1. CASE UNCHANGED vars
      BY <3>1 DEF vars, interfaceVars, userVars, stdioVars
    <3>2. CASE Detach
      BY <3>2 DEF Detach, Running, Done, Following, userVars, stdioVars
    <3>3. CASE Main /\ ~Detach
      BY <3>3 DEF Main, LoadEnv, LoadArg, LoadArgsDone, SetConf, InitCache, SetRoutes, Socket,
         Bind, Listen, CreateThread, Fail, Finish, Running, Done, Exit, Following, RunApp,
         interfaceVars, userVars, stdioVars
    <3> QED
      BY <1>1, <3>1, <3>2, <3>3
  <2>2. stage # "interface" => at = "starting"
    BY DEF Reading
  <2>3. Reading'
    BY <2>1, <2>2 DEF Reading
  <2>4. (at' = "returned") <=> (at = "returned")
    BY <2>1, <2>2
  <2> QED
    BY <2>1, <2>3, <2>4, SameStopping
<1>2. CASE Apart(Type)
  BY <1>2, TypeStopping DEF Apart
<1>3. CASE Apart(Fill)
  BY <1>3, FillStopping DEF Apart
<1>4. CASE Apart(TakeLine)
  BY <1>4, TakeLineStopping DEF Apart
<1>5. CASE Apart(HangUp) \/ Apart(Select) \/ Apart(SelectFailure) \/ Apart(NoLine)
  <2>1. /\ UNCHANGED <<given, stage, tty, script, typed, read, buffer, eof>>
        /\ hungup' = hungup \/ (~tty /\ hungup' = TRUE)
        /\ at' = at \/ (at \in {"select", "fgets"} /\ at' \in {"select", "fgets", "failed"})
    BY <1>5 DEF Apart, HangUp, Select, SelectFailure, NoLine, userVars, stdioVars
  <2>2. (at' = "returned") <=> (at = "returned")
    BY <2>1
  <2>3. Reading'
    BY <2>1 DEF Reading
  <2> QED
    BY <2>1, <2>2, <2>3, SameStopping
<1> QED
  BY <1>1, <1>2, <1>3, <1>4, <1>5 DEF Next, User, Interface, UserStep, LoopStep, Apart

\* The end of the line of text that starts after its first p characters.
LEMMA LineEnd ==
  ASSUME NEW text \in Seq(STRING), NEW p \in 0 .. Len(text)
  PROVE  \E e \in (p + 1) .. (Len(text) + 1) :
           /\ e = Len(text) + 1 \/ text[e] = LF
           /\ \A z \in (p + 1) .. (e - 1) : text[z] # LF
<1> DEFINE T == {z \in (p + 1) .. (Len(text) + 1) : z = Len(text) + 1 \/ text[z] = LF}
<1>1. Len(text) \in Nat
  BY LenProperties
<1>2. T \in SUBSET Nat /\ Len(text) + 1 \in T
  BY <1>1
<1>3. PICK e \in T : \A z \in T : e <= z
  <2> HIDE DEF T
  <2> QED
    BY <1>2, LeastElement
<1>4. ASSUME NEW z \in (p + 1) .. (e - 1), text[z] = LF
      PROVE  FALSE
  <2>1. z \in T /\ ~(e <= z)
    BY <1>1, <1>4
  <2> QED
    BY <1>3, <2>1
<1> QED
  BY <1>3, <1>4

\* A pair of neighbouring line ends makes a line.
LEMMA LineOf ==
  ASSUME NEW text \in Seq(STRING), NEW p \in 0 .. Len(text), Start(text, p),
         NEW e \in (p + 1) .. (Len(text) + 1), e = Len(text) + 1 \/ text[e] = LF,
         \A z \in (p + 1) .. (e - 1) : text[z] # LF
  PROVE  SubSeq(text, p + 1, e - 1) \in LinesOf(text, FALSE)
<1> DEFINE feeds == {i \in DOMAIN text : text[i] = LF}
           starts == {0} \cup feeds
           ends == feeds \cup {Len(text) + 1}
           Neighbours(q) == q[1] < q[2] /\ ~\E z \in feeds : q[1] < z /\ z < q[2]
           pairs == {q \in starts \X ends : Neighbours(q)}
<1>1. Len(text) \in Nat /\ DOMAIN text = 1 .. Len(text)
  BY LenProperties
<1>2. p \in starts /\ e \in ends
  BY <1>1 DEF Start
<1>3. p < e /\ ~\E z \in feeds : p < z /\ z < e
  BY <1>1
<1> HIDE DEF feeds
<1>4. <<p, e>> \in pairs
  BY <1>2, <1>3
<1>5. LinesOf(text, FALSE) = {SubSeq(text, q[1] + 1, q[2] - 1) : q \in pairs}
  BY DEF LinesOf, feeds
<1> HIDE DEF pairs
<1>6. SubSeq(text, <<p, e>>[1] + 1, <<p, e>>[2] - 1) \in LinesOf(text, FALSE)
  BY <1>4, <1>5, Zenon
<1> QED
  BY <1>6

\* So a line that is too long does not fit, ...
LEMMA LongDoesNotFit ==
  ASSUME NEW text \in Seq(STRING), Long(text)
  PROVE  \E line \in LinesOf(text, FALSE) : ~(Len(line) <= MAXINPUT_LEN - 1)
<1>1. Len(text) \in Nat /\ MAXINPUT_LEN \in Nat
  BY LenProperties, InterfaceAssumption
<1>2. PICK p \in 0 .. Len(text) :
        Start(text, p) /\ p + MAXINPUT_LEN <= Len(text) /\ Unbroken(text, p, p + MAXINPUT_LEN)
  BY DEF Long
<1>3. PICK e \in (p + 1) .. (Len(text) + 1) :
        /\ e = Len(text) + 1 \/ text[e] = LF
        /\ \A z \in (p + 1) .. (e - 1) : text[z] # LF
  BY LineEnd
<1>4. ~(e <= p + MAXINPUT_LEN)
  BY <1>1, <1>2, <1>3 DEF Unbroken
<1>5. e - 1 \in p .. Len(text) /\ p \in Nat
  BY <1>1
<1>6. Len(SubSeq(text, p + 1, e - 1)) = (e - 1) - p
  BY <1>5, CutIs
<1>7. SubSeq(text, p + 1, e - 1) \in LinesOf(text, FALSE)
  BY <1>2, <1>3, LineOf
<1>8. ~((e - 1) - p <= MAXINPUT_LEN - 1)
  BY <1>1, <1>4, <1>5
<1> QED
  BY <1>6, <1>7, <1>8

\* ... and a line that asks to stop is one.
LEMMA StopIsLine ==
  ASSUME NEW text \in Seq(STRING), NEW final, Stops(text, final)
  PROVE  StopLine \in LinesOf(text, FALSE)
<1>1. Len(text) \in Nat
  BY LenProperties
<1>2. PICK p \in 0 .. (Len(text) - 1) :
        /\ Start(text, p) /\ text[p + 1] = StopLine[1]
        /\ p + 1 < Len(text) => text[p + 2] = LF
  BY DEF Stops
<1>3. text[p + 1] # LF
  BY <1>2 DEF StopLine, LF
<1> DEFINE e == p + 2
<1>4. p \in 0 .. Len(text) /\ e \in (p + 1) .. (Len(text) + 1) /\ p \in Nat /\ p + 1 \in p .. Len(text)
  BY <1>1
<1>5. e = Len(text) + 1 \/ text[e] = LF
  BY <1>1, <1>2
<1>6. \A z \in (p + 1) .. (e - 1) : text[z] # LF
  <2>1. \A z \in (p + 1) .. (e - 1) : z = p + 1
    BY <1>4
  <2> QED
    BY <1>3, <2>1
<1>7. e - 1 = p + 1
  BY <1>4
<1> HIDE DEF e
<1>8. SubSeq(text, p + 1, e - 1) \in LinesOf(text, FALSE)
  BY <1>2, <1>4, <1>5, <1>6, LineOf
<1>9. SubSeq(text, p + 1, p + 1) = StopLine
  <2> DEFINE s == SubSeq(text, p + 1, p + 1)
  <2>1. s \in Seq(STRING) /\ Len(s) = (p + 1) - p /\ \A i \in 1 .. ((p + 1) - p) : s[i] = text[p + i]
    BY <1>4, CutIs
  <2> HIDE DEF s
  <2>2. Len(s) = 1 /\ s[1] = StopLine[1]
    BY <1>2, <1>4, <2>1
  <2>3. s = StopLine
    BY <2>1, <2>2 DEF StopLine
  <2> QED
    BY <2>3 DEF s
<1> QED
  BY <1>7, <1>8, <1>9

\* For every script, however it is cut into chunks and whenever they are written and
\* read, on a terminal or a pipe, and for every length of the buffer: a server
\* that runs well ends only when a line of its own has asked it to.
THEOREM OnlyStopTheorem == Spec => []OnlyStopStops
<1>1. Reading /\ Stopping => OnlyStopStops
  <2> SUFFICES ASSUME Reading, Stopping, at = "returned", LinesFit
               PROVE  StopLine \in LinesOf(Stream(typed), FALSE)
    BY DEF OnlyStopStops
  <2>1. Text \in Seq(STRING) /\ (Long(Text) \/ Stops(Text, eof))
    BY TextIs DEF Stopping
  <2>2. ~Long(Text)
    <3> SUFFICES ASSUME Long(Text)
                 PROVE  FALSE
      OBVIOUS
    <3>1. PICK line \in LinesOf(Text, FALSE) : ~(Len(line) <= MAXINPUT_LEN - 1)
      BY <2>1, LongDoesNotFit
    <3> QED
      BY <3>1 DEF LinesFit, Text
  <2>3. StopLine \in LinesOf(Text, FALSE)
    BY <2>1, <2>2, StopIsLine
  <2> QED
    BY <2>3 DEF Text
<1>2. Init => Reading /\ Stopping
  BY ReadingInit
<1>3. Reading /\ Stopping /\ [Next]_vars => (Reading /\ Stopping)'
  BY NextStopping
<1> QED
  BY <1>1, <1>2, <1>3, PTL DEF Spec
==============================================================================
