-------------------------------- MODULE MCApp --------------------------------
EXTENDS App

CONSTANT unset

MCLevelNames == "INFO" :> "INFO" @@ "info" :> "INFO" @@ "error" :> "ERROR" @@ "WARNING" :> "WARNING"

\* Environments and .env files, with ports that fit, are none, and are too big.
MCEnv(h, p, l) == "CERIOUSDB_HOST" :> h @@ "CERIOUSDB_PORT" :> p @@ "LOG_LEVEL" :> l
MCEnvs == {MCEnv(h, p, l) : h \in {unset, "env"}, p \in {unset, 0, 9000, 70000}, l \in {unset, "error"}}
MCSet(f) == [n \in {m \in Names : f[m] # unset} |-> f[n]]
MCDotenvs == {MCSet(MCEnv(h, p, l)) : h \in {unset, "bad"}, p \in {unset, 0, 8080, -1}, l \in {unset, "info", "loud"}}

MCArg == {<<"h", "arg">>, <<"p", 80>>, <<"p", 65535>>, <<"p", 65536>>, <<"p", 0>>, <<"?", 0>>}
MCArgs == BoundedSeq(MCArg, 2)

\* Chunks: lines; on a terminal also an end of file and an unfinished line, on
\* a pipe several lines and parts of lines.
MCLine == {<<"q", LF>>, <<"x", LF>>, <<LF>>, <<"q", "x", LF>>, <<"x", "x", "q", LF>>}
MCTerminal == MCLine \cup {<<>>, <<"q">>, <<"x">>}
MCPipe == MCLine \cup {<<"q">>, <<"x", LF, "q">>, <<"x", LF, "q", LF>>, <<"x", "x", "x", LF, "q", LF, "x">>}

MCPlain == MCEnv(unset, unset, unset)

\* Either the configuration or what is written is explored, beside a plain other.
MCInputs ==
  [env : MCEnvs, dotenv : MCDotenvs, ok : {TRUE}, args : MCArgs, tty : {TRUE}, script : {<<>>}]
  \cup [env : {MCPlain}, dotenv : MCDotenvs, ok : {FALSE}, args : {<<>>}, tty : {TRUE}, script : {<<>>}]
  \cup [env : {MCPlain}, dotenv : {<<>>}, ok : {TRUE}, args : {<<>>}, tty : {TRUE}, script : BoundedSeq(MCTerminal, 3)]
  \cup [env : {MCPlain}, dotenv : {<<>>}, ok : {TRUE}, args : {<<>>}, tty : {FALSE}, script : BoundedSeq(MCPipe, 3)]
==============================================================================
