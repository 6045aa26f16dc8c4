------------------------------- MODULE Config -------------------------------
(***************************************************************************)
(* Where the settings of the server come from: src/ceriousdb/config.c, and *)
(* what ceriousapi_setconf (server.c) and ceriousapi_log_set_level         *)
(* (logging.c) make of them.  Settings are HOST, PORT and LOG_LEVEL;       *)
(* DB_FILE is read but nothing uses it yet.                                *)
(***************************************************************************)
EXTENDS Integers, Sequences

CONSTANTS
  Unset,         \* no variable of that name
  HOST_DEFAULT,  \* "127.0.0.1"
  PORT_DEFAULT   \* 8000; the repository's README.md says 8080

IsPort(port) == port \in 1 .. 65535

ASSUME ConfigAssumption == IsPort(PORT_DEFAULT)

\* The variables of the environment that are looked at.
Names == {"CERIOUSDB_HOST", "CERIOUSDB_PORT", "LOG_LEVEL"}

\* get_env(name, fallback).
GetEnv(env, name, fallback) == IF env[name] = Unset THEN fallback ELSE env[name]

\* A port is written as the number that atoi reads in it, 0 if there is none.
\* load_configs_from_env, after .env has been loaded: any port but 0 is taken.
FromEnv(env) ==
  [host  |-> GetEnv(env, "CERIOUSDB_HOST", HOST_DEFAULT),
   port  |-> LET port == GetEnv(env, "CERIOUSDB_PORT", PORT_DEFAULT)
             IN  IF port = 0 THEN PORT_DEFAULT ELSE port,
   level |-> GetEnv(env, "LOG_LEVEL", "INFO")]

\* load_configs_from_arg: an argument is an option letter with its value; "?"
\* is what getopt_long makes of anything else.  An invalid port is stored, too.
ValidArg(arg) == arg[1] = "h" \/ (arg[1] = "p" /\ IsPort(arg[2]))

WithArg(conf, arg) ==
  [host  |-> IF arg[1] = "h" THEN arg[2] ELSE conf.host,
   port  |-> IF arg[1] = "p" THEN arg[2] ELSE conf.port,
   level |-> conf.level]

\* ceriousapi_log_set_level: letter case does not matter, and what is no level
\* is INFO.  LevelNames[s] is what s says.
LevelOf(names, level) == IF level \in DOMAIN names THEN names[level] ELSE "INFO"

\* The address in ceriousapi_startserver: htons keeps 16 bits of the port.
AddressOf(conf) == [host |-> conf.host, port |-> conf.port % 65536]
==============================================================================
