------------------------------- MODULE MCServer -------------------------------
EXTENDS Server, TLC

CONSTANTS c1, c2, c3, none

\* The first two routes of src/ceriousdb/main.c.
MCRoutes == <<[path |-> "/db", methods |-> {"HEAD", "GET", "PUT", "DELETE"}],
              [path |-> "/db/all", methods |-> {"GET"}]>>

MCPaths == {"/", "/db", "/x"}
MCMethods == {"HEAD", "GET", "PUT", "DELETE"}

\* A request for the first route, one for a path nobody registered, one with
\* an unsupported method.
MCRequest == c1 :> <<"GET", "/db">> @@ c2 :> <<"PUT", "/x">> @@ c3 :> <<"POST", "/db">>
===============================================================================
