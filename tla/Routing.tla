------------------------------- MODULE Routing -------------------------------
(***************************************************************************)
(* The route table of src/ceriousapi/server.c, filled by                   *)
(* ceriousapi_setroute before the server is started.                       *)
(***************************************************************************)
EXTENDS Integers, Sequences

CONSTANTS
  Paths,             \* paths callers register, longer than 0 characters
  Root,              \* "/"
  NoPath,            \* NULL or "" passed as the path
  Methods,           \* HEAD, GET, PUT and DELETE
  MAX_ROUTES_AMOUNT  \* length of the array routes

VARIABLES
  routes,    \* routes[0 .. route_count - 1], as a sequence
  undefined  \* routes was written past its end: anything may happen

vars == <<routes, undefined>>

Route == [path : Paths, methods : SUBSET Methods]

Init ==
  /\ routes = <<>>
  /\ undefined = FALSE

SetRoute(path, methods) ==
  /\ Len(routes) < MAX_ROUTES_AMOUNT
  /\ routes' = Append(routes, [path    |-> IF path = NoPath THEN Root ELSE path,
                               methods |-> methods])
  /\ UNCHANGED undefined

\* The check for a full array compares with > and lets this call through.  It
\* writes routes[MAX_ROUTES_AMOUNT]: into route_count, the host, the port, or
\* whatever else lies behind the array.  (Calls are refused from the next one
\* on, when the program means nothing any more.)
SetRouteOverrun ==
  /\ Len(routes) = MAX_ROUTES_AMOUNT
  /\ undefined' = TRUE
  /\ UNCHANGED routes

Next ==
  /\ ~undefined
  /\ \/ \E path \in Paths \cup {NoPath}, methods \in SUBSET Methods : SetRoute(path, methods)
     \/ SetRouteOverrun

Spec == Init /\ [][Next]_vars

------------------------------------------------------------------------------

\* "maximum of programmable routes reached" (server.c:46): however many routes
\* are registered, none is stored beyond the array; the call that finds it full
\* is refused.
StoredInArray == ~undefined
==============================================================================
