------------------------------ MODULE Dispatch ------------------------------
(***************************************************************************)
(* execute_function of src/ceriousapi/server.c: which registered handler   *)
(* answers a request.  A route is a path and the set of methods it maps to *)
(* a function; the others are NULL.                                        *)
(***************************************************************************)
EXTENDS Integers, Sequences

Answers(route, path, method) == route.path = path /\ method \in route.methods

\* The index of the route whose function is called, 0 when the request is
\* refused.  Every branch of the loop's body returns: an unmapped path or
\* method in its first iteration refuses the request.
HandlerOf(routes, path, method) ==
  IF routes # <<>> /\ Answers(routes[1], path, method) THEN 1 ELSE 0
=============================================================================
