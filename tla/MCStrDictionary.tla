--------------------------- MODULE MCStrDictionary ---------------------------
EXTENDS StrDictionary, TLC

CONSTANTS k1, k2, k3, v1, v2

\* k1 and k2 collide at every capacity; in a table of 3 or 6 slots they hash
\* to the last slot, so probes wrap, and k3 is in the way of the wrapped probe.
MCHash == k1 :> 5 @@ k2 :> 5 @@ k3 :> 0
==============================================================================
