------------------------- MODULE MCStrDictionaryLoops -------------------------
EXTENDS StrDictionaryLoops, TLC

CONSTANTS k1, k2, k3, v1

\* As in MCStrDictionary: k1 and k2 collide, and their probes wrap onto k3.
MCHash == k1 :> 5 @@ k2 :> 5 @@ k3 :> 0
===============================================================================
