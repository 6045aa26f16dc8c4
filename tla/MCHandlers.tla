------------------------------ MODULE MCHandlers ------------------------------
EXTENDS Handlers, TLC

CONSTANTS w1, w2, w3, b1, b2, b3

\* Workers are interchangeable, and so are blocks.
Symmetry == Permutations(Workers) \cup Permutations(Blocks)
===============================================================================
