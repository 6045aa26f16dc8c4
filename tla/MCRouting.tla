------------------------------ MODULE MCRouting ------------------------------
EXTENDS Routing

CONSTANTS root, db, none
==============================================================================
