--------------------------- MODULE MCChangeLedger ---------------------------
EXTENDS ChangeLedger, TLC
Perms == Permutations(Calls) \cup Permutations(Files)
=============================================================================
