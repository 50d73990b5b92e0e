---------------------------- MODULE MCVirtioDisk ----------------------------
\* Three threads of which two have a request under way at a time, so that the
\* third finds one descriptor and gives it back.  The data of one block is
\* followed; the others hold one value that is not among its values.
EXTENDS VirtioDisk, TLC

CONSTANT Watched

MCData == [t \in Thread |-> IF t = Watched THEN {1, 2} ELSE {0}]

Perms == Permutations(Thread \ {Watched})
=============================================================================
