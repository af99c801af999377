--------------------------- MODULE MC_SendToken ---------------------------
EXTENDS SendToken, TLC

CONSTANTS p1, p2, p3, u1, u2

\* Roots are the block numbers 1 .. MaxBlocks.
MCRoots == 1 .. 3

\* p1 and p2 use the key of u1, p3 that of u2; each sends one token.
MCSenderOf == (p1 :> u1) @@ (p2 :> u1) @@ (p3 :> u2)
MCAmountOf == [p \in Procs |-> 1]
=============================================================================
