------------------------- MODULE MC_ERC20Messaging -------------------------
EXTENDS ERC20Messaging

\* Roots are the block numbers 1 .. MaxBlocks.
MCRoots == 1 .. 2
=============================================================================
