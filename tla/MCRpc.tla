-------------------------------- MODULE MCRpc --------------------------------
EXTENDS Rpc, TLC

CONSTANTS t1, t2, h1, h2, h3, h4, h5, h6

\* MaxFaults without a bound.
Unlimited == -1

Symmetry == Permutations(Handles)
=============================================================================
