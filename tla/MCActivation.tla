---------------------------- MODULE MCActivation ----------------------------
EXTENDS Activation

CONSTANTS t1, t2, t3, v1, v2, v3
=============================================================================
