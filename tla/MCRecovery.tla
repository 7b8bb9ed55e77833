----------------------------- MODULE MCRecovery -----------------------------
EXTENDS Recovery

CONSTANTS n1, n2, m1, m2
=============================================================================
