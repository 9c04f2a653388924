------------------------------ MODULE MCEvent ------------------------------
EXTENDS Event

CONSTANTS w1, w2, s1

MCWaiters == {w1, w2}
MCSignallers == {s1}
=============================================================================
