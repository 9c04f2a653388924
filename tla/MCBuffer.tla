------------------------------ MODULE MCBuffer ------------------------------
EXTENDS Buffer

CONSTANTS p1, c1, none

MCProducers == {p1}
MCConsumers == {c1}
MCThreads == {p1, c1}
=============================================================================
