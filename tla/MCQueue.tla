------------------------------ MODULE MCQueue ------------------------------
(* Producers and consumers of one ucommon Queue, as model values. *)
EXTENDS Queue

CONSTANTS p1, p2, c1, c2, none

MCProducers1 == {p1}
MCProducers2 == {p1, p2}
MCConsumers1 == {c1}
MCConsumers2 == {c1, c2}

MCThreads11 == MCProducers1 \cup MCConsumers1
MCThreads22 == MCProducers2 \cup MCConsumers2
MCThreads12 == MCProducers1 \cup MCConsumers2
MCThreads21 == MCProducers2 \cup MCConsumers1
=============================================================================
