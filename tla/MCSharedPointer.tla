--------------------------- MODULE MCSharedPointer ---------------------------
(* Two threads, two handles each, objects created by replace(). *)
EXTENDS SharedPointer

CONSTANTS t1, t2, o1, o2, o3

MCThreads == {t1, t2}
MCObjects == {o1, o2, o3}
=============================================================================
