------------------------------ MODULE MCTypeRef ------------------------------
EXTENDS TypeRef

CONSTANTS t1, t2

MCThreads == {t1, t2}
=============================================================================
