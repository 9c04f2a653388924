---------------------------- MODULE MCSemaphore ----------------------------
(* Three threads share a semaphore of limit 1 that one set() may raise to  *)
(* 2 or lower back to 1; each thread acquires and releases twice.          *)
EXTENDS Semaphore

CONSTANTS t1, t2, t3

MCThreads == {t1, t2, t3}
=============================================================================
