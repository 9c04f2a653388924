--------------------------- MODULE SemaphoreSpec ---------------------------
(***************************************************************************)
(* What a ucommon Semaphore promises its callers (spec 4.3): a set of      *)
(* permit holders that an acquire joins only while fewer than `count`      *)
(* hold a permit, that a release leaves, and a capacity set() may change   *)
(* at any time, also below the number of holders.  Waiting, signals and    *)
(* timeouts are invisible here.                                            *)
(***************************************************************************)
EXTENDS Naturals, FiniteSets

CONSTANTS Threads, InitCount, Limits

VARIABLES count, holders

Init == count = InitCount /\ holders = {}

Acquire(t) ==
    /\ t \notin holders
    /\ Cardinality(holders) < count
    /\ holders' = holders \cup {t}
    /\ UNCHANGED count

Release(t) ==
    /\ t \in holders
    /\ holders' = holders \ {t}
    /\ UNCHANGED count

Set == \E v \in Limits : count' = v /\ UNCHANGED holders

Next == Set \/ \E t \in Threads : Acquire(t) \/ Release(t)

Spec == Init /\ [][Next]_<<count, holders>>
=============================================================================
