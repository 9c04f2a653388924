--------------------------- MODULE AccessLockSpec ---------------------------
(***************************************************************************)
(* What a ConditionalAccess (accesslock_t) promises its callers, with no  *)
(* mutex, counters or condition variables in it: a set of threads share   *)
(* the lock, or one thread holds it exclusively, never both.  A          *)
(* ConditionalLock adds the upgrade of a sole sharer to exclusive and the *)
(* way back, each one step with no other thread in between.              *)
(***************************************************************************)
CONSTANTS Readers, Writers, NoThread

VARIABLES shared, exclusive

Init == shared = {} /\ exclusive = NoThread

(* access(): granted while no thread holds the lock exclusively. *)
Share(t) ==
    /\ t \in Readers \ shared
    /\ exclusive = NoThread
    /\ shared' = shared \cup {t}
    /\ UNCHANGED exclusive

(* release() *)
Unshare(t) ==
    /\ t \in shared
    /\ shared' = shared \ {t}
    /\ UNCHANGED exclusive

(* modify(): granted when nobody holds the lock. *)
Lock(t) ==
    /\ t \in Writers
    /\ exclusive = NoThread /\ shared = {}
    /\ exclusive' = t
    /\ UNCHANGED shared

(* commit() *)
Unlock(t) ==
    /\ exclusive = t
    /\ exclusive' = NoThread
    /\ UNCHANGED shared

(* exclusive(): the only sharer becomes the exclusive holder. *)
Upgrade(t) ==
    /\ shared = {t} /\ exclusive = NoThread
    /\ shared' = {} /\ exclusive' = t

(* share(): the exclusive holder goes back to sharing. *)
Downgrade(t) ==
    /\ t \in Readers /\ exclusive = t
    /\ shared' = {t} /\ exclusive' = NoThread

Next == \E t \in Readers \cup Writers :
            \/ Share(t) \/ Unshare(t) \/ Lock(t) \/ Unlock(t)
            \/ Upgrade(t) \/ Downgrade(t)

Spec == Init /\ [][Next]_<<shared, exclusive>>
=============================================================================
