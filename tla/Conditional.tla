---------------------------- MODULE Conditional ----------------------------
(***************************************************************************)
(* ucommon Conditional (src/src/thread.cpp, lines 219-307): one pthread    *)
(* mutex, one condition variable, and the members `locked` and `locker`    *)
(* that remember which thread took the mutex through Exlock().             *)
(*                                                                         *)
(* Conditional::wait(timeout) reads `locked` and `locker` to decide        *)
(* whether its caller already holds the mutex: if not, it locks the mutex  *)
(* around the condition wait and unlocks it again afterwards.  It reads    *)
(* them a second time after waking, when other threads may have run        *)
(* Exlock()/Unlock() and rewritten them.                                   *)
(*                                                                         *)
(* The mutex is created with default attributes (pthread_mutex_init(...,  *)
(* NULL)): a glibc "normal" mutex, which does not check its owner on       *)
(* unlock; pthread_mutex_unlock always leaves it free.                     *)
(*                                                                         *)
(* This module holds the Conditional's state and its operations as         *)
(* actions of a thread t; the collections built on it (Queue, Stack,       *)
(* Buffer) extend it and move their own program counters around them.     *)
(***************************************************************************)
EXTENDS Naturals

CONSTANTS
    Threads,   \* every thread that uses the object
    NoThread   \* "no thread": a free mutex, a cleared `locker`

ASSUME NoThread \notin Threads

VARIABLES
    mutex,    \* the thread that last locked the pthread mutex, or NoThread
    locked,   \* Conditional::locked
    locker,   \* Conditional::locker
    cv,       \* threads blocked in pthread_cond_(timed)wait on Conditional::cond
    cw,       \* cw[t]: where t is inside Conditional::wait
    timed,    \* timed[t]: t's current wait has a timeout (timeout # 0)
    rc        \* rc[t]: what t's last Conditional::wait returned

condVars == <<mutex, locked, locker, cv, cw, timed, rc>>

(* Stages of a thread inside Conditional::wait:                            *)
(*   "out"      not inside wait                                           *)
(*   "lock"     blocked in pthread_mutex_lock before the condition wait   *)
(*   "blocked"  in pthread_cond_(timed)wait                                *)
(*   "woken"    released by a signal, the deadline or spuriously; must    *)
(*              take the mutex again                                       *)
(*   "returned" wait() has returned rc[t]                                 *)
WaitStages == {"out", "lock", "blocked", "woken", "returned"}

CondTypeOK ==
    /\ mutex \in Threads \cup {NoThread}
    /\ locked \in BOOLEAN
    /\ locker \in Threads \cup {NoThread}
    /\ cv \subseteq Threads
    /\ cw \in [Threads -> WaitStages]
    /\ timed \in [Threads -> BOOLEAN]
    /\ rc \in [Threads -> BOOLEAN]

CondInit ==
    /\ mutex = NoThread
    /\ locked = FALSE
    /\ locker = NoThread
    /\ cv = {}
    /\ cw = [t \in Threads |-> "out"]
    /\ timed = [t \in Threads |-> FALSE]
    /\ rc = [t \in Threads |-> TRUE]

-----------------------------------------------------------------------------
(* The test Conditional::wait makes twice:                                *)
(*    if(!locked || !pthread_equal(locker, self))                          *)
(* "the caller did not take the mutex through Exlock()".                   *)
NotLockedBySelf(t) == ~locked \/ locker # t

(* Exlock(): pthread_mutex_lock, then record the locker. *)
ExlockOp(t) ==
    /\ mutex = NoThread
    /\ mutex' = t
    /\ locked' = TRUE
    /\ locker' = t

(* Unlock(): clear the record, then pthread_mutex_unlock.  Nothing checks *)
(* that the caller holds the mutex; a normal glibc mutex is freed         *)
(* whoever holds it.                                                      *)
UnlockOp ==
    /\ locked' = FALSE
    /\ locker' = NoThread
    /\ mutex' = NoThread

(* signal(false): pthread_cond_signal releases one blocked thread, any    *)
(* one, or nobody when none is blocked.  The signal is not remembered.    *)
SignalOp ==
    \E W \in (IF cv = {} THEN {{}} ELSE {{w} : w \in cv}) :
        /\ cv' = cv \ W
        /\ cw' = [u \in Threads |-> IF u \in W THEN "woken" ELSE cw[u]]

Exlock(t) == ExlockOp(t) /\ UNCHANGED <<cv, cw, timed, rc>>

Unlock == UnlockOp /\ UNCHANGED <<cv, cw, timed, rc>>

(* `Conditional::signal(false); Unlock();` *)
SignalUnlock == SignalOp /\ UnlockOp /\ UNCHANGED <<timed, rc>>

(* wait(timeout), entry: timeout 0 waits forever (pthread_cond_wait),     *)
(* any other a bounded time (pthread_cond_timedwait).  A caller that, by  *)
(* `locked`/`locker`, holds the mutex goes straight into the condition    *)
(* wait, which releases the mutex; any other first locks it.              *)
WaitBegin(t, isTimed) ==
    /\ cw[t] = "out"
    /\ timed' = [timed EXCEPT ![t] = isTimed]
    /\ rc' = [rc EXCEPT ![t] = TRUE]
    /\ IF NotLockedBySelf(t)
         THEN /\ cw' = [cw EXCEPT ![t] = "lock"]
              /\ UNCHANGED <<mutex, cv>>
         ELSE /\ cw' = [cw EXCEPT ![t] = "blocked"]
              /\ cv' = cv \cup {t}
              /\ mutex' = NoThread
    /\ UNCHANGED <<locked, locker>>

(* wait(timeout): pthread_mutex_lock succeeds and the condition wait at  *)
(* once releases the mutex again.                                         *)
WaitLock(t) ==
    /\ cw[t] = "lock"
    /\ mutex = NoThread
    /\ cw' = [cw EXCEPT ![t] = "blocked"]
    /\ cv' = cv \cup {t}
    /\ UNCHANGED <<mutex, locked, locker, timed, rc>>

(* pthread_cond_timedwait returns ETIMEDOUT: wait() will return false. *)
WaitExpire(t) ==
    /\ cw[t] = "blocked"
    /\ timed[t]
    /\ cw' = [cw EXCEPT ![t] = "woken"]
    /\ cv' = cv \ {t}
    /\ rc' = [rc EXCEPT ![t] = FALSE]
    /\ UNCHANGED <<mutex, locked, locker, timed>>

(* A spurious wake-up, which POSIX permits. *)
WaitSpurious(t) ==
    /\ cw[t] = "blocked"
    /\ cw' = [cw EXCEPT ![t] = "woken"]
    /\ cv' = cv \ {t}
    /\ UNCHANGED <<mutex, locked, locker, timed, rc>>

(* wait(timeout), exit: the condition wait takes the mutex back; then     *)
(* wait() tests `locked`/`locker` again and, if they no longer name this  *)
(* thread, unlocks the mutex before returning.                            *)
WaitEnd(t) ==
    /\ cw[t] = "woken"
    /\ mutex = NoThread
    /\ mutex' = IF NotLockedBySelf(t) THEN NoThread ELSE t
    /\ cw' = [cw EXCEPT ![t] = "returned"]
    /\ UNCHANGED <<locked, locker, cv, timed, rc>>


(* The steps a thread takes inside wait() on its own. *)
WaitStep(t) == WaitLock(t) \/ WaitExpire(t) \/ WaitEnd(t)
=============================================================================
