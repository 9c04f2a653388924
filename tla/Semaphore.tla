----------------------------- MODULE Semaphore -----------------------------
(***************************************************************************)
(* ucommon Semaphore (src/src/thread.cpp, lines 92-205): a counting        *)
(* semaphore built from one pthread mutex and one condition variable.      *)
(*                                                                         *)
(*   count  the capacity (the C++ member `count`, the spec's `limit`)      *)
(*   used   permits handed out                                             *)
(*   waits  threads inside an acquire's wait loop                          *)
(*                                                                         *)
(* Every access to these members happens with the mutex held, and the     *)
(* only blocking point inside a locked region is pthread_cond_wait, which  *)
(* releases the mutex atomically.  A step of this module is therefore one  *)
(* locked region of the code, and the mutex itself needs no variable.     *)
(*                                                                         *)
(* The condition variable is the set `cv` of blocked threads.  A signal    *)
(* moves one of them, any one, to "woken"; a woken thread must take the    *)
(* mutex again and re-test its loop condition.  POSIX also lets a waiter   *)
(* wake spuriously, and a timed waiter wake when its deadline passes.      *)
(***************************************************************************)
EXTENDS Naturals, FiniteSets

CONSTANTS
    Threads,    \* the threads sharing the semaphore
    InitCount,  \* the limit given to the constructor Semaphore(limit)
    Limits,     \* the values a caller may pass to set()
    Rounds,     \* acquire/release cycles each thread performs
    MaxSets     \* calls of set() over the whole run

ASSUME /\ InitCount \in Nat
       /\ Limits \subseteq Nat
       /\ Rounds \in Nat \ {0}
       /\ MaxSets \in Nat

VARIABLES
    count,    \* Semaphore::count
    used,     \* Semaphore::used
    waits,    \* Semaphore::waits
    cv,       \* threads blocked in pthread_cond_(timed)wait on Semaphore::cond
    pc,       \* where each thread is
    timed,    \* timed[t]: t's current acquire is wait(timeout) with timeout # 0
    expired,  \* expired[t]: the deadline of t's timed acquire has passed
    diff,     \* diff[t]: signals still to send in t's set() loop (local `diff`)
    rounds,   \* rounds[t]: acquire/release cycles t has completed
    sets      \* set() calls made so far

vars == <<count, used, waits, cv, pc, timed, expired, diff, rounds, sets>>

PCs == {"idle", "blocked", "woken", "holding", "setsignal", "done"}

Min2(a, b) == IF a < b THEN a ELSE b

\* pthread_cond_signal releases one blocked thread, any one, or nobody if
\* none is blocked: the possible sets of threads it releases.
SignalChoices == IF cv = {} THEN {{}} ELSE {{w} : w \in cv}

\* Threads W leave the condition variable, woken, while t moves to label.
WakeAndMove(W, t, label) ==
    /\ cv' = cv \ W
    /\ pc' = [u \in Threads |-> IF u \in W THEN "woken"
                                ELSE IF u = t THEN label ELSE pc[u]]

-----------------------------------------------------------------------------
Init ==
    /\ count = InitCount
    /\ used = 0
    /\ waits = 0
    /\ cv = {}
    /\ pc = [t \in Threads |-> "idle"]
    /\ timed = [t \in Threads |-> FALSE]
    /\ expired = [t \in Threads |-> FALSE]
    /\ diff = [t \in Threads |-> 0]
    /\ rounds = [t \in Threads |-> 0]
    /\ sets = 0

(* Shlock() (timeout 0) or wait(Timer&) (timeout # 0), up to the first    *)
(* test of the loop condition: take a permit at once, or count oneself in *)
(* `waits` and block on the condition variable.                           *)
Acquire(t) ==
    /\ pc[t] = "idle"
    /\ rounds[t] < Rounds
    /\ \E isTimed \in BOOLEAN :
          /\ timed' = [timed EXCEPT ![t] = isTimed]
          /\ IF used >= count
               THEN /\ waits' = waits + 1
                    /\ cv' = cv \cup {t}
                    /\ pc' = [pc EXCEPT ![t] = "blocked"]
                    /\ UNCHANGED used
               ELSE /\ used' = used + 1
                    /\ pc' = [pc EXCEPT ![t] = "holding"]
                    /\ UNCHANGED <<waits, cv>>
    /\ UNCHANGED <<count, expired, diff, rounds, sets>>

(* Recheck testing `used > count`: takes a permit when none is free. *)
RecheckOffByOne(t) ==
    /\ pc[t] = "woken"
    /\ IF used > count
         THEN /\ cv' = cv \cup {t}
              /\ pc' = [pc EXCEPT ![t] = "blocked"]
              /\ UNCHANGED <<waits, used, expired>>
         ELSE /\ waits' = waits - 1
              /\ used' = used + 1
              /\ pc' = [pc EXCEPT ![t] = "holding"]
              /\ expired' = [expired EXCEPT ![t] = FALSE]
              /\ UNCHANGED cv
    /\ UNCHANGED <<count, timed, diff, rounds, sets>>

(* A woken waiter holds the mutex again and re-tests `used >= count`.  In *)
(* wait(Timer&) the result of pthread_cond_timedwait is never stored in   *)
(* `rtn`, so `rtn != ETIMEDOUT` stays true and an expired deadline does   *)
(* not end the loop: the timed path behaves like Shlock.                  *)
Recheck(t) ==
    /\ pc[t] = "woken"
    /\ IF used >= count
         THEN /\ cv' = cv \cup {t}
              /\ pc' = [pc EXCEPT ![t] = "blocked"]
              /\ UNCHANGED <<waits, used, expired>>
         ELSE /\ waits' = waits - 1
              /\ used' = used + 1
              /\ pc' = [pc EXCEPT ![t] = "holding"]
              /\ expired' = [expired EXCEPT ![t] = FALSE]
              /\ UNCHANGED cv
    /\ UNCHANGED <<count, timed, diff, rounds, sets>>

(* pthread_cond_timedwait returns ETIMEDOUT once the deadline has passed. *)
Expire(t) ==
    /\ t \in cv
    /\ timed[t]
    /\ cv' = cv \ {t}
    /\ pc' = [pc EXCEPT ![t] = "woken"]
    /\ expired' = [expired EXCEPT ![t] = TRUE]
    /\ UNCHANGED <<count, used, waits, timed, diff, rounds, sets>>

(* POSIX permits pthread_cond_wait to return without a signal. *)
SpuriousWakeup(t) ==
    /\ t \in cv
    /\ cv' = cv \ {t}
    /\ pc' = [pc EXCEPT ![t] = "woken"]
    /\ UNCHANGED <<count, used, waits, timed, expired, diff, rounds, sets>>

(* Release dropping the wake-up: a waiter may be left blocked. *)
ReleaseNoSignal(t) ==
    /\ pc[t] = "holding"
    /\ used' = IF used > 0 THEN used - 1 ELSE 0
    /\ pc' = [pc EXCEPT ![t] = "idle"]
    /\ rounds' = [rounds EXCEPT ![t] = @ + 1]
    /\ UNCHANGED <<cv, count, waits, timed, expired, diff, sets>>

(* Unlock(): give the permit back (never below zero) and, when anyone is  *)
(* counted in `waits`, signal one waiter.                                 *)
Release(t) ==
    /\ pc[t] = "holding"
    /\ used' = IF used > 0 THEN used - 1 ELSE 0
    /\ \E W \in (IF waits > 0 THEN SignalChoices ELSE {{}}) :
          WakeAndMove(W, t, "idle")
    /\ rounds' = [rounds EXCEPT ![t] = @ + 1]
    /\ UNCHANGED <<count, waits, timed, expired, diff, sets>>

(* set() waking one waiter too few. *)
SetUnderWake(t) ==
    /\ pc[t] = "idle"
    /\ sets < MaxSets
    /\ \E v \in Limits :
          /\ count' = v
          /\ IF used >= v \/ waits = 0
               THEN UNCHANGED <<pc, diff>>
               ELSE /\ diff' = [diff EXCEPT ![t] = Min2(v - used, waits) - 1]
                    /\ pc' = [pc EXCEPT ![t] = "setsignal"]
    /\ sets' = sets + 1
    /\ UNCHANGED <<used, waits, cv, timed, expired, rounds>>

(* set(value), first locked region: store the new limit; when it frees    *)
(* slots and threads wait, compute how many to wake, min(count-used,      *)
(* waits), and leave the mutex.                                           *)
Set(t) ==
    /\ pc[t] = "idle"
    /\ sets < MaxSets
    /\ \E v \in Limits :
          /\ count' = v
          /\ IF used >= v \/ waits = 0
               THEN UNCHANGED <<pc, diff>>
               ELSE /\ diff' = [diff EXCEPT ![t] = Min2(v - used, waits)]
                    /\ pc' = [pc EXCEPT ![t] = "setsignal"]
    /\ sets' = sets + 1
    /\ UNCHANGED <<used, waits, cv, timed, expired, rounds>>

(* The set() loop without its bound: signals once more than `diff`. *)
SetSignalUnbounded(t) ==
    /\ pc[t] = "setsignal"
    /\ \E W \in SignalChoices : WakeAndMove(W, t, "setsignal")
    /\ diff' = [diff EXCEPT ![t] = @ - 1]
    /\ UNCHANGED <<count, used, waits, timed, expired, rounds, sets>>

(* set(), the `while(diff--)` loop: each turn locks, signals, unlocks.    *)
(* The state may have changed since `diff` was computed.                  *)
SetSignal(t) ==
    /\ pc[t] = "setsignal"
    /\ diff[t] > 0
    /\ \E W \in SignalChoices : WakeAndMove(W, t, "setsignal")
    /\ diff' = [diff EXCEPT ![t] = @ - 1]
    /\ UNCHANGED <<count, used, waits, timed, expired, rounds, sets>>

SetDone(t) ==
    /\ pc[t] = "setsignal"
    /\ diff[t] = 0
    /\ pc' = [pc EXCEPT ![t] = "idle"]
    /\ UNCHANGED <<count, used, waits, cv, timed, expired, diff, rounds, sets>>

Finish(t) ==
    /\ pc[t] = "idle"
    /\ rounds[t] = Rounds
    /\ pc' = [pc EXCEPT ![t] = "done"]
    /\ UNCHANGED <<count, used, waits, cv, timed, expired, diff, rounds, sets>>

(* Every thread has finished its work: the program stops here. *)
Terminated ==
    /\ \A t \in Threads : pc[t] = "done"
    /\ UNCHANGED vars

\* Steps of the library's own code, run whenever the thread is scheduled.
LibraryStep(t) == Recheck(t) \/ SetSignal(t) \/ SetDone(t) \/ Expire(t)

\* Steps the calling program decides to take.
CallerStep(t) == Acquire(t) \/ Release(t) \/ Set(t) \/ Finish(t)

Next ==
    \/ \E t \in Threads : LibraryStep(t) \/ CallerStep(t) \/ SpuriousWakeup(t)
    \/ Terminated

Spec == Init /\ [][Next]_vars

(* The OS schedules every runnable thread, and a deadline always arrives: *)
(* weak fairness on the library's steps.  Callers are not obliged to call *)
(* Release(): a permit may be held forever.                               *)
LibFairSpec == Spec /\ \A t \in Threads : WF_vars(LibraryStep(t))

(* In addition every caller eventually goes on: releases what it holds    *)
(* and completes its rounds.                                              *)
FairSpec == LibFairSpec /\ \A t \in Threads : WF_vars(CallerStep(t))

-----------------------------------------------------------------------------
TypeOK ==
    /\ count \in Nat
    /\ used \in Nat
    /\ waits \in Nat
    /\ cv \subseteq Threads
    /\ pc \in [Threads -> PCs]
    /\ timed \in [Threads -> BOOLEAN]
    /\ expired \in [Threads -> BOOLEAN]
    /\ diff \in [Threads -> Nat]
    /\ rounds \in [Threads -> 0..Rounds]
    /\ sets \in 0..MaxSets

Holders == {t \in Threads : pc[t] = "holding"}
Woken == {t \in Threads : pc[t] = "woken"}
PendingSignals == {t \in Threads : pc[t] = "setsignal" /\ diff[t] > 0}

(* No lost wake-up: while a permit is free, no thread stays blocked on    *)
(* the condition variable unless a wake-up is already on its way (a woken *)
(* thread that will re-test, or a set() that still has signals to send).  *)
(* It is about Unlock()'s `if(waits) signal` and set()'s count of waiters *)
(* to wake, computed under one lock and sent under others.                *)
NoLostWakeup ==
    (used < count /\ cv # {}) => (Woken # {} \/ PendingSignals # {})

(* The semaphore implements SemaphoreSpec, with the threads in "holding" *)
(* as the holders: an acquire, through Shlock, wait(timeout) or a woken   *)
(* re-test, takes a permit only while fewer than `count` are held, a      *)
(* release gives back exactly its own, and no other step changes either. *)
(* It is about `used` tracking the holders through Unlock()'s floor at 0, *)
(* the re-test after every wake-up, and set() changing `count` between    *)
(* a waiter's wake-up and its re-test.                                    *)
Abstract == INSTANCE SemaphoreSpec WITH holders <- Holders

ImplementsSemaphoreSpec == Abstract!Spec

(* Every thread completes all its acquire/release rounds: nobody blocks   *)
(* forever when callers release their permits.                            *)
AllComplete == <>(\A t \in Threads : pc[t] = "done")

(* A timed acquire whose deadline has passed returns (with false) instead *)
(* of waiting on: Semaphore::wait(Timer&) promises a timeout.             *)
ExpiredWaitReturns ==
    \A t \in Threads : expired[t] ~> (pc[t] \notin {"blocked", "woken"})
=============================================================================
