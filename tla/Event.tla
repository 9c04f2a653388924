------------------------------- MODULE Event -------------------------------
(***************************************************************************)
(* ucommon Event (src/src/thread.cpp, lines 24-90): a gate threads wait    *)
(* on until another signals it, with a generation `count` so that a        *)
(* waiter woken by a signal leaves even if the gate has changed again.     *)
(*                                                                         *)
(* Every access to `signalled` and `count` is made with the Event's own    *)
(* mutex held and the only blocking point inside is the condition wait,    *)
(* so one step is one locked region; the mutex needs no variable.          *)
(*                                                                         *)
(* `sigSinceReset` and `sawSignal` are history variables of the model, not *)
(* of the code: whether signal() has run since the last reset(), and      *)
(* whether one has run since thread t began its wait (or the event was    *)
(* signalled, and not reset since, when it began).                        *)
(***************************************************************************)
EXTENDS Naturals

CONSTANTS
    Waiters,      \* threads calling wait() / wait(timeout)
    Signallers,   \* threads calling signal() / reset()
    OpsEach       \* calls each thread makes

Threads == Waiters \cup Signallers

ASSUME /\ Waiters \cap Signallers = {}
       /\ OpsEach \in Nat

VARIABLES
    signalled,      \* Event::signalled
    count,          \* Event::count
    cv,             \* threads blocked in pthread_cond_(timed)wait
    pc,             \* where each thread is
    last,           \* last[t]: the local `last`, count when t's wait began
    timed,          \* timed[t]: t is in wait(Timer&)
    timedOut,       \* timedOut[t]: t's local rc is ETIMEDOUT
    ops,            \* ops[t]: calls t has completed
    sigSinceReset,  \* history: signal() ran since the last reset()
    sawSignal       \* history: a signal t may rely on arrived during its wait

vars == <<signalled, count, cv, pc, last, timed, timedOut, ops,
          sigSinceReset, sawSignal>>

Init ==
    /\ signalled = FALSE
    /\ count = 0
    /\ cv = {}
    /\ pc = [t \in Threads |-> "idle"]
    /\ last = [t \in Threads |-> 0]
    /\ timed = [t \in Threads |-> FALSE]
    /\ timedOut = [t \in Threads |-> FALSE]
    /\ ops = [t \in Threads |-> 0]
    /\ sigSinceReset = FALSE
    /\ sawSignal = [t \in Threads |-> FALSE]

InWait(t) == pc[t] \in {"blocked", "woken"}

\* The loop condition of both wait()s; wait(Timer&) adds `rc != ETIMEDOUT`.
MustWait(t) == ~signalled /\ count = last[t] /\ ~timedOut[t]

(* t leaves wait(): back to idle, one call more. *)
Return(t) ==
    /\ pc' = [pc EXCEPT ![t] = "idle"]
    /\ ops' = [ops EXCEPT ![t] = @ + 1]

-----------------------------------------------------------------------------
(* Mutant: wait() loops on `count == last` alone. *)
WaitBeginGenOnly(t) ==
    /\ pc[t] = "idle"
    /\ t \in Waiters
    /\ ops[t] < OpsEach
    /\ \E isTimed \in BOOLEAN : timed' = [timed EXCEPT ![t] = isTimed]
    /\ last' = [last EXCEPT ![t] = count]
    /\ timedOut' = [timedOut EXCEPT ![t] = FALSE]
    /\ sawSignal' = [sawSignal EXCEPT ![t] = sigSinceReset]
    /\ cv' = cv \cup {t}
    /\ pc' = [pc EXCEPT ![t] = "blocked"]
    /\ UNCHANGED <<signalled, count, ops, sigSinceReset>>

(* wait() or wait(Timer&): lock, `last = count`, and enter the loop:      *)
(* block, or fall through at once when the event is signalled.            *)
WaitBegin(t) ==
    /\ pc[t] = "idle"
    /\ t \in Waiters
    /\ ops[t] < OpsEach
    /\ \E isTimed \in BOOLEAN : timed' = [timed EXCEPT ![t] = isTimed]
    /\ last' = [last EXCEPT ![t] = count]
    /\ timedOut' = [timedOut EXCEPT ![t] = FALSE]
    /\ sawSignal' = [sawSignal EXCEPT ![t] = sigSinceReset]
    /\ IF signalled
         THEN /\ Return(t)
              /\ UNCHANGED cv
         ELSE /\ cv' = cv \cup {t}
              /\ pc' = [pc EXCEPT ![t] = "blocked"]
              /\ UNCHANGED ops
    /\ UNCHANGED <<signalled, count, sigSinceReset>>

(* Back from the condition wait with the mutex: test the loop again. *)
Recheck(t) ==
    /\ pc[t] = "woken"
    /\ IF MustWait(t)
         THEN /\ cv' = cv \cup {t}
              /\ pc' = [pc EXCEPT ![t] = "blocked"]
              /\ UNCHANGED ops
         ELSE /\ Return(t)
              /\ UNCHANGED cv
    /\ UNCHANGED <<signalled, count, last, timed, timedOut, sigSinceReset, sawSignal>>

(* pthread_cond_timedwait returns ETIMEDOUT into rc. *)
Expire(t) ==
    /\ t \in cv
    /\ timed[t]
    /\ cv' = cv \ {t}
    /\ pc' = [pc EXCEPT ![t] = "woken"]
    /\ timedOut' = [timedOut EXCEPT ![t] = TRUE]
    /\ UNCHANGED <<signalled, count, last, timed, ops, sigSinceReset, sawSignal>>

SpuriousWakeup(t) ==
    /\ t \in cv
    /\ cv' = cv \ {t}
    /\ pc' = [pc EXCEPT ![t] = "woken"]
    /\ UNCHANGED <<signalled, count, last, timed, timedOut, ops, sigSinceReset, sawSignal>>

(* Mutant: signal() with pthread_cond_signal, waking one waiter. *)
SignalOne(t) ==
    /\ pc[t] = "idle"
    /\ t \in Signallers
    /\ ops[t] < OpsEach
    /\ signalled' = TRUE
    /\ count' = count + 1
    /\ \E W \in (IF cv = {} THEN {{}} ELSE {{w} : w \in cv}) :
          /\ cv' = cv \ W
          /\ pc' = [u \in Threads |-> IF u \in W THEN "woken"
                                      ELSE IF u = t THEN "idle" ELSE pc[u]]
    /\ ops' = [ops EXCEPT ![t] = @ + 1]
    /\ sigSinceReset' = TRUE
    /\ sawSignal' = [u \in Threads |-> sawSignal[u] \/ InWait(u)]
    /\ UNCHANGED <<last, timed, timedOut>>

(* signal(): `signalled = true; ++count;` and broadcast. *)
Signal(t) ==
    /\ pc[t] = "idle"
    /\ t \in Signallers
    /\ ops[t] < OpsEach
    /\ signalled' = TRUE
    /\ count' = count + 1
    /\ cv' = {}
    /\ pc' = [u \in Threads |-> IF u \in cv THEN "woken" ELSE pc[u]]
    /\ ops' = [ops EXCEPT ![t] = @ + 1]
    /\ sigSinceReset' = TRUE
    /\ sawSignal' = [u \in Threads |-> sawSignal[u] \/ InWait(u)]
    /\ UNCHANGED <<last, timed, timedOut>>

(* reset(): the code stores `signalled = true`. *)
Reset(t) ==
    /\ pc[t] = "idle"
    /\ t \in Signallers
    /\ ops[t] < OpsEach
    /\ signalled' = TRUE
    /\ ops' = [ops EXCEPT ![t] = @ + 1]
    /\ sigSinceReset' = FALSE
    /\ UNCHANGED <<count, cv, pc, last, timed, timedOut, sawSignal>>

Finish(t) ==
    /\ pc[t] = "idle"
    /\ ops[t] = OpsEach
    /\ pc' = [pc EXCEPT ![t] = "done"]
    /\ UNCHANGED <<signalled, count, cv, last, timed, timedOut, ops, sigSinceReset, sawSignal>>

(* The program stops: every thread is done or waits, without a deadline,  *)
(* for a signal nobody is left to send.                                   *)
Terminated ==
    /\ \A t \in Threads : pc[t] = "done" \/ (t \in cv /\ ~timed[t])
    /\ UNCHANGED vars

LibraryStep(t) == Recheck(t) \/ Expire(t)
CallerStep(t) == WaitBegin(t) \/ Signal(t) \/ Reset(t) \/ Finish(t)

Next ==
    \/ \E t \in Threads : LibraryStep(t) \/ CallerStep(t) \/ SpuriousWakeup(t)
    \/ Terminated

Spec == Init /\ [][Next]_vars

(* Runnable threads are scheduled and deadlines arrive. *)
FairSpec == Spec /\ \A t \in Threads : WF_vars(LibraryStep(t))

-----------------------------------------------------------------------------
(* No waiter sleeps through a signal: a thread still blocked on the       *)
(* condition variable has had no signal() since its wait began.  It is    *)
(* about signal() broadcasting rather than signalling one waiter, and     *)
(* about the loop re-testing after every wake-up.                         *)
NoMissedSignal == \A t \in cv : ~sawSignal[t]

(* Every waiter that a signal() was meant for leaves wait(). *)
SignalledWaitersReturn ==
    \A t \in Waiters : (InWait(t) /\ sawSignal[t]) ~> ~InWait(t)

(* wait() returns true only for a signal() made since the last reset()   *)
(* (spec 4.4: reset() puts `signalled` back, so a later wait blocks until *)
(* the next signal).                                                       *)
WaitReturnsOnlyAfterSignal ==
    [][\A t \in Waiters :
          (ops'[t] > ops[t] /\ ~timedOut'[t]) => sawSignal'[t]]_vars
=============================================================================
