------------------------------- MODULE Thread -------------------------------
(***************************************************************************)
(* ucommon Thread (src/src/thread.cpp, lines 466-594): the life of one    *)
(* Thread object between the thread that owns it and the pthreads its    *)
(* start() creates.  exec_thread() runs in the new pthread: run(), then   *)
(* release() on its own object.  The owner deletes a joinable thread's    *)
(* object (~Thread calls release()); a detached thread's object is meant  *)
(* to delete itself.                                                      *)
(*                                                                         *)
(* The constructor sets only `priority` and `stack`: `running`,           *)
(* `detached` and `tid` are read before anything in src/ writes them, so  *)
(* their first values are a nondeterministic choice (an uninitialised     *)
(* read).  Nothing in src/ ever sets `running` to true.  A tid never set  *)
(* is Garbage, and pthread_cancel/pthread_join of it fail (ESRCH).        *)
(* suspend() is declared outside src/ and changes no state here.          *)
(* setPriority() is kept for the priority it gives the pthread, with its  *)
(* int arithmetic (SchedPriority).                                        *)
(***************************************************************************)
EXTENDS Integers

CONSTANTS
    Starts,        \* start() calls the owner makes
    DetachChoices, \* the `detach` arguments start() may be given
    Priority,      \* Thread::priority, the constructor's unsigned `p`
    PriMin, PriMax,\* sched_get_priority_min/max(SCHED_RR)
    Pris,          \* the unsigned arguments the owner passes to setPriority()
    Width          \* the bits of unsigned and int (32; less for TLC)

ASSUME /\ Starts \in Nat \ {0}
       /\ DetachChoices \subseteq BOOLEAN /\ DetachChoices # {}
       /\ Width \in Nat \ {0}
       /\ Priority \in 0..(2^Width - 1)
       /\ PriMin \in Nat /\ PriMax \in Nat /\ PriMin <= PriMax
       /\ Pris \subseteq 0..(2^Width - 1)

PThreads == 1..Starts    \* the k-th pthread_create of this object
Garbage == 0             \* an uninitialised pthread_t
NoSched == -1            \* no priority has been given to the pthread

(* An unsigned value converted to int (two's complement). *)
ToInt(u) == IF u >= 2^(Width - 1) THEN u - 2^Width ELSE u

(* setPriority(pri)'s `pval`: `(int)pri`, `+= priority` (computed in     *)
(* unsigned arithmetic and stored back in the int), `+= min`, capped at  *)
(* max.  An int overflow of `+= min` is taken to wrap, as gcc's code     *)
(* does.  Nothing bounds it from below.                                  *)
SchedPriority(pri) ==
    LET withPri == ToInt((pri + Priority) % 2^Width)
        withMin == ToInt((withPri + PriMin) % 2^Width)
    IN  IF withMin > PriMax THEN PriMax ELSE withMin

(* setPriority() returns early when `!priority` or `min == max`. *)
SetsPriority == Priority # 0 /\ PriMin # PriMax

VARIABLES
    running,   \* Thread::running
    detached,  \* Thread::detached
    tid,       \* Thread::tid
    object,    \* the Thread object: "live" or "deleted"
    owner,     \* where the owning thread is
    thr,       \* thr[k]: where pthread k is in exec_thread
    cancelled, \* cancelled[k]: pthread_cancel was called on pthread k
    starts,    \* start() calls made
    asked,     \* the owner's last `detach` argument: how it will dispose of it
    sched      \* sched[k]: the priority pthread_setschedparam gave pthread k

vars == <<running, detached, tid, object, owner, thr, cancelled, starts, asked, sched>>

Init ==
    /\ running \in BOOLEAN
    /\ detached \in BOOLEAN
    /\ tid = Garbage
    /\ object = "live"
    /\ owner = "idle"
    /\ thr = [k \in PThreads |-> "none"]
    /\ cancelled = [k \in PThreads |-> FALSE]
    /\ starts = 0
    /\ asked = FALSE
    /\ sched = [k \in PThreads |-> NoSched]

(* pthread k has been created and has not yet left exec_thread. *)
Alive(k) == thr[k] \notin {"none", "exited"}

-----------------------------------------------------------------------------
(* start(detach): `if(running) return;`, `detached = detach;`, the stack  *)
(* size, then pthread_create(&tid, ...) of exec_thread.                   *)
Start(d) ==
    /\ owner = "idle"
    /\ starts < Starts
    /\ starts' = starts + 1
    /\ asked' = d
    /\ IF running
         THEN UNCHANGED <<detached, tid, thr>>
         ELSE /\ detached' = d
              /\ tid' = starts + 1
              /\ thr' = [thr EXCEPT ![starts + 1] = "run"]
    /\ UNCHANGED <<running, object, owner, cancelled, sched>>

(* exec_thread(): setPriority(0), which sets the priority of the pthread *)
(* the member `tid` names (`if(tid != 0)`) whoever started it; run()     *)
(* returns (or reaches a cancellation point after pthread_cancel), then  *)
(* th->release().                                                        *)
Run(k) ==
    /\ thr[k] = "run"
    /\ sched' = IF SetsPriority /\ tid # Garbage
                 THEN [sched EXCEPT ![tid] = SchedPriority(0)] ELSE sched
    /\ thr' = [thr EXCEPT ![k] = IF cancelled[k] THEN "exited" ELSE "release"]
    /\ UNCHANGED <<running, detached, tid, object, owner, cancelled, starts, asked>>

(* release() called by pthread k itself.  `if(running && tid == self)`:   *)
(* `running = false`, then `delete this` when detached (~Thread's release *)
(* finds running false and does nothing more), otherwise suspend() and    *)
(* pthread_testcancel(); pthread_exit.  Otherwise `if(!detached)`:        *)
(* suspend(), and `if(running)` cancel and join `tid`, which is not k     *)
(* here; the pthread then returns from exec_thread.                       *)
SelfRelease(k) ==
    /\ thr[k] = "release"
    /\ IF running /\ tid = k
         THEN /\ running' = FALSE
              /\ object' = IF detached THEN "deleted" ELSE object
              /\ thr' = [thr EXCEPT ![k] = "exited"]
              /\ UNCHANGED cancelled
         ELSE IF ~detached /\ running
                THEN /\ cancelled' = IF tid = Garbage THEN cancelled
                                     ELSE [cancelled EXCEPT ![tid] = TRUE]
                     /\ thr' = [thr EXCEPT ![k] = "joining"]
                     /\ UNCHANGED <<running, object>>
                ELSE /\ thr' = [thr EXCEPT ![k] = "exited"]
                     /\ UNCHANGED <<running, object, cancelled>>
    /\ UNCHANGED <<detached, tid, owner, starts, asked, sched>>

(* pthread_join(tid) from release(): it returns once that pthread has     *)
(* exited, or at once with an error for a Garbage tid; on success         *)
(* `running = false`.                                                     *)
JoinDone ==
    /\ IF tid = Garbage
         THEN UNCHANGED running
         ELSE /\ ~Alive(tid)
              /\ running' = FALSE

SelfJoin(k) ==
    /\ thr[k] = "joining"
    /\ JoinDone
    /\ thr' = [thr EXCEPT ![k] = "exited"]
    /\ UNCHANGED <<detached, tid, object, owner, cancelled, starts, asked, sched>>

(* `delete th` by the owner, for a thread it started joinable: ~Thread()  *)
(* calls release(), where the owner is not `tid`: `if(!detached)`         *)
(* suspend(), and `if(running)` pthread_cancel(tid) and pthread_join.     *)
Delete ==
    /\ owner = "idle"
    /\ starts > 0 /\ ~asked
    /\ IF ~detached /\ running
         THEN /\ cancelled' = IF tid = Garbage THEN cancelled
                              ELSE [cancelled EXCEPT ![tid] = TRUE]
              /\ owner' = "joining"
              /\ UNCHANGED object
         ELSE /\ object' = "deleted"
              /\ owner' = "done"
              /\ UNCHANGED cancelled
    /\ UNCHANGED <<running, detached, tid, thr, starts, asked, sched>>

(* The owner's pthread_join returns; the destructor then frees the object. *)
DeleteJoined ==
    /\ owner = "joining"
    /\ JoinDone
    /\ object' = "deleted"
    /\ owner' = "done"
    /\ UNCHANGED <<detached, tid, thr, cancelled, starts, asked, sched>>

(* setPriority(pri) called by the owner on its live object. *)
SetPriority(pri) ==
    /\ owner = "idle"
    /\ SetsPriority /\ tid # Garbage
    /\ sched' = [sched EXCEPT ![tid] = SchedPriority(pri)]
    /\ UNCHANGED <<running, detached, tid, object, owner, thr, cancelled, starts, asked>>

(* A thread started detached is not deleted by its owner, which just      *)
(* stops using it.                                                        *)
Abandon ==
    /\ owner = "idle"
    /\ starts > 0 /\ asked
    /\ owner' = "done"
    /\ UNCHANGED <<running, detached, tid, object, thr, cancelled, starts, asked, sched>>

Terminated ==
    /\ owner = "done"
    /\ \A k \in PThreads : ~Alive(k)
    /\ UNCHANGED vars

Next ==
    \/ \E d \in DetachChoices : Start(d)
    \/ Delete \/ DeleteJoined \/ Abandon
    \/ \E pri \in Pris : SetPriority(pri)
    \/ \E k \in PThreads : Run(k) \/ SelfRelease(k) \/ SelfJoin(k)
    \/ Terminated

Spec == Init /\ [][Next]_vars

-----------------------------------------------------------------------------
TypeOK ==
    /\ running \in BOOLEAN /\ detached \in BOOLEAN
    /\ tid \in PThreads \cup {Garbage}
    /\ object \in {"live", "deleted"}
    /\ owner \in {"idle", "joining", "done"}
    /\ thr \in [PThreads -> {"none", "run", "release", "joining", "exited"}]
    /\ cancelled \in [PThreads -> BOOLEAN]
    /\ starts \in 0..Starts
    /\ asked \in BOOLEAN
    /\ sched \in [PThreads -> Int]

(* The Thread object outlives every pthread running exec_thread on it     *)
(* (condition.h: "Joinable threads will be joined when deleted"; detached *)
(* ones "automatically delete when the thread context exits").  It is    *)
(* about ~Thread's release() deciding from `running` whether to join.    *)
ObjectOutlivesThreads ==
    object = "deleted" => \A k \in PThreads : ~Alive(k)

(* Every priority setPriority() hands to pthread_setschedparam or        *)
(* pthread_setschedprio lies in [min, max]; outside it the call fails    *)
(* with EINVAL and `assert(rc == 0)` aborts.  It is about the `(int)pri` *)
(* conversion and the unsigned `+= priority` of setPriority().           *)
SchedInRange ==
    \A k \in PThreads : sched[k] = NoSched \/ sched[k] \in PriMin..PriMax

=============================================================================
