-------------------------------- MODULE Locks --------------------------------
(***************************************************************************)
(* ucommon's thin lock wrappers (src/src/thread.cpp, lines 17-21 and      *)
(* 309-464): Mutex, Spinlock, Barrier and Threadlock, one object of each  *)
(* shared by the threads.  Each operation is one pthread call, so the     *)
(* model is that call's glibc behaviour; a call that would block is an    *)
(* action that is not enabled until it can complete.                      *)
(*                                                                         *)
(* Mutex::attr is a static object whose constructor makes the attribute   *)
(* PTHREAD_MUTEX_RECURSIVE.  A Mutex with static storage in another file  *)
(* can be constructed before it, from the zeroed attribute, which glibc   *)
(* reads as a normal mutex: MutexKinds is the kinds a build can produce.  *)
(***************************************************************************)
EXTENDS Naturals, FiniteSets

CONSTANTS
    Threads,       \* threads using the objects
    BarrierCount,  \* Barrier(count)
    MutexKinds,    \* the kinds pthread_mutex_init may be given
    MaxHolds,      \* bound on the Mutex's depth and the read locks held
    NoThread       \* no owner

ASSUME /\ NoThread \notin Threads
       /\ BarrierCount \in Nat \ {0}
       /\ MaxHolds \in Nat \ {0}
       /\ MutexKinds \subseteq {"recursive", "normal"} /\ MutexKinds # {}

VARIABLES
    kind,      \* the type the Mutex was initialised with
    owner,     \* the Mutex's owner
    depth,     \* how many times the owner has locked the Mutex
    spin,      \* the Spinlock's holder
    waiting,   \* the threads blocked in Barrier::wait
    writer,    \* the Threadlock's write holder
    readers,   \* the number of Threadlock read locks held (glibc counts them)
    pc         \* "idle", or "barrier" while in Barrier::wait

vars == <<kind, owner, depth, spin, waiting, writer, readers, pc>>

(* Mutex(): pthread_mutex_init with Mutex::attr. *)
MutexInit == kind \in MutexKinds /\ owner = NoThread /\ depth = 0

(* Spinlock(): pthread_spin_init. *)
SpinInit == spin = NoThread

(* Barrier(count): pthread_barrier_init(count); no thread waits. *)
BarrierInit == waiting = {}

(* Threadlock(): pthread_rwlock_init with default attributes. *)
ThreadlockInit == writer = NoThread /\ readers = 0

Init ==
    /\ MutexInit /\ SpinInit /\ BarrierInit /\ ThreadlockInit
    /\ pc = [t \in Threads |-> "idle"]

Idle(t) == pc[t] = "idle"

-----------------------------------------------------------------------------
(* Mutex::Exlock(): pthread_mutex_lock.  A recursive mutex counts the     *)
(* owner's relocks; a normal one deadlocks its owner, so the action is    *)
(* not enabled for it.                                                    *)
MutexExlock(t) ==
    /\ Idle(t)
    /\ \/ owner = NoThread /\ owner' = t /\ depth' = 1
       \/ owner = t /\ kind = "recursive" /\ depth < MaxHolds
          /\ depth' = depth + 1
          /\ UNCHANGED owner
    /\ UNCHANGED <<kind, spin, waiting, writer, readers, pc>>

(* Mutex::Unlock(): pthread_mutex_unlock.  A recursive mutex refuses a    *)
(* thread that is not the owner (EPERM, ignored); a normal one is freed   *)
(* whoever calls.                                                         *)
MutexUnlock(t) ==
    /\ Idle(t)
    /\ IF kind = "recursive"
         THEN IF owner = t
                THEN /\ depth' = depth - 1
                     /\ owner' = IF depth = 1 THEN NoThread ELSE owner
                ELSE UNCHANGED <<owner, depth>>
         ELSE /\ owner # NoThread
              /\ owner' = NoThread /\ depth' = 0
    /\ UNCHANGED <<kind, spin, waiting, writer, readers, pc>>

(* Spinlock::Exlock(): pthread_spin_lock, which spins while the lock is   *)
(* held, by its caller too.                                               *)
SpinExlock(t) ==
    /\ Idle(t)
    /\ spin = NoThread
    /\ spin' = t
    /\ UNCHANGED <<kind, owner, depth, waiting, writer, readers, pc>>

(* Spinlock::Unlock(): pthread_spin_unlock stores "unlocked", whoever     *)
(* calls.                                                                 *)
SpinUnlock(t) ==
    /\ Idle(t)
    /\ spin # NoThread
    /\ spin' = NoThread
    /\ UNCHANGED <<kind, owner, depth, waiting, writer, readers, pc>>

(* Spinlock::operator!(): pthread_spin_trylock; it answers true when the  *)
(* lock is held, and when it is free it takes it and answers false.       *)
SpinTest(t) ==
    /\ Idle(t)
    /\ spin' = IF spin = NoThread THEN t ELSE spin
    /\ UNCHANGED <<kind, owner, depth, waiting, writer, readers, pc>>

(* Barrier::wait(): pthread_barrier_wait.  The count-th arrival releases  *)
(* every waiter and the barrier starts over.                              *)
BarrierWait(t) ==
    /\ Idle(t)
    /\ IF Cardinality(waiting) + 1 = BarrierCount
         THEN /\ waiting' = {}
              /\ pc' = [u \in Threads |-> IF u \in waiting THEN "idle" ELSE pc[u]]
         ELSE /\ waiting' = waiting \cup {t}
              /\ pc' = [pc EXCEPT ![t] = "barrier"]
    /\ UNCHANGED <<kind, owner, depth, spin, writer, readers>>

(* Threadlock::Shlock(): pthread_rwlock_rdlock.  The default attributes   *)
(* prefer readers: a read lock is granted whenever no writer holds it.    *)
ThreadShlock(t) ==
    /\ Idle(t)
    /\ writer = NoThread /\ readers < MaxHolds
    /\ readers' = readers + 1
    /\ UNCHANGED <<kind, owner, depth, spin, waiting, writer, pc>>

(* Threadlock::Exlock(): pthread_rwlock_wrlock, granted with no holder. *)
ThreadExlock(t) ==
    /\ Idle(t)
    /\ writer = NoThread /\ readers = 0
    /\ writer' = t
    /\ UNCHANGED <<kind, owner, depth, spin, waiting, readers, pc>>

(* Threadlock::Unlock(): pthread_rwlock_unlock gives up the write lock    *)
(* when the caller holds it, and otherwise one read lock.                 *)
ThreadUnlock(t) ==
    /\ Idle(t)
    /\ IF writer = t
         THEN writer' = NoThread /\ UNCHANGED readers
         ELSE readers > 0 /\ readers' = readers - 1 /\ UNCHANGED writer
    /\ UNCHANGED <<kind, owner, depth, spin, waiting, pc>>

Next ==
    \E t \in Threads :
        \/ MutexExlock(t) \/ MutexUnlock(t)
        \/ SpinExlock(t) \/ SpinUnlock(t) \/ SpinTest(t)
        \/ BarrierWait(t)
        \/ ThreadShlock(t) \/ ThreadExlock(t) \/ ThreadUnlock(t)

Spec == Init /\ [][Next]_vars

-----------------------------------------------------------------------------
TypeOK ==
    /\ kind \in MutexKinds
    /\ owner \in Threads \cup {NoThread} /\ depth \in Nat
    /\ spin \in Threads \cup {NoThread}
    /\ waiting \subseteq Threads /\ Cardinality(waiting) < BarrierCount
    /\ writer \in Threads \cup {NoThread} /\ readers \in Nat
    /\ pc \in [Threads -> {"idle", "barrier"}]
=============================================================================
