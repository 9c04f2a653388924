------------------------- MODULE ConditionalAccess -------------------------
(***************************************************************************)
(* ucommon ConditionalAccess (accesslock_t), the reader/writer lock with  *)
(* writer priority declared in src/inc/ucommon/condition.h.  The header   *)
(* gives its state (`pending`, `waiting`, `sharing`, the mutex, `cond`    *)
(* for writers and `bcast` for readers) and the inline primitives on it   *)
(* (lock, unlock, waitSignal, waitBroadcast, signal, broadcast).  The     *)
(* bodies of access(), release(), modify() and commit() are not in the    *)
(* repository; they are taken from the spec (section 4.2, UpgradeableLock) *)
(* and built from those primitives:                                       *)
(*   access   lock; while pending: ++waiting, waitBroadcast, --waiting;   *)
(*            ++sharing; unlock                                           *)
(*   release  lock; --sharing; at zero, signal a pending writer, else     *)
(*            broadcast to readers; unlock                                *)
(*   modify   lock; while sharing: ++pending, waitSignal, --pending;      *)
(*            return holding the mutex (the exclusive state)             *)
(*   commit   wake waiting readers and writers; unlock                    *)
(*                                                                         *)
(* One step is one region run under the mutex.  `cond` and `bcast` are    *)
(* the sets of threads blocked on each condition variable; a thread that  *)
(* has been woken and not yet retaken the mutex is in neither.            *)
(* limit_sharing() is declared, but the header keeps no field for the     *)
(* maximum it sets, so it is left out.                                    *)
(***************************************************************************)
EXTENDS Naturals, FiniteSets

CONSTANTS
    Readers,      \* threads that call access() and release()
    Writers,      \* threads that call modify() and commit()
    RoundsEach,   \* lock/unlock pairs each thread makes
    Spurious,     \* whether condition waits may wake with no signal
    NoThread      \* the mutex is free

ASSUME /\ Readers \cap Writers = {} /\ NoThread \notin Readers \cup Writers
       /\ RoundsEach \in Nat /\ Spurious \in BOOLEAN

Threads == Readers \cup Writers

VARIABLES
    mutex,    \* the thread holding the mutex
    pending,  \* ConditionalAccess::pending: writers waiting in modify()
    waiting,  \* ConditionalAccess::waiting: readers waiting in access()
    sharing,  \* ConditionalAccess::sharing: readers holding the lock
    cond,     \* threads blocked on `cond` (waitSignal)
    bcast,    \* threads blocked on `bcast` (waitBroadcast)
    pc,       \* where each thread is
    rounds    \* lock/unlock pairs each thread has finished

vars == <<mutex, pending, waiting, sharing, cond, bcast, pc, rounds>>

(* ConditionalAccess(): everything free and zero. *)
Init ==
    /\ mutex = NoThread
    /\ pending = 0 /\ waiting = 0 /\ sharing = 0
    /\ cond = {} /\ bcast = {}
    /\ pc = [t \in Threads |-> "idle"]
    /\ rounds = [t \in Threads |-> 0]

(* lock(): pthread_mutex_lock, which the caller can take when it is free. *)
MutexFree == mutex = NoThread

(* waitSignal() and waitBroadcast(): pthread_cond_wait on `cond` or       *)
(* `bcast`, which releases the mutex while the thread is blocked.         *)
WaitSignal(t) == cond' = cond \cup {t} /\ mutex' = NoThread
WaitBroadcast(t) == bcast' = bcast \cup {t} /\ mutex' = NoThread

(* signal(): pthread_cond_signal on `cond` wakes one writer, if any. *)
Signal == \E w \in (IF cond = {} THEN {{}} ELSE {{x} : x \in cond}) :
              cond' = cond \ w

(* broadcast(): pthread_cond_broadcast on `bcast` wakes every reader. *)
Broadcast == bcast' = {}

-----------------------------------------------------------------------------
(* access(), up to its first `pending` test: share at once, or count      *)
(* oneself in `waiting` and block on `bcast`.                             *)
Access(t) ==
    /\ t \in Readers /\ pc[t] = "idle" /\ rounds[t] < RoundsEach
    /\ MutexFree
    /\ IF pending > 0
         THEN /\ waiting' = waiting + 1 /\ WaitBroadcast(t)
              /\ pc' = [pc EXCEPT ![t] = "acc_wait"]
              /\ UNCHANGED sharing
         ELSE /\ sharing' = sharing + 1
              /\ pc' = [pc EXCEPT ![t] = "shared"]
              /\ UNCHANGED <<waiting, bcast, mutex>>
    /\ UNCHANGED <<pending, cond, rounds>>

(* Mutant: the woken reader that gets the lock forgets `--waiting`. *)
AccessWakeKeepsWaiting(t) ==
    /\ pc[t] = "acc_wait" /\ t \notin bcast
    /\ MutexFree
    /\ IF pending > 0
         THEN /\ WaitBroadcast(t)
              /\ UNCHANGED <<waiting, sharing, pc>>
         ELSE /\ sharing' = sharing + 1
              /\ pc' = [pc EXCEPT ![t] = "shared"]
              /\ UNCHANGED <<bcast, mutex, waiting>>
    /\ UNCHANGED <<pending, cond, rounds>>

(* A reader woken from `bcast` retakes the mutex, `--waiting`, and tests  *)
(* `pending` again.                                                      *)
AccessWake(t) ==
    /\ pc[t] = "acc_wait" /\ t \notin bcast
    /\ MutexFree
    /\ IF pending > 0
         THEN /\ WaitBroadcast(t)
              /\ UNCHANGED <<waiting, sharing, pc>>
         ELSE /\ waiting' = waiting - 1 /\ sharing' = sharing + 1
              /\ pc' = [pc EXCEPT ![t] = "shared"]
              /\ UNCHANGED <<bcast, mutex>>
    /\ UNCHANGED <<pending, cond, rounds>>

(* Mutant: the last reader out broadcasts and never signals a writer. *)
ReleaseNoSignal(t) ==
    /\ pc[t] = "shared"
    /\ MutexFree
    /\ sharing' = sharing - 1
    /\ IF sharing = 1 THEN Broadcast /\ UNCHANGED cond
                       ELSE UNCHANGED <<cond, bcast>>
    /\ pc' = [pc EXCEPT ![t] = "idle"]
    /\ rounds' = [rounds EXCEPT ![t] = @ + 1]
    /\ UNCHANGED <<mutex, pending, waiting>>

(* release(): `--sharing`; the last reader out signals a pending writer,  *)
(* or else broadcasts to waiting readers.                                 *)
Release(t) ==
    /\ pc[t] = "shared"
    /\ MutexFree
    /\ sharing' = sharing - 1
    /\ IF sharing = 1
         THEN IF pending > 0 THEN Signal /\ UNCHANGED bcast
                             ELSE Broadcast /\ UNCHANGED cond
         ELSE UNCHANGED <<cond, bcast>>
    /\ pc' = [pc EXCEPT ![t] = "idle"]
    /\ rounds' = [rounds EXCEPT ![t] = @ + 1]
    /\ UNCHANGED <<mutex, pending, waiting>>

(* Mutant: modify() takes the lock without testing `sharing`. *)
ModifyNoTest(t) ==
    /\ t \in Writers /\ pc[t] = "idle" /\ rounds[t] < RoundsEach
    /\ MutexFree
    /\ mutex' = t
    /\ pc' = [pc EXCEPT ![t] = "exclusive"]
    /\ UNCHANGED <<pending, cond, waiting, sharing, bcast, rounds>>

(* modify(), up to its first `sharing` test: keep the mutex when no       *)
(* reader holds the lock, or count oneself in `pending` and block on      *)
(* `cond`.                                                                *)
Modify(t) ==
    /\ t \in Writers /\ pc[t] = "idle" /\ rounds[t] < RoundsEach
    /\ MutexFree
    /\ IF sharing > 0
         THEN /\ pending' = pending + 1 /\ WaitSignal(t)
              /\ pc' = [pc EXCEPT ![t] = "mod_wait"]
         ELSE /\ mutex' = t
              /\ pc' = [pc EXCEPT ![t] = "exclusive"]
              /\ UNCHANGED <<pending, cond>>
    /\ UNCHANGED <<waiting, sharing, bcast, rounds>>

(* A writer woken from `cond` retakes the mutex, `--pending`, and tests   *)
(* `sharing` again.                                                      *)
ModifyWake(t) ==
    /\ pc[t] = "mod_wait" /\ t \notin cond
    /\ MutexFree
    /\ IF sharing > 0
         THEN /\ WaitSignal(t)
              /\ UNCHANGED <<pending, pc>>
         ELSE /\ pending' = pending - 1
              /\ mutex' = t
              /\ pc' = [pc EXCEPT ![t] = "exclusive"]
              /\ UNCHANGED cond
    /\ UNCHANGED <<waiting, sharing, bcast, rounds>>

(* Mutant: commit() wakes the writers only. *)
CommitNoBroadcast(t) ==
    /\ pc[t] = "exclusive"
    /\ cond' = {}
    /\ mutex' = NoThread
    /\ pc' = [pc EXCEPT ![t] = "idle"]
    /\ rounds' = [rounds EXCEPT ![t] = @ + 1]
    /\ UNCHANGED <<pending, waiting, sharing, bcast>>

(* commit(): wake the waiting readers and writers, then unlock. *)
Commit(t) ==
    /\ pc[t] = "exclusive"
    /\ cond' = {} /\ Broadcast
    /\ mutex' = NoThread
    /\ pc' = [pc EXCEPT ![t] = "idle"]
    /\ rounds' = [rounds EXCEPT ![t] = @ + 1]
    /\ UNCHANGED <<pending, waiting, sharing>>

(* A condition wait that returns with no signal. *)
SpuriousWakeup(t) ==
    /\ Spurious
    /\ t \in cond \cup bcast
    /\ cond' = cond \ {t} /\ bcast' = bcast \ {t}
    /\ UNCHANGED <<mutex, pending, waiting, sharing, pc, rounds>>

Terminated ==
    /\ \A t \in Threads : pc[t] = "idle" /\ rounds[t] = RoundsEach
    /\ UNCHANGED vars

Next ==
    \/ \E t \in Threads :
          \/ Access(t) \/ AccessWake(t) \/ Release(t)
          \/ Modify(t) \/ ModifyWake(t) \/ Commit(t)
          \/ SpuriousWakeup(t)
    \/ Terminated

Spec == Init /\ [][Next]_vars

(* A woken thread retakes the mutex only when it is free, which other     *)
(* threads keep taking: that needs strong fairness.  A holder eventually  *)
(* releases or commits.  Starting a new round is the caller's choice, and *)
(* spurious wake-ups are never forced.                                    *)
FairSpec ==
    /\ Spec
    /\ \A t \in Threads :
          /\ SF_vars(AccessWake(t)) /\ SF_vars(ModifyWake(t))
          /\ SF_vars(Release(t)) /\ WF_vars(Commit(t))

-----------------------------------------------------------------------------
TypeOK ==
    /\ mutex \in Writers \cup {NoThread}
    /\ pending \in 0..Cardinality(Writers)
    /\ waiting \in 0..Cardinality(Readers)
    /\ sharing \in 0..Cardinality(Readers)
    /\ cond \subseteq Writers /\ bcast \subseteq Readers
    /\ pc \in [Threads -> {"idle", "acc_wait", "shared", "mod_wait", "exclusive"}]
    /\ rounds \in [Threads -> 0..RoundsEach]

(* The lock behaves as AccessLockSpec: threads share it or one holds it   *)
(* exclusively, never both.  It is about modify() testing `sharing` and   *)
(* access() waiting on `pending` under the one mutex, with the counters   *)
(* kept by different threads across condition waits.                      *)
Abstract == INSTANCE AccessLockSpec WITH
    shared <- {t \in Readers : pc[t] = "shared"},
    exclusive <- IF \E t \in Writers : pc[t] = "exclusive"
                   THEN CHOOSE t \in Writers : pc[t] = "exclusive"
                   ELSE NoThread

ImplementsAccessLockSpec == Abstract!Spec

(* A writer blocked in modify() eventually holds the lock exclusively:    *)
(* the last release() must signal it, and readers arriving meanwhile must *)
(* wait behind `pending` (writer priority).                               *)
WriterEventuallyModifies ==
    \A t \in Writers : pc[t] = "mod_wait" ~> pc[t] = "exclusive"

(* A reader blocked in access() eventually shares the lock: commit() must *)
(* wake it, and no wake-up may be lost between the counters and `bcast`. *)
ReaderEventuallyAccesses ==
    \A t \in Readers : pc[t] = "acc_wait" ~> pc[t] = "shared"
=============================================================================
