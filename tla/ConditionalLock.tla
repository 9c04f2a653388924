-------------------------- MODULE ConditionalLock --------------------------
(***************************************************************************)
(* ucommon ConditionalLock (condlock_t), declared in                      *)
(* src/inc/ucommon/condition.h: a ConditionalAccess whose sharers may     *)
(* upgrade to exclusive access with exclusive() and go back with share(), *)
(* counting nested pairs in their per-thread Context.  The bodies are not *)
(* in the repository; this follows the spec (section 4.2):                *)
(*   exclusive  a thread holding shared access blocks until it is the     *)
(*              only sharer (sharing == 1), then becomes the exclusive    *)
(*              holder, keeping its Context count;                        *)
(*   share      reverses this; only the outermost of nested pairs         *)
(*              changes the mode.                                         *)
(* The wait is built as modify() builds its own: `++pending`, waitSignal, *)
(* `--pending`, so readers arriving meanwhile wait (writer priority).     *)
(* Leaving exclusive access wakes waiters on both conditions, as commit() *)
(* does.  access(), release(), modify() and commit() are those of         *)
(* ConditionalAccess.                                                     *)
(***************************************************************************)
EXTENDS ConditionalAccess

CONSTANTS
    Upgraders,    \* readers that call exclusive()/share() while sharing
    MaxNesting    \* bound on nested exclusive() calls

ASSUME Upgraders \subseteq Readers /\ MaxNesting \in Nat \ {0}

VARIABLE
    depth   \* Context::count: nested exclusive() calls of each thread

lockVars == <<vars, depth>>

(* ConditionalLock(): a ConditionalAccess and no Context yet. *)
LockInit == Init /\ depth = [t \in Threads |-> 0]

(* exclusive() by a sharer: become the exclusive holder at once when it   *)
(* is the only sharer, or count itself in `pending` and block on `cond`.  *)
Exclusive(t) ==
    /\ t \in Upgraders /\ pc[t] = "shared"
    /\ MutexFree
    /\ IF sharing = 1
         THEN /\ sharing' = 0 /\ mutex' = t
              /\ pc' = [pc EXCEPT ![t] = "upgraded"]
              /\ UNCHANGED <<pending, cond>>
         ELSE /\ pending' = pending + 1 /\ WaitSignal(t)
              /\ pc' = [pc EXCEPT ![t] = "upg_wait"]
              /\ UNCHANGED sharing
    /\ depth' = [depth EXCEPT ![t] = 1]
    /\ UNCHANGED <<waiting, bcast, rounds>>

(* The upgrader woken from `cond` retakes the mutex and tests whether it  *)
(* is the only sharer again.                                              *)
ExclusiveWake(t) ==
    /\ pc[t] = "upg_wait" /\ t \notin cond
    /\ MutexFree
    /\ IF sharing = 1
         THEN /\ pending' = pending - 1 /\ sharing' = 0 /\ mutex' = t
              /\ pc' = [pc EXCEPT ![t] = "upgraded"]
              /\ UNCHANGED cond
         ELSE /\ WaitSignal(t)
              /\ UNCHANGED <<pending, sharing, pc>>
    /\ UNCHANGED <<waiting, bcast, rounds, depth>>

(* A nested exclusive() by the holder only counts in its Context. *)
ExclusiveAgain(t) ==
    /\ pc[t] = "upgraded" /\ depth[t] < MaxNesting
    /\ depth' = [depth EXCEPT ![t] = @ + 1]
    /\ UNCHANGED vars

(* share(): the outermost one makes the holder a sharer again and wakes   *)
(* the waiting readers and writers; an inner one only counts down.        *)
Share(t) ==
    /\ pc[t] = "upgraded"
    /\ depth' = [depth EXCEPT ![t] = @ - 1]
    /\ IF depth[t] = 1
         THEN /\ sharing' = 1 /\ cond' = {} /\ Broadcast
              /\ mutex' = NoThread
              /\ pc' = [pc EXCEPT ![t] = "shared"]
         ELSE UNCHANGED vars
    /\ UNCHANGED <<pending, waiting, rounds>>

LockNext ==
    \/ Next /\ UNCHANGED depth
    \/ \E t \in Upgraders :
          Exclusive(t) \/ ExclusiveWake(t) \/ ExclusiveAgain(t) \/ Share(t)

LockSpec == LockInit /\ [][LockNext]_lockVars

(* ConditionalAccess's fairness, and the same for the upgrade: a woken    *)
(* upgrader eventually retakes the mutex, a holder eventually calls       *)
(* share().                                                               *)
LockFairSpec ==
    /\ LockSpec
    /\ \A t \in Threads :
          /\ SF_lockVars(AccessWake(t) /\ UNCHANGED depth)
          /\ SF_lockVars(ModifyWake(t) /\ UNCHANGED depth)
          /\ SF_lockVars(Release(t) /\ UNCHANGED depth)
          /\ WF_lockVars(Commit(t) /\ UNCHANGED depth)
    /\ \A t \in Upgraders :
          SF_lockVars(ExclusiveWake(t)) /\ WF_lockVars(Share(t))

-----------------------------------------------------------------------------
LockTypeOK ==
    /\ mutex \in Writers \cup Upgraders \cup {NoThread}
    /\ pending \in 0..Cardinality(Writers \cup Upgraders)
    /\ waiting \in 0..Cardinality(Readers)
    /\ sharing \in 0..Cardinality(Readers)
    /\ cond \subseteq Writers \cup Upgraders /\ bcast \subseteq Readers
    /\ pc \in [Threads -> {"idle", "acc_wait", "shared", "mod_wait",
                           "exclusive", "upg_wait", "upgraded"}]
    /\ rounds \in [Threads -> 0..RoundsEach]
    /\ depth \in [Threads -> 0..MaxNesting]

(* The lock with upgrades behaves as AccessLockSpec: an upgrader keeps    *)
(* its shared access while it waits, and no writer gets in between its    *)
(* shared and its exclusive access.  It is about exclusive() testing      *)
(* `sharing` and share() restoring it under the mutex that modify() and   *)
(* access() also take.                                                    *)
UpgradeAbstract == INSTANCE AccessLockSpec WITH
    shared <- {t \in Readers : pc[t] \in {"shared", "upg_wait"}},
    exclusive <- IF \E t \in Threads : pc[t] \in {"exclusive", "upgraded"}
                   THEN CHOOSE t \in Threads : pc[t] \in {"exclusive", "upgraded"}
                   ELSE NoThread

ImplementsUpgradeLockSpec == UpgradeAbstract!Spec

(* A sharer blocked in exclusive() eventually holds the lock exclusively: *)
(* the release() that leaves it the only sharer must wake it.             *)
UpgraderEventuallyExclusive ==
    \A t \in Upgraders : pc[t] = "upg_wait" ~> pc[t] = "upgraded"
=============================================================================
