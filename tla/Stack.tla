------------------------------- MODULE Stack -------------------------------
(***************************************************************************)
(* ucommon Stack (src/src/thread.cpp, lines 720-817): a bounded LIFO list  *)
(* of retained objects guarded by the Conditional it inherits.             *)
(*                                                                         *)
(*   items  the members of `usedlist`, top first                           *)
(*   used   Stack::used                                                    *)
(*                                                                         *)
(* Producers call push(); consumers call pull().  As in Queue, a step is   *)
(* one stretch of code between points where another thread can matter,    *)
(* and push() links the new member (at the front of `usedlist`, by the     *)
(* member constructor) after Unlock(); its Lock() is Exlock().             *)
(***************************************************************************)
EXTENDS Conditional, Sequences, FiniteSets

CONSTANTS
    Producers,    \* threads calling push()
    Consumers,    \* threads calling pull()
    PushesEach,   \* objects each producer pushes
    CallsEach,    \* calls each consumer makes
    PullOps,      \* the calls consumers make, a subset of {"pull", "remove", "count"}
    Limit,        \* Stack::limit, 0 = unbounded
    Timeouts,     \* the timeouts callers pass: FALSE = 0 (forever), TRUE = finite
    Spurious      \* whether condition waits may wake spuriously

ASSUME /\ Threads = Producers \cup Consumers
       /\ Producers \cap Consumers = {}
       /\ PushesEach \in Nat /\ CallsEach \in Nat /\ Limit \in Nat
       /\ Timeouts \subseteq BOOLEAN /\ Timeouts # {}
       /\ PullOps \subseteq {"pull", "remove", "count"} /\ PullOps # {}
       /\ Spurious \in BOOLEAN

Objects == Producers \X (1..PushesEach)
NoObject == <<>>   \* the NULL pull() returns

VARIABLES
    items,      \* the objects on `usedlist`, top first
    used,       \* Stack::used
    pc,         \* where each thread is in the Stack method it runs
    done,       \* done[t]: calls t has completed
    pulled      \* the objects pull() returned, in order

sVars == <<items, used, pc, done, pulled>>
vars == <<condVars, sVars>>

StackPCs == {"idle", "push_check", "push_wait", "push_inc", "push_link",
             "push_lock", "push_signal", "pull_wait", "pull_take", "rm_scan", "finished"}

Init ==
    /\ CondInit
    /\ items = <<>>
    /\ used = 0
    /\ pc = [t \in Threads |-> "idle"]
    /\ done = [t \in Threads |-> 0]
    /\ pulled = <<>>

-----------------------------------------------------------------------------
(* push(object, timeout): Exlock(). *)
PushBegin(p) ==
    /\ pc[p] = "idle"
    /\ done[p] < PushesEach
    /\ Exlock(p)
    /\ pc' = [pc EXCEPT ![p] = "push_check"]
    /\ UNCHANGED <<items, used, done, pulled>>

(* `while(limit && used == limit)`: wait for room, or go on. *)
PushCheck(p) ==
    /\ pc[p] = "push_check"
    /\ IF Limit # 0 /\ used = Limit
         THEN /\ \E tmo \in Timeouts : WaitBegin(p, tmo)
              /\ pc' = [pc EXCEPT ![p] = "push_wait"]
         ELSE /\ pc' = [pc EXCEPT ![p] = "push_inc"]
              /\ UNCHANGED condVars
    /\ UNCHANGED <<items, used, done, pulled>>

(* `if(!Conditional::wait(timeout)) { Unlock(); return false; }` *)
PushWaited(p) ==
    /\ pc[p] = "push_wait"
    /\ cw[p] = "returned"
    /\ IF rc[p]
         THEN /\ pc' = [pc EXCEPT ![p] = "push_check"]
              /\ UNCHANGED <<mutex, locked, locker, done>>
         ELSE /\ UnlockOp
              /\ pc' = [pc EXCEPT ![p] = "idle"]
              /\ done' = [done EXCEPT ![p] = @ + 1]
    /\ cw' = [cw EXCEPT ![p] = "out"]
    /\ UNCHANGED <<cv, timed, rc, items, used, pulled>>

(* `++used`, take a node off the freelist (or not), Unlock(). *)
PushInc(p) ==
    /\ pc[p] = "push_inc"
    /\ used' = used + 1
    /\ Unlock
    /\ pc' = [pc EXCEPT ![p] = "push_link"]
    /\ UNCHANGED <<items, done, pulled>>

(* `member(this, object)`: retain the object and link the member at the  *)
(* front of `usedlist`, with the mutex released.                          *)
PushLink(p) ==
    /\ pc[p] = "push_link"
    /\ items' = <<<<p, done[p] + 1>>>> \o items
    /\ pc' = [pc EXCEPT ![p] = "push_lock"]
    /\ UNCHANGED <<condVars, used, done, pulled>>

(* Lock(). *)
PushLock(p) ==
    /\ pc[p] = "push_lock"
    /\ Exlock(p)
    /\ pc' = [pc EXCEPT ![p] = "push_signal"]
    /\ UNCHANGED <<items, used, done, pulled>>

(* `Conditional::signal(false); Unlock(); return true;` *)
PushSignal(p) ==
    /\ pc[p] = "push_signal"
    /\ SignalUnlock
    /\ pc' = [pc EXCEPT ![p] = "idle"]
    /\ done' = [done EXCEPT ![p] = @ + 1]
    /\ UNCHANGED <<items, used, pulled>>

(* pull(timeout): Exlock(), then Conditional::wait at once. *)
PullBegin(c) ==
    /\ pc[c] = "idle"
    /\ done[c] < CallsEach
    /\ "pull" \in PullOps
    /\ mutex = NoThread
    /\ \E tmo \in Timeouts : timed' = [timed EXCEPT ![c] = tmo]
    /\ locked' = TRUE
    /\ locker' = c
    /\ cv' = cv \cup {c}
    /\ cw' = [cw EXCEPT ![c] = "blocked"]
    /\ rc' = [rc EXCEPT ![c] = TRUE]
    /\ pc' = [pc EXCEPT ![c] = "pull_wait"]
    /\ UNCHANGED <<mutex, items, used, done, pulled>>

(* `if(!Conditional::wait(timeout)) { Unlock(); return NULL; }` *)
PullWaited(c) ==
    /\ pc[c] = "pull_wait"
    /\ cw[c] = "returned"
    /\ IF rc[c]
         THEN /\ pc' = [pc EXCEPT ![c] = "pull_take"]
              /\ UNCHANGED <<mutex, locked, locker, done, pulled>>
         ELSE /\ UnlockOp
              /\ pc' = [pc EXCEPT ![c] = "idle"]
              /\ done' = [done EXCEPT ![c] = @ + 1]
              /\ pulled' = Append(pulled, NoObject)
    /\ cw' = [cw EXCEPT ![c] = "out"]
    /\ UNCHANGED <<cv, timed, rc, items, used>>

(* `if(usedlist)` take the top member onto the freelist and return its    *)
(* object; then `Conditional::signal(false); Unlock();`.  `used` is left  *)
(* as it was.                                                             *)
PullTake(c) ==
    /\ pc[c] = "pull_take"
    /\ IF items # <<>>
         THEN /\ items' = Tail(items)
              /\ pulled' = Append(pulled, Head(items))
         ELSE /\ pulled' = Append(pulled, NoObject)
              /\ UNCHANGED items
    /\ SignalUnlock
    /\ pc' = [pc EXCEPT ![c] = "idle"]
    /\ done' = [done EXCEPT ![c] = @ + 1]
    /\ UNCHANGED used

(* remove(o): Exlock(). *)
RemoveBegin(c) ==
    /\ pc[c] = "idle"
    /\ done[c] < CallsEach
    /\ "remove" \in PullOps
    /\ Exlock(c)
    /\ pc' = [pc EXCEPT ![c] = "rm_scan"]
    /\ UNCHANGED <<items, used, done, pulled>>

(* remove(o), under the mutex: walk `usedlist` for the member holding o;  *)
(* if there is one, `--used`, release the object, delist the member onto  *)
(* the freelist; Unlock(), with no signal.  Objects are pushed once.      *)
RemoveScan(c) ==
    /\ pc[c] = "rm_scan"
    /\ \E o \in Objects :
          IF \E i \in 1..Len(items) : items[i] = o
            THEN /\ items' = SelectSeq(items, LAMBDA x : x # o)
                 /\ used' = used - 1
            ELSE UNCHANGED <<items, used>>
    /\ Unlock
    /\ pc' = [pc EXCEPT ![c] = "idle"]
    /\ done' = [done EXCEPT ![c] = @ + 1]
    /\ UNCHANGED pulled

(* getCount(): `Exlock(); count = used; Unlock();`.  It only reads, but  *)
(* its Exlock() and Unlock() rewrite `locked`/`locker`, which a thread in *)
(* Conditional::wait reads when it wakes.  Nothing in it can wait: one    *)
(* step while the mutex is free.                                          *)
GetCount(c) ==
    /\ pc[c] = "idle"
    /\ done[c] < CallsEach
    /\ "count" \in PullOps
    /\ mutex = NoThread
    /\ UnlockOp
    /\ done' = [done EXCEPT ![c] = @ + 1]
    /\ UNCHANGED <<cv, cw, timed, rc, items, used, pc, pulled>>

Finish(t) ==
    /\ pc[t] = "idle"
    /\ done[t] = IF t \in Producers THEN PushesEach ELSE CallsEach
    /\ pc' = [pc EXCEPT ![t] = "finished"]
    /\ UNCHANGED <<condVars, sVars>>

Terminated ==
    /\ \A t \in Threads : pc[t] = "finished"
    /\ UNCHANGED vars

ProducerStep(p) ==
    \/ PushBegin(p) \/ PushCheck(p) \/ PushWaited(p) \/ PushInc(p)
    \/ PushLink(p) \/ PushLock(p) \/ PushSignal(p)

ConsumerStep(c) ==
    \/ PullBegin(c) \/ PullWaited(c) \/ PullTake(c)
    \/ RemoveBegin(c) \/ RemoveScan(c) \/ GetCount(c)

ThreadStep(t) ==
    \/ WaitStep(t) /\ UNCHANGED sVars
    \/ t \in Producers /\ ProducerStep(t)
    \/ t \in Consumers /\ ConsumerStep(t)
    \/ Finish(t)

Next ==
    \/ \E t \in Threads : ThreadStep(t)
    \/ Spurious /\ \E t \in Threads : WaitSpurious(t) /\ UNCHANGED sVars
    \/ Terminated

Spec == Init /\ [][Next]_vars

FairSpec == Spec /\ \A t \in Threads : WF_vars(ThreadStep(t))

-----------------------------------------------------------------------------
TypeOK ==
    /\ CondTypeOK
    /\ items \in Seq(Objects)
    /\ used \in Nat
    /\ pc \in [Threads -> StackPCs]
    /\ done \in [Threads -> Nat]
    /\ pulled \in Seq(Objects \cup {NoObject})

(* `used` counts the members on `usedlist` plus the pushes that have     *)
(* counted themselves and not yet linked (spec 4.5: a dequeue "decrements *)
(* used").  pull() takes members off without decrementing, so after      *)
(* `limit` push/pull pairs every push() waits on an empty stack.         *)
UsedCountsMembers ==
    used = Len(items) + Cardinality({p \in Producers : pc[p] = "push_link"})
=============================================================================
