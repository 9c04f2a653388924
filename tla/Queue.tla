------------------------------- MODULE Queue -------------------------------
(***************************************************************************)
(* ucommon Queue (src/src/thread.cpp, lines 596-717): a bounded list of    *)
(* retained objects guarded by the Conditional it inherits.                *)
(*                                                                         *)
(*   items  the members from `head` to `tail`, as the objects they hold    *)
(*   used   Queue::used                                                    *)
(*                                                                         *)
(* Producers call post(); consumers call fifo() or lifo().  A step is one  *)
(* stretch of code between two points where another thread can matter:    *)
(* taking or giving up the mutex, the condition wait, and the linking of   *)
(* a new member, which post() does after Unlock().                         *)
(* Lock() in post() is the Exlock() of the exclusive-lock protocol         *)
(* Conditional implements (the header declaring it is not in src/).        *)
(* The objects are abstract values <<p, i>>: producer p's i-th post.       *)
(***************************************************************************)
EXTENDS Conditional, Sequences, FiniteSets

CONSTANTS
    Producers,    \* threads calling post()
    Consumers,    \* threads calling fifo() / lifo()
    PostsEach,    \* objects each producer posts
    CallsEach,    \* dequeue calls each consumer makes
    Limit,        \* Queue::limit, 0 = unbounded
    Timeouts,     \* the timeouts callers pass: FALSE = 0 (wait forever), TRUE = finite
    DequeueOps,   \* the calls consumers make, a subset of {"fifo", "lifo", "remove", "count"}
    Spurious      \* whether condition waits may wake spuriously

ASSUME /\ Threads = Producers \cup Consumers
       /\ Producers \cap Consumers = {}
       /\ PostsEach \in Nat /\ CallsEach \in Nat /\ Limit \in Nat
       /\ Timeouts \subseteq BOOLEAN /\ Timeouts # {}
       /\ DequeueOps \subseteq {"fifo", "lifo", "remove", "count"} /\ DequeueOps # {}
       /\ Spurious \in BOOLEAN

Objects == Producers \X (1..PostsEach)
NoObject == <<>>   \* the NULL a dequeue returns

VARIABLES
    items,      \* the queued objects, head first
    used,       \* Queue::used
    pc,         \* where each thread is in the Queue method it runs
    op,         \* op[c]: the dequeue call consumer c is in
    done,       \* done[t]: calls t has completed
    delivered   \* the objects fifo()/lifo() returned, in order

qVars == <<items, used, pc, op, done, delivered>>
vars == <<condVars, qVars>>

QueuePCs == {"idle", "post_check", "post_wait", "post_inc", "post_link",
             "post_lock", "post_signal", "deq_wait", "deq_take", "rm_scan", "finished"}

\* The object producer p is posting.
Posting(p) == <<p, done[p] + 1>>

Init ==
    /\ CondInit
    /\ items = <<>>
    /\ used = 0
    /\ pc = [t \in Threads |-> "idle"]
    /\ op = [t \in Threads |-> "fifo"]
    /\ done = [t \in Threads |-> 0]
    /\ delivered = <<>>

-----------------------------------------------------------------------------
(* post(object, timeout): Exlock(). *)
PostBegin(p) ==
    /\ pc[p] = "idle"
    /\ done[p] < PostsEach
    /\ Exlock(p)
    /\ pc' = [pc EXCEPT ![p] = "post_check"]
    /\ UNCHANGED <<items, used, op, done, delivered>>

(* `while(limit && used == limit)`: wait for room, or go on. *)
PostCheck(p) ==
    /\ pc[p] = "post_check"
    /\ IF Limit # 0 /\ used = Limit
         THEN /\ \E tmo \in Timeouts : WaitBegin(p, tmo)
              /\ pc' = [pc EXCEPT ![p] = "post_wait"]
         ELSE /\ pc' = [pc EXCEPT ![p] = "post_inc"]
              /\ UNCHANGED condVars
    /\ UNCHANGED <<items, used, op, done, delivered>>

(* `if(!Conditional::wait(timeout)) { Unlock(); return false; }`, else   *)
(* test the loop condition again.                                        *)
PostWaited(p) ==
    /\ pc[p] = "post_wait"
    /\ cw[p] = "returned"
    /\ IF rc[p]
         THEN /\ pc' = [pc EXCEPT ![p] = "post_check"]
              /\ UNCHANGED <<mutex, locked, locker, done>>
         ELSE /\ UnlockOp
              /\ pc' = [pc EXCEPT ![p] = "idle"]
              /\ done' = [done EXCEPT ![p] = @ + 1]
    /\ cw' = [cw EXCEPT ![p] = "out"]
    /\ UNCHANGED <<cv, timed, rc, items, used, op, delivered>>

(* `++used`, take a node off the freelist (or not), Unlock(). *)
PostInc(p) ==
    /\ pc[p] = "post_inc"
    /\ used' = used + 1
    /\ Unlock
    /\ pc' = [pc EXCEPT ![p] = "post_link"]
    /\ UNCHANGED <<items, op, done, delivered>>

(* `new(...) member(this, object)`: the member retains the object and     *)
(* links itself at the tail of the list, with the mutex released.         *)
PostLink(p) ==
    /\ pc[p] = "post_link"
    /\ items' = Append(items, Posting(p))
    /\ pc' = [pc EXCEPT ![p] = "post_lock"]
    /\ UNCHANGED <<condVars, used, op, done, delivered>>

(* Lock(). *)
PostLock(p) ==
    /\ pc[p] = "post_lock"
    /\ Exlock(p)
    /\ pc' = [pc EXCEPT ![p] = "post_signal"]
    /\ UNCHANGED <<items, used, op, done, delivered>>

(* `Conditional::signal(false); Unlock(); return true;` *)
PostSignal(p) ==
    /\ pc[p] = "post_signal"
    /\ SignalUnlock
    /\ pc' = [pc EXCEPT ![p] = "idle"]
    /\ done' = [done EXCEPT ![p] = @ + 1]
    /\ UNCHANGED <<items, used, op, delivered>>

(* fifo(timeout) / lifo(timeout): Exlock(), then Conditional::wait at     *)
(* once, whatever the queue holds.  `locker` is this thread, so wait()    *)
(* goes straight into the condition wait, which releases the mutex.       *)
DequeueBegin(c) ==
    /\ pc[c] = "idle"
    /\ done[c] < CallsEach
    /\ mutex = NoThread
    /\ \E o \in DequeueOps \ {"remove", "count"}, tmo \in Timeouts :
          /\ op' = [op EXCEPT ![c] = o]
          /\ timed' = [timed EXCEPT ![c] = tmo]
    /\ locked' = TRUE
    /\ locker' = c
    /\ cv' = cv \cup {c}
    /\ cw' = [cw EXCEPT ![c] = "blocked"]
    /\ rc' = [rc EXCEPT ![c] = TRUE]
    /\ pc' = [pc EXCEPT ![c] = "deq_wait"]
    /\ UNCHANGED <<mutex, items, used, done, delivered>>

(* `if(!Conditional::wait(timeout)) { Unlock(); return NULL; }` *)
DequeueWaited(c) ==
    /\ pc[c] = "deq_wait"
    /\ cw[c] = "returned"
    /\ IF rc[c]
         THEN /\ pc' = [pc EXCEPT ![c] = "deq_take"]
              /\ UNCHANGED <<mutex, locked, locker, done, delivered>>
         ELSE /\ UnlockOp
              /\ pc' = [pc EXCEPT ![c] = "idle"]
              /\ done' = [done EXCEPT ![c] = @ + 1]
              /\ delivered' = Append(delivered, NoObject)
    /\ cw' = [cw EXCEPT ![c] = "out"]
    /\ UNCHANGED <<cv, timed, rc, items, used, op>>

(* fifo(): `if(head)` take the head member, `--used`; then               *)
(* `Conditional::signal(false); Unlock();` and return the object (NULL    *)
(* when the list was empty).  lifo() tests `tail` but also delists and    *)
(* returns the member at `head`.                                          *)
DequeueTake(c) ==
    /\ pc[c] = "deq_take"
    /\ IF items # <<>>
         THEN /\ items' = Tail(items)
              /\ used' = used - 1
              /\ delivered' = Append(delivered, Head(items))
         ELSE /\ delivered' = Append(delivered, NoObject)
              /\ UNCHANGED <<items, used>>
    /\ SignalUnlock
    /\ pc' = [pc EXCEPT ![c] = "idle"]
    /\ done' = [done EXCEPT ![c] = @ + 1]
    /\ UNCHANGED op

(* remove(o): Exlock(). *)
RemoveBegin(c) ==
    /\ pc[c] = "idle"
    /\ done[c] < CallsEach
    /\ "remove" \in DequeueOps
    /\ Exlock(c)
    /\ op' = [op EXCEPT ![c] = "remove"]
    /\ pc' = [pc EXCEPT ![c] = "rm_scan"]
    /\ UNCHANGED <<items, used, done, delivered>>

(* remove(o), under the mutex: walk the list from `head` for the member   *)
(* holding o; if there is one, `--used`, release the object, delist the   *)
(* member and put it on the freelist; Unlock().  No signal: a producer    *)
(* waiting for room in post() is not woken.  Objects are posted once, so  *)
(* the member found is the only one holding o.                            *)
RemoveScan(c) ==
    /\ pc[c] = "rm_scan"
    /\ \E o \in Objects :
          IF \E i \in 1..Len(items) : items[i] = o
            THEN /\ items' = SelectSeq(items, LAMBDA x : x # o)
                 /\ used' = used - 1
            ELSE UNCHANGED <<items, used>>
    /\ Unlock
    /\ pc' = [pc EXCEPT ![c] = "idle"]
    /\ done' = [done EXCEPT ![c] = @ + 1]
    /\ UNCHANGED <<op, delivered>>

(* getCount(): `Exlock(); count = used; Unlock();`.  It only reads, but  *)
(* its Exlock() and Unlock() rewrite `locked`/`locker`, which a thread in *)
(* Conditional::wait reads when it wakes.  Nothing in it can wait: one    *)
(* step while the mutex is free.                                          *)
GetCount(c) ==
    /\ pc[c] = "idle"
    /\ done[c] < CallsEach
    /\ "count" \in DequeueOps
    /\ mutex = NoThread
    /\ UnlockOp
    /\ done' = [done EXCEPT ![c] = @ + 1]
    /\ UNCHANGED <<cv, cw, timed, rc, items, used, pc, op, delivered>>

Finish(t) ==
    /\ pc[t] = "idle"
    /\ done[t] = IF t \in Producers THEN PostsEach ELSE CallsEach
    /\ pc' = [pc EXCEPT ![t] = "finished"]
    /\ UNCHANGED <<condVars, items, used, op, done, delivered>>

Terminated ==
    /\ \A t \in Threads : pc[t] = "finished"
    /\ UNCHANGED vars

ProducerStep(p) ==
    \/ PostBegin(p) \/ PostCheck(p) \/ PostWaited(p) \/ PostInc(p)
    \/ PostLink(p) \/ PostLock(p) \/ PostSignal(p)

ConsumerStep(c) ==
    \/ DequeueBegin(c) \/ DequeueWaited(c) \/ DequeueTake(c)
    \/ RemoveBegin(c) \/ RemoveScan(c) \/ GetCount(c)

ThreadStep(t) ==
    \/ WaitStep(t) /\ UNCHANGED qVars
    \/ t \in Producers /\ ProducerStep(t)
    \/ t \in Consumers /\ ConsumerStep(t)
    \/ Finish(t)

Next ==
    \/ \E t \in Threads : ThreadStep(t)
    \/ Spurious /\ \E t \in Threads : WaitSpurious(t) /\ UNCHANGED qVars
    \/ Terminated

Spec == Init /\ [][Next]_vars

(* Every runnable thread is eventually scheduled, and a deadline always   *)
(* arrives; nothing forces a spurious wake-up.                            *)
FairSpec == Spec /\ \A t \in Threads : WF_vars(ThreadStep(t))

-----------------------------------------------------------------------------
TypeOK ==
    /\ CondTypeOK
    /\ items \in Seq(Objects)
    /\ used \in Nat
    /\ pc \in [Threads -> QueuePCs]
    /\ op \in [Threads -> {"fifo", "lifo", "remove", "count"}]
    /\ done \in [Threads -> Nat]
    /\ delivered \in Seq(Objects \cup {NoObject})

(* Every read or write of the list and of `used` is made by a thread that *)
(* holds the Queue's mutex (spec: "every shared field is read or written  *)
(* only while the component's own mutex is held").  post() links the new  *)
(* member after its Unlock().                                             *)
SharedStateUnderMutex ==
    \A t \in Threads :
        pc[t] \in {"post_check", "post_inc", "post_link", "deq_take"} => mutex = t

(* A caller that took the mutex with Exlock() holds it again when         *)
(* Conditional::wait returns, as pthread_cond_wait promises.  wait()      *)
(* decides from `locked`/`locker`, which other threads' Exlock()/Unlock() *)
(* rewrote while this one was blocked.                                    *)
WaitReturnsLocked ==
    \A t \in Threads :
        (pc[t] \in {"post_wait", "deq_wait"} /\ cw[t] = "returned") => mutex = t

(* With a limit set, the queue never holds more than `limit` objects. *)
WithinLimit == Limit # 0 => used <= Limit

(* A consumer blocked in fifo()/lifo() while the queue holds objects is   *)
(* eventually woken.  post() signals once, whether or not anyone waits,   *)
(* and a dequeue waits for a signal before it looks at the list.          *)
QueuedObjectWakesConsumer ==
    \A c \in Consumers : (c \in cv /\ items # <<>>) ~> (c \notin cv)

(* lifo() returns the most recently posted object still queued. *)
LifoTakesNewest ==
    [][\A c \in Consumers :
          (pc[c] = "deq_take" /\ op[c] = "lifo" /\ items # <<>> /\ pc'[c] = "idle")
             => delivered'[Len(delivered')] = items[Len(items)]]_vars
=============================================================================
