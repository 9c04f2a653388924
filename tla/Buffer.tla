------------------------------- MODULE Buffer -------------------------------
(***************************************************************************)
(* ucommon Buffer (src/src/thread.cpp, lines 819-950): a ring of `size`    *)
(* fixed-size objects copied in by post() and out by wait() (oldest, at    *)
(* `head`) or pull() (at `tail`), guarded by the Conditional it inherits.  *)
(*                                                                         *)
(* The pointers `head` and `tail` are slot indices: buf + i*objsize is     *)
(* slot i.  Slot `Size` is the memory just past the end of the ring: the   *)
(* code can write there, so the model keeps it.  objsize # 0 throughout.   *)
(* A copied object is an abstract value <<p, i>>: producer p's i-th post.  *)
(*                                                                         *)
(* `fifo` is a history variable, not code: the objects posted and not yet  *)
(* taken, in post order, which is what the buffer promises to hand out.    *)
(***************************************************************************)
EXTENDS Conditional, Sequences

CONSTANTS
    Producers,    \* threads calling post()
    Consumers,    \* threads calling wait() / pull()
    Size,         \* Buffer::size, the capacity given to the constructor
    PostsEach,    \* objects each producer posts
    CallsEach,    \* wait()/pull()/peek() calls each consumer makes
    Timeouts,     \* the timeouts callers pass: FALSE = 0 (forever), TRUE = finite
    TakeOps,      \* the calls consumers make, a subset of {"wait", "pull", "peek"}
    Spurious,     \* whether condition waits may wake spuriously
    Width         \* bits of a size_t, as far as `used` wrapping matters

ASSUME /\ Threads = Producers \cup Consumers
       /\ Producers \cap Consumers = {}
       /\ Size \in Nat \ {0}
       /\ PostsEach \in Nat /\ CallsEach \in Nat
       /\ Timeouts \subseteq BOOLEAN /\ Timeouts # {}
       /\ TakeOps \subseteq {"wait", "pull", "peek"} /\ TakeOps # {}
       /\ Spurious \in BOOLEAN
       /\ Width \in Nat \ {0}

Objects == Producers \X (1..PostsEach)
Garbage == <<"garbage">>   \* what an uninitialised slot holds
Slots == 0..Size       \* the ring, and the slot just past its end
SizeT == 2^Width       \* size_t arithmetic is modulo SizeT

VARIABLES
    slots,     \* slots[i]: the object stored at buf + i*objsize
    head,      \* Buffer::head, as a slot index
    tail,      \* Buffer::tail, as a slot index
    used,      \* Buffer::used
    pc,        \* where each thread is in the Buffer method it runs
    op,        \* op[c]: the call consumer c is in
    done,      \* done[t]: calls t has completed
    got,       \* got[c]: the object c's last wait()/pull() copied out
    fifo       \* history: objects posted and not taken, oldest first

bVars == <<slots, head, tail, used, pc, op, done, got, fifo>>
vars == <<condVars, bVars>>

BufferPCs == {"idle", "post_check", "post_wait", "take_wait", "take", "finished"}

Init ==
    /\ CondInit
    /\ slots = [i \in Slots |-> Garbage]
    /\ head = 0
    /\ tail = 0
    /\ used = 0
    /\ pc = [t \in Threads |-> "idle"]
    /\ op = [t \in Threads |-> "wait"]
    /\ done = [t \in Threads |-> 0]
    /\ got = [t \in Threads |-> Garbage]
    /\ fifo = <<>>

-----------------------------------------------------------------------------
(* onPost: copy to `tail`, advance it, and wrap when it has gone past      *)
(* buf + size*objsize.                                                     *)
NextTail == IF tail + 1 > Size THEN 0 ELSE tail + 1

(* onWait: copy from `head`, advance it, wrap at buf + size*objsize. *)
NextHead == IF head + 1 >= Size THEN 0 ELSE head + 1

(* onPull: step `tail` back one slot (from buf to the end) and copy there. *)
PrevTail == IF tail = 0 THEN Size - 1 ELSE tail - 1

-----------------------------------------------------------------------------
(* post(buf, timeout): Exlock(). *)
PostBegin(p) ==
    /\ pc[p] = "idle"
    /\ done[p] < PostsEach
    /\ Exlock(p)
    /\ pc' = [pc EXCEPT ![p] = "post_check"]
    /\ UNCHANGED <<slots, head, tail, used, op, done, got, fifo>>

(* `while(used == size)` wait; once there is room: onPost(), `++used`,   *)
(* `Conditional::signal(false); Unlock();`.                               *)
PostCheck(p) ==
    /\ pc[p] = "post_check"
    /\ IF used = Size
         THEN /\ \E tmo \in Timeouts : WaitBegin(p, tmo)
              /\ pc' = [pc EXCEPT ![p] = "post_wait"]
              /\ UNCHANGED <<slots, tail, used, done, fifo>>
         ELSE /\ slots' = [slots EXCEPT ![tail] = <<p, done[p] + 1>>]
              /\ tail' = NextTail
              /\ used' = (used + 1) % SizeT
              /\ fifo' = Append(fifo, <<p, done[p] + 1>>)
              /\ SignalUnlock
              /\ pc' = [pc EXCEPT ![p] = "idle"]
              /\ done' = [done EXCEPT ![p] = @ + 1]
    /\ UNCHANGED <<head, op, got>>

(* `if(!Conditional::wait(timeout)) { Unlock(); return Buffer::timeout; }` *)
(* else test `used == size` again.                                         *)
PostWaited(p) ==
    /\ pc[p] = "post_wait"
    /\ cw[p] = "returned"
    /\ IF rc[p]
         THEN /\ pc' = [pc EXCEPT ![p] = "post_check"]
              /\ UNCHANGED <<mutex, locked, locker, done>>
         ELSE /\ UnlockOp
              /\ pc' = [pc EXCEPT ![p] = "idle"]
              /\ done' = [done EXCEPT ![p] = @ + 1]
    /\ cw' = [cw EXCEPT ![p] = "out"]
    /\ UNCHANGED <<cv, timed, rc, slots, head, tail, used, op, got, fifo>>

(* wait(buf, timeout) / pull(buf, timeout): Exlock(), then                *)
(* Conditional::wait at once; `locker` is this thread, so it goes         *)
(* straight into the condition wait, which releases the mutex.            *)
TakeBegin(c) ==
    /\ pc[c] = "idle"
    /\ done[c] < CallsEach
    /\ mutex = NoThread
    /\ \E o \in TakeOps \ {"peek"}, tmo \in Timeouts :
          /\ op' = [op EXCEPT ![c] = o]
          /\ timed' = [timed EXCEPT ![c] = tmo]
    /\ locked' = TRUE
    /\ locker' = c
    /\ cv' = cv \cup {c}
    /\ cw' = [cw EXCEPT ![c] = "blocked"]
    /\ rc' = [rc EXCEPT ![c] = TRUE]
    /\ pc' = [pc EXCEPT ![c] = "take_wait"]
    /\ UNCHANGED <<mutex, slots, head, tail, used, done, got, fifo>>

(* `if(!Conditional::wait(timeout)) { Unlock(); return Buffer::timeout; }` *)
TakeWaited(c) ==
    /\ pc[c] = "take_wait"
    /\ cw[c] = "returned"
    /\ IF rc[c]
         THEN /\ pc' = [pc EXCEPT ![c] = "take"]
              /\ UNCHANGED <<mutex, locked, locker, done>>
         ELSE /\ UnlockOp
              /\ pc' = [pc EXCEPT ![c] = "idle"]
              /\ done' = [done EXCEPT ![c] = @ + 1]
    /\ cw' = [cw EXCEPT ![c] = "out"]
    /\ UNCHANGED <<cv, timed, rc, slots, head, tail, used, op, got, fifo>>

(* onWait() or onPull(), `--used`, `Conditional::signal(false);          *)
(* Unlock();`.  Nothing tests that the ring holds an object.             *)
Take(c) ==
    /\ pc[c] = "take"
    /\ IF op[c] = "wait"
         THEN /\ got' = [got EXCEPT ![c] = slots[head]]
              /\ head' = NextHead
              /\ UNCHANGED tail
         ELSE /\ got' = [got EXCEPT ![c] = slots[PrevTail]]
              /\ tail' = PrevTail
              /\ UNCHANGED head
    /\ used' = (used + SizeT - 1) % SizeT
    /\ fifo' = IF fifo = <<>> THEN fifo ELSE Tail(fifo)
    /\ SignalUnlock
    /\ pc' = [pc EXCEPT ![c] = "idle"]
    /\ done' = [done EXCEPT ![c] = @ + 1]
    /\ UNCHANGED <<slots, op>>

(* onPeek(): copy the object at `head`. *)
OnPeek == slots[head]

(* peek(buf): Lock() (the locking protocol's Exlock()), `if(!used)`       *)
(* Unlock() and return 0, else onPeek() copies the object at `head` and  *)
(* Unlock().  Nothing in it can wait, so it is one step; its Exlock() and *)
(* Unlock() still clear `locked`/`locker` for a thread in wait().         *)
Peek(c) ==
    /\ pc[c] = "idle"
    /\ done[c] < CallsEach
    /\ "peek" \in TakeOps
    /\ mutex = NoThread
    /\ got' = IF used = 0 THEN got ELSE [got EXCEPT ![c] = OnPeek]
    /\ UnlockOp
    /\ done' = [done EXCEPT ![c] = @ + 1]
    /\ UNCHANGED <<cv, cw, timed, rc, slots, head, tail, used, pc, op, fifo>>

Finish(t) ==
    /\ pc[t] = "idle"
    /\ done[t] = IF t \in Producers THEN PostsEach ELSE CallsEach
    /\ pc' = [pc EXCEPT ![t] = "finished"]
    /\ UNCHANGED <<condVars, slots, head, tail, used, op, done, got, fifo>>

Terminated ==
    /\ \A t \in Threads : pc[t] = "finished"
    /\ UNCHANGED vars

ThreadStep(t) ==
    \/ WaitStep(t) /\ UNCHANGED bVars
    \/ t \in Producers /\ (PostBegin(t) \/ PostCheck(t) \/ PostWaited(t))
    \/ t \in Consumers /\ (TakeBegin(t) \/ TakeWaited(t) \/ Take(t) \/ Peek(t))
    \/ Finish(t)

Next ==
    \/ \E t \in Threads : ThreadStep(t)
    \/ Spurious /\ \E t \in Threads : WaitSpurious(t) /\ UNCHANGED bVars
    \/ Terminated

Spec == Init /\ [][Next]_vars

-----------------------------------------------------------------------------
TypeOK ==
    /\ CondTypeOK
    /\ slots \in [Slots -> Objects \cup {Garbage}]
    /\ head \in Slots /\ tail \in Slots
    /\ used \in 0..(SizeT - 1)
    /\ pc \in [Threads -> BufferPCs]
    /\ op \in [Threads -> {"wait", "pull"}]
    /\ done \in [Threads -> Nat]
    /\ got \in [Threads -> Objects \cup {Garbage}]
    /\ fifo \in Seq(Objects)

(* wait() hands out the oldest object posted and not yet taken (spec 4.6: *)
(* "the buffer itself only guarantees FIFO element order"; the round-trip *)
(* test post(e1); post(e2); pull() == e1).  It is about onPost's and      *)
(* onWait's wrap-around arithmetic on `tail` and `head` over many calls.  *)
WaitReturnsOldest ==
    [][\A c \in Consumers :
          (pc[c] = "take" /\ pc'[c] = "idle" /\ fifo # <<>>)
             => got'[c] = Head(fifo)]_vars
=============================================================================
