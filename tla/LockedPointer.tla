--------------------------- MODULE LockedPointer ---------------------------
(***************************************************************************)
(* ucommon LockedPointer and locked_release (src/src/thread.cpp, lines    *)
(* 376-402 and 966-999): a pointer to a reference-counted Object, guarded *)
(* by its own pthread mutex, and per-thread handles that hold a retained  *)
(* copy of it.                                                             *)
(*                                                                         *)
(*   replace(obj)  lock; obj->retain(); old->release(); pointer = obj;    *)
(*   dup()         lock; temp = pointer; temp->retain(); unlock           *)
(*   locked_release  = p: release(); object = p.dup()                     *)
(*                   (copy): object = copy.object; object->retain()       *)
(*                   release(): object->release(); object = NULL          *)
(*                                                                         *)
(* retain() and release() are virtual: what they do is the Object class's *)
(* business (its code is not under src/).  The model takes them as the    *)
(* spec states them, retain adds one and release takes one and destroys   *)
(* the object at zero, and lets the constant AtomicCount say how the      *)
(* count is kept: atomically (one step), or as CountedObject keeps it,    *)
(* a `volatile unsigned` (object.h) read in one step and written back in  *)
(* a later one, so that two threads' updates can interleave.              *)
(***************************************************************************)
EXTENDS Integers, FiniteSets

CONSTANTS
    Threads,       \* threads using the pointer
    Objects,       \* Object instances callers may pass to replace()
    HandlesEach,   \* locked_release handles each thread owns
    OpsEach,       \* calls each thread makes
    AtomicCount,   \* TRUE: retain/release are atomic; FALSE: CountedObject
    NoThread,      \* a free mutex
    Null           \* the NULL Object pointer

ASSUME /\ NoThread \notin Threads /\ Null \notin Objects
       /\ HandlesEach \in Nat \ {0} /\ OpsEach \in Nat
       /\ AtomicCount \in BOOLEAN

Handles == 1..HandlesEach

VARIABLES
    pointer,    \* LockedPointer::pointer
    mutex,      \* holder of LockedPointer::mutex
    count,      \* count[o]: the object's reference count
    state,      \* state[o]: "free" (not yet created), "live" or "gone"
    handle,     \* handle[t][i]: locked_release::object of t's i-th handle
    pc,         \* where each thread is
    newObj,     \* newObj[t]: the obj of t's replace(), temp of its dup()
    slot,       \* slot[t]: the handle t's current call assigns
    cobj,       \* cobj[t]: the object of t's retain/release in progress
    cdelta,     \* cdelta[t]: +1 for retain, -1 for release
    loaded,     \* loaded[t]: the count t read and will write back
    cont,       \* cont[t]: where t goes when its count update is done
    ops,        \* ops[t]: calls t has made
    deallocs    \* history: deallocs[o], times o was destroyed

vars == <<pointer, mutex, count, state, handle, pc, newObj, slot,
          cobj, cdelta, loaded, cont, ops, deallocs>>

PCs == {"idle", "rep_lock", "rep_release", "rep_store", "dup_lock",
        "dup_unlock", "store", "done"}

Init ==
    /\ pointer = Null
    /\ mutex = NoThread
    /\ count = [o \in Objects |-> 0]
    /\ state = [o \in Objects |-> "free"]
    /\ handle = [t \in Threads |-> [i \in Handles |-> Null]]
    /\ pc = [t \in Threads |-> "idle"]
    /\ newObj = [t \in Threads |-> Null]
    /\ slot = [t \in Threads |-> 1]
    /\ cobj = [t \in Threads |-> Null]
    /\ cdelta = [t \in Threads |-> 1]
    /\ loaded = [t \in Threads |-> 0]
    /\ cont = [t \in Threads |-> "idle"]
    /\ ops = [t \in Threads |-> 0]
    /\ deallocs = [o \in Objects |-> 0]

-----------------------------------------------------------------------------
(* Mutant: release destroys the object while one reference is left. *)
ApplyEarly(o, d, c) ==
    /\ count' = [count EXCEPT ![o] = c + d]
    /\ IF d = -1 /\ c + d <= 1
         THEN /\ state' = [state EXCEPT ![o] = "gone"]
              /\ deallocs' = [deallocs EXCEPT ![o] = @ + 1]
         ELSE UNCHANGED <<state, deallocs>>

(* The write that ends a retain (d = 1) or release (d = -1) of o whose    *)
(* count was read as c: release destroys the object when it drops to 0.   *)
Apply(o, d, c) ==
    /\ count' = [count EXCEPT ![o] = c + d]
    /\ IF d = -1 /\ c + d = 0
         THEN /\ state' = [state EXCEPT ![o] = "gone"]
              /\ deallocs' = [deallocs EXCEPT ![o] = @ + 1]
         ELSE UNCHANGED <<state, deallocs>>

(* t begins o->retain() or o->release() and then goes on at `next`.      *)
(* An atomic count is updated at once; CountedObject's is only read now. *)
CountOp(t, o, d, next) ==
    /\ cobj' = [cobj EXCEPT ![t] = o]
    /\ cdelta' = [cdelta EXCEPT ![t] = d]
    /\ IF AtomicCount
         THEN /\ Apply(o, d, count[o])
              /\ pc' = [pc EXCEPT ![t] = next]
              /\ UNCHANGED <<loaded, cont>>
         ELSE /\ loaded' = [loaded EXCEPT ![t] = count[o]]
              /\ cont' = [cont EXCEPT ![t] = next]
              /\ pc' = [pc EXCEPT ![t] = "store"]
              /\ UNCHANGED <<count, state, deallocs>>

(* CountedObject: the count t read is written back, changed by one. *)
Store(t) ==
    /\ pc[t] = "store"
    /\ Apply(cobj[t], cdelta[t], loaded[t])
    /\ pc' = [pc EXCEPT ![t] = cont[t]]
    /\ UNCHANGED <<pointer, mutex, handle, newObj, slot, cobj, cdelta,
                   loaded, cont, ops>>

-----------------------------------------------------------------------------
(* The caller creates a new object and calls replace(obj). *)
ReplaceBegin(t) ==
    /\ pc[t] = "idle"
    /\ ops[t] < OpsEach
    /\ \E o \in Objects :
          /\ state[o] = "free"
          /\ state' = [state EXCEPT ![o] = "live"]
          /\ newObj' = [newObj EXCEPT ![t] = o]
    /\ ops' = [ops EXCEPT ![t] = @ + 1]
    /\ pc' = [pc EXCEPT ![t] = "rep_lock"]
    /\ UNCHANGED <<pointer, mutex, count, handle, slot, cobj, cdelta,
                   loaded, cont, deallocs>>

(* replace(): pthread_mutex_lock; obj->retain(). *)
ReplaceLock(t) ==
    /\ pc[t] = "rep_lock"
    /\ mutex = NoThread
    /\ mutex' = t
    /\ CountOp(t, newObj[t], 1, "rep_release")
    /\ UNCHANGED <<pointer, handle, newObj, slot, ops>>

(* replace(): `if(pointer) pointer->release();` *)
ReplaceRelease(t) ==
    /\ pc[t] = "rep_release"
    /\ IF pointer # Null
         THEN CountOp(t, pointer, -1, "rep_store")
         ELSE /\ pc' = [pc EXCEPT ![t] = "rep_store"]
              /\ UNCHANGED <<count, state, deallocs, cobj, cdelta, loaded, cont>>
    /\ UNCHANGED <<pointer, mutex, handle, newObj, slot, ops>>

(* replace(): `pointer = obj;` pthread_mutex_unlock. *)
ReplaceStore(t) ==
    /\ pc[t] = "rep_store"
    /\ pointer' = newObj[t]
    /\ mutex' = NoThread
    /\ newObj' = [newObj EXCEPT ![t] = Null]
    /\ pc' = [pc EXCEPT ![t] = "idle"]
    /\ UNCHANGED <<count, state, handle, slot, cobj, cdelta, loaded, cont,
                   ops, deallocs>>

(* locked_release::operator=(p): release() the handle, then p.dup(). *)
Assign(t, i) ==
    /\ pc[t] = "idle"
    /\ ops[t] < OpsEach
    /\ ops' = [ops EXCEPT ![t] = @ + 1]
    /\ slot' = [slot EXCEPT ![t] = i]
    /\ handle' = [handle EXCEPT ![t][i] = Null]
    /\ IF handle[t][i] # Null
         THEN CountOp(t, handle[t][i], -1, "dup_lock")
         ELSE /\ pc' = [pc EXCEPT ![t] = "dup_lock"]
              /\ UNCHANGED <<count, state, deallocs, cobj, cdelta, loaded, cont>>
    /\ UNCHANGED <<pointer, mutex, newObj>>

(* Mutant: dup() hands out the pointer without retaining it. *)
DupLockNoRetain(t) ==
    /\ pc[t] = "dup_lock"
    /\ mutex = NoThread
    /\ mutex' = t
    /\ newObj' = [newObj EXCEPT ![t] = pointer]
    /\ pc' = [pc EXCEPT ![t] = "dup_unlock"]
    /\ UNCHANGED <<count, state, deallocs, cobj, cdelta, loaded, cont,
                   pointer, handle, slot, ops>>

(* dup(): pthread_mutex_lock; `temp = pointer; if(temp) temp->retain();` *)
DupLock(t) ==
    /\ pc[t] = "dup_lock"
    /\ mutex = NoThread
    /\ mutex' = t
    /\ newObj' = [newObj EXCEPT ![t] = pointer]
    /\ IF pointer # Null
         THEN CountOp(t, pointer, 1, "dup_unlock")
         ELSE /\ pc' = [pc EXCEPT ![t] = "dup_unlock"]
              /\ UNCHANGED <<count, state, deallocs, cobj, cdelta, loaded, cont>>
    /\ UNCHANGED <<pointer, handle, slot, ops>>

(* dup(): pthread_mutex_unlock; return temp into the handle's object. *)
DupUnlock(t) ==
    /\ pc[t] = "dup_unlock"
    /\ mutex' = NoThread
    /\ handle' = [handle EXCEPT ![t][slot[t]] = newObj[t]]
    /\ newObj' = [newObj EXCEPT ![t] = Null]
    /\ pc' = [pc EXCEPT ![t] = "idle"]
    /\ UNCHANGED <<pointer, count, state, slot, cobj, cdelta, loaded, cont,
                   ops, deallocs>>

(* locked_release(const locked_release &copy) into t's empty handle j:   *)
(* `object = copy.object; object->retain();` (a NULL copy would crash).   *)
Copy(t, i, j) ==
    /\ pc[t] = "idle"
    /\ ops[t] < OpsEach
    /\ handle[t][i] # Null
    /\ handle[t][j] = Null
    /\ ops' = [ops EXCEPT ![t] = @ + 1]
    /\ handle' = [handle EXCEPT ![t][j] = handle[t][i]]
    /\ CountOp(t, handle[t][i], 1, "idle")
    /\ UNCHANGED <<pointer, mutex, newObj, slot>>

(* Mutant: release() leaves `object` set. *)
ReleaseKeepsObject(t, i) ==
    /\ pc[t] = "idle"
    /\ handle[t][i] # Null
    /\ ops' = [ops EXCEPT ![t] = IF @ < OpsEach THEN @ + 1 ELSE @]
    /\ UNCHANGED handle
    /\ CountOp(t, handle[t][i], -1, "idle")
    /\ UNCHANGED <<pointer, mutex, newObj, slot>>

(* locked_release::release(), or its destructor once t has made all its  *)
(* calls: `if(object) object->release(); object = NULL;`.                *)
Release(t, i) ==
    /\ pc[t] = "idle"
    /\ handle[t][i] # Null
    /\ ops' = [ops EXCEPT ![t] = IF @ < OpsEach THEN @ + 1 ELSE @]
    /\ handle' = [handle EXCEPT ![t][i] = Null]
    /\ CountOp(t, handle[t][i], -1, "idle")
    /\ UNCHANGED <<pointer, mutex, newObj, slot>>

(* t has made its calls and destroyed its handles. *)
Finish(t) ==
    /\ pc[t] = "idle"
    /\ ops[t] = OpsEach
    /\ \A i \in Handles : handle[t][i] = Null
    /\ pc' = [pc EXCEPT ![t] = "done"]
    /\ UNCHANGED <<pointer, mutex, count, state, handle, newObj, slot, cobj,
                   cdelta, loaded, cont, ops, deallocs>>

Terminated ==
    /\ \A t \in Threads : pc[t] = "done"
    /\ UNCHANGED vars

(* The calls a thread makes; with atomic counts these are all its steps. *)
AtomicNext ==
    \/ \E t \in Threads :
          \/ ReplaceBegin(t) \/ ReplaceLock(t) \/ ReplaceRelease(t)
          \/ ReplaceStore(t) \/ DupLock(t) \/ DupUnlock(t) \/ Finish(t)
          \/ \E i \in Handles : Assign(t, i) \/ Release(t, i)
          \/ \E i, j \in Handles : Copy(t, i, j)
    \/ Terminated

Next == AtomicNext \/ \E t \in Threads : Store(t)

Spec == Init /\ [][Next]_vars

(* With AtomicCount no thread ever reaches "store", so this specification *)
(* has the behaviours of Spec.                                            *)
AtomicSpec == Init /\ [][AtomicNext]_vars

-----------------------------------------------------------------------------
TypeOK ==
    /\ pointer \in Objects \cup {Null}
    /\ mutex \in Threads \cup {NoThread}
    /\ count \in [Objects -> Nat]
    /\ state \in [Objects -> {"free", "live", "gone"}]
    /\ handle \in [Threads -> [Handles -> Objects \cup {Null}]]
    /\ pc \in [Threads -> PCs]
    /\ newObj \in [Threads -> Objects \cup {Null}]
    /\ ops \in [Threads -> 0..OpsEach]

(* The references that hold a count on o: the pointer, every handle, and  *)
(* a replace() or dup() that has retained o and not yet stored it.        *)
Refs(o) ==
    (IF pointer = o THEN 1 ELSE 0)
    + Cardinality({<<t, i>> \in Threads \X Handles : handle[t][i] = o})
    + Cardinality({t \in Threads : newObj[t] = o
                       /\ pc[t] \in {"rep_release", "rep_store", "dup_unlock"}})

(* No object is destroyed twice, no locked_release handle ever refers to  *)
(* a destroyed object, and LockedPointer::pointer refers to a live one    *)
(* whenever its mutex is free (replace() may release the old object just  *)
(* before it stores the new one).  It is about replace() releasing under  *)
(* the mutex while handles release outside it, and dup() retaining before *)
(* the mutex is given up.                                                 *)
NoUseAfterFree ==
    /\ \A o \in Objects : deallocs[o] <= 1
    /\ (mutex = NoThread /\ pointer # Null) => state[pointer] = "live"
    /\ \A t \in Threads, i \in Handles :
          handle[t][i] # Null => state[handle[t][i]] = "live"

(* Whenever no thread is inside a call, every live object's count is the  *)
(* number of references held on it: nothing leaks and nothing is freed    *)
(* early, over any interleaving of replace(), dup() and handle copies.    *)
CountMatchesReferences ==
    (\A t \in Threads : pc[t] \in {"idle", "done"})
        => \A o \in Objects : state[o] = "live" => count[o] = Refs(o)
=============================================================================
