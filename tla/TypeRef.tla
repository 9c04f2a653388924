------------------------------ MODULE TypeRef ------------------------------
(***************************************************************************)
(* ucommon TypeRef and ArrayRef (src/corelib/typeref.cpp): smart handles  *)
(* on a TypeRef::Counted heap object with an atomic reference count, and  *)
(* the ArrayRef handle whose Counted object is an Array of references to  *)
(* other Counted objects, which it retains and, in dealloc(), releases.   *)
(*                                                                         *)
(* Each handle belongs to one thread, which alone reads or writes it; the  *)
(* objects, and their counts, are shared.  A handle's `set()` is three     *)
(* steps, since each atomic count operation is a point where another       *)
(* thread's operation on the same object can come between:                 *)
(*   retain the new object (fetch_add), release the old one (fetch_sub,    *)
(*   and dealloc() when it returned < 2, then `ref = NULL`), store.        *)
(* atomic::counter is declared outside src/; its fetch_add/fetch_sub are   *)
(* taken to be the usual ones, returning the value before the change.     *)
(*                                                                         *)
(* A thread's handles are HandlesEach value handles (TypeRef, stringref,  *)
(* byteref) and ArrayHandlesEach ArrayRef handles; a handle is set only   *)
(* from a handle of its own kind.  The objects in ArrayObjects are        *)
(* Arrays, the others values; an array's slots hold values.  Each array   *)
(* belongs to one thread's handles, while values are shared.             *)
(*                                                                         *)
(* At the start every value handle refers to object 1, whose count is the *)
(* number of them: the state after one thread created it and copied the  *)
(* handle for each thread before starting them; ArrayRef handles are      *)
(* empty (ArrayRef()).                                                    *)
(***************************************************************************)
EXTENDS Integers, FiniteSets, Sequences

CONSTANTS
    Threads,      \* threads, each with its own handles
    HandlesEach,  \* value handles each thread owns
    ArrayHandlesEach, \* ArrayRef handles each thread owns
    ArrayObjects, \* the objects that are Arrays
    MaxSize,      \* largest size passed to ArrayRef(size) or resize()
    MaxObjects,   \* objects the run may allocate, object 1 included
    OpsEach,      \* set()/release() calls each thread makes
    SelfAssign    \* whether set(ptr) may be passed the handle it is called on

ASSUME /\ HandlesEach \in Nat \ {0} /\ ArrayHandlesEach \in Nat
       /\ ArrayObjects \subseteq 2..MaxObjects /\ MaxSize \in Nat
       /\ MaxObjects \in Nat \ {0}
       /\ OpsEach \in Nat
       /\ SelfAssign \in BOOLEAN

Handles == Threads \X (1..(HandlesEach + ArrayHandlesEach))
Objects == 1..MaxObjects
Values == Objects \ ArrayObjects
Null == 0

IsArrayHandle(h) == h[2] > HandlesEach

Owned(t) == {h \in Handles : h[1] = t}

VARIABLES
    ref,      \* ref[h]: TypeRef::ref of handle h, an object or Null
    count,    \* count[o]: Counted::count
    state,    \* state[o]: "free" (not allocated yet), "live", or "gone"
    pc,       \* where each thread is
    target,   \* target[t]: the handle t's set() is called on
    source,   \* source[t]: the handle passed to set(const TypeRef&), or Null
    ops,      \* ops[t]: calls t has completed
    deallocs, \* history: dealloc() calls made on each object
    slots     \* slots[a]: the list of Array a, of length Array::size

vars == <<ref, count, state, pc, target, source, ops, deallocs, slots>>

(* Each value handle made with TypeRef(Counted *object) on one shared    *)
(* object 1, which retains it once per handle; each array handle made    *)
(* with TypeRef(), ref = NULL.                                             *)
Init ==
    /\ ref = [h \in Handles |-> IF IsArrayHandle(h) THEN Null ELSE 1]
    /\ count = [o \in Objects |->
                 IF o = 1 THEN Cardinality({h \in Handles : ~IsArrayHandle(h)})
                          ELSE 0]
    /\ state = [o \in Objects |-> IF o = 1 THEN "live" ELSE "free"]
    /\ pc = [t \in Threads |-> "idle"]
    /\ target = [t \in Threads |-> Null]
    /\ source = [t \in Threads |-> Null]
    /\ ops = [t \in Threads |-> 0]
    /\ deallocs = [o \in Objects |-> 0]
    /\ slots = [a \in ArrayObjects |-> <<>>]

-----------------------------------------------------------------------------
(* Times the slots of array a hold object e. *)
Held(a, e) == Cardinality({i \in DOMAIN slots[a] : slots[a][i] = e})

(* d[x] atomic releases of each object x, each a fetch_sub that calls     *)
(* dealloc() when it returned less than `limit`.                          *)
Releases(d, limit) ==
    /\ count' = [x \in Objects |-> count[x] - d[x]]
    /\ deallocs' = [x \in Objects |->
                      deallocs[x] + Cardinality({j \in 0..(d[x] - 1) :
                                                    count[x] - j < limit})]
    /\ state' = [x \in Objects |->
                   IF deallocs'[x] > deallocs[x] THEN "gone" ELSE state[x]]

(* o->release(), with `limit` in place of the code's 2.  When o is an     *)
(* Array and is deallocated, Array::dealloc() first releases every object *)
(* in its list, clears the list and sets size = 0, then                   *)
(* Counted::dealloc() frees it.  The element releases are atomic          *)
(* decrements of objects the array alone can reach through this list, so *)
(* they are one step.                                                     *)
ArrayDealloc(o, limit) ==
    LET freed == o \in ArrayObjects /\ count[o] < limit
    IN /\ Releases([x \in Objects |-> (IF x = o THEN 1 ELSE 0)
                                      + (IF freed THEN Held(o, x) ELSE 0)],
                   limit)
       /\ slots' = IF freed THEN [slots EXCEPT ![o] = <<>>] ELSE slots

(* Deallocates while another reference is still counted. *)
DropRefEarly(o) == ArrayDealloc(o, 3)

(* Deallocates only when the count was already zero. *)
DropRefLate(o) == ArrayDealloc(o, 1)

(* Counted::release(): `if(count.fetch_sub() < 2) dealloc();`. *)
DropRef(o) == ArrayDealloc(o, 2)

(* set(const TypeRef& ptr): `if(ptr.ref) ptr.ref->retain();` *)
SetCopy(t) ==
    /\ pc[t] = "idle"
    /\ ops[t] < OpsEach
    /\ \E h, g \in Owned(t) :
          /\ SelfAssign \/ h # g
          /\ IsArrayHandle(h) = IsArrayHandle(g)
          /\ target' = [target EXCEPT ![t] = h]
          /\ source' = [source EXCEPT ![t] = g]
          /\ IF ref[g] # Null
               THEN count' = [count EXCEPT ![ref[g]] = @ + 1]
               ELSE UNCHANGED count
    /\ pc' = [pc EXCEPT ![t] = "set_release"]
    /\ UNCHANGED <<ref, state, ops, deallocs, slots>>

(* Value o is free memory no thread has yet chosen to allocate; the      *)
(* MaxObjects bound.                                                      *)
Allocatable(o) ==
    /\ state[o] = "free"
    /\ \A u \in Threads : pc[u] \in {"value_new", "created"} => source[u] # o

(* stringref::set(str), byteref::set(str, size), and the stringref(str)  *)
(* and byteref(str, size) constructors:                                  *)
(* `release();` first, then a new value handed to TypeRef::set (SetNew). *)
ValueSet(t) ==
    /\ pc[t] = "idle"
    /\ ops[t] < OpsEach
    /\ \E h \in Owned(t), o \in Values :
          /\ ~IsArrayHandle(h)
          /\ Allocatable(o)
          /\ IF ref[h] # Null THEN DropRef(ref[h])
                              ELSE UNCHANGED <<count, state, deallocs, slots>>
          /\ ref' = [ref EXCEPT ![h] = Null]
          /\ target' = [target EXCEPT ![t] = h]
          /\ source' = [source EXCEPT ![t] = o]
    /\ pc' = [pc EXCEPT ![t] = "value_new"]
    /\ UNCHANGED ops

(* set(Counted *object) with a new object: `new(...) value(...)` makes it *)
(* with count 0, then `object->retain();`.  After ValueSet the handle and *)
(* the object are the ones it chose.                                      *)
SetNew(t) ==
    /\ \/ pc[t] = "idle" /\ ops[t] < OpsEach
       \/ pc[t] = "value_new"
    /\ \E h \in IF pc[t] = "value_new" THEN {target[t]} ELSE Owned(t),
          o \in IF pc[t] = "value_new" THEN {source[t]} ELSE Values :
          /\ ~IsArrayHandle(h)
          /\ pc[t] = "value_new" \/ Allocatable(o)
          /\ state' = [state EXCEPT ![o] = "live"]
          /\ count' = [count EXCEPT ![o] = 1]
          /\ target' = [target EXCEPT ![t] = h]
          /\ source' = [source EXCEPT ![t] = o]
    /\ pc' = [pc EXCEPT ![t] = "new_release"]
    /\ UNCHANGED <<ref, ops, deallocs, slots>>

(* The release() inside set(): drop the old object, `ref = NULL`. *)
SetRelease(t) ==
    /\ pc[t] \in {"set_release", "new_release"}
    /\ LET h == target[t] IN
          /\ IF ref[h] # Null THEN DropRef(ref[h])
                              ELSE UNCHANGED <<count, state, deallocs, slots>>
          /\ ref' = [ref EXCEPT ![h] = Null]
    /\ pc' = [pc EXCEPT ![t] = IF pc[t] = "set_release" THEN "set_store"
                                                         ELSE "new_store"]
    /\ UNCHANGED <<target, source, ops>>

(* set(const TypeRef& ptr), last line: `ref = ptr.ref;`, read now. *)
SetStore(t) ==
    /\ pc[t] = "set_store"
    /\ ref' = [ref EXCEPT ![target[t]] = ref[source[t]]]
    /\ pc' = [pc EXCEPT ![t] = "idle"]
    /\ ops' = [ops EXCEPT ![t] = @ + 1]
    /\ UNCHANGED <<count, state, target, source, deallocs, slots>>

(* set(Counted *object), last line: `ref = object;`. *)
NewStore(t) ==
    /\ pc[t] = "new_store"
    /\ ref' = [ref EXCEPT ![target[t]] = source[t]]
    /\ pc' = [pc EXCEPT ![t] = "idle"]
    /\ ops' = [ops EXCEPT ![t] = @ + 1]
    /\ UNCHANGED <<count, state, target, source, deallocs, slots>>

(* TypeRef(const TypeRef& copy), and the stringref and byteref copy     *)
(* constructors, making handle h, empty until now, a copy of g: `ref =    *)
(* copy.ref; if(ref) ref->retain();`.  g holds a count on the object      *)
(* throughout, so no other thread can free it in between: one step.       *)
CopyConstruct(t) ==
    /\ pc[t] = "idle"
    /\ ops[t] < OpsEach
    /\ \E h, g \in Owned(t) :
          /\ ref[h] = Null /\ h # g
          /\ IsArrayHandle(h) = IsArrayHandle(g)
          /\ ref' = [ref EXCEPT ![h] = ref[g]]
          /\ IF ref[g] # Null
               THEN count' = [count EXCEPT ![ref[g]] = @ + 1]
               ELSE UNCHANGED count
    /\ ops' = [ops EXCEPT ![t] = @ + 1]
    /\ UNCHANGED <<state, pc, target, source, deallocs, slots>>

(* stringref::create(size) / byteref::create(size): a new value, count 0, *)
(* that t holds by a raw pointer (source[t]) until it assigns or destroys *)
(* it; meanwhile t makes no other call.                                   *)
CreateValue(t) ==
    /\ pc[t] = "idle"
    /\ ops[t] < OpsEach
    /\ \E o \in Values :
          /\ Allocatable(o)
          /\ state' = [state EXCEPT ![o] = "live"]
          /\ count' = [count EXCEPT ![o] = 0]
          /\ source' = [source EXCEPT ![t] = o]
    /\ ops' = [ops EXCEPT ![t] = @ + 1]
    /\ pc' = [pc EXCEPT ![t] = "created"]
    /\ UNCHANGED <<ref, target, deallocs, slots>>

(* value::destroy(): `count.clear(); release();`, and the fetch_sub of a *)
(* count of 0 returns 0 < 2: dealloc().  The count of freed memory is    *)
(* left as it was.                                                        *)
ValueDestroy(o) ==
    /\ state' = [state EXCEPT ![o] = "gone"]
    /\ deallocs' = [deallocs EXCEPT ![o] = @ + 1]

(* stringref::destroy(chars) / byteref::destroy(bytes) on the value t     *)
(* created: `if(chars) chars->destroy();`.                                *)
Destroy(t) ==
    /\ pc[t] = "created"
    /\ ValueDestroy(source[t])
    /\ source' = [source EXCEPT ![t] = Null]
    /\ pc' = [pc EXCEPT ![t] = "idle"]
    /\ UNCHANGED <<ref, count, target, ops, slots>>

(* stringref::expand(handle, size): create a larger value, copy the text, *)
(* destroy the old one and store the new one through `handle`.            *)
Expand(t) ==
    /\ pc[t] = "created"
    /\ ops[t] < OpsEach
    /\ \E o \in Values :
          /\ Allocatable(o)
          /\ state' = [state EXCEPT ![o] = "live", ![source[t]] = "gone"]
          /\ deallocs' = [deallocs EXCEPT ![source[t]] = @ + 1]
          /\ count' = [count EXCEPT ![o] = 0]
          /\ source' = [source EXCEPT ![t] = o]
    /\ ops' = [ops EXCEPT ![t] = @ + 1]
    /\ UNCHANGED <<ref, pc, target, slots>>

(* stringref::assign(chars) / byteref::assign(bytes), and operator= of a *)
(* value, into handle h: `release();` then TypeRef::set(chars): retain,   *)
(* release() of the now empty handle, `ref = chars`.  The value is t's    *)
(* alone, so nothing can come between the retain and the store.          *)
AssignValue(t) ==
    /\ pc[t] = "created"
    /\ \E h \in Owned(t) :
          /\ ~IsArrayHandle(h)
          /\ Releases([x \in Objects |-> (IF x = ref[h] THEN 1 ELSE 0)
                                          - (IF x = source[t] THEN 1 ELSE 0)], 2)
          /\ ref' = [ref EXCEPT ![h] = source[t]]
    /\ source' = [source EXCEPT ![t] = Null]
    /\ pc' = [pc EXCEPT ![t] = "idle"]
    /\ UNCHANGED <<target, ops, slots>>

(* TypeRef::release() without `ref = NULL`. *)
ReleaseKeepsRef(t) ==
    /\ \/ pc[t] = "idle" /\ ops[t] < OpsEach
       \/ pc[t] = "exit"
    /\ \E h \in Owned(t) :
          /\ ref[h] # Null
          /\ DropRef(ref[h])
          /\ UNCHANGED ref
    /\ ops' = IF pc[t] = "idle" THEN [ops EXCEPT ![t] = @ + 1] ELSE ops
    /\ UNCHANGED <<pc, target, source>>

(* TypeRef::release(), also what ~TypeRef() does: `if(ref)             *)
(* ref->release(); ref = NULL;`.  A finished thread's handles are        *)
(* destroyed this way.                                                   *)
Release(t) ==
    /\ \/ pc[t] = "idle" /\ ops[t] < OpsEach
       \/ pc[t] = "exit"
    /\ \E h \in Owned(t) :
          /\ ref[h] # Null
          /\ DropRef(ref[h])
          /\ ref' = [ref EXCEPT ![h] = Null]
    /\ ops' = IF pc[t] = "idle" THEN [ops EXCEPT ![t] = @ + 1] ELSE ops
    /\ UNCHANGED <<pc, target, source>>

-----------------------------------------------------------------------------
(* The list of a new Array(addr, size): `list[index++] = NULL` for every  *)
(* index.                                                                 *)
ArrayList(n) == [i \in 1..n |-> Null]

(* Array::assign(index, object) without `object->retain()`. *)
SlotAssignNoRetain(a, i, e) ==
    /\ LET old == slots[a][i]
       IN Releases([x \in Objects |-> IF x = old THEN 1 ELSE 0], 2)
    /\ slots' = [slots EXCEPT ![a][i] = e]

(* Array::assign(index, object) on an index below size: `if(object)       *)
(* object->retain();`, `replace = get(index)`, `if(replace)               *)
(* replace->release();`, `list[index] = object`.  The array belongs to    *)
(* the calling thread and both objects stay referenced by it throughout  *)
(* (by the caller's handle and by the slot), so no other thread's count  *)
(* operation can change what this one does: one step.                    *)
SlotAssign(a, i, e) ==
    /\ LET old == slots[a][i]
       IN Releases([x \in Objects |-> (IF x = old THEN 1 ELSE 0)
                                      - (IF x = e THEN 1 ELSE 0)], 2)
    /\ slots' = [slots EXCEPT ![a][i] = e]

(* ArrayRef::assign(index, t): `if(!array || index >= array->size)       *)
(* return;`, then array->assign(index, t.ref).                           *)
ArrayAssign(t) ==
    /\ pc[t] = "idle"
    /\ ops[t] < OpsEach
    /\ ops' = [ops EXCEPT ![t] = @ + 1]
    /\ \E h, g \in Owned(t), i \in 1..MaxSize :
          /\ IsArrayHandle(h) /\ ~IsArrayHandle(g)
          /\ IF ref[h] # Null /\ i <= Len(slots[ref[h]])
               THEN SlotAssign(ref[h], i, ref[g])
               ELSE UNCHANGED <<count, state, deallocs, slots>>
    /\ UNCHANGED <<ref, pc, target, source>>

(* ArrayRef::reset(var): `if(!array || !array->size || !object) return;` *)
(* then array->assign(index, object) for every index, in one step as     *)
(* each assign is.                                                        *)
ArrayReset(t) ==
    /\ pc[t] = "idle"
    /\ ops[t] < OpsEach
    /\ ops' = [ops EXCEPT ![t] = @ + 1]
    /\ \E h, g \in Owned(t) :
          /\ IsArrayHandle(h) /\ ~IsArrayHandle(g)
          /\ IF ref[h] # Null /\ slots[ref[h]] # <<>> /\ ref[g] # Null
               THEN LET a == ref[h]
                        n == Len(slots[a])
                    IN /\ Releases([x \in Objects |->
                                      Held(a, x) - (IF x = ref[g] THEN n ELSE 0)], 2)
                       /\ slots' = [slots EXCEPT ![a] = [i \in 1..n |-> ref[g]]]
               ELSE UNCHANGED <<count, state, deallocs, slots>>
    /\ UNCHANGED <<ref, pc, target, source>>

(* ArrayRef::resize(size), and ArrayRef(size) on an empty handle:         *)
(* create(size) is NULL for size 0 and otherwise a new Array with a NULL  *)
(* list; while both arrays exist, array->assign(index,                   *)
(* current->get(index)) copies (and retains) the first entries; then      *)
(* TypeRef::set(array) retains the new array and goes on as               *)
(* set(Counted *object) does: SetRelease drops the old array             *)
(* (Array::dealloc releasing its entries), then NewStore.                 *)
Resize(t) ==
    /\ pc[t] = "idle"
    /\ ops[t] < OpsEach
    /\ \E h \in Owned(t), n \in 0..MaxSize :
          /\ IsArrayHandle(h)
          /\ target' = [target EXCEPT ![t] = h]
          /\ IF n = 0
               THEN /\ source' = [source EXCEPT ![t] = Null]
                    /\ UNCHANGED <<count, state, deallocs, slots>>
               ELSE \E o \in ArrayObjects :
                      /\ state[o] = "free"
                      /\ source' = [source EXCEPT ![t] = o]
                      /\ LET cur == IF ref[h] = Null THEN <<>> ELSE slots[ref[h]]
                             list == [i \in 1..n |->
                                        IF i <= Len(cur) THEN cur[i]
                                                         ELSE ArrayList(n)[i]]
                         IN /\ slots' = [slots EXCEPT ![o] = list]
                            /\ count' = [x \in Objects |->
                                           IF x = o THEN 1
                                           ELSE count[x] + Cardinality(
                                                  {i \in 1..n : list[i] = x})]
                      /\ state' = [state EXCEPT ![o] = "live"]
                      /\ UNCHANGED deallocs
    /\ pc' = [pc EXCEPT ![t] = "new_release"]
    /\ UNCHANGED <<ref, ops>>

(* t is done with its calls; its handles go out of scope. *)
Exit(t) ==
    /\ pc[t] = "idle"
    /\ ops[t] = OpsEach
    /\ pc' = [pc EXCEPT ![t] = "exit"]
    /\ UNCHANGED <<ref, count, state, target, source, ops, deallocs, slots>>

Terminated ==
    /\ \A t \in Threads : pc[t] = "exit" /\ \A h \in Owned(t) : ref[h] = Null
    /\ UNCHANGED vars

Step(t) ==
    \/ SetCopy(t) \/ SetNew(t) \/ SetRelease(t) \/ SetStore(t) \/ NewStore(t)
    \/ Release(t) \/ Exit(t)
    \/ ValueSet(t) \/ ArrayAssign(t) \/ ArrayReset(t) \/ Resize(t)
    \/ CopyConstruct(t) \/ CreateValue(t) \/ Destroy(t) \/ Expand(t)
    \/ AssignValue(t)

Next == (\E t \in Threads : Step(t)) \/ Terminated

Spec == Init /\ [][Next]_vars


-----------------------------------------------------------------------------
TypeOK ==
    /\ ref \in [Handles -> Objects \cup {Null}]
    /\ count \in [Objects -> Nat]
    /\ state \in [Objects -> {"free", "live", "gone"}]
    /\ pc \in [Threads -> {"idle", "set_release", "set_store", "value_new",
                            "new_release", "new_store", "created", "exit"}]
    /\ ops \in [Threads -> 0..OpsEach]
    /\ deallocs \in [Objects -> Nat]
    /\ slots \in [ArrayObjects -> Seq(Values \cup {Null})]

(* No use after free: an object is deallocated at most once, and never    *)
(* while a handle still refers to it.  It is about Counted::release()     *)
(* deciding from the value fetch_sub returned while other threads retain  *)
(* and release the same object, and set() retaining before releasing.    *)
NoUseAfterFree ==
    /\ \A o \in Objects : deallocs[o] <= 1
    /\ \A h \in Handles : ref[h] # Null => state[ref[h]] = "live"
    /\ \A a \in ArrayObjects, i \in 1..MaxSize :
          state[a] = "live" /\ i \in DOMAIN slots[a] /\ slots[a][i] # Null
             => state[slots[a][i]] = "live"

(* No leak: once every thread has gone and its handles are destroyed,     *)
(* every object allocated has been deallocated (spec: release() destroys  *)
(* the object when its count reaches zero).                               *)
NoLeakAtExit ==
    (\A t \in Threads : pc[t] = "exit" /\ \A h \in Owned(t) : ref[h] = Null)
        => \A o \in Objects : state[o] # "live"

(* References to o: the handles that refer to it and the entries of live *)
(* arrays that hold it.                                                  *)
RefsTo(o) ==
    Cardinality({h \in Handles : ref[h] = o})
    + Cardinality({ai \in ArrayObjects \X (1..MaxSize) :
                     /\ state[ai[1]] = "live"
                     /\ ai[2] \in DOMAIN slots[ai[1]]
                     /\ slots[ai[1]][ai[2]] = o})

(* Between calls, the count of every live object is its number of        *)
(* references.  It is about every path that moves a reference: set()     *)
(* retaining before it releases, Array::assign retaining the new entry   *)
(* and releasing the one it replaces, resize() retaining what it copies  *)
(* and Array::dealloc() releasing every entry.                           *)
CountIsReferences ==
    (\A t \in Threads : pc[t] \in {"idle", "exit"})
        => \A o \in Objects : state[o] = "live" => count[o] = RefsTo(o)
=============================================================================
