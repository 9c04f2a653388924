--------------------------- MODULE SharedPointer ---------------------------
(***************************************************************************)
(* ucommon SharedPointer and shared_release (src/src/thread.cpp, lines    *)
(* 404-439 and 1001-1047): a pointer to a SharedObject behind a pthread   *)
(* read/write lock.  replace() takes the write lock and deletes the old   *)
(* object; a shared_release handle takes the read lock through share()   *)
(* and gives it back in release(), and get() reads the pointer it guards. *)
(* Objects are not counted: the read lock alone keeps the object alive.   *)
(*                                                                         *)
(* The rwlock is created with default attributes: glibc lets a reader in  *)
(* whenever no writer holds the lock, and a writer in when there is no    *)
(* holder at all; it keeps a count of readers, not their identities.      *)
(* `got[t][i]` is the object t last read through its i-th handle and may  *)
(* still use; the copy constructor copies the SharedPointer address only. *)
(***************************************************************************)
EXTENDS Naturals

CONSTANTS
    Threads,       \* threads using the pointer
    Objects,       \* SharedObject instances callers may pass to replace()
    HandlesEach,   \* shared_release handles each thread owns
    OpsEach,       \* calls each thread makes
    Null           \* NULL

ASSUME /\ Null \notin Objects
       /\ HandlesEach \in Nat \ {0} /\ OpsEach \in Nat

Handles == 1..HandlesEach

VARIABLES
    pointer,   \* SharedPointer::pointer
    state,     \* state[o]: "free" (not yet created), "live" or "gone"
    readers,   \* the rwlock's count of read locks held
    handle,    \* handle[t][i]: shared_release::ptr is set (= &p)
    got,       \* got[t][i]: the object get() returned through that handle
    pc,        \* where each thread is
    newObj,    \* newObj[t]: the object t's replace() installs
    ops        \* ops[t]: calls t has made

vars == <<pointer, state, readers, handle, got, pc, newObj, ops>>

Init ==
    /\ pointer = Null
    /\ state = [o \in Objects |-> "free"]
    /\ readers = 0
    /\ handle = [t \in Threads |-> [i \in Handles |-> FALSE]]
    /\ got = [t \in Threads |-> [i \in Handles |-> Null]]
    /\ pc = [t \in Threads |-> "idle"]
    /\ newObj = [t \in Threads |-> Null]
    /\ ops = [t \in Threads |-> 0]

(* t holds no read lock through any of its handles. *)
HoldsNoHandle(t) == \A i \in Handles : ~handle[t][i]

(* pthread_rwlock_unlock by a reader.  Below zero glibc's count is        *)
(* corrupt; the model leaves it at zero.                                 *)
ReadUnlock == readers' = IF readers > 0 THEN readers - 1 ELSE 0

(* SharedPointer::share(): pthread_rwlock_rdlock, granted at once since  *)
(* no write lock outlives a step; glibc counts one more reader.          *)
ReadLock == readers + 1

-----------------------------------------------------------------------------
(* The caller creates a SharedObject and calls replace(ptr).  A thread    *)
(* that holds a read lock itself would wait for its own lock for ever, so *)
(* callers replace only with their handles released.                     *)
ReplaceBegin(t) ==
    /\ pc[t] = "idle"
    /\ ops[t] < OpsEach
    /\ HoldsNoHandle(t)
    /\ \E o \in Objects :
          /\ state[o] = "free"
          /\ state' = [state EXCEPT ![o] = "live"]
          /\ newObj' = [newObj EXCEPT ![t] = o]
    /\ ops' = [ops EXCEPT ![t] = @ + 1]
    /\ pc' = [pc EXCEPT ![t] = "wrlock"]
    /\ UNCHANGED <<pointer, readers, handle, got>>

(* replace(): pthread_rwlock_wrlock, granted when no read lock is held;  *)
(* `if(pointer) delete pointer;`, `pointer = ptr;`, ptr->commit(this) (a *)
(* no-op), pthread_rwlock_unlock.  Nothing else can happen while the     *)
(* write lock is held, so it is one step.                                 *)
Replace(t) ==
    /\ pc[t] = "wrlock"
    /\ readers = 0
    /\ state' = IF pointer # Null THEN [state EXCEPT ![pointer] = "gone"]
                                  ELSE state
    /\ pointer' = newObj[t]
    /\ newObj' = [newObj EXCEPT ![t] = Null]
    /\ pc' = [pc EXCEPT ![t] = "idle"]
    /\ UNCHANGED <<readers, handle, got, ops>>

(* shared_release r(p), or r = p: release() the handle (unlock if `ptr`  *)
(* is set), `ptr = &p;`, then p.share().                                 *)
Share(t, i) ==
    /\ pc[t] = "idle"
    /\ ops[t] < OpsEach
    /\ ops' = [ops EXCEPT ![t] = @ + 1]
    /\ readers' = IF handle[t][i] /\ readers > 0 THEN readers ELSE ReadLock
    /\ handle' = [handle EXCEPT ![t][i] = TRUE]
    /\ got' = [got EXCEPT ![t][i] = Null]
    /\ UNCHANGED <<pointer, state, pc, newObj>>

(* shared_release::get(): `ptr->pointer`, which t goes on to use. *)
Get(t, i) ==
    /\ pc[t] = "idle"
    /\ ops[t] < OpsEach
    /\ handle[t][i]
    /\ ops' = [ops EXCEPT ![t] = @ + 1]
    /\ got' = [got EXCEPT ![t][i] = pointer]
    /\ UNCHANGED <<pointer, state, readers, handle, pc, newObj>>

(* shared_release(const shared_release &copy) into t's unused handle j:  *)
(* `ptr = copy.ptr;` and no read lock of its own.                        *)
Copy(t, i, j) ==
    /\ pc[t] = "idle"
    /\ ops[t] < OpsEach
    /\ handle[t][i] /\ ~handle[t][j]
    /\ ops' = [ops EXCEPT ![t] = @ + 1]
    /\ handle' = [handle EXCEPT ![t][j] = TRUE]
    /\ UNCHANGED <<pointer, state, readers, got, pc, newObj>>

(* shared_release::release(), or its destructor once t has made all its  *)
(* calls: `if(ptr) ptr->release(); ptr = NULL;` (rwlock unlock).         *)
Release(t, i) ==
    /\ pc[t] = "idle"
    /\ handle[t][i]
    /\ ops' = [ops EXCEPT ![t] = IF @ < OpsEach THEN @ + 1 ELSE @]
    /\ ReadUnlock
    /\ handle' = [handle EXCEPT ![t][i] = FALSE]
    /\ got' = [got EXCEPT ![t][i] = Null]
    /\ UNCHANGED <<pointer, state, pc, newObj>>

Finish(t) ==
    /\ pc[t] = "idle"
    /\ ops[t] = OpsEach
    /\ HoldsNoHandle(t)
    /\ pc' = [pc EXCEPT ![t] = "done"]
    /\ UNCHANGED <<pointer, state, readers, handle, got, newObj, ops>>

Terminated ==
    /\ \A t \in Threads : pc[t] = "done"
    /\ UNCHANGED vars

Next ==
    \/ \E t \in Threads :
          \/ ReplaceBegin(t) \/ Replace(t) \/ Finish(t)
          \/ \E i \in Handles : Share(t, i) \/ Get(t, i) \/ Release(t, i)
          \/ \E i, j \in Handles : Copy(t, i, j)
    \/ Terminated

Spec == Init /\ [][Next]_vars

-----------------------------------------------------------------------------
TypeOK ==
    /\ pointer \in Objects \cup {Null}
    /\ state \in [Objects -> {"free", "live", "gone"}]
    /\ readers \in Nat
    /\ handle \in [Threads -> [Handles -> BOOLEAN]]
    /\ got \in [Threads -> [Handles -> Objects \cup {Null}]]
    /\ pc \in [Threads -> {"idle", "wrlock", "done"}]

(* An object a thread obtained through a shared_release is not deleted    *)
(* while that handle is held: replace() must wait for every read lock.    *)
(* It is about the copy constructor, which shares `ptr` without a read    *)
(* lock of its own, so that releasing the copy gives up the original's.   *)
HeldObjectLive ==
    \A t \in Threads, i \in Handles :
        (handle[t][i] /\ got[t][i] # Null) => state[got[t][i]] = "live"
=============================================================================
