# TLA+ models of the ucommon threading primitives and reference handles

This directory holds TLA+ specifications of GNU ucommon (commoncpp) and the TLC
configurations that check them:

- the synchronisation objects of `src/src/thread.cpp`;
- the reference-counted handles of `src/corelib/typeref.cpp`;
- the stream buffering of `src/common/protocols.cpp`.

Every action is translated from the C++ source. `PROJECT.json` maps each
definition to the source lines it models. It also lists every run, the mutant
that shows each checked property can fail, the findings, and the hazards of the
code with the properties that cover them.

## The system

`thread.cpp` builds every blocking object from one pthread mutex and one
condition variable:

| Part | Source | State | Operations |
|---|---|---|---|
| Event | thread.cpp 24-90 | `signalled`, `count`, cond | signal, reset, wait, wait(Timer&) |
| Semaphore | 92-205 | `count`, `used`, `waits`, cond | Shlock/wait, Unlock, set |
| Conditional | 219-307 | mutex, cond, `locked`, `locker` | Exlock, Unlock, signal, wait(timeout), wait(Timer&) |
| Queue | 596-717 | list head..tail, freelist, `used`, `limit` (+ Conditional) | post, fifo, lifo, remove, getCount |
| Stack | 720-817 | usedlist, freelist, `used`, `limit` (+ Conditional) | push, pull, remove, getCount |
| Buffer | 819-950 | ring `buf`, `head`, `tail`, `used`, `size` (+ Conditional) | post, pull, wait, peek |
| LockedPointer, locked_release | 376-402, 966-999 | an Object pointer under a mutex; handles holding a retained copy | replace, dup, copy, assign, release |
| SharedPointer, shared_release | 404-439, 1001-1047 | a SharedObject pointer under a rwlock; handles holding a read lock | replace, share, get, copy, release |
| Thread | 466-594 | `running`, `detached`, `tid` | start, exec_thread, release, delete |
| Mutex, Spinlock, Barrier, Threadlock | 15-21, 309-372, 441-464 | pthread handles | one pthread call each |
| ConditionalAccess | condition.h 236-379 | mutex, signal and broadcast conds, `pending`, `waiting`, `sharing` | access, release, modify, commit |
| ConditionalLock | condition.h 391-451 | a ConditionalAccess and a Context (`count`) per thread | exclusive, share (and ConditionalAccess's) |

Other parts of `src/`:

- `src/corelib/typeref.cpp`: TypeRef handles on `Counted` objects with an atomic count, and ArrayRef, whose Array holds references to other objects. stringref and byteref are value handles of the same kind.
- `src/common/protocols.cpp`: BufferProtocol, the sequential buffer a stream class keeps between its callers and a peer, and MemoryProtocol/MemoryRedirect.
- The headers (mostly declarations), a command-line parser (`args.cpp`) and two tests.

How the parts interact:

- Queue, Stack and Buffer inherit Conditional. They lock with its `Exlock()` and wait with its `Conditional::wait`.
- `Conditional::wait` decides whether its caller already holds the mutex by reading `locked` and `locker`. It reads them once before the condition wait and once after. Every thread's `Exlock()` and `Unlock()` rewrites those two fields.
- Event and Semaphore each use a private mutex and condition variable. They do not depend on Conditional.
- LockedPointer hands out objects whose `retain()`/`release()` are the object's own (atomic, or CountedObject's plain `volatile unsigned`).
- TypeRef's ArrayRef retains and releases the value objects that other TypeRef handles share.

The hard behaviours are those of threads:

- any interleaving of the locked regions and of the atomic count operations;
- condition waits that wake one waiter, any one, or nobody;
- spurious wake-ups;
- deadlines that pass;
- state computed under one lock and used under another;
- a list linked outside the lock, a count updated outside the lock.

BufferProtocol is used by one thread. Its hard behaviour is the peer: reads return short and writes stop part way.

`PROJECT.json` lists each hazard at the line where it occurs.

## Modules

**Semaphore.tla.**
- One step is one locked region. Every member is accessed with the mutex held, and the only blocking point inside is `pthread_cond_wait`, so the mutex needs no variable.
- `cv` is the set of threads blocked on the condition variable.
- `Acquire` models `Shlock` and `wait(timeout)` up to the first test. `Recheck` is the re-test after a wake-up. `Expire` is a deadline passing. `SpuriousWakeup` is a wake-up without a signal.
- `Release` is `Unlock()`.
- `set()` is split at its unlock: `Set` is the first locked region, and `SetSignal`/`SetDone` are the `while(diff--)` loop, one signal per locked region.

**SemaphoreSpec.tla** is what a Semaphore promises, with no waiting in it.
- `holders` is a set that an `Acquire` joins only while it has fewer than `count` members.
- `Release` leaves the set, and `Set` changes `count` at any time.
- Semaphore.tla instantiates it as `Abstract`, mapping `holders` to the threads whose pc is `"holding"`.
- `ImplementsSemaphoreSpec` (`Abstract!Spec`) is checked as a PROPERTY. Every step of the code is either one of these abstract steps or a stutter.

**Event.tla.**
- The same style as Semaphore: `WaitBegin`, `Recheck`, `Expire`, `SpuriousWakeup`, `Signal` (a broadcast) and `Reset`.
- `Reset` stores `signalled = true`, as the code does (thread.cpp:51).
- Two history variables exist only for the properties. `sigSinceReset` records whether a signal has happened since the last reset. `sawSignal[t]` records whether a signal that t may rely on has arrived during t's wait.
- There is no type invariant. The variables keep their ranges by the shape of the actions, and no slip in `signal()`, `reset()` or the wait loop could take one out of its range, so such an invariant would check nothing about the code.

**Conditional.tla.**
- The mutex is an owner variable `mutex`. The code uses a glibc normal mutex (default attributes), so `Unlock` frees it whoever holds it.
- `locked` and `locker` are the members of the same names.
- `Conditional::wait` is split into stages in `cw[t]`:
  - the first `locked`/`locker` test (`WaitBegin`);
  - the lock (`WaitLock`);
  - blocked;
  - woken by a signal, a deadline (`WaitExpire`) or spuriously (`WaitSpurious`);
  - retaking the mutex and re-testing `locked`/`locker` (`WaitEnd`).
- The operators without UNCHANGED (`ExlockOp`, `UnlockOp`, `SignalOp`) let a caller combine them within one step.

**Queue.tla** extends Conditional.
- `post()` is split at every point where another thread can matter: `PostBegin` (Exlock), `PostCheck`, `PostWaited`, `PostInc` (`++used`, Unlock), `PostLink` (the member constructor links itself with no lock), `PostLock` and `PostSignal`.
- `fifo()`/`lifo()` are `DequeueBegin` (Exlock, then straight into the condition wait), `DequeueWaited` and `DequeueTake`.
- `remove()` is `RemoveBegin` and `RemoveScan`: the member is unlinked, `used` goes down, and the mutex is released with no signal. `getCount()` is `GetCount`.
- `DequeueOps` chooses which consumer calls a run makes.
- Objects are the pairs `<<producer, i>>`.
- `Queue::limit` is 0 after the constructor in `thread.cpp`. The class declaration is not under `src/`, and the spec gives the queue a capacity. `Limit > 0` is therefore checked as the capacity a bounded queue is given.

**Stack.tla** extends Conditional like Queue.
- `push()`: `PushBegin`, `PushCheck`, `PushWaited`, `PushInc`, `PushLink` (the member links itself at the front of `usedlist` after `Unlock()`), `PushLock`, `PushSignal`.
- `pull()`: `PullBegin`, `PullWaited`, `PullTake`. `PullTake` leaves `used` alone, as `pull()` does.
- `remove()` and `getCount()` as in Queue; `PullOps` chooses among them.

**Buffer.tla** extends Conditional.
- `head` and `tail` are slot indices. Slot `Size` is the memory just past the ring, which `onPost` can reach.
- `used` is a `size_t` of `Width` bits.
- `PostCheck` is the `used == size` test followed, when there is room, by the whole rest of `post()` (onPost, `++used`, signal, Unlock), all under one lock.
- `TakeBegin`/`TakeWaited`/`Take` are `wait()` and `pull()`. `Peek` is `peek()`, which copies `onPeek()` (the head slot) when `used` is not 0.
- `NextTail`, `NextHead`, `PrevTail` are the pointer arithmetic of `onPost`, `onWait`, `onPull`.
- `fifo` is a history variable: the objects posted and not taken, which `wait()` must hand out in order.

**LockedPointer.tla** models LockedPointer and locked_release.
- `replace()` is `ReplaceBegin`, `ReplaceLock` (retain the new object), `ReplaceRelease` (release the old one) and `ReplaceStore`.
- `dup()` is `DupLock` (read the pointer and retain it under the mutex) and `DupUnlock`. `Assign` is `locked_release = p`, `Copy` the copy constructor, `Release` the release() a handle makes outside the mutex.
- `retain()`/`release()` belong to the object's class, which is not under `src/`. The constant `AtomicCount` chooses how the count is kept:
  - TRUE: each is one atomic step (`AtomicSpec`, whose next-state relation leaves out the separate store);
  - FALSE: CountedObject's `volatile unsigned`, read in one step and written back in a later `Store` step.

**SharedPointer.tla** models SharedPointer and shared_release.
- `readers` is the rwlock's count of read locks. glibc counts readers, not who they are.
- `ReplaceBegin` creates the new object; `Replace` takes the write lock once no read lock is held, deletes the old object and stores the new one.
- `Share` is `shared_release r(p)` / `r = p` (release, then `share()`, which is `ReadLock`). `Get` reads the pointer. `Copy` is the copy constructor, which copies `ptr` and takes no lock. `Release` unlocks.
- `got[t][i]` is the object t last read through handle i and may still use.

**TypeRef.tla** models `src/corelib/typeref.cpp`.
- Handles belong to threads. Each thread alone touches its own handles, while the objects and their atomic counts are shared.
- `set()` is three steps, split at its atomic count operations: retain the new object (`SetCopy`/`SetNew`), `release()` the old one (`SetRelease`), and store (`SetStore`/`NewStore`).
- `DropRef` is `Counted::release()` with its `fetch_sub() < 2` test and `dealloc()`. For an Array, `dealloc()` releases every entry (`ArrayDealloc`).
- `CopyConstruct` is the copy constructors. `CreateValue`, `Expand`, `AssignValue` and `Destroy` are `TypeRef::create`, `expand`, `assign` and `destroy` over a value the thread has not yet shared.
- `ArrayAssign`, `ArrayReset` and `Resize` are ArrayRef's `assign`, `reset` and `resize`, which retain and release the entries.
- `Release` is `TypeRef::release()` and the destructor. `Exit` is a thread dropping its handles at the end.
- At the start, every value handle refers to object 1 with the matching count. That is the state after the creating thread copied a handle for each thread before starting them.
- `SelfAssign` controls whether `set()` may be passed the handle it is called on. The typeref run keeps it FALSE (see "Findings not checked by a run").

**BufferProtocol.tla** models `src/common/protocols.cpp` 73-401.
- `inbuf` and `outbuf` are `input[0..insize)` and `output[0..outsize)`. A byte is named by its place in the peer's stream or in what the caller wrote.
- Each call (`get`, `_getch`, `getline`, `put`, `putline`, `_putch`) is a `...Begin` action and one step per pass of the code's loop (`ReadPass`, `WritePass`, `GetlineStep`, ...).
- `_pull()` may return any size up to what was asked; with `Blocking = FALSE` a short read sets `end`. `_push()` may stop part way when `PushFails`, which disconnects.
- `Flush`, `Purge`, `Reset`, `Release`, `Allocate` and `Request` are the whole functions. `Printf` is `printf()`: flush, `vsnprintf` truncated to the buffer, then a push.
- `pulled`, `taken`, `written`, `pushed` and `lost` are history variables for the properties.

**Thread.tla** models the Thread lifecycle (thread.cpp 466-594).
- `running`, `detached` and `tid` are read before anything in `src/` writes them, so their first values are a nondeterministic choice (uninitialised reads). Nothing in `src/` sets `running` to true.
- `Start` is `start()`; `Run` is `exec_thread()` running `run()`; `SelfRelease` and `SelfJoin` are the pthread's own `release()`; `Delete` and `DeleteJoined` are the owner's `delete`, through `~Thread()`'s `release()`; `Abandon` is an owner that started the thread detached.
- `SchedPriority(pri)` is `setPriority()`'s arithmetic: `(int)pri`, the unsigned `+= priority`, `+= min` and the cap at max, in `Width`-bit integers. `Run` applies it with 0, as `exec_thread()` does; `SetPriority` is the owner's call. `sched[k]` is the priority pthread k was given.
- It has no run (see "Findings not checked by a run"). `MCThreadJoin.cfg` checks `ObjectOutlivesThreads`, which TLC finds violated in two steps. `MCThreadPriority.cfg` checks `SchedInRange`, which TLC finds violated in two steps.

**Locks.tla** models Mutex, Spinlock, Barrier and Threadlock.
- Each constructor is an `...Init` conjunct and each operation one action, with the glibc behaviour of its one pthread call. A call that would block is an action that is not enabled.
- The Mutex is recursive (`depth` counts the owner's locks). `MutexKinds` also allows a normal mutex, which a Mutex with static storage in another file gets when it is constructed before `Mutex::attr`.
- `SpinTest` is `operator!()`: `pthread_spin_trylock`, which takes a free lock.
- Threadlock's rwlock prefers readers and counts them (`readers`), as glibc's default does.
- It has no run: each operation is the pthread primitive itself. `MCLocks.cfg` checks `TypeOK` over three threads.

**ConditionalAccess.tla** models the shared/exclusive lock of `condition.h` (accesslock_t).
- The header declares its fields and the inline `lock()`, `waitSignal()`, `waitBroadcast()`, `signal()` and `broadcast()`; the bodies of `access()`, `release()`, `modify()` and `commit()` are not in the repository, so those actions follow the spec (marked spec-modelled in the map).
- `mutex` is the holder of the one mutex; `cond` and `bcast` are the threads blocked on the signal and the broadcast condition. A wait gives up the mutex; a wake-up is a separate step that re-takes it (`AccessWake`, `ModifyWake`) and re-tests the counter.
- `Access` waits while `pending > 0` (writers go first); `Modify` waits while `sharing > 0` and holds the mutex until `Commit`. `Release` signals one writer when the last reader leaves and writers are pending, else broadcasts; `Commit` wakes every waiter on both conditions.
- `SpuriousWakeup` (with `Spurious`) wakes a waiter with no signal. `rounds` bounds each thread to `RoundsEach` lock/unlock cycles.
- `Abstract` instantiates **AccessLockSpec.tla**, the promise with no counters: readers share only with no writer, a writer enters only alone. The refinement maps `shared` to the readers in pc "shared" and `exclusive` to the writer in pc "exclusive". AccessLockSpec also has `Upgrade` (the only sharer becomes the exclusive holder in one step) and `Downgrade`, for ConditionalLock.

**ConditionalLock.tla** extends ConditionalAccess with ConditionalLock's `exclusive()` and `share()`, from the spec (section 4.2); the header gives only the Context with its `count`.
- `Exclusive` is `exclusive()` by a sharer: it becomes the exclusive holder at once if `sharing == 1`, else it waits as `modify()` does (`++pending`, `waitSignal`), keeping its shared access. `ExclusiveWake` re-tests `sharing == 1` after a wake-up.
- `depth` is the Context count: `ExclusiveAgain` is a nested `exclusive()`, and only the outermost `Share` gives the exclusive access back (`sharing = 1`, wake both conditions, unlock).
- `UpgradeAbstract` maps a waiting upgrader to a sharer and an upgraded one to the exclusive holder, so `ImplementsUpgradeLockSpec` says no writer gets in between the two.
- It has no run (see "Findings not checked by a run"). MCConditionalLock.cfg (readers r1, r2, upgrader r1, writer w1, two rounds, nesting 2) finds `ImplementsUpgradeLockSpec` true and `UpgraderEventuallyExclusive` violated.

Each `MC*.tla` module declares the threads and objects as model values for its cfgs.

## Runs

| Run | cfg | Expect | What it shows |
|---|---|---|---|
| semaphore | MCSemaphore.cfg | pass | 3 threads, limit 1, `set()` to 1 or 2. `NoLostWakeup`: while a permit is free, no waiter stays blocked without a wake-up on its way. `ImplementsSemaphoreSpec`: the detailed model refines SemaphoreSpec. `AllComplete`: every thread finishes. |
| semaphore_timeout | MCSemaphoreTimeout.cfg | violation | A timed acquire past its deadline never returns. `wait(Timer&)` never assigns `rtn` (thread.cpp:142). |
| event | MCEvent.cfg | pass | 2 waiters and 1 signaller, 2 calls each. `NoMissedSignal`: no blocked waiter has missed a signal. `SignalledWaitersReturn`: each such waiter returns. |
| queue_limit | MCQueueLimit.cfg | violation | Two producers with limit 1 push `used` to 2: a consumer's `Unlock()` frees the mutex a producer holds between its full test and `++used`. |
| queue_lost_signal | MCQueueLostSignal.cfg | violation | The signal from `post()` is lost, and `fifo()` then sleeps forever on a non-empty queue. |
| buffer_wrap | MCBufferWrap.cfg | violation | With size 2, the third `post()` writes slot 2, past the ring (`>` where `>=` is meant, thread.cpp:868), and the next `wait()` returns a stale object. |
| typeref | MCTypeRef.cfg | pass | 2 threads with 2 value handles and 1 ArrayRef each, 4 objects, 3 calls each. `NoUseAfterFree`: no object is freed twice or while a handle or an array entry refers to it. `NoLeakAtExit`: when every thread has gone, nothing is left allocated. `CountIsReferences`: between calls, every live object's count is its number of references. |
| lockedpointer | MCLockedPointer.cfg | pass | 2 threads, 2 handles each, 3 objects, atomic counts. `NoUseAfterFree` and `CountMatchesReferences` (once every call is done, each live object's count is its number of references). |
| lockedpointer_counted | MCLockedPointerCounted.cfg | violation | With CountedObject's non-atomic count, `release()` outside the mutex races `dup()` inside it; a retain is lost and the object is destroyed while the LockedPointer still points to it (thread.cpp:990). |
| sharedpointer_copy | MCSharedPointerCopy.cfg | violation | A copied shared_release takes no read lock. Releasing the copy gives up the original's lock, and `replace()` deletes the object the original still uses (thread.cpp:1003). |
| bufferprotocol | MCBufferProtocol.cfg | pass | Seven calls of every kind on a two-byte buffer against a peer that reads and pushes short. `StreamInOrder`: every stream byte is read or dropped exactly once, in order. `OutputInOrder`: every written byte reaches the peer once and in order, unless it is lost to a disconnection, `purge()` or `release()`. |
| conditional_access | MCConditionalAccess.cfg | pass | 2 readers and 2 writers, 2 rounds each, spurious wake-ups allowed. `ImplementsAccessLockSpec`: the lock refines AccessLockSpec. `WriterEventuallyModifies` and `ReaderEventuallyAccesses`: under fairness every waiting writer and reader gets in. |

Each property of a passing run has a mutant in `PROJECT.json`: a plausible bug in the mapped code that TLC shows the property catches. Examples:

- `set()` waking one waiter too few;
- an off-by-one in the re-test;
- `Unlock()` without its signal;
- `signal()` with `pthread_cond_signal` instead of a broadcast;
- `dup()` without its retain;
- `Counted::release()` freeing the object while a reference remains;
- `Array::assign` storing the new entry without retaining it;
- `_flush()` keeping the buffer after a short push;
- `modify()` not waiting for the readers, `release()` broadcasting where a writer must be signalled, `commit()` waking only the writers.

The Queue and Buffer runs are violations only. Every collection waits through the faulty `Conditional::wait`, and almost every property the spec asks of them fails. A passing run would hold only because list operations are modelled as atomic steps.

## Findings not checked by a run

These are modelled, and TLC shows them with the cfgs or constants named. No run in `PROJECT.json` keeps them, because each adds little to what the listed runs already show or depends on code outside `src/`:

- **Event::reset()** stores `signalled = true` (thread.cpp:51), so a wait after `reset()` returns with no signal. `WaitReturnsOnlyAfterSignal` in Event.tla states the intended behaviour. A one-thread unit test shows this bug.
- **Queue::post()** links the member after `Unlock()` (`SharedStateUnderMutex`), and **Conditional::wait** can return without the mutex (`WaitReturnsLocked`). The queue_limit run shows where that leads.
- **Queue::lifo()** tests `tail` and takes `head` (`LifoTakesNewest`).
- **TypeRef::set(ptr)** with `ptr` the handle itself: `release()` clears `ref`, and `ref = ptr.ref` then reads NULL (typeref.cpp:91). Setting `SelfAssign = TRUE` in MCTypeRef.cfg makes `NoLeakAtExit` fail.
- **BufferProtocol::printf()** with a result of `bufsize` or more bytes pushes the NUL `vsnprintf` stored (protocols.cpp:246). With `PrintfMax = 2` in MCBufferProtocol.cfg, `OutputInOrder` fails.
- **Thread.** `~Thread()` joins only when `running` is set, which nothing in `src/` does. The owner deletes the object while its pthread still runs (`ObjectOutlivesThreads`, MCThreadJoin.cfg, two steps). The same flag makes `start()`'s guard against a second start useless, and keeps a detached thread from ever deleting itself. The Thread class declaration (`thread.h`) is not under `src/`, so a subclass might set `running`.
- **Thread::setPriority(pri)** converts `pri` with `(int)pri`. An argument of 2^31 or more gives a negative `pval`, which is not bounded below, and `assert(rc == 0)` then aborts. `SchedInRange` fails under MCThreadPriority.cfg, with `Width = 16` and an argument of 2^15.
- **ConditionalLock::exclusive()** (spec 4.2) blocks until `sharing == 1`, while `release()` wakes a writer only when `sharing` reaches 0. The release that leaves the upgrader the only sharer wakes nobody; the upgrader, a writer pending behind it and the readers waiting on `pending` then block for ever. MCConditionalLock.cfg shows `UpgraderEventuallyExclusive` violated in seven steps; the upgrade itself is safe (`ImplementsUpgradeLockSpec` holds). With both readers upgrading and no spurious wake-ups, TLC reports a deadlock: each upgrader waits for the other to stop sharing. The code is not in the repository, so this is a gap in the spec's design, not a bug shown in `src/`.
- **Stack::pull()** unlinks the top member but never decrements `used` (thread.cpp:771); with a limit set, `push()` eventually waits on an empty stack. MCStackUsed.cfg shows `UsedCountsMembers` violated after one push and one pull. A one-thread unit test shows it too.
- **Queue/Stack remove()** decrements `used` and unlocks without a signal, so a producer waiting for room is not woken.

## Bounds

- **Semaphore.** Three threads and two rounds each are enough for two waiters at once behind a holder. That is needed to see `Unlock()` wake one of two, and `set()` raising the limit with several waiters. `Limits = {1, 2}` lets `set()` raise the limit and also leave it unchanged.
- **Event.** Two waiters are needed to tell a broadcast from a single signal. Two calls each lets a waiter wait after a `reset()` or a second signal.
- **Queue, Stack, Buffer.** Each run uses the smallest population that shows its violation. The Buffer wrap needs three posts into a ring of two, consumed one by one.
- **TypeRef.** Two threads with two value handles each give a copy within a thread, a new object, and concurrent releases of the shared object by both threads. The ArrayRef of two entries lets an array hold the shared value twice, or hold it while both threads release their handles. Four objects let both threads allocate. The run has 1.7 million states.
- **LockedPointer, SharedPointer.** Two threads, two handles each and three objects: one thread replaces while the other holds, copies or releases, and each thread can replace once. Three or four calls each reach the interleavings of the findings.
- **BufferProtocol.** A two-byte buffer is the smallest in which a request fits, does not fit, or fills the buffer exactly. Four stream bytes hold a `"\r\n"` and a bare `"\n"`. Requests of up to three bytes exceed the buffer. Seven calls let a write, a short push, a flush and a read follow one another.
- **ConditionalAccess.** Two readers make `sharing` reach 2, so `release()` is seen both leaving readers behind and being the last; two writers let one wait in `modify()` while the other holds the lock or is pending, and let `commit()` wake a writer and readers together. Two rounds each let a thread come back after `commit()` and wait again. With spurious wake-ups on, the run has 3,749 states.
- **Buffer `used`.** It is a `size_t`, kept at `Width = 16` bits. Only the wrap from 0 to the maximum matters, and any width shows that.

## Fairness

These are pthread programs on a preemptive scheduler, so a runnable thread is eventually scheduled and a deadline eventually passes.

- Semaphore and Event use weak fairness on the library's own steps: the re-test after a wake-up, the `set()` signal loop, and expiry.
- `FairSpec` of Semaphore also assumes that callers go on. Every holder eventually releases, which `AllComplete` needs.
- `ExpiredWaitReturns` uses only the library fairness: a holder may keep its permit, and that is exactly when a timeout matters.
- Spurious wake-ups are allowed but never forced.
- Queue's `FairSpec` is weakly fair on each thread's steps.
- ConditionalAccess's `FairSpec` is strongly fair on `AccessWake`, `ModifyWake` and `Release`, and weakly fair on `Commit`. A woken waiter competes for the mutex with threads that keep taking it, so it is enabled only now and then; glibc's mutex hands it over eventually, which is strong fairness. A reader holding the lock and a writer holding it exclusively are callers that eventually release, as the spec requires.
- TypeRef, LockedPointer, SharedPointer and BufferProtocol are checked for safety only, with no fairness.

Deadlock is checked in every passing run. It is off in queue_lost_signal, queue_limit and buffer_wrap: in the collections a consumer really can block for ever after a lost signal, and the violations those runs look for lie past such states. Event's `Terminated` allows the program to stop with waiters blocked without a deadline after the signaller has finished. A wait for a signal that never comes is the caller's choice, not a fault of Event.

## Not modelled

- **BufferProtocol::gather()** (protocols.cpp 280-305). It computes `outsize - bufpos` where `insize - bufpos` is meant. When that wraps, the `memmove` is undefined behaviour, and there is no outcome to model. It is listed as a hazard.
- **MemoryProtocol and MemoryRedirect.** They are allocators over `malloc`, with no state another part observes.
- **stringref/byteref value access.** This is copying and comparing of characters. The reference counting these handles share is modelled in TypeRef.
- **A shared ArrayRef.** In the model each array belongs to one thread's handles. Two threads writing one array race on unlocked entries (typeref.cpp:375), a data race with no defined outcome.
- **A thread that replaces a SharedPointer while it holds a read lock** deadlocks on itself. The model lets a thread replace only with its handles released.
- **The destructors** of Event, Semaphore, Conditional, the lock wrappers, Queue and Stack. They only destroy pthread objects. The one hazard there, that `~Queue()` and `~Stack()` do not release the objects still queued, is in `PROJECT.json`.
- **`Thread::maxPriority()`.** It only reads.
- **ConditionalLock's own `access()`/`modify()`/`release()`/`commit()`** and its Context list lookup. The spec says only that they keep a per-thread reentrancy count; the model uses ConditionalAccess's operations and a `depth` per thread. **`ConditionalAccess::limit_sharing()`**: the header keeps no field for the limit.
- **`args.cpp`**, the `args` command: it prints its arguments with a prefix, suffix and delimiter and lists directories through `fsys`. It is sequential formatting and file-system I/O through classes whose code is not in the repository, with no state a property could relate beyond the printed text.
- **`datetime.h`, `stream.h`, `object.h` and `args.cpp`.** These are formatting, parsing and declarations with no concurrent state.

Most of the header lines under `src/inc` are declarations. This is why the map covers about a third of `src/` while it covers most of the code that runs.
