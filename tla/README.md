# Verification of the fibjs runtime core

fibjs is a JavaScript runtime in C++: many fibers run JavaScript under the lock of one V8 isolate,
blocking calls give the lock up, a pool of native workers runs what may block, and Workers are
further isolates on threads of their own. The parts that are hard to test are the ones where those
threads meet without a common lock. This directory models them in TLA+, checks the models with TLC
on small instances and proves, with TLAPS and for every instance, the safety invariants of the task
pool, the job loop, the cache, the Worker, the timers, socket I/O and the WebSocket, and that a pair of
message ports implements an ordered channel.

## 1. Inventory

| part | code (under `fibjs/`) | state | operations | meets | hard because |
|---|---|---|---|---|---|
| task pool | `src/base/acPool.cpp` | `m_idleWorkers`, `m_workers` (atomics), `m_pool` (queue) | `put`, `new_worker`, the loop `FiberProcWorker` | every asynchronous call ends here | the pool sizes itself by two atomics, several accesses per turn |
| job loop | `src/coroutine/Fiber.cpp`, `include/Isolate.h`, `src/base/Isolate.cpp`, `include/object.h` | `m_ref`, `m_sem`, `m_jobs`, `m_urgentJobs`, `m_idleFibers`, the v8 lock, `m_holding` of objects | `post_task`, `sync`, the fibers' loop, `isolate_ref`, `isolate_unref`, `Unref` and its exit job | all threads post jobs and drop references | posting is three steps; reaching zero is decided on any thread |
| LruCache | `include/LruCache.h` | map, two lists, iterators, per-item event and value | `set`, `lookup`, `erase`, `resize`, `set_timeout`, `clear` | file, path and HTTP/2 session caches, from several threads | the lock is released while a resolver runs |
| message ports | `src/global/MessagePort.cpp` | per port: peer, closed, started, keep-alive, pending flush, queue, hold | `postMessage`, `start`, `close`, `ref`, `unref`, `receiveMessageOnPort`, the flush job | two isolates, hence two threads; the event emitter | plain members read and written by two threads; listeners that block |
| Worker | `src/coroutine/Worker.cpp` | exited, exit code, terminating, waiters; terminating and exit code of its isolate | `start`/`_main`, `terminate`, `process.exit` inside, `onIsolateIdle`, `emitExit` | parent isolate, worker isolate, and `terminate()` outside the lock | three threads end the same worker |
| timers | `src/global/Timer.cpp`, `include/Timer.h`, `src/global/timeout.cpp`, `src/base/Isolate.cpp` | per timer: cancelled, high resolution, hold, the timer thread's list; pending interrupts, `m_has_timer`; per fiber: `m_termed` | `setTimeout` and its like, `clear`, `ref`, `unref`, expiry, `RequestInterrupt`, `timers.call()` | timer thread, job loop, V8's interrupts, terminating isolates | a timer is held as a plain pointer by whoever will call it back next; one mark per fiber for all time limits |
| socket I/O | `src/io/AsyncIO_ev.cpp`, `include/AsyncIO.h` | descriptor, abort version, a lock and a current operation per direction, the loop's events; per operation: watching, timed out, timer | `connect`, `accept`, `read`, `write`, `abort`, `close`, timeouts | task pool threads, the libev thread, the timer thread | operations delete themselves and four kinds of thread may end them |
| WebSocket | `src/websocket/WebSocket.cpp`, `include/WebSocket.h` | ready and close state, users of the buffers, stream, pinned wrapper, three locks, shared buffer | handshake, reader, one `asyncSend` per frame, `send`, `close`, `stop`, events | the pool, the isolate, the peer | any of them may end the connection; frames share one buffer |
| call completion | `include/AsyncCall.h`, `src/base/acPool.cpp` 180 on | state of a call, per-object task queue | `post`, `check_result`, `enterTask` | pool, job loop | the answer against the caller that goes to sleep (not modelled yet) |
| fiber locks | `src/coroutine/{Lock,Semaphore,Condition,Event}.cpp` | that of exlib | wait, notify | job loop | thin wrappers (not modelled yet) |

`PROJECT.json` lists the other parts (network, HTTP, TLS, file system, databases, encodings, GUI
and so on) with the reason each is left out: I/O, calls into external libraries, pure conversions,
or sequential code that tests reach. exlib (fibers, semaphore, queue, spinlock, atomics) and V8 are
external; the models take their operations as single steps.

What makes each modelled part correct:

* pool: the counters mean what their names say, the cap holds, and a queued task is taken even
  when other tasks block;
* job loop: a token always finds a job, a queued job is run, `m_ref` counts exactly what keeps the
  isolate alive, the process exits when and only when nothing is left;
* LruCache: the structures agree at every unlock, a stale lookup touches only its own entry, every
  waiter is woken;
* ports: order, no duplicates, no loss while there is a listener, no hold that nothing releases;
* Worker: events in order and once, every `terminate()` resolves, with the exit code, and what the
  worker posted before it was closed reaches the parent;
* timers: each is in one place until it is released, a cleared one never fires and is released however
  long it had to sleep, a terminating isolate starts no further callbacks, a time limit that expires is
  reported by its nest of calls and leaves no mark when the nest is over;
* socket I/O: every operation ends once; close ends all of them, an abort or a timeout whoever waits for
  nothing else; close and abort never follow a pointer to one that has ended;
* WebSocket: frames whole and in call order, one close event, everything released at the end, by the
  last that uses it.

## 2. Modules

| module | models | extends / uses |
|---|---|---|
| `AcPool` | the pool; one action per access to shared state, labels named by line | |
| `AcPoolProofs` | theorems about `AcPool` | `AcPool`, TLAPS |
| `LruCacheProofs`, `IsolateProofs`, `MessagePortProofs`, `WorkerProofs`, `TimerProofs`, `AsyncIOProofs`, `WebSocketProofs` | theorems about the module they are named after | that module, TLAPS |
| `Isolate` | the job loop of the main isolate and the exit of the process | |
| `LruCache` | the cache; one action per section under `m_lock` or access outside it | |
| `Channel` | what a pair of ports promises: an ordered channel that may lose messages | |
| `MessagePort` | a pair of ports, in one isolate or between two | `Chan == INSTANCE Channel` (refinement) |
| `Worker` | the life of a Worker, on the ports of `MessagePort` | `P == INSTANCE MessagePort` |
| `Timer` | the timers of one isolate and the time limits of `timers.call()` | |
| `AsyncIO` | the operations of one socket on the libev loop | |
| `WebSocket` | one end of a connection against any peer | |
| `MC*` | instances for TLC: symmetry, sets of parameters | the module they are named after |

Names are those of the source wherever TLA+ allows it. A definition whose comment begins with
"Mutant:" is not part of a model: it is a plausible mistake in the definition that follows it, and
shows that the property `PROJECT.json` pairs with it can fail.

**AcPool.** `m_idleWorkers`, `m_workers`, `m_pool` are the members; `pc` and `p` are the position
and the local variable of each worker; `refused` is a history variable that counts `new_worker()`
calls turned away at the cap. A worker identity is reused when its worker has left. `put` may come
at any time. `m_bThread` selects the pool of threads or the pool of fibers.

**Isolate.** `locker` is the owner of the v8 lock; `call` is what is left of the call an agent (a
fiber in a job, or an outside thread) is making, so that `Ref(); putTail(); post()` are three steps
and `isolate_ref()` two. Outside threads act only on behalf of an object that holds the isolate. The
job `Exit` is the one `Unref()` posts at zero. Nothing happens after `process.exit()`.

**LruCache.** `cache` holds the map, both lists and the items' iterators; the helper operators take
and return it, so that each section under the lock is one step however many helpers it calls. Items
are reused only when neither the map nor a thread refers to them, as `obj_ptr` does. The stamps are those
of `std::chrono::system_clock`, which goes on (`Tick`) and may be set back (`SetBack`); `recent` is a
history variable, the items visited since it last was.

**MessagePort.** `port` holds the members of both ends; `jobs` the two isolates' queues; `draining`
marks a flush job inside its loop, where a listener may block while the isolate does other work.
`seen`, `received` and `lost` record where messages went. Messages to an end are numbered in the order
of their posts; in `Channel` those on their way are a set of numbers, and the oldest is the least. With
`m_can_deliver_inline`, which `Init` leaves open, the two ends are those of a Worker: they live in two
isolates and `postMessage` has a step between its checks and its second read of `m_peer`; without,
both live in one and each event is a job.

**Worker.** The parent has its message listener from the start; only messages to the parent are
modelled. `Settle` ends every step of the worker's isolate the way `Unref()` does: when nothing holds
the isolate any more, `onIsolateIdle` is posted with the exit code of that moment. `emitExit` is four
steps, because the worker's thread and `terminate()` see its writes one by one; so are the writes of
`requestTerminate()` (`RequestMark` to `RequestStop`). `posting` is a `postMessage()` of the script between
its two reads of `m_peer`; it is "null" once the second has found that `terminate()` or `emitExit()`
cleared it, and the worker's thread then takes no further step. `m_jsAffinity` says
whether `terminate()`, which runs outside the JS lock, also occupies the parent's only thread.

**Timer.** Script, jobs and interrupts share the isolate's thread, so each is one step unless it calls
a function that may block (`calling`); expiry and `cancel_sleep` are steps of the timer thread. `refs`
is the reference the constructor takes for the timer itself. `entering` is a timer whose callback has
asked `is_terminating()` and not yet called the function; the parent's thread may set `terminating` in
between, and `late` counts the functions called after it did. `requesting` is the timer thread inside
`RequestInterrupt`, between its call of V8, the exchange of `m_has_timer` and the post. `serving` is the job that calls pending
interrupts, which V8 otherwise calls in the middle of script. `scopes` is the stack of TimeoutScopes of
a fiber; `nest` and `outcome` record what `result()` returned, for the properties.

**AsyncIO.** `s_evWait` is the list of posted events, and in front of it what the loop thread still has
to do for the event it has started, so that the other threads' steps fall between the tests of one
event. `at`, `m_watching`, `m_timedout`, `timer` and `result` belong to the operations. An operation
that has deleted itself is "destroyed"; if the loop uses it again the model stops (`undefined`). What
`process()` returns is open, except that it does not wait on a closed descriptor. A plan, chosen by
`Init` and kept, is what the program does with the socket: which operations, which of them with a timeout,
and how many calls of `abort()`, which may overlap.

**WebSocket.** A lock is the sequence of its owner and its waiters, which is what `exlib::Locker`
keeps. `asyncSend` has a position per frame (`pc`); encoding writes a head and then data, so that a
missing lock shows as a mixed frame, and may fail in between (`EncodeFails`), which leaves the locks taken
and what was written of the frame in the buffer. `releasing` are the users whose `m_ioState.dec()` gave zero
and that have yet to release the memory; `late` are the `asyncSend`s script made in between. `terminating`
is set by the parent's thread, `stopping` is the job it posts, in which `stop()` runs. `inbox`, `gone` and `sent` are the peer, `jobs` the events on
their way to the isolate, `wire` and `log` what was written and dispatched.

## 3. Runs

| run | instance | distinct states | shows |
|---|---|---|---|
| `pool` | both pools: 4 workers, 2 tasks, cap 2, `m_max_idle` 1 | 107,449 | `CountersRight`, `SpareWorker`, `CapRespected`, `NoGrowthAfterCap`, `PickedUp` |
| `isolate` | 4 fibers, 2 outside threads, 1 job, 1 object, `spareFibers` 1 and 2 | 238,834 | `JobFound`, `RefAccounting`, `SpareFiber`, `ExitClean`, `JobRuns`, `Exits` |
| `lru` | 2 threads, 2 keys, 3 items, sizes 0 and 2, timeouts off, idle or update 1 tick, 1 tick, clock set back any time | 320,581 | `StructuresAgree`, `ExpiredOrdered`, `NoEmptyEntry`, `WaiterServed`, `ErasesOwnEntry` |
| `ports` | both kinds of channel, 2 messages | 171,852 | `HoldsOnlyToFlush`, `ImplementsChannel`, `NoLossWithListener`, `Delivered` |
| `worker` | 2 `terminate()` calls, 1 message, `m_jsAffinity`, hard interrupt | 318,058 | `Lifecycle`, `IdleReported`, `PostsArrive`, `RegisteredResolves` |
| `timer` | 2 timers of any kind, 1 fiber with time limits, 1 repetition | 488,951 | `OnePlace`, `TermedInScope`, `ExpiryReported`, `InterruptsServed`, `FiresOnlyLive`, `ClearedReleases` |
| `async_io` | 2 operations without timeouts (two reads; connect and write; two accepts) and 2 aborts, or with timeouts and 1 abort; 1 close | 326,268 | `CurrentHoldsLock`, `EndsOnce`, `AbortsOnlyEarlier`, `Ends` |
| `websocket` | a client with 1 and a server with 2 calls, 1 frame of the peer (text, ping, CLOSE, malformed) | 874,688 | `FramesInOrder`, `ReportedOnce`, `ReleasedLast`, `CloseReported`, `ClosedReleases` |
| `pool_threads_at_cap`, `port_target`, `worker_lost_waiter`, `async_io_kept_lock` | expected to fail, see section 4 | | `AllPickedUp`, `TargetDelivered`, `TerminateResolves`, `KeptLockUnwanted` |

Every module has a type invariant `TypeOK`; it is a conjunct of the first invariant of its run that
relates the typed variables to each other (`CountersRight`, `RefAccounting`, `StructuresAgree`,
`HoldsOnlyToFlush`, `Lifecycle`, `OnePlace`, `CurrentHoldsLock`, `ReleasedLast`). `ImplementsChannel` is
a refinement: under the mapping `transit` (the messages in event jobs, in the queue and in jobs that will
enqueue) every step of the ports is a step of `Channel` or leaves it alone, so that order, uniqueness and
conservation of messages hold together: the message a listener is called with has to be the oldest of
them all, wherever it is, and has to be nowhere afterwards.

Why the bounds are enough. The pool's cap is 1024 in the code; what matters is to be below it, at it
and, for fibers, one above it with another worker between lines 112 and 117, which needs cap + 2
identities. The loop of the isolate needs a fiber that blocks, one that runs, one that waits for the
lock and one that is being created. The cache needs two threads on one key and a second key to evict the
first, and three items for what the map and the threads refer to; a size of 0 evicts the entry being
inserted, and one tick and a step back give every order of two stamps. Two messages are
the fewest that can be out of order; `worker` has one, for what `terminate()` and `emitExit()` do to
messages, and their order is proved for any number. Two `terminate()` calls are the
fewest that can race each other besides the worker. `worker` has `m_jsAffinity`, which is the default of
the program; without it the instance has 1,834,660 states: its invariants were checked once, with no error,
and are proved for both; its liveness takes longer than a routine run should, and was checked on the
model with the writes of `requestTerminate()` in fewer steps (958,166 states, no error). Two timers are a nest of two time limits, or a time
limit around a timer. Two operations in one direction are the owner of the lock and a waiter; the two
directions meet only in close and abort, which `connect` with `write` covers. The operations that have no
timeout are the ones that show whether `abort()` ends anything, since the timeout would. Two calls on a WebSocket
and a frame that is answered are three users of the buffer. Constants and guards that only bound the
models: `MaxHolds`, `MaxTime`, `MaxPosts`, `MaxFires`, `MaxHr`, `MaxCloses`, `MaxCalls`,
`MaxFrames`, the aborts of `Plans`, the sets `Jobs` and `Calls`, and one `process.exit()` per fiber of a worker.

Deadlock is checked where the system cannot stop (the ports). It is switched off where it can: the
process exits (`Isolate`), the worker ends (`Worker`), the clock, the items, the timers, the operations
and the frames run out, and the thread pool beyond its cap, where stopping is finding 1 below.

**Fairness.** Every fiber and thread that can run does so (weak fairness): exlib schedules runnable
fibers in turn and the operating system schedules threads. In most modules the steps that need no new
call come to an end, so weak fairness of their disjunction (`System`) says the same as fairness of
each and is cheaper to check. A task in `Slow` may stay in `invoke()`, and a job may stay blocked;
`Exits` is therefore conditional on `WorkEnds`, that the program's own work comes to an end. A fiber
that waits for the v8 lock gets it when it is free again and again (`SF` on `Resume` and on the end of
a job), since V8's lock is a mutex. In `Worker` a script need not ever return; it is interrupted only if
`FIBJS_WORKER_HARD_TERMINATE` is on or it has called `process.exit()` and reaches a blocking call,
which is why `worker` has that switch on; timers end once the isolate terminates (a formula of its own,
because script may start them again and again). Listeners of a port return. In `AsyncIO` the loop
thread and the other threads are fair separately, since a descriptor may be ready for ever; nothing
says that a peer ever sends. A worker whose process has ended in `postMessage()` (`posting`) is excepted
from `RegisteredResolves`. Nothing says that a timer expires. The cache needs no fairness:
`WaiterServed` is the invariant behind "every lookup returns".

## 4. Where the code and its documentation differ

Four runs are expected to fail: each states what a comment or the interface documentation says, and
TLC finds a behaviour of the code that violates it. The quotations are in `PROJECT.json`.

1. `pool_threads_at_cap`: after `new_worker()` has been refused once, the unredeemed credit of line
   128 stays in `m_idleWorkers`; threads retire by it, none is created, and a queued task waits for
   ever. The comment promises the caller falls through to `m_pool.get()`; it goes to `invoke()`.
2. `port_target`: messages queued before the parent's first listener are not delivered when it is
   added, because `newListener` is emitted before the listener counts.
3. `worker_lost_waiter`: a `terminate()` that races the worker's own exit never resolves.
4. `async_io_kept_lock`: an operation whose caller saw the descriptor open just before a close queues
   for the lock that `start()` kept on the closed socket, and never ends.

The models contain further behaviours of this kind. They have no run of their own; adding the named
formula to the configuration as an INVARIANT (`JobRuns` is a PROPERTY already) gives the trace.

| formula | where | behaviour |
|---|---|---|
| `CapRespected` without `m_bThread` | `pool` | the decrement and increment of lines 112 to 117 let one fiber too many in; the comment at line 54 says the cap is never exceeded |
| `JobRuns` | `isolate` with `SpareValues = {0}` | the only fiber leaves and no job is ever run; `coroutine.idl` asks for a non-negative value and describes a small one as slower |
| `NoNullPeer` | `ports` | `postMessage` reads `m_peer` twice while the thread of the other end may clear it; the same is `posting # "null"` in `worker`, where `terminate()` or `emitExit()` clears it |
| `StampsOrdered` | `lru` | `LruCache.h` stamps with `system_clock`, which may be set back: an entry with a later stamp is then behind one with an earlier, and lines 265-266 stop at it and leave expired entries cached |
| `KeepAliveOnlyOpen` | `ports` | `ref()` holds the process for a port that was never started or is closed |
| `ResolvedWithExitCode` | `worker` | `m_exited` is set before `m_exitCode`: a `terminate()` in between resolves with 0 |
| `NoMessageAfterExit` | `worker` | a message queued before the worker failed is delivered after `exit` |
| `ExitCodeOfProcessExit` | `worker` | a script interrupted after `process.exit(N)` reports 1 |
| `NothingRunsAfterExit` | `worker` | after an uncaught exception `exit` is emitted, timers go on, and `terminate()` no longer does anything |
| `ReportedByItself` | `timer` | the limit of an outer `timers.call()` that expires inside an inner one is reported by the inner call, which the outer function can catch; `timers.idl` 283-285 says the error is thrown at the call site and cannot be caught by the interrupted function |
| `TimeoutByLimit` | `timer` | `process.exit()` of a worker inside `timers.call()` becomes a timeout error and the script goes on; `Worker.cpp` 450 says the statements after it no longer run |
| `HoldsOnlyPending` | `timer` | `ref()` on a timer that is over holds the process for good; `Timer.idl` 13 says a pending timer does |
| `EndsOnce` without its two exceptions | `async_io` | an `abort()` between the tests of `on_watched()`, and a timeout that expires while `request()` completes on the caller's thread, leave the loop a task of a deleted operation; the comment at `AsyncIO_ev.cpp` 220 says an operation ends once and only once |
| `ReleasedLast` without `late` | `websocket` | between `m_ioState.dec()` (line 582) and the releases (583-589) `m_readyState` may still be OPEN: a `send()` then counts a new `asyncSend` from zero and encodes into the buffer that is being released |
| `ClosedReleases` without `"failed"` | `websocket` | an `asyncSend` whose `sendTo()` fails ends without releasing the locks it has, so that the ones behind it wait for ever and the memory is not released |
| `FramesInOrder` without `stopped` | `websocket` with two calls of a client | `stop()` before the response leaves the stream that arrives open: a frame encoded while the memory is released, see `ReleasedLast`, is lost, and the next one is written |
| `ClosedReleases` without `stopped` | `websocket` | `stop()` of a terminating isolate before the response: the stream that arrives is never closed by this end |

A listener that is added between the two assignments of the WebSocket handshake (`m_stream`, then
`m_readyState`) starts the reader early; if the peer closes at once, the handshake sets OPEN after the
close event was dispatched, although `WebSocket.idl` 344 says that readyState is CLOSED when it fires.
A WebSocket that receives a CLOSE answers it with `m_readyState` still OPEN until the close event is
dispatched, although `WebSocket.idl` 260 describes CLOSING, and a CLOSE without a body is reported with
code 0.

## 5. Proofs

`AcPoolProofs` proves, for every finite set of workers, every set of tasks, every cap and
`m_max_idle` above zero and both kinds of pool:

* `TypeCorrect`: the counters never go below zero;
* `CountersAccount`: `CountersRight`, that is, `m_idleWorkers` equals the number of workers at the labels
  it stands for plus the refusals, and `m_workers` the number of live workers, up to those between its
  decrement and increment;
* `PoolHasSpare`: until the cap has been met, some worker is outside `invoke()`;
* `ThreadsWithinCap`: the thread pool stays within its cap (for fibers this is false, see section 4);
* `NoGrowth`: once the cap has been met, no worker is ever created again.

The assumptions are the four `ASSUME`s of `AcPool`. All follow from one inductive
invariant `Inv`. The accounting equations
are inductive by themselves up to one point: that the counter stays
non-negative, and that a creator may rely on it, needs `SoleCreator` (at most one worker is between
the successful compare-and-swap and the start of its child, and none after a refusal), which holds
because `m_idleWorkers` is above zero all that time, which is the accounting again. `SparePlus`
strengthens `SpareWorker`: a worker at line 112 may leave and so cannot be the spare one; that it may
leave safely follows from the counter being above zero there. Each action moves one worker
(`Spawn` two), and the lemma `CountMove` says what that does to a count, so the proof has one step per
action and the arithmetic is left to the SMT solver. `NoGrowth` is an action property: with a refusal
on record the counter is at least 1 whenever line 127 or 128 looks, so no worker is at `create` or
`spawn`.

`LruCacheProofs` proves, for any sets of threads, keys and items, any sizes and a clock that
goes on and may be set back at any time:

* `WaitersServed`: a thread that waits for an entry waits for a resolver that is running, even when the
  entry has been evicted, expired, erased, cleared or replaced;
* `NoEmptyEntries`: an entry that is ready and has no value is about to be given up;
* `ErasesOwn`: a failed lookup erases its own entry or nothing;
* `StructuresAgreeHolds`: map, iterators and both lists agree whenever `m_lock` is free, and the size is
  kept;
* `ExpiredOrderedHolds`: an item visited since the clock was last set back has only such items in front of
  it in `m_expired`, with stamps no earlier than its own. That is what remains of the order on which
  `clean_expired()` relies; the order of all stamps (`StampsOrdered`) is lost when the clock is set back.

The first three follow from `Inv`: the map and the items' iterators are inverse to each other, every item has at
most one resolver (`OneOwner`), an item in use that is not ready has one (`Pending`), and a value is
stored before its event is set (`Stored`). The point of the argument is that evictions do not matter:
`Shrinks` says that every helper that erases only removes items from the map, whatever the lists hold,
and that is all this invariant needs. `OneOwner` is needed because an item may be reused as soon as
nothing refers to it.

The other two are about the lists, and follow from `ListsInvariance`, `Spec => [](Inv /\ Lists)`: the two
lists are one, without repetition, hold the items of the map, and those in `recent` come first, the latest
visit in front (`InOrder`). Everything that
erases unlinks a set of items, so the argument is about `Without`, a recursive function of the position.
What it computes is proved by induction over the positions. The library's induction theorems take an
operator as a parameter and cannot be used; the lemma `Induction` says the same of a set of numbers, from
the well-foundedness of `<`, and `TableExists` shows with it that the recursive definition defines
something. `WithoutKeeps` is the result: what is left are the items outside the set, at increasing
positions of the old list, and none is missing. `EraseTrims` (both lists stay one, ordered, with the items
of the map) follows for all operations that erase; `Fronted` says the same of the splice to the front in
`Touch` and of an insertion, where the order needs that no item of `recent` has a stamp later than the clock; setting the clock back
empties `recent`.

`IsolateProofs` proves, for every finite set of fibers and of outside threads, any jobs and objects and
any number of spare fibers above zero (with zero, `SpareFiber` is false, see section 4):

* `JobFoundHolds`: a fiber that has a token and the v8 lock finds a job;
* `RefAccountingHolds`: `m_ref` is the sum of the queued jobs, the fibers in a job, the objects that hold
  the isolate and the references in flight;
* `SpareFiberHolds`: whenever the v8 lock is free, a fiber is there to take the next job;
* `ExitCleanHolds`: when the process exits by itself, no job is queued or running and no object holds it.

The invariant is a list of equations between a member of the code and a count of agents by position:
`RefCounted` for `m_ref`, `Tokens` for `m_sem` (queued jobs are tokens in the semaphore, fibers that have
taken one and agents between `putTail()` and `post()`), `IdleCounted` for `m_idleFibers`. `JobFound` is not
inductive without `Tokens`, since a post puts the job before the token; nor without `LockOwned`, since the
fiber that found `m_jobs` non-empty relies on nobody else taking from it (`JobLeft`). `SpareLeft` says of
the owner of the lock, before it gives the lock up, what `SpareFiber` says once it has. Each agent's step
changes one position, so that `CountMove` again reduces a step to arithmetic.

`TimerProofs` proves, for any timers and fibers whose values are not the strings the model uses as job
names (`NamesAssumption`):

* `OnePlaceHolds`: the references of a timer are the places that hold it as a plain pointer;
* `TermedInScopeHolds`: a fiber is marked for termination only inside a time limit that has expired, or by
  `process.exit()`;
* `ExpiryReportedHolds`: the expiry of a call that has returned was reported by a call of its nest;
* `InterruptsServedHolds`: pending interrupts have a job or a server;
* `FiresOnlyLiveHolds`: no callback begins for a timer that was cleared, and after `is_terminating()` turns
  true one function at most is still called, however many timers wait in jobs and interrupts (an action
  property). It needs the invariant `Live` besides `Inv`: while a function may still be called late, it is
  that of the one timer in `entering`, and nothing enters after the flag is set.

Inside a handler a timer is out of its place for a moment; the lemmas say so by `InHand`, "all others are
in their places and this one is in the handler's hand", from which each handler leads back to `Whole`. The
part about limits rests on `OneNest` (the open scopes of a fiber are one nest of its own limits, each once)
and `LimitOpen` (a limit that is not cancelled has an open scope): together they say that the fiber an
expiry marks is the one whose `result()` will read the mark, and `WillReport` that no scope swallows it.

`AsyncIOProofs` proves, for any operations of any kinds, timed or not, and any number of aborts and closes:

* `CurrentHolds`: the current operation of a direction owns the lock of that direction;
* `EndsOnceHolds`: the loop never follows a pointer to a deleted operation, outside the two cases of
  section 4;
* `AbortsOnlyEarlierHolds`: an abort ends only operations that began before it returned (an action
  property).

The invariant is about the list of tasks `s_evWait`: `List` (the tasks left of the event the loop has
started come first, and an operation is posted once), `Locks` (who owns a lock, who waits for it and who
was posted are different operations, and those still to be started own their lock), `Opts` (every task that
names an operation as current names the current one), `Timeouts` (a timer that can still fire belongs to an
operation that lives) and `Aborts` (versions against the aborts under way). They need each other: that the
next owner may be started relies on the list holding no task of the last one, and that relies on the
locks. `Closes` counts the `close()`s that were called and are answered or in the list.

`WebSocketProofs` proves, for both roles, any frames of the peer and any number of calls:

* `FramesInOrderHolds`: what is written to the stream is whole frames, those of script in the order of its
  calls and without a gap;
* `ReportedOnceHolds`: the close event is reported once at most, and so is an error, with the close event
  after it;
* `ReleasedLastHolds`: the user whose count came to zero releases the buffers when the connection is closed,
  the reader has ended, and nobody encodes or writes but an `asyncSend` that script made after that count
  (section 4); the wrapper is pinned as long as the reader runs.

`Counted` is the equation for `m_ioState`, the number of users of the buffers. `InFlow` is the heart of the
first theorem: there are a number `w` of frames written and a number `t` taken over by the one that writes,
such that the wire holds frames 1 to `w`, the batch those up to `t` and the shared buffer those up to the
last encoded one, with a head alone at the end exactly while an `asyncSend` is at its data. It rests on
`Locked` and `Queued`: the locks are given in the order they were asked for, which is the order of the
calls. `Answered` (a reader that ended has closed the connection or left an answer to the peer's CLOSE that
will) and `Quiet` (nothing final is reported before the connection is CLOSED) give the second.

`MessagePortProofs` proves, for both kinds of channel and any number of messages (`PostsAssumption`):

* `Implements`: `Spec => Chan!Spec`, the refinement `ImplementsChannel`, step by step: every handler
  maps to one action of `Channel` or to a stutter;
* `HoldsOnlyToFlushHolds`: a port holds the isolate only while a flush job is queued or in its loop;
* `NoLossHolds`: a started, open port with a listener loses no message (an action property).

The refinement needs `Ordered` (to each end, messages in event jobs come before those in the queue, and
those before the ones in jobs that will enqueue, each part ascending and all posted), for then the message
a flush takes is the least on its way; `Flushing` (one flush job or one loop for each `m_flush_pending`,
none otherwise), without which two flushes could take turns; and `JobsFit` (the jobs of an isolate belong to
its ports, event jobs exist only in a MessageChannel and enqueue jobs only in a worker's channel), since
the two together would break the order. A handler changes one or two ports and the jobs of one isolate;
`Puts` and `Settles` say once what it takes to keep `Right` when a port is replaced, and each handler,
`receiveMessageOnPort()` and the loop of a flush included, is proved against them.

`WorkerProofs` proves, for any number of `terminate()` calls and of messages, with and without the JS lock
in `terminate()` and with and without the hard interrupt:

* `LifecycleHolds`: `online`, `error` and `exit` come in this order, each once at most, and nothing of the
  worker's life is emitted after `exit`;
* `IdleReportedHolds`: a worker whose isolate nothing holds any more has the job of `onIsolateIdle` queued,
  is in `emitExit()` or has exited;
* `PostsArriveHolds`: what the worker posts is delivered, or is in the queue of the Worker's port, or is in
  a job of the parent, complete and in order, whatever `terminate()`, `process.exit()` and `emitExit()`
  close meanwhile.

Events are emitted by jobs of the parent, so the order has to hold of what was emitted and of the jobs
together (`InOrder`), and is kept by a step that posts `exit` only if no event is still to come. `Due`
says which may still come: `online` until `_main()` has run, `error` until its script is over, `exit` until
`m_exited` is set and then until the thread that set it has posted. What makes this inductive is `Exits`,
the positions of the two threads in `emitExit()`: the worker's thread is there only in the failure path of
`_main()`, the main thread only when the worker is done, so that never both pass the unlocked test of
`m_exited`. This rests on `MainFirst` (`_main()` is the first job of the worker's isolate and runs once)
and on the idle job being posted only when the script is over (`HasIdle` in `Told`). `Reported` is
`IdleReported` with the parent's jobs and positions named. A worker's steps are those of the ports with
`Settle` after them; the lemmas say of each handler of the ports that it only appends jobs that are no
events (`Grows`) and releases a hold only through a flush or `close()`, and `SettleStep` that `Settle` then
reports what it has to.

`PostsArriveHolds` rests on a second inductive invariant, `Mail`, which needs `Inv` for the types of jobs and
for which jobs exist. It says that the messages delivered and those in the queue are 1, 2, ... without a gap
(`Arrived`), that the jobs of the parent that will enqueue carry exactly the rest, in their order (`Moving`),
and that the Worker's port is started, which is why its `close()`, from whichever thread, delivers the queue
and does not drop it. The lemmas on the handlers show that nobody else touches that queue, delivers from it
or posts a job with a message (`Fresh`, `Calm`); a job that enqueues takes the first message of `Moving` to
the end of `Arrived`, and a flush takes the first of the queue to the listener.

All these theorems follow from `Invariance`, `Spec => []Inv`, of their module, `PostsArriveHolds` from
`MailInvariance`, `Spec => [](Inv /\ Mail)`. Each of these invariants was checked with
TLC on the instance of its run before it was proved.

Only model-checked: the liveness properties (`PickedUp`, `JobRuns`, `Exits`, `Delivered`,
`RegisteredResolves`, `ClearedReleases`, `Ends`, `CloseReported`, `ClosedReleases`), since TLAPS does not
reason about fairness here. Every invariant and action property of a passing run is a theorem.

## 6. What is not modelled

Besides the parts listed in `PROJECT.json`: torn values of C++ data races (a plain member is read and
written in one step; where the compiler may read it once or twice, as `m_peer`, both are explored);
the destruction of ports, workers, timers and sockets by the garbage collector; failures of
serialisation; microtasks; nested workers; `Worker.ref` and `unref`; messages from the parent to a
worker; the sticky V8 termination flag and the asynchronous context of timers; the IOCP variant of
`AsyncIO`; `ref`, `unref` and compression of a WebSocket, and the HTTP exchange of its handshake. An `asyncSend` that
fails to encode unlocks `m_lockSend` without owning it; what `exlib::Locker` makes of that is not in this
repository, and the model takes it to have no effect.

Most of the repository's lines are bindings to external libraries, bundled data, platform headers,
parsers and conversions. They hold little state and no protocol between threads, so the models are of
the runtime core, and the share of all lines that they cover is small.

## 7. Plan

Done: the pool, the job loop, the cache, the ports and the channel they implement, the Worker on top of
them, timers and time limits, socket I/O and the WebSocket, each with the proofs of its safety properties.

Next, in this order:

1. `Worker`: messages from the parent to the worker, and with them the stale `onIsolateIdle`;
   `ref` and `unref`; nested workers.
2. `AsyncCall`: the state of a call between the caller that goes to sleep and the answer, the task
   queue of an object.
3. `Lock`, `Condition`, `Semaphore` over the job loop; the waiters of `util.sync`; the emitter's
   listener lists changed by a listener.
4. Abstract specifications: the cache implements a map with arbitrary evictions.
