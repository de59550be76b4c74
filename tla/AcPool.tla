------------------------------- MODULE AcPool -------------------------------
(***************************************************************************)
(* The asynchronous task pool of fibjs (fibjs/src/base/acPool.cpp).        *)
(*                                                                         *)
(* Two instances exist: s_acPool, whose workers are fibers that several OS *)
(* threads run, and s_lsPool, whose workers are OS threads that may block. *)
(* Both share one loop, FiberProcWorker, which sizes the pool by two       *)
(* atomic counters and nothing else: m_idleWorkers and m_workers.  Each    *)
(* atomic operation is a step of its own here, so every interleaving of    *)
(* the workers' increments, decrements and compare-and-swaps is explored.  *)
(***************************************************************************)
EXTENDS Integers, Sequences, FiniteSets

CONSTANTS
    Workers,     \* identities for worker fibers or threads; reused after one retires
    Tasks,       \* the AsyncEvents handed to put(); reused after they have run
    NoTask,      \* a worker that holds no task (p not yet assigned)
    Slow,        \* the tasks whose invoke() may block for ever
    m_max_idle,  \* the constructor's argument (2 in InitializeAcPool)
    MaxWorkers   \* MAX_POOL_WORKERS

ASSUME WorkersAssumption == IsFiniteSet(Workers) /\ Workers # {}
ASSUME TaskAssumption == NoTask \notin Tasks /\ Slow \subseteq Tasks
ASSUME SizeAssumption == m_max_idle \in Nat \ {0} /\ MaxWorkers \in Nat \ {0}

VARIABLES
    m_bThread,      \* TRUE for the pool of threads, FALSE for the pool of fibers
    m_idleWorkers,  \* atomic counter
    m_workers,      \* atomic counter
    m_pool,         \* exlib::Queue of waiting tasks
    pc,             \* where each worker is in FiberProcWorker
    p,              \* the task each worker has taken
    refused         \* history: how often new_worker() returned at the cap

counters == <<m_idleWorkers, m_workers>>
vars == <<m_bThread, m_idleWorkers, m_workers, m_pool, pc, p, refused>>

(***************************************************************************)
(* The labels are the points between two accesses to shared state:         *)
(*   none    not created, or retired         start    line 101             *)
(*   loop    line 104                        tooMany  line 111             *)
(*   excess  line 112                        keep     line 117             *)
(*   park    line 123                        get      line 126             *)
(*   took    line 127                        cas      line 128             *)
(*   create  line 57                         undo     line 58              *)
(*   spawn   lines 90-93                     invoke   line 131             *)
(***************************************************************************)
Labels == {"none", "start", "loop", "tooMany", "excess", "keep", "park", "get",
           "took", "cas", "create", "undo", "spawn", "invoke"}

Live == {w \in Workers : pc[w] # "none"}

(* How many workers are at one of the given labels.                        *)
Count(at, labels) == Cardinality({w \in Workers : at[w] \in labels})

Goto(w, label) == pc' = [pc EXCEPT ![w] = label]

-----------------------------------------------------------------------------
(* put(): any thread, for a task that is neither waiting nor running.      *)
put(t) ==
    /\ \A i \in 1..Len(m_pool) : m_pool[i] # t
    /\ \A w \in Workers : p[w] # t
    /\ m_pool' = Append(m_pool, t)
    /\ UNCHANGED <<m_bThread, counters, pc, p, refused>>

(* A worker that has just been created takes back the credit its creator    *)
(* gave it.                                                                *)
Start(w) ==
    /\ pc[w] = "start"
    /\ m_idleWorkers' = m_idleWorkers - 1
    /\ Goto(w, "loop")
    /\ UNCHANGED <<m_workers, m_pool, p, refused>>

(* if (m_idleWorkers.inc() > m_max_idle)                                   *)
CountIdle(w) ==
    /\ pc[w] = "loop"
    /\ m_idleWorkers' = m_idleWorkers + 1
    /\ Goto(w, IF m_idleWorkers' > m_max_idle THEN "tooMany" ELSE "get")
    /\ UNCHANGED <<m_workers, m_pool, p, refused>>

(* if (m_idleWorkers.dec() > 0)                                            *)
UncountIdle(w) ==
    /\ pc[w] = "tooMany"
    /\ m_idleWorkers' = m_idleWorkers - 1
    /\ Goto(w, IF m_idleWorkers' > 0 THEN "excess" ELSE "park")
    /\ UNCHANGED <<m_workers, m_pool, p, refused>>

(* Mutant: every excess worker leaves, the cap and the kind ignored.       *)
RetireAlways(w) ==
    /\ pc[w] = "excess"
    /\ m_workers' = m_workers - 1
    /\ Goto(w, "none")
    /\ UNCHANGED <<m_idleWorkers, m_pool, p, refused>>

(* bOverCap = m_workers.dec() >= max_workers(): a thread always leaves the  *)
(* loop here, a fiber only when the pool is over its cap.                  *)
Retire(w) ==
    /\ pc[w] = "excess"
    /\ m_workers' = m_workers - 1
    /\ Goto(w, IF m_bThread \/ m_workers' >= MaxWorkers THEN "none" ELSE "keep")
    /\ UNCHANGED <<m_idleWorkers, m_pool, p, refused>>

(* else m_workers.inc()                                                    *)
Keep(w) ==
    /\ pc[w] = "keep"
    /\ m_workers' = m_workers + 1
    /\ Goto(w, "park")
    /\ UNCHANGED <<m_idleWorkers, m_pool, p, refused>>

(* Mutant: a worker that could not retire parks without counting itself.   *)
ParkUncounted(w) ==
    /\ pc[w] = "park"
    /\ Goto(w, "get")
    /\ UNCHANGED <<counters, m_pool, p, refused>>

(* m_idleWorkers.inc(), before the worker parks in m_pool.get().           *)
Park(w) ==
    /\ pc[w] = "park"
    /\ m_idleWorkers' = m_idleWorkers + 1
    /\ Goto(w, "get")
    /\ UNCHANGED <<m_workers, m_pool, p, refused>>

(* p = m_pool.get(): blocks while the queue is empty.                      *)
Get(w) ==
    /\ pc[w] = "get"
    /\ m_pool # << >>
    /\ p' = [p EXCEPT ![w] = Head(m_pool)]
    /\ m_pool' = Tail(m_pool)
    /\ Goto(w, "took")
    /\ UNCHANGED <<counters, refused>>

(* Mutant: off by one, the last idle worker does not ask for another.      *)
LeaveIdleBelowZero(w) ==
    /\ pc[w] = "took"
    /\ m_idleWorkers' = m_idleWorkers - 1
    /\ Goto(w, IF m_idleWorkers' < 0 THEN "cas" ELSE "invoke")
    /\ UNCHANGED <<m_workers, m_pool, p, refused>>

(* if (m_idleWorkers.dec() == 0)                                           *)
LeaveIdle(w) ==
    /\ pc[w] = "took"
    /\ m_idleWorkers' = m_idleWorkers - 1
    /\ Goto(w, IF m_idleWorkers' = 0 THEN "cas" ELSE "invoke")
    /\ UNCHANGED <<m_workers, m_pool, p, refused>>

(* if (m_idleWorkers.CompareAndSwap(0, 1) == 0): the credit for the worker  *)
(* that new_worker() is about to create.                                   *)
ClaimSpawn(w) ==
    /\ pc[w] = "cas"
    /\ IF m_idleWorkers = 0
         THEN m_idleWorkers' = 1 /\ Goto(w, "create")
         ELSE UNCHANGED m_idleWorkers /\ Goto(w, "invoke")
    /\ UNCHANGED <<m_workers, m_pool, p, refused>>

(* Mutant: the cap is off by one.                                          *)
NewWorkerCountOneMore(w) ==
    /\ pc[w] = "create"
    /\ m_workers' = m_workers + 1
    /\ IF m_workers' > MaxWorkers + 1
         THEN Goto(w, "undo") /\ refused' = refused + 1
         ELSE Goto(w, "spawn") /\ UNCHANGED refused
    /\ UNCHANGED <<m_idleWorkers, m_pool, p>>

(* new_worker(): if (m_workers.inc() > max_workers())                      *)
NewWorkerCount(w) ==
    /\ pc[w] = "create"
    /\ m_workers' = m_workers + 1
    /\ IF m_workers' > MaxWorkers
         THEN Goto(w, "undo") /\ refused' = refused + 1
         ELSE Goto(w, "spawn") /\ UNCHANGED refused
    /\ UNCHANGED <<m_idleWorkers, m_pool, p>>

(* new_worker() at the cap: m_workers.dec(); return, and the caller runs    *)
(* the task it holds.  Nothing takes back the credit of ClaimSpawn.        *)
NewWorkerRefused(w) ==
    /\ pc[w] = "undo"
    /\ m_workers' = m_workers - 1
    /\ Goto(w, "invoke")
    /\ UNCHANGED <<m_idleWorkers, m_pool, p, refused>>

(* new_worker() below the cap: a thread or a fiber n enters the loop.      *)
Spawn(w) ==
    /\ pc[w] = "spawn"
    /\ \E n \in Workers \ Live : pc' = [pc EXCEPT ![w] = "invoke", ![n] = "start"]
    /\ UNCHANGED <<counters, m_pool, p, refused>>

(* Mutant: the decrement of line 101 is inside the loop.                   *)
FinishRestart(w) ==
    /\ pc[w] = "invoke"
    /\ p' = [p EXCEPT ![w] = NoTask]
    /\ Goto(w, "start")
    /\ UNCHANGED <<counters, m_pool, refused>>

(* p->invoke() returns and the worker goes round its loop.                 *)
Finish(w) ==
    /\ pc[w] = "invoke"
    /\ p' = [p EXCEPT ![w] = NoTask]
    /\ Goto(w, "loop")
    /\ UNCHANGED <<counters, m_pool, refused>>

FiberProcWorker(w) ==
    /\ UNCHANGED m_bThread
    /\ \/ Start(w) \/ CountIdle(w) \/ UncountIdle(w) \/ Retire(w) \/ Keep(w)
       \/ Park(w) \/ Get(w) \/ LeaveIdle(w) \/ ClaimSpawn(w)
       \/ NewWorkerCount(w) \/ NewWorkerRefused(w) \/ Spawn(w) \/ Finish(w)

(* The constructor, of either pool: one credit, and new_worker() for the    *)
(* first worker.                                                           *)
Init ==
    /\ m_bThread \in BOOLEAN
    /\ m_idleWorkers = 1
    /\ m_workers = 1
    /\ m_pool = << >>
    /\ \E first \in Workers :
          pc = [w \in Workers |-> IF w = first THEN "start" ELSE "none"]
    /\ p = [w \in Workers |-> NoTask]
    /\ refused = 0

Next == (\E t \in Tasks : put(t)) \/ (\E w \in Workers : FiberProcWorker(w))

Spec == Init /\ [][Next]_vars

(* A worker that is not blocked keeps running, whoever else does; only the  *)
(* invoke() of a slow task may never return.                               *)
Fairness ==
    \A w \in Workers :
        WF_vars(FiberProcWorker(w) /\ ~(pc[w] = "invoke" /\ p[w] \in Slow))

FairSpec == Spec /\ Fairness

-----------------------------------------------------------------------------
(* The counters never go below zero, and every other variable has its type. *)
TypeOK ==
    /\ m_bThread \in BOOLEAN
    /\ m_idleWorkers \in Nat
    /\ m_workers \in Nat
    /\ m_pool \in Seq(Tasks)
    /\ pc \in [Workers -> Labels]
    /\ p \in [Workers -> Tasks \cup {NoTask}]
    /\ refused \in Nat

(* The workers that m_idleWorkers counts: parked or about to take a task,   *)
(* created but not yet running, or promised by a creator.                  *)
Credited == {"start", "tooMany", "get", "took", "create", "spawn"}

Waiting(t) == \E i \in 1..Len(m_pool) : m_pool[i] = t

(* m_idleWorkers counts the workers that are idle or promised, plus one for *)
(* every refused new_worker(): the credit of ClaimSpawn that nobody redeems *)
(* (FiberProcWorker and new_worker, all interleavings of the atomics).     *)
IdleAccounting == m_idleWorkers = Count(pc, Credited) + refused

(* m_workers counts the live workers, except one that is between the two    *)
(* halves of lines 112-117, plus the workers being created or refused.     *)
WorkerAccounting ==
    m_workers = Count(pc, Labels \ {"none", "keep"}) + Count(pc, {"spawn", "undo"})

(* Both counters say what they stand for, and never go below zero, in every *)
(* interleaving of FiberProcWorker and new_worker.                         *)
CountersRight == TypeOK /\ IdleAccounting /\ WorkerAccounting

(* The demand-driven growth works: until new_worker() has met the cap, some *)
(* live worker is not stuck in a task, so whatever is queued will be taken  *)
(* even if every running task blocks.                                      *)
SpareWorker == refused = 0 => \E w \in Workers : pc[w] \notin {"none", "invoke"}

(* "The pool never lets its worker count exceed the cap" (line 54): the     *)
(* live threads and those about to be created stay within MAX_POOL_WORKERS. *)
(* The pool of fibers may exceed it between Retire and Keep.               *)
CapRespected ==
    m_bThread => Count(pc, Labels \ {"none"}) + Count(pc, {"spawn"}) <= MaxWorkers

(* The cap is met at most once in the life of a pool, and after that the    *)
(* pool never grows again: the unredeemed credit keeps m_idleWorkers above  *)
(* zero for good, so line 127 never again sees the zero that calls          *)
(* new_worker().                                                           *)
NoGrowthAfterCap ==
    [][refused > 0 => refused' = refused /\ Live' \subseteq Live]_vars

(* Every task that waits in the pool of fibers is taken, also after the     *)
(* pool has met its cap, provided that the tasks taken before it end.      *)
PickedUp == \A t \in Tasks : Waiting(t) /\ ~m_bThread ~> ~Waiting(t)

(* The same of either pool.                                                *)
AllPickedUp == \A t \in Tasks : Waiting(t) ~> ~Waiting(t)

=============================================================================
