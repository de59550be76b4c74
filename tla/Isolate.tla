------------------------------ MODULE Isolate -------------------------------
(***************************************************************************)
(* The JavaScript job loop of one isolate (fibjs/src/coroutine/Fiber.cpp), *)
(* the queues that feed it (fibjs/include/Isolate.h) and the reference     *)
(* count that decides when the process exits (fibjs/src/base/Isolate.cpp,  *)
(* object_base::isolate_ref in fibjs/include/object.h).                    *)
(*                                                                         *)
(* Worker fibers of the isolate run one at a time under v8::Locker and     *)
(* give the lock up while a job blocks.  Other threads of the process post *)
(* jobs and release the objects that keep the isolate alive, without any   *)
(* lock: every access of theirs to m_ref, m_sem or a queue is a step.      *)
(***************************************************************************)
EXTENDS Integers, Sequences, FiniteSets

CONSTANTS
    Fibers,         \* identities for JS worker fibers; reused after one leaves
    Natives,        \* the other threads: they complete operations
    Jobs,           \* jobs the program posts, each at most once
    Main,           \* the job that runs the main script (FiberProcJsEntry)
    Exit,           \* the job that Unref() posts when m_ref reaches zero
    Objects,        \* objects that may hold the isolate (timers, sockets...)
    MaxHolds,       \* bound: how often the program takes a hold in all
    SpareValues,    \* what the program sets coroutine.spareFibers to
    None

ASSUME FibersAssumption == IsFiniteSet(Fibers) /\ Fibers # {} /\ None \notin Fibers
ASSUME AgentsAssumption == IsFiniteSet(Natives) /\ Natives \cap Fibers = {}
ASSUME JobsAssumption == Main \notin Jobs /\ Exit \notin Jobs /\ None \notin Jobs
ASSUME DistinctJobs == Main # Exit /\ Main # None /\ Exit # None
ASSUME BoundsAssumption == MaxHolds \in Nat
ASSUME SpareAssumption == SpareValues \subseteq Nat \ {0} /\ SpareValues # {}

VARIABLES
    m_ref,         \* atomic reference count of the isolate
    m_sem,         \* exlib::Semaphore: one token per posted job
    m_jobs,        \* queue of ordinary jobs
    m_urgentJobs,  \* queue of urgent jobs
    m_idleFibers,  \* guarded by the v8 lock
    g_spareFibers, \* coroutine.spareFibers
    locker,        \* the fiber that owns the v8 lock
    pc,            \* where each fiber is in FiberProcRunJavascript
    ae,            \* the job each fiber is running
    call,          \* what is left of the call each agent is making
    holding,       \* the objects whose m_holding is set
    holds,         \* how many holds the program has taken
    posted,        \* the jobs the program has posted
    exited         \* process_base::exit() has been called

lockVars == <<m_idleFibers, locker, g_spareFibers>>
queues == <<m_sem, m_jobs, m_urgentJobs>>
budget == <<holds, posted>>
vars == <<m_ref, queues, lockVars, pc, ae, call, holding, budget, exited>>

Agents == Fibers \cup Natives
AllJobs == Jobs \cup {Main, Exit}

(***************************************************************************)
(*   none    not created, or gone        enter   waiting for v8::Locker    *)
(*   top     line 37                     idle    parked in m_sem.wait()    *)
(*   woken   waiting to relock, line 47  spare   line 55                   *)
(*   urgent  line 67                     normal  line 69                   *)
(*   run     in js_invoke()              blocked in js_invoke(), unlocked  *)
(*   done    line 74                                                       *)
(***************************************************************************)
Labels == {"none", "enter", "top", "idle", "woken", "spare", "urgent", "normal",
           "run", "blocked", "done"}

Goto(f, label) == pc' = [pc EXCEPT ![f] = label]

(***************************************************************************)
(* A call in progress is <<what, ...>>: <<"ref", j, urgent>>, <<"put", j,  *)
(* urgent>> and <<"post">> are the three steps of post_task, <<"hold">> is *)
(* isolate_ref() before its Ref(), <<"unref">> is Unref() before its       *)
(* decrement, << >> is no call.                                            *)
(***************************************************************************)
Calls ==
    {<< >>, <<"hold">>, <<"unref">>, <<"post">>}
      \cup {<<s, j, u>> : s \in {"ref", "put"}, j \in AllJobs, u \in BOOLEAN}

Become(a, c) == call' = [call EXCEPT ![a] = c]

Doing(a, what) == call[a] # << >> /\ call[a][1] = what

Idle(a) == call[a] = << >>

(* Mutant: post_task() without its Ref().                                  *)
PostWithoutRef(a) ==
    /\ Doing(a, "ref")
    /\ Become(a, <<"put", call[a][2], call[a][3]>>)
    /\ UNCHANGED <<m_ref, queues, lockVars, pc, ae, holding, budget, exited>>

-----------------------------------------------------------------------------
(* Ref() in post_task().                                                   *)
PostRef(a) ==
    /\ Doing(a, "ref")
    /\ m_ref' = m_ref + 1
    /\ Become(a, <<"put", call[a][2], call[a][3]>>)
    /\ UNCHANGED <<queues, lockVars, pc, ae, holding, budget, exited>>

(* m_jobs.putTail(task) or m_urgentJobs.putTail(task).                     *)
PostPut(a) ==
    /\ Doing(a, "put")
    /\ IF call[a][3]
         THEN m_urgentJobs' = Append(m_urgentJobs, call[a][2]) /\ UNCHANGED m_jobs
         ELSE m_jobs' = Append(m_jobs, call[a][2]) /\ UNCHANGED m_urgentJobs
    /\ Become(a, <<"post">>)
    /\ UNCHANGED <<m_ref, m_sem, lockVars, pc, ae, holding, budget, exited>>

(* m_sem.post().                                                           *)
PostSem(a) ==
    /\ Doing(a, "post")
    /\ m_sem' = m_sem + 1
    /\ Become(a, << >>)
    /\ UNCHANGED <<m_ref, m_jobs, m_urgentJobs, lockVars, pc, ae, holding, budget, exited>>

(* holder()->Ref() at the end of isolate_ref().                            *)
HoldRef(a) ==
    /\ Doing(a, "hold")
    /\ m_ref' = m_ref + 1
    /\ Become(a, << >>)
    /\ UNCHANGED <<queues, lockVars, pc, ae, holding, budget, exited>>

(* Unref() of the main isolate: the agent that reaches zero posts the exit  *)
(* job with sync().                                                        *)
Unref(a) ==
    /\ Doing(a, "unref")
    /\ m_ref' = m_ref - 1
    /\ Become(a, IF m_ref' = 0 THEN <<"ref", Exit, FALSE>> ELSE << >>)
    /\ UNCHANGED <<queues, lockVars, pc, ae, holding, budget, exited>>

CallStep(a) == PostRef(a) \/ PostPut(a) \/ PostSem(a) \/ HoldRef(a) \/ Unref(a)

-----------------------------------------------------------------------------
(* A fiber is inside a job with the v8 lock; a native thread may act for an *)
(* object that holds the isolate.                                          *)
InJob(f) == f \in Fibers /\ pc[f] = "run" /\ locker = f

MayPost(a) == Idle(a) /\ (InJob(a) \/ (a \in Natives /\ holding # {}))

(* sync(), sync_urgent(), JSFiber::start(): post job j.                    *)
Post(a, j, urgent) ==
    /\ MayPost(a)
    /\ j \in Jobs \ posted
    /\ posted' = posted \cup {j}
    /\ Become(a, <<"ref", j, urgent>>)
    /\ UNCHANGED <<m_ref, queues, lockVars, pc, ae, holding, holds, exited>>

(* object_base::isolate_ref() up to its Ref(), by JavaScript.              *)
isolate_ref(f, o) ==
    /\ InJob(f) /\ Idle(f)
    /\ o \notin holding
    /\ holds < MaxHolds
    /\ holds' = holds + 1
    /\ holding' = holding \cup {o}
    /\ Become(f, <<"hold">>)
    /\ UNCHANGED <<m_ref, queues, lockVars, pc, ae, posted, exited>>

(* object_base::isolate_unref() up to its Unref(), by JavaScript or by the  *)
(* thread that completes the object's operation.                           *)
isolate_unref(a, o) ==
    /\ MayPost(a)
    /\ o \in holding
    /\ holding' = holding \ {o}
    /\ Become(a, <<"unref">>)
    /\ UNCHANGED <<m_ref, queues, lockVars, pc, ae, budget, exited>>

(* coroutine.spareFibers = n                                               *)
set_spareFibers(f, n) ==
    /\ InJob(f) /\ Idle(f)
    /\ g_spareFibers' = n
    /\ UNCHANGED <<m_ref, queues, m_idleFibers, locker, pc, ae, call, holding, budget, exited>>

-----------------------------------------------------------------------------
(* v8::Locker on entry, and m_idleFibers--.                                *)
Enter(f) ==
    /\ pc[f] = "enter" /\ locker = None
    /\ locker' = f
    /\ m_idleFibers' = m_idleFibers - 1
    /\ Goto(f, "top")
    /\ UNCHANGED <<m_ref, queues, g_spareFibers, ae, call, holding, budget, exited>>

(* Mutant: the token stays in the semaphore.                               *)
TryWaitKeepsToken(f) ==
    /\ pc[f] = "top" /\ m_sem > 0
    /\ Goto(f, "spare")
    /\ UNCHANGED <<m_ref, queues, lockVars, ae, call, holding, budget, exited>>

(* m_sem.trywait() takes a token.                                          *)
TryWait(f) ==
    /\ pc[f] = "top" /\ m_sem > 0
    /\ m_sem' = m_sem - 1
    /\ Goto(f, "spare")
    /\ UNCHANGED <<m_ref, m_jobs, m_urgentJobs, lockVars, ae, call, holding, budget, exited>>

(* Mutant: >= for >, so one fiber fewer than g_spareFibers is kept.        *)
ParkOrLeaveEarly(f) ==
    /\ pc[f] = "top" /\ m_sem = 0
    /\ locker' = None
    /\ IF m_idleFibers + 1 >= g_spareFibers
         THEN Goto(f, "none") /\ UNCHANGED m_idleFibers
         ELSE Goto(f, "idle") /\ m_idleFibers' = m_idleFibers + 1
    /\ UNCHANGED <<m_ref, queues, g_spareFibers, ae, call, holding, budget, exited>>

(* m_sem.trywait() fails: one idle fiber too many leaves, any other gives   *)
(* up the lock and parks in m_sem.wait().                                  *)
ParkOrLeave(f) ==
    /\ pc[f] = "top" /\ m_sem = 0
    /\ locker' = None
    /\ IF m_idleFibers + 1 > g_spareFibers
         THEN Goto(f, "none") /\ UNCHANGED m_idleFibers
         ELSE Goto(f, "idle") /\ m_idleFibers' = m_idleFibers + 1
    /\ UNCHANGED <<m_ref, queues, g_spareFibers, ae, call, holding, budget, exited>>

(* m_sem.wait() returns; the fiber still has to relock.                    *)
Wake(f) ==
    /\ pc[f] = "idle" /\ m_sem > 0
    /\ m_sem' = m_sem - 1
    /\ Goto(f, "woken")
    /\ UNCHANGED <<m_ref, m_jobs, m_urgentJobs, lockVars, ae, call, holding, budget, exited>>

Relock(f) ==
    /\ pc[f] = "woken" /\ locker = None
    /\ locker' = f
    /\ m_idleFibers' = m_idleFibers - 1
    /\ Goto(f, "spare")
    /\ UNCHANGED <<m_ref, queues, g_spareFibers, ae, call, holding, budget, exited>>

(* Mutant: no spare fiber is created.                                      *)
KeepNoSpare(f) ==
    /\ pc[f] = "spare"
    /\ Goto(f, "urgent")
    /\ UNCHANGED <<m_ref, queues, lockVars, ae, call, holding, budget, exited>>

(* if (m_idleFibers == 0): create a spare fiber n.                         *)
KeepSpare(f) ==
    /\ pc[f] = "spare"
    /\ IF m_idleFibers = 0
         THEN /\ m_idleFibers' = m_idleFibers + 1
              /\ \E n \in Fibers :
                    pc[n] = "none" /\ pc' = [pc EXCEPT ![f] = "urgent", ![n] = "enter"]
         ELSE Goto(f, "urgent") /\ UNCHANGED m_idleFibers
    /\ UNCHANGED <<m_ref, queues, g_spareFibers, locker, ae, call, holding, budget, exited>>

(* ae = m_urgentJobs.getHead()                                             *)
TakeUrgent(f) ==
    /\ pc[f] = "urgent"
    /\ IF m_urgentJobs = << >>
         THEN Goto(f, "normal") /\ UNCHANGED <<ae, m_urgentJobs>>
         ELSE /\ Goto(f, "run")
              /\ ae' = [ae EXCEPT ![f] = Head(m_urgentJobs)]
              /\ m_urgentJobs' = Tail(m_urgentJobs)
    /\ UNCHANGED <<m_ref, m_sem, m_jobs, lockVars, call, holding, budget, exited>>

(* if (!ae) ae = m_jobs.getHead(): the code does not test this one for null,*)
(* so an empty queue makes a job of None.                                  *)
TakeNormal(f) ==
    /\ pc[f] = "normal"
    /\ Goto(f, "run")
    /\ IF m_jobs = << >>
         THEN UNCHANGED <<ae, m_jobs>>
         ELSE ae' = [ae EXCEPT ![f] = Head(m_jobs)] /\ m_jobs' = Tail(m_jobs)
    /\ UNCHANGED <<m_ref, m_sem, m_urgentJobs, lockVars, call, holding, budget, exited>>

(* A job blocks: LeaveJsScope gives up the v8 lock.                        *)
Block(f) ==
    /\ InJob(f) /\ Idle(f)
    /\ locker' = None
    /\ Goto(f, "blocked")
    /\ UNCHANGED <<m_ref, queues, g_spareFibers, m_idleFibers, ae, call, holding, budget,
                   exited>>

(* What the job waited for has come, and the fiber has relocked.           *)
Resume(f) ==
    /\ pc[f] = "blocked" /\ locker = None
    /\ locker' = f
    /\ Goto(f, "run")
    /\ UNCHANGED <<m_ref, queues, g_spareFibers, m_idleFibers, ae, call, holding, budget,
                   exited>>

(* js_invoke() returns and isolate->Unref(hr) begins.                      *)
Return(f) ==
    /\ Goto(f, "done")
    /\ ae' = [ae EXCEPT ![f] = None]
    /\ Become(f, <<"unref">>)
    /\ UNCHANGED exited

(* Mutant: the exit job does not look at m_ref again.                      *)
FinishUnchecked(f) ==
    /\ InJob(f) /\ Idle(f)
    /\ IF ae[f] = Exit
         THEN exited' = TRUE /\ UNCHANGED <<pc, ae, call>>
         ELSE Return(f)
    /\ UNCHANGED <<m_ref, queues, lockVars, holding, budget>>

(* Mutant: off by one, the exit job forgets its own reference.             *)
FinishAtZero(f) ==
    /\ InJob(f) /\ Idle(f)
    /\ IF ae[f] = Exit /\ m_ref = 0
         THEN exited' = TRUE /\ UNCHANGED <<pc, ae, call>>
         ELSE Return(f)
    /\ UNCHANGED <<m_ref, queues, lockVars, holding, budget>>

(* The exit job has emitted beforeExit and looks at m_ref; any other job    *)
(* just returns.                                                           *)
Finish(f) ==
    /\ InJob(f) /\ Idle(f)
    /\ IF ae[f] = Exit /\ m_ref = 1
         THEN exited' = TRUE /\ UNCHANGED <<pc, ae, call>>
         ELSE Return(f)
    /\ UNCHANGED <<m_ref, queues, lockVars, holding, budget>>

(* Unref() is over: back to the top of the loop.                           *)
Again(f) ==
    /\ pc[f] = "done" /\ Idle(f)
    /\ Goto(f, "top")
    /\ UNCHANGED <<m_ref, queues, lockVars, ae, call, holding, budget, exited>>

LoopStep(f) ==
    \/ Enter(f) \/ TryWait(f) \/ ParkOrLeave(f) \/ Wake(f) \/ Relock(f)
    \/ KeepSpare(f) \/ TakeUrgent(f) \/ TakeNormal(f) \/ Again(f)

-----------------------------------------------------------------------------
(* The constructor has created the first fiber, and the job that runs the   *)
(* main script has been posted.                                            *)
Init ==
    /\ m_ref = 1
    /\ m_sem = 1
    /\ m_jobs = <<Main>>
    /\ m_urgentJobs = << >>
    /\ m_idleFibers = 1
    /\ g_spareFibers \in SpareValues
    /\ locker = None
    /\ \E first \in Fibers :
          pc = [f \in Fibers |-> IF f = first THEN "enter" ELSE "none"]
    /\ ae = [f \in Fibers |-> None]
    /\ call = [a \in Agents |-> << >>]
    /\ holding = {}
    /\ holds = 0
    /\ posted = {}
    /\ exited = FALSE

Next ==
    /\ ~exited
    /\ \/ \E a \in Agents :
             \/ CallStep(a)
             \/ \E j \in Jobs, urgent \in BOOLEAN : Post(a, j, urgent)
             \/ \E o \in Objects : isolate_unref(a, o)
       \/ \E f \in Fibers :
             \/ LoopStep(f) \/ Block(f) \/ Resume(f) \/ Finish(f)
             \/ \E o \in Objects : isolate_ref(f, o)
             \/ \E n \in SpareValues : set_spareFibers(f, n)

Spec == Init /\ [][Next]_vars

(* Fibers and threads run on; a job that has the lock does not keep it for  *)
(* ever: it returns or blocks.  A blocked job may stay blocked.  Without    *)
(* new work these steps come to an end, so that fairness of all together    *)
(* is enough.                                                              *)
LoopFairness ==
    /\ WF_vars(~exited /\ ((\E a \in Agents : CallStep(a)) \/ \E f \in Fibers : LoopStep(f)))
    /\ SF_vars(~exited /\ \E f \in Fibers : Finish(f))

(* A program whose work ends: what a job waits for comes, and the threads   *)
(* that work for the holding objects finish and release them.              *)
WorkEnds ==
    /\ SF_vars(~exited /\ \E f \in Fibers : Resume(f))
    /\ WF_vars(~exited /\ \E n \in Natives, o \in Objects : isolate_unref(n, o))

FairSpec == Spec /\ LoopFairness

-----------------------------------------------------------------------------
(* m_ref and the semaphore never go below zero, m_idleFibers never below    *)
(* zero, and every other variable has its type.                            *)
TypeOK ==
    /\ m_ref \in Nat /\ m_sem \in Nat /\ m_idleFibers \in Nat
    /\ m_jobs \in Seq(AllJobs) /\ m_urgentJobs \in Seq(AllJobs)
    /\ locker \in Fibers \cup {None} /\ g_spareFibers \in SpareValues
    /\ pc \in [Fibers -> Labels]
    /\ ae \in [Fibers -> AllJobs \cup {None}]
    /\ call \in [Agents -> Calls]
    /\ holding \subseteq Objects
    /\ holds \in 0..MaxHolds
    /\ posted \subseteq Jobs
    /\ exited \in BOOLEAN

At(labels) == {f \in Fibers : pc[f] \in labels}

(* Line 71 calls ae->js_invoke() without a test: a fiber that has taken a   *)
(* token always finds a job, because post_task() queues before it posts.   *)
JobFound == \A f \in Fibers : pc[f] \in {"run", "blocked"} => ae[f] # None

(* m_ref is the number of jobs queued or running, plus the objects that     *)
(* hold, corrected for the calls between m_holding and m_ref.              *)
RefAccounting ==
    /\ TypeOK
    /\ m_ref = Len(m_jobs) + Len(m_urgentJobs)
               + Cardinality(At({"run", "blocked"}))
               + Cardinality(holding)
               + Cardinality({a \in Agents : Doing(a, "unref") \/ Doing(a, "put")})
               - Cardinality({a \in Agents : Doing(a, "hold")})

(* "Keep a spare worker fiber parked so a newly posted job always has       *)
(* someone to run it" (lines 52-54): whenever nobody owns the v8 lock, some *)
(* fiber is neither gone nor stuck inside a job.                           *)
SpareFiber == locker = None => At({"enter", "idle", "woken"}) # {}

(* The process exits from the exit job only when nothing is left: no job is *)
(* queued or about to be, no object holds, and no other fiber is inside a   *)
(* job.  (A call that has not made its Ref() yet does not count: that is a  *)
(* post on behalf of an object that was released meanwhile, or a second     *)
(* exit job.)                                                              *)
ExitClean ==
    exited => /\ m_jobs = << >> /\ m_urgentJobs = << >> /\ holding = {}
              /\ At({"run", "blocked"}) = {locker} /\ ae[locker] = Exit
              /\ \A a \in Agents : ~Doing(a, "put") /\ ~Doing(a, "unref")

(* Job j has been put on a queue.                                          *)
Queued(j) ==
    \/ \E i \in 1..Len(m_jobs) : m_jobs[i] = j
    \/ \E i \in 1..Len(m_urgentJobs) : m_urgentJobs[i] = j

(* A queued job is run, even if other jobs block for ever: the spare fiber  *)
(* of lines 52-63 is there to take it.                                     *)
JobRuns ==
    \A j \in Jobs : Queued(j) ~> (exited \/ \E f \in Fibers : ae[f] = j)

(* A program whose work ends exits: however Ref() and Unref() from several  *)
(* threads interleave, some exit job sees m_ref = 1.                       *)
Exits == WorkEnds => <>exited

=============================================================================
