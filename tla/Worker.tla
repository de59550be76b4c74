------------------------------- MODULE Worker -------------------------------
(***************************************************************************)
(* fibjs/src/coroutine/Worker.cpp: the life of a Worker, from new Worker()  *)
(* to its exit event.  Three kinds of threads meet in the Worker object:    *)
(* the main isolate runs its jobs, the worker's isolate runs the script and *)
(* its own jobs, and terminate() runs outside the isolate's lock.           *)
(*                                                                         *)
(* The ports are those of module MessagePort, the parent listening from the *)
(* start; only messages from the worker to its parent are modelled.  What   *)
(* keeps the worker's isolate alive is its queued and running jobs, one     *)
(* timer and its started parentPort.                                       *)
(***************************************************************************)
EXTENDS Integers, Sequences, FiniteSets

CONSTANTS
    Calls,          \* calls of worker.terminate()
    MaxPosts,       \* bound on the messages the worker posts
    m_jsAffinity,   \* the main isolate has a thread of its own (the default)
    HardTerminate   \* FIBJS_WORKER_HARD_TERMINATE: terminate() interrupts the script

ASSUME CallsAssumption == IsFiniteSet(Calls)
ASSUME WorkerPostsAssumption == MaxPosts \in Nat
ASSUME FlagsAssumption == m_jsAffinity \in BOOLEAN /\ HardTerminate \in BOOLEAN

VARIABLES
    port, jobs, draining, sent, seen, lost,   \* see MessagePort
    m_exited, m_exitCode, m_terminating,      \* of the Worker object
    m_terminate_waiters,
    termPc,        \* where each terminate() call is
    resolved,      \* what its promise was resolved with, or None
    isoTerminating, isoExitCode,   \* m_terminating and m_exitCode of the worker's isolate
    termed,        \* m_termed of the fiber that runs the script
    script,        \* "new", "running", "ending" (in the failure path of _main), "done"
    timer,         \* a timer of the worker's isolate is running
    posting,       \* postMessage() of the worker, see MessagePort
    exiting,       \* per thread: where it is in emitExit(), and with which code
    joined,        \* the worker's thread was shut down and joined
    events         \* what the Worker's listeners were called with

channel == <<port, jobs, draining, sent, seen, lost>>
object  == <<m_exited, m_exitCode, m_terminating, m_terminate_waiters>>
callers == <<termPc, resolved>>
thread  == <<isoTerminating, isoExitCode, termed, script, timer, posting>>
vars    == <<channel, object, callers, thread, exiting, joined, events>>

P == INSTANCE MessagePort WITH
         m_can_deliver_inline <- TRUE,
         listening  <- [parent |-> TRUE, child |-> FALSE],
         posting    <- [parent |-> "no", child |-> posting],
         received   <- [parent |-> {}, child |-> {}]

None == -1
ExitN == 3          \* the N of process.exit(N); 0 and 1 have meanings of their own
Codes == {0, 1, ExitN}

state == [port |-> port, jobs |-> jobs]
Post(st, i, kind, code) == [st EXCEPT !.jobs[i] = Append(@, P!Job(kind, "parent", code))]

(* m_ref of the worker's isolate is not zero.                              *)
Held(st, s, t) ==
    \/ st.jobs["worker"] # << >>
    \/ s \in {"running", "ending"}
    \/ t
    \/ st.port["child"].m_keepalive_refed

(* Mutant: an isolate that is terminating is not reported idle.            *)
SettleQuiet(st, s, t, code) ==
    /\ script' = s
    /\ timer' = t
    /\ isoExitCode' = code
    /\ P!Assign(IF Held(state, script, timer) /\ ~Held(st, s, t) /\ ~isoTerminating
                  THEN Post(st, "main", "idle", code)
                  ELSE st)

(* A step of the worker's isolate, and the Unref() that ends it: when m_ref *)
(* becomes zero the parent is told, with the exit code of that moment.     *)
Settle(st, s, t, code) ==
    /\ script' = s
    /\ timer' = t
    /\ isoExitCode' = code
    /\ P!Assign(IF Held(state, script, timer) /\ ~Held(st, s, t)
                  THEN Post(st, "main", "idle", code)
                  ELSE st)

(* parentPort->close(): a terminating isolate is sent no close event.      *)
CloseChild(st, terminating) ==
    LET closed == P!ClosePort(st, "child")
    IN  IF terminating THEN [closed EXCEPT !.jobs = st.jobs] ELSE closed

Closed(ports) == lost' = [p \in P!Ports |-> IF p \in ports THEN lost[p] \cup P!Dropped(state, p) ELSE lost[p]]

-----------------------------------------------------------------------------
(* Who can take a step.  A job of the main isolate that is inside emitExit()*)
(* holds the isolate; terminate() holds only the thread, if it is the only  *)
(* one.  The script may be blocked while the worker runs another job.       *)
InTerminate == \E t \in Calls : termPc[t] \notin {"idle", "done"}
MainFree == exiting["main"].pc = "no" /\ ~(m_jsAffinity /\ InTerminate)
WorkerFree == ~joined /\ exiting["worker"].pc = "no" /\ posting = "no"

Begins(i, kind) ==
    /\ IF i = "main" THEN MainFree ELSE WorkerFree
    /\ jobs[i] # << >> /\ Head(jobs[i]).kind = kind
Begun(i) == [state EXCEPT !.jobs[i] = Tail(@)]

Enter(th, code) == exiting' = [exiting EXCEPT ![th] = [pc |-> "begin", code |-> code]]

-----------------------------------------------------------------------------
(* _main(): a worker terminated before it started exits with 1, another     *)
(* reports online and runs its script.                                     *)
RunMain ==
    /\ Begins("worker", "main")
    /\ IF isoTerminating
         THEN Settle(Begun("worker"), "ending", timer, isoExitCode) /\ Enter("worker", 1)
         ELSE /\ Settle(Post(Begun("worker"), "main", "online", 0), "running", timer, isoExitCode)
              /\ UNCHANGED exiting
    /\ UNCHANGED <<draining, sent, seen, lost, object, callers, isoTerminating, termed, posting, joined, events>>

(* JavaScript runs in the script, or in a callback of the timer.           *)
Active == WorkerFree /\ (script = "running" \/ (timer /\ ~isoTerminating))

(* parentPort.postMessage() passes its checks ...                          *)
PostCheck ==
    /\ Active
    /\ sent["parent"] < MaxPosts
    /\ ~port["child"].m_closed /\ port["child"].m_peer /\ ~port["parent"].m_closed
    /\ posting' = "checked"
    /\ UNCHANGED <<channel, object, callers, isoTerminating, isoExitCode, termed, script, timer,
                   exiting, joined, events>>

(* ... and sends; a port that terminate() or emitExit() severed meanwhile,  *)
(* on another thread, may send or go through its null m_peer, as in         *)
(* MessagePort.                                                            *)
Send ==
    /\ posting' = "no"
    /\ sent' = [sent EXCEPT !["parent"] = @ + 1]
    /\ P!Assign(Post(state, "main", "enqueue", sent["parent"] + 1))

PostSend ==
    /\ posting = "checked"
    /\ \/ Send
       \/ ~port["child"].m_peer /\ posting' = "null" /\ UNCHANGED <<port, jobs, sent>>
    /\ UNCHANGED <<draining, seen, lost, object, callers, isoTerminating, isoExitCode, termed,
                   script, timer, exiting, joined, events>>

(* parentPort.on("message").                                               *)
ScriptListen ==
    /\ Active
    /\ P!Assign(P!start(state, "child"))
    /\ UNCHANGED <<draining, sent, seen, lost, object, callers, thread, exiting, joined, events>>

ScriptTimer ==
    /\ Active
    /\ timer' = TRUE
    /\ UNCHANGED <<channel, object, callers, isoTerminating, isoExitCode, termed, script,
                   posting, exiting, joined, events>>

ScriptReturn ==
    /\ WorkerFree /\ script = "running"
    /\ Settle(state, "done", timer, isoExitCode)
    /\ UNCHANGED <<draining, sent, seen, lost, object, callers, isoTerminating, termed, posting,
                   exiting, joined, events>>

(* The script throws or is interrupted: an error event unless the isolate   *)
(* is terminating, then emitExit(1) on the worker's thread.                *)
ScriptFail ==
    /\ WorkerFree /\ script = "running"
    /\ Settle(IF isoTerminating THEN state ELSE Post(state, "main", "error", 0),
              "ending", timer, isoExitCode)
    /\ Enter("worker", 1)
    /\ UNCHANGED <<draining, sent, seen, lost, object, callers, isoTerminating, termed, posting,
                   joined, events>>

(* process.exit(N): exitFromInside() closes both ports, stops the timer and *)
(* marks the fiber that called it, the script's or the timer's, which is    *)
(* interrupted when it next leaves JavaScript.                             *)
(* Bound: a script that goes on and calls it again is left out.            *)
exitFromInside ==
    /\ Active /\ ~termed
    /\ isoTerminating' = TRUE
    /\ LET st == P!ClosePort(CloseChild(state, TRUE), "parent")
       IN  Settle(Post(st, "worker", "cancel", 0), script, FALSE, ExitN)
    /\ \/ script = "running" /\ termed' = TRUE
       \/ timer /\ ~isoTerminating /\ UNCHANGED termed
    /\ Closed(P!Ports)
    /\ UNCHANGED <<draining, sent, seen, object, callers, posting, exiting, joined, events>>

(* The timer ends: cleared, fired for the last time, or found that the      *)
(* isolate is terminating.                                                 *)
TimerEnds ==
    /\ WorkerFree /\ timer
    /\ Settle(state, script, FALSE, isoExitCode)
    /\ UNCHANGED <<draining, sent, seen, lost, object, callers, isoTerminating, termed, posting,
                   exiting, joined, events>>

(* Mutant: the port is left open.                                          *)
RunStopKeepsPort ==
    /\ Begins("worker", "stop")
    /\ Settle(Begun("worker"), script, FALSE, isoExitCode)
    /\ UNCHANGED <<draining, sent, seen, lost, object, callers, isoTerminating, termed, posting,
                   exiting, joined, events>>

(* The job posted by requestTerminate(): stopHoldingObjects(), close().    *)
RunStop ==
    /\ Begins("worker", "stop")
    /\ Settle(CloseChild(Begun("worker"), isoTerminating), script, FALSE, isoExitCode)
    /\ Closed({"child"})
    /\ UNCHANGED <<draining, sent, seen, object, callers, isoTerminating, termed, posting,
                   exiting, joined, events>>

(* The job posted by emitExit().                                           *)
RunCloseChild ==
    /\ Begins("worker", "closechild")
    /\ Settle(CloseChild(Begun("worker"), isoTerminating), script, timer, isoExitCode)
    /\ Closed({"child"})
    /\ UNCHANGED <<draining, sent, seen, object, callers, isoTerminating, termed, posting,
                   exiting, joined, events>>

(* The job that cancels the interrupt, and the close event of parentPort.  *)
RunOther ==
    /\ Begins("worker", "cancel") \/ Begins("worker", "close")
    /\ Settle(Begun("worker"), script, timer, isoExitCode)
    /\ UNCHANGED <<draining, sent, seen, lost, object, callers, isoTerminating, termed, posting,
                   exiting, joined, events>>

-----------------------------------------------------------------------------
(* terminate(): a worker that has exited resolves at once ...              *)
TermCheck(t) ==
    /\ termPc[t] = "idle"
    /\ MainFree
    /\ IF m_exited
         THEN /\ resolved' = [resolved EXCEPT ![t] = m_exitCode]
              /\ termPc' = [termPc EXCEPT ![t] = "done"]
         ELSE termPc' = [termPc EXCEPT ![t] = "push"] /\ UNCHANGED resolved
    /\ UNCHANGED <<channel, object, thread, exiting, joined, events>>

(* ... otherwise the call is added to the waiters ...                      *)
TermPush(t) ==
    /\ termPc[t] = "push"
    /\ m_terminate_waiters' = m_terminate_waiters \cup {t}
    /\ termPc' = [termPc EXCEPT ![t] = "request"]
    /\ UNCHANGED <<channel, m_exited, m_exitCode, m_terminating, resolved, thread,
                   exiting, joined, events>>

(* ... and requestTerminate(), unless the worker ends already, ...           *)
RequestTest(t) ==
    /\ termPc[t] = "request"
    /\ termPc' = [termPc EXCEPT ![t] = IF m_exited \/ m_terminating THEN "done" ELSE "mark"]
    /\ UNCHANGED <<channel, object, resolved, thread, exiting, joined, events>>

(* ... marks the Worker object ...                                         *)
RequestMark(t) ==
    /\ termPc[t] = "mark"
    /\ termPc' = [termPc EXCEPT ![t] = "code"]
    /\ m_terminating' = TRUE
    /\ UNCHANGED <<channel, m_exited, m_exitCode, m_terminate_waiters, resolved, thread,
                   exiting, joined, events>>

(* ... and the isolate, which the worker's thread may read in between ...   *)
RequestCode(t) ==
    /\ termPc[t] = "code"
    /\ termPc' = [termPc EXCEPT ![t] = "flag"]
    /\ isoExitCode' = 1
    /\ UNCHANGED <<channel, object, resolved, isoTerminating, termed, script, timer, posting,
                   exiting, joined, events>>

RequestFlag(t) ==
    /\ termPc[t] = "flag"
    /\ termPc' = [termPc EXCEPT ![t] = "close"]
    /\ isoTerminating' = TRUE
    /\ UNCHANGED <<channel, object, resolved, isoExitCode, termed, script, timer, posting,
                   exiting, joined, events>>

(* ... closes the Worker's port ...                                        *)
RequestClose(t) ==
    /\ termPc[t] = "close"
    /\ termPc' = [termPc EXCEPT ![t] = "stop"]
    /\ P!Assign(P!ClosePort(state, "parent"))
    /\ Closed({"parent"})
    /\ UNCHANGED <<draining, sent, seen, object, resolved, thread, exiting, joined, events>>

(* ... and posts the job that stops the worker.                            *)
RequestStop(t) ==
    /\ termPc[t] = "stop"
    /\ termPc' = [termPc EXCEPT ![t] = "done"]
    /\ P!Assign(Post(state, "worker", "stop", 0))
    /\ UNCHANGED <<draining, sent, seen, lost, object, resolved, thread, exiting, joined, events>>

requestTerminate(t) ==
    \/ RequestTest(t) \/ RequestMark(t) \/ RequestCode(t) \/ RequestFlag(t)
    \/ RequestClose(t) \/ RequestStop(t)

-----------------------------------------------------------------------------
(* onIsolateIdle(): the worker's isolate was idle when it posted this job.  *)
RunIdle ==
    /\ Begins("main", "idle")
    /\ P!Assign(Begun("main"))
    /\ IF m_exited
         THEN UNCHANGED exiting
         ELSE Enter("main", IF m_terminating THEN 1 ELSE Head(jobs["main"]).msg)
    /\ UNCHANGED <<draining, sent, seen, lost, object, callers, thread, joined, events>>

(* emitExit(): once only.  m_exited is tested, then set, without a lock.   *)
ExitTest(th) ==
    /\ exiting[th].pc = "begin"
    /\ exiting' = [exiting EXCEPT ![th].pc = IF m_exited THEN "leave" ELSE "tested"]
    /\ UNCHANGED <<channel, object, callers, thread, joined, events>>

(* Mutant: m_exited is not set.                                            *)
ExitUnmarked(th) ==
    /\ exiting[th].pc = "tested"
    /\ exiting' = [exiting EXCEPT ![th].pc = "marked"]
    /\ UNCHANGED <<channel, object, callers, thread, joined, events>>

ExitMark(th) ==
    /\ exiting[th].pc = "tested"
    /\ exiting' = [exiting EXCEPT ![th].pc = "marked"]
    /\ m_exited' = TRUE
    /\ UNCHANGED <<channel, m_exitCode, m_terminating, m_terminate_waiters, callers, thread,
                   joined, events>>

(* Record the code, close the Worker's port, post the closing of parentPort *)
(* and the exit event.                                                     *)
ExitEmit(th) ==
    /\ exiting[th].pc = "marked"
    /\ exiting' = [exiting EXCEPT ![th].pc = "emitted"]
    /\ m_exitCode' = exiting[th].code
    /\ LET st == Post(P!ClosePort(state, "parent"), "worker", "closechild", 0)
       IN  P!Assign(Post(st, "main", "exit", exiting[th].code))
    /\ Closed({"parent"})
    /\ UNCHANGED <<draining, sent, seen, m_exited, m_terminating, m_terminate_waiters, callers,
                   thread, joined, events>>

(* Take the waiters and resolve them.                                      *)
ExitResolve(th) ==
    /\ exiting[th].pc = "emitted"
    /\ exiting' = [exiting EXCEPT ![th].pc = "leave"]
    /\ m_terminate_waiters' = {}
    /\ resolved' = [t \in Calls |-> IF t \in m_terminate_waiters THEN exiting[th].code ELSE resolved[t]]
    /\ UNCHANGED <<channel, m_exited, m_exitCode, m_terminating, termPc, thread, joined, events>>

(* _main() returns to the worker's job loop ...                            *)
LeaveMain ==
    /\ exiting["worker"].pc = "leave"
    /\ exiting' = [exiting EXCEPT !["worker"].pc = "no"]
    /\ Settle(state, "done", timer, isoExitCode)
    /\ UNCHANGED <<draining, sent, seen, lost, object, callers, isoTerminating, termed, posting, joined, events>>

(* ... and onIsolateIdle() shuts the worker's thread down.                 *)
LeaveIdle ==
    /\ exiting["main"].pc = "leave"
    /\ exiting' = [exiting EXCEPT !["main"].pc = "no"]
    /\ joined' = (joined \/ m_jsAffinity)
    /\ UNCHANGED <<channel, object, callers, thread, events>>

emitExit(th) == ExitTest(th) \/ ExitMark(th) \/ ExitEmit(th) \/ ExitResolve(th)

-----------------------------------------------------------------------------
(* Mutant: a message that arrives after close() is dropped.                *)
RunEnqueueOpen ==
    /\ Begins("main", "enqueue")
    /\ P!Assign(IF port["parent"].m_closed THEN Begun("main")
                 ELSE P!enqueueSerializedMessage(Begun("main"), "parent", Head(jobs["main"]).msg))
    /\ UNCHANGED <<draining, sent, seen, lost, object, callers, thread, exiting, joined, events>>

(* Jobs of the main isolate: messages ...                                  *)
RunEnqueue ==
    /\ Begins("main", "enqueue")
    /\ P!Assign(P!enqueueSerializedMessage(Begun("main"), "parent", Head(jobs["main"]).msg))
    /\ UNCHANGED <<draining, sent, seen, lost, object, callers, thread, exiting, joined, events>>

Deliver(st) ==
    /\ P!Drain(st, "parent")
    /\ events' = IF st.port["parent"].m_queue = << >> THEN events ELSE Append(events, "message")
    /\ UNCHANGED <<sent, object, callers, thread, exiting, joined>>

RunFlush == Begins("main", "flush") /\ Deliver(Begun("main"))
ListenerReturns == MainFree /\ draining["parent"] /\ Deliver(state)

(* ... and the events emitted from either thread.  online is dropped when   *)
(* the worker is terminating by the time it is delivered.                  *)
RunEvent(ev) ==
    /\ Begins("main", ev)
    /\ P!Assign(Begun("main"))
    /\ events' = IF ev = "close" \/ (ev = "online" /\ isoTerminating) THEN events ELSE Append(events, ev)
    /\ UNCHANGED <<draining, sent, seen, lost, object, callers, thread, exiting, joined>>

-----------------------------------------------------------------------------
Init ==
    /\ port = [p \in P!Ports |->
                 [m_peer |-> TRUE, m_closed |-> FALSE, m_started |-> p = "parent",
                  m_keepalive_refed |-> FALSE, m_flush_pending |-> FALSE,
                  m_holding |-> FALSE, m_queue |-> << >>]]
    /\ jobs = [main |-> << >>, worker |-> <<P!Job("main", "parent", 0)>>]
    /\ draining = [p \in P!Ports |-> FALSE]
    /\ sent = [p \in P!Ports |-> 0]
    /\ seen = [p \in P!Ports |-> << >>]
    /\ lost = [p \in P!Ports |-> {}]
    /\ m_exited = FALSE /\ m_exitCode = 0 /\ m_terminating = FALSE
    /\ m_terminate_waiters = {}
    /\ termPc = [t \in Calls |-> "idle"]
    /\ resolved = [t \in Calls |-> None]
    /\ isoTerminating = FALSE /\ isoExitCode = 0 /\ termed = FALSE
    /\ script = "new" /\ timer = FALSE /\ posting = "no"
    /\ exiting = [th \in P!Isolates |-> [pc |-> "no", code |-> 0]]
    /\ joined = FALSE
    /\ events = << >>

MainJob ==
    \/ RunIdle \/ RunEnqueue \/ RunFlush \/ ListenerReturns
    \/ \E ev \in {"online", "error", "exit", "close"} : RunEvent(ev)
WorkerJob == RunMain \/ RunStop \/ RunCloseChild \/ RunOther
Script == PostCheck \/ PostSend \/ ScriptListen \/ ScriptTimer \/ ScriptReturn \/ ScriptFail \/ exitFromInside
Terminate(t) == TermPush(t) \/ requestTerminate(t)

Next ==
    \/ MainJob \/ WorkerJob \/ Script \/ TimerEnds
    \/ LeaveMain \/ LeaveIdle
    \/ \E th \in P!Isolates : emitExit(th)
    \/ \E t \in Calls : TermCheck(t) \/ Terminate(t)

Spec == Init /\ [][Next]_vars

(* Jobs run, calls return, a terminating isolate's timer ends, and a script *)
(* that was interrupted unwinds.                                           *)
Interrupted == isoTerminating /\ (HardTerminate \/ termed) /\ ScriptFail

System ==
    \/ MainJob \/ WorkerJob \/ LeaveMain \/ LeaveIdle \/ Interrupted \/ PostSend
    \/ \E th \in P!Isolates : emitExit(th)
    \/ \E t \in Calls : Terminate(t)

FairSpec == Spec /\ WF_vars(System) /\ WF_vars(isoTerminating /\ TimerEnds)

-----------------------------------------------------------------------------
Kinds == {"online", "error", "exit"}
JobKinds == Kinds \cup {"main", "stop", "closechild", "cancel", "idle", "enqueue", "flush", "close"}

(* Which event may come after which.                                       *)
Order == {<<"online", "error">>, <<"online", "exit">>, <<"error", "exit">>}

(* Every variable has its type.                                            *)
TypeOK ==
    /\ port \in [P!Ports -> [m_peer : BOOLEAN, m_closed : BOOLEAN, m_started : BOOLEAN,
                             m_keepalive_refed : BOOLEAN, m_flush_pending : BOOLEAN,
                             m_holding : BOOLEAN, m_queue : Seq(1..MaxPosts)]]
    /\ jobs \in [P!Isolates -> Seq([kind : JobKinds, port : P!Ports, msg : Codes \cup (0..MaxPosts)])]
    /\ draining \in [P!Ports -> BOOLEAN]
    /\ sent \in [P!Ports -> 0..MaxPosts]
    /\ seen \in [P!Ports -> Seq(1..MaxPosts)] /\ lost \in [P!Ports -> SUBSET (1..MaxPosts)]
    /\ m_exited \in BOOLEAN /\ m_terminating \in BOOLEAN /\ m_exitCode \in Codes
    /\ m_terminate_waiters \subseteq Calls
    /\ termPc \in [Calls -> {"idle", "push", "request", "mark", "code", "flag", "close", "stop", "done"}]
    /\ resolved \in [Calls -> Codes \cup {None}]
    /\ isoTerminating \in BOOLEAN /\ isoExitCode \in Codes /\ termed \in BOOLEAN
    /\ script \in {"new", "running", "ending", "done"}
    /\ posting \in {"no", "checked", "null"}
    /\ timer \in BOOLEAN /\ joined \in BOOLEAN
    /\ exiting \in [P!Isolates -> [pc : {"no", "begin", "tested", "marked", "emitted", "leave"},
                                code : Codes]]
    /\ events \in Seq(Kinds \cup {"message"})

(* The Worker's events come in the order online, error, exit, each at most  *)
(* once, whichever threads report them; only one thread at a time is inside *)
(* emitExit(), where m_exited is tested and set without a lock.            *)
Lifecycle ==
    /\ TypeOK
    /\ \A m, n \in 1..Len(events) :
          m < n /\ events[m] \in Kinds /\ events[n] \in Kinds => <<events[m], events[n]>> \in Order
    /\ Cardinality({th \in P!Isolates : exiting[th].pc \in {"tested", "marked", "emitted"}}) <= 1

(* The parent always learns that the worker is done: when nothing holds the *)
(* worker's isolate any more, exit was or is being emitted, or onIsolateIdle*)
(* is on its way.                                                          *)
IdleReported ==
    Held(state, script, timer) \/ m_exited \/ exiting["main"].pc # "no"
        \/ \E k \in 1..Len(jobs["main"]) : jobs["main"][k].kind = "idle"

(* What the worker posts reaches its parent complete and in order, whatever *)
(* terminate(), process.exit() and emitExit() close meanwhile: the messages *)
(* delivered, then those in the queue of the Worker's port, then those in   *)
(* the jobs of the parent are the messages posted.                         *)
PostsArrive ==
    LET got    == seen["parent"]
        queued == port["parent"].m_queue
        js     == jobs["main"]
        Moving == {k \in 1..Len(js) : js[k].kind = "enqueue"}
    IN  /\ \A k \in 1..Len(got) : got[k] = k
        /\ \A k \in 1..Len(queued) : queued[k] = Len(got) + k
        /\ {js[k].msg : k \in Moving} = (Len(got) + Len(queued) + 1)..sent["parent"]
        /\ \A k, l \in Moving : k < l => js[k].msg < js[l].msg

(* A terminate() whose promise was registered before the worker exited is   *)
(* resolved, whatever the script is doing: running, idle on its port or its *)
(* timer, failing or exiting by itself.                                    *)
RegisteredResolves ==
    \A t \in Calls : (t \in m_terminate_waiters /\ ~m_exited) ~> (resolved[t] # None \/ posting = "null")

(* Worker.idl and the comment on terminate(): the promise resolves when the *)
(* worker exits, at once if it has exited already.                         *)
TerminateResolves == \A t \in Calls : (termPc[t] # "idle") ~> (resolved[t] # None \/ posting = "null")

-----------------------------------------------------------------------------
(* What the documentation says and this model does not satisfy; README.md,  *)
(* section 4, has the behaviours.                                          *)

(* Worker.idl: terminate() resolves with the exit code.                    *)
ResolvedWithExitCode ==
    \A t \in Calls : resolved[t] # None /\ (\A th \in P!Isolates : exiting[th].pc # "marked") =>
        resolved[t] = m_exitCode

(* Worker.idl: exit comes last; the test "delivers messages sent before     *)
(* terminate and none after exit".                                         *)
NoMessageAfterExit ==
    \A m, n \in 1..Len(events) : events[m] = "exit" /\ events[n] = "message" => n < m

(* Worker.idl: the exit code is N for process.exit(N) inside the worker,    *)
(* unless terminate() intervened.                                          *)
ExitCodeOfProcessExit ==
    m_exited /\ isoExitCode = ExitN /\ ~m_terminating
        /\ (\A th \in P!Isolates : exiting[th].pc # "marked") => m_exitCode = ExitN

(* Worker.idl: exit is emitted when the thread ends; nothing of the worker  *)
(* runs after it.                                                          *)
NothingRunsAfterExit ==
    (\E n \in 1..Len(events) : events[n] = "exit") => ~Active

=============================================================================
