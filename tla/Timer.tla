-------------------------------- MODULE Timer --------------------------------
(***************************************************************************)
(* fibjs/include/Timer.h, fibjs/src/global/Timer.cpp and timeout.cpp: the   *)
(* timers of one isolate and the time limits of timers.call().             *)
(*                                                                         *)
(* Script, the isolate's jobs and V8's interrupt callbacks share the thread *)
(* of the isolate and are not preempted; a callback that blocks leaves the  *)
(* thread to the others.  Expiry, and the wake-up that cancel_sleep() asks  *)
(* for, happen on the timer thread.                                        *)
(***************************************************************************)
EXTENDS Integers, Sequences, FiniteSets

CONSTANTS
    Timers,       \* identities for the Timer objects
    Fibers,       \* the fibers that call timers.call()
    MaxFires,     \* bound on the callbacks of one repeating timer
    MaxHr         \* bound on the high-resolution timers and time limits

ASSUME BoundsAssumption == MaxFires \in Nat /\ MaxHr \in Nat
ASSUME NamesAssumption == {"interrupts", "stop", "none"} \cap (Timers \cup Fibers) = {}

VARIABLES
    kind,          \* the function that made the timer, "new" until it is made
    m_cancel, m_hr,
    m_holding,     \* the timer holds a reference of the isolate
    refs,          \* the reference the constructor takes for the timer itself
    asleep,        \* timers the timer thread knows
    cancels,       \* cancel_sleep() requests the timer thread has not met yet
    jobs,          \* jobs of the isolate, in order
    interrupts,    \* interrupts requested of V8, in order
    m_has_timer,   \* a job that serves interrupts is posted
    requesting,    \* how far the timer thread is in RequestInterrupt()
    serving,       \* the isolate is in that job
    entering,      \* the timer whose function on_js_timer() is about to call
    calling,       \* timers whose callback has not returned
    fired,         \* how often the callback of a timer was called
    late,          \* history: functions called since terminating
    terminating,   \* is_terminating()
    scopes,        \* the open TimeoutScopes of a fiber, innermost last
    m_termed,      \* JSFiber::m_termed
    m_fiber,       \* the fiber of a time limit
    nest,          \* the outermost TimeoutScope around a TimeoutScope
    outcome,       \* what result() returned
    exited         \* fibers that called process.exit()

state == [m_cancel |-> m_cancel, m_hr |-> m_hr, m_holding |-> m_holding, refs |-> refs,
          asleep |-> asleep, cancels |-> cancels, jobs |-> jobs, interrupts |-> interrupts,
          m_has_timer |-> m_has_timer, requesting |-> requesting, entering |-> entering,
          calling |-> calling]

Assign(st) ==
    /\ m_cancel' = st.m_cancel /\ m_hr' = st.m_hr
    /\ m_holding' = st.m_holding /\ refs' = st.refs
    /\ asleep' = st.asleep /\ cancels' = st.cancels
    /\ jobs' = st.jobs /\ interrupts' = st.interrupts
    /\ m_has_timer' = st.m_has_timer /\ requesting' = st.requesting
    /\ entering' = st.entering /\ calling' = st.calling

callVars == <<scopes, m_termed, m_fiber, nest, outcome, exited>>
vars == <<kind, m_cancel, m_hr, m_holding, refs, asleep, cancels, jobs, interrupts, m_has_timer,
          requesting, serving, entering, calling, fired, late, terminating, callVars>>

Kinds == {"timeout", "interval", "hr", "immediate", "call"}
Repeats(t) == kind[t] \in {"interval", "hr"}
Interrupting == {"hr", "call"}
Made == {t \in Timers : kind[t] # "new"}

-----------------------------------------------------------------------------

(* Mutant: clear() leaves the timer asleep.                                *)
clear_only(st, t) == [st EXCEPT !.m_cancel[t] = TRUE]

(* clear(): the first one asks the timer thread to wake the timer.         *)
clear(st, t) ==
    IF st.m_cancel[t] THEN st ELSE [st EXCEPT !.m_cancel[t] = TRUE, !.cancels = @ \cup {t}]

(* on_clean() and Unref() of callback().                                   *)
Clean(st, t) == [st EXCEPT !.m_holding[t] = FALSE, !.refs[t] = @ - 1]

(* Isolate::RequestInterrupt, its first line: V8 serves the interrupt when  *)
(* script runs.                                                            *)
RequestInterrupt(st, t) ==
    [st EXCEPT !.interrupts = Append(@, t), !.requesting = "mark"]

(* Mutant: resume() goes on after it has cleaned the timer.                *)
resume_goes_on(st, t) ==
    IF terminating THEN [Clean(clear(st, t), t) EXCEPT !.jobs = Append(@, t)]
    ELSE IF st.m_hr[t] /\ ~st.m_cancel[t] THEN RequestInterrupt(st, t)
    ELSE [st EXCEPT !.m_hr[t] = FALSE, !.jobs = Append(@, t)]

(* JSTimer::resume.                                                        *)
resume(st, t) ==
    CASE terminating -> Clean(clear(st, t), t)
      [] ~terminating /\ st.m_hr[t] /\ ~st.m_cancel[t] -> RequestInterrupt(st, t)
      [] OTHER -> [st EXCEPT !.m_hr[t] = FALSE, !.jobs = Append(@, t)]

(* sleep(): setImmediate() has no timeout.                                 *)
sleep(st, t, k) ==
    IF k = "immediate" THEN resume(st, t) ELSE [st EXCEPT !.asleep = @ \cup {t}]

(* callback() after on_timer().                                            *)
Called(st, t) ==
    IF Repeats(t) /\ ~st.m_cancel[t]
      THEN sleep(st, t, kind[t])
      ELSE Clean([st EXCEPT !.m_cancel[t] = TRUE], t)

-----------------------------------------------------------------------------

(* The constructor and sleep() of the functions that make a timer.         *)
Make(t, k) ==
    /\ Made # Timers /\ t = CHOOSE u \in Timers : kind[u] = "new"
    /\ k \in Interrupting => Cardinality({u \in Made : kind[u] \in Interrupting}) < MaxHr
    /\ kind' = [kind EXCEPT ![t] = k]
    /\ Assign(sleep([state EXCEPT !.m_hr[t] = k \in Interrupting, !.m_holding[t] = TRUE,
                                  !.refs[t] = 1], t, k))

(* The thread of the isolate is not on its way into a timer's function.     *)
AtRest == entering = "none"

(* Script runs: the isolate is not in the job that serves interrupts.      *)
Script == AtRest /\ ~serving

(* setTimeout(), setInterval(), setHrInterval() and setImmediate().        *)
setTimer(t, k) ==
    /\ Script
    /\ Make(t, k)
    /\ UNCHANGED <<serving, fired, late, terminating, callVars>>

(* clearTimeout() and its like, and clear() of the Timer.                  *)
Clear(t) ==
    /\ Script /\ t \in Made /\ ~m_cancel[t]
    /\ Assign(clear(state, t))
    /\ UNCHANGED <<kind, serving, fired, late, terminating, callVars>>

(* ref() and unref() of the Timer.                                         *)
Ref(t, on) ==
    /\ Script /\ t \in Made /\ m_holding[t] # on
    /\ Assign([state EXCEPT !.m_holding[t] = on])
    /\ UNCHANGED <<kind, serving, fired, late, terminating, callVars>>

(* The timer thread: a timer expires.                                      *)
Expire(t) ==
    /\ requesting = "no"
    /\ t \in asleep /\ (Repeats(t) => fired[t] < MaxFires)
    /\ Assign(resume([state EXCEPT !.asleep = @ \ {t}], t))
    /\ UNCHANGED <<kind, serving, fired, late, terminating, callVars>>

(* The timer thread meets a cancel_sleep(): a timer it does not know, or no *)
(* longer knows, is passed over.                                           *)
cancel_sleep(t) ==
    /\ requesting = "no"
    /\ t \in cancels
    /\ LET met == [state EXCEPT !.cancels = @ \ {t}]
       IN  Assign(IF t \in asleep THEN resume([met EXCEPT !.asleep = @ \ {t}], t) ELSE met)
    /\ UNCHANGED <<kind, serving, fired, late, terminating, callVars>>

(* The rest of Isolate::RequestInterrupt, on the timer thread: unless one is *)
(* posted, a job for the isolate that runs no script.                      *)
RequestMark ==
    /\ requesting = "mark"
    /\ Assign([state EXCEPT !.m_has_timer = TRUE,
                            !.requesting = IF m_has_timer THEN "no" ELSE "post"])
    /\ UNCHANGED <<kind, serving, fired, late, terminating, callVars>>

RequestPost ==
    /\ requesting = "post"
    /\ Assign([state EXCEPT !.jobs = Append(@, "interrupts"), !.requesting = "no"])
    /\ UNCHANGED <<kind, serving, fired, late, terminating, callVars>>

-----------------------------------------------------------------------------

(* Mutant: the callback runs although the isolate terminates.              *)
OnTimerUnchecked(t) == kind[t] # "call"

(* on_js_timer() calls the function unless the isolate terminates.         *)
CallsScript(t) == kind[t] # "call" /\ ~terminating

(* Mutant: the fiber is marked only when it is the one that runs.          *)
FuncTimerRunning(t) ==
    \E current \in BOOLEAN : m_termed' = [m_termed EXCEPT ![m_fiber[t]] = @ \/ current]

(* FuncTimer::on_js_timer.  The fiber is terminated now if it runs, and     *)
(* otherwise when it next enters script (~SnapshotJsScope).                *)
FuncTimer(t) == m_termed' = [m_termed EXCEPT ![m_fiber[t]] = TRUE]

(* Mutant: a timer is called without a look at m_cancel.                   *)
CancelledNever(t) == FALSE

(* callback() of a timer that was cleared.                                 *)
Cancelled(t) == m_cancel[t]

(* callback(), up to the call of the function: on_js_timer() has looked at   *)
(* is_terminating() and prepares the arguments.                            *)
Callback(st, t) ==
    \/ /\ Cancelled(t)
       /\ Assign(Clean(st, t))
       /\ UNCHANGED <<fired, m_termed>>
    \/ /\ ~Cancelled(t) /\ CallsScript(t)
       /\ Assign([st EXCEPT !.entering = t])
       /\ UNCHANGED <<fired, m_termed>>
    \/ /\ ~Cancelled(t) /\ kind[t] # "call" /\ ~CallsScript(t)
       /\ Assign(Called(clear(st, t), t))
       /\ UNCHANGED <<fired, m_termed>>
    \/ /\ ~Cancelled(t) /\ kind[t] = "call"
       /\ FuncTimer(t)
       /\ Assign(Called(st, t))
       /\ fired' = [fired EXCEPT ![t] = @ + 1]

(* callback->Call().  Script called by a job may block, which keeps the      *)
(* timer in calling; a high-resolution callback may not, and may clear its  *)
(* timer.                                                                  *)
CallFunction(t) ==
    /\ entering = t
    /\ LET st == [state EXCEPT !.entering = "none"]
       IN  \/ ~m_hr[t] /\ Assign([st EXCEPT !.calling = @ \cup {t}])
           \/ m_hr[t] /\ \E ran \in {st, clear(st, t)} : Assign(Called(ran, t))
    /\ fired' = [fired EXCEPT ![t] = @ + 1]
    /\ late' = IF terminating THEN late + 1 ELSE late
    /\ UNCHANGED <<kind, serving, terminating, callVars>>

(* stop() of every object that holds the isolate.                          *)
stopHoldingObjects(st) ==
    [st EXCEPT !.m_cancel = [t \in Timers |-> @[t] \/ st.m_holding[t]],
               !.cancels = @ \cup {t \in Timers : st.m_holding[t] /\ ~st.m_cancel[t]}]

(* Mutant: m_has_timer is never reset.                                     *)
ServeBeginsMarked(st) == st

(* Isolate::RequestInterrupt, its job: reset, then call the interrupts.    *)
ServeBegins(st) == [st EXCEPT !.m_has_timer = FALSE]

(* A job that serves interrupts only begins here.                          *)
RunJob ==
    /\ Script /\ jobs # << >>
    /\ LET job == Head(jobs)
           st == [state EXCEPT !.jobs = Tail(@)]
       IN  \/ /\ job \in Timers
              /\ Callback(st, job)
              /\ UNCHANGED serving
           \/ /\ job = "stop"
              /\ Assign(stopHoldingObjects(st))
              /\ UNCHANGED <<serving, fired, m_termed>>
           \/ /\ job = "interrupts"
              /\ Assign(ServeBegins(st))
              /\ serving' = TRUE
              /\ UNCHANGED <<fired, m_termed>>
    /\ UNCHANGED <<kind, late, terminating, scopes, m_fiber, nest, outcome, exited>>

(* V8 calls the interrupts one by one, while script runs or in the job.    *)
Interrupt ==
    /\ AtRest /\ interrupts # << >>
    /\ Callback([state EXCEPT !.interrupts = Tail(@)], Head(interrupts))
    /\ UNCHANGED <<kind, serving, late, terminating, scopes, m_fiber, nest, outcome, exited>>

(* InvokeApiInterruptCallbacks() finds no more interrupts.                 *)
ServeEnds ==
    /\ AtRest /\ serving /\ interrupts = << >>
    /\ serving' = FALSE
    /\ Assign(state)
    /\ UNCHANGED <<kind, fired, late, terminating, callVars>>

(* The function a job called returns, or throws.                           *)
Return(t) ==
    /\ Script /\ t \in calling
    /\ Assign(Called([state EXCEPT !.calling = @ \ {t}], t))
    /\ UNCHANGED <<kind, serving, fired, late, terminating, callVars>>

-----------------------------------------------------------------------------

(* timers.call(), or a script run with a timeout: the TimeoutScope.        *)
call(f, t) ==
    /\ Script /\ ~m_termed[f]
    /\ Make(t, "call")
    /\ m_fiber' = [m_fiber EXCEPT ![t] = f]
    /\ scopes' = [scopes EXCEPT ![f] = Append(@, t)]
    /\ nest' = [nest EXCEPT ![t] = scopes'[f][1]]
    /\ UNCHANGED <<serving, fired, late, terminating, m_termed, outcome, exited>>

(* TimeoutScope::result, when the function returns or is terminated.       *)
result(f) ==
    /\ Script /\ scopes[f] # << >>
    /\ LET t == scopes[f][Len(scopes[f])]
       IN  /\ Assign(clear(state, t))
           /\ outcome' = [outcome EXCEPT ![t] = IF m_termed[f] THEN "timeout" ELSE "returned"]
    /\ m_termed' = [m_termed EXCEPT ![f] = FALSE]
    /\ scopes' = [scopes EXCEPT ![f] = SubSeq(@, 1, Len(@) - 1)]
    /\ UNCHANGED <<kind, serving, fired, late, terminating, m_fiber, nest, exited>>

(* Worker::requestTerminate on the thread of the parent.                   *)
requestTerminate ==
    /\ ~terminating
    /\ terminating' = TRUE
    /\ Assign([state EXCEPT !.jobs = Append(@, "stop")])
    /\ UNCHANGED <<kind, serving, fired, late, callVars>>

(* Worker::exitFromInside: process.exit() of a worker.                     *)
exitFromInside(f) ==
    /\ Script /\ ~m_termed[f] /\ f \notin exited
    /\ terminating' = TRUE
    /\ Assign(stopHoldingObjects(state))
    /\ m_termed' = [m_termed EXCEPT ![f] = TRUE]
    /\ exited' = exited \cup {f}
    /\ UNCHANGED <<kind, serving, fired, late, scopes, m_fiber, nest, outcome>>

Init ==
    /\ kind = [t \in Timers |-> "new"]
    /\ m_cancel = [t \in Timers |-> FALSE] /\ m_hr = [t \in Timers |-> FALSE]
    /\ m_holding = [t \in Timers |-> FALSE] /\ refs = [t \in Timers |-> 0]
    /\ asleep = {} /\ cancels = {} /\ calling = {} /\ exited = {}
    /\ jobs = << >> /\ interrupts = << >>
    /\ m_has_timer = FALSE /\ serving = FALSE /\ terminating = FALSE
    /\ requesting = "no" /\ entering = "none"
    /\ fired = [t \in Timers |-> 0] /\ late = 0
    /\ scopes = [f \in Fibers |-> << >>] /\ m_termed = [f \in Fibers |-> FALSE]
    /\ m_fiber = [t \in Timers |-> "none"] /\ nest = [t \in Timers |-> "none"]
    /\ outcome = [t \in Timers |-> "none"]

(* What happens without a further call of the script.                      *)
System ==
    \/ \E t \in Timers : cancel_sleep(t) \/ CallFunction(t) \/ Return(t)
    \/ RequestMark \/ RequestPost
    \/ RunJob \/ ServeEnds
    \/ serving /\ Interrupt

Next ==
    \/ System
    \/ Interrupt
    \/ \E t \in Timers : Clear(t) \/ Expire(t) \/ \E on \in BOOLEAN : Ref(t, on)
    \/ \E t \in Timers, k \in Kinds \ {"call"} : setTimer(t, k)
    \/ \E f \in Fibers : result(f) \/ exitFromInside(f) \/ \E t \in Timers : call(f, t)
    \/ requestTerminate

Spec == Init /\ [][Next]_vars

(* The timer thread meets the requests made to it and finishes its own, the *)
(* isolate runs its jobs, and callbacks return.  Nothing says that a timer  *)
(* expires: the timeout may be weeks.                                      *)
FairSpec == Spec /\ WF_vars(System)

-----------------------------------------------------------------------------

(* The types of the variables.                                             *)
TypeOK ==
    /\ kind \in [Timers -> Kinds \cup {"new"}]
    /\ m_cancel \in [Timers -> BOOLEAN] /\ m_hr \in [Timers -> BOOLEAN]
    /\ m_holding \in [Timers -> BOOLEAN] /\ refs \in [Timers -> 0..1]
    /\ asleep \subseteq Timers /\ cancels \subseteq Timers /\ calling \subseteq Timers
    /\ \A i \in DOMAIN jobs : jobs[i] \in Timers \cup {"interrupts", "stop"}
    /\ \A i \in DOMAIN interrupts : interrupts[i] \in Timers
    /\ m_has_timer \in BOOLEAN /\ serving \in BOOLEAN
    /\ requesting \in {"no", "mark", "post"} /\ entering \in Timers \cup {"none"}
    /\ fired \in [Timers -> Nat] /\ late \in Nat /\ terminating \in BOOLEAN
    /\ m_termed \in [Fibers -> BOOLEAN] /\ exited \subseteq Fibers
    /\ m_fiber \in [Timers -> Fibers \cup {"none"}] /\ nest \in [Timers -> Timers \cup {"none"}]
    /\ outcome \in [Timers -> {"none", "returned", "timeout"}]
    /\ \A f \in Fibers, i \in 1..Cardinality(Timers) : i \in DOMAIN scopes[f] => scopes[f][i] \in Timers

Times(t, s) == Cardinality({i \in DOMAIN s : s[i] = t})
Holds(t, S) == IF t \in S THEN 1 ELSE 0

(* A timer that is not over is in exactly one place: asleep, in a job, in   *)
(* an interrupt, on the way into its function or in it; one that is over,   *)
(* and was released by Unref(), is in none.  The jobs and interrupts hold   *)
(* it as a plain this, so a second place would be a use after release.     *)
OnePlace ==
    /\ TypeOK
    /\ \A t \in Timers :
          refs[t] = Holds(t, asleep) + Holds(t, calling) + Holds(t, {entering})
                      + Times(t, jobs) + Times(t, interrupts)

(* A fiber is marked for termination only by a time limit that expired      *)
(* inside its own scope, or by process.exit(): the mark of a call never     *)
(* outlives it to terminate what the fiber does next.                      *)
TermedInScope ==
    \A f \in Fibers :
        m_termed[f] => f \in exited \/ \E i \in DOMAIN scopes[f] : fired[scopes[f][i]] > 0

(* A time limit that expired is reported: by its own call or, since the     *)
(* mark is of the fiber, by another call of the same nest.                 *)
ExpiryReported ==
    \A t \in Timers :
        (outcome[t] # "none" /\ fired[t] > 0) =>
            \E u \in Timers : nest[u] = nest[t] /\ outcome[u] = "timeout"

(* An interrupt is served although no script runs: the requests that find   *)
(* m_has_timer set are met by a job that is posted, or that still looks,    *)
(* or by a request that has not posted its job yet.                        *)
InterruptsServed ==
    interrupts # << >> => serving \/ Times("interrupts", jobs) > 0 \/ requesting # "no"

(* No callback begins once the timer was cleared, whichever thread was      *)
(* about to deliver it.  After is_terminating() at most one function is     *)
(* still called, the one on_js_timer() was about to call at that moment,    *)
(* however many timers are in jobs, in interrupts or asleep.               *)
FiresOnlyLive ==
    [][\A t \in Timers : fired'[t] # fired[t] => ~m_cancel[t] /\ late' <= 1]_vars

(* A timer that was cleared is released and lets go of the isolate, however *)
(* long it had to sleep and whatever ref() it was given on the way.        *)
ClearedReleases ==
    \A t \in Timers : (m_cancel[t] /\ refs[t] = 1) ~> (refs[t] = 0 /\ ~m_holding[t])

-----------------------------------------------------------------------------

(* The formulas below do not hold of the code; README section 4 says why.   *)

(* A call whose limit expired throws at its own call site (timers.idl).    *)
ReportedByItself == \A t \in Timers : outcome[t] = "returned" => fired[t] = 0

(* A call throws a timeout only when a limit expired.                      *)
TimeoutByLimit == \A t \in Timers : outcome[t] = "timeout" => \E u \in Timers : nest[u] = nest[t] /\ fired[u] > 0

(* Only a timer that is pending keeps the process alive (Timer.idl).       *)
HoldsOnlyPending == \A t \in Timers : m_holding[t] => refs[t] = 1

=============================================================================
