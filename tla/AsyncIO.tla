------------------------------- MODULE AsyncIO ------------------------------
(***************************************************************************)
(* Event-driven socket operations (fibjs/src/io/AsyncIO_ev.cpp and         *)
(* fibjs/include/AsyncIO.h) of one AsyncIO object.                         *)
(*                                                                         *)
(* connect, accept, read and write are called on the threads of the task   *)
(* pool and are tried there at once; what would block is handed to the     *)
(* single thread that runs the libev loop.  One exlib::Locker per          *)
(* direction admits one operation at a time and resumes the next.          *)
(* Callers, loop thread, timer thread and the threads that call close()    *)
(* and abort() interleave here at every access to what they share.         *)
(***************************************************************************)
EXTENDS Integers, Sequences

CONSTANTS
    Ops,         \* the AsyncSockProc objects
    None,        \* a null AsyncSockProc pointer, an unlocked Locker
    Plans,       \* what the operations may be: the kind of each, and the set
                 \* of those that are given a timeout > 0; and a bound: the
                 \* calls of abort()
    MaxCloses    \* bound: calls of close()

Kinds == {"connect", "accept", "read", "write"}

ASSUME NoneAssumption == None \notin Ops
ASSUME PlansAssumption == Plans \subseteq [kind : [Ops -> Kinds], timed : SUBSET Ops, aborts : Nat]
ASSUME BoundAssumption == MaxCloses \in Nat

VARIABLES
    kind, timed, maxAborts,  \* which of the Plans is followed
    m_fd,             \* "open" or "INVALID_SOCKET"
    m_abort_version,  \* incremented by abort()
    owner, waiters,   \* the Lockers m_lockRecv and m_lockSend
    m_opt,            \* m_RecvOpt and m_SendOpt
    s_evWait,         \* the posted events, behind what the loop thread still
                      \* owes the event it is running
    at,               \* how far each operation's object has come
    version,          \* the m_abort_version each operation was built with
    m_watching, m_timedout,
    timer,            \* the AsyncIOTimer of each operation
    result,           \* what was reported to the caller
    aborting,         \* the abort()s that have incremented and not yet posted
    closes, closed,   \* calls of close(), and how many have been answered
    born,             \* history: the abort()s that had returned at construction
    onCaller,         \* history: the operations that request() itself completed
    undefined         \* a destroyed operation was used: the model stops

plan == <<kind, timed, maxAborts>>
lock == <<owner, waiters>>
object == <<at, version, m_timedout, born>>
calls == <<m_abort_version, aborting, closes>>
vars == <<plan, m_fd, lock, m_opt, s_evWait, object, m_watching, timer, result, calls,
          closed, onCaller, undefined>>

Dirs == {"Recv", "Send"}

(* read, accept and connect take m_lockRecv, write takes m_lockSend.       *)
Dir(o) == IF kind[o] = "write" THEN "Send" ELSE "Recv"

(* What the loop thread is given (start, cancel, close, abort), and what    *)
(* remains of it after its first step (the others).                        *)
Task(t, x) == [t |-> t, x |-> x]
Events == {"start", "cancel", "close", "abort"}

(* Mutant: events are put at the head of the list.                         *)
PostFront(q, e) == <<e>> \o q

(* evAsyncEvent::post(): s_evWait.putTail(this).                           *)
Post(q, e) == Append(q, e)

-----------------------------------------------------------------------------
(* Locker::unlock: the lock passes to the first waiter, whose resume()     *)
(* posts it to the loop.                                                   *)
Unlock(d, q) ==
    IF waiters[d] = << >>
      THEN /\ owner' = [owner EXCEPT ![d] = None]
           /\ s_evWait' = q
           /\ UNCHANGED waiters
      ELSE /\ owner' = [owner EXCEPT ![d] = Head(waiters[d])]
           /\ waiters' = [waiters EXCEPT ![d] = Tail(@)]
           /\ s_evWait' = Post(q, Task("start", Head(waiters[d])))

(* cleanup_timer().                                                        *)
CancelTimer(o) == timer' = [timer EXCEPT ![o] = IF @ = "off" THEN "off" ELSE "cancelled"]

(* delete this, after the result hr has been handed over.                  *)
Destroy(o, hr) ==
    /\ result' = [result EXCEPT ![o] = hr]
    /\ at' = [at EXCEPT ![o] = "destroyed"]
    /\ version' = [version EXCEPT ![o] = 0]
    /\ born' = [born EXCEPT ![o] = 0]
    /\ m_timedout' = [m_timedout EXCEPT ![o] = FALSE]

(* Mutant: m_opt still points to the operation that has ended.             *)
CompleteKeepOpt(o, hr, q) ==
    /\ UNCHANGED m_opt
    /\ m_watching' = [m_watching EXCEPT ![o] = FALSE]
    /\ CancelTimer(o)
    /\ Unlock(Dir(o), q)
    /\ Destroy(o, hr)

(* complete(): the only way an operation on the loop thread ends.          *)
Complete(o, hr, q) ==
    /\ m_opt' = [m_opt EXCEPT ![Dir(o)] = None]
    /\ m_watching' = [m_watching EXCEPT ![o] = FALSE]
    /\ CancelTimer(o)
    /\ Unlock(Dir(o), q)
    /\ Destroy(o, hr)

(* complete(SOCKET_ERROR, unlock = false).                                 *)
CompleteKeepLock(o, q) ==
    /\ m_opt' = [m_opt EXCEPT ![Dir(o)] = None]
    /\ m_watching' = [m_watching EXCEPT ![o] = FALSE]
    /\ CancelTimer(o)
    /\ s_evWait' = q
    /\ Destroy(o, "closed")
    /\ UNCHANGED lock

Aborted(o) == kind[o] # "accept" /\ m_abort_version # version[o]

(* What process() may answer: a final result, good or bad, or that it would *)
(* block, which it never would on the closed descriptor.                   *)
Outcomes == {"final"} \cup (IF m_fd = "open" THEN {"pending"} ELSE {})

-----------------------------------------------------------------------------
(* connect, accept, read and write: refused on a closed socket, otherwise   *)
(* the AsyncSockProc is built and its timer starts.                        *)
Call(o) ==
    /\ at[o] = "new"
    /\ IF m_fd = "INVALID_SOCKET"
         THEN Destroy(o, "invalid_call") /\ UNCHANGED timer
         ELSE /\ at' = [at EXCEPT ![o] = "built"]
              /\ version' = [version EXCEPT ![o] = m_abort_version]
              /\ born' = [born EXCEPT ![o] = m_abort_version - aborting]
              /\ timer' = [timer EXCEPT
                     ![o] = IF o \in timed /\ kind[o] # "accept" THEN "armed" ELSE "off"]
              /\ UNCHANGED <<m_timedout, result>>
    /\ UNCHANGED <<plan, m_fd, lock, m_opt, s_evWait, m_watching, calls, closed, onCaller>>

(* request(), first half: take the direction's lock or wait in its queue.  *)
RequestLock(o) ==
    /\ at[o] = "built"
    /\ IF owner[Dir(o)] = None
         THEN /\ owner' = [owner EXCEPT ![Dir(o)] = o]
              /\ at' = [at EXCEPT ![o] = "trying"]
              /\ UNCHANGED waiters
         ELSE /\ waiters' = [waiters EXCEPT ![Dir(o)] = Append(@, o)]
              /\ at' = [at EXCEPT ![o] = "pending"]
              /\ UNCHANGED owner
    /\ UNCHANGED <<plan, m_fd, m_opt, s_evWait, version, m_timedout, born, m_watching, timer,
                   result, calls, closed, onCaller>>

(* request(), second half: process() on the caller's thread, and either     *)
(* the operation ends there or it is posted to the loop.                   *)
RequestTry(o) ==
    /\ at[o] = "trying"
    /\ \E hr \in Outcomes :
          IF hr = "pending"
            THEN /\ at' = [at EXCEPT ![o] = "pending"]
                 /\ s_evWait' = Post(s_evWait, Task("start", o))
                 /\ UNCHANGED <<lock, version, m_timedout, born, timer, result, onCaller>>
            ELSE /\ CancelTimer(o)
                 /\ Unlock(Dir(o), s_evWait)
                 /\ Destroy(o, hr)
                 /\ onCaller' = onCaller \cup {o}
    /\ UNCHANGED <<plan, m_fd, m_opt, m_watching, calls, closed>>

Request(o) == RequestLock(o) \/ RequestTry(o)

(* AsyncIOTimer::resume on the timer thread posts a CancelEvent.           *)
TimerFires(o) ==
    /\ timer[o] = "armed"
    /\ timer' = [timer EXCEPT ![o] = "fired"]
    /\ s_evWait' = Post(s_evWait, Task("cancel", o))
    /\ UNCHANGED <<plan, m_fd, lock, m_opt, object, m_watching, result, calls, closed,
                   onCaller>>

(* abort(), on any thread: first the version, then the event.              *)
AbortVersion ==
    /\ m_abort_version < maxAborts
    /\ m_abort_version' = m_abort_version + 1
    /\ aborting' = aborting + 1
    /\ UNCHANGED <<plan, m_fd, lock, m_opt, s_evWait, object, m_watching, timer, result,
                   closes, closed, onCaller>>

AbortPost ==
    /\ aborting > 0
    /\ aborting' = aborting - 1
    /\ s_evWait' = Post(s_evWait, Task("abort", None))
    /\ UNCHANGED <<plan, m_fd, lock, m_opt, object, m_watching, timer, result,
                   m_abort_version, closes, closed, onCaller>>

close ==
    /\ closes < MaxCloses
    /\ closes' = closes + 1
    /\ s_evWait' = Post(s_evWait, Task("close", None))
    /\ UNCHANGED <<plan, m_fd, lock, m_opt, object, m_watching, timer, result,
                   m_abort_version, aborting, closed, onCaller>>

-----------------------------------------------------------------------------
(* The loop thread: as_cb starts event after event, io_cb runs between two  *)
(* events.  Only this thread writes m_fd, m_opt, m_watching and m_timedout, *)
(* so a step may cover several accesses to them; rest is what the thread    *)
(* has to do after the step.                                               *)

(* AsyncSockProc::start(): an early end, or the operation is watched.      *)
Start(o, rest) ==
    /\ IF m_fd = "INVALID_SOCKET" THEN CompleteKeepLock(o, rest)
       ELSE IF m_timedout[o] THEN Complete(o, "timeout", rest)
       ELSE IF Aborted(o) THEN Complete(o, "abort", rest)
       ELSE /\ m_opt' = [m_opt EXCEPT ![Dir(o)] = o]
            /\ m_watching' = [m_watching EXCEPT ![o] = TRUE]
            /\ s_evWait' = rest
            /\ UNCHANGED <<lock, object, timer, result>>
    /\ UNCHANGED <<m_fd, closed>>

(* on_watched() of a watched operation, up to the test of the version.     *)
OnWatched(o, rest) ==
    /\ IF Aborted(o)
         THEN Complete(o, "abort", rest)
         ELSE /\ s_evWait' = <<Task("after", o)>> \o rest
              /\ m_watching' = [m_watching EXCEPT ![o] = FALSE]
              /\ UNCHANGED <<lock, m_opt, object, timer, result>>
    /\ UNCHANGED <<m_fd, closed>>

(* after_unwatch(): process() again.  connect asks the socket instead of    *)
(* trying again, and always ends.                                          *)
AfterUnwatch(o, rest) ==
    /\ \/ /\ "pending" \in Outcomes /\ kind[o] # "connect"
          /\ s_evWait' = Post(rest, Task("start", o))
          /\ UNCHANGED <<lock, m_opt, m_watching, object, timer, result>>
       \/ Complete(o, "final", rest)
    /\ UNCHANGED <<m_fd, closed>>

(* CancelEvent::start(): the timer may have been cancelled on the way.     *)
CancelEvent(o, rest) ==
    /\ s_evWait' = IF timer[o] = "cancelled" THEN rest ELSE <<Task("timeout", o)>> \o rest
    /\ UNCHANGED <<m_fd, lock, m_opt, object, m_watching, timer, result, closed>>

(* m_timedout = true, for start() to find.                                 *)
MarkTimedout(o, rest) ==
    /\ m_timedout' = [m_timedout EXCEPT ![o] = TRUE]
    /\ s_evWait' = rest
    /\ UNCHANGED <<lock, m_opt, m_watching, at, version, born, timer, result>>

(* Mutant: a timeout ends the current operation, watched or not.           *)
OnTimeoutCurrent(o, rest) ==
    /\ IF m_opt[Dir(o)] = o
         THEN Complete(o, "timeout", rest)
         ELSE MarkTimedout(o, rest)
    /\ UNCHANGED <<m_fd, closed>>

(* on_timeout(): ends an operation that is watched, marks any other.       *)
OnTimeout(o, rest) ==
    /\ IF m_opt[Dir(o)] = o /\ m_watching[o]
         THEN Complete(o, "timeout", rest)
         ELSE MarkTimedout(o, rest)
    /\ UNCHANGED <<m_fd, closed>>

(* The steps t owed to the operations of S in m_RecvOpt and m_SendOpt.     *)
Current(t, S) ==
    LET due(d) == IF m_opt[d] \in S THEN <<Task(t, m_opt[d])>> ELSE << >>
    IN  due("Recv") \o due("Send")

(* asyncClose::start(): closes the descriptor once, then on_watched() of    *)
(* the operations in m_RecvOpt and m_SendOpt, then the answer.             *)
CloseEvent(rest) ==
    /\ m_fd' = "INVALID_SOCKET"
    /\ s_evWait' = (IF m_fd = "open" THEN Current("unwatch", {o \in Ops : m_watching[o]})
                                     ELSE << >>)
                     \o <<Task("closed", None)>> \o rest
    /\ UNCHANGED <<lock, m_opt, object, m_watching, timer, result, closed>>

CloseAnswer(rest) ==
    /\ closed' = closed + 1
    /\ s_evWait' = rest
    /\ UNCHANGED <<m_fd, lock, m_opt, object, m_watching, timer, result>>

(* Mutant: an abort reaches the operation in m_RecvOpt only.               *)
AbortEventRecv(rest) ==
    /\ s_evWait' = (IF m_opt["Recv"] # None THEN <<Task("stop", m_opt["Recv"])>> ELSE << >>) \o rest
    /\ UNCHANGED <<m_fd, lock, m_opt, object, m_watching, timer, result, closed>>

(* asyncAbort::start(): ready(abort) of the operations in m_RecvOpt and     *)
(* m_SendOpt, watched or not.                                              *)
AbortEvent(rest) ==
    /\ s_evWait' = Current("stop", Ops) \o rest
    /\ UNCHANGED <<m_fd, lock, m_opt, object, m_watching, timer, result, closed>>

AbortCurrent(o, rest) ==
    /\ Complete(o, "abort", rest)
    /\ UNCHANGED <<m_fd, closed>>

(* A member function of an operation that has deleted itself is called.    *)
UseDestroyed ==
    /\ undefined' = TRUE
    /\ UNCHANGED <<m_fd, lock, m_opt, s_evWait, object, m_watching, timer, result, closed>>

RunTask(task, rest) ==
    \/ task.t = "start"   /\ Start(task.x, rest)
    \/ task.t = "after"   /\ AfterUnwatch(task.x, rest)
    \/ task.t = "cancel"  /\ CancelEvent(task.x, rest)
    \/ task.t = "timeout" /\ OnTimeout(task.x, rest)
    \/ task.t = "close"   /\ CloseEvent(rest)
    \/ task.t = "unwatch" /\ OnWatched(task.x, rest)
    \/ task.t = "closed"  /\ CloseAnswer(rest)
    \/ task.t = "abort"   /\ AbortEvent(rest)
    \/ task.t = "stop"    /\ AbortCurrent(task.x, rest)

(* as_cb, and the rest of the event it has started.                        *)
as_cb ==
    /\ s_evWait # << >>
    /\ LET task == Head(s_evWait)
       IN  IF task.x # None /\ task.t # "cancel" /\ at[task.x] = "destroyed"
             THEN UseDestroyed
             ELSE RunTask(task, Tail(s_evWait)) /\ UNCHANGED undefined
    /\ UNCHANGED <<plan, calls, onCaller>>

(* The descriptor of a watched operation is ready.                         *)
io_cb(o) ==
    /\ m_watching[o]
    /\ s_evWait # << >> => Head(s_evWait).t \in Events
    /\ OnWatched(o, s_evWait)
    /\ UNCHANGED <<plan, calls, onCaller>>

-----------------------------------------------------------------------------
Init ==
    /\ \E p \in Plans : kind = p.kind /\ timed = p.timed /\ maxAborts = p.aborts
    /\ m_fd = "open" /\ m_abort_version = 0
    /\ owner = [d \in Dirs |-> None] /\ waiters = [d \in Dirs |-> << >>]
    /\ m_opt = [d \in Dirs |-> None]
    /\ s_evWait = << >>
    /\ at = [o \in Ops |-> "new"] /\ version = [o \in Ops |-> 0]
    /\ m_watching = [o \in Ops |-> FALSE] /\ m_timedout = [o \in Ops |-> FALSE]
    /\ timer = [o \in Ops |-> "off"] /\ result = [o \in Ops |-> "none"]
    /\ aborting = 0 /\ closes = 0 /\ closed = 0
    /\ born = [o \in Ops |-> 0] /\ onCaller = {}
    /\ undefined = FALSE

Others ==
    \/ \E o \in Ops : Call(o) \/ Request(o) \/ TimerFires(o) \/ io_cb(o)
    \/ AbortVersion \/ AbortPost \/ close

Next == ~undefined /\ (as_cb \/ (Others /\ UNCHANGED undefined))

Spec == Init /\ [][Next]_vars

(* The loop thread, the timer thread and a caller inside request() or       *)
(* abort() keep running.  Nothing says that a peer ever sends.             *)
Loop == ~undefined /\ as_cb
Threads ==
    /\ ~undefined
    /\ AbortPost \/ \E o \in Ops : Request(o) \/ TimerFires(o)
    /\ UNCHANGED undefined

FairSpec == Spec /\ WF_vars(Loop) /\ WF_vars(Threads)

-----------------------------------------------------------------------------
Tasks ==
    [t : {"start", "cancel", "after", "timeout", "unwatch", "stop"}, x : Ops]
      \cup [t : {"close", "closed", "abort"}, x : {None}]

TypeOK ==
    /\ [kind |-> kind, timed |-> timed, aborts |-> maxAborts] \in Plans
    /\ m_fd \in {"open", "INVALID_SOCKET"}
    /\ m_abort_version \in Nat
    /\ owner \in [Dirs -> Ops \cup {None}] /\ waiters \in [Dirs -> Seq(Ops)]
    /\ m_opt \in [Dirs -> Ops \cup {None}]
    /\ s_evWait \in Seq(Tasks)
    /\ at \in [Ops -> {"new", "built", "trying", "pending", "destroyed"}]
    /\ version \in [Ops -> Nat] /\ born \in [Ops -> Nat]
    /\ m_watching \in [Ops -> BOOLEAN] /\ m_timedout \in [Ops -> BOOLEAN]
    /\ timer \in [Ops -> {"off", "armed", "fired", "cancelled"}]
    /\ result \in [Ops -> {"none", "final", "timeout", "abort", "closed", "invalid_call"}]
    /\ aborting \in Nat /\ undefined \in BOOLEAN
    /\ closes \in 0..MaxCloses /\ closed \in 0..MaxCloses /\ onCaller \subseteq Ops

(* The operation m_RecvOpt or m_SendOpt points to is alive and holds that   *)
(* direction's lock, and only such an operation is watched: the pointers    *)
(* that asyncClose and asyncAbort follow are never stale.                  *)
CurrentHoldsLock ==
    /\ TypeOK
    /\ \A d \in Dirs : m_opt[d] # None =>
          /\ owner[d] = m_opt[d]
          /\ at[m_opt[d]] = "pending"
    /\ \A o \in Ops : m_watching[o] => m_opt[Dir(o)] = o

(* An abort ends only operations that were begun before that abort()        *)
(* returned: one issued after it is left alone, in either direction.       *)
AbortsOnlyEarlier ==
    [][\A o \in Ops : result'[o] = "abort" /\ result[o] = "none"
                        => m_abort_version > born[o]]_vars

Owed(t, o) == \E i \in 1..Len(s_evWait) : s_evWait[i] = Task(t, o)

(* "The only exit, once and only once": an operation that has reported is   *)
(* never run again by the loop.  Two windows are open: an abort() that      *)
(* lands inside on_watched(), and a timeout that expires while request()    *)
(* completes on its own thread; no other path leaves the loop a task of a   *)
(* destroyed operation.                                                    *)
EndsOnce ==
    \A o \in Ops : at[o] = "destroyed" =>
        /\ ~Owed("after", o) /\ ~Owed("unwatch", o) /\ ~Owed("stop", o)
        /\ Owed("start", o) => result[o] = "abort"
        /\ Owed("timeout", o) => o \in onCaller

Kept(d) == owner[d] # None /\ at[owner[d]] = "destroyed"

(* "No new operation will queue in this direction": nobody waits for the    *)
(* lock that start() keeps when the socket is closed (complete's comment).  *)
KeptLockUnwanted == \A d \in Dirs : Kept(d) => waiters[d] = << >>

Done(o) == at[o] = "destroyed" \/ undefined \/ Kept(Dir(o))

(* The operations that o, in line for its direction, waits for to end: those *)
(* in front of it and itself.                                              *)
UpTo(o) ==
    {owner[Dir(o)]} \cup
    {q \in Ops : \E m, n \in 1..Len(waiters[Dir(o)]) :
                    m <= n /\ waiters[Dir(o)][m] = q /\ waiters[Dir(o)][n] = o}

(* A close() ends every operation of the socket, however far it has come    *)
(* (unless it queues for a lock that start() kept).  An operation that is   *)
(* queued or watched and to which nothing happens ends by an abort() after  *)
(* it began, or by its timeout, if that holds of those in front of it, each *)
(* for one of the two reasons: connect, read and write, not accept.        *)
Ends ==
    \A o \in Ops :
        /\ (at[o] # "new" /\ closes > 0) ~> Done(o)
        /\ (/\ at[o] \in {"trying", "pending"}
            /\ \A q \in UpTo(o) : Aborted(q) \/ (q \in timed /\ kind[q] # "accept")) ~> Done(o)

=============================================================================
