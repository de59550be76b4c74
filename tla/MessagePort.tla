----------------------------- MODULE MessagePort -----------------------------
(***************************************************************************)
(* fibjs/src/global/MessagePort.cpp: a pair of ports, either the two ends   *)
(* of a MessageChannel in one isolate, or the implicit channel between a    *)
(* Worker and its thread.                                                  *)
(*                                                                         *)
(* An isolate runs its jobs in order, one step at a time; a job leaves the  *)
(* isolate to the others only while a listener blocks.  The two ends of a   *)
(* worker's channel belong to two isolates, hence to two threads.  Messages *)
(* posted to a port are numbered from 1 in the order they were posted.      *)
(***************************************************************************)
EXTENDS Integers, Sequences

CONSTANT
    MaxPosts      \* bound on the messages posted, both ways together

ASSUME PostsAssumption == MaxPosts \in Nat

VARIABLES
    m_can_deliver_inline,  \* TRUE for the channel of a worker, FALSE for a MessageChannel
    port,        \* the members of each port
    jobs,        \* the jobs posted to each isolate and not begun
    draining,    \* the flush job of the port is inside its loop
    listening,   \* listenerCount("message") > 0, on the Worker for a target
    posting,     \* postMessage(): "checked" after its checks, "null" if it then
                 \* went through a null m_peer, which ends the process
    sent,        \* how many messages were posted to the port
    seen,        \* what the port's listeners were called with, in order
    received,    \* messages taken by receiveMessageOnPort()
    lost         \* messages dropped by close(), or emitted to no listener

vars == <<m_can_deliver_inline, port, jobs, draining, listening, posting, sent, seen, received, lost>>

(* The Worker's own port and parentPort, or port1 and port2.               *)
Ports == {"parent", "child"}
Isolates == {"main", "worker"}
Peer(p) == IF p = "parent" THEN "child" ELSE "parent"

(* holder(): both ends of a MessageChannel belong to one isolate.          *)
Home(p) == IF m_can_deliver_inline /\ p = "child" THEN "worker" ELSE "main"

(* m_raw_message_mode and m_can_deliver_inline are set on both ends of a    *)
(* worker's channel; m_message_target only on the Worker's own port, which  *)
(* scripts reach through the Worker object alone.                          *)
Target(p) == m_can_deliver_inline /\ p = "parent"

Job(kind, p, n) == [kind |-> kind, port |-> p, msg |-> n]
Elements(s) == {s[i] : i \in 1..Len(s)}

(* The thread of an isolate is inside postMessage().                       *)
Busy(i) == \E p \in Ports : Home(p) = i /\ posting[p] # "no"

canDeliverMessages(p) == ~Target(p) \/ listening[p]
contributesKeepAlive(p) == ~Target(p)

(* flush() and the functions that call it work on st, the members of the    *)
(* ports and the isolates' queues, so that each handler is one step.       *)
state == [port |-> port, jobs |-> jobs]
Assign(st) == port' = st.port /\ jobs' = st.jobs

Post(st, p, job) == [st EXCEPT !.jobs[Home(p)] = Append(@, job)]

flush(st, p) ==
    IF /\ st.port[p].m_started /\ ~st.port[p].m_flush_pending
       /\ st.port[p].m_queue # << >> /\ canDeliverMessages(p)
      THEN Post([st EXCEPT !.port[p].m_flush_pending = TRUE], p, Job("flush", p, 0))
      ELSE st

(* Mutant: the queued message always holds the isolate.                    *)
EnqueueAlwaysHolds(st, p, n) ==
    flush([st EXCEPT !.port[p].m_holding = TRUE, !.port[p].m_queue = Append(@, n)], p)

(* Mutant: the message goes in front of the queue.                         *)
EnqueueFront(st, p, n) ==
    flush([st EXCEPT !.port[p].m_holding = @ \/ (st.port[p].m_started /\ canDeliverMessages(p)),
                     !.port[p].m_queue = <<n>> \o @], p)

(* enqueueSerializedMessage(): a port that can deliver holds its isolate;   *)
(* the queue takes the message even when the port is closed.               *)
enqueueSerializedMessage(st, p, n) ==
    flush([st EXCEPT !.port[p].m_holding = @ \/ (st.port[p].m_started /\ canDeliverMessages(p)),
                     !.port[p].m_queue = Append(@, n)], p)

(* Mutant: messages that arrived before start() wait for the next one.     *)
StartNoFlush(st, p) ==
    IF st.port[p].m_closed \/ st.port[p].m_started
      THEN st
      ELSE [st EXCEPT !.port[p].m_started = TRUE,
                      !.port[p].m_keepalive_refed = @ \/ contributesKeepAlive(p)]

start(st, p) ==
    IF st.port[p].m_closed \/ st.port[p].m_started
      THEN st
      ELSE flush([st EXCEPT !.port[p].m_started = TRUE,
                            !.port[p].m_keepalive_refed = @ \/ contributesKeepAlive(p)], p)

-----------------------------------------------------------------------------
Posts == sent["parent"] + sent["child"]

(* postMessage() inside one isolate: a no-op on a closed or severed port,   *)
(* otherwise straight into the peer's queue.                               *)
PostHere(p) ==
    /\ ~Busy(Home(p))
    /\ ~m_can_deliver_inline
    /\ Posts < MaxPosts
    /\ ~port[p].m_closed /\ port[p].m_peer /\ ~port[Peer(p)].m_closed
    /\ sent' = [sent EXCEPT ![Peer(p)] = @ + 1]
    /\ Assign(enqueueSerializedMessage(state, Peer(p), sent[Peer(p)] + 1))
    /\ UNCHANGED <<m_can_deliver_inline, draining, listening, posting, seen, received, lost>>

(* postMessage() between isolates passes its checks ...                    *)
PostCheck(p) ==
    /\ ~Busy(Home(p))
    /\ m_can_deliver_inline
    /\ Posts < MaxPosts
    /\ ~port[p].m_closed /\ port[p].m_peer /\ ~port[Peer(p)].m_closed
    /\ posting' = [posting EXCEPT ![p] = "checked"]
    /\ UNCHANGED <<m_can_deliver_inline, port, jobs, draining, listening, sent, seen, received, lost>>

(* ... then reads m_peer again and posts a job to the peer's isolate.       *)
PostSend(p) ==
    /\ posting[p] = "checked"
    /\ port[p].m_peer
    /\ posting' = [posting EXCEPT ![p] = "no"]
    /\ sent' = [sent EXCEPT ![Peer(p)] = @ + 1]
    /\ Assign(Post(state, Peer(p), Job("enqueue", Peer(p), sent[Peer(p)] + 1)))
    /\ UNCHANGED <<m_can_deliver_inline, draining, listening, seen, received, lost>>

(* m_peer was severed by the other thread after the check.  The plain       *)
(* member may be read once, or again and found null.                       *)
PostSevered(p) ==
    /\ posting[p] = "checked"
    /\ ~port[p].m_peer
    /\ \/ /\ posting' = [posting EXCEPT ![p] = "null"]
          /\ UNCHANGED <<jobs, sent>>
       \/ /\ posting' = [posting EXCEPT ![p] = "no"]
          /\ sent' = [sent EXCEPT ![Peer(p)] = @ + 1]
          /\ jobs' = Post(state, Peer(p), Job("enqueue", Peer(p), sent[Peer(p)] + 1)).jobs
    /\ UNCHANGED <<m_can_deliver_inline, port, draining, listening, seen, received, lost>>

(* on("message"): newListener is emitted, and the port started, before the  *)
(* listener is in the list.                                                *)
On(p) ==
    /\ ~Busy(Home(p))
    /\ Assign(start(state, p))
    /\ listening' = [listening EXCEPT ![p] = TRUE]
    /\ UNCHANGED <<m_can_deliver_inline, draining, posting, sent, seen, received, lost>>

(* The last listener is removed.                                           *)
Off(p) ==
    /\ ~Busy(Home(p))
    /\ listening[p]
    /\ listening' = [listening EXCEPT ![p] = FALSE]
    /\ UNCHANGED <<m_can_deliver_inline, port, jobs, draining, posting, sent, seen, received, lost>>

(* port.start().                                                           *)
Start(p) ==
    /\ ~Busy(Home(p))
    /\ ~Target(p)
    /\ Assign(start(state, p))
    /\ UNCHANGED <<m_can_deliver_inline, draining, listening, posting, sent, seen, received, lost>>

ref(p) ==
    /\ ~Busy(Home(p))
    /\ ~Target(p)
    /\ port' = [port EXCEPT ![p].m_keepalive_refed = TRUE]
    /\ UNCHANGED <<m_can_deliver_inline, jobs, draining, listening, posting, sent, seen, received, lost>>

unref(p) ==
    /\ ~Busy(Home(p))
    /\ ~Target(p)
    /\ port' = [port EXCEPT ![p].m_keepalive_refed = FALSE]
    /\ UNCHANGED <<m_can_deliver_inline, jobs, draining, listening, posting, sent, seen, received, lost>>

(* receiveMessageOnPort(): take the first message; release the isolate with *)
(* the last one.                                                           *)
receiveMessage(p) ==
    /\ ~Busy(Home(p))
    /\ ~Target(p)
    /\ port[p].m_queue # << >>
    /\ port' = [port EXCEPT ![p].m_queue = Tail(@),
                            ![p].m_holding = @ /\ Len(port[p].m_queue) > 1]
    /\ received' = [received EXCEPT ![p] = @ \cup {Head(port[p].m_queue)}]
    /\ UNCHANGED <<m_can_deliver_inline, jobs, draining, listening, posting, sent, seen, lost>>

(* Mutant: close() drops the queue unless a flush is already scheduled.    *)
DropsUnflushed(st, p) == st.port[p].m_queue # << >> /\ ~st.port[p].m_flush_pending

(* close() of a port with messages queued and no way to deliver them.      *)
DropsQueue(st, p) ==
    /\ st.port[p].m_queue # << >> /\ ~st.port[p].m_flush_pending
    /\ ~(st.port[p].m_started /\ canDeliverMessages(p))

(* close(): what is queued and can be delivered is flushed, the rest is     *)
(* dropped; both m_peer are cleared; the close event is posted.            *)
ClosePort(st, p) ==
    LET closed == [st EXCEPT !.port[p].m_closed = TRUE, !.port[p].m_keepalive_refed = FALSE]
        rest   == IF DropsQueue(st, p)
                    THEN [closed EXCEPT !.port[p].m_queue = << >>, !.port[p].m_holding = FALSE]
                    ELSE flush(closed, p)
        severed == [rest EXCEPT !.port[p].m_peer = FALSE, !.port[Peer(p)].m_peer = FALSE]
    IN  IF st.port[p].m_closed THEN st ELSE Post(severed, p, Job("close", p, 0))

Dropped(st, p) ==
    IF ~st.port[p].m_closed /\ DropsQueue(st, p) THEN Elements(st.port[p].m_queue) ELSE {}

close(p) ==
    /\ ~Busy(Home(p))
    /\ ~port[p].m_closed
    /\ Assign(ClosePort(state, p))
    /\ lost' = [lost EXCEPT ![p] = @ \cup Dropped(state, p)]
    /\ UNCHANGED <<m_can_deliver_inline, draining, listening, posting, sent, seen, received>>

-----------------------------------------------------------------------------
(* An isolate begins the first of its jobs.                                *)
Begins(i, kind) == ~Busy(i) /\ jobs[i] # << >> /\ Head(jobs[i]).kind = kind
Begun(i) == [state EXCEPT !.jobs[i] = Tail(@)]

RunEnqueue(i) ==
    /\ Begins(i, "enqueue")
    /\ LET j == Head(jobs[i]) IN Assign(enqueueSerializedMessage(Begun(i), j.port, j.msg))
    /\ UNCHANGED <<m_can_deliver_inline, draining, listening, posting, sent, seen, received, lost>>

(* Emitting a message calls the listeners, if there are any.               *)
Emit(p, n) ==
    /\ seen' = [seen EXCEPT ![p] = IF listening[p] THEN Append(@, n) ELSE @]
    /\ lost' = [lost EXCEPT ![p] = IF listening[p] THEN @ ELSE @ \cup {n}]

(* The flush job of a MessageChannel port empties the queue at once: each   *)
(* MessageEvent is posted as a job of its own.                             *)
RunFlushEvents(i) ==
    /\ Begins(i, "flush")
    /\ ~m_can_deliver_inline
    /\ LET p == Head(jobs[i]).port
           q == port[p].m_queue
       IN  /\ port' = [port EXCEPT ![p].m_queue = << >>, ![p].m_holding = FALSE,
                                   ![p].m_flush_pending = FALSE]
           /\ jobs' = [jobs EXCEPT ![i] = Tail(@) \o [k \in 1..Len(q) |-> Job("message", p, q[k])]]
    /\ UNCHANGED <<m_can_deliver_inline, draining, listening, posting, sent, seen, received, lost>>

RunMessage(i) ==
    /\ Begins(i, "message")
    /\ Assign(Begun(i))
    /\ Emit(Head(jobs[i]).port, Head(jobs[i]).msg)
    /\ UNCHANGED <<m_can_deliver_inline, draining, listening, posting, sent, received>>

(* One turn of the loop in a raw port's flush job.  The listener may block  *)
(* until the next turn; an empty queue ends the job.                       *)
Drain(st, p) ==
    IF st.port[p].m_queue = << >>
      THEN /\ Assign([st EXCEPT !.port[p].m_holding = FALSE, !.port[p].m_flush_pending = FALSE])
           /\ draining' = [draining EXCEPT ![p] = FALSE]
           /\ UNCHANGED <<seen, lost>>
      ELSE /\ Assign([st EXCEPT !.port[p].m_queue = Tail(@)])
           /\ draining' = [draining EXCEPT ![p] = TRUE]
           /\ Emit(p, Head(st.port[p].m_queue))

RunFlush(i) ==
    /\ Begins(i, "flush")
    /\ m_can_deliver_inline
    /\ Drain(Begun(i), Head(jobs[i]).port)
    /\ UNCHANGED <<m_can_deliver_inline, listening, posting, sent, received>>

ListenerReturns(p) ==
    /\ draining[p] /\ ~Busy(Home(p))
    /\ Drain(state, p)
    /\ UNCHANGED <<m_can_deliver_inline, listening, posting, sent, received>>

(* The close event.                                                        *)
RunClose(i) ==
    /\ Begins(i, "close")
    /\ Assign(Begun(i))
    /\ UNCHANGED <<m_can_deliver_inline, draining, listening, posting, sent, seen, received, lost>>

RunJob(i) ==
    RunEnqueue(i) \/ RunFlushEvents(i) \/ RunMessage(i) \/ RunFlush(i) \/ RunClose(i)

-----------------------------------------------------------------------------
Init ==
    /\ m_can_deliver_inline \in BOOLEAN
    /\ port = [p \in Ports |-> [m_peer |-> TRUE, m_closed |-> FALSE, m_started |-> FALSE,
                                m_keepalive_refed |-> FALSE, m_flush_pending |-> FALSE,
                                m_holding |-> FALSE, m_queue |-> << >>]]
    /\ jobs = [i \in Isolates |-> << >>]
    /\ draining = [p \in Ports |-> FALSE]
    /\ listening = [p \in Ports |-> FALSE]
    /\ posting = [p \in Ports |-> "no"]
    /\ sent = [p \in Ports |-> 0]
    /\ seen = [p \in Ports |-> << >>]
    /\ received = [p \in Ports |-> {}]
    /\ lost = [p \in Ports |-> {}]

(* What runs without being asked again.                                    *)
System ==
    \/ \E i \in Isolates : RunJob(i)
    \/ \E p \in Ports : ListenerReturns(p) \/ PostSend(p) \/ PostSevered(p)

Next ==
    \/ \E p \in Ports :
          \/ PostHere(p) \/ PostCheck(p) \/ On(p) \/ Off(p) \/ Start(p)
          \/ ref(p) \/ unref(p) \/ receiveMessage(p) \/ close(p)
    \/ System

Spec == Init /\ [][Next]_vars

(* Isolates run their jobs, and listeners and postMessage() return; without *)
(* new messages that comes to an end.                                      *)
FairSpec == Spec /\ WF_vars(System)

-----------------------------------------------------------------------------
FlushJobs(p) ==
    {k \in 1..Len(jobs[Home(p)]) : jobs[Home(p)][k] = Job("flush", p, 0)}

(* Every variable has its type.                                            *)
TypeOK ==
    /\ m_can_deliver_inline \in BOOLEAN
    /\ port \in [Ports -> [m_peer : BOOLEAN, m_closed : BOOLEAN, m_started : BOOLEAN,
                           m_keepalive_refed : BOOLEAN, m_flush_pending : BOOLEAN,
                           m_holding : BOOLEAN, m_queue : Seq(1..MaxPosts)]]
    /\ jobs \in [Isolates -> Seq([kind : {"enqueue", "flush", "message", "close"},
                                  port : Ports, msg : 0..MaxPosts])]
    /\ draining \in [Ports -> BOOLEAN]
    /\ listening \in [Ports -> BOOLEAN]
    /\ posting \in [Ports -> {"no", "checked", "null"}]
    /\ sent \in [Ports -> 0..MaxPosts]
    /\ seen \in [Ports -> Seq(1..MaxPosts)]
    /\ received \in [Ports -> SUBSET (1..MaxPosts)]
    /\ lost \in [Ports -> SUBSET (1..MaxPosts)]

(* A port holds its isolate for queued messages only while a flush is on    *)
(* its way that will release it: neither a port without listeners, nor one  *)
(* closed with messages queued, pins the isolate for ever.  m_flush_pending *)
(* stands for one job: none is posted while one is inside its loop.        *)
HoldsOnlyToFlush ==
    /\ TypeOK
    /\ \A p \in Ports :
          /\ port[p].m_holding => port[p].m_flush_pending
          /\ port[p].m_flush_pending => draining[p] \/ FlushJobs(p) # {}
          /\ draining[p] => port[p].m_flush_pending /\ FlushJobs(p) = {}

(* The messages on their way to a port: in its queue, in event jobs that    *)
(* left it and in jobs that will enqueue them.                             *)
Carried(p, js) ==
    {js[k].msg : k \in {k \in 1..Len(js) : js[k].port = p /\ js[k].kind \in {"message", "enqueue"}}}
transit == [p \in Ports |-> Elements(port[p].m_queue) \cup Carried(p, jobs[Home(p)])]

Chan == INSTANCE Channel WITH Ends <- Ports

(* A pair of ports implements an ordered channel, however flushes, blocking *)
(* listeners, close() and receiveMessageOnPort() interleave: listeners are  *)
(* called with the oldest message on its way, and a message leaves once, to *)
(* a listener, to receiveMessageOnPort(), or lost by close() or for want of *)
(* a listener (flush(), enqueueSerializedMessage(), close()).              *)
ImplementsChannel == Chan!Spec

(* No message is dropped from a started port that has a listener, in        *)
(* particular not by close(): what was queued is still delivered.          *)
NoLossWithListener ==
    [][\A p \in Ports : lost'[p] # lost[p] => ~(port[p].m_started /\ listening[p])]_vars

(* MessagePort.idl: after close() a postMessage on either side is silently  *)
(* ignored; it never goes through a null peer.                             *)
NoNullPeer == \A p \in Ports : posting[p] # "null"

(* What is queued at a started port is eventually delivered, dropped or     *)
(* received, unless the process ended in postMessage(); the Worker's own    *)
(* port is the subject of TargetDelivered.                                 *)
Delivered ==
    \A p \in Ports :
        (port[p].m_started /\ ~Target(p)) ~> (port[p].m_queue = << >> \/ ~NoNullPeer)

(* Worker.idl: a message the worker posted before the parent listens is     *)
(* delivered once the listener is added.                                   *)
TargetDelivered ==
    \A n \in 1..MaxPosts :
        (listening["parent"] /\ n \in Elements(port["parent"].m_queue)) ~>
            (~listening["parent"] \/ n \notin Elements(port["parent"].m_queue) \/ ~NoNullPeer)

-----------------------------------------------------------------------------
(* What the documentation says and this model does not satisfy; README.md,  *)
(* section 4, has the behaviours.                                          *)

(* MessagePort.idl: a port keeps the process alive only once started and    *)
(* until it is closed.                                                     *)
KeepAliveOnlyOpen ==
    \A p \in Ports : port[p].m_keepalive_refed => port[p].m_started /\ ~port[p].m_closed

=============================================================================
