---------------------------- MODULE WorkerProofs ----------------------------
(***************************************************************************)
(* The events of a Worker come in order and at most once, one thread is     *)
(* inside emitExit(), and an idle worker is reported, for any number of     *)
(* terminate() calls and of messages.                                      *)
(***************************************************************************)
EXTENDS Worker, SequenceTheorems, FiniteSetTheorems, TLAPS

Member ==
    [m_peer : BOOLEAN, m_closed : BOOLEAN, m_started : BOOLEAN, m_keepalive_refed : BOOLEAN,
     m_flush_pending : BOOLEAN, m_holding : BOOLEAN, m_queue : Seq(1..MaxPosts)]

(* The message a job carries is one that was posted; the other jobs carry   *)
(* an exit code or nothing.                                                *)
JobType ==
    {e \in [kind : JobKinds, port : P!Ports, msg : Codes \cup (0..MaxPosts)] :
        IF e.kind = "enqueue" THEN e.msg \in 1..MaxPosts ELSE e.msg \in Codes}

Rec == [port : [P!Ports -> Member], jobs : [P!Isolates -> Seq(JobType)]]

(* The variables but port and jobs; a message that passed the checks of     *)
(* postMessage() is within the bound.                                      *)
Others ==
    /\ draining \in [P!Ports -> BOOLEAN]
    /\ sent \in [P!Ports -> 0..MaxPosts]
    /\ seen \in [P!Ports -> Seq(1..MaxPosts)] /\ lost \in [P!Ports -> SUBSET (1..MaxPosts)]
    /\ m_exited \in BOOLEAN /\ m_terminating \in BOOLEAN /\ m_exitCode \in Codes
    /\ m_terminate_waiters \subseteq Calls
    /\ termPc \in [Calls -> {"idle", "push", "request", "mark", "code", "flag", "close", "stop", "done"}]
    /\ resolved \in [Calls -> Codes \cup {None}]
    /\ isoTerminating \in BOOLEAN /\ isoExitCode \in Codes /\ termed \in BOOLEAN
    /\ script \in {"new", "running", "ending", "done"}
    /\ posting \in {"no", "checked", "null"} /\ (posting = "checked" => sent["parent"] < MaxPosts)
    /\ timer \in BOOLEAN /\ joined \in BOOLEAN
    /\ exiting \in [P!Isolates -> [pc : {"no", "begin", "tested", "marked", "emitted", "leave"},
                                code : Codes]]
    /\ events \in Seq(Kinds \cup {"message"})

Typed == state \in Rec /\ Others

(* _main() is the first job of the worker's isolate, and runs once.        *)
MainFirst(js, s) ==
    /\ s = "new" => js # << >> /\ js[1].kind = "main"
    /\ \A k \in 1..Len(js) : js[k].kind = "main" => k = 1 /\ s = "new"

(* The events emitted, then those on their way, come in order.              *)
InOrder(ev, js) ==
    /\ \A m, n \in 1..Len(ev) :
          m < n /\ ev[m] \in Kinds /\ ev[n] \in Kinds => <<ev[m], ev[n]>> \in Order
    /\ \A m, n \in 1..Len(js) :
          m < n /\ js[m].kind \in Kinds /\ js[n].kind \in Kinds => <<js[m].kind, js[n].kind>> \in Order
    /\ \A m \in 1..Len(ev) : \A n \in 1..Len(js) :
          ev[m] \in Kinds /\ js[n].kind \in Kinds => <<ev[m], js[n].kind>> \in Order

Absent(k, ev, js) ==
    /\ \A m \in 1..Len(ev) : ev[m] # k
    /\ \A n \in 1..Len(js) : js[n].kind # k

(* The events that cannot have been reported yet.                          *)
Due(k, s, x, ex) ==
    \/ k = "online" /\ s = "new"
    \/ k = "error" /\ s \in {"new", "running"}
    \/ k = "exit" /\ (~x \/ \E th \in P!Isolates : ex[th].pc = "marked")

(* The worker's thread is inside emitExit() only in the failure path of     *)
(* _main(), the main thread only when the worker is done: never both.      *)
Exits(s, x, ex) ==
    /\ ex["worker"].pc # "no" => s = "ending"
    /\ ex["main"].pc # "no" => s = "done"
    /\ x => s \in {"ending", "done"}
    /\ \A th \in P!Isolates : /\ ex[th].pc \in {"marked", "emitted", "leave"} => x
                              /\ ex[th].pc = "tested" => ~x

HasIdle(js) == \E k \in 1..Len(js) : js[k].kind = "idle"

(* The events emitted and the jobs of the parent.                          *)
Told(js, ev, s, x, ex) ==
    /\ InOrder(ev, js)
    /\ \A k \in Kinds : Due(k, s, x, ex) => Absent(k, ev, js)
    /\ HasIdle(js) => s = "done"

Good(st, ev, s, x, ex) ==
    /\ MainFirst(st.jobs["worker"], s)
    /\ Told(st.jobs["main"], ev, s, x, ex)
    /\ Exits(s, x, ex)

Reported(st, s, t, x, ex) ==
    Held(st, s, t) \/ x \/ ex["main"].pc # "no" \/ HasIdle(st.jobs["main"])

Inv ==
    /\ Typed
    /\ Good(state, events, script, m_exited, exiting)
    /\ Reported(state, script, timer, m_exited, exiting)

-----------------------------------------------------------------------------
(* The queues.                                                             *)

(* What the ports and terminate() post.                                    *)
Plain == {"stop", "closechild", "cancel", "flush", "close"}

(* r is q, with plain jobs after it.                                       *)
Adds(q, r) ==
    /\ Len(q) <= Len(r)
    /\ \A k \in 1..Len(q) : r[k] = q[k]
    /\ \A k \in 1..Len(r) : k \in 1..Len(q) \/ r[k].kind \in Plain

Grows(st, st2) == st2 \in Rec /\ \A i \in P!Isolates : Adds(st.jobs[i], st2.jobs[i])

(* A queue has a length.                                                   *)
LEMMA Lengths == ASSUME NEW S, NEW q \in Seq(S) PROVE Len(q) \in Nat
BY LenProperties

(* Appending an entry.                                                     *)
LEMMA Appended ==
    ASSUME NEW S, NEW q \in Seq(S), NEW e \in S
    PROVE  /\ Append(q, e) \in Seq(S) /\ Len(q) \in Nat /\ Len(Append(q, e)) = Len(q) + 1
           /\ Append(q, e)[Len(q) + 1] = e /\ Append(q, e) # << >>
           /\ \A k \in 1..Len(q) : Append(q, e)[k] = q[k]
           /\ \A k \in 1..Len(Append(q, e)) : k \in 1..Len(q) \/ k = Len(q) + 1
<1>1. /\ Append(q, e) \in Seq(S) /\ Len(q) \in Nat /\ Len(Append(q, e)) = Len(q) + 1
      /\ Append(q, e)[Len(q) + 1] = e /\ Append(q, e) # << >>
      /\ \A k \in 1..Len(q) : Append(q, e)[k] = q[k]
  BY LenProperties, AppendProperties
<1>2. \A n \in Nat : \A k \in 1..(n + 1) : k \in 1..n \/ k = n + 1
  OBVIOUS
<1> QED
  BY <1>1, <1>2

(* The rest of a queue.                                                    *)
LEMMA Rest ==
    ASSUME NEW S, NEW q \in Seq(S), q # << >>
    PROVE  /\ Head(q) \in S /\ Head(q) = q[1] /\ Tail(q) \in Seq(S)
           /\ Len(q) \in Nat /\ 1 \in 1..Len(q) /\ Len(Tail(q)) = Len(q) - 1
           /\ \A k \in 1..Len(Tail(q)) : k + 1 \in 1..Len(q) /\ Tail(q)[k] = q[k + 1]
<1>1. Len(q) \in Nat /\ Len(q) # 0
  BY LenProperties, EmptySeq
<1>2. /\ Head(q) \in S /\ Tail(q) \in Seq(S) /\ Len(Tail(q)) = Len(q) - 1
      /\ \A k \in 1..Len(Tail(q)) : Tail(q)[k] = q[k + 1]
  BY HeadTailProperties
<1>3. Head(q) = q[1]
  OBVIOUS
<1>4. 1 \in 1..Len(q) /\ \A k \in 1..Len(Tail(q)) : k + 1 \in 1..Len(q)
  BY <1>1, <1>2
<1> QED
  BY <1>1, <1>2, <1>3, <1>4

(* Nothing is added.                                                       *)
LEMMA AddsNone == ASSUME NEW q \in Seq(JobType) PROVE Adds(q, q)
BY Lengths DEF Adds

(* Plain jobs after plain jobs.                                            *)
LEMMA AddsTwice ==
    ASSUME NEW q \in Seq(JobType), NEW r \in Seq(JobType), NEW u \in Seq(JobType),
           Adds(q, r), Adds(r, u)
    PROVE  Adds(q, u)
<1>1. Len(q) \in Nat /\ Len(r) \in Nat /\ Len(u) \in Nat
  BY Lengths
<1>2. \A k \in 1..Len(q) : k \in 1..Len(r)
  BY <1>1 DEF Adds
<1>3. \A k \in 1..Len(q) : u[k] = q[k]
  BY <1>2 DEF Adds
<1>4. ASSUME NEW k \in 1..Len(u) PROVE k \in 1..Len(q) \/ u[k].kind \in Plain
  <2>1. CASE k \in 1..Len(r)
    BY <2>1 DEF Adds
  <2>2. CASE k \notin 1..Len(r)
    BY <2>2 DEF Adds
  <2> QED
    BY <2>1, <2>2
<1>5. Len(q) <= Len(u)
  BY <1>1 DEF Adds
<1> QED
  BY <1>3, <1>4, <1>5 DEF Adds

(* A plain job is posted.                                                  *)
LEMMA AddsOne ==
    ASSUME NEW q \in Seq(JobType), NEW e \in JobType, e.kind \in Plain
    PROVE  Adds(q, Append(q, e))
BY Appended DEF Adds

(* A queue that had jobs still has them, and the first stays first.        *)
LEMMA AddsFirst ==
    ASSUME NEW q \in Seq(JobType), NEW r \in Seq(JobType), Adds(q, r), q # << >>
    PROVE  r # << >> /\ r[1] = q[1]
<1>1. Len(q) \in Nat /\ Len(r) \in Nat /\ 1 \in 1..Len(q)
  BY Lengths, Rest
<1>2. Len(r) # 0
  BY <1>1 DEF Adds
<1> QED
  BY <1>1, <1>2, EmptySeq DEF Adds

(* Growing twice.                                                          *)
LEMMA GrowsTwice ==
    ASSUME NEW st \in Rec, NEW st2, NEW st3, Grows(st, st2), Grows(st2, st3)
    PROVE  Grows(st, st3)
<1>1. \A i \in P!Isolates : /\ st.jobs[i] \in Seq(JobType) /\ st2.jobs[i] \in Seq(JobType)
                            /\ st3.jobs[i] \in Seq(JobType)
  BY DEF Rec, Grows
<1> QED
  BY <1>1, AddsTwice DEF Grows

(* Not growing.                                                            *)
LEMMA GrowsNone == ASSUME NEW st \in Rec PROVE Grows(st, st)
BY AddsNone DEF Rec, Grows

(* A job is posted: the ports are as they were, and so is the other queue.  *)
LEMMA Posted ==
    ASSUME NEW st \in Rec, NEW i \in P!Isolates, NEW e \in JobType
    PROVE  LET st2 == [st EXCEPT !.jobs[i] = Append(@, e)]
           IN  /\ st2 \in Rec /\ st2.port = st.port
               /\ st2.jobs[i] = Append(st.jobs[i], e)
               /\ \A j \in P!Isolates : j # i => st2.jobs[j] = st.jobs[j]
               /\ e.kind \in Plain => Grows(st, st2)
<1> DEFINE st2 == [st EXCEPT !.jobs[i] = Append(@, e)]
<1>1. /\ st2.port = st.port /\ st2.jobs = [st.jobs EXCEPT ![i] = Append(@, e)]
      /\ st.jobs \in [P!Isolates -> Seq(JobType)]
  BY DEF Rec
<1>2. Append(st.jobs[i], e) \in Seq(JobType)
  BY <1>1, Appended
<1>3. st2.jobs \in [P!Isolates -> Seq(JobType)]
  BY <1>1, <1>2
<1>4. st2 \in Rec
  BY <1>1, <1>3 DEF Rec
<1>5. st2.jobs[i] = Append(st.jobs[i], e) /\ \A j \in P!Isolates : j # i => st2.jobs[j] = st.jobs[j]
  BY <1>1
<1>6. ASSUME e.kind \in Plain PROVE Grows(st, st2)
  <2>1. ASSUME NEW j \in P!Isolates PROVE Adds(st.jobs[j], st2.jobs[j])
    BY <1>1, <1>5, <1>6, AddsNone, AddsOne
  <2> QED
    BY <1>4, <2>1 DEF Grows
<1> QED
  BY <1>1, <1>4, <1>5, <1>6

(* The jobs that are posted are jobs.                                      *)
LEMMA Jobs ==
    ASSUME NEW p \in P!Ports, NEW kind \in JobKinds, NEW c \in Codes, kind # "enqueue"
    PROVE  P!Job(kind, p, c) \in JobType /\ P!Job(kind, p, c).kind = kind /\ P!Job(kind, p, c).msg = c
BY DEF P!Job, JobType

(* A message on its way is a job.                                          *)
LEMMA Messages ==
    ASSUME NEW p \in P!Ports, NEW n \in 1..MaxPosts
    PROVE  /\ P!Job("enqueue", p, n) \in JobType /\ P!Job("enqueue", p, n).kind = "enqueue"
           /\ P!Job("enqueue", p, n).msg = n
BY WorkerPostsAssumption DEF P!Job, JobType, JobKinds

(* Posting to the parent.                                                  *)
LEMMA PostedMain ==
    ASSUME NEW st \in Rec, NEW e \in JobType
    PROVE  LET st2 == [st EXCEPT !.jobs["main"] = Append(@, e)]
           IN  /\ st2 \in Rec /\ st2.port = st.port
               /\ st2.jobs["main"] = Append(st.jobs["main"], e) /\ st2.jobs["worker"] = st.jobs["worker"]
<1> DEFINE i == "main"
           st2 == [st EXCEPT !.jobs[i] = Append(@, e)]
<1>1. i \in P!Isolates /\ "worker" \in P!Isolates /\ "worker" # i
  BY DEF P!Isolates
<1> HIDE DEF i
<1>2. /\ st2 \in Rec /\ st2.port = st.port /\ st2.jobs[i] = Append(st.jobs[i], e)
      /\ \A j \in P!Isolates : j # i => st2.jobs[j] = st.jobs[j]
  BY <1>1, Posted
<1> HIDE DEF st2
<1>3. /\ st2 \in Rec /\ st2.port = st.port
      /\ st2.jobs[i] = Append(st.jobs[i], e) /\ st2.jobs["worker"] = st.jobs["worker"]
  BY <1>1, <1>2
<1> QED
  BY <1>3, Zenon DEF st2, i

(* The job Post() posts.                                                   *)
LEMMA PostIs ==
    ASSUME NEW st \in Rec, NEW i \in P!Isolates, NEW kind \in JobKinds, NEW c \in Codes, kind # "enqueue"
    PROVE  /\ Post(st, i, kind, c) \in Rec /\ Post(st, i, kind, c).port = st.port
           /\ Post(st, i, kind, c).jobs[i] = Append(st.jobs[i], P!Job(kind, "parent", c))
           /\ \A j \in P!Isolates : j # i => Post(st, i, kind, c).jobs[j] = st.jobs[j]
           /\ kind \in Plain => Grows(st, Post(st, i, kind, c))
<1>1. "parent" \in P!Ports
  BY DEF P!Ports
<1>2. P!Job(kind, "parent", c) \in JobType /\ P!Job(kind, "parent", c).kind = kind
  BY <1>1, Jobs
<1> QED
  BY <1>2, Posted DEF Post

(* ... to the parent.                                                      *)
LEMMA PostMain ==
    ASSUME NEW st \in Rec, NEW kind \in JobKinds, NEW c \in Codes, kind # "enqueue"
    PROVE  /\ Post(st, "main", kind, c) \in Rec /\ Post(st, "main", kind, c).port = st.port
           /\ Post(st, "main", kind, c).jobs["main"] = Append(st.jobs["main"], P!Job(kind, "parent", c))
           /\ Post(st, "main", kind, c).jobs["worker"] = st.jobs["worker"]
<1>1. "parent" \in P!Ports
  BY DEF P!Ports
<1>2. P!Job(kind, "parent", c) \in JobType
  BY <1>1, Jobs
<1> QED
  BY <1>2, PostedMain DEF Post

-----------------------------------------------------------------------------
(* The ports.                                                              *)

KeepAlive(st) == st.port["child"].m_keepalive_refed
Queue(st) == st.port["parent"].m_queue
Started(st) == st.port["parent"].m_started

(* The messages in the queue of the Worker's port stay there.              *)
Lasts(st, st2) == Queue(st2) = Queue(st) /\ Started(st2) = Started(st)

Same(m, m2) ==
    /\ m2.m_keepalive_refed = m.m_keepalive_refed
    /\ m2.m_queue = m.m_queue /\ m2.m_started = m.m_started

(* The members of one port, the keep-alive apart.                          *)
Alike(st, st2, p) ==
    /\ st2 \in Rec /\ st2.jobs = st.jobs
    /\ \A r \in P!Ports : r # p => st2.port[r] = st.port[r]
    /\ st2.port[p].m_keepalive_refed = st.port[p].m_keepalive_refed

(* A record of ports and jobs is made of its ports and its jobs.           *)
LEMMA Whole ==
    ASSUME NEW st \in Rec
    PROVE  /\ st = [port |-> st.port, jobs |-> st.jobs]
           /\ st.port \in [P!Ports -> Member] /\ st.jobs \in [P!Isolates -> Seq(JobType)]
BY DEF Rec

(* One port changes.                                                       *)
LEMMA PutMember ==
    ASSUME NEW st \in Rec, NEW p \in P!Ports, NEW m \in Member
    PROVE  LET st2 == [port |-> [st.port EXCEPT ![p] = m], jobs |-> st.jobs]
           IN  /\ st2 \in Rec /\ st2.jobs = st.jobs /\ st2.port[p] = m
               /\ \A r \in P!Ports : r # p => st2.port[r] = st.port[r]
BY DEF Rec

(* A flag of a port is set or cleared, or its queue changes.               *)
LEMMA Flags ==
    ASSUME NEW st \in Rec, NEW p \in P!Ports, NEW v \in BOOLEAN, NEW q \in Seq(1..MaxPosts)
    PROVE  /\ Alike(st, [st EXCEPT !.port[p].m_peer = v], p)
           /\ Lasts(st, [st EXCEPT !.port[p].m_peer = v])
           /\ Alike(st, [st EXCEPT !.port[p].m_closed = v], p)
           /\ Lasts(st, [st EXCEPT !.port[p].m_closed = v])
           /\ Alike(st, [st EXCEPT !.port[p].m_flush_pending = v], p)
           /\ Lasts(st, [st EXCEPT !.port[p].m_flush_pending = v])
           /\ Alike(st, [st EXCEPT !.port[p].m_holding = v], p)
           /\ Lasts(st, [st EXCEPT !.port[p].m_holding = v])
           /\ Alike(st, [st EXCEPT !.port[p].m_started = v], p)
           /\ Alike(st, [st EXCEPT !.port[p].m_queue = q], p)
           /\ p = "parent" => /\ Queue([st EXCEPT !.port[p].m_queue = q]) = q
                             /\ Started([st EXCEPT !.port[p].m_queue = q]) = Started(st)
<1> DEFINE x == st.port
           y == st.jobs
           m == x[p]
<1>1. st = [port |-> x, jobs |-> y] /\ m \in Member
  BY Whole
<1>2. /\ [m EXCEPT !.m_peer = v] \in Member /\ [m EXCEPT !.m_closed = v] \in Member
      /\ [m EXCEPT !.m_started = v] \in Member /\ [m EXCEPT !.m_flush_pending = v] \in Member
      /\ [m EXCEPT !.m_holding = v] \in Member /\ [m EXCEPT !.m_queue = q] \in Member
  BY <1>1 DEF Member
<1>3. /\ Same(m, [m EXCEPT !.m_peer = v]) /\ Same(m, [m EXCEPT !.m_closed = v])
      /\ Same(m, [m EXCEPT !.m_flush_pending = v]) /\ Same(m, [m EXCEPT !.m_holding = v])
      /\ [m EXCEPT !.m_started = v].m_keepalive_refed = m.m_keepalive_refed
      /\ [m EXCEPT !.m_queue = q].m_keepalive_refed = m.m_keepalive_refed
      /\ [m EXCEPT !.m_queue = q].m_started = m.m_started /\ [m EXCEPT !.m_queue = q].m_queue = q
  BY <1>1 DEF Member, Same
<1>4. ASSUME NEW m2 \in Member, m2.m_keepalive_refed = m.m_keepalive_refed
      PROVE  LET st2 == [port |-> [x EXCEPT ![p] = m2], jobs |-> y]
             IN  /\ Alike(st, st2, p) /\ st2.port[p] = m2
                 /\ Same(m, m2) => Lasts(st, st2)
  <2> DEFINE st2 == [port |-> [x EXCEPT ![p] = m2], jobs |-> y]
  <2>1. /\ st2 \in Rec /\ st2.jobs = st.jobs /\ st2.port[p] = m2
        /\ \A r \in P!Ports : r # p => st2.port[r] = st.port[r]
    BY PutMember
  <2>2. "parent" \in P!Ports
    BY DEF P!Ports
  <2> HIDE DEF st2
  <2>3. Alike(st, st2, p)
    BY <1>4, <2>1 DEF Alike
  <2>4. ASSUME Same(m, m2) PROVE Lasts(st, st2)
    BY <2>1, <2>2, <2>4 DEF Lasts, Same, Queue, Started
  <2> QED
    BY <2>1, <2>3, <2>4 DEF st2
<1> HIDE DEF x, y
<1>5. Alike(st, [st EXCEPT !.port[p].m_peer = v], p) /\ Lasts(st, [st EXCEPT !.port[p].m_peer = v])
  <2> DEFINE m2 == [x[p] EXCEPT !.m_peer = v]
  <2>1. [[port |-> x, jobs |-> y] EXCEPT !.port[p].m_peer = v]
           = [port |-> [x EXCEPT ![p] = m2], jobs |-> y]
    OBVIOUS
  <2>2. m2 \in Member /\ Same(m, m2)
    BY <1>2, <1>3
  <2> HIDE DEF m2
  <2>3. m2.m_keepalive_refed = m.m_keepalive_refed
    BY <2>2 DEF Same
  <2> HIDE DEF m
  <2>4. LET st2 == [port |-> [x EXCEPT ![p] = m2], jobs |-> y]
        IN  Alike(st, st2, p) /\ Lasts(st, st2)
    BY <1>4, <2>2, <2>3, Zenon
  <2> QED
    BY <1>1, <2>1, <2>4, Zenon
<1>6. Alike(st, [st EXCEPT !.port[p].m_closed = v], p) /\ Lasts(st, [st EXCEPT !.port[p].m_closed = v])
  <2> DEFINE m2 == [x[p] EXCEPT !.m_closed = v]
  <2>1. [[port |-> x, jobs |-> y] EXCEPT !.port[p].m_closed = v]
           = [port |-> [x EXCEPT ![p] = m2], jobs |-> y]
    OBVIOUS
  <2>2. m2 \in Member /\ Same(m, m2)
    BY <1>2, <1>3
  <2> HIDE DEF m2
  <2>3. m2.m_keepalive_refed = m.m_keepalive_refed
    BY <2>2 DEF Same
  <2> HIDE DEF m
  <2>4. LET st2 == [port |-> [x EXCEPT ![p] = m2], jobs |-> y]
        IN  Alike(st, st2, p) /\ Lasts(st, st2)
    BY <1>4, <2>2, <2>3, Zenon
  <2> QED
    BY <1>1, <2>1, <2>4, Zenon
<1>7. Alike(st, [st EXCEPT !.port[p].m_flush_pending = v], p) /\ Lasts(st, [st EXCEPT !.port[p].m_flush_pending = v])
  <2> DEFINE m2 == [x[p] EXCEPT !.m_flush_pending = v]
  <2>1. [[port |-> x, jobs |-> y] EXCEPT !.port[p].m_flush_pending = v]
           = [port |-> [x EXCEPT ![p] = m2], jobs |-> y]
    OBVIOUS
  <2>2. m2 \in Member /\ Same(m, m2)
    BY <1>2, <1>3
  <2> HIDE DEF m2
  <2>3. m2.m_keepalive_refed = m.m_keepalive_refed
    BY <2>2 DEF Same
  <2> HIDE DEF m
  <2>4. LET st2 == [port |-> [x EXCEPT ![p] = m2], jobs |-> y]
        IN  Alike(st, st2, p) /\ Lasts(st, st2)
    BY <1>4, <2>2, <2>3, Zenon
  <2> QED
    BY <1>1, <2>1, <2>4, Zenon
<1>8. Alike(st, [st EXCEPT !.port[p].m_holding = v], p) /\ Lasts(st, [st EXCEPT !.port[p].m_holding = v])
  <2> DEFINE m2 == [x[p] EXCEPT !.m_holding = v]
  <2>1. [[port |-> x, jobs |-> y] EXCEPT !.port[p].m_holding = v]
           = [port |-> [x EXCEPT ![p] = m2], jobs |-> y]
    OBVIOUS
  <2>2. m2 \in Member /\ Same(m, m2)
    BY <1>2, <1>3
  <2> HIDE DEF m2
  <2>3. m2.m_keepalive_refed = m.m_keepalive_refed
    BY <2>2 DEF Same
  <2> HIDE DEF m
  <2>4. LET st2 == [port |-> [x EXCEPT ![p] = m2], jobs |-> y]
        IN  Alike(st, st2, p) /\ Lasts(st, st2)
    BY <1>4, <2>2, <2>3, Zenon
  <2> QED
    BY <1>1, <2>1, <2>4, Zenon
<1>9. Alike(st, [st EXCEPT !.port[p].m_started = v], p)
  <2>1. [[port |-> x, jobs |-> y] EXCEPT !.port[p].m_started = v]
           = [port |-> [x EXCEPT ![p] = [x[p] EXCEPT !.m_started = v]], jobs |-> y]
    OBVIOUS
  <2> QED
    BY <1>1, <1>2, <1>3, <1>4, <2>1, Zenon
<1>10. /\ Alike(st, [st EXCEPT !.port[p].m_queue = q], p)
       /\ [st EXCEPT !.port[p].m_queue = q].port[p] = [m EXCEPT !.m_queue = q]
  <2>1. [[port |-> x, jobs |-> y] EXCEPT !.port[p].m_queue = q]
           = [port |-> [x EXCEPT ![p] = [x[p] EXCEPT !.m_queue = q]], jobs |-> y]
    OBVIOUS
  <2> QED
    BY <1>1, <1>2, <1>3, <1>4, <2>1, Zenon
<1>11. p = "parent" => /\ Queue([st EXCEPT !.port[p].m_queue = q]) = q
                      /\ Started([st EXCEPT !.port[p].m_queue = q]) = Started(st)
  BY <1>3, <1>10, Zenon DEF Queue, Started, x
<1> QED
  BY <1>5, <1>6, <1>7, <1>8, <1>9, <1>10, <1>11

(* The keep-alive itself.                                                  *)
LEMMA KeepAliveSet ==
    ASSUME NEW st \in Rec, NEW p \in P!Ports, NEW v \in BOOLEAN
    PROVE  LET st2 == [st EXCEPT !.port[p].m_keepalive_refed = v]
           IN  /\ st2 \in Rec /\ st2.jobs = st.jobs /\ Lasts(st, st2)
               /\ \A r \in P!Ports : r # p => st2.port[r] = st.port[r]
<1> DEFINE x == st.port
           y == st.jobs
           m == x[p]
           m2 == [m EXCEPT !.m_keepalive_refed = v]
<1>1. st = [port |-> x, jobs |-> y] /\ m \in Member
  BY Whole
<1>2. m2 \in Member /\ m2.m_queue = m.m_queue /\ m2.m_started = m.m_started
  BY <1>1 DEF Member
<1> DEFINE st2 == [port |-> [x EXCEPT ![p] = m2], jobs |-> y]
<1>3. /\ st2 \in Rec /\ st2.jobs = st.jobs /\ st2.port[p] = m2
      /\ \A r \in P!Ports : r # p => st2.port[r] = st.port[r]
  BY <1>2, PutMember
<1>4. Lasts(st, st2)
  <2>1. "parent" \in P!Ports
    BY DEF P!Ports
  <2> HIDE DEF m2, st2
  <2> QED
    BY <1>2, <1>3, <2>1 DEF Lasts, Queue, Started
<1> HIDE DEF x, y
<1>5. [[port |-> x, jobs |-> y] EXCEPT !.port[p].m_keepalive_refed = v] = st2
  OBVIOUS
<1> QED
  BY <1>1, <1>3, <1>4, <1>5

(* Growth does not look at the ports.                                      *)
LEMMA GrowsAlike ==
    ASSUME NEW st \in Rec, NEW st2 \in Rec, st2.jobs = st.jobs
    PROVE  Grows(st, st2)
BY GrowsNone DEF Grows

Keeps(st, st2) == Grows(st, st2) /\ KeepAlive(st2) = KeepAlive(st)

(* Twice.                                                                  *)
LEMMA KeepsTwice ==
    ASSUME NEW st \in Rec, NEW st2, NEW st3, Keeps(st, st2), Keeps(st2, st3)
    PROVE  Keeps(st, st3)
BY GrowsTwice DEF Keeps

(* Not at all.                                                             *)
LEMMA KeepsNone == ASSUME NEW st \in Rec PROVE Keeps(st, st)
BY GrowsNone DEF Keeps

(* Another member of a port changes.                                       *)
LEMMA AlikeKeeps ==
    ASSUME NEW st \in Rec, NEW st2, NEW p \in P!Ports, Alike(st, st2, p)
    PROVE  st2 \in Rec /\ Keeps(st, st2)
<1>1. st2 \in Rec /\ st2.jobs = st.jobs
  BY DEF Alike
<1>2. Grows(st, st2)
  BY <1>1, GrowsAlike
<1>3. "child" \in P!Ports
  BY DEF P!Ports
<1>4. KeepAlive(st2) = KeepAlive(st)
  BY <1>3 DEF Alike, KeepAlive
<1> QED
  BY <1>1, <1>2, <1>4 DEF Keeps

(* A plain job is posted.                                                  *)
LEMMA PortPosts ==
    ASSUME NEW st \in Rec, NEW p \in P!Ports, NEW e \in JobType, e.kind \in Plain
    PROVE  /\ P!Post(st, p, e) \in Rec /\ Keeps(st, P!Post(st, p, e))
           /\ Lasts(st, P!Post(st, p, e))
<1>1. P!Home(p) \in P!Isolates
  BY DEF P!Home, P!Isolates
<1> QED
  BY <1>1, Posted DEF P!Post, Keeps, KeepAlive, Lasts, Queue, Started

(* flush() posts at most one job.                                          *)
LEMMA FlushKeeps ==
    ASSUME NEW st \in Rec, NEW p \in P!Ports
    PROVE  P!flush(st, p) \in Rec /\ Keeps(st, P!flush(st, p)) /\ Lasts(st, P!flush(st, p))
<1> DEFINE st2 == [st EXCEPT !.port[p].m_flush_pending = TRUE]
           e == P!Job("flush", p, 0)
<1>1. st2 \in Rec /\ Keeps(st, st2) /\ Lasts(st, st2)
  BY EmptySeq, Flags, AlikeKeeps
<1>2. e \in JobType /\ e.kind \in Plain
  BY Jobs DEF JobKinds, Codes, Plain
<1> HIDE DEF st2
<1>3. P!Post(st2, p, e) \in Rec /\ Keeps(st2, P!Post(st2, p, e)) /\ Lasts(st2, P!Post(st2, p, e))
  BY <1>1, <1>2, PortPosts
<1>4. Keeps(st, P!Post(st2, p, e)) /\ Lasts(st, P!Post(st2, p, e))
  BY <1>1, <1>3, KeepsTwice DEF Lasts
<1>5. P!flush(st, p) = P!Post(st2, p, e) \/ P!flush(st, p) = st
  BY Zenon DEF P!flush, st2
<1>6. Lasts(st, st)
  BY DEF Lasts
<1> QED
  BY <1>3, <1>4, <1>5, <1>6, KeepsNone

(* Only the queue of a port is written.                                    *)
LEMMA QueueSet ==
    ASSUME NEW st \in Rec, NEW p \in P!Ports, NEW q \in Seq(1..MaxPosts)
    PROVE  LET st2 == [st EXCEPT !.port[p].m_queue = q]
           IN  /\ Alike(st, st2, p)
               /\ p = "parent" => Queue(st2) = q /\ Started(st2) = Started(st)
BY Flags

(* A message enters the queue of the Worker's port.                        *)
LEMMA EnqueueKeeps ==
    ASSUME NEW st \in Rec, NEW p \in P!Ports, NEW n \in 1..MaxPosts
    PROVE  /\ P!enqueueSerializedMessage(st, p, n) \in Rec
           /\ Keeps(st, P!enqueueSerializedMessage(st, p, n))
           /\ p = "parent" => LET st2 == P!enqueueSerializedMessage(st, p, n)
                             IN  Queue(st2) = Append(Queue(st), n) /\ Started(st2) = Started(st)
<1> DEFINE h == st.port[p].m_holding \/ (st.port[p].m_started /\ P!canDeliverMessages(p))
           q == Append(st.port[p].m_queue, n)
           st2 == [st EXCEPT !.port[p].m_holding = h]
           st3 == [st2 EXCEPT !.port[p].m_queue = q]
<1>1. /\ st.port[p].m_holding \in BOOLEAN /\ st.port[p].m_started \in BOOLEAN
      /\ st.port[p].m_queue \in Seq(1..MaxPosts)
  BY DEF Rec, Member
<1>2. P!canDeliverMessages(p) \in BOOLEAN
  BY DEF P!canDeliverMessages, P!Target, P!Ports
<1>3. h \in BOOLEAN
  BY <1>1, <1>2
<1>4. q \in Seq(1..MaxPosts)
  BY <1>1, Appended
<1> HIDE DEF h, q
<1>5. st2 \in Rec /\ Keeps(st, st2) /\ Lasts(st, st2)
  BY <1>3, <1>4, Flags, AlikeKeeps
<1>6. /\ st3 \in Rec /\ Keeps(st2, st3)
      /\ p = "parent" => Queue(st3) = q /\ Started(st3) = Started(st2)
  <2>1. st2 \in Rec
    BY <1>5
  <2> HIDE DEF st2
  <2>2. /\ Alike(st2, st3, p)
        /\ p = "parent" => Queue(st3) = q /\ Started(st3) = Started(st2)
    BY <1>4, <2>1, QueueSet
  <2> QED
    BY <2>1, <2>2, AlikeKeeps DEF Alike
<1>7. P!flush(st3, p) \in Rec /\ Keeps(st3, P!flush(st3, p)) /\ Lasts(st3, P!flush(st3, p))
  BY <1>6, FlushKeeps
<1>8. Keeps(st, P!flush(st3, p))
  BY <1>5, <1>6, <1>7, KeepsTwice
<1>9. P!enqueueSerializedMessage(st, p, n) = P!flush(st3, p)
  <2>1. [st EXCEPT !.port[p].m_holding = h, !.port[p].m_queue = Append(@, n)] = st3
    <3>1. st2.port[p].m_queue = st.port[p].m_queue
      BY <1>1, Whole DEF Rec, Member
    <3>2. [st EXCEPT !.port[p].m_holding = h, !.port[p].m_queue = Append(@, n)]
             = [st2 EXCEPT !.port[p].m_queue = Append(st2.port[p].m_queue, n)]
      BY Zenon
    <3> QED
      BY <3>1, <3>2, Zenon DEF q
  <2> QED
    BY <2>1, Zenon DEF P!enqueueSerializedMessage, h
<1>10. p = "parent" => Queue(st3) = Append(Queue(st), n) /\ Started(st3) = Started(st)
  BY <1>5, <1>6 DEF Lasts, Queue, q
<1> HIDE DEF st3
<1> QED
  BY <1>7, <1>8, <1>9, <1>10 DEF Lasts

(* parentPort starts, and with it holds its isolate.                       *)
LEMMA StartGrows ==
    ASSUME NEW st \in Rec, NEW p \in P!Ports
    PROVE  /\ P!start(st, p) \in Rec /\ Grows(st, P!start(st, p))
           /\ p = "child" => Lasts(st, P!start(st, p))
<1> DEFINE k == st.port[p].m_keepalive_refed \/ P!contributesKeepAlive(p)
           st2 == [st EXCEPT !.port[p].m_started = TRUE]
           st3 == [st2 EXCEPT !.port[p].m_keepalive_refed = k]
<1>1. st.port[p].m_keepalive_refed \in BOOLEAN /\ P!contributesKeepAlive(p) \in BOOLEAN
  BY DEF Rec, Member, P!contributesKeepAlive, P!Target
<1>2. k \in BOOLEAN
  BY <1>1
<1> HIDE DEF k
<1>3. st2 \in Rec /\ Alike(st, st2, p) /\ Keeps(st, st2)
  BY EmptySeq, Flags, AlikeKeeps
<1>4. st3 \in Rec /\ Grows(st2, st3) /\ Lasts(st2, st3)
  <2>1. \A x \in Rec : LET x2 == [x EXCEPT !.port[p].m_keepalive_refed = k]
                       IN  x2 \in Rec /\ x2.jobs = x.jobs /\ Lasts(x, x2)
    BY <1>2, KeepAliveSet
  <2> HIDE DEF st2
  <2>2. st3 \in Rec /\ st3.jobs = st2.jobs /\ Lasts(st2, st3)
    BY <1>3, <2>1
  <2> HIDE DEF st3
  <2> QED
    BY <1>3, <2>2, GrowsAlike
<1>5. /\ P!flush(st3, p) \in Rec /\ Grows(st, P!flush(st3, p))
      /\ p = "child" => Lasts(st, P!flush(st3, p))
  <2>1. P!flush(st3, p) \in Rec /\ Grows(st3, P!flush(st3, p)) /\ Lasts(st3, P!flush(st3, p))
    BY <1>4, FlushKeeps DEF Keeps
  <2>2. p = "child" => Lasts(st, st2)
    BY <1>3 DEF Alike, Lasts, Queue, Started, P!Ports
  <2> HIDE DEF st2, st3
  <2>3. p = "child" => Lasts(st, P!flush(st3, p))
    BY <1>4, <2>1, <2>2 DEF Lasts
  <2> QED
    BY <1>3, <1>4, <2>1, <2>3, GrowsTwice DEF Keeps
<1>6. [st EXCEPT !.port[p].m_started = TRUE, !.port[p].m_keepalive_refed = @ \/ P!contributesKeepAlive(p)] = st3
  <2>1. st2.port[p].m_keepalive_refed = st.port[p].m_keepalive_refed
    BY <1>3 DEF Alike
  <2>2. [st EXCEPT !.port[p].m_started = TRUE, !.port[p].m_keepalive_refed = @ \/ P!contributesKeepAlive(p)]
           = [st2 EXCEPT !.port[p].m_keepalive_refed = st2.port[p].m_keepalive_refed \/ P!contributesKeepAlive(p)]
    BY Zenon
  <2> QED
    BY <2>1, <2>2, Zenon DEF k
<1>7. P!start(st, p) = st \/ P!start(st, p) = P!flush(st3, p)
  BY <1>6, Zenon DEF P!start
<1>8. Lasts(st, st)
  BY DEF Lasts
<1> QED
  BY <1>5, <1>7, <1>8, GrowsNone

(* close() of a port posts plain jobs; the Worker's port has no keep-alive  *)
(* of its own to release.                                                  *)
LEMMA CloseGrows ==
    ASSUME NEW st \in Rec, NEW p \in P!Ports
    PROVE  /\ P!ClosePort(st, p) \in Rec /\ Grows(st, P!ClosePort(st, p))
           /\ p = "parent" => Keeps(st, P!ClosePort(st, p))
           /\ p = "child" \/ Started(st) => Lasts(st, P!ClosePort(st, p))
<1> DEFINE r == P!Peer(p)
           yes == TRUE
           no == FALSE
           none == << >>
           a == [st EXCEPT !.port[p].m_closed = yes]
           closed == [a EXCEPT !.port[p].m_keepalive_refed = no]
           b == [closed EXCEPT !.port[p].m_queue = none]
           dropped == [b EXCEPT !.port[p].m_holding = no]
           rest == IF P!DropsQueue(st, p) THEN dropped ELSE P!flush(closed, p)
           c == [rest EXCEPT !.port[p].m_peer = no]
           severed == [c EXCEPT !.port[r].m_peer = no]
           e == P!Job("close", p, 0)
<1>0. r \in P!Ports /\ yes \in BOOLEAN /\ no \in BOOLEAN /\ none \in Seq(1..MaxPosts)
  BY EmptySeq DEF P!Peer, P!Ports
<1>1. e \in JobType /\ e.kind \in Plain
  BY Jobs DEF JobKinds, Codes, Plain
<1>2. P!ClosePort(st, p) = st \/ P!ClosePort(st, p) = P!Post(severed, p, e)
  BY Zenon DEF P!ClosePort
<1> HIDE DEF r, yes, no, none, e
<1>3. a \in Rec /\ Keeps(st, a) /\ Lasts(st, a)
  BY <1>0, Flags, AlikeKeeps
<1> HIDE DEF a
<1>4. /\ closed \in Rec /\ closed.jobs = a.jobs /\ Lasts(a, closed)
      /\ \A i \in P!Ports : i # p => closed.port[i] = a.port[i]
  BY <1>0, <1>3, KeepAliveSet
<1> HIDE DEF closed
<1>5. Grows(st, closed) /\ (p = "parent" => Keeps(st, closed))
  <2>1. Grows(a, closed)
    BY <1>3, <1>4, GrowsAlike
  <2>2. p = "parent" => KeepAlive(closed) = KeepAlive(a)
    BY <1>4 DEF KeepAlive, P!Ports
  <2> QED
    BY <1>3, <2>1, <2>2, GrowsTwice DEF Keeps
<1>6. b \in Rec /\ Keeps(closed, b) /\ (p = "child" => Lasts(closed, b))
  <2>1. Alike(closed, b, p)
    BY <1>0, <1>4, Flags
  <2> QED
    BY <1>4, <2>1, AlikeKeeps DEF Alike, Lasts, Queue, Started, P!Ports
<1> HIDE DEF b
<1>7. dropped \in Rec /\ Keeps(b, dropped) /\ Lasts(b, dropped)
  BY <1>0, <1>6, Flags, AlikeKeeps
<1> HIDE DEF dropped
<1>8. rest \in Rec /\ Keeps(closed, rest) /\ (p = "child" \/ Started(st) => Lasts(closed, rest))
  <2>1. Started(st) /\ p = "parent" => ~P!DropsQueue(st, p)
    BY DEF Started, P!DropsQueue, P!canDeliverMessages
  <2>2. Lasts(closed, P!flush(closed, p))
    BY <1>4, FlushKeeps
  <2>3. p = "parent" \/ p = "child"
    BY DEF P!Ports
  <2>4. p = "child" \/ Started(st) => Lasts(closed, rest)
    BY <1>6, <1>7, <2>1, <2>2, <2>3 DEF Lasts
  <2> QED
    BY <1>4, <1>6, <1>7, <2>4, FlushKeeps, KeepsTwice
<1> HIDE DEF rest
<1>9. c \in Rec /\ Keeps(rest, c) /\ Lasts(rest, c)
  BY <1>0, <1>8, Flags, AlikeKeeps
<1> HIDE DEF c
<1>10. severed \in Rec /\ Keeps(c, severed) /\ Lasts(c, severed)
  BY <1>0, <1>9, Flags, AlikeKeeps
<1> HIDE DEF severed
<1>11. /\ P!Post(severed, p, e) \in Rec /\ Keeps(severed, P!Post(severed, p, e))
       /\ Lasts(severed, P!Post(severed, p, e))
  BY <1>1, <1>10, PortPosts
<1>12. Keeps(closed, P!Post(severed, p, e))
  BY <1>4, <1>8, <1>9, <1>10, <1>11, KeepsTwice
<1>13. /\ Grows(st, P!Post(severed, p, e))
       /\ p = "parent" => Keeps(st, P!Post(severed, p, e))
  BY <1>5, <1>12, GrowsTwice, KeepsTwice DEF Keeps
<1>14. Lasts(st, st) /\ (p = "child" \/ Started(st) => Lasts(st, P!Post(severed, p, e)))
  BY <1>3, <1>4, <1>8, <1>9, <1>10, <1>11 DEF Lasts
<1> QED
  BY <1>2, <1>11, <1>13, <1>14, GrowsNone, KeepsNone

(* parentPort->close() posts nothing when the isolate is terminating.      *)
LEMMA CloseChildGrows ==
    ASSUME NEW st \in Rec, NEW b \in BOOLEAN
    PROVE  CloseChild(st, b) \in Rec /\ Grows(st, CloseChild(st, b)) /\ Lasts(st, CloseChild(st, b))
<1> DEFINE closed == P!ClosePort(st, "child")
<1>1. closed \in Rec /\ Grows(st, closed) /\ Lasts(st, closed)
  BY CloseGrows DEF P!Ports
<1> HIDE DEF closed
<1>2. LET st2 == [closed EXCEPT !.jobs = st.jobs] IN st2 \in Rec /\ st2.jobs = st.jobs /\ st2.port = closed.port
  BY <1>1 DEF Rec
<1>3. CloseChild(st, b) = IF b THEN [closed EXCEPT !.jobs = st.jobs] ELSE closed
  BY Zenon DEF CloseChild, closed
<1>4. Lasts(st, CloseChild(st, b))
  BY <1>1, <1>2, <1>3 DEF Lasts, Queue, Started
<1> QED
  BY <1>1, <1>2, <1>3, <1>4, GrowsAlike

(* A message leaves the queue for the listeners, or the flush job ends.     *)
LEMMA DrainKeeps ==
    ASSUME NEW st \in Rec, P!Drain(st, "parent"), Others
    PROVE  /\ [port |-> port', jobs |-> jobs'] \in Rec
           /\ Keeps(st, [port |-> port', jobs |-> jobs'])
           /\ draining' \in [P!Ports -> BOOLEAN]
           /\ seen' \in [P!Ports -> Seq(1..MaxPosts)] /\ lost' \in [P!Ports -> SUBSET (1..MaxPosts)]
           /\ LET st2 == [port |-> port', jobs |-> jobs']
              IN  /\ st2.jobs = st.jobs /\ Started(st2) = Started(st)
                  /\ \/ Queue(st2) = Queue(st) /\ seen'["parent"] = seen["parent"]
                     \/ /\ Queue(st) # << >> /\ Queue(st2) = Tail(Queue(st))
                        /\ seen'["parent"] = Append(seen["parent"], Head(Queue(st)))
<1> DEFINE p == "parent"
           q == st.port[p].m_queue
           no == FALSE
           a == [st EXCEPT !.port[p].m_holding = no]
           b == [a EXCEPT !.port[p].m_flush_pending = no]
           c == [st EXCEPT !.port[p].m_queue = Tail(q)]
<1>1. p \in P!Ports /\ no \in BOOLEAN
  BY DEF P!Ports
<1>2. q \in Seq(1..MaxPosts)
  BY <1>1 DEF Rec, Member
<1> HIDE DEF p, q, no
<1>3. /\ draining \in [P!Ports -> BOOLEAN]
      /\ seen \in [P!Ports -> Seq(1..MaxPosts)] /\ lost \in [P!Ports -> SUBSET (1..MaxPosts)]
  BY DEF Others
<1>4. CASE q = << >>
  <2>1. P!Assign(b) /\ draining' = [draining EXCEPT ![p] = FALSE] /\ UNCHANGED <<seen, lost>>
    BY <1>4, Zenon DEF P!Drain, p, q, no
  <2>10. \A x \in Rec : /\ Alike(x, [x EXCEPT !.port[p].m_holding = no], p)
                         /\ Lasts(x, [x EXCEPT !.port[p].m_holding = no])
                         /\ Alike(x, [x EXCEPT !.port[p].m_flush_pending = no], p)
                         /\ Lasts(x, [x EXCEPT !.port[p].m_flush_pending = no])
    BY <1>1, <1>2, Flags
  <2>11. Alike(st, a, p) /\ Lasts(st, a)
    BY <2>10
  <2> HIDE DEF a
  <2>2. a \in Rec /\ Keeps(st, a) /\ Lasts(st, a) /\ a.jobs = st.jobs
    BY <1>1, <2>11, AlikeKeeps DEF Alike
  <2>12. Alike(a, b, p) /\ Lasts(a, b)
    BY <2>2, <2>10
  <2> HIDE DEF b
  <2>3. b \in Rec /\ Keeps(a, b) /\ Lasts(a, b) /\ b.jobs = a.jobs
    BY <1>1, <2>2, <2>12, AlikeKeeps DEF Alike
  <2>4. [port |-> port', jobs |-> jobs'] = b
    BY <2>1, <2>3, Whole DEF P!Assign
  <2>5. Keeps(st, b)
    BY <2>2, <2>3, KeepsTwice
  <2>6. b.jobs = st.jobs /\ Queue(b) = Queue(st) /\ Started(b) = Started(st)
    BY <2>2, <2>3 DEF Lasts
  <2> QED
    BY <1>1, <1>3, <2>1, <2>3, <2>4, <2>5, <2>6
<1>5. CASE q # << >>
  <2> DEFINE n == Head(q)
  <2>1. n \in 1..MaxPosts /\ Tail(q) \in Seq(1..MaxPosts)
    BY <1>2, <1>5, Rest
  <2>2. [st EXCEPT !.port[p].m_queue = Tail(@)] = c
    BY Zenon DEF q
  <2>3. P!Assign(c) /\ draining' = [draining EXCEPT ![p] = TRUE] /\ P!Emit(p, n)
    BY <1>5, <2>2 DEF P!Drain, p, q
  <2> HIDE DEF n
  <2>4. seen' = [seen EXCEPT ![p] = Append(@, n)] /\ lost' = lost
    BY <1>3, <2>3 DEF P!Emit, p
  <2>5. seen' \in [P!Ports -> Seq(1..MaxPosts)]
    <3>1. Append(seen[p], n) \in Seq(1..MaxPosts)
      BY <1>1, <1>3, <2>1, Appended
    <3> QED
      BY <1>1, <1>3, <2>4, <3>1
  <2>9. Alike(st, c, p) /\ (p = "parent" => Queue(c) = Tail(q) /\ Started(c) = Started(st))
    BY <1>1, <2>1, Flags
  <2> HIDE DEF c
  <2>6. c \in Rec /\ Keeps(st, c) /\ c.jobs = st.jobs /\ Queue(c) = Tail(q) /\ Started(c) = Started(st)
    BY <1>1, <2>9, AlikeKeeps DEF Alike, p
  <2>8. seen'["parent"] = Append(seen["parent"], Head(Queue(st))) /\ Queue(st) = q
    BY <1>1, <1>3, <2>4 DEF p, q, n, Queue
  <2>7. [port |-> port', jobs |-> jobs'] = c
    BY <2>3, <2>6, Whole DEF P!Assign
  <2> QED
    BY <1>1, <1>3, <1>5, <2>3, <2>4, <2>5, <2>6, <2>7, <2>8
<1> QED
  BY <1>4, <1>5

-----------------------------------------------------------------------------
(* The events and the jobs of the parent.                                  *)

(* The queue of the parent grows by plain jobs.                            *)
LEMMA MainGrows ==
    ASSUME NEW q \in Seq(JobType), NEW r \in Seq(JobType), Adds(q, r), NEW ev
    PROVE  /\ InOrder(ev, q) => InOrder(ev, r)
           /\ \A k \in Kinds : Absent(k, ev, q) => Absent(k, ev, r)
           /\ HasIdle(q) <=> HasIdle(r)
<1>1. Len(q) \in Nat /\ Len(r) \in Nat /\ \A k \in 1..Len(q) : k \in 1..Len(r) /\ r[k] = q[k]
  BY Lengths DEF Adds
<1>2. \A k \in 1..Len(r) : k \in 1..Len(q) \/ (r[k].kind \notin Kinds /\ r[k].kind # "idle")
  BY DEF Adds, Plain, Kinds
<1>3. \A k \in 1..Len(r) : r[k].kind \in Kinds \/ r[k].kind = "idle" => k \in 1..Len(q) /\ r[k] = q[k]
  BY <1>1, <1>2
<1>4. InOrder(ev, q) => InOrder(ev, r)
  BY <1>1, <1>3 DEF InOrder
<1>5. ASSUME NEW k \in Kinds, Absent(k, ev, q) PROVE Absent(k, ev, r)
  BY <1>1, <1>3, <1>5 DEF Absent
<1>6. HasIdle(q) <=> HasIdle(r)
  BY <1>1, <1>3 DEF HasIdle
<1> QED
  BY <1>4, <1>5, <1>6

(* A job that is no event is posted.                                       *)
LEMMA MainOther ==
    ASSUME NEW q \in Seq(JobType), NEW e \in JobType, e.kind \notin Kinds, NEW ev
    PROVE  /\ InOrder(ev, q) => InOrder(ev, Append(q, e))
           /\ \A k \in Kinds : Absent(k, ev, q) => Absent(k, ev, Append(q, e))
           /\ HasIdle(Append(q, e)) <=> HasIdle(q) \/ e.kind = "idle"
<1> DEFINE r == Append(q, e)
<1>1. /\ Len(q) \in Nat /\ Len(r) = Len(q) + 1 /\ r[Len(q) + 1] = e
      /\ \A k \in 1..Len(q) : r[k] = q[k]
      /\ \A k \in 1..Len(r) : k \in 1..Len(q) \/ k = Len(q) + 1
  BY Appended
<1> HIDE DEF r
<1>2. \A k \in 1..Len(r) : r[k].kind \in Kinds => k \in 1..Len(q) /\ r[k] = q[k]
  BY <1>1
<1>3. InOrder(ev, q) => InOrder(ev, r)
  BY <1>1, <1>2 DEF InOrder
<1>4. ASSUME NEW k \in Kinds, Absent(k, ev, q) PROVE Absent(k, ev, r)
  BY <1>1, <1>2, <1>4 DEF Absent
<1>5. HasIdle(r) => HasIdle(q) \/ e.kind = "idle"
  BY <1>1 DEF HasIdle
<1>6. HasIdle(q) \/ e.kind = "idle" => HasIdle(r)
  <2>1. Len(q) + 1 \in 1..Len(r) /\ \A k \in 1..Len(q) : k \in 1..Len(r)
    BY <1>1
  <2> QED
    BY <1>1, <2>1 DEF HasIdle
<1> QED
  BY <1>3, <1>4, <1>5, <1>6 DEF r

(* An event is posted.                                                     *)
LEMMA MainEvent ==
    ASSUME NEW q \in Seq(JobType), NEW e \in JobType, e.kind \in Kinds, NEW ev, InOrder(ev, q),
           \A k \in Kinds : <<k, e.kind>> \in Order \/ Absent(k, ev, q)
    PROVE  /\ InOrder(ev, Append(q, e))
           /\ \A k \in Kinds : k # e.kind /\ Absent(k, ev, q) => Absent(k, ev, Append(q, e))
           /\ HasIdle(Append(q, e)) => HasIdle(q)
<1> DEFINE r == Append(q, e)
           n == Len(q)
<1>1. /\ n \in Nat /\ Len(r) = n + 1 /\ r[n + 1] = e
      /\ \A k \in 1..n : r[k] = q[k]
      /\ \A k \in 1..Len(r) : k \in 1..n \/ k = n + 1
  BY Appended
<1> HIDE DEF r
<1>2. InOrder(ev, r)
  <2>1. ASSUME NEW l \in 1..Len(r), NEW m \in 1..Len(r), l < m, r[l].kind \in Kinds, r[m].kind \in Kinds
        PROVE  <<r[l].kind, r[m].kind>> \in Order
    <3>1. l \in 1..n /\ r[l] = q[l]
      BY <1>1, <2>1
    <3>2. CASE m \in 1..n
      BY <1>1, <2>1, <3>1, <3>2 DEF InOrder
    <3>3. CASE m = n + 1
      <4>1. ~Absent(q[l].kind, ev, q)
        BY <3>1 DEF Absent
      <4> QED
        BY <1>1, <2>1, <3>1, <3>3, <4>1
    <3> QED
      BY <1>1, <3>2, <3>3
  <2>2. ASSUME NEW l \in 1..Len(ev), NEW m \in 1..Len(r), ev[l] \in Kinds, r[m].kind \in Kinds
        PROVE  <<ev[l], r[m].kind>> \in Order
    <3>1. CASE m \in 1..n
      BY <1>1, <2>2, <3>1 DEF InOrder
    <3>2. CASE m = n + 1
      <4>1. ~Absent(ev[l], ev, q)
        BY DEF Absent
      <4> QED
        BY <1>1, <2>2, <3>2, <4>1
    <3> QED
      BY <1>1, <3>1, <3>2
  <2> QED
    BY <2>1, <2>2 DEF InOrder
<1>3. ASSUME NEW k \in Kinds, k # e.kind, Absent(k, ev, q) PROVE Absent(k, ev, r)
  BY <1>1, <1>3 DEF Absent
<1>4. HasIdle(r) => HasIdle(q)
  BY <1>1 DEF HasIdle, Kinds
<1> QED
  BY <1>2, <1>3, <1>4 DEF r

(* The first job of the parent is begun.                                   *)
LEMMA MainBegun ==
    ASSUME NEW q \in Seq(JobType), q # << >>, NEW ev, InOrder(ev, q)
    PROVE  /\ InOrder(ev, Tail(q))
           /\ \A k \in Kinds : Absent(k, ev, q) => Absent(k, ev, Tail(q))
           /\ HasIdle(Tail(q)) => HasIdle(q)
           /\ HasIdle(q) /\ Head(q).kind # "idle" => HasIdle(Tail(q))
<1> DEFINE r == Tail(q)
<1>1. /\ Len(q) \in Nat /\ Len(r) = Len(q) - 1 /\ Head(q) = q[1]
      /\ \A k \in 1..Len(r) : k + 1 \in 1..Len(q) /\ r[k] = q[k + 1]
  BY Rest
<1> HIDE DEF r
<1>2. \A l, m \in 1..Len(r) : l < m => l + 1 < m + 1
  BY <1>1
<1>3. InOrder(ev, r)
  BY <1>1, <1>2 DEF InOrder
<1>4. ASSUME NEW k \in Kinds, Absent(k, ev, q) PROVE Absent(k, ev, r)
  BY <1>1, <1>4 DEF Absent
<1>5. HasIdle(r) => HasIdle(q)
  BY <1>1 DEF HasIdle
<1>6. ASSUME HasIdle(q), Head(q).kind # "idle" PROVE HasIdle(r)
  <2>1. PICK k \in 1..Len(q) : q[k].kind = "idle"
    BY <1>6 DEF HasIdle
  <2>2. k # 1
    BY <1>1, <1>6, <2>1
  <2>3. k - 1 \in 1..Len(r) /\ (k - 1) + 1 = k
    BY <1>1, <2>2
  <2> QED
    BY <1>1, <2>1, <2>3 DEF HasIdle
<1> QED
  BY <1>3, <1>4, <1>5, <1>6 DEF r

(* The first job of the parent emits its event.                            *)
LEMMA MainEmits ==
    ASSUME NEW q \in Seq(JobType), q # << >>, Head(q).kind \in Kinds,
           NEW ev \in Seq(Kinds \cup {"message"}), InOrder(ev, q)
    PROVE  /\ InOrder(Append(ev, Head(q).kind), Tail(q))
           /\ \A k \in Kinds : Absent(k, ev, q) => Absent(k, Append(ev, Head(q).kind), Tail(q))
<1> DEFINE r == Tail(q)
           x == Head(q).kind
           ev2 == Append(ev, x)
           n == Len(ev)
<1>1. /\ Len(q) \in Nat /\ Len(r) = Len(q) - 1 /\ x = q[1].kind /\ 1 \in 1..Len(q)
      /\ \A k \in 1..Len(r) : k + 1 \in 1..Len(q) /\ 1 < k + 1 /\ r[k] = q[k + 1]
  BY Rest
<1>2. /\ n \in Nat /\ Len(ev2) = n + 1 /\ ev2[n + 1] = x /\ \A k \in 1..n : ev2[k] = ev[k]
      /\ \A k \in 1..Len(ev2) : k \in 1..n \/ k = n + 1
  BY Appended
<1> HIDE DEF r, x, ev2, n
<1>3. InOrder(ev, r)
  BY MainBegun DEF r
<1>4. x \in Kinds
  BY DEF x
<1>5. ASSUME NEW l \in 1..Len(ev2), NEW m \in 1..Len(ev2), l < m, ev2[l] \in Kinds, ev2[m] \in Kinds
      PROVE  <<ev2[l], ev2[m]>> \in Order
  <2>1. l \in 1..n /\ ev2[l] = ev[l]
    BY <1>2, <1>5
  <2>2. CASE m \in 1..n
    BY <1>2, <1>5, <2>1, <2>2 DEF InOrder, n
  <2>3. CASE m = n + 1
    BY <1>1, <1>2, <1>4, <1>5, <2>1, <2>3 DEF InOrder, n
  <2> QED
    BY <1>2, <2>2, <2>3
<1>6. ASSUME NEW l \in 1..Len(ev2), NEW m \in 1..Len(r), ev2[l] \in Kinds, r[m].kind \in Kinds
      PROVE  <<ev2[l], r[m].kind>> \in Order
  <2>1. CASE l \in 1..n
    BY <1>2, <1>3, <1>6, <2>1 DEF InOrder, n
  <2>2. CASE l = n + 1
    BY <1>1, <1>2, <1>4, <1>6, <2>2 DEF InOrder
  <2> QED
    BY <1>2, <2>1, <2>2
<1>7. InOrder(ev2, r)
  BY <1>3, <1>5, <1>6 DEF InOrder
<1>8. ASSUME NEW k \in Kinds, Absent(k, ev, q) PROVE Absent(k, ev2, r)
  BY <1>1, <1>2, <1>8 DEF Absent, n
<1> QED
  BY <1>7, <1>8 DEF r, x, ev2

(* A message is no event of the life cycle.                                *)
LEMMA MessageEmits ==
    ASSUME NEW q, NEW ev \in Seq(Kinds \cup {"message"}), InOrder(ev, q)
    PROVE  /\ Append(ev, "message") \in Seq(Kinds \cup {"message"})
           /\ InOrder(Append(ev, "message"), q)
           /\ \A k \in Kinds : Absent(k, ev, q) => Absent(k, Append(ev, "message"), q)
<1> DEFINE x == "message"
           ev2 == Append(ev, x)
           n == Len(ev)
<1>1. x \in Kinds \cup {"message"} /\ x \notin Kinds
  BY DEF Kinds
<1>2. /\ n \in Nat /\ Len(ev2) = n + 1 /\ ev2[n + 1] = x /\ \A k \in 1..n : ev2[k] = ev[k]
      /\ \A k \in 1..Len(ev2) : k \in 1..n \/ k = n + 1
      /\ ev2 \in Seq(Kinds \cup {"message"})
  BY <1>1, Appended
<1> HIDE DEF x, ev2, n
<1>3. \A k \in 1..Len(ev2) : ev2[k] \in Kinds => k \in 1..n /\ ev2[k] = ev[k]
  BY <1>1, <1>2
<1>4. InOrder(ev2, q)
  BY <1>3 DEF InOrder, n
<1>5. ASSUME NEW k \in Kinds, Absent(k, ev, q) PROVE Absent(k, ev2, q)
  BY <1>3, <1>5 DEF Absent, n
<1> QED
  BY <1>2, <1>4, <1>5 DEF x, ev2

-----------------------------------------------------------------------------
(* What was told to the parent, and what the worker has to run.             *)

(* Plain jobs are posted to the parent.                                    *)
LEMMA ToldGrows ==
    ASSUME NEW q \in Seq(JobType), NEW r \in Seq(JobType), Adds(q, r),
           NEW ev, NEW s, NEW x, NEW ex, Told(q, ev, s, x, ex)
    PROVE  Told(r, ev, s, x, ex)
BY MainGrows DEF Told

(* The worker is idle, and the parent is told.                             *)
LEMMA ToldIdle ==
    ASSUME NEW q \in Seq(JobType), NEW e \in JobType, e.kind = "idle",
           NEW ev, NEW x, NEW ex, Told(q, ev, "done", x, ex)
    PROVE  Told(Append(q, e), ev, "done", x, ex) /\ HasIdle(Append(q, e))
BY MainOther DEF Told, Kinds

(* A message is posted to the parent.                                      *)
LEMMA ToldPost ==
    ASSUME NEW q \in Seq(JobType), NEW e \in JobType, e.kind = "enqueue",
           NEW ev, NEW s, NEW x, NEW ex, Told(q, ev, s, x, ex)
    PROVE  /\ Told(Append(q, e), ev, s, x, ex)
           /\ HasIdle(Append(q, e)) <=> HasIdle(q)
BY MainOther DEF Told, Kinds

(* An event that was due is reported.                                      *)
LEMMA ToldEvent ==
    ASSUME NEW q \in Seq(JobType), NEW e \in JobType, e.kind \in Kinds,
           NEW ev, NEW s, NEW x, NEW ex, Told(q, ev, s, x, ex),
           \A k \in Kinds : <<k, e.kind>> \in Order \/ Due(k, s, x, ex),
           NEW s2, NEW x2, NEW ex2, ~Due(e.kind, s2, x2, ex2),
           \A k \in Kinds : Due(k, s2, x2, ex2) => Due(k, s, x, ex),
           s = "done" => s2 = "done"
    PROVE  Told(Append(q, e), ev, s2, x2, ex2)
<1>1. InOrder(ev, q) /\ \A k \in Kinds : <<k, e.kind>> \in Order \/ Absent(k, ev, q)
  BY DEF Told
<1>2. /\ InOrder(ev, Append(q, e))
      /\ \A k \in Kinds : k # e.kind /\ Absent(k, ev, q) => Absent(k, ev, Append(q, e))
      /\ HasIdle(Append(q, e)) => HasIdle(q)
  BY <1>1, MainEvent
<1> QED
  BY <1>2 DEF Told

(* The first job of the parent is begun.                                   *)
LEMMA ToldBegun ==
    ASSUME NEW q \in Seq(JobType), q # << >>,
           NEW ev, NEW s, NEW x, NEW ex, Told(q, ev, s, x, ex)
    PROVE  Told(Tail(q), ev, s, x, ex)
BY MainBegun DEF Told

(* ... and emits its event.                                                *)
LEMMA ToldEmits ==
    ASSUME NEW q \in Seq(JobType), q # << >>, Head(q).kind \in Kinds,
           NEW ev \in Seq(Kinds \cup {"message"}), NEW s, NEW x, NEW ex, Told(q, ev, s, x, ex)
    PROVE  Told(Tail(q), Append(ev, Head(q).kind), s, x, ex)
<1>1. Told(Tail(q), ev, s, x, ex)
  BY ToldBegun
<1>2. InOrder(ev, q)
  BY DEF Told
<1> QED
  BY <1>1, <1>2, MainEmits DEF Told

(* A message is emitted.                                                   *)
LEMMA ToldMessage ==
    ASSUME NEW q, NEW ev \in Seq(Kinds \cup {"message"}), NEW s, NEW x, NEW ex, Told(q, ev, s, x, ex)
    PROVE  Told(q, Append(ev, "message"), s, x, ex)
BY MessageEmits DEF Told

(* The worker goes on, and nothing becomes due again.                      *)
LEMMA ToldOn ==
    ASSUME NEW q, NEW ev, NEW s, NEW x, NEW ex, Told(q, ev, s, x, ex), NEW s2, NEW x2, NEW ex2,
           \A k \in Kinds : Due(k, s2, x2, ex2) => Due(k, s, x, ex),
           s = "done" => s2 = "done"
    PROVE  Told(q, ev, s2, x2, ex2)
BY DEF Told

(* Plain jobs are posted to the worker.                                    *)
LEMMA WorkerGrows ==
    ASSUME NEW q \in Seq(JobType), NEW r \in Seq(JobType), Adds(q, r), NEW s, MainFirst(q, s)
    PROVE  MainFirst(r, s)
<1>1. s = "new" => r # << >> /\ r[1].kind = "main"
  BY AddsFirst DEF MainFirst
<1>2. ASSUME NEW k \in 1..Len(r), r[k].kind = "main" PROVE k = 1 /\ s = "new"
  <2>1. k \in 1..Len(q) /\ r[k] = q[k]
    BY <1>2 DEF Adds, Plain
  <2> QED
    BY <1>2, <2>1 DEF MainFirst
<1> QED
  BY <1>1, <1>2 DEF MainFirst

(* The worker's first job is begun: _main(), or a later one.               *)
LEMMA WorkerBegun ==
    ASSUME NEW q \in Seq(JobType), q # << >>, NEW s, MainFirst(q, s)
    PROVE  /\ Head(q).kind = "main" => s = "new"
           /\ Head(q).kind # "main" => s # "new"
           /\ \A s2 : s2 # "new" => MainFirst(Tail(q), s2)
<1>1. /\ Head(q) = q[1] /\ 1 \in 1..Len(q) /\ Len(q) \in Nat /\ Len(Tail(q)) = Len(q) - 1
      /\ \A k \in 1..Len(Tail(q)) : k + 1 \in 1..Len(q) /\ Tail(q)[k] = q[k + 1]
  BY Rest
<1>2. (Head(q).kind = "main" => s = "new") /\ (Head(q).kind # "main" => s # "new")
  BY <1>1 DEF MainFirst
<1>3. ASSUME NEW k \in 1..Len(Tail(q)) PROVE Tail(q)[k].kind # "main"
  <2>1. k + 1 # 1
    BY <1>1
  <2> QED
    BY <1>1, <2>1 DEF MainFirst
<1> QED
  BY <1>2, <1>3 DEF MainFirst

(* Once begun, the script does not begin again.                            *)
LEMMA WorkerOn ==
    ASSUME NEW q, NEW s, MainFirst(q, s), s # "new", NEW s2, s2 # "new"
    PROVE  MainFirst(q, s2)
BY DEF MainFirst

(* A record grows.                                                         *)
LEMMA GoodGrows ==
    ASSUME NEW st \in Rec, NEW st2, Grows(st, st2),
           NEW ev, NEW s, NEW x, NEW ex, Good(st, ev, s, x, ex)
    PROVE  Good(st2, ev, s, x, ex)
<1>1. /\ st.jobs["main"] \in Seq(JobType) /\ st2.jobs["main"] \in Seq(JobType)
      /\ st.jobs["worker"] \in Seq(JobType) /\ st2.jobs["worker"] \in Seq(JobType)
      /\ Adds(st.jobs["main"], st2.jobs["main"]) /\ Adds(st.jobs["worker"], st2.jobs["worker"])
  BY DEF Rec, Grows, P!Isolates
<1> QED
  BY <1>1, ToldGrows, WorkerGrows DEF Good

(* ... and the worker is still held, or still reported.                     *)
LEMMA ReportedKeeps ==
    ASSUME NEW st \in Rec, NEW st2, Keeps(st, st2),
           NEW s, NEW t, NEW x, NEW ex, Reported(st, s, t, x, ex)
    PROVE  Reported(st2, s, t, x, ex)
<1>1. /\ st.jobs["main"] \in Seq(JobType) /\ st2.jobs["main"] \in Seq(JobType)
      /\ st.jobs["worker"] \in Seq(JobType) /\ st2.jobs["worker"] \in Seq(JobType)
      /\ Adds(st.jobs["main"], st2.jobs["main"]) /\ Adds(st.jobs["worker"], st2.jobs["worker"])
      /\ KeepAlive(st2) = KeepAlive(st)
  BY DEF Rec, Keeps, Grows, P!Isolates
<1>2. HasIdle(st.jobs["main"]) => HasIdle(st2.jobs["main"])
  BY <1>1, MainGrows
<1>3. st.jobs["worker"] # << >> => st2.jobs["worker"] # << >>
  BY <1>1, AddsFirst
<1> QED
  BY <1>1, <1>2, <1>3 DEF Reported, Held, KeepAlive

(* The first job of an isolate is taken from its queue ...                  *)
LEMMA Taken ==
    ASSUME NEW st \in Rec, NEW i \in P!Isolates, st.jobs[i] # << >>
    PROVE  LET b == [st EXCEPT !.jobs[i] = Tail(@)]
           IN  /\ b \in Rec /\ b.port = st.port /\ b.jobs[i] = Tail(st.jobs[i])
               /\ \A j \in P!Isolates : j # i => b.jobs[j] = st.jobs[j]
<1> DEFINE b == [st EXCEPT !.jobs[i] = Tail(@)]
<1>1. /\ b.port = st.port /\ b.jobs = [st.jobs EXCEPT ![i] = Tail(@)]
      /\ st.jobs \in [P!Isolates -> Seq(JobType)]
  BY DEF Rec
<1>2. Tail(st.jobs[i]) \in Seq(JobType)
  BY <1>1, Rest
<1>3. b.jobs \in [P!Isolates -> Seq(JobType)]
  BY <1>1, <1>2
<1>4. b \in Rec
  BY <1>1, <1>3 DEF Rec
<1> QED
  BY <1>1, <1>4

(* ... and begun.                                                          *)
LEMMA BegunIs ==
    ASSUME state \in Rec, NEW i \in P!Isolates, jobs[i] # << >>
    PROVE  /\ Begun(i) \in Rec /\ Begun(i).port = port /\ Begun(i).jobs[i] = Tail(jobs[i])
           /\ \A j \in P!Isolates : j # i => Begun(i).jobs[j] = jobs[j]
           /\ jobs[i] \in Seq(JobType) /\ Head(jobs[i]) \in JobType
<1>1. state.port = port /\ state.jobs = jobs
  BY DEF state
<1>2. jobs[i] \in Seq(JobType)
  BY <1>1 DEF Rec
<1>3. Head(jobs[i]) \in JobType
  BY <1>2, Rest
<1> QED
  BY <1>1, <1>2, <1>3, Taken DEF Begun

(* A record is assigned.                                                   *)
LEMMA Assigned == ASSUME NEW st \in Rec, P!Assign(st) PROVE state' = st
BY Whole DEF P!Assign, state

(* The new state satisfies the invariant.                                  *)
LEMMA Holds ==
    ASSUME Others', state' \in Rec, Good(state', events', script', m_exited', exiting'),
           Reported(state', script', timer', m_exited', exiting')
    PROVE  Inv'
BY DEF Inv, Typed

(* When nothing holds the worker's isolate any more, onIsolateIdle is on    *)
(* its way.                                                                *)
LEMMA Settled ==
    ASSUME Held(state, script, timer),
           NEW st \in Rec, NEW s \in {"new", "running", "ending", "done"}, NEW t \in BOOLEAN, NEW c \in Codes,
           Settle(st, s, t, c), NEW ev, NEW x, NEW ex, Good(st, ev, s, x, ex)
    PROVE  /\ state' \in Rec /\ script' = s /\ timer' = t /\ isoExitCode' = c
           /\ Good(state', ev, s, x, ex) /\ Reported(state', s, t, x, ex)
<1>1. script' = s /\ timer' = t /\ isoExitCode' = c
  BY DEF Settle
<1>2. CASE Held(st, s, t)
  <2>1. P!Assign(st)
    BY <1>2 DEF Settle
  <2>2. state' = st
    BY <2>1, Assigned
  <2> QED
    BY <1>1, <1>2, <2>2 DEF Reported
<1>3. CASE ~Held(st, s, t)
  <2> DEFINE st2 == Post(st, "main", "idle", c)
             e == P!Job("idle", "parent", c)
  <2>1. P!Assign(st2)
    BY <1>3 DEF Settle
  <2>2. /\ st2 \in Rec /\ st2.jobs["main"] = Append(st.jobs["main"], e)
        /\ st2.jobs["worker"] = st.jobs["worker"]
    BY PostIs DEF P!Isolates, JobKinds
  <2>3. e \in JobType /\ e.kind = "idle"
    BY Jobs DEF P!Ports, JobKinds
  <2> HIDE DEF st2, e
  <2>4. state' = st2
    BY <2>1, <2>2, Assigned
  <2>5. s = "done"
    BY <1>3 DEF Held, Good, MainFirst
  <2>6. st.jobs["main"] \in Seq(JobType)
    BY DEF Rec, P!Isolates
  <2>7. Told(st2.jobs["main"], ev, s, x, ex) /\ HasIdle(st2.jobs["main"])
    BY <2>2, <2>3, <2>5, <2>6, ToldIdle DEF Good
  <2>8. Good(st2, ev, s, x, ex)
    BY <2>2, <2>7 DEF Good
  <2> QED
    BY <1>1, <2>2, <2>4, <2>7, <2>8 DEF Reported
<1> QED
  BY <1>2, <1>3

-----------------------------------------------------------------------------
(* How a step preserves the invariant.                                      *)

(* The invariant, of the members of the state.                             *)
LEMMA Parts ==
    ASSUME Inv
    PROVE  /\ Others /\ state \in Rec /\ state.port = port /\ state.jobs = jobs
           /\ jobs["main"] \in Seq(JobType) /\ jobs["worker"] \in Seq(JobType)
           /\ Good(state, events, script, m_exited, exiting)
           /\ MainFirst(jobs["worker"], script)
           /\ Told(jobs["main"], events, script, m_exited, exiting)
           /\ Exits(script, m_exited, exiting)
           /\ Reported(state, script, timer, m_exited, exiting)
<1>1. Others /\ state \in Rec /\ state.port = port /\ state.jobs = jobs
  BY DEF Inv, Typed, state
<1>2. /\ Good(state, events, script, m_exited, exiting)
      /\ Reported(state, script, timer, m_exited, exiting)
  BY DEF Inv
<1>3. jobs["main"] \in Seq(JobType) /\ jobs["worker"] \in Seq(JobType)
  BY <1>1 DEF Rec, P!Isolates
<1> QED
  BY <1>1, <1>2, <1>3 DEF Good

(* A step of the worker's isolate, which was held until then.               *)
LEMMA SettleStep ==
    ASSUME Held(state, script, timer), Others',
           NEW st \in Rec, NEW s \in {"new", "running", "ending", "done"}, NEW t \in BOOLEAN, NEW c \in Codes,
           Settle(st, s, t, c), Good(st, events', s, m_exited', exiting')
    PROVE  Inv'
<1> DEFINE ev == events'
           x == m_exited'
           ex == exiting'
<1>1. Good(st, ev, s, x, ex)
  OBVIOUS
<1> HIDE DEF ev, x, ex
<1>2. /\ state' \in Rec /\ script' = s /\ timer' = t
      /\ Good(state', ev, s, x, ex) /\ Reported(state', s, t, x, ex)
  BY <1>1, Settled
<1> QED
  BY <1>2, Holds DEF ev, x, ex

(* Another step.                                                           *)
LEMMA AssignStep ==
    ASSUME Others', NEW st \in Rec, P!Assign(st), Good(st, events', script', m_exited', exiting'),
           Reported(st, script', timer', m_exited', exiting')
    PROVE  Inv'
<1>1. state' = st
  BY Assigned
<1> QED
  BY <1>1, Holds

(* A step of which the worker and its events know nothing.                  *)
LEMMA KeepStep ==
    ASSUME Inv, Others', NEW st \in Rec, P!Assign(st), Keeps(state, st),
           UNCHANGED <<events, script, timer, m_exited, exiting>>
    PROVE  Inv'
<1>1. Good(st, events, script, m_exited, exiting)
  BY Parts, GoodGrows DEF Keeps
<1>2. Reported(st, script, timer, m_exited, exiting)
  BY Parts, ReportedKeeps
<1> QED
  BY <1>1, <1>2, AssignStep

(* A step that leaves the ports and the jobs alone.                        *)
LEMMA StillStep ==
    ASSUME Inv, Others', UNCHANGED <<port, jobs>>, Good(state, events', script', m_exited', exiting'),
           Reported(state, script', timer', m_exited', exiting')
    PROVE  Inv'
<1>1. state' = state
  BY DEF state
<1> QED
  BY <1>1, Parts, Holds

(* Messages are dropped by close().                                        *)
LEMMA LostFits ==
    ASSUME Inv, NEW ports, Closed(ports)
    PROVE  lost' \in [P!Ports -> SUBSET (1..MaxPosts)]
<1>1. ASSUME NEW p \in P!Ports PROVE P!Dropped(state, p) \subseteq 1..MaxPosts
  <2>1. state.port[p].m_queue \in Seq(1..MaxPosts)
    BY Parts DEF Rec, Member
  <2>2. P!Elements(state.port[p].m_queue) \subseteq 1..MaxPosts
    BY <2>1, ElementOfSeq DEF P!Elements
  <2> QED
    BY <2>2 DEF P!Dropped
<1>2. lost \in [P!Ports -> SUBSET (1..MaxPosts)]
  BY Parts DEF Others
<1> QED
  BY <1>1, <1>2 DEF Closed

-----------------------------------------------------------------------------
(* The worker's jobs.                                                      *)

(* A job other than _main() is begun.                                      *)
LEMMA LaterJob ==
    ASSUME Inv, NEW kind, kind # "main", Begins("worker", kind)
    PROVE  /\ Begun("worker") \in Rec /\ Held(state, script, timer)
           /\ Good(Begun("worker"), events, script, m_exited, exiting)
<1> DEFINE b == Begun("worker")
<1>1. jobs["worker"] # << >> /\ Head(jobs["worker"]).kind # "main"
  BY DEF Begins
<1>2. b \in Rec /\ b.jobs["worker"] = Tail(jobs["worker"]) /\ b.jobs["main"] = jobs["main"]
  BY <1>1, Parts, BegunIs DEF P!Isolates
<1> HIDE DEF b
<1>3. MainFirst(b.jobs["worker"], script)
  BY <1>1, <1>2, Parts, WorkerBegun
<1>4. Held(state, script, timer)
  BY <1>1 DEF Held, state
<1> QED
  BY <1>2, <1>3, <1>4, Parts DEF Good, b

(* ... and may post more.                                                  *)
LEMMA LaterStep ==
    ASSUME Inv, Others', NEW kind, kind # "main", Begins("worker", kind),
           NEW st \in Rec, Grows(Begun("worker"), st), NEW t \in BOOLEAN,
           Settle(st, script, t, isoExitCode), UNCHANGED <<events, m_exited, exiting>>
    PROVE  Inv'
<1>1. /\ Begun("worker") \in Rec /\ Held(state, script, timer)
      /\ Good(Begun("worker"), events, script, m_exited, exiting)
  BY LaterJob
<1>2. Good(st, events, script, m_exited, exiting)
  BY <1>1, GoodGrows
<1>3. script \in {"new", "running", "ending", "done"} /\ isoExitCode \in Codes
  BY Parts DEF Others
<1> QED
  BY <1>1, <1>2, <1>3, SettleStep

(* RunStop.                                                                *)
LEMMA RunStopInv == ASSUME Inv, RunStop PROVE Inv'
<1>1. Others /\ lost' \in [P!Ports -> SUBSET (1..MaxPosts)]
  BY Parts, LostFits DEF RunStop
<1>2. Others'
  BY <1>1 DEF RunStop, Settle, Others, object, callers
<1>3. Begins("worker", "stop") /\ isoTerminating \in BOOLEAN
  BY <1>1 DEF RunStop, Others
<1>4. Begun("worker") \in Rec
  BY <1>3, LaterJob
<1>5. /\ CloseChild(Begun("worker"), isoTerminating) \in Rec
      /\ Grows(Begun("worker"), CloseChild(Begun("worker"), isoTerminating))
  BY <1>3, <1>4, CloseChildGrows
<1> QED
  BY <1>2, <1>3, <1>5, LaterStep DEF RunStop, object

(* RunCloseChild.                                                          *)
LEMMA RunCloseChildInv == ASSUME Inv, RunCloseChild PROVE Inv'
<1>1. Others /\ lost' \in [P!Ports -> SUBSET (1..MaxPosts)]
  BY Parts, LostFits DEF RunCloseChild
<1>2. Others'
  BY <1>1 DEF RunCloseChild, Settle, Others, object, callers
<1>3. Begins("worker", "closechild") /\ isoTerminating \in BOOLEAN /\ timer \in BOOLEAN
  BY <1>1 DEF RunCloseChild, Others
<1>4. Begun("worker") \in Rec
  BY <1>3, LaterJob
<1>5. /\ CloseChild(Begun("worker"), isoTerminating) \in Rec
      /\ Grows(Begun("worker"), CloseChild(Begun("worker"), isoTerminating))
  BY <1>3, <1>4, CloseChildGrows
<1> QED
  BY <1>2, <1>3, <1>5, LaterStep DEF RunCloseChild, object

(* RunOther.                                                               *)
LEMMA RunOtherInv == ASSUME Inv, RunOther PROVE Inv'
<1>1. Others
  BY Parts
<1>2. Others'
  BY <1>1 DEF RunOther, Settle, Others, object, callers
<1>3. PICK kind \in {"cancel", "close"} : Begins("worker", kind)
  BY DEF RunOther
<1>4. timer \in BOOLEAN /\ kind # "main"
  BY <1>1 DEF Others
<1>5. Begun("worker") \in Rec /\ Grows(Begun("worker"), Begun("worker"))
  BY <1>3, <1>4, LaterJob, GrowsNone
<1> QED
  BY <1>2, <1>3, <1>4, <1>5, LaterStep DEF RunOther, object

(* RunMain.                                                                *)
LEMMA RunMainInv == ASSUME Inv, RunMain PROVE Inv'
<1> DEFINE b == Begun("worker")
           e == P!Job("online", "parent", 0)
           q == jobs["main"]
<1>1. Others /\ Exits(script, m_exited, exiting) /\ Told(q, events, script, m_exited, exiting) /\ q \in Seq(JobType)
  BY Parts
<1>2. /\ jobs["worker"] # << >> /\ Head(jobs["worker"]).kind = "main" /\ exiting["worker"].pc = "no"
  BY DEF RunMain, Begins, WorkerFree
<1>3. b \in Rec /\ b.jobs["worker"] = Tail(jobs["worker"]) /\ b.jobs["main"] = q
  BY <1>2, Parts, BegunIs DEF P!Isolates
<1>4. script = "new" /\ \A s2 : s2 # "new" => MainFirst(b.jobs["worker"], s2)
  BY <1>2, <1>3, Parts, WorkerBegun
<1>5. Held(state, script, timer)
  BY <1>2 DEF Held, state
<1>6. ~m_exited /\ exiting["main"].pc = "no"
  BY <1>1, <1>4 DEF Exits
<1>7. timer \in BOOLEAN /\ isoExitCode \in Codes
  BY <1>1 DEF Others
<1> HIDE DEF b
<1>8. CASE isoTerminating
  <2>1. /\ Settle(b, "ending", timer, isoExitCode) /\ exiting' = [exiting EXCEPT !["worker"] = [pc |-> "begin", code |-> 1]]
        /\ UNCHANGED <<events, m_exited>>
    BY <1>8 DEF RunMain, Enter, object, b
  <2>2. Others'
    BY <1>1, <1>8 DEF RunMain, Settle, Enter, Others, object, callers, P!Isolates, Codes
  <2>3. exiting'["worker"].pc = "begin" /\ exiting'["main"].pc = "no"
    BY <1>1, <1>6, <2>1 DEF Others, P!Isolates
  <2>4. Exits("ending", m_exited', exiting')
    BY <1>6, <2>1, <2>3 DEF Exits, P!Isolates
  <2>5. Told(q, events, "ending", m_exited', exiting')
    <3>1. \A k \in Kinds : Due(k, "ending", m_exited', exiting') => Due(k, script, m_exited, exiting)
      BY <1>6 DEF Due
    <3> QED
      BY <1>1, <1>4, <3>1, ToldOn
  <2>6. Good(b, events', "ending", m_exited', exiting')
    BY <1>3, <1>4, <2>1, <2>4, <2>5 DEF Good
  <2> QED
    BY <1>3, <1>5, <1>7, <2>1, <2>2, <2>6, SettleStep
<1>9. CASE ~isoTerminating
  <2> DEFINE st == Post(b, "main", "online", 0)
  <2>1. Settle(st, "running", timer, isoExitCode) /\ UNCHANGED <<events, m_exited, exiting>>
    BY <1>9 DEF RunMain, object, b
  <2>2. Others'
    BY <1>1, <1>9 DEF RunMain, Settle, Others, object, callers
  <2>3. "online" \in JobKinds /\ "online" # "enqueue" /\ 0 \in Codes
    BY DEF JobKinds, Kinds, Codes
  <2>4. /\ st \in Rec /\ st.jobs["main"] = Append(b.jobs["main"], e)
        /\ st.jobs["worker"] = b.jobs["worker"]
    BY <1>3, <2>3, PostMain, Zenon
  <2>5. /\ st \in Rec /\ st.jobs["main"] = Append(q, e) /\ st.jobs["worker"] = b.jobs["worker"]
    BY <1>3, <2>4
  <2>6. e \in JobType /\ e.kind = "online"
    BY Jobs DEF P!Ports, JobKinds, Kinds, Codes
  <2> HIDE DEF st, e
  <2>7. Exits("running", m_exited, exiting)
    BY <1>1, <1>2, <1>6 DEF Exits
  <2>8. Told(Append(q, e), events, "running", m_exited, exiting)
    <3>1. \A k \in Kinds : <<k, e.kind>> \in Order \/ Due(k, script, m_exited, exiting)
      BY <1>4, <1>6 DEF Due, Kinds
    <3>2. /\ ~Due(e.kind, "running", m_exited, exiting) /\ e.kind \in Kinds
          /\ \A k \in Kinds : Due(k, "running", m_exited, exiting) => Due(k, script, m_exited, exiting)
      BY <1>4, <2>6 DEF Due, Kinds
    <3> QED
      BY <1>1, <1>4, <2>6, <3>1, <3>2, ToldEvent
  <2>9. Good(st, events', "running", m_exited', exiting')
    BY <1>4, <2>1, <2>5, <2>7, <2>8 DEF Good
  <2> QED
    BY <1>5, <1>7, <2>1, <2>2, <2>5, <2>9, SettleStep
<1> QED
  BY <1>8, <1>9

-----------------------------------------------------------------------------
(* The script and the timer.                                               *)

(* Active JavaScript holds the isolate.                                    *)
LEMMA ActiveHeld == ASSUME Active PROVE Held(state, script, timer)
BY DEF Active, Held

(* PostCheck.                                                              *)
LEMMA PostCheckInv == ASSUME Inv, PostCheck PROVE Inv'
<1>1. Others /\ Good(state, events, script, m_exited, exiting) /\ Reported(state, script, timer, m_exited, exiting)
  BY Parts
<1>2. Others'
  BY <1>1 DEF PostCheck, Others, channel, object, callers
<1>3. UNCHANGED <<port, jobs, events, script, timer, m_exited, exiting>>
  BY DEF PostCheck, channel, object
<1> QED
  BY <1>1, <1>2, <1>3, StillStep

(* A message is posted.                                                    *)
LEMMA SendInv ==
    ASSUME Inv, PostSend, Send
    PROVE  Inv'
<1> DEFINE n == sent["parent"] + 1
           e == P!Job("enqueue", "parent", n)
           st == Post(state, "main", "enqueue", n)
<1>1. Others /\ state \in Rec /\ sent \in [P!Ports -> 0..MaxPosts]
  BY Parts DEF Others
<1>2. sent' = [sent EXCEPT !["parent"] = @ + 1] /\ sent["parent"] < MaxPosts /\ P!Assign(st)
  BY <1>1 DEF PostSend, Send, Others
<1>3. n \in 1..MaxPosts /\ sent' \in [P!Ports -> 0..MaxPosts]
  BY <1>1, <1>2, WorkerPostsAssumption DEF P!Ports
<1>4. Others'
  BY <1>1, <1>3 DEF PostSend, Send, Others, object, callers
<1> HIDE DEF n
<1>5. e \in JobType /\ e.kind = "enqueue"
  BY <1>3, Messages DEF P!Ports
<1>6. st = [state EXCEPT !.jobs["main"] = Append(@, e)]
  BY Zenon DEF Post
<1> HIDE DEF e, st
<1>7. /\ st \in Rec /\ st.port = state.port
      /\ st.jobs["main"] = Append(jobs["main"], e) /\ st.jobs["worker"] = jobs["worker"]
  BY <1>1, <1>5, <1>6, Parts, PostedMain
<1>8. /\ Told(st.jobs["main"], events, script, m_exited, exiting)
      /\ HasIdle(st.jobs["main"]) <=> HasIdle(jobs["main"])
  BY <1>5, <1>7, Parts, ToldPost
<1>9. Good(st, events, script, m_exited, exiting)
  BY <1>7, <1>8, Parts DEF Good
<1>10. Reported(st, script, timer, m_exited, exiting)
  BY <1>7, <1>8, Parts DEF Reported, Held
<1> QED
  BY <1>2, <1>4, <1>7, <1>9, <1>10, AssignStep DEF PostSend, object

(* PostSend.                                                               *)
LEMMA PostSendInv == ASSUME Inv, PostSend PROVE Inv'
<1>1. CASE Send
  BY <1>1, SendInv
<1>2. CASE ~Send
  <2>1. Others /\ Good(state, events, script, m_exited, exiting) /\ Reported(state, script, timer, m_exited, exiting)
    BY Parts
  <2>2. UNCHANGED <<port, jobs, sent>> /\ posting' = "null"
    BY <1>2 DEF PostSend
  <2>3. Others'
    BY <2>1, <2>2 DEF PostSend, Others, object, callers
  <2>4. UNCHANGED <<port, jobs, events, script, timer, m_exited, exiting>>
    BY <2>2 DEF PostSend, object
  <2> QED
    BY <2>1, <2>3, <2>4, StillStep
<1> QED
  BY <1>1, <1>2

(* ScriptListen.                                                           *)
LEMMA ScriptListenInv == ASSUME Inv, ScriptListen PROVE Inv'
<1> DEFINE st == P!start(state, "child")
<1>1. Others /\ state \in Rec /\ Good(state, events, script, m_exited, exiting)
  BY Parts
<1>2. st \in Rec /\ Grows(state, st)
  BY <1>1, StartGrows DEF P!Ports
<1>3. P!Assign(st) /\ Active
  BY DEF ScriptListen
<1> HIDE DEF st
<1>4. Others' /\ UNCHANGED <<events, script, timer, m_exited, exiting>>
  BY <1>1 DEF ScriptListen, Others, object, callers, thread
<1>5. Good(st, events, script, m_exited, exiting)
  BY <1>1, <1>2, GoodGrows
<1>6. Reported(st, script, timer, m_exited, exiting)
  BY <1>3 DEF Active, Reported, Held
<1> QED
  BY <1>2, <1>3, <1>4, <1>5, <1>6, AssignStep

(* ScriptTimer.                                                            *)
LEMMA ScriptTimerInv == ASSUME Inv, ScriptTimer PROVE Inv'
<1>1. Others /\ Good(state, events, script, m_exited, exiting)
  BY Parts
<1>2. Others' /\ UNCHANGED <<port, jobs, events, script, m_exited, exiting>> /\ timer' = TRUE
  BY <1>1 DEF ScriptTimer, Others, channel, object, callers
<1>3. Reported(state, script', timer', m_exited', exiting')
  BY <1>2 DEF Reported, Held
<1> QED
  BY <1>1, <1>2, <1>3, StillStep

(* ScriptReturn.                                                           *)
LEMMA ScriptReturnInv == ASSUME Inv, ScriptReturn PROVE Inv'
<1>1. /\ Others /\ state \in Rec /\ Exits(script, m_exited, exiting)
      /\ Good(state, events, script, m_exited, exiting)
  BY Parts
<1>2. /\ script = "running" /\ Settle(state, "done", timer, isoExitCode)
      /\ UNCHANGED <<events, m_exited, exiting>>
  BY DEF ScriptReturn, object
<1>3. Others'
  BY <1>1 DEF ScriptReturn, Settle, Others, object, callers
<1>4. timer \in BOOLEAN /\ isoExitCode \in Codes
  BY <1>1 DEF Others
<1>5. Exits("done", m_exited, exiting)
  BY <1>1, <1>2 DEF Exits
<1>6. \A k \in Kinds : Due(k, "done", m_exited, exiting) => Due(k, script, m_exited, exiting)
  BY DEF Due
<1>7. Good(state, events, "done", m_exited, exiting)
  BY <1>1, <1>2, <1>5, <1>6, ToldOn, WorkerOn DEF Good
<1>8. Held(state, script, timer)
  BY <1>2 DEF Held
<1> QED
  BY <1>1, <1>2, <1>3, <1>4, <1>7, <1>8, SettleStep

(* ScriptFail.                                                             *)
LEMMA ScriptFailInv == ASSUME Inv, ScriptFail PROVE Inv'
<1> DEFINE q == jobs["main"]
           e == P!Job("error", "parent", 0)
           st2 == Post(state, "main", "error", 0)
           st == IF isoTerminating THEN state ELSE st2
<1>1. /\ Others /\ state \in Rec /\ state.jobs = jobs /\ q \in Seq(JobType)
      /\ Exits(script, m_exited, exiting) /\ MainFirst(jobs["worker"], script)
      /\ Told(q, events, script, m_exited, exiting)
  BY Parts
<1>2. /\ script = "running" /\ Settle(st, "ending", timer, isoExitCode)
      /\ exiting' = [exiting EXCEPT !["worker"] = [pc |-> "begin", code |-> 1]]
      /\ UNCHANGED <<events, m_exited>>
  BY DEF ScriptFail, Enter, object
<1>3. Others'
  BY <1>1 DEF ScriptFail, Settle, Enter, Others, object, callers, P!Isolates, Codes
<1>4. timer \in BOOLEAN /\ isoExitCode \in Codes
  BY <1>1 DEF Others
<1>5. ~m_exited /\ exiting["main"].pc = "no"
  BY <1>1, <1>2 DEF Exits
<1>6. exiting'["worker"].pc = "begin" /\ exiting'["main"].pc = "no"
  BY <1>1, <1>2, <1>5 DEF Others, P!Isolates
<1>7. Exits("ending", m_exited', exiting')
  BY <1>2, <1>5, <1>6 DEF Exits, P!Isolates
<1>8. \A k \in Kinds : Due(k, "ending", m_exited', exiting') => Due(k, script, m_exited, exiting)
  BY <1>5 DEF Due
<1>9. MainFirst(jobs["worker"], "ending")
  BY <1>1, <1>2, WorkerOn
<1>10. Told(q, events, "ending", m_exited', exiting')
  BY <1>1, <1>2, <1>8, ToldOn
<1>11. Good(state, events', "ending", m_exited', exiting')
  BY <1>1, <1>2, <1>7, <1>9, <1>10 DEF Good
<1>12. st2 \in Rec /\ st2.jobs["main"] = Append(q, e) /\ st2.jobs["worker"] = jobs["worker"]
  BY <1>1, PostIs DEF P!Isolates, JobKinds, Kinds, Codes
<1>13. e \in JobType /\ e.kind = "error"
  BY Jobs DEF P!Ports, JobKinds, Kinds, Codes
<1> HIDE DEF st2, e
<1>14. Told(Append(q, e), events, "ending", m_exited', exiting')
  <2>1. \A k \in Kinds : <<k, e.kind>> \in Order \/ Due(k, script, m_exited, exiting)
    BY <1>2, <1>5, <1>13 DEF Due, Kinds, Order
  <2>2. ~Due(e.kind, "ending", m_exited', exiting') /\ e.kind \in Kinds
    BY <1>13 DEF Due, Kinds
  <2> QED
    BY <1>1, <1>2, <1>8, <1>13, <2>1, <2>2, ToldEvent
<1>15. Good(st2, events', "ending", m_exited', exiting')
  BY <1>2, <1>7, <1>9, <1>12, <1>14 DEF Good
<1>16. st \in Rec /\ Good(st, events', "ending", m_exited', exiting')
  BY <1>1, <1>11, <1>12, <1>15
<1> HIDE DEF st
<1>17. Held(state, script, timer)
  BY <1>2 DEF Held
<1> QED
  BY <1>2, <1>3, <1>4, <1>16, <1>17, SettleStep

(* process.exit().                                                         *)
LEMMA exitFromInsideInv == ASSUME Inv, exitFromInside PROVE Inv'
<1> DEFINE a == CloseChild(state, TRUE)
           b == P!ClosePort(a, "parent")
           st == Post(b, "worker", "cancel", 0)
           no == FALSE
<1>1. /\ Others /\ state \in Rec /\ Good(state, events, script, m_exited, exiting)
      /\ lost' \in [P!Ports -> SUBSET (1..MaxPosts)]
  BY Parts, LostFits DEF exitFromInside
<1>2. Settle(st, script, no, ExitN) /\ UNCHANGED <<events, m_exited, exiting>> /\ Active
  BY DEF exitFromInside, object
<1>3. Others'
  <2>1. termed' \in BOOLEAN
    BY <1>1 DEF exitFromInside, Others
  <2> QED
    BY <1>1, <2>1 DEF exitFromInside, Settle, Others, object, callers, Codes
<1>4. script \in {"new", "running", "ending", "done"} /\ ExitN \in Codes /\ no \in BOOLEAN
  BY <1>1 DEF Others, Codes
<1>5. a \in Rec /\ Grows(state, a)
  BY <1>1, CloseChildGrows
<1> HIDE DEF a
<1>6. b \in Rec /\ Grows(a, b)
  BY <1>5, CloseGrows DEF P!Ports
<1> HIDE DEF b
<1>7. st \in Rec /\ Grows(b, st)
  BY <1>6, PostIs DEF P!Isolates, JobKinds, Codes, Plain
<1> HIDE DEF st, no
<1>8. Good(st, events, script, m_exited, exiting)
  BY <1>1, <1>5, <1>6, <1>7, GrowsTwice, GoodGrows
<1> QED
  BY <1>2, <1>3, <1>4, <1>7, <1>8, ActiveHeld, SettleStep

(* TimerEnds.                                                              *)
LEMMA TimerEndsInv == ASSUME Inv, TimerEnds PROVE Inv'
<1> DEFINE no == FALSE
<1>1. Others /\ state \in Rec /\ Good(state, events, script, m_exited, exiting)
  BY Parts
<1>2. timer /\ Settle(state, script, no, isoExitCode) /\ UNCHANGED <<events, m_exited, exiting>>
  BY DEF TimerEnds, object
<1>3. Others'
  BY <1>1 DEF TimerEnds, Settle, Others, object, callers
<1>4. script \in {"new", "running", "ending", "done"} /\ isoExitCode \in Codes /\ no \in BOOLEAN
  BY <1>1 DEF Others
<1>5. Held(state, script, timer)
  BY <1>2 DEF Held
<1> HIDE DEF no
<1> QED
  BY <1>1, <1>2, <1>3, <1>4, <1>5, SettleStep

-----------------------------------------------------------------------------
(* terminate().                                                            *)

(* TermCheck.                                                              *)
LEMMA TermCheckInv == ASSUME Inv, NEW t \in Calls, TermCheck(t) PROVE Inv'
<1>1. Others /\ Good(state, events, script, m_exited, exiting) /\ Reported(state, script, timer, m_exited, exiting)
  BY Parts
<1>2. Others'
  <2>1. /\ termPc' \in [Calls -> {"idle", "push", "request", "mark", "code", "flag", "close", "stop", "done"}]
        /\ resolved' \in [Calls -> Codes \cup {None}]
    <3>1. CASE m_exited
      BY <1>1, <3>1 DEF TermCheck, Others
    <3>2. CASE ~m_exited
      BY <1>1, <3>2 DEF TermCheck, Others
    <3> QED
      BY <3>1, <3>2
  <2>2. UNCHANGED <<channel, object, thread, exiting, joined, events>>
    BY DEF TermCheck
  <2> QED
    BY <1>1, <2>1, <2>2 DEF Others, channel, object, thread
<1>3. UNCHANGED <<port, jobs, events, script, timer, m_exited, exiting>>
  BY DEF TermCheck, channel, object, thread
<1> QED
  BY <1>1, <1>2, <1>3, StillStep

(* TermPush.                                                               *)
LEMMA TermPushInv == ASSUME Inv, NEW t \in Calls, TermPush(t) PROVE Inv'
<1>1. Others /\ Good(state, events, script, m_exited, exiting) /\ Reported(state, script, timer, m_exited, exiting)
  BY Parts
<1>2. Others'
  BY <1>1 DEF TermPush, Others, channel, thread
<1>3. UNCHANGED <<port, jobs, events, script, timer, m_exited, exiting>>
  BY DEF TermPush, channel, thread
<1> QED
  BY <1>1, <1>2, <1>3, StillStep

(* The steps of requestTerminate() that change no port and no job.          *)
LEMMA RequestQuietInv ==
    ASSUME Inv, NEW t \in Calls, RequestTest(t) \/ RequestMark(t) \/ RequestCode(t) \/ RequestFlag(t)
    PROVE  Inv'
<1>1. Others /\ Good(state, events, script, m_exited, exiting) /\ Reported(state, script, timer, m_exited, exiting)
  BY Parts
<1>2. UNCHANGED <<port, jobs, events, script, timer, m_exited, exiting>>
  BY DEF RequestTest, RequestMark, RequestCode, RequestFlag, channel, object, thread
<1>3. CASE RequestTest(t)
  <2>1. Others'
    BY <1>1, <1>3 DEF RequestTest, Others, channel, object, thread
  <2> QED
    BY <1>1, <1>2, <2>1, StillStep
<1>4. CASE RequestMark(t)
  <2>1. Others'
    BY <1>1, <1>4 DEF RequestMark, Others, channel, thread
  <2> QED
    BY <1>1, <1>2, <2>1, StillStep
<1>5. CASE RequestCode(t)
  <2>1. Others'
    BY <1>1, <1>5 DEF RequestCode, Others, channel, object, Codes
  <2> QED
    BY <1>1, <1>2, <2>1, StillStep
<1>6. CASE RequestFlag(t)
  <2>1. Others'
    BY <1>1, <1>6 DEF RequestFlag, Others, channel, object
  <2> QED
    BY <1>1, <1>2, <2>1, StillStep
<1> QED
  BY <1>3, <1>4, <1>5, <1>6

(* RequestClose.                                                           *)
LEMMA RequestCloseInv == ASSUME Inv, NEW t \in Calls, RequestClose(t) PROVE Inv'
<1> DEFINE st == P!ClosePort(state, "parent")
<1>1. /\ Others /\ state \in Rec /\ Good(state, events, script, m_exited, exiting)
      /\ Reported(state, script, timer, m_exited, exiting)
  BY Parts
<1>2. UNCHANGED <<events, script, timer, m_exited, exiting>>
  BY DEF RequestClose, object, thread
<1>3. P!Assign(st) /\ lost' \in [P!Ports -> SUBSET (1..MaxPosts)]
  BY LostFits DEF RequestClose
<1>4. Others'
  BY <1>1, <1>3 DEF RequestClose, Others, object, thread
<1>5. st \in Rec /\ Keeps(state, st)
  BY <1>1, CloseGrows DEF P!Ports
<1> HIDE DEF st
<1> QED
  BY <1>2, <1>3, <1>4, <1>5, KeepStep

(* RequestStop.                                                            *)
LEMMA RequestStopInv == ASSUME Inv, NEW t \in Calls, RequestStop(t) PROVE Inv'
<1> DEFINE st == Post(state, "worker", "stop", 0)
<1>1. /\ Others /\ state \in Rec /\ Good(state, events, script, m_exited, exiting)
      /\ Reported(state, script, timer, m_exited, exiting)
  BY Parts
<1>2. UNCHANGED <<events, script, timer, m_exited, exiting>>
  BY DEF RequestStop, object, thread
<1>3. P!Assign(st)
  BY DEF RequestStop
<1>4. Others'
  BY <1>1 DEF RequestStop, Others, object, thread
<1>5. st \in Rec /\ Grows(state, st) /\ st.port = state.port
  BY <1>1, PostIs DEF P!Isolates, JobKinds, Codes, Plain
<1>6. Keeps(state, st)
  BY <1>5 DEF Keeps, KeepAlive
<1> HIDE DEF st
<1> QED
  BY <1>2, <1>3, <1>4, <1>5, <1>6, KeepStep

(* requestTerminate().                                                     *)
LEMMA requestTerminateInv == ASSUME Inv, NEW t \in Calls, requestTerminate(t) PROVE Inv'
BY RequestQuietInv, RequestCloseInv, RequestStopInv DEF requestTerminate

-----------------------------------------------------------------------------
(* emitExit().                                                             *)

(* A thread inside emitExit() is there alone.                              *)
LEMMA Alone ==
    ASSUME NEW s, NEW x, NEW ex, Exits(s, x, ex), NEW th \in P!Isolates, ex[th].pc # "no"
    PROVE  \A o \in P!Isolates : o # th => ex[o].pc = "no"
BY DEF Exits, P!Isolates

(* Where a thread is.                                                      *)
LEMMA Moves ==
    ASSUME Others, NEW th \in P!Isolates,
           NEW pc \in {"no", "begin", "tested", "marked", "emitted", "leave"},
           exiting' = [exiting EXCEPT ![th].pc = pc]
    PROVE  /\ exiting' \in [P!Isolates -> [pc : {"no", "begin", "tested", "marked", "emitted", "leave"},
                                           code : Codes]]
           /\ exiting'[th].pc = pc /\ \A o \in P!Isolates : o # th => exiting'[o] = exiting[o]
<1>1. exiting \in [P!Isolates -> [pc : {"no", "begin", "tested", "marked", "emitted", "leave"}, code : Codes]]
  BY DEF Others
<1>2. /\ [exiting[th] EXCEPT !.pc = pc] \in [pc : {"no", "begin", "tested", "marked", "emitted", "leave"}, code : Codes]
      /\ [exiting[th] EXCEPT !.pc = pc].pc = pc
  BY <1>1
<1>3. exiting' = [exiting EXCEPT ![th] = [exiting[th] EXCEPT !.pc = pc]]
  OBVIOUS
<1> QED
  BY <1>1, <1>2, <1>3

(* ExitTest.                                                               *)
LEMMA ExitTestInv == ASSUME Inv, NEW th \in P!Isolates, ExitTest(th) PROVE Inv'
<1> DEFINE pc == IF m_exited THEN "leave" ELSE "tested"
           ex == exiting'
<1>1. /\ Others /\ Good(state, events, script, m_exited, exiting) /\ Exits(script, m_exited, exiting)
      /\ Told(jobs["main"], events, script, m_exited, exiting)
      /\ MainFirst(jobs["worker"], script) /\ state.jobs = jobs
      /\ Reported(state, script, timer, m_exited, exiting)
  BY Parts
<1>2. /\ exiting[th].pc = "begin" /\ exiting' = [exiting EXCEPT ![th].pc = pc]
      /\ UNCHANGED <<port, jobs, events, script, timer, m_exited>>
  BY DEF ExitTest, channel, object, thread
<1>3. /\ ex \in [P!Isolates -> [pc : {"no", "begin", "tested", "marked", "emitted", "leave"}, code : Codes]]
      /\ ex[th].pc = pc /\ \A o \in P!Isolates : o # th => ex[o] = exiting[o]
  BY <1>1, <1>2, Moves
<1>4. Others'
  BY <1>1, <1>3 DEF ExitTest, Others, channel, object, callers, thread
<1> HIDE DEF ex
<1>5. Exits(script, m_exited, ex)
  BY <1>1, <1>2, <1>3 DEF Exits, P!Isolates
<1>6. \A k \in Kinds : Due(k, script, m_exited, ex) => Due(k, script, m_exited, exiting)
  BY <1>2, <1>3 DEF Due
<1>7. Good(state, events, script, m_exited, ex)
  BY <1>1, <1>5, <1>6, ToldOn DEF Good
<1>8. Reported(state, script, timer, m_exited, ex)
  BY <1>1, <1>2, <1>3 DEF Reported, P!Isolates
<1> QED
  BY <1>2, <1>4, <1>7, <1>8, StillStep DEF ex

(* ExitMark.                                                               *)
LEMMA ExitMarkInv == ASSUME Inv, NEW th \in P!Isolates, ExitMark(th) PROVE Inv'
<1> DEFINE ex == exiting'
           yes == TRUE
<1>1. /\ Others /\ Good(state, events, script, m_exited, exiting) /\ Exits(script, m_exited, exiting)
      /\ Told(jobs["main"], events, script, m_exited, exiting)
      /\ MainFirst(jobs["worker"], script) /\ state.jobs = jobs
  BY Parts
<1>2. /\ exiting[th].pc = "tested" /\ exiting' = [exiting EXCEPT ![th].pc = "marked"] /\ m_exited' = yes
      /\ UNCHANGED <<port, jobs, events, script, timer>>
  BY DEF ExitMark, channel, thread
<1>3. /\ ex \in [P!Isolates -> [pc : {"no", "begin", "tested", "marked", "emitted", "leave"}, code : Codes]]
      /\ ex[th].pc = "marked" /\ \A o \in P!Isolates : o # th => ex[o] = exiting[o]
  BY <1>1, <1>2, Moves
<1>4. Others'
  BY <1>1, <1>3 DEF ExitMark, Others, channel, callers, thread
<1> HIDE DEF ex
<1>5. (\A o \in P!Isolates : o # th => exiting[o].pc = "no") /\ ~m_exited
  BY <1>1, <1>2, Alone DEF Exits
<1>6. Exits(script, yes, ex)
  BY <1>1, <1>2, <1>3, <1>5 DEF Exits, P!Isolates
<1>7. \A k \in Kinds : Due(k, script, yes, ex) => Due(k, script, m_exited, exiting)
  BY <1>5 DEF Due
<1>8. Good(state, events, script, yes, ex)
  BY <1>1, <1>6, <1>7, ToldOn DEF Good
<1>9. Reported(state, script, timer, yes, ex)
  BY DEF Reported
<1> QED
  BY <1>2, <1>4, <1>8, <1>9, StillStep DEF ex

(* ExitEmit.                                                               *)
LEMMA ExitEmitInv == ASSUME Inv, NEW th \in P!Isolates, ExitEmit(th) PROVE Inv'
<1> DEFINE ex == exiting'
           c == exiting[th].code
           a == P!ClosePort(state, "parent")
           b == Post(a, "worker", "closechild", 0)
           st == Post(b, "main", "exit", c)
           e == P!Job("exit", "parent", c)
<1>1. /\ Others /\ state \in Rec /\ Good(state, events, script, m_exited, exiting)
      /\ Exits(script, m_exited, exiting)
  BY Parts
<1>2. /\ exiting[th].pc = "marked" /\ exiting' = [exiting EXCEPT ![th].pc = "emitted"]
      /\ UNCHANGED <<events, script, timer, m_exited>> /\ P!Assign(st)
      /\ lost' \in [P!Ports -> SUBSET (1..MaxPosts)] /\ m_exitCode' = c
  BY LostFits DEF ExitEmit, thread
<1>3. /\ ex \in [P!Isolates -> [pc : {"no", "begin", "tested", "marked", "emitted", "leave"}, code : Codes]]
      /\ ex[th].pc = "emitted" /\ (\A o \in P!Isolates : o # th => ex[o] = exiting[o]) /\ c \in Codes
  BY <1>1, <1>2, Moves DEF Others
<1>4. Others'
  BY <1>1, <1>2, <1>3 DEF ExitEmit, Others, callers, thread
<1> HIDE DEF ex, c
<1>5. (\A o \in P!Isolates : o # th => exiting[o].pc = "no") /\ m_exited
  BY <1>1, <1>2, Alone DEF Exits
<1>6. Exits(script, m_exited, ex)
  BY <1>1, <1>2, <1>3, <1>5 DEF Exits, P!Isolates
<1>7. a \in Rec /\ Grows(state, a)
  BY <1>1, CloseGrows DEF P!Ports
<1> HIDE DEF a
<1>8. b \in Rec /\ Grows(a, b)
  BY <1>7, PostIs DEF P!Isolates, JobKinds, Codes, Plain
<1> HIDE DEF b
<1>9. Good(b, events, script, m_exited, exiting)
  BY <1>1, <1>7, <1>8, GrowsTwice, GoodGrows
<1>10. /\ st \in Rec /\ st.jobs["main"] = Append(b.jobs["main"], e)
       /\ st.jobs["worker"] = b.jobs["worker"]
  BY <1>3, <1>8, PostMain DEF JobKinds, Kinds
<1>11. e \in JobType /\ e.kind = "exit"
  BY <1>3, Jobs DEF P!Ports, JobKinds, Kinds
<1> HIDE DEF st, e
<1>12. Told(st.jobs["main"], events, script, m_exited, ex)
  <2>1. b.jobs["main"] \in Seq(JobType)
    BY <1>8 DEF Rec, P!Isolates
  <2>2. \A k \in Kinds : <<k, e.kind>> \in Order \/ Due(k, script, m_exited, exiting)
    BY <1>2, <1>11 DEF Due, Kinds, Order
  <2>3. /\ ~Due(e.kind, script, m_exited, ex) /\ e.kind \in Kinds
        /\ \A k \in Kinds : Due(k, script, m_exited, ex) => Due(k, script, m_exited, exiting)
    BY <1>3, <1>5, <1>11 DEF Due, Kinds
  <2> QED
    BY <1>9, <1>10, <1>11, <2>1, <2>2, <2>3, ToldEvent DEF Good
<1>13. Good(st, events, script, m_exited, ex)
  BY <1>6, <1>9, <1>10, <1>12 DEF Good
<1>14. Reported(st, script, timer, m_exited, ex)
  BY <1>5 DEF Reported
<1> QED
  BY <1>2, <1>4, <1>10, <1>13, <1>14, AssignStep DEF ex

(* ExitResolve.                                                            *)
LEMMA ExitResolveInv == ASSUME Inv, NEW th \in P!Isolates, ExitResolve(th) PROVE Inv'
<1> DEFINE ex == exiting'
<1>1. /\ Others /\ Good(state, events, script, m_exited, exiting) /\ Exits(script, m_exited, exiting)
      /\ Told(jobs["main"], events, script, m_exited, exiting)
      /\ MainFirst(jobs["worker"], script) /\ state.jobs = jobs
  BY Parts
<1>2. /\ exiting[th].pc = "emitted" /\ exiting' = [exiting EXCEPT ![th].pc = "leave"]
      /\ UNCHANGED <<port, jobs, events, script, timer, m_exited>>
  BY DEF ExitResolve, channel, thread
<1>3. /\ ex \in [P!Isolates -> [pc : {"no", "begin", "tested", "marked", "emitted", "leave"}, code : Codes]]
      /\ ex[th].pc = "leave" /\ \A o \in P!Isolates : o # th => ex[o] = exiting[o]
  BY <1>1, <1>2, Moves
<1>4. resolved' \in [Calls -> Codes \cup {None}] /\ m_terminate_waiters' \subseteq Calls
  BY <1>1 DEF ExitResolve, Others
<1>5. Others'
  BY <1>1, <1>3, <1>4 DEF ExitResolve, Others, channel, thread
<1> HIDE DEF ex
<1>6. m_exited
  BY <1>1, <1>2 DEF Exits
<1>7. Exits(script, m_exited, ex)
  BY <1>1, <1>2, <1>3 DEF Exits, P!Isolates
<1>8. \A k \in Kinds : Due(k, script, m_exited, ex) => Due(k, script, m_exited, exiting)
  BY <1>2, <1>3 DEF Due
<1>9. Good(state, events, script, m_exited, ex)
  BY <1>1, <1>7, <1>8, ToldOn DEF Good
<1>10. Reported(state, script, timer, m_exited, ex)
  BY <1>6 DEF Reported
<1> QED
  BY <1>2, <1>5, <1>9, <1>10, StillStep DEF ex

(* LeaveMain.                                                              *)
LEMMA LeaveMainInv == ASSUME Inv, LeaveMain PROVE Inv'
<1> DEFINE ex == exiting'
<1>1. /\ Others /\ state \in Rec /\ state.jobs = jobs /\ Exits(script, m_exited, exiting)
      /\ Told(jobs["main"], events, script, m_exited, exiting)
      /\ MainFirst(jobs["worker"], script)
  BY Parts
<1>2. /\ exiting["worker"].pc = "leave" /\ exiting' = [exiting EXCEPT !["worker"].pc = "no"]
      /\ Settle(state, "done", timer, isoExitCode) /\ UNCHANGED <<events, m_exited>>
  BY DEF LeaveMain, object
<1>3. /\ ex \in [P!Isolates -> [pc : {"no", "begin", "tested", "marked", "emitted", "leave"}, code : Codes]]
      /\ ex["worker"].pc = "no" /\ \A o \in P!Isolates : o # "worker" => ex[o] = exiting[o]
  BY <1>1, <1>2, Moves DEF P!Isolates
<1>4. Others'
  BY <1>1, <1>3 DEF LeaveMain, Settle, Others, object, callers
<1> HIDE DEF ex
<1>5. script = "ending" /\ exiting["main"].pc = "no"
  BY <1>1, <1>2 DEF Exits
<1>6. Exits("done", m_exited, ex)
  BY <1>1, <1>3, <1>5 DEF Exits, P!Isolates
<1>7. \A k \in Kinds : Due(k, "done", m_exited, ex) => Due(k, script, m_exited, exiting)
  BY <1>3 DEF Due
<1>8. Told(jobs["main"], events, "done", m_exited, ex) /\ MainFirst(jobs["worker"], "done")
  BY <1>1, <1>5, <1>7, ToldOn, WorkerOn
<1>9. Good(state, events, "done", m_exited, ex)
  BY <1>1, <1>6, <1>8 DEF Good
<1>10. Held(state, script, timer)
  BY <1>5 DEF Held
<1>11. timer \in BOOLEAN /\ isoExitCode \in Codes
  BY <1>1 DEF Others
<1> QED
  BY <1>1, <1>2, <1>4, <1>9, <1>10, <1>11, SettleStep DEF ex

(* LeaveIdle.                                                              *)
LEMMA LeaveIdleInv == ASSUME Inv, LeaveIdle PROVE Inv'
<1> DEFINE ex == exiting'
<1>1. /\ Others /\ state.jobs = jobs /\ Exits(script, m_exited, exiting)
      /\ Told(jobs["main"], events, script, m_exited, exiting)
      /\ MainFirst(jobs["worker"], script)
  BY Parts
<1>2. /\ exiting["main"].pc = "leave" /\ exiting' = [exiting EXCEPT !["main"].pc = "no"]
      /\ UNCHANGED <<port, jobs, events, script, timer, m_exited>>
  BY DEF LeaveIdle, channel, object, thread
<1>3. /\ ex \in [P!Isolates -> [pc : {"no", "begin", "tested", "marked", "emitted", "leave"}, code : Codes]]
      /\ ex["main"].pc = "no" /\ \A o \in P!Isolates : o # "main" => ex[o] = exiting[o]
  BY <1>1, <1>2, Moves DEF P!Isolates
<1>4. joined' \in BOOLEAN
  BY <1>1, FlagsAssumption DEF LeaveIdle, Others
<1>5. Others'
  BY <1>1, <1>3, <1>4 DEF LeaveIdle, Others, channel, object, callers, thread
<1> HIDE DEF ex
<1>6. m_exited
  BY <1>1, <1>2 DEF Exits, P!Isolates
<1>7. Exits(script, m_exited, ex)
  BY <1>1, <1>3 DEF Exits, P!Isolates
<1>8. \A k \in Kinds : Due(k, script, m_exited, ex) => Due(k, script, m_exited, exiting)
  BY <1>3 DEF Due
<1>9. Good(state, events, script, m_exited, ex)
  BY <1>1, <1>7, <1>8, ToldOn DEF Good
<1>10. Reported(state, script, timer, m_exited, ex)
  BY <1>6 DEF Reported
<1> QED
  BY <1>2, <1>5, <1>9, <1>10, StillStep DEF ex

-----------------------------------------------------------------------------
(* The parent's jobs.                                                      *)

(* A job of the parent is begun.                                           *)
LEMMA ParentJob ==
    ASSUME Inv, NEW kind, Begins("main", kind)
    PROVE  /\ Begun("main") \in Rec /\ Good(Begun("main"), events, script, m_exited, exiting)
           /\ Begun("main").jobs["main"] = Tail(jobs["main"])
           /\ Begun("main").jobs["worker"] = jobs["worker"]
           /\ jobs["main"] # << >> /\ Head(jobs["main"]).kind = kind /\ Head(jobs["main"]) \in JobType
           /\ kind # "idle" => Reported(Begun("main"), script, timer, m_exited, exiting)
<1> DEFINE b == Begun("main")
           q == jobs["main"]
<1>1. q # << >> /\ Head(q).kind = kind
  BY DEF Begins
<1>2. /\ b \in Rec /\ b.port = port /\ b.jobs["main"] = Tail(q) /\ b.jobs["worker"] = jobs["worker"]
      /\ Head(q) \in JobType
  BY <1>1, Parts, BegunIs DEF P!Isolates
<1> HIDE DEF b
<1>3. Told(Tail(q), events, script, m_exited, exiting)
  BY <1>1, Parts, ToldBegun
<1>4. Good(b, events, script, m_exited, exiting)
  BY <1>2, <1>3, Parts DEF Good
<1>5. ASSUME kind # "idle" PROVE Reported(b, script, timer, m_exited, exiting)
  <2>1. HasIdle(q) => HasIdle(Tail(q))
    <3>1. InOrder(events, q) /\ q \in Seq(JobType)
      BY Parts DEF Told
    <3> QED
      BY <1>1, <1>5, <3>1, MainBegun
  <2>2. Held(state, script, timer) => Held(b, script, timer)
    BY <1>2, Parts DEF Held
  <2> QED
    BY <1>2, <2>1, <2>2, Parts DEF Reported
<1> QED
  BY <1>1, <1>2, <1>4, <1>5 DEF b

(* RunIdle.                                                                *)
LEMMA RunIdleInv == ASSUME Inv, RunIdle PROVE Inv'
<1> DEFINE b == Begun("main")
           ex == exiting'
           c == IF m_terminating THEN 1 ELSE Head(jobs["main"]).msg
<1>1. /\ Others /\ Exits(script, m_exited, exiting)
      /\ Told(jobs["main"], events, script, m_exited, exiting) /\ jobs["main"] \in Seq(JobType)
  BY Parts
<1>2. /\ b \in Rec /\ Good(b, events, script, m_exited, exiting)
      /\ jobs["main"] # << >> /\ Head(jobs["main"]).kind = "idle" /\ Head(jobs["main"]) \in JobType
  BY ParentJob DEF RunIdle
<1>3. P!Assign(b) /\ UNCHANGED <<events, script, timer, m_exited>>
  BY DEF RunIdle, object, thread
<1>4. script = "done"
  <2>1. Head(jobs["main"]) = jobs["main"][1] /\ 1 \in 1..Len(jobs["main"])
    BY <1>1, <1>2, Rest
  <2>2. HasIdle(jobs["main"])
    BY <1>2, <2>1 DEF HasIdle
  <2> QED
    BY <1>1, <2>2 DEF Told
<1>5. c \in Codes
  BY <1>2 DEF JobType, Codes
<1> HIDE DEF b, c, ex
<1>6. CASE m_exited
  <2>1. exiting' = exiting
    BY <1>6 DEF RunIdle
  <2>2. Others'
    BY <1>1, <2>1 DEF RunIdle, Others, object, callers, thread
  <2>3. Reported(b, script, timer, m_exited, exiting)
    BY <1>6 DEF Reported
  <2> QED
    BY <1>2, <1>3, <2>1, <2>2, <2>3, AssignStep
<1>7. CASE ~m_exited
  <2>1. exiting' = [exiting EXCEPT !["main"] = [pc |-> "begin", code |-> c]]
    BY <1>7 DEF RunIdle, Enter, c
  <2>2. /\ ex \in [P!Isolates -> [pc : {"no", "begin", "tested", "marked", "emitted", "leave"}, code : Codes]]
        /\ ex["main"].pc = "begin" /\ ex["worker"] = exiting["worker"]
    BY <1>1, <1>5, <2>1 DEF Others, P!Isolates, ex
  <2>3. Others'
    BY <1>1, <2>2 DEF RunIdle, Others, object, callers, thread, ex
  <2>4. Exits(script, m_exited, ex)
    BY <1>1, <1>4, <1>7, <2>2 DEF Exits, P!Isolates
  <2>5. \A k \in Kinds : Due(k, script, m_exited, ex) => Due(k, script, m_exited, exiting)
    BY <1>7 DEF Due
  <2>6. Good(b, events, script, m_exited, ex)
    BY <1>2, <2>4, <2>5, ToldOn DEF Good
  <2>7. Reported(b, script, timer, m_exited, ex)
    BY <2>2 DEF Reported
  <2> QED
    BY <1>2, <1>3, <2>3, <2>6, <2>7, AssignStep DEF ex
<1> QED
  BY <1>6, <1>7

(* RunEnqueue.                                                             *)
LEMMA RunEnqueueInv == ASSUME Inv, RunEnqueue PROVE Inv'
<1> DEFINE b == Begun("main")
           n == Head(jobs["main"]).msg
           st == P!enqueueSerializedMessage(b, "parent", n)
<1>1. Others
  BY Parts
<1>2. /\ b \in Rec /\ Good(b, events, script, m_exited, exiting)
      /\ Head(jobs["main"]).kind = "enqueue" /\ Head(jobs["main"]) \in JobType
      /\ Reported(b, script, timer, m_exited, exiting)
  BY ParentJob DEF RunEnqueue
<1>3. P!Assign(st) /\ UNCHANGED <<events, script, timer, m_exited, exiting>>
  BY DEF RunEnqueue, object, thread
<1>4. Others'
  BY <1>1 DEF RunEnqueue, Others, object, callers, thread
<1>5. n \in 1..MaxPosts
  BY <1>2 DEF JobType
<1> HIDE DEF b, n
<1>6. st \in Rec /\ Keeps(b, st)
  BY <1>2, <1>5, EnqueueKeeps DEF P!Ports
<1> HIDE DEF st
<1>7. Good(st, events, script, m_exited, exiting) /\ Reported(st, script, timer, m_exited, exiting)
  BY <1>2, <1>6, GoodGrows, ReportedKeeps DEF Keeps
<1> QED
  BY <1>3, <1>4, <1>6, <1>7, AssignStep

(* A message is delivered, or the flush job ends.                          *)
LEMMA DeliverInv ==
    ASSUME Inv, NEW st \in Rec, Good(st, events, script, m_exited, exiting),
           Reported(st, script, timer, m_exited, exiting), Deliver(st)
    PROVE  Inv'
<1>1. Others
  BY Parts
<1>2. /\ [port |-> port', jobs |-> jobs'] \in Rec
      /\ Keeps(st, [port |-> port', jobs |-> jobs'])
      /\ draining' \in [P!Ports -> BOOLEAN]
      /\ seen' \in [P!Ports -> Seq(1..MaxPosts)] /\ lost' \in [P!Ports -> SUBSET (1..MaxPosts)]
  BY <1>1, DrainKeeps DEF Deliver
<1> DEFINE st2 == [port |-> port', jobs |-> jobs']
<1>3. Good(st2, events, script, m_exited, exiting) /\ Reported(st2, script, timer, m_exited, exiting)
  BY <1>2, GoodGrows, ReportedKeeps DEF Keeps
<1>4. P!Assign(st2)
  BY DEF P!Assign
<1>5. st2 \in Rec
  BY <1>2
<1> HIDE DEF st2
<1>6. UNCHANGED <<script, timer, m_exited, exiting>> /\ (events' = events \/ events' = Append(events, "message"))
  BY DEF Deliver, object, thread
<1>7. /\ events' \in Seq(Kinds \cup {"message"})
      /\ Good(st2, events', script, m_exited, exiting)
  <2>1. CASE events' = events
    BY <1>1, <1>3, <2>1 DEF Others
  <2>2. CASE events' = Append(events, "message")
    <3>1. events \in Seq(Kinds \cup {"message"})
      BY <1>1 DEF Others
    <3>2. Append(events, "message") \in Seq(Kinds \cup {"message"})
      BY <3>1, Appended
    <3>3. Told(st2.jobs["main"], Append(events, "message"), script, m_exited, exiting)
      BY <1>3, <3>1, ToldMessage DEF Good
    <3> QED
      BY <1>3, <2>2, <3>2, <3>3 DEF Good
  <2> QED
    BY <1>6, <2>1, <2>2
<1>8. Others'
  BY <1>1, <1>2, <1>7 DEF Deliver, Others, object, callers, thread
<1> QED
  BY <1>3, <1>4, <1>5, <1>6, <1>7, <1>8, AssignStep

(* RunFlush.                                                               *)
LEMMA RunFlushInv == ASSUME Inv, RunFlush PROVE Inv'
<1>1. Begins("main", "flush") /\ Deliver(Begun("main"))
  BY DEF RunFlush
<1>2. /\ Begun("main") \in Rec /\ Good(Begun("main"), events, script, m_exited, exiting)
      /\ Reported(Begun("main"), script, timer, m_exited, exiting)
  BY <1>1, ParentJob
<1> QED
  BY <1>1, <1>2, DeliverInv

(* ListenerReturns.                                                        *)
LEMMA ListenerReturnsInv == ASSUME Inv, ListenerReturns PROVE Inv'
BY Parts, DeliverInv DEF ListenerReturns

(* RunEvent.                                                               *)
LEMMA RunEventInv ==
    ASSUME Inv, NEW ev \in {"online", "error", "exit", "close"}, RunEvent(ev)
    PROVE  Inv'
<1> DEFINE b == Begun("main")
<1>1. /\ Others /\ events \in Seq(Kinds \cup {"message"})
      /\ Told(jobs["main"], events, script, m_exited, exiting) /\ jobs["main"] \in Seq(JobType)
  BY Parts DEF Others
<1>2. /\ b \in Rec /\ Good(b, events, script, m_exited, exiting)
      /\ b.jobs["main"] = Tail(jobs["main"])
      /\ jobs["main"] # << >> /\ Head(jobs["main"]).kind = ev
      /\ Reported(b, script, timer, m_exited, exiting)
  BY ParentJob DEF RunEvent
<1>3. /\ P!Assign(b) /\ UNCHANGED <<script, timer, m_exited, exiting>>
      /\ events' = events \/ (ev \in Kinds /\ events' = Append(events, ev))
  BY DEF RunEvent, object, thread, Kinds
<1> HIDE DEF b
<1>4. events' \in Seq(Kinds \cup {"message"}) /\ Good(b, events', script, m_exited, exiting)
  <2>1. CASE events' = events
    BY <1>1, <1>2, <2>1
  <2>2. CASE ev \in Kinds /\ events' = Append(events, ev)
    <3>1. Append(events, ev) \in Seq(Kinds \cup {"message"})
      BY <1>1, <2>2, Appended
    <3>2. Told(b.jobs["main"], Append(events, ev), script, m_exited, exiting)
      BY <1>1, <1>2, <2>2, ToldEmits
    <3> QED
      BY <1>2, <2>2, <3>1, <3>2 DEF Good
  <2> QED
    BY <1>3, <2>1, <2>2
<1>5. Others'
  BY <1>1, <1>4 DEF RunEvent, Others, object, callers, thread
<1> QED
  BY <1>2, <1>3, <1>4, <1>5, AssignStep

-----------------------------------------------------------------------------
(* The messages on their way to the parent.                                *)

(* Those delivered, then those in the queue of the port, are 1, 2, ...      *)
Arrived(got, q) ==
    /\ \A k \in 1..Len(got) : got[k] = k
    /\ \A k \in 1..Len(q) : q[k] = Len(got) + k

(* The messages after d, up to n, are in the jobs, in their order.          *)
Moving(d, js, n) ==
    /\ d <= n
    /\ \A k \in 1..Len(js) : js[k].kind = "enqueue" => js[k].msg \in (d + 1)..n
    /\ \A m \in (d + 1)..n : \E k \in 1..Len(js) : js[k].kind = "enqueue" /\ js[k].msg = m
    /\ \A k, l \in 1..Len(js) :
          k < l /\ js[k].kind = "enqueue" /\ js[l].kind = "enqueue" => js[k].msg < js[l].msg

Mailed(st) ==
    /\ Started(st)
    /\ Arrived(seen["parent"], Queue(st))
    /\ Moving(Len(seen["parent"]) + Len(Queue(st)), st.jobs["main"], sent["parent"])

Mail == Mailed(state)

(* r is q, with jobs after it that carry no message.                        *)
Calm(q, r) ==
    /\ Len(q) <= Len(r)
    /\ \A k \in 1..Len(q) : r[k] = q[k]
    /\ \A k \in 1..Len(r) : k \in 1..Len(q) \/ r[k].kind # "enqueue"

(* Such jobs are posted.                                                   *)
LEMMA MovingCalm ==
    ASSUME NEW q \in Seq(JobType), NEW r \in Seq(JobType), Calm(q, r),
           NEW d \in Nat, NEW n \in Nat, Moving(d, q, n)
    PROVE  Moving(d, r, n)
<1>1. Len(q) \in Nat /\ Len(r) \in Nat /\ \A k \in 1..Len(q) : k \in 1..Len(r) /\ r[k] = q[k]
  BY Lengths DEF Calm
<1>2. \A k \in 1..Len(r) : r[k].kind = "enqueue" => k \in 1..Len(q) /\ r[k] = q[k]
  BY <1>1 DEF Calm
<1> QED
  BY <1>1, <1>2 DEF Moving

(* A job that carries no message is begun.                                 *)
LEMMA MovingBegun ==
    ASSUME NEW q \in Seq(JobType), q # << >>, Head(q).kind # "enqueue",
           NEW d \in Nat, NEW n \in Nat, Moving(d, q, n)
    PROVE  Moving(d, Tail(q), n)
<1> DEFINE r == Tail(q)
<1>1. /\ Len(q) \in Nat /\ Len(r) = Len(q) - 1 /\ Head(q) = q[1]
      /\ \A k \in 1..Len(r) : k + 1 \in 1..Len(q) /\ r[k] = q[k + 1]
  BY Rest
<1> HIDE DEF r
<1>2. \A k \in 1..Len(q) : q[k].kind = "enqueue" => k - 1 \in 1..Len(r) /\ r[k - 1] = q[k]
  <2>1. ASSUME NEW k \in 1..Len(q), q[k].kind = "enqueue" PROVE k - 1 \in 1..Len(r) /\ (k - 1) + 1 = k
    <3>1. k # 1
      BY <1>1, <2>1
    <3> QED
      BY <1>1, <3>1
  <2> QED
    BY <1>1, <2>1
<1> DEFINE S == (d + 1)..n
<1>7. /\ \A k \in 1..Len(q) : q[k].kind = "enqueue" => q[k].msg \in S
      /\ \A m \in S : \E k \in 1..Len(q) : q[k].kind = "enqueue" /\ q[k].msg = m
  BY DEF Moving
<1> HIDE DEF S
<1>3. ASSUME NEW m \in S PROVE \E k \in 1..Len(r) : r[k].kind = "enqueue" /\ r[k].msg = m
  <2>1. PICK k \in 1..Len(q) : q[k].kind = "enqueue" /\ q[k].msg = m
    BY <1>7
  <2> QED
    BY <1>2, <2>1
<1>4. ASSUME NEW k \in 1..Len(r), r[k].kind = "enqueue" PROVE r[k].msg \in S
  BY <1>1, <1>4, <1>7
<1>5. ASSUME NEW k \in 1..Len(r), NEW l \in 1..Len(r), k < l, r[k].kind = "enqueue", r[l].kind = "enqueue"
      PROVE  r[k].msg < r[l].msg
  <2>1. k + 1 < l + 1 /\ k + 1 \in 1..Len(q) /\ l + 1 \in 1..Len(q) /\ r[k] = q[k + 1] /\ r[l] = q[l + 1]
    <3>1. k + 1 < l + 1
      BY <1>5
    <3> QED
      BY <1>1, <3>1
  <2> QED
    BY <1>5, <2>1 DEF Moving
<1>6. d <= n
  BY DEF Moving
<1> QED
  BY <1>3, <1>4, <1>5, <1>6 DEF Moving, r, S

(* The first message on its way is the next, and leaves the jobs.           *)
LEMMA MovingTaken ==
    ASSUME NEW q \in Seq(JobType), q # << >>, Head(q).kind = "enqueue",
           NEW d \in Nat, NEW n \in Nat, Moving(d, q, n)
    PROVE  Head(q).msg = d + 1 /\ Moving(d + 1, Tail(q), n)
<1> DEFINE r == Tail(q)
<1>1. /\ Len(q) \in Nat /\ Len(r) = Len(q) - 1 /\ Head(q) = q[1] /\ 1 \in 1..Len(q)
      /\ \A k \in 1..Len(r) : k + 1 \in 1..Len(q) /\ 1 < k + 1 /\ r[k] = q[k + 1]
  BY Rest
<1> HIDE DEF r
<1>2. q[1].kind = "enqueue" /\ q[1].msg \in (d + 1)..n
  BY <1>1 DEF Moving
<1>3. q[1].msg = d + 1
  <2>1. d + 1 \in (d + 1)..n
    BY <1>2
  <2>2. PICK k \in 1..Len(q) : q[k].kind = "enqueue" /\ q[k].msg = d + 1
    BY <2>1 DEF Moving
  <2>3. CASE k = 1
    BY <2>2, <2>3
  <2>4. CASE 1 < k
    <3>1. q[1].msg < q[k].msg
      BY <1>1, <1>2, <2>2, <2>4 DEF Moving
    <3> QED
      BY <1>2, <2>2, <3>1
  <2> QED
    BY <1>1, <2>3, <2>4
<1>4. \A k \in 1..Len(r) : r[k].kind = "enqueue" => r[k].msg \in ((d + 1) + 1)..n
  <2>1. ASSUME NEW k \in 1..Len(r), r[k].kind = "enqueue" PROVE r[k].msg \in ((d + 1) + 1)..n
    <3>1. q[1].msg < q[k + 1].msg /\ q[k + 1].msg \in (d + 1)..n
      BY <1>1, <1>2, <2>1 DEF Moving
    <3> QED
      BY <1>1, <1>3, <3>1
  <2> QED
    BY <2>1
<1>5. ASSUME NEW m \in ((d + 1) + 1)..n
      PROVE  \E k \in 1..Len(r) : r[k].kind = "enqueue" /\ r[k].msg = m
  <2>1. PICK k \in 1..Len(q) : q[k].kind = "enqueue" /\ q[k].msg = m
    BY <1>5 DEF Moving
  <2>2. k # 1
    BY <1>3, <2>1
  <2>3. k - 1 \in 1..Len(r) /\ (k - 1) + 1 = k
    BY <1>1, <2>2
  <2> QED
    BY <1>1, <2>1, <2>3
<1>6. ASSUME NEW k \in 1..Len(r), NEW l \in 1..Len(r), k < l, r[k].kind = "enqueue", r[l].kind = "enqueue"
      PROVE  r[k].msg < r[l].msg
  <2>1. k + 1 < l + 1 /\ k + 1 \in 1..Len(q) /\ l + 1 \in 1..Len(q) /\ r[k] = q[k + 1] /\ r[l] = q[l + 1]
    <3>1. k + 1 < l + 1
      BY <1>6
    <3> QED
      BY <1>1, <3>1
  <2> QED
    BY <1>6, <2>1 DEF Moving
<1>7. d + 1 <= n
  BY <1>2
<1> QED
  BY <1>1, <1>3, <1>4, <1>5, <1>6, <1>7 DEF Moving, r

(* The next message is posted.                                             *)
LEMMA MovingPosted ==
    ASSUME NEW q \in Seq(JobType), NEW d \in Nat, NEW n \in Nat, Moving(d, q, n),
           NEW e \in JobType, e.kind = "enqueue", e.msg = n + 1
    PROVE  Moving(d, Append(q, e), n + 1)
<1> DEFINE r == Append(q, e)
<1>1. /\ Len(q) \in Nat /\ Len(r) = Len(q) + 1 /\ r[Len(q) + 1] = e
      /\ \A k \in 1..Len(q) : r[k] = q[k]
      /\ \A k \in 1..Len(r) : k \in 1..Len(q) \/ k = Len(q) + 1
  BY Appended
<1> HIDE DEF r
<1>2. Len(q) + 1 \in 1..Len(r) /\ \A k \in 1..Len(q) : k \in 1..Len(r)
  BY <1>1
<1>3. d <= n
  BY DEF Moving
<1>4. ASSUME NEW k \in 1..Len(r), r[k].kind = "enqueue" PROVE r[k].msg \in (d + 1)..(n + 1)
  <2>1. CASE k \in 1..Len(q)
    <3>1. q[k].msg \in (d + 1)..n /\ r[k] = q[k]
      BY <1>1, <1>4, <2>1 DEF Moving
    <3> QED
      BY <3>1
  <2>2. CASE k = Len(q) + 1
    BY <1>1, <1>3, <2>2
  <2> QED
    BY <1>1, <2>1, <2>2
<1>5. ASSUME NEW m \in (d + 1)..(n + 1)
      PROVE  \E k \in 1..Len(r) : r[k].kind = "enqueue" /\ r[k].msg = m
  <2>1. CASE m = n + 1
    BY <1>1, <1>2, <2>1
  <2>2. CASE m \in (d + 1)..n
    BY <1>1, <1>2, <2>2 DEF Moving
  <2> QED
    BY <2>1, <2>2
<1>6. ASSUME NEW k \in 1..Len(r), NEW l \in 1..Len(r), k < l, r[k].kind = "enqueue", r[l].kind = "enqueue"
      PROVE  r[k].msg < r[l].msg
  <2>1. k \in 1..Len(q) /\ r[k] = q[k]
    BY <1>1, <1>6
  <2>2. CASE l \in 1..Len(q)
    BY <1>1, <1>6, <2>1, <2>2 DEF Moving
  <2>3. CASE l = Len(q) + 1
    <3>1. q[k].msg \in (d + 1)..n
      BY <1>6, <2>1 DEF Moving
    <3> QED
      BY <1>1, <2>1, <2>3, <3>1
  <2> QED
    BY <1>1, <2>2, <2>3
<1> QED
  BY <1>3, <1>4, <1>5, <1>6 DEF Moving, r

(* A message enters the queue of the port.                                 *)
LEMMA ArrivedQueued ==
    ASSUME NEW got \in Seq(1..MaxPosts), NEW q \in Seq(1..MaxPosts), Arrived(got, q),
           NEW n \in 1..MaxPosts, n = Len(got) + Len(q) + 1
    PROVE  Arrived(got, Append(q, n)) /\ Len(Append(q, n)) = Len(q) + 1
<1> DEFINE r == Append(q, n)
<1>1. /\ Len(q) \in Nat /\ Len(r) = Len(q) + 1 /\ r[Len(q) + 1] = n
      /\ \A k \in 1..Len(q) : r[k] = q[k]
      /\ \A k \in 1..Len(r) : k \in 1..Len(q) \/ k = Len(q) + 1
  BY Appended
<1>2. Len(got) \in Nat
  BY Lengths
<1> HIDE DEF r
<1>3. ASSUME NEW k \in 1..Len(r) PROVE r[k] = Len(got) + k
  <2>1. CASE k \in 1..Len(q)
    BY <1>1, <2>1 DEF Arrived
  <2>2. CASE k = Len(q) + 1
    BY <1>1, <1>2, <2>2
  <2> QED
    BY <1>1, <2>1, <2>2
<1> QED
  BY <1>1, <1>3 DEF Arrived, r

(* The first message of the queue is delivered.                             *)
LEMMA ArrivedDelivered ==
    ASSUME NEW got \in Seq(1..MaxPosts), NEW q \in Seq(1..MaxPosts), q # << >>, Arrived(got, q)
    PROVE  LET got2 == Append(got, Head(q))
           IN  /\ got2 \in Seq(1..MaxPosts) /\ Arrived(got2, Tail(q))
               /\ Len(got2) + Len(Tail(q)) = Len(got) + Len(q)
<1> DEFINE x == Head(q)
           r == Tail(q)
           got2 == Append(got, x)
<1>1. /\ x \in 1..MaxPosts /\ Len(q) \in Nat /\ Len(r) = Len(q) - 1 /\ x = q[1] /\ 1 \in 1..Len(q)
      /\ \A k \in 1..Len(r) : k + 1 \in 1..Len(q) /\ r[k] = q[k + 1]
  BY Rest
<1> HIDE DEF x, r
<1>2. /\ Len(got) \in Nat /\ Len(got2) = Len(got) + 1 /\ got2[Len(got) + 1] = x
      /\ \A k \in 1..Len(got) : got2[k] = got[k]
      /\ \A k \in 1..Len(got2) : k \in 1..Len(got) \/ k = Len(got) + 1
      /\ got2 \in Seq(1..MaxPosts)
  BY <1>1, Appended
<1> HIDE DEF got2
<1>3. ASSUME NEW k \in 1..Len(got2) PROVE got2[k] = k
  BY <1>1, <1>2 DEF Arrived
<1>4. ASSUME NEW k \in 1..Len(r) PROVE r[k] = Len(got2) + k
  BY <1>1, <1>2 DEF Arrived
<1>5. Len(got2) + Len(r) = Len(got) + Len(q)
  BY <1>1, <1>2
<1> QED
  BY <1>2, <1>3, <1>4, <1>5 DEF Arrived, got2, x, r

-----------------------------------------------------------------------------
(* How a step leaves the messages in their order.                           *)

(* st2 is st as far as messages go.                                        *)
Fresh(st, st2) == Lasts(st, st2) /\ Calm(st.jobs["main"], st2.jobs["main"])

(* The types of what Mailed() is about.                                    *)
LEMMA MailTypes ==
    ASSUME Inv, NEW st \in Rec
    PROVE  /\ seen["parent"] \in Seq(1..MaxPosts) /\ sent["parent"] \in 0..MaxPosts
           /\ Queue(st) \in Seq(1..MaxPosts) /\ st.jobs["main"] \in Seq(JobType)
           /\ Len(seen["parent"]) \in Nat /\ Len(Queue(st)) \in Nat
           /\ Len(seen["parent"]) + Len(Queue(st)) \in Nat /\ sent["parent"] \in Nat
<1>1. seen["parent"] \in Seq(1..MaxPosts) /\ sent["parent"] \in 0..MaxPosts
  BY Parts DEF Others, P!Ports
<1>2. Queue(st) \in Seq(1..MaxPosts) /\ st.jobs["main"] \in Seq(JobType)
  BY DEF Queue, Rec, Member, P!Ports, P!Isolates
<1>3. Len(seen["parent"]) \in Nat /\ Len(Queue(st)) \in Nat
  BY <1>1, <1>2, Lengths
<1>4. \A a, b \in Nat : a + b \in Nat
  OBVIOUS
<1>5. sent["parent"] \in Nat
  BY <1>1, WorkerPostsAssumption
<1> QED
  BY <1>1, <1>2, <1>3, <1>4, <1>5

(* Ports that grow by plain jobs.                                          *)
LEMMA GrowsFresh ==
    ASSUME NEW st \in Rec, NEW st2, Grows(st, st2), Lasts(st, st2)
    PROVE  st2 \in Rec /\ Fresh(st, st2)
<1>1. st2 \in Rec /\ Adds(st.jobs["main"], st2.jobs["main"])
  BY DEF Grows, P!Isolates
<1> QED
  BY <1>1 DEF Fresh, Calm, Adds, Plain

(* A job is posted that carries no message.                                *)
LEMMA PostFresh ==
    ASSUME NEW st \in Rec, NEW i \in P!Isolates, NEW kind \in JobKinds, NEW c \in Codes, kind # "enqueue"
    PROVE  Post(st, i, kind, c) \in Rec /\ Fresh(st, Post(st, i, kind, c))
<1> DEFINE st2 == Post(st, i, kind, c)
           e == P!Job(kind, "parent", c)
<1>1. /\ st2 \in Rec /\ st2.port = st.port /\ st2.jobs[i] = Append(st.jobs[i], e)
      /\ \A j \in P!Isolates : j # i => st2.jobs[j] = st.jobs[j]
  BY PostIs
<1>2. e \in JobType /\ e.kind = kind
  BY Jobs DEF P!Ports
<1>3. st.jobs["main"] \in Seq(JobType) /\ "main" \in P!Isolates
  BY DEF Rec, P!Isolates
<1> HIDE DEF st2, e
<1>4. Calm(st.jobs["main"], st2.jobs["main"])
  <2>1. CASE i = "main"
    <3> DEFINE q == st.jobs["main"]
               r == st2.jobs["main"]
    <3>0. q \in Seq(JobType) /\ r = Append(q, e)
      BY <1>1, <1>3, <2>1
    <3> HIDE DEF q, r
    <3>1. /\ Len(q) \in Nat /\ Len(r) = Len(q) + 1 /\ r[Len(q) + 1] = e
          /\ \A k \in 1..Len(q) : r[k] = q[k]
          /\ \A k \in 1..Len(r) : k \in 1..Len(q) \/ k = Len(q) + 1
      BY <1>2, <3>0, Appended
    <3>2. Calm(q, r)
      BY <1>2, <3>1 DEF Calm
    <3> QED
      BY <3>2 DEF q, r
  <2>2. CASE i # "main"
    <3>1. st2.jobs["main"] = st.jobs["main"] /\ Len(st.jobs["main"]) \in Nat
      BY <1>1, <1>3, <2>2, Lengths
    <3> QED
      BY <3>1 DEF Calm
  <2> QED
    BY <2>1, <2>2
<1>5. Lasts(st, st2)
  BY <1>1 DEF Lasts, Queue, Started
<1> QED
  BY <1>1, <1>4, <1>5 DEF Fresh, st2

(* ... and the messages are where they were.                                *)
LEMMA MailFresh ==
    ASSUME Inv, NEW st \in Rec, NEW st2 \in Rec, Fresh(st, st2), Mailed(st)
    PROVE  Mailed(st2)
<1>1. Queue(st2) = Queue(st) /\ Started(st2) = Started(st) /\ Calm(st.jobs["main"], st2.jobs["main"])
  BY DEF Fresh, Lasts
<1>2. Moving(Len(seen["parent"]) + Len(Queue(st)), st2.jobs["main"], sent["parent"])
  BY <1>1, MailTypes, MovingCalm DEF Mailed
<1> QED
  BY <1>1, <1>2 DEF Mailed

(* The new state is st.                                                    *)
LEMMA AssignMail ==
    ASSUME NEW st \in Rec, Mailed(st), P!Assign(st), UNCHANGED <<sent, seen>>
    PROVE  Mail'
<1>1. state' = st
  BY Assigned
<1> QED
  BY <1>1 DEF Mail, Mailed, Started, Queue

(* The new state is st, or st with the idle job.                            *)
LEMMA SettleMail ==
    ASSUME Inv, NEW st \in Rec, Mailed(st), NEW s, NEW t, NEW c \in Codes, Settle(st, s, t, c),
           UNCHANGED <<sent, seen>>
    PROVE  Mail'
<1> DEFINE st2 == Post(st, "main", "idle", c)
<1>1. P!Assign(st) \/ P!Assign(st2)
  BY DEF Settle
<1>2. st2 \in Rec /\ Fresh(st, st2)
  BY PostFresh DEF P!Isolates, JobKinds
<1> HIDE DEF st2
<1>3. Mailed(st2)
  BY <1>2, MailFresh
<1> QED
  BY <1>1, <1>2, <1>3, AssignMail

(* The ports and the jobs are left alone.                                  *)
LEMMA StillMail ==
    ASSUME Mail, UNCHANGED <<port, jobs, sent, seen>>
    PROVE  Mail'
<1>1. state' = state
  BY DEF state
<1> QED
  BY <1>1 DEF Mail, Mailed, Started, Queue

(* A job is begun that carries no message.                                 *)
LEMMA BegunMail ==
    ASSUME Inv, Mail, NEW i \in P!Isolates, NEW kind, Begins(i, kind), kind # "enqueue"
    PROVE  Begun(i) \in Rec /\ Mailed(Begun(i))
<1> DEFINE b == Begun(i)
<1>1. jobs[i] # << >> /\ Head(jobs[i]).kind = kind /\ state \in Rec /\ state.port = port /\ state.jobs = jobs
  BY Parts DEF Begins
<1>2. /\ b \in Rec /\ b.port = port /\ b.jobs[i] = Tail(jobs[i])
      /\ \A j \in P!Isolates : j # i => b.jobs[j] = jobs[j]
  BY <1>1, BegunIs
<1> HIDE DEF b
<1>3. Queue(b) = Queue(state) /\ Started(b) = Started(state)
  BY <1>1, <1>2 DEF Queue, Started
<1> DEFINE d == Len(seen["parent"]) + Len(Queue(state))
           n == sent["parent"]
<1>4. d \in Nat /\ n \in Nat /\ jobs["main"] \in Seq(JobType) /\ Moving(d, jobs["main"], n)
  BY <1>1, MailTypes DEF Mail, Mailed
<1> HIDE DEF d, n
<1>5. Moving(d, b.jobs["main"], n)
  <2>1. CASE i = "main"
    BY <1>1, <1>2, <1>4, <2>1, MovingBegun
  <2>2. CASE i # "main"
    BY <1>2, <1>4, <2>2 DEF P!Isolates
  <2> QED
    BY <2>1, <2>2
<1> QED
  BY <1>2, <1>3, <1>5 DEF Mail, Mailed, b, d, n

(* The worker's jobs.                                                      *)
LEMMA WorkerJobMail == ASSUME Inv, Mail, WorkerJob PROVE Mail'
<1> DEFINE b == Begun("worker")
<1>1. /\ isoExitCode \in Codes /\ isoTerminating \in BOOLEAN
      /\ "worker" \in P!Isolates /\ "main" \in P!Isolates
  BY Parts DEF Others, P!Isolates
<1>2. ASSUME NEW kind, Begins("worker", kind), kind # "enqueue" PROVE b \in Rec /\ Mailed(b)
  BY <1>1, <1>2, BegunMail
<1>3. CASE RunMain
  <2> DEFINE st == Post(b, "main", "online", 0)
  <2>1. /\ UNCHANGED <<sent, seen>>
        /\ \E s, t : Settle(b, s, t, isoExitCode) \/ Settle(st, s, t, isoExitCode)
    BY <1>3 DEF RunMain
  <2>2. b \in Rec /\ Mailed(b)
    BY <1>2, <1>3 DEF RunMain
  <2> HIDE DEF b
  <2>3. st \in Rec /\ Fresh(b, st)
    BY <1>1, <2>2, PostFresh DEF JobKinds, Kinds, Codes
  <2> HIDE DEF st
  <2>4. Mailed(st)
    BY <2>2, <2>3, MailFresh
  <2> QED
    BY <1>1, <2>1, <2>2, <2>3, <2>4, SettleMail
<1>4. CASE RunStop \/ RunCloseChild
  <2> DEFINE st == CloseChild(b, isoTerminating)
  <2>1. UNCHANGED <<sent, seen>> /\ \E s, t : Settle(st, s, t, isoExitCode)
    BY <1>4 DEF RunStop, RunCloseChild
  <2>2. b \in Rec /\ Mailed(b)
    BY <1>2, <1>4 DEF RunStop, RunCloseChild
  <2> HIDE DEF b
  <2>3. Grows(b, st) /\ Lasts(b, st)
    BY <1>1, <2>2, CloseChildGrows
  <2> HIDE DEF st
  <2>4. st \in Rec /\ Mailed(st)
    BY <2>2, <2>3, GrowsFresh, MailFresh
  <2> QED
    BY <1>1, <2>1, <2>4, SettleMail
<1>5. CASE RunOther
  <2>1. UNCHANGED <<sent, seen>> /\ Settle(b, script, timer, isoExitCode)
    BY <1>5 DEF RunOther
  <2>2. b \in Rec /\ Mailed(b)
    BY <1>2, <1>5 DEF RunOther
  <2> HIDE DEF b
  <2> QED
    BY <1>1, <2>1, <2>2, SettleMail
<1> QED
  BY <1>3, <1>4, <1>5 DEF WorkerJob

(* A message is posted.                                                    *)
LEMMA SendMail == ASSUME Inv, Mail, PostSend, Send PROVE Mail'
<1> DEFINE n == sent["parent"]
           d == Len(seen["parent"]) + Len(Queue(state))
           e == P!Job("enqueue", "parent", n + 1)
           st == Post(state, "main", "enqueue", n + 1)
<1>1. /\ state \in Rec /\ state.jobs = jobs /\ sent \in [P!Ports -> 0..MaxPosts]
      /\ jobs["main"] \in Seq(JobType)
  BY Parts DEF Others
<1>2. /\ sent' = [sent EXCEPT !["parent"] = @ + 1] /\ n < MaxPosts /\ P!Assign(st) /\ seen' = seen
  BY Parts DEF PostSend, Send, Others
<1>3. n \in Nat /\ n + 1 \in 1..MaxPosts /\ sent'["parent"] = n + 1
  BY <1>1, <1>2, WorkerPostsAssumption DEF P!Ports
<1>4. d \in Nat /\ Moving(d, jobs["main"], n)
  BY <1>1, MailTypes DEF Mail, Mailed
<1> HIDE DEF n, d
<1>5. e \in JobType /\ e.kind = "enqueue" /\ e.msg = n + 1
  BY <1>3, Messages DEF P!Ports
<1>6. st = [state EXCEPT !.jobs["main"] = Append(@, e)]
  BY Zenon DEF Post
<1> HIDE DEF e, st
<1>7. st \in Rec /\ st.port = state.port /\ st.jobs["main"] = Append(jobs["main"], e)
  BY <1>1, <1>5, <1>6, PostedMain
<1>8. Moving(d, st.jobs["main"], n + 1)
  BY <1>1, <1>3, <1>4, <1>5, <1>7, MovingPosted
<1>9. state' = st
  BY <1>2, <1>7, Assigned
<1>10. Queue(st) = Queue(state) /\ Started(st) = Started(state)
  BY <1>7 DEF Queue, Started
<1>11. Started(st) /\ Arrived(seen["parent"], Queue(st))
  BY <1>10 DEF Mail, Mailed
<1> QED
  BY <1>2, <1>3, <1>8, <1>9, <1>10, <1>11 DEF Mail, Mailed, Started, Queue, d

(* The script and the timer.                                               *)
LEMMA ScriptMail == ASSUME Inv, Mail, Script \/ TimerEnds \/ LeaveMain PROVE Mail'
<1>1. /\ isoExitCode \in Codes /\ state \in Rec /\ Mailed(state)
      /\ "worker" \in P!Isolates /\ "main" \in P!Isolates /\ "parent" \in P!Ports /\ "child" \in P!Ports
  BY Parts DEF Others, P!Isolates, P!Ports, Mail
<1>2. CASE PostCheck \/ PostSend
  <2>1. CASE PostSend /\ Send
    BY <2>1, SendMail
  <2>2. CASE PostCheck \/ ~Send
    BY <1>2, <2>2, StillMail DEF PostCheck, PostSend, channel
  <2> QED
    BY <1>2, <2>1, <2>2
<1>3. CASE ScriptListen
  <2> DEFINE st == P!start(state, "child")
  <2>1. UNCHANGED <<sent, seen>> /\ P!Assign(st)
    BY <1>3 DEF ScriptListen
  <2>2. Grows(state, st) /\ Lasts(state, st)
    BY <1>1, StartGrows
  <2> HIDE DEF st
  <2>3. st \in Rec /\ Mailed(st)
    BY <1>1, <2>2, GrowsFresh, MailFresh
  <2> QED
    BY <2>1, <2>3, AssignMail
<1>4. CASE ScriptTimer
  BY <1>4, StillMail DEF ScriptTimer, channel
<1>5. CASE ScriptReturn \/ TimerEnds \/ LeaveMain
  <2>1. UNCHANGED <<sent, seen>> /\ \E s, t : Settle(state, s, t, isoExitCode)
    BY <1>5 DEF ScriptReturn, TimerEnds, LeaveMain
  <2> QED
    BY <1>1, <2>1, SettleMail
<1>6. CASE ScriptFail
  <2> DEFINE st2 == Post(state, "main", "error", 0)
             st == IF isoTerminating THEN state ELSE st2
  <2>1. UNCHANGED <<sent, seen>> /\ Settle(st, "ending", timer, isoExitCode)
    BY <1>6 DEF ScriptFail
  <2>2. st2 \in Rec /\ Fresh(state, st2)
    BY <1>1, PostFresh DEF JobKinds, Kinds, Codes
  <2> HIDE DEF st2
  <2>3. st \in Rec /\ Mailed(st)
    BY <1>1, <2>2, MailFresh
  <2> HIDE DEF st
  <2> QED
    BY <1>1, <2>1, <2>3, SettleMail
<1>7. CASE exitFromInside
  <2> DEFINE a == CloseChild(state, TRUE)
             b == P!ClosePort(a, "parent")
             st == Post(b, "worker", "cancel", 0)
  <2>1. UNCHANGED <<sent, seen>> /\ \E s, t : Settle(st, s, t, ExitN)
    BY <1>7 DEF exitFromInside
  <2>2. Grows(state, a) /\ Lasts(state, a)
    BY <1>1, CloseChildGrows
  <2> HIDE DEF a
  <2>3. a \in Rec /\ Mailed(a)
    BY <1>1, <2>2, GrowsFresh, MailFresh
  <2>4. Grows(a, b) /\ Lasts(a, b)
    BY <1>1, <2>3, CloseGrows DEF Mailed
  <2> HIDE DEF b
  <2>5. b \in Rec /\ Mailed(b)
    BY <2>3, <2>4, GrowsFresh, MailFresh
  <2>6. st \in Rec /\ Fresh(b, st)
    BY <1>1, <2>5, PostFresh DEF JobKinds, Codes
  <2> HIDE DEF st
  <2>7. Mailed(st) /\ ExitN \in Codes
    BY <2>5, <2>6, MailFresh DEF Codes
  <2> QED
    BY <2>1, <2>6, <2>7, SettleMail
<1> QED
  BY <1>2, <1>3, <1>4, <1>5, <1>6, <1>7 DEF Script

(* terminate().                                                            *)
LEMMA TerminateMail ==
    ASSUME Inv, Mail, NEW t \in Calls, TermCheck(t) \/ Terminate(t)
    PROVE  Mail'
<1>1. CASE TermCheck(t) \/ TermPush(t)
  BY <1>1, StillMail DEF TermCheck, TermPush, channel
<1>2. CASE RequestTest(t) \/ RequestMark(t) \/ RequestCode(t) \/ RequestFlag(t)
  BY <1>2, StillMail DEF RequestTest, RequestMark, RequestCode, RequestFlag, channel
<1>3. /\ state \in Rec /\ Mailed(state) /\ "parent" \in P!Ports /\ "worker" \in P!Isolates
  BY Parts DEF Mail, P!Ports, P!Isolates
<1>4. CASE RequestClose(t)
  <2> DEFINE st == P!ClosePort(state, "parent")
  <2>1. UNCHANGED <<sent, seen>> /\ P!Assign(st)
    BY <1>4 DEF RequestClose
  <2>2. Grows(state, st) /\ Lasts(state, st)
    BY <1>3, CloseGrows DEF Mailed, Keeps
  <2> HIDE DEF st
  <2>3. st \in Rec /\ Mailed(st)
    BY <1>3, <2>2, GrowsFresh, MailFresh
  <2> QED
    BY <2>1, <2>3, AssignMail
<1>5. CASE RequestStop(t)
  <2> DEFINE st == Post(state, "worker", "stop", 0)
  <2>1. UNCHANGED <<sent, seen>> /\ P!Assign(st)
    BY <1>5 DEF RequestStop
  <2>2. st \in Rec /\ Fresh(state, st)
    BY <1>3, PostFresh DEF JobKinds, Codes
  <2> HIDE DEF st
  <2> QED
    BY <1>3, <2>1, <2>2, MailFresh, AssignMail
<1> QED
  BY <1>1, <1>2, <1>4, <1>5 DEF Terminate, requestTerminate

(* emitExit(), and the end of onIsolateIdle().                              *)
LEMMA EmitMail ==
    ASSUME Inv, Mail, LeaveIdle \/ \E th \in P!Isolates : emitExit(th)
    PROVE  Mail'
<1>1. CASE LeaveIdle
  BY <1>1, StillMail DEF LeaveIdle, channel
<1>2. ASSUME NEW th \in P!Isolates, ExitTest(th) \/ ExitMark(th) \/ ExitResolve(th) PROVE Mail'
  BY <1>2, StillMail DEF ExitTest, ExitMark, ExitResolve, channel
<1>3. ASSUME NEW th \in P!Isolates, ExitEmit(th) PROVE Mail'
  <2> DEFINE c == exiting[th].code
             a == P!ClosePort(state, "parent")
             b == Post(a, "worker", "closechild", 0)
             st == Post(b, "main", "exit", c)
  <2>1. UNCHANGED <<sent, seen>> /\ P!Assign(st)
    BY <1>3 DEF ExitEmit
  <2>2. /\ state \in Rec /\ Mailed(state) /\ "parent" \in P!Ports
        /\ "worker" \in P!Isolates /\ "main" \in P!Isolates /\ c \in Codes
    BY Parts DEF Mail, P!Ports, P!Isolates, Others
  <2> HIDE DEF c
  <2>3. Grows(state, a) /\ Lasts(state, a)
    BY <2>2, CloseGrows DEF Mailed
  <2> HIDE DEF a
  <2>4. a \in Rec /\ Mailed(a)
    BY <2>2, <2>3, GrowsFresh, MailFresh
  <2>5. b \in Rec /\ Fresh(a, b)
    BY <2>2, <2>4, PostFresh DEF JobKinds, Codes
  <2> HIDE DEF b
  <2>6. Mailed(b)
    BY <2>4, <2>5, MailFresh
  <2>7. st \in Rec /\ Fresh(b, st)
    BY <2>2, <2>5, PostFresh DEF JobKinds, Kinds
  <2> HIDE DEF st
  <2> QED
    BY <2>1, <2>5, <2>6, <2>7, MailFresh, AssignMail
<1> QED
  BY <1>1, <1>2, <1>3 DEF emitExit

(* RunEnqueue.                                                             *)
LEMMA RunEnqueueMail == ASSUME Inv, Mail, RunEnqueue PROVE Mail'
<1> DEFINE b == Begun("main")
           n == Head(jobs["main"]).msg
           st == P!enqueueSerializedMessage(b, "parent", n)
           got == seen["parent"]
           d == Len(got) + Len(Queue(state))
<1>1. UNCHANGED <<sent, seen>> /\ P!Assign(st)
  BY DEF RunEnqueue
<1>2. /\ jobs["main"] # << >> /\ Head(jobs["main"]).kind = "enqueue"
      /\ Head(jobs["main"]) \in JobType
      /\ state \in Rec /\ state.port = port /\ state.jobs = jobs /\ "main" \in P!Isolates /\ "parent" \in P!Ports
  BY Parts, ParentJob DEF RunEnqueue, P!Isolates, P!Ports
<1>3. b \in Rec /\ b.port = port /\ b.jobs["main"] = Tail(jobs["main"])
  BY <1>2, BegunIs
<1>4. n \in 1..MaxPosts
  BY <1>2 DEF JobType
<1>5. /\ Started(state) /\ Arrived(got, Queue(state)) /\ Moving(d, jobs["main"], sent["parent"])
      /\ d \in Nat /\ sent["parent"] \in Nat /\ jobs["main"] \in Seq(JobType)
      /\ got \in Seq(1..MaxPosts) /\ Queue(state) \in Seq(1..MaxPosts)
      /\ Len(got) \in Nat /\ Len(Queue(state)) \in Nat
  BY <1>2, MailTypes DEF Mail, Mailed
<1> HIDE DEF d
<1>6. n = d + 1 /\ Moving(d + 1, Tail(jobs["main"]), sent["parent"])
  BY <1>2, <1>5, MovingTaken
<1> HIDE DEF b, n
<1>7. Queue(b) = Queue(state) /\ Started(b) = Started(state)
  BY <1>2, <1>3 DEF Queue, Started
<1>8. st \in Rec /\ Grows(b, st) /\ Queue(st) = Append(Queue(b), n) /\ Started(st) = Started(b)
  BY <1>2, <1>3, <1>4, EnqueueKeeps DEF Keeps
<1> HIDE DEF st
<1>9. Arrived(got, Queue(st)) /\ Len(Queue(st)) = Len(Queue(state)) + 1
  BY <1>4, <1>5, <1>6, <1>7, <1>8, ArrivedQueued DEF d
<1>10. Len(got) + Len(Queue(st)) = d + 1
  <2>1. \A k, l \in Nat : k + (l + 1) = (k + l) + 1
    OBVIOUS
  <2> QED
    BY <1>5, <1>9, <2>1 DEF d
<1>11. Moving(d + 1, st.jobs["main"], sent["parent"])
  <2>1. Calm(b.jobs["main"], st.jobs["main"]) /\ b.jobs["main"] \in Seq(JobType) /\ st.jobs["main"] \in Seq(JobType)
    BY <1>2, <1>3, <1>8 DEF Grows, Adds, Plain, Calm, Rec
  <2>2. d + 1 \in Nat
    BY <1>5
  <2>3. Moving(d + 1, b.jobs["main"], sent["parent"])
    BY <1>3, <1>6
  <2> DEFINE q == b.jobs["main"]
             x == st.jobs["main"]
             m == d + 1
             n2 == sent["parent"]
  <2>4. Calm(q, x) /\ q \in Seq(JobType) /\ x \in Seq(JobType) /\ m \in Nat /\ n2 \in Nat /\ Moving(m, q, n2)
    BY <1>5, <2>1, <2>2, <2>3
  <2> HIDE DEF q, x, m, n2
  <2>5. Moving(m, x, n2)
    BY <2>4, MovingCalm
  <2> QED
    BY <2>5 DEF x, m, n2
<1>12. Mailed(st)
  BY <1>5, <1>7, <1>8, <1>9, <1>10, <1>11 DEF Mailed
<1> QED
  BY <1>1, <1>8, <1>12, AssignMail

(* A message is delivered, or the flush job ends.                          *)
LEMMA DeliverMail ==
    ASSUME Inv, NEW st \in Rec, Mailed(st), Deliver(st)
    PROVE  Mail'
<1> DEFINE st2 == [port |-> port', jobs |-> jobs']
           got == seen["parent"]
           got2 == seen'["parent"]
<1>1. /\ st2 \in Rec /\ st2.jobs = st.jobs /\ Started(st2) = Started(st)
      /\ \/ Queue(st2) = Queue(st) /\ got2 = got
         \/ /\ Queue(st) # << >> /\ Queue(st2) = Tail(Queue(st))
            /\ got2 = Append(got, Head(Queue(st)))
  BY Parts, DrainKeeps DEF Deliver
<1>2. state' = st2 /\ sent' = sent
  BY DEF state, Deliver
<1>3. /\ Started(st) /\ Arrived(got, Queue(st)) /\ Moving(Len(got) + Len(Queue(st)), st.jobs["main"], sent["parent"])
      /\ got \in Seq(1..MaxPosts) /\ Queue(st) \in Seq(1..MaxPosts)
  BY MailTypes DEF Mailed
<1> HIDE DEF st2, got2
<1>4. Arrived(got2, Queue(st2)) /\ Len(got2) + Len(Queue(st2)) = Len(got) + Len(Queue(st))
  <2>1. CASE Queue(st2) = Queue(st) /\ got2 = got
    BY <1>3, <2>1
  <2>2. CASE /\ Queue(st) # << >> /\ Queue(st2) = Tail(Queue(st))
             /\ got2 = Append(got, Head(Queue(st)))
    BY <1>3, <2>2, ArrivedDelivered
  <2> QED
    BY <1>1, <2>1, <2>2
<1>5. /\ Started(st2) /\ Arrived(got2, Queue(st2))
      /\ Moving(Len(got2) + Len(Queue(st2)), st2.jobs["main"], sent["parent"])
  BY <1>1, <1>3, <1>4
<1> QED
  BY <1>2, <1>5 DEF Mail, Mailed, Started, Queue, got2

(* The parent's jobs.                                                      *)
LEMMA MainJobMail == ASSUME Inv, Mail, MainJob PROVE Mail'
<1> DEFINE b == Begun("main")
<1>1. "main" \in P!Isolates
  BY DEF P!Isolates
<1>2. ASSUME NEW kind, Begins("main", kind), kind # "enqueue" PROVE b \in Rec /\ Mailed(b)
  BY <1>1, <1>2, BegunMail
<1>3. CASE RunIdle
  <2>1. UNCHANGED <<sent, seen>> /\ P!Assign(b) /\ b \in Rec /\ Mailed(b)
    BY <1>2, <1>3 DEF RunIdle
  <2> HIDE DEF b
  <2> QED
    BY <2>1, AssignMail
<1>4. CASE RunFlush
  <2>1. Deliver(b) /\ b \in Rec /\ Mailed(b)
    BY <1>2, <1>4 DEF RunFlush
  <2> HIDE DEF b
  <2> QED
    BY <2>1, DeliverMail
<1>5. CASE ListenerReturns
  BY <1>5, Parts, DeliverMail DEF ListenerReturns, Mail
<1>6. ASSUME NEW ev \in {"online", "error", "exit", "close"}, RunEvent(ev) PROVE Mail'
  <2>1. UNCHANGED <<sent, seen>> /\ P!Assign(b) /\ b \in Rec /\ Mailed(b)
    BY <1>2, <1>6 DEF RunEvent
  <2> HIDE DEF b
  <2> QED
    BY <2>1, AssignMail
<1> QED
  BY <1>3, <1>4, <1>5, <1>6, RunEnqueueMail DEF MainJob

-----------------------------------------------------------------------------
(* The theorems.                                                           *)

(* The invariant holds initially.                                          *)
LEMMA InitInv == Init => Inv
<1> SUFFICES ASSUME Init PROVE Inv
  OBVIOUS
<1> DEFINE m(s) == [m_peer |-> TRUE, m_closed |-> FALSE, m_started |-> s,
                    m_keepalive_refed |-> FALSE, m_flush_pending |-> FALSE,
                    m_holding |-> FALSE, m_queue |-> << >>]
           e == P!Job("main", "parent", 0)
           none == << >>
<1>1. \A s \in BOOLEAN : m(s) \in Member
  BY EmptySeq DEF Member
<1>2. port = [p \in P!Ports |-> m(p = "parent")]
  BY DEF Init
<1>3. port \in [P!Ports -> Member]
  BY <1>1, <1>2
<1>4. e \in JobType /\ e.kind = "main"
  BY Jobs DEF P!Ports, JobKinds, Codes
<1>5. jobs = [main |-> none, worker |-> <<e>>]
  BY DEF Init
<1>6. none \in Seq(JobType) /\ Len(none) = 0
  BY EmptySeq
<1> HIDE DEF e, none
<1>7. <<e>> \in Seq(JobType) /\ Len(<<e>>) = 1 /\ <<e>>[1] = e /\ <<e>> # << >>
  BY <1>4
<1>8. jobs["main"] = none /\ jobs["worker"] = <<e>> /\ jobs \in [P!Isolates -> Seq(JobType)]
  <2> DEFINE one == <<e>>
  <2>1. one \in Seq(JobType)
    BY <1>7
  <2>2. jobs = [main |-> none, worker |-> one]
    BY <1>5
  <2> HIDE DEF one
  <2>3. jobs["main"] = none /\ jobs["worker"] = one
    BY <2>2
  <2>4. jobs \in [main : Seq(JobType), worker : Seq(JobType)]
    BY <1>6, <2>1, <2>2
  <2>5. [main : Seq(JobType), worker : Seq(JobType)] \subseteq [P!Isolates -> Seq(JobType)]
    BY DEF P!Isolates
  <2> QED
    BY <2>3, <2>4, <2>5 DEF one
<1>9. state \in Rec /\ state.jobs = jobs
  BY <1>3, <1>8 DEF state, Rec
<1>10. Others
  <2>1. draining \in [P!Ports -> BOOLEAN] /\ sent \in [P!Ports -> 0..MaxPosts]
    BY WorkerPostsAssumption DEF Init
  <2>2. seen \in [P!Ports -> Seq(1..MaxPosts)] /\ lost \in [P!Ports -> SUBSET (1..MaxPosts)]
    BY EmptySeq DEF Init
  <2>3. /\ m_exited \in BOOLEAN /\ m_terminating \in BOOLEAN /\ m_exitCode \in Codes
        /\ m_terminate_waiters \subseteq Calls
        /\ isoTerminating \in BOOLEAN /\ isoExitCode \in Codes /\ termed \in BOOLEAN
        /\ script \in {"new", "running", "ending", "done"}
        /\ timer \in BOOLEAN /\ joined \in BOOLEAN /\ posting = "no"
    BY DEF Init, Codes
  <2>4. /\ termPc \in [Calls -> {"idle", "push", "request", "mark", "code", "flag", "close", "stop", "done"}]
        /\ resolved \in [Calls -> Codes \cup {None}]
    BY DEF Init
  <2>5. exiting \in [P!Isolates -> [pc : {"no", "begin", "tested", "marked", "emitted", "leave"}, code : Codes]]
    BY DEF Init, Codes
  <2>6. events \in Seq(Kinds \cup {"message"})
    BY EmptySeq DEF Init
  <2> QED
    BY <2>1, <2>2, <2>3, <2>4, <2>5, <2>6 DEF Others
<1>11. MainFirst(jobs["worker"], script)
  BY <1>4, <1>7, <1>8 DEF MainFirst, Init
<1>12. Told(jobs["main"], events, script, m_exited, exiting)
  <2>1. Len(events) = 0
    BY EmptySeq DEF Init
  <2> QED
    BY <1>6, <1>8, <2>1 DEF Told, InOrder, Absent, HasIdle
<1>13. Exits(script, m_exited, exiting)
  BY DEF Exits, Init, P!Isolates
<1>14. Reported(state, script, timer, m_exited, exiting)
  BY <1>7, <1>8, <1>9 DEF Reported, Held
<1> QED
  BY <1>9, <1>10, <1>11, <1>12, <1>13, <1>14 DEF Inv, Typed, Good

(* A stuttering step keeps the invariant.                                  *)
LEMMA StutterInv == Inv /\ UNCHANGED vars => Inv'
<1> SUFFICES ASSUME Inv, UNCHANGED vars PROVE Inv'
  OBVIOUS
<1>1. Others /\ Good(state, events, script, m_exited, exiting) /\ Reported(state, script, timer, m_exited, exiting)
  BY Parts
<1>2. UNCHANGED <<port, jobs, events, script, timer, m_exited, exiting>>
  BY DEF vars, channel, object, thread
<1>3. Others'
  BY <1>1 DEF Others, vars, channel, object, callers, thread
<1> QED
  BY <1>1, <1>2, <1>3, StillStep

(* Every step keeps the invariant.                                         *)
LEMMA NextInv == Inv /\ [Next]_vars => Inv'
<1> SUFFICES ASSUME Inv, [Next]_vars PROVE Inv'
  OBVIOUS
<1>1. CASE MainJob
  BY <1>1, RunIdleInv, RunEnqueueInv, RunFlushInv, ListenerReturnsInv, RunEventInv DEF MainJob
<1>2. CASE WorkerJob
  BY <1>2, RunMainInv, RunStopInv, RunCloseChildInv, RunOtherInv DEF WorkerJob
<1>3. CASE Script
  BY <1>3, PostCheckInv, PostSendInv, ScriptListenInv, ScriptTimerInv, ScriptReturnInv, ScriptFailInv,
     exitFromInsideInv DEF Script
<1>4. CASE TimerEnds \/ LeaveMain \/ LeaveIdle
  BY <1>4, TimerEndsInv, LeaveMainInv, LeaveIdleInv
<1>5. ASSUME NEW th \in P!Isolates, emitExit(th) PROVE Inv'
  BY <1>5, ExitTestInv, ExitMarkInv, ExitEmitInv, ExitResolveInv DEF emitExit
<1>6. ASSUME NEW t \in Calls, TermCheck(t) \/ Terminate(t) PROVE Inv'
  BY <1>6, TermCheckInv, TermPushInv, requestTerminateInv DEF Terminate
<1>7. CASE UNCHANGED vars
  BY <1>7, StutterInv
<1> QED
  BY <1>1, <1>2, <1>3, <1>4, <1>5, <1>6, <1>7 DEF Next

(* The state of a worker fits together: its script, the threads inside      *)
(* emitExit(), the events on their way and the report that it is idle.     *)
THEOREM Invariance == Spec => []Inv
<1>1. Inv /\ [Next]_vars => Inv'
  BY NextInv
<1> QED
  BY InitInv, <1>1, PTL DEF Spec

(* The types of the jobs, for the invariant of the run.                     *)
LEMMA Types == ASSUME Inv PROVE TypeOK
<1>1. /\ Others /\ port \in [P!Ports -> Member] /\ jobs \in [P!Isolates -> Seq(JobType)]
  BY Parts DEF Rec
<1>2. JobType \subseteq [kind : JobKinds, port : P!Ports, msg : Codes \cup (0..MaxPosts)]
  BY DEF JobType
<1> DEFINE T == [kind : JobKinds, port : P!Ports, msg : Codes \cup (0..MaxPosts)]
<1>3. Seq(JobType) \subseteq Seq(T)
  BY <1>2, SeqMonotonic
<1> HIDE DEF T
<1>4. jobs \in [P!Isolates -> Seq(T)]
  BY <1>1, <1>3
<1> QED
  BY <1>1, <1>4 DEF TypeOK, Others, Member, T

(* The events of a Worker come in the order online, error, exit, each at    *)
(* most once, and at most one thread is between the test of m_exited in     *)
(* emitExit() and the end of it.                                           *)
THEOREM LifecycleHolds == Spec => []Lifecycle
<1>1. ASSUME Inv PROVE Lifecycle
  <2> DEFINE S == {th \in P!Isolates : exiting[th].pc \in {"tested", "marked", "emitted"}}
  <2>1. TypeOK /\ InOrder(events, jobs["main"]) /\ Exits(script, m_exited, exiting)
    BY <1>1, Types, Parts DEF Told
  <2>2. S = {} \/ \E th \in P!Isolates : S = {th}
    BY <2>1, Alone
  <2>3. Cardinality(S) <= 1
    BY <2>2, FS_EmptySet, FS_Singleton
  <2> QED
    BY <2>1, <2>3 DEF Lifecycle, InOrder
<1> QED
  BY <1>1, Invariance, PTL

(* An idle worker has exited, is exiting, or onIsolateIdle is on its way to *)
(* the parent.                                                             *)
THEOREM IdleReportedHolds == Spec => []IdleReported
<1>1. ASSUME Inv PROVE IdleReported
  BY <1>1, Parts DEF Reported, HasIdle, IdleReported
<1> QED
  BY <1>1, Invariance, PTL
(* Nothing was posted yet.                                                 *)
LEMMA InitMail == Init => Mail
<1> SUFFICES ASSUME Init PROVE Mail
  OBVIOUS
<1>1. seen["parent"] = << >> /\ sent["parent"] = 0
  BY DEF Init, P!Ports
<1>2. /\ state.port["parent"].m_started = ("parent" = "parent") /\ state.port["parent"].m_queue = << >>
      /\ state.jobs = jobs
  BY DEF Init, P!Ports, state
<1>3. jobs["main"] = << >>
  BY DEF Init
<1>4. Len(<< >>) = 0
  BY EmptySeq
<1> DEFINE none == << >>
           zero == 0
<1>5. Arrived(none, none) /\ Moving(zero, none, zero) /\ Len(none) + Len(none) = zero
  BY <1>4 DEF Arrived, Moving
<1>6. Queue(state) = none /\ Started(state) /\ seen["parent"] = none /\ sent["parent"] = zero
      /\ state.jobs["main"] = none
  BY <1>1, <1>2, <1>3 DEF Queue, Started
<1> HIDE DEF none, zero
<1> QED
  BY <1>5, <1>6 DEF Mail, Mailed

(* Every step keeps the messages in their order.                           *)
LEMMA NextMail == Inv /\ Mail /\ [Next]_vars => Mail'
<1> SUFFICES ASSUME Inv, Mail, [Next]_vars PROVE Mail'
  OBVIOUS
<1>1. CASE UNCHANGED vars
  BY <1>1, StillMail DEF vars, channel
<1>2. ASSUME NEW t \in Calls, TermCheck(t) \/ Terminate(t) PROVE Mail'
  BY <1>2, TerminateMail
<1> QED
  BY <1>1, <1>2, MainJobMail, WorkerJobMail, ScriptMail, EmitMail DEF Next

(* The messages of the worker are delivered, in the queue of the Worker's   *)
(* port or in jobs of the parent, in this order.                           *)
THEOREM MailInvariance == Spec => [](Inv /\ Mail)
<1>1. Inv /\ Mail /\ [Next]_vars => (Inv /\ Mail)'
  BY NextInv, NextMail
<1> QED
  BY InitInv, InitMail, <1>1, PTL DEF Spec

(* What the worker posts reaches its parent complete and in order, whatever *)
(* terminate(), process.exit() and emitExit() close meanwhile.             *)
THEOREM PostsArriveHolds == Spec => []PostsArrive
<1>1. ASSUME Inv, Mail PROVE PostsArrive
  <2> DEFINE got == seen["parent"]
             q == port["parent"].m_queue
             js == jobs["main"]
             S == {k \in 1..Len(js) : js[k].kind = "enqueue"}
             n == sent["parent"]
  <2>1. Queue(state) = q /\ state.jobs = jobs
    BY <1>1, Parts DEF Queue
  <2>2. Arrived(got, q) /\ Moving(Len(got) + Len(q), js, n)
    BY <1>1, <2>1 DEF Mail, Mailed
  <2> HIDE DEF got, q, js, n
  <2>3. {js[k].msg : k \in S} = (Len(got) + Len(q) + 1)..n
    BY <2>2 DEF Moving
  <2>4. \A k, l \in S : k < l => js[k].msg < js[l].msg
    BY <2>2 DEF Moving
  <2> QED
    BY <2>2, <2>3, <2>4 DEF PostsArrive, Arrived, got, q, js, n
<1> QED
  BY <1>1, MailInvariance, PTL
=============================================================================
