---------------------------- MODULE AsyncIOProofs ----------------------------
(***************************************************************************)
(* Proofs, for any number of operations, timeouts, aborts and closes, that  *)
(* the operations m_RecvOpt and m_SendOpt point to are alive and own the    *)
(* lock of their direction, that an operation ends once (up to the two      *)
(* windows EndsOnce names), and that an abort spares later operations.      *)
(***************************************************************************)
EXTENDS AsyncIO, FiniteSetTheorems, SequenceTheorems, TLAPS

(* Task t of operation o is in the list q of the loop thread.              *)
In(q, t, o) == \E i \in 1..Len(q) : q[i] = Task(t, o)

(* What the loop thread has begun comes before the events.                 *)
BegunFirst(q) ==
    \A i, j \in 1..Len(q) : i < j /\ q[j].t \notin Events => q[i].t \notin Events

(* What it has begun concerns each direction once.                         *)
Apart(q) ==
    \A i, j \in 1..Len(q) :
        i < j /\ q[i].t \notin Events /\ q[j].t \notin Events /\ q[i].x # None /\ q[j].x # None
          => Dir(q[i].x) # Dir(q[j].x)

(* An operation is posted once.                                            *)
StartedOnce(q) ==
    \A i, j \in 1..Len(q) : q[i] = q[j] /\ q[i].t = "start" => i = j

List(q) == q \in Seq(Tasks) /\ BegunFirst(q) /\ Apart(q) /\ StartedOnce(q)

(* Operation o was posted, and an abort behind it.                         *)
AbortBehind(q, o) ==
    \E i, j \in 1..Len(q) : i < j /\ q[i] = Task("start", o) /\ q[j] = Task("abort", None)

(* Operation o is in the queue w of a lock, and nothing is there twice.     *)
Waits(w, o) == \E k \in 1..Len(w) : w[k] = o
NoneTwice(w) == \A k, l \in 1..Len(w) : w[k] = w[l] => k = l

(* The owner of a lock has got it and its waiters have not; what was posted *)
(* to the loop owns its lock, unless an abort has ended it.                *)
Locks(q) ==
    /\ \A d \in Dirs :
          /\ owner[d] # None => Dir(owner[d]) = d /\ at[owner[d]] \notin {"new", "built"}
          /\ NoneTwice(waiters[d])
          /\ \A o \in Ops : Waits(waiters[d], o) =>
                Dir(o) = d /\ at[o] = "pending" /\ owner[d] # o /\ ~In(q, "start", o)
    /\ \A o \in Ops :
          /\ at[o] = "trying" => owner[Dir(o)] = o /\ ~In(q, "start", o)
          /\ In(q, "start", o) =>
                \/ at[o] = "pending" /\ owner[Dir(o)] = o /\ ~m_watching[o]
                \/ at[o] = "destroyed" /\ result[o] = "abort"

(* What the loop thread owes an operation, it owes a current one.           *)
Opts(q) ==
    /\ \A d \in Dirs : m_opt[d] # None => owner[d] = m_opt[d] /\ at[m_opt[d]] = "pending"
    /\ \A o \in Ops :
          /\ m_watching[o] => m_opt[Dir(o)] = o
          /\ In(q, "after", o) => m_opt[Dir(o)] = o /\ ~m_watching[o] /\ ~In(q, "start", o)
          /\ In(q, "unwatch", o) => m_watching[o]
          /\ In(q, "stop", o) => m_opt[Dir(o)] = o

(* A timer that has not been cancelled belongs to an operation that lives.  *)
Timeouts(q) ==
    \A o \in Ops :
        /\ at[o] = "new" => timer[o] = "off"
        /\ at[o] = "destroyed" => timer[o] \in {"off", "cancelled"}
        /\ In(q, "cancel", o) => timer[o] \in {"fired", "cancelled"}
        /\ In(q, "timeout", o) => at[o] # "new" /\ (at[o] = "destroyed" => o \in onCaller)

(* The abort()s that have returned.                                        *)
Returned == m_abort_version - aborting

(* An operation that an abort may end is older than that abort().          *)
Aborts(q) ==
    /\ aborting <= m_abort_version
    /\ \A o \in Ops :
          /\ at[o] \notin {"new", "destroyed"} =>
                born[o] <= version[o] /\ version[o] <= m_abort_version /\ born[o] <= Returned
          /\ In(q, "abort", None) /\ m_opt[Dir(o)] = o => born[o] < Returned
          /\ AbortBehind(q, o) /\ at[o] # "destroyed" => born[o] < Returned
          /\ In(q, "stop", o) => born[o] < Returned

(* Every close() that was called is answered or in the list.               *)
Closing(q) == {i \in 1..Len(q) : q[i].t \in {"close", "closed"}}
Closes(q) == closed + Cardinality(Closing(q)) = closes

Typed ==
    /\ [kind |-> kind, timed |-> timed, aborts |-> maxAborts] \in Plans
    /\ m_fd \in {"open", "INVALID_SOCKET"}
    /\ m_abort_version \in Nat
    /\ owner \in [Dirs -> Ops \cup {None}] /\ waiters \in [Dirs -> Seq(Ops)]
    /\ m_opt \in [Dirs -> Ops \cup {None}]
    /\ at \in [Ops -> {"new", "built", "trying", "pending", "destroyed"}]
    /\ version \in [Ops -> Nat] /\ born \in [Ops -> Nat]
    /\ m_watching \in [Ops -> BOOLEAN] /\ m_timedout \in [Ops -> BOOLEAN]
    /\ timer \in [Ops -> {"off", "armed", "fired", "cancelled"}]
    /\ result \in [Ops -> {"none", "final", "timeout", "abort", "closed", "invalid_call"}]
    /\ aborting \in Nat /\ undefined \in BOOLEAN
    /\ closes \in 0..MaxCloses /\ closed \in Nat /\ onCaller \subseteq Ops

LInv(q) == List(q) /\ Locks(q) /\ Opts(q) /\ Timeouts(q) /\ Aborts(q)
Inv == Typed /\ LInv(s_evWait) /\ Closes(s_evWait)

-----------------------------------------------------------------------------
(* A task is the pair of its two fields.                                    *)
LEMMA TaskFields ==
    ASSUME NEW e \in Tasks
    PROVE  e = Task(e.t, e.x) /\ (e.x = None <=> e.t \in {"close", "closed", "abort"})
  BY NoneAssumption DEF Tasks, Task

(* evAsyncEvent::post(): an event comes last.                              *)
LEMMA ListPost ==
    ASSUME NEW q, List(q), NEW t \in Events, NEW x, Task(t, x) \in Tasks,
           t = "start" => ~In(q, "start", x), NEW p, p = Post(q, Task(t, x))
    PROVE  /\ List(p)
           /\ \A s, o : In(p, s, o) <=> In(q, s, o) \/ (s = t /\ o = x)
           /\ \A o : AbortBehind(p, o) => AbortBehind(q, o) \/ (t = "abort" /\ In(q, "start", o))
<1> DEFINE e == Task(t, x)
<1>1. q \in Seq(Tasks) /\ e \in Tasks /\ p = Append(q, e) /\ e.t = t /\ e.x = x
  BY DEF List, Post, Task
<1> HIDE DEF e
<1>2. /\ p \in Seq(Tasks) /\ Len(p) = Len(q) + 1 /\ p[Len(q) + 1] = e
      /\ \A i \in 1..Len(q) : p[i] = q[i]
      /\ Len(q) \in Nat
  BY <1>1
<1>3. \A s, o : In(p, s, o) <=> In(q, s, o) \/ (s = t /\ o = x)
  <2>1. ASSUME NEW s, NEW o, In(p, s, o) PROVE In(q, s, o) \/ (s = t /\ o = x)
    BY <1>1, <1>2, <2>1 DEF In, Task
  <2>2. ASSUME NEW s, NEW o, In(q, s, o) \/ (s = t /\ o = x) PROVE In(p, s, o)
    BY <1>1, <1>2, <2>2 DEF In, Task, e
  <2> QED
    BY <2>1, <2>2
<1>4. BegunFirst(p)
  BY <1>1, <1>2 DEF List, BegunFirst
<1>5. Apart(p)
  <2> SUFFICES ASSUME NEW i \in 1..Len(p), NEW j \in 1..Len(p), i < j, p[i].t \notin Events,
                      p[j].t \notin Events, p[i].x # None, p[j].x # None
               PROVE  Dir(p[i].x) # Dir(p[j].x)
    BY DEF Apart
  <2>1. j # Len(q) + 1
    BY <1>1, <1>2
  <2>2. i \in 1..Len(q) /\ j \in 1..Len(q)
    BY <2>1, <1>2
  <2> QED
    BY <2>2, <1>2 DEF List, Apart
<1>6. StartedOnce(p)
  <2> SUFFICES ASSUME NEW i \in 1..Len(p), NEW j \in 1..Len(p), p[i] = p[j], p[i].t = "start", i < j
               PROVE  FALSE
    BY <1>2 DEF StartedOnce
  <2>1. CASE j \in 1..Len(q)
    BY <2>1, <1>2 DEF List, StartedOnce
  <2>2. CASE j = Len(q) + 1
    BY <2>2, <1>1, <1>2 DEF In, e
  <2> QED
    BY <2>1, <2>2, <1>2
<1>7. ASSUME NEW o, AbortBehind(p, o) PROVE AbortBehind(q, o) \/ (t = "abort" /\ In(q, "start", o))
  BY <1>1, <1>2, <1>7 DEF AbortBehind, In, Task
<1> QED
  BY <1>2, <1>3, <1>4, <1>5, <1>6, <1>7 DEF List

(* The loop thread takes the first task.                                   *)
LEMMA ListTail ==
    ASSUME NEW q, List(q), q # << >>, NEW e, e = Head(q), NEW p, p = Tail(q)
    PROVE  /\ List(p) /\ e \in Tasks
           /\ \A s, o : In(p, s, o) => In(q, s, o)
           /\ In(q, e.t, e.x)
           /\ e.t = "start" => ~In(p, "start", e.x)
           /\ \A s, o : In(p, s, o) /\ s \notin Events =>
                 e.t \notin Events /\ (o # None /\ e.x # None => Dir(o) # Dir(e.x))
           /\ \A o : AbortBehind(p, o) => AbortBehind(q, o)
           /\ e.t = "start" /\ In(p, "abort", None) => AbortBehind(q, e.x)
<1>1. q \in Seq(Tasks)
  BY DEF List
<1>2. /\ p \in Seq(Tasks) /\ Len(p) = Len(q) - 1 /\ e \in Tasks /\ q[1] = e
      /\ \A i \in 1..Len(p) : p[i] = q[i + 1]
      /\ Len(q) \in Nat /\ Len(q) >= 1
  BY <1>1
<1>3. e = Task(e.t, e.x)
  BY <1>2, TaskFields
<1>4. BegunFirst(p) /\ Apart(p)
  BY <1>2 DEF List, BegunFirst, Apart
<1>5. StartedOnce(p)
  BY <1>2 DEF List, StartedOnce
<1>6. ASSUME NEW s, NEW o, In(p, s, o) PROVE In(q, s, o)
  BY <1>2, <1>6 DEF In
<1>7. In(q, e.t, e.x)
  BY <1>2, <1>3 DEF In
<1>8. ASSUME e.t = "start", In(p, "start", e.x) PROVE FALSE
  <2>1. PICK i \in 1..Len(p) : p[i] = Task("start", e.x)
    BY <1>8 DEF In
  <2> QED
    BY <2>1, <1>2, <1>3, <1>8 DEF List, StartedOnce
<1>9. ASSUME NEW s, NEW o, In(p, s, o), s \notin Events
      PROVE  e.t \notin Events /\ (o # None /\ e.x # None => Dir(o) # Dir(e.x))
  <2>1. PICK i \in 1..Len(p) : p[i] = Task(s, o)
    BY <1>9 DEF In
  <2>2. i + 1 \in 1..Len(q) /\ 1 \in 1..Len(q) /\ 1 < i + 1 /\ q[i + 1] = Task(s, o)
    BY <2>1, <1>2
  <2>3. q[i + 1].t = s /\ q[i + 1].x = o
    BY <2>2 DEF Task
  <2>4. e.t \notin Events
    BY <2>2, <2>3, <1>2, <1>9 DEF List, BegunFirst
  <2> QED
    BY <2>2, <2>3, <2>4, <1>2, <1>9 DEF List, Apart
<1>10. ASSUME NEW o, AbortBehind(p, o) PROVE AbortBehind(q, o)
  <2>1. PICK i \in 1..Len(p), j \in 1..Len(p) :
           i < j /\ p[i] = Task("start", o) /\ p[j] = Task("abort", None)
    BY <1>10 DEF AbortBehind
  <2>2. i + 1 \in 1..Len(q) /\ j + 1 \in 1..Len(q) /\ i + 1 < j + 1
    BY <2>1, <1>2
  <2> QED
    BY <2>1, <2>2, <1>2 DEF AbortBehind
<1>11. ASSUME e.t = "start", In(p, "abort", None) PROVE AbortBehind(q, e.x)
  <2>1. PICK i \in 1..Len(p) : p[i] = Task("abort", None)
    BY <1>11 DEF In
  <2>2. i + 1 \in 1..Len(q) /\ 1 \in 1..Len(q) /\ 1 < i + 1
    BY <1>2
  <2> QED
    BY <2>1, <2>2, <1>2, <1>3, <1>11 DEF AbortBehind
<1> QED
  BY <1>2, <1>4, <1>5, <1>6, <1>7, <1>8, <1>9, <1>10, <1>11 DEF List

(* The loop thread has more to do for the event it is running.             *)
LEMMA ListConcat ==
    ASSUME NEW q, List(q), NEW t, t \notin Events, NEW x, Task(t, x) \in Tasks,
           \A s, o : In(q, s, o) /\ s \notin Events => x = None \/ o = None \/ Dir(o) # Dir(x),
           NEW p, p = <<Task(t, x)>> \o q
    PROVE  /\ List(p)
           /\ \A s, o : In(p, s, o) <=> In(q, s, o) \/ (s = t /\ o = x)
           /\ \A o : AbortBehind(p, o) => AbortBehind(q, o)
<1> DEFINE e == Task(t, x)
<1>1. q \in Seq(Tasks) /\ e \in Tasks /\ p = <<e>> \o q /\ e.t = t /\ e.x = x
  BY DEF List, Task
<1> HIDE DEF e
<1>2. /\ p \in Seq(Tasks) /\ Len(p) = Len(q) + 1 /\ p[1] = e
      /\ \A i \in 1..Len(q) : p[i + 1] = q[i]
      /\ Len(q) \in Nat
  BY <1>1
<1>3. \A i \in 1..Len(p) : i # 1 => i - 1 \in 1..Len(q) /\ p[i] = q[i - 1]
  BY <1>2
<1>4. \A i \in 1..Len(q) : q[i] = Task(q[i].t, q[i].x)
  BY <1>1, TaskFields
<1>5. \A s, o : In(p, s, o) <=> In(q, s, o) \/ (s = t /\ o = x)
  <2>1. ASSUME NEW s, NEW o, In(p, s, o) PROVE In(q, s, o) \/ (s = t /\ o = x)
    BY <1>1, <1>2, <1>3, <2>1 DEF In, Task
  <2>2. ASSUME NEW s, NEW o, In(q, s, o) \/ (s = t /\ o = x) PROVE In(p, s, o)
    BY <1>1, <1>2, <2>2 DEF In, Task, e
  <2> QED
    BY <2>1, <2>2
<1>6. BegunFirst(p)
  <2> SUFFICES ASSUME NEW i \in 1..Len(p), NEW j \in 1..Len(p), i < j, p[j].t \notin Events
               PROVE  p[i].t \notin Events
    BY DEF BegunFirst
  <2>1. CASE i = 1
    BY <2>1, <1>1, <1>2
  <2>2. CASE i # 1
    <3>1. i - 1 \in 1..Len(q) /\ j - 1 \in 1..Len(q) /\ p[i] = q[i - 1] /\ p[j] = q[j - 1]
      BY <2>2, <1>2, <1>3
    <3> QED
      BY <3>1, <2>2 DEF List, BegunFirst
  <2> QED
    BY <2>1, <2>2
<1>7. Apart(p)
  <2> SUFFICES ASSUME NEW i \in 1..Len(p), NEW j \in 1..Len(p), i < j, p[i].t \notin Events,
                      p[j].t \notin Events, p[i].x # None, p[j].x # None
               PROVE  Dir(p[i].x) # Dir(p[j].x)
    BY DEF Apart
  <2>1. CASE i = 1
    <3>1. j - 1 \in 1..Len(q) /\ p[j] = q[j - 1]
      BY <2>1, <1>3
    <3>2. In(q, p[j].t, p[j].x)
      BY <3>1, <1>4 DEF In
    <3> QED
      BY <3>2, <2>1, <1>1, <1>2
  <2>2. CASE i # 1
    BY <2>2, <1>3 DEF List, Apart
  <2> QED
    BY <2>1, <2>2
<1>8. StartedOnce(p)
  <2> SUFFICES ASSUME NEW i \in 1..Len(p), NEW j \in 1..Len(p), p[i] = p[j], p[i].t = "start", i < j
               PROVE  FALSE
    BY <1>2 DEF StartedOnce
  <2>1. i # 1
    BY <1>1, <1>2 DEF Events
  <2>2. i - 1 \in 1..Len(q) /\ j - 1 \in 1..Len(q) /\ p[i] = q[i - 1] /\ p[j] = q[j - 1]
    BY <2>1, <1>2, <1>3
  <2> QED
    BY <2>2 DEF List, StartedOnce
<1>9. ASSUME NEW o, AbortBehind(p, o) PROVE AbortBehind(q, o)
  <2>1. PICK i \in 1..Len(p), j \in 1..Len(p) :
           i < j /\ p[i] = Task("start", o) /\ p[j] = Task("abort", None)
    BY <1>9 DEF AbortBehind
  <2>2. i # 1
    BY <2>1, <1>1, <1>2 DEF Task, Events
  <2> QED
    BY <2>1, <2>2, <1>3 DEF AbortBehind
<1> QED
  BY <1>2, <1>5, <1>6, <1>7, <1>8, <1>9 DEF List

Push(q, e) == <<e>> \o q

(* The same of Push.                                                      *)
LEMMA ListPush ==
    ASSUME NEW q, List(q), NEW t, t \notin Events, NEW x, Task(t, x) \in Tasks,
           \A s, o : In(q, s, o) /\ s \notin Events => x = None \/ o = None \/ Dir(o) # Dir(x),
           NEW p, p = Push(q, Task(t, x))
    PROVE  /\ List(p)
           /\ \A s, o : In(p, s, o) <=> In(q, s, o) \/ (s = t /\ o = x)
           /\ \A o : AbortBehind(p, o) => AbortBehind(q, o)
<1>1. p = <<Task(t, x)>> \o q
  BY DEF Push
<1> QED
  BY <1>1, ListConcat, Zenon

(* Locker: an operation joins the queue, or the first one leaves it.        *)
LEMMA QueueAppend ==
    ASSUME NEW w \in Seq(Ops), NoneTwice(w), NEW x \in Ops, ~Waits(w, x),
           NEW v, v = Append(w, x)
    PROVE  /\ v \in Seq(Ops) /\ NoneTwice(v)
           /\ \A o : Waits(v, o) <=> Waits(w, o) \/ o = x
<1>1. /\ v \in Seq(Ops) /\ Len(v) = Len(w) + 1 /\ v[Len(w) + 1] = x
      /\ \A i \in 1..Len(w) : v[i] = w[i]
      /\ Len(w) \in Nat
  OBVIOUS
<1>2. \A o : Waits(v, o) <=> Waits(w, o) \/ o = x
  <2>1. ASSUME NEW o, Waits(v, o) PROVE Waits(w, o) \/ o = x
    BY <1>1, <2>1 DEF Waits
  <2>2. ASSUME NEW o, Waits(w, o) \/ o = x PROVE Waits(v, o)
    BY <1>1, <2>2 DEF Waits
  <2> QED
    BY <2>1, <2>2
<1>3. NoneTwice(v)
  BY <1>1 DEF NoneTwice, Waits
<1> QED
  BY <1>1, <1>2, <1>3

(* The next owner of a lock leaves the queue of its waiters.               *)
LEMMA QueueTail ==
    ASSUME NEW w \in Seq(Ops), NoneTwice(w), w # << >>, NEW v, v = Tail(w)
    PROVE  /\ v \in Seq(Ops) /\ NoneTwice(v)
           /\ Head(w) \in Ops /\ Waits(w, Head(w)) /\ ~Waits(v, Head(w))
           /\ \A o : Waits(v, o) => Waits(w, o)
<1>1. /\ v \in Seq(Ops) /\ Len(v) = Len(w) - 1 /\ Head(w) = w[1] /\ Head(w) \in Ops
      /\ \A i \in 1..Len(v) : v[i] = w[i + 1]
      /\ Len(w) \in Nat /\ Len(w) >= 1
  OBVIOUS
<1>2. NoneTwice(v)
  BY <1>1 DEF NoneTwice
<1>3. ASSUME Waits(v, Head(w)) PROVE FALSE
  BY <1>1, <1>3 DEF NoneTwice, Waits
<1>4. ASSUME NEW o, Waits(v, o) PROVE Waits(w, o)
  <2>1. PICK i \in 1..Len(v) : v[i] = o
    BY <1>4 DEF Waits
  <2>2. i + 1 \in 1..Len(w) /\ w[i + 1] = o
    BY <2>1, <1>1
  <2> QED
    BY <2>2 DEF Waits
<1> QED
  BY <1>1, <1>2, <1>3, <1>4 DEF Waits

-----------------------------------------------------------------------------
(* How many close()s wait for their answer, after a post, when a task is     *)
(* taken and when one is put first.                                        *)
LEMMA ClosingFinite ==
    ASSUME NEW q \in Seq(Tasks)
    PROVE  IsFiniteSet(Closing(q)) /\ Cardinality(Closing(q)) \in Nat
<1>1. Closing(q) \subseteq 1..Len(q) /\ Len(q) \in Nat
  BY DEF Closing
<1>2. IsFiniteSet(1..Len(q))
  BY <1>1, FS_Interval
<1> QED
  BY <1>1, <1>2, FS_Subset, FS_CardinalityType

(* Posting an event counts if it is a close.                               *)
LEMMA ClosingPost ==
    ASSUME NEW q \in Seq(Tasks), NEW e \in Tasks
    PROVE  Cardinality(Closing(Append(q, e))) =
             Cardinality(Closing(q)) + IF e.t \in {"close", "closed"} THEN 1 ELSE 0
<1> DEFINE p == Append(q, e)
<1>1. /\ p \in Seq(Tasks) /\ Len(p) = Len(q) + 1 /\ p[Len(q) + 1] = e
      /\ \A i \in 1..Len(q) : p[i] = q[i]
      /\ Len(q) \in Nat
  OBVIOUS
<1> HIDE DEF p
<1>2. CASE e.t \in {"close", "closed"}
  <2>1. Closing(p) = Closing(q) \cup {Len(q) + 1}
    BY <1>1, <1>2 DEF Closing
  <2>2. Len(q) + 1 \notin Closing(q)
    BY <1>1 DEF Closing
  <2> QED
    BY <2>1, <2>2, <1>2, ClosingFinite, FS_AddElement DEF p
<1>3. CASE e.t \notin {"close", "closed"}
  <2>1. Closing(p) = Closing(q)
    BY <1>1, <1>3 DEF Closing
  <2> QED
    BY <2>1, <1>3, ClosingFinite DEF p
<1> QED
  BY <1>2, <1>3

(* So does taking the first task off the list,                             *)
LEMMA ClosingTail ==
    ASSUME NEW q \in Seq(Tasks), q # << >>
    PROVE  Cardinality(Closing(q)) =
             Cardinality(Closing(Tail(q))) + IF Head(q).t \in {"close", "closed"} THEN 1 ELSE 0
<1> DEFINE p == Tail(q)
           R == {i \in Closing(q) : i # 1}
           f == [i \in Closing(p) |-> i + 1]
<1>1. /\ p \in Seq(Tasks) /\ Len(p) = Len(q) - 1 /\ q[1] = Head(q)
      /\ \A i \in 1..Len(p) : p[i] = q[i + 1]
      /\ Len(q) \in Nat /\ Len(q) >= 1
  OBVIOUS
<1> HIDE DEF p
<1>2. f \in Bijection(Closing(p), R)
  <2>1. \A i \in Closing(p) : i \in Int /\ f[i] \in R
    BY <1>1 DEF Closing
  <2>2. \A i, j \in Closing(p) : f[i] = f[j] => i = j
    BY <2>1
  <2>3. \A j \in R : j - 1 \in Closing(p) /\ f[j - 1] = j
    BY <1>1 DEF Closing
  <2>4. f \in [Closing(p) -> R]
    BY <2>1
  <2> HIDE DEF f, R
  <2> QED
    BY <2>2, <2>3, <2>4 DEF Bijection, Injection, Surjection, IsInjective
<1>3. Cardinality(R) = Cardinality(Closing(p)) /\ IsFiniteSet(R)
  <2>1. ExistsBijection(Closing(p), R)
    BY <1>2 DEF ExistsBijection
  <2> HIDE DEF R
  <2> QED
    BY <2>1, <1>1, ClosingFinite, FS_Bijection
<1>4. CASE Head(q).t \in {"close", "closed"}
  <2>1. Closing(q) = R \cup {1} /\ 1 \notin R
    BY <1>1, <1>4 DEF Closing
  <2> HIDE DEF R
  <2> QED
    BY <2>1, <1>3, <1>4, FS_AddElement DEF p
<1>5. CASE Head(q).t \notin {"close", "closed"}
  <2>1. Closing(q) = R
    BY <1>1, <1>5 DEF Closing
  <2> HIDE DEF R
  <2> QED
    BY <2>1, <1>1, <1>3, <1>5, ClosingFinite DEF p
<1> QED
  BY <1>4, <1>5

(* and putting one in front of it.                                         *)
LEMMA ClosingPush ==
    ASSUME NEW q \in Seq(Tasks), NEW e \in Tasks
    PROVE  Cardinality(Closing(Push(q, e))) =
             Cardinality(Closing(q)) + IF e.t \in {"close", "closed"} THEN 1 ELSE 0
<1>1. <<e>> \o q \in Seq(Tasks) /\ <<e>> \o q # << >> /\ Head(<<e>> \o q) = e
  OBVIOUS
<1>2. Tail(<<e>> \o q) = q
  OBVIOUS
<1> QED
  BY <1>1, <1>2, ClosingTail DEF Push

-----------------------------------------------------------------------------
(* An operation receives or sends.                                         *)
LEMMA DirType == ASSUME NEW o PROVE Dir(o) \in Dirs
  BY DEF Dir, Dirs

(* No step changes what an operation is, nor therefore its direction.      *)
LEMMA Primed ==
    ASSUME kind' = kind
    PROVE  /\ \A o : Dir(o)' = Dir(o)
           /\ List(s_evWait') => List(s_evWait)'
<1>1. \A o : Dir(o)' = Dir(o)
  BY DEF Dir
<1>2. Apart(s_evWait') => Apart(s_evWait)'
  BY <1>1 DEF Apart
<1> QED
  BY <1>1, <1>2 DEF List, BegunFirst, StartedOnce

(* A list with less in it satisfies the same.                              *)
LEMMA Fewer ==
    ASSUME NEW p, NEW q, LInv(p), List(q),
           \A s, o : In(q, s, o) => In(p, s, o),
           \A o : AbortBehind(q, o) => AbortBehind(p, o)
    PROVE  LInv(q)
<1>1. Locks(q)
  BY DEF LInv, Locks
<1>2. Opts(q)
  BY DEF LInv, Opts
<1>3. Timeouts(q)
  BY Zenon DEF LInv, Timeouts
<1>4. Aborts(q)
  BY DEF LInv, Aborts
<1> QED
  BY <1>1, <1>2, <1>3, <1>4 DEF LInv

(* So does what is left when the loop thread has taken a task.             *)
LEMMA Taken ==
    ASSUME LInv(s_evWait), s_evWait # << >>
    PROVE  LInv(Tail(s_evWait))
<1>1. /\ List(Tail(s_evWait))
      /\ \A s, o : In(Tail(s_evWait), s, o) => In(s_evWait, s, o)
      /\ \A o : AbortBehind(Tail(s_evWait), o) => AbortBehind(s_evWait, o)
  BY ListTail DEF LInv
<1> QED
  BY <1>1, Fewer

(* Locker::unlock() by the owner: the first waiter, which the loop does not  *)
(* know yet, becomes the owner.                                            *)
LEMMA UnlockGives ==
    ASSUME NEW q, Typed, LInv(q), NEW d \in Dirs, Unlock(d, q)
    PROVE  /\ List(s_evWait')
           /\ owner' \in [Dirs -> Ops \cup {None}] /\ waiters' \in [Dirs -> Seq(Ops)]
           /\ owner' = [owner EXCEPT ![d] = owner'[d]]
           /\ owner'[d] # None => owner'[d] \in Ops /\ Waits(waiters[d], owner'[d])
           /\ \A e \in Dirs : NoneTwice(waiters'[e])
           /\ \A e \in Dirs : e # d => waiters'[e] = waiters[e]
           /\ \A o : Waits(waiters'[d], o) => Waits(waiters[d], o) /\ o # owner'[d]
           /\ \A s, o : In(s_evWait', s, o) <=>
                 In(q, s, o) \/ (s = "start" /\ o = owner'[d] /\ o # None)
           /\ \A o : AbortBehind(s_evWait', o) => AbortBehind(q, o)
           /\ Cardinality(Closing(s_evWait')) = Cardinality(Closing(q))
<1>0. List(q) /\ q \in Seq(Tasks) /\ waiters[d] \in Seq(Ops) /\ NoneTwice(waiters[d])
  BY DEF LInv, Locks, List, Typed
<1>1. CASE waiters[d] = << >>
  <2>1. owner' = [owner EXCEPT ![d] = None] /\ s_evWait' = q /\ waiters' = waiters
    BY <1>1 DEF Unlock
  <2>2. \A o : ~Waits(waiters[d], o)
    BY <1>1 DEF Waits
  <2> QED
    BY <1>0, <2>1, <2>2 DEF Typed, LInv, Locks
<1>2. CASE waiters[d] # << >>
  <2> DEFINE w == Head(waiters[d])
  <2>1. /\ owner' = [owner EXCEPT ![d] = w]
        /\ waiters' = [waiters EXCEPT ![d] = Tail(waiters[d])]
        /\ s_evWait' = Post(q, Task("start", w))
    BY <1>2 DEF Unlock
  <2>2. /\ Tail(waiters[d]) \in Seq(Ops) /\ NoneTwice(Tail(waiters[d]))
        /\ w \in Ops /\ Waits(waiters[d], w) /\ ~Waits(Tail(waiters[d]), w)
        /\ \A o : Waits(Tail(waiters[d]), o) => Waits(waiters[d], o)
    BY <1>0, <1>2, QueueTail
  <2> HIDE DEF w
  <2>3. ~In(q, "start", w)
    BY <2>2 DEF LInv, Locks
  <2>4. Task("start", w) \in Tasks /\ Task("start", w).t = "start"
    BY <2>2 DEF Task, Tasks
  <2>5. /\ List(s_evWait')
        /\ \A s, o : In(s_evWait', s, o) <=> In(q, s, o) \/ (s = "start" /\ o = w)
        /\ \A o : AbortBehind(s_evWait', o) =>
              AbortBehind(q, o) \/ ("start" = "abort" /\ In(q, "start", o))
    BY <1>0, <2>1, <2>3, <2>4, ListPost DEF Events
  <2>6. Cardinality(Closing(s_evWait')) = Cardinality(Closing(q))
    BY <1>0, <2>1, <2>4, ClosingPost, ClosingFinite DEF Post
  <2>7. owner'[d] = w /\ w # None /\ owner' \in [Dirs -> Ops \cup {None}]
    BY <2>1, <2>2, NoneAssumption DEF Typed
  <2>8. /\ waiters' \in [Dirs -> Seq(Ops)] /\ waiters'[d] = Tail(waiters[d])
        /\ \A e \in Dirs : e # d => waiters'[e] = waiters[e]
    BY <2>1, <2>2 DEF Typed
  <2>9. \A e \in Dirs : NoneTwice(waiters'[e])
    BY <2>2, <2>8 DEF LInv, Locks
  <2> QED
    BY <2>1, <2>2, <2>5, <2>6, <2>7, <2>8, <2>9
<1> QED
  BY <1>1, <1>2

Results == {"none", "final", "timeout", "abort", "closed", "invalid_call"}

(* complete(), and the end of an operation in request(): its task in the     *)
(* loop, if any, is what an abort() inside on_watched() left there.         *)
LEMMA Ended ==
    ASSUME NEW q, Typed, LInv(q), NEW o \in Ops, NEW hr \in Results,
           owner[Dir(o)] = o, at[o] # "destroyed",
           ~In(q, "after", o), ~In(q, "unwatch", o), ~In(q, "stop", o),
           In(q, "start", o) => hr = "abort",
           In(q, "timeout", o) => o \in onCaller',
           m_opt' = [m_opt EXCEPT ![Dir(o)] = None],
           m_watching' = [m_watching EXCEPT ![o] = FALSE],
           CancelTimer(o), Unlock(Dir(o), q), Destroy(o, hr),
           kind' = kind, timed' = timed, maxAborts' = maxAborts,
           m_fd' = m_fd, calls' = calls, closed' = closed, undefined' = undefined,
           onCaller \subseteq onCaller', onCaller' \subseteq Ops
    PROVE  Typed' /\ LInv(s_evWait)' /\ Cardinality(Closing(s_evWait')) = Cardinality(Closing(q))
<1> DEFINE d == Dir(o)
           w == owner'[d]
<1>d. d \in Dirs /\ \A x : Dir(x) \in Dirs
  BY DirType
<1>1. /\ List(s_evWait')
      /\ owner' \in [Dirs -> Ops \cup {None}] /\ waiters' \in [Dirs -> Seq(Ops)]
      /\ owner' = [owner EXCEPT ![d] = w]
      /\ w # None => w \in Ops /\ Waits(waiters[d], w)
      /\ \A e \in Dirs : NoneTwice(waiters'[e])
      /\ \A e \in Dirs : e # d => waiters'[e] = waiters[e]
      /\ \A x : Waits(waiters'[d], x) => Waits(waiters[d], x) /\ x # w
      /\ \A s, x : In(s_evWait', s, x) <=> In(q, s, x) \/ (s = "start" /\ x = w /\ x # None)
      /\ \A x : AbortBehind(s_evWait', x) => AbortBehind(q, x)
      /\ Cardinality(Closing(s_evWait')) = Cardinality(Closing(q))
  BY <1>d, UnlockGives
<1>2. /\ at' = [at EXCEPT ![o] = "destroyed"] /\ result' = [result EXCEPT ![o] = hr]
      /\ version' = [version EXCEPT ![o] = 0] /\ born' = [born EXCEPT ![o] = 0]
      /\ m_timedout' = [m_timedout EXCEPT ![o] = FALSE]
  BY DEF Destroy
<1>3. timer' = [timer EXCEPT ![o] = IF timer[o] = "off" THEN "off" ELSE "cancelled"]
  BY DEF CancelTimer, Typed
<1>4. \A x : Dir(x)' = Dir(x)
  BY Primed
<1>5. w # None => Dir(w) = d /\ at[w] = "pending" /\ w # o /\ ~In(q, "start", w)
  BY <1>1, <1>d DEF LInv, Locks
<1>6. m_abort_version' = m_abort_version /\ aborting' = aborting /\ closes' = closes
  BY DEF calls
<1> HIDE DEF d, w
<1>7. d = Dir(o)
  BY DEF d
<1>8. Typed'
  <2>1. /\ at' \in [Ops -> {"new", "built", "trying", "pending", "destroyed"}]
        /\ version' \in [Ops -> Nat] /\ born' \in [Ops -> Nat]
        /\ m_timedout' \in [Ops -> BOOLEAN] /\ result' \in [Ops -> Results]
    BY <1>2, BoundAssumption DEF Typed, Results
  <2>2. /\ m_opt' \in [Dirs -> Ops \cup {None}] /\ m_watching' \in [Ops -> BOOLEAN]
        /\ timer' \in [Ops -> {"off", "armed", "fired", "cancelled"}]
    BY <1>3 DEF Typed
  <2> QED
    BY <2>1, <2>2, <1>1, <1>6 DEF Typed, Results
<1>9. List(s_evWait)'
  BY <1>1, Primed
<1>10. Locks(s_evWait)'
  <2>1. ASSUME NEW e \in Dirs, owner'[e] # None
        PROVE  Dir(owner'[e]) = e /\ at'[owner'[e]] \notin {"new", "built"}
    <3>1. CASE e = d
      BY <3>1, <2>1, <1>1, <1>2, <1>5, <1>d DEF Typed
    <3>2. CASE e # d
      BY <3>2, <2>1, <1>1, <1>2, <1>d DEF Typed, LInv, Locks
    <3> QED
      BY <3>1, <3>2
  <2>2. ASSUME NEW e \in Dirs, NEW x \in Ops, Waits(waiters'[e], x)
        PROVE  Dir(x) = e /\ at'[x] = "pending" /\ owner'[e] # x /\ ~In(s_evWait', "start", x)
    <3>1. Waits(waiters[e], x)
      BY <2>2, <1>1
    <3>2. Dir(x) = e /\ at[x] = "pending" /\ owner[e] # x /\ ~In(q, "start", x)
      BY <3>1 DEF LInv, Locks
    <3>3. x # o
      BY <3>2, <1>7
    <3>4. x # w
      BY <3>2, <2>2, <1>1, <1>5, NoneAssumption
    <3> QED
      BY <3>2, <3>3, <3>4, <1>1, <1>2, <1>d DEF Typed
  <2>3. ASSUME NEW x \in Ops, at'[x] = "trying"
        PROVE  owner'[Dir(x)] = x /\ ~In(s_evWait', "start", x)
    <3>1. x # o /\ at[x] = "trying"
      BY <2>3, <1>2 DEF Typed
    <3>2. owner[Dir(x)] = x /\ ~In(q, "start", x)
      BY <3>1 DEF LInv, Locks
    <3>3. Dir(x) # d /\ x # w
      BY <3>1, <3>2, <1>7, <1>5, NoneAssumption
    <3> QED
      BY <3>2, <3>3, <1>1, <1>d DEF Typed
  <2>4. ASSUME NEW x \in Ops, In(s_evWait', "start", x)
        PROVE  \/ at'[x] = "pending" /\ owner'[Dir(x)] = x /\ ~m_watching'[x]
               \/ at'[x] = "destroyed" /\ result'[x] = "abort"
    <3>1. CASE x = o
      BY <3>1, <2>4, <1>1, <1>2, <1>5 DEF Typed
    <3>2. CASE x = w
      <4>1. x # None /\ x # o /\ Dir(x) = d /\ at[x] = "pending"
        BY <3>2, <1>5, NoneAssumption
      <4>2. ~m_watching[x]
        BY <4>1, <1>7, <1>d DEF LInv, Opts
      <4> QED
        BY <3>2, <4>1, <4>2, <1>1, <1>2, <1>d DEF Typed
    <3>3. CASE x # o /\ x # w
      <4>1. In(q, "start", x)
        BY <3>3, <2>4, <1>1
      <4>2. \/ at[x] = "pending" /\ owner[Dir(x)] = x /\ ~m_watching[x]
            \/ at[x] = "destroyed" /\ result[x] = "abort"
        BY <4>1 DEF LInv, Locks
      <4>3. owner[Dir(x)] = x => Dir(x) # d
        BY <3>3, <1>7
      <4> QED
        BY <3>3, <4>2, <4>3, <1>1, <1>2, <1>d DEF Typed
    <3> QED
      BY <3>1, <3>2, <3>3
  <2> QED
    BY <2>1, <2>2, <2>3, <2>4, <1>1, <1>4 DEF Locks
<1>11. \A x \in Ops : m_opt'[Dir(x)] = x <=> (m_opt[Dir(x)] = x /\ x # o)
  <2> SUFFICES ASSUME NEW x \in Ops PROVE m_opt'[Dir(x)] = x <=> (m_opt[Dir(x)] = x /\ x # o)
    OBVIOUS
  <2>1. CASE Dir(x) = d
    <3>1. m_opt'[Dir(x)] = None
      BY <2>1, <1>d, <1>7 DEF Typed
    <3>2. m_opt[Dir(x)] = x => x = o
      BY <2>1, <1>d, <1>7, NoneAssumption DEF LInv, Opts
    <3> QED
      BY <3>1, <3>2, NoneAssumption
  <2>2. CASE Dir(x) # d
    BY <2>2, <1>d, <1>7 DEF Typed
  <2> QED
    BY <2>1, <2>2
<1>12. Opts(s_evWait)'
  <2>1. ASSUME NEW e \in Dirs, m_opt'[e] # None
        PROVE  owner'[e] = m_opt'[e] /\ at'[m_opt'[e]] = "pending"
    <3>1. e # d /\ m_opt'[e] = m_opt[e]
      BY <2>1, <1>d, <1>7 DEF Typed
    <3>2. owner[e] = m_opt[e] /\ at[m_opt[e]] = "pending"
      BY <2>1, <3>1 DEF LInv, Opts
    <3>3. Dir(m_opt[e]) = e
      BY <2>1, <3>1, <3>2 DEF LInv, Locks
    <3> QED
      BY <3>1, <3>2, <3>3, <1>1, <1>2, <1>7, <1>d DEF Typed
  <2>2. ASSUME NEW x \in Ops, m_watching'[x] PROVE m_opt'[Dir(x)] = x
    <3>1. x # o /\ m_watching[x]
      BY <2>2 DEF Typed
    <3> QED
      BY <3>1, <1>11 DEF LInv, Opts
  <2>3. ASSUME NEW x \in Ops, In(s_evWait', "after", x)
        PROVE  m_opt'[Dir(x)] = x /\ ~m_watching'[x] /\ ~In(s_evWait', "start", x)
    <3>1. In(q, "after", x)
      BY <2>3, <1>1
    <3>2. x # o /\ m_opt[Dir(x)] = x /\ ~m_watching[x] /\ ~In(q, "start", x)
      BY <3>1 DEF LInv, Opts
    <3>3. x # w
      BY <3>2, <1>5, <1>7, <1>d, NoneAssumption DEF LInv, Opts
    <3> QED
      BY <3>2, <3>3, <1>1, <1>11 DEF Typed
  <2>4. ASSUME NEW x \in Ops, In(s_evWait', "unwatch", x) PROVE m_watching'[x]
    BY <2>4, <1>1 DEF LInv, Opts, Typed
  <2>5. ASSUME NEW x \in Ops, In(s_evWait', "stop", x) PROVE m_opt'[Dir(x)] = x
    BY <2>5, <1>1, <1>11 DEF LInv, Opts
  <2> QED
    BY <2>1, <2>2, <2>3, <2>4, <2>5, <1>4 DEF Opts
<1>13. Timeouts(s_evWait)'
  <2> SUFFICES ASSUME NEW x \in Ops
               PROVE  /\ at'[x] = "new" => timer'[x] = "off"
                      /\ at'[x] = "destroyed" => timer'[x] \in {"off", "cancelled"}
                      /\ In(s_evWait', "cancel", x) => timer'[x] \in {"fired", "cancelled"}
                      /\ In(s_evWait', "timeout", x) =>
                            at'[x] # "new" /\ (at'[x] = "destroyed" => x \in onCaller')
    BY DEF Timeouts
  <2>1. /\ In(s_evWait', "cancel", x) <=> In(q, "cancel", x)
        /\ In(s_evWait', "timeout", x) <=> In(q, "timeout", x)
    BY <1>1
  <2>2. CASE x = o
    <3>1. at'[x] = "destroyed" /\ timer'[x] = IF timer[x] = "off" THEN "off" ELSE "cancelled"
      BY <2>2, <1>2, <1>3 DEF Typed
    <3> QED
      BY <3>1, <2>1, <2>2 DEF LInv, Timeouts
  <2>3. CASE x # o
    BY <2>3, <2>1, <1>2, <1>3 DEF LInv, Timeouts, Typed
  <2> QED
    BY <2>2, <2>3
<1>14. Aborts(s_evWait)'
  <2>0. Returned' = Returned
    BY <1>6 DEF Returned
  <2>1. ASSUME NEW x \in Ops, at'[x] \notin {"new", "destroyed"}
        PROVE  born'[x] <= version'[x] /\ version'[x] <= m_abort_version' /\ born'[x] <= Returned'
    <3>1. x # o
      BY <2>1, <1>2 DEF Typed
    <3> QED
      BY <3>1, <2>1, <1>2, <1>6, <2>0 DEF LInv, Aborts, Typed
  <2>2. ASSUME NEW x \in Ops, In(s_evWait', "abort", None), m_opt'[Dir(x)] = x
        PROVE  born'[x] < Returned'
    BY <2>0, <2>2, <1>1, <1>2, <1>11 DEF LInv, Aborts, Typed
  <2>3. ASSUME NEW x \in Ops, AbortBehind(s_evWait', x), at'[x] # "destroyed"
        PROVE  born'[x] < Returned'
    BY <2>0, <2>3, <1>1, <1>2 DEF LInv, Aborts, Typed
  <2>4. ASSUME NEW x \in Ops, In(s_evWait', "stop", x)
        PROVE  born'[x] < Returned'
    BY <2>0, <2>4, <1>1, <1>2 DEF LInv, Aborts, Typed
  <2> QED
    BY <2>1, <2>2, <2>3, <2>4, <1>4, <1>6 DEF LInv, Aborts
<1> QED
  BY <1>1, <1>8, <1>9, <1>10, <1>12, <1>13, <1>14 DEF LInv

-----------------------------------------------------------------------------
(* What an operation is not part of yet.                                   *)
LEMMA NewIsNowhere ==
    ASSUME Typed, NEW q, LInv(q), NEW o \in Ops, at[o] \in {"new", "built"}
    PROVE  /\ \A s \in {"start", "after", "unwatch", "stop"} : ~In(q, s, o)
           /\ ~AbortBehind(q, o)
           /\ \A d \in Dirs : owner[d] # o /\ m_opt[d] # o /\ ~Waits(waiters[d], o)
           /\ ~m_watching[o]
           /\ at[o] = "new" => ~In(q, "cancel", o) /\ ~In(q, "timeout", o) /\ timer[o] = "off"
<1>1. ~In(q, "start", o)
  BY DEF LInv, Locks
<1>2. \A d \in Dirs : owner[d] # o /\ ~Waits(waiters[d], o)
  BY NoneAssumption DEF LInv, Locks
<1>3. \A d \in Dirs : m_opt[d] # o
  BY <1>2, NoneAssumption DEF LInv, Opts
<1>4. ~m_watching[o] /\ ~In(q, "after", o) /\ ~In(q, "unwatch", o) /\ ~In(q, "stop", o)
  BY <1>3, DirType DEF LInv, Opts
<1>5. ~AbortBehind(q, o)
  BY <1>1 DEF AbortBehind, In
<1>6. at[o] = "new" => ~In(q, "cancel", o) /\ ~In(q, "timeout", o) /\ timer[o] = "off"
  BY DEF LInv, Timeouts, Typed
<1> QED
  BY <1>1, <1>2, <1>3, <1>4, <1>5, <1>6

(* connect, accept, read and write.                                        *)
LEMMA CallInv ==
    ASSUME Inv, NEW o \in Ops, Call(o), undefined' = undefined
    PROVE  Inv'
<1>1. /\ kind' = kind /\ timed' = timed /\ maxAborts' = maxAborts
      /\ m_fd' = m_fd /\ owner' = owner /\ waiters' = waiters
      /\ m_opt' = m_opt /\ s_evWait' = s_evWait /\ m_watching' = m_watching
      /\ m_abort_version' = m_abort_version /\ aborting' = aborting /\ closes' = closes
      /\ closed' = closed /\ onCaller' = onCaller
  BY DEF Call, lock, calls, plan
<1>2. Typed /\ LInv(s_evWait) /\ at[o] = "new"
  BY DEF Inv, Call, plan
<1>3. /\ \A s \in {"start", "after", "unwatch", "stop", "cancel", "timeout"} :
            ~In(s_evWait, s, o)
      /\ ~AbortBehind(s_evWait, o) /\ timer[o] = "off"
      /\ \A d \in Dirs : owner[d] # o /\ m_opt[d] # o /\ ~Waits(waiters[d], o)
      /\ ~m_watching[o]
  BY <1>2, NewIsNowhere
<1>4. Returned' = Returned /\ Returned \in Nat /\ Returned <= m_abort_version
  BY <1>1, <1>2, BoundAssumption DEF Returned, LInv, Aborts, Typed
<1>5. \E a \in {"built", "destroyed"} : at' = [at EXCEPT ![o] = a]
  BY DEF Call, Destroy, plan
<1>6. \A x \in Ops : x # o => /\ at'[x] = at[x] /\ version'[x] = version[x]
                              /\ born'[x] = born[x] /\ m_timedout'[x] = m_timedout[x]
                              /\ result'[x] = result[x] /\ timer'[x] = timer[x]
  BY <1>2 DEF Call, Destroy, Typed, plan
<1>7. /\ at'[o] \in {"built", "destroyed"}
      /\ at'[o] = "destroyed" => timer'[o] = "off"
      /\ at'[o] = "built" => version'[o] = m_abort_version /\ born'[o] = Returned
  BY <1>2, <1>3 DEF Call, Destroy, Typed, Returned, plan
<1>8. \A x : Dir(x)' = Dir(x) /\ Dir(x) \in Dirs
  BY <1>1, Primed, DirType
<1>9. Typed'
  <2>1. at' \in [Ops -> {"new", "built", "trying", "pending", "destroyed"}]
    BY <1>2, <1>5 DEF Typed
  <2>2. version' \in [Ops -> Nat] /\ born' \in [Ops -> Nat]
    <3>1. \E v, b \in Nat :
             version' = [version EXCEPT ![o] = v] /\ born' = [born EXCEPT ![o] = b]
      <4>1. CASE m_fd = "INVALID_SOCKET"
        <5>1. version' = [version EXCEPT ![o] = 0] /\ born' = [born EXCEPT ![o] = 0]
          BY <4>1 DEF Call, Destroy, plan
        <5>2. 0 \in Nat
          BY BoundAssumption
        <5> QED
          BY <5>1, <5>2, Zenon
      <4>2. CASE m_fd # "INVALID_SOCKET"
        <5>1. /\ version' = [version EXCEPT ![o] = m_abort_version]
              /\ born' = [born EXCEPT ![o] = Returned]
          BY <4>2 DEF Call, Returned, plan
        <5> QED
          BY <5>1, <1>2, <1>4 DEF Typed
      <4> QED
        BY <4>1, <4>2
    <3> QED
      BY <3>1, <1>2 DEF Typed
  <2>3. /\ m_timedout' \in [Ops -> BOOLEAN] /\ result' \in [Ops -> Results]
        /\ timer' \in [Ops -> {"off", "armed", "fired", "cancelled"}]
    BY <1>2 DEF Call, Destroy, Typed, Results, plan
  <2> QED
    BY <2>1, <2>2, <2>3, <1>1, <1>2 DEF Typed, Results
<1>10. Locks(s_evWait)'
  BY <1>1, <1>2, <1>3, <1>6, <1>7, <1>8, NoneAssumption DEF LInv, Locks, Typed
<1>11. Opts(s_evWait)'
  BY <1>1, <1>2, <1>3, <1>6, <1>7, <1>8, NoneAssumption DEF LInv, Opts, Typed
<1>12. Timeouts(s_evWait)'
  BY <1>1, <1>2, <1>3, <1>6, <1>7 DEF LInv, Timeouts, Typed
<1>13. Aborts(s_evWait)'
  <2>1. ASSUME NEW x \in Ops, at'[x] \notin {"new", "destroyed"}
        PROVE  born'[x] <= version'[x] /\ version'[x] <= m_abort_version' /\ born'[x] <= Returned'
    <3>1. CASE x = o
      BY <3>1, <2>1, <1>1, <1>2, <1>4, <1>7 DEF Typed
    <3>2. CASE x # o
      BY <3>2, <2>1, <1>1, <1>2, <1>4, <1>6 DEF LInv, Aborts
    <3> QED
      BY <3>1, <3>2
  <2>2. ASSUME NEW x \in Ops,
               \/ In(s_evWait, "abort", None) /\ m_opt[Dir(x)] = x
               \/ AbortBehind(s_evWait, x) /\ at'[x] # "destroyed"
               \/ In(s_evWait, "stop", x)
        PROVE  born'[x] < Returned'
    <3>1. x # o
      BY <2>2, <1>3, <1>8
    <3> QED
      BY <3>1, <2>2, <1>2, <1>4, <1>6 DEF LInv, Aborts
  <2> QED
    BY <2>1, <2>2, <1>1, <1>2, <1>8 DEF LInv, Aborts
<1>14. List(s_evWait)' /\ Closes(s_evWait)'
  BY <1>1, <1>2, Primed DEF LInv, Inv, Closes
<1> QED
  BY <1>9, <1>10, <1>11, <1>12, <1>13, <1>14 DEF Inv, LInv

(* request(), first half.                                                  *)
LEMMA RequestLockInv ==
    ASSUME Inv, NEW o \in Ops, RequestLock(o), undefined' = undefined
    PROVE  Inv'
<1> DEFINE d == Dir(o)
<1>1. /\ kind' = kind /\ timed' = timed /\ maxAborts' = maxAborts
      /\ m_fd' = m_fd /\ m_opt' = m_opt /\ s_evWait' = s_evWait
      /\ m_watching' = m_watching /\ timer' = timer /\ result' = result
      /\ version' = version /\ m_timedout' = m_timedout /\ born' = born
      /\ m_abort_version' = m_abort_version /\ aborting' = aborting /\ closes' = closes
      /\ closed' = closed /\ onCaller' = onCaller
  BY DEF RequestLock, calls, plan
<1>2. Typed /\ LInv(s_evWait) /\ at[o] = "built"
  BY DEF Inv, RequestLock, plan
<1>3. /\ \A s \in {"start", "after", "unwatch", "stop"} : ~In(s_evWait, s, o)
      /\ ~AbortBehind(s_evWait, o)
      /\ \A e \in Dirs : owner[e] # o /\ m_opt[e] # o /\ ~Waits(waiters[e], o)
      /\ ~m_watching[o]
  BY <1>2, NewIsNowhere
<1>4. Returned' = Returned /\ \A x : Dir(x)' = Dir(x) /\ Dir(x) \in Dirs
  BY <1>1, Primed, DirType DEF Returned
<1>5. at'[o] \in {"trying", "pending"} /\ \A x \in Ops : x # o => at'[x] = at[x]
  BY <1>2 DEF RequestLock, Typed, plan
<1>6. Typed' /\ Locks(s_evWait)' /\ \A e \in Dirs : owner[e] # None => owner'[e] = owner[e]
  <2>1. CASE owner[d] = None
    <3>1. /\ owner' = [owner EXCEPT ![d] = o] /\ waiters' = waiters
          /\ at' = [at EXCEPT ![o] = "trying"]
      BY <2>1 DEF RequestLock, plan
    <3>2. Typed'
      BY <1>1, <1>2, <3>1 DEF Typed
    <3>3. owner'[d] = o /\ at'[o] = "trying" /\ \A e \in Dirs : e # d => owner'[e] = owner[e]
      BY <1>2, <1>4, <3>1 DEF Typed
    <3> HIDE DEF d
    <3>4. d = Dir(o)
      BY DEF d
    <3>5. Locks(s_evWait)'
      BY <1>1, <1>2, <1>3, <1>4, <1>5, <2>1, <3>1, <3>3, <3>4, NoneAssumption
         DEF LInv, Locks, Typed
    <3> QED
      BY <3>2, <3>3, <3>5, <2>1
  <2>2. CASE owner[d] # None
    <3>1. /\ waiters' = [waiters EXCEPT ![d] = Append(waiters[d], o)] /\ owner' = owner
          /\ at' = [at EXCEPT ![o] = "pending"]
      BY <2>2 DEF RequestLock, plan
    <3>2. waiters[d] \in Seq(Ops) /\ NoneTwice(waiters[d]) /\ d \in Dirs
      BY <1>2, <1>4 DEF Typed, LInv, Locks
    <3>3. /\ Append(waiters[d], o) \in Seq(Ops) /\ NoneTwice(Append(waiters[d], o))
          /\ \A x : Waits(Append(waiters[d], o), x) <=> Waits(waiters[d], x) \/ x = o
      BY <3>2, <1>3, QueueAppend
    <3>4. Typed'
      BY <1>1, <1>2, <3>1, <3>3 DEF Typed
    <3>5. /\ NoneTwice(waiters'[d]) /\ \A e \in Dirs : e # d => waiters'[e] = waiters[e]
          /\ \A x : Waits(waiters'[d], x) <=> Waits(waiters[d], x) \/ x = o
          /\ at'[o] = "pending"
      BY <1>2, <3>1, <3>2, <3>3 DEF Typed
    <3> HIDE DEF d
    <3>6. d = Dir(o)
      BY DEF d
    <3>7. Locks(s_evWait)'
      BY <1>1, <1>2, <1>3, <1>4, <1>5, <3>1, <3>5, <3>6, NoneAssumption
         DEF LInv, Locks, Typed
    <3> QED
      BY <3>1, <3>4, <3>7
  <2> QED
    BY <2>1, <2>2
<1>7. Opts(s_evWait)'
  BY <1>1, <1>2, <1>3, <1>4, <1>5, <1>6, NoneAssumption DEF LInv, Opts, Typed
<1>8. Timeouts(s_evWait)'
  BY <1>1, <1>2, <1>5 DEF LInv, Timeouts, Typed
<1>9. Aborts(s_evWait)'
  BY <1>1, <1>2, <1>3, <1>4, <1>5 DEF LInv, Aborts, Typed
<1>10. List(s_evWait)' /\ Closes(s_evWait)'
  BY <1>1, <1>2, Primed DEF LInv, Inv, Closes
<1> QED
  BY <1>6, <1>7, <1>8, <1>9, <1>10 DEF Inv, LInv

(* request(), second half.                                                 *)
LEMMA RequestTryInv ==
    ASSUME Inv, NEW o \in Ops, RequestTry(o), undefined' = undefined
    PROVE  Inv'
<1>1. /\ kind' = kind /\ timed' = timed /\ maxAborts' = maxAborts
      /\ m_fd' = m_fd /\ m_opt' = m_opt /\ m_watching' = m_watching
      /\ calls' = calls /\ closed' = closed
  BY DEF RequestTry, plan
<1>2. Typed /\ LInv(s_evWait) /\ Closes(s_evWait) /\ at[o] = "trying"
  BY DEF Inv, RequestTry, plan
<1>3. owner[Dir(o)] = o /\ ~In(s_evWait, "start", o) /\ Dir(o) \in Dirs
  BY <1>2, DirType DEF LInv, Locks
<1>4. m_opt[Dir(o)] = None /\ ~m_watching[o]
  BY <1>2, <1>3, NoneAssumption DEF LInv, Opts
<1>5. ~In(s_evWait, "after", o) /\ ~In(s_evWait, "unwatch", o) /\ ~In(s_evWait, "stop", o)
  BY <1>2, <1>4, NoneAssumption DEF LInv, Opts
<1>6. CASE /\ at' = [at EXCEPT ![o] = "pending"]
           /\ s_evWait' = Post(s_evWait, Task("start", o))
           /\ UNCHANGED <<lock, version, m_timedout, born, timer, result, onCaller>>
  <2>1. /\ owner' = owner /\ waiters' = waiters /\ version' = version /\ born' = born
        /\ m_timedout' = m_timedout /\ timer' = timer /\ result' = result
        /\ onCaller' = onCaller /\ m_abort_version' = m_abort_version
        /\ aborting' = aborting /\ closes' = closes
    BY <1>1, <1>6 DEF lock, calls
  <2>2. Task("start", o) \in Tasks /\ Task("start", o).t = "start"
    BY DEF Task, Tasks
  <2>3. /\ List(s_evWait')
        /\ \A s, x : In(s_evWait', s, x) <=> In(s_evWait, s, x) \/ (s = "start" /\ x = o)
        /\ \A x : AbortBehind(s_evWait', x) => AbortBehind(s_evWait, x)
    <3>1. /\ List(s_evWait')
          /\ \A s, x : In(s_evWait', s, x) <=> In(s_evWait, s, x) \/ (s = "start" /\ x = o)
          /\ \A x : AbortBehind(s_evWait', x) => AbortBehind(s_evWait, x)
                      \/ ("start" = "abort" /\ In(s_evWait, "start", x))
      BY <1>2, <1>3, <1>6, <2>2, ListPost DEF Events, LInv
    <3> QED
      BY <3>1
  <2>4. Returned' = Returned /\ \A x : Dir(x)' = Dir(x) /\ Dir(x) \in Dirs
    BY <1>1, <2>1, Primed, DirType DEF Returned
  <2>5. at'[o] = "pending" /\ \A x \in Ops : x # o => at'[x] = at[x]
    BY <1>2, <1>6 DEF Typed
  <2>6. Typed'
    BY <1>1, <1>2, <1>6, <2>1 DEF Typed
  <2>7. Locks(s_evWait)'
    <3>1. \A d \in Dirs : ~Waits(waiters[d], o)
      BY <1>2 DEF LInv, Locks
    <3>2. \A x \in Ops : In(s_evWait', "start", x) <=> In(s_evWait, "start", x) \/ x = o
      BY <2>3
    <3>3. \A d \in Dirs : owner[d] # None =>
             Dir(owner[d]) = d /\ at'[owner[d]] \notin {"new", "built"}
      BY <1>2, <2>5 DEF LInv, Locks, Typed
    <3>4. \A d \in Dirs, x \in Ops : Waits(waiters[d], x) =>
             Dir(x) = d /\ at'[x] = "pending" /\ owner[d] # x /\ ~In(s_evWait', "start", x)
      BY <1>2, <2>5, <3>1, <3>2 DEF LInv, Locks
    <3>5. \A x \in Ops : at'[x] = "trying" => owner[Dir(x)] = x /\ ~In(s_evWait', "start", x)
      BY <1>2, <2>5, <3>2 DEF LInv, Locks
    <3>6. \A x \in Ops : In(s_evWait', "start", x) =>
             \/ at'[x] = "pending" /\ owner[Dir(x)] = x /\ ~m_watching[x]
             \/ at'[x] = "destroyed" /\ result[x] = "abort"
      BY <1>2, <1>3, <1>4, <2>5, <3>2 DEF LInv, Locks
    <3> QED
      BY <1>1, <1>2, <2>1, <2>4, <3>3, <3>4, <3>5, <3>6 DEF LInv, Locks
  <2>8. Opts(s_evWait)'
    BY <1>1, <1>2, <1>5, <2>1, <2>3, <2>4, <2>5 DEF LInv, Opts, Typed
  <2>9. Timeouts(s_evWait)'
    BY <1>2, <2>1, <2>3, <2>5 DEF LInv, Timeouts, Typed
  <2>10. Aborts(s_evWait)'
    BY <1>1, <1>2, <2>1, <2>3, <2>4, <2>5 DEF LInv, Aborts, Typed
  <2>11. Closes(s_evWait)'
    <3>1. s_evWait \in Seq(Tasks)
      BY <1>2 DEF LInv, List
    <3>2. Cardinality(Closing(s_evWait')) = Cardinality(Closing(s_evWait))
      BY <3>1, <1>6, <2>2, ClosingPost, ClosingFinite DEF Post
    <3> QED
      BY <3>2, <1>1, <1>2, <2>1 DEF Closes
  <2> QED
    BY <1>1, <2>3, <2>6, <2>7, <2>8, <2>9, <2>10, <2>11, Primed DEF Inv, LInv
<1>7. CASE \E hr \in Outcomes :
              /\ CancelTimer(o) /\ Unlock(Dir(o), s_evWait) /\ Destroy(o, hr)
              /\ onCaller' = onCaller \cup {o} /\ hr # "pending"
  <2>1. PICK hr \in Outcomes :
              /\ CancelTimer(o) /\ Unlock(Dir(o), s_evWait) /\ Destroy(o, hr)
              /\ onCaller' = onCaller \cup {o} /\ hr # "pending"
    BY <1>7
  <2>2. hr \in Results
    BY <2>1 DEF Outcomes, Results
  <2>3. m_opt' = [m_opt EXCEPT ![Dir(o)] = None] /\ m_watching' = [m_watching EXCEPT ![o] = FALSE]
    BY <1>1, <1>2, <1>3, <1>4 DEF Typed
  <2>4. o \in onCaller' /\ onCaller \subseteq onCaller' /\ onCaller' \subseteq Ops
    BY <2>1, <1>2 DEF Typed
  <2>5. Typed' /\ LInv(s_evWait)' /\ Cardinality(Closing(s_evWait')) = Cardinality(Closing(s_evWait))
    BY <1>1, <1>2, <1>3, <1>5, <2>1, <2>2, <2>3, <2>4, Ended
  <2> QED
    BY <2>5, <1>1, <1>2 DEF Inv, Closes, calls
<1> QED
  BY <1>6, <1>7 DEF RequestTry, plan

(* AsyncIOTimer::resume.                                                   *)
LEMMA TimerFiresInv ==
    ASSUME Inv, NEW o \in Ops, TimerFires(o), undefined' = undefined
    PROVE  Inv'
<1>1. /\ kind' = kind /\ timed' = timed /\ maxAborts' = maxAborts
      /\ m_fd' = m_fd /\ owner' = owner /\ waiters' = waiters
      /\ m_opt' = m_opt /\ at' = at /\ version' = version /\ born' = born
      /\ m_timedout' = m_timedout /\ m_watching' = m_watching /\ result' = result
      /\ m_abort_version' = m_abort_version /\ aborting' = aborting /\ closes' = closes
      /\ closed' = closed /\ onCaller' = onCaller
  BY DEF TimerFires, lock, object, calls, plan
<1>2. Typed /\ LInv(s_evWait) /\ Closes(s_evWait) /\ timer[o] = "armed"
  BY DEF Inv, TimerFires, plan
<1>3. timer'[o] = "fired" /\ (\A x \in Ops : x # o => timer'[x] = timer[x]) /\ Typed'
  BY <1>1, <1>2 DEF TimerFires, Typed, plan
<1>4. /\ Task("cancel", o) \in Tasks /\ Task("cancel", o).t = "cancel"
      /\ s_evWait' = Post(s_evWait, Task("cancel", o))
  BY DEF Task, Tasks, TimerFires, plan
<1>5. /\ List(s_evWait')
      /\ \A s, x : In(s_evWait', s, x) <=> In(s_evWait, s, x) \/ (s = "cancel" /\ x = o)
      /\ \A x : AbortBehind(s_evWait', x) => AbortBehind(s_evWait, x)
  <2>1. /\ List(s_evWait')
        /\ \A s, x : In(s_evWait', s, x) <=> In(s_evWait, s, x) \/ (s = "cancel" /\ x = o)
        /\ \A x : AbortBehind(s_evWait', x) => AbortBehind(s_evWait, x)
                      \/ ("cancel" = "abort" /\ In(s_evWait, "start", x))
    BY <1>2, <1>4, ListPost DEF Events, LInv
  <2> QED
    BY <2>1
<1>6. Returned' = Returned /\ \A x : Dir(x)' = Dir(x)
  BY <1>1, Primed DEF Returned
<1>7. Locks(s_evWait)'
  BY <1>1, <1>2, <1>5, <1>6 DEF LInv, Locks
<1>8. Opts(s_evWait)'
  BY <1>1, <1>2, <1>5, <1>6 DEF LInv, Opts
<1>9. Timeouts(s_evWait)'
  BY <1>1, <1>2, <1>3, <1>5 DEF LInv, Timeouts, Typed
<1>10. Aborts(s_evWait)'
  BY <1>1, <1>2, <1>5, <1>6 DEF LInv, Aborts
<1>11. Closes(s_evWait)'
  <2>1. s_evWait \in Seq(Tasks)
    BY <1>2 DEF LInv, List
  <2>2. Cardinality(Closing(s_evWait')) = Cardinality(Closing(s_evWait))
    BY <2>1, <1>4, ClosingPost, ClosingFinite DEF Post
  <2> QED
    BY <2>2, <1>1, <1>2 DEF Closes
<1> QED
  BY <1>1, <1>3, <1>5, <1>7, <1>8, <1>9, <1>10, <1>11, Primed DEF Inv, LInv

(* abort(), first half.                                                    *)
LEMMA AbortVersionInv ==
    ASSUME Inv, AbortVersion, undefined' = undefined
    PROVE  Inv'
<1>1. /\ kind' = kind /\ timed' = timed /\ maxAborts' = maxAborts
      /\ m_fd' = m_fd /\ owner' = owner /\ waiters' = waiters
      /\ m_opt' = m_opt /\ at' = at /\ version' = version /\ born' = born
      /\ m_timedout' = m_timedout /\ m_watching' = m_watching /\ result' = result
      /\ timer' = timer /\ s_evWait' = s_evWait /\ closes' = closes
      /\ closed' = closed /\ onCaller' = onCaller
  BY DEF AbortVersion, lock, object, plan
<1>2. Typed /\ LInv(s_evWait) /\ Closes(s_evWait)
  BY DEF Inv
<1>3. /\ m_abort_version' = m_abort_version + 1
      /\ aborting' = aborting + 1
  BY <1>2 DEF AbortVersion, Typed, plan
<1>4. Typed' /\ Returned' = Returned /\ \A x : Dir(x)' = Dir(x)
  BY <1>1, <1>2, <1>3, Primed, BoundAssumption DEF Typed, Returned
<1>5. Locks(s_evWait)' /\ Opts(s_evWait)' /\ Timeouts(s_evWait)'
  <2>1. Locks(s_evWait)'
    BY <1>1, <1>2, <1>4 DEF LInv, Locks
  <2>2. Opts(s_evWait)'
    BY <1>1, <1>2, <1>4 DEF LInv, Opts
  <2>3. Timeouts(s_evWait)'
    BY <1>1, <1>2, <1>4 DEF LInv, Timeouts, Typed
  <2> QED
    BY <2>1, <2>2, <2>3
<1>6. Aborts(s_evWait)'
  BY <1>1, <1>2, <1>3, <1>4 DEF LInv, Aborts, Typed
<1>7. List(s_evWait)' /\ Closes(s_evWait)'
  BY <1>1, <1>2, Primed DEF LInv, Closes
<1> QED
  BY <1>4, <1>5, <1>6, <1>7 DEF Inv, LInv

(* abort(), second half: it has now returned, and everything the loop can    *)
(* end on its behalf was there before.                                      *)
LEMMA AbortPostInv ==
    ASSUME Inv, AbortPost, undefined' = undefined
    PROVE  Inv'
<1>1. /\ kind' = kind /\ timed' = timed /\ maxAborts' = maxAborts
      /\ m_fd' = m_fd /\ owner' = owner /\ waiters' = waiters
      /\ m_opt' = m_opt /\ at' = at /\ version' = version /\ born' = born
      /\ m_timedout' = m_timedout /\ m_watching' = m_watching /\ result' = result
      /\ timer' = timer /\ m_abort_version' = m_abort_version /\ closes' = closes
      /\ closed' = closed /\ onCaller' = onCaller
  BY DEF AbortPost, lock, object, plan
<1>2. Typed /\ LInv(s_evWait) /\ Closes(s_evWait) /\ aborting > 0 /\ aborting' = aborting - 1
  BY DEF Inv, AbortPost, Typed, plan
<1>3. /\ Task("abort", None) \in Tasks /\ Task("abort", None).t = "abort"
      /\ s_evWait' = Post(s_evWait, Task("abort", None))
  BY DEF Task, Tasks, AbortPost, plan
<1>4. /\ List(s_evWait')
      /\ \A s, x : In(s_evWait', s, x) <=> In(s_evWait, s, x) \/ (s = "abort" /\ x = None)
      /\ \A x : AbortBehind(s_evWait', x) => AbortBehind(s_evWait, x) \/ In(s_evWait, "start", x)
  <2>1. "abort" \in Events /\ "abort" # "start" /\ List(s_evWait)
    BY <1>2 DEF Events, LInv
  <2> QED
    BY <1>3, <2>1, ListPost
<1>5. /\ Typed' /\ Returned' = Returned + 1 /\ Returned \in Int
      /\ \A x : Dir(x)' = Dir(x) /\ Dir(x) \in Dirs
  <2>1. Typed'
    BY <1>1, <1>2 DEF Typed
  <2>2. Returned' = Returned + 1 /\ Returned \in Int
    BY <1>1, <1>2 DEF Typed, Returned
  <2> QED
    BY <2>1, <2>2, <1>1, Primed, DirType
<1>6. Locks(s_evWait)'
  BY <1>1, <1>2, <1>4, <1>5 DEF LInv, Locks
<1>7. Opts(s_evWait)'
  BY <1>1, <1>2, <1>4, <1>5 DEF LInv, Opts
<1>8. Timeouts(s_evWait)'
  BY <1>1, <1>2, <1>4, <1>5 DEF LInv, Timeouts, Typed
<1>9. Aborts(s_evWait)'
  <2>1. ASSUME NEW x \in Ops, at[x] \notin {"new", "destroyed"}
        PROVE  born[x] < Returned' /\ born[x] <= version[x] /\ version[x] <= m_abort_version
    BY <1>2, <1>5, <2>1 DEF LInv, Aborts, Typed
  <2>2. ASSUME NEW x \in Ops, m_opt[Dir(x)] = x PROVE at[x] = "pending"
    BY <1>2, <1>5, <2>2, NoneAssumption DEF LInv, Opts
  <2>3. ASSUME NEW x \in Ops, In(s_evWait, "start", x), at[x] # "destroyed"
        PROVE  at[x] = "pending"
    BY <1>2, <2>3 DEF LInv, Locks
  <2>4. ASSUME NEW x \in Ops, AbortBehind(s_evWait', x), at[x] # "destroyed"
        PROVE  at[x] = "pending"
    <3>1. In(s_evWait, "start", x)
      BY <2>4, <1>4 DEF AbortBehind, In
    <3> QED
      BY <3>1, <2>3, <2>4
  <2>5. ASSUME NEW x \in Ops, In(s_evWait, "stop", x) PROVE born[x] < Returned'
    BY <1>2, <1>5, <2>5 DEF LInv, Aborts, Typed
  <2>6. aborting' <= m_abort_version'
    BY <1>1, <1>2 DEF LInv, Aborts, Typed
  <2>7. ASSUME NEW x \in Ops, at[x] \notin {"new", "destroyed"}
        PROVE  born[x] <= version[x] /\ version[x] <= m_abort_version' /\ born[x] <= Returned'
    <3>1. born[x] \in Nat /\ Returned' \in Int
      BY <1>2, <1>5 DEF Typed
    <3> QED
      BY <3>1, <2>1, <2>7, <1>1
  <2>8. ASSUME NEW x \in Ops, AbortBehind(s_evWait', x), at[x] # "destroyed"
        PROVE  born[x] < Returned'
    BY <2>1, <2>4, <2>8
  <2>9. ASSUME NEW x \in Ops, m_opt[Dir(x)] = x PROVE born[x] < Returned'
    BY <2>1, <2>2, <2>9
  <2>10. ASSUME NEW x \in Ops, In(s_evWait', "stop", x) PROVE In(s_evWait, "stop", x)
    BY <1>4, <2>10
  <2> QED
    BY <1>1, <1>5, <2>5, <2>6, <2>7, <2>8, <2>9, <2>10 DEF Aborts
<1>10. Closes(s_evWait)'
  <2>1. s_evWait \in Seq(Tasks)
    BY <1>2 DEF LInv, List
  <2>2. Cardinality(Closing(s_evWait')) = Cardinality(Closing(s_evWait))
    BY <2>1, <1>3, ClosingPost, ClosingFinite DEF Post
  <2> QED
    BY <2>2, <1>1, <1>2 DEF Closes
<1> QED
  BY <1>1, <1>4, <1>5, <1>6, <1>7, <1>8, <1>9, <1>10, Primed DEF Inv, LInv

(* close() posts its event.                                                *)
LEMMA closeInv ==
    ASSUME Inv, close, undefined' = undefined
    PROVE  Inv'
<1>1. /\ kind' = kind /\ timed' = timed /\ maxAborts' = maxAborts
      /\ m_fd' = m_fd /\ owner' = owner /\ waiters' = waiters
      /\ m_opt' = m_opt /\ at' = at /\ version' = version /\ born' = born
      /\ m_timedout' = m_timedout /\ m_watching' = m_watching /\ result' = result
      /\ timer' = timer /\ m_abort_version' = m_abort_version /\ aborting' = aborting
      /\ closed' = closed /\ onCaller' = onCaller
  BY DEF close, lock, object, plan
<1>2. Typed /\ LInv(s_evWait) /\ Closes(s_evWait) /\ closes < MaxCloses /\ closes' = closes + 1
  BY DEF Inv, close, plan
<1>3. /\ Task("close", None) \in Tasks /\ Task("close", None).t = "close"
      /\ s_evWait' = Post(s_evWait, Task("close", None))
  BY DEF Task, Tasks, close, plan
<1>4. /\ List(s_evWait')
      /\ \A s, x : In(s_evWait', s, x) <=> In(s_evWait, s, x) \/ (s = "close" /\ x = None)
      /\ \A x : AbortBehind(s_evWait', x) => AbortBehind(s_evWait, x)
  <2>1. "close" \in Events /\ "close" # "start" /\ "close" # "abort" /\ List(s_evWait)
    BY <1>2 DEF Events, LInv
  <2> QED
    BY <1>3, <2>1, ListPost
<1>5. Typed' /\ Returned' = Returned /\ \A x : Dir(x)' = Dir(x)
  BY <1>1, <1>2, Primed, BoundAssumption DEF Typed, Returned
<1>6. Locks(s_evWait)'
  BY <1>1, <1>2, <1>4, <1>5 DEF LInv, Locks
<1>7. Opts(s_evWait)'
  BY <1>1, <1>2, <1>4, <1>5 DEF LInv, Opts
<1>8. Timeouts(s_evWait)'
  BY <1>1, <1>2, <1>4, <1>5 DEF LInv, Timeouts, Typed
<1>9. Aborts(s_evWait)'
  BY <1>1, <1>2, <1>4, <1>5 DEF LInv, Aborts
<1>10. Closes(s_evWait)'
  <2>1. s_evWait \in Seq(Tasks)
    BY <1>2 DEF LInv, List
  <2>2. /\ Cardinality(Closing(s_evWait')) = Cardinality(Closing(s_evWait)) + 1
        /\ Cardinality(Closing(s_evWait)) \in Nat
    BY <2>1, <1>3, ClosingPost, ClosingFinite DEF Post
  <2>3. closed \in Int /\ closes \in Int
    BY <1>2 DEF Typed
  <2> QED
    BY <2>2, <2>3, <1>1, <1>2 DEF Closes
<1> QED
  BY <1>1, <1>4, <1>5, <1>6, <1>7, <1>8, <1>9, <1>10, Primed DEF Inv, LInv

-----------------------------------------------------------------------------
(* start() on the closed socket: the operation ends and its lock is kept.   *)
LEMMA KeptInv ==
    ASSUME NEW q, Typed, LInv(q), NEW o \in Ops, owner[Dir(o)] = o, at[o] = "pending",
           \A s \in {"start", "after", "unwatch", "stop", "timeout"} : ~In(q, s, o),
           CompleteKeepLock(o, q),
           kind' = kind, timed' = timed, maxAborts' = maxAborts,
           m_fd' = m_fd, calls' = calls, closed' = closed, undefined' = undefined,
           onCaller' = onCaller
    PROVE  Typed' /\ LInv(s_evWait)' /\ s_evWait' = q
<1> DEFINE d == Dir(o)
<1>1. /\ s_evWait' = q /\ owner' = owner /\ waiters' = waiters
      /\ m_opt' = [m_opt EXCEPT ![d] = None] /\ m_watching' = [m_watching EXCEPT ![o] = FALSE]
      /\ at' = [at EXCEPT ![o] = "destroyed"] /\ result' = [result EXCEPT ![o] = "closed"]
      /\ version' = [version EXCEPT ![o] = 0] /\ born' = [born EXCEPT ![o] = 0]
      /\ m_timedout' = [m_timedout EXCEPT ![o] = FALSE]
      /\ timer' = [timer EXCEPT ![o] = IF timer[o] = "off" THEN "off" ELSE "cancelled"]
  BY DEF CompleteKeepLock, Destroy, CancelTimer, lock, Typed
<1>2. m_abort_version' = m_abort_version /\ aborting' = aborting /\ closes' = closes
  BY DEF calls
<1>3. Returned' = Returned /\ \A x : Dir(x)' = Dir(x) /\ Dir(x) \in Dirs
  BY <1>2, Primed, DirType DEF Returned
<1>4. Typed'
  <2>1. /\ at' \in [Ops -> {"new", "built", "trying", "pending", "destroyed"}]
        /\ version' \in [Ops -> Nat] /\ born' \in [Ops -> Nat]
        /\ m_timedout' \in [Ops -> BOOLEAN] /\ result' \in [Ops -> Results]
    BY <1>1, BoundAssumption DEF Typed, Results
  <2>2. /\ m_opt' \in [Dirs -> Ops \cup {None}] /\ m_watching' \in [Ops -> BOOLEAN]
        /\ timer' \in [Ops -> {"off", "armed", "fired", "cancelled"}]
    BY <1>1 DEF Typed
  <2> QED
    BY <2>1, <2>2, <1>1, <1>2 DEF Typed, Results
<1>5. /\ at'[o] = "destroyed" /\ ~m_watching'[o] /\ m_opt'[d] = None
      /\ timer'[o] \in {"off", "cancelled"}
      /\ \A e \in Dirs : e # d => m_opt'[e] = m_opt[e]
      /\ \A x \in Ops : x # o => /\ at'[x] = at[x] /\ m_watching'[x] = m_watching[x]
                                 /\ result'[x] = result[x] /\ timer'[x] = timer[x]
                                 /\ version'[x] = version[x] /\ born'[x] = born[x]
  BY <1>1, <1>3 DEF Typed
<1>6. \A x \in Ops : x # o /\ m_opt[Dir(x)] = x => Dir(x) # d
  BY <1>3, NoneAssumption DEF LInv, Opts
<1>7. \A e \in Dirs : ~Waits(waiters[e], o)
  BY DEF LInv, Locks
<1> HIDE DEF d
<1>8. d = Dir(o)
  BY DEF d
<1>9. Locks(q)'
  <2>1. \A e \in Dirs : owner[e] # None =>
             Dir(owner[e]) = e /\ at'[owner[e]] \notin {"new", "built"}
    BY <1>5 DEF LInv, Locks, Typed
  <2>2. \A e \in Dirs, x \in Ops : Waits(waiters[e], x) =>
             Dir(x) = e /\ at'[x] = "pending" /\ owner[e] # x /\ ~In(q, "start", x)
    BY <1>5, <1>7 DEF LInv, Locks
  <2>3. \A x \in Ops : at'[x] = "trying" => owner[Dir(x)] = x /\ ~In(q, "start", x)
    BY <1>5 DEF LInv, Locks
  <2>4. \A x \in Ops : In(q, "start", x) =>
             \/ at'[x] = "pending" /\ owner[Dir(x)] = x /\ ~m_watching'[x]
             \/ at'[x] = "destroyed" /\ result'[x] = "abort"
    BY <1>5 DEF LInv, Locks
  <2> QED
    BY <1>1, <1>3, <2>1, <2>2, <2>3, <2>4 DEF LInv, Locks
<1>10. Opts(q)'
  <2>1. ASSUME NEW e \in Dirs, m_opt'[e] # None
        PROVE  owner'[e] = m_opt'[e] /\ at'[m_opt'[e]] = "pending"
    <3>1. e # d /\ m_opt'[e] = m_opt[e]
      BY <2>1, <1>5
    <3>2. owner[e] = m_opt[e] /\ at[m_opt[e]] = "pending"
      BY <2>1, <3>1 DEF LInv, Opts
    <3>3. Dir(m_opt[e]) = e
      BY <2>1, <3>1, <3>2 DEF LInv, Locks
    <3> QED
      BY <2>1, <3>1, <3>2, <3>3, <1>1, <1>5, <1>8 DEF Typed
  <2>2. \A x \in Ops : x # o /\ m_opt[Dir(x)] = x => m_opt'[Dir(x)] = x
    BY <1>3, <1>5, <1>6
  <2> QED
    BY <2>1, <2>2, <1>1, <1>3, <1>5 DEF LInv, Opts
<1>11. Timeouts(q)'
  BY <1>1, <1>5 DEF LInv, Timeouts, Typed
<1>12. Aborts(q)'
  <2>1. \A x \in Ops : m_opt'[Dir(x)] = x => x # o /\ m_opt[Dir(x)] = x
    BY <1>3, <1>5, <1>8, NoneAssumption
  <2> QED
    BY <2>1, <1>1, <1>2, <1>3, <1>5 DEF LInv, Aborts
<1>13. List(s_evWait)'
  BY <1>1, Primed DEF LInv
<1> QED
  BY <1>1, <1>4, <1>9, <1>10, <1>11, <1>12, <1>13 DEF LInv

(* The loop thread changes nothing else.                                   *)
LoopStep ==
    /\ kind' = kind /\ timed' = timed /\ maxAborts' = maxAborts /\ calls' = calls
    /\ onCaller' = onCaller /\ undefined' = undefined

(* The loop thread takes its next task: what is known of the rest.         *)
LEMMA HeadFacts ==
    ASSUME Inv, s_evWait # << >>, NEW e, e = Head(s_evWait), NEW q, q = Tail(s_evWait)
    PROVE  /\ Typed /\ LInv(q) /\ LInv(s_evWait) /\ e \in Tasks /\ In(s_evWait, e.t, e.x)
           /\ e.t = "start" => ~In(q, "start", e.x)
           /\ \A s, o : In(q, s, o) /\ s \notin Events =>
                 e.t \notin Events /\ (o # None /\ e.x # None => Dir(o) # Dir(e.x))
           /\ e.t = "start" /\ In(q, "abort", None) => AbortBehind(s_evWait, e.x)
           /\ closed + Cardinality(Closing(q))
                + (IF e.t \in {"close", "closed"} THEN 1 ELSE 0) = closes
           /\ Cardinality(Closing(q)) \in Nat /\ closed \in Nat
<1>1. Typed /\ LInv(s_evWait) /\ Closes(s_evWait) /\ List(s_evWait) /\ s_evWait \in Seq(Tasks)
  BY DEF Inv, LInv, List
<1>2. LInv(q)
  BY <1>1, Taken
<1>3. /\ e \in Tasks /\ In(s_evWait, e.t, e.x)
      /\ e.t = "start" => ~In(q, "start", e.x)
      /\ \A s, o : In(q, s, o) /\ s \notin Events =>
                 e.t \notin Events /\ (o # None /\ e.x # None => Dir(o) # Dir(e.x))
      /\ e.t = "start" /\ In(q, "abort", None) => AbortBehind(s_evWait, e.x)
  BY <1>1, ListTail
<1>4. q \in Seq(Tasks)
  BY <1>2 DEF LInv, List
<1>5. Cardinality(Closing(s_evWait)) =
             Cardinality(Closing(q)) + IF e.t \in {"close", "closed"} THEN 1 ELSE 0
  BY <1>1, ClosingTail
<1>6. Cardinality(Closing(q)) \in Nat
  BY <1>4, ClosingFinite
<1>7. closed \in Nat /\ closed + Cardinality(Closing(s_evWait)) = closes
  BY <1>1 DEF Closes, Typed
<1> QED
  BY <1>1, <1>2, <1>3, <1>5, <1>6, <1>7

(* AsyncSockProc::start().                                                 *)
LEMMA StartInv ==
    ASSUME Inv, LoopStep, s_evWait # << >>, NEW e, e = Head(s_evWait), e.t = "start",
           at[e.x] # "destroyed", NEW q, q = Tail(s_evWait), Start(e.x, q)
    PROVE  Inv'
<1> DEFINE o == e.x
           d == Dir(o)
<1>1. /\ Typed /\ LInv(q) /\ LInv(s_evWait) /\ e \in Tasks /\ In(s_evWait, "start", o)
      /\ ~In(q, "start", o)
      /\ \A s, x : In(q, s, x) => s \in Events
      /\ In(q, "abort", None) => AbortBehind(s_evWait, o)
      /\ closed + Cardinality(Closing(q)) = closes
  <2>1. /\ Typed /\ LInv(q) /\ LInv(s_evWait) /\ e \in Tasks /\ In(s_evWait, e.t, e.x)
        /\ e.t = "start" => ~In(q, "start", e.x)
        /\ \A s, x : In(q, s, x) /\ s \notin Events => e.t \notin Events
        /\ e.t = "start" /\ In(q, "abort", None) => AbortBehind(s_evWait, e.x)
    BY HeadFacts
  <2>2. /\ closed + Cardinality(Closing(q))
             + (IF e.t \in {"close", "closed"} THEN 1 ELSE 0) = closes
        /\ Cardinality(Closing(q)) \in Nat /\ closed \in Nat
    BY HeadFacts
  <2> QED
    BY <2>1, <2>2 DEF Events
<1>2. o \in Ops /\ d \in Dirs
  BY <1>1, TaskFields, DirType DEF Tasks
<1>3. at[o] = "pending" /\ owner[d] = o /\ ~m_watching[o]
  BY <1>1, <1>2 DEF LInv, Locks
<1>4. \A s \in {"start", "after", "unwatch", "stop", "timeout"} : ~In(q, s, o)
  BY <1>1 DEF Events
<1>5. /\ kind' = kind /\ timed' = timed /\ maxAborts' = maxAborts
      /\ m_fd' = m_fd /\ calls' = calls /\ closed' = closed
      /\ undefined' = undefined /\ onCaller' = onCaller /\ onCaller \subseteq Ops
      /\ m_abort_version' = m_abort_version /\ aborting' = aborting /\ closes' = closes
  BY <1>1 DEF LoopStep, Start, calls, Typed
<1> HIDE DEF o
<1>6. CASE CompleteKeepLock(o, q)
  <2>1. Typed' /\ LInv(s_evWait)' /\ s_evWait' = q
    BY <1>1, <1>2, <1>3, <1>4, <1>5, <1>6, KeptInv
  <2> QED
    BY <2>1, <1>1, <1>5 DEF Inv, Closes
<1>7. ASSUME NEW hr \in {"timeout", "abort"}, Complete(o, hr, q)
      PROVE  Inv'
  <2>1. hr \in Results
    BY DEF Results
  <2>2. /\ m_opt' = [m_opt EXCEPT ![Dir(o)] = None]
        /\ m_watching' = [m_watching EXCEPT ![o] = FALSE]
        /\ CancelTimer(o) /\ Unlock(Dir(o), q) /\ Destroy(o, hr)
    BY <1>7 DEF Complete
  <2>3. Typed' /\ LInv(s_evWait)' /\ Cardinality(Closing(s_evWait')) = Cardinality(Closing(q))
    BY <1>1, <1>2, <1>3, <1>4, <1>5, <2>1, <2>2, Ended
  <2> QED
    BY <2>3, <1>1, <1>5 DEF Inv, Closes
<1>8. CASE /\ m_opt' = [m_opt EXCEPT ![d] = o]
           /\ m_watching' = [m_watching EXCEPT ![o] = TRUE]
           /\ s_evWait' = q
           /\ UNCHANGED <<lock, object, timer, result>>
  <2>1. /\ owner' = owner /\ waiters' = waiters /\ at' = at /\ version' = version
        /\ born' = born /\ m_timedout' = m_timedout /\ timer' = timer /\ result' = result
    BY <1>8 DEF lock, object
  <2>2. /\ Typed' /\ m_opt'[d] = o /\ m_watching'[o]
        /\ \A x \in Dirs : x # d => m_opt'[x] = m_opt[x]
        /\ \A x \in Ops : x # o => m_watching'[x] = m_watching[x]
    BY <1>1, <1>2, <1>5, <1>8, <2>1 DEF Typed
  <2>3. Returned' = Returned /\ \A x : Dir(x)' = Dir(x) /\ Dir(x) \in Dirs
    BY <1>5, Primed, DirType DEF Returned
  <2>4. Locks(q)'
    BY <1>1, <1>4, <2>1, <2>2, <2>3 DEF LInv, Locks
  <2>5. \A x \in Ops : m_opt'[Dir(x)] = x => x = o \/ m_opt[Dir(x)] = x
    BY <2>2, <2>3
  <2>6. \A x \in Ops : x # o /\ m_opt[Dir(x)] = x => m_opt'[Dir(x)] = x
    BY <1>1, <1>3, <2>2, <2>3, NoneAssumption DEF LInv, Opts
  <2>7. Opts(q)'
    <3>1. \A x \in Dirs : m_opt'[x] # None =>
             owner[x] = m_opt'[x] /\ at[m_opt'[x]] = "pending"
      BY <1>1, <1>3, <2>2 DEF LInv, Opts
    <3>2. \A x \in Ops : ~In(q, "after", x) /\ ~In(q, "unwatch", x) /\ ~In(q, "stop", x)
      BY <1>1 DEF Events
    <3>3. \A x \in Ops : m_watching'[x] => m_opt'[Dir(x)] = x
      BY <1>1, <2>2, <2>6 DEF LInv, Opts, d
    <3> QED
      BY <2>1, <2>3, <3>1, <3>2, <3>3 DEF Opts
  <2>8. Timeouts(q)'
    BY <1>1, <1>5, <2>1, <2>2 DEF LInv, Timeouts, Typed
  <2>9. In(q, "abort", None) => born[o] < Returned
    BY <1>1, <1>2, <1>3 DEF LInv, Aborts
  <2>10. Aborts(q)'
    BY <1>1, <1>5, <2>1, <2>3, <2>5, <2>9 DEF LInv, Aborts
  <2>11. List(s_evWait)'
    BY <1>1, <1>5, <1>8, Primed DEF LInv
  <2> QED
    BY <1>1, <1>5, <1>8, <2>2, <2>4, <2>7, <2>8, <2>10, <2>11 DEF Inv, LInv, Closes
<1> QED
  BY <1>6, <1>7, <1>8 DEF Start, o

(* on_watched(), for the descriptor or for asyncClose: the operation is       *)
(* current and nothing else is owed in its direction.                       *)
LEMMA OnWatchedInv ==
    ASSUME NEW q, Typed, LInv(q), LoopStep, NEW o \in Ops, m_watching[o],
           \A s, x : In(q, s, x) /\ s \notin Events => x = None \/ Dir(x) # Dir(o),
           closed + Cardinality(Closing(q)) = closes, OnWatched(o, q)
    PROVE  Inv'
<1> DEFINE d == Dir(o)
<1>1. /\ kind' = kind /\ timed' = timed /\ maxAborts' = maxAborts
      /\ m_fd' = m_fd /\ calls' = calls /\ closed' = closed
      /\ undefined' = undefined /\ onCaller' = onCaller /\ onCaller \subseteq Ops
      /\ m_abort_version' = m_abort_version /\ aborting' = aborting /\ closes' = closes
  BY DEF LoopStep, OnWatched, calls, Typed
<1>2. /\ \A x : Dir(x) \in Dirs
      /\ m_opt[d] = o /\ owner[d] = o /\ at[o] = "pending" /\ ~In(q, "start", o)
  BY DirType, NoneAssumption DEF LInv, Opts, Locks
<1>3. \A s \in {"start", "after", "unwatch", "stop", "timeout"} : ~In(q, s, o)
  BY <1>2, NoneAssumption DEF Events
<1>4. CASE Complete(o, "abort", q)
  <2>1. "abort" \in Results
    BY DEF Results
  <2>2. /\ m_opt' = [m_opt EXCEPT ![Dir(o)] = None]
        /\ m_watching' = [m_watching EXCEPT ![o] = FALSE]
        /\ CancelTimer(o) /\ Unlock(Dir(o), q) /\ Destroy(o, "abort")
    BY <1>4 DEF Complete
  <2>3. Typed' /\ LInv(s_evWait)' /\ Cardinality(Closing(s_evWait')) = Cardinality(Closing(q))
    BY <1>1, <1>2, <1>3, <2>1, <2>2, Ended
  <2> QED
    BY <2>3, <1>1 DEF Inv, Closes
<1>5. CASE /\ s_evWait' = <<Task("after", o)>> \o q
           /\ m_watching' = [m_watching EXCEPT ![o] = FALSE]
           /\ UNCHANGED <<lock, m_opt, object, timer, result>>
  <2>1. /\ owner' = owner /\ waiters' = waiters /\ at' = at /\ version' = version
        /\ born' = born /\ m_timedout' = m_timedout /\ timer' = timer /\ result' = result
        /\ m_opt' = m_opt
    BY <1>5 DEF lock, object
  <2>2. Typed' /\ ~m_watching'[o] /\ \A x \in Ops : x # o => m_watching'[x] = m_watching[x]
    BY <1>1, <1>5, <2>1 DEF Typed
  <2>3. Returned' = Returned /\ \A x : Dir(x)' = Dir(x)
    BY <1>1, Primed DEF Returned
  <2>4. Task("after", o) \in Tasks /\ Task("after", o).t = "after"
    BY DEF Task, Tasks
  <2>5. /\ List(s_evWait')
        /\ \A s, x : In(s_evWait', s, x) <=> In(q, s, x) \/ (s = "after" /\ x = o)
        /\ \A x : AbortBehind(s_evWait', x) => AbortBehind(q, x)
    <3>1. "after" \notin Events /\ List(q)
      BY DEF Events, LInv
    <3>2. s_evWait' = Push(q, Task("after", o))
      BY <1>5 DEF Push
    <3> QED
      BY <3>1, <3>2, <2>4, ListPush
  <2>6. Cardinality(Closing(s_evWait')) = Cardinality(Closing(q))
    <3>1. q \in Seq(Tasks)
      BY DEF LInv, List
    <3> QED
      BY <3>1, <1>5, <2>4, ClosingPush, ClosingFinite DEF Push
  <2>7. Locks(s_evWait)'
    BY <2>1, <2>2, <2>3, <2>5 DEF LInv, Locks
  <2>8. Opts(s_evWait)'
    <3>1. \A x \in Ops : In(s_evWait', "after", x) =>
             m_opt[Dir(x)] = x /\ ~m_watching'[x] /\ ~In(s_evWait', "start", x)
      BY <1>2, <2>2, <2>5 DEF LInv, Opts
    <3>2. \A x \in Ops : In(s_evWait', "unwatch", x) => m_watching'[x]
      BY <1>3, <2>2, <2>5 DEF LInv, Opts
    <3>3. \A x \in Ops : In(s_evWait', "stop", x) => m_opt[Dir(x)] = x
      BY <2>5 DEF LInv, Opts
    <3> QED
      BY <2>1, <2>2, <2>3, <3>1, <3>2, <3>3 DEF LInv, Opts
  <2>9. Timeouts(s_evWait)'
    BY <1>1, <2>1, <2>2, <2>5 DEF LInv, Timeouts, Typed
  <2>10. Aborts(s_evWait)'
    BY <1>1, <2>1, <2>3, <2>5 DEF LInv, Aborts
  <2> QED
    BY <1>1, <2>2, <2>5, <2>6, <2>7, <2>8, <2>9, <2>10, Primed DEF Inv, LInv, Closes
<1> QED
  BY <1>4, <1>5 DEF OnWatched

(* after_unwatch().                                                        *)
LEMMA AfterUnwatchInv ==
    ASSUME NEW q, Typed, LInv(q), LoopStep, NEW o \in Ops, m_opt[Dir(o)] = o, ~m_watching[o],
           ~In(q, "start", o),
           \A s, x : In(q, s, x) /\ s \notin Events => x = None \/ Dir(x) # Dir(o),
           closed + Cardinality(Closing(q)) = closes, AfterUnwatch(o, q)
    PROVE  Inv'
<1>1. /\ kind' = kind /\ timed' = timed /\ maxAborts' = maxAborts
      /\ m_fd' = m_fd /\ calls' = calls /\ closed' = closed
      /\ undefined' = undefined /\ onCaller' = onCaller /\ onCaller \subseteq Ops
      /\ m_abort_version' = m_abort_version /\ aborting' = aborting /\ closes' = closes
  BY DEF LoopStep, AfterUnwatch, calls, Typed
<1>2. (\A x : Dir(x) \in Dirs) /\ owner[Dir(o)] = o /\ at[o] = "pending"
  BY DirType, NoneAssumption DEF LInv, Opts
<1>3. \A s \in {"start", "after", "unwatch", "stop", "timeout"} : ~In(q, s, o)
  BY <1>2, NoneAssumption DEF Events
<1>4. CASE Complete(o, "final", q)
  <2>1. "final" \in Results
    BY DEF Results
  <2>2. /\ m_opt' = [m_opt EXCEPT ![Dir(o)] = None]
        /\ m_watching' = [m_watching EXCEPT ![o] = FALSE]
        /\ CancelTimer(o) /\ Unlock(Dir(o), q) /\ Destroy(o, "final")
    BY <1>4 DEF Complete
  <2>3. Typed' /\ LInv(s_evWait)' /\ Cardinality(Closing(s_evWait')) = Cardinality(Closing(q))
    BY <1>1, <1>2, <1>3, <2>1, <2>2, Ended
  <2> QED
    BY <2>3, <1>1 DEF Inv, Closes
<1>5. CASE /\ s_evWait' = Post(q, Task("start", o))
           /\ UNCHANGED <<lock, m_opt, m_watching, object, timer, result>>
  <2>1. /\ owner' = owner /\ waiters' = waiters /\ at' = at /\ version' = version
        /\ born' = born /\ m_timedout' = m_timedout /\ timer' = timer /\ result' = result
        /\ m_opt' = m_opt /\ m_watching' = m_watching
    BY <1>5 DEF lock, object
  <2>2. Typed' /\ Returned' = Returned /\ \A x : Dir(x)' = Dir(x)
    BY <1>1, <2>1, Primed DEF Returned, Typed
  <2>3. Task("start", o) \in Tasks /\ Task("start", o).t = "start"
    BY DEF Task, Tasks
  <2>4. /\ List(s_evWait')
        /\ \A s, x : In(s_evWait', s, x) <=> In(q, s, x) \/ (s = "start" /\ x = o)
        /\ \A x : AbortBehind(s_evWait', x) => AbortBehind(q, x)
    <3>1. "start" \in Events /\ "start" # "abort" /\ List(q)
      BY DEF Events, LInv
    <3> QED
      BY <3>1, <2>3, <1>5, ListPost
  <2>5. Cardinality(Closing(s_evWait')) = Cardinality(Closing(q))
    <3>1. q \in Seq(Tasks)
      BY DEF LInv, List
    <3> QED
      BY <3>1, <1>5, <2>3, ClosingPost, ClosingFinite DEF Post
  <2>6. Locks(s_evWait)'
    <3>1. \A d \in Dirs : ~Waits(waiters[d], o)
      BY <1>2 DEF LInv, Locks
    <3>2. \A x \in Ops : In(s_evWait', "start", x) <=> In(q, "start", x) \/ x = o
      BY <2>4
    <3>3. \A d \in Dirs, x \in Ops : Waits(waiters[d], x) =>
             Dir(x) = d /\ at[x] = "pending" /\ owner[d] # x /\ ~In(s_evWait', "start", x)
      BY <3>1, <3>2 DEF LInv, Locks
    <3>4. \A x \in Ops : at[x] = "trying" => owner[Dir(x)] = x /\ ~In(s_evWait', "start", x)
      BY <1>2, <3>2 DEF LInv, Locks
    <3>5. \A x \in Ops : In(s_evWait', "start", x) =>
             \/ at[x] = "pending" /\ owner[Dir(x)] = x /\ ~m_watching[x]
             \/ at[x] = "destroyed" /\ result[x] = "abort"
      BY <1>2, <3>2 DEF LInv, Locks
    <3> QED
      BY <2>1, <2>2, <3>3, <3>4, <3>5 DEF LInv, Locks
  <2>7. Opts(s_evWait)'
    BY <1>3, <2>1, <2>2, <2>4 DEF LInv, Opts
  <2>8. Timeouts(s_evWait)'
    BY <1>1, <2>1, <2>2, <2>4 DEF LInv, Timeouts, Typed
  <2>9. Aborts(s_evWait)'
    BY <1>1, <2>1, <2>2, <2>4 DEF LInv, Aborts
  <2> QED
    BY <1>1, <2>2, <2>4, <2>5, <2>6, <2>7, <2>8, <2>9, Primed DEF Inv, LInv, Closes
<1> QED
  BY <1>4, <1>5 DEF AfterUnwatch

(* CancelEvent::start().                                                   *)
LEMMA CancelEventInv ==
    ASSUME NEW q, Typed, LInv(q), LoopStep, NEW o \in Ops, timer[o] \in {"fired", "cancelled"},
           \A s, x : In(q, s, x) => s \in Events,
           closed + Cardinality(Closing(q)) = closes, CancelEvent(o, q)
    PROVE  Inv'
<1>1. /\ kind' = kind /\ timed' = timed /\ maxAborts' = maxAborts
      /\ m_fd' = m_fd /\ closed' = closed
      /\ undefined' = undefined /\ onCaller' = onCaller
      /\ m_abort_version' = m_abort_version /\ aborting' = aborting /\ closes' = closes
      /\ owner' = owner /\ waiters' = waiters /\ at' = at /\ version' = version
      /\ born' = born /\ m_timedout' = m_timedout /\ timer' = timer /\ result' = result
      /\ m_opt' = m_opt /\ m_watching' = m_watching
  BY DEF LoopStep, CancelEvent, calls, lock, object
<1>2. Typed' /\ Returned' = Returned /\ \A x : Dir(x)' = Dir(x)
  BY <1>1, Primed DEF Returned, Typed
<1>3. /\ List(s_evWait') /\ Cardinality(Closing(s_evWait')) = Cardinality(Closing(q))
      /\ \A s, x : In(s_evWait', s, x) =>
            In(q, s, x) \/ (s = "timeout" /\ x = o /\ timer[o] = "fired")
      /\ \A x : AbortBehind(s_evWait', x) => AbortBehind(q, x)
  <2>1. CASE timer[o] = "cancelled"
    BY <2>1 DEF CancelEvent, LInv
  <2>2. CASE timer[o] = "fired"
    <3>1. s_evWait' = Push(q, Task("timeout", o))
      BY <2>2 DEF CancelEvent, Push
    <3>2. /\ "timeout" \notin Events /\ List(q) /\ q \in Seq(Tasks)
          /\ Task("timeout", o) \in Tasks /\ Task("timeout", o).t = "timeout"
      BY DEF Events, LInv, List, Task, Tasks
    <3>3. /\ List(s_evWait')
          /\ \A s, x : In(s_evWait', s, x) <=> In(q, s, x) \/ (s = "timeout" /\ x = o)
          /\ \A x : AbortBehind(s_evWait', x) => AbortBehind(q, x)
      BY <3>1, <3>2, ListPush
    <3>4. Cardinality(Closing(s_evWait')) = Cardinality(Closing(q))
      BY <3>1, <3>2, ClosingPush, ClosingFinite
    <3> QED
      BY <3>3, <3>4, <2>2
  <2> QED
    BY <2>1, <2>2
<1>4. Locks(s_evWait)'
  BY <1>1, <1>2, <1>3 DEF LInv, Locks
<1>5. Opts(s_evWait)'
  BY <1>1, <1>2, <1>3 DEF LInv, Opts
<1>6. Timeouts(s_evWait)'
  BY <1>1, <1>2, <1>3 DEF LInv, Timeouts, Typed
<1>7. Aborts(s_evWait)'
  BY <1>1, <1>2, <1>3 DEF LInv, Aborts
<1> QED
  BY <1>1, <1>2, <1>3, <1>4, <1>5, <1>6, <1>7, Primed DEF Inv, LInv, Closes

(* on_timeout().                                                           *)
LEMMA OnTimeoutInv ==
    ASSUME NEW q, Typed, LInv(q), LoopStep, NEW o \in Ops,
           \A s, x : In(q, s, x) /\ s \notin Events => x = None \/ Dir(x) # Dir(o),
           closed + Cardinality(Closing(q)) = closes, OnTimeout(o, q)
    PROVE  Inv'
<1>1. /\ kind' = kind /\ timed' = timed /\ maxAborts' = maxAborts
      /\ m_fd' = m_fd /\ calls' = calls /\ closed' = closed
      /\ undefined' = undefined /\ onCaller' = onCaller /\ onCaller \subseteq Ops
      /\ m_abort_version' = m_abort_version /\ aborting' = aborting /\ closes' = closes
  BY DEF LoopStep, OnTimeout, calls, Typed
<1>2. CASE m_opt[Dir(o)] = o /\ m_watching[o] /\ Complete(o, "timeout", q)
  <2>1. (\A x : Dir(x) \in Dirs) /\ owner[Dir(o)] = o /\ at[o] = "pending" /\ ~In(q, "start", o)
    BY <1>2, DirType, NoneAssumption DEF LInv, Opts, Locks
  <2>2. \A s \in {"start", "after", "unwatch", "stop", "timeout"} : ~In(q, s, o)
    BY <2>1, NoneAssumption DEF Events
  <2>3. "timeout" \in Results
    BY DEF Results
  <2>4. /\ m_opt' = [m_opt EXCEPT ![Dir(o)] = None]
        /\ m_watching' = [m_watching EXCEPT ![o] = FALSE]
        /\ CancelTimer(o) /\ Unlock(Dir(o), q) /\ Destroy(o, "timeout")
    BY <1>2 DEF Complete
  <2>5. Typed' /\ LInv(s_evWait)' /\ Cardinality(Closing(s_evWait')) = Cardinality(Closing(q))
    BY <1>1, <2>1, <2>2, <2>3, <2>4, Ended
  <2> QED
    BY <2>5, <1>1 DEF Inv, Closes
<1>3. CASE MarkTimedout(o, q)
  <2>1. /\ owner' = owner /\ waiters' = waiters /\ at' = at /\ version' = version
        /\ born' = born /\ timer' = timer /\ result' = result
        /\ m_opt' = m_opt /\ m_watching' = m_watching /\ s_evWait' = q
        /\ m_timedout' \in [Ops -> BOOLEAN]
    BY <1>3 DEF MarkTimedout, lock, Typed
  <2>2. Typed' /\ Returned' = Returned /\ \A x : Dir(x)' = Dir(x)
    BY <1>1, <2>1, Primed DEF Returned, Typed
  <2>3. Locks(q)'
    BY <2>1, <2>2 DEF LInv, Locks
  <2>4. Opts(q)'
    BY <2>1, <2>2 DEF LInv, Opts
  <2>5. Timeouts(q)'
    BY <1>1, <2>1, <2>2 DEF LInv, Timeouts, Typed
  <2>6. Aborts(q)'
    BY <1>1, <2>1, <2>2 DEF LInv, Aborts
  <2>7. List(s_evWait)'
    BY <1>1, <2>1, Primed DEF LInv
  <2> QED
    BY <1>1, <2>1, <2>2, <2>3, <2>4, <2>5, <2>6, <2>7 DEF Inv, LInv, Closes
<1> QED
  BY <1>2, <1>3 DEF OnTimeout

(* asyncClose and asyncAbort: a step for each of the current operations of S. *)
LEMMA CurrentList ==
    ASSUME NEW q, List(q), \A s, x : In(q, s, x) /\ s \notin Events => x = None,
           NEW t \in {"unwatch", "stop"}, NEW S, S \subseteq Ops, Typed,
           \A d \in Dirs : m_opt[d] # None => Dir(m_opt[d]) = d,
           NEW p, p = Current(t, S) \o q
    PROVE  /\ List(p) /\ Cardinality(Closing(p)) = Cardinality(Closing(q))
           /\ \A s, x : In(p, s, x) =>
                 In(q, s, x) \/ (s = t /\ x \in S /\ m_opt[Dir(x)] = x)
           /\ \A x : AbortBehind(p, x) => AbortBehind(q, x)
<1> DEFINE due(d) == IF m_opt[d] \in S THEN <<Task(t, m_opt[d])>> ELSE << >>
<1>1. /\ t \notin Events /\ t \notin {"close", "closed"} /\ q \in Seq(Tasks)
      /\ "Recv" \in Dirs /\ "Send" \in Dirs
  BY DEF Events, List, Dirs
<1>2. \A d \in Dirs : m_opt[d] \in S => /\ Task(t, m_opt[d]) \in Tasks
                                        /\ Task(t, m_opt[d]).t = t
                                        /\ m_opt[d] # None /\ Dir(m_opt[d]) = d
  BY NoneAssumption DEF Task, Tasks
<1>3. ASSUME NEW d \in Dirs, NEW r, List(r),
             \A s, x : In(r, s, x) /\ s \notin Events => x = None \/ Dir(x) # d
      PROVE  /\ List(due(d) \o r) /\ Cardinality(Closing(due(d) \o r)) = Cardinality(Closing(r))
             /\ \A s, x : In(due(d) \o r, s, x) =>
                   In(r, s, x) \/ (s = t /\ x = m_opt[d] /\ x \in S /\ Dir(x) = d)
             /\ \A x : AbortBehind(due(d) \o r, x) => AbortBehind(r, x)
  <2>1. r \in Seq(Tasks)
    BY <1>3 DEF List
  <2>2. CASE m_opt[d] \in S
    <3>1. due(d) \o r = Push(r, Task(t, m_opt[d]))
      BY <2>2 DEF Push
    <3> HIDE DEF due
    <3>2. /\ List(due(d) \o r)
          /\ \A s, x : In(due(d) \o r, s, x) <=> In(r, s, x) \/ (s = t /\ x = m_opt[d])
          /\ \A x : AbortBehind(due(d) \o r, x) => AbortBehind(r, x)
      BY <3>1, <2>2, <1>1, <1>2, <1>3, ListPush
    <3>3. Cardinality(Closing(due(d) \o r)) = Cardinality(Closing(r))
      <4> DEFINE e == Task(t, m_opt[d])
      <4>1. e \in Tasks /\ e.t \notin {"close", "closed"}
        BY <2>2, <1>1, <1>2
      <4> HIDE DEF e
      <4>2. /\ Cardinality(Closing(Push(r, e))) =
                 Cardinality(Closing(r)) + IF e.t \in {"close", "closed"} THEN 1 ELSE 0
            /\ Cardinality(Closing(r)) \in Nat
        BY <4>1, <2>1, ClosingPush, ClosingFinite
      <4>3. Cardinality(Closing(Push(r, e))) = Cardinality(Closing(r))
        BY <4>1, <4>2
      <4> QED
        BY <4>3, <3>1 DEF e
    <3> QED
      BY <3>2, <3>3, <2>2, <1>2
  <2>3. CASE m_opt[d] \notin S
    <3>1. due(d) = << >>
      BY <2>3
    <3> HIDE DEF due
    <3>2. due(d) \o r = r
      BY <3>1, <2>1, ConcatEmptySeq
    <3> QED
      BY <3>2, <1>3
  <2> QED
    BY <2>2, <2>3
<1>4. \A d \in Dirs : due(d) \in Seq(Tasks)
  BY <1>2
<1>5. p = due("Recv") \o (due("Send") \o q)
  <2>1. p = (due("Recv") \o due("Send")) \o q
    BY DEF Current
  <2> HIDE DEF due
  <2> QED
    BY <2>1, <1>1, <1>4, ConcatAssociative
<1> HIDE DEF due
<1> DEFINE r == due("Send") \o q
<1>6. /\ List(r) /\ Cardinality(Closing(r)) = Cardinality(Closing(q))
      /\ \A s, x : In(r, s, x) =>
            In(q, s, x) \/ (s = t /\ x = m_opt["Send"] /\ x \in S /\ Dir(x) = "Send")
      /\ \A x : AbortBehind(r, x) => AbortBehind(q, x)
  BY <1>1, <1>3
<1> HIDE DEF r
<1>7. \A s, x : In(r, s, x) /\ s \notin Events => x = None \/ Dir(x) # "Recv"
  BY <1>6
<1>8. /\ List(p) /\ Cardinality(Closing(p)) = Cardinality(Closing(r))
      /\ \A s, x : In(p, s, x) =>
            In(r, s, x) \/ (s = t /\ x = m_opt["Recv"] /\ x \in S /\ Dir(x) = "Recv")
      /\ \A x : AbortBehind(p, x) => AbortBehind(r, x)
  <2>1. p = due("Recv") \o r
    BY <1>5 DEF r
  <2> QED
    BY <2>1, <1>1, <1>3, <1>6, <1>7
<1> QED
  BY <1>6, <1>8

(* asyncClose::start().                                                    *)
LEMMA CloseEventInv ==
    ASSUME NEW q, Typed, LInv(q), LoopStep, \A s, x : In(q, s, x) => s \in Events,
           closed + Cardinality(Closing(q)) + 1 = closes, closed \in Nat,
           CloseEvent(q)
    PROVE  Inv'
<1>1. /\ kind' = kind /\ timed' = timed /\ maxAborts' = maxAborts
      /\ closed' = closed
      /\ undefined' = undefined /\ onCaller' = onCaller
      /\ m_abort_version' = m_abort_version /\ aborting' = aborting /\ closes' = closes
      /\ owner' = owner /\ waiters' = waiters /\ at' = at /\ version' = version
      /\ born' = born /\ m_timedout' = m_timedout /\ timer' = timer /\ result' = result
      /\ m_opt' = m_opt /\ m_watching' = m_watching /\ m_fd' = "INVALID_SOCKET"
  BY DEF LoopStep, CloseEvent, calls, lock, object
<1>2. Typed' /\ Returned' = Returned /\ \A x : Dir(x)' = Dir(x)
  BY <1>1, Primed DEF Returned, Typed
<1> DEFINE r == Push(q, Task("closed", None))
           W == {o \in Ops : m_watching[o]}
<1>3. /\ List(q) /\ q \in Seq(Tasks) /\ Task("closed", None) \in Tasks
      /\ Task("closed", None).t = "closed" /\ "closed" \notin Events
  BY DEF LInv, List, Task, Tasks, Events
<1>4. /\ List(r) /\ r \in Seq(Tasks)
      /\ \A s, x : In(r, s, x) <=> In(q, s, x) \/ (s = "closed" /\ x = None)
      /\ \A x : AbortBehind(r, x) => AbortBehind(q, x)
  <2>1. /\ List(r)
        /\ \A s, x : In(r, s, x) <=> In(q, s, x) \/ (s = "closed" /\ x = None)
        /\ \A x : AbortBehind(r, x) => AbortBehind(q, x)
    BY <1>3, ListPush
  <2> QED
    BY <2>1 DEF List
<1>5. Cardinality(Closing(r)) = Cardinality(Closing(q)) + 1 /\ Cardinality(Closing(q)) \in Nat
  BY <1>3, ClosingPush, ClosingFinite
<1>6. s_evWait' = (IF m_fd = "open" THEN Current("unwatch", W) ELSE << >>) \o r
  <2>1. s_evWait' = ((IF m_fd = "open" THEN Current("unwatch", W) ELSE << >>)
                        \o <<Task("closed", None)>>) \o q
    BY DEF CloseEvent
  <2>2. (IF m_fd = "open" THEN Current("unwatch", W) ELSE << >>) \in Seq(Tasks)
    <3>1. \A d \in Dirs : m_opt[d] \in W => Task("unwatch", m_opt[d]) \in Tasks
      BY DEF Task, Tasks
    <3> QED
      BY <3>1 DEF Current, Dirs
  <2>3. <<Task("closed", None)>> \in Seq(Tasks)
    BY <1>3
  <2>4. r = <<Task("closed", None)>> \o q
    BY DEF Push
  <2> DEFINE A == IF m_fd = "open" THEN Current("unwatch", W) ELSE << >>
             B == <<Task("closed", None)>>
  <2> HIDE DEF r, W, A, B
  <2>5. s_evWait' = (A \o B) \o q /\ A \in Seq(Tasks) /\ B \in Seq(Tasks) /\ r = B \o q
    BY <2>1, <2>2, <2>3, <2>4 DEF A, B
  <2>6. s_evWait' = A \o r
    BY <2>5, <1>3, ConcatAssociative
  <2> QED
    BY <2>6 DEF A
<1>7. \A d \in Dirs : m_opt[d] # None => Dir(m_opt[d]) = d
  BY DEF LInv, Opts, Locks
<1>8. /\ List(s_evWait') /\ Cardinality(Closing(s_evWait')) = Cardinality(Closing(r))
      /\ \A s, x : In(s_evWait', s, x) =>
            In(r, s, x) \/ (s = "unwatch" /\ x \in W /\ m_opt[Dir(x)] = x)
      /\ \A x : AbortBehind(s_evWait', x) => AbortBehind(r, x)
  <2> HIDE DEF r
  <2>1. CASE m_fd = "open"
    <3>1. s_evWait' = Current("unwatch", W) \o r
      BY <2>1, <1>6
    <3>2. W \subseteq Ops /\ \A s, x : In(r, s, x) /\ s \notin Events => x = None
      BY <1>4
    <3> HIDE DEF W
    <3> QED
      <4>1. "unwatch" \in {"unwatch", "stop"} /\ List(r)
        BY <1>4
      <4>2. /\ List(s_evWait') /\ Cardinality(Closing(s_evWait')) = Cardinality(Closing(r))
            /\ \A s, x : In(s_evWait', s, x) =>
                  In(r, s, x) \/ (s = "unwatch" /\ x \in W /\ m_opt[Dir(x)] = x)
            /\ \A x : AbortBehind(s_evWait', x) => AbortBehind(r, x)
        BY <4>1, <3>1, <3>2, <1>7, CurrentList, Zenon
      <4> QED
        BY <4>2
  <2>2. CASE m_fd # "open"
    <3>1. s_evWait' = r
      BY <2>2, <1>4, <1>6, ConcatEmptySeq
    <3> QED
      BY <3>1, <1>4
  <2> QED
    BY <2>1, <2>2
<1>9. /\ \A s, x : In(s_evWait', s, x) => \/ In(q, s, x)
                                          \/ s = "closed"
                                          \/ s = "unwatch" /\ x \in Ops /\ m_watching[x]
      /\ \A x : AbortBehind(s_evWait', x) => AbortBehind(q, x)
      /\ Cardinality(Closing(s_evWait')) = Cardinality(Closing(q)) + 1
  BY <1>4, <1>5, <1>8
<1>10. Locks(s_evWait)'
  BY <1>1, <1>2, <1>9 DEF LInv, Locks
<1>11. Opts(s_evWait)'
  BY <1>1, <1>2, <1>9 DEF LInv, Opts
<1>12. Timeouts(s_evWait)'
  <2>1. \A x \in Ops : /\ In(s_evWait', "cancel", x) => In(q, "cancel", x)
                       /\ In(s_evWait', "timeout", x) => In(q, "timeout", x)
    BY <1>9
  <2> QED
    BY <1>1, <1>2, <2>1 DEF LInv, Timeouts, Typed
<1>13. Aborts(s_evWait)'
  BY <1>1, <1>2, <1>9 DEF LInv, Aborts
<1>14. Closes(s_evWait)'
  BY <1>1, <1>5, <1>9 DEF Closes
<1> QED
  BY <1>1, <1>2, <1>8, <1>10, <1>11, <1>12, <1>13, <1>14, Primed DEF Inv, LInv

(* The answer to close().                                                  *)
LEMMA CloseAnswerInv ==
    ASSUME NEW q, Typed, LInv(q), LoopStep,
           closed + Cardinality(Closing(q)) + 1 = closes, closed \in Nat,
           Cardinality(Closing(q)) \in Nat, CloseAnswer(q)
    PROVE  Inv'
<1>1. /\ kind' = kind /\ timed' = timed /\ maxAborts' = maxAborts
      /\ m_fd' = m_fd /\ closed' = closed + 1
      /\ undefined' = undefined /\ onCaller' = onCaller
      /\ m_abort_version' = m_abort_version /\ aborting' = aborting /\ closes' = closes
      /\ owner' = owner /\ waiters' = waiters /\ at' = at /\ version' = version
      /\ born' = born /\ m_timedout' = m_timedout /\ timer' = timer /\ result' = result
      /\ m_opt' = m_opt /\ m_watching' = m_watching /\ s_evWait' = q
  BY DEF LoopStep, CloseAnswer, calls, lock, object
<1>2. Typed' /\ Returned' = Returned /\ \A x : Dir(x)' = Dir(x)
  BY <1>1, Primed DEF Returned, Typed
<1>3. Locks(q)'
  BY <1>1, <1>2 DEF LInv, Locks
<1>4. Opts(q)'
  BY <1>1, <1>2 DEF LInv, Opts
<1>5. Timeouts(q)'
  BY <1>1, <1>2 DEF LInv, Timeouts, Typed
<1>6. Aborts(q)'
  BY <1>1, <1>2 DEF LInv, Aborts
<1>7. List(s_evWait)' /\ Closes(s_evWait)'
  BY <1>1, Primed DEF LInv, Closes
<1> QED
  BY <1>1, <1>2, <1>3, <1>4, <1>5, <1>6, <1>7 DEF Inv, LInv

(* asyncAbort::start(): the operations it stops are older than the abort.   *)
LEMMA AbortEventInv ==
    ASSUME NEW q, Typed, LInv(q), LoopStep, \A s, x : In(q, s, x) => s \in Events,
           closed + Cardinality(Closing(q)) = closes,
           \A o \in Ops : m_opt[Dir(o)] = o => born[o] < Returned, AbortEvent(q)
    PROVE  Inv'
<1>1. /\ kind' = kind /\ timed' = timed /\ maxAborts' = maxAborts
      /\ m_fd' = m_fd /\ closed' = closed
      /\ undefined' = undefined /\ onCaller' = onCaller
      /\ m_abort_version' = m_abort_version /\ aborting' = aborting /\ closes' = closes
      /\ owner' = owner /\ waiters' = waiters /\ at' = at /\ version' = version
      /\ born' = born /\ m_timedout' = m_timedout /\ timer' = timer /\ result' = result
      /\ m_opt' = m_opt /\ m_watching' = m_watching
  BY DEF LoopStep, AbortEvent, calls, lock, object
<1>2. Typed' /\ Returned' = Returned /\ \A x : Dir(x)' = Dir(x)
  BY <1>1, Primed DEF Returned, Typed
<1>3. \A d \in Dirs : m_opt[d] # None => Dir(m_opt[d]) = d
  BY DEF LInv, Opts, Locks
<1>4. /\ List(s_evWait') /\ Cardinality(Closing(s_evWait')) = Cardinality(Closing(q))
      /\ \A s, x : In(s_evWait', s, x) =>
            In(q, s, x) \/ (s = "stop" /\ x \in Ops /\ m_opt[Dir(x)] = x)
      /\ \A x : AbortBehind(s_evWait', x) => AbortBehind(q, x)
  <2>1. s_evWait' = Current("stop", Ops) \o q /\ List(q)
    BY DEF AbortEvent, LInv
  <2> QED
    BY <2>1, <1>3, CurrentList
<1>5. Locks(s_evWait)'
  BY <1>1, <1>2, <1>4 DEF LInv, Locks
<1>6. Opts(s_evWait)'
  BY <1>1, <1>2, <1>4 DEF LInv, Opts
<1>7. Timeouts(s_evWait)'
  BY <1>1, <1>2, <1>4 DEF LInv, Timeouts, Typed
<1>8. Aborts(s_evWait)'
  BY <1>1, <1>2, <1>4 DEF LInv, Aborts
<1>9. Closes(s_evWait)'
  BY <1>1, <1>4 DEF Closes
<1> QED
  BY <1>1, <1>2, <1>4, <1>5, <1>6, <1>7, <1>8, <1>9, Primed DEF Inv, LInv

(* ready(abort) of a current operation.                                    *)
LEMMA AbortCurrentInv ==
    ASSUME NEW q, Typed, LInv(q), LoopStep, NEW o \in Ops, m_opt[Dir(o)] = o,
           \A s, x : In(q, s, x) /\ s \notin Events => x = None \/ Dir(x) # Dir(o),
           closed + Cardinality(Closing(q)) = closes, AbortCurrent(o, q)
    PROVE  Inv'
<1>1. /\ kind' = kind /\ timed' = timed /\ maxAborts' = maxAborts
      /\ m_fd' = m_fd /\ calls' = calls /\ closed' = closed
      /\ undefined' = undefined /\ onCaller' = onCaller /\ onCaller \subseteq Ops
      /\ m_abort_version' = m_abort_version /\ aborting' = aborting /\ closes' = closes
  BY DEF LoopStep, AbortCurrent, calls, Typed
<1>2. (\A x : Dir(x) \in Dirs) /\ owner[Dir(o)] = o /\ at[o] = "pending"
  BY DirType, NoneAssumption DEF LInv, Opts
<1>3. \A s \in {"after", "unwatch", "stop", "timeout"} : ~In(q, s, o)
  BY <1>2, NoneAssumption DEF Events
<1>4. "abort" \in Results
  BY DEF Results
<1>5. /\ m_opt' = [m_opt EXCEPT ![Dir(o)] = None]
      /\ m_watching' = [m_watching EXCEPT ![o] = FALSE]
      /\ CancelTimer(o) /\ Unlock(Dir(o), q) /\ Destroy(o, "abort")
  BY DEF AbortCurrent, Complete
<1>6. Typed' /\ LInv(s_evWait)' /\ Cardinality(Closing(s_evWait')) = Cardinality(Closing(q))
  BY <1>1, <1>2, <1>3, <1>4, <1>5, Ended
<1> QED
  BY <1>6, <1>1 DEF Inv, Closes

-----------------------------------------------------------------------------
(* No operation was made yet.                                              *)
LEMMA InitInv == Init => Inv
<1> SUFFICES ASSUME Init PROVE Inv
  OBVIOUS
<1>1. /\ s_evWait = << >> /\ \A d \in Dirs : owner[d] = None /\ waiters[d] = << >> /\ m_opt[d] = None
      /\ \A o \in Ops : /\ at[o] = "new" /\ ~m_watching[o] /\ timer[o] = "off"
                        /\ version[o] = 0 /\ born[o] = 0
      /\ aborting = 0 /\ closes = 0 /\ closed = 0 /\ m_abort_version = 0
  BY DEF Init
<1>2. s_evWait \in Seq(Tasks) /\ Len(s_evWait) = 0 /\ 1..Len(s_evWait) = {}
  BY <1>1
<1>3. /\ \A s, o : ~In(s_evWait, s, o) /\ ~AbortBehind(s_evWait, o)
      /\ \A o : ~Waits(<< >>, o) /\ NoneTwice(<< >>)
  BY <1>2 DEF In, AbortBehind, Waits, NoneTwice
<1>4. \A o : Dir(o) \in Dirs
  BY DirType
<1>5. Typed
  <2>1. << >> \in Seq(Ops)
    OBVIOUS
  <2>2. owner \in [Dirs -> Ops \cup {None}] /\ waiters \in [Dirs -> Seq(Ops)]
    BY <2>1 DEF Init
  <2>3. /\ version \in [Ops -> Nat] /\ born \in [Ops -> Nat]
        /\ m_abort_version \in Nat /\ closes \in 0..MaxCloses
    BY BoundAssumption DEF Init
  <2>4. [kind |-> kind, timed |-> timed, aborts |-> maxAborts] \in Plans
    <3>1. PICK p \in Plans : kind = p.kind /\ timed = p.timed /\ maxAborts = p.aborts
      BY DEF Init
    <3>2. p = [kind |-> p.kind, timed |-> p.timed, aborts |-> p.aborts]
      BY PlansAssumption
    <3> QED
      BY <3>1, <3>2
  <2> QED
    BY <2>2, <2>3, <2>4 DEF Init, Typed
<1>6. List(s_evWait)
  BY <1>2 DEF List, BegunFirst, Apart, StartedOnce
<1>7. Locks(s_evWait)
  BY <1>1, <1>3 DEF Locks
<1>8. Opts(s_evWait)
  BY <1>1, <1>3 DEF Opts
<1>9. Timeouts(s_evWait)
  <2>1. ASSUME NEW o \in Ops
        PROVE  at[o] # "destroyed" /\ timer[o] = "off"
    BY <1>1
  <2> QED
    BY <2>1, <1>3, Zenon DEF Timeouts
<1>10. Aborts(s_evWait)
  BY <1>1, <1>3, <1>4, NoneAssumption DEF Aborts
<1>11. Closes(s_evWait)
  <2>1. Closing(s_evWait) = {}
    BY <1>2 DEF Closing
  <2> QED
    BY <2>1, <1>1, FS_EmptySet DEF Closes
<1> QED
  BY <1>5, <1>6, <1>7, <1>8, <1>9, <1>10, <1>11 DEF Inv, LInv

(* A step that changes at most the mark of undefined behaviour.            *)
LEMMA StutterInv ==
    ASSUME Inv, m_fd' = m_fd, lock' = lock, m_opt' = m_opt, s_evWait' = s_evWait,
           object' = object, m_watching' = m_watching, timer' = timer, result' = result,
           kind' = kind, timed' = timed, maxAborts' = maxAborts,
           closed' = closed, calls' = calls, onCaller' = onCaller,
           undefined' \in BOOLEAN
    PROVE  Inv'
<1>1. /\ owner' = owner /\ waiters' = waiters /\ at' = at /\ version' = version
      /\ born' = born /\ m_timedout' = m_timedout /\ m_abort_version' = m_abort_version
      /\ aborting' = aborting /\ closes' = closes
  BY DEF lock, object, calls
<1>2. Typed' /\ Returned' = Returned /\ \A x : Dir(x)' = Dir(x)
  BY <1>1, Primed DEF Returned, Typed, Inv
<1>3. Locks(s_evWait)'
  BY <1>1, <1>2 DEF Inv, LInv, Locks
<1>4. Opts(s_evWait)'
  BY <1>1, <1>2 DEF Inv, LInv, Opts
<1>5. Timeouts(s_evWait)'
  BY <1>1, <1>2 DEF Inv, LInv, Timeouts, Typed
<1>6. Aborts(s_evWait)'
  BY <1>1, <1>2 DEF Inv, LInv, Aborts
<1>7. List(s_evWait)' /\ Closes(s_evWait)'
  BY <1>1, Primed DEF Inv, LInv, Closes
<1> QED
  BY <1>2, <1>3, <1>4, <1>5, <1>6, <1>7 DEF Inv, LInv

(* A task of the loop thread.                                              *)
LEMMA RunTaskInv ==
    ASSUME Inv, LoopStep, s_evWait # << >>, NEW e, e = Head(s_evWait),
           e.x # None /\ e.t # "cancel" => at[e.x] # "destroyed",
           NEW q, q = Tail(s_evWait), RunTask(e, q)
    PROVE  Inv'
<1>1. /\ Typed /\ LInv(q) /\ LInv(s_evWait) /\ e \in Tasks /\ In(s_evWait, e.t, e.x)
      /\ \A s, o : In(q, s, o) /\ s \notin Events =>
            e.t \notin Events /\ (o # None /\ e.x # None => Dir(o) # Dir(e.x))
      /\ closed + Cardinality(Closing(q))
                + (IF e.t \in {"close", "closed"} THEN 1 ELSE 0) = closes
      /\ Cardinality(Closing(q)) \in Nat /\ closed \in Nat
  BY HeadFacts
<1>2. e.t \notin {"close", "closed", "abort"} => e.x \in Ops /\ e.x # None
  BY <1>1, NoneAssumption DEF Tasks
<1>3. e.t \notin {"close", "closed"} => closed + Cardinality(Closing(q)) = closes
  BY <1>1
<1>4. e.t \in {"close", "closed"} => closed + Cardinality(Closing(q)) + 1 = closes
  BY <1>1
<1>5. CASE e.t = "start" /\ Start(e.x, q)
  <2>1. at[e.x] # "destroyed"
    BY <1>2, <1>5
  <2> QED
    BY <2>1, <1>5, StartInv
<1>6. CASE e.t = "after" /\ AfterUnwatch(e.x, q)
  <2>1. m_opt[Dir(e.x)] = e.x /\ ~m_watching[e.x] /\ ~In(s_evWait, "start", e.x) /\ e.x \in Ops
    BY <1>1, <1>2, <1>6 DEF LInv, Opts
  <2>2. ~In(q, "start", e.x)
    <3>1. \A s, o : In(q, s, o) => In(s_evWait, s, o)
      BY ListTail DEF Inv, LInv
    <3> QED
      BY <2>1, <3>1
  <2>3. \A s, x : In(q, s, x) /\ s \notin Events => x = None \/ Dir(x) # Dir(e.x)
    BY <1>1, <1>2, <1>6
  <2>4. closed + Cardinality(Closing(q)) = closes
    BY <1>3, <1>6
  <2> QED
    BY <2>1, <2>2, <2>3, <2>4, <1>1, <1>6, AfterUnwatchInv, Zenon
<1>7. CASE e.t = "cancel" /\ CancelEvent(e.x, q)
  <2>1. timer[e.x] \in {"fired", "cancelled"} /\ e.x \in Ops
    BY <1>1, <1>2, <1>7 DEF LInv, Timeouts, Typed
  <2>2. \A s, x : In(q, s, x) => s \in Events
    BY <1>1, <1>7 DEF Events
  <2>3. closed + Cardinality(Closing(q)) = closes
    BY <1>3, <1>7
  <2> QED
    BY <2>1, <2>2, <2>3, <1>1, <1>7, CancelEventInv, Zenon
<1>8. CASE e.t = "timeout" /\ OnTimeout(e.x, q)
  <2>1. \A s, x : In(q, s, x) /\ s \notin Events => x = None \/ Dir(x) # Dir(e.x)
    BY <1>1, <1>2, <1>8
  <2>2. closed + Cardinality(Closing(q)) = closes /\ e.x \in Ops
    BY <1>2, <1>3, <1>8
  <2> QED
    BY <2>1, <2>2, <1>1, <1>8, OnTimeoutInv, Zenon
<1>9. CASE e.t = "close" /\ CloseEvent(q)
  <2>1. \A s, x : In(q, s, x) => s \in Events
    BY <1>1, <1>9 DEF Events
  <2>2. closed + Cardinality(Closing(q)) + 1 = closes
    BY <1>4, <1>9
  <2> QED
    BY <2>1, <2>2, <1>1, <1>9, CloseEventInv, Zenon
<1>10. CASE e.t = "unwatch" /\ OnWatched(e.x, q)
  <2>1. m_watching[e.x] /\ e.x \in Ops
    BY <1>1, <1>2, <1>10 DEF LInv, Opts
  <2>2. \A s, x : In(q, s, x) /\ s \notin Events => x = None \/ Dir(x) # Dir(e.x)
    BY <1>1, <1>2, <1>10
  <2>3. closed + Cardinality(Closing(q)) = closes
    BY <1>3, <1>10
  <2> QED
    BY <2>1, <2>2, <2>3, <1>1, <1>10, OnWatchedInv, Zenon
<1>11. CASE e.t = "closed" /\ CloseAnswer(q)
  <2>1. closed + Cardinality(Closing(q)) + 1 = closes
    BY <1>4, <1>11
  <2> QED
    BY <2>1, <1>1, <1>11, CloseAnswerInv, Zenon
<1>12. CASE e.t = "abort" /\ AbortEvent(q)
  <2>1. \A s, x : In(q, s, x) => s \in Events
    BY <1>1, <1>12 DEF Events
  <2>2. closed + Cardinality(Closing(q)) = closes
    BY <1>3, <1>12
  <2>3. e.x = None
    BY <1>1, <1>12, TaskFields
  <2>4. \A o \in Ops : m_opt[Dir(o)] = o => born[o] < Returned
    BY <2>3, <1>1, <1>12 DEF LInv, Aborts
  <2> QED
    BY <2>1, <2>2, <2>4, <1>1, <1>12, AbortEventInv, Zenon
<1>13. CASE e.t = "stop" /\ AbortCurrent(e.x, q)
  <2>1. m_opt[Dir(e.x)] = e.x /\ e.x \in Ops
    BY <1>1, <1>2, <1>13 DEF LInv, Opts
  <2>2. \A s, x : In(q, s, x) /\ s \notin Events => x = None \/ Dir(x) # Dir(e.x)
    BY <1>1, <1>2, <1>13
  <2>3. closed + Cardinality(Closing(q)) = closes
    BY <1>3, <1>13
  <2> QED
    BY <2>1, <2>2, <2>3, <1>1, <1>13, AbortCurrentInv, Zenon
<1> QED
  BY <1>5, <1>6, <1>7, <1>8, <1>9, <1>10, <1>11, <1>12, <1>13 DEF RunTask

(* The descriptor of a watched operation is ready.                         *)
LEMMA io_cbInv ==
    ASSUME Inv, NEW o \in Ops, io_cb(o), undefined' = undefined
    PROVE  Inv'
<1>1. /\ LoopStep /\ OnWatched(o, s_evWait) /\ m_watching[o] /\ Typed /\ LInv(s_evWait)
      /\ s_evWait # << >> => Head(s_evWait).t \in Events
  BY DEF io_cb, LoopStep, Inv, plan
<1>2. closed + Cardinality(Closing(s_evWait)) = closes
  BY DEF Inv, Closes
<1>3. ASSUME NEW s, NEW x, In(s_evWait, s, x), s \notin Events PROVE FALSE
  <2>1. List(s_evWait) /\ s_evWait \in Seq(Tasks)
    BY <1>1 DEF LInv, List
  <2>2. PICK i \in 1..Len(s_evWait) : s_evWait[i] = Task(s, x)
    BY <1>3 DEF In
  <2>3. s_evWait[i].t \notin Events
    BY <2>2, <1>3 DEF Task
  <2>4. s_evWait # << >> /\ 1 \in 1..Len(s_evWait) /\ Head(s_evWait) = s_evWait[1]
    BY <2>1, <2>2
  <2>5. s_evWait[1].t \in Events
    BY <1>1, <2>4
  <2>6. i # 1 /\ 1 < i
    BY <2>3, <2>5, <2>2
  <2> QED
    BY <2>1, <2>3, <2>4, <2>5, <2>6 DEF List, BegunFirst
<1>4. \A s, x : In(s_evWait, s, x) /\ s \notin Events => x = None \/ Dir(x) # Dir(o)
  BY <1>3
<1> QED
  BY <1>1, <1>2, <1>4, OnWatchedInv, Zenon

(* Every step of the callers, the timer thread and the loop thread keeps     *)
(* the invariant.                                                          *)
LEMMA NextInv == Inv /\ [Next]_vars => Inv'
<1> SUFFICES ASSUME Inv, [Next]_vars PROVE Inv'
  OBVIOUS
<1>1. CASE UNCHANGED vars
  BY <1>1, StutterInv DEF vars, Inv, Typed, plan
<1>2. CASE as_cb
  <2> DEFINE e == Head(s_evWait)
             q == Tail(s_evWait)
  <2>1. /\ s_evWait # << >> /\ kind' = kind /\ timed' = timed /\ maxAborts' = maxAborts
        /\ calls' = calls /\ onCaller' = onCaller
    BY <1>2 DEF as_cb, plan
  <2>2. CASE UseDestroyed
    BY <2>1, <2>2, StutterInv DEF UseDestroyed
  <2>3. CASE /\ ~(e.x # None /\ e.t # "cancel" /\ at[e.x] = "destroyed")
             /\ RunTask(e, q) /\ UNCHANGED undefined
    <3>1. LoopStep
      BY <2>1, <2>3 DEF LoopStep
    <3> HIDE DEF e, q
    <3>2. e = Head(s_evWait) /\ q = Tail(s_evWait)
      BY DEF e, q
    <3> QED
      BY <2>1, <2>3, <3>1, <3>2, RunTaskInv
  <2> QED
    BY <1>2, <2>2, <2>3 DEF as_cb, plan
<1>3. CASE Others /\ UNCHANGED undefined
  <2>1. CASE \E o \in Ops : Call(o) \/ Request(o) \/ TimerFires(o) \/ io_cb(o)
    BY <1>3, <2>1, CallInv, RequestLockInv, RequestTryInv, TimerFiresInv, io_cbInv
       DEF Request
  <2>2. CASE AbortVersion \/ AbortPost \/ close
    BY <1>3, <2>2, AbortVersionInv, AbortPostInv, closeInv
  <2> QED
    BY <1>3, <2>1, <2>2 DEF Others
<1> QED
  BY <1>1, <1>2, <1>3 DEF Next

(* The inductive invariant holds in every reachable state, whatever the      *)
(* operations, their timeouts and the calls of abort() and close().         *)
THEOREM Invariance == Spec => []Inv
  BY InitInv, NextInv, PTL DEF Spec

(* AsyncIO_ev.cpp keeps its pointers fresh: what m_RecvOpt and m_SendOpt     *)
(* point to is alive and owns the lock of its direction, and only such an    *)
(* operation is watched.                                                    *)
THEOREM CurrentHolds == Spec => []CurrentHoldsLock
<1>1. Inv => CurrentHoldsLock
  <2> SUFFICES ASSUME Inv PROVE CurrentHoldsLock
    OBVIOUS
  <2>1. s_evWait \in Seq(Tasks) /\ Typed
    BY DEF Inv, LInv, List
  <2>2. closed \in 0..MaxCloses
    <3>1. Cardinality(Closing(s_evWait)) \in Nat /\ closed + Cardinality(Closing(s_evWait)) = closes
      BY <2>1, ClosingFinite DEF Inv, Closes
    <3> QED
      BY <3>1, <2>1, BoundAssumption DEF Typed
  <2>3. TypeOK
    BY <2>1, <2>2 DEF TypeOK, Typed
  <2> QED
    BY <2>3 DEF Inv, LInv, Opts, CurrentHoldsLock
<1> QED
  BY <1>1, Invariance, PTL

(* complete() is the only exit, once and only once, but for the two windows  *)
(* that EndsOnce names.                                                     *)
THEOREM EndsOnceHolds == Spec => []EndsOnce
<1>1. Inv => EndsOnce
  <2> SUFFICES ASSUME Inv, NEW o \in Ops, at[o] = "destroyed"
               PROVE  /\ ~Owed("after", o) /\ ~Owed("unwatch", o) /\ ~Owed("stop", o)
                      /\ Owed("start", o) => result[o] = "abort"
                      /\ Owed("timeout", o) => o \in onCaller
    BY DEF EndsOnce
  <2>1. \A t : Owed(t, o) <=> In(s_evWait, t, o)
    BY DEF Owed, In
  <2>2. Dir(o) \in Dirs /\ m_opt[Dir(o)] # o
    BY DirType, NoneAssumption DEF Inv, LInv, Opts
  <2>3. ~m_watching[o] /\ ~In(s_evWait, "after", o) /\ ~In(s_evWait, "stop", o)
    BY <2>2 DEF Inv, LInv, Opts
  <2>4. ~In(s_evWait, "unwatch", o)
    BY <2>3 DEF Inv, LInv, Opts
  <2>5. In(s_evWait, "start", o) => result[o] = "abort"
    BY DEF Inv, LInv, Locks
  <2>6. In(s_evWait, "timeout", o) => o \in onCaller
    BY DEF Inv, LInv, Timeouts, Typed
  <2> QED
    BY <2>1, <2>3, <2>4, <2>5, <2>6
<1> QED
  BY <1>1, Invariance, PTL

(* An operation that start() or on_watched() finds aborted, or that          *)
(* asyncAbort stops, was begun before the abort() returned.                  *)
LEMMA AbortedIsOlder ==
    ASSUME Typed, NEW q, LInv(q), NEW o \in Ops, at[o] = "pending", Aborted(o)
    PROVE  m_abort_version > born[o]
<1>1. born[o] <= version[o] /\ version[o] <= m_abort_version /\ m_abort_version # version[o]
  BY DEF LInv, Aborts, Aborted
<1> QED
  BY <1>1 DEF Typed

(* A step that ends an operation with "abort" follows a later abort().     *)
LEMMA AbortStep ==
    ASSUME Inv, Next, NEW o \in Ops, result'[o] = "abort", result[o] = "none"
    PROVE  m_abort_version > born[o]
<1>1. Typed /\ LInv(s_evWait)
  BY DEF Inv
<1>2. ASSUME NEW x \in Ops, NEW hr \in Results, Destroy(x, hr) PROVE x = o /\ hr = "abort"
  BY <1>1, <1>2 DEF Destroy, Typed, Results
<1>3. result' # result
  OBVIOUS
<1>4. ASSUME NEW hr \in Results, NEW x, NEW q, Complete(x, hr, q), x \in Ops
      PROVE  x = o /\ hr = "abort"
  BY <1>2, <1>4 DEF Complete
<1>5. ASSUME NEW x, x \in Ops, NEW q, OnWatched(x, q) PROVE x = o /\ Aborted(o)
  <2>1. Complete(x, "abort", q) /\ Aborted(x)
    BY <1>5, <1>3 DEF OnWatched
  <2> QED
    BY <2>1, <1>4, <1>5 DEF Results
<1>6. ASSUME as_cb PROVE m_abort_version > born[o]
  <2> DEFINE e == Head(s_evWait)
             q == Tail(s_evWait)
  <2>1. /\ s_evWait # << >> /\ RunTask(e, q)
        /\ ~(e.x # None /\ e.t # "cancel" /\ at[e.x] = "destroyed")
    BY <1>3, <1>6 DEF as_cb, UseDestroyed, plan
  <2>2. LInv(q) /\ e \in Tasks /\ In(s_evWait, e.t, e.x)
    BY <2>1, HeadFacts
  <2> HIDE DEF e, q
  <2>3. e.t \notin {"close", "closed", "abort"} => e.x \in Ops /\ e.x # None
    BY <2>2, NoneAssumption DEF Tasks
  <2>4. CASE e.t = "start" /\ Start(e.x, q)
    <3>1. e.x \in Ops /\ at[e.x] = "pending"
      BY <2>1, <2>2, <2>3, <2>4, <1>1 DEF LInv, Locks
    <3>2. CASE CompleteKeepLock(e.x, q)
      BY <3>1, <3>2, <1>2 DEF CompleteKeepLock, Results
    <3>3. CASE Complete(e.x, "timeout", q)
      BY <3>1, <3>3, <1>4 DEF Results
    <3>4. CASE Complete(e.x, "abort", q) /\ Aborted(e.x)
      <4>1. e.x = o
        BY <3>1, <3>4, <1>4 DEF Results
      <4> QED
        BY <4>1, <3>1, <3>4, <1>1, AbortedIsOlder
    <3> QED
      BY <2>4, <3>2, <3>3, <3>4, <1>3 DEF Start
  <2>5. CASE e.t = "after" /\ AfterUnwatch(e.x, q)
    BY <2>3, <2>5, <1>3, <1>4 DEF AfterUnwatch, Results
  <2>6. CASE e.t = "timeout" /\ OnTimeout(e.x, q)
    BY <2>3, <2>6, <1>3, <1>4 DEF OnTimeout, MarkTimedout, Results
  <2>7. CASE e.t = "unwatch" /\ OnWatched(e.x, q)
    <3>1. e.x = o /\ Aborted(o) /\ e.x \in Ops /\ m_watching[e.x]
      BY <2>2, <2>3, <2>7, <1>1, <1>5 DEF LInv, Opts
    <3>2. at[o] = "pending"
      BY <3>1, <1>1, DirType, NoneAssumption DEF LInv, Opts
    <3> QED
      BY <3>1, <3>2, <1>1, AbortedIsOlder
  <2>8. CASE e.t = "stop" /\ AbortCurrent(e.x, q)
    <3>1. e.x = o
      BY <2>3, <2>8, <1>4 DEF AbortCurrent, Results
    <3>2. born[o] < Returned
      BY <3>1, <2>2, <2>8, <1>1 DEF LInv, Aborts
    <3> QED
      BY <3>2, <1>1 DEF Returned, Typed
  <2> QED
    BY <2>1, <2>4, <2>5, <2>6, <2>7, <2>8, <1>3
       DEF RunTask, CancelEvent, CloseEvent, CloseAnswer, AbortEvent
<1>7. ASSUME NEW x \in Ops, io_cb(x) PROVE m_abort_version > born[o]
  <2>1. x = o /\ Aborted(o) /\ m_watching[o]
    BY <1>5, <1>7 DEF io_cb, plan
  <2>2. at[o] = "pending"
    BY <2>1, <1>1, DirType, NoneAssumption DEF LInv, Opts
  <2> QED
    BY <2>1, <2>2, <1>1, AbortedIsOlder
<1>8. ASSUME NEW x \in Ops, Call(x) PROVE FALSE
  BY <1>2, <1>3, <1>8 DEF Call, Results, plan
<1>9. ASSUME NEW x \in Ops, RequestTry(x) PROVE FALSE
  BY <1>2, <1>3, <1>9 DEF RequestTry, Outcomes, Results, plan
<1> QED
  BY <1>3, <1>6, <1>7, <1>8, <1>9
     DEF Next, Others, Request, RequestLock, TimerFires, AbortVersion, AbortPost, close, plan

(* abort() leaves alone what is issued after it has returned.               *)
THEOREM AbortsOnlyEarlierHolds == Spec => AbortsOnlyEarlier
<1>1. Inv /\ [Next]_vars =>
        [\A o \in Ops : result'[o] = "abort" /\ result[o] = "none" => m_abort_version > born[o]]_vars
  BY AbortStep
<1> QED
  BY <1>1, Invariance, PTL DEF Spec, AbortsOnlyEarlier

=============================================================================
