-------------------------- MODULE MessagePortProofs --------------------------
(***************************************************************************)
(* A pair of ports implements an ordered channel, holds an isolate only     *)
(* with a flush on its way, and loses nothing while there is a listener,    *)
(* for any number of messages.                                             *)
(***************************************************************************)
EXTENDS MessagePort, SequenceTheorems, TLAPS

Member ==
    [m_peer : BOOLEAN, m_closed : BOOLEAN, m_started : BOOLEAN, m_keepalive_refed : BOOLEAN,
     m_flush_pending : BOOLEAN, m_holding : BOOLEAN, m_queue : Seq(1..MaxPosts)]
JobType == [kind : {"enqueue", "flush", "message", "close"}, port : Ports, msg : 0..MaxPosts]

FlushOf(r) == Job("flush", r, 0)
Carries(e, r) == e.port = r /\ e.kind \in {"message", "enqueue"}

(* The jobs of an isolate are of its own ports.  Only the channel of a      *)
(* worker has messages still to be enqueued, only a MessageChannel has      *)
(* messages that left the queue.                                           *)
Fits(h, e) ==
    /\ Home(e.port) = h
    /\ e.kind = "enqueue" => m_can_deliver_inline /\ e.msg # 0
    /\ e.kind = "message" => ~m_can_deliver_inline /\ e.msg # 0
    /\ e.kind = "flush" => e.msg = 0

JobsFit(h, js) == js \in Seq(JobType) /\ \A k \in 1..Len(js) : Fits(h, js[k])

(* m_flush_pending stands for one flush job, or for its loop.              *)
Flushing(r, m, js, d) ==
    /\ d => m.m_flush_pending
    /\ m.m_flush_pending => d \/ \E k \in 1..Len(js) : js[k] = FlushOf(r)
    /\ \A k \in 1..Len(js) : js[k] = FlushOf(r) =>
          m.m_flush_pending /\ ~d /\ \A l \in 1..Len(js) : js[l] = FlushOf(r) => l = k

(* Messages are everywhere in the order of their posts, those in event jobs *)
(* before those in the queue and these before those to be enqueued.        *)
Ordered(r, q, js, s) ==
    /\ \A k, l \in 1..Len(q) : k < l => q[k] < q[l]
    /\ \A k \in 1..Len(q) : q[k] <= s
    /\ \A k, l \in 1..Len(js) :
          k < l /\ Carries(js[k], r) /\ Carries(js[l], r) => js[k].msg < js[l].msg
    /\ \A k \in 1..Len(js) : Carries(js[k], r) =>
          /\ js[k].msg <= s
          /\ \A l \in 1..Len(q) : IF m_can_deliver_inline THEN q[l] < js[k].msg
                                                          ELSE js[k].msg < q[l]

Holds(m) == m.m_holding => m.m_flush_pending

Rec == [port : [Ports -> Member], jobs : [Isolates -> Seq(JobType)]]

(* The members and the jobs st, with the ports dr inside their loop and se  *)
(* messages posted.                                                        *)
Right(st, dr, se) ==
    /\ st \in Rec
    /\ \A i \in Isolates : JobsFit(i, st.jobs[i])
    /\ \A r \in Ports :
          /\ Holds(st.port[r])
          /\ Flushing(r, st.port[r], st.jobs[Home(r)], dr[r])
          /\ Ordered(r, st.port[r].m_queue, st.jobs[Home(r)], se[r])

(* Only the ports of a worker post in two steps, one message at a time, and *)
(* only they stay inside the loop of a flush job.                          *)
Posting ==
    \A p \in Ports :
        /\ posting[p] # "no" \/ draining[p] => m_can_deliver_inline
        /\ posting[p] = "checked" => sent[Peer(p)] < MaxPosts

Typed ==
    /\ m_can_deliver_inline \in BOOLEAN
    /\ draining \in [Ports -> BOOLEAN]
    /\ listening \in [Ports -> BOOLEAN]
    /\ posting \in [Ports -> {"no", "checked", "null"}]
    /\ sent \in [Ports -> 0..MaxPosts]
    /\ seen \in [Ports -> Seq(1..MaxPosts)]
    /\ received \in [Ports -> SUBSET (1..MaxPosts)]
    /\ lost \in [Ports -> SUBSET (1..MaxPosts)]

Inv == Typed /\ Posting /\ Right(state, draining, sent)

-----------------------------------------------------------------------------
(* Sequences.                                                              *)

(* Appending an entry.                                                     *)
LEMMA Appended ==
    ASSUME NEW S, NEW s \in Seq(S), NEW x \in S
    PROVE  /\ Append(s, x) \in Seq(S) /\ Len(s) \in Nat /\ Len(Append(s, x)) = Len(s) + 1
           /\ Append(s, x)[Len(s) + 1] = x /\ Append(s, x) # << >>
           /\ \A i \in 1..Len(s) : Append(s, x)[i] = s[i]
BY LenProperties, AppendProperties

(* Concatenation.                                                          *)
LEMMA Joined ==
    ASSUME NEW S, NEW s \in Seq(S), NEW t \in Seq(S)
    PROVE  /\ s \o t \in Seq(S) /\ Len(s) \in Nat /\ Len(t) \in Nat
           /\ Len(s \o t) = Len(s) + Len(t)
           /\ \A i \in 1..Len(s) : (s \o t)[i] = s[i]
           /\ \A i \in 1..Len(t) : (s \o t)[Len(s) + i] = t[i]
           /\ \A i \in 1..(Len(s) + Len(t)) : (s \o t)[i] = IF i <= Len(s) THEN s[i] ELSE t[i - Len(s)]
<1>1. Len(s) \in Nat /\ Len(t) \in Nat
  BY LenProperties
<1>2. /\ s \o t \in Seq(S) /\ Len(s \o t) = Len(s) + Len(t)
      /\ \A i \in 1..(Len(s) + Len(t)) : (s \o t)[i] = IF i <= Len(s) THEN s[i] ELSE t[i - Len(s)]
  BY ConcatProperties
<1> DEFINE m == Len(s)
           n == Len(t)
           c == s \o t
<1>3. m \in Nat /\ n \in Nat /\ \A i \in 1..(m + n) : c[i] = IF i <= m THEN s[i] ELSE t[i - m]
  BY <1>1, <1>2
<1> HIDE DEF m, n, c
<1>4. ASSUME NEW i \in 1..m PROVE c[i] = s[i]
  <2>1. i \in 1..(m + n) /\ i <= m
    BY <1>3
  <2> QED
    BY <2>1, <1>3
<1>5. ASSUME NEW i \in 1..n PROVE c[m + i] = t[i]
  <2>1. m + i \in 1..(m + n) /\ ~(m + i <= m) /\ m + i - m = i
    BY <1>3
  <2> QED
    BY <2>1, <1>3
<1> QED
  BY <1>1, <1>2, <1>4, <1>5 DEF m, n, c

(* The rest of a queue.                                                    *)
LEMMA Rest ==
    ASSUME NEW S, NEW s \in Seq(S), s # << >>
    PROVE  /\ Head(s) \in S /\ Head(s) = s[1] /\ Tail(s) \in Seq(S)
           /\ Len(s) \in Nat /\ Len(s) >= 1 /\ 1 \in 1..Len(s) /\ Len(Tail(s)) = Len(s) - 1
           /\ \A i \in 1..(Len(s) - 1) : Tail(s)[i] = s[i + 1]
<1>1. Len(s) \in Nat /\ Len(s) # 0
  BY LenProperties, EmptySeq
<1>2. /\ Head(s) \in S /\ Tail(s) \in Seq(S) /\ Len(Tail(s)) = Len(s) - 1
      /\ \A i \in 1..Len(Tail(s)) : Tail(s)[i] = s[i + 1]
  BY HeadTailProperties
<1>3. Head(s) = s[1]
  OBVIOUS
<1>4. Len(s) >= 1 /\ 1 \in 1..Len(s)
  BY <1>1
<1> QED
  BY <1>1, <1>2, <1>3, <1>4

-----------------------------------------------------------------------------
(* The jobs of an isolate.                                                 *)

(* What changes nothing for port r.                                        *)
Same(r, js, js2) ==
    /\ \A m, d : Flushing(r, m, js, d) => Flushing(r, m, js2, d)
    /\ \A q, s : Ordered(r, q, js, s) => Ordered(r, q, js2, s)
    /\ Carried(r, js2) = Carried(r, js)

(* A job that neither carries a message to r nor flushes it.               *)
Foreign(e, r) == ~Carries(e, r) /\ e # FlushOf(r)

(* The messages that jobs carry.                                           *)
LEMMA CarriedIs ==
    ASSUME NEW r, NEW js
    PROVE  \A n : n \in Carried(r, js) <=> \E k \in 1..Len(js) : Carries(js[k], r) /\ js[k].msg = n
BY DEF Carried, Carries

(* A foreign job is posted.                                                *)
LEMMA SameAppend ==
    ASSUME NEW r, NEW js \in Seq(JobType), NEW e \in JobType, Foreign(e, r)
    PROVE  Same(r, js, Append(js, e))
<1> DEFINE n == Len(js)
           js2 == Append(js, e)
<1>1. /\ n \in Nat /\ Len(js2) = n + 1 /\ js2[n + 1] = e /\ \A k \in 1..n : js2[k] = js[k]
  BY Appended
<1> HIDE DEF js2
<1>2. /\ \A k \in 1..(n + 1) : k \in 1..n \/ k = n + 1
      /\ \A k \in 1..n : k \in 1..(n + 1)
  BY <1>1
<1>3. ASSUME NEW m, NEW d, Flushing(r, m, js, d) PROVE Flushing(r, m, js2, d)
  <2>1. \A k \in 1..(n + 1) : js2[k] = FlushOf(r) => k \in 1..n /\ js[k] = FlushOf(r)
    BY <1>1, <1>2 DEF Foreign
  <2>2. (\E k \in 1..n : js[k] = FlushOf(r)) => \E k \in 1..(n + 1) : js2[k] = FlushOf(r)
    BY <1>1, <1>2
  <2> QED
    BY <1>3, <1>1, <2>1, <2>2 DEF Flushing
<1>4. ASSUME NEW q, NEW s, Ordered(r, q, js, s) PROVE Ordered(r, q, js2, s)
  <2>1. \A k \in 1..(n + 1) : Carries(js2[k], r) => k \in 1..n /\ Carries(js[k], r) /\ js2[k] = js[k]
    BY <1>1, <1>2 DEF Foreign
  <2> QED
    BY <1>4, <1>1, <2>1 DEF Ordered
<1>5. Carried(r, js2) = Carried(r, js)
  <2>1. \A x : (\E k \in 1..(n + 1) : Carries(js2[k], r) /\ js2[k].msg = x)
                 <=> \E k \in 1..n : Carries(js[k], r) /\ js[k].msg = x
    BY <1>1, <1>2 DEF Foreign
  <2>2. \A x : x \in Carried(r, js2) <=> \E k \in 1..(n + 1) : Carries(js2[k], r) /\ js2[k].msg = x
    BY <1>1, CarriedIs
  <2>3. \A x : x \in Carried(r, js) <=> \E k \in 1..n : Carries(js[k], r) /\ js[k].msg = x
    BY <1>1, CarriedIs
  <2>4. \A x : x \in Carried(r, js2) <=> x \in Carried(r, js)
    BY <2>1, <2>2, <2>3, Zenon
  <2> QED
    BY <2>4, Zenon DEF Carried
<1> QED
  BY <1>3, <1>4, <1>5 DEF Same, js2

(* A foreign job is begun.                                                 *)
LEMMA SameTail ==
    ASSUME NEW r, NEW js \in Seq(JobType), js # << >>, Foreign(Head(js), r)
    PROVE  Same(r, js, Tail(js))
<1> DEFINE n == Len(js) - 1
           js2 == Tail(js)
<1>1. /\ n \in Nat /\ Len(js) = n + 1 /\ Len(js2) = n /\ js[1] = Head(js)
      /\ \A k \in 1..n : js2[k] = js[k + 1]
  BY Rest
<1> HIDE DEF js2, n
<1>2. /\ \A k \in 1..(n + 1) : k = 1 \/ (k - 1 \in 1..n /\ (k - 1) + 1 = k)
      /\ \A k \in 1..n : k + 1 \in 1..(n + 1)
      /\ \A k, l \in 1..n : (k < l => k + 1 < l + 1) /\ (k + 1 = l + 1 => k = l)
  BY <1>1
<1>3. ASSUME NEW m, NEW d, Flushing(r, m, js, d) PROVE Flushing(r, m, js2, d)
  <2>1. \A k \in 1..n : js2[k] = FlushOf(r) => k + 1 \in 1..(n + 1) /\ js[k + 1] = FlushOf(r)
    BY <1>1, <1>2
  <2>2. (\E k \in 1..(n + 1) : js[k] = FlushOf(r)) => \E k \in 1..n : js2[k] = FlushOf(r)
    <3>1. ASSUME NEW k \in 1..(n + 1), js[k] = FlushOf(r) PROVE k # 1
      BY <1>1, <3>1 DEF Foreign
    <3> QED
      BY <1>1, <1>2, <3>1
  <2> QED
    BY <1>3, <1>1, <1>2, <2>1, <2>2 DEF Flushing
<1>4. ASSUME NEW q, NEW s, Ordered(r, q, js, s) PROVE Ordered(r, q, js2, s)
  <2>1. \A k \in 1..n : Carries(js2[k], r) =>
            k + 1 \in 1..(n + 1) /\ Carries(js[k + 1], r) /\ js2[k] = js[k + 1]
    BY <1>1, <1>2
  <2> QED
    BY <1>4, <1>1, <1>2, <2>1 DEF Ordered
<1>5. Carried(r, js2) = Carried(r, js)
  <2>1. \A x : (\E k \in 1..n : Carries(js2[k], r) /\ js2[k].msg = x)
                 <=> \E k \in 1..(n + 1) : Carries(js[k], r) /\ js[k].msg = x
    <3>1. ~Carries(js[1], r)
      BY <1>1 DEF Foreign
    <3>2. ASSUME NEW k \in 1..(n + 1), Carries(js[k], r)
          PROVE  k - 1 \in 1..n /\ js2[k - 1] = js[k]
      BY <1>1, <1>2, <3>1, <3>2
    <3> QED
      BY <1>1, <1>2, <3>2
  <2>2. \A x : x \in Carried(r, js2) <=> \E k \in 1..n : Carries(js2[k], r) /\ js2[k].msg = x
    BY <1>1, CarriedIs
  <2>3. \A x : x \in Carried(r, js) <=> \E k \in 1..(n + 1) : Carries(js[k], r) /\ js[k].msg = x
    BY <1>1, CarriedIs
  <2>4. \A x : x \in Carried(r, js2) <=> x \in Carried(r, js)
    BY <2>1, <2>2, <2>3, Zenon
  <2> QED
    BY <2>4, Zenon DEF Carried
<1> QED
  BY <1>3, <1>4, <1>5 DEF Same, js2

(* Foreign jobs are posted together.                                       *)
LEMMA SameJoin ==
    ASSUME NEW r, NEW js \in Seq(JobType), NEW es \in Seq(JobType),
           \A k \in 1..Len(es) : Foreign(es[k], r)
    PROVE  Same(r, js, js \o es)
<1> DEFINE n == Len(js)
           o == Len(es)
           js2 == js \o es
<1>1. /\ n \in Nat /\ o \in Nat /\ Len(js2) = n + o /\ \A k \in 1..n : js2[k] = js[k]
      /\ \A k \in 1..o : js2[n + k] = es[k]
  BY Joined
<1>f. \A k \in 1..o : Foreign(es[k], r)
  OBVIOUS
<1> HIDE DEF js2, o, n
<1>2. /\ \A k \in 1..(n + o) : k \in 1..n \/ (k - n \in 1..o /\ n + (k - n) = k)
      /\ \A k \in 1..n : k \in 1..(n + o)
  BY <1>1
<1>3. \A k \in 1..(n + o) : k \in 1..n \/ Foreign(js2[k], r)
  BY <1>1, <1>2, <1>f
<1>4. ASSUME NEW m, NEW d, Flushing(r, m, js, d) PROVE Flushing(r, m, js2, d)
  <2>1. \A k \in 1..(n + o) : js2[k] = FlushOf(r) => k \in 1..n /\ js[k] = FlushOf(r)
    BY <1>1, <1>3 DEF Foreign
  <2>2. (\E k \in 1..n : js[k] = FlushOf(r)) => \E k \in 1..(n + o) : js2[k] = FlushOf(r)
    BY <1>1, <1>2
  <2> QED
    BY <1>4, <1>1, <2>1, <2>2 DEF Flushing, n
<1>5. ASSUME NEW q, NEW s, Ordered(r, q, js, s) PROVE Ordered(r, q, js2, s)
  <2>1. \A k \in 1..(n + o) : Carries(js2[k], r) => k \in 1..n /\ Carries(js[k], r) /\ js2[k] = js[k]
    BY <1>1, <1>3 DEF Foreign
  <2> QED
    BY <1>5, <1>1, <2>1 DEF Ordered, n
<1>6. Carried(r, js2) = Carried(r, js)
  <2>1. \A x : (\E k \in 1..(n + o) : Carries(js2[k], r) /\ js2[k].msg = x)
                 <=> \E k \in 1..n : Carries(js[k], r) /\ js[k].msg = x
    BY <1>1, <1>2, <1>3 DEF Foreign
  <2>2. \A x : x \in Carried(r, js2) <=> \E k \in 1..(n + o) : Carries(js2[k], r) /\ js2[k].msg = x
    <3>1. Len(js2) = n + o
      BY <1>1
    <3>2. \A x : x \in Carried(r, js2) <=> \E k \in 1..Len(js2) : Carries(js2[k], r) /\ js2[k].msg = x
      BY DEF Carried, Carries
    <3> QED
      BY <3>1, <3>2
  <2>3. \A x : x \in Carried(r, js) <=> \E k \in 1..n : Carries(js[k], r) /\ js[k].msg = x
    BY <1>1, CarriedIs DEF n
  <2>4. \A x : x \in Carried(r, js2) <=> x \in Carried(r, js)
    BY <2>1, <2>2, <2>3, Zenon
  <2> QED
    BY <2>4, Zenon DEF Carried
<1> QED
  BY <1>4, <1>5, <1>6 DEF Same, js2

(* What is true of a port, of its members m, the jobs js of its isolate, d   *)
(* if it is inside its loop, and s messages posted to it.                   *)
Good(r, m, js, d, s) ==
    /\ m \in Member /\ JobsFit(Home(r), js) /\ Holds(m)
    /\ Flushing(r, m, js, d) /\ Ordered(r, m.m_queue, js, s)

(* The other port sees no change of the jobs.                              *)
Apart(p, js, js2) == \A r \in Ports : r # p => Same(r, js, js2)

(* The messages on their way, of a port.                                   *)
Going(p, m, js) == Elements(m.m_queue) \cup Carried(p, js)

(* One port, and the jobs of its isolate, are replaced.                    *)
Put(st, p, m, js) ==
    [port |-> [st.port EXCEPT ![p] = m], jobs |-> [st.jobs EXCEPT ![Home(p)] = js]]

With(f, p, v) == [f EXCEPT ![p] = v]

Transit(st) == [r \in Ports |-> Going(r, st.port[r], st.jobs[Home(r)])]

(* Every port belongs to an isolate.                                       *)
LEMMA Homes ==
    ASSUME NEW p \in Ports
    PROVE  Home(p) \in Isolates /\ Peer(p) \in Ports /\ Peer(p) # p
BY DEF Home, Peer, Ports, Isolates

(* The new state is right when the port that changed is.                   *)
LEMMA Puts ==
    ASSUME NEW st, NEW dr \in [Ports -> BOOLEAN], NEW se \in [Ports -> Nat], Right(st, dr, se),
           NEW p \in Ports, NEW m, NEW js, NEW d \in BOOLEAN, NEW s \in Nat,
           Good(p, m, js, d, s), Apart(p, st.jobs[Home(p)], js)
    PROVE  /\ Right(Put(st, p, m, js), With(dr, p, d), With(se, p, s))
           /\ Transit(Put(st, p, m, js)) = With(Transit(st), p, Going(p, m, js))
<1> DEFINE h == Home(p)
           s2 == Put(st, p, m, js)
           dr2 == [dr EXCEPT ![p] = d]
           se2 == [se EXCEPT ![p] = s]
<1>1. h \in Isolates /\ m \in Member /\ js \in Seq(JobType) /\ JobsFit(h, js)
  BY Homes DEF Good, JobsFit
<1>2. /\ st.port \in [Ports -> Member] /\ st.jobs \in [Isolates -> Seq(JobType)]
      /\ s2.port = [st.port EXCEPT ![p] = m] /\ s2.jobs = [st.jobs EXCEPT ![h] = js]
  BY DEF Right, Rec, Put
<1>3. /\ s2.port[p] = m /\ s2.jobs[h] = js /\ dr2[p] = d /\ se2[p] = s
      /\ \A r \in Ports : r # p => s2.port[r] = st.port[r] /\ dr2[r] = dr[r] /\ se2[r] = se[r]
      /\ \A i \in Isolates : i # h => s2.jobs[i] = st.jobs[i]
  BY <1>1, <1>2
<1>4. s2 \in Rec
  <2>1. s2.port \in [Ports -> Member] /\ s2.jobs \in [Isolates -> Seq(JobType)]
    BY <1>1, <1>2
  <2> QED
    BY <2>1 DEF Rec, Put
<1> HIDE DEF s2, dr2, se2, h
<1>5. ASSUME NEW r \in Ports
      PROVE  /\ Holds(s2.port[r])
             /\ Flushing(r, s2.port[r], s2.jobs[Home(r)], dr2[r])
             /\ Ordered(r, s2.port[r].m_queue, s2.jobs[Home(r)], se2[r])
             /\ r # p => Going(r, s2.port[r], s2.jobs[Home(r)]) = Going(r, st.port[r], st.jobs[Home(r)])
  <2>0. Home(r) \in Isolates
    BY Homes
  <2>1. CASE r = p
    BY <1>3, <2>1 DEF Good, h
  <2>2. CASE r # p
    <3>1. /\ Holds(st.port[r]) /\ Flushing(r, st.port[r], st.jobs[Home(r)], dr[r])
          /\ Ordered(r, st.port[r].m_queue, st.jobs[Home(r)], se[r])
      BY DEF Right
    <3>2. s2.port[r] = st.port[r] /\ dr2[r] = dr[r] /\ se2[r] = se[r]
      BY <1>3, <2>2
    <3>3. CASE Home(r) # h
      BY <1>3, <2>0, <3>1, <3>2, <3>3
    <3>4. CASE Home(r) = h
      <4>1. Same(r, st.jobs[Home(r)], s2.jobs[Home(r)])
        BY <1>3, <2>2, <3>4 DEF Apart, h
      <4> QED
        BY <3>1, <3>2, <4>1 DEF Same, Going
    <3> QED
      BY <3>3, <3>4
  <2> QED
    BY <2>1, <2>2
<1>6. ASSUME NEW i \in Isolates PROVE JobsFit(i, s2.jobs[i])
  BY <1>1, <1>3 DEF Right
<1>7. Right(s2, dr2, se2)
  BY <1>4, <1>5, <1>6 DEF Right
<1>8. Transit(s2) = [Transit(st) EXCEPT ![p] = Going(p, m, js)]
  <2>1. Going(p, s2.port[p], s2.jobs[Home(p)]) = Going(p, m, js)
    BY <1>3 DEF h
  <2> QED
    BY <1>5, <2>1 DEF Transit
<1> QED
  BY <1>7, <1>8 DEF s2, dr2, se2, With

(* Two changes of the jobs.                                                *)
LEMMA ApartTwice ==
    ASSUME NEW p, NEW a, NEW b, NEW c, Apart(p, a, b), Apart(p, b, c)
    PROVE  Apart(p, a, c)
BY DEF Apart, Same

(* No change.                                                              *)
LEMMA ApartNone ==
    ASSUME NEW p, NEW a
    PROVE  Apart(p, a, a)
BY DEF Apart, Same

(* A job of the port itself is posted, or begun.                           *)
LEMMA ApartOwn ==
    ASSUME NEW p \in Ports, NEW js, JobsFit(Home(p), js)
    PROVE  /\ \A e \in JobType : e.port = p /\ Fits(Home(p), e) =>
                 Apart(p, js, Append(js, e)) /\ JobsFit(Home(p), Append(js, e))
           /\ js # << >> /\ Head(js).port = p => Apart(p, js, Tail(js))
           /\ js # << >> => JobsFit(Home(p), Tail(js))
<1>1. js \in Seq(JobType)
  BY DEF JobsFit
<1>2. ASSUME NEW e, e.port = p, NEW r \in Ports, r # p PROVE Foreign(e, r)
  BY <1>2 DEF Foreign, Carries, FlushOf, Job
<1>3. ASSUME NEW e \in JobType, e.port = p, Fits(Home(p), e)
      PROVE  Apart(p, js, Append(js, e)) /\ JobsFit(Home(p), Append(js, e))
  <2>1. Apart(p, js, Append(js, e))
    BY <1>1, <1>2, <1>3, SameAppend DEF Apart
  <2>2. /\ Append(js, e) \in Seq(JobType) /\ Len(js) \in Nat /\ Len(Append(js, e)) = Len(js) + 1
        /\ Append(js, e)[Len(js) + 1] = e
        /\ \A k \in 1..Len(js) : Append(js, e)[k] = js[k]
    BY <1>1, Appended
  <2>3. \A k \in 1..(Len(js) + 1) : k \in 1..Len(js) \/ k = Len(js) + 1
    BY <2>2
  <2>4. \A k \in 1..(Len(js) + 1) : Fits(Home(p), Append(js, e)[k])
    BY <2>2, <2>3, <1>3 DEF JobsFit
  <2> QED
    BY <2>1, <2>2, <2>4 DEF JobsFit
<1>4. ASSUME js # << >>, Head(js).port = p PROVE Apart(p, js, Tail(js))
  BY <1>1, <1>2, <1>4, SameTail DEF Apart
<1>5. ASSUME js # << >> PROVE JobsFit(Home(p), Tail(js))
  <2>1. /\ Tail(js) \in Seq(JobType) /\ Len(js) \in Nat /\ Len(Tail(js)) = Len(js) - 1
        /\ \A k \in 1..(Len(js) - 1) : Tail(js)[k] = js[k + 1]
    BY <1>1, <1>5, Rest
  <2>2. \A k \in 1..(Len(js) - 1) : k + 1 \in 1..Len(js)
    BY <2>1
  <2> QED
    BY <2>1, <2>2 DEF JobsFit
<1> QED
  BY <1>3, <1>4, <1>5

-----------------------------------------------------------------------------
(* The messages of one port.                                               *)

(* Messages are numbers.                                                   *)
LEMMA Numbers ==
    ASSUME NEW q \in Seq(1..MaxPosts), NEW js \in Seq(JobType)
    PROVE  /\ MaxPosts \in Nat /\ Len(q) \in Nat /\ Len(js) \in Nat
           /\ \A k \in 1..Len(q) : q[k] \in Nat
           /\ \A k \in 1..Len(js) : js[k] \in JobType /\ js[k].msg \in Nat
<1>1. Len(q) \in Nat /\ Len(js) \in Nat /\ MaxPosts \in Nat
  BY LenProperties, PostsAssumption
<1>2. ASSUME NEW k \in 1..Len(q) PROVE q[k] \in Nat
  BY <1>1, ElementOfSeq
<1>3. ASSUME NEW k \in 1..Len(js) PROVE js[k] \in JobType /\ js[k].msg \in Nat
  <2>1. js[k] \in JobType
    BY ElementOfSeq
  <2>2. js[k].msg \in 0..MaxPosts
    BY <2>1 DEF JobType
  <2> QED
    BY <1>1, <2>1, <2>2
<1> QED
  BY <1>1, <1>2, <1>3

(* A message joins the queue.                                              *)
LEMMA ElementsAppend ==
    ASSUME NEW q \in Seq(1..MaxPosts), NEW n \in 1..MaxPosts
    PROVE  Elements(Append(q, n)) = Elements(q) \cup {n}
<1>1. /\ Len(q) \in Nat /\ Len(Append(q, n)) = Len(q) + 1 /\ Append(q, n)[Len(q) + 1] = n
      /\ \A k \in 1..Len(q) : Append(q, n)[k] = q[k]
  BY Appended
<1>2. /\ \A k \in 1..(Len(q) + 1) : k \in 1..Len(q) \/ k = Len(q) + 1
      /\ Len(q) + 1 \in 1..(Len(q) + 1) /\ \A k \in 1..Len(q) : k \in 1..(Len(q) + 1)
  BY <1>1
<1> QED
  BY <1>1, <1>2 DEF Elements

(* The first message leaves the queue.                                     *)
LEMMA ElementsTail ==
    ASSUME NEW q \in Seq(1..MaxPosts), q # << >>
    PROVE  Elements(q) = {Head(q)} \cup Elements(Tail(q))
<1> DEFINE n == Len(q) - 1
           t == Tail(q)
<1>1. /\ n \in Nat /\ Len(q) = n + 1 /\ Len(t) = n /\ q[1] = Head(q)
      /\ \A k \in 1..n : t[k] = q[k + 1]
  BY Rest
<1> HIDE DEF n, t
<1>2. /\ \A k \in 1..(n + 1) : k = 1 \/ (k - 1 \in 1..n /\ (k - 1) + 1 = k)
      /\ \A k \in 1..n : k + 1 \in 1..(n + 1) /\ 1 \in 1..(n + 1)
      /\ 1 \in 1..(n + 1)
  BY <1>1
<1>3. ASSUME NEW x PROVE x \in Elements(q) <=> x = Head(q) \/ x \in Elements(t)
  <2>1. x \in Elements(q) <=> \E k \in 1..(n + 1) : q[k] = x
    BY <1>1 DEF Elements
  <2>2. x \in Elements(t) <=> \E k \in 1..n : t[k] = x
    BY <1>1 DEF Elements
  <2>3. ASSUME NEW k \in 1..(n + 1), q[k] = x, k # 1 PROVE \E l \in 1..n : t[l] = x
    <3>1. k - 1 \in 1..n /\ t[k - 1] = x
      BY <1>1, <1>2, <2>3
    <3> QED
      BY <3>1
  <2>4. ASSUME NEW k \in 1..n, t[k] = x PROVE k + 1 \in 1..(n + 1) /\ q[k + 1] = x
    BY <1>1, <1>2, <2>4
  <2> QED
    BY <1>1, <1>2, <2>1, <2>2, <2>3, <2>4
<1>4. \A x : x \in Elements(q) <=> x \in {Head(q)} \cup Elements(t)
  BY <1>3
<1> QED
  BY <1>4, Zenon DEF t, Elements

(* The first job is begun.                                                 *)
LEMMA CarriedTail ==
    ASSUME NEW js \in Seq(JobType), js # << >>, NEW r
    PROVE  \A x : x \in Carried(r, js) <=>
                (Carries(Head(js), r) /\ x = Head(js).msg) \/ x \in Carried(r, Tail(js))
<1> DEFINE n == Len(js) - 1
           t == Tail(js)
<1>1. /\ n \in Nat /\ Len(js) = n + 1 /\ Len(t) = n /\ js[1] = Head(js)
      /\ \A k \in 1..n : t[k] = js[k + 1]
  BY Rest
<1> HIDE DEF n, t
<1>2. /\ \A k \in 1..(n + 1) : k = 1 \/ (k - 1 \in 1..n /\ (k - 1) + 1 = k)
      /\ \A k \in 1..n : k + 1 \in 1..(n + 1)
      /\ 1 \in 1..(n + 1)
  BY <1>1
<1>3. ASSUME NEW x
      PROVE  x \in Carried(r, js) <=> (Carries(Head(js), r) /\ x = Head(js).msg) \/ x \in Carried(r, t)
  <2>1. x \in Carried(r, js) <=> \E k \in 1..(n + 1) : Carries(js[k], r) /\ js[k].msg = x
    BY <1>1 DEF Carried, Carries
  <2>2. x \in Carried(r, t) <=> \E k \in 1..n : Carries(t[k], r) /\ t[k].msg = x
    BY <1>1 DEF Carried, Carries
  <2> QED
    BY <1>1, <1>2, <2>1, <2>2
<1> QED
  BY <1>3 DEF t

(* A job is posted.                                                        *)
LEMMA CarriedAppend ==
    ASSUME NEW js \in Seq(JobType), NEW e \in JobType, NEW r, Carries(e, r)
    PROVE  Carried(r, Append(js, e)) = Carried(r, js) \cup {e.msg}
<1> DEFINE n == Len(js)
           t == Append(js, e)
<1>1. /\ n \in Nat /\ Len(t) = n + 1 /\ t[n + 1] = e /\ \A k \in 1..n : t[k] = js[k]
  BY Appended
<1> HIDE DEF t
<1>2. /\ \A k \in 1..(n + 1) : k \in 1..n \/ k = n + 1
      /\ n + 1 \in 1..(n + 1) /\ \A k \in 1..n : k \in 1..(n + 1)
  BY <1>1
<1>3. ASSUME NEW x PROVE x \in Carried(r, t) <=> x \in Carried(r, js) \/ x = e.msg
  <2>1. x \in Carried(r, t) <=> \E k \in 1..(n + 1) : Carries(t[k], r) /\ t[k].msg = x
    BY <1>1 DEF Carried, Carries
  <2>2. x \in Carried(r, js) <=> \E k \in 1..n : Carries(js[k], r) /\ js[k].msg = x
    BY <1>1 DEF Carried, Carries
  <2> QED
    BY <1>1, <1>2, <2>1, <2>2
<1>4. \A x : x \in Carried(r, t) <=> x \in Carried(r, js) \cup {e.msg}
  BY <1>3
<1> QED
  BY <1>4, Zenon DEF t, Carried

(* The order when the first job is begun: what it carries comes before the  *)
(* other jobs, after the queue in the channel of a worker and before it in  *)
(* a MessageChannel.                                                       *)
LEMMA OrderedTail ==
    ASSUME NEW q \in Seq(1..MaxPosts), NEW js \in Seq(JobType), js # << >>, NEW s \in Nat, NEW r,
           Ordered(r, q, js, s)
    PROVE  /\ Ordered(r, q, Tail(js), s)
           /\ Carries(Head(js), r) =>
                /\ Head(js).msg <= s
                /\ \A x \in Carried(r, Tail(js)) : Head(js).msg < x
                /\ \A k \in 1..Len(q) : IF m_can_deliver_inline THEN q[k] < Head(js).msg
                                                                ELSE Head(js).msg < q[k]
<1> DEFINE n == Len(js) - 1
           t == Tail(js)
<1>1. /\ n \in Nat /\ Len(js) = n + 1 /\ Len(t) = n /\ js[1] = Head(js)
      /\ \A k \in 1..n : t[k] = js[k + 1]
  BY Rest
<1> HIDE DEF n, t
<1>2. /\ \A k \in 1..n : k + 1 \in 1..(n + 1) /\ 1 < k + 1
      /\ 1 \in 1..(n + 1)
      /\ \A k, l \in 1..n : k < l => k + 1 < l + 1
  BY <1>1
<1>3. Ordered(r, q, t, s)
  <2>1. \A k \in 1..n : Carries(t[k], r) =>
            k + 1 \in 1..(n + 1) /\ Carries(js[k + 1], r) /\ t[k] = js[k + 1]
    BY <1>1, <1>2
  <2> QED
    BY <1>1, <1>2, <2>1 DEF Ordered
<1>4. ASSUME Carries(Head(js), r)
      PROVE  /\ Head(js).msg <= s
             /\ \A x \in Carried(r, t) : Head(js).msg < x
             /\ \A k \in 1..Len(q) : IF m_can_deliver_inline THEN q[k] < Head(js).msg
                                                             ELSE Head(js).msg < q[k]
  <2>1. Carries(js[1], r) /\ 1 \in 1..Len(js)
    BY <1>1, <1>2, <1>4
  <2>2. ASSUME NEW x \in Carried(r, t) PROVE Head(js).msg < x
    <3>1. PICK k \in 1..n : Carries(t[k], r) /\ t[k].msg = x
      BY <1>1 DEF Carried, Carries
    <3>2. k + 1 \in 1..Len(js) /\ 1 < k + 1 /\ Carries(js[k + 1], r) /\ js[k + 1].msg = x
      BY <1>1, <1>2, <3>1
    <3> QED
      BY <1>1, <2>1, <3>2 DEF Ordered
  <2> QED
    BY <1>1, <2>1, <2>2 DEF Ordered
<1> QED
  BY <1>3, <1>4 DEF t

(* The flush job when the first job is begun.                              *)
LEMMA FlushingTail ==
    ASSUME NEW js \in Seq(JobType), js # << >>, NEW r, NEW m, NEW d, Flushing(r, m, js, d)
    PROVE  /\ Head(js) # FlushOf(r) => Flushing(r, m, Tail(js), d)
           /\ Head(js) = FlushOf(r) =>
                m.m_flush_pending /\ ~d /\ \A k \in 1..Len(Tail(js)) : Tail(js)[k] # FlushOf(r)
<1> DEFINE n == Len(js) - 1
           t == Tail(js)
<1>1. /\ n \in Nat /\ Len(js) = n + 1 /\ Len(t) = n /\ js[1] = Head(js)
      /\ \A k \in 1..n : t[k] = js[k + 1]
  BY Rest
<1> HIDE DEF n, t
<1>2. /\ \A k \in 1..(n + 1) : k = 1 \/ (k - 1 \in 1..n /\ (k - 1) + 1 = k)
      /\ \A k \in 1..n : k + 1 \in 1..(n + 1) /\ k + 1 # 1
      /\ \A k, l \in 1..n : k + 1 = l + 1 => k = l
      /\ 1 \in 1..(n + 1)
  BY <1>1
<1>3. \A k \in 1..n : t[k] = FlushOf(r) => k + 1 \in 1..(n + 1) /\ js[k + 1] = FlushOf(r)
  BY <1>1, <1>2
<1>4. ASSUME Head(js) # FlushOf(r) PROVE Flushing(r, m, t, d)
  <2>1. (\E k \in 1..(n + 1) : js[k] = FlushOf(r)) => \E k \in 1..n : t[k] = FlushOf(r)
    <3>1. ASSUME NEW k \in 1..(n + 1), js[k] = FlushOf(r) PROVE k # 1
      BY <1>1, <1>4, <3>1
    <3> QED
      BY <1>1, <1>2, <3>1
  <2> QED
    BY <1>1, <1>2, <1>3, <2>1 DEF Flushing
<1>5. ASSUME Head(js) = FlushOf(r)
      PROVE  m.m_flush_pending /\ ~d /\ \A k \in 1..n : t[k] # FlushOf(r)
  <2>1. js[1] = FlushOf(r) /\ 1 \in 1..Len(js)
    BY <1>1, <1>2, <1>5
  <2>2. m.m_flush_pending /\ ~d /\ \A k \in 1..Len(js) : js[k] = FlushOf(r) => k = 1
    BY <2>1 DEF Flushing
  <2> QED
    BY <1>1, <1>2, <1>3, <2>2
<1> QED
  BY <1>1, <1>4, <1>5 DEF t

(* A message joins the end of the queue.                                   *)
LEMMA OrderedQueue ==
    ASSUME NEW q \in Seq(1..MaxPosts), NEW js \in Seq(JobType), NEW s \in Nat, NEW r,
           Ordered(r, q, js, s), NEW n \in 1..MaxPosts, NEW s2 \in Nat, s <= s2, n <= s2,
           \A k \in 1..Len(q) : q[k] < n,
           \A x \in Carried(r, js) : IF m_can_deliver_inline THEN n < x ELSE x < n
    PROVE  Ordered(r, Append(q, n), js, s2)
<1> DEFINE o == Len(q)
           t == Append(q, n)
<1>1. /\ o \in Nat /\ Len(t) = o + 1 /\ t[o + 1] = n /\ \A k \in 1..o : t[k] = q[k]
  BY Appended
<1>2. \A k \in 1..(o + 1) : k \in 1..o \/ k = o + 1
  BY <1>1
<1>3. /\ \A k \in 1..o : q[k] \in Nat /\ q[k] <= s /\ q[k] < n
      /\ \A k \in 1..Len(js) : js[k].msg \in Nat
      /\ n \in Nat
  BY Numbers DEF Ordered
<1> HIDE DEF t
<1>4. \A k \in 1..Len(js) : Carries(js[k], r) =>
          js[k].msg <= s /\ IF m_can_deliver_inline THEN n < js[k].msg ELSE js[k].msg < n
  BY DEF Carried, Carries, Ordered
<1>5. \A k, l \in 1..(o + 1) : k < l => k \in 1..o /\ t[k] < t[l]
  <2>1. ASSUME NEW k \in 1..(o + 1), NEW l \in 1..(o + 1), k < l PROVE k \in 1..o /\ t[k] < t[l]
    <3>1. k \in 1..o
      BY <1>1, <1>2, <2>1
    <3>2. CASE l \in 1..o
      BY <3>1, <3>2, <1>1, <2>1 DEF Ordered
    <3>3. CASE l = o + 1
      BY <3>1, <3>3, <1>1, <1>3
    <3> QED
      BY <1>2, <3>1, <3>2, <3>3
  <2> QED
    BY <2>1
<1>6. \A k \in 1..(o + 1) : t[k] <= s2
  BY <1>1, <1>2, <1>3
<1>7. ASSUME NEW k \in 1..Len(js), Carries(js[k], r)
      PROVE  /\ js[k].msg <= s2
             /\ \A l \in 1..(o + 1) : IF m_can_deliver_inline THEN t[l] < js[k].msg
                                                              ELSE js[k].msg < t[l]
  <2>1. js[k].msg \in Nat /\ js[k].msg <= s /\ IF m_can_deliver_inline THEN n < js[k].msg ELSE js[k].msg < n
    BY <1>3, <1>4, <1>7
  <2>2. \A l \in 1..o : IF m_can_deliver_inline THEN q[l] < js[k].msg ELSE js[k].msg < q[l]
    BY <1>7 DEF Ordered
  <2>3. js[k].msg <= s2
    BY <2>1
  <2> QED
    BY <1>1, <1>2, <2>1, <2>2, <2>3
<1> QED
  BY <1>1, <1>5, <1>6, <1>7 DEF Ordered, t

(* The queue loses its first message, or all.                              *)
LEMMA OrderedLess ==
    ASSUME NEW q \in Seq(1..MaxPosts), q # << >>, NEW js \in Seq(JobType), NEW s \in Nat, NEW r,
           Ordered(r, q, js, s)
    PROVE  /\ Ordered(r, Tail(q), js, s) /\ Ordered(r, << >>, js, s)
           /\ Head(q) \in 1..MaxPosts /\ Head(q) <= s /\ Tail(q) \in Seq(1..MaxPosts)
           /\ \A x \in Elements(Tail(q)) : Head(q) < x
           /\ \A x \in Elements(q), y \in Carried(r, js) : x \in Nat /\ y \in Nat /\ x # y
           /\ m_can_deliver_inline => \A x \in Elements(q), y \in Carried(r, js) : x < y
<1> DEFINE o == Len(q) - 1
           t == Tail(q)
<1>0. Head(q) \in 1..MaxPosts /\ Tail(q) \in Seq(1..MaxPosts)
  BY Rest
<1>1. /\ o \in Nat /\ Len(q) = o + 1 /\ Len(t) = o /\ q[1] = Head(q)
      /\ \A k \in 1..o : t[k] = q[k + 1]
  BY Rest
<1> HIDE DEF o, t
<1>2. /\ \A k \in 1..o : k + 1 \in 1..(o + 1) /\ 1 < k + 1
      /\ \A k, l \in 1..o : k < l => k + 1 < l + 1
      /\ 1 \in 1..(o + 1)
  BY <1>1
<1>3. Ordered(r, t, js, s)
  BY <1>1, <1>2 DEF Ordered
<1>4. Ordered(r, << >>, js, s)
  BY DEF Ordered
<1>5. Head(q) <= s
  BY <1>1, <1>2 DEF Ordered
<1>6. ASSUME NEW x \in Elements(t) PROVE Head(q) < x
  <2>1. PICK k \in 1..o : t[k] = x
    BY <1>1 DEF Elements
  <2>2. k + 1 \in 1..Len(q) /\ 1 < k + 1 /\ 1 \in 1..Len(q) /\ q[k + 1] = x
    BY <1>1, <1>2, <2>1
  <2> QED
    BY <1>1, <2>2 DEF Ordered
<1>7. ASSUME NEW x \in Elements(q), NEW y \in Carried(r, js)
      PROVE  /\ x \in Nat /\ y \in Nat
             /\ IF m_can_deliver_inline THEN x < y ELSE y < x
  <2>1. PICK k \in 1..Len(q) : q[k] = x
    BY DEF Elements
  <2>2. PICK l \in 1..Len(js) : Carries(js[l], r) /\ js[l].msg = y
    BY DEF Carried, Carries
  <2>3. x \in Nat /\ y \in Nat
    BY <2>1, <2>2, Numbers
  <2> QED
    BY <2>1, <2>2, <2>3 DEF Ordered
<1>8. \A x \in Elements(q), y \in Carried(r, js) : x \in Nat /\ y \in Nat /\ x # y
  BY <1>7
<1> QED
  BY <1>0, <1>3, <1>4, <1>5, <1>6, <1>7, <1>8 DEF t

-----------------------------------------------------------------------------
(* flush() on the members of a port and the jobs of its isolate.           *)

Ready(p, m) == m.m_started /\ ~m.m_flush_pending /\ m.m_queue # << >> /\ canDeliverMessages(p)
FlushM(p, m) == IF Ready(p, m) THEN [m EXCEPT !.m_flush_pending = TRUE] ELSE m
FlushJs(p, m, js) == IF Ready(p, m) THEN Append(js, FlushOf(p)) ELSE js

(* What a port is before flush(): it may hold its isolate for a flush still *)
(* to be posted.                                                           *)
Filled(p, m, js, d, s) ==
    /\ m \in Member /\ JobsFit(Home(p), js)
    /\ m.m_holding => m.m_flush_pending \/ Ready(p, m)
    /\ Flushing(p, m, js, d) /\ Ordered(p, m.m_queue, js, s)

(* flush() changes one port.                                               *)
LEMMA FlushIs ==
    ASSUME NEW st \in Rec, NEW p \in Ports, NEW m \in Member, NEW js
    PROVE  flush(Put(st, p, m, js), p) = Put(st, p, FlushM(p, m), FlushJs(p, m, js))
<1> DEFINE h == Home(p)
           a == Put(st, p, m, js)
<1>1. h \in Isolates /\ st.port \in [Ports -> Member] /\ st.jobs \in [Isolates -> Seq(JobType)]
  BY Homes DEF Rec
<1> HIDE DEF h
<1>2. /\ a = [port |-> [st.port EXCEPT ![p] = m], jobs |-> [st.jobs EXCEPT ![h] = js]]
      /\ a.port = [st.port EXCEPT ![p] = m] /\ a.port[p] = m
      /\ a.jobs = [st.jobs EXCEPT ![h] = js] /\ a.jobs[h] = js
  BY <1>1 DEF Put, h
<1>3. CASE Ready(p, m)
  <2> DEFINE m2 == [m EXCEPT !.m_flush_pending = TRUE]
             js2 == Append(js, FlushOf(p))
  <2>1. flush(a, p) = Post([a EXCEPT !.port[p].m_flush_pending = TRUE], p, FlushOf(p))
    BY <1>2, <1>3 DEF flush, Ready, FlushOf
  <2>2. [a EXCEPT !.port[p].m_flush_pending = TRUE] =
           [port |-> [a.port EXCEPT ![p] = m2], jobs |-> a.jobs]
    BY <1>2
  <2>3. [a.port EXCEPT ![p] = m2] = [st.port EXCEPT ![p] = m2]
    BY <1>1, <1>2
  <2>4. Post([port |-> [st.port EXCEPT ![p] = m2], jobs |-> a.jobs], p, FlushOf(p)) =
           [port |-> [st.port EXCEPT ![p] = m2], jobs |-> [a.jobs EXCEPT ![h] = Append(a.jobs[h], FlushOf(p))]]
    <3>1. ASSUME NEW x, NEW y, NEW e
          PROVE  Post([port |-> x, jobs |-> y], p, e) = [port |-> x, jobs |-> [y EXCEPT ![h] = Append(y[h], e)]]
      BY DEF Post, h
    <3> QED
      BY <3>1
  <2>5. [a.jobs EXCEPT ![h] = Append(a.jobs[h], FlushOf(p))] = [st.jobs EXCEPT ![h] = js2]
    BY <1>1, <1>2
  <2>6. FlushM(p, m) = m2 /\ FlushJs(p, m, js) = js2
    BY <1>3 DEF FlushM, FlushJs
  <2> QED
    BY <2>1, <2>2, <2>3, <2>4, <2>5, <2>6 DEF Put, h
<1>4. CASE ~Ready(p, m)
  BY <1>2, <1>4 DEF flush, Ready, FlushM, FlushJs
<1> QED
  BY <1>3, <1>4

(* flush() leaves the port right, and moves no message.                    *)
LEMMA FlushGood ==
    ASSUME NEW p \in Ports, NEW m, NEW js, NEW d \in BOOLEAN, NEW s, Filled(p, m, js, d, s)
    PROVE  /\ Good(p, FlushM(p, m), FlushJs(p, m, js), d, s)
           /\ Apart(p, js, FlushJs(p, m, js))
           /\ Going(p, FlushM(p, m), FlushJs(p, m, js)) = Going(p, m, js)
<1>0. m \in Member /\ js \in Seq(JobType) /\ JobsFit(Home(p), js)
  BY DEF Filled, JobsFit
<1>1. CASE ~Ready(p, m)
  <2>1. FlushM(p, m) = m /\ FlushJs(p, m, js) = js
    BY <1>1 DEF FlushM, FlushJs
  <2> QED
    BY <2>1, <1>1, ApartNone DEF Filled, Good, Holds
<1>2. CASE Ready(p, m)
  <2> DEFINE m2 == [m EXCEPT !.m_flush_pending = TRUE]
             e == FlushOf(p)
             js2 == Append(js, e)
             n == Len(js)
  <2>1. FlushM(p, m) = m2 /\ FlushJs(p, m, js) = js2
    BY <1>2 DEF FlushM, FlushJs
  <2>2. m2 \in Member /\ m2.m_flush_pending /\ m2.m_queue = m.m_queue /\ ~m.m_flush_pending
    BY <1>0, <1>2 DEF Member, Ready
  <2>3. e \in JobType /\ e.port = p /\ Fits(Home(p), e) /\ ~Carries(e, p)
    BY PostsAssumption DEF FlushOf, Job, JobType, Fits, Carries
  <2>4. Apart(p, js, js2) /\ JobsFit(Home(p), js2)
    BY <1>0, <2>3, ApartOwn
  <2>5. /\ n \in Nat /\ Len(js2) = n + 1 /\ js2[n + 1] = e /\ \A k \in 1..n : js2[k] = js[k]
    BY <1>0, <2>3, Appended
  <2>6. /\ \A k \in 1..(n + 1) : k \in 1..n \/ k = n + 1
        /\ n + 1 \in 1..(n + 1)
    BY <2>5
  <2>7. \A k \in 1..n : js[k] # FlushOf(p)
    BY <2>2 DEF Filled, Flushing
  <2>8. ~d
    BY <2>2 DEF Filled, Flushing
  <2> HIDE DEF js2, m2
  <2>9. Flushing(p, m2, js2, d)
    <3>1. \A k \in 1..(n + 1) : js2[k] = FlushOf(p) => k = n + 1
      BY <2>5, <2>6, <2>7
    <3> QED
      BY <2>2, <2>5, <2>6, <2>8, <3>1 DEF Flushing
  <2>10. Ordered(p, m2.m_queue, js2, s)
    <3>1. \A k \in 1..(n + 1) : Carries(js2[k], p) => k \in 1..n /\ Carries(js[k], p) /\ js2[k] = js[k]
      BY <2>3, <2>5, <2>6
    <3> QED
      BY <2>2, <2>5, <3>1 DEF Filled, Ordered
  <2>11. Carried(p, js2) = Carried(p, js)
    <3>1. \A k \in 1..n : k \in 1..(n + 1)
      BY <2>5
    <3>2. \A x : (\E k \in 1..(n + 1) : Carries(js2[k], p) /\ js2[k].msg = x)
                   <=> \E k \in 1..n : Carries(js[k], p) /\ js[k].msg = x
      BY <2>3, <2>5, <2>6, <3>1
    <3>3. \A x : x \in Carried(p, js2) <=> \E k \in 1..(n + 1) : Carries(js2[k], p) /\ js2[k].msg = x
      BY <2>5 DEF Carried, Carries
    <3>4. \A x : x \in Carried(p, js) <=> \E k \in 1..n : Carries(js[k], p) /\ js[k].msg = x
      BY DEF Carried, Carries
    <3>5. \A x : x \in Carried(p, js2) <=> x \in Carried(p, js)
      BY <3>2, <3>3, <3>4, Zenon
    <3> QED
      BY <3>5, Zenon DEF Carried
  <2>12. Holds(m2)
    BY <2>2 DEF Holds
  <2>13. Good(p, m2, js2, d, s)
    BY <2>2, <2>4, <2>9, <2>10, <2>12 DEF Good
  <2>14. Going(p, m2, js2) = Going(p, m, js)
    BY <2>2, <2>11 DEF Going
  <2> QED
    BY <2>1, <2>4, <2>13, <2>14 DEF js2, m2
<1> QED
  BY <1>1, <1>2

(* The members and the jobs of a right state.                              *)
LEMMA RightGood ==
    ASSUME NEW st, NEW dr, NEW se, Right(st, dr, se), NEW p \in Ports
    PROVE  /\ st \in Rec
           /\ Good(p, st.port[p], st.jobs[Home(p)], dr[p], se[p])
           /\ st.port[p] \in Member /\ st.port[p].m_queue \in Seq(1..MaxPosts)
           /\ st.jobs[Home(p)] \in Seq(JobType)
           /\ \A i \in Isolates : JobsFit(i, st.jobs[i]) /\ st.jobs[i] \in Seq(JobType)
<1>1. st \in Rec /\ st.port[p] \in Member /\ Home(p) \in Isolates
  BY Homes DEF Right, Rec
<1>2. Good(p, st.port[p], st.jobs[Home(p)], dr[p], se[p])
  BY <1>1 DEF Right, Good
<1>3. \A i \in Isolates : JobsFit(i, st.jobs[i]) /\ st.jobs[i] \in Seq(JobType)
  BY DEF Right, JobsFit
<1> QED
  BY <1>1, <1>2, <1>3 DEF Member

(* A message is posted in a job.                                           *)
LEMMA PostGood ==
    ASSUME NEW p \in Ports, NEW m, NEW js, NEW d, NEW s \in Nat, Good(p, m, js, d, s),
           m_can_deliver_inline, s < MaxPosts
    PROVE  LET e == Job("enqueue", p, s + 1)
           IN  /\ Good(p, m, Append(js, e), d, s + 1) /\ Apart(p, js, Append(js, e))
               /\ Going(p, m, Append(js, e)) = Going(p, m, js) \cup {s + 1}
<1> DEFINE e == Job("enqueue", p, s + 1)
           js2 == Append(js, e)
           n == Len(js)
           q == m.m_queue
<1>1. m \in Member /\ js \in Seq(JobType) /\ JobsFit(Home(p), js) /\ q \in Seq(1..MaxPosts)
  BY DEF Good, JobsFit, Member
<1>2. e \in JobType /\ e.port = p /\ Fits(Home(p), e) /\ Carries(e, p) /\ e.msg = s + 1 /\ e # FlushOf(p)
  <2>1. MaxPosts \in Nat /\ s + 1 \in 0..MaxPosts /\ s + 1 # 0
    BY PostsAssumption
  <2> QED
    BY <2>1 DEF JobType, Job, Fits, Carries, FlushOf
<1>3. Apart(p, js, js2) /\ JobsFit(Home(p), js2)
  BY <1>1, <1>2, ApartOwn
<1>4. /\ n \in Nat /\ Len(js2) = n + 1 /\ js2[n + 1] = e /\ \A k \in 1..n : js2[k] = js[k]
  BY <1>1, <1>2, Appended
<1>5. /\ Len(q) \in Nat /\ \A k \in 1..Len(q) : q[k] \in Nat
      /\ \A k \in 1..n : js[k].msg \in Nat
  BY <1>1, Numbers
<1>6. /\ \A k \in 1..(n + 1) : k \in 1..n \/ k = n + 1
      /\ \A k \in 1..n : k \in 1..(n + 1) /\ k < n + 1
  BY <1>4
<1>7. Carried(p, js2) = Carried(p, js) \cup {s + 1}
  BY <1>1, <1>2, CarriedAppend
<1> HIDE DEF js2, e
<1>8. Flushing(p, m, js2, d)
  <2>1. \A k \in 1..(n + 1) : js2[k] = FlushOf(p) => k \in 1..n /\ js[k] = FlushOf(p)
    BY <1>2, <1>4, <1>6
  <2>2. (\E k \in 1..n : js[k] = FlushOf(p)) => \E k \in 1..(n + 1) : js2[k] = FlushOf(p)
    BY <1>4, <1>6
  <2> QED
    BY <1>4, <2>1, <2>2 DEF Good, Flushing
<1>9. Ordered(p, q, js2, s + 1)
  <2>1. Ordered(p, q, js, s)
    BY DEF Good
  <2>2. \A k \in 1..Len(q) : q[k] <= s /\ q[k] < s + 1 /\ q[k] <= s + 1
    BY <1>5, <2>1 DEF Ordered
  <2>3. \A k \in 1..n : Carries(js[k], p) => js[k].msg <= s /\ js[k].msg < s + 1 /\ js[k].msg <= s + 1
    BY <1>5, <2>1 DEF Ordered
  <2>4. ASSUME NEW k \in 1..(n + 1), NEW l \in 1..(n + 1), k < l, Carries(js2[k], p), Carries(js2[l], p)
        PROVE  js2[k].msg < js2[l].msg
    <3>1. k \in 1..n
      BY <1>4, <1>6, <2>4
    <3>2. CASE l \in 1..n
      BY <3>1, <3>2, <1>4, <2>1, <2>4 DEF Ordered
    <3>3. CASE l = n + 1
      BY <3>1, <3>3, <1>2, <1>4, <2>3, <2>4
    <3> QED
      BY <1>6, <3>2, <3>3
  <2>5. ASSUME NEW k \in 1..(n + 1), Carries(js2[k], p)
        PROVE  js2[k].msg <= s + 1 /\ \A l \in 1..Len(q) : q[l] < js2[k].msg
    <3>1. CASE k \in 1..n
      BY <3>1, <1>4, <2>1, <2>3, <2>5 DEF Ordered
    <3>2. CASE k = n + 1
      BY <3>2, <1>2, <1>4, <2>2
    <3> QED
      BY <1>6, <3>1, <3>2
  <2>6. \A k, l \in 1..Len(q) : k < l => q[k] < q[l]
    BY <2>1 DEF Ordered
  <2> QED
    BY <1>4, <2>2, <2>4, <2>5, <2>6 DEF Ordered
<1>10. Good(p, m, js2, d, s + 1)
  BY <1>1, <1>3, <1>8, <1>9 DEF Good
<1>11. Going(p, m, js2) = Going(p, m, js) \cup {s + 1}
  BY <1>7 DEF Going
<1> QED
  BY <1>3, <1>10, <1>11 DEF js2, e

(* The queue becomes events.                                               *)
LEMMA EventsGood ==
    ASSUME NEW p \in Ports, NEW m, NEW js, NEW s \in Nat,
           m \in Member, JobsFit(Home(p), js), Ordered(p, m.m_queue, js, s), ~m_can_deliver_inline,
           \A k \in 1..Len(js) : js[k] # FlushOf(p)
    PROVE  LET q  == m.m_queue
               m2 == [m EXCEPT !.m_queue = << >>, !.m_holding = FALSE, !.m_flush_pending = FALSE]
               js2 == js \o [k \in 1..Len(q) |-> Job("message", p, q[k])]
           IN  /\ Good(p, m2, js2, FALSE, s) /\ Apart(p, js, js2)
               /\ Going(p, m2, js2) = Going(p, m, js)
<1> DEFINE q  == m.m_queue
           m2 == [m EXCEPT !.m_queue = << >>, !.m_holding = FALSE, !.m_flush_pending = FALSE]
           es == [k \in 1..Len(q) |-> Job("message", p, q[k])]
           js2 == js \o es
           n == Len(js)
           o == Len(q)
<1>1. js \in Seq(JobType) /\ q \in Seq(1..MaxPosts)
  BY DEF JobsFit, Member
<1>2. m2 \in Member /\ m2.m_queue = << >> /\ ~m2.m_holding /\ ~m2.m_flush_pending
  <2>1. << >> \in Seq(1..MaxPosts)
    OBVIOUS
  <2> QED
    BY <2>1 DEF Member
<1>3. /\ o \in Nat /\ n \in Nat /\ \A k \in 1..o : q[k] \in Nat
      /\ \A k \in 1..n : js[k] \in JobType /\ js[k].msg \in Nat
  BY <1>1, Numbers
<1>4. \A k \in 1..o : q[k] \in 1..MaxPosts
  BY <1>1, ElementOfSeq
<1>5. MaxPosts \in Nat
  BY PostsAssumption
<1>6. ASSUME NEW x \in 1..MaxPosts
      PROVE  LET e == Job("message", p, x)
             IN  e \in JobType /\ e.port = p /\ e.msg = x /\ Fits(Home(p), e) /\ Carries(e, p) /\ e # FlushOf(p)
  <2>1. x \in 0..MaxPosts /\ x # 0
    BY <1>5
  <2> QED
    BY <2>1 DEF JobType, Job, Fits, Carries, FlushOf
<1>7. es \in Seq(JobType) /\ Len(es) = o /\ \A k \in 1..o : es[k] = Job("message", p, q[k])
  <2>1. es \in [1..o -> JobType]
    BY <1>4, <1>6
  <2>2. Len(es) = o
    BY <1>3
  <2> QED
    BY <1>3, <2>1, <2>2
<1>8. \A k \in 1..o : /\ es[k].port = p /\ es[k].msg = q[k] /\ Fits(Home(p), es[k])
                      /\ Carries(es[k], p) /\ es[k] # FlushOf(p)
  BY <1>4, <1>6, <1>7
<1> HIDE DEF es
<1>9. /\ js2 \in Seq(JobType) /\ Len(js2) = n + o /\ \A k \in 1..n : js2[k] = js[k]
      /\ \A k \in 1..o : js2[n + k] = es[k]
  <2>1. es \in Seq(JobType) /\ Len(es) = o
    BY <1>7
  <2> HIDE DEF o
  <2>2. /\ js2 \in Seq(JobType) /\ Len(js2) = n + Len(es) /\ \A k \in 1..n : js2[k] = js[k]
        /\ \A k \in 1..Len(es) : js2[n + k] = es[k]
    <3>1. \A a, b \in Seq(JobType) :
             /\ a \o b \in Seq(JobType) /\ Len(a \o b) = Len(a) + Len(b)
             /\ \A k \in 1..Len(a) : (a \o b)[k] = a[k]
             /\ \A k \in 1..Len(b) : (a \o b)[Len(a) + k] = b[k]
      BY Joined
    <3> QED
      BY <1>1, <2>1, <3>1, Zenon
  <2> QED
    BY <2>1, <2>2
<1>10. /\ \A k \in 1..(n + o) : k \in 1..n \/ (k - n \in 1..o /\ n + (k - n) = k /\ k > n)
       /\ \A k \in 1..n : k \in 1..(n + o) /\ k <= n
       /\ \A k \in 1..o : n + k \in 1..(n + o)
  BY <1>3
<1>11. \A k \in 1..(n + o) : k \in 1..n \/ (k - n \in 1..o /\ n + (k - n) = k /\ k > n /\ js2[k] = es[k - n])
  BY <1>9, <1>10
<1>12. Apart(p, js, js2)
  <2>1. ASSUME NEW r \in Ports, r # p PROVE Same(r, js, js2)
    <3>1. \A k \in 1..Len(es) : Foreign(es[k], r)
      BY <1>7, <1>8, <2>1 DEF Foreign, Carries, FlushOf, Job
    <3> QED
      BY <1>1, <1>7, <3>1, SameJoin
  <2> QED
    BY <2>1 DEF Apart
<1> HIDE DEF js2, m2, n, o, q
<1>13. JobsFit(Home(p), js2)
  <2>1. \A k \in 1..(n + o) : Fits(Home(p), js2[k])
    BY <1>8, <1>9, <1>11 DEF JobsFit, n
  <2> QED
    BY <1>9, <2>1 DEF JobsFit
<1>14. \A k \in 1..(n + o) : js2[k] # FlushOf(p)
  BY <1>8, <1>9, <1>11 DEF n
<1>15. Flushing(p, m2, js2, FALSE)
  BY <1>2, <1>9, <1>14 DEF Flushing
<1>16. Ordered(p, << >>, js2, s)
  <2>1. Ordered(p, q, js, s)
    BY DEF q
  <2>2. \A k \in 1..n : Carries(js[k], p) => js[k].msg <= s /\ \A l \in 1..o : js[k].msg < q[l]
    BY <2>1 DEF Ordered, n, o
  <2>3. /\ \A k \in 1..o : q[k] <= s
        /\ \A k, l \in 1..o : k < l => q[k] < q[l]
        /\ \A k, l \in 1..n : k < l /\ Carries(js[k], p) /\ Carries(js[l], p) => js[k].msg < js[l].msg
    BY <2>1 DEF Ordered, n, o
  <2>4. ASSUME NEW k \in 1..(n + o), NEW l \in 1..(n + o), k < l, Carries(js2[k], p), Carries(js2[l], p)
        PROVE  js2[k].msg < js2[l].msg
    <3>1. CASE k \in 1..n /\ l \in 1..n
      BY <3>1, <1>9, <2>3, <2>4
    <3>2. CASE k \in 1..n /\ l \notin 1..n
      BY <3>2, <1>8, <1>9, <1>11, <2>2, <2>4
    <3>3. CASE k \notin 1..n
      <4>1. k - n \in 1..o /\ l - n \in 1..o /\ k - n < l - n
        BY <3>3, <1>3, <1>10, <2>4
      <4>2. js2[k].msg = q[k - n] /\ js2[l].msg = q[l - n]
        <5>1. l \notin 1..n
          BY <1>3, <4>1
        <5> QED
          BY <3>3, <5>1, <1>8, <1>11
      <4> QED
        BY <4>1, <4>2, <2>3
    <3> QED
      BY <3>1, <3>2, <3>3
  <2>5. ASSUME NEW k \in 1..(n + o), Carries(js2[k], p) PROVE js2[k].msg <= s
    BY <1>8, <1>9, <1>11, <2>2, <2>3, <2>5
  <2>6. Len(<< >>) = 0 /\ 1..0 = {}
    OBVIOUS
  <2> QED
    BY <1>9, <2>4, <2>5, <2>6 DEF Ordered
<1>17. Carried(p, js2) = Elements(q) \cup Carried(p, js)
  <2>1. \A x : x \in Carried(p, js2) <=> \E k \in 1..(n + o) : Carries(js2[k], p) /\ js2[k].msg = x
    BY <1>9 DEF Carried, Carries
  <2>2. \A x : x \in Carried(p, js) <=> \E k \in 1..n : Carries(js[k], p) /\ js[k].msg = x
    BY DEF Carried, Carries, n
  <2>3. \A x : x \in Elements(q) <=> \E k \in 1..o : q[k] = x
    BY DEF Elements, o
  <2>4. ASSUME NEW k \in 1..(n + o), Carries(js2[k], p)
        PROVE  \/ k \in 1..n /\ Carries(js[k], p) /\ js[k].msg = js2[k].msg
               \/ k - n \in 1..o /\ q[k - n] = js2[k].msg
    BY <1>8, <1>9, <1>11, <2>4
  <2>5. ASSUME NEW k \in 1..n, Carries(js[k], p)
        PROVE  k \in 1..(n + o) /\ Carries(js2[k], p) /\ js2[k].msg = js[k].msg
    BY <1>9, <1>10, <2>5
  <2>6. ASSUME NEW k \in 1..o
        PROVE  n + k \in 1..(n + o) /\ Carries(js2[n + k], p) /\ js2[n + k].msg = q[k]
    BY <1>8, <1>9, <1>10
  <2>7. \A x : x \in Carried(p, js2) <=> x \in Elements(q) \/ x \in Carried(p, js)
    BY <2>1, <2>2, <2>3, <2>4, <2>5, <2>6
  <2>8. \A x : x \in Carried(p, js2) <=> x \in Elements(q) \cup Carried(p, js)
    BY <2>7
  <2> QED
    BY <2>8, Zenon DEF Carried
<1>18. Good(p, m2, js2, FALSE, s)
  BY <1>2, <1>13, <1>15, <1>16 DEF Good, Holds
<1>19. Going(p, m2, js2) = Going(p, m, js)
  <2>1. Elements(<< >>) = {}
    BY DEF Elements
  <2> QED
    BY <1>2, <1>17, <2>1 DEF Going, q
<1> QED
  BY <1>12, <1>18, <1>19 DEF js2, m2, es, q, o

-----------------------------------------------------------------------------
(* The next state, from the one that a handler computes.                   *)

(* The messages on their way, read off the members and the jobs.           *)
LEMMA TransitIs ==
    ASSUME TRUE
    PROVE  /\ transit = Transit(state)
           /\ \A p \in Ports : transit[p] = Going(p, port[p], jobs[Home(p)])
BY DEF transit, Transit, state, Going

(* A right state is assigned.                                              *)
LEMMA Settles ==
    ASSUME UNCHANGED m_can_deliver_inline, NEW st, NEW dr, NEW se, Right(st, dr, se),
           Assign(st), draining' = dr, sent' = se
    PROVE  Right(state, draining, sent)' /\ transit' = Transit(st)
<1>1. port' = st.port /\ jobs' = st.jobs /\ [port |-> port', jobs |-> jobs'] = st
  BY DEF Assign, Right, Rec
<1>2. \A r : Home(r)' = Home(r)
  BY DEF Home
<1>3. \A h, js : JobsFit(h, js)' <=> JobsFit(h, js)
  BY <1>2 DEF JobsFit, Fits
<1>4. \A r, q, js, s : Ordered(r, q, js, s)' <=> Ordered(r, q, js, s)
  BY DEF Ordered
<1>5. state' = st
  BY <1>1 DEF state
<1>6. Right(state, draining, sent)'
  BY <1>2, <1>3, <1>4, <1>5 DEF Right
<1>7. transit' = Transit(st)
  BY <1>1, <1>2 DEF transit, Transit, Going
<1> QED
  BY <1>6, <1>7

(* One port moves.                                                         *)
LEMMA Moved ==
    ASSUME Inv, UNCHANGED m_can_deliver_inline,
           NEW p \in Ports, NEW m, NEW js, NEW d \in BOOLEAN, NEW s \in Nat,
           Good(p, m, js, d, s), Apart(p, jobs[Home(p)], js), Assign(Put(state, p, m, js)),
           draining' = With(draining, p, d), sent' = With(sent, p, s)
    PROVE  Right(state, draining, sent)' /\ transit' = With(transit, p, Going(p, m, js))
<1>1. /\ Right(state, draining, sent) /\ draining \in [Ports -> BOOLEAN] /\ sent \in [Ports -> Nat]
      /\ Apart(p, state.jobs[Home(p)], js)
  <2>1. state.jobs = jobs
    BY DEF state
  <2> QED
    BY <2>1, PostsAssumption DEF Inv, Typed
<1>2. /\ Right(Put(state, p, m, js), With(draining, p, d), With(sent, p, s))
      /\ Transit(Put(state, p, m, js)) = With(Transit(state), p, Going(p, m, js))
  BY <1>1, Puts
<1>3. Right(state, draining, sent)' /\ transit' = Transit(Put(state, p, m, js))
  BY <1>2, Settles
<1> QED
  BY <1>2, <1>3, TransitIs

(* One port moves, and no message.                                         *)
LEMMA Unmoved ==
    ASSUME Inv, UNCHANGED <<m_can_deliver_inline, draining, sent>>, NEW p \in Ports, NEW m, NEW js,
           Good(p, m, js, draining[p], sent[p]), Apart(p, jobs[Home(p)], js),
           Assign(Put(state, p, m, js)), Going(p, m, js) = Going(p, port[p], jobs[Home(p)])
    PROVE  Right(state, draining, sent)' /\ transit' = transit
<1>1. draining \in [Ports -> BOOLEAN] /\ sent \in [Ports -> Nat]
  BY PostsAssumption DEF Inv, Typed
<1>2. /\ draining' = With(draining, p, draining[p]) /\ draining[p] \in BOOLEAN
      /\ sent' = With(sent, p, sent[p]) /\ sent[p] \in Nat
      /\ UNCHANGED m_can_deliver_inline
  BY <1>1 DEF With
<1>3. Right(state, draining, sent)' /\ transit' = With(transit, p, Going(p, m, js))
  BY <1>2, Moved
<1>4. With(transit, p, Going(p, m, js)) = transit
  <2>1. transit[p] = Going(p, m, js)
    BY TransitIs
  <2> QED
    BY <2>1 DEF transit, With
<1> QED
  BY <1>3, <1>4

(* What the invariant says of one port.                                    *)
LEMMA Parts ==
    ASSUME Inv, NEW p \in Ports
    PROVE  /\ Good(p, port[p], jobs[Home(p)], draining[p], sent[p])
           /\ port[p] \in Member /\ port[p].m_queue \in Seq(1..MaxPosts)
           /\ jobs[Home(p)] \in Seq(JobType) /\ state \in Rec /\ state.port = port /\ state.jobs = jobs
           /\ draining[p] \in BOOLEAN /\ sent[p] \in Nat /\ sent[p] \in 0..MaxPosts /\ MaxPosts \in Nat
           /\ Home(p) \in Isolates /\ Peer(p) \in Ports /\ Peer(p) # p
<1>1. state.port = port /\ state.jobs = jobs /\ Right(state, draining, sent)
  BY DEF state, Inv
<1>2. /\ Good(p, port[p], jobs[Home(p)], draining[p], sent[p])
      /\ port[p] \in Member /\ port[p].m_queue \in Seq(1..MaxPosts)
      /\ jobs[Home(p)] \in Seq(JobType) /\ state \in Rec
  BY <1>1, RightGood
<1>3. draining[p] \in BOOLEAN /\ sent[p] \in Nat /\ sent[p] \in 0..MaxPosts /\ MaxPosts \in Nat
  BY PostsAssumption DEF Inv, Typed
<1> QED
  BY <1>1, <1>2, <1>3, Homes

(* A state with nothing put, and a job begun.                              *)
LEMMA PutNone ==
    ASSUME Inv, NEW p \in Ports
    PROVE  /\ Put(state, p, port[p], jobs[Home(p)]) = state
           /\ Begun(Home(p)) = Put(state, p, port[p], Tail(jobs[Home(p)]))
<1>1. port \in [Ports -> Member] /\ jobs \in [Isolates -> Seq(JobType)] /\ Home(p) \in Isolates
  BY Parts DEF Rec, state
<1> DEFINE h == Home(p)
<1> HIDE DEF h
<1>2. [port EXCEPT ![p] = port[p]] = port /\ [jobs EXCEPT ![h] = jobs[h]] = jobs
  BY <1>1 DEF h
<1>3. Put(state, p, port[p], jobs[h]) = state
  BY <1>2 DEF Put, state, h
<1>4. Begun(h) = [port |-> port, jobs |-> [jobs EXCEPT ![h] = Tail(jobs[h])]]
  <2>1. ASSUME NEW x, NEW y, NEW e
        PROVE  [[port |-> x, jobs |-> y] EXCEPT !.jobs[h] = e] = [port |-> x, jobs |-> [y EXCEPT ![h] = e]]
    OBVIOUS
  <2>2. Begun(h) = [[port |-> port, jobs |-> jobs] EXCEPT !.jobs[h] = Tail(jobs[h])]
    BY Zenon DEF Begun, state
  <2> QED
    BY <2>1, <2>2
<1>5. Put(state, p, port[p], Tail(jobs[h])) = [port |-> port, jobs |-> [jobs EXCEPT ![h] = Tail(jobs[h])]]
  BY <1>2 DEF Put, state, h
<1> QED
  BY <1>3, <1>4, <1>5 DEF h

-----------------------------------------------------------------------------
(* enqueueSerializedMessage().                                             *)

Taking(p, m, n) ==
    [m EXCEPT !.m_holding = @ \/ (m.m_started /\ canDeliverMessages(p)), !.m_queue = Append(@, n)]

(* It changes one port.                                                    *)
LEMMA EnqueueIs ==
    ASSUME NEW st \in Rec, NEW p \in Ports, NEW m \in Member, NEW js, NEW n \in 1..MaxPosts
    PROVE  /\ Taking(p, m, n) \in Member
           /\ enqueueSerializedMessage(Put(st, p, m, js), p, n) =
                 Put(st, p, FlushM(p, Taking(p, m, n)), FlushJs(p, Taking(p, m, n), js))
<1> DEFINE m2 == Taking(p, m, n)
           a == Put(st, p, m, js)
<1>1. m2 \in Member
  <2>1. m.m_queue \in Seq(1..MaxPosts) /\ Append(m.m_queue, n) \in Seq(1..MaxPosts)
    BY Appended DEF Member
  <2>2. canDeliverMessages(p) \in BOOLEAN
    BY DEF canDeliverMessages
  <2> QED
    BY <2>1, <2>2 DEF Taking, Member
<1>2. /\ a = [port |-> [st.port EXCEPT ![p] = m], jobs |-> [st.jobs EXCEPT ![Home(p)] = js]]
      /\ a.port = [st.port EXCEPT ![p] = m] /\ a.port[p] = m /\ st.port \in [Ports -> Member]
      /\ a.jobs = [st.jobs EXCEPT ![Home(p)] = js]
  BY DEF Put, Rec
<1>3. [a EXCEPT !.port[p].m_holding = @ \/ (a.port[p].m_started /\ canDeliverMessages(p)),
                !.port[p].m_queue = Append(@, n)] =
         [port |-> [a.port EXCEPT ![p] = m2], jobs |-> a.jobs]
  <2> DEFINE x == a.port
             c == a.port[p].m_holding \/ (a.port[p].m_started /\ canDeliverMessages(p))
             e == Append(a.port[p].m_queue, n)
             z == [x EXCEPT ![p] = [x[p] EXCEPT !.m_holding = c]]
  <2>1. a = [port |-> x, jobs |-> a.jobs] /\ x \in [Ports -> Member]
    BY <1>2
  <2> HIDE DEF a, c, e, x
  <2>2. [a EXCEPT !.port[p].m_holding = c, !.port[p].m_queue = e] =
           [[a EXCEPT !.port[p].m_holding = c] EXCEPT !.port[p].m_queue = e]
    OBVIOUS
  <2>3. [a EXCEPT !.port[p].m_holding = c] = [port |-> z, jobs |-> a.jobs]
    BY <2>1
  <2>4. [[port |-> z, jobs |-> a.jobs] EXCEPT !.port[p].m_queue = e] =
           [port |-> [z EXCEPT ![p].m_queue = e], jobs |-> a.jobs]
    OBVIOUS
  <2>5. [z EXCEPT ![p].m_queue = e] = [x EXCEPT ![p] = [x[p] EXCEPT !.m_holding = c, !.m_queue = e]]
    BY <2>1
  <2>6. [a EXCEPT !.port[p].m_holding = c, !.port[p].m_queue = e] =
           [port |-> [x EXCEPT ![p] = [x[p] EXCEPT !.m_holding = c, !.m_queue = e]], jobs |-> a.jobs]
    BY <2>2, <2>3, <2>4, <2>5
  <2>7. [a EXCEPT !.port[p].m_holding = @ \/ (a.port[p].m_started /\ canDeliverMessages(p)),
                  !.port[p].m_queue = Append(@, n)] =
           [a EXCEPT !.port[p].m_holding = c, !.port[p].m_queue = e]
    BY Zenon DEF c, e
  <2>8. [x[p] EXCEPT !.m_holding = c, !.m_queue = e] = m2
    BY <1>2, Zenon DEF Taking, c, e, x
  <2> QED
    BY <2>6, <2>7, <2>8 DEF x
<1>4. [a.port EXCEPT ![p] = m2] = [st.port EXCEPT ![p] = m2]
  BY <1>2
<1>5. [port |-> [a.port EXCEPT ![p] = m2], jobs |-> a.jobs] = Put(st, p, m2, js)
  BY <1>2, <1>4 DEF Put
<1>6. enqueueSerializedMessage(a, p, n) = flush(Put(st, p, m2, js), p)
  BY <1>3, <1>5 DEF enqueueSerializedMessage
<1>7. flush(Put(st, p, m2, js), p) = Put(st, p, FlushM(p, m2), FlushJs(p, m2, js))
  BY <1>1, FlushIs
<1> QED
  BY <1>1, <1>6, <1>7

(* It takes the message that comes next.                                   *)
LEMMA EnqueueGood ==
    ASSUME NEW p \in Ports, NEW m, NEW js, NEW d \in BOOLEAN, NEW s \in Nat,
           m \in Member, JobsFit(Home(p), js), Holds(m), Flushing(p, m, js, d),
           Ordered(p, m.m_queue, js, s), NEW n \in 1..MaxPosts, NEW s2 \in Nat, s <= s2, n <= s2,
           \A k \in 1..Len(m.m_queue) : m.m_queue[k] < n,
           \A x \in Carried(p, js) : IF m_can_deliver_inline THEN n < x ELSE x < n
    PROVE  LET m2 == Taking(p, m, n)
           IN  /\ Good(p, FlushM(p, m2), FlushJs(p, m2, js), d, s2)
               /\ Apart(p, js, FlushJs(p, m2, js))
               /\ Going(p, FlushM(p, m2), FlushJs(p, m2, js)) = Going(p, m, js) \cup {n}
<1> DEFINE m2 == Taking(p, m, n)
           q  == m.m_queue
<1>1. q \in Seq(1..MaxPosts) /\ js \in Seq(JobType)
  BY DEF Member, JobsFit
<1>2. /\ m2 \in Member /\ m2.m_queue = Append(q, n) /\ m2.m_started = m.m_started
      /\ m2.m_flush_pending = m.m_flush_pending
      /\ m2.m_holding = (m.m_holding \/ (m.m_started /\ canDeliverMessages(p)))
  <2>1. Append(q, n) \in Seq(1..MaxPosts) /\ canDeliverMessages(p) \in BOOLEAN
    BY <1>1, Appended DEF canDeliverMessages
  <2> QED
    BY <2>1 DEF Taking, Member
<1>3. Append(q, n) # << >>
  BY <1>1, Appended
<1>4. Ordered(p, m2.m_queue, js, s2)
  BY <1>1, <1>2, OrderedQueue
<1>5. Flushing(p, m2, js, d)
  BY <1>2 DEF Flushing
<1>6. m2.m_holding => m2.m_flush_pending \/ Ready(p, m2)
  BY <1>2, <1>3 DEF Holds, Ready
<1> HIDE DEF m2
<1>7. Filled(p, m2, js, d, s2)
  BY <1>2, <1>4, <1>5, <1>6 DEF Filled
<1>8. Elements(m2.m_queue) = Elements(q) \cup {n}
  BY <1>1, <1>2, ElementsAppend
<1>9. Going(p, m2, js) = Going(p, m, js) \cup {n}
  BY <1>8 DEF Going
<1> QED
  BY <1>7, <1>9, FlushGood DEF m2

-----------------------------------------------------------------------------
(* The steps of postMessage().                                             *)

(* What was posted has been numbered.                                      *)
LEMMA Within ==
    ASSUME NEW p, NEW m, NEW js, NEW d, NEW s \in Nat, Good(p, m, js, d, s)
    PROVE  /\ \A k \in 1..Len(m.m_queue) : m.m_queue[k] \in Nat /\ m.m_queue[k] <= s
           /\ \A x \in Carried(p, js) : x \in Nat /\ x <= s
<1>1. m.m_queue \in Seq(1..MaxPosts) /\ js \in Seq(JobType) /\ Ordered(p, m.m_queue, js, s)
  BY DEF Good, Member, JobsFit
<1>2. /\ \A k \in 1..Len(m.m_queue) : m.m_queue[k] \in Nat
      /\ \A k \in 1..Len(js) : js[k].msg \in Nat
  BY <1>1, Numbers
<1>3. ASSUME NEW x \in Carried(p, js) PROVE x \in Nat /\ x <= s
  <2>1. PICK k \in 1..Len(js) : Carries(js[k], p) /\ js[k].msg = x
    BY DEF Carried, Carries
  <2> QED
    BY <1>1, <1>2, <2>1 DEF Ordered
<1> QED
  BY <1>1, <1>2, <1>3 DEF Ordered

(* The channel sees nothing.                                               *)
LEMMA Quiet ==
    ASSUME UNCHANGED <<sent, seen, received, lost>>, transit' = transit
    PROVE  [Chan!Next]_(Chan!vars)
BY DEF Chan!vars

(* The channel sees a post.                                                *)
LEMMA PostStep ==
    ASSUME NEW p \in Ports, NEW m, NEW js, UNCHANGED <<seen, received, lost>>,
           sent' = With(sent, p, sent[p] + 1), transit' = With(transit, p, Going(p, m, js)),
           Going(p, m, js) = transit[p] \cup {sent[p] + 1}
    PROVE  [Chan!Next]_(Chan!vars)
<1>1. Chan!Post(p)
  BY DEF Chan!Post, With
<1> QED
  BY <1>1 DEF Chan!Next

(* postMessage() inside one isolate.                                       *)
LEMMA PostHereInv ==
    ASSUME Inv, NEW p \in Ports, PostHere(p)
    PROVE  Inv' /\ [Chan!Next]_(Chan!vars)
<1> DEFINE q == Peer(p)
           m == port[q]
           js == jobs[Home(q)]
           n == sent[q] + 1
           m2 == Taking(q, m, n)
<1>1. /\ q \in Ports /\ Typed /\ Posting
      /\ ~m_can_deliver_inline /\ UNCHANGED <<m_can_deliver_inline, draining, listening, posting>>
      /\ UNCHANGED <<seen, received, lost>>
  BY Homes DEF Inv, PostHere
<1>2. /\ Good(q, m, js, draining[q], sent[q]) /\ m \in Member /\ js \in Seq(JobType) /\ state \in Rec
      /\ draining[q] \in BOOLEAN /\ sent[q] \in Nat
  BY <1>1, Parts
<1>3. n \in 1..MaxPosts /\ n \in Nat /\ sent[q] <= n /\ n <= n
  <2>1. sent["parent"] \in Nat /\ sent["child"] \in Nat /\ MaxPosts \in Nat
    BY <1>1, PostsAssumption DEF Typed, Ports
  <2>2. sent["parent"] + sent["child"] < MaxPosts
    BY DEF PostHere, Posts
  <2>3. q = "parent" \/ q = "child"
    BY <1>1 DEF Ports
  <2> QED
    BY <2>1, <2>2, <2>3
<1>4. sent' = With(sent, q, n) /\ draining' = With(draining, q, draining[q])
  BY <1>1 DEF PostHere, With, Typed
<1>5. Assign(enqueueSerializedMessage(state, q, n))
  BY DEF PostHere
<1> HIDE DEF n, q
<1>6. /\ \A k \in 1..Len(m.m_queue) : m.m_queue[k] < n
      /\ \A x \in Carried(q, js) : x < n
  <2>1. /\ \A k \in 1..Len(m.m_queue) : m.m_queue[k] \in Nat /\ m.m_queue[k] <= sent[q]
        /\ \A x \in Carried(q, js) : x \in Nat /\ x <= sent[q]
    BY <1>2, Within
  <2> QED
    BY <1>2, <2>1 DEF n
<1>7. enqueueSerializedMessage(state, q, n) = Put(state, q, FlushM(q, m2), FlushJs(q, m2, js))
  <2>1. enqueueSerializedMessage(Put(state, q, m, js), q, n) = Put(state, q, FlushM(q, m2), FlushJs(q, m2, js))
    BY <1>1, <1>2, <1>3, EnqueueIs
  <2>2. Put(state, q, m, js) = state
    BY <1>1, PutNone
  <2> QED
    BY <2>1, <2>2
<1>8. /\ Good(q, FlushM(q, m2), FlushJs(q, m2, js), draining[q], n)
      /\ Apart(q, js, FlushJs(q, m2, js))
      /\ Going(q, FlushM(q, m2), FlushJs(q, m2, js)) = Going(q, m, js) \cup {n}
  <2>1. /\ JobsFit(Home(q), js) /\ Holds(m) /\ Flushing(q, m, js, draining[q])
        /\ Ordered(q, m.m_queue, js, sent[q])
    BY <1>2 DEF Good
  <2>2. \A x \in Carried(q, js) : IF m_can_deliver_inline THEN n < x ELSE x < n
    BY <1>1, <1>6
  <2> QED
    BY <1>1, <1>2, <1>3, <1>6, <2>1, <2>2, EnqueueGood
<1>9. /\ Right(state, draining, sent)'
      /\ transit' = With(transit, q, Going(q, FlushM(q, m2), FlushJs(q, m2, js)))
  BY <1>1, <1>2, <1>3, <1>4, <1>5, <1>7, <1>8, Moved
<1>10. Typed' /\ Posting'
  <2>1. sent' \in [Ports -> 0..MaxPosts]
    BY <1>1, <1>3, <1>4, PostsAssumption DEF With, Typed
  <2> QED
    BY <1>1, <2>1 DEF Typed, Posting
<1>11. Going(q, FlushM(q, m2), FlushJs(q, m2, js)) = transit[q] \cup {n}
  BY <1>1, <1>8, TransitIs
<1>12. [Chan!Next]_(Chan!vars)
  BY <1>1, <1>4, <1>9, <1>11, PostStep DEF n
<1> QED
  BY <1>9, <1>10, <1>12 DEF Inv

(* postMessage() between isolates passes its checks.                       *)
LEMMA PostCheckInv ==
    ASSUME Inv, NEW p \in Ports, PostCheck(p)
    PROVE  Inv' /\ [Chan!Next]_(Chan!vars)
<1>1. /\ Typed /\ Posting /\ UNCHANGED <<m_can_deliver_inline, port, jobs, draining, listening>>
      /\ UNCHANGED <<sent, seen, received, lost>> /\ m_can_deliver_inline
      /\ posting' = [posting EXCEPT ![p] = "checked"]
      /\ sent["parent"] + sent["child"] < MaxPosts
  BY DEF Inv, PostCheck, Posts
<1>2. sent[Peer(p)] < MaxPosts
  <2>1. sent["parent"] \in Nat /\ sent["child"] \in Nat /\ MaxPosts \in Nat
    BY <1>1, PostsAssumption DEF Typed, Ports
  <2>2. Peer(p) = "parent" \/ Peer(p) = "child"
    BY DEF Peer
  <2> QED
    BY <1>1, <2>1, <2>2
<1>3. Right(state, draining, sent)' /\ transit' = transit
  <2>1. Right(state, draining, sent) /\ Assign(state)
    BY <1>1 DEF Inv, Assign, state
  <2>2. Right(state, draining, sent)' /\ transit' = Transit(state)
    BY <1>1, <2>1, Settles
  <2> QED
    BY <2>2, TransitIs
<1>4. Posting'
  BY <1>1, <1>2 DEF Posting, Typed
<1>5. Typed'
  BY <1>1 DEF Typed
<1>6. [Chan!Next]_(Chan!vars)
  BY <1>1, <1>3, Quiet
<1> QED
  BY <1>3, <1>4, <1>5, <1>6 DEF Inv

(* A job is posted to the peer's isolate.                                  *)
LEMMA SentInv ==
    ASSUME Inv, NEW p \in Ports, posting[p] = "checked",
           posting' = [posting EXCEPT ![p] = "no"],
           sent' = [sent EXCEPT ![Peer(p)] = @ + 1],
           Assign(Post(state, Peer(p), Job("enqueue", Peer(p), sent[Peer(p)] + 1))),
           UNCHANGED <<m_can_deliver_inline, draining, listening, seen, received, lost>>
    PROVE  Inv' /\ [Chan!Next]_(Chan!vars)
<1> DEFINE q == Peer(p)
           m == port[q]
           js == jobs[Home(q)]
           n == sent[q] + 1
           js2 == Append(js, Job("enqueue", q, n))
<1>1. q \in Ports /\ Typed /\ Posting /\ m_can_deliver_inline /\ sent[q] < MaxPosts
  BY Homes DEF Inv, Posting
<1>2. /\ Good(q, m, js, draining[q], sent[q]) /\ m \in Member /\ state \in Rec
      /\ state.port = port /\ state.jobs = jobs
      /\ draining[q] \in BOOLEAN /\ sent[q] \in Nat /\ MaxPosts \in Nat
  BY <1>1, Parts
<1>3. n \in 0..MaxPosts /\ n \in Nat
  BY <1>1, <1>2
<1>4. sent' = With(sent, q, n) /\ draining' = With(draining, q, draining[q])
  BY <1>1 DEF With, Typed
<1>5. Assign(Post(state, q, Job("enqueue", q, n))) /\ UNCHANGED m_can_deliver_inline
  OBVIOUS
<1>6. Good(q, m, js2, draining[q], n) /\ Apart(q, js, js2) /\ Going(q, m, js2) = Going(q, m, js) \cup {n}
  BY <1>1, <1>2, PostGood
<1> HIDE DEF n, q
<1>7. Post(state, q, Job("enqueue", q, n)) = Put(state, q, m, js2)
  <2>1. ASSUME NEW x, NEW y, NEW e
        PROVE  Post([port |-> x, jobs |-> y], q, e) =
                  [port |-> x, jobs |-> [y EXCEPT ![Home(q)] = Append(y[Home(q)], e)]]
    BY DEF Post
  <2>2. [port EXCEPT ![q] = m] = port
    BY <1>1, <1>2 DEF Rec
  <2> QED
    BY <2>1, <2>2 DEF Put, state
<1> HIDE DEF js2
<1>8. Right(state, draining, sent)' /\ transit' = With(transit, q, Going(q, m, js2))
  <2>1. Assign(Put(state, q, m, js2)) /\ q \in Ports /\ draining[q] \in BOOLEAN
    BY <1>1, <1>2, <1>5, <1>7
  <2>2. Good(q, m, js2, draining[q], n) /\ Apart(q, jobs[Home(q)], js2)
    BY <1>6
  <2> QED
    BY <1>3, <1>4, <1>5, <2>1, <2>2, Moved
<1>9. Typed'
  <2>1. sent' \in [Ports -> 0..MaxPosts]
    BY <1>1, <1>3, <1>4 DEF With, Typed
  <2> QED
    BY <1>1, <2>1 DEF Typed
<1>10. Posting'
  <2>1. ASSUME NEW r \in Ports, posting'[r] = "checked" PROVE sent'[Peer(r)] < MaxPosts
    <3>1. r # p /\ posting[r] = "checked"
      BY <1>1, <2>1 DEF Typed
    <3>2. Peer(r) # q /\ Peer(r) \in Ports
      BY <3>1 DEF Peer, Ports, q
    <3> QED
      BY <1>1, <1>4, <3>1, <3>2 DEF Posting, With, Typed
  <2> QED
    BY <1>1, <2>1 DEF Posting
<1>11. Going(q, m, js2) = transit[q] \cup {n}
  BY <1>1, <1>6, TransitIs
<1>12. [Chan!Next]_(Chan!vars)
  BY <1>1, <1>4, <1>8, <1>11, PostStep DEF n
<1> QED
  BY <1>8, <1>9, <1>10, <1>12 DEF Inv

(* postMessage() reads m_peer again.                                       *)
LEMMA PostSendInv ==
    ASSUME Inv, NEW p \in Ports, PostSend(p) \/ PostSevered(p)
    PROVE  Inv' /\ [Chan!Next]_(Chan!vars)
<1>1. CASE PostSend(p)
  BY <1>1, SentInv DEF PostSend
<1>2. CASE PostSevered(p)
  <2>0. /\ posting[p] = "checked" /\ UNCHANGED <<m_can_deliver_inline, port, draining, listening>>
        /\ UNCHANGED <<seen, received, lost>> /\ Typed /\ Posting
    BY <1>2 DEF PostSevered, Inv
  <2>1. CASE posting' = [posting EXCEPT ![p] = "null"] /\ UNCHANGED <<jobs, sent>>
    <3>1. Right(state, draining, sent)' /\ transit' = transit
      <4>1. Right(state, draining, sent) /\ Assign(state)
        BY <2>0, <2>1 DEF Inv, Assign, state
      <4>2. Right(state, draining, sent)' /\ transit' = Transit(state)
        BY <2>0, <2>1, <4>1, Settles
      <4> QED
        BY <4>2, TransitIs
    <3>2. Typed' /\ Posting'
      BY <2>0, <2>1 DEF Typed, Posting
    <3>3. [Chan!Next]_(Chan!vars)
      BY <2>0, <2>1, <3>1, Quiet
    <3> QED
      BY <3>1, <3>2, <3>3 DEF Inv
  <2>2. CASE /\ posting' = [posting EXCEPT ![p] = "no"]
             /\ sent' = [sent EXCEPT ![Peer(p)] = @ + 1]
             /\ jobs' = Post(state, Peer(p), Job("enqueue", Peer(p), sent[Peer(p)] + 1)).jobs
    <3>1. \A e : Post(state, Peer(p), e).port = port
      BY DEF Post, state
    <3>2. Assign(Post(state, Peer(p), Job("enqueue", Peer(p), sent[Peer(p)] + 1)))
      BY <2>0, <2>2, <3>1 DEF Assign
    <3> QED
      BY <2>0, <2>2, <3>2, SentInv
  <2> QED
    BY <1>2, <2>1, <2>2 DEF PostSevered
<1> QED
  BY <1>1, <1>2

-----------------------------------------------------------------------------
(* Steps that the channel does not see.                                    *)

(* One port changes, and no message moves.                                 *)
LEMMA Still ==
    ASSUME Inv, UNCHANGED <<m_can_deliver_inline, draining, posting, sent>>,
           UNCHANGED <<seen, received, lost>>, listening' \in [Ports -> BOOLEAN],
           NEW p \in Ports, NEW m, NEW js,
           Good(p, m, js, draining[p], sent[p]), Apart(p, jobs[Home(p)], js),
           Assign(Put(state, p, m, js)), Going(p, m, js) = Going(p, port[p], jobs[Home(p)])
    PROVE  Inv' /\ [Chan!Next]_(Chan!vars)
<1>1. UNCHANGED <<m_can_deliver_inline, draining, sent>> /\ UNCHANGED <<sent, seen, received, lost>>
  OBVIOUS
<1>2. Right(state, draining, sent)' /\ transit' = transit
  BY <1>1, Unmoved
<1>3. Typed' /\ Posting'
  BY DEF Inv, Typed, Posting
<1>4. [Chan!Next]_(Chan!vars)
  BY <1>1, <1>2, Quiet
<1> QED
  BY <1>2, <1>3, <1>4 DEF Inv

(* Members that the invariant says nothing of.                             *)
LEMMA Touched ==
    ASSUME NEW p, NEW m, NEW js, NEW d, NEW s, Good(p, m, js, d, s), NEW m2 \in Member,
           m2.m_flush_pending = m.m_flush_pending, m2.m_holding = m.m_holding, m2.m_queue = m.m_queue
    PROVE  /\ Good(p, m2, js, d, s) /\ Going(p, m2, js) = Going(p, m, js)
           /\ Filled(p, m2, js, d, s)
BY DEF Good, Holds, Flushing, Going, Filled

Started(p, m) ==
    [m EXCEPT !.m_started = TRUE, !.m_keepalive_refed = @ \/ contributesKeepAlive(p)]

(* start() changes one port.                                               *)
LEMMA StartIs ==
    ASSUME NEW st \in Rec, NEW p \in Ports, ~st.port[p].m_closed, ~st.port[p].m_started
    PROVE  start(st, p) = flush(Put(st, p, Started(p, st.port[p]), st.jobs[Home(p)]), p)
<1> DEFINE x == st.port
           y == st.jobs
           m == x[p]
           c == m.m_keepalive_refed \/ contributesKeepAlive(p)
           yes == TRUE
           m2 == [m EXCEPT !.m_started = yes, !.m_keepalive_refed = c]
           z == [x EXCEPT ![p] = [m EXCEPT !.m_started = yes]]
<1>1. x \in [Ports -> Member] /\ y \in [Isolates -> Seq(JobType)] /\ st = [port |-> x, jobs |-> y]
  BY DEF Rec
<1>2. start(st, p) = flush([st EXCEPT !.port[p].m_started = yes, !.port[p].m_keepalive_refed = c], p)
  BY DEF start
<1>3. m2 = Started(p, m)
  BY Zenon DEF Started
<1>4. [y EXCEPT ![Home(p)] = y[Home(p)]] = y
  BY <1>1, Homes
<1> HIDE DEF c, x, y, yes
<1>5. [st EXCEPT !.port[p].m_started = yes, !.port[p].m_keepalive_refed = c] =
         [[st EXCEPT !.port[p].m_started = yes] EXCEPT !.port[p].m_keepalive_refed = c]
  OBVIOUS
<1>6. [st EXCEPT !.port[p].m_started = yes] = [port |-> z, jobs |-> y]
  <2>1. [[port |-> x, jobs |-> y] EXCEPT !.port[p].m_started = yes] = [port |-> z, jobs |-> y]
    OBVIOUS
  <2> QED
    BY <1>1, <2>1, Zenon
<1>7. [[port |-> z, jobs |-> y] EXCEPT !.port[p].m_keepalive_refed = c] =
         [port |-> [z EXCEPT ![p].m_keepalive_refed = c], jobs |-> y]
  OBVIOUS
<1>8. [z EXCEPT ![p].m_keepalive_refed = c] = [x EXCEPT ![p] = m2]
  BY <1>1
<1>9. [port |-> [x EXCEPT ![p] = m2], jobs |-> y] = Put(st, p, m2, y[Home(p)])
  BY <1>4, Zenon DEF Put, x, y
<1> QED
  BY <1>2, <1>3, <1>5, <1>6, <1>7, <1>8, <1>9 DEF x, y

(* start().                                                                *)
LEMMA StartStill ==
    ASSUME Inv, NEW p \in Ports, Assign(start(state, p)),
           UNCHANGED <<m_can_deliver_inline, draining, posting, sent>>,
           UNCHANGED <<seen, received, lost>>, listening' \in [Ports -> BOOLEAN]
    PROVE  Inv' /\ [Chan!Next]_(Chan!vars)
<1> DEFINE m == port[p]
           js == jobs[Home(p)]
<1>1. /\ Good(p, m, js, draining[p], sent[p]) /\ m \in Member /\ state \in Rec
      /\ state.port = port /\ state.jobs = jobs /\ draining[p] \in BOOLEAN
  BY Parts
<1>2. Put(state, p, m, js) = state
  BY PutNone
<1>3. CASE m.m_closed \/ m.m_started
  <2>1. Assign(Put(state, p, m, js))
    BY <1>1, <1>2, <1>3 DEF start
  <2>2. Apart(p, js, js)
    BY ApartNone
  <2> QED
    BY <1>1, <2>1, <2>2, Still
<1>4. CASE ~(m.m_closed \/ m.m_started)
  <2> DEFINE m2 == Started(p, m)
  <2>1. /\ m2 \in Member /\ m2.m_flush_pending = m.m_flush_pending
        /\ m2.m_holding = m.m_holding /\ m2.m_queue = m.m_queue
    <3>1. contributesKeepAlive(p) \in BOOLEAN
      BY DEF contributesKeepAlive
    <3> QED
      BY <1>1, <3>1 DEF Member, Started
  <2> HIDE DEF m2
  <2>2. start(state, p) = flush(Put(state, p, m2, js), p)
    BY <1>1, <1>4, StartIs DEF m2
  <2>4. start(state, p) = Put(state, p, FlushM(p, m2), FlushJs(p, m2, js))
    BY <1>1, <2>1, <2>2, FlushIs
  <2>5. Filled(p, m2, js, draining[p], sent[p]) /\ Going(p, m2, js) = Going(p, m, js)
    BY <1>1, <2>1, Touched
  <2>6. /\ Good(p, FlushM(p, m2), FlushJs(p, m2, js), draining[p], sent[p])
        /\ Apart(p, js, FlushJs(p, m2, js))
        /\ Going(p, FlushM(p, m2), FlushJs(p, m2, js)) = Going(p, m, js)
    BY <1>1, <2>5, FlushGood
  <2> QED
    BY <2>4, <2>6, Still
<1> QED
  BY <1>3, <1>4

(* Listeners and the members that scripts set.                             *)
LEMMA ScriptInv ==
    ASSUME Inv, NEW p \in Ports, On(p) \/ Off(p) \/ Start(p) \/ ref(p) \/ unref(p)
    PROVE  Inv' /\ [Chan!Next]_(Chan!vars)
<1> DEFINE m == port[p]
           js == jobs[Home(p)]
<1>1. /\ Good(p, m, js, draining[p], sent[p]) /\ m \in Member /\ state \in Rec
      /\ state.port = port /\ state.jobs = jobs /\ Put(state, p, m, js) = state
      /\ listening \in [Ports -> BOOLEAN] /\ Apart(p, js, js)
  BY Parts, PutNone, ApartNone DEF Inv, Typed
<1>2. CASE On(p)
  <2>1. listening' \in [Ports -> BOOLEAN]
    BY <1>1, <1>2 DEF On
  <2>2. /\ Assign(start(state, p)) /\ UNCHANGED <<m_can_deliver_inline, draining, posting, sent>>
        /\ UNCHANGED <<seen, received, lost>>
    BY <1>2 DEF On
  <2> QED
    BY <2>1, <2>2, StartStill
<1>3. CASE Start(p)
  <2>1. listening' \in [Ports -> BOOLEAN]
    BY <1>1, <1>3 DEF Start
  <2>2. /\ Assign(start(state, p)) /\ UNCHANGED <<m_can_deliver_inline, draining, posting, sent>>
        /\ UNCHANGED <<seen, received, lost>>
    BY <1>3 DEF Start
  <2> QED
    BY <2>1, <2>2, StartStill
<1>4. CASE Off(p)
  <2>1. listening' \in [Ports -> BOOLEAN]
    BY <1>1, <1>4 DEF Off
  <2>2. /\ Assign(Put(state, p, m, js)) /\ UNCHANGED <<m_can_deliver_inline, draining, posting, sent>>
        /\ UNCHANGED <<seen, received, lost>>
    BY <1>1, <1>4 DEF Off, Assign
  <2> QED
    BY <1>1, <2>1, <2>2, Still
<1>5. ASSUME NEW b \in BOOLEAN, port' = [port EXCEPT ![p].m_keepalive_refed = b],
             UNCHANGED <<m_can_deliver_inline, jobs, draining, listening, posting, sent, seen, received, lost>>
      PROVE  Inv' /\ [Chan!Next]_(Chan!vars)
  <2> DEFINE m2 == [m EXCEPT !.m_keepalive_refed = b]
  <2>1. /\ m2 \in Member /\ m2.m_flush_pending = m.m_flush_pending
        /\ m2.m_holding = m.m_holding /\ m2.m_queue = m.m_queue
    BY <1>1 DEF Member
  <2>2. Assign(Put(state, p, m2, js))
    <3>1. port' = [port EXCEPT ![p] = m2]
      BY <1>5
    <3>2. [jobs EXCEPT ![Home(p)] = js] = jobs /\ jobs' = jobs
      BY <1>1, <1>5, Homes DEF Rec
    <3> HIDE DEF m2
    <3> QED
      BY <1>1, <3>1, <3>2 DEF Assign, Put
  <2> HIDE DEF m2
  <2>3. Good(p, m2, js, draining[p], sent[p]) /\ Going(p, m2, js) = Going(p, m, js)
    BY <1>1, <2>1, Touched
  <2>4. /\ UNCHANGED <<m_can_deliver_inline, draining, posting, sent>>
        /\ UNCHANGED <<seen, received, lost>> /\ listening' \in [Ports -> BOOLEAN]
    BY <1>1, <1>5
  <2> QED
    BY <1>1, <2>2, <2>3, <2>4, Still
<1>6. CASE ref(p) \/ unref(p)
  BY <1>5, <1>6 DEF ref, unref
<1> QED
  BY <1>2, <1>3, <1>4, <1>6

-----------------------------------------------------------------------------
(* Messages leave.                                                         *)

(* The first message leaves a queue, in a worker's channel the oldest.      *)
LEMMA Leaves ==
    ASSUME NEW p, NEW m, NEW js, NEW d, NEW s \in Nat, Good(p, m, js, d, s), m.m_queue # << >>,
           NEW m2, m2.m_queue = Tail(m.m_queue)
    PROVE  LET n == Head(m.m_queue)
           IN  /\ n \in 1..MaxPosts /\ n \in Going(p, m, js) /\ n \in Nat
               /\ Going(p, m2, js) = Going(p, m, js) \ {n}
               /\ Ordered(p, Tail(m.m_queue), js, s) /\ Tail(m.m_queue) \in Seq(1..MaxPosts)
               /\ m_can_deliver_inline => \A x \in Going(p, m, js) : n <= x
<1> DEFINE q == m.m_queue
           n == Head(q)
           t == Tail(q)
<1>1. q \in Seq(1..MaxPosts) /\ js \in Seq(JobType) /\ Ordered(p, q, js, s) /\ q # << >>
  BY DEF Good, Member, JobsFit
<1>2. /\ Ordered(p, t, js, s) /\ n \in 1..MaxPosts /\ t \in Seq(1..MaxPosts)
      /\ \A x \in Elements(t) : n < x
      /\ \A x \in Elements(q), y \in Carried(p, js) : x \in Nat /\ y \in Nat /\ x # y
      /\ m_can_deliver_inline => \A x \in Elements(q), y \in Carried(p, js) : x < y
  BY <1>1, OrderedLess
<1>3. Elements(q) = {n} \cup Elements(t)
  BY <1>1, ElementsTail
<1>4. n \in Nat
  BY <1>2
<1>5. m2.m_queue = t
  OBVIOUS
<1>n. (\A x \in Elements(q) : x \in Nat) /\ \A y \in Carried(p, js) : y \in Nat
  BY Within DEF Elements
<1> HIDE DEF n, t, q
<1>6. \A x \in Elements(t) : x # n
  BY <1>2, <1>4
<1>7. \A y \in Carried(p, js) : y # n
  BY <1>2, <1>3
<1>8. Going(p, m, js) = Elements(q) \cup Carried(p, js) /\ Going(p, m2, js) = Elements(t) \cup Carried(p, js)
  BY <1>5 DEF Going, q
<1>9. Going(p, m2, js) = Going(p, m, js) \ {n} /\ n \in Going(p, m, js)
  BY <1>3, <1>6, <1>7, <1>8
<1>10. ASSUME m_can_deliver_inline, NEW x \in Going(p, m, js) PROVE n <= x
  <2>1. CASE x = n
    BY <1>4, <2>1
  <2>2. CASE x \in Elements(t)
    <3>1. n < x /\ x \in Elements(q)
      BY <1>2, <1>3, <2>2
    <3> QED
      BY <1>4, <1>n, <3>1
  <2>3. CASE x \in Carried(p, js)
    <3>1. n < x
      BY <1>2, <1>3, <1>10, <2>3
    <3> QED
      BY <1>4, <1>n, <2>3, <3>1
  <2> QED
    BY <1>3, <1>8, <2>1, <2>2, <2>3
<1> QED
  BY <1>2, <1>4, <1>9, <1>10 DEF n, t, q

(* The channel sees a message taken.                                       *)
LEMMA ReceiveStep ==
    ASSUME NEW p \in Ports, NEW n \in transit[p], NEW g, g = transit[p] \ {n},
           UNCHANGED <<sent, seen, lost>>, received' = With(received, p, received[p] \cup {n}),
           transit' = With(transit, p, g)
    PROVE  [Chan!Next]_(Chan!vars)
<1>1. Chan!Receive(p)
  BY DEF Chan!Receive, Chan!Remove, With
<1> QED
  BY <1>1 DEF Chan!Next

(* The channel sees messages lost.                                         *)
LEMMA LoseStep ==
    ASSUME NEW p \in Ports, NEW S \in SUBSET transit[p], NEW g, g = transit[p] \ S,
           UNCHANGED <<sent, seen, received>>, lost' = With(lost, p, lost[p] \cup S),
           transit' = With(transit, p, g)
    PROVE  [Chan!Next]_(Chan!vars)
<1>1. Chan!Lose(p)
  BY DEF Chan!Lose, Chan!Remove, With
<1> QED
  BY <1>1 DEF Chan!Next

(* The oldest message is emitted.                                          *)
LEMMA EmitStep ==
    ASSUME Inv, NEW p \in Ports, NEW n \in transit[p], n \in 1..MaxPosts,
           \A x \in transit[p] : n <= x, NEW g, g = transit[p] \ {n},
           UNCHANGED <<sent, received>>, Emit(p, n), transit' = With(transit, p, g)
    PROVE  /\ [Chan!Next]_(Chan!vars)
           /\ seen' \in [Ports -> Seq(1..MaxPosts)] /\ lost' \in [Ports -> SUBSET (1..MaxPosts)]
<1>0. seen \in [Ports -> Seq(1..MaxPosts)] /\ lost \in [Ports -> SUBSET (1..MaxPosts)]
  BY DEF Inv, Typed
<1>1. CASE listening[p]
  <2>1. seen' = [seen EXCEPT ![p] = Append(@, n)] /\ lost' = lost
    BY <1>0, <1>1 DEF Emit
  <2>2. Chan!Oldest(p, n)
    BY DEF Chan!Oldest
  <2>3. Chan!Remove(p, {n})
    BY DEF Chan!Remove, With
  <2>4. Chan!Deliver(p)
    BY <2>1, <2>2, <2>3 DEF Chan!Deliver
  <2>5. Append(seen[p], n) \in Seq(1..MaxPosts)
    BY <1>0, Appended
  <2> QED
    BY <1>0, <2>1, <2>4, <2>5 DEF Chan!Next
<1>2. CASE ~listening[p]
  <2>1. seen' = seen /\ lost' = With(lost, p, lost[p] \cup {n})
    BY <1>0, <1>2 DEF Emit, With
  <2>2. {n} \in SUBSET transit[p]
    OBVIOUS
  <2>3. [Chan!Next]_(Chan!vars)
    BY <2>1, <2>2, LoseStep
  <2> QED
    BY <1>0, <2>1, <2>3 DEF With
<1> QED
  BY <1>1, <1>2

(* receiveMessageOnPort().                                                 *)
LEMMA receiveMessageInv ==
    ASSUME Inv, NEW p \in Ports, receiveMessage(p)
    PROVE  Inv' /\ [Chan!Next]_(Chan!vars)
<1> DEFINE m == port[p]
           js == jobs[Home(p)]
           t == Tail(m.m_queue)
           n == Head(m.m_queue)
           b == m.m_holding /\ Len(m.m_queue) > 1
           m2 == [m EXCEPT !.m_queue = t, !.m_holding = b]
<1>1. /\ Good(p, m, js, draining[p], sent[p]) /\ m \in Member /\ state \in Rec
      /\ state.port = port /\ state.jobs = jobs /\ sent[p] \in Nat
      /\ Apart(p, js, js) /\ Typed /\ Posting
  BY Parts, ApartNone DEF Inv
<1>2. /\ m.m_queue # << >> /\ port' = [port EXCEPT ![p].m_queue = t, ![p].m_holding = b]
      /\ received' = [received EXCEPT ![p] = @ \cup {n}]
      /\ UNCHANGED <<m_can_deliver_inline, draining, sent>> /\ UNCHANGED <<sent, seen, lost>>
      /\ UNCHANGED <<jobs, listening, posting>>
  BY DEF receiveMessage
<1>3. Ordered(p, t, js, sent[p]) /\ t \in Seq(1..MaxPosts)
  <2>1. m.m_queue \in Seq(1..MaxPosts) /\ js \in Seq(JobType) /\ Ordered(p, m.m_queue, js, sent[p])
    BY <1>1 DEF Good, Member, JobsFit
  <2> QED
    BY <1>1, <1>2, <2>1, OrderedLess
<1>4. b \in BOOLEAN /\ (b => m.m_holding)
  OBVIOUS
<1> HIDE DEF t, b, n
<1>5. m2 \in Member /\ m2.m_queue = t /\ m2.m_holding = b /\ m2.m_flush_pending = m.m_flush_pending
  BY <1>1, <1>3, <1>4 DEF Member
<1>6. Assign(Put(state, p, m2, js))
  <2>1. port' = [port EXCEPT ![p] = m2]
    BY <1>1, <1>2 DEF Rec
  <2>2. [jobs EXCEPT ![Home(p)] = js] = jobs /\ jobs' = jobs
    BY <1>1, <1>2, Homes DEF Rec
  <2> HIDE DEF m2
  <2> QED
    BY <1>1, <2>1, <2>2 DEF Assign, Put
<1> HIDE DEF m2
<1>7. Good(p, m2, js, draining[p], sent[p])
  BY <1>1, <1>3, <1>4, <1>5 DEF Good, Holds, Flushing
<1>8. /\ n \in 1..MaxPosts /\ n \in Going(p, m, js)
      /\ Going(p, m2, js) = Going(p, m, js) \ {n}
  BY <1>1, <1>2, <1>5, Leaves DEF t, n
<1>9. draining' = With(draining, p, draining[p]) /\ sent' = With(sent, p, sent[p]) /\ draining[p] \in BOOLEAN
      /\ UNCHANGED m_can_deliver_inline
  BY <1>1, <1>2 DEF Typed, With
<1>10. Right(state, draining, sent)' /\ transit' = With(transit, p, Going(p, m2, js))
  BY <1>1, <1>6, <1>7, <1>9, Moved
<1>11. Typed' /\ Posting'
  BY <1>1, <1>2, <1>8 DEF Typed, Posting
<1>12. [Chan!Next]_(Chan!vars)
  <2>1. transit[p] = Going(p, m, js)
    BY TransitIs
  <2>2. received' = With(received, p, received[p] \cup {n})
    BY <1>2 DEF With
  <2> QED
    BY <1>2, <1>8, <1>10, <2>1, <2>2, ReceiveStep
<1> QED
  BY <1>10, <1>11, <1>12 DEF Inv

-----------------------------------------------------------------------------
(* The jobs of an isolate.                                                 *)

(* The first job is of a port of the isolate.                              *)
LEMMA FirstJob ==
    ASSUME Inv, NEW i \in Isolates, jobs[i] # << >>
    PROVE  LET e == Head(jobs[i])
           IN  /\ e \in JobType /\ e.port \in Ports /\ Home(e.port) = i /\ Fits(i, e)
               /\ e = Job(e.kind, e.port, e.msg) /\ e.msg \in 0..MaxPosts
               /\ jobs[i] \in Seq(JobType) /\ Tail(jobs[i]) \in Seq(JobType)
               /\ JobsFit(i, Tail(jobs[i])) /\ Apart(e.port, jobs[i], Tail(jobs[i]))
<1> DEFINE e == Head(jobs[i])
<1>1. JobsFit(i, jobs[i])
  <2>1. Right(state, draining, sent) /\ state.jobs = jobs
    BY DEF Inv, state
  <2> QED
    BY <2>1 DEF Right
<1>2. jobs[i] \in Seq(JobType) /\ \A k \in 1..Len(jobs[i]) : Fits(i, jobs[i][k])
  BY <1>1 DEF JobsFit
<1>3. e \in JobType /\ e = jobs[i][1] /\ 1 \in 1..Len(jobs[i]) /\ Tail(jobs[i]) \in Seq(JobType)
  BY <1>2, Rest
<1>4. Fits(i, e)
  BY <1>2, <1>3
<1> HIDE DEF e
<1>5. e.port \in Ports /\ Home(e.port) = i /\ e = Job(e.kind, e.port, e.msg) /\ e.msg \in 0..MaxPosts
  BY <1>3, <1>4 DEF JobType, Job, Fits
<1>6. JobsFit(i, Tail(jobs[i])) /\ Apart(e.port, jobs[i], Tail(jobs[i]))
  BY <1>1, <1>5, ApartOwn DEF e
<1> QED
  BY <1>2, <1>3, <1>4, <1>5, <1>6 DEF e

(* The close event.                                                        *)
LEMMA RunCloseInv ==
    ASSUME Inv, NEW i \in Isolates, RunClose(i)
    PROVE  Inv' /\ [Chan!Next]_(Chan!vars)
<1> DEFINE e == Head(jobs[i])
           p == e.port
           m == port[p]
           js == jobs[i]
<1>1. jobs[i] # << >> /\ e.kind = "close" /\ Assign(Begun(i))
  BY DEF RunClose, Begins
<1>2. /\ e \in JobType /\ p \in Ports /\ Home(p) = i
      /\ js \in Seq(JobType) /\ Tail(js) \in Seq(JobType)
      /\ JobsFit(i, Tail(js)) /\ Apart(p, js, Tail(js))
  BY <1>1, FirstJob
<1> HIDE DEF e, p
<1>3. Good(p, m, js, draining[p], sent[p]) /\ Begun(i) = Put(state, p, m, Tail(js))
  BY <1>2, Parts, PutNone
<1>4. Foreign(e, p)
  BY <1>1 DEF Foreign, Carries, FlushOf, Job
<1>5. Same(p, js, Tail(js))
  BY <1>1, <1>2, <1>4, SameTail DEF e
<1>6. Good(p, m, Tail(js), draining[p], sent[p]) /\ Going(p, m, Tail(js)) = Going(p, m, js)
  BY <1>2, <1>3, <1>5 DEF Good, Same, Going
<1>7. /\ UNCHANGED <<m_can_deliver_inline, draining, posting, sent>>
      /\ UNCHANGED <<seen, received, lost>> /\ listening' \in [Ports -> BOOLEAN]
  BY DEF RunClose, Inv, Typed
<1>8. Assign(Put(state, p, m, Tail(js)))
  BY <1>1, <1>3
<1> QED
  BY <1>2, <1>6, <1>7, <1>8, Still

(* A message arrives at the isolate of its port.                           *)
LEMMA RunEnqueueInv ==
    ASSUME Inv, NEW i \in Isolates, RunEnqueue(i)
    PROVE  Inv' /\ [Chan!Next]_(Chan!vars)
<1> DEFINE e == Head(jobs[i])
           p == e.port
           n == e.msg
           m == port[p]
           js == jobs[i]
           t == Tail(js)
           m2 == Taking(p, m, n)
<1>1. jobs[i] # << >> /\ e.kind = "enqueue" /\ Assign(enqueueSerializedMessage(Begun(i), p, n))
  BY DEF RunEnqueue, Begins
<1>2. /\ e \in JobType /\ p \in Ports /\ Home(p) = i /\ Fits(i, e) /\ n \in 0..MaxPosts
      /\ js \in Seq(JobType) /\ t \in Seq(JobType)
      /\ JobsFit(i, t) /\ Apart(p, js, t)
  BY <1>1, FirstJob
<1>3. Carries(e, p) /\ e # FlushOf(p) /\ m_can_deliver_inline /\ n # 0
  BY <1>1, <1>2 DEF Carries, FlushOf, Job, Fits
<1>4. n \in 1..MaxPosts
  BY <1>2, <1>3, PostsAssumption
<1> HIDE DEF p, n
<1>5. /\ Good(p, m, js, draining[p], sent[p]) /\ Begun(i) = Put(state, p, m, t)
      /\ m \in Member /\ m.m_queue \in Seq(1..MaxPosts) /\ state \in Rec
      /\ draining[p] \in BOOLEAN /\ sent[p] \in Nat
  BY <1>2, Parts, PutNone
<1>6. Ordered(p, m.m_queue, js, sent[p]) /\ Flushing(p, m, js, draining[p]) /\ Holds(m)
  BY <1>5 DEF Good
<1>7. /\ Ordered(p, m.m_queue, t, sent[p]) /\ n <= sent[p]
      /\ \A x \in Carried(p, t) : n < x
      /\ \A k \in 1..Len(m.m_queue) : m.m_queue[k] < n
  <2>1. /\ Ordered(p, m.m_queue, t, sent[p]) /\ e.msg <= sent[p]
        /\ \A x \in Carried(p, t) : e.msg < x
        /\ \A k \in 1..Len(m.m_queue) : IF m_can_deliver_inline THEN m.m_queue[k] < e.msg
                                                                ELSE e.msg < m.m_queue[k]
    BY <1>1, <1>2, <1>3, <1>5, <1>6, OrderedTail
  <2> QED
    BY <1>3, <2>1 DEF n
<1>8. Flushing(p, m, t, draining[p])
  BY <1>1, <1>2, <1>3, <1>6, FlushingTail
<1>9. Going(p, m, js) = Going(p, m, t) \cup {n}
  <2>1. \A x : x \in Carried(p, js) <=> x = n \/ x \in Carried(p, t)
    BY <1>1, <1>2, <1>3, CarriedTail DEF n
  <2> QED
    BY <2>1 DEF Going
<1>10. sent[p] <= sent[p] /\ \A x \in Carried(p, t) : IF m_can_deliver_inline THEN n < x ELSE x < n
  BY <1>3, <1>5, <1>7
<1> HIDE DEF t, e, m
<1>11. /\ Good(p, FlushM(p, m2), FlushJs(p, m2, t), draining[p], sent[p])
       /\ Apart(p, t, FlushJs(p, m2, t))
       /\ Going(p, FlushM(p, m2), FlushJs(p, m2, t)) = Going(p, m, t) \cup {n}
  BY <1>2, <1>4, <1>5, <1>6, <1>7, <1>8, <1>10, EnqueueGood
<1>12. enqueueSerializedMessage(Begun(i), p, n) = Put(state, p, FlushM(p, m2), FlushJs(p, m2, t))
  BY <1>2, <1>4, <1>5, EnqueueIs
<1>13. Apart(p, js, FlushJs(p, m2, t))
  BY <1>2, <1>11, ApartTwice
<1>14. /\ UNCHANGED <<m_can_deliver_inline, draining, posting, sent>>
       /\ UNCHANGED <<seen, received, lost>> /\ listening' \in [Ports -> BOOLEAN]
  BY DEF RunEnqueue, Inv, Typed
<1>15. /\ Assign(Put(state, p, FlushM(p, m2), FlushJs(p, m2, t)))
       /\ Apart(p, jobs[Home(p)], FlushJs(p, m2, t))
       /\ Going(p, FlushM(p, m2), FlushJs(p, m2, t)) = Going(p, port[p], jobs[Home(p)])
  BY <1>1, <1>2, <1>9, <1>11, <1>12, <1>13 DEF m
<1> QED
  BY <1>2, <1>11, <1>14, <1>15, Still

(* A MessageEvent is emitted.                                              *)
LEMMA RunMessageInv ==
    ASSUME Inv, NEW i \in Isolates, RunMessage(i)
    PROVE  Inv' /\ [Chan!Next]_(Chan!vars)
<1> DEFINE e == Head(jobs[i])
           p == e.port
           n == e.msg
           m == port[p]
           js == jobs[i]
           t == Tail(js)
<1>1. /\ jobs[i] # << >> /\ e.kind = "message" /\ Assign(Begun(i)) /\ Emit(p, n)
      /\ UNCHANGED <<m_can_deliver_inline, draining, listening, posting>> /\ UNCHANGED <<sent, received>>
  BY DEF RunMessage, Begins
<1>2. /\ e \in JobType /\ p \in Ports /\ Home(p) = i /\ Fits(i, e) /\ n \in 0..MaxPosts
      /\ js \in Seq(JobType) /\ t \in Seq(JobType)
      /\ JobsFit(i, t) /\ Apart(p, js, t)
  BY <1>1, FirstJob
<1>3. Carries(e, p) /\ e # FlushOf(p) /\ ~m_can_deliver_inline /\ n # 0
  BY <1>1, <1>2 DEF Carries, FlushOf, Job, Fits
<1>4. n \in 1..MaxPosts /\ n \in Nat
  BY <1>2, <1>3, PostsAssumption
<1> HIDE DEF p, n
<1>5. /\ Good(p, m, js, draining[p], sent[p]) /\ Begun(i) = Put(state, p, m, t)
      /\ m \in Member /\ m.m_queue \in Seq(1..MaxPosts) /\ state \in Rec
      /\ draining[p] \in BOOLEAN /\ sent[p] \in Nat /\ Typed /\ Posting
  BY <1>2, Parts, PutNone DEF Inv
<1>6. Ordered(p, m.m_queue, js, sent[p]) /\ Flushing(p, m, js, draining[p]) /\ Holds(m)
  BY <1>5 DEF Good
<1>7. /\ Ordered(p, m.m_queue, t, sent[p])
      /\ \A x \in Carried(p, t) : n < x
      /\ \A k \in 1..Len(m.m_queue) : n < m.m_queue[k]
  <2>1. /\ Ordered(p, m.m_queue, t, sent[p]) /\ e.msg <= sent[p]
        /\ \A x \in Carried(p, t) : e.msg < x
        /\ \A k \in 1..Len(m.m_queue) : IF m_can_deliver_inline THEN m.m_queue[k] < e.msg
                                                                ELSE e.msg < m.m_queue[k]
    BY <1>1, <1>2, <1>3, <1>5, <1>6, OrderedTail
  <2> QED
    BY <1>3, <2>1 DEF n
<1>8. Flushing(p, m, t, draining[p])
  BY <1>1, <1>2, <1>3, <1>6, FlushingTail
<1>9. Good(p, m, t, draining[p], sent[p])
  BY <1>2, <1>5, <1>6, <1>7, <1>8 DEF Good
<1>10. /\ Going(p, m, t) = Going(p, m, js) \ {n} /\ n \in Going(p, m, js)
       /\ \A x \in Going(p, m, js) : n <= x
  <2>1. \A x : x \in Carried(p, js) <=> x = n \/ x \in Carried(p, t)
    BY <1>1, <1>2, <1>3, CarriedTail DEF n
  <2>2. \A x \in Elements(m.m_queue) : x \in Nat /\ n < x
    BY <1>5, <1>7, Within DEF Elements
  <2>3. \A x \in Carried(p, t) : x \in Nat /\ n < x
    BY <1>7, <1>9, <1>5, Within
  <2> HIDE DEF t, m
  <2>4. ASSUME NEW x \in Nat, n < x PROVE x # n /\ n <= x
    BY <1>4, <2>4
  <2>5. n <= n
    BY <1>4
  <2> QED
    BY <2>1, <2>2, <2>3, <2>4, <2>5 DEF Going
<1>11. /\ draining' = With(draining, p, draining[p]) /\ sent' = With(sent, p, sent[p])
       /\ UNCHANGED m_can_deliver_inline
  BY <1>1, <1>5 DEF Typed, With
<1>12. Assign(Put(state, p, m, t)) /\ Apart(p, jobs[Home(p)], t)
  BY <1>1, <1>2, <1>5
<1> HIDE DEF t
<1>13. Right(state, draining, sent)' /\ transit' = With(transit, p, Going(p, m, t))
  BY <1>2, <1>5, <1>9, <1>11, <1>12, Moved
<1>14. transit[p] = Going(p, m, js)
  BY <1>2, TransitIs
<1>15. /\ [Chan!Next]_(Chan!vars)
       /\ seen' \in [Ports -> Seq(1..MaxPosts)] /\ lost' \in [Ports -> SUBSET (1..MaxPosts)]
  <2>1. Emit(p, n) /\ UNCHANGED <<sent, received>>
    BY <1>1
  <2> QED
    BY <1>2, <1>4, <1>10, <1>13, <1>14, <2>1, EmitStep
<1>16. Typed' /\ Posting'
  BY <1>1, <1>5, <1>15 DEF Typed, Posting
<1> QED
  BY <1>13, <1>15, <1>16 DEF Inv

-----------------------------------------------------------------------------
(* The flush job and its loop.                                             *)

(* The flush job is begun.                                                 *)
LEMMA FlushFirst ==
    ASSUME Inv, NEW i \in Isolates, Begins(i, "flush")
    PROVE  LET p == Head(jobs[i]).port
               t == Tail(jobs[i])
           IN  /\ p \in Ports /\ Home(p) = i /\ jobs[i] \in Seq(JobType) /\ JobsFit(i, t)
               /\ Apart(p, jobs[i], t)
               /\ port[p].m_flush_pending /\ ~draining[p]
               /\ \A k \in 1..Len(t) : t[k] # FlushOf(p)
               /\ Ordered(p, port[p].m_queue, t, sent[p])
               /\ Carried(p, t) = Carried(p, jobs[i])
<1> DEFINE e == Head(jobs[i])
           p == e.port
           m == port[p]
           js == jobs[i]
           t == Tail(js)
<1>1. jobs[i] # << >> /\ e.kind = "flush"
  BY DEF Begins
<1>2. /\ e \in JobType /\ p \in Ports /\ Home(p) = i /\ Fits(i, e)
      /\ js \in Seq(JobType) /\ t \in Seq(JobType)
      /\ JobsFit(i, t) /\ Apart(p, js, t) /\ e = Job(e.kind, p, e.msg)
  BY <1>1, FirstJob
<1>3. e = FlushOf(p) /\ ~Carries(e, p)
  BY <1>1, <1>2 DEF FlushOf, Fits, Carries
<1> HIDE DEF p
<1>4. /\ Good(p, m, js, draining[p], sent[p]) /\ m.m_queue \in Seq(1..MaxPosts) /\ sent[p] \in Nat
  BY <1>2, Parts
<1>5. Ordered(p, m.m_queue, js, sent[p]) /\ Flushing(p, m, js, draining[p])
  BY <1>4 DEF Good
<1>6. Ordered(p, m.m_queue, t, sent[p])
  BY <1>1, <1>2, <1>4, <1>5, OrderedTail
<1>7. m.m_flush_pending /\ ~draining[p] /\ \A k \in 1..Len(t) : t[k] # FlushOf(p)
  BY <1>1, <1>2, <1>3, <1>5, FlushingTail
<1>8. Carried(p, t) = Carried(p, js)
  <2>1. \A x : x \in Carried(p, t) <=> x \in Carried(p, js)
    BY <1>1, <1>2, <1>3, CarriedTail
  <2> QED
    BY <2>1, Zenon DEF Carried
<1> QED
  BY <1>2, <1>6, <1>7, <1>8 DEF p

(* The flush job of a MessageChannel port.                                 *)
LEMMA RunFlushEventsInv ==
    ASSUME Inv, NEW i \in Isolates, RunFlushEvents(i)
    PROVE  Inv' /\ [Chan!Next]_(Chan!vars)
<1> DEFINE p == Head(jobs[i]).port
           m == port[p]
           q == m.m_queue
           js == jobs[i]
           t == Tail(js)
           js2 == t \o [k \in 1..Len(q) |-> Job("message", p, q[k])]
           no == FALSE
           none == << >>
           m2 == [m EXCEPT !.m_queue = none, !.m_holding = no, !.m_flush_pending = no]
<1>1. /\ Begins(i, "flush") /\ ~m_can_deliver_inline
      /\ port' = [port EXCEPT ![p].m_queue = none, ![p].m_holding = no, ![p].m_flush_pending = no]
      /\ jobs' = [jobs EXCEPT ![i] = js2]
  BY DEF RunFlushEvents
<1>2. /\ p \in Ports /\ Home(p) = i /\ js \in Seq(JobType) /\ JobsFit(i, t) /\ Apart(p, js, t)
      /\ m.m_flush_pending /\ ~draining[p]
      /\ \A k \in 1..Len(t) : t[k] # FlushOf(p)
      /\ Ordered(p, q, t, sent[p]) /\ Carried(p, t) = Carried(p, js)
  BY <1>1, FlushFirst
<1> HIDE DEF p
<1>3. m \in Member /\ state \in Rec /\ state.port = port /\ state.jobs = jobs /\ sent[p] \in Nat /\ draining[p] \in BOOLEAN
  BY <1>2, Parts
<1>4. Good(p, m2, js2, FALSE, sent[p]) /\ Apart(p, t, js2) /\ Going(p, m2, js2) = Going(p, m, t)
  BY <1>1, <1>2, <1>3, EventsGood
<1> HIDE DEF no, none, js2, t
<1>5. Assign(Put(state, p, m2, js2))
  <2>1. port' = [port EXCEPT ![p] = m2]
    BY <1>1, <1>2, <1>3 DEF Rec
  <2> HIDE DEF m2
  <2> QED
    BY <1>1, <1>2, <1>3, <2>1 DEF Assign, Put
<1> HIDE DEF m2
<1>6. Good(p, m2, js2, draining[p], sent[p])
  <2>1. draining[p] = FALSE
    BY <1>2, <1>3
  <2> QED
    BY <1>4, <2>1
<1>7. Apart(p, jobs[Home(p)], js2)
  BY <1>2, <1>4, ApartTwice
<1>8. Going(p, m2, js2) = Going(p, port[p], jobs[Home(p)])
  BY <1>2, <1>4 DEF Going
<1>9. /\ UNCHANGED <<m_can_deliver_inline, draining, posting, sent>>
      /\ UNCHANGED <<seen, received, lost>> /\ listening' \in [Ports -> BOOLEAN]
  BY DEF RunFlushEvents, Inv, Typed
<1> QED
  BY <1>2, <1>5, <1>6, <1>7, <1>8, <1>9, Still

Idle(m) == [m EXCEPT !.m_holding = FALSE, !.m_flush_pending = FALSE]
Popped(m) == [m EXCEPT !.m_queue = Tail(@)]

(* One turn of the loop changes one port.                                  *)
LEMMA DrainIs ==
    ASSUME NEW st \in Rec, NEW p \in Ports, NEW m \in Member, NEW js, Drain(Put(st, p, m, js), p)
    PROVE  \/ /\ m.m_queue = << >>
              /\ Assign(Put(st, p, Idle(m), js))
              /\ draining' = With(draining, p, FALSE) /\ UNCHANGED <<seen, lost>>
           \/ /\ m.m_queue # << >>
              /\ Assign(Put(st, p, Popped(m), js))
              /\ draining' = With(draining, p, TRUE) /\ Emit(p, Head(m.m_queue))
<1> DEFINE a == Put(st, p, m, js)
           x == a.port
           y == a.jobs
           no == FALSE
           tl == Tail(m.m_queue)
           z == [x EXCEPT ![p] = [x[p] EXCEPT !.m_holding = no]]
           m2 == [m EXCEPT !.m_holding = no, !.m_flush_pending = no]
           m3 == [m EXCEPT !.m_queue = tl]
<1>1. /\ a = [port |-> x, jobs |-> y] /\ x = [st.port EXCEPT ![p] = m] /\ x[p] = m
      /\ st.port \in [Ports -> Member] /\ x \in [Ports -> Member]
      /\ y = [st.jobs EXCEPT ![Home(p)] = js]
  BY DEF Rec, Put
<1>2. m2 = Idle(m) /\ m3 = Popped(m)
  BY Zenon DEF Idle, Popped
<1>3. \/ /\ m.m_queue = << >>
         /\ Assign([a EXCEPT !.port[p].m_holding = no, !.port[p].m_flush_pending = no])
         /\ draining' = With(draining, p, FALSE) /\ UNCHANGED <<seen, lost>>
      \/ /\ m.m_queue # << >>
         /\ Assign([a EXCEPT !.port[p].m_queue = tl])
         /\ draining' = With(draining, p, TRUE) /\ Emit(p, Head(m.m_queue))
  <2>1. x[p].m_queue = m.m_queue
    BY <1>1
  <2> QED
    BY <2>1, Zenon DEF Drain, With
<1> HIDE DEF a, x, y, no, tl
<1>4. [x EXCEPT ![p] = m2] = [st.port EXCEPT ![p] = m2] /\ [x EXCEPT ![p] = m3] = [st.port EXCEPT ![p] = m3]
  <2>1. \A v, w : [[v EXCEPT ![p] = m] EXCEPT ![p] = w] = [v EXCEPT ![p] = w]
    OBVIOUS
  <2> HIDE DEF m2, m3
  <2> QED
    BY <1>1
<1>5. [a EXCEPT !.port[p].m_holding = no, !.port[p].m_flush_pending = no] = Put(st, p, m2, js)
  <2>1. [a EXCEPT !.port[p].m_holding = no, !.port[p].m_flush_pending = no] =
           [[a EXCEPT !.port[p].m_holding = no] EXCEPT !.port[p].m_flush_pending = no]
    OBVIOUS
  <2>2. [a EXCEPT !.port[p].m_holding = no] = [port |-> z, jobs |-> y]
    <3>1. [[port |-> x, jobs |-> y] EXCEPT !.port[p].m_holding = no] = [port |-> z, jobs |-> y]
      OBVIOUS
    <3> QED
      BY <1>1, <3>1, Zenon
  <2>3. [[port |-> z, jobs |-> y] EXCEPT !.port[p].m_flush_pending = no] =
           [port |-> [z EXCEPT ![p].m_flush_pending = no], jobs |-> y]
    OBVIOUS
  <2>4. [z EXCEPT ![p].m_flush_pending = no] = [x EXCEPT ![p] = m2]
    BY <1>1
  <2> HIDE DEF m2
  <2> QED
    <3>1. [a EXCEPT !.port[p].m_holding = no, !.port[p].m_flush_pending = no] =
             [port |-> [x EXCEPT ![p] = m2], jobs |-> y]
      BY <2>1, <2>2, <2>3, <2>4, Zenon
    <3>2. [port |-> [x EXCEPT ![p] = m2], jobs |-> y] = Put(st, p, m2, js)
      BY <1>1, <1>4, Zenon DEF Put
    <3> QED
      BY <3>1, <3>2, Zenon
<1>6. [a EXCEPT !.port[p].m_queue = tl] = Put(st, p, m3, js)
  <2>1. [[port |-> x, jobs |-> y] EXCEPT !.port[p].m_queue = tl] =
           [port |-> [x EXCEPT ![p] = [x[p] EXCEPT !.m_queue = tl]], jobs |-> y]
    OBVIOUS
  <2>2. [a EXCEPT !.port[p].m_queue = tl] = [port |-> [x EXCEPT ![p] = m3], jobs |-> y]
    BY <1>1, <2>1, Zenon
  <2> HIDE DEF m3
  <2> QED
    BY <1>1, <1>4, <2>2 DEF Put
<1> QED
  BY <1>2, <1>3, <1>5, <1>6

(* One turn of the loop.                                                   *)
LEMMA DrainInv ==
    ASSUME Inv, m_can_deliver_inline, NEW p \in Ports, NEW js,
           JobsFit(Home(p), js), Apart(p, jobs[Home(p)], js), port[p].m_flush_pending,
           \A k \in 1..Len(js) : js[k] # FlushOf(p),
           Ordered(p, port[p].m_queue, js, sent[p]), Carried(p, js) = Carried(p, jobs[Home(p)]),
           Drain(Put(state, p, port[p], js), p),
           UNCHANGED <<m_can_deliver_inline, listening, posting, sent, received>>
    PROVE  Inv' /\ [Chan!Next]_(Chan!vars)
<1> DEFINE m == port[p]
           q == m.m_queue
<1>1. /\ m \in Member /\ state \in Rec /\ q \in Seq(1..MaxPosts) /\ sent[p] \in Nat /\ Typed /\ Posting
      /\ js \in Seq(JobType)
  BY Parts DEF Inv, JobsFit
<1>2. /\ sent' = With(sent, p, sent[p]) /\ UNCHANGED m_can_deliver_inline
      /\ UNCHANGED <<listening, posting>> /\ UNCHANGED <<sent, received>>
  BY <1>1 DEF Typed, With
<1>3. transit[p] = Going(p, m, jobs[Home(p)]) /\ Going(p, m, jobs[Home(p)]) = Going(p, m, js)
  BY TransitIs DEF Going
<1>4. CASE /\ q = << >> /\ Assign(Put(state, p, Idle(m), js))
           /\ draining' = With(draining, p, FALSE) /\ UNCHANGED <<seen, lost>>
  <2>1. /\ Idle(m) \in Member /\ Idle(m).m_queue = q /\ ~Idle(m).m_holding /\ ~Idle(m).m_flush_pending
    BY <1>1 DEF Idle, Member
  <2>2. Good(p, Idle(m), js, FALSE, sent[p])
    BY <2>1 DEF Good, Holds, Flushing
  <2>3. Going(p, Idle(m), js) = transit[p]
    BY <1>3, <2>1 DEF Going
  <2>4. Right(state, draining, sent)' /\ transit' = With(transit, p, Going(p, Idle(m), js))
    BY <1>1, <1>2, <1>4, <2>2, Moved
  <2>5. transit' = transit
    BY <2>3, <2>4 DEF With, transit
  <2>6. Typed' /\ Posting'
    BY <1>1, <1>2, <1>4 DEF Typed, Posting, With
  <2>7. [Chan!Next]_(Chan!vars)
    BY <1>2, <1>4, <2>5, Quiet
  <2> QED
    BY <2>4, <2>6, <2>7 DEF Inv
<1>5. CASE /\ q # << >> /\ Assign(Put(state, p, Popped(m), js))
           /\ draining' = With(draining, p, TRUE) /\ Emit(p, Head(q))
  <2>1. Tail(q) \in Seq(1..MaxPosts)
    BY <1>1, <1>5, Rest
  <2>2. /\ Popped(m) \in Member /\ Popped(m).m_queue = Tail(q)
        /\ Popped(m).m_holding = m.m_holding /\ Popped(m).m_flush_pending = m.m_flush_pending
    BY <1>1, <2>1 DEF Popped, Member
  <2> DEFINE n == Head(q)
  <2>3. /\ Ordered(p, Tail(q), js, sent[p]) /\ n \in 1..MaxPosts
        /\ \A x \in Elements(Tail(q)) : n < x
        /\ \A x \in Elements(q), y \in Carried(p, js) : x < y
    BY <1>1, <1>5, OrderedLess
  <2>4. Good(p, Popped(m), js, TRUE, sent[p])
    BY <2>2, <2>3 DEF Good, Holds, Flushing
  <2>5. Elements(q) = {n} \cup Elements(Tail(q))
    BY <1>1, <1>5, ElementsTail
  <2>6. n \in Nat /\ \A x \in Elements(q) : x \in Nat
    <3>1. \A k \in 1..Len(q) : q[k] \in Nat
      BY <1>1, Numbers
    <3>2. \A x \in Elements(q) : x \in Nat
      BY <3>1 DEF Elements
    <3> QED
      BY <2>5, <3>2
  <2>7. \A y \in Carried(p, js) : y \in Nat
    <3>1. \A k \in 1..Len(js) : js[k].msg \in Nat
      BY <1>1, Numbers
    <3> QED
      BY <3>1 DEF Carried
  <2> HIDE DEF n
  <2>8. \A x \in Elements(Tail(q)) : x # n /\ n <= x
    BY <2>3, <2>5, <2>6
  <2>9. \A y \in Carried(p, js) : y # n /\ n <= y
    <3>1. n \in Elements(q)
      BY <2>5
    <3>2. ASSUME NEW y \in Carried(p, js) PROVE y # n /\ n <= y
      <4>1. n < y /\ y \in Nat
        BY <2>3, <2>7, <3>1
      <4> QED
        BY <2>6, <4>1
    <3> QED
      BY <3>2
  <2>10. /\ transit[p] = Elements(q) \cup Carried(p, js)
         /\ Going(p, Popped(m), js) = Elements(Tail(q)) \cup Carried(p, js)
    BY <1>3, <2>2 DEF Going
  <2>11. /\ Going(p, Popped(m), js) = transit[p] \ {n} /\ n \in transit[p]
         /\ \A x \in transit[p] : n <= x
    BY <2>5, <2>6, <2>8, <2>9, <2>10
  <2>12. Right(state, draining, sent)' /\ transit' = With(transit, p, Going(p, Popped(m), js))
    BY <1>1, <1>2, <1>5, <2>4, Moved
  <2>13. Emit(p, n)
    BY <1>5 DEF n
  <2>14. /\ [Chan!Next]_(Chan!vars)
         /\ seen' \in [Ports -> Seq(1..MaxPosts)] /\ lost' \in [Ports -> SUBSET (1..MaxPosts)]
    BY <1>2, <2>3, <2>11, <2>12, <2>13, EmitStep DEF n
  <2>15. Typed' /\ Posting'
    <3>1. draining' \in [Ports -> BOOLEAN]
      BY <1>1, <1>5 DEF Typed, With
    <3> QED
      BY <1>1, <1>2, <2>14, <3>1 DEF Typed, Posting
  <2> QED
    BY <2>12, <2>14, <2>15 DEF Inv
<1> QED
  BY <1>1, <1>4, <1>5, DrainIs

(* The flush job of a raw port.                                            *)
LEMMA RunFlushInv ==
    ASSUME Inv, NEW i \in Isolates, RunFlush(i)
    PROVE  Inv' /\ [Chan!Next]_(Chan!vars)
<1> DEFINE p == Head(jobs[i]).port
           t == Tail(jobs[i])
<1>1. /\ Begins(i, "flush") /\ m_can_deliver_inline /\ Drain(Begun(i), p)
      /\ UNCHANGED <<m_can_deliver_inline, listening, posting, sent, received>>
  BY DEF RunFlush
<1>2. /\ p \in Ports /\ Home(p) = i /\ JobsFit(i, t) /\ Apart(p, jobs[i], t)
      /\ port[p].m_flush_pending /\ \A k \in 1..Len(t) : t[k] # FlushOf(p)
      /\ Ordered(p, port[p].m_queue, t, sent[p]) /\ Carried(p, t) = Carried(p, jobs[i])
  BY <1>1, FlushFirst
<1> HIDE DEF p
<1>3. Begun(i) = Put(state, p, port[p], t)
  BY <1>2, PutNone
<1>4. Drain(Put(state, p, port[p], t), p)
  BY <1>1, <1>3, Zenon
<1> HIDE DEF t
<1> QED
  BY <1>1, <1>2, <1>4, DrainInv

(* A listener returns to the loop.                                         *)
LEMMA ListenerReturnsInv ==
    ASSUME Inv, NEW p \in Ports, ListenerReturns(p)
    PROVE  Inv' /\ [Chan!Next]_(Chan!vars)
<1> DEFINE js == jobs[Home(p)]
<1>1. /\ draining[p] /\ Drain(state, p) /\ m_can_deliver_inline
      /\ UNCHANGED <<m_can_deliver_inline, listening, posting, sent, received>>
  BY DEF ListenerReturns, Inv, Posting
<1>2. Good(p, port[p], js, draining[p], sent[p]) /\ Put(state, p, port[p], js) = state
  BY Parts, PutNone
<1>3. /\ port[p].m_flush_pending /\ \A k \in 1..Len(js) : js[k] # FlushOf(p)
      /\ JobsFit(Home(p), js) /\ Ordered(p, port[p].m_queue, js, sent[p]) /\ Apart(p, js, js)
  BY <1>1, <1>2, ApartNone DEF Good, Flushing
<1>4. Drain(Put(state, p, port[p], js), p)
  BY <1>1, <1>2, Zenon
<1> QED
  BY <1>1, <1>3, <1>4, DrainInv

-----------------------------------------------------------------------------
(* close().                                                                *)

Closed(m) == [m EXCEPT !.m_closed = TRUE, !.m_keepalive_refed = FALSE]
Emptied(m) == [m EXCEPT !.m_queue = << >>, !.m_holding = FALSE]
Cut(m) == [m EXCEPT !.m_peer = FALSE]

(* The queue is dropped, or flushed.                                       *)
RestM(st, p) == IF DropsQueue(st, p) THEN Emptied(Closed(st.port[p])) ELSE FlushM(p, Closed(st.port[p]))
RestJs(st, p) ==
    IF DropsQueue(st, p) THEN st.jobs[Home(p)] ELSE FlushJs(p, Closed(st.port[p]), st.jobs[Home(p)])

(* The port, severed, with its close event posted.                         *)
ClosedSt(st, p) == Put(st, p, Cut(RestM(st, p)), Append(RestJs(st, p), Job("close", p, 0)))

(* close() changes one port and the m_peer of the other.                   *)
LEMMA CloseIs ==
    ASSUME NEW st \in Rec, NEW p \in Ports, ~st.port[p].m_closed
    PROVE  LET a == ClosedSt(st, p)
           IN  ClosePort(st, p) = Put(a, Peer(p), Cut(a.port[Peer(p)]), a.jobs[Home(Peer(p))])
<1> DEFINE r == Peer(p)
           x == st.port
           y == st.jobs
           h == Home(p)
           no == FALSE
           yes == TRUE
           none == << >>
           m1 == [x[p] EXCEPT !.m_closed = yes, !.m_keepalive_refed = no]
           z1 == [x EXCEPT ![p] = [x[p] EXCEPT !.m_closed = yes]]
           closed == [st EXCEPT !.port[p].m_closed = yes, !.port[p].m_keepalive_refed = no]
           m2 == [m1 EXCEPT !.m_queue = none, !.m_holding = no]
           dropped == [closed EXCEPT !.port[p].m_queue = none, !.port[p].m_holding = no]
           mr == RestM(st, p)
           jr == RestJs(st, p)
           rest == IF DropsQueue(st, p) THEN dropped ELSE flush(closed, p)
           severed == [rest EXCEPT !.port[p].m_peer = no, !.port[r].m_peer = no]
           e == Job("close", p, 0)
<1>1. /\ st = [port |-> x, jobs |-> y] /\ x \in [Ports -> Member] /\ y \in [Isolates -> Seq(JobType)]
      /\ h \in Isolates /\ r \in Ports /\ r # p /\ Home(r) \in Isolates
  BY Homes DEF Rec
<1>2. m1 = Closed(x[p]) /\ m2 = Emptied(Closed(x[p]))
  BY Zenon DEF Closed, Emptied
<1>3. ClosePort(st, p) = Post(severed, p, e)
  BY Zenon DEF ClosePort
<1>4. m1 \in Member
  BY <1>1 DEF Member
<1> HIDE DEF x, y, no, yes, none, h, e, r
<1>5. closed = [port |-> [x EXCEPT ![p] = m1], jobs |-> y]
  <2>1. closed = [[st EXCEPT !.port[p].m_closed = yes] EXCEPT !.port[p].m_keepalive_refed = no]
    OBVIOUS
  <2>2. [[port |-> x, jobs |-> y] EXCEPT !.port[p].m_closed = yes] = [port |-> z1, jobs |-> y]
    OBVIOUS
  <2>3. [st EXCEPT !.port[p].m_closed = yes] = [port |-> z1, jobs |-> y]
    BY <1>1, <2>2, Zenon
  <2>4. [[port |-> z1, jobs |-> y] EXCEPT !.port[p].m_keepalive_refed = no] =
           [port |-> [z1 EXCEPT ![p].m_keepalive_refed = no], jobs |-> y]
    OBVIOUS
  <2>5. [z1 EXCEPT ![p].m_keepalive_refed = no] = [x EXCEPT ![p] = m1]
    BY <1>1
  <2> QED
    BY <2>1, <2>3, <2>4, <2>5, Zenon
<1> HIDE DEF m1, closed
<1> DEFINE x1 == [x EXCEPT ![p] = m1]
           z2 == [x1 EXCEPT ![p] = [x1[p] EXCEPT !.m_queue = none]]
<1>6. x1 \in [Ports -> Member] /\ x1[p] = m1
  BY <1>1, <1>4
<1>7. \A w : [x1 EXCEPT ![p] = w] = [x EXCEPT ![p] = w]
  BY <1>1
<1>8. [y EXCEPT ![h] = y[h]] = y
  BY <1>1
<1> HIDE DEF x1
<1>9. dropped = [port |-> [x EXCEPT ![p] = m2], jobs |-> y]
  <2>1. dropped = [[closed EXCEPT !.port[p].m_queue = none] EXCEPT !.port[p].m_holding = no]
    OBVIOUS
  <2>2. [[port |-> x1, jobs |-> y] EXCEPT !.port[p].m_queue = none] = [port |-> z2, jobs |-> y]
    OBVIOUS
  <2>3. [closed EXCEPT !.port[p].m_queue = none] = [port |-> z2, jobs |-> y]
    BY <1>5, <2>2, Zenon DEF x1
  <2>4. [[port |-> z2, jobs |-> y] EXCEPT !.port[p].m_holding = no] =
           [port |-> [z2 EXCEPT ![p].m_holding = no], jobs |-> y]
    OBVIOUS
  <2>5. [z2 EXCEPT ![p].m_holding = no] = [x1 EXCEPT ![p] = m2]
    BY <1>6
  <2>6. [x1 EXCEPT ![p] = m2] = [x EXCEPT ![p] = m2]
    BY <1>7, Zenon
  <2> QED
    BY <2>1, <2>3, <2>4, <2>5, <2>6, Zenon
<1> HIDE DEF dropped, m2
<1>10. closed = Put(st, p, m1, y[h])
  BY <1>5, <1>8, Zenon DEF Put, x, y, h
<1>11. flush(closed, p) = Put(st, p, FlushM(p, m1), FlushJs(p, m1, y[h]))
  BY <1>4, <1>10, FlushIs
<1>12. dropped = Put(st, p, m2, y[h])
  BY <1>8, <1>9, Zenon DEF Put, x, y, h
<1>13. rest = Put(st, p, mr, jr)
  <2>1. CASE DropsQueue(st, p)
    <3>1. mr = m2 /\ jr = y[h]
      BY <1>2, <2>1 DEF RestM, RestJs, x, y, h
    <3> QED
      BY <1>12, <2>1, <3>1
  <2>2. CASE ~DropsQueue(st, p)
    <3>1. mr = FlushM(p, m1) /\ jr = FlushJs(p, m1, y[h])
      BY <1>2, <2>2 DEF RestM, RestJs, x, y, h
    <3> QED
      BY <1>11, <2>2, <3>1
  <2> QED
    BY <2>1, <2>2
<1> HIDE DEF rest, mr, jr
<1> DEFINE x2 == [x EXCEPT ![p] = mr]
           y2 == [y EXCEPT ![h] = jr]
           c1 == [mr EXCEPT !.m_peer = no]
           x3 == [x EXCEPT ![p] = c1]
           c2 == [x3[r] EXCEPT !.m_peer = no]
           y3 == [y EXCEPT ![h] = Append(jr, e)]
<1>14. rest = [port |-> x2, jobs |-> y2]
  BY <1>13, Zenon DEF Put, x, y, h
<1>15. severed = [port |-> [x3 EXCEPT ![r] = c2], jobs |-> y2]
  <2>1. severed = [[rest EXCEPT !.port[p].m_peer = no] EXCEPT !.port[r].m_peer = no]
    OBVIOUS
  <2>2. x2[p] = mr
    BY <1>1
  <2>3. [x2 EXCEPT ![p] = c1] = x3
    BY <1>1
  <2> HIDE DEF x2, y2
  <2>4. [[port |-> x2, jobs |-> y2] EXCEPT !.port[p].m_peer = no] =
           [port |-> [x2 EXCEPT ![p] = [x2[p] EXCEPT !.m_peer = no]], jobs |-> y2]
    OBVIOUS
  <2>5. [x2 EXCEPT ![p] = [x2[p] EXCEPT !.m_peer = no]] = x3
    BY <2>2, <2>3, Zenon
  <2>6. [rest EXCEPT !.port[p].m_peer = no] = [port |-> x3, jobs |-> y2]
    BY <1>14, <2>4, <2>5, Zenon
  <2> HIDE DEF x3
  <2>7. [[port |-> x3, jobs |-> y2] EXCEPT !.port[r].m_peer = no] = [port |-> [x3 EXCEPT ![r] = c2], jobs |-> y2]
    OBVIOUS
  <2> QED
    BY <2>1, <2>6, <2>7, Zenon
<1> HIDE DEF severed
<1>16. Post(severed, p, e) = [port |-> [x3 EXCEPT ![r] = c2], jobs |-> y3]
  <2>1. ASSUME NEW v, NEW w, NEW f
        PROVE  Post([port |-> v, jobs |-> w], p, f) = [port |-> v, jobs |-> [w EXCEPT ![h] = Append(w[h], f)]]
    BY DEF Post, h
  <2>2. y2[h] = jr /\ [y2 EXCEPT ![h] = Append(jr, e)] = y3
    BY <1>1
  <2> HIDE DEF y2, y3, x3, c2
  <2>3. Post([port |-> [x3 EXCEPT ![r] = c2], jobs |-> y2], p, e) =
           [port |-> [x3 EXCEPT ![r] = c2], jobs |-> [y2 EXCEPT ![h] = Append(y2[h], e)]]
    BY <2>1
  <2> QED
    BY <1>15, <2>2, <2>3, Zenon
<1>17. ClosedSt(st, p) = [port |-> x3, jobs |-> y3]
  <2>1. Cut(mr) = c1
    BY Zenon DEF Cut, no
  <2> QED
    BY <2>1, Zenon DEF ClosedSt, Put, mr, jr, x, y, h, e
<1>18. [y3 EXCEPT ![Home(r)] = y3[Home(r)]] = y3
  BY <1>1
<1> HIDE DEF x3, y3
<1>19. LET a == ClosedSt(st, p)
       IN  Put(a, r, Cut(a.port[r]), a.jobs[Home(r)]) = [port |-> [x3 EXCEPT ![r] = c2], jobs |-> y3]
  <2>1. ClosedSt(st, p).port = x3 /\ ClosedSt(st, p).jobs = y3
    BY <1>17
  <2>2. Cut(x3[r]) = c2
    BY Zenon DEF Cut, no
  <2> HIDE DEF c2
  <2> QED
    BY <1>18, <2>1, <2>2 DEF Put
<1> QED
  BY <1>3, <1>16, <1>19 DEF r

(* What becomes of the queue.                                              *)
LEMMA RestGood ==
    ASSUME Inv, NEW p \in Ports
    PROVE  LET m == RestM(state, p)
               js == RestJs(state, p)
           IN  /\ Good(p, m, js, draining[p], sent[p]) /\ Apart(p, jobs[Home(p)], js)
               /\ DropsQueue(state, p) => Going(p, m, js) = transit[p] \ Elements(port[p].m_queue)
               /\ ~DropsQueue(state, p) => Going(p, m, js) = transit[p]
<1> DEFINE m == port[p]
           q == m.m_queue
           js == jobs[Home(p)]
           m1 == Closed(m)
           d == draining[p]
           s == sent[p]
<1>1. /\ Good(p, m, js, d, s) /\ m \in Member /\ q \in Seq(1..MaxPosts) /\ js \in Seq(JobType)
      /\ state.port = port /\ state.jobs = jobs /\ d \in BOOLEAN /\ s \in Nat
      /\ transit[p] = Going(p, m, js) /\ Apart(p, js, js)
  BY Parts, TransitIs, ApartNone
<1>2. /\ m1 \in Member /\ m1.m_flush_pending = m.m_flush_pending
      /\ m1.m_holding = m.m_holding /\ m1.m_queue = q
  BY <1>1 DEF Closed, Member
<1>3. CASE DropsQueue(state, p)
  <2> DEFINE m2 == Emptied(m1)
  <2>1. RestM(state, p) = m2 /\ RestJs(state, p) = js
    BY <1>1, <1>3 DEF RestM, RestJs
  <2>2. q # << >>
    BY <1>1, <1>3 DEF DropsQueue
  <2>3. Ordered(p, << >>, js, s) /\ \A x \in Elements(q), y \in Carried(p, js) : x # y
    <3>1. Ordered(p, q, js, s)
      BY <1>1 DEF Good
    <3> QED
      BY <1>1, <2>2, <3>1, OrderedLess
  <2>4. /\ m2 \in Member /\ m2.m_flush_pending = m.m_flush_pending
        /\ ~m2.m_holding /\ m2.m_queue = << >>
    <3>1. << >> \in Seq(1..MaxPosts)
      OBVIOUS
    <3> QED
      BY <1>2, <3>1 DEF Emptied, Member
  <2> HIDE DEF m2
  <2>5. Good(p, m2, js, d, s)
    BY <1>1, <2>3, <2>4 DEF Good, Holds, Flushing
  <2>6. Elements(<< >>) = {}
    BY DEF Elements
  <2>7. Going(p, m2, js) = Going(p, m, js) \ Elements(q)
    BY <2>3, <2>4, <2>6 DEF Going
  <2> QED
    BY <1>1, <1>3, <2>1, <2>5, <2>7
<1>4. CASE ~DropsQueue(state, p)
  <2>1. RestM(state, p) = FlushM(p, m1) /\ RestJs(state, p) = FlushJs(p, m1, js)
    BY <1>1, <1>4 DEF RestM, RestJs
  <2>2. Filled(p, m1, js, d, s) /\ Going(p, m1, js) = Going(p, m, js)
    BY <1>1, <1>2, Touched
  <2>3. /\ Good(p, FlushM(p, m1), FlushJs(p, m1, js), d, s)
        /\ Apart(p, js, FlushJs(p, m1, js))
        /\ Going(p, FlushM(p, m1), FlushJs(p, m1, js)) = Going(p, m1, js)
    BY <1>1, <2>2, FlushGood
  <2> QED
    BY <1>1, <1>4, <2>1, <2>2, <2>3
<1> QED
  BY <1>3, <1>4

(* A severed port is as good.                                              *)
LEMMA CutGood ==
    ASSUME NEW p, NEW m, NEW js, NEW d, NEW s, Good(p, m, js, d, s)
    PROVE  Good(p, Cut(m), js, d, s) /\ Going(p, Cut(m), js) = Going(p, m, js)
<1>1. m \in Member
  BY DEF Good
<1>2. /\ Cut(m) \in Member /\ Cut(m).m_flush_pending = m.m_flush_pending
      /\ Cut(m).m_holding = m.m_holding /\ Cut(m).m_queue = m.m_queue
  BY <1>1 DEF Cut, Member
<1> QED
  BY <1>2, Touched

(* A close event is posted.                                                *)
LEMMA CloseJob ==
    ASSUME NEW p \in Ports, NEW m, NEW js, NEW d, NEW s, Good(p, m, js, d, s)
    PROVE  LET js2 == Append(js, Job("close", p, 0))
           IN  Good(p, m, js2, d, s) /\ Apart(p, js, js2) /\ Going(p, m, js2) = Going(p, m, js)
<1> DEFINE e == Job("close", p, 0)
           js2 == Append(js, e)
<1>1. js \in Seq(JobType) /\ JobsFit(Home(p), js)
  BY DEF Good, JobsFit
<1>2. e \in JobType /\ e.port = p /\ Fits(Home(p), e) /\ Foreign(e, p)
  BY PostsAssumption DEF JobType, Job, Fits, Foreign, Carries, FlushOf
<1>3. JobsFit(Home(p), js2) /\ Apart(p, js, js2)
  BY <1>1, <1>2, ApartOwn
<1>4. Same(p, js, js2)
  BY <1>1, <1>2, SameAppend
<1> HIDE DEF js2
<1>5. Good(p, m, js2, d, s)
  BY <1>3, <1>4 DEF Good, Same
<1>6. Going(p, m, js2) = Going(p, m, js)
  BY <1>4 DEF Same, Going
<1> QED
  BY <1>3, <1>5, <1>6 DEF js2

(* close().                                                                *)
LEMMA closeInv ==
    ASSUME Inv, NEW p \in Ports, close(p)
    PROVE  Inv' /\ [Chan!Next]_(Chan!vars)
<1> DEFINE r == Peer(p)
           h == Home(p)
           mr == RestM(state, p)
           jr == RestJs(state, p)
           c == Cut(mr)
           js2 == Append(jr, Job("close", p, 0))
           a == ClosedSt(state, p)
           b == Put(a, r, Cut(a.port[r]), a.jobs[Home(r)])
           S == Dropped(state, p)
<1>1. /\ state \in Rec /\ state.port = port /\ state.jobs = jobs /\ Typed /\ Posting
      /\ draining[p] \in BOOLEAN /\ sent[p] \in Nat /\ r \in Ports /\ port[p].m_queue \in Seq(1..MaxPosts)
      /\ draining \in [Ports -> BOOLEAN] /\ sent \in [Ports -> Nat]
      /\ Right(state, draining, sent)
  BY Parts, PostsAssumption DEF Inv, Typed
<1>2. /\ ~port[p].m_closed /\ Assign(ClosePort(state, p)) /\ UNCHANGED m_can_deliver_inline
      /\ UNCHANGED <<draining, listening, posting>> /\ UNCHANGED <<sent, seen, received>>
      /\ lost' = With(lost, p, lost[p] \cup S)
  BY DEF close, With
<1>3. /\ Good(p, mr, jr, draining[p], sent[p]) /\ Apart(p, jobs[h], jr)
      /\ Going(p, mr, jr) = transit[p] \ S /\ S \in SUBSET transit[p] /\ S \in SUBSET (1..MaxPosts)
  <2>1. /\ Good(p, mr, jr, draining[p], sent[p]) /\ Apart(p, jobs[h], jr)
        /\ DropsQueue(state, p) => Going(p, mr, jr) = transit[p] \ Elements(port[p].m_queue)
        /\ ~DropsQueue(state, p) => Going(p, mr, jr) = transit[p]
    BY RestGood
  <2>2. S = IF DropsQueue(state, p) THEN Elements(port[p].m_queue) ELSE {}
    BY <1>1, <1>2 DEF Dropped
  <2>3. \A k \in 1..Len(port[p].m_queue) : port[p].m_queue[k] \in 1..MaxPosts
    BY <1>1, ElementOfSeq
  <2>4. Elements(port[p].m_queue) \in SUBSET (1..MaxPosts)
    BY <2>3 DEF Elements
  <2>5. Elements(port[p].m_queue) \in SUBSET transit[p]
    BY TransitIs DEF Going
  <2> HIDE DEF mr, jr, S
  <2> QED
    BY <2>1, <2>2, <2>4, <2>5
<1> HIDE DEF mr, jr
<1>4. Good(p, c, jr, draining[p], sent[p]) /\ Going(p, c, jr) = Going(p, mr, jr)
  BY <1>3, CutGood
<1> HIDE DEF c
<1>5. Good(p, c, js2, draining[p], sent[p]) /\ Apart(p, jr, js2) /\ Going(p, c, js2) = Going(p, c, jr)
  BY <1>4, CloseJob
<1> HIDE DEF js2
<1>6. Apart(p, state.jobs[h], js2)
  BY <1>1, <1>3, <1>5, ApartTwice
<1>7. a = Put(state, p, c, js2)
  BY DEF ClosedSt, c, mr, jr, js2
<1> HIDE DEF a
<1>8. Right(a, draining, sent) /\ Transit(a) = With(Transit(state), p, Going(p, c, js2))
  <2>1. With(draining, p, draining[p]) = draining /\ With(sent, p, sent[p]) = sent
    BY <1>1 DEF With
  <2>2. /\ Right(Put(state, p, c, js2), With(draining, p, draining[p]), With(sent, p, sent[p]))
        /\ Transit(Put(state, p, c, js2)) = With(Transit(state), p, Going(p, c, js2))
    <3>1. /\ draining \in [Ports -> BOOLEAN] /\ sent \in [Ports -> Nat] /\ Right(state, draining, sent)
          /\ draining[p] \in BOOLEAN /\ sent[p] \in Nat
      BY <1>1
    <3>2. Good(p, c, js2, draining[p], sent[p]) /\ Apart(p, state.jobs[Home(p)], js2)
      BY <1>5, <1>6
    <3> QED
      BY <3>1, <3>2, Puts
  <2> QED
    BY <1>7, <2>1, <2>2
<1> HIDE DEF r
<1>9. /\ Good(r, a.port[r], a.jobs[Home(r)], draining[r], sent[r])
      /\ draining[r] \in BOOLEAN /\ sent[r] \in Nat
  BY <1>1, <1>8, RightGood
<1>10. /\ Good(r, Cut(a.port[r]), a.jobs[Home(r)], draining[r], sent[r])
       /\ Going(r, Cut(a.port[r]), a.jobs[Home(r)]) = Going(r, a.port[r], a.jobs[Home(r)])
       /\ Apart(r, a.jobs[Home(r)], a.jobs[Home(r)])
  BY <1>9, CutGood, ApartNone
<1>11. Right(b, draining, sent) /\ Transit(b) = Transit(a)
  <2>1. With(draining, r, draining[r]) = draining /\ With(sent, r, sent[r]) = sent
    BY <1>1 DEF With
  <2>2. /\ Right(b, With(draining, r, draining[r]), With(sent, r, sent[r]))
        /\ Transit(b) = With(Transit(a), r, Going(r, Cut(a.port[r]), a.jobs[Home(r)]))
    BY <1>1, <1>8, <1>9, <1>10, Puts
  <2>3. With(Transit(a), r, Going(r, Cut(a.port[r]), a.jobs[Home(r)])) = Transit(a)
    BY <1>1, <1>10 DEF With, Transit
  <2> QED
    BY <2>1, <2>2, <2>3
<1> HIDE DEF b
<1>12. Assign(b)
  <2>1. ClosePort(state, p) = b
    BY <1>1, <1>2, CloseIs DEF a, b, r
  <2> QED
    BY <1>2, <2>1
<1>13. Right(state, draining, sent)' /\ transit' = Transit(b)
  BY <1>2, <1>11, <1>12, Settles
<1>14. transit' = With(transit, p, Going(p, c, js2))
  BY <1>8, <1>11, <1>13, TransitIs
<1> HIDE DEF S
<1>15. [Chan!Next]_(Chan!vars)
  BY <1>2, <1>3, <1>4, <1>5, <1>14, LoseStep
<1>16. Typed' /\ Posting'
  <2>1. lost' \in [Ports -> SUBSET (1..MaxPosts)]
    BY <1>1, <1>2, <1>3 DEF Typed, With
  <2> QED
    BY <1>1, <1>2, <2>1 DEF Typed, Posting
<1> QED
  BY <1>13, <1>15, <1>16 DEF Inv

-----------------------------------------------------------------------------
(* The invariant and what it shows.                                        *)

(* The initial states satisfy it, and are those of the channel.            *)
LEMMA InitInv == Init => Inv /\ Chan!Init
<1> SUFFICES ASSUME Init PROVE Inv /\ Chan!Init
  OBVIOUS
<1>1. MaxPosts \in Nat /\ 0 \in 0..MaxPosts /\ << >> \in Seq(1..MaxPosts) /\ << >> \in Seq(JobType)
      /\ Len(<< >>) = 0 /\ 1..0 = {}
  BY PostsAssumption
<1>2. Typed /\ Posting
  BY <1>1 DEF Init, Typed, Posting
<1>3. \A p \in Ports : Home(p) \in Isolates
  BY Homes
<1>4. \A i \in Isolates : jobs[i] = << >>
  BY DEF Init
<1>5. \A p \in Ports : /\ port[p] \in Member /\ port[p].m_queue = << >> /\ ~port[p].m_holding
                       /\ ~port[p].m_flush_pending /\ ~draining[p]
  BY <1>1 DEF Init, Member
<1>6. state \in Rec
  BY <1>1, <1>5 DEF Init, Rec, state, Member
<1>7. Right(state, draining, sent)
  <2>1. \A i \in Isolates : JobsFit(i, jobs[i])
    BY <1>1, <1>4 DEF JobsFit
  <2>2. ASSUME NEW p \in Ports
        PROVE  /\ Holds(port[p]) /\ Flushing(p, port[p], jobs[Home(p)], draining[p])
               /\ Ordered(p, port[p].m_queue, jobs[Home(p)], sent[p])
    BY <1>1, <1>3, <1>4, <1>5 DEF Holds, Flushing, Ordered
  <2>3. state.port = port /\ state.jobs = jobs
    BY DEF state
  <2> QED
    BY <1>6, <2>1, <2>2, <2>3 DEF Right
<1>8. transit = [p \in Ports |-> {}]
  <2>1. ASSUME NEW p \in Ports PROVE Elements(port[p].m_queue) \cup Carried(p, jobs[Home(p)]) = {}
    BY <1>1, <1>3, <1>4, <1>5 DEF Elements, Carried
  <2> QED
    BY <2>1 DEF transit
<1>9. Chan!Init
  BY <1>8 DEF Chan!Init, Init
<1> QED
  BY <1>2, <1>7, <1>9 DEF Inv

(* Nothing changes.                                                        *)
LEMMA StutterInv == Inv /\ UNCHANGED vars => Inv' /\ [Chan!Next]_(Chan!vars)
<1> SUFFICES ASSUME Inv, UNCHANGED vars PROVE Inv' /\ [Chan!Next]_(Chan!vars)
  OBVIOUS
<1>1. /\ UNCHANGED <<m_can_deliver_inline, port, jobs, draining, listening, posting>>
      /\ UNCHANGED <<sent, seen, received, lost>>
  BY DEF vars
<1>2. Right(state, draining, sent)' /\ transit' = transit
  <2>1. Right(state, draining, sent) /\ Assign(state)
    BY <1>1 DEF Inv, Assign, state
  <2>2. Right(state, draining, sent)' /\ transit' = Transit(state)
    BY <1>1, <2>1, Settles
  <2> QED
    BY <2>2, TransitIs
<1>3. Typed' /\ Posting'
  BY <1>1 DEF Inv, Typed, Posting
<1>4. [Chan!Next]_(Chan!vars)
  BY <1>1, <1>2, Quiet
<1> QED
  BY <1>2, <1>3, <1>4 DEF Inv

(* Every step keeps the invariant and is a step of the channel, or none.   *)
LEMMA NextInv == Inv /\ [Next]_vars => Inv' /\ [Chan!Next]_(Chan!vars)
<1> SUFFICES ASSUME Inv, [Next]_vars PROVE Inv' /\ [Chan!Next]_(Chan!vars)
  OBVIOUS
<1>1. ASSUME NEW p \in Ports, PostHere(p) PROVE Inv' /\ [Chan!Next]_(Chan!vars)
  BY <1>1, PostHereInv
<1>2. ASSUME NEW p \in Ports, PostCheck(p) PROVE Inv' /\ [Chan!Next]_(Chan!vars)
  BY <1>2, PostCheckInv
<1>3. ASSUME NEW p \in Ports, On(p) \/ Off(p) \/ Start(p) \/ ref(p) \/ unref(p)
      PROVE  Inv' /\ [Chan!Next]_(Chan!vars)
  BY <1>3, ScriptInv
<1>4. ASSUME NEW p \in Ports, receiveMessage(p) PROVE Inv' /\ [Chan!Next]_(Chan!vars)
  BY <1>4, receiveMessageInv
<1>5. ASSUME NEW p \in Ports, close(p) PROVE Inv' /\ [Chan!Next]_(Chan!vars)
  BY <1>5, closeInv
<1>6. ASSUME NEW i \in Isolates, RunJob(i) PROVE Inv' /\ [Chan!Next]_(Chan!vars)
  BY <1>6, RunEnqueueInv, RunFlushEventsInv, RunMessageInv, RunFlushInv, RunCloseInv DEF RunJob
<1>7. ASSUME NEW p \in Ports, ListenerReturns(p) PROVE Inv' /\ [Chan!Next]_(Chan!vars)
  BY <1>7, ListenerReturnsInv
<1>8. ASSUME NEW p \in Ports, PostSend(p) \/ PostSevered(p) PROVE Inv' /\ [Chan!Next]_(Chan!vars)
  BY <1>8, PostSendInv
<1>9. CASE UNCHANGED vars
  BY <1>9, StutterInv
<1> QED
  BY <1>1, <1>2, <1>3, <1>4, <1>5, <1>6, <1>7, <1>8, <1>9, Zenon DEF Next, System

(* The members of the ports, the jobs and the listeners' messages are as    *)
(* Inv says, whatever scripts do and however the isolates interleave        *)
(* (enqueueSerializedMessage(), flush(), close(), receiveMessage()).        *)
THEOREM Invariance == Spec => []Inv
<1>1. Init => Inv
  BY InitInv
<1>2. Inv /\ [Next]_vars => Inv'
  BY NextInv
<1> QED
  BY <1>1, <1>2, PTL DEF Spec

(* flush() and close(): a port holds its isolate for queued messages only   *)
(* while a flush is on its way that will release it.                       *)
THEOREM HoldsOnlyToFlushHolds == Spec => []HoldsOnlyToFlush
<1>1. ASSUME Inv PROVE HoldsOnlyToFlush
  <2>1. Typed /\ Right(state, draining, sent) /\ state = [port |-> port, jobs |-> jobs]
    BY <1>1 DEF Inv, state
  <2>2. state.port = port /\ state.jobs = jobs
    BY <2>1
  <2>3. port \in [Ports -> Member] /\ jobs \in [Isolates -> Seq(JobType)]
    BY <2>1, <2>2 DEF Right, Rec
  <2>4. TypeOK
    BY <2>1, <2>3 DEF Typed, TypeOK, Member, JobType
  <2>5. ASSUME NEW p \in Ports
        PROVE  /\ port[p].m_holding => port[p].m_flush_pending
               /\ port[p].m_flush_pending => draining[p] \/ FlushJobs(p) # {}
               /\ draining[p] => port[p].m_flush_pending /\ FlushJobs(p) = {}
    <3>1. Holds(port[p]) /\ Flushing(p, port[p], jobs[Home(p)], draining[p])
      BY <2>1, <2>2 DEF Right
    <3> QED
      BY <3>1 DEF Holds, Flushing, FlushJobs, FlushOf
  <2> QED
    BY <2>4, <2>5 DEF HoldsOnlyToFlush
<1>2. Inv => HoldsOnlyToFlush
  BY <1>1
<1> QED
  BY <1>2, Invariance, PTL

(* A message is emitted.                                                   *)
LEMMA EmitKeeps ==
    ASSUME Inv, NEW p \in Ports, NEW n, Emit(p, n), NEW r \in Ports, lost'[r] # lost[r]
    PROVE  ~listening[r]
BY DEF Inv, Typed, Emit

(* close() drops messages only of a port that cannot deliver them, and one  *)
(* emits to no listener only without a listener: no message is lost at a    *)
(* started port with a listener.                                           *)
THEOREM NoLossHolds == Spec => NoLossWithListener
<1> DEFINE A == \A p \in Ports : lost'[p] # lost[p] => ~(port[p].m_started /\ listening[p])
<1>1. ASSUME Inv, [Next]_vars PROVE [A]_vars
  <2> SUFFICES ASSUME Next, NEW r \in Ports, lost'[r] # lost[r] PROVE ~(port[r].m_started /\ listening[r])
    BY <1>1 DEF vars
  <2>1. ASSUME NEW p \in Ports, close(p) PROVE ~(port[r].m_started /\ listening[r])
    <3>1. lost \in [Ports -> SUBSET (1..MaxPosts)] /\ lost' = [lost EXCEPT ![p] = @ \cup Dropped(state, p)]
      BY <1>1, <2>1 DEF Inv, Typed, close
    <3>2. r = p /\ Dropped(state, p) # {}
      BY <3>1
    <3>3. DropsQueue(state, p)
      BY <3>2 DEF Dropped
    <3>4. ~(port[p].m_started /\ canDeliverMessages(p))
      BY <3>3 DEF DropsQueue, state
    <3> QED
      BY <3>2, <3>4 DEF canDeliverMessages
  <2>2. ASSUME NEW i \in Isolates, RunMessage(i) PROVE ~listening[r]
    <3>1. Head(jobs[i]).port \in Ports /\ Emit(Head(jobs[i]).port, Head(jobs[i]).msg)
      BY <1>1, <2>2, FirstJob DEF RunMessage, Begins
    <3> QED
      BY <1>1, <3>1, EmitKeeps
  <2>3. ASSUME NEW p \in Ports, NEW st, Drain(st, p) PROVE ~listening[r]
    <3>1. Emit(p, Head(st.port[p].m_queue))
      BY <2>3 DEF Drain
    <3> QED
      BY <1>1, <3>1, EmitKeeps
  <2>4. ASSUME NEW i \in Isolates, RunFlush(i) PROVE ~listening[r]
    <3>1. Head(jobs[i]).port \in Ports /\ Drain(Begun(i), Head(jobs[i]).port)
      BY <1>1, <2>4, FlushFirst DEF RunFlush
    <3> QED
      BY <2>3, <3>1
  <2>5. ASSUME NEW p \in Ports, ListenerReturns(p) PROVE ~listening[r]
    BY <2>3, <2>5 DEF ListenerReturns
  <2>6. ASSUME NEW p \in Ports, PostHere(p) \/ PostCheck(p) \/ On(p) \/ Off(p) \/ Start(p)
        PROVE  FALSE
    BY <2>6 DEF PostHere, PostCheck, On, Off, Start
  <2>7. ASSUME NEW p \in Ports, ref(p) \/ unref(p) \/ receiveMessage(p) \/ PostSend(p) \/ PostSevered(p)
        PROVE  FALSE
    BY <2>7 DEF ref, unref, receiveMessage, PostSend, PostSevered
  <2>8. ASSUME NEW i \in Isolates, RunEnqueue(i) \/ RunFlushEvents(i) \/ RunClose(i) PROVE FALSE
    BY <2>8 DEF RunEnqueue, RunFlushEvents, RunClose
  <2> QED
    BY <2>1, <2>2, <2>4, <2>5, <2>6, <2>7, <2>8, Zenon DEF Next, System, RunJob
<1>2. Inv /\ [Next]_vars => [A]_vars
  BY <1>1
<1> QED
  BY <1>2, Invariance, PTL DEF Spec, NoLossWithListener

(* A pair of ports implements an ordered channel: flush() and its loop call *)
(* the listeners with the oldest message on its way, and a message leaves   *)
(* once, to a listener, to receiveMessageOnPort(), or lost.                *)
THEOREM Implements == Spec => ImplementsChannel
<1>1. Init => Chan!Init
  BY InitInv
<1>2. Inv /\ [Next]_vars => [Chan!Next]_(Chan!vars)
  BY NextInv
<1> QED
  BY <1>1, <1>2, Invariance, PTL DEF Spec, ImplementsChannel, Chan!Spec

=============================================================================
