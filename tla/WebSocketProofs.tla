--------------------------- MODULE WebSocketProofs ---------------------------
(***************************************************************************)
(* The frames of a WebSocket reach the stream whole and in the order of     *)
(* the calls, its end is reported once, and its memory is released last.    *)
(***************************************************************************)
EXTENDS WebSocket, TLAPS, FiniteSetTheorems, SequenceTheorems

Frame == [from : {"js", "peer"}, type : {"text", "pong", "close"}]
Event == {"open", "message", "error", "close"}

(* The types of the variables, first those that the asyncSends do not own.  *)
StateTyped ==
    /\ m_readyState \in States /\ m_closeState \in States \ {"CONNECTING"}
    /\ m_stream \in {"none", "open", "closed"} /\ m_holder \in BOOLEAN
    /\ holding \in BOOLEAN /\ terminating \in BOOLEAN /\ stopping \in BOOLEAN
    /\ stopped \in BOOLEAN
    /\ conn \in {"handshake", "gotStream", "opened", "done"}
    /\ reader \in {"none", "recv", "end", "freed", "ended"}
    /\ inbox \in Seq(Incoming) /\ sent \in 0..MaxFrames /\ gone \in BOOLEAN
    /\ jobs \in Seq(Event) /\ log \in Seq(Event)

SendTyped ==
    /\ role \in Roles /\ m_ioState \in Nat
    /\ releasing \subseteq Sends \cup {Reader} /\ late \subseteq Sends
    /\ sends \in Seq(Frame)
    /\ pc \in [Sends -> {"none", "encode", "head", "data", "flush", "take", "write", "ok",
                         "failed"}]
    /\ m_lockEncode \in Seq(Sends) /\ m_lockBuffer \in Seq(Sends) /\ m_lockSend \in Seq(Sends)
    /\ m_buffer \in Seq(Parts) /\ batch \in Seq(Parts) /\ wire \in Seq(Parts)

Typed == StateTyped /\ SendTyped

(* How many asyncSends were made by x: the script, or a frame of the peer.  *)
From(x, s) == Cardinality({i \in 1..Len(s) : s[i].from = x})

(* The calls and the frames that were received bound the asyncSends.       *)
Bounded ==
    /\ From("js", sends) <= MaxCalls[role]
    /\ From("peer", sends) + Len(inbox) <= sent
    /\ From("js", sends) + From("peer", sends) = Len(sends)

(* The asyncSends are encoded, and then end, in the order of the calls: the *)
(* first Ended are over, those up to Encoded are in m_lockSend, the rest in *)
(* m_lockEncode.                                                           *)
Encoded == Len(sends) - Len(m_lockEncode)
Ended == Encoded - Len(m_lockSend)

Encoding == {"encode", "head", "data", "failed"}
Sending == {"flush", "take", "write", "ok"}

Queued ==
    /\ Ended >= 0
    /\ \A n \in 1..Len(m_lockEncode) : m_lockEncode[n] = Encoded + n
    /\ \A n \in 1..Len(m_lockSend) : m_lockSend[n] = Ended + n
    /\ \A i \in Sends :
          /\ pc[i] = "none" <=> i <= Ended \/ Len(sends) < i
          /\ pc[i] \in Encoding <=> Encoded < i /\ i <= Len(sends)
          /\ pc[i] \in Sending <=> Ended < i /\ i <= Encoded
          /\ pc[i] \in {"head", "data", "failed"} => i = Encoded + 1
          /\ pc[i] \in {"take", "write", "ok"} => i = Ended + 1

At(label) == \E i \in Sends : pc[i] = label

Over == {"end", "freed", "ended"}
Reading == reader \notin {"freed", "ended"}

(* m_ioState counts the reader and the asyncSends that have not ended.  One *)
(* that died stays the owner of m_lockEncode.                              *)
Counted ==
    m_ioState + (IF At("failed") THEN 1 ELSE 0)
        = Len(m_lockEncode) + Len(m_lockSend) + (IF Reading THEN 1 ELSE 0)

(* Who encodes and who takes the buffer over is in m_lockBuffer, and who    *)
(* has written half a frame, or died of it, owns it.                       *)
Locked ==
    /\ \A i \in Sends :
          /\ pc[i] \in {"head", "data", "take", "failed"}
                <=> \E n \in 1..Len(m_lockBuffer) : m_lockBuffer[n] = i
          /\ pc[i] \in {"data", "failed"} => Owns(m_lockBuffer, i)
    /\ \A m, n \in 1..Len(m_lockBuffer) : m_lockBuffer[m] = m_lockBuffer[n] => m = n

(* s holds the frames from a + 1 to b, each of them whole.                 *)
Holds(s, a, b) ==
    \A k \in 1..(b - a) : s[2 * k - 1] = <<a + k, "head">> /\ s[2 * k] = <<a + k, "data">>

Broken == m_stream = "closed" \/ gone

(* w frames were written and t were taken over.  A batch that could not be  *)
(* written is the last thing that happens to a stream.                     *)
Flows(w, t) ==
    /\ w <= t /\ Ended <= t /\ t <= Encoded
    /\ \A i \in Sends : pc[i] \in {"write", "ok"} => i <= t
    /\ Len(wire) = 2 * w /\ Holds(wire, 0, w)
    /\ Len(m_buffer) = 2 * (Encoded - t) + (IF At("data") THEN 1 ELSE 0)
    /\ Holds(m_buffer, t, Encoded)
    /\ At("data") => m_buffer[Len(m_buffer)] = <<Encoded + 1, "head">>
    /\ \/ Broken
       \/ At("write") /\ Len(batch) = 2 * (t - w) /\ Holds(batch, w, t)
       \/ ~At("write") /\ w = t

(* A stream that is closed stays closed, whatever becomes of the buffers.   *)
Whole(w) == Len(wire) = 2 * w /\ Holds(wire, 0, w)

InFlow ==
    \/ stopped
    \/ m_stream = "closed" /\ \E w \in Nat : Whole(w)
    \/ \E w, t \in Nat : Flows(w, t)

(* A reader that ended has ended the connection, or left that to the        *)
(* asyncSend that answers the CLOSE of the peer.                           *)
Answered ==
    reader \in Over =>
        \/ m_closeState = "CLOSED"
        \/ \E i \in Sends : pc[i] # "none" /\ sends[i] = [from |-> "peer", type |-> "close"]

(* A closed connection has no open stream, unless stop() came before it.    *)
Shut ==
    m_closeState = "CLOSED" =>
        stopped \/ m_stream = "closed" \/ (m_stream = "none" /\ conn = "done")

(* Nothing starts before the stream, the reader keeps the wrapper pinned,   *)
(* and stop() runs once.                                                   *)
Pinned ==
    /\ conn = "handshake" => m_stream = "none"
    /\ conn = "gotStream" => m_stream # "none"
    /\ m_stream = "none" => reader = "none" /\ sends = << >> /\ m_readyState # "OPEN"
    /\ reader = "recv" => m_holder
    /\ stopping \/ stopped => terminating
    /\ ~(stopping /\ stopped)
    /\ Shut

(* While the memory is released the connection is closed, the reader over   *)
(* and nobody at work but who came late; who died has closed it, too.       *)
Alone ==
    /\ releasing # {} => /\ m_closeState = "CLOSED" /\ ~Reading
                         /\ \A i \in Sends : AtWork(i) => i \in late
    /\ At("failed") => m_closeState = "CLOSED"
    /\ \A i \in late : i <= Len(sends) /\ sends[i].from = "js"

(* Nothing is reported before the connection is CLOSED.                    *)
Quiet == m_closeState # "CLOSED" => \A n \in 1..Len(Events) : ~Final(Events[n])

Inv ==
    /\ Typed /\ Bounded /\ Queued /\ Counted /\ Locked /\ InFlow /\ Answered /\ Pinned
    /\ Alone /\ Quiet /\ ReportedOnce

-----------------------------------------------------------------------------
(* Sequences.                                                              *)

(* Appending an entry.                                                     *)
LEMMA Appended ==
    ASSUME NEW S, NEW s \in Seq(S), NEW x \in S
    PROVE  /\ Append(s, x) \in Seq(S) /\ Len(s) \in Nat /\ Len(Append(s, x)) = Len(s) + 1
           /\ Append(s, x)[Len(s) + 1] = x /\ Append(s, x) # << >>
           /\ \A i \in 1..Len(s) : Append(s, x)[i] = s[i]
BY LenProperties, AppendProperties

(* Concatenation.                                                          *)
LEMMA Joined ==
    ASSUME NEW S, NEW s \in Seq(S), NEW t \in Seq(S)
    PROVE  /\ s \o t \in Seq(S) /\ Len(s) \in Nat /\ Len(t) \in Nat
           /\ Len(s \o t) = Len(s) + Len(t)
           /\ \A i \in 1..Len(s) : (s \o t)[i] = s[i]
           /\ \A i \in 1..Len(t) : (s \o t)[Len(s) + i] = t[i]
           /\ \A i \in 1..(Len(s) + Len(t)) : (s \o t)[i] = IF i <= Len(s) THEN s[i] ELSE t[i - Len(s)]
<1>1. Len(s) \in Nat /\ Len(t) \in Nat
  BY LenProperties
<1>2. /\ s \o t \in Seq(S) /\ Len(s \o t) = Len(s) + Len(t)
      /\ \A i \in 1..(Len(s) + Len(t)) : (s \o t)[i] = IF i <= Len(s) THEN s[i] ELSE t[i - Len(s)]
  BY ConcatProperties
<1> DEFINE m == Len(s)
           n == Len(t)
           c == s \o t
<1>3. m \in Nat /\ n \in Nat /\ \A i \in 1..(m + n) : c[i] = IF i <= m THEN s[i] ELSE t[i - m]
  BY <1>1, <1>2
<1> HIDE DEF m, n, c
<1>4. ASSUME NEW i \in 1..m PROVE c[i] = s[i]
  <2>1. i \in 1..(m + n) /\ i <= m
    BY <1>3
  <2> QED
    BY <2>1, <1>3
<1>5. ASSUME NEW i \in 1..n PROVE c[m + i] = t[i]
  <2>1. m + i \in 1..(m + n) /\ ~(m + i <= m) /\ m + i - m = i
    BY <1>3
  <2> QED
    BY <2>1, <1>3
<1> QED
  BY <1>1, <1>2, <1>4, <1>5 DEF m, n, c

(* The rest of a queue.                                                    *)
LEMMA Rest ==
    ASSUME NEW S, NEW s \in Seq(S), s # << >>
    PROVE  /\ Head(s) \in S /\ Head(s) = s[1] /\ Tail(s) \in Seq(S)
           /\ Len(s) \in Nat /\ Len(s) >= 1 /\ 1 \in 1..Len(s) /\ Len(Tail(s)) = Len(s) - 1
           /\ \A i \in 1..(Len(s) - 1) : Tail(s)[i] = s[i + 1]
<1>1. Len(s) \in Nat /\ Len(s) # 0
  BY LenProperties, EmptySeq
<1>2. /\ Head(s) \in S /\ Tail(s) \in Seq(S) /\ Len(Tail(s)) = Len(s) - 1
      /\ \A i \in 1..Len(Tail(s)) : Tail(s)[i] = s[i + 1]
  BY HeadTailProperties
<1>3. Head(s) = s[1]
  OBVIOUS
<1>4. Len(s) >= 1 /\ 1 \in 1..Len(s)
  BY <1>1
<1> QED
  BY <1>1, <1>2, <1>3, <1>4

(* A sequence and what is put after it.                                    *)
LEMMA Joining ==
    ASSUME NEW S, NEW p \in Seq(S), NEW q \in Seq(S), NEW e \in Seq(S)
    PROVE  p \o (q \o e) = (p \o q) \o e
BY ConcatAssociative

(* A queue is empty when its length is zero.                               *)
LEMMA NoneLeft ==
    ASSUME NEW S, NEW s \in Seq(S), Len(s) = 0
    PROVE  s = << >>
BY EmptySeq

(* What the script made, and what the peer.                                *)
LEMMA FromType ==
    ASSUME NEW s \in Seq(Frame), NEW x
    PROVE  From(x, s) \in Nat /\ IsFiniteSet({i \in 1..Len(s) : s[i].from = x})
<1>1. Len(s) \in Nat
  BY LenProperties
<1>2. IsFiniteSet(1..Len(s))
  BY <1>1, FS_Interval
<1>3. IsFiniteSet({i \in 1..Len(s) : s[i].from = x})
  BY <1>2, FS_Subset
<1> QED
  BY <1>3, FS_CardinalityType DEF From

(* One asyncSend more.                                                     *)
LEMMA FromAppend ==
    ASSUME NEW s \in Seq(Frame), NEW f \in Frame, NEW x
    PROVE  From(x, Append(s, f)) = From(x, s) + (IF f.from = x THEN 1 ELSE 0)
<1> DEFINE A == {i \in 1..Len(s) : s[i].from = x}
           B == {i \in 1..Len(Append(s, f)) : Append(s, f)[i].from = x}
           n == Len(s) + 1
<1>1. /\ Len(s) \in Nat /\ Len(Append(s, f)) = n /\ Append(s, f)[n] = f
      /\ \A i \in 1..Len(s) : Append(s, f)[i] = s[i]
  BY Appended
<1>2. IsFiniteSet(A) /\ n \notin A /\ Cardinality(A) \in Nat
  <2>1. IsFiniteSet(A) /\ Cardinality(A) \in Nat
    BY FromType DEF From
  <2> QED
    BY <2>1, <1>1
<1>3. CASE f.from = x
  <2>1. B = A \cup {n}
    BY <1>1, <1>3
  <2>2. Cardinality(B) = Cardinality(A) + 1
    BY <2>1, <1>2, FS_AddElement
  <2> QED
    BY <2>2, <1>3 DEF From
<1>4. CASE f.from # x
  <2>1. B = A
    BY <1>1, <1>4
  <2>2. Cardinality(B) = Cardinality(A) + 0
    <3> HIDE DEF A, B
    <3> QED
      BY <2>1, <1>2
  <2> QED
    BY <2>2, <1>4 DEF From
<1> QED
  BY <1>3, <1>4

-----------------------------------------------------------------------------
(* What is reported.                                                       *)

Silent(q) == \A n \in 1..Len(q) : ~Final(q[n])

Reports(q, over) ==
    /\ \A m, n \in 1..Len(q) : Final(q[m]) /\ q[m] = q[n] => m = n
    /\ \A n \in 1..Len(q) : q[n] = "error" =>
          over \/ \E m \in (n + 1)..Len(q) : q[m] = "close"

(* The end of the connection, reported after nothing like it.              *)
LEMMA ReportsEnd ==
    ASSUME NEW q \in Seq(Event), Silent(q), NEW e \in {Normal, Failure}, NEW over \in BOOLEAN
    PROVE  Reports(q \o e, over)
<1> DEFINE c == q \o e
           l == Len(q)
<1>1. CASE e = Normal
  <2>1. e \in Seq(Event) /\ Len(e) = 1 /\ e[1] = "close"
    BY <1>1 DEF Normal, Event
  <2>2. /\ l \in Nat /\ Len(c) = l + 1 /\ c[l + 1] = "close"
        /\ \A i \in 1..l : c[i] = q[i]
    BY <2>1, Joined
  <2> HIDE DEF c, l
  <2>3. \A i \in 1..l : ~Final(c[i])
    BY <2>2 DEF Silent, l
  <2>4. \A i \in 1..(l + 1) : i \in 1..l \/ i = l + 1
    BY <2>2
  <2> QED
    BY <2>2, <2>3, <2>4 DEF Reports, Final, c
<1>2. CASE e = Failure
  <2>1. e \in Seq(Event) /\ Len(e) = 2 /\ e[1] = "error" /\ e[2] = "close"
    BY <1>2 DEF Failure, Event
  <2>0. /\ l \in Nat /\ Len(c) = l + Len(e)
        /\ \A i \in 1..l : c[i] = q[i]
        /\ \A i \in 1..Len(e) : c[l + i] = e[i]
    BY <2>1, Joined
  <2>2. /\ l \in Nat /\ Len(c) = l + 2 /\ c[l + 1] = "error" /\ c[l + 2] = "close"
        /\ \A i \in 1..l : c[i] = q[i]
    <3> HIDE DEF c, l
    <3>1. 1 \in 1..2 /\ 2 \in 1..2
      OBVIOUS
    <3> QED
      BY <2>0, <2>1, <3>1
  <2> HIDE DEF c, l
  <2>3. \A i \in 1..l : ~Final(c[i])
    BY <2>2 DEF Silent, l
  <2>4. /\ \A i \in 1..(l + 2) : i \in 1..l \/ i = l + 1 \/ i = l + 2
        /\ l + 2 \in ((l + 1) + 1)..(l + 2)
    BY <2>2
  <2> QED
    BY <2>2, <2>3, <2>4 DEF Reports, Final, c
<1> QED
  BY <1>1, <1>2

(* Any other event.                                                        *)
LEMMA ReportsPlain ==
    ASSUME NEW q \in Seq(Event), NEW x \in {"open", "message"}, NEW over \in BOOLEAN
    PROVE  /\ Reports(q, over) => Reports(q \o <<x>>, over)
           /\ Silent(q) => Silent(q \o <<x>>)
<1> DEFINE c == q \o <<x>>
           l == Len(q)
<1>1. <<x>> \in Seq(Event) /\ Len(<<x>>) = 1 /\ <<x>>[1] = x
  BY DEF Event
<1>2. /\ l \in Nat /\ Len(c) = l + 1 /\ c[l + 1] = x
      /\ \A i \in 1..l : c[i] = q[i]
  BY <1>1, Joined
<1> HIDE DEF c
<1>3. /\ \A i \in 1..(l + 1) : i \in 1..l \/ i = l + 1
      /\ \A i \in 1..l : i \in 1..(l + 1) /\ \A m \in (i + 1)..l : m \in 1..l /\ m \in (i + 1)..(l + 1)
  BY <1>2
<1>4. ~Final(x)
  BY DEF Final
<1>5. Silent(q) => Silent(c)
  BY <1>2, <1>3, <1>4 DEF Silent
<1>6. ASSUME Reports(q, over) PROVE Reports(c, over)
  <2>1. ASSUME NEW m \in 1..(l + 1), NEW n \in 1..(l + 1), Final(c[m]), c[m] = c[n]
        PROVE  m = n
    <3>1. m \in 1..l /\ n \in 1..l
      BY <2>1, <1>2, <1>3, <1>4
    <3> QED
      BY <2>1, <3>1, <1>2, <1>6 DEF Reports
  <2>2. ASSUME NEW n \in 1..(l + 1), c[n] = "error"
        PROVE  over \/ \E m \in (n + 1)..(l + 1) : c[m] = "close"
    <3>1. n \in 1..l
      BY <2>2, <1>2, <1>3, <1>4
    <3>2. over \/ \E m \in (n + 1)..l : q[m] = "close"
      BY <3>1, <2>2, <1>2, <1>6 DEF Reports
    <3> QED
      BY <3>1, <3>2, <1>2, <1>3
  <2> QED
    BY <2>1, <2>2, <1>2 DEF Reports
<1> QED
  BY <1>5, <1>6 DEF c

(* An event after those that were run and those that wait.                 *)
LEMMA ReportsPost ==
    ASSUME NEW p \in Seq(Event), NEW q \in Seq(Event), NEW e \in Seq(Event),
           NEW x \in {"open", "message"}, e = <<x>>, NEW over \in BOOLEAN
    PROVE  /\ q \o e \in Seq(Event)
           /\ Reports(p \o q, over) => Reports(p \o (q \o e), over)
           /\ Silent(p \o q) => Silent(p \o (q \o e))
<1> DEFINE c == p \o q
<1>1. c \in Seq(Event) /\ q \o e \in Seq(Event)
  BY Joined
<1>2. p \o (q \o e) = c \o e
  BY Joining
<1> HIDE DEF c
<1>3. (Reports(c, over) => Reports(c \o e, over)) /\ (Silent(c) => Silent(c \o e))
  BY <1>1, ReportsPlain
<1> QED
  BY <1>1, <1>2, <1>3 DEF c

(* An event is run that is not kept: none of the end, or none at all when   *)
(* the isolate terminates.                                                 *)
LEMMA ReportsDrop ==
    ASSUME NEW p \in Seq(Event), NEW q \in Seq(Event), q # << >>, NEW over \in BOOLEAN
    PROVE  /\ Reports(p \o q, over) /\ (over \/ ~Final(Head(q))) => Reports(p \o Tail(q), over)
           /\ Silent(p \o q) => Silent(p \o Tail(q))
<1> DEFINE c == p \o q
           d == p \o Tail(q)
           l == Len(p)
           k == Len(q)
           At2(n) == IF n <= l THEN n ELSE n + 1
<1>1. /\ Tail(q) \in Seq(Event) /\ k \in Nat /\ k >= 1 /\ Len(Tail(q)) = k - 1
      /\ Head(q) = q[1] /\ \A i \in 1..(k - 1) : Tail(q)[i] = q[i + 1]
  BY Rest
<1>2. /\ l \in Nat /\ Len(c) = l + k /\ Len(d) = l + (k - 1)
      /\ \A i \in 1..(l + k) : c[i] = IF i <= l THEN p[i] ELSE q[i - l]
      /\ \A i \in 1..(l + (k - 1)) : d[i] = IF i <= l THEN p[i] ELSE Tail(q)[i - l]
  BY <1>1, Joined
<1> HIDE DEF c, d, l, k
<1>3. ASSUME NEW n \in 1..(l + (k - 1))
      PROVE  At2(n) \in 1..(l + k) /\ d[n] = c[At2(n)]
  <2>1. CASE n <= l
    BY <2>1, <1>1, <1>2
  <2>2. CASE ~(n <= l)
    <3>1. n - l \in 1..(k - 1) /\ n + 1 \in 1..(l + k) /\ (n + 1) - l = (n - l) + 1 /\ ~(n + 1 <= l)
      BY <2>2, <1>1, <1>2
    <3>2. d[n] = Tail(q)[n - l] /\ Tail(q)[n - l] = q[(n - l) + 1] /\ c[n + 1] = q[(n + 1) - l]
      BY <2>2, <3>1, <1>1, <1>2
    <3> QED
      BY <2>2, <3>1, <3>2
  <2> QED
    BY <2>1, <2>2
<1>4. \A m, n \in 1..(l + (k - 1)) : At2(m) = At2(n) => m = n
  BY <1>1, <1>2
<1>5. /\ c[l + 1] = Head(q)
      /\ \A m \in 1..(l + k) : m # l + 1 => \E n \in 1..(l + (k - 1)) : At2(n) = m
  <2>1. c[l + 1] = Head(q)
    <3>1. l + 1 \in 1..(l + k) /\ ~(l + 1 <= l) /\ (l + 1) - l = 1
      BY <1>1, <1>2
    <3> QED
      BY <3>1, <1>1, <1>2
  <2>2. ASSUME NEW m \in 1..(l + k), m # l + 1
        PROVE  \E n \in 1..(l + (k - 1)) : At2(n) = m
    <3>1. CASE m <= l
      <4>1. m \in 1..(l + (k - 1)) /\ At2(m) = m
        BY <3>1, <1>1, <1>2
      <4> QED
        BY <4>1
    <3>2. CASE ~(m <= l)
      <4>1. m - 1 \in 1..(l + (k - 1)) /\ At2(m - 1) = m
        BY <2>2, <3>2, <1>1, <1>2
      <4> QED
        BY <4>1
    <3> QED
      BY <3>1, <3>2
  <2> QED
    BY <2>1, <2>2
<1>6. Silent(c) => Silent(d)
  BY <1>2, <1>3 DEF Silent
<1>7. ASSUME Reports(c, over), over \/ ~Final(Head(q)) PROVE Reports(d, over)
  <2>1. ASSUME NEW m \in 1..(l + (k - 1)), NEW n \in 1..(l + (k - 1)), Final(d[m]), d[m] = d[n]
        PROVE  m = n
    <3>1. At2(m) = At2(n)
      <4> HIDE DEF At2
      <4> QED
        BY <2>1, <1>2, <1>3, <1>7 DEF Reports
    <3> QED
      BY <3>1, <1>4
  <2>2. ASSUME NEW n \in 1..(l + (k - 1)), d[n] = "error", ~over
        PROVE  \E m \in (n + 1)..(l + (k - 1)) : d[m] = "close"
    <3>1. PICK m \in (At2(n) + 1)..(l + k) : c[m] = "close"
      <4> HIDE DEF At2
      <4> QED
        BY <2>2, <1>2, <1>3, <1>7 DEF Reports
    <3>2. m # l + 1
      BY <3>1, <1>5, <1>7, <2>2 DEF Final
    <3>3. m \in 1..(l + k)
      BY <1>1, <1>2, <3>1
    <3>4. PICK j \in 1..(l + (k - 1)) : At2(j) = m
      BY <3>2, <3>3, <1>5
    <3>5. j \in (n + 1)..(l + (k - 1))
      BY <3>1, <3>4, <1>1, <1>2
    <3> QED
      BY <3>1, <3>4, <3>5, <1>3
  <2> QED
    BY <2>1, <2>2, <1>2 DEF Reports
<1> QED
  BY <1>6, <1>7 DEF c, d

(* A final event is run and kept.                                          *)
LEMMA ReportsRun ==
    ASSUME NEW p \in Seq(Event), NEW q \in Seq(Event), q # << >>
    PROVE  Append(p, Head(q)) \o Tail(q) = p \o q
<1> DEFINE a == Append(p, Head(q))
           b == Tail(q)
<1>1. /\ Head(q) \in Event /\ b \in Seq(Event) /\ Len(q) \in Nat /\ Len(q) >= 1
      /\ Len(b) = Len(q) - 1 /\ Head(q) = q[1] /\ \A i \in 1..(Len(q) - 1) : b[i] = q[i + 1]
  BY Rest
<1>2. /\ a \in Seq(Event) /\ Len(p) \in Nat /\ Len(a) = Len(p) + 1 /\ a[Len(p) + 1] = Head(q)
      /\ \A i \in 1..Len(p) : a[i] = p[i]
  BY <1>1, Appended
<1> HIDE DEF a, b
<1>3. /\ a \o b \in Seq(Event) /\ Len(a \o b) = Len(a) + Len(b)
      /\ \A i \in 1..(Len(a) + Len(b)) : (a \o b)[i] = IF i <= Len(a) THEN a[i] ELSE b[i - Len(a)]
  <2>1. a \in Seq(Event) /\ b \in Seq(Event)
    BY <1>1, <1>2
  <2> QED
    BY <2>1, Joined
<1>4. /\ p \o q \in Seq(Event) /\ Len(p \o q) = Len(p) + Len(q)
      /\ \A i \in 1..(Len(p) + Len(q)) : (p \o q)[i] = IF i <= Len(p) THEN p[i] ELSE q[i - Len(p)]
  BY Joined
<1>5. Len(a) + Len(b) = Len(p) + Len(q)
  BY <1>1, <1>2
<1>6. ASSUME NEW i \in 1..(Len(p) + Len(q)) PROVE (a \o b)[i] = (p \o q)[i]
  <2>1. CASE i <= Len(p)
    <3>1. i \in 1..Len(p) /\ i <= Len(a)
      BY <2>1, <1>1, <1>2
    <3> QED
      BY <2>1, <3>1, <1>2, <1>3, <1>4, <1>5
  <2>2. CASE i = Len(p) + 1
    <3>1. i <= Len(a) /\ ~(i <= Len(p)) /\ i - Len(p) = 1
      BY <2>2, <1>2
    <3> QED
      BY <2>2, <3>1, <1>1, <1>2, <1>3, <1>4, <1>5
  <2>3. CASE i > Len(p) + 1
    <3>1. /\ ~(i <= Len(a)) /\ ~(i <= Len(p)) /\ i - Len(a) \in 1..(Len(q) - 1)
          /\ i - Len(p) = (i - Len(a)) + 1
      BY <2>3, <1>1, <1>2
    <3> QED
      BY <3>1, <1>1, <1>3, <1>4, <1>5
  <2>4. i <= Len(p) \/ i = Len(p) + 1 \/ i > Len(p) + 1
    BY <1>1, <1>2
  <2> QED
    BY <2>1, <2>2, <2>3, <2>4
<1>7. a \o b = p \o q
  BY <1>3, <1>4, <1>5, <1>6, SeqEqual
<1> QED
  BY <1>7 DEF a, b

-----------------------------------------------------------------------------
(* Steps that leave the asyncSends alone.                                  *)

Working == {"encode", "head", "data", "flush", "take", "write", "ok"}
Labels == Working \cup {"none", "failed"}

(* The sizes the invariant speaks of are numbers.                          *)
LEMMA Numbers ==
    ASSUME Inv
    PROVE  /\ MaxCalls[role] \in Nat /\ MaxFrames \in Nat /\ sent \in Nat
           /\ Sends = 1..(MaxCalls[role] + MaxFrames) /\ Len(inbox) \in Nat
           /\ Len(sends) \in Nat /\ Len(m_lockEncode) \in Nat /\ Len(m_lockSend) \in Nat
           /\ Len(m_lockBuffer) \in Nat /\ Len(m_buffer) \in Nat /\ Len(batch) \in Nat
           /\ Encoded \in Nat /\ Ended \in Nat /\ Ended <= Encoded /\ Encoded <= Len(sends)
           /\ Encoded = Len(sends) - Len(m_lockEncode) /\ Ended = Encoded - Len(m_lockSend)
<1>1. /\ Len(sends) \in Nat /\ Len(m_lockEncode) \in Nat /\ Len(m_lockSend) \in Nat
      /\ Len(m_lockBuffer) \in Nat /\ Len(m_buffer) \in Nat /\ Len(inbox) \in Nat
      /\ Len(batch) \in Nat
  BY LenProperties DEF Inv, Typed, StateTyped, SendTyped
<1>2. MaxCalls[role] \in Nat /\ MaxFrames \in Nat /\ sent \in Nat
  BY BoundAssumption DEF Inv, Typed, StateTyped, SendTyped
<1>3. Encoded - Len(m_lockSend) >= 0
  BY DEF Inv, Queued, Ended
<1>4. Encoded = Len(sends) - Len(m_lockEncode) /\ Ended = Encoded - Len(m_lockSend)
  BY DEF Encoded, Ended
<1>5. Encoded \in Nat /\ Ended \in Nat /\ Ended <= Encoded /\ Encoded <= Len(sends)
  BY <1>1, <1>3, <1>4
<1> QED
  BY <1>1, <1>2, <1>4, <1>5 DEF Sends

(* A step after which the buffers do not matter.                           *)
LEMMA FlowOver ==
    ASSUME Inv, wire' = wire, stopped => stopped', stopped' \/ m_stream' = "closed"
    PROVE  InFlow'
<1>1. CASE stopped'
  BY <1>1 DEF InFlow
<1>2. CASE ~stopped'
  <2>1. \E w \in Nat : Whole(w)
    BY <1>2 DEF Inv, InFlow, Flows, Whole
  <2>2. PICK w \in Nat : Whole(w)
    BY <2>1
  <2>3. Whole(w)'
    BY <2>2 DEF Whole, Holds
  <2> QED
    BY <1>2, <2>3 DEF InFlow
<1> QED
  BY <1>1, <1>2

(* A step that leaves the asyncSends alone, and does not mend the stream.   *)
LEMMA SendingKeeps ==
    ASSUME Inv, UNCHANGED <<role, sending, m_buffer>>, Broken => Broken',
           stopped => stopped', m_stream = "closed" => m_stream' = "closed"
    PROVE  Queued' /\ Locked' /\ InFlow' /\ At("failed")' = At("failed")
<1>1. /\ role' = role /\ sends' = sends /\ pc' = pc /\ m_lockEncode' = m_lockEncode
      /\ m_lockBuffer' = m_lockBuffer /\ m_lockSend' = m_lockSend /\ batch' = batch
      /\ wire' = wire /\ m_buffer' = m_buffer
  BY DEF sending
<1>2. Sends' = Sends /\ Encoded' = Encoded /\ Ended' = Ended
  BY <1>1 DEF Sends, Encoded, Ended
<1>3. Queued'
  BY <1>1, <1>2 DEF Inv, Queued
<1>4. Locked'
  BY <1>1, <1>2 DEF Inv, Locked, Owns
<1>5. At("data")' = At("data") /\ At("write")' = At("write") /\ At("failed")' = At("failed")
  BY <1>1, <1>2 DEF At
<1>6. InFlow'
  <2>1. CASE stopped \/ m_stream = "closed"
    BY <1>1, <2>1, FlowOver
  <2>2. CASE ~(stopped \/ m_stream = "closed")
    <3>1. PICK w \in Nat, t \in Nat : Flows(w, t)
      BY <2>2 DEF Inv, InFlow
    <3>2. Flows(w, t)'
      BY <1>1, <1>2, <1>5, <3>1 DEF Flows, Holds
    <3> QED
      BY <3>2 DEF InFlow
  <2> QED
    BY <2>1, <2>2
<1> QED
  BY <1>3, <1>4, <1>5, <1>6

(* What was reported stays so.                                             *)
LEMMA ReportKeeps ==
    ASSUME Inv, log' = log, jobs' = jobs, terminating => terminating',
           m_closeState = "CLOSED" => m_closeState' = "CLOSED"
    PROVE  Quiet' /\ ReportedOnce'
<1>1. Events' = Events
  BY DEF Events
<1> QED
  BY <1>1 DEF Inv, Quiet, ReportedOnce

(* The invariant in terms of the lemmas above.                             *)
LEMMA Reporting ==
    /\ ReportedOnce <=> Reports(Events, terminating)
    /\ Quiet <=> (m_closeState # "CLOSED" => Silent(Events))
BY DEF ReportedOnce, Reports, Quiet, Silent

(* The same of the next state.                                             *)
LEMMA ReportingNext ==
    /\ ReportedOnce' <=> Reports(log' \o jobs', terminating')
    /\ Quiet' <=> (m_closeState' # "CLOSED" => Silent(log' \o jobs'))
BY DEF ReportedOnce, Reports, Quiet, Silent, Events

(* An event that is not of the end is posted.                              *)
LEMMA EmitPlain ==
    ASSUME Inv, NEW x \in {"open", "message"}, jobs' = Emit(jobs, <<x>>), log' = log,
           terminating' = terminating, m_closeState' = m_closeState
    PROVE  jobs' \in Seq(Event) /\ Quiet' /\ ReportedOnce'
<1>1. CASE terminating
  BY <1>1, ReportKeeps DEF Emit, Inv, Typed, StateTyped, SendTyped
<1>2. CASE ~terminating
  <2>1. <<x>> \in Seq(Event) /\ jobs \in Seq(Event) /\ log \in Seq(Event) /\ terminating \in BOOLEAN
    BY DEF Event, Inv, Typed, StateTyped
  <2>2. jobs' = jobs \o <<x>>
    BY <1>2 DEF Emit
  <2>3. /\ Reports(log \o jobs, terminating)
        /\ m_closeState # "CLOSED" => Silent(log \o jobs)
    BY Reporting DEF Inv, Events
  <2>4. PICK e \in Seq(Event) : e = <<x>>
    BY <2>1
  <2>5. /\ jobs' \in Seq(Event) /\ Reports(log' \o jobs', terminating)
        /\ m_closeState # "CLOSED" => Silent(log' \o jobs')
    BY <2>1, <2>2, <2>3, <2>4, ReportsPost
  <2> QED
    BY <2>5, ReportingNext
<1> QED
  BY <1>1, <1>2

(* endConnect().                                                           *)
LEMMA EndConnectEnds ==
    ASSUME Inv, NEW e \in {Normal, Failure}, EndConnect(e), log' = log,
           UNCHANGED <<terminating, stopped>>, conn' \in {conn, "done"},
           m_stream # "none" \/ conn' = "done"
    PROVE  /\ m_closeState' = "CLOSED" /\ jobs' \in Seq(Event) /\ Quiet' /\ ReportedOnce'
           /\ m_stream' = m_stream \/ (m_stream = "open" /\ m_stream' = "closed")
           /\ Shut'
<1>0. m_closeState' = "CLOSED"
  BY DEF EndConnect
<1>s. Shut'
  <2>1. CASE m_closeState = "CLOSED"
    <3>1. m_stream' = m_stream
      BY <2>1 DEF EndConnect
    <3> QED
      BY <2>1, <3>1 DEF Inv, Pinned, Shut
  <2>2. CASE m_closeState # "CLOSED"
    <3>1. m_stream' = IF m_stream = "open" THEN "closed" ELSE m_stream
      BY <2>2 DEF EndConnect
    <3> QED
      BY <3>1 DEF Shut, Inv, Typed, StateTyped
  <2> QED
    BY <2>1, <2>2
<1>1. CASE m_closeState = "CLOSED" \/ terminating
  <2>1. jobs' = jobs /\ (m_stream' = m_stream \/ (m_stream = "open" /\ m_stream' = "closed"))
    BY <1>1 DEF EndConnect, Emit
  <2> QED
    BY <1>0, <1>s, <2>1, ReportKeeps DEF Inv, Typed, StateTyped, SendTyped
<1>2. CASE m_closeState # "CLOSED" /\ ~terminating
  <2>0. Normal \in Seq(Event) /\ Failure \in Seq(Event)
    BY DEF Event, Normal, Failure
  <2>1. e \in Seq(Event) /\ jobs \in Seq(Event) /\ log \in Seq(Event) /\ terminating \in BOOLEAN
    BY <2>0 DEF Inv, Typed, StateTyped, SendTyped
  <2>2. jobs' = jobs \o e /\ (m_stream' = m_stream \/ (m_stream = "open" /\ m_stream' = "closed"))
    BY <1>2 DEF EndConnect, Emit
  <2>3. jobs' \in Seq(Event) /\ log \o jobs \in Seq(Event)
    BY <2>1, <2>2, Joined
  <2>4. log' \o jobs' = (log \o jobs) \o e
    BY <2>1, <2>2, ConcatAssociative
  <2>5. Silent(log \o jobs)
    BY <1>2, Reporting DEF Inv, Events
  <2>6. Reports(log' \o jobs', terminating)
    BY <2>1, <2>3, <2>4, <2>5, ReportsEnd
  <2> QED
    BY <1>0, <1>s, <2>2, <2>3, <2>6, ReportingNext
<1> QED
  BY <1>1, <1>2

(* A step that leaves the asyncSends and the memory alone.                 *)
Moves ==
    /\ UNCHANGED <<role, sending, m_ioState, releasing, m_buffer, late>>
    /\ m_stream = "closed" => m_stream' = "closed"
    /\ gone => gone'
    /\ stopped => stopped'
    /\ Reading' <=> Reading
    /\ m_closeState' = "CLOSED" \/ (m_closeState' = m_closeState /\ (reader' \in Over => reader \in Over))

(* Such a step keeps what the asyncSends rely on.                          *)
LEMMA StillInv ==
    ASSUME Inv, Moves, StateTyped', Bounded', Pinned', Quiet', ReportedOnce'
    PROVE  Inv'
<1>1. /\ role' = role /\ sends' = sends /\ pc' = pc /\ m_lockEncode' = m_lockEncode
      /\ m_lockBuffer' = m_lockBuffer /\ m_lockSend' = m_lockSend /\ batch' = batch
      /\ wire' = wire /\ m_buffer' = m_buffer /\ m_ioState' = m_ioState
      /\ releasing' = releasing /\ late' = late
  BY DEF Moves, sending
<1>2. Sends' = Sends /\ Parts' = Parts
  BY <1>1 DEF Sends, Parts
<1>3. SendTyped'
  BY <1>1, <1>2 DEF Inv, Typed, SendTyped
<1>5. Queued' /\ Locked' /\ InFlow' /\ At("failed")' = At("failed")
  BY SendingKeeps DEF Broken, Moves
<1>6. Counted'
  BY <1>1, <1>5 DEF Inv, Counted, Moves
<1>7. Answered'
  <2>1. reader' \in Over /\ m_closeState' # "CLOSED" => reader \in Over /\ m_closeState # "CLOSED"
    BY DEF Moves
  <2> QED
    BY <1>1, <1>2, <2>1 DEF Inv, Answered
<1>8. Alone'
  <2>1. m_closeState = "CLOSED" => m_closeState' = "CLOSED"
    BY DEF Moves
  <2>2. Reading' <=> Reading
    BY DEF Moves
  <2>3. \A i \in Sends : AtWork(i)' <=> AtWork(i)
    BY <1>1 DEF AtWork
  <2> QED
    BY <1>1, <1>2, <1>5, <2>1, <2>2, <2>3 DEF Inv, Alone
<1> QED
  BY <1>3, <1>5, <1>6, <1>7, <1>8 DEF Inv, Typed

(* The peer is left alone.                                                 *)
LEMMA PeerKeeps ==
    ASSUME Inv, UNCHANGED <<role, sends, inbox, sent>>
    PROVE  Bounded'
BY DEF Inv, Bounded

(* A listener starts the reader, unless it runs.                           *)
LEMMA startRecvKeeps ==
    ASSUME Inv, startRecv, conn' \in {conn, "done"}, UNCHANGED <<m_stream, m_closeState, m_readyState>>,
           UNCHANGED <<sends, stopping, stopped, terminating>>
    PROVE  /\ reader' \in {"none", "recv", "end", "freed", "ended"} /\ m_holder' \in BOOLEAN
           /\ Reading' <=> Reading
           /\ reader' \in Over => reader \in Over
           /\ Pinned'
<1>1. CASE m_stream # "none" /\ reader = "none"
  <2>1. reader' = "recv" /\ m_holder' = TRUE
    BY <1>1 DEF startRecv
  <2> QED
    BY <1>1, <2>1 DEF Inv, Typed, StateTyped, Pinned, Shut, Reading, Over
<1>2. CASE ~(m_stream # "none" /\ reader = "none")
  <2>1. reader' = reader /\ m_holder' = m_holder
    BY <1>2 DEF startRecv
  <2> QED
    BY <2>1 DEF Inv, Typed, StateTyped, Pinned, Shut, Reading
<1> QED
  BY <1>1, <1>2

(* A listener is added.                                                    *)
LEMMA onEventChangeInv ==
    ASSUME Inv, onEventChange
    PROVE  Inv'
<1>1. /\ UNCHANGED <<role, sending, m_ioState, releasing, m_buffer, late, stopping, inbox, sent, gone, stopped, log>>
      /\ UNCHANGED <<m_readyState, m_closeState, m_stream, holding, terminating, conn, jobs>>
      /\ startRecv
  BY DEF onEventChange, state, peer, ending
<1>2. /\ reader' \in {"none", "recv", "end", "freed", "ended"} /\ m_holder' \in BOOLEAN
      /\ Reading' <=> Reading
      /\ reader' \in Over => reader \in Over
      /\ Pinned'
  BY <1>1, startRecvKeeps DEF sending
<1>3. StateTyped'
  BY <1>1, <1>2 DEF Inv, Typed, StateTyped
<1>4. Moves
  BY <1>1, <1>2 DEF Moves, Reading, Over
<1>5. Bounded'
  BY <1>1, PeerKeeps DEF sending
<1>6. Pinned'
  BY <1>2
<1>7. Quiet' /\ ReportedOnce'
  BY <1>1, ReportKeeps
<1> QED
  BY <1>3, <1>4, <1>5, <1>6, <1>7, StillInv

(* The handshake ends: the reader is started.                              *)
LEMMA ConnectRecvInv ==
    ASSUME Inv, ConnectRecv
    PROVE  Inv'
<1>1. /\ UNCHANGED <<role, sending, m_ioState, releasing, m_buffer, late, stopping, inbox, sent, gone, stopped, log>>
      /\ UNCHANGED <<m_readyState, m_closeState, m_stream, holding, terminating, jobs>>
      /\ conn' = "done" /\ startRecv
  BY DEF ConnectRecv, state, peer, ending
<1>2. /\ reader' \in {"none", "recv", "end", "freed", "ended"} /\ m_holder' \in BOOLEAN
      /\ Reading' <=> Reading
      /\ reader' \in Over => reader \in Over
      /\ Pinned'
  BY <1>1, startRecvKeeps DEF sending
<1>3. StateTyped'
  BY <1>1, <1>2 DEF Inv, Typed, StateTyped
<1>4. Moves
  BY <1>1, <1>2 DEF Moves, Reading, Over
<1>5. Bounded'
  BY <1>1, PeerKeeps DEF sending
<1>6. Pinned'
  BY <1>2
<1>7. Quiet' /\ ReportedOnce'
  BY <1>1, ReportKeeps
<1> QED
  BY <1>3, <1>4, <1>5, <1>6, <1>7, StillInv

(* The stream is taken over.                                               *)
LEMMA ConnectStreamInv ==
    ASSUME Inv, ConnectStream
    PROVE  Inv'
<1>1. /\ UNCHANGED <<role, sending, m_ioState, releasing, m_buffer, late, stopping, inbox, sent, gone, stopped, log>>
      /\ UNCHANGED <<m_readyState, m_closeState, m_holder, holding, terminating, jobs, reader>>
      /\ conn = "handshake" /\ conn' = "gotStream" /\ m_stream' = "open"
  BY DEF ConnectStream, memory, peer, ending
<1>2. m_stream = "none"
  BY <1>1 DEF Inv, Pinned
<1>3. StateTyped'
  BY <1>1, <1>2 DEF Inv, Typed, StateTyped
<1>4. Moves
  BY <1>1, <1>2 DEF Moves, Reading, Over
<1>5. Bounded'
  BY <1>1, PeerKeeps DEF sending
<1>6. Pinned'
  BY <1>1 DEF Inv, Pinned, Shut, sending
<1>7. Quiet' /\ ReportedOnce'
  BY <1>1, ReportKeeps
<1> QED
  BY <1>3, <1>4, <1>5, <1>6, <1>7, StillInv

(* The open event.                                                         *)
LEMMA ConnectOpenInv ==
    ASSUME Inv, ConnectOpen
    PROVE  Inv'
<1>1. /\ UNCHANGED <<role, sending, m_ioState, releasing, m_buffer, late, stopping, inbox, sent, gone, stopped, log>>
      /\ UNCHANGED <<m_closeState, m_stream, m_holder, holding, terminating, reader>>
      /\ m_readyState' = "OPEN" /\ jobs' = Emit(jobs, <<"open">>)
      /\ conn = "gotStream" /\ conn' = "opened"
  BY DEF ConnectOpen, memory, peer, ending
<1>2. jobs' \in Seq(Event) /\ Quiet' /\ ReportedOnce'
  BY <1>1, EmitPlain
<1>3. StateTyped'
  BY <1>1, <1>2 DEF Inv, Typed, StateTyped, States
<1>4. Moves
  BY <1>1, <1>2 DEF Moves, Reading, Over
<1>5. Bounded'
  BY <1>1, PeerKeeps DEF sending
<1>6. Pinned'
  BY <1>1 DEF Inv, Pinned, Shut, sending
<1>7. Quiet' /\ ReportedOnce'
  BY <1>2
<1> QED
  BY <1>3, <1>4, <1>5, <1>6, <1>7, StillInv

(* The handshake fails.                                                    *)
LEMMA ConnectFailsInv ==
    ASSUME Inv, ConnectFails
    PROVE  Inv'
<1>1. /\ UNCHANGED <<role, sending, m_ioState, releasing, m_buffer, late, stopping, inbox, sent, gone, stopped, log>>
      /\ UNCHANGED <<m_readyState, terminating, reader>>
      /\ m_holder' = FALSE /\ holding' = FALSE /\ conn = "handshake" /\ conn' = "done"
      /\ EndConnect(Failure)
  BY DEF ConnectFails, peer, memory, ending
<1>2. /\ m_closeState' = "CLOSED" /\ jobs' \in Seq(Event) /\ Quiet' /\ ReportedOnce'
      /\ m_stream' = m_stream \/ (m_stream = "open" /\ m_stream' = "closed")
      /\ Shut'
  BY <1>1, EndConnectEnds DEF Inv, Pinned
<1>3. StateTyped'
  BY <1>1, <1>2 DEF Inv, Typed, StateTyped, States
<1>4. Moves
  BY <1>1, <1>2 DEF Moves, Reading, Over
<1>5. Bounded'
  BY <1>1, PeerKeeps DEF sending
<1>6. Pinned'
  BY <1>1, <1>2 DEF Inv, Pinned, sending
<1>7. Quiet' /\ ReportedOnce'
  BY <1>2
<1> QED
  BY <1>3, <1>4, <1>5, <1>6, <1>7, StillInv

(* The stream ends.                                                        *)
LEMMA RecvFailsInv ==
    ASSUME Inv, RecvFails
    PROVE  Inv'
<1>1. /\ UNCHANGED <<role, sending, m_ioState, releasing, m_buffer, late, stopping, inbox, sent, gone, stopped, log>>
      /\ UNCHANGED <<m_readyState, m_holder, holding, terminating, conn>>
      /\ reader = "recv" /\ reader' = "end" /\ EndConnect(Failure)
  BY DEF RecvFails, memory, peer, ending
<1>2. /\ m_closeState' = "CLOSED" /\ jobs' \in Seq(Event) /\ Quiet' /\ ReportedOnce'
      /\ m_stream' = m_stream \/ (m_stream = "open" /\ m_stream' = "closed")
      /\ Shut'
  BY <1>1, EndConnectEnds DEF Inv, Pinned
<1>3. StateTyped'
  BY <1>1, <1>2 DEF Inv, Typed, StateTyped, States
<1>4. Moves
  BY <1>1, <1>2 DEF Moves, Reading, Over
<1>5. Bounded'
  BY <1>1, PeerKeeps DEF sending
<1>6. Pinned'
  BY <1>1, <1>2 DEF Inv, Pinned, sending
<1>7. Quiet' /\ ReportedOnce'
  BY <1>2
<1> QED
  BY <1>3, <1>4, <1>5, <1>6, <1>7, StillInv

(* A frame of the peer is read.                                            *)
LEMMA Received ==
    ASSUME Inv, inbox # << >>, inbox' = Tail(inbox), sent' = sent, role' = role
    PROVE  /\ inbox' \in Seq(Incoming) /\ From("peer", sends) + 1 + Len(inbox') <= sent
           /\ sends' = sends => Bounded'
<1>1. inbox' \in Seq(Incoming) /\ Len(inbox) \in Nat /\ Len(inbox') = Len(inbox) - 1
  BY Rest DEF Inv, Typed, StateTyped
<1>2. From("peer", sends) \in Nat /\ sent \in Nat
  BY FromType, Numbers DEF Inv, Typed, SendTyped
<1>3. From("peer", sends) + Len(inbox) <= sent
  BY DEF Inv, Bounded
<1>4. From("peer", sends) + 1 + Len(inbox') <= sent /\ From("peer", sends) + Len(inbox') <= sent
  BY <1>1, <1>2, <1>3
<1> QED
  BY <1>1, <1>4 DEF Inv, Bounded

(* A frame that ends the reader.                                           *)
LEMMA EventFailsInv ==
    ASSUME Inv, EventFails
    PROVE  Inv'
<1>1. /\ UNCHANGED <<role, sending, m_ioState, releasing, m_buffer, late, stopping, sent, gone, stopped, log>>
      /\ UNCHANGED <<m_readyState, m_holder, holding, terminating, conn>>
      /\ reader = "recv" /\ reader' = "end" /\ EndConnect(Failure)
      /\ inbox # << >> /\ inbox' = Tail(inbox)
  BY DEF EventFails, Receives, memory, ending
<1>r. inbox' \in Seq(Incoming) /\ Bounded'
  BY <1>1, Received DEF sending
<1>2. /\ m_closeState' = "CLOSED" /\ jobs' \in Seq(Event) /\ Quiet' /\ ReportedOnce'
      /\ m_stream' = m_stream \/ (m_stream = "open" /\ m_stream' = "closed")
      /\ Shut'
  BY <1>1, EndConnectEnds DEF Inv, Pinned
<1>3. StateTyped'
  BY <1>1, <1>2, <1>r DEF Inv, Typed, StateTyped, States
<1>4. Moves
  BY <1>1, <1>2, <1>r DEF Moves, Reading, Over
<1>5. Bounded'
  BY <1>r
<1>6. Pinned'
  BY <1>1, <1>2 DEF Inv, Pinned, sending
<1>7. Quiet' /\ ReportedOnce'
  BY <1>2
<1> QED
  BY <1>3, <1>4, <1>5, <1>6, <1>7, StillInv

(* A message.                                                              *)
LEMMA EventTextInv ==
    ASSUME Inv, EventText
    PROVE  Inv'
<1>1. /\ UNCHANGED <<role, sending, m_ioState, releasing, m_buffer, late, stopping, sent, gone, stopped, log>>
      /\ UNCHANGED <<m_readyState, m_closeState, m_stream, m_holder, holding, terminating, conn, reader>>
      /\ inbox # << >> /\ inbox' = Tail(inbox) /\ jobs' = Emit(jobs, <<"message">>)
  BY DEF EventText, Receives, memory, state, ending
<1>r. inbox' \in Seq(Incoming) /\ Bounded'
  BY <1>1, Received DEF sending
<1>2. jobs' \in Seq(Event) /\ Quiet' /\ ReportedOnce'
  BY <1>1, EmitPlain
<1>3. StateTyped'
  BY <1>1, <1>2, <1>r DEF Inv, Typed, StateTyped
<1>4. Moves
  BY <1>1, <1>2, <1>r DEF Moves, Reading, Over
<1>5. Bounded'
  BY <1>r
<1>6. Pinned'
  BY <1>1 DEF Inv, Pinned, Shut, sending
<1>7. Quiet' /\ ReportedOnce'
  BY <1>2
<1> QED
  BY <1>3, <1>4, <1>5, <1>6, <1>7, StillInv

(* The peer sends a frame.                                                 *)
LEMMA PeerSendsInv ==
    ASSUME Inv, PeerSends
    PROVE  Inv'
<1>1. /\ UNCHANGED <<role, sending, m_ioState, releasing, m_buffer, late, stopping, gone, stopped, log, jobs, m_holder, holding>>
      /\ UNCHANGED <<m_readyState, m_closeState, m_stream, terminating, conn, reader>>
      /\ sent < MaxFrames /\ sent' = sent + 1
      /\ \E f \in Incoming : inbox' = Append(inbox, f)
  BY DEF PeerSends, memory, state, ending
<1>2. inbox' \in Seq(Incoming) /\ Len(inbox) \in Nat /\ Len(inbox') = Len(inbox) + 1
  BY <1>1, Appended DEF Inv, Typed, StateTyped
<1>r. sent' \in 0..MaxFrames /\ Bounded'
  <2>1. From("peer", sends) \in Nat /\ sent \in Nat /\ MaxFrames \in Nat
    BY FromType, Numbers DEF Inv, Typed, SendTyped
  <2>2. From("peer", sends) + Len(inbox) <= sent
    BY DEF Inv, Bounded
  <2>3. sent' \in 0..MaxFrames /\ From("peer", sends) + Len(inbox') <= sent'
    BY <2>1, <2>2, <1>1, <1>2
  <2>4. sends' = sends
    BY <1>1 DEF sending
  <2> QED
    BY <2>3, <2>4, <1>1 DEF Inv, Bounded
<1>3. StateTyped'
  BY <1>1, <1>2, <1>r DEF Inv, Typed, StateTyped
<1>4. Moves
  BY <1>1, <1>2, <1>r DEF Moves, Reading, Over
<1>5. Bounded'
  BY <1>r
<1>6. Pinned'
  BY <1>1 DEF Inv, Pinned, Shut, sending
<1>7. Quiet' /\ ReportedOnce'
  BY <1>1, ReportKeeps
<1> QED
  BY <1>3, <1>4, <1>5, <1>6, <1>7, StillInv

(* The connection is lost.                                                 *)
LEMMA PeerDropsInv ==
    ASSUME Inv, PeerDrops
    PROVE  Inv'
<1>1. /\ UNCHANGED <<role, sending, m_ioState, releasing, m_buffer, late, stopping, inbox, sent, stopped, log, jobs, m_holder, holding>>
      /\ UNCHANGED <<m_readyState, m_closeState, m_stream, terminating, conn, reader>>
      /\ gone' = TRUE
  BY DEF PeerDrops, memory, state, ending
<1>3. StateTyped'
  BY <1>1 DEF Inv, Typed, StateTyped
<1>4. Moves
  BY <1>1 DEF Moves, Reading, Over
<1>5. Bounded'
  BY <1>1, PeerKeeps DEF sending
<1>6. Pinned'
  BY <1>1 DEF Inv, Pinned, Shut, sending
<1>7. Quiet' /\ ReportedOnce'
  BY <1>1, ReportKeeps
<1> QED
  BY <1>3, <1>4, <1>5, <1>6, <1>7, StillInv

(* The isolate is asked to terminate.                                      *)
LEMMA requestTerminateInv ==
    ASSUME Inv, requestTerminate
    PROVE  Inv'
<1>1. /\ UNCHANGED <<role, sending, m_ioState, releasing, m_buffer, late, inbox, sent, gone, log, jobs>>
      /\ UNCHANGED <<m_readyState, m_closeState, m_stream, m_holder, holding, conn, reader, stopped>>
      /\ ~terminating /\ terminating' = TRUE /\ stopping' = TRUE
  BY DEF requestTerminate, memory, peer, state
<1>2. stopped = FALSE
  BY <1>1 DEF Inv, Pinned, Typed, StateTyped
<1>3. StateTyped'
  BY <1>1 DEF Inv, Typed, StateTyped
<1>4. Moves
  BY <1>1 DEF Moves, Reading, Over
<1>5. Bounded'
  BY <1>1, PeerKeeps DEF sending
<1>6. Pinned'
  BY <1>1, <1>2 DEF Inv, Pinned, Shut, sending
<1>7. Quiet' /\ ReportedOnce'
  BY <1>1, ReportKeeps
<1> QED
  BY <1>3, <1>4, <1>5, <1>6, <1>7, StillInv

(* The object is stopped.                                                  *)
LEMMA stopInv ==
    ASSUME Inv, stop
    PROVE  Inv'
<1>1. /\ UNCHANGED <<role, sending, m_ioState, releasing, m_buffer, late, inbox, sent, gone, log, jobs>>
      /\ UNCHANGED <<m_holder, holding, conn, reader, terminating>> /\ stopping = TRUE /\ stopping' = FALSE
      /\ m_stream' = m_stream \/ (m_stream = "open" /\ m_stream' = "closed")
      /\ m_readyState' \in {m_readyState, "CLOSED"} /\ m_closeState' \in {m_closeState, "CLOSED"}
  BY DEF stop, memory, peer, Inv, Typed, StateTyped
<1>2. ~stopped /\ terminating
  BY <1>1 DEF Inv, Pinned
<1>3. stopped' \in BOOLEAN /\ Shut'
  <2>1. CASE holding
    <3>1. /\ stopped' = (m_stream = "none") /\ m_closeState' = "CLOSED"
          /\ m_stream' = IF m_closeState # "CLOSED" /\ m_stream = "open" THEN "closed" ELSE m_stream
      BY <2>1 DEF stop
    <3> QED
      BY <1>1, <1>2, <3>1 DEF Inv, Pinned, Shut, Typed, StateTyped
  <2>2. CASE ~holding
    <3>1. UNCHANGED <<m_closeState, m_stream, stopped>>
      BY <2>2 DEF stop
    <3> QED
      BY <1>1, <3>1 DEF Inv, Pinned, Shut, Typed, StateTyped
  <2> QED
    BY <2>1, <2>2
<1>4. StateTyped'
  <2>1. m_readyState' \in States /\ m_closeState' \in States \ {"CONNECTING"}
    BY <1>1 DEF Inv, Typed, StateTyped, States
  <2>2. m_stream' \in {"none", "open", "closed"}
    BY <1>1 DEF Inv, Typed, StateTyped
  <2> QED
    BY <1>1, <1>3, <2>1, <2>2 DEF Inv, Typed, StateTyped
<1>5. Moves
  BY <1>1, <1>2 DEF Moves, Reading, Over
<1>6. Bounded'
  BY <1>1, PeerKeeps DEF sending
<1>7. Pinned'
  BY <1>1, <1>2, <1>3 DEF Inv, Pinned, sending
<1>8. Quiet' /\ ReportedOnce'
  BY <1>1, <1>2, ReportKeeps
<1> QED
  BY <1>4, <1>5, <1>6, <1>7, <1>8, StillInv

(* An event is run.                                                        *)
LEMMA onEventEmitInv ==
    ASSUME Inv, onEventEmit
    PROVE  Inv'
<1>1. /\ UNCHANGED <<role, sending, m_ioState, releasing, m_buffer, late, stopping, inbox, sent, gone, stopped, m_holder, holding>>
      /\ UNCHANGED <<conn, reader, terminating, m_closeState, m_stream>>
      /\ jobs # << >> /\ jobs' = Tail(jobs)
      /\ log' = IF terminating \/ ~Final(Head(jobs)) THEN log ELSE Append(log, Head(jobs))
      /\ m_readyState' \in {m_readyState, "CLOSED"}
  BY DEF onEventEmit, memory, peer, ending
<1>0. jobs \in Seq(Event) /\ log \in Seq(Event) /\ terminating \in BOOLEAN
  BY DEF Inv, Typed, StateTyped
<1>r. /\ Reports(log \o jobs, terminating)
      /\ m_closeState # "CLOSED" => Silent(log \o jobs)
  BY Reporting DEF Inv, Events
<1>2. /\ jobs' \in Seq(Event) /\ log' \in Seq(Event)
      /\ Quiet' /\ ReportedOnce'
  <2>1. Head(jobs) \in Event /\ jobs' \in Seq(Event)
    BY <1>0, <1>1, Rest
  <2>2. CASE terminating \/ ~Final(Head(jobs))
    <3>1. log' = log
      BY <1>1, <2>2
    <3>2. /\ Reports(log \o Tail(jobs), terminating)
          /\ m_closeState # "CLOSED" => Silent(log \o Tail(jobs))
      BY <1>0, <1>1, <1>r, <2>2, ReportsDrop
    <3>3. /\ Reports(log' \o jobs', terminating')
          /\ m_closeState' # "CLOSED" => Silent(log' \o jobs')
      BY <1>1, <3>1, <3>2
    <3> QED
      BY <1>0, <2>1, <3>1, <3>3, ReportingNext
  <2>3. CASE ~(terminating \/ ~Final(Head(jobs)))
    <3>1. log' = Append(log, Head(jobs))
      BY <1>1, <2>3
    <3>2. log' \in Seq(Event)
      BY <1>0, <2>1, <3>1, Appended
    <3>3. log' \o jobs' = log \o jobs
      BY <1>0, <1>1, <3>1, ReportsRun
    <3>4. /\ Reports(log' \o jobs', terminating')
          /\ m_closeState' # "CLOSED" => Silent(log' \o jobs')
      BY <1>1, <1>r, <3>3
    <3> QED
      BY <2>1, <3>2, <3>4, ReportingNext
  <2> QED
    BY <2>2, <2>3
<1>3. StateTyped'
  BY <1>1, <1>2 DEF Inv, Typed, StateTyped, States
<1>4. Moves
  BY <1>1, <1>2 DEF Moves, Reading, Over
<1>5. Bounded'
  BY <1>1, PeerKeeps DEF sending
<1>6. Pinned'
  BY <1>1 DEF Inv, Pinned, Shut, sending
<1>7. Quiet' /\ ReportedOnce'
  BY <1>2
<1> QED
  BY <1>3, <1>4, <1>5, <1>6, <1>7, StillInv

-----------------------------------------------------------------------------
(* The memory and the asyncSends.                                          *)

(* When nobody is counted, nobody is at work: p are the places of n          *)
(* asyncSends, e of them in m_lockEncode and d in m_lockSend.               *)
LEMMA Idle ==
    ASSUME NEW S \in SUBSET Nat, NEW p, NEW n \in Nat, NEW e \in Nat, NEW d \in Nat,
           \A i \in S : p[i] = "none" <=> i <= n - e - d \/ n < i,
           \A i \in S : p[i] = "failed" => i = n - e + 1 /\ i <= n,
           e + d = IF \E i \in S : p[i] = "failed" THEN 1 ELSE 0
    PROVE  \A i \in S : p[i] \in {"none", "failed"}
<1>1. CASE \E j \in S : p[j] = "failed"
  <2>1. PICK j \in S : p[j] = "failed"
    BY <1>1
  <2>2. j = n - e + 1 /\ j <= n /\ j \in Nat /\ e + d = 1
    BY <1>1, <2>1
  <2>3. e = 1 /\ d = 0 /\ j = n
    BY <2>2
  <2>4. ASSUME NEW i \in S, p[i] # "none" PROVE i = j
    <3>1. i \in Nat /\ ~(i <= n - e - d \/ n < i)
      BY <2>4
    <3> QED
      BY <2>3, <3>1
  <2> QED
    BY <2>1, <2>4
<1>2. CASE ~\E j \in S : p[j] = "failed"
  <2>1. e + d = 0
    BY <1>2
  <2>2. e = 0 /\ d = 0
    BY <2>1
  <2>3. ASSUME NEW i \in S PROVE i <= n - e - d \/ n < i
    BY <2>2
  <2> QED
    BY <2>3
<1> QED
  BY <1>1, <1>2

(* The count is zero: nobody is at work and the reader is over.            *)
LEMMA ZeroIdle ==
    ASSUME Typed, Queued, Counted, m_ioState = 0
    PROVE  ~Reading /\ \A i \in Sends : ~AtWork(i)
<1> DEFINE e == Len(m_lockEncode)
           d == Len(m_lockSend)
           n == Len(sends)
<1>1. n \in Nat /\ e \in Nat /\ d \in Nat
  BY LenProperties DEF Typed, SendTyped
<1>2. Sends \in SUBSET Nat
  BY BoundAssumption DEF Typed, SendTyped, Sends
<1>3. /\ \A i \in Sends : pc[i] = "none" <=> i <= n - e - d \/ n < i
      /\ \A i \in Sends : pc[i] = "failed" => i = n - e + 1 /\ i <= n
  BY DEF Queued, Ended, Encoded, Encoding
<1>4. (IF At("failed") THEN 1 ELSE 0) = e + d + (IF Reading THEN 1 ELSE 0)
  BY DEF Counted
<1>5. At("failed") => e >= 1
  <2>1. ASSUME NEW i \in Sends, pc[i] = "failed" PROVE e >= 1
    <3>1. i = n - e + 1 /\ i <= n
      BY <1>3, <2>1
    <3> HIDE DEF e, n
    <3> QED
      BY <1>1, <3>1
  <2> QED
    BY <2>1 DEF At
<1> HIDE DEF e, d, n
<1>6. ~Reading /\ e + d = IF At("failed") THEN 1 ELSE 0
  BY <1>1, <1>4, <1>5
<1>7. e + d = IF \E i \in Sends : pc[i] = "failed" THEN 1 ELSE 0
  BY <1>6 DEF At
<1>8. \A i \in Sends : pc[i] \in {"none", "failed"}
  BY <1>1, <1>2, <1>3, <1>7, Idle
<1> QED
  BY <1>6, <1>8 DEF AtWork

(* The same of the next state.                                             *)
LEMMA ZeroIdleNext ==
    ASSUME Typed', Queued', Counted', m_ioState' = 0
    PROVE  ~Reading' /\ \A i \in Sends' : ~AtWork(i)'
<1> DEFINE e == Len(m_lockEncode')
           d == Len(m_lockSend')
           n == Len(sends')
<1>1. n \in Nat /\ e \in Nat /\ d \in Nat
  BY LenProperties DEF Typed, SendTyped
<1>2. Sends' \in SUBSET Nat
  BY BoundAssumption DEF Typed, SendTyped, Sends
<1>3. /\ \A i \in Sends' : pc'[i] = "none" <=> i <= n - e - d \/ n < i
      /\ \A i \in Sends' : pc'[i] = "failed" => i = n - e + 1 /\ i <= n
  BY DEF Queued, Ended, Encoded, Encoding
<1>4. (IF At("failed")' THEN 1 ELSE 0) = e + d + (IF Reading' THEN 1 ELSE 0)
  BY DEF Counted
<1>5. At("failed")' => e >= 1
  <2>1. ASSUME NEW i \in Sends', pc'[i] = "failed" PROVE e >= 1
    <3>1. i = n - e + 1 /\ i <= n
      BY <1>3, <2>1
    <3> HIDE DEF e, n
    <3> QED
      BY <1>1, <3>1
  <2> QED
    BY <2>1 DEF At
<1> HIDE DEF e, d, n
<1>6. ~Reading' /\ e + d = IF At("failed")' THEN 1 ELSE 0
  BY <1>1, <1>4, <1>5
<1>7. e + d = IF \E i \in Sends' : pc'[i] = "failed" THEN 1 ELSE 0
  BY <1>6 DEF At
<1>8. \A i \in Sends' : pc'[i] \in {"none", "failed"}
  BY <1>1, <1>2, <1>3, <1>7, Idle
<1> QED
  BY <1>6, <1>8 DEF AtWork

(* Nobody is at work and the reader is over: the connection is closed.      *)
LEMMA IdleClosed ==
    ASSUME Answered', ~Reading', \A i \in Sends' : ~AtWork(i)',
           At("failed")' => m_closeState' = "CLOSED"
    PROVE  m_closeState' = "CLOSED"
<1> SUFFICES ASSUME m_closeState' # "CLOSED" PROVE FALSE
  OBVIOUS
<1>1. PICK i \in Sends' : pc'[i] # "none"
  BY DEF Answered, Reading, Over
<1>2. pc'[i] = "failed"
  BY <1>1 DEF AtWork
<1> QED
  BY <1>2 DEF At

(* free_mem(): what the rest relies on when a user counts itself out.       *)
LEMMA FreedAlone ==
    ASSUME Inv, NEW u \in Sends \cup {Reader}, free_mem(u), UNCHANGED <<role, sends>>,
           Typed', Queued', Counted', Answered',
           m_closeState = "CLOSED" => m_closeState' = "CLOSED",
           At("failed")' => m_closeState' = "CLOSED",
           Reading' => Reading, \A i \in Sends : AtWork(i)' => AtWork(i)
    PROVE  Alone'
<1>1. late' = late /\ releasing' = IF m_ioState' = 0 THEN releasing \cup {u} ELSE releasing
  BY DEF free_mem
<1>2. Sends' = Sends
  BY DEF Sends
<1>3. ASSUME m_ioState' = 0
      PROVE  m_closeState' = "CLOSED" /\ ~Reading' /\ \A i \in Sends : ~AtWork(i)'
  <2>1. ~Reading' /\ \A i \in Sends' : ~AtWork(i)'
    BY <1>3, ZeroIdleNext
  <2>2. m_closeState' = "CLOSED"
    BY <2>1, IdleClosed
  <2> QED
    BY <1>2, <2>1, <2>2
<1>4. ASSUME releasing' # {}
      PROVE  m_closeState' = "CLOSED" /\ ~Reading' /\ \A i \in Sends : AtWork(i)' => i \in late
  <2>1. CASE m_ioState' = 0
    BY <1>3, <2>1
  <2>2. CASE m_ioState' # 0
    <3>1. releasing # {}
      BY <1>1, <1>4, <2>2
    <3> QED
      BY <3>1 DEF Inv, Alone
  <2> QED
    BY <2>1, <2>2
<1>5. \A i \in late' : i <= Len(sends') /\ sends'[i].from = "js"
  BY <1>1 DEF Inv, Alone
<1> QED
  BY <1>1, <1>2, <1>4, <1>5 DEF Alone

(* The reader counts itself out.                                           *)
LEMMA ReaderEndsInv ==
    ASSUME Inv, ReaderEnds
    PROVE  Inv'
<1>1. /\ UNCHANGED <<role, sending, inbox, sent, gone, log, jobs, m_holder, m_buffer, late>>
      /\ UNCHANGED <<m_readyState, m_closeState, m_stream, holding, terminating, stopping, stopped, conn>>
      /\ reader = "end" /\ reader' = "freed" /\ free_mem(Reader)
      /\ m_ioState' = m_ioState - 1
      /\ releasing' = IF m_ioState' = 0 THEN releasing \cup {Reader} ELSE releasing
  BY DEF ReaderEnds, peer, state, ending, free_mem
<1>2. /\ role' = role /\ sends' = sends /\ pc' = pc /\ m_lockEncode' = m_lockEncode
      /\ m_lockBuffer' = m_lockBuffer /\ m_lockSend' = m_lockSend /\ batch' = batch
      /\ wire' = wire
  BY <1>1 DEF sending
<1>3. Sends' = Sends /\ Parts' = Parts
  BY <1>2 DEF Sends, Parts
<1>4. Queued' /\ Locked' /\ InFlow' /\ At("failed")' = At("failed")
  BY <1>1, <1>2, SendingKeeps DEF Broken
<1>5. Reading /\ ~Reading'
  BY <1>1 DEF Reading
<1>6. Counted' /\ m_ioState' \in Nat
  <2> DEFINE f == IF At("failed") THEN 1 ELSE 0
  <2>1. m_ioState + f = Len(m_lockEncode) + Len(m_lockSend) + 1 /\ f \in 0..1
    BY <1>5 DEF Inv, Counted
  <2>2. f = 1 => Len(m_lockEncode) >= 1
    <3>1. ASSUME NEW i \in Sends, pc[i] = "failed" PROVE Len(m_lockEncode) >= 1
      <4>1. Encoded < i /\ i <= Len(sends)
        BY <3>1 DEF Inv, Queued, Encoding
      <4>2. i \in Nat
        BY Numbers
      <4> QED
        BY <4>1, <4>2, Numbers
    <3> QED
      BY <3>1 DEF At
  <2> HIDE DEF f
  <2>4. PICK x \in Nat, y \in Nat : x = Len(m_lockEncode) /\ y = Len(m_lockSend)
    BY Numbers
  <2>5. m_ioState \in Nat /\ m_ioState' = m_ioState - 1
    BY <1>1 DEF Inv, Typed, SendTyped
  <2>6. m_ioState + f = x + y + 1 /\ f \in 0..1 /\ (f = 1 => x >= 1)
    BY <2>1, <2>2, <2>4
  <2>7. m_ioState' + f = x + y + 0 /\ m_ioState' \in Nat
    BY <2>5, <2>6
  <2>3. m_ioState' + f = Len(m_lockEncode) + Len(m_lockSend) + 0 /\ m_ioState' \in Nat
    BY <2>4, <2>7
  <2> QED
    BY <1>2, <1>4, <1>5, <2>3 DEF Counted, f
<1>7. SendTyped'
  <2>1. releasing' \subseteq Sends \cup {Reader}
    BY <1>1 DEF Inv, Typed, SendTyped
  <2> QED
    BY <1>1, <1>2, <1>3, <1>6, <2>1 DEF Inv, Typed, SendTyped, Reader
<1>8. StateTyped' /\ Pinned'
  BY <1>1, <1>2 DEF Inv, Typed, StateTyped, Pinned, Shut
<1>9. Bounded'
  BY <1>1, <1>2, PeerKeeps
<1>10. Answered'
  BY <1>1, <1>2, <1>3 DEF Inv, Answered, Over
<1>11. Alone'
  <2>1. \A i \in Sends : AtWork(i)' <=> AtWork(i)
    BY <1>2 DEF AtWork
  <2>2. At("failed")' => m_closeState' = "CLOSED"
    BY <1>1, <1>4 DEF Inv, Alone
  <2> QED
    BY <1>1, <1>2, <1>4, <1>5, <1>6, <1>7, <1>8, <1>10, <2>1, <2>2, FreedAlone DEF Typed
<1>12. Quiet' /\ ReportedOnce'
  BY <1>1, ReportKeeps
<1> QED
  BY <1>4, <1>6, <1>7, <1>8, <1>9, <1>10, <1>11, <1>12 DEF Inv, Typed

(* The reader lets go of the isolate.                                      *)
LEMMA ReaderUnrefInv ==
    ASSUME Inv, ReaderUnref
    PROVE  Inv'
<1>1. /\ UNCHANGED <<role, sending, m_ioState, releasing, m_buffer, late, inbox, sent, gone, log, jobs>>
      /\ UNCHANGED <<m_readyState, m_closeState, m_stream, m_holder, terminating, stopping, stopped, conn>>
      /\ reader = "freed" /\ reader' = "ended" /\ holding' = FALSE
  BY DEF ReaderUnref, memory, peer, ending
<1>2. StateTyped'
  BY <1>1 DEF Inv, Typed, StateTyped
<1>3. Moves
  BY <1>1 DEF Moves, Reading, Over
<1>4. Bounded'
  BY <1>1, PeerKeeps DEF sending
<1>5. Pinned'
  BY <1>1 DEF Inv, Pinned, Shut, sending
<1>6. Quiet' /\ ReportedOnce'
  BY <1>1, ReportKeeps
<1> QED
  BY <1>2, <1>3, <1>4, <1>5, <1>6, StillInv

(* A stream that is closed with the connection, or left by stop().          *)
LEMMA ShutAlone ==
    ASSUME Inv, m_closeState = "CLOSED", ~Reading \/ sends # << >>
    PROVE  stopped \/ m_stream = "closed"
BY DEF Inv, Pinned, Shut, Reading

(* The memory is released.                                                 *)
LEMMA ReleaseInv ==
    ASSUME Inv, NEW u \in Sends \cup {Reader}, Release(u)
    PROVE  Inv'
<1>1. /\ UNCHANGED <<role, sending, m_ioState, late, inbox, sent, gone, log, jobs>>
      /\ UNCHANGED <<m_readyState, m_closeState, m_stream, terminating, stopping, stopped, conn>>
      /\ UNCHANGED <<holding, reader>>
      /\ u \in releasing /\ releasing' = releasing \ {u} /\ m_buffer' = << >> /\ m_holder' = FALSE
  BY DEF Release, peer, ending, state
<1>2. /\ role' = role /\ sends' = sends /\ pc' = pc /\ m_lockEncode' = m_lockEncode
      /\ m_lockBuffer' = m_lockBuffer /\ m_lockSend' = m_lockSend /\ batch' = batch
      /\ wire' = wire
  BY <1>1 DEF sending
<1>3. Sends' = Sends /\ Parts' = Parts /\ Encoded' = Encoded /\ Ended' = Ended
  BY <1>2 DEF Sends, Parts, Encoded, Ended
<1>4. m_closeState = "CLOSED" /\ ~Reading
  BY <1>1 DEF Inv, Alone
<1>5. InFlow'
  <2>1. stopped \/ m_stream = "closed"
    BY <1>4, ShutAlone
  <2> QED
    BY <1>1, <1>2, <2>1, FlowOver
<1>6. Queued' /\ Locked'
  <2>1. Queued'
    BY <1>2, <1>3 DEF Inv, Queued
  <2>2. Locked'
    BY <1>2, <1>3 DEF Inv, Locked, Owns
  <2> QED
    BY <2>1, <2>2
<1>7. SendTyped'
  BY <1>1, <1>2, <1>3, EmptySeq DEF Inv, Typed, SendTyped
<1>8. StateTyped' /\ Pinned'
  BY <1>1, <1>2, <1>4 DEF Inv, Typed, StateTyped, Pinned, Shut, Reading
<1>9. Bounded'
  BY <1>1, <1>2, PeerKeeps
<1>10. At("failed")' = At("failed") /\ Reading' = Reading
  BY <1>1, <1>2, <1>3 DEF At, Reading
<1>11. Counted'
  BY <1>1, <1>2, <1>10 DEF Inv, Counted
<1>12. Answered'
  BY <1>1, <1>2, <1>3 DEF Inv, Answered
<1>13. Alone'
  <2>1. \A i \in Sends : AtWork(i)' <=> AtWork(i)
    BY <1>2 DEF AtWork
  <2> QED
    BY <1>1, <1>2, <1>3, <1>10, <2>1 DEF Inv, Alone
<1>14. Quiet' /\ ReportedOnce'
  BY <1>1, ReportKeeps
<1> QED
  BY <1>5, <1>6, <1>7, <1>8, <1>9, <1>11, <1>12, <1>13, <1>14 DEF Inv, Typed

(* A new asyncSend is the last in the queue.                               *)
LEMMA NewSendKeeps ==
    ASSUME Inv, NEW from \in {"js", "peer"}, NEW type \in {"text", "pong", "close"},
           NewSend(from, type), Len(sends) + 1 \in Sends, Broken => Broken',
           stopped => stopped', m_stream = "closed" => m_stream' = "closed",
           UNCHANGED <<role, m_lockBuffer, m_lockSend, batch, wire>>
    PROVE  /\ SendTyped' /\ Queued' /\ Locked' /\ InFlow'
           /\ At("failed")' = At("failed")
           /\ m_ioState' + (IF At("failed") THEN 1 ELSE 0)
                = Len(m_lockEncode') + Len(m_lockSend') + (IF Reading THEN 1 ELSE 0)
           /\ sends' = Append(sends, [from |-> from, type |-> type])
           /\ Len(sends') = Len(sends) + 1
           /\ \A i \in 1..Len(sends) : sends'[i] = sends[i]
           /\ \A i \in Sends : i # Len(sends) + 1 => pc'[i] = pc[i]
           /\ late' = IF m_ioState = 0 \/ releasing # {} THEN late \cup {Len(sends) + 1} ELSE late
           /\ pc'[Len(sends) + 1] = "encode" /\ sends'[Len(sends) + 1] = [from |-> from, type |-> type]
           /\ \A i \in Sends : pc[i] # "none" => pc'[i] = pc[i] /\ sends'[i] = sends[i]
<1> DEFINE n == Len(sends) + 1
           f == [from |-> from, type |-> type]
<1>0. /\ sends \in Seq(Frame) /\ pc \in [Sends -> Labels] /\ m_lockEncode \in Seq(Sends)
      /\ role \in Roles
  BY DEF Inv, Typed, SendTyped, Labels, Working
<1>1. f \in Frame
  BY DEF Frame
<1>2. /\ sends' = Append(sends, f) /\ Len(sends') = n /\ sends' \in Seq(Frame) /\ sends'[n] = f
      /\ \A i \in 1..Len(sends) : sends'[i] = sends[i]
  <2>1. sends' = Append(sends, f)
    BY DEF NewSend, Posted
  <2> QED
    BY <1>0, <1>1, <2>1, Appended
<1>3. /\ pc' = [pc EXCEPT ![n] = "encode"] /\ m_lockEncode' = Append(m_lockEncode, n)
      /\ m_ioState' = m_ioState + 1 /\ releasing' = releasing /\ m_buffer' = m_buffer
      /\ late' = IF m_ioState = 0 \/ releasing # {} THEN late \cup {n} ELSE late
  BY <1>2 DEF NewSend, Posted
<1>4. n \in Sends /\ Sends' = Sends /\ Parts' = Parts
  BY DEF Sends, Parts
<1>5. /\ m_lockEncode' \in Seq(Sends) /\ Len(m_lockEncode') = Len(m_lockEncode) + 1
      /\ m_lockEncode'[Len(m_lockEncode) + 1] = n
      /\ \A i \in 1..Len(m_lockEncode) : m_lockEncode'[i] = m_lockEncode[i]
  BY <1>0, <1>3, <1>4, Appended
<1>6. /\ pc' \in [Sends -> Labels] /\ pc'[n] = "encode" /\ \A i \in Sends : i # n => pc'[i] = pc[i]
  <2>1. "encode" \in Labels
    BY DEF Labels, Working
  <2> QED
    BY <1>0, <1>3, <1>4, <2>1
<1>7. SendTyped'
  <2>1. m_ioState' \in Nat
    BY <1>3 DEF Inv, Typed, SendTyped
  <2>2. releasing' \subseteq Sends \cup {Reader} /\ late' \subseteq Sends
    BY <1>3, <1>4 DEF Inv, Typed, SendTyped
  <2>3. m_buffer' \in Seq(Parts)
    BY <1>3 DEF Inv, Typed, SendTyped
  <2> QED
    BY <1>2, <1>4, <1>5, <1>6, <2>1, <2>2, <2>3 DEF Inv, Typed, SendTyped, Labels, Working
<1>8. Len(m_lockSend') = Len(m_lockSend) /\ Encoded' = Encoded /\ Ended' = Ended
  <2>1. Encoded' = n - (Len(m_lockEncode) + 1)
    BY <1>2, <1>5 DEF Encoded
  <2>2. Encoded' = Encoded
    BY <2>1, Numbers
  <2> QED
    BY <2>2 DEF Ended
<1>p. pc[n] = "none"
  <2>1. Len(sends) < n
    BY Numbers
  <2> QED
    BY <1>4, <2>1 DEF Inv, Queued
<1> HIDE DEF n
<1>9. Queued'
  <2>1. \A k \in 1..(Len(m_lockEncode) + 1) : m_lockEncode'[k] = Encoded + k
    <3>1. n = Encoded + (Len(m_lockEncode) + 1)
      BY Numbers DEF n
    <3>2. \A k \in 1..(Len(m_lockEncode) + 1) : k \in 1..Len(m_lockEncode) \/ k = Len(m_lockEncode) + 1
      <4>1. Len(m_lockEncode) \in Nat
        BY Numbers
      <4> QED
        BY <4>1
    <3> QED
      BY <3>1, <3>2, <1>5 DEF Inv, Queued
  <2>2. ASSUME NEW i \in Sends
        PROVE  /\ pc'[i] = "none" <=> i <= Ended \/ n < i
               /\ pc'[i] \in Encoding <=> Encoded < i /\ i <= n
               /\ pc'[i] \in Sending <=> Ended < i /\ i <= Encoded
               /\ pc'[i] \in {"head", "data", "failed"} => i = Encoded + 1
               /\ pc'[i] \in {"take", "write", "ok"} => i = Ended + 1
    <3>1. CASE i = n
      <4>0. /\ Ended <= Encoded /\ Encoded <= Len(sends)
            /\ Ended \in Nat /\ Encoded \in Nat /\ Len(sends) \in Nat
        BY Numbers
      <4>1. Ended <= Encoded /\ Encoded < n /\ Ended \in Nat /\ Encoded \in Nat /\ n \in Nat
        BY <4>0 DEF n
      <4>2. pc'[i] = "encode"
        BY <1>6, <3>1
      <4> QED
        BY <3>1, <4>1, <4>2 DEF Encoding, Sending
    <3>2. CASE i # n
      <4>0. i \in Nat /\ Len(sends) \in Nat /\ n = Len(sends) + 1
        BY Numbers DEF n
      <4>1. i \in Nat /\ (Len(sends) < i <=> n < i) /\ (i <= Len(sends) <=> i <= n)
        BY <3>2, <4>0
      <4>2. pc'[i] = pc[i]
        BY <1>6, <3>2
      <4>3. /\ pc[i] = "none" <=> i <= Ended \/ Len(sends) < i
            /\ pc[i] \in Encoding <=> Encoded < i /\ i <= Len(sends)
            /\ pc[i] \in Sending <=> Ended < i /\ i <= Encoded
            /\ pc[i] \in {"head", "data", "failed"} => i = Encoded + 1
            /\ pc[i] \in {"take", "write", "ok"} => i = Ended + 1
        BY DEF Inv, Queued
      <4> QED
        BY <4>1, <4>2, <4>3
    <3> QED
      BY <3>1, <3>2
  <2> QED
    BY <2>1, <2>2, <1>2, <1>4, <1>5, <1>8 DEF Inv, Queued
<1>10. Locked'
  BY <1>4, <1>6, <1>p DEF Inv, Locked, Owns
<1>f. At("failed")' = At("failed")
  BY <1>4, <1>6, <1>p DEF At
<1>11. InFlow'
  <2>0. CASE stopped \/ m_stream = "closed"
    BY <2>0, FlowOver
  <2>1. CASE ~(stopped \/ m_stream = "closed")
    <3>1. PICK w \in Nat, t \in Nat : Flows(w, t)
      BY <2>1 DEF Inv, InFlow
    <3>2. At("data")' = At("data") /\ At("write")' = At("write")
      BY <1>4, <1>6, <1>p DEF At
    <3>3. \A i \in Sends : pc'[i] \in {"write", "ok"} => pc[i] \in {"write", "ok"}
      BY <1>6
    <3>4. Flows(w, t)'
      BY <1>3, <1>4, <1>8, <3>1, <3>2, <3>3 DEF Flows, Holds
    <3> QED
      BY <3>4 DEF InFlow
  <2> QED
    BY <2>0, <2>1
<1>12. m_ioState' + (IF At("failed") THEN 1 ELSE 0)
         = Len(m_lockEncode') + Len(m_lockSend') + (IF Reading THEN 1 ELSE 0)
  <2> DEFINE a == IF At("failed") THEN 1 ELSE 0
             b == IF Reading THEN 1 ELSE 0
  <2>1. m_ioState + a = Len(m_lockEncode) + Len(m_lockSend) + b /\ a \in Nat /\ b \in Nat
    BY DEF Inv, Counted
  <2>2. m_ioState \in Nat
    BY DEF Inv, Typed, SendTyped
  <2> HIDE DEF a, b
  <2>4. PICK x \in Nat, y \in Nat : x = Len(m_lockEncode) /\ y = Len(m_lockSend)
    BY Numbers
  <2>5. m_ioState' = m_ioState + 1 /\ Len(m_lockEncode') = x + 1 /\ Len(m_lockSend') = y
    BY <1>3, <1>5, <1>8, <2>4
  <2>6. m_ioState + a = x + y + b
    BY <2>1, <2>4
  <2>7. (m_ioState + 1) + a = (x + 1) + y + b
    BY <2>1, <2>2, <2>6
  <2>3. m_ioState' + a = Len(m_lockEncode') + Len(m_lockSend') + b
    BY <2>5, <2>7
  <2> QED
    BY <2>3 DEF a, b
<1>13. ASSUME NEW i \in Sends, pc[i] # "none" PROVE pc'[i] = pc[i] /\ sends'[i] = sends[i]
  <2>1. ~(Len(sends) < i) /\ i # n
    BY <1>13, <1>p DEF Inv, Queued
  <2>2. i \in 1..Len(sends)
    BY <2>1, Numbers
  <2> QED
    BY <2>1, <2>2, <1>2, <1>6
<1> QED
  BY <1>2, <1>3, <1>6, <1>7, <1>9, <1>10, <1>11, <1>12, <1>13, <1>f DEF n

(* A step that makes an asyncSend.                                         *)
Posts(from, type) ==
    /\ NewSend(from, type)
    /\ UNCHANGED <<role, m_lockBuffer, m_lockSend, batch, wire>>
    /\ Broken => Broken'
    /\ stopped => stopped'
    /\ m_stream = "closed" => m_stream' = "closed"
    /\ m_closeState = "CLOSED" => m_closeState' = "CLOSED"
    /\ Reading \/ from = "js"
    /\ Reading' <=> Reading
    /\ \/ reader' = reader
       \/ reader' = "end" /\ from = "peer" /\ type = "close"

(* Such a step keeps what the asyncSends rely on.                          *)
LEMMA NewSendInv ==
    ASSUME Inv, NEW from \in {"js", "peer"}, NEW type \in {"text", "pong", "close"},
           Posts(from, type), Len(sends) + 1 \in Sends,
           StateTyped', Bounded', Pinned', Quiet', ReportedOnce'
    PROVE  Inv'
<1>0. /\ NewSend(from, type)
      /\ Broken => Broken'
      /\ stopped => stopped'
      /\ m_stream = "closed" => m_stream' = "closed"
      /\ UNCHANGED <<role, m_lockBuffer, m_lockSend, batch, wire>>
      /\ m_closeState = "CLOSED" => m_closeState' = "CLOSED"
      /\ Reading \/ from = "js"
      /\ Reading' <=> Reading
      /\ releasing' = releasing
  BY DEF Posts, NewSend, Posted
<1>1. /\ SendTyped' /\ Queued' /\ Locked' /\ InFlow'
      /\ At("failed")' = At("failed")
      /\ m_ioState' + (IF At("failed") THEN 1 ELSE 0)
           = Len(m_lockEncode') + Len(m_lockSend') + (IF Reading THEN 1 ELSE 0)
      /\ sends' = Append(sends, [from |-> from, type |-> type])
      /\ Len(sends') = Len(sends) + 1
      /\ \A i \in 1..Len(sends) : sends'[i] = sends[i]
      /\ \A i \in Sends : i # Len(sends) + 1 => pc'[i] = pc[i]
      /\ late' = IF m_ioState = 0 \/ releasing # {} THEN late \cup {Len(sends) + 1} ELSE late
      /\ pc'[Len(sends) + 1] = "encode" /\ sends'[Len(sends) + 1] = [from |-> from, type |-> type]
      /\ \A i \in Sends : pc[i] # "none" => pc'[i] = pc[i] /\ sends'[i] = sends[i]
  BY <1>0, NewSendKeeps
<1>2. Sends' = Sends
  BY DEF Posts, Sends
<1>3. Counted'
  BY <1>0, <1>1 DEF Counted
<1>4. Answered'
  <2>1. CASE reader' = reader
    BY <1>0, <1>1, <1>2, <2>1 DEF Inv, Answered
  <2>2. CASE from = "peer" /\ type = "close"
    BY <1>1, <1>2, <2>2 DEF Answered
  <2> QED
    BY <2>1, <2>2 DEF Posts
<1>5. Alone'
  <2>1. ASSUME releasing # {}
        PROVE  /\ m_closeState' = "CLOSED" /\ ~Reading'
               /\ \A i \in Sends : AtWork(i)' => i \in late'
    <3>1. m_closeState = "CLOSED" /\ ~Reading /\ \A i \in Sends : AtWork(i) => i \in late
      BY <2>1 DEF Inv, Alone
    <3>2. late' = late \cup {Len(sends) + 1}
      BY <1>1, <2>1
    <3>3. ASSUME NEW i \in Sends, AtWork(i)' PROVE i \in late'
      <4>1. CASE i = Len(sends) + 1
        BY <3>2, <4>1
      <4>2. CASE i # Len(sends) + 1
        BY <1>1, <3>1, <3>2, <3>3, <4>2 DEF AtWork
      <4> QED
        BY <4>1, <4>2
    <3> QED
      BY <1>0, <3>1, <3>3
  <2>2. At("failed")' => m_closeState' = "CLOSED"
    BY <1>0, <1>1 DEF Inv, Alone
  <2>3. ASSUME NEW i \in late' PROVE i <= Len(sends') /\ sends'[i].from = "js"
    <3>0. Len(sends) \in Nat
      BY Numbers
    <3>1. CASE i \in late
      <4>1. i \in Sends /\ i <= Len(sends)
        BY <3>1 DEF Inv, Alone, Typed, SendTyped
      <4>2. i \in 1..Len(sends) /\ i <= Len(sends) + 1
        BY <3>0, <4>1, Numbers
      <4>3. sends[i].from = "js"
        BY <3>1 DEF Inv, Alone
      <4> QED
        BY <1>1, <4>2, <4>3
    <3>2. CASE i \notin late
      <4>1. i = Len(sends) + 1 /\ (m_ioState = 0 \/ releasing # {})
        BY <1>1, <2>3, <3>2
      <4>2. ~Reading
        BY <4>1, ZeroIdle DEF Inv, Alone
      <4>3. from = "js"
        BY <1>0, <4>2
      <4>4. i <= Len(sends')
        BY <1>1, <3>0, <4>1
      <4> QED
        BY <1>1, <4>1, <4>3, <4>4
    <3> QED
      BY <3>1, <3>2
  <2> QED
    BY <1>0, <1>2, <2>1, <2>2, <2>3 DEF Alone
<1> QED
  BY <1>1, <1>3, <1>4, <1>5 DEF Inv, Typed

(* There is room for one more call of the script,                          *)
LEMMA RoomForCall ==
    ASSUME Inv, Calls < MaxCalls[role], UNCHANGED <<role, inbox, sent>>,
           NEW type \in {"text", "pong", "close"},
           sends' = Append(sends, [from |-> "js", type |-> type])
    PROVE  Len(sends) + 1 \in Sends /\ Bounded'
<1> DEFINE f == [from |-> "js", type |-> type]
<1>1. sends \in Seq(Frame) /\ sent \in 0..MaxFrames
  BY DEF Inv, Typed, StateTyped, SendTyped
<1>2. f \in Frame /\ f.from = "js"
  BY DEF Frame
<1>3. Calls = From("js", sends)
  BY DEF Calls, From, Origin
<1>4. From("js", sends) \in Nat /\ From("peer", sends) \in Nat
  BY <1>1, FromType
<1>5. Len(sends') = Len(sends) + 1 /\ Len(sends) \in Nat
  BY <1>1, <1>2, Appended
<1> HIDE DEF f
<1>6. From("js", sends') = From("js", sends) + 1 /\ From("peer", sends') = From("peer", sends)
  <2>1. From("js", Append(sends, f)) = From("js", sends) + 1
    BY <1>1, <1>2, FromAppend
  <2>2. From("peer", Append(sends, f)) = From("peer", sends) + 0
    BY <1>1, <1>2, FromAppend
  <2> QED
    BY <2>1, <2>2, <1>4 DEF f
<1>7. /\ From("js", sends) <= MaxCalls[role] /\ From("peer", sends) + Len(inbox) <= sent
      /\ From("js", sends) + From("peer", sends) = Len(sends)
  BY DEF Inv, Bounded
<1>8. MaxCalls[role] \in Nat /\ MaxFrames \in Nat /\ Len(inbox) \in Nat /\ sent \in Nat
  BY Numbers
<1>9. Len(sends) + 1 \in 1..(MaxCalls[role] + MaxFrames)
  BY <1>1, <1>3, <1>4, <1>5, <1>7, <1>8
<1>10. /\ From("js", sends') <= MaxCalls[role]
       /\ From("js", sends') + From("peer", sends') = Len(sends')
  BY <1>3, <1>4, <1>5, <1>6, <1>7, <1>8
<1> QED
  BY <1>6, <1>7, <1>9, <1>10 DEF Bounded, Sends

(* and for the answer to a frame that is read.                             *)
LEMMA RoomForAnswer ==
    ASSUME Inv, inbox # << >>, inbox' = Tail(inbox), UNCHANGED <<role, sent>>,
           NEW type \in {"text", "pong", "close"},
           sends' = Append(sends, [from |-> "peer", type |-> type])
    PROVE  Len(sends) + 1 \in Sends /\ Bounded'
<1> DEFINE f == [from |-> "peer", type |-> type]
<1>1. sends \in Seq(Frame) /\ sent \in 0..MaxFrames
  BY DEF Inv, Typed, StateTyped, SendTyped
<1>2. f \in Frame /\ f.from = "peer"
  BY DEF Frame
<1>3. inbox' \in Seq(Incoming) /\ From("peer", sends) + 1 + Len(inbox') <= sent
  BY Received
<1>4. From("js", sends) \in Nat /\ From("peer", sends) \in Nat /\ Len(inbox') \in Nat
  BY <1>1, <1>3, FromType, LenProperties
<1>5. Len(sends') = Len(sends) + 1 /\ Len(sends) \in Nat
  BY <1>1, <1>2, Appended
<1> HIDE DEF f
<1>6. From("peer", sends') = From("peer", sends) + 1 /\ From("js", sends') = From("js", sends)
  <2>1. From("peer", Append(sends, f)) = From("peer", sends) + 1
    BY <1>1, <1>2, FromAppend
  <2>2. From("js", Append(sends, f)) = From("js", sends) + 0
    BY <1>1, <1>2, FromAppend
  <2> QED
    BY <2>1, <2>2, <1>4 DEF f
<1>7. /\ From("js", sends) <= MaxCalls[role]
      /\ From("js", sends) + From("peer", sends) = Len(sends)
  BY DEF Inv, Bounded
<1>8. MaxCalls[role] \in Nat /\ MaxFrames \in Nat /\ sent \in Nat
  BY Numbers
<1>9. Len(sends) + 1 \in 1..(MaxCalls[role] + MaxFrames)
  BY <1>1, <1>3, <1>4, <1>5, <1>7, <1>8
<1>10. /\ From("peer", sends') + Len(inbox') <= sent
       /\ From("js", sends') + From("peer", sends') = Len(sends')
  BY <1>3, <1>4, <1>5, <1>6, <1>7, <1>8
<1> QED
  BY <1>6, <1>7, <1>9, <1>10 DEF Bounded, Sends

(* send().                                                                 *)
LEMMA sendInv ==
    ASSUME Inv, send
    PROVE  Inv'
<1>1. /\ NewSend("js", "text") /\ Calls < MaxCalls[role]
      /\ UNCHANGED <<role, m_lockBuffer, m_lockSend, batch, wire, inbox, sent, gone, stopping, stopped>>
      /\ UNCHANGED <<m_readyState, m_closeState, m_stream, m_holder, holding, terminating, conn, reader>>
      /\ UNCHANGED <<jobs, log>> /\ m_readyState = "OPEN"
  BY DEF send, state, peer, ending, NewSend, Posted
<1>2. sends' = Append(sends, [from |-> "js", type |-> "text"])
  BY <1>1 DEF NewSend, Posted
<1>3. Len(sends) + 1 \in Sends /\ Bounded'
  BY <1>1, <1>2, RoomForCall
<1>4. StateTyped' /\ Pinned'
  BY <1>1 DEF Inv, Typed, StateTyped, Pinned, Shut
<1>5. Posts("js", "text")
  BY <1>1 DEF Posts, Broken, Reading
<1>6. Quiet' /\ ReportedOnce'
  BY <1>1, ReportKeeps
<1> QED
  BY <1>3, <1>4, <1>5, <1>6, NewSendInv

(* close().                                                                *)
LEMMA closeInv ==
    ASSUME Inv, close
    PROVE  Inv'
<1>1. /\ NewSend("js", "close") /\ Calls < MaxCalls[role] /\ m_readyState' = "CLOSING"
      /\ UNCHANGED <<role, m_lockBuffer, m_lockSend, batch, wire, inbox, sent, gone, stopping, stopped>>
      /\ UNCHANGED <<m_closeState, m_stream, m_holder, holding, terminating, conn, reader>>
      /\ UNCHANGED <<jobs, log>> /\ m_readyState = "OPEN"
  BY DEF close, peer, ending, NewSend, Posted
<1>2. sends' = Append(sends, [from |-> "js", type |-> "close"])
  BY <1>1 DEF NewSend, Posted
<1>3. Len(sends) + 1 \in Sends /\ Bounded'
  BY <1>1, <1>2, RoomForCall
<1>4. StateTyped' /\ Pinned'
  BY <1>1 DEF Inv, Typed, StateTyped, Pinned, Shut, States
<1>5. Posts("js", "close")
  BY <1>1 DEF Posts, Broken, Reading
<1>6. Quiet' /\ ReportedOnce'
  BY <1>1, ReportKeeps
<1> QED
  BY <1>3, <1>4, <1>5, <1>6, NewSendInv

(* A ping is answered.                                                     *)
LEMMA EventPingInv ==
    ASSUME Inv, EventPing
    PROVE  Inv'
<1>1. /\ NewSend("peer", "pong") /\ inbox # << >> /\ inbox' = Tail(inbox)
      /\ UNCHANGED <<role, m_lockBuffer, m_lockSend, batch, wire, sent, gone, stopping, stopped>>
      /\ UNCHANGED <<m_readyState, m_closeState, m_stream, m_holder, holding, terminating, conn, reader>>
      /\ UNCHANGED <<jobs, log>> /\ reader = "recv"
  BY DEF EventPing, Receives, state, ending, NewSend, Posted
<1>2. sends' = Append(sends, [from |-> "peer", type |-> "pong"])
  BY <1>1 DEF NewSend, Posted
<1>3. Len(sends) + 1 \in Sends /\ Bounded' /\ inbox' \in Seq(Incoming)
  BY <1>1, <1>2, RoomForAnswer, Received
<1>4. StateTyped' /\ Pinned'
  BY <1>1, <1>3 DEF Inv, Typed, StateTyped, Pinned, Shut
<1>5. Posts("peer", "pong")
  BY <1>1 DEF Posts, Broken, Reading
<1>6. Quiet' /\ ReportedOnce'
  BY <1>1, ReportKeeps
<1> QED
  BY <1>3, <1>4, <1>5, <1>6, NewSendInv

(* The CLOSE of the peer is answered, once.                                *)
LEMMA EventCloseInv ==
    ASSUME Inv, EventClose
    PROVE  Inv'
<1>1. /\ inbox # << >> /\ inbox' = Tail(inbox) /\ reader = "recv" /\ reader' = "end"
      /\ UNCHANGED <<role, m_lockBuffer, m_lockSend, batch, wire, sent, gone, stopping, stopped>>
      /\ UNCHANGED <<m_readyState, m_holder, holding, terminating, conn, log>>
  BY DEF EventClose, Receives, ending, memory, NewSend, Posted
<1>o. m_stream # "none"
  BY <1>1 DEF Inv, Pinned
<1>2. inbox' \in Seq(Incoming)
  BY <1>1, Received
<1>3. CASE m_closeState = "OPEN"
  <2>1. /\ NewSend("peer", "close") /\ m_closeState' = "CLOSING" /\ UNCHANGED <<m_stream, jobs>>
    BY <1>3 DEF EventClose
  <2>2. sends' = Append(sends, [from |-> "peer", type |-> "close"])
    BY <2>1 DEF NewSend, Posted
  <2>3. Len(sends) + 1 \in Sends /\ Bounded'
    BY <1>1, <2>2, RoomForAnswer
  <2>4. StateTyped' /\ Pinned'
    BY <1>1, <1>2, <1>o, <2>1 DEF Inv, Typed, StateTyped, Pinned, Shut, States
  <2>5. Posts("peer", "close")
    BY <1>1, <1>3, <2>1 DEF Posts, Broken, Reading
  <2>6. Quiet' /\ ReportedOnce'
    BY <1>1, <1>3, <2>1, ReportKeeps
  <2> QED
    BY <2>3, <2>4, <2>5, <2>6, NewSendInv
<1>4. CASE m_closeState # "OPEN"
  <2>1. /\ EndByBody
        /\ UNCHANGED <<sends, pc, m_lockEncode, m_ioState, releasing, m_buffer, late>>
    BY <1>4 DEF EventClose, memory
  <2>2. /\ m_closeState' = "CLOSED" /\ jobs' \in Seq(Event) /\ Quiet' /\ ReportedOnce'
        /\ m_stream' = m_stream \/ (m_stream = "open" /\ m_stream' = "closed")
        /\ Shut'
    <3>1. PICK e \in {Normal, Failure} : EndConnect(e)
      BY <2>1 DEF EndByBody
    <3> QED
      BY <1>1, <1>o, <3>1, EndConnectEnds
  <2>3. StateTyped' /\ Pinned'
    BY <1>1, <1>2, <1>o, <2>1, <2>2 DEF Inv, Typed, StateTyped, Pinned, States
  <2>4. Moves
    BY <1>1, <2>1, <2>2 DEF Moves, sending, Reading, Over
  <2>5. Bounded'
    BY <1>1, <2>1, Received
  <2> QED
    BY <2>2, <2>3, <2>4, <2>5, StillInv
<1> QED
  BY <1>3, <1>4

-----------------------------------------------------------------------------
(* asyncSend, step by step.                                                *)

(* The first in a queue.                                                   *)
LEMMA Firsts ==
    ASSUME Inv, NEW i \in Sends
    PROVE  /\ Owns(m_lockEncode, i) => i = Encoded + 1
           /\ Owns(m_lockSend, i) => i = Ended + 1
           /\ pc[i] \in {"head", "data", "failed"} => i = Encoded + 1
           /\ pc[i] \in {"take", "write", "ok"} => i = Ended + 1
           /\ i \in Nat
<1>1. m_lockEncode \in Seq(Sends) /\ m_lockSend \in Seq(Sends)
  BY DEF Inv, Typed, SendTyped
<1>2. ASSUME Owns(m_lockEncode, i) PROVE i = Encoded + 1
  <2>1. m_lockEncode # << >> /\ Head(m_lockEncode) = i
    BY <1>2 DEF Owns
  <2>2. m_lockEncode[1] = i /\ 1 \in 1..Len(m_lockEncode)
    BY <1>1, <2>1, Rest
  <2> QED
    BY <2>2 DEF Inv, Queued
<1>3. ASSUME Owns(m_lockSend, i) PROVE i = Ended + 1
  <2>1. m_lockSend # << >> /\ Head(m_lockSend) = i
    BY <1>3 DEF Owns
  <2>2. m_lockSend[1] = i /\ 1 \in 1..Len(m_lockSend)
    BY <1>1, <2>1, Rest
  <2> QED
    BY <2>2 DEF Inv, Queued
<1>4. i \in Nat
  BY Numbers
<1> QED
  BY <1>2, <1>3, <1>4 DEF Inv, Queued

(* There is an asyncSend only when there is a stream.                      *)
LEMMA SendsOpen ==
    ASSUME Inv, NEW i \in Sends, pc[i] # "none"
    PROVE  m_stream # "none"
<1>1. ~(Len(sends) < i)
  BY DEF Inv, Queued
<1>2. Len(sends) # 0
  BY <1>1, Numbers
<1>3. sends # << >>
  BY <1>2, EmptySeq
<1> QED
  BY <1>3 DEF Inv, Pinned

(* One asyncSend moves on.                                                 *)
LEMMA Stepped ==
    ASSUME Inv, NEW i \in Sends, NEW l \in Labels, Goto(i, l), role' = role
    PROVE  /\ pc' \in [Sends -> Labels] /\ pc'[i] = l /\ \A j \in Sends : j # i => pc'[j] = pc[j]
           /\ Sends' = Sends /\ Parts' = Parts
<1>1. pc \in [Sends -> Labels]
  BY DEF Inv, Typed, SendTyped, Labels, Working
<1> QED
  BY <1>1 DEF Goto, Sends, Parts

(* It stays in its queue.                                                  *)
LEMMA QueuedKeeps ==
    ASSUME Inv, NEW i \in Sends, NEW l \in Labels, Goto(i, l),
           UNCHANGED <<role, sends, m_lockEncode, m_lockSend>>,
           \/ pc[i] \in Encoding /\ l \in Encoding /\ i = Encoded + 1
           \/ pc[i] \in Sending /\ l \in Sending /\ i = Ended + 1
    PROVE  Queued'
<1>1. /\ pc'[i] = l /\ \A j \in Sends : j # i => pc'[j] = pc[j]
      /\ Sends' = Sends
  BY Stepped
<1>2. Encoded' = Encoded /\ Ended' = Ended
  BY DEF Encoded, Ended
<1>3. /\ pc'[i] = "none" <=> pc[i] = "none"
      /\ pc'[i] \in Encoding <=> pc[i] \in Encoding
      /\ pc'[i] \in Sending <=> pc[i] \in Sending
      /\ pc'[i] \in {"head", "data", "failed"} => i = Encoded + 1
      /\ pc'[i] \in {"take", "write", "ok"} => i = Ended + 1
  BY <1>1 DEF Encoding, Sending
<1>4. ASSUME NEW j \in Sends
      PROVE  /\ pc'[j] = "none" <=> j <= Ended \/ Len(sends) < j
             /\ pc'[j] \in Encoding <=> Encoded < j /\ j <= Len(sends)
             /\ pc'[j] \in Sending <=> Ended < j /\ j <= Encoded
             /\ pc'[j] \in {"head", "data", "failed"} => j = Encoded + 1
             /\ pc'[j] \in {"take", "write", "ok"} => j = Ended + 1
  <2>1. /\ pc[j] = "none" <=> j <= Ended \/ Len(sends) < j
        /\ pc[j] \in Encoding <=> Encoded < j /\ j <= Len(sends)
        /\ pc[j] \in Sending <=> Ended < j /\ j <= Encoded
        /\ pc[j] \in {"head", "data", "failed"} => j = Encoded + 1
        /\ pc[j] \in {"take", "write", "ok"} => j = Ended + 1
    BY DEF Inv, Queued
  <2>2. CASE j = i
    BY <1>3, <2>1, <2>2
  <2>3. CASE j # i
    BY <1>1, <2>1, <2>3
  <2> QED
    BY <2>2, <2>3
<1> QED
  BY <1>1, <1>2, <1>4 DEF Inv, Queued

(* What is left when these are kept.                                       *)
LEMMA AsyncInv ==
    ASSUME Inv, NEW i \in Sends, NEW l \in Working, pc[i] \in Working, Goto(i, l),
           UNCHANGED <<others, users, jobs>>,
           SendTyped', Queued', Locked', InFlow',
           Len(m_lockEncode') + Len(m_lockSend') = Len(m_lockEncode) + Len(m_lockSend)
    PROVE  Inv'
<1>1. /\ UNCHANGED <<role, m_readyState, m_closeState, m_stream, holding, terminating, conn, reader>>
      /\ UNCHANGED <<sends, inbox, sent, gone, log, jobs, stopping, stopped>>
      /\ UNCHANGED <<m_ioState, releasing, m_holder, late>>
  BY DEF others, state, peer, ending, users
<1>2. /\ pc'[i] = l /\ \A j \in Sends : j # i => pc'[j] = pc[j]
      /\ Sends' = Sends
  <2>1. l \in Labels
    BY DEF Labels, Working
  <2> QED
    BY <1>1, <2>1, Stepped
<1>w. l \notin {"none", "failed"} /\ pc[i] \notin {"none", "failed"}
  BY DEF Working
<1>f. At("failed")' = At("failed") /\ \A j \in Sends : AtWork(j)' <=> AtWork(j)
  BY <1>2, <1>w DEF At, AtWork
<1>3. StateTyped' /\ Pinned'
  BY <1>1 DEF Inv, Typed, StateTyped, Pinned, Shut
<1>4. Bounded'
  BY <1>1, PeerKeeps
<1>5. Counted'
  BY <1>1, <1>f DEF Inv, Counted, Reading
<1>6. Answered'
  <2>1. \A j \in Sends : pc[j] # "none" => pc'[j] # "none"
    BY <1>2, <1>w
  <2> QED
    BY <1>1, <1>2, <2>1 DEF Inv, Answered
<1>7. Quiet' /\ ReportedOnce'
  BY <1>1, ReportKeeps
<1>8. Alone'
  BY <1>1, <1>2, <1>f DEF Inv, Alone, Reading
<1> QED
  BY <1>3, <1>4, <1>5, <1>6, <1>7, <1>8 DEF Inv, Typed

(* A lock on the buffer is asked for.                                      *)
LEMMA LockedAppend ==
    ASSUME Inv, NEW i \in Sends, NEW l \in {"head", "take"}, Goto(i, l), role' = role,
           pc[i] \in {"encode", "flush"}, m_lockBuffer' = Append(m_lockBuffer, i)
    PROVE  Locked' /\ m_lockBuffer' \in Seq(Sends)
<1>1. /\ pc'[i] = l /\ \A j \in Sends : j # i => pc'[j] = pc[j]
      /\ Sends' = Sends
  <2>1. l \in Labels
    BY DEF Labels, Working
  <2> QED
    BY <2>1, Stepped
<1>2. m_lockBuffer \in Seq(Sends)
  BY DEF Inv, Typed, SendTyped
<1> DEFINE n == Len(m_lockBuffer)
<1>3. /\ m_lockBuffer' \in Seq(Sends) /\ n \in Nat /\ Len(m_lockBuffer') = n + 1
      /\ m_lockBuffer'[n + 1] = i /\ \A k \in 1..n : m_lockBuffer'[k] = m_lockBuffer[k]
      /\ m_lockBuffer' # << >>
  BY <1>2, Appended
<1>4. /\ \A k \in 1..(n + 1) : k \in 1..n \/ k = n + 1
      /\ \A k \in 1..n : k \in 1..(n + 1)
      /\ n + 1 \in 1..(n + 1)
  BY <1>3
<1>5. \A k \in 1..n : m_lockBuffer[k] # i
  BY DEF Inv, Locked
<1>6. \A j \in Sends : pc[j] \in {"head", "data", "take", "failed"} <=> \E k \in 1..n : m_lockBuffer[k] = j
  BY DEF Inv, Locked
<1>7. ASSUME NEW j \in Sends
      PROVE  pc'[j] \in {"head", "data", "take", "failed"} <=> \E k \in 1..(n + 1) : m_lockBuffer'[k] = j
  <2>1. CASE j = i
    BY <2>1, <1>1, <1>3, <1>4
  <2>2. CASE j # i
    <3>1. (\E k \in 1..(n + 1) : m_lockBuffer'[k] = j) <=> \E k \in 1..n : m_lockBuffer[k] = j
      BY <2>2, <1>3, <1>4
    <3> QED
      BY <2>2, <3>1, <1>1, <1>6
  <2> QED
    BY <2>1, <2>2
<1>8. ASSUME NEW j \in Sends, pc'[j] \in {"data", "failed"} PROVE Owns(m_lockBuffer', j)
  <2>1. j # i /\ pc[j] \in {"data", "failed"}
    BY <1>1, <1>8
  <2>2. m_lockBuffer # << >> /\ Head(m_lockBuffer) = j
    BY <2>1 DEF Inv, Locked, Owns
  <2>3. m_lockBuffer[1] = j /\ 1 \in 1..n
    BY <1>2, <2>2, Rest
  <2>4. m_lockBuffer'[1] = j
    BY <1>3, <2>3
  <2>5. Head(m_lockBuffer') = m_lockBuffer'[1]
    BY <1>3, Rest
  <2> QED
    BY <1>3, <2>4, <2>5 DEF Owns
<1>9. \A m, k \in 1..(n + 1) : m_lockBuffer'[m] = m_lockBuffer'[k] => m = k
  <2>1. \A m, k \in 1..n : m_lockBuffer[m] = m_lockBuffer[k] => m = k
    BY DEF Inv, Locked
  <2> QED
    BY <2>1, <1>3, <1>4, <1>5
<1> QED
  BY <1>1, <1>3, <1>7, <1>8, <1>9 DEF Locked, Owns

(* The lock on the buffer is given back.                                   *)
LEMMA LockedTail ==
    ASSUME Inv, NEW i \in Sends, NEW l \in {"flush", "write", "ok"}, Goto(i, l), role' = role,
           Owns(m_lockBuffer, i), m_lockBuffer' = Tail(m_lockBuffer)
    PROVE  Locked' /\ m_lockBuffer' \in Seq(Sends)
<1>1. /\ pc'[i] = l /\ \A j \in Sends : j # i => pc'[j] = pc[j]
      /\ Sends' = Sends
  <2>1. l \in Labels
    BY DEF Labels, Working
  <2> QED
    BY <2>1, Stepped
<1>2. m_lockBuffer \in Seq(Sends) /\ m_lockBuffer # << >> /\ Head(m_lockBuffer) = i
  BY DEF Inv, Typed, SendTyped, Owns
<1> DEFINE n == Len(m_lockBuffer)
<1>3. /\ m_lockBuffer' \in Seq(Sends) /\ n \in Nat /\ n >= 1 /\ Len(m_lockBuffer') = n - 1
      /\ m_lockBuffer[1] = i /\ \A k \in 1..(n - 1) : m_lockBuffer'[k] = m_lockBuffer[k + 1]
  BY <1>2, Rest
<1>4. /\ \A k \in 1..(n - 1) : k + 1 \in 1..n /\ k + 1 # 1
      /\ \A k \in 1..n : k # 1 => k - 1 \in 1..(n - 1) /\ (k - 1) + 1 = k
      /\ \A m, k \in 1..(n - 1) : m + 1 = k + 1 => m = k
      /\ 1 \in 1..n
  BY <1>3
<1>5. \A m, k \in 1..n : m_lockBuffer[m] = m_lockBuffer[k] => m = k
  BY DEF Inv, Locked
<1>6. \A j \in Sends : pc[j] \in {"head", "data", "take", "failed"} <=> \E k \in 1..n : m_lockBuffer[k] = j
  BY DEF Inv, Locked
<1>7. ASSUME NEW j \in Sends
      PROVE  pc'[j] \in {"head", "data", "take", "failed"} <=> \E k \in 1..(n - 1) : m_lockBuffer'[k] = j
  <2>1. CASE j = i
    BY <2>1, <1>1, <1>3, <1>4, <1>5
  <2>2. CASE j # i
    <3>1. ASSUME NEW k \in 1..n, m_lockBuffer[k] = j PROVE \E m \in 1..(n - 1) : m_lockBuffer'[m] = j
      <4>1. k # 1
        BY <3>1, <2>2, <1>3
      <4>2. k - 1 \in 1..(n - 1) /\ (k - 1) + 1 = k
        BY <4>1, <1>4
      <4>3. m_lockBuffer'[k - 1] = m_lockBuffer[(k - 1) + 1]
        BY <4>2, <1>3
      <4> QED
        BY <4>2, <4>3, <3>1
    <3>2. ASSUME NEW k \in 1..(n - 1), m_lockBuffer'[k] = j PROVE \E m \in 1..n : m_lockBuffer[m] = j
      BY <3>2, <1>3, <1>4
    <3> QED
      BY <2>2, <3>1, <3>2, <1>1, <1>6
  <2> QED
    BY <2>1, <2>2
<1>8. ASSUME NEW j \in Sends, pc'[j] \in {"data", "failed"} PROVE FALSE
  <2>1. j # i /\ pc[j] \in {"data", "failed"}
    BY <1>1, <1>8
  <2>2. Head(m_lockBuffer) = j
    BY <2>1 DEF Inv, Locked, Owns
  <2> QED
    BY <2>1, <2>2, <1>2
<1>9. \A m, k \in 1..(n - 1) : m_lockBuffer'[m] = m_lockBuffer'[k] => m = k
  <2>1. ASSUME NEW m \in 1..(n - 1), NEW k \in 1..(n - 1), m_lockBuffer'[m] = m_lockBuffer'[k]
        PROVE  m = k
    <3>1. m_lockBuffer[m + 1] = m_lockBuffer[k + 1] /\ m + 1 \in 1..n /\ k + 1 \in 1..n
      BY <2>1, <1>3, <1>4
    <3>2. m + 1 = k + 1
      BY <3>1, <1>5
    <3> QED
      BY <3>2, <1>4
  <2> QED
    BY <2>1
<1> QED
  BY <1>1, <1>3, <1>7, <1>8, <1>9 DEF Locked

(* Frames in the beginning of a sequence,                                  *)
LEMMA HoldsFirst ==
    ASSUME NEW s, NEW u, NEW a \in Nat, NEW b \in Nat, a <= b, Holds(s, a, b),
           \A k \in 1..(2 * (b - a)) : u[k] = s[k]
    PROVE  Holds(u, a, b)
<1> SUFFICES ASSUME NEW k \in 1..(b - a)
             PROVE  u[2 * k - 1] = <<a + k, "head">> /\ u[2 * k] = <<a + k, "data">>
  BY DEF Holds
<1>1. 2 * k - 1 \in 1..(2 * (b - a)) /\ 2 * k \in 1..(2 * (b - a))
  OBVIOUS
<1>2. s[2 * k - 1] = <<a + k, "head">> /\ s[2 * k] = <<a + k, "data">>
  BY DEF Holds
<1> QED
  BY <1>1, <1>2

(* one frame more,                                                         *)
LEMMA HoldsMore ==
    ASSUME NEW s, NEW a \in Nat, NEW b \in Nat, a <= b, Holds(s, a, b),
           s[2 * (b - a) + 1] = <<b + 1, "head">>, s[2 * (b - a) + 2] = <<b + 1, "data">>
    PROVE  Holds(s, a, b + 1)
<1> SUFFICES ASSUME NEW k \in 1..((b + 1) - a)
             PROVE  s[2 * k - 1] = <<a + k, "head">> /\ s[2 * k] = <<a + k, "data">>
  BY DEF Holds
<1>1. CASE k \in 1..(b - a)
  BY <1>1 DEF Holds
<1>2. CASE k \notin 1..(b - a)
  <2>1. k = (b - a) + 1
    BY <1>2
  <2>2. 2 * k - 1 = 2 * (b - a) + 1 /\ 2 * k = 2 * (b - a) + 2 /\ a + k = b + 1
    BY <2>1
  <2> QED
    BY <2>2
<1> QED
  BY <1>1, <1>2

(* and the frames of two sequences.                                        *)
LEMMA HoldsJoin ==
    ASSUME NEW s, NEW u, NEW c, NEW w \in Nat, NEW t \in Nat, w <= t,
           Holds(s, 0, w), Holds(u, w, t),
           \A i \in 1..(2 * w) : c[i] = s[i],
           \A i \in 1..(2 * (t - w)) : c[2 * w + i] = u[i]
    PROVE  Holds(c, 0, t)
<1>3. ASSUME NEW k \in 1..(t - 0)
      PROVE  c[2 * k - 1] = <<0 + k, "head">> /\ c[2 * k] = <<0 + k, "data">>
  <2>1. CASE k \in 1..w
    <3>1. 2 * k - 1 \in 1..(2 * w) /\ 2 * k \in 1..(2 * w) /\ k \in 1..(w - 0)
      BY <2>1
    <3>2. s[2 * k - 1] = <<0 + k, "head">> /\ s[2 * k] = <<0 + k, "data">>
      BY <3>1 DEF Holds
    <3> QED
      BY <3>1, <3>2
  <2>2. CASE k \notin 1..w
    <3> DEFINE m == k - w
    <3>1. /\ m \in 1..(t - w) /\ w + m = k
          /\ 2 * m - 1 \in 1..(2 * (t - w)) /\ 2 * m \in 1..(2 * (t - w))
          /\ 2 * w + (2 * m - 1) = 2 * k - 1 /\ 2 * w + 2 * m = 2 * k
      BY <2>2
    <3> HIDE DEF m
    <3>2. u[2 * m - 1] = <<w + m, "head">> /\ u[2 * m] = <<w + m, "data">>
      BY <3>1 DEF Holds
    <3>3. c[2 * k - 1] = u[2 * m - 1] /\ c[2 * k] = u[2 * m]
      BY <3>1
    <3>4. 0 + k = k
      OBVIOUS
    <3> QED
      BY <3>1, <3>2, <3>3, <3>4
  <2> QED
    BY <2>1, <2>2
<1> QED
  BY <1>3 DEF Holds

(* The buffers are not touched and nobody begins or ends to write.         *)
LEMMA FlowKeeps ==
    ASSUME Inv, NEW i \in Sends, NEW l \in {"head", "take"}, Goto(i, l),
           pc[i] \in {"encode", "flush"}, UNCHANGED <<m_stream, gone, stopped>>,
           UNCHANGED <<role, sends, m_lockEncode, m_lockSend, m_buffer, batch, wire>>
    PROVE  InFlow'
<1>1. /\ pc'[i] = l /\ \A j \in Sends : j # i => pc'[j] = pc[j]
      /\ Sends' = Sends
  <2>1. l \in Labels
    BY DEF Labels, Working
  <2> QED
    BY <2>1, Stepped
<1>2. Encoded' = Encoded /\ Ended' = Ended
  BY DEF Encoded, Ended
<1>3. At("data")' = At("data") /\ At("write")' = At("write")
  BY <1>1 DEF At
<1>4. \A j \in Sends : pc'[j] \in {"write", "ok"} => pc[j] \in {"write", "ok"}
  BY <1>1
<1>0. CASE stopped \/ m_stream = "closed"
  BY <1>0, FlowOver
<1>5. CASE ~(stopped \/ m_stream = "closed")
  <2>1. PICK w \in Nat, t \in Nat : Flows(w, t)
    BY <1>5 DEF Inv, InFlow
  <2>2. Flows(w, t)'
    BY <1>1, <1>2, <1>3, <1>4, <2>1 DEF Flows, Holds, Broken
  <2> QED
    BY <2>2 DEF InFlow
<1> QED
  BY <1>0, <1>5

(* lock_buffer_for_encode.                                                 *)
LEMMA LockForEncodeInv ==
    ASSUME Inv, NEW i \in Sends, LockForEncode(i)
    PROVE  Inv'
<1>1. /\ pc[i] = "encode" /\ Owns(m_lockEncode, i) /\ m_lockBuffer' = Append(m_lockBuffer, i)
      /\ Goto(i, "head") /\ UNCHANGED <<others, users, jobs>>
      /\ UNCHANGED <<m_lockEncode, m_lockSend, m_buffer, batch, wire>>
  BY DEF LockForEncode, memory, users
<1>2. /\ role' = role /\ sends' = sends /\ m_stream' = m_stream /\ gone' = gone
      /\ stopped' = stopped /\ releasing' = releasing /\ late' = late /\ m_ioState' = m_ioState
  BY <1>1 DEF others, state, peer, ending, users
<1>3. i = Encoded + 1
  BY <1>1, Firsts
<1>4. "head" \in Labels /\ "head" \in Working /\ pc[i] \in Working
  BY <1>1 DEF Labels, Working
<1>5. /\ pc' \in [Sends -> Labels] /\ pc'[i] = "head" /\ \A j \in Sends : j # i => pc'[j] = pc[j]
      /\ Sends' = Sends /\ Parts' = Parts
  BY <1>1, <1>2, <1>4, Stepped
<1>6. Queued'
  BY <1>1, <1>2, <1>3, <1>4, QueuedKeeps DEF Encoding
<1>7. Locked' /\ m_lockBuffer' \in Seq(Sends)
  BY <1>1, <1>2, LockedAppend
<1>8. InFlow'
  BY <1>1, <1>2, FlowKeeps
<1>9. SendTyped'
  BY <1>1, <1>2, <1>5, <1>7 DEF Inv, Typed, SendTyped, Labels, Working
<1> QED
  BY <1>1, <1>4, <1>6, <1>7, <1>8, <1>9, AsyncInv

(* lock_buffer_for_send.                                                   *)
LEMMA LockForSendInv ==
    ASSUME Inv, NEW i \in Sends, LockForSend(i)
    PROVE  Inv'
<1>1. /\ pc[i] = "flush" /\ Owns(m_lockSend, i) /\ m_lockBuffer' = Append(m_lockBuffer, i)
      /\ Goto(i, "take") /\ UNCHANGED <<others, users, jobs>>
      /\ UNCHANGED <<m_lockEncode, m_lockSend, m_buffer, batch, wire>>
  BY DEF LockForSend, memory, users
<1>2. /\ role' = role /\ sends' = sends /\ m_stream' = m_stream /\ gone' = gone
      /\ stopped' = stopped /\ releasing' = releasing /\ late' = late /\ m_ioState' = m_ioState
  BY <1>1 DEF others, state, peer, ending, users
<1>3. i = Ended + 1
  BY <1>1, Firsts
<1>4. "take" \in Labels /\ "take" \in Working /\ pc[i] \in Working
  BY <1>1 DEF Labels, Working
<1>5. /\ pc' \in [Sends -> Labels] /\ pc'[i] = "take" /\ \A j \in Sends : j # i => pc'[j] = pc[j]
      /\ Sends' = Sends /\ Parts' = Parts
  BY <1>1, <1>2, <1>4, Stepped
<1>6. Queued'
  BY <1>1, <1>2, <1>3, <1>4, QueuedKeeps DEF Sending
<1>7. Locked' /\ m_lockBuffer' \in Seq(Sends)
  BY <1>1, <1>2, LockedAppend
<1>8. InFlow'
  BY <1>1, <1>2, FlowKeeps
<1>9. SendTyped'
  BY <1>1, <1>2, <1>5, <1>7 DEF Inv, Typed, SendTyped, Labels, Working
<1> QED
  BY <1>1, <1>4, <1>6, <1>7, <1>8, <1>9, AsyncInv

(* Who owns the buffer's lock shares it with nobody who is encoding.       *)
LEMMA NobodyEncodes ==
    ASSUME Inv, NEW i \in Sends, Owns(m_lockBuffer, i), pc[i] # "data"
    PROVE  ~At("data")
BY DEF Inv, Locked, Owns, At

(* encode, the head of the frame.                                          *)
LEMMA EncodeHeadInv ==
    ASSUME Inv, NEW i \in Sends, EncodeHead(i)
    PROVE  Inv'
<1>1. /\ pc[i] = "head" /\ Owns(m_lockBuffer, i) /\ m_buffer' = Append(m_buffer, <<i, "head">>)
      /\ Goto(i, "data") /\ UNCHANGED <<others, users, jobs>>
      /\ UNCHANGED <<m_lockEncode, m_lockBuffer, m_lockSend, batch, wire>>
  BY DEF EncodeHead
<1>2. /\ role' = role /\ sends' = sends /\ m_stream' = m_stream /\ gone' = gone
      /\ stopped' = stopped /\ releasing' = releasing /\ late' = late /\ m_ioState' = m_ioState
  BY <1>1 DEF others, state, peer, ending, users
<1>3. i = Encoded + 1
  BY <1>1, Firsts
<1>4. "data" \in Labels /\ "data" \in Working /\ pc[i] \in Working
  BY <1>1 DEF Labels, Working
<1>5. /\ pc' \in [Sends -> Labels] /\ pc'[i] = "data" /\ \A j \in Sends : j # i => pc'[j] = pc[j]
      /\ Sends' = Sends /\ Parts' = Parts
  BY <1>1, <1>2, <1>4, Stepped
<1>6. Queued'
  BY <1>1, <1>2, <1>3, <1>4, QueuedKeeps DEF Encoding
<1>7. Locked'
  <2>1. \A j \in Sends : pc'[j] \in {"head", "data", "take", "failed"} <=> pc[j] \in {"head", "data", "take", "failed"}
    BY <1>1, <1>5
  <2>2. \A j \in Sends : pc'[j] = "data" => Owns(m_lockBuffer, j)
    BY <1>1, <1>5 DEF Inv, Locked
  <2> QED
    BY <1>1, <1>5, <2>1, <2>2 DEF Inv, Locked, Owns
<1>8. /\ m_buffer' \in Seq(Parts) /\ Len(m_buffer') = Len(m_buffer) + 1 /\ Len(m_buffer) \in Nat
      /\ m_buffer'[Len(m_buffer) + 1] = <<i, "head">>
      /\ \A k \in 1..Len(m_buffer) : m_buffer'[k] = m_buffer[k]
  <2>1. <<i, "head">> \in Parts
    BY DEF Parts
  <2>2. m_buffer \in Seq(Parts)
    BY DEF Inv, Typed, SendTyped
  <2> QED
    BY <1>1, <2>1, <2>2, Appended
<1>9. InFlow'
  <2>0. CASE stopped \/ m_stream = "closed"
    BY <1>1, <1>2, <2>0, FlowOver
  <2>open. CASE ~(stopped \/ m_stream = "closed")
    <3>1. PICK w \in Nat, t \in Nat : Flows(w, t)
      BY <2>open DEF Inv, InFlow
    <3>2. ~At("data") /\ At("data")' /\ At("write")' = At("write")
      <4>1. ~At("data")
        BY <1>1, NobodyEncodes
      <4>2. At("data")'
        BY <1>5 DEF At
      <4>3. At("write")' = At("write")
        BY <1>1, <1>5 DEF At
      <4> QED
        BY <4>1, <4>2, <4>3
    <3>3. Encoded' = Encoded /\ Ended' = Ended
      BY <1>1, <1>2 DEF Encoded, Ended
    <3>4. t <= Encoded /\ Len(m_buffer) = 2 * (Encoded - t) + 0 /\ Encoded \in Nat
      BY <3>1, <3>2, Numbers DEF Flows
    <3>5. Len(m_buffer') = 2 * (Encoded - t) + 1 /\ Len(m_buffer) = 2 * (Encoded - t)
      BY <1>8, <3>4
    <3>6. Holds(m_buffer', t, Encoded)
      BY <1>8, <3>1, <3>4, <3>5, HoldsFirst DEF Flows
    <3>7. m_buffer'[Len(m_buffer')] = <<Encoded + 1, "head">>
      BY <1>3, <1>8
    <3>8. \A j \in Sends : pc'[j] \in {"write", "ok"} => pc[j] \in {"write", "ok"}
      BY <1>5
    <3>9. Flows(w, t)'
      <4>1. /\ w <= t /\ Ended <= t /\ t <= Encoded /\ Len(wire) = 2 * w /\ Holds(wire, 0, w)
            /\ \A j \in Sends : pc'[j] \in {"write", "ok"} => j <= t
        BY <3>1, <3>8 DEF Flows
      <4>2. Broken' = Broken
        BY <1>2 DEF Broken
      <4> QED
        BY <1>1, <1>5, <3>1, <3>2, <3>3, <3>5, <3>6, <3>7, <4>1, <4>2 DEF Flows, Holds
    <3> QED
      BY <3>9 DEF InFlow
  <2> QED
    BY <2>0, <2>open
<1>10. SendTyped'
  BY <1>1, <1>2, <1>5, <1>8 DEF Inv, Typed, SendTyped, Labels, Working
<1> QED
  BY <1>1, <1>4, <1>6, <1>7, <1>9, <1>10, AsyncInv

(* encode_ok: the frame is whole, and waits to be sent.                    *)
LEMMA EncodeOkInv ==
    ASSUME Inv, NEW i \in Sends, EncodeOk(i)
    PROVE  Inv'
<1>1. /\ pc[i] = "data"
      /\ m_buffer' = IF m_buffer = << >> THEN << >> ELSE Append(m_buffer, <<i, "data">>)
      /\ m_lockBuffer' = Tail(m_lockBuffer) /\ m_lockEncode' = Tail(m_lockEncode)
      /\ m_lockSend' = Append(m_lockSend, i)
      /\ Goto(i, "flush") /\ UNCHANGED <<others, users, jobs>>
      /\ UNCHANGED <<batch, wire>>
  BY DEF EncodeOk
<1>2. /\ role' = role /\ sends' = sends /\ m_stream' = m_stream /\ gone' = gone
      /\ stopped' = stopped /\ releasing' = releasing /\ late' = late /\ m_ioState' = m_ioState
  BY <1>1 DEF others, state, peer, ending, users
<1>3. i = Encoded + 1 /\ i \in Nat /\ Owns(m_lockBuffer, i) /\ i <= Len(sends)
  BY <1>1, Firsts DEF Inv, Queued, Locked, Encoding
<1>4. "flush" \in Labels /\ "flush" \in Working /\ pc[i] \in Working
  BY <1>1 DEF Labels, Working
<1>5. /\ pc' \in [Sends -> Labels] /\ pc'[i] = "flush" /\ \A j \in Sends : j # i => pc'[j] = pc[j]
      /\ Sends' = Sends /\ Parts' = Parts
  BY <1>1, <1>2, <1>4, Stepped
<1>t. /\ m_lockEncode \in Seq(Sends) /\ m_lockSend \in Seq(Sends) /\ m_buffer \in Seq(Parts)
  BY DEF Inv, Typed, SendTyped
<1> DEFINE e == Len(m_lockEncode)
           d == Len(m_lockSend)
<1>n. /\ e \in Nat /\ d \in Nat /\ Len(sends) \in Nat /\ Encoded \in Nat /\ Ended \in Nat
      /\ Encoded = Len(sends) - e /\ Ended = Encoded - d
  BY Numbers
<1>6. /\ m_lockEncode' \in Seq(Sends) /\ Len(m_lockEncode') = e - 1
      /\ \A k \in 1..(e - 1) : m_lockEncode'[k] = m_lockEncode[k + 1]
  <2>1. e # 0
    BY <1>n, <1>3
  <2>2. m_lockEncode # << >>
    BY <2>1, EmptySeq
  <2> QED
    BY <1>t, <1>1, <2>2, Rest
<1>7. /\ m_lockSend' \in Seq(Sends) /\ Len(m_lockSend') = d + 1 /\ m_lockSend'[d + 1] = i
      /\ \A k \in 1..d : m_lockSend'[k] = m_lockSend[k]
  BY <1>t, <1>1, Appended
<1>b. ASSUME m_buffer # << >>
      PROVE  /\ m_buffer' \in Seq(Parts) /\ Len(m_buffer') = Len(m_buffer) + 1
             /\ Len(m_buffer) \in Nat /\ m_buffer'[Len(m_buffer) + 1] = <<i, "data">>
             /\ \A k \in 1..Len(m_buffer) : m_buffer'[k] = m_buffer[k]
  <2>1. <<i, "data">> \in Parts
    BY DEF Parts
  <2> QED
    BY <1>1, <1>b, <1>t, <2>1, Appended
<1>8. m_buffer' \in Seq(Parts)
  BY <1>1, <1>b, EmptySeq
<1> HIDE DEF e, d
<1>9. Encoded' = Encoded + 1 /\ Ended' = Ended
  <2>1. Encoded' = Len(sends) - (e - 1)
    BY <1>2, <1>6 DEF Encoded
  <2>2. Encoded' = Encoded + 1
    BY <2>1, <1>n
  <2>3. Ended' = Encoded' - (d + 1)
    BY <1>7 DEF Ended
  <2> QED
    BY <2>2, <2>3, <1>n
<1>10. Queued'
  <2>1. \A k \in 1..(e - 1) : m_lockEncode'[k] = (Encoded + 1) + k
    <3>1. \A k \in 1..(e - 1) : k + 1 \in 1..e /\ Encoded + (k + 1) = (Encoded + 1) + k
      BY <1>n
    <3>2. \A k \in 1..e : m_lockEncode[k] = Encoded + k
      BY DEF Inv, Queued, e
    <3> QED
      BY <1>6, <3>1, <3>2
  <2>2. \A k \in 1..(d + 1) : m_lockSend'[k] = Ended + k
    <3>1. (\A k \in 1..(d + 1) : k \in 1..d \/ k = d + 1) /\ i = Ended + (d + 1)
      BY <1>n, <1>3
    <3>2. \A k \in 1..d : m_lockSend[k] = Ended + k
      BY DEF Inv, Queued, d
    <3> QED
      BY <1>7, <3>1, <3>2
  <2>3. ASSUME NEW j \in Sends
        PROVE  /\ pc'[j] = "none" <=> j <= Ended \/ Len(sends) < j
               /\ pc'[j] \in Encoding <=> Encoded + 1 < j /\ j <= Len(sends)
               /\ pc'[j] \in Sending <=> Ended < j /\ j <= Encoded + 1
               /\ pc'[j] \in {"head", "data", "failed"} => j = (Encoded + 1) + 1
               /\ pc'[j] \in {"take", "write", "ok"} => j = Ended + 1
    <3>1. CASE j = i
      <4>1. pc'[j] = "flush"
        BY <1>5, <3>1
      <4>2. Ended < j /\ j <= Encoded + 1 /\ ~(Encoded + 1 < j) /\ ~(j <= Ended) /\ ~(Len(sends) < j)
        BY <3>1, <1>3, <1>n
      <4> QED
        BY <4>1, <4>2 DEF Encoding, Sending
    <3>2. CASE j # i
      <4>1. /\ pc[j] = "none" <=> j <= Ended \/ Len(sends) < j
            /\ pc[j] \in Encoding <=> Encoded < j /\ j <= Len(sends)
            /\ pc[j] \in Sending <=> Ended < j /\ j <= Encoded
            /\ pc[j] \in {"head", "data", "failed"} => j = Encoded + 1
            /\ pc[j] \in {"take", "write", "ok"} => j = Ended + 1
        BY DEF Inv, Queued
      <4>2. j \in Nat
        BY Numbers
      <4>3. (Encoded < j <=> Encoded + 1 < j) /\ (j <= Encoded <=> j <= Encoded + 1)
        BY <3>2, <4>2, <1>3, <1>n
      <4>4. pc'[j] = pc[j]
        BY <3>2, <1>5
      <4> QED
        BY <3>2, <4>1, <4>3, <4>4, <1>3
    <3> QED
      BY <3>1, <3>2
  <2>4. Ended >= 0
    BY <1>n
  <2> QED
    BY <2>1, <2>2, <2>3, <2>4, <1>2, <1>5, <1>6, <1>7, <1>9 DEF Queued
<1>11. Locked' /\ m_lockBuffer' \in Seq(Sends)
  BY <1>1, <1>2, <1>3, LockedTail
<1>12. InFlow'
  <2>0. CASE stopped \/ m_stream = "closed"
    BY <1>1, <1>2, <2>0, FlowOver
  <2>open. CASE ~(stopped \/ m_stream = "closed")
    <3>1. PICK w \in Nat, t \in Nat : Flows(w, t)
      BY <2>open DEF Inv, InFlow
    <3>2. At("data") /\ ~At("data")' /\ At("write")' = At("write")
      <4>1. At("data")
        BY <1>1 DEF At
      <4>2. ASSUME NEW j \in Sends, pc'[j] = "data" PROVE FALSE
        <5>1. j # i /\ pc[j] = "data"
          BY <4>2, <1>5
        <5> QED
          BY <5>1, <1>3, Firsts
      <4>3. At("write")' = At("write")
        BY <1>1, <1>5 DEF At
      <4> QED
        BY <4>1, <4>2, <4>3, <1>5 DEF At
    <3>3. /\ t <= Encoded /\ Len(m_buffer) = 2 * (Encoded - t) + 1
          /\ m_buffer[Len(m_buffer)] = <<Encoded + 1, "head">> /\ Holds(m_buffer, t, Encoded)
      BY <3>1, <3>2 DEF Flows
    <3>m. m_buffer # << >>
      <4>1. Len(m_buffer) # 0
        BY <1>n, <3>3
      <4> QED
        BY <4>1, EmptySeq
    <3>b. /\ Len(m_buffer') = Len(m_buffer) + 1
          /\ Len(m_buffer) \in Nat /\ m_buffer'[Len(m_buffer) + 1] = <<i, "data">>
          /\ \A k \in 1..Len(m_buffer) : m_buffer'[k] = m_buffer[k]
      BY <1>b, <3>m
    <3>4. /\ Len(m_buffer') = 2 * ((Encoded + 1) - t) + 0
          /\ Len(m_buffer) \in 1..Len(m_buffer)
          /\ Len(m_buffer) + 1 = 2 * (Encoded - t) + 2
          /\ \A k \in 1..(2 * (Encoded - t)) : k \in 1..Len(m_buffer)
      BY <3>b, <1>n, <3>3
    <3>5. Holds(m_buffer', t, Encoded)
      BY <3>b, <1>n, <3>3, <3>4, HoldsFirst
    <3>6. /\ m_buffer'[2 * (Encoded - t) + 1] = <<Encoded + 1, "head">>
          /\ m_buffer'[2 * (Encoded - t) + 2] = <<Encoded + 1, "data">>
      <4>1. m_buffer'[Len(m_buffer)] = <<Encoded + 1, "head">>
        BY <3>b, <3>3, <3>4
      <4>2. m_buffer'[Len(m_buffer) + 1] = <<Encoded + 1, "data">>
        BY <1>3, <3>b
      <4> QED
        BY <3>3, <3>4, <4>1, <4>2
    <3>7. Holds(m_buffer', t, Encoded + 1)
      BY <1>n, <3>3, <3>5, <3>6, HoldsMore
    <3>8. \A j \in Sends : pc'[j] \in {"write", "ok"} => pc[j] \in {"write", "ok"}
      BY <1>5
    <3>9. Flows(w, t)'
      <4>1. /\ w <= t /\ Ended <= t /\ t <= Encoded /\ Len(wire) = 2 * w /\ Holds(wire, 0, w)
            /\ \A j \in Sends : pc'[j] \in {"write", "ok"} => j <= t
        BY <3>1, <3>8 DEF Flows
      <4>2. Broken' = Broken
        BY <1>2 DEF Broken
      <4>3. t <= Encoded + 1
        BY <4>1, <1>n
      <4> QED
        BY <1>1, <1>5, <1>9, <3>1, <3>2, <3>4, <3>7, <4>1, <4>2, <4>3 DEF Flows, Holds
    <3> QED
      BY <3>9 DEF InFlow
  <2> QED
    BY <2>0, <2>open
<1>13. SendTyped'
  BY <1>1, <1>2, <1>5, <1>6, <1>7, <1>8, <1>11 DEF Inv, Typed, SendTyped, Labels, Working
<1>15. Len(m_lockEncode') + Len(m_lockSend') = Len(m_lockEncode) + Len(m_lockSend)
  <2>1. (e - 1) + (d + 1) = e + d
    BY <1>n
  <2> QED
    BY <2>1, <1>6, <1>7 DEF e, d
<1> QED
  BY <1>1, <1>4, <1>10, <1>11, <1>12, <1>13, <1>15, AsyncInv

(* send: all that is encoded is taken over.                                *)
LEMMA TakeInv ==
    ASSUME Inv, NEW i \in Sends, Take(i)
    PROVE  Inv'
<1> DEFINE l == IF m_buffer = << >> THEN "ok" ELSE "write"
<1>1. /\ pc[i] = "take" /\ Owns(m_lockBuffer, i) /\ batch' = m_buffer /\ m_buffer' = << >>
      /\ m_lockBuffer' = Tail(m_lockBuffer)
      /\ Goto(i, l) /\ UNCHANGED <<others, users, jobs>>
      /\ UNCHANGED <<m_lockEncode, m_lockSend, wire>>
  BY DEF Take
<1>l. /\ l \in {"flush", "write", "ok"} /\ l \in Labels /\ l \in Sending
      /\ l # "data" /\ (l = "write" <=> m_buffer # << >>) /\ l \in Working /\ pc[i] \in Working
  BY <1>1 DEF Labels, Sending, Working
<1> HIDE DEF l
<1>2. /\ role' = role /\ sends' = sends /\ m_stream' = m_stream /\ gone' = gone
      /\ stopped' = stopped /\ releasing' = releasing /\ late' = late /\ m_ioState' = m_ioState
  BY <1>1 DEF others, state, peer, ending, users
<1>3. i = Ended + 1 /\ i <= Encoded
  BY <1>1, Firsts DEF Inv, Queued, Sending
<1>5. /\ pc' \in [Sends -> Labels] /\ pc'[i] = l /\ \A j \in Sends : j # i => pc'[j] = pc[j]
      /\ Sends' = Sends /\ Parts' = Parts
  BY <1>1, <1>l, <1>2, Stepped
<1>6. Queued'
  BY <1>1, <1>l, <1>2, <1>3, QueuedKeeps DEF Sending
<1>7. Locked' /\ m_lockBuffer' \in Seq(Sends)
  BY <1>1, <1>l, <1>2, LockedTail
<1>8. InFlow'
  <2>0. CASE stopped \/ m_stream = "closed"
    BY <1>1, <1>2, <2>0, FlowOver
  <2>open. CASE ~(stopped \/ m_stream = "closed")
    <3>1. PICK w \in Nat, t \in Nat : Flows(w, t)
      BY <2>open DEF Inv, InFlow
    <3>2. ~At("data") /\ ~At("data")'
      <4>1. ~At("data")
        BY <1>1, NobodyEncodes
      <4> QED
        BY <4>1, <1>l, <1>5 DEF At
    <3>3. ~At("write") /\ (At("write")' <=> l = "write")
      <4>1. ASSUME NEW j \in Sends, pc[j] = "write" PROVE FALSE
        <5>1. j = Ended + 1
          BY <4>1, Firsts
        <5> QED
          BY <5>1, <4>1, <1>1, <1>3
      <4> QED
        BY <4>1, <1>5 DEF At
    <3>4. Encoded' = Encoded /\ Ended' = Ended
      BY <1>1, <1>2 DEF Encoded, Ended
    <3>5. /\ w <= t /\ Ended <= t /\ t <= Encoded /\ Len(wire) = 2 * w /\ Holds(wire, 0, w)
          /\ Len(m_buffer) = 2 * (Encoded - t) + 0 /\ Holds(m_buffer, t, Encoded)
          /\ Broken \/ w = t
      BY <3>1, <3>2, <3>3 DEF Flows
    <3>6. Encoded \in Nat /\ Ended \in Nat /\ Ended <= Encoded
      BY Numbers
    <3>7. /\ w <= Encoded /\ Encoded <= Encoded /\ Len(<< >>) = 2 * (Encoded - Encoded) + 0
          /\ Len(m_buffer) = 2 * (Encoded - t)
          /\ \A k \in 1..(Encoded - Encoded) : FALSE
      BY <3>5, <3>6
    <3>8. ASSUME NEW j \in Sends, pc'[j] \in {"write", "ok"} PROVE j <= Encoded
      <4>1. CASE j = i
        BY <4>1, <1>3
      <4>2. CASE j # i
        <5>1. pc[j] \in {"write", "ok"}
          BY <4>2, <3>8, <1>5
        <5>2. j = Ended + 1
          BY <5>1, Firsts
        <5> QED
          BY <5>2, <4>2, <1>3
      <4> QED
        BY <4>1, <4>2
    <3>v. PICK v \in Nat : v = Encoded
      BY <3>6
    <3>9. CASE Broken
      <4>1. Broken'
        BY <3>9, <1>2 DEF Broken
      <4>2. Flows(w, v)'
        BY <1>1, <1>5, <3>2, <3>4, <3>5, <3>6, <3>7, <3>8, <3>v, <4>1 DEF Flows, Holds
      <4> QED
        BY <3>v, <4>2 DEF InFlow
    <3>10. CASE w = t
      <4>1. CASE m_buffer # << >>
        <5>1. Flows(w, v)'
          BY <1>1, <1>l, <1>5, <3>2, <3>3, <3>4, <3>5, <3>6, <3>7, <3>8, <3>v, <3>10, <4>1 DEF Flows, Holds
        <5> QED
          BY <3>v, <5>1 DEF InFlow
      <4>2. CASE m_buffer = << >>
        <5>1. Len(m_buffer) = 0
          BY <4>2, EmptySeq
        <5>2. t = Encoded
          BY <5>1, <3>5, <3>6
        <5>3. Flows(w, v)'
          BY <1>1, <1>l, <1>5, <3>2, <3>3, <3>4, <3>5, <3>6, <3>7, <3>8, <3>v, <3>10, <4>2, <5>2 DEF Flows, Holds
        <5> QED
          BY <3>v, <5>3 DEF InFlow
      <4> QED
        BY <4>1, <4>2
    <3> QED
      BY <3>5, <3>9, <3>10
  <2> QED
    BY <2>0, <2>open
<1>9. SendTyped'
  BY <1>1, <1>2, <1>5, <1>7, EmptySeq DEF Inv, Typed, SendTyped, Labels, Working
<1> QED
  BY <1>1, <1>l, <1>6, <1>7, <1>8, <1>9, AsyncInv

(* copyTo(): the batch is written.                                         *)
LEMMA WriteInv ==
    ASSUME Inv, NEW i \in Sends, Write(i)
    PROVE  Inv'
<1>1. /\ pc[i] = "write" /\ m_stream = "open" /\ ~gone
      /\ wire' = wire \o batch /\ batch' = << >>
      /\ Goto(i, "ok") /\ UNCHANGED <<others, users, jobs>>
      /\ UNCHANGED <<m_lockEncode, m_lockBuffer, m_lockSend, m_buffer>>
  BY DEF Write, memory, users
<1>2. /\ role' = role /\ sends' = sends /\ m_stream' = m_stream /\ gone' = gone
      /\ stopped' = stopped /\ releasing' = releasing /\ late' = late /\ m_ioState' = m_ioState
  BY <1>1 DEF others, state, peer, ending, users
<1>3. i = Ended + 1
  BY <1>1, Firsts
<1>4. "ok" \in Labels /\ "ok" \in Working /\ pc[i] \in Working
  BY <1>1 DEF Labels, Working
<1>5. /\ pc' \in [Sends -> Labels] /\ pc'[i] = "ok" /\ \A j \in Sends : j # i => pc'[j] = pc[j]
      /\ Sends' = Sends /\ Parts' = Parts
  BY <1>1, <1>2, <1>4, Stepped
<1>6. Queued'
  BY <1>1, <1>2, <1>3, <1>4, QueuedKeeps DEF Sending
<1>7. Locked'
  <2>1. \A j \in Sends : pc'[j] \in {"head", "data", "take", "failed"} <=> pc[j] \in {"head", "data", "take", "failed"}
    BY <1>1, <1>5
  <2>2. \A j \in Sends : pc'[j] = "data" => pc[j] = "data"
    BY <1>1, <1>5
  <2> QED
    BY <1>1, <1>5, <2>1, <2>2 DEF Inv, Locked, Owns
<1>w. wire \in Seq(Parts) /\ batch \in Seq(Parts)
  BY DEF Inv, Typed, SendTyped
<1> DEFINE c == wire \o batch
<1>8. /\ c \in Seq(Parts) /\ Len(c) = Len(wire) + Len(batch)
      /\ \A k \in 1..Len(wire) : c[k] = wire[k]
      /\ \A k \in 1..Len(batch) : c[Len(wire) + k] = batch[k]
  BY <1>w, Joined
<1>c. wire' = c
  BY <1>1
<1> HIDE DEF c
<1>9. InFlow'
  <2>0. CASE stopped
    BY <1>2, <2>0 DEF InFlow
  <2>open. CASE ~stopped
    <3>1. PICK w \in Nat, t \in Nat : Flows(w, t)
      BY <1>1, <2>open DEF Inv, InFlow
    <3>2. At("data")' = At("data") /\ At("write") /\ ~At("write")'
      <4>1. ASSUME NEW j \in Sends, pc'[j] = "write" PROVE FALSE
        <5>1. j # i /\ pc[j] = "write"
          BY <4>1, <1>5
        <5> QED
          BY <5>1, <1>3, Firsts
      <4>2. At("data")' = At("data")
        BY <1>1, <1>5 DEF At
      <4> QED
        BY <4>1, <4>2, <1>1, <1>5 DEF At
    <3>3. Encoded' = Encoded /\ Ended' = Ended
      BY <1>1, <1>2 DEF Encoded, Ended
    <3>4. /\ w <= t /\ Len(wire) = 2 * w /\ Holds(wire, 0, w)
          /\ Len(batch) = 2 * (t - w) /\ Holds(batch, w, t)
      BY <1>1, <3>1, <3>2 DEF Flows, Broken
    <3>5. Len(c) = 2 * t
      BY <1>8, <3>4
    <3>6. Holds(c, 0, t)
      BY <1>8, <3>4, HoldsJoin
    <3>7. \A j \in Sends : pc'[j] \in {"write", "ok"} => pc[j] \in {"write", "ok"}
      BY <1>1, <1>5
    <3>8. /\ Ended <= t /\ t <= Encoded /\ t <= t
          /\ \A j \in Sends : pc'[j] \in {"write", "ok"} => j <= t
      BY <3>1, <3>7 DEF Flows
    <3>9. Flows(t, t)'
      BY <1>1, <1>c, <1>5, <3>1, <3>2, <3>3, <3>5, <3>6, <3>8 DEF Flows, Holds
    <3> QED
      BY <3>9 DEF InFlow
  <2> QED
    BY <2>0, <2>open
<1>10. SendTyped'
  BY <1>1, <1>2, <1>5, <1>8, <1>c, EmptySeq DEF Inv, Typed, SendTyped, Labels, Working
<1> QED
  BY <1>1, <1>4, <1>6, <1>7, <1>9, <1>10, AsyncInv

(* What the end of an asyncSend may do to the connection.                  *)
Closes(i) ==
    /\ m_stream' = m_stream \/ (m_stream = "open" /\ m_stream' = "closed")
    /\ \/ m_closeState' = "CLOSED"
       \/ /\ m_closeState' = m_closeState
          /\ sends[i] # [from |-> "peer", type |-> "close"]
    /\ m_closeState = "CLOSED" => m_closeState' = "CLOSED"
    /\ jobs' \in Seq(Event) /\ Quiet' /\ ReportedOnce' /\ Shut'

(* ~asyncSend: its place in m_lockSend and its share of the memory go.     *)
LEMMA SendEndsInv ==
    ASSUME Inv, NEW i \in Sends, SendEnds(i), Closes(i),
           pc[i] = "ok" \/ (pc[i] = "write" /\ Broken)
    PROVE  Inv'
<1>1. /\ m_lockSend' = Tail(m_lockSend) /\ free_mem(i) /\ Goto(i, "none") /\ batch' = << >>
      /\ UNCHANGED <<role, m_readyState, holding, terminating, conn, reader, sends>>
      /\ UNCHANGED <<m_lockEncode, m_lockBuffer, wire, inbox, sent, gone, log, stopping, stopped>>
      /\ UNCHANGED <<m_holder, m_buffer, late>>
      /\ m_ioState' = m_ioState - 1
      /\ releasing' = IF m_ioState' = 0 THEN releasing \cup {i} ELSE releasing
  BY DEF SendEnds, peer, ending, free_mem
<1>2. i = Ended + 1 /\ Ended < i /\ i <= Encoded
  BY Firsts DEF Inv, Queued, Sending
<1>3. "none" \in Labels
  BY DEF Labels
<1>4. /\ pc' \in [Sends -> Labels] /\ pc'[i] = "none" /\ \A j \in Sends : j # i => pc'[j] = pc[j]
      /\ Sends' = Sends /\ Parts' = Parts
  BY <1>1, <1>3, Stepped
<1> DEFINE d == Len(m_lockSend)
           e == Len(m_lockEncode)
<1>n. /\ Encoded \in Nat /\ Ended \in Nat /\ Ended <= Encoded /\ Encoded <= Len(sends)
      /\ Encoded = Len(sends) - e /\ Ended = Encoded - d /\ Len(sends) \in Nat
      /\ d \in Nat /\ e \in Nat /\ i \in Nat
  BY Numbers
<1>5. m_lockSend \in Seq(Sends) /\ m_lockSend # << >>
  <2>1. d # 0
    <3> HIDE DEF d, e
    <3> QED
      BY <1>2, <1>n
  <2> QED
    BY <2>1, EmptySeq DEF Inv, Typed, SendTyped
<1>6. /\ m_lockSend' \in Seq(Sends) /\ Len(m_lockSend') = d - 1 /\ d >= 1
      /\ \A k \in 1..(d - 1) : m_lockSend'[k] = m_lockSend[k + 1]
  BY <1>1, <1>5, Rest
<1>7. Encoded' = Encoded /\ Ended' = Encoded - (d - 1)
  BY <1>1, <1>6 DEF Encoded, Ended
<1>q. \A k \in 1..d : m_lockSend[k] = Ended + k
  BY DEF Inv, Queued, d
<1>r. \A k \in 1..e : m_lockEncode[k] = Encoded + k
  BY DEF Inv, Queued, e
<1>s. m_lockEncode' = m_lockEncode /\ Len(m_lockEncode') = e /\ Len(m_lockEncode) = e
  BY <1>1
<1> HIDE DEF d, e
<1>8. Ended' = Ended + 1
  BY <1>7, <1>n
<1>9. Queued'
  <2>1. \A k \in 1..(d - 1) : m_lockSend'[k] = (Ended + 1) + k
    <3>1. \A k \in 1..(d - 1) : k + 1 \in 1..d /\ Ended + (k + 1) = (Ended + 1) + k
      BY <1>n
    <3> QED
      BY <1>6, <1>q, <3>1
  <2>2. ASSUME NEW j \in Sends
        PROVE  /\ pc'[j] = "none" <=> j <= Ended + 1 \/ Len(sends) < j
               /\ pc'[j] \in Encoding <=> Encoded < j /\ j <= Len(sends)
               /\ pc'[j] \in Sending <=> Ended + 1 < j /\ j <= Encoded
               /\ pc'[j] \in {"head", "data", "failed"} => j = Encoded + 1
               /\ pc'[j] \in {"take", "write", "ok"} => j = (Ended + 1) + 1
    <3>1. CASE j = i
      <4>1. j <= Ended + 1 /\ ~(Encoded < j) /\ ~(Ended + 1 < j)
        BY <3>1, <1>2, <1>n
      <4> QED
        BY <3>1, <4>1, <1>4 DEF Encoding, Sending
    <3>2. CASE j # i
      <4>1. /\ pc[j] = "none" <=> j <= Ended \/ Len(sends) < j
            /\ pc[j] \in Encoding <=> Encoded < j /\ j <= Len(sends)
            /\ pc[j] \in Sending <=> Ended < j /\ j <= Encoded
            /\ pc[j] \in {"head", "data", "failed"} => j = Encoded + 1
            /\ pc[j] \in {"take", "write", "ok"} => j = Ended + 1
        BY DEF Inv, Queued
      <4>2. j \in Nat
        BY Numbers
      <4>3. (Ended < j <=> Ended + 1 < j) /\ (j <= Ended <=> j <= Ended + 1)
        BY <3>2, <4>2, <1>2, <1>n
      <4>4. pc'[j] = pc[j]
        BY <3>2, <1>4
      <4> QED
        BY <3>2, <4>1, <4>3, <4>4, <1>2
    <3> QED
      BY <3>1, <3>2
  <2>3. Ended + 1 >= 0
    BY <1>n
  <2> QED
    BY <2>1, <2>2, <2>3, <1>1, <1>4, <1>6, <1>7, <1>8, <1>r, <1>s DEF Queued
<1>10. Locked'
  <2>1. \A j \in Sends : pc'[j] \in {"head", "data", "take", "failed"} <=> pc[j] \in {"head", "data", "take", "failed"}
    BY <1>4
  <2>2. \A j \in Sends : pc'[j] \in {"data", "failed"} => pc[j] \in {"data", "failed"}
    BY <1>4
  <2> QED
    BY <1>1, <1>4, <2>1, <2>2 DEF Inv, Locked, Owns
<1>f. At("failed")' = At("failed")
  BY <1>4 DEF At
<1>11. Counted' /\ m_ioState' \in Nat
  <2> DEFINE a == IF At("failed") THEN 1 ELSE 0
             b == IF Reading THEN 1 ELSE 0
  <2>1. m_ioState + a = e + d + b /\ a \in 0..1 /\ b \in 0..1 /\ m_ioState \in Nat
    BY DEF Inv, Counted, e, d, Typed, SendTyped
  <2>2. a = 1 => e >= 1
    <3>1. ASSUME NEW j \in Sends, pc[j] = "failed" PROVE e >= 1
      <4>1. Encoded < j /\ j <= Len(sends)
        BY <3>1 DEF Inv, Queued, Encoding
      <4>2. j \in Nat
        BY Numbers
      <4> QED
        BY <4>1, <4>2, <1>n
    <3> QED
      BY <3>1 DEF At
  <2> HIDE DEF a, b
  <2>3. m_ioState' = m_ioState - 1 /\ e \in Nat /\ d \in Nat /\ d >= 1
    BY <1>1, <1>6, <1>n
  <2>5. m_ioState' + a = e + (d - 1) + b /\ m_ioState' \in Nat
    BY <2>1, <2>2, <2>3
  <2>4. Reading' <=> Reading
    BY <1>1 DEF Reading
  <2> QED
    BY <2>4, <2>5, <1>f, <1>6, <1>s DEF Counted, a, b
<1>16. InFlow'
  <2>0. CASE stopped \/ m_stream = "closed"
    <3>1. m_stream = "closed" => m_stream' = "closed"
      BY DEF Closes
    <3> QED
      BY <1>1, <2>0, <3>1, FlowOver
  <2>open. CASE ~(stopped \/ m_stream = "closed")
    <3>1. PICK w \in Nat, t \in Nat : Flows(w, t)
      BY <2>open DEF Inv, InFlow
    <3>2. i <= t /\ t <= Encoded
      BY <3>1 DEF Flows
    <3>3. At("data")' = At("data") /\ ~At("write")'
      <4>1. ASSUME NEW j \in Sends, pc'[j] = "write" PROVE FALSE
        <5>1. j # i /\ pc[j] = "write"
          BY <4>1, <1>4
        <5> QED
          BY <5>1, <1>2, Firsts
      <4>2. At("data")' = At("data")
        BY <1>4 DEF At
      <4> QED
        BY <4>1, <4>2, <1>4 DEF At
    <3>4. Ended + 1 <= t
      BY <1>2, <3>2
    <3>5. \A j \in Sends : pc'[j] \in {"write", "ok"} => pc[j] \in {"write", "ok"}
      BY <1>4
    <3>6. /\ w <= t /\ Len(wire) = 2 * w /\ Holds(wire, 0, w)
          /\ \A j \in Sends : pc'[j] \in {"write", "ok"} => j <= t
      BY <3>1, <3>5 DEF Flows
    <3>7. Broken' \/ w = t
      <4>1. Broken => Broken'
        BY <1>1 DEF Broken, Closes
      <4>2. CASE pc[i] = "ok"
        <5>1. ASSUME NEW j \in Sends, pc[j] = "write" PROVE FALSE
          BY <5>1, <4>2, <1>2, Firsts
        <5>2. ~At("write")
          BY <5>1 DEF At
        <5> QED
          BY <5>2, <4>1, <3>1 DEF Flows
      <4> QED
        BY <4>1, <4>2
    <3>8. Flows(w, t)'
      BY <1>1, <1>4, <1>7, <1>8, <3>1, <3>2, <3>3, <3>4, <3>6, <3>7 DEF Flows, Holds
    <3> QED
      BY <3>8 DEF InFlow
  <2> QED
    BY <2>0, <2>open
<1>17. SendTyped'
  <2>1. releasing' \subseteq Sends \cup {Reader}
    BY <1>1 DEF Inv, Typed, SendTyped
  <2> QED
    BY <1>1, <1>4, <1>6, <1>11, <2>1, EmptySeq DEF Inv, Typed, SendTyped, Labels, Working, Reader
<1>18. StateTyped'
  BY <1>1 DEF Inv, Typed, StateTyped, States, Closes
<1>19. Pinned'
  BY <1>1 DEF Inv, Pinned, Closes
<1>20. Bounded'
  BY <1>1, PeerKeeps
<1>21. Answered'
  BY <1>1, <1>4 DEF Inv, Answered, Closes
<1>22. Alone'
  <2>1. \A j \in Sends : AtWork(j)' => AtWork(j)
    BY <1>4 DEF AtWork
  <2>2. At("failed")' => m_closeState' = "CLOSED"
    BY <1>f DEF Inv, Alone, Closes
  <2>3. Reading' => Reading
    BY <1>1 DEF Reading
  <2>4. m_closeState = "CLOSED" => m_closeState' = "CLOSED"
    BY DEF Closes
  <2> QED
    BY <1>1, <1>9, <1>11, <1>17, <1>18, <1>21, <2>1, <2>2, <2>3, <2>4, FreedAlone DEF Typed
<1>23. Quiet' /\ ReportedOnce'
  BY DEF Closes
<1> QED
  BY <1>9, <1>10, <1>11, <1>16, <1>17, <1>18, <1>19, <1>20, <1>21, <1>22, <1>23 DEF Inv, Typed

(* sendTo() fails: the connection ends, and the asyncSend dies with its     *)
(* locks.                                                                  *)
LEMMA EncodeFailsInv ==
    ASSUME Inv, NEW i \in Sends, EncodeFails(i)
    PROVE  Inv'
<1>1. /\ pc[i] \in {"head", "data"} /\ Owns(m_lockBuffer, i) /\ EndConnect(Failure)
      /\ free_mem(i) /\ Goto(i, "failed")
      /\ UNCHANGED <<role, m_readyState, holding, terminating, conn, reader, sends>>
      /\ UNCHANGED <<m_lockEncode, m_lockBuffer, m_lockSend, batch, wire, inbox, sent, gone, log>>
      /\ UNCHANGED <<stopping, stopped, m_holder, m_buffer, late>>
      /\ m_ioState' = m_ioState - 1
      /\ releasing' = IF m_ioState' = 0 THEN releasing \cup {i} ELSE releasing
  BY DEF EncodeFails, peer, ending, free_mem
<1>2. "failed" \in Labels
  BY DEF Labels
<1>3. i = Encoded + 1 /\ i \in Nat /\ i <= Len(sends)
  BY <1>1, Firsts DEF Inv, Queued, Encoding
<1>4. /\ pc' \in [Sends -> Labels] /\ pc'[i] = "failed" /\ \A j \in Sends : j # i => pc'[j] = pc[j]
      /\ Sends' = Sends /\ Parts' = Parts
  BY <1>1, <1>2, Stepped
<1>o. m_stream # "none"
  BY <1>1, SendsOpen
<1>5. /\ m_closeState' = "CLOSED" /\ jobs' \in Seq(Event) /\ Quiet' /\ ReportedOnce'
      /\ m_stream' = m_stream \/ (m_stream = "open" /\ m_stream' = "closed")
      /\ Shut'
  BY <1>1, <1>o, EndConnectEnds
<1>6. Queued'
  BY <1>1, <1>2, <1>3, QueuedKeeps DEF Encoding
<1>7. Locked'
  <2>1. \A j \in Sends : pc'[j] \in {"head", "data", "take", "failed"} <=> pc[j] \in {"head", "data", "take", "failed"}
    BY <1>1, <1>4
  <2>2. \A j \in Sends : pc'[j] \in {"data", "failed"} => Owns(m_lockBuffer, j)
    BY <1>1, <1>4 DEF Inv, Locked
  <2> QED
    BY <1>1, <1>4, <2>1, <2>2 DEF Inv, Locked, Owns
<1>8. InFlow'
  <2>1. stopped' \/ m_stream' = "closed"
    BY <1>o, <1>5 DEF Shut
  <2> QED
    BY <1>1, <2>1, FlowOver
<1>f. At("failed")' /\ ~At("failed")
  <2>1. ASSUME NEW j \in Sends, pc[j] = "failed" PROVE FALSE
    <3>1. j = Encoded + 1
      BY <2>1, Firsts
    <3> QED
      BY <3>1, <2>1, <1>1, <1>3
  <2> QED
    BY <2>1, <1>4 DEF At
<1>9. Counted' /\ m_ioState' \in Nat
  <2> DEFINE b == IF Reading THEN 1 ELSE 0
  <2>1. m_ioState = Len(m_lockEncode) + Len(m_lockSend) + b /\ b \in 0..1 /\ m_ioState \in Nat
    BY <1>f DEF Inv, Counted, Typed, SendTyped
  <2> HIDE DEF b
  <2>2. m_ioState' + 1 = Len(m_lockEncode) + Len(m_lockSend) + b
    BY <2>1, <1>1
  <2>3. Len(m_lockEncode) >= 1
    BY <1>3, Numbers
  <2>4. m_ioState' \in Nat
    <3>1. m_ioState' = m_ioState - 1
      BY <1>1
    <3>2. PICK x \in Nat, y \in Nat : x = Len(m_lockEncode) /\ y = Len(m_lockSend)
      BY Numbers
    <3>3. m_ioState = x + y + b /\ x >= 1
      BY <2>1, <2>3, <3>2
    <3> QED
      BY <2>1, <3>1, <3>2, <3>3
  <2>5. Reading' <=> Reading
    BY <1>1 DEF Reading
  <2> QED
    BY <2>2, <2>4, <2>5, <1>1, <1>f DEF Counted, b
<1>10. SendTyped'
  <2>1. releasing' \subseteq Sends \cup {Reader}
    BY <1>1 DEF Inv, Typed, SendTyped
  <2> QED
    BY <1>1, <1>4, <1>9, <2>1 DEF Inv, Typed, SendTyped, Labels, Working, Reader
<1>11. StateTyped'
  BY <1>1, <1>5 DEF Inv, Typed, StateTyped, States
<1>12. Pinned'
  BY <1>1, <1>5 DEF Inv, Pinned
<1>13. Bounded'
  BY <1>1, PeerKeeps
<1>14. Answered'
  BY <1>5 DEF Answered
<1>15. Alone'
  <2>1. \A j \in Sends : AtWork(j)' => AtWork(j)
    BY <1>1, <1>4 DEF AtWork
  <2>2. Reading' => Reading
    BY <1>1 DEF Reading
  <2> QED
    BY <1>1, <1>5, <1>6, <1>9, <1>10, <1>11, <1>14, <2>1, <2>2, FreedAlone DEF Typed
<1> QED
  BY <1>5, <1>6, <1>7, <1>8, <1>9, <1>10, <1>11, <1>12, <1>13, <1>14, <1>15 DEF Inv, Typed

(* error(): a write that fails ends the connection.                        *)
LEMMA WriteFailsInv ==
    ASSUME Inv, NEW i \in Sends, WriteFails(i)
    PROVE  Inv'
<1>1. /\ pc[i] = "write" /\ Broken /\ SendEnds(i) /\ EndConnect(Failure)
      /\ log' = log /\ terminating' = terminating /\ stopped' = stopped /\ conn' = conn
  BY DEF WriteFails, Broken, SendEnds, ending
<1>o. m_stream # "none"
  BY SendsOpen, <1>1
<1>2. Failure \in {Normal, Failure}
  OBVIOUS
<1>3. Closes(i)
  BY <1>1, <1>2, <1>o, EndConnectEnds DEF Closes
<1> QED
  BY <1>1, <1>3, SendEndsInv

(* ok: the frame is on its way; after a CLOSE this end closes.             *)
LEMMA OkInv ==
    ASSUME Inv, NEW i \in Sends, Ok(i)
    PROVE  Inv'
<1>1. /\ pc[i] = "ok" /\ SendEnds(i) /\ log' = log /\ terminating' = terminating
      /\ stopped' = stopped /\ conn' = conn
  BY DEF Ok, SendEnds, ending
<1>o. m_stream # "none"
  BY SendsOpen, <1>1
<1>2. Closes(i)
  <2>1. CASE Type(i) = "close" /\ Origin(i) \in {"js", "peer"}
    <3>1. PICK e \in {Normal, Failure} : EndConnect(e)
      BY <2>1 DEF Ok, EndByBody
    <3> QED
      BY <1>1, <1>o, <3>1, EndConnectEnds DEF Closes
  <2>2. CASE ~(Type(i) = "close" /\ Origin(i) \in {"js", "peer"})
    <3>1. UNCHANGED <<m_closeState, m_stream, jobs>>
      BY <2>2 DEF Ok
    <3>2. sends[i] # [from |-> "peer", type |-> "close"]
      BY <2>2 DEF Type, Origin
    <3>3. Quiet' /\ ReportedOnce'
      BY <1>1, <3>1, ReportKeeps
    <3>4. Shut'
      BY <1>1, <3>1 DEF Inv, Pinned, Shut
    <3> QED
      BY <3>1, <3>2, <3>3, <3>4 DEF Closes, Inv, Typed, StateTyped
  <2> QED
    BY <2>1, <2>2
<1> QED
  BY <1>1, <1>2, SendEndsInv

-----------------------------------------------------------------------------
(* The whole.                                                              *)

(* The states the connection starts in.                                    *)
LEMMA InitInv == Init => Inv
<1> SUFFICES ASSUME Init PROVE Inv
  OBVIOUS
<1>1. /\ role \in Roles /\ m_closeState = "OPEN" /\ m_ioState = 1 /\ terminating = FALSE
      /\ releasing = {} /\ late = {} /\ stopping = FALSE
      /\ reader = "none" /\ sends = << >> /\ pc = [i \in Sends |-> "none"]
      /\ m_lockEncode = << >> /\ m_lockBuffer = << >> /\ m_lockSend = << >>
      /\ m_buffer = << >> /\ batch = << >> /\ wire = << >>
      /\ inbox = << >> /\ sent = 0 /\ gone = FALSE /\ jobs = << >> /\ log = << >>
      /\ stopped = FALSE
  BY DEF Init
<1>2. /\ m_readyState \in {"CONNECTING", "OPEN"} /\ m_stream \in {"none", "open"}
      /\ m_holder \in BOOLEAN /\ holding \in BOOLEAN /\ conn \in {"handshake", "done"}
      /\ conn = "handshake" => m_stream = "none"
      /\ m_stream = "none" => m_readyState # "OPEN"
  BY DEF Init
<1>3. \A S : << >> \in Seq(S) /\ Len(<< >>) = 0
  OBVIOUS
<1>4. StateTyped
  <2>1. sent \in 0..MaxFrames
    BY <1>1, BoundAssumption
  <2>2. inbox \in Seq(Incoming) /\ jobs \in Seq(Event) /\ log \in Seq(Event)
    BY <1>1, <1>3
  <2> QED
    BY <1>1, <1>2, <2>1, <2>2 DEF StateTyped, States
<1>5. SendTyped
  BY <1>1, <1>3 DEF SendTyped, Reader
<1>6. From("js", sends) = 0 /\ From("peer", sends) = 0
  <2>1. \A x : {i \in 1..Len(sends) : sends[i].from = x} = {}
    BY <1>1, <1>3
  <2> QED
    BY <2>1, FS_EmptySet DEF From
<1>7. Bounded
  <2>1. MaxCalls[role] \in Nat
    BY <1>1, BoundAssumption
  <2> QED
    BY <2>1, <1>1, <1>3, <1>6 DEF Bounded
<1>8. Encoded = 0 /\ Ended = 0
  <2>1. Len(sends) = 0 /\ Len(m_lockEncode) = 0 /\ Len(m_lockSend) = 0
    BY <1>1, <1>3
  <2>2. Encoded = 0
    BY <2>1 DEF Encoded
  <2> QED
    BY <2>1, <2>2 DEF Ended
<1>9. \A i \in Sends : i \in Nat /\ i > 0 /\ pc[i] = "none"
  <2>1. MaxCalls[role] \in Nat /\ MaxFrames \in Nat
    BY <1>1, BoundAssumption
  <2> QED
    BY <2>1, <1>1 DEF Sends
<1>10. Queued
  BY <1>1, <1>3, <1>8, <1>9 DEF Queued, Encoding, Sending
<1>11. Counted
  <2>1. ~At("failed")
    BY <1>9 DEF At
  <2> QED
    BY <2>1, <1>1, <1>3 DEF Counted, Reading
<1>12. Locked
  BY <1>1, <1>3, <1>9 DEF Locked, Owns
<1>13. InFlow
  <2>1. ~At("data") /\ ~At("write")
    BY <1>9 DEF At
  <2>2. Flows(0, 0)
    BY <1>1, <1>3, <1>8, <1>9, <2>1 DEF Flows, Holds
  <2> QED
    BY <2>2 DEF InFlow
<1>14. Answered /\ Pinned
  BY <1>1, <1>2 DEF Answered, Pinned, Shut, Over
<1>a. Alone
  <2>1. ~At("failed")
    BY <1>9 DEF At
  <2> QED
    BY <2>1, <1>1 DEF Alone
<1>15. Quiet /\ ReportedOnce
  <2>1. Len(Events) = 0
    BY <1>1, <1>3 DEF Events
  <2> QED
    BY <2>1 DEF Quiet, ReportedOnce
<1> QED
  BY <1>4, <1>5, <1>7, <1>10, <1>11, <1>12, <1>13, <1>14, <1>15, <1>a DEF Inv, Typed

(* A step that changes nothing.                                            *)
LEMMA StutterInv ==
    ASSUME Inv, UNCHANGED vars
    PROVE  Inv'
<1>1. /\ UNCHANGED <<role, sending, m_ioState, releasing, m_holder, m_buffer, late>>
      /\ UNCHANGED <<terminating, stopping, stopped, conn, reader>>
  BY DEF vars, memory, ending
<1>2. UNCHANGED <<m_readyState, m_closeState, m_stream, holding, inbox, sent, gone, jobs, log>>
  BY DEF vars, state, peer
<1>3. Moves
  BY <1>1, <1>2 DEF Moves, Reading, Over
<1>7. StateTyped' /\ Pinned'
  BY <1>1, <1>2 DEF Inv, Typed, StateTyped, Pinned, Shut, sending
<1>4. sends' = sends
  BY <1>1 DEF sending
<1>5. Bounded'
  BY <1>1, <1>2, <1>4, PeerKeeps
<1>6. Quiet' /\ ReportedOnce'
  BY <1>1, <1>2, ReportKeeps
<1> QED
  BY <1>3, <1>5, <1>6, <1>7, StillInv

(* Every step keeps the invariant.                                         *)
LEMMA NextInv ==
    ASSUME Inv, [Next]_vars
    PROVE  Inv'
<1>1. CASE send
  BY <1>1, sendInv
<1>2. CASE close
  BY <1>2, closeInv
<1>3. CASE onEventChange
  BY <1>3, onEventChangeInv
<1>4. CASE stop \/ requestTerminate
  BY <1>4, stopInv, requestTerminateInv
<1>5. CASE PeerSends
  BY <1>5, PeerSendsInv
<1>6. CASE PeerDrops
  BY <1>6, PeerDropsInv
<1>7. CASE onEventEmit
  BY <1>7, onEventEmitInv
<1>8. CASE Connect
  BY <1>8, ConnectStreamInv, ConnectFailsInv, ConnectOpenInv, ConnectRecvInv DEF Connect
<1>9. CASE Read
  BY <1>9, RecvFailsInv, EventFailsInv, EventTextInv, EventPingInv, EventCloseInv,
     ReaderEndsInv, ReaderUnrefInv DEF Read
<1>10. ASSUME NEW i \in Sends, AsyncSend(i) PROVE Inv'
  BY <1>10, LockForEncodeInv, EncodeHeadInv, EncodeFailsInv, EncodeOkInv, LockForSendInv,
     TakeInv, WriteInv, WriteFailsInv, OkInv DEF AsyncSend
<1>12. ASSUME NEW u \in Sends \cup {Reader}, Release(u) PROVE Inv'
  BY <1>12, ReleaseInv
<1>11. CASE UNCHANGED vars
  BY <1>11, StutterInv
<1> QED
  BY <1>1, <1>2, <1>3, <1>4, <1>5, <1>6, <1>7, <1>8, <1>9, <1>10, <1>11, <1>12 DEF Next, System

(* The invariant holds in every reachable state, whatever the bounds on the *)
(* calls and on the frames of the peer.                                    *)
THEOREM Invariance == Spec => []Inv
<1>1. Init => Inv
  BY InitInv
<1>2. Inv /\ [Next]_vars => Inv'
  BY NextInv
<1> QED
  BY <1>1, <1>2, PTL DEF Spec

(* endConnect() and stop() share m_closeState, and whoever comes first      *)
(* reports: one close at most, and one error at most before it.            *)
THEOREM ReportedOnceHolds == Spec => []ReportedOnce
<1>1. Inv => ReportedOnce
  BY DEF Inv
<1> QED
  BY <1>1, Invariance, PTL

(* free_mem() counts the reader and the asyncSends, and the last of them     *)
(* releases: the connection is closed then and the reader has ended.  Who    *)
(* is still at work was made by script after the count had come to zero.     *)
THEOREM ReleasedLastHolds == Spec => []ReleasedLast
<1>1. ASSUME Inv PROVE ReleasedLast
  <2>1. /\ Len(sends) \in Nat /\ Len(m_lockEncode) \in Nat /\ Len(m_lockSend) \in Nat
        /\ Encoded = Len(sends) - Len(m_lockEncode) /\ Ended = Encoded - Len(m_lockSend)
        /\ Ended \in Nat /\ Encoded \in Nat
    BY <1>1, Numbers
  <2>2. m_ioState \in 0..(1 + Len(sends))
    <3> DEFINE a == IF At("failed") THEN 1 ELSE 0
               b == IF Reading THEN 1 ELSE 0
    <3>1. /\ m_ioState + a = Len(m_lockEncode) + Len(m_lockSend) + b /\ m_ioState \in Nat
          /\ a \in 0..1 /\ b \in 0..1
      BY <1>1 DEF Inv, Counted, Typed, SendTyped
    <3> HIDE DEF a, b
    <3> QED
      BY <2>1, <3>1
  <2>3. TypeOK
    <3>1. StateTyped /\ SendTyped
      BY <1>1 DEF Inv, Typed
    <3> QED
      BY <2>2, <3>1 DEF TypeOK, StateTyped, SendTyped, Frame, Event
  <2>4. ASSUME m_ioState = 0 \/ releasing # {}
        PROVE  m_closeState = "CLOSED" /\ ~Reading /\ \A i \in Sends : AtWork(i) => i \in late
    <3>1. CASE releasing # {}
      BY <1>1, <3>1 DEF Inv, Alone
    <3>2. CASE m_ioState = 0
      <4>1. ~Reading /\ \A i \in Sends : ~AtWork(i)
        BY <1>1, <3>2, ZeroIdle DEF Inv
      <4>2. ASSUME m_closeState # "CLOSED" PROVE FALSE
        <5>1. reader \in Over
          BY <4>1 DEF Reading, Over
        <5>2. PICK i \in Sends : pc[i] # "none"
          BY <1>1, <4>2, <5>1 DEF Inv, Answered
        <5>3. At("failed")
          BY <4>1, <5>2 DEF AtWork, At
        <5> QED
          BY <1>1, <4>2, <5>3 DEF Inv, Alone
      <4> QED
        BY <4>1, <4>2
    <3> QED
      BY <2>4, <3>1, <3>2
  <2>5. \A i \in late : Origin(i) = "js"
    BY <1>1 DEF Inv, Alone, Origin
  <2>6. reader = "recv" => m_holder
    BY <1>1 DEF Inv, Pinned
  <2> QED
    BY <2>3, <2>4, <2>5, <2>6 DEF ReleasedLast, Reading
<1> QED
  BY <1>1, Invariance, PTL

(* The head of the k-th frame is at 2k - 1 on the stream, its data at 2k.   *)
LEMMA WireHolds ==
    ASSUME NEW w \in Nat, Len(wire) = 2 * w, Holds(wire, 0, w),
           NEW n \in 1..Len(wire)
    PROVE  \E k \in 1..w : \/ n = 2 * k - 1 /\ wire[n] = <<k, "head">> /\ wire[n + 1] = <<k, "data">>
                           \/ n = 2 * k /\ wire[n] = <<k, "data">>
<1>1. \E k \in 1..w : n = 2 * k - 1 \/ n = 2 * k
  <2> DEFINE h == (n + 1) \div 2
  <2>0. n \in Nat /\ 1 <= n /\ n <= 2 * w
    OBVIOUS
  <2>1. h \in Nat /\ 2 * h <= n + 1 /\ n + 1 < 2 * h + 2
    BY <2>0
  <2> HIDE DEF h
  <2>2. h \in 1..w /\ (n = 2 * h - 1 \/ n = 2 * h)
    BY <2>0, <2>1
  <2> QED
    BY <2>2
<1>2. PICK k \in 1..w : n = 2 * k - 1 \/ n = 2 * k
  BY <1>1
<1>3. k \in 1..(w - 0) /\ 0 + k = k /\ (2 * k - 1) + 1 = 2 * k
  OBVIOUS
<1>4. wire[2 * k - 1] = <<k, "head">> /\ wire[2 * k] = <<k, "data">>
  BY <1>3 DEF Holds
<1> QED
  BY <1>2, <1>3, <1>4

(* encode under m_lockEncode and m_lockBuffer, send under m_lockSend: the   *)
(* frames reach the stream whole, in the order of the calls and with no     *)
(* gap, unless stop() came before the stream and the memory was released    *)
(* under asyncSends that can still write.                                  *)
THEOREM FramesInOrderHolds == Spec => []FramesInOrder
<1>1. ASSUME Inv PROVE FramesInOrder
  <2> SUFFICES ASSUME ~stopped PROVE FramesInOrder
    BY DEF FramesInOrder
  <2>1. \E w \in Nat : Whole(w)
    BY <1>1 DEF Inv, InFlow, Flows, Whole
  <2>2. PICK w \in Nat : Len(wire) = 2 * w /\ Holds(wire, 0, w)
    BY <2>1 DEF Whole
  <2>3. Len(sends) \in Nat
    BY <1>1, Numbers
  <2>4. ASSUME NEW n \in 1..Len(wire), NEW i \in 1..Len(sends), wire[n][2] = "head",
               i < wire[n][1]
        PROVE  \E k \in 1..(n - 1) : wire[k] = <<i, "head">>
    <3>1. PICK k \in 1..w : \/ n = 2 * k - 1 /\ wire[n] = <<k, "head">>
                            \/ n = 2 * k /\ wire[n] = <<k, "data">>
      BY <2>2, WireHolds
    <3>2. n = 2 * k - 1 /\ wire[n][1] = k
      BY <3>1, <2>4
    <3>3. i \in Nat /\ i >= 1 /\ i < k /\ k <= w /\ k \in Nat
      BY <3>2, <2>3, <2>4
    <3>4. i \in 1..(w - 0) /\ 0 + i = i /\ 2 * i - 1 \in 1..(n - 1)
      BY <3>2, <3>3
    <3>5. wire[2 * i - 1] = <<i, "head">>
      BY <2>2, <3>4 DEF Holds
    <3> QED
      BY <3>4, <3>5
  <2>5. Len(wire) % 2 = 0
    BY <2>2
  <2>6. ASSUME NEW n \in 1..Len(wire), n % 2 = 1
        PROVE  wire[n] = <<wire[n][1], "head">> /\ wire[n + 1] = <<wire[n][1], "data">>
    <3>1. PICK k \in 1..w : \/ n = 2 * k - 1 /\ wire[n] = <<k, "head">> /\ wire[n + 1] = <<k, "data">>
                            \/ n = 2 * k /\ wire[n] = <<k, "data">>
      BY <2>2, WireHolds
    <3>2. n # 2 * k
      BY <2>6, <3>1
    <3>3. wire[n][1] = k
      BY <3>1, <3>2
    <3> QED
      BY <3>1, <3>2, <3>3
  <2> QED
    BY <2>4, <2>5, <2>6 DEF FramesInOrder
<1> QED
  BY <1>1, Invariance, PTL

=============================================================================
