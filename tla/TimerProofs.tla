----------------------------- MODULE TimerProofs -----------------------------
(***************************************************************************)
(* Proofs, for any number of timers and fibers, that a timer is in one      *)
(* place until it is released, that interrupts are served, that no callback *)
(* begins after clear() and at most one once the isolate terminates, and    *)
(* that a time limit terminates only its own call and is reported.          *)
(***************************************************************************)
EXTENDS Timer, FiniteSetTheorems, FunctionTheorems, SequenceTheorems, TLAPS

(* What Assign() assigns.                                                  *)
JobSet == Timers \cup {"interrupts", "stop"}
Rec ==
    [m_cancel : [Timers -> BOOLEAN], m_hr : [Timers -> BOOLEAN],
     m_holding : [Timers -> BOOLEAN], refs : [Timers -> 0..1],
     asleep : SUBSET Timers, cancels : SUBSET Timers,
     jobs : Seq(JobSet), interrupts : Seq(Timers),
     m_has_timer : BOOLEAN, requesting : {"no", "mark", "post"},
     entering : Timers \cup {"none"}, calling : SUBSET Timers]

(* How many places hold t.                                                 *)
Places(st, t) ==
    Holds(t, st.asleep) + Holds(t, st.calling) + Holds(t, {st.entering})
      + Times(t, st.jobs) + Times(t, st.interrupts)

(* Every timer is in the one place its reference is for.                   *)
Whole(st) == \A t \in Timers : st.refs[t] = Places(st, t)

(* Every timer but t, which the running handler has in hand.               *)
InHand(st, t) ==
    /\ st.refs[t] = 1 /\ Places(st, t) = 0
    /\ \A u \in Timers : u # t => st.refs[u] = Places(st, u)

(* m_has_timer stands for a job or for one about to be posted, and an       *)
(* interrupt for m_has_timer, the job's server or a request under way.      *)
Heard(st, busy) ==
    /\ st.m_has_timer => Times("interrupts", st.jobs) > 0 \/ st.requesting = "post"
    /\ st.interrupts # << >> => busy \/ st.m_has_timer \/ st.requesting = "mark"

Typed ==
    /\ kind \in [Timers -> Kinds \cup {"new"}] /\ state \in Rec
    /\ serving \in BOOLEAN /\ terminating \in BOOLEAN
    /\ fired \in [Timers -> Nat]
    /\ m_termed \in [Fibers -> BOOLEAN] /\ exited \subseteq Fibers
    /\ m_fiber \in [Timers -> Fibers \cup {"none"}] /\ nest \in [Timers -> Timers \cup {"none"}]
    /\ outcome \in [Timers -> {"none", "returned", "timeout"}]
    /\ scopes \in [Fibers -> Seq(Timers)]

Fresh ==
    \A t \in Timers :
        kind[t] = "new" => refs[t] = 0 /\ fired[t] = 0 /\ outcome[t] = "none"

Open(f, t) == \E i \in 1..Len(scopes[f]) : scopes[f][i] = t

(* The scope of a limit that may still expire is open.                     *)
LimitOpen ==
    \A t \in Timers : kind[t] = "call" /\ ~m_cancel[t] =>
        m_fiber[t] \in Fibers /\ Open(m_fiber[t], t)

(* The open scopes of a fiber are limits of its own, of one nest, and each  *)
(* is open once.                                                           *)
OneNest ==
    \A f \in Fibers : \A i \in 1..Len(scopes[f]) :
        /\ kind[scopes[f][i]] = "call" /\ nest[scopes[f][i]] = scopes[f][1]
        /\ m_fiber[scopes[f][i]] = f /\ outcome[scopes[f][i]] = "none"
        /\ \A j \in 1..Len(scopes[f]) : scopes[f][j] = scopes[f][i] => j = i

OverCleared ==
    \A t \in Timers : outcome[t] # "none" => m_cancel[t] /\ kind[t] = "call"

Reported(t) == \E u \in Timers : nest[u] = nest[t] /\ outcome[u] = "timeout"

(* An expired limit is reported, or will be by the innermost open scope.   *)
WillReport ==
    \A t \in Timers : kind[t] = "call" /\ fired[t] > 0 =>
        Reported(t) \/ \E f \in Fibers : Open(f, t) /\ m_termed[f]

Marked ==
    \A f \in Fibers :
        m_termed[f] => f \in exited \/ \E t \in Timers : Open(f, t) /\ fired[t] > 0

Inv ==
    /\ Typed /\ Whole(state) /\ Heard(state, serving) /\ Fresh /\ LimitOpen /\ OneNest
    /\ OverCleared /\ WillReport /\ Marked /\ ExpiryReported

-----------------------------------------------------------------------------
Is(x, t) == IF x = t THEN 1 ELSE 0

(* How often t is in a sequence that grows or loses its head.              *)
LEMMA TimesType ==
    ASSUME NEW S, NEW s \in Seq(S), NEW t
    PROVE  Times(t, s) \in Nat /\ IsFiniteSet({i \in DOMAIN s : s[i] = t})
<1>1. DOMAIN s = 1..Len(s) /\ Len(s) \in Nat
  BY LenProperties
<1>2. IsFiniteSet(DOMAIN s)
  BY <1>1, FS_Interval
<1>3. IsFiniteSet({i \in DOMAIN s : s[i] = t})
  BY <1>2, FS_Subset
<1> QED
  BY <1>3, FS_CardinalityType DEF Times

(* Nothing is in the empty sequence.                                       *)
LEMMA TimesEmpty ==
    ASSUME NEW t
    PROVE  Times(t, << >>) = 0
<1>1. {i \in DOMAIN << >> : << >>[i] = t} = {}
  OBVIOUS
<1> QED
  BY <1>1, FS_EmptySet DEF Times

(* One entry more.                                                         *)
LEMMA TimesAppend ==
    ASSUME NEW S, NEW s \in Seq(S), NEW x \in S, NEW t
    PROVE  Times(t, Append(s, x)) = Times(t, s) + Is(x, t)
<1> DEFINE A == {i \in DOMAIN s : s[i] = t}
           B == {i \in DOMAIN Append(s, x) : Append(s, x)[i] = t}
           n == Len(s) + 1
<1>1. /\ Len(s) \in Nat /\ DOMAIN s = 1..Len(s)
      /\ DOMAIN Append(s, x) = 1..n
      /\ Append(s, x)[n] = x
      /\ \A i \in 1..Len(s) : Append(s, x)[i] = s[i]
  BY LenProperties, AppendProperties
<1>2. IsFiniteSet(A) /\ n \notin A /\ Cardinality(A) \in Nat
  <2>1. IsFiniteSet(A) /\ Cardinality(A) \in Nat
    BY TimesType DEF Times
  <2> QED
    BY <2>1, <1>1
<1>3. CASE x = t
  <2>1. B = A \cup {n}
    BY <1>1, <1>3
  <2>2. Cardinality(B) = Cardinality(A) + 1
    BY <2>1, <1>2, FS_AddElement
  <2> QED
    BY <2>2, <1>3 DEF Times, Is
<1>4. CASE x # t
  <2>1. B = A
    BY <1>1, <1>4
  <2>2. Cardinality(B) = Cardinality(A) + 0
    <3> HIDE DEF A, B
    <3> QED
      BY <2>1, <1>2
  <2> QED
    BY <2>2, <1>4 DEF Times, Is
<1> QED
  BY <1>3, <1>4

(* One entry less.                                                         *)
LEMMA TimesTail ==
    ASSUME NEW S, NEW s \in Seq(S), s # << >>, NEW t
    PROVE  /\ Times(t, Tail(s)) = Times(t, s) - Is(Head(s), t)
           /\ Head(s) = t => Times(t, s) > 0
<1> DEFINE A == {i \in DOMAIN s : s[i] = t}
           B == {i \in DOMAIN Tail(s) : Tail(s)[i] = t}
           C == A \ {1}
           shift == [i \in B |-> i + 1]
<1>1. /\ Len(s) \in Nat /\ Len(s) # 0 /\ DOMAIN s = 1..Len(s)
      /\ DOMAIN Tail(s) = 1..(Len(s) - 1)
      /\ Head(s) = s[1]
      /\ \A i \in 1..(Len(s) - 1) : Tail(s)[i] = s[i + 1]
  BY LenProperties, HeadTailProperties, EmptySeq
<1>2. IsFiniteSet(A) /\ Cardinality(A) \in Nat
  BY TimesType DEF Times
<1>3. shift \in Bijection(B, C)
  <2>1. \A i \in B : i + 1 \in C
    BY <1>1
  <2>2. \A j \in C : j - 1 \in B /\ (j - 1) + 1 = j
    BY <1>1
  <2>3. \A i, j \in B : i + 1 = j + 1 => i = j
    BY <1>1
  <2> HIDE DEF B, C
  <2>4. shift \in [B -> C]
    BY <2>1
  <2>5. \A i, j \in B : shift[i] = shift[j] => i = j
    BY <2>3
  <2>6. \A j \in C : \E i \in B : shift[i] = j
    BY <2>2
  <2> QED
    BY <2>4, <2>5, <2>6, Fun_IsBij
<1>4. IsFiniteSet(C)
  BY <1>2, FS_Subset
<1>5. Cardinality(B) = Cardinality(C)
  <2>1. ExistsBijection(B, C)
    BY <1>3 DEF ExistsBijection
  <2>2. ExistsBijection(C, B)
    BY <2>1, Fun_ExistsBijSymmetric
  <2> QED
    BY <2>2, <1>4, FS_Bijection
<1>6. CASE Head(s) = t
  <2>1. 1 \in A
    BY <1>1, <1>6
  <2>2. Cardinality(C) = Cardinality(A) - 1
    BY <2>1, <1>2, FS_RemoveElement
  <2>3. Cardinality(A) # 0
    BY <2>1, <1>2, FS_EmptySet
  <2>4. Cardinality(B) = Cardinality(A) - 1 /\ Cardinality(A) > 0
    <3> HIDE DEF A, B, C
    <3> QED
      BY <1>2, <1>5, <2>2, <2>3
  <2> QED
    BY <2>4, <1>6 DEF Times, Is
<1>7. CASE Head(s) # t
  <2>1. C = A
    BY <1>1, <1>7
  <2>2. Cardinality(B) = Cardinality(A) - 0
    <3> HIDE DEF A, B, C
    <3> QED
      BY <1>2, <1>5, <2>1
  <2> QED
    BY <2>2, <1>7 DEF Times, Is
<1> QED
  BY <1>6, <1>7
-----------------------------------------------------------------------------
(* What a handler may do to the timers on its way.                         *)
Follows(st, s2) ==
    \A t \in Timers : (st.m_cancel[t] => s2.m_cancel[t]) /\ s2.refs[t] <= st.refs[t]

SameSpots(st, s2) ==
    /\ s2.refs = st.refs /\ s2.asleep = st.asleep /\ s2.calling = st.calling
    /\ s2.jobs = st.jobs /\ s2.interrupts = st.interrupts /\ s2.m_has_timer = st.m_has_timer
    /\ s2.requesting = st.requesting /\ s2.entering = st.entering

(* A step that moves no timer keeps the accounts of all.                   *)
LEMMA SameSpotsKeeps ==
    ASSUME NEW st, NEW s2, SameSpots(st, s2)
    PROVE  /\ Whole(st) => Whole(s2)
           /\ \A t \in Timers : InHand(st, t) => InHand(s2, t)
           /\ \A busy \in BOOLEAN : Heard(st, busy) => Heard(s2, busy)
<1>1. \A t \in Timers : Places(s2, t) = Places(st, t)
  BY DEF Places, SameSpots
<1>2. s2.refs = st.refs
  BY DEF SameSpots
<1>3. Whole(st) => Whole(s2)
  BY <1>1, <1>2 DEF Whole
<1>4. \A t \in Timers : InHand(st, t) => InHand(s2, t)
  BY <1>1, <1>2 DEF InHand
<1>5. \A busy \in BOOLEAN : Heard(st, busy) => Heard(s2, busy)
  BY DEF SameSpots, Heard
<1> QED
  BY <1>3, <1>4, <1>5

(* The places of a timer can be counted.                                   *)
LEMMA PlacesType ==
    ASSUME NEW st \in Rec, NEW t
    PROVE  /\ Places(st, t) \in Nat
           /\ Holds(t, st.asleep) \in Nat /\ Holds(t, st.calling) \in Nat
           /\ Holds(t, {st.entering}) \in Nat
           /\ Times(t, st.jobs) \in Nat /\ Times(t, st.interrupts) \in Nat
<1>1. st.jobs \in Seq(JobSet) /\ st.interrupts \in Seq(Timers)
  BY DEF Rec
<1>2. Times(t, st.jobs) \in Nat /\ Times(t, st.interrupts) \in Nat
  BY <1>1, TimesType
<1>3. /\ Holds(t, st.asleep) \in Nat /\ Holds(t, st.calling) \in Nat
      /\ Holds(t, {st.entering}) \in Nat
  BY DEF Holds
<1> QED
  BY <1>2, <1>3 DEF Places

(* The same of their sum, and of one list.                                  *)
LEMMA PlacesNat ==
    ASSUME NEW st \in Rec, NEW t
    PROVE  Places(st, t) \in Nat
  BY PlacesType

LEMMA NoPlace ==
    ASSUME NEW st \in Rec, NEW t, Places(st, t) = 0
    PROVE  Holds(t, st.asleep) = 0 /\ Holds(t, st.calling) = 0
<1> DEFINE a == Holds(t, st.asleep)
           b == Holds(t, st.calling)
           c == Holds(t, {st.entering})
           m == Times(t, st.jobs)
           n == Times(t, st.interrupts)
<1>1. a \in Nat /\ b \in Nat /\ c \in Nat /\ m \in Nat /\ n \in Nat
  BY PlacesType
<1>2. a + b + c + m + n = 0
  BY DEF Places
<1> HIDE DEF a, b, c, m, n
<1>3. a = 0 /\ b = 0
  BY <1>1, <1>2
<1> QED
  BY <1>3 DEF a, b

LEMMA JobsNat ==
    ASSUME NEW st \in Rec, NEW t
    PROVE  Times(t, st.jobs) \in Nat
  BY PlacesType

(* clear() cancels its timer and moves none.                               *)
LEMMA clearKeeps ==
    ASSUME NEW st \in Rec, NEW t \in Timers
    PROVE  /\ clear(st, t) \in Rec /\ SameSpots(st, clear(st, t)) /\ Follows(st, clear(st, t))
           /\ clear(st, t).m_cancel[t]
           /\ \A u \in Timers : u # t => clear(st, t).m_cancel[u] = st.m_cancel[u]
<1>1. CASE st.m_cancel[t]
  BY <1>1 DEF clear, SameSpots, Follows, Rec
<1>2. CASE ~st.m_cancel[t]
  <2> DEFINE c == [st EXCEPT !.m_cancel[t] = TRUE, !.cancels = @ \cup {t}]
  <2>1. clear(st, t) = c
    BY <1>2 DEF clear
  <2>2. c \in Rec
    BY DEF Rec
  <2>3. /\ c.refs = st.refs /\ c.asleep = st.asleep /\ c.calling = st.calling
        /\ c.jobs = st.jobs /\ c.interrupts = st.interrupts /\ c.m_has_timer = st.m_has_timer
        /\ c.requesting = st.requesting /\ c.entering = st.entering
        /\ c.m_cancel = [st.m_cancel EXCEPT ![t] = TRUE]
    BY DEF Rec
  <2>4. st.m_cancel \in [Timers -> BOOLEAN] /\ st.refs \in [Timers -> 0..1]
    BY DEF Rec
  <2>5. \A u \in Timers : st.m_cancel[u] => c.m_cancel[u]
    BY <2>3, <2>4
  <2>6. c.m_cancel[t] /\ \A u \in Timers : u # t => c.m_cancel[u] = st.m_cancel[u]
    BY <2>3, <2>4
  <2> HIDE DEF c
  <2>7. Follows(st, c)
    BY <2>3, <2>4, <2>5 DEF Follows
  <2> QED
    BY <2>1, <2>2, <2>3, <2>6, <2>7 DEF SameSpots
<1> QED
  BY <1>1, <1>2
(* A handler that has t in hand gives it up: every timer is in its place.   *)
Settles(st, s2, busy) ==
    s2 \in Rec /\ Whole(s2) /\ Heard(s2, busy) /\ Follows(st, s2)

(* on_clean() and Unref(): the reference goes with the last place.          *)
LEMMA CleanSettles ==
    ASSUME NEW st \in Rec, NEW t \in Timers, InHand(st, t), NEW busy \in BOOLEAN,
           Heard(st, busy)
    PROVE  Settles(st, Clean(st, t), busy)
<1> DEFINE c == Clean(st, t)
<1>0. st.refs \in [Timers -> 0..1] /\ st.refs[t] = 1
  BY DEF Rec, InHand
<1>1. c \in Rec
  <2>1. [st.refs EXCEPT ![t] = @ - 1] \in [Timers -> 0..1]
    BY <1>0
  <2> QED
    BY <2>1 DEF Clean, Rec
<1>2. /\ c.refs = [st.refs EXCEPT ![t] = st.refs[t] - 1] /\ c.asleep = st.asleep
      /\ c.calling = st.calling /\ c.m_cancel = st.m_cancel
      /\ c.jobs = st.jobs /\ c.interrupts = st.interrupts /\ c.m_has_timer = st.m_has_timer
      /\ c.requesting = st.requesting /\ c.entering = st.entering
  BY DEF Clean, Rec
<1> HIDE DEF c
<1>3. \A u \in Timers : Places(c, u) = Places(st, u)
  BY <1>2 DEF Places
<1>4. c.refs[t] = 0 /\ \A u \in Timers : u # t => c.refs[u] = st.refs[u]
  BY <1>0, <1>2
<1>5. Whole(c)
  BY <1>3, <1>4 DEF InHand, Whole
<1>6. Heard(c, busy)
  BY <1>2 DEF Heard
<1>7. Follows(st, c)
  BY <1>0, <1>2, <1>4 DEF Follows
<1> QED
  BY <1>1, <1>5, <1>6, <1>7 DEF Settles, c

(* t is put on the queue of jobs.                                           *)
LEMMA PostSettles ==
    ASSUME NEW st \in Rec, NEW t \in Timers, InHand(st, t), NEW busy \in BOOLEAN,
           Heard(st, busy)
    PROVE  Settles(st, [st EXCEPT !.m_hr[t] = FALSE, !.jobs = Append(@, t)], busy)
<1> DEFINE c == [st EXCEPT !.m_hr[t] = FALSE, !.jobs = Append(@, t)]
<1>0. st.jobs \in Seq(JobSet) /\ t \in JobSet /\ t # "interrupts" /\ st.refs \in [Timers -> 0..1]
  BY NamesAssumption DEF Rec, JobSet
<1>1. c \in Rec
  <2>1. Append(st.jobs, t) \in Seq(JobSet)
    BY <1>0, AppendProperties
  <2> QED
    BY <2>1 DEF Rec
<1>2. /\ c.refs = st.refs /\ c.asleep = st.asleep
      /\ c.calling = st.calling /\ c.m_cancel = st.m_cancel
      /\ c.jobs = Append(st.jobs, t) /\ c.interrupts = st.interrupts
      /\ c.m_has_timer = st.m_has_timer
      /\ c.requesting = st.requesting /\ c.entering = st.entering
  BY DEF Rec
<1> HIDE DEF c
<1>3. \A u : Times(u, c.jobs) = Times(u, st.jobs) + Is(t, u)
  BY <1>0, <1>2, TimesAppend
<1>4. ASSUME NEW u \in Timers
      PROVE  Places(c, u) = Places(st, u) + Is(t, u)
  <2>1. Is(t, u) \in Nat
    BY DEF Is
  <2>2. /\ Holds(u, st.asleep) \in Nat /\ Holds(u, st.calling) \in Nat
        /\ Holds(u, {st.entering}) \in Nat
        /\ Times(u, st.jobs) \in Nat /\ Times(u, st.interrupts) \in Nat
    BY PlacesType
  <2>3. Times(u, c.jobs) = Times(u, st.jobs) + Is(t, u)
    BY <1>3
  <2> QED
    BY <1>2, <2>1, <2>2, <2>3 DEF Places
<1>5. Whole(c)
  BY <1>2, <1>4, PlacesNat DEF InHand, Whole, Is
<1>6. Heard(c, busy)
  <2>1. Times("interrupts", c.jobs) = Times("interrupts", st.jobs)
    BY <1>0, <1>3, JobsNat DEF Is
  <2> QED
    BY <1>2, <2>1 DEF Heard
<1>7. Follows(st, c)
  BY <1>0, <1>2 DEF Follows
<1> QED
  BY <1>1, <1>5, <1>6, <1>7 DEF Settles, c

(* t is put on the queue of interrupts, and the timer thread will see to the *)
(* job that serves them.                                                   *)
LEMMA RequestInterruptSettles ==
    ASSUME NEW st \in Rec, NEW t \in Timers, InHand(st, t), NEW busy \in BOOLEAN,
           Heard(st, busy), st.requesting = "no"
    PROVE  Settles(st, RequestInterrupt(st, t), busy)
<1> DEFINE c == RequestInterrupt(st, t)
<1>0. st.interrupts \in Seq(Timers) /\ st.refs \in [Timers -> 0..1]
  BY DEF Rec
<1>1. c \in Rec
  <2>1. Append(st.interrupts, t) \in Seq(Timers)
    BY <1>0, AppendProperties
  <2> QED
    BY <2>1 DEF RequestInterrupt, Rec
<1>2. /\ c.refs = st.refs /\ c.asleep = st.asleep
      /\ c.calling = st.calling /\ c.m_cancel = st.m_cancel
      /\ c.jobs = st.jobs /\ c.interrupts = Append(st.interrupts, t)
      /\ c.m_has_timer = st.m_has_timer /\ c.entering = st.entering
      /\ c.requesting = "mark"
  BY DEF RequestInterrupt, Rec
<1> HIDE DEF c
<1>3. \A u : Times(u, c.interrupts) = Times(u, st.interrupts) + Is(t, u)
  BY <1>0, <1>2, TimesAppend
<1>4. ASSUME NEW u \in Timers
      PROVE  Places(c, u) = Places(st, u) + Is(t, u)
  <2>1. Is(t, u) \in Nat
    BY DEF Is
  <2>2. /\ Holds(u, st.asleep) \in Nat /\ Holds(u, st.calling) \in Nat
        /\ Holds(u, {st.entering}) \in Nat
        /\ Times(u, st.jobs) \in Nat /\ Times(u, st.interrupts) \in Nat
    BY PlacesType
  <2>3. Times(u, c.interrupts) = Times(u, st.interrupts) + Is(t, u)
    BY <1>3
  <2> QED
    BY <1>2, <2>1, <2>2, <2>3 DEF Places
<1>5. Whole(c)
  BY <1>2, <1>4, PlacesNat DEF InHand, Whole, Is
<1>6. Heard(c, busy)
  BY <1>2 DEF Heard
<1>7. Follows(st, c)
  BY <1>0, <1>2 DEF Follows
<1> QED
  BY <1>1, <1>5, <1>6, <1>7 DEF Settles, c

(* JSTimer::resume.                                                        *)
LEMMA resumeSettles ==
    ASSUME NEW st \in Rec, NEW t \in Timers, InHand(st, t), NEW busy \in BOOLEAN,
           Heard(st, busy), terminating \in BOOLEAN, st.requesting = "no" \/ ~st.m_hr[t]
    PROVE  Settles(st, resume(st, t), busy)
<1>1. CASE terminating
  <2> DEFINE c == clear(st, t)
  <2>1. resume(st, t) = Clean(c, t)
    BY <1>1 DEF resume
  <2>2. c \in Rec /\ InHand(c, t) /\ Heard(c, busy) /\ Follows(st, c)
    BY clearKeeps, SameSpotsKeeps
  <2> HIDE DEF c
  <2>3. Settles(c, Clean(c, t), busy)
    BY <2>2, CleanSettles
  <2>4. Follows(st, Clean(c, t))
    <3>1. /\ st.refs \in [Timers -> 0..1] /\ c.refs \in [Timers -> 0..1]
          /\ Clean(c, t).refs \in [Timers -> 0..1]
      BY <2>2, <2>3 DEF Settles, Rec
    <3> QED
      BY <3>1, <2>2, <2>3 DEF Settles, Follows
  <2> QED
    BY <2>1, <2>3, <2>4 DEF Settles
<1>2. CASE ~terminating /\ st.m_hr[t] /\ ~st.m_cancel[t]
  BY <1>2, RequestInterruptSettles DEF resume
<1>3. CASE ~terminating /\ ~(st.m_hr[t] /\ ~st.m_cancel[t])
  <2>1. resume(st, t) = [st EXCEPT !.m_hr[t] = FALSE, !.jobs = Append(@, t)]
    BY <1>3 DEF resume
  <2> QED
    BY <2>1, PostSettles
<1> QED
  BY <1>1, <1>2, <1>3

(* sleep().                                                                *)
LEMMA sleepSettles ==
    ASSUME NEW st \in Rec, NEW t \in Timers, InHand(st, t), NEW busy \in BOOLEAN,
           Heard(st, busy), terminating \in BOOLEAN, NEW k, k = "immediate" => ~st.m_hr[t]
    PROVE  Settles(st, sleep(st, t, k), busy)
<1>1. CASE k = "immediate"
  BY <1>1, resumeSettles DEF sleep
<1>2. CASE k # "immediate"
  <2> DEFINE c == [st EXCEPT !.asleep = @ \cup {t}]
  <2>1. c \in Rec
    BY DEF Rec
  <2>2. /\ c.refs = st.refs /\ c.asleep = st.asleep \cup {t}
        /\ c.calling = st.calling /\ c.m_cancel = st.m_cancel
        /\ c.jobs = st.jobs /\ c.interrupts = st.interrupts /\ c.m_has_timer = st.m_has_timer
        /\ c.requesting = st.requesting /\ c.entering = st.entering
    BY DEF Rec
  <2>a. sleep(st, t, k) = c
    BY <1>2 DEF sleep
  <2> HIDE DEF c
  <2>3. t \notin st.asleep
    <3>1. Holds(t, st.asleep) = 0
      <4>1. Places(st, t) = 0
        BY DEF InHand
      <4> QED
        BY <4>1, NoPlace
    <3> QED
      BY <3>1 DEF Holds
  <2>4. ASSUME NEW u \in Timers
        PROVE  Places(c, u) = Places(st, u) + Is(t, u)
    <3>1. Is(t, u) \in Nat
      BY DEF Is
    <3>2. /\ Holds(u, st.asleep) \in Nat /\ Holds(u, st.calling) \in Nat
          /\ Holds(u, {st.entering}) \in Nat
          /\ Times(u, st.jobs) \in Nat /\ Times(u, st.interrupts) \in Nat
      BY PlacesType
    <3>3. Holds(u, c.asleep) = Holds(u, st.asleep) + Is(t, u)
      BY <2>2, <2>3 DEF Holds, Is
    <3> QED
      BY <2>2, <3>1, <3>2, <3>3 DEF Places
  <2>5. Whole(c)
    BY <2>2, <2>4, PlacesNat DEF InHand, Whole, Is
  <2>6. Heard(c, busy)
    BY <2>2 DEF Heard
  <2>7. Follows(st, c)
    BY <2>2 DEF Follows, Rec
  <2> QED
    BY <2>a, <2>1, <2>5, <2>6, <2>7 DEF Settles
<1> QED
  BY <1>1, <1>2

(* callback() after on_timer().                                            *)
LEMMA CalledSettles ==
    ASSUME NEW st \in Rec, NEW t \in Timers, InHand(st, t), NEW busy \in BOOLEAN,
           Heard(st, busy), terminating \in BOOLEAN
    PROVE  Settles(st, Called(st, t), busy)
<1>1. CASE Repeats(t) /\ ~st.m_cancel[t]
  BY <1>1, sleepSettles DEF Called, Repeats
<1>2. CASE ~(Repeats(t) /\ ~st.m_cancel[t])
  <2> DEFINE c == [st EXCEPT !.m_cancel[t] = TRUE]
  <2>1. c \in Rec
    BY DEF Rec
  <2>2. /\ c.refs = st.refs /\ c.asleep = st.asleep /\ c.calling = st.calling
        /\ c.jobs = st.jobs /\ c.interrupts = st.interrupts /\ c.m_has_timer = st.m_has_timer
        /\ c.requesting = st.requesting /\ c.entering = st.entering
        /\ c.m_cancel = [st.m_cancel EXCEPT ![t] = TRUE]
    BY DEF Rec
  <2>a. Called(st, t) = Clean(c, t)
    BY <1>2 DEF Called
  <2> HIDE DEF c
  <2>3. InHand(c, t) /\ Heard(c, busy)
    BY <2>2, SameSpotsKeeps DEF SameSpots
  <2>4. Settles(c, Clean(c, t), busy)
    BY <2>1, <2>3, CleanSettles
  <2>5. Follows(st, Clean(c, t))
    BY <2>2, <2>4 DEF Settles, Follows, Rec
  <2> QED
    BY <2>a, <2>4, <2>5 DEF Settles
<1> QED
  BY <1>1, <1>2

-----------------------------------------------------------------------------
(* How a timer comes into a handler's hand.                                *)
Takes(st, s2, t, busy) ==
    s2 \in Rec /\ InHand(s2, t) /\ Heard(s2, busy) /\ Follows(st, s2)

(* A place loses t and nothing else changes.                               *)
LEMMA TakenInHand ==
    ASSUME NEW st \in Rec, NEW s2 \in Rec, Whole(st), NEW t \in Timers,
           s2.refs = st.refs,
           \A u \in Timers : Places(s2, u) = Places(st, u) - Is(t, u),
           Places(st, t) > 0
    PROVE  InHand(s2, t)
<1>1. st.refs[t] \in 0..1 /\ st.refs[t] = Places(st, t) /\ Places(st, t) \in Nat
  BY PlacesNat DEF Rec, Whole
<1>2. s2.refs[t] = 1 /\ Places(s2, t) = 0
  BY <1>1 DEF Is
<1>3. ASSUME NEW u \in Timers, u # t
      PROVE  s2.refs[u] = Places(s2, u)
  <2>1. Places(s2, u) = Places(st, u) /\ st.refs[u] = Places(st, u)
    BY <1>3, PlacesNat DEF Is, Whole
  <2> QED
    BY <2>1
<1> QED
  BY <1>2, <1>3 DEF InHand

(* The timer thread has a timer in hand when its sleep ends,               *)
LEMMA WakeTakes ==
    ASSUME NEW st \in Rec, Whole(st), NEW t \in Timers, t \in st.asleep,
           NEW busy \in BOOLEAN, Heard(st, busy)
    PROVE  Takes(st, [st EXCEPT !.asleep = @ \ {t}], t, busy)
<1> DEFINE c == [st EXCEPT !.asleep = @ \ {t}]
<1>1. c \in Rec
  BY DEF Rec
<1>2. /\ c.refs = st.refs /\ c.asleep = st.asleep \ {t}
      /\ c.calling = st.calling /\ c.m_cancel = st.m_cancel
      /\ c.jobs = st.jobs /\ c.interrupts = st.interrupts /\ c.m_has_timer = st.m_has_timer
      /\ c.requesting = st.requesting /\ c.entering = st.entering
  BY DEF Rec
<1> HIDE DEF c
<1>3. ASSUME NEW u \in Timers
      PROVE  /\ Places(c, u) = Places(st, u) - Is(t, u)
             /\ u = t => Places(st, u) > 0
  <2>1. Is(t, u) \in Nat
    BY DEF Is
  <2>2. /\ Holds(u, st.asleep) \in Nat /\ Holds(u, st.calling) \in Nat
        /\ Holds(u, {st.entering}) \in Nat
        /\ Times(u, st.jobs) \in Nat /\ Times(u, st.interrupts) \in Nat
    BY PlacesType
  <2>3. Holds(u, c.asleep) = Holds(u, st.asleep) - Is(t, u) /\ (u = t => Holds(u, st.asleep) = 1)
    BY <1>2 DEF Holds, Is
  <2> QED
    BY <1>2, <2>1, <2>2, <2>3 DEF Places
<1>4. InHand(c, t)
  BY <1>1, <1>2, <1>3, TakenInHand
<1>5. Heard(c, busy)
  BY <1>2 DEF Heard
<1>6. Follows(st, c)
  BY <1>2 DEF Follows, Rec
<1> QED
  BY <1>1, <1>4, <1>5, <1>6 DEF Takes, c

(* and the isolate when a callback returns.                                *)
LEMMA ReturnTakes ==
    ASSUME NEW st \in Rec, Whole(st), NEW t \in Timers, t \in st.calling,
           NEW busy \in BOOLEAN, Heard(st, busy)
    PROVE  Takes(st, [st EXCEPT !.calling = @ \ {t}], t, busy)
<1> DEFINE c == [st EXCEPT !.calling = @ \ {t}]
<1>1. c \in Rec
  BY DEF Rec
<1>2. /\ c.refs = st.refs /\ c.asleep = st.asleep
      /\ c.calling = st.calling \ {t} /\ c.m_cancel = st.m_cancel
      /\ c.jobs = st.jobs /\ c.interrupts = st.interrupts /\ c.m_has_timer = st.m_has_timer
      /\ c.requesting = st.requesting /\ c.entering = st.entering
  BY DEF Rec
<1> HIDE DEF c
<1>3. ASSUME NEW u \in Timers
      PROVE  /\ Places(c, u) = Places(st, u) - Is(t, u)
             /\ u = t => Places(st, u) > 0
  <2>1. Is(t, u) \in Nat
    BY DEF Is
  <2>2. /\ Holds(u, st.asleep) \in Nat /\ Holds(u, st.calling) \in Nat
        /\ Holds(u, {st.entering}) \in Nat
        /\ Times(u, st.jobs) \in Nat /\ Times(u, st.interrupts) \in Nat
    BY PlacesType
  <2>3. Holds(u, c.calling) = Holds(u, st.calling) - Is(t, u) /\ (u = t => Holds(u, st.calling) = 1)
    BY <1>2 DEF Holds, Is
  <2> QED
    BY <1>2, <2>1, <2>2, <2>3 DEF Places
<1>4. InHand(c, t)
  BY <1>1, <1>2, <1>3, TakenInHand
<1>5. Heard(c, busy)
  BY <1>2 DEF Heard
<1>6. Follows(st, c)
  BY <1>2 DEF Follows, Rec
<1> QED
  BY <1>1, <1>4, <1>5, <1>6 DEF Takes, c

(* and when it calls the function of the timer it is about to call.        *)
LEMMA EnteredTakes ==
    ASSUME NEW st \in Rec, Whole(st), NEW t \in Timers, st.entering = t,
           NEW busy \in BOOLEAN, Heard(st, busy)
    PROVE  Takes(st, [st EXCEPT !.entering = "none"], t, busy)
<1> DEFINE c == [st EXCEPT !.entering = "none"]
<1>1. c \in Rec
  BY DEF Rec
<1>2. /\ c.refs = st.refs /\ c.asleep = st.asleep
      /\ c.calling = st.calling /\ c.m_cancel = st.m_cancel
      /\ c.jobs = st.jobs /\ c.interrupts = st.interrupts /\ c.m_has_timer = st.m_has_timer
      /\ c.requesting = st.requesting /\ c.entering = "none"
  BY DEF Rec
<1> HIDE DEF c
<1>3. ASSUME NEW u \in Timers
      PROVE  /\ Places(c, u) = Places(st, u) - Is(t, u)
             /\ u = t => Places(st, u) > 0
  <2>1. Is(t, u) \in Nat
    BY DEF Is
  <2>2. /\ Holds(u, st.asleep) \in Nat /\ Holds(u, st.calling) \in Nat
        /\ Holds(u, {st.entering}) \in Nat
        /\ Times(u, st.jobs) \in Nat /\ Times(u, st.interrupts) \in Nat
    BY PlacesType
  <2>3. /\ Holds(u, {c.entering}) = Holds(u, {st.entering}) - Is(t, u)
        /\ u = t => Holds(u, {st.entering}) = 1
    BY <1>2, NamesAssumption DEF Holds, Is
  <2> QED
    BY <1>2, <2>1, <2>2, <2>3 DEF Places
<1>4. InHand(c, t)
  BY <1>1, <1>2, <1>3, TakenInHand
<1>5. Heard(c, busy)
  BY <1>2 DEF Heard
<1>6. Follows(st, c)
  BY <1>2 DEF Follows, Rec
<1> QED
  BY <1>1, <1>4, <1>5, <1>6 DEF Takes, c

(* The job of timer t leaves the queue.                                     *)
LEMMA JobTakes ==
    ASSUME NEW st \in Rec, Whole(st), st.jobs # << >>, NEW t \in Timers, Head(st.jobs) = t,
           NEW busy \in BOOLEAN, Heard(st, busy)
    PROVE  Takes(st, [st EXCEPT !.jobs = Tail(@)], t, busy)
<1> DEFINE c == [st EXCEPT !.jobs = Tail(@)]
<1>0. st.jobs \in Seq(JobSet) /\ Tail(st.jobs) \in Seq(JobSet) /\ t # "interrupts"
  BY HeadTailProperties, NamesAssumption DEF Rec
<1>1. c \in Rec
  BY <1>0 DEF Rec
<1>2. /\ c.refs = st.refs /\ c.asleep = st.asleep
      /\ c.calling = st.calling /\ c.m_cancel = st.m_cancel
      /\ c.jobs = Tail(st.jobs) /\ c.interrupts = st.interrupts /\ c.m_has_timer = st.m_has_timer
      /\ c.requesting = st.requesting /\ c.entering = st.entering
  BY DEF Rec
<1> HIDE DEF c
<1>t. \A u : /\ Times(u, c.jobs) = Times(u, st.jobs) - Is(t, u)
             /\ u = t => Times(u, st.jobs) > 0
  BY <1>0, <1>2, TimesTail
<1>3. ASSUME NEW u \in Timers
      PROVE  /\ Places(c, u) = Places(st, u) - Is(t, u)
             /\ u = t => Places(st, u) > 0
  <2>1. Is(t, u) \in Nat
    BY DEF Is
  <2>2. /\ Holds(u, st.asleep) \in Nat /\ Holds(u, st.calling) \in Nat
        /\ Holds(u, {st.entering}) \in Nat
        /\ Times(u, st.jobs) \in Nat /\ Times(u, st.interrupts) \in Nat
    BY PlacesType
  <2>3. Times(u, c.jobs) = Times(u, st.jobs) - Is(t, u) /\ (u = t => Times(u, st.jobs) > 0)
    BY <1>t
  <2> QED
    BY <1>2, <2>1, <2>2, <2>3 DEF Places
<1>4. InHand(c, t)
  BY <1>1, <1>2, <1>3, TakenInHand
<1>5. Heard(c, busy)
  <2>1. Times("interrupts", c.jobs) = Times("interrupts", st.jobs)
    BY <1>0, <1>t, JobsNat DEF Is
  <2> QED
    BY <1>2, <2>1 DEF Heard
<1>6. Follows(st, c)
  BY <1>2 DEF Follows, Rec
<1> QED
  BY <1>1, <1>4, <1>5, <1>6 DEF Takes, c

(* The interrupt of timer t leaves the queue.                               *)
LEMMA InterruptTakes ==
    ASSUME NEW st \in Rec, Whole(st), st.interrupts # << >>, NEW t \in Timers,
           Head(st.interrupts) = t, NEW busy \in BOOLEAN, Heard(st, busy)
    PROVE  Takes(st, [st EXCEPT !.interrupts = Tail(@)], t, busy)
<1> DEFINE c == [st EXCEPT !.interrupts = Tail(@)]
<1>0. st.interrupts \in Seq(Timers) /\ Tail(st.interrupts) \in Seq(Timers)
  BY HeadTailProperties DEF Rec
<1>1. c \in Rec
  BY <1>0 DEF Rec
<1>2. /\ c.refs = st.refs /\ c.asleep = st.asleep
      /\ c.calling = st.calling /\ c.m_cancel = st.m_cancel
      /\ c.jobs = st.jobs /\ c.interrupts = Tail(st.interrupts) /\ c.m_has_timer = st.m_has_timer
      /\ c.requesting = st.requesting /\ c.entering = st.entering
  BY DEF Rec
<1> HIDE DEF c
<1>t. \A u : /\ Times(u, c.interrupts) = Times(u, st.interrupts) - Is(t, u)
             /\ u = t => Times(u, st.interrupts) > 0
  BY <1>0, <1>2, TimesTail
<1>3. ASSUME NEW u \in Timers
      PROVE  /\ Places(c, u) = Places(st, u) - Is(t, u)
             /\ u = t => Places(st, u) > 0
  <2>1. Is(t, u) \in Nat
    BY DEF Is
  <2>2. /\ Holds(u, st.asleep) \in Nat /\ Holds(u, st.calling) \in Nat
        /\ Holds(u, {st.entering}) \in Nat
        /\ Times(u, st.jobs) \in Nat /\ Times(u, st.interrupts) \in Nat
    BY PlacesType
  <2>3. /\ Times(u, c.interrupts) = Times(u, st.interrupts) - Is(t, u)
        /\ u = t => Times(u, st.interrupts) > 0
    BY <1>t
  <2> QED
    BY <1>2, <2>1, <2>2, <2>3 DEF Places
<1>4. InHand(c, t)
  BY <1>1, <1>2, <1>3, TakenInHand
<1>5. Heard(c, busy)
  BY <1>2 DEF Heard
<1>6. Follows(st, c)
  BY <1>2 DEF Follows, Rec
<1> QED
  BY <1>1, <1>4, <1>5, <1>6 DEF Takes, c
-----------------------------------------------------------------------------
(* The members of the record are the variables.                             *)
LEMMA Fields ==
    /\ state.m_cancel = m_cancel /\ state.m_hr = m_hr /\ state.m_holding = m_holding
    /\ state.refs = refs /\ state.asleep = asleep /\ state.cancels = cancels
    /\ state.jobs = jobs /\ state.interrupts = interrupts
    /\ state.m_has_timer = m_has_timer /\ state.requesting = requesting
    /\ state.entering = entering /\ state.calling = calling
  BY DEF state

(* Assign() gives all the fields of the record.                            *)
LEMMA AssignIs ==
    ASSUME NEW st, st \in Rec, Assign(st)
    PROVE  state' = st
<1>1. /\ state' = [m_cancel |-> m_cancel', m_hr |-> m_hr', m_holding |-> m_holding',
                   refs |-> refs', asleep |-> asleep', cancels |-> cancels', jobs |-> jobs',
                   interrupts |-> interrupts', m_has_timer |-> m_has_timer',
                   requesting |-> requesting', entering |-> entering', calling |-> calling']
  BY DEF state
<1>2. state' = [m_cancel |-> st.m_cancel, m_hr |-> st.m_hr, m_holding |-> st.m_holding,
                refs |-> st.refs, asleep |-> st.asleep, cancels |-> st.cancels,
                jobs |-> st.jobs, interrupts |-> st.interrupts,
                m_has_timer |-> st.m_has_timer, requesting |-> st.requesting,
                entering |-> st.entering, calling |-> st.calling]
  BY <1>1 DEF Assign
<1>3. st = [m_cancel |-> st.m_cancel, m_hr |-> st.m_hr, m_holding |-> st.m_holding,
            refs |-> st.refs, asleep |-> st.asleep, cancels |-> st.cancels,
            jobs |-> st.jobs, interrupts |-> st.interrupts,
            m_has_timer |-> st.m_has_timer, requesting |-> st.requesting,
            entering |-> st.entering, calling |-> st.calling]
  BY DEF Rec
<1> QED
  BY <1>2, <1>3

(* A handler that settles keeps the invariant when it neither calls a      *)
(* function nor concerns a time limit.                                     *)
LEMMA QuietInv ==
    ASSUME Inv, NEW s2, Assign(s2), Settles(state, s2, serving'), serving' \in BOOLEAN,
           terminating' \in BOOLEAN, UNCHANGED <<kind, fired, callVars>>
    PROVE  Inv'
<1>1. state' = s2 /\ s2 \in Rec
  BY AssignIs DEF Settles
<1>2. /\ kind' = kind /\ fired' = fired /\ scopes' = scopes /\ m_termed' = m_termed
      /\ m_fiber' = m_fiber /\ nest' = nest /\ outcome' = outcome /\ exited' = exited
  BY DEF callVars
<1>3. Whole(state)' /\ Heard(state, serving)'
  BY <1>1 DEF Settles
<1>4. Typed'
  BY <1>1, <1>2 DEF Inv, Typed
<1>5. \A t \in Timers : (m_cancel[t] => m_cancel'[t]) /\ refs'[t] <= refs[t]
  BY <1>1, Fields DEF Settles, Follows, state
<1>6. \A t \in Timers : refs[t] \in 0..1 /\ refs'[t] \in 0..1
  BY <1>4, Fields DEF Inv, Typed, Rec, state
<1>7. Fresh'
  BY <1>2, <1>5, <1>6 DEF Inv, Fresh
<1>8. LimitOpen' /\ OneNest'
  BY <1>2, <1>5 DEF Inv, LimitOpen, OneNest, Open
<1>9. OverCleared'
  BY <1>2, <1>5 DEF Inv, OverCleared
<1>10. WillReport' /\ Marked' /\ ExpiryReported'
  BY <1>2 DEF Inv, WillReport, Marked, ExpiryReported, Reported, Open
<1> QED
  BY <1>3, <1>4, <1>7, <1>8, <1>9, <1>10 DEF Inv
(* The function of a timer is called.                                       *)
LEMMA FiredInv ==
    ASSUME Inv, NEW s2, Assign(s2), Settles(state, s2, serving'), serving' \in BOOLEAN,
           terminating' \in BOOLEAN, NEW t \in Timers, kind[t] # "call", kind[t] # "new",
           fired' = [fired EXCEPT ![t] = @ + 1], UNCHANGED <<kind, callVars>>
    PROVE  Inv'
<1>1. state' = s2 /\ s2 \in Rec
  BY AssignIs DEF Settles
<1>2. /\ kind' = kind /\ scopes' = scopes /\ m_termed' = m_termed
      /\ m_fiber' = m_fiber /\ nest' = nest /\ outcome' = outcome /\ exited' = exited
  BY DEF callVars
<1>f. /\ fired' \in [Timers -> Nat] /\ \A u \in Timers : u # t => fired'[u] = fired[u]
      /\ \A u \in Timers : fired[u] > 0 => fired'[u] > 0
  <2>1. fired \in [Timers -> Nat]
    BY DEF Inv, Typed
  <2> QED
    BY <2>1
<1>3. Whole(state)' /\ Heard(state, serving)'
  BY <1>1 DEF Settles
<1>4. Typed'
  BY <1>1, <1>2, <1>f DEF Inv, Typed
<1>5. \A u \in Timers : (m_cancel[u] => m_cancel'[u]) /\ refs'[u] <= refs[u]
  BY <1>1, Fields DEF Settles, Follows, state
<1>6. \A u \in Timers : refs[u] \in 0..1 /\ refs'[u] \in 0..1
  BY <1>4, Fields DEF Inv, Typed, Rec, state
<1>7. Fresh'
  BY <1>2, <1>5, <1>6, <1>f DEF Inv, Fresh
<1>8. LimitOpen' /\ OneNest'
  BY <1>2, <1>5 DEF Inv, LimitOpen, OneNest, Open
<1>9. OverCleared'
  BY <1>2, <1>5 DEF Inv, OverCleared
<1>10. WillReport' /\ Marked'
  BY <1>2, <1>f DEF Inv, WillReport, Marked, Reported, Open
<1>11. ExpiryReported'
  BY <1>2, <1>f DEF Inv, ExpiryReported, OverCleared
<1> QED
  BY <1>3, <1>4, <1>7, <1>8, <1>9, <1>10, <1>11 DEF Inv

(* A time limit expires: its fiber is marked while its scope is open.       *)
LEMMA LimitInv ==
    ASSUME Inv, NEW s2, Assign(s2), Settles(state, s2, serving'), serving' \in BOOLEAN,
           terminating' \in BOOLEAN, NEW t \in Timers, kind[t] = "call", ~m_cancel[t],
           FuncTimer(t), fired' = [fired EXCEPT ![t] = @ + 1],
           UNCHANGED <<kind, scopes, m_fiber, nest, outcome, exited>>
    PROVE  Inv'
<1>1. state' = s2 /\ s2 \in Rec
  BY AssignIs DEF Settles
<1>2. /\ kind' = kind /\ scopes' = scopes
      /\ m_fiber' = m_fiber /\ nest' = nest /\ outcome' = outcome /\ exited' = exited
  OBVIOUS
<1>f. /\ fired' \in [Timers -> Nat] /\ \A u \in Timers : u # t => fired'[u] = fired[u]
      /\ \A u \in Timers : fired[u] > 0 => fired'[u] > 0
      /\ fired'[t] > 0
  <2>1. fired \in [Timers -> Nat]
    BY DEF Inv, Typed
  <2> QED
    BY <2>1
<1>m. PICK f \in Fibers : f = m_fiber[t] /\ Open(f, t)
  BY DEF Inv, LimitOpen
<1>n. /\ m_termed' \in [Fibers -> BOOLEAN] /\ m_termed'[f] = TRUE
      /\ \A g \in Fibers : g # f => m_termed'[g] = m_termed[g]
  <2>1. m_termed \in [Fibers -> BOOLEAN]
    BY DEF Inv, Typed
  <2>2. m_termed' = [m_termed EXCEPT ![f] = TRUE]
    BY <1>m DEF FuncTimer
  <2> QED
    BY <2>1, <2>2
<1>o. \A g \in Fibers, u \in Timers : Open(g, u)' <=> Open(g, u)
  BY <1>2 DEF Open
<1>3. Whole(state)' /\ Heard(state, serving)'
  BY <1>1 DEF Settles
<1>4. Typed'
  BY <1>1, <1>2, <1>f, <1>n DEF Inv, Typed
<1>5. \A u \in Timers : (m_cancel[u] => m_cancel'[u]) /\ refs'[u] <= refs[u]
  BY <1>1, Fields DEF Settles, Follows, state
<1>6. \A u \in Timers : refs[u] \in 0..1 /\ refs'[u] \in 0..1
  BY <1>4, Fields DEF Inv, Typed, Rec, state
<1>7. Fresh'
  BY <1>2, <1>5, <1>6, <1>f DEF Inv, Fresh
<1>8. LimitOpen' /\ OneNest'
  BY <1>2, <1>5 DEF Inv, LimitOpen, OneNest, Open
<1>9. OverCleared'
  BY <1>2, <1>5 DEF Inv, OverCleared
<1>10. WillReport'
  <2>1. \A u \in Timers : Reported(u)' <=> Reported(u)
    BY <1>2 DEF Reported
  <2> QED
    BY <1>2, <1>f, <1>m, <1>n, <1>o, <2>1 DEF Inv, WillReport
<1>11. Marked'
  BY <1>2, <1>f, <1>m, <1>n, <1>o DEF Inv, Marked
<1>12. ExpiryReported'
  BY <1>2, <1>f DEF Inv, ExpiryReported, OverCleared
<1> QED
  BY <1>3, <1>4, <1>7, <1>8, <1>9, <1>10, <1>11, <1>12 DEF Inv

(* A job calls the function of t: callback() has not returned.              *)
LEMMA CallingSettles ==
    ASSUME NEW st \in Rec, NEW t \in Timers, InHand(st, t), NEW busy \in BOOLEAN,
           Heard(st, busy)
    PROVE  Settles(st, [st EXCEPT !.calling = @ \cup {t}], busy)
<1> DEFINE c == [st EXCEPT !.calling = @ \cup {t}]
<1>1. c \in Rec
  BY DEF Rec
<1>2. /\ c.refs = st.refs /\ c.asleep = st.asleep
      /\ c.calling = st.calling \cup {t} /\ c.m_cancel = st.m_cancel
      /\ c.jobs = st.jobs /\ c.interrupts = st.interrupts /\ c.m_has_timer = st.m_has_timer
      /\ c.requesting = st.requesting /\ c.entering = st.entering
  BY DEF Rec
<1> HIDE DEF c
<1>3. t \notin st.calling
  <2>1. Holds(t, st.calling) = 0
    <3>1. Places(st, t) = 0
      BY DEF InHand
    <3> QED
      BY <3>1, NoPlace
  <2> QED
    BY <2>1 DEF Holds
<1>4. ASSUME NEW u \in Timers
      PROVE  Places(c, u) = Places(st, u) + Is(t, u)
  <2>1. Is(t, u) \in Nat
    BY DEF Is
  <2>2. /\ Holds(u, st.asleep) \in Nat /\ Holds(u, st.calling) \in Nat
        /\ Holds(u, {st.entering}) \in Nat
        /\ Times(u, st.jobs) \in Nat /\ Times(u, st.interrupts) \in Nat
    BY PlacesType
  <2>3. Holds(u, c.calling) = Holds(u, st.calling) + Is(t, u)
    BY <1>2, <1>3 DEF Holds, Is
  <2> QED
    BY <1>2, <2>1, <2>2, <2>3 DEF Places
<1>5. Whole(c)
  BY <1>2, <1>4, PlacesNat DEF InHand, Whole, Is
<1>6. Heard(c, busy)
  BY <1>2 DEF Heard
<1>7. Follows(st, c)
  BY <1>2 DEF Follows, Rec
<1> QED
  BY <1>1, <1>5, <1>6, <1>7 DEF Settles, c

(* on_js_timer() is about to call the function of t.                        *)
LEMMA EnteringSettles ==
    ASSUME NEW st \in Rec, NEW t \in Timers, InHand(st, t), NEW busy \in BOOLEAN,
           Heard(st, busy), st.entering = "none"
    PROVE  Settles(st, [st EXCEPT !.entering = t], busy)
<1> DEFINE c == [st EXCEPT !.entering = t]
<1>1. c \in Rec
  BY DEF Rec
<1>2. /\ c.refs = st.refs /\ c.asleep = st.asleep
      /\ c.calling = st.calling /\ c.m_cancel = st.m_cancel
      /\ c.jobs = st.jobs /\ c.interrupts = st.interrupts /\ c.m_has_timer = st.m_has_timer
      /\ c.requesting = st.requesting /\ c.entering = t
  BY DEF Rec
<1> HIDE DEF c
<1>4. ASSUME NEW u \in Timers
      PROVE  Places(c, u) = Places(st, u) + Is(t, u)
  <2>1. Is(t, u) \in Nat
    BY DEF Is
  <2>2. /\ Holds(u, st.asleep) \in Nat /\ Holds(u, st.calling) \in Nat
        /\ Holds(u, {st.entering}) \in Nat
        /\ Times(u, st.jobs) \in Nat /\ Times(u, st.interrupts) \in Nat
    BY PlacesType
  <2>3. Holds(u, {c.entering}) = Holds(u, {st.entering}) + Is(t, u)
    BY <1>2, NamesAssumption DEF Holds, Is
  <2> QED
    BY <1>2, <2>1, <2>2, <2>3 DEF Places
<1>5. Whole(c)
  BY <1>2, <1>4, PlacesNat DEF InHand, Whole, Is
<1>6. Heard(c, busy)
  BY <1>2 DEF Heard
<1>7. Follows(st, c)
  BY <1>2 DEF Follows, Rec
<1> QED
  BY <1>1, <1>5, <1>6, <1>7 DEF Settles, c

(* Two changes in one step.                                                *)
LEMMA FollowsTwice ==
    ASSUME NEW st \in Rec, NEW s1 \in Rec, NEW s2, NEW busy \in BOOLEAN,
           Follows(st, s1), Settles(s1, s2, busy)
    PROVE  Settles(st, s2, busy)
<1>1. s2 \in Rec /\ Follows(s1, s2)
  BY DEF Settles
<1>2. /\ st.refs \in [Timers -> 0..1] /\ s1.refs \in [Timers -> 0..1]
      /\ s2.refs \in [Timers -> 0..1]
  BY <1>1 DEF Rec
<1>3. Follows(st, s2)
  BY <1>1, <1>2 DEF Follows
<1> QED
  BY <1>3 DEF Settles

(* callback() goes on after the function, which may have cleared its timer. *)
LEMMA CalledTwice ==
    ASSUME NEW s0 \in Rec, NEW st, NEW t \in Timers, NEW busy \in BOOLEAN,
           Takes(s0, st, t, busy), terminating \in BOOLEAN
    PROVE  \A ran \in {st, clear(st, t)} : Settles(s0, Called(ran, t), busy)
<1>0. st \in Rec /\ InHand(st, t) /\ Heard(st, busy) /\ Follows(s0, st)
  BY DEF Takes
<1>1. Settles(s0, Called(st, t), busy)
  <2>1. Settles(st, Called(st, t), busy)
    BY <1>0, CalledSettles
  <2> QED
    BY <1>0, <2>1, FollowsTwice
<1>2. Settles(s0, Called(clear(st, t), t), busy)
  <2> DEFINE c == clear(st, t)
  <2>0. c \in Rec /\ InHand(c, t) /\ Heard(c, busy) /\ Follows(st, c)
    BY <1>0, clearKeeps, SameSpotsKeeps
  <2> HIDE DEF c
  <2>1. Settles(c, Called(c, t), busy)
    BY <2>0, CalledSettles
  <2>2. Settles(st, Called(c, t), busy)
    BY <1>0, <2>0, <2>1, FollowsTwice
  <2>3. Settles(s0, Called(c, t), busy)
    BY <1>0, <2>2, FollowsTwice
  <2> QED
    BY <2>3 DEF c
<1> QED
  BY <1>1, <1>2

(* callback(), of a timer in hand.                                          *)
LEMMA CallbackInv ==
    ASSUME Inv, NEW st, NEW t \in Timers, Takes(state, st, t, serving), st.entering = "none",
           Callback(st, t), UNCHANGED <<kind, serving, terminating, scopes, m_fiber,
                                        nest, outcome, exited>>
    PROVE  Inv'
<1>0. /\ state \in Rec /\ serving \in BOOLEAN /\ terminating \in BOOLEAN
      /\ st \in Rec /\ InHand(st, t) /\ Heard(st, serving) /\ Follows(state, st)
      /\ serving' = serving /\ terminating' = terminating
  BY DEF Inv, Typed, Takes
<1>d. \A ran \in {st, clear(st, t)} : Settles(state, Called(ran, t), serving)
  BY <1>0, CalledTwice
<1>1. CASE /\ Cancelled(t) /\ Assign(Clean(st, t)) /\ UNCHANGED <<fired, m_termed>>
  <2>1. Settles(st, Clean(st, t), serving)
    BY <1>0, CleanSettles
  <2>2. Settles(state, Clean(st, t), serving)
    BY <1>0, <2>1, FollowsTwice
  <2> QED
    BY <1>0, <1>1, <2>2, QuietInv DEF callVars
<1>2. CASE /\ CallsScript(t) /\ Assign([st EXCEPT !.entering = t])
           /\ UNCHANGED <<fired, m_termed>>
  <2>1. Settles(st, [st EXCEPT !.entering = t], serving)
    BY <1>0, EnteringSettles
  <2>2. Settles(state, [st EXCEPT !.entering = t], serving)
    BY <1>0, <2>1, FollowsTwice
  <2> QED
    BY <1>0, <1>2, <2>2, QuietInv DEF callVars
<1>4. CASE /\ Assign(Called(clear(st, t), t)) /\ UNCHANGED <<fired, m_termed>>
  <2>1. Settles(state, Called(clear(st, t), t), serving)
    BY <1>d
  <2> QED
    BY <1>0, <1>4, <2>1, QuietInv DEF callVars
<1>5. CASE /\ ~Cancelled(t) /\ kind[t] = "call" /\ FuncTimer(t) /\ Assign(Called(st, t))
           /\ fired' = [fired EXCEPT ![t] = @ + 1]
  <2>1. Settles(state, Called(st, t), serving)
    BY <1>d
  <2> QED
    BY <1>0, <1>5, <2>1, LimitInv DEF Cancelled
<1> QED
  BY <1>1, <1>2, <1>4, <1>5 DEF Callback

(* callback->Call().                                                       *)
LEMMA CallFunctionInv ==
    ASSUME Inv, NEW t \in Timers, CallFunction(t), kind[t] # "call"
    PROVE  Inv'
<1> DEFINE st == [state EXCEPT !.entering = "none"]
<1>0. /\ state \in Rec /\ Whole(state) /\ Heard(state, serving)
      /\ serving \in BOOLEAN /\ terminating \in BOOLEAN
      /\ serving' = serving /\ terminating' = terminating
      /\ UNCHANGED <<kind, callVars>> /\ fired' = [fired EXCEPT ![t] = @ + 1]
      /\ state.entering = t
  BY Fields DEF Inv, Typed, CallFunction
<1>1. Takes(state, st, t, serving)
  BY <1>0, EnteredTakes
<1>2. \/ Assign([st EXCEPT !.calling = @ \cup {t}])
      \/ \E ran \in {st, clear(st, t)} : Assign(Called(ran, t))
  BY DEF CallFunction
<1> HIDE DEF st
<1>3. kind[t] # "new"
  <2>1. st.refs[t] = 1 /\ st.refs[t] <= refs[t]
    BY <1>1, Fields DEF Takes, InHand, Follows
  <2> QED
    BY <2>1 DEF Inv, Fresh
<1>4. CASE Assign([st EXCEPT !.calling = @ \cup {t}])
  <2>1. Settles(st, [st EXCEPT !.calling = @ \cup {t}], serving)
    BY <1>0, <1>1, CallingSettles DEF Takes
  <2>2. Settles(state, [st EXCEPT !.calling = @ \cup {t}], serving)
    BY <1>0, <1>1, <2>1, FollowsTwice DEF Takes
  <2> QED
    BY <1>0, <1>3, <1>4, <2>2, FiredInv
<1>5. CASE \E ran \in {st, clear(st, t)} : Assign(Called(ran, t))
  <2>1. PICK ran \in {st, clear(st, t)} : Assign(Called(ran, t))
    BY <1>5
  <2>2. Settles(state, Called(ran, t), serving)
    BY <1>0, <1>1, CalledTwice
  <2> QED
    BY <1>0, <1>3, <2>1, <2>2, FiredInv
<1> QED
  BY <1>2, <1>4, <1>5
-----------------------------------------------------------------------------
(* A job that is no timer's leaves the queue.                               *)
LEMMA OtherJob ==
    ASSUME NEW st \in Rec, Whole(st), st.jobs # << >>, Head(st.jobs) \notin Timers
    PROVE  LET c == [st EXCEPT !.jobs = Tail(@)]
           IN  /\ c \in Rec /\ Whole(c) /\ Follows(st, c)
               /\ \A busy \in BOOLEAN :
                     Head(st.jobs) # "interrupts" /\ Heard(st, busy) => Heard(c, busy)
<1> DEFINE c == [st EXCEPT !.jobs = Tail(@)]
<1>0. st.jobs \in Seq(JobSet) /\ Tail(st.jobs) \in Seq(JobSet)
  BY HeadTailProperties DEF Rec
<1>1. c \in Rec
  BY <1>0 DEF Rec
<1>2. /\ c.refs = st.refs /\ c.asleep = st.asleep
      /\ c.calling = st.calling /\ c.m_cancel = st.m_cancel
      /\ c.jobs = Tail(st.jobs) /\ c.interrupts = st.interrupts /\ c.m_has_timer = st.m_has_timer
      /\ c.requesting = st.requesting /\ c.entering = st.entering
  BY DEF Rec
<1> HIDE DEF c
<1>3. \A u : Head(st.jobs) # u => Times(u, c.jobs) = Times(u, st.jobs)
  <2> SUFFICES ASSUME NEW u, Head(st.jobs) # u PROVE Times(u, c.jobs) = Times(u, st.jobs)
    OBVIOUS
  <2>1. Times(u, c.jobs) = Times(u, st.jobs) - Is(Head(st.jobs), u)
    BY <1>0, <1>2, TimesTail
  <2>2. Times(u, st.jobs) \in Nat /\ Is(Head(st.jobs), u) = 0
    BY <1>0, TimesType DEF Is
  <2> QED
    BY <2>1, <2>2
<1>4. \A u \in Timers : Places(c, u) = Places(st, u)
  BY <1>2, <1>3 DEF Places
<1>5. Whole(c)
  BY <1>2, <1>4 DEF Whole
<1>6. Follows(st, c)
  BY <1>2 DEF Follows, Rec
<1>7. \A busy \in BOOLEAN : Head(st.jobs) # "interrupts" /\ Heard(st, busy) => Heard(c, busy)
  BY <1>2, <1>3 DEF Heard
<1> QED
  BY <1>1, <1>5, <1>6, <1>7 DEF c

(* stop() of every object that holds the isolate moves no timer.            *)
LEMMA StopSettles ==
    ASSUME NEW st \in Rec, Whole(st), NEW busy \in BOOLEAN, Heard(st, busy)
    PROVE  Settles(st, stopHoldingObjects(st), busy)
<1> DEFINE c == stopHoldingObjects(st)
<1>1. c \in Rec
  BY DEF stopHoldingObjects, Rec
<1>2. /\ c.refs = st.refs /\ c.asleep = st.asleep /\ c.calling = st.calling
      /\ c.jobs = st.jobs /\ c.interrupts = st.interrupts /\ c.m_has_timer = st.m_has_timer
      /\ c.requesting = st.requesting /\ c.entering = st.entering
      /\ c.m_cancel = [t \in Timers |-> st.m_cancel[t] \/ st.m_holding[t]]
  BY DEF stopHoldingObjects, Rec
<1> HIDE DEF c
<1>3. Follows(st, c)
  BY <1>2 DEF Follows, Rec
<1>4. Whole(c) /\ Heard(c, busy)
  BY <1>2, SameSpotsKeeps DEF SameSpots
<1> QED
  BY <1>1, <1>3, <1>4 DEF Settles, c

(* The isolate runs its next job.                                          *)
LEMMA RunJobInv ==
    ASSUME Inv, RunJob
    PROVE  Inv'
<1> DEFINE st == [state EXCEPT !.jobs = Tail(@)]
<1>0. /\ state \in Rec /\ Whole(state) /\ Heard(state, serving)
      /\ serving \in BOOLEAN /\ terminating \in BOOLEAN
      /\ state.jobs = jobs /\ jobs # << >> /\ serving = FALSE /\ state.entering = "none"
  BY Fields DEF Inv, Typed, RunJob, Script, AtRest
<1>1. UNCHANGED <<kind, terminating, scopes, m_fiber, nest, outcome, exited>>
  BY DEF RunJob
<1>2. CASE Head(jobs) \in Timers /\ Callback(st, Head(jobs)) /\ UNCHANGED serving
  <2>1. Takes(state, st, Head(jobs), serving)
    BY <1>0, <1>2, JobTakes
  <2>2. st.entering = "none"
    BY <1>0 DEF Rec
  <2> HIDE DEF st
  <2> QED
    BY <1>1, <1>2, <2>1, <2>2, CallbackInv
<1>3. CASE /\ Head(jobs) = "stop" /\ Assign(stopHoldingObjects(st))
           /\ UNCHANGED <<serving, fired, m_termed>>
  <2>1. Head(jobs) \notin Timers /\ Head(jobs) # "interrupts"
    BY <1>3, NamesAssumption
  <2>2. st \in Rec /\ Whole(st) /\ Follows(state, st) /\ Heard(st, serving)
    BY <1>0, <2>1, OtherJob
  <2> HIDE DEF st
  <2>3. Settles(st, stopHoldingObjects(st), serving)
    BY <1>0, <2>2, StopSettles
  <2>4. Settles(state, stopHoldingObjects(st), serving)
    BY <1>0, <2>2, <2>3, FollowsTwice
  <2> QED
    BY <1>0, <1>1, <1>3, <2>4, QuietInv DEF callVars
<1>4. CASE /\ Head(jobs) = "interrupts" /\ Assign(ServeBegins(st)) /\ serving' = TRUE
           /\ UNCHANGED <<fired, m_termed>>
  <2>1. Head(jobs) \notin Timers
    BY <1>4, NamesAssumption
  <2>2. st \in Rec /\ Whole(st) /\ Follows(state, st)
    BY <1>0, <2>1, OtherJob
  <2> HIDE DEF st
  <2> DEFINE c == ServeBegins(st)
  <2>3. c \in Rec
    BY <2>2 DEF ServeBegins, Rec
  <2>4. /\ c.refs = st.refs /\ c.asleep = st.asleep /\ c.calling = st.calling
        /\ c.jobs = st.jobs /\ c.interrupts = st.interrupts /\ c.m_has_timer = FALSE
        /\ c.m_cancel = st.m_cancel /\ c.entering = st.entering
    BY <2>2 DEF ServeBegins, Rec
  <2> HIDE DEF c
  <2>5. \A u \in Timers : Places(c, u) = Places(st, u)
    BY <2>4 DEF Places
  <2>6. Whole(c)
    BY <2>2, <2>4, <2>5 DEF Whole
  <2>7. Heard(c, TRUE) /\ Follows(state, c)
    BY <2>2, <2>4 DEF Heard, Follows
  <2>8. Settles(state, c, serving')
    BY <1>4, <2>3, <2>6, <2>7 DEF Settles
  <2> QED
    BY <1>0, <1>1, <1>4, <2>8, QuietInv DEF callVars, c
<1> QED
  BY <1>2, <1>3, <1>4 DEF RunJob

(* V8 serves the first interrupt in the middle of script.                  *)
LEMMA InterruptInv ==
    ASSUME Inv, Interrupt
    PROVE  Inv'
<1> DEFINE st == [state EXCEPT !.interrupts = Tail(@)]
<1>0. /\ state \in Rec /\ Whole(state) /\ Heard(state, serving)
      /\ serving \in BOOLEAN /\ state.interrupts = interrupts /\ interrupts # << >>
      /\ interrupts \in Seq(Timers) /\ state.entering = "none"
  BY Fields DEF Inv, Typed, Interrupt, Rec, AtRest
<1>1. Head(interrupts) \in Timers
  BY <1>0, HeadTailProperties
<1>2. Takes(state, st, Head(interrupts), serving)
  BY <1>0, <1>1, InterruptTakes
<1>3. /\ Callback(st, Head(interrupts))
      /\ UNCHANGED <<kind, serving, terminating, scopes, m_fiber, nest, outcome, exited>>
  BY DEF Interrupt
<1>4. st.entering = "none"
  BY <1>0 DEF Rec
<1> HIDE DEF st
<1> QED
  BY <1>1, <1>2, <1>3, <1>4, CallbackInv

(* Steps that leave callbacks and limits alone.                             *)
LEMMA OtherInv ==
    ASSUME Inv
    PROVE  /\ \A t \in Timers : Clear(t) \/ Expire(t) \/ cancel_sleep(t) \/ Return(t) => Inv'
           /\ \A t \in Timers, on \in BOOLEAN : Ref(t, on) => Inv'
           /\ ServeEnds \/ requestTerminate \/ RequestMark \/ RequestPost => Inv'
<1>0. /\ state \in Rec /\ Whole(state) /\ Heard(state, serving)
      /\ serving \in BOOLEAN /\ terminating \in BOOLEAN
  BY DEF Inv, Typed
<1>1. ASSUME NEW t \in Timers, Clear(t)
      PROVE  Inv'
  <2>1. Settles(state, clear(state, t), serving)
    BY <1>0, clearKeeps, SameSpotsKeeps DEF Settles
  <2> QED
    BY <1>0, <1>1, <2>1, QuietInv DEF Clear
<1>2. ASSUME NEW t \in Timers, Expire(t)
      PROVE  Inv'
  <2> DEFINE st == [state EXCEPT !.asleep = @ \ {t}]
  <2>1. t \in state.asleep /\ state.requesting = "no"
    BY <1>2, Fields DEF Expire
  <2>2. Takes(state, st, t, serving)
    BY <1>0, <2>1, WakeTakes
  <2>3. /\ Assign(resume(st, t)) /\ UNCHANGED <<kind, serving, fired, terminating, callVars>>
    BY <1>2 DEF Expire
  <2>r. st.requesting = "no"
    BY <1>0, <2>1 DEF Rec
  <2> HIDE DEF st
  <2>4. Settles(st, resume(st, t), serving)
    BY <1>0, <2>2, <2>r, resumeSettles DEF Takes
  <2>5. Settles(state, resume(st, t), serving)
    BY <1>0, <2>2, <2>4, FollowsTwice DEF Takes
  <2> QED
    BY <1>0, <2>3, <2>5, QuietInv
<1>3. ASSUME NEW t \in Timers, cancel_sleep(t)
      PROVE  Inv'
  <2> DEFINE met == [state EXCEPT !.cancels = @ \ {t}]
             st == [met EXCEPT !.asleep = @ \ {t}]
  <2>1. /\ Assign(IF t \in asleep THEN resume(st, t) ELSE met)
        /\ UNCHANGED <<kind, serving, fired, terminating, callVars>>
    BY <1>3 DEF cancel_sleep
  <2>2. met \in Rec
    BY <1>0 DEF Rec
  <2>3. /\ SameSpots(state, met) /\ met.m_cancel = state.m_cancel /\ met.asleep = asleep
        /\ met.requesting = "no"
    BY <1>0, <1>3, Fields DEF Rec, SameSpots, cancel_sleep
  <2>r. st.requesting = "no"
    BY <2>2, <2>3 DEF Rec
  <2>a. st = [met EXCEPT !.asleep = @ \ {t}]
    OBVIOUS
  <2> HIDE DEF met, st
  <2>4. Whole(met) /\ Heard(met, serving)
    BY <1>0, <2>3, SameSpotsKeeps
  <2>5. Follows(state, met)
    BY <1>0, <2>3 DEF Follows, SameSpots, Rec
  <2>6. CASE t \in asleep
    <3>1. Takes(met, st, t, serving)
      BY <1>0, <2>2, <2>3, <2>4, <2>6, <2>a, WakeTakes
    <3>2. Settles(st, resume(st, t), serving)
      BY <1>0, <2>r, <3>1, resumeSettles DEF Takes
    <3>3. Settles(met, resume(st, t), serving)
      BY <1>0, <2>2, <3>1, <3>2, FollowsTwice DEF Takes
    <3>4. Settles(state, resume(st, t), serving)
      BY <1>0, <2>2, <2>5, <3>3, FollowsTwice
    <3> QED
      BY <1>0, <2>1, <2>6, <3>4, QuietInv
  <2>7. CASE t \notin asleep
    <3>1. Settles(state, met, serving)
      BY <2>2, <2>4, <2>5 DEF Settles
    <3> QED
      BY <1>0, <2>1, <2>7, <3>1, QuietInv
  <2> QED
    BY <2>6, <2>7
<1>4. ASSUME NEW t \in Timers, Return(t)
      PROVE  Inv'
  <2> DEFINE st == [state EXCEPT !.calling = @ \ {t}]
  <2>1. t \in state.calling
    BY <1>4, Fields DEF Return
  <2>2. Takes(state, st, t, serving)
    BY <1>0, <2>1, ReturnTakes
  <2>3. /\ Assign(Called(st, t)) /\ UNCHANGED <<kind, serving, fired, terminating, callVars>>
    BY <1>4 DEF Return
  <2> HIDE DEF st
  <2>4. Settles(st, Called(st, t), serving)
    BY <1>0, <2>2, CalledSettles DEF Takes
  <2>5. Settles(state, Called(st, t), serving)
    BY <1>0, <2>2, <2>4, FollowsTwice DEF Takes
  <2> QED
    BY <1>0, <2>3, <2>5, QuietInv
<1>5. ASSUME NEW t \in Timers, NEW on \in BOOLEAN, Ref(t, on)
      PROVE  Inv'
  <2> DEFINE st == [state EXCEPT !.m_holding[t] = on]
  <2>1. st \in Rec
    BY <1>0 DEF Rec
  <2>2. SameSpots(state, st) /\ st.m_cancel = state.m_cancel
    BY <1>0 DEF Rec, SameSpots
  <2>3. Assign(st) /\ UNCHANGED <<kind, serving, fired, terminating, callVars>>
    BY <1>5 DEF Ref
  <2> HIDE DEF st
  <2>4. Settles(state, st, serving)
    <3>1. Follows(state, st)
      BY <1>0, <2>2 DEF Follows, SameSpots, Rec
    <3> QED
      BY <1>0, <2>1, <2>2, <3>1, SameSpotsKeeps DEF Settles
  <2> QED
    BY <1>0, <2>3, <2>4, QuietInv
<1>6. ASSUME ServeEnds
      PROVE  Inv'
  <2>1. Heard(state, FALSE)
    BY <1>0, <1>6, Fields DEF Heard, ServeEnds
  <2>2. Follows(state, state)
    BY <1>0 DEF Follows, Rec
  <2>3. Settles(state, state, serving')
    BY <1>0, <1>6, <2>1, <2>2 DEF Settles, ServeEnds
  <2> QED
    BY <1>0, <1>6, <2>3, QuietInv DEF ServeEnds
<1>7. ASSUME requestTerminate
      PROVE  Inv'
  <2> DEFINE st == [state EXCEPT !.jobs = Append(@, "stop")]
  <2>1. state.jobs \in Seq(JobSet) /\ "stop" \in JobSet
    BY <1>0 DEF Rec, JobSet
  <2>2. st \in Rec
    <3>1. Append(state.jobs, "stop") \in Seq(JobSet)
      BY <2>1, AppendProperties
    <3> QED
      BY <1>0, <3>1 DEF Rec
  <2>3. /\ st.refs = state.refs /\ st.asleep = state.asleep
        /\ st.calling = state.calling /\ st.m_cancel = state.m_cancel
        /\ st.jobs = Append(state.jobs, "stop") /\ st.interrupts = state.interrupts
        /\ st.m_has_timer = state.m_has_timer
        /\ st.requesting = state.requesting /\ st.entering = state.entering
    BY <1>0 DEF Rec
  <2>4. Assign(st) /\ terminating' = TRUE /\ UNCHANGED <<kind, serving, fired, callVars>>
    BY <1>7 DEF requestTerminate
  <2> HIDE DEF st
  <2>5. \A u : u # "stop" => Times(u, st.jobs) = Times(u, state.jobs)
    <3> SUFFICES ASSUME NEW u, u # "stop" PROVE Times(u, st.jobs) = Times(u, state.jobs)
      OBVIOUS
    <3>1. Times(u, st.jobs) = Times(u, state.jobs) + Is("stop", u)
      BY <2>1, <2>3, TimesAppend
    <3>2. Times(u, state.jobs) \in Nat /\ Is("stop", u) = 0
      BY <2>1, TimesType DEF Is
    <3> QED
      BY <3>1, <3>2
  <2>6. Whole(st)
    <3>1. \A u \in Timers : Places(st, u) = Places(state, u)
      BY <2>3, <2>5, NamesAssumption DEF Places
    <3> QED
      BY <1>0, <2>3, <3>1 DEF Whole
  <2>a. Times("interrupts", st.jobs) = Times("interrupts", state.jobs)
    BY <2>5
  <2>b. Heard(st, serving)
    BY <1>0, <2>3, <2>a DEF Heard
  <2>c. Follows(state, st)
    BY <1>0, <2>3 DEF Follows, Rec
  <2>7. Heard(st, serving) /\ Follows(state, st)
    BY <2>b, <2>c
  <2>8. Settles(state, st, serving)
    BY <2>2, <2>6, <2>7 DEF Settles
  <2> QED
    BY <1>0, <2>4, <2>8, QuietInv
<1>8. ASSUME RequestMark
      PROVE  Inv'
  <2> DEFINE st == [state EXCEPT !.m_has_timer = TRUE,
                                !.requesting = IF m_has_timer THEN "no" ELSE "post"]
  <2>1. st \in Rec
    BY <1>0 DEF Rec
  <2>2. /\ st.refs = state.refs /\ st.asleep = state.asleep /\ st.calling = state.calling
        /\ st.m_cancel = state.m_cancel /\ st.jobs = state.jobs
        /\ st.interrupts = state.interrupts /\ st.entering = state.entering
        /\ st.m_has_timer = TRUE
        /\ st.requesting = IF m_has_timer THEN "no" ELSE "post"
        /\ state.requesting = "mark" /\ state.m_has_timer = m_has_timer
    BY <1>0, <1>8, Fields DEF Rec, RequestMark
  <2>3. Assign(st) /\ UNCHANGED <<kind, serving, fired, terminating, callVars>>
    BY <1>8 DEF RequestMark
  <2> HIDE DEF st
  <2>a. \A u \in Timers : Places(st, u) = Places(state, u)
    BY <2>2 DEF Places
  <2>b. Whole(st)
    BY <1>0, <2>2, <2>a DEF Whole
  <2>4. Whole(st) /\ Follows(state, st)
    BY <1>0, <2>2, <2>b DEF Follows, Rec
  <2>5. Heard(st, serving)
    BY <1>0, <2>2 DEF Heard
  <2>6. Settles(state, st, serving)
    BY <2>1, <2>4, <2>5 DEF Settles
  <2> QED
    BY <1>0, <2>3, <2>6, QuietInv
<1>9. ASSUME RequestPost
      PROVE  Inv'
  <2> DEFINE st == [state EXCEPT !.jobs = Append(@, "interrupts"), !.requesting = "no"]
  <2>1. state.jobs \in Seq(JobSet) /\ "interrupts" \in JobSet
    BY <1>0 DEF Rec, JobSet
  <2>2. st \in Rec
    <3>1. Append(state.jobs, "interrupts") \in Seq(JobSet)
      BY <2>1, AppendProperties
    <3> QED
      BY <1>0, <3>1 DEF Rec
  <2>3. /\ st.refs = state.refs /\ st.asleep = state.asleep
        /\ st.calling = state.calling /\ st.m_cancel = state.m_cancel
        /\ st.jobs = Append(state.jobs, "interrupts") /\ st.interrupts = state.interrupts
        /\ st.m_has_timer = state.m_has_timer /\ st.entering = state.entering
        /\ state.requesting = "post"
    BY <1>0, <1>9, Fields DEF Rec, RequestPost
  <2>4. Assign(st) /\ UNCHANGED <<kind, serving, fired, terminating, callVars>>
    BY <1>9 DEF RequestPost
  <2> HIDE DEF st
  <2>5. \A u : Times(u, st.jobs) = Times(u, state.jobs) + Is("interrupts", u)
    BY <2>1, <2>3, TimesAppend
  <2>6. \A u : Times(u, state.jobs) \in Nat
    BY <2>1, TimesType
  <2>7. \A u \in Timers : Is("interrupts", u) = 0
    BY NamesAssumption DEF Is
  <2>8. \A u \in Timers : Times(u, st.jobs) = Times(u, state.jobs)
    BY <2>5, <2>6, <2>7
  <2>9. Whole(st)
    <3>1. \A u \in Timers : Places(st, u) = Places(state, u)
      BY <2>3, <2>8 DEF Places
    <3> QED
      BY <1>0, <2>3, <3>1 DEF Whole
  <2>10. Times("interrupts", st.jobs) > 0
    BY <2>5, <2>6 DEF Is
  <2>11. Heard(st, serving) /\ Follows(state, st)
    BY <1>0, <2>3, <2>10 DEF Heard, Follows, Rec
  <2>12. Settles(state, st, serving)
    BY <2>2, <2>9, <2>11 DEF Settles
  <2> QED
    BY <1>0, <2>4, <2>12, QuietInv
<1> QED
  BY <1>1, <1>2, <1>3, <1>4, <1>5, <1>6, <1>7, <1>8, <1>9
-----------------------------------------------------------------------------
(* A timer is made: it was in no place, and is in one.                      *)
LEMMA MakeDoes ==
    ASSUME Inv, NEW t \in Timers, NEW k \in Kinds, Make(t, k)
    PROVE  /\ kind[t] = "new"
           /\ kind' \in [Timers -> Kinds \cup {"new"}] /\ kind'[t] = k
           /\ \A u \in Timers : u # t => kind'[u] = kind[u]
           /\ state' \in Rec /\ Whole(state') /\ Heard(state', serving)
           /\ \A u \in Timers : m_cancel[u] => m_cancel'[u]
           /\ \A u \in Timers : u # t => refs'[u] <= refs[u]
<1>0. /\ state \in Rec /\ Whole(state) /\ Heard(state, serving)
      /\ serving \in BOOLEAN /\ terminating \in BOOLEAN
      /\ kind \in [Timers -> Kinds \cup {"new"}]
  BY DEF Inv, Typed
<1>1. kind[t] = "new"
  <2>1. \E u \in Timers : kind[u] = "new"
    BY DEF Make, Made
  <2> QED
    BY <2>1 DEF Make
<1>2. /\ kind' \in [Timers -> Kinds \cup {"new"}] /\ kind'[t] = k
      /\ \A u \in Timers : u # t => kind'[u] = kind[u]
  BY <1>0 DEF Make
<1> DEFINE hr == k \in Interrupting
           s1 == [state EXCEPT !.m_hr[t] = hr, !.m_holding[t] = TRUE, !.refs[t] = 1]
<1>3. Assign(sleep(s1, t, k))
  BY DEF Make
<1>b. hr \in BOOLEAN
  OBVIOUS
<1> HIDE DEF hr
<1>4. s1 \in Rec
  <2>1. /\ [state.m_hr EXCEPT ![t] = hr] \in [Timers -> BOOLEAN]
        /\ [state.m_holding EXCEPT ![t] = TRUE] \in [Timers -> BOOLEAN]
        /\ [state.refs EXCEPT ![t] = 1] \in [Timers -> 0..1]
    BY <1>0, <1>b DEF Rec
  <2> DEFINE h == [state EXCEPT !.m_hr = [state.m_hr EXCEPT ![t] = hr],
                               !.m_holding = [state.m_holding EXCEPT ![t] = TRUE],
                               !.refs = [state.refs EXCEPT ![t] = 1]]
  <2>2. s1 = h
    BY <1>0 DEF Rec
  <2>3. h \in Rec
    BY <1>0, <2>1 DEF Rec
  <2> QED
    BY <2>2, <2>3
<1>5. /\ s1.refs = [state.refs EXCEPT ![t] = 1] /\ s1.asleep = state.asleep
      /\ s1.calling = state.calling /\ s1.m_cancel = state.m_cancel
      /\ s1.jobs = state.jobs /\ s1.interrupts = state.interrupts
      /\ s1.m_has_timer = state.m_has_timer
      /\ s1.requesting = state.requesting /\ s1.entering = state.entering
  BY <1>0 DEF Rec
<1>h. s1.m_hr[t] = hr
  BY <1>0, <1>b DEF Rec
<1>k. k = "immediate" => ~hr
  BY DEF hr, Interrupting
<1> HIDE DEF s1
<1>6. /\ s1.refs[t] = 1 /\ \A u \in Timers : u # t => s1.refs[u] = state.refs[u]
  BY <1>0, <1>5 DEF Rec
<1>7. InHand(s1, t)
  <2>1. \A u \in Timers : Places(s1, u) = Places(state, u)
    BY <1>5 DEF Places
  <2>2. state.refs[t] = 0
    BY <1>1, Fields DEF Inv, Fresh
  <2> QED
    BY <1>0, <1>6, <2>1, <2>2 DEF Whole, InHand
<1>8. Heard(s1, serving)
  BY <1>0, <1>5 DEF Heard
<1>9. Settles(s1, sleep(s1, t, k), serving)
  BY <1>0, <1>4, <1>7, <1>8, <1>h, <1>k, sleepSettles
<1>10. state' = sleep(s1, t, k)
  BY <1>3, <1>9, AssignIs DEF Settles
<1>11. state' \in Rec /\ Whole(state') /\ Heard(state', serving) /\ Follows(s1, state')
  BY <1>9, <1>10 DEF Settles
<1>12. state'.m_cancel = m_cancel' /\ state'.refs = refs'
  BY DEF state
<1>13. /\ \A u \in Timers : m_cancel[u] => m_cancel'[u]
       /\ \A u \in Timers : u # t => refs'[u] <= refs[u]
  BY <1>5, <1>6, <1>11, <1>12, Fields DEF Follows
<1> QED
  BY <1>1, <1>2, <1>11, <1>13

(* The functions that make a timer of the script.                           *)
LEMMA setTimerInv ==
    ASSUME Inv, NEW t \in Timers, NEW k \in Kinds \ {"call"}, setTimer(t, k)
    PROVE  Inv'
<1>1. /\ kind[t] = "new"
      /\ kind' \in [Timers -> Kinds \cup {"new"}] /\ kind'[t] = k
      /\ \A u \in Timers : u # t => kind'[u] = kind[u]
      /\ state' \in Rec /\ Whole(state') /\ Heard(state', serving)
      /\ \A u \in Timers : m_cancel[u] => m_cancel'[u]
      /\ \A u \in Timers : u # t => refs'[u] <= refs[u]
  BY MakeDoes DEF setTimer
<1>2. /\ serving' = serving /\ terminating' = terminating
      /\ fired' = fired /\ scopes' = scopes /\ m_termed' = m_termed
      /\ m_fiber' = m_fiber /\ nest' = nest /\ outcome' = outcome /\ exited' = exited
  BY DEF setTimer, callVars
<1>3. Typed'
  BY <1>1, <1>2 DEF Inv, Typed
<1>4. \A u \in Timers : refs[u] \in 0..1 /\ refs'[u] \in 0..1
  BY <1>3, Fields DEF Inv, Typed, Rec, state
<1>k. k # "new" /\ k # "call"
  BY DEF Kinds
<1>5. Fresh'
  BY <1>1, <1>2, <1>4, <1>k DEF Inv, Fresh
<1>6. LimitOpen'
  BY <1>1, <1>2, <1>k DEF Inv, LimitOpen, Open
<1>7. OneNest'
  <2>1. \A f \in Fibers : \A i \in 1..Len(scopes[f]) : scopes[f][i] \in Timers
    BY DEF Inv, Typed
  <2> QED
    BY <1>1, <1>2, <2>1 DEF Inv, OneNest
<1>8. OverCleared'
  BY <1>1, <1>2 DEF Inv, OverCleared, Fresh
<1>9. WillReport' /\ Marked' /\ ExpiryReported'
  BY <1>1, <1>2, <1>k DEF Inv, WillReport, Marked, ExpiryReported, Reported, Open
<1>10. Whole(state)' /\ Heard(state, serving)'
  BY <1>1, <1>2
<1> QED
  BY <1>3, <1>5, <1>6, <1>7, <1>8, <1>9, <1>10 DEF Inv

(* A TimeoutScope is opened.                                                *)
LEMMA callInv ==
    ASSUME Inv, NEW f \in Fibers, NEW t \in Timers, call(f, t)
    PROVE  Inv'
<1>1. /\ kind[t] = "new"
      /\ kind' \in [Timers -> Kinds \cup {"new"}] /\ kind'[t] = "call"
      /\ \A u \in Timers : u # t => kind'[u] = kind[u]
      /\ state' \in Rec /\ Whole(state') /\ Heard(state', serving)
      /\ \A u \in Timers : m_cancel[u] => m_cancel'[u]
      /\ \A u \in Timers : u # t => refs'[u] <= refs[u]
  BY MakeDoes DEF call, Kinds
<1>2. /\ serving' = serving /\ terminating' = terminating /\ fired' = fired
      /\ m_termed' = m_termed /\ outcome' = outcome /\ exited' = exited /\ ~m_termed[f]
  BY DEF call
<1>t. /\ scopes \in [Fibers -> Seq(Timers)] /\ nest \in [Timers -> Timers \cup {"none"}]
      /\ m_fiber \in [Timers -> Fibers \cup {"none"}] /\ scopes[f] \in Seq(Timers)
      /\ Len(scopes[f]) \in Nat
  BY LenProperties DEF Inv, Typed
<1>s. /\ scopes' = [scopes EXCEPT ![f] = Append(scopes[f], t)]
      /\ scopes'[f] = Append(scopes[f], t)
      /\ \A g \in Fibers : g # f => scopes'[g] = scopes[g]
  BY <1>t DEF call
<1>a. /\ Append(scopes[f], t) \in Seq(Timers)
      /\ Len(Append(scopes[f], t)) = Len(scopes[f]) + 1
      /\ Append(scopes[f], t)[Len(scopes[f]) + 1] = t
      /\ \A i \in 1..Len(scopes[f]) : Append(scopes[f], t)[i] = scopes[f][i]
  BY <1>t, AppendProperties
<1>b. /\ scopes' \in [Fibers -> Seq(Timers)] /\ Len(scopes'[f]) = Len(scopes[f]) + 1
      /\ scopes'[f][Len(scopes[f]) + 1] = t
      /\ \A i \in 1..Len(scopes[f]) : scopes'[f][i] = scopes[f][i]
  <2>1. scopes' \in [Fibers -> Seq(Timers)]
    BY <1>s, <1>a, <1>t
  <2> QED
    BY <2>1, <1>s, <1>a
<1>n. /\ nest' \in [Timers -> Timers \cup {"none"}] /\ nest'[t] = scopes'[f][1]
      /\ \A u \in Timers : u # t => nest'[u] = nest[u]
  <2>1. scopes'[f][1] \in Timers
    <3>1. 1 \in 1..Len(scopes'[f]) /\ scopes'[f] \in Seq(Timers)
      BY <1>b, <1>t
    <3> QED
      BY <3>1, ElementOfSeq
  <2>2. nest' = [nest EXCEPT ![t] = scopes'[f][1]]
    BY DEF call
  <2> QED
    BY <2>1, <2>2, <1>t
<1>m. /\ m_fiber' \in [Timers -> Fibers \cup {"none"}] /\ m_fiber'[t] = f
      /\ \A u \in Timers : u # t => m_fiber'[u] = m_fiber[u]
  BY <1>t DEF call
<1>3. Typed'
  BY <1>1, <1>2, <1>b, <1>n, <1>m DEF Inv, Typed
<1>4. \A u \in Timers : refs[u] \in 0..1 /\ refs'[u] \in 0..1
  BY <1>3, Fields DEF Inv, Typed, Rec, state
<1>5. Fresh'
  BY <1>1, <1>2, <1>4 DEF Inv, Fresh
<1>o. /\ Open(f, t)'
      /\ \A g \in Fibers, u \in Timers : Open(g, u) => Open(g, u)'
  <2>1. Open(f, t)'
    <3>1. Len(scopes[f]) + 1 \in 1..Len(scopes'[f])
      BY <1>b, <1>t
    <3> QED
      BY <3>1, <1>b DEF Open
  <2>2. ASSUME NEW g \in Fibers, NEW u \in Timers, Open(g, u) PROVE Open(g, u)'
    <3>1. CASE g # f
      BY <2>2, <3>1, <1>s DEF Open
    <3>2. CASE g = f
      <4>1. PICK i \in 1..Len(scopes[f]) : scopes[f][i] = u
        BY <2>2, <3>2 DEF Open
      <4>2. i \in 1..Len(scopes'[f]) /\ scopes'[f][i] = u
        BY <4>1, <1>b, <1>t
      <4> QED
        BY <4>2, <3>2 DEF Open
    <3> QED
      BY <3>1, <3>2
  <2> QED
    BY <2>1, <2>2
<1>6. LimitOpen'
  BY <1>1, <1>m, <1>o DEF Inv, LimitOpen
<1>q. \A g \in Fibers : \A i \in 1..Len(scopes[g]) : scopes[g][i] \in Timers /\ scopes[g][i] # t
  BY <1>1, <1>t, ElementOfSeq DEF Inv, OneNest
<1>7. OneNest'
  <2>1. ASSUME NEW g \in Fibers, g # f, NEW i \in 1..Len(scopes[g])
        PROVE  /\ kind'[scopes[g][i]] = "call" /\ nest'[scopes[g][i]] = scopes[g][1]
               /\ m_fiber'[scopes[g][i]] = g /\ outcome'[scopes[g][i]] = "none"
               /\ \A j \in 1..Len(scopes[g]) : scopes[g][j] = scopes[g][i] => j = i
    BY <1>1, <1>2, <1>n, <1>m, <1>q DEF Inv, OneNest
  <2>2. ASSUME NEW i \in 1..Len(scopes[f])
        PROVE  /\ kind'[scopes'[f][i]] = "call" /\ nest'[scopes'[f][i]] = scopes'[f][1]
               /\ m_fiber'[scopes'[f][i]] = f /\ outcome'[scopes'[f][i]] = "none"
    <3>1. scopes'[f][i] = scopes[f][i] /\ scopes'[f][1] = scopes[f][1]
      BY <1>b, <1>t
    <3> QED
      BY <3>1, <1>1, <1>2, <1>n, <1>m, <1>q DEF Inv, OneNest
  <2>3. /\ kind'[t] = "call" /\ nest'[t] = scopes'[f][1] /\ m_fiber'[t] = f
        /\ outcome'[t] = "none"
    BY <1>1, <1>2, <1>n, <1>m DEF Inv, Fresh
  <2>4. \A i, j \in 1..Len(scopes'[f]) : scopes'[f][j] = scopes'[f][i] => j = i
    <3>1. \A i \in 1..Len(scopes'[f]) : i \in 1..Len(scopes[f]) \/ i = Len(scopes[f]) + 1
      BY <1>b, <1>t
    <3>2. \A i, j \in 1..Len(scopes[f]) : scopes[f][j] = scopes[f][i] => j = i
      BY DEF Inv, OneNest
    <3> QED
      BY <3>1, <3>2, <1>b, <1>q
  <2>5. ASSUME NEW i \in 1..Len(scopes'[f])
        PROVE  /\ kind'[scopes'[f][i]] = "call" /\ nest'[scopes'[f][i]] = scopes'[f][1]
               /\ m_fiber'[scopes'[f][i]] = f /\ outcome'[scopes'[f][i]] = "none"
    <3>1. i \in 1..Len(scopes[f]) \/ i = Len(scopes[f]) + 1
      BY <1>b, <1>t
    <3> QED
      BY <3>1, <2>2, <2>3, <1>b
  <2> QED
    BY <2>1, <2>4, <2>5, <1>s DEF OneNest
<1>8. OverCleared'
  BY <1>1, <1>2 DEF Inv, OverCleared, Fresh
<1>r. ASSUME NEW u \in Timers, u # t, Reported(u) PROVE Reported(u)'
  <2>1. PICK v \in Timers : nest[v] = nest[u] /\ outcome[v] = "timeout"
    BY <1>r DEF Reported
  <2>2. v # t
    BY <2>1, <1>1 DEF Inv, Fresh
  <2> QED
    BY <2>1, <2>2, <1>2, <1>n, <1>r DEF Reported
<1>9. WillReport'
  <2>1. fired[t] = 0
    BY <1>1 DEF Inv, Fresh
  <2> QED
    BY <2>1, <1>1, <1>2, <1>o, <1>r DEF Inv, WillReport
<1>10. Marked'
  BY <1>2, <1>o DEF Inv, Marked
<1>11. ExpiryReported'
  <2>1. ASSUME NEW u \in Timers, outcome'[u] # "none", fired'[u] > 0
        PROVE  Reported(u)'
    <3>1. u # t
      BY <1>1, <1>2, <2>1 DEF Inv, Fresh
    <3>2. Reported(u)
      BY <1>2, <2>1 DEF Inv, ExpiryReported, Reported
    <3> QED
      BY <3>1, <3>2, <1>r
  <2> QED
    BY <2>1 DEF ExpiryReported, Reported
<1>12. Whole(state)' /\ Heard(state, serving)'
  BY <1>1, <1>2
<1> QED
  BY <1>3, <1>5, <1>6, <1>7, <1>8, <1>9, <1>10, <1>11, <1>12 DEF Inv

(* The first m entries of a sequence.                                      *)
LEMMA FirstOf ==
    ASSUME NEW S, NEW s, NEW m \in Nat, \A i \in 1..m : s[i] \in S
    PROVE  /\ SubSeq(s, 1, m) \in Seq(S) /\ Len(SubSeq(s, 1, m)) = m
           /\ \A i \in 1..m : SubSeq(s, 1, m)[i] = s[i]
<1>1. /\ SubSeq(s, 1, m) \in Seq(S)
      /\ Len(SubSeq(s, 1, m)) = IF 1 <= m THEN m - 1 + 1 ELSE 0
      /\ \A i \in 1..(m - 1 + 1) : SubSeq(s, 1, m)[i] = s[1 + i - 1]
  BY SubSeqProperties
<1>2. m - 1 + 1 = m /\ (~(1 <= m) => m = 0) /\ \A i \in 1..m : 1 + i - 1 = i
  OBVIOUS
<1> QED
  BY <1>1, <1>2

(* The innermost TimeoutScope of f is closed.                               *)
LEMMA resultInv ==
    ASSUME Inv, NEW f \in Fibers, result(f)
    PROVE  Inv'
<1> DEFINE n == Len(scopes[f])
           t == scopes[f][n]
<1>0. /\ state \in Rec /\ Whole(state) /\ Heard(state, serving)
      /\ serving \in BOOLEAN /\ terminating \in BOOLEAN
      /\ scopes \in [Fibers -> Seq(Timers)] /\ scopes[f] \in Seq(Timers) /\ scopes[f] # << >>
      /\ m_termed \in [Fibers -> BOOLEAN]
      /\ outcome \in [Timers -> {"none", "returned", "timeout"}]
  BY DEF Inv, Typed, result
<1>1. n \in Nat /\ n # 0 /\ n \in 1..n /\ t \in Timers
  <2>1. n \in Nat /\ n # 0
    BY <1>0, LenProperties, EmptySeq
  <2>2. n \in 1..n
    BY <2>1
  <2> QED
    BY <1>0, <2>1, <2>2, ElementOfSeq
<1>2. /\ Assign(clear(state, t))
      /\ outcome' = [outcome EXCEPT ![t] = IF m_termed[f] THEN "timeout" ELSE "returned"]
      /\ m_termed' = [m_termed EXCEPT ![f] = FALSE]
      /\ scopes' = [scopes EXCEPT ![f] = SubSeq(scopes[f], 1, n - 1)]
      /\ kind' = kind /\ serving' = serving /\ fired' = fired /\ terminating' = terminating
      /\ m_fiber' = m_fiber /\ nest' = nest /\ exited' = exited
  BY DEF result
<1>3. Settles(state, clear(state, t), serving) /\ clear(state, t).m_cancel[t]
  BY <1>0, <1>1, clearKeeps, SameSpotsKeeps DEF Settles
<1>4. state' = clear(state, t)
  BY <1>2, <1>3, AssignIs DEF Settles
<1>5. /\ state' \in Rec /\ Whole(state') /\ Heard(state', serving)
      /\ m_cancel'[t] /\ \A u \in Timers : (m_cancel[u] => m_cancel'[u]) /\ refs'[u] <= refs[u]
  <2>1. state'.m_cancel = m_cancel' /\ state'.refs = refs'
    BY DEF state
  <2> QED
    BY <1>3, <1>4, <2>1, Fields DEF Settles, Follows
<1>6. /\ SubSeq(scopes[f], 1, n - 1) \in Seq(Timers)
      /\ Len(SubSeq(scopes[f], 1, n - 1)) = n - 1
      /\ \A i \in 1..(n - 1) : SubSeq(scopes[f], 1, n - 1)[i] = scopes[f][i]
  <2>1. /\ n - 1 \in Nat /\ n \in Nat /\ n - 1 <= n
        /\ \A i \in 1..(n - 1) : i \in 1..n
    BY <1>1
  <2>2. \A i \in 1..(n - 1) : scopes[f][i] \in Timers
    BY <1>0, <2>1, ElementOfSeq
  <2> QED
    BY <2>1, <2>2, FirstOf
<1>s. /\ scopes' \in [Fibers -> Seq(Timers)] /\ Len(scopes'[f]) = n - 1
      /\ \A i \in 1..(n - 1) : i \in 1..n /\ i # n /\ scopes'[f][i] = scopes[f][i]
      /\ \A g \in Fibers : g # f => scopes'[g] = scopes[g]
  <2>1. scopes' \in [Fibers -> Seq(Timers)]
    BY <1>0, <1>2, <1>6
  <2>2. scopes'[f] = SubSeq(scopes[f], 1, n - 1) /\ \A g \in Fibers : g # f => scopes'[g] = scopes[g]
    BY <1>0, <1>2
  <2>3. \A i \in 1..(n - 1) : i \in 1..n /\ i # n
    BY <1>1
  <2> QED
    BY <2>1, <2>2, <2>3, <1>6
<1>t. /\ kind[t] = "call" /\ m_fiber[t] = f /\ outcome[t] = "none" /\ nest[t] = scopes[f][1]
      /\ \A i \in 1..(n - 1) : scopes[f][i] # t
      /\ \A g \in Fibers : \A i \in 1..Len(scopes[g]) : g # f => scopes[g][i] # t
  <2>1. \A i \in 1..n : scopes[f][i] = t => i = n
    BY <1>1 DEF Inv, OneNest
  <2>2. kind[t] = "call" /\ m_fiber[t] = f /\ outcome[t] = "none" /\ nest[t] = scopes[f][1]
    BY <1>1 DEF Inv, OneNest
  <2>3. \A g \in Fibers : \A i \in 1..Len(scopes[g]) : m_fiber[scopes[g][i]] = g
    BY DEF Inv, OneNest
  <2> HIDE DEF t
  <2>4. \A g \in Fibers : \A i \in 1..Len(scopes[g]) : g # f => scopes[g][i] # t
    BY <2>2, <2>3
  <2> QED
    BY <2>1, <2>2, <2>4, <1>s
<1>o. /\ outcome' \in [Timers -> {"none", "returned", "timeout"}]
      /\ outcome'[t] # "none" /\ (m_termed[f] => outcome'[t] = "timeout")
      /\ \A u \in Timers : u # t => outcome'[u] = outcome[u]
  BY <1>0, <1>1, <1>2
<1>m. /\ m_termed' \in [Fibers -> BOOLEAN] /\ ~m_termed'[f]
      /\ \A g \in Fibers : g # f => m_termed'[g] = m_termed[g]
  BY <1>0, <1>2
<1>q. \A g \in Fibers : \A i \in 1..Len(scopes[g]) : scopes[g][i] \in Timers
  BY <1>0, ElementOfSeq
<1> HIDE DEF t, n
<1>n. n = Len(scopes[f]) /\ t = scopes[f][n]
  BY DEF n, t
<1>7. Typed'
  BY <1>2, <1>5, <1>s, <1>o, <1>m DEF Inv, Typed
<1>8. \A u \in Timers : refs[u] \in 0..1 /\ refs'[u] \in 0..1
  BY <1>7, Fields DEF Inv, Typed, Rec, state
<1>9. Fresh'
  BY <1>2, <1>5, <1>8, <1>o, <1>t DEF Inv, Fresh
<1>p. \A g \in Fibers, u \in Timers : u # t /\ Open(g, u) => Open(g, u)'
  <2> SUFFICES ASSUME NEW g \in Fibers, NEW u \in Timers, u # t, Open(g, u) PROVE Open(g, u)'
    OBVIOUS
  <2>1. CASE g # f
    BY <2>1, <1>s DEF Open
  <2>2. CASE g = f
    <3>1. PICK i \in 1..n : scopes[f][i] = u
      BY <2>2, <1>n DEF Open
    <3>2. i \in 1..(n - 1)
      BY <3>1, <1>n, <1>1
    <3>3. i \in 1..Len(scopes'[f]) /\ scopes'[f][i] = u
      BY <3>1, <3>2, <1>s
    <3> QED
      BY <2>2, <3>3 DEF Open
  <2> QED
    BY <2>1, <2>2
<1>10. LimitOpen'
  BY <1>2, <1>5, <1>p DEF Inv, LimitOpen
<1>11. OneNest'
  <2>1. ASSUME NEW g \in Fibers, g # f, NEW i \in 1..Len(scopes[g])
        PROVE  /\ kind'[scopes[g][i]] = "call" /\ nest'[scopes[g][i]] = scopes[g][1]
               /\ m_fiber'[scopes[g][i]] = g /\ outcome'[scopes[g][i]] = "none"
               /\ \A j \in 1..Len(scopes[g]) : scopes[g][j] = scopes[g][i] => j = i
    BY <1>2, <1>o, <1>q, <1>t, <2>1 DEF Inv, OneNest
  <2>2. ASSUME NEW i \in 1..(n - 1)
        PROVE  /\ kind'[scopes'[f][i]] = "call" /\ nest'[scopes'[f][i]] = scopes'[f][1]
               /\ m_fiber'[scopes'[f][i]] = f /\ outcome'[scopes'[f][i]] = "none"
               /\ \A j \in 1..(n - 1) : scopes'[f][j] = scopes'[f][i] => j = i
    <3>1. 1 \in 1..(n - 1) /\ i \in 1..n /\ \A j \in 1..(n - 1) : j \in 1..n
      BY <1>1
    <3>2. scopes'[f][i] = scopes[f][i] /\ scopes'[f][1] = scopes[f][1]
      BY <3>1, <1>s
    <3>3. scopes[f][i] \in Timers /\ scopes[f][i] # t
      BY <3>1, <1>n, <1>q, <1>t
    <3>4. /\ kind[scopes[f][i]] = "call" /\ nest[scopes[f][i]] = scopes[f][1]
          /\ m_fiber[scopes[f][i]] = f /\ outcome[scopes[f][i]] = "none"
          /\ \A j \in 1..n : scopes[f][j] = scopes[f][i] => j = i
      BY <3>1, <1>n DEF Inv, OneNest
    <3> QED
      BY <3>1, <3>2, <3>3, <3>4, <1>2, <1>o, <1>s
  <2> QED
    BY <2>1, <2>2, <1>s DEF OneNest
<1>12. OverCleared'
  BY <1>2, <1>5, <1>o, <1>t DEF Inv, OverCleared
<1>r. ASSUME NEW u \in Timers, Reported(u) PROVE Reported(u)'
  <2>1. PICK v \in Timers : nest[v] = nest[u] /\ outcome[v] = "timeout"
    BY <1>r DEF Reported
  <2>2. v # t
    BY <2>1, <1>t
  <2> QED
    BY <2>1, <2>2, <1>2, <1>o DEF Reported
<1>13. ASSUME NEW u \in Timers, kind[u] = "call", fired[u] > 0
       PROVE  \/ Reported(u)'
              \/ /\ u # t
                 /\ \E g \in Fibers : Open(g, u)' /\ m_termed'[g]
  <2>1. CASE Reported(u)
    <3>1. Reported(u)'
      BY <2>1, <1>r
    <3> QED
      BY <3>1
  <2>2. CASE \E g \in Fibers : Open(g, u) /\ m_termed[g]
    <3>1. PICK g \in Fibers : Open(g, u) /\ m_termed[g]
      BY <2>2
    <3>2. CASE g = f
      <4>1. nest[u] = scopes[f][1]
        BY <3>1, <3>2 DEF Inv, OneNest, Open
      <4>2. t \in Timers /\ nest'[t] = nest'[u]
        BY <4>1, <1>1, <1>2, <1>t
      <4>3. outcome'[t] = "timeout"
        BY <3>1, <3>2, <1>1, <1>2, <1>o
      <4>4. Reported(u)'
        BY <4>2, <4>3 DEF Reported
      <4> QED
        BY <4>4
    <3>3. CASE g # f
      <4>1. u # t
        BY <3>1, <3>3, <1>t DEF Open
      <4> QED
        BY <4>1, <3>1, <3>3, <1>p, <1>m
    <3> QED
      BY <3>2, <3>3
  <2> QED
    BY <2>1, <2>2, <1>13 DEF Inv, WillReport
<1>14. WillReport'
  BY <1>2, <1>13 DEF WillReport
<1>15. Marked'
  <2>1. ASSUME NEW g \in Fibers, m_termed'[g], g \notin exited
        PROVE  \E u \in Timers : Open(g, u)' /\ fired'[u] > 0
    <3>1. g # f
      BY <2>1, <1>m
    <3>2. PICK u \in Timers : Open(g, u) /\ fired[u] > 0
      BY <2>1, <3>1, <1>m DEF Inv, Marked
    <3>3. Open(g, u)'
      BY <3>1, <3>2, <1>s DEF Open
    <3> QED
      BY <3>2, <3>3, <1>2
  <2> QED
    BY <2>1, <1>2 DEF Marked
<1>16. ExpiryReported'
  <2>1. ASSUME NEW u \in Timers, outcome'[u] # "none", fired'[u] > 0
        PROVE  Reported(u)'
    <3>1. CASE u = t
      BY <3>1, <2>1, <1>2, <1>t, <1>13
    <3>2. CASE u # t
      <4>1. Reported(u)
        BY <2>1, <3>2, <1>2, <1>o DEF Inv, ExpiryReported, Reported
      <4> QED
        BY <4>1, <1>r
    <3> QED
      BY <3>1, <3>2
  <2> QED
    BY <2>1 DEF ExpiryReported, Reported
<1>17. Whole(state)' /\ Heard(state, serving)'
  BY <1>2, <1>5
<1> QED
  BY <1>7, <1>9, <1>10, <1>11, <1>12, <1>14, <1>15, <1>16, <1>17 DEF Inv

(* process.exit() of a worker.                                              *)
LEMMA exitFromInsideInv ==
    ASSUME Inv, NEW f \in Fibers, exitFromInside(f)
    PROVE  Inv'
<1>0. /\ state \in Rec /\ Whole(state) /\ Heard(state, serving)
      /\ serving \in BOOLEAN /\ m_termed \in [Fibers -> BOOLEAN]
  BY DEF Inv, Typed
<1>1. /\ Assign(stopHoldingObjects(state)) /\ terminating' = TRUE /\ serving' = serving
      /\ m_termed' = [m_termed EXCEPT ![f] = TRUE] /\ exited' = exited \cup {f}
      /\ kind' = kind /\ fired' = fired /\ scopes' = scopes /\ m_fiber' = m_fiber
      /\ nest' = nest /\ outcome' = outcome
  BY DEF exitFromInside
<1>2. Settles(state, stopHoldingObjects(state), serving)
  BY <1>0, StopSettles
<1>3. state' = stopHoldingObjects(state)
  BY <1>1, <1>2, AssignIs DEF Settles
<1>4. /\ state' \in Rec /\ Whole(state)' /\ Heard(state, serving)'
      /\ \A u \in Timers : (m_cancel[u] => m_cancel'[u]) /\ refs'[u] <= refs[u]
  <2>1. state'.m_cancel = m_cancel' /\ state'.refs = refs'
    BY DEF state
  <2> QED
    BY <1>1, <1>2, <1>3, <2>1, Fields DEF Settles, Follows
<1>m. /\ m_termed' \in [Fibers -> BOOLEAN] /\ m_termed'[f]
      /\ \A g \in Fibers : g # f => m_termed'[g] = m_termed[g]
  BY <1>0, <1>1
<1>5. Typed'
  BY <1>1, <1>4, <1>m DEF Inv, Typed
<1>6. \A u \in Timers : refs[u] \in 0..1 /\ refs'[u] \in 0..1
  BY <1>5, Fields DEF Inv, Typed, Rec, state
<1>7. Fresh'
  BY <1>1, <1>4, <1>6 DEF Inv, Fresh
<1>8. LimitOpen' /\ OneNest'
  BY <1>1, <1>4 DEF Inv, LimitOpen, OneNest, Open
<1>9. OverCleared'
  BY <1>1, <1>4 DEF Inv, OverCleared
<1>o. \A g \in Fibers, u \in Timers : (Open(g, u)' <=> Open(g, u)) /\ (Reported(u)' <=> Reported(u))
  BY <1>1 DEF Open, Reported
<1>10. WillReport'
  BY <1>1, <1>m, <1>o DEF Inv, WillReport
<1>11. Marked'
  BY <1>1, <1>m, <1>o DEF Inv, Marked
<1>12. ExpiryReported'
  BY <1>1 DEF Inv, ExpiryReported
<1> QED
  BY <1>4, <1>5, <1>7, <1>8, <1>9, <1>10, <1>11, <1>12 DEF Inv

(* No timer was made yet.                                                  *)
LEMMA InitInv == Init => Inv
<1> SUFFICES ASSUME Init PROVE Inv
  OBVIOUS
<1>1. state \in Rec
  <2>1. << >> \in Seq(JobSet) /\ << >> \in Seq(Timers)
    OBVIOUS
  <2>2. /\ m_cancel \in [Timers -> BOOLEAN] /\ m_hr \in [Timers -> BOOLEAN]
        /\ m_holding \in [Timers -> BOOLEAN] /\ refs \in [Timers -> 0..1]
    BY DEF Init
  <2>3. asleep \subseteq Timers /\ cancels \subseteq Timers /\ calling \subseteq Timers
    BY DEF Init
  <2>4. /\ jobs \in Seq(JobSet) /\ interrupts \in Seq(Timers) /\ m_has_timer \in BOOLEAN
        /\ requesting \in {"no", "mark", "post"} /\ entering \in Timers \cup {"none"}
    BY <2>1 DEF Init
  <2> QED
    BY <2>2, <2>3, <2>4 DEF state, Rec
<1>2. Typed
  <2>1. scopes \in [Fibers -> Seq(Timers)]
    BY DEF Init
  <2>2. serving \in BOOLEAN /\ terminating \in BOOLEAN /\ exited \subseteq Fibers
    BY DEF Init
  <2>3. kind \in [Timers -> Kinds \cup {"new"}] /\ fired \in [Timers -> Nat]
    BY DEF Init
  <2>4. /\ m_termed \in [Fibers -> BOOLEAN] /\ m_fiber \in [Timers -> Fibers \cup {"none"}]
        /\ nest \in [Timers -> Timers \cup {"none"}]
        /\ outcome \in [Timers -> {"none", "returned", "timeout"}]
    BY DEF Init
  <2> QED
    BY <1>1, <2>1, <2>2, <2>3, <2>4 DEF Typed
<1>3. Whole(state)
  <2>1. \A t \in Timers : Times(t, jobs) = 0 /\ Times(t, interrupts) = 0
    BY TimesEmpty DEF Init
  <2>2. \A t \in Timers : /\ Holds(t, asleep) = 0 /\ Holds(t, calling) = 0 /\ refs[t] = 0
                           /\ Holds(t, {entering}) = 0
    BY NamesAssumption DEF Init, Holds
  <2> QED
    BY <2>1, <2>2, Fields DEF Whole, Places
<1>4. Heard(state, serving)
  BY Fields DEF Heard, Init
<1>5. Fresh /\ LimitOpen /\ OverCleared
  BY DEF Init, Fresh, LimitOpen, OverCleared
<1>6. OneNest
  <2>1. \A f \in Fibers : 1..Len(scopes[f]) = {}
    BY DEF Init
  <2> QED
    BY <2>1 DEF OneNest
<1>7. WillReport /\ Marked /\ ExpiryReported
  BY DEF Init, WillReport, Marked, ExpiryReported
<1> QED
  BY <1>2, <1>3, <1>4, <1>5, <1>6, <1>7 DEF Inv

(* A step that changes nothing.                                            *)
LEMMA StutterInv ==
    ASSUME Inv, UNCHANGED vars
    PROVE  Inv'
<1>1. /\ kind' = kind /\ m_cancel' = m_cancel /\ m_hr' = m_hr /\ m_holding' = m_holding
      /\ refs' = refs /\ asleep' = asleep /\ cancels' = cancels /\ jobs' = jobs
      /\ interrupts' = interrupts /\ m_has_timer' = m_has_timer /\ calling' = calling
      /\ requesting' = requesting /\ entering' = entering
      /\ serving' = serving /\ fired' = fired /\ terminating' = terminating
      /\ UNCHANGED callVars
  BY DEF vars
<1>2. state \in Rec /\ serving \in BOOLEAN /\ terminating \in BOOLEAN
  BY DEF Inv, Typed
<1>3. Assign(state)
  BY <1>1, Fields DEF Assign
<1>4. Settles(state, state, serving)
  <2>1. Follows(state, state)
    BY <1>2 DEF Follows, Rec
  <2> QED
    BY <1>2, <2>1 DEF Settles, Inv
<1> QED
  BY <1>1, <1>2, <1>3, <1>4, QuietInv

-----------------------------------------------------------------------------
(* The function about to be called is that of a timer that lives, and none  *)
(* was called yet if it is called after is_terminating().                   *)
Live ==
    /\ late \in 0..1
    /\ late > 0 => terminating /\ entering = "none"
    /\ entering # "none" =>
          entering \in Timers /\ ~m_cancel[entering] /\ kind[entering] # "call"

(* Nothing but callback() and the call of the function writes entering.     *)
LEMMA EnteringKept ==
    ASSUME NEW st \in Rec, NEW t \in Timers
    PROVE  /\ clear(st, t).entering = st.entering
           /\ Clean(st, t).entering = st.entering
           /\ resume(st, t).entering = st.entering
           /\ \A k : sleep(st, t, k).entering = st.entering
           /\ Called(st, t).entering = st.entering
           /\ stopHoldingObjects(st).entering = st.entering
           /\ ServeBegins(st).entering = st.entering
<1>1. \A r \in Rec : clear(r, t).entering = r.entering /\ Clean(r, t).entering = r.entering
  BY DEF clear, Clean, Rec
<1>2. \A r \in Rec : RequestInterrupt(r, t).entering = r.entering
  BY DEF RequestInterrupt, Rec
<1>3. \A r \in Rec : clear(r, t) \in Rec
  BY clearKeeps
<1>4. \A r \in Rec : [r EXCEPT !.m_hr[t] = FALSE, !.jobs = Append(@, t)].entering = r.entering
  BY DEF Rec
<1>5. \A r \in Rec : resume(r, t).entering = r.entering
  BY <1>1, <1>2, <1>3, <1>4 DEF resume
<1>6. \A k : \A r \in Rec : sleep(r, t, k).entering = r.entering
  <2>1. \A r \in Rec : [r EXCEPT !.asleep = @ \cup {t}].entering = r.entering
    BY DEF Rec
  <2> QED
    BY <2>1, <1>5 DEF sleep
<1>7. Called(st, t).entering = st.entering
  <2> DEFINE c == [st EXCEPT !.m_cancel[t] = TRUE]
  <2>1. c \in Rec /\ c.entering = st.entering
    BY DEF Rec
  <2> HIDE DEF c
  <2>2. Called(st, t) = sleep(st, t, kind[t]) \/ Called(st, t) = Clean(c, t)
    BY DEF Called, c
  <2> QED
    BY <2>1, <2>2, <1>1, <1>6
<1>8. stopHoldingObjects(st).entering = st.entering /\ ServeBegins(st).entering = st.entering
  BY DEF stopHoldingObjects, ServeBegins, Rec
<1> QED
  BY <1>1, <1>5, <1>6, <1>7, <1>8

(* The timer thread cancels no timer but the one it wakes.                  *)
LEMMA resumeCancels ==
    ASSUME NEW st \in Rec, NEW t \in Timers
    PROVE  \A u \in Timers : u # t => resume(st, t).m_cancel[u] = st.m_cancel[u]
<1> SUFFICES ASSUME NEW u \in Timers, u # t
             PROVE  resume(st, t).m_cancel[u] = st.m_cancel[u]
  OBVIOUS
<1>1. \A r \in Rec : Clean(r, t).m_cancel = r.m_cancel
  BY DEF Clean, Rec
<1>2. clear(st, t) \in Rec /\ clear(st, t).m_cancel[u] = st.m_cancel[u]
  BY clearKeeps
<1>3. RequestInterrupt(st, t).m_cancel = st.m_cancel
  BY DEF RequestInterrupt, Rec
<1>4. [st EXCEPT !.m_hr[t] = FALSE, !.jobs = Append(@, t)].m_cancel = st.m_cancel
  BY DEF Rec
<1> QED
  BY <1>1, <1>2, <1>3, <1>4 DEF resume

(* A sleeping timer is not the one whose function is about to be called.    *)
LEMMA AsleepIsOther ==
    ASSUME Inv, NEW t \in Timers, t \in asleep
    PROVE  entering # t
<1>1. /\ refs[t] = Places(state, t) /\ refs[t] \in 0..1 /\ state \in Rec
      /\ Holds(t, state.asleep) = 1
  BY Fields DEF Inv, Typed, Whole, Rec, Holds
<1>2. /\ Holds(t, state.calling) \in Nat /\ Holds(t, {state.entering}) \in Nat
      /\ Times(t, state.jobs) \in Nat /\ Times(t, state.interrupts) \in Nat
  BY <1>1, PlacesType
<1>3. Holds(t, {state.entering}) = 0
  BY <1>1, <1>2 DEF Places
<1> QED
  BY <1>3, Fields DEF Holds

(* callback() goes on to the function of a live timer only.                *)
LEMMA CallbackLive ==
    ASSUME fired \in [Timers -> Nat], entering = "none", Live,
           NEW st \in Rec, st.entering = "none", st.m_cancel = m_cancel,
           NEW t \in Timers, Callback(st, t), late' = late, terminating' = terminating,
           kind' = kind
    PROVE  /\ Live'
           /\ \A u \in Timers : fired'[u] # fired[u] => ~m_cancel[u]
<1>1. CASE /\ Assign(Clean(st, t)) /\ UNCHANGED fired
  BY <1>1, EnteringKept DEF Live, Assign
<1>2. CASE /\ ~Cancelled(t) /\ CallsScript(t) /\ Assign([st EXCEPT !.entering = t])
           /\ UNCHANGED fired
  <2>1. entering' = t /\ m_cancel' = m_cancel
    BY <1>2 DEF Assign, Rec
  <2> QED
    BY <1>2, <2>1 DEF Live, Cancelled, CallsScript
<1>3. CASE /\ Assign(Called(clear(st, t), t)) /\ UNCHANGED fired
  <2>1. clear(st, t) \in Rec /\ clear(st, t).entering = "none"
    BY clearKeeps, EnteringKept
  <2>2. Called(clear(st, t), t).entering = "none"
    BY <2>1, EnteringKept
  <2> QED
    BY <1>3, <2>2 DEF Live, Assign
<1>4. CASE /\ ~Cancelled(t) /\ Assign(Called(st, t)) /\ fired' = [fired EXCEPT ![t] = @ + 1]
  <2>1. entering' = "none"
    BY <1>4, EnteringKept DEF Assign
  <2>2. \A u \in Timers : u # t => fired'[u] = fired[u]
    BY <1>4
  <2> QED
    BY <1>4, <2>1, <2>2 DEF Live, Cancelled
<1> QED
  BY <1>1, <1>2, <1>3, <1>4 DEF Callback

(* A step keeps this and calls the function of no timer that was cleared.   *)
LEMMA LiveStep ==
    ASSUME Inv, Live, Next
    PROVE  /\ Live'
           /\ \A t \in Timers : fired'[t] # fired[t] => ~m_cancel[t]
<1>0. /\ state \in Rec /\ fired \in [Timers -> Nat] /\ state.entering = entering
      /\ state.m_cancel = m_cancel /\ m_cancel \in [Timers -> BOOLEAN]
  BY Fields DEF Inv, Typed, Rec
<1>1. ASSUME entering = "none", entering' = "none", late' = late, fired' = fired,
             terminating => terminating'
      PROVE  Live' /\ \A t \in Timers : fired'[t] # fired[t] => ~m_cancel[t]
  BY <1>1 DEF Live
<1>2. ASSUME entering' = entering, late' = late, fired' = fired, terminating => terminating',
             kind' = kind, entering # "none" => m_cancel'[entering] = m_cancel[entering]
      PROVE  Live' /\ \A t \in Timers : fired'[t] # fired[t] => ~m_cancel[t]
  BY <1>2 DEF Live
<1>3. CASE RunJob
  <2> DEFINE job == Head(jobs)
             st == [state EXCEPT !.jobs = Tail(@)]
  <2>1. /\ entering = "none" /\ late' = late /\ terminating' = terminating /\ kind' = kind
        /\ jobs \in Seq(JobSet) /\ jobs # << >>
    BY <1>3, Fields DEF RunJob, Script, AtRest, Inv, Typed, Rec
  <2>2. st \in Rec /\ st.entering = "none" /\ st.m_cancel = m_cancel
    <3>1. Tail(jobs) \in Seq(JobSet)
      BY <2>1, HeadTailProperties
    <3> QED
      BY <3>1, <1>0, <2>1, Fields DEF Rec
  <2>3. \/ job \in Timers /\ Callback(st, job)
        \/ Assign(stopHoldingObjects(st)) /\ fired' = fired
        \/ Assign(ServeBegins(st)) /\ fired' = fired
    BY <1>3 DEF RunJob
  <2> HIDE DEF job, st
  <2>4. CASE job \in Timers /\ Callback(st, job)
    BY <1>0, <2>1, <2>2, <2>4, CallbackLive
  <2>5. CASE \/ Assign(stopHoldingObjects(st)) /\ fired' = fired
             \/ Assign(ServeBegins(st)) /\ fired' = fired
    <3>1. entering' = "none"
      BY <2>2, <2>5 DEF Assign, stopHoldingObjects, ServeBegins, Rec
    <3> QED
      BY <2>1, <2>5, <3>1, <1>1
  <2> QED
    BY <2>3, <2>4, <2>5
<1>4. CASE Interrupt
  <2> DEFINE st == [state EXCEPT !.interrupts = Tail(@)]
  <2>1. /\ entering = "none" /\ late' = late /\ terminating' = terminating /\ kind' = kind
        /\ interrupts \in Seq(Timers) /\ interrupts # << >>
    BY <1>4, Fields DEF Interrupt, AtRest, Inv, Typed, Rec
  <2>2. Head(interrupts) \in Timers /\ Tail(interrupts) \in Seq(Timers)
    BY <2>1, HeadTailProperties
  <2>3. st \in Rec /\ st.entering = "none" /\ st.m_cancel = m_cancel
    BY <1>0, <2>1, <2>2, Fields DEF Rec
  <2>4. Callback(st, Head(interrupts))
    BY <1>4 DEF Interrupt
  <2> HIDE DEF st
  <2> QED
    BY <1>0, <2>1, <2>2, <2>3, <2>4, CallbackLive
<1>5. ASSUME NEW t \in Timers, CallFunction(t)
      PROVE  Live' /\ \A u \in Timers : fired'[u] # fired[u] => ~m_cancel[u]
  <2> DEFINE st == [state EXCEPT !.entering = "none"]
  <2>1. /\ entering = t /\ entering # "none" /\ fired' = [fired EXCEPT ![t] = @ + 1]
        /\ late' = (IF terminating THEN late + 1 ELSE late) /\ terminating' = terminating
    BY <1>5, NamesAssumption DEF CallFunction
  <2>2. st \in Rec /\ st.entering = "none"
    BY <1>0 DEF Rec
  <2>3. \/ Assign([st EXCEPT !.calling = @ \cup {t}])
        \/ \E ran \in {st, clear(st, t)} : Assign(Called(ran, t))
    BY <1>5 DEF CallFunction
  <2> HIDE DEF st
  <2>4. \A ran \in {st, clear(st, t)} : Called(ran, t).entering = "none"
    <3>1. clear(st, t) \in Rec /\ clear(st, t).entering = "none"
      BY <2>2, clearKeeps, EnteringKept
    <3> QED
      BY <2>2, <3>1, EnteringKept
  <2>5. entering' = "none"
    BY <2>2, <2>3, <2>4 DEF Assign, Rec
  <2>6. late = 0 /\ ~m_cancel[t]
    BY <2>1 DEF Live
  <2>7. \A u \in Timers : u # t => fired'[u] = fired[u]
    BY <2>1
  <2> QED
    BY <2>1, <2>5, <2>6, <2>7 DEF Live
<1>6. ASSUME NEW t \in Timers, Clear(t) \/ Return(t) \/ \E on \in BOOLEAN : Ref(t, on)
      PROVE  Live' /\ \A u \in Timers : fired'[u] # fired[u] => ~m_cancel[u]
  <2>1. /\ entering = "none" /\ late' = late /\ fired' = fired /\ terminating' = terminating
    BY <1>6 DEF Clear, Return, Ref, Script, AtRest
  <2>2. entering' = "none"
    <3>1. CASE Clear(t)
      BY <1>0, <2>1, <3>1, EnteringKept DEF Clear, Assign
    <3>2. CASE Return(t)
      <4> DEFINE st == [state EXCEPT !.calling = @ \ {t}]
      <4>1. st \in Rec /\ st.entering = "none" /\ Assign(Called(st, t))
        BY <1>0, <2>1, <3>2 DEF Return, Rec
      <4> HIDE DEF st
      <4> QED
        BY <4>1, EnteringKept DEF Assign
    <3>3. CASE \E on \in BOOLEAN : Ref(t, on)
      <4>1. PICK on \in BOOLEAN : Assign([state EXCEPT !.m_holding[t] = on])
        BY <3>3 DEF Ref
      <4> QED
        BY <4>1, <1>0, <2>1 DEF Assign, Rec
    <3> QED
      BY <1>6, <3>1, <3>2, <3>3
  <2> QED
    BY <2>1, <2>2, <1>1
<1>7. ASSUME NEW t \in Timers, Expire(t)
      PROVE  Live' /\ \A u \in Timers : fired'[u] # fired[u] => ~m_cancel[u]
  <2> DEFINE st == [state EXCEPT !.asleep = @ \ {t}]
  <2>1. /\ t \in asleep /\ late' = late /\ fired' = fired /\ terminating' = terminating
        /\ kind' = kind
    BY <1>7 DEF Expire
  <2>2. st \in Rec /\ st.entering = entering /\ st.m_cancel = m_cancel
    BY <1>0 DEF Rec
  <2>3. Assign(resume(st, t))
    BY <1>7 DEF Expire
  <2> HIDE DEF st
  <2>4. entering' = entering
    BY <2>2, <2>3, EnteringKept DEF Assign
  <2>5. entering # "none" => m_cancel'[entering] = m_cancel[entering]
    BY <2>1, <2>2, <2>3, AsleepIsOther, resumeCancels DEF Assign, Live
  <2> QED
    BY <2>1, <2>4, <2>5, <1>2
<1>8. ASSUME NEW t \in Timers, cancel_sleep(t)
      PROVE  Live' /\ \A u \in Timers : fired'[u] # fired[u] => ~m_cancel[u]
  <2> DEFINE met == [state EXCEPT !.cancels = @ \ {t}]
             st == [met EXCEPT !.asleep = @ \ {t}]
  <2>1. late' = late /\ fired' = fired /\ terminating' = terminating /\ kind' = kind
    BY <1>8 DEF cancel_sleep
  <2>2. met \in Rec /\ met.entering = entering /\ met.m_cancel = m_cancel
    BY <1>0 DEF Rec
  <2>3. Assign(IF t \in asleep THEN resume(st, t) ELSE met)
    BY <1>8 DEF cancel_sleep
  <2>a. st = [met EXCEPT !.asleep = @ \ {t}]
    OBVIOUS
  <2> HIDE DEF met, st
  <2>4. st \in Rec /\ st.entering = entering /\ st.m_cancel = m_cancel
    BY <2>2, <2>a DEF Rec
  <2>5. entering' = entering
    BY <2>2, <2>3, <2>4, EnteringKept DEF Assign
  <2>6. entering # "none" => m_cancel'[entering] = m_cancel[entering]
    <3>1. CASE t \in asleep
      BY <3>1, <2>3, <2>4, AsleepIsOther, resumeCancels DEF Assign, Live
    <3>2. CASE t \notin asleep
      BY <3>2, <2>2, <2>3 DEF Assign
    <3> QED
      BY <3>1, <3>2
  <2> QED
    BY <2>1, <2>5, <2>6, <1>2
<1>9. CASE RequestMark \/ RequestPost \/ requestTerminate
  <2>1. /\ entering' = entering /\ m_cancel' = m_cancel
    BY <1>0, <1>9 DEF RequestMark, RequestPost, requestTerminate, Assign, Rec
  <2>2. /\ late' = late /\ fired' = fired /\ kind' = kind /\ (terminating => terminating')
    BY <1>9 DEF RequestMark, RequestPost, requestTerminate
  <2> QED
    BY <2>1, <2>2, <1>2
<1>10. CASE ServeEnds
  <2>1. /\ entering = "none" /\ late' = late /\ fired' = fired /\ terminating' = terminating
        /\ entering' = entering
    BY <1>0, <1>10 DEF ServeEnds, AtRest, Assign
  <2> QED
    BY <2>1, <1>1
<1>11. ASSUME NEW t \in Timers, NEW k \in Kinds, Make(t, k), entering = "none",
              late' = late, fired' = fired, terminating' = terminating
       PROVE  Live' /\ \A u \in Timers : fired'[u] # fired[u] => ~m_cancel[u]
  <2> DEFINE hr == k \in Interrupting
             s1 == [state EXCEPT !.m_hr[t] = hr, !.m_holding[t] = TRUE, !.refs[t] = 1]
  <2>1. Assign(sleep(s1, t, k))
    BY <1>11 DEF Make
  <2>2. s1 \in Rec /\ s1.entering = "none"
    <3>b. hr \in BOOLEAN
      OBVIOUS
    <3> HIDE DEF hr
    <3>1. /\ [state.m_hr EXCEPT ![t] = hr] \in [Timers -> BOOLEAN]
          /\ [state.m_holding EXCEPT ![t] = TRUE] \in [Timers -> BOOLEAN]
          /\ [state.refs EXCEPT ![t] = 1] \in [Timers -> 0..1]
      BY <1>0, <3>b DEF Rec
    <3> DEFINE h == [state EXCEPT !.m_hr = [state.m_hr EXCEPT ![t] = hr],
                                 !.m_holding = [state.m_holding EXCEPT ![t] = TRUE],
                                 !.refs = [state.refs EXCEPT ![t] = 1]]
    <3>2. s1 = h
      BY <1>0 DEF Rec
    <3>3. h \in Rec /\ h.entering = "none"
      BY <1>0, <1>11, <3>1 DEF Rec
    <3> QED
      BY <3>2, <3>3
  <2> HIDE DEF s1
  <2>3. entering' = "none"
    BY <2>1, <2>2, EnteringKept DEF Assign
  <2> QED
    BY <1>11, <2>3, <1>1
<1>12. ASSUME NEW t \in Timers, NEW k \in Kinds \ {"call"}, setTimer(t, k)
       PROVE  Live' /\ \A u \in Timers : fired'[u] # fired[u] => ~m_cancel[u]
  BY <1>11, <1>12 DEF setTimer, Script, AtRest
<1>13. ASSUME NEW f \in Fibers, NEW t \in Timers, call(f, t)
       PROVE  Live' /\ \A u \in Timers : fired'[u] # fired[u] => ~m_cancel[u]
  BY <1>11, <1>13 DEF call, Script, AtRest, Kinds
<1>14. ASSUME NEW f \in Fibers, result(f)
       PROVE  Live' /\ \A u \in Timers : fired'[u] # fired[u] => ~m_cancel[u]
  <2> DEFINE t == scopes[f][Len(scopes[f])]
  <2>1. /\ entering = "none" /\ late' = late /\ fired' = fired /\ terminating' = terminating
        /\ scopes[f] # << >> /\ Assign(clear(state, t))
    BY <1>14 DEF result, Script, AtRest
  <2>2. t \in Timers
    <3>1. scopes[f] \in Seq(Timers)
      BY DEF Inv, Typed
    <3> QED
      BY <2>1, <3>1
  <2> HIDE DEF t
  <2>3. entering' = "none"
    BY <1>0, <2>1, <2>2, EnteringKept DEF Assign
  <2> QED
    BY <2>1, <2>3, <1>1
<1>15. ASSUME NEW f \in Fibers, exitFromInside(f)
       PROVE  Live' /\ \A u \in Timers : fired'[u] # fired[u] => ~m_cancel[u]
  <2>1. /\ entering = "none" /\ late' = late /\ fired' = fired /\ (terminating => terminating')
        /\ Assign(stopHoldingObjects(state))
    BY <1>15 DEF exitFromInside, Script, AtRest
  <2>2. entering' = "none"
    BY <1>0, <2>1 DEF Assign, stopHoldingObjects, Rec
  <2> QED
    BY <2>1, <2>2, <1>1
<1> QED
  BY <1>3, <1>4, <1>5, <1>6, <1>7, <1>8, <1>9, <1>10, <1>12, <1>13, <1>14, <1>15
     DEF Next, System

(* No timer was made yet.                                                  *)
LEMMA InitLive == Init => Live
  BY DEF Init, Live

(* Every step keeps the invariant.                                         *)
LEMMA NextInv == Inv /\ Live /\ [Next]_vars => Inv'
<1> SUFFICES ASSUME Inv, Live, [Next]_vars PROVE Inv'
  OBVIOUS
<1>1. CASE UNCHANGED vars
  BY <1>1, StutterInv
<1>2. CASE RunJob \/ Interrupt
  BY <1>2, RunJobInv, InterruptInv
<1>3. CASE \/ \E t \in Timers : Clear(t) \/ Expire(t) \/ cancel_sleep(t) \/ Return(t)
           \/ \E t \in Timers, on \in BOOLEAN : Ref(t, on)
           \/ ServeEnds \/ requestTerminate \/ RequestMark \/ RequestPost
  BY <1>3, OtherInv
<1>4. CASE \E t \in Timers, k \in Kinds \ {"call"} : setTimer(t, k)
  BY <1>4, setTimerInv
<1>5. CASE \E f \in Fibers : result(f) \/ exitFromInside(f) \/ \E t \in Timers : call(f, t)
  BY <1>5, resultInv, exitFromInsideInv, callInv
<1>6. CASE \E t \in Timers : CallFunction(t)
  <2>1. PICK t \in Timers : CallFunction(t)
    BY <1>6
  <2>2. kind[t] # "call"
    BY <2>1, NamesAssumption DEF CallFunction, Live
  <2> QED
    BY <2>1, <2>2, CallFunctionInv
<1> QED
  BY <1>1, <1>2, <1>3, <1>4, <1>5, <1>6 DEF Next, System

(* The same of the function about to be called.                            *)
LEMMA NextLive == Inv /\ Live /\ [Next]_vars => Live'
<1> SUFFICES ASSUME Inv, Live, [Next]_vars PROVE Live'
  OBVIOUS
<1>1. CASE UNCHANGED vars
  BY <1>1 DEF Live, vars
<1>2. CASE Next
  BY <1>2, LiveStep
<1> QED
  BY <1>1, <1>2

-----------------------------------------------------------------------------
(* The inductive invariant holds in every reachable state.                  *)
THEOREM Invariance == Spec => [](Inv /\ Live)
  BY InitInv, InitLive, NextInv, NextLive, PTL DEF Spec

(* The constructor's reference is for exactly one place: asleep, a job, an  *)
(* interrupt, on its way into the function or in it; a released timer is in *)
(* none (Timer.h).                                                         *)
THEOREM OnePlaceHolds == Spec => []OnePlace
<1>1. Inv /\ Live => OnePlace
  <2> SUFFICES ASSUME Inv, Live PROVE OnePlace
    OBVIOUS
  <2>1. /\ m_cancel \in [Timers -> BOOLEAN] /\ m_hr \in [Timers -> BOOLEAN]
        /\ m_holding \in [Timers -> BOOLEAN] /\ refs \in [Timers -> 0..1]
        /\ asleep \subseteq Timers /\ cancels \subseteq Timers /\ calling \subseteq Timers
        /\ jobs \in Seq(JobSet) /\ interrupts \in Seq(Timers) /\ m_has_timer \in BOOLEAN
        /\ requesting \in {"no", "mark", "post"} /\ entering \in Timers \cup {"none"}
    BY Fields DEF Inv, Typed, Rec
  <2>2. /\ \A i \in DOMAIN jobs : jobs[i] \in Timers \cup {"interrupts", "stop"}
        /\ \A i \in DOMAIN interrupts : interrupts[i] \in Timers
    BY <2>1 DEF JobSet
  <2>3. \A f \in Fibers : \A i \in DOMAIN scopes[f] : scopes[f][i] \in Timers
    BY DEF Inv, Typed
  <2>4. TypeOK
    BY <2>1, <2>2, <2>3 DEF TypeOK, Inv, Typed, Live
  <2>5. \A t \in Timers : refs[t] = Holds(t, asleep) + Holds(t, calling) + Holds(t, {entering})
                                    + Times(t, jobs) + Times(t, interrupts)
    BY Fields DEF Inv, Whole, Places
  <2> QED
    BY <2>4, <2>5 DEF OnePlace
<1> QED
  BY <1>1, Invariance, PTL

(* JSFiber::m_termed marks a fiber only for a limit that expired inside one  *)
(* of its open scopes, or for process.exit().                               *)
THEOREM TermedInScopeHolds == Spec => []TermedInScope
<1>1. Inv => TermedInScope
  <2> SUFFICES ASSUME Inv, NEW f \in Fibers, m_termed[f], f \notin exited
               PROVE  \E i \in DOMAIN scopes[f] : fired[scopes[f][i]] > 0
    BY DEF TermedInScope
  <2>1. PICK t \in Timers : Open(f, t) /\ fired[t] > 0
    BY DEF Inv, Marked
  <2>2. DOMAIN scopes[f] = 1..Len(scopes[f])
    BY LenProperties DEF Inv, Typed
  <2> QED
    BY <2>1, <2>2 DEF Open
<1> QED
  BY <1>1, Invariance, PTL

(* A limit that expired is reported by a call of its nest, for any nesting  *)
(* of timers.call() on any number of fibers.                                *)
THEOREM ExpiryReportedHolds == Spec => []ExpiryReported
<1>1. Inv => ExpiryReported
  BY DEF Inv
<1> QED
  BY <1>1, Invariance, PTL

(* Isolate::RequestInterrupt: an interrupt never waits without a job that   *)
(* will serve it.                                                          *)
THEOREM InterruptsServedHolds == Spec => []InterruptsServed
<1>1. Inv => InterruptsServed
  BY Fields DEF Inv, Heard, InterruptsServed
<1> QED
  BY <1>1, Invariance, PTL

(* No function of a timer is called after clear(), and at most one once the *)
(* isolate terminates: on_js_timer() had looked at is_terminating() before. *)
THEOREM FiresOnlyLiveHolds == Spec => FiresOnlyLive
<1>1. Inv /\ Live /\ Live' /\ [Next]_vars =>
        [\A t \in Timers : fired'[t] # fired[t] => ~m_cancel[t] /\ late' <= 1]_vars
  <2> SUFFICES ASSUME Inv, Live, Live', Next, NEW t \in Timers, fired'[t] # fired[t]
               PROVE  ~m_cancel[t] /\ late' <= 1
    OBVIOUS
  <2>1. ~m_cancel[t]
    BY LiveStep
  <2>2. late' <= 1
    BY DEF Live
  <2> QED
    BY <2>1, <2>2
<1> QED
  BY <1>1, Invariance, PTL DEF Spec, FiresOnlyLive

=============================================================================
