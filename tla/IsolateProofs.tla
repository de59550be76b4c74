---------------------------- MODULE IsolateProofs ----------------------------
(***************************************************************************)
(* Proofs, for any number of fibers, threads, jobs and objects, that m_ref  *)
(* counts what keeps the isolate alive, that a fiber with a token finds a   *)
(* job, that a spare fiber is there whenever the v8 lock is free, and that  *)
(* the process exits only when nothing is left.                            *)
(***************************************************************************)
EXTENDS Isolate, FiniteSetTheorems, SequenceTheorems, TLAPS

InJs == {"run", "blocked"}                      \* inside js_invoke()
Served == {"woken", "spare", "urgent", "normal"} \* has a token, and no job yet
Parked == {"enter", "idle", "woken"}            \* counted in m_idleFibers
Locked == {"top", "spare", "urgent", "normal", "run", "done"}

(* The agents inside one of the calls W.                                   *)
Calling(W) == {a \in Agents : \E w \in W : Doing(a, w)}

(* The numbers the invariant is about.                                     *)
Running == Cardinality(At(InJs))
Serving == Cardinality(At(Served))
Waiting == Cardinality(At(Parked))
Owing == Cardinality(Calling({"unref", "put"}))
Taking == Cardinality(Calling({"hold"}))
Posting == Cardinality(Calling({"post"}))
Holding == Cardinality(holding)
InQueue == Len(m_jobs) + Len(m_urgentJobs)

Typed ==
    /\ m_ref \in Int /\ m_sem \in Nat /\ m_idleFibers \in Int
    /\ m_jobs \in Seq(AllJobs) /\ m_urgentJobs \in Seq(AllJobs)
    /\ locker \in Fibers \cup {None} /\ g_spareFibers \in SpareValues
    /\ pc \in [Fibers -> Labels]
    /\ ae \in [Fibers -> AllJobs \cup {None}]
    /\ call \in [Agents -> Calls]
    /\ holding \subseteq Objects /\ IsFiniteSet(holding)
    /\ holds \in 0..MaxHolds
    /\ posted \subseteq Jobs
    /\ exited \in BOOLEAN

(* A fiber is in one of the locked parts of the loop if and only if it owns *)
(* the v8 lock.                                                            *)
LockOwned == \A f \in Fibers : pc[f] \in Locked <=> locker = f

(* isolate_ref() is called by JavaScript, which waits for its Ref().       *)
HoldInJs == \A a \in Agents : Doing(a, "hold") => a \in Fibers /\ pc[a] = "run"

RefCounted ==
    m_ref = InQueue + Running + Holding + Owing - Taking

(* Every queued job has its token: in the semaphore, with a fiber that will  *)
(* take the job, or with the agent that is about to post it.                *)
Tokens == InQueue = m_sem + Serving + Posting

IdleCounted == m_idleFibers = Waiting

(* Only the owner of the lock takes jobs, so what it has seen stays.        *)
JobLeft == \A f \in Fibers : pc[f] = "normal" => m_jobs # << >>

(* SpareFiber, and why it will hold when the owner gives the lock up.       *)
SpareLeft ==
    (locker = None \/ \E f \in Fibers : locker = f /\ pc[f] \in {"urgent", "normal", "run"})
      => At(Parked) # {}

Inv ==
    /\ Typed /\ LockOwned /\ HoldInJs /\ RefCounted /\ Tokens /\ IdleCounted
    /\ JobLeft /\ JobFound /\ SpareLeft /\ ExitClean

-----------------------------------------------------------------------------
One(x, S) == IF x \in S THEN 1 ELSE 0

(* Two finite sets that differ in one element at most.                     *)
LEMMA CountMove ==
    ASSUME NEW S, IsFiniteSet(S), NEW A, A \subseteq S, NEW B, B \subseteq S,
           NEW x \in S, \A y \in S : y # x => (y \in A <=> y \in B)
    PROVE  /\ Cardinality(A) \in Nat /\ Cardinality(B) \in Nat
           /\ Cardinality(B) = Cardinality(A) + One(x, B) - One(x, A)
<1>1. IsFiniteSet(A) /\ IsFiniteSet(B)
  BY FS_Subset
<1>2. Cardinality(A) \in Nat /\ Cardinality(B) \in Nat
  BY <1>1, FS_CardinalityType
<1>3. CASE x \in A <=> x \in B
  <2>1. A = B
    BY <1>3
  <2> QED
    BY <2>1, <1>2 DEF One
<1>4. CASE x \in B /\ x \notin A
  <2>1. B = A \cup {x}
    BY <1>4
  <2> QED
    BY <2>1, <1>1, <1>2, <1>4, FS_AddElement DEF One
<1>5. CASE x \in A /\ x \notin B
  <2>1. B = A \ {x}
    BY <1>5
  <2> QED
    BY <2>1, <1>1, <1>2, <1>5, FS_RemoveElement DEF One
<1> QED
  BY <1>2, <1>3, <1>4, <1>5

(* One fiber goes from one label to another.                               *)
LEMMA PcMove ==
    ASSUME pc \in [Fibers -> Labels], NEW f \in Fibers, NEW l \in Labels,
           pc' = [pc EXCEPT ![f] = l], NEW L
    PROVE  /\ Cardinality(At(L)) \in Nat /\ Cardinality(At(L)') \in Nat
           /\ Cardinality(At(L)') = Cardinality(At(L)) + One(l, L) - One(pc[f], L)
<1>1. /\ At(L) \subseteq Fibers /\ At(L)' \subseteq Fibers
      /\ \A g \in Fibers : g # f => (g \in At(L) <=> g \in At(L)')
      /\ f \in At(L)' <=> l \in L
      /\ f \in At(L) <=> pc[f] \in L
  BY DEF At
<1> HIDE DEF At
<1>2. /\ Cardinality(At(L)) \in Nat /\ Cardinality(At(L)') \in Nat
      /\ Cardinality(At(L)') = Cardinality(At(L)) + One(f, At(L)') - One(f, At(L))
  BY <1>1, FibersAssumption, CountMove
<1> QED
  BY <1>1, <1>2 DEF One

(* Fibers and outside threads can be counted.                              *)
LEMMA AgentsAreFinite == IsFiniteSet(Agents)
  BY FibersAssumption, AgentsAssumption, FS_Union DEF Agents

(* What call c is.                                                         *)
What(c) == IF c = << >> THEN "idle" ELSE c[1]

(* One agent goes from one call to another.                                *)
LEMMA CallMove ==
    ASSUME call \in [Agents -> Calls], NEW a \in Agents, NEW c \in Calls,
           call' = [call EXCEPT ![a] = c], NEW W, "idle" \notin W
    PROVE  /\ Cardinality(Calling(W)) \in Nat /\ Cardinality(Calling(W)') \in Nat
           /\ Cardinality(Calling(W)')
                = Cardinality(Calling(W)) + One(What(c), W) - One(What(call[a]), W)
<1>1. /\ Calling(W) \subseteq Agents /\ Calling(W)' \subseteq Agents
      /\ \A b \in Agents : b # a => (b \in Calling(W) <=> b \in Calling(W)')
      /\ a \in Calling(W)' <=> What(c) \in W
      /\ a \in Calling(W) <=> What(call[a]) \in W
  BY DEF Calling, Doing, What
<1> HIDE DEF Calling
<1>2. /\ Cardinality(Calling(W)) \in Nat /\ Cardinality(Calling(W)') \in Nat
      /\ Cardinality(Calling(W)') =
            Cardinality(Calling(W)) + One(a, Calling(W)') - One(a, Calling(W))
  BY <1>1, AgentsAreFinite, CountMove
<1> QED
  BY <1>1, <1>2 DEF One

(* The stages of a call are told apart by their first field.               *)
LEMMA CallKinds ==
    /\ \A c \in Calls :
          /\ What(c) \in {"idle", "hold", "unref", "post", "ref", "put"}
          /\ What(c) = "idle" <=> c = << >>
          /\ What(c) \in {"ref", "put"} => c[2] \in AllJobs /\ c[3] \in BOOLEAN
    /\ What(<< >>) = "idle" /\ << >> \in Calls
    /\ What(<<"hold">>) = "hold" /\ <<"hold">> \in Calls
    /\ What(<<"unref">>) = "unref" /\ <<"unref">> \in Calls
    /\ What(<<"post">>) = "post" /\ <<"post">> \in Calls
    /\ \A j \in AllJobs, u \in BOOLEAN :
          /\ What(<<"ref", j, u>>) = "ref" /\ <<"ref", j, u>> \in Calls
          /\ What(<<"put", j, u>>) = "put" /\ <<"put", j, u>> \in Calls
<1>1. ASSUME NEW c \in Calls
      PROVE  /\ What(c) \in {"idle", "hold", "unref", "post", "ref", "put"}
             /\ What(c) = "idle" <=> c = << >>
             /\ What(c) \in {"ref", "put"} => c[2] \in AllJobs /\ c[3] \in BOOLEAN
  <2>1. CASE c \in {<< >>, <<"hold">>, <<"unref">>, <<"post">>}
    BY <2>1 DEF What
  <2>2. CASE \E s \in {"ref", "put"}, j \in AllJobs, u \in BOOLEAN : c = <<s, j, u>>
    BY <2>2 DEF What
  <2> QED
    BY <2>1, <2>2 DEF Calls
<1>2. /\ What(<< >>) = "idle" /\ << >> \in Calls
      /\ What(<<"hold">>) = "hold" /\ <<"hold">> \in Calls
      /\ What(<<"unref">>) = "unref" /\ <<"unref">> \in Calls
      /\ What(<<"post">>) = "post" /\ <<"post">> \in Calls
  BY DEF What, Calls
<1>3. ASSUME NEW j \in AllJobs, NEW u \in BOOLEAN
      PROVE  /\ What(<<"ref", j, u>>) = "ref" /\ <<"ref", j, u>> \in Calls
             /\ What(<<"put", j, u>>) = "put" /\ <<"put", j, u>> \in Calls
  BY DEF What, Calls
<1> QED
  BY <1>1, <1>2, <1>3

(* An agent is at one stage of a call at a time.                           *)
LEMMA DoingWhat ==
    ASSUME call \in [Agents -> Calls], NEW a \in Agents
    PROVE  /\ \A w : w # "idle" => (Doing(a, w) <=> What(call[a]) = w)
           /\ Idle(a) <=> What(call[a]) = "idle"
  BY CallKinds DEF Doing, Idle, What

(* The three counts of calls that the invariant speaks of.                 *)
CallsCounted(old, new) ==
    /\ Owing' = Owing + One(new, {"unref", "put"}) - One(old, {"unref", "put"})
    /\ Taking' = Taking + One(new, {"hold"}) - One(old, {"hold"})
    /\ Posting' = Posting + One(new, {"post"}) - One(old, {"post"})

(* An agent goes on to the next stage of its call.                         *)
LEMMA Becomes ==
    ASSUME call \in [Agents -> Calls], NEW a \in Agents, NEW c \in Calls, Become(a, c)
    PROVE  /\ CallsCounted(What(call[a]), What(c))
           /\ call' \in [Agents -> Calls] /\ call'[a] = c
           /\ \A b \in Agents : b # a => call'[b] = call[b]
           /\ \A w : w # "idle" => (Doing(a, w)' <=> What(c) = w)
           /\ \A b \in Agents : \A w : b # a => (Doing(b, w)' <=> Doing(b, w))
<1>1. call' = [call EXCEPT ![a] = c] /\ call' \in [Agents -> Calls]
  BY DEF Become
<1>2. ASSUME NEW W, "idle" \notin W
      PROVE  /\ Cardinality(Calling(W)) \in Nat /\ Cardinality(Calling(W)') \in Nat
             /\ Cardinality(Calling(W)')
                = Cardinality(Calling(W)) + One(What(c), W) - One(What(call[a]), W)
  BY <1>1, <1>2, CallMove
<1>3. CallsCounted(What(call[a]), What(c))
  <2>1. /\ Cardinality(Calling({"hold"})) \in Nat
        /\ Cardinality(Calling({"hold"})')
             = Cardinality(Calling({"hold"})) + One(What(c), {"hold"}) - One(What(call[a]), {"hold"})
    BY <1>2
  <2>2. /\ Cardinality(Calling({"post"})) \in Nat
        /\ Cardinality(Calling({"post"})')
             = Cardinality(Calling({"post"})) + One(What(c), {"post"}) - One(What(call[a]), {"post"})
    BY <1>2
  <2>3. /\ Cardinality(Calling({"unref", "put"})) \in Nat
        /\ Cardinality(Calling({"unref", "put"})')
             = Cardinality(Calling({"unref", "put"})) + One(What(c), {"unref", "put"})
                 - One(What(call[a]), {"unref", "put"})
    BY <1>2
  <2> QED
    BY <2>1, <2>2, <2>3 DEF CallsCounted, One, Owing, Taking, Posting
<1>4. call'[a] = c /\ \A b \in Agents : b # a => call'[b] = call[b]
  BY <1>1
<1>5. \A w : w # "idle" => (Doing(a, w)' <=> What(c) = w)
  BY <1>4 DEF Doing, What
<1>6. \A b \in Agents : \A w : b # a => (Doing(b, w)' <=> Doing(b, w))
  BY <1>4 DEF Doing
<1> QED
  BY <1>1, <1>3, <1>4, <1>5, <1>6

(* What the invariant adds up are natural numbers.                          *)
LEMMA CountsNat ==
    ASSUME Typed
    PROVE  /\ InQueue \in Nat /\ m_sem \in Nat /\ m_ref \in Int /\ Holding \in Nat
           /\ Running \in Nat /\ Serving \in Nat /\ Waiting \in Nat
           /\ Owing \in Nat /\ Taking \in Nat /\ Posting \in Nat
<1>1. ASSUME NEW L PROVE Cardinality(At(L)) \in Nat
  <2>1. At(L) \subseteq Fibers
    BY DEF At
  <2> QED
    BY <2>1, FibersAssumption, FS_Subset, FS_CardinalityType
<1>2. ASSUME NEW W PROVE Cardinality(Calling(W)) \in Nat
  <2>1. Calling(W) \subseteq Agents
    BY DEF Calling
  <2> QED
    BY <2>1, AgentsAreFinite, FS_Subset, FS_CardinalityType
<1> QED
  BY <1>1, <1>2, FS_CardinalityType
     DEF Typed, InQueue, Holding, Running, Serving, Waiting, Owing, Taking, Posting

-----------------------------------------------------------------------------
(* The parts of the invariant that a call in progress does not concern: the *)
(* steps of a call leave the fibers where they are and take no job.         *)
LEMMA CallKeeps ==
    ASSUME Inv, ~exited, pc' = pc, ae' = ae, lockVars' = lockVars, exited' = exited,
           m_jobs # << >> => m_jobs' # << >>
    PROVE  LockOwned' /\ IdleCounted' /\ JobLeft' /\ JobFound' /\ SpareLeft' /\ ExitClean'
<1>1. m_idleFibers' = m_idleFibers /\ locker' = locker /\ g_spareFibers' = g_spareFibers
  BY DEF lockVars
<1>2. Waiting' = Waiting /\ At(Parked)' = At(Parked)
  BY DEF At, Waiting, Parked
<1>3. LockOwned'
  BY <1>1 DEF Inv, LockOwned
<1>4. IdleCounted'
  BY <1>1, <1>2 DEF Inv, IdleCounted
<1>5. JobLeft' /\ JobFound'
  BY DEF Inv, JobLeft, JobFound
<1>6. SpareLeft'
  BY <1>1, <1>2 DEF Inv, SpareLeft
<1>7. ExitClean'
  BY DEF ExitClean
<1> QED
  BY <1>3, <1>4, <1>5, <1>6, <1>7

(* The equations, with the numbers in them.                                *)
LEMMA Counts ==
    ASSUME Inv
    PROVE  /\ InQueue \in Nat /\ m_sem \in Nat /\ m_ref \in Int /\ Holding \in Nat
           /\ Running \in Nat /\ Serving \in Nat /\ Waiting \in Nat
           /\ Owing \in Nat /\ Taking \in Nat /\ Posting \in Nat
           /\ m_ref = InQueue + Running + Holding + Owing - Taking
           /\ InQueue = m_sem + Serving + Posting
           /\ m_idleFibers = Waiting
  BY CountsNat DEF Inv, RefCounted, Tokens, IdleCounted

(* Agent a makes a step of a call that leaves it in call c.                 *)
LEMMA CallInv ==
    ASSUME Inv, ~exited, pc' = pc, ae' = ae, lockVars' = lockVars, exited' = exited,
           m_jobs # << >> => m_jobs' # << >>,
           NEW a \in Agents, NEW c \in Calls, Become(a, c), Typed',
           What(c) = "hold" => a \in Fibers /\ pc[a] = "run",
           m_ref' = InQueue' + Running + Holding' + Owing' - Taking',
           InQueue' = m_sem' + Serving + Posting'
    PROVE  Inv'
<1>1. /\ \A w : w # "idle" => (Doing(a, w)' <=> What(c) = w)
      /\ \A b \in Agents : \A w : b # a => (Doing(b, w)' <=> Doing(b, w))
  BY Becomes DEF Inv, Typed
<1>2. HoldInJs'
  BY <1>1 DEF Inv, HoldInJs
<1>3. Running' = Running /\ Serving' = Serving
  BY DEF At, InJs, Served, Running, Serving
<1>4. RefCounted' /\ Tokens'
  BY <1>3 DEF RefCounted, Tokens
<1> QED
  BY <1>2, <1>4, CallKeeps DEF Inv

(* Ref() in post_task(): the job is not queued yet, the call is owed for.   *)
LEMMA PostRefInv ==
    ASSUME Inv, ~exited, NEW a \in Agents, PostRef(a)
    PROVE  Inv'
<1> DEFINE c == <<"put", call[a][2], call[a][3]>>
<1>1. /\ Typed /\ m_ref' = m_ref + 1 /\ Become(a, c) /\ Doing(a, "ref")
      /\ pc' = pc /\ ae' = ae /\ lockVars' = lockVars /\ exited' = exited
      /\ m_sem' = m_sem /\ m_jobs' = m_jobs /\ m_urgentJobs' = m_urgentJobs
      /\ holding' = holding /\ holds' = holds /\ posted' = posted
  BY DEF PostRef, Inv, queues, budget
<1>2. What(call[a]) = "ref"
  BY <1>1, DoingWhat DEF Typed
<1>3. What(c) = "put" /\ c \in Calls
  BY <1>1, <1>2, CallKinds DEF Typed
<1> HIDE DEF c
<1>4. /\ call' \in [Agents -> Calls] /\ CallsCounted("ref", "put")
      /\ Holding' = Holding /\ InQueue' = InQueue
  BY <1>1, <1>2, <1>3, Becomes DEF Typed, Holding, InQueue
<1>5. Typed'
  BY <1>1, <1>4 DEF Typed, lockVars
<1>6. Owing' = Owing + 1 /\ Taking' = Taking /\ Posting' = Posting
  BY <1>4, Counts DEF CallsCounted, One
<1>7. /\ m_ref' = InQueue' + Running + Holding' + Owing' - Taking'
      /\ InQueue' = m_sem' + Serving + Posting'
  BY <1>1, <1>4, <1>6, Counts
<1> QED
  BY <1>1, <1>3, <1>5, <1>7, CallInv
(* A job is put at the end of a queue.                                     *)
LEMMA Queueing ==
    ASSUME NEW q \in Seq(AllJobs), NEW j \in AllJobs
    PROVE  Append(q, j) \in Seq(AllJobs) /\ Len(Append(q, j)) = Len(q) + 1
           /\ Append(q, j) # << >> /\ Len(q) \in Nat
<1>1. Append(q, j) \in Seq(AllJobs) /\ Len(Append(q, j)) = Len(q) + 1 /\ Len(q) \in Nat
  BY AppendProperties, LenProperties
<1> QED
  BY <1>1, EmptySeq

(* putTail(): the reference passes from the call to the queue.              *)
LEMMA PostPutInv ==
    ASSUME Inv, ~exited, NEW a \in Agents, PostPut(a)
    PROVE  Inv'
<1> DEFINE c == <<"post">>
<1>1. /\ Typed /\ m_ref' = m_ref /\ Become(a, c) /\ Doing(a, "put")
      /\ pc' = pc /\ ae' = ae /\ lockVars' = lockVars /\ exited' = exited
      /\ m_sem' = m_sem /\ holding' = holding /\ holds' = holds /\ posted' = posted
      /\ IF call[a][3]
           THEN m_urgentJobs' = Append(m_urgentJobs, call[a][2]) /\ UNCHANGED m_jobs
           ELSE m_jobs' = Append(m_jobs, call[a][2]) /\ UNCHANGED m_urgentJobs
  BY DEF PostPut, Inv, budget
<1>2. What(call[a]) = "put" /\ call[a][2] \in AllJobs
  BY <1>1, DoingWhat, CallKinds DEF Typed
<1>3. What(c) = "post" /\ c \in Calls
  BY CallKinds
<1> HIDE DEF c
<1>j. /\ m_jobs' \in Seq(AllJobs) /\ m_urgentJobs' \in Seq(AllJobs)
      /\ InQueue' = InQueue + 1
      /\ m_jobs # << >> => m_jobs' # << >>
  <2>1. m_jobs \in Seq(AllJobs) /\ m_urgentJobs \in Seq(AllJobs)
    BY <1>1 DEF Typed
  <2>2. CASE call[a][3]
    <3>1. m_urgentJobs' = Append(m_urgentJobs, call[a][2]) /\ m_jobs' = m_jobs
      BY <1>1, <2>2
    <3>2. /\ m_urgentJobs' \in Seq(AllJobs) /\ Len(m_urgentJobs') = Len(m_urgentJobs) + 1
          /\ m_urgentJobs' # << >> /\ Len(m_urgentJobs) \in Nat /\ Len(m_jobs) \in Nat
      BY <3>1, <2>1, <1>2, Queueing
    <3> QED
      BY <3>1, <3>2, <2>1 DEF InQueue
  <2>3. CASE ~call[a][3]
    <3>1. m_jobs' = Append(m_jobs, call[a][2]) /\ m_urgentJobs' = m_urgentJobs
      BY <1>1, <2>3
    <3>2. /\ m_jobs' \in Seq(AllJobs) /\ Len(m_jobs') = Len(m_jobs) + 1
          /\ m_jobs' # << >> /\ Len(m_jobs) \in Nat /\ Len(m_urgentJobs) \in Nat
      BY <3>1, <2>1, <1>2, Queueing
    <3> QED
      BY <3>1, <3>2, <2>1 DEF InQueue
  <2> QED
    BY <2>2, <2>3
<1>4. /\ call' \in [Agents -> Calls] /\ CallsCounted("put", "post") /\ Holding' = Holding
  BY <1>1, <1>2, <1>3, Becomes DEF Typed, Holding
<1>5. Typed'
  BY <1>1, <1>4, <1>j DEF Typed, lockVars
<1>6. Owing' = Owing - 1 /\ Taking' = Taking /\ Posting' = Posting + 1
  BY <1>4, Counts DEF CallsCounted, One
<1>7. /\ m_ref' = InQueue' + Running + Holding' + Owing' - Taking'
      /\ InQueue' = m_sem' + Serving + Posting'
  <2>1. m_ref' = m_ref /\ m_sem' = m_sem /\ InQueue' = InQueue + 1 /\ Holding' = Holding
    BY <1>1, <1>4, <1>j
  <2> QED
    BY <2>1, <1>6, Counts
<1> QED
  BY <1>1, <1>3, <1>5, <1>7, <1>j, CallInv

(* m_sem.post(): the token passes from the call to the semaphore.           *)
LEMMA PostSemInv ==
    ASSUME Inv, ~exited, NEW a \in Agents, PostSem(a)
    PROVE  Inv'
<1> DEFINE c == << >>
<1>1. /\ Typed /\ m_ref' = m_ref /\ Become(a, c) /\ Doing(a, "post")
      /\ pc' = pc /\ ae' = ae /\ lockVars' = lockVars /\ exited' = exited
      /\ m_sem' = m_sem + 1 /\ m_jobs' = m_jobs /\ m_urgentJobs' = m_urgentJobs
      /\ holding' = holding /\ holds' = holds /\ posted' = posted
  BY DEF PostSem, Inv, budget
<1>2. What(call[a]) = "post"
  BY <1>1, DoingWhat DEF Typed
<1>3. What(c) = "idle" /\ c \in Calls
  BY CallKinds
<1> HIDE DEF c
<1>4. /\ call' \in [Agents -> Calls] /\ CallsCounted("post", "idle")
      /\ Holding' = Holding /\ InQueue' = InQueue
  BY <1>1, <1>2, <1>3, Becomes DEF Typed, Holding, InQueue
<1>5. Typed'
  BY <1>1, <1>4 DEF Typed, lockVars
<1>6. Owing' = Owing /\ Taking' = Taking /\ Posting' = Posting - 1
  BY <1>4, Counts DEF CallsCounted, One
<1>7. /\ m_ref' = InQueue' + Running + Holding' + Owing' - Taking'
      /\ InQueue' = m_sem' + Serving + Posting'
  BY <1>1, <1>4, <1>6, Counts
<1> QED
  BY <1>1, <1>3, <1>5, <1>7, CallInv

(* The Ref() of isolate_ref(): m_ref catches up with m_holding.             *)
LEMMA HoldRefInv ==
    ASSUME Inv, ~exited, NEW a \in Agents, HoldRef(a)
    PROVE  Inv'
<1> DEFINE c == << >>
<1>1. /\ Typed /\ m_ref' = m_ref + 1 /\ Become(a, c) /\ Doing(a, "hold")
      /\ pc' = pc /\ ae' = ae /\ lockVars' = lockVars /\ exited' = exited
      /\ m_sem' = m_sem /\ m_jobs' = m_jobs /\ m_urgentJobs' = m_urgentJobs
      /\ holding' = holding /\ holds' = holds /\ posted' = posted
  BY DEF HoldRef, Inv, queues, budget
<1>2. What(call[a]) = "hold"
  BY <1>1, DoingWhat DEF Typed
<1>3. What(c) = "idle" /\ c \in Calls
  BY CallKinds
<1> HIDE DEF c
<1>4. /\ call' \in [Agents -> Calls] /\ CallsCounted("hold", "idle")
      /\ Holding' = Holding /\ InQueue' = InQueue
  BY <1>1, <1>2, <1>3, Becomes DEF Typed, Holding, InQueue
<1>5. Typed'
  BY <1>1, <1>4 DEF Typed, lockVars
<1>6. Owing' = Owing /\ Taking' = Taking - 1 /\ Posting' = Posting
  BY <1>4, Counts DEF CallsCounted, One
<1>7. /\ m_ref' = InQueue' + Running + Holding' + Owing' - Taking'
      /\ InQueue' = m_sem' + Serving + Posting'
  BY <1>1, <1>4, <1>6, Counts
<1> QED
  BY <1>1, <1>3, <1>5, <1>7, CallInv

(* The decrement of Unref(), after which the exit job may have to be posted. *)
LEMMA UnrefInv ==
    ASSUME Inv, ~exited, NEW a \in Agents, Unref(a)
    PROVE  Inv'
<1> DEFINE c == IF m_ref' = 0 THEN <<"ref", Exit, FALSE>> ELSE << >>
<1>1. /\ Typed /\ m_ref' = m_ref - 1 /\ Become(a, c) /\ Doing(a, "unref")
      /\ pc' = pc /\ ae' = ae /\ lockVars' = lockVars /\ exited' = exited
      /\ m_sem' = m_sem /\ m_jobs' = m_jobs /\ m_urgentJobs' = m_urgentJobs
      /\ holding' = holding /\ holds' = holds /\ posted' = posted
  BY DEF Unref, Inv, queues, budget
<1>2. What(call[a]) = "unref"
  BY <1>1, DoingWhat DEF Typed
<1>3. What(c) \in {"idle", "ref"} /\ c \in Calls
  BY CallKinds DEF AllJobs
<1> HIDE DEF c
<1>4. /\ call' \in [Agents -> Calls] /\ CallsCounted("unref", What(c))
      /\ Holding' = Holding /\ InQueue' = InQueue
  BY <1>1, <1>2, <1>3, Becomes DEF Typed, Holding, InQueue
<1>5. Typed'
  BY <1>1, <1>4 DEF Typed, lockVars
<1>6. Owing' = Owing - 1 /\ Taking' = Taking /\ Posting' = Posting
  BY <1>3, <1>4, Counts DEF CallsCounted, One
<1>7. /\ m_ref' = InQueue' + Running + Holding' + Owing' - Taking'
      /\ InQueue' = m_sem' + Serving + Posting'
  BY <1>1, <1>4, <1>6, Counts
<1> QED
  BY <1>1, <1>3, <1>5, <1>7, CallInv

(* A program posts a job: nothing has been counted yet.                     *)
LEMMA PostInv ==
    ASSUME Inv, ~exited, NEW a \in Agents, NEW j \in Jobs, NEW urgent \in BOOLEAN,
           Post(a, j, urgent)
    PROVE  Inv'
<1> DEFINE c == <<"ref", j, urgent>>
<1>1. /\ Typed /\ m_ref' = m_ref /\ Become(a, c) /\ Idle(a)
      /\ pc' = pc /\ ae' = ae /\ lockVars' = lockVars /\ exited' = exited
      /\ m_sem' = m_sem /\ m_jobs' = m_jobs /\ m_urgentJobs' = m_urgentJobs
      /\ holding' = holding /\ holds' = holds /\ posted' = posted \cup {j}
  BY DEF Post, MayPost, Inv, queues
<1>2. What(call[a]) = "idle"
  BY <1>1, DoingWhat DEF Typed
<1>3. What(c) = "ref" /\ c \in Calls
  BY CallKinds DEF AllJobs
<1> HIDE DEF c
<1>4. /\ call' \in [Agents -> Calls] /\ CallsCounted("idle", "ref")
      /\ Holding' = Holding /\ InQueue' = InQueue
  BY <1>1, <1>2, <1>3, Becomes DEF Typed, Holding, InQueue
<1>5. Typed'
  BY <1>1, <1>4 DEF Typed, lockVars
<1>6. Owing' = Owing /\ Taking' = Taking /\ Posting' = Posting
  BY <1>4, Counts DEF CallsCounted, One
<1>7. /\ m_ref' = InQueue' + Running + Holding' + Owing' - Taking'
      /\ InQueue' = m_sem' + Serving + Posting'
  BY <1>1, <1>4, <1>6, Counts
<1> QED
  BY <1>1, <1>3, <1>5, <1>7, CallInv

(* isolate_ref() sets m_holding, ahead of m_ref.                            *)
LEMMA isolate_refInv ==
    ASSUME Inv, ~exited, NEW a \in Fibers, NEW o \in Objects, isolate_ref(a, o)
    PROVE  Inv'
<1> DEFINE c == <<"hold">>
<1>1. /\ Typed /\ m_ref' = m_ref /\ Become(a, c) /\ Idle(a) /\ pc[a] = "run"
      /\ pc' = pc /\ ae' = ae /\ lockVars' = lockVars /\ exited' = exited
      /\ m_sem' = m_sem /\ m_jobs' = m_jobs /\ m_urgentJobs' = m_urgentJobs
      /\ o \notin holding /\ holding' = holding \cup {o} /\ posted' = posted
      /\ holds < MaxHolds /\ holds' = holds + 1
  BY DEF isolate_ref, InJob, Inv, queues
<1>a. a \in Agents
  BY DEF Agents
<1>2. What(call[a]) = "idle"
  BY <1>1, <1>a, DoingWhat DEF Typed
<1>3. What(c) = "hold" /\ c \in Calls
  BY CallKinds
<1> HIDE DEF c
<1>4. /\ call' \in [Agents -> Calls] /\ CallsCounted("idle", "hold") /\ InQueue' = InQueue
  BY <1>1, <1>2, <1>3, <1>a, Becomes DEF Typed, InQueue
<1>h. Holding' = Holding + 1 /\ IsFiniteSet(holding')
  BY <1>1, FS_AddElement DEF Typed, Holding
<1>b. holds' \in 0..MaxHolds
  BY <1>1, BoundsAssumption DEF Typed
<1>5. Typed'
  BY <1>1, <1>4, <1>h, <1>b DEF Typed, lockVars
<1>6. Owing' = Owing /\ Taking' = Taking + 1 /\ Posting' = Posting
  BY <1>4, Counts DEF CallsCounted, One
<1>7. /\ m_ref' = InQueue' + Running + Holding' + Owing' - Taking'
      /\ InQueue' = m_sem' + Serving + Posting'
  BY <1>1, <1>4, <1>h, <1>6, Counts
<1> QED
  BY <1>1, <1>3, <1>5, <1>7, <1>a, CallInv

(* isolate_unref() clears m_holding, and owes the Unref().                  *)
LEMMA isolate_unrefInv ==
    ASSUME Inv, ~exited, NEW a \in Agents, NEW o \in Objects, isolate_unref(a, o)
    PROVE  Inv'
<1> DEFINE c == <<"unref">>
<1>1. /\ Typed /\ m_ref' = m_ref /\ Become(a, c) /\ Idle(a)
      /\ pc' = pc /\ ae' = ae /\ lockVars' = lockVars /\ exited' = exited
      /\ m_sem' = m_sem /\ m_jobs' = m_jobs /\ m_urgentJobs' = m_urgentJobs
      /\ o \in holding /\ holding' = holding \ {o} /\ posted' = posted /\ holds' = holds
  BY DEF isolate_unref, MayPost, Inv, queues, budget
<1>2. What(call[a]) = "idle"
  BY <1>1, DoingWhat DEF Typed
<1>3. What(c) = "unref" /\ c \in Calls
  BY CallKinds
<1> HIDE DEF c
<1>4. /\ call' \in [Agents -> Calls] /\ CallsCounted("idle", "unref") /\ InQueue' = InQueue
  BY <1>1, <1>2, <1>3, Becomes DEF Typed, InQueue
<1>h. Holding' = Holding - 1 /\ IsFiniteSet(holding')
  BY <1>1, FS_RemoveElement DEF Typed, Holding
<1>5. Typed'
  BY <1>1, <1>4, <1>h DEF Typed, lockVars
<1>6. Owing' = Owing + 1 /\ Taking' = Taking /\ Posting' = Posting
  BY <1>4, Counts DEF CallsCounted, One
<1>7. /\ m_ref' = InQueue' + Running + Holding' + Owing' - Taking'
      /\ InQueue' = m_sem' + Serving + Posting'
  BY <1>1, <1>4, <1>h, <1>6, Counts
<1> QED
  BY <1>1, <1>3, <1>5, <1>7, CallInv
-----------------------------------------------------------------------------
(* The three counts of fibers that the invariant speaks of.                *)
FibersCounted(old, new) ==
    /\ Running' = Running + One(new, InJs) - One(old, InJs)
    /\ Serving' = Serving + One(new, Served) - One(old, Served)
    /\ Waiting' = Waiting + One(new, Parked) - One(old, Parked)

(* A fiber goes on to another label.                                       *)
LEMMA Goes ==
    ASSUME Typed, NEW f \in Fibers, NEW l \in Labels, Goto(f, l)
    PROVE  /\ FibersCounted(pc[f], l)
           /\ pc' \in [Fibers -> Labels] /\ pc'[f] = l
           /\ \A g \in Fibers : g # f => pc'[g] = pc[g]
<1>1. pc \in [Fibers -> Labels] /\ pc' = [pc EXCEPT ![f] = l]
  BY DEF Typed, Goto
<1>2. /\ Running \in Nat /\ Running' = Running + One(l, InJs) - One(pc[f], InJs)
      /\ Serving \in Nat /\ Serving' = Serving + One(l, Served) - One(pc[f], Served)
      /\ Waiting \in Nat /\ Waiting' = Waiting + One(l, Parked) - One(pc[f], Parked)
  BY <1>1, PcMove DEF Running, Serving, Waiting
<1> QED
  BY <1>1, <1>2 DEF FibersCounted

(* A step of the loop makes no call.                                       *)
LEMMA LoopInv ==
    ASSUME Inv, ~exited, call' = call, m_ref' = m_ref, holding' = holding, exited' = exited,
           Typed', LockOwned', JobLeft', JobFound', SpareLeft',
           \A g \in Fibers : pc[g] = "run" /\ Doing(g, "hold") => pc'[g] = "run",
           m_ref = InQueue' + Running' + Holding + Owing - Taking,
           InQueue' = m_sem' + Serving' + Posting,
           m_idleFibers' = Waiting'
    PROVE  Inv'
<1>1. Owing' = Owing /\ Taking' = Taking /\ Posting' = Posting /\ Holding' = Holding
  BY DEF Owing, Taking, Posting, Holding, Calling, Doing
<1>2. RefCounted' /\ Tokens' /\ IdleCounted'
  BY <1>1 DEF RefCounted, Tokens, IdleCounted
<1>3. HoldInJs'
  <2>1. \A b \in Agents : Doing(b, "hold")' <=> Doing(b, "hold")
    BY DEF Doing
  <2> QED
    BY <2>1 DEF Inv, HoldInJs
<1>4. ExitClean'
  BY DEF ExitClean
<1> QED
  BY <1>2, <1>3, <1>4 DEF Inv

(* A new fiber takes the v8 lock.                                          *)
LEMMA EnterInv ==
    ASSUME Inv, ~exited, NEW f \in Fibers, Enter(f)
    PROVE  Inv'
<1>1. /\ Typed /\ pc[f] = "enter" /\ locker = None /\ locker' = f
      /\ m_idleFibers' = m_idleFibers - 1 /\ Goto(f, "top") /\ g_spareFibers' = g_spareFibers
      /\ m_ref' = m_ref /\ m_sem' = m_sem /\ m_jobs' = m_jobs /\ m_urgentJobs' = m_urgentJobs
      /\ ae' = ae /\ call' = call /\ holding' = holding /\ holds' = holds
      /\ posted' = posted /\ exited' = exited
  BY DEF Enter, Inv, queues, budget
<1>2. /\ FibersCounted("enter", "top") /\ pc' \in [Fibers -> Labels] /\ pc'[f] = "top"
      /\ \A g \in Fibers : g # f => pc'[g] = pc[g]
  BY <1>1, Goes DEF Labels
<1>3. Typed'
  BY <1>1, <1>2 DEF Typed
<1>4. Running' = Running /\ Serving' = Serving /\ Waiting' = Waiting - 1
  BY <1>2, Counts DEF FibersCounted, One, InJs, Served, Parked
<1>5. InQueue' = InQueue
  BY <1>1 DEF InQueue
<1>6. /\ m_ref = InQueue' + Running' + Holding + Owing - Taking
      /\ InQueue' = m_sem' + Serving' + Posting
      /\ m_idleFibers' = Waiting'
  BY <1>1, <1>4, <1>5, Counts
<1>7. LockOwned'
  BY <1>1, <1>2, FibersAssumption DEF Inv, LockOwned, Locked
<1>8. JobLeft' /\ JobFound'
  BY <1>1, <1>2 DEF Inv, JobLeft, JobFound
<1>9. SpareLeft'
  BY <1>1, <1>2, FibersAssumption DEF SpareLeft
<1>10. \A g \in Fibers : pc[g] = "run" /\ Doing(g, "hold") => pc'[g] = "run"
  BY <1>1, <1>2
<1> QED
  BY <1>1, <1>3, <1>6, <1>7, <1>8, <1>9, <1>10, LoopInv

(* The fiber takes a token, if there is one.                               *)
LEMMA TryWaitInv ==
    ASSUME Inv, ~exited, NEW f \in Fibers, TryWait(f)
    PROVE  Inv'
<1>1. /\ Typed /\ pc[f] = "top" /\ m_sem > 0 /\ locker' = locker
      /\ m_idleFibers' = m_idleFibers /\ Goto(f, "spare") /\ g_spareFibers' = g_spareFibers
      /\ m_ref' = m_ref /\ m_sem' = m_sem - 1 /\ m_jobs' = m_jobs
      /\ m_urgentJobs' = m_urgentJobs
      /\ ae' = ae /\ call' = call /\ holding' = holding /\ holds' = holds
      /\ posted' = posted /\ exited' = exited
  BY DEF TryWait, Inv, lockVars, budget
<1>2. /\ FibersCounted("top", "spare") /\ pc' \in [Fibers -> Labels] /\ pc'[f] = "spare"
      /\ \A g \in Fibers : g # f => pc'[g] = pc[g]
  BY <1>1, Goes DEF Labels
<1>3. Typed'
  BY <1>1, <1>2 DEF Typed
<1>4. Running' = Running /\ Serving' = Serving + 1 /\ Waiting' = Waiting
  BY <1>2, Counts DEF FibersCounted, One, InJs, Served, Parked
<1>5. InQueue' = InQueue
  BY <1>1 DEF InQueue
<1>6. /\ m_ref = InQueue' + Running' + Holding + Owing - Taking
      /\ InQueue' = m_sem' + Serving' + Posting
      /\ m_idleFibers' = Waiting'
  BY <1>1, <1>4, <1>5, Counts
<1>7. LockOwned' /\ locker = f
  BY <1>1, <1>2, FibersAssumption DEF Inv, LockOwned, Locked
<1>8. JobLeft' /\ JobFound'
  BY <1>1, <1>2 DEF Inv, JobLeft, JobFound
<1>9. SpareLeft'
  BY <1>1, <1>2, <1>7, FibersAssumption DEF SpareLeft
<1>10. \A g \in Fibers : pc[g] = "run" /\ Doing(g, "hold") => pc'[g] = "run"
  BY <1>1, <1>2
<1> QED
  BY <1>1, <1>3, <1>6, <1>7, <1>8, <1>9, <1>10, LoopInv

(* Without one it parks, or leaves if enough fibers are parked.            *)
LEMMA ParkOrLeaveInv ==
    ASSUME Inv, ~exited, NEW f \in Fibers, ParkOrLeave(f)
    PROVE  Inv'
<1> DEFINE l == IF m_idleFibers + 1 > g_spareFibers THEN "none" ELSE "idle"
           d == IF m_idleFibers + 1 > g_spareFibers THEN 0 ELSE 1
<1>1. /\ Typed /\ pc[f] = "top" /\ m_sem = 0 /\ locker' = None
      /\ m_idleFibers' = m_idleFibers + d /\ Goto(f, l) /\ g_spareFibers' = g_spareFibers
      /\ m_ref' = m_ref /\ m_sem' = m_sem /\ m_jobs' = m_jobs
      /\ m_urgentJobs' = m_urgentJobs
      /\ ae' = ae /\ call' = call /\ holding' = holding /\ holds' = holds
      /\ posted' = posted /\ exited' = exited
  BY DEF ParkOrLeave, Inv, Typed, queues, budget
<1>d. /\ \/ l = "none" /\ d = 0 /\ m_idleFibers + 1 > g_spareFibers
         \/ l = "idle" /\ d = 1
      /\ l \in Labels /\ d \in Int
  BY DEF Labels
<1> HIDE DEF l, d
<1>2. /\ FibersCounted("top", l) /\ pc' \in [Fibers -> Labels] /\ pc'[f] = l
      /\ \A g \in Fibers : g # f => pc'[g] = pc[g]
  BY <1>1, <1>d, Goes
<1>3. Typed'
  BY <1>1, <1>2, <1>d DEF Typed
<1>4. Running' = Running /\ Serving' = Serving /\ Waiting' = Waiting + d
  BY <1>2, <1>d, Counts DEF FibersCounted, One, InJs, Served, Parked
<1>5. InQueue' = InQueue
  BY <1>1 DEF InQueue
<1>6. /\ m_ref = InQueue' + Running' + Holding + Owing - Taking
      /\ InQueue' = m_sem' + Serving' + Posting
      /\ m_idleFibers' = Waiting'
  BY <1>1, <1>4, <1>5, <1>d, Counts
<1>7. LockOwned'
  BY <1>1, <1>2, <1>d, FibersAssumption DEF Inv, LockOwned, Locked
<1>8. JobLeft' /\ JobFound'
  BY <1>1, <1>2, <1>d DEF Inv, JobLeft, JobFound
<1>9. SpareLeft'
  <2>1. CASE l = "idle"
    <3>1. f \in At(Parked)'
      BY <1>2, <2>1 DEF At, Parked
    <3> QED
      BY <3>1 DEF SpareLeft
  <2>2. CASE l = "none" /\ m_idleFibers + 1 > g_spareFibers
    <3>1. g_spareFibers \in Nat /\ g_spareFibers # 0
      BY <1>1, SpareAssumption DEF Typed
    <3>2. Waiting > 0
      BY <2>2, <3>1, Counts
    <3>3. At(Parked) # {}
      BY <3>2, FS_EmptySet DEF Waiting
    <3>4. At(Parked) \subseteq At(Parked)'
      BY <1>1, <1>2 DEF At, Parked
    <3> QED
      BY <3>3, <3>4 DEF SpareLeft
  <2> QED
    BY <2>1, <2>2, <1>d
<1>10. \A g \in Fibers : pc[g] = "run" /\ Doing(g, "hold") => pc'[g] = "run"
  BY <1>1, <1>2
<1> QED
  BY <1>1, <1>3, <1>6, <1>7, <1>8, <1>9, <1>10, LoopInv
(* A parked fiber is given a token.                                        *)
LEMMA WakeInv ==
    ASSUME Inv, ~exited, NEW f \in Fibers, Wake(f)
    PROVE  Inv'
<1>1. /\ Typed /\ pc[f] = "idle" /\ m_sem > 0 /\ locker' = locker
      /\ m_idleFibers' = m_idleFibers /\ Goto(f, "woken") /\ g_spareFibers' = g_spareFibers
      /\ m_ref' = m_ref /\ m_sem' = m_sem - 1 /\ m_jobs' = m_jobs
      /\ m_urgentJobs' = m_urgentJobs
      /\ ae' = ae /\ call' = call /\ holding' = holding /\ holds' = holds
      /\ posted' = posted /\ exited' = exited
  BY DEF Wake, Inv, lockVars, budget
<1>2. /\ FibersCounted("idle", "woken") /\ pc' \in [Fibers -> Labels] /\ pc'[f] = "woken"
      /\ \A g \in Fibers : g # f => pc'[g] = pc[g]
  BY <1>1, Goes DEF Labels
<1>3. Typed'
  BY <1>1, <1>2 DEF Typed
<1>4. Running' = Running /\ Serving' = Serving + 1 /\ Waiting' = Waiting
  BY <1>2, Counts DEF FibersCounted, One, InJs, Served, Parked
<1>5. InQueue' = InQueue
  BY <1>1 DEF InQueue
<1>6. /\ m_ref = InQueue' + Running' + Holding + Owing - Taking
      /\ InQueue' = m_sem' + Serving' + Posting
      /\ m_idleFibers' = Waiting'
  BY <1>1, <1>4, <1>5, Counts
<1>7. LockOwned'
  BY <1>1, <1>2 DEF Inv, LockOwned, Locked
<1>8. JobLeft' /\ JobFound'
  BY <1>1, <1>2 DEF Inv, JobLeft, JobFound
<1>9. SpareLeft'
  <2>1. f \in At(Parked)'
    BY <1>2 DEF At, Parked
  <2> QED
    BY <2>1 DEF SpareLeft
<1>10. \A g \in Fibers : pc[g] = "run" /\ Doing(g, "hold") => pc'[g] = "run"
  BY <1>1, <1>2
<1> QED
  BY <1>1, <1>3, <1>6, <1>7, <1>8, <1>9, <1>10, LoopInv

(* It takes the v8 lock again.                                             *)
LEMMA RelockInv ==
    ASSUME Inv, ~exited, NEW f \in Fibers, Relock(f)
    PROVE  Inv'
<1>1. /\ Typed /\ pc[f] = "woken" /\ locker = None /\ locker' = f
      /\ m_idleFibers' = m_idleFibers - 1 /\ Goto(f, "spare")
      /\ g_spareFibers' = g_spareFibers
      /\ m_ref' = m_ref /\ m_sem' = m_sem /\ m_jobs' = m_jobs /\ m_urgentJobs' = m_urgentJobs
      /\ ae' = ae /\ call' = call /\ holding' = holding /\ holds' = holds
      /\ posted' = posted /\ exited' = exited
  BY DEF Relock, Inv, queues, budget
<1>2. /\ FibersCounted("woken", "spare") /\ pc' \in [Fibers -> Labels] /\ pc'[f] = "spare"
      /\ \A g \in Fibers : g # f => pc'[g] = pc[g]
  BY <1>1, Goes DEF Labels
<1>3. Typed'
  BY <1>1, <1>2 DEF Typed
<1>4. Running' = Running /\ Serving' = Serving /\ Waiting' = Waiting - 1
  BY <1>2, Counts DEF FibersCounted, One, InJs, Served, Parked
<1>5. InQueue' = InQueue
  BY <1>1 DEF InQueue
<1>6. /\ m_ref = InQueue' + Running' + Holding + Owing - Taking
      /\ InQueue' = m_sem' + Serving' + Posting
      /\ m_idleFibers' = Waiting'
  BY <1>1, <1>4, <1>5, Counts
<1>7. LockOwned'
  BY <1>1, <1>2, FibersAssumption DEF Inv, LockOwned, Locked
<1>8. JobLeft' /\ JobFound'
  BY <1>1, <1>2 DEF Inv, JobLeft, JobFound
<1>9. SpareLeft'
  BY <1>1, <1>2, FibersAssumption DEF SpareLeft
<1>10. \A g \in Fibers : pc[g] = "run" /\ Doing(g, "hold") => pc'[g] = "run"
  BY <1>1, <1>2
<1> QED
  BY <1>1, <1>3, <1>6, <1>7, <1>8, <1>9, <1>10, LoopInv

(* A spare fiber is there, or one is created.                               *)
LEMMA KeepSpareInv ==
    ASSUME Inv, ~exited, NEW f \in Fibers, KeepSpare(f)
    PROVE  Inv'
<1>1. /\ Typed /\ pc[f] = "spare" /\ locker' = locker /\ g_spareFibers' = g_spareFibers
      /\ m_ref' = m_ref /\ m_sem' = m_sem /\ m_jobs' = m_jobs /\ m_urgentJobs' = m_urgentJobs
      /\ ae' = ae /\ call' = call /\ holding' = holding /\ holds' = holds
      /\ posted' = posted /\ exited' = exited
  BY DEF KeepSpare, Inv, queues, budget
<1>5. InQueue' = InQueue
  BY <1>1 DEF InQueue
<1>a. locker = f
  BY <1>1 DEF Inv, LockOwned, Locked
<1>2. CASE m_idleFibers = 0
  <2>1. PICK n \in Fibers :
            pc[n] = "none" /\ pc' = [pc EXCEPT ![f] = "urgent", ![n] = "enter"]
    BY <1>2 DEF KeepSpare
  <2>2. m_idleFibers' = m_idleFibers + 1
    BY <1>2 DEF KeepSpare
  <2>3. /\ pc' \in [Fibers -> Labels] /\ pc'[f] = "urgent" /\ pc'[n] = "enter" /\ n # f
        /\ \A g \in Fibers : g # f /\ g # n => pc'[g] = pc[g]
    BY <1>1, <2>1 DEF Typed, Labels
  <2>4. Typed'
    BY <1>1, <2>2, <2>3 DEF Typed
  <2>5. /\ At(InJs)' = At(InJs) /\ At(Served)' = At(Served)
        /\ n \notin At(Parked) /\ At(Parked)' = At(Parked) \cup {n}
    BY <1>1, <2>1, <2>3 DEF At, InJs, Served, Parked
  <2>6. Running' = Running /\ Serving' = Serving
    BY <2>5 DEF Running, Serving
  <2>7. Waiting' = Waiting + 1
    <3>1. At(Parked) \subseteq Fibers
      BY DEF At
    <3>2. IsFiniteSet(At(Parked))
      BY <3>1, FibersAssumption, FS_Subset
    <3> QED
      BY <3>2, <2>5, FS_AddElement DEF Waiting
  <2>8. /\ m_ref = InQueue' + Running' + Holding + Owing - Taking
        /\ InQueue' = m_sem' + Serving' + Posting
        /\ m_idleFibers' = Waiting'
    BY <1>1, <2>2, <2>6, <2>7, <1>5, Counts
  <2>9. LockOwned'
    BY <1>1, <1>a, <2>1, <2>3 DEF Inv, LockOwned, Locked
  <2>10. JobLeft' /\ JobFound'
    BY <1>1, <2>1, <2>3 DEF Inv, JobLeft, JobFound
  <2>11. SpareLeft'
    BY <2>5 DEF SpareLeft
  <2>12. \A g \in Fibers : pc[g] = "run" /\ Doing(g, "hold") => pc'[g] = "run"
    BY <1>1, <2>1, <2>3
  <2> QED
    BY <1>1, <2>4, <2>8, <2>9, <2>10, <2>11, <2>12, LoopInv
<1>3. CASE m_idleFibers # 0
  <2>1. m_idleFibers' = m_idleFibers /\ Goto(f, "urgent")
    BY <1>3 DEF KeepSpare
  <2>2. /\ FibersCounted("spare", "urgent") /\ pc' \in [Fibers -> Labels]
        /\ pc'[f] = "urgent" /\ \A g \in Fibers : g # f => pc'[g] = pc[g]
    BY <1>1, <2>1, Goes DEF Labels
  <2>4. Typed'
    BY <1>1, <2>1, <2>2 DEF Typed
  <2>6. Running' = Running /\ Serving' = Serving /\ Waiting' = Waiting
    BY <2>2, Counts DEF FibersCounted, One, InJs, Served, Parked
  <2>8. /\ m_ref = InQueue' + Running' + Holding + Owing - Taking
        /\ InQueue' = m_sem' + Serving' + Posting
        /\ m_idleFibers' = Waiting'
    BY <1>1, <2>1, <2>6, <1>5, Counts
  <2>9. LockOwned'
    BY <1>1, <1>a, <2>2 DEF Inv, LockOwned, Locked
  <2>10. JobLeft' /\ JobFound'
    BY <1>1, <2>2 DEF Inv, JobLeft, JobFound
  <2>11. SpareLeft'
    <3>1. Waiting' # 0
      BY <2>6, <1>3, Counts
    <3>2. At(Parked)' # {}
      BY <3>1, FS_EmptySet DEF Waiting
    <3> QED
      BY <3>2 DEF SpareLeft
  <2>12. \A g \in Fibers : pc[g] = "run" /\ Doing(g, "hold") => pc'[g] = "run"
    BY <1>1, <2>2
  <2> QED
    BY <1>1, <2>4, <2>8, <2>9, <2>10, <2>11, <2>12, LoopInv
<1> QED
  BY <1>2, <1>3

(* The first job of a queue that is not empty.                              *)
LEMMA Dequeuing ==
    ASSUME NEW q \in Seq(AllJobs), q # << >>
    PROVE  /\ Head(q) \in AllJobs /\ Head(q) # None
           /\ Tail(q) \in Seq(AllJobs) /\ Len(Tail(q)) = Len(q) - 1 /\ Len(q) \in Nat
<1>1. /\ Head(q) \in AllJobs
      /\ Tail(q) \in Seq(AllJobs) /\ Len(Tail(q)) = Len(q) - 1 /\ Len(q) \in Nat
  BY HeadTailProperties, LenProperties
<1> QED
  BY <1>1, JobsAssumption, DistinctJobs DEF AllJobs
(* The tests of getHead(): a fiber that has a token finds a job in one of   *)
(* the two queues.                                                         *)
LEMMA TakeUrgentInv ==
    ASSUME Inv, ~exited, NEW f \in Fibers, TakeUrgent(f)
    PROVE  Inv'
<1>1. /\ Typed /\ pc[f] = "urgent" /\ locker' = locker /\ g_spareFibers' = g_spareFibers
      /\ m_idleFibers' = m_idleFibers
      /\ m_ref' = m_ref /\ m_sem' = m_sem /\ m_jobs' = m_jobs
      /\ call' = call /\ holding' = holding /\ holds' = holds
      /\ posted' = posted /\ exited' = exited
  BY DEF TakeUrgent, Inv, lockVars, budget
<1>a. locker = f /\ At(Parked) # {}
  BY <1>1 DEF Inv, LockOwned, Locked, SpareLeft
<1>q. m_jobs \in Seq(AllJobs) /\ m_urgentJobs \in Seq(AllJobs)
  BY <1>1 DEF Typed
<1>2. CASE m_urgentJobs = << >>
  <2>1. ae' = ae /\ m_urgentJobs' = m_urgentJobs /\ Goto(f, "normal")
    BY <1>2 DEF TakeUrgent
  <2>2. /\ FibersCounted("urgent", "normal") /\ pc' \in [Fibers -> Labels]
        /\ pc'[f] = "normal" /\ \A g \in Fibers : g # f => pc'[g] = pc[g]
    BY <1>1, <2>1, Goes DEF Labels
  <2>4. Typed'
    BY <1>1, <2>1, <2>2 DEF Typed
  <2>5. InQueue' = InQueue
    BY <1>1, <2>1 DEF InQueue
  <2>6. Running' = Running /\ Serving' = Serving /\ Waiting' = Waiting
    BY <2>2, Counts DEF FibersCounted, One, InJs, Served, Parked
  <2>8. /\ m_ref = InQueue' + Running' + Holding + Owing - Taking
        /\ InQueue' = m_sem' + Serving' + Posting
        /\ m_idleFibers' = Waiting'
    BY <1>1, <2>1, <2>6, <2>5, Counts
  <2>9. LockOwned'
    BY <1>1, <1>a, <2>2 DEF Inv, LockOwned, Locked
  <2>10. JobFound'
    BY <1>1, <2>1, <2>2 DEF Inv, JobFound
  <2>11. m_jobs # << >>
    <3>1. f \in At(Served) /\ At(Served) \subseteq Fibers
      BY <1>1 DEF At, Served
    <3>2. Serving # 0
      <4>1. IsFiniteSet(At(Served))
        BY <3>1, FibersAssumption, FS_Subset
      <4> QED
        BY <3>1, <4>1, FS_EmptySet DEF Serving
    <3>3. InQueue > 0
      BY <3>2, Counts
    <3>4. Len(m_urgentJobs) = 0 /\ Len(m_jobs) \in Nat
      BY <1>2, <1>q, LenProperties, EmptySeq
    <3> QED
      BY <3>3, <3>4, EmptySeq DEF InQueue
  <2>12. JobLeft'
    BY <2>11, <1>1 DEF JobLeft
  <2>13. SpareLeft'
    <3>1. At(Parked)' = At(Parked)
      BY <1>1, <2>2 DEF At, Parked
    <3> QED
      BY <1>a, <3>1 DEF SpareLeft
  <2>14. \A g \in Fibers : pc[g] = "run" /\ Doing(g, "hold") => pc'[g] = "run"
    BY <1>1, <2>2
  <2> QED
    BY <1>1, <2>4, <2>8, <2>9, <2>10, <2>12, <2>13, <2>14, LoopInv
<1>3. CASE m_urgentJobs # << >>
  <2>1. /\ ae' = [ae EXCEPT ![f] = Head(m_urgentJobs)] /\ m_urgentJobs' = Tail(m_urgentJobs)
        /\ Goto(f, "run")
    BY <1>3 DEF TakeUrgent
  <2>2. /\ FibersCounted("urgent", "run") /\ pc' \in [Fibers -> Labels]
        /\ pc'[f] = "run" /\ \A g \in Fibers : g # f => pc'[g] = pc[g]
    BY <1>1, <2>1, Goes DEF Labels
  <2>3. /\ Head(m_urgentJobs) \in AllJobs /\ Head(m_urgentJobs) # None
        /\ m_urgentJobs' \in Seq(AllJobs) /\ Len(m_urgentJobs') = Len(m_urgentJobs) - 1
        /\ Len(m_urgentJobs) \in Nat
    BY <2>1, <1>3, <1>q, Dequeuing
  <2>a. /\ ae' \in [Fibers -> AllJobs \cup {None}] /\ ae'[f] # None
        /\ \A g \in Fibers : g # f => ae'[g] = ae[g]
    BY <1>1, <2>1, <2>3 DEF Typed
  <2>4. Typed'
    BY <1>1, <2>a, <2>2, <2>3 DEF Typed
  <2>5. InQueue' = InQueue - 1
    BY <1>1, <1>q, <2>3 DEF InQueue
  <2>6. Running' = Running + 1 /\ Serving' = Serving - 1 /\ Waiting' = Waiting
    BY <2>2, Counts DEF FibersCounted, One, InJs, Served, Parked
  <2>7. m_sem' = m_sem /\ m_idleFibers' = m_idleFibers
    BY <1>1
  <2>8. /\ m_ref = InQueue' + Running' + Holding + Owing - Taking
        /\ InQueue' = m_sem' + Serving' + Posting
        /\ m_idleFibers' = Waiting'
    BY <2>7, <2>6, <2>5, Counts
  <2>9. LockOwned'
    BY <1>1, <1>a, <2>2 DEF Inv, LockOwned, Locked
  <2>10. JobFound' /\ JobLeft'
    BY <1>1, <2>a, <2>2 DEF Inv, JobFound, JobLeft
  <2>13. SpareLeft'
    <3>1. At(Parked)' = At(Parked)
      BY <1>1, <2>2 DEF At, Parked
    <3> QED
      BY <1>a, <3>1 DEF SpareLeft
  <2>14. \A g \in Fibers : pc[g] = "run" /\ Doing(g, "hold") => pc'[g] = "run"
    BY <1>1, <2>2
  <2> QED
    BY <1>1, <2>4, <2>8, <2>9, <2>10, <2>13, <2>14, LoopInv
<1> QED
  BY <1>2, <1>3

(* It takes a job that is not urgent.                                      *)
LEMMA TakeNormalInv ==
    ASSUME Inv, ~exited, NEW f \in Fibers, TakeNormal(f)
    PROVE  Inv'
<1>1. /\ Typed /\ pc[f] = "normal" /\ locker' = locker /\ g_spareFibers' = g_spareFibers
      /\ m_idleFibers' = m_idleFibers /\ Goto(f, "run")
      /\ m_ref' = m_ref /\ m_sem' = m_sem /\ m_urgentJobs' = m_urgentJobs
      /\ call' = call /\ holding' = holding /\ holds' = holds
      /\ posted' = posted /\ exited' = exited
  BY DEF TakeNormal, Inv, lockVars, budget
<1>a. locker = f /\ At(Parked) # {} /\ m_jobs # << >>
  BY <1>1 DEF Inv, LockOwned, Locked, SpareLeft, JobLeft
<1>q. m_jobs \in Seq(AllJobs) /\ m_urgentJobs \in Seq(AllJobs)
  BY <1>1 DEF Typed
<1>2. /\ ae' = [ae EXCEPT ![f] = Head(m_jobs)] /\ m_jobs' = Tail(m_jobs)
  BY <1>a DEF TakeNormal
<1>3. /\ FibersCounted("normal", "run") /\ pc' \in [Fibers -> Labels]
      /\ pc'[f] = "run" /\ \A g \in Fibers : g # f => pc'[g] = pc[g]
  BY <1>1, Goes DEF Labels
<1>4. /\ Head(m_jobs) \in AllJobs /\ Head(m_jobs) # None
      /\ m_jobs' \in Seq(AllJobs) /\ Len(m_jobs') = Len(m_jobs) - 1 /\ Len(m_jobs) \in Nat
  BY <1>2, <1>a, <1>q, Dequeuing
<1>b. /\ ae' \in [Fibers -> AllJobs \cup {None}] /\ ae'[f] # None
      /\ \A g \in Fibers : g # f => ae'[g] = ae[g]
  BY <1>1, <1>2, <1>4 DEF Typed
<1>5. Typed'
  BY <1>1, <1>b, <1>3, <1>4 DEF Typed
<1>6. InQueue' = InQueue - 1
  BY <1>1, <1>q, <1>4 DEF InQueue
<1>7. Running' = Running + 1 /\ Serving' = Serving - 1 /\ Waiting' = Waiting
  BY <1>3, Counts DEF FibersCounted, One, InJs, Served, Parked
<1>8. m_sem' = m_sem /\ m_idleFibers' = m_idleFibers
  BY <1>1
<1>9. /\ m_ref = InQueue' + Running' + Holding + Owing - Taking
      /\ InQueue' = m_sem' + Serving' + Posting
      /\ m_idleFibers' = Waiting'
  BY <1>8, <1>7, <1>6, Counts
<1>10. LockOwned'
  BY <1>1, <1>a, <1>3 DEF Inv, LockOwned, Locked
<1>11. JobFound'
  BY <1>1, <1>b, <1>3 DEF Inv, JobFound
<1>12. JobLeft'
  BY <1>1, <1>a, <1>3, <1>10 DEF JobLeft, LockOwned, Locked
<1>13. SpareLeft'
  <2>1. At(Parked)' = At(Parked)
    BY <1>1, <1>3 DEF At, Parked
  <2> QED
    BY <1>a, <2>1 DEF SpareLeft
<1>14. \A g \in Fibers : pc[g] = "run" /\ Doing(g, "hold") => pc'[g] = "run"
  BY <1>1, <1>3
<1> QED
  BY <1>1, <1>5, <1>9, <1>10, <1>11, <1>12, <1>13, <1>14, LoopInv

(* A job blocks, and resumes.                                               *)
LEMMA BlockInv ==
    ASSUME Inv, ~exited, NEW f \in Fibers, Block(f)
    PROVE  Inv'
<1>1. /\ Typed /\ pc[f] = "run" /\ locker = f /\ locker' = None /\ Idle(f)
      /\ m_idleFibers' = m_idleFibers /\ Goto(f, "blocked") /\ g_spareFibers' = g_spareFibers
      /\ m_ref' = m_ref /\ m_sem' = m_sem /\ m_jobs' = m_jobs
      /\ m_urgentJobs' = m_urgentJobs
      /\ ae' = ae /\ call' = call /\ holding' = holding /\ holds' = holds
      /\ posted' = posted /\ exited' = exited
  BY DEF Block, InJob, Inv, queues, budget
<1>2. /\ FibersCounted("run", "blocked") /\ pc' \in [Fibers -> Labels] /\ pc'[f] = "blocked"
      /\ \A g \in Fibers : g # f => pc'[g] = pc[g]
  BY <1>1, Goes DEF Labels
<1>3. Typed'
  BY <1>1, <1>2 DEF Typed
<1>4. Running' = Running /\ Serving' = Serving /\ Waiting' = Waiting
  BY <1>2, Counts DEF FibersCounted, One, InJs, Served, Parked
<1>5. InQueue' = InQueue
  BY <1>1 DEF InQueue
<1>6. /\ m_ref = InQueue' + Running' + Holding + Owing - Taking
      /\ InQueue' = m_sem' + Serving' + Posting
      /\ m_idleFibers' = Waiting'
  BY <1>1, <1>4, <1>5, Counts
<1>7. LockOwned'
  BY <1>1, <1>2, FibersAssumption DEF Inv, LockOwned, Locked
<1>8. JobLeft' /\ JobFound'
  BY <1>1, <1>2 DEF Inv, JobLeft, JobFound
<1>9. SpareLeft'
  <2>1. At(Parked)' = At(Parked)
    BY <1>1, <1>2 DEF At, Parked
  <2>2. At(Parked) # {}
    BY <1>1 DEF Inv, SpareLeft
  <2> QED
    BY <2>1, <2>2 DEF SpareLeft
<1>10. \A g \in Fibers : pc[g] = "run" /\ Doing(g, "hold") => pc'[g] = "run"
  BY <1>1, <1>2 DEF Idle, Doing
<1> QED
  BY <1>1, <1>3, <1>6, <1>7, <1>8, <1>9, <1>10, LoopInv

(* A fiber that blocked in a job has the v8 lock again.                    *)
LEMMA ResumeInv ==
    ASSUME Inv, ~exited, NEW f \in Fibers, Resume(f)
    PROVE  Inv'
<1>1. /\ Typed /\ pc[f] = "blocked" /\ locker = None /\ locker' = f
      /\ m_idleFibers' = m_idleFibers /\ Goto(f, "run") /\ g_spareFibers' = g_spareFibers
      /\ m_ref' = m_ref /\ m_sem' = m_sem /\ m_jobs' = m_jobs
      /\ m_urgentJobs' = m_urgentJobs
      /\ ae' = ae /\ call' = call /\ holding' = holding /\ holds' = holds
      /\ posted' = posted /\ exited' = exited
  BY DEF Resume, Inv, queues, budget
<1>2. /\ FibersCounted("blocked", "run") /\ pc' \in [Fibers -> Labels] /\ pc'[f] = "run"
      /\ \A g \in Fibers : g # f => pc'[g] = pc[g]
  BY <1>1, Goes DEF Labels
<1>3. Typed'
  BY <1>1, <1>2 DEF Typed
<1>4. Running' = Running /\ Serving' = Serving /\ Waiting' = Waiting
  BY <1>2, Counts DEF FibersCounted, One, InJs, Served, Parked
<1>5. InQueue' = InQueue
  BY <1>1 DEF InQueue
<1>6. /\ m_ref = InQueue' + Running' + Holding + Owing - Taking
      /\ InQueue' = m_sem' + Serving' + Posting
      /\ m_idleFibers' = Waiting'
  BY <1>1, <1>4, <1>5, Counts
<1>7. LockOwned'
  BY <1>1, <1>2, FibersAssumption DEF Inv, LockOwned, Locked
<1>8. JobLeft' /\ JobFound'
  BY <1>1, <1>2 DEF Inv, JobLeft, JobFound
<1>9. SpareLeft'
  <2>1. At(Parked)' = At(Parked)
    BY <1>1, <1>2 DEF At, Parked
  <2>2. At(Parked) # {}
    BY <1>1 DEF Inv, SpareLeft
  <2> QED
    BY <2>1, <2>2 DEF SpareLeft
<1>10. \A g \in Fibers : pc[g] = "run" /\ Doing(g, "hold") => pc'[g] = "run"
  BY <1>1, <1>2
<1> QED
  BY <1>1, <1>3, <1>6, <1>7, <1>8, <1>9, <1>10, LoopInv

(* After a job the loop begins anew.                                       *)
LEMMA AgainInv ==
    ASSUME Inv, ~exited, NEW f \in Fibers, Again(f)
    PROVE  Inv'
<1>1. /\ Typed /\ pc[f] = "done" /\ locker' = locker
      /\ m_idleFibers' = m_idleFibers /\ Goto(f, "top") /\ g_spareFibers' = g_spareFibers
      /\ m_ref' = m_ref /\ m_sem' = m_sem /\ m_jobs' = m_jobs
      /\ m_urgentJobs' = m_urgentJobs
      /\ ae' = ae /\ call' = call /\ holding' = holding /\ holds' = holds
      /\ posted' = posted /\ exited' = exited
  BY DEF Again, Inv, lockVars, queues, budget
<1>2. /\ FibersCounted("done", "top") /\ pc' \in [Fibers -> Labels] /\ pc'[f] = "top"
      /\ \A g \in Fibers : g # f => pc'[g] = pc[g]
  BY <1>1, Goes DEF Labels
<1>3. Typed'
  BY <1>1, <1>2 DEF Typed
<1>4. Running' = Running /\ Serving' = Serving /\ Waiting' = Waiting
  BY <1>2, Counts DEF FibersCounted, One, InJs, Served, Parked
<1>5. InQueue' = InQueue
  BY <1>1 DEF InQueue
<1>6. /\ m_ref = InQueue' + Running' + Holding + Owing - Taking
      /\ InQueue' = m_sem' + Serving' + Posting
      /\ m_idleFibers' = Waiting'
  BY <1>1, <1>4, <1>5, Counts
<1>7. LockOwned' /\ locker = f
  BY <1>1, <1>2, FibersAssumption DEF Inv, LockOwned, Locked
<1>8. JobLeft' /\ JobFound'
  BY <1>1, <1>2 DEF Inv, JobLeft, JobFound
<1>9. SpareLeft'
  BY <1>1, <1>2, <1>7, FibersAssumption DEF SpareLeft
<1>10. \A g \in Fibers : pc[g] = "run" /\ Doing(g, "hold") => pc'[g] = "run"
  BY <1>1, <1>2
<1> QED
  BY <1>1, <1>3, <1>6, <1>7, <1>8, <1>9, <1>10, LoopInv
(* Only the job that has the lock can be taking a hold.                     *)
LEMMA NoneTaking ==
    ASSUME Inv, NEW f \in Fibers, InJob(f), Idle(f)
    PROVE  Taking = 0
<1>1. ASSUME NEW a \in Agents, Doing(a, "hold")
      PROVE  FALSE
  <2>1. a \in Fibers /\ pc[a] = "run"
    BY <1>1 DEF Inv, HoldInJs
  <2>2. locker = a /\ locker = f
    BY <2>1 DEF Inv, LockOwned, Locked, InJob
  <2> QED
    BY <2>2, <1>1 DEF Idle, Doing
<1>2. Calling({"hold"}) = {}
  BY <1>1 DEF Calling
<1> QED
  BY <1>2, FS_EmptySet DEF Taking

(* The exit job that finds m_ref = 1 finds its own reference.               *)
LEMMA ExitInv ==
    ASSUME Inv, ~exited, NEW f \in Fibers, InJob(f), Idle(f), ae[f] = Exit, m_ref = 1,
           exited' = TRUE, UNCHANGED <<pc, ae, call>>,
           UNCHANGED <<m_ref, queues, lockVars, holding, budget>>
    PROVE  Inv'
<1>1. /\ Typed /\ pc[f] = "run" /\ locker = f
      /\ m_ref' = m_ref /\ m_sem' = m_sem /\ m_jobs' = m_jobs /\ m_urgentJobs' = m_urgentJobs
      /\ m_idleFibers' = m_idleFibers /\ locker' = locker /\ g_spareFibers' = g_spareFibers
      /\ pc' = pc /\ ae' = ae /\ call' = call
      /\ holding' = holding /\ holds' = holds /\ posted' = posted
  BY DEF Inv, InJob, queues, lockVars, budget
<1>2. f \in At(InJs) /\ At(InJs) \subseteq Fibers /\ IsFiniteSet(At(InJs))
  <2>1. f \in At(InJs) /\ At(InJs) \subseteq Fibers
    BY <1>1 DEF At, InJs
  <2> QED
    BY <2>1, FibersAssumption, FS_Subset
<1>3. Running # 0
  BY <1>2, FS_EmptySet DEF Running
<1>4. Running = 1 /\ InQueue = 0 /\ Holding = 0 /\ Owing = 0
  BY <1>3, NoneTaking, Counts
<1>5. At(InJs) = {f}
  BY <1>2, <1>4, FS_Singleton DEF Running
<1>6. m_jobs = << >> /\ m_urgentJobs = << >>
  <2>1. m_jobs \in Seq(AllJobs) /\ m_urgentJobs \in Seq(AllJobs)
    BY <1>1 DEF Typed
  <2>2. Len(m_jobs) \in Nat /\ Len(m_urgentJobs) \in Nat
    BY <2>1, LenProperties
  <2>3. Len(m_jobs) = 0 /\ Len(m_urgentJobs) = 0
    BY <2>2, <1>4 DEF InQueue
  <2> QED
    BY <2>1, <2>3, EmptySeq
<1>7. holding = {}
  BY <1>1, <1>4, FS_EmptySet DEF Typed, Holding
<1>8. Calling({"unref", "put"}) = {}
  <2>1. Calling({"unref", "put"}) \subseteq Agents
    BY DEF Calling
  <2>2. IsFiniteSet(Calling({"unref", "put"}))
    BY <2>1, AgentsAreFinite, FS_Subset
  <2> QED
    BY <2>2, <1>4, FS_EmptySet DEF Owing
<1>9. \A a \in Agents : ~Doing(a, "put") /\ ~Doing(a, "unref")
  BY <1>8 DEF Calling
<1>10. ExitClean'
  <2>1. At({"run", "blocked"})' = {locker'} /\ ae'[locker'] = Exit
    BY <1>1, <1>5 DEF At, InJs
  <2>2. \A a \in Agents : ~Doing(a, "put")' /\ ~Doing(a, "unref")'
    BY <1>1, <1>9 DEF Doing
  <2> QED
    BY <2>1, <2>2, <1>1, <1>6, <1>7 DEF ExitClean
<1>11. Typed'
  BY <1>1 DEF Typed
<1>12. LockOwned' /\ HoldInJs' /\ JobLeft' /\ JobFound'
  BY <1>1 DEF Inv, LockOwned, HoldInJs, JobLeft, JobFound, Doing
<1>13. RefCounted' /\ Tokens' /\ IdleCounted' /\ SpareLeft'
  BY <1>1 DEF Inv, RefCounted, Tokens, IdleCounted, SpareLeft, InQueue, Running, Serving,
              Waiting, Owing, Taking, Posting, Holding, At, Calling, Doing
<1> QED
  BY <1>10, <1>11, <1>12, <1>13 DEF Inv

(* Any other job returns: its reference passes to the Unref() that begins.  *)
LEMMA ReturnInv ==
    ASSUME Inv, ~exited, NEW f \in Fibers, InJob(f), Idle(f), Return(f),
           UNCHANGED <<m_ref, queues, lockVars, holding, budget>>
    PROVE  Inv'
<1>1. /\ Typed /\ pc[f] = "run" /\ locker = f
      /\ m_ref' = m_ref /\ m_sem' = m_sem /\ m_jobs' = m_jobs /\ m_urgentJobs' = m_urgentJobs
      /\ m_idleFibers' = m_idleFibers /\ locker' = locker /\ g_spareFibers' = g_spareFibers
      /\ Goto(f, "done") /\ ae' = [ae EXCEPT ![f] = None] /\ Become(f, <<"unref">>)
      /\ holding' = holding /\ holds' = holds /\ posted' = posted /\ exited' = exited
  BY DEF Inv, InJob, queues, lockVars, budget, Return
<1>2. /\ FibersCounted("run", "done") /\ pc' \in [Fibers -> Labels] /\ pc'[f] = "done"
      /\ \A g \in Fibers : g # f => pc'[g] = pc[g]
  BY <1>1, Goes DEF Labels
<1>a. f \in Agents
  BY DEF Agents
<1>3. What(call[f]) = "idle"
  BY <1>1, <1>a, DoingWhat DEF Typed
<1>4. /\ CallsCounted("idle", "unref") /\ call' \in [Agents -> Calls]
      /\ ~Doing(f, "hold")'
      /\ \A b \in Agents : b # f => (Doing(b, "hold")' <=> Doing(b, "hold"))
  <2>1. What(<<"unref">>) = "unref" /\ <<"unref">> \in Calls
    BY CallKinds
  <2> QED
    BY <1>1, <1>3, <1>a, <2>1, Becomes DEF Typed
<1>5. /\ ae' \in [Fibers -> AllJobs \cup {None}]
      /\ \A g \in Fibers : g # f => ae'[g] = ae[g]
  BY <1>1 DEF Typed
<1>6. Typed'
  BY <1>1, <1>2, <1>4, <1>5 DEF Typed
<1>7. Running' = Running - 1 /\ Serving' = Serving /\ Waiting' = Waiting
  BY <1>2, Counts DEF FibersCounted, One, InJs, Served, Parked
<1>8. Owing' = Owing + 1 /\ Taking' = Taking /\ Posting' = Posting
  BY <1>4, Counts DEF CallsCounted, One
<1>9. InQueue' = InQueue /\ Holding' = Holding
  BY <1>1 DEF InQueue, Holding
<1>10. RefCounted' /\ Tokens' /\ IdleCounted'
  BY <1>1, <1>7, <1>8, <1>9, Counts DEF RefCounted, Tokens, IdleCounted
<1>11. LockOwned'
  BY <1>1, <1>2 DEF Inv, LockOwned, Locked
<1>12. HoldInJs'
  BY <1>1, <1>2, <1>4 DEF Inv, HoldInJs
<1>13. JobLeft' /\ JobFound'
  BY <1>1, <1>2, <1>5 DEF Inv, JobLeft, JobFound
<1>14. SpareLeft'
  BY <1>1, <1>2, FibersAssumption DEF SpareLeft
<1>15. ExitClean'
  BY <1>1 DEF ExitClean
<1> QED
  BY <1>6, <1>10, <1>11, <1>12, <1>13, <1>14, <1>15 DEF Inv

(* A job is over and its reference is dropped.                             *)
LEMMA FinishInv ==
    ASSUME Inv, ~exited, NEW f \in Fibers, Finish(f)
    PROVE  Inv'
<1>1. /\ InJob(f) /\ Idle(f) /\ UNCHANGED <<m_ref, queues, lockVars, holding, budget>>
      /\ \/ ae[f] = Exit /\ m_ref = 1 /\ exited' = TRUE /\ UNCHANGED <<pc, ae, call>>
         \/ Return(f)
  BY DEF Finish
<1> QED
  BY <1>1, ExitInv, ReturnInv

(* A step that leaves alone everything the invariant counts.                *)
LEMMA QuietInv ==
    ASSUME Inv, ~exited, UNCHANGED <<m_ref, queues, m_idleFibers, locker, pc, ae, call,
                                      holding, budget, exited>>,
           g_spareFibers' \in SpareValues
    PROVE  Inv'
<1>1. /\ m_ref' = m_ref /\ m_sem' = m_sem /\ m_jobs' = m_jobs /\ m_urgentJobs' = m_urgentJobs
      /\ m_idleFibers' = m_idleFibers /\ locker' = locker
      /\ pc' = pc /\ ae' = ae /\ call' = call /\ exited' = exited
      /\ holding' = holding /\ holds' = holds /\ posted' = posted
  BY DEF queues, budget
<1>2. Typed'
  BY <1>1 DEF Inv, Typed
<1>3. LockOwned' /\ HoldInJs' /\ JobLeft' /\ JobFound' /\ ExitClean'
  BY <1>1 DEF Inv, LockOwned, HoldInJs, JobLeft, JobFound, ExitClean, Doing
<1>4. RefCounted' /\ Tokens' /\ IdleCounted' /\ SpareLeft'
  BY <1>1 DEF Inv, RefCounted, Tokens, IdleCounted, SpareLeft, InQueue, Running, Serving,
              Waiting, Owing, Taking, Posting, Holding, At, Calling, Doing
<1> QED
  BY <1>2, <1>3, <1>4 DEF Inv

(* A step that changes nothing.                                            *)
LEMMA StutterInv ==
    ASSUME Inv, UNCHANGED vars
    PROVE  Inv'
<1>1. /\ m_ref' = m_ref /\ m_sem' = m_sem /\ m_jobs' = m_jobs /\ m_urgentJobs' = m_urgentJobs
      /\ m_idleFibers' = m_idleFibers /\ locker' = locker /\ g_spareFibers' = g_spareFibers
      /\ pc' = pc /\ ae' = ae /\ call' = call /\ exited' = exited
      /\ holding' = holding /\ holds' = holds /\ posted' = posted
  BY DEF vars, queues, lockVars, budget
<1>2. Typed'
  BY <1>1 DEF Inv, Typed
<1>3. LockOwned' /\ HoldInJs' /\ JobLeft' /\ JobFound'
  BY <1>1 DEF Inv, LockOwned, HoldInJs, JobLeft, JobFound, Doing
<1>4. RefCounted' /\ Tokens' /\ IdleCounted' /\ SpareLeft'
  BY <1>1 DEF Inv, RefCounted, Tokens, IdleCounted, SpareLeft, InQueue, Running, Serving,
              Waiting, Owing, Taking, Posting, Holding, At, Calling, Doing
<1>5. ExitClean'
  BY <1>1 DEF Inv, ExitClean, At, Doing
<1> QED
  BY <1>2, <1>3, <1>4, <1>5 DEF Inv

(* The first fiber is there, with the main job.                            *)
LEMMA InitInv == Init => Inv
<1> SUFFICES ASSUME Init PROVE Inv
  OBVIOUS
<1>1. PICK first \in Fibers : pc = [f \in Fibers |-> IF f = first THEN "enter" ELSE "none"]
  BY DEF Init
<1>2. Typed
  <2>1. IsFiniteSet({}) /\ <<Main>> \in Seq(AllJobs) /\ << >> \in Seq(AllJobs)
    BY FS_EmptySet DEF AllJobs
  <2>2. pc \in [Fibers -> Labels]
    BY <1>1 DEF Labels
  <2>3. call \in [Agents -> Calls]
    BY CallKinds DEF Init
  <2>4. holds \in 0..MaxHolds
    BY BoundsAssumption DEF Init
  <2>5. /\ m_ref = 1 /\ m_sem = 1 /\ m_idleFibers = 1 /\ m_jobs = <<Main>>
        /\ m_urgentJobs = << >> /\ locker = None /\ g_spareFibers \in SpareValues
        /\ holding = {} /\ posted = {} /\ exited = FALSE
        /\ ae = [f \in Fibers |-> None]
    BY DEF Init
  <2>6. ae \in [Fibers -> AllJobs \cup {None}]
    BY <2>5
  <2>7. /\ m_ref \in Int /\ m_sem \in Nat /\ m_idleFibers \in Int
    BY <2>5
  <2>8. locker \in Fibers \cup {None} /\ exited \in BOOLEAN
    BY <2>5
  <2>9. holding \subseteq Objects /\ posted \subseteq Jobs
    BY <2>5
  <2> QED
    BY <2>1, <2>2, <2>3, <2>4, <2>5, <2>6, <2>7, <2>8, <2>9, Zenon DEF Typed
<1>3. /\ At(InJs) = {} /\ At(Served) = {} /\ At(Parked) = {first}
  BY <1>1 DEF At, InJs, Served, Parked
<1>4. ASSUME NEW W PROVE Calling(W) = {}
  BY DEF Init, Calling, Doing
<1>5. /\ Running = 0 /\ Serving = 0 /\ Waiting = 1
      /\ Owing = 0 /\ Taking = 0 /\ Posting = 0 /\ Holding = 0
  BY <1>3, <1>4, FS_EmptySet, FS_Singleton
     DEF Running, Serving, Waiting, Owing, Taking, Posting, Holding, Init
<1>6. InQueue = 1
  BY DEF InQueue, Init
<1>7. RefCounted /\ Tokens /\ IdleCounted
  BY <1>5, <1>6 DEF RefCounted, Tokens, IdleCounted, Init
<1>8. LockOwned
  BY <1>1, FibersAssumption DEF Init, LockOwned, Locked
<1>9. HoldInJs
  BY DEF Init, HoldInJs, Doing
<1>10. JobLeft /\ JobFound
  BY <1>1 DEF JobLeft, JobFound
<1>11. SpareLeft /\ ExitClean
  BY <1>3 DEF SpareLeft, ExitClean, Init
<1> QED
  BY <1>2, <1>7, <1>8, <1>9, <1>10, <1>11 DEF Inv

(* Every step keeps the invariant.                                         *)
LEMMA NextInv == Inv /\ [Next]_vars => Inv'
<1> SUFFICES ASSUME Inv, [Next]_vars PROVE Inv'
  OBVIOUS
<1>1. CASE UNCHANGED vars
  BY <1>1, StutterInv
<1>2. CASE Next
  <2>1. ~exited
    BY <1>2 DEF Next
  <2>2. ASSUME NEW a \in Agents, CallStep(a)
        PROVE  Inv'
    BY <2>1, <2>2, PostRefInv, PostPutInv, PostSemInv, HoldRefInv, UnrefInv DEF CallStep
  <2>3. ASSUME NEW a \in Agents, NEW j \in Jobs, NEW urgent \in BOOLEAN, Post(a, j, urgent)
        PROVE  Inv'
    BY <2>1, <2>3, PostInv
  <2>4. ASSUME NEW a \in Agents, NEW o \in Objects, isolate_unref(a, o)
        PROVE  Inv'
    BY <2>1, <2>4, isolate_unrefInv
  <2>5. ASSUME NEW f \in Fibers, LoopStep(f)
        PROVE  Inv'
    BY <2>1, <2>5, EnterInv, TryWaitInv, ParkOrLeaveInv, WakeInv, RelockInv, KeepSpareInv,
       TakeUrgentInv, TakeNormalInv, AgainInv DEF LoopStep
  <2>6. ASSUME NEW f \in Fibers, Block(f) \/ Resume(f) \/ Finish(f)
        PROVE  Inv'
    BY <2>1, <2>6, BlockInv, ResumeInv, FinishInv
  <2>7. ASSUME NEW f \in Fibers, NEW o \in Objects, isolate_ref(f, o)
        PROVE  Inv'
    BY <2>1, <2>7, isolate_refInv
  <2>8. ASSUME NEW f \in Fibers, NEW n \in SpareValues, set_spareFibers(f, n)
        PROVE  Inv'
    BY <2>1, <2>8, QuietInv DEF set_spareFibers
  <2> QED
    BY <1>2, <2>2, <2>3, <2>4, <2>5, <2>6, <2>7, <2>8 DEF Next
<1> QED
  BY <1>1, <1>2

(* The inductive invariant holds in every reachable state of the loop.      *)
THEOREM Invariance == Spec => []Inv
  BY InitInv, NextInv, PTL DEF Spec

(* Fiber.cpp:71 never calls js_invoke() on a null job, for any number of    *)
(* fibers and posting threads.                                             *)
THEOREM JobFoundHolds == Spec => []JobFound
<1>1. Inv => JobFound
  BY DEF Inv
<1> QED
  BY <1>1, Invariance, PTL

(* m_ref is at every step what keeps the isolate alive: jobs queued or      *)
(* running, objects that hold, and the calls in between; it is never        *)
(* negative, nor are m_sem and m_idleFibers.                                *)
THEOREM RefAccountingHolds == Spec => []RefAccounting
<1>1. Inv => RefAccounting
  <2> SUFFICES ASSUME Inv PROVE RefAccounting
    OBVIOUS
  <2>1. Calling({"hold"}) \subseteq At(InJs) /\ At(InJs) \subseteq Fibers
    BY DEF Inv, HoldInJs, Calling, At, InJs
  <2>2. Taking <= Running
    <3>1. IsFiniteSet(At(InJs))
      BY <2>1, FibersAssumption, FS_Subset
    <3> QED
      BY <2>1, <3>1, FS_Subset DEF Taking, Running
  <2>3. m_ref \in Nat /\ m_idleFibers \in Nat
    BY <2>2, Counts
  <2>4. TypeOK
    BY <2>3 DEF Inv, Typed, TypeOK
  <2>5. /\ {a \in Agents : Doing(a, "unref") \/ Doing(a, "put")} = Calling({"unref", "put"})
        /\ {a \in Agents : Doing(a, "hold")} = Calling({"hold"})
    BY DEF Calling
  <2>6. m_ref = InQueue + Running + Holding + Owing - Taking
    BY Counts
  <2> QED
    BY <2>4, <2>5, <2>6 DEF RefAccounting, InQueue, Running, Holding, Owing, Taking, InJs
<1> QED
  BY <1>1, Invariance, PTL

(* Whenever the v8 lock is free a fiber is there to take it, for any values *)
(* of coroutine.spareFibers above zero and however they change.            *)
THEOREM SpareFiberHolds == Spec => []SpareFiber
<1>1. Inv => SpareFiber
  BY DEF Inv, SpareLeft, SpareFiber, Parked
<1> QED
  BY <1>1, Invariance, PTL

(* When the exit job calls process_base::exit(), no job, hold or counted    *)
(* call is left.                                                           *)
THEOREM ExitCleanHolds == Spec => []ExitClean
<1>1. Inv => ExitClean
  BY DEF Inv
<1> QED
  BY <1>1, Invariance, PTL

=============================================================================
