---------------------------- MODULE AcPoolProofs ----------------------------
(***************************************************************************)
(* Proofs, for every number of workers and tasks, every cap and either     *)
(* kind of pool, that the counters of acPool account for its workers, and  *)
(* of what follows from that.                                              *)
(***************************************************************************)
EXTENDS AcPool, FiniteSetTheorems, TLAPS

(* The cap is refused at most once, and never while another worker is       *)
(* being created.                                                          *)
SoleCreator == refused + Count(pc, {"create", "spawn"}) <= 1

(* A worker that is giving up on the cap has been counted in refused.      *)
RefusedSeen == \A w \in Workers : pc[w] = "undo" => refused > 0

(* SpareWorker, without relying on a worker that is about to retire.       *)
SparePlus == refused = 0 => \E w \in Workers : pc[w] \notin {"none", "invoke", "excess"}

(* A thread never takes the path of lines 116-117.                         *)
ThreadsRetire == m_bThread => \A w \in Workers : pc[w] # "keep"

Inv ==
    /\ TypeOK
    /\ IdleAccounting
    /\ WorkerAccounting
    /\ SoleCreator
    /\ RefusedSeen
    /\ SparePlus
    /\ ThreadsRetire
    /\ CapRespected

-----------------------------------------------------------------------------
(* What a worker at label b adds to a count.                               *)
One(b, L) == IF b \in L THEN 1 ELSE 0

(* Count is a natural number.                                              *)
LEMMA CountType ==
    ASSUME NEW f, NEW L
    PROVE  Count(f, L) \in Nat
<1> DEFINE S == {w \in Workers : f[w] \in L}
<1>1. IsFiniteSet(S)
  BY WorkersAssumption, FS_Subset, S \subseteq Workers
<1> QED
  BY <1>1, FS_CardinalityType DEF Count

(* Moving one worker to label b changes Count by that worker alone.        *)
LEMMA CountMove ==
    ASSUME NEW f \in [Workers -> Labels], NEW w \in Workers, NEW b \in Labels, NEW L,
           NEW g, g = [f EXCEPT ![w] = b]
    PROVE  Count(g, L)
             = Count(f, L) + One(b, L) - One(f[w], L)
<1> DEFINE S == {v \in Workers : f[v] \in L}
           T == {v \in Workers : g[v] \in L}
<1>1. IsFiniteSet(S) /\ IsFiniteSet(T)
  BY WorkersAssumption, FS_Subset, S \subseteq Workers, T \subseteq Workers
<1>2. Cardinality(S) \in Nat /\ Cardinality(T) \in Nat
  BY <1>1, FS_CardinalityType
<1>3. Count(f, L) = Cardinality(S) /\ Count(g, L) = Cardinality(T)
  BY DEF Count
<1>4. CASE b \in L /\ f[w] \in L
  <2>1. T = S
    BY <1>4
  <2> HIDE DEF S, T
  <2> QED
    BY <2>1, <1>2, <1>3, <1>4 DEF One
<1>5. CASE b \in L /\ f[w] \notin L
  <2>1. T = S \cup {w} /\ w \notin S
    BY <1>5
  <2>2. Cardinality(T) = Cardinality(S) + 1
    BY <2>1, <1>1, FS_AddElement
  <2> HIDE DEF S, T
  <2> QED
    BY <2>2, <1>2, <1>3, <1>5 DEF One
<1>6. CASE b \notin L /\ f[w] \in L
  <2>1. T = S \ {w} /\ w \in S
    BY <1>6
  <2>2. Cardinality(T) = Cardinality(S) - 1
    BY <2>1, <1>1, FS_RemoveElement
  <2> HIDE DEF S, T
  <2> QED
    BY <2>2, <1>2, <1>3, <1>6 DEF One
<1>7. CASE b \notin L /\ f[w] \notin L
  <2>1. T = S
    BY <1>7
  <2> HIDE DEF S, T
  <2> QED
    BY <2>1, <1>2, <1>3, <1>7 DEF One
<1> QED
  BY <1>4, <1>5, <1>6, <1>7

(* A worker at one of the labels is counted.                               *)
LEMMA CountPositive ==
    ASSUME NEW f, NEW L
    PROVE  Count(f, L) > 0 <=> \E w \in Workers : f[w] \in L
<1> DEFINE S == {w \in Workers : f[w] \in L}
<1>1. IsFiniteSet(S)
  BY WorkersAssumption, FS_Subset, S \subseteq Workers
<1>2. Cardinality(S) \in Nat /\ (Cardinality(S) = 0 <=> S = {})
  BY <1>1, FS_CardinalityType, FS_EmptySet
<1> QED
  BY <1>2 DEF Count

(* Fewer labels, fewer workers.                                            *)
LEMMA CountSubset ==
    ASSUME NEW f, NEW K, NEW L, \A w \in Workers : f[w] \in K => f[w] \in L
    PROVE  Count(f, K) <= Count(f, L)
<1> DEFINE S == {w \in Workers : f[w] \in K}
           T == {w \in Workers : f[w] \in L}
<1>1. IsFiniteSet(T) /\ S \subseteq T
  BY WorkersAssumption, FS_Subset, T \subseteq Workers
<1> QED
  BY <1>1, FS_Subset DEF Count
-----------------------------------------------------------------------------
(* The six counts that the invariant speaks of, and how one move from a to  *)
(* b changes each of them.                                                 *)
Moved(f, g, a, b) ==
    /\ Count(g, Credited) = Count(f, Credited) + One(b, Credited) - One(a, Credited)
    /\ Count(g, Labels \ {"none", "keep"})
         = Count(f, Labels \ {"none", "keep"})
             + One(b, Labels \ {"none", "keep"}) - One(a, Labels \ {"none", "keep"})
    /\ Count(g, Labels \ {"none"})
         = Count(f, Labels \ {"none"}) + One(b, Labels \ {"none"}) - One(a, Labels \ {"none"})
    /\ Count(g, {"spawn", "undo"})
         = Count(f, {"spawn", "undo"}) + One(b, {"spawn", "undo"}) - One(a, {"spawn", "undo"})
    /\ Count(g, {"create", "spawn"})
         = Count(f, {"create", "spawn"}) + One(b, {"create", "spawn"}) - One(a, {"create", "spawn"})
    /\ Count(g, {"spawn"}) = Count(f, {"spawn"}) + One(b, {"spawn"}) - One(a, {"spawn"})

(* The counts are natural numbers.                                         *)
CountsOK(f) ==
    /\ Count(f, Credited) \in Nat
    /\ Count(f, Labels \ {"none", "keep"}) \in Nat
    /\ Count(f, Labels \ {"none"}) \in Nat
    /\ Count(f, {"spawn", "undo"}) \in Nat
    /\ Count(f, {"create", "spawn"}) \in Nat
    /\ Count(f, {"spawn"}) \in Nat

(* Every function has natural counts.                                      *)
LEMMA CountsNat ==
    ASSUME NEW f
    PROVE  CountsOK(f)
  BY CountType DEF CountsOK

(* One worker moving is a move of every count.                             *)
LEMMA Moves ==
    ASSUME NEW f \in [Workers -> Labels], NEW w \in Workers, NEW b \in Labels,
           NEW g, g = [f EXCEPT ![w] = b]
    PROVE  Moved(f, g, f[w], b)
<1>1. ASSUME NEW L PROVE Count(g, L) = Count(f, L) + One(b, L) - One(f[w], L)
  BY CountMove
<1> QED
  BY <1>1 DEF Moved

(* The constructor establishes the invariant.                              *)
LEMMA InvInit == Init => Inv
<1> SUFFICES ASSUME Init PROVE Inv
  OBVIOUS
<1>1. TypeOK
  BY DEF Init, TypeOK, Labels
<1>2. PICK first \in Workers : pc = [w \in Workers |-> IF w = first THEN "start" ELSE "none"]
  BY DEF Init
<1> DEFINE f == [w \in Workers |-> "none"]
<1>3. f \in [Workers -> Labels] /\ pc = [f EXCEPT ![first] = "start"] /\ f[first] = "none"
  BY <1>2 DEF Labels
<1>4. Moved(f, pc, "none", "start")
  BY <1>3, Moves, "start" \in Labels DEF Labels
<1>5. \A L : "none" \notin L => ~(Count(f, L) > 0)
  BY CountPositive
<1>6. /\ Count(f, Credited) = 0
      /\ Count(f, Labels \ {"none", "keep"}) = 0
      /\ Count(f, Labels \ {"none"}) = 0
      /\ Count(f, {"spawn", "undo"}) = 0
      /\ Count(f, {"create", "spawn"}) = 0
      /\ Count(f, {"spawn"}) = 0
  <2> HIDE DEF f
  <2> QED
    BY <1>5, CountsNat DEF CountsOK, Credited
<1> HIDE DEF f
<1>7. /\ Count(pc, Credited) = 1
      /\ Count(pc, Labels \ {"none", "keep"}) = 1
      /\ Count(pc, Labels \ {"none"}) = 1
      /\ Count(pc, {"spawn", "undo"}) = 0
      /\ Count(pc, {"create", "spawn"}) = 0
      /\ Count(pc, {"spawn"}) = 0
  BY <1>4, <1>6 DEF Moved, One, Credited, Labels
<1>8. IdleAccounting /\ WorkerAccounting /\ SoleCreator
  BY <1>7 DEF Init, IdleAccounting, WorkerAccounting, SoleCreator
<1>9. RefusedSeen /\ SparePlus /\ ThreadsRetire
  BY <1>2 DEF RefusedSeen, SparePlus, ThreadsRetire
<1>10. CapRespected
  BY <1>7, SizeAssumption DEF CapRespected
<1> QED
  BY <1>1, <1>8, <1>9, <1>10 DEF Inv

(* What the proof of every step starts from.                               *)
LEMMA StepFacts ==
    ASSUME Inv
    PROVE  /\ pc \in [Workers -> Labels]
           /\ refused \in Nat
           /\ CountsOK(pc)
           /\ CountsOK(pc')
  BY CountsNat DEF Inv, TypeOK

(* A worker that goes from a to b moves every count.                       *)
LEMMA GotoMoves ==
    ASSUME Inv, NEW w \in Workers, NEW b \in Labels, Goto(w, b)
    PROVE  Moved(pc, pc', pc[w], b)
  BY Moves, StepFacts DEF Goto

(* The accounting keeps the counters from going below zero.                *)
LEMMA CountersNat ==
    ASSUME IdleAccounting', WorkerAccounting', refused' \in Nat
    PROVE  m_idleWorkers' \in Nat /\ m_workers' \in Nat
<1>1. CountsOK(pc')
  BY CountsNat
<1> QED
  BY <1>1 DEF IdleAccounting, WorkerAccounting, CountsOK

(* A positive m_idleWorkers that no refusal explains is a worker.          *)
LEMMA CreditIsWorker ==
    ASSUME IdleAccounting', m_idleWorkers' > 0
    PROVE  SparePlus'
<1> SUFFICES ASSUME refused' = 0
             PROVE  \E w \in Workers : pc'[w] \notin {"none", "invoke", "excess"}
  BY DEF SparePlus
<1>1. Count(pc', Credited) > 0
  BY CountType DEF IdleAccounting
<1>2. \E w \in Workers : pc'[w] \in Credited
  BY <1>1, CountPositive
<1> QED
  BY <1>2 DEF Credited

(* Start preserves the invariant.  *)
LEMMA StartInv ==
    ASSUME Inv, m_bThread' = m_bThread, NEW w \in Workers, Start(w)
    PROVE  Inv'
<1>1. pc[w] = "start"
  BY DEF Start
<1>2. Moved(pc, pc', "start", "loop")
  BY <1>1, GotoMoves, "loop" \in Labels DEF Start, Labels
<1>3. IdleAccounting'
  BY <1>1, <1>2, StepFacts DEF Inv, IdleAccounting, Start, Moved, One, CountsOK, Credited, Labels
<1>4. WorkerAccounting'
  BY <1>1, <1>2, StepFacts DEF Inv, WorkerAccounting, Start, Moved, One, CountsOK, Labels
<1>5. SoleCreator'
  BY <1>1, <1>2, StepFacts DEF Inv, SoleCreator, Start, Moved, One, CountsOK
<1>6. TypeOK'
  BY <1>3, <1>4, CountersNat DEF Inv, TypeOK, Start, Goto, Labels
<1>7. RefusedSeen' /\ SparePlus' /\ ThreadsRetire'
  BY <1>1, StepFacts DEF Inv, RefusedSeen, SparePlus, ThreadsRetire, Start, Goto
<1>8. CapRespected'
  BY <1>1, <1>2, StepFacts, SizeAssumption DEF Inv, CapRespected, Moved, One, CountsOK, Labels
<1> QED
  BY <1>3, <1>4, <1>5, <1>6, <1>7, <1>8 DEF Inv

(* CountIdle preserves the invariant.  *)
LEMMA CountIdleInv ==
    ASSUME Inv, m_bThread' = m_bThread, NEW w \in Workers, CountIdle(w)
    PROVE  Inv'
<1>1. pc[w] = "loop"
  BY DEF CountIdle
<1>2. CASE m_idleWorkers' > m_max_idle
  <2>1. Moved(pc, pc', "loop", "tooMany")
    BY <1>2, <1>1, GotoMoves, "tooMany" \in Labels DEF CountIdle, Labels
  <2>2. IdleAccounting'
    BY <1>2, <1>1, <2>1, StepFacts DEF Inv, IdleAccounting, CountIdle, Moved, One, CountsOK, Credited, Labels
  <2>3. WorkerAccounting'
    BY <1>2, <1>1, <2>1, StepFacts DEF Inv, WorkerAccounting, CountIdle, Moved, One, CountsOK, Labels
  <2>4. SoleCreator'
    BY <1>2, <1>1, <2>1, StepFacts DEF Inv, SoleCreator, CountIdle, Moved, One, CountsOK
  <2>5. TypeOK'
    BY <1>2, <2>2, <2>3, CountersNat DEF Inv, TypeOK, CountIdle, Goto, Labels
  <2>6. RefusedSeen' /\ SparePlus' /\ ThreadsRetire'
    BY <1>2, <1>1, StepFacts DEF Inv, RefusedSeen, SparePlus, ThreadsRetire, CountIdle, Goto
  <2>7. CapRespected'
    BY <1>2, <1>1, <2>1, StepFacts, SizeAssumption DEF Inv, CapRespected, Moved, One, CountsOK, Labels
  <2> QED
    BY <2>2, <2>3, <2>4, <2>5, <2>6, <2>7 DEF Inv
<1>3. CASE ~(m_idleWorkers' > m_max_idle)
  <2>1. Moved(pc, pc', "loop", "get")
    BY <1>3, <1>1, GotoMoves, "get" \in Labels DEF CountIdle, Labels
  <2>2. IdleAccounting'
    BY <1>3, <1>1, <2>1, StepFacts DEF Inv, IdleAccounting, CountIdle, Moved, One, CountsOK, Credited, Labels
  <2>3. WorkerAccounting'
    BY <1>3, <1>1, <2>1, StepFacts DEF Inv, WorkerAccounting, CountIdle, Moved, One, CountsOK, Labels
  <2>4. SoleCreator'
    BY <1>3, <1>1, <2>1, StepFacts DEF Inv, SoleCreator, CountIdle, Moved, One, CountsOK
  <2>5. TypeOK'
    BY <1>3, <2>2, <2>3, CountersNat DEF Inv, TypeOK, CountIdle, Goto, Labels
  <2>6. RefusedSeen' /\ SparePlus' /\ ThreadsRetire'
    BY <1>3, <1>1, StepFacts DEF Inv, RefusedSeen, SparePlus, ThreadsRetire, CountIdle, Goto
  <2>7. CapRespected'
    BY <1>3, <1>1, <2>1, StepFacts, SizeAssumption DEF Inv, CapRespected, Moved, One, CountsOK, Labels
  <2> QED
    BY <2>2, <2>3, <2>4, <2>5, <2>6, <2>7 DEF Inv
<1> QED
  BY <1>2, <1>3

(* UncountIdle preserves the invariant.  *)
LEMMA UncountIdleInv ==
    ASSUME Inv, m_bThread' = m_bThread, NEW w \in Workers, UncountIdle(w)
    PROVE  Inv'
<1>1. pc[w] = "tooMany"
  BY DEF UncountIdle
<1>2. CASE m_idleWorkers' > 0
  <2>1. Moved(pc, pc', "tooMany", "excess")
    BY <1>2, <1>1, GotoMoves, "excess" \in Labels DEF UncountIdle, Labels
  <2>2. IdleAccounting'
    BY <1>2, <1>1, <2>1, StepFacts DEF Inv, IdleAccounting, UncountIdle, Moved, One, CountsOK, Credited, Labels
  <2>3. WorkerAccounting'
    BY <1>2, <1>1, <2>1, StepFacts DEF Inv, WorkerAccounting, UncountIdle, Moved, One, CountsOK, Labels
  <2>4. SoleCreator'
    BY <1>2, <1>1, <2>1, StepFacts DEF Inv, SoleCreator, UncountIdle, Moved, One, CountsOK
  <2>5. TypeOK'
    BY <1>2, <2>2, <2>3, CountersNat DEF Inv, TypeOK, UncountIdle, Goto, Labels
  <2>6. RefusedSeen' /\ SparePlus' /\ ThreadsRetire'
    <3>1. m_idleWorkers' > 0
      BY <1>2, <2>5 DEF TypeOK
    <3>2. SparePlus'
      BY <3>1, <2>2, CreditIsWorker
    <3> QED
      BY <1>2, <3>2, <1>1, StepFacts DEF Inv, RefusedSeen, ThreadsRetire, UncountIdle, Goto
  <2>7. CapRespected'
    BY <1>2, <1>1, <2>1, StepFacts, SizeAssumption DEF Inv, CapRespected, Moved, One, CountsOK, Labels
  <2> QED
    BY <2>2, <2>3, <2>4, <2>5, <2>6, <2>7 DEF Inv
<1>3. CASE ~(m_idleWorkers' > 0)
  <2>1. Moved(pc, pc', "tooMany", "park")
    BY <1>3, <1>1, GotoMoves, "park" \in Labels DEF UncountIdle, Labels
  <2>2. IdleAccounting'
    BY <1>3, <1>1, <2>1, StepFacts DEF Inv, IdleAccounting, UncountIdle, Moved, One, CountsOK, Credited, Labels
  <2>3. WorkerAccounting'
    BY <1>3, <1>1, <2>1, StepFacts DEF Inv, WorkerAccounting, UncountIdle, Moved, One, CountsOK, Labels
  <2>4. SoleCreator'
    BY <1>3, <1>1, <2>1, StepFacts DEF Inv, SoleCreator, UncountIdle, Moved, One, CountsOK
  <2>5. TypeOK'
    BY <1>3, <2>2, <2>3, CountersNat DEF Inv, TypeOK, UncountIdle, Goto, Labels
  <2>6. RefusedSeen' /\ SparePlus' /\ ThreadsRetire'
    BY <1>3, <1>1, StepFacts DEF Inv, RefusedSeen, SparePlus, ThreadsRetire, UncountIdle, Goto
  <2>7. CapRespected'
    BY <1>3, <1>1, <2>1, StepFacts, SizeAssumption DEF Inv, CapRespected, Moved, One, CountsOK, Labels
  <2> QED
    BY <2>2, <2>3, <2>4, <2>5, <2>6, <2>7 DEF Inv
<1> QED
  BY <1>2, <1>3

(* Retire preserves the invariant.  *)
LEMMA RetireInv ==
    ASSUME Inv, m_bThread' = m_bThread, NEW w \in Workers, Retire(w)
    PROVE  Inv'
<1>1. pc[w] = "excess"
  BY DEF Retire
<1>2. CASE m_bThread \/ m_workers' >= MaxWorkers
  <2>1. Moved(pc, pc', "excess", "none")
    BY <1>2, <1>1, GotoMoves, "none" \in Labels DEF Retire, Labels
  <2>2. IdleAccounting'
    BY <1>2, <1>1, <2>1, StepFacts DEF Inv, IdleAccounting, Retire, Moved, One, CountsOK, Credited, Labels
  <2>3. WorkerAccounting'
    BY <1>2, <1>1, <2>1, StepFacts DEF Inv, WorkerAccounting, Retire, Moved, One, CountsOK, Labels
  <2>4. SoleCreator'
    BY <1>2, <1>1, <2>1, StepFacts DEF Inv, SoleCreator, Retire, Moved, One, CountsOK
  <2>5. TypeOK'
    BY <1>2, <2>2, <2>3, CountersNat DEF Inv, TypeOK, Retire, Goto, Labels
  <2>6. RefusedSeen' /\ SparePlus' /\ ThreadsRetire'
    BY <1>2, <1>1, StepFacts DEF Inv, RefusedSeen, SparePlus, ThreadsRetire, Retire, Goto
  <2>7. CapRespected'
    BY <1>2, <1>1, <2>1, StepFacts, SizeAssumption DEF Inv, CapRespected, Moved, One, CountsOK, Labels
  <2> QED
    BY <2>2, <2>3, <2>4, <2>5, <2>6, <2>7 DEF Inv
<1>3. CASE ~(m_bThread \/ m_workers' >= MaxWorkers)
  <2>1. Moved(pc, pc', "excess", "keep")
    BY <1>3, <1>1, GotoMoves, "keep" \in Labels DEF Retire, Labels
  <2>2. IdleAccounting'
    BY <1>3, <1>1, <2>1, StepFacts DEF Inv, IdleAccounting, Retire, Moved, One, CountsOK, Credited, Labels
  <2>3. WorkerAccounting'
    BY <1>3, <1>1, <2>1, StepFacts DEF Inv, WorkerAccounting, Retire, Moved, One, CountsOK, Labels
  <2>4. SoleCreator'
    BY <1>3, <1>1, <2>1, StepFacts DEF Inv, SoleCreator, Retire, Moved, One, CountsOK
  <2>5. TypeOK'
    BY <1>3, <2>2, <2>3, CountersNat DEF Inv, TypeOK, Retire, Goto, Labels
  <2>6. RefusedSeen' /\ SparePlus' /\ ThreadsRetire'
    BY <1>3, <1>1, StepFacts DEF Inv, RefusedSeen, SparePlus, ThreadsRetire, Retire, Goto
  <2>7. CapRespected'
    BY <1>3, <1>1, <2>1, StepFacts, SizeAssumption DEF Inv, CapRespected, Moved, One, CountsOK, Labels
  <2> QED
    BY <2>2, <2>3, <2>4, <2>5, <2>6, <2>7 DEF Inv
<1> QED
  BY <1>2, <1>3

(* Keep preserves the invariant.  *)
LEMMA KeepInv ==
    ASSUME Inv, m_bThread' = m_bThread, NEW w \in Workers, Keep(w)
    PROVE  Inv'
<1>1. pc[w] = "keep"
  BY DEF Keep
<1>2. Moved(pc, pc', "keep", "park")
  BY <1>1, GotoMoves, "park" \in Labels DEF Keep, Labels
<1>3. IdleAccounting'
  BY <1>1, <1>2, StepFacts DEF Inv, IdleAccounting, Keep, Moved, One, CountsOK, Credited, Labels
<1>4. WorkerAccounting'
  BY <1>1, <1>2, StepFacts DEF Inv, WorkerAccounting, Keep, Moved, One, CountsOK, Labels
<1>5. SoleCreator'
  BY <1>1, <1>2, StepFacts DEF Inv, SoleCreator, Keep, Moved, One, CountsOK
<1>6. TypeOK'
  BY <1>3, <1>4, CountersNat DEF Inv, TypeOK, Keep, Goto, Labels
<1>7. RefusedSeen' /\ SparePlus' /\ ThreadsRetire'
  BY <1>1, StepFacts DEF Inv, RefusedSeen, SparePlus, ThreadsRetire, Keep, Goto
<1>8. CapRespected'
  BY <1>1, <1>2, StepFacts, SizeAssumption DEF Inv, CapRespected, Moved, One, CountsOK, Labels
<1> QED
  BY <1>3, <1>4, <1>5, <1>6, <1>7, <1>8 DEF Inv

(* Park preserves the invariant.  *)
LEMMA ParkInv ==
    ASSUME Inv, m_bThread' = m_bThread, NEW w \in Workers, Park(w)
    PROVE  Inv'
<1>1. pc[w] = "park"
  BY DEF Park
<1>2. Moved(pc, pc', "park", "get")
  BY <1>1, GotoMoves, "get" \in Labels DEF Park, Labels
<1>3. IdleAccounting'
  BY <1>1, <1>2, StepFacts DEF Inv, IdleAccounting, Park, Moved, One, CountsOK, Credited, Labels
<1>4. WorkerAccounting'
  BY <1>1, <1>2, StepFacts DEF Inv, WorkerAccounting, Park, Moved, One, CountsOK, Labels
<1>5. SoleCreator'
  BY <1>1, <1>2, StepFacts DEF Inv, SoleCreator, Park, Moved, One, CountsOK
<1>6. TypeOK'
  BY <1>3, <1>4, CountersNat DEF Inv, TypeOK, Park, Goto, Labels
<1>7. RefusedSeen' /\ SparePlus' /\ ThreadsRetire'
  BY <1>1, StepFacts DEF Inv, RefusedSeen, SparePlus, ThreadsRetire, Park, Goto
<1>8. CapRespected'
  BY <1>1, <1>2, StepFacts, SizeAssumption DEF Inv, CapRespected, Moved, One, CountsOK, Labels
<1> QED
  BY <1>3, <1>4, <1>5, <1>6, <1>7, <1>8 DEF Inv

(* Get preserves the invariant.  *)
LEMMA GetInv ==
    ASSUME Inv, m_bThread' = m_bThread, NEW w \in Workers, Get(w)
    PROVE  Inv'
<1>1. pc[w] = "get"
  BY DEF Get
<1>2. Moved(pc, pc', "get", "took")
  BY <1>1, GotoMoves, "took" \in Labels DEF Get, Labels
<1>3. IdleAccounting'
  BY <1>1, <1>2, StepFacts DEF Inv, IdleAccounting, Get, counters, Moved, One, CountsOK, Credited, Labels
<1>4. WorkerAccounting'
  BY <1>1, <1>2, StepFacts DEF Inv, WorkerAccounting, Get, counters, Moved, One, CountsOK, Labels
<1>5. SoleCreator'
  BY <1>1, <1>2, StepFacts DEF Inv, SoleCreator, Get, Moved, One, CountsOK
<1>6. TypeOK'
  BY <1>3, <1>4, CountersNat DEF Inv, TypeOK, Get, counters, Goto, Labels
<1>7. RefusedSeen' /\ SparePlus' /\ ThreadsRetire'
  BY <1>1, StepFacts DEF Inv, RefusedSeen, SparePlus, ThreadsRetire, Get, Goto
<1>8. CapRespected'
  BY <1>1, <1>2, StepFacts, SizeAssumption DEF Inv, CapRespected, Moved, One, CountsOK, Labels
<1> QED
  BY <1>3, <1>4, <1>5, <1>6, <1>7, <1>8 DEF Inv

(* LeaveIdle preserves the invariant.  *)
LEMMA LeaveIdleInv ==
    ASSUME Inv, m_bThread' = m_bThread, NEW w \in Workers, LeaveIdle(w)
    PROVE  Inv'
<1>1. pc[w] = "took"
  BY DEF LeaveIdle
<1>2. CASE m_idleWorkers' = 0
  <2>1. Moved(pc, pc', "took", "cas")
    BY <1>2, <1>1, GotoMoves, "cas" \in Labels DEF LeaveIdle, Labels
  <2>2. IdleAccounting'
    BY <1>2, <1>1, <2>1, StepFacts DEF Inv, IdleAccounting, LeaveIdle, Moved, One, CountsOK, Credited, Labels
  <2>3. WorkerAccounting'
    BY <1>2, <1>1, <2>1, StepFacts DEF Inv, WorkerAccounting, LeaveIdle, Moved, One, CountsOK, Labels
  <2>4. SoleCreator'
    BY <1>2, <1>1, <2>1, StepFacts DEF Inv, SoleCreator, LeaveIdle, Moved, One, CountsOK
  <2>5. TypeOK'
    BY <1>2, <2>2, <2>3, CountersNat DEF Inv, TypeOK, LeaveIdle, Goto, Labels
  <2>6. RefusedSeen' /\ SparePlus' /\ ThreadsRetire'
    BY <1>2, <1>1, StepFacts DEF Inv, RefusedSeen, SparePlus, ThreadsRetire, LeaveIdle, Goto
  <2>7. CapRespected'
    BY <1>2, <1>1, <2>1, StepFacts, SizeAssumption DEF Inv, CapRespected, Moved, One, CountsOK, Labels
  <2> QED
    BY <2>2, <2>3, <2>4, <2>5, <2>6, <2>7 DEF Inv
<1>3. CASE ~(m_idleWorkers' = 0)
  <2>1. Moved(pc, pc', "took", "invoke")
    BY <1>3, <1>1, GotoMoves, "invoke" \in Labels DEF LeaveIdle, Labels
  <2>2. IdleAccounting'
    BY <1>3, <1>1, <2>1, StepFacts DEF Inv, IdleAccounting, LeaveIdle, Moved, One, CountsOK, Credited, Labels
  <2>3. WorkerAccounting'
    BY <1>3, <1>1, <2>1, StepFacts DEF Inv, WorkerAccounting, LeaveIdle, Moved, One, CountsOK, Labels
  <2>4. SoleCreator'
    BY <1>3, <1>1, <2>1, StepFacts DEF Inv, SoleCreator, LeaveIdle, Moved, One, CountsOK
  <2>5. TypeOK'
    BY <1>3, <2>2, <2>3, CountersNat DEF Inv, TypeOK, LeaveIdle, Goto, Labels
  <2>6. RefusedSeen' /\ SparePlus' /\ ThreadsRetire'
    <3>1. m_idleWorkers' > 0
      BY <1>3, <2>5 DEF TypeOK
    <3>2. SparePlus'
      BY <3>1, <2>2, CreditIsWorker
    <3> QED
      BY <1>3, <3>2, <1>1, StepFacts DEF Inv, RefusedSeen, ThreadsRetire, LeaveIdle, Goto
  <2>7. CapRespected'
    BY <1>3, <1>1, <2>1, StepFacts, SizeAssumption DEF Inv, CapRespected, Moved, One, CountsOK, Labels
  <2> QED
    BY <2>2, <2>3, <2>4, <2>5, <2>6, <2>7 DEF Inv
<1> QED
  BY <1>2, <1>3

(* ClaimSpawn preserves the invariant.  *)
LEMMA ClaimSpawnInv ==
    ASSUME Inv, m_bThread' = m_bThread, NEW w \in Workers, ClaimSpawn(w)
    PROVE  Inv'
<1>1. pc[w] = "cas"
  BY DEF ClaimSpawn
<1>2. CASE m_idleWorkers = 0
  <2>1. Moved(pc, pc', "cas", "create")
    BY <1>2, <1>1, GotoMoves, "create" \in Labels DEF ClaimSpawn, Labels
  <2>2. IdleAccounting'
    BY <1>2, <1>1, <2>1, StepFacts DEF Inv, IdleAccounting, ClaimSpawn, Moved, One, CountsOK, Credited, Labels
  <2>3. WorkerAccounting'
    BY <1>2, <1>1, <2>1, StepFacts DEF Inv, WorkerAccounting, ClaimSpawn, Moved, One, CountsOK, Labels
  <2>4. SoleCreator'
    <3>1. Count(pc, Credited) = 0 /\ refused = 0
      BY <1>2, StepFacts DEF Inv, IdleAccounting, CountsOK
    <3>2. Count(pc, {"create", "spawn"}) <= Count(pc, Credited)
      BY CountSubset DEF Credited
    <3> QED
      BY <3>1, <3>2, <2>1, StepFacts DEF SoleCreator, ClaimSpawn, Moved, One, CountsOK
  <2>5. TypeOK'
    BY <1>2, <2>2, <2>3, CountersNat DEF Inv, TypeOK, ClaimSpawn, Goto, Labels
  <2>6. RefusedSeen' /\ SparePlus' /\ ThreadsRetire'
    BY <1>2, <1>1, StepFacts DEF Inv, RefusedSeen, SparePlus, ThreadsRetire, ClaimSpawn, Goto
  <2>7. CapRespected'
    BY <1>2, <1>1, <2>1, StepFacts, SizeAssumption DEF Inv, CapRespected, Moved, One, CountsOK, Labels
  <2> QED
    BY <2>2, <2>3, <2>4, <2>5, <2>6, <2>7 DEF Inv
<1>3. CASE ~(m_idleWorkers = 0)
  <2>1. Moved(pc, pc', "cas", "invoke")
    BY <1>3, <1>1, GotoMoves, "invoke" \in Labels DEF ClaimSpawn, Labels
  <2>2. IdleAccounting'
    BY <1>3, <1>1, <2>1, StepFacts DEF Inv, IdleAccounting, ClaimSpawn, Moved, One, CountsOK, Credited, Labels
  <2>3. WorkerAccounting'
    BY <1>3, <1>1, <2>1, StepFacts DEF Inv, WorkerAccounting, ClaimSpawn, Moved, One, CountsOK, Labels
  <2>4. SoleCreator'
    BY <1>3, <1>1, <2>1, StepFacts DEF Inv, SoleCreator, ClaimSpawn, Moved, One, CountsOK
  <2>5. TypeOK'
    BY <1>3, <2>2, <2>3, CountersNat DEF Inv, TypeOK, ClaimSpawn, Goto, Labels
  <2>6. RefusedSeen' /\ SparePlus' /\ ThreadsRetire'
    <3>1. m_idleWorkers' > 0
      BY <1>3, <2>5 DEF ClaimSpawn, Inv, TypeOK
    <3>2. SparePlus'
      BY <3>1, <2>2, CreditIsWorker
    <3> QED
      BY <1>3, <3>2, <1>1, StepFacts DEF Inv, RefusedSeen, ThreadsRetire, ClaimSpawn, Goto
  <2>7. CapRespected'
    BY <1>3, <1>1, <2>1, StepFacts, SizeAssumption DEF Inv, CapRespected, Moved, One, CountsOK, Labels
  <2> QED
    BY <2>2, <2>3, <2>4, <2>5, <2>6, <2>7 DEF Inv
<1> QED
  BY <1>2, <1>3

(* NewWorkerCount preserves the invariant.  *)
LEMMA NewWorkerCountInv ==
    ASSUME Inv, m_bThread' = m_bThread, NEW w \in Workers, NewWorkerCount(w)
    PROVE  Inv'
<1>1. pc[w] = "create"
  BY DEF NewWorkerCount
<1>2. CASE m_workers' > MaxWorkers
  <2>1. Moved(pc, pc', "create", "undo")
    BY <1>2, <1>1, GotoMoves, "undo" \in Labels DEF NewWorkerCount, Labels
  <2>2. IdleAccounting'
    BY <1>2, <1>1, <2>1, StepFacts DEF Inv, IdleAccounting, NewWorkerCount, Moved, One, CountsOK, Credited, Labels
  <2>3. WorkerAccounting'
    BY <1>2, <1>1, <2>1, StepFacts DEF Inv, WorkerAccounting, NewWorkerCount, Moved, One, CountsOK, Labels
  <2>4. SoleCreator'
    BY <1>2, <1>1, <2>1, StepFacts DEF Inv, SoleCreator, NewWorkerCount, Moved, One, CountsOK
  <2>5. TypeOK'
    BY <1>2, <2>2, <2>3, CountersNat DEF Inv, TypeOK, NewWorkerCount, Goto, Labels
  <2>6. RefusedSeen' /\ SparePlus' /\ ThreadsRetire'
    BY <1>2, <1>1, StepFacts DEF Inv, RefusedSeen, SparePlus, ThreadsRetire, NewWorkerCount, Goto
  <2>7. CapRespected'
    BY <1>2, <1>1, <2>1, StepFacts, SizeAssumption DEF Inv, CapRespected, Moved, One, CountsOK, Labels
  <2> QED
    BY <2>2, <2>3, <2>4, <2>5, <2>6, <2>7 DEF Inv
<1>3. CASE ~(m_workers' > MaxWorkers)
  <2>1. Moved(pc, pc', "create", "spawn")
    BY <1>3, <1>1, GotoMoves, "spawn" \in Labels DEF NewWorkerCount, Labels
  <2>2. IdleAccounting'
    BY <1>3, <1>1, <2>1, StepFacts DEF Inv, IdleAccounting, NewWorkerCount, Moved, One, CountsOK, Credited, Labels
  <2>3. WorkerAccounting'
    BY <1>3, <1>1, <2>1, StepFacts DEF Inv, WorkerAccounting, NewWorkerCount, Moved, One, CountsOK, Labels
  <2>4. SoleCreator'
    BY <1>3, <1>1, <2>1, StepFacts DEF Inv, SoleCreator, NewWorkerCount, Moved, One, CountsOK
  <2>5. TypeOK'
    BY <1>3, <2>2, <2>3, CountersNat DEF Inv, TypeOK, NewWorkerCount, Goto, Labels
  <2>6. RefusedSeen' /\ SparePlus' /\ ThreadsRetire'
    BY <1>3, <1>1, StepFacts DEF Inv, RefusedSeen, SparePlus, ThreadsRetire, NewWorkerCount, Goto
  <2>7. CapRespected'
    <3> SUFFICES ASSUME m_bThread
                 PROVE  Count(pc', Labels \ {"none"}) + Count(pc', {"spawn"}) <= MaxWorkers
      BY DEF CapRespected
    <3>1. Count(pc, Labels \ {"none"}) <= Count(pc, Labels \ {"none", "keep"})
      BY CountSubset, StepFacts DEF Inv, ThreadsRetire
    <3>2. Count(pc, {"spawn"}) <= Count(pc, {"spawn", "undo"})
      BY CountSubset
    <3>3. m_workers + 1 <= MaxWorkers /\ m_workers \in Nat
      BY <1>3, SizeAssumption DEF NewWorkerCount, Inv, TypeOK
    <3>4. Count(pc, Labels \ {"none"}) + Count(pc, {"spawn"}) + 1 <= MaxWorkers
      BY <3>1, <3>2, <3>3, StepFacts, SizeAssumption DEF Inv, WorkerAccounting, CountsOK
    <3> QED
      BY <3>4, <2>1, StepFacts, SizeAssumption DEF CapRespected, Moved, One, CountsOK, Labels
  <2> QED
    BY <2>2, <2>3, <2>4, <2>5, <2>6, <2>7 DEF Inv
<1> QED
  BY <1>2, <1>3

(* NewWorkerRefused preserves the invariant.  *)
LEMMA NewWorkerRefusedInv ==
    ASSUME Inv, m_bThread' = m_bThread, NEW w \in Workers, NewWorkerRefused(w)
    PROVE  Inv'
<1>1. pc[w] = "undo"
  BY DEF NewWorkerRefused
<1>2. Moved(pc, pc', "undo", "invoke")
  BY <1>1, GotoMoves, "invoke" \in Labels DEF NewWorkerRefused, Labels
<1>3. IdleAccounting'
  BY <1>1, <1>2, StepFacts DEF Inv, IdleAccounting, NewWorkerRefused, Moved, One, CountsOK, Credited, Labels
<1>4. WorkerAccounting'
  BY <1>1, <1>2, StepFacts DEF Inv, WorkerAccounting, NewWorkerRefused, Moved, One, CountsOK, Labels
<1>5. SoleCreator'
  BY <1>1, <1>2, StepFacts DEF Inv, SoleCreator, NewWorkerRefused, Moved, One, CountsOK
<1>6. TypeOK'
  BY <1>3, <1>4, CountersNat DEF Inv, TypeOK, NewWorkerRefused, Goto, Labels
<1>7. RefusedSeen' /\ SparePlus' /\ ThreadsRetire'
  BY <1>1, StepFacts DEF Inv, RefusedSeen, SparePlus, ThreadsRetire, NewWorkerRefused, Goto
<1>8. CapRespected'
  BY <1>1, <1>2, StepFacts, SizeAssumption DEF Inv, CapRespected, Moved, One, CountsOK, Labels
<1> QED
  BY <1>3, <1>4, <1>5, <1>6, <1>7, <1>8 DEF Inv

(* Finish preserves the invariant.  *)
LEMMA FinishInv ==
    ASSUME Inv, m_bThread' = m_bThread, NEW w \in Workers, Finish(w)
    PROVE  Inv'
<1>1. pc[w] = "invoke"
  BY DEF Finish
<1>2. Moved(pc, pc', "invoke", "loop")
  BY <1>1, GotoMoves, "loop" \in Labels DEF Finish, Labels
<1>3. IdleAccounting'
  BY <1>1, <1>2, StepFacts DEF Inv, IdleAccounting, Finish, counters, Moved, One, CountsOK, Credited, Labels
<1>4. WorkerAccounting'
  BY <1>1, <1>2, StepFacts DEF Inv, WorkerAccounting, Finish, counters, Moved, One, CountsOK, Labels
<1>5. SoleCreator'
  BY <1>1, <1>2, StepFacts DEF Inv, SoleCreator, Finish, Moved, One, CountsOK
<1>6. TypeOK'
  BY <1>3, <1>4, CountersNat DEF Inv, TypeOK, Finish, counters, Goto, Labels
<1>7. RefusedSeen' /\ SparePlus' /\ ThreadsRetire'
  BY <1>1, StepFacts DEF Inv, RefusedSeen, SparePlus, ThreadsRetire, Finish, Goto
<1>8. CapRespected'
  BY <1>1, <1>2, StepFacts, SizeAssumption DEF Inv, CapRespected, Moved, One, CountsOK, Labels
<1> QED
  BY <1>3, <1>4, <1>5, <1>6, <1>7, <1>8 DEF Inv

(* put() touches no worker.                                                *)
LEMMA PutInv ==
    ASSUME Inv, NEW t \in Tasks, put(t)
    PROVE  Inv'
<1>1. TypeOK'
  BY DEF Inv, TypeOK, put, counters
<1>2. m_bThread' = m_bThread /\ pc' = pc /\ refused' = refused /\ m_idleWorkers' = m_idleWorkers /\ m_workers' = m_workers
  BY DEF put, counters
<1> QED
  BY <1>1, <1>2 DEF Inv, IdleAccounting, WorkerAccounting, SoleCreator, RefusedSeen,
                    SparePlus, ThreadsRetire, CapRespected

(* Creating worker n moves two workers: the creator w starts its task and   *)
(* n takes over the credit that w held.                                    *)
LEMMA SpawnInv ==
    ASSUME Inv, m_bThread' = m_bThread, NEW w \in Workers, Spawn(w)
    PROVE  Inv'
<1>1. PICK n \in Workers \ Live : pc' = [pc EXCEPT ![w] = "invoke", ![n] = "start"]
  BY DEF Spawn
<1> DEFINE h == [pc EXCEPT ![w] = "invoke"]
<1>2. pc[w] = "spawn" /\ pc[n] = "none" /\ n # w
  BY <1>1 DEF Spawn, Live
<1>3. /\ h \in [Workers -> Labels] /\ h[n] = "none"
      /\ pc' = [h EXCEPT ![n] = "start"]
  BY <1>1, <1>2, StepFacts DEF Labels
<1>4. Moved(pc, h, "spawn", "invoke")
  BY <1>2, StepFacts, Moves, "invoke" \in Labels DEF Labels
<1>5. Moved(h, pc', "none", "start")
  BY <1>3, Moves, "start" \in Labels DEF Labels
<1>6. CountsOK(h)
  BY CountsNat
<1> HIDE DEF h
<1>7. IdleAccounting'
  BY <1>4, <1>5, <1>6, StepFacts DEF Inv, IdleAccounting, Spawn, counters, Moved, One, CountsOK, Credited
<1>8. WorkerAccounting'
  BY <1>4, <1>5, <1>6, StepFacts DEF Inv, WorkerAccounting, Spawn, counters, Moved, One, CountsOK, Labels
<1>9. SoleCreator'
  BY <1>4, <1>5, <1>6, StepFacts DEF Inv, SoleCreator, Spawn, Moved, One, CountsOK
<1>10. TypeOK'
  BY <1>1, <1>7, <1>8, CountersNat DEF Inv, TypeOK, Spawn, counters, Labels
<1>11. pc'[n] = "start"
  BY <1>1, <1>2, StepFacts
<1>12. RefusedSeen' /\ SparePlus' /\ ThreadsRetire'
  BY <1>1, <1>11, StepFacts DEF Inv, RefusedSeen, SparePlus, ThreadsRetire, Spawn
<1>13. CapRespected'
  BY <1>4, <1>5, <1>6, StepFacts, SizeAssumption
     DEF Inv, CapRespected, Moved, One, CountsOK, Labels
<1> QED
  BY <1>7, <1>8, <1>9, <1>10, <1>12, <1>13 DEF Inv

(* Every step preserves the invariant.                                     *)
LEMMA InvNext == Inv /\ [Next]_vars => Inv'
<1> SUFFICES ASSUME Inv, [Next]_vars
             PROVE  Inv'
  OBVIOUS
<1>1. CASE \E t \in Tasks : put(t)
  BY <1>1, PutInv
<1>2. ASSUME NEW w \in Workers, FiberProcWorker(w)
      PROVE  Inv'
  BY <1>2, StartInv, CountIdleInv, UncountIdleInv, RetireInv, KeepInv, ParkInv, GetInv,
     LeaveIdleInv, ClaimSpawnInv, NewWorkerCountInv, NewWorkerRefusedInv, SpawnInv, FinishInv
     DEF FiberProcWorker
<1>3. CASE UNCHANGED vars
  BY <1>3 DEF vars, Inv, TypeOK, IdleAccounting, WorkerAccounting, SoleCreator, RefusedSeen,
              SparePlus, ThreadsRetire, CapRespected
<1> QED
  BY <1>1, <1>2, <1>3 DEF Next

(* Inv is an invariant of the pool.                                        *)
THEOREM Invariance == Spec => []Inv
  BY InvInit, InvNext, PTL DEF Spec

(* The counters never go below zero and every variable keeps its type.      *)
(* m_idleWorkers.dec() is never a decrement of nothing.                    *)
THEOREM TypeCorrect == Spec => []TypeOK
<1>1. Inv => TypeOK
  BY DEF Inv
<1> QED
  BY <1>1, Invariance, PTL

(* m_idleWorkers and m_workers account for the workers exactly, in every    *)
(* interleaving of FiberProcWorker and new_worker.                         *)
THEOREM CountersAccount == Spec => []CountersRight
<1>1. Inv => CountersRight
  BY DEF Inv, CountersRight
<1> QED
  BY <1>1, Invariance, PTL

(* Until new_worker() has met the cap, not all live workers are stuck in    *)
(* tasks: a pool that has not reached MAX_POOL_WORKERS can always take one  *)
(* more task, however many tasks block.                                    *)
THEOREM PoolHasSpare == Spec => []SpareWorker
<1>1. Inv => SpareWorker
  BY DEF Inv, SparePlus, SpareWorker
<1> QED
  BY <1>1, Invariance, PTL

(* The pool of threads never exceeds MAX_POOL_WORKERS (the pool of fibers   *)
(* may, while a worker is between Retire and Keep).                        *)
THEOREM ThreadsWithinCap == Spec => []CapRespected
<1>1. Inv => CapRespected
  BY DEF Inv
<1> QED
  BY <1>1, Invariance, PTL

(* Once new_worker() has returned at the cap, no worker is ever created     *)
(* again and the cap is never met again.                                   *)
THEOREM NoGrowth == Spec => NoGrowthAfterCap
<1> DEFINE A == refused > 0 => refused' = refused /\ Live' \subseteq Live
<1>1. Inv /\ [Next]_vars => [A]_vars
  <2> SUFFICES ASSUME Inv, Next, refused > 0
               PROVE  refused' = refused /\ Live' \subseteq Live
    OBVIOUS
  <2>1. Count(pc, {"create", "spawn"}) = 0
    BY StepFacts DEF Inv, SoleCreator, CountsOK
  <2>2. \A w \in Workers : pc[w] # "create" /\ pc[w] # "spawn"
    BY <2>1, CountPositive
  <2>3. CASE \E t \in Tasks : put(t)
    BY <2>3 DEF put, Live
  <2>4. ASSUME NEW w \in Workers, FiberProcWorker(w)
        PROVE  refused' = refused /\ Live' \subseteq Live
    <3>1. ~NewWorkerCount(w) /\ ~Spawn(w)
      BY <2>2 DEF NewWorkerCount, Spawn
    <3>2. refused' = refused
      BY <2>4, <3>1 DEF FiberProcWorker, Start, CountIdle, UncountIdle, Retire, Keep, Park, Get,
                        LeaveIdle, ClaimSpawn, NewWorkerRefused, Finish
    <3>3. pc[w] # "none" /\ \E b \in Labels : pc' = [pc EXCEPT ![w] = b]
      BY <2>4, <3>1 DEF FiberProcWorker, Start, CountIdle, UncountIdle, Retire, Keep, Park, Get,
                        LeaveIdle, ClaimSpawn, NewWorkerRefused, Finish, Goto, Labels
    <3>4. Live' \subseteq Live
      BY <3>3, StepFacts DEF Live
    <3> QED
      BY <3>2, <3>4
  <2> QED
    BY <2>3, <2>4 DEF Next
<1> QED
  BY <1>1, Invariance, PTL DEF Spec, NoGrowthAfterCap

=============================================================================
