--------------------------- MODULE LruCacheProofs ---------------------------
(***************************************************************************)
(* Proofs, for any number of threads, keys and items, of what the lookups  *)
(* that wait for a resolver rest on, and that the map, both lists and the  *)
(* items' iterators always agree.  The first part needs the map alone:     *)
(* evicting any set of items preserves it.  The second is about the lists. *)
(***************************************************************************)
EXTENDS LruCache, FiniteSetTheorems, SequenceTheorems, WellFoundedInduction, TLAPS

(* A key's item points back to the key.                                    *)
MapAgrees(c) ==
    /\ c.m_map \in [Keys -> Items \cup {End}]
    /\ c.m_map_iter \in [Items -> Keys \cup {End}]
    /\ \A k \in Keys, i \in Items : c.m_map[k] = i <=> c.m_map_iter[i] = k

(* The variables that the argument is about.                               *)
Typed ==
    /\ MapAgrees(cache)
    /\ has_value \in [Items -> BOOLEAN] /\ ready \in [Items -> BOOLEAN]
    /\ pc \in [Procs -> {"idle", "wait", "resolve", "signal", "failed"}]
    /\ item \in [Procs -> Items \cup {End}]
    /\ \A p \in Procs : item[p] = End <=> pc[p] = "idle"

(* Thread p called LookupAlloc for item i and has not returned.            *)
Owner(p, i) == item[p] = i /\ pc[p] \in {"resolve", "signal", "failed"}

(* At most one thread resolves an item.                                    *)
OneOwner == \A p, q \in Procs, i \in Items : Owner(p, i) /\ Owner(q, i) => p = q

(* An item in use that is not ready is being resolved.                     *)
Pending ==
    \A i \in Items :
        ~ready[i] /\ (cache.m_map_iter[i] # End \/ \E p \in Procs : item[p] = i) =>
            \E q \in Procs : item[q] = i /\ pc[q] \in {"resolve", "signal"}

(* The value is stored before the event is set.                            *)
Stored == \A p \in Procs : pc[p] = "signal" => has_value[item[p]]

(* A mapped item that is ready and empty is about to be given up.          *)
GivenUp ==
    \A i \in Items :
        cache.m_map_iter[i] # End /\ ready[i] /\ ~has_value[i] =>
            \E p \in Procs : item[p] = i /\ pc[p] = "failed"

Inv == Typed /\ OneOwner /\ Pending /\ Stored /\ GivenUp

-----------------------------------------------------------------------------
(* d maps no item that c does not.                                         *)
Shrinks(c, d) ==
    /\ MapAgrees(d)
    /\ \A i \in Items : d.m_map_iter[i] = c.m_map_iter[i] \/ d.m_map_iter[i] = End

(* Erasing any items leaves map and iterators in agreement.                *)
LEMMA EraseShrinks ==
    ASSUME NEW c, MapAgrees(c), NEW S, S \subseteq Items
    PROVE  Shrinks(c, Erase(c, S)) /\ \A i \in S : Erase(c, S).m_map_iter[i] = End
<1> DEFINE d == Erase(c, S)
<1>1. d.m_map = [k \in Keys |-> IF \E i \in S : c.m_map_iter[i] = k THEN End ELSE c.m_map[k]]
  BY DEF Erase
<1>2. d.m_map_iter = [i \in Items |-> IF i \in S THEN End ELSE c.m_map_iter[i]]
  BY DEF Erase
<1> HIDE DEF d
<1>3. d.m_map \in [Keys -> Items \cup {End}] /\ d.m_map_iter \in [Items -> Keys \cup {End}]
  BY <1>1, <1>2 DEF MapAgrees
<1>4. ASSUME NEW k \in Keys, NEW i \in Items
      PROVE  d.m_map[k] = i <=> d.m_map_iter[i] = k
  <2>1. CASE \E j \in S : c.m_map_iter[j] = k
    BY <2>1, <1>1, <1>2, EndAssumption DEF MapAgrees
  <2>2. CASE ~\E j \in S : c.m_map_iter[j] = k
    BY <2>2, <1>1, <1>2, EndAssumption DEF MapAgrees
  <2> QED
    BY <2>1, <2>2
<1>5. MapAgrees(d)
  BY <1>3, <1>4 DEF MapAgrees
<1>6. \A i \in Items : d.m_map_iter[i] = c.m_map_iter[i] \/ d.m_map_iter[i] = End
  BY <1>2
<1>7. \A i \in S : d.m_map_iter[i] = End
  BY <1>2
<1> QED
  BY <1>5, <1>6, <1>7 DEF Shrinks, d

(* So do the operations that erase, and a hit.                             *)
LEMMA OperationsShrink ==
    ASSUME NEW c, MapAgrees(c)
    PROVE  /\ Shrinks(c, c)
           /\ \A size : Shrinks(c, clean_used(c, size))
           /\ \A idle : Shrinks(c, clean_expired(c, idle))
           /\ \A i \in Items : Shrinks(c, erase_item(c, i)) /\ erase_item(c, i).m_map_iter[i] = End
           /\ \A k \in Keys : Shrinks(c, find_map(c, k))
           /\ \A i \in Items : Shrinks(c, Touch(c, i)) /\ Touch(c, i).m_map_iter = c.m_map_iter
<1>1. Shrinks(c, c)
  BY DEF Shrinks
<1>2. ASSUME NEW size PROVE Shrinks(c, clean_used(c, size))
  <2> DEFINE S == {i \in Items : \E n \in 1..Len(c.m_used) : n > size /\ c.m_used[n] = i}
  <2>1. S \subseteq Items
    OBVIOUS
  <2> HIDE DEF S
  <2>2. Shrinks(c, Erase(c, S))
    BY <2>1, EraseShrinks
  <2> QED
    BY <2>2 DEF clean_used, S
<1>3. ASSUME NEW idle PROVE Shrinks(c, clean_expired(c, idle))
  <2> DEFINE fresh == {n \in 1..Len(c.m_expired) : now - m_visited[c.m_expired[n]] < idle}
             S == {i \in Items : \E n \in 1..Len(c.m_expired) :
                                    c.m_expired[n] = i /\ \A f \in fresh : n > f}
  <2>1. S \subseteq Items
    OBVIOUS
  <2> HIDE DEF S
  <2>2. Shrinks(c, Erase(c, S))
    BY <2>1, EraseShrinks
  <2> QED
    BY <1>1, <2>2 DEF clean_expired, S
<1>4. ASSUME NEW i \in Items
      PROVE  Shrinks(c, erase_item(c, i)) /\ erase_item(c, i).m_map_iter[i] = End
  <2>1. Shrinks(c, Erase(c, {i})) /\ Erase(c, {i}).m_map_iter[i] = End
    BY EraseShrinks
  <2> QED
    BY <1>1, <2>1 DEF erase_item
<1>5. ASSUME NEW k \in Keys PROVE Shrinks(c, find_map(c, k))
  <2>1. CASE c.m_map[k] = End
    BY <2>1, <1>1 DEF find_map
  <2>2. CASE c.m_map[k] # End
    <3>1. c.m_map[k] \in Items
      BY <2>2 DEF MapAgrees
    <3>2. Shrinks(c, erase_item(c, c.m_map[k]))
      BY <3>1, <1>4
    <3> QED
      BY <3>2, <1>1 DEF find_map
  <2> QED
    BY <2>1, <2>2
<1>6. ASSUME NEW i \in Items
      PROVE  Shrinks(c, Touch(c, i)) /\ Touch(c, i).m_map_iter = c.m_map_iter
  <2>1. Touch(c, i).m_map = c.m_map /\ Touch(c, i).m_map_iter = c.m_map_iter
    BY DEF Touch
  <2> QED
    BY <2>1 DEF Shrinks, MapAgrees
<1> QED
  BY <1>1, <1>2, <1>3, <1>4, <1>5, <1>6

(* Erasing goes on: what shrinks twice shrinks.                            *)
LEMMA ShrinksTwice ==
    ASSUME NEW c, NEW d, NEW e, Shrinks(c, d), Shrinks(d, e)
    PROVE  Shrinks(c, e)
  BY DEF Shrinks

(* A miss maps one new item, at most.                                      *)
LEMMA InsertGrows ==
    ASSUME NEW c, MapAgrees(c), NEW k \in Keys, NEW i \in Items,
           c.m_map[k] = End, c.m_map_iter[i] = End
    PROVE  /\ MapAgrees(Insert(c, k, i))
           /\ \A j \in Items \ {i} : \/ Insert(c, k, i).m_map_iter[j] = c.m_map_iter[j]
                                     \/ Insert(c, k, i).m_map_iter[j] = End
<1> DEFINE d == [m_map |-> [c.m_map EXCEPT ![k] = i],
                 m_used |-> <<i>> \o c.m_used,
                 m_expired |-> <<i>> \o c.m_expired,
                 m_map_iter |-> [c.m_map_iter EXCEPT ![i] = k]]
<1>1. d.m_map = [c.m_map EXCEPT ![k] = i] /\ d.m_map_iter = [c.m_map_iter EXCEPT ![i] = k]
  OBVIOUS
<1> HIDE DEF d
<1>2. MapAgrees(d)
  <2>1. d.m_map \in [Keys -> Items \cup {End}] /\ d.m_map_iter \in [Items -> Keys \cup {End}]
    BY <1>1 DEF MapAgrees
  <2>2. ASSUME NEW l \in Keys, NEW j \in Items
        PROVE  d.m_map[l] = j <=> d.m_map_iter[j] = l
    BY <1>1, EndAssumption DEF MapAgrees
  <2> QED
    BY <2>1, <2>2 DEF MapAgrees
<1>3. Shrinks(d, clean_used(d, m_size))
  BY <1>2, OperationsShrink
<1>4. Insert(c, k, i) = clean_used(d, m_size)
  BY DEF Insert, d
<1>5. \A j \in Items \ {i} : d.m_map_iter[j] = c.m_map_iter[j]
  BY <1>1
<1> QED
  BY <1>3, <1>4, <1>5 DEF Shrinks

-----------------------------------------------------------------------------
(* The empty cache.                                                        *)
LEMMA InvInit == Init => Inv
<1> SUFFICES ASSUME Init PROVE Inv
  OBVIOUS
<1>1. /\ cache.m_map = [k \in Keys |-> End] /\ cache.m_map_iter = [i \in Items |-> End]
      /\ pc = [p \in Procs |-> "idle"] /\ item = [p \in Procs |-> End]
      /\ has_value \in [Items -> BOOLEAN] /\ ready \in [Items -> BOOLEAN]
  BY DEF Init, Empty
<1>2. MapAgrees(cache)
  BY <1>1, EndAssumption DEF MapAgrees
<1>3. Typed
  BY <1>1, <1>2 DEF Typed
<1>4. OneOwner /\ Pending /\ Stored /\ GivenUp
  BY <1>1, EndAssumption DEF OneOwner, Owner, Pending, Stored, GivenUp
<1> QED
  BY <1>3, <1>4 DEF Inv

(* A step that only erases entries.                                        *)
LEMMA ErasingInv ==
    ASSUME Inv, Shrinks(cache, cache'), UNCHANGED <<has_value, ready, pc, item>>
    PROVE  Inv'
<1>1. Typed'
  BY DEF Inv, Typed, Shrinks
<1>2. OneOwner' /\ Stored'
  BY DEF Inv, OneOwner, Owner, Stored
<1>3. Pending' /\ GivenUp'
  BY DEF Inv, Pending, GivenUp, Shrinks, Typed
<1> QED
  BY <1>1, <1>2, <1>3 DEF Inv

(* What find_map() and clean_expired() leave of the cache.                 *)
LEMMA LookedUp ==
    ASSUME Inv, NEW k \in Keys
    PROVE  /\ Shrinks(cache, find_map(cache, k))
           /\ Shrinks(cache, find_map(clean_expired(cache, m_idleTimeout), k))
<1>1. MapAgrees(cache)
  BY DEF Inv, Typed
<1>2. Shrinks(cache, clean_expired(cache, m_idleTimeout))
  BY <1>1, OperationsShrink
<1> DEFINE c == clean_expired(cache, m_idleTimeout)
<1>3. MapAgrees(c)
  BY <1>2 DEF Shrinks
<1> HIDE DEF c
<1>4. Shrinks(c, find_map(c, k))
  BY <1>3, OperationsShrink
<1>5. Shrinks(cache, find_map(c, k))
  BY <1>2, <1>4, ShrinksTwice DEF c
<1> QED
  BY <1>1, <1>5, OperationsShrink DEF c

(* A hit: the item found is mapped before and after.                       *)
LEMMA HitFacts ==
    ASSUME Inv, NEW c, Shrinks(cache, c), NEW k \in Keys, NEW i, i = c.m_map[k], i # End
    PROVE  /\ i \in Items /\ cache.m_map_iter[i] # End
           /\ Shrinks(cache, Touch(c, i))
<1>1. MapAgrees(c) /\ i \in Items
  BY DEF Shrinks, MapAgrees
<1>2. c.m_map_iter[i] = k /\ k # End
  BY <1>1, EndAssumption DEF MapAgrees
<1>3. cache.m_map_iter[i] # End
  BY <1>1, <1>2 DEF Shrinks
<1>4. Shrinks(c, Touch(c, i))
  BY <1>1, OperationsShrink
<1> QED
  BY <1>1, <1>3, <1>4, ShrinksTwice

(* lookup() that finds an entry joins whoever resolves it.                 *)
LEMMA LookupHitInv ==
    ASSUME Inv, NEW p \in Procs, NEW k \in Keys, LookupHit(p, k)
    PROVE  Inv'
<1> DEFINE c == find_map(clean_expired(cache, m_idleTimeout), k)
           i == c.m_map[k]
<1>1. /\ pc[p] = "idle" /\ i # End /\ cache' = Touch(c, i)
      /\ item' = [item EXCEPT ![p] = i] /\ pc' = [pc EXCEPT ![p] = "wait"]
      /\ has_value' = has_value /\ ready' = ready
  BY DEF LookupHit
<1>2. Shrinks(cache, c)
  BY LookedUp
<1> HIDE DEF c
<1>3. i \in Items /\ cache.m_map_iter[i] # End /\ Shrinks(cache, cache')
  BY <1>1, <1>2, HitFacts
<1> HIDE DEF i
<1>4. Typed'
  BY <1>1, <1>3, EndAssumption DEF Inv, Typed, Shrinks
<1>5. OneOwner' /\ Stored'
  BY <1>1, <1>3 DEF Inv, OneOwner, Owner, Stored, Typed
<1>6. Pending'
  BY <1>1, <1>3 DEF Inv, Pending, Shrinks, Typed
<1>7. GivenUp'
  BY <1>1, <1>3 DEF Inv, GivenUp, Shrinks, Typed
<1> QED
  BY <1>4, <1>5, <1>6, <1>7 DEF Inv

(* A miss: the new item is one that nobody refers to.                      *)
LEMMA MissFacts ==
    ASSUME Inv, NEW c, Shrinks(cache, c), NEW k \in Keys, c.m_map[k] = End,
           NEW i \in Unreferenced(c)
    PROVE  /\ i \in Items /\ \A q \in Procs : item[q] # i
           /\ MapAgrees(Insert(c, k, i))
           /\ \A j \in Items \ {i} : \/ Insert(c, k, i).m_map_iter[j] = cache.m_map_iter[j]
                                     \/ Insert(c, k, i).m_map_iter[j] = End
<1>1. i \in Items /\ c.m_map_iter[i] = End /\ \A q \in Procs : item[q] # i
  BY DEF Unreferenced
<1>2. /\ MapAgrees(Insert(c, k, i))
      /\ \A j \in Items \ {i} : \/ Insert(c, k, i).m_map_iter[j] = c.m_map_iter[j]
                                \/ Insert(c, k, i).m_map_iter[j] = End
  BY <1>1, InsertGrows DEF Shrinks
<1> QED
  BY <1>1, <1>2 DEF Shrinks

(* lookup() that misses becomes the owner of the new item.                 *)
LEMMA LookupAllocInv ==
    ASSUME Inv, NEW p \in Procs, NEW k \in Keys, LookupAlloc(p, k)
    PROVE  Inv'
<1> DEFINE c == find_map(clean_expired(cache, m_idleTimeout), k)
<1>1. Shrinks(cache, c) /\ c.m_map[k] = End /\ pc[p] = "idle"
  BY LookedUp DEF LookupAlloc
<1>2. PICK i \in Unreferenced(c) :
        /\ cache' = Insert(c, k, i)
        /\ has_value' = [has_value EXCEPT ![i] = FALSE]
        /\ ready' = [ready EXCEPT ![i] = FALSE]
        /\ item' = [item EXCEPT ![p] = i]
        /\ pc' = [pc EXCEPT ![p] = "resolve"]
  BY DEF LookupAlloc
<1> HIDE DEF c
<1>3. /\ i \in Items /\ \A q \in Procs : item[q] # i
      /\ MapAgrees(cache')
      /\ \A j \in Items \ {i} : cache'.m_map_iter[j] = cache.m_map_iter[j] \/ cache'.m_map_iter[j] = End
  BY <1>1, <1>2, MissFacts
<1>4. Typed'
  BY <1>1, <1>2, <1>3, EndAssumption DEF Inv, Typed
<1>5. OneOwner' /\ Stored'
  BY <1>1, <1>2, <1>3 DEF Inv, OneOwner, Owner, Stored, Typed
<1>6. Pending'
  BY <1>1, <1>2, <1>3 DEF Inv, Pending, Typed
<1>7. GivenUp'
  BY <1>1, <1>2, <1>3 DEF Inv, GivenUp, Typed
<1> QED
  BY <1>4, <1>5, <1>6, <1>7 DEF Inv

(* set() leaves the entry ready and filled.                                *)
LEMMA SetInv ==
    ASSUME Inv, NEW p \in Procs, NEW k \in Keys, set(p, k)
    PROVE  Inv'
<1> DEFINE c == find_map(cache, k)
<1>1. Shrinks(cache, c) /\ pc' = pc /\ item' = item
  BY LookedUp DEF set
<1>2. PICK i \in Items :
        /\ MapAgrees(cache')
        /\ \A j \in Items \ {i} : cache'.m_map_iter[j] = cache.m_map_iter[j] \/ cache'.m_map_iter[j] = End
        /\ has_value' = [has_value EXCEPT ![i] = TRUE]
        /\ ready' = [ready EXCEPT ![i] = TRUE]
  <2>1. CASE c.m_map[k] # End
    <3> DEFINE i == c.m_map[k]
    <3>1. /\ cache' = Touch(c, i) /\ has_value' = [has_value EXCEPT ![i] = TRUE]
          /\ ready' = [ready EXCEPT ![i] = TRUE]
      BY <2>1 DEF set
    <3> HIDE DEF c
    <3>2. i \in Items /\ Shrinks(cache, cache')
      BY <1>1, <2>1, <3>1, HitFacts
    <3> QED
      BY <3>1, <3>2 DEF Shrinks
  <2>2. CASE c.m_map[k] = End
    <3>1. PICK i \in Unreferenced(c) :
            /\ cache' = Insert(c, k, i)
            /\ has_value' = [has_value EXCEPT ![i] = TRUE]
            /\ ready' = [ready EXCEPT ![i] = TRUE]
      BY <2>2 DEF set
    <3> HIDE DEF c
    <3>2. /\ i \in Items /\ MapAgrees(Insert(c, k, i))
          /\ \A j \in Items \ {i} : \/ Insert(c, k, i).m_map_iter[j] = cache.m_map_iter[j]
                                    \/ Insert(c, k, i).m_map_iter[j] = End
      BY <1>1, <2>2, MissFacts
    <3>3. /\ MapAgrees(cache')
          /\ \A j \in Items \ {i} : cache'.m_map_iter[j] = cache.m_map_iter[j] \/ cache'.m_map_iter[j] = End
      BY <3>1, <3>2
    <3> QED
      BY <3>1, <3>2, <3>3
  <2> QED
    BY <2>1, <2>2
<1> HIDE DEF c
<1>3. Typed'
  BY <1>1, <1>2 DEF Inv, Typed
<1>4. OneOwner' /\ Stored'
  BY <1>1, <1>2 DEF Inv, OneOwner, Owner, Stored, Typed
<1>5. Pending' /\ GivenUp'
  BY <1>1, <1>2 DEF Inv, Pending, GivenUp, Typed
<1> QED
  BY <1>3, <1>4, <1>5 DEF Inv

(* The steps of lookup() after it has left the lock.                       *)
LEMMA ReturnInv ==
    ASSUME Inv, NEW p \in Procs, Return(p)
    PROVE  Inv'
<1>1. CASE ResolveStore(p)
  <2>1. Typed'
    BY <1>1, EndAssumption DEF Inv, Typed, ResolveStore
  <2>2. OneOwner' /\ Stored' /\ Pending' /\ GivenUp'
    BY <1>1 DEF Inv, Typed, OneOwner, Owner, Stored, Pending, GivenUp, ResolveStore
  <2> QED
    BY <2>1, <2>2 DEF Inv
<1>2. CASE ResolveSignal(p)
  <2>1. Typed' /\ OneOwner'
    BY <1>2, EndAssumption DEF Inv, Typed, OneOwner, Owner, ResolveSignal
  <2>2. Stored' /\ Pending' /\ GivenUp'
    BY <1>2, EndAssumption DEF Inv, Typed, Stored, Pending, GivenUp, ResolveSignal
  <2> QED
    BY <2>1, <2>2 DEF Inv
<1>3. CASE ResolveFail(p)
  <2>1. Typed' /\ OneOwner'
    BY <1>3, EndAssumption DEF Inv, Typed, OneOwner, Owner, ResolveFail
  <2>2. Stored' /\ Pending' /\ GivenUp'
    BY <1>3 DEF Inv, Typed, Stored, Pending, GivenUp, ResolveFail
  <2> QED
    BY <2>1, <2>2 DEF Inv
<1>4. CASE GiveUp(p)
  <2>1. /\ pc[p] = "failed" /\ item[p] \in Items /\ cache' = erase_item(cache, item[p])
        /\ pc' = [pc EXCEPT ![p] = "idle"] /\ item' = [item EXCEPT ![p] = End]
        /\ has_value' = has_value /\ ready' = ready
    BY <1>4 DEF GiveUp, Inv, Typed
  <2>2. Shrinks(cache, cache') /\ cache'.m_map_iter[item[p]] = End
    BY <2>1, OperationsShrink DEF Inv, Typed
  <2>3. Typed' /\ OneOwner' /\ Stored'
    BY <2>1, <2>2, EndAssumption DEF Inv, Typed, OneOwner, Owner, Stored, Shrinks
  <2>4. Pending' /\ GivenUp'
    BY <2>1, <2>2, EndAssumption DEF Inv, Typed, Pending, GivenUp, Shrinks
  <2> QED
    BY <2>3, <2>4 DEF Inv
<1>5. CASE WaitReturns(p)
  <2>1. Typed' /\ OneOwner' /\ Stored'
    BY <1>5, EndAssumption DEF Inv, Typed, OneOwner, Owner, Stored, WaitReturns
  <2>2. Pending' /\ GivenUp'
    BY <1>5, EndAssumption DEF Inv, Typed, Pending, GivenUp, WaitReturns
  <2> QED
    BY <2>1, <2>2 DEF Inv
<1> QED
  BY <1>1, <1>2, <1>3, <1>4, <1>5 DEF Return

(* Every step preserves the invariant.                                     *)
LEMMA InvNext == Inv /\ [Next]_vars => Inv'
<1> SUFFICES ASSUME Inv, [Next]_vars
             PROVE  Inv'
  OBVIOUS
<1>1. MapAgrees(cache)
  BY DEF Inv, Typed
<1>2. CASE Tick \/ SetBack \/ UNCHANGED vars
  <2>1. Shrinks(cache, cache') /\ UNCHANGED <<has_value, ready, pc, item>>
    BY <1>1, <1>2, OperationsShrink DEF Tick, SetBack, vars
  <2> QED
    BY <2>1, ErasingInv
<1>3. ASSUME NEW p \in Procs, Return(p) PROVE Inv'
  BY <1>3, ReturnInv
<1>4. ASSUME NEW p \in Procs, clear(p) PROVE Inv'
  <2> DEFINE S == {i \in Items : i \in ItemsOf(cache.m_expired)}
  <2>1. cache' = Erase(cache, S) /\ UNCHANGED <<has_value, ready, pc, item>>
    BY <1>4 DEF clear
  <2>2. S \subseteq Items
    OBVIOUS
  <2> HIDE DEF S
  <2>3. Shrinks(cache, cache')
    BY <1>1, <2>1, <2>2, EraseShrinks
  <2> QED
    BY <2>1, <2>3, ErasingInv
<1>5. ASSUME NEW p \in Procs, NEW k \in Keys,
             set(p, k) \/ LookupHit(p, k) \/ LookupAlloc(p, k)
      PROVE  Inv'
  BY <1>5, SetInv, LookupHitInv, LookupAllocInv
<1>6. ASSUME NEW p \in Procs, NEW k \in Keys, LookupMiss(p, k) PROVE Inv'
  <2>1. cache' = find_map(clean_expired(cache, m_idleTimeout), k)
        /\ UNCHANGED <<has_value, ready, pc, item>>
    BY <1>6 DEF LookupMiss
  <2> QED
    BY <2>1, LookedUp, ErasingInv
<1>7. ASSUME NEW p \in Procs, NEW k \in Keys, erase(p, k) PROVE Inv'
  <2> DEFINE c == find_map(cache, k)
  <2>1. /\ cache' = IF c.m_map[k] = End THEN c ELSE erase_item(c, c.m_map[k])
        /\ UNCHANGED <<has_value, ready, pc, item>>
    BY <1>7 DEF erase
  <2>2. Shrinks(cache, c)
    BY LookedUp
  <2> HIDE DEF c
  <2>3. c.m_map[k] # End => Shrinks(c, erase_item(c, c.m_map[k]))
    BY <2>2, OperationsShrink DEF Shrinks, MapAgrees
  <2>4. Shrinks(cache, cache')
    BY <2>1, <2>2, <2>3, ShrinksTwice
  <2> QED
    BY <2>1, <2>4, ErasingInv
<1>8. ASSUME NEW p \in Procs, NEW size \in Sizes, resize(p, size) PROVE Inv'
  <2>1. cache' = clean_used(cache, size) /\ UNCHANGED <<has_value, ready, pc, item>>
    BY <1>8 DEF resize
  <2>2. Shrinks(cache, cache')
    BY <1>1, <2>1, OperationsShrink
  <2> QED
    BY <2>1, <2>2, ErasingInv
<1>9. ASSUME NEW p \in Procs, NEW t \in Timeouts, set_timeout(p, t[1], t[2]) PROVE Inv'
  <2>1. cache' = clean_expired(cache, m_idleTimeout') /\ UNCHANGED <<has_value, ready, pc, item>>
    BY <1>9 DEF set_timeout
  <2>2. Shrinks(cache, cache')
    BY <1>1, <2>1, OperationsShrink
  <2> QED
    BY <2>1, <2>2, ErasingInv
<1> QED
  BY <1>2, <1>3, <1>4, <1>5, <1>6, <1>7, <1>8, <1>9 DEF Next

(* Inv is an invariant of the cache.                                       *)
THEOREM Invariance == Spec => []Inv
  BY InvInit, InvNext, PTL DEF Spec

(* lookup(): no thread is left waiting on an entry that nobody resolves,     *)
(* whatever set(), erase(), clear(), resize() and the timeouts do to the     *)
(* entry while its resolver runs.                                          *)
THEOREM WaitersServed == Spec => []WaiterServed
<1>1. Inv => WaiterServed
  <2> SUFFICES ASSUME Inv, NEW p \in Procs, pc[p] = "wait", ~ready[item[p]]
               PROVE  \E q \in Procs : pc[q] \in {"resolve", "signal"} /\ item[q] = item[p]
    BY DEF WaiterServed
  <2>1. item[p] \in Items
    BY DEF Inv, Typed
  <2> QED
    BY <2>1 DEF Inv, Pending
<1> QED
  BY <1>1, Invariance, PTL

(* lookup(): an entry that is ready and has no value is about to be erased    *)
(* by the lookup whose resolver failed; no other lookup finds it for good.   *)
THEOREM NoEmptyEntries == Spec => []NoEmptyEntry
<1>1. Inv => NoEmptyEntry
  <2> SUFFICES ASSUME Inv, NEW k \in Keys, NEW i, i = cache.m_map[k],
                      i # End, ready[i], ~has_value[i]
               PROVE  \E p \in Procs : pc[p] = "failed" /\ item[p] = i
    BY DEF NoEmptyEntry
  <2>1. i \in Items /\ cache.m_map_iter[i] = k /\ k # End
    BY EndAssumption DEF Inv, Typed, MapAgrees
  <2> QED
    BY <2>1 DEF Inv, GivenUp
<1> QED
  BY <1>1, Invariance, PTL

(* erase_item(): a lookup whose resolver failed removes its own entry or      *)
(* none, however often the key changed hands meanwhile.                    *)
THEOREM ErasesOwn == Spec => ErasesOwnEntry
<1> DEFINE A == \A p \in Procs : pc[p] = "failed" /\ pc'[p] = "idle" =>
                   \A k \in Keys : cache'.m_map[k] # cache.m_map[k] => cache.m_map[k] = item[p]
<1>1. Inv /\ [Next]_vars => [A]_vars
  <2> SUFFICES ASSUME Inv, Next, NEW p \in Procs, pc[p] = "failed", pc'[p] = "idle",
                      NEW k \in Keys, cache'.m_map[k] # cache.m_map[k]
               PROVE  cache.m_map[k] = item[p]
    BY DEF A
  <2>1. GiveUp(p)
    <3>1. pc \in [Procs -> {"idle", "wait", "resolve", "signal", "failed"}] /\ pc' # pc
      BY DEF Inv, Typed
    <3>2. ~Tick /\ ~SetBack
      BY <3>1 DEF Tick, SetBack
    <3>3. ASSUME NEW q \in Procs
          PROVE  /\ ~clear(q) /\ \A size \in Sizes : ~resize(q, size)
                 /\ \A t \in Timeouts : ~set_timeout(q, t[1], t[2])
                 /\ \A j \in Keys : ~set(q, j) /\ ~LookupMiss(q, j) /\ ~erase(q, j)
      BY <3>1 DEF clear, resize, set_timeout, set, LookupMiss, erase
    <3>4. ASSUME NEW q \in Procs, NEW j \in Keys, LookupHit(q, j) \/ LookupAlloc(q, j)
          PROVE  FALSE
      <4>1. pc' = [pc EXCEPT ![q] = "wait"] \/ pc' = [pc EXCEPT ![q] = "resolve"]
        BY <3>4 DEF LookupHit, LookupAlloc
      <4> QED
        BY <3>1, <4>1
    <3>5. PICK q \in Procs : Return(q)
      BY <3>2, <3>3, <3>4 DEF Next
    <3>6. q = p
      BY <3>1, <3>5 DEF Return, ResolveStore, ResolveSignal, ResolveFail, GiveUp, WaitReturns
    <3> QED
      BY <3>5, <3>6 DEF Return, ResolveStore, ResolveSignal, ResolveFail, WaitReturns
  <2>2. item[p] \in Items /\ cache' = Erase(cache, {item[p]})
    BY <2>1 DEF GiveUp, erase_item, Inv, Typed
  <2>3. cache.m_map_iter[item[p]] = k
    BY <2>2 DEF Erase
  <2> QED
    BY <2>2, <2>3 DEF Inv, Typed, MapAgrees
<1> QED
  BY <1>1, Invariance, PTL DEF Spec, ErasesOwnEntry

-----------------------------------------------------------------------------
(* What Without() has kept of the first n items of a list: w, whose items   *)
(* stood at the increasing positions f.                                    *)
Keeps(list, S, n, w, f) ==
    /\ w \in Seq(Items) /\ f \in [1..Len(w) -> 1..n]
    /\ \A m \in 1..Len(w) : w[m] = list[f[m]] /\ w[m] \notin S /\ m <= f[m]
    /\ \A l, m \in 1..Len(w) : l < m => f[l] < f[m]
    /\ \A j \in 1..n : list[j] \in S \/ \E m \in 1..Len(w) : f[m] = j

(* keep, as Without() defines it, up to n.                                 *)
Step(list, S, g, n) ==
    IF n = 0 THEN << >> ELSE IF list[n] \in S THEN g[n - 1] ELSE Append(g[n - 1], list[n])
Table(list, S, g, n) == g = [i \in 0..n |-> Step(list, S, g, i)]

(* Induction, as a statement about a set.                                  *)
LEMMA Induction ==
    ASSUME NEW T \in SUBSET Nat, 0 \in T, \A n \in T : n + 1 \in T
    PROVE  T = Nat
<1> SUFFICES ASSUME Nat \ T # {} PROVE FALSE
  OBVIOUS
<1>1. PICK x \in Nat \ T : \A y \in Nat \ T : ~ (<<y, x>> \in OpToRel(<, Nat))
  BY NatLessThanWellFounded, WFMin
<1>2. \A y \in Nat \ T : ~(y < x)
  BY <1>1 DEF OpToRel
<1>3. x - 1 \in Nat /\ x - 1 < x
  OBVIOUS
<1>4. x - 1 \in T
  BY <1>2, <1>3
<1> QED
  BY <1>3, <1>4

(* The table exists.                                                       *)
LEMMA TableExists ==
    ASSUME NEW list, NEW S, NEW n \in Nat
    PROVE  \E g : Table(list, S, g, n)
<1> DEFINE T == {k \in Nat : \E g : Table(list, S, g, k)}
<1>1. 0 \in T
  <2> DEFINE g == [i \in 0..0 |-> << >>]
  <2>1. Table(list, S, g, 0)
    BY DEF Table, Step
  <2> QED
    BY <2>1
<1>2. ASSUME NEW k \in T PROVE k + 1 \in T
  <2>1. PICK g : Table(list, S, g, k)
    OBVIOUS
  <2> DEFINE h == [i \in 0..(k + 1) |-> IF i <= k THEN g[i] ELSE Step(list, S, g, k + 1)]
  <2>2. \A i \in 0..k : g[i] = Step(list, S, g, i)
    BY <2>1 DEF Table
  <2>3. \A i \in 0..k : h[i] = g[i]
    OBVIOUS
  <2>4. h[k + 1] = Step(list, S, g, k + 1)
    OBVIOUS
  <2>5. \A i \in 0..(k + 1) : Step(list, S, h, i) = Step(list, S, g, i)
    <3> SUFFICES ASSUME NEW i \in 0..(k + 1), i # 0 PROVE h[i - 1] = g[i - 1]
      BY DEF Step
    <3> i - 1 \in 0..k
      OBVIOUS
    <3> QED
      BY <2>3
  <2>6. \A i \in 0..(k + 1) : h[i] = Step(list, S, h, i)
    BY <2>2, <2>3, <2>4, <2>5
  <2>7. h = [i \in 0..(k + 1) |-> h[i]]
    OBVIOUS
  <2> HIDE DEF h
  <2>8. Table(list, S, h, k + 1)
    BY <2>6, <2>7 DEF Table
  <2> QED
    BY <2>8
<1> HIDE DEF T
<1>3. T = Nat
  BY <1>1, <1>2, Induction DEF T
<1> QED
  BY <1>3 DEF T

(* One more item.                                                          *)
LEMMA KeepsStep ==
    ASSUME NEW list \in Seq(Items), NEW S, NEW n \in Nat, n + 1 <= Len(list),
           NEW w, NEW f, Keeps(list, S, n, w, f)
    PROVE  \E e : Keeps(list, S, n + 1, IF list[n + 1] \in S THEN w ELSE Append(w, list[n + 1]), e)
<1>1. CASE list[n + 1] \in S
  <2>1. Len(w) \in Nat
    BY DEF Keeps
  <2>2. Keeps(list, S, n + 1, w, f)
    BY <1>1, <2>1 DEF Keeps
  <2> QED
    BY <1>1, <2>2
<1>2. CASE list[n + 1] \notin S
  <2> DEFINE x == list[n + 1]
             v == Append(w, x)
             e == [m \in 1..(Len(w) + 1) |-> IF m <= Len(w) THEN f[m] ELSE n + 1]
  <2>1. x \in Items /\ Len(w) \in Nat /\ w \in Seq(Items)
    BY ElementOfSeq DEF Keeps
  <2> HIDE DEF x
  <2>2. /\ v \in Seq(Items) /\ Len(v) = Len(w) + 1 /\ v[Len(w) + 1] = x
        /\ \A i \in 1..Len(w) : v[i] = w[i]
    BY <2>1, AppendProperties
  <2> HIDE DEF v
  <2>3. e \in [1..Len(v) -> 1..(n + 1)]
    BY <2>1, <2>2 DEF Keeps
  <2>4. \A m \in 1..Len(w) : e[m] = f[m] /\ f[m] \in 1..n
    <3>1. f \in [1..Len(w) -> 1..n]
      BY DEF Keeps
    <3>2. \A m \in 1..Len(w) : m \in 1..(Len(w) + 1) /\ m <= Len(w)
      BY <2>1
    <3> QED
      BY <3>1, <3>2
  <2>5. e[Len(w) + 1] = n + 1
    BY <2>1
  <2>6. Len(w) <= n
    <3>1. CASE Len(w) = 0
      BY <3>1
    <3>2. CASE Len(w) # 0
      <4>1. Len(w) \in 1..Len(w)
        BY <3>2, <2>1
      <4>2. Len(w) <= f[Len(w)] /\ f[Len(w)] \in 1..n
        BY <4>1, <2>4 DEF Keeps
      <4> QED
        BY <4>2, <2>1
    <3> QED
      BY <3>1, <3>2
  <2> HIDE DEF e
  <2>7. \A m \in 1..Len(v) : m \in 1..Len(w) \/ m = Len(w) + 1
    BY <2>1, <2>2
  <2>8. \A m \in 1..Len(v) : v[m] = list[e[m]] /\ v[m] \notin S /\ m <= e[m]
    <3> SUFFICES ASSUME NEW m \in 1..Len(v) PROVE v[m] = list[e[m]] /\ v[m] \notin S /\ m <= e[m]
      OBVIOUS
    <3>1. CASE m \in 1..Len(w)
      BY <3>1, <2>2, <2>4 DEF Keeps
    <3>2. CASE m = Len(w) + 1
      BY <3>2, <1>2, <2>1, <2>2, <2>5, <2>6 DEF x
    <3> QED
      BY <3>1, <3>2, <2>7
  <2>9. \A l, m \in 1..Len(v) : l < m => e[l] < e[m]
    <3> SUFFICES ASSUME NEW l \in 1..Len(v), NEW m \in 1..Len(v), l < m PROVE e[l] < e[m]
      OBVIOUS
    <3>1. l \in 1..Len(w)
      BY <2>1, <2>2
    <3>2. CASE m \in 1..Len(w)
      BY <3>1, <3>2, <2>4 DEF Keeps
    <3>3. CASE m = Len(w) + 1
      BY <3>1, <3>3, <2>4, <2>5
    <3> QED
      BY <3>2, <3>3, <2>7
  <2>10. \A j \in 1..(n + 1) : list[j] \in S \/ \E m \in 1..Len(v) : e[m] = j
    <3> SUFFICES ASSUME NEW j \in 1..(n + 1), list[j] \notin S
                 PROVE  \E m \in 1..Len(v) : e[m] = j
      OBVIOUS
    <3>1. CASE j = n + 1
      <4> Len(w) + 1 \in 1..Len(v)
        BY <2>1, <2>2
      <4> QED
        BY <3>1, <2>5
    <3>2. CASE j # n + 1
      <4> j \in 1..n
        BY <3>2
      <4>1. PICK m \in 1..Len(w) : f[m] = j
        BY DEF Keeps
      <4> m \in 1..Len(v)
        BY <2>1, <2>2
      <4> QED
        BY <4>1, <2>4
    <3> QED
      BY <3>1, <3>2
  <2>11. Keeps(list, S, n + 1, v, e)
    BY <2>2, <2>3, <2>8, <2>9, <2>10 DEF Keeps
  <2> QED
    BY <1>2, <2>11 DEF v, x
<1> QED
  BY <1>1, <1>2

(* What unlinking the items of S leaves.                                   *)
LEMMA WithoutKeeps ==
    ASSUME NEW list \in Seq(Items), NEW S
    PROVE  \E f : Keeps(list, S, Len(list), Without(list, S), f)
<1>1. Len(list) \in Nat
  OBVIOUS
<1> DEFINE g == CHOOSE h : Table(list, S, h, Len(list))
<1>2. Table(list, S, g, Len(list))
  BY <1>1, TableExists
<1>3. Without(list, S) = g[Len(list)]
  BY DEF Without, Table, Step
<1> HIDE DEF g
<1>4. \A i \in 0..Len(list) : g[i] = Step(list, S, g, i)
  BY <1>2 DEF Table
<1> DEFINE T == {n \in Nat : n <= Len(list) => \E f : Keeps(list, S, n, g[n], f)}
<1>5. 0 \in T
  <2>1. g[0] = << >>
    BY <1>1, <1>4 DEF Step
  <2> DEFINE f == [m \in 1..0 |-> m]
  <2>2. Keeps(list, S, 0, << >>, f)
    BY DEF Keeps
  <2> QED
    BY <2>1, <2>2
<1>6. ASSUME NEW n \in T PROVE n + 1 \in T
  <2> SUFFICES ASSUME n + 1 <= Len(list) PROVE \E f : Keeps(list, S, n + 1, g[n + 1], f)
    OBVIOUS
  <2>1. PICK f : Keeps(list, S, n, g[n], f)
    BY <1>1
  <2>2. g[n + 1] = IF list[n + 1] \in S THEN g[n] ELSE Append(g[n], list[n + 1])
    <3> n + 1 \in 0..Len(list) /\ n + 1 # 0 /\ (n + 1) - 1 = n
      BY <1>1
    <3> QED
      BY <1>4 DEF Step
  <2> QED
    BY <2>1, <2>2, KeepsStep
<1> HIDE DEF T
<1>7. T = Nat
  BY <1>5, <1>6, Induction DEF T
<1> QED
  BY <1>1, <1>3, <1>7 DEF T

-----------------------------------------------------------------------------
In(list, i) == \E n \in 1..Len(list) : list[n] = i
Once(list) == \A m, n \in 1..Len(list) : list[m] = list[n] => m = n

(* The items of R are in front, the last visited first by the times v.      *)
InOrder(list, v, R) ==
    \A m, n \in 1..Len(list) :
        m < n /\ list[n] \in R => list[m] \in R /\ v[list[m]] >= v[list[n]]

(* Both lists are the same, and hold every mapped item once.                *)
Listed(c) ==
    /\ c \in [m_map : [Keys -> Items \cup {End}], m_used : Seq(Items),
              m_expired : Seq(Items), m_map_iter : [Items -> Keys \cup {End}]]
    /\ c.m_expired = c.m_used
    /\ Once(c.m_used)
    /\ \A i \in Items : c.m_map_iter[i] # End <=> In(c.m_used, i)

(* The size of an interval.                                                *)
LEMMA IntervalSize ==
    ASSUME NEW n \in Nat
    PROVE  IsFiniteSet(1..n) /\ Cardinality(1..n) = n
<1>1. 1 \in Int /\ n \in Int
  OBVIOUS
<1>2. IsFiniteSet(1..n) /\ Cardinality(1..n) = IF 1 > n THEN 0 ELSE n - 1 + 1
  BY <1>1, FS_Interval
<1> QED
  BY <1>2

(* Unlinking items leaves the others in their order.                       *)
LEMMA Unlinked ==
    ASSUME NEW u \in Seq(Items), NEW S, NEW w, w = Without(u, S)
    PROVE  /\ w \in Seq(Items) /\ Len(w) \in Nat /\ Len(w) <= Len(u)
           /\ Once(u) => Once(w)
           /\ \A i : In(w, i) <=> In(u, i) /\ i \notin S
           /\ \A v, R : InOrder(u, v, R) => InOrder(w, v, R)
           /\ (\E n \in 1..Len(u) : u[n] \in S) => Len(w) < Len(u)
           /\ \A size \in Nat : (\A n \in 1..Len(u) : n > size => u[n] \in S) => Len(w) <= size
<1>1. PICK f : Keeps(u, S, Len(u), w, f)
  BY WithoutKeeps
<1>2. /\ w \in Seq(Items) /\ Len(w) \in Nat /\ Len(u) \in Nat
      /\ f \in [1..Len(w) -> 1..Len(u)]
  BY <1>1 DEF Keeps
<1>3. \A m \in 1..Len(w) : f[m] \in 1..Len(u) /\ w[m] = u[f[m]] /\ w[m] \notin S /\ m <= f[m]
  BY <1>1 DEF Keeps
<1>4. \A l, m \in 1..Len(w) : l < m => f[l] < f[m]
  BY <1>1 DEF Keeps
<1>5. \A l, m \in 1..Len(w) : f[l] = f[m] => l = m
  <2> SUFFICES ASSUME NEW l \in 1..Len(w), NEW m \in 1..Len(w), f[l] = f[m] PROVE l = m
    OBVIOUS
  <2>1. f[l] \in Int /\ ~(f[l] < f[m]) /\ ~(f[m] < f[l])
    BY <1>3
  <2>2. ~(l < m) /\ ~(m < l)
    BY <2>1, <1>4
  <2> QED
    BY <2>2, <1>2
<1>6. Len(w) <= Len(u)
  <2>1. CASE Len(w) = 0
    BY <2>1, <1>2
  <2>2. CASE Len(w) # 0
    <3>1. Len(w) \in 1..Len(w)
      BY <1>2, <2>2
    <3>2. f[Len(w)] \in 1..Len(u) /\ Len(w) <= f[Len(w)]
      BY <3>1, <1>3
    <3> QED
      BY <3>2, <1>2
  <2> QED
    BY <2>1, <2>2
<1>7. Once(u) => Once(w)
  BY <1>3, <1>5 DEF Once
<1>8. ASSUME NEW i PROVE In(w, i) <=> In(u, i) /\ i \notin S
  <2>1. ASSUME In(w, i) PROVE In(u, i) /\ i \notin S
    BY <2>1, <1>3 DEF In
  <2>2. ASSUME In(u, i), i \notin S PROVE In(w, i)
    <3>1. PICK n \in 1..Len(u) : u[n] = i
      BY <2>2 DEF In
    <3>2. PICK m \in 1..Len(w) : f[m] = n
      BY <1>1, <2>2, <3>1 DEF Keeps
    <3> QED
      BY <3>1, <3>2, <1>3 DEF In
  <2> QED
    BY <2>1, <2>2
<1>9. ASSUME NEW v, NEW R, InOrder(u, v, R) PROVE InOrder(w, v, R)
  <2> SUFFICES ASSUME NEW l \in 1..Len(w), NEW m \in 1..Len(w), l < m, w[m] \in R
               PROVE  w[l] \in R /\ v[w[l]] >= v[w[m]]
    BY DEF InOrder
  <2>1. f[l] < f[m] /\ f[l] \in 1..Len(u) /\ f[m] \in 1..Len(u) /\ w[l] = u[f[l]] /\ w[m] = u[f[m]]
    BY <1>3, <1>4
  <2>2. u[f[l]] \in R /\ v[u[f[l]]] >= v[u[f[m]]]
    BY <2>1, <1>9 DEF InOrder
  <2> QED
    BY <2>1, <2>2
<1>10. ASSUME NEW n \in 1..Len(u), u[n] \in S PROVE Len(w) < Len(u)
  <2> DEFINE T == (1..Len(u)) \ {n}
  <2>1. IsFiniteSet(1..Len(u)) /\ Cardinality(1..Len(u)) = Len(u)
    BY <1>2, IntervalSize
  <2>2. IsFiniteSet(T) /\ Cardinality(T) = Len(u) - 1
    BY <2>1, FS_RemoveElement
  <2>3. Cardinality(1..Len(w)) = Len(w)
    BY <1>2, IntervalSize
  <2>4. \A m \in 1..Len(w) : f[m] \in T
    BY <1>3, <1>10
  <2> HIDE DEF T
  <2>5. f \in Injection(1..Len(w), T)
    BY <1>2, <1>5, <2>4 DEF Injection, IsInjective
  <2>6. Cardinality(1..Len(w)) <= Cardinality(T)
    BY <2>2, <2>5, FS_Injection
  <2> QED
    BY <1>2, <2>2, <2>3, <2>6
<1>11. ASSUME NEW size \in Nat, \A n \in 1..Len(u) : n > size => u[n] \in S
       PROVE  Len(w) <= size
  <2> SUFFICES ASSUME Len(w) > size PROVE FALSE
    BY <1>2
  <2>1. Len(w) \in 1..Len(w)
    BY <1>2
  <2>2. f[Len(w)] \in 1..Len(u) /\ u[f[Len(w)]] \notin S /\ Len(w) <= f[Len(w)]
    BY <2>1, <1>3
  <2>3. f[Len(w)] > size
    BY <2>2, <1>2
  <2> QED
    BY <2>2, <2>3, <1>11
<1> QED
  BY <1>2, <1>6, <1>7, <1>8, <1>9, <1>10, <1>11

(* d keeps some of what c lists, in the same order.                        *)
Trims(c, d) ==
    /\ Listed(d) /\ Len(d.m_used) <= Len(c.m_used)
    /\ \A v, R : InOrder(c.m_used, v, R) => InOrder(d.m_used, v, R)

(* Erasing any items.                                                      *)
LEMMA EraseTrims ==
    ASSUME NEW c, Listed(c), NEW S, S \subseteq Items
    PROVE  Trims(c, Erase(c, S))
<1> DEFINE d == Erase(c, S)
           w == Without(c.m_used, S)
<1>1. /\ d.m_map = [k \in Keys |-> IF \E i \in S : c.m_map_iter[i] = k THEN End ELSE c.m_map[k]]
      /\ d.m_map_iter = [i \in Items |-> IF i \in S THEN End ELSE c.m_map_iter[i]]
      /\ d.m_used = w /\ d.m_expired = w
      /\ d = [m_map |-> d.m_map, m_used |-> d.m_used, m_expired |-> d.m_expired,
              m_map_iter |-> d.m_map_iter]
  BY DEF Erase, Listed
<1>2. c.m_used \in Seq(Items) /\ c.m_map \in [Keys -> Items \cup {End}]
      /\ c.m_map_iter \in [Items -> Keys \cup {End}]
  BY DEF Listed
<1> HIDE DEF d
<1>3. /\ w \in Seq(Items) /\ Len(w) <= Len(c.m_used) /\ Once(w)
      /\ \A i : In(w, i) <=> In(c.m_used, i) /\ i \notin S
      /\ \A v, R : InOrder(c.m_used, v, R) => InOrder(w, v, R)
  BY <1>2, Unlinked DEF Listed
<1> HIDE DEF w
<1>4. d.m_map \in [Keys -> Items \cup {End}] /\ d.m_map_iter \in [Items -> Keys \cup {End}]
  BY <1>1, <1>2
<1>5. d \in [m_map : [Keys -> Items \cup {End}], m_used : Seq(Items),
             m_expired : Seq(Items), m_map_iter : [Items -> Keys \cup {End}]]
  BY <1>1, <1>3, <1>4
<1>6. \A i \in Items : d.m_map_iter[i] # End <=> In(w, i)
  BY <1>1, <1>3 DEF Listed
<1>7. Listed(d)
  BY <1>1, <1>3, <1>5, <1>6 DEF Listed
<1> QED
  BY <1>1, <1>3, <1>7 DEF Trims, d

(* Trimming goes on.                                                       *)
LEMMA TrimsTwice ==
    ASSUME NEW c, NEW d, NEW e, Listed(c), Trims(c, d), Trims(d, e)
    PROVE  Trims(c, e)
<1>1. Len(c.m_used) \in Nat /\ Len(d.m_used) \in Nat /\ Len(e.m_used) \in Nat
  BY DEF Trims, Listed
<1> QED
  BY <1>1 DEF Trims

(* The operations that erase.                                              *)
LEMMA OperationsTrim ==
    ASSUME NEW c, Listed(c)
    PROVE  /\ Trims(c, c)
           /\ \A size \in Nat : Trims(c, clean_used(c, size)) /\ Len(clean_used(c, size).m_used) <= size
           /\ \A idle : Trims(c, clean_expired(c, idle))
           /\ \A i \in Items : Trims(c, erase_item(c, i))
           /\ MapAgrees(c) => \A k \in Keys : Trims(c, find_map(c, k))
<1>1. Trims(c, c)
  <2> Len(c.m_used) \in Nat
    BY DEF Listed
  <2> QED
    BY DEF Trims
<1>2. ASSUME NEW size \in Nat
      PROVE  Trims(c, clean_used(c, size)) /\ Len(clean_used(c, size).m_used) <= size
  <2> DEFINE S == {i \in Items : \E n \in 1..Len(c.m_used) : n > size /\ c.m_used[n] = i}
  <2>1. S \subseteq Items /\ c.m_used \in Seq(Items)
    BY DEF Listed
  <2>2. \A n \in 1..Len(c.m_used) : n > size => c.m_used[n] \in S
    BY <2>1, ElementOfSeq
  <2> HIDE DEF S
  <2>3. Trims(c, Erase(c, S))
    BY <2>1, EraseTrims
  <2>4. Len(Without(c.m_used, S)) <= size
    BY <2>1, <2>2, Unlinked
  <2>5. Erase(c, S).m_used = Without(c.m_used, S)
    BY DEF Erase
  <2>6. clean_used(c, size) = Erase(c, S)
    BY DEF clean_used, S
  <2> QED
    BY <2>3, <2>4, <2>5, <2>6
<1>3. ASSUME NEW idle PROVE Trims(c, clean_expired(c, idle))
  <2> DEFINE fresh == {n \in 1..Len(c.m_expired) : now - m_visited[c.m_expired[n]] < idle}
             S == {i \in Items : \E n \in 1..Len(c.m_expired) :
                                    c.m_expired[n] = i /\ \A f \in fresh : n > f}
  <2>1. S \subseteq Items
    OBVIOUS
  <2> HIDE DEF S
  <2>2. Trims(c, Erase(c, S))
    BY <2>1, EraseTrims
  <2> QED
    BY <1>1, <2>2 DEF clean_expired, S
<1>4. ASSUME NEW i \in Items PROVE Trims(c, erase_item(c, i))
  <2>1. Trims(c, Erase(c, {i}))
    BY EraseTrims
  <2> QED
    BY <1>1, <2>1 DEF erase_item
<1>5. ASSUME MapAgrees(c), NEW k \in Keys PROVE Trims(c, find_map(c, k))
  <2>1. CASE c.m_map[k] = End
    BY <2>1, <1>1 DEF find_map
  <2>2. CASE c.m_map[k] # End
    <3>1. c.m_map[k] \in Items
      BY <1>5, <2>2 DEF MapAgrees
    <3>2. Trims(c, erase_item(c, c.m_map[k]))
      BY <3>1, <1>4
    <3> QED
      BY <3>2, <1>1 DEF find_map
  <2> QED
    BY <2>1, <2>2
<1> QED
  BY <1>1, <1>2, <1>3, <1>4, <1>5

(* An item that is put in front, visited at t, which no visit of R is after. *)
LEMMA Fronted ==
    ASSUME NEW w \in Seq(Items), NEW i \in Items, Once(w), ~In(w, i),
           NEW v \in [Items -> Int], NEW t \in Int, NEW R, \A j \in R \cap Items : v[j] <= t,
           NEW x, x = <<i>> \o w
    PROVE  /\ x \in Seq(Items) /\ Len(x) = Len(w) + 1 /\ Once(x)
           /\ \A j : In(x, j) <=> j = i \/ In(w, j)
           /\ InOrder(w, v, R) => InOrder(x, [v EXCEPT ![i] = t], R \cup {i})
<1>1. <<i>> \in Seq(Items) /\ Len(<<i>>) = 1 /\ Len(w) \in Nat
  OBVIOUS
<1>2. /\ x \in Seq(Items) /\ Len(x) = 1 + Len(w)
      /\ \A n \in 1..(1 + Len(w)) : x[n] = IF n <= 1 THEN <<i>>[n] ELSE w[n - 1]
  BY <1>1, ConcatProperties
<1>3. /\ x[1] = i
      /\ \A n \in 2..Len(x) : n - 1 \in 1..Len(w) /\ x[n] = w[n - 1]
      /\ \A n \in 1..Len(w) : n + 1 \in 2..Len(x) /\ x[n + 1] = w[n]
  BY <1>1, <1>2
<1>4. \A n \in 1..Len(x) : n = 1 \/ n \in 2..Len(x)
  BY <1>1, <1>2
<1>5. \A n \in 2..Len(x) : x[n] # i /\ x[n] \in Items
  BY <1>3, ElementOfSeq DEF In
<1>6. Once(x)
  <2> SUFFICES ASSUME NEW m \in 1..Len(x), NEW n \in 1..Len(x), x[m] = x[n] PROVE m = n
    BY DEF Once
  <2>1. CASE m = 1 \/ n = 1
    BY <2>1, <1>3, <1>4, <1>5
  <2>2. CASE m \in 2..Len(x) /\ n \in 2..Len(x)
    <3>1. m - 1 \in 1..Len(w) /\ n - 1 \in 1..Len(w) /\ w[m - 1] = w[n - 1]
      BY <2>2, <1>3
    <3>2. m - 1 = n - 1
      BY <3>1 DEF Once
    <3> QED
      BY <3>2
  <2> QED
    BY <2>1, <2>2, <1>4
<1>7. ASSUME NEW j PROVE In(x, j) <=> j = i \/ In(w, j)
  <2>1. 1 \in 1..Len(x)
    BY <1>1, <1>2
  <2>2. \A n \in 2..Len(x) : n \in 1..Len(x)
    BY <1>1, <1>2
  <2> QED
    BY <2>1, <2>2, <1>3, <1>4 DEF In
<1>8. ASSUME InOrder(w, v, R) PROVE InOrder(x, [v EXCEPT ![i] = t], R \cup {i})
  <2> DEFINE u == [v EXCEPT ![i] = t]
  <2>1. u[i] = t /\ \A j \in Items : j # i => u[j] = v[j]
    OBVIOUS
  <2> HIDE DEF u
  <2> SUFFICES ASSUME NEW m \in 1..Len(x), NEW n \in 1..Len(x), m < n, x[n] \in R \cup {i}
               PROVE  x[m] \in R \cup {i} /\ u[x[m]] >= u[x[n]]
    BY DEF InOrder, u
  <2>2. n \in 2..Len(x)
    BY <1>4
  <2>3. x[n] \in R /\ x[n] \in Items /\ x[n] # i /\ u[x[n]] = v[x[n]]
    BY <2>1, <2>2, <1>5
  <2>4. CASE m = 1
    <3>1. x[m] = i /\ u[x[m]] = t
      BY <2>1, <2>4, <1>3
    <3>2. v[x[n]] <= t /\ v[x[n]] \in Int
      BY <2>3
    <3>3. t >= v[x[n]]
      BY <3>2
    <3> QED
      BY <3>1, <3>3, <2>3
  <2>5. CASE m \in 2..Len(x)
    <3>1. m - 1 < n - 1
      OBVIOUS
    <3>2. /\ x[m] = w[m - 1] /\ m - 1 \in 1..Len(w) /\ x[m] \in Items /\ x[m] # i
          /\ x[n] = w[n - 1] /\ n - 1 \in 1..Len(w)
      BY <2>2, <2>5, <1>3, <1>5
    <3>3. x[m] \in R /\ v[x[m]] >= v[x[n]]
      BY <3>1, <3>2, <2>3, <1>8 DEF InOrder
    <3> QED
      BY <3>2, <3>3, <2>1, <2>3
  <2> QED
    BY <2>4, <2>5, <1>4
<1> QED
  BY <1>1, <1>2, <1>6, <1>7, <1>8

-----------------------------------------------------------------------------
(* What the lists rest on.                                                 *)
Lists ==
    /\ Listed(cache) /\ Len(cache.m_used) <= m_size
    /\ InOrder(cache.m_used, m_visited, recent)
    /\ m_size \in Sizes /\ m_idleTimeout \in Nat /\ m_updateTimeout \in Nat
    /\ m_visited \in [Items -> 0..MaxTime] /\ m_updated \in [Items -> 0..MaxTime]
    /\ now \in 0..MaxTime /\ recent \subseteq Items
    /\ \A i \in recent : m_visited[i] <= now

(* A hit moves the item to the front of both lists.                        *)
LEMMA TouchLists ==
    ASSUME Lists, NEW c, Listed(c), NEW i \in Items, c.m_map_iter[i] # End,
           NEW d, d = Touch(c, i)
    PROVE  /\ Listed(d) /\ Len(d.m_used) <= Len(c.m_used)
           /\ InOrder(c.m_used, m_visited, recent) => InOrder(d.m_used, [m_visited EXCEPT ![i] = now], recent \cup {i})
<1> DEFINE w == Without(c.m_used, {i})
           x == <<i>> \o w
<1>1. /\ d.m_map = c.m_map /\ d.m_map_iter = c.m_map_iter
      /\ d.m_used = x /\ d.m_expired = x
      /\ d = [m_map |-> d.m_map, m_used |-> d.m_used, m_expired |-> d.m_expired,
              m_map_iter |-> d.m_map_iter]
  BY DEF Touch, Listed
<1>2. c.m_used \in Seq(Items) /\ c.m_map \in [Keys -> Items \cup {End}]
      /\ c.m_map_iter \in [Items -> Keys \cup {End}] /\ Once(c.m_used)
  BY DEF Listed
<1>3. PICK n \in 1..Len(c.m_used) : c.m_used[n] = i
  BY DEF Listed, In
<1>4. /\ w \in Seq(Items) /\ Len(w) \in Nat /\ Len(w) < Len(c.m_used) /\ Once(w)
      /\ \A j : In(w, j) <=> In(c.m_used, j) /\ j # i
      /\ \A v, R : InOrder(c.m_used, v, R) => InOrder(w, v, R)
  <2>1. c.m_used[n] \in {i}
    BY <1>3
  <2> QED
    BY <1>2, <2>1, Unlinked
<1> HIDE DEF w
<1>5. m_visited \in [Items -> Int] /\ now \in Int /\ \A j \in recent \cap Items : m_visited[j] <= now
  BY TimeAssumption DEF Lists
<1>6. /\ x \in Seq(Items) /\ Len(x) = Len(w) + 1 /\ Once(x)
      /\ \A j : In(x, j) <=> j = i \/ In(w, j)
      /\ InOrder(w, m_visited, recent) => InOrder(x, [m_visited EXCEPT ![i] = now], recent \cup {i})
  BY <1>4, <1>5, Fronted
<1> HIDE DEF x
<1>7. \A j \in Items : d.m_map_iter[j] # End <=> In(x, j)
  BY <1>1, <1>4, <1>6 DEF Listed
<1>8. Listed(d)
  BY <1>1, <1>2, <1>6, <1>7 DEF Listed
<1>9. Len(d.m_used) <= Len(c.m_used)
  <2> Len(c.m_used) \in Nat
    BY <1>2
  <2> QED
    BY <1>1, <1>4, <1>6
<1> QED
  BY <1>1, <1>4, <1>6, <1>8, <1>9

(* A miss puts the new item in front and cuts the lists to m_size.         *)
LEMMA InsertLists ==
    ASSUME Lists, NEW c, Listed(c), NEW k \in Keys, NEW i \in Items, c.m_map_iter[i] = End,
           NEW d, d = Insert(c, k, i)
    PROVE  /\ Listed(d) /\ Len(d.m_used) <= m_size
           /\ InOrder(c.m_used, m_visited, recent) => InOrder(d.m_used, [m_visited EXCEPT ![i] = now], recent \cup {i})
<1> DEFINE x == <<i>> \o c.m_used
           e == [m_map |-> [c.m_map EXCEPT ![k] = i],
                 m_used |-> <<i>> \o c.m_used,
                 m_expired |-> <<i>> \o c.m_expired,
                 m_map_iter |-> [c.m_map_iter EXCEPT ![i] = k]]
<1>1. c.m_used \in Seq(Items) /\ c.m_map \in [Keys -> Items \cup {End}]
      /\ c.m_map_iter \in [Items -> Keys \cup {End}] /\ Once(c.m_used) /\ c.m_expired = c.m_used
  BY DEF Listed
<1>2. ~In(c.m_used, i)
  BY DEF Listed
<1>3. m_visited \in [Items -> Int] /\ now \in Int /\ \A j \in recent \cap Items : m_visited[j] <= now
  BY TimeAssumption DEF Lists
<1>4. /\ x \in Seq(Items) /\ Once(x)
      /\ \A j : In(x, j) <=> j = i \/ In(c.m_used, j)
      /\ InOrder(c.m_used, m_visited, recent) => InOrder(x, [m_visited EXCEPT ![i] = now], recent \cup {i})
  <2> DEFINE u == c.m_used
  <2>1. u \in Seq(Items) /\ Once(u) /\ ~In(u, i)
    BY <1>1, <1>2
  <2> HIDE DEF u
  <2>2. x = <<i>> \o u
    BY DEF u
  <2> HIDE DEF x
  <2>3. /\ x \in Seq(Items) /\ Once(x)
        /\ \A j : In(x, j) <=> j = i \/ In(u, j)
        /\ InOrder(u, m_visited, recent) => InOrder(x, [m_visited EXCEPT ![i] = now], recent \cup {i})
    <3> HIDE DEF e
    <3>1. \A w \in Seq(Items), v \in [Items -> Int], t \in Int : \A R, y :
             Once(w) /\ ~In(w, i) /\ (\A j \in R \cap Items : v[j] <= t) /\ y = <<i>> \o w =>
                /\ y \in Seq(Items) /\ Len(y) = Len(w) + 1 /\ Once(y)
                /\ \A j : In(y, j) <=> j = i \/ In(w, j)
                /\ InOrder(w, v, R) => InOrder(y, [v EXCEPT ![i] = t], R \cup {i})
      BY Fronted
    <3> QED
      BY <2>1, <2>2, <1>3, <3>1
  <2> QED
    BY <2>3 DEF u
<1>5. /\ e.m_map = [c.m_map EXCEPT ![k] = i] /\ e.m_map_iter = [c.m_map_iter EXCEPT ![i] = k]
      /\ e.m_used = x /\ e.m_expired = x
      /\ e = [m_map |-> e.m_map, m_used |-> e.m_used, m_expired |-> e.m_expired,
              m_map_iter |-> e.m_map_iter]
  BY <1>1
<1>6. d = clean_used(e, m_size)
  BY DEF Insert
<1> HIDE DEF x, e
<1>7. e.m_map \in [Keys -> Items \cup {End}] /\ e.m_map_iter \in [Items -> Keys \cup {End}]
  BY <1>1, <1>5
<1>8. \A j \in Items : e.m_map_iter[j] # End <=> In(x, j)
  BY <1>1, <1>4, <1>5, EndAssumption DEF Listed
<1>9. Listed(e)
  BY <1>4, <1>5, <1>7, <1>8 DEF Listed
<1>10. m_size \in Nat
  BY SizesAssumption DEF Lists
<1>11. Trims(e, d) /\ Len(d.m_used) <= m_size
  BY <1>6, <1>9, <1>10, OperationsTrim
<1> QED
  BY <1>4, <1>5, <1>11 DEF Trims

(* The empty cache.                                                        *)
LEMMA ListsInit == Init => Lists
<1> SUFFICES ASSUME Init PROVE Lists
  OBVIOUS
<1>1. Listed(cache) /\ cache.m_used = << >>
  BY EndAssumption DEF Init, Empty, Listed, In, Once
<1>2. m_size \in Sizes /\ m_size \in Nat
  BY SizesAssumption DEF Init
<1>3. Len(cache.m_used) <= m_size /\ InOrder(cache.m_used, m_visited, recent)
  BY <1>1, <1>2 DEF InOrder
<1>4. m_idleTimeout \in Nat /\ m_updateTimeout \in Nat
  BY TimeoutsAssumption DEF Init
<1>5. /\ m_visited \in [Items -> 0..MaxTime] /\ m_updated \in [Items -> 0..MaxTime]
      /\ now \in 0..MaxTime /\ recent = {}
  BY TimeAssumption DEF Init
<1> QED
  BY <1>1, <1>2, <1>3, <1>4, <1>5 DEF Lists

(* A step that only erases entries, or sets the limits.                     *)
LEMMA LimitsLists ==
    ASSUME Lists, Trims(cache, cache'), Len(cache'.m_used) <= m_size', m_size' \in Sizes,
           m_idleTimeout' \in Nat, m_updateTimeout' \in Nat, UNCHANGED <<stamps, clock>>
    PROVE  Lists'
<1>1. Listed(cache)'
  BY DEF Trims, Listed
<1>2. InOrder(cache'.m_used, m_visited, recent)
  BY DEF Lists, Trims
<1>3. m_visited' = m_visited /\ m_updated' = m_updated /\ now' = now /\ recent' = recent
  BY DEF stamps, clock
<1>4. InOrder(cache.m_used, m_visited, recent)'
  BY <1>2, <1>3 DEF InOrder
<1> QED
  BY <1>1, <1>3, <1>4 DEF Lists

(* A step that only erases entries.                                        *)
LEMMA TrimmingLists ==
    ASSUME Lists, Trims(cache, cache'), UNCHANGED <<limits, stamps, clock>>
    PROVE  Lists'
<1>1. Len(cache.m_used) \in Nat /\ Len(cache'.m_used) \in Nat /\ m_size \in Nat
  BY SizesAssumption DEF Lists, Trims, Listed
<1>2. Len(cache'.m_used) <= m_size
  BY <1>1 DEF Lists, Trims
<1>3. m_size' = m_size /\ m_idleTimeout' = m_idleTimeout /\ m_updateTimeout' = m_updateTimeout
  BY DEF limits
<1> QED
  BY <1>2, <1>3, LimitsLists DEF Lists

(* What find_map() and clean_expired() leave of the lists.                 *)
LEMMA LookedUpTrims ==
    ASSUME Inv, Lists, NEW k \in Keys
    PROVE  /\ Trims(cache, find_map(cache, k))
           /\ Trims(cache, find_map(clean_expired(cache, m_idleTimeout), k))
<1>1. MapAgrees(cache) /\ Listed(cache)
  BY DEF Inv, Typed, Lists
<1> DEFINE c == clean_expired(cache, m_idleTimeout)
<1>2. MapAgrees(c) /\ Trims(cache, c)
  BY <1>1, OperationsShrink, OperationsTrim DEF Shrinks
<1> HIDE DEF c
<1>3. Trims(c, find_map(c, k))
  BY <1>2, OperationsTrim DEF Trims
<1>4. Trims(cache, find_map(c, k))
  BY <1>1, <1>2, <1>3, TrimsTwice
<1> QED
  BY <1>1, <1>4, OperationsTrim DEF c

(* A step that moves item i to the front, or inserts it there.              *)
LEMMA FrontingLists ==
    ASSUME Lists, NEW i \in Items, Listed(cache'), Len(cache'.m_used) <= m_size,
           InOrder(cache'.m_used, [m_visited EXCEPT ![i] = now], recent \cup {i}),
           Visit(i),
           m_updated' = m_updated \/ m_updated' = [m_updated EXCEPT ![i] = now],
           UNCHANGED <<limits, now>>
    PROVE  Lists'
<1>1. Listed(cache)' /\ Len(cache'.m_used) <= m_size' /\ InOrder(cache.m_used, m_visited, recent)'
  BY DEF Listed, InOrder, Visit, limits
<1>2. /\ m_visited' \in [Items -> 0..MaxTime] /\ m_updated' \in [Items -> 0..MaxTime]
      /\ recent' \subseteq Items /\ \A j \in recent' : m_visited'[j] <= now
  BY TimeAssumption DEF Lists, Visit
<1> QED
  BY <1>1, <1>2 DEF Lists, limits

(* A hit, after find_map() has left c.                                     *)
LEMMA HitLists ==
    ASSUME Inv, Lists, NEW c, Shrinks(cache, c), Trims(cache, c),
           NEW k \in Keys, NEW i, i = c.m_map[k], i # End, cache' = Touch(c, i),
           Visit(i), m_updated' = m_updated,
           UNCHANGED <<limits, now>>
    PROVE  Lists'
<1>1. MapAgrees(c) /\ i \in Items
  BY DEF Shrinks, MapAgrees
<1>2. c.m_map_iter[i] # End
  BY <1>1, EndAssumption DEF MapAgrees
<1>3. Listed(c) /\ InOrder(c.m_used, m_visited, recent) /\ Len(c.m_used) <= Len(cache.m_used)
  BY DEF Trims, Lists
<1>4. /\ Listed(cache') /\ Len(cache'.m_used) <= Len(c.m_used)
      /\ InOrder(cache'.m_used, [m_visited EXCEPT ![i] = now], recent \cup {i})
  BY <1>1, <1>2, <1>3, TouchLists
<1>5. /\ Len(cache.m_used) \in Nat /\ Len(c.m_used) \in Nat /\ Len(cache'.m_used) \in Nat
      /\ m_size \in Nat /\ Len(cache.m_used) <= m_size
  BY <1>3, <1>4, SizesAssumption DEF Lists, Listed
<1>6. Len(cache'.m_used) <= m_size
  BY <1>3, <1>4, <1>5
<1> QED
  BY <1>1, <1>4, <1>6, FrontingLists

(* A miss, likewise.                                                       *)
LEMMA MissLists ==
    ASSUME Lists, NEW c, Trims(cache, c), NEW k \in Keys, NEW i \in Unreferenced(c),
           cache' = Insert(c, k, i),
           Visit(i), m_updated' = [m_updated EXCEPT ![i] = now],
           UNCHANGED <<limits, now>>
    PROVE  Lists'
<1>1. i \in Items /\ c.m_map_iter[i] = End
  BY DEF Unreferenced
<1>2. Listed(c) /\ InOrder(c.m_used, m_visited, recent)
  BY DEF Trims, Lists
<1>3. /\ Listed(cache') /\ Len(cache'.m_used) <= m_size
      /\ InOrder(cache'.m_used, [m_visited EXCEPT ![i] = now], recent \cup {i})
  BY <1>1, <1>2, InsertLists
<1> QED
  BY <1>1, <1>3, FrontingLists

(* Every step keeps the lists.                                             *)
LEMMA ListsNext == Inv /\ Lists /\ [Next]_vars => Lists'
<1> SUFFICES ASSUME Inv, Lists, [Next]_vars
             PROVE  Lists'
  OBVIOUS
<1>1. MapAgrees(cache) /\ Listed(cache) /\ Trims(cache, cache)
  BY OperationsTrim DEF Inv, Typed, Lists
<1>2. CASE UNCHANGED vars
  BY <1>1, <1>2, TrimmingLists DEF vars, clock
<1>3. CASE Tick \/ SetBack
  <2>1. UNCHANGED <<cache, limits, stamps>> /\ recent' \subseteq recent /\ (recent' = recent \/ recent' = {})
    BY <1>3 DEF Tick, SetBack
  <2>2. now' \in 0..MaxTime /\ \A i \in recent' : m_visited[i] <= now'
    <3>1. CASE Tick
      <4>1. now' = now + 1 /\ now < MaxTime /\ recent' = recent
        BY <3>1 DEF Tick
      <4>2. \A i \in recent : m_visited[i] \in Int /\ m_visited[i] <= now
        BY TimeAssumption DEF Lists
      <4> QED
        BY <4>1, <4>2, TimeAssumption DEF Lists
    <3>2. CASE SetBack
      BY <3>2, TimeAssumption DEF SetBack, Lists
    <3> QED
      BY <1>3, <3>1, <3>2
  <2>3. InOrder(cache.m_used, m_visited, recent')
    BY <2>1 DEF Lists, InOrder
  <2>4. Listed(cache') /\ InOrder(cache'.m_used, m_visited', recent')
    BY <2>1, <2>3 DEF Lists, stamps
  <2> QED
    BY <2>1, <2>2, <2>4 DEF Lists, Listed, InOrder, limits, stamps
<1>4. ASSUME NEW p \in Procs, Return(p) PROVE Lists'
  <2>1. UNCHANGED <<limits, stamps, clock>>
    BY <1>4 DEF Return, ResolveStore, ResolveSignal, ResolveFail, GiveUp, WaitReturns
  <2>2. cache' = cache \/ (cache' = erase_item(cache, item[p]) /\ pc[p] = "failed")
    <3>1. CASE GiveUp(p)
      BY <3>1 DEF GiveUp
    <3>2. CASE ~GiveUp(p)
      <4>1. cache' = cache
        BY <1>4, <3>2 DEF Return, ResolveStore, ResolveSignal, ResolveFail, WaitReturns
      <4> QED
        BY <4>1
    <3> QED
      BY <3>1, <3>2
  <2>3. pc[p] = "failed" => item[p] \in Items
    BY DEF Inv, Typed
  <2>4. Trims(cache, cache')
    BY <1>1, <2>2, <2>3, OperationsTrim
  <2> QED
    BY <2>1, <2>4, TrimmingLists
<1>5. ASSUME NEW p \in Procs, clear(p) PROVE Lists'
  <2> DEFINE S == {i \in Items : i \in ItemsOf(cache.m_expired)}
  <2>1. cache' = Erase(cache, S) /\ UNCHANGED <<limits, stamps, clock>>
    BY <1>5 DEF clear
  <2>2. S \subseteq Items
    OBVIOUS
  <2> HIDE DEF S
  <2>3. Trims(cache, cache')
    BY <1>1, <2>1, <2>2, EraseTrims
  <2> QED
    BY <2>1, <2>3, TrimmingLists
<1>6. ASSUME NEW p \in Procs, NEW k \in Keys, set(p, k) PROVE Lists'
  <2> DEFINE c == find_map(cache, k)
  <2>1. Shrinks(cache, c) /\ Trims(cache, c)
    BY LookedUp, LookedUpTrims
  <2>2. UNCHANGED <<limits, now>>
    BY <1>6 DEF set
  <2>3. \/ /\ c.m_map[k] # End /\ cache' = Touch(c, c.m_map[k])
           /\ Visit(c.m_map[k]) /\ m_updated' = m_updated
        \/ \E i \in Unreferenced(c) :
              /\ cache' = Insert(c, k, i) /\ Visit(i)
              /\ m_updated' = [m_updated EXCEPT ![i] = now]
    BY <1>6 DEF set
  <2> HIDE DEF c
  <2> QED
    BY <2>1, <2>2, <2>3, HitLists, MissLists
<1>7. ASSUME NEW p \in Procs, NEW k \in Keys, LookupHit(p, k) \/ LookupAlloc(p, k) \/ LookupMiss(p, k)
      PROVE  Lists'
  <2> DEFINE c == find_map(clean_expired(cache, m_idleTimeout), k)
  <2>1. Shrinks(cache, c) /\ Trims(cache, c)
    BY LookedUp, LookedUpTrims
  <2>2. UNCHANGED <<limits, now>>
    BY <1>7 DEF LookupHit, LookupAlloc, LookupMiss, clock
  <2>3. CASE LookupHit(p, k)
    <3>1. /\ c.m_map[k] # End /\ cache' = Touch(c, c.m_map[k])
          /\ Visit(c.m_map[k]) /\ m_updated' = m_updated
      BY <2>3 DEF LookupHit
    <3> HIDE DEF c
    <3> QED
      BY <2>1, <2>2, <3>1, HitLists
  <2>4. CASE LookupAlloc(p, k)
    <3>1. \E i \in Unreferenced(c) :
              /\ cache' = Insert(c, k, i) /\ Visit(i)
              /\ m_updated' = [m_updated EXCEPT ![i] = now]
      BY <2>4 DEF LookupAlloc
    <3> HIDE DEF c
    <3> QED
      BY <2>1, <2>2, <3>1, MissLists
  <2>5. CASE LookupMiss(p, k)
    <3>1. cache' = c /\ UNCHANGED <<limits, stamps, clock>>
      BY <2>5 DEF LookupMiss
    <3> HIDE DEF c
    <3> QED
      BY <2>1, <3>1, TrimmingLists
  <2> QED
    BY <1>7, <2>3, <2>4, <2>5
<1>8. ASSUME NEW p \in Procs, NEW k \in Keys, erase(p, k) PROVE Lists'
  <2> DEFINE c == find_map(cache, k)
  <2>1. /\ cache' = IF c.m_map[k] = End THEN c ELSE erase_item(c, c.m_map[k])
        /\ UNCHANGED <<limits, stamps, clock>>
    BY <1>8 DEF erase
  <2>2. Shrinks(cache, c) /\ Trims(cache, c)
    BY LookedUp, LookedUpTrims
  <2> HIDE DEF c
  <2>3. c.m_map[k] # End => Trims(c, erase_item(c, c.m_map[k]))
    <3>1. Listed(c) /\ c.m_map[k] \in Items \cup {End}
      BY <2>2 DEF Shrinks, MapAgrees, Trims
    <3>2. \A i \in Items : Trims(c, erase_item(c, i))
      BY <3>1, OperationsTrim
    <3> QED
      BY <3>1, <3>2
  <2>4. Trims(cache, cache')
    BY <1>1, <2>1, <2>2, <2>3, TrimsTwice
  <2> QED
    BY <2>1, <2>4, TrimmingLists
<1>9. ASSUME NEW p \in Procs, NEW size \in Sizes, resize(p, size) PROVE Lists'
  <2>1. /\ cache' = clean_used(cache, size) /\ m_size' = size
        /\ UNCHANGED <<m_idleTimeout, m_updateTimeout, stamps, clock>>
    BY <1>9 DEF resize
  <2>2. size \in Nat
    BY SizesAssumption
  <2>3. Trims(cache, cache') /\ Len(cache'.m_used) <= size
    BY <1>1, <2>1, <2>2, OperationsTrim
  <2> QED
    BY <2>1, <2>3, LimitsLists DEF Lists
<1>10. ASSUME NEW p \in Procs, NEW t \in Timeouts, set_timeout(p, t[1], t[2]) PROVE Lists'
  <2>1. /\ cache' = clean_expired(cache, m_idleTimeout') /\ m_size' = m_size
        /\ m_idleTimeout' = (IF t[1] > 0 THEN t[1] ELSE t[2]) /\ m_updateTimeout' = t[2]
        /\ UNCHANGED <<stamps, clock>>
    BY <1>10 DEF set_timeout
  <2>2. m_idleTimeout' \in Nat /\ m_updateTimeout' \in Nat
    BY <2>1, TimeoutsAssumption
  <2>3. Trims(cache, cache')
    BY <1>1, <2>1, OperationsTrim
  <2>4. Len(cache'.m_used) <= m_size
    <3> Len(cache.m_used) \in Nat /\ Len(cache'.m_used) \in Nat /\ m_size \in Nat
      BY <2>3, SizesAssumption DEF Lists, Trims, Listed
    <3> QED
      BY <2>3 DEF Lists, Trims
  <2> QED
    BY <2>1, <2>2, <2>3, <2>4, LimitsLists DEF Lists
<1> QED
  BY <1>2, <1>3, <1>4, <1>5, <1>6, <1>7, <1>8, <1>9, <1>10 DEF Next

(* Inv and Lists are invariants of the cache.                              *)
THEOREM ListsInvariance == Spec => [](Inv /\ Lists)
  BY InvInit, InvNext, ListsInit, ListsNext, PTL DEF Spec

(* insert(), erase_item(), clean_used(), clean_expired(): the map, both     *)
(* lists and the iterators speak of the same items at every unlock, and no  *)
(* more than m_size of them, whichever calls of several threads came before.*)
THEOREM StructuresAgreeHolds == Spec => []StructuresAgree
<1>1. Inv /\ Lists => StructuresAgree
  <2> SUFFICES ASSUME Inv, Lists PROVE StructuresAgree
    OBVIOUS
  <2>1. TypeOK
    BY DEF Inv, Typed, Lists, Listed, TypeOK
  <2>2. ItemsOf(cache.m_used) = {i \in Items : cache.m_map_iter[i] # End}
    <3>1. \A i : i \in ItemsOf(cache.m_used) <=> In(cache.m_used, i)
      BY DEF ItemsOf, In
    <3>2. \A i : In(cache.m_used, i) => i \in Items
      BY ElementOfSeq DEF In, Lists, Listed
    <3> QED
      BY <3>1, <3>2 DEF Lists, Listed
  <2> QED
    BY <2>1, <2>2 DEF StructuresAgree, Inv, Typed, MapAgrees, Lists, Listed, Once
<1> QED
  BY <1>1, ListsInvariance, PTL

(* clean_expired() may stop at the first item that is still in use: behind  *)
(* it in m_expired nothing was visited later.                              *)
THEOREM ExpiredOrderedHolds == Spec => []ExpiredOrdered
<1>1. Lists => ExpiredOrdered
  BY DEF Lists, Listed, InOrder, ExpiredOrdered
<1> QED
  BY <1>1, ListsInvariance, PTL
=============================================================================
