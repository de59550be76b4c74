------------------------------ MODULE LruCache ------------------------------
(***************************************************************************)
(* fibjs/include/LruCache.h: a keyed cache with a bounded size, an idle    *)
(* timeout and an update timeout, used by several threads.  A lookup that  *)
(* misses allocates the entry, leaves the spinlock and runs the resolver;  *)
(* other lookups of the key wait on the entry's event.  The entry may be   *)
(* evicted, expired, erased or replaced while its resolver runs.           *)
(*                                                                         *)
(* A section under m_lock is one step.  The resolver's write of m_value    *)
(* and its m_ready.set() are outside the lock and are steps of their own.  *)
(***************************************************************************)
EXTENDS Integers, Sequences, FiniteSets

CONSTANTS
    Procs,     \* the threads that use the cache
    Keys,
    Items,     \* identities of CacheItems; one is reused when nobody refers to it
    Sizes,     \* values resize() is called with
    Timeouts,  \* pairs <<idle, update>> set_timeout() is called with, in ticks
    MaxTime,   \* bound on the clock
    End        \* m_map.end(), and "no item"

ASSUME FiniteAssumption == IsFiniteSet(Procs) /\ IsFiniteSet(Keys) /\ IsFiniteSet(Items)
ASSUME EndAssumption == End \notin Keys /\ End \notin Items
ASSUME SizesAssumption == Sizes \subseteq Nat /\ Sizes # {}
ASSUME TimeoutsAssumption == Timeouts \subseteq Nat \X Nat /\ Timeouts # {}
ASSUME TimeAssumption == MaxTime \in Nat

VARIABLES
    cache,            \* the four linked structures, see Empty
    m_size,
    m_idleTimeout,
    m_updateTimeout,
    has_value,        \* m_value.has_value() of each item
    ready,            \* m_ready of each item
    m_visited,
    m_updated,
    now,              \* the system clock, which may be set back
    recent,           \* history: the items visited since it was last set back
    pc,               \* where each thread is in lookup()
    item              \* the item each thread refers to

limits == <<m_size, m_idleTimeout, m_updateTimeout>>
stamps == <<m_visited, m_updated>>
clock == <<now, recent>>
vars == <<cache, limits, has_value, ready, stamps, clock, pc, item>>

(***************************************************************************)
(* m_map, m_used and m_expired, and the item's iterator into m_map: its    *)
(* key, or End when the item is not in the map.                            *)
(***************************************************************************)
Empty ==
    [m_map |-> [k \in Keys |-> End], m_used |-> << >>, m_expired |-> << >>,
     m_map_iter |-> [i \in Items |-> End]]

ItemsOf(list) == {list[n] : n \in 1..Len(list)}

(* The list when the items of S are unlinked.                              *)
Without(list, S) ==
    LET keep[n \in 0..Len(list)] ==
            IF n = 0 THEN << >>
            ELSE IF list[n] \in S THEN keep[n - 1]
            ELSE Append(keep[n - 1], list[n])
    IN  keep[Len(list)]

(* Mutant: the iterator of an erased item keeps pointing into the map.     *)
EraseNoSentinel(c, S) ==
    [m_map      |-> [k \in Keys |-> IF \E i \in S : c.m_map_iter[i] = k THEN End ELSE c.m_map[k]],
     m_used     |-> Without(c.m_used, S),
     m_expired  |-> Without(c.m_expired, S),
     m_map_iter |-> c.m_map_iter]

(* erase_item() of items that are in the map: unlink from both lists, set   *)
(* the sentinel, erase what the iterator points to.                        *)
Erase(c, S) ==
    [m_map      |-> [k \in Keys |-> IF \E i \in S : c.m_map_iter[i] = k THEN End ELSE c.m_map[k]],
     m_used     |-> Without(c.m_used, S),
     m_expired  |-> Without(c.m_expired, S),
     m_map_iter |-> [i \in Items |-> IF i \in S THEN End ELSE c.m_map_iter[i]]]

(* erase_item(): nothing for an item whose iterator is m_map.end().        *)
erase_item(c, i) == IF c.m_map_iter[i] = End THEN c ELSE Erase(c, {i})

(* clean_used(): while (m_used.size() > m_size) erase the last.            *)
clean_used(c, size) ==
    Erase(c, {i \in Items : \E n \in 1..Len(c.m_used) : n > size /\ c.m_used[n] = i})

(* clean_expired(): erase from the back up to the first item still in use.  *)
clean_expired(c, idle) ==
    IF idle <= 0
      THEN c
      ELSE LET fresh == {n \in 1..Len(c.m_expired) : now - m_visited[c.m_expired[n]] < idle}
           IN  Erase(c, {i \in Items : \E n \in 1..Len(c.m_expired) :
                                          c.m_expired[n] = i /\ \A f \in fresh : n > f})

(* find_map() erases an entry past its update timeout.                     *)
find_map(c, k) ==
    LET i == c.m_map[k]
    IN  IF i # End /\ m_updateTimeout > 0 /\ now - m_updated[i] >= m_updateTimeout
          THEN erase_item(c, i)
          ELSE c

(* Mutant: a hit leaves the item where it is in the lists.                 *)
TouchStays(c, i) == c

(* find_item() on a hit: move to the front of both lists.                  *)
Touch(c, i) ==
    [m_map      |-> c.m_map,
     m_used     |-> <<i>> \o Without(c.m_used, {i}),
     m_expired  |-> <<i>> \o Without(c.m_expired, {i}),
     m_map_iter |-> c.m_map_iter]

(* find_item() on a miss: link a new item i, then clean_used().            *)
Insert(c, k, i) ==
    clean_used([m_map |-> [c.m_map EXCEPT ![k] = i],
                m_used |-> <<i>> \o c.m_used,
                m_expired |-> <<i>> \o c.m_expired,
                m_map_iter |-> [c.m_map_iter EXCEPT ![i] = k]], m_size)

(* item->m_visited = now().                                                *)
Visit(i) ==
    /\ m_visited' = [m_visited EXCEPT ![i] = now]
    /\ recent' = recent \cup {i}

(* Items that neither the map nor a thread refers to.                      *)
Unreferenced(c) == {i \in Items : c.m_map_iter[i] = End /\ \A q \in Procs : item[q] # i}

-----------------------------------------------------------------------------
(* set(): find or allocate the entry, store, signal; all under the lock.   *)
set(p, k) ==
    /\ pc[p] = "idle"
    /\ LET c == find_map(cache, k)
       IN  \/ LET i == c.m_map[k]
              IN  /\ i # End
                  /\ cache' = Touch(c, i)
                  /\ Visit(i)
                  /\ has_value' = [has_value EXCEPT ![i] = TRUE]
                  /\ ready' = [ready EXCEPT ![i] = TRUE]
                  /\ UNCHANGED m_updated
           \/ /\ c.m_map[k] = End
              /\ \E i \in Unreferenced(c) :
                    /\ cache' = Insert(c, k, i)
                    /\ Visit(i)
                    /\ m_updated' = [m_updated EXCEPT ![i] = now]
                    /\ has_value' = [has_value EXCEPT ![i] = TRUE]
                    /\ ready' = [ready EXCEPT ![i] = TRUE]
    /\ UNCHANGED <<limits, now, pc, item>>

(* lookup() that finds an entry, with or without a resolver: refer to it    *)
(* and wait on its event.                                                  *)
LookupHit(p, k) ==
    /\ pc[p] = "idle"
    /\ LET c == find_map(clean_expired(cache, m_idleTimeout), k)
           i == c.m_map[k]
       IN  /\ i # End
           /\ cache' = Touch(c, i)
           /\ Visit(i)
           /\ item' = [item EXCEPT ![p] = i]
    /\ pc' = [pc EXCEPT ![p] = "wait"]
    /\ UNCHANGED <<limits, has_value, ready, m_updated, now>>

(* lookup() with a resolver that misses: allocate the entry, unlock, and    *)
(* run the resolver.                                                       *)
LookupAlloc(p, k) ==
    /\ pc[p] = "idle"
    /\ LET c == find_map(clean_expired(cache, m_idleTimeout), k)
       IN  /\ c.m_map[k] = End
           /\ \E i \in Unreferenced(c) :
                 /\ cache' = Insert(c, k, i)
                 /\ Visit(i)
                 /\ m_updated' = [m_updated EXCEPT ![i] = now]
                 /\ has_value' = [has_value EXCEPT ![i] = FALSE]
                 /\ ready' = [ready EXCEPT ![i] = FALSE]
                 /\ item' = [item EXCEPT ![p] = i]
    /\ pc' = [pc EXCEPT ![p] = "resolve"]
    /\ UNCHANGED <<limits, now>>

(* lookup() without a resolver that misses.                                *)
LookupMiss(p, k) ==
    /\ pc[p] = "idle"
    /\ LET c == find_map(clean_expired(cache, m_idleTimeout), k)
       IN  c.m_map[k] = End /\ cache' = c
    /\ UNCHANGED <<limits, has_value, ready, stamps, clock, pc, item>>

(* Mutant: m_ready.set() before m_value is stored.                         *)
ResolveSignalFirst(p) ==
    /\ pc[p] = "resolve"
    /\ ready' = [ready EXCEPT ![item[p]] = TRUE]
    /\ pc' = [pc EXCEPT ![p] = "signal"]
    /\ UNCHANGED <<cache, limits, has_value, stamps, clock, item>>

(* The resolver returns true: item->m_value = value, without the lock.     *)
ResolveStore(p) ==
    /\ pc[p] = "resolve"
    /\ has_value' = [has_value EXCEPT ![item[p]] = TRUE]
    /\ pc' = [pc EXCEPT ![p] = "signal"]
    /\ UNCHANGED <<cache, limits, ready, stamps, clock, item>>

(* item->m_ready.set(), and lookup() returns.                              *)
ResolveSignal(p) ==
    /\ pc[p] = "signal"
    /\ ready' = [ready EXCEPT ![item[p]] = TRUE]
    /\ pc' = [pc EXCEPT ![p] = "idle"]
    /\ item' = [item EXCEPT ![p] = End]
    /\ UNCHANGED <<cache, limits, has_value, stamps, clock>>

(* Mutant: the failed resolver does not wake the waiters.                  *)
ResolveFailSilent(p) ==
    /\ pc[p] = "resolve"
    /\ pc' = [pc EXCEPT ![p] = "failed"]
    /\ UNCHANGED <<cache, limits, has_value, ready, stamps, clock, item>>

(* The resolver returns false: wake the waiters first.                     *)
ResolveFail(p) ==
    /\ pc[p] = "resolve"
    /\ ready' = [ready EXCEPT ![item[p]] = TRUE]
    /\ pc' = [pc EXCEPT ![p] = "failed"]
    /\ UNCHANGED <<cache, limits, has_value, stamps, clock, item>>

(* Mutant: the failed lookup erases by key, whatever item is there now.    *)
GiveUpByKey(p) ==
    /\ pc[p] = "failed"
    /\ \E k \in Keys : cache' = IF cache.m_map[k] = End THEN cache ELSE Erase(cache, {cache.m_map[k]})
    /\ pc' = [pc EXCEPT ![p] = "idle"]
    /\ item' = [item EXCEPT ![p] = End]
    /\ UNCHANGED <<limits, has_value, ready, stamps, clock>>

(* Then lock and erase_item(): the item may have left the map meanwhile.   *)
GiveUp(p) ==
    /\ pc[p] = "failed"
    /\ cache' = erase_item(cache, item[p])
    /\ pc' = [pc EXCEPT ![p] = "idle"]
    /\ item' = [item EXCEPT ![p] = End]
    /\ UNCHANGED <<limits, has_value, ready, stamps, clock>>

(* m_ready.wait() returns; lookup() returns whether there is a value.      *)
WaitReturns(p) ==
    /\ pc[p] = "wait"
    /\ ready[item[p]]
    /\ pc' = [pc EXCEPT ![p] = "idle"]
    /\ item' = [item EXCEPT ![p] = End]
    /\ UNCHANGED <<cache, limits, has_value, ready, stamps, clock>>

(* erase(key).                                                             *)
erase(p, k) ==
    /\ pc[p] = "idle"
    /\ LET c == find_map(cache, k)
       IN  cache' = IF c.m_map[k] = End THEN c ELSE erase_item(c, c.m_map[k])
    /\ UNCHANGED <<limits, has_value, ready, stamps, clock, pc, item>>

(* clear() erases from the back of m_expired until it is empty.            *)
clear(p) ==
    /\ pc[p] = "idle"
    /\ cache' = Erase(cache, {i \in Items : i \in ItemsOf(cache.m_expired)})
    /\ UNCHANGED <<limits, has_value, ready, stamps, clock, pc, item>>

resize(p, size) ==
    /\ pc[p] = "idle"
    /\ m_size' = size
    /\ cache' = clean_used(cache, size)
    /\ UNCHANGED <<m_idleTimeout, m_updateTimeout, has_value, ready, stamps, clock, pc, item>>

(* set_timeout(): an idle timeout of zero means the update timeout.        *)
set_timeout(p, idle, update) ==
    /\ pc[p] = "idle"
    /\ m_idleTimeout' = IF idle > 0 THEN idle ELSE update
    /\ m_updateTimeout' = update
    /\ cache' = clean_expired(cache, m_idleTimeout')
    /\ UNCHANGED <<m_size, has_value, ready, stamps, clock, pc, item>>

Tick ==
    /\ now < MaxTime
    /\ now' = now + 1
    /\ UNCHANGED <<cache, limits, has_value, ready, stamps, recent, pc, item>>

(* std::chrono::system_clock may be set back: to any earlier time.          *)
SetBack ==
    /\ now' \in 0..(now - 1)
    /\ recent' = {}
    /\ UNCHANGED <<cache, limits, has_value, ready, stamps, pc, item>>

Return(p) == ResolveStore(p) \/ ResolveSignal(p) \/ ResolveFail(p) \/ GiveUp(p) \/ WaitReturns(p)

-----------------------------------------------------------------------------
Init ==
    /\ cache = Empty
    /\ m_size \in Sizes
    /\ \E t \in Timeouts :
          m_idleTimeout = (IF t[1] > 0 THEN t[1] ELSE t[2]) /\ m_updateTimeout = t[2]
    /\ has_value = [i \in Items |-> FALSE]
    /\ ready = [i \in Items |-> FALSE]
    /\ m_visited = [i \in Items |-> 0]
    /\ m_updated = [i \in Items |-> 0]
    /\ now = 0
    /\ recent = {}
    /\ pc = [p \in Procs |-> "idle"]
    /\ item = [p \in Procs |-> End]

Next ==
    \/ Tick
    \/ SetBack
    \/ \E p \in Procs :
          \/ Return(p)
          \/ clear(p)
          \/ \E k \in Keys : set(p, k) \/ LookupHit(p, k) \/ LookupAlloc(p, k)
                               \/ LookupMiss(p, k) \/ erase(p, k)
          \/ \E size \in Sizes : resize(p, size)
          \/ \E t \in Timeouts : set_timeout(p, t[1], t[2])

Spec == Init /\ [][Next]_vars

-----------------------------------------------------------------------------
(* Every variable has its type, and a thread refers to an item exactly      *)
(* while it is inside lookup().                                            *)
TypeOK ==
    /\ cache \in [m_map : [Keys -> Items \cup {End}], m_used : Seq(Items),
                  m_expired : Seq(Items), m_map_iter : [Items -> Keys \cup {End}]]
    /\ m_size \in Sizes
    /\ m_idleTimeout \in Nat /\ m_updateTimeout \in Nat
    /\ has_value \in [Items -> BOOLEAN] /\ ready \in [Items -> BOOLEAN]
    /\ m_visited \in [Items -> 0..MaxTime] /\ m_updated \in [Items -> 0..MaxTime]
    /\ now \in 0..MaxTime /\ recent \subseteq Items
    /\ pc \in [Procs -> {"idle", "wait", "resolve", "signal", "failed"}]
    /\ item \in [Procs -> Items \cup {End}]
    /\ \A p \in Procs : item[p] = End <=> pc[p] = "idle"

(* The map, both lists and the iterators always speak of the same items:    *)
(* each key's item points back to the key, each list holds every mapped     *)
(* item exactly once, both lists are in the same order, and no more than    *)
(* m_size items are kept.  A late erase_item() of an item that lost its     *)
(* entry breaks none of this.                                              *)
StructuresAgree ==
    /\ TypeOK
    /\ Len(cache.m_used) <= m_size
    /\ cache.m_used = cache.m_expired
    /\ \A m, n \in 1..Len(cache.m_used) : cache.m_used[m] = cache.m_used[n] => m = n
    /\ ItemsOf(cache.m_used) = {i \in Items : cache.m_map_iter[i] # End}
    /\ \A k \in Keys, i \in Items : cache.m_map[k] = i <=> cache.m_map_iter[i] = k

(* clean_expired() stops at the first item in use, from the back.  However  *)
(* the clock is set, it leaves no expired item that was visited since the   *)
(* clock was last set back, unless an item visited before that hides it:    *)
(* those visited since are in front of all others, and the last visited in  *)
(* front of them.                                                          *)
ExpiredOrdered ==
    \A m, n \in 1..Len(cache.m_expired) :
        m < n /\ cache.m_expired[n] \in recent =>
            /\ cache.m_expired[m] \in recent
            /\ m_visited[cache.m_expired[m]] >= m_visited[cache.m_expired[n]]

(* An entry in the map that is ready has a value, unless the lookup whose   *)
(* resolver failed is just about to erase it: no empty entry stays cached.  *)
NoEmptyEntry ==
    \A k \in Keys :
        LET i == cache.m_map[k]
        IN  i # End /\ ready[i] /\ ~has_value[i] => \E p \in Procs : pc[p] = "failed" /\ item[p] = i

(* A lookup whose resolver failed erases its own entry or nothing: an entry *)
(* that replaced its own while the resolver ran is left alone.             *)
ErasesOwnEntry ==
    [][\A p \in Procs : pc[p] = "failed" /\ pc'[p] = "idle" =>
          \A k \in Keys : cache'.m_map[k] # cache.m_map[k] => cache.m_map[k] = item[p]]_vars

(* Every lookup returns: whoever waits on an entry that is not ready waits   *)
(* for a resolver that is running, even when the entry has been evicted,     *)
(* expired, erased, cleared or replaced meanwhile.                         *)
WaiterServed ==
    \A p \in Procs : pc[p] = "wait" /\ ~ready[item[p]] =>
        \E q \in Procs : pc[q] \in {"resolve", "signal"} /\ item[q] = item[p]

-----------------------------------------------------------------------------
(* What lines 265-266 take for granted and this model does not satisfy;     *)
(* README.md, section 4, says why.                                         *)

(* Behind an item in use nothing in m_expired is older.                    *)
StampsOrdered ==
    \A m, n \in 1..Len(cache.m_expired) :
        m < n => m_visited[cache.m_expired[m]] >= m_visited[cache.m_expired[n]]

=============================================================================
