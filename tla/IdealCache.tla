------------------------------ MODULE IdealCache ------------------------------
(***************************************************************************)
(* cache_src/include/ideal_cache.hpp under RunIdeal of ideal_cache.cpp:     *)
(* Belady's cache on a trace that is known beforehand.  Beside it runs a    *)
(* rival, any cache of the same capacity that may choose what to keep as    *)
(* it likes: the cache is called ideal because no rival hits more often.    *)
(* A cached value is left out, data_ keeps the next use of each key.        *)
(***************************************************************************)
EXTENDS Naturals, Sequences, FiniteSets, FiniteSetsExt

CONSTANTS
  Keys,
  Capacity,     \* capacity_
  Traces        \* the sequences of keys that may be read from stdin

ASSUME IdealAssumption == Capacity \in Nat /\ Traces \subseteq Seq(Keys)

VARIABLES
  trace,        \* elements
  now,          \* RunIdeal's i
  cursor,       \* where access_sequence_[k].current_index points: a position
  index,        \* current_access_index_
  data,         \* data_: the next use of each cached key
  hits,         \* hit_count
  rival,        \* what the rival has cached
  rivalHits

cacheVars == <<cursor, index, data, hits>>
idealVars == <<trace, now, cacheVars, rival, rivalHits>>

(* Positions count from 0.  The length of the trace is the one that no      *)
(* access has; it stands for size_t's maximum.                              *)
Never == Len(trace)

Positions(k) == { p \in 0 .. Len(trace) - 1 : trace[p + 1] = k }

(* k's first access at p or later.                                          *)
FirstFrom(k, p) ==
  LET later == { q \in Positions(k) : q >= p } IN IF later = {} THEN Never ELSE Min(later)

IdealInit ==
  /\ trace  \in Traces
  /\ now    = 0
  /\ cursor = [k \in Keys |-> FirstFrom(k, 0)]
  /\ index  = 0
  /\ data   = [k \in {} |-> 0]
  /\ hits   = 0
  /\ rival  = {}
  /\ rivalHits = 0

Larger(m, n) == IF m > n THEN m ELSE n

(* Operators named ..._mutant are faults the properties must detect; no     *)
(* specification uses them.                                                 *)

(* Stops at the access that is being made: < for <=.                        *)
Passed_mutant(k, p) == FirstFrom(k, Larger(cursor[k], p))

(* The loop that moves current_index past the accesses up to p.             *)
Passed(k, p) == FirstFrom(k, Larger(cursor[k], p + 1))

(* Get moves every cached key's current_index; it counts the accesses       *)
(* itself instead of being told the position.                               *)
GetHit(k) ==
  /\ k \in DOMAIN data
  /\ index'  = index + 1
  /\ cursor' = [j \in Keys |-> IF j \in DOMAIN data THEN Passed(j, index + 1) ELSE cursor[j]]
  /\ data'   = [j \in DOMAIN data |-> cursor'[j]]
  /\ hits'   = hits + 1

(* Put of a cached key.                                                     *)
PutHit(k) ==
  /\ k \in DOMAIN data
  /\ index'  = now
  /\ cursor' = [cursor EXCEPT ![k] = Passed(k, now)]
  /\ data'   = [data EXCEPT ![k] = Passed(k, now)]
  /\ hits'   = hits + 1

(* What Put does first with a key that is not cached.                       *)
Miss(k) ==
  /\ k \notin DOMAIN data
  /\ IF Capacity = 0 THEN UNCHANGED <<index, cursor>>
     ELSE index' = now /\ cursor' = [cursor EXCEPT ![k] = Passed(k, now)]
  /\ UNCHANGED hits

Full == Cardinality(DOMAIN data) >= Capacity

Keep(kept, k) == [j \in kept \cup {k} |-> IF j = k THEN Passed(k, now) ELSE data[j]]

(* Whichever of the farthest ones the hash table lists first.               *)
Farthest == { v \in DOMAIN data : \A j \in DOMAIN data : data[j] <= data[v] }

(* A key that will not be used again is not worth a place.                  *)
PutUseless(k) ==
  /\ Miss(k)
  /\ Capacity = 0 \/ Passed(k, now) = Never
  /\ UNCHANGED data

PutRoom(k) ==
  /\ Miss(k)
  /\ Passed(k, now) # Never
  /\ ~ Full
  /\ data' = Keep(DOMAIN data, k)

(* Evicts the first key it sees that is used later than k.                  *)
PutEvictingAny_mutant(k) ==
  /\ Miss(k)
  /\ Passed(k, now) # Never
  /\ Full
  /\ \E v \in DOMAIN data : Passed(k, now) < data[v] /\ data' = Keep(DOMAIN data \ {v}, k)

PutEvicting(k) ==
  /\ Miss(k)
  /\ Passed(k, now) # Never
  /\ Full
  /\ \E v \in Farthest : Passed(k, now) < data[v] /\ data' = Keep(DOMAIN data \ {v}, k)

(* All that is cached is used before k is.                                  *)
PutTooFar(k) ==
  /\ Miss(k)
  /\ Capacity > 0
  /\ Passed(k, now) # Never
  /\ Full
  /\ \A v \in Farthest : Passed(k, now) >= data[v]
  /\ UNCHANGED data

(* The rival keeps what it wants of what it had and the key it is shown.    *)
RivalAccess(k) ==
  /\ rival' \in { S \in SUBSET (rival \cup {k}) : Cardinality(S) <= Capacity }
  /\ rivalHits' = rivalHits + (IF k \in rival THEN 1 ELSE 0)

Accessed(k) == now < Len(trace) /\ k = trace[now + 1]

(* The loop of RunIdeal, which calls Put also on a hit.  A loop like         *)
(* RunLfu's would call Get there: both are allowed, access by access.       *)
IdealAccess(k) ==
  /\ Accessed(k)
  /\ \/ GetHit(k) \/ PutHit(k)
     \/ PutUseless(k) \/ PutRoom(k) \/ PutEvicting(k) \/ PutTooFar(k)
  /\ RivalAccess(k)
  /\ now' = now + 1
  /\ UNCHANGED trace

IdealNext == \E k \in Keys : IdealAccess(k)

IdealSpec == IdealInit /\ [][IdealNext]_idealVars

----------------------------------------------------------------------------
(* What the cache believes of the future is the future: the next use stored *)
(* with a key is its next access in the trace, however Get's own count and  *)
(* Put's positions have been mixed and however long the key was away.       *)
NextUseIsTrue ==
  /\ DOMAIN data \subseteq Keys /\ Cardinality(DOMAIN data) <= Capacity
  /\ \A k \in DOMAIN data : data[k] = FirstFrom(k, now)

(* Hits so far, and those that keys S would bring up to position d.         *)
Prospect(n, S, d) == n + Cardinality({ k \in S : FirstFrom(k, now) <= d })

(* No rival has more hits, nor has one bought more hits up to any later     *)
(* position by what it keeps now (ideal_cache.hpp:11 "IdealCache").         *)
NobodyBeatsIdeal ==
  /\ rivalHits <= hits
  /\ \A d \in now .. Len(trace) - 1 :
       Prospect(rivalHits, rival, d) <= Prospect(hits, DOMAIN data, d)
=============================================================================
