------------------------------- MODULE LfuCache -------------------------------
(***************************************************************************)
(* cache_src/include/lfu_cache.hpp: least-frequently-used eviction with a   *)
(* list of keys per frequency and a remembered minimum.  Cached values are  *)
(* left out; no decision depends on them.                                   *)
(***************************************************************************)
EXTENDS Naturals, Sequences, FiniteSets, FiniteSetsExt, SequencesExt

CONSTANTS
  Keys,
  Capacity,     \* capacity_; 0 is allowed and makes Put do nothing
  MaxFreq       \* frequencies counted; a bound of the model

VARIABLES
  freq,         \* frequency_; 0 for a key that is not cached
  bucket,       \* frequency_buckets_[f], newest key first; <<>> when absent
  size,         \* size_
  minFreq,      \* min_frequency_
  touched       \* cached keys by their latest Get or Put, newest first: history

vars == <<freq, bucket, size, minFreq, touched>>

Freqs == 1 .. MaxFreq

Init ==
  /\ freq    = [k \in Keys |-> 0]
  /\ bucket  = [f \in Freqs |-> <<>>]
  /\ size    = 0
  /\ minFreq = 0
  /\ touched = <<>>

Cached == { k \in Keys : freq[k] > 0 }

(* The smallest key of frequency_buckets_ b.                                *)
LeastOf(b) == Min({ f \in Freqs : b[f] # <<>> })

(* list.erase at k's iterator, the one place k has in s.                    *)
Erase(s, k) ==
  LET p == CHOOSE n \in DOMAIN s : s[n] = k
  IN  [n \in 1 .. Len(s) - 1 |-> IF n < p THEN s[n] ELSE s[n + 1]]

(* Operators named ..._mutant are faults the properties must detect; no      *)
(* specification uses them.                                                 *)

(* Leaves k in its old bucket when others share it.                         *)
PromoteKeepsOld_mutant(k) ==
  LET f    == freq[k]
      left == [bucket EXCEPT ![f] = IF Len(@) = 1 THEN <<>> ELSE @]
  IN  /\ f < MaxFreq
      /\ freq'    = [freq EXCEPT ![k] = f + 1]
      /\ bucket'  = [left EXCEPT ![f + 1] = <<k>> \o @]
      /\ minFreq' = IF left[f] = <<>> /\ f = minFreq THEN f + 1 ELSE minFreq
      /\ touched' = <<k>> \o Erase(touched, k)
      /\ UNCHANGED size

(***************************************************************************)
(* Promote(k).  min_frequency_ is recomputed from the buckets that are left *)
(* before k is put into the next one.                                       *)
(***************************************************************************)
Promote(k) ==
  LET f    == freq[k]
      left == [bucket EXCEPT ![f] = Erase(@, k)]
  IN  /\ f < MaxFreq
      /\ freq'    = [freq EXCEPT ![k] = f + 1]
      /\ bucket'  = [left EXCEPT ![f + 1] = <<k>> \o @]
      /\ minFreq' = IF left[f] = <<>> /\ f = minFreq
                      THEN IF \A g \in Freqs : left[g] = <<>> THEN 1 ELSE LeastOf(left)
                      ELSE minFreq
      /\ touched' = <<k>> \o Erase(touched, k)
      /\ UNCHANGED size

Get(k) ==
  /\ k \in Cached
  /\ Promote(k)

(* Put of a cached key replaces its value and promotes it.                  *)
PutAgain(k) ==
  /\ k \in Cached
  /\ Promote(k)

(* data_[k], frequency_ 1, front of bucket 1, given what Remove left.       *)
Insert(k, fr, b, n, t) ==
  /\ freq'    = [fr EXCEPT ![k] = 1]
  /\ bucket'  = [b EXCEPT ![1] = <<k>> \o @]
  /\ size'    = n + 1
  /\ minFreq' = 1
  /\ touched' = <<k>> \o t

PutNew(k) ==
  /\ k \notin Cached
  /\ size < Capacity
  /\ Insert(k, freq, bucket, size, touched)

(* The bucket Remove takes from: min_frequency_'s, or, when that one does   *)
(* not exist, the smallest there is.                                        *)
VictimBucket ==
  IF minFreq \in Freqs /\ bucket[minFreq] # <<>> THEN minFreq ELSE LeastOf(bucket)

(* Takes the key at the front of the bucket.                                *)
PutEvictingNewest_mutant(k) ==
  /\ k \notin Cached
  /\ size >= Capacity
  /\ LET f == VictimBucket
         v == Head(bucket[f])
     IN  Insert(k, [freq EXCEPT ![v] = 0], [bucket EXCEPT ![f] = Tail(@)],
                size - 1, Erase(touched, v))

(* Remove, then the insertion: the key at the back of the bucket goes.      *)
PutEvicting(k) ==
  /\ k \notin Cached
  /\ size >= Capacity
  /\ LET f == VictimBucket
         v == Last(bucket[f])
     IN  Insert(k, [freq EXCEPT ![v] = 0], [bucket EXCEPT ![f] = Front(@)],
                size - 1, Erase(touched, v))

(* A cache without capacity returns at once.                                *)
Put(k) ==
  IF Capacity = 0 THEN UNCHANGED vars ELSE PutAgain(k) \/ PutNew(k) \/ PutEvicting(k)

Next == \E k \in Keys : Get(k) \/ Put(k)

Spec == Init /\ [][Next]_vars

----------------------------------------------------------------------------
(* The four containers agree: every cached key is once in the bucket of its *)
(* frequency and in no other, and size_ counts them.  Remove dereferences   *)
(* back() and Promote erases by a stored iterator on the strength of this.  *)
ContainersAgree ==
  /\ size = Cardinality(Cached) /\ size <= Capacity
  /\ \A f \in Freqs :
       /\ ToSet(bucket[f]) = { k \in Keys : freq[k] = f }
       /\ Len(bucket[f]) = Cardinality(ToSet(bucket[f]))

Evicted(k) == freq[k] > 0 /\ freq'[k] = 0

(* An eviction takes, of the keys used equally often, the one whose latest  *)
(* use is oldest (test_lfu.cpp:59 "tie: older key evicted").                *)
EvictsOldest ==
  \A k, j \in Keys :
    Evicted(k) /\ j # k /\ freq[j] = freq[k]
      => \E m, n \in DOMAIN touched : m < n /\ touched[m] = j /\ touched[n] = k

(* An eviction takes a key of the lowest frequency (test_lfu.cpp:49         *)
(* "high-freq key survives eviction").                                      *)
EvictsLeastFrequent ==
  [][\A k, j \in Keys : Evicted(k) /\ freq[j] > 0 => freq[k] <= freq[j]]_vars
=============================================================================
