-------------------------------- MODULE Traces --------------------------------
(***************************************************************************)
(* LfuCache and IdealCache on one trace, as RunLfu (lfu_cache.cpp) and      *)
(* RunIdeal (ideal_cache.cpp) read the same input; and, when the trace is   *)
(* empty, LfuCache on its own under any calls.                              *)
(***************************************************************************)
EXTENDS IdealCache, SequencesExt

CONSTANT MaxFreq    \* of LfuCache

ASSUME TracesAssumption == MaxFreq \in Nat \ {0}

VARIABLES freq, bucket, size, minFreq, touched, \* of LfuCache
          lfuHits                               \* RunLfu's hit_count

Lfu == INSTANCE LfuCache

lfuVars == <<freq, bucket, size, minFreq, touched>>
vars    == <<idealVars, lfuVars, lfuHits>>

Init == IdealInit /\ Lfu!Init /\ lfuHits = 0

LfuAccess(k) ==
  \/ Lfu!Get(k) /\ lfuHits' = lfuHits + 1
  \/ k \notin Lfu!Cached /\ Lfu!Put(k) /\ UNCHANGED lfuHits

Access == \E k \in Keys : IdealAccess(k) /\ LfuAccess(k)

Use == trace = <<>> /\ Lfu!Next /\ UNCHANGED <<idealVars, lfuHits>>

Next == Access \/ Use

Spec == Init /\ [][Next]_vars

----------------------------------------------------------------------------
(* The four containers of LfuCache agree, so that back() and the stored     *)
(* iterators are there when Remove and Promote use them.                    *)
ContainersAgree == Lfu!ContainersAgree

(* Of the keys used equally often LfuCache evicts the one whose latest use  *)
(* is oldest (test_lfu.cpp:59 "tie: older key evicted").                    *)
TieGoesToOldest == [][Lfu!EvictsOldest]_vars

(* On the same input RunLfu never counts more hits than RunIdeal            *)
(* (cache_src/README.md:23 names the latter Belady's).                      *)
LfuNeverAhead == lfuHits <= hits
=============================================================================
