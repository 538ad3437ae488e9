-------------------------------- MODULE Cache --------------------------------
(***************************************************************************)
(* CacheModel in front of MemoryModel: word lines, write-through, read-     *)
(* allocate, least recently used line evicted (cache_model.hpp), used by    *)
(* the same instructions as module Memory.  Only RAM is behind it here; the *)
(* device registers it also caches are the subject of module Clint.         *)
(***************************************************************************)
EXTENDS Memory, Sequences

CONSTANTS
  Capacity      \* capacity_; 64 in main.cpp

ASSUME CacheAssumption == Capacity \in Nat \ {0}

VARIABLES
  line,       \* line[a]: the cached value of word a, or NoLine
  lru         \* lru_: the addresses with a line, most recently used first

cacheVars == <<vars, line, lru>>

NoLine == <<>>

(* The keys of index_.                                                      *)
Index == { a \in Addrs : line[a] # NoLine }

CacheInit ==
  /\ Init
  /\ line    = [a \in Addrs |-> NoLine]
  /\ lru     = <<>>

----------------------------------------------------------------------------
(* lru_.splice of a's entry to begin().                                     *)
MoveToFront(a, s) ==
  LET place == CHOOSE n \in DOMAIN s : s[n] = a
  IN  [n \in 1 .. Len(s) |-> IF n = 1 THEN a ELSE IF n <= place THEN s[n - 1] ELSE s[n]]

Front(s) == SubSeq(s, 1, Len(s) - 1)

Full == Len(lru) >= Capacity

(* What fetchWord(a) returns.                                               *)
Fetched(a) == IF a \in Index THEN line[a] ELSE mem[a]

(* Operators named ..._mutant are faults the properties must detect; no      *)
(* specification uses them.                                                 *)

(* Pops the victim from lru_ but leaves it in index_.                       *)
FetchKeepsVictim_mutant(a, word) ==
  /\ lru'  = (IF a \in Index THEN MoveToFront(a, lru)
              ELSE <<a>> \o (IF Full THEN Front(lru) ELSE lru))
  /\ line' = [line EXCEPT ![a] = word]

(* What fetchWord(a) does to the lines, given what a's line then holds.     *)
Fetch(a, word) ==
  /\ \/ /\ a \in Index
        /\ lru'  = MoveToFront(a, lru)
        /\ line' = [line EXCEPT ![a] = word]
     \/ /\ a \notin Index
        /\ ~ Full
        /\ lru'  = <<a>> \o lru
        /\ line' = [line EXCEPT ![a] = word]
     \/ /\ a \notin Index
        /\ Full
        /\ lru'  = <<a>> \o Front(lru)
        /\ line' = [line EXCEPT ![lru[Len(lru)]] = NoLine, ![a] = word]

(* The word is outside data_: backing_.readWord throws, but the victim has   *)
(* gone by then (with room for a line nothing changes).                     *)
FetchThrows ==
  /\ Full
  /\ lru'  = Front(lru)
  /\ line' = [line EXCEPT ![lru[Len(lru)]] = NoLine]

(* A load, LR, AMO, instruction fetch or page-table read outside the RAM:    *)
(* whether it then traps or throws, memory, reservation and rd stay.        *)
CachedReadOutside ==
  /\ FetchThrows
  /\ UNCHANGED vars

(* A word read that writes no rd: an instruction, a page-table entry, the    *)
(* operand of an AMO whose funct5 then proves illegal.                       *)
CachedRead(a) ==
  /\ Fetch(a, Fetched(a))
  /\ UNCHANGED vars

CachedLoad(a, chunk) ==
  /\ Fetch(a, Fetched(a))
  /\ out' = [l \in chunk |-> Fetched(a)[l]]
  /\ UNCHANGED <<mem, lrAddr, lrValid, running, linked>>

(* Patches the first byte whatever the offset.                              *)
StoreForgetsOffset_mutant(a, chunk, val) ==
  /\ mem' = [mem EXCEPT ![a] = Patch(@, chunk, val)]
  /\ \/ /\ a \in Index
        /\ line' = [line EXCEPT ![a] = Patch(@, {0}, val)]
        /\ lru'  = MoveToFront(a, lru)
     \/ a \notin Index /\ UNCHANGED <<line, lru>>
  /\ lrValid' = FALSE
  /\ UNCHANGED <<lrAddr, running, linked, out>>

(* Without invalidateReservation.                                           *)
StoreKeepsReservation_mutant(a, chunk, val) ==
  /\ mem' = [mem EXCEPT ![a] = Patch(@, chunk, val)]
  /\ \/ /\ a \in Index
        /\ line' = [line EXCEPT ![a] = Patch(@, chunk, val)]
        /\ lru'  = MoveToFront(a, lru)
     \/ a \notin Index /\ UNCHANGED <<line, lru>>
  /\ UNCHANGED <<lrAddr, lrValid, running, linked, out>>

(* write(): a line that is present is patched and moved to the front.       *)
CachedStore(a, chunk, val) ==
  /\ mem' = [mem EXCEPT ![a] = Patch(@, chunk, val)]
  /\ \/ /\ a \in Index
        /\ line' = [line EXCEPT ![a] = Patch(@, chunk, val)]
        /\ lru'  = MoveToFront(a, lru)
     \/ a \notin Index /\ UNCHANGED <<line, lru>>
  /\ lrValid' = FALSE
  /\ UNCHANGED <<lrAddr, running, linked, out>>

CachedLoadReserved(a) ==
  /\ Fetch(a, Fetched(a))
  /\ out'     = Fetched(a)
  /\ lrAddr'  = a
  /\ lrValid' = TRUE
  /\ linked'  = [linked EXCEPT ![running] = [addr |-> a, word |-> Fetched(a)]]
  /\ UNCHANGED <<mem, running>>

(* Forwards to the backing memory only.                                     *)
ScSkipsLine_mutant(a, val) ==
  \/ /\ lrValid /\ lrAddr = a
     /\ lrValid' = FALSE
     /\ mem'  = [mem EXCEPT ![a] = val]
     /\ out'  = Flag(0)
     /\ UNCHANGED <<lrAddr, running, linked, line, lru>>
  \/ /\ ~ (lrValid /\ lrAddr = a)
     /\ out' = Flag(1)
     /\ UNCHANGED <<mem, lrAddr, lrValid, running, linked, line, lru>>

(* storeConditional: the line is updated but keeps its place in lru_.       *)
CachedStoreConditional(a, val) ==
  \/ /\ lrValid /\ lrAddr = a
     /\ lrValid' = FALSE
     /\ mem'  = [mem EXCEPT ![a] = val]
     /\ line' = IF a \in Index THEN [line EXCEPT ![a] = val] ELSE line
     /\ out'  = Flag(0)
     /\ UNCHANGED <<lrAddr, running, linked, lru>>
  \/ /\ ~ (lrValid /\ lrAddr = a)
     /\ out' = Flag(1)
     /\ UNCHANGED <<mem, lrAddr, lrValid, running, linked, line, lru>>

(* readWord, then write(WordT), which finds the line readWord left.         *)
CachedAmo(a, result) ==
  /\ Fetch(a, result)
  /\ out'     = Fetched(a)
  /\ lrValid' = FALSE
  /\ mem'     = [mem EXCEPT ![a] = result]
  /\ UNCHANGED <<lrAddr, running, linked>>

(* What the switching code itself fetches are further CachedReads.          *)
CachedSwitch(t) ==
  /\ Switch(t)
  /\ UNCHANGED <<line, lru>>

CacheNext ==
  \/ \E a \in Addrs, chunk \in Chunks : CachedLoad(a, chunk)
  \/ \E a \in Addrs, chunk \in Chunks, val \in Words : CachedStore(a, chunk, val)
  \/ \E a \in Addrs : CachedLoadReserved(a)
  \/ \E a \in Addrs, val \in Words : CachedStoreConditional(a, val)
  \/ \E a \in Addrs, result \in Words : CachedAmo(a, result)
  \/ \E t \in Threads : CachedSwitch(t)
  \/ \E a \in Addrs : CachedRead(a)
  \/ CachedReadOutside

CacheSpec == CacheInit /\ [][CacheNext]_cacheVars

----------------------------------------------------------------------------
(* index_ and lru_ name the same words, each once, and no more than the     *)
(* capacity; otherwise an eviction would leave a dangling list iterator.    *)
LinesAgree ==
  /\ Len(lru) <= Capacity
  /\ Index = { lru[n] : n \in 1 .. Len(lru) }
  /\ \A m, n \in 1 .. Len(lru) : lru[m] = lru[n] => m = n

(* A line never differs from the memory behind it, whatever mixture of      *)
(* widths, LR/SC, AMO and evictions has happened (cache_model.hpp:73 "keep  *)
(* cache coherent").                                                        *)
Coherent == \A a \in Index : line[a] = mem[a]

(* The program cannot tell the cache is there.                              *)
ImplementsMemory == Spec
=============================================================================
