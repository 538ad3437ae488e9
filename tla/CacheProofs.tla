------------------------------ MODULE CacheProofs ------------------------------
(***************************************************************************)
(* MemoryModel's reservation, and CacheModel before it.                     *)
(*                                                                          *)
(* CacheModel is transparent to programs that use RAM only, for every       *)
(* capacity, word width and number of addresses.  The inductive invariant   *)
(* is coherence; the order of lru_ plays no part, as an eviction is safe    *)
(* whichever line it takes.  That index_ and lru_ name the same words is    *)
(* proved after it.                                                         *)
(***************************************************************************)
EXTENDS Cache, SequenceTheorems, TLAPS

LEMMA PatchIsWord ==
  ASSUME NEW w \in Words, NEW val \in Words, NEW chunk
  PROVE  Patch(w, chunk, val) \in Words
  BY DEF Patch, Words

----------------------------------------------------------------------------
(* Module Memory: LR and SC, for all words, addresses and threads.          *)
(* Enough typing for EXCEPT to mean an update.                              *)
MemShape ==
  /\ mem     \in [Addrs -> Words]
  /\ DOMAIN linked = Threads
  /\ linked  = [t \in Threads |-> linked[t]]
  /\ running \in Threads
  /\ lrValid \in BOOLEAN

MemIInv == MemShape /\ ReservationIsMine

LEMMA FlagsDiffer == Flag(0) # Flag(1)
<1>1. 0 \in Lanes
  BY MemoryAssumption DEF Lanes
<1>2. Flag(0)[0] = 0 /\ Flag(1)[0] = 1
  BY <1>1 DEF Flag
<1> QED
  BY <1>2

LEMMA MemInitIInv == Init => MemIInv
  BY DEF Init, MemIInv, MemShape, ReservationIsMine

LEMMA MemNextKeepsIInv == MemIInv /\ [Next]_vars => MemIInv'
<1> SUFFICES ASSUME MemIInv, [Next]_vars PROVE MemIInv'
  OBVIOUS
<1> USE DEF MemIInv, MemShape, ReservationIsMine
<1>1. ASSUME NEW a \in Addrs, NEW chunk \in Chunks, Load(a, chunk)
      PROVE  MemIInv'
  BY <1>1 DEF Load
<1>2. ASSUME NEW a \in Addrs, NEW chunk \in Chunks, NEW val \in Words,
             Store(a, chunk, val)
      PROVE  MemIInv'
  <2>1. Patch(mem[a], chunk, val) \in Words
    BY PatchIsWord
  <2> QED
    BY <1>2, <2>1 DEF Store
<1>3. ASSUME NEW a \in Addrs, LoadReserved(a)
      PROVE  MemIInv'
  BY <1>3 DEF LoadReserved
<1>4. ASSUME NEW a \in Addrs, NEW val \in Words, StoreConditional(a, val)
      PROVE  MemIInv'
  <2>1. CASE lrValid /\ lrAddr = a
    <3>1. lrValid' = FALSE /\ mem' = [mem EXCEPT ![a] = val] /\ UNCHANGED <<running, linked>>
      BY <1>4, <2>1 DEF StoreConditional
    <3> QED
      BY <3>1
  <2>2. CASE ~ (lrValid /\ lrAddr = a)
    <3>1. UNCHANGED <<mem, lrAddr, lrValid, running, linked>>
      BY <1>4, <2>2 DEF StoreConditional
    <3> QED
      BY <3>1
  <2> QED
    BY <2>1, <2>2
<1>5. ASSUME NEW a \in Addrs, NEW result \in Words, Amo(a, result)
      PROVE  MemIInv'
  BY <1>5 DEF Amo
<1>6. ASSUME NEW t \in Threads, Switch(t)
      PROVE  MemIInv'
  BY <1>6 DEF Switch
<1>7. CASE UNCHANGED vars
  BY <1>7 DEF vars
<1> QED
  BY <1>1, <1>2, <1>3, <1>4, <1>5, <1>6, <1>7 DEF Next

THEOREM MemInvariance == Spec => []MemIInv
  BY MemInitIInv, MemNextKeepsIInv, PTL DEF Spec

(* A standing reservation is the running thread's, and nothing was written  *)
(* to its word since.                                                       *)
THEOREM ReservationOwned == Spec => []ReservationIsMine
<1>1. MemIInv => ReservationIsMine
  BY DEF MemIInv
<1> QED
  BY <1>1, MemInvariance, PTL

(* A successful SC writes over exactly what its own thread's LR loaded.     *)
THEOREM ScAtomic == Spec => ScIsAtomic
<1>1. ASSUME MemIInv, NEW a \in Addrs, NEW val \in Words,
             StoreConditional(a, val), out' = Flag(0)
      PROVE  linked[running] = [addr |-> a, word |-> mem[a]]
  <2>1. lrValid /\ lrAddr = a
    BY <1>1, FlagsDiffer DEF StoreConditional
  <2> QED
    BY <1>1, <2>1 DEF MemIInv, ReservationIsMine
<1>2. MemIInv /\ [Next]_vars
        => [\A a \in Addrs, val \in Words :
              StoreConditional(a, val) /\ out' = Flag(0)
                => linked[running] = [addr |-> a, word |-> mem[a]]]_vars
  BY <1>1
<1> QED
  BY <1>2, MemInvariance, PTL DEF Spec, ScIsAtomic

----------------------------------------------------------------------------
(* Module Cache.                                                            *)
Shape ==
  /\ mem  \in [Addrs -> Words]
  /\ line = [a \in Addrs |-> line[a]]

IInv == Shape /\ Coherent

(* A read through the cache returns what memory holds.                      *)
LEMMA FetchedIsMem ==
  ASSUME Coherent, NEW a \in Addrs
  PROVE  Fetched(a) = mem[a]
  BY DEF Coherent, Fetched, Index

(* Fetch leaves every line coherent except, perhaps, a's own.               *)
LEMMA FetchKeepsOthers ==
  ASSUME IInv, NEW a \in Addrs, NEW word, Fetch(a, word)
  PROVE  /\ line' = [b \in Addrs |-> line'[b]]
         /\ line'[a] = word
         /\ \A b \in Addrs \ {a} : line'[b] \in {line[b], NoLine}
  BY DEF Fetch, IInv, Shape

LEMMA InitIInv == CacheInit => IInv
  BY DEF CacheInit, Init, IInv, Shape, Coherent, Index

LEMMA NextKeepsIInv == IInv /\ [CacheNext]_cacheVars => IInv'
<1> SUFFICES ASSUME IInv, [CacheNext]_cacheVars PROVE IInv'
  OBVIOUS
<1>1. ASSUME NEW a \in Addrs, NEW chunk \in Chunks, CachedLoad(a, chunk)
      PROVE  IInv'
  <2>1. Fetch(a, mem[a]) /\ mem' = mem
    BY <1>1, FetchedIsMem DEF CachedLoad, IInv
  <2> QED
    BY <2>1, FetchKeepsOthers DEF IInv, Shape, Coherent, Index
<1>2. ASSUME NEW a \in Addrs, NEW chunk \in Chunks, NEW val \in Words,
             CachedStore(a, chunk, val)
      PROVE  IInv'
  <2>1. Patch(mem[a], chunk, val) \in Words
    BY PatchIsWord DEF IInv, Shape
  <2>2. a \in Index => line[a] = mem[a]
    BY DEF IInv, Coherent
  <2>3. mem' = [mem EXCEPT ![a] = Patch(mem[a], chunk, val)]
    BY <1>2 DEF CachedStore
  <2>4. CASE a \in Index
    <3>1. line' = [line EXCEPT ![a] = Patch(mem[a], chunk, val)]
      BY <1>2, <2>2, <2>4 DEF CachedStore
    <3> QED
      BY <2>1, <2>3, <3>1 DEF IInv, Shape, Coherent, Index
  <2>5. CASE a \notin Index
    <3>1. line' = line
      BY <1>2, <2>5 DEF CachedStore
    <3> QED
      BY <2>1, <2>3, <2>5, <3>1 DEF IInv, Shape, Coherent, Index
  <2> QED
    BY <2>4, <2>5
<1>3. ASSUME NEW a \in Addrs, CachedLoadReserved(a)
      PROVE  IInv'
  <2>1. Fetch(a, mem[a]) /\ mem' = mem
    BY <1>3, FetchedIsMem DEF CachedLoadReserved, IInv
  <2> QED
    BY <2>1, FetchKeepsOthers DEF IInv, Shape, Coherent, Index
<1>4. ASSUME NEW a \in Addrs, NEW val \in Words, CachedStoreConditional(a, val)
      PROVE  IInv'
  BY <1>4 DEF CachedStoreConditional, IInv, Shape, Coherent, Index
<1>5. ASSUME NEW a \in Addrs, NEW result \in Words, CachedAmo(a, result)
      PROVE  IInv'
  <2>1. Fetch(a, result) /\ mem' = [mem EXCEPT ![a] = result]
    BY <1>5 DEF CachedAmo
  <2> QED
    BY <2>1, FetchKeepsOthers DEF IInv, Shape, Coherent, Index
<1>6. ASSUME NEW t \in Threads, CachedSwitch(t)
      PROVE  IInv'
  BY <1>6 DEF CachedSwitch, Switch, IInv, Shape, Coherent, Index
<1>7. ASSUME NEW a \in Addrs, CachedRead(a)
      PROVE  IInv'
  <2>1. Fetch(a, mem[a]) /\ mem' = mem
    BY <1>7, FetchedIsMem DEF CachedRead, vars, IInv
  <2> QED
    BY <2>1, FetchKeepsOthers DEF IInv, Shape, Coherent, Index
<1>8. CASE CachedReadOutside
  BY <1>8 DEF CachedReadOutside, FetchThrows, vars, IInv, Shape, Coherent, Index
<1>9. CASE UNCHANGED cacheVars
  BY <1>9 DEF cacheVars, vars, IInv, Shape, Coherent, Index
<1> QED
  BY <1>1, <1>2, <1>3, <1>4, <1>5, <1>6, <1>7, <1>8, <1>9 DEF CacheNext

THEOREM Invariance == CacheSpec => []IInv
  BY InitIInv, NextKeepsIInv, PTL DEF CacheSpec

(* No line ever differs from the memory behind it.                          *)
THEOREM Coherence == CacheSpec => []Coherent
<1>1. IInv => Coherent
  BY DEF IInv
<1> QED
  BY <1>1, Invariance, PTL

----------------------------------------------------------------------------
(* Every step through the cache is the same step of plain memory, or none.  *)
LEMMA StepsImplement == IInv /\ [CacheNext]_cacheVars => [Next]_vars
<1> SUFFICES ASSUME IInv, CacheNext PROVE Next \/ UNCHANGED vars
  BY DEF cacheVars, vars
<1> USE FetchedIsMem DEF IInv
<1>1. ASSUME NEW a \in Addrs, NEW chunk \in Chunks, CachedLoad(a, chunk)
      PROVE  Load(a, chunk)
  BY <1>1 DEF CachedLoad, Load
<1>2. ASSUME NEW a \in Addrs, NEW chunk \in Chunks, NEW val \in Words,
             CachedStore(a, chunk, val)
      PROVE  Store(a, chunk, val)
  BY <1>2 DEF CachedStore, Store
<1>3. ASSUME NEW a \in Addrs, CachedLoadReserved(a)
      PROVE  LoadReserved(a)
  BY <1>3 DEF CachedLoadReserved, LoadReserved
<1>4. ASSUME NEW a \in Addrs, NEW val \in Words, CachedStoreConditional(a, val)
      PROVE  StoreConditional(a, val)
  BY <1>4 DEF CachedStoreConditional, StoreConditional
<1>5. ASSUME NEW a \in Addrs, NEW result \in Words, CachedAmo(a, result)
      PROVE  Amo(a, result)
  BY <1>5 DEF CachedAmo, Amo
<1>6. ASSUME NEW t \in Threads, CachedSwitch(t)
      PROVE  Switch(t)
  BY <1>6 DEF CachedSwitch
<1>7. ASSUME NEW a \in Addrs, CachedRead(a)
      PROVE  UNCHANGED vars
  BY <1>7 DEF CachedRead
<1>8. CachedReadOutside => UNCHANGED vars
  BY DEF CachedReadOutside
<1> QED
  BY <1>1, <1>2, <1>3, <1>4, <1>5, <1>6, <1>7, <1>8 DEF CacheNext, Next

(* The program cannot tell that CacheModel is between it and MemoryModel.   *)
THEOREM Transparent == CacheSpec => ImplementsMemory
<1>1. CacheInit => Init
  BY DEF CacheInit
<1> QED
  BY <1>1, StepsImplement, Invariance, PTL DEF CacheSpec, ImplementsMemory, Spec

----------------------------------------------------------------------------
(* index_ and lru_: what the three operations on lru_ do to its elements.   *)
Elements(s) == { s[n] : n \in 1 .. Len(s) }

Once(s) == \A m, n \in 1 .. Len(s) : s[m] = s[n] => m = n

LEMMA MoveToFrontKeeps ==
  ASSUME NEW S, NEW s \in Seq(S), NEW a \in Elements(s), Once(s)
  PROVE  /\ MoveToFront(a, s) \in Seq(S)
         /\ Len(MoveToFront(a, s)) = Len(s)
         /\ Elements(MoveToFront(a, s)) = Elements(s)
         /\ Once(MoveToFront(a, s))
<1> DEFINE p == CHOOSE n \in DOMAIN s : s[n] = a
           t == [n \in 1 .. Len(s) |-> IF n = 1 THEN a ELSE IF n <= p THEN s[n - 1] ELSE s[n]]
<1>1. Len(s) \in Nat /\ DOMAIN s = 1 .. Len(s) /\ \A n \in 1 .. Len(s) : s[n] \in S
  BY LenProperties
<1>2. p \in 1 .. Len(s) /\ s[p] = a
  BY <1>1 DEF Elements
<1>3. MoveToFront(a, s) = t
  BY DEF MoveToFront
<1> HIDE DEF p
<1>4. t \in [1 .. Len(s) -> S]
  BY <1>1, <1>2
<1>5. t \in Seq(S) /\ Len(t) = Len(s)
  <2> HIDE DEF t
  <2>1. t \in Seq(S)
    BY <1>1, <1>4
  <2> QED
    BY <1>1, <1>4, <2>1, LenProperties
<1>6. /\ t[1] = a
      /\ \A n \in 2 .. p : t[n] = s[n - 1]
      /\ \A n \in p + 1 .. Len(s) : t[n] = s[n]
  BY <1>1, <1>2
<1> HIDE DEF t
<1>7. Elements(t) = Elements(s)
  <2>1. ASSUME NEW n \in 1 .. Len(s) PROVE t[n] \in Elements(s)
    <3>1. CASE n = 1
      BY <1>2, <1>6, <3>1 DEF Elements
    <3>2. CASE n \in 2 .. p
      BY <1>1, <1>2, <1>6, <3>2 DEF Elements
    <3>3. CASE n \in p + 1 .. Len(s)
      BY <1>6, <3>3 DEF Elements
    <3> QED
      BY <1>1, <1>2, <3>1, <3>2, <3>3
  <2>2. ASSUME NEW n \in 1 .. Len(s) PROVE s[n] \in Elements(t)
    <3>1. CASE n = p
      <4>1. s[n] = t[1] /\ 1 \in 1 .. Len(t)
        BY <1>1, <1>2, <1>5, <1>6, <3>1
      <4> QED
        BY <4>1 DEF Elements
    <3>2. CASE n < p
      <4>1. n + 1 \in 2 .. p /\ n + 1 \in 1 .. Len(t) /\ s[n] = t[n + 1]
        BY <1>1, <1>2, <1>5, <1>6, <3>2
      <4> QED
        BY <4>1 DEF Elements
    <3>3. CASE p < n
      <4>1. s[n] = t[n]
        BY <1>1, <1>2, <1>6, <3>3
      <4> QED
        BY <1>5, <4>1 DEF Elements
    <3> QED
      BY <1>1, <1>2, <3>1, <3>2, <3>3
  <2> QED
    BY <1>5, <2>1, <2>2 DEF Elements
<1>8. Once(t)
  <2> SUFFICES ASSUME NEW m \in 1 .. Len(s), NEW n \in 1 .. Len(s), m < n PROVE t[m] # t[n]
    BY <1>1, <1>5 DEF Once
  <2> DEFINE From(k) == IF k = 1 THEN p ELSE IF k <= p THEN k - 1 ELSE k
  <2>1. \A k \in 1 .. Len(s) : From(k) \in 1 .. Len(s) /\ t[k] = s[From(k)]
    BY <1>1, <1>2, <1>6
  <2>2. From(m) # From(n)
    BY <1>1, <1>2
  <2> HIDE DEF From
  <2> QED
    BY <2>1, <2>2 DEF Once
<1> QED
  BY <1>3, <1>5, <1>7, <1>8

LEMMA PushFrontAdds ==
  ASSUME NEW S, NEW s \in Seq(S), NEW a \in S, a \notin Elements(s), Once(s)
  PROVE  /\ <<a>> \o s \in Seq(S)
         /\ Len(<<a>> \o s) = Len(s) + 1
         /\ Elements(<<a>> \o s) = {a} \cup Elements(s)
         /\ Once(<<a>> \o s)
<1> DEFINE t == <<a>> \o s
<1>1. /\ Len(s) \in Nat
      /\ t \in Seq(S) /\ Len(t) = Len(s) + 1
      /\ \A n \in 1 .. Len(s) + 1 : t[n] = IF n <= 1 THEN a ELSE s[n - 1]
  <2>1. <<a>> \in Seq(S) /\ Len(<<a>>) = 1 /\ <<a>>[1] = a
    OBVIOUS
  <2> QED
    BY <2>1, ConcatProperties, LenProperties
<1> HIDE DEF t
<1>2. Elements(t) = {a} \cup Elements(s)
  <2>1. ASSUME NEW n \in 1 .. Len(s) + 1 PROVE t[n] \in {a} \cup Elements(s)
    BY <1>1 DEF Elements
  <2>2. a \in Elements(t)
    BY <1>1 DEF Elements
  <2>3. ASSUME NEW n \in 1 .. Len(s) PROVE s[n] \in Elements(t)
    <3>1. n + 1 \in 1 .. Len(t) /\ t[n + 1] = s[n]
      BY <1>1
    <3> QED
      BY <3>1 DEF Elements
  <2> QED
    BY <1>1, <2>1, <2>2, <2>3 DEF Elements
<1>3. Once(t)
  <2> SUFFICES ASSUME NEW m \in 1 .. Len(s) + 1, NEW n \in 1 .. Len(s) + 1, m < n
               PROVE  t[m] # t[n]
    BY <1>1 DEF Once
  <2>1. n - 1 \in 1 .. Len(s) /\ t[n] = s[n - 1]
    BY <1>1
  <2>2. CASE m = 1
    BY <1>1, <2>1, <2>2 DEF Elements
  <2>3. CASE m > 1
    <3>1. m - 1 \in 1 .. Len(s) /\ t[m] = s[m - 1] /\ m - 1 # n - 1
      BY <1>1, <2>3
    <3> QED
      BY <2>1, <3>1 DEF Once
  <2> QED
    BY <1>1, <2>2, <2>3
<1> QED
  BY <1>1, <1>2, <1>3 DEF t

LEMMA FrontDrops ==
  ASSUME NEW S, NEW s \in Seq(S), Len(s) > 0, Once(s)
  PROVE  /\ Front(s) \in Seq(S)
         /\ Len(Front(s)) = Len(s) - 1
         /\ Elements(Front(s)) = Elements(s) \ {s[Len(s)]}
         /\ Once(Front(s))
<1> DEFINE t == Front(s)
<1>1. /\ Len(s) \in Nat \ {0}
      /\ t \in Seq(S) /\ Len(t) = Len(s) - 1
      /\ \A n \in 1 .. Len(s) - 1 : t[n] = s[n]
  <2>1. Len(s) \in Nat \ {0} /\ \A n \in 1 .. Len(s) : s[n] \in S
    BY LenProperties
  <2>2. Len(s) - 1 \in Int /\ 1 \in Int /\ \A n \in 1 .. Len(s) - 1 : s[n] \in S
    BY <2>1
  <2>3. /\ t \in Seq(S)
        /\ Len(t) = IF 1 <= Len(s) - 1 THEN (Len(s) - 1) - 1 + 1 ELSE 0
        /\ \A n \in 1 .. (Len(s) - 1) - 1 + 1 : t[n] = s[1 + n - 1]
    BY <2>2, SubSeqProperties DEF Front
  <2> HIDE DEF t
  <2>4. ASSUME NEW n \in 1 .. Len(s) - 1 PROVE t[n] = s[n]
    <3>1. n \in 1 .. (Len(s) - 1) - 1 + 1 /\ 1 + n - 1 = n
      BY <2>1
    <3> QED
      BY <2>3, <3>1
  <2>5. \A c \in Nat \ {0} : (IF 1 <= c - 1 THEN (c - 1) - 1 + 1 ELSE 0) = c - 1
    OBVIOUS
  <2>6. Len(t) = Len(s) - 1
    BY <2>1, <2>3, <2>5, Zenon
  <2> QED
    BY <2>1, <2>3, <2>4, <2>6
<1> HIDE DEF t
<1>2. Elements(t) = Elements(s) \ {s[Len(s)]}
  BY <1>1 DEF Elements, Once
<1>3. Once(t)
  BY <1>1 DEF Once
<1> QED
  BY <1>1, <1>2, <1>3 DEF t

(* LinesAgree, as an inductive invariant.                                   *)
LInv ==
  /\ lru \in Seq(Addrs)
  /\ Len(lru) <= Capacity
  /\ Index = Elements(lru)
  /\ Once(lru)

LEMMA WordIsALine == \A word \in Words : word # NoLine
<1>1. 0 \in Lanes
  BY MemoryAssumption DEF Lanes
<1>2. \A word \in Words : DOMAIN word = Lanes
  BY DEF Words
<1>3. DOMAIN NoLine = {}
  BY DEF NoLine
<1> QED
  BY <1>1, <1>2, <1>3

LEMMA FetchKeepsLInv ==
  ASSUME IInv, LInv, NEW a \in Addrs, NEW word \in Words, Fetch(a, word)
  PROVE  LInv'
<1> USE CacheAssumption, WordIsALine
<1>1. Len(lru) \in Nat
  BY LenProperties DEF LInv
<1>2. CASE a \in Index
  <2>1. lru' = MoveToFront(a, lru) /\ line' = [line EXCEPT ![a] = word]
    BY <1>2 DEF Fetch
  <2>2. Index' = Index
    BY <1>2, <2>1 DEF Index, IInv, Shape
  <2> QED
    BY <1>2, <2>1, <2>2, MoveToFrontKeeps DEF LInv
<1>3. CASE a \notin Index /\ ~ Full
  <2>1. lru' = <<a>> \o lru /\ line' = [line EXCEPT ![a] = word]
    BY <1>3 DEF Fetch
  <2>2. Index' = {a} \cup Index
    BY <2>1 DEF Index, IInv, Shape
  <2>3. Len(lru) + 1 <= Capacity
    BY <1>1, <1>3 DEF Full
  <2> QED
    BY <1>3, <2>1, <2>2, <2>3, PushFrontAdds DEF LInv
<1>4. CASE a \notin Index /\ Full
  <2> DEFINE victim == lru[Len(lru)]
  <2>1. /\ lru'  = <<a>> \o Front(lru)
        /\ line' = [line EXCEPT ![victim] = NoLine, ![a] = word]
    BY <1>4 DEF Fetch
  <2>2. Len(lru) > 0
    BY <1>1, <1>4 DEF Full
  <2>3. victim \in Index
    BY <1>1, <2>2 DEF LInv, Elements
  <2>4. Index' = {a} \cup (Index \ {victim})
    BY <1>4, <2>1, <2>3 DEF Index, IInv, Shape
  <2>5. /\ Front(lru) \in Seq(Addrs) /\ Len(Front(lru)) = Len(lru) - 1
        /\ Elements(Front(lru)) = Index \ {victim} /\ Once(Front(lru))
    BY <2>2, FrontDrops DEF LInv
  <2> HIDE DEF victim
  <2>6. a \notin Elements(Front(lru))
    BY <1>4, <2>5
  <2> QED
    BY <1>1, <2>1, <2>4, <2>5, <2>6, PushFrontAdds DEF LInv
<1> QED
  BY <1>2, <1>3, <1>4

LEMMA NextKeepsLInv == IInv /\ LInv /\ [CacheNext]_cacheVars => LInv'
<1> SUFFICES ASSUME IInv, LInv, [CacheNext]_cacheVars PROVE LInv'
  OBVIOUS
<1>w. \A a \in Addrs : Fetched(a) \in Words
  BY FetchedIsMem DEF IInv, Shape
<1>1. ASSUME NEW a \in Addrs, NEW chunk \in Chunks, CachedLoad(a, chunk)
      PROVE  LInv'
  BY <1>1, <1>w, FetchKeepsLInv DEF CachedLoad
<1>2. ASSUME NEW a \in Addrs, NEW chunk \in Chunks, NEW val \in Words,
             CachedStore(a, chunk, val)
      PROVE  LInv'
  <2>1. CASE a \in Index
    <3>1. Patch(line[a], chunk, val) \in Words
      BY <2>1, PatchIsWord DEF IInv, Shape, Coherent
    <3>2. /\ lru' = MoveToFront(a, lru)
          /\ line' = [line EXCEPT ![a] = Patch(line[a], chunk, val)]
      BY <1>2, <2>1 DEF CachedStore
    <3>3. Fetch(a, Patch(line[a], chunk, val))
      BY <2>1, <3>2 DEF Fetch
    <3> QED
      BY <3>1, <3>3, FetchKeepsLInv
  <2>2. CASE a \notin Index
    BY <1>2, <2>2 DEF CachedStore, LInv, Index
  <2> QED
    BY <2>1, <2>2
<1>3. ASSUME NEW a \in Addrs, CachedLoadReserved(a)
      PROVE  LInv'
  BY <1>3, <1>w, FetchKeepsLInv DEF CachedLoadReserved
<1>4. ASSUME NEW a \in Addrs, NEW val \in Words, CachedStoreConditional(a, val)
      PROVE  LInv'
  <2>1. lru' = lru
    BY <1>4 DEF CachedStoreConditional
  <2>2. Index' = Index
    BY <1>4, WordIsALine DEF CachedStoreConditional, Index, IInv, Shape
  <2> QED
    BY <2>1, <2>2 DEF LInv
<1>5. ASSUME NEW a \in Addrs, NEW result \in Words, CachedAmo(a, result)
      PROVE  LInv'
  BY <1>5, FetchKeepsLInv DEF CachedAmo
<1>6. ASSUME NEW a \in Addrs, CachedRead(a)
      PROVE  LInv'
  BY <1>6, <1>w, FetchKeepsLInv DEF CachedRead
<1>7. CASE CachedReadOutside
  <2> DEFINE victim == lru[Len(lru)]
  <2>1. lru' = Front(lru) /\ line' = [line EXCEPT ![victim] = NoLine]
    BY <1>7 DEF CachedReadOutside, FetchThrows
  <2>2. Len(lru) \in Nat /\ Len(lru) > 0
    BY <1>7, CacheAssumption, LenProperties DEF CachedReadOutside, FetchThrows, Full, LInv
  <2>3. victim \in Index
    BY <2>2 DEF LInv, Elements
  <2>4. Index' = Index \ {victim}
    BY <2>1, <2>3 DEF Index, IInv, Shape
  <2> QED
    BY <2>1, <2>2, <2>4, CacheAssumption, FrontDrops DEF LInv
<1>8. CASE UNCHANGED <<line, lru>>
  BY <1>8 DEF LInv, Index
<1> QED
  BY <1>1, <1>2, <1>3, <1>4, <1>5, <1>6, <1>7, <1>8 DEF CacheNext, CachedSwitch, cacheVars

(* index_ and lru_ always name the same words, each once and never more     *)
(* than the capacity, for every capacity: no iterator ever dangles.         *)
THEOREM ListNamesLines == CacheSpec => []LinesAgree
<1>1. CacheInit => LInv
  <2>1. <<>> \in Seq(Addrs) /\ Len(<<>>) = 0
    OBVIOUS
  <2> QED
    BY <2>1, CacheAssumption DEF CacheInit, LInv, Index, Elements, Once
<1>2. LInv => LinesAgree
  BY DEF LInv, LinesAgree, Elements, Once
<1> QED
  BY <1>1, <1>2, NextKeepsLInv, Invariance, PTL DEF CacheSpec
=============================================================================
