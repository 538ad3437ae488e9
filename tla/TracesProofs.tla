------------------------------ MODULE TracesProofs -----------------------------
(***************************************************************************)
(* Machine-checked proofs about module Traces, for every set of keys,       *)
(* capacity and trace: Belady's cache is ideal, LfuCache's containers agree *)
(* after any calls and its ties go to the oldest, and LfuCache never has    *)
(* more hits than the ideal cache.                                          *)
(***************************************************************************)
EXTENDS Traces, FiniteSetTheorems, SequenceTheorems, TLAPS

(* A nonempty set of naturals has its Min: among the initial segments that  *)
(* end in it there is one that strictly contains no other.                  *)
LEMMA MinIsLeast ==
  ASSUME NEW S \in SUBSET Nat, S # {}
  PROVE  Min(S) \in S /\ \A n \in S : Min(S) <= n
<1> DEFINE Upto == { 0 .. n : n \in S }
<1>1. Upto \subseteq FiniteSubsetsOf(Nat) /\ Upto # {}
  <2>1. ASSUME NEW n \in S PROVE 0 .. n \in FiniteSubsetsOf(Nat)
    <3>1. IsFiniteSet(0 .. n)
      BY FS_Interval
    <3> QED
      BY <3>1 DEF FiniteSubsetsOf
  <2> QED
    BY <2>1
<1>2. PICK I \in Upto : \A J \in Upto : ~ (<<J, I>> \in StrictSubsetOrdering(Nat))
  BY <1>1, FS_StrictSubsetOrderingWellFounded, WFMin
<1>3. PICK m \in S : I = 0 .. m
  OBVIOUS
<1>4. ASSUME NEW n \in S, n < m PROVE FALSE
  <2>1. 0 .. n \in Upto /\ 0 .. n \subseteq 0 .. m /\ 0 .. n # 0 .. m
    BY <1>4
  <2>2. 0 .. n \in SUBSET Nat /\ 0 .. m \in SUBSET Nat
    OBVIOUS
  <2>3. <<0 .. n, 0 .. m>> \in StrictSubsetOrdering(Nat)
    BY <2>1, <2>2 DEF StrictSubsetOrdering
  <2> QED
    BY <2>1, <2>3, <1>2, <1>3
<1>5. \A n \in S : m <= n
  BY <1>4
<1> HIDE DEF Upto
<1> QED
  BY <1>5 DEF Min

(* FirstFrom is an access at p or later with none before it, or there is    *)
(* none and it is Never.                                                    *)
LEMMA FirstFromIs ==
  ASSUME trace \in Seq(Keys), NEW k \in Keys, NEW p \in Nat
  PROVE  /\ FirstFrom(k, p) \in 0 .. Never
         /\ FirstFrom(k, p) # Never => FirstFrom(k, p) \in Positions(k) /\ FirstFrom(k, p) >= p
         /\ \A q \in Positions(k) : q >= p => FirstFrom(k, p) <= q
<1> DEFINE later == { q \in Positions(k) : q >= p }
<1>1. Len(trace) \in Nat /\ later \in SUBSET Nat
  BY DEF Positions
<1>2. FirstFrom(k, p) = IF later = {} THEN Never ELSE Min(later)
  BY DEF FirstFrom
<1>3. CASE later = {}
  BY <1>1, <1>2, <1>3 DEF Never
<1>4. CASE later # {}
  <2>1. Min(later) \in later /\ \A q \in later : Min(later) <= q
    BY <1>1, <1>4, MinIsLeast
  <2> QED
    BY <1>1, <1>2, <1>4, <2>1 DEF Never, Positions
<1> QED
  BY <1>3, <1>4

(* Starting to look later, but not too late, finds the same access.         *)
LEMMA FirstFromLater ==
  ASSUME trace \in Seq(Keys), NEW k \in Keys, NEW p \in Nat, NEW q \in Nat,
         p <= q, q <= FirstFrom(k, p)
  PROVE  FirstFrom(k, q) = FirstFrom(k, p)
<1>1. \A r \in Positions(k) : r \in Nat /\ r < Never
  BY DEF Positions, Never
<1>2. Never \in Nat
  BY DEF Never
<1>p. /\ FirstFrom(k, p) \in 0 .. Never
      /\ \A r \in Positions(k) : r >= p => FirstFrom(k, p) <= r
  BY FirstFromIs
<1>q. /\ FirstFrom(k, q) \in 0 .. Never
      /\ FirstFrom(k, q) # Never => FirstFrom(k, q) \in Positions(k) /\ FirstFrom(k, q) >= q
      /\ \A r \in Positions(k) : r >= q => FirstFrom(k, q) <= r
  BY FirstFromIs
<1>3. CASE FirstFrom(k, p) = Never
  <2>1. \A r \in Positions(k) : ~ (r >= q)
    BY <1>1, <1>2, <1>3, <1>p
  <2> QED
    BY <1>3, <2>1, <1>q
<1>4. CASE FirstFrom(k, p) # Never
  <2>1. FirstFrom(k, p) \in Positions(k) /\ FirstFrom(k, p) >= q
    BY <1>4, FirstFromIs
  <2>2. FirstFrom(k, q) <= FirstFrom(k, p)
    BY <2>1, <1>q
  <2>3. FirstFrom(k, q) \in Positions(k) /\ FirstFrom(k, q) >= q
    BY <2>1, <2>2, <1>1, <1>2, <1>q
  <2>4. FirstFrom(k, p) <= FirstFrom(k, q)
    BY <2>3, <1>1, <1>p
  <2> QED
    BY <2>2, <2>4, <1>2, <1>p, <1>q
<1> QED
  BY <1>3, <1>4

(* An access of k is the one k waited for; nobody else's next one moves.    *)
LEMMA AccessMoves ==
  ASSUME trace \in Seq(Keys), now \in 0 .. Len(trace), NEW k \in Keys, Accessed(k)
  PROVE  /\ FirstFrom(k, now) = now
         /\ FirstFrom(k, now + 1) > now
         /\ \A j \in Keys : j # k => /\ FirstFrom(j, now + 1) = FirstFrom(j, now)
                                     /\ FirstFrom(j, now) > now
<1>1. now \in Nat /\ now < Never /\ k = trace[now + 1]
  BY DEF Accessed, Never
<1>2. now \in Positions(k)
  BY <1>1 DEF Positions, Never
<1>3. FirstFrom(k, now) = now
  <2>1. /\ FirstFrom(k, now) \in 0 .. Never
        /\ FirstFrom(k, now) # Never => FirstFrom(k, now) >= now
        /\ FirstFrom(k, now) <= now
    BY <1>1, <1>2, FirstFromIs
  <2> QED
    BY <1>1, <2>1 DEF Never
<1>4. FirstFrom(k, now + 1) > now
  <2> DEFINE q == now + 1
  <2>0. q \in Nat
    BY <1>1
  <2> HIDE DEF q
  <2>1. FirstFrom(k, q) \in 0 .. Never /\ (FirstFrom(k, q) # Never => FirstFrom(k, q) >= q)
    BY <2>0, FirstFromIs
  <2> QED
    BY <1>1, <2>0, <2>1 DEF Never, q
<1>5. ASSUME NEW j \in Keys, j # k
      PROVE  FirstFrom(j, now + 1) = FirstFrom(j, now) /\ FirstFrom(j, now) > now
  <2>1. now \notin Positions(j)
    BY <1>1, <1>5 DEF Positions
  <2>2. /\ FirstFrom(j, now) \in 0 .. Never
        /\ FirstFrom(j, now) # Never => FirstFrom(j, now) \in Positions(j) /\ FirstFrom(j, now) >= now
    BY <1>1, FirstFromIs
  <2>3. FirstFrom(j, now) > now
    BY <1>1, <2>1, <2>2 DEF Never
  <2>4. now + 1 \in Nat /\ now <= now + 1 /\ now + 1 <= FirstFrom(j, now)
    BY <1>1, <2>2, <2>3 DEF Never
  <2> QED
    BY <1>1, <2>3, <2>4, FirstFromLater
<1> QED
  BY <1>3, <1>4, <1>5

(* A cursor that is not ahead of j's next use is moved to the one after.    *)
LEMMA PassedIsNext ==
  ASSUME trace \in Seq(Keys), now \in 0 .. Len(trace), NEW k \in Keys, Accessed(k),
         NEW j \in Keys, cursor[j] \in Nat, cursor[j] <= FirstFrom(j, now)
  PROVE  Passed(j, now) = FirstFrom(j, now + 1)
<1>1. now \in Nat /\ now + 1 \in Nat
  OBVIOUS
<1>2. FirstFrom(j, now + 1) \in Nat /\ FirstFrom(j, now + 1) > now /\ cursor[j] <= FirstFrom(j, now + 1)
  <2> DEFINE q == now + 1
  <2>0. q \in Nat /\ Never \in Nat
    BY <1>1 DEF Never
  <2> HIDE DEF q
  <2>q. FirstFrom(j, q) \in 0 .. Never
    BY <2>0, FirstFromIs
  <2>1. FirstFrom(j, now + 1) \in 0 .. Never /\ Never \in Nat
    BY <2>0, <2>q DEF q
  <2>2. CASE j = k
    BY <2>1, <2>2, AccessMoves
  <2>3. CASE j # k
    BY <2>1, <2>3, AccessMoves
  <2> QED
    BY <2>2, <2>3
<1>3. Larger(cursor[j], now + 1) \in Nat /\ now + 1 <= Larger(cursor[j], now + 1)
        /\ Larger(cursor[j], now + 1) <= FirstFrom(j, now + 1)
  BY <1>1, <1>2 DEF Larger
<1> QED
  BY <1>1, <1>3, FirstFromLater DEF Passed

----------------------------------------------------------------------------
Held == DOMAIN data

Typed ==
  /\ trace \in Seq(Keys) /\ now \in 0 .. Len(trace)
  /\ cursor \in [Keys -> Nat] /\ index \in Nat
  /\ hits \in Nat /\ rivalHits \in Nat
  /\ Held \subseteq Keys /\ IsFiniteSet(Held) /\ Cardinality(Held) <= Capacity
  /\ rival \subseteq Keys /\ IsFiniteSet(rival) /\ Cardinality(rival) <= Capacity

(* No cursor is ahead of the trace; index is one access behind when a Get   *)
(* may use it.                                                              *)
CursorsBehind ==
  /\ \A j \in Keys : cursor[j] <= FirstFrom(j, now)
  /\ Held # {} => now = index + 1

KnowsNextUse == Typed /\ CursorsBehind /\ \A j \in Held : data[j] = FirstFrom(j, now)

IInv == KnowsNextUse /\ NobodyBeatsIdeal

(* The six ways an access goes, as what they keep.                          *)
Hit(k)     == k \in Held /\ DOMAIN data' = Held
Useless(k) == k \notin Held /\ DOMAIN data' = Held /\ (Capacity = 0 \/ FirstFrom(k, now + 1) = Never)
Room(k)    == k \notin Held /\ DOMAIN data' = Held \cup {k} /\ Cardinality(Held) < Capacity
Evicting(k) ==
  \E v \in Held :
    /\ k \notin Held /\ DOMAIN data' = (Held \ {v}) \cup {k} /\ Cardinality(Held) >= Capacity
    /\ FirstFrom(k, now + 1) < FirstFrom(v, now)
    /\ \A j \in Held : FirstFrom(j, now) <= FirstFrom(v, now)
TooFar(k) ==
  /\ k \notin Held /\ DOMAIN data' = Held /\ Cardinality(Held) >= Capacity
  /\ \A j \in Held : FirstFrom(j, now) <= FirstFrom(k, now + 1)

(* Something cached is used last.                                           *)
LEMMA FarthestExists ==
  ASSUME KnowsNextUse, Held # {}
  PROVE  Farthest # {}
<1> DEFINE left == { Never - data[j] : j \in Held }
<1>1. Never \in Nat /\ now \in Nat
  BY DEF KnowsNextUse, Typed, Never
<1>2. \A j \in Held : data[j] \in 0 .. Never
  BY <1>1, FirstFromIs DEF KnowsNextUse, Typed
<1>3. left \in SUBSET Nat /\ left # {}
  BY <1>1, <1>2
<1>4. PICK v \in Held : \A j \in Held : Never - data[v] <= Never - data[j]
  <2>1. Min(left) \in left /\ \A n \in left : Min(left) <= n
    BY <1>3, MinIsLeast
  <2> QED
    BY <2>1
<1>5. \A j \in Held : data[j] <= data[v]
  BY <1>1, <1>2, <1>4
<1> QED
  BY <1>4, <1>5 DEF Farthest, Held

(* What an access does to the cache's knowledge, and which way it went.     *)
LEMMA AccessEffect ==
  ASSUME KnowsNextUse, NEW k \in Keys, IdealAccess(k)
  PROVE  /\ Hit(k) \/ Useless(k) \/ Room(k) \/ Evicting(k) \/ TooFar(k)
         /\ hits' = hits + (IF k \in Held THEN 1 ELSE 0)
         /\ cursor' \in [Keys -> Nat] /\ \A j \in Keys : cursor'[j] <= FirstFrom(j, now + 1)
         /\ index' \in Nat /\ (DOMAIN data' # {} => index' = now)
         /\ \A j \in DOMAIN data' : data'[j] = FirstFrom(j, now + 1)
<1> DEFINE G(j) == FirstFrom(j, now + 1)
<1>1. /\ trace \in Seq(Keys) /\ now \in 0 .. Len(trace) /\ now \in Nat /\ Accessed(k)
      /\ cursor \in [Keys -> Nat] /\ Held \subseteq Keys /\ hits \in Nat
  BY DEF KnowsNextUse, Typed, IdealAccess
<1>2. \A j \in Keys : Passed(j, now) = G(j)
  BY <1>1, PassedIsNext DEF KnowsNextUse, CursorsBehind
<1>3. \A j \in Keys : G(j) \in Nat /\ cursor[j] <= G(j)
  <2> SUFFICES ASSUME NEW j \in Keys PROVE G(j) \in Nat /\ cursor[j] <= G(j)
    OBVIOUS
  <2>1. FirstFrom(j, now) \in 0 .. Never /\ Never \in Nat
    BY <1>1, FirstFromIs DEF Never
  <2> DEFINE q == now + 1
  <2>2. q \in Nat
    BY <1>1
  <2> HIDE DEF q
  <2>3. FirstFrom(j, q) \in 0 .. Never
    BY <1>1, <2>2, FirstFromIs
  <2>4. G(j) \in Nat
    BY <2>1, <2>3 DEF q
  <2>5. CASE j = k
    BY <1>1, <2>1, <2>4, <2>5, AccessMoves DEF KnowsNextUse, CursorsBehind
  <2>6. CASE j # k
    BY <1>1, <2>4, <2>6, AccessMoves DEF KnowsNextUse, CursorsBehind
  <2> QED
    BY <2>4, <2>5, <2>6
<1>4. \A j \in Held : j # k => data[j] = G(j)
  BY <1>1, AccessMoves DEF KnowsNextUse
<1>5. k \in Held => index + 1 = now
  BY <1>1 DEF KnowsNextUse, CursorsBehind, Typed
<1> HIDE DEF G
<1>6. CASE GetHit(k)
  <2>1. k \in Held /\ DOMAIN data' = Held /\ index' = now /\ hits' = hits + 1
    BY <1>5, <1>6 DEF GetHit, Held
  <2>2. cursor' = [j \in Keys |-> IF j \in Held THEN G(j) ELSE cursor[j]]
    BY <1>2, <1>5, <1>6, <2>1 DEF GetHit, Held
  <2>3. \A j \in Held : data'[j] = G(j)
    BY <1>1, <1>6, <2>2 DEF GetHit, Held
  <2> QED
    BY <1>1, <1>3, <2>1, <2>2, <2>3 DEF Hit, G
<1>7. CASE PutHit(k)
  <2>1. k \in Held /\ DOMAIN data' = Held /\ index' = now /\ hits' = hits + 1
    BY <1>7 DEF PutHit, Held
  <2>2. cursor' = [cursor EXCEPT ![k] = G(k)] /\ data' = [data EXCEPT ![k] = G(k)]
    BY <1>2, <1>7 DEF PutHit
  <2>3. cursor' \in [Keys -> Nat] /\ \A j \in Keys : cursor'[j] <= G(j)
    BY <1>1, <1>3, <2>2
  <2>4. \A j \in Held : data'[j] = G(j)
    BY <1>4, <2>1, <2>2 DEF Held
  <2> QED
    BY <1>1, <2>1, <2>3, <2>4 DEF Hit, G
<1>8. ASSUME Miss(k)
      PROVE  /\ k \notin Held /\ hits' = hits
             /\ cursor' \in [Keys -> Nat] /\ \A j \in Keys : cursor'[j] <= G(j)
             /\ index' \in Nat
             /\ Capacity = 0 \/ index' = now
  <2>1. k \notin Held /\ hits' = hits
    BY <1>8 DEF Miss, Held
  <2>2. CASE Capacity = 0
    BY <1>1, <1>3, <1>8, <2>1, <2>2 DEF Miss, KnowsNextUse, Typed
  <2>3. CASE Capacity # 0
    <3>1. index' = now /\ cursor' = [cursor EXCEPT ![k] = G(k)]
      BY <1>2, <1>8, <2>3 DEF Miss
    <3> QED
      BY <1>1, <1>3, <2>1, <3>1
  <2> QED
    BY <2>2, <2>3
<1>9. ASSUME Capacity = 0 PROVE Held = {}
  BY <1>9, FS_EmptySet, FS_CardinalityType DEF KnowsNextUse, Typed
<1>10. ASSUME NEW S \in SUBSET Held, k \notin Held, data' = Keep(S, k)
       PROVE  DOMAIN data' = S \cup {k} /\ \A j \in DOMAIN data' : data'[j] = G(j)
  BY <1>2, <1>4, <1>10 DEF Keep
<1>11. CASE PutUseless(k)
  <2>1. Miss(k) /\ data' = data /\ (Capacity = 0 \/ G(k) = Never)
    BY <1>2, <1>11 DEF PutUseless
  <2>2. Useless(k)
    BY <1>8, <2>1 DEF Useless, Held, G
  <2>3. \A j \in DOMAIN data' : data'[j] = G(j)
    BY <1>4, <1>8, <2>1 DEF Held
  <2>4. DOMAIN data' # {} => index' = now
    BY <1>8, <1>9, <2>1 DEF Held
  <2> QED
    BY <1>1, <1>8, <2>1, <2>2, <2>3, <2>4 DEF G
<1>12. CASE PutRoom(k)
  <2>1. Miss(k) /\ Cardinality(Held) < Capacity /\ data' = Keep(Held, k)
    BY <1>12, FS_CardinalityType, IdealAssumption DEF PutRoom, Full, Held, KnowsNextUse, Typed
  <2>2. Capacity # 0
    BY <2>1, FS_CardinalityType, IdealAssumption DEF KnowsNextUse, Typed
  <2>3. DOMAIN data' = Held \cup {k} /\ \A j \in DOMAIN data' : data'[j] = G(j)
    BY <1>8, <1>10, <2>1
  <2> QED
    BY <1>1, <1>8, <2>1, <2>2, <2>3 DEF Room, G
<1>13. CASE PutEvicting(k)
  <2>1. PICK v \in Farthest : G(k) < data[v] /\ data' = Keep(Held \ {v}, k)
    BY <1>2, <1>13 DEF PutEvicting, Held
  <2>2. Miss(k) /\ Cardinality(Held) >= Capacity /\ v \in Held
    BY <1>13, <2>1 DEF PutEvicting, Full, Farthest, Held
  <2>3. DOMAIN data' = (Held \ {v}) \cup {k} /\ \A j \in DOMAIN data' : data'[j] = G(j)
    BY <1>8, <1>10, <2>1, <2>2
  <2>4. \A j \in Held : FirstFrom(j, now) <= FirstFrom(v, now) /\ data[v] = FirstFrom(v, now)
    BY <2>1, <2>2 DEF Farthest, KnowsNextUse, Held
  <2>5. Evicting(k)
    BY <1>8, <2>1, <2>2, <2>3, <2>4 DEF Evicting, G
  <2>6. Capacity # 0
    BY <1>9, <2>2
  <2> QED
    BY <1>1, <1>8, <2>2, <2>3, <2>5, <2>6 DEF G
<1>14. CASE PutTooFar(k)
  <2>1. Miss(k) /\ Cardinality(Held) >= Capacity /\ data' = data /\ Capacity > 0
    BY <1>14 DEF PutTooFar, Full, Held
  <2>2. Held # {}
    <3>1. Cardinality({}) = 0
      BY FS_EmptySet
    <3> QED
      BY <2>1, <3>1, IdealAssumption
  <2>3. PICK v \in Farthest : G(k) >= data[v]
    BY <1>2, <1>14, <2>2, FarthestExists DEF PutTooFar
  <2>4. v \in Held /\ \A j \in Held : data[j] <= data[v]
    BY <2>3 DEF Farthest, Held
  <2>5. \A j \in Held : data[j] \in Nat /\ data[j] = FirstFrom(j, now)
    BY <1>1, <1>3, <1>4, <1>8, <2>1 DEF KnowsNextUse
  <2>6. \A j \in Held : FirstFrom(j, now) <= G(k)
    BY <1>3, <2>3, <2>4, <2>5
  <2>7. TooFar(k)
    BY <1>8, <2>1, <2>6 DEF TooFar, Held, G
  <2>8. \A j \in DOMAIN data' : data'[j] = G(j)
    BY <1>4, <1>8, <2>1 DEF Held
  <2> QED
    BY <1>1, <1>8, <2>1, <2>7, <2>8, IdealAssumption DEF G
<1> QED
  BY <1>6, <1>7, <1>11, <1>12, <1>13, <1>14 DEF IdealAccess

----------------------------------------------------------------------------
(* Those of S that are used up to d, counted from this access or the next.  *)
Due(S, d)     == { j \in S : FirstFrom(j, now) <= d }
DueNext(S, d) == { j \in S : FirstFrom(j, now + 1) <= d }

One(b) == IF b THEN 1 ELSE 0

(* Counting a set with and without one element.                             *)
LEMMA Apart ==
  ASSUME NEW S, IsFiniteSet(S), NEW x
  PROVE  /\ IsFiniteSet(S \ {x}) /\ Cardinality(S \ {x}) \in Nat
         /\ Cardinality(S) = Cardinality(S \ {x}) + One(x \in S)
<1>1. IsFiniteSet(S \ {x}) /\ Cardinality(S \ {x}) = IF x \in S THEN Cardinality(S) - 1 ELSE Cardinality(S)
  BY FS_RemoveElement
<1>2. Cardinality(S) \in Nat /\ Cardinality(S \ {x}) \in Nat
  BY <1>1, FS_CardinalityType
<1> QED
  BY <1>1, <1>2 DEF One

(* Of what is kept all but k were there before, and they are due as before. *)
LEMMA KeptAreDue ==
  ASSUME trace \in Seq(Keys), now \in 0 .. Len(trace), NEW k \in Keys, Accessed(k),
         NEW S \in SUBSET Keys, IsFiniteSet(S), NEW T, T \subseteq S \cup {k},
         NEW d \in Nat, now < d
  PROVE  /\ IsFiniteSet(T) /\ IsFiniteSet(Due(S, d)) /\ IsFiniteSet(DueNext(T, d))
         /\ DueNext(T, d) \ {k} \subseteq Due(S, d) \ {k}
         /\ k \in Due(S, d) <=> k \in S
         /\ Due(S, now) = S \cap {k}
<1>1. FirstFrom(k, now) = now /\ now \in Nat
  BY AccessMoves
<1>2. \A j \in S : j # k => FirstFrom(j, now + 1) = FirstFrom(j, now) /\ FirstFrom(j, now) > now
  BY AccessMoves
<1>3. IsFiniteSet(T) /\ IsFiniteSet(Due(S, d)) /\ IsFiniteSet(DueNext(T, d))
  <2>1. IsFiniteSet(T)
    BY FS_AddElement, FS_Subset
  <2> QED
    BY <2>1, FS_Subset DEF Due, DueNext
<1>4. DueNext(T, d) \ {k} \subseteq Due(S, d) \ {k}
  BY <1>2 DEF Due, DueNext
<1>5. k \in Due(S, d) <=> k \in S
  BY <1>1 DEF Due
<1>6. Due(S, now) = S \cap {k}
  <2>1. \A j \in S : FirstFrom(j, now) <= now <=> j = k
    <3>1. \A j \in S : FirstFrom(j, now) \in Nat
      BY <1>1, FirstFromIs DEF Never
    <3> QED
      BY <1>1, <1>2, <3>1
  <2> QED
    BY <2>1 DEF Due
<1> QED
  BY <1>3, <1>4, <1>5, <1>6

(* Up to any later position the prospects of a cache that has n hits and    *)
(* holds S improve by no more than the next use of k, and are never more    *)
(* than a full one's.                                                       *)
LEMMA AnyGains ==
  ASSUME trace \in Seq(Keys), now \in 0 .. Len(trace), NEW k \in Keys, Accessed(k),
         NEW S \in SUBSET Keys, IsFiniteSet(S), NEW n \in Nat,
         NEW T, T \subseteq S \cup {k}, Cardinality(T) <= Capacity, NEW d \in Nat, now < d
  PROVE  /\ IsFiniteSet(T)
         /\ Cardinality(DueNext(T, d)) \in Nat /\ Cardinality(Due(S, d)) \in Nat
         /\ n + One(k \in S) + Cardinality(DueNext(T, d))
              <= n + Cardinality(Due(S, d)) + One(FirstFrom(k, now + 1) <= d)
         /\ Cardinality(DueNext(T, d)) <= Capacity
         /\ Cardinality(Due(S, now)) = One(k \in S)
<1> DEFINE A == Due(S, d)
           B == DueNext(T, d)
<1>2. /\ IsFiniteSet(T) /\ IsFiniteSet(A) /\ IsFiniteSet(B)
      /\ B \ {k} \subseteq A \ {k}
      /\ k \in A <=> k \in S
      /\ Due(S, now) = S \cap {k}
  BY KeptAreDue
<1>3. Cardinality(B) \in Nat /\ Cardinality(A) \in Nat /\ Cardinality(T) \in Nat
  BY <1>2, FS_CardinalityType
<1>4. Cardinality(B) <= Cardinality(T)
  BY <1>2, FS_Subset DEF DueNext
<1>5. Cardinality(Due(S, now)) = One(k \in S)
  <2>1. CASE k \in S
    <3>1. Cardinality({k}) = 1
      BY FS_Singleton
    <3>2. Due(S, now) = S \cap {k}
      BY <1>2
    <3>3. S \cap {k} = {k}
      BY <2>1
    <3> QED
      BY <2>1, <3>1, <3>2, <3>3 DEF One
  <2>2. CASE k \notin S
    BY <1>2, <2>2, FS_EmptySet DEF One
  <2> QED
    BY <2>1, <2>2
<1>6. Cardinality(B \ {k}) <= Cardinality(A \ {k})
  BY <1>2, Apart, FS_Subset
<1>7. k \in B => FirstFrom(k, now + 1) <= d
  BY DEF DueNext
<1>8. /\ Cardinality(A) = Cardinality(A \ {k}) + One(k \in A) /\ Cardinality(A \ {k}) \in Nat
      /\ Cardinality(B) = Cardinality(B \ {k}) + One(k \in B) /\ Cardinality(B \ {k}) \in Nat
  BY <1>2, Apart
<1> HIDE DEF A, B
<1>9. n + One(k \in S) + Cardinality(B) <= n + Cardinality(A) + One(FirstFrom(k, now + 1) <= d)
  BY <1>2, <1>6, <1>7, <1>8 DEF One
<1>10. Cardinality(B) <= Capacity
  BY <1>3, <1>4, IdealAssumption
<1> QED
  BY <1>2, <1>3, <1>5, <1>9, <1>10 DEF A, B

(* The ideal cache's prospects improve by the next use of k, or all it has  *)
(* is due and it is full.                                                   *)
LEMMA IdealGains ==
  ASSUME KnowsNextUse, NEW k \in Keys, IdealAccess(k), NEW d \in Nat, now < d
  PROVE  /\ DOMAIN data' \subseteq Keys /\ IsFiniteSet(DOMAIN data') /\ Cardinality(DOMAIN data') <= Capacity
         /\ Cardinality(DueNext(DOMAIN data', d)) \in Nat /\ Cardinality(Due(Held, d)) \in Nat
         /\ d < Never =>
              \/ hits' + Cardinality(DueNext(DOMAIN data', d))
                   >= hits + Cardinality(Due(Held, d)) + One(FirstFrom(k, now + 1) <= d)
              \/ Cardinality(DueNext(DOMAIN data', d)) >= Capacity
         /\ Cardinality(Due(Held, now)) = One(k \in Held)
<1> DEFINE New == DOMAIN data'
           A == Due(Held, d)
           B == DueNext(New, d)
<1>1. /\ trace \in Seq(Keys) /\ now \in 0 .. Len(trace) /\ Accessed(k)
      /\ Held \in SUBSET Keys /\ IsFiniteSet(Held) /\ hits \in Nat /\ Cardinality(Held) <= Capacity
  BY DEF KnowsNextUse, Typed, IdealAccess
<1>2. /\ Hit(k) \/ Useless(k) \/ Room(k) \/ Evicting(k) \/ TooFar(k)
      /\ hits' = hits + One(k \in Held)
  BY AccessEffect DEF One
<1>3. New \subseteq Held \cup {k}
  BY <1>2 DEF Hit, Useless, Room, Evicting, TooFar
<1>4. /\ IsFiniteSet(New) /\ IsFiniteSet(A) /\ IsFiniteSet(B)
      /\ B \ {k} \subseteq A \ {k}
      /\ k \in A <=> k \in Held
      /\ Due(Held, now) = Held \cap {k}
  <2> HIDE DEF New
  <2> QED
    BY <1>1, <1>3, KeptAreDue
<1>5. /\ Cardinality(A) \in Nat /\ Cardinality(B) \in Nat /\ Cardinality(New) \in Nat /\ Cardinality(Held) \in Nat
      /\ Cardinality(A) = Cardinality(A \ {k}) + One(k \in A) /\ Cardinality(A \ {k}) \in Nat
      /\ Cardinality(B) = Cardinality(B \ {k}) + One(k \in B) /\ Cardinality(B \ {k}) \in Nat
  BY <1>1, <1>4, Apart, FS_CardinalityType
<1>6. Cardinality(Due(Held, now)) = One(k \in Held)
  <2>1. CASE k \in Held
    BY <1>4, <2>1, FS_Singleton DEF One
  <2>2. CASE k \notin Held
    BY <1>4, <2>2, FS_EmptySet DEF One
  <2> QED
    BY <2>1, <2>2
<1>7. /\ \A j \in Held : j # k => FirstFrom(j, now + 1) = FirstFrom(j, now)
      /\ \A j \in Keys : FirstFrom(j, now) \in Nat
      /\ FirstFrom(k, now + 1) \in Nat /\ Never \in Nat
  <2> DEFINE q == now + 1
  <2>1. q \in Nat /\ now \in Nat /\ Never \in Nat
    BY <1>1 DEF Never
  <2>2. \A j \in Held : j # k => FirstFrom(j, q) = FirstFrom(j, now)
    BY <1>1, AccessMoves
  <2> HIDE DEF q
  <2>3. ASSUME NEW j \in Keys, NEW p \in Nat PROVE FirstFrom(j, p) \in Nat
    <3>1. FirstFrom(j, p) \in 0 .. Never
      BY <1>1, FirstFromIs
    <3> QED
      BY <2>1, <3>1
  <2>4. k \in Keys
    BY <1>1 DEF Accessed
  <2> QED
    BY <2>1, <2>2, <2>3, <2>4 DEF q
<1> DEFINE Grows == hits' + Cardinality(B) >= hits + Cardinality(A) + One(FirstFrom(k, now + 1) <= d)
(* When the others that were due are all still there.                       *)
<1>8. ASSUME A \ {k} \subseteq New, k \in New \/ ~ (FirstFrom(k, now + 1) <= d) PROVE Grows
  <2>1. A \ {k} = B \ {k}
    BY <1>4, <1>7, <1>8 DEF Due, DueNext
  <2>2. FirstFrom(k, now + 1) <= d <=> k \in B
    BY <1>3, <1>8 DEF DueNext
  <2>3. One(FirstFrom(k, now + 1) <= d) = One(k \in B)
    BY <2>2 DEF One
  <2>4. One(k \in A) = One(k \in Held) /\ One(k \in B) \in Nat /\ One(k \in Held) \in Nat
    BY <1>4 DEF One
  <2> DEFINE rest == Cardinality(B \ {k})
             had  == One(k \in Held)
             has  == One(k \in B)
  <2>5. /\ hits' = hits + had /\ rest \in Nat /\ had \in Nat /\ has \in Nat
        /\ Cardinality(A) = rest + had /\ Cardinality(B) = rest + has
    BY <1>2, <1>5, <2>1, <2>4
  <2>6. hits + (rest + had) + has <= (hits + had) + (rest + has)
    <3> HIDE DEF rest, had, has
    <3> QED
      BY <1>1, <2>5
  <2> QED
    BY <1>1, <1>5, <2>3, <2>5, <2>6
<1>9. CASE Hit(k)
  <2>1. Grows
    BY <1>8, <1>9 DEF Hit, Due
  <2> QED
    BY <1>1, <1>4, <1>5, <1>6, <1>9, <2>1 DEF Hit
<1>10. CASE Useless(k)
  <2>1. Cardinality(New) <= Capacity
    BY <1>1, <1>10 DEF Useless
  <2>2. CASE Capacity = 0
    BY <1>1, <1>4, <1>5, <1>6, <2>1, <2>2, <1>10 DEF Useless
  <2>3. CASE FirstFrom(k, now + 1) = Never
    <3>1. d < Never => Grows
      BY <1>7, <1>8, <1>10, <2>3 DEF Useless, Due
    <3> QED
      BY <1>1, <1>4, <1>5, <1>6, <2>1, <3>1, <1>10 DEF Useless
  <2> QED
    BY <1>10, <2>2, <2>3 DEF Useless
<1>11. CASE Room(k)
  <2>1. Grows
    BY <1>8, <1>11 DEF Room, Due
  <2>2. Cardinality(New) = Cardinality(Held) + 1
    BY <1>1, <1>11, FS_AddElement DEF Room
  <2>3. Cardinality(New) <= Capacity
    BY <1>5, <1>11, <2>2, IdealAssumption DEF Room
  <2> QED
    BY <1>1, <1>3, <1>4, <1>5, <1>6, <2>1, <2>3
<1>12. CASE Evicting(k)
  <2>1. PICK v \in Held :
          /\ k \notin Held /\ New = (Held \ {v}) \cup {k} /\ Cardinality(Held) >= Capacity
          /\ FirstFrom(k, now + 1) < FirstFrom(v, now)
          /\ \A j \in Held : FirstFrom(j, now) <= FirstFrom(v, now)
    BY <1>12 DEF Evicting
  <2>2. Cardinality(New) = Cardinality(Held)
    <3>1. IsFiniteSet(Held \ {v}) /\ Cardinality(Held) = Cardinality(Held \ {v}) + 1 /\ Cardinality(Held \ {v}) \in Nat
      BY <1>1, Apart DEF One
    <3>2. Cardinality((Held \ {v}) \cup {k}) = Cardinality(Held \ {v}) + 1
      BY <2>1, <3>1, FS_AddElement
    <3> QED
      BY <2>1, <3>1, <3>2
  <2>3. CASE d < FirstFrom(v, now)
    <3>1. v \notin A
      BY <1>7, <1>1, <2>3 DEF Due
    <3>2. Grows
      BY <1>8, <2>1, <3>1 DEF Due
    <3> QED
      BY <1>1, <1>3, <1>4, <1>5, <1>6, <2>2, <3>2
  <2>4. CASE ~ (d < FirstFrom(v, now))
    <3>1. \A j \in New : FirstFrom(j, now + 1) <= d
      BY <1>1, <1>7, <2>1, <2>4
    <3>2. B = New
      BY <3>1 DEF DueNext
    <3> QED
      BY <1>1, <1>3, <1>4, <1>5, <1>6, <2>1, <2>2, <3>2
  <2> QED
    BY <2>3, <2>4
<1>13. CASE TooFar(k)
  <2>1. k \notin Held /\ New = Held /\ Cardinality(Held) >= Capacity
    BY <1>13 DEF TooFar
  <2>2. CASE d < FirstFrom(k, now + 1)
    <3>1. Grows
      BY <1>7, <1>8, <2>1, <2>2 DEF Due
    <3> QED
      BY <1>1, <1>4, <1>5, <1>6, <2>1, <3>1
  <2>3. CASE ~ (d < FirstFrom(k, now + 1))
    <3>1. \A j \in New : FirstFrom(j, now + 1) <= d
      BY <1>1, <1>7, <1>13, <2>1, <2>3 DEF TooFar
    <3>2. B = New
      BY <3>1 DEF DueNext
    <3> QED
      BY <1>1, <1>4, <1>5, <1>6, <2>1, <3>2
  <2> QED
    BY <2>2, <2>3
<1> QED
  BY <1>2, <1>9, <1>10, <1>11, <1>12, <1>13

(* A cache with n hits that holds S is not ahead, now or up to a later      *)
(* position: NobodyBeatsIdeal says it of the rival.                         *)
NotAhead(n, S) ==
  /\ n <= hits
  /\ \A d \in now .. Len(trace) - 1 : Prospect(n, S, d) <= Prospect(hits, DOMAIN data, d)

LEMMA InitHolds == IdealInit => IInv
<1> SUFFICES ASSUME IdealInit PROVE IInv
  OBVIOUS
<1>1. trace \in Seq(Keys) /\ now = 0 /\ Len(trace) \in Nat
  BY IdealAssumption DEF IdealInit
<1>2. Held = {} /\ rival = {} /\ hits = 0 /\ rivalHits = 0 /\ index = 0
  BY DEF IdealInit, Held
<1>3. \A k \in Keys : FirstFrom(k, 0) \in Nat
  BY <1>1, FirstFromIs DEF Never
<1>4. IsFiniteSet({}) /\ Cardinality({}) = 0
  BY FS_EmptySet
<1>5. Typed
  BY <1>1, <1>2, <1>3, <1>4, IdealAssumption DEF Typed, IdealInit
<1>6. CursorsBehind
  BY <1>1, <1>2, <1>3 DEF CursorsBehind, IdealInit
<1>7. NobodyBeatsIdeal
  BY <1>1, <1>2, <1>4 DEF NobodyBeatsIdeal, Prospect, Held
<1> QED
  BY <1>2, <1>5, <1>6, <1>7 DEF IInv, KnowsNextUse

(* Every access keeps the cache's knowledge true.                           *)
LEMMA AccessKeepsKnowledge ==
  ASSUME KnowsNextUse, NEW k \in Keys, IdealAccess(k)
  PROVE  KnowsNextUse' /\ \A j \in Keys : FirstFrom(j, now)' = FirstFrom(j, now + 1)
<1>1. /\ trace' = trace /\ now' = now + 1 /\ now < Len(trace) /\ now \in Nat
      /\ trace \in Seq(Keys) /\ Typed
  BY DEF KnowsNextUse, Typed, IdealAccess, Accessed
<1>2. \A j \in Keys : FirstFrom(j, now)' = FirstFrom(j, now + 1)
  BY <1>1 DEF FirstFrom, Positions, Never
<1>3. /\ hits' = hits + One(k \in Held)
      /\ cursor' \in [Keys -> Nat] /\ \A j \in Keys : cursor'[j] <= FirstFrom(j, now + 1)
      /\ index' \in Nat /\ (DOMAIN data' # {} => index' = now)
      /\ \A j \in DOMAIN data' : data'[j] = FirstFrom(j, now + 1)
  BY AccessEffect DEF One
<1>4. now + 1 \in Nat /\ now < now + 1
  BY <1>1
<1>5. /\ rival' \subseteq Keys /\ IsFiniteSet(rival') /\ Cardinality(rival') <= Capacity
      /\ rivalHits' = rivalHits + One(k \in rival)
  <2>1. /\ rival' \subseteq rival \cup {k} /\ Cardinality(rival') <= Capacity
        /\ rivalHits' = rivalHits + One(k \in rival)
    BY DEF IdealAccess, RivalAccess, One
  <2>2. rival' \subseteq Keys /\ IsFiniteSet(rival')
    BY <1>1, <2>1, FS_AddElement, FS_Subset DEF Typed
  <2> QED
    BY <2>1, <2>2
<1>6. DOMAIN data' \subseteq Keys /\ IsFiniteSet(DOMAIN data') /\ Cardinality(DOMAIN data') <= Capacity
  BY <1>4, IdealGains
<1>7. hits' \in Nat /\ rivalHits' \in Nat
  BY <1>1, <1>3, <1>5 DEF Typed, One
<1>8. Typed'
  <2>1. trace' \in Seq(Keys) /\ now' \in 0 .. Len(trace')
    BY <1>1 DEF Typed
  <2>2. rival' \subseteq Keys /\ IsFiniteSet(rival') /\ Cardinality(rival') <= Capacity
    BY <1>5
  <2> QED
    BY <1>3, <1>6, <1>7, <2>1, <2>2 DEF Typed, Held
<1>9. CursorsBehind'
  BY <1>1, <1>2, <1>3 DEF CursorsBehind, Held
<1>10. \A j \in Held' : data'[j] = FirstFrom(j, now)'
  BY <1>2, <1>3, <1>6 DEF Held
<1> QED
  BY <1>2, <1>8, <1>9, <1>10 DEF KnowsNextUse

(* The exchange argument: a cache gains no more than the ideal one, or the  *)
(* ideal one already has all a full one can have.                           *)
LEMMA AccessKeepsAhead ==
  ASSUME KnowsNextUse, NEW k \in Keys, IdealAccess(k),
         NEW n \in Nat, NEW S \in SUBSET Keys, IsFiniteSet(S), NotAhead(n, S),
         NEW T, T \subseteq S \cup {k}, Cardinality(T) <= Capacity
  PROVE  /\ n + One(k \in S) <= hits'
         /\ \A d \in now' .. Len(trace') - 1 :
              n + One(k \in S) + Cardinality({ j \in T : FirstFrom(j, now)' <= d })
                <= hits' + Cardinality({ j \in DOMAIN data' : FirstFrom(j, now)' <= d })
<1> DEFINE m == n + One(k \in S)
<1>1. /\ trace' = trace /\ now' = now + 1 /\ now < Len(trace) /\ now \in Nat /\ Len(trace) \in Nat
      /\ trace \in Seq(Keys) /\ Accessed(k) /\ hits \in Nat
  BY DEF KnowsNextUse, Typed, IdealAccess, Accessed
<1>2. \A d \in now .. Len(trace) - 1 :
        n + Cardinality(Due(S, d)) <= hits + Cardinality(Due(Held, d))
  BY DEF NotAhead, Prospect, Due, Held
<1>3. m \in Nat /\ One(k \in S) \in Nat
  BY DEF One
<1>4. /\ Cardinality(Due(S, now)) = One(k \in S)
      /\ hits' = hits + One(k \in Held) /\ Cardinality(Due(Held, now)) = One(k \in Held)
  <2>1. now + 1 \in Nat /\ now < now + 1
    BY <1>1
  <2>2. Cardinality(Due(S, now)) = One(k \in S)
    BY <1>1, <2>1, AnyGains
  <2>3. hits' = hits + One(k \in Held)
    BY AccessEffect DEF One
  <2>4. Cardinality(Due(Held, now)) = One(k \in Held)
    BY <1>1, <2>1, IdealGains
  <2> QED
    BY <2>2, <2>3, <2>4
<1>5. m <= hits' /\ hits' \in Nat
  <2>1. n + Cardinality(Due(S, now)) <= hits + Cardinality(Due(Held, now))
    BY <1>1, <1>2
  <2> QED
    BY <1>1, <1>4, <2>1 DEF One
<1> HIDE DEF m
<1>6. ASSUME NEW d \in now + 1 .. Len(trace) - 1
      PROVE  m + Cardinality(DueNext(T, d)) <= hits' + Cardinality(DueNext(DOMAIN data', d))
  <2>1. d \in Nat /\ now < d /\ d < Never /\ d \in now .. Len(trace) - 1
    BY <1>1, <1>6 DEF Never
  <2> DEFINE r  == Cardinality(Due(S, d))
             h  == Cardinality(Due(Held, d))
             r1 == Cardinality(DueNext(T, d))
             h1 == Cardinality(DueNext(DOMAIN data', d))
             g  == One(FirstFrom(k, now + 1) <= d)
             H  == hits'
  <2>2. r \in Nat /\ r1 \in Nat /\ r1 <= Capacity /\ m + r1 <= n + r + g
    BY <1>1, <2>1, AnyGains DEF m
  <2>3. h \in Nat /\ h1 \in Nat /\ (hits' + h1 >= hits + h + g \/ h1 >= Capacity)
    BY <1>1, <2>1, IdealGains
  <2>4. n + r <= hits + h
    BY <1>2, <2>1
  <2>5. g \in Nat
    BY DEF One
  <2>6. H \in Nat /\ m <= H
    BY <1>5
  <2>7. H + h1 >= hits + h + g \/ h1 >= Capacity
    BY <2>3
  <2>8. Capacity \in Nat /\ hits \in Nat /\ r \in Nat /\ r1 \in Nat /\ h \in Nat /\ h1 \in Nat
          /\ r1 <= Capacity /\ m + r1 <= n + r + g
    BY <1>1, <2>2, <2>3, IdealAssumption
  <2> HIDE DEF r, h, r1, h1, g, H
  <2>9. m + r1 <= H + h1
    BY <1>3, <2>4, <2>5, <2>6, <2>7, <2>8
  <2> QED
    BY <2>9 DEF r1, h1, H
<1>7. \A j \in Keys : FirstFrom(j, now)' = FirstFrom(j, now + 1)
  BY <1>1, AccessKeepsKnowledge
<1>8. T \subseteq Keys /\ DOMAIN data' \subseteq Keys
  BY <1>1, AccessKeepsKnowledge DEF KnowsNextUse, Typed, Held
<1>9. ASSUME NEW d
      PROVE  /\ DueNext(T, d) = { j \in T : FirstFrom(j, now)' <= d }
             /\ DueNext(DOMAIN data', d) = { j \in DOMAIN data' : FirstFrom(j, now)' <= d }
  BY <1>7, <1>8 DEF DueNext
<1> QED
  BY <1>1, <1>5, <1>6, <1>9 DEF m

LEMMA Inductive == IInv /\ [IdealNext]_idealVars => IInv'
<1> SUFFICES ASSUME IInv, [IdealNext]_idealVars PROVE IInv'
  OBVIOUS
<1>1. CASE IdealNext
  <2>1. PICK k \in Keys : IdealAccess(k)
    BY <1>1 DEF IdealNext
  <2>2. /\ rival' \subseteq rival \cup {k} /\ Cardinality(rival') <= Capacity
        /\ rivalHits' = rivalHits + One(k \in rival)
    BY <2>1 DEF IdealAccess, RivalAccess, One
  <2>3. /\ KnowsNextUse /\ NotAhead(rivalHits, rival)
        /\ rivalHits \in Nat /\ rival \in SUBSET Keys /\ IsFiniteSet(rival)
    BY DEF IInv, KnowsNextUse, Typed, NobodyBeatsIdeal, NotAhead
  <2>4. NobodyBeatsIdeal'
    BY <2>1, <2>2, <2>3, AccessKeepsAhead DEF NobodyBeatsIdeal, Prospect
  <2> QED
    BY <2>1, <2>3, <2>4, AccessKeepsKnowledge DEF IInv
<1>2. CASE UNCHANGED idealVars
  <2>1. /\ trace' = trace /\ now' = now /\ cursor' = cursor /\ index' = index /\ data' = data
        /\ hits' = hits /\ rival' = rival /\ rivalHits' = rivalHits
    BY <1>2 DEF idealVars, cacheVars
  <2>2. \A j : FirstFrom(j, now)' = FirstFrom(j, now)
    BY <2>1 DEF FirstFrom, Positions, Never
  <2>3. KnowsNextUse'
    BY <2>1, <2>2 DEF IInv, KnowsNextUse, Typed, CursorsBehind, Held
  <2>4. NobodyBeatsIdeal'
    BY <2>1, <2>2 DEF IInv, NobodyBeatsIdeal, Prospect
  <2> QED
    BY <2>3, <2>4 DEF IInv
<1> QED
  BY <1>1, <1>2

LEMMA Invariant == IdealSpec => []IInv
<1> QED
  BY InitHolds, Inductive, PTL DEF IdealSpec

(* RunIdeal beside RunLfu is RunIdeal (ideal_cache.cpp): what holds of      *)
(* IdealSpec holds of the composed specification that the runs check.       *)
THEOREM TracesRunsIdeal == Spec => IdealSpec
<1>1. Init => IdealInit
  BY DEF Init
<1>2. [Next]_vars => [IdealNext]_idealVars
  BY DEF Next, Access, Use, IdealNext, vars
<1> QED
  BY <1>1, <1>2, PTL DEF Spec, IdealSpec

(* The next use kept with a cached key is its next access in the trace      *)
(* (ideal_cache.hpp, Get and Put).                                          *)
THEOREM NextUseTrue == IdealSpec => []NextUseIsTrue
<1>1. IInv => NextUseIsTrue
  BY DEF IInv, KnowsNextUse, Typed, Held, NextUseIsTrue
<1> QED
  BY <1>1, Invariant, PTL

(* Belady's theorem for ideal_cache.hpp: on no trace, with no capacity and  *)
(* at no moment is another cache ahead in hits.                             *)
THEOREM Belady == IdealSpec => []NobodyBeatsIdeal
<1>1. IInv => NobodyBeatsIdeal
  BY DEF IInv
<1> QED
  BY <1>1, Invariant, PTL

----------------------------------------------------------------------------
(***************************************************************************)
(* LfuCache.  Lists of keys, each key at most once: their elements, and     *)
(* which come before which.                                                 *)
(***************************************************************************)
Elements(s) == { s[n] : n \in 1 .. Len(s) }

Once(s) == \A m, n \in 1 .. Len(s) : s[m] = s[n] => m = n

Before(s, i, j) == \E m, n \in 1 .. Len(s) : m < n /\ s[m] = i /\ s[n] = j

PushedOn(k, s) == <<k>> \o s

(* list.erase.                                                              *)
LEMMA EraseDrops ==
  ASSUME NEW S, NEW s \in Seq(S), NEW k \in Elements(s), Once(s)
  PROVE  /\ Lfu!Erase(s, k) \in Seq(S)
         /\ Elements(Lfu!Erase(s, k)) = Elements(s) \ {k}
         /\ Once(Lfu!Erase(s, k))
         /\ \A i, j : Before(Lfu!Erase(s, k), i, j) <=> Before(s, i, j) /\ i # k /\ j # k
<1> DEFINE p == CHOOSE n \in DOMAIN s : s[n] = k
           t == [n \in 1 .. Len(s) - 1 |-> IF n < p THEN s[n] ELSE s[n + 1]]
           From(n) == IF n < p THEN n ELSE n + 1
           To(m) == IF m < p THEN m ELSE m - 1
<1>1. Len(s) \in Nat /\ DOMAIN s = 1 .. Len(s) /\ \A n \in 1 .. Len(s) : s[n] \in S
  BY LenProperties
<1>2. p \in 1 .. Len(s) /\ s[p] = k
  BY <1>1 DEF Elements
<1>3. Lfu!Erase(s, k) = t
  BY DEF Lfu!Erase
<1> HIDE DEF p
<1>4. /\ \A n \in 1 .. Len(s) - 1 : From(n) \in 1 .. Len(s) /\ From(n) # p /\ t[n] = s[From(n)]
      /\ \A m, n \in 1 .. Len(s) - 1 : m < n <=> From(m) < From(n)
      /\ \A m \in 1 .. Len(s) : m # p => To(m) \in 1 .. Len(s) - 1 /\ From(To(m)) = m
  BY <1>1, <1>2
<1>5. t \in [1 .. Len(s) - 1 -> S] /\ Len(s) - 1 \in Nat
  BY <1>1, <1>2
<1> HIDE DEF From, To, t
<1>6. t \in Seq(S) /\ Len(t) = Len(s) - 1
  <2>1. t \in Seq(S)
    BY <1>5
  <2> QED
    BY <1>5, <2>1, LenProperties
<1>7. \A n \in 1 .. Len(s) : s[n] = k <=> n = p
  BY <1>2 DEF Once
<1>8. Elements(t) = Elements(s) \ {k}
  <2>1. ASSUME NEW n \in 1 .. Len(s) - 1 PROVE t[n] \in Elements(s) \ {k}
    BY <1>4, <1>7 DEF Elements
  <2>2. ASSUME NEW m \in 1 .. Len(s), s[m] # k PROVE s[m] \in Elements(t)
    <3>1. To(m) \in 1 .. Len(s) - 1 /\ t[To(m)] = s[m]
      BY <1>4, <1>7, <2>2
    <3> QED
      BY <1>6, <3>1 DEF Elements
  <2> QED
    BY <1>6, <2>1, <2>2 DEF Elements
<1>9. Once(t)
  <2> SUFFICES ASSUME NEW m \in 1 .. Len(s) - 1, NEW n \in 1 .. Len(s) - 1, t[m] = t[n] PROVE m = n
    BY <1>6 DEF Once
  <2>1. From(m) = From(n)
    BY <1>4 DEF Once
  <2> QED
    BY <1>1, <2>1, <1>4 DEF From
<1>10. ASSUME NEW i, NEW j
       PROVE  Before(t, i, j) <=> Before(s, i, j) /\ i # k /\ j # k
  <2>1. ASSUME Before(t, i, j) PROVE Before(s, i, j) /\ i # k /\ j # k
    <3>1. PICK m, n \in 1 .. Len(s) - 1 : m < n /\ t[m] = i /\ t[n] = j
      BY <2>1, <1>6 DEF Before
    <3>2. /\ From(m) \in 1 .. Len(s) /\ From(n) \in 1 .. Len(s) /\ From(m) < From(n)
          /\ s[From(m)] = i /\ s[From(n)] = j /\ From(m) # p /\ From(n) # p
      BY <3>1, <1>4
    <3> QED
      BY <3>2, <1>7 DEF Before
  <2>2. ASSUME Before(s, i, j), i # k, j # k PROVE Before(t, i, j)
    <3>1. PICK m, n \in 1 .. Len(s) : m < n /\ s[m] = i /\ s[n] = j
      BY <2>2 DEF Before
    <3>2. m # p /\ n # p
      BY <3>1, <2>2, <1>2
    <3>3. /\ To(m) \in 1 .. Len(s) - 1 /\ To(n) \in 1 .. Len(s) - 1
          /\ From(To(m)) = m /\ From(To(n)) = n
      BY <3>2, <1>4
    <3>4. To(m) < To(n) /\ t[To(m)] = i /\ t[To(n)] = j
      BY <3>1, <3>3, <1>4
    <3> QED
      BY <1>6, <3>3, <3>4 DEF Before
  <2> QED
    BY <2>1, <2>2
<1> QED
  BY <1>3, <1>6, <1>8, <1>9, <1>10

(* list.pop_back erases the last.                                           *)
LEMMA FrontErases ==
  ASSUME NEW S, NEW s \in Seq(S), s # <<>>, Once(s)
  PROVE  /\ Lfu!Last(s) \in Elements(s) /\ Lfu!Front(s) = Lfu!Erase(s, Lfu!Last(s))
         /\ \A i \in Elements(s) : i # Lfu!Last(s) => Before(s, i, Lfu!Last(s))
<1>1. Len(s) \in Nat \ {0} /\ DOMAIN s = 1 .. Len(s) /\ \A n \in 1 .. Len(s) : s[n] \in S
  BY LenProperties, EmptySeq
<1> DEFINE p == CHOOSE n \in DOMAIN s : s[n] = Lfu!Last(s)
           e == Len(s) - 1
<1>2. Lfu!Last(s) = s[Len(s)] /\ Len(s) \in 1 .. Len(s)
  BY <1>1 DEF Lfu!Last
<1>3. p = Len(s)
  BY <1>1, <1>2 DEF Once
<1>4. Lfu!Erase(s, Lfu!Last(s)) = [n \in 1 .. Len(s) - 1 |-> IF n < p THEN s[n] ELSE s[n + 1]]
  BY DEF Lfu!Erase
<1> HIDE DEF p
<1>5. Lfu!Erase(s, Lfu!Last(s)) = [n \in 1 .. e |-> s[n]]
  BY <1>1, <1>3, <1>4
<1>6. Lfu!Front(s) = [n \in 1 .. e |-> s[n]]
  <2>1. Lfu!Front(s) = SubSeq(s, 1, e)
    BY DEF Lfu!Front
  <2>2. e \in Nat
    BY <1>1
  <2> HIDE DEF e
  <2>3. SubSeq(s, 1, e) = [n \in 1 .. (1 + e) - 1 |-> s[(1 + n) - 1]]
    BY <2>2
  <2> QED
    BY <2>1, <2>2, <2>3
<1>7. ASSUME NEW i \in Elements(s), i # s[Len(s)] PROVE Before(s, i, s[Len(s)])
  <2>1. PICK m \in 1 .. Len(s) : s[m] = i
    BY DEF Elements
  <2>2. m < Len(s)
    BY <1>1, <1>7, <2>1
  <2> QED
    BY <1>2, <2>1, <2>2 DEF Before
<1> QED
  BY <1>2, <1>5, <1>6, <1>7 DEF Elements

(* list.push_front.                                                         *)
LEMMA PushAdds ==
  ASSUME NEW S, NEW s \in Seq(S), NEW k \in S, k \notin Elements(s), Once(s)
  PROVE  /\ PushedOn(k, s) \in Seq(S)
         /\ Elements(PushedOn(k, s)) = {k} \cup Elements(s)
         /\ Once(PushedOn(k, s))
         /\ \A i, j : Before(PushedOn(k, s), i, j) <=>
                        Before(s, i, j) \/ (i = k /\ j \in Elements(s))
<1> DEFINE t == PushedOn(k, s)
<1>1. /\ Len(s) \in Nat
      /\ t \in Seq(S) /\ Len(t) = Len(s) + 1
      /\ \A n \in 1 .. Len(s) + 1 : t[n] = IF n <= 1 THEN k ELSE s[n - 1]
  <2>1. <<k>> \in Seq(S) /\ Len(<<k>>) = 1 /\ <<k>>[1] = k
    OBVIOUS
  <2> QED
    BY <2>1, ConcatProperties, LenProperties DEF PushedOn
<1> HIDE DEF t
<1>2. t[1] = k /\ \A n \in 1 .. Len(s) : n + 1 \in 1 .. Len(s) + 1 /\ t[n + 1] = s[n]
  BY <1>1
<1>3. \A n \in 1 .. Len(s) + 1 : n = 1 \/ (n - 1 \in 1 .. Len(s) /\ t[n] = s[n - 1])
  BY <1>1
<1>4. Elements(t) = {k} \cup Elements(s)
  <2>1. ASSUME NEW n \in 1 .. Len(s) + 1 PROVE t[n] \in {k} \cup Elements(s)
    BY <1>2, <1>3 DEF Elements
  <2>2. k \in Elements(t)
    <3>1. 1 \in 1 .. Len(t)
      BY <1>1
    <3> QED
      BY <1>2, <3>1 DEF Elements
  <2>3. ASSUME NEW n \in 1 .. Len(s) PROVE s[n] \in Elements(t)
    <3>1. n + 1 \in 1 .. Len(t) /\ t[n + 1] = s[n]
      BY <1>1, <1>2
    <3> QED
      BY <3>1 DEF Elements
  <2> QED
    BY <1>1, <2>1, <2>2, <2>3 DEF Elements
<1>5. ASSUME NEW m \in 1 .. Len(s) + 1, NEW n \in 1 .. Len(s) + 1, m < n
      PROVE  t[m] # t[n]
  <2>1. n - 1 \in 1 .. Len(s) /\ t[n] = s[n - 1]
    BY <1>1, <1>3, <1>5
  <2>2. CASE m = 1
    BY <1>2, <2>1, <2>2 DEF Elements
  <2>3. CASE m # 1
    <3>1. m - 1 \in 1 .. Len(s) /\ t[m] = s[m - 1] /\ m - 1 # n - 1
      BY <1>1, <1>3, <1>5, <2>3
    <3> QED
      BY <2>1, <3>1 DEF Once
  <2> QED
    BY <2>2, <2>3
<1>6. Once(t)
  <2>1. \A m, n \in 1 .. Len(s) + 1 : m < n \/ n < m \/ m = n
    BY <1>1
  <2>2. \A m, n \in 1 .. Len(s) + 1 : t[m] = t[n] => m = n
    BY <1>5, <2>1
  <2> QED
    BY <1>1, <2>2 DEF Once
<1>7. ASSUME NEW i, NEW j
      PROVE  Before(t, i, j) <=> Before(s, i, j) \/ (i = k /\ j \in Elements(s))
  <2>1. ASSUME Before(t, i, j) PROVE Before(s, i, j) \/ (i = k /\ j \in Elements(s))
    <3>1. PICK m, n \in 1 .. Len(s) + 1 : m < n /\ t[m] = i /\ t[n] = j
      BY <1>1, <2>1 DEF Before
    <3>2. n - 1 \in 1 .. Len(s) /\ j = s[n - 1]
      BY <1>1, <1>3, <3>1
    <3>3. CASE m = 1
      BY <1>2, <3>1, <3>2, <3>3 DEF Elements
    <3>4. CASE m # 1
      <4>1. m - 1 \in 1 .. Len(s) /\ i = s[m - 1] /\ m - 1 < n - 1
        BY <1>1, <1>3, <3>1, <3>4
      <4> QED
        BY <3>2, <4>1 DEF Before
    <3> QED
      BY <3>3, <3>4
  <2>2. ASSUME Before(s, i, j) PROVE Before(t, i, j)
    <3>1. PICK m, n \in 1 .. Len(s) : m < n /\ s[m] = i /\ s[n] = j
      BY <2>2 DEF Before
    <3>2. m + 1 \in 1 .. Len(t) /\ n + 1 \in 1 .. Len(t) /\ m + 1 < n + 1
      BY <1>1, <3>1
    <3>3. t[m + 1] = i /\ t[n + 1] = j
      BY <1>2, <3>1
    <3> QED
      BY <3>2, <3>3 DEF Before
  <2>3. ASSUME i = k, j \in Elements(s) PROVE Before(t, i, j)
    <3>1. PICK n \in 1 .. Len(s) : s[n] = j
      BY <2>3 DEF Elements
    <3>2. 1 \in 1 .. Len(t) /\ n + 1 \in 1 .. Len(t) /\ 1 < n + 1
      BY <1>1, <3>1
    <3>3. t[1] = i /\ t[n + 1] = j
      BY <1>2, <2>3, <3>1
    <3> QED
      BY <3>2, <3>3 DEF Before
  <2> QED
    BY <2>1, <2>2, <2>3
<1> QED
  BY <1>1, <1>4, <1>6, <1>7 DEF t

----------------------------------------------------------------------------
(* The containers fr, b, n and t of LfuCache agree, and every bucket lists  *)
(* its keys in the order of their latest use.                               *)
In(fr) == { j \in Keys : fr[j] > 0 }

LfuOf(fr, b, n, t) ==
  /\ fr \in [Keys -> 0 .. MaxFreq]
  /\ b \in [Lfu!Freqs -> Seq(Keys)]
  /\ \A f \in Lfu!Freqs : Elements(b[f]) = { j \in Keys : fr[j] = f } /\ Once(b[f])
  /\ t \in Seq(Keys) /\ Elements(t) = In(fr) /\ Once(t)
  /\ \A f \in Lfu!Freqs : \A i, j : Before(b[f], i, j) => Before(t, i, j)
  /\ IsFiniteSet(In(fr)) /\ n = Cardinality(In(fr)) /\ n <= Capacity

LfuInv == LfuOf(freq, bucket, size, touched)

LEMMA LfuInit == Lfu!Init => LfuInv
<1> SUFFICES ASSUME Lfu!Init PROVE LfuInv
  OBVIOUS
<1>1. PICK e \in Seq(Keys) : e = <<>>
  <2>1. <<>> \in Seq(Keys)
    OBVIOUS
  <2> QED
    BY <2>1
<1>2. Len(e) = 0 /\ Elements(e) = {} /\ Once(e) /\ \A i, j : ~ Before(e, i, j)
  BY <1>1 DEF Elements, Once, Before
<1>3. In(freq) = {} /\ freq \in [Keys -> 0 .. MaxFreq] /\ \A j \in Keys : freq[j] = 0
  BY TracesAssumption DEF Lfu!Init, In
<1>4. bucket = [f \in Lfu!Freqs |-> e] /\ touched = e /\ size = 0
  BY <1>1 DEF Lfu!Init
<1>5. IsFiniteSet({}) /\ Cardinality({}) = 0
  BY FS_EmptySet
<1>6. \A f \in Lfu!Freqs : { j \in Keys : freq[j] = f } = {}
  BY <1>3 DEF Lfu!Freqs
<1> QED
  BY <1>2, <1>3, <1>4, <1>5, <1>6, IdealAssumption DEF LfuInv, LfuOf

(* A cached key leaves its bucket.                                          *)
LEMMA DropKeeps ==
  ASSUME NEW fr, NEW b, NEW n, NEW t, LfuOf(fr, b, n, t), NEW k \in Keys, fr[k] > 0
  PROVE  /\ LfuOf([fr EXCEPT ![k] = 0], [b EXCEPT ![fr[k]] = Lfu!Erase(@, k)], n - 1, Lfu!Erase(t, k))
         /\ n - 1 \in Nat /\ n \in Nat /\ fr[k] \in Lfu!Freqs
<1> DEFINE g == fr[k]
           fr1 == [fr EXCEPT ![k] = 0]
           b1 == [b EXCEPT ![g] = Lfu!Erase(@, k)]
           t1 == Lfu!Erase(t, k)
<1>1. /\ fr \in [Keys -> 0 .. MaxFreq] /\ b \in [Lfu!Freqs -> Seq(Keys)] /\ t \in Seq(Keys)
      /\ g \in Lfu!Freqs /\ k \in In(fr)
  BY TracesAssumption DEF LfuOf, Lfu!Freqs, In
<1>2. b[g] \in Seq(Keys) /\ k \in Elements(b[g]) /\ Once(b[g])
  BY <1>1 DEF LfuOf
<1>3. /\ Lfu!Erase(b[g], k) \in Seq(Keys)
      /\ Elements(Lfu!Erase(b[g], k)) = Elements(b[g]) \ {k}
      /\ Once(Lfu!Erase(b[g], k))
      /\ \A i, j : Before(Lfu!Erase(b[g], k), i, j) <=> Before(b[g], i, j) /\ i # k /\ j # k
  BY <1>2, EraseDrops
<1>4. /\ t1 \in Seq(Keys) /\ Elements(t1) = Elements(t) \ {k} /\ Once(t1)
      /\ \A i, j : Before(t1, i, j) <=> Before(t, i, j) /\ i # k /\ j # k
  BY <1>1, EraseDrops DEF LfuOf
<1>5. fr1 \in [Keys -> 0 .. MaxFreq] /\ fr1[k] = 0 /\ \A j \in Keys \ {k} : fr1[j] = fr[j]
  BY <1>1, TracesAssumption
<1>6. /\ b1 \in [Lfu!Freqs -> Seq(Keys)] /\ b1[g] = Lfu!Erase(b[g], k)
      /\ \A f \in Lfu!Freqs \ {g} : b1[f] = b[f]
  BY <1>1, <1>3
<1> HIDE DEF fr1, b1, t1
<1>7. In(fr1) = In(fr) \ {k}
  BY <1>5 DEF In
<1>8. \A f \in Lfu!Freqs : f # 0
  BY DEF Lfu!Freqs
<1>9. ASSUME NEW f \in Lfu!Freqs
      PROVE  /\ Elements(b1[f]) = { j \in Keys : fr1[j] = f } /\ Once(b1[f])
             /\ \A i, j : Before(b1[f], i, j) => Before(t1, i, j)
  <2>0. /\ Elements(b[f]) = { j \in Keys : fr[j] = f } /\ Once(b[f])
        /\ \A i, j : Before(b[f], i, j) => Before(t, i, j)
    BY DEF LfuOf
  <2>1. CASE f = g
    <3>1. { j \in Keys : fr1[j] = f } = { j \in Keys : fr[j] = f } \ {k}
      BY <1>5, <1>8
    <3> QED
      BY <2>0, <2>1, <1>3, <1>4, <1>6, <3>1
  <2>2. CASE f # g
    <3>1. b1[f] = b[f] /\ k \notin Elements(b[f])
      BY <2>0, <2>2, <1>6
    <3>2. { j \in Keys : fr1[j] = f } = { j \in Keys : fr[j] = f }
      BY <1>5, <1>8, <2>2
    <3>3. \A i, j : Before(b[f], i, j) => i \in Elements(b[f]) /\ j \in Elements(b[f])
      BY DEF Before, Elements
    <3> QED
      BY <2>0, <1>4, <3>1, <3>2, <3>3
  <2> QED
    BY <2>1, <2>2
<1>10. IsFiniteSet(In(fr1)) /\ n - 1 = Cardinality(In(fr1)) /\ n - 1 \in Nat /\ n \in Nat /\ n - 1 <= Capacity
  <2>1. IsFiniteSet(In(fr)) /\ n = Cardinality(In(fr)) /\ n <= Capacity
    BY DEF LfuOf
  <2>2. /\ IsFiniteSet(In(fr) \ {k}) /\ Cardinality(In(fr) \ {k}) \in Nat
        /\ Cardinality(In(fr)) = Cardinality(In(fr) \ {k}) + 1
    BY <1>1, <2>1, Apart DEF One
  <2> QED
    BY <1>7, <2>1, <2>2, IdealAssumption
<1>11. LfuOf(fr1, b1, n - 1, t1)
  BY <1>4, <1>5, <1>6, <1>7, <1>9, <1>10 DEF LfuOf
<1> QED
  BY <1>1, <1>10, <1>11 DEF fr1, b1, t1

(* A key that is not cached enters bucket g at the front.                   *)
LEMMA PlaceKeeps ==
  ASSUME NEW fr, NEW b, NEW n, NEW t, LfuOf(fr, b, n, t), NEW k \in Keys, fr[k] = 0,
         NEW g \in Lfu!Freqs, n < Capacity
  PROVE  LfuOf([fr EXCEPT ![k] = g], [b EXCEPT ![g] = PushedOn(k, @)], n + 1, PushedOn(k, t))
<1> DEFINE fr1 == [fr EXCEPT ![k] = g]
           b1 == [b EXCEPT ![g] = PushedOn(k, @)]
           t1 == PushedOn(k, t)
<1>1. /\ fr \in [Keys -> 0 .. MaxFreq] /\ b \in [Lfu!Freqs -> Seq(Keys)] /\ t \in Seq(Keys)
      /\ k \notin In(fr) /\ g \in 1 .. MaxFreq
  BY DEF LfuOf, In, Lfu!Freqs
<1>2. b[g] \in Seq(Keys) /\ k \notin Elements(b[g]) /\ Once(b[g])
  BY <1>1 DEF LfuOf
<1>3. /\ PushedOn(k, b[g]) \in Seq(Keys)
      /\ Elements(PushedOn(k, b[g])) = {k} \cup Elements(b[g])
      /\ Once(PushedOn(k, b[g]))
      /\ \A i, j : Before(PushedOn(k, b[g]), i, j) <=>
                     Before(b[g], i, j) \/ (i = k /\ j \in Elements(b[g]))
  BY <1>2, PushAdds
<1>4. /\ t1 \in Seq(Keys) /\ Elements(t1) = {k} \cup Elements(t) /\ Once(t1)
      /\ \A i, j : Before(t1, i, j) <=> Before(t, i, j) \/ (i = k /\ j \in Elements(t))
  BY <1>1, PushAdds DEF LfuOf
<1>5. fr1 \in [Keys -> 0 .. MaxFreq] /\ fr1[k] = g /\ \A j \in Keys \ {k} : fr1[j] = fr[j]
  BY <1>1, TracesAssumption
<1>6. /\ b1 \in [Lfu!Freqs -> Seq(Keys)] /\ b1[g] = PushedOn(k, b[g])
      /\ \A f \in Lfu!Freqs \ {g} : b1[f] = b[f]
  BY <1>1, <1>3
<1> HIDE DEF fr1, b1, t1
<1>7. In(fr1) = In(fr) \cup {k}
  BY <1>1, <1>5 DEF In
<1>8. \A f \in Lfu!Freqs : f # 0 /\ \A j \in Keys : fr[j] = f => j \in In(fr)
  BY <1>1 DEF Lfu!Freqs, In
<1>9. ASSUME NEW f \in Lfu!Freqs
      PROVE  /\ Elements(b1[f]) = { j \in Keys : fr1[j] = f } /\ Once(b1[f])
             /\ \A i, j : Before(b1[f], i, j) => Before(t1, i, j)
  <2>0. /\ Elements(b[f]) = { j \in Keys : fr[j] = f } /\ Once(b[f])
        /\ \A i, j : Before(b[f], i, j) => Before(t, i, j)
        /\ Elements(b[f]) \subseteq Elements(t)
    BY <1>8 DEF LfuOf
  <2>1. CASE f = g
    <3>1. { j \in Keys : fr1[j] = f } = { j \in Keys : fr[j] = f } \cup {k}
      BY <1>5, <2>1
    <3> QED
      BY <2>0, <2>1, <1>3, <1>4, <1>6, <3>1
  <2>2. CASE f # g
    <3>1. { j \in Keys : fr1[j] = f } = { j \in Keys : fr[j] = f }
      BY <1>5, <1>8, <2>2
    <3> QED
      BY <2>0, <2>2, <1>4, <1>6, <3>1
  <2> QED
    BY <2>1, <2>2
<1>10. IsFiniteSet(In(fr1)) /\ n + 1 = Cardinality(In(fr1)) /\ n + 1 <= Capacity
  <2>1. IsFiniteSet(In(fr)) /\ n = Cardinality(In(fr)) /\ n \in Nat
    BY FS_CardinalityType DEF LfuOf
  <2> QED
    BY <1>1, <1>7, <2>1, FS_AddElement, IdealAssumption
<1>11. LfuOf(fr1, b1, n + 1, t1)
  <2>1. Elements(t1) = In(fr1)
    BY <1>4, <1>7 DEF LfuOf
  <2> QED
    BY <1>4, <1>5, <1>6, <1>9, <1>10, <2>1 DEF LfuOf
<1> QED
  BY <1>11 DEF fr1, b1, t1

(* back() and the stored iterators exist: what Remove and Promote take is   *)
(* there.                                                                   *)
LEMMA VictimIs ==
  ASSUME LfuInv, size >= Capacity, Capacity # 0
  PROVE  LET f == Lfu!VictimBucket
             v == Lfu!Last(bucket[f])
         IN  /\ f \in Lfu!Freqs /\ v \in Keys /\ freq[v] = f /\ freq[v] > 0
             /\ Lfu!Front(bucket[f]) = Lfu!Erase(bucket[f], v)
             /\ \A j \in Keys : j # v /\ freq[j] = f => Before(touched, j, v)
<1> DEFINE f == Lfu!VictimBucket
           v == Lfu!Last(bucket[f])
           used == { g \in Lfu!Freqs : bucket[g] # <<>> }
<1>1. f \in Lfu!Freqs /\ bucket[f] # <<>>
  <2>1. used # {}
    <3>1. In(freq) # {}
      <4>1. size = Cardinality(In(freq)) /\ IsFiniteSet(In(freq)) /\ Cardinality({}) = 0
        BY FS_EmptySet DEF LfuInv, LfuOf
      <4>2. size # 0
        BY <4>1, FS_CardinalityType, IdealAssumption
      <4>3. ASSUME In(freq) = {} PROVE FALSE
        BY <4>1, <4>2, <4>3
      <4> QED
        BY <4>3
    <3>2. PICK j \in Keys : freq[j] > 0
      BY <3>1 DEF In
    <3>3. freq[j] \in Lfu!Freqs
      BY <3>2, TracesAssumption DEF LfuInv, LfuOf, Lfu!Freqs
    <3>4. j \in Elements(bucket[freq[j]])
      BY <3>3 DEF LfuInv, LfuOf
    <3>5. Elements(<<>>) = {}
      BY DEF Elements
    <3> QED
      BY <3>3, <3>4, <3>5
  <2>2. used \in SUBSET Nat /\ Lfu!LeastOf(bucket) = Min(used)
    BY DEF Lfu!Freqs, Lfu!LeastOf, Lfu!Min, Min
  <2>3. Lfu!LeastOf(bucket) \in used
    BY <2>1, <2>2, MinIsLeast
  <2> QED
    BY <2>3 DEF Lfu!VictimBucket
<1> HIDE DEF f
<1>2. /\ bucket[f] \in Seq(Keys) /\ Once(bucket[f])
      /\ Elements(bucket[f]) = { j \in Keys : freq[j] = f }
      /\ \A i, j : Before(bucket[f], i, j) => Before(touched, i, j)
  BY <1>1 DEF LfuInv, LfuOf
<1>3. /\ v \in Elements(bucket[f]) /\ Lfu!Front(bucket[f]) = Lfu!Erase(bucket[f], v)
      /\ \A i \in Elements(bucket[f]) : i # v => Before(bucket[f], i, v)
  BY <1>1, <1>2, FrontErases
<1>4. f > 0
  BY <1>1 DEF Lfu!Freqs
<1> QED
  BY <1>1, <1>2, <1>3, <1>4 DEF f

(* Get, and Put of a cached key.                                            *)
LEMMA PromoteKeeps ==
  ASSUME LfuInv, NEW k \in Keys, freq[k] > 0, Lfu!Promote(k)
  PROVE  LfuInv' /\ Lfu!Cached' = Lfu!Cached
<1> DEFINE g == freq[k]
           fr1 == [freq EXCEPT ![k] = 0]
           b1 == [bucket EXCEPT ![g] = Lfu!Erase(@, k)]
           t1 == Lfu!Erase(touched, k)
<1>1. /\ freq \in [Keys -> 0 .. MaxFreq] /\ bucket \in [Lfu!Freqs -> Seq(Keys)]
      /\ g < MaxFreq /\ g \in Nat
  BY DEF LfuInv, LfuOf, Lfu!Promote
<1>2. /\ freq' = [freq EXCEPT ![k] = g + 1] /\ size' = size
      /\ bucket' = [b1 EXCEPT ![g + 1] = PushedOn(k, @)]
      /\ touched' = PushedOn(k, t1)
  BY DEF Lfu!Promote, PushedOn
<1>3. LfuOf(fr1, b1, size - 1, t1) /\ size - 1 \in Nat /\ size \in Nat
  BY DropKeeps DEF LfuInv
<1>4. fr1[k] = 0 /\ freq' = [fr1 EXCEPT ![k] = g + 1] /\ g + 1 \in Lfu!Freqs
  BY <1>1, <1>2, TracesAssumption DEF Lfu!Freqs
<1>5. size - 1 < Capacity /\ (size - 1) + 1 = size
  BY <1>3, IdealAssumption DEF LfuInv, LfuOf
<1> HIDE DEF fr1, b1, t1, g
<1>6. LfuOf([fr1 EXCEPT ![k] = g + 1], [b1 EXCEPT ![g + 1] = PushedOn(k, @)], (size - 1) + 1, PushedOn(k, t1))
  BY <1>3, <1>4, <1>5, PlaceKeeps
<1>7. LfuOf(freq', bucket', size', touched')
  BY <1>2, <1>4, <1>5, <1>6
<1>8. LfuInv'
  BY <1>7 DEF LfuInv, LfuOf, In
<1>9. \A j \in Keys : freq'[j] > 0 <=> freq[j] > 0
  BY <1>1, <1>2 DEF g
<1> QED
  BY <1>8, <1>9 DEF Lfu!Cached

LEMMA InsertKeeps ==
  ASSUME NEW fr, NEW b, NEW n, NEW t, LfuOf(fr, b, n, t), NEW k \in Keys, fr[k] = 0,
         n < Capacity, Lfu!Insert(k, fr, b, n, t)
  PROVE  LfuInv' /\ Lfu!Cached' = In(fr) \cup {k}
<1>1. /\ freq' = [fr EXCEPT ![k] = 1] /\ size' = n + 1
      /\ bucket' = [b EXCEPT ![1] = PushedOn(k, @)]
      /\ touched' = PushedOn(k, t)
  BY DEF Lfu!Insert, PushedOn
<1>2. 1 \in Lfu!Freqs
  BY TracesAssumption DEF Lfu!Freqs
<1>3. LfuOf(freq', bucket', size', touched')
  BY <1>1, <1>2, PlaceKeeps
<1>4. fr \in [Keys -> 0 .. MaxFreq]
  BY DEF LfuOf
<1>5. \A j \in Keys : freq'[j] > 0 <=> fr[j] > 0 \/ j = k
  BY <1>1, <1>4
<1> QED
  BY <1>3, <1>5 DEF LfuInv, LfuOf, In, Lfu!Cached

(* Put of a new key into a cache with room, and into a full one.            *)
LEMMA PutNewKeeps ==
  ASSUME LfuInv, NEW k \in Keys, Lfu!PutNew(k)
  PROVE  LfuInv' /\ Lfu!Cached' = Lfu!Cached \cup {k}
<1>1. freq[k] = 0
  BY DEF LfuInv, LfuOf, Lfu!PutNew, Lfu!Cached
<1> QED
  BY <1>1, InsertKeeps DEF LfuInv, Lfu!PutNew, In, Lfu!Cached

LEMMA PutEvictingKeeps ==
  ASSUME LfuInv, NEW k \in Keys, Capacity # 0, Lfu!PutEvicting(k)
  PROVE  /\ LfuInv' /\ Lfu!Cached' \subseteq Lfu!Cached \cup {k}
         /\ freq[k] = 0
         /\ \A j \in Keys : Lfu!Evicted(j) => j = Lfu!Last(bucket[Lfu!VictimBucket])
<1> DEFINE f == Lfu!VictimBucket
           v == Lfu!Last(bucket[f])
           fr1 == [freq EXCEPT ![v] = 0]
           b1 == [bucket EXCEPT ![f] = Lfu!Erase(@, v)]
           t1 == Lfu!Erase(touched, v)
<1>1. /\ freq \in [Keys -> 0 .. MaxFreq] /\ freq[k] = 0 /\ size >= Capacity
  BY DEF LfuInv, LfuOf, Lfu!PutEvicting, Lfu!Cached
<1>2. /\ f \in Lfu!Freqs /\ v \in Keys /\ freq[v] = f /\ freq[v] > 0
      /\ Lfu!Front(bucket[f]) = Lfu!Erase(bucket[f], v)
  BY <1>1, VictimIs
<1>3. Lfu!Insert(k, fr1, b1, size - 1, t1)
  <2>1. Lfu!Insert(k, fr1, [bucket EXCEPT ![f] = Lfu!Front(@)], size - 1, t1)
    BY DEF Lfu!PutEvicting
  <2>2. [bucket EXCEPT ![f] = Lfu!Front(@)] = b1
    BY <1>2
  <2> QED
    BY <2>1, <2>2
<1>4. LfuOf(fr1, b1, size - 1, t1) /\ size - 1 \in Nat /\ size \in Nat
  <2> HIDE DEF f, v
  <2> QED
    BY <1>2, DropKeeps DEF LfuInv
<1>5. size - 1 < Capacity /\ size <= Capacity
  BY <1>4, IdealAssumption DEF LfuInv, LfuOf
<1> HIDE DEF f, v
<1>6. fr1 \in [Keys -> 0 .. MaxFreq] /\ fr1[k] = 0 /\ \A j \in Keys \ {v} : fr1[j] = freq[j]
  BY <1>1, <1>2, TracesAssumption
<1> HIDE DEF fr1, b1, t1
<1>7. LfuInv' /\ Lfu!Cached' = In(fr1) \cup {k}
  BY <1>3, <1>4, <1>5, <1>6, InsertKeeps
<1>8. In(fr1) \subseteq Lfu!Cached
  BY <1>1, <1>2, <1>6 DEF In, Lfu!Cached
<1>9. \A j \in Keys : Lfu!Evicted(j) => j = v
  <2>1. freq' = [fr1 EXCEPT ![k] = 1]
    BY <1>3 DEF Lfu!Insert
  <2> QED
    BY <1>1, <1>6, <2>1 DEF Lfu!Evicted
<1> QED
  BY <1>1, <1>7, <1>8, <1>9 DEF f, v

(* A step that keeps what is cached evicts nobody.                          *)
LEMMA NobodyGoes ==
  ASSUME freq \in [Keys -> 0 .. MaxFreq], freq' \in [Keys -> 0 .. MaxFreq],
         \A j \in Keys : freq[j] > 0 => freq'[j] > 0
  PROVE  Lfu!EvictsOldest
<1>1. \A j \in Keys : freq[j] > 0 => freq'[j] # 0
  OBVIOUS
<1> QED
  BY <1>1 DEF Lfu!EvictsOldest, Lfu!Evicted

(* Every call, on a cache of any capacity.                                  *)
LEMMA CallKeeps ==
  ASSUME LfuInv, NEW k \in Keys, Lfu!Get(k) \/ Lfu!Put(k)
  PROVE  /\ LfuInv' /\ Lfu!EvictsOldest
         /\ Lfu!Cached' \subseteq Lfu!Cached \cup {k}
<1>1. freq \in [Keys -> 0 .. MaxFreq] /\ touched \in Seq(Keys)
  BY DEF LfuInv, LfuOf
<1>2. ASSUME LfuInv' PROVE freq' \in [Keys -> 0 .. MaxFreq]
  BY <1>2 DEF LfuInv, LfuOf
<1>3. CASE k \in Lfu!Cached /\ Lfu!Promote(k)
  <2>1. LfuInv' /\ Lfu!Cached' = Lfu!Cached
    BY <1>3, PromoteKeeps DEF Lfu!Cached
  <2>2. \A j \in Keys : freq[j] > 0 => freq'[j] > 0
    BY <2>1 DEF Lfu!Cached
  <2> QED
    BY <1>1, <1>2, <2>1, <2>2, NobodyGoes
<1>4. CASE Lfu!PutNew(k)
  <2>1. LfuInv' /\ Lfu!Cached' = Lfu!Cached \cup {k}
    BY <1>4, PutNewKeeps
  <2>2. \A j \in Keys : freq[j] > 0 => freq'[j] > 0
    BY <2>1 DEF Lfu!Cached
  <2> QED
    BY <1>1, <1>2, <2>1, <2>2, NobodyGoes
<1>5. CASE Capacity # 0 /\ Lfu!PutEvicting(k)
  <2> DEFINE v == Lfu!Last(bucket[Lfu!VictimBucket])
  <2>1. /\ LfuInv' /\ Lfu!Cached' \subseteq Lfu!Cached \cup {k}
        /\ \A j \in Keys : Lfu!Evicted(j) => j = v
    BY <1>5, PutEvictingKeeps
  <2>2. size >= Capacity
    BY <1>5 DEF Lfu!PutEvicting
  <2>3. \A j \in Keys : j # v /\ freq[j] = freq[v] => Before(touched, j, v)
    BY <1>5, <2>2, VictimIs
  <2>4. DOMAIN touched = 1 .. Len(touched)
    BY <1>1, LenProperties
  <2> HIDE DEF v
  <2>5. Lfu!EvictsOldest
    BY <2>1, <2>3, <2>4 DEF Lfu!EvictsOldest, Before
  <2> QED
    BY <2>1, <2>5
<1>6. CASE UNCHANGED lfuVars
  <2>1. freq' = freq /\ bucket' = bucket /\ size' = size /\ touched' = touched
    BY <1>6 DEF lfuVars
  <2>2. LfuInv' /\ Lfu!Cached' = Lfu!Cached
    BY <2>1 DEF LfuInv, LfuOf, In, Lfu!Cached
  <2> QED
    BY <1>1, <2>1, <2>2, NobodyGoes
<1> QED
  BY <1>3, <1>4, <1>5, <1>6 DEF Lfu!Get, Lfu!Put, Lfu!PutAgain, Lfu!vars, lfuVars

(* A step of the composition is a call of LfuCache, or leaves it alone.     *)
LEMMA LfuStep ==
  ASSUME LfuInv, [Next]_vars
  PROVE  LfuInv' /\ Lfu!EvictsOldest
<1>1. CASE \E k \in Keys : Lfu!Get(k) \/ Lfu!Put(k)
  BY <1>1, CallKeeps
<1>2. CASE UNCHANGED vars
  <2>1. freq' = freq /\ bucket' = bucket /\ size' = size /\ touched' = touched
    BY <1>2 DEF vars, lfuVars
  <2>2. LfuInv'
    BY <2>1 DEF LfuInv, LfuOf, In
  <2>3. freq \in [Keys -> 0 .. MaxFreq]
    BY DEF LfuInv, LfuOf
  <2> QED
    BY <2>1, <2>2, <2>3, NobodyGoes
<1> QED
  BY <1>1, <1>2 DEF Next, Access, Use, LfuAccess, Lfu!Next

LEMMA LfuInvariant == Spec => []LfuInv
<1>1. Init => LfuInv
  BY LfuInit DEF Init
<1>2. LfuInv /\ [Next]_vars => LfuInv'
  BY LfuStep
<1> QED
  BY <1>1, <1>2, PTL DEF Spec

(* A list that has each element once is as long as it has elements.         *)
LEMMA OnceCounts ==
  ASSUME NEW S, NEW s \in Seq(S), Once(s)
  PROVE  Len(s) = Cardinality(Elements(s))
<1>1. Len(s) \in Nat /\ s \in [1 .. Len(s) -> S]
  BY LenProperties
<1>2. s \in Bijection(1 .. Len(s), Elements(s))
  <2>1. s \in Surjection(1 .. Len(s), Elements(s))
    BY <1>1 DEF Surjection, Elements
  <2>2. s \in Injection(1 .. Len(s), Elements(s))
    BY <1>1, <2>1 DEF Injection, IsInjective, Surjection, Once
  <2> QED
    BY <2>1, <2>2 DEF Bijection
<1>3. ExistsBijection(1 .. Len(s), Elements(s))
  BY <1>2 DEF ExistsBijection
<1> QED
  BY <1>1, <1>3, FS_CountingElements

(* frequency_, frequency_buckets_, size_ and the capacity of LfuCache agree *)
(* after any calls, whatever the capacity: what back() reads and the stored *)
(* iterators erase is always there.                                         *)
THEOREM LfuContainersAgree == Spec => []ContainersAgree
<1>1. ASSUME LfuInv PROVE ContainersAgree
  <2>1. size = Cardinality(Lfu!Cached) /\ size <= Capacity
    BY <1>1 DEF LfuInv, LfuOf, In, Lfu!Cached
  <2>2. ASSUME NEW f \in Lfu!Freqs
        PROVE  /\ Lfu!ToSet(bucket[f]) = { k \in Keys : freq[k] = f }
               /\ Len(bucket[f]) = Cardinality(Lfu!ToSet(bucket[f]))
    <3>1. /\ bucket[f] \in Seq(Keys) /\ Once(bucket[f])
          /\ Elements(bucket[f]) = { k \in Keys : freq[k] = f }
      BY <1>1 DEF LfuInv, LfuOf
    <3>2. Len(bucket[f]) = Cardinality(Elements(bucket[f]))
      BY <3>1, OnceCounts
    <3>3. DOMAIN bucket[f] = 1 .. Len(bucket[f])
      BY <3>1, LenProperties
    <3>4. Lfu!ToSet(bucket[f]) = Elements(bucket[f])
      BY <3>3 DEF Lfu!ToSet, Elements
    <3> QED
      BY <3>1, <3>2, <3>4
  <2>3. \A S : Lfu!Cardinality(S) = Cardinality(S)
    BY DEF Cardinality, Lfu!Cardinality
  <2> QED
    BY <2>1, <2>2, <2>3 DEF ContainersAgree, Lfu!ContainersAgree
<1> QED
  BY <1>1, LfuInvariant, PTL

(* Remove takes, of the keys used equally often, the one whose latest use   *)
(* is oldest (test_lfu.cpp:59), whatever calls came before.                 *)
THEOREM OldestGoes == Spec => TieGoesToOldest
<1>1. LfuInv /\ [Next]_vars => [Lfu!EvictsOldest]_vars
  BY LfuStep
<1> QED
  BY <1>1, LfuInvariant, PTL DEF Spec, TieGoesToOldest

(* LfuCache as one more cache that the ideal one is compared with.          *)
LfuBehind == lfuHits \in Nat /\ NotAhead(lfuHits, Lfu!Cached)

LEMMA CachedIsSmall ==
  ASSUME LfuInv
  PROVE  /\ Lfu!Cached \in SUBSET Keys /\ IsFiniteSet(Lfu!Cached)
         /\ Cardinality(Lfu!Cached) <= Capacity
<1> QED
  BY DEF LfuInv, LfuOf, In, Lfu!Cached

LEMMA BehindInit == IInv /\ Lfu!Init /\ lfuHits = 0 => LfuBehind
<1> SUFFICES ASSUME IInv, Lfu!Init, lfuHits = 0 PROVE LfuBehind
  OBVIOUS
<1>1. Lfu!Cached = {}
  BY DEF Lfu!Init, Lfu!Cached
<1>2. /\ hits \in Nat /\ IsFiniteSet(Held) /\ IsFiniteSet({}) /\ Cardinality({}) = 0
  BY FS_EmptySet DEF IInv, KnowsNextUse, Typed
<1>3. ASSUME NEW d
      PROVE  Prospect(lfuHits, Lfu!Cached, d) <= Prospect(hits, DOMAIN data, d)
  <2>1. { j \in Lfu!Cached : FirstFrom(j, now) <= d } = {}
    BY <1>1
  <2>2. IsFiniteSet({ j \in Held : FirstFrom(j, now) <= d })
    BY <1>2, FS_Subset
  <2>3. Cardinality({ j \in Held : FirstFrom(j, now) <= d }) \in Nat
    BY <2>2, FS_CardinalityType
  <2> DEFINE h == Cardinality({ j \in Held : FirstFrom(j, now) <= d })
  <2>4. Prospect(lfuHits, Lfu!Cached, d) = 0
    BY <1>2, <2>1 DEF Prospect
  <2>5. Prospect(hits, DOMAIN data, d) = hits + h /\ h \in Nat
    BY <2>3 DEF Prospect, Held
  <2> HIDE DEF h
  <2> QED
    BY <1>2, <2>4, <2>5
<1> QED
  BY <1>2, <1>3 DEF LfuBehind, NotAhead

LEMMA BehindStep ==
  ASSUME IInv, LfuInv, LfuBehind, [Next]_vars
  PROVE  LfuBehind'
<1>1. KnowsNextUse /\ LfuInv'
  BY LfuStep DEF IInv
<1>2. ASSUME NEW k \in Keys, IdealAccess(k), LfuAccess(k) PROVE LfuBehind'
  <2>1. Lfu!Cached' \subseteq Lfu!Cached \cup {k}
    BY <1>2, CallKeeps DEF LfuAccess
  <2>2. Cardinality(Lfu!Cached') <= Capacity
    <3>1. (LfuInv => Cardinality(Lfu!Cached) <= Capacity)'
      BY CachedIsSmall, PTL
    <3> QED
      BY <1>1, <3>1
  <2>3. lfuHits' = lfuHits + One(k \in Lfu!Cached) /\ lfuHits' \in Nat
    BY <1>2 DEF LfuAccess, Lfu!Get, LfuBehind, One
  <2>4. /\ lfuHits \in Nat /\ NotAhead(lfuHits, Lfu!Cached)
        /\ Lfu!Cached \in SUBSET Keys /\ IsFiniteSet(Lfu!Cached)
    BY CachedIsSmall DEF LfuBehind
  <2>5. /\ lfuHits' <= hits'
        /\ \A d \in now' .. Len(trace') - 1 :
             lfuHits' + Cardinality({ j \in Lfu!Cached' : FirstFrom(j, now)' <= d })
               <= hits' + Cardinality({ j \in DOMAIN data' : FirstFrom(j, now)' <= d })
    BY <1>1, <1>2, <2>1, <2>2, <2>3, <2>4, AccessKeepsAhead
  <2> QED
    BY <2>3, <2>5 DEF LfuBehind, NotAhead, Prospect
<1>3. CASE Use
  <2>1. trace' = <<>> /\ now' = now /\ hits' = hits /\ lfuHits' = lfuHits /\ Len(trace) = 0 /\ now = 0
    BY <1>1, <1>3 DEF Use, idealVars, cacheVars, KnowsNextUse, Typed
  <2>2. now' .. Len(trace') - 1 = {}
    BY <2>1
  <2> QED
    BY <2>1, <2>2 DEF LfuBehind, NotAhead
<1>4. CASE UNCHANGED vars
  <2>1. /\ trace' = trace /\ now' = now /\ data' = data /\ hits' = hits
        /\ freq' = freq /\ lfuHits' = lfuHits
    BY <1>4 DEF vars, lfuVars, idealVars, cacheVars
  <2>2. \A j : FirstFrom(j, now)' = FirstFrom(j, now)
    BY <2>1 DEF FirstFrom, Positions, Never
  <2> QED
    BY <2>1, <2>2 DEF LfuBehind, NotAhead, Prospect, Lfu!Cached
<1> QED
  BY <1>2, <1>3, <1>4 DEF Next, Access

(* RunLfu never counts more hits than RunIdeal on the same input, whatever  *)
(* the input and the capacity (cache_src/README.md:23).                     *)
THEOREM LfuLosesToBelady == Spec => []LfuNeverAhead
<1>1. Spec => []IInv
  BY TracesRunsIdeal, Invariant, PTL
<1>2. Init => LfuBehind
  BY InitHolds, BehindInit DEF Init
<1>3. IInv /\ LfuInv /\ LfuBehind /\ [Next]_vars => LfuBehind'
  BY BehindStep
<1>4. LfuBehind => LfuNeverAhead
  BY DEF LfuBehind, NotAhead, LfuNeverAhead
<1> QED
  BY <1>1, <1>2, <1>3, <1>4, LfuInvariant, PTL DEF Spec
=============================================================================
