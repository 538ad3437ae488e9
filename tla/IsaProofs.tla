--------------------------------- MODULE IsaProofs ---------------------------------
(***************************************************************************)
(* An instruction is decoded as it was built, named in the trace as what it *)
(* is, and does what its name means: for every word size of IsaAssumption,  *)
(* all registers, immediates and operands.                                  *)
(*                                                                          *)
(* IInv says of each stage that its result is that of the operator it runs, *)
(* so that the rest is about operators.  Decode undoes Build, since no two  *)
(* fields of a format share a bit (DecodeBuild).  The mnemonic, the row of  *)
(* the table and the choice of the executor depend on the same codes        *)
(* (MnemonicRead, OperationChosen).  An operation of the ALU gives the word *)
(* its names stand for (OperationMeans), argued on bits: a word is the set  *)
(* of its bits (SameBits, SomeBits).  Every instruction then traps without  *)
(* having changed anything, or has its effect (Outcome).                    *)
(***************************************************************************)
EXTENDS Isa, WellFoundedInduction, TLAPS

----------------------------------------------------------------------------
(* Powers of two. Induction is over a set of numbers, since the provers     *)
(* cannot apply a theorem about every predicate.                            *)

(* Induction over Nat for a set of numbers.                                 *)
LEMMA Induction ==
  ASSUME NEW T, 0 \in T, \A n \in Nat : n \in T => n + 1 \in T
  PROVE  Nat \subseteq T
<1> DEFINE Less    == { p \in Nat \X Nat : p[1] < p[2] }
           Missing == Nat \ T
<1>1. IsWellFoundedOn(Less, Nat)
  BY NatLessThanWellFounded DEF OpToRel
<1>2. SUFFICES ASSUME Missing # {} PROVE FALSE
  OBVIOUS
<1>3. PICK n \in Missing : \A k \in Missing : <<k, n>> \notin Less
  <2> Missing \subseteq Nat
    OBVIOUS
  <2> HIDE DEF Missing, Less
  <2> QED
    BY <1>1, <1>2, WFMin
<1>4. n \in Nat \ {0} /\ n - 1 \in Nat
  OBVIOUS
<1>5. <<n - 1, n>> \in Less
  BY <1>4
<1>6. n - 1 \in T
  BY <1>3, <1>4, <1>5
<1>7. (n - 1) + 1 \in T
  BY <1>4, <1>6
<1> QED
  BY <1>4, <1>7

(* Pow2 is the function its recursive definition says it is.                *)
LEMMA Pow2Exists == \E f : f = [n \in Nat |-> IF n = 0 THEN 1 ELSE 2 * f[n - 1]]
<1> DEFINE Doubles(g, n) == /\ g \in [0 .. n -> Nat] /\ g[0] = 1
                            /\ \A k \in 1 .. n : g[k] = 2 * g[k - 1]
           Has == { n \in Nat : \E g \in [0 .. n -> Nat] : Doubles(g, n) }
<1>1. Nat \subseteq Has
  <2>1. 0 \in Has
    <3> DEFINE g == [k \in 0 .. 0 |-> 1]
    <3>1. g \in [0 .. 0 -> Nat] /\ g[0] = 1 /\ 1 .. 0 = {}
      OBVIOUS
    <3>2. Doubles(g, 0)
      BY <3>1
    <3> HIDE DEF g, Doubles
    <3> QED
      BY <3>1, <3>2
  <2>2. ASSUME NEW n \in Nat, n \in Has PROVE n + 1 \in Has
    <3>1. PICK g \in [0 .. n -> Nat] : Doubles(g, n)
      BY <2>2
    <3> DEFINE h == [k \in 0 .. n + 1 |-> IF k = n + 1 THEN 2 * g[n] ELSE g[k]]
    <3>2. h \in [0 .. n + 1 -> Nat] /\ h[0] = 1
      BY <3>1
    <3>3. ASSUME NEW k \in 1 .. n + 1 PROVE h[k] = 2 * h[k - 1]
      <4>1. CASE k = n + 1
        BY <4>1
      <4>2. CASE k # n + 1
        <5>1. k \in 1 .. n /\ k - 1 \in 0 .. n /\ k - 1 # n + 1
          BY <4>2
        <5>2. g[k] = 2 * g[k - 1]
          BY <3>1, <5>1
        <5> QED
          BY <5>1, <5>2
      <4> QED
        BY <4>1, <4>2
    <3>4. Doubles(h, n + 1)
      BY <3>2, <3>3
    <3> HIDE DEF h, Doubles
    <3> QED
      BY <3>2, <3>4
  <2> HIDE DEF Has
  <2> QED
    BY <2>1, <2>2, Induction
<1> DEFINE At(n) == CHOOSE g \in [0 .. n -> Nat] : Doubles(g, n)
           f     == [n \in Nat |-> At(n)[n]]
<1>2. ASSUME NEW n \in Nat PROVE At(n) \in [0 .. n -> Nat] /\ Doubles(At(n), n)
  <2>1. \E g \in [0 .. n -> Nat] : Doubles(g, n)
    BY <1>1
  <2> HIDE DEF Doubles
  <2> QED
    BY <2>1
<1>3. ASSUME NEW n \in Nat, NEW g, NEW h, Doubles(g, n), Doubles(h, n + 1) PROVE g[n] = h[n]
  <2> DEFINE Same == { k \in Nat : k <= n => g[k] = h[k] }
  <2>1. 0 \in Same
    BY <1>3
  <2>2. ASSUME NEW k \in Nat, k \in Same PROVE k + 1 \in Same
    <3> SUFFICES ASSUME k + 1 <= n PROVE g[k + 1] = h[k + 1]
      OBVIOUS
    <3>1. k + 1 \in 1 .. n /\ k + 1 \in 1 .. n + 1 /\ (k + 1) - 1 = k /\ g[k] = h[k]
      BY <2>2
    <3> QED
      BY <1>3, <3>1
  <2>3. Nat \subseteq Same
    <3> HIDE DEF Same
    <3> QED
      BY <2>1, <2>2, Induction
  <2> QED
    BY <2>3
<1>4. ASSUME NEW n \in Nat PROVE f[n] = IF n = 0 THEN 1 ELSE 2 * f[n - 1]
  <2>1. CASE n = 0
    BY <1>2, <2>1
  <2>2. CASE n # 0
    <3>1. n - 1 \in Nat /\ (n - 1) + 1 = n
      BY <2>2
    <3>2. Doubles(At(n), n) /\ Doubles(At(n - 1), n - 1)
      BY <1>2, <3>1
    <3>3. At(n - 1)[n - 1] = At(n)[n - 1]
      <4> HIDE DEF At, Doubles
      <4> QED
        BY <1>3, <3>1, <3>2
    <3>4. At(n)[n] = 2 * At(n)[n - 1]
      <4>1. n \in 1 .. n
        BY <2>2
      <4> HIDE DEF At
      <4> QED
        BY <3>2, <4>1
    <3> HIDE DEF At, Doubles
    <3> QED
      BY <2>2, <3>1, <3>3, <3>4
  <2> QED
    BY <2>1, <2>2
<1> HIDE DEF At
<1>5. f = [n \in Nat |-> IF n = 0 THEN 1 ELSE 2 * f[n - 1]]
  <2>1. f = [n \in Nat |-> f[n]]
    OBVIOUS
  <2> HIDE DEF f
  <2> QED
    BY <1>4, <2>1
<1> HIDE DEF f
<1> QED
  BY <1>5

(* Pow2 meets its own equation, so powers of two can be computed with.      *)
LEMMA Pow2IsFunction == Pow2 = [n \in Nat |-> IF n = 0 THEN 1 ELSE 2 * Pow2[n - 1]]
  BY Pow2Exists DEF Pow2

(* The equation, case by case.                                              *)
LEMMA Pow2Step == Pow2[0] = 1 /\ \A n \in Nat : Pow2[n + 1] = 2 * Pow2[n]
<1>1. \A n \in Nat : Pow2[n] = IF n = 0 THEN 1 ELSE 2 * Pow2[n - 1]
  BY Pow2IsFunction
<1>2. Pow2[0] = 1
  BY <1>1
<1>3. ASSUME NEW n \in Nat PROVE Pow2[n + 1] = 2 * Pow2[n]
  <2>1. n + 1 \in Nat /\ n + 1 # 0 /\ (n + 1) - 1 = n
    OBVIOUS
  <2> QED
    BY <1>1, <2>1
<1> QED
  BY <1>2, <1>3

(* By induction, every power of two is positive.                            *)
LEMMA Pow2Pos == \A n \in Nat : Pow2[n] \in Nat \ {0}
<1> DEFINE T == { n \in Nat : Pow2[n] \in Nat \ {0} }
<1>1. 0 \in T
  BY Pow2Step
<1>2. ASSUME NEW n \in Nat, n \in T PROVE n + 1 \in T
  BY <1>2, Pow2Step
<1>3. Nat \subseteq T
  <2> HIDE DEF T
  <2> QED
    BY <1>1, <1>2, Induction
<1> QED
  BY <1>3

----------------------------------------------------------------------------
(* Division by powers of two, and bits.                                     *)

(* Quotient and remainder of a division by a positive number.               *)
LEMMA DivMod ==
  ASSUME NEW a \in Int, NEW d \in Nat \ {0}
  PROVE  /\ a \div d \in Int /\ a % d \in 0 .. d - 1
         /\ a = d * (a \div d) + (a % d)
  OBVIOUS

(* There is only one way to write a number so.                              *)
LEMMA DivUnique ==
  ASSUME NEW d \in Nat \ {0}, NEW q \in Int, NEW r \in 0 .. d - 1
  PROVE  /\ (d * q + r) \div d = q
         /\ (d * q + r) % d = r
<1> DEFINE a == d * q + r
           p == a \div d
           s == a % d
<1>1. a \in Int
  OBVIOUS
<1>2. p \in Int /\ s \in 0 .. d - 1 /\ a = d * p + s
  <2> HIDE DEF a
  <2> QED
    BY <1>1, DivMod
<1>3. d * (q - p) = s - r
  BY <1>2
<1>4. q = p
  <2> HIDE DEF p, s
  <2>1. CASE q - p >= 1
    <3>1. d * (q - p) >= d
      BY <1>2, <2>1
    <3> QED
      BY <1>2, <1>3, <3>1
  <2>2. CASE q - p <= -1
    <3>1. d * (q - p) <= -d
      BY <1>2, <2>2
    <3> QED
      BY <1>2, <1>3, <3>1
  <2> QED
    BY <1>2, <2>1, <2>2
<1> QED
  BY <1>2, <1>3, <1>4

(* Dividing by a product is dividing twice.                                 *)
LEMMA DivDiv ==
  ASSUME NEW a \in Int, NEW m \in Nat \ {0}, NEW n \in Nat \ {0}
  PROVE  /\ a \div (m * n) = (a \div m) \div n
         /\ (a % (m * n)) \div m = (a \div m) % n
         /\ (a % (m * n)) % m = a % m
<1> DEFINE b == a \div m
           r == a % m
           q == b \div n
           s == b % n
<1>1. b \in Int /\ r \in 0 .. m - 1 /\ a = m * b + r
  BY DivMod
<1>2. q \in Int /\ s \in 0 .. n - 1 /\ b = n * q + s
  <2> HIDE DEF b
  <2> QED
    BY <1>1, DivMod
<1> DEFINE t == m * s + r
<1> HIDE DEF b, r, q, s
<1>3. m * n \in Nat \ {0} /\ m * s \in Nat
  BY <1>2
<1>4. m * s <= m * (n - 1)
  BY <1>2
<1>5. t \in 0 .. (m * n) - 1
  BY <1>1, <1>2, <1>3, <1>4
<1>6. a = (m * n) * q + t
  BY <1>1, <1>2
<1> HIDE DEF t
<1>7. a \div (m * n) = q /\ a % (m * n) = t
  BY <1>2, <1>3, <1>5, <1>6, DivUnique
<1>8. t \div m = s /\ t % m = r
  BY <1>1, <1>2, DivUnique DEF t
<1> QED
  BY <1>7, <1>8 DEF q, s, b, r

(* Adding a multiple of the divisor.                                        *)
LEMMA AddMultiple ==
  ASSUME NEW a \in Int, NEW d \in Nat \ {0}, NEW k \in Int
  PROVE  /\ (a + d * k) \div d = (a \div d) + k
         /\ (a + d * k) % d = a % d
<1> DEFINE q == a \div d
           r == a % d
<1>1. q \in Int /\ r \in 0 .. d - 1 /\ a = d * q + r
  BY DivMod
<1> HIDE DEF q, r
<1>2. a + d * k = d * (q + k) + r /\ q + k \in Int
  BY <1>1
<1>3. (d * (q + k) + r) \div d = q + k /\ (d * (q + k) + r) % d = r
  BY <1>1, <1>2, DivUnique
<1> QED
  BY <1>2, <1>3 DEF q, r

(* A number below the divisor is its own remainder.                         *)
LEMMA ModSmall ==
  ASSUME NEW d \in Nat \ {0}, NEW r \in 0 .. d - 1
  PROVE  r % d = r /\ r \div d = 0
<1>1. d * 0 + r = r
  OBVIOUS
<1> QED
  BY <1>1, DivUnique, 0 \in Int

(* By induction, exponents add.                                             *)
LEMMA Pow2Plus == \A m, n \in Nat : Pow2[m + n] = Pow2[m] * Pow2[n]
<1> SUFFICES ASSUME NEW m \in Nat PROVE \A n \in Nat : Pow2[m + n] = Pow2[m] * Pow2[n]
  OBVIOUS
<1> DEFINE T == { n \in Nat : Pow2[m + n] = Pow2[m] * Pow2[n] }
<1>1. 0 \in T
  BY Pow2Step, Pow2Pos
<1>2. ASSUME NEW n \in Nat, n \in T PROVE n + 1 \in T
  <2>1. m + (n + 1) = (m + n) + 1 /\ m + n \in Nat
    OBVIOUS
  <2>2. Pow2[m + (n + 1)] = 2 * Pow2[m + n] /\ Pow2[n + 1] = 2 * Pow2[n]
    BY <2>1, Pow2Step
  <2>3. Pow2[m] \in Nat /\ Pow2[n] \in Nat
    BY Pow2Pos
  <2>4. 2 * (Pow2[m] * Pow2[n]) = Pow2[m] * (2 * Pow2[n])
    BY <2>3
  <2> QED
    BY <1>2, <2>2, <2>4
<1>3. Nat \subseteq T
  <2> HIDE DEF T
  <2> QED
    BY <1>1, <1>2, Induction
<1> QED
  BY <1>3

(* A greater exponent gives no smaller power.                               *)
LEMMA Pow2Mono == ASSUME NEW m \in Nat, NEW n \in Nat, m <= n PROVE Pow2[m] <= Pow2[n]
<1>1. n - m \in Nat /\ n = m + (n - m)
  OBVIOUS
<1>2. Pow2[n] = Pow2[m] * Pow2[n - m]
  BY <1>1, Pow2Plus
<1>3. Pow2[m] \in Nat /\ Pow2[n - m] \in Nat /\ Pow2[n - m] >= 1
  BY <1>1, Pow2Pos
<1> QED
  BY <1>2, <1>3

----------------------------------------------------------------------------

(* Bit k of an integer, in two's complement when it is negative.            *)
Bit(a, k) == (a \div Pow2[k]) % 2 = 1

(* Reducing modulo 2^n leaves the bits below n.                             *)
LEMMA BitOfMod ==
  ASSUME NEW a \in Int, NEW n \in Nat, NEW k \in 0 .. n - 1
  PROVE  Bit(a % Pow2[n], k) <=> Bit(a, k)
<1> DEFINE p == Pow2[k]
           q == Pow2[n - k - 1]
<1>1. p \in Nat \ {0} /\ q \in Nat \ {0} /\ Pow2[n] = p * (2 * q)
  <2>1. k \in Nat /\ n - k - 1 \in Nat /\ (n - k - 1) + 1 \in Nat /\ n = k + ((n - k - 1) + 1)
    OBVIOUS
  <2>2. Pow2[n] = Pow2[k] * Pow2[(n - k - 1) + 1]
    BY <2>1, Pow2Plus
  <2>3. Pow2[(n - k - 1) + 1] = 2 * Pow2[n - k - 1]
    BY <2>1, Pow2Step
  <2> QED
    BY <2>1, <2>2, <2>3, Pow2Pos
<1> HIDE DEF q
<1>2. 2 * q \in Nat \ {0}
  BY <1>1
<1>3. (a % (p * (2 * q))) \div p = (a \div p) % (2 * q)
  <2> HIDE DEF p
  <2> QED
    BY <1>1, <1>2, DivDiv
<1>4. a \div p \in Int
  BY <1>1, DivMod
<1>5. ((a \div p) % (2 * q)) % 2 = (a \div p) % 2
  <2> HIDE DEF p
  <2> QED
    BY <1>1, <1>4, DivDiv, 2 \in Nat \ {0}
<1> QED
  BY <1>1, <1>3, <1>5 DEF Bit

(* Dividing by 2^s moves the bits s places to the right, whatever the sign. *)
LEMMA BitOfDiv ==
  ASSUME NEW a \in Int, NEW s \in Nat, NEW k \in Nat
  PROVE  Bit(a \div Pow2[s], k) <=> Bit(a, k + s)
<1>1. Pow2[k + s] = Pow2[s] * Pow2[k] /\ Pow2[s] \in Nat \ {0} /\ Pow2[k] \in Nat \ {0}
  <2>1. k + s = s + k
    OBVIOUS
  <2> QED
    BY <2>1, Pow2Plus, Pow2Pos
<1>2. a \div (Pow2[s] * Pow2[k]) = (a \div Pow2[s]) \div Pow2[k]
  BY <1>1, DivDiv
<1> QED
  BY <1>1, <1>2 DEF Bit

(* Multiplying by 2^s moves them s places to the left and fills with zeros. *)
LEMMA BitOfTimes ==
  ASSUME NEW a \in Int, NEW s \in Nat, NEW k \in Nat
  PROVE  Bit(a * Pow2[s], k) <=> k >= s /\ Bit(a, k - s)
<1>1. CASE k >= s
  <2> DEFINE p == Pow2[s]
             q == Pow2[k - s]
  <2>1. p \in Nat \ {0} /\ q \in Nat \ {0} /\ Pow2[k] = p * q
    <3>1. k - s \in Nat /\ k = s + (k - s)
      BY <1>1
    <3> QED
      BY <3>1, Pow2Plus, Pow2Pos
  <2> HIDE DEF p
  <2>2. a * p = p * a + 0 /\ 0 \in 0 .. p - 1 /\ a * p \in Int
    BY <2>1
  <2>3. (a * p) \div p = a
    BY <2>1, <2>2, DivUnique
  <2>4. (a * p) \div (p * q) = a \div q
    <3> HIDE DEF q
    <3> QED
      BY <2>1, <2>2, <2>3, DivDiv
  <2> QED
    BY <1>1, <2>1, <2>4 DEF Bit, p, q
<1>2. CASE k < s
  <2> DEFINE p == Pow2[k]
             q == Pow2[s - k - 1]
  <2>1. p \in Nat \ {0} /\ q \in Nat \ {0} /\ Pow2[s] = p * (2 * q)
    <3>1. s - k - 1 \in Nat /\ (s - k - 1) + 1 \in Nat /\ s = k + ((s - k - 1) + 1)
      BY <1>2
    <3>2. Pow2[s] = Pow2[k] * Pow2[(s - k - 1) + 1]
      BY <3>1, Pow2Plus
    <3>3. Pow2[(s - k - 1) + 1] = 2 * Pow2[s - k - 1]
      BY <3>1, Pow2Step
    <3> QED
      BY <3>1, <3>2, <3>3, Pow2Pos
  <2> HIDE DEF p, q
  <2>2. a * Pow2[s] = p * (2 * (a * q)) + 0 /\ a * q \in Int /\ 0 \in 0 .. p - 1
    BY <2>1
  <2>3. (a * Pow2[s]) \div p = 2 * (a * q)
    <3>1. 2 * (a * q) \in Int
      BY <2>2
    <3> QED
      BY <2>1, <2>2, <3>1, DivUnique
  <2>4. (2 * (a * q)) % 2 = 0
    <3> DEFINE b == a * q
    <3> HIDE DEF b
    <3>1. b \in Int => (2 * b) % 2 = 0
      OBVIOUS
    <3> QED
      BY <2>2, <3>1 DEF b
  <2> QED
    BY <1>2, <2>3, <2>4 DEF Bit, p
<1> QED
  BY <1>1, <1>2

(* A number of n bits has none from n on.                                   *)
LEMMA BitBeyond ==
  ASSUME NEW n \in Nat, NEW a \in 0 .. Pow2[n] - 1, NEW k \in Nat, k >= n
  PROVE  ~ Bit(a, k)
<1>1. a \in 0 .. Pow2[k] - 1
  BY Pow2Mono, Pow2Pos
<1>2. a \div Pow2[k] = 0
  BY <1>1, Pow2Pos, ModSmall
<1> QED
  BY <1>2 DEF Bit

(* The top bit of a number of n + 1 bits.                                   *)
LEMMA TopBit ==
  ASSUME NEW n \in Nat, NEW a \in 0 .. Pow2[n + 1] - 1
  PROVE  /\ Bit(a, n) <=> a >= Pow2[n]
         /\ a = (a % Pow2[n]) + (IF Bit(a, n) THEN Pow2[n] ELSE 0)
<1> DEFINE p == Pow2[n]
<1>1. p \in Nat \ {0} /\ Pow2[n + 1] = 2 * p
  BY Pow2Step, Pow2Pos
<1>2. CASE a < p
  <2>1. a \div p = 0 /\ a % p = a
    <3>1. a \in 0 .. p - 1
      BY <1>1, <1>2
    <3> HIDE DEF p
    <3> QED
      BY <1>1, <3>1, ModSmall
  <2> QED
    BY <1>1, <1>2, <2>1 DEF Bit
<1>3. CASE a >= p
  <2>1. a = p * 1 + (a - p) /\ a - p \in 0 .. p - 1
    BY <1>1, <1>3
  <2>2. a \div p = 1 /\ a % p = a - p
    <3> HIDE DEF p
    <3> QED
      BY <1>1, <2>1, DivUnique, 1 \in Int
  <2> QED
    BY <1>1, <1>3, <2>2 DEF Bit
<1> QED
  BY <1>1, <1>2, <1>3

(* Two numbers of n bits with the same bits are the same.                   *)
LEMMA SameBits ==
  \A n \in Nat : \A a, b \in 0 .. Pow2[n] - 1 :
    (\A k \in 0 .. n - 1 : Bit(a, k) <=> Bit(b, k)) => a = b
<1> DEFINE Agree(n, a, b) == \A k \in 0 .. n - 1 : Bit(a, k) <=> Bit(b, k)
           T == { n \in Nat : \A a, b \in 0 .. Pow2[n] - 1 : Agree(n, a, b) => a = b }
<1>1. 0 \in T
  BY Pow2Step
<1>2. ASSUME NEW n \in Nat, n \in T PROVE n + 1 \in T
  <2> SUFFICES ASSUME NEW a \in 0 .. Pow2[n + 1] - 1, NEW b \in 0 .. Pow2[n + 1] - 1, Agree(n + 1, a, b)
               PROVE  a = b
    OBVIOUS
  <2> DEFINE c == a % Pow2[n]
             d == b % Pow2[n]
  <2>1. a \in Int /\ b \in Int
    BY Pow2Pos
  <2>2. c \in 0 .. Pow2[n] - 1 /\ d \in 0 .. Pow2[n] - 1
    BY <2>1, Pow2Pos, DivMod
  <2>3. Agree(n, c, d)
    <3> SUFFICES ASSUME NEW k \in 0 .. n - 1 PROVE Bit(c, k) <=> Bit(d, k)
      OBVIOUS
    <3>1. k \in 0 .. (n + 1) - 1
      OBVIOUS
    <3>2. Bit(a, k) <=> Bit(b, k)
      BY <3>1
    <3> QED
      BY <2>1, <3>2, BitOfMod
  <2>4. c = d
    <3> HIDE DEF Agree, c, d
    <3> QED
      BY <1>2, <2>2, <2>3
  <2>5. Bit(a, n) <=> Bit(b, n)
    <3>1. n \in 0 .. (n + 1) - 1
      OBVIOUS
    <3> QED
      BY <3>1
  <2> QED
    BY <2>4, <2>5, TopBit
<1>3. Nat \subseteq T
  <2> HIDE DEF T
  <2> QED
    BY <1>1, <1>2, Induction
<1> QED
  BY <1>3

(* Every set of n positions is the bits of a number.                        *)
LEMMA SomeBits ==
  ASSUME NEW S
  PROVE  \A n \in Nat : \E a \in 0 .. Pow2[n] - 1 : \A k \in 0 .. n - 1 : Bit(a, k) <=> k \in S
<1> DEFINE Fits(n, a) == \A k \in 0 .. n - 1 : Bit(a, k) <=> k \in S
           T == { n \in Nat : \E a \in 0 .. Pow2[n] - 1 : Fits(n, a) }
<1>1. 0 \in T
  <2>1. 0 \in 0 .. Pow2[0] - 1 /\ Fits(0, 0)
    BY Pow2Step
  <2> QED
    BY <2>1
<1>2. ASSUME NEW n \in Nat, n \in T PROVE n + 1 \in T
  <2>1. PICK a \in 0 .. Pow2[n] - 1 : Fits(n, a)
    BY <1>2
  <2> DEFINE p == Pow2[n]
             b == IF n \in S THEN a + p * 1 ELSE a
  <2>2. p \in Nat \ {0} /\ Pow2[n + 1] = 2 * p /\ a \in Int /\ a \in 0 .. p - 1
    BY Pow2Step, Pow2Pos
  <2>3. b \in 0 .. Pow2[n + 1] - 1 /\ b \in Int
    <3> HIDE DEF p
    <3> QED
      BY <2>2
  <2>4. b % p = a
    <3>1. a % p = a /\ (a + p * 1) % p = a % p
      <4> HIDE DEF p
      <4> QED
        BY <2>2, ModSmall, AddMultiple, 1 \in Int
    <3> QED
      BY <3>1
  <2>5. Bit(b, n) <=> n \in S
    <3>1. b >= p <=> n \in S
      <4> HIDE DEF p
      <4> QED
        BY <2>2
    <3> HIDE DEF b
    <3> QED
      BY <2>3, <3>1, TopBit
  <2>6. ASSUME NEW k \in 0 .. (n + 1) - 1 PROVE Bit(b, k) <=> k \in S
    <3>1. CASE k = n
      BY <2>5, <3>1
    <3>2. CASE k # n
      <4>1. k \in 0 .. n - 1
        BY <3>2
      <4>2. Bit(b % p, k) <=> Bit(b, k)
        <5> HIDE DEF b
        <5> QED
          BY <2>3, <4>1, BitOfMod
      <4> QED
        BY <2>1, <2>4, <4>1, <4>2
    <3> QED
      BY <3>1, <3>2
  <2> HIDE DEF b
  <2> QED
    BY <2>3, <2>6
<1>3. Nat \subseteq T
  <2> HIDE DEF T
  <2> QED
    BY <1>1, <1>2, Induction
<1> QED
  BY <1>3

----------------------------------------------------------------------------
(* Words.                                                                   *)

(* XLEN is a width of IsaAssumption, and a word has a sign bit.             *)
LEMMA WordSize ==
  /\ XLEN \in 4 .. 32 /\ XLEN - 1 \in Nat
  /\ Pow2[XLEN - 1] \in Nat \ {0} /\ Pow2[XLEN] = 2 * Pow2[XLEN - 1]
  /\ Pow2[2 * XLEN] = Pow2[XLEN] * Pow2[XLEN]
<1>1. XLEN \in 4 .. 32 /\ XLEN \in Nat /\ XLEN - 1 \in Nat /\ XLEN = (XLEN - 1) + 1 /\ 2 * XLEN = XLEN + XLEN
  BY IsaAssumption
<1> QED
  BY <1>1, Pow2Plus, Pow2Pos, Pow2Step

(* Truncating gives a word, and forgets multiples of 2^XLEN.                *)
LEMMA UWordType ==
  ASSUME NEW n \in Int
  PROVE  /\ UWord(n) \in UWords
         /\ \A k \in Int : UWord(n + Pow2[XLEN] * k) = UWord(n)
<1>1. Pow2[XLEN] \in Nat \ {0}
  BY WordSize
<1> QED
  BY <1>1, DivMod, AddMultiple DEF UWord, UWords

(* A word is its own truncation.                                            *)
LEMMA UWordSmall == ASSUME NEW n \in UWords PROVE UWord(n) = n /\ n \in Nat
  BY ModSmall, WordSize DEF UWord, UWords

(* Bits is Bit, over the positions of a word.                               *)
LEMMA BitsOf ==
  ASSUME NEW a
  PROVE  /\ Bits(a) \subseteq 0 .. XLEN - 1
         /\ \A k \in 0 .. XLEN - 1 : k \in Bits(a) <=> Bit(a, k)
  BY DEF Bits, Bit

(* A word is its bits.                                                      *)
LEMMA BitsSame == ASSUME NEW a \in UWords, NEW b \in UWords, Bits(a) = Bits(b) PROVE a = b
<1>1. \A k \in 0 .. XLEN - 1 : Bit(a, k) <=> Bit(b, k)
  BY BitsOf
<1>2. XLEN \in Nat
  BY WordSize
<1> QED
  BY <1>1, <1>2, SameBits DEF UWords

(* Num finds the number of any set of positions.                            *)
LEMMA NumBits ==
  ASSUME NEW S, S \subseteq 0 .. XLEN - 1
  PROVE  Num(S) \in UWords /\ Bits(Num(S)) = S
<1>1. XLEN \in Nat
  BY WordSize
<1>2. PICK a \in 0 .. Pow2[XLEN] - 1 : \A k \in 0 .. XLEN - 1 : Bit(a, k) <=> k \in S
  BY <1>1, SomeBits
<1>3. Bits(a) = S
  BY <1>2, BitsOf
<1> QED
  BY <1>2, <1>3 DEF Num, UWords

(* Reading the bits of a word gives the word.                               *)
LEMMA NumOfBits == ASSUME NEW a \in UWords PROVE Num(Bits(a)) = a
  BY NumBits, BitsOf, BitsSame

(* Truncating leaves the bits of the word.                                  *)
LEMMA BitsOfUWord ==
  ASSUME NEW n \in Int
  PROVE  \A k \in 0 .. XLEN - 1 : k \in Bits(UWord(n)) <=> Bit(n, k)
  BY BitsOf, BitOfMod, WordSize DEF UWord

(* The signed reading of a word: its range, and the sign bit.               *)
LEMMA SWordType ==
  ASSUME NEW a \in UWords
  PROVE  /\ SWord(a) \in -Pow2[XLEN - 1] .. Pow2[XLEN - 1] - 1
         /\ UWord(SWord(a)) = a
         /\ SWord(a) < 0 <=> Bit(a, XLEN - 1)
<1>1. SWord(a) \in -Pow2[XLEN - 1] .. Pow2[XLEN - 1] - 1
  BY WordSize DEF SWord, UWords
<1>2. UWord(SWord(a)) = a
  <2>1. CASE SWord(a) = a
    BY <2>1, UWordSmall
  <2>2. CASE SWord(a) = a + Pow2[XLEN] * (-1)
    BY <2>2, UWordSmall, UWordType, -1 \in Int
  <2> QED
    BY <2>1, <2>2, WordSize DEF SWord, UWords
<1>3. SWord(a) < 0 <=> Bit(a, XLEN - 1)
  <2>1. XLEN - 1 \in Nat /\ (XLEN - 1) + 1 = XLEN
    BY WordSize
  <2>2. Bit(a, XLEN - 1) <=> a >= Pow2[XLEN - 1]
    BY <2>1, TopBit DEF UWords
  <2> QED
    BY <2>2, WordSize DEF SWord, UWords
<1> QED
  BY <1>1, <1>2, <1>3

(* A number in the signed range survives being kept in a word.              *)
LEMMA SWordOfUWord ==
  ASSUME NEW n \in -Pow2[XLEN - 1] .. Pow2[XLEN - 1] - 1
  PROVE  SWord(UWord(n)) = n
<1>1. CASE n >= 0
  <2>1. n \in UWords
    BY <1>1, WordSize DEF UWords
  <2> QED
    BY <1>1, <2>1, UWordSmall, WordSize DEF SWord
<1>2. CASE n < 0
  <2>1. n + Pow2[XLEN] * 1 \in UWords /\ n \in Int
    BY <1>2, WordSize DEF UWords
  <2>2. UWord(n) = n + Pow2[XLEN] * 1
    BY <2>1, UWordSmall, UWordType, 1 \in Int
  <2> QED
    BY <1>2, <2>2, WordSize DEF SWord
<1> QED
  BY <1>1, <1>2

(* In the signed reading the sign bit is repeated beyond the word.          *)
LEMMA BitOfSWord ==
  ASSUME NEW a \in UWords, NEW k \in Nat
  PROVE  Bit(SWord(a), k) <=> (IF k < XLEN THEN k ELSE XLEN - 1) \in Bits(a)
<1>1. SWord(a) \in Int /\ UWord(SWord(a)) = a
  BY SWordType, WordSize
<1>2. CASE k < XLEN
  <2>1. k \in 0 .. XLEN - 1
    BY <1>2, WordSize
  <2>2. k \in Bits(UWord(SWord(a))) <=> Bit(SWord(a), k)
    BY <1>1, <2>1, BitsOfUWord
  <2> QED
    BY <1>1, <1>2, <2>2
<1>3. CASE k >= XLEN
  <2>1. Pow2[k] \in Nat \ {0} /\ Pow2[XLEN] <= Pow2[k]
    BY <1>3, Pow2Mono, Pow2Pos, WordSize
  <2>2. CASE SWord(a) >= 0
    <3>1. SWord(a) \in 0 .. Pow2[k] - 1
      BY <2>1, <2>2, SWordType, WordSize
    <3>2. SWord(a) \div Pow2[k] = 0
      BY <2>1, <3>1, ModSmall
    <3> QED
      BY <1>3, <2>2, <3>2, SWordType, BitsOf, WordSize DEF Bit
  <2>3. CASE SWord(a) < 0
    <3>1. SWord(a) = Pow2[k] * (-1) + (SWord(a) + Pow2[k]) /\ SWord(a) + Pow2[k] \in 0 .. Pow2[k] - 1
      BY <2>1, <2>3, SWordType, WordSize
    <3>2. SWord(a) \div Pow2[k] = -1
      <4> DEFINE s == SWord(a)
                 d == Pow2[k]
      <4>1. s = d * (-1) + (s + d) /\ s + d \in 0 .. d - 1 /\ d \in Nat \ {0} /\ -1 \in Int
        BY <3>1, <2>1
      <4> HIDE DEF s, d
      <4>2. s \div d = -1
        BY <4>1, DivUnique
      <4> QED
        BY <4>2 DEF s, d
    <3>3. (-1) % 2 = 1
      BY DivUnique, -1 = 2 * (-1) + 1, -1 \in Int, 1 \in 0 .. 2 - 1, 2 \in Nat \ {0}
    <3>4. Bit(SWord(a), k)
      BY <3>2, <3>3 DEF Bit
    <3>5. XLEN - 1 \in Bits(a)
      BY <2>3, SWordType, BitsOf, WordSize
    <3> QED
      BY <1>3, <3>4, <3>5, WordSize
  <2> QED
    BY <1>1, <2>2, <2>3
<1> QED
  BY <1>2, <1>3, WordSize

(* Division that rounds towards zero.                                       *)
LEMMA QuotientDivides ==
  ASSUME NEW x \in Int, NEW y \in Int \ {0}
  PROVE  /\ Quotient(x, y) \in Int /\ Remainder(x, y) \in Int
         /\ Divides(Quotient(x, y), Remainder(x, y), x, y)
         /\ Abs(Quotient(x, y)) <= Abs(x)
         /\ Abs(Remainder(x, y)) <= Abs(x)
<1> DEFINE u == Abs(x)
           v == Abs(y)
           q == u \div v
           r == u % v
<1>1. u \in Nat /\ v \in Nat \ {0}
  BY DEF Abs
<1>2. q \in Int /\ r \in 0 .. v - 1 /\ u = v * q + r
  <2> HIDE DEF u, v
  <2> QED
    BY <1>1, DivMod
<1>3. q >= 0
  <2> HIDE DEF u, v, q, r
  <2> SUFFICES ASSUME q <= -1 PROVE FALSE
    BY <1>2
  <2>1. v * q <= -v
    BY <1>1, <1>2
  <2> QED
    BY <1>1, <1>2, <2>1
<1>4. q <= u /\ r <= u
  <2> HIDE DEF u, v, q, r
  <2>1. v * q >= q
    BY <1>1, <1>2, <1>3
  <2> QED
    BY <1>1, <1>2, <1>3, <2>1
<1>5. Quotient(x, y) = IF (x < 0) = (y < 0) THEN q ELSE -q
  BY DEF Quotient
<1> HIDE DEF q, r
<1>6. CASE x >= 0 /\ y > 0
  <2>1. Quotient(x, y) = q /\ Remainder(x, y) = r
    BY <1>2, <1>5, <1>6 DEF Remainder, Abs
  <2> QED
    BY <1>2, <1>3, <1>4, <1>6, <2>1 DEF Divides, Abs
<1>7. CASE x >= 0 /\ y < 0
  <2>1. Quotient(x, y) = -q /\ Remainder(x, y) = r
    BY <1>2, <1>5, <1>7 DEF Remainder, Abs
  <2> QED
    BY <1>2, <1>3, <1>4, <1>7, <2>1 DEF Divides, Abs
<1>8. CASE x < 0 /\ y > 0
  <2>1. Quotient(x, y) = -q /\ Remainder(x, y) = -r
    BY <1>2, <1>5, <1>8 DEF Remainder, Abs
  <2> QED
    BY <1>2, <1>3, <1>4, <1>8, <2>1 DEF Divides, Abs
<1>9. CASE x < 0 /\ y < 0
  <2>1. Quotient(x, y) = q /\ Remainder(x, y) = -r
    BY <1>2, <1>5, <1>9 DEF Remainder, Abs
  <2> QED
    BY <1>2, <1>3, <1>4, <1>9, <2>1 DEF Divides, Abs
<1> QED
  BY <1>6, <1>7, <1>8, <1>9

----------------------------------------------------------------------------
(* The ALU.                                                                 *)

(* The shift amount of the ALU is below XLEN.                               *)
LEMMA ShamtType == ASSUME NEW b \in UWords PROVE Shamt(b) \in 0 .. XLEN - 1
<1>1. XLEN \in Nat \ {0} /\ b \in Int
  BY UWordSmall, WordSize
<1>2. b % XLEN \in 0 .. XLEN - 1
  BY <1>1, DivMod
<1> QED
  BY <1>2 DEF Shamt

(* Addition and subtraction wrap, and undo each other.                      *)
LEMMA AddMeans ==
  ASSUME NEW x \in UWords, NEW y \in UWords
  PROVE  UWord(UWord(x + y) - y) = x
<1>1. x \in Int /\ y \in Int /\ x + y \in Int /\ Pow2[XLEN] \in Nat \ {0}
  BY UWordSmall, WordSize
<1> DEFINE w == Pow2[XLEN]
           p == x + y
           q == p \div w
<1>2. q \in Int /\ p = w * q + UWord(p) /\ UWord(p) \in Int
  <2>1. p \in Int /\ w \in Nat \ {0} /\ UWord(p) = p % w
    BY <1>1 DEF UWord
  <2> HIDE DEF p, w
  <2> QED
    BY <2>1, DivMod
<1> HIDE DEF q
<1>3. UWord(x + y) - y = x + Pow2[XLEN] * (-q) /\ -q \in Int
  BY <1>1, <1>2
<1> QED
  BY <1>1, <1>3, UWordType, UWordSmall

LEMMA SubMeans ==
  ASSUME NEW x \in UWords, NEW y \in UWords
  PROVE  UWord(UWord(x - y) + y) = x
<1>1. x \in Int /\ y \in Int /\ x - y \in Int /\ Pow2[XLEN] \in Nat \ {0}
  BY UWordSmall, WordSize
<1> DEFINE w == Pow2[XLEN]
           p == x - y
           q == p \div w
<1>2. q \in Int /\ p = w * q + UWord(p) /\ UWord(p) \in Int
  <2>1. p \in Int /\ w \in Nat \ {0} /\ UWord(p) = p % w
    BY <1>1 DEF UWord
  <2> HIDE DEF p, w
  <2> QED
    BY <2>1, DivMod
<1> HIDE DEF q
<1>3. UWord(x - y) + y = x + Pow2[XLEN] * (-q) /\ -q \in Int
  BY <1>1, <1>2
<1> QED
  BY <1>1, <1>3, UWordType, UWordSmall

(* The three shifts, on bits: to the left, to the right with zeros, to the  *)
(* right with the sign.                                                     *)
LEMMA SllMeans ==
  ASSUME NEW x \in UWords, NEW s \in 0 .. XLEN - 1
  PROVE  Bits(UWord(x * Pow2[s])) = Shift(Bits(x), s) \cap 0 .. XLEN - 1
<1>1. s \in Nat /\ x \in Int /\ x * Pow2[s] \in Int /\ XLEN \in Nat
  BY WordSize, UWordSmall, Pow2Pos
<1>2. ASSUME NEW k \in 0 .. XLEN - 1
      PROVE  k \in Bits(UWord(x * Pow2[s])) <=> k \in Shift(Bits(x), s)
  <2>1. k \in Bits(UWord(x * Pow2[s])) <=> k >= s /\ Bit(x, k - s)
    BY <1>1, BitsOfUWord, BitOfTimes
  <2>2. k \in Shift(Bits(x), s) <=> k - s \in Bits(x)
    BY <1>1, BitsOf DEF Shift
  <2>3. k - s \in Bits(x) <=> k >= s /\ Bit(x, k - s)
    BY <1>1, BitsOf
  <2> QED
    BY <2>1, <2>2, <2>3
<1> QED
  BY <1>2, BitsOf

LEMMA SrlMeans ==
  ASSUME NEW x \in UWords, NEW s \in 0 .. XLEN - 1
  PROVE  /\ x \div Pow2[s] \in UWords
         /\ Shift(Bits(x \div Pow2[s]), s) = Bits(x) \cap s .. XLEN - 1
<1>1. s \in Nat /\ x \in Nat /\ Pow2[s] \in Nat \ {0} /\ XLEN \in Nat
  BY WordSize, UWordSmall, Pow2Pos
<1> DEFINE c == x \div Pow2[s]
<1>2. c \in UWords
  <2> DEFINE d == Pow2[s]
             r == x % d
  <2>1. c \in Int /\ r \in 0 .. d - 1 /\ x = d * c + r /\ d \in Nat \ {0}
    <3>1. x \in Int /\ d \in Nat \ {0} /\ c = x \div d
      BY <1>1
    <3> HIDE DEF c, d
    <3> QED
      BY <3>1, DivMod
  <2> HIDE DEF c, d, r
  <2>2. c >= 0
    <3> SUFFICES ASSUME c <= -1 PROVE FALSE
      BY <2>1
    <3>1. d * c <= -d
      BY <2>1
    <3> QED
      BY <1>1, <2>1, <3>1
  <2>3. c <= x
    <3>1. d * c >= c
      BY <2>1, <2>2
    <3> QED
      BY <2>1, <2>2, <3>1
  <2> QED
    BY <1>1, <2>1, <2>2, <2>3, WordSize DEF UWords
<1>3. ASSUME NEW k \in Int
      PROVE  k \in Shift(Bits(c), s) <=> k \in Bits(x) \cap s .. XLEN - 1
  <2>1. k \in Shift(Bits(c), s) <=> k - s \in Bits(c)
    <3>1. \A j \in Bits(c) : j \in Int
      BY BitsOf
    <3> HIDE DEF c
    <3> QED
      BY <1>1, <3>1 DEF Shift
  <2>2. CASE k \in s .. XLEN - 1
    <3>1. k - s \in 0 .. XLEN - 1 /\ k - s \in Nat /\ (k - s) + s = k /\ k \in 0 .. XLEN - 1
      BY <1>1, <2>2
    <3>2. Bit(c, k - s) <=> Bit(x, k)
      BY <1>1, <3>1, BitOfDiv
    <3> QED
      BY <2>1, <2>2, <3>1, <3>2, BitsOf
  <2>3. CASE k >= XLEN
    <3>1. k - s \in Bits(c) => FALSE
      <4> SUFFICES ASSUME k - s \in Bits(c) PROVE FALSE
        OBVIOUS
      <4>1. k - s \in 0 .. XLEN - 1 /\ Bit(c, k - s) /\ k - s \in Nat /\ (k - s) + s = k
        BY <1>1, BitsOf
      <4>2. Bit(x, k)
        BY <1>1, <4>1, BitOfDiv
      <4> QED
        BY <1>1, <2>3, <4>2, BitBeyond DEF UWords
    <3> QED
      BY <1>1, <2>1, <2>3, <3>1
  <2>4. CASE k < s
    <3>1. k - s \notin Bits(c)
      BY <1>1, <2>4, BitsOf
    <3> QED
      BY <1>1, <2>1, <2>4, <3>1
  <2> QED
    BY <1>1, <2>2, <2>3, <2>4
<1>4. Shift(Bits(c), s) \subseteq Int
  <2>1. \A j \in Bits(c) : j \in Int
    BY BitsOf
  <2> HIDE DEF c
  <2> QED
    BY <1>1, <2>1 DEF Shift
<1> HIDE DEF c
<1> QED
  BY <1>2, <1>3, <1>4 DEF c

LEMMA SraMeans ==
  ASSUME NEW x \in UWords, NEW s \in 0 .. XLEN - 1
  PROVE  \A k \in 0 .. XLEN - 1 :
           k \in Bits(UWord(SWord(x) \div Pow2[s]))
             <=> (IF k + s < XLEN THEN k + s ELSE XLEN - 1) \in Bits(x)
<1> SUFFICES ASSUME NEW k \in 0 .. XLEN - 1
             PROVE  k \in Bits(UWord(SWord(x) \div Pow2[s]))
                      <=> (IF k + s < XLEN THEN k + s ELSE XLEN - 1) \in Bits(x)
  OBVIOUS
<1>1. s \in Nat /\ k \in Nat /\ k + s \in Nat /\ SWord(x) \in Int /\ Pow2[s] \in Nat \ {0}
  BY WordSize, SWordType, Pow2Pos
<1>2. SWord(x) \div Pow2[s] \in Int
  BY <1>1, DivMod
<1>3. k \in Bits(UWord(SWord(x) \div Pow2[s])) <=> Bit(SWord(x) \div Pow2[s], k)
  BY <1>2, BitsOfUWord
<1>4. Bit(SWord(x) \div Pow2[s], k) <=> Bit(SWord(x), k + s)
  BY <1>1, BitOfDiv
<1> QED
  BY <1>1, <1>3, <1>4, BitOfSWord

(* The lower and the upper half of a product of words.                      *)
LEMMA MulMeans ==
  ASSUME NEW x \in UWords, NEW y \in UWords
  PROVE  /\ \E h \in UWords : h * Pow2[XLEN] + UWord(x * y) = x * y
         /\ \E l \in UWords : Upper(x * y) * Pow2[XLEN] + l = x * y
         /\ Upper(x * y) \in UWords
<1> DEFINE w == Pow2[XLEN]
           p == x * y
           h == p \div w
           l == p % w
<1>1. w \in Nat \ {0} /\ p \in Nat /\ x \in 0 .. w - 1 /\ y \in 0 .. w - 1 /\ w * w \in Nat \ {0}
  BY WordSize, UWordSmall DEF UWords
<1>2. h \in Int /\ l \in 0 .. w - 1 /\ p = w * h + l
  <2> HIDE DEF w, p
  <2> QED
    BY <1>1, DivMod
<1>3. p \in 0 .. (w * w) - 1
  <2> HIDE DEF w
  <2>1. x * y <= (w - 1) * (w - 1)
    <3>1. x * y <= x * (w - 1)
      BY <1>1
    <3>2. x * (w - 1) <= (w - 1) * (w - 1)
      BY <1>1
    <3>3. x * y \in Int /\ x * (w - 1) \in Int /\ (w - 1) * (w - 1) \in Int
      BY <1>1
    <3> HIDE DEF p
    <3> QED
      BY <3>1, <3>2, <3>3
  <2> QED
    BY <1>1, <2>1
<1>4. h \in 0 .. w - 1
  <2> HIDE DEF w, p, h, l
  <2>1. h >= 0
    <3> SUFFICES ASSUME h <= -1 PROVE FALSE
      BY <1>2
    <3>1. w * h <= -w
      BY <1>1, <1>2
    <3> QED
      BY <1>1, <1>2, <3>1
  <2>2. h < w
    <3> SUFFICES ASSUME h >= w PROVE FALSE
      BY <1>1, <1>2
    <3>1. w * h >= w * w
      BY <1>1, <1>2
    <3> QED
      BY <1>1, <1>2, <1>3, <3>1
  <2> QED
    BY <1>1, <1>2, <2>1, <2>2
<1>5. p % (w * w) = p
  <2> HIDE DEF w, p
  <2> QED
    BY <1>1, <1>3, ModSmall
<1>6. UWord(p) = l /\ Upper(p) = h
  BY <1>5, WordSize DEF UWord, Upper
<1>7. h * w + l = p
  <2> HIDE DEF w, p, h, l
  <2> QED
    BY <1>1, <1>2
<1>8. h \in UWords /\ l \in UWords
  BY <1>2, <1>4 DEF UWords
<1> HIDE DEF p, h, l
<1> QED
  BY <1>6, <1>7, <1>8 DEF p

(* A signed product whose upper half is a signed word.                      *)
LEMMA SignedMulMeans ==
  ASSUME NEW p \in Int,
         -(Pow2[XLEN - 1] * Pow2[XLEN]) <= p, p < Pow2[XLEN - 1] * Pow2[XLEN]
  PROVE  /\ Upper(p) \in UWords
         /\ \E l \in UWords : SWord(Upper(p)) * Pow2[XLEN] + l = p
<1> DEFINE w == Pow2[XLEN]
           g == Pow2[XLEN - 1]
           h == p \div w
           l == p % w
<1>1. w \in Nat \ {0} /\ g \in Nat \ {0} /\ w = 2 * g
  BY WordSize
<1>2. h \in Int /\ l \in 0 .. w - 1 /\ p = w * h + l /\ -(g * w) <= p /\ p < g * w
  <2> HIDE DEF w, g
  <2>1. h \in Int /\ l \in 0 .. w - 1 /\ p = w * h + l
    BY <1>1, DivMod
  <2>2. -(g * w) <= p /\ p < g * w
    BY DEF w, g
  <2> HIDE DEF h, l
  <2> QED
    BY <2>1, <2>2
<1>3. Upper(p) = h % w
  <2>1. (p % (w * w)) \div w = (p \div w) % w
    <3> HIDE DEF w
    <3> QED
      BY <1>1, DivDiv
  <2> QED
    BY <2>1, WordSize DEF Upper
<1>4. h \in -g .. g - 1
  <2> HIDE DEF w, g, h, l
  <2>1. h >= -g
    <3> SUFFICES ASSUME h <= -g - 1 PROVE FALSE
      BY <1>1, <1>2
    <3>1. w * h <= w * (-g - 1)
      BY <1>1, <1>2
    <3>2. w * (-g - 1) = -(g * w) - w
      BY <1>1
    <3> QED
      BY <1>1, <1>2, <3>1, <3>2
  <2>2. h < g
    <3> SUFFICES ASSUME h >= g PROVE FALSE
      BY <1>1, <1>2
    <3>1. w * h >= g * w
      BY <1>1, <1>2
    <3> QED
      BY <1>1, <1>2, <3>1
  <2> QED
    BY <1>1, <1>2, <2>1, <2>2
<1>5. SWord(UWord(h)) = h /\ UWord(h) \in UWords
  <2> HIDE DEF h
  <2> QED
    BY <1>1, <1>4, SWordOfUWord, UWordType
<1>6. h * w + l = p
  <2> HIDE DEF w, h, l
  <2> QED
    BY <1>1, <1>2
<1>7. l \in UWords /\ UWord(h) = h % w
  BY <1>2 DEF UWords, UWord
<1> HIDE DEF h, l
<1> QED
  BY <1>3, <1>5, <1>6, <1>7

(* MULH and MULHSU: both products are such.                                 *)
LEMMA MulhMeans ==
  ASSUME NEW x \in UWords, NEW y \in UWords
  PROVE  /\ Upper(SWord(x) * SWord(y)) \in UWords
         /\ \E l \in UWords : SWord(Upper(SWord(x) * SWord(y))) * Pow2[XLEN] + l = SWord(x) * SWord(y)
         /\ Upper(SWord(x) * y) \in UWords
         /\ \E l \in UWords : SWord(Upper(SWord(x) * y)) * Pow2[XLEN] + l = SWord(x) * y
<1> DEFINE w == Pow2[XLEN]
           g == Pow2[XLEN - 1]
           s == SWord(x)
<1>1. /\ w \in Nat \ {0} /\ g \in Nat \ {0} /\ w = 2 * g
      /\ s \in -g .. g - 1 /\ SWord(y) \in -g .. g - 1 /\ y \in 0 .. w - 1
  BY WordSize, SWordType DEF UWords
<1>2. ASSUME NEW t \in -g .. w - 1
      PROVE  s * t \in Int /\ -(g * w) <= s * t /\ s * t < g * w
  <2> HIDE DEF w, g, s
  <2>1. CASE t >= 0
    <3>1. s * t <= g * t /\ s * t >= (-g) * t
      BY <1>1, <2>1
    <3>2. g * t <= g * (w - 1) /\ (-g) * t >= (-g) * (w - 1)
      BY <1>1, <2>1
    <3> QED
      BY <1>1, <3>1, <3>2
  <2>2. CASE t < 0
    <3>1. s * t <= (-g) * t /\ s * t >= g * t
      BY <1>1, <2>2
    <3>2. (-g) * t <= (-g) * (-g) /\ g * t >= g * (-g)
      BY <1>1, <2>2
    <3>3. (-g) * (-g) < g * w /\ g * (-g) > -(g * w)
      BY <1>1
    <3> QED
      BY <1>1, <3>1, <3>2, <3>3
  <2> QED
    BY <1>1, <2>1, <2>2
<1>3. SWord(y) \in -g .. w - 1 /\ y \in -g .. w - 1
  <2> DEFINE t == SWord(y)
  <2> HIDE DEF w, g, t
  <2> QED
    BY <1>1 DEF t
<1> HIDE DEF s
<1>4. /\ s * SWord(y) \in Int /\ -(g * w) <= s * SWord(y) /\ s * SWord(y) < g * w
      /\ s * y \in Int /\ -(g * w) <= s * y /\ s * y < g * w
  BY <1>2, <1>3
<1> QED
  BY <1>4, SignedMulMeans DEF s

(* Unsigned division; the remainder is what is left.                        *)
LEMMA DivuMeans ==
  ASSUME NEW x \in UWords, NEW y \in UWords \ {0}
  PROVE  /\ x \div y \in UWords /\ x % y \in UWords
         /\ Divides(x \div y, x - (x \div y) * y, x, y)
         /\ Divides(x \div y, x % y, x, y)
<1>1. x \in Nat /\ y \in Nat \ {0} /\ x \in 0 .. Pow2[XLEN] - 1 /\ Pow2[XLEN] \in Nat
  BY UWordSmall, WordSize DEF UWords
<1> DEFINE q == x \div y
           r == x % y
<1>2. q \in Int /\ r \in 0 .. y - 1 /\ x = y * q + r
  <2>1. x \in Int /\ y \in Nat \ {0}
    BY <1>1
  <2> QED
    BY <2>1, DivMod
<1> HIDE DEF q, r
<1>3. q >= 0
  <2> SUFFICES ASSUME q <= -1 PROVE FALSE
    BY <1>2
  <2>1. y * q <= -y
    BY <1>1, <1>2
  <2> QED
    BY <1>1, <1>2, <2>1
<1>4. q <= x /\ r <= x
  <2>1. y * q >= q /\ y * q >= 0
    BY <1>1, <1>2, <1>3
  <2> QED
    BY <1>1, <1>2, <1>3, <2>1
<1>5. q \in UWords /\ r \in UWords
  BY <1>1, <1>2, <1>3, <1>4 DEF UWords
<1>6. x - q * y = r /\ x = q * y + r
  BY <1>1, <1>2
<1>7. Divides(q, r, x, y)
  BY <1>1, <1>2, <1>6 DEF Divides, Abs
<1> QED
  BY <1>5, <1>6, <1>7 DEF q, r

(* Signed division that does not overflow.                                  *)
LEMMA DivMeans ==
  ASSUME NEW x \in UWords, NEW y \in UWords \ {0}, ~ Overflows(x, y)
  PROVE  LET q == Quotient(SWord(x), SWord(y))
             r == Remainder(SWord(x), SWord(y))
         IN  /\ q \in -(Pow2[XLEN]) .. Pow2[XLEN] /\ UWord(q) \in UWords
             /\ UWord(r) \in UWords /\ SWord(UWord(r)) = r
             /\ r = SWord(x) - q * SWord(y)
             /\ Divides(q, r, SWord(x), SWord(y))
<1> DEFINE g == Pow2[XLEN - 1]
           a == SWord(x)
           b == SWord(y)
           q == Quotient(a, b)
           r == Remainder(a, b)
<1>1. /\ g \in Nat \ {0} /\ Pow2[XLEN] = 2 * g
      /\ a \in -g .. g - 1 /\ b \in -g .. g - 1 /\ b # 0
  <2>1. b # 0
    BY UWordSmall, SWordType, WordSize DEF SWord, UWords
  <2> QED
    BY <2>1, WordSize, SWordType
<1>2. /\ q \in Int /\ r \in Int /\ Divides(q, r, a, b)
      /\ Abs(q) <= Abs(a) /\ Abs(r) <= Abs(a)
  <2> HIDE DEF a, b
  <2> QED
    BY <1>1, QuotientDivides
<1> HIDE DEF a, b, q, r, g
<1>3. q \in -g .. g /\ a = q * b + r /\ Abs(r) < Abs(b)
  BY <1>1, <1>2 DEF Abs, Divides
<1>4. r \in -g .. g - 1
  BY <1>1, <1>2, <1>3 DEF Abs
<1>5. r = a - q * b
  BY <1>1, <1>2, <1>3
<1>6. UWord(q) \in UWords /\ UWord(r) \in UWords /\ SWord(UWord(r)) = r
  BY <1>2, <1>4, UWordType, SWordOfUWord DEF g
<1>7. q \in -(Pow2[XLEN]) .. Pow2[XLEN]
  BY <1>1, <1>3
<1> QED
  BY <1>2, <1>5, <1>6, <1>7 DEF a, b, q, r

(* The least number divided by -1 is its own magnitude, which wraps.        *)
LEMMA OverflowMeans ==
  ASSUME NEW x \in UWords, NEW y \in UWords \ {0}, Overflows(x, y)
  PROVE  LET q == Pow2[XLEN - 1] IN
         /\ q \in -(Pow2[XLEN]) .. Pow2[XLEN]
         /\ UWord(q) = UWord(SWordMin) /\ UWord(SWordMin) \in UWords
         /\ SWord(x) - q * SWord(y) = 0 /\ SWord(0) = 0 /\ 0 \in UWords
         /\ Divides(q, 0, SWord(x), SWord(y))
<1> DEFINE g == Pow2[XLEN - 1]
<1>1. /\ g \in Nat \ {0} /\ Pow2[XLEN] = 2 * g
      /\ SWord(x) = -g /\ SWord(y) = -1
  BY WordSize DEF Overflows, SWordMin
<1>2. UWord(-g + Pow2[XLEN] * 1) = UWord(-g) /\ UWord(-g) \in UWords
  <2>1. -g \in Int
    BY <1>1
  <2> HIDE DEF g
  <2> QED
    BY <2>1, UWordType, 1 \in Int
<1>3. -g + Pow2[XLEN] * 1 = g /\ SWordMin = -g
  BY <1>1 DEF SWordMin
<1>4. Divides(g, 0, SWord(x), SWord(y)) /\ SWord(x) - g * SWord(y) = 0
  BY <1>1 DEF Divides, Abs
<1>5. SWord(0) = 0 /\ 0 \in UWords /\ g \in -(Pow2[XLEN]) .. Pow2[XLEN]
  BY <1>1 DEF SWord, UWords
<1> QED
  BY <1>2, <1>3, <1>4, <1>5

(* All ones, what DIV gives for a division by zero, reads as -1.            *)
LEMMA ByZeroMeans == LET c == Pow2[XLEN] - 1 IN c \in UWords /\ SWord(c) = -1
<1>1. Pow2[XLEN - 1] \in Nat \ {0} /\ Pow2[XLEN] = 2 * Pow2[XLEN - 1]
  BY WordSize
<1> QED
  BY <1>1 DEF SWord, UWords

(* What Execute gives is a word, and has the meaning of the name it is for. *)
LEMMA AddSubMean ==
  ASSUME NEW x \in UWords, NEW y \in UWords
  PROVE  /\ UWord(x + y) \in UWords /\ UWord(x - y) \in UWords
         /\ Means("add", x, y, UWord(x + y)) /\ Means("addi", x, y, UWord(x + y))
         /\ Means("amoadd.w", x, y, UWord(x + y)) /\ Means("auipc", x, y, UWord(x + y))
         /\ Means("sub", x, y, UWord(x - y))
<1>1. x + y \in Int /\ x - y \in Int
  BY UWordSmall
<1> QED
  BY <1>1, UWordType, AddMeans, SubMeans DEF Means

(* AND, OR and XOR, and the bits that CSRRC clears.                         *)
LEMMA LogicMean ==
  ASSUME NEW x \in UWords, NEW y \in UWords
  PROVE  LET a == Num(Bits(x) \cap Bits(y))
             o == Num(Bits(x) \cup Bits(y))
             e == Num((Bits(x) \cup Bits(y)) \ (Bits(x) \cap Bits(y)))
             n == Num(Bits(x) \ Bits(y))
         IN  /\ a \in UWords /\ o \in UWords /\ e \in UWords /\ n \in UWords
             /\ \A name \in {"and", "andi", "amoand.w"} : Means(name, x, y, a)
             /\ \A name \in {"or", "ori", "amoor.w", "csrrs", "csrrsi"} : Means(name, x, y, o)
             /\ \A name \in {"xor", "xori", "amoxor.w"} : Means(name, x, y, e)
             /\ \A name \in {"csrrc", "csrrci"} : Means(name, x, y, n)
<1> DEFINE a == Num(Bits(x) \cap Bits(y))
           o == Num(Bits(x) \cup Bits(y))
           e == Num((Bits(x) \cup Bits(y)) \ (Bits(x) \cap Bits(y)))
           n == Num(Bits(x) \ Bits(y))
<1>1. /\ a \in UWords /\ Bits(a) = Bits(x) \cap Bits(y)
      /\ o \in UWords /\ Bits(o) = Bits(x) \cup Bits(y)
      /\ e \in UWords /\ Bits(e) = (Bits(x) \cup Bits(y)) \ (Bits(x) \cap Bits(y))
      /\ n \in UWords /\ Bits(n) = Bits(x) \ Bits(y)
  BY NumBits, BitsOf
<1> HIDE DEF a, o, e, n
<1>2. \A name \in {"and", "andi", "amoand.w"} : Means(name, x, y, a)
  BY <1>1 DEF Means, BitsAre
<1>3. \A name \in {"or", "ori", "amoor.w", "csrrs", "csrrsi"} : Means(name, x, y, o)
  BY <1>1 DEF Means, BitsAre
<1>4. \A name \in {"xor", "xori", "amoxor.w"} : Means(name, x, y, e)
  <2>1. \A k \in Bits(x) : (k \in Bits(y)) \in BOOLEAN
    OBVIOUS
  <2>2. \A k \in 0 .. XLEN - 1 : k \in Bits(e) <=> ((k \in Bits(x)) # (k \in Bits(y)))
    <3> TAKE k \in 0 .. XLEN - 1
    <3>1. CASE k \in Bits(x) /\ k \in Bits(y)
      BY <1>1, <3>1
    <3>2. CASE k \in Bits(x) /\ k \notin Bits(y)
      BY <1>1, <3>2
    <3>3. CASE k \notin Bits(x) /\ k \in Bits(y)
      BY <1>1, <3>3
    <3>4. CASE k \notin Bits(x) /\ k \notin Bits(y)
      BY <1>1, <3>4
    <3> QED
      BY <3>1, <3>2, <3>3, <3>4
  <2> QED
    BY <2>2 DEF Means, BitsAre
<1>5. \A name \in {"csrrc", "csrrci"} : Means(name, x, y, n)
  BY <1>1 DEF Means, BitsAre
<1> QED
  BY <1>1, <1>2, <1>3, <1>4, <1>5 DEF a, o, e, n

(* A name and the operation of the ALU that it stands for.                  *)
OperationOf ==
  { <<"add", "ADD">>, <<"addi", "ADD">>, <<"sub", "SUB">>, <<"and", "AND">>, <<"andi", "AND">>,
    <<"or", "OR">>, <<"ori", "OR">>, <<"xor", "XOR">>, <<"xori", "XOR">>, <<"sll", "SLL">>,
    <<"slli", "SLL">>, <<"srl", "SRL">>, <<"srli", "SRL">>, <<"sra", "SRA">>, <<"srai", "SRA">>,
    <<"slt", "SLT">>, <<"slti", "SLT">>, <<"sltu", "SLTU">>, <<"sltiu", "SLTU">>, <<"mul", "MUL">>,
    <<"mulh", "MULH">>, <<"mulhsu", "MULHSU">>, <<"mulhu", "MULHU">>, <<"div", "DIV">>,
    <<"divu", "DIVU">>, <<"rem", "REM">>, <<"remu", "REMU">> }

(* A word that has the meaning of a name on two operands.                   *)
Right(name, x, y, c) == c \in UWords /\ Means(name, x, y, c)

(* OperationMeans for shifts, comparisons, products and quotients.          *)
LEMMA ShiftMean ==
  ASSUME NEW x \in UWords, NEW y \in UWords
  PROVE  /\ \A name \in {"sll", "slli"} : Right(name, x, y, Execute("SLL", x, y))
         /\ \A name \in {"srl", "srli"} : Right(name, x, y, Execute("SRL", x, y))
         /\ \A name \in {"sra", "srai"} : Right(name, x, y, Execute("SRA", x, y))
<1> DEFINE s == y % XLEN
<1>1. s \in 0 .. XLEN - 1 /\ s \in Nat /\ Shamt(y) = s
  <2>1. Shamt(y) \in 0 .. XLEN - 1 /\ Shamt(y) = s
    BY ShamtType DEF Shamt
  <2> HIDE DEF s
  <2> QED
    BY <2>1, WordSize
<1>2. /\ Execute("SLL", x, y) = UWord(x * Pow2[s])
      /\ Execute("SRL", x, y) = x \div Pow2[s]
      /\ Execute("SRA", x, y) = UWord(SWord(x) \div Pow2[s])
  <2> HIDE DEF s
  <2> QED
    BY <1>1 DEF Execute
<1>3. ASSUME NEW c
      PROVE  /\ \A name \in {"sll", "slli"} :
                  Means(name, x, y, c) <=> Bits(c) = Shift(Bits(x), s) \cap 0 .. XLEN - 1
             /\ \A name \in {"srl", "srli"} :
                  Means(name, x, y, c) <=> Shift(Bits(c), s) = Bits(x) \cap s .. XLEN - 1
             /\ \A name \in {"sra", "srai"} :
                  Means(name, x, y, c) <=>
                    \A k \in 0 .. XLEN - 1 :
                      k \in Bits(c) <=> (IF k + s < XLEN THEN k + s ELSE XLEN - 1) \in Bits(x)
  BY DEF Means, BitsAre
<1> HIDE DEF s
<1>4. UWord(x * Pow2[s]) \in UWords /\ UWord(SWord(x) \div Pow2[s]) \in UWords
  <2>1. x \in Int /\ SWord(x) \in Int /\ Pow2[s] \in Nat \ {0}
    BY <1>1, UWordSmall, SWordType, Pow2Pos, WordSize
  <2>2. x * Pow2[s] \in Int /\ SWord(x) \div Pow2[s] \in Int
    <3> DEFINE a == SWord(x)
               d == Pow2[s]
    <3>1. x \in Int /\ a \in Int /\ d \in Nat \ {0}
      BY <2>1
    <3> HIDE DEF a, d
    <3>2. x * d \in Int /\ a \div d \in Int
      BY <3>1, DivMod
    <3> QED
      BY <3>2 DEF a, d
  <2> QED
    BY <2>2, UWordType
<1>5. \A name \in {"sll", "slli"} : Right(name, x, y, Execute("SLL", x, y))
  BY <1>1, <1>2, <1>3, <1>4, SllMeans DEF Right
<1>6. \A name \in {"srl", "srli"} : Right(name, x, y, Execute("SRL", x, y))
  BY <1>1, <1>2, <1>3, SrlMeans DEF Right
<1>7. \A name \in {"sra", "srai"} : Right(name, x, y, Execute("SRA", x, y))
  BY <1>1, <1>2, <1>3, <1>4, SraMeans DEF Right
<1> QED
  BY <1>5, <1>6, <1>7

LEMMA CompareMean ==
  ASSUME NEW x \in UWords, NEW y \in UWords
  PROVE  /\ \A name \in {"slt", "slti"} : Right(name, x, y, Execute("SLT", x, y))
         /\ \A name \in {"sltu", "sltiu"} : Right(name, x, y, Execute("SLTU", x, y))
<1>1. 0 \in UWords /\ 1 \in UWords
  BY WordSize DEF UWords
<1>2. Execute("SLT", x, y) = Compare(SWord(x) < SWord(y)) /\ Execute("SLTU", x, y) = Compare(x < y)
  BY DEF Execute
<1>3. Execute("SLT", x, y) \in UWords /\ Execute("SLTU", x, y) \in UWords
  BY <1>1, <1>2 DEF Compare
<1> QED
  BY <1>2, <1>3 DEF Right, Means

LEMMA MultiplyMean ==
  ASSUME NEW x \in UWords, NEW y \in UWords
  PROVE  /\ Right("mul", x, y, Execute("MUL", x, y))
         /\ Right("mulh", x, y, Execute("MULH", x, y))
         /\ Right("mulhsu", x, y, Execute("MULHSU", x, y))
         /\ Right("mulhu", x, y, Execute("MULHU", x, y))
<1>1. /\ Execute("MUL", x, y) = UWord(x * y)
      /\ Execute("MULH", x, y) = Upper(SWord(x) * SWord(y))
      /\ Execute("MULHSU", x, y) = Upper(SWord(x) * y)
      /\ Execute("MULHU", x, y) = Upper(x * y)
  BY DEF Execute
<1>2. UWord(x * y) \in UWords
  <2>1. x * y \in Int
    BY UWordSmall
  <2> QED
    BY <2>1, UWordType
<1>3. ASSUME NEW c
      PROVE  /\ Means("mul", x, y, c) <=> \E h \in UWords : h * Pow2[XLEN] + c = x * y
             /\ Means("mulhu", x, y, c) <=> \E l \in UWords : c * Pow2[XLEN] + l = x * y
             /\ Means("mulh", x, y, c) <=>
                  \E l \in UWords : SWord(c) * Pow2[XLEN] + l = SWord(x) * SWord(y)
             /\ Means("mulhsu", x, y, c) <=>
                  \E l \in UWords : SWord(c) * Pow2[XLEN] + l = SWord(x) * y
  BY DEF Means
<1>4. Right("mul", x, y, Execute("MUL", x, y)) /\ Right("mulhu", x, y, Execute("MULHU", x, y))
  BY <1>1, <1>2, <1>3, MulMeans DEF Right
<1>5. Right("mulh", x, y, Execute("MULH", x, y)) /\ Right("mulhsu", x, y, Execute("MULHSU", x, y))
  BY <1>1, <1>3, MulhMeans DEF Right
<1> QED
  BY <1>4, <1>5

LEMMA DivideMean ==
  ASSUME NEW x \in UWords, NEW y \in UWords
  PROVE  /\ Right("div", x, y, Execute("DIV", x, y))
         /\ Right("divu", x, y, Execute("DIVU", x, y))
         /\ Right("rem", x, y, Execute("REM", x, y))
         /\ Right("remu", x, y, Execute("REMU", x, y))
<1> DEFINE Range == -(Pow2[XLEN]) .. Pow2[XLEN]
           a == SWord(x)
           b == SWord(y)
<1>1. ASSUME NEW c
      PROVE  /\ Means("divu", x, y, c) <=>
                  IF y = 0 THEN c = Pow2[XLEN] - 1 ELSE Divides(c, x - c * y, x, y)
             /\ Means("remu", x, y, c) <=>
                  IF y = 0 THEN c = x ELSE \E q \in UWords : Divides(q, c, x, y)
             /\ Means("div", x, y, c) <=>
                  IF y = 0 THEN SWord(c) = -1
                  ELSE \E q \in Range : UWord(q) = c /\ Divides(q, a - q * b, a, b)
             /\ Means("rem", x, y, c) <=>
                  IF y = 0 THEN c = x ELSE \E q \in Range : Divides(q, SWord(c), a, b)
  BY DEF Means
<1>2. CASE y = 0
  <2>1. /\ Execute("DIV", x, y) = Pow2[XLEN] - 1 /\ Execute("DIVU", x, y) = Pow2[XLEN] - 1
        /\ Execute("REM", x, y) = x /\ Execute("REMU", x, y) = x
    BY <1>2 DEF Execute
  <2> HIDE DEF Range, a, b
  <2> QED
    BY <1>1, <1>2, <2>1, ByZeroMeans DEF Right
<1>3. CASE y # 0 /\ Overflows(x, y)
  <2>1. /\ Execute("DIV", x, y) = UWord(SWordMin) /\ Execute("DIVU", x, y) = x \div y
        /\ Execute("REM", x, y) = 0 /\ Execute("REMU", x, y) = x % y
    BY <1>3 DEF Execute
  <2>2. y \in UWords \ {0}
    BY <1>3
  <2>3. /\ Pow2[XLEN - 1] \in Range /\ UWord(Pow2[XLEN - 1]) = UWord(SWordMin)
        /\ UWord(SWordMin) \in UWords /\ 0 \in UWords /\ SWord(0) = 0
        /\ Divides(Pow2[XLEN - 1], a - Pow2[XLEN - 1] * b, a, b)
        /\ Divides(Pow2[XLEN - 1], 0, a, b)
    BY <1>3, <2>2, OverflowMeans
  <2>4. /\ x \div y \in UWords /\ x % y \in UWords
        /\ Divides(x \div y, x - (x \div y) * y, x, y)
        /\ Divides(x \div y, x % y, x, y)
    BY <2>2, DivuMeans
  <2> HIDE DEF Range, a, b
  <2> QED
    BY <1>1, <1>3, <2>1, <2>3, <2>4 DEF Right
<1>4. CASE y # 0 /\ ~ Overflows(x, y)
  <2> DEFINE q == Quotient(a, b)
             r == Remainder(a, b)
  <2>1. /\ Execute("DIV", x, y) = UWord(q) /\ Execute("DIVU", x, y) = x \div y
        /\ Execute("REM", x, y) = UWord(r) /\ Execute("REMU", x, y) = x % y
    BY <1>4 DEF Execute
  <2>2. y \in UWords \ {0}
    BY <1>4
  <2>3. /\ q \in Range /\ UWord(q) \in UWords /\ UWord(r) \in UWords /\ SWord(UWord(r)) = r
        /\ r = a - q * b /\ Divides(q, r, a, b)
    BY <1>4, <2>2, DivMeans
  <2>4. /\ x \div y \in UWords /\ x % y \in UWords
        /\ Divides(x \div y, x - (x \div y) * y, x, y)
        /\ Divides(x \div y, x % y, x, y)
    BY <2>2, DivuMeans
  <2> HIDE DEF Range, a, b, q, r
  <2> QED
    BY <1>1, <1>4, <2>1, <2>3, <2>4 DEF Right
<1> QED
  BY <1>2, <1>3, <1>4

(* Every operation of the ALU gives a word, and the one that each name it   *)
(* serves stands for: arithmetic, bits, shifts, signed and unsigned         *)
(* comparisons, all halves of products, and quotients with their two        *)
(* exceptions.                                                              *)
THEOREM OperationMeans ==
  ASSUME NEW x \in UWords, NEW y \in UWords, NEW p \in OperationOf
  PROVE  Right(p[1], x, y, Execute(p[2], x, y))
<1>1. /\ Execute("ADD", x, y) = UWord(x + y) /\ Execute("SUB", x, y) = UWord(x - y)
      /\ Execute("AND", x, y) = Num(Bits(x) \cap Bits(y))
      /\ Execute("OR", x, y) = Num(Bits(x) \cup Bits(y))
      /\ Execute("XOR", x, y) = Num((Bits(x) \cup Bits(y)) \ (Bits(x) \cap Bits(y)))
  BY DEF Execute
<1>2. /\ \A name \in {"add", "addi"} : Right(name, x, y, Execute("ADD", x, y))
      /\ Right("sub", x, y, Execute("SUB", x, y))
  BY <1>1, AddSubMean DEF Right
<1>3. /\ \A name \in {"and", "andi"} : Right(name, x, y, Execute("AND", x, y))
      /\ \A name \in {"or", "ori"} : Right(name, x, y, Execute("OR", x, y))
      /\ \A name \in {"xor", "xori"} : Right(name, x, y, Execute("XOR", x, y))
  BY <1>1, LogicMean DEF Right
<1> QED
  BY <1>2, <1>3, ShiftMean, CompareMean, MultiplyMean, DivideMean DEF OperationOf

----------------------------------------------------------------------------
(* AMOs, loads and stores.                                                  *)

(* The AMOs that modify what they read.                                     *)
AmoWrites == {"amoadd.w", "amoswap.w", "amoxor.w", "amoor.w", "amoand.w", "amomin.w", "amomax.w",
              "amominu.w", "amomaxu.w"}

(* What executeAMO stores means what the name in funct5 says, for the nine  *)
(* that modify.                                                             *)
LEMMA AmoMeans ==
  ASSUME NEW x \in UWords, NEW y \in UWords, NEW name \in AmoWrites
  PROVE  Means(name, x, y, AmoResult(name, x, y))
<1>1. SWord(x) \in Int /\ SWord(y) \in Int /\ x \in Int /\ y \in Int
  BY UWordSmall, SWordType, WordSize
<1>2. CASE name = "amoadd.w"
  BY <1>2, AddSubMean DEF AmoResult
<1>3. CASE name \in {"amoxor.w", "amoor.w", "amoand.w"}
  <2>1. /\ Execute("AND", x, y) = Num(Bits(x) \cap Bits(y))
        /\ Execute("OR", x, y) = Num(Bits(x) \cup Bits(y))
        /\ Execute("XOR", x, y) = Num((Bits(x) \cup Bits(y)) \ (Bits(x) \cap Bits(y)))
    BY DEF Execute
  <2>2. /\ AmoResult("amoxor.w", x, y) = Execute("XOR", x, y)
        /\ AmoResult("amoor.w", x, y) = Execute("OR", x, y)
        /\ AmoResult("amoand.w", x, y) = Execute("AND", x, y)
    BY DEF AmoResult
  <2> QED
    BY <1>3, <2>1, <2>2, LogicMean
<1>4. CASE name = "amoswap.w"
  BY <1>4 DEF AmoResult, Means
<1>5. CASE name \in {"amomin.w", "amomax.w"}
  <2>1. /\ AmoResult("amomin.w", x, y) = IF SWord(x) < SWord(y) THEN x ELSE y
        /\ AmoResult("amomax.w", x, y) = IF SWord(x) > SWord(y) THEN x ELSE y
    BY DEF AmoResult
  <2>2. ASSUME NEW c
        PROVE  /\ Means("amomin.w", x, y, c) <=> c \in {x, y} /\ \A z \in {x, y} : SWord(c) <= SWord(z)
               /\ Means("amomax.w", x, y, c) <=> c \in {x, y} /\ \A z \in {x, y} : SWord(z) <= SWord(c)
    BY DEF Means
  <2> QED
    BY <1>1, <1>5, <2>1, <2>2
<1>6. CASE name \in {"amominu.w", "amomaxu.w"}
  <2>1. /\ AmoResult("amominu.w", x, y) = IF x < y THEN x ELSE y
        /\ AmoResult("amomaxu.w", x, y) = IF x > y THEN x ELSE y
    BY DEF AmoResult
  <2>2. ASSUME NEW c
        PROVE  /\ Means("amominu.w", x, y, c) <=> c \in {x, y} /\ \A z \in {x, y} : c <= z
               /\ Means("amomaxu.w", x, y, c) <=> c \in {x, y} /\ \A z \in {x, y} : z <= c
    BY DEF Means
  <2> QED
    BY <1>1, <1>6, <2>1, <2>2
<1> QED
  BY <1>2, <1>3, <1>4, <1>5, <1>6 DEF AmoWrites

(* A negative number above -2^k has bit k: the sign goes on to the left.    *)
LEMMA BitOfNegative ==
  ASSUME NEW k \in Nat, NEW a \in -Pow2[k] .. -1
  PROVE  Bit(a, k)
<1> DEFINE d == Pow2[k]
<1>1. d \in Nat \ {0} /\ a \in Int /\ a + d \in 0 .. d - 1 /\ a = d * (-1) + (a + d) /\ -1 \in Int
  BY Pow2Pos
<1>2. a \div d = -1
  <2> HIDE DEF d
  <2> QED
    BY <1>1, DivUnique
<1>3. (-1) % 2 = 1
  BY DivUnique, -1 = 2 * (-1) + 1, -1 \in Int, 1 \in 0 .. 2 - 1, 2 \in Nat \ {0}
<1> QED
  BY <1>2, <1>3 DEF Bit

(* The n bits of a cell from a position on, without and with their sign:    *)
(* what a load returns.                                                     *)
LEMMA LoadedBits ==
  ASSUME NEW cell \in UWords, NEW from \in Nat, NEW n \in Nat \ {0}, from + n <= XLEN
  PROVE  LET v == (cell \div Pow2[from]) % Pow2[n] IN
         \A k \in 0 .. XLEN - 1 :
           /\ k \in Bits(v) <=> k < n /\ from + k \in Bits(cell)
           /\ k \in Bits(Extended(v, n)) <=> (IF k < n THEN from + k ELSE from + n - 1) \in Bits(cell)
<1> DEFINE e == cell \div Pow2[from]
           v == e % Pow2[n]
<1>1. XLEN \in Nat /\ cell \in Int /\ Pow2[from] \in Nat \ {0} /\ Pow2[n] \in Nat \ {0}
  BY WordSize, UWordSmall, Pow2Pos
<1>2. e \in Int
  BY <1>1, DivMod
<1>3. v \in 0 .. Pow2[n] - 1 /\ v \in Int
  <2> HIDE DEF e
  <2>1. v \in 0 .. Pow2[n] - 1
    BY <1>1, <1>2, DivMod
  <2> QED
    BY <1>1, <2>1
<1>4. \A k \in 0 .. n - 1 : Bit(v, k) <=> from + k \in Bits(cell)
  <2> TAKE k \in 0 .. n - 1
  <2>1. Bit(v, k) <=> Bit(e, k)
    <3> HIDE DEF e
    <3> QED
      BY <1>2, BitOfMod
  <2>2. Bit(e, k) <=> Bit(cell, k + from)
    BY <1>1, BitOfDiv
  <2>3. k + from = from + k /\ from + k \in 0 .. XLEN - 1
    BY <1>1
  <2> QED
    BY <2>1, <2>2, <2>3, BitsOf
<1>5. \A k \in Nat : k >= n => ~ Bit(v, k)
  BY <1>3, BitBeyond
<1>6. n - 1 \in Nat /\ n - 1 \in 0 .. n - 1 /\ (n - 1) + 1 = n /\ from + (n - 1) = from + n - 1
  OBVIOUS
<1>7. Bit(v, n - 1) <=> v >= Pow2[n - 1]
  <2> HIDE DEF v
  <2> QED
    BY <1>3, <1>6, TopBit
<1> HIDE DEF v, e
<1>8. ASSUME NEW k \in 0 .. XLEN - 1
      PROVE  k \in Bits(Extended(v, n)) <=> (IF k < n THEN from + k ELSE from + n - 1) \in Bits(cell)
  <2>1. CASE v < Pow2[n - 1]
    <3>1. Extended(v, n) = UWord(v) /\ from + n - 1 \notin Bits(cell)
      BY <1>3, <1>4, <1>6, <1>7, <2>1, Pow2Pos DEF Extended
    <3>2. k \in Bits(Extended(v, n)) <=> Bit(v, k)
      BY <1>3, <3>1, BitsOfUWord
    <3> QED
      BY <1>1, <1>4, <1>5, <3>1, <3>2
  <2>2. CASE v >= Pow2[n - 1]
    <3>1. Extended(v, n) = UWord(v - Pow2[n]) /\ v - Pow2[n] \in Int
      BY <1>1, <1>3, <1>6, <2>2, Pow2Pos DEF Extended
    <3>2. k \in Bits(Extended(v, n)) <=> Bit(v - Pow2[n], k)
      BY <3>1, BitsOfUWord
    <3>3. CASE k < n
      <4>1. v - Pow2[n] = v + Pow2[n] * (-1) /\ -1 \in Int
        BY <1>1, <1>3
      <4>2. (v - Pow2[n]) % Pow2[n] = v
        <5> DEFINE d == Pow2[n]
        <5>1. d \in Nat \ {0} /\ v \in Int /\ v \in 0 .. d - 1 /\ v - d = v + d * (-1) /\ -1 \in Int
          BY <1>1, <1>3, <4>1
        <5> HIDE DEF d
        <5>2. (v + d * (-1)) % d = v % d /\ v % d = v
          BY <5>1, AddMultiple, ModSmall
        <5> QED
          BY <5>1, <5>2 DEF d
      <4>3. Bit(v - Pow2[n], k) <=> Bit(v, k)
        <5> DEFINE u == v - Pow2[n]
        <5>1. u \in Int /\ u % Pow2[n] = v /\ k \in 0 .. n - 1 /\ n \in Nat
          BY <3>1, <3>3, <4>2
        <5> HIDE DEF u
        <5>2. Bit(u, k) <=> Bit(v, k)
          BY <5>1, BitOfMod
        <5> QED
          BY <5>2 DEF u
      <4> QED
        BY <1>4, <3>2, <3>3, <4>3
    <3>4. CASE k >= n
      <4>1. k \in Nat /\ Pow2[n] <= Pow2[k] /\ Pow2[k] \in Nat
        BY <1>1, <3>4, Pow2Mono, Pow2Pos
      <4>2. v - Pow2[n] \in -Pow2[k] .. -1
        BY <1>1, <1>3, <4>1
      <4>3. Bit(v - Pow2[n], k)
        BY <4>1, <4>2, BitOfNegative
      <4>4. from + n - 1 \in Bits(cell)
        BY <1>4, <1>6, <1>7, <2>2
      <4> QED
        BY <3>2, <3>4, <4>3, <4>4
    <3> QED
      BY <1>1, <3>3, <3>4
  <2> QED
    BY <1>3, <1>6, <2>1, <2>2, Pow2Pos
<1>9. ASSUME NEW k \in 0 .. XLEN - 1
      PROVE  k \in Bits(v) <=> k < n /\ from + k \in Bits(cell)
  BY <1>1, <1>4, <1>5, BitsOf
<1> QED
  BY <1>8, <1>9 DEF v, e

(* The cell after a store: n new bits at the position, the others as they   *)
(* were.                                                                    *)
LEMMA StoredBits ==
  ASSUME NEW cell \in UWords, NEW b \in UWords, NEW from \in Nat, NEW n \in Nat \ {0}, from + n <= XLEN
  PROVE  LET new == cell - ((cell \div Pow2[from]) % Pow2[n]) * Pow2[from] + (b % Pow2[n]) * Pow2[from] IN
         \A k \in 0 .. XLEN - 1 :
           k \in Bits(new) <=> IF k \in from .. from + n - 1 THEN k - from \in Bits(b) ELSE k \in Bits(cell)
<1> DEFINE p   == Pow2[from]
           d   == Pow2[n]
           e   == cell \div p
           h   == e \div d
           mid == e % d
           c   == b % d
           new == cell - mid * p + c * p
<1>1. /\ XLEN \in Nat /\ cell \in Int /\ b \in Int /\ p \in Nat \ {0} /\ d \in Nat \ {0}
      /\ (b % d) = c
  BY WordSize, UWordSmall, Pow2Pos
<1>2. e \in Int
  <2> HIDE DEF p
  <2> QED
    BY <1>1, DivMod
<1>3. h \in Int /\ mid \in 0 .. d - 1 /\ e = d * h + mid
  <2> HIDE DEF e, d
  <2> QED
    BY <1>1, <1>2, DivMod
<1>4. c \in 0 .. d - 1
  <2> HIDE DEF d
  <2> QED
    BY <1>1, DivMod
<1> HIDE DEF h, mid, c
<1>5. new = cell + p * (c - mid) /\ c - mid \in Int /\ new \in Int
  BY <1>1, <1>3, <1>4
<1> HIDE DEF new
<1>6. new \div p = e + (c - mid) /\ new % p = cell % p
  <2> HIDE DEF p
  <2> QED
    BY <1>1, <1>5, AddMultiple
<1>7. e + (c - mid) = d * h + c
  BY <1>1, <1>2, <1>3, <1>4
<1> HIDE DEF e, p, d
<1>8. (new \div p) % d = c /\ (new \div p) \div d = h
  <2>1. (d * h + c) \div d = h /\ (d * h + c) % d = c
    BY <1>1, <1>3, <1>4, DivUnique
  <2> QED
    BY <1>6, <1>7, <2>1
<1>9. new \div p \in Int
  BY <1>2, <1>3, <1>4, <1>6, <1>1
<1>10. ASSUME NEW k \in 0 .. XLEN - 1
       PROVE  Bit(new, k) <=> IF k \in from .. from + n - 1 THEN k - from \in Bits(b) ELSE k \in Bits(cell)
  <2>1. CASE k < from
    <3>1. k \in 0 .. from - 1
      BY <2>1
    <3>2. /\ Bit(new % p, k) <=> Bit(new, k)
          /\ Bit(cell % p, k) <=> Bit(cell, k)
      BY <1>1, <1>5, <3>1, BitOfMod DEF p
    <3> QED
      BY <1>6, <2>1, <3>2, BitsOf
  <2>2. CASE k >= from
    <3> DEFINE j == k - from
    <3>1. j \in Nat /\ k = j + from
      BY <2>2
    <3> HIDE DEF j
    <3>2. /\ Bit(new \div p, j) <=> Bit(new, k)
          /\ Bit(e, j) <=> Bit(cell, k)
      BY <1>1, <1>5, <3>1, BitOfDiv DEF p, e
    <3>3. CASE j < n
      <4>1. j \in 0 .. n - 1 /\ j \in 0 .. XLEN - 1
        BY <1>1, <3>1, <3>3
      <4>2. /\ Bit((new \div p) % d, j) <=> Bit(new \div p, j)
            /\ Bit(b % d, j) <=> Bit(b, j)
        BY <1>1, <1>9, <4>1, BitOfMod DEF d
      <4>3. k \in from .. from + n - 1 /\ k - from = j
        BY <3>1, <3>3
      <4> QED
        BY <1>1, <1>8, <3>2, <4>1, <4>2, <4>3, BitsOf
    <3>4. CASE j >= n
      <4>1. j - n \in Nat /\ j = (j - n) + n
        BY <3>1, <3>4
      <4>2. /\ Bit((new \div p) \div d, j - n) <=> Bit(new \div p, j)
            /\ Bit(e \div d, j - n) <=> Bit(e, j)
        BY <1>2, <1>9, <4>1, BitOfDiv DEF d
      <4>3. k \notin from .. from + n - 1
        BY <3>1, <3>4
      <4> QED
        BY <1>8, <3>2, <4>2, <4>3, BitsOf DEF h
    <3> QED
      BY <3>1, <3>3, <3>4
  <2> QED
    BY <2>1, <2>2
<1>11. \A k \in 0 .. XLEN - 1 :
         k \in Bits(new) <=> IF k \in from .. from + n - 1 THEN k - from \in Bits(b) ELSE k \in Bits(cell)
  BY <1>10, BitsOf
<1> QED
  BY <1>11 DEF new, mid, c, e, p, d

----------------------------------------------------------------------------
(* Encoder and decoder.                                                     *)

(* The codes of funct3.                                                     *)
LEMMA Functions3 ==
  /\ F3(0) = {} /\ F3(1) = {0} /\ F3(2) = {1} /\ F3(3) = {0, 1} /\ F3(4) = {2} /\ F3(5) = {0, 2}
  /\ F3(6) = {1, 2} /\ F3(7) = {0, 1, 2}
<1>1. Pow2[0] = 1 /\ Pow2[1] = 2 /\ Pow2[2] = 4
  <2>1. Pow2[0 + 1] = 2 * Pow2[0] /\ Pow2[1 + 1] = 2 * Pow2[1] /\ Pow2[0] = 1
    BY Pow2Step, 0 \in Nat, 1 \in Nat
  <2> QED
    BY <2>1
<1>2. \A n \in Nat : /\ F3(n) \subseteq 0 .. 2
                     /\ 0 \in F3(n) <=> n % 2 = 1
                     /\ 1 \in F3(n) <=> (n \div 2) % 2 = 1
                     /\ 2 \in F3(n) <=> (n \div 4) % 2 = 1
  <2>1. \A n \in Nat : n \div 1 = n
    OBVIOUS
  <2> QED
    BY <1>1, <2>1 DEF F3
<1>3. F3(0) = {} /\ F3(1) = {0} /\ F3(2) = {1} /\ F3(3) = {0, 1}
  BY <1>2
<1>4. F3(4) = {2} /\ F3(5) = {0, 2} /\ F3(6) = {1, 2} /\ F3(7) = {0, 1, 2}
  BY <1>2
<1> QED
  BY <1>3, <1>4

(* The code of a row of a table finds the row again.                        *)
LEMMA NumOfFunct3 == ASSUME NEW n \in 1 .. 8 PROVE Num(F3(n - 1)) + 1 = n
<1> DEFINE a == n - 1
<1>1. a \in 0 .. 7 /\ a \in Nat
  OBVIOUS
<1>2. Pow2[3] = 8 /\ Pow2[3] <= Pow2[XLEN] /\ 3 \in Nat
  <2>1. Pow2[0] = 1 /\ Pow2[0 + 1] = 2 * Pow2[0] /\ Pow2[1 + 1] = 2 * Pow2[1] /\ Pow2[2 + 1] = 2 * Pow2[2]
    BY Pow2Step, 0 \in Nat, 1 \in Nat, 2 \in Nat
  <2>2. 3 \in Nat /\ XLEN \in Nat /\ 3 <= XLEN
    BY WordSize
  <2> QED
    BY <2>1, <2>2, Pow2Mono
<1>3. a \in UWords /\ a \in 0 .. Pow2[3] - 1
  BY <1>1, <1>2, WordSize DEF UWords
<1>4. Bits(a) = F3(a)
  <2>1. ASSUME NEW k \in 0 .. XLEN - 1 PROVE k \in Bits(a) <=> k \in F3(a)
    <3>1. CASE k <= 2
      BY <3>1, BitsOf DEF Bit, F3
    <3>2. CASE k >= 3
      <4>1. ~ Bit(a, k)
        BY <1>2, <1>3, <3>2, BitBeyond
      <4> QED
        BY <3>2, <4>1, BitsOf DEF F3
    <3> QED
      BY <3>1, <3>2
  <2>2. F3(a) \subseteq 0 .. XLEN - 1
    BY WordSize DEF F3
  <2> HIDE DEF a
  <2> QED
    BY <2>1, <2>2, BitsOf
<1>5. Num(F3(a)) = a
  BY <1>3, <1>4, NumOfBits
<1> QED
  BY <1>5

(* Membership in a field that is extracted, moved or sign-extended.         *)
LEMMA InExtract ==
  ASSUME NEW w \in SUBSET Int, NEW hi \in Int, NEW lo \in Int
  PROVE  /\ Extract(w, hi, lo) \subseteq 0 .. hi - lo
         /\ \A k \in Int : k \in Extract(w, hi, lo) <=> k + lo \in w /\ 0 <= k /\ k + lo <= hi
<1>1. Extract(w, hi, lo) \subseteq 0 .. hi - lo
  BY DEF Extract
<1>2. ASSUME NEW k \in Int PROVE k \in Extract(w, hi, lo) <=> k + lo \in w /\ 0 <= k /\ k + lo <= hi
  <2>1. ASSUME k + lo \in w, 0 <= k, k + lo <= hi PROVE k \in Extract(w, hi, lo)
    <3>1. k + lo \in w \cap lo .. hi /\ (k + lo) - lo = k
      BY <2>1
    <3> QED
      BY <3>1 DEF Extract
  <2>2. ASSUME k \in Extract(w, hi, lo) PROVE k + lo \in w /\ 0 <= k /\ k + lo <= hi
    BY <2>2 DEF Extract
  <2> QED
    BY <2>1, <2>2
<1> QED
  BY <1>1, <1>2

LEMMA InShift ==
  ASSUME NEW v \in SUBSET Int, NEW n \in Int
  PROVE  /\ Shift(v, n) \subseteq Int
         /\ \A k \in Int : k \in Shift(v, n) <=> k - n \in v
<1>1. ASSUME NEW k \in Int, k - n \in v PROVE k \in Shift(v, n)
  <2>1. k = (k - n) + n
    OBVIOUS
  <2> QED
    BY <1>1, <2>1 DEF Shift
<1>2. ASSUME NEW k \in Int, k \in Shift(v, n) PROVE k - n \in v
  BY <1>2 DEF Shift
<1>3. Shift(v, n) \subseteq Int
  BY DEF Shift
<1> QED
  BY <1>1, <1>2, <1>3

LEMMA InSignExtend ==
  ASSUME NEW v \in SUBSET Int, NEW n \in Int
  PROVE  /\ SignExtend(v, n) \subseteq Int
         /\ \A k \in Int : k \in SignExtend(v, n) <=> k \in v \/ (n - 1 \in v /\ n <= k /\ k <= 31)
  BY DEF SignExtend

(* The shape of an instruction that is built: the fields of its format have *)
(* their widths and the others are empty, the immediate is a sign-extended  *)
(* one of the format.                                                       *)
FormatsOf ==
  [LOAD |-> {"I"}, MISC_MEM |-> {"I"}, OP_IMM |-> {"R", "I"}, AUIPC |-> {"U"}, STORE |-> {"S"}, AMO |-> {"R"},
   OP |-> {"R"}, LUI |-> {"U"}, BRANCH |-> {"B"}, JALR |-> {"I"}, JAL |-> {"J"}, SYSTEM |-> {"I"}]

(* The immediates of a format.                                              *)
ImmShape(format, imm) ==
  /\ imm \subseteq 0 .. 31
  /\ format = "R" => imm = {}
  /\ format \in {"I", "S"} => \A k \in 12 .. 31 : k \in imm <=> 11 \in imm
  /\ format = "B" => 0 \notin imm /\ \A k \in 13 .. 31 : k \in imm <=> 12 \in imm
  /\ format = "U" => imm \subseteq 12 .. 31
  /\ format = "J" => 0 \notin imm /\ \A k \in 21 .. 31 : k \in imm <=> 20 \in imm

Shape(i) ==
  /\ i.opcode \in DOMAIN OpcodeBits /\ i.format \in FormatsOf[i.opcode]
  /\ i.funct7 \subseteq 0 .. 6 /\ i.funct3 \subseteq 0 .. 2
  /\ i.rd \subseteq 0 .. 4 /\ i.rs1 \subseteq 0 .. 4 /\ i.rs2 \subseteq 0 .. 4
  /\ i.format # "R" => i.funct7 = {}
  /\ i.format \in {"U", "J"} => i.funct3 = {} /\ i.rs1 = {}
  /\ i.format \in {"I", "U", "J"} => i.rs2 = {}
  /\ i.format \in {"S", "B"} => i.rd = {}
  /\ ImmShape(i.format, i.imm)

(* Opcodes have seven bits, and no two the same.                            *)
LEMMA OpcodeBitsType == \A o \in DOMAIN OpcodeBits : OpcodeBits[o] \subseteq 0 .. 6
  BY DEF OpcodeBits

LEMMA OpcodeUnique ==
  ASSUME NEW o \in DOMAIN OpcodeBits, NEW p \in DOMAIN OpcodeBits, OpcodeBits[o] = OpcodeBits[p]
  PROVE  o = p
<1>1. \A k \in 2 .. 6 : k \in OpcodeBits[o] <=> k \in OpcodeBits[p]
  OBVIOUS
<1> QED
  BY <1>1 DEF OpcodeBits

(* A bit of the word is one of a field, at its place.                       *)
LEMMA InBuild ==
  ASSUME NEW i, Shape(i), NEW imm \in SUBSET Int, BuildImm(i) = imm
  PROVE  /\ Build(i) \subseteq Int
         /\ \A k \in Int :
              k \in Build(i) <=>
                \/ k - 25 \in i.funct7 \/ k - 20 \in i.rs2 \/ k - 15 \in i.rs1 \/ k - 12 \in i.funct3
                \/ k - 7 \in i.rd \/ k \in OpcodeBits[i.opcode] \/ k \in imm
<1>1. /\ i.funct7 \in SUBSET Int /\ i.rs2 \in SUBSET Int /\ i.rs1 \in SUBSET Int /\ i.funct3 \in SUBSET Int
      /\ i.rd \in SUBSET Int /\ OpcodeBits[i.opcode] \in SUBSET Int
  BY OpcodeBitsType DEF Shape
<1>2. \A k : k \in Build(i) <=>
        \/ k \in Shift(i.funct7, 25) \/ k \in Shift(i.rs2, 20) \/ k \in Shift(i.rs1, 15)
        \/ k \in Shift(i.funct3, 12) \/ k \in Shift(i.rd, 7) \/ k \in OpcodeBits[i.opcode] \/ k \in imm
  BY DEF Build
<1>3. /\ Shift(i.funct7, 25) \subseteq Int /\ Shift(i.rs2, 20) \subseteq Int /\ Shift(i.rs1, 15) \subseteq Int
      /\ Shift(i.funct3, 12) \subseteq Int /\ Shift(i.rd, 7) \subseteq Int
      /\ \A k \in Int : /\ k \in Shift(i.funct7, 25) <=> k - 25 \in i.funct7
                        /\ k \in Shift(i.rs2, 20) <=> k - 20 \in i.rs2
                        /\ k \in Shift(i.rs1, 15) <=> k - 15 \in i.rs1
                        /\ k \in Shift(i.funct3, 12) <=> k - 12 \in i.funct3
                        /\ k \in Shift(i.rd, 7) <=> k - 7 \in i.rd
  BY <1>1, InShift
<1>4. Build(i) \subseteq Int
  BY <1>1, <1>2, <1>3
<1> QED
  BY <1>2, <1>3, <1>4

(* The bits that the immediate of each format takes in a word.              *)
LEMMA InBuildImm ==
  ASSUME NEW imm \in SUBSET Int
  PROVE  /\ BuildImmI(imm) \subseteq Int /\ BuildImmS(imm) \subseteq Int /\ BuildImmB(imm) \subseteq Int
         /\ BuildImmU(imm) \subseteq Int /\ BuildImmJ(imm) \subseteq Int
         /\ \A k \in Int :
              /\ k \in BuildImmI(imm) <=> 20 <= k /\ k <= 31 /\ k - 20 \in imm
              /\ k \in BuildImmS(imm) <=> \/ 25 <= k /\ k <= 31 /\ k - 20 \in imm
                                          \/ 7 <= k /\ k <= 11 /\ k - 7 \in imm
              /\ k \in BuildImmB(imm) <=> \/ k = 31 /\ 12 \in imm
                                          \/ 25 <= k /\ k <= 30 /\ k - 20 \in imm
                                          \/ 8 <= k /\ k <= 11 /\ k - 7 \in imm
                                          \/ k = 7 /\ 11 \in imm
              /\ k \in BuildImmU(imm) <=> 12 <= k /\ k <= 31 /\ k \in imm
              /\ k \in BuildImmJ(imm) <=> \/ k = 31 /\ 20 \in imm
                                          \/ 21 <= k /\ k <= 30 /\ k - 20 \in imm
                                          \/ k = 20 /\ 11 \in imm
                                          \/ 12 <= k /\ k <= 19 /\ k \in imm
<1>1. /\ \A hi, lo, n \in Int : Shift(Extract(imm, hi, lo), n) \subseteq Int
      /\ \A hi, lo, n \in Int : \A k \in Int :
           k \in Shift(Extract(imm, hi, lo), n) <=> k + (lo - n) \in imm /\ n <= k /\ k <= hi + n - lo
  <2> SUFFICES ASSUME NEW hi \in Int, NEW lo \in Int, NEW n \in Int
               PROVE  /\ Shift(Extract(imm, hi, lo), n) \subseteq Int
                      /\ \A k \in Int : k \in Shift(Extract(imm, hi, lo), n) <=>
                                          k + (lo - n) \in imm /\ n <= k /\ k <= hi + n - lo
    OBVIOUS
  <2>1. Extract(imm, hi, lo) \in SUBSET Int
    BY InExtract
  <2>2. \A k \in Int : k \in Shift(Extract(imm, hi, lo), n) <=> k - n \in Extract(imm, hi, lo)
    BY <2>1, InShift
  <2>3. \A j \in Int : j \in Extract(imm, hi, lo) <=> j + lo \in imm /\ 0 <= j /\ j + lo <= hi
    BY InExtract
  <2> QED
    BY <2>1, <2>2, <2>3, InShift
<1>2. BuildImmU(imm) \subseteq Int /\ \A k \in Int : k \in BuildImmU(imm) <=> 12 <= k /\ k <= 31 /\ k \in imm
  BY DEF BuildImmU
<1>3. BuildImmI(imm) \subseteq Int /\ \A k \in Int : k \in BuildImmI(imm) <=> 20 <= k /\ k <= 31 /\ k - 20 \in imm
  BY <1>1 DEF BuildImmI
<1>4. /\ BuildImmS(imm) \subseteq Int
      /\ \A k \in Int :
            k \in BuildImmS(imm) <=> (25 <= k /\ k <= 31 /\ k - 20 \in imm) \/ (7 <= k /\ k <= 11 /\ k - 7 \in imm)
  <2> DEFINE a == Shift(Extract(imm, 11, 5), 25)
             b == Shift(Extract(imm, 4, 0), 7)
  <2>1. a \subseteq Int /\ \A k \in Int : k \in a <=> 25 <= k /\ k <= 31 /\ k - 20 \in imm
    BY <1>1
  <2>2. b \subseteq Int /\ \A k \in Int : k \in b <=> 7 <= k /\ k <= 11 /\ k - 7 \in imm
    BY <1>1
  <2>3. BuildImmS(imm) = a \cup b
    BY DEF BuildImmS
  <2> HIDE DEF a, b
  <2> QED
    BY <2>1, <2>2, <2>3
<1>5. /\ BuildImmB(imm) \subseteq Int
      /\ \A k \in Int : k \in BuildImmB(imm) <=> \/ k = 31 /\ 12 \in imm
                                                 \/ 25 <= k /\ k <= 30 /\ k - 20 \in imm
                                                 \/ 8 <= k /\ k <= 11 /\ k - 7 \in imm
                                                 \/ k = 7 /\ 11 \in imm
  <2> DEFINE a == Shift(Extract(imm, 12, 12), 31)
             b == Shift(Extract(imm, 10, 5), 25)
             c == Shift(Extract(imm, 4, 1), 8)
             d == Shift(Extract(imm, 11, 11), 7)
  <2>1. a \subseteq Int /\ \A k \in Int : k \in a <=> k = 31 /\ 12 \in imm
    BY <1>1
  <2>2. b \subseteq Int /\ \A k \in Int : k \in b <=> 25 <= k /\ k <= 30 /\ k - 20 \in imm
    BY <1>1
  <2>3. c \subseteq Int /\ \A k \in Int : k \in c <=> 8 <= k /\ k <= 11 /\ k - 7 \in imm
    BY <1>1
  <2>4. d \subseteq Int /\ \A k \in Int : k \in d <=> k = 7 /\ 11 \in imm
    BY <1>1
  <2>5. BuildImmB(imm) = a \cup b \cup c \cup d
    BY DEF BuildImmB
  <2> HIDE DEF a, b, c, d
  <2> QED
    BY <2>1, <2>2, <2>3, <2>4, <2>5
<1>6. /\ BuildImmJ(imm) \subseteq Int
      /\ \A k \in Int : k \in BuildImmJ(imm) <=> \/ k = 31 /\ 20 \in imm
                                                 \/ 21 <= k /\ k <= 30 /\ k - 20 \in imm
                                                 \/ k = 20 /\ 11 \in imm
                                                 \/ 12 <= k /\ k <= 19 /\ k \in imm
  <2> DEFINE a == Shift(Extract(imm, 20, 20), 31)
             b == Shift(Extract(imm, 10, 1), 21)
             c == Shift(Extract(imm, 11, 11), 20)
             d == Shift(Extract(imm, 19, 12), 12)
  <2>1. a \subseteq Int /\ \A k \in Int : k \in a <=> k = 31 /\ 20 \in imm
    BY <1>1
  <2>2. b \subseteq Int /\ \A k \in Int : k \in b <=> 21 <= k /\ k <= 30 /\ k - 20 \in imm
    BY <1>1
  <2>3. c \subseteq Int /\ \A k \in Int : k \in c <=> k = 20 /\ 11 \in imm
    BY <1>1
  <2>4. d \subseteq Int /\ \A k \in Int : k \in d <=> 12 <= k /\ k <= 19 /\ k \in imm
    BY <1>1
  <2>5. BuildImmJ(imm) = a \cup b \cup c \cup d
    BY DEF BuildImmJ
  <2> HIDE DEF a, b, c, d
  <2> QED
    BY <2>1, <2>2, <2>3, <2>4, <2>5
<1> QED
  BY <1>2, <1>3, <1>4, <1>5, <1>6

(* A field is read where it was put when no other one reaches there.        *)
LEMMA ReadFields ==
  ASSUME NEW w \in SUBSET Int, NEW v
  PROVE  /\ v \subseteq 0 .. 6 /\ (\A k \in 0 .. 6 : k \in w <=> k - 0 \in v) => Extract(w, 6, 0) = v
         /\ v \subseteq 0 .. 4 /\ (\A k \in 7 .. 11 : k \in w <=> k - 7 \in v) => Extract(w, 11, 7) = v
         /\ v \subseteq 0 .. 2 /\ (\A k \in 12 .. 14 : k \in w <=> k - 12 \in v) => Extract(w, 14, 12) = v
         /\ v \subseteq 0 .. 4 /\ (\A k \in 15 .. 19 : k \in w <=> k - 15 \in v) => Extract(w, 19, 15) = v
         /\ v \subseteq 0 .. 4 /\ (\A k \in 20 .. 24 : k \in w <=> k - 20 \in v) => Extract(w, 24, 20) = v
         /\ v \subseteq 0 .. 6 /\ (\A k \in 25 .. 31 : k \in w <=> k - 25 \in v) => Extract(w, 31, 25) = v
<1>1. v \subseteq 0 .. 6 /\ (\A k \in 0 .. 6 : k \in w <=> k - 0 \in v) => Extract(w, 6, 0) = v
  <2> SUFFICES ASSUME v \subseteq 0 .. 6, \A k \in 0 .. 6 : k \in w <=> k - 0 \in v
               PROVE  Extract(w, 6, 0) = v
    OBVIOUS
  <2>1. \A j \in 0 .. 6 : j + 0 \in 0 .. 6 /\ (j + 0) - 0 = j
    OBVIOUS
  <2> QED
    BY <2>1 DEF Extract
<1>2. v \subseteq 0 .. 4 /\ (\A k \in 7 .. 11 : k \in w <=> k - 7 \in v) => Extract(w, 11, 7) = v
  <2> SUFFICES ASSUME v \subseteq 0 .. 4, \A k \in 7 .. 11 : k \in w <=> k - 7 \in v
               PROVE  Extract(w, 11, 7) = v
    OBVIOUS
  <2>1. \A j \in 0 .. 4 : j + 7 \in 7 .. 11 /\ (j + 7) - 7 = j
    OBVIOUS
  <2> QED
    BY <2>1 DEF Extract
<1>3. v \subseteq 0 .. 2 /\ (\A k \in 12 .. 14 : k \in w <=> k - 12 \in v) => Extract(w, 14, 12) = v
  <2> SUFFICES ASSUME v \subseteq 0 .. 2, \A k \in 12 .. 14 : k \in w <=> k - 12 \in v
               PROVE  Extract(w, 14, 12) = v
    OBVIOUS
  <2>1. \A j \in 0 .. 2 : j + 12 \in 12 .. 14 /\ (j + 12) - 12 = j
    OBVIOUS
  <2> QED
    BY <2>1 DEF Extract
<1>4. v \subseteq 0 .. 4 /\ (\A k \in 15 .. 19 : k \in w <=> k - 15 \in v) => Extract(w, 19, 15) = v
  <2> SUFFICES ASSUME v \subseteq 0 .. 4, \A k \in 15 .. 19 : k \in w <=> k - 15 \in v
               PROVE  Extract(w, 19, 15) = v
    OBVIOUS
  <2>1. \A j \in 0 .. 4 : j + 15 \in 15 .. 19 /\ (j + 15) - 15 = j
    OBVIOUS
  <2> QED
    BY <2>1 DEF Extract
<1>5. v \subseteq 0 .. 4 /\ (\A k \in 20 .. 24 : k \in w <=> k - 20 \in v) => Extract(w, 24, 20) = v
  <2> SUFFICES ASSUME v \subseteq 0 .. 4, \A k \in 20 .. 24 : k \in w <=> k - 20 \in v
               PROVE  Extract(w, 24, 20) = v
    OBVIOUS
  <2>1. \A j \in 0 .. 4 : j + 20 \in 20 .. 24 /\ (j + 20) - 20 = j
    OBVIOUS
  <2> QED
    BY <2>1 DEF Extract
<1>6. v \subseteq 0 .. 6 /\ (\A k \in 25 .. 31 : k \in w <=> k - 25 \in v) => Extract(w, 31, 25) = v
  <2> SUFFICES ASSUME v \subseteq 0 .. 6, \A k \in 25 .. 31 : k \in w <=> k - 25 \in v
               PROVE  Extract(w, 31, 25) = v
    OBVIOUS
  <2>1. \A j \in 0 .. 6 : j + 25 \in 25 .. 31 /\ (j + 25) - 25 = j
    OBVIOUS
  <2> QED
    BY <2>1 DEF Extract
<1> QED
  BY <1>1, <1>2, <1>3, <1>4, <1>5, <1>6

LEMMA BuiltImmType ==
  ASSUME NEW i, Shape(i)
  PROVE  BuildImm(i) \in SUBSET Int /\ i.imm \in SUBSET Int
<1>1. i.imm \in SUBSET Int
  BY DEF Shape, ImmShape
<1>2. i.format \in {"R", "I", "S", "B", "U", "J"}
  BY DEF Shape, FormatsOf, OpcodeBits
<1> QED
  BY <1>1, <1>2, InBuildImm DEF BuildImm

(* The opcode is read back, and the fields of the format.                   *)
LEMMA FieldsRead ==
  ASSUME NEW i, Shape(i)
  PROVE  LET w == Build(i) IN
         /\ w \in SUBSET Int /\ OpcodeOf(w) = i.opcode
         /\ i.format \notin {"S", "B"} => Extract(w, 11, 7) = i.rd
         /\ i.format \notin {"U", "J"} => Extract(w, 14, 12) = i.funct3 /\ Extract(w, 19, 15) = i.rs1
         /\ i.format \in {"R", "S", "B"} => Extract(w, 24, 20) = i.rs2
         /\ i.format = "R" => Extract(w, 31, 25) = i.funct7
<1> DEFINE w == Build(i)
           imm == BuildImm(i)
<1>1. imm \in SUBSET Int /\ i.imm \in SUBSET Int
  BY BuiltImmType
<1>2. /\ w \in SUBSET Int
      /\ \A k \in Int :
              k \in w <=>
                \/ k - 25 \in i.funct7 \/ k - 20 \in i.rs2 \/ k - 15 \in i.rs1 \/ k - 12 \in i.funct3
                \/ k - 7 \in i.rd \/ k \in OpcodeBits[i.opcode] \/ k \in imm
  BY <1>1, InBuild
<1>3. /\ i.funct7 \subseteq 0 .. 6 /\ i.funct3 \subseteq 0 .. 2
      /\ i.rd \subseteq 0 .. 4 /\ i.rs1 \subseteq 0 .. 4 /\ i.rs2 \subseteq 0 .. 4
      /\ i.format # "R" => i.funct7 = {}
      /\ i.format \in {"U", "J"} => i.funct3 = {} /\ i.rs1 = {}
      /\ i.format \in {"I", "U", "J"} => i.rs2 = {}
      /\ i.format \in {"S", "B"} => i.rd = {}
      /\ i.format \in {"R", "I", "S", "B", "U", "J"}
      /\ i.opcode \in DOMAIN OpcodeBits /\ OpcodeBits[i.opcode] \subseteq 0 .. 6
  BY OpcodeBitsType DEF Shape, FormatsOf, OpcodeBits
<1>4. \A k \in Int : k \in imm => /\ 7 <= k /\ k <= 31 /\ i.format # "R"
                                  /\ i.format = "I" => k >= 20
                                  /\ i.format \in {"S", "B"} => k <= 11 \/ 25 <= k
                                  /\ i.format \in {"U", "J"} => k >= 12
  <2>1. i.imm \in SUBSET Int
    BY <1>1
  <2>2. CASE i.format = "R"
    BY <2>2 DEF BuildImm
  <2>3. CASE i.format = "I"
    BY <2>1, <2>3, InBuildImm DEF BuildImm
  <2>4. CASE i.format = "S"
    BY <2>1, <2>4, InBuildImm DEF BuildImm
  <2>5. CASE i.format = "B"
    BY <2>1, <2>5, InBuildImm DEF BuildImm
  <2>6. CASE i.format = "U"
    BY <2>1, <2>6, InBuildImm DEF BuildImm
  <2>7. CASE i.format = "J"
    BY <2>1, <2>7, InBuildImm DEF BuildImm
  <2> QED
    BY <1>3, <2>2, <2>3, <2>4, <2>5, <2>6, <2>7
<1> HIDE DEF w, imm
<1>5. OpcodeOf(w) = i.opcode
  <2>1. \A k \in 0 .. 6 : k \in w <=> k - 0 \in OpcodeBits[i.opcode]
    BY <1>2, <1>3, <1>4
  <2>2. Extract(w, 6, 0) = OpcodeBits[i.opcode]
    <3>1. w \in SUBSET Int /\ OpcodeBits[i.opcode] \subseteq 0 .. 6
      BY <1>2, <1>3
    <3> QED
      BY <2>1, <3>1, ReadFields
  <2>3. \A o \in DOMAIN OpcodeBits : OpcodeBits[o] = Extract(w, 6, 0) => o = i.opcode
    BY <1>3, <2>2, OpcodeUnique
  <2> QED
    BY <1>3, <2>2, <2>3 DEF OpcodeOf
<1>6. i.format \notin {"S", "B"} => Extract(w, 11, 7) = i.rd
  <2> SUFFICES ASSUME i.format \notin {"S", "B"} PROVE Extract(w, 11, 7) = i.rd
    OBVIOUS
  <2>1. \A k \in 7 .. 11 : k \in w <=> k - 7 \in i.rd
    BY <1>2, <1>3, <1>4
  <2>2. w \in SUBSET Int /\ i.rd \subseteq 0 .. 4
    BY <1>2, <1>3
  <2> QED
    BY <2>1, <2>2, ReadFields
<1>7. i.format \notin {"U", "J"} => Extract(w, 14, 12) = i.funct3 /\ Extract(w, 19, 15) = i.rs1
  <2> SUFFICES ASSUME i.format \notin {"U", "J"} PROVE Extract(w, 14, 12) = i.funct3 /\ Extract(w, 19, 15) = i.rs1
    OBVIOUS
  <2>1. \A k \in 12 .. 14 : k \in w <=> k - 12 \in i.funct3
    BY <1>2, <1>3, <1>4
  <2>2. \A k \in 15 .. 19 : k \in w <=> k - 15 \in i.rs1
    BY <1>2, <1>3, <1>4
  <2>3. Extract(w, 14, 12) = i.funct3
    <3>1. w \in SUBSET Int /\ i.funct3 \subseteq 0 .. 2
      BY <1>2, <1>3
    <3> QED
      BY <2>1, <3>1, ReadFields
  <2>4. Extract(w, 19, 15) = i.rs1
    <3>1. w \in SUBSET Int /\ i.rs1 \subseteq 0 .. 4
      BY <1>2, <1>3
    <3> QED
      BY <2>2, <3>1, ReadFields
  <2> QED
    BY <2>3, <2>4
<1>8. i.format \in {"R", "S", "B"} => Extract(w, 24, 20) = i.rs2
  <2> SUFFICES ASSUME i.format \in {"R", "S", "B"} PROVE Extract(w, 24, 20) = i.rs2
    OBVIOUS
  <2>1. \A k \in 20 .. 24 : k \in w <=> k - 20 \in i.rs2
    BY <1>2, <1>3, <1>4
  <2>2. w \in SUBSET Int /\ i.rs2 \subseteq 0 .. 4
    BY <1>2, <1>3
  <2> QED
    BY <2>1, <2>2, ReadFields
<1>9. i.format = "R" => Extract(w, 31, 25) = i.funct7
  <2> SUFFICES ASSUME i.format = "R" PROVE Extract(w, 31, 25) = i.funct7
    OBVIOUS
  <2>1. \A k \in 25 .. 31 : k \in w <=> k - 25 \in i.funct7
    BY <1>2, <1>3, <1>4
  <2>2. w \in SUBSET Int /\ i.funct7 \subseteq 0 .. 6
    BY <1>2, <1>3
  <2> QED
    BY <2>1, <2>2, ReadFields
<1> QED
  BY <1>2, <1>5, <1>6, <1>7, <1>8, <1>9 DEF w

(* The immediate is read back, with its sign.                               *)
LEMMA DecodedImms ==
  ASSUME NEW w \in SUBSET Int
  PROVE  /\ DecodeImmI(w) \subseteq Int /\ DecodeImmS(w) \subseteq Int /\ DecodeImmB(w) \subseteq Int
         /\ DecodeImmU(w) \subseteq Int /\ DecodeImmJ(w) \subseteq Int
         /\ \A k \in Int :
              /\ k \in DecodeImmI(w) <=> (0 <= k /\ k <= 11 /\ k + 20 \in w) \/ (12 <= k /\ k <= 31 /\ 31 \in w)
              /\ k \in DecodeImmS(w) <=> \/ 0 <= k /\ k <= 4 /\ k + 7 \in w
                                         \/ 5 <= k /\ k <= 11 /\ k + 20 \in w
                                         \/ 12 <= k /\ k <= 31 /\ 31 \in w
              /\ k \in DecodeImmB(w) <=> \/ 1 <= k /\ k <= 4 /\ k + 7 \in w
                                         \/ 5 <= k /\ k <= 10 /\ k + 20 \in w
                                         \/ k = 11 /\ 7 \in w
                                         \/ 12 <= k /\ k <= 31 /\ 31 \in w
              /\ k \in DecodeImmU(w) <=> 12 <= k /\ k <= 31 /\ k \in w
              /\ k \in DecodeImmJ(w) <=> \/ 1 <= k /\ k <= 10 /\ k + 20 \in w
                                         \/ k = 11 /\ 20 \in w
                                         \/ 12 <= k /\ k <= 19 /\ k \in w
                                         \/ 20 <= k /\ k <= 31 /\ 31 \in w
<1>1. /\ \A hi, lo \in Int : Extract(w, hi, lo) \in SUBSET Int
      /\ \A hi, lo \in Int : \A k \in Int :
           k \in Extract(w, hi, lo) <=> k + lo \in w /\ 0 <= k /\ k <= hi - lo
      /\ \A hi, lo, n \in Int : Shift(Extract(w, hi, lo), n) \in SUBSET Int
      /\ \A hi, lo, n \in Int : \A k \in Int :
           k \in Shift(Extract(w, hi, lo), n) <=> k + (lo - n) \in w /\ n <= k /\ k <= hi + n - lo
  <2> SUFFICES ASSUME NEW hi \in Int, NEW lo \in Int
               PROVE  /\ Extract(w, hi, lo) \in SUBSET Int
                      /\ \A k \in Int : k \in Extract(w, hi, lo) <=> k + lo \in w /\ 0 <= k /\ k <= hi - lo
                      /\ \A n \in Int : Shift(Extract(w, hi, lo), n) \in SUBSET Int
                      /\ \A n \in Int : \A k \in Int :
                           k \in Shift(Extract(w, hi, lo), n) <=> k + (lo - n) \in w /\ n <= k /\ k <= hi + n - lo
    OBVIOUS
  <2>1. Extract(w, hi, lo) \in SUBSET Int
    BY InExtract
  <2>2. \A j \in Int : j \in Extract(w, hi, lo) <=> j + lo \in w /\ 0 <= j /\ j + lo <= hi
    BY InExtract
  <2>3. ASSUME NEW n \in Int
        PROVE  /\ Shift(Extract(w, hi, lo), n) \in SUBSET Int
               /\ \A k \in Int : k \in Shift(Extract(w, hi, lo), n) <=>
                                      k + (lo - n) \in w /\ n <= k /\ k <= hi + n - lo
    <3>1. \A k \in Int : k \in Shift(Extract(w, hi, lo), n) <=> k - n \in Extract(w, hi, lo)
      BY <2>1, InShift
    <3> QED
      BY <2>1, <2>2, <3>1, InShift
  <2> QED
    BY <2>1, <2>2, <2>3
<1>2. DecodeImmU(w) \subseteq Int /\ \A k \in Int : k \in DecodeImmU(w) <=> 12 <= k /\ k <= 31 /\ k \in w
  BY DEF DecodeImmU
<1>3. /\ DecodeImmI(w) \subseteq Int
      /\ \A k \in Int :
            k \in DecodeImmI(w) <=> (0 <= k /\ k <= 11 /\ k + 20 \in w) \/ (12 <= k /\ k <= 31 /\ 31 \in w)
  <2> DEFINE v == Extract(w, 31, 20)
  <2>1. v \in SUBSET Int /\ \A k \in Int : k \in v <=> 0 <= k /\ k <= 11 /\ k + 20 \in w
    BY <1>1
  <2>2. DecodeImmI(w) = SignExtend(v, 12)
    BY DEF DecodeImmI
  <2> HIDE DEF v
  <2> QED
    BY <2>1, <2>2, InSignExtend
<1>4. /\ DecodeImmS(w) \subseteq Int
      /\ \A k \in Int : k \in DecodeImmS(w) <=> \/ 0 <= k /\ k <= 4 /\ k + 7 \in w
                                                \/ 5 <= k /\ k <= 11 /\ k + 20 \in w
                                                \/ 12 <= k /\ k <= 31 /\ 31 \in w
  <2> DEFINE a == Shift(Extract(w, 31, 25), 5)
             b == Extract(w, 11, 7)
             v == a \cup b
  <2>1. a \in SUBSET Int /\ \A k \in Int : k \in a <=> 5 <= k /\ k <= 11 /\ k + 20 \in w
    BY <1>1
  <2>2. b \in SUBSET Int /\ \A k \in Int : k \in b <=> 0 <= k /\ k <= 4 /\ k + 7 \in w
    BY <1>1
  <2>3. DecodeImmS(w) = SignExtend(v, 12)
    BY DEF DecodeImmS
  <2> HIDE DEF a, b
  <2>4. v \in SUBSET Int /\ \A k \in Int : k \in v <=> \/ 0 <= k /\ k <= 4 /\ k + 7 \in w
                                                       \/ 5 <= k /\ k <= 11 /\ k + 20 \in w
    BY <2>1, <2>2
  <2> HIDE DEF v
  <2> QED
    BY <2>3, <2>4, InSignExtend
<1>5. /\ DecodeImmB(w) \subseteq Int
      /\ \A k \in Int : k \in DecodeImmB(w) <=> \/ 1 <= k /\ k <= 4 /\ k + 7 \in w
                                                \/ 5 <= k /\ k <= 10 /\ k + 20 \in w
                                                \/ k = 11 /\ 7 \in w
                                                \/ 12 <= k /\ k <= 31 /\ 31 \in w
  <2> DEFINE a == Shift(Extract(w, 31, 31), 12)
             b == Shift(Extract(w, 7, 7), 11)
             c == Shift(Extract(w, 30, 25), 5)
             d == Shift(Extract(w, 11, 8), 1)
             v == UNION {a, b, c, d}
  <2>1. a \in SUBSET Int /\ \A k \in Int : k \in a <=> k = 12 /\ 31 \in w
    <3>1. a \in SUBSET Int
      BY <1>1
    <3>2. ASSUME NEW k \in Int PROVE k \in a <=> k + (31 - 12) \in w /\ 12 <= k /\ k <= 31 + 12 - 31
      BY <1>1
    <3>3. ASSUME NEW k \in Int PROVE k \in a <=> k = 12 /\ 31 \in w
      <4> HIDE DEF a
      <4>1. CASE k = 12
        BY <3>2, <4>1
      <4>2. CASE k # 12
        BY <3>2, <4>2
      <4> QED
        BY <4>1, <4>2
    <3> QED
      BY <3>1, <3>3
  <2>2. b \in SUBSET Int /\ \A k \in Int : k \in b <=> k = 11 /\ 7 \in w
    BY <1>1
  <2>3. c \in SUBSET Int /\ \A k \in Int : k \in c <=> 5 <= k /\ k <= 10 /\ k + 20 \in w
    BY <1>1
  <2>4. d \in SUBSET Int /\ \A k \in Int : k \in d <=> 1 <= k /\ k <= 4 /\ k + 7 \in w
    BY <1>1
  <2>5. DecodeImmB(w) = SignExtend(v, 13)
    BY DEF DecodeImmB
  <2> HIDE DEF a, b, c, d
  <2>6. v \in SUBSET Int /\ \A k \in Int : k \in v <=> \/ k = 12 /\ 31 \in w
                                                       \/ k = 11 /\ 7 \in w
                                                       \/ 5 <= k /\ k <= 10 /\ k + 20 \in w
                                                       \/ 1 <= k /\ k <= 4 /\ k + 7 \in w
    BY <2>1, <2>2, <2>3, <2>4
  <2> HIDE DEF v
  <2> QED
    BY <2>5, <2>6, InSignExtend
<1>6. /\ DecodeImmJ(w) \subseteq Int
      /\ \A k \in Int : k \in DecodeImmJ(w) <=> \/ 1 <= k /\ k <= 10 /\ k + 20 \in w
                                                \/ k = 11 /\ 20 \in w
                                                \/ 12 <= k /\ k <= 19 /\ k \in w
                                                \/ 20 <= k /\ k <= 31 /\ 31 \in w
  <2> DEFINE a == Shift(Extract(w, 31, 31), 20)
             b == Shift(Extract(w, 19, 12), 12)
             c == Shift(Extract(w, 20, 20), 11)
             d == Shift(Extract(w, 30, 21), 1)
             v == UNION {a, b, c, d}
  <2>1. a \in SUBSET Int /\ \A k \in Int : k \in a <=> k = 20 /\ 31 \in w
    BY <1>1
  <2>2. b \in SUBSET Int /\ \A k \in Int : k \in b <=> 12 <= k /\ k <= 19 /\ k \in w
    BY <1>1
  <2>3. c \in SUBSET Int /\ \A k \in Int : k \in c <=> k = 11 /\ 20 \in w
    BY <1>1
  <2>4. d \in SUBSET Int /\ \A k \in Int : k \in d <=> 1 <= k /\ k <= 10 /\ k + 20 \in w
    BY <1>1
  <2>5. DecodeImmJ(w) = SignExtend(v, 21)
    BY DEF DecodeImmJ
  <2> HIDE DEF a, b, c, d
  <2>6. v \in SUBSET Int /\ \A k \in Int : k \in v <=> \/ k = 20 /\ 31 \in w
                                                       \/ 12 <= k /\ k <= 19 /\ k \in w
                                                       \/ k = 11 /\ 20 \in w
                                                       \/ 1 <= k /\ k <= 10 /\ k + 20 \in w
    BY <2>1, <2>2, <2>3, <2>4
  <2> HIDE DEF v
  <2> QED
    BY <2>5, <2>6, InSignExtend
<1> QED
  BY <1>2, <1>3, <1>4, <1>5, <1>6

LEMMA SetsOfIntsEqual ==
  ASSUME NEW S \in SUBSET Int, NEW T \in SUBSET Int, \A k \in Int : k \in S <=> k \in T
  PROVE  S = T
  OBVIOUS

(* The decoder chooses the format that was built, and reads the immediate.  *)
LEMMA ImmRead ==
  ASSUME NEW i, Shape(i), i.format # "R"
  PROVE  DecodeImm(Build(i)) = i.imm
<1> DEFINE w == Build(i)
           v == i.imm
<1>1. BuildImm(i) \in SUBSET Int /\ v \in SUBSET Int
  BY BuiltImmType
<1>2. /\ w \in SUBSET Int
      /\ \A k \in Int :
              k \in w <=>
                \/ k - 25 \in i.funct7 \/ k - 20 \in i.rs2 \/ k - 15 \in i.rs1 \/ k - 12 \in i.funct3
                \/ k - 7 \in i.rd \/ k \in OpcodeBits[i.opcode] \/ k \in BuildImm(i)
  BY <1>1, InBuild
<1>3. OpcodeOf(w) = i.opcode
  BY FieldsRead
<1>4. /\ i.funct7 = {} /\ i.funct3 \subseteq 0 .. 2
      /\ i.rd \subseteq 0 .. 4 /\ i.rs1 \subseteq 0 .. 4 /\ i.rs2 \subseteq 0 .. 4
      /\ i.format \in {"U", "J"} => i.funct3 = {} /\ i.rs1 = {}
      /\ i.format \in {"I", "U", "J"} => i.rs2 = {}
      /\ i.format \in {"S", "B"} => i.rd = {}
      /\ OpcodeBits[i.opcode] \subseteq 0 .. 6
      /\ i.format \in {"I", "S", "B", "U", "J"}
      /\ ImmShape(i.format, v)
  BY OpcodeBitsType DEF Shape, FormatsOf, OpcodeBits
<1>5. /\ i.format = "I" <=> i.opcode \in {"LOAD", "OP_IMM", "JALR", "MISC_MEM", "SYSTEM"}
      /\ i.format = "S" <=> i.opcode = "STORE"
      /\ i.format = "B" <=> i.opcode = "BRANCH"
      /\ i.format = "U" <=> i.opcode \in {"LUI", "AUIPC"}
      /\ i.format = "J" <=> i.opcode = "JAL"
  BY DEF Shape, FormatsOf, OpcodeBits
<1>6. CASE i.format = "I"
  <2>1. DecodeImm(w) = DecodeImmI(w)
    BY <1>3, <1>5, <1>6 DEF DecodeImm
  <2>2. \A k \in Int : k \in BuildImm(i) <=> 20 <= k /\ k <= 31 /\ k - 20 \in v
    BY <1>1, <1>6, InBuildImm DEF BuildImm
  <2> HIDE DEF w, v
  <2>3. \A k \in Int : 20 <= k /\ k <= 31 => (k \in w <=> k - 20 \in v)
    BY <1>2, <1>4, <1>6, <2>2
  <2>4. v \subseteq 0 .. 31 /\ \A k \in 12 .. 31 : k \in v <=> 11 \in v
    BY <1>4, <1>6 DEF ImmShape
  <2>5. \A k \in Int : k \in DecodeImmI(w) <=> k \in v
    <3> TAKE k \in Int
    <3>1. k \in DecodeImmI(w) <=> (0 <= k /\ k <= 11 /\ k + 20 \in w) \/ (12 <= k /\ k <= 31 /\ 31 \in w)
      BY <1>2, DecodedImms
    <3>2. 31 \in w <=> 11 \in v
      BY <2>3, 31 - 20 = 11
    <3>3. CASE 0 <= k /\ k <= 11
      <4>1. (k + 20) - 20 = k /\ 20 <= k + 20 /\ k + 20 <= 31
        BY <3>3
      <4> QED
        BY <2>3, <3>1, <3>3, <4>1
    <3>4. CASE 12 <= k /\ k <= 31
      BY <2>4, <3>1, <3>2, <3>4
    <3>5. CASE k < 0 \/ k > 31
      BY <2>4, <3>1, <3>5
    <3> QED
      BY <3>3, <3>4, <3>5
  <2>6. DecodeImmI(w) \in SUBSET Int
    BY <1>2, DecodedImms
  <2>7. DecodeImmI(w) = v
    BY <1>1, <2>5, <2>6, SetsOfIntsEqual
  <2> QED
    BY <2>1, <2>7 DEF w, v
<1>7. CASE i.format = "S"
  <2>1. DecodeImm(w) = DecodeImmS(w)
    BY <1>3, <1>5, <1>7 DEF DecodeImm
  <2>2. \A k \in Int : k \in BuildImm(i) <=>
                         (25 <= k /\ k <= 31 /\ k - 20 \in v) \/ (7 <= k /\ k <= 11 /\ k - 7 \in v)
    BY <1>1, <1>7, InBuildImm DEF BuildImm
  <2> HIDE DEF w, v
  <2>3. \A k \in Int : /\ 25 <= k /\ k <= 31 => (k \in w <=> k - 20 \in v)
                       /\ 7 <= k /\ k <= 11 => (k \in w <=> k - 7 \in v)
    BY <1>2, <1>4, <1>7, <2>2
  <2>4. v \subseteq 0 .. 31 /\ \A k \in 12 .. 31 : k \in v <=> 11 \in v
    BY <1>4, <1>7 DEF ImmShape
  <2>5. \A k \in Int : k \in DecodeImmS(w) <=> k \in v
    <3> TAKE k \in Int
    <3>1. k \in DecodeImmS(w) <=> \/ 0 <= k /\ k <= 4 /\ k + 7 \in w
                                  \/ 5 <= k /\ k <= 11 /\ k + 20 \in w
                                  \/ 12 <= k /\ k <= 31 /\ 31 \in w
      BY <1>2, DecodedImms
    <3>2. 31 \in w <=> 11 \in v
      BY <2>3, 31 - 20 = 11
    <3>3. CASE 0 <= k /\ k <= 4
      <4>1. (k + 7) - 7 = k /\ 7 <= k + 7 /\ k + 7 <= 11
        BY <3>3
      <4> QED
        BY <2>3, <3>1, <3>3, <4>1
    <3>4. CASE 5 <= k /\ k <= 11
      <4>1. (k + 20) - 20 = k /\ 25 <= k + 20 /\ k + 20 <= 31
        BY <3>4
      <4> QED
        BY <2>3, <3>1, <3>4, <4>1
    <3>5. CASE 12 <= k /\ k <= 31
      BY <2>4, <3>1, <3>2, <3>5
    <3>6. CASE k < 0 \/ k > 31
      BY <2>4, <3>1, <3>6
    <3> QED
      BY <3>3, <3>4, <3>5, <3>6
  <2>6. DecodeImmS(w) \in SUBSET Int
    BY <1>2, DecodedImms
  <2>7. DecodeImmS(w) = v
    BY <1>1, <2>5, <2>6, SetsOfIntsEqual
  <2> QED
    BY <2>1, <2>7 DEF w, v
<1>8. CASE i.format = "B"
  <2>1. DecodeImm(w) = DecodeImmB(w)
    BY <1>3, <1>5, <1>8 DEF DecodeImm
  <2>2. \A k \in Int : k \in BuildImm(i) <=> \/ k = 31 /\ 12 \in v
                                             \/ 25 <= k /\ k <= 30 /\ k - 20 \in v
                                             \/ 8 <= k /\ k <= 11 /\ k - 7 \in v
                                             \/ k = 7 /\ 11 \in v
    BY <1>1, <1>8, InBuildImm DEF BuildImm
  <2> HIDE DEF w, v
  <2>3. \A k \in Int : /\ 25 <= k /\ k <= 30 => (k \in w <=> k - 20 \in v)
                       /\ 8 <= k /\ k <= 11 => (k \in w <=> k - 7 \in v)
    BY <1>2, <1>4, <1>8, <2>2
  <2>4. (31 \in w <=> 12 \in v) /\ (7 \in w <=> 11 \in v)
    <3>1. 31 \in w <=> 31 \in BuildImm(i)
      BY <1>2, <1>4, <1>8
    <3>2. 7 \in w <=> 7 \in BuildImm(i)
      BY <1>2, <1>4, <1>8
    <3> QED
      BY <2>2, <3>1, <3>2
  <2>5. v \subseteq 0 .. 31 /\ 0 \notin v /\ \A k \in 13 .. 31 : k \in v <=> 12 \in v
    BY <1>4, <1>8 DEF ImmShape
  <2>6. \A k \in Int : k \in DecodeImmB(w) <=> k \in v
    <3> TAKE k \in Int
    <3>1. k \in DecodeImmB(w) <=> \/ 1 <= k /\ k <= 4 /\ k + 7 \in w
                                  \/ 5 <= k /\ k <= 10 /\ k + 20 \in w
                                  \/ k = 11 /\ 7 \in w
                                  \/ 12 <= k /\ k <= 31 /\ 31 \in w
      BY <1>2, DecodedImms
    <3>3. CASE 1 <= k /\ k <= 4
      <4>1. (k + 7) - 7 = k /\ 8 <= k + 7 /\ k + 7 <= 11
        BY <3>3
      <4> QED
        BY <2>3, <3>1, <3>3, <4>1
    <3>4. CASE 5 <= k /\ k <= 10
      <4>1. (k + 20) - 20 = k /\ 25 <= k + 20 /\ k + 20 <= 30
        BY <3>4
      <4> QED
        BY <2>3, <3>1, <3>4, <4>1
    <3>5. CASE 11 <= k /\ k <= 31
      BY <2>4, <2>5, <3>1, <3>5
    <3>6. CASE k < 1 \/ k > 31
      BY <2>5, <3>1, <3>6
    <3> QED
      BY <3>3, <3>4, <3>5, <3>6
  <2>7. DecodeImmB(w) \in SUBSET Int
    BY <1>2, DecodedImms
  <2>8. DecodeImmB(w) = v
    BY <1>1, <2>6, <2>7, SetsOfIntsEqual
  <2> QED
    BY <2>1, <2>8 DEF w, v
<1>9. CASE i.format = "U"
  <2>1. DecodeImm(w) = DecodeImmU(w)
    BY <1>3, <1>5, <1>9 DEF DecodeImm
  <2>2. \A k \in Int : k \in BuildImm(i) <=> 12 <= k /\ k <= 31 /\ k \in v
    BY <1>1, <1>9, InBuildImm DEF BuildImm
  <2> HIDE DEF w, v
  <2>3. \A k \in Int : 12 <= k /\ k <= 31 => (k \in w <=> k \in v)
    BY <1>2, <1>4, <1>9, <2>2
  <2>4. v \subseteq 12 .. 31
    BY <1>4, <1>9 DEF ImmShape
  <2>5. \A k \in Int : k \in DecodeImmU(w) <=> k \in v
    <3> TAKE k \in Int
    <3>1. k \in DecodeImmU(w) <=> 12 <= k /\ k <= 31 /\ k \in w
      BY <1>2, DecodedImms
    <3> QED
      BY <2>3, <2>4, <3>1
  <2>6. DecodeImmU(w) \in SUBSET Int
    BY <1>2, DecodedImms
  <2>7. DecodeImmU(w) = v
    BY <1>1, <2>5, <2>6, SetsOfIntsEqual
  <2> QED
    BY <2>1, <2>7 DEF w, v
<1>10. CASE i.format = "J"
  <2>1. DecodeImm(w) = DecodeImmJ(w)
    BY <1>3, <1>5, <1>10 DEF DecodeImm
  <2>2. \A k \in Int : k \in BuildImm(i) <=> \/ k = 31 /\ 20 \in v
                                             \/ 21 <= k /\ k <= 30 /\ k - 20 \in v
                                             \/ k = 20 /\ 11 \in v
                                             \/ 12 <= k /\ k <= 19 /\ k \in v
    BY <1>1, <1>10, InBuildImm DEF BuildImm
  <2> HIDE DEF w, v
  <2>3. \A k \in Int : /\ 21 <= k /\ k <= 30 => (k \in w <=> k - 20 \in v)
                       /\ 12 <= k /\ k <= 19 => (k \in w <=> k \in v)
    BY <1>2, <1>4, <1>10, <2>2
  <2>4. (31 \in w <=> 20 \in v) /\ (20 \in w <=> 11 \in v)
    <3>1. 31 \in w <=> 31 \in BuildImm(i)
      BY <1>2, <1>4, <1>10
    <3>2. 20 \in w <=> 20 \in BuildImm(i)
      BY <1>2, <1>4, <1>10
    <3> QED
      BY <2>2, <3>1, <3>2
  <2>5. v \subseteq 0 .. 31 /\ 0 \notin v /\ \A k \in 21 .. 31 : k \in v <=> 20 \in v
    BY <1>4, <1>10 DEF ImmShape
  <2>6. \A k \in Int : k \in DecodeImmJ(w) <=> k \in v
    <3> TAKE k \in Int
    <3>1. k \in DecodeImmJ(w) <=> \/ 1 <= k /\ k <= 10 /\ k + 20 \in w
                                  \/ k = 11 /\ 20 \in w
                                  \/ 12 <= k /\ k <= 19 /\ k \in w
                                  \/ 20 <= k /\ k <= 31 /\ 31 \in w
      BY <1>2, DecodedImms
    <3>3. CASE 1 <= k /\ k <= 10
      <4>1. (k + 20) - 20 = k /\ 21 <= k + 20 /\ k + 20 <= 30
        BY <3>3
      <4> QED
        BY <2>3, <3>1, <3>3, <4>1
    <3>4. CASE 12 <= k /\ k <= 19
      BY <2>3, <3>1, <3>4
    <3>5. CASE k = 11 \/ (20 <= k /\ k <= 31)
      BY <2>4, <2>5, <3>1, <3>5
    <3>6. CASE k < 1 \/ k > 31
      BY <2>5, <3>1, <3>6
    <3> QED
      BY <3>3, <3>4, <3>5, <3>6
  <2>7. DecodeImmJ(w) \in SUBSET Int
    BY <1>2, DecodedImms
  <2>8. DecodeImmJ(w) = v
    BY <1>1, <2>6, <2>7, SetsOfIntsEqual
  <2> QED
    BY <2>1, <2>8 DEF w, v
<1> QED
  BY <1>4, <1>6, <1>7, <1>8, <1>9, <1>10

(* The shift amount of slli, srli and srai is in the low bits of the        *)
(* immediate that the decoder makes of their words.                         *)
LEMMA ShamtRead ==
  ASSUME NEW i, Shape(i), i.format = "R", i.opcode = "OP_IMM"
  PROVE  LET v == DecodeImm(Build(i)) IN
         v \in SUBSET Int /\ \A k \in 0 .. 4 : k \in v <=> k \in i.rs2
<1> DEFINE w == Build(i)
<1>1. w \in SUBSET Int /\ OpcodeOf(w) = "OP_IMM" /\ Extract(w, 24, 20) = i.rs2
  BY FieldsRead
<1>2. DecodeImm(w) = DecodeImmI(w)
  BY <1>1 DEF DecodeImm
<1> HIDE DEF w
<1>3. DecodeImmI(w) \in SUBSET Int
  BY <1>1, DecodedImms
<1>4. \A k \in 0 .. 4 : k \in DecodeImmI(w) <=> k + 20 \in w
  BY <1>1, DecodedImms
<1>5. \A k \in 0 .. 4 : k \in Extract(w, 24, 20) <=> k + 20 \in w
  <2> DEFINE hi == 24
             lo == 20
  <2>1. hi \in Int /\ lo \in Int /\ \A k \in 0 .. 4 : k \in Int /\ 0 <= k /\ k + lo <= hi
    OBVIOUS
  <2> HIDE DEF hi, lo
  <2>2. \A k \in 0 .. 4 : k \in Extract(w, hi, lo) <=> k + lo \in w
    BY <1>1, <2>1, InExtract
  <2> QED
    BY <2>2 DEF hi, lo
<1> QED
  BY <1>1, <1>2, <1>3, <1>4, <1>5 DEF w

----------------------------------------------------------------------------
(* The tables of instructions.                                              *)

(* The bits of the eight codes.                                             *)
LEMMA Funct3Codes ==
  ASSUME NEW n \in 1 .. 8
  PROVE  /\ F3(n - 1) \subseteq 0 .. 2
         /\ F3(n - 1) = {} <=> n = 1
         /\ F3(n - 1) = {0} <=> n = 2
         /\ F3(n - 1) = {1} <=> n = 3
         /\ F3(n - 1) = {0, 2} <=> n = 6
         /\ 0 \in F3(n - 1) <=> n \in {2, 4, 6, 8}
         /\ 1 \in F3(n - 1) <=> n \in {3, 4, 7, 8}
         /\ 2 \in F3(n - 1) <=> n \in {5, 6, 7, 8}
<1>1. n = 1 \/ n = 2 \/ n = 3 \/ n = 4 \/ n = 5 \/ n = 6 \/ n = 7 \/ n = 8
  OBVIOUS
<1>2. CASE n = 1
  BY <1>2, Functions3
<1>3. CASE n = 2
  BY <1>3, Functions3
<1>4. CASE n = 3
  BY <1>4, Functions3
<1>5. CASE n = 4
  BY <1>5, Functions3
<1>6. CASE n = 5
  BY <1>6, Functions3
<1>7. CASE n = 6
  BY <1>7, Functions3
<1>8. CASE n = 7
  BY <1>8, Functions3
<1>9. CASE n = 8
  BY <1>9, Functions3
<1> QED
  BY <1>1, <1>2, <1>3, <1>4, <1>5, <1>6, <1>7, <1>8, <1>9

(* The rows of the tables, by opcode and function codes.                    *)
Others == { <<"JALR", "I", "jalr">>, <<"MISC_MEM", "I", "fence">>, <<"LUI", "U", "lui">>,
            <<"AUIPC", "U", "auipc">>, <<"JAL", "J", "jal">> }

(* A row of the table at code n - 1, and the three words without one.       *)
NamedAt(r, n) ==
  \/ /\ r.opcode = "OP" /\ r.format = "R"
     /\ \/ r.funct7 = F7_NORMAL /\ r.name = OpNames[n]
        \/ r.funct7 = F7_ALT /\ r.name = AltNames[n]
        \/ r.funct7 = F7_MEXT /\ r.name = MulNames[n]
  \/ /\ r.opcode = "OP_IMM" /\ r.format = "R"
     /\ \/ n \in {2, 6} /\ r.funct7 = F7_NORMAL /\ r.name = ImmNames[n]
        \/ n = 6 /\ r.funct7 = F7_ALT /\ r.name = "srai"
  \/ /\ r.funct7 = {}
     /\ \/ r.opcode = "OP_IMM" /\ r.format = "I" /\ n \notin {2, 6} /\ r.name = ImmNames[n]
        \/ r.opcode = "LOAD" /\ r.format = "I" /\ r.name = LoadNames[n]
        \/ r.opcode = "STORE" /\ r.format = "S" /\ r.name = StoreNames[n]
        \/ r.opcode = "BRANCH" /\ r.format = "B" /\ r.name = BranchNames[n]
        \/ r.opcode = "SYSTEM" /\ r.format = "I" /\ n # 1 /\ r.name = CsrNames[n]
        \/ n = 1 /\ <<r.opcode, r.format, r.name>> \in Others
  \/ /\ r.opcode = "AMO" /\ r.format = "R" /\ n = 3
     /\ \E f \in SUBSET (0 .. 4), q \in SUBSET {0, 1} :
          r.funct7 = Shift(f, 2) \cup q /\ r.name = AmoName(Shift(f, 2))

InTable(r) == \E n \in 1 .. 8 : r.funct3 = F3(n - 1) /\ NamedAt(r, n)

IsCall(r) ==
  /\ r.opcode = "SYSTEM" /\ r.format = "I" /\ r.funct7 = {} /\ r.funct3 = {}
  /\ r.name \in {"ecall", "ebreak", "mret"}

Named(r) == InTable(r) \/ IsCall(r)

(* The rows of a list of names.                                             *)
LEMMA RowsAre ==
  ASSUME NEW format, NEW opcode, NEW funct7, NEW names, DOMAIN names \subseteq 1 .. 8,
         NEW row \in Rows(format, opcode, funct7, names)
  PROVE  \E n \in 1 .. 8 :
           /\ n \in DOMAIN names
           /\ row.format = format /\ row.opcode = opcode /\ row.funct7 = funct7
           /\ row.funct3 = F3(n - 1) /\ row.name = names[n]
  BY DEF Rows, Row

(* The table has nothing else.                                              *)
LEMMA TableRow == ASSUME NEW row \in Table PROVE InTable(row)
<1> DEFINE ShiftRows == { r \in Rows("R", "OP_IMM", F7_NORMAL, ImmNames) : IsShift(r) }
           ImmRows == { r \in Rows("I", "OP_IMM", {}, ImmNames) : ~ IsShift(r) }
           CsrRows == { r \in Rows("I", "SYSTEM", {}, CsrNames) : r.funct3 # {} }
           AmoCodes == { n[1] : n \in AmoNames } \cup {{0, 2}}
           AmoRows == { Row(AmoName(Shift(f, 2)), "R", "AMO", Shift(f, 2) \cup q, F3(2)) :
                          f \in AmoCodes, q \in SUBSET {0, 1} }
<1>1. /\ DOMAIN OpNames = 1 .. 8 /\ DOMAIN AltNames = 1 .. 8 /\ DOMAIN MulNames = 1 .. 8
      /\ DOMAIN ImmNames = 1 .. 8 /\ DOMAIN LoadNames = 1 .. 8 /\ DOMAIN StoreNames = 1 .. 8
      /\ DOMAIN BranchNames = 1 .. 8 /\ DOMAIN CsrNames = 1 .. 8
  BY DEF OpNames, AltNames, MulNames, ImmNames, LoadNames, StoreNames, BranchNames, CsrNames
<1>2. CASE row \in Rows("R", "OP", F7_NORMAL, OpNames)
  BY <1>1, <1>2, RowsAre DEF InTable, NamedAt
<1>3. CASE row \in Rows("R", "OP", F7_ALT, AltNames)
  BY <1>1, <1>3, RowsAre DEF InTable, NamedAt
<1>4. CASE row \in Rows("R", "OP", F7_MEXT, MulNames)
  BY <1>1, <1>4, RowsAre DEF InTable, NamedAt
<1>5. CASE row \in ShiftRows
  <2>1. PICK n \in 1 .. 8 : /\ row.format = "R" /\ row.opcode = "OP_IMM" /\ row.funct7 = F7_NORMAL
                            /\ row.funct3 = F3(n - 1) /\ row.name = ImmNames[n]
    BY <1>1, <1>5, RowsAre
  <2>2. n \in {2, 6}
    BY <1>5, <2>1, Funct3Codes DEF IsShift
  <2> QED
    BY <2>1, <2>2 DEF InTable, NamedAt
<1>6. CASE row = Row("srai", "R", "OP_IMM", F7_ALT, F3(5))
  <2>1. /\ row.format = "R" /\ row.opcode = "OP_IMM" /\ row.funct7 = F7_ALT
        /\ row.funct3 = F3(6 - 1) /\ row.name = "srai"
    BY <1>6 DEF Row
  <2>2. NamedAt(row, 6)
    BY <2>1 DEF NamedAt
  <2> QED
    BY <2>1, <2>2, 6 \in 1 .. 8 DEF InTable
<1>7. CASE row \in ImmRows
  <2>1. PICK n \in 1 .. 8 : /\ row.format = "I" /\ row.opcode = "OP_IMM" /\ row.funct7 = {}
                            /\ row.funct3 = F3(n - 1) /\ row.name = ImmNames[n]
    BY <1>1, <1>7, RowsAre
  <2>2. n \notin {2, 6}
    BY <1>7, <2>1, Funct3Codes DEF IsShift
  <2> QED
    BY <2>1, <2>2 DEF InTable, NamedAt
<1>8. CASE row \in Rows("I", "LOAD", {}, LoadNames)
  BY <1>1, <1>8, RowsAre DEF InTable, NamedAt
<1>9. CASE row \in Rows("S", "STORE", {}, StoreNames)
  BY <1>1, <1>9, RowsAre DEF InTable, NamedAt
<1>10. CASE row \in Rows("B", "BRANCH", {}, BranchNames)
  BY <1>1, <1>10, RowsAre DEF InTable, NamedAt
<1>11. CASE row \in CsrRows
  <2>1. PICK n \in 1 .. 8 : /\ row.format = "I" /\ row.opcode = "SYSTEM" /\ row.funct7 = {}
                            /\ row.funct3 = F3(n - 1) /\ row.name = CsrNames[n]
    BY <1>1, <1>11, RowsAre
  <2>2. n # 1
    BY <1>11, <2>1, Funct3Codes
  <2> QED
    BY <2>1, <2>2 DEF InTable, NamedAt
<1>12. CASE row \in AmoRows
  <2>1. PICK f \in AmoCodes, q \in SUBSET {0, 1} :
          row = Row(AmoName(Shift(f, 2)), "R", "AMO", Shift(f, 2) \cup q, F3(2))
    <3> HIDE DEF AmoCodes
    <3> QED
      BY <1>12
  <2>2. f \in SUBSET (0 .. 4)
    BY DEF AmoNames
  <2>3. /\ row.format = "R" /\ row.opcode = "AMO" /\ row.funct7 = Shift(f, 2) \cup q
        /\ row.funct3 = F3(3 - 1) /\ row.name = AmoName(Shift(f, 2))
    BY <2>1 DEF Row
  <2>4. NamedAt(row, 3)
    BY <2>2, <2>3 DEF NamedAt
  <2> QED
    BY <2>3, <2>4, 3 \in 1 .. 8 DEF InTable
<1>13. ASSUME NEW format, NEW opcode, NEW name, <<opcode, format, name>> \in Others,
              row \in Rows(format, opcode, {}, <<name>>)
       PROVE  InTable(row)
  <2>1. DOMAIN <<name>> = 1 .. 1
    OBVIOUS
  <2>2. PICK n \in 1 .. 8 : /\ n \in DOMAIN <<name>>
                            /\ row.format = format /\ row.opcode = opcode /\ row.funct7 = {}
                            /\ row.funct3 = F3(n - 1) /\ row.name = <<name>>[n]
    BY <1>13, <2>1, RowsAre
  <2>3. n = 1 /\ row.name = name
    BY <2>1, <2>2
  <2>4. NamedAt(row, n)
    BY <1>13, <2>2, <2>3 DEF NamedAt
  <2> QED
    BY <2>2, <2>4 DEF InTable
<1>14. CASE row \in Rows("I", "JALR", {}, <<"jalr">>)
  BY <1>13, <1>14 DEF Others
<1>15. CASE row \in Rows("I", "MISC_MEM", {}, <<"fence">>)
  BY <1>13, <1>15 DEF Others
<1>16. CASE row \in Rows("U", "LUI", {}, <<"lui">>)
  BY <1>13, <1>16 DEF Others
<1>17. CASE row \in Rows("U", "AUIPC", {}, <<"auipc">>)
  BY <1>13, <1>17 DEF Others
<1>18. CASE row \in Rows("J", "JAL", {}, <<"jal">>)
  BY <1>13, <1>18 DEF Others
<1>19. Table =
         UNION {Rows("R", "OP", F7_NORMAL, OpNames), Rows("R", "OP", F7_ALT, AltNames),
                Rows("R", "OP", F7_MEXT, MulNames), ShiftRows, {Row("srai", "R", "OP_IMM", F7_ALT, F3(5))}, ImmRows,
                Rows("I", "LOAD", {}, LoadNames), Rows("S", "STORE", {}, StoreNames),
                Rows("B", "BRANCH", {}, BranchNames), CsrRows, AmoRows,
                Rows("I", "JALR", {}, <<"jalr">>), Rows("I", "MISC_MEM", {}, <<"fence">>),
                Rows("U", "LUI", {}, <<"lui">>), Rows("U", "AUIPC", {}, <<"auipc">>), Rows("J", "JAL", {}, <<"jal">>)}
  BY DEF Table
<1> HIDE DEF ShiftRows, ImmRows, CsrRows, AmoRows
<1> QED
  BY <1>2, <1>3, <1>4, <1>5, <1>6, <1>7, <1>8, <1>9, <1>10, <1>11, <1>12, <1>14, <1>15, <1>16, <1>17, <1>18, <1>19

(* What has a name has an opcode, a format and codes of their widths.       *)
LEMMA NamedShape ==
  ASSUME NEW r, Named(r)
  PROVE  /\ r.opcode \in DOMAIN OpcodeBits /\ r.format \in FormatsOf[r.opcode]
         /\ r.format \in {"R", "I", "S", "B", "U", "J"}
         /\ r.funct7 \subseteq 0 .. 6 /\ r.funct3 \subseteq 0 .. 2
         /\ r.format # "R" => r.funct7 = {}
         /\ r.format \in {"U", "J"} => r.funct3 = {}
<1>0. CASE IsCall(r)
  BY <1>0 DEF IsCall, OpcodeBits, FormatsOf
<1> SUFFICES ASSUME InTable(r)
             PROVE  /\ r.opcode \in DOMAIN OpcodeBits /\ r.format \in FormatsOf[r.opcode]
                    /\ r.format \in {"R", "I", "S", "B", "U", "J"}
                    /\ r.funct7 \subseteq 0 .. 6 /\ r.funct3 \subseteq 0 .. 2
                    /\ r.format # "R" => r.funct7 = {}
                    /\ r.format \in {"U", "J"} => r.funct3 = {}
  BY <1>0 DEF Named
<1>1. PICK n \in 1 .. 8 : r.funct3 = F3(n - 1) /\ NamedAt(r, n)
  BY DEF InTable
<1>2. r.funct3 \subseteq 0 .. 2 /\ (n = 1 => r.funct3 = {})
  BY <1>1, Funct3Codes
<1>3. /\ r.opcode \in DOMAIN OpcodeBits /\ r.format \in FormatsOf[r.opcode]
      /\ r.format \in {"R", "I", "S", "B", "U", "J"}
      /\ r.format # "R" => r.funct7 = {}
      /\ r.format \in {"U", "J"} => n = 1
  BY <1>1 DEF NamedAt, Others, OpcodeBits, FormatsOf
<1>4. r.funct7 \subseteq 0 .. 6
  <2>1. CASE r.opcode = "AMO"
    <3>1. PICK f \in SUBSET (0 .. 4), q \in SUBSET {0, 1} : r.funct7 = Shift(f, 2) \cup q
      BY <1>1, <2>1 DEF NamedAt, Others
    <3>2. Shift(f, 2) \subseteq 2 .. 6
      BY DEF Shift
    <3>3. \A k \in 2 .. 6 : k \in 0 .. 6
      OBVIOUS
    <3>4. {0, 1} \subseteq 0 .. 6
      OBVIOUS
    <3> QED
      BY <3>1, <3>2, <3>3, <3>4, Zenon
  <2>2. CASE r.opcode # "AMO"
    BY <1>1, <2>2 DEF NamedAt, F7_NORMAL, F7_ALT, F7_MEXT
  <2> QED
    BY <2>1, <2>2
<1> QED
  BY <1>2, <1>3, <1>4

(* The immediates that are tried have the shape of their format.            *)
LEMMA ImmsShape ==
  ASSUME NEW format \in {"R", "I", "S", "B", "U", "J"}, NEW imm \in Imms(format)
  PROVE  ImmShape(format, imm)
<1>1. ImmSample(12) \subseteq SUBSET (0 .. 11) /\ ImmSample(20) \subseteq SUBSET (0 .. 19)
  <2>1. \A n \in {12, 20} : ImmSample(n) \subseteq SUBSET (0 .. n - 1)
    BY IsaAssumption
  <2>2. ImmSample(12) \subseteq SUBSET (0 .. 12 - 1) /\ ImmSample(20) \subseteq SUBSET (0 .. 20 - 1)
    BY <2>1
  <2> QED
    BY <2>2
<1>2. CASE format = "R"
  BY <1>2 DEF Imms, ImmShape
<1>3. CASE format \in {"I", "S"}
  <2>1. PICK v \in ImmSample(12) : imm = SignExtend(v, 12)
    BY <1>3 DEF Imms
  <2>2. v \in SUBSET Int /\ v \subseteq 0 .. 11
    BY <1>1, <2>1
  <2>3. imm \subseteq Int /\ \A k \in Int : k \in imm <=> k \in v \/ (11 \in v /\ 12 <= k /\ k <= 31)
    BY <2>1, <2>2, InSignExtend, 12 - 1 = 11
  <2> QED
    BY <1>3, <2>2, <2>3 DEF ImmShape
<1>4. CASE format = "B"
  <2>1. PICK u \in ImmSample(12) : imm = SignExtend(Shift(u, 1), 13)
    BY <1>4 DEF Imms
  <2> DEFINE v == Shift(u, 1)
  <2>2. v \in SUBSET Int /\ v \subseteq 1 .. 12
    BY <1>1, <2>1 DEF Shift
  <2> HIDE DEF v
  <2>3. imm \subseteq Int /\ \A k \in Int : k \in imm <=> k \in v \/ (12 \in v /\ 13 <= k /\ k <= 31)
    BY <2>1, <2>2, InSignExtend, 13 - 1 = 12 DEF v
  <2> QED
    BY <1>4, <2>2, <2>3 DEF ImmShape
<1>5. CASE format = "U"
  <2>1. PICK v \in ImmSample(20) : imm = Shift(v, 12)
    BY <1>5 DEF Imms
  <2>2. imm \subseteq 12 .. 31
    BY <1>1, <2>1 DEF Shift
  <2> QED
    BY <1>5, <2>2 DEF ImmShape
<1>6. CASE format = "J"
  <2>1. PICK u \in ImmSample(20) : imm = SignExtend(Shift(u, 1), 21)
    BY <1>6 DEF Imms
  <2> DEFINE v == Shift(u, 1)
  <2>2. v \in SUBSET Int /\ v \subseteq 1 .. 20
    BY <1>1, <2>1 DEF Shift
  <2> HIDE DEF v
  <2>3. imm \subseteq Int /\ \A k \in Int : k \in imm <=> k \in v \/ (20 \in v /\ 21 <= k /\ k <= 31)
    BY <2>1, <2>2, InSignExtend, 21 - 1 = 20 DEF v
  <2> QED
    BY <1>6, <2>2, <2>3 DEF ImmShape
<1> QED
  BY <1>2, <1>3, <1>4, <1>5, <1>6

(* An instruction made of a row, registers and an immediate has the fields  *)
(* of its format.                                                           *)
LEMMA InstrFields ==
  ASSUME NEW row, Named(row), NEW regs \in (SUBSET (0 .. 4)) \X (SUBSET (0 .. 4)) \X (SUBSET (0 .. 4)),
         NEW imm, ImmShape(row.format, imm)
  PROVE  LET i == Instr(row, regs, imm) IN
         /\ Shape(i) /\ Named(i)
         /\ i.name = row.name /\ i.opcode = row.opcode /\ i.funct3 = row.funct3 /\ i.imm = imm
         /\ i.name = "lr.w" => i.rs2 = {}
<1> DEFINE i == Instr(row, regs, imm)
<1>1. /\ i.name = row.name /\ i.format = row.format /\ i.opcode = row.opcode
      /\ i.funct7 = row.funct7 /\ i.funct3 = row.funct3 /\ i.imm = imm
      /\ i.rd = IF "rd" \in FieldsOf[row.format] THEN regs[1] ELSE {}
      /\ i.rs1 = IF "rs1" \in FieldsOf[row.format] THEN regs[2] ELSE {}
      /\ i.rs2 = IF row.name = "lr.w" THEN {} ELSE IF "rs2" \in FieldsOf[row.format] THEN regs[3] ELSE {}
  BY DEF Instr
<1>2. regs[1] \subseteq 0 .. 4 /\ regs[2] \subseteq 0 .. 4 /\ regs[3] \subseteq 0 .. 4
  OBVIOUS
<1> HIDE DEF i
<1>3. /\ row.format \in {"U", "J"} => i.rs1 = {}
      /\ row.format \in {"I", "U", "J"} => i.rs2 = {}
      /\ row.format \in {"S", "B"} => i.rd = {}
  BY <1>1 DEF FieldsOf
<1>4. i.rd \subseteq 0 .. 4 /\ i.rs1 \subseteq 0 .. 4 /\ i.rs2 \subseteq 0 .. 4
  BY <1>1, <1>2
<1>5. Shape(i)
  BY <1>1, <1>3, <1>4, NamedShape DEF Shape
<1>6. Named(i)
  BY <1>1 DEF Named, InTable, IsCall, NamedAt
<1>7. i.name = "lr.w" => i.rs2 = {}
  BY <1>1
<1> QED
  BY <1>1, <1>5, <1>6, <1>7 DEF i

(* The three words with funct3 = 0 under SYSTEM, with their immediates.     *)
Calls == { <<"ecall", {}>>, <<"ebreak", {0}>>, <<"mret", {1, 8, 9}>> }

(* An instruction that is built has its row and the shape of its format.    *)
LEMMA InstrType ==
  ASSUME NEW i \in Instrs
  PROVE  /\ Shape(i) /\ Named(i)
         /\ i.name = "lr.w" => i.rs2 = {}
         /\ i.opcode = "SYSTEM" /\ i.funct3 = {} => <<i.name, i.imm>> \in Calls
<1>1. CASE i \in SystemCalls
  <2>1. PICK c \in Calls : i = Instr(Row(c[1], "I", "SYSTEM", {}, {}), << {}, {}, {} >>, c[2])
    BY <1>1 DEF SystemCalls, Calls
  <2> DEFINE row == Row(c[1], "I", "SYSTEM", {}, {})
  <2>2. /\ row.name = c[1] /\ row.format = "I" /\ row.opcode = "SYSTEM"
        /\ row.funct7 = {} /\ row.funct3 = {}
    BY DEF Row
  <2> HIDE DEF row
  <2>3. c = <<c[1], c[2]>> /\ c[1] \in {"ecall", "ebreak", "mret"} /\ ImmShape("I", c[2])
    BY DEF Calls, ImmShape
  <2>4. Named(row)
    BY <2>2, <2>3 DEF Named, IsCall
  <2>5. << {}, {}, {} >> \in (SUBSET (0 .. 4)) \X (SUBSET (0 .. 4)) \X (SUBSET (0 .. 4))
    OBVIOUS
  <2>6. i = Instr(row, << {}, {}, {} >>, c[2])
    BY <2>1 DEF row
  <2>7. /\ Shape(i) /\ Named(i) /\ i.name = c[1] /\ i.imm = c[2]
        /\ i.name = "lr.w" => i.rs2 = {}
    BY <2>2, <2>3, <2>4, <2>5, <2>6, InstrFields
  <2> QED
    BY <2>3, <2>7
<1>2. CASE i \notin SystemCalls
  <2>1. PICK row \in Table : \E regs \in Regs, imm \in Imms(row.format) : i = Instr(row, regs, imm)
    <3> DEFINE Of(row) == { Instr(row, r, imm) : r \in Regs, imm \in Imms(row.format) }
    <3>1. i \in UNION { Of(row) : row \in Table }
      BY <1>2 DEF Instrs
    <3>2. PICK row \in Table : i \in Of(row)
      <4> HIDE DEF Of
      <4> QED
        BY <3>1
    <3> QED
      BY <3>2
  <2>2. PICK regs \in Regs, imm \in Imms(row.format) : i = Instr(row, regs, imm)
    BY <2>1
  <2>3. regs \in (SUBSET (0 .. 4)) \X (SUBSET (0 .. 4)) \X (SUBSET (0 .. 4))
    BY IsaAssumption
  <2>4. Named(row) /\ ImmShape(row.format, imm)
    BY TableRow, NamedShape, ImmsShape DEF Named
  <2>5. /\ Shape(i) /\ Named(i) /\ i.opcode = row.opcode /\ i.funct3 = row.funct3
        /\ i.name = "lr.w" => i.rs2 = {}
    BY <2>2, <2>3, <2>4, InstrFields
  <2>6. ~ (row.opcode = "SYSTEM" /\ row.funct3 = {})
    <3> SUFFICES ASSUME row.opcode = "SYSTEM", row.funct3 = {} PROVE FALSE
      OBVIOUS
    <3>1. PICK n \in 1 .. 8 : row.funct3 = F3(n - 1) /\ NamedAt(row, n)
      BY TableRow DEF InTable
    <3>2. n # 1
      BY <3>1 DEF NamedAt, Others
    <3> QED
      BY <3>1, <3>2, Funct3Codes
  <2> QED
    BY <2>5, <2>6
<1> QED
  BY <1>1, <1>2

(* Decoder after InstrBuilder is the identity: the opcode, the fields of the*)
(* format and the immediate with its sign come back, for every instruction  *)
(* that has the shape of its format.                                        *)
THEOREM DecodeBuild ==
  ASSUME NEW i, Shape(i)
  PROVE  LET d == Decode(Build(i)) IN
         /\ d.opcode = i.opcode
         /\ \A field \in FieldsOf[i.format] : d[field] = i[field]
<1> DEFINE w == Build(i)
           d == Decode(w)
<1>1. /\ d.opcode = OpcodeOf(w) /\ d.rd = Extract(w, 11, 7) /\ d.funct3 = Extract(w, 14, 12)
      /\ d.rs1 = Extract(w, 19, 15) /\ d.rs2 = Extract(w, 24, 20) /\ d.funct7 = Extract(w, 31, 25)
      /\ d.imm = DecodeImm(w)
  BY DEF Decode
<1>2. i.format \in {"R", "I", "S", "B", "U", "J"}
  BY DEF Shape, FormatsOf, OpcodeBits
<1> HIDE DEF d
<1>3. /\ d.opcode = i.opcode
      /\ i.format \notin {"S", "B"} => d.rd = i.rd
      /\ i.format \notin {"U", "J"} => d.funct3 = i.funct3 /\ d.rs1 = i.rs1
      /\ i.format \in {"R", "S", "B"} => d.rs2 = i.rs2
      /\ i.format = "R" => d.funct7 = i.funct7
      /\ i.format # "R" => d.imm = i.imm
  BY <1>1, FieldsRead, ImmRead
<1>4. \A field \in FieldsOf[i.format] : d[field] = i[field]
  BY <1>2, <1>3 DEF FieldsOf
<1> QED
  BY <1>3, <1>4 DEF d

----------------------------------------------------------------------------
(* The invariant.                                                           *)

(* The inductive invariant: what each stage has made of the instruction.    *)
IInv ==
  /\ instr \in Instrs /\ before \in Machines(instr)
  /\ stage \in {"source", "word", "decoded", "done"}
  /\ stage # "source" => word = Build(instr)
  /\ stage \in {"decoded", "done"} => decoded = Decode(Build(instr)) /\ text = Disassemble(decoded)
  /\ stage # "done" => machine = before
  /\ stage = "done" =>
       /\ machine = ExecuteDecoded(decoded, before)
       /\ ~ (decoded.opcode = "SYSTEM" /\ decoded.funct3 = {})
       /\ decoded.opcode = "AMO" => AmoName(decoded.funct7) \notin {"lr.w", "sc.w"}

(* Every state of the specification is of this kind: a stage adds what it   *)
(* computes and leaves what it was given.                                   *)
THEOREM IsaInvariant == Spec => []IInv
<1>1. Init => IInv
  BY DEF Init, IInv
<1>2. IInv /\ [Next]_vars => IInv'
  <2> SUFFICES ASSUME IInv, [Next]_vars PROVE IInv'
    OBVIOUS
  <2>1. CASE Assemble
    BY <2>1 DEF IInv, Assemble
  <2>2. CASE DecodeWord
    BY <2>2 DEF IInv, DecodeWord
  <2>3. CASE ExecuteInstr
    <3>1. ExecuteDecoded(decoded, before)' = ExecuteDecoded(decoded, before)
      BY <2>3 DEF ExecuteInstr, ExecuteDecoded, ExecuteOp, ExecuteAMO
    <3> QED
      BY <2>3, <3>1 DEF IInv, ExecuteInstr
  <2>4. CASE UNCHANGED vars
    <3>1. ExecuteDecoded(decoded, before)' = ExecuteDecoded(decoded, before)
      BY <2>4 DEF vars, ExecuteDecoded, ExecuteOp, ExecuteAMO
    <3> QED
      BY <2>4, <3>1 DEF IInv, vars
  <2> QED
    BY <2>1, <2>2, <2>3, <2>4 DEF Next
<1> QED
  BY <1>1, <1>2, PTL DEF Spec

(* For all registers and immediates, Decoder gives back the fields and the  *)
(* sign-extended immediate that InstrBuilder was given.                     *)
THEOREM SpecDecodesAsBuilt == Spec => []DecodesAsBuilt
<1>1. IInv => DecodesAsBuilt
  BY InstrType, DecodeBuild DEF IInv, DecodesAsBuilt
<1> QED
  BY <1>1, IsaInvariant, PTL

----------------------------------------------------------------------------
(* The trace.                                                               *)

(* DecodeBuild, field by field.                                             *)
LEMMA DecodedFields ==
  ASSUME NEW i \in Instrs
  PROVE  LET d == Decode(Build(i)) IN
         /\ d.opcode = i.opcode
         /\ i.format \in {"R", "I", "U", "J"} => d.rd = i.rd
         /\ i.format \in {"R", "I", "S", "B"} => d.funct3 = i.funct3 /\ d.rs1 = i.rs1
         /\ i.format \in {"R", "S", "B"} => d.rs2 = i.rs2
         /\ i.format = "R" => d.funct7 = i.funct7
         /\ i.format \in {"I", "S", "B", "U", "J"} => d.imm = i.imm
<1> DEFINE d == Decode(Build(i))
<1>1. Shape(i)
  BY InstrType
<1>2. /\ d.opcode = i.opcode
      /\ \A field \in FieldsOf[i.format] : d[field] = i[field]
  BY <1>1, DecodeBuild
<1> HIDE DEF d
<1>3. CASE i.format = "R"
  BY <1>2, <1>3 DEF FieldsOf, d
<1>4. CASE i.format = "I"
  BY <1>2, <1>4 DEF FieldsOf, d
<1>5. CASE i.format \in {"S", "B"}
  BY <1>2, <1>5 DEF FieldsOf, d
<1>6. CASE i.format \in {"U", "J"}
  BY <1>2, <1>6 DEF FieldsOf, d
<1>7. i.format \in {"R", "I", "S", "B", "U", "J"}
  BY InstrType, NamedShape
<1> QED
  BY <1>3, <1>4, <1>5, <1>6, <1>7

(* The two low bits of funct7, acquire and release, are not in funct5.      *)
LEMMA AmoNameIs ==
  ASSUME NEW f \in SUBSET (0 .. 4), NEW q \in SUBSET {0, 1}
  PROVE  AmoName(Shift(f, 2) \cup q) = AmoName(Shift(f, 2))
<1>1. f \in SUBSET Int /\ q \in SUBSET Int
  OBVIOUS
<1> DEFINE s == Shift(f, 2)
           w == s \cup q
<1>2. s \in SUBSET Int /\ \A k \in Int : k \in s <=> k - 2 \in f
  BY <1>1, InShift
<1> HIDE DEF s
<1>3. w \in SUBSET Int /\ \A k \in Int : k \in w <=> k \in s \/ k \in q
  BY <1>1, <1>2
<1> HIDE DEF w
<1>4. /\ Extract(s, 6, 2) \subseteq Int /\ Extract(w, 6, 2) \subseteq Int
      /\ \A k \in Int : k \in Extract(s, 6, 2) <=> k + 2 \in s /\ 0 <= k /\ k + 2 <= 6
      /\ \A k \in Int : k \in Extract(w, 6, 2) <=> k + 2 \in w /\ 0 <= k /\ k + 2 <= 6
  BY <1>2, <1>3, InExtract
<1>5. \A k \in Int : 0 <= k => k + 2 \notin q
  OBVIOUS
<1>6. Extract(w, 6, 2) = Extract(s, 6, 2)
  BY <1>3, <1>4, <1>5
<1> DEFINE NameOf(e) == LET named == { n \in AmoNames : n[1] = e } IN
                        IF named = {} THEN "unknown" ELSE (CHOOSE n \in named : TRUE)[2]
<1>7. AmoName(w) = NameOf(Extract(w, 6, 2)) /\ AmoName(s) = NameOf(Extract(s, 6, 2))
  BY DEF AmoName
<1> HIDE DEF NameOf
<1>8. AmoName(w) = AmoName(s)
  BY <1>6, <1>7
<1> QED
  BY <1>8 DEF w, s

(* Names of an AMO are those of the table, or none.                         *)
LEMMA AmoNameType ==
  ASSUME NEW f
  PROVE  AmoName(f) \in AmoWrites \cup {"lr.w", "sc.w", "unknown"}
<1> DEFINE named == { n \in AmoNames : n[1] = Extract(f, 6, 2) }
<1>1. named \subseteq AmoNames
  OBVIOUS
<1>2. AmoName(f) = IF named = {} THEN "unknown" ELSE (CHOOSE n \in named : TRUE)[2]
  BY DEF AmoName
<1> HIDE DEF named
<1>3. \A n \in AmoNames : n[2] \in AmoWrites \cup {"lr.w", "sc.w"}
  BY DEF AmoNames, AmoWrites
<1> QED
  BY <1>1, <1>2, <1>3

(* Names that no list of names has.                                         *)
Special == {"ecall", "ebreak", "mret", "fence", "lr.w", "sc.w"}

LEMMA TableNames ==
  ASSUME NEW n \in 1 .. 8
  PROVE  /\ OpNames[n] \notin Special \cup {"unknown"} /\ AltNames[n] \notin Special \cup {"unknown"}
         /\ MulNames[n] \notin Special \cup {"unknown"} /\ ImmNames[n] \notin Special \cup {"unknown"}
         /\ LoadNames[n] \notin Special /\ StoreNames[n] \notin Special
         /\ BranchNames[n] \notin Special /\ CsrNames[n] \notin Special
<1>2. \A k \in 1 .. 8 : OpNames[k] \notin Special \cup {"unknown"}
  BY DEF Special, OpNames
<1>3. \A k \in 1 .. 8 : AltNames[k] \notin Special \cup {"unknown"}
  BY DEF Special, AltNames, OpNames
<1>4. \A k \in 1 .. 8 : MulNames[k] \notin Special \cup {"unknown"}
  BY DEF Special, MulNames
<1>5. \A k \in 1 .. 8 : ImmNames[k] \notin Special \cup {"unknown"}
  BY DEF Special, ImmNames
<1>6. \A k \in 1 .. 8 : LoadNames[k] \notin Special
  BY DEF Special, LoadNames
<1>7. \A k \in 1 .. 8 : StoreNames[k] \notin Special
  BY DEF Special, StoreNames
<1>8. \A k \in 1 .. 8 : BranchNames[k] \notin Special
  BY DEF Special, BranchNames
<1>9. \A k \in 1 .. 8 : CsrNames[k] \notin Special
  BY DEF Special, CsrNames
<1> QED
  BY <1>2, <1>3, <1>4, <1>5, <1>6, <1>7, <1>8, <1>9

(* The name of the decoded instruction is that of the one that was built.   *)
LEMMA MnemonicRead ==
  ASSUME NEW i \in Instrs
  PROVE  Mnemonic(Decode(Build(i))) = i.name
<1> DEFINE d == Decode(Build(i))
<1>1. /\ d.opcode = i.opcode
      /\ i.format \in {"R", "I", "S", "B"} => d.funct3 = i.funct3
      /\ i.format = "R" => d.funct7 = i.funct7
      /\ i.format \in {"I", "S", "B", "U", "J"} => d.imm = i.imm
  BY DecodedFields
<1>2. Named(i) /\ (i.opcode = "SYSTEM" /\ i.funct3 = {} => <<i.name, i.imm>> \in Calls)
  BY InstrType
<1> HIDE DEF d
<1>3. CASE IsCall(i)
  <2>1. d.opcode = "SYSTEM" /\ d.funct3 = {} /\ <<i.name, d.imm>> \in Calls
    BY <1>1, <1>2, <1>3 DEF IsCall
  <2>2. Mnemonic(d) = CASE d.imm = {} -> "ecall" [] d.imm = {0} -> "ebreak"
                        [] d.imm = {1, 8, 9} -> "mret" [] OTHER -> "unknown"
    BY <2>1 DEF Mnemonic
  <2>3. {0} # {} /\ {1, 8, 9} # {} /\ {0} # {1, 8, 9}
    OBVIOUS
  <2>4. CASE i.name = "ecall" /\ d.imm = {}
    BY <2>2, <2>3, <2>4 DEF d
  <2>5. CASE i.name = "ebreak" /\ d.imm = {0}
    BY <2>2, <2>3, <2>5 DEF d
  <2>6. CASE i.name = "mret" /\ d.imm = {1, 8, 9}
    BY <2>2, <2>3, <2>6 DEF d
  <2> QED
    BY <2>1, <2>4, <2>5, <2>6 DEF Calls, d
<1>4. CASE InTable(i)
  <2>1. PICK n \in 1 .. 8 : i.funct3 = F3(n - 1) /\ NamedAt(i, n)
    BY <1>4 DEF InTable
  <2>2. Num(F3(n - 1)) + 1 = n
    BY NumOfFunct3
  <2>3. /\ F3(n - 1) = {} <=> n = 1
        /\ F3(n - 1) = {0, 2} <=> n = 6
    BY Funct3Codes
  <2>4. \A names : i.format \in {"R", "I", "S", "B"} => By(names, d) = names[n]
    BY <1>1, <2>1, <2>2 DEF By
  <2>5. CASE i.opcode = "OP"
    <3>1. i.format = "R" /\ d.funct7 = i.funct7
      BY <1>1, <2>1, <2>5 DEF NamedAt, Others
    <3>2. Mnemonic(d) = By(IF d.funct7 = F7_MEXT THEN MulNames
                           ELSE IF d.funct7 = F7_ALT THEN AltNames ELSE OpNames, d)
      BY <1>1, <2>5 DEF Mnemonic
    <3>3. F7_MEXT # F7_ALT /\ F7_MEXT # F7_NORMAL /\ F7_ALT # F7_NORMAL
      BY DEF F7_MEXT, F7_ALT, F7_NORMAL
    <3>4. CASE i.funct7 = F7_NORMAL /\ i.name = OpNames[n]
      BY <2>4, <3>1, <3>2, <3>3, <3>4 DEF d
    <3>5. CASE i.funct7 = F7_ALT /\ i.name = AltNames[n]
      BY <2>4, <3>1, <3>2, <3>3, <3>5 DEF d
    <3>6. CASE i.funct7 = F7_MEXT /\ i.name = MulNames[n]
      BY <2>4, <3>1, <3>2, <3>3, <3>6 DEF d
    <3> QED
      BY <2>1, <2>5, <3>4, <3>5, <3>6 DEF NamedAt, Others
  <2>6. CASE i.opcode = "OP_IMM"
    <3>1. i.format \in {"R", "I"} /\ d.funct3 = F3(n - 1)
      BY <1>1, <2>1, <2>6 DEF NamedAt, Others
    <3>2. Mnemonic(d) = IF d.funct3 = {0, 2} /\ d.funct7 = F7_ALT THEN "srai" ELSE By(ImmNames, d)
      BY <1>1, <2>6 DEF Mnemonic
    <3>3. F7_ALT # F7_NORMAL
      BY DEF F7_ALT, F7_NORMAL
    <3>4. CASE i.format = "I" /\ n \notin {2, 6} /\ i.name = ImmNames[n]
      BY <2>3, <2>4, <3>1, <3>2, <3>4 DEF d
    <3>5. CASE i.format = "R" /\ i.funct7 = F7_NORMAL /\ i.name = ImmNames[n]
      BY <1>1, <2>4, <3>1, <3>2, <3>3, <3>5 DEF d
    <3>6. CASE i.format = "R" /\ i.funct7 = F7_ALT /\ n = 6 /\ i.name = "srai"
      BY <1>1, <2>3, <3>1, <3>2, <3>6 DEF d
    <3> QED
      BY <2>1, <2>6, <3>4, <3>5, <3>6 DEF NamedAt, Others
  <2>7. CASE i.opcode = "LOAD"
    BY <1>1, <2>1, <2>4, <2>7 DEF Mnemonic, NamedAt, Others, d
  <2>8. CASE i.opcode = "STORE"
    BY <1>1, <2>1, <2>4, <2>8 DEF Mnemonic, NamedAt, Others, d
  <2>9. CASE i.opcode = "BRANCH"
    BY <1>1, <2>1, <2>4, <2>9 DEF Mnemonic, NamedAt, Others, d
  <2>10. CASE i.opcode = "SYSTEM"
    <3>1. i.format = "I" /\ n # 1 /\ i.name = CsrNames[n]
      BY <2>1, <2>10 DEF NamedAt, Others
    <3>2. d.opcode = "SYSTEM" /\ d.funct3 # {}
      BY <1>1, <2>1, <2>3, <2>10, <3>1
    <3>3. Mnemonic(d) = By(CsrNames, d)
      BY <3>2 DEF Mnemonic
    <3> QED
      BY <2>4, <3>1, <3>3 DEF d
  <2>11. CASE i.opcode = "AMO"
    <3>1. i.format = "R"
      BY <2>1, <2>11 DEF NamedAt, Others
    <3>2. PICK f \in SUBSET (0 .. 4), q \in SUBSET {0, 1} :
            i.funct7 = Shift(f, 2) \cup q /\ i.name = AmoName(Shift(f, 2))
      BY <2>1, <2>11 DEF NamedAt, Others
    <3>3. Mnemonic(d) = AmoName(d.funct7)
      BY <1>1, <2>11 DEF Mnemonic
    <3>4. AmoName(d.funct7) = AmoName(Shift(f, 2))
      BY <1>1, <3>1, <3>2, AmoNameIs
    <3> QED
      BY <3>2, <3>3, <3>4 DEF d
  <2>12. CASE <<i.opcode, i.format, i.name>> \in Others
    BY <1>1, <2>12 DEF Mnemonic, Others, d
  <2> QED
    BY <2>1, <2>5, <2>6, <2>7, <2>8, <2>9, <2>10, <2>11, <2>12 DEF NamedAt
<1> QED
  BY <1>2, <1>3, <1>4 DEF Named

(* The parts of an immediate that the trace shows of CSRs and of LUI.       *)
LEMMA ImmFields ==
  ASSUME NEW imm, imm \subseteq 0 .. 31
  PROVE  /\ Extract(imm, 11, 0) = imm \cap 0 .. 11
         /\ imm \subseteq 12 .. 31 => Extract(imm, 31, 12) = { k - 12 : k \in imm }
<1>1. imm \in SUBSET Int
  OBVIOUS
<1>2. Extract(imm, 11, 0) = imm \cap 0 .. 11
  <2> DEFINE e == Extract(imm, 11, 0)
  <2>1. e \subseteq Int /\ \A k \in Int : k \in e <=> k + 0 \in imm /\ 0 <= k /\ k + 0 <= 11
    BY <1>1, InExtract
  <2> HIDE DEF e
  <2>2. \A k \in Int : k + 0 = k
    OBVIOUS
  <2>3. \A k \in Int : k \in e <=> k \in imm \cap 0 .. 11
    BY <2>1, <2>2
  <2>4. e = imm \cap 0 .. 11
    BY <1>1, <2>1, <2>3
  <2> QED
    BY <2>4 DEF e
<1>3. ASSUME imm \subseteq 12 .. 31 PROVE Extract(imm, 31, 12) = { k - 12 : k \in imm }
  <2>1. imm \cap 12 .. 31 = imm
    BY <1>3
  <2> QED
    BY <2>1 DEF Extract
<1> QED
  BY <1>2, <1>3

(* The operands in the trace are those of the instruction that was built.   *)
LEMMA OperandsRead ==
  ASSUME NEW i \in Instrs, i.name # "unknown"
  PROVE  /\ Shown(Decode(Build(i))) = Operands(i)
         /\ \E a, b, c : Operands(i) \in {<<>>, <<a, b>>, <<a, b, c>>}
<1> DEFINE d == Decode(Build(i))
<1>1. /\ d.opcode = i.opcode
      /\ i.format \in {"R", "I", "U", "J"} => d.rd = i.rd
      /\ i.format \in {"R", "I", "S", "B"} => d.funct3 = i.funct3 /\ d.rs1 = i.rs1
      /\ i.format \in {"R", "S", "B"} => d.rs2 = i.rs2
      /\ i.format = "R" => d.funct7 = i.funct7
      /\ i.format \in {"I", "S", "B", "U", "J"} => d.imm = i.imm
  BY DecodedFields
<1>2. Named(i) /\ Shape(i)
  BY InstrType
<1>3. Mnemonic(d) = i.name
  BY MnemonicRead
<1>4. i.imm \subseteq 0 .. 31
  BY <1>2 DEF Shape, ImmShape
<1> SUFFICES /\ Shown(d) = Operands(i)
             /\ \E a, b, c : Operands(i) \in {<<>>, <<a, b>>, <<a, b, c>>}
  OBVIOUS
<1> HIDE DEF d
<1>5. CASE IsCall(i)
  <2>1. d.opcode = "SYSTEM" /\ d.funct3 = {} /\ i.name \in {"ecall", "ebreak", "mret"}
    BY <1>1, <1>5 DEF IsCall
  <2>2. Shown(d) = <<>>
    BY <2>1 DEF Shown
  <2>3. Operands(i) = <<>>
    BY <2>1 DEF Operands
  <2> QED
    BY <2>2, <2>3
<1>6. CASE InTable(i)
  <2>1. PICK n \in 1 .. 8 : i.funct3 = F3(n - 1) /\ NamedAt(i, n)
    BY <1>6 DEF InTable
  <2>2. /\ F3(n - 1) = {} <=> n = 1
        /\ F3(n - 1) = {0} <=> n = 2
        /\ F3(n - 1) = {0, 2} <=> n = 6
    BY Funct3Codes
  <2>3. CASE i.opcode \in {"OP", "OP_IMM"}
    <3>1. i.name \notin Special
      BY <2>1, <2>3, TableNames DEF NamedAt, Others, Special
    <3>2. CASE i.format = "R"
      <4>1. i.opcode = "OP" \/ n \in {2, 6}
        BY <2>1, <2>3, <3>2 DEF NamedAt, Others
      <4>2. Shown(d) = <<d.rd, d.rs1, d.rs2>>
        BY <1>1, <2>1, <2>2, <2>3, <3>2, <4>1 DEF Shown
      <4>3. Operands(i) = <<i.rd, i.rs1, i.rs2>>
        BY <2>3, <3>1, <3>2 DEF Operands, Special
      <4> QED
        BY <1>1, <3>2, <4>2, <4>3
    <3>3. CASE i.format = "I"
      <4>1. i.opcode = "OP_IMM" /\ n \notin {2, 6}
        BY <2>1, <2>3, <3>3 DEF NamedAt, Others
      <4>2. Shown(d) = <<d.rd, d.rs1, d.imm>>
        BY <1>1, <2>1, <2>2, <2>3, <3>3, <4>1 DEF Shown
      <4>3. Operands(i) = <<i.rd, i.rs1, i.imm>>
        BY <2>3, <3>1, <3>3 DEF Operands, Special
      <4> QED
        BY <1>1, <3>3, <4>2, <4>3
    <3> QED
      BY <2>1, <2>3, <3>2, <3>3 DEF NamedAt, Others
  <2>4. CASE i.opcode = "LOAD"
    <3>1. i.name \notin Special /\ i.format = "I"
      BY <2>1, <2>4, TableNames DEF NamedAt, Others
    <3>2. Shown(d) = <<d.rd, d.imm, d.rs1>>
      BY <1>1, <2>4 DEF Shown
    <3>3. Operands(i) = <<i.rd, i.imm, i.rs1>>
      BY <2>4, <3>1 DEF Operands, Special
    <3> QED
      BY <1>1, <3>1, <3>2, <3>3
  <2>5. CASE i.opcode = "STORE"
    <3>1. i.name \notin Special /\ i.format = "S"
      BY <2>1, <2>5, TableNames DEF NamedAt, Others
    <3>2. Shown(d) = <<d.rs2, d.imm, d.rs1>>
      BY <1>1, <2>5 DEF Shown
    <3>3. Operands(i) = <<i.rs2, i.imm, i.rs1>>
      BY <2>5, <3>1 DEF Operands, Special
    <3> QED
      BY <1>1, <3>1, <3>2, <3>3
  <2>6. CASE i.opcode = "BRANCH"
    <3>1. i.name \notin Special /\ i.format = "B"
      BY <2>1, <2>6, TableNames DEF NamedAt, Others
    <3>2. Shown(d) = <<d.rs1, d.rs2, d.imm>>
      BY <1>1, <2>6 DEF Shown
    <3>3. Operands(i) = <<i.rs1, i.rs2, i.imm>>
      BY <2>6, <3>1 DEF Operands, Special
    <3> QED
      BY <1>1, <3>1, <3>2, <3>3
  <2>7. CASE i.opcode = "SYSTEM"
    <3>1. i.name \notin Special /\ i.format = "I" /\ n # 1
      BY <2>1, <2>7, TableNames DEF NamedAt, Others
    <3>2. Shown(d) = <<d.rd, Extract(d.imm, 11, 0), d.rs1>>
      BY <1>1, <2>1, <2>2, <2>7, <3>1 DEF Shown
    <3>3. Operands(i) = <<i.rd, i.imm \cap 0 .. 11, i.rs1>>
      BY <2>7, <3>1 DEF Operands, Special
    <3> QED
      BY <1>1, <1>4, <3>1, <3>2, <3>3, ImmFields
  <2>8. CASE i.opcode = "AMO"
    <3>1. i.format = "R"
      BY <2>1, <2>8 DEF NamedAt, Others
    <3>2. AmoName(d.funct7) = i.name
      BY <1>1, <1>3, <2>8 DEF Mnemonic
    <3>3. i.name \notin {"ecall", "ebreak", "mret", "fence"}
      BY <3>2, AmoNameType DEF AmoWrites
    <3>4. CASE i.name = "lr.w"
      <4>1. Shown(d) = <<d.rd, d.rs1>> /\ Operands(i) = <<i.rd, i.rs1>>
        BY <1>1, <2>8, <3>2, <3>4 DEF Shown, Operands
      <4> QED
        BY <1>1, <3>1, <4>1
    <3>5. CASE i.name # "lr.w"
      <4>1. Shown(d) = <<d.rd, d.rs2, d.rs1>> /\ Operands(i) = <<i.rd, i.rs2, i.rs1>>
        BY <1>1, <2>8, <3>2, <3>3, <3>5 DEF Shown, Operands
      <4> QED
        BY <1>1, <3>1, <4>1
    <3> QED
      BY <3>4, <3>5
  <2>9. CASE i.opcode = "JALR"
    <3>1. i.name = "jalr" /\ i.format = "I"
      BY <2>1, <2>9 DEF NamedAt, Others
    <3>2. Shown(d) = <<d.rd, d.rs1, d.imm>> /\ Operands(i) = <<i.rd, i.rs1, i.imm>>
      BY <1>1, <2>9, <3>1 DEF Shown, Operands
    <3> QED
      BY <1>1, <3>1, <3>2
  <2>10. CASE i.opcode = "MISC_MEM"
    <3>1. i.name = "fence"
      BY <2>1, <2>10 DEF NamedAt, Others
    <3>2. Shown(d) = <<>> /\ Operands(i) = <<>>
      BY <1>1, <2>10, <3>1 DEF Shown, Operands
    <3> QED
      BY <3>2
  <2>11. CASE i.opcode \in {"LUI", "AUIPC"}
    <3>1. i.name \in {"lui", "auipc"} /\ i.format = "U"
      BY <2>1, <2>11 DEF NamedAt, Others
    <3>2. Shown(d) = <<d.rd, Extract(d.imm, 31, 12)>>
      BY <1>1, <2>11 DEF Shown
    <3>3. Operands(i) = <<i.rd, { k - 12 : k \in i.imm }>>
      BY <2>11, <3>1 DEF Operands
    <3>4. i.imm \subseteq 12 .. 31
      BY <1>2, <3>1 DEF Shape, ImmShape
    <3>5. Extract(i.imm, 31, 12) = { k - 12 : k \in i.imm }
      BY <1>4, <3>4, ImmFields
    <3> QED
      BY <1>1, <3>1, <3>2, <3>3, <3>5
  <2>12. CASE i.opcode = "JAL"
    <3>1. i.name = "jal" /\ i.format = "J"
      BY <2>1, <2>12 DEF NamedAt, Others
    <3>2. Shown(d) = <<d.rd, d.imm>> /\ Operands(i) = <<i.rd, i.imm>>
      BY <1>1, <2>12, <3>1 DEF Shown, Operands
    <3> QED
      BY <1>1, <3>1, <3>2
  <2> QED
    BY <2>1, <2>3, <2>4, <2>5, <2>6, <2>7, <2>8, <2>9, <2>10, <2>11, <2>12 DEF NamedAt, Others
<1> QED
  BY <1>2, <1>5, <1>6 DEF Named

(* The line of the trace, and when it says "unknown".                       *)
LEMMA TextRead ==
  ASSUME NEW i \in Instrs
  PROVE  LET t == Disassemble(Decode(Build(i))) IN
         /\ t = IF i.name = "unknown" THEN <<"unknown">> ELSE <<i.name>> \o Operands(i)
         /\ t = <<"unknown">> <=> i.name = "unknown"
<1> DEFINE d == Decode(Build(i))
           t == Disassemble(d)
<1>1. Mnemonic(d) = i.name
  BY MnemonicRead
<1>2. t = IF Mnemonic(d) = "unknown" THEN <<"unknown">> ELSE <<Mnemonic(d)>> \o Shown(d)
  BY DEF Disassemble
<1> HIDE DEF d, t
<1>3. CASE i.name = "unknown"
  BY <1>1, <1>2, <1>3 DEF d, t
<1>4. CASE i.name # "unknown"
  <2>1. t = <<i.name>> \o Operands(i)
    BY <1>1, <1>2, <1>4, OperandsRead DEF d
  <2>2. PICK a, b, c : Operands(i) \in {<<>>, <<a, b>>, <<a, b, c>>}
    BY <1>4, OperandsRead
  <2>3. Operands(i) \in Seq({a, b, c})
    <3>1. <<>> \in Seq({a, b, c}) /\ <<a, b>> \in Seq({a, b, c}) /\ <<a, b, c>> \in Seq({a, b, c})
      OBVIOUS
    <3> QED
      BY <2>2, <3>1
  <2>4. t[1] = i.name
    BY <2>1, <2>3
  <2>5. <<"unknown">>[1] = "unknown"
    OBVIOUS
  <2> QED
    BY <1>4, <2>1, <2>4, <2>5 DEF d, t
<1> QED
  BY <1>3, <1>4

----------------------------------------------------------------------------
(* Execution.                                                               *)

(* The registers of an instruction, and a machine that has them.            *)
Registers(i) == {i.rd, i.rs1, i.rs2}

(* A machine with c in the cell, v in r unless that is x0, and p in pc.     *)
After(m, c, r, v, p) ==
  [regs |-> IF r = {} THEN m.regs ELSE [m.regs EXCEPT ![r] = v], cell |-> c, pc |-> p, trap |-> m.trap]

IsMachine(i, m) ==
  /\ m.regs \in [Registers(i) -> UWords] /\ m.cell \in UWords /\ m.pc = 8 /\ m.trap = "no"
  /\ m = [regs |-> m.regs, cell |-> m.cell, pc |-> m.pc, trap |-> m.trap]

(* Truncating keeps the low two bits: a word has at least two.              *)
LEMMA UWordMod4 ==
  /\ 4 \in Nat \ {0} /\ 8 \in UWords /\ 12 \in UWords /\ 5 \in UWords /\ 0 \in UWords
  /\ \A n \in Int : (UWord(n) % 4) = n % 4
<1> DEFINE q == Pow2[XLEN - 2]
           four == 4
<1>1. XLEN - 2 \in Nat /\ XLEN - 4 \in Nat
  BY WordSize
<1>2. q \in Nat \ {0} /\ Pow2[XLEN - 4] \in Nat \ {0} /\ four \in Nat \ {0}
  BY <1>1, Pow2Pos
<1>3. Pow2[0] = 1 /\ Pow2[1] = 2 /\ Pow2[2] = 4 /\ Pow2[3] = 8 /\ Pow2[4] = 16
  <2>1. /\ Pow2[0 + 1] = 2 * Pow2[0] /\ Pow2[1 + 1] = 2 * Pow2[1]
        /\ Pow2[2 + 1] = 2 * Pow2[2] /\ Pow2[3 + 1] = 2 * Pow2[3]
    BY Pow2Step
  <2> QED
    BY <2>1, Pow2Step
<1>4. Pow2[XLEN] = four * q
  <2>1. Pow2[(XLEN - 2) + 2] = Pow2[XLEN - 2] * Pow2[2]
    BY <1>1, Pow2Plus
  <2>2. (XLEN - 2) + 2 = XLEN
    BY WordSize
  <2> QED
    BY <1>2, <1>3, <2>1, <2>2
<1>5. Pow2[XLEN] >= 16
  <2>1. Pow2[4] <= Pow2[XLEN]
    BY WordSize, Pow2Mono
  <2> QED
    BY <1>3, <2>1, WordSize
<1>6. Pow2[XLEN] \in Int
  BY WordSize
<1> HIDE DEF q, four
<1>7. \A n \in Int : (n % (four * q)) % four = n % four
  BY <1>2, DivDiv
<1>8. \A n \in Int : (UWord(n) % four) = n % four
  BY <1>4, <1>7 DEF UWord
<1> QED
  BY <1>2, <1>5, <1>6, <1>8 DEF UWords, four

LEMMA MachineType ==
  ASSUME NEW i \in Instrs, NEW m \in Machines(i)
  PROVE  IsMachine(i, m)
<1> DEFINE R(o) == [r \in {i.rd, i.rs1, i.rs2} |->
                     CASE r = {} -> 0 [] r = i.rs1 -> o[1] [] r = i.rs2 -> o[2] [] OTHER -> 5]
           O == { n \in Inputs(i) : /\ i.rs1 = {} => n[1] = 0
                                    /\ i.rs2 = {} => n[2] = 0
                                    /\ i.rs1 = i.rs2 => n[1] = n[2] }
<1>1. PICK o \in O : m = [regs |-> R(o), cell |-> o[3], pc |-> 8, trap |-> "no"]
  BY DEF Machines
<1>2. O \subseteq UWords \X UWords \X UWords
  BY IsaAssumption
<1>3. o[1] \in UWords /\ o[2] \in UWords /\ o[3] \in UWords
  BY <1>2
<1>4. /\ i.rs1 = {} => o[1] = 0
      /\ i.rs2 = {} => o[2] = 0
      /\ i.rs1 = i.rs2 => o[1] = o[2]
  BY <1>1
<1> HIDE DEF O
<1>5. \A r : (CASE r = {} -> 0 [] r = i.rs1 -> o[1] [] r = i.rs2 -> o[2] [] OTHER -> 5) \in UWords
  BY <1>3, <1>4, UWordMod4
<1>6. R(o) \in [Registers(i) -> UWords]
  BY <1>5 DEF Registers
<1> HIDE DEF R
<1> QED
  BY <1>1, <1>3, <1>6 DEF IsMachine

LEMMA GetType ==
  ASSUME NEW i, NEW m, IsMachine(i, m), NEW r \in Registers(i)
  PROVE  Get(m, r) \in UWords
BY UWordMod4 DEF IsMachine, Get

(* The parts of a machine, as the steps of an execution change them.        *)
Cpu(g, k, a, t) == [regs |-> g, cell |-> k, pc |-> a, trap |-> t]

Written(g, r, v) == IF r = {} THEN g ELSE [g EXCEPT ![r] = v]

LEMMA CpuParts ==
  ASSUME NEW g, NEW k, NEW a, NEW t
  PROVE  /\ Advance(Cpu(g, k, a, t)) = Cpu(g, k, UWord(a + 4), t)
         /\ \A r, v : Set(Cpu(g, k, a, t), r, v) = Cpu(Written(g, r, v), k, a, t)
         /\ \A c : [Cpu(g, k, a, t) EXCEPT !.cell = c] = Cpu(g, c, a, t)
         /\ \A p : [Cpu(g, k, a, t) EXCEPT !.pc = p] = Cpu(g, k, p, t)
<1>1. ASSUME NEW r, NEW v PROVE Set(Cpu(g, k, a, t), r, v) = Cpu(Written(g, r, v), k, a, t)
  <2>1. CASE r = {}
    BY <2>1 DEF Set, Written
  <2>2. CASE r # {}
    BY <2>2 DEF Set, Written, Cpu
  <2> QED
    BY <2>1, <2>2
<1>2. Advance(Cpu(g, k, a, t)) = Cpu(g, k, UWord(a + 4), t)
  BY DEF Advance, Cpu
<1>3. ASSUME NEW c PROVE [Cpu(g, k, a, t) EXCEPT !.cell = c] = Cpu(g, c, a, t)
  BY DEF Cpu
<1>4. ASSUME NEW p PROVE [Cpu(g, k, a, t) EXCEPT !.pc = p] = Cpu(g, k, p, t)
  BY DEF Cpu
<1> QED
  BY <1>1, <1>2, <1>3, <1>4

(* Each way in which an instruction may end is After of something.          *)
LEMMA StepsAre ==
  ASSUME NEW i, NEW m, IsMachine(i, m)
  PROVE  LET next == UWord(m.pc + 4) IN
         /\ \A r, v : Advance(Set(m, r, v)) = After(m, m.cell, r, v, next)
         /\ \A r, v, c : Advance(Set([m EXCEPT !.cell = c], r, v)) = After(m, c, r, v, next)
         /\ \A v, c : Advance([m EXCEPT !.cell = c]) = After(m, c, {}, v, next)
         /\ \A v : Advance(m) = After(m, m.cell, {}, v, next)
         /\ \A r, v, p : [Set(m, r, v) EXCEPT !.pc = p] = After(m, m.cell, r, v, p)
<1> DEFINE next == UWord(m.pc + 4)
           g == m.regs
           k == m.cell
           a == m.pc
           t == m.trap
<1>1. m = Cpu(g, k, a, t)
  BY DEF IsMachine, Cpu
<1>2. /\ \A r, v, e, q : After(m, e, r, v, q) = Cpu(Written(g, r, v), e, q, t)
      /\ \A v, e, q : After(m, e, {}, v, q) = Cpu(g, e, q, t)
  BY DEF After, Cpu, Written
<1>3. next = UWord(a + 4)
  OBVIOUS
<1> HIDE DEF g, k, a, t, next
<1>4. \A h, e : Advance(Cpu(h, e, a, t)) = Cpu(h, e, next, t)
  BY <1>3, CpuParts
<1>5. \A e, r, v : Set(Cpu(g, e, a, t), r, v) = Cpu(Written(g, r, v), e, a, t)
  BY CpuParts
<1>6. \A c : [m EXCEPT !.cell = c] = Cpu(g, c, a, t)
  BY <1>1, CpuParts
<1>7. \A r, v : Advance(Set(m, r, v)) = After(m, k, r, v, next)
  BY <1>1, <1>2, <1>4, <1>5
<1>8. \A r, v, c : Advance(Set([m EXCEPT !.cell = c], r, v)) = After(m, c, r, v, next)
  BY <1>2, <1>4, <1>5, <1>6
<1>9. \A v, c : Advance([m EXCEPT !.cell = c]) = After(m, c, {}, v, next)
  BY <1>2, <1>4, <1>6
<1>10. \A v : Advance(m) = After(m, k, {}, v, next)
  BY <1>1, <1>2, <1>4
<1>11. \A r, v, p : [Set(m, r, v) EXCEPT !.pc = p] = After(m, k, r, v, p)
  <2>1. \A h, p : [Cpu(h, k, a, t) EXCEPT !.pc = p] = Cpu(h, k, p, t)
    BY CpuParts
  <2>2. ASSUME NEW r, NEW v, NEW p PROVE [Set(m, r, v) EXCEPT !.pc = p] = After(m, k, r, v, p)
    <3>1. Set(m, r, v) = Cpu(Written(g, r, v), k, a, t)
      BY <1>1, <1>5
    <3> QED
      BY <1>2, <2>1, <3>1
  <2> QED
    BY <2>2
<1> QED
  BY <1>7, <1>8, <1>9, <1>10, <1>11 DEF next, k

LEMMA JumpIs ==
  ASSUME NEW i, NEW m, IsMachine(i, m)
  PROVE  \A v, p : [m EXCEPT !.pc = p] = After(m, m.cell, {}, v, p)
<1> DEFINE g == m.regs
           k == m.cell
           a == m.pc
           t == m.trap
<1>1. m = Cpu(g, k, a, t)
  BY DEF IsMachine, Cpu
<1>2. \A v, p : After(m, k, {}, v, p) = Cpu(g, k, p, t)
  BY DEF After, Cpu
<1> HIDE DEF g, k, a, t
<1>3. \A p : [m EXCEPT !.pc = p] = Cpu(g, k, p, t)
  BY <1>1, CpuParts
<1> QED
  BY <1>2, <1>3 DEF k

(* x0 is left alone, as is a register that is given the value it has.       *)
LEMMA AfterSame ==
  ASSUME NEW i, NEW m, IsMachine(i, m), NEW r, NEW p, NEW c
  PROVE  After(m, c, {}, m.regs[r], p) = After(m, c, r, m.regs[r], p)
<1>1. m.regs = [m.regs EXCEPT ![r] = m.regs[r]]
  BY DEF IsMachine
<1> QED
  BY <1>1 DEF After

(* What the parts of the machine come to: c in the cell, v in rd, p in pc.  *)
Effect(i, m, c, v, p) ==
  LET name == i.name
      x    == Get(m, i.rs1)
      y    == Get(m, i.rs2)
      imm  == ImmWord(i.imm)
      from == ByteBits * ((x + imm) % 4)
      zimm == ImmWord(i.rs1)
  IN  /\ c # m.cell => i.opcode \in {"STORE", "AMO", "SYSTEM"}
      /\ i.opcode \in {"JAL", "JALR"} => v = UWord(m.pc + 4)
      /\ p % 4 = 0
      /\ i.opcode = "OP"     => Means(name, x, y, v)
      /\ i.opcode = "OP_IMM" => Means(name, x, IF i.format = "R" THEN ImmWord(i.rs2) ELSE imm, v)
      /\ i.opcode \in {"LUI", "AUIPC"} => Means(name, m.pc, imm, v)
      /\ i.opcode = "LOAD"   => Loads(name, m.cell, from, v)
      /\ i.opcode = "STORE"  => Stores(name, m.cell, from, y, c)
      /\ i.opcode = "BRANCH" => p = UWord(m.pc + IF Takes(name, x, y) THEN imm ELSE 4)
      /\ i.opcode = "JAL"    => p = UWord(m.pc + imm)
      /\ i.opcode = "JALR"   => p \in { UWord(x + imm), UWord(x + imm) - 1 }
      /\ i.opcode = "AMO"    => v = m.cell /\ Means(name, m.cell, y, c)
      /\ i.opcode = "SYSTEM" =>
           /\ v = m.cell
           /\ IF {10, 11} \subseteq i.imm THEN c = m.cell
              ELSE Means(name, m.cell, IF name \in {"csrrw", "csrrs", "csrrc"} THEN x ELSE zimm, c)
      /\ i.opcode = "MISC_MEM" => c = m.cell /\ v = m.regs[i.rd] /\ p = 12

(* An instruction traps, and as illegal only one that has no name or is of  *)
(* an extension that is off, or it has its effect.                          *)
Outcome(i, m, done) ==
  \/ Available(i) /\ done = Trap(m, "misaligned")
  \/ (i.name = "unknown" \/ ~ Available(i)) /\ done = Trap(m, "illegal")
  \/ Available(i) /\ i.name # "unknown" /\ \E c, v, p : done = After(m, c, i.rd, v, p) /\ Effect(i, m, c, v, p)

(* What a machine has after a trap, and after a result.                     *)
LEMMA TrapIs ==
  ASSUME NEW i, NEW m, IsMachine(i, m), NEW why
  PROVE  /\ Trap(m, why).trap = why /\ Trap(m, why).regs = m.regs
         /\ Trap(m, why).cell = m.cell /\ Trap(m, why).pc = m.pc
BY DEF IsMachine, Trap

LEMMA AfterIs ==
  ASSUME NEW i, NEW m, IsMachine(i, m), NEW c, NEW v, NEW p
  PROVE  LET done == After(m, c, i.rd, v, p) IN
         /\ done.trap = "no" /\ done.cell = c /\ done.pc = p
         /\ DOMAIN done.regs = DOMAIN m.regs
         /\ \A r \in DOMAIN m.regs : done.regs[r] # m.regs[r] => r = i.rd /\ r # {}
         /\ i.rd # {} => done.regs[i.rd] = v /\ Get(done, i.rd) = v
<1> DEFINE g == Written(m.regs, i.rd, v)
           done == After(m, c, i.rd, v, p)
<1>1. done = [regs |-> g, cell |-> c, pc |-> p, trap |-> m.trap]
  BY DEF After, Written
<1>2. /\ DOMAIN g = DOMAIN m.regs
      /\ \A r \in DOMAIN m.regs : g[r] # m.regs[r] => r = i.rd /\ r # {}
      /\ i.rd # {} => g[i.rd] = v
  BY DEF Written, IsMachine, Registers
<1> HIDE DEF done, g
<1>3. done.trap = m.trap /\ done.cell = c /\ done.pc = p /\ done.regs = g
  BY <1>1
<1> QED
  BY <1>2, <1>3 DEF Get, IsMachine, done

(* An outcome leaves alone what LeavesRestAlone says.                       *)
LEMMA OutcomeLeavesRest ==
  ASSUME NEW i, NEW m, IsMachine(i, m), NEW done, Outcome(i, m, done)
  PROVE  /\ done.trap # "no" => done = Trap(m, done.trap)
         /\ \A r \in DOMAIN done.regs : done.regs[r] # m.regs[r] => r = i.rd /\ r # {}
         /\ done.cell # m.cell => i.opcode \in {"STORE", "AMO", "SYSTEM"}
         /\ i.opcode \in {"JAL", "JALR"} /\ done.trap = "no" /\ i.rd # {} =>
              done.regs[i.rd] = UWord(m.pc + 4)
         /\ done.pc % 4 = 0
<1>0. (m.pc % 4) = 0 /\ m.trap = "no"
  BY DEF IsMachine
<1>1. ASSUME NEW why \in {"misaligned", "illegal"}, done = Trap(m, why)
      PROVE  /\ done.trap = why /\ done.regs = m.regs /\ done.cell = m.cell /\ done.pc = m.pc
  BY <1>1, TrapIs
<1>2. CASE done = Trap(m, "misaligned")
  BY <1>0, <1>1, <1>2
<1>3. CASE done = Trap(m, "illegal")
  BY <1>0, <1>1, <1>3
<1>4. ASSUME NEW c, NEW v, NEW p, done = After(m, c, i.rd, v, p), Effect(i, m, c, v, p)
      PROVE  /\ done.trap # "no" => done = Trap(m, done.trap)
             /\ \A r \in DOMAIN done.regs : done.regs[r] # m.regs[r] => r = i.rd /\ r # {}
             /\ done.cell # m.cell => i.opcode \in {"STORE", "AMO", "SYSTEM"}
             /\ i.opcode \in {"JAL", "JALR"} /\ done.trap = "no" /\ i.rd # {} =>
                  done.regs[i.rd] = UWord(m.pc + 4)
             /\ done.pc % 4 = 0
  <2>1. /\ done.trap = "no" /\ done.cell = c /\ done.pc = p
        /\ DOMAIN done.regs = DOMAIN m.regs
        /\ \A r \in DOMAIN m.regs : done.regs[r] # m.regs[r] => r = i.rd /\ r # {}
        /\ i.rd # {} => done.regs[i.rd] = v
    BY <1>4, AfterIs
  <2>2. /\ c # m.cell => i.opcode \in {"STORE", "AMO", "SYSTEM"}
        /\ i.opcode \in {"JAL", "JALR"} => v = UWord(m.pc + 4)
        /\ (p % 4) = 0
    BY <1>4 DEF Effect
  <2> QED
    BY <2>1, <2>2
<1> QED
  BY <1>2, <1>3, <1>4 DEF Outcome

(* An instruction of an extension that is off traps as illegal; of the      *)
(* others, when aligned, exactly those without a name.                      *)
LEMMA OutcomeTrap ==
  ASSUME NEW i, NEW m, IsMachine(i, m), NEW done, Outcome(i, m, done)
  PROVE  /\ ~ Available(i) => done.trap = "illegal"
         /\ Available(i) /\ done.trap # "misaligned" => (done.trap = "illegal" <=> i.name = "unknown")
<1> DEFINE P == /\ ~ Available(i) => done.trap = "illegal"
                /\ Available(i) /\ done.trap # "misaligned" => (done.trap = "illegal" <=> i.name = "unknown")
<1>1. ASSUME Available(i), done = Trap(m, "misaligned") PROVE P
  BY <1>1, TrapIs
<1>2. ASSUME i.name = "unknown" \/ ~ Available(i), done = Trap(m, "illegal") PROVE P
  BY <1>2, TrapIs
<1>3. ASSUME Available(i), i.name # "unknown", NEW c, NEW v, NEW p, done = After(m, c, i.rd, v, p)
      PROVE  P
  BY <1>3, AfterIs
<1> QED
  BY <1>1, <1>2, <1>3 DEF Outcome

(* ComputesMeaning, of the machines before and after.                       *)
HasMeaning(i, m, done) ==
  LET name == i.name
      x    == Get(m, i.rs1)
      y    == Get(m, i.rs2)
      imm  == ImmWord(i.imm)
      c    == Get(done, i.rd)
      from == ByteBits * ((x + imm) % 4)
      zimm == ImmWord(i.rs1)
      readOnly == {10, 11} \subseteq i.imm
      pass     == IF i.rd = {} THEN m.cell ELSE c
  IN  done.trap = "no" =>
        CASE i.opcode = "OP"     -> i.rd # {} => Means(name, x, y, c)
          [] i.opcode = "OP_IMM" ->
               i.rd # {} => Means(name, x, IF i.format = "R" THEN ImmWord(i.rs2) ELSE imm, c)
          [] i.opcode \in {"LUI", "AUIPC"} -> i.rd # {} => Means(name, m.pc, imm, c)
          [] i.opcode = "LOAD"   -> i.rd # {} => Loads(name, m.cell, from, c)
          [] i.opcode = "STORE"  -> Stores(name, m.cell, from, y, done.cell)
          [] i.opcode = "BRANCH" -> done.pc = UWord(m.pc + IF Takes(name, x, y) THEN imm ELSE 4)
          [] i.opcode = "JAL"    -> done.pc = UWord(m.pc + imm)
          [] i.opcode = "JALR"   -> done.pc \in { UWord(x + imm), UWord(x + imm) - 1 }
          [] i.opcode = "AMO"    -> pass = m.cell /\ Means(name, m.cell, y, done.cell)
          [] i.opcode = "SYSTEM" ->
               /\ pass = m.cell
               /\ IF readOnly THEN done.cell = m.cell
                  ELSE Means(name, m.cell, IF name \in {"csrrw", "csrrs", "csrrc"} THEN x ELSE zimm, done.cell)
          [] i.opcode = "MISC_MEM" -> done = [m EXCEPT !.pc = 12]

(* An outcome has the meaning: on x0, a register that is read or written    *)
(* makes no difference.                                                     *)
LEMMA OutcomeMeans ==
  ASSUME NEW i, i.opcode \in DOMAIN OpcodeBits, NEW m, IsMachine(i, m), NEW done, Outcome(i, m, done)
  PROVE  HasMeaning(i, m, done)
<1>1. CASE done.trap # "no"
  BY <1>1 DEF HasMeaning
<1>2. CASE done.trap = "no"
  <2>1. PICK c, v, p : done = After(m, c, i.rd, v, p) /\ Effect(i, m, c, v, p)
    <3>1. done # Trap(m, "misaligned") /\ done # Trap(m, "illegal")
      BY <1>2, TrapIs
    <3> QED
      BY <3>1 DEF Outcome
  <2>2. /\ done.cell = c /\ done.pc = p
        /\ i.rd # {} => Get(done, i.rd) = v
    BY <2>1, AfterIs
  <2> DEFINE g == Get(done, i.rd)
             name == i.name
             x    == Get(m, i.rs1)
             y    == Get(m, i.rs2)
             imm  == ImmWord(i.imm)
             from == ByteBits * ((x + imm) % 4)
             zimm == ImmWord(i.rs1)
             k    == m.cell
             a    == m.pc
  <2>3. /\ i.opcode = "OP"     => Means(name, x, y, v)
        /\ i.opcode = "OP_IMM" => Means(name, x, IF i.format = "R" THEN ImmWord(i.rs2) ELSE imm, v)
        /\ i.opcode \in {"LUI", "AUIPC"} => Means(name, a, imm, v)
        /\ i.opcode = "LOAD"   => Loads(name, k, from, v)
        /\ i.opcode = "STORE"  => Stores(name, k, from, y, c)
        /\ i.opcode = "BRANCH" => p = UWord(a + IF Takes(name, x, y) THEN imm ELSE 4)
        /\ i.opcode = "JAL"    => p = UWord(a + imm)
        /\ i.opcode = "JALR"   => p \in { UWord(x + imm), UWord(x + imm) - 1 }
        /\ i.opcode = "AMO"    => v = k /\ Means(name, k, y, c)
        /\ i.opcode = "SYSTEM" =>
             /\ v = k
             /\ IF {10, 11} \subseteq i.imm THEN c = k
                ELSE Means(name, k, IF name \in {"csrrw", "csrrs", "csrrc"} THEN x ELSE zimm, c)
    BY <2>1 DEF Effect
  <2>4. i.opcode = "MISC_MEM" => done = [m EXCEPT !.pc = 12]
    <3> SUFFICES ASSUME i.opcode = "MISC_MEM" PROVE done = [m EXCEPT !.pc = 12]
      OBVIOUS
    <3>1. c = m.cell /\ v = m.regs[i.rd] /\ p = 12
      BY <2>1 DEF Effect
    <3>2. done = After(m, m.cell, {}, m.regs[i.rd], 12)
      BY <2>1, <3>1, AfterSame
    <3> QED
      BY <3>2, JumpIs
  <2>5. done.trap = "no" =>
          CASE i.opcode = "OP"     -> i.rd # {} => Means(name, x, y, g)
            [] i.opcode = "OP_IMM" ->
                 i.rd # {} => Means(name, x, IF i.format = "R" THEN ImmWord(i.rs2) ELSE imm, g)
            [] i.opcode \in {"LUI", "AUIPC"} -> i.rd # {} => Means(name, a, imm, g)
            [] i.opcode = "LOAD"   -> i.rd # {} => Loads(name, k, from, g)
            [] i.opcode = "STORE"  -> Stores(name, k, from, y, done.cell)
            [] i.opcode = "BRANCH" -> done.pc = UWord(a + IF Takes(name, x, y) THEN imm ELSE 4)
            [] i.opcode = "JAL"    -> done.pc = UWord(a + imm)
            [] i.opcode = "JALR"   -> done.pc \in { UWord(x + imm), UWord(x + imm) - 1 }
            [] i.opcode = "AMO"    -> (IF i.rd = {} THEN k ELSE g) = k /\ Means(name, k, y, done.cell)
            [] i.opcode = "SYSTEM" ->
                 /\ (IF i.rd = {} THEN k ELSE g) = k
                 /\ IF {10, 11} \subseteq i.imm THEN done.cell = k
                    ELSE Means(name, k, IF name \in {"csrrw", "csrrs", "csrrc"} THEN x ELSE zimm, done.cell)
            [] i.opcode = "MISC_MEM" -> done = [m EXCEPT !.pc = 12]
    <3>1. i.opcode \in {"OP", "OP_IMM", "LUI", "AUIPC", "LOAD", "STORE", "BRANCH", "JAL", "JALR", "AMO", "SYSTEM",
                        "MISC_MEM"}
      BY DEF OpcodeBits
    <3> HIDE DEF g, name, x, y, imm, from, zimm, k, a
    <3>2. i.rd # {} => g = v
      BY <2>2 DEF g
    <3>3. CASE i.opcode \in {"OP", "OP_IMM"}
      BY <2>3, <3>2, <3>3
    <3>4. CASE i.opcode \in {"LUI", "AUIPC", "LOAD"}
      BY <2>3, <3>2, <3>4
    <3>5. CASE i.opcode \in {"STORE", "BRANCH", "JAL", "JALR"}
      BY <2>2, <2>3, <3>5
    <3>6. CASE i.opcode = "AMO"
      BY <2>2, <2>3, <3>2, <3>6
    <3>7. CASE i.opcode = "SYSTEM"
      BY <2>2, <2>3, <3>2, <3>7
    <3>8. CASE i.opcode = "MISC_MEM"
      BY <2>4, <3>8
    <3> QED
      BY <3>1, <3>3, <3>4, <3>5, <3>6, <3>7, <3>8
  <2> QED
    BY <2>5 DEF HasMeaning
<1> QED
  BY <1>1, <1>2

(* What remains to be shown of every instruction that is executed.          *)
Runs(i, m) ==
  /\ i \in Instrs /\ IsMachine(i, m)
  /\ ~ (i.opcode = "SYSTEM" /\ i.funct3 = {})
  /\ i.name \notin {"lr.w", "sc.w"}

(* What the decoder leaves of an instruction for its execution.             *)
Decoded(i, d) ==
  /\ d.opcode = i.opcode
  /\ i.format \in {"R", "I", "U", "J"} => d.rd = i.rd
  /\ i.format \in {"R", "I", "S", "B"} => d.funct3 = i.funct3 /\ d.rs1 = i.rs1
  /\ i.format \in {"R", "S", "B"} => d.rs2 = i.rs2
  /\ i.format = "R" => d.funct7 = i.funct7
  /\ i.format \in {"I", "S", "B", "U", "J"} => d.imm = i.imm
  /\ i.format = "R" /\ i.opcode = "OP_IMM" =>
       d.imm \in SUBSET Int /\ \A k \in 0 .. 4 : k \in d.imm <=> k \in i.rs2
  /\ i.opcode = "AMO" => AmoName(d.funct7) = i.name

LEMMA DecodedIs ==
  ASSUME NEW i \in Instrs
  PROVE  Decoded(i, Decode(Build(i)))
<1>1. Shape(i)
  BY InstrType
<1>2. Decode(Build(i)).imm = DecodeImm(Build(i))
  BY DEF Decode
<1>3. i.opcode = "AMO" => AmoName(Decode(Build(i)).funct7) = i.name
  BY DecodedFields, MnemonicRead DEF Mnemonic
<1> QED
  BY <1>1, <1>2, <1>3, DecodedFields, ShamtRead DEF Decoded

----------------------------------------------------------------------------
(* The outcome of each opcode.                                              *)

LEMMA ImmWordType ==
  /\ \A imm : ImmWord(imm) \in UWords /\ Bits(ImmWord(imm)) = imm \cap 0 .. XLEN - 1
  /\ \A a \in UWords : a \in Nat
<1>1. ASSUME NEW imm PROVE ImmWord(imm) \in UWords /\ Bits(ImmWord(imm)) = imm \cap 0 .. XLEN - 1
  <2>1. imm \cap 0 .. XLEN - 1 \subseteq 0 .. XLEN - 1
    OBVIOUS
  <2> QED
    BY <2>1, NumBits DEF ImmWord
<1> QED
  BY <1>1, UWordSmall

(* The next instruction is at 12.                                           *)
LEMMA NextPc ==
  ASSUME NEW i, NEW m, IsMachine(i, m)
  PROVE  UWord(m.pc + 4) = 12 /\ (UWord(m.pc + 4) % 4) = 0
<1>1. m.pc + 4 = 12 /\ 12 \in UWords
  BY UWordMod4 DEF IsMachine
<1>2. UWord(12) = 12
  BY <1>1, UWordSmall
<1> QED
  BY <1>1, <1>2

(* LUI and AUIPC.                                                           *)
LEMMA UpperOutcome ==
  ASSUME NEW i, NEW m, Runs(i, m), NEW d, Decoded(i, d), i.opcode \in {"LUI", "AUIPC"}
  PROVE  Outcome(i, m, ExecuteDecoded(d, m))
<1> DEFINE imm == ImmWord(i.imm)
           v == IF i.opcode = "LUI" THEN imm ELSE UWord(m.pc + imm)
           p == UWord(m.pc + 4)
<1>1. i.format = "U" /\ i.name = IF i.opcode = "LUI" THEN "lui" ELSE "auipc"
  BY InstrType DEF Runs, Named, InTable, IsCall, NamedAt, Others
<1>2. d.opcode = i.opcode /\ d.rd = i.rd /\ d.imm = i.imm
  BY <1>1 DEF Decoded
<1>3. imm \in UWords /\ m.pc \in UWords /\ IsMachine(i, m)
  BY ImmWordType, UWordMod4 DEF Runs, IsMachine
<1>4. Means(i.name, m.pc, imm, v)
  <2>1. CASE i.opcode = "LUI"
    BY <1>1, <2>1 DEF Means
  <2>2. CASE i.opcode = "AUIPC"
    BY <1>1, <1>3, <2>2, AddSubMean
  <2> QED
    BY <2>1, <2>2
<1>5. ExecuteDecoded(d, m) = Advance(Set(m, d.rd, v))
  BY <1>2 DEF ExecuteDecoded
<1> HIDE DEF imm, v
<1>6. ExecuteDecoded(d, m) = After(m, m.cell, i.rd, v, p)
  BY <1>2, <1>3, <1>5, StepsAre
<1>7. Effect(i, m, m.cell, v, p)
  BY <1>3, <1>4, NextPc DEF Effect, imm
<1> QED
  BY <1>1, <1>6, <1>7 DEF Outcome, Available

(* FENCE.                                                                   *)
LEMMA FenceOutcome ==
  ASSUME NEW i, NEW m, Runs(i, m), NEW d, Decoded(i, d), i.opcode = "MISC_MEM"
  PROVE  Outcome(i, m, ExecuteDecoded(d, m))
<1> DEFINE v == m.regs[i.rd]
           p == UWord(m.pc + 4)
<1>1. i.name = "fence" /\ IsMachine(i, m)
  BY InstrType DEF Runs, Named, InTable, IsCall, NamedAt, Others
<1>2. ExecuteDecoded(d, m) = Advance(m)
  BY DEF ExecuteDecoded, Decoded
<1> HIDE DEF v
<1>3. ExecuteDecoded(d, m) = After(m, m.cell, {}, v, p)
  BY <1>1, <1>2, StepsAre
<1>4. ExecuteDecoded(d, m) = After(m, m.cell, i.rd, v, p)
  BY <1>1, <1>3, AfterSame DEF v
<1>5. Effect(i, m, m.cell, v, p)
  BY <1>1, NextPc DEF Effect, v
<1> QED
  BY <1>1, <1>4, <1>5 DEF Outcome, Available

(* JAL and JALR test the target before they link.                           *)
LEMMA JumpOutcome ==
  ASSUME NEW i, NEW m, Runs(i, m), NEW d, Decoded(i, d), i.opcode \in {"JAL", "JALR"}
  PROVE  Outcome(i, m, ExecuteDecoded(d, m))
<1> DEFINE imm == ImmWord(i.imm)
           x == Get(m, i.rs1)
           p == IF i.opcode = "JAL" THEN UWord(m.pc + imm) ELSE Even(UWord(x + imm))
           v == UWord(m.pc + 4)
<1>1. i.format \in {"I", "J"} /\ i.name \in {"jal", "jalr"} /\ (i.opcode = "JALR" => i.format = "I")
  BY InstrType DEF Runs, Named, InTable, IsCall, NamedAt, Others
<1>2. d.opcode = i.opcode /\ d.rd = i.rd /\ d.imm = i.imm /\ (i.opcode = "JALR" => d.rs1 = i.rs1)
  BY <1>1 DEF Decoded
<1>3. imm \in UWords /\ m.pc \in UWords /\ IsMachine(i, m) /\ x \in UWords
  BY ImmWordType, UWordMod4, GetType DEF Runs, IsMachine, Registers
<1>4. i.opcode = "JALR" => p \in {UWord(x + imm), UWord(x + imm) - 1}
  <2> DEFINE u == UWord(x + imm)
  <2>1. u \in Nat
    BY <1>3, ImmWordType, UWordType
  <2> HIDE DEF u
  <2>2. Even(u) \in {u, u - 1}
    BY <2>1 DEF Even
  <2> QED
    BY <2>2 DEF u
<1>5. ExecuteDecoded(d, m) = JumpAndLink(d, m, p)
  BY <1>2 DEF ExecuteDecoded
<1>6. CASE (p % 4) # 0
  BY <1>5, <1>6 DEF JumpAndLink, Outcome, Available
<1>7. CASE (p % 4) = 0
  <2>1. Effect(i, m, m.cell, v, p)
    BY <1>4, <1>7 DEF Effect
  <2> HIDE DEF p, v
  <2>2. ExecuteDecoded(d, m) = [Set(m, i.rd, v) EXCEPT !.pc = p]
    BY <1>2, <1>5, <1>7 DEF JumpAndLink, v
  <2>3. [Set(m, i.rd, v) EXCEPT !.pc = p] = After(m, m.cell, i.rd, v, p)
    BY <1>3, StepsAre
  <2>4. i.name # "unknown"
    BY <1>1
  <2> QED
    BY <2>1, <2>2, <2>3, <2>4 DEF Outcome, Available
<1> QED
  BY <1>6, <1>7

(* The condition at a code is that of the name at the code.                 *)
LEMMA BranchNamesTake ==
  ASSUME NEW n \in 1 .. 8, BranchNames[n] # "unknown", NEW x \in Int, NEW y \in Int,
         NEW s \in Int, NEW t \in Int, s = SWord(x), t = SWord(y)
  PROVE  << x = y, x # y, FALSE, FALSE, s < t, s >= t, x < y, x >= y >>[n] <=> Takes(BranchNames[n], x, y)
<1>1. n = 1 \/ n = 2 \/ n = 3 \/ n = 4 \/ n = 5 \/ n = 6 \/ n = 7 \/ n = 8
  OBVIOUS
<1> USE DEF BranchNames
<1>2. CASE n = 1
  BY <1>2 DEF Takes
<1>3. CASE n = 2
  BY <1>3 DEF Takes
<1>4. CASE n = 3
  BY <1>4
<1>5. CASE n = 4
  BY <1>5
<1>6. CASE n = 5
  BY <1>6 DEF Takes
<1>7. CASE n = 6
  BY <1>7 DEF Takes
<1>8. CASE n = 7
  BY <1>8 DEF Takes
<1>9. CASE n = 8
  BY <1>9 DEF Takes
<1> QED
  BY <1>1, <1>2, <1>3, <1>4, <1>5, <1>6, <1>7, <1>8, <1>9

(* Branches.                                                                *)
LEMMA BranchOutcome ==
  ASSUME NEW i, NEW m, Runs(i, m), NEW d, Decoded(i, d), i.opcode = "BRANCH"
  PROVE  Outcome(i, m, ExecuteDecoded(d, m))
<1> DEFINE imm == ImmWord(i.imm)
           x == Get(m, i.rs1)
           y == Get(m, i.rs2)
           s == SWord(x)
           t == SWord(y)
           takes == Takes(i.name, x, y)
           target == UWord(m.pc + imm)
           next == UWord(m.pc + 4)
           p == IF takes THEN target ELSE next
<1>1. PICK n \in 1 .. 8 : i.funct3 = F3(n - 1) /\ i.name = BranchNames[n] /\ i.format = "B" /\ i.rd = {}
  BY InstrType DEF Runs, Named, InTable, IsCall, NamedAt, Others, Shape
<1>2. d.opcode = i.opcode /\ d.imm = i.imm /\ d.rs1 = i.rs1 /\ d.rs2 = i.rs2 /\ d.funct3 = i.funct3
  BY <1>1 DEF Decoded
<1>3. imm \in UWords /\ m.pc \in UWords /\ IsMachine(i, m) /\ x \in UWords /\ y \in UWords
  BY ImmWordType, UWordMod4, GetType DEF Runs, IsMachine, Registers
<1>4. Num(d.funct3) + 1 = n
  BY <1>1, <1>2, NumOfFunct3
<1> DEFINE taken == << x = y, x # y, FALSE, FALSE, s < t, s >= t, x < y, x >= y >>[n]
<1>5. ExecuteDecoded(d, m) = ExecuteBranch(d, m, x, y)
  BY <1>2 DEF ExecuteDecoded
<1>6. ExecuteBranch(d, m, x, y) =
        IF BranchNames[n] = "unknown" THEN Trap(m, "illegal")
        ELSE IF ~ taken THEN Advance(m)
        ELSE IF (target % 4) # 0 THEN Trap(m, "misaligned")
        ELSE [m EXCEPT !.pc = target]
  BY <1>2, <1>4 DEF ExecuteBranch, By
<1>7. x \in Int /\ y \in Int /\ s \in Int /\ t \in Int
  BY <1>3, ImmWordType, SWordType, WordSize
<1> HIDE DEF imm, x, y, s, t, target, next
<1>8. i.name # "unknown" => (taken <=> takes)
  BY <1>1, <1>7, BranchNamesTake DEF s, t
<1> HIDE DEF taken, takes
<1>9. CASE i.name = "unknown"
  BY <1>1, <1>5, <1>6, <1>9 DEF Outcome, Available
<1>10. CASE i.name # "unknown" /\ ~ taken
  <2>1. ExecuteDecoded(d, m) = After(m, m.cell, i.rd, 0, next)
    BY <1>1, <1>3, <1>5, <1>6, <1>10, StepsAre DEF next
  <2>2. Effect(i, m, m.cell, 0, next)
    BY <1>3, <1>8, <1>10, NextPc DEF Effect, next, takes, x, y, imm
  <2> QED
    BY <1>10, <2>1, <2>2 DEF Outcome, Available
<1>11. CASE i.name # "unknown" /\ taken /\ (target % 4) # 0
  BY <1>1, <1>5, <1>6, <1>11 DEF Outcome, Available
<1>12. CASE i.name # "unknown" /\ taken /\ (target % 4) = 0
  <2>1. ExecuteDecoded(d, m) = After(m, m.cell, i.rd, 0, target)
    BY <1>1, <1>3, <1>5, <1>6, <1>12, JumpIs
  <2>2. Effect(i, m, m.cell, 0, target)
    BY <1>3, <1>8, <1>12 DEF Effect, target, takes, x, y, imm
  <2> QED
    BY <1>12, <2>1, <2>2 DEF Outcome, Available
<1> QED
  BY <1>9, <1>10, <1>11, <1>12

(* The operation that executeOp and executeOpImm choose for a name.         *)
LEMMA OperationChosen ==
  ASSUME NEW n \in 1 .. 8, NEW f, f = F3(n - 1)
  PROVE  /\ <<OpNames[n], BaseOp(f, FALSE)>> \in OperationOf
         /\ <<AltNames[n], BaseOp(f, TRUE)>> \in OperationOf
         /\ <<MulNames[n], MulOp(f)>> \in OperationOf
         /\ <<ImmNames[n], IF n = 1 THEN "ADD" ELSE BaseOp(f, FALSE)>> \in OperationOf
         /\ n # 6 => BaseOp(f, TRUE) = BaseOp(f, FALSE) \/ n = 1
         /\ n = 6 => <<"srai", BaseOp(f, TRUE)>> \in OperationOf
<1>1. Num(f) + 1 = n
  BY NumOfFunct3
<1>2. n = 1 \/ n = 2 \/ n = 3 \/ n = 4 \/ n = 5 \/ n = 6 \/ n = 7 \/ n = 8
  OBVIOUS
<1> DEFINE plain == <<"ADD", "SLL", "SLT", "SLTU", "XOR", "SRL", "OR", "AND">>
           other == <<"SUB", "SLL", "SLT", "SLTU", "XOR", "SRA", "OR", "AND">>
           mul   == <<"MUL", "MULH", "MULHSU", "MULHU", "DIV", "DIVU", "REM", "REMU">>
<1>3. BaseOp(f, FALSE) = plain[n]
  BY <1>1 DEF BaseOp
<1>4. BaseOp(f, TRUE) = other[n]
  BY <1>1 DEF BaseOp
<1>5. MulOp(f) = mul[n]
  BY <1>1 DEF MulOp
<1>6. <<OpNames[n], plain[n]>> \in OperationOf
  <2>1. \A k \in 1 .. 8 : <<OpNames[k], plain[k]>> \in OperationOf
    BY DEF OpNames, OperationOf
  <2> QED
    BY <2>1
<1>7. <<AltNames[n], other[n]>> \in OperationOf
  <2>1. \A k \in 1 .. 8 : <<AltNames[k], other[k]>> \in OperationOf
    BY DEF OpNames, AltNames, OperationOf
  <2> QED
    BY <2>1
<1>8. <<MulNames[n], mul[n]>> \in OperationOf
  <2>1. \A k \in 1 .. 8 : <<MulNames[k], mul[k]>> \in OperationOf
    BY DEF MulNames, OperationOf
  <2> QED
    BY <2>1
<1>9. <<ImmNames[n], IF n = 1 THEN "ADD" ELSE plain[n]>> \in OperationOf
  <2>1. \A k \in 1 .. 8 : <<ImmNames[k], plain[k]>> \in OperationOf
    BY DEF ImmNames, OperationOf
  <2>2. n = 1 => plain[n] = "ADD"
    OBVIOUS
  <2> HIDE DEF plain
  <2>3. (IF n = 1 THEN "ADD" ELSE plain[n]) = plain[n]
    BY <2>2
  <2> QED
    BY <2>1, <2>3
<1>10. n # 6 => other[n] = plain[n] \/ n = 1
  <2>1. \A k \in 1 .. 8 : k # 6 => other[k] = plain[k] \/ k = 1
    OBVIOUS
  <2> QED
    BY <2>1
<1>11. n = 6 => <<"srai", other[n]>> \in OperationOf
  BY DEF OperationOf
<1> HIDE DEF plain, other, mul
<1> QED
  BY <1>3, <1>4, <1>5, <1>6, <1>7, <1>8, <1>9, <1>10, <1>11

(* Register operations of the three tables.                                 *)
LEMMA OpOutcome ==
  ASSUME NEW i, NEW m, Runs(i, m), NEW d, Decoded(i, d), i.opcode = "OP"
  PROVE  Outcome(i, m, ExecuteDecoded(d, m))
<1> DEFINE x == Get(m, i.rs1)
           y == Get(m, i.rs2)
           f == i.funct3
           v == Execute(IF i.funct7 = F7_MEXT THEN MulOp(f) ELSE BaseOp(f, i.funct7 = F7_ALT), x, y)
           p == UWord(m.pc + 4)
<1>1. PICK n \in 1 .. 8 :
        /\ i.funct3 = F3(n - 1) /\ i.format = "R"
        /\ \/ i.funct7 = F7_NORMAL /\ i.name = OpNames[n]
           \/ i.funct7 = F7_ALT /\ i.name = AltNames[n]
           \/ i.funct7 = F7_MEXT /\ i.name = MulNames[n]
  BY InstrType DEF Runs, Named, InTable, IsCall, NamedAt, Others
<1>2. d.opcode = i.opcode /\ d.rd = i.rd /\ d.rs1 = i.rs1 /\ d.rs2 = i.rs2 /\ d.funct3 = f /\ d.funct7 = i.funct7
  BY <1>1 DEF Decoded
<1>3. IsMachine(i, m) /\ x \in UWords /\ y \in UWords
  BY GetType DEF Runs, Registers
<1> DEFINE op == IF i.funct7 = F7_MEXT THEN MulOp(f) ELSE BaseOp(f, i.funct7 = F7_ALT)
<1>4. v = Execute(op, x, y)
  OBVIOUS
<1>5. F7_MEXT # F7_ALT /\ F7_MEXT # F7_NORMAL /\ F7_ALT # F7_NORMAL
  BY DEF F7_MEXT, F7_ALT, F7_NORMAL
<1>6. <<i.name, op>> \in OperationOf
  <2>1. /\ <<OpNames[n], BaseOp(f, FALSE)>> \in OperationOf
        /\ <<AltNames[n], BaseOp(f, TRUE)>> \in OperationOf
        /\ <<MulNames[n], MulOp(f)>> \in OperationOf
    BY <1>1, OperationChosen
  <2>2. CASE i.funct7 = F7_NORMAL /\ i.name = OpNames[n]
    <3>1. op = BaseOp(f, FALSE)
      BY <1>5, <2>2 DEF BaseOp
    <3> QED
      BY <2>1, <2>2, <3>1
  <2>3. CASE i.funct7 = F7_ALT /\ i.name = AltNames[n]
    <3>1. op = BaseOp(f, TRUE)
      BY <1>5, <2>3 DEF BaseOp
    <3> QED
      BY <2>1, <2>3, <3>1
  <2>4. CASE i.funct7 = F7_MEXT /\ i.name = MulNames[n]
    BY <2>1, <2>4
  <2> QED
    BY <1>1, <2>2, <2>3, <2>4
<1> HIDE DEF op
<1>7. Means(i.name, x, y, v)
  <2> DEFINE q == <<i.name, op>>
  <2>1. q[1] = i.name /\ q[2] = op /\ q \in OperationOf
    BY <1>6
  <2> HIDE DEF q
  <2>2. Right(q[1], x, y, Execute(q[2], x, y))
    BY <1>3, <2>1, OperationMeans
  <2> QED
    BY <1>4, <2>1, <2>2 DEF Right
<1>8. i.name # "unknown"
  BY <1>1, TableNames
<1>9. ExecuteDecoded(d, m) = IF Available(i) THEN Advance(Set(m, d.rd, v)) ELSE Trap(m, "illegal")
  <2>1. ExecuteDecoded(d, m) = ExecuteOp(d, m, x, y)
    BY <1>2 DEF ExecuteDecoded
  <2>2. Available(i) <=> (i.funct7 = F7_MEXT => EXT_M \in extensions)
    BY DEF Available
  <2> HIDE DEF x, y
  <2> QED
    BY <1>2, <2>1, <2>2 DEF ExecuteOp
<1>10. Effect(i, m, m.cell, v, p)
  BY <1>7, <1>3, NextPc DEF Effect
<1> HIDE DEF v
<1>11. CASE Available(i)
  <2>1. ExecuteDecoded(d, m) = After(m, m.cell, i.rd, v, p)
    BY <1>2, <1>3, <1>9, <1>11, StepsAre
  <2> QED
    BY <1>8, <1>10, <1>11, <2>1 DEF Outcome
<1>12. CASE ~ Available(i)
  BY <1>9, <1>12 DEF Outcome
<1> QED
  BY <1>11, <1>12

(* Only the low bits of a shift amount count, and the decoder leaves those. *)
LEMMA ShamtSame ==
  ASSUME NEW S \in SUBSET Int, NEW T \in SUBSET Int, \A k \in 0 .. 4 : k \in S <=> k \in T
  PROVE  (ImmWord(S) % XLEN) = ImmWord(T) % XLEN
<1>1. PICK j \in 2 .. 5 : XLEN = Pow2[j] /\ j < XLEN
  <2>1. Pow2[0] = 1 /\ Pow2[0 + 1] = 2 * Pow2[0] /\ Pow2[1 + 1] = 2 * Pow2[1] /\ Pow2[2 + 1] = 2 * Pow2[2]
        /\ Pow2[3 + 1] = 2 * Pow2[3] /\ Pow2[4 + 1] = 2 * Pow2[4]
    BY Pow2Step
  <2>2. Pow2[2] = 4 /\ Pow2[3] = 8 /\ Pow2[4] = 16 /\ Pow2[5] = 32
    BY <2>1
  <2>3. XLEN \in {4, 8, 16, 32}
    BY IsaAssumption
  <2> QED
    BY <2>2, <2>3
<1> DEFINE a == ImmWord(S)
           b == ImmWord(T)
           u == a % Pow2[j]
           v == b % Pow2[j]
<1>2. a \in Nat /\ b \in Nat /\ j \in Nat /\ Pow2[j] \in Nat \ {0}
  BY ImmWordType, Pow2Pos
<1>3. Bits(a) = S \cap 0 .. XLEN - 1 /\ Bits(b) = T \cap 0 .. XLEN - 1
  BY ImmWordType
<1> HIDE DEF a, b
<1>4. u \in 0 .. Pow2[j] - 1 /\ v \in 0 .. Pow2[j] - 1
  <2> DEFINE size == Pow2[j]
  <2>1. size \in Nat \ {0} /\ a \in Int /\ b \in Int
    BY <1>2
  <2> HIDE DEF size
  <2>2. (a % size) \in 0 .. size - 1 /\ (b % size) \in 0 .. size - 1
    BY <2>1, DivMod
  <2> QED
    BY <2>2 DEF size
<1>5. ASSUME NEW k \in 0 .. j - 1 PROVE Bit(u, k) <=> Bit(v, k)
  <2>1. k \in 0 .. XLEN - 1 /\ k \in 0 .. 4
    BY <1>1, WordSize
  <2>2. (Bit(u, k) <=> Bit(a, k)) /\ (Bit(v, k) <=> Bit(b, k))
    BY <1>2, BitOfMod
  <2>3. (k \in Bits(a) <=> Bit(a, k)) /\ (k \in Bits(b) <=> Bit(b, k))
    BY <2>1, BitsOf
  <2> QED
    BY <1>3, <2>1, <2>2, <2>3
<1> HIDE DEF u, v
<1>6. u = v
  BY <1>2, <1>4, <1>5, SameBits
<1> QED
  BY <1>1, <1>6 DEF u, v, a, b

LEMMA ShiftMeansLow ==
  ASSUME NEW name \in {"slli", "srli", "srai"}, NEW x, NEW y, NEW z, NEW c,
         (y % XLEN) = z % XLEN, Means(name, x, y, c)
  PROVE  Means(name, x, z, c)
<1>1. CASE name = "slli"
  BY <1>1 DEF Means
<1>2. CASE name = "srli"
  BY <1>2 DEF Means
<1>3. CASE name = "srai"
  <2> DEFINE s == y % XLEN
             t == z % XLEN
  <2>1. s = t
    OBVIOUS
  <2>2. BitsAre(c, LAMBDA k : (IF k + s < XLEN THEN k + s ELSE XLEN - 1) \in Bits(x))
    BY <1>3 DEF Means
  <2> HIDE DEF s, t
  <2>3. BitsAre(c, LAMBDA k : (IF k + t < XLEN THEN k + t ELSE XLEN - 1) \in Bits(x))
    BY <2>1, <2>2 DEF BitsAre
  <2> QED
    BY <1>3, <2>3 DEF Means, t
<1> QED
  BY <1>1, <1>2, <1>3

(* Immediate operations; the shift amount is part of the decoded immediate. *)
LEMMA OpImmOutcome ==
  ASSUME NEW i, NEW m, Runs(i, m), NEW d, Decoded(i, d), i.opcode = "OP_IMM"
  PROVE  Outcome(i, m, ExecuteDecoded(d, m))
<1> DEFINE x == Get(m, i.rs1)
           y == IF i.format = "R" THEN ImmWord(i.rs2) ELSE ImmWord(i.imm)
           b == ImmWord(d.imm)
           f == i.funct3
           op == IF f = {} THEN "ADD" ELSE BaseOp(f, 5 \in d.funct7)
           v == Execute(op, x, b)
           p == UWord(m.pc + 4)
<1>1. PICK n \in 1 .. 8 :
        /\ i.funct3 = F3(n - 1)
        /\ \/ i.format = "R" /\ n \in {2, 6} /\ i.funct7 = F7_NORMAL /\ i.name = ImmNames[n]
           \/ i.format = "R" /\ n = 6 /\ i.funct7 = F7_ALT /\ i.name = "srai"
           \/ i.format = "I" /\ n \notin {2, 6} /\ i.name = ImmNames[n]
  BY InstrType DEF Runs, Named, InTable, IsCall, NamedAt, Others
<1>2. /\ d.opcode = i.opcode /\ d.rd = i.rd /\ d.rs1 = i.rs1 /\ d.funct3 = f
      /\ i.format = "R" => d.funct7 = i.funct7 /\ d.imm \in SUBSET Int
                           /\ \A k \in 0 .. 4 : k \in d.imm <=> k \in i.rs2
      /\ i.format = "I" => d.imm = i.imm
  BY <1>1 DEF Decoded
<1>3. IsMachine(i, m) /\ x \in UWords /\ b \in UWords
  BY GetType, ImmWordType DEF Runs, Registers
<1>4. f = {} <=> n = 1
  BY <1>1, Funct3Codes
<1>5. /\ <<ImmNames[n], IF n = 1 THEN "ADD" ELSE BaseOp(f, FALSE)>> \in OperationOf
      /\ n # 6 => BaseOp(f, TRUE) = BaseOp(f, FALSE) \/ n = 1
      /\ n = 6 => <<"srai", BaseOp(f, TRUE)>> \in OperationOf
  BY <1>1, OperationChosen
<1>6. 5 \in F7_ALT /\ 5 \notin F7_NORMAL
  BY DEF F7_ALT, F7_NORMAL
<1>7. <<i.name, op>> \in OperationOf
  <2>1. CASE 5 \in d.funct7
    <3>1. op = IF n = 1 THEN "ADD" ELSE BaseOp(f, TRUE)
      BY <1>4, <2>1 DEF BaseOp
    <3>2. CASE n = 6
      <4>1. i.name = "srai"
        BY <1>1, <1>2, <1>6, <2>1, <3>2
      <4>2. op = BaseOp(f, TRUE)
        BY <1>4, <2>1, <3>2 DEF BaseOp
      <4> QED
        BY <1>5, <3>2, <4>1, <4>2
    <3>3. CASE n # 6
      <4>1. i.name = ImmNames[n]
        BY <1>1, <3>3
      <4>2. op = IF n = 1 THEN "ADD" ELSE BaseOp(f, FALSE)
        BY <1>5, <3>1, <3>3
      <4> QED
        BY <1>5, <4>1, <4>2
    <3> QED
      BY <3>2, <3>3
  <2>2. CASE 5 \notin d.funct7
    <3>1. op = IF n = 1 THEN "ADD" ELSE BaseOp(f, FALSE)
      BY <1>4, <2>2 DEF BaseOp
    <3>2. i.name = ImmNames[n]
      BY <1>1, <1>2, <1>6, <2>2
    <3> QED
      BY <1>5, <3>1, <3>2
  <2> QED
    BY <2>1, <2>2
<1> HIDE DEF op
<1>8. Means(i.name, x, b, v)
  <2> DEFINE q == <<i.name, op>>
  <2>1. q[1] = i.name /\ q[2] = op /\ q \in OperationOf
    BY <1>7
  <2> HIDE DEF q
  <2>2. Right(q[1], x, b, Execute(q[2], x, b))
    BY <1>3, <2>1, OperationMeans
  <2> QED
    BY <2>1, <2>2 DEF Right
<1>9. Means(i.name, x, y, v)
  <2>1. CASE i.format = "I"
    BY <1>2, <1>8, <2>1
  <2>2. CASE i.format = "R"
    <3>1. i.name \in {"slli", "srli", "srai"}
      BY <1>1, <2>2 DEF ImmNames
    <3>2. i.rs2 \in SUBSET Int
      <4>1. i.rs2 \subseteq 0 .. 4
        BY InstrType DEF Runs, Shape
      <4> QED
        BY <4>1
    <3>3. (b % XLEN) = y % XLEN
      <4>1. (ImmWord(d.imm) % XLEN) = ImmWord(i.rs2) % XLEN
        BY <1>2, <2>2, <3>2, ShamtSame
      <4> QED
        BY <2>2, <4>1
    <3> HIDE DEF y, b, v, x
    <3> QED
      BY <1>8, <3>1, <3>3, ShiftMeansLow
  <2> QED
    BY <1>1, <2>1, <2>2
<1>10. i.name # "unknown"
  BY <1>1, TableNames
<1>11. ExecuteDecoded(d, m) = Advance(Set(m, d.rd, v))
  BY <1>2 DEF ExecuteDecoded, ExecuteOpImm, op
<1>12. Effect(i, m, m.cell, v, p)
  BY <1>9, <1>3, NextPc DEF Effect
<1> HIDE DEF v
<1>13. ExecuteDecoded(d, m) = After(m, m.cell, i.rd, v, p)
  BY <1>2, <1>3, <1>11, StepsAre
<1> QED
  BY <1>10, <1>12, <1>13 DEF Outcome, Available

(* AMOs read rs2 and the cell before rd is written.                         *)
LEMMA AmoOutcome ==
  ASSUME NEW i, NEW m, Runs(i, m), NEW d, Decoded(i, d), i.opcode = "AMO"
  PROVE  Outcome(i, m, ExecuteDecoded(d, m))
<1> DEFINE y == Get(m, i.rs2)
           k == m.cell
           c == AmoResult(i.name, k, y)
           p == UWord(m.pc + 4)
<1>1. i.format = "R"
  BY InstrType DEF Runs, Named, InTable, IsCall, NamedAt, Others
<1>2. /\ d.opcode = i.opcode /\ d.rd = i.rd /\ d.rs1 = i.rs1 /\ d.rs2 = i.rs2
      /\ AmoName(d.funct7) = i.name
  BY <1>1 DEF Decoded
<1>3. IsMachine(i, m) /\ k \in UWords /\ y \in UWords
  BY GetType DEF Runs, Registers, IsMachine
<1>4. i.name \in AmoWrites \cup {"unknown"}
  BY <1>2, AmoNameType DEF Runs
<1>5. ExecuteDecoded(d, m) =
        IF ~ Available(i) THEN Trap(m, "illegal")
        ELSE IF (Get(m, i.rs1) % 4) # 0 THEN Trap(m, "misaligned")
        ELSE IF i.name = "unknown" THEN Trap(m, "illegal")
        ELSE Advance(Set([m EXCEPT !.cell = c], i.rd, k))
  BY <1>2 DEF ExecuteDecoded, ExecuteAMO, Available
<1>6. CASE Available(i) /\ (Get(m, i.rs1) % 4) # 0
  BY <1>5, <1>6 DEF Outcome
<1>7. CASE Available(i) /\ (Get(m, i.rs1) % 4) = 0 /\ i.name = "unknown"
  BY <1>5, <1>7 DEF Outcome
<1>8. CASE Available(i) /\ (Get(m, i.rs1) % 4) = 0 /\ i.name # "unknown"
  <2>1. Means(i.name, k, y, c)
    BY <1>3, <1>4, <1>8, AmoMeans
  <2>2. Effect(i, m, c, k, p)
    BY <1>3, <2>1, NextPc DEF Effect
  <2> HIDE DEF c, k
  <2>3. ExecuteDecoded(d, m) = After(m, c, i.rd, k, p)
    BY <1>3, <1>5, <1>8, StepsAre
  <2> QED
    BY <1>8, <2>2, <2>3 DEF Outcome
<1>9. CASE ~ Available(i)
  BY <1>5, <1>9 DEF Outcome
<1> QED
  BY <1>6, <1>7, <1>8, <1>9

LEMMA NoBits == Bits(0) = {} /\ 0 \in UWords
<1>1. ASSUME NEW k \in 0 .. XLEN - 1 PROVE k \notin Bits(0)
  <2> DEFINE d == Pow2[k]
  <2>1. d \in Nat \ {0}
    BY WordSize, Pow2Pos
  <2> HIDE DEF d
  <2>2. 0 \div d = 0
    BY <2>1, ModSmall
  <2>3. ~ Bit(0, k)
    BY <2>2 DEF Bit, d
  <2> QED
    BY <2>3, BitsOf
<1> QED
  BY <1>1, BitsOf, UWordMod4

(* CSR instructions: CSRRS and CSRRC of x0, or of a zimm of 0, write what   *)
(* was there.                                                               *)
LEMMA CsrOutcome ==
  ASSUME NEW i, NEW m, Runs(i, m), NEW d, Decoded(i, d), i.opcode = "SYSTEM"
  PROVE  Outcome(i, m, ExecuteDecoded(d, m))
<1> DEFINE x == Get(m, i.rs1)
           zimm == ImmWord(i.rs1)
           k == m.cell
           f == i.funct3
           name == i.name
           y == IF name \in {"csrrw", "csrrs", "csrrc"} THEN x ELSE zimm
           readOnly == {10, 11} \subseteq i.imm
           operand == IF 2 \in f THEN zimm ELSE x
           new == IF 1 \notin f THEN operand
                  ELSE IF i.rs1 = {} THEN k
                  ELSE IF 0 \notin f THEN Num(Bits(k) \cup Bits(operand))
                  ELSE Num(Bits(k) \ Bits(operand))
           c == IF readOnly THEN k ELSE new
           p == UWord(m.pc + 4)
<1>1. PICK n \in 1 .. 8 : f = F3(n - 1) /\ n # 1 /\ name = CsrNames[n] /\ i.format = "I"
  BY InstrType DEF Runs, Named, InTable, IsCall, NamedAt, Others
<1>2. /\ d.opcode = i.opcode /\ d.rd = i.rd /\ d.rs1 = i.rs1 /\ d.funct3 = f /\ d.imm = i.imm
  BY <1>1 DEF Decoded
<1>3. IsMachine(i, m) /\ k \in UWords /\ x \in UWords /\ zimm \in UWords
  BY GetType, ImmWordType DEF Runs, Registers, IsMachine
<1>4. Num(f) + 1 = n
  BY <1>1, NumOfFunct3
<1>5. /\ 0 \in f <=> n \in {2, 4, 6, 8}
      /\ 1 \in f <=> n \in {3, 4, 7, 8}
      /\ 2 \in f <=> n \in {5, 6, 7, 8}
  BY <1>1, Funct3Codes
<1>6. By(CsrNames, d) = name
  BY <1>1, <1>2, <1>4 DEF By
<1>7. ExecuteDecoded(d, m) = ExecuteCSR(d, m)
  BY <1>2 DEF ExecuteDecoded
<1>8. ExecuteCSR(d, m) =
        IF name = "unknown" THEN Trap(m, "illegal")
        ELSE Advance(Set(IF readOnly THEN m ELSE [m EXCEPT !.cell = new], i.rd, k))
  BY <1>2, <1>6 DEF ExecuteCSR
<1>9. CASE name = "unknown"
  BY <1>7, <1>8, <1>9 DEF Outcome, Available
<1>10. CASE name # "unknown"
  <2>1. /\ n = 2 => name = "csrrw"
        /\ n = 3 => name = "csrrs"
        /\ n = 4 => name = "csrrc"
        /\ n = 5 => name = "unknown"
        /\ n = 6 => name = "csrrwi"
        /\ n = 7 => name = "csrrsi"
        /\ n = 8 => name = "csrrci"
    <3> HIDE DEF name
    <3> QED
      BY <1>1 DEF CsrNames
  <2>2. n \in {2, 3, 4, 6, 7, 8}
    BY <1>1, <1>10, <2>1
  <2>3. operand = y
    <3> HIDE DEF x, zimm, name, f
    <3> QED
      BY <1>5, <2>1, <2>2
  <2>4. y \in UWords /\ (i.rs1 = {} => Bits(y) = {})
    <3>1. i.rs1 = {} => x = 0 /\ Bits(zimm) = {}
      BY ImmWordType DEF Get
    <3> HIDE DEF x, zimm, name
    <3> QED
      BY <1>3, <3>1, NoBits
  <2> HIDE DEF operand, y
  <2>5. Means(name, k, y, new)
    <3>1. k = Num(Bits(k))
      BY <1>3, NumOfBits
    <3>2. i.rs1 = {} => Bits(k) \cup Bits(y) = Bits(k) /\ Bits(k) \ Bits(y) = Bits(k)
      BY <2>4
    <3>3. CASE n \in {2, 6}
      <4>1. new = y
        BY <1>5, <2>3, <3>3
      <4> HIDE DEF new
      <4> QED
        BY <2>1, <3>3, <4>1 DEF Means
    <3>4. CASE n \in {3, 7}
      <4>1. new = Num(Bits(k) \cup Bits(y))
        BY <1>5, <2>3, <3>1, <3>2, <3>4
      <4>2. name \in {"csrrs", "csrrsi"}
        BY <2>1, <3>4
      <4> HIDE DEF new, k, name
      <4> QED
        BY <1>3, <2>4, <4>1, <4>2, LogicMean
    <3>5. CASE n \in {4, 8}
      <4>1. new = Num(Bits(k) \ Bits(y))
        BY <1>5, <2>3, <3>1, <3>2, <3>5
      <4>2. name \in {"csrrc", "csrrci"}
        BY <2>1, <3>5
      <4> HIDE DEF new, k, name
      <4> QED
        BY <1>3, <2>4, <4>1, <4>2, LogicMean
    <3> QED
      BY <2>2, <3>3, <3>4, <3>5
  <2>6. Effect(i, m, c, k, p)
    <3> DEFINE given == IF name \in {"csrrw", "csrrs", "csrrc"} THEN x ELSE zimm
    <3>1. IF readOnly THEN c = k ELSE Means(name, k, given, c)
      BY <2>5 DEF y
    <3> HIDE DEF c
    <3> QED
      BY <1>3, <3>1, NextPc DEF Effect
  <2> HIDE DEF new, k
  <2>7. ExecuteDecoded(d, m) = After(m, c, i.rd, k, p)
    <3>1. CASE readOnly
      <4>1. ExecuteDecoded(d, m) = Advance(Set(m, i.rd, k))
        BY <1>7, <1>8, <1>10, <3>1
      <4>2. c = m.cell
        BY <3>1 DEF k
      <4> HIDE DEF c
      <4> QED
        BY <1>3, <4>1, <4>2, StepsAre
    <3>2. CASE ~ readOnly
      <4>1. ExecuteDecoded(d, m) = Advance(Set([m EXCEPT !.cell = new], i.rd, k))
        BY <1>7, <1>8, <1>10, <3>2
      <4>2. c = new
        BY <3>2
      <4> HIDE DEF c
      <4> QED
        BY <1>3, <4>1, <4>2, StepsAre
    <3> QED
      BY <3>1, <3>2
  <2> HIDE DEF c
  <2> QED
    BY <1>10, <2>6, <2>7 DEF Outcome, Available
<1> QED
  BY <1>9, <1>10

(* An access that is not misaligned lies within the cell.                   *)
LEMMA AccessFits ==
  ASSUME NEW a \in Int, NEW s \in {1, 2, 4}, s = 1 \/ (UWord(a) % s) = 0
  PROVE  LET from == ByteBits * (a % 4)
             n    == s * ByteBits
         IN  /\ ByteBits * (UWord(a) % 4) = from /\ from \in Nat
             /\ n \in Nat \ {0} /\ n = ByteBits * s /\ from + n <= XLEN
             /\ s = 4 => n = XLEN
<1> DEFINE o == a % 4
           u == UWord(a)
<1>1. (u % 4) = o
  BY UWordMod4
<1>2. u \in Nat
  BY UWordType, ImmWordType
<1>3. ByteBits \in Nat \ {0} /\ XLEN = 4 * ByteBits
  BY IsaAssumption DEF ByteBits
<1> HIDE DEF u
<1>4. o \in 0 .. 3
  OBVIOUS
<1>5. o + s <= 4
  <2>1. CASE s = 1
    BY <1>4, <2>1
  <2>2. CASE s = 2
    <3>1. (u % 2) = 0
      BY <2>2 DEF u
    <3>2. (u % 4) # 3 /\ (u % 4) # 1
      BY <1>2, <3>1
    <3> QED
      BY <1>1, <1>4, <2>2, <3>2
  <2>3. CASE s = 4
    <3>1. (u % 4) = 0
      BY <2>3 DEF u
    <3> QED
      BY <1>1, <2>3, <3>1
  <2> QED
    BY <2>1, <2>2, <2>3
<1> DEFINE w == ByteBits
           r == UWord(a) % 4
<1>6. r = o
  BY <1>1 DEF u
<1> HIDE DEF o, w, r
<1>7. w \in Nat \ {0} /\ XLEN = 4 * w /\ o \in 0 .. 3
  BY <1>3, <1>4 DEF w
<1>8. /\ w * r = w * o /\ w * o \in Nat
      /\ s * w \in Nat \ {0} /\ s * w = w * s
  BY <1>6, <1>7
<1>9. w * o + s * w <= XLEN
  <2>1. o = 0 \/ o = 1 \/ o = 2 \/ o = 3
    BY <1>7
  <2> QED
    BY <1>5, <1>7, <2>1
<1>10. s = 4 => s * w = XLEN
  BY <1>7
<1> QED
  BY <1>8, <1>9, <1>10 DEF w, o, r

(* The size of an access by its code, and the sizes of the names.           *)
SizeOf(f) == IF 0 \in f THEN 2 ELSE IF 1 \in f THEN 4 ELSE 1

LEMMA LoadSizes ==
  ASSUME NEW n \in 1 .. 8, LoadNames[n] # "unknown", NEW f, f = F3(n - 1)
  PROVE  LET name == LoadNames[n]
             s    == SizeOf(f)
         IN  /\ s \in {1, 2, 4} /\ Width(name) = ByteBits * s
             /\ s # 1 => f \in {{0}, {0, 2}, {1}}
             /\ 2 \in f => name \notin {"lb", "lh"}
             /\ 2 \notin f => name \in {"lb", "lh"} \/ s = 4
<1>1. /\ F3(n - 1) = {0} <=> n = 2
      /\ F3(n - 1) = {1} <=> n = 3
      /\ F3(n - 1) = {0, 2} <=> n = 6
      /\ 0 \in F3(n - 1) <=> n \in {2, 4, 6, 8}
      /\ 1 \in F3(n - 1) <=> n \in {3, 4, 7, 8}
      /\ 2 \in F3(n - 1) <=> n \in {5, 6, 7, 8}
  BY Funct3Codes
<1>2. n = 1 \/ n = 2 \/ n = 3 \/ n = 4 \/ n = 5 \/ n = 6 \/ n = 7 \/ n = 8
  OBVIOUS
<1>3. /\ LoadNames[1] = "lb" /\ LoadNames[2] = "lh" /\ LoadNames[3] = "lw" /\ LoadNames[4] = "unknown"
      /\ LoadNames[5] = "lbu" /\ LoadNames[6] = "lhu" /\ LoadNames[7] = "unknown" /\ LoadNames[8] = "unknown"
  BY DEF LoadNames
<1>4. /\ Width("lb") = ByteBits * 1 /\ Width("lbu") = ByteBits * 1
      /\ Width("lh") = ByteBits * 2 /\ Width("lhu") = ByteBits * 2 /\ Width("lw") = ByteBits * 4
  BY DEF Width
<1>5. CASE n = 1
  BY <1>1, <1>3, <1>4, <1>5 DEF SizeOf
<1>6. CASE n = 2
  BY <1>1, <1>3, <1>4, <1>6 DEF SizeOf
<1>7. CASE n = 3
  BY <1>1, <1>3, <1>4, <1>7 DEF SizeOf
<1>8. CASE n = 5
  BY <1>1, <1>3, <1>4, <1>8 DEF SizeOf
<1>9. CASE n = 6
  BY <1>1, <1>3, <1>4, <1>9 DEF SizeOf
<1>10. n \notin {4, 7, 8}
  BY <1>3
<1> QED
  BY <1>2, <1>5, <1>6, <1>7, <1>8, <1>9, <1>10

LEMMA StoreSizes ==
  ASSUME NEW n \in 1 .. 8, StoreNames[n] # "unknown", NEW f, f = F3(n - 1)
  PROVE  LET name == StoreNames[n]
             s    == SizeOf(f)
         IN  /\ s \in {1, 2, 4} /\ Width(name) = ByteBits * s
             /\ s # 1 => f \in {{0}, {1}}
<1>1. /\ F3(n - 1) = {0} <=> n = 2
      /\ F3(n - 1) = {1} <=> n = 3
      /\ 0 \in F3(n - 1) <=> n \in {2, 4, 6, 8}
      /\ 1 \in F3(n - 1) <=> n \in {3, 4, 7, 8}
  BY Funct3Codes
<1>2. n = 1 \/ n = 2 \/ n = 3 \/ n = 4 \/ n = 5 \/ n = 6 \/ n = 7 \/ n = 8
  OBVIOUS
<1>3. /\ StoreNames[1] = "sb" /\ StoreNames[2] = "sh" /\ StoreNames[3] = "sw" /\ StoreNames[4] = "unknown"
      /\ StoreNames[5] = "unknown" /\ StoreNames[6] = "unknown"
       /\ StoreNames[7] = "unknown" /\ StoreNames[8] = "unknown"
  BY DEF StoreNames
<1>4. Width("sb") = ByteBits * 1 /\ Width("sh") = ByteBits * 2 /\ Width("sw") = ByteBits * 4
  BY DEF Width
<1>5. CASE n = 1
  BY <1>1, <1>3, <1>4, <1>5 DEF SizeOf
<1>6. CASE n = 2
  BY <1>1, <1>3, <1>4, <1>6 DEF SizeOf
<1>7. CASE n = 3
  BY <1>1, <1>3, <1>4, <1>7 DEF SizeOf
<1>8. n \notin {4, 5, 6, 7, 8}
  BY <1>3
<1> QED
  BY <1>2, <1>5, <1>6, <1>7, <1>8

(* Loads, of the bytes that the address names.                              *)
LEMMA LoadOutcome ==
  ASSUME NEW i, NEW m, Runs(i, m), NEW d, Decoded(i, d), i.opcode = "LOAD"
  PROVE  Outcome(i, m, ExecuteDecoded(d, m))
<1> DEFINE x == Get(m, i.rs1)
           imm == ImmWord(i.imm)
           a == x + imm
           addr == UWord(a)
           k == m.cell
           f == i.funct3
           s == SizeOf(f)
           n == s * ByteBits
           from == ByteBits * (a % 4)
           low == ByteBits * (addr % 4)
           got == (k \div Pow2[low]) % Pow2[n]
           v == IF 2 \in f THEN got ELSE Extended(got, n)
           misaligned == f \in {{0}, {0, 2}, {1}} /\ (addr % s) # 0
           p == UWord(m.pc + 4)
<1>1. PICK j \in 1 .. 8 : f = F3(j - 1) /\ i.name = LoadNames[j] /\ i.format = "I"
  BY InstrType DEF Runs, Named, InTable, IsCall, NamedAt, Others
<1>2. /\ d.opcode = i.opcode /\ d.rd = i.rd /\ d.rs1 = i.rs1 /\ d.funct3 = f /\ d.imm = i.imm
  BY <1>1 DEF Decoded
<1>3. IsMachine(i, m) /\ k \in UWords /\ x \in UWords /\ imm \in UWords /\ a \in Int
  BY GetType, ImmWordType DEF Runs, Registers, IsMachine
<1>4. Num(f) + 1 = j
  BY <1>1, NumOfFunct3
<1>5. By(LoadNames, d) = i.name /\ Size(d) = s
  BY <1>1, <1>2, <1>4 DEF By, Size, SizeOf
<1>6. ExecuteDecoded(d, m) = ExecuteLoad(d, m, addr)
  BY <1>2 DEF ExecuteDecoded
<1>7. ExecuteLoad(d, m, addr) =
        IF misaligned THEN Trap(m, "misaligned")
        ELSE IF i.name = "unknown" THEN Trap(m, "illegal")
        ELSE Advance(Set(m, i.rd, v))
  BY <1>2, <1>5 DEF ExecuteLoad
<1>8. CASE misaligned
  BY <1>6, <1>7, <1>8 DEF Outcome, Available
<1>9. CASE ~ misaligned /\ i.name = "unknown"
  BY <1>6, <1>7, <1>9 DEF Outcome, Available
<1>10. CASE ~ misaligned /\ i.name # "unknown"
  <2>1. /\ s \in {1, 2, 4} /\ Width(i.name) = ByteBits * s
        /\ s # 1 => f \in {{0}, {0, 2}, {1}}
        /\ 2 \in f => i.name \notin {"lb", "lh"}
        /\ 2 \notin f => i.name \in {"lb", "lh"} \/ s = 4
    BY <1>1, <1>10, LoadSizes
  <2>2. s = 1 \/ (addr % s) = 0
    BY <1>10, <2>1
  <2>3. /\ low = from /\ from \in Nat /\ n \in Nat \ {0} /\ n = ByteBits * s /\ from + n <= XLEN
        /\ s = 4 => n = XLEN
    <3> HIDE DEF a, s
    <3> QED
      BY <1>3, <2>1, <2>2, AccessFits
  <2>4. Width(i.name) = n
    BY <2>1, <2>3
  <2> HIDE DEF low, from, n, s, f, k, got
  <2>5. \A b \in 0 .. XLEN - 1 :
          /\ b \in Bits(got) <=> b < n /\ from + b \in Bits(k)
          /\ b \in Bits(Extended(got, n)) <=> (IF b < n THEN from + b ELSE from + n - 1) \in Bits(k)
    <3>1. got = (k \div Pow2[from]) % Pow2[n]
      BY <2>3 DEF got
    <3> QED
      BY <1>3, <2>3, <3>1, LoadedBits
  <2>6. \A b \in 0 .. XLEN - 1 :
          b \in Bits(v) <=> IF b < n THEN from + b \in Bits(k)
                            ELSE i.name \in {"lb", "lh"} /\ from + n - 1 \in Bits(k)
    <3>1. CASE 2 \in f
      BY <2>1, <2>5, <3>1
    <3>2. CASE 2 \notin f /\ i.name \in {"lb", "lh"}
      BY <2>5, <3>2
    <3>3. CASE 2 \notin f /\ s = 4
      <4>1. \A b \in 0 .. XLEN - 1 : b < n
        BY <2>3, <3>3, WordSize
      <4> QED
        BY <2>5, <3>3, <4>1
    <3> QED
      BY <2>1, <3>1, <3>2, <3>3
  <2> HIDE DEF v
  <2>7. Loads(i.name, k, from, v)
    BY <2>4, <2>6 DEF Loads, BitsAre
  <2>8. Effect(i, m, k, v, p)
    BY <1>3, <2>7, NextPc DEF Effect, from, k
  <2>9. ExecuteDecoded(d, m) = After(m, k, i.rd, v, p)
    BY <1>3, <1>6, <1>7, <1>10, StepsAre DEF k
  <2> QED
    BY <1>10, <2>8, <2>9 DEF Outcome, Available
<1> QED
  BY <1>8, <1>9, <1>10

(* Stores, to the bytes that the address names.                             *)
LEMMA StoreOutcome ==
  ASSUME NEW i, NEW m, Runs(i, m), NEW d, Decoded(i, d), i.opcode = "STORE"
  PROVE  Outcome(i, m, ExecuteDecoded(d, m))
<1> DEFINE x == Get(m, i.rs1)
           y == Get(m, i.rs2)
           imm == ImmWord(i.imm)
           a == x + imm
           addr == UWord(a)
           k == m.cell
           f == i.funct3
           s == SizeOf(f)
           n == s * ByteBits
           from == ByteBits * (a % 4)
           low == ByteBits * (addr % 4)
           new == k - ((k \div Pow2[low]) % Pow2[n]) * Pow2[low] + (y % Pow2[n]) * Pow2[low]
           misaligned == f \in {{0}, {1}} /\ (addr % s) # 0
           p == UWord(m.pc + 4)
<1>1. PICK j \in 1 .. 8 : f = F3(j - 1) /\ i.name = StoreNames[j] /\ i.format = "S" /\ i.rd = {}
  BY InstrType DEF Runs, Named, InTable, IsCall, NamedAt, Others, Shape
<1>2. /\ d.opcode = i.opcode /\ d.rs1 = i.rs1 /\ d.rs2 = i.rs2 /\ d.funct3 = f /\ d.imm = i.imm
  BY <1>1 DEF Decoded
<1>3. IsMachine(i, m) /\ k \in UWords /\ x \in UWords /\ y \in UWords /\ imm \in UWords /\ a \in Int
  <2>1. IsMachine(i, m) /\ x \in UWords /\ y \in UWords
    BY GetType DEF Runs, Registers
  <2>2. k \in UWords /\ imm \in UWords
    BY <2>1, ImmWordType DEF IsMachine
  <2> HIDE DEF x, imm
  <2> QED
    BY <2>1, <2>2, ImmWordType
<1>4. Num(f) + 1 = j
  BY <1>1, NumOfFunct3
<1>5. By(StoreNames, d) = i.name /\ Size(d) = s
  BY <1>1, <1>2, <1>4 DEF By, Size, SizeOf
<1>6. ExecuteDecoded(d, m) = ExecuteStore(d, m, addr, y)
  BY <1>2 DEF ExecuteDecoded
<1>7. ExecuteStore(d, m, addr, y) =
        IF misaligned THEN Trap(m, "misaligned")
        ELSE IF i.name = "unknown" THEN Trap(m, "illegal")
        ELSE Advance([m EXCEPT !.cell = new])
  BY <1>2, <1>5 DEF ExecuteStore
<1>8. CASE misaligned
  BY <1>6, <1>7, <1>8 DEF Outcome, Available
<1>9. CASE ~ misaligned /\ i.name = "unknown"
  BY <1>6, <1>7, <1>9 DEF Outcome, Available
<1>10. CASE ~ misaligned /\ i.name # "unknown"
  <2>1. /\ s \in {1, 2, 4} /\ Width(i.name) = ByteBits * s
        /\ s # 1 => f \in {{0}, {1}}
    BY <1>1, <1>10, StoreSizes
  <2>2. s = 1 \/ (addr % s) = 0
    BY <1>10, <2>1
  <2>3. low = from /\ from \in Nat /\ n \in Nat \ {0} /\ n = ByteBits * s /\ from + n <= XLEN
    <3> HIDE DEF a, s
    <3> QED
      BY <1>3, <2>1, <2>2, AccessFits
  <2>4. Width(i.name) = n
    BY <2>1, <2>3
  <2> HIDE DEF low, from, n, s, f, k, y
  <2>5. \A b \in 0 .. XLEN - 1 :
          b \in Bits(new) <=> IF b \in from .. from + n - 1 THEN b - from \in Bits(y) ELSE b \in Bits(k)
    <3>1. new = k - ((k \div Pow2[from]) % Pow2[n]) * Pow2[from] + (y % Pow2[n]) * Pow2[from]
      BY <2>3
    <3> HIDE DEF new
    <3> QED
      BY <1>3, <2>3, <3>1, StoredBits
  <2> HIDE DEF new
  <2>6. Stores(i.name, k, from, y, new)
    BY <2>4, <2>5 DEF Stores, BitsAre
  <2>7. Effect(i, m, new, 0, p)
    BY <1>3, <2>6, NextPc DEF Effect, from, k, y
  <2>8. ExecuteDecoded(d, m) = After(m, new, i.rd, 0, p)
    BY <1>1, <1>3, <1>6, <1>7, <1>10, StepsAre
  <2> QED
    BY <1>10, <2>7, <2>8 DEF Outcome, Available
<1> QED
  BY <1>8, <1>9, <1>10

----------------------------------------------------------------------------
(* Theorems.                                                                *)

(* Every instruction that is executed has its effect or traps.              *)
LEMMA ExecuteOutcome ==
  ASSUME NEW i, NEW m, Runs(i, m), NEW d, Decoded(i, d)
  PROVE  Outcome(i, m, ExecuteDecoded(d, m)) /\ i.opcode \in DOMAIN OpcodeBits
<1>1. i.opcode \in DOMAIN OpcodeBits
  BY InstrType DEF Runs, Shape
<1>2. i.opcode \in {"OP", "OP_IMM", "LUI", "AUIPC", "LOAD", "STORE", "BRANCH", "JAL", "JALR", "AMO", "SYSTEM",
                    "MISC_MEM"}
  BY <1>1 DEF OpcodeBits
<1> QED
  BY <1>1, <1>2, OpOutcome, OpImmOutcome, UpperOutcome, LoadOutcome, StoreOutcome, BranchOutcome, JumpOutcome,
     AmoOutcome, CsrOutcome, FenceOutcome

(* So does the one whose execution a state shows.                           *)
LEMMA DoneOutcome ==
  ASSUME IInv, stage = "done"
  PROVE  /\ IsMachine(instr, before) /\ Outcome(instr, before, machine)
         /\ instr.opcode \in DOMAIN OpcodeBits
<1>1. instr \in Instrs /\ IsMachine(instr, before)
  BY MachineType DEF IInv
<1>2. Decoded(instr, decoded) /\ decoded = Decode(Build(instr))
  BY <1>1, DecodedIs DEF IInv
<1>3. instr.name \notin {"lr.w", "sc.w"}
  <2>1. CASE instr.opcode = "AMO"
    BY <1>2, <2>1 DEF IInv, Decoded
  <2>2. CASE instr.opcode # "AMO"
    <3>1. CASE IsCall(instr)
      BY <3>1 DEF IsCall
    <3>2. CASE InTable(instr)
      <4>1. PICK n \in 1 .. 8 : NamedAt(instr, n)
        BY <3>2 DEF InTable
      <4>2. \/ instr.name \in {OpNames[n], AltNames[n], MulNames[n], ImmNames[n], LoadNames[n], StoreNames[n],
                               BranchNames[n], CsrNames[n]}
            \/ instr.name \in {"srai", "jalr", "fence", "lui", "auipc", "jal"}
        BY <2>2, <4>1 DEF NamedAt, Others
      <4>3. "lr.w" \in Special /\ "sc.w" \in Special
        BY DEF Special
      <4> QED
        BY <4>2, <4>3, TableNames
    <3> QED
      BY <1>1, <3>1, <3>2, InstrType DEF Named
  <2> QED
    BY <2>1, <2>2
<1>4. ~ (instr.opcode = "SYSTEM" /\ instr.funct3 = {})
  <2>1. instr.opcode = "SYSTEM" => instr.format = "I"
    <3>1. Shape(instr)
      BY <1>1, InstrType
    <3>2. FormatsOf["SYSTEM"] = {"I"}
      BY DEF FormatsOf
    <3> QED
      BY <3>1, <3>2 DEF Shape
  <2> QED
    BY <1>2, <2>1 DEF IInv, Decoded
<1>5. Runs(instr, before)
  BY <1>1, <1>3, <1>4 DEF Runs
<1>6. machine = ExecuteDecoded(decoded, before)
  BY DEF IInv
<1> QED
  BY <1>1, <1>2, <1>5, <1>6, ExecuteOutcome

(* For all instructions, operands and extensions, the trace names what was  *)
(* built; the CPU takes for illegal what the trace calls "unknown" and what *)
(* is of an extension that is off, and nothing else.                        *)
THEOREM SpecTraceNamesInstr == Spec => []TraceNamesInstr
<1>1. ASSUME IInv, stage \in {"decoded", "done"}
      PROVE  /\ text = IF instr.name = "unknown" THEN <<"unknown">> ELSE <<instr.name>> \o Operands(instr)
             /\ text = <<"unknown">> <=> instr.name = "unknown"
  <2>1. instr \in Instrs /\ text = Disassemble(Decode(Build(instr)))
    BY <1>1 DEF IInv
  <2> QED
    BY <2>1, TextRead
<1>2. ASSUME IInv, stage = "done"
      PROVE  /\ ~ Available(instr) => machine.trap = "illegal"
             /\ Available(instr) /\ machine.trap # "misaligned" =>
                  (machine.trap = "illegal" <=> text = <<"unknown">>)
  <2>1. /\ ~ Available(instr) => machine.trap = "illegal"
        /\ Available(instr) /\ machine.trap # "misaligned" =>
             (machine.trap = "illegal" <=> instr.name = "unknown")
    BY <1>2, DoneOutcome, OutcomeTrap
  <2> QED
    BY <1>1, <1>2, <2>1
<1>3. IInv => TraceNamesInstr
  BY <1>1, <1>2 DEF TraceNamesInstr
<1> QED
  BY <1>3, IsaInvariant, PTL

(* For all instructions and all operands, execute changes nothing beyond    *)
(* what the instruction names, and a trap changes nothing.                  *)
THEOREM SpecLeavesRestAlone == Spec => []LeavesRestAlone
<1>1. IInv => LeavesRestAlone
  BY DoneOutcome, OutcomeLeavesRest DEF LeavesRestAlone
<1> QED
  BY <1>1, IsaInvariant, PTL

(* For every word size and all operands, an instruction that was built,     *)
(* decoded and executed does what its name means.                           *)
THEOREM SpecComputesMeaning == Spec => []ComputesMeaning
<1>1. ASSUME IInv, stage = "done" PROVE HasMeaning(instr, before, machine)
  BY <1>1, DoneOutcome, OutcomeMeans
<1>2. IInv => ComputesMeaning
  <2>1. stage = "done" => (HasMeaning(instr, before, machine) => ComputesMeaning)
    BY DEF HasMeaning, ComputesMeaning
  <2>2. stage # "done" => ComputesMeaning
    BY DEF ComputesMeaning
  <2> QED
    BY <1>1, <2>1, <2>2
<1> QED
  BY <1>2, IsaInvariant, PTL
=============================================================================
