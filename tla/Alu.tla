---------------------------------- MODULE Alu ----------------------------------
(***************************************************************************)
(* ALU<XLEN>::execute (alu.hpp) on words of XLEN bits, as operators.  The   *)
(* code is generic in the width; only products use a wider type.            *)
(***************************************************************************)
EXTENDS Integers

CONSTANT XLEN   \* bits of a word: a power of two, for SHIFT_MASK

ASSUME AluAssumption == XLEN \in {2, 4, 8, 16, 32, 64}

(* 1 << n                                                                   *)
Pow2[n \in Nat] == IF n = 0 THEN 1 ELSE 2 * Pow2[n - 1]

UWords == 0 .. Pow2[XLEN] - 1

(* static_cast<UWord> of any integer.                                       *)
UWord(n) == n % Pow2[XLEN]

(* static_cast<SWord>                                                       *)
SWord(a) == IF a < Pow2[XLEN - 1] THEN a ELSE a - Pow2[XLEN]

SWordMin == -(Pow2[XLEN - 1])

(* A word as the set of its bits that are 1, and back.                      *)
Bits(a) == { k \in 0 .. XLEN - 1 : (a \div Pow2[k]) % 2 = 1 }

Num(bits) == CHOOSE a \in UWords : Bits(a) = bits

Abs(x) == IF x < 0 THEN -x ELSE x

(* x / y and x % y of C++.                                                  *)
Quotient(x, y) ==
  LET q == Abs(x) \div Abs(y) IN IF (x < 0) = (y < 0) THEN q ELSE -q

Remainder(x, y) == x - y * Quotient(x, y)

(* The upper half of a product, cast to twice the width before the shift.   *)
Upper(product) == (product % Pow2[2 * XLEN]) \div Pow2[XLEN]

Shamt(b) == b % XLEN

Compare(holds) == IF holds THEN 1 ELSE 0

Overflows(a, b) == SWord(a) = SWordMin /\ SWord(b) = -1

Execute(op, a, b) ==
  CASE op = "ADD"  -> UWord(a + b)
    [] op = "SUB"  -> UWord(a - b)
    [] op = "AND"  -> Num(Bits(a) \cap Bits(b))
    [] op = "OR"   -> Num(Bits(a) \cup Bits(b))
    [] op = "XOR"  -> Num((Bits(a) \cup Bits(b)) \ (Bits(a) \cap Bits(b)))
    [] op = "SLL"  -> UWord(a * Pow2[Shamt(b)])
    [] op = "SRL"  -> a \div Pow2[Shamt(b)]
    [] op = "SRA"  -> UWord(SWord(a) \div Pow2[Shamt(b)])
    [] op = "SLT"  -> Compare(SWord(a) < SWord(b))
    [] op = "SLTU" -> Compare(a < b)
    [] op = "MUL"    -> UWord(a * b)
    [] op = "MULH"   -> Upper(SWord(a) * SWord(b))
    [] op = "MULHSU" -> Upper(SWord(a) * b)
    [] op = "MULHU"  -> Upper(a * b)
    [] op = "DIV"  -> IF b = 0 THEN Pow2[XLEN] - 1
                      ELSE IF Overflows(a, b) THEN UWord(SWordMin)
                      ELSE UWord(Quotient(SWord(a), SWord(b)))
    [] op = "DIVU" -> IF b = 0 THEN Pow2[XLEN] - 1 ELSE a \div b
    [] op = "REM"  -> IF b = 0 THEN a
                      ELSE IF Overflows(a, b) THEN 0
                      ELSE UWord(Remainder(SWord(a), SWord(b)))
    [] op = "REMU" -> IF b = 0 THEN a ELSE a % b
=============================================================================
