--------------------------------- MODULE MCIsa ---------------------------------
(* Words of 4 bits, bytes of 1.  Immediates with at most two bits that       *)
(* differ from all the others: every wire and every pair of wires.          *)
EXTENDS Isa, FiniteSetsExt

AtMost(n, S) == UNION { kSubset(k, S) : k \in 0 .. n }

FewBits(n) ==
  LET few == AtMost(IF n > 12 THEN 1 ELSE 2, 0 .. n - 1) IN few \cup { (0 .. n - 1) \ v : v \in few }

(* Every two of rd, rs1 and rs2 the same register, and each of them x0.     *)
Triples ==
  LET z == {0} x == 0 .. 4 y == {2, 4}
  IN  { <<z, x, y>>, <<x, {}, {0, 3}>>, <<x, x, y>>, <<y, x, y>>, <<z, y, y>>, << {}, x, y >> }

(* Both extensions, as in main.cpp, each without the other, and none.       *)
AllConfigs == SUBSET {EXT_M, EXT_A}

(* Every pair with register operations, some with the others.               *)
Values(i) ==
  CASE i.opcode = "OP"     -> UWords \X UWords \X {0}
    [] i.opcode = "OP_IMM" -> (IF i.format = "R" THEN UWords ELSE {0, 7, 9}) \X {0} \X {0}
    [] i.opcode = "LOAD"   -> { <<0, 0, 9>>, <<5, 0, 6>> }
    [] i.opcode = "STORE"  -> { <<0, 5, 9>>, <<5, 10, 6>>, <<5, 5, 9>> , <<0, 0, 9>> }
    [] i.opcode = "AMO"    -> {0, 4, 6} \X {0, 1, 4, 7, 8, 15} \X {0, 1, 7, 8, 15}
    [] i.opcode = "SYSTEM" -> {0, 5, 12} \X {0} \X {0, 6, 15}
    [] i.opcode = "BRANCH" -> { <<0, 0, 0>>, <<7, 8, 0>>, <<8, 7, 0>>, <<7, 7, 0>> }
    [] OTHER               -> {0, 2, 5} \X {0} \X {0}
=============================================================================
