---------------------------------- MODULE Isa ----------------------------------
(***************************************************************************)
(* An instruction on its way through the tool chain and the CPU: built      *)
(* (instr_builder.hpp), decoded (decoder.hpp, isa.hpp), written to the      *)
(* trace (disasm.hpp), executed (rv_model.hpp, alu.hpp, register_file.hpp,  *)
(* csr_file.hpp).                                                           *)
(*                                                                          *)
(* An instruction word, a field of one and an immediate are the sets of the *)
(* positions of their 1 bits, an immediate with 32 of them.  The machine    *)
(* has words of XLEN bits, four bytes each, and of all its memory and CSRs  *)
(* the one cell that the instruction addresses.  Traps are Hart's, LR and   *)
(* SC Memory's: here an instruction traps without going anywhere.           *)
(***************************************************************************)
EXTENDS Alu, Sequences

CONSTANTS
  Configs,      \* sets of extensions the CPU is built with, of EXT_M and EXT_A
  Regs,         \* triples of register numbers <<rd, rs1, rs2>> in use
  ImmSample(_), \* the values tried of an immediate field of n bits
  Inputs(_)     \* the <<a, b, c>> tried with an instruction: the values of
                \* its rs1, of its rs2 and of the cell

VARIABLE extensions     \* config_: set when the CPU is built

EXT_M == "M"
EXT_A == "A"

(* Opcode                                                                   *)
OpcodeBits ==
  [LOAD |-> {0, 1}, MISC_MEM |-> 0 .. 3, OP_IMM |-> {0, 1, 4}, AUIPC |-> {0, 1, 2, 4},
   STORE |-> {0, 1, 5}, AMO |-> (0 .. 3) \cup {5}, OP |-> {0, 1, 4, 5}, LUI |-> {0, 1, 2, 4, 5},
   BRANCH |-> {0, 1, 5, 6}, JALR |-> {0, 1, 2, 5, 6}, JAL |-> (0 .. 6) \ {4},
   SYSTEM |-> {0, 1, 4, 5, 6}]

F7_NORMAL == {}
F7_ALT    == {5}
F7_MEXT   == {0}

(* extractBits(w, hi, lo), v << n, signExtend(v, n)                         *)
Extract(w, hi, lo) == { k - lo : k \in w \cap lo .. hi }

Shift(v, n) == { k + n : k \in v }

SignExtend(v, n) == v \cup (IF n - 1 \in v THEN n .. 31 ELSE {})

----------------------------------------------------------------------------
(* Building.  Fields that a format does not have are empty.                 *)

(* The encoder places bits 11 and 12 of a branch offset the other way.      *)
BuildImmB_mutant(imm) ==
  Shift(Extract(imm, 11, 11), 31) \cup Shift(Extract(imm, 10, 5), 25)
    \cup Shift(Extract(imm, 4, 1), 8) \cup Shift(Extract(imm, 12, 12), 7)

BuildImmB(imm) ==
  Shift(Extract(imm, 12, 12), 31) \cup Shift(Extract(imm, 10, 5), 25)
    \cup Shift(Extract(imm, 4, 1), 8) \cup Shift(Extract(imm, 11, 11), 7)

BuildImmI(imm) == Shift(Extract(imm, 11, 0), 20)

BuildImmS(imm) == Shift(Extract(imm, 11, 5), 25) \cup Shift(Extract(imm, 4, 0), 7)

BuildImmU(imm) == imm \cap 12 .. 31

BuildImmJ(imm) ==
  Shift(Extract(imm, 20, 20), 31) \cup Shift(Extract(imm, 10, 1), 21)
    \cup Shift(Extract(imm, 11, 11), 20) \cup Shift(Extract(imm, 19, 12), 12)

BuildImm(i) ==
  CASE i.format = "R" -> {}
    [] i.format = "I" -> BuildImmI(i.imm)
    [] i.format = "S" -> BuildImmS(i.imm)
    [] i.format = "B" -> BuildImmB(i.imm)
    [] i.format = "U" -> BuildImmU(i.imm)
    [] i.format = "J" -> BuildImmJ(i.imm)

Build(i) ==
  UNION {Shift(i.funct7, 25), Shift(i.rs2, 20), Shift(i.rs1, 15), Shift(i.funct3, 12),
         Shift(i.rd, 7), OpcodeBits[i.opcode], BuildImm(i)}

----------------------------------------------------------------------------
(* Decoding.                                                                *)
DecodeImmI(w) == SignExtend(Extract(w, 31, 20), 12)

DecodeImmS(w) == SignExtend(Shift(Extract(w, 31, 25), 5) \cup Extract(w, 11, 7), 12)

DecodeImmB(w) ==
  SignExtend(UNION {Shift(Extract(w, 31, 31), 12), Shift(Extract(w, 7, 7), 11),
                    Shift(Extract(w, 30, 25), 5), Shift(Extract(w, 11, 8), 1)}, 13)

DecodeImmU(w) == w \cap 12 .. 31

DecodeImmJ(w) ==
  SignExtend(UNION {Shift(Extract(w, 31, 31), 20), Shift(Extract(w, 19, 12), 12),
                    Shift(Extract(w, 20, 20), 11), Shift(Extract(w, 30, 21), 1)}, 21)

OpcodeOf(w) == CHOOSE o \in DOMAIN OpcodeBits : OpcodeBits[o] = Extract(w, 6, 0)

DecodeImm(w) ==
  LET op == OpcodeOf(w) IN
  CASE op \in {"LOAD", "OP_IMM", "JALR", "MISC_MEM", "SYSTEM"} -> DecodeImmI(w)
    [] op = "STORE"           -> DecodeImmS(w)
    [] op = "BRANCH"          -> DecodeImmB(w)
    [] op \in {"LUI", "AUIPC"} -> DecodeImmU(w)
    [] op = "JAL"             -> DecodeImmJ(w)
    [] OTHER                  -> {}

Decode(w) ==
  [opcode |-> OpcodeOf(w), rd |-> Extract(w, 11, 7), funct3 |-> Extract(w, 14, 12),
   rs1 |-> Extract(w, 19, 15), rs2 |-> Extract(w, 24, 20), funct7 |-> Extract(w, 31, 25),
   imm |-> DecodeImm(w)]

----------------------------------------------------------------------------
(* Mnemonics by funct3; "unknown" is no instruction.                        *)
OpNames     == <<"add", "sll", "slt", "sltu", "xor", "srl", "or", "and">>
AltNames    == [OpNames EXCEPT ![1] = "sub", ![6] = "sra"]
MulNames    == <<"mul", "mulh", "mulhsu", "mulhu", "div", "divu", "rem", "remu">>
ImmNames    == <<"addi", "slli", "slti", "sltiu", "xori", "srli", "ori", "andi">>
LoadNames   == <<"lb", "lh", "lw", "unknown", "lbu", "lhu", "unknown", "unknown">>
StoreNames  == <<"sb", "sh", "sw", "unknown", "unknown", "unknown", "unknown", "unknown">>
BranchNames == <<"beq", "bne", "unknown", "unknown", "blt", "bge", "bltu", "bgeu">>
CsrNames    == <<"unknown", "csrrw", "csrrs", "csrrc", "unknown", "csrrwi", "csrrsi", "csrrci">>

(* Funct5AMO                                                                *)
AmoNames ==
  { <<{}, "amoadd.w">>, <<{0}, "amoswap.w">>, <<{1}, "lr.w">>, <<{0, 1}, "sc.w">>, <<{2}, "amoxor.w">>,
    <<{3}, "amoor.w">>, <<{2, 3}, "amoand.w">>, <<{4}, "amomin.w">>, <<{2, 4}, "amomax.w">>,
    <<{3, 4}, "amominu.w">>, <<{2, 3, 4}, "amomaxu.w">> }

AmoName(funct7) ==
  LET named == { n \in AmoNames : n[1] = Extract(funct7, 6, 2) } IN
  IF named = {} THEN "unknown" ELSE (CHOOSE n \in named : TRUE)[2]

By(names, d) == names[Num(d.funct3) + 1]

(* disassemble.  The text is its mnemonic and operands in order; numbers    *)
(* stand for the names of registers and CSRs.                               *)
Mnemonic(d) ==
  CASE d.opcode = "OP_IMM" -> IF d.funct3 = {0, 2} /\ d.funct7 = F7_ALT THEN "srai" ELSE By(ImmNames, d)
    [] d.opcode = "OP"     -> By(IF d.funct7 = F7_MEXT THEN MulNames
                                 ELSE IF d.funct7 = F7_ALT THEN AltNames ELSE OpNames, d)
    [] d.opcode = "LOAD"   -> By(LoadNames, d)
    [] d.opcode = "STORE"  -> By(StoreNames, d)
    [] d.opcode = "BRANCH" -> By(BranchNames, d)
    [] d.opcode = "SYSTEM" -> IF d.funct3 # {} THEN By(CsrNames, d)
                              ELSE CASE d.imm = {} -> "ecall"
                                     [] d.imm = {0} -> "ebreak"
                                     [] d.imm = {1, 8, 9} -> "mret"
                                     [] OTHER -> "unknown"
    [] d.opcode = "AMO"    -> AmoName(d.funct7)
    [] OTHER -> [LUI |-> "lui", AUIPC |-> "auipc", JAL |-> "jal", JALR |-> "jalr", MISC_MEM |-> "fence"][d.opcode]

(* stype prints the operands of a load.                                     *)
Shown_mutant(d) ==
  CASE d.opcode \in {"LOAD", "STORE"} -> <<d.rd, d.imm, d.rs1>>
    [] d.opcode = "BRANCH"             -> <<d.rs1, d.rs2, d.imm>>
    [] OTHER                           -> <<d.rd, d.rs1, d.rs2>>

Shown(d) ==
  CASE d.opcode = "LOAD"   -> <<d.rd, d.imm, d.rs1>>
    [] d.opcode = "STORE"  -> <<d.rs2, d.imm, d.rs1>>
    [] d.opcode = "BRANCH" -> <<d.rs1, d.rs2, d.imm>>
    [] d.opcode \in {"LUI", "AUIPC"} -> <<d.rd, Extract(d.imm, 31, 12)>>
    [] d.opcode = "JAL"    -> <<d.rd, d.imm>>
    [] d.opcode = "JALR" \/ (d.opcode = "OP_IMM" /\ d.funct3 \notin {{0}, {0, 2}}) -> <<d.rd, d.rs1, d.imm>>
    [] d.opcode = "SYSTEM" -> IF d.funct3 = {} THEN <<>> ELSE <<d.rd, Extract(d.imm, 11, 0), d.rs1>>
    [] d.opcode = "AMO"    -> IF AmoName(d.funct7) = "lr.w" THEN <<d.rd, d.rs1>> ELSE <<d.rd, d.rs2, d.rs1>>
    [] d.opcode = "MISC_MEM" -> <<>>
    [] OTHER               -> <<d.rd, d.rs1, d.rs2>>

Disassemble(d) == IF Mnemonic(d) = "unknown" THEN <<"unknown">> ELSE <<Mnemonic(d)>> \o Shown(d)

----------------------------------------------------------------------------
(* Executing: each operator takes the machine before and gives the one      *)
(* after.  x0 reads as 0 and cannot be written.                             *)
Get(m, r) == IF r = {} THEN 0 ELSE m.regs[r]

Set(m, r, v) == IF r = {} THEN m ELSE [m EXCEPT !.regs[r] = v]

Trap(m, why) == [m EXCEPT !.trap = why]

Advance(m) == [m EXCEPT !.pc = UWord(@ + 4)]

ImmWord(imm) == Num(imm \cap 0 .. XLEN - 1)

(* Links before it looks where it goes.                                     *)
JumpAndLink_mutant(d, m, target) ==
  LET linked == Set(m, d.rd, UWord(m.pc + 4)) IN
  IF target % 4 # 0 THEN Trap(linked, "misaligned") ELSE [linked EXCEPT !.pc = target]

(* JAL and JALR.                                                            *)
JumpAndLink(d, m, target) ==
  IF target % 4 # 0 THEN Trap(m, "misaligned") ELSE [Set(m, d.rd, UWord(m.pc + 4)) EXCEPT !.pc = target]

(* target & ~1                                                              *)
Even(target) == 2 * (target \div 2)

(* The operations of executeOp and executeOpImm by funct3; alt is the bit   *)
(* that makes SRA of SRL and, in executeOp only, SUB of ADD.                *)
BaseOp(funct3, alt) ==
  << IF alt THEN "SUB" ELSE "ADD", "SLL", "SLT", "SLTU", "XOR",
     IF alt THEN "SRA" ELSE "SRL", "OR", "AND" >>[Num(funct3) + 1]

MulOp(funct3) ==
  <<"MUL", "MULH", "MULHSU", "MULHU", "DIV", "DIVU", "REM", "REMU">>[Num(funct3) + 1]

(* Multiplies whether or not the CPU was built to.                          *)
ExecuteOp_mutant(d, m, a, b) ==
  Advance(Set(m, d.rd, Execute(IF d.funct7 = F7_MEXT THEN MulOp(d.funct3)
                               ELSE BaseOp(d.funct3, d.funct7 = F7_ALT), a, b)))

ExecuteOp(d, m, a, b) ==
  IF d.funct7 # F7_MEXT THEN Advance(Set(m, d.rd, Execute(BaseOp(d.funct3, d.funct7 = F7_ALT), a, b)))
  ELSE IF EXT_M \notin extensions THEN Trap(m, "illegal")
  ELSE Advance(Set(m, d.rd, Execute(MulOp(d.funct3), a, b)))

ExecuteOpImm(d, a) ==
  Execute(IF d.funct3 = {} THEN "ADD" ELSE BaseOp(d.funct3, 5 \in d.funct7), a, ImmWord(d.imm))

ExecuteBranch(d, m, a, b) ==
  LET taken  == << a = b, a # b, FALSE, FALSE,
                   SWord(a) < SWord(b), SWord(a) >= SWord(b), a < b, a >= b >>[Num(d.funct3) + 1]
      target == UWord(m.pc + ImmWord(d.imm))
  IN  IF By(BranchNames, d) = "unknown" THEN Trap(m, "illegal")
      ELSE IF ~ taken THEN Advance(m)
      ELSE IF target % 4 # 0 THEN Trap(m, "misaligned")
      ELSE [m EXCEPT !.pc = target]

(* Byte, half and word accesses by the low bits of funct3.                  *)
ByteBits == XLEN \div 4

Size(d) == IF 0 \in d.funct3 THEN 2 ELSE IF 1 \in d.funct3 THEN 4 ELSE 1

(* signExtend to XLEN of the low n bits.                                    *)
Extended(v, n) == UWord(IF v < Pow2[n - 1] THEN v ELSE v - Pow2[n])

ExecuteLoad(d, m, addr) ==
  LET n == Size(d) * ByteBits
      v == (m.cell \div Pow2[ByteBits * (addr % 4)]) % Pow2[n]
  IN  IF d.funct3 \in {{0}, {0, 2}, {1}} /\ addr % Size(d) # 0 THEN Trap(m, "misaligned")
      ELSE IF By(LoadNames, d) = "unknown" THEN Trap(m, "illegal")
      ELSE Advance(Set(m, d.rd, IF 2 \in d.funct3 THEN v ELSE Extended(v, n)))

ExecuteStore(d, m, addr, b) ==
  LET low == ByteBits * (addr % 4)
      n   == Size(d) * ByteBits
  IN  IF d.funct3 \in {{0}, {1}} /\ addr % Size(d) # 0 THEN Trap(m, "misaligned")
      ELSE IF By(StoreNames, d) = "unknown" THEN Trap(m, "illegal")
      ELSE Advance([m EXCEPT !.cell = @ - ((@ \div Pow2[low]) % Pow2[n]) * Pow2[low] + (b % Pow2[n]) * Pow2[low]])

(* csrrw to csrrci; operand and test for zero are of rs1 or of zimm.  A CSR *)
(* whose address begins with 11 cannot be written.                          *)
ExecuteCSR(d, m) ==
  LET operand == IF 2 \in d.funct3 THEN ImmWord(d.rs1) ELSE Get(m, d.rs1)
      new     == IF 1 \notin d.funct3 THEN operand
                 ELSE IF d.rs1 = {} THEN m.cell
                 ELSE IF 0 \notin d.funct3 THEN Num(Bits(m.cell) \cup Bits(operand))
                 ELSE Num(Bits(m.cell) \ Bits(operand))
      written == IF {10, 11} \subseteq d.imm THEN m ELSE [m EXCEPT !.cell = new]
  IN  IF By(CsrNames, d) = "unknown" THEN Trap(m, "illegal") ELSE Advance(Set(written, d.rd, m.cell))

(* What an AMO other than LR and SC stores.                                 *)
AmoResult(name, x, y) ==
  CASE name = "amoswap.w" -> y
    [] name = "amoadd.w"  -> UWord(x + y)
    [] name = "amoxor.w"  -> Execute("XOR", x, y)
    [] name = "amoand.w"  -> Execute("AND", x, y)
    [] name = "amoor.w"   -> Execute("OR", x, y)
    [] name = "amomin.w"  -> IF SWord(x) < SWord(y) THEN x ELSE y
    [] name = "amomax.w"  -> IF SWord(x) > SWord(y) THEN x ELSE y
    [] name = "amominu.w" -> IF x < y THEN x ELSE y
    [] name = "amomaxu.w" -> IF x > y THEN x ELSE y

(* Reads rs2 after rd has been written.                                     *)
ExecuteAMO_mutant(d, m) ==
  LET loaded == Set(m, d.rd, m.cell) IN
  IF EXT_A \notin extensions THEN Trap(m, "illegal")
  ELSE IF Get(m, d.rs1) % 4 # 0 THEN Trap(m, "misaligned")
  ELSE IF AmoName(d.funct7) = "unknown" THEN Trap(m, "illegal")
  ELSE Advance([loaded EXCEPT !.cell = AmoResult(AmoName(d.funct7), m.cell, Get(loaded, d.rs2))])

ExecuteAMO(d, m) ==
  IF EXT_A \notin extensions THEN Trap(m, "illegal")
  ELSE IF Get(m, d.rs1) % 4 # 0 THEN Trap(m, "misaligned")
  ELSE IF AmoName(d.funct7) = "unknown" THEN Trap(m, "illegal")
  ELSE Advance(Set([m EXCEPT !.cell = AmoResult(AmoName(d.funct7), @, Get(m, d.rs2))], d.rd, m.cell))

ExecuteDecoded(d, m) ==
  LET a    == Get(m, d.rs1)
      b    == Get(m, d.rs2)
      imm  == ImmWord(d.imm)
  IN  CASE d.opcode = "LUI"    -> Advance(Set(m, d.rd, imm))
        [] d.opcode = "AUIPC"  -> Advance(Set(m, d.rd, UWord(m.pc + imm)))
        [] d.opcode = "JAL"    -> JumpAndLink(d, m, UWord(m.pc + imm))
        [] d.opcode = "JALR"   -> JumpAndLink(d, m, Even(UWord(a + imm)))
        [] d.opcode = "BRANCH" -> ExecuteBranch(d, m, a, b)
        [] d.opcode = "LOAD"   -> ExecuteLoad(d, m, UWord(a + imm))
        [] d.opcode = "STORE"  -> ExecuteStore(d, m, UWord(a + imm), b)
        [] d.opcode = "OP"     -> ExecuteOp(d, m, a, b)
        [] d.opcode = "OP_IMM" -> Advance(Set(m, d.rd, ExecuteOpImm(d, a)))
        [] d.opcode = "AMO"    -> ExecuteAMO(d, m)
        [] d.opcode = "SYSTEM" -> ExecuteCSR(d, m)
        [] d.opcode = "MISC_MEM" -> Advance(m)

----------------------------------------------------------------------------
(* What is built: every name of the tables, with the fields its format has, *)
(* and as "unknown" the function codes that have no name.                   *)
F3(n) == { k \in 0 .. 2 : (n \div Pow2[k]) % 2 = 1 }

Row(name, format, opcode, funct7, funct3) ==
  [name |-> name, format |-> format, opcode |-> opcode, funct7 |-> funct7, funct3 |-> funct3]

Rows(format, opcode, funct7, names) ==
  { Row(names[n], format, opcode, funct7, F3(n - 1)) : n \in DOMAIN names }

(* slli, srli and srai are built like R with the shift amount for rs2.      *)
IsShift(row) == row.funct3 \in {{0}, {0, 2}}

Table ==
  UNION {Rows("R", "OP", F7_NORMAL, OpNames), Rows("R", "OP", F7_ALT, AltNames), Rows("R", "OP", F7_MEXT, MulNames),
         { r \in Rows("R", "OP_IMM", F7_NORMAL, ImmNames) : IsShift(r) }, {Row("srai", "R", "OP_IMM", F7_ALT, F3(5))},
         { r \in Rows("I", "OP_IMM", {}, ImmNames) : ~ IsShift(r) },
         Rows("I", "LOAD", {}, LoadNames), Rows("S", "STORE", {}, StoreNames), Rows("B", "BRANCH", {}, BranchNames),
         { r \in Rows("I", "SYSTEM", {}, CsrNames) : r.funct3 # {} },
         { Row(AmoName(Shift(f, 2)), "R", "AMO", Shift(f, 2) \cup q, F3(2)) :
             f \in { n[1] : n \in AmoNames } \cup {{0, 2}}, q \in SUBSET {0, 1} },
         Rows("I", "JALR", {}, <<"jalr">>), Rows("I", "MISC_MEM", {}, <<"fence">>),
         Rows("U", "LUI", {}, <<"lui">>), Rows("U", "AUIPC", {}, <<"auipc">>), Rows("J", "JAL", {}, <<"jal">>)}

(* The fields each format has, and its immediates: I and S of 12 bits, B of *)
(* 13 and J of 21 with bit 0 clear, U the upper 20.                         *)
FieldsOf ==
  [R |-> {"rd", "funct3", "rs1", "rs2", "funct7"}, I |-> {"rd", "funct3", "rs1", "imm"},
   S |-> {"funct3", "rs1", "rs2", "imm"}, B |-> {"funct3", "rs1", "rs2", "imm"},
   U |-> {"rd", "imm"}, J |-> {"rd", "imm"}]

Imms(format) ==
  CASE format = "R" -> {{}}
    [] format \in {"I", "S"} -> { SignExtend(v, 12) : v \in ImmSample(12) }
    [] format = "B" -> { SignExtend(Shift(v, 1), 13) : v \in ImmSample(12) }
    [] format = "U" -> { Shift(v, 12) : v \in ImmSample(20) }
    [] format = "J" -> { SignExtend(Shift(v, 1), 21) : v \in ImmSample(20) }

(* An instruction whose format lacks a field has it empty.                  *)
Instr(row, regs, imm) ==
  LET has(field, v) == IF field \in FieldsOf[row.format] THEN v ELSE {} IN
  [name |-> row.name, format |-> row.format, opcode |-> row.opcode, funct7 |-> row.funct7,
   funct3 |-> row.funct3, rd |-> has("rd", regs[1]), rs1 |-> has("rs1", regs[2]),
   rs2 |-> IF row.name = "lr.w" THEN {} ELSE has("rs2", regs[3]), imm |-> imm]

(* ECALL, and the two words the assembler makes of ebreak and mret.         *)
SystemCalls ==
  { Instr(Row(c[1], "I", "SYSTEM", {}, {}), << {}, {}, {} >>, c[2]) :
      c \in { <<"ecall", {}>>, <<"ebreak", {0}>>, <<"mret", {1, 8, 9}>> } }

Instrs ==
  SystemCalls \cup UNION { { Instr(row, r, imm) : r \in Regs, imm \in Imms(row.format) } : row \in Table }

(* Words have four bytes and no more bits than an immediate has positions;  *)
(* registers are numbers of five bits, immediates as long as their fields.  *)
ASSUME IsaAssumption ==
  /\ XLEN \in {4, 8, 16, 32}
  /\ Regs \subseteq (SUBSET (0 .. 4)) \X (SUBSET (0 .. 4)) \X (SUBSET (0 .. 4))
  /\ Configs \subseteq SUBSET {EXT_M, EXT_A}
  /\ \A n \in {12, 20} : ImmSample(n) \subseteq SUBSET (0 .. n - 1)
  /\ \A i \in Instrs : Inputs(i) \subseteq UWords \X UWords \X UWords

(* The machine that has a in rs1, b in rs2 and c in the cell.               *)
Machines(i) ==
  { [regs |-> [r \in {i.rd, i.rs1, i.rs2} |->
                 CASE r = {} -> 0 [] r = i.rs1 -> o[1] [] r = i.rs2 -> o[2] [] OTHER -> 5],
     cell |-> o[3], pc |-> 8, trap |-> "no"] :
    o \in { n \in Inputs(i) : /\ i.rs1 = {} => n[1] = 0
                              /\ i.rs2 = {} => n[2] = 0
                              /\ i.rs1 = i.rs2 => n[1] = n[2] } }

VARIABLES
  instr,      \* what is built
  stage,      \* what is there so far
  word,       \* the instruction word
  decoded,    \* DecodedInstr
  text,       \* its line in the trace
  machine,    \* registers, pc, cell, and whether it trapped
  before      \* the machine before execution: history

vars == <<instr, stage, word, decoded, text, machine, before, extensions>>

Init ==
  /\ extensions \in Configs
  /\ instr \in Instrs
  /\ machine \in Machines(instr)
  /\ before = machine
  /\ stage = "source" /\ word = {} /\ decoded = <<>> /\ text = <<>>

Assemble ==
  /\ stage = "source"
  /\ stage' = "word"
  /\ word'  = Build(instr)
  /\ UNCHANGED <<instr, decoded, text, machine, before, extensions>>

(* step: the decoded instruction goes to the hook before it is executed.    *)
DecodeWord ==
  /\ stage = "word"
  /\ stage'   = "decoded"
  /\ decoded' = Decode(word)
  /\ text'    = Disassemble(decoded')
  /\ UNCHANGED <<instr, word, machine, before, extensions>>

(* funct3 = 0 of SYSTEM is Hart's, LR and SC are Memory's.                  *)
ExecuteInstr ==
  /\ stage = "decoded"
  /\ ~ (decoded.opcode = "SYSTEM" /\ decoded.funct3 = {})
  /\ decoded.opcode = "AMO" => AmoName(decoded.funct7) \notin {"lr.w", "sc.w"}
  /\ stage'   = "done"
  /\ machine' = ExecuteDecoded(decoded, machine)
  /\ UNCHANGED <<instr, word, decoded, text, before, extensions>>

Next == Assemble \/ DecodeWord \/ ExecuteInstr

Spec == Init /\ [][Next]_vars

----------------------------------------------------------------------------
(* Decoder finds every field and the sign-extended immediate that           *)
(* InstrBuilder was given, in every format.                                 *)
DecodesAsBuilt ==
  stage \in {"decoded", "done"} =>
    /\ decoded.opcode = instr.opcode
    /\ \A field \in FieldsOf[instr.format] : decoded[field] = instr[field]

(* The operands of an instruction in the order of assembly language.        *)
Operands(i) ==
  IF i.name \in {"ecall", "ebreak", "mret", "fence"} THEN <<>>
  ELSE IF i.opcode = "AMO" THEN IF i.name = "lr.w" THEN <<i.rd, i.rs1>> ELSE <<i.rd, i.rs2, i.rs1>>
  ELSE IF i.opcode = "LOAD" THEN <<i.rd, i.imm, i.rs1>>
  ELSE IF i.opcode = "SYSTEM" THEN <<i.rd, i.imm \cap 0 .. 11, i.rs1>>
  ELSE CASE i.format = "R" -> <<i.rd, i.rs1, i.rs2>>
         [] i.format = "I" -> <<i.rd, i.rs1, i.imm>>
         [] i.format = "S" -> <<i.rs2, i.imm, i.rs1>>
         [] i.format = "B" -> <<i.rs1, i.rs2, i.imm>>
         [] i.format = "U" -> <<i.rd, { k - 12 : k \in i.imm }>>
         [] i.format = "J" -> <<i.rd, i.imm>>

(* The CPU was built to execute it.                                         *)
Available(i) ==
  /\ i.opcode = "OP" /\ i.funct7 = F7_MEXT => EXT_M \in extensions
  /\ i.opcode = "AMO" => EXT_A \in extensions

(* The trace names the instruction that was built, with its operands,       *)
(* whatever the extensions.  The CPU takes as illegal every instruction of  *)
(* an extension it lacks, aligned or not (test.cpp:264 "M ext disabled"),   *)
(* and of the others exactly those the trace calls "unknown", unless they   *)
(* are misaligned.                                                          *)
TraceNamesInstr ==
  /\ stage \in {"decoded", "done"} =>
       text = IF instr.name = "unknown" THEN <<"unknown">> ELSE <<instr.name>> \o Operands(instr)
  /\ stage = "done" /\ ~ Available(instr) => machine.trap = "illegal"
  /\ stage = "done" /\ Available(instr) /\ machine.trap # "misaligned" =>
       (machine.trap = "illegal") = (text = <<"unknown">>)

(* The bits of a word are those of which P holds.                           *)
BitsAre(c, P(_)) == \A k \in 0 .. XLEN - 1 : k \in Bits(c) <=> P(k)

(* q and r are quotient and remainder of x by y # 0, rounding towards zero.  *)
Divides(q, r, x, y) ==
  /\ x = q * y + r
  /\ Abs(r) < Abs(y)
  /\ r # 0 => (r < 0) = (x < 0)

(* What result c a name stands for, on operands x and y, said without the   *)
(* operations of the ALU.  Dividing the least number by -1 wraps, and a     *)
(* division by zero gives all ones and the dividend.                        *)
Means(name, x, y, c) ==
  CASE name \in {"add", "addi", "amoadd.w", "auipc"} -> UWord(c - y) = x
    [] name = "sub" -> UWord(c + y) = x
    [] name \in {"and", "andi", "amoand.w"} -> BitsAre(c, LAMBDA k : k \in Bits(x) /\ k \in Bits(y))
    [] name \in {"or", "ori", "amoor.w", "csrrs", "csrrsi"} ->
         BitsAre(c, LAMBDA k : k \in Bits(x) \/ k \in Bits(y))
    [] name \in {"xor", "xori", "amoxor.w"} -> BitsAre(c, LAMBDA k : (k \in Bits(x)) # (k \in Bits(y)))
    [] name \in {"csrrc", "csrrci"} -> BitsAre(c, LAMBDA k : k \in Bits(x) /\ k \notin Bits(y))
    [] name \in {"lui", "amoswap.w", "csrrw", "csrrwi"} -> c = y
    [] name \in {"sll", "slli"} -> Bits(c) = Shift(Bits(x), y % XLEN) \cap 0 .. XLEN - 1
    [] name \in {"srl", "srli"} -> Shift(Bits(c), y % XLEN) = Bits(x) \cap y % XLEN .. XLEN - 1
    [] name \in {"sra", "srai"} ->
         BitsAre(c, LAMBDA k : (IF k + (y % XLEN) < XLEN THEN k + (y % XLEN) ELSE XLEN - 1) \in Bits(x))
    [] name \in {"slt", "slti"}   -> c = Compare(SWord(x) < SWord(y))
    [] name \in {"sltu", "sltiu"} -> c = Compare(x < y)
    [] name \in {"amomin.w", "amomax.w"} ->
         /\ c \in {x, y}
         /\ \A z \in {x, y} : IF name = "amomin.w" THEN SWord(c) <= SWord(z) ELSE SWord(z) <= SWord(c)
    [] name \in {"amominu.w", "amomaxu.w"} ->
         c \in {x, y} /\ \A z \in {x, y} : IF name = "amominu.w" THEN c <= z ELSE z <= c
    [] name = "mul"    -> \E h \in UWords : h * Pow2[XLEN] + c = x * y
    [] name = "mulhu"  -> \E l \in UWords : c * Pow2[XLEN] + l = x * y
    [] name = "mulh"   -> \E l \in UWords : SWord(c) * Pow2[XLEN] + l = SWord(x) * SWord(y)
    [] name = "mulhsu" -> \E l \in UWords : SWord(c) * Pow2[XLEN] + l = SWord(x) * y
    [] name = "divu" -> IF y = 0 THEN c = Pow2[XLEN] - 1 ELSE Divides(c, x - c * y, x, y)
    [] name = "remu" -> IF y = 0 THEN c = x ELSE \E q \in UWords : Divides(q, c, x, y)
    [] name = "div"  -> IF y = 0 THEN SWord(c) = -1
                        ELSE \E q \in -(Pow2[XLEN]) .. Pow2[XLEN] :
                               UWord(q) = c /\ Divides(q, SWord(x) - q * SWord(y), SWord(x), SWord(y))
    [] name = "rem"  -> IF y = 0 THEN c = x
                        ELSE \E q \in -(Pow2[XLEN]) .. Pow2[XLEN] : Divides(q, SWord(c), SWord(x), SWord(y))

(* When a branch of a name is taken.                                        *)
Takes(name, x, y) ==
  CASE name = "beq"  -> x = y
    [] name = "bne"  -> x # y
    [] name = "blt"  -> SWord(x) < SWord(y)
    [] name = "bge"  -> SWord(y) <= SWord(x)
    [] name = "bltu" -> x < y
    [] name = "bgeu" -> y <= x

(* The bytes of an access at addr are bits from .. from + width - 1 of the   *)
(* cell; what a load gives and what a store leaves of the cell.             *)
Width(name) ==
  ByteBits * CASE name \in {"lb", "lbu", "sb"} -> 1
               [] name \in {"lh", "lhu", "sh"} -> 2
               [] name \in {"lw", "sw"} -> 4

Loads(name, cell, from, c) ==
  BitsAre(c, LAMBDA k : IF k < Width(name) THEN from + k \in Bits(cell)
                        ELSE name \in {"lb", "lh"} /\ from + Width(name) - 1 \in Bits(cell))

Stores(name, cell, from, y, c) ==
  BitsAre(c, LAMBDA k : IF k \in from .. from + Width(name) - 1 THEN k - from \in Bits(y) ELSE k \in Bits(cell))

(* Built, decoded and executed, an instruction does what its name says to    *)
(* rd, to the cell and to pc: the choice of operation by funct3, funct5 and *)
(* funct7, the immediate, the ALU, and the order in which registers are     *)
(* read and written when rd is rs1 or rs2 are all right.                    *)
ComputesMeaning ==
  LET name == instr.name
      x    == Get(before, instr.rs1)
      y    == Get(before, instr.rs2)
      imm  == ImmWord(instr.imm)
      c    == Get(machine, instr.rd)
      from == ByteBits * ((x + imm) % 4)
      zimm == ImmWord(instr.rs1)
      readOnly == {10, 11} \subseteq instr.imm
      pass     == IF instr.rd = {} THEN before.cell ELSE c
  IN  stage = "done" /\ machine.trap = "no" =>
        CASE instr.opcode = "OP"     -> instr.rd # {} => Means(name, x, y, c)
          [] instr.opcode = "OP_IMM" ->
               instr.rd # {} => Means(name, x, IF instr.format = "R" THEN ImmWord(instr.rs2) ELSE imm, c)
          [] instr.opcode \in {"LUI", "AUIPC"} -> instr.rd # {} => Means(name, before.pc, imm, c)
          [] instr.opcode = "LOAD"   -> instr.rd # {} => Loads(name, before.cell, from, c)
          [] instr.opcode = "STORE"  -> Stores(name, before.cell, from, y, machine.cell)
          [] instr.opcode = "BRANCH" -> machine.pc = UWord(before.pc + IF Takes(name, x, y) THEN imm ELSE 4)
          [] instr.opcode = "JAL"    -> machine.pc = UWord(before.pc + imm)
          [] instr.opcode = "JALR"   -> machine.pc \in { UWord(x + imm), UWord(x + imm) - 1 }
          [] instr.opcode = "AMO"    -> pass = before.cell /\ Means(name, before.cell, y, machine.cell)
          [] instr.opcode = "SYSTEM" ->
               /\ pass = before.cell
               /\ IF readOnly THEN machine.cell = before.cell
                  ELSE Means(name, before.cell, IF name \in {"csrrw", "csrrs", "csrrc"} THEN x ELSE zimm, machine.cell)
          [] instr.opcode = "MISC_MEM" -> machine = [before EXCEPT !.pc = 12]

(* An instruction that traps has changed nothing, so a handler can return   *)
(* to it; one that does not changes no register but rd and never x0, no     *)
(* cell unless it is a store, an AMO or of a CSR, links the address after   *)
(* it, and goes on at a multiple of 4.                                      *)
LeavesRestAlone ==
  stage = "done" =>
    /\ machine.trap # "no" => machine = Trap(before, machine.trap)
    /\ \A r \in DOMAIN machine.regs : machine.regs[r] # before.regs[r] => r = instr.rd /\ r # {}
    /\ machine.cell # before.cell => instr.opcode \in {"STORE", "AMO", "SYSTEM"}
    /\ instr.opcode \in {"JAL", "JALR"} /\ machine.trap = "no" /\ instr.rd # {} =>
         machine.regs[instr.rd] = UWord(before.pc + 4)
    /\ machine.pc % 4 = 0
=============================================================================
