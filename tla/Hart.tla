--------------------------------- MODULE Hart ---------------------------------
(***************************************************************************)
(* RVModel as a trap machine (rv_model.hpp, csr_file.hpp): one action per   *)
(* kind of instruction that step() may find at pc, one for                  *)
(* triggerInterrupt.  The program is arbitrary: any instruction, at any     *)
(* privilege, with any operands.                                            *)
(*                                                                          *)
(* Registers, memory and the counters are left out.  What an instruction    *)
(* finds in them (is the address aligned, mapped, inside memory; is funct3  *)
(* legal; is the branch taken, and to where) is chosen freely.              *)
(***************************************************************************)
EXTENDS Integers

CONSTANTS
  Pcs,          \* the addresses instructions are at: multiples of 4
  Vectors       \* values written to mtvec, mode bits included

Base(v) == v - (v % 4)

ASSUME HartAssumption ==
  /\ Pcs \subseteq Nat /\ 0 \in Pcs
  /\ Vectors \subseteq Nat /\ 0 \in Vectors
  /\ \A v \in Vectors : Base(v) \in Pcs

(* PrivMode.  mret can also load the number 2, which names no mode.         *)
U == 0
S == 1
M == 3
Modes == 0 .. 3

(* mstatus and mie are the sets of those of their bits that are 1, as far   *)
(* as the machine looks at them.                                            *)
StatusBits == {"MIE", "MPIE", "MPP0", "MPP1"}

Mpp(status) == (IF "MPP0" \in status THEN 1 ELSE 0) + (IF "MPP1" \in status THEN 2 ELSE 0)

MppBits(p) == { b \in {"MPP0", "MPP1"} : (b = "MPP0" /\ p \in {1, 3}) \/ (b = "MPP1" /\ p \in {2, 3}) }

Causes ==
  {"none", "insn_misalign", "insn_fault", "illegal", "load_misalign", "load_fault",
   "store_misalign", "store_fault", "ecall_u", "ecall_s", "ecall_m",
   "insn_page", "load_page", "store_page", "timer"}

None == <<>>

VARIABLES
  pc,         \* pc_
  priv,       \* priv_mode_
  mstatus,    \* CSR::MSTATUS
  mie,        \* CSR::MIE, the bit of the timer only
  mtvec,      \* CSR::MTVEC
  mepc,       \* CSR::MEPC
  mcause,     \* CSR::MCAUSE
  ended,      \* "halted" is halted_; "thrown": an exception has left step()
  handling    \* history: the latest trap, until the handler returns or
              \* writes one of the registers that describe it

csrs == <<mstatus, mie, mtvec, mepc, mcause>>
vars == <<pc, priv, csrs, ended, handling>>

TypeOK ==
  /\ pc \in Pcs /\ mepc \in Pcs
  /\ priv \in Modes
  /\ mstatus \subseteq StatusBits
  /\ mie \subseteq {"MTIE"}
  /\ mtvec \in Vectors
  /\ mcause \in Causes
  /\ ended \in {"no", "halted", "thrown"}
  /\ handling \in {None} \cup
       [pc : Pcs, priv : Modes, enabled : BOOLEAN, cause : Causes]

(* init(startPC), which reset() calls too.                                  *)
Init ==
  /\ pc \in Pcs
  /\ priv = M
  /\ mstatus = {} /\ mie = {} /\ mtvec = 0 /\ mepc = 0 /\ mcause = "none"
  /\ ended = "no"
  /\ handling = None

----------------------------------------------------------------------------
Halt ==
  /\ ended' = "halted"
  /\ UNCHANGED <<pc, priv, csrs, handling>>

Throw ==
  /\ ended' = "thrown"
  /\ UNCHANGED <<pc, priv, csrs, handling>>

(* Operators named ..._mutant are faults the properties must detect; no      *)
(* specification uses them.                                                 *)

(* MIE is saved but stays set.                                              *)
FireTrapUnmasked_mutant(cause) ==
  \/ mtvec = 0 /\ Halt
  \/ /\ mtvec # 0
     /\ mepc'    = pc
     /\ mcause'  = cause
     /\ mstatus' = (mstatus \ {"MPIE", "MPP0", "MPP1"})
                     \cup (IF "MIE" \in mstatus THEN {"MPIE"} ELSE {}) \cup MppBits(priv)
     /\ priv'    = M
     /\ pc'      = Base(mtvec)
     /\ handling'   = [pc |-> pc, priv |-> priv, enabled |-> "MIE" \in mstatus, cause |-> cause]
     /\ UNCHANGED <<mie, mtvec, ended>>

(* fireTrap: without a handler the machine halts and keeps no trace of the  *)
(* trap.                                                                    *)
FireTrap(cause) ==
  \/ mtvec = 0 /\ Halt
  \/ /\ mtvec # 0
     /\ mepc'    = pc
     /\ mcause'  = cause
     /\ mstatus' = (mstatus \ {"MIE", "MPIE", "MPP0", "MPP1"})
                     \cup (IF "MIE" \in mstatus THEN {"MPIE"} ELSE {}) \cup MppBits(priv)
     /\ priv'    = M
     /\ pc'      = Base(mtvec)
     /\ handling'   = [pc |-> pc, priv |-> priv, enabled |-> "MIE" \in mstatus, cause |-> cause]
     /\ UNCHANGED <<mie, mtvec, ended>>

(* The next instruction is at target: pc_ + 4, or where a jump goes.        *)
GoTo(target) ==
  /\ pc' = target
  /\ UNCHANGED <<priv, csrs, ended, handling>>

----------------------------------------------------------------------------
(* Fetching the instruction can page-fault in the walk or lie outside       *)
(* memory.                                                                  *)
FetchFault(cause) == ended = "no" /\ FireTrap(cause)

(* The zero word.                                                           *)
ZeroWord == ended = "no" /\ Halt

(* Instructions that cannot fail: lui, auipc, fence, sfence.vma, ALU        *)
(* operations with a legal funct3.                                          *)
Compute(target) == ended = "no" /\ GoTo(target)

(* ALU operations and branches with a funct3, or of an extension, that the  *)
(* configuration does not have.                                             *)
BadOperation == ended = "no" /\ FireTrap("illegal")

(* jal, jalr and taken branches: the target is checked before anything is   *)
(* written.                                                                 *)
Jump(target, aligned) ==
  /\ ended = "no"
  /\ \/ ~ aligned /\ FireTrap("insn_misalign")
     \/ aligned /\ GoTo(target)

(* An access through an address: its alignment is checked first, then it is *)
(* translated, then performed.                                              *)
Accesses == [aligned : BOOLEAN, mapped : BOOLEAN, legal : BOOLEAN, inside : BOOLEAN]

Load(a, target) ==
  /\ ended = "no"
  /\ \/ ~ a.aligned /\ FireTrap("load_misalign")
     \/ a.aligned /\ ~ a.mapped /\ FireTrap("load_page")
     \/ a.aligned /\ a.mapped /\ ~ a.legal /\ FireTrap("illegal")
     \/ a.aligned /\ a.mapped /\ a.legal /\ ~ a.inside /\ FireTrap("load_fault")
     \/ a.aligned /\ a.mapped /\ a.legal /\ a.inside /\ GoTo(target)

Store(a, target) ==
  /\ ended = "no"
  /\ \/ ~ a.aligned /\ FireTrap("store_misalign")
     \/ a.aligned /\ ~ a.mapped /\ FireTrap("store_page")
     \/ a.aligned /\ a.mapped /\ ~ a.legal /\ FireTrap("illegal")
     \/ a.aligned /\ a.mapped /\ a.legal /\ ~ a.inside /\ FireTrap("store_fault")
     \/ a.aligned /\ a.mapped /\ a.legal /\ a.inside /\ GoTo(target)

(* lr, sc and the read-modify-write instructions.  They access memory       *)
(* before looking at funct5, and nothing catches what memory throws.        *)
Amo(a, target) ==
  /\ ended = "no"
  /\ \/ ~ a.aligned /\ FireTrap("store_misalign")
     \/ a.aligned /\ ~ a.mapped /\ FireTrap("store_page")
     \/ a.aligned /\ a.mapped /\ ~ a.inside /\ Throw
     \/ a.aligned /\ a.mapped /\ a.inside /\ ~ a.legal /\ FireTrap("illegal")
     \/ a.aligned /\ a.mapped /\ a.inside /\ a.legal /\ GoTo(target)

(* Mode 2 counts as machine mode.                                           *)
Ecall ==
  /\ ended = "no"
  /\ FireTrap(CASE priv = U -> "ecall_u" [] priv = S -> "ecall_s" [] OTHER -> "ecall_m")

(* Leaves interrupts as the handler has them.                               *)
MretStaysMasked_mutant ==
  /\ ended = "no"
  /\ priv'    = Mpp(mstatus)
  /\ mstatus' = (mstatus \ {"MPIE", "MPP0", "MPP1"}) \cup {"MPIE"}
  /\ pc'      = mepc
  /\ handling'   = None
  /\ UNCHANGED <<mie, mtvec, mepc, mcause, ended>>

(* executeMRET, which does not look at the current privilege.               *)
Mret ==
  /\ ended = "no"
  /\ priv'    = Mpp(mstatus)
  /\ mstatus' = (mstatus \ {"MIE", "MPIE", "MPP0", "MPP1"})
                  \cup (IF "MPIE" \in mstatus THEN {"MIE"} ELSE {}) \cup {"MPIE"}
  /\ pc'      = mepc
  /\ handling'   = None
  /\ UNCHANGED <<mie, mtvec, mepc, mcause, ended>>

(* ebreak and unknown SYSTEM instructions halt with pc behind them.         *)
Ebreak(target) ==
  /\ ended = "no"
  /\ ended' = "halted"
  /\ pc'    = target
  /\ UNCHANGED <<priv, csrs, handling>>

BadOpcode ==
  /\ ended = "no"
  /\ \/ mtvec # 0 /\ FireTrap("illegal")
     \/ mtvec = 0 /\ Throw

----------------------------------------------------------------------------
(* What csrrw, csrrs and csrrc, and their immediate forms, make of old.     *)
Written(old, operand) == { operand, old \cup operand, old \ operand }

CsrIllegal(level) ==
  /\ ended = "no"
  /\ priv < level
  /\ FireTrap("illegal")

(* Registers that are read-only, only read (csrrs with x0), or of no        *)
(* concern here: satp, mscratch, the counters.                              *)
CsrOther(level, target) ==
  /\ ended = "no"
  /\ priv >= level
  /\ GoTo(target)

(* Without the check of addr[9:8].                                          *)
CsrMstatusUnchecked_mutant(operand, target) ==
  /\ ended = "no"
  /\ mstatus' \in Written(mstatus, operand)
  /\ pc'      = target
  /\ handling'   = None
  /\ UNCHANGED <<priv, mie, mtvec, mepc, mcause, ended>>

CsrMstatus(operand, target) ==
  /\ ended = "no"
  /\ priv >= M
  /\ mstatus' \in Written(mstatus, operand)
  /\ pc'      = target
  /\ handling'   = None
  /\ UNCHANGED <<priv, mie, mtvec, mepc, mcause, ended>>

CsrMie(operand, target) ==
  /\ ended = "no"
  /\ priv >= M
  /\ mie' \in Written(mie, operand)
  /\ pc'  = target
  /\ UNCHANGED <<priv, mstatus, mtvec, mepc, mcause, ended, handling>>

(* Without the check of addr[9:8].                                          *)
CsrMtvecUnchecked_mutant(v, target) ==
  /\ ended = "no"
  /\ mtvec' = v
  /\ pc'    = target
  /\ UNCHANGED <<priv, mstatus, mie, mepc, mcause, ended, handling>>

CsrMtvec(v, target) ==
  /\ ended = "no"
  /\ priv >= M
  /\ mtvec' = v
  /\ pc'    = target
  /\ UNCHANGED <<priv, mstatus, mie, mepc, mcause, ended, handling>>

(* Only aligned values: step() asserts that pc is.                          *)
CsrMepc(v, target) ==
  /\ ended = "no"
  /\ priv >= M
  /\ mepc'  = v
  /\ pc'    = target
  /\ handling' = None
  /\ UNCHANGED <<priv, mstatus, mie, mtvec, mcause, ended>>

CsrMcause(v, target) ==
  /\ ended = "no"
  /\ priv >= M
  /\ mcause' = v
  /\ pc'     = target
  /\ handling'  = None
  /\ UNCHANGED <<priv, mstatus, mie, mtvec, mepc, ended>>

(* triggerInterrupt(INT_TIMER_M), called between instructions when the      *)
(* time has come.                                                           *)
TimerInterrupt ==
  /\ ended = "no"
  /\ "MIE" \in mstatus
  /\ "MTIE" \in mie
  /\ FireTrap("timer")

Next ==
  \/ \E cause \in {"insn_page", "insn_fault"} : FetchFault(cause)
  \/ ZeroWord
  \/ \E target \in Pcs : Compute(target)
  \/ BadOperation
  \/ \E target \in Pcs, aligned \in BOOLEAN : Jump(target, aligned)
  \/ \E a \in Accesses, target \in Pcs : Load(a, target)
  \/ \E a \in Accesses, target \in Pcs : Store(a, target)
  \/ \E a \in Accesses, target \in Pcs : Amo(a, target)
  \/ Ecall
  \/ Mret
  \/ \E target \in Pcs : Ebreak(target)
  \/ BadOpcode
  \/ \E level \in Modes : CsrIllegal(level)
  \/ \E level \in Modes, target \in Pcs : CsrOther(level, target)
  \/ \E operand \in SUBSET StatusBits, target \in Pcs : CsrMstatus(operand, target)
  \/ \E operand \in SUBSET {"MTIE"}, target \in Pcs : CsrMie(operand, target)
  \/ \E v \in Vectors, target \in Pcs : CsrMtvec(v, target)
  \/ \E v \in Pcs, target \in Pcs : CsrMepc(v, target)
  \/ \E v \in Causes, target \in Pcs : CsrMcause(v, target)
  \/ TimerInterrupt

Spec == Init /\ [][Next]_vars

----------------------------------------------------------------------------
(* Until the handler writes mstatus, mepc or mcause, or returns, they still  *)
(* describe the trap it handles; interrupts stay masked, so that a second   *)
(* one cannot overwrite them (rv_model.hpp:330-351; trap.S depends on it    *)
(* from its first instruction to its second read of mcause).                *)
TrapIntact ==
  handling # None =>
    /\ priv = M
    /\ "MIE" \notin mstatus
    /\ mepc = handling.pc
    /\ mcause = handling.cause
    /\ Mpp(mstatus) = handling.priv
    /\ ("MPIE" \in mstatus) = handling.enabled

(* mret resumes the interrupted program where it was, at its privilege and  *)
(* with its interrupt mask (executeMRET undoes fireTrap).                   *)
MretUndoesTrap ==
  [][Mret /\ handling # None =>
       /\ pc' = handling.pc
       /\ priv' = handling.priv
       /\ ("MIE" \in mstatus') = handling.enabled]_vars

(* Privilege only rises at the entry of the handler (rv32i/README.md's      *)
(* diagram of the modes), although executeMRET checks no privilege.         *)
PrivilegeRisesInHandler ==
  [][priv' > priv => priv' = M /\ pc' = Base(mtvec) /\ mtvec # 0 /\ mepc' = pc]_vars

(* No instruction below machine mode changes where traps go, which          *)
(* interrupts are enabled or, except through a trap or mret, mstatus        *)
(* (executeCSR's check of addr[9:8]).                                       *)
MachineCsrsAreMachines ==
  [][priv # M =>
       /\ UNCHANGED <<mtvec, mie>>
       /\ mstatus' # mstatus => Mret \/ priv' = M]_vars
=============================================================================
