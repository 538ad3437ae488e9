------------------------------ MODULE HartProofs ------------------------------
(***************************************************************************)
(* RVModel's guarantees: the trap machine's to any program, for any layout  *)
(* of code and handlers, and in the second part those of its page walk to   *)
(* vmem.c, for every table size, memory layout and sequence of calls.       *)
(*                                                                         *)
(* IInv is inductive: a handler's trap registers stay intact because traps  *)
(* mask interrupts and enter machine mode, and modes below machine mode     *)
(* cannot raise themselves by mret because the mret that entered them       *)
(* cleared MPP, which they cannot write.                                    *)
(***************************************************************************)
EXTENDS Hart, Vmem, TLAPS

(* Below machine mode MPP always says U: mret left it so and nothing there  *)
(* can write it.                                                            *)
LowerModesReturnToUser == priv # M => Mpp(mstatus) = U

IInv == TypeOK /\ TrapIntact /\ LowerModesReturnToUser

Trapped(cause) == [pc |-> pc, priv |-> priv, enabled |-> "MIE" \in mstatus, cause |-> cause]

TrapBits == {"MIE", "MPIE", "MPP0", "MPP1"}

(* What the two bits of MPP hold is what was put there.                     *)
LEMMA MppOfBits ==
  ASSUME NEW p \in Modes, NEW rest, "MPP0" \notin rest, "MPP1" \notin rest
  PROVE  Mpp(rest \cup MppBits(p)) = p
<1>1. p = 0 \/ p = 1 \/ p = 2 \/ p = 3
  BY DEF Modes
<1>2. "MPP0" \in rest \cup MppBits(p) <=> p \in {1, 3}
  BY DEF MppBits
<1>3. "MPP1" \in rest \cup MppBits(p) <=> p \in {2, 3}
  BY DEF MppBits
<1> QED
  BY <1>1, <1>2, <1>3 DEF Mpp

LEMMA MppIsMode == ASSUME NEW s PROVE Mpp(s) \in Modes
  BY DEF Mpp, Modes

LEMMA MppCleared == ASSUME NEW s, "MPP0" \notin s, "MPP1" \notin s PROVE Mpp(s) = U
  BY DEF Mpp, U

(* A trap keeps the invariant, whatever raised it.                          *)
LEMMA FireTrapKeepsIInv ==
  ASSUME IInv, NEW cause \in Causes, FireTrap(cause)
  PROVE  IInv'
<1>1. CASE mtvec = 0 /\ Halt
  BY <1>1 DEF IInv, TypeOK, TrapIntact, LowerModesReturnToUser, Halt, csrs
<1>2. CASE mtvec # 0 /\ handling' = Trapped(cause)
  <2> DEFINE saved == (mstatus \ TrapBits) \cup (IF "MIE" \in mstatus THEN {"MPIE"} ELSE {})
  <2>1. /\ mepc' = pc /\ mcause' = cause /\ priv' = M /\ pc' = Base(mtvec)
        /\ mstatus' = saved \cup MppBits(priv)
        /\ UNCHANGED <<mie, mtvec, ended>>
    BY <1>2 DEF FireTrap, TrapBits, Halt
  <2>2. /\ "MIE" \notin mstatus'
        /\ "MPIE" \in mstatus' <=> "MIE" \in mstatus
    BY <2>1 DEF TrapBits, MppBits
  <2>3. Mpp(mstatus') = priv
    <3>1. "MPP0" \notin saved /\ "MPP1" \notin saved
      BY DEF TrapBits
    <3>2. priv \in Modes
      BY DEF IInv, TypeOK
    <3> HIDE DEF saved
    <3> QED
      BY <2>1, <3>1, <3>2, MppOfBits
  <2>4. TypeOK'
    <3>1. mstatus' \subseteq StatusBits
      BY <2>1 DEF IInv, TypeOK, StatusBits, TrapBits, MppBits
    <3>2. pc' \in Pcs /\ priv' \in Modes
      BY <2>1, HartAssumption DEF IInv, TypeOK, Modes, M
    <3>3. handling' \in [pc : Pcs, priv : Modes, enabled : BOOLEAN, cause : Causes]
      BY <1>2 DEF IInv, TypeOK, Trapped
    <3> QED
      BY <2>1, <3>1, <3>2, <3>3 DEF IInv, TypeOK
  <2>5. TrapIntact'
    BY <1>2, <2>1, <2>2, <2>3 DEF TrapIntact, Trapped
  <2> QED
    BY <2>1, <2>4, <2>5 DEF IInv, LowerModesReturnToUser
<1> QED
  BY <1>1, <1>2 DEF FireTrap, Trapped

LEMMA GoToKeepsIInv ==
  ASSUME IInv, NEW target \in Pcs, GoTo(target)
  PROVE  IInv'
  BY DEF IInv, TypeOK, TrapIntact, LowerModesReturnToUser, GoTo, csrs

LEMMA HaltKeepsIInv ==
  ASSUME IInv, Halt \/ Throw
  PROVE  IInv'
  BY DEF IInv, TypeOK, TrapIntact, LowerModesReturnToUser, Halt, Throw, csrs

LEMMA MretKeepsIInv ==
  ASSUME IInv, Mret
  PROVE  IInv'
<1>1. mstatus' \subseteq StatusBits
  BY DEF Mret, IInv, TypeOK, StatusBits
<1>2. Mpp(mstatus') = U
  BY MppCleared DEF Mret
<1>3. priv' \in Modes
  BY MppIsMode DEF Mret
<1> QED
  BY <1>1, <1>2, <1>3 DEF Mret, IInv, TypeOK, TrapIntact, LowerModesReturnToUser

(* Only machine mode gets past the privilege check of its registers.        *)
LEMMA MachineOnly ==
  ASSUME IInv, priv >= M
  PROVE  priv = M
  BY DEF IInv, TypeOK, Modes, M

LEMMA CsrKeepsIInv ==
  ASSUME IInv, NEW target \in Pcs,
         \/ \E operand \in SUBSET StatusBits : CsrMstatus(operand, target)
         \/ \E operand \in SUBSET {"MTIE"} : CsrMie(operand, target)
         \/ \E v \in Vectors : CsrMtvec(v, target)
         \/ \E v \in Pcs : CsrMepc(v, target)
         \/ \E v \in Causes : CsrMcause(v, target)
  PROVE  IInv'
<1> USE DEF IInv, TypeOK, TrapIntact, LowerModesReturnToUser
<1>1. CASE \E operand \in SUBSET StatusBits : CsrMstatus(operand, target)
  <2>1. PICK operand \in SUBSET StatusBits : CsrMstatus(operand, target)
    BY <1>1
  <2>2. mstatus' \subseteq StatusBits
    BY <2>1 DEF CsrMstatus, Written
  <2> QED
    BY <2>1, <2>2, MachineOnly DEF CsrMstatus
<1>2. CASE \E operand \in SUBSET {"MTIE"} : CsrMie(operand, target)
  <2>1. PICK operand \in SUBSET {"MTIE"} : CsrMie(operand, target)
    BY <1>2
  <2>2. mie' \subseteq {"MTIE"}
    BY <2>1 DEF CsrMie, Written
  <2> QED
    BY <2>1, <2>2 DEF CsrMie
<1>3. CASE \E v \in Vectors : CsrMtvec(v, target)
  BY <1>3 DEF CsrMtvec
<1>4. CASE \E v \in Pcs : CsrMepc(v, target)
  BY <1>4 DEF CsrMepc
<1>5. CASE \E v \in Causes : CsrMcause(v, target)
  BY <1>5 DEF CsrMcause
<1> QED
  BY <1>1, <1>2, <1>3, <1>4, <1>5

(* Every step is one of a few.                                              *)
LEMMA StepKinds ==
  ASSUME Next
  PROVE  \/ \E cause \in Causes : FireTrap(cause)
         \/ \E target \in Pcs : GoTo(target)
         \/ Halt \/ Throw \/ Mret
         \/ \E target \in Pcs : Ebreak(target)
         \/ \E target \in Pcs, operand \in SUBSET StatusBits : CsrMstatus(operand, target)
         \/ \E target \in Pcs, operand \in SUBSET {"MTIE"} : CsrMie(operand, target)
         \/ \E target \in Pcs, v \in Vectors : CsrMtvec(v, target)
         \/ \E target \in Pcs, v \in Pcs : CsrMepc(v, target)
         \/ \E target \in Pcs, v \in Causes : CsrMcause(v, target)
<1> USE DEF Causes
<1>1. CASE \/ \E cause \in {"insn_page", "insn_fault"} : FetchFault(cause)
           \/ ZeroWord
           \/ \E target \in Pcs : Compute(target)
           \/ BadOperation
           \/ \E target \in Pcs, aligned \in BOOLEAN : Jump(target, aligned)
  BY <1>1 DEF FetchFault, ZeroWord, Compute, BadOperation, Jump
<1>2. CASE \E a \in Accesses, target \in Pcs : Load(a, target)
  BY <1>2 DEF Load
<1>3. CASE \E a \in Accesses, target \in Pcs : Store(a, target)
  BY <1>3 DEF Store
<1>4. CASE \E a \in Accesses, target \in Pcs : Amo(a, target)
  BY <1>4 DEF Amo
<1>5. CASE Ecall
  <2>1. (CASE priv = U -> "ecall_u" [] priv = S -> "ecall_s" [] OTHER -> "ecall_m") \in Causes
    BY DEF U, S
  <2> QED
    BY <1>5, <2>1 DEF Ecall
<1>6. CASE Mret \/ BadOpcode \/ TimerInterrupt
  BY <1>6 DEF BadOpcode, TimerInterrupt
<1>7. CASE \/ \E level \in Modes : CsrIllegal(level)
           \/ \E level \in Modes, target \in Pcs : CsrOther(level, target)
  BY <1>7 DEF CsrIllegal, CsrOther
<1> QED
  BY <1>1, <1>2, <1>3, <1>4, <1>5, <1>6, <1>7 DEF Next

LEMMA InitIInv == Init => IInv
  BY HartAssumption DEF Init, IInv, TypeOK, TrapIntact, LowerModesReturnToUser,
     Modes, M, StatusBits, Causes, None

LEMMA NextKeepsIInv == IInv /\ [Next]_vars => IInv'
<1> SUFFICES ASSUME IInv, [Next]_vars PROVE IInv'
  OBVIOUS
<1>1. ASSUME NEW target \in Pcs, Ebreak(target) PROVE IInv'
  BY <1>1 DEF Ebreak, IInv, TypeOK, TrapIntact, LowerModesReturnToUser, csrs
<1>2. CASE UNCHANGED vars
  BY <1>2 DEF vars, csrs, IInv, TypeOK, TrapIntact, LowerModesReturnToUser
<1> QED
  BY <1>1, <1>2, StepKinds, FireTrapKeepsIInv, GoToKeepsIInv, HaltKeepsIInv,
     MretKeepsIInv, CsrKeepsIInv

THEOREM Invariance == Spec => []IInv
  BY InitIInv, NextKeepsIInv, PTL DEF Spec

(* While a handler has not touched them, the trap registers describe its    *)
(* trap, and no interrupt can come between.                                 *)
THEOREM TrapStaysIntact == Spec => []TrapIntact
<1>1. IInv => TrapIntact
  BY DEF IInv
<1> QED
  BY <1>1, Invariance, PTL

(* mret undoes the trap: program counter, privilege and interrupt mask.     *)
THEOREM MretRestores == Spec => MretUndoesTrap
<1>1. ASSUME IInv, Mret, handling # None
      PROVE  /\ pc' = handling.pc
             /\ priv' = handling.priv
             /\ ("MIE" \in mstatus') = handling.enabled
  BY <1>1 DEF IInv, TrapIntact, Mret
<1>2. IInv /\ [Next]_vars
        => [Mret /\ handling # None =>
              /\ pc' = handling.pc
              /\ priv' = handling.priv
              /\ ("MIE" \in mstatus') = handling.enabled]_vars
  BY <1>1
<1> QED
  BY <1>2, Invariance, PTL DEF Spec, MretUndoesTrap

(* Whatever it executes, a program gains privilege only by entering the     *)
(* handler.                                                                 *)
THEOREM PrivilegeRises == Spec => PrivilegeRisesInHandler
<1> DEFINE P == priv' > priv => priv' = M /\ pc' = Base(mtvec) /\ mtvec # 0 /\ mepc' = pc
<1>1. ASSUME IInv, Next PROVE P
  <2>1. ASSUME NEW cause \in Causes, FireTrap(cause) PROVE P
    BY <1>1, <2>1 DEF FireTrap, Halt, csrs, IInv, TypeOK, Modes
  <2>2. CASE Mret
    <3>1. priv = M \/ priv' = U
      BY <1>1, <2>2 DEF Mret, IInv, LowerModesReturnToUser
    <3>2. priv \in Modes /\ priv' \in Modes
      BY <1>1, <2>2, MppIsMode DEF Mret, IInv, TypeOK
    <3> QED
      BY <3>1, <3>2 DEF Modes, M, U
  <2>3. CASE priv' = priv
    BY <1>1, <2>3 DEF IInv, TypeOK, Modes
  <2> QED
    BY <1>1, <2>1, <2>2, <2>3, StepKinds
       DEF GoTo, Halt, Throw, Ebreak, CsrMstatus, CsrMie, CsrMtvec, CsrMepc, CsrMcause
<1>2. IInv /\ [Next]_vars => [P]_vars
  BY <1>1
<1> QED
  BY <1>2, Invariance, PTL DEF Spec, PrivilegeRisesInHandler

(* Below machine mode nothing changes where traps go or what interrupts.    *)
THEOREM MachineCsrsProtected == Spec => MachineCsrsAreMachines
<1> DEFINE P == priv # M => /\ UNCHANGED <<mtvec, mie>>
                            /\ mstatus' # mstatus => Mret \/ priv' = M
<1>1. ASSUME IInv, Next PROVE P
  <2>1. ASSUME NEW cause \in Causes, FireTrap(cause) PROVE P
    BY <2>1 DEF FireTrap, Halt, csrs
  <2>2. CASE Mret
    BY <2>2 DEF Mret
  <2>3. CASE UNCHANGED csrs
    BY <2>3 DEF csrs
  <2>4. CASE priv = M
    BY <2>4
  <2> QED
    BY <1>1, <2>1, <2>2, <2>3, <2>4, StepKinds, MachineOnly
       DEF GoTo, Halt, Throw, Ebreak, CsrMstatus, CsrMie, CsrMtvec, CsrMepc, CsrMcause
<1>2. IInv /\ [Next]_vars => [P]_vars
  <2>1. CASE UNCHANGED vars
    BY <2>1
  <2> QED
    BY <1>1, <2>1
<1> QED
  BY <1>2, Invariance, PTL DEF Spec, MachineCsrsAreMachines

----------------------------------------------------------------------------
(* Page tables.  The inductive invariant VmemIInv says what each word of    *)
(* the tables holds in terms of the calls made.                             *)
Link == [flags |-> {"V"}, ppn |-> TablePage]

Linked == root = Link \/ (root = Zero /\ \A v \in Virt : asked[v] = NotAsked)

WordsAsAsked ==
  \A v \in Virt :
    \/ asked[v] = NotAsked /\ table[v] = Zero
    \/ /\ asked[v] # NotAsked
       /\ table[v] = [flags |-> asked[v].flags \cup {"V"}, ppn |-> asked[v].page]

OwnKept ==
  \A p \in Own :
    asked[p] # NotAsked => asked[p].page = p /\ {"R", "X"} \subseteq asked[p].flags

OwnBeforePaging == paging => \A p \in Own : asked[p] # NotAsked

(* The types of the variables.                                              *)
VmemTypeOK ==
  /\ root \in Ptes
  /\ table \in [Virt -> Ptes]
  /\ paging \in BOOLEAN
  /\ asked \in [Virt -> {NotAsked} \cup [page : Pages, flags : FlagSets]]

VmemIInv == VmemTypeOK /\ Linked /\ WordsAsAsked /\ OwnKept /\ OwnBeforePaging

LEMMA AskedIsRecord ==
  ASSUME NEW page, NEW flags
  PROVE  [page |-> page, flags |-> flags] # NotAsked
<1>1. DOMAIN [page |-> page, flags |-> flags] = {"page", "flags"}
  OBVIOUS
<1>2. DOMAIN NotAsked = {}
  BY DEF NotAsked
<1> QED
  BY <1>1, <1>2

LEMMA InitVmemIInv == VmemInit => VmemIInv
<1> SUFFICES ASSUME VmemInit PROVE VmemIInv
  OBVIOUS
<1>1. Zero \in Ptes
  BY DEF Zero, Ptes
<1>2. VmemTypeOK
  BY <1>1 DEF VmemInit, VmemTypeOK
<1>3. Linked /\ WordsAsAsked
  BY DEF VmemInit, Linked, WordsAsAsked
<1>4. OwnKept /\ OwnBeforePaging
  BY VmemAssumption DEF VmemInit, OwnKept, OwnBeforePaging
<1> QED
  BY <1>2, <1>3, <1>4 DEF VmemIInv

LEMMA MapKeepsVmemIInv ==
  ASSUME VmemIInv, NEW v \in Virt, NEW page \in Pages, NEW flags \in FlagSets,
         Map(v, page, flags)
  PROVE  VmemIInv'
<1> DEFINE call == [page |-> page, flags |-> flags]
           pte  == [flags |-> flags \cup {"V"}, ppn |-> page]
<1>1. /\ asked' = [asked EXCEPT ![v] = call]
      /\ table' = [table EXCEPT ![v] = pte]
      /\ paging' = paging
      /\ root' = IF Valid(root) THEN root ELSE Link
      /\ KeepsOwn(v, page, flags)
  BY DEF Map, Link
<1>2. call # NotAsked
  BY AskedIsRecord
<1>3. /\ asked'[v] = call /\ table'[v] = pte
      /\ \A w \in Virt \ {v} : asked'[w] = asked[w] /\ table'[w] = table[w]
  BY <1>1 DEF VmemIInv, VmemTypeOK
<1>4. root' = Link
  <2>1. Valid(Link) /\ ~ Valid(Zero)
    BY DEF Valid, Link, Zero
  <2> QED
    BY <1>1, <2>1 DEF VmemIInv, Linked
<1>5. VmemTypeOK'
  <2>1. pte \in Ptes /\ Link \in Ptes
    BY VmemAssumption DEF Ptes, Link
  <2>2. call \in [page : Pages, flags : FlagSets]
    OBVIOUS
  <2> HIDE DEF pte, call
  <2> QED
    BY <1>1, <1>4, <2>1, <2>2 DEF VmemIInv, VmemTypeOK
<1>6. WordsAsAsked'
  <2> SUFFICES ASSUME NEW w \in Virt
               PROVE  \/ asked'[w] = NotAsked /\ table'[w] = Zero
                      \/ /\ asked'[w] # NotAsked
                         /\ table'[w] = [flags |-> asked'[w].flags \cup {"V"}, ppn |-> asked'[w].page]
    BY DEF WordsAsAsked
  <2>1. CASE w = v
    BY <1>2, <1>3, <2>1
  <2>2. CASE w # v
    BY <1>3, <2>2 DEF VmemIInv, WordsAsAsked
  <2> QED
    BY <2>1, <2>2
<1>7. OwnKept'
  BY <1>1, <1>3, VmemAssumption DEF VmemIInv, OwnKept, KeepsOwn
<1>8. OwnBeforePaging'
  BY <1>1, <1>2, <1>3, VmemAssumption DEF VmemIInv, OwnBeforePaging
<1> QED
  BY <1>4, <1>5, <1>6, <1>7, <1>8 DEF VmemIInv, Linked

LEMMA NextKeepsVmemIInv == VmemIInv /\ [VmemNext]_vmemVars => VmemIInv'
<1> SUFFICES ASSUME VmemIInv, [VmemNext]_vmemVars PROVE VmemIInv'
  OBVIOUS
<1>1. CASE Enable
  BY <1>1 DEF Enable, VmemIInv, VmemTypeOK, Linked, WordsAsAsked, OwnKept, OwnBeforePaging
<1>2. CASE UNCHANGED vmemVars
  BY <1>2 DEF vmemVars, VmemIInv, VmemTypeOK, Linked, WordsAsAsked, OwnKept, OwnBeforePaging
<1> QED
  BY <1>1, <1>2, MapKeepsVmemIInv DEF VmemNext

THEOREM VmemInvariance == VmemSpec => []VmemIInv
  BY InitVmemIInv, NextKeepsVmemIInv, PTL DEF VmemSpec

----------------------------------------------------------------------------
LEMMA LinkedWhenPaging ==
  ASSUME VmemIInv, paging
  PROVE  root = Link /\ Valid(root) /\ ~ Leaf(root)
<1>1. asked[TablePage] # NotAsked /\ TablePage \in Virt
  BY VmemAssumption DEF VmemIInv, OwnBeforePaging
<1>2. root = Link
  BY <1>1 DEF VmemIInv, Linked
<1> QED
  BY <1>2 DEF Link, Valid, Leaf

LEMMA WalkFinds == VmemIInv => WalkFindsMap
<1> SUFFICES ASSUME VmemIInv, paging,
                    NEW v \in Virt, NEW page \in Pages \cup {0}, NEW user \in BOOLEAN
             PROVE  Finds(v, user, page) <=> Promised(v, user, page)
  BY DEF WalkFindsMap
<1>1. Finds(v, user, page) <=>
        Valid(table[v]) /\ Leaf(table[v]) /\ MayUse(table[v], user) /\ page = table[v].ppn
  <2>1. root = Link /\ Valid(root) /\ ~ Leaf(root)
    BY LinkedWhenPaging
  <2>2. WordsAt(root.ppn, v) = {table[v]}
    BY <2>1 DEF Link, WordsAt
  <2> QED
    BY <2>1, <2>2 DEF Finds
<1>2. CASE asked[v] = NotAsked
  <2>1. ~ Valid(table[v])
    <3>1. table[v] = Zero
      BY <1>2 DEF VmemIInv, WordsAsAsked
    <3> QED
      BY <3>1 DEF Zero, Valid
  <2> QED
    BY <1>1, <1>2, <2>1 DEF Promised
<1>3. CASE asked[v] # NotAsked
  <2>1. table[v] = [flags |-> asked[v].flags \cup {"V"}, ppn |-> asked[v].page]
    BY <1>3 DEF VmemIInv, WordsAsAsked
  <2>2. /\ Valid(table[v])
        /\ Leaf(table[v]) <=> asked[v].flags \cap {"R", "X"} # {}
        /\ "U" \in table[v].flags <=> "U" \in asked[v].flags
    BY <2>1 DEF Valid, Leaf
  <2> QED
    BY <1>1, <1>3, <2>1, <2>2 DEF Promised, MayUse
<1> QED
  BY <1>2, <1>3

(* Wherever vmem_map last put a page, the walk finds it, and nothing else.  *)
THEOREM MapIsFound == VmemSpec => []WalkFindsMap
  BY WalkFinds, VmemInvariance, PTL

(* Turning paging on, and mapping pages under it, never takes the kernel's  *)
(* own code, stack or tables from it.                                       *)
THEOREM KernelStaysReachable == VmemSpec => []KernelReachable
<1>1. VmemIInv => KernelReachable
  <2> SUFFICES ASSUME VmemIInv, NEW p \in Own, NEW page \in Pages \cup {0}
               PROVE  Finds(p, FALSE, page) <=> page = p
    BY DEF KernelReachable
  <2>1. p \in Virt /\ p \in Pages
    BY VmemAssumption
  <2>2. CASE ~ paging
    BY <2>2 DEF Finds
  <2>3. CASE paging
    <3>1. Promised(p, FALSE, page) <=> page = p
      BY <2>3 DEF VmemIInv, OwnBeforePaging, OwnKept, Promised
    <3> QED
      BY <2>1, <2>3, <3>1, WalkFinds DEF WalkFindsMap
  <2> QED
    BY <2>2, <2>3
<1> QED
  BY <1>1, VmemInvariance, PTL
=============================================================================
