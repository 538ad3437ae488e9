--------------------------- MODULE SchedulerProofs ---------------------------
(***************************************************************************)
(* Machine-checked proofs about module Scheduler, for every MaxProcs.       *)
(*                                                                          *)
(* The invariant is proved in one induction: RunningIsCurrent is what makes *)
(* next # current in every hand-over, and each other conjunct needs that.   *)
(***************************************************************************)
EXTENDS Scheduler, TLAPS

(* The scan's (old + i) % MAX_PROCS wraps at most once.                     *)
LEMMA ScanWraps ==
  ASSUME NEW from \in Slots, NEW i \in 1 .. MaxProcs
  PROVE  /\ Visited(from, i) \in Slots
         /\ Visited(from, i) =
              IF from + i < MaxProcs THEN from + i ELSE from + i - MaxProcs
<1>1. CASE from + i < MaxProcs
  <2>1. (from + i) % MaxProcs = from + i
    BY <1>1, MaxProcsAssumption, SMT DEF Slots
  <2> QED
    BY <1>1, <2>1, MaxProcsAssumption, SMT DEF Slots, Visited
<1>2. CASE from + i >= MaxProcs
  <2>1. (from + i) % MaxProcs = from + i - MaxProcs
    BY <1>2, MaxProcsAssumption, SMT DEF Slots
  <2> QED
    BY <1>2, <2>1, MaxProcsAssumption, SMT DEF Slots, Visited
<1> QED
  BY <1>1, <1>2, MaxProcsAssumption, SMT DEF Slots

(* The scan reaches every slot b, in exactly the round Distance(a, b).      *)
LEMMA ScanReaches ==
  ASSUME NEW a \in Slots, NEW b \in Slots
  PROVE  /\ Distance(a, b) \in 1 .. MaxProcs
         /\ Visited(a, Distance(a, b)) = b
<1>1. Distance(a, b) \in 1 .. MaxProcs
  BY MaxProcsAssumption, SMT DEF Slots, Distance
<1>2. Visited(a, Distance(a, b)) =
        IF a + Distance(a, b) < MaxProcs
          THEN a + Distance(a, b) ELSE a + Distance(a, b) - MaxProcs
  BY <1>1, ScanWraps
<1> QED
  BY <1>1, <1>2, MaxProcsAssumption, SMT DEF Slots, Distance

(* What is still READY after the scan picked next lies beyond next.         *)
LEMMA PickedIsNearest ==
  ASSUME NEW st, NEW from \in Slots, NEW next \in Slots,
         FirstReady(st, from, next),
         NEW b \in Slots, st[b] = "READY", b # next
  PROVE  Distance(next, b) < Distance(from, b)
<1>1. PICK i \in 1 .. MaxProcs :
        /\ next = Visited(from, i)
        /\ \A j \in 1 .. i - 1 : st[Visited(from, j)] # "READY"
  BY DEF FirstReady
<1>2. /\ Distance(from, b) \in 1 .. MaxProcs
      /\ Visited(from, Distance(from, b)) = b
  BY ScanReaches
<1>3. Distance(from, b) \notin 1 .. i - 1
  BY <1>1, <1>2
<1>4. Distance(from, b) # i
  BY <1>1, <1>2
<1>5. i < Distance(from, b)
  BY <1>2, <1>3, <1>4, MaxProcsAssumption, SMT
<1>6. next = IF from + i < MaxProcs THEN from + i ELSE from + i - MaxProcs
  BY <1>1, ScanWraps
<1> QED
  BY <1>5, <1>6, MaxProcsAssumption, SMT DEF Slots, Distance

----------------------------------------------------------------------------
(* No two processes share a pid, although slots and pids are handed out by  *)
(* separate counters.                                                       *)
PidsUnique ==
  \A i, j \in Slots :
    /\ state[i] # "UNUSED" => pid[i] < nextPid
    /\ state[i] # "UNUSED" /\ state[j] # "UNUSED" /\ pid[i] = pid[j] => i = j

(* The safety invariants of the run, and PidsUnique, in the form one         *)
(* induction proves.                                                        *)
IInv ==
  /\ TypeOK
  /\ RunningIsCurrent
  /\ ReadyIsResumable
  /\ OverflowIsCaught
  /\ PidsUnique

LEMMA InitIInv == Init => IInv
<1> SUFFICES ASSUME Init PROVE IInv
  OBVIOUS
<1> USE MaxProcsAssumption DEF Init, Slots
<1>1. TypeOK
  BY DEF TypeOK, ProcStates, Contexts
<1>2. RunningIsCurrent
  BY DEF RunningIsCurrent
<1>3. ReadyIsResumable
  BY DEF ReadyIsResumable
<1>4. OverflowIsCaught
  BY DEF OverflowIsCaught
<1>5. PidsUnique
  BY DEF PidsUnique
<1> QED
  BY <1>1, <1>2, <1>3, <1>4, <1>5 DEF IInv

(* What Yield and Exit have in common: current's slot leaves RUNNING for    *)
(* left, next's goes from READY to RUNNING, contexts are switched.          *)
HandOver(left, next) ==
  /\ CheckCanary
  /\ state[next] = "READY"
  /\ next # current
  /\ state' = [state EXCEPT ![current] = left, ![next] = "RUNNING"]
  /\ ContextSwitch(current, next)
  /\ current' = next
  /\ UNCHANGED <<pid, canary, nextPid, halted>>

(* Every Yield and every Exit is a HandOver.                                *)
LEMMA YieldHandsOver ==
  ASSUME IInv, Yield
  PROVE  \E next \in Slots :
           FirstReady(state, current, next) /\ HandOver("READY", next)
<1>1. state[current] = "RUNNING"
  BY DEF IInv, TypeOK, RunningIsCurrent, Yield, CheckCanary
<1>2. PICK next \in Slots :
        /\ FirstReady(state, current, next)
        /\ state' = [state EXCEPT
             ![current] = IF @ = "RUNNING" THEN "READY" ELSE @,
             ![next]    = "RUNNING"]
        /\ ContextSwitch(current, next)
        /\ current' = next
  BY DEF Yield
<1>3. state[next] = "READY"
  BY <1>2 DEF FirstReady
<1>4. state' = [state EXCEPT ![current] = "READY", ![next] = "RUNNING"]
  BY <1>1, <1>2
<1> QED
  BY <1>1, <1>2, <1>3, <1>4 DEF HandOver, Yield

LEMMA ExitHandsOver ==
  ASSUME IInv, Exit
  PROVE  \E next \in Slots :
           /\ FirstReady([state EXCEPT ![current] = "ZOMBIE"], current, next)
           /\ HandOver("ZOMBIE", next)
<1> DEFINE ended == [state EXCEPT ![current] = "ZOMBIE"]
<1>1. PICK next \in Slots :
        /\ FirstReady(ended, current, next)
        /\ state' = [ended EXCEPT ![next] = "RUNNING"]
        /\ ContextSwitch(current, next)
        /\ current' = next
  BY DEF Exit
<1>2. ended[next] = "READY"
  BY <1>1 DEF FirstReady
<1>3. next # current /\ state[next] = "READY"
  BY <1>2 DEF IInv, TypeOK
<1>4. state' = [state EXCEPT ![current] = "ZOMBIE", ![next] = "RUNNING"]
  BY <1>1
<1> QED
  BY <1>1, <1>3, <1>4 DEF HandOver, Exit

LEMMA HandOverKeepsIInv ==
  ASSUME IInv, NEW left \in {"READY", "ZOMBIE"},
         NEW next \in Slots, HandOver(left, next)
  PROVE  IInv'
<1> USE DEF IInv, HandOver
<1>1. TypeOK'
  BY DEF TypeOK, ProcStates, Contexts, ContextSwitch, CheckCanary
<1>2. RunningIsCurrent'
  BY DEF TypeOK, RunningIsCurrent, CheckCanary
<1>3. ReadyIsResumable'
  BY DEF TypeOK, ReadyIsResumable, ContextSwitch
<1>4. OverflowIsCaught'
  BY DEF TypeOK, OverflowIsCaught, CheckCanary
<1>5. PidsUnique'
  BY DEF TypeOK, RunningIsCurrent, PidsUnique, CheckCanary
<1> QED
  BY <1>1, <1>2, <1>3, <1>4, <1>5

LEMMA SpawnKeepsIInv ==
  ASSUME IInv, Spawn
  PROVE  IInv'
<1>1. PICK i \in Slots :
        /\ state[i] = "UNUSED"
        /\ state'  = [state  EXCEPT ![i] = "READY"]
        /\ pid'    = [pid    EXCEPT ![i] = nextPid]
        /\ ctx'    = [ctx    EXCEPT ![i] = "trampoline"]
        /\ canary' = [canary EXCEPT ![i] = TRUE]
  BY DEF Spawn
<1>2. /\ halted = "no" /\ nextPid' = nextPid + 1
      /\ current' = current /\ halted' = halted
  BY DEF Spawn
<1> USE <1>1, <1>2 DEF IInv
<1>3. TypeOK'
  BY DEF TypeOK, ProcStates, Contexts
<1>4. RunningIsCurrent'
  BY DEF TypeOK, RunningIsCurrent
<1>5. ReadyIsResumable'
  BY DEF TypeOK, ReadyIsResumable
<1>6. OverflowIsCaught'
  BY DEF TypeOK, OverflowIsCaught
<1>7. PidsUnique'
  BY DEF TypeOK, PidsUnique
<1> QED
  BY <1>3, <1>4, <1>5, <1>6, <1>7

(* The actions that stop the machine, and Overflow.                         *)
LEMMA OthersKeepIInv ==
  ASSUME IInv, ExitLast \/ SysExit \/ Panic \/ Overflow
  PROVE  IInv'
<1> USE DEF IInv
<1>1. CASE ExitLast
  <2> USE <1>1 DEF ExitLast, CheckCanary, TypeOK
  <2>1. TypeOK'
    BY DEF ProcStates
  <2>2. RunningIsCurrent'
    BY DEF RunningIsCurrent
  <2>3. ReadyIsResumable' /\ OverflowIsCaught'
    BY DEF ReadyIsResumable, OverflowIsCaught
  <2>4. PidsUnique'
    BY DEF PidsUnique, RunningIsCurrent
  <2> QED
    BY <2>1, <2>2, <2>3, <2>4
<1>2. CASE SysExit
  BY <1>2 DEF SysExit, TypeOK, RunningIsCurrent, ReadyIsResumable,
     OverflowIsCaught, PidsUnique
<1>3. CASE Panic
  BY <1>3 DEF Panic, TypeOK, RunningIsCurrent, ReadyIsResumable,
     OverflowIsCaught, PidsUnique
<1>4. CASE Overflow
  BY <1>4 DEF Overflow, TypeOK, RunningIsCurrent, ReadyIsResumable,
     OverflowIsCaught, PidsUnique
<1> QED
  BY <1>1, <1>2, <1>3, <1>4

LEMMA NextKeepsIInv == IInv /\ [Next]_vars => IInv'
<1> SUFFICES ASSUME IInv, [Next]_vars PROVE IInv'
  OBVIOUS
<1>1. CASE Spawn
  BY <1>1, SpawnKeepsIInv
<1>2. CASE Yield
  BY <1>2, YieldHandsOver, HandOverKeepsIInv
<1>3. CASE Exit
  BY <1>3, ExitHandsOver, HandOverKeepsIInv
<1>4. CASE ExitLast \/ SysExit \/ Panic \/ Overflow
  BY <1>4, OthersKeepIInv
<1>5. CASE YieldAlone \/ UNCHANGED vars
  BY <1>5 DEF YieldAlone, vars, IInv, TypeOK, RunningIsCurrent,
     ReadyIsResumable, OverflowIsCaught, PidsUnique
<1> QED
  BY <1>1, <1>2, <1>3, <1>4, <1>5 DEF Next

THEOREM Invariance == Spec => []IInv
  BY InitIInv, NextKeepsIInv, PTL DEF Spec

----------------------------------------------------------------------------
(* Every variable of scheduler.c keeps its type.                            *)
THEOREM TypeCorrect == Spec => []TypeOK
<1>1. IInv => TypeOK
  BY DEF IInv
<1> QED
  BY <1>1, Invariance, PTL

(* The processor is never lost or doubled, however many slots there are.    *)
THEOREM OneRunning == Spec => []RunningIsCurrent
<1>1. IInv => RunningIsCurrent
  BY DEF IInv
<1> QED
  BY <1>1, Invariance, PTL

(* No hand-over ever jumps to 0 or into a stack frame already left.         *)
THEOREM NoWildResume == Spec => []ReadyIsResumable
<1>1. IInv => ReadyIsResumable
  BY DEF IInv
<1> QED
  BY <1>1, Invariance, PTL

(* A damaged stack never re-enters the rotation.                            *)
THEOREM DamageContained == Spec => []OverflowIsCaught
<1>1. IInv => OverflowIsCaught
  BY DEF IInv
<1> QED
  BY <1>1, Invariance, PTL

(* Pids identify processes.                                                 *)
THEOREM PidsIdentify == Spec => []PidsUnique
<1>1. IInv => PidsUnique
  BY DEF IInv
<1> QED
  BY <1>1, Invariance, PTL

(* Round robin: no hand-over passes a READY process over.                   *)
THEOREM RoundRobin == Spec => NobodyOvertaken
<1> DEFINE Nearer(i) ==
             state[i] = "READY" /\ state'[i] = "READY" /\ current' # current
               => Distance(current', i) < Distance(current, i)
<1>1. ASSUME IInv, [Next]_vars, NEW i \in Slots
      PROVE  Nearer(i)
  <2>1. CASE Yield
    <3>1. PICK next \in Slots :
            FirstReady(state, current, next) /\ HandOver("READY", next)
      BY <1>1, <2>1, YieldHandsOver
    <3>2. state'[next] = "RUNNING" /\ current' = next /\ current \in Slots
      BY <1>1, <3>1 DEF IInv, TypeOK, HandOver
    <3> QED
      BY <3>1, <3>2, PickedIsNearest
  <2>2. CASE Exit
    <3> DEFINE ended == [state EXCEPT ![current] = "ZOMBIE"]
    <3>1. PICK next \in Slots :
            FirstReady(ended, current, next) /\ HandOver("ZOMBIE", next)
      BY <1>1, <2>2, ExitHandsOver
    <3>2. /\ state'[next] = "RUNNING" /\ current' = next /\ current \in Slots
          /\ state[current] = "RUNNING"
      BY <1>1, <3>1 DEF IInv, TypeOK, HandOver, RunningIsCurrent, CheckCanary
    <3>3. state[i] = "READY" => ended[i] = "READY"
      BY <3>2, <1>1 DEF IInv, TypeOK
    <3> HIDE DEF ended
    <3> QED
      BY <3>1, <3>2, <3>3, PickedIsNearest
  <2>3. CASE Spawn \/ YieldAlone \/ ExitLast \/ SysExit \/ Panic \/ Overflow
             \/ UNCHANGED vars
    BY <2>3 DEF Spawn, YieldAlone, ExitLast, SysExit, Panic, Overflow, vars
  <2> QED
    BY <1>1, <2>1, <2>2, <2>3 DEF Next
<1>2. IInv /\ [Next]_vars
        => [\A i \in Slots :
              state[i] = "READY" /\ state'[i] = "READY" /\ current' # current
                => Distance(current', i) < Distance(current, i)]_vars
  BY <1>1
<1> QED
  BY <1>2, Invariance, PTL DEF Spec, NobodyOvertaken

(* A ZOMBIE's slot, pid and context are fixed for good.                     *)
THEOREM ZombiesStay == Spec => ZombieForever
<1> DEFINE Fixed(i) ==
             state[i] = "ZOMBIE" => state'[i] = "ZOMBIE" /\ pid'[i] = pid[i] /\ ctx'[i] = ctx[i]
<1>1. ASSUME IInv, [Next]_vars, NEW i \in Slots
      PROVE  Fixed(i)
  <2>1. ASSUME NEW left, NEW next \in Slots, HandOver(left, next) PROVE Fixed(i)
    BY <1>1, <2>1 DEF IInv, TypeOK, RunningIsCurrent, HandOver, CheckCanary, ContextSwitch
  <2>2. CASE Yield \/ Exit
    BY <1>1, <2>1, <2>2, YieldHandsOver, ExitHandsOver
  <2>3. CASE Spawn \/ ExitLast
    BY <1>1, <2>3 DEF Spawn, ExitLast, IInv, TypeOK
  <2>4. CASE YieldAlone \/ SysExit \/ Panic \/ Overflow \/ UNCHANGED vars
    BY <2>4 DEF YieldAlone, SysExit, Panic, Overflow, vars
  <2> QED
    BY <1>1, <2>2, <2>3, <2>4 DEF Next
<1>2. IInv /\ [Next]_vars
        => [\A i \in Slots :
              state[i] = "ZOMBIE"
                => /\ state'[i] = "ZOMBIE"
                   /\ pid'[i] = pid[i]
                   /\ ctx'[i] = ctx[i]]_vars
  BY <1>1
<1> QED
  BY <1>2, Invariance, PTL DEF Spec, ZombieForever
=============================================================================
