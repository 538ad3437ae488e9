----------------------------- MODULE Scheduler -----------------------------
(***************************************************************************)
(* The round-robin scheduler of os/src/scheduler.c, each entry point one    *)
(* step.  That is how the functions run whenever machine interrupts are     *)
(* masked: in a build that never calls clint_init, inside timer_handler,    *)
(* and in every task a timer interrupt has dispatched.  Module Kernel       *)
(* splits the same functions into their statements.                         *)
(***************************************************************************)
EXTENDS Naturals, FiniteSets

CONSTANT MaxProcs               \* slots of procs[]; MAX_PROCS in process.h

ASSUME MaxProcsAssumption == MaxProcs \in Nat \ {0}

Slots == 0 .. MaxProcs - 1

ProcStates == {"UNUSED", "READY", "RUNNING", "ZOMBIE"}

(***************************************************************************)
(* What resuming procs[i].ctx would do: jump to address 0 ("zero", the      *)
(* BSS value), start the trampoline, return into a suspended sched_yield,   *)
(* or re-enter a context that has been resumed already ("stale").           *)
(***************************************************************************)
Contexts == {"zero", "trampoline", "suspended", "stale"}

VARIABLES
  state,      \* procs[i].state
  pid,        \* procs[i].pid
  ctx,        \* procs[i].ctx
  canary,     \* procs[i].stack.canary = STACK_CANARY
  nextPid,    \* next_pid
  current,    \* current
  halted      \* "no", or why the machine stopped: "exit" or "panic"

vars == <<state, pid, ctx, canary, nextPid, current, halted>>

(* BSS is zero; then sched_init claims slot 0 for the boot thread.          *)
Init ==
  /\ state   = [i \in Slots |-> IF i = 0 THEN "RUNNING" ELSE "UNUSED"]
  /\ pid     = [i \in Slots |-> 0]
  /\ ctx     = [i \in Slots |-> "zero"]
  /\ canary  = [i \in Slots |-> i = 0]
  /\ nextPid = 1
  /\ current = 0
  /\ halted  = "no"

----------------------------------------------------------------------------
(* Operators named ..._mutant are faults the properties must detect; no      *)
(* specification uses them.                                                 *)

(* Publishes the slot with its context still zero.                          *)
SpawnNoCtx_mutant ==
  /\ halted = "no"
  /\ \E i \in Slots :
       /\ state[i] = "UNUSED"
       /\ state'  = [state  EXCEPT ![i] = "READY"]
       /\ pid'    = [pid    EXCEPT ![i] = nextPid]
       /\ canary' = [canary EXCEPT ![i] = TRUE]
  /\ nextPid' = nextPid + 1
  /\ UNCHANGED <<ctx, current, halted>>

(* Takes any slot that is not in use, a ZOMBIE's too.                       *)
SpawnReaps_mutant ==
  /\ halted = "no"
  /\ nextPid < 2 * MaxProcs
  /\ \E i \in Slots :
       /\ state[i] \in {"UNUSED", "ZOMBIE"}
       /\ state'  = [state  EXCEPT ![i] = "READY"]
       /\ pid'    = [pid    EXCEPT ![i] = nextPid]
       /\ ctx'    = [ctx    EXCEPT ![i] = "trampoline"]
       /\ canary' = [canary EXCEPT ![i] = TRUE]
  /\ nextPid' = nextPid + 1
  /\ UNCHANGED <<current, halted>>

(* sched_spawn takes the first UNUSED slot; with none it returns -1.        *)
Spawn ==
  /\ halted = "no"
  /\ \E i \in Slots :
       /\ state[i] = "UNUSED"
       /\ \A j \in 0 .. i - 1 : state[j] # "UNUSED"
       /\ state'  = [state  EXCEPT ![i] = "READY"]
       /\ pid'    = [pid    EXCEPT ![i] = nextPid]
       /\ ctx'    = [ctx    EXCEPT ![i] = "trampoline"]
       /\ canary' = [canary EXCEPT ![i] = TRUE]
  /\ nextPid' = nextPid + 1
  /\ UNCHANGED <<current, halted>>

(* Scans from slot 0 instead of from the slot after old.                    *)
VisitedFromZero_mutant(from, i) == i % MaxProcs

(* The slot the scan of sched_yield and sched_exit visits in round i.       *)
Visited(from, i) == (from + i) % MaxProcs

(* Stops one round early.                                                   *)
FirstReadyShort_mutant(st, from, next) ==
  \E i \in 1 .. MaxProcs - 2 :
    /\ next = Visited(from, i)
    /\ st[next] = "READY"
    /\ \A j \in 1 .. i - 1 : st[Visited(from, j)] # "READY"

(* next is the first READY slot that the scan starting after from finds.    *)
FirstReady(st, from, next) ==
  \E i \in 1 .. MaxProcs :
    /\ next = Visited(from, i)
    /\ st[next] = "READY"
    /\ \A j \in 1 .. i - 1 : st[Visited(from, j)] # "READY"

NoneReady(st) == \A i \in Slots : st[i] # "READY"

(* context_switch(&procs[old].ctx, &procs[next].ctx): the registers of the  *)
(* caller go to old, those of next are loaded and so used up.               *)
ContextSwitch(old, next) ==
  ctx' = [ctx EXCEPT ![old] = "suspended", ![next] = "stale"]

(* No stack check.                                                          *)
NoCanaryCheck_mutant == halted = "no"

CheckCanary == halted = "no" /\ canary[current]

(* check_canary found the word overwritten: message, then sys_exit.         *)
Panic ==
  /\ halted = "no"
  /\ ~ canary[current]
  /\ halted' = "panic"
  /\ UNCHANGED <<state, pid, ctx, canary, nextPid, current>>

(* Leaves old RUNNING.                                                      *)
YieldKeepsRunning_mutant ==
  /\ CheckCanary
  /\ \E next \in Slots :
       /\ FirstReady(state, current, next)
       /\ state' = [state EXCEPT ![next] = "RUNNING"]
       /\ ContextSwitch(current, next)
       /\ current' = next
  /\ UNCHANGED <<pid, canary, nextPid, halted>>

(* sched_yield when another process is READY.                               *)
Yield ==
  /\ CheckCanary
  /\ \E next \in Slots :
       /\ FirstReady(state, current, next)
       /\ state' = [state EXCEPT
            ![current] = IF @ = "RUNNING" THEN "READY" ELSE @,
            ![next]    = "RUNNING"]
       /\ ContextSwitch(current, next)
       /\ current' = next
  /\ UNCHANGED <<pid, canary, nextPid, halted>>

(* sched_yield falls out of its scan and returns to the caller.             *)
YieldAlone ==
  /\ CheckCanary
  /\ NoneReady(state)
  /\ UNCHANGED vars

(* sched_exit hands the processor to the next READY process ...             *)
Exit ==
  /\ CheckCanary
  /\ \E next \in Slots :
       LET ended == [state EXCEPT ![current] = "ZOMBIE"]
       IN  /\ FirstReady(ended, current, next)
           /\ state' = [ended EXCEPT ![next] = "RUNNING"]
           /\ ContextSwitch(current, next)
           /\ current' = next
  /\ UNCHANGED <<pid, canary, nextPid, halted>>

(* ... and stops the machine when there is none.                            *)
ExitLast ==
  /\ CheckCanary
  /\ state' = [state EXCEPT ![current] = "ZOMBIE"]
  /\ NoneReady(state')
  /\ halted' = "exit"
  /\ UNCHANGED <<pid, ctx, canary, nextPid, current>>

(* The running process calls sys_exit (ecall 10), or faults and ends in     *)
(* panic_handler; both come to do_halt.                                     *)
SysExit ==
  /\ halted = "no"
  /\ halted' \in {"exit", "panic"}
  /\ UNCHANGED <<state, pid, ctx, canary, nextPid, current>>

(* A task runs off the low end of its 508-byte stack.  Slot 0 runs on the   *)
(* boot stack, far from procs[0].stack.                                     *)
Overflow ==
  /\ halted = "no"
  /\ current # 0
  /\ canary' = [canary EXCEPT ![current] = FALSE]
  /\ UNCHANGED <<state, pid, ctx, nextPid, current, halted>>

Next ==
  \/ Spawn
  \/ Yield
  \/ YieldAlone
  \/ Exit
  \/ ExitLast
  \/ SysExit
  \/ Panic
  \/ Overflow

Spec == Init /\ [][Next]_vars

(* Every task keeps giving the processor up, as cooperative tasks must.     *)
GivesUp == Yield \/ YieldAlone \/ Exit \/ ExitLast \/ Panic

FairSpec == Spec /\ WF_vars(GivesUp)

----------------------------------------------------------------------------
TypeOK ==
  /\ state   \in [Slots -> ProcStates]
  /\ pid     \in [Slots -> Nat]
  /\ ctx     \in [Slots -> Contexts]
  /\ canary  \in [Slots -> BOOLEAN]
  /\ nextPid \in Nat
  /\ current \in Slots
  /\ halted  \in {"no", "exit", "panic"}

(* The processor is never lost or doubled: until the machine stops, the     *)
(* RUNNING processes are exactly the one that current names (scheduler.c    *)
(* keeps the two in separate variables and updates them one by one).        *)
RunningIsCurrent ==
  halted = "no" => \A i \in Slots : (state[i] = "RUNNING") <=> (i = current)

(* Whatever the scan may pick has a context that was saved or built and not *)
(* resumed since: context_switch never jumps to 0 and never re-enters an    *)
(* old stack frame.                                                         *)
ReadyIsResumable ==
  \A i \in Slots : state[i] = "READY" => ctx[i] \in {"trampoline", "suspended"}

(* A process whose stack overran its canary is still the one running, or    *)
(* the machine has stopped: check_canary guards every way off the           *)
(* processor, so no damaged stack is ever put back in the rotation.         *)
OverflowIsCaught ==
  \A i \in Slots :
    state[i] # "UNUSED" /\ ~ canary[i] => i = current

(* How far the scan from slot a is from slot b, 1 .. MaxProcs.              *)
Distance(a, b) == IF b > a THEN b - a ELSE b - a + MaxProcs

(* Round robin: every hand-over brings the scan strictly nearer to each     *)
(* process that stays READY, so none is passed over and each waits through  *)
(* at most MaxProcs - 1 hand-overs (scheduler.c:63 "round - robin planner").*)
NobodyOvertaken ==
  [][\A i \in Slots :
       state[i] = "READY" /\ state'[i] = "READY" /\ current' # current
         => Distance(current', i) < Distance(current, i)]_vars

(* A ZOMBIE slot is never reused and never runs again: its pid and its      *)
(* context are fixed for good (there is no reaping in scheduler.c).         *)
ZombieForever ==
  [][\A i \in Slots :
       state[i] = "ZOMBIE"
         => /\ state'[i] = "ZOMBIE"
            /\ pid'[i] = pid[i]
            /\ ctx'[i] = ctx[i]]_vars

(* As long as the running process keeps giving up the processor, a READY    *)
(* process gets it or the machine stops.                                    *)
ReadyRuns ==
  \A i \in Slots :
    state[i] = "READY" ~> state[i] = "RUNNING" \/ halted # "no"
=============================================================================
