------------------------------ MODULE MCKernel ------------------------------
(* Workloads for module Kernel.  Each entry is what main or a task may do   *)
(* next, and next, ...                                                      *)
EXTENDS Kernel

(* kernel_main with the clint_init line taken out: every call voluntary.    *)
Cooperative ==
  [main |-> << {"init"}, {"spawn"}, {"spawn", "ecall"}, {"yield"}, {"yield"}, {"halt", "exit"} >>,
   task |-> << {"yield", "ecall", "spawn", "alloc"}, {"yield", "exit", "fault"} >>]

(* main spawns, arms the timer and idles; only ticks take it off the        *)
(* processor.  Tasks print through uart.c, which needs no ecall.            *)
TimerDriven ==
  [main |-> << {"init"}, {"spawn"}, {"spawn"}, {"arm"}, {"work"}, {"spin"} >>,
   task |-> << {"yield", "work", "spawn"}, {"yield", "exit"} >>]

(* kernel_main as it is written: it arms the timer before sched_init and    *)
(* goes on using the scheduler.                                             *)
Preempted ==
  [main |-> << {"arm"}, {"work"}, {"init"}, {"spawn"}, {"spawn"}, {"yield"}, {"yield"}, {"halt"} >>,
   task |-> << {"work"}, {"yield"} >>]

(* Processes spawned while others run: a task spawns while main does, ...   *)
SpawningTask ==
  [main |-> << {"init"}, {"spawn"}, {"arm"}, {"spawn"}, {"halt"} >>, task |-> << {"spawn"} >>]

(* ... and main spawns once tasks have run.                                 *)
LateSpawn ==
  [main |-> << {"init"}, {"spawn"}, {"spawn"}, {"arm"}, {"yield"}, {"spawn"}, {"yield"}, {"halt"} >>,
   task |-> << {"yield"} >>]

(* The timer and a lock, inside which main and the tasks allocate, yield    *)
(* and spawn.                                                               *)
PreemptedLocking ==
  [main |-> << {"init"}, {"arm"}, {"spawn"}, {"lock"}, {"alloc"}, {"spawn", "yield"}, {"alloc"},
               {"unlock"}, {"yield"}, {"halt"} >>,
   task |-> << {"lock"}, {"alloc", "work"}, {"yield"}, {"unlock"}, {"yield", "exit"} >>]

(* TimerDriven, with tasks that print through sys_putchar.                  *)
EcallTasks == [TimerDriven EXCEPT !.task = << {"ecall"}, {"yield"} >>]

(* TimerDriven, with tasks that never call the scheduler.                   *)
SpinningTasks == [TimerDriven EXCEPT !.task = << {"spin"} >>]

(* The task yields inside the critical section, so that main, which the     *)
(* timer can interrupt, waits for the lock; both allocate under it.         *)
Locking ==
  [main |-> << {"init"}, {"spawn"}, {"yield"}, {"arm"}, {"lock"}, {"alloc"}, {"unlock"}, {"spin"} >>,
   task |-> << {"lock"}, {"alloc", "work"}, {"yield"}, {"alloc"}, {"unlock"}, {"yield", "exit"} >>]

(* Locking with a second task: dispatched with MIE clear while the first    *)
(* holds the lock, it spins and nothing takes it off the processor.         *)
LockedOut ==
  [Locking EXCEPT !.main = << {"init"}, {"spawn"}, {"spawn"}, {"yield"}, {"arm"}, {"spin"} >>]

(* Tasks that allocate without a lock while a preempted main does.          *)
Allocating ==
  [main |-> << {"init"}, {"spawn"}, {"arm"}, {"alloc"}, {"spin"} >>, task |-> << {"alloc"}, {"yield"} >>]

(* The sets of workloads that the configurations give to Programs.          *)
AllHandOvers  == {Cooperative, TimerDriven, Locking,
                  Preempted, SpawningTask, LateSpawn, PreemptedLocking}
PrintingTasks == {EcallTasks}

(* Workloads of no configuration, each with what goes wrong: see README.    *)
BusyTasks          == {SpinningTasks}
MaskedSpinning     == {LockedOut}
UnlockedAllocation == {Allocating}

(* What the theorems assume is what the workloads of the runs do.           *)
ASSUME HandOversKeepToTheRest ==
  \A p \in AllHandOvers \cup MaskedSpinning :
    /\ ArmsOnce(p) /\ InitsFirst(p) /\ EcallsEarly(p)
    /\ LocksInPairs(p) /\ AllocatesLocked(p)

ASSUME AllArmOnce ==
  \A p \in PrintingTasks \cup BusyTasks \cup UnlockedAllocation : ArmsOnce(p) /\ InitsFirst(p)
=============================================================================
