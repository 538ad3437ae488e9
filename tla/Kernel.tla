------------------------------- MODULE Kernel -------------------------------
(***************************************************************************)
(* The kernel under its own timer: os/src/scheduler.c, sched_switch.S,      *)
(* trap.S, trap.c and the tick handler of kernel_main.c, with kalloc.c and  *)
(* spinlock.h, one step per statement that reads or writes shared state and *)
(* a timer interrupt possible between any two steps taken while mstatus.MIE *)
(* is set.                                                                  *)
(*                                                                          *)
(* A thread is the stack it runs on: procs[i].stack for i > 0 and the boot  *)
(* stack for 0.  Its content is a sequence of activations, newest first.    *)
(* A saved context is the stack pointer and return address of a thread,     *)
(* that is, which thread it belongs to (home) and what was on its stack.    *)
(***************************************************************************)
EXTENDS Naturals, Sequences

CONSTANTS
  MaxProcs,     \* slots of procs[]
  KallocPages,  \* KALLOC_PAGES
  Programs      \* what kernel_main and the entry functions may be: for each
                \* of the two, a sequence of the sets of calls it may make next

Ops == {"init", "arm", "spawn", "yield", "exit", "ecall", "work", "spin", "halt",
        "fault", "lock", "unlock", "alloc"}

ASSUME KernelAssumption ==
  /\ MaxProcs \in Nat \ {0} /\ KallocPages \in Nat
  /\ Programs \subseteq [{"main", "task"} -> Seq(SUBSET Ops)]

Slots == 0 .. MaxProcs - 1

(***************************************************************************)
(* What the callers keep to, p being one of Programs; kernel_main as it is  *)
(* written does.  The theorems of KernelProofs name what they need.         *)
(***************************************************************************)
Arms(p) == \E k \in 1 .. Len(p["main"]) : "arm" \in p["main"][k]

(* clint_init is called by kernel_main and once.                            *)
ArmsOnce(p) ==
  /\ \A j, k \in 1 .. Len(p["main"]) : "arm" \in p["main"][j] /\ "arm" \in p["main"][k] => j = k
  /\ \A k \in 1 .. Len(p["task"]) : "arm" \notin p["task"][k]

(* kernel_main calls sched_init once, before it calls the scheduler.        *)
InitsFirst(p) ==
  /\ \E k \in 1 .. Len(p["main"]) :
       /\ p["main"][k] = {"init"}
       /\ \A j \in 1 .. k - 1 : p["main"][j] \cap {"init", "spawn", "yield", "exit"} = {}
       /\ \A j \in k + 1 .. Len(p["main"]) : "init" \notin p["main"][j]
  /\ \A k \in 1 .. Len(p["task"]) : "init" \notin p["task"][k]

(* Nothing executes an ecall any more once the timer is armed.              *)
EcallsEarly(p) ==
  /\ \A j, k \in 1 .. Len(p["main"]) :
       "arm" \in p["main"][j] /\ "ecall" \in p["main"][k] => k <= j
  /\ Arms(p) => \A k \in 1 .. Len(p["task"]) : "ecall" \notin p["task"][k]

(* The op-th call is made after an aquire that no release has followed.     *)
InSection(p, prog, op) ==
  \E k \in 1 .. op - 1 :
    "lock" \in p[prog][k] /\ \A j \in k + 1 .. op - 1 : "unlock" \notin p[prog][j]

LocksInPairs(p) ==
  \A prog \in {"main", "task"} : \A k \in 1 .. Len(p[prog]) :
    /\ "lock"   \in p[prog][k] => p[prog][k] = {"lock"}
    /\ "unlock" \in p[prog][k] => p[prog][k] = {"unlock"} /\ InSection(p, prog, k)

(* kalloc is called under the lock where a tick may come.                   *)
AllocatesLocked(p) ==
  Arms(p) =>
    \A prog \in {"main", "task"} : \A k \in 1 .. Len(p[prog]) :
      "alloc" \in p[prog][k] => InSection(p, prog, k)

VARIABLES
  state, pid, canary,   \* fields of procs[]
  ctx,                  \* procs[i].ctx
  nextPid, current,     \* next_pid, current
  stk,                  \* stk[t]: activations on the stack of thread t
  cpu,                  \* the thread whose stack sp points into
  mie, mpie,            \* mstatus.MIE, mstatus.MPIE
  mepc, mcause,         \* the thread mepc points into; what trapped it
  program,              \* the member of Programs that is running
  locked,               \* locked of the one spinlock_t
  holders,              \* threads between aquire and release: history
  bump,                 \* (bump - heap) / PAGE_SIZE
  pages,                \* what kalloc has returned, NULLs apart: history
  stale,                \* a tick has struck a scan: history
  torn,                 \* a tick has struck between a choice and the last
                        \* of the writes it leads to: history
  halted                \* "no", "exit", "panic", or "wild": ra, sp or pc
                        \* was loaded with a value nobody saved for it

procVars == <<state, pid, canary, nextPid>>
trapVars == <<mie, mpie, mepc, mcause>>
sharedVars == <<program, locked, holders, bump, pages>>
tickVars == <<stale, torn>>
otherVars == <<sharedVars, tickVars>>
vars == <<procVars, ctx, current, stk, cpu, trapVars, halted, otherVars>>

(* Activations: of an entry function about to make its op-th call, of a     *)
(* kernel function at a label, and the frame trap_entry builds on the       *)
(* interrupted stack.                                                       *)
Run(prog, op)       == [at |-> "run", prog |-> prog, op |-> op]
Frame(at, old, i)   == [at |-> at, old |-> old, i |-> i]
TrapFrame           == [at |-> "trap"]

Zero == [home |-> 0, frames |-> <<>>]     \* a context never written: BSS

Top == Head(stk[cpu])

Init ==
  /\ state   = [i \in Slots |-> "UNUSED"]
  /\ pid     = [i \in Slots |-> 0]
  /\ canary  = [i \in Slots |-> FALSE]
  /\ ctx     = [i \in Slots |-> Zero]
  /\ nextPid = 1
  /\ current = 0
  /\ stk     = [t \in Slots |-> IF t = 0 THEN <<Run("main", 1)>> ELSE <<>>]
  /\ cpu     = 0
  /\ mie     = FALSE
  /\ mpie    = TRUE
  /\ mepc    = 0
  /\ mcause  = "none"
  /\ halted  = "no"
  /\ program \in Programs
  /\ locked  = FALSE /\ holders = {}
  /\ bump    = 0 /\ pages = <<>>
  /\ stale   = FALSE /\ torn = FALSE

----------------------------------------------------------------------------
(* Moving through activations.                                              *)
At(label) == halted = "no" /\ Top.at = label

Goto(frame) == stk' = [stk EXCEPT ![cpu] = <<frame>> \o Tail(@)]
Return      == stk' = [stk EXCEPT ![cpu] = Tail(@)]

Doing(op) ==
  /\ At("run")
  /\ Top.op <= Len(program[Top.prog])
  /\ op \in program[Top.prog][Top.op]

AfterOp == Run(Top.prog, Top.op + 1)

Call(frame) == stk' = [stk EXCEPT ![cpu] = <<frame, AfterOp>> \o Tail(@)]

(***************************************************************************)
(* Calls of the entry functions.  "spin" is a loop that calls nothing: it   *)
(* has no step of its own and only the timer ends it.                       *)
(***************************************************************************)
Work ==
  /\ Doing("work")
  /\ Goto(AfterOp)
  /\ UNCHANGED <<procVars, ctx, current, cpu, trapVars, halted, otherVars>>

(* sched_init; current keeps its initial value.                             *)
SchedInit ==
  /\ Doing("init")
  /\ state'  = [i \in Slots |-> IF i = 0 THEN "RUNNING" ELSE "UNUSED"]
  /\ pid'    = [pid EXCEPT ![0] = 0]
  /\ canary' = [canary EXCEPT ![0] = TRUE]
  /\ Goto(AfterOp)
  /\ UNCHANGED <<nextPid, ctx, current, cpu, trapVars, halted, otherVars>>

(* clint_init: mtimecmp is set, MTIE and then mstatus.MIE.                  *)
Arm ==
  /\ Doing("arm")
  /\ mie' = TRUE
  /\ Goto(AfterOp)
  /\ UNCHANGED <<procVars, ctx, current, cpu, mpie, mepc, mcause, halted, otherVars>>

(* sys_putchar: the whole trap runs with MIE clear, so it is one step; what *)
(* it leaves behind is its mepc (+ 4), its mcause, and MPIE set by mret.    *)
Ecall ==
  /\ Doing("ecall")
  /\ mepc'   = cpu
  /\ mcause' = "ecall"
  /\ mpie'   = TRUE
  /\ Goto(AfterOp)
  /\ UNCHANGED <<procVars, ctx, current, cpu, mie, halted, otherVars>>

SysExit ==
  /\ Doing("halt")
  /\ halted' = "exit"
  /\ UNCHANGED <<procVars, ctx, current, stk, cpu, trapVars, otherVars>>

(* An exception other than an ecall: exc_table is empty, so trap_handler    *)
(* calls panic_handler, which halts.                                        *)
Fault ==
  /\ Doing("fault")
  /\ halted' = "panic"
  /\ UNCHANGED <<procVars, ctx, current, stk, cpu, trapVars, otherVars>>

(* Operators named ..._mutant are faults the properties must detect; no      *)
(* specification uses them.                                                 *)

(* Enters without looking at what amoswap returned.                         *)
Acquire_mutant ==
  /\ Doing("lock")
  /\ locked'  = TRUE
  /\ holders' = holders \cup {cpu}
  /\ Goto(AfterOp)
  /\ UNCHANGED <<procVars, ctx, current, cpu, trapVars, halted, program, bump, pages, tickVars>>

(* spinlock_aquire: the amoswap that finds 0.  One that finds 1 writes 1    *)
(* again and loops; it has no step of its own.                              *)
Acquire ==
  /\ Doing("lock")
  /\ ~ locked
  /\ locked'  = TRUE
  /\ holders' = holders \cup {cpu}
  /\ Goto(AfterOp)
  /\ UNCHANGED <<procVars, ctx, current, cpu, trapVars, halted, program, bump, pages, tickVars>>

(* Writes 1 back.                                                           *)
Release_mutant ==
  /\ Doing("unlock")
  /\ holders' = holders \ {cpu}
  /\ Goto(AfterOp)
  /\ UNCHANGED <<procVars, ctx, current, cpu, trapVars, halted, program, locked, bump, pages, tickVars>>

Release ==
  /\ Doing("unlock")
  /\ locked'  = FALSE
  /\ holders' = holders \ {cpu}
  /\ Goto(AfterOp)
  /\ UNCHANGED <<procVars, ctx, current, cpu, trapVars, halted, program, bump, pages, tickVars>>

(* kalloc: bump is read and tested, and later written back one page on.     *)
AllocTest ==
  /\ Doing("alloc")
  /\ \/ bump < KallocPages /\ Call(Frame("bump", 0, bump))
     \/ bump >= KallocPages /\ Goto(AfterOp)
  /\ UNCHANGED <<procVars, ctx, current, cpu, trapVars, halted, otherVars>>

AllocBump ==
  /\ At("bump")
  /\ bump'  = Top.i + 1
  /\ pages' = Append(pages, Top.i)
  /\ Return
  /\ UNCHANGED <<procVars, ctx, current, cpu, trapVars, halted, program, locked, holders, tickVars>>

CallScheduler ==
  /\ \/ Doing("spawn") /\ Call(Frame("find", 0, 0))
     \/ Doing("yield") /\ Call(Frame("check", 0, 1))
     \/ Doing("exit")  /\ Call(Frame("x_check", 0, 1))
  /\ UNCHANGED <<procVars, ctx, current, cpu, trapVars, halted, otherVars>>

(* proc_trampoline calls sched_exit after entry returned.  Should that      *)
(* return, ra holds proc_trampoline again: the entry starts over.           *)
EntryReturns ==
  /\ At("run")
  /\ Top.prog = "task"
  /\ Top.op > Len(program["task"])
  /\ stk' = [stk EXCEPT ![cpu] = <<Frame("x_check", 0, 1), Run("task", 1)>> \o Tail(@)]
  /\ UNCHANGED <<procVars, ctx, current, cpu, trapVars, halted, otherVars>>

----------------------------------------------------------------------------
(* sched_spawn.                                                             *)
SpawnFind ==
  /\ At("find")
  /\ \/ /\ Top.i < MaxProcs
        /\ \/ state[Top.i] # "UNUSED" /\ Goto(Frame("find", 0, Top.i + 1))
           \/ state[Top.i] = "UNUSED" /\ Goto(Frame("publish", 0, Top.i))
     \/ Top.i = MaxProcs /\ Return
  /\ UNCHANGED <<procVars, ctx, current, cpu, trapVars, halted, otherVars>>

SpawnPublish ==
  /\ At("publish")
  /\ state' = [state EXCEPT ![Top.i] = "READY"]
  /\ Goto(Frame("number", 0, Top.i))
  /\ UNCHANGED <<pid, canary, nextPid, ctx, current, cpu, trapVars, halted, otherVars>>

SpawnNumber ==
  /\ At("number")
  /\ pid'     = [pid EXCEPT ![Top.i] = nextPid]
  /\ nextPid' = nextPid + 1
  /\ Goto(Frame("canary", 0, Top.i))
  /\ UNCHANGED <<state, canary, ctx, current, cpu, trapVars, halted, otherVars>>

SpawnCanary ==
  /\ At("canary")
  /\ canary' = [canary EXCEPT ![Top.i] = TRUE]
  /\ Goto(Frame("build", 0, Top.i))
  /\ UNCHANGED <<state, pid, nextPid, ctx, current, cpu, trapVars, halted, otherVars>>

(* entry, ctx.ra = proc_trampoline, ctx.sp = top of an empty stack.  One    *)
(* step: a context that lacks ra or sp leads nowhere, as Zero does, and     *)
(* entry, stored before them, is read by proc_trampoline only.              *)
SpawnBuild ==
  /\ At("build")
  /\ LET fresh == <<Run("task", 1)>>
     IN  /\ ctx' = [ctx EXCEPT ![Top.i] = [home |-> Top.i, frames |-> fresh]]
         /\ stk' = [stk EXCEPT ![cpu] = Tail(@), ![Top.i] = fresh]
  /\ UNCHANGED <<procVars, current, cpu, trapVars, halted, otherVars>>

----------------------------------------------------------------------------
(* sched_yield: old = current; check_canary(old); the scan.                 *)
YieldCheck ==
  /\ At("check")
  /\ \/ canary[current] /\ Goto(Frame("scan", current, 1)) /\ UNCHANGED halted
     \/ ~ canary[current] /\ halted' = "panic" /\ UNCHANGED stk
  /\ UNCHANGED <<procVars, ctx, current, cpu, trapVars, otherVars>>

(* The rounds of the scan: READY slots stop it, the last round ends it.     *)
Scan(from, rounds) ==
  LET next == (from + Top.i) % MaxProcs
  IN  \/ Top.i > rounds /\ Return
      \/ /\ Top.i <= rounds
         /\ \/ state[next] = "READY" /\ Goto(Frame("park", Top.old, next))
            \/ state[next] # "READY" /\ Goto(Frame("scan", Top.old, Top.i + 1))

YieldScanWith(from, rounds) ==
  At("scan") /\ Scan(from, rounds)
    /\ UNCHANGED <<procVars, ctx, current, cpu, trapVars, halted, otherVars>>

(* Scans from slot 0 instead of from old + 1.                               *)
YieldScanFromZero_mutant == YieldScanWith(0, MaxProcs)

(* Never looks at the slot before old.                                      *)
YieldScanShort_mutant == YieldScanWith(Top.old, MaxProcs - 2)

YieldScan == YieldScanWith(Top.old, MaxProcs)

(* if (procs[old].state == PROC_RUNNING) procs[old].state = PROC_READY.     *)
YieldPark ==
  /\ At("park")
  /\ state' = [state EXCEPT ![Top.old] = IF @ = "RUNNING" THEN "READY" ELSE @]
  /\ Goto(Frame("claim", Top.old, Top.i))
  /\ UNCHANGED <<pid, canary, nextPid, ctx, current, cpu, trapVars, halted, otherVars>>

(* sched_exit up to its hand-over; it re-reads current in every round.      *)
ExitCheck ==
  /\ At("x_check")
  /\ \/ canary[current] /\ Goto(Frame("x_zombie", 0, 1)) /\ UNCHANGED halted
     \/ ~ canary[current] /\ halted' = "panic" /\ UNCHANGED stk
  /\ UNCHANGED <<procVars, ctx, current, cpu, trapVars, otherVars>>

ExitZombie ==
  /\ At("x_zombie")
  /\ state' = [state EXCEPT ![current] = "ZOMBIE"]
  /\ Goto(Frame("x_scan", 0, 1))
  /\ UNCHANGED <<pid, canary, nextPid, ctx, current, cpu, trapVars, halted, otherVars>>

ExitScan ==
  /\ At("x_scan")
  /\ LET next == (current + Top.i) % MaxProcs
     IN  \/ Top.i > MaxProcs /\ halted' = "exit" /\ UNCHANGED stk
         \/ /\ Top.i <= MaxProcs
            /\ UNCHANGED halted
            /\ \/ state[next] = "READY" /\ Goto(Frame("claim", current, next))
               \/ state[next] # "READY" /\ Goto(Frame("x_scan", 0, Top.i + 1))
  /\ UNCHANGED <<procVars, ctx, current, cpu, trapVars, otherVars>>

----------------------------------------------------------------------------
(* The hand-over both functions end with.                                   *)
Claim ==
  /\ At("claim")
  /\ state' = [state EXCEPT ![Top.i] = "RUNNING"]
  /\ Goto(Frame("current", Top.old, Top.i))
  /\ UNCHANGED <<pid, canary, nextPid, ctx, current, cpu, trapVars, halted, otherVars>>

SetCurrent ==
  /\ At("current")
  /\ current' = Top.i
  /\ Goto(Frame("save", Top.old, Top.i))
  /\ UNCHANGED <<procVars, ctx, cpu, trapVars, halted, otherVars>>

(* Saves into the context of the thread it is about to resume.              *)
SwitchSaveSwapped_mutant ==
  /\ At("save")
  /\ ctx' = [ctx EXCEPT ![Top.i] =
       [home   |-> cpu,
        frames |-> <<Frame("return", Top.old, Top.i)>> \o Tail(stk[cpu])]]
  /\ Goto(Frame("restore", Top.old, Top.i))
  /\ UNCHANGED <<procVars, current, cpu, trapVars, halted, otherVars>>

(* The sw half of context_switch: the stack as it will be seen on return.   *)
SwitchSave ==
  /\ At("save")
  /\ ctx' = [ctx EXCEPT ![Top.old] =
       [home   |-> cpu,
        frames |-> <<Frame("return", Top.old, Top.i)>> \o Tail(stk[cpu])]]
  /\ Goto(Frame("restore", Top.old, Top.i))
  /\ UNCHANGED <<procVars, current, cpu, trapVars, halted, otherVars>>

(* The lw half and ret.  The context must be the last one of its thread:    *)
(* any other sp points at activations that have been left or overwritten.   *)
SwitchRestore ==
  /\ At("restore")
  /\ LET new    == ctx[Top.i]
         parked == [stk EXCEPT ![cpu] =
                      <<Frame("return", Top.old, Top.i)>> \o Tail(@)]
     IN  \/ /\ new # Zero
            /\ new.frames = parked[new.home]
            /\ stk' = parked
            /\ cpu' = new.home
            /\ UNCHANGED halted
         \/ /\ new = Zero \/ new.frames # parked[new.home]
            /\ halted' = "wild"
            /\ UNCHANGED <<stk, cpu>>
  /\ UNCHANGED <<procVars, ctx, current, trapVars, otherVars>>

SwitchReturn ==
  /\ At("return")
  /\ Return
  /\ UNCHANGED <<procVars, ctx, current, cpu, trapVars, halted, otherVars>>

----------------------------------------------------------------------------
(* Where a tick hurts.  The scans of sched_yield and sched_exit go by       *)
(* states read in earlier rounds; from the choice of a slot to the end of   *)
(* the hand-over, or from the publication of a new process to the end of    *)
(* sched_spawn, shared state is half written.  Anywhere else a call has     *)
(* read nothing yet that it goes by, or has written all it writes.  With    *)
(* any one of these labels left out, ImplementsScheduler fails.             *)
Scanning    == {"scan", "x_scan"}
HalfWritten == {"publish", "number", "canary", "build",
                "park", "claim", "current", "save", "restore"}

Strike ==
  /\ stale' = (stale \/ Top.at \in Scanning)
  /\ torn'  = (torn \/ Top.at \in HalfWritten)

(* fireTrap leaves MIE set.                                                 *)
TickUnmasked_mutant ==
  /\ halted = "no"
  /\ mie
  /\ Len(stk[cpu]) < 7
  /\ mpie'   = mie
  /\ mepc'   = cpu
  /\ mcause' = "timer"
  /\ stk'    = [stk EXCEPT ![cpu] = <<Frame("check", 0, 1), TrapFrame>> \o @]
  /\ Strike
  /\ UNCHANGED <<procVars, ctx, current, cpu, mie, halted, sharedVars>>

(* mtime >= mtimecmp while MIE is set: fireTrap, trap_entry's frame,        *)
(* trap_handler, timer_handler re-arms and calls sched_yield.               *)
Tick ==
  /\ halted = "no"
  /\ mie
  /\ mpie'   = mie
  /\ mie'    = FALSE
  /\ mepc'   = cpu
  /\ mcause' = "timer"
  /\ stk'    = [stk EXCEPT ![cpu] = <<Frame("check", 0, 1), TrapFrame>> \o @]
  /\ Strike
  /\ UNCHANGED <<procVars, ctx, current, cpu, halted, sharedVars>>

MretIsOurs == mepc = cpu /\ mcause = "timer"

(* Back in trap_entry: it re-reads mcause to decide on mepc + 4, restores   *)
(* the registers from the frame and executes mret.                          *)
TrapReturn ==
  /\ At("trap")
  /\ \/ MretIsOurs /\ Return /\ UNCHANGED halted
     \/ ~ MretIsOurs /\ halted' = "wild" /\ UNCHANGED stk
  /\ mie'  = mpie
  /\ mpie' = TRUE
  /\ UNCHANGED <<procVars, ctx, current, cpu, mepc, mcause, otherVars>>

Step ==
  \/ Work \/ SchedInit \/ Arm \/ Ecall \/ SysExit \/ Fault \/ CallScheduler \/ EntryReturns
  \/ Acquire \/ Release \/ AllocTest \/ AllocBump
  \/ SpawnFind \/ SpawnPublish \/ SpawnNumber \/ SpawnCanary \/ SpawnBuild
  \/ YieldCheck \/ YieldScan \/ YieldPark
  \/ ExitCheck \/ ExitZombie \/ ExitScan
  \/ Claim \/ SetCurrent \/ SwitchSave \/ SwitchRestore \/ SwitchReturn
  \/ TrapReturn

Next == Step \/ Tick

Spec == Init /\ [][Next]_vars

(* The processor keeps executing and mtime keeps counting.  clint_set_next  *)
(* leaves an interrupted thread time to run before the next tick, so a loop *)
(* of spinlock_aquire meets a lock that is free again and again.            *)
FairSpec == Spec /\ WF_vars(Step) /\ WF_vars(Tick) /\ SF_vars(Acquire)

----------------------------------------------------------------------------
Labels == {"find", "publish", "number", "canary", "build", "check", "scan", "park", "x_check",
           "x_zombie", "x_scan", "claim", "current", "save", "restore", "return", "bump"}

Activations ==
  [at : {"run"}, prog : {"main", "task"}, op : Nat]
    \cup [at : Labels, old : Slots, i : Nat]
    \cup {TrapFrame}

TypeOK ==
  /\ state   \in [Slots -> {"UNUSED", "READY", "RUNNING", "ZOMBIE"}]
  /\ pid     \in [Slots -> Nat]
  /\ canary  \in [Slots -> BOOLEAN]
  /\ ctx     \in [Slots -> [home : Slots, frames : Seq(Activations)]]
  /\ nextPid \in Nat
  /\ current \in Slots
  /\ stk     \in [Slots -> Seq(Activations)]
  /\ cpu     \in Slots
  /\ mie     \in BOOLEAN
  /\ mpie    \in BOOLEAN
  /\ mepc    \in Slots
  /\ mcause  \in {"none", "timer", "ecall"}
  /\ halted  \in {"no", "exit", "panic", "wild"}
  /\ locked  \in BOOLEAN
  /\ holders \subseteq Slots
  /\ bump    \in Nat
  /\ pages   \in Seq(Nat)
  /\ stale   \in BOOLEAN
  /\ torn    \in BOOLEAN

TrapFrames(t) == { n \in DOMAIN stk[t] : stk[t][n].at = "trap" }

(* Interrupts never nest, across all threads together: while any thread has *)
(* a trap frame on its stack, running or not, MIE is clear, and there is    *)
(* only one such frame.  Nothing in trap.S saves mepc, so this is what      *)
(* keeps one register enough for all processes.                             *)
OneTrapFrame ==
  /\ mie => \A t \in Slots : TrapFrames(t) = {}
  /\ \A t, u \in Slots : \A n \in TrapFrames(t), m \in TrapFrames(u) :
       t = u /\ n = m

(* mret returns to where this thread was interrupted, and mcause is still   *)
(* the one that trap_entry's second read needs (trap.S:49 "advance mepc     *)
(* past ecall instruction (ecall causes only)").                            *)
MretReturnsHome == At("trap") => MretIsOurs

(* ctx[i] of every process off the processor is its own latest context, not *)
(* another thread's and not an older one (scheduler.h:21 "save current ctx, *)
(* restore next ctx").  Ticks may come anywhere; after one has struck       *)
(* half-written state all this may fail, see README.                        *)
SavedIsExact ==
  halted = "no" /\ ~ torn =>
    \A i \in Slots \ {cpu} :
      ctx[i] # Zero => ctx[i].home = i /\ ctx[i].frames = stk[i]

(* Between spinlock_aquire and spinlock_release no other thread is there,   *)
(* whatever ticks and yields come while one is; and the word says so        *)
(* (os/README.md:87 "lock/unlock").                                         *)
LockExcludes == \A t \in holders : holders = {t} /\ locked

(* kalloc hands no page out twice and none beyond the heap, when its calls  *)
(* are under a lock or masked (kalloc.h:8 "NULL if out of memory").         *)
PagesDistinct ==
  /\ \A m, n \in DOMAIN pages : pages[m] = pages[n] => m = n
  /\ \A m \in DOMAIN pages : pages[m] < KallocPages

(* Thread t is in spinlock_aquire, on the processor or preempted there.     *)
Spins(t) ==
  LET n == Len(stk[t]) IN
  /\ n > 0 /\ state[t] \in {"READY", "RUNNING"}
  /\ n > 1 => stk[t][n - 1] = TrapFrame
  /\ LET f == stk[t][n] IN f.op <= Len(program[f.prog]) /\ "lock" \in program[f.prog][f.op]

(* The thread on the processor spins on a lock that is held, with MIE clear *)
(* since a tick dispatched it: nothing takes it off the processor any more. *)
SpinsMasked == ~ mie /\ locked /\ Doing("lock")

(* A thread that spins gets the lock: the timer takes it off the processor, *)
(* the holder runs and releases.                                            *)
SpinEnds == \A t \in Slots : Spins(t) ~> t \in holders \/ halted # "no" \/ torn \/ SpinsMasked

(* Preemption: a READY process gets the processor or the machine stops.     *)
ReadyRuns ==
  \A i \in Slots : state[i] = "READY" ~> state[i] = "RUNNING" \/ halted # "no" \/ torn \/ SpinsMasked

----------------------------------------------------------------------------
(***************************************************************************)
(* Unstruck, the statements of one call add up to one step of Scheduler,    *)
(* though a tick may come before and after what they add up to.  A          *)
(* hand-over counts as done when its scan has picked next, a spawn when the *)
(* state is published, and a sched_exit when its scan ends.                 *)
(***************************************************************************)
Booted == state[0] # "UNUSED"

HandingOver == halted = "no" /\ Top.at \in {"park", "claim", "current", "save", "restore"}

AbsCurrent == IF HandingOver THEN Top.i ELSE current

AbsState ==
  IF ~ Booted THEN [state EXCEPT ![0] = "RUNNING"]
  ELSE IF HandingOver THEN
    [state EXCEPT ![Top.old] = IF @ = "RUNNING" THEN "READY" ELSE @,
                  ![Top.i]   = "RUNNING"]
  ELSE IF At("x_scan") THEN [state EXCEPT ![current] = "RUNNING"]
  ELSE state

Spawning == At("number") \/ At("canary") \/ At("build")

AbsPid     == IF At("number") THEN [pid EXCEPT ![Top.i] = nextPid] ELSE pid
AbsNextPid == IF At("number") THEN nextPid + 1 ELSE nextPid

AbsCanary ==
  [i \in Slots |-> canary[i] \/ (i = 0 /\ ~ Booted) \/ (Spawning /\ i = Top.i)]

AbsCtx ==
  [i \in Slots |->
     IF Spawning /\ i = Top.i THEN "trampoline"
     ELSE IF i = AbsCurrent THEN (IF ctx[i] = Zero THEN "zero" ELSE "stale")
     ELSE IF HandingOver /\ i = Top.old THEN "suspended"
     ELSE IF ctx[i] = Zero THEN "zero"
     ELSE IF ctx[i].frames = <<Run("task", 1)>> THEN "trampoline"
     ELSE "suspended"]

Abstract == INSTANCE Scheduler WITH
  state <- AbsState, pid <- AbsPid, ctx <- AbsCtx, canary <- AbsCanary,
  nextPid <- AbsNextPid, current <- AbsCurrent

Unstruck == ~ stale /\ ~ torn

(* As long as no tick has struck a scan or half-written state, the kernel   *)
(* does what module Scheduler does, kernel_main as it is written included   *)
(* (scheduler.h:15 "give up cpu - switch to next ready process").   *)
ImplementsScheduler ==
  Abstract!Init /\ [][Unstruck' => [Abstract!Next]_(Abstract!vars)]_vars
=============================================================================
