# TLA+ models of XorOS

XorOS is a small preemptive kernel for RV32 (`src/os`) together with the C++
simulator that runs it (`src/rv32i`). This directory holds TLA+ models of its
parts, the TLC configurations that check them on small instances, and proofs,
checked by TLAPS, that hold for every value of the constants.

## 1. The system

### Parts

| Part | Source | State | Operations |
|---|---|---|---|
| Scheduler | `os/src/scheduler.c` | `procs[4]` (state, pid, ctx, stack canary), `next_pid`, `current` | `sched_init`, `sched_spawn`, `sched_yield`, `sched_exit`, `check_canary`, trampoline |
| Context switch | `os/src/sched_switch.S` | 14 words of `ctx` | save old, restore new |
| Trap entry, dispatch | `os/src/trap.S`, `trap.c` | a frame on the interrupted stack, handler tables; `mepc`, `mcause`, `mstatus` | `trap_entry`, `trap_handler`, `ecall_handler`, registration |
| Kernel main | `os/src/kernel_main.c` | the pipe `chan` | boot sequence, `task_a`, `task_b`, `timer_handler` |
| Timer driver | `os/include/clint.h`, `os/src/clint.c` | `g_interval` | `clint_mtime`, `clint_mtimecmp_write`, `clint_init`, `clint_set_next` |
| Pipe | `os/src/pipe.c` | ring of 16 bytes, two positions, `count` | `pipe_init`, `pipe_write`, `pipe_read` |
| Page allocator, virtual memory, spinlock | `os/src/kalloc.c`, `vmem.c`, `os/include/spinlock.h` | bump pointer; page tables; lock word | `kalloc`; `vmem_map`, `vmem_enable`; acquire, release |
| UART, boot, ecall stubs | `os/src/uart.c`, `boot.S`, `os/include/ecall.h` | none | output, start-up, `sys_putchar`, `sys_exit` |
| CPU | `rv32i/include/rv_model.hpp`, `csr_file.hpp`, `register_file.hpp`, `alu.hpp`, `decoder.hpp`, `isa.hpp` | pc, registers, CSRs, privilege mode, halted | `step`, `triggerInterrupt`, traps, `mret`, instructions, page walk |
| Memory | `rv32i/include/memory_model.hpp` | bytes, MMIO regions, one LR/SC reservation | reads and writes of three widths, LR, SC |
| Cache | `rv32i/cache_src/include/cache_model.hpp` | `index_`, `lru_`, counters | the same, in front of memory |
| Main loop | `rv32i/src/main.cpp` | `mtime`, `mtimecmp` | step, count, interrupt |
| LFU and ideal cache | `rv32i/cache_src/include/lfu_cache.hpp`, `ideal_cache.hpp` | key lists by frequency; each key's future uses | `Get`, `Put`; `RunLfu`, `RunIdeal` |
| Builder, disassembler | `instr_builder.hpp`, `disasm.hpp` | none | instruction words; a line of the trace per instruction |
| Dumper, tests | `dumper.hpp`, `tests` | none that matters | text, test programs |

### How they interact

The main loop steps the CPU, counts `mtime` and calls `triggerInterrupt` when
`mtime >= mtimecmp`. If `mstatus.MIE` and `mie.MTIE` are set the CPU enters
`trap_entry`, which pushes a frame on the interrupted stack and calls
`trap_handler`; for the timer that is `timer_handler`, which re-arms the CLINT
and calls `sched_yield`, the same function tasks call voluntarily. So one
process's trap returns only after other processes have run, and whatever is
not in its frame (`mepc`, `mcause`, `mstatus`) is shared by all of them.
Loads and stores go through `CacheModel` to `MemoryModel`, device registers
included. Tasks share `procs[]`, the pipe, `kalloc`'s pages, spinlocks and the
single LR/SC reservation. `step` hands each decoded instruction to a hook that
disassembles it for the trace before it is executed. `lfu_cache.hpp` and
`ideal_cache.hpp` are programs of their own that read the same traces; the
simulator uses neither.

### What is hard

* *Preemption.* The scheduler is not reentrant, yet once `clint_init` has set
  MIE a tick may arrive between any two instructions of it.
* *Traps that switch processes.* Machine state is saved per trap, not per
  process; the privileged registers are not saved at all.
* *Wide device registers.* 64-bit times are read and written as two words
  while they count and while every intermediate value is acted on.
* *Two copies of a word.* Cache and memory, under byte, half and word stores,
  LR/SC, AMO and eviction; and containers that must agree with each other.
* *Locks without a scheduler.* `spinlock_aquire` only spins; whether the
  holder ever runs depends on who may interrupt whom.
* *Several readings of one word.* Executor, disassembler and builder each take
  an instruction apart for themselves.
* *The future, counted twice.* `IdealCache` learns its position in the trace
  from its caller in `Put` and by counting in `Get`.
* *Limits.* Four slots that are never reclaimed, a 508-byte stack, a ring of
  16 bytes, one reservation, pages that are never given back.

The list with lines is under `hazards` in `PROJECT.json`. What makes each
part correct:

* scheduler: one RUNNING process and it is `current`; only contexts that exist
  are resumed; a damaged stack never re-enters the rotation; pids identify;
  no READY process is overtaken;
* kernel under the timer: a saved context is what its own thread was doing;
  one `mepc` suffices because traps never nest across processes; `mret`
  returns where the trap came from; the statements add up to the scheduler, up
  to the ticks the code has no guard against, which are named exactly;
* timer: a time that is read was the time; a deadline is neither early nor lost;
* pipe: a FIFO queue; memory: SC succeeds only on an untouched word; cache:
  invisible to the program; LFU: containers agree, victims are the right ones;
* lock and pages: one holder, and whoever spins gets it; no page given twice;
* ideal cache: what it believes of the future is true, and no cache has more hits;
* CPU: what a trap saved stays intact until its handler changes it, and `mret`
  undoes it; privilege rises only into the handler;
* page tables: the walk finds what was mapped, and never loses the kernel;
* instructions: decoded as they were built, named in the trace as what they are,
  and they compute what they mean and leave the rest alone.

## 2. The modules

| Module | Models | Refines |
|---|---|---|
| `Scheduler` | `scheduler.c`, a call per step | |
| `Kernel` | the same, `sched_switch.S`, `trap.S`, the timer, `spinlock.h` and `kalloc.c`, a statement per step | `Scheduler` |
| `Memory` | loads, stores, LR/SC, AMO of several threads on `MemoryModel` | |
| `Cache` (EXTENDS `Memory`) | the same instructions on `CacheModel` over `MemoryModel` | `Memory` |
| `Hart` | `RVModel` as a trap machine: traps, `mret`, interrupts, CSRs, privilege | |
| `Vmem` | `vmem.c` under the page walk of `translateAddr` | |
| `Alu`, `Isa` | `InstrBuilder`, `Decoder`, the disassembler, `ALU`, `RegisterFile`, and `execute` with its arithmetic, branches, jumps, loads, stores, AMOs and CSR instructions | |
| `Clint` | timer driver and simulated CLINT, word by word | |
| `Fifo` | what `pipe.h` promises | |
| `Pipe` | `pipe.c`, an access per step, writer and reader | `Fifo` |
| `LfuCache` | `lfu_cache.hpp` | |
| `IdealCache` | `ideal_cache.hpp` under `RunIdeal`, beside any rival cache | |
| `Traces` | `LfuCache` under `RunLfu` and `IdealCache` under `RunIdeal` on one trace | `IdealCache` (proved) |
| `MC*` | instances for TLC | |
| `SchedulerProofs`, `KernelProofs`, `CacheProofs`, `HartProofs` (of `Hart` and `Vmem`), `IsaProofs`, `PipeProofs`, `TracesProofs`, `ClintProofs` | theorems | |

Definitions named `..._mutant` are single faults a programmer might make; no
specification uses them. Each property is shown to notice one of them.

### Scheduler

`state`, `pid`, `canary` and `ctx` are the fields of `procs[]`. Of a context
only what resuming it would do is kept: `"zero"` (never written),
`"trampoline"`, `"suspended"` (saved by `context_switch`) or `"stale"`
(resumed since). `Yield` and `YieldAlone` are the two outcomes of
`sched_yield`, `Exit` and `ExitLast` of `sched_exit`; `Panic` is the failing
`check_canary`. `Overflow` is the environment: a task writes over its own
canary. A full table makes `sched_spawn` return -1 without a change of state
and is not a step.

### Kernel

A thread is the stack it runs on. `stk[t]` is the sequence of activations on
that stack, newest first: an entry function at its n-th call, a kernel function
at a label with its locals, or a trap frame. `cpu` is the stack `sp` points
into; `ctx[i]` is a saved stack pointer and return address, that is the thread
it came from (`home`) and what was on its stack (`frames`). `SwitchRestore`
succeeds only when what it loads is still the live content of that stack;
anything else is control flow nobody wrote, `halted = "wild"`, where the model
stops. `Tick` may happen before any step while `mie` holds: the interval of
1000 instructions is longer than a scheduler call, but nothing synchronises
it with one, so every placement of a single tick is real and the model does
not count instructions between ticks.

The scheduler has no guard against a tick inside its own calls. Two history
variables record where one has come. `torn`: at a label of `HalfWritten`, that is
between the publication of a slot and the end of `sched_spawn`, or between the
choice of `next` and the end of the hand-over. `stale`: at a label of
`Scanning`, inside the loops of `sched_yield` and `sched_exit`, which go by
states read in earlier rounds. Nothing is cut there: the model goes on with
what the code then does (contexts saved in the wrong slot, a stack rebuilt
under its thread, a machine that stops beside READY processes). What holds up to
that moment, and what holds regardless, is the subject of the run `kernel` and of
`KernelProofs`. Neither set is larger than it must be: with any one label taken out,
TLC finds `ImplementsScheduler` violated, and with `number`, `canary`, `build`,
`save` or `restore` taken out of `HalfWritten` also `SavedIsExact`.

`sched_spawn` is a step for `state`, `pid` with `next_pid`, the canary and the
context. The stores of `entry`, `ctx.ra` and `ctx.sp` are one step, `SpawnBuild`:
a context that lacks one of the two is resumed into nothing like one that was
never written, and `entry` is only read by the trampoline they lead to.

`sys_putchar` is one step because traps run masked; what it leaves behind
(`mepc`, `mcause`, `mpie`) is what matters. A half-done `context_switch`, some
registers saved and others not, is not modelled: its two halves are steps.
`Programs` is a set of workloads, from which `Init` picks one; a workload says,
call by call, what `main` and the tasks may do. `"spin"` is an endless loop,
`"fault"` an exception other than an ecall: nothing registers a handler for
one, so `trap_handler` ends in `panic_handler`.

`Acquire` is the `amoswap` that finds the lock free; one that finds it taken
writes 1 again and loops, which is no step. `holders` is history: who is
between `spinlock_aquire` and `spinlock_release`. `kalloc` is two steps, the
test of `bump` and its store, because nothing masks interrupts between them;
`pages` is the history of what it returned.

### Memory and Cache

A word is a function from byte lanes to bytes, so byte, half and word accesses
overlap as in the code. `linked` is history: what each thread's last LR saw.
`Switch` is a context switch by `trap.S` and `sched_switch.S`; both store
registers, and every store drops the reservation. In `Cache` the address of a
line is the key of `index_` and the content of `lru_`; only aligned accesses
are modelled (`RVModel` traps on others) and only RAM (`Clint` has the device
side). A read outside RAM (`CachedReadOutside`) evicts its victim before memory
throws (`FetchThrows`); memory, reservation and `rd` stay, and whether the hart
traps or leaves `step()` is `Hart`'s. Reads that write no register
(`CachedRead`) are instruction fetches, page-table entries and the operand of an
AMO whose `funct5` then proves illegal. `storeConditional` leaves `lru_` alone, unlike every other access; the
header promises strict LRU order, but only the hit rate depends on it.

`Cache` extends `Memory` and keeps its variables, `mem` being what
`MemoryModel` holds under the cache; `ImplementsMemory` says that hits, evictions
and write-through are steps of `Memory` on those same variables.

### Hart

One action per kind of instruction that `step()` may find, and one for
`triggerInterrupt`. Registers, memory and counters are left out; what an
instruction finds in them (aligned, mapped, inside memory, legal `funct3`,
taken) is chosen freely, so the program is arbitrary at every privilege. The
order of the checks is the code's: an AMO touches memory before it looks at
`funct5`, and what memory throws leaves `step()` (`ended = "thrown"`), while
loads and stores turn it into a fault. `mstatus` and `mie` are the sets of
their bits. `mret` checks no privilege and may load mode 2, which names no
mode; both are modelled. `mepc` is only written with aligned values, because
`step()` asserts an aligned pc. `handling` is history: the latest trap, until
its handler returns or writes a register that describes it.

### Vmem

`root` is `root_pt[0]`, `table` is `l0_pt`, `paging` the mode bit of `satp`,
`asked` history. Only pages with `vpn[1] = 0` are here, since `vmem.c` drops
`vpn[1]`. The walk checks V, the leaf bits, superpage alignment and U, but
neither R, W nor X against the kind of access: so does the model. A link in the
root names the page of the next table: `WordsAt` is what that page may hold,
`table`'s words if it is `TablePage` and anything at all if not. The walk applies
in machine mode too, so `vmem_map`'s stores reach the tables through the
tables; the guard of `Map` says so, and a kernel that lost its own pages would
stop there. The environment maps the kernel's pages to themselves, as
`vmem_enable`'s callers must. The specification is `VmemSpec`, so that one module
can prove about it and `Hart` together.

### Alu and Isa

Words, fields and immediates of instructions are sets of bit positions, 32
wide as in the code, so slicing and placing bits are set operations. Operands
are words of `XLEN` bits, a power of two, because the shift amount is masked
with `XLEN - 1`; a byte is `XLEN / 4` of them, so a word has its four bytes.
`Table` lists every instruction by the fields that select it, and as `"unknown"`,
the disassembler's word for them, the function codes without a name. `Pow2` is a
recursive function and `Num` the number with given bits, so that the
provers can compute with both. `IsaAssumption` names what is allowed of the constants:
words of 4 to 32 bits (immediates are extended to 32), registers of five bits,
immediates that fit their field, operands that are words.

`extensions` is `config_`, any of `Configs`: M and A are checked where the code
does, A before anything else of an AMO, M by `executeOp` on `funct7`. The
disassembler does not look at them.

`Assemble`, `DecodeWord` (which also writes the line of the trace) and
`ExecuteInstr` are the three stages. `machine` is what one instruction can
see: its registers by number, so that two of its operands may be the same
register or x0; `pc`; and one cell, the word of memory or the CSR that it
addresses. A trap changes nothing but `trap`: where it leads is `Hart`'s
business, and the steps of `LR` and `SC` are `Memory`'s. A text is a sequence
of a name and operands; register and CSR names stand for their numbers.

`Means`, `Takes`, `Loads` and `Stores` are the reference: what each mnemonic
promises, in integer arithmetic and bit by bit, without the operations of
`Alu`. Four points are the code's: the executor tells `srai` by one bit of
`funct7` while the disassembler compares all of it; `lui` and `auipc` are
shown as the upper 20 bits; a `zimm` wider than a word is cut to `XLEN` bits,
which only the small words of the model can notice; and `sfence.vma` is
`Vmem`'s and not in the table.

### Clint

A word is a number below `Base` and a time two of them. `Cached` selects
whether a read of the high word can be answered by `CacheModel`; between two
calls of the driver the handler's own code and data have replaced all lines.
Writes to `mtimecmp` are three separate steps, `Count` may come between any.

### Pipe and Fifo

One writer and one reader, as `task_a` and `task_b`. `preemptive`, chosen once,
says whether they may be switched inside a call. `count++` is a load and a
store with a step between. The refinement maps the ring from `read_pos`,
`count` bytes on, to the queue; a call takes effect when it stores `count`.

### LfuCache

`bucket[f]` is the list of keys used f times, newest first, `minFreq` the
remembered minimum, `touched` history. Frequencies stop at `MaxFreq`, a bound
of the model.

### IdealCache and Traces

`cursor[k]` is the position `access_sequence_[k].current_index` stands for,
`data[k]` the next use kept with a cached key. The length of the trace stands
for `size_t`'s maximum, since no access has that position. `RunIdeal` calls
`Put` on a hit too; a loop like `RunLfu`'s would call `Get`, which counts
accesses by itself, so an access may do either. `unordered_map`'s order decides
between two keys used equally late: any of them may go. `Remove` is never
called. `rival` is a cache of the same capacity that keeps, after each access,
any of what it had and the key it was shown.

`Traces` runs both caches on one input. When the input is empty `LfuCache`
runs alone under calls of every kind, which `RunLfu` would not make.

## 3. What the runs show

| Run | Shows | Bounds |
|---|---|---|
| `scheduler` | the safety properties of the atomic scheduler, no overtaking, every READY process runs | 4 slots, as `MAX_PROCS`: every order of spawn, yield, exit, overflow; all state, no cut |
| `kernel` | one trap frame; `mret` returns home; the lock excludes; pages are distinct, all wherever ticks come. Until one strikes half-written state: contexts are exact, READY processes run and spinners get the lock; until one strikes a scan too, the statements implement `Scheduler` | 4 slots, 2 pages; 7 workloads, below; 160 926 states |
| `kernel_mret` | *violated:* an ecall in a process dispatched by the timer redirects the preempted one | 3 slots |
| `cache` | coherence, container agreement, the single reservation suffices for several threads, `Memory` implemented | 3 words of 2 bytes, 2 interchangeable threads, 2 lines, so that the order of the list picks the victim; the locks of the threads are in one word (`OneReservedWord`) |
| `hart` | trap registers stay intact, `mret` undoes a trap, privilege and machine CSRs are protected | 2 instruction addresses; 3 values of `mtvec`: no handler, and two with and without mode bits; every instruction in every state |
| `vmem` | the walk finds what was last mapped; the kernel stays reachable | 4 entries, 2 own pages, 5 physical pages, 5 sets of flags: every order of maps, remaps and enabling |
| `clint` | time reads and deadline writes are safe across rollovers | 6 values per word, 27 instants: four rollovers |
| `clint_cached` | *violated:* through the cache the rollover check reads its own first value | the same |
| `pipe` | bounded FIFO when calls are not interrupted; `count` in range even when they are | ring of 3, 2 byte values, unbounded number of calls |
| `traces` | `IdealCache` knows the next use of what it holds, no rival and not `LfuCache` is ever ahead of it; `LfuCache`'s four containers agree and ties go to the least recently used | 4 keys, 3 places, all traces of 8 accesses up to renaming of keys, frequencies up to 8; and all orders of calls of `LfuCache` |
| `isa` | every format decodes as built and is named rightly; illegal is what has no name or whose extension is off; results are what the mnemonics mean, nothing else changes | CPUs with each set of extensions; words of 4 bits, all pairs for R-type; immediates that differ from all zeros or all ones in at most 2 bits (1 in the 20-bit fields); 6 triples of registers: every two equal, each x0 |
| `lfu_min` | *violated:* the minimum skips the bucket the promoted key is about to enter | 4 keys, 2 places |

Where a run is marked *violated* the property is a sentence of the repository
and the code does otherwise; `findings` in `PROJECT.json` quotes both.

The workloads of `kernel` (`AllHandOvers`): `Cooperative`, `kernel_main` without
its timer; `TimerDriven`, where `main` arms the timer after the last spawn and
leaves the rest to the ticks; `Preempted`, `kernel_main` as it is written, with the timer
armed before `sched_init` and ticks in every spawn and yield of `main`;
`SpawningTask` and `LateSpawn`, spawns by a task and after tasks have run;
`Locking`, a task that yields inside a critical section while a preempted `main`
waits for it; and `PreemptedLocking`, where the sections themselves allocate,
spawn and yield under ticks.

`ReadyRuns` and `SpinEnds` have two exceptions. One is `torn`: what a half-written
hand-over leaves behind may never run again. The other is `SpinsMasked`: a
thread whose first dispatch was by the timer starts in the trampoline with MIE clear,
as `mret` has not been reached, and if it then spins on a held lock nothing takes
it off the processor.

Four more workloads show what goes wrong, for more than one cause:

* `EcallTasks`: `MretReturnsHome`, the run `kernel_mret`. `mepc` and `mcause` are not
  saved per process.
* `SpinningTasks`: `ReadyRuns`. A task first dispatched by the timer has MIE clear, and
  one that never calls the kernel keeps it so. Under `LockedOut` it spins on a lock:
  without the second exception above `SpinEnds` fails.
* `Allocating`: `PagesDistinct`. A tick between `kalloc`'s test and its store lets
  another task return the same page. `pipe.c`'s `count` is exposed in the same way:
  with `preemptive` set, `Promise!Spec` fails.

Only the first has a run, because a sentence of the repository says otherwise. The
others, and the ticks inside the scheduler, are in the list of hazards.

Why the bounds suffice: the scheduler is checked at its real size. In `Kernel`
four slots, also the real size, give a preempted process, the one that preempts it, a
third that the interrupted call may claim and a slot that is still free. The memory and cache properties
relate one word, the other words that evict or reserve, and two threads; with
two lines and three words the victim depends on the order of `lru_`. A time rolls over one word at a time, and six values leave room for an interval
of three and a read that straddles the carry. A ring of three distinguishes
empty, full and two partial fills at each position. Two addresses tell a trap's
pc from its handler's. In `Vmem` a page can be mapped rightly, wrongly, twice,
and beyond the table's range. Decoding only moves bits, so a set of immediates
in which every bit, and every pair of bits of the short ones, is once unlike
the rest shows every misplaced wire; at 4 bits the least number, -1, zero and
every shift amount occur with every other operand.

`CHECK_DEADLOCK FALSE` is set for `Scheduler` and `Kernel`, where the machine
halts (`sys_exit` executes the all-zero word) or a masked process spins, for
`Clint`, where `mtime` stops at the bound, for `Hart`, which halts or leaves
`step()`, for `Isa`, where an instruction is executed once, and for `Traces`
and `LfuCache`, where the trace ends or frequencies reach `MaxFreq`.
Everything else is checked for deadlock.

`Scheduler`, `Kernel`, `Hart`, `Pipe` and `Clint` have a `TypeOK`. It holds on
these instances, and no run lists it: it guards against slips in the models
and says nothing about the code. For `Scheduler`, `Hart` and `Pipe` it is part
of the inductive invariants proved below; `KernelProofs`, `TracesProofs` and
`ClintProofs` have their own.

### Fairness

`Scheduler`'s `FairSpec` assumes that the running process keeps giving up the
processor, which the atomic level stands for: cooperative tasks return or
yield. `Kernel`'s `FairSpec` assumes that the processor keeps executing and,
separately, that a timer interrupt that stays enabled comes: `mtime` is
counted after every instruction and `timer_handler` re-arms it. Both are weak
fairness and neither prefers a process. `Acquire` is under strong fairness:
`clint_set_next` puts the next tick an interval after the handler, so an
interrupted loop of `spinlock_aquire` gets many rounds before the next tick,
and a lock that is free again and again is met free. `SpinEnds` still depends
on the holder being dispatched, which the model must show.

## 4. What is proved

All theorems hold for any positive number of slots, any capacity, ring size,
set of addresses, bytes, threads and keys, any trace and any word size of the models; the only assumptions are the named
`ASSUME`s of the modules (sizes are positive, zero and one are bytes, words
have 1, 2 or 4 lanes; an address 0 exists and handlers are at addresses; the
kernel's own pages are within the table; the widths of words and fields of `IsaAssumption`), which TLC evaluates in every run that extends them.

*SchedulerProofs.* The inductive invariant joins `TypeOK`, `RunningIsCurrent`,
`ReadyIsResumable`, `OverflowIsCaught` and `PidsUnique` (defined there); they need each other:
a hand-over keeps one process RUNNING only if `current` was RUNNING before it,
and a damaged stack stays put only because the process that has it is
`current`. `ScanReaches` says the scan visits every slot, `PickedIsNearest`
that it stops at the nearest READY one; from these `RoundRobin` proves
`NobodyOvertaken`. `ZombiesStay` proves `ZombieForever` from the same invariant.

*KernelProofs.* Ticks may come anywhere, `kernel_main` as written included. All
theorems assume of the programs `ArmsOnce` (`clint_init` once, by `main`) and
`EcallsEarly` (no ecall after it; the final `sys_exit` halts). `Invariance`, `ContextsAreExact`, `NeverWild`
and `CallsAreAtomic` add `InitsFirst` (`sched_init` once, before the scheduler),
`MutualExclusion` `LocksInPairs`, and `PagesHandedOutOnce` also `AllocatesLocked`.
TLC evaluates all five for every workload of the run `kernel`.

The first part holds whatever the ticks strike, when contexts are no longer
exact, calls of the scheduler interleave, and `sched_spawn` may build a stack anew
under an interrupted thread; so it does not speak of contexts. `Upright` gives the shapes
of a stack one by one, the same for every thread, and says where a `kalloc` can
be waiting. `Armed` follows `main`'s way past `clint_init`. `OneTrap` says that MIE
is clear while some thread is interrupted, that there is one such thread, and
that `mepc` and `mcause` are its own. Each needs the others (`PInv`): the timer
strikes a stack that has no trap frame because of `OneTrap`, and `clint_init`
does not set MIE during an interrupt because `Armed` says that it would be the second.
`TrapsNeverNest` and `MretIsExact` follow. `Held` adds that whoever is in a
section is the holder, whatever became of the stacks, and `Paged`
that a page under way is the next one: a second `kalloc` under way could only be
an interrupted one, which then is in a section like the first (`NoOther`).

The second part is what holds until a tick strikes half-written state. `IInv` joins
`PInv`, `Typed` and, unless `torn`, either `Booting` (before `sched_init`) or `Intact`,
the conjunction of: `Suspended`, every context but the running thread's
is the content of its stack; `Placed`, which slot is RUNNING and which `current`, at each label of a hand-over;
`Knows` and `Owned`, what the locals of each label refer to; `Past`, that `main` is past
`sched_init`; and `Buried`, that no activation below the top of
a stack is at a label of `HalfWritten`, nor, unless `stale`, of `Scanning`.
`Buried` is what lets ticks into the calls: a call that was interrupted
had read nothing it goes by, or written all it writes, so it can be
resumed however many others came between. A tick that finds the top at any other label
keeps `Intact` (`TickIntact`), and each statement does (`StepIntact` reduces it to what that statement
writes). None of the parts is inductive alone: a context is the content of its
stack only because its thread left the processor at the end of a hand-over, which
`Placed` and `Buried` say.
`NeverWild` says that no stack pointer, `ra` or `mepc` is loaded that was not
saved for it. `CallsAreAtomic` is the refinement of `Scheduler`: a spawn happens
when its slot is published, a yield when `next` is chosen, an exit when its scan ends,
and every other step, ticks included, is a stutter (`QuietSteps`).

*CacheProofs.* For `Memory`, `ReservationIsMine` with a typing invariant is inductive:
each instruction that changes memory or the running thread drops the reservation,
and `ScAtomic` follows at once. `Coherent` needs to know that lines and memory are words.
`Transparent` proves the refinement: what `fetchWord` returns is what memory
holds (`FetchedIsMem`), so every step of the cached machine is a step of
`Memory` on the same variables. `ListNamesLines` proves `LinesAgree`: the lemmas
`MoveToFrontKeeps`, `PushFrontAdds` and `FrontDrops` say what the three
operations on `lru_` do to its elements, and `FetchKeepsLInv` that the index
follows, an evicted word leaving both, also when memory then throws.

*HartProofs.* `TrapIntact` is inductive with `TypeOK` and
`LowerModesReturnToUser`: below machine mode MPP names user mode, so that an
`mret` executed there, which nothing forbids, cannot raise the privilege.
`FireTrapKeepsIInv` is the lemma every instruction that may trap rests on. The
action properties `MretRestores`, `PrivilegeRises` and `MachineCsrsProtected`
follow from one step and the invariant.

The second part is about `Vmem`. Its invariant (`VmemIInv`) says that the root is empty or links to the table
(`Linked`), that the table holds what was asked (`WordsAsAsked`), and that the own
pages are mapped to themselves (`OwnKept`) before paging is on
(`OwnBeforePaging`). The walk of a linked table is then a look-up
(`MapIsFound`), and the kernel's own pages are never lost
(`KernelStaysReachable`).

*PipeProofs.* `CountHolds` says that a call past its test still has the byte,
or the room, it found, because the other task only adds bytes or only takes
them; with it `CountBounded` holds even under preemption. `PositionsHold`
counts a position that has moved ahead of `count`; `OneStory` is its case
between calls. `RingStep` is the arithmetic of one step round the ring.
`CallsAreFifo` is the refinement of `Fifo`: while a call is under way its byte is
in the ring, the writer's just behind the counted ones and the reader's at
`Oldest` (`CarriedHolds`), so the store of `count` appends or removes exactly it
and no other step changes `Queue` (`WriterImplements`, `ReaderImplements`).

*TracesProofs.* `KnowsNextUse` says that no cursor is ahead of its key's next
use, that `index` is one access behind whenever `Get` may use it, and that the
next uses in `data` are true; `AccessEffect` gives, for each way an access can
go, what is held afterwards. `NobodyBeatsIdeal` is stated as the exchange
argument needs it: not only hits so far are compared but also those that what
is held now will bring up to any later position `d`. After an access of k any
cache's prospects grow at most by the next use of k (`AnyGains`); the ideal
cache's grow by the same, unless it is full and all it holds is due by `d`,
which no cache of that capacity can exceed (`IdealGains`). `AccessKeepsAhead` puts
the two together for whatever is compared: `rival` in `IdealCache`, and `LfuCache`
itself in `Traces`, of which only its contents and capacity matter
(`LfuLosesToBelady`). `TracesRunsIdeal` carries the theorems on `IdealCache` over to
the specification the run checks. `LfuContainersAgree` rests on `LfuOf`: a key is in
the list of its frequency, once, and in no other; no list is kept empty; `size`
counts the keys; and each list is ordered by last use. The order makes
`OldestGoes`: the last of the list of the minimum is the one unused for longest.

*ClintProofs.* `Words`, `JoinWords` and `HiMonotone` are the arithmetic of two
words. `Storing` says how far the three stores have come: from the first one
on the high word is the greatest, and a time with that high word is never
reached (`MaxIsFar`). `Reading` keeps a witness for the low word; a high word
that is the same before and after is that of the witness. `ReadsOneTime` needs
`~ Cached`, as the finding of `clint_cached` shows.

*IsaProofs.* `IInv` says of each stage that its result is the one of the operator
it runs, on the instruction and machine it started from (TLC found it to hold on
`MCIsa`'s instance before it was proved). The rest is about operators, for all registers, immediates and operands.

`Pow2` is a recursive function; that it satisfies its equation is itself proved
(`Pow2IsFunction`), by induction. The library's induction theorem takes a predicate,
which the provers cannot instantiate; `Induction` states it of a set of numbers,
from `WFMin`, and serves for exponents, for bits and for words. `SameBits` and
`SomeBits` say that a number of n bits is its set of bits and that every set is one,
so `Num` is well defined. On these rests `OperationMeans`: every operation of
the ALU gives a word, the one its names stand for; the upper half of a signed
product (`SignedMulMeans`) and the one division that overflows (`OverflowMeans`)
were the delicate ones.

`DecodeBuild` is the identity of decoder after encoder, by `InBuild`: a bit of the
word belongs to one field, and no two fields of a format share one. The immediate
comes back because its shape says that what the format drops was its sign or
zero (`ImmShape`, `ImmRead`). slli, srli and srai are built with the shift amount in rs2
and decoded with it in an immediate (`ShamtRead`): only the low bits of both agree,
and the ALU looks at no others (`ShamtSame`). `MnemonicRead` and `OperandsRead` follow
the disassembler through the same tables.

`Outcome` is what execution may come to: a trap that changed nothing, "illegal" only
for what has no name or whose extension is off, or an `Effect`: a result in rd, the cell and `pc` that mean
what the name says. There is a lemma per opcode (`OpOutcome` to `StoreOutcome`);
`AfterSame` covers x0 and registers that coincide. `SpecComputesMeaning` and
`SpecLeavesRestAlone` follow from `Outcome` alone, `SpecTraceNamesInstr` from it and `TextRead`.

Only model-checked: liveness (`ReadyRuns` and `SpinEnds`, under the fairness of
section 3), which is outside the provers. Every safety property and action
property of the passing runs is also a theorem, those of `Kernel` for programs
that keep to the assumptions named above, as `kernel_main` does.

## 5. Plan

Order: what the kernel's processes depend on first.

1. Done: `Scheduler`, `Kernel` with `spinlock.h` and `kalloc.c`, `Memory`,
   `Cache`, `Clint`, `Pipe`, `LfuCache`, `IdealCache`, `Hart`, `Vmem`, `Alu` and
   `Isa`, with the theorems above.
2. Joining `Hart` and `Kernel`: the handler as `trap.S` writes it, so that
   `handling` becomes the frame.
3. `Isa` at 64 bits, with immediates extended beyond position 31.

### Not modelled

* `dumper.hpp`, and of the disassembler everything but names and operands:
  text for people, on which nothing depends.
* The UART: output only. `boot.S` only sets `sp`, `gp`, `mtvec`, `mstatus` and `mepc`
  and jumps to `kernel_main`; that memory outside the image is zero is the
  simulator's doing (`MemoryModel`), and the initial states rest on it.
* Command lines, `loadProgram` and file reading: input from outside, checked once
  at the start and never again.
* `RVModel`'s `save` and `restore` of a context, which no program calls, and
  its move constructor, which leaves `priv_mode_` behind but is never used.
* `IdealCache::Remove`, which nothing calls.
* The branch of `RunIdeal` for malformed input, where `elements` stays shorter than
  `element_count` (`ideal_cache.cpp:42`): a trace of the model is whole.
* The tests, which are read for what they intend.
