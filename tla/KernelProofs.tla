----------------------------- MODULE KernelProofs -----------------------------
(***************************************************************************)
(* Machine-checked proofs about module Kernel, for every number of slots    *)
(* and pages, every number of ticks wherever they come, and every program   *)
(* that keeps to the conditions each theorem names, kernel_main as it is    *)
(* written among them.                                                      *)
(*                                                                         *)
(* First the stacks, one at a time, from which traps, the lock and the page *)
(* allocator follow, whatever the ticks do to the scheduler; then contexts  *)
(* and the processor's owner, up to the first tick that strikes half-       *)
(* written state; last the refinement of module Scheduler.                  *)
(***************************************************************************)
EXTENDS Kernel, SequenceTheorems, TLAPS

CallFrames  == [at : Labels \ {"bump"}, old : Slots, i : Nat]
AllocFrames == [at : {"bump"}, old : {0}, i : Nat]

Pushed(f, s) == <<f>> \o s
Members(s)   == { s[n] : n \in 1 .. Len(s) }
Lowest(s)    == s[Len(s)]

Entered(t) == Lowest(stk[t])            \* the entry function's activation

----------------------------------------------------------------------------
(* Sequences, as stacks are built and taken apart.                          *)
LEMMA PushIs ==
  ASSUME NEW S, NEW f \in S, NEW u \in Seq(S)
  PROVE  /\ Pushed(f, u) \in Seq(S) /\ Pushed(f, u) # <<>>
         /\ Len(Pushed(f, u)) = Len(u) + 1
         /\ Head(Pushed(f, u)) = f /\ Tail(Pushed(f, u)) = u
         /\ Members(Pushed(f, u)) = {f} \cup Members(u)
         /\ u # <<>> => Lowest(Pushed(f, u)) = Lowest(u)
<1> DEFINE s == Pushed(f, u)
<1>1. /\ Len(u) \in Nat /\ s \in Seq(S) /\ Len(s) = Len(u) + 1
      /\ \A n \in 1 .. Len(u) + 1 : s[n] = IF n <= 1 THEN f ELSE u[n - 1]
  <2>1. <<f>> \in Seq(S) /\ Len(<<f>>) = 1 /\ <<f>>[1] = f
    OBVIOUS
  <2> QED
    BY <2>1, ConcatProperties, LenProperties DEF Pushed
<1>2. s # <<>> /\ Head(s) = f
  <2>1. s # <<>>
    BY <1>1
  <2>2. Head(s) = s[1]
    BY <1>1, <2>1, HeadTailProperties
  <2> QED
    BY <1>1, <2>1, <2>2
<1>3. Tail(s) = u
  <2>1. /\ Tail(s) \in Seq(S) /\ Len(Tail(s)) = Len(s) - 1
        /\ \A n \in 1 .. Len(Tail(s)) : Tail(s)[n] = s[n + 1]
    BY <1>1, <1>2, HeadTailProperties
  <2> HIDE DEF s
  <2>2. Len(Tail(s)) = Len(u)
    BY <1>1, <2>1
  <2>3. \A n \in 1 .. Len(u) : Tail(s)[n] = u[n]
    BY <1>1, <2>1, <2>2
  <2> QED
    BY <2>1, <2>2, <2>3, SeqEqual
<1> HIDE DEF s
<1>4. Members(s) = {f} \cup Members(u)
  <2>1. ASSUME NEW n \in 1 .. Len(u) + 1 PROVE s[n] \in {f} \cup Members(u)
    BY <1>1 DEF Members
  <2>2. f \in Members(s)
    BY <1>1 DEF Members
  <2>3. ASSUME NEW n \in 1 .. Len(u) PROVE u[n] \in Members(s)
    <3>1. n + 1 \in 1 .. Len(s) /\ s[n + 1] = u[n]
      BY <1>1
    <3> QED
      BY <3>1 DEF Members
  <2> QED
    BY <1>1, <2>1, <2>2, <2>3 DEF Members
<1>5. u # <<>> => Lowest(s) = Lowest(u)
  <2>1. u # <<>> => Len(u) > 0
    BY EmptySeq
  <2> QED
    BY <1>1, <2>1 DEF Lowest
<1> QED
  BY <1>1, <1>2, <1>3, <1>4, <1>5 DEF s

LEMMA OneIs ==
  ASSUME NEW S, NEW f \in S
  PROVE  /\ <<f>> \in Seq(S) /\ <<f>> # <<>>
         /\ Head(<<f>>) = f /\ Tail(<<f>>) = <<>>
         /\ Members(<<f>>) = {f} /\ Lowest(<<f>>) = f
         /\ Pushed(f, <<>>) = <<f>>
<1>1. <<f>> \in Seq(S) /\ Len(<<f>>) = 1 /\ <<f>>[1] = f /\ <<f>> # <<>>
  OBVIOUS
<1>2. Members(<<f>>) = {f} /\ Lowest(<<f>>) = f
  BY <1>1 DEF Members, Lowest
<1>3. Pushed(f, <<>>) = <<f>>
  BY <1>1, ConcatEmptySeq DEF Pushed
<1>4. Head(<<f>>) = f /\ Tail(<<f>>) = <<>>
  <2>1. <<>> \in Seq(S)
    OBVIOUS
  <2> QED
    BY <1>3, <2>1, PushIs
<1> QED
  BY <1>1, <1>2, <1>3, <1>4

LEMMA TwoIs ==
  ASSUME NEW S, NEW f \in S, NEW g \in S, NEW u \in Seq(S)
  PROVE  <<f, g>> \o u = Pushed(f, Pushed(g, u))
<1>1. <<f>> \in Seq(S) /\ <<g>> \in Seq(S) /\ <<f, g>> = <<f>> \o <<g>>
  <2>1. /\ <<f>> \in Seq(S) /\ <<g>> \in Seq(S) /\ <<f, g>> \in Seq(S)
        /\ Len(<<f>>) = 1 /\ Len(<<g>>) = 1 /\ Len(<<f, g>>) = 2
        /\ <<f>>[1] = f /\ <<g>>[1] = g /\ <<f, g>>[1] = f /\ <<f, g>>[2] = g
    OBVIOUS
  <2> DEFINE x == <<f, g>>
             y == <<f>> \o <<g>>
  <2>2. y \in Seq(S) /\ Len(y) = 2 /\ y[1] = f /\ y[2] = g
    BY <2>1, ConcatProperties
  <2>3. x \in Seq(S) /\ Len(x) = 2 /\ x[1] = f /\ x[2] = g
    BY <2>1
  <2> HIDE DEF x, y
  <2>4. x = y
    BY <2>2, <2>3, SeqEqual
  <2> QED
    BY <2>1, <2>4 DEF x, y
<1> QED
  BY <1>1, ConcatAssociative DEF Pushed

LEMMA PushTwo ==
  ASSUME NEW S, NEW f \in S, NEW g \in S
  PROVE  <<f, g>> \o <<>> = Pushed(f, <<g>>)
<1>1. PICK e \in Seq(S) : e = <<>>
  <2>1. <<>> \in Seq(S)
    OBVIOUS
  <2> QED
    BY <2>1
<1>2. Pushed(g, e) = <<g>>
  BY <1>1, OneIs
<1>3. <<f, g>> \o e = Pushed(f, Pushed(g, e))
  BY TwoIs
<1> QED
  BY <1>1, <1>2, <1>3

LEMMA CallFrameIs ==
  ASSUME NEW a \in Labels \ {"bump"}, NEW o \in Slots, NEW n \in Nat
  PROVE  /\ Frame(a, o, n) \in CallFrames
         /\ Frame(a, o, n).at = a /\ Frame(a, o, n).old = o /\ Frame(a, o, n).i = n
BY DEF Frame, CallFrames

(* Slot numbers the scans compute.                                          *)
LEMMA NextSlot ==
  ASSUME NEW c \in Slots, NEW n \in Nat
  PROVE  (c + n) % MaxProcs \in Slots
BY KernelAssumption DEF Slots

(* Going on to the next call enters a section only by a lock, and keeps one *)
(* except by an unlock.                                                     *)
LEMMA NextSection ==
  ASSUME NEW p, LocksInPairs(p), NEW g \in {"main", "task"},
         p[g] \in Seq(SUBSET Ops), NEW o \in 1 .. Len(p[g]), NEW op \in p[g][o]
  PROVE  /\ InSection(p, g, o + 1) /\ op # "lock" => InSection(p, g, o) /\ op # "unlock"
         /\ InSection(p, g, o) /\ op # "unlock" => InSection(p, g, o + 1)
         /\ op = "unlock" => InSection(p, g, o)
<1>1. /\ "lock"   \in p[g][o] => op = "lock"
      /\ "unlock" \in p[g][o] => op = "unlock" /\ InSection(p, g, o)
      /\ o \in Nat
  <2>1. "lock" \in p[g][o] => p[g][o] = {"lock"}
    BY DEF LocksInPairs
  <2>2. "unlock" \in p[g][o] => p[g][o] = {"unlock"} /\ InSection(p, g, o)
    BY DEF LocksInPairs
  <2> QED
    BY <2>1, <2>2
<1>2. ASSUME InSection(p, g, o + 1), op # "lock"
      PROVE  InSection(p, g, o) /\ op # "unlock"
  <2>1. PICK k \in 1 .. o : "lock" \in p[g][k] /\ \A j \in k + 1 .. o : "unlock" \notin p[g][j]
    BY <1>1, <1>2 DEF InSection
  <2>2. k # o
    BY <1>1, <1>2, <2>1
  <2>3. k \in 1 .. o - 1 /\ o \in k + 1 .. o /\ \A j \in k + 1 .. o - 1 : j \in k + 1 .. o
    BY <1>1, <2>1, <2>2
  <2> QED
    BY <2>1, <2>3 DEF InSection
<1>3. ASSUME InSection(p, g, o), op # "unlock"
      PROVE  InSection(p, g, o + 1)
  <2>1. PICK k \in 1 .. o - 1 : "lock" \in p[g][k] /\ \A j \in k + 1 .. o - 1 : "unlock" \notin p[g][j]
    BY <1>3 DEF InSection
  <2>2. \A j \in k + 1 .. o : j = o \/ j \in k + 1 .. o - 1
    BY <1>1, <2>1
  <2>3. "unlock" \notin p[g][o]
    BY <1>1, <1>3
  <2>4. k \in 1 .. o + 1 - 1 /\ o + 1 - 1 = o
    BY <1>1, <2>1
  <2> QED
    BY <2>1, <2>2, <2>3, <2>4 DEF InSection
<1> QED
  BY <1>1, <1>2, <1>3

(* Where the trap frames are.                                               *)
LEMMA PushedAt ==
  ASSUME NEW S, NEW f \in S, NEW u \in Seq(S), NEW n \in DOMAIN Pushed(f, u)
  PROVE  \/ n = 1 /\ Pushed(f, u)[n] = f
         \/ n - 1 \in DOMAIN u /\ n \in Nat /\ Pushed(f, u)[n] = u[n - 1]
<1>1. <<f>> \in Seq(S) /\ Len(<<f>>) = 1 /\ <<f>>[1] = f
  OBVIOUS
<1>2. /\ Pushed(f, u) \in Seq(S) /\ Len(Pushed(f, u)) = Len(u) + 1 /\ Len(u) \in Nat
      /\ \A m \in 1 .. Len(u) + 1 : Pushed(f, u)[m] = IF m <= 1 THEN f ELSE u[m - 1]
  BY <1>1, ConcatProperties, LenProperties DEF Pushed
<1>3. n \in 1 .. Len(u) + 1 /\ DOMAIN u = 1 .. Len(u)
  BY <1>2, LenProperties
<1> QED
  BY <1>2, <1>3

TrapsIn(s) == { n \in DOMAIN s : s[n].at = "trap" }

----------------------------------------------------------------------------
(***************************************************************************)
(* The stacks, one at a time.  Once the timer is armed ticks come between   *)
(* any two statements of the scheduler, contexts may be saved in the wrong  *)
(* place and a slot's stack may be built anew while its thread is           *)
(* interrupted.  What the stacks look like, where interrupts are and who    *)
(* holds the lock does not depend on which thread a context belongs to.     *)
(*                                                                          *)
(* Any thread may be interrupted, so the shapes are the same for all of     *)
(* them: at rest in an entry function, in a call of it, struck by the timer *)
(* in either, and in a call of the scheduler that the timer's handler made. *)
(***************************************************************************)
AnyRun   == [at : {"run"}, prog : {"main", "task"}, op : Nat \ {0}]
AnyCall  ==
  { k \in CallFrames :
      k.at \in HalfWritten => k.i \in Slots }
AnyFrame == AnyRun \cup AnyCall \cup AllocFrames \cup {TrapFrame}

Resting  == { <<r>> : r \in AnyRun }
Calling  == UNION { { Pushed(k, e) : e \in Resting } : k \in AnyCall \cup AllocFrames }
Free     == Resting \cup Calling
Struck   == { Pushed(TrapFrame, u) : u \in Free }
Nested   == UNION { { Pushed(k, u) : u \in Struck } : k \in AnyCall }
AnyStack == Free \cup Struck \cup Nested

Taken(s) == { f \in Members(s) : f.at = "bump" }   \* kalloc under way
Hit(s)   == TrapFrame \in Members(s)
Live(t)  == stk[t] # <<>>

(* Every stack in use has one of these shapes, a context has been written   *)
(* by some thread, and only kalloc that was interrupted waits.              *)
Upright ==
  /\ cpu \in Slots /\ current \in Slots /\ program \in Programs
  /\ stk = [t \in Slots |-> stk[t]] /\ ctx = [t \in Slots |-> ctx[t]]
  /\ Live(cpu)
  /\ \A t \in Slots : Live(t) =>
       /\ stk[t] \in AnyStack
       /\ Taken(stk[t]) = {} \/ Hit(stk[t]) \/ (t = cpu /\ Top.at = "bump")
       /\ Entered(t).prog = "main" => t = 0
  /\ \A t \in Slots : ctx[t] = Zero \/ (ctx[t].home \in Slots /\ ctx[t].frames # <<>>)

(* A thread between aquire and release is the lock's only holder.           *)
Held ==
  /\ LockExcludes
  /\ \A t \in Slots : Live(t) /\ InSection(program, Entered(t).prog, Entered(t).op) => t \in holders

(* Interrupts are on, or one is under way, only after main's clint_init.    *)
Armed ==
  mie \/ (\E t \in Slots : Live(t) /\ Hit(stk[t])) =>
    /\ Arms(program)
    /\ Live(0) /\ Entered(0).prog = "main" =>
         \E k \in 1 .. Entered(0).op - 1 : k <= Len(program["main"]) /\ "arm" \in program["main"][k]

(* One thread at most is interrupted, MIE is clear until it returns, and    *)
(* mepc and mcause are still its own.                                       *)
OneTrap ==
  /\ \A t \in Slots : Live(t) /\ Hit(stk[t]) => ~ mie /\ mepc = t /\ mcause = "timer"
  /\ \A t, u \in Slots : Live(t) /\ Live(u) /\ Hit(stk[t]) /\ Hit(stk[u]) => t = u

(* The page a kalloc under way is about to return is the next one, and with *)
(* the timer armed its thread is in a section.                              *)
Paged ==
  /\ bump \in Nat /\ pages \in Seq(Nat) /\ bump <= KallocPages
  /\ \A m, n \in 1 .. Len(pages) : pages[m] = pages[n] => m = n
  /\ \A m \in 1 .. Len(pages) : pages[m] < bump
  /\ \A t \in Slots : Live(t) =>
       \A f \in Taken(stk[t]) :
         /\ f.i = bump /\ bump < KallocPages
         /\ Arms(program) => InSection(program, Entered(t).prog, Entered(t).op)

PInv == Upright /\ Armed /\ OneTrap /\ bump \in Nat

LEMMA RestingIs ==
  ASSUME NEW e \in Resting
  PROVE  /\ e \in Seq(AnyFrame) /\ e # <<>> /\ e = <<Head(e)>>
         /\ Head(e) \in AnyRun /\ Lowest(e) = Head(e)
         /\ Taken(e) = {} /\ ~ Hit(e) /\ e \in AnyStack
<1>1. PICK r \in AnyRun : e = <<r>>
  BY DEF Resting
<1>2. r \in AnyFrame /\ r.at = "run" /\ TrapFrame.at = "trap"
  BY DEF AnyFrame, AnyRun, TrapFrame
<1>3. /\ e \in Seq(AnyFrame) /\ e # <<>> /\ Head(e) = r /\ Members(e) = {r} /\ Lowest(e) = r
  BY <1>1, <1>2, OneIs
<1> QED
  BY <1>1, <1>2, <1>3 DEF Taken, Hit, AnyStack, Free

LEMMA PushedIs ==
  ASSUME NEW k \in AnyFrame, NEW u \in Seq(AnyFrame), u # <<>>
  PROVE  /\ Pushed(k, u) \in Seq(AnyFrame) /\ Pushed(k, u) # <<>>
         /\ Head(Pushed(k, u)) = k /\ Tail(Pushed(k, u)) = u
         /\ Lowest(Pushed(k, u)) = Lowest(u)
         /\ Taken(Pushed(k, u)) = Taken(u) \cup (IF k.at = "bump" THEN {k} ELSE {})
         /\ Hit(Pushed(k, u)) <=> k = TrapFrame \/ Hit(u)
<1>1. /\ Pushed(k, u) \in Seq(AnyFrame) /\ Pushed(k, u) # <<>>
      /\ Head(Pushed(k, u)) = k /\ Tail(Pushed(k, u)) = u
      /\ Lowest(Pushed(k, u)) = Lowest(u)
      /\ Members(Pushed(k, u)) = {k} \cup Members(u)
  BY PushIs, ZenonT(60)
<1> QED
  BY <1>1 DEF Taken, Hit

LEMMA CallingIs ==
  ASSUME NEW c \in Calling
  PROVE  /\ c \in Seq(AnyFrame) /\ c # <<>> /\ c = Pushed(Head(c), Tail(c))
         /\ Head(c) \in AnyCall \cup AllocFrames /\ Tail(c) \in Resting
         /\ Lowest(c) = Lowest(Tail(c))
         /\ Taken(c) = IF Head(c).at = "bump" THEN {Head(c)} ELSE {}
         /\ ~ Hit(c) /\ c \in AnyStack
<1>1. PICK k \in AnyCall \cup AllocFrames, e \in Resting : c = Pushed(k, e)
  BY DEF Calling
<1>2. k \in AnyFrame /\ k # TrapFrame
  <2>1. k.at # "trap" /\ TrapFrame.at = "trap"
    BY DEF AnyCall, CallFrames, AllocFrames, Labels, TrapFrame
  <2> QED
    BY <2>1 DEF AnyFrame
<1>3. e \in Seq(AnyFrame) /\ e # <<>> /\ Taken(e) = {} /\ ~ Hit(e)
  BY RestingIs
<1>4. /\ Pushed(k, e) \in Seq(AnyFrame) /\ Pushed(k, e) # <<>>
      /\ Head(Pushed(k, e)) = k /\ Tail(Pushed(k, e)) = e
      /\ Lowest(Pushed(k, e)) = Lowest(e)
      /\ Taken(Pushed(k, e)) = Taken(e) \cup (IF k.at = "bump" THEN {k} ELSE {})
      /\ Hit(Pushed(k, e)) <=> k = TrapFrame \/ Hit(e)
  BY <1>2, <1>3, PushedIs
<1>5. c \in AnyStack
  BY DEF AnyStack, Free
<1> QED
  BY <1>1, <1>2, <1>3, <1>4, <1>5

LEMMA FreeIs ==
  ASSUME NEW u \in Free
  PROVE  /\ u \in Seq(AnyFrame) /\ u # <<>> /\ ~ Hit(u) /\ u \in AnyStack
         /\ Lowest(u) \in AnyRun
         /\ Head(u).at = "bump" \/ Taken(u) = {}
BY RestingIs, CallingIs DEF Free

LEMMA StruckIs ==
  ASSUME NEW s \in Struck
  PROVE  /\ s \in Seq(AnyFrame) /\ s # <<>> /\ s = Pushed(TrapFrame, Tail(s))
         /\ Head(s) = TrapFrame /\ Tail(s) \in Free
         /\ Lowest(s) = Lowest(Tail(s)) /\ Taken(s) = Taken(Tail(s))
         /\ Hit(s) /\ s \in AnyStack
<1>1. PICK u \in Free : s = Pushed(TrapFrame, u)
  BY DEF Struck
<1>2. TrapFrame \in AnyFrame /\ TrapFrame.at # "bump"
  BY DEF AnyFrame, TrapFrame
<1>3. u \in Seq(AnyFrame) /\ u # <<>>
  BY FreeIs
<1>4. /\ Pushed(TrapFrame, u) \in Seq(AnyFrame) /\ Pushed(TrapFrame, u) # <<>>
      /\ Head(Pushed(TrapFrame, u)) = TrapFrame /\ Tail(Pushed(TrapFrame, u)) = u
      /\ Lowest(Pushed(TrapFrame, u)) = Lowest(u)
      /\ Taken(Pushed(TrapFrame, u)) = Taken(u) \cup (IF TrapFrame.at = "bump" THEN {TrapFrame} ELSE {})
      /\ Hit(Pushed(TrapFrame, u)) <=> TrapFrame = TrapFrame \/ Hit(u)
  BY <1>2, <1>3, PushedIs
<1>5. s \in AnyStack
  BY DEF AnyStack
<1> QED
  BY <1>1, <1>2, <1>3, <1>4, <1>5

(* A call, of anything but kalloc, on a stack that allows one.              *)
LEMMA CallOn ==
  ASSUME NEW k \in AnyCall, NEW u \in Resting \cup Struck
  PROVE  /\ Pushed(k, u) \in AnyStack /\ Pushed(k, u) # <<>>
         /\ Head(Pushed(k, u)) = k /\ Tail(Pushed(k, u)) = u
         /\ Lowest(Pushed(k, u)) = Lowest(u)
         /\ Taken(Pushed(k, u)) = Taken(u) /\ (Hit(Pushed(k, u)) <=> Hit(u))
<1>1. k \in AnyFrame /\ k.at # "bump" /\ k # TrapFrame
  <2>1. k.at \notin {"trap", "bump"} /\ TrapFrame.at = "trap"
    BY DEF AnyCall, CallFrames, Labels, TrapFrame
  <2> QED
    BY <2>1 DEF AnyFrame
<1>2. u \in Seq(AnyFrame) /\ u # <<>>
  BY RestingIs, StruckIs
<1>3. /\ Pushed(k, u) # <<>>
      /\ Head(Pushed(k, u)) = k /\ Tail(Pushed(k, u)) = u
      /\ Lowest(Pushed(k, u)) = Lowest(u)
      /\ Taken(Pushed(k, u)) = Taken(u) \cup (IF k.at = "bump" THEN {k} ELSE {})
      /\ Hit(Pushed(k, u)) <=> k = TrapFrame \/ Hit(u)
  BY <1>1, <1>2, PushedIs
<1>4. Pushed(k, u) \in AnyStack
  BY DEF AnyStack, Free, Calling, Nested
<1> QED
  BY <1>1, <1>3, <1>4

LEMMA NestedIs ==
  ASSUME NEW s \in Nested
  PROVE  /\ s # <<>> /\ s = Pushed(Head(s), Tail(s))
         /\ Head(s) \in AnyCall /\ Tail(s) \in Struck
         /\ Lowest(s) = Lowest(Tail(s)) /\ Taken(s) = Taken(Tail(s))
         /\ Hit(s) /\ s \in AnyStack
<1>1. PICK k \in AnyCall, u \in Struck : s = Pushed(k, u)
  BY DEF Nested
<1>2. /\ Pushed(k, u) \in AnyStack /\ Pushed(k, u) # <<>>
      /\ Head(Pushed(k, u)) = k /\ Tail(Pushed(k, u)) = u
      /\ Lowest(Pushed(k, u)) = Lowest(u)
      /\ Taken(Pushed(k, u)) = Taken(u) /\ (Hit(Pushed(k, u)) <=> Hit(u))
  BY CallOn
<1> QED
  BY <1>1, <1>2, StruckIs

(* What the newest activation tells of the ones under it.                   *)
LEMMA AnyStackIs ==
  ASSUME NEW s \in AnyStack
  PROVE  /\ s # <<>> /\ Lowest(s) \in AnyRun
         /\ Head(s).at = "run"  => s \in Resting
         /\ Head(s).at = "bump" => s \in Calling /\ Head(s) \in AllocFrames
         /\ Head(s).at = "trap" => s \in Struck
         /\ Head(s).at \in Labels \ {"bump"} =>
              /\ Head(s) \in AnyCall /\ Tail(s) \in Resting \cup Struck
              /\ Lowest(s) = Lowest(Tail(s)) /\ Taken(s) = Taken(Tail(s))
              /\ Hit(s) <=> Hit(Tail(s))
         /\ Head(s).at \in Labels \cup {"run", "trap"}
         /\ Hit(s) => s \in Struck \cup Nested
<1>1. ASSUME s \in Resting
      PROVE  Head(s).at = "run" /\ ~ Hit(s) /\ s # <<>> /\ Lowest(s) \in AnyRun
  BY <1>1, RestingIs DEF AnyRun
<1>2. ASSUME s \in Calling
      PROVE  /\ ~ Hit(s) /\ s # <<>> /\ Lowest(s) \in AnyRun
             /\ \/ Head(s).at = "bump" /\ Head(s) \in AllocFrames
                \/ /\ Head(s).at \in Labels \ {"bump"} /\ Head(s) \in AnyCall
                   /\ Tail(s) \in Resting \cup Struck
                   /\ Lowest(s) = Lowest(Tail(s)) /\ Taken(s) = Taken(Tail(s))
                   /\ Hit(s) <=> Hit(Tail(s))
  <2>1. /\ Head(s) \in AnyCall \cup AllocFrames /\ Tail(s) \in Resting /\ ~ Hit(s) /\ s # <<>>
        /\ Lowest(s) = Lowest(Tail(s)) /\ Taken(s) = IF Head(s).at = "bump" THEN {Head(s)} ELSE {}
    BY <1>2, CallingIs
  <2>2. Lowest(Tail(s)) \in AnyRun /\ Taken(Tail(s)) = {} /\ ~ Hit(Tail(s))
    BY <2>1, RestingIs
  <2>3. /\ Head(s) \in AllocFrames => Head(s).at = "bump"
        /\ Head(s) \in AnyCall => Head(s).at \in Labels \ {"bump"}
    BY DEF AllocFrames, AnyCall, CallFrames
  <2> QED
    BY <2>1, <2>2, <2>3
<1>3. ASSUME s \in Struck
      PROVE  Head(s).at = "trap" /\ s # <<>> /\ Lowest(s) \in AnyRun
  BY <1>3, StruckIs, FreeIs DEF TrapFrame
<1>4. ASSUME s \in Nested
      PROVE  /\ Head(s).at \in Labels \ {"bump"} /\ Head(s) \in AnyCall /\ s # <<>>
             /\ Tail(s) \in Resting \cup Struck /\ Lowest(s) \in AnyRun
             /\ Lowest(s) = Lowest(Tail(s)) /\ Taken(s) = Taken(Tail(s))
             /\ Hit(s) <=> Hit(Tail(s))
  <2>1. /\ Head(s) \in AnyCall /\ s # <<>> /\ Tail(s) \in Struck /\ Hit(s)
        /\ Lowest(s) = Lowest(Tail(s)) /\ Taken(s) = Taken(Tail(s))
    BY <1>4, NestedIs
  <2>2. Hit(Tail(s)) /\ Lowest(Tail(s)) \in AnyRun
    BY <2>1, StruckIs, FreeIs
  <2>3. Head(s).at \in Labels \ {"bump"}
    BY <2>1 DEF AnyCall, CallFrames
  <2> QED
    BY <2>1, <2>2, <2>3
<1>5. s \in Resting \/ s \in Calling \/ s \in Struck \/ s \in Nested
  BY DEF AnyStack, Free
<1>6. "run" \notin Labels /\ "trap" \notin Labels /\ "bump" \in Labels
  BY DEF Labels
<1> QED
  BY <1>1, <1>2, <1>3, <1>4, <1>5, <1>6
----------------------------------------------------------------------------
(* A step leaves thread t as it was, a call of the scheduler apart.         *)
Same(t) ==
  /\ Live(t)' <=> Live(t)
  /\ Live(t) => /\ Entered(t)' = Entered(t)
                /\ Taken(stk[t])' = Taken(stk[t]) /\ (Hit(stk[t])' <=> Hit(stk[t]))

CtxKept ==
  /\ ctx' = [t \in Slots |-> ctx'[t]]
  /\ \A t \in Slots : ctx'[t] = Zero \/ (ctx'[t].home \in Slots /\ ctx'[t].frames # <<>>)

LEMMA UprightTop ==
  ASSUME Upright
  PROVE  /\ cpu \in Slots /\ current \in Slots /\ 0 \in Slots /\ MaxProcs \in Nat \ {0}
         /\ stk[cpu] \in AnyStack /\ Live(cpu) /\ Top = Head(stk[cpu])
         /\ Entered(cpu) \in AnyRun /\ (Entered(cpu).prog = "main" => cpu = 0)
         /\ Entered(cpu) = Lowest(stk[cpu])
         /\ (Taken(stk[cpu]) = {} \/ Hit(stk[cpu]) \/ Top.at = "bump")
         /\ Top.at \in Labels \cup {"run", "trap"}
<1>1. /\ cpu \in Slots /\ current \in Slots /\ Live(cpu) /\ stk[cpu] \in AnyStack
      /\ Taken(stk[cpu]) = {} \/ Hit(stk[cpu]) \/ Top.at = "bump"
      /\ Entered(cpu).prog = "main" => cpu = 0
  BY DEF Upright
<1>2. Lowest(stk[cpu]) \in AnyRun /\ Head(stk[cpu]).at \in Labels \cup {"run", "trap"}
  BY <1>1, AnyStackIs
<1>3. 0 \in Slots /\ MaxProcs \in Nat \ {0}
  BY KernelAssumption DEF Slots
<1> QED
  BY <1>1, <1>2, <1>3 DEF Top, Entered

LEMMA CtxSame ==
  ASSUME Upright, ctx' = ctx
  PROVE  CtxKept
BY DEF Upright, CtxKept

LEMMA Restacks ==
  ASSUME Upright, NEW s \in AnyStack, stk' = [stk EXCEPT ![cpu] = s],
         UNCHANGED <<cpu, program>>, current' \in Slots, CtxKept,
         Lowest(s).prog = "main" => cpu = 0,
         Taken(s) = {} \/ Hit(s) \/ Head(s).at = "bump"
  PROVE  /\ Upright' /\ stk'[cpu] = s /\ Live(cpu)' /\ Entered(cpu)' = Lowest(s)
         /\ Top' = Head(s)
         /\ \A t \in Slots \ {cpu} : stk'[t] = stk[t] /\ Same(t)
<1>1. cpu \in Slots
  BY UprightTop
<1>2. /\ stk'[cpu] = s /\ \A t \in Slots \ {cpu} : stk'[t] = stk[t]
      /\ stk' = [t \in Slots |-> stk'[t]]
  BY <1>1 DEF Upright
<1>3. s # <<>>
  BY AnyStackIs
<1>4. ASSUME NEW t \in Slots \ {cpu}
      PROVE  Same(t)
  BY <1>2 DEF Same, Live, Entered
<1>5. Top' = Head(s) /\ Live(cpu)' /\ Entered(cpu)' = Lowest(s)
  BY <1>2, <1>3 DEF Top, Live, Entered
<1>6. ASSUME NEW t \in Slots, Live(t)'
      PROVE  /\ stk'[t] \in AnyStack
             /\ Taken(stk'[t]) = {} \/ Hit(stk'[t]) \/ (t = cpu /\ Top'.at = "bump")
             /\ Entered(t)'.prog = "main" => t = 0
  <2>1. CASE t = cpu
    BY <2>1, <1>2, <1>5
  <2>2. CASE t # cpu
    <3>1. stk'[t] = stk[t] /\ Live(t) /\ Entered(t)' = Entered(t)
      BY <2>2, <1>2, <1>6 DEF Live, Entered
    <3>2. /\ stk[t] \in AnyStack
          /\ Taken(stk[t]) = {} \/ Hit(stk[t])
          /\ Entered(t).prog = "main" => t = 0
      BY <2>2, <3>1 DEF Upright
    <3> QED
      BY <3>1, <3>2
  <2> QED
    BY <2>1, <2>2
<1>7. Upright'
  <2>1. /\ cpu' \in Slots /\ current' \in Slots /\ program' \in Programs
        /\ Live(cpu)'
    BY <1>1, <1>5 DEF Upright
  <2>2. /\ ctx' = [t \in Slots |-> ctx'[t]]
        /\ \A t \in Slots : ctx'[t] = Zero \/ (ctx'[t].home \in Slots /\ ctx'[t].frames # <<>>)
    BY DEF CtxKept
  <2>3. \A t \in Slots : Live(t)' =>
          /\ stk'[t] \in AnyStack
          /\ Taken(stk'[t]) = {} \/ Hit(stk'[t]) \/ (t = cpu' /\ Top'.at = "bump")
          /\ Entered(t)'.prog = "main" => t = 0
    BY <1>6
  <2> QED
    BY <1>2, <2>1, <2>2, <2>3 DEF Upright, Zero
<1> QED
  BY <1>2, <1>4, <1>5, <1>7

----------------------------------------------------------------------------
(* A step inside a call of the scheduler, one that hands over included, and *)
(* a halt: every thread is still where it was.                              *)
Inner == Top.at # "bump" /\ UNCHANGED <<program, trapVars, sharedVars>> /\ \A t \in Slots : Same(t)

Turns(s) == s = Tail(stk[cpu]) \/ \E k \in AnyCall : s = Pushed(k, Tail(stk[cpu]))

LEMMA InnerTail ==
  ASSUME Upright, Top.at \in Labels \ {"bump"}
  PROVE  /\ Tail(stk[cpu]) \in Resting \cup Struck
         /\ Entered(cpu) = Lowest(Tail(stk[cpu]))
         /\ Taken(stk[cpu]) = Taken(Tail(stk[cpu]))
         /\ (Hit(stk[cpu]) <=> Hit(Tail(stk[cpu])))
         /\ Top \in AnyCall /\ cpu \in Slots
<1>1. stk[cpu] \in AnyStack /\ Top = Head(stk[cpu]) /\ Entered(cpu) = Lowest(stk[cpu]) /\ cpu \in Slots
  BY UprightTop
<1> QED
  BY <1>1, AnyStackIs

LEMMA TurnIs ==
  ASSUME Upright, Top.at \in Labels \ {"bump"}, NEW s, Turns(s)
  PROVE  /\ s \in AnyStack /\ Lowest(s) = Entered(cpu)
         /\ Taken(s) = Taken(stk[cpu]) /\ (Hit(s) <=> Hit(stk[cpu]))
         /\ (Taken(s) = {} \/ Hit(s)) /\ (Lowest(s).prog = "main" => cpu = 0)
<1> DEFINE u == Tail(stk[cpu])
<1>1. /\ u \in Resting \cup Struck /\ Entered(cpu) = Lowest(u)
      /\ Taken(stk[cpu]) = Taken(u) /\ (Hit(stk[cpu]) <=> Hit(u))
  BY InnerTail
<1>2. /\ Taken(stk[cpu]) = {} \/ Hit(stk[cpu])
      /\ Entered(cpu).prog = "main" => cpu = 0
  BY UprightTop
<1> HIDE DEF u
<1>3. CASE s = u
  BY <1>1, <1>2, <1>3, RestingIs, StruckIs
<1>4. ASSUME NEW k \in AnyCall, s = Pushed(k, u)
      PROVE  /\ s \in AnyStack /\ Lowest(s) = Lowest(u)
             /\ Taken(s) = Taken(u) /\ (Hit(s) <=> Hit(u))
  BY <1>1, <1>4, CallOn
<1>5. s = u \/ \E k \in AnyCall : s = Pushed(k, u)
  BY DEF Turns, u
<1> QED
  BY <1>1, <1>2, <1>3, <1>4, <1>5

LEMMA TurnKeeps ==
  ASSUME Upright, Top.at \in Labels \ {"bump"}, NEW s, Turns(s), stk' = [stk EXCEPT ![cpu] = s],
         UNCHANGED <<cpu, program, trapVars, sharedVars>>, current' \in Slots, CtxKept
  PROVE  Upright' /\ Inner
<1>1. /\ s \in AnyStack /\ Lowest(s) = Entered(cpu)
      /\ Taken(s) = Taken(stk[cpu]) /\ (Hit(s) <=> Hit(stk[cpu]))
      /\ (Taken(s) = {} \/ Hit(s)) /\ (Lowest(s).prog = "main" => cpu = 0)
  BY TurnIs
<1>2. /\ Upright' /\ stk'[cpu] = s /\ Live(cpu)' /\ Entered(cpu)' = Lowest(s)
      /\ \A t \in Slots \ {cpu} : Same(t)
  BY <1>1, Restacks
<1>3. Same(cpu)
  <2>1. Live(cpu)
    BY UprightTop
  <2> QED
    BY <1>1, <1>2, <2>1 DEF Same
<1> QED
  BY <1>2, <1>3 DEF Inner

LEMMA HaltKeeps ==
  ASSUME Upright, Top.at # "bump", UNCHANGED <<stk, cpu, ctx, current, program, trapVars, sharedVars>>
  PROVE  Upright' /\ Inner
<1>1. Upright'
  BY DEF Upright, Live, Entered, Top, Zero
<1>2. \A t \in Slots : Same(t)
  BY DEF Same, Live, Entered
<1> QED
  BY <1>1, <1>2 DEF Inner

LEMMA AnyCallIs ==
  ASSUME NEW a \in Labels \ {"bump"}, NEW o \in Slots, NEW n \in Nat,
         a \in HalfWritten => n \in Slots
  PROVE  Frame(a, o, n) \in AnyCall
BY CallFrameIs DEF AnyCall

LEMMA GotoTurns ==
  ASSUME Upright, NEW f \in AnyCall, Goto(f)
  PROVE  \E s : Turns(s) /\ stk' = [stk EXCEPT ![cpu] = s]
<1>1. stk' = [stk EXCEPT ![cpu] = Pushed(f, Tail(stk[cpu]))]
  BY UprightTop DEF Goto, Pushed
<1> QED
  BY <1>1 DEF Turns

LEMMA ReturnTurns ==
  ASSUME Upright, Return
  PROVE  \E s : Turns(s) /\ stk' = [stk EXCEPT ![cpu] = s]
<1>1. stk' = [stk EXCEPT ![cpu] = Tail(stk[cpu])]
  BY UprightTop DEF Return
<1> QED
  BY <1>1 DEF Turns
LEMMA NextSlotIs ==
  ASSUME Upright, NEW a \in Nat, NEW b \in Nat
  PROVE  (a + b) % MaxProcs \in Slots
<1>1. a + b \in Nat /\ MaxProcs \in Nat \ {0}
  BY UprightTop
<1> QED
  BY <1>1, NextSlot DEF Slots

LEMMA SlotIsNat ==
  ASSUME NEW i \in Slots
  PROVE  i \in Nat
BY KernelAssumption DEF Slots

LEMMA InnerFrame ==
  ASSUME Upright, Top.at \in Labels \ {"bump"}
  PROVE  /\ Top.old \in Slots /\ Top.old \in Nat /\ Top.i \in Nat
         /\ Top.at \in HalfWritten => Top.i \in Slots
         /\ current \in Slots /\ current \in Nat /\ 0 \in Slots
<1>1. Top \in AnyCall
  BY InnerTail
<1>2. current \in Slots /\ 0 \in Slots
  BY UprightTop
<1> QED
  BY <1>1, <1>2, SlotIsNat DEF AnyCall, CallFrames

(* Each goes to a frame, returns, or halts.                                 *)
LEMMA SpawnGoes ==
  ASSUME Upright, SpawnFind \/ SpawnPublish \/ SpawnNumber \/ SpawnCanary
  PROVE  Upright' /\ Inner
<1>1. /\ Top.at \in {"find", "publish", "number", "canary"} /\ Top.at \in Labels \ {"bump"}
      /\ UNCHANGED <<cpu, ctx, current, program, trapVars, sharedVars>>
  BY DEF SpawnFind, SpawnPublish, SpawnNumber, SpawnCanary, At, Labels, otherVars, sharedVars
<1>2. (\E f \in AnyCall : Goto(f)) \/ Return
  <2>1. ASSUME SpawnFind, Top.i < MaxProcs
        PROVE  Frame("find", 0, Top.i + 1) \in AnyCall /\ Frame("publish", 0, Top.i) \in AnyCall
    <3>1. Top.i \in Slots /\ Top.i \in Nat /\ 0 \in Slots
      BY <1>1, <2>1, InnerFrame, UprightTop DEF Slots
    <3> QED
      BY <3>1, AnyCallIs DEF Labels, HalfWritten
  <2>2. ASSUME SpawnPublish \/ SpawnNumber \/ SpawnCanary
        PROVE  \E a \in {"number", "canary", "build"} :
                 Frame(a, 0, Top.i) \in AnyCall /\ Goto(Frame(a, 0, Top.i))
    <3>1. Top.i \in Slots /\ Top.i \in Nat /\ 0 \in Slots
      BY <1>1, <2>2, InnerFrame DEF SpawnPublish, SpawnNumber, SpawnCanary, At, HalfWritten
    <3>2. PICK a \in {"number", "canary", "build"} : Goto(Frame(a, 0, Top.i))
      BY <2>2 DEF SpawnPublish, SpawnNumber, SpawnCanary
    <3> QED
      BY <3>1, <3>2, AnyCallIs DEF Labels, HalfWritten
  <2>3. CASE SpawnFind
    <3>1. \/ Top.i < MaxProcs /\ (Goto(Frame("find", 0, Top.i + 1)) \/ Goto(Frame("publish", 0, Top.i)))
          \/ Return
      BY <2>3 DEF SpawnFind
    <3> QED
      BY <2>1, <2>3, <3>1
  <2> QED
    BY <2>2, <2>3
<1>3. \E s : Turns(s) /\ stk' = [stk EXCEPT ![cpu] = s]
  BY <1>2, GotoTurns, ReturnTurns
<1>4. current' \in Slots /\ CtxKept
  BY <1>1, UprightTop, CtxSame
<1> QED
  BY <1>1, <1>3, <1>4, TurnKeeps

LEMMA YieldGoes ==
  ASSUME Upright, YieldCheck \/ YieldScan \/ YieldPark
  PROVE  Upright' /\ Inner
<1>1. /\ Top.at \in {"check", "scan", "park"} /\ Top.at \in Labels \ {"bump"}
      /\ UNCHANGED <<cpu, ctx, current, program, trapVars, sharedVars>>
  BY DEF YieldCheck, YieldScan, YieldScanWith, YieldPark, At, Labels, otherVars, sharedVars
<1>2. /\ Top.old \in Slots /\ Top.old \in Nat /\ Top.i \in Nat /\ current \in Slots
      /\ Top.at = "park" => Top.i \in Slots
  BY <1>1, InnerFrame DEF HalfWritten
<1>3. (\E f \in AnyCall : Goto(f)) \/ Return \/ UNCHANGED stk
  <2>1. CASE YieldCheck
    <3>1. Goto(Frame("scan", current, 1)) \/ UNCHANGED stk
      BY <2>1 DEF YieldCheck
    <3>2. Frame("scan", current, 1) \in AnyCall
      BY <1>2, AnyCallIs DEF Labels, HalfWritten
    <3> QED
      BY <3>1, <3>2
  <2>2. CASE YieldScan
    <3> DEFINE next == (Top.old + Top.i) % MaxProcs
    <3>1. Return \/ Goto(Frame("park", Top.old, next)) \/ Goto(Frame("scan", Top.old, Top.i + 1))
      BY <2>2 DEF YieldScan, YieldScanWith, Scan
    <3>2. next \in Slots /\ next \in Nat
      BY <1>2, NextSlotIs, SlotIsNat
    <3> HIDE DEF next
    <3>3. Frame("park", Top.old, next) \in AnyCall
      BY <1>2, <3>2, AnyCallIs DEF Labels, HalfWritten
    <3>4. Frame("scan", Top.old, Top.i + 1) \in AnyCall
      BY <1>2, AnyCallIs DEF Labels, HalfWritten
    <3> QED
      BY <3>1, <3>3, <3>4
  <2>3. CASE YieldPark
    <3>1. Goto(Frame("claim", Top.old, Top.i)) /\ Top.i \in Slots
      BY <1>2, <2>3 DEF YieldPark, At
    <3>2. Frame("claim", Top.old, Top.i) \in AnyCall
      BY <1>2, <3>1, AnyCallIs DEF Labels, HalfWritten
    <3> QED
      BY <3>1, <3>2
  <2> QED
    BY <2>1, <2>2, <2>3
<1>4. current' \in Slots /\ CtxKept
  BY <1>1, UprightTop, CtxSame
<1>5. CASE UNCHANGED stk
  BY <1>1, <1>5, HaltKeeps
<1>6. CASE (\E f \in AnyCall : Goto(f)) \/ Return
  <2>1. \E s : Turns(s) /\ stk' = [stk EXCEPT ![cpu] = s]
    BY <1>6, GotoTurns, ReturnTurns
  <2> QED
    BY <1>1, <1>4, <2>1, TurnKeeps
<1> QED
  BY <1>3, <1>5, <1>6

LEMMA ExitGoes ==
  ASSUME Upright, ExitCheck \/ ExitZombie \/ ExitScan
  PROVE  Upright' /\ Inner
<1>1. /\ Top.at \in {"x_check", "x_zombie", "x_scan"} /\ Top.at \in Labels \ {"bump"}
      /\ UNCHANGED <<cpu, ctx, current, program, trapVars, sharedVars>>
  BY DEF ExitCheck, ExitZombie, ExitScan, At, Labels, otherVars, sharedVars
<1>2. Top.i \in Nat /\ current \in Slots /\ current \in Nat /\ 0 \in Slots
  BY <1>1, InnerFrame DEF HalfWritten
<1>3. (\E f \in AnyCall : Goto(f)) \/ UNCHANGED stk
  <2>1. CASE ExitCheck
    <3>1. Goto(Frame("x_zombie", 0, 1)) \/ UNCHANGED stk
      BY <2>1 DEF ExitCheck
    <3>2. Frame("x_zombie", 0, 1) \in AnyCall
      BY <1>2, AnyCallIs DEF Labels, HalfWritten
    <3> QED
      BY <3>1, <3>2
  <2>2. CASE ExitScan
    <3> DEFINE next == (current + Top.i) % MaxProcs
    <3>1. Goto(Frame("claim", current, next)) \/ Goto(Frame("x_scan", 0, Top.i + 1)) \/ UNCHANGED stk
      BY <2>2 DEF ExitScan
    <3>2. next \in Slots /\ next \in Nat
      BY <1>2, NextSlotIs, SlotIsNat
    <3> HIDE DEF next
    <3>3. Frame("claim", current, next) \in AnyCall
      BY <1>2, <3>2, AnyCallIs DEF Labels, HalfWritten
    <3>4. Frame("x_scan", 0, Top.i + 1) \in AnyCall
      BY <1>2, AnyCallIs DEF Labels, HalfWritten
    <3> QED
      BY <3>1, <3>3, <3>4
  <2>3. CASE ExitZombie
    <3>1. Goto(Frame("x_scan", 0, 1))
      BY <2>3 DEF ExitZombie
    <3>2. Frame("x_scan", 0, 1) \in AnyCall
      BY <1>2, AnyCallIs DEF Labels, HalfWritten
    <3> QED
      BY <3>1, <3>2
  <2> QED
    BY <2>1, <2>2, <2>3
<1>4. current' \in Slots /\ CtxKept
  BY <1>1, UprightTop, CtxSame
<1>5. CASE UNCHANGED stk
  BY <1>1, <1>5, HaltKeeps
<1>6. CASE \E f \in AnyCall : Goto(f)
  <2>1. \E s : Turns(s) /\ stk' = [stk EXCEPT ![cpu] = s]
    BY <1>6, GotoTurns
  <2> QED
    BY <1>1, <1>4, <2>1, TurnKeeps
<1> QED
  BY <1>3, <1>5, <1>6

LEMMA HandGoes ==
  ASSUME Upright, Claim \/ SetCurrent \/ SwitchSave \/ SwitchReturn
  PROVE  Upright' /\ Inner
<1>1. /\ Top.at \in {"claim", "current", "save", "return"} /\ Top.at \in Labels \ {"bump"}
      /\ UNCHANGED <<cpu, program, trapVars, sharedVars>>
  BY DEF Claim, SetCurrent, SwitchSave, SwitchReturn, At, Labels, otherVars, sharedVars
<1>2. /\ Top.old \in Slots /\ Top.old \in Nat /\ Top.i \in Nat /\ current \in Slots
      /\ Top.at \in {"claim", "current", "save"} => Top.i \in Slots
  BY <1>1, InnerFrame DEF HalfWritten
<1>3. (\E f \in AnyCall : Goto(f)) \/ Return
  <2>1. ASSUME NEW a \in {"current", "save", "restore"}, Top.i \in Slots PROVE Frame(a, Top.old, Top.i) \in AnyCall
    <3>1. a \in Labels \ {"bump"}
      BY DEF Labels
    <3> QED
      BY <1>2, <2>1, <3>1, AnyCallIs
  <2>2. CASE Claim
    BY <1>2, <2>1, <2>2 DEF Claim, At
  <2>3. CASE SetCurrent
    BY <1>2, <2>1, <2>3 DEF SetCurrent, At
  <2>4. CASE SwitchSave
    BY <1>2, <2>1, <2>4 DEF SwitchSave, At
  <2> QED
    BY <2>2, <2>3, <2>4 DEF SwitchReturn
<1>4. current' \in Slots
  BY <1>2 DEF Claim, SetCurrent, SwitchSave, SwitchReturn, At
<1>5. CtxKept
  <2>1. CASE SwitchSave
    <3> DEFINE f == Frame("return", Top.old, Top.i)
               u == Tail(stk[cpu])
    <3>1. ctx' = [ctx EXCEPT ![Top.old] = [home |-> cpu, frames |-> Pushed(f, u)]]
      BY <2>1 DEF SwitchSave, Pushed
    <3>2. Pushed(f, u) # <<>> /\ cpu \in Slots
      <4>1. f \in AnyCall
        BY <1>2, AnyCallIs DEF Labels, HalfWritten
      <4>2. u \in Resting \cup Struck /\ cpu \in Slots
        BY <1>1, InnerTail
      <4> HIDE DEF f, u
      <4> QED
        BY <4>1, <4>2, CallOn
    <3> HIDE DEF f, u
    <3> QED
      BY <3>1, <3>2 DEF Upright, CtxKept
  <2>2. CASE Claim \/ SetCurrent \/ SwitchReturn
    <3>1. ctx' = ctx
      BY <2>2 DEF Claim, SetCurrent, SwitchReturn
    <3> QED
      BY <3>1, CtxSame
  <2> QED
    BY <2>1, <2>2
<1>6. \E s : Turns(s) /\ stk' = [stk EXCEPT ![cpu] = s]
  BY <1>3, GotoTurns, ReturnTurns
<1> QED
  BY <1>1, <1>4, <1>5, <1>6, TurnKeeps

(* The other stack too has been a stack all the time.                       *)
LEMMA RestoreGoes ==
  ASSUME Upright, SwitchRestore
  PROVE  Upright' /\ Inner
<1>0. PICK c, n : c = cpu /\ n = Top.i
  OBVIOUS
<1> DEFINE f == Frame("return", Top.old, n)
           s == Pushed(f, Tail(stk[c]))
<1>1. /\ Top.at = "restore" /\ Top.at \in Labels \ {"bump"}
      /\ UNCHANGED <<ctx, current, program, trapVars, sharedVars>>
  BY DEF SwitchRestore, At, Labels, otherVars, sharedVars
<1>2. Top.old \in Slots /\ n \in Slots /\ n \in Nat /\ c \in Slots
  BY <1>0, <1>1, InnerFrame, UprightTop DEF HalfWritten
<1>3. \/ UNCHANGED <<stk, cpu>>
      \/ /\ ctx[n] # Zero /\ cpu' = ctx[n].home
         /\ stk' = [stk EXCEPT ![c] = s] /\ ctx[n].frames = stk'[cpu']
  BY <1>0 DEF SwitchRestore, Pushed
<1>4. CASE UNCHANGED <<stk, cpu>>
  BY <1>1, <1>4, HaltKeeps
<1>5. CASE /\ ctx[n] # Zero /\ cpu' = ctx[n].home
           /\ stk' = [stk EXCEPT ![c] = s] /\ ctx[n].frames = stk'[cpu']
  <2>1. /\ s \in AnyStack /\ Lowest(s) = Entered(c)
        /\ Taken(s) = Taken(stk[c]) /\ (Hit(s) <=> Hit(stk[c]))
        /\ (Taken(s) = {} \/ Hit(s)) /\ (Lowest(s).prog = "main" => c = 0)
    <3>1. f \in AnyCall
      BY <1>2, AnyCallIs DEF Labels, HalfWritten
    <3> HIDE DEF f
    <3>2. Turns(s)
      BY <1>0, <3>1 DEF Turns
    <3> QED
      BY <1>0, <1>1, <3>2, TurnIs
  <2> HIDE DEF s
  <2>2. cpu' \in Slots /\ stk'[cpu'] # <<>>
    BY <1>2, <1>5 DEF Upright
  <2>3. /\ stk'[c] = s /\ \A t \in Slots \ {c} : stk'[t] = stk[t]
        /\ stk' = [t \in Slots |-> stk'[t]]
    BY <1>2, <1>5 DEF Upright
  <2>4. s # <<>> /\ Live(c)
    BY <1>0, <2>1, AnyStackIs, UprightTop
  <2>5. ASSUME NEW t \in Slots
        PROVE  /\ Same(t)
               /\ Live(t)' => /\ stk'[t] \in AnyStack
                              /\ Taken(stk'[t]) = {} \/ Hit(stk'[t])
                              /\ Entered(t)'.prog = "main" => t = 0
    <3>1. CASE t = c
      <4>1. Entered(t)' = Lowest(s)
        BY <2>3, <3>1 DEF Entered
      <4> QED
        BY <2>1, <2>3, <2>4, <3>1, <4>1 DEF Same, Live
    <3>2. CASE t # c
      <4>1. stk'[t] = stk[t] /\ Entered(t)' = Entered(t)
        BY <2>3, <3>2 DEF Entered
      <4>2. Live(t) => /\ stk[t] \in AnyStack
                       /\ Taken(stk[t]) = {} \/ Hit(stk[t])
                       /\ Entered(t).prog = "main" => t = 0
        BY <1>0, <3>2 DEF Upright
      <4> QED
        BY <4>1, <4>2 DEF Same, Live
    <3> QED
      BY <3>1, <3>2
  <2>6. Upright'
    <3>1. /\ cpu' \in Slots /\ current' \in Slots /\ program' \in Programs
          /\ Live(cpu)' /\ CtxKept
      BY <1>1, <2>2, UprightTop, CtxSame DEF Upright, Live
    <3>2. /\ ctx' = [t \in Slots |-> ctx'[t]]
          /\ \A t \in Slots : ctx'[t] = Zero \/ (ctx'[t].home \in Slots /\ ctx'[t].frames # <<>>)
      BY <3>1 DEF CtxKept
    <3> QED
      BY <2>3, <2>5, <3>1, <3>2 DEF Upright, Zero
  <2> QED
    BY <1>1, <2>5, <2>6 DEF Inner
<1> QED
  BY <1>3, <1>4, <1>5

(* spawn writes over whatever was on the stack of its slot.                 *)
Fresh(i) ==
  /\ Top.at # "bump" /\ UNCHANGED <<program, trapVars, sharedVars>>
  /\ Live(i)' /\ Entered(i)' = Run("task", 1) /\ Taken(stk[i])' = {} /\ ~ Hit(stk[i])'
  /\ \A t \in Slots \ {i} : Same(t)

LEMMA BuildGoes ==
  ASSUME Upright, SpawnBuild
  PROVE  Upright' /\ \E i \in Slots : Fresh(i)
<1>0. PICK c, i : c = cpu /\ i = Top.i
  OBVIOUS
<1> DEFINE fresh == <<Run("task", 1)>>
           u     == Tail(stk[c])
<1>1. /\ Top.at = "build" /\ Top.at \in Labels \ {"bump"}
      /\ ctx' = [ctx EXCEPT ![i] = [home |-> i, frames |-> fresh]]
      /\ stk' = [stk EXCEPT ![c] = u, ![i] = fresh]
      /\ UNCHANGED <<current, cpu, program, trapVars, sharedVars>>
  BY <1>0 DEF SpawnBuild, At, Labels, otherVars, sharedVars
<1>2. i \in Slots /\ c \in Slots /\ current \in Slots
  BY <1>0, <1>1, InnerFrame, UprightTop DEF HalfWritten
<1>3. /\ fresh \in AnyStack /\ Lowest(fresh) = Run("task", 1) /\ Taken(fresh) = {} /\ ~ Hit(fresh)
      /\ fresh # <<>> /\ Run("task", 1).prog # "main"
  <2>1. Run("task", 1) \in AnyRun
    BY DEF AnyRun, Run
  <2>2. fresh \in Resting
    BY <2>1 DEF Resting
  <2>3. Head(fresh) = Run("task", 1)
    BY <2>1, OneIs
  <2>4. Run("task", 1).prog = "task"
    BY DEF Run
  <2> HIDE DEF fresh
  <2> QED
    BY <2>2, <2>3, <2>4, RestingIs
<1>4. /\ u \in AnyStack /\ Lowest(u) = Entered(c) /\ u # <<>>
      /\ Taken(u) = Taken(stk[c]) /\ (Hit(u) <=> Hit(stk[c]))
      /\ (Taken(u) = {} \/ Hit(u)) /\ (Lowest(u).prog = "main" => c = 0)
  <2>1. Turns(u)
    BY <1>0 DEF Turns
  <2>2. /\ u \in AnyStack /\ Lowest(u) = Entered(c)
        /\ Taken(u) = Taken(stk[c]) /\ (Hit(u) <=> Hit(stk[c]))
        /\ (Taken(u) = {} \/ Hit(u)) /\ (Lowest(u).prog = "main" => c = 0)
    BY <1>0, <1>1, <2>1, TurnIs
  <2> HIDE DEF u
  <2>3. u # <<>>
    BY <2>2, AnyStackIs
  <2> QED
    BY <2>2, <2>3
<1> HIDE DEF fresh, u
<1>5. /\ stk'[i] = fresh /\ (c # i => stk'[c] = u)
      /\ \A t \in Slots \ {c, i} : stk'[t] = stk[t]
      /\ stk' = [t \in Slots |-> stk'[t]]
  BY <1>1, <1>2 DEF Upright
<1>6. ASSUME NEW t \in Slots
      PROVE  /\ t # i => Same(t)
             /\ Live(t)' => /\ stk'[t] \in AnyStack
                            /\ Taken(stk'[t]) = {} \/ Hit(stk'[t])
                            /\ Entered(t)'.prog = "main" => t = 0
  <2>1. CASE t = i
    BY <1>3, <1>5, <2>1 DEF Entered
  <2>2. CASE t # i /\ t = c
    <3>1. Entered(t)' = Lowest(u) /\ stk'[t] = u /\ Live(t)
      BY <1>0, <1>5, <2>2, UprightTop DEF Entered
    <3> QED
      BY <1>4, <2>2, <3>1 DEF Same, Live
  <2>3. CASE t # i /\ t # c
    <3>1. stk'[t] = stk[t] /\ Entered(t)' = Entered(t)
      BY <1>5, <2>3 DEF Entered
    <3>2. Live(t) => /\ stk[t] \in AnyStack
                     /\ Taken(stk[t]) = {} \/ Hit(stk[t])
                     /\ Entered(t).prog = "main" => t = 0
      BY <1>0, <2>3 DEF Upright
    <3> QED
      BY <3>1, <3>2 DEF Same, Live
  <2> QED
    BY <2>1, <2>2, <2>3
<1>7. Live(cpu)' /\ Live(i)' /\ Entered(i)' = Run("task", 1)
  BY <1>0, <1>1, <1>3, <1>4, <1>5 DEF Live, Entered
<1>8. /\ ctx' = [t \in Slots |-> ctx'[t]]
      /\ \A t \in Slots : ctx'[t] = Zero \/ (ctx'[t].home \in Slots /\ ctx'[t].frames # <<>>)
  BY <1>1, <1>2, <1>3 DEF Upright
<1>9. Upright'
  <2>1. cpu' \in Slots /\ current' \in Slots /\ program' \in Programs
    BY <1>1, UprightTop DEF Upright
  <2> QED
    BY <1>5, <1>6, <1>7, <1>8, <2>1 DEF Upright, Zero
<1>10. Fresh(i)
  <2>1. Taken(stk[i])' = {} /\ ~ Hit(stk[i])'
    BY <1>3, <1>5
  <2> QED
    BY <1>1, <1>6, <1>7, <2>1 DEF Fresh
<1> QED
  BY <1>2, <1>9, <1>10
----------------------------------------------------------------------------
(* An entry function goes on with activation r, perhaps in a call.          *)
Advances(r) ==
  /\ Top.at = "run" /\ Entered(cpu) = Top /\ Taken(stk[cpu]) = {} /\ ~ Hit(stk[cpu])
  /\ UNCHANGED <<program, cpu>>
  /\ Live(cpu)' /\ Entered(cpu)' = r /\ ~ Hit(stk[cpu])'
  /\ \A t \in Slots \ {cpu} : Same(t)

LEMMA RunTop ==
  ASSUME Upright, Top.at = "run"
  PROVE  /\ stk[cpu] = <<Top>> /\ Tail(stk[cpu]) = <<>> /\ Top \in AnyRun /\ Entered(cpu) = Top
         /\ Taken(stk[cpu]) = {} /\ ~ Hit(stk[cpu]) /\ (Top.prog = "main" => cpu = 0)
<1>1. /\ stk[cpu] \in AnyStack /\ Top = Head(stk[cpu]) /\ Entered(cpu) = Lowest(stk[cpu])
      /\ Entered(cpu).prog = "main" => cpu = 0
  BY UprightTop
<1>2. stk[cpu] \in Resting
  BY <1>1, AnyStackIs
<1>3. /\ stk[cpu] = <<Top>> /\ Top \in AnyRun /\ Entered(cpu) = Top
      /\ Taken(stk[cpu]) = {} /\ ~ Hit(stk[cpu])
  BY <1>1, <1>2, RestingIs
<1>4. Tail(<<Top>>) = <<>>
  BY <1>3, OneIs
<1> QED
  BY <1>1, <1>3, <1>4

LEMMA OpIs ==
  ASSUME Upright, NEW op, Doing(op)
  PROVE  /\ Top.at = "run" /\ Top.prog \in {"main", "task"} /\ program \in Programs
         /\ program[Top.prog] \in Seq(SUBSET Ops)
         /\ Top.op \in 1 .. Len(program[Top.prog]) /\ op \in program[Top.prog][Top.op]
         /\ AfterOp \in AnyRun /\ AfterOp.prog = Top.prog /\ AfterOp.op = Top.op + 1
<1>1. Top.at = "run" /\ Top.op <= Len(program[Top.prog]) /\ op \in program[Top.prog][Top.op]
  BY DEF Doing, At
<1>2. Top \in AnyRun
  BY <1>1, RunTop
<1>3. Top.prog \in {"main", "task"} /\ Top.op \in Nat \ {0}
  BY <1>2 DEF AnyRun
<1>4. program \in Programs
  BY DEF Upright
<1>5. program[Top.prog] \in Seq(SUBSET Ops)
  BY <1>3, <1>4, KernelAssumption
<1>6. Len(program[Top.prog]) \in Nat
  BY <1>5
<1>7. AfterOp \in AnyRun /\ AfterOp.prog = Top.prog /\ AfterOp.op = Top.op + 1
  BY <1>3 DEF AfterOp, Run, AnyRun
<1> QED
  BY <1>1, <1>3, <1>4, <1>5, <1>6, <1>7

LEMMA RestingOn ==
  ASSUME NEW r \in AnyRun
  PROVE  <<r>> \in Resting /\ Head(<<r>>) = r /\ Lowest(<<r>>) = r
<1>1. <<r>> \in Resting
  BY DEF Resting
<1>2. Head(<<r>>) = r /\ Lowest(<<r>>) = r
  BY OneIs
<1> QED
  BY <1>1, <1>2

LEMMA StaysOn ==
  ASSUME Upright, Top.at = "run", NEW r \in AnyRun, r.prog = "main" => cpu = 0,
         stk' = [stk EXCEPT ![cpu] = <<r>> \o Tail(@)],
         UNCHANGED <<cpu, ctx, current, program>>
  PROVE  Upright' /\ Advances(r) /\ Taken(stk[cpu])' = {} /\ Top' = r
<1> DEFINE s == <<r>>
<1>1. s \in Resting /\ Head(s) = r /\ Lowest(s) = r
  BY RestingOn
<1>2. stk' = [stk EXCEPT ![cpu] = s]
  <2>1. <<r>> \o <<>> = s
    BY OneIs DEF Pushed
  <2>2. Tail(stk[cpu]) = <<>> /\ cpu \in Slots
    BY RunTop, UprightTop
  <2> QED
    BY <2>1, <2>2
<1> HIDE DEF s
<1>3. s \in AnyStack /\ Taken(s) = {} /\ ~ Hit(s)
  BY <1>1, RestingIs
<1>4. current' \in Slots /\ CtxKept
  BY UprightTop, CtxSame
<1>5. /\ Upright' /\ stk'[cpu] = s /\ Live(cpu)' /\ Entered(cpu)' = r /\ Top' = r
      /\ \A t \in Slots \ {cpu} : Same(t)
  BY <1>1, <1>2, <1>3, <1>4, Restacks
<1>6. Entered(cpu) = Top /\ Taken(stk[cpu]) = {} /\ ~ Hit(stk[cpu])
  BY RunTop
<1> QED
  BY <1>3, <1>5, <1>6 DEF Advances

LEMMA CallsOn ==
  ASSUME Upright, Top.at = "run", NEW r \in AnyRun, r.prog = "main" => cpu = 0,
         NEW f \in AnyCall \cup AllocFrames,
         stk' = [stk EXCEPT ![cpu] = <<f, r>> \o Tail(@)],
         UNCHANGED <<cpu, ctx, current, program>>
  PROVE  /\ Upright' /\ Advances(r) /\ Top' = f
         /\ Taken(stk[cpu])' = IF f.at = "bump" THEN {f} ELSE {}
<1> DEFINE s == Pushed(f, <<r>>)
<1>1. <<r>> \in Resting /\ Lowest(<<r>>) = r
  BY RestingOn
<1>2. stk' = [stk EXCEPT ![cpu] = s]
  <2>1. f \in AnyFrame /\ r \in AnyFrame
    BY DEF AnyFrame
  <2>2. <<f, r>> \o <<>> = s
    BY <2>1, PushTwo
  <2>3. Tail(stk[cpu]) = <<>> /\ cpu \in Slots
    BY RunTop, UprightTop
  <2> QED
    BY <2>2, <2>3
<1>3. s \in Calling
  BY <1>1 DEF Calling
<1>4. Head(s) = f /\ Tail(s) = <<r>>
  <2>1. f \in AnyFrame
    BY DEF AnyFrame
  <2>2. <<r>> \in Seq(AnyFrame) /\ <<r>> # <<>>
    BY <1>1, RestingIs
  <2> HIDE DEF s
  <2>3. Head(Pushed(f, <<r>>)) = f /\ Tail(Pushed(f, <<r>>)) = <<r>>
    BY <2>1, <2>2, PushedIs
  <2> QED
    BY <2>3 DEF s
<1> HIDE DEF s
<1>5. /\ s \in AnyStack /\ ~ Hit(s) /\ Lowest(s) = r
      /\ Taken(s) = IF f.at = "bump" THEN {f} ELSE {}
  BY <1>1, <1>3, <1>4, CallingIs
<1>6. current' \in Slots /\ CtxKept
  BY UprightTop, CtxSame
<1>7. /\ Upright' /\ stk'[cpu] = s /\ Live(cpu)' /\ Entered(cpu)' = r /\ Top' = f
      /\ \A t \in Slots \ {cpu} : Same(t)
  BY <1>2, <1>4, <1>5, <1>6, Restacks
<1>8. Entered(cpu) = Top /\ Taken(stk[cpu]) = {} /\ ~ Hit(stk[cpu])
  BY RunTop
<1> QED
  BY <1>5, <1>7, <1>8 DEF Advances

(* kalloc ends.                                                             *)
Allocates ==
  /\ Top.at = "bump" /\ Taken(stk[cpu]) = {Top} /\ Taken(stk[cpu])' = {}
  /\ ~ Hit(stk[cpu]) /\ ~ Hit(stk[cpu])'
  /\ Live(cpu)' /\ Entered(cpu)' = Entered(cpu)
  /\ \A t \in Slots \ {cpu} : Same(t)
  /\ UNCHANGED <<program, cpu, trapVars, locked, holders>>
  /\ bump' = Top.i + 1 /\ pages' = Append(pages, Top.i)

LEMMA BumpGoes ==
  ASSUME Upright, AllocBump
  PROVE  Upright' /\ Allocates
<1> DEFINE u == Tail(stk[cpu])
<1>1. /\ Top.at = "bump" /\ bump' = Top.i + 1 /\ pages' = Append(pages, Top.i)
      /\ UNCHANGED <<cpu, ctx, current, program, trapVars, locked, holders>>
  BY DEF AllocBump, At
<1>2. stk' = [stk EXCEPT ![cpu] = u]
  BY UprightTop DEF AllocBump, Return
<1>3. /\ stk[cpu] \in Calling /\ Top = Head(stk[cpu]) /\ Entered(cpu) = Lowest(stk[cpu])
      /\ Entered(cpu).prog = "main" => cpu = 0
  BY <1>1, UprightTop, AnyStackIs
<1>4. /\ u \in Resting /\ Lowest(u) = Entered(cpu)
      /\ Taken(stk[cpu]) = {Top} /\ ~ Hit(stk[cpu])
  BY <1>1, <1>3, CallingIs
<1> HIDE DEF u
<1>5. u \in AnyStack /\ Taken(u) = {} /\ ~ Hit(u)
  BY <1>4, RestingIs
<1>6. current' \in Slots /\ CtxKept
  BY <1>1, UprightTop, CtxSame
<1>7. /\ Upright' /\ stk'[cpu] = u /\ Live(cpu)' /\ Entered(cpu)' = Lowest(u)
      /\ \A t \in Slots \ {cpu} : Same(t)
  BY <1>1, <1>2, <1>3, <1>4, <1>5, <1>6, Restacks
<1> QED
  BY <1>1, <1>4, <1>5, <1>7 DEF Allocates

(* The timer strikes a stack that no other interrupt has struck ...         *)
LEMMA TickGoes ==
  ASSUME Upright, Tick, ~ Hit(stk[cpu])
  PROVE  /\ Upright' /\ Hit(stk[cpu])' /\ Taken(stk[cpu])' = Taken(stk[cpu])
         /\ Live(cpu)' /\ Entered(cpu)' = Entered(cpu) /\ Top'.at # "bump"
         /\ \A t \in Slots \ {cpu} : Same(t)
<1> DEFINE f == Frame("check", 0, 1)
           q == stk[cpu]
           p == Pushed(TrapFrame, q)
           s == Pushed(f, p)
<1>1. /\ stk' = [stk EXCEPT ![cpu] = <<f, TrapFrame>> \o @]
      /\ UNCHANGED <<cpu, ctx, current, program>>
  BY DEF Tick, otherVars, sharedVars
<1>2. /\ q \in AnyStack /\ cpu \in Slots /\ 0 \in Slots
      /\ Entered(cpu) = Lowest(q) /\ (Entered(cpu).prog = "main" => cpu = 0)
  BY UprightTop
<1>3. q \in Free
  <2>1. q \notin Struck /\ q \notin Nested
    BY StruckIs, NestedIs
  <2> QED
    BY <1>2, <2>1 DEF AnyStack
<1>4. f \in AnyCall /\ f \in AnyFrame /\ TrapFrame \in AnyFrame /\ f.at = "check"
  <2>1. f \in AnyCall
    BY <1>2, AnyCallIs DEF Labels, HalfWritten
  <2> QED
    BY <2>1 DEF AnyFrame, Frame
<1> HIDE DEF f, q
<1>5. q \in Seq(AnyFrame)
  BY <1>3, FreeIs
<1>6. stk' = [stk EXCEPT ![cpu] = s]
  <2>1. <<f, TrapFrame>> \o q = s
    BY <1>4, <1>5, TwoIs
  <2> QED
    BY <1>1, <1>2, <2>1 DEF q
<1>7. p \in Struck
  BY <1>3 DEF Struck
<1>8. Tail(p) = q
  BY <1>3, <1>4, <1>5, FreeIs, PushedIs
<1> HIDE DEF p
<1>9. Hit(p) /\ Lowest(p) = Lowest(q) /\ Taken(p) = Taken(q)
  BY <1>7, <1>8, StruckIs
<1>10. /\ s \in AnyStack /\ Head(s) = f /\ Lowest(s) = Lowest(p)
       /\ Taken(s) = Taken(p) /\ (Hit(s) <=> Hit(p))
  BY <1>4, <1>7, CallOn
<1> HIDE DEF s
<1>11. current' \in Slots /\ CtxKept
  BY <1>1, UprightTop, CtxSame
<1>12. /\ Upright' /\ stk'[cpu] = s /\ Live(cpu)' /\ Entered(cpu)' = Lowest(s) /\ Top' = f
       /\ \A t \in Slots \ {cpu} : Same(t)
  BY <1>1, <1>2, <1>6, <1>9, <1>10, <1>11, Restacks
<1>13. Taken(p) = Taken(stk[cpu]) /\ Lowest(p) = Entered(cpu)
  BY <1>2, <1>9 DEF q
<1>14. Taken(stk[cpu])' = Taken(s) /\ (Hit(stk[cpu])' <=> Hit(s))
  BY <1>1, <1>12
<1> QED
  BY <1>4, <1>9, <1>10, <1>12, <1>13, <1>14

(* ... and mret leaves it as it was.                                        *)
LEMMA TrapGoes ==
  ASSUME Upright, Top.at = "trap", Return, UNCHANGED <<cpu, ctx, current, program>>
  PROVE  /\ Upright' /\ Hit(stk[cpu]) /\ ~ Hit(stk[cpu])' /\ Taken(stk[cpu])' = Taken(stk[cpu])
         /\ Live(cpu)' /\ Entered(cpu)' = Entered(cpu)
         /\ \A t \in Slots \ {cpu} : Same(t)
<1> DEFINE u == Tail(stk[cpu])
<1>1. stk' = [stk EXCEPT ![cpu] = u]
  BY UprightTop DEF Return
<1>2. /\ stk[cpu] \in Struck /\ Entered(cpu) = Lowest(stk[cpu])
      /\ Entered(cpu).prog = "main" => cpu = 0
  BY UprightTop, AnyStackIs
<1>3. u \in Free /\ Lowest(u) = Entered(cpu) /\ Taken(stk[cpu]) = Taken(u) /\ Hit(stk[cpu])
  BY <1>2, StruckIs
<1> HIDE DEF u
<1>4. u \in AnyStack /\ ~ Hit(u) /\ (Head(u).at = "bump" \/ Taken(u) = {})
  BY <1>3, FreeIs
<1>5. current' \in Slots /\ CtxKept
  BY UprightTop, CtxSame
<1>6. /\ Upright' /\ stk'[cpu] = u /\ Live(cpu)' /\ Entered(cpu)' = Lowest(u)
      /\ \A t \in Slots \ {cpu} : Same(t)
  BY <1>1, <1>2, <1>3, <1>4, <1>5, Restacks
<1> QED
  BY <1>3, <1>4, <1>6
----------------------------------------------------------------------------
(* Interrupts.                                                              *)
Trapping(t) == Live(t) /\ Hit(stk[t])

Passes ==
  Live(0)' /\ Entered(0)'.prog = "main" =>
    /\ Live(0) /\ Entered(0).prog = "main"
    /\ Entered(0).op \in Nat /\ Entered(0)'.op \in Nat /\ Entered(0).op <= Entered(0)'.op

Caught == mie \/ (\E t \in Slots : Trapping(t))

LEMMA ArmedStays ==
  ASSUME Armed, Passes, program' = program, Caught' => Caught
  PROVE  Armed'
<1>1. Armed <=>
        (Caught => /\ Arms(program)
                   /\ Live(0) /\ Entered(0).prog = "main" =>
                        \E k \in 1 .. Entered(0).op - 1 :
                          k <= Len(program["main"]) /\ "arm" \in program["main"][k])
  BY DEF Armed, Caught, Trapping
<1>2. Armed' <=>
        (Caught' => /\ Arms(program)
                    /\ Live(0)' /\ Entered(0)'.prog = "main" =>
                         \E k \in 1 .. Entered(0)'.op - 1 :
                           k <= Len(program["main"]) /\ "arm" \in program["main"][k])
  BY DEF Armed, Caught, Trapping, Arms
<1>3. ASSUME Caught', Live(0)', Entered(0)'.prog = "main"
      PROVE  \E k \in 1 .. Entered(0)'.op - 1 :
               k <= Len(program["main"]) /\ "arm" \in program["main"][k]
  <2>1. /\ Live(0) /\ Entered(0).prog = "main"
        /\ Entered(0).op \in Nat /\ Entered(0)'.op \in Nat /\ Entered(0).op <= Entered(0)'.op
    BY <1>3 DEF Passes
  <2>2. PICK k \in 1 .. Entered(0).op - 1 : k <= Len(program["main"]) /\ "arm" \in program["main"][k]
    BY <1>1, <1>3, <2>1
  <2>3. k \in 1 .. Entered(0)'.op - 1
    BY <2>1
  <2> QED
    BY <2>2, <2>3
<1> QED
  BY <1>1, <1>2, <1>3

LEMMA TrapsStay ==
  ASSUME Armed, OneTrap, Passes, UNCHANGED <<mie, mepc, mcause, program>>,
         \A t \in Slots : Trapping(t)' => Trapping(t)
  PROVE  Armed' /\ OneTrap'
<1>1. Armed'
  BY ArmedStays DEF Caught
<1>2. OneTrap'
  BY DEF OneTrap, Trapping
<1> QED
  BY <1>1, <1>2

LEMMA SamePasses ==
  ASSUME Upright, 0 \in Slots => Same(0)
  PROVE  Passes
<1>1. Same(0) /\ 0 \in Slots
  BY UprightTop
<1>2. Live(0) => Entered(0) \in AnyRun
  BY <1>1, AnyStackIs DEF Upright, Entered
<1>3. Live(0) => Entered(0).op \in Nat
  BY <1>2 DEF AnyRun
<1> QED
  BY <1>1, <1>3 DEF Passes, Same

LEMMA AdvancePasses ==
  ASSUME Upright, NEW r \in AnyRun, Advances(r),
         r.prog = "main" => Top.prog = "main" /\ r.op = Top.op + 1
  PROVE  /\ Passes
         /\ \A t \in Slots : Trapping(t)' => Trapping(t) /\ t # cpu
<1>1. cpu \in Slots /\ 0 \in Slots /\ Live(cpu)
  BY UprightTop
<1>2. \A t \in Slots : Trapping(t)' => Trapping(t) /\ t # cpu
  BY <1>1 DEF Advances, Same, Trapping
<1>3. CASE cpu = 0
  <2>1. Live(0) /\ Entered(0) = Top /\ Top \in AnyRun /\ Entered(0)' = r
    BY <1>1, <1>3, RunTop DEF Advances
  <2>2. Top.op \in Nat /\ r.op \in Nat
    BY <2>1 DEF AnyRun
  <2> QED
    BY <1>2, <2>1, <2>2 DEF Passes
<1>4. CASE cpu # 0
  BY <1>1, <1>2, <1>4, SamePasses DEF Advances
<1> QED
  BY <1>3, <1>4

LEMMA InnerTraps ==
  ASSUME Upright, Armed, OneTrap, Inner
  PROVE  Armed' /\ OneTrap'
<1>1. Passes
  BY SamePasses DEF Inner
<1>2. \A t \in Slots : Trapping(t)' => Trapping(t)
  BY DEF Inner, Same, Trapping
<1>3. UNCHANGED <<mie, mepc, mcause, program>>
  BY DEF Inner, trapVars
<1> QED
  BY <1>1, <1>2, <1>3, TrapsStay

LEMMA FreshTraps ==
  ASSUME Upright, Armed, OneTrap, NEW i \in Slots, Fresh(i)
  PROVE  Armed' /\ OneTrap'
<1>1. Passes
  <2>1. CASE i = 0
    <3>1. Run("task", 1).prog = "task"
      BY DEF Run
    <3> QED
      BY <2>1, <3>1 DEF Passes, Fresh
  <2>2. CASE i # 0
    BY <2>2, SamePasses DEF Fresh
  <2> QED
    BY <2>1, <2>2
<1>2. \A t \in Slots : Trapping(t)' => Trapping(t)
  BY DEF Fresh, Same, Trapping
<1>3. UNCHANGED <<mie, mepc, mcause, program>>
  BY DEF Fresh, trapVars
<1> QED
  BY <1>1, <1>2, <1>3, TrapsStay

LEMMA AllocTraps ==
  ASSUME Upright, Armed, OneTrap, Allocates
  PROVE  Armed' /\ OneTrap'
<1>1. cpu \in Slots /\ 0 \in Slots /\ Live(cpu) /\ Entered(cpu) \in AnyRun
  BY UprightTop
<1>2. \A t \in Slots : Trapping(t)' => Trapping(t)
  BY DEF Allocates, Same, Trapping
<1>3. UNCHANGED <<mie, mepc, mcause, program>>
  BY DEF Allocates, trapVars
<1>4. Passes
  <2>1. CASE cpu = 0
    <3>1. Entered(cpu).op \in Nat
      BY <1>1 DEF AnyRun
    <3> QED
      BY <1>1, <2>1, <3>1 DEF Passes, Allocates
  <2>2. CASE cpu # 0
    BY <1>1, <2>2, SamePasses DEF Allocates
  <2> QED
    BY <2>1, <2>2
<1> QED
  BY <1>2, <1>3, <1>4, TrapsStay

(* Arm finds no interrupt under way: main arms once.                        *)
LEMMA ArmTraps ==
  ASSUME ArmsOnce(program), Upright, Armed, OneTrap, Arm
  PROVE  Upright' /\ Armed' /\ OneTrap'
<1>1. /\ Doing("arm") /\ mie' = TRUE /\ UNCHANGED <<cpu, ctx, current, program>>
      /\ stk' = [stk EXCEPT ![cpu] = <<AfterOp>> \o Tail(@)]
  BY DEF Arm, Goto, otherVars, sharedVars
<1>2. /\ Top.at = "run" /\ Top.prog \in {"main", "task"}
      /\ Top.op \in 1 .. Len(program[Top.prog]) /\ "arm" \in program[Top.prog][Top.op]
      /\ AfterOp \in AnyRun /\ AfterOp.prog = Top.prog /\ AfterOp.op = Top.op + 1
      /\ (Top.prog = "main" => cpu = 0)
  BY <1>1, OpIs, RunTop
<1>3. Top.prog = "main" /\ cpu = 0
  BY <1>2 DEF ArmsOnce
<1>4. Upright' /\ Advances(AfterOp)
  BY <1>1, <1>2, StaysOn
<1>5. \A t \in Slots : Trapping(t)' => Trapping(t)
  BY <1>2, <1>4, AdvancePasses
<1>6. Entered(0) = Top /\ Live(0)
  BY <1>2, <1>3, RunTop, UprightTop
<1>7. ~ Caught
  <2> SUFFICES ASSUME Caught PROVE FALSE
    OBVIOUS
  <2>1. PICK k \in 1 .. Top.op - 1 : k <= Len(program["main"]) /\ "arm" \in program["main"][k]
    BY <1>3, <1>6 DEF Armed, Caught, Trapping
  <2>2. k \in 1 .. Len(program["main"]) /\ k # Top.op
    BY <1>2, <1>3, <2>1
  <2> QED
    BY <1>2, <1>3, <2>1, <2>2 DEF ArmsOnce
<1>8. \A t \in Slots : ~ Trapping(t)'
  BY <1>5, <1>7 DEF Caught
<1>9. OneTrap'
  BY <1>8 DEF OneTrap, Trapping
<1>10. Armed'
  <2>1. Arms(program)'
    BY <1>1, <1>2, <1>3 DEF Arms
  <2>2. Entered(0)' = AfterOp
    BY <1>3, <1>4 DEF Advances
  <2>3. Top.op \in 1 .. AfterOp.op - 1 /\ Top.op <= Len(program["main"]) /\ "arm" \in program["main"][Top.op]
    BY <1>2, <1>3
  <2> QED
    BY <1>1, <2>1, <2>2, <2>3 DEF Armed
<1> QED
  BY <1>4, <1>9, <1>10

(* No trap is under way in an ecall, so mepc is free.                       *)
LEMMA EcallTraps ==
  ASSUME EcallsEarly(program), Upright, Armed, OneTrap, Ecall
  PROVE  Upright' /\ Armed' /\ OneTrap'
<1>1. /\ Doing("ecall") /\ UNCHANGED <<cpu, ctx, current, program, mie>>
      /\ stk' = [stk EXCEPT ![cpu] = <<AfterOp>> \o Tail(@)]
  BY DEF Ecall, Goto, otherVars, sharedVars
<1>2. /\ Top.at = "run" /\ Top.prog \in {"main", "task"}
      /\ Top.op \in 1 .. Len(program[Top.prog]) /\ "ecall" \in program[Top.prog][Top.op]
      /\ AfterOp \in AnyRun /\ AfterOp.prog = Top.prog /\ AfterOp.op = Top.op + 1
      /\ (Top.prog = "main" => cpu = 0)
  BY <1>1, OpIs, RunTop
<1>3. Upright' /\ Advances(AfterOp)
  BY <1>1, <1>2, StaysOn
<1>4. Passes /\ \A t \in Slots : Trapping(t)' => Trapping(t)
  BY <1>2, <1>3, AdvancePasses
<1>5. ~ Caught
  <2> SUFFICES ASSUME Caught PROVE FALSE
    OBVIOUS
  <2>1. Arms(program)
    BY DEF Armed, Caught, Trapping
  <2>2. Top.prog = "main" /\ cpu = 0
    BY <1>2, <2>1 DEF EcallsEarly
  <2>3. Entered(0) = Top /\ Live(0)
    BY <1>2, <2>2, RunTop, UprightTop
  <2>4. PICK k \in 1 .. Top.op - 1 : k <= Len(program["main"]) /\ "arm" \in program["main"][k]
    BY <2>2, <2>3 DEF Armed, Caught, Trapping
  <2>5. k \in 1 .. Len(program["main"]) /\ ~ (Top.op <= k)
    BY <1>2, <2>2, <2>4
  <2> QED
    BY <1>2, <2>2, <2>4, <2>5 DEF EcallsEarly
<1>6. Armed'
  BY <1>1, <1>4, ArmedStays DEF Caught
<1>7. OneTrap'
  BY <1>4, <1>5 DEF OneTrap, Caught, Trapping
<1> QED
  BY <1>3, <1>6, <1>7

LEMMA TickTraps ==
  ASSUME Upright, Armed, OneTrap, Tick
  PROVE  Upright' /\ Armed' /\ OneTrap'
<1>1. mie /\ mie' = FALSE /\ mepc' = cpu /\ mcause' = "timer" /\ program' = program /\ cpu' = cpu
  BY DEF Tick, otherVars, sharedVars
<1>2. \A t \in Slots : ~ Trapping(t)
  BY <1>1 DEF OneTrap, Trapping
<1>3. cpu \in Slots /\ Live(cpu) /\ Entered(cpu) \in AnyRun /\ 0 \in Slots
  BY UprightTop
<1>4. /\ Upright' /\ Live(cpu)' /\ Entered(cpu)' = Entered(cpu)
      /\ \A t \in Slots \ {cpu} : Same(t)
  BY <1>2, <1>3, TickGoes DEF Trapping
<1>5. \A t \in Slots : Trapping(t)' => t = cpu
  BY <1>2, <1>4 DEF Same, Trapping
<1>6. OneTrap'
  <2>1. \A t \in Slots : Trapping(t)' => ~ mie' /\ mepc' = t /\ mcause' = "timer"
    BY <1>1, <1>5
  <2>2. \A t, u \in Slots : Trapping(t)' /\ Trapping(u)' => t = u
    BY <1>5
  <2> QED
    BY <2>1, <2>2 DEF OneTrap, Trapping
<1>7. Passes
  <2>1. CASE cpu = 0
    <3>1. Entered(cpu).op \in Nat
      BY <1>3 DEF AnyRun
    <3> QED
      BY <1>1, <1>3, <1>4, <2>1, <3>1 DEF Passes
  <2>2. CASE cpu # 0
    BY <1>3, <1>4, <2>2, SamePasses
  <2> QED
    BY <2>1, <2>2
<1>8. Armed'
  BY <1>1, <1>7, ArmedStays DEF Caught
<1> QED
  BY <1>4, <1>6, <1>8

(* mret finds mepc and mcause as its own trap left them.                    *)
LEMMA TrapReturnTraps ==
  ASSUME Upright, Armed, OneTrap, TrapReturn
  PROVE  /\ Upright' /\ Armed' /\ OneTrap' /\ Hit(stk[cpu]) /\ ~ Hit(stk[cpu])'
         /\ Taken(stk[cpu])' = Taken(stk[cpu]) /\ Top.at # "bump"
         /\ cpu' = cpu /\ Live(cpu)' /\ Entered(cpu)' = Entered(cpu)
         /\ \A t \in Slots \ {cpu} : Same(t)
<1>1. /\ Top.at = "trap" /\ UNCHANGED <<cpu, ctx, current, program>>
      /\ (MretIsOurs /\ Return) \/ ~ MretIsOurs
  BY DEF TrapReturn, At, otherVars, sharedVars
<1>2. cpu \in Slots /\ Live(cpu) /\ Entered(cpu) \in AnyRun /\ 0 \in Slots /\ stk[cpu] \in AnyStack
  BY UprightTop
<1>3. Hit(stk[cpu])
  BY <1>1, UprightTop, AnyStackIs, StruckIs
<1>4. MretIsOurs
  BY <1>2, <1>3 DEF OneTrap, MretIsOurs
<1>5. /\ Upright' /\ ~ Hit(stk[cpu])' /\ Taken(stk[cpu])' = Taken(stk[cpu])
      /\ Live(cpu)' /\ Entered(cpu)' = Entered(cpu)
      /\ \A t \in Slots \ {cpu} : Same(t)
  BY <1>1, <1>4, TrapGoes
<1>6. \A t \in Slots : ~ Trapping(t)'
  <2>1. \A t \in Slots \ {cpu} : ~ Trapping(t)
    BY <1>2, <1>3 DEF OneTrap, Trapping
  <2> QED
    BY <1>1, <1>5, <2>1 DEF Same, Trapping
<1>7. OneTrap'
  BY <1>6 DEF OneTrap, Trapping
<1>8. Passes
  <2>1. CASE cpu = 0
    <3>1. Entered(cpu).op \in Nat
      BY <1>2 DEF AnyRun
    <3> QED
      BY <1>1, <1>2, <1>5, <2>1, <3>1 DEF Passes
  <2>2. CASE cpu # 0
    BY <1>2, <1>5, <2>2, SamePasses
  <2> QED
    BY <2>1, <2>2
<1>9. Armed'
  <2>1. Caught
    BY <1>2, <1>3 DEF Caught, Trapping
  <2> QED
    BY <1>1, <1>8, <2>1, ArmedStays
<1> QED
  BY <1>1, <1>3, <1>5, <1>7, <1>9

(* The other calls of the entry functions.                                  *)
LEMMA PlainGoes ==
  ASSUME Upright, NEW op, Doing(op), Goto(AfterOp), UNCHANGED <<cpu, ctx, current, program>>
  PROVE  Upright' /\ Advances(AfterOp) /\ Taken(stk[cpu])' = {}
<1>1. stk' = [stk EXCEPT ![cpu] = <<AfterOp>> \o Tail(@)]
  BY DEF Goto
<1>2. Top.at = "run" /\ AfterOp \in AnyRun /\ AfterOp.prog = Top.prog
  BY OpIs
<1>3. AfterOp.prog = "main" => cpu = 0
  BY <1>2, RunTop
<1> QED
  BY <1>1, <1>2, <1>3, StaysOn

LEMMA CallGoes ==
  ASSUME Upright, NEW op, Doing(op), NEW f \in AnyCall \cup AllocFrames, Call(f),
         UNCHANGED <<cpu, ctx, current, program>>
  PROVE  /\ Upright' /\ Advances(AfterOp)
         /\ Taken(stk[cpu])' = IF f.at = "bump" THEN {f} ELSE {}
<1>1. stk' = [stk EXCEPT ![cpu] = <<f, AfterOp>> \o Tail(@)]
  BY DEF Call
<1>2. Top.at = "run" /\ AfterOp \in AnyRun /\ AfterOp.prog = Top.prog
  BY OpIs
<1>3. AfterOp.prog = "main" => cpu = 0
  BY <1>2, RunTop
<1> QED
  BY <1>1, <1>2, <1>3, CallsOn

LEMMA SchedulerCalled ==
  ASSUME Upright, CallScheduler
  PROVE  \E op \in {"spawn", "yield", "exit"} :
           Doing(op) /\ Upright' /\ Advances(AfterOp) /\ Taken(stk[cpu])' = {}
<1>1. 0 \in Slots /\ UNCHANGED <<cpu, ctx, current, program>>
  BY UprightTop DEF CallScheduler, otherVars, sharedVars
<1>2. /\ Frame("find", 0, 0) \in AnyCall /\ Frame("check", 0, 1) \in AnyCall
      /\ Frame("x_check", 0, 1) \in AnyCall
  BY <1>1, AnyCallIs DEF Labels, HalfWritten
<1>3. PICK op \in {"spawn", "yield", "exit"} : Doing(op) /\ \E f \in AnyCall : Call(f)
  BY <1>2 DEF CallScheduler
<1>4. PICK f \in AnyCall : Call(f)
  BY <1>3
<1>5. f.at # "bump"
  BY DEF AnyCall, CallFrames
<1> QED
  BY <1>1, <1>3, <1>4, <1>5, CallGoes

LEMMA EntryGoes ==
  ASSUME Upright, EntryReturns
  PROVE  /\ Upright' /\ Advances(Run("task", 1)) /\ Taken(stk[cpu])' = {}
         /\ Run("task", 1) \in AnyRun /\ Run("task", 1).prog = "task"
<1> DEFINE f == Frame("x_check", 0, 1)
           r == Run("task", 1)
<1>1. /\ Top.at = "run" /\ UNCHANGED <<cpu, ctx, current, program>>
      /\ stk' = [stk EXCEPT ![cpu] = <<f, r>> \o Tail(@)]
  BY DEF EntryReturns, At, otherVars, sharedVars
<1>2. r \in AnyRun /\ r.prog = "task"
  BY DEF Run, AnyRun
<1>3. f \in AnyCall /\ f.at # "bump"
  <2>1. 0 \in Slots
    BY UprightTop
  <2>2. f \in AnyCall
    BY <2>1, AnyCallIs DEF Labels, HalfWritten
  <2> QED
    BY <2>2 DEF Frame
<1> HIDE DEF f, r
<1>4. /\ Upright' /\ Advances(r)
      /\ Taken(stk[cpu])' = IF f.at = "bump" THEN {f} ELSE {}
  BY <1>1, <1>2, <1>3, CallsOn
<1> QED
  BY <1>2, <1>3, <1>4 DEF r

LEMMA OpTraps ==
  ASSUME Upright, Armed, OneTrap, NEW op, Doing(op), Advances(AfterOp), UNCHANGED trapVars
  PROVE  Armed' /\ OneTrap'
<1>1. AfterOp \in AnyRun /\ AfterOp.prog = Top.prog /\ AfterOp.op = Top.op + 1
  BY OpIs
<1>2. Passes /\ \A t \in Slots : Trapping(t)' => Trapping(t)
  BY <1>1, AdvancePasses
<1> QED
  BY <1>2, TrapsStay DEF Advances, trapVars

LEMMA EntryTraps ==
  ASSUME Upright, Armed, OneTrap, EntryReturns
  PROVE  Upright' /\ Armed' /\ OneTrap'
<1>1. /\ Upright' /\ Advances(Run("task", 1))
      /\ Run("task", 1) \in AnyRun /\ Run("task", 1).prog # "main"
  BY EntryGoes
<1>2. Passes /\ \A t \in Slots : Trapping(t)' => Trapping(t)
  BY <1>1, AdvancePasses
<1>3. UNCHANGED trapVars
  BY DEF EntryReturns, otherVars
<1> QED
  BY <1>1, <1>2, <1>3, TrapsStay DEF Advances, trapVars

LEMMA TestGoes ==
  ASSUME Upright, AllocTest, bump \in Nat
  PROVE  /\ Doing("alloc") /\ Upright' /\ Advances(AfterOp)
         /\ \/ Taken(stk[cpu])' = {}
            \/ bump < KallocPages /\ Taken(stk[cpu])' = {Frame("bump", 0, bump)}
<1>1. /\ Doing("alloc") /\ UNCHANGED <<cpu, ctx, current, program>>
      /\ (bump < KallocPages /\ Call(Frame("bump", 0, bump))) \/ Goto(AfterOp)
  BY DEF AllocTest, otherVars, sharedVars
<1>2. CASE Goto(AfterOp)
  BY <1>1, <1>2, PlainGoes
<1>3. CASE bump < KallocPages /\ Call(Frame("bump", 0, bump))
  <2>1. Frame("bump", 0, bump) \in AllocFrames /\ Frame("bump", 0, bump).at = "bump"
    BY DEF Frame, AllocFrames
  <2>2. Upright' /\ Advances(AfterOp) /\ Taken(stk[cpu])' = {Frame("bump", 0, bump)}
    BY <1>1, <1>3, <2>1, CallGoes
  <2> QED
    BY <1>1, <1>3, <2>2
<1> QED
  BY <1>1, <1>2, <1>3

(* ... and of every other step that is no such call.                        *)
Kept(t) ==
  Live(t)' =>
    \/ Live(t) /\ Entered(t)' = Entered(t) /\ Taken(stk[t])' = Taken(stk[t])
    \/ Entered(t)' = Run("task", 1) /\ Taken(stk[t])' = {}

LEMMA InnerPInv ==
  ASSUME PInv, SpawnFind \/ SpawnPublish \/ SpawnNumber \/ SpawnCanary \/ YieldCheck \/ YieldScan \/ YieldPark
               \/ ExitCheck \/ ExitZombie \/ ExitScan
               \/ Claim \/ SetCurrent \/ SwitchSave \/ SwitchRestore \/ SwitchReturn
               \/ SysExit \/ Fault
  PROVE  PInv' /\ UNCHANGED sharedVars /\ \A t \in Slots : Kept(t)
<1>1. Upright /\ Armed /\ OneTrap /\ bump \in Nat
  BY DEF PInv
<1>2. Upright' /\ Inner
  <2>1. CASE SpawnFind \/ SpawnPublish \/ SpawnNumber \/ SpawnCanary
    BY <1>1, <2>1, SpawnGoes
  <2>2. CASE YieldCheck \/ YieldScan \/ YieldPark
    BY <1>1, <2>2, YieldGoes
  <2>3. CASE ExitCheck \/ ExitZombie \/ ExitScan
    BY <1>1, <2>3, ExitGoes
  <2>4. CASE Claim \/ SetCurrent \/ SwitchSave \/ SwitchReturn
    BY <1>1, <2>4, HandGoes
  <2>5. CASE SwitchRestore
    BY <1>1, <2>5, RestoreGoes
  <2>6. CASE SysExit \/ Fault
    <3>1. /\ Top.at = "run" /\ UNCHANGED <<stk, cpu, ctx, current, program, trapVars, sharedVars>>
      BY <2>6 DEF SysExit, Fault, Doing, At, otherVars, sharedVars
    <3> QED
      BY <1>1, <3>1, HaltKeeps
  <2> QED
    BY <2>1, <2>2, <2>3, <2>4, <2>5, <2>6
<1>3. Armed' /\ OneTrap'
  BY <1>1, <1>2, InnerTraps
<1>4. UNCHANGED sharedVars /\ \A t \in Slots : Same(t)
  BY <1>2 DEF Inner
<1>5. \A t \in Slots : Kept(t)
  BY <1>4 DEF Same, Kept
<1>6. bump' \in Nat
  BY <1>1, <1>4 DEF otherVars, sharedVars
<1> QED
  BY <1>2, <1>3, <1>4, <1>5, <1>6 DEF PInv

LEMMA BuildPInv ==
  ASSUME PInv, SpawnBuild
  PROVE  PInv' /\ UNCHANGED sharedVars /\ \A t \in Slots : Kept(t)
<1>1. Upright /\ Armed /\ OneTrap /\ bump \in Nat
  BY DEF PInv
<1>2. PICK i \in Slots : Upright' /\ Fresh(i)
  BY <1>1, BuildGoes
<1>3. Armed' /\ OneTrap'
  BY <1>1, <1>2, FreshTraps
<1>4. UNCHANGED sharedVars
  BY <1>2 DEF Fresh
<1>5. ASSUME NEW t \in Slots PROVE Kept(t)
  <2>1. CASE t = i
    BY <1>2, <2>1 DEF Fresh, Kept
  <2>2. CASE t # i
    <3>1. Same(t)
      BY <1>2, <2>2 DEF Fresh
    <3> QED
      BY <3>1 DEF Same, Kept
  <2> QED
    BY <2>1, <2>2
<1>6. bump' \in Nat
  BY <1>1, <1>4 DEF otherVars, sharedVars
<1> QED
  BY <1>2, <1>3, <1>4, <1>5, <1>6 DEF PInv

LEMMA TickPInv ==
  ASSUME PInv, Tick
  PROVE  PInv' /\ UNCHANGED sharedVars /\ \A t \in Slots : Kept(t)
<1>1. Upright /\ Armed /\ OneTrap /\ bump \in Nat
  BY DEF PInv
<1>2. Upright' /\ Armed' /\ OneTrap'
  BY <1>1, TickTraps
<1>3. mie /\ UNCHANGED sharedVars
  BY DEF Tick
<1>4. cpu \in Slots /\ Live(cpu)
  BY <1>1, UprightTop
<1>5. ~ Hit(stk[cpu])
  BY <1>1, <1>3, <1>4 DEF OneTrap
<1>6. /\ Taken(stk[cpu])' = Taken(stk[cpu]) /\ Entered(cpu)' = Entered(cpu) /\ cpu' = cpu
      /\ \A t \in Slots \ {cpu} : Same(t)
  BY <1>1, <1>5, TickGoes DEF Tick
<1>7. \A t \in Slots : Kept(t)
  BY <1>4, <1>6 DEF Same, Kept
<1>8. bump' \in Nat
  BY <1>1, <1>3 DEF otherVars, sharedVars
<1> QED
  BY <1>2, <1>3, <1>7, <1>8 DEF PInv

LEMMA MretPInv ==
  ASSUME PInv, TrapReturn
  PROVE  PInv' /\ UNCHANGED sharedVars /\ \A t \in Slots : Kept(t)
<1>1. Upright /\ Armed /\ OneTrap /\ bump \in Nat
  BY DEF PInv
<1>2. /\ Upright' /\ Armed' /\ OneTrap'
      /\ Taken(stk[cpu])' = Taken(stk[cpu]) /\ Entered(cpu)' = Entered(cpu) /\ cpu' = cpu
      /\ \A t \in Slots \ {cpu} : Same(t)
  BY <1>1, TrapReturnTraps
<1>3. UNCHANGED sharedVars
  BY DEF TrapReturn, otherVars
<1>4. Live(cpu)
  BY <1>1, UprightTop
<1>5. \A t \in Slots : Kept(t)
  BY <1>2, <1>4 DEF Same, Kept
<1>6. bump' \in Nat
  BY <1>1, <1>3 DEF otherVars, sharedVars
<1> QED
  BY <1>2, <1>3, <1>5, <1>6 DEF PInv

LEMMA EntryPInv ==
  ASSUME PInv, EntryReturns
  PROVE  PInv' /\ UNCHANGED sharedVars /\ \A t \in Slots : Kept(t)
<1>1. Upright /\ Armed /\ OneTrap /\ bump \in Nat
  BY DEF PInv
<1>2. Upright' /\ Armed' /\ OneTrap'
  BY <1>1, EntryTraps
<1>3. UNCHANGED sharedVars
  BY DEF EntryReturns, otherVars
<1>4. Advances(Run("task", 1)) /\ Taken(stk[cpu])' = {}
  BY <1>1, EntryGoes
<1>5. ASSUME NEW t \in Slots PROVE Kept(t)
  <2>1. CASE t = cpu
    BY <1>4, <2>1 DEF Advances, Kept
  <2>2. CASE t # cpu
    <3>1. Same(t)
      BY <1>4, <2>2 DEF Advances
    <3> QED
      BY <3>1 DEF Same, Kept
  <2> QED
    BY <2>1, <2>2
<1>6. bump' \in Nat
  BY <1>1, <1>3 DEF otherVars, sharedVars
<1> QED
  BY <1>2, <1>3, <1>5, <1>6 DEF PInv

(* The calls, and what the next one of the thread that makes it will be.    *)
LEMMA OpPInv ==
  ASSUME ArmsOnce(program), EcallsEarly(program), PInv,
         Work \/ SchedInit \/ Arm \/ Ecall \/ CallScheduler
  PROVE  /\ PInv' /\ UNCHANGED sharedVars
         /\ \E op \in Ops \ {"lock", "unlock", "alloc"} :
              Doing(op) /\ Advances(AfterOp) /\ Taken(stk[cpu])' = {}
<1>1. Upright /\ Armed /\ OneTrap /\ bump \in Nat
  BY DEF PInv
<1>2. UNCHANGED sharedVars
  BY DEF Work, SchedInit, Arm, Ecall, CallScheduler, otherVars
<1>3. UNCHANGED program /\ bump' \in Nat
  BY <1>1, <1>2 DEF otherVars, sharedVars
<1>4. ASSUME NEW op \in {"work", "init", "arm", "ecall"}, Doing(op), Goto(AfterOp),
             UNCHANGED <<cpu, ctx, current>>
      PROVE  /\ op \in Ops \ {"lock", "unlock", "alloc"}
             /\ Upright' /\ Doing(op) /\ Advances(AfterOp) /\ Taken(stk[cpu])' = {}
  <2>1. op \in Ops \ {"lock", "unlock", "alloc"}
    BY DEF Ops
  <2> QED
    BY <1>1, <1>3, <1>4, <2>1, PlainGoes
<1>5. CASE Work \/ SchedInit
  <2>1. PICK op \in {"work", "init"} : Doing(op)
    BY <1>5 DEF Work, SchedInit
  <2>2. Goto(AfterOp) /\ UNCHANGED <<cpu, ctx, current, trapVars>>
    BY <1>5 DEF Work, SchedInit
  <2>3. /\ op \in Ops \ {"lock", "unlock", "alloc"}
        /\ Upright' /\ Advances(AfterOp) /\ Taken(stk[cpu])' = {}
    BY <1>4, <2>1, <2>2
  <2>4. Armed' /\ OneTrap'
    BY <1>1, <2>1, <2>2, <2>3, OpTraps
  <2> QED
    BY <1>2, <1>3, <2>1, <2>3, <2>4 DEF PInv
<1>6. CASE Arm
  <2>1. Doing("arm") /\ Goto(AfterOp) /\ UNCHANGED <<cpu, ctx, current>>
    BY <1>6 DEF Arm
  <2>2. Armed' /\ OneTrap'
    BY <1>1, <1>6, ArmTraps
  <2> QED
    BY <1>2, <1>3, <1>4, <2>1, <2>2 DEF PInv
<1>7. CASE Ecall
  <2>1. Doing("ecall") /\ Goto(AfterOp) /\ UNCHANGED <<cpu, ctx, current>>
    BY <1>7 DEF Ecall
  <2>2. Armed' /\ OneTrap'
    BY <1>1, <1>7, EcallTraps
  <2> QED
    BY <1>2, <1>3, <1>4, <2>1, <2>2 DEF PInv
<1>8. CASE CallScheduler
  <2>1. PICK op \in {"spawn", "yield", "exit"} :
          Doing(op) /\ Upright' /\ Advances(AfterOp) /\ Taken(stk[cpu])' = {}
    BY <1>1, <1>8, SchedulerCalled
  <2>2. UNCHANGED trapVars
    BY <1>8 DEF CallScheduler
  <2>3. Armed' /\ OneTrap'
    BY <1>1, <2>1, <2>2, OpTraps
  <2>4. op \in Ops \ {"lock", "unlock", "alloc"}
    BY DEF Ops
  <2> QED
    BY <1>2, <1>3, <2>1, <2>3, <2>4 DEF PInv
<1> QED
  BY <1>5, <1>6, <1>7, <1>8

LEMMA LockPInv ==
  ASSUME PInv, Acquire \/ Release
  PROVE  /\ PInv' /\ UNCHANGED <<program, bump, pages>>
         /\ \E op \in {"lock", "unlock"} :
              /\ Doing(op) /\ Advances(AfterOp) /\ Taken(stk[cpu])' = {}
              /\ op = "lock" <=> Acquire
<1>1. Upright /\ Armed /\ OneTrap /\ bump \in Nat
  BY DEF PInv
<1>2. /\ Goto(AfterOp) /\ UNCHANGED <<cpu, ctx, current, program, bump, pages, trapVars>>
  BY DEF Acquire, Release
<1>3. ASSUME NEW op, Doing(op)
      PROVE  PInv' /\ Advances(AfterOp) /\ Taken(stk[cpu])' = {}
  <2>1. Upright' /\ Advances(AfterOp) /\ Taken(stk[cpu])' = {}
    BY <1>1, <1>2, <1>3, PlainGoes
  <2>2. Armed' /\ OneTrap'
    BY <1>1, <1>2, <1>3, <2>1, OpTraps
  <2> QED
    BY <1>1, <1>2, <2>1, <2>2 DEF PInv
<1>4. CASE Acquire
  BY <1>2, <1>3, <1>4 DEF Acquire
<1>5. CASE Release /\ ~ Acquire
  BY <1>2, <1>3, <1>5 DEF Release
<1> QED
  BY <1>4, <1>5

LEMMA TestPInv ==
  ASSUME PInv, AllocTest
  PROVE  /\ PInv' /\ UNCHANGED sharedVars /\ Doing("alloc") /\ Advances(AfterOp)
         /\ \/ Taken(stk[cpu])' = {}
            \/ bump < KallocPages /\ Taken(stk[cpu])' = {Frame("bump", 0, bump)}
<1>1. Upright /\ Armed /\ OneTrap /\ bump \in Nat
  BY DEF PInv
<1>2. UNCHANGED <<trapVars, sharedVars>>
  BY DEF AllocTest, otherVars
<1>3. /\ Doing("alloc") /\ Upright' /\ Advances(AfterOp)
      /\ \/ Taken(stk[cpu])' = {}
         \/ bump < KallocPages /\ Taken(stk[cpu])' = {Frame("bump", 0, bump)}
  BY <1>1, TestGoes
<1>4. Armed' /\ OneTrap'
  BY <1>1, <1>2, <1>3, OpTraps
<1>5. bump' \in Nat
  BY <1>1, <1>2 DEF otherVars, sharedVars
<1> QED
  BY <1>2, <1>3, <1>4, <1>5 DEF PInv

LEMMA BumpPInv ==
  ASSUME PInv, AllocBump
  PROVE  PInv' /\ Allocates
<1>1. Upright /\ Armed /\ OneTrap /\ bump \in Nat
  BY DEF PInv
<1>2. Upright' /\ Allocates
  BY <1>1, BumpGoes
<1>3. Armed' /\ OneTrap'
  BY <1>1, <1>2, AllocTraps
<1>4. bump' \in Nat
  <2>1. Top.at = "bump" /\ bump' = Top.i + 1
    BY DEF AllocBump, At
  <2>2. Top \in AllocFrames
    BY <1>1, <2>1, UprightTop, AnyStackIs
  <2> QED
    BY <2>1, <2>2 DEF AllocFrames
<1> QED
  BY <1>2, <1>3, <1>4 DEF PInv

LEMMA StutterPInv ==
  ASSUME PInv, UNCHANGED vars
  PROVE  PInv'
<1>1. UNCHANGED <<stk, cpu, ctx, current, program, mie, mepc, mcause, bump>>
  BY DEF vars, trapVars, otherVars, sharedVars
<1>2. \A t : (Live(t)' <=> Live(t)) /\ Entered(t)' = Entered(t)
  BY <1>1 DEF Live, Entered
<1>3. Top' = Top /\ Zero' = Zero /\ (Arms(program)' <=> Arms(program))
  BY <1>1 DEF Top, Zero, Arms
<1>4. Upright'
  BY <1>1, <1>2, <1>3 DEF PInv, Upright
<1>5. Armed'
  BY <1>1, <1>2, <1>3 DEF PInv, Armed
<1>6. OneTrap'
  BY <1>1, <1>2 DEF PInv, OneTrap
<1> QED
  BY <1>1, <1>4, <1>5, <1>6 DEF PInv

LEMMA InitPInv ==
  ASSUME Init
  PROVE  PInv
<1> DEFINE first == <<Run("main", 1)>>
<1>1. 0 \in Slots /\ Run("main", 1) \in AnyRun
  BY KernelAssumption DEF Slots, Run, AnyRun
<1>2. first \in Resting /\ Head(first) = Run("main", 1) /\ Lowest(first) = Run("main", 1)
  BY <1>1, RestingOn
<1> HIDE DEF first
<1>3. first # <<>> /\ first \in AnyStack /\ Taken(first) = {} /\ ~ Hit(first)
  BY <1>2, RestingIs
<1>4. /\ stk = [t \in Slots |-> IF t = 0 THEN first ELSE <<>>] /\ cpu = 0 /\ current = 0
      /\ ctx = [i \in Slots |-> Zero] /\ program \in Programs /\ mie = FALSE /\ bump = 0
  BY DEF Init, first
<1>5. \A t \in Slots : Live(t) => t = 0 /\ stk[t] = first
  BY <1>4 DEF Live
<1>6. Upright
  BY <1>1, <1>2, <1>3, <1>4, <1>5 DEF Upright, Live, Top
<1>7. Armed /\ OneTrap
  BY <1>3, <1>4, <1>5 DEF Armed, OneTrap
<1> QED
  BY <1>4, <1>6, <1>7 DEF PInv

LEMMA NextPInv ==
  ASSUME \A p \in Programs : ArmsOnce(p) /\ EcallsEarly(p), PInv, [Next]_vars
  PROVE  PInv'
<1>1. ArmsOnce(program) /\ EcallsEarly(program)
  BY DEF PInv, Upright
<1>2. CASE UNCHANGED vars
  BY <1>2, StutterPInv
<1>3. CASE Next
  BY <1>1, <1>3, InnerPInv, BuildPInv, TickPInv, MretPInv, EntryPInv, OpPInv, LockPInv,
     TestPInv, BumpPInv
  DEF Next, Step
<1> QED
  BY <1>2, <1>3
----------------------------------------------------------------------------
(* The lock and the heap.                                                   *)
Inside(t) == InSection(program, Entered(t).prog, Entered(t).op)

LEMMA KeptInside ==
  ASSUME NEW t, Kept(t), Live(t)', program' = program
  PROVE  /\ Inside(t)' => Live(t) /\ Inside(t)
         /\ \/ Taken(stk[t])' = {}
            \/ /\ Live(t) /\ Taken(stk[t])' = Taken(stk[t])
               /\ Inside(t)' <=> Inside(t)
<1>1. CASE Live(t) /\ Entered(t)' = Entered(t) /\ Taken(stk[t])' = Taken(stk[t])
  <2>1. Inside(t)' <=> Inside(t)
    BY <1>1 DEF Inside, InSection
  <2> QED
    BY <1>1, <2>1
<1>2. CASE Entered(t)' = Run("task", 1) /\ Taken(stk[t])' = {}
  <2>1. Run("task", 1).op = 1 /\ Run("task", 1).prog = "task"
    BY DEF Run
  <2>2. Inside(t)' <=> InSection(program, "task", 1)
    BY <1>2, <2>1 DEF Inside, InSection
  <2>3. ~ InSection(program, "task", 1)
    BY DEF InSection
  <2> QED
    BY <1>2, <2>2, <2>3
<1> QED
  BY <1>1, <1>2 DEF Kept

LEMMA KeptHeld ==
  ASSUME Held, \A t \in Slots : Kept(t), UNCHANGED <<program, locked, holders>>
  PROVE  Held'
<1>1. LockExcludes'
  BY DEF Held, LockExcludes
<1>2. ASSUME NEW t \in Slots, Live(t)', Inside(t)' PROVE t \in holders'
  <2>1. Live(t) /\ Inside(t)
    BY <1>2, KeptInside
  <2> QED
    BY <2>1 DEF Held, Inside
<1> QED
  BY <1>1, <1>2 DEF Held, Inside

LEMMA KeptPaged ==
  ASSUME Paged, \A t \in Slots : Kept(t), UNCHANGED <<program, bump, pages>>
  PROVE  Paged'
<1>1. ASSUME NEW t \in Slots, Live(t)', NEW f \in Taken(stk[t])'
      PROVE  f.i = bump /\ bump < KallocPages /\ (Arms(program) => Inside(t)')
  <2>1. Live(t) /\ f \in Taken(stk[t]) /\ (Inside(t)' <=> Inside(t))
    BY <1>1, KeptInside
  <2> QED
    BY <2>1 DEF Paged, Inside
<1>2. Arms(program)' <=> Arms(program)
  BY DEF Arms
<1> QED
  BY <1>1, <1>2 DEF Paged, Inside

(* A call of the thread on the processor.                                   *)
LEMMA OpInside ==
  ASSUME Upright, LocksInPairs(program), NEW op, Doing(op), Advances(AfterOp)
  PROVE  /\ cpu \in Slots /\ Live(cpu) /\ Live(cpu)' /\ cpu' = cpu
         /\ Inside(cpu)' /\ op # "lock" => Inside(cpu) /\ op # "unlock"
         /\ Inside(cpu) /\ op # "unlock" => Inside(cpu)'
         /\ op = "unlock" => Inside(cpu)
         /\ \A t \in Slots \ {cpu} : Kept(t)
         /\ Inside(cpu) <=> InSection(program, Top.prog, Top.op)
<1>1. /\ Top.at = "run" /\ Top.prog \in {"main", "task"}
      /\ program[Top.prog] \in Seq(SUBSET Ops)
      /\ Top.op \in 1 .. Len(program[Top.prog]) /\ op \in program[Top.prog][Top.op]
      /\ AfterOp.prog = Top.prog /\ AfterOp.op = Top.op + 1
  BY OpIs
<1>2. PICK g, o : g = Top.prog /\ o = Top.op
  OBVIOUS
<1>3. /\ InSection(program, g, o + 1) /\ op # "lock" => InSection(program, g, o) /\ op # "unlock"
      /\ InSection(program, g, o) /\ op # "unlock" => InSection(program, g, o + 1)
      /\ op = "unlock" => InSection(program, g, o)
  BY <1>1, <1>2, NextSection
<1>4. /\ cpu' = cpu /\ program' = program /\ Live(cpu)' /\ Entered(cpu) = Top
      /\ Entered(cpu)' = AfterOp /\ \A t \in Slots \ {cpu} : Same(t)
  BY DEF Advances
<1>5. cpu \in Slots /\ Live(cpu)
  BY UprightTop
<1>6. Inside(cpu) <=> InSection(program, g, o)
  BY <1>2, <1>4 DEF Inside
<1>7. Inside(cpu)' <=> InSection(program, g, o + 1)
  <2>1. Entered(cpu)'.prog = g /\ Entered(cpu)'.op = o + 1
    BY <1>1, <1>2, <1>4
  <2> QED
    BY <1>4, <2>1 DEF Inside, InSection
<1>8. \A t \in Slots \ {cpu} : Kept(t)
  BY <1>4 DEF Same, Kept
<1> QED
  BY <1>2, <1>3, <1>4, <1>5, <1>6, <1>7, <1>8

LEMMA OpHeld ==
  ASSUME Upright, Held, LocksInPairs(program), NEW op, op \notin {"lock", "unlock"},
         Doing(op), Advances(AfterOp), UNCHANGED <<program, locked, holders>>
  PROVE  Held'
<1>1. LockExcludes'
  BY DEF Held, LockExcludes
<1>2. ASSUME NEW t \in Slots, Live(t)', Inside(t)' PROVE t \in holders'
  <2>1. Live(t) /\ Inside(t)
    <3>1. CASE t = cpu
      BY <1>2, <3>1, OpInside
    <3>2. CASE t # cpu
      BY <1>2, <3>2, OpInside, KeptInside
    <3> QED
      BY <3>1, <3>2
  <2> QED
    BY <2>1 DEF Held, Inside
<1> QED
  BY <1>1, <1>2 DEF Held, Inside

LEMMA AcquireHeld ==
  ASSUME Upright, Held, LocksInPairs(program), Acquire, Advances(AfterOp)
  PROVE  Held'
<1>1. /\ Doing("lock") /\ ~ locked /\ locked' = TRUE /\ holders' = holders \cup {cpu}
      /\ program' = program
  BY DEF Acquire
<1>2. holders' = {cpu}
  <2>1. \A t \in holders : FALSE
    BY <1>1 DEF Held, LockExcludes
  <2> QED
    BY <1>1, <2>1
<1>3. ASSUME NEW t \in Slots, Live(t)', Inside(t)', t # cpu PROVE FALSE
  <2>1. Kept(t)
    BY <1>1, <1>3, OpInside
  <2>2. Live(t) /\ Inside(t)
    BY <1>1, <1>3, <2>1, KeptInside
  <2> QED
    BY <1>1, <2>2 DEF Held, LockExcludes, Inside
<1>4. LockExcludes'
  BY <1>1, <1>2 DEF LockExcludes
<1> QED
  BY <1>2, <1>3, <1>4 DEF Held, Inside

LEMMA ReleaseHeld ==
  ASSUME Upright, Held, LocksInPairs(program), Release, Advances(AfterOp)
  PROVE  Held'
<1>1. Doing("unlock") /\ holders' = holders \ {cpu} /\ program' = program
  BY DEF Release
<1>2. Inside(cpu) /\ ~ Inside(cpu)' /\ cpu \in Slots /\ Live(cpu) /\ cpu' = cpu
  BY <1>1, OpInside
<1>3. holders' = {}
  <2>1. cpu \in holders
    BY <1>2 DEF Held, Inside
  <2>2. holders = {cpu}
    BY <2>1 DEF Held, LockExcludes
  <2> QED
    BY <1>1, <2>2
<1>4. ASSUME NEW t \in Slots, Live(t)', Inside(t)' PROVE FALSE
  <2>1. t # cpu
    BY <1>2, <1>4
  <2>2. Kept(t)
    BY <1>1, <2>1, OpInside
  <2>3. Live(t) /\ Inside(t)
    BY <1>1, <1>4, <2>2, KeptInside
  <2>4. t \in holders
    BY <2>3 DEF Held, Inside
  <2> QED
    BY <1>1, <1>3, <2>1, <2>4
<1> QED
  BY <1>3, <1>4 DEF Held, Inside, LockExcludes

LEMMA BumpKept ==
  ASSUME Upright, Allocates
  PROVE  /\ cpu \in Slots /\ Live(cpu) /\ program' = program /\ cpu' = cpu
         /\ Live(cpu)' /\ (Inside(cpu)' <=> Inside(cpu))
         /\ \A t \in Slots \ {cpu} : Kept(t)
<1>1. cpu \in Slots /\ Live(cpu)
  BY UprightTop
<1>2. /\ program' = program /\ Live(cpu)' /\ Entered(cpu)' = Entered(cpu) /\ cpu' = cpu
      /\ \A t \in Slots \ {cpu} : Same(t)
  BY DEF Allocates
<1>3. Inside(cpu)' <=> Inside(cpu)
  BY <1>2 DEF Inside, InSection
<1>4. \A t \in Slots \ {cpu} : Kept(t)
  BY <1>2 DEF Same, Kept
<1> QED
  BY <1>1, <1>2, <1>3, <1>4

LEMMA BumpHeld ==
  ASSUME Upright, Held, Allocates
  PROVE  Held'
<1>1. UNCHANGED <<program, locked, holders>>
  BY DEF Allocates
<1>2. LockExcludes'
  BY <1>1 DEF Held, LockExcludes
<1>3. ASSUME NEW t \in Slots, Live(t)', Inside(t)' PROVE t \in holders'
  <2>1. Live(t) /\ Inside(t)
    <3>1. CASE t = cpu
      BY <1>3, <3>1, BumpKept
    <3>2. CASE t # cpu
      BY <1>3, <3>2, BumpKept, KeptInside
    <3> QED
      BY <3>1, <3>2
  <2> QED
    BY <1>1, <2>1 DEF Held, Inside
<1> QED
  BY <1>2, <1>3 DEF Held, Inside

(* Any other kalloc under way is that of an interrupted thread: the timer   *)
(* runs, and both hold the lock.                                            *)
LEMMA NoOther ==
  ASSUME PInv, Held, Paged, Allocates, NEW t \in Slots \ {cpu}, Live(t)
  PROVE  Taken(stk[t]) = {}
<1> SUFFICES ASSUME NEW f \in Taken(stk[t]) PROVE FALSE
  OBVIOUS
<1>1. Upright /\ Armed
  BY DEF PInv
<1>2. Hit(stk[t])
  BY <1>1 DEF Upright
<1>3. Arms(program)
  BY <1>1, <1>2 DEF Armed
<1>4. Inside(t)
  BY <1>3 DEF Paged, Inside
<1>5. Inside(cpu) /\ cpu \in Slots /\ Live(cpu)
  <2>1. Top \in Taken(stk[cpu]) /\ cpu \in Slots /\ Live(cpu)
    BY <1>1, BumpKept DEF Allocates
  <2> QED
    BY <1>3, <2>1 DEF Paged, Inside
<1>6. t \in holders /\ cpu \in holders
  BY <1>4, <1>5 DEF Held, Inside
<1> QED
  BY <1>6 DEF Held, LockExcludes

LEMMA BumpPaged ==
  ASSUME PInv, Held, Paged, Allocates
  PROVE  Paged'
<1>1. Upright /\ bump' = Top.i + 1 /\ pages' = Append(pages, Top.i) /\ Top \in Taken(stk[cpu])
      /\ Taken(stk[cpu])' = {} /\ cpu' = cpu
  BY DEF PInv, Allocates
<1>2. cpu \in Slots /\ Live(cpu) /\ program' = program /\ \A t \in Slots \ {cpu} : Kept(t)
  BY <1>1, BumpKept
<1>3. Top.i = bump /\ bump < KallocPages /\ bump \in Nat /\ pages \in Seq(Nat) /\ KallocPages \in Nat
  BY <1>1, <1>2, KernelAssumption DEF Paged
<1>4. /\ bump' \in Nat /\ bump' <= KallocPages /\ bump' = bump + 1
      /\ pages' \in Seq(Nat) /\ Len(pages') = Len(pages) + 1 /\ Len(pages) \in Nat
      /\ pages'[Len(pages) + 1] = bump /\ \A m \in 1 .. Len(pages) : pages'[m] = pages[m]
  BY <1>1, <1>3, AppendProperties, LenProperties
<1>5. ASSUME NEW t \in Slots, Live(t)' PROVE Taken(stk[t])' = {}
  <2>1. CASE t = cpu
    BY <1>1, <2>1
  <2>2. CASE t # cpu
    BY <1>2, <1>5, <2>2, NoOther, KeptInside
  <2> QED
    BY <2>1, <2>2
<1>6. /\ \A m \in 1 .. Len(pages) : pages[m] < bump /\ pages[m] \in Nat
      /\ \A m, n \in 1 .. Len(pages) : pages[m] = pages[n] => m = n
  BY <1>3, LenProperties DEF Paged
<1>7. \A m \in 1 .. Len(pages') : m \in 1 .. Len(pages) \/ m = Len(pages) + 1
  BY <1>4
<1>8. \A m \in 1 .. Len(pages') : pages'[m] < bump'
  BY <1>3, <1>4, <1>6, <1>7
<1>9. \A m, n \in 1 .. Len(pages') : pages'[m] = pages'[n] => m = n
  BY <1>3, <1>4, <1>6, <1>7
<1> QED
  BY <1>4, <1>5, <1>8, <1>9 DEF Paged

(* Calls but that of kalloc take no page.                                   *)
LEMMA OpPaged ==
  ASSUME Upright, Paged, Advances(AfterOp), Taken(stk[cpu])' = {}, UNCHANGED <<program, bump, pages>>
  PROVE  Paged'
<1>1. \A t \in Slots \ {cpu} : Kept(t)
  BY DEF Advances, Same, Kept
<1>2. ASSUME NEW t \in Slots, Live(t)', NEW f \in Taken(stk[t])'
      PROVE  f.i = bump /\ bump < KallocPages /\ (Arms(program) => Inside(t)')
  <2>1. t # cpu
    BY <1>2 DEF Advances
  <2>2. Live(t) /\ f \in Taken(stk[t]) /\ (Inside(t)' <=> Inside(t))
    BY <1>1, <1>2, <2>1, KeptInside
  <2> QED
    BY <2>2 DEF Paged, Inside
<1>3. Arms(program)' <=> Arms(program)
  BY DEF Arms
<1> QED
  BY <1>2, <1>3 DEF Paged, Inside

LEMMA TestPaged ==
  ASSUME LocksInPairs(program), AllocatesLocked(program), Upright, Paged,
         Doing("alloc"), Advances(AfterOp), bump < KallocPages,
         Taken(stk[cpu])' = {Frame("bump", 0, bump)}, UNCHANGED <<program, bump, pages>>
  PROVE  Paged'
<1>1. \A t \in Slots \ {cpu} : Kept(t)
  BY DEF Advances, Same, Kept
<1>2. Arms(program) => Inside(cpu)'
  <2>1. /\ Top.prog \in {"main", "task"} /\ Top.op \in 1 .. Len(program[Top.prog])
        /\ "alloc" \in program[Top.prog][Top.op]
    BY OpIs
  <2>2. Arms(program) => InSection(program, Top.prog, Top.op)
    BY <2>1 DEF AllocatesLocked
  <2> QED
    BY <2>2, OpInside
<1>3. Frame("bump", 0, bump).i = bump /\ cpu' = cpu
  BY DEF Frame, Advances
<1>4. ASSUME NEW t \in Slots, Live(t)', NEW f \in Taken(stk[t])'
      PROVE  f.i = bump /\ bump < KallocPages /\ (Arms(program) => Inside(t)')
  <2>1. CASE t = cpu
    BY <1>2, <1>3, <1>4, <2>1
  <2>2. CASE t # cpu
    <3>1. Live(t) /\ f \in Taken(stk[t]) /\ (Inside(t)' <=> Inside(t))
      BY <1>1, <1>4, <2>2, KeptInside
    <3> QED
      BY <3>1 DEF Paged, Inside
  <2> QED
    BY <2>1, <2>2
<1>5. Arms(program)' <=> Arms(program)
  BY DEF Arms
<1> QED
  BY <1>4, <1>5 DEF Paged, Inside

LEMMA StutterKept ==
  ASSUME UNCHANGED vars
  PROVE  UNCHANGED sharedVars /\ \A t \in Slots : Kept(t)
<1>1. UNCHANGED <<stk, sharedVars>>
  BY DEF vars, otherVars
<1> QED
  BY <1>1 DEF Kept, Live, Entered

(* What a step does to the lock and the heap.                               *)
Quietly == UNCHANGED sharedVars /\ \A t \in Slots : Kept(t)

LEMMA StepIs ==
  ASSUME ArmsOnce(program), EcallsEarly(program), PInv, [Next]_vars
  PROVE  \/ Quietly
         \/ /\ UNCHANGED sharedVars /\ Advances(AfterOp) /\ Taken(stk[cpu])' = {}
            /\ \E op \in Ops \ {"lock", "unlock", "alloc"} : Doing(op)
         \/ /\ Acquire \/ Release
            /\ Advances(AfterOp) /\ Taken(stk[cpu])' = {} /\ UNCHANGED <<program, bump, pages>>
         \/ /\ UNCHANGED sharedVars /\ Doing("alloc") /\ Advances(AfterOp)
            /\ \/ Taken(stk[cpu])' = {}
               \/ bump < KallocPages /\ Taken(stk[cpu])' = {Frame("bump", 0, bump)}
         \/ Allocates
<1>1. CASE UNCHANGED vars
  BY <1>1, StutterKept DEF Quietly
<1>2. CASE Acquire \/ Release
  BY <1>2, LockPInv
<1>3. CASE AllocTest
  BY <1>3, TestPInv
<1>4. CASE AllocBump
  BY <1>4, BumpPInv
<1>5. CASE Work \/ SchedInit \/ Arm \/ Ecall \/ CallScheduler
  BY <1>5, OpPInv
<1>6. CASE Next /\ ~ (Acquire \/ Release \/ AllocTest \/ AllocBump)
           /\ ~ (Work \/ SchedInit \/ Arm \/ Ecall \/ CallScheduler)
  BY <1>6, InnerPInv, BuildPInv, TickPInv, MretPInv, EntryPInv DEF Quietly, Next, Step
<1> QED
  BY <1>1, <1>2, <1>3, <1>4, <1>5, <1>6

LEMMA NextHeld ==
  ASSUME \A p \in Programs : ArmsOnce(p) /\ EcallsEarly(p) /\ LocksInPairs(p),
         PInv, Held, [Next]_vars
  PROVE  Held'
<1>1. Upright /\ ArmsOnce(program) /\ EcallsEarly(program) /\ LocksInPairs(program)
  BY DEF PInv, Upright
<1>2. UNCHANGED sharedVars => UNCHANGED <<program, locked, holders>>
  BY DEF otherVars, sharedVars
<1>3. CASE Quietly
  BY <1>2, <1>3, KeptHeld DEF Quietly
<1>4. ASSUME UNCHANGED sharedVars, Advances(AfterOp), NEW op \in Ops \ {"lock", "unlock"}, Doing(op)
      PROVE  Held'
  BY <1>1, <1>2, <1>4, OpHeld
<1>5. CASE (Acquire \/ Release) /\ Advances(AfterOp)
  BY <1>1, <1>5, AcquireHeld, ReleaseHeld
<1>6. CASE Allocates
  BY <1>1, <1>6, BumpHeld
<1>7. "alloc" \in Ops \ {"lock", "unlock"}
  BY DEF Ops
<1> QED
  BY <1>1, <1>3, <1>4, <1>5, <1>6, <1>7, StepIs

LEMMA NextPaged ==
  ASSUME \A p \in Programs : /\ ArmsOnce(p) /\ EcallsEarly(p)
                             /\ LocksInPairs(p) /\ AllocatesLocked(p),
         PInv, Held, Paged, [Next]_vars
  PROVE  Paged'
<1>1. /\ Upright /\ ArmsOnce(program) /\ EcallsEarly(program)
      /\ LocksInPairs(program) /\ AllocatesLocked(program)
  BY DEF PInv, Upright
<1>2. UNCHANGED sharedVars => UNCHANGED <<program, bump, pages>>
  BY DEF otherVars, sharedVars
<1>3. CASE Quietly
  BY <1>2, <1>3, KeptPaged DEF Quietly
<1>4. CASE Advances(AfterOp) /\ Taken(stk[cpu])' = {} /\ UNCHANGED <<program, bump, pages>>
  BY <1>1, <1>4, OpPaged
<1>5. CASE /\ UNCHANGED sharedVars /\ Doing("alloc") /\ Advances(AfterOp)
           /\ bump < KallocPages /\ Taken(stk[cpu])' = {Frame("bump", 0, bump)}
  BY <1>1, <1>2, <1>5, TestPaged
<1>6. CASE Allocates
  BY <1>6, BumpPaged
<1> QED
  BY <1>1, <1>2, <1>3, <1>4, <1>5, <1>6, StepIs

LEMMA InitHeld ==
  ASSUME Init
  PROVE  Held /\ Paged
<1>1. PInv
  BY InitPInv
<1>2. /\ stk = [t \in Slots |-> IF t = 0 THEN <<Run("main", 1)>> ELSE <<>>]
      /\ holders = {} /\ bump = 0 /\ pages = <<>>
  BY DEF Init
<1>3. ASSUME NEW t \in Slots, Live(t)
      PROVE  Entered(t).op = 1 /\ Taken(stk[t]) = {}
  <2>1. stk[t] = <<Run("main", 1)>>
    BY <1>2, <1>3 DEF Live
  <2>2. Run("main", 1) \in AnyRun /\ Run("main", 1).op = 1
    BY DEF Run, AnyRun
  <2>3. <<Run("main", 1)>> \in Resting /\ Lowest(<<Run("main", 1)>>) = Run("main", 1)
    BY <2>2, RestingOn
  <2>4. Taken(<<Run("main", 1)>>) = {}
    BY <2>3, RestingIs
  <2> QED
    BY <2>1, <2>2, <2>3, <2>4 DEF Entered
<1>4. Held
  BY <1>2, <1>3 DEF Held, LockExcludes, InSection
<1>5. Paged
  <2>1. pages \in Seq(Nat) /\ Len(pages) = 0 /\ 1 .. Len(pages) = {}
    BY <1>2
  <2>2. bump \in Nat /\ bump <= KallocPages
    BY <1>2, KernelAssumption
  <2> QED
    BY <1>3, <2>1, <2>2 DEF Paged
<1> QED
  BY <1>4, <1>5

(* At most one trap frame on a stack.                                       *)
LEMMA StruckOnce ==
  ASSUME NEW s \in AnyStack
  PROVE  /\ \A n, m \in TrapsIn(s) : n = m
         /\ TrapsIn(s) # {} => Hit(s)
<1>1. ASSUME NEW e \in Resting PROVE TrapsIn(e) = {}
  <2>1. Head(e) \in AnyRun /\ e = <<Head(e)>>
    BY <1>1, RestingIs
  <2>2. DOMAIN <<Head(e)>> = {1} /\ <<Head(e)>>[1] = Head(e)
    OBVIOUS
  <2> QED
    BY <2>1, <2>2 DEF TrapsIn, AnyRun
<1>2. ASSUME NEW a \in Calling PROVE TrapsIn(a) = {}
  <2>1. /\ Head(a) \in AnyCall \cup AllocFrames /\ Tail(a) \in Resting /\ a = Pushed(Head(a), Tail(a))
    BY <1>2, CallingIs
  <2>2. Head(a) \in AnyFrame /\ Tail(a) \in Seq(AnyFrame) /\ Head(a).at # "trap"
    BY <2>1, RestingIs DEF AnyFrame, AllocFrames, AnyCall, CallFrames, Labels
  <2>3. \A n \in DOMAIN a : (n = 1 /\ a[n] = Head(a)) \/ (n - 1 \in DOMAIN Tail(a) /\ a[n] = Tail(a)[n - 1])
    BY <2>1, <2>2, PushedAt
  <2> QED
    BY <1>1, <2>1, <2>2, <2>3 DEF TrapsIn
<1>3. ASSUME NEW q \in Struck PROVE TrapsIn(q) \subseteq {1} /\ Hit(q)
  <2>1. Head(q) = TrapFrame /\ Tail(q) \in Free /\ q = Pushed(Head(q), Tail(q)) /\ Hit(q)
    BY <1>3, StruckIs
  <2>2. Head(q) \in AnyFrame /\ Tail(q) \in Seq(AnyFrame) /\ TrapsIn(Tail(q)) = {}
    BY <1>1, <1>2, <2>1, FreeIs DEF AnyFrame, Free
  <2>3. \A n \in DOMAIN q : (n = 1 /\ q[n] = Head(q)) \/ (n - 1 \in DOMAIN Tail(q) /\ q[n] = Tail(q)[n - 1])
    BY <2>1, <2>2, PushedAt
  <2> QED
    BY <2>1, <2>2, <2>3 DEF TrapsIn
<1>4. ASSUME NEW c \in Nested PROVE TrapsIn(c) \subseteq {2} /\ Hit(c)
  <2>1. Head(c) \in AnyCall /\ Tail(c) \in Struck /\ c = Pushed(Head(c), Tail(c)) /\ Hit(c)
    BY <1>4, NestedIs
  <2>2. /\ Head(c) \in AnyFrame /\ Tail(c) \in Seq(AnyFrame) /\ Head(c).at # "trap"
        /\ TrapsIn(Tail(c)) \subseteq {1}
    BY <1>3, <2>1, StruckIs DEF AnyFrame, AnyCall, CallFrames, Labels
  <2>3. \A n \in DOMAIN c : \/ n = 1 /\ c[n] = Head(c)
                            \/ n - 1 \in DOMAIN Tail(c) /\ n \in Nat /\ c[n] = Tail(c)[n - 1]
    BY <2>1, <2>2, PushedAt
  <2>4. ASSUME NEW n \in TrapsIn(c) PROVE n = 2
    <3>1. n \in DOMAIN c /\ c[n].at = "trap"
      BY DEF TrapsIn
    <3>2. n - 1 \in DOMAIN Tail(c) /\ n \in Nat /\ c[n] = Tail(c)[n - 1]
      BY <2>2, <2>3, <3>1
    <3>3. n - 1 \in TrapsIn(Tail(c))
      BY <3>1, <3>2 DEF TrapsIn
    <3>4. n - 1 = 1
      BY <2>2, <3>3
    <3> QED
      BY <3>2, <3>4
  <2> QED
    BY <2>1, <2>4
<1> QED
  BY <1>1, <1>2, <1>3, <1>4 DEF AnyStack, Free

LEMMA PInvTraps ==
  ASSUME PInv
  PROVE  OneTrapFrame /\ MretReturnsHome
<1>1. Upright /\ OneTrap
  BY DEF PInv
<1>2. ASSUME NEW t \in Slots
      PROVE  /\ \A n, m \in TrapFrames(t) : n = m
             /\ TrapFrames(t) # {} => Trapping(t)
  <2>1. CASE Live(t)
    <3>1. stk[t] \in AnyStack
      BY <1>1, <2>1 DEF Upright
    <3> QED
      BY <2>1, <3>1, StruckOnce DEF TrapsIn, TrapFrames, Trapping
  <2>2. CASE ~ Live(t)
    <3>1. DOMAIN <<>> = {}
      OBVIOUS
    <3> QED
      BY <2>2, <3>1 DEF Live, TrapFrames
  <2> QED
    BY <2>1, <2>2
<1>3. OneTrapFrame
  BY <1>1, <1>2 DEF OneTrapFrame, OneTrap, Trapping
<1>4. MretReturnsHome
  <2> SUFFICES ASSUME Top.at = "trap" PROVE MretIsOurs
    BY DEF MretReturnsHome, At
  <2>1. cpu \in Slots /\ Live(cpu) /\ stk[cpu] \in AnyStack /\ Top = Head(stk[cpu])
    BY <1>1, UprightTop
  <2>2. Hit(stk[cpu])
    BY <2>1, AnyStackIs, StruckIs
  <2> QED
    BY <1>1, <2>1, <2>2 DEF OneTrap, MretIsOurs
<1> QED
  BY <1>3, <1>4

LEMMA StacksInv ==
  ASSUME \A p \in Programs : ArmsOnce(p) /\ EcallsEarly(p)
  PROVE  Spec => []PInv
<1>1. Init => PInv
  BY InitPInv
<1>2. PInv /\ [Next]_vars => PInv'
  BY NextPInv
<1> QED
  BY <1>1, <1>2, PTL DEF Spec

(* With main preempted anywhere once it has armed the timer, in the middle  *)
(* of a call of the scheduler included, there is at most one trap frame     *)
(* among all stacks and none while MIE is set.                              *)
THEOREM TrapsNeverNest ==
  ASSUME \A p \in Programs : ArmsOnce(p) /\ EcallsEarly(p)
  PROVE  Spec => []OneTrapFrame
<1>1. PInv => OneTrapFrame
  BY PInvTraps
<1> QED
  BY <1>1, StacksInv, PTL

(* ... and every mret goes back to where its own interrupt came from.       *)
THEOREM MretIsExact ==
  ASSUME \A p \in Programs : ArmsOnce(p) /\ EcallsEarly(p)
  PROVE  Spec => []MretReturnsHome
<1>1. PInv => MretReturnsHome
  BY PInvTraps
<1> QED
  BY <1>1, StacksInv, PTL

LEMMA SectionsInv ==
  ASSUME \A p \in Programs : ArmsOnce(p) /\ EcallsEarly(p) /\ LocksInPairs(p)
  PROVE  Spec => []Held
<1>1. Init => Held
  BY InitHeld
<1>2. PInv /\ Held /\ [Next]_vars => Held'
  BY NextHeld
<1>3. Spec => []PInv
  BY StacksInv
<1> QED
  BY <1>1, <1>2, <1>3, PTL DEF Spec

(* The lock excludes whatever the ticks interrupt and the scheduler, itself *)
(* interrupted, makes of it: neither tasks nor main share a section.        *)
THEOREM MutualExclusion ==
  ASSUME \A p \in Programs : ArmsOnce(p) /\ EcallsEarly(p) /\ LocksInPairs(p)
  PROVE  Spec => []LockExcludes
<1>1. Held => LockExcludes
  BY DEF Held
<1> QED
  BY <1>1, SectionsInv, PTL

(* Under that lock kalloc hands out each page once.                         *)
THEOREM PagesHandedOutOnce ==
  ASSUME \A p \in Programs : /\ ArmsOnce(p) /\ EcallsEarly(p)
                             /\ LocksInPairs(p) /\ AllocatesLocked(p)
  PROVE  Spec => []PagesDistinct
<1>1. Init => Paged
  BY InitHeld
<1>2. PInv /\ Held /\ Paged /\ [Next]_vars => Paged'
  BY NextPaged
<1>3. Spec => []PInv
  BY StacksInv
<1>4. Spec => []Held
  BY SectionsInv
<1>5. Paged => PagesDistinct
  <2> SUFFICES ASSUME Paged PROVE PagesDistinct
    OBVIOUS
  <2>1. /\ pages \in Seq(Nat) /\ bump \in Nat /\ KallocPages \in Nat /\ bump <= KallocPages
        /\ \A m, n \in 1 .. Len(pages) : pages[m] = pages[n] => m = n
        /\ \A m \in 1 .. Len(pages) : pages[m] < bump
    BY KernelAssumption DEF Paged
  <2>2. DOMAIN pages = 1 .. Len(pages) /\ \A m \in 1 .. Len(pages) : pages[m] \in Nat
    BY <2>1, LenProperties
  <2>3. \A m \in 1 .. Len(pages) : pages[m] < KallocPages
    BY <2>1, <2>2
  <2> QED
    BY <2>1, <2>2, <2>3 DEF PagesDistinct
<1> QED
  BY <1>1, <1>2, <1>3, <1>4, <1>5, PTL DEF Spec
----------------------------------------------------------------------------
(***************************************************************************)
(* Until a tick strikes half-written state, contexts are exact, whatever    *)
(* else it strikes.                                                         *)
(*                                                                         *)
(* A tick leaves its victim under a trap frame: activations there are not   *)
(* half way through anything that others see, and are in a scan only if the *)
(* scan has been struck.  What is true of the activation on top is a matter *)
(* of its label.                                                            *)
(***************************************************************************)
On(t)    == Members(stk[t])
Under(t) == IF t = cpu THEN Members(Tail(stk[t])) ELSE On(t)

Filling   == {"number", "canary", "build"}               \* a slot published, but no context
Switching == {"claim", "current", "save", "restore"}     \* next is not RUNNING, or has no cpu yet

(* Slot t is in use and its first context is built.                         *)
Made(t) == state[t] # "UNUSED" /\ ~ (Top.at \in Filling /\ Top.i = t)

Typed ==
  /\ state  \in [Slots -> {"UNUSED", "READY", "RUNNING", "ZOMBIE"}]
  /\ pid    \in [Slots -> Nat]
  /\ canary \in [Slots -> BOOLEAN]
  /\ nextPid \in Nat

(* What activation f of thread t has found out for itself.                  *)
Sound(f, t) ==
  /\ f.at \in {"scan", "park", "claim", "current", "save", "restore"} => f.old = t
  /\ f.at = "find" => f.i <= MaxProcs /\ \A j \in Slots : j < f.i => state[j] # "UNUSED"
  /\ f.at = "x_scan" => state[t] = "ZOMBIE"

Owned  == \A t \in Slots : \A f \in On(t) : Sound(f, t)
Buried == \A t \in Slots : \A f \in Under(t) : f.at \notin HalfWritten /\ (~ stale => f.at \notin Scanning)

(* A thread off the processor rests in context_switch or has not started,   *)
(* and its context is its stack.                                            *)
Suspended ==
  \A t \in Slots \ {cpu} :
    /\ Made(t) =>
         /\ canary[t] /\ Live(t) /\ ctx[t] = [home |-> t, frames |-> stk[t]]
         /\ Head(stk[t]).at = "return" \/ (t # 0 /\ stk[t] = <<Run("task", 1)>>)
    /\ ~ Made(t) => stk[t] = <<>> /\ ctx[t] = Zero

(* Who runs: state, current and cpu take the new value in turn.             *)
Placed ==
  /\ current = IF Top.at \in {"save", "restore"} THEN Top.i ELSE cpu
  /\ state[cpu] \in IF Top.at \in Switching THEN {"READY", "ZOMBIE"} ELSE {"RUNNING", "ZOMBIE"}
  /\ ~ stale /\ Top.at \notin {"x_scan"} \cup Switching => state[cpu] = "RUNNING"
  /\ \A t \in Slots \ {cpu} :
       state[t] = "RUNNING" <=> Top.at \in {"current", "save", "restore"} /\ t = Top.i

(* What each label of the scheduler knows from the ones before it.          *)
Knows ==
  /\ Top.at = "publish" =>
       state[Top.i] = "UNUSED" /\ \A j \in Slots : j < Top.i => state[j] # "UNUSED"
  /\ Top.at \in Filling \cup {"park", "claim", "current", "save", "restore"} =>
       Top.i \in Slots /\ Top.i # cpu
  /\ Top.at \in Filling => Top.i # 0
  /\ Top.at = "build" => canary[Top.i]
  /\ Top.at \in Filling \cup {"park", "claim"} => state[Top.i] = "READY"
  /\ Top.at = "restore" =>
       ctx[cpu] = [home   |-> cpu,
                   frames |-> <<Frame("return", Top.old, Top.i)>> \o Tail(stk[cpu])]
  /\ ~ stale /\ Top.at \in Scanning =>
       Top.i > 0 /\ \A j \in 1 .. Top.i - 1 : state[(cpu + j) % MaxProcs] # "READY"

(* main is past sched_init.                                                 *)
Past ==
  Live(0) /\ Entered(0).prog = "main" =>
    \E k \in 1 .. Len(program["main"]) : program["main"][k] = {"init"} /\ k < Entered(0).op

Intact ==
  /\ state[0] # "UNUSED" /\ canary[cpu]
  /\ Owned /\ Buried /\ Suspended /\ Placed /\ Knows /\ Past

(* Before sched_init: a tick then ends in check_canary's panic.             *)
Booting ==
  /\ state   = [i \in Slots |-> "UNUSED"]
  /\ pid     = [i \in Slots |-> 0]
  /\ canary  = [i \in Slots |-> FALSE]
  /\ ctx     = [i \in Slots |-> Zero]
  /\ nextPid = 1
  /\ current = 0 /\ cpu = 0
  /\ \A t \in Slots \ {0} : stk[t] = <<>>
  /\ Top.at \in {"run", "bump", "check"}
  /\ Entered(0).prog = "main"
  /\ \A k \in 1 .. Entered(0).op - 1 : k <= Len(program["main"]) => program["main"][k] # {"init"}

IInv == PInv /\ Typed /\ (torn \/ Booting \/ Intact)

LEMMA StackIs ==
  ASSUME NEW s \in AnyStack
  PROVE  /\ s \in Seq(AnyFrame) /\ s # <<>> /\ Tail(s) \in Seq(AnyFrame)
         /\ Members(s) = {Head(s)} \cup Members(Tail(s))
         /\ s = Pushed(Head(s), Tail(s)) /\ Head(s) \in AnyFrame
         /\ Members(Tail(s)) \subseteq AnyFrame
<1>0. s \in Seq(AnyFrame) /\ s # <<>>
  <2>1. CASE s \in Nested
    <3>1. s = Pushed(Head(s), Tail(s)) /\ Head(s) \in AnyCall /\ Tail(s) \in Struck
      BY <2>1, NestedIs
    <3>2. Head(s) \in AnyFrame /\ Tail(s) \in Seq(AnyFrame)
      BY <3>1, StruckIs DEF AnyFrame
    <3>3. Pushed(Head(s), Tail(s)) \in Seq(AnyFrame) /\ Pushed(Head(s), Tail(s)) # <<>>
      BY <3>2, PushIs
    <3> QED
      BY <3>1, <3>3
  <2> QED
    BY <2>1, FreeIs, StruckIs DEF AnyStack
<1>1. PICK h \in AnyFrame, u \in Seq(AnyFrame) : s = Pushed(h, u)
  <2>1. Head(s) \in AnyFrame /\ Tail(s) \in Seq(AnyFrame) /\ s = <<Head(s)>> \o Tail(s)
    BY <1>0, HeadTailProperties
  <2> QED
    BY <2>1 DEF Pushed
<1>2. /\ Head(Pushed(h, u)) = h /\ Tail(Pushed(h, u)) = u
      /\ Members(Pushed(h, u)) = {h} \cup Members(u)
  BY <1>1, PushIs, ZenonT(60)
<1>3. Members(u) \subseteq AnyFrame
  <2>1. \A n \in 1 .. Len(u) : u[n] \in AnyFrame
    BY <1>1, LenProperties
  <2> QED
    BY <2>1 DEF Members
<1> QED
  BY <1>0, <1>1, <1>2, <1>3

LEMMA NoMembers == Members(<<>>) = {}
BY DEF Members

(* One step of a thread: s is what it leaves on the processor's stack, and  *)
(* nothing half way under the activation on top.                            *)
Restacked(s) ==
  /\ s \in AnyStack /\ stk' = [stk EXCEPT ![cpu] = s] /\ cpu' = cpu
  /\ \A f \in Members(Tail(s)) : f \in On(cpu) \/ f.at \in {"run", "trap"}

Light(s) ==
  \A f \in Members(Tail(s)) : f.at \notin HalfWritten /\ (~ stale' => f.at \notin Scanning)

(* No slot is freed and no process comes back.                              *)
Grows ==
  \A t \in Slots : /\ state[t] # "UNUSED" => state'[t] # "UNUSED"
                   /\ state[t] = "ZOMBIE" => state'[t] = "ZOMBIE"

LEMMA RestackedIs ==
  ASSUME Upright, NEW s, Restacked(s)
  PROVE  /\ cpu \in Slots /\ stk'[cpu] = s /\ \A t \in Slots \ {cpu} : stk'[t] = stk[t]
         /\ Top' = Head(s) /\ On(cpu)' = {Head(s)} \cup Members(Tail(s))
         /\ Under(cpu)' = Members(Tail(s))
         /\ \A t \in Slots \ {cpu} : /\ On(t)' = On(t) /\ Under(t)' = Under(t)
                                     /\ (Live(t)' <=> Live(t))
<1>1. cpu \in Slots /\ s \in AnyStack /\ stk' = [stk EXCEPT ![cpu] = s] /\ cpu' = cpu
  BY UprightTop DEF Restacked
<1>2. stk'[cpu] = s /\ \A t \in Slots \ {cpu} : stk'[t] = stk[t]
  BY <1>1 DEF Upright
<1>3. Members(s) = {Head(s)} \cup Members(Tail(s))
  BY <1>1, StackIs
<1>4. Top' = Head(s) /\ On(cpu)' = {Head(s)} \cup Members(Tail(s)) /\ Under(cpu)' = Members(Tail(s))
  BY <1>1, <1>2, <1>3 DEF Top, On, Under
<1>5. ASSUME NEW t \in Slots \ {cpu}
      PROVE  On(t)' = On(t) /\ Under(t)' = Under(t) /\ (Live(t)' <=> Live(t))
  BY <1>1, <1>2 DEF On, Under, Live, Members
<1> QED
  BY <1>1, <1>2, <1>4, <1>5

LEMMA UnderOn ==
  ASSUME Upright, NEW t \in Slots
  PROVE  Under(t) \subseteq On(t) /\ Top \in On(cpu) /\ On(cpu) = {Top} \cup Under(cpu)
<1>1. stk[cpu] \in AnyStack /\ Top = Head(stk[cpu])
  BY UprightTop
<1>2. Members(stk[cpu]) = {Top} \cup Members(Tail(stk[cpu]))
  BY <1>1, StackIs
<1> QED
  BY <1>1, <1>2 DEF Under, On

LEMMA PastStays ==
  ASSUME Past, Passes, program' = program
  PROVE  Past'
<1> SUFFICES ASSUME Live(0)', Entered(0)'.prog = "main"
             PROVE  \E k \in 1 .. Len(program["main"]) :
                      program["main"][k] = {"init"} /\ k < Entered(0)'.op
  BY DEF Past
<1>1. /\ Live(0) /\ Entered(0).prog = "main"
      /\ Entered(0).op \in Nat /\ Entered(0)'.op \in Nat /\ Entered(0).op <= Entered(0)'.op
  BY DEF Passes
<1>2. PICK k \in 1 .. Len(program["main"]) : program["main"][k] = {"init"} /\ k < Entered(0).op
  BY <1>1 DEF Past
<1>3. k < Entered(0)'.op
  BY <1>1, <1>2
<1> QED
  BY <1>2, <1>3

LEMMA StepIntact ==
  ASSUME Upright, Intact, NEW s, Restacked(s), Light(s), stale => stale', program' = program,
         Passes, Grows,
         \A t \in Slots \ {cpu} :
           ctx'[t] = ctx[t] /\ (canary[t] => canary'[t]) /\ (Made(t)' <=> Made(t)),
         canary'[cpu], Sound(Head(s), cpu)', Placed', Knows'
  PROVE  Intact'
<1>1. /\ cpu \in Slots /\ stk'[cpu] = s /\ cpu' = cpu /\ \A t \in Slots \ {cpu} : stk'[t] = stk[t]
      /\ Top' = Head(s) /\ On(cpu)' = {Head(s)} \cup Members(Tail(s))
      /\ Under(cpu)' = Members(Tail(s)) /\ 0 \in Slots
      /\ \A f \in Members(Tail(s)) : f \in On(cpu) \/ f.at \in {"run", "trap"}
      /\ \A t \in Slots \ {cpu} : On(t)' = On(t) /\ Under(t)' = Under(t) /\ (Live(t)' <=> Live(t))
  BY RestackedIs, UprightTop DEF Restacked
<1>2. ASSUME NEW t \in Slots, NEW f, Sound(f, t) PROVE Sound(f, t)'
  BY <1>2 DEF Sound, Grows
<1>3. ASSUME NEW f, NEW t \in Slots, f.at \in {"run", "trap"} PROVE Sound(f, t)'
  BY <1>3 DEF Sound
<1>4. Owned'
  <2>1. PICK c \in Slots : c = cpu
    BY <1>1
  <2>2. ASSUME NEW f \in On(c)' PROVE Sound(f, c)'
    <3>1. CASE f = Head(s)
      BY <1>1, <2>1, <3>1 DEF Sound
    <3>2. CASE f \in On(cpu)
      <4>1. Sound(f, c)
        BY <2>1, <3>2 DEF Intact, Owned
      <4> QED
        BY <1>2, <4>1
    <3>3. CASE f.at \in {"run", "trap"}
      BY <1>3, <3>3
    <3>4. f \in On(cpu)'
      BY <1>1, <2>1 DEF On
    <3> QED
      BY <1>1, <3>1, <3>2, <3>3, <3>4
  <2>3. ASSUME NEW t \in Slots \ {cpu}, NEW f \in On(t)' PROVE Sound(f, t)'
    <3>1. Sound(f, t)
      BY <1>1, <2>3 DEF Intact, Owned
    <3> QED
      BY <1>2, <3>1
  <2>4. ASSUME NEW t \in Slots, NEW f \in On(t)' PROVE Sound(f, t)'
    <3>1. CASE t = c
      BY <2>2, <2>4, <3>1
    <3>2. CASE t # c
      BY <2>1, <2>3, <2>4, <3>2
    <3> QED
      BY <3>1, <3>2
  <2> QED
    BY <2>4 DEF Owned
<1>5. Buried'
  <2>3. ASSUME NEW t \in Slots, NEW f \in Under(t)'
        PROVE  f.at \notin HalfWritten /\ (~ stale' => f.at \notin Scanning)
    <3>1. CASE t = cpu
      <4>1. f \in Under(cpu)'
        BY <1>1, <2>3, <3>1 DEF Under, On
      <4> QED
        BY <1>1, <4>1 DEF Light
    <3>2. CASE t # cpu
      BY <1>1, <2>3, <3>2 DEF Intact, Buried
    <3> QED
      BY <3>1, <3>2
  <2> QED
    BY <2>3 DEF Buried, HalfWritten, Scanning
<1>6. Suspended'
  <2>1. ASSUME NEW t \in Slots \ {cpu}
        PROVE  /\ Made(t)' =>
                    /\ canary'[t] /\ Live(t)' /\ ctx'[t] = [home |-> t, frames |-> stk'[t]]
                    /\ Head(stk'[t]).at = "return" \/ (t # 0 /\ stk'[t] = <<Run("task", 1)>>)
               /\ ~ Made(t)' => stk'[t] = <<>> /\ ctx'[t] = Zero
    BY <1>1, <2>1 DEF Intact, Suspended
  <2> QED
    BY <1>1, <2>1 DEF Suspended, Zero, Run
<1>7. Past'
  BY PastStays DEF Intact
<1>8. state'[0] # "UNUSED"
  BY <1>1 DEF Intact, Grows
<1> QED
  BY <1>1, <1>4, <1>5, <1>6, <1>7, <1>8 DEF Intact
----------------------------------------------------------------------------
(* The stacks that the steps leave.                                         *)
LEMMA NextPasses ==
  ASSUME ArmsOnce(program), EcallsEarly(program), PInv, [Next]_vars
  PROVE  Passes
<1>1. Upright /\ 0 \in Slots /\ cpu \in Slots
  BY UprightTop DEF PInv
<1>2. Live(0) => Entered(0).op \in Nat
  <2>1. Live(0) => Entered(0) \in AnyRun
    BY <1>1, AnyStackIs DEF Upright, Entered
  <2> QED
    BY <2>1 DEF AnyRun
<1>3. CASE Kept(0)
  <2>1. Run("task", 1).prog = "task"
    BY DEF Run
  <2> QED
    BY <1>2, <1>3, <2>1 DEF Kept, Passes
<1>4. ASSUME Advances(AfterOp), NEW op, Doing(op) PROVE Passes
  <2>1. AfterOp \in AnyRun /\ AfterOp.prog = Top.prog /\ AfterOp.op = Top.op + 1
    BY <1>1, <1>4, OpIs
  <2> QED
    BY <1>1, <1>4, <2>1, AdvancePasses
<1>5. Acquire \/ Release => Doing("lock") \/ Doing("unlock")
  BY DEF Acquire, Release
<1>6. CASE Allocates
  <2>1. Live(cpu)
    BY <1>1, UprightTop
  <2> QED
    BY <1>1, <1>2, <1>6, <2>1 DEF Allocates, Same, Passes
<1> QED
  BY <1>1, <1>3, <1>4, <1>5, <1>6, StepIs DEF Quietly

LEMMA StaysStack ==
  ASSUME Upright, Top.at = "run", NEW r \in AnyRun,
         stk' = [stk EXCEPT ![cpu] = <<r>> \o Tail(@)], cpu' = cpu
  PROVE  Restacked(<<r>>) /\ Light(<<r>>) /\ Head(<<r>>) = r
<1> DEFINE s == <<r>>
<1>1. s \in Resting /\ Head(s) = r /\ Tail(s) = <<>> /\ s \o <<>> = s
  BY RestingOn, OneIs DEF Pushed
<1>2. Tail(stk[cpu]) = <<>> /\ cpu \in Slots
  BY RunTop, UprightTop
<1>3. stk' = [stk EXCEPT ![cpu] = s]
  BY <1>1, <1>2
<1> HIDE DEF s
<1>4. s \in AnyStack /\ Members(Tail(s)) = {}
  BY <1>1, RestingIs, NoMembers
<1> QED
  BY <1>1, <1>3, <1>4 DEF Restacked, Light, s

LEMMA CallsStack ==
  ASSUME Upright, Top.at = "run", NEW r \in AnyRun, NEW f \in AnyCall \cup AllocFrames,
         stk' = [stk EXCEPT ![cpu] = <<f, r>> \o Tail(@)], cpu' = cpu
  PROVE  Restacked(Pushed(f, <<r>>)) /\ Light(Pushed(f, <<r>>)) /\ Head(Pushed(f, <<r>>)) = f
<1> DEFINE s == Pushed(f, <<r>>)
<1>1. <<r>> \in Resting /\ f \in AnyFrame /\ r \in AnyFrame /\ Members(<<r>>) = {r} /\ r.at = "run"
  BY RestingOn, OneIs DEF AnyFrame, AnyRun
<1>2. s \in Calling
  BY <1>1 DEF Calling
<1>3. Head(s) = f /\ Tail(s) = <<r>>
  <2>1. <<r>> \in Seq(AnyFrame)
    BY <1>1, RestingIs
  <2> QED
    BY <1>1, <2>1, PushIs
<1>4. stk' = [stk EXCEPT ![cpu] = s]
  <2>1. Tail(stk[cpu]) = <<>> /\ cpu \in Slots
    BY RunTop, UprightTop
  <2>2. <<f, r>> \o <<>> = s
    BY <1>1, PushTwo
  <2> QED
    BY <2>1, <2>2
<1> HIDE DEF s
<1>5. s \in AnyStack
  BY <1>2, CallingIs
<1>6. \A g \in Members(Tail(s)) : g.at = "run"
  BY <1>1, <1>3
<1>7. "run" \notin HalfWritten /\ "run" \notin Scanning
  BY DEF HalfWritten, Scanning
<1> QED
  BY <1>3, <1>4, <1>5, <1>6, <1>7 DEF Restacked, Light, s

LEMMA UnderLight ==
  ASSUME Upright, Buried, NEW s, Members(Tail(s)) \subseteq Under(cpu), stale' = stale
  PROVE  Light(s)
BY UprightTop DEF Buried, Light

LEMMA GotoStack ==
  ASSUME Upright, Buried, Top.at \in Labels \ {"bump"}, NEW f \in AnyCall, Goto(f),
         cpu' = cpu, stale' = stale
  PROVE  \E s : Restacked(s) /\ Light(s) /\ Head(s) = f /\ s = Pushed(f, Tail(stk[cpu]))
<1> DEFINE u == Tail(stk[cpu])
           s == Pushed(f, u)
<1>1. u \in Resting \cup Struck /\ cpu \in Slots
  BY InnerTail
<1>2. Members(u) = Under(cpu)
  BY DEF Under
<1>3. stk' = [stk EXCEPT ![cpu] = s]
  BY <1>1 DEF Goto, Pushed
<1> HIDE DEF u
<1>4. s \in AnyStack /\ Head(s) = f /\ Tail(s) = u
  BY <1>1, CallOn
<1> HIDE DEF s
<1>5. Light(s)
  BY <1>2, <1>4, UnderLight
<1>6. \A g \in Members(Tail(s)) : g \in On(cpu)
  BY <1>1, <1>2, <1>4, UnderOn
<1>7. Restacked(s)
  BY <1>3, <1>4, <1>6 DEF Restacked
<1> QED
  BY <1>4, <1>5, <1>7 DEF s, u

LEMMA ReturnStack ==
  ASSUME Upright, Buried, Top.at # "run", Return, cpu' = cpu, stale' = stale
  PROVE  \E s : /\ Restacked(s) /\ Light(s) /\ Head(s) \in Under(cpu) /\ s = Tail(stk[cpu])
                /\ Head(s).at \in Labels \cup {"run", "trap"}
                /\ Top.at # "trap" => Head(s).at \in {"run", "trap"}
                /\ Top.at = "trap" => Head(s).at # "trap"
<1> DEFINE u == Tail(stk[cpu])
<1>1. /\ cpu \in Slots /\ stk[cpu] \in AnyStack /\ Top = Head(stk[cpu])
      /\ Top.at \in Labels \cup {"run", "trap"}
  BY UprightTop
<1>2. stk' = [stk EXCEPT ![cpu] = u]
  BY <1>1 DEF Return
<1>3. Members(u) = Under(cpu)
  BY DEF Under
<1> HIDE DEF u
<1>4. /\ u \in AnyStack
      /\ Top.at # "trap" => Head(u).at \in {"run", "trap"}
      /\ Top.at = "trap" => Head(u).at # "trap"
  <2>1. CASE Top.at = "trap"
    <3>1. u \in Free
      BY <1>1, <2>1, AnyStackIs, StruckIs DEF u
    <3>2. u \in AnyStack /\ ~ Hit(u)
      BY <3>1, FreeIs
    <3> QED
      BY <2>1, <3>2, AnyStackIs, StruckIs
  <2>2. CASE Top.at = "bump"
    <3>1. u \in Resting
      BY <1>1, <2>2, AnyStackIs, CallingIs DEF u
    <3>2. u \in AnyStack /\ Head(u) \in AnyRun
      BY <3>1, RestingIs
    <3> QED
      BY <2>2, <3>2 DEF AnyRun
  <2>3. CASE Top.at \in Labels \ {"bump"}
    <3>1. u \in Resting \cup Struck
      BY <1>1, <2>3, AnyStackIs DEF u
    <3>2. u \in AnyStack /\ (Head(u) \in AnyRun \/ Head(u) = TrapFrame)
      BY <3>1, RestingIs, StruckIs
    <3>3. Top.at # "trap"
      BY <2>3 DEF Labels
    <3> QED
      BY <3>2, <3>3 DEF AnyRun, TrapFrame
  <2> QED
    BY <1>1, <2>1, <2>2, <2>3
<1>5. /\ Members(u) = {Head(u)} \cup Members(Tail(u))
      /\ Head(u).at \in Labels \cup {"run", "trap"}
  BY <1>4, StackIs, AnyStackIs
<1>6. Light(u)
  BY <1>3, <1>5, UnderLight
<1>7. \A g \in Members(Tail(u)) : g \in On(cpu)
  BY <1>1, <1>3, <1>5, UnderOn
<1>8. Restacked(u)
  BY <1>2, <1>4, <1>7 DEF Restacked
<1> QED
  BY <1>3, <1>4, <1>5, <1>6, <1>8 DEF u
----------------------------------------------------------------------------
(* Steps that write nothing others see.                                     *)
Calm == {"run", "bump", "trap", "find", "publish", "check", "scan",
         "x_check", "x_zombie", "x_scan", "return"}

LEMMA CalmIntact ==
  ASSUME Upright, Intact, NEW s, Restacked(s), Light(s), stale => stale', Passes,
         UNCHANGED <<state, canary, ctx, current, program>>,
         Top.at \in Calm, Head(s).at \in Calm \cup {"park"},
         Top.at = "x_scan" => Head(s).at = "x_scan" \/ stale',
         Sound(Head(s), cpu)', Knows'
  PROVE  Intact'
<1>1. cpu \in Slots /\ cpu' = cpu /\ Top' = Head(s) /\ 0 \in Slots
  BY RestackedIs, UprightTop DEF Restacked
<1>2. \A t \in Slots : Made(t)' <=> Made(t)
  BY <1>1 DEF Made, Calm, Filling
<1>3. Placed'
  BY <1>1 DEF Intact, Placed, Calm, Switching
<1>4. Grows /\ canary'[cpu]
  BY DEF Grows, Intact
<1> QED
  BY <1>2, <1>3, <1>4, StepIntact

Plain == {"run", "bump", "trap", "check", "x_check", "x_zombie", "return"}

LEMMA PlainIntact ==
  ASSUME Upright, Intact, NEW s, Restacked(s), Light(s), stale => stale', Passes,
         UNCHANGED <<state, canary, ctx, current, program>>,
         Top.at \in Calm, Head(s).at \in Plain, Top.at = "x_scan" => stale'
  PROVE  Intact'
<1>1. Top' = Head(s)
  BY RestackedIs
<1>2. Sound(Head(s), cpu)'
  BY DEF Sound, Plain
<1>3. Knows'
  BY <1>1 DEF Knows, Plain, Filling, Scanning
<1> QED
  BY <1>2, <1>3, CalmIntact DEF Calm, Plain

LEMMA StillIntact ==
  ASSUME Intact, UNCHANGED <<state, canary, ctx, current, stk, cpu, program, stale>>
  PROVE  Intact'
<1>1. Top' = Top /\ \A t : Live(t)' = Live(t) /\ Entered(t)' = Entered(t) /\ On(t)' = On(t)
                           /\ Under(t)' = Under(t) /\ Made(t)' = Made(t)
  BY DEF Top, Live, Entered, On, Under, Made
<1>2. Owned'
  BY <1>1 DEF Intact, Owned, Sound
<1>3. Buried'
  BY <1>1 DEF Intact, Buried
<1>4. Suspended'
  BY <1>1 DEF Intact, Suspended, Zero, Run
<1>5. Placed'
  BY <1>1 DEF Intact, Placed
<1>6. Knows'
  BY <1>1 DEF Intact, Knows, Frame
<1>7. Past'
  BY <1>1 DEF Intact, Past
<1> QED
  BY <1>2, <1>3, <1>4, <1>5, <1>6, <1>7 DEF Intact
----------------------------------------------------------------------------
(* What the activation on top is.                                           *)
LEMMA TopIs ==
  ASSUME Upright, Intact
  PROVE  /\ cpu \in Slots /\ 0 \in Slots /\ Sound(Top, cpu) /\ canary[cpu]
         /\ current = IF Top.at \in {"save", "restore"} THEN Top.i ELSE cpu
<1>1. cpu \in Slots /\ 0 \in Slots /\ Top \in On(cpu)
  BY UprightTop, UnderOn
<1> QED
  BY <1>1 DEF Intact, Owned, Placed

(* Calls of the entry functions.                                            *)
LEMMA OpIntact ==
  ASSUME Upright, Intact, Passes, bump \in Nat,
         Work \/ Arm \/ Ecall \/ Acquire \/ Release \/ AllocTest \/ AllocBump
  PROVE  Intact'
<1>1. UNCHANGED <<state, canary, ctx, current, program, cpu, stale>>
  BY DEF Work, Arm, Ecall, Acquire, Release, AllocTest, AllocBump, procVars, otherVars, sharedVars,
     tickVars
<1>2. ASSUME NEW s, Restacked(s), Light(s), Top.at \in {"run", "bump"}, Head(s).at \in Plain
      PROVE  Intact'
  BY <1>1, <1>2, PlainIntact DEF Calm
<1>3. ASSUME NEW op, Doing(op), Goto(AfterOp) PROVE Intact'
  <2>1. Top.at = "run" /\ AfterOp \in AnyRun
    BY <1>3, OpIs
  <2>2. Restacked(<<AfterOp>>) /\ Light(<<AfterOp>>) /\ Head(<<AfterOp>>) = AfterOp
    BY <1>1, <1>3, <2>1, StaysStack DEF Goto
  <2>3. Head(<<AfterOp>>).at \in Plain
    BY <2>1, <2>2 DEF AnyRun, Plain
  <2> QED
    BY <1>2, <2>1, <2>2, <2>3
<1>4. ASSUME NEW op, Doing(op), Call(Frame("bump", 0, bump)) PROVE Intact'
  <2> DEFINE f == Frame("bump", 0, bump)
  <2>1. Top.at = "run" /\ AfterOp \in AnyRun
    BY <1>4, OpIs
  <2>2. f \in AnyCall \cup AllocFrames /\ f.at \in Plain
    BY DEF Frame, AllocFrames, Plain
  <2>3. stk' = [stk EXCEPT ![cpu] = <<f, AfterOp>> \o Tail(@)]
    BY <1>4 DEF Call
  <2> HIDE DEF f
  <2>4. /\ Restacked(Pushed(f, <<AfterOp>>)) /\ Light(Pushed(f, <<AfterOp>>))
        /\ Head(Pushed(f, <<AfterOp>>)) = f
    BY <1>1, <2>1, <2>2, <2>3, CallsStack
  <2> QED
    BY <1>2, <2>1, <2>2, <2>4
<1>5. CASE AllocBump
  <2>1. Top.at = "bump" /\ Return
    BY <1>5 DEF AllocBump, At
  <2>2. PICK s : Restacked(s) /\ Light(s) /\ Head(s).at \in {"run", "trap"}
    BY <1>1, <2>1, ReturnStack DEF Intact
  <2> QED
    BY <1>2, <2>1, <2>2 DEF Plain
<1> QED
  BY <1>3, <1>4, <1>5 DEF Work, Arm, Ecall, Acquire, Release, AllocTest

LEMMA CallIntact ==
  ASSUME Upright, Intact, Passes, CallScheduler \/ EntryReturns
  PROVE  Intact'
<1>1. /\ UNCHANGED <<state, canary, ctx, current, program, cpu, stale>>
      /\ 0 \in Slots /\ MaxProcs \in Nat
  BY UprightTop DEF CallScheduler, EntryReturns, procVars, otherVars, sharedVars, tickVars
<1>2. PICK r \in AnyRun, f \in {Frame("find", 0, 0), Frame("check", 0, 1), Frame("x_check", 0, 1)} :
        Top.at = "run" /\ stk' = [stk EXCEPT ![cpu] = <<f, r>> \o Tail(@)]
  <2>1. CASE CallScheduler
    <3>1. PICK op : Doing(op) /\ ( \/ Call(Frame("find", 0, 0)) \/ Call(Frame("check", 0, 1))
                                  \/ Call(Frame("x_check", 0, 1)) )
      BY <2>1 DEF CallScheduler
    <3>2. Top.at = "run" /\ AfterOp \in AnyRun
      BY <3>1, OpIs
    <3> QED
      BY <3>1, <3>2 DEF Call
  <2>2. CASE EntryReturns
    <3>1. Run("task", 1) \in AnyRun
      BY DEF Run, AnyRun
    <3> QED
      BY <2>2, <3>1 DEF EntryReturns, At
  <2> QED
    BY <2>1, <2>2
<1>3. f \in AnyCall /\ f.i \in {0, 1} /\ f.at \in {"find", "check", "x_check"} /\ (f.at = "find" => f.i = 0)
  <2>1. \A a \in {"find", "check", "x_check"} : a \in Labels \ {"bump"} /\ a \notin HalfWritten
    BY DEF Labels, HalfWritten
  <2>2. f \in AnyCall
    BY <1>1, <2>1, AnyCallIs
  <2> QED
    BY <2>2 DEF Frame
<1>4. /\ Restacked(Pushed(f, <<r>>)) /\ Light(Pushed(f, <<r>>)) /\ Head(Pushed(f, <<r>>)) = f
  BY <1>1, <1>2, <1>3, CallsStack
<1>5. PICK s : Restacked(s) /\ Light(s) /\ Head(s) = f
  BY <1>4
<1>6. Top' = f
  BY <1>5, RestackedIs
<1>7. \A j \in Slots : ~ j < 0
  BY DEF Slots
<1>8. Sound(f, cpu)'
  BY <1>1, <1>3, <1>7 DEF Sound
<1>9. Knows'
  BY <1>3, <1>6 DEF Knows, Filling, Scanning
<1> QED
  BY <1>1, <1>2, <1>3, <1>5, <1>8, <1>9, CalmIntact DEF Calm

(* A step of a call goes on to activation f, ...                            *)
LEMMA GoesIntact ==
  ASSUME Upright, Intact, Passes, Grows, NEW f \in AnyCall, Goto(f), Top.at \in Labels \ {"bump"},
         UNCHANGED <<cpu, program, stale>>,
         \A t \in Slots \ {cpu} :
           ctx'[t] = ctx[t] /\ (canary[t] => canary'[t]) /\ (Made(t)' <=> Made(t)),
         canary'[cpu], Top' = f => Sound(f, cpu)' /\ Placed' /\ Knows'
  PROVE  Intact'
<1>1. PICK s : Restacked(s) /\ Light(s) /\ Head(s) = f
  BY GotoStack DEF Intact
<1>2. Top' = f
  BY <1>1, RestackedIs
<1> QED
  BY <1>1, <1>2, StepIntact

(* ... or returns.                                                          *)
LEMMA BackIntact ==
  ASSUME Upright, Intact, Passes, Return, Top.at \in {"find", "scan", "return"},
         UNCHANGED <<state, canary, ctx, current, cpu, program, stale>>
  PROVE  Intact'
<1>1. PICK s : Restacked(s) /\ Light(s) /\ Head(s).at \in {"run", "trap"}
  BY ReturnStack DEF Intact
<1> QED
  BY <1>1, PlainIntact DEF Calm, Plain

(* sched_spawn.                                                             *)
LEMMA SpawnFrames ==
  ASSUME Upright, NEW i \in Slots
  PROVE  /\ \A a \in {"publish", "number", "canary", "build"} : Frame(a, 0, i) \in AnyCall
         /\ Frame("find", 0, i + 1) \in AnyCall
<1>1. 0 \in Slots /\ i \in Nat
  BY UprightTop, SlotIsNat
<1>2. \A a \in {"publish", "number", "canary", "build", "find"} : a \in Labels \ {"bump"}
  BY DEF Labels
<1>3. "find" \notin HalfWritten
  BY DEF HalfWritten
<1> QED
  BY <1>1, <1>2, <1>3, AnyCallIs

LEMMA FindIntact ==
  ASSUME Upright, Intact, Passes, SpawnFind
  PROVE  Intact'
<1>1. /\ Top.at = "find" /\ Top.at \in Labels \ {"bump"}
      /\ UNCHANGED <<state, canary, ctx, current, program, cpu, stale>>
  BY DEF SpawnFind, At, Labels, procVars, otherVars, sharedVars, tickVars
<1>2. PICK i, c : i = Top.i /\ c = cpu
  OBVIOUS
<1>3. /\ i \in Nat /\ c \in Slots /\ MaxProcs \in Nat \ {0}
      /\ i <= MaxProcs /\ \A j \in Slots : j < i => state[j] # "UNUSED"
      /\ canary[c] /\ current = c
  BY <1>1, <1>2, InnerFrame, TopIs, UprightTop DEF Sound
<1>4. CASE Return
  BY <1>1, <1>4, BackIntact
<1>5. CASE i < MaxProcs /\ state[i] # "UNUSED" /\ Goto(Frame("find", 0, i + 1))
  <2> DEFINE f == Frame("find", 0, i + 1)
  <2>1. i \in Slots
    BY <1>3, <1>5 DEF Slots
  <2>2. f \in AnyCall /\ f.at = "find" /\ f.i = i + 1
    BY <2>1, SpawnFrames DEF Frame
  <2> HIDE DEF f
  <2>3. \A j \in Slots : j < i + 1 => j < i \/ j = i
    BY <1>3 DEF Slots
  <2>4. Sound(f, cpu)'
    BY <1>1, <1>3, <1>5, <2>2, <2>3 DEF Sound
  <2>5. PICK s : Restacked(s) /\ Light(s) /\ Head(s) = f
    BY <1>1, <1>5, <2>2, GotoStack DEF Intact, f
  <2>6. Knows'
    BY <2>2, <2>5, RestackedIs DEF Knows, Filling, Scanning
  <2> QED
    BY <1>1, <2>2, <2>4, <2>5, <2>6, CalmIntact DEF Calm
<1>6. CASE i < MaxProcs /\ state[i] = "UNUSED" /\ Goto(Frame("publish", 0, i))
  <2> DEFINE f == Frame("publish", 0, i)
  <2>1. i \in Slots
    BY <1>3, <1>6 DEF Slots
  <2>2. f \in AnyCall /\ f.at = "publish" /\ f.i = i
    BY <2>1, SpawnFrames DEF Frame
  <2> HIDE DEF f
  <2>4. Sound(f, cpu)'
    BY <2>2 DEF Sound
  <2>5. PICK s : Restacked(s) /\ Light(s) /\ Head(s) = f
    BY <1>1, <1>6, <2>2, GotoStack DEF Intact, f
  <2>6. Knows'
    BY <1>1, <1>3, <1>6, <2>2, <2>5, RestackedIs DEF Knows, Filling, Scanning
  <2> QED
    BY <1>1, <2>2, <2>4, <2>5, <2>6, CalmIntact DEF Calm
<1> QED
  BY <1>2, <1>4, <1>5, <1>6 DEF SpawnFind

LEMMA PublishIntact ==
  ASSUME Upright, Typed, Intact, Passes, SpawnPublish
  PROVE  Intact'
<1>1. PICK i, c : i = Top.i /\ c = cpu
  OBVIOUS
<1> DEFINE f == Frame("number", 0, i)
<1>2. /\ Top.at = "publish" /\ Top.at \in Labels \ {"bump"} /\ Goto(f)
      /\ state' = [state EXCEPT ![i] = "READY"]
      /\ UNCHANGED <<canary, ctx, current, program, cpu, stale>>
  BY <1>1 DEF SpawnPublish, At, Labels, otherVars, sharedVars, tickVars
<1>3. /\ c \in Slots /\ canary[c] /\ current = c /\ i \in Slots /\ state[i] = "UNUSED"
      /\ state[c] \in {"RUNNING", "ZOMBIE"} /\ (~ stale => state[c] = "RUNNING")
      /\ \A t \in Slots \ {c} : state[t] # "RUNNING"
      /\ state[0] # "UNUSED"
  BY <1>1, <1>2, TopIs, InnerFrame DEF HalfWritten, Intact, Knows, Placed, Switching
<1>4. f \in AnyCall /\ f.at = "number" /\ f.i = i
  BY <1>3, SpawnFrames DEF Frame
<1> HIDE DEF f
<1>5. state'[i] = "READY" /\ \A t \in Slots \ {i} : state'[t] = state[t]
  BY <1>2, <1>3 DEF Typed
<1>6. Grows
  BY <1>3, <1>5 DEF Grows
<1>7. ASSUME Top' = f
      PROVE  /\ \A t \in Slots : Made(t)' <=> Made(t)
             /\ Sound(f, cpu)' /\ Placed' /\ Knows'
  <2>1. \A t \in Slots : Made(t)' <=> Made(t)
    BY <1>2, <1>3, <1>4, <1>5, <1>7 DEF Made, Filling
  <2>2. Placed'
    BY <1>1, <1>2, <1>3, <1>4, <1>5, <1>7 DEF Placed, Switching
  <2>3. Knows'
    BY <1>1, <1>2, <1>3, <1>4, <1>5, <1>7 DEF Knows, Filling, Scanning
  <2> QED
    BY <1>4, <2>1, <2>2, <2>3 DEF Sound
<1>8. Top' = f
  <2>1. PICK s : Restacked(s) /\ Light(s) /\ Head(s) = f
    BY <1>2, <1>4, GotoStack DEF Intact
  <2> QED
    BY <2>1, RestackedIs
<1> QED
  BY <1>1, <1>2, <1>3, <1>4, <1>6, <1>7, <1>8, GoesIntact

LEMMA NumberIntact ==
  ASSUME Upright, Typed, Intact, Passes, SpawnNumber \/ SpawnCanary
  PROVE  Intact'
<1>1. PICK i, c : i = Top.i /\ c = cpu
  OBVIOUS
<1>2. PICK f \in {Frame("canary", 0, i), Frame("build", 0, i)} :
        /\ Top.at \in {"number", "canary"} /\ Top.at \in Labels \ {"bump"} /\ Goto(f)
        /\ canary' \in {canary, [canary EXCEPT ![i] = TRUE]}
        /\ (f.at = "build" => canary' = [canary EXCEPT ![i] = TRUE])
        /\ UNCHANGED <<state, ctx, current, program, cpu, stale>>
  BY <1>1 DEF SpawnNumber, SpawnCanary, At, Labels, Frame, otherVars, sharedVars, tickVars
<1>3. /\ c \in Slots /\ canary[c] /\ current = c /\ i \in Slots /\ i # c /\ i # 0
      /\ state[i] = "READY"
      /\ state[c] \in {"RUNNING", "ZOMBIE"} /\ (~ stale => state[c] = "RUNNING")
      /\ \A t \in Slots \ {c} : state[t] # "RUNNING"
  BY <1>1, <1>2, TopIs, InnerFrame DEF HalfWritten, Intact, Knows, Placed, Switching, Filling
<1>4. f \in AnyCall /\ f.at \in {"canary", "build"} /\ f.i = i
  <2>1. f \in AnyCall
    BY <1>3, SpawnFrames
  <2> QED
    BY <2>1 DEF Frame
<1>5. \A t \in Slots : canary[t] => canary'[t]
  BY <1>2, <1>3 DEF Typed
<1>6. f.at = "build" => canary'[i]
  BY <1>2, <1>3 DEF Typed
<1>7. Grows
  BY <1>2 DEF Grows
<1>8. Top' = f
  <2>1. PICK s : Restacked(s) /\ Light(s) /\ Head(s) = f
    BY <1>2, <1>4, GotoStack DEF Intact
  <2> QED
    BY <2>1, RestackedIs
<1>9. \A t \in Slots : Made(t)' <=> Made(t)
  BY <1>1, <1>2, <1>4, <1>8 DEF Made, Filling
<1>10. Placed'
  BY <1>1, <1>2, <1>3, <1>4, <1>8 DEF Placed, Switching
<1>11. Knows'
  BY <1>1, <1>2, <1>3, <1>4, <1>6, <1>8 DEF Knows, Filling, Scanning
<1>12. Sound(f, cpu)'
  BY <1>4 DEF Sound
<1> QED
  BY <1>1, <1>2, <1>3, <1>4, <1>5, <1>7, <1>9, <1>10, <1>11, <1>12, GoesIntact

(* The new stack: no other thread has looked at it yet.                     *)
LEMMA BuildIntact ==
  ASSUME Upright, Typed, Intact, Passes, SpawnBuild
  PROVE  Intact'
<1>1. PICK i, c, u : i = Top.i /\ c = cpu /\ u = Tail(stk[cpu])
  OBVIOUS
<1> DEFINE fresh == <<Run("task", 1)>>
<1>2. /\ Top.at = "build" /\ Top.at \in Labels \ {"bump"}
      /\ ctx' = [ctx EXCEPT ![i] = [home |-> i, frames |-> fresh]]
      /\ stk' = [stk EXCEPT ![c] = u, ![i] = fresh]
      /\ UNCHANGED <<state, canary, current, program, cpu, stale>>
  BY <1>1 DEF SpawnBuild, At, Labels, procVars, otherVars, sharedVars, tickVars
<1>3. /\ c \in Slots /\ canary[c] /\ current = c /\ i \in Slots /\ i # c /\ i # 0 /\ canary[i]
      /\ state[i] = "READY" /\ state[0] # "UNUSED"
      /\ state[c] \in {"RUNNING", "ZOMBIE"} /\ (~ stale => state[c] = "RUNNING")
      /\ \A t \in Slots \ {c} : state[t] # "RUNNING"
  BY <1>1, <1>2, TopIs, InnerFrame DEF HalfWritten, Intact, Knows, Placed, Switching, Filling
<1>4. /\ fresh # <<>> /\ Members(fresh) = {Run("task", 1)} /\ Head(fresh) = Run("task", 1)
      /\ Run("task", 1).at = "run" /\ Run("task", 1).prog = "task"
  BY OneIs DEF Run
<1>5. /\ u \in AnyStack /\ Head(u).at \in {"run", "trap"}
      /\ Members(u) = {Head(u)} \cup Members(Tail(u)) /\ Members(u) \subseteq On(c)
      /\ Members(u) = Under(c)
  <2>1. u \in Resting \cup Struck
    BY <1>1, <1>2, InnerTail
  <2>2. u \in AnyStack /\ (Head(u) \in AnyRun \/ Head(u) = TrapFrame)
    BY <2>1, RestingIs, StruckIs
  <2>3. Members(u) = Under(c)
    BY <1>1 DEF Under
  <2>4. Members(u) = {Head(u)} \cup Members(Tail(u)) /\ Under(c) \subseteq On(c)
    BY <1>3, <2>2, StackIs, UnderOn
  <2>5. Head(u).at \in {"run", "trap"}
    BY <2>2 DEF AnyRun, TrapFrame
  <2> QED
    BY <2>2, <2>3, <2>4, <2>5
<1> HIDE DEF fresh
<1>6. /\ stk'[i] = fresh /\ stk'[c] = u /\ \A t \in Slots \ {i, c} : stk'[t] = stk[t]
      /\ ctx'[i] = [home |-> i, frames |-> fresh]
      /\ \A t \in Slots \ {i} : ctx'[t] = ctx[t]
  BY <1>2, <1>3 DEF Upright
<1>7. /\ Top' = Head(u) /\ Top'.at \in {"run", "trap"}
      /\ On(i)' = {Run("task", 1)} /\ On(c)' = Members(u)
      /\ Under(c)' = Members(Tail(u)) /\ Under(i)' = On(i)'
      /\ \A t \in Slots \ {i, c} : On(t)' = On(t) /\ Under(t)' = Under(t)
  <2>1. cpu' = c /\ Top' = Head(u) /\ Under(c)' = Members(Tail(u))
    BY <1>1, <1>2, <1>6 DEF Top, Under
  <2>2. ASSUME NEW t \in Slots PROVE On(t)' = Members(stk'[t]) /\ On(t) = Members(stk[t])
    BY DEF On
  <2>3. ASSUME NEW t \in Slots \ {c} PROVE Under(t)' = On(t)' /\ Under(t) = On(t)
    BY <1>1, <2>1 DEF Under
  <2> QED
    BY <1>3, <1>4, <1>5, <1>6, <2>1, <2>2, <2>3
<1>8. \A t \in Slots : Made(t)' <=> (t = i \/ Made(t))
  BY <1>1, <1>2, <1>3, <1>7 DEF Made, Filling
<1>9. Owned'
  <2>1. ASSUME NEW t \in Slots, NEW f \in On(t)' PROVE Sound(f, t)'
    <3>1. CASE t = i
      BY <1>4, <1>7, <2>1, <3>1 DEF Sound
    <3>2. CASE t # i
      <4>1. f \in On(t)
        BY <1>5, <1>7, <2>1, <3>2
      <4>2. Sound(f, t)
        BY <4>1 DEF Intact, Owned
      <4> QED
        BY <1>2, <4>2 DEF Sound
    <3> QED
      BY <3>1, <3>2
  <2> QED
    BY <2>1 DEF Owned
<1>10. Buried'
  <2>1. ASSUME NEW t \in Slots, NEW f \in Under(t)'
        PROVE  f \in Under(t) \/ f.at = "run"
    BY <1>3, <1>4, <1>5, <1>7, <2>1
  <2>2. "run" \notin HalfWritten /\ "run" \notin Scanning
    BY DEF HalfWritten, Scanning
  <2>3. ASSUME NEW t \in Slots, NEW f \in Under(t)'
        PROVE  f.at \notin HalfWritten /\ (~ stale' => f.at \notin Scanning)
    BY <1>2, <2>1, <2>2, <2>3 DEF Intact, Buried
  <2> QED
    BY <2>3 DEF Buried, HalfWritten, Scanning
<1>11. Suspended'
  <2>1. ASSUME NEW t \in Slots \ {c}
        PROVE  /\ Made(t)' =>
                    /\ canary'[t] /\ Live(t)' /\ ctx'[t] = [home |-> t, frames |-> stk'[t]]
                    /\ Head(stk'[t]).at = "return" \/ (t # 0 /\ stk'[t] = <<Run("task", 1)>>)
               /\ ~ Made(t)' => stk'[t] = <<>> /\ ctx'[t] = Zero
    <3>1. CASE t = i
      BY <1>2, <1>3, <1>4, <1>6, <1>8, <3>1 DEF Live, fresh
    <3>2. CASE t # i
      <4>1. stk'[t] = stk[t] /\ ctx'[t] = ctx[t] /\ (Made(t)' <=> Made(t)) /\ (Live(t)' <=> Live(t))
        BY <1>6, <1>8, <2>1, <3>2 DEF Live
      <4>2. canary' = canary /\ t \in Slots \ {cpu}
        BY <1>1, <1>2, <2>1
      <4> QED
        BY <4>1, <4>2 DEF Intact, Suspended
    <3> QED
      BY <3>1, <3>2
  <2> QED
    BY <1>1, <1>2, <2>1 DEF Suspended, Zero, Run
<1>12. Placed'
  BY <1>1, <1>2, <1>3, <1>7 DEF Placed, Switching
<1>13. Knows'
  BY <1>7 DEF Knows, Filling, Scanning
<1>14. Past'
  BY <1>2, PastStays DEF Intact
<1>15. state'[0] # "UNUSED" /\ canary'[cpu']
  BY <1>1, <1>2, <1>3
<1> QED
  BY <1>9, <1>10, <1>11, <1>12, <1>13, <1>14, <1>15 DEF Intact

(* sched_yield.                                                             *)
LEMMA YieldCheckIntact ==
  ASSUME Upright, Intact, Passes, YieldCheck
  PROVE  Intact'
<1>1. PICK c : c = cpu
  OBVIOUS
<1> DEFINE f == Frame("scan", c, 1)
<1>2. /\ Top.at = "check" /\ Top.at \in Labels \ {"bump"} /\ current = c /\ c \in Slots /\ canary[c]
      /\ UNCHANGED <<state, canary, ctx, current, program, cpu, stale>>
  BY <1>1, TopIs DEF YieldCheck, At, Labels, procVars, otherVars, sharedVars, tickVars
<1>3. Goto(f)
  BY <1>1, <1>2 DEF YieldCheck
<1>4. f \in AnyCall /\ f.at = "scan" /\ f.old = c /\ f.i = 1
  BY <1>2, AnyCallIs DEF Labels, HalfWritten, Frame
<1> HIDE DEF f
<1>5. PICK s : Restacked(s) /\ Light(s) /\ Head(s) = f
  BY <1>2, <1>3, <1>4, GotoStack DEF Intact
<1>6. Sound(f, cpu)'
  BY <1>1, <1>2, <1>4 DEF Sound
<1>7. Knows'
  BY <1>4, <1>5, RestackedIs DEF Knows, Filling, Scanning
<1> QED
  BY <1>2, <1>4, <1>5, <1>6, <1>7, CalmIntact DEF Calm

LEMMA YieldScanIntact ==
  ASSUME Upright, Intact, Passes, YieldScan
  PROVE  Intact'
<1>1. PICK i, c, next : i = Top.i /\ c = cpu /\ next = (c + i) % MaxProcs
  OBVIOUS
<1>2. /\ Top.at = "scan" /\ Top.at \in Labels \ {"bump"}
      /\ UNCHANGED <<state, canary, ctx, current, program, cpu, stale>>
  BY DEF YieldScan, YieldScanWith, At, Labels, procVars, otherVars, sharedVars, tickVars
<1>3. /\ Top.old = c /\ c \in Slots /\ c \in Nat /\ i \in Nat
      /\ state[c] \in {"RUNNING", "ZOMBIE"}
      /\ ~ stale => i > 0 /\ \A j \in 1 .. i - 1 : state[(c + j) % MaxProcs] # "READY"
  BY <1>1, <1>2, TopIs, InnerFrame, SlotIsNat DEF Sound, Intact, Placed, Knows, Switching, Scanning
<1>4. next \in Slots /\ next \in Nat
  BY <1>1, <1>3, NextSlotIs, SlotIsNat
<1>5. CASE Return
  BY <1>2, <1>5, BackIntact
<1>6. CASE state[next] = "READY" /\ Goto(Frame("park", c, next))
  <2> DEFINE f == Frame("park", c, next)
  <2>1. f \in AnyCall /\ f.at = "park" /\ f.old = c /\ f.i = next
    BY <1>3, <1>4, AnyCallIs DEF Labels, HalfWritten, Frame
  <2> HIDE DEF f
  <2>2. PICK s : Restacked(s) /\ Light(s) /\ Head(s) = f
    BY <1>2, <1>6, <2>1, GotoStack DEF Intact, f
  <2>3. Sound(f, cpu)'
    BY <1>1, <1>2, <2>1 DEF Sound
  <2>4. next # c
    BY <1>3, <1>6
  <2>5. Knows'
    BY <1>1, <1>2, <1>4, <1>6, <2>1, <2>2, <2>4, RestackedIs DEF Knows, Filling, Scanning
  <2> QED
    BY <1>2, <2>1, <2>2, <2>3, <2>5, CalmIntact DEF Calm
<1>7. CASE state[next] # "READY" /\ Goto(Frame("scan", c, i + 1))
  <2> DEFINE f == Frame("scan", c, i + 1)
  <2>1. f \in AnyCall /\ f.at = "scan" /\ f.old = c /\ f.i = i + 1
    BY <1>3, AnyCallIs DEF Labels, HalfWritten, Frame
  <2> HIDE DEF f
  <2>2. PICK s : Restacked(s) /\ Light(s) /\ Head(s) = f
    BY <1>2, <1>7, <2>1, GotoStack DEF Intact, f
  <2>3. Sound(f, cpu)'
    BY <1>1, <1>2, <2>1 DEF Sound
  <2>4. ~ stale => i + 1 > 0 /\ \A j \in 1 .. (i + 1) - 1 : state[(c + j) % MaxProcs] # "READY"
    <3>1. \A j \in 1 .. (i + 1) - 1 : j \in 1 .. i - 1 \/ j = i
      BY <1>3
    <3> QED
      BY <1>1, <1>3, <1>7, <3>1
  <2>5. Knows'
    BY <1>1, <1>2, <2>1, <2>2, <2>4, RestackedIs DEF Knows, Filling, Scanning
  <2> QED
    BY <1>2, <2>1, <2>2, <2>3, <2>5, CalmIntact DEF Calm
<1> QED
  BY <1>1, <1>3, <1>5, <1>6, <1>7 DEF YieldScan, YieldScanWith, Scan

(* What park, claim and current know of the choice they carry out.          *)
LEMMA ChosenIs ==
  ASSUME Upright, Intact, Top.at \in {"park", "claim", "current", "save", "restore"}
  PROVE  /\ cpu \in Slots /\ canary[cpu] /\ Top.i \in Slots /\ Top.i \in Nat /\ Top.i # cpu
         /\ Top.old = cpu /\ Top.at \in Labels \ {"bump"}
         /\ current = (IF Top.at \in {"save", "restore"} THEN Top.i ELSE cpu)
         /\ Top.at \in {"park", "claim"} => state[Top.i] = "READY"
         /\ Top.at = "park" => state[cpu] \in {"RUNNING", "ZOMBIE"}
         /\ Top.at # "park" => state[cpu] \in {"READY", "ZOMBIE"}
         /\ \A t \in Slots \ {cpu} :
              state[t] = "RUNNING" <=> Top.at \in {"current", "save", "restore"} /\ t = Top.i
         /\ \A a \in {"claim", "current", "save", "restore"} : Frame(a, cpu, Top.i) \in AnyCall
<1>1. Top.at \in Labels \ {"bump"} /\ Top.at \in HalfWritten
  BY DEF Labels, HalfWritten
<1>2. /\ cpu \in Slots /\ canary[cpu] /\ Top.i \in Slots /\ Top.i \in Nat /\ Top.i # cpu
      /\ Top.old = cpu
  BY <1>1, TopIs, InnerFrame DEF Sound, Intact, Knows
<1>3. \A a \in {"claim", "current", "save", "restore"} : Frame(a, cpu, Top.i) \in AnyCall
  <2>1. \A a \in {"claim", "current", "save", "restore"} : a \in Labels \ {"bump"}
    BY DEF Labels
  <2> QED
    BY <1>2, <2>1, AnyCallIs
<1> QED
  BY <1>1, <1>2, <1>3, TopIs DEF Intact, Knows, Placed, Switching

LEMMA ParkIntact ==
  ASSUME Upright, Typed, Intact, Passes, YieldPark
  PROVE  Intact'
<1>1. PICK i, c : i = Top.i /\ c = cpu
  OBVIOUS
<1> DEFINE f == Frame("claim", c, i)
<1>2. /\ Top.at = "park" /\ Top.at \in Labels \ {"bump"} /\ c \in Slots /\ canary[c]
      /\ i \in Slots /\ i # c /\ Top.old = c /\ current = c /\ state[i] = "READY"
      /\ state[c] \in {"RUNNING", "ZOMBIE"} /\ \A t \in Slots \ {c} : state[t] # "RUNNING"
      /\ f \in AnyCall
  BY <1>1, ChosenIs DEF YieldPark, At
<1>3. /\ Goto(f) /\ state' = [state EXCEPT ![c] = IF @ = "RUNNING" THEN "READY" ELSE @]
      /\ UNCHANGED <<canary, ctx, current, program, cpu, stale>>
  BY <1>1, <1>2 DEF YieldPark, otherVars, sharedVars, tickVars
<1>4. f.at = "claim" /\ f.i = i /\ f.old = c
  BY DEF Frame
<1> HIDE DEF f
<1>5. /\ state'[c] \in {"READY", "ZOMBIE"} /\ (state[c] = "ZOMBIE" => state'[c] = "ZOMBIE")
      /\ \A t \in Slots \ {c} : state'[t] = state[t]
  BY <1>2, <1>3 DEF Typed
<1>6. Grows
  BY <1>2, <1>5 DEF Grows
<1>7. ASSUME Top' = f
      PROVE  /\ \A t \in Slots \ {c} : Made(t)' <=> Made(t)
             /\ Sound(f, cpu)' /\ Placed' /\ Knows'
  <2>1. \A t \in Slots \ {c} : Made(t)' <=> Made(t)
    BY <1>2, <1>4, <1>5, <1>7 DEF Made, Filling
  <2>2. Placed'
    BY <1>1, <1>2, <1>3, <1>4, <1>5, <1>7 DEF Placed, Switching
  <2>3. Knows'
    BY <1>1, <1>2, <1>3, <1>4, <1>5, <1>7 DEF Knows, Filling, Scanning
  <2>4. Sound(f, cpu)'
    BY <1>1, <1>3, <1>4 DEF Sound
  <2> QED
    BY <2>1, <2>2, <2>3, <2>4
<1>8. Top' = f
  <2>1. PICK s : Restacked(s) /\ Light(s) /\ Head(s) = f
    BY <1>2, <1>3, GotoStack DEF Intact
  <2> QED
    BY <2>1, RestackedIs
<1> QED
  BY <1>1, <1>2, <1>3, <1>6, <1>7, <1>8, GoesIntact
----------------------------------------------------------------------------
(* sched_exit.                                                              *)
LEMMA ExitCheckIntact ==
  ASSUME Upright, Intact, Passes, ExitCheck
  PROVE  Intact'
<1> DEFINE f == Frame("x_zombie", 0, 1)
<1>1. /\ Top.at = "x_check" /\ Top.at \in Labels \ {"bump"} /\ Goto(f) /\ 0 \in Slots
      /\ UNCHANGED <<state, canary, ctx, current, program, cpu, stale>>
  BY TopIs DEF ExitCheck, At, Labels, procVars, otherVars, sharedVars, tickVars
<1>2. f \in AnyCall /\ f.at = "x_zombie"
  BY <1>1, AnyCallIs DEF Labels, HalfWritten, Frame
<1> HIDE DEF f
<1>3. PICK s : Restacked(s) /\ Light(s) /\ Head(s) = f
  BY <1>1, <1>2, GotoStack DEF Intact
<1> QED
  BY <1>1, <1>2, <1>3, PlainIntact DEF Calm, Plain

LEMMA ZombieIntact ==
  ASSUME Upright, Typed, Intact, Passes, ExitZombie
  PROVE  Intact'
<1>1. PICK c : c = cpu
  OBVIOUS
<1> DEFINE f == Frame("x_scan", 0, 1)
<1>2. /\ Top.at = "x_zombie" /\ Top.at \in Labels \ {"bump"} /\ c \in Slots /\ canary[c]
      /\ 0 \in Slots /\ current = c /\ \A t \in Slots \ {c} : state[t] # "RUNNING"
      /\ Goto(f) /\ state' = [state EXCEPT ![c] = "ZOMBIE"]
      /\ UNCHANGED <<canary, ctx, current, program, cpu, stale>>
  BY <1>1, TopIs DEF ExitZombie, At, Labels, otherVars, sharedVars, tickVars, Intact, Placed, Switching
<1>3. f \in AnyCall /\ f.at = "x_scan" /\ f.i = 1
  BY <1>2, AnyCallIs DEF Labels, HalfWritten, Frame
<1> HIDE DEF f
<1>4. state'[c] = "ZOMBIE" /\ \A t \in Slots \ {c} : state'[t] = state[t]
  BY <1>2 DEF Typed
<1>5. Grows
  BY <1>4 DEF Grows
<1>6. ASSUME Top' = f
      PROVE  /\ \A t \in Slots \ {c} : Made(t)' <=> Made(t)
             /\ Sound(f, cpu)' /\ Placed' /\ Knows'
  <2>1. \A t \in Slots \ {c} : Made(t)' <=> Made(t)
    BY <1>2, <1>3, <1>4, <1>6 DEF Made, Filling
  <2>2. Placed'
    BY <1>1, <1>2, <1>3, <1>4, <1>6 DEF Placed, Switching
  <2>3. Knows'
    BY <1>3, <1>6 DEF Knows, Filling, Scanning
  <2>4. Sound(f, cpu)'
    BY <1>1, <1>2, <1>3, <1>4 DEF Sound
  <2> QED
    BY <2>1, <2>2, <2>3, <2>4
<1>7. Top' = f
  <2>1. PICK s : Restacked(s) /\ Light(s) /\ Head(s) = f
    BY <1>2, <1>3, GotoStack DEF Intact
  <2> QED
    BY <2>1, RestackedIs
<1> QED
  BY <1>1, <1>2, <1>3, <1>5, <1>6, <1>7, GoesIntact

LEMMA ExitScanIntact ==
  ASSUME Upright, Intact, Passes, ExitScan
  PROVE  Intact'
<1>1. PICK i, c, next : i = Top.i /\ c = cpu /\ next = (c + i) % MaxProcs
  OBVIOUS
<1>2. /\ Top.at = "x_scan" /\ Top.at \in Labels \ {"bump"}
      /\ UNCHANGED <<state, canary, ctx, current, program, cpu, stale>>
  BY DEF ExitScan, At, Labels, procVars, otherVars, sharedVars, tickVars
<1>3. /\ current = c /\ c \in Slots /\ c \in Nat /\ i \in Nat /\ 0 \in Slots /\ canary[c]
      /\ state[c] = "ZOMBIE" /\ \A t \in Slots \ {c} : state[t] # "RUNNING"
      /\ ~ stale => i > 0 /\ \A j \in 1 .. i - 1 : state[(c + j) % MaxProcs] # "READY"
  BY <1>1, <1>2, TopIs, InnerFrame, SlotIsNat DEF Sound, Intact, Placed, Knows, Switching, Scanning
<1>4. next \in Slots /\ next \in Nat
  BY <1>1, <1>3, NextSlotIs, SlotIsNat
<1>5. CASE UNCHANGED stk
  BY <1>2, <1>5, StillIntact
<1>6. CASE state[next] = "READY" /\ Goto(Frame("claim", c, next))
  <2> DEFINE f == Frame("claim", c, next)
  <2>1. f \in AnyCall /\ f.at = "claim" /\ f.old = c /\ f.i = next
    BY <1>3, <1>4, AnyCallIs DEF Labels, HalfWritten, Frame
  <2> HIDE DEF f
  <2>2. Top' = f
    <3>1. PICK s : Restacked(s) /\ Light(s) /\ Head(s) = f
      BY <1>2, <1>6, <2>1, GotoStack DEF Intact, f
    <3> QED
      BY <3>1, RestackedIs
  <2>3. Sound(f, cpu)'
    BY <1>1, <1>2, <2>1 DEF Sound
  <2>4. next # c
    BY <1>3, <1>6
  <2>5. Knows'
    BY <1>1, <1>2, <1>4, <1>6, <2>1, <2>2, <2>4 DEF Knows, Filling, Scanning
  <2>6. Placed'
    BY <1>1, <1>2, <1>3, <2>1, <2>2 DEF Placed, Switching
  <2>7. \A t \in Slots : Made(t)' <=> Made(t)
    BY <1>2, <2>1, <2>2 DEF Made, Filling
  <2>8. Grows /\ canary'[cpu] /\ Goto(f)
    BY <1>1, <1>2, <1>3, <1>6 DEF Grows, f
  <2> QED
    BY <1>2, <2>1, <2>3, <2>5, <2>6, <2>7, <2>8, GoesIntact
<1>7. CASE state[next] # "READY" /\ Goto(Frame("x_scan", 0, i + 1))
  <2> DEFINE f == Frame("x_scan", 0, i + 1)
  <2>1. f \in AnyCall /\ f.at = "x_scan" /\ f.i = i + 1
    BY <1>3, AnyCallIs DEF Labels, HalfWritten, Frame
  <2> HIDE DEF f
  <2>2. PICK s : Restacked(s) /\ Light(s) /\ Head(s) = f
    BY <1>2, <1>7, <2>1, GotoStack DEF Intact, f
  <2>3. Sound(f, cpu)'
    BY <1>1, <1>2, <1>3, <2>1 DEF Sound
  <2>4. ~ stale => i + 1 > 0 /\ \A j \in 1 .. (i + 1) - 1 : state[(c + j) % MaxProcs] # "READY"
    <3>1. \A j \in 1 .. (i + 1) - 1 : j \in 1 .. i - 1 \/ j = i
      BY <1>3
    <3> QED
      BY <1>1, <1>3, <1>7, <3>1
  <2>5. Knows'
    BY <1>1, <1>2, <2>1, <2>2, <2>4, RestackedIs DEF Knows, Filling, Scanning
  <2> QED
    BY <1>2, <2>1, <2>2, <2>3, <2>5, CalmIntact DEF Calm
<1> QED
  BY <1>1, <1>3, <1>5, <1>6, <1>7 DEF ExitScan
----------------------------------------------------------------------------
(* The hand-over.                                                           *)
LEMMA ClaimIntact ==
  ASSUME Upright, Typed, Intact, Passes, Claim
  PROVE  Intact'
<1>1. PICK i, c : i = Top.i /\ c = cpu
  OBVIOUS
<1> DEFINE f == Frame("current", c, i)
<1>2. /\ Top.at = "claim" /\ Top.at \in Labels \ {"bump"} /\ c \in Slots /\ canary[c]
      /\ i \in Slots /\ i # c /\ Top.old = c /\ current = c /\ state[i] = "READY"
      /\ state[c] \in {"READY", "ZOMBIE"} /\ \A t \in Slots \ {c} : state[t] # "RUNNING"
      /\ f \in AnyCall
  BY <1>1, ChosenIs DEF Claim, At
<1>3. /\ Goto(f) /\ state' = [state EXCEPT ![i] = "RUNNING"]
      /\ UNCHANGED <<canary, ctx, current, program, cpu, stale>>
  BY <1>1, <1>2 DEF Claim, otherVars, sharedVars, tickVars
<1>4. f.at = "current" /\ f.i = i /\ f.old = c
  BY DEF Frame
<1> HIDE DEF f
<1>5. state'[i] = "RUNNING" /\ \A t \in Slots \ {i} : state'[t] = state[t]
  BY <1>2, <1>3 DEF Typed
<1>6. Grows
  BY <1>2, <1>5 DEF Grows
<1>7. ASSUME Top' = f
      PROVE  /\ \A t \in Slots : Made(t)' <=> Made(t)
             /\ Sound(f, cpu)' /\ Placed' /\ Knows'
  <2>1. \A t \in Slots : Made(t)' <=> Made(t)
    BY <1>2, <1>4, <1>5, <1>7 DEF Made, Filling
  <2>2. Placed'
    BY <1>1, <1>2, <1>3, <1>4, <1>5, <1>7 DEF Placed, Switching
  <2>3. Knows'
    BY <1>1, <1>2, <1>3, <1>4, <1>5, <1>7 DEF Knows, Filling, Scanning
  <2>4. Sound(f, cpu)'
    BY <1>1, <1>3, <1>4 DEF Sound
  <2> QED
    BY <2>1, <2>2, <2>3, <2>4
<1>8. Top' = f
  <2>1. PICK s : Restacked(s) /\ Light(s) /\ Head(s) = f
    BY <1>2, <1>3, GotoStack DEF Intact
  <2> QED
    BY <2>1, RestackedIs
<1> QED
  BY <1>1, <1>2, <1>3, <1>6, <1>7, <1>8, GoesIntact

LEMMA CurrentIntact ==
  ASSUME Upright, Intact, Passes, SetCurrent
  PROVE  Intact'
<1>1. PICK i, c : i = Top.i /\ c = cpu
  OBVIOUS
<1> DEFINE f == Frame("save", c, i)
<1>2. /\ Top.at = "current" /\ Top.at \in Labels \ {"bump"} /\ c \in Slots /\ canary[c]
      /\ i \in Slots /\ i # c /\ Top.old = c
      /\ state[c] \in {"READY", "ZOMBIE"} /\ \A t \in Slots \ {c} : state[t] = "RUNNING" <=> t = i
      /\ f \in AnyCall
  BY <1>1, ChosenIs DEF SetCurrent, At
<1>3. /\ Goto(f) /\ current' = i /\ UNCHANGED <<state, canary, ctx, program, cpu, stale>>
  BY <1>1, <1>2 DEF SetCurrent, procVars, otherVars, sharedVars, tickVars
<1>4. f.at = "save" /\ f.i = i /\ f.old = c
  BY DEF Frame
<1> HIDE DEF f
<1>5. Top' = f
  <2>1. PICK s : Restacked(s) /\ Light(s) /\ Head(s) = f
    BY <1>2, <1>3, GotoStack DEF Intact
  <2> QED
    BY <2>1, RestackedIs
<1>6. \A t \in Slots : Made(t)' <=> Made(t)
  BY <1>2, <1>3, <1>4, <1>5 DEF Made, Filling
<1>7. Placed'
  BY <1>1, <1>2, <1>3, <1>4, <1>5 DEF Placed, Switching
<1>8. Knows'
  BY <1>1, <1>2, <1>3, <1>4, <1>5 DEF Knows, Filling, Scanning
<1>9. Sound(f, cpu)'
  BY <1>1, <1>3, <1>4 DEF Sound
<1>10. Grows
  BY <1>3 DEF Grows
<1> QED
  BY <1>1, <1>2, <1>3, <1>6, <1>7, <1>8, <1>9, <1>10, GoesIntact

LEMMA SaveIntact ==
  ASSUME Upright, Intact, Passes, SwitchSave
  PROVE  Intact'
<1>1. PICK i, c, u : i = Top.i /\ c = cpu /\ u = Tail(stk[cpu])
  OBVIOUS
<1> DEFINE f == Frame("restore", c, i)
           z == [home |-> c, frames |-> <<Frame("return", c, i)>> \o u]
<1>2. /\ Top.at = "save" /\ Top.at \in Labels \ {"bump"} /\ c \in Slots /\ canary[c]
      /\ i \in Slots /\ i # c /\ Top.old = c /\ current = i
      /\ state[c] \in {"READY", "ZOMBIE"} /\ \A t \in Slots \ {c} : state[t] = "RUNNING" <=> t = i
      /\ f \in AnyCall
  BY <1>1, ChosenIs DEF SwitchSave, At
<1>3. /\ Goto(f) /\ ctx' = [ctx EXCEPT ![c] = z]
      /\ UNCHANGED <<state, canary, current, program, cpu, stale>>
  BY <1>1, <1>2 DEF SwitchSave, procVars, otherVars, sharedVars, tickVars
<1>4. f.at = "restore" /\ f.i = i /\ f.old = c
  BY DEF Frame
<1>5. Top' = f /\ Tail(stk'[c]) = u
  <2>1. PICK s : Restacked(s) /\ Light(s) /\ Head(s) = f /\ s = Pushed(f, u)
    BY <1>1, <1>2, <1>3, GotoStack DEF Intact
  <2>2. Tail(Pushed(f, u)) = u
    <3>1. u \in Resting \cup Struck
      BY <1>1, <1>2, InnerTail
    <3> HIDE DEF f
    <3> QED
      BY <1>2, <3>1, CallOn
  <2> QED
    BY <1>1, <2>1, <2>2, RestackedIs
<1>6. ctx'[c] = z /\ \A t \in Slots \ {c} : ctx'[t] = ctx[t]
  BY <1>2, <1>3 DEF Upright
<1>7. Top'.at = "restore" => ctx'[cpu'] = [home   |-> cpu',
                                           frames |-> <<Frame("return", Top'.old, Top'.i)>> \o Tail(stk'[cpu'])]
  BY <1>1, <1>3, <1>4, <1>5, <1>6
<1> HIDE DEF f, z
<1>8. \A t \in Slots : Made(t)' <=> Made(t)
  BY <1>2, <1>3, <1>4, <1>5 DEF Made, Filling
<1>9. Placed'
  BY <1>1, <1>2, <1>3, <1>4, <1>5 DEF Placed, Switching
<1>10. Knows'
  BY <1>1, <1>2, <1>3, <1>4, <1>5, <1>7 DEF Knows, Filling, Scanning, Frame
<1>11. Sound(f, cpu)'
  BY <1>1, <1>3, <1>4 DEF Sound
<1>12. Grows
  BY <1>3 DEF Grows
<1> QED
  BY <1>1, <1>2, <1>3, <1>6, <1>8, <1>9, <1>10, <1>11, <1>12, GoesIntact

(* The context to resume is the thread's own and its last.                  *)
LEMMA RestoreIs ==
  ASSUME Upright, Intact, SwitchRestore
  PROVE  /\ UNCHANGED halted /\ cpu' = Top.i /\ ctx[Top.i] = [home |-> Top.i, frames |-> stk[Top.i]]
         /\ stk' = [stk EXCEPT ![cpu] = <<Frame("return", cpu, Top.i)>> \o Tail(stk[cpu])]
<1>1. PICK i, c : i = Top.i /\ c = cpu
  OBVIOUS
<1> DEFINE parked == [stk EXCEPT ![c] = <<Frame("return", c, i)>> \o Tail(stk[c])]
<1>2. /\ Top.at = "restore" /\ c \in Slots /\ i \in Slots /\ i # c /\ Top.old = c
      /\ state[i] = "RUNNING"
  BY <1>1, ChosenIs DEF SwitchRestore, At
<1>3. Made(i)
  BY <1>2 DEF Made, Filling
<1>4. ctx[i] = [home |-> i, frames |-> stk[i]] /\ stk[i] # <<>>
  BY <1>1, <1>2, <1>3 DEF Intact, Suspended, Live
<1>5. parked[i] = stk[i]
  BY <1>2 DEF Upright
<1>6. ctx[i] # Zero /\ ctx[i].home = i /\ ctx[i].frames = stk[i]
  BY <1>4 DEF Zero
<1>7. \/ /\ stk' = parked /\ cpu' = ctx[i].home /\ UNCHANGED halted
      \/ ctx[i] = Zero \/ ctx[i].frames # parked[ctx[i].home]
  BY <1>1, <1>2 DEF SwitchRestore
<1> QED
  BY <1>1, <1>4, <1>5, <1>6, <1>7

LEMMA RestoreIntact ==
  ASSUME Upright, Intact, Passes, SwitchRestore
  PROVE  Intact'
<1>1. PICK i, c, u : i = Top.i /\ c = cpu /\ u = Tail(stk[cpu])
  OBVIOUS
<1> DEFINE f == Frame("return", c, i)
           s == Pushed(f, u)
<1>2. /\ Top.at = "restore" /\ Top.at \in Labels \ {"bump"} /\ c \in Slots /\ canary[c]
      /\ i \in Slots /\ i \in Nat /\ i # c /\ Top.old = c /\ current = i
      /\ state[c] \in {"READY", "ZOMBIE"} /\ \A t \in Slots \ {c} : state[t] = "RUNNING" <=> t = i
  BY <1>1, ChosenIs DEF SwitchRestore, At
<1>3. /\ stk' = [stk EXCEPT ![c] = s] /\ cpu' = i
      /\ ctx[c] = [home |-> c, frames |-> s]
      /\ UNCHANGED <<state, canary, ctx, current, program, stale>>
  <2>1. ctx[c] = [home |-> c, frames |-> s]
    BY <1>1, <1>2 DEF Intact, Knows, Pushed
  <2> QED
    BY <1>1, <2>1, RestoreIs DEF SwitchRestore, procVars, otherVars, sharedVars, tickVars, Pushed
<1>4. /\ u \in Resting \cup Struck /\ f \in AnyCall /\ f.at = "return"
      /\ Members(u) = Under(c) /\ Under(c) \subseteq On(c)
  BY <1>1, <1>2, InnerTail, AnyCallIs, UnderOn DEF Labels, HalfWritten, Frame, Under
<1> HIDE DEF f
<1>5. s # <<>> /\ Head(s) = f /\ Members(s) = {f} \cup Members(u)
  <2>1. s # <<>> /\ Head(s) = f /\ Tail(s) = u /\ s \in AnyStack
    BY <1>4, CallOn
  <2> HIDE DEF s
  <2> QED
    BY <2>1, StackIs
<1> HIDE DEF s
<1>6. /\ Made(i) /\ canary[i] /\ Live(i) /\ ctx[i] = [home |-> i, frames |-> stk[i]]
      /\ Head(stk[i]).at \in {"return", "run"}
      /\ Members(Tail(stk[i])) \subseteq On(i)
  <2>1. Made(i)
    BY <1>2 DEF Made, Filling
  <2>2. /\ canary[i] /\ Live(i) /\ ctx[i] = [home |-> i, frames |-> stk[i]]
        /\ Head(stk[i]).at = "return" \/ stk[i] = <<Run("task", 1)>>
    BY <1>1, <1>2, <2>1 DEF Intact, Suspended
  <2>3. Head(<<Run("task", 1)>>) = Run("task", 1) /\ Run("task", 1).at = "run"
    BY DEF Run
  <2>4. stk[i] \in AnyStack
    BY <1>2, <2>2 DEF Upright
  <2>5. Members(Tail(stk[i])) \subseteq On(i)
    BY <2>4, StackIs DEF On
  <2> QED
    BY <2>1, <2>2, <2>3, <2>5
<1>7. stk'[c] = s /\ \A t \in Slots \ {c} : stk'[t] = stk[t]
  BY <1>2, <1>3 DEF Upright
<1>8. /\ Top' = Head(stk[i]) /\ Under(i)' \subseteq On(i)
      /\ On(c)' = {f} \cup Under(c) /\ Under(c)' = On(c)'
      /\ \A t \in Slots \ {c} : On(t)' = On(t)
      /\ \A t \in Slots \ {i, c} : Under(t)' = On(t) /\ Under(t) = On(t)
  <2>1. Top' = Head(stk[i])
    BY <1>2, <1>3, <1>7 DEF Top
  <2>2. ASSUME NEW t \in Slots PROVE On(t)' = Members(stk'[t]) /\ On(t) = Members(stk[t])
    BY DEF On
  <2>3. Under(i)' = Members(Tail(stk[i]))
    BY <1>2, <1>3, <1>7 DEF Under
  <2>4. ASSUME NEW t \in Slots \ {i} PROVE Under(t)' = On(t)'
    BY <1>3, <2>4 DEF Under
  <2>5. ASSUME NEW t \in Slots \ {c} PROVE Under(t) = On(t)
    BY <1>1, <2>5 DEF Under
  <2> QED
    BY <1>2, <1>4, <1>5, <1>6, <1>7, <2>1, <2>2, <2>3, <2>4, <2>5
<1>9. \A t \in Slots : Made(t)' <=> Made(t)
  BY <1>2, <1>3, <1>6, <1>8 DEF Made, Filling
<1>10. Owned'
  <2>1. ASSUME NEW t \in Slots, NEW g \in On(t)' PROVE Sound(g, t)'
    <3>1. CASE g = f
      BY <1>4, <3>1 DEF Sound
    <3>2. CASE g \in On(t)
      <4>1. Sound(g, t)
        BY <3>2 DEF Intact, Owned
      <4> QED
        BY <1>3, <4>1 DEF Sound
    <3>3. g = f \/ g \in On(t)
      BY <1>4, <1>8, <2>1
    <3> QED
      BY <3>1, <3>2, <3>3
  <2> QED
    BY <2>1 DEF Owned
<1>11. Buried'
  <2>1. ASSUME NEW t \in Slots, NEW g \in Under(t)' PROVE g.at = "return" \/ g \in Under(t)
    <3>1. Under(i) = On(i)
      BY <1>1, <1>2 DEF Under
    <3> QED
      BY <1>4, <1>8, <2>1, <3>1
  <2>2. "return" \notin HalfWritten /\ "return" \notin Scanning
    BY DEF HalfWritten, Scanning
  <2>3. ASSUME NEW t \in Slots, NEW g \in Under(t)'
        PROVE  g.at \notin HalfWritten /\ (~ stale' => g.at \notin Scanning)
    BY <1>3, <2>1, <2>2, <2>3 DEF Intact, Buried
  <2> QED
    BY <2>3 DEF Buried, HalfWritten, Scanning
<1>12. Suspended'
  <2>1. ASSUME NEW t \in Slots \ {i}
        PROVE  /\ Made(t)' =>
                    /\ canary'[t] /\ Live(t)' /\ ctx'[t] = [home |-> t, frames |-> stk'[t]]
                    /\ Head(stk'[t]).at = "return" \/ (t # 0 /\ stk'[t] = <<Run("task", 1)>>)
               /\ ~ Made(t)' => stk'[t] = <<>> /\ ctx'[t] = Zero
    <3>1. CASE t = c
      <4>1. Made(c)
        BY <1>2 DEF Made, Filling
      <4> QED
        BY <1>2, <1>3, <1>4, <1>5, <1>7, <1>9, <3>1, <4>1 DEF Live
    <3>2. CASE t # c
      <4>1. stk'[t] = stk[t] /\ (Made(t)' <=> Made(t)) /\ (Live(t)' <=> Live(t)) /\ t \in Slots \ {cpu}
        BY <1>1, <1>7, <1>9, <2>1, <3>2 DEF Live
      <4> QED
        BY <1>3, <4>1 DEF Intact, Suspended
    <3> QED
      BY <3>1, <3>2
  <2> QED
    BY <1>3, <2>1 DEF Suspended, Zero, Run
<1>13. Placed'
  BY <1>2, <1>3, <1>6, <1>8 DEF Placed, Switching
<1>14. Knows'
  BY <1>6, <1>8 DEF Knows, Filling, Scanning
<1>15. Past'
  BY <1>3, PastStays DEF Intact
<1> QED
  BY <1>3, <1>6, <1>10, <1>11, <1>12, <1>13, <1>14, <1>15 DEF Intact

LEMMA ReturnIntact ==
  ASSUME Upright, Intact, Passes, SwitchReturn
  PROVE  Intact'
<1>1. /\ Top.at = "return" /\ Return
      /\ UNCHANGED <<state, canary, ctx, current, cpu, program, stale>>
  BY DEF SwitchReturn, At, procVars, otherVars, sharedVars, tickVars
<1> QED
  BY <1>1, BackIntact

(* mret goes back into what the timer struck, ...                           *)
LEMMA MretIntact ==
  ASSUME PInv, Intact, Passes, TrapReturn
  PROVE  Intact' /\ Return /\ UNCHANGED halted
<1>1. Upright /\ Top.at = "trap" /\ MretIsOurs
  BY PInvTraps DEF PInv, MretReturnsHome, TrapReturn, At
<1>2. /\ Return /\ UNCHANGED halted
      /\ UNCHANGED <<state, canary, ctx, current, cpu, program, stale>>
  BY <1>1 DEF TrapReturn, procVars, otherVars, sharedVars, tickVars
<1>3. PICK s : /\ Restacked(s) /\ Light(s) /\ Head(s) \in Under(cpu)
               /\ Head(s).at \in Labels \cup {"run", "trap"}
  BY <1>1, <1>2, ReturnStack DEF Intact
<1>4. PICK h, c : h = Head(s) /\ c = cpu
  OBVIOUS
<1>5. c \in Slots /\ h \in On(c)
  BY <1>1, <1>3, <1>4, UprightTop, UnderOn
<1>6. Sound(h, c) /\ h.at \notin HalfWritten /\ (~ stale => h.at \notin Scanning)
  BY <1>3, <1>4, <1>5 DEF Intact, Owned, Buried
<1>7. h.at \in Calm /\ h.at # "publish"
  BY <1>3, <1>4, <1>6 DEF Labels, HalfWritten, Calm
<1>8. Sound(Head(s), cpu)'
  BY <1>2, <1>4, <1>6 DEF Sound
<1>9. Knows'
  BY <1>1, <1>2, <1>3, <1>4, <1>6, <1>7, RestackedIs DEF Knows, Filling, Calm
<1> QED
  BY <1>1, <1>2, <1>3, <1>4, <1>7, <1>8, <1>9, CalmIntact DEF Calm

(* ... which is nothing half written, ...                                   *)
LEMMA TickIntact ==
  ASSUME PInv, Intact, Passes, Tick, ~ torn'
  PROVE  Intact'
<1>1. Upright /\ OneTrap
  BY DEF PInv
<1> DEFINE f == Frame("check", 0, 1)
           p == Pushed(TrapFrame, stk[cpu])
           s == Pushed(f, p)
<1>2. /\ mie /\ stk' = [stk EXCEPT ![cpu] = <<f, TrapFrame>> \o @]
      /\ UNCHANGED <<state, canary, ctx, current, cpu, program>>
      /\ stale' = (stale \/ Top.at \in Scanning) /\ Top.at \notin HalfWritten
  BY DEF Tick, Strike, procVars, sharedVars
<1>3. /\ stk[cpu] \in AnyStack /\ cpu \in Slots /\ 0 \in Slots /\ Live(cpu)
      /\ Top.at \in Labels \cup {"run", "trap"}
  BY <1>1, UprightTop
<1>4. stk[cpu] \in Free
  <2>1. ~ Hit(stk[cpu])
    BY <1>1, <1>2, <1>3 DEF OneTrap
  <2> QED
    BY <1>3, <2>1, StruckIs, NestedIs DEF AnyStack
<1>5. f \in AnyCall /\ f \in AnyFrame /\ TrapFrame \in AnyFrame /\ f.at = "check"
  <2>1. f \in AnyCall
    BY <1>3, AnyCallIs DEF Labels, HalfWritten
  <2> QED
    BY <2>1 DEF AnyFrame, Frame
<1> HIDE DEF f
<1>6. stk' = [stk EXCEPT ![cpu] = s]
  <2>1. stk[cpu] \in Seq(AnyFrame)
    BY <1>4, FreeIs
  <2>2. <<f, TrapFrame>> \o stk[cpu] = s
    BY <1>5, <2>1, TwoIs
  <2> QED
    BY <1>2, <1>3, <2>2
<1>7. Members(p) = {TrapFrame} \cup On(cpu)
  <2>1. stk[cpu] \in Seq(AnyFrame)
    BY <1>4, FreeIs
  <2>2. Members(p) = {TrapFrame} \cup Members(stk[cpu])
    BY <1>5, <2>1, PushIs
  <2> QED
    BY <2>2 DEF On
<1>8. p \in Struck
  BY <1>4 DEF Struck
<1> HIDE DEF p
<1>9. s \in AnyStack /\ Head(s) = f /\ Tail(s) = p
  BY <1>5, <1>8, CallOn
<1> HIDE DEF s
<1>10. TrapFrame.at = "trap" /\ "trap" \notin HalfWritten /\ "trap" \notin Scanning
  BY DEF TrapFrame, HalfWritten, Scanning
<1>11. Restacked(s)
  BY <1>2, <1>6, <1>7, <1>9, <1>10 DEF Restacked
<1>12. Light(s)
  <2>1. ASSUME NEW g \in Under(cpu) PROVE g.at \notin HalfWritten /\ (~ stale => g.at \notin Scanning)
    BY <1>3 DEF Intact, Buried
  <2>2. On(cpu) = {Top} \cup Under(cpu)
    BY <1>1, <1>3, UnderOn
  <2> QED
    BY <1>2, <1>7, <1>9, <1>10, <2>1, <2>2 DEF Light
<1>13. Top.at \in Calm /\ (Top.at = "x_scan" => stale')
  BY <1>2, <1>3 DEF Labels, HalfWritten, Calm, Scanning
<1> QED
  BY <1>1, <1>2, <1>5, <1>9, <1>11, <1>12, <1>13, PlainIntact DEF Plain

(* ... and nothing calls sched_init twice.                                  *)
LEMMA NoSecondInit ==
  ASSUME Upright, InitsFirst(program), Past
  PROVE  ~ SchedInit
<1> SUFFICES ASSUME SchedInit PROVE FALSE
  OBVIOUS
<1>1. /\ Doing("init") /\ Top.at = "run" /\ Top.prog \in {"main", "task"}
      /\ program[Top.prog] \in Seq(SUBSET Ops)
      /\ Top.op \in 1 .. Len(program[Top.prog]) /\ "init" \in program[Top.prog][Top.op]
  <2>1. Doing("init")
    BY DEF SchedInit
  <2> QED
    BY <2>1, OpIs
<1>2. Top.prog = "main" /\ cpu = 0 /\ Entered(0) = Top /\ Live(0)
  <2>1. Top.prog # "task"
    BY <1>1 DEF InitsFirst
  <2> QED
    BY <1>1, <2>1, RunTop, UprightTop
<1>3. Len(program["main"]) \in Nat
  BY <1>1, <1>2
<1>4. PICK k \in 1 .. Len(program["main"]) : program["main"][k] = {"init"} /\ k < Top.op
  BY <1>2 DEF Past
<1>5. PICK b \in 1 .. Len(program["main"]) :
        /\ program["main"][b] = {"init"}
        /\ \A j \in 1 .. b - 1 : program["main"][j] \cap {"init", "spawn", "yield", "exit"} = {}
        /\ \A j \in b + 1 .. Len(program["main"]) : "init" \notin program["main"][j]
  BY DEF InitsFirst
<1>6. Top.op <= b
  BY <1>1, <1>2, <1>3, <1>5
<1>7. k \in 1 .. b - 1
  BY <1>1, <1>2, <1>3, <1>4, <1>5, <1>6
<1> QED
  BY <1>4, <1>5, <1>7

LEMMA NextIntact ==
  ASSUME ArmsOnce(program), EcallsEarly(program), InitsFirst(program),
         PInv, Typed, Intact, [Next]_vars, ~ torn'
  PROVE  Intact'
<1>1. Upright /\ Passes /\ Past /\ bump \in Nat
  BY NextPasses DEF PInv, Intact
<1>2. CASE UNCHANGED vars \/ SysExit \/ Fault
  <2>1. UNCHANGED <<state, canary, ctx, current, stk, cpu, program, stale>>
    BY <1>2 DEF vars, SysExit, Fault, procVars, otherVars, sharedVars, tickVars
  <2> QED
    BY <2>1, StillIntact
<1>3. CASE Work \/ Arm \/ Ecall \/ Acquire \/ Release \/ AllocTest \/ AllocBump
  BY <1>1, <1>3, OpIntact
<1>4. CASE CallScheduler \/ EntryReturns
  BY <1>1, <1>4, CallIntact
<1>5. CASE SchedInit
  BY <1>1, <1>5, NoSecondInit
<1>6. CASE SpawnFind \/ SpawnPublish \/ SpawnNumber \/ SpawnCanary \/ SpawnBuild
  BY <1>1, <1>6, FindIntact, PublishIntact, NumberIntact, BuildIntact
<1>7. CASE YieldCheck \/ YieldScan \/ YieldPark
  BY <1>1, <1>7, YieldCheckIntact, YieldScanIntact, ParkIntact
<1>8. CASE ExitCheck \/ ExitZombie \/ ExitScan
  <2>1. CASE ExitCheck /\ UNCHANGED stk
    <3>1. UNCHANGED <<state, canary, ctx, current, stk, cpu, program, stale>>
      BY <2>1 DEF ExitCheck, procVars, otherVars, sharedVars, tickVars
    <3> QED
      BY <3>1, StillIntact
  <2> QED
    BY <1>1, <1>8, ExitCheckIntact, ZombieIntact, ExitScanIntact
<1>9. CASE Claim \/ SetCurrent \/ SwitchSave \/ SwitchRestore \/ SwitchReturn
  BY <1>1, <1>9, ClaimIntact, CurrentIntact, SaveIntact, RestoreIntact, ReturnIntact
<1>10. CASE TrapReturn
  BY <1>1, <1>10, MretIntact
<1>11. CASE Tick
  BY <1>1, <1>11, TickIntact
<1> QED
  BY <1>2, <1>3, <1>4, <1>5, <1>6, <1>7, <1>8, <1>9, <1>10, <1>11 DEF Next, Step

(* Before sched_init main is the only thread and calls no other function of *)
(* the scheduler, and the handler's sched_yield halts.                      *)
LEMMA BootingIs ==
  ASSUME Upright, InitsFirst(program), Booting
  PROVE  /\ 0 \in Slots /\ cpu = 0 /\ Live(0) /\ Entered(0).prog = "main"
         /\ Top.at = "run" => Top = Entered(0) /\ Top.prog = "main"
         /\ \A op : Doing(op) => /\ op \notin {"spawn", "yield", "exit"}
                                 /\ op = "init" => program["main"][Top.op] = {"init"}
<1>1. 0 \in Slots /\ cpu = 0 /\ Live(0) /\ Entered(0).prog = "main"
  BY UprightTop DEF Booting
<1>2. Top.at = "run" => Top = Entered(0) /\ Top.prog = "main"
  BY <1>1, RunTop
<1>3. ASSUME NEW op, Doing(op)
      PROVE  /\ op \notin {"spawn", "yield", "exit"}
             /\ op = "init" => program["main"][Top.op] = {"init"}
  <2>1. /\ Top.at = "run" /\ program[Top.prog] \in Seq(SUBSET Ops)
        /\ Top.op \in 1 .. Len(program[Top.prog]) /\ op \in program[Top.prog][Top.op]
    BY <1>3, OpIs
  <2>2. Len(program["main"]) \in Nat /\ Top.op \in 1 .. Len(program["main"])
    BY <1>2, <2>1
  <2>3. PICK b \in 1 .. Len(program["main"]) :
          /\ program["main"][b] = {"init"}
          /\ \A j \in 1 .. b - 1 : program["main"][j] \cap {"init", "spawn", "yield", "exit"} = {}
    BY DEF InitsFirst
  <2>4. ~ b < Top.op
    <3>1. b \in 1 .. Top.op - 1 => program["main"][b] # {"init"}
      BY <1>2, <2>1 DEF Booting
    <3> QED
      BY <2>2, <2>3, <3>1
  <2>5. Top.op = b \/ Top.op \in 1 .. b - 1
    BY <2>2, <2>3, <2>4
  <2> QED
    BY <1>2, <2>1, <2>3, <2>5
<1> QED
  BY <1>1, <1>2, <1>3

(* A step of main, s being the stack it leaves, e main's next activation.   *)
LEMMA StillBooting ==
  ASSUME Upright, Booting, NEW s, stk' = [stk EXCEPT ![cpu] = s], cpu' = cpu,
         UNCHANGED <<state, pid, canary, ctx, nextPid, current, program>>,
         Head(s).at \in {"run", "bump", "check"},
         \/ Entered(0)' = Entered(0)
         \/ /\ Entered(0)'.prog = "main" /\ Entered(0)'.op = Entered(0).op + 1
            /\ Entered(0).op \in Nat /\ program["main"][Entered(0).op] # {"init"}
  PROVE  Booting'
<1>1. cpu = 0 /\ 0 \in Slots
  BY UprightTop DEF Booting
<1>2. stk'[0] = s /\ \A t \in Slots \ {0} : stk'[t] = stk[t]
  BY <1>1 DEF Upright
<1>3. Top' = Head(s)
  BY <1>1, <1>2 DEF Top
<1>4. ASSUME NEW k \in 1 .. Entered(0)'.op - 1, k <= Len(program["main"])
      PROVE  program["main"][k] # {"init"}
  <2>1. CASE Entered(0)' = Entered(0)
    BY <1>4, <2>1 DEF Booting
  <2>2. CASE /\ Entered(0)'.prog = "main" /\ Entered(0)'.op = Entered(0).op + 1
             /\ Entered(0).op \in Nat /\ program["main"][Entered(0).op] # {"init"}
    <3>1. k \in 1 .. Entered(0).op - 1 \/ k = Entered(0).op
      BY <1>4, <2>2
    <3> QED
      BY <1>4, <2>2, <3>1 DEF Booting
  <2> QED
    BY <2>1, <2>2
<1> QED
  BY <1>1, <1>2, <1>3, <1>4 DEF Booting, Zero

(* sched_init hands over a machine that has no process but main.            *)
LEMMA InitIntact ==
  ASSUME Upright, Typed, InitsFirst(program), Booting, Passes, SchedInit
  PROVE  Intact'
<1>1. /\ 0 \in Slots /\ cpu = 0 /\ Live(0) /\ Doing("init") /\ Top = Entered(0)
      /\ program["main"][Top.op] = {"init"}
      /\ Top.at = "run" /\ Top.prog = "main" /\ program["main"] \in Seq(SUBSET Ops)
      /\ Top.op \in 1 .. Len(program["main"]) /\ AfterOp \in AnyRun /\ AfterOp.op = Top.op + 1
  <2>1. Doing("init")
    BY DEF SchedInit
  <2>2. /\ Top.at = "run" /\ program[Top.prog] \in Seq(SUBSET Ops)
        /\ Top.op \in 1 .. Len(program[Top.prog]) /\ AfterOp \in AnyRun /\ AfterOp.op = Top.op + 1
    BY <2>1, OpIs
  <2> QED
    BY <2>1, <2>2, BootingIs
<1>2. /\ Goto(AfterOp) /\ state' = [i \in Slots |-> IF i = 0 THEN "RUNNING" ELSE "UNUSED"]
      /\ canary' = [canary EXCEPT ![0] = TRUE]
      /\ UNCHANGED <<ctx, current, cpu, program, stale>>
  BY DEF SchedInit, procVars, otherVars, sharedVars, tickVars
<1>3. /\ ctx = [i \in Slots |-> Zero] /\ current = 0 /\ \A t \in Slots \ {0} : stk[t] = <<>>
      /\ canary'[0]
  BY <1>1, <1>2 DEF Booting, Typed
<1>4. PICK s : s = <<AfterOp>>
  OBVIOUS
<1>5. /\ stk'[0] = s /\ \A t \in Slots \ {0} : stk'[t] = <<>>
  <2>1. Restacked(s)
    BY <1>1, <1>2, <1>4, StaysStack DEF Goto
  <2> QED
    BY <1>1, <1>3, <2>1, RestackedIs
<1>6. AfterOp.at = "run" /\ Head(s) = AfterOp /\ Tail(s) = <<>> /\ Members(s) = {AfterOp} /\ Lowest(s) = AfterOp
  <2> HIDE DEF AfterOp
  <2> QED
    BY <1>1, <1>4, OneIs DEF AnyRun
<1>7. PICK r \in AnyRun : r = AfterOp
  BY <1>1
<1>8. Top' = r /\ Entered(0)' = r /\ r.at = "run" /\ r.op = Top.op + 1
  BY <1>1, <1>2, <1>5, <1>6, <1>7 DEF Top, Entered
<1>9. /\ On(0)' = {r} /\ Under(0)' = {}
      /\ \A t \in Slots \ {0} : On(t)' = {} /\ Under(t)' = {}
  <2>1. ASSUME NEW t \in Slots PROVE On(t)' = Members(stk'[t])
    BY DEF On
  <2>2. Under(0)' = Members(Tail(s))
    BY <1>1, <1>2, <1>5 DEF Under
  <2>3. ASSUME NEW t \in Slots \ {0} PROVE Under(t)' = On(t)'
    BY <1>1, <1>2 DEF Under
  <2> QED
    BY <1>1, <1>5, <1>6, <1>7, <2>1, <2>2, <2>3, NoMembers
<1>10. Owned' /\ Buried'
  <2>1. \A t \in Slots : \A f \in On(t)' : f.at = "run"
    BY <1>8, <1>9
  <2>2. \A t \in Slots : \A f \in On(t)' : Sound(f, t)'
    BY <2>1 DEF Sound
  <2>3. \A t \in Slots : Under(t)' = {}
    BY <1>9
  <2> QED
    BY <2>2, <2>3 DEF Owned, Buried
<1>11. Suspended'
  <2>1. ASSUME NEW t \in Slots \ {0} PROVE ~ Made(t)' /\ stk'[t] = <<>> /\ ctx'[t] = Zero
    BY <1>2, <1>3, <1>5 DEF Made
  <2> QED
    BY <1>1, <1>2, <2>1 DEF Suspended, Zero
<1>12. Placed'
  BY <1>1, <1>2, <1>3, <1>8 DEF Placed, Switching
<1>13. Knows'
  BY <1>8 DEF Knows, Filling, Scanning
<1>14. Past'
  BY <1>1, <1>2, <1>8 DEF Past
<1> QED
  BY <1>1, <1>2, <1>3, <1>10, <1>11, <1>12, <1>13, <1>14 DEF Intact

LEMMA BootStep ==
  ASSUME ArmsOnce(program), EcallsEarly(program), InitsFirst(program),
         PInv, Typed, Booting, [Next]_vars
  PROVE  Booting' \/ Intact'
<1>1. Upright /\ Passes /\ OneTrap /\ bump \in Nat
  BY NextPasses DEF PInv
<1>2. /\ 0 \in Slots /\ cpu = 0 /\ Live(0) /\ Top.at \in {"run", "bump", "check"}
      /\ stk[0] \in AnyStack /\ Top = Head(stk[0]) /\ current = 0 /\ ~ canary[0]
      /\ Top.at = "run" => Top = Entered(0) /\ Top.prog = "main"
      /\ \A op : Doing(op) => /\ op \notin {"spawn", "yield", "exit"}
                              /\ op = "init" => program["main"][Top.op] = {"init"}
  BY <1>1, BootingIs, UprightTop DEF Booting
<1>3. CASE UNCHANGED vars \/ SysExit \/ Fault \/ YieldCheck
  <2>1. UNCHANGED <<state, pid, canary, ctx, nextPid, current, program, stk, cpu>>
    BY <1>2, <1>3 DEF vars, SysExit, Fault, YieldCheck, procVars, otherVars, sharedVars
  <2>2. Top' = Top /\ Entered(0)' = Entered(0)
    BY <2>1 DEF Top, Entered
  <2> QED
    BY <2>1, <2>2 DEF Booting, Zero
<1>4. ASSUME NEW op, Doing(op), op # "init", NEW r, r = AfterOp,
             UNCHANGED <<state, pid, canary, ctx, nextPid, current, program, cpu>>,
             Goto(r) \/ \E f \in AllocFrames : Call(f)
      PROVE  Booting'
  <2>1. /\ Top.at = "run" /\ Top.prog = "main" /\ Top = Entered(0)
        /\ op \in program["main"][Top.op] /\ Top.op \in Nat
        /\ r \in AnyRun /\ r.prog = "main" /\ r.op = Top.op + 1 /\ r.at = "run"
    <3>1. /\ Top.at = "run" /\ op \in program[Top.prog][Top.op] /\ Top.op \in 1 .. Len(program[Top.prog])
          /\ program[Top.prog] \in Seq(SUBSET Ops)
          /\ AfterOp \in AnyRun /\ AfterOp.prog = Top.prog /\ AfterOp.op = Top.op + 1
      BY <1>1, <1>4, OpIs
    <3> QED
      BY <1>2, <1>4, <3>1 DEF AnyRun
  <2>2. program["main"][Entered(0).op] # {"init"}
    BY <1>4, <2>1
  <2>3. CASE Goto(r)
    <3>1. Restacked(<<r>>) /\ Head(<<r>>) = r
      BY <1>1, <1>4, <2>1, <2>3, StaysStack DEF Goto
    <3>2. Entered(0)' = r
      BY <1>1, <1>2, <1>4, <2>3, PlainGoes DEF Advances
    <3> QED
      BY <1>1, <1>4, <2>1, <2>2, <3>1, <3>2, StillBooting DEF Restacked
  <2>4. ASSUME NEW f \in AllocFrames, Call(f) PROVE Booting'
    <3>1. Restacked(Pushed(f, <<r>>)) /\ Head(Pushed(f, <<r>>)) = f
      BY <1>1, <1>4, <2>1, <2>4, CallsStack DEF Call
    <3>2. Entered(0)' = r
      BY <1>1, <1>2, <1>4, <2>4, CallGoes DEF Advances
    <3>3. f.at = "bump"
      BY DEF AllocFrames
    <3> QED
      BY <1>1, <1>4, <2>1, <2>2, <3>1, <3>2, <3>3, StillBooting DEF Restacked
  <2> QED
    BY <1>4, <2>3, <2>4
<1>5. CASE Work \/ Arm \/ Ecall \/ Acquire \/ Release \/ AllocTest
  <2>1. UNCHANGED <<state, pid, canary, ctx, nextPid, current, program, cpu>>
    BY <1>5 DEF Work, Arm, Ecall, Acquire, Release, AllocTest, procVars, otherVars, sharedVars
  <2>2. Frame("bump", 0, bump) \in AllocFrames
    BY <1>1 DEF Frame, AllocFrames
  <2>3. \E op : /\ Doing(op) /\ op # "init"
                /\ Goto(AfterOp) \/ Call(Frame("bump", 0, bump))
    <3>1. CASE Work
      BY <3>1 DEF Work
    <3>2. CASE Arm
      BY <3>2 DEF Arm
    <3>3. CASE Ecall
      BY <3>3 DEF Ecall
    <3>4. CASE Acquire
      BY <3>4 DEF Acquire
    <3>5. CASE Release
      BY <3>5 DEF Release
    <3>6. CASE AllocTest
      BY <3>6 DEF AllocTest
    <3> QED
      BY <1>5, <3>1, <3>2, <3>3, <3>4, <3>5, <3>6
  <2> QED
    BY <1>4, <2>1, <2>2, <2>3
<1>6. CASE AllocBump
  <2> DEFINE u == Tail(stk[0])
  <2>1. /\ Top.at = "bump" /\ Return
        /\ UNCHANGED <<state, pid, canary, ctx, nextPid, current, program, cpu>>
    BY <1>6 DEF AllocBump, At, procVars, otherVars, sharedVars
  <2>2. stk' = [stk EXCEPT ![0] = u]
    BY <1>2, <2>1 DEF Return
  <2>3. u \in Resting
    BY <1>2, <2>1, AnyStackIs, CallingIs
  <2> HIDE DEF u
  <2>4. Head(u).at = "run"
    BY <2>3, RestingIs DEF AnyRun
  <2>5. Entered(0)' = Entered(0)
    BY <1>1, <1>2, <1>6, BumpGoes DEF Allocates
  <2> QED
    BY <1>1, <1>2, <2>1, <2>2, <2>4, <2>5, StillBooting
<1>7. CASE Tick
  <2> DEFINE f == Frame("check", 0, 1)
             p == Pushed(TrapFrame, stk[0])
             s == Pushed(f, p)
  <2>1. /\ mie /\ stk' = [stk EXCEPT ![0] = <<f, TrapFrame>> \o @]
        /\ UNCHANGED <<state, pid, canary, ctx, nextPid, current, program, cpu>>
    BY <1>2, <1>7 DEF Tick, procVars, sharedVars
  <2>2. ~ Hit(stk[0])
    BY <1>1, <1>2, <2>1 DEF OneTrap
  <2>3. stk[0] \in Seq(AnyFrame)
    BY <1>2, StackIs
  <2>4. f \in AnyFrame /\ TrapFrame \in AnyFrame /\ f.at = "check"
    <3>1. f \in AnyCall
      BY <1>2, AnyCallIs DEF Labels, HalfWritten
    <3> QED
      BY <3>1 DEF AnyFrame, Frame
  <2> HIDE DEF f
  <2>5. stk' = [stk EXCEPT ![0] = s] /\ Head(s) = f
    <3>1. <<f, TrapFrame>> \o stk[0] = s
      BY <2>3, <2>4, TwoIs
    <3>2. p \in Seq(AnyFrame)
      BY <2>3, <2>4, PushIs
    <3> HIDE DEF p
    <3>3. Head(s) = f
      BY <2>4, <3>2, PushIs
    <3> QED
      BY <1>2, <2>1, <3>1, <3>3 DEF p
  <2> HIDE DEF s
  <2>6. Entered(0)' = Entered(0)
    <3>1. Entered(cpu)' = Entered(cpu)
      BY <1>1, <1>2, <1>7, <2>2, TickGoes
    <3>2. Entered(cpu)' = Entered(0)'
      BY <1>2, <2>1 DEF Entered
    <3> QED
      BY <1>2, <3>1, <3>2
  <2> QED
    BY <1>1, <1>2, <2>1, <2>4, <2>5, <2>6, StillBooting
<1>8. CASE SchedInit
  BY <1>1, <1>8, InitIntact
<1>9. CASE /\ Next
           /\ ~ (SysExit \/ Fault \/ YieldCheck \/ Work \/ Arm \/ Ecall \/ Acquire \/ Release)
           /\ ~ (AllocTest \/ AllocBump \/ Tick \/ SchedInit)
  <2>1. CASE CallScheduler
    BY <1>2, <2>1 DEF CallScheduler
  <2>2. CASE EntryReturns
    BY <1>2, <2>2 DEF EntryReturns, At
  <2>3. ~ CallScheduler /\ ~ EntryReturns => Top.at \notin {"run", "bump", "check"}
    BY <1>9 DEF Next, Step, At, SpawnFind, SpawnPublish, SpawnNumber, SpawnCanary, SpawnBuild,
       YieldScan, YieldScanWith, YieldPark, ExitCheck, ExitZombie, ExitScan,
       Claim, SetCurrent, SwitchSave, SwitchRestore, SwitchReturn, TrapReturn
  <2> QED
    BY <1>2, <2>1, <2>2, <2>3
<1> QED
  BY <1>3, <1>5, <1>6, <1>7, <1>8, <1>9
----------------------------------------------------------------------------
LEMMA NextTyped ==
  ASSUME Upright, Typed, [Next]_vars
  PROVE  Typed'
<1>1. CASE UNCHANGED procVars
  BY <1>1 DEF Typed, procVars
<1>2. CASE SchedInit
  BY <1>2 DEF Typed, SchedInit
<1>3. CASE SpawnPublish
  BY <1>3 DEF Typed, SpawnPublish
<1>4. CASE SpawnNumber
  <2>1. pid' = [pid EXCEPT ![Top.i] = nextPid] /\ nextPid' = nextPid + 1
        /\ UNCHANGED <<state, canary>>
    BY <1>4 DEF SpawnNumber
  <2>2. PICK n \in Nat, q \in [Slots -> Nat], i \in {Top.i} : n = nextPid /\ q = pid
    BY DEF Typed
  <2>3. [q EXCEPT ![i] = n] = [t \in Slots |-> IF t = i THEN n ELSE q[t]]
    OBVIOUS
  <2>4. \A t \in Slots : (IF t = i THEN n ELSE q[t]) \in Nat
    OBVIOUS
  <2>5. [t \in Slots |-> IF t = i THEN n ELSE q[t]] \in [Slots -> Nat]
    BY <2>4
  <2>6. n + 1 \in Nat
    OBVIOUS
  <2>7. i = Top.i
    OBVIOUS
  <2> QED
    BY <2>1, <2>2, <2>3, <2>5, <2>6, <2>7 DEF Typed
<1>5. CASE SpawnCanary
  BY <1>5 DEF Typed, SpawnCanary
<1>6. CASE YieldPark
  <2>1. Top.old \in Slots
    <3>1. Top.at \in Labels \ {"bump"}
      BY <1>6 DEF YieldPark, At, Labels
    <3> QED
      BY <3>1, InnerFrame
  <2> QED
    BY <1>6, <2>1 DEF Typed, YieldPark
<1>7. CASE ExitZombie
  BY <1>7 DEF Typed, ExitZombie
<1>8. CASE Claim
  BY <1>8 DEF Typed, Claim
<1> QED
  BY <1>1, <1>2, <1>3, <1>4, <1>5, <1>6, <1>7, <1>8
  DEF vars, Next, Step, Work, Arm, Ecall, SysExit, Fault, CallScheduler, EntryReturns, Acquire,
      Release, AllocTest, AllocBump, SpawnFind, SpawnBuild, YieldCheck, YieldScan, YieldScanWith,
      ExitCheck, ExitScan, SetCurrent, SwitchSave, SwitchRestore, SwitchReturn, TrapReturn, Tick

LEMMA TornStays ==
  ASSUME torn, [Next]_vars
  PROVE  torn'
<1>1. UNCHANGED torn \/ Strike
  BY DEF vars, otherVars, tickVars, Next, Step, Work, SchedInit, Arm, Ecall, SysExit, Fault,
      CallScheduler, EntryReturns, Acquire,
      Release, AllocTest, AllocBump, SpawnFind, SpawnPublish, SpawnNumber, SpawnCanary, SpawnBuild,
      YieldCheck, YieldScan, YieldScanWith, YieldPark, ExitCheck, ExitZombie, ExitScan, Claim,
      SetCurrent, SwitchSave, SwitchRestore, SwitchReturn, TrapReturn, Tick
<1> QED
  BY <1>1 DEF Strike

LEMMA InitBoots ==
  ASSUME Init
  PROVE  Typed /\ Booting
<1>1. PInv /\ 0 \in Slots
  BY InitPInv, UprightTop DEF PInv
<1>2. stk[0] = <<Run("main", 1)>> /\ \A t \in Slots \ {0} : stk[t] = <<>>
  BY <1>1 DEF Init
<1>3. Top = Run("main", 1) /\ Entered(0) = Run("main", 1)
  <2>1. Run("main", 1) \in AnyRun
    BY DEF Run, AnyRun
  <2>2. Head(<<Run("main", 1)>>) = Run("main", 1) /\ Lowest(<<Run("main", 1)>>) = Run("main", 1)
    BY <2>1, OneIs
  <2> QED
    BY <1>2, <2>2 DEF Init, Top, Entered
<1>4. Run("main", 1).at = "run" /\ Run("main", 1).prog = "main" /\ Run("main", 1).op = 1
  BY DEF Run
<1>5. Typed
  BY DEF Init, Typed
<1>6. Booting
  BY <1>2, <1>3, <1>4 DEF Init, Booting
<1> QED
  BY <1>5, <1>6

(* Every state is Upright and its stacks are where they should be; until a  *)
(* tick strikes half-written state it is also Intact, or not yet booted.    *)
THEOREM Invariance ==
  ASSUME \A p \in Programs : ArmsOnce(p) /\ EcallsEarly(p) /\ InitsFirst(p)
  PROVE  Spec => []IInv
<1>1. Init => IInv
  BY InitPInv, InitBoots DEF IInv
<1>2. IInv /\ [Next]_vars => IInv'
  <2> SUFFICES ASSUME IInv, [Next]_vars PROVE IInv'
    OBVIOUS
  <2>1. PInv /\ Typed /\ Upright /\ PInv' /\ Typed'
    BY NextPInv, NextTyped DEF IInv, PInv
  <2>2. ArmsOnce(program) /\ EcallsEarly(program) /\ InitsFirst(program)
    BY <2>1 DEF Upright
  <2>3. torn' \/ Booting' \/ Intact'
    BY <2>1, <2>2, NextIntact, BootStep, TornStays DEF IInv
  <2> QED
    BY <2>1, <2>3 DEF IInv
<1> QED
  BY <1>1, <1>2, PTL DEF Spec

(* The context of every process off the processor is its own and its latest *)
(* until a tick strikes half-written state.                                 *)
THEOREM ContextsAreExact ==
  ASSUME \A p \in Programs : ArmsOnce(p) /\ EcallsEarly(p) /\ InitsFirst(p)
  PROVE  Spec => []SavedIsExact
<1>1. IInv => SavedIsExact
  <2>1. Booting => SavedIsExact
    BY DEF Booting, SavedIsExact
  <2>2. Intact => SavedIsExact
    <3> SUFFICES ASSUME Intact, NEW i \in Slots \ {cpu}, ctx[i] # Zero
                 PROVE  ctx[i].home = i /\ ctx[i].frames = stk[i]
      BY DEF SavedIsExact
    <3>1. ctx[i] = [home |-> i, frames |-> stk[i]]
      BY DEF Intact, Suspended
    <3> QED
      BY <3>1
  <2> QED
    BY <2>1, <2>2 DEF IInv, SavedIsExact
<1>2. Spec => []IInv
  BY Invariance
<1> QED
  BY <1>1, <1>2, PTL

(* No context_switch resumes anything but the context it is to resume, and  *)
(* no mret goes astray, unless a tick has struck half-written state.        *)
NotWild == ~ torn => halted # "wild"

THEOREM NeverWild ==
  ASSUME \A p \in Programs : ArmsOnce(p) /\ EcallsEarly(p) /\ InitsFirst(p)
  PROVE  Spec => []NotWild
<1>1. Init => NotWild
  BY DEF Init, NotWild
<1>2. IInv /\ NotWild /\ [Next]_vars => NotWild'
  <2> SUFFICES ASSUME IInv, NotWild, [Next]_vars, ~ torn' PROVE halted' # "wild"
    BY DEF NotWild
  <2>1. ~ torn /\ halted # "wild" /\ PInv /\ Upright
    BY TornStays DEF IInv, NotWild, PInv
  <2>2. CASE SwitchRestore
    <3>1. Top.at = "restore"
      BY <2>2 DEF SwitchRestore, At
    <3>2. Intact
      BY <2>1, <3>1 DEF IInv, Booting
    <3> QED
      BY <2>1, <2>2, <3>2, RestoreIs
  <2>3. CASE TrapReturn
    <3>1. MretIsOurs
      BY <2>1, <2>3, PInvTraps DEF MretReturnsHome, TrapReturn
    <3> QED
      BY <2>1, <2>3, <3>1 DEF TrapReturn
  <2>4. CASE ~ SwitchRestore /\ ~ TrapReturn
    <3>1. halted' \in {halted, "exit", "panic"}
      BY <2>4 DEF vars, Next, Step, Work, SchedInit, Arm, Ecall, SysExit, Fault,
        CallScheduler, EntryReturns, Acquire,
        Release, AllocTest, AllocBump, SpawnFind, SpawnPublish, SpawnNumber, SpawnCanary, SpawnBuild,
        YieldCheck, YieldScan, YieldScanWith, YieldPark, ExitCheck, ExitZombie, ExitScan, Claim,
        SetCurrent, SwitchSave, SwitchReturn, Tick
    <3> QED
      BY <2>1, <3>1
  <2> QED
    BY <2>2, <2>3, <2>4
<1>3. Spec => []IInv
  BY Invariance
<1> QED
  BY <1>1, <1>2, <1>3, PTL DEF Spec
----------------------------------------------------------------------------
(***************************************************************************)
(* Until a tick strikes a scan or half-written state, the kernel implements *)
(* module Scheduler.                                                        *)
(*                                                                          *)
(* What the mapping makes of each kind of state: at a label of a hand-over, *)
(* in the scan of sched_exit, while a new process is being built, and       *)
(* elsewhere.                                                               *)
(***************************************************************************)
Whole == PInv /\ Typed /\ Intact

OnKind(c)  == IF c = Zero THEN "zero" ELSE "stale"
OffKind(c) ==
  IF c = Zero THEN "zero" ELSE IF c.frames = <<Run("task", 1)>> THEN "trampoline" ELSE "suspended"

HandLabels == {"park", "claim", "current", "save", "restore"}

PlainTop == halted # "no" \/ Top.at \notin HandLabels \cup {"x_scan"} \cup Filling

PlainForm ==
  /\ AbsState = state /\ AbsPid = pid /\ AbsNextPid = nextPid
  /\ AbsCurrent = current /\ AbsCanary = canary
  /\ AbsCtx = [i \in Slots |-> IF i = current THEN OnKind(ctx[i]) ELSE OffKind(ctx[i])]

HandForm ==
  /\ AbsState = [i \in Slots |->
       IF i = Top.i THEN "RUNNING"
       ELSE IF i = Top.old /\ state[i] = "RUNNING" THEN "READY" ELSE state[i]]
  /\ AbsPid = pid /\ AbsNextPid = nextPid
  /\ AbsCurrent = Top.i /\ AbsCanary = canary
  /\ AbsCtx = [i \in Slots |-> IF i = Top.i THEN OnKind(ctx[i])
                               ELSE IF i = Top.old THEN "suspended" ELSE OffKind(ctx[i])]

EndingForm ==
  /\ AbsState = [state EXCEPT ![current] = "RUNNING"]
  /\ AbsPid = pid /\ AbsNextPid = nextPid /\ AbsCurrent = current /\ AbsCanary = canary
  /\ AbsCtx = [i \in Slots |-> IF i = current THEN OnKind(ctx[i]) ELSE OffKind(ctx[i])]

BuildForm ==
  /\ AbsState = state /\ AbsCurrent = current
  /\ AbsPid = IF Top.at = "number" THEN [pid EXCEPT ![Top.i] = nextPid] ELSE pid
  /\ AbsNextPid = IF Top.at = "number" THEN nextPid + 1 ELSE nextPid
  /\ AbsCanary = [i \in Slots |-> IF i = Top.i THEN TRUE ELSE canary[i]]
  /\ AbsCtx = [i \in Slots |-> IF i = Top.i THEN "trampoline"
                               ELSE IF i = current THEN OnKind(ctx[i]) ELSE OffKind(ctx[i])]

LEMMA PlainAbs == Whole /\ PlainTop => PlainForm
<1> SUFFICES ASSUME Whole, PlainTop PROVE PlainForm
  OBVIOUS
<1>1. /\ Booted /\ ~ HandingOver /\ ~ At("x_scan") /\ ~ Spawning /\ ~ At("number")
      /\ canary \in [Slots -> BOOLEAN]
  BY DEF Booted, HandingOver, Spawning, At, PlainTop, HandLabels, Filling, Whole, Typed, Intact
<1>2. AbsState = state /\ AbsCurrent = current /\ AbsPid = pid /\ AbsNextPid = nextPid
  BY <1>1 DEF AbsState, AbsCurrent, AbsPid, AbsNextPid
<1>3. AbsCanary = canary
  BY <1>1 DEF AbsCanary
<1>4. AbsCtx = [i \in Slots |-> IF i = current THEN OnKind(ctx[i]) ELSE OffKind(ctx[i])]
  BY <1>1, <1>2 DEF AbsCtx, OnKind, OffKind
<1> QED
  BY <1>2, <1>3, <1>4 DEF PlainForm

LEMMA HandAbs == Whole /\ halted = "no" /\ Top.at \in HandLabels => HandForm
<1> SUFFICES ASSUME Whole, halted = "no", Top.at \in HandLabels PROVE HandForm
  OBVIOUS
<1>1. /\ Booted /\ HandingOver /\ ~ At("x_scan") /\ ~ Spawning /\ ~ At("number")
      /\ canary \in [Slots -> BOOLEAN]
      /\ state \in [Slots -> {"UNUSED", "READY", "RUNNING", "ZOMBIE"}]
  BY DEF Booted, HandingOver, Spawning, At, HandLabels, Whole, Typed, Intact
<1>2. Top.old = cpu /\ Top.old \in Slots /\ Top.i \in Slots /\ Top.i # Top.old
  BY ChosenIs DEF Whole, PInv, HandLabels
<1>3. AbsState = [i \in Slots |->
        IF i = Top.i THEN "RUNNING"
        ELSE IF i = Top.old /\ state[i] = "RUNNING" THEN "READY" ELSE state[i]]
  BY <1>1, <1>2 DEF AbsState
<1>4. AbsCurrent = Top.i /\ AbsPid = pid /\ AbsNextPid = nextPid
  BY <1>1 DEF AbsCurrent, AbsPid, AbsNextPid
<1>5. AbsCanary = canary
  BY <1>1 DEF AbsCanary
<1>6. AbsCtx = [i \in Slots |-> IF i = Top.i THEN OnKind(ctx[i])
                  ELSE IF i = Top.old THEN "suspended" ELSE OffKind(ctx[i])]
  BY <1>1, <1>4 DEF AbsCtx, OnKind, OffKind
<1> QED
  BY <1>3, <1>4, <1>5, <1>6 DEF HandForm

LEMMA EndingAbs == Whole /\ halted = "no" /\ Top.at = "x_scan" => EndingForm
<1> SUFFICES ASSUME Whole, halted = "no", Top.at = "x_scan" PROVE EndingForm
  OBVIOUS
<1>1. /\ Booted /\ ~ HandingOver /\ At("x_scan") /\ ~ Spawning /\ ~ At("number")
      /\ canary \in [Slots -> BOOLEAN]
  BY DEF Booted, HandingOver, Spawning, At, Whole, Typed, Intact
<1>2. AbsState = [state EXCEPT ![current] = "RUNNING"] /\ AbsCurrent = current
      /\ AbsPid = pid /\ AbsNextPid = nextPid
  BY <1>1 DEF AbsState, AbsCurrent, AbsPid, AbsNextPid
<1>3. AbsCanary = canary
  BY <1>1 DEF AbsCanary
<1>4. AbsCtx = [i \in Slots |-> IF i = current THEN OnKind(ctx[i]) ELSE OffKind(ctx[i])]
  BY <1>1, <1>2 DEF AbsCtx, OnKind, OffKind
<1> QED
  BY <1>2, <1>3, <1>4 DEF EndingForm

LEMMA BuildAbs == Whole /\ halted = "no" /\ Top.at \in Filling => BuildForm
<1> SUFFICES ASSUME Whole, halted = "no", Top.at \in Filling PROVE BuildForm
  OBVIOUS
<1>1. /\ Booted /\ ~ HandingOver /\ ~ At("x_scan") /\ Spawning
      /\ (At("number") <=> Top.at = "number") /\ canary \in [Slots -> BOOLEAN]
  BY DEF Booted, HandingOver, Spawning, At, Filling, Whole, Typed, Intact
<1>2. /\ AbsState = state /\ AbsCurrent = current
      /\ AbsPid = IF Top.at = "number" THEN [pid EXCEPT ![Top.i] = nextPid] ELSE pid
      /\ AbsNextPid = IF Top.at = "number" THEN nextPid + 1 ELSE nextPid
  BY <1>1 DEF AbsState, AbsCurrent, AbsPid, AbsNextPid
<1>3. AbsCanary = [i \in Slots |-> IF i = Top.i THEN TRUE ELSE canary[i]]
  BY <1>1 DEF AbsCanary
<1>4. AbsCtx = [i \in Slots |-> IF i = Top.i THEN "trampoline"
                  ELSE IF i = current THEN OnKind(ctx[i]) ELSE OffKind(ctx[i])]
  BY <1>1, <1>2 DEF AbsCtx, OnKind, OffKind
<1> QED
  BY <1>2, <1>3, <1>4 DEF BuildForm

(* ... and of the state after a step.                                       *)
LEMMA FormsAfter ==
  ASSUME Whole'
  PROVE  /\ PlainTop' => PlainForm'
         /\ halted' = "no" /\ Top'.at \in HandLabels => HandForm'
         /\ halted' = "no" /\ Top'.at = "x_scan" => EndingForm'
         /\ halted' = "no" /\ Top'.at \in Filling => BuildForm'
<1>1. (Whole /\ PlainTop => PlainForm)'
  BY PlainAbs, PTL
<1>2. (Whole /\ halted = "no" /\ Top.at \in HandLabels => HandForm)'
  BY HandAbs, PTL
<1>3. (Whole /\ halted = "no" /\ Top.at = "x_scan" => EndingForm)'
  BY EndingAbs, PTL
<1>4. (Whole /\ halted = "no" /\ Top.at \in Filling => BuildForm)'
  BY BuildAbs, PTL
<1> QED
  BY <1>1, <1>2, <1>3, <1>4 DEF HandLabels, Filling

AbsVars == <<AbsState, AbsPid, AbsCtx, AbsCanary, AbsNextPid, AbsCurrent, halted>>

(* A step that touches none of the variables the mapping reads, between two *)
(* states of the last kind, is a stutter.                                   *)
LEMMA QuietAbs ==
  ASSUME Whole, Whole', PlainTop, PlainTop',
         UNCHANGED <<state, canary, ctx, current, pid, nextPid, halted>>
  PROVE  UNCHANGED AbsVars
<1>1. PlainForm /\ PlainForm'
  BY PlainAbs, FormsAfter
<1> QED
  BY <1>1 DEF PlainForm, AbsVars, OnKind, OffKind, Zero, Run

(* Where a step leads.                                                      *)
LEMMA GotoTop ==
  ASSUME Whole, Top.at \in Labels \ {"bump"}, cpu' = cpu, stale' = stale,
         NEW a \in Labels \ {"bump"}, NEW o \in Slots, NEW n \in Nat, Goto(Frame(a, o, n)),
         a \in HalfWritten => n \in Slots
  PROVE  Top'.at = a /\ Top'.old = o /\ Top'.i = n
<1> DEFINE f == Frame(a, o, n)
<1>1. f \in AnyCall /\ f.at = a /\ f.old = o /\ f.i = n
  BY AnyCallIs DEF Frame
<1> HIDE DEF f
<1>2. PICK s : Restacked(s) /\ Head(s) = f
  BY <1>1, GotoStack DEF Whole, Intact, PInv, f
<1>3. Top' = f
  BY <1>2, RestackedIs DEF Whole, PInv
<1> QED
  BY <1>1, <1>3

LEMMA ReturnTop ==
  ASSUME Whole, Top.at # "run", Return, cpu' = cpu, stale' = stale, ~ stale
  PROVE  Top'.at \notin HalfWritten \cup Scanning
<1>1. PICK s : Restacked(s) /\ Head(s) \in Under(cpu)
  BY ReturnStack DEF Whole, Intact, PInv
<1>2. Top' = Head(s) /\ cpu \in Slots
  BY <1>1, RestackedIs DEF Whole, PInv
<1> QED
  BY <1>1, <1>2 DEF Whole, Intact, Buried

LEMMA TickTop ==
  ASSUME Upright, Tick
  PROVE  Top'.at = "check"
<1> DEFINE f == Frame("check", 0, 1)
           p == Pushed(TrapFrame, stk[cpu])
           s == Pushed(f, p)
<1>1. /\ stk[cpu] \in AnyStack /\ cpu \in Slots /\ 0 \in Slots
      /\ cpu' = cpu /\ stk' = [stk EXCEPT ![cpu] = <<f, TrapFrame>> \o @]
  BY UprightTop DEF Tick
<1>2. stk[cpu] \in Seq(AnyFrame)
  BY <1>1, StackIs
<1>3. f \in AnyFrame /\ TrapFrame \in AnyFrame /\ f.at = "check"
  <2>1. f \in AnyCall
    BY <1>1, AnyCallIs DEF Labels, HalfWritten
  <2> QED
    BY <2>1 DEF AnyFrame, Frame
<1> HIDE DEF f
<1>4. <<f, TrapFrame>> \o stk[cpu] = s
  BY <1>2, <1>3, TwoIs
<1>5. p \in Seq(AnyFrame)
  BY <1>2, <1>3, PushIs
<1> HIDE DEF p
<1>6. Head(s) = f
  BY <1>3, <1>5, PushIs
<1> HIDE DEF s
<1>7. stk'[cpu] = s
  BY <1>1, <1>4 DEF Upright
<1> QED
  BY <1>1, <1>3, <1>6, <1>7 DEF Top

LEMMA OpTop ==
  ASSUME Upright, bump \in Nat,
         \/ Work \/ Arm \/ Ecall \/ Acquire \/ Release \/ AllocTest
         \/ CallScheduler \/ EntryReturns
  PROVE  Top.at = "run" /\ Top'.at \in {"run", "bump", "find", "check", "x_check"}
<1>1. UNCHANGED <<cpu, ctx, current, program>> /\ 0 \in Slots
  BY UprightTop DEF Work, Arm, Ecall, Acquire, Release, AllocTest, CallScheduler, EntryReturns,
     otherVars, sharedVars
<1>2. ASSUME NEW r \in AnyRun, Top.at = "run", stk' = [stk EXCEPT ![cpu] = <<r>> \o Tail(@)]
      PROVE  Top'.at = "run"
  <2>1. Restacked(<<r>>) /\ Head(<<r>>) = r
    BY <1>1, <1>2, StaysStack
  <2>2. Top' = r
    BY <2>1, RestackedIs
  <2> QED
    BY <2>2 DEF AnyRun
<1>3. ASSUME NEW r \in AnyRun, Top.at = "run", NEW f \in AnyCall \cup AllocFrames,
             stk' = [stk EXCEPT ![cpu] = <<f, r>> \o Tail(@)]
      PROVE  Top' = f
  <2>1. PICK s : Restacked(s) /\ Head(s) = f
    BY <1>1, <1>3, CallsStack
  <2> QED
    BY <2>1, RestackedIs
<1>4. \A a \in {"find", "check", "x_check"} : \A n \in Nat :
        Frame(a, 0, n) \in AnyCall /\ Frame(a, 0, n).at = a
  BY <1>1, AnyCallIs DEF Labels, HalfWritten, Frame
<1>5. ASSUME NEW op, Doing(op), Goto(AfterOp)
      PROVE  Top.at = "run" /\ Top'.at = "run"
  BY <1>2, <1>5, OpIs DEF Goto
<1>6. CASE AllocTest
  <2>1. Doing("alloc") /\ (Goto(AfterOp) \/ Call(Frame("bump", 0, bump)))
    BY <1>6 DEF AllocTest
  <2>2. Top.at = "run" /\ AfterOp \in AnyRun
    BY <2>1, OpIs
  <2>3. CASE Call(Frame("bump", 0, bump))
    <3>1. Frame("bump", 0, bump) \in AllocFrames /\ Frame("bump", 0, bump).at = "bump"
      BY DEF AllocFrames, Frame
    <3>2. Top' = Frame("bump", 0, bump)
      BY <1>3, <2>2, <2>3, <3>1 DEF Call
    <3> QED
      BY <2>2, <3>1, <3>2
  <2> QED
    BY <1>5, <2>1, <2>3
<1>7. CASE CallScheduler
  <2>1. PICK op : /\ Doing(op)
                  /\ Call(Frame("find", 0, 0)) \/ Call(Frame("check", 0, 1)) \/ Call(Frame("x_check", 0, 1))
    BY <1>7 DEF CallScheduler
  <2>2. Top.at = "run" /\ AfterOp \in AnyRun
    BY <2>1, OpIs
  <2>3. PICK f \in {Frame("find", 0, 0), Frame("check", 0, 1), Frame("x_check", 0, 1)} : Call(f)
    BY <2>1
  <2>4. f \in AnyCall /\ f.at \in {"find", "check", "x_check"}
    BY <1>4, <2>3
  <2>5. Top' = f
    BY <1>3, <2>2, <2>3, <2>4 DEF Call
  <2> QED
    BY <2>2, <2>4, <2>5
<1>8. CASE EntryReturns
  <2> DEFINE f == Frame("x_check", 0, 1)
             r == Run("task", 1)
  <2>1. Top.at = "run" /\ stk' = [stk EXCEPT ![cpu] = <<f, r>> \o Tail(@)]
    BY <1>8 DEF EntryReturns, At
  <2>2. f \in AnyCall /\ f.at = "x_check" /\ r \in AnyRun
    BY <1>4, <1>8, EntryGoes
  <2> HIDE DEF f, r
  <2>3. Top' = f
    BY <1>3, <2>1, <2>2
  <2> QED
    BY <2>1, <2>2, <2>3
<1> QED
  BY <1>5, <1>6, <1>7, <1>8 DEF Work, Arm, Ecall, Acquire, Release

LEMMA QuietSteps ==
  ASSUME Whole, Whole', Passes, ~ stale', ~ stale, ~ torn',
         \/ Work \/ Arm \/ Ecall \/ Acquire \/ Release \/ CallScheduler \/ AllocTest
         \/ AllocBump \/ EntryReturns \/ SpawnFind \/ YieldCheck \/ ExitCheck
         \/ SwitchReturn \/ Tick \/ TrapReturn
  PROVE  UNCHANGED AbsVars
<1>1. Upright /\ Intact /\ bump \in Nat /\ PInv
  BY DEF Whole, PInv
<1> DEFINE Mapped == HandLabels \cup {"x_scan"} \cup Filling
<1>2. Mapped \subseteq HalfWritten \cup Scanning
  BY DEF HandLabels, Filling, HalfWritten, Scanning
<1>3. CASE Work \/ Arm \/ Ecall \/ Acquire \/ Release \/ AllocTest \/ CallScheduler \/ EntryReturns
  <2>1. UNCHANGED <<state, canary, ctx, current, pid, nextPid, halted>>
    BY <1>3 DEF Work, Arm, Ecall, Acquire, Release, AllocTest, CallScheduler, EntryReturns, procVars
  <2>2. PlainTop /\ PlainTop'
    BY <1>1, <1>3, OpTop DEF PlainTop, HandLabels, Filling
  <2> QED
    BY <2>1, <2>2, QuietAbs
<1>4. CASE AllocBump \/ SwitchReturn
  <2>1. /\ UNCHANGED <<state, canary, ctx, current, pid, nextPid, halted, cpu, stale>>
        /\ Top.at \in {"bump", "return"} /\ Return
    BY <1>4 DEF AllocBump, SwitchReturn, At, procVars, otherVars, tickVars
  <2>2. PlainTop /\ PlainTop'
    BY <1>2, <2>1, ReturnTop DEF PlainTop, HandLabels, Filling
  <2> QED
    BY <2>1, <2>2, QuietAbs
<1>5. CASE SpawnFind
  <2>0. PICK i : i = Top.i
    OBVIOUS
  <2>1. /\ UNCHANGED <<state, canary, ctx, current, pid, nextPid, halted, cpu, stale>>
        /\ Top.at = "find" /\ Top.at \in Labels \ {"bump"}
        /\ \/ Return
           \/ i < MaxProcs /\ (Goto(Frame("find", 0, i + 1)) \/ Goto(Frame("publish", 0, i)))
    BY <1>5, <2>0 DEF SpawnFind, At, Labels, procVars, otherVars, tickVars
  <2>2. 0 \in Slots /\ i \in Nat /\ i + 1 \in Nat /\ (i < MaxProcs => i \in Slots)
    BY <1>1, <2>0, <2>1, InnerFrame, UprightTop DEF Slots
  <2>3. Top'.at \in {"find", "publish"} \/ Top'.at \notin HalfWritten \cup Scanning
    <3>1. CASE Return
      BY <2>1, <3>1, ReturnTop
    <3>2. CASE Goto(Frame("find", 0, i + 1))
      <4>1. "find" \in Labels \ {"bump"} /\ "find" \notin HalfWritten
        BY DEF Labels, HalfWritten
      <4> QED
        BY <2>1, <2>2, <3>2, <4>1, GotoTop
    <3>3. CASE i < MaxProcs /\ Goto(Frame("publish", 0, i))
      <4>1. "publish" \in Labels \ {"bump"}
        BY DEF Labels
      <4> QED
        BY <2>1, <2>2, <3>3, <4>1, GotoTop
    <3> QED
      BY <2>1, <3>1, <3>2, <3>3
  <2>4. PlainTop /\ PlainTop'
    BY <1>2, <2>1, <2>3 DEF PlainTop, HandLabels, Filling
  <2> QED
    BY <2>1, <2>4, QuietAbs
<1>6. CASE YieldCheck \/ ExitCheck
  <2>1. /\ Top.at \in {"check", "x_check"} /\ Top.at \in Labels \ {"bump"}
        /\ UNCHANGED <<state, canary, ctx, current, pid, nextPid, cpu, stale>>
    BY <1>6 DEF YieldCheck, ExitCheck, At, Labels, procVars, otherVars, tickVars
  <2>2. canary[current] /\ current \in Slots /\ 0 \in Slots
    BY <1>1, <2>1, TopIs
  <2>3. UNCHANGED halted /\ \E a \in {"scan", "x_zombie"}, o \in {current, 0} : Goto(Frame(a, o, 1))
    BY <1>6, <2>2 DEF YieldCheck, ExitCheck
  <2>4. Top'.at \in {"scan", "x_zombie"}
    <3>1. \A a \in {"scan", "x_zombie"} : a \in Labels \ {"bump"} /\ a \notin HalfWritten
      BY DEF Labels, HalfWritten
    <3> QED
      BY <2>1, <2>2, <2>3, <3>1, GotoTop
  <2>5. PlainTop /\ PlainTop'
    BY <2>1, <2>4 DEF PlainTop, HandLabels, Filling
  <2> QED
    BY <2>1, <2>3, <2>5, QuietAbs
<1>7. CASE Tick
  <2>1. /\ UNCHANGED <<state, canary, ctx, current, pid, nextPid, halted>>
        /\ Top.at \notin HalfWritten \cup Scanning
    BY <1>7 DEF Tick, Strike, procVars
  <2>2. PlainTop /\ PlainTop'
    BY <1>1, <1>2, <1>7, <2>1, TickTop DEF PlainTop, HandLabels, Filling
  <2> QED
    BY <2>1, <2>2, QuietAbs
<1>8. CASE TrapReturn
  <2>1. /\ UNCHANGED <<state, canary, ctx, current, pid, nextPid, halted, cpu, stale>>
        /\ Top.at = "trap" /\ Return
    BY <1>1, <1>8, MretIntact DEF TrapReturn, At, procVars, otherVars, tickVars
  <2>2. PlainTop /\ PlainTop'
    BY <1>2, <2>1, ReturnTop DEF PlainTop, HandLabels, Filling
  <2> QED
    BY <2>1, <2>2, QuietAbs
<1> QED
  BY <1>3, <1>4, <1>5, <1>6, <1>7, <1>8

(* Between the scan and the switch the mapped state stands still.           *)
LEMMA HandStays ==
  ASSUME Whole, Whole', halted = "no", halted' = "no",
         Top.at \in HandLabels, Top'.at \in HandLabels, Top'.i = Top.i, Top'.old = Top.old,
         UNCHANGED <<pid, nextPid, canary>>,
         \A j \in Slots \ {Top.i} : \/ state'[j] = state[j]
                                    \/ j = Top.old /\ state[j] = "RUNNING" /\ state'[j] = "READY",
         \A j \in Slots \ {Top.old} : ctx'[j] = ctx[j]
  PROVE  UNCHANGED AbsVars
<1>1. HandForm /\ HandForm'
  BY HandAbs, FormsAfter
<1>2. Top.i # Top.old
  BY ChosenIs DEF Whole, PInv, HandLabels
<1>3. AbsState' = AbsState
  BY <1>1, <1>2 DEF HandForm
<1>4. AbsCtx' = AbsCtx
  BY <1>1, <1>2 DEF HandForm, OnKind, OffKind, Zero, Run
<1> QED
  BY <1>1, <1>3, <1>4 DEF HandForm, AbsVars

LEMMA HandSteps ==
  ASSUME Whole, Whole', YieldPark \/ Claim \/ SetCurrent \/ SwitchSave
  PROVE  UNCHANGED AbsVars
<1>1. /\ halted = "no" /\ halted' = "no" /\ UNCHANGED <<pid, nextPid, canary, cpu, stale>>
      /\ Top.at \in HandLabels /\ Top.at \in Labels \ {"bump"}
  BY DEF YieldPark, Claim, SetCurrent, SwitchSave, At, procVars, otherVars, tickVars, HandLabels, Labels
<1>2. Top.old \in Slots /\ Top.i \in Slots /\ Top.i \in Nat /\ Top.i # Top.old /\ Top.old = cpu
  BY <1>1, ChosenIs DEF Whole, PInv, HandLabels
<1>3. Top'.at \in HandLabels /\ Top'.i = Top.i /\ Top'.old = Top.old
  <2>1. PICK a \in HandLabels : Goto(Frame(a, Top.old, Top.i))
    BY DEF YieldPark, Claim, SetCurrent, SwitchSave, HandLabels
  <2>2. a \in Labels \ {"bump"}
    BY DEF HandLabels, Labels
  <2> QED
    BY <1>1, <1>2, <2>1, <2>2, GotoTop
<1>4. \A j \in Slots \ {Top.i} : \/ state'[j] = state[j]
                                 \/ j = Top.old /\ state[j] = "RUNNING" /\ state'[j] = "READY"
  <2>1. CASE YieldPark
    BY <1>2, <2>1 DEF YieldPark, Whole, Typed
  <2>2. CASE Claim
    BY <1>2, <2>2 DEF Claim, Whole, Typed
  <2>3. CASE SetCurrent \/ SwitchSave
    BY <2>3 DEF SetCurrent, SwitchSave, procVars
  <2> QED
    BY <2>1, <2>2, <2>3
<1>5. \A j \in Slots \ {Top.old} : ctx'[j] = ctx[j]
  <2>1. CASE SwitchSave
    BY <1>2, <2>1 DEF SwitchSave, Whole, PInv, Upright
  <2>2. CASE YieldPark \/ Claim \/ SetCurrent
    BY <2>2 DEF YieldPark, Claim, SetCurrent
  <2> QED
    BY <2>1, <2>2
<1> QED
  BY <1>1, <1>3, <1>4, <1>5, HandStays

(* Stopping, and the steps of sched_spawn.                                  *)
LEMMA StopSteps ==
  ASSUME Whole, Whole', SysExit \/ Fault
  PROVE  Abstract!SysExit
<1>1. /\ Top.at = "run" /\ halted = "no" /\ halted' \in {"exit", "panic"}
      /\ UNCHANGED <<procVars, ctx, current>>
  BY DEF SysExit, Fault, Doing, At
<1>2. PlainTop /\ PlainTop'
  BY <1>1 DEF PlainTop, HandLabels, Filling
<1>3. PlainForm /\ PlainForm'
  BY <1>2, PlainAbs, FormsAfter
<1>4. UNCHANGED <<AbsState, AbsPid, AbsCtx, AbsCanary, AbsNextPid, AbsCurrent>>
  BY <1>1, <1>3 DEF PlainForm, OnKind, OffKind, Zero, Run, procVars
<1> QED
  BY <1>1, <1>4 DEF Abstract!SysExit

LEMMA SpawnSteps ==
  ASSUME Whole, Whole', SpawnPublish
  PROVE  Abstract!Spawn
<1>0. PICK i : i = Top.i
  OBVIOUS
<1>1. /\ Top.at = "publish" /\ halted = "no"
      /\ UNCHANGED <<canary, ctx, current, cpu, halted, pid, nextPid, stale>>
      /\ Goto(Frame("number", 0, i)) /\ state' = [state EXCEPT ![i] = "READY"]
  BY <1>0 DEF SpawnPublish, At, otherVars, tickVars
<1>2. /\ Top.at \in Labels \ {"bump"} /\ i \in Slots /\ i \in Nat /\ 0 \in Slots
      /\ state[i] = "UNUSED" /\ \A j \in 0 .. i - 1 : state[j] # "UNUSED"
  <2>1. /\ Top.at \in Labels \ {"bump"} /\ i \in Slots /\ i \in Nat /\ 0 \in Slots
        /\ state[i] = "UNUSED" /\ \A j \in Slots : j < i => state[j] # "UNUSED"
    BY <1>0, <1>1, InnerFrame DEF Labels, HalfWritten, Whole, PInv, Intact, Knows
  <2>2. \A j \in 0 .. i - 1 : j \in Slots /\ j < i
    BY <2>1, UprightTop DEF Slots, Whole, PInv
  <2> QED
    BY <2>1, <2>2
<1>3. Top'.at = "number" /\ Top'.i = i
  BY <1>1, <1>2, GotoTop DEF Labels
<1>4. current = cpu /\ i # current
  <2>1. current = cpu /\ state[cpu] # "UNUSED"
    BY <1>1, TopIs DEF Whole, PInv, Intact, Placed, Switching
  <2> QED
    BY <1>2, <2>1
<1>5. PlainForm /\ BuildForm'
  BY <1>1, <1>3, PlainAbs, FormsAfter DEF PlainTop, HandLabels, Filling
<1>6. AbsState' = [AbsState EXCEPT ![i] = "READY"] /\ AbsState = state /\ UNCHANGED AbsCurrent
  BY <1>1, <1>5 DEF PlainForm, BuildForm
<1>7. AbsCanary' = [AbsCanary EXCEPT ![i] = TRUE]
  BY <1>1, <1>3, <1>5 DEF PlainForm, BuildForm, Whole, Typed
<1>8. AbsCtx' = [AbsCtx EXCEPT ![i] = "trampoline"]
  BY <1>1, <1>3, <1>4, <1>5 DEF PlainForm, BuildForm, OnKind, OffKind, Zero, Run
<1>9. AbsPid' = [AbsPid EXCEPT ![i] = AbsNextPid] /\ AbsNextPid' = AbsNextPid + 1
  BY <1>1, <1>3, <1>5 DEF PlainForm, BuildForm
<1> QED
  BY <1>1, <1>2, <1>6, <1>7, <1>8, <1>9 DEF Abstract!Spawn, Abstract!Slots, Slots

LEMMA FillSteps ==
  ASSUME Whole, Whole', SpawnNumber \/ SpawnCanary
  PROVE  UNCHANGED AbsVars
<1>0. PICK i : i = Top.i
  OBVIOUS
<1>1. /\ Top.at \in {"number", "canary"} /\ halted = "no"
      /\ UNCHANGED <<state, ctx, current, cpu, halted, stale>>
      /\ Top.at = "number" => /\ pid' = [pid EXCEPT ![i] = nextPid] /\ nextPid' = nextPid + 1
                              /\ Goto(Frame("canary", 0, i)) /\ UNCHANGED canary
      /\ Top.at = "canary" => /\ canary' = [canary EXCEPT ![i] = TRUE] /\ UNCHANGED <<pid, nextPid>>
                              /\ Goto(Frame("build", 0, i))
  BY <1>0 DEF SpawnNumber, SpawnCanary, At, otherVars, tickVars
<1>2. Top.at \in Labels \ {"bump"} /\ i \in Slots /\ i \in Nat /\ 0 \in Slots /\ i # cpu
  BY <1>0, <1>1, InnerFrame DEF Labels, HalfWritten, Whole, PInv, Intact, Knows, Filling
<1>3. Top'.at = (IF Top.at = "number" THEN "canary" ELSE "build") /\ Top'.i = i
  BY <1>1, <1>2, GotoTop DEF Labels
<1>4. BuildForm /\ BuildForm'
  BY <1>1, <1>3, BuildAbs, FormsAfter DEF Filling
<1>5. UNCHANGED <<AbsState, AbsCurrent, AbsPid, AbsNextPid>>
  BY <1>0, <1>1, <1>3, <1>4 DEF BuildForm
<1>6. UNCHANGED AbsCanary
  BY <1>0, <1>1, <1>3, <1>4 DEF BuildForm, Whole, Typed
<1>7. UNCHANGED AbsCtx
  BY <1>0, <1>1, <1>3, <1>4 DEF BuildForm, OnKind, OffKind, Zero, Run
<1> QED
  BY <1>1, <1>5, <1>6, <1>7 DEF AbsVars

LEMMA BuildSteps ==
  ASSUME Whole, Whole', SpawnBuild
  PROVE  UNCHANGED AbsVars
<1>0. PICK i : i = Top.i
  OBVIOUS
<1> DEFINE fresh == <<Run("task", 1)>>
           u == Tail(stk[cpu])
<1>1. /\ Top.at = "build" /\ halted = "no"
      /\ ctx' = [ctx EXCEPT ![i] = [home |-> i, frames |-> fresh]]
      /\ stk' = [stk EXCEPT ![cpu] = u, ![i] = fresh]
      /\ UNCHANGED <<state, pid, canary, nextPid, current, cpu, halted>>
  BY <1>0 DEF SpawnBuild, At, procVars
<1>2. /\ i \in Slots /\ i # cpu /\ cpu \in Slots /\ current = cpu /\ Top.at \in Labels \ {"bump"}
      /\ canary[i]
  BY <1>0, <1>1, TopIs DEF Whole, PInv, Intact, Knows, Filling, Labels
<1>3. Top' = Head(u) /\ Top'.at \in {"run", "trap"}
  <2>1. u \in Resting \cup Struck
    BY <1>2, InnerTail DEF Whole, PInv
  <2>2. Head(u).at \in {"run", "trap"}
    <3>1. Head(u) \in AnyRun \/ Head(u) = TrapFrame
      BY <2>1, RestingIs, StruckIs
    <3> HIDE DEF u
    <3> QED
      BY <3>1 DEF AnyRun, TrapFrame
  <2>3. stk'[cpu] = u
    BY <1>1, <1>2 DEF Whole, PInv, Upright
  <2> QED
    BY <1>1, <2>2, <2>3 DEF Top
<1>4. BuildForm /\ PlainForm'
  BY <1>1, <1>3, BuildAbs, FormsAfter DEF PlainTop, HandLabels, Filling
<1>5. OffKind([home |-> i, frames |-> fresh]) = "trampoline"
  <2>1. fresh # <<>>
    OBVIOUS
  <2> QED
    BY <2>1 DEF OffKind, Zero
<1>6. UNCHANGED <<AbsState, AbsCurrent, AbsPid, AbsNextPid>>
  BY <1>1, <1>4 DEF BuildForm, PlainForm
<1>7. UNCHANGED AbsCanary
  BY <1>0, <1>1, <1>2, <1>4 DEF BuildForm, PlainForm, Whole, Typed
<1> HIDE DEF fresh
<1>8. /\ ctx'[i] = [home |-> i, frames |-> fresh]
      /\ \A t \in Slots \ {i} : ctx'[t] = ctx[t]
  BY <1>1, <1>2 DEF Whole, PInv, Upright
<1>10. AbsCtx = [t \in Slots |-> IF t = i THEN "trampoline"
                                 ELSE IF t = current THEN OnKind(ctx[t]) ELSE OffKind(ctx[t])]
  BY <1>0, <1>4 DEF BuildForm
<1>11. AbsCtx' = [t \in Slots |-> IF t = current THEN OnKind(ctx'[t]) ELSE OffKind(ctx'[t])]
  BY <1>1, <1>4 DEF PlainForm, OnKind, OffKind, Zero, Run
<1>12. UNCHANGED AbsCtx
  BY <1>2, <1>5, <1>8, <1>10, <1>11
<1> QED
  BY <1>1, <1>6, <1>7, <1>12 DEF AbsVars

(* The scans, and what they find.                                           *)
LEMMA SavedCtx ==
  ASSUME Whole, NEW t \in Slots \ {cpu}, state[t] = "READY", Top.at \notin Filling
  PROVE  ctx[t] # Zero
<1>1. Made(t)
  BY DEF Made
<1>2. Live(t) /\ ctx[t] = [home |-> t, frames |-> stk[t]]
  BY <1>1 DEF Whole, Intact, Suspended
<1> QED
  BY <1>2 DEF Zero, Live

LEMMA ScanSteps ==
  ASSUME Whole, Whole', ~ stale, YieldScan
  PROVE  UNCHANGED AbsVars \/ Abstract!Yield
<1>0. PICK k : k = Top.i
  OBVIOUS
<1> DEFINE next == (cpu + k) % MaxProcs
<1>1. /\ Top.at = "scan" /\ Top.at \in Labels \ {"bump"} /\ Top.at \notin Filling /\ halted = "no"
      /\ UNCHANGED <<state, pid, canary, nextPid, ctx, current, cpu, halted, stale>>
  BY DEF YieldScan, YieldScanWith, At, procVars, otherVars, tickVars, Labels, Filling
<1>3. /\ Top.old = cpu /\ k \in Nat /\ k > 0 /\ cpu \in Slots /\ cpu \in Nat
      /\ current = cpu /\ state[cpu] = "RUNNING" /\ canary[cpu]
      /\ \A j \in 1 .. k - 1 : state[(cpu + j) % MaxProcs] # "READY"
  <2>1. Top.old = cpu /\ cpu \in Slots /\ current = cpu /\ canary[cpu]
    BY <1>1, TopIs DEF Whole, PInv, Sound
  <2>2. state[cpu] = "RUNNING"
    BY <1>1 DEF Whole, Intact, Placed, Switching
  <2>3. k \in Nat
    BY <1>0, <1>1, InnerFrame DEF Whole, PInv
  <2>4. k > 0 /\ \A j \in 1 .. k - 1 : state[(cpu + j) % MaxProcs] # "READY"
    BY <1>0, <1>1 DEF Whole, Intact, Knows, Scanning
  <2> QED
    BY <2>1, <2>2, <2>3, <2>4, SlotIsNat
<1>2. /\ \/ Return
         \/ k <= MaxProcs /\ state[next] = "READY" /\ Goto(Frame("park", cpu, next))
         \/ Goto(Frame("scan", cpu, k + 1))
  BY <1>0, <1>1, <1>3 DEF YieldScan, YieldScanWith, Scan
<1>9. next \in Slots /\ next \in Nat
  BY <1>3, NextSlotIs, SlotIsNat DEF Whole, PInv
<1> HIDE DEF next
<1>4. PlainTop /\ PlainForm
  BY <1>1, PlainAbs DEF PlainTop, HandLabels, Filling
<1>5. CASE Return \/ Goto(Frame("scan", cpu, k + 1))
  <2>1. Top'.at = "scan" \/ Top'.at \notin HalfWritten \cup Scanning
    <3>1. CASE Return
      BY <1>1, <3>1, ReturnTop
    <3>2. CASE Goto(Frame("scan", cpu, k + 1))
      BY <1>1, <1>3, <3>2, GotoTop DEF Labels, HalfWritten
    <3> QED
      BY <1>5, <3>1, <3>2
  <2>2. PlainTop'
    BY <2>1 DEF PlainTop, HandLabels, Filling, HalfWritten, Scanning
  <2> QED
    BY <1>1, <1>4, <2>2, QuietAbs
<1>6. CASE k <= MaxProcs /\ state[next] = "READY" /\ Goto(Frame("park", cpu, next))
  <2>1. Top'.at = "park" /\ Top'.old = cpu /\ Top'.i = next
    BY <1>1, <1>3, <1>6, <1>9, GotoTop DEF Labels
  <2>2. HandForm'
    BY <1>1, <2>1, FormsAfter DEF HandLabels
  <2>3. next # cpu /\ ctx[next] # Zero
    BY <1>1, <1>3, <1>6, <1>9, SavedCtx
  <2>4. AbsState = state /\ AbsCurrent = cpu /\ AbsCurrent' = next
        /\ UNCHANGED <<AbsCanary, AbsPid, AbsNextPid>>
    BY <1>1, <1>3, <1>4, <2>1, <2>2 DEF PlainForm, HandForm
  <2>5. AbsState' = [state EXCEPT ![cpu] = IF @ = "RUNNING" THEN "READY" ELSE @, ![next] = "RUNNING"]
    BY <1>1, <2>1, <2>2, <2>3 DEF HandForm, Whole, Typed
  <2>6. AbsCtx' = [AbsCtx EXCEPT ![cpu] = "suspended", ![next] = "stale"]
    BY <1>1, <1>3, <1>4, <2>1, <2>2, <2>3 DEF PlainForm, HandForm, OnKind, OffKind, Zero, Run
  <2>7. Abstract!FirstReady(state, cpu, next)
    <3>1. k \in 1 .. MaxProcs
      BY <1>3, <1>6
    <3> QED
      BY <1>3, <1>6, <3>1 DEF Abstract!FirstReady, Abstract!Visited, next
  <2>8. AbsCanary[cpu]
    BY <1>3, <1>4 DEF PlainForm
  <2> QED
    BY <1>1, <1>3, <1>9, <2>4, <2>5, <2>6, <2>7, <2>8
    DEF Abstract!Yield, Abstract!CheckCanary, Abstract!ContextSwitch, Abstract!Slots, Slots
<1> QED
  BY <1>2, <1>5, <1>6

LEMMA ZombieSteps ==
  ASSUME Whole, Whole', ~ stale, ExitZombie
  PROVE  UNCHANGED AbsVars
<1>1. /\ Top.at = "x_zombie" /\ Top.at \in Labels \ {"bump"} /\ halted = "no"
      /\ state' = [state EXCEPT ![current] = "ZOMBIE"]
      /\ UNCHANGED <<pid, canary, nextPid, ctx, current, cpu, halted, stale>>
      /\ Goto(Frame("x_scan", 0, 1))
  BY DEF ExitZombie, At, otherVars, tickVars, Labels
<1>2. 0 \in Slots /\ cpu \in Slots /\ current = cpu /\ state[cpu] = "RUNNING"
  <2>1. 0 \in Slots /\ cpu \in Slots /\ current = cpu
    BY <1>1, TopIs DEF Whole, PInv
  <2>2. state[cpu] = "RUNNING"
    BY <1>1 DEF Whole, Intact, Placed, Switching
  <2> QED
    BY <2>1, <2>2
<1>3. Top'.at = "x_scan"
  BY <1>1, <1>2, GotoTop DEF Labels, HalfWritten
<1>4. PlainForm /\ EndingForm'
  BY <1>1, <1>3, PlainAbs, FormsAfter DEF PlainTop, HandLabels, Filling
<1>5. AbsState' = AbsState
  BY <1>1, <1>2, <1>4 DEF PlainForm, EndingForm, Whole, Typed
<1> QED
  BY <1>1, <1>4, <1>5 DEF PlainForm, EndingForm, AbsVars, OnKind, OffKind, Zero, Run

(* The rounds of a scan visit every slot.                                   *)
LEMMA AllVisited ==
  ASSUME NEW c \in Slots, NEW b \in Slots
  PROVE  \E j \in 1 .. MaxProcs : (c + j) % MaxProcs = b
<1>1. CASE b > c
  <2>1. b - c \in 1 .. MaxProcs /\ c + (b - c) = b /\ b % MaxProcs = b
    BY <1>1, KernelAssumption DEF Slots
  <2> QED
    BY <2>1
<1>2. CASE b <= c
  <2> DEFINE j == b - c + MaxProcs
  <2>1. j \in 1 .. MaxProcs /\ c + j = b + MaxProcs
    BY <1>2, KernelAssumption DEF Slots
  <2>2. (b + MaxProcs) % MaxProcs = b
    BY KernelAssumption DEF Slots
  <2> QED
    BY <2>1, <2>2
<1> QED
  BY <1>1, <1>2, KernelAssumption DEF Slots

LEMMA EndSteps ==
  ASSUME Whole, Whole', ~ stale, ExitScan
  PROVE  UNCHANGED AbsVars \/ Abstract!Exit \/ Abstract!ExitLast
<1>0. PICK k : k = Top.i
  OBVIOUS
<1> DEFINE next == (cpu + k) % MaxProcs
<1>1. /\ Top.at = "x_scan" /\ Top.at \in Labels \ {"bump"} /\ Top.at \notin Filling /\ halted = "no"
      /\ UNCHANGED <<state, pid, canary, nextPid, ctx, current, cpu, stale>>
  BY DEF ExitScan, At, procVars, otherVars, tickVars, Labels, Filling
<1>3. /\ k \in Nat /\ k > 0 /\ cpu \in Slots /\ cpu \in Nat /\ 0 \in Slots
      /\ current = cpu /\ state[cpu] = "ZOMBIE" /\ canary[cpu]
      /\ \A j \in 1 .. k - 1 : state[(cpu + j) % MaxProcs] # "READY"
  <2>1. cpu \in Slots /\ 0 \in Slots /\ current = cpu /\ canary[cpu] /\ state[cpu] = "ZOMBIE"
    BY <1>1, TopIs DEF Whole, PInv, Sound
  <2>3. k \in Nat
    BY <1>0, <1>1, InnerFrame DEF Whole, PInv
  <2>4. k > 0 /\ \A j \in 1 .. k - 1 : state[(cpu + j) % MaxProcs] # "READY"
    BY <1>0, <1>1 DEF Whole, Intact, Knows, Scanning
  <2> QED
    BY <2>1, <2>3, <2>4, SlotIsNat
<1>2. /\ \/ k > MaxProcs /\ halted' = "exit" /\ UNCHANGED stk
         \/ /\ k <= MaxProcs /\ halted' = halted /\ state[next] = "READY"
            /\ Goto(Frame("claim", cpu, next))
         \/ halted' = halted /\ Goto(Frame("x_scan", 0, k + 1))
  BY <1>0, <1>1, <1>3 DEF ExitScan
<1>9. next \in Slots /\ next \in Nat
  BY <1>3, NextSlotIs, SlotIsNat DEF Whole, PInv
<1> HIDE DEF next
<1>4. EndingForm
  BY <1>1, EndingAbs
<1>5. /\ AbsState = [state EXCEPT ![cpu] = "RUNNING"] /\ AbsCurrent = cpu /\ AbsCanary[cpu]
      /\ [AbsState EXCEPT ![cpu] = "ZOMBIE"] = state
  BY <1>1, <1>3, <1>4 DEF EndingForm, Whole, Typed
<1>6. CASE k > MaxProcs /\ halted' = "exit" /\ UNCHANGED stk
  <2>1. PlainForm'
    BY <1>1, <1>6, FormsAfter DEF PlainTop
  <2>2. UNCHANGED <<AbsCtx, AbsCanary, AbsCurrent, AbsPid, AbsNextPid>> /\ AbsState' = state
    BY <1>1, <1>4, <2>1 DEF EndingForm, PlainForm, OnKind, OffKind, Zero, Run
  <2>3. Abstract!NoneReady(state)
    <3>0. \A j \in 1 .. MaxProcs : j \in 1 .. k - 1
      BY <1>3, <1>6, KernelAssumption
    <3>1. \A j \in 1 .. MaxProcs : state[(cpu + j) % MaxProcs] # "READY"
      BY <1>3, <3>0
    <3> QED
      BY <1>3, <3>1, AllVisited DEF Abstract!NoneReady, Abstract!Slots, Slots
  <2> QED
    BY <1>1, <1>5, <1>6, <2>2, <2>3 DEF Abstract!ExitLast, Abstract!CheckCanary
<1>7. CASE halted' = halted /\ Goto(Frame("x_scan", 0, k + 1))
  <2>1. Top'.at = "x_scan"
    BY <1>1, <1>3, <1>7, GotoTop DEF Labels, HalfWritten
  <2>2. EndingForm'
    BY <1>1, <1>7, <2>1, FormsAfter
  <2> QED
    BY <1>1, <1>4, <1>7, <2>2 DEF EndingForm, AbsVars, OnKind, OffKind, Zero, Run
<1>8. CASE /\ k <= MaxProcs /\ halted' = halted /\ state[next] = "READY"
           /\ Goto(Frame("claim", cpu, next))
  <2>1. Top'.at = "claim" /\ Top'.old = cpu /\ Top'.i = next
    BY <1>1, <1>3, <1>8, <1>9, GotoTop DEF Labels
  <2>2. HandForm'
    BY <1>1, <1>8, <2>1, FormsAfter DEF HandLabels
  <2>3. next # cpu /\ ctx[next] # Zero
    BY <1>1, <1>3, <1>8, <1>9, SavedCtx
  <2>4. AbsCurrent' = next /\ UNCHANGED <<AbsCanary, AbsPid, AbsNextPid>>
    BY <1>1, <1>4, <2>1, <2>2 DEF EndingForm, HandForm
  <2>5. AbsState' = [state EXCEPT ![next] = "RUNNING"]
    BY <1>1, <1>3, <2>1, <2>2, <2>3 DEF HandForm, Whole, Typed
  <2>6. AbsCtx' = [AbsCtx EXCEPT ![cpu] = "suspended", ![next] = "stale"]
    BY <1>1, <1>3, <1>4, <2>1, <2>2, <2>3 DEF EndingForm, HandForm, OnKind, OffKind, Zero, Run
  <2>7. Abstract!FirstReady(state, cpu, next)
    <3>1. k \in 1 .. MaxProcs
      BY <1>3, <1>8
    <3> QED
      BY <1>3, <1>8, <3>1 DEF Abstract!FirstReady, Abstract!Visited, next
  <2> QED
    BY <1>1, <1>3, <1>5, <1>8, <1>9, <2>4, <2>5, <2>6, <2>7
    DEF Abstract!Exit, Abstract!CheckCanary, Abstract!ContextSwitch, Abstract!Slots, Slots
<1> QED
  BY <1>2, <1>6, <1>7, <1>8

(* The switch completes the hand-over.                                      *)
LEMMA RestoreSteps ==
  ASSUME Whole, Whole', SwitchRestore
  PROVE  UNCHANGED AbsVars
<1>0. PICK n, c, frame : n = Top.i /\ c = cpu /\ frame = Frame("return", cpu, Top.i)
  OBVIOUS
<1>1. /\ Top.at = "restore" /\ Top.at \in Labels \ {"bump"} /\ halted = "no" /\ halted' = halted
      /\ UNCHANGED <<state, pid, canary, nextPid, ctx, current>>
      /\ cpu' = n /\ ctx[n] = [home |-> n, frames |-> stk[n]]
      /\ stk' = [stk EXCEPT ![c] = <<frame>> \o Tail(stk[c])]
  BY <1>0, RestoreIs DEF SwitchRestore, At, procVars, Labels, Whole, PInv
<1>2. /\ c \in Slots /\ n \in Slots /\ n \in Nat /\ n # c /\ Top.old = c /\ current = n
      /\ state[n] = "RUNNING" /\ state[c] # "RUNNING"
      /\ ctx[c] = [home |-> c, frames |-> <<frame>> \o Tail(stk[c])]
  <2>1. /\ c \in Slots /\ n \in Slots /\ n \in Nat /\ n # c /\ Top.old = c /\ current = n
        /\ state[n] = "RUNNING" /\ state[c] \in {"READY", "ZOMBIE"}
    BY <1>0, <1>1, ChosenIs DEF Whole, PInv
  <2>2. ctx[c] = [home |-> c, frames |-> <<frame>> \o Tail(stk[c])]
    BY <1>0, <1>1, <2>1 DEF Whole, Intact, Knows
  <2> QED
    BY <2>1, <2>2
<1>4. Top' = Head(stk[n]) /\ Top'.at \in {"return", "run"}
  <2>1. stk'[n] = stk[n]
    BY <1>1, <1>2 DEF Whole, PInv, Upright
  <2>2. Made(n)
    BY <1>1, <1>2 DEF Made, Filling
  <2>3. Head(stk[n]).at = "return" \/ stk[n] = <<Run("task", 1)>>
    BY <1>0, <1>2, <2>2 DEF Whole, Intact, Suspended
  <2>4. Head(<<Run("task", 1)>>).at = "run"
    BY OneIs DEF Run
  <2> QED
    BY <1>1, <2>1, <2>3, <2>4 DEF Top
<1>5. HandForm /\ PlainForm'
  BY <1>1, <1>4, HandAbs, FormsAfter DEF PlainTop, HandLabels, Filling
<1>6. OffKind(ctx[c]) = "suspended"
  <2> DEFINE u == Tail(stk[c])
             s == Pushed(frame, u)
  <2>1. u \in Resting \cup Struck /\ frame \in AnyCall /\ frame.at = "return"
    <3>1. frame \in AnyCall
      BY <1>0, <1>2, AnyCallIs DEF Labels, HalfWritten
    <3> QED
      BY <1>0, <1>1, <3>1, InnerTail DEF Frame, Whole, PInv
  <2> HIDE DEF u
  <2>2. s # <<>> /\ Head(s) = frame
    BY <2>1, CallOn
  <2> HIDE DEF s
  <2>3. Head(<<Run("task", 1)>>) = Run("task", 1) /\ Run("task", 1).at = "run"
    BY OneIs DEF Run
  <2>4. s # <<Run("task", 1)>>
    BY <2>1, <2>2, <2>3
  <2>5. ctx[c] = [home |-> c, frames |-> s]
    BY <1>2 DEF s, u, Pushed
  <2> QED
    BY <2>2, <2>4, <2>5 DEF OffKind, Zero
<1>7. AbsState' = AbsState
  BY <1>0, <1>1, <1>2, <1>5 DEF HandForm, PlainForm, Whole, Typed
<1>8. AbsCtx' = AbsCtx
  <2>2. AbsCtx = [t \in Slots |-> IF t = n THEN OnKind(ctx[t])
                                  ELSE IF t = c THEN "suspended" ELSE OffKind(ctx[t])]
    BY <1>0, <1>2, <1>5 DEF HandForm
  <2>3. AbsCtx' = [t \in Slots |-> IF t = n THEN OnKind(ctx[t]) ELSE OffKind(ctx[t])]
    BY <1>1, <1>2, <1>5 DEF PlainForm, OnKind, OffKind, Zero, Run
  <2> QED
    BY <1>2, <1>6, <2>2, <2>3
<1> QED
  BY <1>0, <1>1, <1>2, <1>5, <1>7, <1>8 DEF HandForm, PlainForm, AbsVars

(* Before sched_init the mapped state is already the scheduler's first.     *)
BootForm ==
  /\ AbsState = [i \in Slots |-> IF i = 0 THEN "RUNNING" ELSE "UNUSED"]
  /\ AbsPid = [i \in Slots |-> 0] /\ AbsNextPid = 1 /\ AbsCurrent = 0
  /\ AbsCtx = [i \in Slots |-> "zero"] /\ AbsCanary = [i \in Slots |-> i = 0]

LEMMA BootAbs == Upright /\ Booting => BootForm
<1> SUFFICES ASSUME Upright, Booting PROVE BootForm
  OBVIOUS
<1>1. /\ ~ Booted /\ ~ HandingOver /\ ~ Spawning /\ ~ At("number") /\ 0 \in Slots
      /\ state = [i \in Slots |-> "UNUSED"] /\ canary = [i \in Slots |-> FALSE]
      /\ pid = [i \in Slots |-> 0] /\ nextPid = 1
      /\ ctx = [i \in Slots |-> Zero] /\ current = 0
  BY UprightTop DEF Booting, Booted, HandingOver, Spawning, At
<1>2. AbsState = [i \in Slots |-> IF i = 0 THEN "RUNNING" ELSE "UNUSED"] /\ AbsCurrent = 0
      /\ AbsPid = [i \in Slots |-> 0] /\ AbsNextPid = 1
  BY <1>1 DEF AbsState, AbsCurrent, AbsPid, AbsNextPid
<1>3. AbsCanary = [i \in Slots |-> i = 0]
  BY <1>1 DEF AbsCanary
<1>4. AbsCtx = [i \in Slots |-> "zero"]
  BY <1>1 DEF AbsCtx
<1> QED
  BY <1>2, <1>3, <1>4 DEF BootForm

LEMMA InitSteps ==
  ASSUME Init
  PROVE  Abstract!Init
<1>1. BootForm
  BY InitPInv, InitBoots, BootAbs DEF PInv
<1> QED
  BY <1>1 DEF Init, BootForm, Abstract!Init, Abstract!Slots, Slots

LEMMA BootingSteps ==
  ASSUME Upright, Booting, [Next]_vars, Upright', Booting'
  PROVE  Abstract!SysExit \/ UNCHANGED AbsVars
<1>1. BootForm /\ BootForm'
  <2>1. (Upright /\ Booting => BootForm)'
    BY BootAbs, PTL
  <2> QED
    BY <2>1, BootAbs
<1>2. UNCHANGED <<AbsState, AbsPid, AbsCtx, AbsCanary, AbsNextPid, AbsCurrent>>
  BY <1>1 DEF BootForm
<1>3. UNCHANGED halted \/ (halted = "no" /\ halted' \in {"exit", "panic"})
  <2>1. ~ SwitchRestore /\ ~ TrapReturn
    BY DEF Booting, SwitchRestore, TrapReturn, At
  <2> QED
    BY <2>1 DEF vars, Next, Step, Work, SchedInit, Arm, Ecall, SysExit, Fault, Doing, At,
      CallScheduler, EntryReturns, Acquire,
      Release, AllocTest, AllocBump, SpawnFind, SpawnPublish, SpawnNumber, SpawnCanary, SpawnBuild,
      YieldCheck, YieldScan, YieldScanWith, YieldPark, ExitCheck, ExitZombie, ExitScan, Claim,
      SetCurrent, SwitchSave, SwitchReturn, Tick
<1> QED
  BY <1>2, <1>3 DEF AbsVars, Abstract!SysExit

LEMMA BootedSteps ==
  ASSUME Upright, Booting, [Next]_vars, Whole', InitsFirst(program)
  PROVE  UNCHANGED AbsVars
<1>1. /\ 0 \in Slots /\ Top.at \in {"run", "bump", "check"} /\ Upright'
      /\ state = [i \in Slots |-> "UNUSED"] /\ state'[0] # "UNUSED"
  BY UprightTop DEF Booting, Whole, Intact, PInv
<1>2. SchedInit
  <2>1. state' # state
    BY <1>1
  <2> QED
    BY <1>1, <2>1 DEF vars, procVars, Next, Step, Work, Arm, Ecall, SysExit, Fault, At,
      CallScheduler, EntryReturns, Acquire,
      Release, AllocTest, AllocBump, SpawnFind, SpawnPublish, SpawnNumber, SpawnCanary, SpawnBuild,
      YieldCheck, YieldScan, YieldScanWith, YieldPark, ExitCheck, ExitZombie, ExitScan, Claim,
      SetCurrent, SwitchSave, SwitchRestore, SwitchReturn, TrapReturn, Tick
<1>3. /\ UNCHANGED <<nextPid, ctx, current, cpu, halted>>
      /\ state' = [i \in Slots |-> IF i = 0 THEN "RUNNING" ELSE "UNUSED"]
      /\ pid' = [pid EXCEPT ![0] = 0] /\ canary' = [canary EXCEPT ![0] = TRUE]
      /\ Doing("init") /\ Goto(AfterOp)
  BY <1>2 DEF SchedInit
<1>4. Top'.at = "run"
  <2>1. Top.at = "run" /\ AfterOp \in AnyRun
    BY <1>3, OpIs
  <2>2. Restacked(<<AfterOp>>) /\ Head(<<AfterOp>>) = AfterOp
    BY <1>3, <2>1, StaysStack DEF Goto
  <2>3. Top' = AfterOp
    BY <2>2, RestackedIs
  <2> QED
    BY <2>1, <2>3 DEF AnyRun
<1>5. BootForm /\ PlainForm'
  BY <1>4, BootAbs, FormsAfter DEF PlainTop, HandLabels, Filling
<1>6. /\ canary = [i \in Slots |-> FALSE] /\ ctx = [i \in Slots |-> Zero] /\ current = 0
      /\ pid = [i \in Slots |-> 0] /\ nextPid = 1
  BY DEF Booting
<1>7. UNCHANGED <<AbsState, AbsCurrent, AbsPid, AbsNextPid>>
  BY <1>1, <1>3, <1>5, <1>6 DEF BootForm, PlainForm
<1>8. UNCHANGED AbsCanary
  BY <1>1, <1>3, <1>5, <1>6 DEF BootForm, PlainForm
<1>9. UNCHANGED AbsCtx
  <2>1. \A i \in Slots : ctx'[i] = Zero
    BY <1>3, <1>6
  <2> QED
    BY <1>5, <2>1 DEF BootForm, PlainForm, OnKind, OffKind, Zero
<1> QED
  BY <1>3, <1>7, <1>8, <1>9 DEF AbsVars

LEMMA StaleStays ==
  ASSUME stale, [Next]_vars
  PROVE  stale'
<1>1. UNCHANGED stale \/ Strike
  BY DEF vars, otherVars, tickVars, Next, Step, Work, SchedInit, Arm, Ecall, SysExit, Fault,
      CallScheduler, EntryReturns, Acquire,
      Release, AllocTest, AllocBump, SpawnFind, SpawnPublish, SpawnNumber, SpawnCanary, SpawnBuild,
      YieldCheck, YieldScan, YieldScanWith, YieldPark, ExitCheck, ExitZombie, ExitScan, Claim,
      SetCurrent, SwitchSave, SwitchRestore, SwitchReturn, TrapReturn, Tick
<1> QED
  BY <1>1 DEF Strike

LEMMA StutterSteps ==
  ASSUME UNCHANGED vars
  PROVE  UNCHANGED AbsVars
<1>1. UNCHANGED <<state, pid, canary, nextPid, ctx, current, stk, cpu, halted>>
  BY DEF vars, procVars
<1>2. UNCHANGED <<Top, HandingOver, Booted, Spawning>> /\ \A label : At(label)' <=> At(label)
  BY <1>1 DEF Top, HandingOver, Booted, Spawning, At
<1>3. UNCHANGED <<AbsState, AbsCurrent, AbsCanary, AbsPid, AbsNextPid>>
  BY <1>1, <1>2 DEF AbsState, AbsCurrent, AbsCanary, AbsPid, AbsNextPid, Booted, HandingOver,
     Spawning, At, Top
<1>4. UNCHANGED AbsCtx
  BY <1>1, <1>2, <1>3 DEF AbsCtx, Zero, Run
<1> QED
  BY <1>1, <1>3, <1>4 DEF AbsVars

(* A step of the kernel is a step of the scheduler, or none.                *)
LEMMA KernelSteps ==
  ASSUME InitsFirst(program), Whole, Whole', Passes, ~ stale', ~ stale, ~ torn', Next
  PROVE  Abstract!Next \/ UNCHANGED AbsVars
<1>1. ~ SchedInit
  BY NoSecondInit DEF Whole, PInv, Intact
<1> QED
  BY <1>1, QuietSteps, HandSteps, StopSteps, SpawnSteps, FillSteps, BuildSteps, ScanSteps, ZombieSteps,
     EndSteps, RestoreSteps
  DEF Next, Step, Abstract!Next

(* Until a tick strikes one, what the kernel does statement by statement is *)
(* what module Scheduler does call by call: sched_spawn, sched_yield and    *)
(* sched_exit take effect at one point each, though ticks come between      *)
(* their other steps and take the processor away in the middle of a call.   *)
THEOREM CallsAreAtomic ==
  ASSUME \A p \in Programs : ArmsOnce(p) /\ EcallsEarly(p) /\ InitsFirst(p)
  PROVE  Spec => ImplementsScheduler
<1>1. Init => Abstract!Init
  BY InitSteps
<1>2. IInv /\ IInv' /\ [Next]_vars => (Unstruck' => [Abstract!Next]_AbsVars)
  <2> SUFFICES ASSUME IInv, IInv', [Next]_vars, ~ stale', ~ torn'
               PROVE  Abstract!Next \/ UNCHANGED AbsVars
    BY DEF Unstruck
  <2>1. /\ PInv /\ Typed /\ Upright /\ PInv' /\ Typed' /\ Upright' /\ ~ stale /\ ~ torn
        /\ ArmsOnce(program) /\ EcallsEarly(program) /\ InitsFirst(program)
    BY StaleStays, TornStays DEF IInv, PInv, Upright
  <2>2. CASE Booting
    <3>1. Booting' \/ Whole'
      BY <2>1, <2>2, BootStep DEF Whole
    <3> QED
      BY <2>1, <2>2, <3>1, BootingSteps, BootedSteps DEF Abstract!Next
  <2>3. CASE Intact
    <3>1. Whole /\ Whole' /\ Passes
      BY <2>1, <2>3, NextIntact, NextPasses DEF Whole
    <3> QED
      BY <2>1, <3>1, KernelSteps, StutterSteps
  <2> QED
    BY <2>1, <2>2, <2>3 DEF IInv
<1>3. AbsVars = Abstract!vars
  BY DEF AbsVars, Abstract!vars
<1>4. IInv /\ IInv' /\ [Next]_vars => (Unstruck' => [Abstract!Next]_(Abstract!vars))
  BY <1>2, <1>3 DEF AbsVars, Abstract!vars
<1>5. Spec => []IInv
  BY Invariance
<1> QED
  BY <1>1, <1>4, <1>5, PTL DEF Spec, ImplementsScheduler
=============================================================================
