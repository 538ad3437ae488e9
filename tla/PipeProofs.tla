----------------------------- MODULE PipeProofs -----------------------------
(* Proofs about Pipe, for every PIPE_SIZE.                                  *)
EXTENDS Pipe, SequenceTheorems, TLAPS

(* A call that is past its test still has the byte, or the room, it found:  *)
(* the other task only ever adds bytes, or only ever takes them.            *)
CountHolds ==
  /\ count \in 0 .. Size
  /\ wpc # "idle" => count < Size
  /\ rpc # "idle" => count > 0
  /\ wpc = "store" => wreg \in 0 .. Size - 1
  /\ rpc = "store" => rreg \in 1 .. Size

Ahead(pc) == IF pc \in {"load", "store"} THEN 1 ELSE 0

(* Without preemption one call at most is under way, its loaded count is    *)
(* current, and a position that it has moved is one ahead of count.         *)
PositionsHold ==
  ~ preemptive =>
    /\ wpc = "idle" \/ rpc = "idle"
    /\ wpc = "store" => wreg = count
    /\ rpc = "store" => rreg = count
    /\ writePos = (readPos + count + Ahead(wpc) - Ahead(rpc)) % Size

IInv == TypeOK /\ CountHolds /\ PositionsHold

(* Remainders of what a position and a count add up to.                     *)
LEMMA Ring ==
  ASSUME NEW N \in Nat \ {0}, NEW a \in 0 .. 2 * N
  PROVE  /\ a < N => a % N = a
         /\ N <= a /\ a < 2 * N => a % N = a - N
         /\ a = 2 * N => a % N = 0
  OBVIOUS

(* One step round the ring.                                                 *)
LEMMA RingStep ==
  ASSUME NEW N \in Nat \ {0}, NEW a \in 0 .. 2 * N - 1
  PROVE  ((a % N) + 1) % N = (a + 1) % N
  <1>1. CASE a + 1 < N
    BY <1>1, Ring
  <1>2. CASE a + 1 = N
    <2>1. a % N = a
      BY <1>2, Ring
    <2> QED
      BY <1>2, <2>1
  <1>3. CASE N < a + 1 /\ a + 1 < 2 * N
    <2>1. /\ a \in 0 .. 2 * N /\ a + 1 \in 0 .. 2 * N /\ a - N + 1 \in 0 .. 2 * N
          /\ N <= a /\ a < 2 * N /\ a - N + 1 < N
      BY <1>3
    <2>2. a % N = a - N
      BY <2>1, Ring
    <2>3. (a + 1) % N = a + 1 - N
      BY <1>3, <2>1, Ring
    <2>4. (a - N + 1) % N = a - N + 1
      BY <2>1, Ring
    <2> QED
      BY <2>2, <2>3, <2>4
  <1>4. CASE a + 1 = 2 * N
    <2>1. a % N = N - 1 /\ (a + 1) % N = 0
      BY <1>4, Ring
    <2>2. N % N = 0
      BY Ring
    <2> QED
      BY <2>1, <2>2
  <1> QED
    BY <1>1, <1>2, <1>3, <1>4

LEMMA InitIInv == Init => IInv
  <1>1. ASSUME Init PROVE IInv
    <2>1. 0 % Size = 0 /\ 0 \in Indices
      BY PipeAssumption DEF Indices
    <2> QED
      BY <1>1, <2>1, PipeAssumption
      DEF Init, IInv, TypeOK, CountHolds, PositionsHold, Ahead, Indices
  <1> QED
    BY <1>1

LEMMA WriterKeepsIInv == IInv /\ WriterStep => IInv'
  <1> SUFFICES ASSUME IInv, WriterStep PROVE IInv'
    OBVIOUS
  <1> USE PipeAssumption DEF IInv, Indices, pipe, reader
  <1>1. CASE WriteFull
    BY <1>1 DEF WriteFull, TypeOK, CountHolds, PositionsHold
  <1>2. CASE WriteCheck
    BY <1>2 DEF WriteCheck, WriterRuns, TypeOK, CountHolds, PositionsHold, Ahead
  <1>3. CASE WritePut
    BY <1>3 DEF WritePut, WriterRuns, TypeOK, CountHolds, PositionsHold, Ahead
  <1>4. CASE WriteAdvance
    <2>1. writePos' \in Indices
      BY <1>4, Ring DEF WriteAdvance, TypeOK
    <2>2. ~ preemptive => writePos' = (readPos + count + 1) % Size
      <3>1. readPos + count \in 0 .. 2 * Size - 1
        BY DEF TypeOK, CountHolds
      <3>2. ~ preemptive => writePos = (readPos + count) % Size
        BY <1>4 DEF WriteAdvance, WriterRuns, PositionsHold, Ahead, TypeOK, CountHolds
      <3> QED
        BY <1>4, <3>1, <3>2, RingStep DEF WriteAdvance
    <2> QED
      BY <1>4, <2>1, <2>2
      DEF WriteAdvance, WriterRuns, TypeOK, CountHolds, PositionsHold, Ahead
  <1>5. CASE WriteLoad
    BY <1>5 DEF WriteLoad, WriterRuns, TypeOK, CountHolds, PositionsHold, Ahead
  <1>6. CASE WriteStore
    BY <1>6 DEF WriteStore, WriterRuns, TypeOK, CountHolds, PositionsHold, Ahead
  <1> QED
    BY <1>1, <1>2, <1>3, <1>4, <1>5, <1>6 DEF WriterStep

LEMMA ReaderKeepsIInv == IInv /\ ReaderStep => IInv'
  <1> SUFFICES ASSUME IInv, ReaderStep PROVE IInv'
    OBVIOUS
  <1> USE PipeAssumption DEF IInv, Indices, pipe, writer
  <1>1. CASE ReadEmpty
    BY <1>1 DEF ReadEmpty, TypeOK, CountHolds, PositionsHold
  <1>2. CASE ReadCheck
    BY <1>2 DEF ReadCheck, ReaderRuns, TypeOK, CountHolds, PositionsHold, Ahead
  <1>3. CASE ReadTake
    BY <1>3 DEF ReadTake, ReaderRuns, TypeOK, CountHolds, PositionsHold, Ahead
  <1>4. CASE ReadAdvance
    <2>1. readPos' \in Indices
      BY <1>4, Ring DEF ReadAdvance, TypeOK
    <2>2. ~ preemptive => writePos = (readPos' + count - 1) % Size
      <3>1. CASE readPos + 1 < Size
        <4>1. readPos' = readPos + 1
          <5>1. readPos + 1 \in 0 .. 2 * Size
            BY <3>1 DEF TypeOK
          <5> QED
            BY <1>4, <3>1, <5>1, Ring DEF ReadAdvance
        <4> QED
          BY <1>4, <4>1
          DEF ReadAdvance, ReaderRuns, TypeOK, CountHolds, PositionsHold, Ahead
      <3>2. CASE readPos + 1 = Size
        <4>1. readPos' = 0
          BY <1>4, <3>2 DEF ReadAdvance, TypeOK
        <4>2. /\ count - 1 \in 0 .. Size - 1
              /\ readPos + count = (count - 1) + Size
          BY <1>4, <3>2 DEF ReadAdvance, TypeOK, CountHolds
        <4>3. ~ preemptive => writePos = (readPos + count) % Size
          BY <1>4 DEF ReadAdvance, ReaderRuns, PositionsHold, Ahead, TypeOK, CountHolds
        <4>4. (count - 1) % Size = count - 1 /\ (readPos + count) % Size = count - 1
          BY <4>2, Ring
        <4> QED
          BY <4>1, <4>2, <4>3, <4>4 DEF TypeOK
      <3> QED
        BY <3>1, <3>2 DEF TypeOK
    <2> QED
      BY <1>4, <2>1, <2>2
      DEF ReadAdvance, ReaderRuns, TypeOK, CountHolds, PositionsHold, Ahead
  <1>5. CASE ReadLoad
    BY <1>5 DEF ReadLoad, ReaderRuns, TypeOK, CountHolds, PositionsHold, Ahead
  <1>6. CASE ReadStore
    BY <1>6 DEF ReadStore, ReaderRuns, TypeOK, CountHolds, PositionsHold, Ahead
  <1> QED
    BY <1>1, <1>2, <1>3, <1>4, <1>5, <1>6 DEF ReaderStep

(* The inductive invariant holds, with and without preemption.              *)
THEOREM Invariance == Spec => []IInv
  <1>1. IInv /\ UNCHANGED vars => IInv'
    BY DEF IInv, TypeOK, CountHolds, PositionsHold, vars, pipe, writer, reader
  <1> QED
    BY <1>1, InitIInv, WriterKeepsIInv, ReaderKeepsIInv, PTL DEF Spec, Next

(* count never leaves 0 .. PIPE_SIZE, even when a timer interrupt tears the *)
(* two calls' count++ and count-- into each other.                          *)
THEOREM CountBounded == Spec => []CountInRange
  <1>1. IInv => CountInRange
    BY PipeAssumption DEF IInv, CountHolds, CountInRange
  <1> QED
    BY <1>1, Invariance, PTL

(* Between calls that were not interrupted, write_pos is count bytes ahead  *)
(* of read_pos.                                                             *)
THEOREM OneStory == Spec => []PositionsAgree
  <1>1. IInv => PositionsAgree
    BY PipeAssumption DEF IInv, TypeOK, CountHolds, PositionsHold, PositionsAgree, Ahead, Indices
  <1> QED
    BY <1>1, Invariance, PTL

----------------------------------------------------------------------------
(* Calls that are not interrupted implement the queue of pipe.h.            *)

(* The byte a call carries is in the ring: the writer's one place behind    *)
(* the counted ones, the reader's at the oldest.                            *)
CarriedHolds ==
  ~ preemptive =>
    /\ wpc \in {"advance", "load", "store"} => buf[(readPos + count) % Size] = byte
    /\ rpc \in {"advance", "load", "store"} => buf[Oldest % Size] = out

QInv == IInv /\ CarriedHolds

(* Once more round the ring ends at the same place.                         *)
LEMMA RingWrap ==
  ASSUME NEW N \in Nat \ {0}, NEW a \in 0 .. 2 * N - 1
  PROVE  (a + N) % N = a % N
  OBVIOUS

(* Two different numbers less than PIPE_SIZE apart end at two places.       *)
LEMMA RingApart ==
  ASSUME NEW N \in Nat \ {0}, NEW a \in 0 .. 2 * N - 1, NEW b \in 0 .. 2 * N - 1,
         a < b, b < a + N
  PROVE  a % N # b % N
  <1>1. a \in 0 .. 2 * N /\ a < 2 * N /\ b \in 0 .. 2 * N /\ b < 2 * N
    OBVIOUS
  <1>2. CASE b < N
    <2>1. a < N /\ a % N = a /\ b % N = b
      BY <1>1, <1>2, Ring
    <2> QED
      BY <2>1
  <1>3. CASE a < N /\ N <= b
    <2>1. a % N = a /\ b % N = b - N
      BY <1>1, <1>3, Ring
    <2> QED
      BY <2>1
  <1>4. CASE N <= a
    <2>1. N <= b
      BY <1>4
    <2>2. a % N = a - N
      BY <1>1, <1>4, Ring
    <2>3. b % N = b - N
      BY <1>1, <2>1, Ring
    <2> QED
      BY <2>2, <2>3
  <1> QED
    BY <1>2, <1>3, <1>4

(* A read that has moved read_pos still names the same oldest bytes.        *)
LEMMA RingBehind ==
  ASSUME NEW N \in Nat \ {0}, NEW r \in 0 .. N - 1, NEW k \in 0 .. N - 1
  PROVE  (((r + 1) % N) + N - 1 + k) % N = (r + k) % N
  <1>1. CASE r + 1 < N
    <2>1. (r + 1) % N = r + 1
      <3>1. r + 1 \in 0 .. 2 * N
        BY <1>1
      <3> QED
        BY <1>1, <3>1, Ring
    <2>2. r + k \in 0 .. 2 * N - 1 /\ (r + 1) + N - 1 + k = (r + k) + N
      OBVIOUS
    <2> QED
      BY <2>1, <2>2, RingWrap
  <1>2. CASE r + 1 = N
    <2>1. (r + 1) % N = 0
      BY <1>2, Ring
    <2> QED
      BY <1>2, <2>1
  <1> QED
    BY <1>1, <1>2

(* Two sequences of which one is the other with an element more at the end, *)
(* or one less at the front.                                                *)
LEMMA AppendIs ==
  ASSUME NEW S, NEW c \in Nat, NEW f \in [1 .. c -> S], NEW g \in [1 .. c + 1 -> S],
         \A n \in 1 .. c : g[n] = f[n]
  PROVE  g = Append(f, g[c + 1]) /\ Len(f) = c
  <1>1. f \in Seq(S) /\ g \in Seq(S) /\ g[c + 1] \in S
    OBVIOUS
  <1>2. Len(f) = c /\ Len(g) = c + 1
    BY <1>1, LenProperties
  <1>3. /\ Append(f, g[c + 1]) \in Seq(S)
        /\ Len(Append(f, g[c + 1])) = c + 1
        /\ \A n \in 1 .. c : Append(f, g[c + 1])[n] = f[n]
        /\ Append(f, g[c + 1])[c + 1] = g[c + 1]
    BY <1>1, <1>2, AppendProperties
  <1> QED
    BY <1>1, <1>2, <1>3, SeqEqual

LEMMA TailIs ==
  ASSUME NEW S, NEW c \in Nat \ {0}, NEW f \in [1 .. c -> S], NEW g \in [1 .. c - 1 -> S],
         \A n \in 1 .. c - 1 : g[n] = f[n + 1]
  PROVE  g = Tail(f) /\ f # <<>> /\ Head(f) = f[1]
  <1>1. f \in Seq(S) /\ g \in Seq(S)
    OBVIOUS
  <1>2. Len(f) = c /\ Len(g) = c - 1
    BY <1>1, LenProperties
  <1>3. f # <<>> /\ Head(f) = f[1]
    BY <1>1, <1>2, HeadTailProperties, EmptySeq
  <1>4. /\ Tail(f) \in Seq(S)
        /\ Len(Tail(f)) = c - 1
        /\ \A n \in 1 .. c - 1 : Tail(f)[n] = f[n + 1]
    BY <1>1, <1>2, <1>3, HeadTailProperties
  <1> QED
    BY <1>1, <1>2, <1>3, <1>4, SeqEqual

LEMMA QueueType == IInv => Queue \in [1 .. count -> Bytes]
  <1> SUFFICES ASSUME IInv, NEW n \in 1 .. count PROVE buf[(Oldest + n - 1) % Size] \in Bytes
    BY DEF Queue
  <1>1. Oldest + n - 1 \in Nat
    BY PipeAssumption DEF IInv, TypeOK, CountHolds, Oldest, Indices
  <1>2. (Oldest + n - 1) % Size \in Indices
    BY <1>1, PipeAssumption DEF Indices
  <1> QED
    BY <1>2 DEF IInv, TypeOK

LEMMA InitQInv == Init => QInv /\ Promise!Init
  <1> SUFFICES ASSUME Init PROVE QInv /\ Promise!Init
    OBVIOUS
  <1>1. IInv
    BY InitIInv
  <1>2. CarriedHolds
    BY DEF Init, CarriedHolds
  <1>3. Queue = <<>>
    <2>1. Queue \in [1 .. 0 -> Bytes]
      BY <1>1, QueueType DEF Init
    <2> QED
      BY <2>1
  <1> QED
    BY <1>1, <1>2, <1>3 DEF QInv, Init, Promise!Init

(* The pieces of a step of the queue: what the calls' own steps leave, a    *)
(* byte more, a byte less.                                                  *)
LEMMA QueueSame ==
  ASSUME IInv, IInv', count' = count,
         \A n \in 1 .. count : buf'[(Oldest' + n - 1) % Size] = buf[(Oldest + n - 1) % Size]
  PROVE  Queue' = Queue
  BY DEF Queue

LEMMA WriterImplements ==
  QInv /\ QInv' /\ ~ preemptive /\ WriterStep
    => Promise!Next \/ UNCHANGED <<Queue, wrote, read>>
  <1> SUFFICES ASSUME QInv, QInv', ~ preemptive, WriterStep
               PROVE  Promise!Next \/ UNCHANGED <<Queue, wrote, read>>
    OBVIOUS
  <1> USE PipeAssumption DEF QInv
  <1>0. count \in Nat /\ Queue \in [1 .. count -> Bytes] /\ Len(Queue) = count
    <2>1. Queue \in [1 .. count -> Bytes] /\ count \in Nat
      BY QueueType DEF IInv, CountHolds
    <2>2. Queue \in Seq(Bytes)
      BY <2>1
    <2> QED
      BY <2>1, <2>2, LenProperties
  <1>a. rpc = "idle" /\ UNCHANGED <<rpc, readPos, read, Oldest>> /\ Oldest = readPos
    BY DEF WriterStep, WriteFull, WriteCheck, WritePut, WriteAdvance, WriteLoad, WriteStore,
           WriterRuns, Oldest, pipe, reader
  <1>1. CASE WriteFull
    <2>1. Queue' = Queue
      BY <1>1, <1>a, QueueSame DEF WriteFull, pipe
    <2> QED
      BY <1>1, <1>0, <1>a, <2>1 DEF WriteFull, Promise!Next, Promise!WriteFull
  <1>2. CASE WriteCheck \/ WriteAdvance \/ WriteLoad
    <2>1. UNCHANGED <<buf, count, wrote>>
      BY <1>2 DEF WriteCheck, WriteAdvance, WriteLoad, pipe
    <2> QED
      BY <1>a, <2>1, QueueSame
  <1>3. CASE WritePut
    <2>1. count < Size /\ writePos = (readPos + count) % Size
      BY <1>3, <1>a DEF WritePut, IInv, TypeOK, CountHolds, PositionsHold, Ahead
    <2>2. ASSUME NEW n \in 1 .. count
          PROVE  buf'[(Oldest' + n - 1) % Size] = buf[(Oldest + n - 1) % Size]
      <3>1. /\ readPos + n - 1 \in 0 .. 2 * Size - 1
            /\ readPos + count \in 0 .. 2 * Size - 1
            /\ readPos + n - 1 < readPos + count
            /\ readPos + count < (readPos + n - 1) + Size
        BY <1>0, <2>1 DEF IInv, TypeOK, Indices
      <3>2. (readPos + n - 1) % Size # (readPos + count) % Size
        BY <3>1, RingApart
      <3> QED
        BY <1>3, <1>a, <2>1, <3>2 DEF WritePut, IInv, TypeOK
    <2>3. count' = count /\ wrote' = wrote
      BY <1>3 DEF WritePut
    <2> QED
      BY <1>a, <2>2, <2>3, QueueSame
  <1>4. CASE WriteStore
    <2>1. /\ count < Size /\ count' = count + 1 /\ wrote' = 0 /\ buf' = buf
          /\ byte = buf[(readPos + count) % Size]
      BY <1>4, <1>a
      DEF WriteStore, IInv, TypeOK, CountHolds, PositionsHold, CarriedHolds
    <2>2. Queue' \in [1 .. count + 1 -> Bytes]
      <3>1. (Queue \in [1 .. count -> Bytes])'
        BY QueueType, PTL
      <3> QED
        BY <3>1, <2>1
    <2>3. \A n \in 1 .. count : Queue'[n] = Queue[n]
      BY <1>0, <1>a, <2>1 DEF Queue
    <2>4. Queue'[count + 1] = byte
      BY <1>0, <1>a, <2>1 DEF Queue, IInv, TypeOK, Indices
    <2>5. Queue' = Append(Queue, byte)
      BY <1>0, <2>2, <2>3, <2>4, AppendIs
    <2> QED
      BY <1>0, <1>a, <2>1, <2>5 DEF Promise!Next, Promise!Write, IInv, TypeOK
  <1> QED
    BY <1>1, <1>2, <1>3, <1>4 DEF WriterStep

LEMMA ReaderImplements ==
  QInv /\ QInv' /\ ~ preemptive /\ ReaderStep
    => Promise!Next \/ UNCHANGED <<Queue, wrote, read>>
  <1> SUFFICES ASSUME QInv, QInv', ~ preemptive, ReaderStep
               PROVE  Promise!Next \/ UNCHANGED <<Queue, wrote, read>>
    OBVIOUS
  <1> USE PipeAssumption DEF QInv
  <1>0. count \in Nat /\ Queue \in [1 .. count -> Bytes]
    BY QueueType DEF IInv, CountHolds
  <1>a. wrote' = wrote /\ buf' = buf
    BY DEF ReaderStep, ReadEmpty, ReadCheck, ReadTake, ReadAdvance, ReadLoad, ReadStore,
           pipe, writer
  <1>1. CASE ReadEmpty
    <2>1. count = 0 /\ count' = count /\ read' = <<>> /\ Oldest' = Oldest
      BY <1>1 DEF ReadEmpty, pipe, Oldest
    <2>2. Queue' = Queue
      BY <1>a, <2>1, QueueSame
    <2>3. Queue = <<>>
      <3>1. Queue \in [1 .. 0 -> Bytes]
        BY <1>0, <2>1
      <3> QED
        BY <3>1
    <2> QED
      BY <1>a, <2>1, <2>2, <2>3 DEF Promise!Next, Promise!ReadEmpty
  <1>2. CASE ReadCheck \/ ReadTake \/ ReadLoad
    <2>1. UNCHANGED <<count, read, Oldest>>
      BY <1>2 DEF ReadCheck, ReadTake, ReadLoad, pipe, Oldest
    <2> QED
      BY <1>a, <2>1, QueueSame
  <1>3. CASE ReadAdvance
    <2>1. /\ count' = count /\ read' = read /\ Oldest = readPos
          /\ Oldest' = ((readPos + 1) % Size) + Size - 1
      BY <1>3 DEF ReadAdvance, Oldest
    <2>2. ASSUME NEW n \in 1 .. count
          PROVE  buf'[(Oldest' + n - 1) % Size] = buf[(Oldest + n - 1) % Size]
      <3>1. n - 1 \in 0 .. Size - 1 /\ readPos \in 0 .. Size - 1
        BY <1>0 DEF IInv, TypeOK, CountHolds, Indices
      <3>2. (((readPos + 1) % Size) + Size - 1 + (n - 1)) % Size = (readPos + (n - 1)) % Size
        BY <3>1, RingBehind
      <3>3. /\ Oldest' + n - 1 = ((readPos + 1) % Size) + Size - 1 + (n - 1)
            /\ Oldest + n - 1 = readPos + (n - 1)
        BY <2>1, <3>1
      <3> QED
        BY <1>a, <3>2, <3>3
    <2> QED
      BY <1>a, <2>1, <2>2, QueueSame
  <1>4. CASE ReadStore
    <2>1. /\ count \in Nat \ {0} /\ count' = count - 1 /\ read' = <<out>>
          /\ out = buf[Oldest % Size]
          /\ Oldest = readPos + Size - 1 /\ Oldest' = readPos
      BY <1>4, <1>0
      DEF ReadStore, IInv, TypeOK, CountHolds, PositionsHold, CarriedHolds, Oldest
    <2>2. Queue' \in [1 .. count - 1 -> Bytes]
      <3>1. (Queue \in [1 .. count -> Bytes])'
        BY QueueType, PTL
      <3> QED
        BY <3>1, <2>1
    <2>3. ASSUME NEW n \in 1 .. count - 1
          PROVE  Queue'[n] = Queue[n + 1]
      <3>1. /\ readPos + n - 1 \in 0 .. 2 * Size - 1
            /\ Oldest + (n + 1) - 1 = (readPos + n - 1) + Size
            /\ Oldest' + n - 1 = readPos + n - 1
        <4>1. readPos \in 0 .. Size - 1 /\ count \in 1 .. Size /\ n \in 1 .. Size - 1
          BY <2>1 DEF IInv, TypeOK, CountHolds, Indices
        <4> HIDE DEF QInv
        <4> QED
          BY <2>1, <4>1
      <3>2. (Oldest + (n + 1) - 1) % Size = (Oldest' + n - 1) % Size
        BY <3>1, RingWrap
      <3>3. /\ Queue'[n] = buf'[(Oldest' + n - 1) % Size]
            /\ Queue[n + 1] = buf[(Oldest + (n + 1) - 1) % Size]
        BY <2>1 DEF Queue
      <3> QED
        BY <1>a, <3>2, <3>3
    <2>4. Queue[1] = out
      <3>1. Queue[1] = buf[(Oldest + 1 - 1) % Size] /\ Oldest + 1 - 1 = Oldest
        BY <2>1 DEF Queue, IInv, TypeOK, Indices
      <3> QED
        BY <2>1, <3>1
    <2>5. Queue' = Tail(Queue) /\ Queue # <<>> /\ Head(Queue) = Queue[1]
      BY <1>0, <2>1, <2>2, <2>3, TailIs
    <2> QED
      BY <1>a, <2>1, <2>4, <2>5 DEF Promise!Next, Promise!Read
  <1> QED
    BY <1>1, <1>2, <1>3, <1>4 DEF ReaderStep

LEMMA WriterKeepsCarried == QInv /\ IInv' /\ WriterStep => CarriedHolds'
  <1> SUFFICES ASSUME QInv, IInv', WriterStep, ~ preemptive PROVE CarriedHolds'
    BY DEF WriterStep, WriteFull, WriteCheck, WritePut, WriteAdvance, WriteLoad, WriteStore,
           CarriedHolds
  <1> USE PipeAssumption DEF QInv
  <1>a. rpc = "idle" /\ UNCHANGED <<preemptive, rpc, readPos, out, Oldest>>
    BY DEF WriterStep, WriteFull, WriteCheck, WritePut, WriteAdvance, WriteLoad, WriteStore,
           WriterRuns, Oldest, pipe, reader
  <1>1. CASE WriteFull \/ WriteCheck \/ WriteStore
    BY <1>1, <1>a DEF WriteFull, WriteCheck, WriteStore, CarriedHolds, IInv, TypeOK, pipe
  <1>2. CASE WritePut
    <2>1. writePos = (readPos + count) % Size
      BY <1>2, <1>a DEF WritePut, IInv, TypeOK, CountHolds, PositionsHold, Ahead, Indices
    <2>2. buf'[writePos] = byte /\ byte' = byte /\ count' = count
      BY <1>2 DEF WritePut, IInv, TypeOK
    <2> QED
      BY <1>a, <2>1, <2>2 DEF CarriedHolds
  <1>3. CASE WriteAdvance \/ WriteLoad
    <2>1. UNCHANGED <<buf, count, byte>> /\ wpc \in {"advance", "load"}
      BY <1>3 DEF WriteAdvance, WriteLoad, pipe
    <2> QED
      BY <1>a, <2>1 DEF CarriedHolds
  <1> QED
    BY <1>1, <1>2, <1>3 DEF WriterStep

LEMMA ReaderKeepsCarried == QInv /\ IInv' /\ ReaderStep => CarriedHolds'
  <1> SUFFICES ASSUME QInv, IInv', ReaderStep, ~ preemptive PROVE CarriedHolds'
    BY DEF ReaderStep, ReadEmpty, ReadCheck, ReadTake, ReadAdvance, ReadLoad, ReadStore,
           CarriedHolds
  <1> USE PipeAssumption DEF QInv
  <1>a. wpc = "idle" /\ UNCHANGED <<preemptive, wpc, buf>>
    BY DEF ReaderStep, ReadEmpty, ReadCheck, ReadTake, ReadAdvance, ReadLoad, ReadStore,
           ReaderRuns, pipe, writer
  <1>1. CASE ReadEmpty \/ ReadCheck \/ ReadStore
    BY <1>1, <1>a DEF ReadEmpty, ReadCheck, ReadStore, CarriedHolds
  <1>2. CASE ReadTake
    <2>1. Oldest' = readPos /\ readPos % Size = readPos /\ out' = buf[readPos]
      <3>1. readPos \in 0 .. 2 * Size /\ readPos < Size
        BY DEF IInv, TypeOK, Indices
      <3>2. readPos % Size = readPos
        BY <3>1, Ring
      <3> QED
        BY <1>2, <3>2 DEF ReadTake, Oldest, pipe
    <2> QED
      BY <1>a, <2>1 DEF CarriedHolds
  <1>3. CASE ReadAdvance
    <2>1. /\ Oldest = readPos /\ Oldest' = ((readPos + 1) % Size) + Size - 1
          /\ out' = out /\ out = buf[Oldest % Size]
      BY <1>3 DEF ReadAdvance, Oldest, CarriedHolds
    <2>2. Oldest' % Size = Oldest % Size
      <3>1. readPos \in 0 .. Size - 1 /\ 0 \in 0 .. Size - 1
        BY DEF IInv, TypeOK, Indices
      <3>2. (((readPos + 1) % Size) + Size - 1 + 0) % Size = (readPos + 0) % Size
        BY <3>1, RingBehind
      <3>3. Oldest' = ((readPos + 1) % Size) + Size - 1 + 0 /\ Oldest = readPos + 0
        BY <2>1, <3>1
      <3> QED
        BY <3>2, <3>3
    <2> QED
      BY <1>a, <2>1, <2>2 DEF CarriedHolds
  <1>4. CASE ReadLoad
    BY <1>4, <1>a DEF ReadLoad, CarriedHolds, Oldest, pipe
  <1> QED
    BY <1>1, <1>2, <1>3, <1>4 DEF ReaderStep

(* The calls of two tasks that are not interrupted inside them are the      *)
(* operations of pipe.h's queue, each taking effect at its store of count.  *)
THEOREM CallsAreFifo == Spec => ImplementsFifo
  <1>1. QInv /\ [Next]_vars => QInv'
    <2>1. QInv /\ WriterStep => QInv'
      BY WriterKeepsIInv, WriterKeepsCarried DEF QInv
    <2>2. QInv /\ ReaderStep => QInv'
      BY ReaderKeepsIInv, ReaderKeepsCarried DEF QInv
    <2>3. QInv /\ UNCHANGED vars => QInv'
      BY DEF QInv, IInv, TypeOK, CountHolds, PositionsHold, CarriedHolds, Oldest,
             vars, pipe, writer, reader
    <2> QED
      BY <2>1, <2>2, <2>3 DEF Next
  <1>2. QInv /\ QInv' /\ [Next]_vars => [preemptive \/ Promise!Next]_<<Queue, wrote, read>>
    <2>1. CASE UNCHANGED vars
      BY <2>1 DEF Queue, Oldest, vars, pipe, writer, reader
    <2> QED
      BY <2>1, WriterImplements, ReaderImplements DEF Next
  <1> QED
    BY <1>1, <1>2, InitQInv, PTL DEF Spec, ImplementsFifo
=============================================================================
