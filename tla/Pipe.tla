-------------------------------- MODULE Pipe --------------------------------
(***************************************************************************)
(* os/src/pipe.c, one step per access to the shared pipe_t: one task calls  *)
(* pipe_write and another pipe_read, as task_a and task_b of kernel_main.c. *)
(* preemptive says whether a timer interrupt may switch tasks inside a      *)
(* call, or only between calls.  count++ is a load and a store (RV32I has   *)
(* no other way), and the load is a second one after the test: the byte     *)
(* store between them may alias count, so a compiler must read it again.    *)
(***************************************************************************)
EXTENDS Integers, Sequences

CONSTANTS
  Bytes,
  Size          \* PIPE_SIZE

ASSUME PipeAssumption == 0 \in Bytes /\ Size \in Nat \ {0}

VARIABLES
  preemptive,                           \* MIE is set while the tasks run
  buf, readPos, writePos, count,        \* pipe_t
  wpc, byte, wreg, wrote,       \* the writer: statement, argument, loaded count, result
  rpc, out, rreg, read          \* the reader: statement, *out, loaded count, result

pipe   == <<buf, readPos, writePos, count>>
writer == <<wpc, byte, wreg, wrote>>
reader == <<rpc, out, rreg, read>>
vars   == <<preemptive, pipe, writer, reader>>

Indices == 0 .. Size - 1

(* BSS, then pipe_init.                                                     *)
Init ==
  /\ preemptive \in BOOLEAN
  /\ buf  = [i \in Indices |-> 0]
  /\ readPos = 0 /\ writePos = 0 /\ count = 0
  /\ wpc = "idle" /\ byte = 0 /\ wreg = 0 /\ wrote = 0
  /\ rpc = "idle" /\ out  = 0 /\ rreg = 0 /\ read  = <<>>

WriterRuns == preemptive \/ rpc = "idle"
ReaderRuns == preemptive \/ wpc = "idle"

----------------------------------------------------------------------------
(* Operators named ..._mutant are faults the properties must detect; no      *)
(* specification uses them.                                                 *)

(* Accepts a byte whatever count is.                                        *)
WriteCheckNot_mutant ==
  /\ wpc = "idle" /\ WriterRuns
  /\ byte' \in Bytes
  /\ wpc' = "put"
  /\ UNCHANGED <<preemptive, pipe, wreg, wrote, reader>>

(* pipe_write finds the pipe full.                                          *)
WriteFull ==
  /\ wpc = "idle" /\ WriterRuns
  /\ count = Size
  /\ wrote' = -1
  /\ UNCHANGED <<preemptive, pipe, wpc, byte, wreg, reader>>

WriteCheck ==
  /\ wpc = "idle" /\ WriterRuns
  /\ count # Size
  /\ byte' \in Bytes
  /\ wpc' = "put"
  /\ UNCHANGED <<preemptive, pipe, wreg, wrote, reader>>

WritePut ==
  /\ wpc = "put" /\ WriterRuns
  /\ buf' = [buf EXCEPT ![writePos] = byte]
  /\ wpc' = "advance"
  /\ UNCHANGED <<preemptive, readPos, writePos, count, byte, wreg, wrote, reader>>

WriteAdvance ==
  /\ wpc = "advance" /\ WriterRuns
  /\ writePos' = (writePos + 1) % Size
  /\ wpc' = "load"
  /\ UNCHANGED <<preemptive, buf, readPos, count, byte, wreg, wrote, reader>>

WriteLoad ==
  /\ wpc = "load" /\ WriterRuns
  /\ wreg' = count
  /\ wpc' = "store"
  /\ UNCHANGED <<preemptive, pipe, byte, wrote, reader>>

WriteStore ==
  /\ wpc = "store" /\ WriterRuns
  /\ count' = wreg + 1
  /\ wrote' = 0
  /\ wpc' = "idle"
  /\ UNCHANGED <<preemptive, buf, readPos, writePos, byte, wreg, reader>>

(* pipe_read finds the pipe empty.                                          *)
ReadEmpty ==
  /\ rpc = "idle" /\ ReaderRuns
  /\ count = 0
  /\ read' = <<>>
  /\ UNCHANGED <<preemptive, pipe, writer, rpc, out, rreg>>

ReadCheck ==
  /\ rpc = "idle" /\ ReaderRuns
  /\ count # 0
  /\ rpc' = "take"
  /\ UNCHANGED <<preemptive, pipe, writer, out, rreg, read>>

ReadTake ==
  /\ rpc = "take" /\ ReaderRuns
  /\ out' = buf[readPos]
  /\ rpc' = "advance"
  /\ UNCHANGED <<preemptive, pipe, writer, rreg, read>>

ReadAdvance ==
  /\ rpc = "advance" /\ ReaderRuns
  /\ readPos' = (readPos + 1) % Size
  /\ rpc' = "load"
  /\ UNCHANGED <<preemptive, buf, writePos, count, writer, out, rreg, read>>

ReadLoad ==
  /\ rpc = "load" /\ ReaderRuns
  /\ rreg' = count
  /\ rpc' = "store"
  /\ UNCHANGED <<preemptive, pipe, writer, out, read>>

(* Returns without count--.                                                 *)
ReadStoreNot_mutant ==
  /\ rpc = "store" /\ ReaderRuns
  /\ read' = <<out>>
  /\ rpc' = "idle"
  /\ UNCHANGED <<preemptive, pipe, writer, out, rreg>>

ReadStore ==
  /\ rpc = "store" /\ ReaderRuns
  /\ count' = rreg - 1
  /\ read' = <<out>>
  /\ rpc' = "idle"
  /\ UNCHANGED <<preemptive, buf, readPos, writePos, writer, out, rreg>>

WriterStep ==
  \/ WriteFull \/ WriteCheck \/ WritePut \/ WriteAdvance \/ WriteLoad \/ WriteStore

ReaderStep ==
  \/ ReadEmpty \/ ReadCheck \/ ReadTake \/ ReadAdvance \/ ReadLoad \/ ReadStore

Next == WriterStep \/ ReaderStep

Spec == Init /\ [][Next]_vars

----------------------------------------------------------------------------
TypeOK ==
  /\ preemptive \in BOOLEAN
  /\ buf \in [Indices -> Bytes]
  /\ readPos \in Indices /\ writePos \in Indices
  /\ count \in Int
  /\ wpc \in {"idle", "put", "advance", "load", "store"}
  /\ byte \in Bytes /\ wreg \in Int /\ wrote \in {0, -1}
  /\ rpc \in {"idle", "take", "advance", "load", "store"}
  /\ out \in Bytes /\ rreg \in Int /\ read \in {<<>>} \cup { <<b>> : b \in Bytes }

(* count counts bytes of buf, even when the two calls tear each other's     *)
(* read-modify-write: it never wraps below 0 and never passes PIPE_SIZE,    *)
(* where the test for equality in pipe_write would stop working.            *)
CountInRange == 0 <= count /\ count <= Size

(* Between calls that were not interrupted the three numbers of pipe_t tell *)
(* one story.                                                               *)
PositionsAgree ==
  ~ preemptive /\ wpc = "idle" /\ rpc = "idle" => writePos = (readPos + count) % Size

(* The bytes in the pipe, oldest first.  A call takes effect when it stores *)
(* count; a read under way has already moved read_pos.                      *)
Oldest == IF rpc \in {"load", "store"} THEN readPos + Size - 1 ELSE readPos

Queue == [n \in 1 .. count |-> buf[(Oldest + n - 1) % Size]]

Promise == INSTANCE Fifo WITH queue <- Queue

(* Calls that are not interrupted behave as pipe.h says.                    *)
ImplementsFifo ==
  Promise!Init /\ [][preemptive \/ Promise!Next]_<<Queue, wrote, read>>
=============================================================================
