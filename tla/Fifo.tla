-------------------------------- MODULE Fifo --------------------------------
(***************************************************************************)
(* What os/include/pipe.h promises its two users: a bounded first-in        *)
(* first-out queue of bytes whose operations never block.                   *)
(***************************************************************************)
EXTENDS Integers, Sequences

CONSTANTS
  Bytes,
  Size          \* PIPE_SIZE

VARIABLES
  queue,        \* bytes written and not yet read, oldest first
  wrote,        \* what the latest pipe_write returned
  read          \* what the latest pipe_read returned, <<>> for -1

vars == <<queue, wrote, read>>

Init ==
  /\ queue = <<>>
  /\ wrote = 0
  /\ read  = <<>>

Write(b) ==
  /\ Len(queue) < Size
  /\ queue' = Append(queue, b)
  /\ wrote' = 0
  /\ UNCHANGED read

WriteFull ==
  /\ Len(queue) = Size
  /\ wrote' = -1
  /\ UNCHANGED <<queue, read>>

Read ==
  /\ queue # <<>>
  /\ queue' = Tail(queue)
  /\ read'  = <<Head(queue)>>
  /\ UNCHANGED wrote

ReadEmpty ==
  /\ queue = <<>>
  /\ read' = <<>>
  /\ UNCHANGED <<queue, wrote>>

Next == (\E b \in Bytes : Write(b)) \/ WriteFull \/ Read \/ ReadEmpty

Spec == Init /\ [][Next]_vars
=============================================================================
