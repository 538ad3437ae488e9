------------------------------- MODULE MCCache -------------------------------
(***************************************************************************)
(* Three words of two bytes behind two lines: a miss evicts, and the order  *)
(* of the list decides which line.  The threads are interchangeable.        *)
(***************************************************************************)
EXTENDS Cache, TLC

Interchangeable == Permutations(Threads)

(* Bound: the threads' locks are in one word; after an LR of another word   *)
(* one step is checked and no more.                                         *)
OneReservedWord == \A t \in Threads : linked[t] # None => linked[t].addr = 0
=============================================================================
