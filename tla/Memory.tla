------------------------------- MODULE Memory -------------------------------
(***************************************************************************)
(* The memory a program running on RVModel sees when RVModel is built on    *)
(* MemoryModel alone: data_ and the single LR/SC reservation                *)
(* (memory_model.hpp), as the load, store and AMO instructions use them     *)
(* (rv_model.hpp).  Module Cache implements it with a CacheModel between.   *)
(*                                                                          *)
(* Several software threads share the one hart; a switch between them goes  *)
(* through trap.S and context_switch, which store registers.                *)
(***************************************************************************)
EXTENDS Naturals

CONSTANTS
  Addrs,        \* word-aligned RAM addresses in use
  LaneCount,    \* bytes of a word
  Bytes,        \* values of a byte
  Threads       \* software threads

ASSUME MemoryAssumption ==
  /\ LaneCount \in {1, 2, 4}
  /\ {0, 1} \subseteq Bytes
  /\ Threads # {} /\ Addrs # {}

Lanes == 0 .. LaneCount - 1
Words == [Lanes -> Bytes]

(* The aligned byte, half and word accesses inside a word.                  *)
Chunks ==
  UNION { { l .. l + w - 1 : l \in { k \in Lanes : k % w = 0 /\ k + w <= LaneCount } } :
          w \in {1, 2, 4} }

(* w with the lanes of a chunk taken from val.                              *)
Patch(w, chunk, val) == [l \in Lanes |-> IF l \in chunk THEN val[l] ELSE w[l]]

(* The number 0 or 1 as a word.                                             *)
Flag(n) == [l \in Lanes |-> IF l = 0 THEN n ELSE 0]

None == <<>>

VARIABLES
  mem,        \* data_, by word
  lrAddr,     \* lr_addr_
  lrValid,    \* lr_valid_
  running,    \* the thread on the hart
  linked,     \* what each thread's last LR loaded, and from where: history
  out         \* what the last instruction wrote to rd

vars == <<mem, lrAddr, lrValid, running, linked, out>>

Init ==
  /\ mem     \in [Addrs -> Words]
  /\ lrAddr  = 0
  /\ lrValid = FALSE
  /\ running \in Threads
  /\ linked  = [t \in Threads |-> None]
  /\ out     = None

Load(a, chunk) ==
  /\ out' = [l \in chunk |-> mem[a][l]]
  /\ UNCHANGED <<mem, lrAddr, lrValid, running, linked>>

(* executeStore ends with invalidateReservation.                            *)
Store(a, chunk, val) ==
  /\ mem' = [mem EXCEPT ![a] = Patch(@, chunk, val)]
  /\ lrValid' = FALSE
  /\ UNCHANGED <<lrAddr, running, linked, out>>

LoadReserved(a) ==
  /\ out'     = mem[a]
  /\ lrAddr'  = a
  /\ lrValid' = TRUE
  /\ linked'  = [linked EXCEPT ![running] = [addr |-> a, word |-> mem[a]]]
  /\ UNCHANGED <<mem, running>>

(* A failing SC leaves the reservation as it is.                            *)
StoreConditional(a, val) ==
  \/ /\ lrValid /\ lrAddr = a
     /\ lrValid' = FALSE
     /\ mem'     = [mem EXCEPT ![a] = val]
     /\ out'     = Flag(0)
     /\ UNCHANGED <<lrAddr, running, linked>>
  \/ /\ ~ (lrValid /\ lrAddr = a)
     /\ out' = Flag(1)
     /\ UNCHANGED <<mem, lrAddr, lrValid, running, linked>>

(* amoswap, amoadd, ...: for some rs2 the result is any word.               *)
Amo(a, result) ==
  /\ out'     = mem[a]
  /\ lrValid' = FALSE
  /\ mem'     = [mem EXCEPT ![a] = result]
  /\ UNCHANGED <<lrAddr, running, linked>>

(* Operators named ..._mutant are faults the properties must detect; no      *)
(* specification uses them.                                                 *)

(* A switch that saves nothing to memory.                                   *)
SwitchKeepsReservation_mutant(t) ==
  /\ t # running
  /\ running' = t
  /\ UNCHANGED <<mem, lrAddr, lrValid, linked, out>>

(* Saving the registers of the old thread stores, and every store drops     *)
(* the reservation.                                                         *)
Switch(t) ==
  /\ t # running
  /\ running' = t
  /\ lrValid' = FALSE
  /\ UNCHANGED <<mem, lrAddr, linked, out>>

Next ==
  \/ \E a \in Addrs, chunk \in Chunks : Load(a, chunk)
  \/ \E a \in Addrs, chunk \in Chunks, val \in Words : Store(a, chunk, val)
  \/ \E a \in Addrs : LoadReserved(a)
  \/ \E a \in Addrs, val \in Words : StoreConditional(a, val)
  \/ \E a \in Addrs, result \in Words : Amo(a, result)
  \/ \E t \in Threads : Switch(t)

Spec == Init /\ [][Next]_vars

----------------------------------------------------------------------------
(* While the reservation stands it is the running thread's own, and the     *)
(* word is still what that thread's LR loaded.  There is one reservation    *)
(* for all threads, not cleared by a failing SC nor by mret.                *)
ReservationIsMine ==
  lrValid => linked[running] = [addr |-> lrAddr, word |-> mem[lrAddr]]

(* SC writes only where nothing has changed since the LR of its own thread. *)
ScIsAtomic ==
  [][\A a \in Addrs, val \in Words :
       StoreConditional(a, val) /\ out' = Flag(0)
         => linked[running] = [addr |-> a, word |-> mem[a]]]_vars
=============================================================================
