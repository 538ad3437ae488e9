-------------------------------- MODULE Clint --------------------------------
(***************************************************************************)
(* The timer driver (os/include/clint.h, os/src/clint.c) on the simulated   *)
(* CLINT (main.cpp): a 64-bit mtime and mtimecmp seen as two words each,    *)
(* read and written word by word while mtime counts every instruction.      *)
(* In main.cpp the words are read through CacheModel, which keeps what it   *)
(* has read.                                                                *)
(***************************************************************************)
EXTENDS Naturals

CONSTANTS
  Base,         \* values of a word; 2^32
  LastTime,     \* mtime stops here; a bound of the model
  Interval,     \* g_interval
  Cached        \* TRUE: reads go through CacheModel, as in main.cpp

ASSUME ClintAssumption ==
  /\ Base \in Nat \ {0, 1}
  /\ LastTime \in Nat /\ Interval \in Nat
  /\ LastTime + Interval < (Base - 1) * Base
  /\ Cached \in BOOLEAN

Lo(t) == t % Base
Hi(t) == t \div Base
Join(h, l) == h * Base + l
MaxWord == Base - 1                 \* UINT32_MAX
NoLine == Base                      \* a word the cache does not hold

VARIABLES
  mtime, mtimecmp,    \* the registers in main.cpp
  pc,                 \* where the driver is; "away" outside it
  hi, lo,             \* locals of clint_mtime
  lineHi,             \* CacheModel's line for MTIME_HI
  began, due          \* history: mtime at the latest read of hi before lo;
                      \* the deadline last asked for

driver == <<pc, hi, lo, lineHi, began, due>>
vars == <<mtime, mtimecmp, driver>>

Init ==
  /\ mtime    = 0
  /\ mtimecmp = Join(MaxWord, MaxWord)
  /\ pc       = "away"
  /\ hi = 0 /\ lo = 0
  /\ lineHi   = NoLine
  /\ began    = 0
  /\ due      = Join(MaxWord, MaxWord)

(* ++mtime after every instruction of run_os's loop.                        *)
Count ==
  /\ mtime < LastTime
  /\ mtime' = mtime + 1
  /\ UNCHANGED <<mtimecmp, driver>>

(* triggerInterrupt is called while this holds.                             *)
Pending == mtime >= mtimecmp

(***************************************************************************)
(* clint_init, the first time, and clint_set_next from timer_handler, once  *)
(* the interrupt has been taken.  The boot code, or trap_entry and          *)
(* everything it calls and returns through, has used more than the 64 words *)
(* CacheModel holds, so no line of the last time is left.                   *)
(***************************************************************************)
SetNext ==
  /\ pc = "away"
  /\ due = Join(MaxWord, MaxWord) \/ Pending
  /\ pc' = "hi"
  /\ lineHi' = NoLine
  /\ UNCHANGED <<mtime, mtimecmp, hi, lo, began, due>>

(* What a read of MTIME_HI returns, and the line it leaves.                 *)
HiRead == IF Cached /\ lineHi # NoLine THEN lineHi ELSE Hi(mtime)

ReadHi ==
  /\ pc = "hi"
  /\ hi' = HiRead
  /\ lineHi' = HiRead
  /\ began' = mtime
  /\ pc' = "lo"
  /\ UNCHANGED <<mtime, mtimecmp, lo, due>>

ReadLo ==
  /\ pc = "lo"
  /\ lo' = Lo(mtime)
  /\ pc' = "check"
  /\ UNCHANGED <<mtime, mtimecmp, hi, lineHi, began, due>>

(* Operators named ..._mutant are faults the properties must detect; no      *)
(* specification uses them.                                                 *)

(* Does not read hi a second time.                                          *)
CheckNothing_mutant ==
  /\ pc = "check"
  /\ pc' = "cmp_max" /\ due' = Join(hi, lo) + Interval
  /\ UNCHANGED <<mtime, mtimecmp, hi, lo, lineHi, began>>

(* The loop condition: MTIME_HI != hi.                                      *)
CheckHi ==
  /\ pc = "check"
  /\ lineHi' = HiRead
  /\ \/ HiRead # hi /\ pc' = "hi" /\ UNCHANGED due
     \/ HiRead = hi /\ pc' = "cmp_max" /\ due' = Join(hi, lo) + Interval
  /\ UNCHANGED <<mtime, mtimecmp, hi, lo, began>>

(* Skips the store of UINT32_MAX.                                           *)
WriteMaxNot_mutant ==
  /\ pc = "cmp_max"
  /\ pc' = "cmp_lo"
  /\ UNCHANGED <<mtime, mtimecmp, hi, lo, lineHi, began, due>>

(* clint_mtimecmp_write(due), three word stores.                            *)
WriteMax ==
  /\ pc = "cmp_max"
  /\ mtimecmp' = Join(MaxWord, Lo(mtimecmp))
  /\ pc' = "cmp_lo"
  /\ UNCHANGED <<mtime, hi, lo, lineHi, began, due>>

WriteLo ==
  /\ pc = "cmp_lo"
  /\ mtimecmp' = Join(Hi(mtimecmp), Lo(due))
  /\ pc' = "cmp_hi"
  /\ UNCHANGED <<mtime, hi, lo, lineHi, began, due>>

(* Leaves the high word at UINT32_MAX.                                      *)
WriteHiNot_mutant ==
  /\ pc = "cmp_hi"
  /\ pc' = "away"
  /\ UNCHANGED <<mtime, mtimecmp, hi, lo, lineHi, began, due>>

WriteHi ==
  /\ pc = "cmp_hi"
  /\ mtimecmp' = Join(Hi(due), Lo(mtimecmp))
  /\ pc' = "away"
  /\ UNCHANGED <<mtime, hi, lo, lineHi, began, due>>

Driver == SetNext \/ ReadHi \/ ReadLo \/ CheckHi \/ WriteMax \/ WriteLo \/ WriteHi

Next == Count \/ Driver

Spec == Init /\ [][Next]_vars

----------------------------------------------------------------------------
TypeOK ==
  /\ mtime    \in 0 .. LastTime
  /\ mtimecmp \in 0 .. Join(MaxWord, MaxWord)
  /\ pc       \in {"away", "hi", "lo", "check", "cmp_max", "cmp_lo", "cmp_hi"}
  /\ hi       \in 0 .. MaxWord
  /\ lo       \in 0 .. MaxWord
  /\ lineHi   \in 0 .. NoLine
  /\ began    \in 0 .. LastTime
  /\ due      \in 0 .. Join(MaxWord, MaxWord)

(* clint_mtime returns a value mtime had during the call: the deadline is   *)
(* Interval after some instant of the final round (clint.h:14 "read current *)
(* mtime safely (double-read hi to avoid 32-bit rollover race)").           *)
ReadIsSafe ==
  pc = "cmp_max" => began + Interval <= due /\ due <= mtime + Interval

(* Between the first and the last store of a new mtimecmp no interrupt is   *)
(* pending, though the two words are of different deadlines (clint.h:24     *)
(* "set hi=MAX first to avoid spurious interrupt").                         *)
NoSpuriousInterrupt == pc \in {"cmp_lo", "cmp_hi"} => ~ Pending

(* Outside the driver the interrupt is pending exactly from the deadline    *)
(* that was asked for: none comes early and none is lost.                   *)
ArmedAsAsked == pc = "away" => (Pending <=> mtime >= due)
=============================================================================
