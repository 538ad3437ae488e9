------------------------------ MODULE ClintProofs ------------------------------
(***************************************************************************)
(* Machine-checked proofs about module Clint, for words of any size and any *)
(* interval.                                                                *)
(***************************************************************************)
EXTENDS Clint, TLAPS

(* A time is its two words.                                                 *)
LEMMA Words ==
  ASSUME NEW t \in Nat
  PROVE  /\ Hi(t) \in Nat /\ Lo(t) \in Nat /\ Lo(t) < Base
         /\ t = Base * Hi(t) + Lo(t)
  BY ClintAssumption, SMT DEF Hi, Lo

(* Products with Base are monotone.                                         *)
LEMMA TimesBase ==
  ASSUME NEW m \in Nat, NEW n \in Nat
  PROVE  /\ m * Base \in Nat /\ m * Base = Base * m
         /\ m < n => Base * m + Base <= Base * n
<1>1. Base \in Nat /\ Base > 0
  BY ClintAssumption
<1>2. CASE m < n
  <2>1. PICK e \in Nat : n = m + 1 + e
    <3>1. n - m - 1 \in Nat /\ n = m + 1 + (n - m - 1)
      BY <1>2
    <3> QED
      BY <3>1
  <2>2. Base * n = Base * m + Base + Base * e /\ Base * e \in Nat
    BY <1>1, <2>1
  <2> QED
    BY <1>1, <2>2
<1> QED
  BY <1>1, <1>2

(* The words of a time determine it.                                        *)
LEMMA JoinWords ==
  ASSUME NEW h \in Nat, NEW l \in Nat, l < Base
  PROVE  Join(h, l) \in Nat /\ Hi(Join(h, l)) = h /\ Lo(Join(h, l)) = l
<1> DEFINE t == Join(h, l)
<1>1. t \in Nat /\ t = Base * h + l
  BY TimesBase, ClintAssumption DEF Join
<1> HIDE DEF t
<1>2. Hi(t) \in Nat /\ Lo(t) \in Nat /\ Lo(t) < Base /\ t = Base * Hi(t) + Lo(t)
  BY <1>1, Words
<1>3. ~ (Hi(t) < h)
  <2>1. Hi(t) < h => Base * Hi(t) + Base <= Base * h
    BY <1>2, TimesBase
  <2>2. Base * Hi(t) \in Nat /\ Base * h \in Nat /\ Base \in Nat
    BY <1>2, ClintAssumption
  <2> QED
    BY <1>1, <1>2, <2>1, <2>2
<1>4. ~ (h < Hi(t))
  <2>1. h < Hi(t) => Base * h + Base <= Base * Hi(t)
    BY <1>2, TimesBase
  <2>2. Base * Hi(t) \in Nat /\ Base * h \in Nat /\ Base \in Nat
    BY <1>2, ClintAssumption
  <2> QED
    BY <1>1, <1>2, <2>1, <2>2
<1>5. Hi(t) = h
  BY <1>2, <1>3, <1>4
<1>6. Lo(t) = l
  <2>1. Base * h \in Nat
    BY ClintAssumption
  <2> QED
    BY <1>1, <1>2, <1>5, <2>1
<1> QED
  BY <1>1, <1>5, <1>6 DEF t

(* The high word never runs backwards.                                      *)
LEMMA HiMonotone ==
  ASSUME NEW s \in Nat, NEW t \in Nat, s <= t
  PROVE  Hi(s) <= Hi(t)
<1>1. /\ Hi(s) \in Nat /\ Lo(s) \in Nat /\ s = Base * Hi(s) + Lo(s)
      /\ Hi(t) \in Nat /\ Lo(t) \in Nat /\ Lo(t) < Base /\ t = Base * Hi(t) + Lo(t)
  BY Words
<1>2. Hi(t) < Hi(s) => Base * Hi(t) + Base <= Base * Hi(s)
  BY <1>1, TimesBase
<1>3. Base * Hi(t) \in Nat /\ Base * Hi(s) \in Nat /\ Base \in Nat
  BY <1>1, ClintAssumption
<1> QED
  BY <1>1, <1>2, <1>3

----------------------------------------------------------------------------
(* What of TypeOK the proofs need; the model's bound is only on mtime.      *)
Times ==
  /\ mtime \in 0 .. LastTime /\ mtimecmp \in Nat /\ due \in Nat
  /\ hi \in Nat /\ lo \in Nat /\ lineHi \in Nat

(* How far the three stores have come.                                      *)
Storing ==
  /\ pc \in {"cmp_lo", "cmp_hi"} => Hi(mtimecmp) >= MaxWord
  /\ pc = "cmp_hi" => Lo(mtimecmp) = Lo(due)
  /\ pc = "away" => mtimecmp = due

AInv == Times /\ Storing

(* A time whose high word is the greatest is never reached.                 *)
LEMMA MaxIsFar ==
  ASSUME NEW t \in Nat, Hi(t) >= MaxWord
  PROVE  LastTime < t
<1>1. Hi(t) \in Nat /\ Lo(t) \in Nat /\ t = Base * Hi(t) + Lo(t)
  BY Words
<1>2. MaxWord \in Nat /\ Base \in Nat
  BY ClintAssumption DEF MaxWord
<1>3. Base * MaxWord <= Base * Hi(t) /\ Base * MaxWord \in Nat /\ Base * Hi(t) \in Nat
  <2>1. CASE MaxWord < Hi(t)
    BY <1>1, <1>2, <2>1, TimesBase
  <2>2. CASE MaxWord = Hi(t)
    BY <1>1, <1>2, <2>2
  <2> QED
    BY <1>1, <1>2, <2>1, <2>2
<1>4. LastTime < Base * MaxWord
  <2>1. LastTime \in Nat /\ Interval \in Nat /\ LastTime + Interval < MaxWord * Base
    BY ClintAssumption DEF MaxWord
  <2>2. MaxWord * Base = Base * MaxWord
    BY <1>2, TimesBase
  <2> QED
    BY <1>3, <2>1, <2>2
<1> QED
  BY <1>1, <1>3, <1>4, ClintAssumption

LEMMA InitArmed == Init => AInv
<1> SUFFICES ASSUME Init PROVE AInv
  OBVIOUS
<1>1. MaxWord \in Nat /\ Base \in Nat /\ LastTime \in Nat
  BY ClintAssumption DEF MaxWord
<1>2. Join(MaxWord, MaxWord) \in Nat
  BY <1>1 DEF Join
<1> QED
  BY <1>1, <1>2 DEF Init, AInv, Times, Storing, NoLine

LEMMA StepArmed == AInv /\ [Next]_vars => AInv'
<1> SUFFICES ASSUME AInv, [Next]_vars PROVE AInv'
  OBVIOUS
<1>1. MaxWord \in Nat /\ MaxWord < Base /\ Base \in Nat /\ LastTime \in Nat /\ Interval \in Nat
  BY ClintAssumption DEF MaxWord
<1>2. /\ Hi(mtime) \in Nat /\ Lo(mtime) \in Nat
      /\ Hi(mtimecmp) \in Nat /\ Lo(mtimecmp) \in Nat /\ Lo(mtimecmp) < Base
      /\ Hi(due) \in Nat /\ Lo(due) \in Nat /\ Lo(due) < Base
  BY Words DEF AInv, Times
<1>3. CASE Count
  BY <1>1, <1>3 DEF Count, driver, AInv, Times, Storing
<1>4. CASE SetNext \/ ReadHi \/ ReadLo
  BY <1>1, <1>2, <1>4 DEF SetNext, ReadHi, HiRead, ReadLo, NoLine, AInv, Times, Storing
<1>5. CASE CheckHi
  <2>1. Join(hi, lo) + Interval \in Nat
    BY <1>1 DEF Join, AInv, Times
  <2> QED
    BY <1>2, <1>5, <2>1 DEF CheckHi, HiRead, AInv, Times, Storing
<1>6. CASE WriteMax
  <2>1. mtimecmp' \in Nat /\ Hi(mtimecmp') = MaxWord
    BY <1>1, <1>2, <1>6, JoinWords DEF WriteMax
  <2> QED
    BY <1>1, <1>6, <2>1 DEF WriteMax, AInv, Times, Storing, Hi
<1>7. CASE WriteLo
  <2>1. mtimecmp' \in Nat /\ Hi(mtimecmp') = Hi(mtimecmp) /\ Lo(mtimecmp') = Lo(due)
    BY <1>2, <1>7, JoinWords DEF WriteLo
  <2>2. Hi(mtimecmp') >= MaxWord
    BY <1>7, <2>1 DEF WriteLo, AInv, Storing
  <2>3. Hi(mtimecmp)' = Hi(mtimecmp') /\ Lo(mtimecmp)' = Lo(mtimecmp') /\ Lo(due)' = Lo(due)
    BY <1>7 DEF WriteLo, Hi, Lo
  <2> QED
    BY <1>7, <2>1, <2>2, <2>3 DEF WriteLo, AInv, Times, Storing
<1>8. CASE WriteHi
  <2>1. mtimecmp' = Join(Hi(due), Lo(due))
    BY <1>8 DEF WriteHi, AInv, Storing
  <2>2. Join(Hi(due), Lo(due)) = due
    BY <1>1, <1>2, Words, TimesBase DEF Join, AInv, Times
  <2> QED
    BY <1>8, <2>1, <2>2 DEF WriteHi, AInv, Times, Storing
<1>9. CASE UNCHANGED vars
  BY <1>9 DEF vars, driver, AInv, Times, Storing, Hi, Lo
<1> QED
  BY <1>3, <1>4, <1>5, <1>6, <1>7, <1>8, <1>9 DEF Next, Driver

LEMMA Armed == Spec => []AInv
  BY InitArmed, StepArmed, PTL DEF Spec

(* clint.h:24 "set hi=MAX first to avoid spurious interrupt": it does.      *)
THEOREM NoneSpurious == Spec => []NoSpuriousInterrupt
<1>1. AInv => NoSpuriousInterrupt
  <2> SUFFICES ASSUME AInv, pc \in {"cmp_lo", "cmp_hi"} PROVE ~ Pending
    BY DEF NoSpuriousInterrupt
  <2>1. LastTime < mtimecmp
    BY MaxIsFar DEF AInv, Times, Storing
  <2> QED
    BY <2>1, ClintAssumption DEF Pending, AInv, Times
<1> QED
  BY <1>1, Armed, PTL

(* clint_mtimecmp_write leaves the deadline it was given.                   *)
THEOREM DeadlineKept == Spec => []ArmedAsAsked
<1>1. AInv => ArmedAsAsked
  BY DEF AInv, Storing, ArmedAsAsked, Pending
<1> QED
  BY <1>1, Armed, PTL

----------------------------------------------------------------------------
(* What a read in progress knows: hi was right at began, and lo since.      *)
Reading ==
  /\ began \in Nat
  /\ pc \in {"lo", "check"} => hi = Hi(began) /\ began <= mtime
  /\ pc = "check" => \E t \in Nat : began <= t /\ t <= mtime /\ lo = Lo(t)
  /\ ReadIsSafe

RInv == Times /\ Reading

LEMMA StepReads == ~ Cached /\ RInv /\ AInv' /\ [Next]_vars => RInv'
<1> SUFFICES ASSUME ~ Cached, RInv, AInv', [Next]_vars PROVE RInv'
  OBVIOUS
<1>1. Interval \in Nat /\ LastTime \in Nat /\ Times' /\ mtime \in Nat
  BY ClintAssumption DEF AInv, RInv, Times
<1>2. CASE Count
  <2>1. pc' = pc /\ hi' = hi /\ lo' = lo /\ began' = began /\ due' = due /\ mtime' = mtime + 1
    BY <1>2 DEF Count, driver
  <2>2. Hi(began)' = Hi(began)
    BY <2>1 DEF Hi
  <2>3. pc = "check" => \E t \in Nat : began <= t /\ t <= mtime + 1 /\ lo = Lo(t)
    BY <1>1 DEF RInv, Reading
  <2>4. ReadIsSafe'
    BY <1>1, <2>1 DEF RInv, Reading, ReadIsSafe, Times
  <2> QED
    BY <1>1, <2>1, <2>2, <2>3, <2>4 DEF RInv, Reading
<1>3. CASE ReadHi
  <2>1. pc' = "lo" /\ hi' = Hi(mtime) /\ began' = mtime /\ mtime' = mtime
    BY <1>3 DEF ReadHi, HiRead
  <2>2. Hi(began)' = Hi(mtime)
    BY <2>1 DEF Hi
  <2> QED
    BY <1>1, <2>1, <2>2 DEF RInv, Reading, ReadIsSafe
<1>4. CASE ReadLo
  <2>1. pc = "lo" /\ pc' = "check" /\ hi' = hi /\ lo' = Lo(mtime) /\ began' = began /\ mtime' = mtime
    BY <1>4 DEF ReadLo
  <2>2. Hi(began)' = Hi(began)
    BY <2>1 DEF Hi
  <2>3. \E t \in Nat : began <= t /\ t <= mtime /\ lo' = Lo(t)
    BY <1>1, <2>1 DEF RInv, Reading
  <2> QED
    BY <1>1, <2>1, <2>2, <2>3 DEF RInv, Reading, ReadIsSafe
<1>5. CASE CheckHi
  <2>1. /\ pc = "check" /\ mtime' = mtime /\ began' = began
        /\ pc' = "hi" \/ (pc' = "cmp_max" /\ Hi(mtime) = hi /\ due' = Join(hi, lo) + Interval)
    BY <1>5 DEF CheckHi, HiRead
  <2>2. CASE pc' = "hi"
    BY <1>1, <2>1, <2>2 DEF RInv, Reading, ReadIsSafe
  <2>3. CASE pc' # "hi"
    <3>1. PICK t \in Nat : began <= t /\ t <= mtime /\ lo = Lo(t)
      BY <2>1 DEF RInv, Reading
    <3>2. Hi(began) <= Hi(t) /\ Hi(t) <= Hi(mtime) /\ hi = Hi(began) /\ Hi(mtime) = hi
      BY <1>1, <2>1, <2>3, <3>1, HiMonotone DEF RInv, Reading
    <3>3. Hi(t) = hi /\ Hi(t) \in Nat
      BY <3>1, <3>2, <1>1, Words DEF RInv, Times
    <3>4. Join(hi, lo) = t
      BY <3>1, <3>3, Words, TimesBase DEF Join
    <3> QED
      BY <1>1, <2>1, <2>3, <3>1, <3>4 DEF RInv, Reading, ReadIsSafe
  <2> QED
    BY <2>2, <2>3
<1>6. CASE SetNext \/ WriteMax \/ WriteLo \/ WriteHi
  BY <1>1, <1>6 DEF SetNext, WriteMax, WriteLo, WriteHi, RInv, Reading, ReadIsSafe
<1>7. CASE UNCHANGED vars
  BY <1>7 DEF vars, driver, RInv, Times, Reading, ReadIsSafe, Hi, Lo
<1> QED
  BY <1>2, <1>3, <1>4, <1>5, <1>6, <1>7 DEF Next, Driver

(* Read past the cache, the two words of clint_mtime are of one instant of  *)
(* the call (clint.h:14 "double-read hi to avoid 32-bit rollover race").    *)
THEOREM ReadsOneTime == ~ Cached => (Spec => []ReadIsSafe)
<1> SUFFICES ASSUME ~ Cached PROVE Spec => []ReadIsSafe
  OBVIOUS
<1>1. Init => RInv
  BY InitArmed DEF Init, AInv, RInv, Reading, ReadIsSafe
<1>2. RInv /\ AInv' /\ [Next]_vars => RInv'
  BY StepReads
<1>3. RInv => ReadIsSafe
  BY DEF RInv, Reading
<1> QED
  BY <1>1, <1>2, <1>3, Armed, PTL DEF Spec
=============================================================================
