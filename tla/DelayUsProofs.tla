--------------------------- MODULE DelayUsProofs ---------------------------
(***************************************************************************)
(* Proofs about the busy waits, for every counter, clock and request whose *)
(* ticks fit into a word, and for every interruption.                      *)
(***************************************************************************)
EXTENDS DelayUs, TLAPS

USE WordAssumption, ReloadAssumption, FacAssumption, GapAssumption

(* Ticks of one delay_us. *)
Wanted == nus * FacUs

(* Ticks the counter has run since it showed told, whole periods aside. *)
Behind == IF val <= told THEN told - val ELSE Reload + 1 - val + told

(* While delay_us waits, tcnt and what it has yet to see are no more than  *)
(* the time that has passed.                                               *)
LoopInv ==
  pc = "loop" => /\ ticks = Wanted
                 /\ tcnt + Behind <= spent
                 /\ elapsed - spent >= asked - left * Wanted

EnterInv == pc = "enter" => elapsed >= asked - left * Wanted

CallInv == pc \in {"enter", "loop"} => left >= 1 /\ Wanted < Word

IInv == TypeOK /\ CallInv /\ EnterInv /\ LoopInv /\ NeverShort

-----------------------------------------------------------------------------
(* A remainder is less than the divisor and not more than the number. *)
LEMMA ModBounds ==
  ASSUME NEW x \in Nat, NEW m \in Nat \ {0}
  PROVE  x % m \in 0..(m - 1) /\ x % m <= x /\ (x < m => x % m = x)
OBVIOUS

(* One wait less to come. *)
LEMMA OneLess ==
  ASSUME NEW a \in Int, NEW w \in Int
  PROVE  (a - 1) * w = a * w - w
OBVIOUS

(* A tick on both sides. *)
LEMMA OneTick ==
  ASSUME NEW a \in Int, NEW b \in Int, NEW c \in Int, NEW d \in Int,
         a + b <= c, d <= b + 1
  PROVE  a + d <= c + 1
OBVIOUS

LEMMA ProductNat ==
  ASSUME NEW a \in Nat, NEW b \in Nat
  PROVE  a * b \in Nat
OBVIOUS
-----------------------------------------------------------------------------
LEMMA InitInv == Init => IInv
BY DEF Init, IInv, TypeOK, CallInv, EnterInv, LoopInv, NeverShort

(* Time passes: what the counter shows moves by at most one tick. *)
LEMMA TickInv == IInv /\ Tick => IInv'
<1> SUFFICES ASSUME IInv, Tick
             PROVE  IInv'
  OBVIOUS
<1> USE DEF IInv, TypeOK, Tick
<1>1. TypeOK'
  BY DEF TypeOK
<1>2. Wanted' = Wanted /\ (left * Wanted)' = left * Wanted
  BY DEF Wanted
<1>3. CallInv'
  BY <1>2 DEF CallInv
<1>4. EnterInv'
  <2> SUFFICES ASSUME pc = "enter"
               PROVE  elapsed' >= asked - left * Wanted
    BY <1>2 DEF EnterInv
  <2>1. left * Wanted \in Nat
    BY ProductNat DEF Wanted
  <2> QED
    BY <2>1 DEF EnterInv
<1>5. LoopInv'
  <2> SUFFICES ASSUME pc = "loop"
               PROVE  /\ ticks' = Wanted
                      /\ tcnt' + Behind' <= spent'
                      /\ elapsed' - spent' >= asked' - left * Wanted
    BY <1>2 DEF LoopInv
  <2>1. Behind' <= Behind + 1
    BY DEF Behind
  <2>2. Behind \in Int /\ Behind' \in Int
    BY DEF Behind
  <2>3. tcnt' + Behind' <= spent'
    <3>1. tcnt + Behind <= spent
      BY DEF LoopInv
    <3>2. tcnt' = tcnt /\ spent' = spent + 1 /\ tcnt \in Int /\ spent \in Int
      OBVIOUS
    <3> HIDE DEF IInv, TypeOK, Tick
    <3> QED
      BY <2>1, <2>2, <3>1, <3>2, OneTick
  <2>4. elapsed' - spent' = elapsed - spent
    OBVIOUS
  <2> QED
    BY <2>3, <2>4 DEF LoopInv
<1>6. NeverShort'
  BY DEF NeverShort
<1> QED
  BY <1>1, <1>3, <1>4, <1>5, <1>6

(* A call of n waits of us microseconds, in range. *)
LEMMA BeginInv ==
  ASSUME NEW n \in Nat, NEW us \in Nat, us * FacUs < Word, IInv, Begin(n, us)
  PROVE  IInv'
<1> USE DEF IInv, TypeOK, Begin
<1>1. us * FacUs \in Nat
  BY ProductNat
<1>2. n * (us * FacUs) \in Nat
  BY <1>1, ProductNat
<1>3. TypeOK'
  BY <1>2 DEF TypeOK
<1>4. Wanted' = us * FacUs /\ (left * Wanted)' = n * (us * FacUs)
  BY DEF Wanted
<1>5. CallInv'
  BY <1>4 DEF CallInv
<1>6. EnterInv'
  BY <1>2, <1>4 DEF EnterInv
<1>7. LoopInv'
  BY DEF LoopInv
<1>8. NeverShort'
  <2> SUFFICES ASSUME n = 0
               PROVE  elapsed' >= asked'
    BY DEF NeverShort
  <2>1. n * (us * FacUs) = 0
    BY <1>1
  <2> QED
    BY <2>1
<1> QED
  BY <1>3, <1>5, <1>6, <1>7, <1>8

LEMMA CallStepInv == IInv /\ Call => IInv'
<1> SUFFICES ASSUME IInv, Call
             PROVE  IInv'
  OBVIOUS
<1>1. CASE \E n \in UsCalls : DelayUs(n)
  <2> PICK n \in UsCalls : DelayUs(n)
    BY <1>1
  <2>1. n \in Nat /\ n * FacUs < Word /\ 1 \in Nat
    BY UsAssumption
  <2> QED
    BY <2>1, BeginInv DEF DelayUs
<1>2. CASE \E n \in MsCalls : DelayMs(n)
  <2> PICK n \in MsCalls : DelayMs(n)
    BY <1>2
  <2>1. n \in Nat /\ MsUs \in Nat /\ MsUs * FacUs < Word
    BY MsAssumption, UsAssumption
  <2> QED
    BY <2>1, BeginInv DEF DelayMs
<1>3. CASE \E n \in HalCalls : HALDelay(n)
  <2> PICK n \in HalCalls : HALDelay(n)
    BY <1>3
  <2>1. n % HalfWord \in Nat /\ MsUs \in Nat /\ MsUs * FacUs < Word
    BY MsAssumption, UsAssumption, ModBounds
  <2> QED
    BY <2>1, BeginInv DEF HALDelay
<1> QED
  BY <1>1, <1>2, <1>3 DEF Call

(* The product fits into a word, so ticks is what was asked for. *)
LEMMA EnterStepInv == IInv /\ Enter => IInv'
<1> SUFFICES ASSUME IInv, Enter
             PROVE  IInv'
  OBVIOUS
<1> USE DEF IInv, TypeOK, Enter
<1>1. Wanted \in Nat /\ Wanted < Word /\ left * Wanted \in Nat
  BY ProductNat DEF CallInv, Wanted
<1>2. ticks' = Wanted
  BY <1>1, ModBounds DEF Wanted
<1>3. TypeOK'
  BY <1>1, <1>2 DEF TypeOK
<1>4. Wanted' = Wanted /\ (left * Wanted)' = left * Wanted
  BY DEF Wanted
<1>5. CallInv'
  BY <1>4 DEF CallInv
<1>6. LoopInv'
  <2>1. Behind' = 0
    BY DEF Behind
  <2> QED
    BY <1>1, <1>2, <1>4, <2>1 DEF LoopInv, EnterInv
<1>7. EnterInv' /\ NeverShort'
  BY DEF EnterInv, NeverShort
<1> QED
  BY <1>3, <1>5, <1>6, <1>7

(* What a look adds to tcnt is not more than what has passed. *)
LEMMA LookInv == IInv /\ Look => IInv'
<1> SUFFICES ASSUME IInv, Look
             PROVE  IInv'
  OBVIOUS
<1> USE DEF IInv, TypeOK
<1> DEFINE total == tcnt + Passed(val)
<1>1. Wanted \in Nat /\ Wanted < Word /\ left * Wanted \in Nat
  BY ProductNat DEF Look, CallInv, Wanted
<1>2. Wanted' = Wanted
  BY DEF Look, Wanted
<1>3. CASE val = told
  <2>1. UNCHANGED <<pc, left, told, tcnt, val, nus, ticks, spent, elapsed, asked>> /\ gap' = 0
    BY <1>3 DEF Look
  <2>2. Behind' = Behind
    BY <2>1 DEF Behind
  <2> QED
    BY <2>1, <2>2, <1>2 DEF CallInv, EnterInv, LoopInv, NeverShort
<1>4. CASE val # told
  <2>1. Passed(val) \in Nat /\ Passed(val) <= Behind
    BY <1>4 DEF Passed, Behind
  <2>2. total \in Nat /\ total <= spent
    BY <2>1 DEF LoopInv, Look, Behind
  <2>3. total % Word \in 0..(Word - 1) /\ total % Word <= spent
    <3> HIDE DEF total
    <3>1. total % Word \in 0..(Word - 1) /\ total % Word <= total
      BY <2>2, ModBounds
    <3>2. spent \in Nat
      OBVIOUS
    <3> QED
      BY <2>2, <3>1, <3>2
  <2>4. told' = val /\ tcnt' = total % Word
    BY <1>4 DEF Look
  <2> HIDE DEF total
  <2>5. CASE tcnt' >= ticks
    <3>1. /\ left' = left - 1
          /\ pc' = IF left = 1 THEN "done" ELSE "enter"
          /\ UNCHANGED <<val, nus, ticks, spent, elapsed, asked>> /\ gap' = 0
      BY <1>4, <2>5 DEF Look, LastWait
    <3>2. (left * Wanted)' = left * Wanted - Wanted
      BY <3>1, <1>1, <1>2, OneLess
    <3>3. elapsed >= asked - (left * Wanted - Wanted)
      <4>1. spent >= Wanted
        BY <2>3, <2>4, <2>5, <1>1 DEF LoopInv, Look
      <4> QED
        BY <4>1, <1>1 DEF LoopInv, Look
    <3>4. TypeOK'
      BY <3>1, <2>3, <2>4 DEF TypeOK, CallInv, Look
    <3>5. CallInv'
      BY <3>1, <1>1, <1>2 DEF CallInv, Look
    <3>6. EnterInv'
      BY <3>1, <3>2, <3>3 DEF EnterInv
    <3>7. LoopInv'
      BY <3>1 DEF LoopInv
    <3>8. NeverShort'
      <4> SUFFICES ASSUME left = 1
                   PROVE  elapsed >= asked
        BY <3>1 DEF NeverShort
      <4>1. left * Wanted = Wanted
        BY <1>1
      <4> QED
        BY <4>1, <3>3, <1>1
    <3> QED
      BY <3>4, <3>5, <3>6, <3>7, <3>8
  <2>6. CASE ~(tcnt' >= ticks)
    <3>1. UNCHANGED <<pc, left, val, nus, ticks, spent, elapsed, asked>> /\ gap' = 0
      BY <1>4, <2>6 DEF Look
    <3>2. Behind' = 0
      BY <2>4, <3>1 DEF Behind
    <3>3. TypeOK'
      BY <3>1, <2>3, <2>4 DEF TypeOK
    <3>4. CallInv' /\ EnterInv' /\ NeverShort'
      BY <3>1, <1>2 DEF CallInv, EnterInv, NeverShort, Look
    <3>5. LoopInv'
      BY <3>1, <3>2, <2>3, <2>4, <1>2 DEF LoopInv
    <3> QED
      BY <3>3, <3>4, <3>5
  <2> QED
    BY <2>5, <2>6
<1> QED
  BY <1>3, <1>4

LEMMA ReturnInv == IInv /\ Return => IInv'
BY DEF IInv, TypeOK, Return, CallInv, EnterInv, LoopInv, NeverShort

(* The invariant, by the steps of Next. *)
THEOREM Invariance == Spec => []IInv
<1>1. Init => IInv
  BY InitInv
<1>2. IInv /\ [Next]_vars => IInv'
  <2>1. IInv /\ UNCHANGED vars => IInv'
    BY DEF IInv, TypeOK, CallInv, EnterInv, LoopInv, NeverShort, Wanted, Behind, vars
  <2> QED
    BY <2>1, TickInv, CallStepInv, EnterStepInv, LookInv, ReturnInv DEF Next
<1> QED
  BY <1>1, <1>2, PTL DEF Spec

(* delay.c: tcnt and ticks keep their width, the counter its range. *)
THEOREM TypeCorrect == Spec => []TypeOK
BY Invariance, PTL DEF IInv

(* delay_us, delay_ms and HAL_Delay never return early. *)
THEOREM NeverReturnsEarly == Spec => []NeverShort
BY Invariance, PTL DEF IInv

-----------------------------------------------------------------------------
(***************************************************************************)
(* A wait ends in time if no whole period of the counter passes between    *)
(* two looks, and if the range of the argument leaves a word's room for    *)
(* the last gap.  Without the second the range of the comment lets tcnt    *)
(* start again at 0: that is what the run DelayUs_range shows.             *)
(***************************************************************************)
Room ==
  /\ MaxGap <= Reload
  /\ MsUs * FacUs + MaxGap < Word
  /\ \A n \in UsCalls : n * FacUs + MaxGap < Word

Period == Reload + 1

(* Ticks that have passed and are not in tcnt, the current gap aside: one  *)
(* for each restart a look has seen.                                       *)
Lost == spent - tcnt - gap

(* How often the counter has started again, the current gap included. *)
Restarts == Lost + (IF val > told THEN 1 ELSE 0)

GapInv == gap <= MaxGap

RoomInv == pc \in {"enter", "loop"} => Wanted + MaxGap < Word

(* spent + val - Restarts * Period is what the counter showed at first. *)
CountInv ==
  pc = "loop" => /\ Behind = gap
                 /\ tcnt <= ticks
                 /\ spent + val - Restarts * Period \in 0..Reload

TInv == GapInv /\ RoomInv /\ CountInv

-----------------------------------------------------------------------------
(* One more factor, one more summand. *)
LEMMA OneMore ==
  ASSUME NEW a \in Int, NEW w \in Int
  PROVE  (a + 1) * w = a * w + w
OBVIOUS

(* How many whole periods end within a span of time. *)
LEMMA RestartsBound ==
  ASSUME NEW u \in Int, NEW s \in Nat, NEW p \in Nat \ {0}, u * p <= s + p - 1
  PROVE  u <= s \div p + 1
<1> DEFINE q == s \div p
<1>1. q \in Int /\ s < (q + 1) * p
  OBVIOUS
<1> HIDE DEF q
<1>2. (q + 1) * p = q * p + p /\ (q + 2) * p = q * p + 2 * p
  BY <1>1
<1>3. u * p < (q + 2) * p
  BY <1>1, <1>2
<1>4. u < q + 2
  <2> SUFFICES ASSUME u >= q + 2
               PROVE  u * p >= (q + 2) * p
    BY <1>1, <1>3
  <2> QED
    BY <1>1
<1>5. u <= q + 1
  BY <1>1, <1>4
<1> QED
  BY <1>5 DEF q

LEMMA InitTime == Init => TInv
BY DEF Init, TInv, GapInv, RoomInv, CountInv

LEMMA TickTime == Room /\ IInv /\ TInv /\ Tick => TInv'
<1> SUFFICES ASSUME Room, IInv, TInv, Tick
             PROVE  TInv'
  OBVIOUS
<1> USE DEF IInv, TypeOK, Tick, TInv
<1>1. GapInv'
  BY DEF GapInv
<1>2. RoomInv'
  BY DEF RoomInv, Wanted
<1>3. CountInv'
  <2> SUFFICES ASSUME pc = "loop"
               PROVE  /\ Behind' = gap'
                      /\ tcnt' <= ticks'
                      /\ spent' + val' - Restarts' * Period \in 0..Reload
    BY DEF CountInv, Period
  <2>1. gap' = gap + 1 /\ gap + 1 <= Reload /\ Behind = gap
    BY DEF GapInv, CountInv, Room
  <2>2. Behind' = gap'
    BY <2>1 DEF Behind
  <2>3. Lost' = Lost /\ Lost \in Int
    BY <2>1 DEF Lost
  <2>4. CASE val = 0
    <3>1. Restarts' = Restarts + 1
      BY <2>1, <2>2, <2>3, <2>4 DEF Restarts, Behind
    <3>2. Restarts' * Period = Restarts * Period + Period
      BY <2>3, <3>1, OneMore DEF Restarts, Period
    <3>3. Restarts * Period \in Int
      BY <2>3 DEF Restarts, Period
    <3> QED
      BY <2>2, <2>4, <3>2, <3>3 DEF CountInv, Period
  <2>5. CASE val # 0
    <3>1. Restarts' = Restarts
      BY <2>1, <2>2, <2>3, <2>5 DEF Restarts, Behind
    <3>2. Restarts * Period \in Int
      BY <2>3 DEF Restarts, Period
    <3> QED
      BY <2>2, <2>5, <3>1, <3>2 DEF CountInv, Period
  <2> QED
    BY <2>4, <2>5
<1> QED
  BY <1>1, <1>2, <1>3

LEMMA CallTime == Room /\ IInv /\ TInv /\ Call => TInv'
<1> SUFFICES ASSUME Room, IInv, TInv, Call
             PROVE  TInv'
  OBVIOUS
<1>1. ASSUME NEW n, NEW us, Begin(n, us), us * FacUs + MaxGap < Word
      PROVE  TInv'
  BY <1>1 DEF Begin, TInv, GapInv, RoomInv, CountInv, Wanted
<1>2. CASE \E n \in UsCalls : DelayUs(n)
  BY <1>1, <1>2 DEF DelayUs, Room
<1>3. CASE \E n \in MsCalls : DelayMs(n)
  BY <1>1, <1>3 DEF DelayMs, Room
<1>4. CASE \E n \in HalCalls : HALDelay(n)
  BY <1>1, <1>4 DEF HALDelay, Room
<1> QED
  BY <1>2, <1>3, <1>4 DEF Call

LEMMA EnterTime == Room /\ IInv /\ TInv /\ Enter => TInv'
<1> SUFFICES ASSUME Room, IInv, TInv, Enter
             PROVE  TInv'
  OBVIOUS
<1> USE DEF IInv, TypeOK, Enter, TInv
<1>1. GapInv' /\ RoomInv'
  BY DEF GapInv, RoomInv, Wanted
<1>2. Behind' = 0 /\ Restarts' = 0
  BY DEF Behind, Restarts, Lost
<1>3. ticks' \in Nat
  BY EnterStepInv DEF TypeOK
<1>4. CountInv'
  BY <1>2, <1>3 DEF CountInv, Period
<1> QED
  BY <1>1, <1>4

(* A look counts the gap, but for one tick if it has seen a restart, and   *)
(* never comes to the end of the word.                                     *)
LEMMA LookTime == Room /\ IInv /\ TInv /\ Look => TInv'
<1> SUFFICES ASSUME Room, IInv, TInv, Look
             PROVE  TInv'
  OBVIOUS
<1> USE DEF IInv, TypeOK, TInv
<1>1. GapInv'
  BY DEF Look, GapInv
<1>2. RoomInv'
  BY DEF Look, RoomInv, Wanted
<1>3. CountInv'
  <2> SUFFICES ASSUME pc' = "loop"
               PROVE  /\ Behind' = gap'
                      /\ tcnt' <= ticks'
                      /\ spent' + val' - Restarts' * Period \in 0..Reload
    BY DEF CountInv, Period
  <2>1. /\ Behind = gap /\ tcnt <= ticks /\ gap <= MaxGap /\ ticks + MaxGap < Word
        /\ spent + val - Restarts * Period \in 0..Reload
    BY DEF Look, CountInv, GapInv, RoomInv, LoopInv
  <2>2. gap' = 0 /\ UNCHANGED <<val, ticks, spent>> /\ told' = val
    BY DEF Look
  <2>3. Behind' = 0
    BY <2>2 DEF Behind
  <2>4. CASE val = told
    <3>1. tcnt' = tcnt /\ gap = 0
      BY <2>1, <2>4 DEF Look, Behind
    <3>2. Restarts' = Restarts
      BY <2>2, <2>4, <3>1 DEF Restarts, Lost
    <3> QED
      BY <2>1, <2>2, <2>3, <3>1, <3>2
  <2>5. CASE val # told
    <3>1. Passed(val) \in Nat /\ Passed(val) = gap - (IF val > told THEN 1 ELSE 0)
      BY <2>1, <2>5 DEF Passed, Behind
    <3>2. tcnt + Passed(val) \in Nat /\ tcnt + Passed(val) < Word
      BY <2>1, <3>1
    <3>3. tcnt' = tcnt + Passed(val)
      <4> DEFINE total == tcnt + Passed(val)
      <4>1. tcnt' = total % Word
        BY <2>5 DEF Look
      <4> HIDE DEF total
      <4>2. total \in Nat /\ total < Word
        BY <3>2 DEF total
      <4>3. tcnt' = total
        BY <4>1, <4>2, ModBounds
      <4> QED
        BY <4>3 DEF total
    <3>4. Restarts' = Restarts
      BY <2>2, <3>1, <3>3 DEF Restarts, Lost
    <3>5. tcnt' <= ticks
      BY <2>5, <3>2, <3>3 DEF Look, LastWait
    <3> QED
      BY <2>1, <2>2, <2>3, <3>4, <3>5
  <2> QED
    BY <2>4, <2>5
<1> QED
  BY <1>1, <1>2, <1>3

LEMMA ReturnTime == Return => TInv'
BY DEF Return, TInv, GapInv, RoomInv, CountInv

LEMMA TimeStep == Room /\ IInv /\ TInv /\ [Next]_vars => TInv'
<1>1. TInv /\ UNCHANGED vars => TInv'
  BY DEF TInv, GapInv, RoomInv, CountInv, Wanted, Behind, Restarts, Lost, Period, vars
<1> QED
  BY <1>1, TickTime, CallTime, EnterTime, LookTime, ReturnTime DEF Next

(* So many restarts fit into the time that has passed. *)
LEMMA TimeBound == IInv /\ TInv => Punctual
<1> SUFFICES ASSUME IInv, TInv, pc = "loop"
             PROVE  spent <= ticks + MaxGap + 1 + spent \div (Reload + 1)
  BY DEF Punctual
<1> USE DEF IInv, TypeOK, TInv
<1>1. Restarts \in Int /\ Restarts >= Lost /\ Lost \in Int
  BY DEF Restarts, Lost
<1>2. Period \in Nat \ {0}
  BY DEF Period
<1>3. Restarts * Period <= spent + Period - 1
  <2>1. Restarts * Period \in Int
    BY <1>1, <1>2
  <2> QED
    BY <2>1 DEF CountInv, Period
<1>4. Restarts <= spent \div Period + 1
  BY <1>1, <1>2, <1>3, RestartsBound
<1>5. spent \div Period \in Int
  BY <1>2
<1>6. tcnt <= ticks /\ gap <= MaxGap
  BY DEF CountInv, GapInv
<1>7. spent <= ticks + MaxGap + 1 + spent \div Period
  BY <1>1, <1>4, <1>5, <1>6 DEF Lost
<1> QED
  BY <1>7 DEF Period

(* delay_us ends with the first look after its time: each restart of the   *)
(* counter costs it one tick and nothing else does.                        *)
THEOREM ReturnsInTime == ASSUME Room PROVE Spec => []Punctual
<1>1. Init => TInv
  BY InitTime
<1>2. IInv /\ TInv /\ [Next]_vars => TInv'
  BY Room, TimeStep
<1>3. IInv /\ TInv => Punctual
  BY TimeBound
<1>4. Spec => []IInv
  BY Invariance
<1> QED
  BY <1>1, <1>2, <1>3, <1>4, PTL DEF Spec
=============================================================================
