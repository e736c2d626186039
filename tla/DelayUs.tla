------------------------------ MODULE DelayUs ------------------------------
(***************************************************************************)
(* The busy waits of delay.c: delay_us adds up differences of the SysTick  *)
(* counter, which counts down and starts again at LOAD, in 32 bits;        *)
(* delay_ms and HAL_Delay repeat it.  The counter runs whatever the CPU    *)
(* does, and interrupts and other tasks hold the CPU back between two      *)
(* looks at it, for up to MaxGap ticks.                                    *)
(***************************************************************************)
EXTENDS Integers

CONSTANTS
  Word,      \* 2^32, the range of a uint32_t
  HalfWord,  \* 2^16, the range of delay_ms's argument
  Reload,    \* SysTick->LOAD
  FacUs,     \* g_fac_us: ticks of a microsecond
  MsUs,      \* 1000: microseconds of a millisecond
  UsCalls, MsCalls, HalCalls,  \* arguments of delay_us, delay_ms, HAL_Delay
  MaxGap     \* ticks between two steps of the CPU in the wait

ASSUME WordAssumption   == Word \in Nat \ {0} /\ HalfWord \in Nat \ {0}
ASSUME ReloadAssumption == Reload \in 1..(Word - 1)
ASSUME FacAssumption    == FacUs \in Nat \ {0} /\ MsUs \in Nat \ {0}
ASSUME GapAssumption    == MaxGap \in Nat
(* The range the comment on delay_us gives, 0 to 2^32 / g_fac_us. *)
ASSUME UsAssumption == /\ UsCalls \subseteq Nat /\ MsUs * FacUs < Word
                       /\ \A n \in UsCalls : n * FacUs < Word
ASSUME MsAssumption == MsCalls \subseteq Nat /\ HalCalls \subseteq Nat
                       /\ \A n \in MsCalls \cup HalCalls : n < HalfWord

VARIABLES
  val,      \* SysTick->VAL
  pc,       \* "idle", "enter", "loop", "done"
  nus,      \* argument of delay_us
  left,     \* calls of delay_us still to return
  ticks, told, tcnt,  \* locals of delay_us
  gap,      \* ticks since the CPU's last step
  spent,    \* history: ticks since delay_us first looked at the counter
  elapsed,  \* history: ticks since the caller's call
  asked     \* history: ticks the caller asked for

vars == <<val, pc, nus, left, ticks, told, tcnt, gap, spent, elapsed, asked>>

-----------------------------------------------------------------------------
Init ==
  /\ val \in 0..Reload
  /\ pc = "idle" /\ nus = 0 /\ left = 0
  /\ ticks = 0 /\ told = 0 /\ tcnt = 0
  /\ gap = 0 /\ spent = 0 /\ elapsed = 0 /\ asked = 0

(* SysTick: down to 0, then from LOAD again. *)
Tick ==
  /\ val' = IF val = 0 THEN Reload ELSE val - 1
  /\ IF pc = "idle" THEN UNCHANGED <<gap, spent, elapsed>>
     ELSE gap < MaxGap /\ gap' = gap + 1 /\ spent' = spent + 1 /\ elapsed' = elapsed + 1
  /\ UNCHANGED <<pc, nus, left, ticks, told, tcnt, asked>>

(* n waits of us microseconds. *)
Begin(n, us) ==
  /\ pc = "idle"
  /\ pc' = IF n = 0 THEN "done" ELSE "enter"
  /\ left' = n /\ nus' = us
  /\ elapsed' = 0 /\ gap' = 0 /\ asked' = n * (us * FacUs)
  /\ UNCHANGED <<val, ticks, told, tcnt, spent>>

DelayUs(n)  == Begin(1, n)
DelayMs(n)  == Begin(n, MsUs)
HALDelay(n) == Begin(n % HalfWord, MsUs)

(* delay_us up to its loop. *)
Enter ==
  /\ pc = "enter"
  /\ ticks' = (nus * FacUs) % Word
  /\ told' = val /\ tcnt' = 0
  /\ spent' = 0 /\ gap' = 0
  /\ pc' = "loop"
  /\ UNCHANGED <<val, nus, left, elapsed, asked>>

\* faulty: told and tnow are swapped where the counter has started again
PassedSwapped(tnow) == IF tnow < told THEN told - tnow ELSE Reload - told + tnow

\* faulty: only the way down is counted
PassedDownOnly(tnow) == IF tnow < told THEN told - tnow ELSE 0

(* What is added to tcnt. *)
Passed(tnow) == IF tnow < told THEN told - tnow ELSE Reload - tnow + told

\* faulty: the loop of delay_ms runs once too often
LastPassed == left = 0

(* It was the last delay_us of the call. *)
LastWait == left = 1

(* One turn of the loop. *)
Look ==
  /\ pc = "loop"
  /\ gap' = 0
  /\ IF val = told
     THEN UNCHANGED <<pc, left, told, tcnt>>
     ELSE /\ told' = val
          /\ tcnt' = (tcnt + Passed(val)) % Word
          /\ IF tcnt' >= ticks
             THEN /\ left' = left - 1
                  /\ pc' = IF LastWait THEN "done" ELSE "enter"
             ELSE UNCHANGED <<pc, left>>
  /\ UNCHANGED <<val, nus, ticks, spent, elapsed, asked>>

Return ==
  /\ pc = "done"
  /\ pc' = "idle"
  /\ elapsed' = 0 /\ spent' = 0 /\ asked' = 0 /\ nus' = 0
  /\ ticks' = 0 /\ told' = 0 /\ tcnt' = 0 /\ gap' = 0
  /\ UNCHANGED <<val, left>>

Call ==
  \/ \E n \in UsCalls : DelayUs(n)
  \/ \E n \in MsCalls : DelayMs(n)
  \/ \E n \in HalCalls : HALDelay(n)

Next == Tick \/ Call \/ Enter \/ Look \/ Return
Spec == Init /\ [][Next]_vars

-----------------------------------------------------------------------------
(* Types; tcnt and ticks are 32 bits wide.                                 *)
TypeOK ==
  /\ val \in 0..Reload /\ told \in 0..Reload
  /\ pc \in {"idle", "enter", "loop", "done"}
  /\ nus \in Nat /\ left \in Nat
  /\ ticks \in 0..(Word - 1) /\ tcnt \in 0..(Word - 1)
  /\ gap \in Nat /\ spent \in Nat /\ elapsed \in Nat /\ asked \in Nat

(* A wait is never shorter than the caller asked for, however the looks at *)
(* the counter fall, also when whole periods of it are missed.             *)
NeverShort == pc = "done" => elapsed >= asked

(* delay_us ends with the first look after its time, but for one tick it   *)
(* loses each time the counter starts again.  So every wait has an end.    *)
Punctual ==
  pc = "loop" => spent <= ticks + MaxGap + 1 + spent \div (Reload + 1)
=============================================================================
