------------------------------- MODULE SwI2C -------------------------------
(***************************************************************************)
(* The bit-banged I2C master of sw_i2c.c, wire by wire.  A bus call of     *)
(* i2c_bus_send or i2c_bus_receive is a sequence of calls of the static    *)
(* functions; each of those is a sequence of line operations, performed    *)
(* one a step.  Both lines are open drain: a line is low when anyone pulls *)
(* it.  The chip sees every edge at once, but takes its time to move SDA;  *)
(* io_delay is long enough for that.                                       *)
(*                                                                         *)
(* The chip is not part of the repository.  It is modelled by the I2C      *)
(* register protocol the calls rely on, and may ignore its address at any  *)
(* START.  It does not stretch the clock: the master never reads SCL.      *)
(***************************************************************************)
EXTENDS Integers, Sequences, SequencesExt

CONSTANTS
  Bits,     \* bits of a byte, 8 in the code
  Tries,    \* 200: looks at SDA in sw_i2c_wait_ack
  DevAddr,  \* the chip's address with the write bit; plus one reads
  None      \* no bus call

ASSUME BitsAssumption    == Bits \in Nat /\ Bits >= 2
ASSUME TriesAssumption   == Tries \in Nat
ASSUME DevAddrAssumption == DevAddr \in Nat /\ DevAddr % 2 = 0 /\ DevAddr + 1 < 2^Bits

VARIABLES
  scl,    \* the master's level of the clock line
  sdaM,   \* the master's level of the data line
  sdaC,   \* the chip's level of the data line
  todo,   \* calls of static functions still to be made, the current one first
  step,   \* the line operation it is at
  try,    \* try of sw_i2c_wait_ack
  nack,   \* what sw_i2c_wait_ack returned
  byte,   \* byte of sw_i2c_receive
  data,   \* what the caller's array has got
  call,   \* the bus call in progress
  chip,   \* the chip's side of the protocol
  regs,   \* its registers
  deaf,   \* history: it ignored its own address in this call
  moved   \* history: the bytes it stored or fetched for this call

master  == <<todo, step, try, nack, byte, data>>
history == <<deaf, moved>>
wires   == <<scl, sdaM, sdaC>>
i2cVars == <<scl, sdaM, sdaC, todo, step, try, nack, byte, data, call, chip,
             regs, deaf, moved>>

Byte    == 0..(2^Bits - 1)
Ones    == 2^Bits - 1
Address == 0..(2^(2 * Bits) - 1)

Line(a, b) == IF a = 1 /\ b = 1 THEN 1 ELSE 0
SDA == Line(sdaM, sdaC)

(* The i-th bit of a byte, the most significant one first. *)
Bit(b, i) == (b \div 2^(Bits - i)) % 2

-----------------------------------------------------------------------------
(***************************************************************************)
(* The static functions as sequences of line operations.                   *)
(***************************************************************************)
Clk(v) == <<"clk", v>>
Sda(v) == <<"sda", v>>
Delay  == <<"delay">>
Look   == <<"look">>    \* the loop of sw_i2c_wait_ack
Sample == <<"sample">>  \* if (io_sda_in()) byte++
Keep   == <<"keep">>    \* the byte is stored in the caller's array
Check  == <<"check">>   \* if (sw_i2c_wait_ack() != 0) stop and return

Pulse == <<Delay, Clk(1), Delay, Clk(0), Delay>>

StartOps == <<Clk(1), Sda(1), Delay, Sda(0), Delay, Clk(0), Delay>>
StopOps  == <<Sda(0), Delay, Clk(1), Delay, Sda(1), Delay>>

\* faulty: the least significant bit goes first
SendLowFirst(b) ==
  FlattenSeq([i \in 1..Bits |-> <<Sda((b \div 2^(i - 1)) % 2)>> \o Pulse]) \o <<Sda(1)>>

SendOps(b) == FlattenSeq([i \in 1..Bits |-> <<Sda(Bit(b, i))>> \o Pulse]) \o <<Sda(1)>>

WaitAckOps == <<Sda(1), Delay, Clk(1), Delay, Look, Clk(0), Delay>>

\* faulty: SDA is let go before the clock has fallen
AckTooShort == <<Sda(0), Delay, Clk(1), Delay, Sda(1), Clk(0), Delay>>

AckOps  == <<Sda(0)>> \o Pulse \o <<Sda(1)>>
NackOps == <<Sda(1)>> \o Pulse

\* faulty: every byte is acknowledged, the last one too
ReceiveAcking(ack) ==
  FlattenSeq([i \in 1..Bits |-> <<Clk(1), Delay, Sample, Clk(0), Delay>>])
    \o AckOps \o <<Keep>>

ReceiveOps(ack) ==
  FlattenSeq([i \in 1..Bits |-> <<Clk(1), Delay, Sample, Clk(0), Delay>>])
    \o (IF ack = 1 THEN AckOps ELSE NackOps) \o <<Keep>>

(* io_init: the pins become outputs whose latches are low, SCL first. *)
PinOps == <<Clk(0), Sda(0)>>

Ops(f) ==
  CASE f[1] = "pins"     -> PinOps
    [] f[1] = "start"    -> StartOps
    [] f[1] = "stop"     -> StopOps
    [] f[1] = "send"     -> SendOps(f[2])
    [] f[1] = "wait_ack" -> WaitAckOps
    [] f[1] = "check"    -> <<Check>>
    [] f[1] = "receive"  -> ReceiveOps(f[2])
    [] f[1] = "reset"    -> <<<<"reset">>>>

-----------------------------------------------------------------------------
(***************************************************************************)
(* The bus calls as sequences of function calls.                           *)
(***************************************************************************)
Start      == <<"start">>
Stop       == <<"stop">>
WaitAck    == <<"wait_ack">>
Send(b)    == <<"send", b>>
Receive(a) == <<"receive", a>>

(* The parts both share: START, the address, the register.  The register   *)
(* address is two bytes, reg_addr_type 1, as in every call of gt911.c.     *)
Select(reg) ==
  <<Start, Send(DevAddr), WaitAck, <<"check">>,
    Send(reg \div 2^Bits), WaitAck, Send(reg % 2^Bits), WaitAck>>

BusSend(reg, bytes) ==
  Select(reg) \o FlattenSeq([i \in 1..Len(bytes) |-> <<Send(bytes[i]), WaitAck>>])
    \o <<Stop>>

\* faulty: the loop runs to size, not to size - 1
ReceiveOneMore(reg, size) ==
  Select(reg) \o <<Stop, Start, Send(DevAddr + 1), WaitAck>>
    \o [i \in 1..size |-> Receive(1)] \o <<Receive(0), Stop>>

BusReceive(reg, size) ==
  Select(reg) \o <<Stop, Start, Send(DevAddr + 1), WaitAck>>
    \o [i \in 1..(size - 1) |-> Receive(1)] \o <<Receive(0), Stop>>

-----------------------------------------------------------------------------
(***************************************************************************)
(* The chip.  n counts the clock pulses of the byte, shift holds its bits, *)
(* want is the level it is about to give SDA.                              *)
(***************************************************************************)
Quiet == [phase |-> "idle", n |-> 0, shift |-> 0, ptr |-> 0, want |-> 1, more |-> FALSE]

(* A rising clock: the chip takes a bit, or the master's acknowledge. *)
ChipRise(sda) ==
  /\ chip' = IF chip.phase \in {"idle", "ignore"} THEN chip
             ELSE [chip EXCEPT !.n = @ + 1,
                     !.shift = IF chip.phase = "read" \/ chip.n = Bits THEN @ ELSE 2 * @ + sda,
                     !.more = (chip.phase = "read" /\ chip.n = Bits /\ sda = 0)]
  /\ UNCHANGED regs

Take(next, ptr) == chip' = [chip EXCEPT !.phase = next, !.want = 0, !.ptr = ptr]
Retire(phase)   == chip' = [Quiet EXCEPT !.phase = phase, !.ptr = chip.ptr]
Following(ptr)  == (ptr + 1) % 2^(2 * Bits)

(* A byte has arrived: the chip acknowledges it, or ignores its address. *)
ByteComplete ==
  /\ \/ /\ chip.phase = "address"
        /\ \/ chip.shift = DevAddr /\ Take("high", chip.ptr)
           \/ chip.shift = DevAddr + 1 /\ Take("fetch", chip.ptr)
           \/ Retire("ignore")
     \/ chip.phase = "high" /\ Take("low", chip.shift * 2^Bits)
     \/ chip.phase = "low" /\ Take("store", chip.ptr + chip.shift)
     \/ chip.phase = "store" /\ Take("store", Following(chip.ptr))
  /\ regs' = IF chip.phase = "store" THEN [regs EXCEPT ![chip.ptr] = chip.shift] ELSE regs

(* It puts the next register on the line, first bit first. *)
Fetch ==
  /\ chip' = [Quiet EXCEPT !.phase = "read", !.shift = regs[chip.ptr],
                           !.want = Bit(regs[chip.ptr], 1), !.ptr = Following(chip.ptr)]
  /\ UNCHANGED regs

ChipFall ==
  CASE chip.phase \in {"address", "high", "low", "store"} /\ chip.n = Bits -> ByteComplete
    [] chip.n > Bits /\ (chip.phase = "fetch" \/ chip.more) -> Fetch
    [] OTHER ->
         /\ \/ chip.n > Bits /\ chip.phase = "read" /\ Retire("ignore")
            \/ chip.n > Bits /\ chip.phase # "read"
                 /\ chip' = [chip EXCEPT !.n = 0, !.shift = 0, !.want = 1]
            \/ chip.n \in 1..Bits /\ chip.phase = "read"
                 /\ chip' = [chip EXCEPT !.want = IF chip.n = Bits THEN 1
                                                  ELSE Bit(chip.shift, chip.n + 1)]
            \/ (chip.n = 0 \/ (chip.n <= Bits /\ chip.phase # "read")) /\ UNCHANGED chip
         /\ UNCHANGED regs

(* The history of the call follows from the chip's step. *)
Remember ==
  IF call' = None THEN deaf' = FALSE /\ moved' = <<>>
  ELSE /\ deaf' = (deaf \/ (/\ chip.phase = "address" /\ chip'.phase = "ignore"
                             /\ chip.shift \in {DevAddr, DevAddr + 1}))
       /\ moved' = IF chip.phase = "store" /\ chip'.ptr # chip.ptr
                     THEN Append(moved, chip.shift)
                   ELSE IF chip'.phase = "read" /\ chip'.n = 0 /\ chip.n > 0
                     THEN Append(moved, chip'.shift)
                   ELSE moved

(* What the chip makes of the lines when the master has moved them.  SDA   *)
(* falls while SCL is high: START.  It rises: STOP.                        *)
ChipSees ==
  /\ LET sda2 == Line(sdaM', sdaC)
     IN  CASE scl = 0 /\ scl' = 1               -> ChipRise(sda2)
           [] scl = 1 /\ scl' = 0               -> ChipFall
           [] scl = 1 /\ scl' = 1 /\ SDA > sda2 -> Retire("address") /\ UNCHANGED regs
           [] scl = 1 /\ scl' = 1 /\ SDA < sda2 -> Retire("idle") /\ UNCHANGED regs
           [] OTHER                             -> UNCHANGED <<chip, regs>>
  /\ Remember

(* Some time later it moves SDA. *)
ChipDrives ==
  /\ sdaC # chip.want
  /\ sdaC' = chip.want
  /\ UNCHANGED <<scl, sdaM, master, call, chip, regs, history>>

-----------------------------------------------------------------------------
(***************************************************************************)
(* The master's steps.                                                     *)
(***************************************************************************)
Current == Head(todo)
Op      == Ops(Current)[step]

(* The next operation, or the next function when this one has returned. *)
Advance == IF step < Len(Ops(Current))
           THEN step' = step + 1 /\ UNCHANGED todo
           ELSE step' = 1 /\ todo' = Tail(todo)

At(name) == todo # <<>> /\ Op[1] = name

SetLine ==
  /\ \/ At("clk") /\ scl' = Op[2] /\ UNCHANGED sdaM
     \/ At("sda") /\ sdaM' = Op[2] /\ UNCHANGED scl
  /\ Advance
  /\ UNCHANGED <<sdaC, try, nack, byte, data, call>>
  /\ ChipSees

(* The delay is over when the chip has done what it is about to do. *)
Wait ==
  /\ At("delay")
  /\ sdaC = chip.want
  /\ Advance
  /\ UNCHANGED <<wires, try, nack, byte, data, call, chip, regs, history>>

\* faulty: the tries are not counted
LookForever ==
  /\ At("look")
  /\ IF SDA = 0 THEN nack' = FALSE /\ Advance ELSE UNCHANGED <<todo, step, nack>>
  /\ UNCHANGED <<wires, try, byte, data, call, chip, regs, history>>

(* One look at SDA in sw_i2c_wait_ack. *)
LookForAck ==
  /\ At("look")
  /\ \/ SDA = 0 /\ try' = 0 /\ nack' = FALSE /\ Advance
     \/ SDA # 0 /\ try + 1 > Tries /\ try' = 0 /\ nack' = TRUE /\ Advance
     \/ SDA # 0 /\ try + 1 <= Tries /\ try' = try + 1 /\ UNCHANGED <<nack, todo, step>>
  /\ UNCHANGED <<wires, byte, data, call, chip, regs, history>>

SampleBit ==
  /\ At("sample")
  /\ byte' = (2 * byte + SDA) % 2^Bits
  /\ Advance
  /\ UNCHANGED <<wires, try, nack, data, call, chip, regs, history>>

KeepByte ==
  /\ At("keep")
  /\ data' = Append(data, byte) /\ byte' = 0
  /\ Advance
  /\ UNCHANGED <<wires, try, nack, call, chip, regs, history>>

(* Nobody answered the address: stop, and return. *)
CheckAck ==
  /\ At("check")
  /\ todo' = IF nack THEN <<Stop>> ELSE Tail(todo)
  /\ step' = 1
  /\ UNCHANGED <<wires, try, nack, byte, data, call, chip, regs, history>>

(* A bus call begins with these locals; what it leaves in the caller's    *)
(* array is the caller's when it ends.                                     *)
Begin(c) ==
  /\ call = None /\ todo = <<>>
  /\ call' = c
  /\ todo' = IF c.op = "send" THEN BusSend(c.reg, c.bytes) ELSE BusReceive(c.reg, c.size)
  /\ step' = 1
  /\ UNCHANGED <<wires, try, nack, byte, data, chip, regs, history>>

End ==
  /\ call # None /\ todo = <<>>
  /\ call' = None /\ data' = <<>> /\ deaf' = FALSE /\ moved' = <<>>
  /\ UNCHANGED <<wires, todo, step, try, nack, byte, chip, regs>>
============================================================================
