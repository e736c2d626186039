----------------------------- MODULE TouchPanel -----------------------------
(***************************************************************************)
(* The touch panel: gt911.c over the software I2C, called as LVGL calls it *)
(* (touchpad_init, then touchpad_read again and again).  The processor may *)
(* be reset at any step, also in the middle of a byte; the chip is not     *)
(* reset with it, and touch_init has to bring both together again.         *)
(***************************************************************************)
EXTENDS SwI2C

CONSTANTS
  COMMAND, VERSION, PID1, STATUS, TRACKID1,  \* GT9XX_... register addresses
  InfoSize,   \* bytes of GT911_Info
  PointSize,  \* sizeof(TouchPointInfo)
  Coordinate  \* what a finger puts into a register of the first point

\* A block of registers ends below the last address.
ASSUME RegisterAssumption ==
  /\ \A reg \in {COMMAND, VERSION, STATUS} : reg \in Nat /\ reg + 1 \in Address
  /\ PID1 \in Nat /\ PID1 + InfoSize \in Address
  /\ TRACKID1 \in Nat /\ TRACKID1 + PointSize \in Address
ASSUME CoordinateAssumption == Coordinate \subseteq Byte
ASSUME SizeAssumption     == InfoSize \in Nat \ {0} /\ PointSize \in Nat \ {0}

VARIABLES
  pc,      \* "off", "boot", the bus call of the driver that is next or runs, or "idle"
  pressed  \* touch_is_pressed

vars == <<scl, sdaM, sdaC, todo, step, try, nack, byte, data, call, chip, regs,
          deaf, moved, pc, pressed>>

Point == TRACKID1..(TRACKID1 + PointSize - 1)

(* STATUS of a report: the top bit says it is new, the low half counts points. *)
New        == 2^(Bits - 1) + 1
Points(b)  == b % 2^(Bits \div 2)

(* touch_init has reset the chip. *)
Up == pc \notin {"off", "boot"}

(* The registers after the chip's reset; the identification is not zero. *)
Defaults == [a \in Address |-> IF a \in {VERSION} \cup PID1..(PID1 + InfoSize - 1)
                               THEN a % 2^Bits ELSE 0]

-----------------------------------------------------------------------------
Init ==
  /\ scl = 1 /\ sdaM = 1 /\ sdaC = 1
  /\ todo = <<>> /\ step = 1 /\ try = 0 /\ nack = FALSE /\ byte = 0 /\ data = <<>>
  /\ call = None
  /\ chip = Quiet /\ regs = Defaults
  /\ deaf = FALSE /\ moved = <<>>
  /\ pc = "off" /\ pressed = FALSE

\* faulty: the chip is not reset
InitBusOnly ==
  /\ pc = "off"
  /\ pc' = "boot"
  /\ todo' = <<<<"pins">>, Stop>>
  /\ UNCHANGED <<wires, step, try, nack, byte, data, call, chip, regs, history, pressed>>

(* touch_init: sw_i2c_init, then the reset line of the chip. *)
TouchInit ==
  /\ pc = "off"
  /\ pc' = "boot"
  /\ todo' = <<<<"pins">>, Stop, <<"reset">>>>
  /\ UNCHANGED <<wires, step, try, nack, byte, data, call, chip, regs, history, pressed>>

(* RST low and high again, with INT low for the address 0xBA. *)
ResetChip ==
  /\ At("reset")
  /\ chip' = Quiet /\ sdaC' = 1 /\ regs' = Defaults
  /\ Advance
  /\ UNCHANGED <<scl, sdaM, try, nack, byte, data, call, history, pc, pressed>>

Booted ==
  /\ pc = "boot" /\ todo = <<>>
  /\ pc' = "command"
  /\ UNCHANGED <<i2cVars, pressed>>

SendCall(reg, bytes) ==
  [op |-> "send", reg |-> reg, bytes |-> bytes, size |-> Len(bytes)]
ReceiveCall(reg, size) ==
  [op |-> "receive", reg |-> reg, size |-> size]

(* The bus calls of touch_init, touch_is_pressed and touch_read. *)
CallOf == [command |-> SendCall(COMMAND, <<1>>),
           version |-> ReceiveCall(VERSION, 1),
           product |-> ReceiveCall(PID1, InfoSize),
           status  |-> ReceiveCall(STATUS, 1),
           clear   |-> SendCall(STATUS, <<0>>),
           point   |-> ReceiveCall(TRACKID1, PointSize)]

ASSUME NoneAssumption == \A c \in DOMAIN CallOf : CallOf[c] # None

BeginCall ==
  /\ pc \in DOMAIN CallOf
  /\ Begin(CallOf[pc])
  /\ UNCHANGED <<pc, pressed>>

(* dat is 0 when nothing was received. *)
StatusRead == IF data = <<>> THEN FALSE ELSE Points(data[1]) # 0

(* The call returns and the driver goes on.  STATUS is cleared before the  *)
(* point is read, and only for a press is it read.                         *)
EndCall ==
  /\ End
  /\ pc' = CASE pc = "command" -> "version"
             [] pc = "version" -> "product"
             [] pc = "product" -> "idle"
             [] pc = "status"  -> "clear"
             [] pc = "clear"   -> IF pressed THEN "point" ELSE "idle"
             [] pc = "point"   -> "idle"
  /\ pressed' = IF pc = "status" THEN StatusRead ELSE pressed

TouchpadRead ==
  /\ pc = "idle" /\ call = None
  /\ pc' = "status"
  /\ UNCHANGED <<i2cVars, pressed>>

MasterStep ==
  /\ \/ SetLine \/ Wait \/ LookForAck \/ SampleBit \/ KeepByte \/ CheckAck
  /\ UNCHANGED <<pc, pressed>>

Driver == TouchInit \/ ResetChip \/ Booted \/ BeginCall \/ EndCall \/ MasterStep

Drive == ChipDrives /\ UNCHANGED <<pc, pressed>>

(* A new report, once the host has cleared the last one. *)
Report ==
  /\ Up
  /\ regs[STATUS] = 0
  /\ \E r \in [Point -> Coordinate] :
       regs' = [a \in Address |-> IF a = STATUS THEN New
                                  ELSE IF a \in Point THEN r[a]
                                  ELSE regs[a]]
  /\ UNCHANGED <<wires, master, call, chip, history, pc, pressed>>

(* The processor is reset: its pins become inputs, both lines go high as   *)
(* far as the chip lets them, and memory starts afresh.                    *)
Crash ==
  /\ Up
  /\ scl' = 1 /\ sdaM' = 1 /\ UNCHANGED sdaC
  /\ todo' = <<>> /\ step' = 1 /\ try' = 0 /\ nack' = FALSE /\ byte' = 0 /\ data' = <<>>
  /\ call' = None /\ pc' = "off" /\ pressed' = FALSE
  /\ ChipSees

Next == Driver \/ Drive \/ TouchpadRead \/ Report \/ Crash

Spec     == Init /\ [][Next]_vars
FairSpec == Spec /\ WF_vars(Driver) /\ WF_vars(Drive)

-----------------------------------------------------------------------------
Functions == {"pins", "start", "stop", "send", "wait_ack", "check", "receive", "reset"}

(* Types.  No call stores more in the caller's array than it was given.    *)
TypeOK ==
  /\ {scl, sdaM, sdaC} \subseteq {0, 1}
  /\ \A i \in DOMAIN todo : todo[i][1] \in Functions
  /\ step \in Nat \ {0} /\ (todo # <<>> => step <= Len(Ops(Current)))
  /\ try \in 0..Tries /\ nack \in BOOLEAN /\ byte \in Byte
  /\ data \in Seq(Byte)
  /\ call # None => /\ call.size >= Len(moved)
                    /\ call.op = "receive" => call.size >= Len(data)
  /\ regs \in [Address -> Byte]
  /\ chip.n \in 0..(Bits + 1) /\ chip.shift \in Byte /\ chip.ptr \in Address
  /\ chip.want \in {0, 1} /\ chip.more \in BOOLEAN
  /\ chip.phase \in {"idle", "ignore", "address", "high", "low", "store", "fetch", "read"}
  /\ deaf \in BOOLEAN /\ moved \in Seq(Byte)
  /\ pc \in {"off", "boot", "idle"} \cup DOMAIN CallOf /\ pressed \in BOOLEAN

(* Between two bus calls both lines are high and the chip waits for a      *)
(* START, whatever call came before, whatever the chip ignored, and also   *)
(* after a reset of the processor in the middle of a byte.                 *)
BusFree == Up /\ call = None => scl = 1 /\ SDA = 1 /\ chip.phase = "idle"

(* Data changes only while the clock is low.  A change while it is high is *)
(* a START or STOP, so it happens in sw_i2c_start and sw_i2c_stop only,    *)
(* whichever of master and chip would cause it.                            *)
FramesOnly ==
  [][Up /\ Up' /\ scl = 1 /\ scl' = 1 /\ SDA' # SDA
       => todo # <<>> /\ Current \in {Start, Stop}]_vars

RB == INSTANCE RegisterBus WITH
        Own <- {STATUS} \cup Point, up <- Up, job <- call, answer <- data

(* Bit by bit, the calls do what RegisterBus says: bytes arrive whole, in  *)
(* order and once, each register is the one meant, and a call the chip     *)
(* does not answer has no effect on the chip.                              *)
ImplementsRegisterBus == RB!Spec

(* Every bus call returns, also when no chip answers: the polling of SDA   *)
(* has an end.                                                             *)
CallReturns == (call # None) ~> (call = None)
=============================================================================
