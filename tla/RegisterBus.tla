---------------------------- MODULE RegisterBus ----------------------------
(***************************************************************************)
(* What the software I2C promises its callers, without lines and bits.     *)
(* A call writes or reads consecutive registers of a chip one byte after   *)
(* the other.  The chip may turn a deaf ear to a call before its first     *)
(* byte: then a send changes nothing, and a receive leaves the caller's    *)
(* data alone or fills it with ones.  The caller is not told.  The chip    *)
(* changes registers of its own accord, and while the bus is down they may *)
(* hold anything.                                                          *)
(***************************************************************************)
EXTENDS Naturals, Sequences

CONSTANTS
  Address,  \* of a register
  Byte,     \* what it holds
  Own,      \* the registers the chip itself changes
  Ones,     \* a byte of a bus nobody drives
  None      \* no call

VARIABLES
  up,      \* the bus has been initialised
  regs,    \* the chip's registers
  job,     \* the call in progress, or None
  deaf,    \* the chip does not listen to it
  moved,   \* bytes the chip has stored or fetched for it
  answer   \* bytes the caller has got

vars == <<up, regs, job, deaf, moved, answer>>

Init ==
  /\ up = FALSE /\ job = None /\ deaf = FALSE
  /\ moved = <<>> /\ answer = <<>>
  /\ regs \in [Address -> Byte]

Request ==
  /\ up /\ job = None
  /\ job' # None
  /\ UNCHANGED <<up, regs, deaf, moved, answer>>

TurnDeaf ==
  /\ job # None /\ moved = <<>> /\ answer = <<>>
  /\ deaf' = TRUE
  /\ UNCHANGED <<up, regs, job, moved, answer>>

Listening(op) == job # None /\ job.op = op /\ ~deaf /\ Len(moved) < job.size

Store ==
  /\ Listening("send")
  /\ LET k == Len(moved)
     IN  /\ moved' = Append(moved, job.bytes[k + 1])
         /\ regs' = [regs EXCEPT ![job.reg + k] = job.bytes[k + 1]]
  /\ UNCHANGED <<up, job, deaf, answer>>

Fetch ==
  /\ Listening("receive")
  /\ moved' = Append(moved, regs[job.reg + Len(moved)])
  /\ UNCHANGED <<up, regs, job, deaf, answer>>

Deliver ==
  /\ job # None /\ job.op = "receive" /\ Len(answer) < job.size
  /\ \/ /\ deaf
        /\ answer' = Append(answer, Ones)
     \/ /\ ~deaf /\ Len(answer) < Len(moved)
        /\ answer' = Append(answer, moved[Len(answer) + 1])
  /\ UNCHANGED <<up, regs, job, deaf, moved>>

Complete == Len(IF job.op = "send" THEN moved ELSE answer) = job.size

Return ==
  /\ job # None
  /\ Complete \/ (deaf /\ answer = <<>>)
  /\ job' = None /\ deaf' = FALSE /\ moved' = <<>> /\ answer' = <<>>
  /\ UNCHANGED <<up, regs>>

(* The chip's own doing. *)
Report ==
  /\ regs' \in [Address -> Byte]
  /\ \A a \in Address \ Own : regs'[a] = regs[a]
  /\ UNCHANGED <<up, job, deaf, moved, answer>>

GoDown ==
  /\ up' = FALSE /\ regs' \in [Address -> Byte]
  /\ job' = None /\ deaf' = FALSE /\ moved' = <<>> /\ answer' = <<>>

ComeUp == ~up /\ up' = TRUE /\ UNCHANGED <<regs, job, deaf, moved, answer>>

Next == Request \/ TurnDeaf \/ Store \/ Fetch \/ Deliver \/ Return
        \/ Report \/ GoDown \/ ComeUp

Spec == Init /\ [][Next]_vars
============================================================================
