------------------------------- MODULE SdDisk -------------------------------
(***************************************************************************)
(* The SD card driver under FatFs: disk_read and disk_write of diskio.c,   *)
(* SD_Read_Disk and SD_Write_Disk of sd_app.c and their interrupt          *)
(* callbacks.  A request goes through the bounce buffer align4_buf in      *)
(* pieces; the SDMMC's own DMA moves a piece between the card and memory   *)
(* behind the data cache, and an interrupt tells the polling task.         *)
(*                                                                         *)
(* The buffer is cacheable.  Its lines may be filled by speculation and    *)
(* evicted at any moment, so both are steps.  FatFs holds the volume's     *)
(* mutex across a request: there is one client.                            *)
(*                                                                         *)
(* The loop over whole buffers and the code for the rest repeat each other *)
(* up to their error numbers, and diskio.c maps every number to RES_ERROR: *)
(* one loop and one error stand for both.                                  *)
(***************************************************************************)
EXTENDS Integers, Sequences

CONSTANTS
  NBlocks,  \* LogBlockNbr: blocks of the card
  Chunk,    \* SDIO_DMA_ALIGN4_BUF_BLOCKS: blocks of align4_buf
  Value,    \* contents of a block
  Counts,   \* numbers of blocks FatFs asks for
  Timeout,  \* SD_RW_TIMEOUT: polls of the card state in one request
  Absent    \* what a cache line holds that is not in the cache

ASSUME NBlocksAssumption == NBlocks \in Nat \ {0}
ASSUME ChunkAssumption   == Chunk \in Nat \ {0}
ASSUME CountsAssumption  == Counts \subseteq Nat \ {0}
ASSUME TimeoutAssumption == Timeout \in Nat \ {0}
ASSUME AbsentAssumption  == Absent \notin Value

VARIABLES
  card,       \* content of each block of the card
  cardReady,  \* the card is in its transfer state, not programming
  hal,        \* hsd->State
  moved,      \* blocks the DMA has moved in the transfer that runs
  ram,        \* align4_buf in memory
  line,       \* align4_buf in the data cache
  dirty,      \* blocks of it the cache has yet to write back
  rxCplt,     \* SDRxCplt
  txCplt,     \* SDTxCplt
  error,      \* SDError
  pc,         \* where the request is
  op,         \* which function runs
  addr,       \* Block_addr as it was passed
  data,       \* pBuff, one value a block
  done,       \* blocks of it already transferred
  polls,      \* timeout
  result      \* "ok" for errorcode 0

buffer  == <<ram, line, dirty>>
flags   == <<rxCplt, txCplt, error>>
medium  == <<card, cardReady>>
request == <<op, addr, data>>
vars    == <<card, cardReady, hal, moved, ram, line, dirty, rxCplt, txCplt,
             error, pc, op, addr, data, done, polls, result>>

Block == 0..(NBlocks - 1)
Slot  == 0..(Chunk - 1)

(* Blocks of the piece in hand: a whole buffer, or LeftBlocks at the end. *)
Piece == IF Len(data) - done < Chunk THEN Len(data) - done ELSE Chunk

(* The piece's blocks inside the buffer. *)
Slots == 0..(Piece - 1)

(* What the CPU reads from align4_buf. *)
Seen(i) == IF line[i] = Absent THEN ram[i] ELSE line[i]

-----------------------------------------------------------------------------
(***************************************************************************)
(* The task.                                                               *)
(***************************************************************************)
Locals(o, a, d) ==
  /\ op' = o /\ addr' = a /\ data' = d
  /\ done' = 0 /\ polls' = Timeout /\ result' = "ok"

Call(o, a, d) ==
  /\ pc = "idle"
  /\ Locals(o, a, d)
  /\ pc' = IF o = "read" THEN "poll" ELSE "load"
  /\ UNCHANGED <<medium, hal, moved, buffer, flags>>

ReadDisk(a, n)  == Call("read", a, [k \in 1..n |-> Absent])
WriteDisk(a, d) == Call("write", a, d)

Finish(r) == pc' = "return" /\ result' = r

(* memcpy into align4_buf: the CPU writes to its cache. *)
Load ==
  /\ pc = "load"
  /\ line' = [i \in Slot |-> IF i \in Slots THEN data[done + i + 1] ELSE line[i]]
  /\ dirty' = dirty \cup Slots
  /\ pc' = "clean"
  /\ UNCHANGED <<medium, hal, moved, ram, flags, request, done, polls, result>>

\* faulty: the cache is left to write back when it likes
LeaveDirty ==
  /\ pc = "clean"
  /\ pc' = "poll"
  /\ UNCHANGED <<medium, hal, moved, buffer, flags, request, done, polls, result>>

(* SCB_CleanDCache_by_Addr over the piece. *)
Clean ==
  /\ pc = "clean"
  /\ ram' = [i \in Slot |-> IF i \in Slots \cap dirty THEN line[i] ELSE ram[i]]
  /\ dirty' = dirty \ Slots
  /\ pc' = "poll"
  /\ UNCHANGED <<medium, hal, moved, line, flags, request, done, polls, result>>

(* HAL_SD_GetCardState says the card is in its transfer state. *)
PollReady ==
  /\ pc = "poll"
  /\ cardReady
  /\ pc' = "reset"
  /\ UNCHANGED <<medium, hal, moved, buffer, flags, request, done, polls, result>>

\* faulty: the count of polls is not looked at
PollForever ==
  /\ pc = "poll"
  /\ polls' = polls - 1
  /\ UNCHANGED <<medium, hal, moved, buffer, flags, request, pc, done, result>>

(* It says another state, or its command failed.  The count goes on from   *)
(* piece to piece.                                                         *)
PollBusy ==
  /\ pc = "poll"
  /\ polls' = polls - 1
  /\ IF polls = 1 THEN Finish("error") ELSE UNCHANGED <<pc, result>>
  /\ UNCHANGED <<medium, hal, moved, buffer, flags, request, done>>

(* SDRxCplt = 0 or SDTxCplt = 0, and SDError = 0. *)
Reset ==
  /\ pc = "reset"
  /\ error' = FALSE
  /\ IF op = "read" THEN rxCplt' = FALSE /\ UNCHANGED txCplt
                    ELSE txCplt' = FALSE /\ UNCHANGED rxCplt
  /\ pc' = "start"
  /\ UNCHANGED <<medium, hal, moved, buffer, request, done, polls, result>>

(* HAL_SD_ReadBlocks_DMA and HAL_SD_WriteBlocks_DMA. *)
InRange == addr + done + Piece <= NBlocks

Start ==
  /\ pc = "start"
  /\ hal = "ready" /\ InRange
  /\ hal' = "busy"
  /\ pc' = "wait"
  /\ UNCHANGED <<medium, moved, buffer, flags, request, done, polls, result>>

(* HAL_BUSY, HAL_ERROR for a bad range, HAL_ERROR for a failed command. *)
StartFails ==
  /\ pc = "start"
  /\ Finish("error")
  /\ UNCHANGED <<medium, hal, moved, buffer, flags, request, done, polls>>

Complete == IF op = "read" THEN rxCplt ELSE txCplt

(* The code after a piece: the next one, or the end of the request. *)
NextPiece ==
  /\ done' = done + Piece
  /\ IF done' = Len(data) THEN Finish("ok")
     ELSE /\ pc' = IF op = "read" THEN "poll" ELSE "load"
          /\ UNCHANGED result

\* faulty: gives up on a transfer that takes too long
FailedOrSlow ==
  /\ pc = "wait"
  /\ Finish("error")
  /\ UNCHANGED <<medium, hal, moved, buffer, flags, request, done, polls>>

(* while (!SDRxCplt && !SDError), with no timeout; then SDError first. *)
Failed ==
  /\ pc = "wait" /\ error
  /\ Finish("error")
  /\ UNCHANGED <<medium, hal, moved, buffer, flags, request, done, polls>>

Written ==
  /\ pc = "wait" /\ op = "write"
  /\ Complete /\ ~error
  /\ NextPiece
  /\ UNCHANGED <<medium, hal, moved, buffer, flags, request, polls>>

Received ==
  /\ pc = "wait" /\ op = "read"
  /\ Complete /\ ~error
  /\ pc' = "copy"
  /\ UNCHANGED <<medium, hal, moved, buffer, flags, request, done, polls, result>>

(* memcpy out of align4_buf. *)
Copy ==
  /\ pc = "copy"
  /\ data' = [k \in 1..Len(data) |->
                IF k - done - 1 \in Slots THEN Seen(k - done - 1) ELSE data[k]]
  /\ NextPiece
  /\ UNCHANGED <<medium, hal, moved, buffer, flags, op, addr, polls>>

(* The locals are gone, so they go back to what they were in Init.         *)
Return ==
  /\ pc = "return"
  /\ pc' = "idle"
  /\ Locals("read", 0, << >>)
  /\ UNCHANGED <<medium, hal, moved, buffer, flags>>

-----------------------------------------------------------------------------
(***************************************************************************)
(* The SDMMC, its interrupt and the card.                                  *)
(***************************************************************************)
DmaMove ==
  /\ hal = "busy" /\ moved < Piece
  /\ moved' = moved + 1
  /\ LET b == addr + done + moved IN
       IF op = "read"
       THEN ram' = [ram EXCEPT ![moved] = card[b]] /\ UNCHANGED card
       ELSE card' = [card EXCEPT ![b] = ram[moved]] /\ UNCHANGED ram
  /\ UNCHANGED <<cardReady, hal, line, dirty, flags, pc, request, done, polls, result>>

\* faulty: lines filled during the transfer stay
KeepLines == UNCHANGED <<line, dirty>>

(* SCB_InvalidateDCache_by_Addr in BSP_SD_RxCpltCallback. *)
Invalidate == line' = [i \in Slot |-> Absent] /\ dirty' = {}

(* DATAEND: for several blocks a failed stop command calls the error       *)
(* callback too, then the transfer-complete callback comes all the same.   *)
DmaEnd ==
  /\ hal = "busy" /\ moved = Piece
  /\ hal' = "ready" /\ moved' = 0
  /\ error' \in {error, error \/ Piece > 1}
  /\ IF op = "read"
     THEN rxCplt' = TRUE /\ Invalidate /\ UNCHANGED <<txCplt, cardReady>>
     ELSE txCplt' = TRUE /\ cardReady' = FALSE /\ UNCHANGED <<rxCplt, line, dirty>>
  /\ UNCHANGED <<card, ram, pc, request, done, polls, result>>

\* faulty: no callback is registered for errors
DmaErrorUnreported ==
  /\ hal = "busy"
  /\ hal' = "ready" /\ moved' = 0
  /\ cardReady' = FALSE
  /\ UNCHANGED <<card, buffer, flags, pc, request, done, polls, result>>

(* CRC, data timeout, overrun or underrun. *)
DmaError ==
  /\ hal = "busy"
  /\ hal' = "ready" /\ moved' = 0
  /\ error' = TRUE
  /\ cardReady' = FALSE
  /\ UNCHANGED <<card, buffer, rxCplt, txCplt, pc, request, done, polls, result>>

CardReady ==
  /\ ~cardReady
  /\ cardReady' = TRUE
  /\ UNCHANGED <<card, hal, moved, buffer, flags, pc, request, done, polls, result>>

(* The cache on its own. *)
Fill(i) ==
  /\ line[i] = Absent
  /\ line' = [line EXCEPT ![i] = ram[i]]
  /\ UNCHANGED <<medium, hal, moved, ram, dirty, flags, pc, request, done, polls, result>>

Evict(i) ==
  /\ line[i] # Absent
  /\ ram' = IF i \in dirty THEN [ram EXCEPT ![i] = line[i]] ELSE ram
  /\ line' = [line EXCEPT ![i] = Absent]
  /\ dirty' = dirty \ {i}
  /\ UNCHANGED <<medium, hal, moved, flags, pc, request, done, polls, result>>

-----------------------------------------------------------------------------
Init ==
  /\ card \in [Block -> Value] /\ cardReady = TRUE
  /\ hal = "ready" /\ moved = 0
  /\ \E zero \in Value : ram = [i \in Slot |-> zero]
  /\ line = [i \in Slot |-> Absent] /\ dirty = {}
  /\ rxCplt = FALSE /\ txCplt = FALSE /\ error = FALSE
  /\ pc = "idle" /\ op = "read" /\ addr = 0 /\ data = << >>
  /\ done = 0 /\ polls = Timeout /\ result = "ok"

TaskStep ==
  \/ Load
  \/ Clean
  \/ PollReady
  \/ PollBusy
  \/ Reset
  \/ Start
  \/ StartFails
  \/ Failed
  \/ Written
  \/ Received
  \/ Copy
  \/ Return

DmaStep ==
  \/ DmaMove
  \/ DmaEnd
  \/ DmaError

Next ==
  \/ \E a \in Block, n \in Counts :
       \/ ReadDisk(a, n)
       \/ \E d \in [1..n -> Value] : WriteDisk(a, d)
  \/ TaskStep
  \/ DmaStep
  \/ CardReady
  \/ \E i \in Slot : Fill(i) \/ Evict(i)

Spec == Init /\ [][Next]_vars

(***************************************************************************)
(* The task runs, and a transfer that was started moves on: the SDMMC ends *)
(* it by itself or after its data timeout.  That the card ever leaves its  *)
(* programming state is not assumed.                                       *)
(***************************************************************************)
FairSpec == Spec /\ WF_vars(TaskStep) /\ WF_vars(DmaStep)

-----------------------------------------------------------------------------
(***************************************************************************)
(* Properties.                                                             *)
(***************************************************************************)

(* Every variable has its type.                                            *)
TypeOK ==
  /\ card \in [Block -> Value] /\ cardReady \in BOOLEAN
  /\ hal \in {"ready", "busy"} /\ moved \in 0..Chunk
  /\ ram \in [Slot -> Value] /\ line \in [Slot -> Value \cup {Absent}]
  /\ dirty \subseteq Slot
  /\ rxCplt \in BOOLEAN /\ txCplt \in BOOLEAN /\ error \in BOOLEAN
  /\ pc \in {"idle", "load", "clean", "poll", "reset", "start", "wait",
             "copy", "return"}
  /\ op \in {"read", "write"} /\ addr \in Block
  /\ data \in Seq(Value \cup {Absent}) /\ done \in 0..Len(data)
  /\ polls \in 0..Timeout /\ result \in {"ok", "error"}

(* While the DMA works on align4_buf the cache holds nothing it could      *)
(* still write over it, and for a write memory holds the caller's blocks.  *)
BufferHandedOver ==
  hal = "busy" =>
    /\ dirty = {}
    /\ op = "write" => \A i \in Slots : ram[i] = data[done + i + 1]

(* The polling loop without a timeout never waits for a transfer that has  *)
(* ended: the reset of the flags cannot have wiped out its report.         *)
NoLostCompletion == pc = "wait" /\ hal = "ready" => error \/ Complete

(* No request returns, whatever went wrong, with its transfer still        *)
(* running in the buffer the next request uses.                            *)
TransferOwned == hal = "busy" => pc = "wait"

(* Every request returns, even if the card stays busy for ever.            *)
CallReturns == pc # "idle" ~> pc = "idle"

(***************************************************************************)
(* The strengthening from which the invariants above are proved.           *)
(***************************************************************************)
InRequest == pc \notin {"idle", "return"}

(* A flag that is set belongs to the transfer that was started last. *)
FlagsClear == pc = "start" \/ hal = "busy" => ~error /\ ~Complete

RequestInv ==
  /\ InRequest => done < Len(data) /\ polls > 0
  /\ pc \in {"load", "clean"} => op = "write"
  /\ pc = "copy" => op = "read"
  /\ op = "write" => data \in Seq(Value)

TransferInv ==
  /\ TransferOwned
  /\ NoLostCompletion
  /\ FlagsClear
  /\ IF hal = "busy" THEN moved <= Piece /\ InRange ELSE moved = 0

(* From Load to Clean a block of the piece is in its line or, if the line  *)
(* was evicted, in memory; after Clean it is in memory.                    *)
BufferInv ==
  /\ dirty # {} => pc = "clean" /\ dirty \subseteq Slots
  /\ pc = "clean" =>
       \A i \in Slots : (IF i \in dirty THEN line[i] ELSE ram[i]) = data[done + i + 1]
  /\ op = "write" /\ pc \in {"poll", "reset", "start", "wait"} =>
       \A i \in Slots : ram[i] = data[done + i + 1]

IInv == TypeOK /\ RequestInv /\ TransferInv /\ BufferInv

Asked ==
  IF pc = "idle" THEN [op |-> "none"]
  ELSE [op |-> op, addr |-> addr, n |-> Len(data),
        data |-> IF op = "write" THEN data ELSE << >>]

Answer ==
  IF pc # "return" THEN [op |-> "none"]
  ELSE [ok |-> result = "ok",
        data |-> IF op = "read" /\ result = "ok" THEN data ELSE << >>]

Medium == INSTANCE Disk WITH stored <- card, request <- Asked, reply <- Answer

(* Through cache, bounce buffer and interrupts, FatFs sees a disk: RES_OK  *)
(* means the blocks were read or stored, RES_ERROR leaves the others alone.*)
ImplementsDisk == Medium!Spec

=============================================================================
