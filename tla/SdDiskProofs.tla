---------------------------- MODULE SdDiskProofs ----------------------------
(***************************************************************************)
(* Proofs about the SD card driver, for every size of card and buffer,     *)
(* number of polls and content of a block.                                 *)
(***************************************************************************)
EXTENDS SdDisk, TLAPS

USE NBlocksAssumption, ChunkAssumption, CountsAssumption, TimeoutAssumption,
    AbsentAssumption

(* What a request carries is a sequence of blocks. *)
LEMMA FunctionIsSeq ==
  ASSUME NEW S, NEW n \in Nat, NEW d \in [1..n -> S]
  PROVE  d \in Seq(S) /\ Len(d) = n
OBVIOUS

(* A piece fits the buffer and what is left of the request. *)
LEMMA PieceType ==
  ASSUME TypeOK
  PROVE  /\ Len(data) \in Nat /\ done \in Nat
         /\ Piece \in 0..Chunk
         /\ done + Piece <= Len(data)
         /\ done < Len(data) => Piece > 0
         /\ Slots \subseteq Slot
BY DEF TypeOK, Piece, Slots, Slot

(* After start-up no request runs and the cache holds nothing of the buffer. *)
LEMMA InitInv == Init => IInv
<1> SUFFICES ASSUME Init PROVE IInv
  OBVIOUS
<1>1. TypeOK
  <2>1. data \in Seq(Value \cup {Absent}) /\ Len(data) = 0
    BY DEF Init
  <2>2. line \in [Slot -> Value \cup {Absent}]
    BY DEF Init
  <2>3. 0 \in Block
    BY DEF Block
  <2> QED
    BY <2>1, <2>2, <2>3 DEF Init, TypeOK
<1>2. data \in Seq(Value)
  BY DEF Init
<1>3. RequestInv
  BY <1>2 DEF Init, RequestInv, InRequest
<1>4. TransferInv
  BY DEF Init, TransferInv, TransferOwned, NoLostCompletion, FlagsClear
<1>5. BufferInv
  BY DEF Init, BufferInv
<1> QED
  BY <1>1, <1>3, <1>4, <1>5 DEF IInv

-----------------------------------------------------------------------------
(* What the actions that neither touch the request nor the buffer leave.   *)
LEMMA PieceStable ==
  ASSUME UNCHANGED <<request, done>>
  PROVE  Piece' = Piece /\ Slots' = Slots /\ InRange' = InRange
BY DEF request, Piece, Slots, InRange

(* disk_read or disk_write is called. *)
LEMMA CallInv ==
  ASSUME IInv, NEW a \in Block, NEW n \in Counts,
         \/ ReadDisk(a, n)
         \/ \E d \in [1..n -> Value] : WriteDisk(a, d)
  PROVE  IInv'
<1>1. PICK o \in {"read", "write"}, d \in [1..n -> Value \cup {Absent}] :
        Call(o, a, d) /\ (o = "write" => d \in [1..n -> Value])
  <2>1. CASE ReadDisk(a, n)
    BY <2>1 DEF ReadDisk
  <2>2. CASE \E d \in [1..n -> Value] : WriteDisk(a, d)
    BY <2>2 DEF WriteDisk
  <2> QED
    BY <2>1, <2>2
<1>2. d \in Seq(Value \cup {Absent}) /\ Len(d) = n /\ n \in Nat \ {0}
  BY FunctionIsSeq
<1>3. o = "write" => d \in Seq(Value)
  BY <1>1, <1>2, FunctionIsSeq
<1>4. TypeOK'
  BY <1>1, <1>2 DEF IInv, TypeOK, Call, Locals, medium, buffer, flags
<1>5. RequestInv'
  BY <1>1, <1>2, <1>3 DEF RequestInv, InRequest, Call, Locals
<1>6. hal = "ready"
  BY <1>1 DEF IInv, TypeOK, TransferInv, TransferOwned, Call
<1>7. TransferInv'
  BY <1>1, <1>6 DEF IInv, TransferInv, TransferOwned, NoLostCompletion, FlagsClear, Call
<1>8. dirty = {} /\ dirty' = {}
  BY <1>1 DEF IInv, BufferInv, Call, buffer
<1>9. BufferInv'
  BY <1>1, <1>8 DEF BufferInv, Call, Locals
<1> QED
  BY <1>4, <1>5, <1>7, <1>9 DEF IInv

(* The steps of the task that leave the buffer and the request alone:      *)
(* polling, the reset of the flags, the start, the tests of the flags.     *)
LEMMA ControlInv ==
  ASSUME IInv,
         \/ PollReady \/ PollBusy \/ Reset \/ Start \/ StartFails
         \/ Failed \/ Received
  PROVE  IInv'
<1> USE DEF Finish, medium, buffer, flags
<1>1. UNCHANGED <<request, done, ram, line, dirty, moved, card, cardReady>>
  BY DEF PollReady, PollBusy, Reset, Start, StartFails, Failed, Received
<1>2. UNCHANGED <<op, addr, data>> /\ Piece' = Piece /\ Slots' = Slots /\ InRange' = InRange
  BY <1>1, PieceStable DEF request
<1>3. TypeOK /\ RequestInv /\ TransferInv /\ BufferInv
  BY DEF IInv
<1>4. TypeOK'
  <2>1. pc' \in {"idle", "load", "clean", "poll", "reset", "start", "wait",
                 "copy", "return"} /\ result' \in {"ok", "error"}
    BY <1>3 DEF TypeOK, PollReady, PollBusy, Reset, Start, StartFails, Failed, Received
  <2>2. polls' \in 0..Timeout
    BY <1>3 DEF TypeOK, RequestInv, InRequest, PollReady, PollBusy, Reset, Start, StartFails,
       Failed, Received
  <2>3. hal' \in {"ready", "busy"} /\ rxCplt' \in BOOLEAN /\ txCplt' \in BOOLEAN
        /\ error' \in BOOLEAN
    BY <1>3 DEF TypeOK, PollReady, PollBusy, Reset, Start, StartFails, Failed, Received
  <2> QED
    BY <1>1, <1>2, <1>3, <2>1, <2>2, <2>3 DEF TypeOK
<1>5. RequestInv'
  BY <1>1, <1>2, <1>3 DEF TypeOK, RequestInv, InRequest, PollReady, PollBusy, Reset,
     Start, StartFails, Failed, Received
<1>6. TransferInv'
  <2>1. TransferOwned'
    BY <1>3 DEF TypeOK, TransferInv, TransferOwned, FlagsClear, PollReady, PollBusy,
       Reset, Start, StartFails, Failed, Received
  <2>4. FlagsClear'
    BY <1>2, <1>3 DEF TypeOK, TransferInv, TransferOwned, FlagsClear, Complete, PollReady,
       PollBusy, Reset, Start, StartFails, Failed, Received
  <2>2. NoLostCompletion'
    BY <1>3 DEF TypeOK, TransferInv, NoLostCompletion, PollReady, PollBusy, Reset, Start,
       StartFails, Failed, Received
  <2>3. IF hal' = "busy" THEN moved' <= Piece' /\ InRange' ELSE moved' = 0
    BY <1>1, <1>2, <1>3, PieceType DEF TypeOK, TransferInv, PollReady, PollBusy, Reset,
       Start, StartFails, Failed, Received
  <2> QED
    BY <2>1, <2>2, <2>3, <2>4 DEF TransferInv
<1>7. BufferInv'
  BY <1>1, <1>2, <1>3 DEF BufferInv, PollReady, PollBusy, Reset, Start, StartFails,
     Failed, Received
<1> QED
  BY <1>4, <1>5, <1>6, <1>7 DEF IInv

(* The two steps that prepare a write. *)
LEMMA LoadInv == IInv /\ Load => IInv'
<1> SUFFICES ASSUME IInv, Load PROVE IInv'
  OBVIOUS
<1> USE DEF Load, medium, flags, request
<1>1. Piece' = Piece /\ Slots' = Slots
  BY PieceStable
<1>2. TypeOK /\ RequestInv /\ TransferInv /\ BufferInv
  BY DEF IInv
<1>3. op = "write" /\ hal = "ready" /\ dirty = {} /\ done < Len(data)
  BY <1>2 DEF TypeOK, RequestInv, InRequest, TransferInv, TransferOwned, BufferInv, Load, Clean
<1>4. \A i \in Slots : done + i + 1 \in 1..Len(data) /\ data[done + i + 1] \in Value
  BY <1>2, <1>3, PieceType DEF RequestInv, Slots
<1>5. line' \in [Slot -> Value \cup {Absent}] /\ dirty' \subseteq Slot
  BY <1>2, <1>4, PieceType DEF TypeOK
<1>6. TypeOK'
  BY <1>2, <1>5 DEF TypeOK
<1>7. RequestInv'
  BY <1>2, <1>3 DEF RequestInv, InRequest
<1>8. TransferInv'
  BY <1>2, <1>3 DEF TransferInv, TransferOwned, NoLostCompletion, FlagsClear
<1>9. BufferInv'
  BY <1>1, <1>2, <1>3, PieceType DEF BufferInv, TypeOK
<1> QED
  BY <1>6, <1>7, <1>8, <1>9 DEF IInv

(* The clean moves the piece from its dirty lines to memory. *)
LEMMA CleanInv == IInv /\ Clean => IInv'
<1> SUFFICES ASSUME IInv, Clean PROVE IInv'
  OBVIOUS
<1> USE DEF Clean, medium, flags, request
<1>1. Piece' = Piece /\ Slots' = Slots
  BY PieceStable
<1>2. TypeOK /\ RequestInv /\ TransferInv /\ BufferInv
  BY DEF IInv
<1>3. op = "write" /\ hal = "ready" /\ done < Len(data) /\ dirty \subseteq Slots
  BY <1>2 DEF TypeOK, RequestInv, InRequest, TransferInv, TransferOwned, BufferInv, Load, Clean
<1>4. \A i \in Slots : /\ data[done + i + 1] \in Value
                       /\ ram'[i] = data[done + i + 1]
  <2> SUFFICES ASSUME NEW i \in Slots
               PROVE  data[done + i + 1] \in Value /\ ram'[i] = data[done + i + 1]
    OBVIOUS
  <2>1. done + i + 1 \in 1..Len(data) /\ i \in Slot
    BY <1>2, <1>3, PieceType DEF Slots
  <2>2. ram'[i] = IF i \in dirty THEN line[i] ELSE ram[i]
    BY <2>1
  <2>3. (IF i \in dirty THEN line[i] ELSE ram[i]) = data[done + i + 1]
    BY <1>2 DEF BufferInv
  <2>4. data[done + i + 1] \in Value
    BY <1>2, <1>3, <2>1 DEF RequestInv
  <2> QED
    BY <2>2, <2>3, <2>4
<1>5. ram' \in [Slot -> Value] /\ dirty' = {}
  BY <1>2, <1>3, <1>4, PieceType DEF TypeOK
<1>6. TypeOK'
  BY <1>2, <1>5 DEF TypeOK
<1>7. RequestInv'
  BY <1>2, <1>3 DEF RequestInv, InRequest
<1>8. TransferInv'
  BY <1>2, <1>3 DEF TransferInv, TransferOwned, NoLostCompletion, FlagsClear
<1>9. BufferInv'
  BY <1>1, <1>2, <1>4, <1>5 DEF BufferInv
<1> QED
  BY <1>6, <1>7, <1>8, <1>9 DEF IInv

(* A piece is through: the request ends or goes on behind it. *)
LEMMA NextPieceInv ==
  ASSUME IInv, NextPiece, InRequest, UNCHANGED <<op, addr, polls>>,
         data' \in Seq(Value \cup {Absent}), Len(data') = Len(data),
         op = "write" => data' = data,
         hal = "ready", dirty = {},
         UNCHANGED <<medium, hal, moved, buffer, flags>>
  PROVE  IInv'
<1> USE DEF NextPiece, Finish, medium, buffer, flags
<1>1. TypeOK /\ RequestInv /\ TransferInv /\ BufferInv
  BY DEF IInv
<1>2. done' \in 0..Len(data) /\ (done' # Len(data) => done' < Len(data))
  BY <1>1, PieceType
<1>3. /\ pc' = IF done' = Len(data) THEN "return" ELSE IF op = "read" THEN "poll" ELSE "load"
      /\ result' \in {"ok", "error"}
  <2>1. done' = done + Piece
    OBVIOUS
  <2> QED
    BY <1>1, <2>1 DEF TypeOK, NextPiece
<1>4. TypeOK'
  BY <1>1, <1>2, <1>3 DEF TypeOK
<1>5. RequestInv'
  BY <1>1, <1>2, <1>3 DEF TypeOK, RequestInv, InRequest
<1>6. TransferInv'
  BY <1>1, <1>3 DEF TransferInv, TransferOwned, NoLostCompletion, FlagsClear
<1>7. BufferInv'
  BY <1>1, <1>3 DEF BufferInv
<1> QED
  BY <1>4, <1>5, <1>6, <1>7 DEF IInv

(* A piece of a write is on the card. *)
LEMMA WrittenInv == IInv /\ Written => IInv'
<1> SUFFICES ASSUME IInv, Written PROVE IInv'
  OBVIOUS
<1>1. /\ NextPiece /\ InRequest
      /\ UNCHANGED <<op, addr, data, polls, medium, hal, moved, buffer, flags>>
  BY DEF Written, request, InRequest
<1>2. hal = "ready" /\ dirty = {} /\ data \in Seq(Value \cup {Absent})
  BY DEF Written, IInv, TypeOK, TransferInv, FlagsClear, BufferInv
<1> QED
  BY <1>1, <1>2, NextPieceInv

(* A piece of a read is copied to the caller. *)
LEMMA CopyInv == IInv /\ Copy => IInv'
<1> SUFFICES ASSUME IInv, Copy PROVE IInv'
  OBVIOUS
<1> DEFINE copied == [k \in 1..Len(data) |->
                        IF k - done - 1 \in Slots THEN Seen(k - done - 1) ELSE data[k]]
<1>1. /\ NextPiece /\ InRequest /\ data' = copied
      /\ UNCHANGED <<op, addr, polls, medium, hal, moved, buffer, flags>>
  BY DEF Copy, InRequest
<1>2. hal = "ready" /\ dirty = {} /\ op = "read"
  BY DEF Copy, IInv, TypeOK, RequestInv, TransferInv, TransferOwned, BufferInv
<1>3. TypeOK
  BY DEF IInv
<1>4. \A i \in Slot : Seen(i) \in Value \cup {Absent}
  BY <1>3 DEF TypeOK, Seen
<1>5. Len(data) \in Nat /\ \A k \in 1..Len(data) : data[k] \in Value \cup {Absent}
  BY <1>3 DEF TypeOK
<1>6. copied \in [1..Len(data) -> Value \cup {Absent}]
  BY <1>3, <1>4, <1>5, PieceType
<1>7. copied \in Seq(Value \cup {Absent}) /\ Len(copied) = Len(data)
  BY <1>5, <1>6, FunctionIsSeq
<1> HIDE DEF copied
<1> QED
  BY <1>1, <1>2, <1>7, NextPieceInv

(* The function returns. *)
LEMMA ReturnInv == IInv /\ Return => IInv'
<1> SUFFICES ASSUME IInv, Return PROVE IInv'
  OBVIOUS
<1> USE DEF Return, Locals, medium, buffer, flags
<1>1. TypeOK /\ RequestInv /\ TransferInv /\ BufferInv
  BY DEF IInv
<1>2. hal = "ready" /\ dirty = {} /\ 0 \in Block
  BY <1>1 DEF TypeOK, TransferInv, TransferOwned, BufferInv, Block
<1>3. data' \in Seq(Value) /\ data' \in Seq(Value \cup {Absent}) /\ Len(data') = 0
  OBVIOUS
<1>4. TypeOK'
  BY <1>1, <1>2, <1>3 DEF TypeOK
<1>5. RequestInv'
  BY <1>3 DEF RequestInv, InRequest
<1>6. TransferInv'
  BY <1>1, <1>2 DEF TransferInv, TransferOwned, NoLostCompletion, FlagsClear
<1>7. BufferInv'
  BY <1>2 DEF BufferInv
<1> QED
  BY <1>4, <1>5, <1>6, <1>7 DEF IInv

-----------------------------------------------------------------------------
(* The DMA, its interrupt, the card and the cache. *)
LEMMA DmaMoveInv == IInv /\ DmaMove => IInv'
<1> SUFFICES ASSUME IInv, DmaMove PROVE IInv'
  OBVIOUS
<1> USE DEF DmaMove, flags, request
<1>1. Piece' = Piece /\ Slots' = Slots /\ InRange' = InRange
  BY PieceStable
<1>2. TypeOK /\ RequestInv /\ TransferInv /\ BufferInv
  BY DEF IInv
<1>3. moved \in Slot /\ addr + done + moved \in Block /\ moved' \in 0..Chunk /\ moved' <= Piece
  BY <1>2, PieceType DEF TypeOK, TransferInv, InRange, Slot, Block
<1>4. ram' \in [Slot -> Value] /\ card' \in [Block -> Value]
  <2>1. CASE op = "read"
    BY <1>2, <1>3, <2>1 DEF TypeOK
  <2>2. CASE op = "write"
    BY <1>2, <1>3, <2>2 DEF TypeOK
  <2> QED
    BY <1>2, <2>1, <2>2 DEF TypeOK
<1>5. TypeOK'
  BY <1>2, <1>3, <1>4 DEF TypeOK
<1>6. RequestInv'
  BY <1>2 DEF RequestInv, InRequest
<1>7. TransferInv'
  BY <1>1, <1>2, <1>3 DEF TransferInv, TransferOwned, NoLostCompletion, FlagsClear, Complete
<1>8. pc = "wait" /\ (op = "write" => ram' = ram)
  BY <1>2 DEF TransferInv, TransferOwned
<1>9. BufferInv'
  BY <1>1, <1>2, <1>8 DEF BufferInv
<1> QED
  BY <1>5, <1>6, <1>7, <1>9 DEF IInv

(* The interrupt ends the transfer, whatever came of it. *)
LEMMA DmaStopInv == IInv /\ (DmaEnd \/ DmaError) => IInv'
<1> SUFFICES ASSUME IInv, DmaEnd \/ DmaError PROVE IInv'
  OBVIOUS
<1> USE DEF Invalidate, buffer, request
<1>1. UNCHANGED <<request, done>> /\ UNCHANGED <<card, ram, pc, polls, result>>
  BY DEF DmaEnd, DmaError
<1>2. Piece' = Piece /\ Slots' = Slots
  BY <1>1, PieceStable
<1>3. TypeOK /\ RequestInv /\ TransferInv /\ BufferInv
  BY DEF IInv
<1>4. pc = "wait" /\ hal' = "ready" /\ moved' = 0 /\ (error' \/ Complete')
  BY <1>3 DEF TransferInv, TransferOwned, Complete, DmaEnd, DmaError
<1>5. /\ error' \in BOOLEAN /\ rxCplt' \in BOOLEAN /\ txCplt' \in BOOLEAN
      /\ cardReady' \in BOOLEAN
  BY <1>3 DEF TypeOK, DmaEnd, DmaError
<1>6. line' \in [Slot -> Value \cup {Absent}] /\ dirty' \subseteq dirty
  BY <1>3 DEF TypeOK, DmaEnd, DmaError
<1>7. TypeOK'
  BY <1>1, <1>3, <1>4, <1>5, <1>6 DEF TypeOK
<1>8. RequestInv'
  BY <1>1, <1>3 DEF RequestInv, InRequest
<1>9. TransferInv'
  BY <1>1, <1>4 DEF TransferInv, TransferOwned, NoLostCompletion, FlagsClear
<1>10. BufferInv'
  BY <1>1, <1>2, <1>3, <1>4, <1>6 DEF BufferInv
<1> QED
  BY <1>7, <1>8, <1>9, <1>10 DEF IInv

(* The card leaves its programming state. *)
LEMMA CardReadyInv == IInv /\ CardReady => IInv'
<1> SUFFICES ASSUME IInv, CardReady PROVE IInv'
  OBVIOUS
<1> USE DEF CardReady, buffer, flags, request
<1>1. Piece' = Piece /\ Slots' = Slots /\ InRange' = InRange
  BY PieceStable
<1> QED
  BY <1>1 DEF IInv, TypeOK, RequestInv, InRequest, TransferInv, TransferOwned,
     NoLostCompletion, FlagsClear, Complete, BufferInv

(* The cache fills or evicts a line; a dirty line keeps its bytes in memory. *)
LEMMA CacheInv ==
  ASSUME IInv, NEW i \in Slot, Fill(i) \/ Evict(i)
  PROVE  IInv'
<1> USE DEF medium, flags, request
<1>1. UNCHANGED <<request, done, medium, hal, moved, flags, pc, polls, result>>
  BY DEF Fill, Evict
<1>2. Piece' = Piece /\ Slots' = Slots /\ InRange' = InRange
  BY <1>1, PieceStable
<1>3. TypeOK /\ RequestInv /\ TransferInv /\ BufferInv
  BY DEF IInv
<1>4. /\ ram' \in [Slot -> Value] /\ line' \in [Slot -> Value \cup {Absent}]
      /\ dirty' \subseteq dirty
  <2>1. CASE Fill(i)
    BY <1>3, <2>1 DEF Fill, TypeOK
  <2>2. CASE Evict(i)
    <3>1. line[i] \in Value /\ ram[i] \in Value
      BY <1>3, <2>2 DEF Evict, TypeOK
    <3> QED
      BY <1>3, <2>2, <3>1 DEF Evict, TypeOK
  <2> QED
    BY <2>1, <2>2
<1>5. TypeOK'
  BY <1>1, <1>3, <1>4 DEF TypeOK
<1>6. RequestInv'
  BY <1>1, <1>3 DEF RequestInv, InRequest
<1>7. TransferInv'
  BY <1>1, <1>2, <1>3 DEF TransferInv, TransferOwned, NoLostCompletion, FlagsClear, Complete
<1>8. dirty = {} => ram' = ram
  BY <1>3 DEF Fill, Evict
<1>9. pc = "clean" =>
        \A k \in Slots : (IF k \in dirty' THEN line'[k] ELSE ram'[k])
                           = (IF k \in dirty THEN line[k] ELSE ram[k])
  <2> SUFFICES ASSUME pc = "clean", NEW k \in Slots
               PROVE  (IF k \in dirty' THEN line'[k] ELSE ram'[k])
                        = (IF k \in dirty THEN line[k] ELSE ram[k])
    OBVIOUS
  <2>1. k \in Slot /\ done + k + 1 \in 1..Len(data) /\ op = "write" /\ data \in Seq(Value)
    BY <1>3, PieceType DEF RequestInv, InRequest, Slots
  <2>2. k \in dirty => line[k] # Absent
    BY <1>3, <2>1 DEF BufferInv
  <2>3. CASE Fill(i)
    BY <1>3, <2>1, <2>2, <2>3 DEF Fill, TypeOK
  <2>4. CASE Evict(i)
    BY <1>3, <2>1, <2>4 DEF Evict, TypeOK
  <2> QED
    BY <2>3, <2>4
<1>10. BufferInv'
  BY <1>1, <1>2, <1>3, <1>4, <1>8, <1>9 DEF BufferInv
<1> QED
  BY <1>5, <1>6, <1>7, <1>10 DEF IInv

(* Every step of the task, the hardware and the cache keeps the invariant. *)
LEMMA NextInv == IInv /\ [Next]_vars => IInv'
<1> SUFFICES ASSUME IInv, [Next]_vars PROVE IInv'
  OBVIOUS
<1>1. ASSUME NEW a \in Block, NEW n \in Counts,
             \/ ReadDisk(a, n)
             \/ \E d \in [1..n -> Value] : WriteDisk(a, d)
      PROVE  IInv'
  BY <1>1, CallInv
<1>2. CASE TaskStep
  BY <1>2, ControlInv, LoadInv, CleanInv, WrittenInv, CopyInv, ReturnInv DEF TaskStep
<1>3. CASE DmaStep
  BY <1>3, DmaMoveInv, DmaStopInv DEF DmaStep
<1>4. CASE CardReady
  BY <1>4, CardReadyInv
<1>5. ASSUME NEW i \in Slot, Fill(i) \/ Evict(i) PROVE IInv'
  BY <1>5, CacheInv
<1>6. CASE UNCHANGED vars
  <2>1. Piece' = Piece /\ Slots' = Slots /\ InRange' = InRange
    BY <1>6, PieceStable DEF vars, request
  <2> QED
    BY <1>6, <2>1 DEF vars, IInv, TypeOK, RequestInv, InRequest, TransferInv,
       TransferOwned, NoLostCompletion, FlagsClear, Complete, BufferInv
<1> QED
  BY <1>1, <1>2, <1>3, <1>4, <1>5, <1>6 DEF Next

-----------------------------------------------------------------------------
(* The strengthening is an invariant of the driver. *)
THEOREM Invariance == Spec => []IInv
<1>1. Init => IInv
  BY InitInv
<1>2. IInv /\ [Next]_vars => IInv'
  BY NextInv
<1> QED
  BY <1>1, <1>2, PTL DEF Spec

(* Type correctness: no request makes an index leave the card or the       *)
(* bounce buffer, and the count of polls does not wrap.                    *)
THEOREM TypeCorrect == Spec => []TypeOK
<1>1. IInv => TypeOK
  BY DEF IInv
<1> QED
  BY <1>1, Invariance, PTL

(* SD_Write_Disk hands align4_buf to the DMA with everything in memory,    *)
(* and SD_Read_Disk with nothing left in the cache to write over it.       *)
THEOREM BufferIsHandedOver == Spec => []BufferHandedOver
<1>1. IInv => BufferHandedOver
  BY DEF IInv, TransferInv, TransferOwned, BufferInv, BufferHandedOver
<1> QED
  BY <1>1, Invariance, PTL

(* while (!SDRxCplt && !SDError) and its counterpart for writes never wait *)
(* for a transfer that has already ended.                                  *)
THEOREM CompletionsAreKept == Spec => []NoLostCompletion
<1>1. IInv => NoLostCompletion
  BY DEF IInv, TransferInv
<1> QED
  BY <1>1, Invariance, PTL

(* No return of SD_Read_Disk or SD_Write_Disk leaves a transfer running.   *)
THEOREM TransfersAreOwned == Spec => []TransferOwned
<1>1. IInv => TransferOwned
  BY DEF IInv, TransferInv
<1> QED
  BY <1>1, Invariance, PTL

-----------------------------------------------------------------------------
(***************************************************************************)
(* The SD card driver implements the disk FatFs relies on, for every size  *)
(* of card, buffer and request, whatever cache, card and transfers do.     *)
(***************************************************************************)

(* The blocks of the caller's array that are done agree with the card. *)
DoneInv ==
  /\ addr + done <= NBlocks
  /\ \A k \in 1..done : card[addr + k - 1] = data[k]
  /\ pc = "return" /\ result = "ok" => done = Len(data)

(* So far as the transfer has come, both of its ends agree. *)
Moved(i) == IF op = "read" THEN ram[i] = card[addr + done + i]
                           ELSE card[addr + done + i] = data[done + i + 1]

MovedInv == hal = "busy" => \A i \in 0..(moved - 1) : Moved(i)

(* A transfer without an error has moved the piece, and what the cache has *)
(* picked up of it since is what memory holds.                             *)
Arrived == pc = "copy" \/ (pc = "wait" /\ hal = "ready" /\ ~error)

ArrivedInv ==
  Arrived => /\ InRange
             /\ \A i \in Slots : Moved(i) /\ (op = "read" => Seen(i) = ram[i])

CardInv == DoneInv /\ MovedInv /\ ArrivedInv
-----------------------------------------------------------------------------
LEMMA InitCard == Init => CardInv
<1>1. Init => DoneInv
  BY DEF Init, DoneInv
<1>2. Init => MovedInv /\ ArrivedInv
  BY DEF Init, MovedInv, ArrivedInv, Arrived
<1> QED
  BY <1>1, <1>2 DEF CardInv

(* A call begins with nothing done. *)
LEMMA CallCard ==
  ASSUME IInv, NEW a \in Block, NEW n \in Counts,
         \/ ReadDisk(a, n)
         \/ \E d \in [1..n -> Value] : WriteDisk(a, d)
  PROVE  CardInv'
<1>1. /\ addr' = a /\ done' = 0 /\ hal' = "ready"
      /\ pc' \in {"poll", "load"}
  BY DEF IInv, TypeOK, TransferInv, TransferOwned, ReadDisk, WriteDisk, Call, Locals
<1>2. DoneInv'
  BY <1>1 DEF DoneInv, Block
<1>3. MovedInv' /\ ArrivedInv'
  BY <1>1 DEF MovedInv, ArrivedInv, Arrived
<1> QED
  BY <1>2, <1>3 DEF CardInv

(* The function returns and forgets the request. *)
LEMMA ReturnCard == IInv /\ Return => CardInv'
<1> SUFFICES ASSUME IInv, Return PROVE CardInv'
  OBVIOUS
<1>1. addr' = 0 /\ done' = 0 /\ hal' = "ready" /\ pc' = "idle"
  BY DEF IInv, TypeOK, TransferInv, TransferOwned, Return, Locals
<1>2. DoneInv'
  BY <1>1 DEF DoneInv
<1>3. MovedInv' /\ ArrivedInv'
  BY <1>1 DEF MovedInv, ArrivedInv, Arrived
<1> QED
  BY <1>2, <1>3 DEF CardInv

(* The steps of the task that move no data of the request. *)
LEMMA ControlCard ==
  ASSUME IInv, CardInv,
         \/ PollReady \/ PollBusy \/ Reset \/ Start \/ StartFails
         \/ Failed \/ Received \/ Load \/ Clean
  PROVE  CardInv'
<1> USE DEF Finish, medium, buffer, flags
<1>1. UNCHANGED <<request, done, card>> /\ UNCHANGED <<op, addr, data>>
  BY DEF PollReady, PollBusy, Reset, Start, StartFails, Failed, Received, Load, Clean, request
<1>2. Slots' = Slots /\ InRange' = InRange
  BY <1>1, PieceStable
<1>3. TypeOK /\ TransferInv /\ DoneInv /\ MovedInv /\ ArrivedInv
  BY DEF IInv, CardInv
<1>4. DoneInv'
  BY <1>1, <1>3 DEF DoneInv, PollReady, PollBusy, Reset, Start, StartFails, Failed, Received,
     Load, Clean
<1>5. MovedInv'
  <2>1. CASE hal = "busy"
    <3>1. UNCHANGED <<ram, moved>>
      BY <1>3, <2>1 DEF TransferInv, TransferOwned, PollReady, PollBusy, Reset, Start,
         StartFails, Failed, Received, Load, Clean
    <3> QED
      BY <1>1, <1>3, <2>1, <3>1 DEF MovedInv, Moved
  <2>2. CASE hal # "busy"
    <3>1. moved = 0 /\ moved' = 0
      BY <1>3, <2>2 DEF TransferInv, PollReady, PollBusy, Reset, Start, StartFails, Failed,
         Received, Load, Clean
    <3> QED
      BY <3>1 DEF MovedInv
  <2> QED
    BY <2>1, <2>2
<1>6. Arrived' => Received
  BY <1>3 DEF Arrived, TypeOK, PollReady, PollBusy, Reset, Start, StartFails, Failed, Received,
     Load, Clean
<1>7. ArrivedInv'
  <2> SUFFICES ASSUME Received PROVE ArrivedInv'
    BY <1>6 DEF ArrivedInv
  <2>1. Arrived /\ UNCHANGED <<ram, line>>
    BY <1>3 DEF Received, Arrived, TransferInv, FlagsClear, TypeOK
  <2> QED
    BY <1>1, <1>2, <1>3, <2>1 DEF ArrivedInv, Moved, Seen
<1> QED
  BY <1>4, <1>5, <1>7 DEF CardInv

(* A piece is through, and what has moved counts as done. *)
LEMMA NextPieceCard ==
  ASSUME IInv, CardInv, Written \/ Copy
  PROVE  CardInv'
<1>1. TypeOK /\ RequestInv /\ TransferInv /\ DoneInv /\ ArrivedInv
  BY DEF IInv, CardInv
<1>2. /\ UNCHANGED <<op, addr, card, hal>> /\ hal = "ready" /\ Arrived
      /\ done' = done + Piece
      /\ pc' \in {"return", "poll", "load"}
      /\ pc' = "return" => done' = Len(data)
  <2>1. CASE Written
    BY <1>1, <2>1 DEF Written, NextPiece, Finish, TypeOK, TransferInv, FlagsClear, Arrived,
       medium, request
  <2>2. CASE Copy
    BY <1>1, <2>2 DEF Copy, NextPiece, Finish, TypeOK, TransferInv, TransferOwned, Arrived, medium
  <2> QED
    BY <2>1, <2>2
<1>3. InRange /\ \A i \in Slots : Moved(i) /\ (op = "read" => Seen(i) = ram[i])
  BY <1>1, <1>2 DEF ArrivedInv
<1>4. Len(data) \in Nat /\ done \in Nat /\ Piece \in Nat /\ addr \in Nat
      /\ done + Piece <= Len(data)
  BY <1>1, PieceType DEF TypeOK, Block
<1>5. ASSUME NEW k \in 1..(done + Piece)
      PROVE  card[addr + k - 1] = data'[k]
  <2>1. k \in 1..Len(data) /\ (k \in 1..done <=> k - done - 1 \notin Slots)
    BY <1>4 DEF Slots
  <2>2. CASE k \in 1..done
    <3>1. data'[k] = data[k]
      BY <2>1, <2>2 DEF Written, Copy, request
    <3> QED
      BY <1>1, <2>2, <3>1 DEF DoneInv
  <2>3. CASE k \notin 1..done
    <3>1. k - done - 1 \in Slots /\ done + (k - done - 1) + 1 = k
          /\ addr + done + (k - done - 1) = addr + k - 1
      BY <1>4, <2>1, <2>3
    <3>2. Moved(k - done - 1) /\ (op = "read" => Seen(k - done - 1) = ram[k - done - 1])
      BY <1>3, <3>1
    <3>3. CASE Written
      BY <3>1, <3>2, <3>3 DEF Written, Moved, request
    <3>4. CASE Copy
      <4>1. op = "read" /\ data'[k] = Seen(k - done - 1)
        BY <1>1, <2>1, <3>1, <3>4 DEF Copy, RequestInv
      <4> QED
        BY <3>1, <3>2, <4>1 DEF Moved
    <3> QED
      BY <3>3, <3>4
  <2> QED
    BY <2>2, <2>3
<1>6. Len(data') = Len(data)
  BY <1>1 DEF Written, Copy, TypeOK, request
<1>7. DoneInv'
  BY <1>2, <1>3, <1>4, <1>5, <1>6 DEF DoneInv, InRange
<1> QED
  BY <1>2, <1>7 DEF CardInv, MovedInv, ArrivedInv, Arrived

-----------------------------------------------------------------------------
(* The DMA moves one more block of the piece. *)
LEMMA DmaMoveCard ==
  ASSUME IInv, CardInv, DmaMove
  PROVE  CardInv'
<1>1. TypeOK /\ TransferInv /\ BufferInv /\ DoneInv /\ MovedInv /\ pc = "wait"
  BY DEF IInv, CardInv, TransferInv, TransferOwned, DmaMove
<1>2. UNCHANGED <<op, addr, data, done, hal, pc, result>> /\ hal = "busy"
  BY DEF DmaMove, request
<1>3. moved \in Nat /\ moved \in Slots /\ moved \in Slot /\ addr + done + moved \in Block
      /\ addr \in Nat /\ done \in Nat /\ moved' = moved + 1
  <2>1. addr \in Nat /\ done \in Nat /\ moved \in Nat /\ moved < Piece /\ Piece \in 0..Chunk
        /\ addr + done + Piece <= NBlocks /\ moved' = moved + 1
    BY <1>1, <1>2, PieceType DEF DmaMove, TypeOK, TransferInv, InRange, Block
  <2> QED
    BY <2>1 DEF Slots, Slot, Block
<1>4. ASSUME NEW i \in 0..moved PROVE Moved(i)'
  <2>1. i \in Slot /\ addr + done + i \in Block
        /\ (i # moved => addr + done + i # addr + done + moved /\ i \in 0..(moved - 1))
    BY <1>3 DEF Slot, Block
  <2>2. i # moved => Moved(i)
    BY <1>1, <1>2, <2>1 DEF MovedInv
  <2>3. CASE op = "read"
    BY <1>1, <1>2, <1>3, <2>1, <2>2, <2>3 DEF DmaMove, Moved, TypeOK
  <2>4. CASE op = "write"
    <3>1. ram[moved] = data[done + moved + 1]
      BY <1>1, <1>3, <2>4 DEF BufferInv
    <3>2. card' = [card EXCEPT ![addr + done + moved] = ram[moved]]
      BY <2>4 DEF DmaMove
    <3>3. CASE i = moved
      <4>1. card'[addr + done + i] = ram[moved]
        BY <1>1, <1>3, <3>2, <3>3 DEF TypeOK
      <4> QED
        BY <1>2, <2>4, <3>1, <3>3, <4>1 DEF Moved
    <3>4. CASE i # moved
      <4>1. card[addr + done + i] = data[done + i + 1]
        BY <2>2, <2>4, <3>4 DEF Moved
      <4>2. card'[addr + done + i] = card[addr + done + i]
        BY <1>1, <2>1, <3>2, <3>4 DEF TypeOK
      <4> QED
        BY <1>2, <2>4, <4>1, <4>2 DEF Moved
    <3> QED
      BY <3>3, <3>4
  <2> QED
    BY <1>1, <2>3, <2>4 DEF TypeOK
<1>5. DoneInv'
  <2>1. ASSUME NEW k \in 1..done PROVE card'[addr + k - 1] = card[addr + k - 1]
    <3>1. addr + k - 1 # addr + done + moved /\ addr + k - 1 \in Block
      BY <1>1, <1>3 DEF DoneInv, Block
    <3>2. op = "write" => card' = [card EXCEPT ![addr + done + moved] = ram[moved]]
      BY <1>1 DEF DmaMove, TypeOK
    <3>3. op = "read" => card' = card
      BY DEF DmaMove
    <3> QED
      BY <1>1, <3>1, <3>2, <3>3 DEF TypeOK
  <2> QED
    BY <1>1, <1>2, <2>1 DEF DoneInv
<1>6. MovedInv'
  BY <1>2, <1>3, <1>4 DEF MovedInv
<1> QED
  BY <1>1, <1>2, <1>5, <1>6 DEF CardInv, ArrivedInv, Arrived

(* The interrupt ends a transfer.  Without an error all of it has moved,   *)
(* and after a read the cache has nothing of the buffer.                   *)
LEMMA DmaStopCard ==
  ASSUME IInv, CardInv, DmaEnd \/ DmaError
  PROVE  CardInv'
<1>1. TypeOK /\ TransferInv /\ DoneInv /\ MovedInv /\ pc = "wait" /\ hal = "busy"
  BY DEF IInv, CardInv, TransferInv, TransferOwned, DmaEnd, DmaError
<1>2. UNCHANGED <<request, op, addr, data, done, card, ram, pc, result>> /\ hal' = "ready"
  BY DEF DmaEnd, DmaError, request, buffer
<1>3. DoneInv' /\ MovedInv'
  BY <1>1, <1>2 DEF DoneInv, MovedInv
<1>4. Slots' = Slots /\ InRange' = InRange
  BY <1>2, PieceStable
<1>5. ArrivedInv'
  <2> SUFFICES ASSUME Arrived'
               PROVE  /\ InRange
                      /\ \A i \in Slots : Moved(i)' /\ (op = "read" => Seen(i)' = ram[i])
    BY <1>2, <1>4 DEF ArrivedInv
  <2>1. DmaEnd
    BY <1>1, <1>2 DEF Arrived, DmaError
  <2>2. \A i \in Slots : Moved(i)
    BY <1>1, <2>1 DEF DmaEnd, MovedInv, Slots
  <2>3. op = "read" => \A i \in Slots : line'[i] = Absent
    BY <1>1, <2>1, PieceType DEF DmaEnd, Invalidate
  <2> QED
    BY <1>1, <1>2, <2>2, <2>3 DEF Moved, Seen, TransferInv
<1> QED
  BY <1>3, <1>5 DEF CardInv

(* The cache loses and gains lines; but for a write that is being prepared *)
(* they are never newer than memory.                                       *)
LEMMA CacheCard ==
  ASSUME IInv, CardInv, NEW i \in Slot, Fill(i) \/ Evict(i)
  PROVE  CardInv'
<1>1. TypeOK /\ TransferInv /\ BufferInv /\ DoneInv /\ MovedInv /\ ArrivedInv
  BY DEF IInv, CardInv
<1>2. UNCHANGED <<request, op, addr, data, done, card, pc, result, hal, moved, error>>
  BY DEF Fill, Evict, medium, flags, request
<1>3. Slots' = Slots /\ InRange' = InRange
  BY <1>2, PieceStable
<1>4. pc # "clean" => ram' = ram
  BY <1>1 DEF Fill, Evict, BufferInv
<1>5. DoneInv'
  BY <1>1, <1>2 DEF DoneInv
<1>6. MovedInv'
  BY <1>1, <1>2, <1>4 DEF MovedInv, Moved, TransferInv, TransferOwned
<1>7. ArrivedInv'
  <2> SUFFICES ASSUME Arrived, NEW j \in Slots
               PROVE  Moved(j)' /\ (op = "read" => Seen(j)' = ram[j]) /\ ram' = ram
    BY <1>1, <1>2, <1>3 DEF ArrivedInv, Arrived
  <2>1. ram' = ram /\ j \in Slot
    BY <1>1, <1>4, PieceType DEF Arrived
  <2>2. Moved(j) /\ (op = "read" => Seen(j) = ram[j])
    BY <1>1 DEF ArrivedInv
  <2>3. op = "read" => Seen(j)' = ram[j]
    BY <1>1, <2>1, <2>2 DEF Fill, Evict, Seen, TypeOK
  <2> QED
    BY <1>2, <2>1, <2>2, <2>3 DEF Moved
<1> QED
  BY <1>5, <1>6, <1>7 DEF CardInv

LEMMA CardReadyCard ==
  ASSUME CardInv, CardReady \/ UNCHANGED vars
  PROVE  CardInv'
BY DEF CardReady, vars, buffer, flags, request, CardInv, DoneInv, MovedInv, ArrivedInv, Arrived,
   Moved, Seen, Slots, Piece, InRange

LEMMA CardNext == IInv /\ CardInv /\ [Next]_vars => CardInv'
<1> SUFFICES ASSUME IInv, CardInv, [Next]_vars PROVE CardInv'
  OBVIOUS
<1>1. ASSUME NEW a \in Block, NEW n \in Counts,
             \/ ReadDisk(a, n)
             \/ \E d \in [1..n -> Value] : WriteDisk(a, d)
      PROVE  CardInv'
  BY <1>1, CallCard
<1>2. CASE TaskStep
  BY <1>2, ControlCard, NextPieceCard, ReturnCard DEF TaskStep
<1>3. CASE DmaStep
  BY <1>3, DmaMoveCard, DmaStopCard DEF DmaStep
<1>4. CASE CardReady \/ UNCHANGED vars
  BY <1>4, CardReadyCard
<1>5. ASSUME NEW i \in Slot, Fill(i) \/ Evict(i) PROVE CardInv'
  BY <1>5, CacheCard
<1> QED
  BY <1>1, <1>2, <1>3, <1>4, <1>5 DEF Next

(* The card and the caller's array agree at every step of every request. *)
THEOREM CardAgrees == Spec => [](IInv /\ CardInv)
<1>1. Init => IInv /\ CardInv
  BY InitInv, InitCard
<1>2. IInv /\ CardInv /\ [Next]_vars => (IInv /\ CardInv)'
  BY NextInv, CardNext
<1> QED
  BY <1>1, <1>2, PTL DEF Spec
-----------------------------------------------------------------------------
(***************************************************************************)
(* The refinement, step by step.                                           *)
(***************************************************************************)
Mapped == <<card, Asked, Answer>>

(* Requests and answers can be told from none. *)
LEMMA NoneIsNone ==
  /\ \A a, n, d : Medium!None # [op |-> "read", addr |-> a, n |-> n, data |-> d]
  /\ \A a, n, d : Medium!None # [op |-> "write", addr |-> a, n |-> n, data |-> d]
  /\ \A b, d : Medium!None # [ok |-> b, data |-> d]
BY DEF Medium!None

LEMMA InitRefines == Init => Medium!Init
BY DEF Init, Medium!Init, Medium!None, Medium!Block, Block, Asked, Answer

(* disk_read and disk_write ask. *)
LEMMA CallRefines ==
  ASSUME IInv, NEW a \in Block, NEW n \in Counts,
         \/ ReadDisk(a, n)
         \/ \E d \in [1..n -> Value] : WriteDisk(a, d)
  PROVE  Medium!Ask
<1>1. /\ pc = "idle" /\ pc' \in {"poll", "load"} /\ addr' = a /\ card' = card
      /\ n \in Nat \ {0} /\ a \in Medium!Block
  BY DEF ReadDisk, WriteDisk, Call, Locals, medium, Block, Medium!Block
<1>2. Asked = Medium!None /\ Answer = Medium!None /\ Answer' = Medium!None
  BY <1>1 DEF Asked, Answer, Medium!None
<1>3. CASE ReadDisk(a, n)
  <2>1. op' = "read" /\ Len(data') = n
    BY <1>1, <1>3 DEF ReadDisk, Call, Locals
  <2>2. Asked' = Medium!Read(a, n)
    BY <1>1, <2>1 DEF Asked, Medium!Read
  <2> QED
    BY <1>1, <1>2, <2>2 DEF Medium!Ask
<1>4. ASSUME NEW d \in [1..n -> Value], WriteDisk(a, d)
      PROVE  Medium!Ask
  <2>1. op' = "write" /\ data' = d
    BY <1>4 DEF WriteDisk, Call, Locals
  <2>2. Asked' = Medium!Write(a, d)
    BY <1>1, <2>1 DEF Asked, Medium!Write
  <2> QED
    BY <1>1, <1>2, <2>2 DEF Medium!Ask
<1> QED
  BY <1>3, <1>4

(* A request ends with an error. *)
LEMMA ErrorRefines ==
  ASSUME InRequest, TypeOK, Finish("error"), UNCHANGED <<card, op, addr, data>>
  PROVE  Medium!Fail
<1>1. pc \notin {"idle", "return"} /\ pc' = "return" /\ result' = "error"
  BY DEF InRequest, Finish
<1>2. Asked' = Asked /\ Answer = Medium!None /\ Answer' = Medium!Failure
  BY <1>1 DEF Asked, Answer, Medium!None, Medium!Failure
<1>3. Asked # Medium!None
  BY <1>1, NoneIsNone DEF Asked, TypeOK
<1> QED
  BY <1>2, <1>3 DEF Medium!Fail

(* A request ends well: what is done is all of it, and agrees with the card. *)
LEMMA SuccessRefines ==
  ASSUME TypeOK, CardInv', pc = "wait" \/ pc = "copy", pc' = "return", result' = "ok",
         UNCHANGED <<card, op, addr>>, data' \in Seq(Value \cup {Absent}),
         Len(data') = Len(data), op = "write" => data' = data
  PROVE  Medium!AnswerRead \/ Medium!AnswerWrite
<1>1. /\ addr + Len(data) <= NBlocks
      /\ \A k \in 1..Len(data) : card[addr + k - 1] = data'[k]
  BY DEF CardInv, DoneInv
<1>2. CASE op = "read"
  <2>1. Asked = Medium!Read(addr, Len(data)) /\ Asked' = Asked /\ Answer = Medium!None
    BY <1>2 DEF Asked, Answer, Medium!None, Medium!Read
  <2>2. Answer' = [ok |-> TRUE, data |-> data']
    BY <1>2 DEF Answer
  <2>3. data' = [k \in 1..Len(data) |-> card[addr + k - 1]]
    BY <1>1
  <2>4. Medium!AnswerRead
    BY <1>1, <2>1, <2>2, <2>3 DEF Medium!AnswerRead, Medium!Read
  <2> QED
    BY <2>4
<1>3. CASE op = "write"
  <2>1. /\ Asked = [op |-> "write", addr |-> addr, n |-> Len(data), data |-> data]
        /\ Asked' = Asked /\ Answer = Medium!None
    BY <1>3 DEF Asked, Answer, Medium!None
  <2>2. Answer' = [ok |-> TRUE, data |-> << >>]
    BY <1>3 DEF Answer
  <2>3. Medium!AnswerWrite
    BY <1>1, <1>3, <2>1, <2>2 DEF Medium!AnswerWrite
  <2> QED
    BY <2>3
<1> QED
  BY <1>2, <1>3 DEF TypeOK

(* A piece is through: it was the last one, or nothing is to be seen. *)
LEMMA NextPieceRefines ==
  ASSUME IInv, CardInv', Written \/ Copy
  PROVE  Medium!Next \/ UNCHANGED Mapped
<1>1. TypeOK /\ RequestInv
  BY DEF IInv
<1>2. /\ pc = "wait" \/ pc = "copy"
      /\ UNCHANGED <<card, op, addr>>
      /\ op = "write" => data' = data
  BY <1>1 DEF Written, Copy, RequestInv, medium, request
<1>3. data' \in Seq(Value \cup {Absent}) /\ Len(data') = Len(data)
  <2>1. CASE Written
    BY <1>1, <2>1 DEF Written, TypeOK, request
  <2>2. CASE Copy
    <3>1. \A i \in Slots : Seen(i) \in Value \cup {Absent}
      BY <1>1, PieceType DEF Seen, TypeOK
    <3>2. Len(data) \in Nat /\ \A k \in 1..Len(data) : data[k] \in Value \cup {Absent}
      BY <1>1 DEF TypeOK
    <3>3. data' \in [1..Len(data) -> Value \cup {Absent}]
      BY <2>2, <3>1, <3>2 DEF Copy
    <3> QED
      BY <3>2, <3>3, FunctionIsSeq
  <2> QED
    BY <2>1, <2>2
<1>4. CASE pc' = "return"
  <2>1. result' = "ok"
    BY <1>2, <1>4 DEF Written, Copy, NextPiece, Finish
  <2> QED
    BY <1>1, <1>2, <1>3, <1>4, <2>1, SuccessRefines DEF Medium!Next
<1>5. CASE pc' # "return"
  <2>1. pc' \in {"poll", "load"}
    BY <1>5 DEF Written, Copy, NextPiece, Finish
  <2>2. Answer' = Answer
    BY <1>2, <2>1 DEF Answer
  <2>3. Asked' = Asked
    BY <1>1, <1>2, <1>3, <2>1 DEF Asked, TypeOK
  <2> QED
    BY <1>2, <2>2, <2>3 DEF Mapped
<1> QED
  BY <1>4, <1>5

(* The answer is taken. *)
LEMMA ReturnRefines ==
  ASSUME Return
  PROVE  Medium!Done
<1>1. pc = "return" /\ pc' = "idle" /\ card' = card
  BY DEF Return, medium
<1>2. Asked' = Medium!None /\ Answer' = Medium!None
  BY <1>1 DEF Asked, Answer, Medium!None
<1>3. Answer # Medium!None
  BY <1>1, NoneIsNone DEF Answer
<1> QED
  BY <1>1, <1>2, <1>3 DEF Medium!Done

(* The other steps of the task fail the request or are not to be seen. *)
LEMMA ControlRefines ==
  ASSUME IInv,
         \/ PollReady \/ PollBusy \/ Reset \/ Start \/ StartFails
         \/ Failed \/ Received \/ Load \/ Clean
  PROVE  Medium!Next \/ UNCHANGED Mapped
<1>1. /\ InRequest /\ TypeOK /\ UNCHANGED <<card, op, addr, data>>
      /\ Finish("error") \/ pc' \notin {"idle", "return"}
  BY DEF IInv, InRequest, PollReady, PollBusy, Reset, Start, StartFails, Failed, Received,
     Load, Clean, medium, request
<1>2. CASE Finish("error")
  BY <1>1, <1>2, ErrorRefines DEF Medium!Next
<1>3. CASE pc' \notin {"idle", "return"}
  BY <1>1, <1>3 DEF Mapped, Asked, Answer, InRequest
<1> QED
  BY <1>1, <1>2, <1>3

(* A block the DMA writes is one of the request's, with its new content. *)
LEMMA DmaMoveRefines ==
  ASSUME IInv, DmaMove
  PROVE  Medium!Next \/ UNCHANGED Mapped
<1>1. TypeOK /\ TransferInv /\ BufferInv /\ pc = "wait"
  BY DEF IInv, TransferInv, TransferOwned, DmaMove
<1>2. Asked' = Asked /\ Answer' = Answer
  BY DEF DmaMove, request, Asked, Answer
<1>3. CASE op = "read"
  BY <1>2, <1>3 DEF DmaMove, Mapped
<1>4. CASE op = "write"
  <2> DEFINE b == addr + done + moved
  <2>1. addr \in Nat /\ done \in Nat /\ moved \in Nat /\ moved < Piece /\ Piece \in Nat
        /\ done + Piece <= Len(data) /\ addr + done + Piece <= NBlocks /\ Len(data) \in Nat
    BY <1>1, PieceType DEF DmaMove, TypeOK, TransferInv, InRange, Block
  <2>2. /\ Asked = [op |-> "write", addr |-> addr, n |-> Len(data), data |-> data]
        /\ Answer = Medium!None
    BY <1>1, <1>4 DEF Asked, Answer, Medium!None
  <2>3. b \in Medium!Asked
    BY <2>1, <2>2 DEF Medium!Asked, Medium!Block
  <2>4. card' = [card EXCEPT ![b] = data[b - addr + 1]]
    <3>1. moved \in Slots /\ b - addr + 1 = done + moved + 1
      BY <2>1 DEF Slots
    <3>2. ram[moved] = data[done + moved + 1]
      BY <1>1, <1>4, <3>1 DEF BufferInv
    <3> QED
      BY <1>4, <3>1, <3>2 DEF DmaMove
  <2>5. Medium!Store
    BY <1>2, <2>2, <2>3, <2>4 DEF Medium!Store
  <2> QED
    BY <2>5 DEF Medium!Next
<1> QED
  BY <1>1, <1>3, <1>4 DEF TypeOK

(* Interrupts, the card's state and the cache are not to be seen. *)
LEMMA HiddenSteps ==
  ASSUME \/ DmaEnd \/ DmaError \/ CardReady \/ UNCHANGED vars
         \/ \E i \in Slot : Fill(i) \/ Evict(i)
  PROVE  UNCHANGED Mapped
<1>1. UNCHANGED <<card, pc, op, addr, data, result>>
  BY DEF DmaEnd, DmaError, CardReady, Fill, Evict, vars, medium, request
<1> QED
  BY <1>1 DEF Mapped, Asked, Answer

(* Every step is a step of the disk or a stutter. *)
LEMMA StepRefines ==
  ASSUME IInv, CardInv', [Next]_vars
  PROVE  [Medium!Next]_(Medium!diskVars)
<1>0. Medium!diskVars = Mapped /\ Medium!diskVars' = Mapped'
  BY DEF Medium!diskVars, Mapped
<1>1. ASSUME NEW a \in Block, NEW n \in Counts,
             \/ ReadDisk(a, n)
             \/ \E d \in [1..n -> Value] : WriteDisk(a, d)
      PROVE  Medium!Next
  BY <1>1, CallRefines DEF Medium!Next
<1>2. CASE TaskStep
  <2>1. Return => Medium!Next
    BY ReturnRefines DEF Medium!Next
  <2> QED
    BY <1>0, <1>2, <2>1, ControlRefines, NextPieceRefines DEF TaskStep
<1>3. CASE DmaMove
  BY <1>0, <1>3, DmaMoveRefines
<1>4. CASE \/ DmaEnd \/ DmaError \/ CardReady \/ UNCHANGED vars
           \/ \E i \in Slot : Fill(i) \/ Evict(i)
  BY <1>0, <1>4, HiddenSteps
<1> QED
  BY <1>1, <1>2, <1>3, <1>4 DEF Next, DmaStep

(***************************************************************************)
(* disk_read and disk_write are a disk: RES_OK means that every block was  *)
(* read or stored, RES_ERROR leaves the other blocks alone.                *)
(***************************************************************************)
THEOREM Refinement == Spec => ImplementsDisk
<1>1. Init => Medium!Init
  BY InitRefines
<1>2. IInv /\ CardInv' /\ [Next]_vars => [Medium!Next]_(Medium!diskVars)
  BY StepRefines
<1> QED
  BY <1>1, <1>2, CardAgrees, PTL DEF Spec, ImplementsDisk, Medium!Spec
=============================================================================
