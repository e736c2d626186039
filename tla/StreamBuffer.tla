---------------------------- MODULE StreamBuffer ----------------------------
(***************************************************************************)
(* The FreeRTOS stream buffer as the audio path of the firmware uses it:   *)
(* i2s_send_buf writes, from the USB interrupt (xStreamBufferSendFromISR)  *)
(* or from a task (xStreamBufferSend with portMAX_DELAY), and the DMA      *)
(* transfer-complete interrupt reads one block of Trans bytes, after it    *)
(* has polled xStreamBufferBytesAvailable.                                 *)
(*                                                                         *)
(* Every access to shared memory that another context can fall between is  *)
(* a step of its own: reading the free space, the one or two memcpys of a  *)
(* write, the store to xHead, and likewise for the reader.                 *)
(*                                                                         *)
(* Nobody calls xStreamBufferReceive, so xTaskWaitingToReceive is always   *)
(* NULL and the trigger level has no effect: neither is modelled.          *)
(***************************************************************************)
EXTENDS Integers, Sequences

CONSTANTS
  Byte,     \* values of a byte
  Length,   \* xLength: size of the storage area in bytes
  Trans,    \* i2s_dma_trans_size: the block the DMA interrupt takes
  Chunks,   \* sizes of the buffers handed to i2s_send_buf
  Modes,    \* contexts i2s_send_buf is called from, a subset of {"isr", "task"}
  UsbPrio,  \* NVIC priority of OTG_FS, a lower number is more urgent
  DmaPrio   \* NVIC priority of DMA1_Stream0

ASSUME LengthAssumption == Length \in Nat /\ Length >= 2
ASSUME TransAssumption  == Trans \in 1..(Length - 1)
ASSUME ChunksAssumption == Chunks \subseteq Nat \ {0}
ASSUME ModesAssumption  == Modes \subseteq {"isr", "task"}
ASSUME PrioAssumption   == UsbPrio \in Nat /\ DmaPrio \in Nat

VARIABLES
  mem,      \* pucBuffer
  head,     \* xHead
  tail,     \* xTail
  waiting,  \* xTaskWaitingToSend # NULL
  notify,   \* ucNotifyState of the sending task
  wpc,      \* where the writer is
  wmode,    \* the context it runs in
  wdata,    \* pvTxData
  wspace,   \* its xSpace
  rpc,      \* where the DMA interrupt is
  rcount,   \* its xCount
  rbuf      \* the DMA buffer it fills

shared     == <<mem, head, tail, waiting, notify>>
writerVars == <<wpc, wmode, wdata, wspace>>
readerVars == <<rpc, rcount, rbuf>>
vars       == <<mem, head, tail, waiting, notify,
                wpc, wmode, wdata, wspace, rpc, rcount, rbuf>>

Index == 0..(Length - 1)

(***************************************************************************)
(* Index arithmetic.  The code adds first and takes xLength off if the sum *)
(* reached it; it never divides.                                           *)
(***************************************************************************)
Lesser(a, b) == IF a < b THEN a ELSE b

\* faulty: the comparison is off by one
WrapLate(i) == IF i > Length THEN i - Length ELSE i

Wrap(i) == IF i >= Length THEN i - Length ELSE i

(* prvBytesInBuffer. *)
BytesInBuffer == Wrap(Length + head - tail)

\* faulty: a full buffer looks empty
SpacesAll == Length - BytesInBuffer

(* xStreamBufferSpacesAvailable.  Its loop leaves only when xTail has not  *)
(* changed across the computation, so the value is that of the instant of  *)
(* its last read.                                                          *)
SpacesAvailable == Wrap(Length + tail - head - 1)

(* The part of a transfer of n bytes at index i before the end of memory.  *)
FirstLength(i, n) == Lesser(Length - i, n)

-----------------------------------------------------------------------------
(***************************************************************************)
(* Preemption.  An interrupt runs to its end unless a more urgent one      *)
(* comes; a task runs while no interrupt does.                             *)
(***************************************************************************)
WriterMayRun(mode) == rpc = "idle" \/ (mode = "isr" /\ UsbPrio < DmaPrio)
ReaderMayRun       == wpc = "idle" \/ wmode = "task" \/ DmaPrio < UsbPrio

(***************************************************************************)
(* The writer.                                                             *)
(***************************************************************************)

(* i2s_send_buf picks the call by xPortIsInsideInterrupt. *)
Send(mode, d) ==
  /\ wpc = "idle"
  /\ WriterMayRun(mode)
  /\ wmode' = mode
  /\ wdata' = d
  /\ wpc' = IF mode = "isr" THEN "space" ELSE "check"
  /\ UNCHANGED <<wspace, shared, readerVars>>

(* xStreamBufferSendFromISR looks at the space once and never waits. *)
SpaceFromISR ==
  /\ wpc = "space"
  /\ WriterMayRun(wmode)
  /\ wspace' = SpacesAvailable
  /\ wpc' = "write1"
  /\ UNCHANGED <<wmode, wdata, shared, readerVars>>

\* faulty: waits for one byte more than it writes
RequiredSpaceAndOne == Lesser(Len(wdata), Length - 1) + 1

(* xRequiredSpace of xStreamBufferSend. *)
RequiredSpace == Lesser(Len(wdata), Length - 1)

(* The critical section at the top of xStreamBufferSend's loop. *)
CheckSpace ==
  /\ wpc = "check"
  /\ WriterMayRun(wmode)
  /\ wspace' = SpacesAvailable
  /\ IF SpacesAvailable < RequiredSpace
     THEN /\ notify' = IF notify = "received" THEN "none" ELSE notify
          /\ waiting' = TRUE
          /\ wpc' = "wait"
     ELSE /\ wpc' = "write1"
          /\ UNCHANGED <<notify, waiting>>
  /\ UNCHANGED <<mem, head, tail, wmode, wdata, readerVars>>

\* faulty: drops a notification that came before the task blocked
NotifyWaitAnew ==
  /\ wpc = "wait"
  /\ WriterMayRun(wmode)
  /\ notify' = "waiting"
  /\ wpc' = "blocked"
  /\ UNCHANGED <<mem, head, tail, waiting, wmode, wdata, wspace, readerVars>>

(* xTaskNotifyWait up to the point where the task blocks or goes on. *)
NotifyWait ==
  /\ wpc = "wait"
  /\ WriterMayRun(wmode)
  /\ notify' = IF notify = "received" THEN notify ELSE "waiting"
  /\ wpc' = "blocked"
  /\ UNCHANGED <<mem, head, tail, waiting, wmode, wdata, wspace, readerVars>>

(* The rest of xTaskNotifyWait, which only a notification reaches. *)
Woken ==
  /\ wpc = "blocked"
  /\ notify = "received"
  /\ WriterMayRun(wmode)
  /\ notify' = "none"
  /\ wpc' = "clear"
  /\ UNCHANGED <<mem, head, tail, waiting, wmode, wdata, wspace, readerVars>>

(* xTaskWaitingToSend = NULL; portMAX_DELAY never times out: loop again. *)
ClearWaiting ==
  /\ wpc = "clear"
  /\ WriterMayRun(wmode)
  /\ waiting' = FALSE
  /\ wpc' = "check"
  /\ UNCHANGED <<mem, head, tail, notify, wmode, wdata, wspace, readerVars>>

\* faulty: the length is not limited to the free space
WriteCountAll == Len(wdata)

(* xDataLengthBytes of prvWriteMessageToBuffer. *)
WriteCount == Lesser(Len(wdata), wspace)

(* The first memcpy of prvWriteBytesToBuffer; nothing at all with no room. *)
WriteFirst ==
  /\ wpc = "write1"
  /\ WriterMayRun(wmode)
  /\ LET first == FirstLength(head, WriteCount) IN
       /\ mem' = [i \in Index |->
                    IF i \in head..(head + first - 1)
                    THEN wdata[i - head + 1] ELSE mem[i]]
       /\ wpc' = IF WriteCount = 0 THEN "idle"
                 ELSE IF first < WriteCount THEN "write2" ELSE "publish"
  /\ UNCHANGED <<head, tail, waiting, notify, wmode, wdata, wspace, readerVars>>

(* The second one, at the start of the storage area. *)
WriteSecond ==
  /\ wpc = "write2"
  /\ WriterMayRun(wmode)
  /\ LET first == FirstLength(head, WriteCount) IN
       mem' = [i \in Index |->
                 IF i < WriteCount - first THEN wdata[first + i + 1] ELSE mem[i]]
  /\ wpc' = "publish"
  /\ UNCHANGED <<head, tail, waiting, notify, wmode, wdata, wspace, readerVars>>

PublishHead ==
  /\ wpc = "publish"
  /\ WriterMayRun(wmode)
  /\ head' = Wrap(head + WriteCount)
  /\ wpc' = "idle"
  /\ UNCHANGED <<mem, tail, waiting, notify, wmode, wdata, wspace, readerVars>>

-----------------------------------------------------------------------------
(***************************************************************************)
(* The reader: i2s_dma_buf0_cplt and i2s_dma_buf1_cplt.                    *)
(***************************************************************************)

\* faulty: any byte at all is enough
PollAnyByte ==
  /\ rpc = "idle"
  /\ ReaderMayRun
  /\ BytesInBuffer > 0
  /\ rpc' = "avail"
  /\ UNCHANGED <<rcount, rbuf, shared, writerVars>>

(* The poll of xStreamBufferBytesAvailable; on too few bytes the interrupt *)
(* returns and nothing here changes.                                       *)
PollBytes ==
  /\ rpc = "idle"
  /\ ReaderMayRun
  /\ BytesInBuffer >= Trans
  /\ rpc' = "avail"
  /\ UNCHANGED <<rcount, rbuf, shared, writerVars>>

(* xStreamBufferReceiveFromISR looks again and takes what there is. *)
BytesFromISR ==
  /\ rpc = "avail"
  /\ ReaderMayRun
  /\ rcount' = Lesser(Trans, BytesInBuffer)
  /\ rpc' = IF BytesInBuffer = 0 THEN "idle" ELSE "read1"
  /\ UNCHANGED <<rbuf, shared, writerVars>>

ReadFirst ==
  /\ rpc = "read1"
  /\ ReaderMayRun
  /\ LET first == FirstLength(tail, rcount) IN
       /\ rbuf' = [i \in 1..Trans |->
                     IF i <= first THEN mem[tail + i - 1] ELSE rbuf[i]]
       /\ rpc' = IF first < rcount THEN "read2" ELSE "publish"
  /\ UNCHANGED <<rcount, shared, writerVars>>

ReadSecond ==
  /\ rpc = "read2"
  /\ ReaderMayRun
  /\ LET first == FirstLength(tail, rcount) IN
       rbuf' = [i \in 1..Trans |->
                  IF i \in (first + 1)..rcount THEN mem[i - first - 1] ELSE rbuf[i]]
  /\ rpc' = "publish"
  /\ UNCHANGED <<rcount, shared, writerVars>>

PublishTail ==
  /\ rpc = "publish"
  /\ ReaderMayRun
  /\ tail' = Wrap(tail + rcount)
  /\ rpc' = "notify"
  /\ UNCHANGED <<mem, head, waiting, notify, rcount, rbuf, writerVars>>

\* faulty: nobody is told of the room
ReceiveUnannounced ==
  /\ rpc = "notify"
  /\ ReaderMayRun
  /\ rpc' = "idle"
  /\ UNCHANGED <<rcount, rbuf, shared, writerVars>>

(* sbRECEIVE_COMPLETED_FROM_ISR: wake the task that waits for space. *)
ReceiveCompleted ==
  /\ rpc = "notify"
  /\ ReaderMayRun
  /\ notify' = IF waiting THEN "received" ELSE notify
  /\ waiting' = FALSE
  /\ rpc' = "idle"
  /\ UNCHANGED <<mem, head, tail, rcount, rbuf, writerVars>>

-----------------------------------------------------------------------------
(* i2s_start has created the buffer and zeroed it and the DMA buffer. *)
Init ==
  \E zero \in Byte :
    /\ mem = [i \in Index |-> zero]
    /\ head = 0 /\ tail = 0
    /\ waiting = FALSE /\ notify = "none"
    /\ wpc = "idle" /\ wmode \in Modes /\ wdata = << >> /\ wspace = 0
    /\ rpc = "idle" /\ rcount = 0 /\ rbuf = [i \in 1..Trans |-> zero]

WriterStep ==
  \/ SpaceFromISR
  \/ CheckSpace
  \/ NotifyWait
  \/ Woken
  \/ ClearWaiting
  \/ WriteFirst
  \/ WriteSecond
  \/ PublishHead

ReaderStep ==
  \/ PollBytes
  \/ BytesFromISR
  \/ ReadFirst
  \/ ReadSecond
  \/ PublishTail
  \/ ReceiveCompleted

Next ==
  \/ \E mode \in Modes, n \in Chunks : \E d \in [1..n -> Byte] : Send(mode, d)
  \/ WriterStep
  \/ ReaderStep

Spec == Init /\ [][Next]_vars

(***************************************************************************)
(* A task or interrupt that can go on does, and the I2S clock never stops, *)
(* so the DMA interrupt keeps coming; that anybody sends is not assumed.   *)
(***************************************************************************)
FairSpec == Spec /\ WF_vars(WriterStep) /\ WF_vars(ReaderStep)

-----------------------------------------------------------------------------
(***************************************************************************)
(* Properties.                                                             *)
(***************************************************************************)

(* Every variable has its type: indices stay inside the storage area.      *)
TypeOK ==
  /\ mem \in [Index -> Byte]
  /\ head \in Index /\ tail \in Index
  /\ waiting \in BOOLEAN /\ notify \in {"none", "waiting", "received"}
  /\ wpc \in {"idle", "space", "check", "wait", "blocked", "clear",
              "write1", "write2", "publish"}
  /\ wmode \in {"isr", "task"} /\ wdata \in Seq(Byte) /\ wspace \in 0..(Length - 1)
  /\ rpc \in {"idle", "avail", "read1", "read2", "publish", "notify"}
  /\ rcount \in 0..Trans /\ rbuf \in [1..Trans -> Byte]

(* Bytes between xTail and xHead are never overwritten, although the       *)
(* writer works on a free space that it read before the interrupt moved    *)
(* xTail (xStreamBufferSendFromISR keeps xSpace across two memcpys).       *)
ReadableUntouched ==
  [][\A k \in 0..(BytesInBuffer - 1) :
       mem'[Wrap(tail + k)] = mem[Wrap(tail + k)]]_vars

(* The poll of the DMA interrupt still holds when the bytes are taken: it  *)
(* never hands the I2S a short block (i2s_dma_buf0_cplt ignores the result *)
(* of xStreamBufferReceiveFromISR).                                        *)
BlockWhole == rpc \in {"read1", "read2", "publish", "notify"} => rcount = Trans

(* A task that found no space and is about to block, or has blocked, is    *)
(* still registered for the wake-up or has already been notified, wherever *)
(* the DMA interrupt fell between its critical section and its wait.       *)
NoLostWakeup == wpc \in {"wait", "blocked"} => waiting \/ notify = "received"

(* What i2s_start's threshold and the chunks of a sending task must        *)
(* satisfy for the next two properties: no code checks it.                 *)
Sized ==
  "task" \in Modes => \A n \in Chunks : Lesser(n, Length - 1) + Trans <= Length

(* The sender that waits for space and the DMA interrupt that waits for a  *)
(* whole block never wait for each other.                                  *)
NoMutualWait ==
  Sized => (wpc = "blocked" /\ notify # "received" /\ rpc = "idle"
              => BytesInBuffer >= Trans)

(* i2s_send_buf always returns, portMAX_DELAY notwithstanding.             *)
SendReturns == Sized => (wpc # "idle" ~> wpc = "idle")

(***************************************************************************)
(* What holds at every program point: the strengthening from which the     *)
(* properties above are proved.                                            *)
(***************************************************************************)
Written(n) == \A k \in 0..(n - 1) : mem[Wrap(head + k)] = wdata[k + 1]
Copied(n)  == \A k \in 0..(n - 1) : rbuf[k + 1] = mem[Wrap(tail + k)]

(* The space the writer works on may be stale, but only on the safe side.  *)
WriterInv ==
  /\ wmode \in Modes
  /\ wpc # "idle" => Len(wdata) \in Chunks
  /\ wpc \in {"check", "wait", "blocked", "clear"} => wmode = "task"
  /\ wpc \in {"write1", "write2", "publish"} => wspace <= SpacesAvailable
  /\ wpc \in {"write2", "publish"} => WriteCount > 0
  /\ wpc = "write2" => /\ FirstLength(head, WriteCount) < WriteCount
                       /\ Written(FirstLength(head, WriteCount))
  /\ wpc = "publish" => Written(WriteCount)

ReaderInv ==
  /\ rpc \in {"avail", "read1", "read2", "publish"} => BytesInBuffer >= Trans
  /\ BlockWhole
  /\ rpc = "read2" => /\ FirstLength(tail, rcount) < rcount
                      /\ Copied(FirstLength(tail, rcount))
  /\ rpc = "publish" => Copied(rcount)

(* A registered sender lacks space until the reader frees some.            *)
WaitInv ==
  /\ NoLostWakeup
  /\ wpc \in {"wait", "blocked"} /\ notify # "received" /\ rpc # "notify"
       => SpacesAvailable < RequiredSpace

IInv == TypeOK /\ WriterInv /\ ReaderInv /\ WaitInv

(***************************************************************************)
(* The buffer implements the abstract queue: a chunk is accepted when      *)
(* xHead is stored, a block delivered when xTail is.                       *)
(***************************************************************************)
Contents == [k \in 1..BytesInBuffer |-> mem[Wrap(tail + k - 1)]]

Offered == IF wpc = "idle" THEN << >> ELSE wdata

Delivered == IF rpc = "notify" THEN rbuf ELSE << >>

Fifo == INSTANCE ByteFifo WITH
  Capacity <- Length - 1,
  queue    <- Contents,
  offer    <- Offered,
  block    <- Delivered

(* No byte is lost, repeated, reordered or torn between a chunk that was   *)
(* accepted and the blocks the DMA interrupt takes.                        *)
ImplementsFifo == Fifo!Spec

=============================================================================
