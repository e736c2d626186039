---------------------------- MODULE I2SPlayback ----------------------------
(***************************************************************************)
(* USB audio playback from the isochronous packet to the I2S pins: the     *)
(* UAC2 callbacks (usbd_audiov2_app.c), i2s_start, i2s_pause, i2s_resume   *)
(* and i2s_send_buf (audio_if.c), and the circular double-buffer DMA whose *)
(* transfer-complete interrupt refills the half that is not being played,  *)
(* and whose transfer error stops it.                                      *)
(*                                                                         *)
(* The stream buffer is here the queue that module StreamBuffer is shown   *)
(* to implement: a packet is appended, cut at the capacity, and a block is *)
(* taken, in one step each.  The DMA interrupt is urgent enough (6) to     *)
(* preempt the USB interrupt (15), never the other way round.              *)
(*                                                                         *)
(* A byte is <<id, channel>>: its number among the accepted bytes and its  *)
(* place in the audio frame.  A byte nobody sent is <<0, 0>>: the silence  *)
(* i2s_start writes, or what the SDRAM held before, for i2s_start leaves   *)
(* it in the data cache.                                                   *)
(***************************************************************************)
EXTENDS Integers, Sequences, SequencesExt

CONSTANTS
  Length,      \* I2S_STREAMBUFFER_SIZE
  MaxTrans,    \* I2S_DMA_BUFFER_MAX_SIZE
  Packet,      \* AUDIO_OUT_PACKET
  Frame,       \* bytes of one audio frame: two 16-bit channels
  Thresholds,  \* arguments of i2s_start
  Api,         \* what is called after a first i2s_start: "start", "pause", "resume"
  Late,        \* may a block end before the interrupt of the last one is done?
  MaxPackets,  \* bound on the packets that are sent
  MaxStarts,   \* bound on the calls of i2s_start
  MaxStraddles, \* bound on the blocks that end inside the interrupt handler
  MaxErrors    \* bound on the transfer errors

ASSUME LengthAssumption     == Length \in Nat /\ Length >= 2
ASSUME SizesAssumption      == MaxTrans \in 1..(Length - 1) /\ Packet \in Nat \ {0}
ASSUME FrameAssumption      == /\ Frame \in Nat \ {0} /\ Packet % Frame = 0
                               /\ Frame % 2 = 0  \* the samples are halfwords
ASSUME ThresholdsAssumption == Thresholds \subseteq Nat
ASSUME ApiAssumption        == Api \subseteq {"start", "pause", "resume"}
ASSUME LateAssumption       == Late \in BOOLEAN
ASSUME BoundsAssumption     == /\ MaxPackets \in Nat /\ MaxStarts \in Nat
                               /\ MaxStraddles \in Nat /\ MaxErrors \in Nat

VARIABLES
  queue,      \* the bytes in i2s_stream_buffer_handle
  trans,      \* i2s_dma_trans_size
  starting,   \* where i2s_start is
  result,     \* what it returned last: "none" before the first return
  state,      \* g_i2s1.State
  dmaBusy,    \* g_dma_i2s1 locked and HAL_DMA_STATE_BUSY
  clock,      \* CSTART: the I2S clock runs and the DMA moves bytes
  hwLength,   \* bytes per block the DMA stream was programmed for
  enabled,    \* EN of the DMA stream
  ct,         \* CT of the DMA stream: the half being played
  tcif, teif, \* TCIF and TEIF of the DMA stream
  dma,        \* i2s_dma_buf0 and i2s_dma_buf1
  isr,        \* where HAL_DMA_IRQHandler is
  fill,       \* the half whose callback it runs
  failed,     \* g_dma_i2s1.ErrorCode has HAL_DMA_ERROR_TE
  notEnough,  \* rx_stream_not_enough
  usb,        \* "off", "up" after audio_v2_init, "open" in alternate setting 1
  packets, starts, errors,    \* counters of the bounds
  accepted,   \* history: bytes the stream buffer took
  heard,      \* history: last byte of the newest block that came to be played
  cut,        \* history: a packet was cut by a full stream buffer
  broken,     \* history: i2s_start hit a stream in use or an odd block size,
              \* or a transfer error stopped the stream
  straddles,  \* history: blocks that ended inside the interrupt handler
  spoilt      \* history: refills of a half that was being played, or not played yet

streamVars  == <<queue, accepted, cut>>
startVars   == <<trans, starting, result, starts, broken>>
hwVars      == <<state, dmaBusy, clock, hwLength, enabled>>
playVars    == <<ct, tcif, dma, heard>>
isrVars     == <<isr, fill, notEnough>>
errorVars   == <<teif, failed, errors>>
lateVars    == <<straddles, spoilt>>
usbVars     == <<usb, packets>>
vars == <<streamVars, startVars, hwVars, playVars, isrVars, errorVars, lateVars, usbVars>>

Silence == <<0, 0>>
Capacity == Length - 1
Quiet(n) == [i \in 1..n |-> Silence]

-----------------------------------------------------------------------------
(***************************************************************************)
(* i2s_start, a task: three steps that an interrupt can fall between.      *)
(***************************************************************************)
Lesser(a, b) == IF a < b THEN a ELSE b

(* The block size is stored and the stream buffer created anew, empty. *)
StartCreate(threshold) ==
  /\ starting = "no" /\ isr = "idle"
  /\ starts < MaxStarts
  /\ starts > 0 => "start" \in Api
  /\ trans' = Lesser(threshold, MaxTrans)
  /\ queue' = << >>
  /\ starts' = starts + 1
  /\ starting' = "create"
  /\ broken' = (broken \/ dmaBusy \/ queue # << >>)
  /\ UNCHANGED <<result, accepted, cut, hwVars, playVars, isrVars, errorVars, lateVars, usbVars>>

(* memset of the storage area and of both halves: what came in meanwhile   *)
(* turns into silence.  No cache operation follows, so the DMA may go on   *)
(* to read the old bytes of a half.                                        *)
StartClear ==
  /\ starting = "create" /\ isr = "idle"
  /\ queue' = Quiet(Len(queue))
  /\ \E stale \in SUBSET {0, 1} :
       dma' = [h \in {0, 1} |-> IF h \in stale THEN dma[h] ELSE Quiet(MaxTrans)]
  /\ starting' = "clear"
  /\ broken' = (broken \/ queue # << >>)
  /\ UNCHANGED <<trans, result, starts, accepted, cut,
                 ct, tcif, heard, hwVars, isrVars, errorVars, lateVars, usbVars>>

(* HAL_I2S_Transmit_DMAEx_MultiBuffer counts in halfwords.  The DMA handle *)
(* of a circular transfer stays locked until a transfer error.             *)
HalStartsUnlocked == trans \div 2 > 0 /\ state = "ready"  \* faulty: no DMA lock
HalStarts == trans \div 2 > 0 /\ state = "ready" /\ ~dmaBusy

(* HAL_DMAEx_MultiBufferStart_IT forgets the error and clears all flags,   *)
(* but not CT.                                                             *)
StartHal ==
  /\ starting = "clear" /\ isr = "idle"
  /\ starting' = "no"
  /\ IF HalStarts
     THEN /\ result' = "ok"
          /\ state' = "busy" /\ dmaBusy' = TRUE /\ clock' = TRUE /\ enabled' = TRUE
          /\ hwLength' = 2 * (trans \div 2)
          /\ tcif' = FALSE /\ teif' = FALSE /\ failed' = FALSE
          /\ broken' = (broken \/ trans % Frame # 0)
     ELSE /\ result' = "error"
          /\ UNCHANGED <<hwVars, tcif, teif, failed, broken>>
  /\ UNCHANGED <<trans, starts, ct, dma, heard, errors, streamVars, isrVars, lateVars, usbVars>>

(* HAL_I2S_DMAPause: READY whatever happens; CSUSP stops the clock. *)
Pause ==
  /\ "pause" \in Api /\ result # "none" /\ starting = "no" /\ isr = "idle"
  /\ state' = "ready"
  /\ clock' = FALSE
  /\ UNCHANGED <<dmaBusy, hwLength, enabled, startVars, streamVars, playVars, isrVars,
                 errorVars, lateVars, usbVars>>

(* HAL_I2S_DMAResume refuses in any other state than READY, and leaves     *)
(* READY behind when it does.                                              *)
Resume ==
  /\ "resume" \in Api /\ result # "none" /\ starting = "no" /\ isr = "idle"
  /\ IF state = "ready"
     THEN state' = "busy" /\ clock' = TRUE
     ELSE state' = "ready" /\ UNCHANGED clock
  /\ UNCHANGED <<dmaBusy, hwLength, enabled, startVars, streamVars, playVars, isrVars,
                 errorVars, lateVars, usbVars>>

-----------------------------------------------------------------------------
(***************************************************************************)
(* USB.  The callbacks run in the OTG_FS interrupt, so never inside the    *)
(* DMA interrupt.                                                          *)
(***************************************************************************)

(* thread_app_main calls audio_v2_init after i2s_start has returned,       *)
(* whatever it returned.                                                   *)
UsbInit ==
  /\ usb = "off" /\ result # "none" /\ starting = "no" /\ isr = "idle"
  /\ usb' = "up"
  /\ UNCHANGED <<packets, streamVars, startVars, hwVars, playVars, isrVars, errorVars, lateVars>>

(* i2s_send_buf from an interrupt: as much as fits, the rest is dropped.   *)
RoomOneMore == Length - Len(queue)  \* faulty: full and empty look the same
Room == Capacity - Len(queue)

SendPacket ==
  LET n == Lesser(Packet, Room) IN
    /\ queue' = queue \o [i \in 1..n |-> <<accepted + i, (i - 1) % Frame>>]
    /\ accepted' = accepted + n
    /\ cut' = (cut \/ n < Packet)
    /\ packets < MaxPackets
    /\ packets' = packets + 1

(* usbd_audio_open also sends what read_buffer held before.                *)
Open ==
  /\ usb = "up" /\ isr = "idle"
  /\ usb' = "open"
  /\ SendPacket
  /\ UNCHANGED <<startVars, hwVars, playVars, isrVars, errorVars, lateVars>>

IsoOut ==
  /\ usb = "open" /\ isr = "idle"
  /\ SendPacket
  /\ UNCHANGED <<usb, startVars, hwVars, playVars, isrVars, errorVars, lateVars>>

(* usbd_audio_close touches nothing of the playback. *)
Close ==
  /\ usb = "open" /\ isr = "idle"
  /\ usb' = "up"
  /\ UNCHANGED <<packets, streamVars, startVars, hwVars, playVars, isrVars, errorVars, lateVars>>

-----------------------------------------------------------------------------
(***************************************************************************)
(* The DMA stream and its interrupt.                                       *)
(***************************************************************************)

(* The last byte of a block is out: the stream swaps halves by itself.  In *)
(* time, the handler is done before the next block ends.  If it is late,   *)
(* completions share one flag, and a block may end anywhere in it.         *)
LastId(s) == IF s = << >> THEN 0 ELSE Last(s)[1]
HeardWith(half) ==
  LET id == LastId(SubSeq(half, 1, hwLength)) IN IF id > heard THEN id ELSE heard

Block(h) == SubSeq(dma[h], 1, hwLength)
Fresh(h) == LastId(Block(h)) > heard  \* half h holds a block that was not played yet

BlockEnd ==
  /\ clock /\ enabled
  /\ tcif \/ isr # "idle" => Late
  /\ isr # "idle" => straddles < MaxStraddles
  /\ ct' = 1 - ct
  /\ tcif' = TRUE
  /\ heard' = HeardWith(dma[1 - ct])
  /\ straddles' = IF isr = "idle" THEN straddles ELSE straddles + 1
  /\ UNCHANGED <<dma, spoilt, streamVars, startVars, hwVars, isrVars, errorVars, usbVars>>

(* A bus error: the stream raises TEIF and switches itself off. *)
TransferError ==
  /\ clock /\ enabled
  /\ errors < MaxErrors
  /\ errors' = errors + 1
  /\ teif' = TRUE
  /\ enabled' = FALSE
  /\ broken' = TRUE
  /\ UNCHANGED <<state, dmaBusy, clock, hwLength, trans, starting, result, starts, failed,
                 streamVars, playVars, isrVars, lateVars, usbVars>>

(* HAL_DMA_IRQHandler reads the flags once, notes an error and clears what *)
(* it has read; for a completion it then asks CT which half is free.       *)
IrqClear ==
  /\ isr = "idle"
  /\ tcif \/ teif
  /\ tcif' = FALSE /\ teif' = FALSE
  /\ failed' = (failed \/ teif)
  /\ isr' = IF tcif THEN "cleared" ELSE "error"
  /\ UNCHANGED <<ct, dma, heard, fill, notEnough, errors, streamVars, startVars, hwVars,
                 lateVars, usbVars>>

OtherHalf == 1 - fill     \* faulty: halves counted in software
PlayedHalf == ct          \* faulty: the test of CT the wrong way round
FreeHalf == IF ct = 0 THEN 1 ELSE 0

IrqSelect ==
  /\ isr = "cleared"
  /\ fill' = FreeHalf
  /\ isr' = "callback"
  /\ UNCHANGED <<notEnough, streamVars, startVars, hwVars, playVars, errorVars, lateVars, usbVars>>

(* i2s_dma_buf0_cplt and i2s_dma_buf1_cplt: a whole block or the old one. *)
AnyBytes == queue # << >>            \* faulty: hands on what there is
MoreThanABlock == Len(queue) > trans \* faulty: off by one
Enough == Len(queue) >= trans

(* xStreamBufferReceiveFromISR. *)
Taken == Lesser(trans, Len(queue))
RestKeepsOne == SubSeq(queue, Taken, Len(queue)) \* faulty: off by one
Rest == SubSeq(queue, Taken + 1, Len(queue))

(* One step, for no other code runs in it.  A block that ends while it     *)
(* copies or cleans the cache counts as ended before, so the half may be   *)
(* the one that is being played.                                           *)
Refill ==
  /\ isr = "callback"
  /\ isr' = IF failed THEN "error" ELSE "idle"
  /\ IF Enough
     THEN /\ dma' = [dma EXCEPT ![fill] = SubSeq(queue, 1, Taken)
                                            \o SubSeq(@, Taken + 1, MaxTrans)]
          /\ queue' = Rest
          /\ heard' = IF fill = ct THEN HeardWith(dma'[fill]) ELSE heard
          /\ spoilt' = IF fill = ct \/ Fresh(fill) THEN spoilt + 1 ELSE spoilt
          /\ UNCHANGED notEnough
     ELSE /\ notEnough' = fill + 1
          /\ UNCHANGED <<dma, queue, heard, spoilt>>
  /\ UNCHANGED <<ct, tcif, fill, accepted, cut, straddles, startVars, hwVars, errorVars, usbVars>>

(* The error branch at the end of the handler: the stream is off already,  *)
(* the handle becomes READY and unlocked, and i2s_dma_error does nothing.  *)
IrqError ==
  /\ isr = "error"
  /\ isr' = "idle"
  /\ dmaBusy' = FALSE
  /\ UNCHANGED <<state, clock, hwLength, enabled, fill, notEnough, streamVars, startVars,
                 playVars, errorVars, lateVars, usbVars>>

-----------------------------------------------------------------------------
(* After i2s_init, before i2s_start. *)
Init ==
  /\ queue = << >> /\ accepted = 0 /\ cut = FALSE
  /\ trans = 0 /\ starting = "no" /\ result = "none" /\ starts = 0 /\ broken = FALSE
  /\ state = "ready" /\ dmaBusy = FALSE /\ clock = FALSE /\ hwLength = 0 /\ enabled = FALSE
  /\ ct = 0 /\ tcif = FALSE /\ dma = [h \in {0, 1} |-> Quiet(MaxTrans)] /\ heard = 0
  /\ isr = "idle" /\ fill = 1 /\ notEnough = 0
  /\ teif = FALSE /\ failed = FALSE /\ errors = 0 /\ straddles = 0 /\ spoilt = 0
  /\ usb = "off" /\ packets = 0

StartStep ==
  \/ \E threshold \in Thresholds : StartCreate(threshold)
  \/ StartClear
  \/ StartHal

IrqStep == IrqClear \/ IrqSelect \/ Refill \/ IrqError

Next ==
  \/ StartStep \/ Pause \/ Resume
  \/ UsbInit \/ Open \/ IsoOut \/ Close
  \/ BlockEnd \/ TransferError \/ IrqStep

Spec == Init /\ [][Next]_vars

(* The clock does not stop by itself and a pending interrupt is taken. *)
FairSpec == Spec /\ WF_vars(BlockEnd) /\ WF_vars(IrqStep)

-----------------------------------------------------------------------------
(***************************************************************************)
(* Properties.                                                             *)
(***************************************************************************)

(* Every variable has its type; the stream buffer never holds more than    *)
(* its capacity, and a refill leaves the halves their size.                *)
TypeOK ==
  /\ queue \in Seq(Nat \X Nat) /\ Len(queue) <= Capacity
  /\ trans \in 0..MaxTrans /\ hwLength \in 0..MaxTrans
  /\ starting \in {"no", "create", "clear"} /\ result \in {"none", "ok", "error"}
  /\ state \in {"ready", "busy"} /\ dmaBusy \in BOOLEAN /\ clock \in BOOLEAN
  /\ ct \in {0, 1} /\ tcif \in BOOLEAN /\ heard \in Nat /\ accepted \in Nat
  /\ \A h \in {0, 1} : dma[h] \in Seq(Nat \X Nat) /\ Len(dma[h]) = MaxTrans
  /\ isr \in {"idle", "cleared", "callback", "error"} /\ fill \in {0, 1} /\ notEnough \in 0..2
  /\ usb \in {"off", "up", "open"} /\ cut \in BOOLEAN /\ broken \in BOOLEAN
  /\ packets \in 0..MaxPackets /\ starts \in 0..MaxStarts /\ errors \in 0..MaxErrors
  /\ enabled \in BOOLEAN /\ teif \in BOOLEAN /\ failed \in BOOLEAN
  /\ straddles \in 0..MaxStraddles /\ spoilt \in Nat

(* The blocks that reach the pins for the first time continue where the    *)
(* last such block ended, and no half changes while it is played: the      *)
(* interrupt never overwrites a half that is being played or was not       *)
(* played yet, even when completions were merged into one interrupt, as    *)
(* long as none of its handlers has seen a block end inside it.            *)
NothingSkipped ==
  [][~broken /\ ~broken' /\ straddles' = 0 =>
       IF ct' = ct
       THEN clock /\ enabled => dma'[ct] = dma[ct]
       ELSE Fresh(ct') => \A i \in 1..hwLength : dma[ct'][i][1] = heard + i]_vars

(* What a late handler may cost: the test of CT after TCIF was cleared     *)
(* picks the wrong half, or the right half twice, at most once for every   *)
(* block that ends inside a handler.                                       *)
LossBounded == ~broken => spoilt <= straddles

(* A block is heard again only after the interrupt has said so in          *)
(* rx_stream_not_enough, provided that it is never a block late.           *)
UnderrunReported ==
  [][ct' # ct /\ heard > 0 /\ ~Fresh(ct') /\ ~broken => notEnough # 0]_vars

(* A sample is played on the channel it was sent for, as long as the       *)
(* stream buffer never filled up: it holds Length - 1 bytes, so the packet *)
(* it cuts does not end on a frame.                                        *)
ChannelsKept ==
  ~cut /\ ~broken =>
    \A h \in {0, 1} : \A i \in 1..hwLength :
      dma[h][i] # Silence => dma[h][i][2] = (i - 1) % Frame

(* i2s_start never programs a DMA stream that is on, nor one of which an   *)
(* interrupt is still to come: not while it runs, is paused, or has failed *)
(* and waits for its handler, although i2s_pause, or a refused i2s_resume, *)
(* leaves the I2S handle READY at any time.                                *)
ProgrammedWhenOff ==
  [][starting = "clear" /\ starting' = "no" /\ result' = "ok" =>
       ~enabled /\ ~tcif /\ ~teif]_vars

(* A byte with a whole block in front of the DMA interrupt comes to be     *)
(* played, if nobody pauses or restarts the stream and no refill is spoilt *)
(* by a handler that was late.                                             *)
Playing(id) == clock /\ enabled /\ \E i \in 1..hwLength : dma[ct][i][1] = id

BlocksAreHeard ==
  \A id \in 1..(MaxPackets * Packet) :
    clock /\ ~broken /\ Len(queue) >= trans /\ queue[1][1] = id
      ~> Playing(id) \/ spoilt > 0 \/ broken

=============================================================================
