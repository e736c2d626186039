# TLA+ models of the STM32H750 audio and storage firmware

This directory holds TLA+ specifications of the firmware's own concurrent and
stateful parts, the TLC configurations that model-check them on small instances,
and theorems that TLAPS proves about every one of the models for every value of the constants.

    tlc -config StreamBuffer_isr.cfg MCStreamBuffer.tla     model-check one run
    tlapm StreamBufferProofs.tla                            check proofs

## 1. The system

The firmware runs on one Cortex-M7 core under FreeRTOS. Two paths carry its logic:

* **Audio.** The host sends isochronous USB packets (UAC2). The OTG_FS interrupt
  hands each to `i2s_send_buf`, which appends it to a FreeRTOS stream buffer. A
  circular double-buffer DMA feeds the I2S; each time a half has been played the
  DMA1_Stream0 interrupt refills it with one block taken from the stream buffer.
  A task may send instead of the USB interrupt, and then waits for room.
* **Storage.** FatFs calls `disk_read` and `disk_write`. `SD_Read_Disk` and
  `SD_Write_Disk` move the data through one bounce buffer, `align4_buf`, with the
  SDMMC's DMA behind the data cache, and spin until an interrupt callback sets a flag.

* **Touch.** `gt911.c` reads the touch controller over a software I2C, `sw_i2c.c`,
  that moves two open-drain lines with busy waits between the moves.

Two services carry these: a second heap, `mmalloc.c`, which serves the FLAC decoder that
works between audio and storage, and the busy waits of `delay.c`.

In the configuration at hand `apps.c` decodes a FLAC file at start; the calls of
`i2s_start` and `audio_v2_init` (apps.c:135, 137) are commented out. The models cover
the audio path as those calls make it run.

### Inventory

| component | state it keeps | operations | interacts with | what makes it correct |
|---|---|---|---|---|
| stream buffer (`stream_buffer.c`) | storage, `xHead`, `xTail`, waiting task, its notification state | send from ISR, send from a task, receive from ISR, create | both interrupts and the task share it without a lock | it is a queue; blocks are whole; no wake-up is lost; no mutual wait |
| I2S playback (`audio_if.c`) | `i2s_dma_trans_size`, two DMA halves, `rx_stream_not_enough`; HAL handle state, DMA lock, EN, CT, TCIF, TEIF, clock | `i2s_start`, `i2s_pause`, `i2s_resume`, `i2s_send_buf`, DMA callbacks | stream buffer, HAL, USB callbacks | blocks are played in order and none while written; underruns are reported; channels are kept; a running stream is not programmed; a late interrupt costs a bounded number of blocks |
| USB audio application (`usbd_audiov2_app.c`) | `read_buffer`, alternate setting | open, close, isochronous callback | CherryUSB calls it, it calls `i2s_send_buf` | with the playback |
| SD driver (`sd_app.c`, `diskio.c`) | `align4_buf`, three flags, position of a request | `SD_Read_Disk`, `SD_Write_Disk`, three callbacks | HAL_SD, the data cache, the card | it is a disk; the buffer has one owner; the wait ends |
| second heap (`mmalloc.c`) | free list, block headers, counters | `mmalloc`, `mcalloc`, `mfree`, statistics | decoder and libFLAC | blocks tile the heap, the list is complete, counters agree |
| FLAC task (`decode_flac.c`) | two file objects in heap blocks, a decoder; FatFs's table of open files | `decode_flac`, decoder callbacks | FatFs, heap, libFLAC | every way out gives everything back, and nothing that belongs to an open file |
| software I2C (`sw_i2c.c`) | two lines, what a call has received | start, stop, send, receive, wait for acknowledge | GPIO, the chip | data moves only while the clock is low; the bus is free between calls; bytes arrive whole and once |
| touch (`gt911.c`, `lv_port_indev.c`) | `touch_is_pressed` | `touch_init`, poll, read | software I2C; the chip writes reports of its own | with the software I2C, also after a reset of the processor alone |
| delay (`delay.c`) | the locals of a running wait | `delay_us`, `delay_ms`, `HAL_Delay` | SysTick, whatever interrupts it | waits at least as long as asked, and not much longer |
| start-up (`apps.c`, `main.c`, `periph.c`) | tasks, clocks, priorities | sequential | all | order of initialisation |

What is hard here: two interrupts of different priority and a task on one lock-free
buffer; a DMA that swaps halves by itself while its interrupt is late; a cache between
CPU and DMA; waits without a timeout; errors in the middle of a request; long
sequences of heap calls; one way out for every failure, over objects that may not be
there; a chip that is not reset together with the processor that talks to it; a counter
that starts again under the eyes of a wait. `PROJECT.json` lists every hazard with its line.

## 2. Modules

| module | what it is |
|---|---|
| `ByteFifo` | abstract: a bounded queue of bytes that accepts a prefix of a chunk and delivers blocks |
| `StreamBuffer` | `stream_buffer.c` as the audio path uses it; implements `ByteFifo` |
| `MCStreamBuffer` | the small instances, with the sizing rule as an assumption |
| `StreamBufferProofs` | theorems about `StreamBuffer` |
| `I2SPlayback` | USB callbacks, `audio_if.c` and the double-buffer DMA over an atomic queue |
| `I2SPlaybackProofs` | theorems about `I2SPlayback` |
| `Allocator` | abstract: granted byte ranges that are disjoint, aligned and inside the heap |
| `MMalloc` | `mmalloc.c`; implements `Allocator` |
| `MMallocProofs` | theorems about `MMalloc` |
| `Disk` | abstract: blocks stored one after another, an answer that is true |
| `SdDisk` | `sd_app.c`, `diskio.c`, the HAL's DMA transfer and interrupt, the cache; implements `Disk` |
| `SdDiskProofs` | theorems about `SdDisk` |
| `DecodeFlac` | `decode_flac.c` with FatFs's file objects and table of open files |
| `DecodeFlacProofs` | theorems about `DecodeFlac` |
| `RegisterBus` | abstract: calls that write and read consecutive registers of a chip |
| `SwI2C` | `sw_i2c.c`, line by line, and the chip at the other end |
| `TouchPanel` | `gt911.c` and `touchpad_read` over `SwI2C`; implements `RegisterBus` |
| `SwI2CProofs` | lemmas: bytes and bits, what each function of `sw_i2c.c` does with the lines and the chip |
| `TouchPanelProofs` | theorems about `TouchPanel` |
| `DelayUs` | `delay.c` over the SysTick counter |
| `DelayUsProofs` | theorems about `DelayUs` |

Operators whose comment says *faulty* are not part of the model: each is a changed
form of the definition that follows it, the way a slip in the code would change it,
and lets one see that the properties notice.

### StreamBuffer

Every access to shared memory that another context can fall between is a step: the
read of the free space, each of the two `memcpy`s, the store of `xHead`; and for the
reader the poll, the second look, the two copies, the store of `xTail`, the
notification. `wpc` and `rpc` are the program points. Which context may step is
decided by `WriterMayRun` and `ReaderMayRun`: an interrupt runs to its end unless a
more urgent one comes, a task runs while no interrupt does. The NVIC numbers are
constants, because `stm32h7xx_it.c:169` says 5 for OTG_FS and `periph.c:265`
programs 15.

The blocking send keeps the kernel's two-step wait: the critical section that
clears the notification state and registers the task (`CheckSpace`), then
`xTaskNotifyWait` (`NotifyWait`, `Woken`), then the loop (`ClearWaiting`).
Message-buffer branches and `xStreamBufferReceive` are not called and left out.

### I2SPlayback

Uses the queue that `StreamBuffer` is shown to implement, in one step a packet and one
step a block, and models what lies around it. Bytes carry their number and their
place in the audio frame, so the properties can say which byte is played where.
`i2s_start` is three steps. The clearing of the halves stays in the data cache, so the
first contents of a half are unknown.

The DMA stream (`BlockEnd`) swaps halves on its own. The handler reads and clears the
flags (`IrqClear`), then asks CT which half is free (`IrqSelect`), then runs that half's
callback (`Refill`). In time, it is done before the next block ends. With `Late` a block
may end at any moment, before the handler or anywhere in it. A block that ends between
the clearing of TCIF and the test of CT raises the flag again, and the handler that
follows finds the same CT: it refills a half whose block was not played yet. One that
ends in the callback makes it fill the half that is being played. The code has no guard
against either; what it does promise is that every such block costs at most one
refill (`LossBounded`), and that without one nothing is lost (`NothingSkipped`).

A bus error (`TransferError`) makes the stream raise TEIF and switch itself off at any
moment, also inside the handler. The handler ends in its error branch (`IrqError`),
which unlocks the DMA handle; nothing else in this firmware does. `i2s_dma_error` is empty and the
I2S handle stays BUSY, so `i2s_start` is refused until a pause, or a resume that is
refused, has made that one READY. The half that plays first after a new start
is the one the error left in CT.

History variables: `accepted`, `heard`, `cut` (a packet was cut), `broken` (a running
stream was restarted, the block size is no multiple of a frame, or a transfer error
stopped the stream), `straddles` (blocks that ended inside the handler) and `spoilt`
(refills of a half that was being played or not played yet). Where `broken`
holds nothing in the sources says what should be heard, and the properties do not either.

### MMalloc

Block headers are records keyed by their address; the list is followed through `next`
as in the code: `Walk` goes on from block to block as long as the next one is among
those to be passed, and stands for the loops of `mmalloc` (blocks that are too small) and
of `prvInsertBlockIntoFreeList` (blocks below the one to insert). A call is one step since one task uses the heap without a lock.
Addresses and sizes are scaled down; `Word` is the range of a `size_t`, so that the
wrap of the size arithmetic and the top bit are there.

### SdDisk

The task goes through load, clean, poll, reset, start, wait, copy, return. The loop
over whole buffers and the code for the rest repeat each other, so one loop stands for
both; the different error numbers all become `RES_ERROR`. The DMA moves one block a
step while the cache may fill or evict any line (`Fill`, `Evict`). A line stands for
one block. A DATAEND interrupt of a transfer of several blocks may call the error
callback first, when the stop command fails, and then the completion callback.
A start command that fails is taken to move no data.

### DecodeFlac

`pc` is the call `decode_flac` makes next; every allocation, open, read and close may
fail. All failures leave by one way: close the input, close the output, free both.
The input is closed twice when the output cannot be opened, and the output is closed
although it was never opened when the input cannot be. What these closes do depends on
what the file object holds, so FatFs's `validate`, its table `Files[]` and `f_sync` are
part of the model: an `f_open` takes the first free slot, an `f_close` frees the slot
only if the sync before it succeeds. FatFs has one client here, so a FatFs call is one step.

The heap lies in SDRAM and is neither cleared at start nor when a block is handed out.
The two blocks come back at the same place in every call, so a file object begins with
what the call before left in it, and in the first call with anything, also with something
that `validate` lets pass (state `"stale"`). A stale object is given lock 0 or any slot.
What the sync of a stale object would write to the card is outside the model.

`lost` and `kept` are history: the decoders that `FLAC__stream_decoder_init_stream`
refused, which the code does not delete, and the slots of files the card refused to
close. `NothingLeft` says that apart from these two nothing is left.

### SwI2C, TouchPanel and RegisterBus

A function of `sw_i2c.c` is a sequence of operations on the lines (`StartOps`,
`SendOps`, ...), a bus call a sequence of functions, and each operation is a step.
Between two of them the chip may move SDA, and the delays are long enough for it
to have done so (`Wait`). SDA is low when either side pulls it.

The chip is external. It follows the I2C register protocol that the calls rely on,
acknowledges its address or ignores it at any START, sends and takes bytes from the
register it was given, and does not stretch the clock: the master never reads SCL.
Register addresses have two bytes, as in every call of `gt911.c`.

`TouchPanel` adds `touch_init` with its reset of the chip, the polling of
`touchpad_read`, reports that the chip writes when STATUS is clear, and a reset of the
processor at any step once the driver is up (`Crash`): the pins become inputs and memory
starts afresh, while the chip stays in the middle of its byte. `InitBusOnly`, a
`touch_init` without the chip's reset, breaks `BusFree`: the STOP of `sw_i2c_init` needs
an SDA that nobody holds low.

`ImplementsRegisterBus` maps the bits to whole bytes: a call stores or fetches the
bytes of consecutive registers once and in order, and a call that the chip ignored
changes nothing in it. The caller is not told which of the two it was, in the code as in
the abstract module.

### DelayUs

`Tick` is the counter, `Look` one turn of the loop. Up to `MaxGap` ticks pass between two
steps of the processor, which stands for interrupts and other tasks. `ticks` and `tcnt`
are `Word` wide. `spent`, `elapsed` and `asked` are history. The argument of `HAL_Delay`
loses its upper half (`HALDelay`); the instances stay below that.

## 3. Runs

| run | instance | shows |
|---|---|---|
| `StreamBuffer_isr` | 5 bytes, block 2, chunks 1 and 3, priorities 15 and 6 | queue, whole blocks, untouched readable bytes under preemption |
| `StreamBuffer_nested` | 4 bytes, block 2, chunks 1, 2, 5, priorities 5 and 6 | the same with the nesting the other way round, and chunks longer than the storage |
| `StreamBuffer_task` | 5 bytes, block 2, chunks 2 and 3, a task | no lost wake-up, no mutual wait, every send returns |
| `I2SPlayback_play` | 8 bytes, blocks up to 4, packets of 2, 5 packets, 2 starts, one transfer error | order, no overwriting, underruns, channels, pause; no start programs a stream that is on, also after an error |
| `I2SPlayback_late` | 8 bytes, blocks 2 and 4, 6 packets, late interrupts, 2 blocks that end inside a handler | at most one spoilt refill for each of these; every whole block is played unless one is spoilt |
| `MMalloc_small` | 24 units, 13 sizes up to 2^w - 1, 6 allocations | structure of the heap, counters, exact failure condition, disjoint grants |
| `MMalloc_stats` | 12 units | **violated**: see below |
| `SdDisk_data` | 3 blocks, buffer of 2, two values, requests of 1 and 3 | buffer ownership, flags, the disk abstraction; every request returns |
| `DecodeFlac` | 3 slots, two output names, 2 reads | ownership of slots, nothing left behind, every call returns |
| `TouchPanel` | bytes of 3 bits, 2 tries, reads of 1, 2 and 3 bytes | legal waveform, free bus after calls and resets, the register abstraction, every call returns |
| `DelayUs_wait` | period of 10 ticks, word of 64, gaps up to 9 | never short, never late |
| `DelayUs_range` | the same, the largest argument of the comment | **violated**: see below |

The bounds. A buffer of 4 or 5 bytes with a block of 2 wraps at every index, in the
first and in the second `memcpy`, and is at times full and at times empty. Two byte
values are enough to tell a byte from another one. Two halves and a block of up to 4 of
8 bytes give underrun, cut packets and merged completions within 5 packets; the packet
counter only ends the run. One transfer error can fall into every step of the handler and
of `i2s_start`, and the second start comes after it. Two blocks that end inside a handler
may do so in one handler or in two, and both do spoil a refill. Three blocks with a buffer of two make requests of one piece,
of two, and ones that leave the card. Three slots are one more than a call uses, so that
the files of earlier calls that could not be closed make a later call fail. A byte of
three bits has a first, a middle and a last one; a point of two bytes is read with one
acknowledge and one refusal, the identification with two. A period of 10 ticks is shorter
than most of the delays asked for, so the counter starts again within a wait, and a gap
of 9 is the longest that still shows that it did. Six allocations on 24 units reach a heap in
pieces that is then merged again. `MaxPackets`, `MaxStarts`, `MaxStraddles`,
`MaxErrors`, `MaxCalls`, `MaxLost` and `MaxGap` are bounds of the models and absent from the code. `Timeout` is `SD_RW_TIMEOUT`, `Tries` the 200 looks of
`sw_i2c_wait_ack`, `Locks` is `FF_FS_LOCK`, `InfoSize` and `PointSize` are 11 and 8 bytes.

Deadlock is checked in all runs but those of `I2SPlayback_play` and `MMalloc`, where
the bounds on packets or calls let the model stop.

### Fairness

* `StreamBuffer`: weak fairness of the writer's and of the reader's steps. A task or an
  interrupt that can run does, and the I2S clock keeps the DMA interrupt coming. That
  anybody sends is not assumed.
* `I2SPlayback`: weak fairness of the DMA's block end (the clock runs until paused)
  and of the interrupt.
* `SdDisk`: weak fairness of the task and of the DMA: the SDMMC ends a transfer or
  runs into its own data timeout. That the card leaves its programming state is *not*
  assumed; the poll counter has to end the request.
* `DecodeFlac`: weak fairness of `decode_flac`'s own steps and of the decoder's reads.
  That a caller calls, or that the decoder gives up by itself, is not assumed.
* `TouchPanel`: weak fairness of the driver, and of the chip's moving SDA to the level
  it is about to give. That the chip ever acknowledges, reports or that anybody polls
  is not assumed.
* `DelayUs` needs none: `Punctual` bounds the time of a wait, which is a safety property.

### Findings

`vmPortGetHeapStats` (mmalloc.c:474-493) counts a block before it compares with
`pxEnd`. With no free block it counts the end marker and follows its NULL link. The
comment on the field (mmalloc.c:64) promises the number of free blocks.
`MMalloc_stats` shows a heap in which the two differ.

`delay_us` (delay.c:64) ends when its 32-bit sum reaches the goal. The comment (delay.c:36)
gives a range whose largest goal is 256 ticks below 2^32 at 480 MHz. A longer gap between
two looks near the end carries the sum over the goal and over the top of the word, and
the wait begins anew. `DelayUs_range` shows it; `DelayUs_wait` stays a gap below the top.

## 4. Proofs

For every length, block size, set of chunk sizes, contexts and priorities
(`LengthAssumption`, `TransAssumption`, `ChunksAssumption`, `ModesAssumption`,
`PrioAssumption`):

* `StreamBufferProofs!Invariance`: `Spec => []IInv`. `TypeOK` alone is not inductive:
  that `xHead` stays inside the storage rests on the free space the writer read. `IInv`
  adds what each program point knows. The writer's `xSpace` may be out of date but
  never exceeds the free space (`WriterInv`), for the reader only makes it grow; the
  reader's poll stays true, for the writer only adds bytes (`ReaderInv`); a registered
  writer lacks space until the reader has freed some (`WaitInv`). From it follow
  `TypeCorrect`, `BlocksAreWhole`, `WakeupsAreKept`, `NeverMutualWait` and, as a fact
  about steps, `ReadableStays`.
* `StreamBufferProofs!Refinement`: `Spec => ImplementsFifo`. The queue is the bytes
  from `xTail` to `xHead`. The store of `xHead` appends and the store of `xTail`
  delivers; every other step leaves the abstract state alone, which needs the
  statement that the bytes written so far are those offered and the bytes copied so far
  are those at the front.

For every card, buffer, timeout and set of request sizes:

* `SdDiskProofs!Invariance`: `IInv` says where the bytes of the piece are at each point
  (in a dirty line or in memory, then in memory), that only the waiting task has a
  transfer running, and that the flags are clear from the reset to the end of the
  transfer, so that a flag that is set belongs to it. `TypeCorrect`,
  `BufferIsHandedOver`, `CompletionsAreKept` and `TransfersAreOwned` follow.
* `SdDiskProofs!Refinement`: `Spec => ImplementsDisk`. `CardInv` says that the part of
  the caller's array that is done agrees with the card, that the moved part of a transfer
  agrees at both ends, and that at the end of a read neither a line of the cache nor memory
  differs from the card. Card blocks change with the DMA's steps of a write, which are
  the abstract disk's writes; the rest is a stutter up to the return.

For every size of the table of open files, set of output names and length of the input:

* `DecodeFlacProofs!Invariance`. That no close frees the slot of another open file needs
  to know when the input is open (`InputInv`: from its `f_open` to its `f_close`, and it is
  never modified, so its close succeeds) and that a stale input excludes an open output.
  That nothing is left needs the owner of every slot in use (`SlotInv`): a file still
  to be closed in this call, or one the card refused. `TypeCorrect`, `LocksAreOwned`
  and `NothingIsLeft` follow. The three ways an `f_close` can end are stated once
  (`CloseEffect`, `CloseKeeps`, `CloseFrees`) and used by the three closes of the function.

For every reload value, clock, word size and gap, and every request whose ticks fit a
word (`UsAssumption`, `MsAssumption`):

* `DelayUsProofs!Invariance`. What `tcnt` has added up, plus what the counter has run since
  the last look (`Behind`, whole periods missed), is not more than the time that has
  passed; and each wait that has returned has left its share of the time asked for behind
  (`EnterInv`, `LoopInv`). So `NeverReturnsEarly`: also a wrap of `tcnt` and missed
  periods only make a wait longer. `TypeCorrect` follows as well.
* `DelayUsProofs!ReturnsInTime`: `Spec => []Punctual`, under `Room`. `Room` says that no gap
  between two looks is longer than the reload value and that the ticks of every request, plus
  one gap, fit the word. Both are needed: a longer gap hides a whole period from the loop, and
  without the second `DelayUs_range` is the counterexample. The invariant (`TInv`) counts the
  restarts of the counter: elapsed time, the counter's position and one period a restart
  add up, so the ticks lost are one a restart, which is what `Punctual` allows.

For every length, block, packet and frame size and every threshold (`LengthAssumption`,
`SizesAssumption`, `FrameAssumption`, `ThresholdsAssumption`):

* `I2SPlaybackProofs!Invariance`, for a handler that comes blocks late and in which blocks may
  end at any point, and for transfer errors. `PlayInv` is the heart: the half being played has
  been heard; as long as no block has ended inside a handler, the other one either was
  heard too, or continues what is heard, and then no interrupt is pending or running that
  could overwrite it. `QueueInv` says that the stream buffer continues the halves,
  `HardwareInv` what the DMA and its handler know of each other (a callback in whose handler
  no block ended fills the half that is not played; the handle is unlocked only when the
  stream is off and no flag is left), `StartInv` that software and hardware agree on the
  block size, `ChannelInv` that whole frames are in both. From it follow `TypeCorrect`,
  `KeepsChannels` and, as facts about steps, `ProgramsWhenOff` and `SkipsNothing`.
* `I2SPlaybackProofs!BoundsLosses`: `Spec => []LossBounded`. The sum of spoilt refills alone is
  not inductive, for a block that ends inside a handler does its harm later: `NextSpoils`
  tells whether the running or the pending handler is going to spoil a refill, and
  `LossInv` counts that one too. `SkipsNothing` asks for `straddles' = 0`: with a block
  that ended inside a handler the code does skip one.
* `I2SPlaybackProofs!ReportsUnderruns` assumes `~Late`: an interrupt comes before the next
  block ends. With later ones a block can be repeated before anybody could notice, and
  the run with late interrupts does not claim this property either.

For every heap size, header, alignment and word, every set of requests:

* `MMallocProofs!Invariance`. `IInv` says that the heap is sound: the blocks tile it from its
  first byte to `pxEnd`, the list holds every free block in the order of addresses, and no two
  free blocks touch; that the counters agree with the bytes of the free blocks and the
  number of blocks in use; and that the pointers handed out are the blocks in use, each as large as was asked.
  From it follow `TypeCorrect`, `HeapIsSound`, `CountersAgree` and `FailsOnlyWhenFull`.
* Between two of its lines a call works on a heap with one free block that is not in the list
  (`Loose`): the block being freed, or the rest of the block that was split. `InsertEffect`
  is the common part of both, by the four ways a block is merged with
  its neighbours: the heap is sound again, and neither a block in use nor the set of free bytes
  has changed. `Released` and `Carved` use it for `mfree` and `mmalloc`.
* `WantedSize`: a request that is not refused is increased to the least aligned size
  that holds it and its header, also at the top of the word, where the code's sums would wrap.
* A walk along the list is a recursive function, and its result is not computed by induction:
  where it stops (`WalkStops`) follows from the greatest element of the set of blocks
  it has passed, that it is defined (`WalkDefined`) from the least address for which it
  were not.
* `MMallocProofs!Refinement`: `Spec => ImplementsAllocator`. That a grant is disjoint
  from the others is the tiling, that it is aligned comes from the sizes.

For every number of bits of a byte from two on, every number of tries, every address of
the chip, and all registers and sizes that fit the chip's address range
(`BitsAssumption`, `TriesAssumption`, `DevAddrAssumption`, `RegisterAssumption`,
`SizeAssumption`, `CoordinateAssumption`, `NoneAssumption`):

* `SwI2CProofs` computes first. A byte is the sum of its bits (`PrefixStep`, `PrefixEnds`), a register
  address is two bytes (`TwoBytes`, `FromTwoBytes`), and the prover knows nothing of powers
  of two: `PowerStep` gets `2^(n+1) = 2 * 2^n` from the subsets of `1..n`. `Flatten` says which
  operation stands at each place of a function put together by `FlattenSeq`, so
  `SendOpsAre` and `ReceiveOpsAre` name them all.
* Each function has an invariant and a contract. `SendInv` says after every line operation how
  many bits of the byte the chip has, `WaitInv` what the chip answers, `ReceiveInv` which bit
  is on the line and what the master has put together, `StartInv` and `StopInv` where the
  lines are. `SendStep`, `WaitStep`, `ReceiveStep`, `StartStep` and `StopStep` show that a step keeps it
  and what holds when the function returns; a byte is stored, fetched or ignored in
  one step each, and all others leave the chip's registers alone.
* `TouchPanelProofs!Invariance`. A bus call is at one function of its list (`Pos`), that
  function's invariant holds with the byte the call has there, and what has been moved so far
  is told by the position (`SelectInv`, `WriteInv`, `ReadInv`, `LastInv`). Between two calls
  the bus is free; before `touch_init` has reset the chip, nothing is known of its side
  (`BootInv`), which is why a reset of the processor in the middle of a byte does no harm.
* `TypeCorrect` (no call stores more than the caller's array holds) and `BusIsFree` follow from the
  invariant; `FramesAreKept` from its saying, at each operation, that SDA has
  settled before the clock is high (`CallSettled`), for the chip's moves too.
* `BusImplemented`: `Spec => ImplementsRegisterBus`. A step has one of five effects (`Effect`,
  `CallStep`): none, the chip turns away, stores, fetches, or the caller gets a byte; each is
  an action of the abstract module. That a call that returns is complete, or was not
  answered, is `CallEnds`.

### Only model-checked

* All liveness: `SendReturns`, `BlocksAreHeard`, `CallReturns` of `SdDisk` and of `TouchPanel`,
  `DecodeReturns`. The prover knows neither fairness nor ENABLED.
* `StatsCountFreeBlocks`, which is violated, as `Punctual` is without `Room`.

## 5. Not modelled, and the plan

Not modelled: HAL and CMSIS beyond the functions named, the FreeRTOS scheduler and its
other objects, FatFs beyond its open and close, libFLAC, LVGL, CherryUSB (third-party
code, and nearly all of the repository's lines); LCD, fonts, SDRAM and clock
initialisation (sequential register writes). In the modelled parts: the table of
`sw_i2c.c` with more than the one bus it gets, the conversion of coordinates for LVGL,
the figures that `metadata_callback` saves, and the directory entry that an `f_close` of
a never opened file object might write.

Planned, the most important first:

1. Cache lines shared by `align4_buf` and its neighbours: the buffer is aligned to 4
   bytes, the invalidate works on lines of 32.
2. Packet lengths and `read_buffer` in the USB callbacks.
