------------------------- MODULE StreamBufferProofs -------------------------
(***************************************************************************)
(* Proofs about the stream buffer, for every length, block size, chunk     *)
(* sizes and priorities.                                                   *)
(***************************************************************************)
EXTENDS StreamBuffer, SequenceTheorems, TLAPS

USE LengthAssumption, TransAssumption, ModesAssumption, ChunksAssumption

(* A chunk of a writer is a sequence of bytes. *)
LEMMA ChunkIsSeq ==
  ASSUME NEW n \in Chunks, NEW d \in [1..n -> Byte]
  PROVE  d \in Seq(Byte) /\ Len(d) = n
OBVIOUS

(* The two counts partition the usable storage. *)
LEMMA Conservation ==
  ASSUME TypeOK
  PROVE  /\ BytesInBuffer \in 0..(Length - 1)
         /\ SpacesAvailable \in 0..(Length - 1)
         /\ BytesInBuffer + SpacesAvailable = Length - 1
BY DEF TypeOK, Index, BytesInBuffer, SpacesAvailable, Wrap

(* The distance from one index to another. *)
LEMMA DistanceType ==
  ASSUME NEW h \in Index, NEW t \in Index
  PROVE  Wrap(Length + h - t) \in Index
BY DEF Index, Wrap

-----------------------------------------------------------------------------
(* Type correctness: no index leaves the storage area. *)
LEMMA TypeInit == Init => TypeOK
<1> SUFFICES ASSUME NEW zero \in Byte,
                    mem = [i \in Index |-> zero], rbuf = [i \in 1..Trans |-> zero],
                    head = 0, tail = 0, waiting = FALSE, notify = "none",
                    wpc = "idle", wmode \in Modes, wdata = << >>, wspace = 0,
                    rpc = "idle", rcount = 0
             PROVE  TypeOK
  BY DEF Init
<1>1. mem \in [Index -> Byte] /\ rbuf \in [1..Trans -> Byte]
  OBVIOUS
<1>2. wdata \in Seq(Byte)
  OBVIOUS
<1>3. head \in Index /\ tail \in Index /\ wspace \in 0..(Length - 1) /\ rcount \in 0..Trans
  BY DEF Index
<1>4. wmode \in {"isr", "task"}
  OBVIOUS
<1> QED
  BY <1>1, <1>2, <1>3, <1>4 DEF TypeOK

(* No step of the sender moves an index out of the storage area. *)
LEMMA TypeWriter == TypeOK /\ WriterStep => TypeOK'
<1> SUFFICES ASSUME TypeOK, WriterStep
             PROVE  TypeOK'
  OBVIOUS
<1> USE DEF TypeOK
<1>1. Len(wdata) \in Nat /\ WriteCount \in 0..(Length - 1) /\ WriteCount <= Len(wdata)
  BY DEF WriteCount, Lesser
<1>2. SpacesAvailable \in 0..(Length - 1)
  BY Conservation
<1>3. FirstLength(head, WriteCount) \in 0..WriteCount
      /\ head + FirstLength(head, WriteCount) <= Length
  BY <1>1 DEF FirstLength, Lesser, Index
<1>4. CASE SpaceFromISR
  BY <1>2, <1>4 DEF SpaceFromISR, shared, readerVars
<1>5. CASE CheckSpace
  BY <1>2, <1>5 DEF CheckSpace, readerVars
<1>6. CASE NotifyWait
  BY <1>6 DEF NotifyWait, readerVars
<1>7. CASE Woken
  BY <1>7 DEF Woken, readerVars
<1>8. CASE ClearWaiting
  BY <1>8 DEF ClearWaiting, readerVars
<1>9. CASE WriteFirst
  <2> DEFINE first == FirstLength(head, WriteCount)
  <2>1. ASSUME NEW i \in Index, i \in head..(head + first - 1)
        PROVE  wdata[i - head + 1] \in Byte
    <3>1. i - head + 1 \in 1..Len(wdata)
      BY <2>1, <1>1, <1>3 DEF Index
    <3> QED
      BY <3>1
  <2>2. mem' \in [Index -> Byte]
    <3> HIDE DEF first
    <3>1. mem' = [i \in Index |-> IF i \in head..(head + first - 1)
                                  THEN wdata[i - head + 1] ELSE mem[i]]
      BY <1>9 DEF WriteFirst, first
    <3> QED
      BY <2>1, <3>1
  <2> QED
    BY <1>9, <2>2 DEF WriteFirst, readerVars
<1>10. CASE WriteSecond
  <2> DEFINE first == FirstLength(head, WriteCount)
  <2>1. ASSUME NEW i \in Index, i < WriteCount - first
        PROVE  wdata[first + i + 1] \in Byte
    <3>1. first + i + 1 \in 1..Len(wdata)
      BY <2>1, <1>1, <1>3 DEF Index
    <3> QED
      BY <3>1
  <2>2. mem' \in [Index -> Byte]
    <3> HIDE DEF first
    <3>1. mem' = [i \in Index |-> IF i < WriteCount - first
                                  THEN wdata[first + i + 1] ELSE mem[i]]
      BY <1>10 DEF WriteSecond, first
    <3> QED
      BY <2>1, <3>1
  <2> QED
    BY <1>10, <2>2 DEF WriteSecond, readerVars
<1>11. CASE PublishHead
  BY <1>1, <1>11 DEF PublishHead, readerVars, Wrap, Index
<1> QED
  BY <1>4, <1>5, <1>6, <1>7, <1>8, <1>9, <1>10, <1>11 DEF WriterStep

(* No step of the DMA interrupt does either. *)
LEMMA TypeReader == TypeOK /\ ReaderStep => TypeOK'
<1> SUFFICES ASSUME TypeOK, ReaderStep
             PROVE  TypeOK'
  OBVIOUS
<1> USE DEF TypeOK
<1>1. BytesInBuffer \in 0..(Length - 1)
  BY Conservation
<1>2. FirstLength(tail, rcount) \in 0..rcount
      /\ tail + FirstLength(tail, rcount) <= Length
  BY DEF FirstLength, Lesser, Index
<1>3. CASE PollBytes
  BY <1>3 DEF PollBytes, shared, writerVars
<1>4. CASE BytesFromISR
  BY <1>1, <1>4 DEF BytesFromISR, shared, writerVars, Lesser
<1>5. CASE ReadFirst
  <2> DEFINE first == FirstLength(tail, rcount)
  <2>1. \A i \in 1..Trans : i <= first => tail + i - 1 \in Index
    BY <1>2 DEF Index
  <2>2. rbuf' \in [1..Trans -> Byte]
    <3> HIDE DEF first
    <3>1. rbuf' = [i \in 1..Trans |-> IF i <= first THEN mem[tail + i - 1] ELSE rbuf[i]]
      BY <1>5 DEF ReadFirst, first
    <3> QED
      BY <2>1, <3>1
  <2> QED
    BY <1>5, <2>2 DEF ReadFirst, shared, writerVars
<1>6. CASE ReadSecond
  <2> DEFINE first == FirstLength(tail, rcount)
  <2>1. \A i \in 1..Trans : i \in (first + 1)..rcount => i - first - 1 \in Index
    BY <1>2 DEF Index
  <2>2. rbuf' \in [1..Trans -> Byte]
    <3> HIDE DEF first
    <3>1. rbuf' = [i \in 1..Trans |-> IF i \in (first + 1)..rcount
                                     THEN mem[i - first - 1] ELSE rbuf[i]]
      BY <1>6 DEF ReadSecond, first
    <3> QED
      BY <2>1, <3>1
  <2> QED
    BY <1>6, <2>2 DEF ReadSecond, shared, writerVars
<1>7. CASE PublishTail
  BY <1>7 DEF PublishTail, writerVars, Wrap, Index
<1>8. CASE ReceiveCompleted
  BY <1>8 DEF ReceiveCompleted, writerVars
<1> QED
  BY <1>3, <1>4, <1>5, <1>6, <1>7, <1>8 DEF ReaderStep

(* Type correctness is inductive. *)
LEMMA TypeStep == TypeOK /\ [Next]_vars => TypeOK'
<1> SUFFICES ASSUME TypeOK, [Next]_vars
             PROVE  TypeOK'
  OBVIOUS
<1>1. ASSUME NEW mode \in Modes, NEW n \in Chunks, NEW d \in [1..n -> Byte], Send(mode, d)
      PROVE  TypeOK'
  <2>1. wdata' \in Seq(Byte)
    BY <1>1, ChunkIsSeq DEF Send
  <2>2. wmode' \in {"isr", "task"} /\ wpc' \in {"space", "check"}
    BY <1>1 DEF Send
  <2> QED
    BY <1>1, <2>1, <2>2 DEF Send, TypeOK, shared, readerVars
<1>2. CASE WriterStep
  BY <1>2, TypeWriter
<1>3. CASE ReaderStep
  BY <1>3, TypeReader
<1>4. CASE UNCHANGED vars
  BY <1>4 DEF vars, TypeOK
<1> QED
  BY <1>1, <1>2, <1>3, <1>4 DEF Next

(* Every reachable state is well typed. *)
THEOREM TypeCorrect == Spec => []TypeOK
<1>1. Init => TypeOK
  BY TypeInit
<1>2. TypeOK /\ [Next]_vars => TypeOK'
  BY TypeStep
<1> QED
  BY <1>1, <1>2, PTL DEF Spec

-----------------------------------------------------------------------------
(***************************************************************************)
(* The regions.  The writer fills indices that the reader does not own.    *)
(***************************************************************************)
Writing == wpc \in {"write1", "write2", "publish"}

(* A write fits the free space. *)
LEMMA WriteCountBound ==
  ASSUME TypeOK, WriterInv, Writing
  PROVE  /\ WriteCount \in 0..SpacesAvailable
         /\ WriteCount <= Len(wdata)
         /\ Len(wdata) \in Nat
         /\ FirstLength(head, WriteCount) \in 0..WriteCount
         /\ head + FirstLength(head, WriteCount) <= Length
         /\ FirstLength(head, WriteCount) < WriteCount
              => FirstLength(head, WriteCount) = Length - head
<1>1. wspace <= SpacesAvailable /\ wspace \in Nat /\ Len(wdata) \in Nat
  BY DEF WriterInv, Writing, TypeOK
<1>2. WriteCount \in 0..SpacesAvailable /\ WriteCount <= Len(wdata)
  BY <1>1, Conservation DEF WriteCount, Lesser
<1> QED
  BY <1>1, <1>2, Conservation DEF FirstLength, Lesser, TypeOK, Index

(* A free slot is not one of the readable ones. *)
LEMMA RegionsDisjoint ==
  ASSUME TypeOK, WriterInv, Writing,
         NEW k \in 0..(BytesInBuffer - 1), NEW j \in 0..(WriteCount - 1)
  PROVE  Wrap(tail + k) # Wrap(head + j)
<1>1. j < SpacesAvailable /\ k < BytesInBuffer /\ j \in Nat /\ k \in Nat
  BY WriteCountBound, Conservation
<1> QED
  BY <1>1 DEF TypeOK, Index, Wrap, BytesInBuffer, SpacesAvailable

(* The readable bytes lie inside the storage area. *)
LEMMA ReadableIndex ==
  ASSUME TypeOK, NEW k \in 0..(BytesInBuffer - 1)
  PROVE  Wrap(tail + k) \in Index
<1>1. k \in 0..(Length - 2)
  BY Conservation
<1> QED
  BY <1>1 DEF TypeOK, Index, Wrap

(* No step of the writer changes a byte between xTail and xHead. *)
LEMMA WriterUntouched ==
  ASSUME TypeOK, WriterInv, WriterStep,
         NEW k \in 0..(BytesInBuffer - 1)
  PROVE  mem'[Wrap(tail + k)] = mem[Wrap(tail + k)]
<1> DEFINE p == Wrap(tail + k)
           first == FirstLength(head, WriteCount)
<1>1. p \in Index
  BY ReadableIndex
<1>2. CASE WriteFirst
  <2>1. Writing
    BY <1>2 DEF WriteFirst, Writing
  <2>2. ~(p \in head..(head + first - 1))
    <3> SUFFICES ASSUME p \in head..(head + first - 1)
                 PROVE  FALSE
      OBVIOUS
    <3> HIDE DEF p
    <3>1. p - head \in 0..(WriteCount - 1) /\ Wrap(head + (p - head)) = p
      BY <1>1, <2>1, WriteCountBound DEF Wrap, TypeOK, Index
    <3> QED
      BY <3>1, <2>1, RegionsDisjoint DEF p
  <2>3. mem'[p] = IF p \in head..(head + first - 1) THEN wdata[p - head + 1] ELSE mem[p]
    BY <1>1, <1>2 DEF WriteFirst
  <2> QED
    BY <2>2, <2>3
<1>3. CASE WriteSecond
  <2>1. Writing /\ wpc = "write2"
    BY <1>3 DEF WriteSecond, Writing
  <2>2. ~(p < WriteCount - first)
    <3> SUFFICES ASSUME p < WriteCount - first
                 PROVE  FALSE
      OBVIOUS
    <3> HIDE DEF p
    <3>1. first = Length - head /\ first < WriteCount
      BY <2>1, WriteCountBound DEF WriterInv
    <3>2. first + p \in 0..(WriteCount - 1) /\ Wrap(head + (first + p)) = p
      BY <1>1, <2>1, <3>1, WriteCountBound, Conservation DEF Wrap, TypeOK, Index
    <3> QED
      BY <3>2, <2>1, RegionsDisjoint DEF p
  <2>3. mem'[p] = IF p < WriteCount - first THEN wdata[first + p + 1] ELSE mem[p]
    BY <1>1, <1>3 DEF WriteSecond
  <2> QED
    BY <2>2, <2>3
<1> QED
  BY <1>2, <1>3 DEF WriterStep, SpaceFromISR, CheckSpace, NotifyWait, Woken,
                    ClearWaiting, PublishHead, shared

-----------------------------------------------------------------------------
(***************************************************************************)
(* The inductive invariant.                                                *)
(***************************************************************************)
LEMMA InvInit == Init => IInv
<1> SUFFICES ASSUME Init
             PROVE  IInv
  OBVIOUS
<1>1. TypeOK
  BY TypeInit
<1>2. wpc = "idle" /\ rpc = "idle" /\ wmode \in Modes
  BY DEF Init
<1>3. WriterInv /\ ReaderInv /\ WaitInv
  BY <1>2 DEF WriterInv, ReaderInv, WaitInv, BlockWhole, NoLostWakeup
<1> QED
  BY <1>1, <1>3 DEF IInv

(* i2s_send_buf is called. *)
LEMMA InvSend ==
  ASSUME IInv, NEW mode \in Modes, NEW n \in Chunks, NEW d \in [1..n -> Byte],
         Send(mode, d)
  PROVE  IInv'
<1> USE DEF IInv
<1>1. TypeOK'
  BY TypeStep DEF Next
<1>2. /\ wpc' = IF mode = "isr" THEN "space" ELSE "check"
      /\ wmode' = mode /\ wdata' = d /\ UNCHANGED <<wspace, shared, readerVars>>
  BY DEF Send
<1>3. Len(wdata') \in Chunks /\ mode \in {"isr", "task"}
  BY <1>2, ChunkIsSeq
<1>4. WriterInv'
  BY <1>2, <1>3 DEF WriterInv
<1>5. ReaderInv'
  BY <1>2 DEF ReaderInv, BlockWhole, Copied, BytesInBuffer, shared, readerVars
<1>6. WaitInv'
  BY <1>2, <1>3 DEF WaitInv, NoLostWakeup
<1> QED
  BY <1>1, <1>4, <1>5, <1>6

(* What the writer does is invisible to the reader, but for more bytes. *)
LEMMA WriterKeepsReader ==
  ASSUME IInv, WriterStep
  PROVE  ReaderInv'
<1> USE DEF IInv
<1>1. UNCHANGED <<tail, readerVars>>
  BY DEF WriterStep, SpaceFromISR, CheckSpace, NotifyWait, Woken, ClearWaiting,
         WriteFirst, WriteSecond, PublishHead, shared
<1>2. BytesInBuffer' >= BytesInBuffer
  <2>1. CASE PublishHead
    <3>1. wpc \in {"write2", "publish"} /\ Writing /\ head' = Wrap(head + WriteCount)
      BY <2>1 DEF PublishHead, Writing
    <3>2. WriteCount \in 0..SpacesAvailable
      BY <3>1, WriteCountBound
    <3> QED
      BY <1>1, <3>1, <3>2, Conservation
      DEF BytesInBuffer, SpacesAvailable, Wrap, TypeOK, Index
  <2>2. CASE head' = head
    BY <1>1, <2>2, Conservation DEF BytesInBuffer
  <2> QED
    BY <2>1, <2>2 DEF WriterStep, SpaceFromISR, CheckSpace, NotifyWait, Woken,
                      ClearWaiting, WriteFirst, WriteSecond, shared
<1>3. \A c \in 0..Trans : rpc \in {"read2", "publish"} /\ c <= BytesInBuffer /\ Copied(c)
        => Copied(c)'
  <2> SUFFICES ASSUME NEW c \in 0..Trans, c <= BytesInBuffer, Copied(c), NEW k \in 0..(c - 1)
               PROVE  rbuf'[k + 1] = mem'[Wrap(tail' + k)]
    BY DEF Copied, Wrap
  <2>1. k \in 0..(BytesInBuffer - 1)
    BY Conservation
  <2> QED
    BY <1>1, <2>1, WriterUntouched DEF Copied, readerVars
<1>4. rcount \in 0..Trans /\ FirstLength(tail, rcount) \in 0..rcount
      /\ FirstLength(tail, rcount)' = FirstLength(tail, rcount)
  BY <1>1 DEF TypeOK, FirstLength, Lesser, Index, readerVars
<1>5. BytesInBuffer \in Nat /\ BytesInBuffer' \in Nat
  <2>1. TypeOK'
    BY TypeStep DEF Next
  <2>2. head \in Index /\ tail \in Index /\ head' \in Index /\ tail' \in Index
    BY <2>1 DEF TypeOK, Index
  <2>3. Wrap(Length + head - tail) \in Index /\ Wrap(Length + head' - tail') \in Index
    BY <2>2, DistanceType
  <2> QED
    BY <2>3 DEF BytesInBuffer, Index
<1>6. rpc = "read2" => Copied(FirstLength(tail, rcount))'
  BY <1>1, <1>3, <1>4, <1>5 DEF ReaderInv, BlockWhole, readerVars, Copied
<1>7. rpc = "publish" => Copied(rcount)'
  BY <1>1, <1>3, <1>4, <1>5 DEF ReaderInv, BlockWhole, readerVars, Copied
<1> QED
  BY <1>1, <1>2, <1>4, <1>5, <1>6, <1>7 DEF ReaderInv, BlockWhole, readerVars

(* The sender establishes what its own next program point needs. *)
LEMMA WriterKeepsWriter ==
  ASSUME IInv, WriterStep
  PROVE  WriterInv'
<1> USE DEF IInv
<1>1. CASE SpaceFromISR
  <2>1. SpacesAvailable' = SpacesAvailable /\ wspace' = SpacesAvailable
    BY <1>1 DEF SpaceFromISR, SpacesAvailable, shared
  <2>2. SpacesAvailable \in Nat
    BY Conservation
  <2> QED
    BY <1>1, <2>1, <2>2 DEF SpaceFromISR, WriterInv, shared
<1>2. CASE CheckSpace
  <2>1. SpacesAvailable' = SpacesAvailable /\ wspace' = SpacesAvailable
    BY <1>2 DEF CheckSpace, SpacesAvailable
  <2>2. SpacesAvailable \in Nat
    BY Conservation
  <2> QED
    BY <1>2, <2>1, <2>2 DEF CheckSpace, WriterInv
<1>3. CASE NotifyWait \/ Woken \/ ClearWaiting
  BY <1>3 DEF NotifyWait, Woken, ClearWaiting, WriterInv
<1>4. CASE WriteFirst
  <2> DEFINE first == FirstLength(head, WriteCount)
  <2>1. Writing /\ wpc = "write1" /\ wspace <= SpacesAvailable
    BY <1>4 DEF WriteFirst, Writing, WriterInv
  <2>2. /\ UNCHANGED <<head, wmode, wdata, wspace>>
        /\ WriteCount' = WriteCount /\ first' = first
        /\ SpacesAvailable' = SpacesAvailable
    BY <1>4 DEF WriteFirst, WriteCount, FirstLength, SpacesAvailable
  <2>3. first \in 0..WriteCount /\ head + first <= Length /\ WriteCount \in Nat
        /\ head \in Index
    BY <2>1, WriteCountBound, Conservation DEF TypeOK
  <2>4. wpc' = IF WriteCount = 0 THEN "idle"
               ELSE IF first < WriteCount THEN "write2" ELSE "publish"
    BY <1>4 DEF WriteFirst
  <2>5. \A k \in 0..(first - 1) : mem'[Wrap(head + k)] = wdata[k + 1]
    <3> SUFFICES ASSUME NEW k \in 0..(first - 1)
                 PROVE  mem'[Wrap(head + k)] = wdata[k + 1]
      OBVIOUS
    <3> HIDE DEF first
    <3>1. Wrap(head + k) = head + k /\ head + k \in Index /\ head + k \in head..(head + first - 1)
          /\ head + k - head + 1 = k + 1
      BY <2>3 DEF Wrap, Index
    <3>2. mem' = [i \in Index |-> IF i \in head..(head + first - 1)
                                  THEN wdata[i - head + 1] ELSE mem[i]]
      BY <1>4 DEF WriteFirst, first
    <3> QED
      BY <2>3, <3>1, <3>2 DEF Index
  <2>6. wpc' = "write2" => first < WriteCount /\ Written(first)'
    <3>1. wpc' = "write2" => first < WriteCount
      BY <2>3, <2>4
    <3>2. Written(first)'
      <4>1. first' = first /\ head' = head /\ wdata' = wdata
        BY <2>2
      <4> HIDE DEF first
      <4> QED
        BY <2>5, <4>1 DEF Written
    <3> QED
      BY <3>1, <3>2
  <2>7. wpc' = "publish" => Written(WriteCount)'
    <3> SUFFICES ASSUME wpc' = "publish"
                 PROVE  Written(WriteCount)'
      OBVIOUS
    <3>1. first = WriteCount
      BY <2>3, <2>4
    <3> HIDE DEF first
    <3> QED
      BY <2>2, <2>5, <3>1 DEF Written
  <2>8. wpc' \in {"write2", "publish"} => WriteCount > 0
    BY <2>3, <2>4
  <2> QED
    BY <2>1, <2>2, <2>4, <2>6, <2>7, <2>8 DEF WriterInv
<1>5. CASE WriteSecond
  <2> DEFINE first == FirstLength(head, WriteCount)
  <2>1. Writing /\ wpc = "write2" /\ wspace <= SpacesAvailable
    BY <1>5 DEF WriteSecond, Writing, WriterInv
  <2>2. /\ UNCHANGED <<head, wmode, wdata, wspace>>
        /\ WriteCount' = WriteCount /\ SpacesAvailable' = SpacesAvailable
        /\ wpc' = "publish"
    BY <1>5 DEF WriteSecond, WriteCount, SpacesAvailable
  <2>3. first \in 0..WriteCount /\ first = Length - head /\ WriteCount \in 1..(Length - 1)
        /\ head \in Index /\ first < WriteCount /\ Written(first)
    BY <2>1, WriteCountBound, Conservation DEF TypeOK, WriterInv, Index
  <2>4. ASSUME NEW k \in 0..(WriteCount - 1)
        PROVE  mem'[Wrap(head + k)] = wdata[k + 1]
    <3>0. mem' = [i \in Index |-> IF i < WriteCount - first
                                 THEN wdata[first + i + 1] ELSE mem[i]]
      BY <1>5 DEF WriteSecond
    <3> HIDE DEF first
    <3>1. CASE k < first
      <4>1. Wrap(head + k) = head + k /\ head + k \in Index /\ ~(head + k < WriteCount - first)
            /\ k \in 0..(first - 1)
        BY <2>3, <3>1 DEF Wrap, Index
      <4>2. mem[Wrap(head + k)] = wdata[k + 1]
        BY <2>3, <4>1 DEF Written
      <4> QED
        BY <3>0, <4>1, <4>2
    <3>2. CASE k >= first
      <4>1. Wrap(head + k) = k - first /\ k - first \in Index /\ k - first < WriteCount - first
            /\ first + (k - first) + 1 = k + 1
        BY <2>3, <3>2 DEF Wrap, Index
      <4> QED
        BY <3>0, <4>1
    <3> QED
      BY <2>3, <3>1, <3>2
  <2>5. Written(WriteCount)'
    BY <2>2, <2>4 DEF Written
  <2> QED
    BY <2>1, <2>2, <2>3, <2>5 DEF WriterInv
<1>6. CASE PublishHead
  BY <1>6 DEF PublishHead, WriterInv
<1> QED
  BY <1>1, <1>2, <1>3, <1>4, <1>5, <1>6 DEF WriterStep

(* A sender that registers does lack space. *)
LEMMA WriterKeepsWait ==
  ASSUME IInv, WriterStep
  PROVE  WaitInv'
<1> USE DEF IInv
<1>1. CASE CheckSpace
  <2>1. SpacesAvailable' = SpacesAvailable /\ RequiredSpace' = RequiredSpace
    BY <1>1 DEF CheckSpace, SpacesAvailable, RequiredSpace
  <2> QED
    BY <1>1, <2>1 DEF CheckSpace, WaitInv, NoLostWakeup
<1>2. CASE NotifyWait
  <2>1. SpacesAvailable' = SpacesAvailable /\ RequiredSpace' = RequiredSpace
    BY <1>2 DEF NotifyWait, SpacesAvailable, RequiredSpace
  <2> QED
    BY <1>2, <2>1 DEF NotifyWait, WaitInv, NoLostWakeup, readerVars
<1>3. CASE SpaceFromISR \/ Woken \/ ClearWaiting \/ WriteFirst \/ WriteSecond \/ PublishHead
  BY <1>3 DEF SpaceFromISR, Woken, ClearWaiting, WriteFirst, WriteSecond,
              PublishHead, WaitInv, NoLostWakeup
<1> QED
  BY <1>1, <1>2, <1>3 DEF WriterStep

(* What the reader does only adds space. *)
LEMMA ReaderAddsSpace ==
  ASSUME IInv, ReaderStep
  PROVE  /\ SpacesAvailable \in Nat /\ SpacesAvailable' \in Nat
         /\ SpacesAvailable' >= SpacesAvailable
         /\ ~PublishTail => UNCHANGED <<head, tail>>
<1> USE DEF IInv
<1>1. head' = head
  BY DEF ReaderStep, PollBytes, BytesFromISR, ReadFirst, ReadSecond, PublishTail,
         ReceiveCompleted, shared
<1>2. CASE PublishTail
  <2>1. rcount \in 1..BytesInBuffer /\ tail' = Wrap(tail + rcount)
    BY <1>2, Conservation DEF PublishTail, ReaderInv, BlockWhole
  <2>2. head \in Index /\ tail \in Index
    BY DEF TypeOK
  <2>3. SpacesAvailable' = SpacesAvailable + rcount
    BY <1>1, <2>1, <2>2 DEF BytesInBuffer, SpacesAvailable, Wrap, Index
  <2> QED
    BY <1>2, <2>1, <2>3, Conservation
<1>3. CASE ~PublishTail
  <2>1. UNCHANGED <<head, tail>>
    BY <1>3 DEF ReaderStep, PollBytes, BytesFromISR, ReadFirst, ReadSecond,
                ReceiveCompleted, shared
  <2> QED
    BY <2>1, Conservation DEF SpacesAvailable
<1> QED
  BY <1>2, <1>3

(* The space the sender has read stays on the safe side. *)
LEMMA ReaderKeepsWriter ==
  ASSUME IInv, ReaderStep
  PROVE  WriterInv'
<1> USE DEF IInv
<1>1. UNCHANGED <<mem, head, writerVars>>
  BY DEF ReaderStep, PollBytes, BytesFromISR, ReadFirst, ReadSecond, PublishTail,
         ReceiveCompleted, shared
<1>2. SpacesAvailable' >= SpacesAvailable /\ SpacesAvailable \in Nat /\ SpacesAvailable' \in Nat
  BY ReaderAddsSpace
<1>3. wspace \in Nat
  BY DEF TypeOK
<1> QED
  BY <1>1, <1>2, <1>3 DEF WriterInv, Written, WriteCount, FirstLength, writerVars

(* The DMA interrupt frees space only on its way to the notification. *)
LEMMA ReaderKeepsWait ==
  ASSUME IInv, ReaderStep
  PROVE  WaitInv'
<1> USE DEF IInv
<1>1. UNCHANGED writerVars
  BY DEF ReaderStep, PollBytes, BytesFromISR, ReadFirst, ReadSecond, PublishTail,
         ReceiveCompleted
<1>2. CASE ReceiveCompleted
  <2>1. SpacesAvailable' = SpacesAvailable
    BY <1>2 DEF ReceiveCompleted, SpacesAvailable
  <2> QED
    BY <1>1, <1>2, <2>1 DEF ReceiveCompleted, WaitInv, NoLostWakeup, RequiredSpace, writerVars
<1>3. CASE PublishTail
  BY <1>1, <1>3 DEF PublishTail, WaitInv, NoLostWakeup, RequiredSpace, writerVars
<1>4. CASE PollBytes \/ BytesFromISR \/ ReadFirst \/ ReadSecond
  <2>1. UNCHANGED shared /\ rpc # "notify" /\ rpc' # "notify"
    BY <1>4 DEF PollBytes, BytesFromISR, ReadFirst, ReadSecond
  <2>2. SpacesAvailable' = SpacesAvailable
    BY <2>1 DEF SpacesAvailable, shared
  <2> QED
    BY <1>1, <2>1, <2>2 DEF WaitInv, NoLostWakeup, RequiredSpace, writerVars, shared
<1> QED
  BY <1>2, <1>3, <1>4 DEF ReaderStep

(* The DMA interrupt establishes what its own next program point needs. *)
LEMMA ReaderKeepsReader ==
  ASSUME IInv, ReaderStep
  PROVE  ReaderInv'
<1> USE DEF IInv
<1>0. BytesInBuffer \in Nat /\ tail \in Index /\ rcount \in 0..Trans
  BY Conservation DEF TypeOK
<1>1. CASE PollBytes
  BY <1>1 DEF PollBytes, ReaderInv, BlockWhole, BytesInBuffer, shared
<1>2. CASE BytesFromISR
  BY <1>0, <1>2 DEF BytesFromISR, ReaderInv, BlockWhole, BytesInBuffer, shared, Lesser
<1>3. CASE ReadFirst
  <2> DEFINE first == FirstLength(tail, rcount)
  <2>1. /\ rcount = Trans /\ BytesInBuffer >= Trans
        /\ UNCHANGED <<mem, head, tail, rcount>>
        /\ BytesInBuffer' = BytesInBuffer /\ first' = first
    BY <1>3 DEF ReadFirst, ReaderInv, BlockWhole, BytesInBuffer, FirstLength, shared
  <2>2. first \in 0..rcount /\ tail + first <= Length
    BY <1>0 DEF FirstLength, Lesser, Index
  <2>3. rpc' = IF first < rcount THEN "read2" ELSE "publish"
    BY <1>3 DEF ReadFirst
  <2>4. rbuf' = [i \in 1..Trans |-> IF i <= first THEN mem[tail + i - 1] ELSE rbuf[i]]
    BY <1>3 DEF ReadFirst
  <2>5. \A k \in 0..(first - 1) : rbuf'[k + 1] = mem[Wrap(tail + k)]
    <3> HIDE DEF first
    <3> SUFFICES ASSUME NEW k \in 0..(first - 1)
                 PROVE  rbuf'[k + 1] = mem[Wrap(tail + k)]
      OBVIOUS
    <3>1. k + 1 \in 1..Trans /\ k + 1 <= first /\ Wrap(tail + k) = tail + (k + 1) - 1
      BY <1>0, <2>2 DEF Wrap, Index
    <3> QED
      BY <2>4, <3>1
  <2>6. Copied(first)'
    <3>1. first' = first /\ tail' = tail /\ mem' = mem
      BY <2>1
    <3> HIDE DEF first
    <3> QED
      BY <2>5, <3>1 DEF Copied
  <2>7. rpc' = "publish" => Copied(rcount)'
    <3> SUFFICES ASSUME rpc' = "publish"
                 PROVE  Copied(rcount)'
      OBVIOUS
    <3>1. first = rcount /\ rcount' = rcount /\ tail' = tail /\ mem' = mem
      BY <1>0, <2>1, <2>2, <2>3
    <3> HIDE DEF first
    <3> QED
      BY <2>5, <3>1 DEF Copied
  <2> QED
    BY <2>1, <2>3, <2>6, <2>7 DEF ReaderInv, BlockWhole
<1>4. CASE ReadSecond
  <2> DEFINE first == FirstLength(tail, rcount)
  <2>1. /\ rcount = Trans /\ BytesInBuffer >= Trans /\ Copied(first) /\ first < rcount
        /\ UNCHANGED <<mem, head, tail, rcount>>
        /\ BytesInBuffer' = BytesInBuffer /\ rpc' = "publish"
    BY <1>4 DEF ReadSecond, ReaderInv, BlockWhole, BytesInBuffer, shared
  <2>2. first \in 0..rcount /\ first = Length - tail
    BY <1>0, <2>1 DEF FirstLength, Lesser, Index
  <2>3. rbuf' = [i \in 1..Trans |-> IF i \in (first + 1)..rcount
                                   THEN mem[i - first - 1] ELSE rbuf[i]]
    BY <1>4 DEF ReadSecond
  <2>4. \A k \in 0..(rcount - 1) : rbuf'[k + 1] = mem[Wrap(tail + k)]
    <3> HIDE DEF first
    <3> SUFFICES ASSUME NEW k \in 0..(rcount - 1)
                 PROVE  rbuf'[k + 1] = mem[Wrap(tail + k)]
      OBVIOUS
    <3>1. CASE k < first
      <4>1. k + 1 \in 1..Trans /\ k + 1 \notin (first + 1)..rcount /\ k \in 0..(first - 1)
        BY <1>0, <2>1, <2>2, <3>1
      <4>2. rbuf[k + 1] = mem[Wrap(tail + k)]
        BY <2>1, <4>1 DEF Copied
      <4> QED
        BY <2>3, <4>1, <4>2
    <3>2. CASE k >= first
      <4>1. k + 1 \in 1..Trans /\ k + 1 \in (first + 1)..rcount
            /\ Wrap(tail + k) = (k + 1) - first - 1
        BY <1>0, <2>1, <2>2, <3>2 DEF Wrap, Index
      <4> QED
        BY <2>3, <4>1
    <3> QED
      BY <1>0, <2>2, <3>1, <3>2
  <2>5. Copied(rcount)'
    BY <2>1, <2>4 DEF Copied
  <2> QED
    BY <2>1, <2>5 DEF ReaderInv, BlockWhole
<1>5. CASE PublishTail
  BY <1>5 DEF PublishTail, ReaderInv, BlockWhole
<1>6. CASE ReceiveCompleted
  BY <1>6 DEF ReceiveCompleted, ReaderInv, BlockWhole
<1> QED
  BY <1>1, <1>2, <1>3, <1>4, <1>5, <1>6 DEF ReaderStep

(* Every step keeps the invariant. *)
LEMMA InvStep == IInv /\ [Next]_vars => IInv'
<1> SUFFICES ASSUME IInv, [Next]_vars
             PROVE  IInv'
  OBVIOUS
<1>1. TypeOK'
  BY TypeStep DEF IInv
<1>2. CASE \E mode \in Modes, n \in Chunks : \E d \in [1..n -> Byte] : Send(mode, d)
  BY <1>2, InvSend
<1>3. CASE WriterStep
  BY <1>1, <1>3, WriterKeepsReader, WriterKeepsWriter, WriterKeepsWait DEF IInv
<1>4. CASE ReaderStep
  BY <1>1, <1>4, ReaderKeepsReader, ReaderKeepsWriter, ReaderKeepsWait DEF IInv
<1>5. CASE UNCHANGED vars
  <2>1. WriterInv'
    BY <1>5 DEF vars, IInv, WriterInv, Written, WriteCount, FirstLength, SpacesAvailable
  <2>2. ReaderInv'
    BY <1>5 DEF vars, IInv, ReaderInv, Copied, BlockWhole, FirstLength, BytesInBuffer
  <2>3. WaitInv'
    BY <1>5 DEF vars, IInv, WaitInv, NoLostWakeup, RequiredSpace, SpacesAvailable
  <2> QED
    BY <1>1, <2>1, <2>2, <2>3 DEF IInv
<1> QED
  BY <1>2, <1>3, <1>4, <1>5 DEF Next

-----------------------------------------------------------------------------
(* The strengthening holds in every reachable state. *)
THEOREM Invariance == Spec => []IInv
<1> QED
  BY InvInit, InvStep, PTL DEF Spec

(* The DMA interrupt never gets a short block: between its poll of         *)
(* xStreamBufferBytesAvailable and its read nothing takes bytes away.      *)
THEOREM BlocksAreWhole == Spec => []BlockWhole
<1>1. IInv => BlockWhole
  BY DEF IInv, ReaderInv
<1> QED
  BY <1>1, Invariance, PTL

(* A task about to block in xStreamBufferSend is registered or notified.   *)
THEOREM WakeupsAreKept == Spec => []NoLostWakeup
<1>1. IInv => NoLostWakeup
  BY DEF IInv, WaitInv
<1> QED
  BY <1>1, Invariance, PTL

(* If no chunk of a sending task is so long that it and a block exceed     *)
(* the storage area, the sender and the DMA interrupt never wait for each  *)
(* other.                                                                  *)
THEOREM NeverMutualWait == Spec => []NoMutualWait
<1>1. IInv => NoMutualWait
  <2> SUFFICES ASSUME IInv, Sized, wpc = "blocked", notify # "received", rpc = "idle"
               PROVE  BytesInBuffer >= Trans
    BY DEF NoMutualWait
  <2>1. Len(wdata) \in Chunks /\ "task" \in Modes /\ SpacesAvailable < RequiredSpace
    BY DEF IInv, WriterInv, WaitInv
  <2>2. RequiredSpace + Trans <= Length /\ RequiredSpace \in Nat
    BY <2>1 DEF Sized, RequiredSpace, Lesser
  <2> QED
    BY <2>1, <2>2, Conservation DEF IInv
<1> QED
  BY <1>1, Invariance, PTL

(* No step overwrites a byte between xTail and xHead. *)
THEOREM ReadableStays == Spec => ReadableUntouched
<1>1. IInv /\ [Next]_vars =>
        [\A k \in 0..(BytesInBuffer - 1) :
           mem'[Wrap(tail + k)] = mem[Wrap(tail + k)]]_vars
  <2> SUFFICES ASSUME IInv, Next, NEW k \in 0..(BytesInBuffer - 1)
               PROVE  mem'[Wrap(tail + k)] = mem[Wrap(tail + k)]
    BY DEF vars
  <2>1. CASE WriterStep
    BY <2>1, WriterUntouched DEF IInv
  <2>2. CASE ReaderStep
    BY <2>2 DEF ReaderStep, PollBytes, BytesFromISR, ReadFirst, ReadSecond,
                PublishTail, ReceiveCompleted, shared
  <2>3. CASE \E mode \in Modes, n \in Chunks : \E d \in [1..n -> Byte] : Send(mode, d)
    BY <2>3 DEF Send, shared
  <2> QED
    BY <2>1, <2>2, <2>3 DEF Next
<1> QED
  BY <1>1, Invariance, PTL DEF Spec, ReadableUntouched

-----------------------------------------------------------------------------
(***************************************************************************)
(* The stream buffer implements the abstract queue, for every length,      *)
(* block size, chunk sizes and priorities.                                 *)
(***************************************************************************)

(* Moving xHead on by n keeps the old bytes in front of the n new ones. *)
LEMMA HeadAdvances ==
  ASSUME NEW h \in Index, NEW t \in Index, NEW n \in Nat, NEW b \in Nat,
         b = Wrap(Length + h - t), b + n <= Length - 1
  PROVE  /\ Wrap(Length + Wrap(h + n) - t) = b + n
         /\ \A k \in (b + 1)..(b + n) : Wrap(t + k - 1) = Wrap(h + (k - b - 1))
         /\ \A k \in 1..(b + n) : Wrap(t + k - 1) \in Index
  BY LengthAssumption DEF Wrap, Index

(* Moving xTail on by n drops the first n bytes. *)
LEMMA TailAdvances ==
  ASSUME NEW h \in Index, NEW t \in Index, NEW n \in Nat, NEW b \in Nat,
         b = Wrap(Length + h - t), n <= b
  PROVE  /\ Wrap(Length + h - Wrap(t + n)) = b - n
         /\ \A k \in 1..(b - n) : Wrap(Wrap(t + n) + k - 1) = Wrap(t + (k + n) - 1)
  BY LengthAssumption DEF Wrap, Index

(* The abstract queue is a sequence of bytes. *)
LEMMA ContentsIsSeq ==
  ASSUME TypeOK
  PROVE  /\ Contents \in Seq(Byte)
         /\ Len(Contents) = BytesInBuffer
         /\ BytesInBuffer \in 0..(Length - 1)
         /\ \A k \in 1..BytesInBuffer : Contents[k] = mem[Wrap(tail + k - 1)]
<1>1. BytesInBuffer \in 0..(Length - 1)
  BY Conservation
<1>2. ASSUME NEW k \in 1..BytesInBuffer
      PROVE  mem[Wrap(tail + k - 1)] \in Byte
  <2>1. k - 1 \in 0..(BytesInBuffer - 1) /\ tail \in Index
    BY <1>1, <1>2 DEF TypeOK
  <2>2. Wrap(tail + (k - 1)) \in Index /\ tail + (k - 1) = tail + k - 1
    BY <2>1, ReadableIndex DEF Index
  <2> QED
    BY <2>2 DEF TypeOK
<1>3. Contents \in [1..BytesInBuffer -> Byte]
  BY <1>2 DEF Contents
<1>4. Contents \in Seq(Byte) /\ Len(Contents) = BytesInBuffer
  BY <1>1, <1>3
<1> QED
  BY <1>1, <1>4 DEF Contents

ContentsShape ==
  /\ Contents \in Seq(Byte)
  /\ Len(Contents) = BytesInBuffer
  /\ BytesInBuffer \in 0..(Length - 1)
  /\ \A k \in 1..BytesInBuffer : Contents[k] = mem[Wrap(tail + k - 1)]

(* The same as an implication of state predicates. *)
LEMMA ContentsTyped == TypeOK => ContentsShape
  BY ContentsIsSeq DEF ContentsShape

(* The same for the state after a step. *)
LEMMA ContentsTypedNext == TypeOK' => ContentsShape'
  BY ContentsTyped, PTL

(* Steps that move neither index leave the queue as it is. *)
LEMMA ContentsStable ==
  ASSUME TypeOK, head' = head, tail' = tail,
         \A k \in 0..(BytesInBuffer - 1) : mem'[Wrap(tail + k)] = mem[Wrap(tail + k)]
  PROVE  Contents' = Contents
<1>1. BytesInBuffer' = BytesInBuffer /\ BytesInBuffer \in Nat /\ tail \in Nat
  BY Conservation DEF BytesInBuffer, TypeOK, Index
<1>2. ASSUME NEW k \in 1..BytesInBuffer
      PROVE  mem'[Wrap(tail + k - 1)] = mem[Wrap(tail + k - 1)]
  <2>1. k - 1 \in 0..(BytesInBuffer - 1) /\ tail + (k - 1) = tail + k - 1
    BY <1>1, <1>2
  <2> QED
    BY <2>1
<1>3. Contents' = [k \in 1..BytesInBuffer |-> mem'[Wrap(tail + k - 1)]]
  BY <1>1 DEF Contents
<1> HIDE DEF Contents
<1> QED
  BY <1>2, <1>3 DEF Contents

(* Storing xHead appends the bytes that were written. *)
LEMMA PublishHeadAppends ==
  ASSUME IInv, IInv', PublishHead
  PROVE  /\ Contents' = Contents \o SubSeq(wdata, 1, WriteCount)
         /\ WriteCount \in 0..Len(wdata)
         /\ Len(Contents) + WriteCount <= Length - 1
<1> DEFINE n == WriteCount
           added == SubSeq(wdata, 1, n)
           whole == Contents \o added
<1>1. Writing /\ wpc = "publish" /\ TypeOK /\ TypeOK' /\ WriterInv
  BY DEF PublishHead, Writing, IInv
<1>2. n \in 0..SpacesAvailable /\ n <= Len(wdata) /\ Len(wdata) \in Nat /\ Written(n)
  BY <1>1, WriteCountBound DEF WriterInv
<1>3. UNCHANGED <<mem, tail>> /\ head' = Wrap(head + n) /\ head \in Index /\ tail \in Index
  BY <1>1 DEF PublishHead, TypeOK
<1>4. n \in Nat /\ BytesInBuffer \in Nat /\ BytesInBuffer + n <= Length - 1
  BY <1>1, <1>2, Conservation
<1>5. /\ BytesInBuffer' = BytesInBuffer + n
      /\ \A k \in (BytesInBuffer + 1)..(BytesInBuffer + n) :
           Wrap(tail + k - 1) = Wrap(head + (k - BytesInBuffer - 1))
      /\ \A k \in 1..(BytesInBuffer + n) : Wrap(tail + k - 1) \in Index
  <2>1. BytesInBuffer = Wrap(Length + head - tail)
    BY DEF BytesInBuffer
  <2>2. BytesInBuffer' = Wrap(Length + Wrap(head + n) - tail)
    BY <1>3 DEF BytesInBuffer
  <2> HIDE DEF n
  <2> QED
    BY <1>3, <1>4, <2>1, <2>2, HeadAdvances
<1>6. added \in Seq(Byte) /\ Len(added) = n
      /\ \A i \in 1..n : added[i] = wdata[i]
  <2>1. \A i \in 1..n : wdata[i] \in Byte
    BY <1>1, <1>2 DEF TypeOK
  <2> HIDE DEF n
  <2>2. SubSeq(wdata, 1, n) \in Seq(Byte)
        /\ Len(SubSeq(wdata, 1, n)) = (IF 1 <= n THEN n - 1 + 1 ELSE 0)
        /\ \A i \in 1..(n - 1 + 1) : SubSeq(wdata, 1, n)[i] = wdata[1 + i - 1]
    BY <1>4, <2>1, SubSeqProperties
  <2> QED
    BY <1>4, <2>2
<1>7. Contents \in Seq(Byte) /\ Len(Contents) = BytesInBuffer
      /\ \A k \in 1..BytesInBuffer : Contents[k] = mem[Wrap(tail + k - 1)]
  BY <1>1, ContentsIsSeq
<1>8. Contents' \in Seq(Byte) /\ Len(Contents') = BytesInBuffer + n
      /\ \A k \in 1..(BytesInBuffer + n) : Contents'[k] = mem[Wrap(tail + k - 1)]
  <2>1. Contents' = [k \in 1..(BytesInBuffer + n) |-> mem[Wrap(tail + k - 1)]]
    BY <1>3, <1>5 DEF Contents
  <2>2. ASSUME NEW k \in 1..(BytesInBuffer + n)
        PROVE  mem[Wrap(tail + k - 1)] \in Byte
    <3>1. Wrap(tail + k - 1) \in Index
      BY <1>5
    <3> QED
      BY <1>1, <3>1 DEF TypeOK
  <2>3. BytesInBuffer + n \in Nat
    BY <1>4
  <2> HIDE DEF n, Contents
  <2>4. Contents' \in [1..(BytesInBuffer + n) -> Byte]
    BY <2>1, <2>2
  <2> QED
    BY <2>1, <2>3, <2>4
<1>9. whole \in Seq(Byte) /\ Len(whole) = BytesInBuffer + n
      /\ \A k \in 1..(BytesInBuffer + n) :
           whole[k] = IF k <= BytesInBuffer THEN Contents[k] ELSE added[k - BytesInBuffer]
  <2> HIDE DEF n, Contents, added
  <2> QED
    BY <1>6, <1>7, ConcatProperties
<1>10. ASSUME NEW k \in 1..(BytesInBuffer + n)
       PROVE  Contents'[k] = whole[k]
  <2>1. CASE k <= BytesInBuffer
    <3> HIDE DEF n, whole, Contents, BytesInBuffer
    <3>1. k \in 1..BytesInBuffer
      BY <2>1
    <3>2. Contents[k] = mem[Wrap(tail + k - 1)] /\ Contents'[k] = mem[Wrap(tail + k - 1)]
      BY <1>7, <1>8, <3>1
    <3>3. whole[k] = Contents[k]
      BY <1>9, <2>1
    <3> QED
      BY <3>2, <3>3
  <2>2. CASE k > BytesInBuffer
    <3> HIDE DEF n
    <3>0. k \in (BytesInBuffer + 1)..(BytesInBuffer + n)
      BY <1>4, <2>2
    <3>1. k - BytesInBuffer \in 1..n /\ k - BytesInBuffer - 1 \in 0..(n - 1)
          /\ (k - BytesInBuffer - 1) + 1 = k - BytesInBuffer
      BY <1>4, <2>2
    <3>2. Wrap(tail + k - 1) = Wrap(head + (k - BytesInBuffer - 1))
      BY <1>5, <3>0
    <3>3. mem[Wrap(head + (k - BytesInBuffer - 1))] = wdata[k - BytesInBuffer]
      BY <1>2, <3>1 DEF Written
    <3>4. ~(k <= BytesInBuffer)
      BY <1>4, <2>2
    <3> HIDE DEF added, whole
    <3>5. added[k - BytesInBuffer] = wdata[k - BytesInBuffer]
      BY <1>6, <3>1
    <3>6. whole[k] = added[k - BytesInBuffer]
      BY <1>9, <3>4
    <3>7. Contents'[k] = mem[Wrap(tail + k - 1)]
      BY <1>8
    <3> QED
      BY <3>2, <3>3, <3>5, <3>6, <3>7
  <2> HIDE DEF n, whole
  <2> QED
    BY <1>4, <1>10, <2>1, <2>2
<1>11. Contents' = whole
  <2> HIDE DEF whole, Contents
  <2> QED
    BY <1>8, <1>9, <1>10, SeqEqual
<1> QED
  BY <1>2, <1>4, <1>7, <1>11

(* Storing xTail takes the block that was copied off the front. *)
LEMMA PublishTailDelivers ==
  ASSUME IInv, IInv', PublishTail
  PROVE  /\ Len(Contents) >= Trans
         /\ rbuf = SubSeq(Contents, 1, Trans)
         /\ Contents' = SubSeq(Contents, Trans + 1, Len(Contents))
<1> DEFINE b    == BytesInBuffer
           rest == SubSeq(Contents, Trans + 1, b)
           front == SubSeq(Contents, 1, Trans)
<1>1. TypeOK /\ TypeOK' /\ ReaderInv /\ rpc = "publish"
  BY DEF PublishTail, IInv
<1>2. rcount = Trans /\ b >= Trans /\ Copied(Trans)
  BY <1>1 DEF ReaderInv, BlockWhole
<1>3. UNCHANGED <<mem, head>> /\ tail' = Wrap(tail + Trans)
      /\ head \in Index /\ tail \in Index
  BY <1>1, <1>2 DEF PublishTail, TypeOK
<1>4. b \in Nat /\ Trans \in Nat /\ Trans >= 1
  BY <1>1, Conservation, LengthAssumption, TransAssumption
<1>5. Contents \in Seq(Byte) /\ Len(Contents) = b
      /\ \A k \in 1..b : Contents[k] = mem[Wrap(tail + k - 1)]
  BY <1>1, ContentsIsSeq
<1>6. /\ BytesInBuffer' = b - Trans
      /\ \A k \in 1..(b - Trans) :
           Wrap(Wrap(tail + Trans) + k - 1) = Wrap(tail + (k + Trans) - 1)
  <2>1. b = Wrap(Length + head - tail)
    BY DEF BytesInBuffer
  <2>2. BytesInBuffer' = Wrap(Length + head - Wrap(tail + Trans))
    BY <1>3 DEF BytesInBuffer
  <2> HIDE DEF b
  <2> QED
    BY <1>2, <1>3, <1>4, <2>1, <2>2, TailAdvances
<1>7. Contents' \in Seq(Byte) /\ Len(Contents') = b - Trans
      /\ \A k \in 1..(b - Trans) : Contents'[k] = mem[Wrap(tail + (k + Trans) - 1)]
  <2>1. Contents' \in Seq(Byte) /\ Len(Contents') = BytesInBuffer'
        /\ \A k \in 1..BytesInBuffer' : Contents'[k] = mem'[Wrap(tail' + k - 1)]
    BY <1>1, ContentsTypedNext DEF ContentsShape
  <2> HIDE DEF b, Contents
  <2> QED
    BY <1>3, <1>6, <2>1
<1>8. front \in Seq(Byte) /\ Len(front) = Trans
      /\ \A i \in 1..Trans : front[i] = Contents[i]
  <2> HIDE DEF Contents, b
  <2> QED
    BY <1>2, <1>4, <1>5, SubSeqProperties
<1>9. rest \in Seq(Byte) /\ Len(rest) = b - Trans
      /\ \A i \in 1..(b - Trans) : rest[i] = Contents[i + Trans]
  <2> HIDE DEF Contents, b
  <2> QED
    BY <1>2, <1>4, <1>5, SubSeqProperties
<1>10. rbuf = front
  <2>1. rbuf \in Seq(Byte) /\ Len(rbuf) = Trans
    BY <1>1, <1>4 DEF TypeOK
  <2>2. ASSUME NEW i \in 1..Trans
        PROVE  rbuf[i] = front[i]
    <3>1. i - 1 \in 0..(Trans - 1) /\ (i - 1) + 1 = i /\ i \in 1..b
          /\ tail + (i - 1) = tail + i - 1
      BY <1>2, <1>3, <1>4 DEF Index
    <3>2. rbuf[(i - 1) + 1] = mem[Wrap(tail + (i - 1))]
      BY <1>2, <3>1 DEF Copied
    <3> HIDE DEF front, b, Contents
    <3> QED
      BY <1>5, <1>8, <3>1, <3>2
  <2> HIDE DEF front
  <2> QED
    BY <1>8, <2>1, <2>2, SeqEqual
<1>11. Contents' = rest
  <2>1. ASSUME NEW i \in 1..(b - Trans)
        PROVE  Contents'[i] = rest[i]
    <3>1. i + Trans \in 1..b
      BY <1>4
    <3> HIDE DEF rest, b, Contents
    <3> QED
      BY <1>5, <1>7, <1>9, <3>1
  <2> HIDE DEF rest, Contents, b
  <2> QED
    BY <1>7, <1>9, <2>1, SeqEqual
<1> QED
  BY <1>2, <1>5, <1>10, <1>11

Mapped == <<Contents, Offered, Delivered>>

(* The new stream buffer is the empty queue. *)
LEMMA InitRefines == Init => Fifo!Init
<1> SUFFICES ASSUME Init PROVE Fifo!Init
  OBVIOUS
<1>1. BytesInBuffer = 0
  BY LengthAssumption DEF Init, BytesInBuffer, Wrap
<1>2. Contents = << >>
  BY <1>1 DEF Contents
<1> QED
  BY <1>2 DEF Init, Fifo!Init, Offered, Delivered

(* A write step that leaves xHead alone leaves the queue alone. *)
LEMMA WritingIsInvisible ==
  ASSUME IInv, IInv', WriterStep, head' = head
  PROVE  Contents' = Contents
<1>1. TypeOK /\ WriterInv /\ tail' = tail
  BY DEF IInv, WriterStep, SpaceFromISR, CheckSpace, NotifyWait, Woken,
         ClearWaiting, WriteFirst, WriteSecond, PublishHead, shared
<1>2. ASSUME NEW k \in 0..(BytesInBuffer - 1)
      PROVE  mem'[Wrap(tail + k)] = mem[Wrap(tail + k)]
  BY <1>1, WriterUntouched
<1> QED
  BY <1>1, <1>2, ContentsStable

(* A step of the sender accepts a prefix of its chunk or changes nothing. *)
LEMMA WriterRefines ==
  ASSUME IInv, IInv', WriterStep
  PROVE  Fifo!Next \/ UNCHANGED Mapped
<1>1. TypeOK /\ wdata \in Seq(Byte) /\ wpc # "idle" /\ Delivered' = Delivered
  BY DEF IInv, TypeOK, WriterStep, SpaceFromISR, CheckSpace, NotifyWait, Woken, ClearWaiting,
         WriteFirst, WriteSecond, PublishHead, readerVars, Delivered
<1>2. Len(wdata) \in Nat \ {0} /\ wdata # << >> /\ Offered = wdata
  BY <1>1, ChunksAssumption DEF IInv, WriterInv, Offered
<1>3. Contents \in Seq(Byte) /\ Len(Contents) \in 0..(Length - 1)
  BY <1>1, ContentsIsSeq
<1>4. CASE PublishHead
  <2>1. Offered' = << >>
    BY <1>4 DEF PublishHead, Offered
  <2>2. WriteCount \in 0..Len(Offered) /\ Len(Contents) + WriteCount <= Length - 1
        /\ Contents' = Contents \o SubSeq(Offered, 1, WriteCount)
    BY <1>2, <1>4, PublishHeadAppends
  <2>3. Fifo!Accept(WriteCount)
    BY <1>1, <1>2, <2>1, <2>2 DEF Fifo!Accept
  <2> QED
    BY <2>2, <2>3 DEF Fifo!Next
<1>5. CASE WriteFirst /\ WriteCount = 0
  <2>1. Offered' = << >> /\ Contents' = Contents
    BY <1>5, WritingIsInvisible DEF WriteFirst, Offered
  <2>2. SubSeq(Offered, 1, 0) = << >>
    BY <1>1, <1>2
  <2>3. Contents' = Contents \o SubSeq(Offered, 1, 0)
    BY <1>3, <2>1, <2>2
  <2>4. Fifo!Accept(0)
    BY <1>1, <1>2, <1>3, <2>1, <2>3 DEF Fifo!Accept
  <2>5. 0 \in 0..Len(Offered)
    BY <1>2
  <2> QED
    BY <2>4, <2>5 DEF Fifo!Next
<1>6. CASE ~PublishHead /\ ~(WriteFirst /\ WriteCount = 0)
  <2>1. head' = head /\ wpc' # "idle" /\ wdata' = wdata
    BY <1>6 DEF WriterStep, SpaceFromISR, CheckSpace, NotifyWait, Woken,
                ClearWaiting, WriteFirst, WriteSecond, shared
  <2>2. Contents' = Contents /\ Offered' = Offered
    BY <1>1, <2>1, WritingIsInvisible DEF Offered
  <2> QED
    BY <1>1, <2>2 DEF Mapped
<1> QED
  BY <1>4, <1>5, <1>6

(* A step of the DMA interrupt delivers a block, returns it or does nothing. *)
LEMMA ReaderRefines ==
  ASSUME IInv, IInv', ReaderStep
  PROVE  Fifo!Next \/ UNCHANGED Mapped
<1>1. TypeOK /\ BytesInBuffer \in Nat /\ Offered' = Offered
  BY Conservation DEF IInv, ReaderStep, PollBytes, BytesFromISR, ReadFirst, ReadSecond,
         PublishTail, ReceiveCompleted, writerVars, Offered
<1>2. rbuf # << >>
  BY <1>1, TransAssumption, LengthAssumption DEF TypeOK
<1>3. CASE PublishTail
  <2>1. Delivered = << >> /\ Delivered' = rbuf
    BY <1>3 DEF PublishTail, Delivered
  <2>2. Fifo!Deliver
    BY <1>1, <1>3, <2>1, PublishTailDelivers DEF Fifo!Deliver
  <2> QED
    BY <2>2 DEF Fifo!Next
<1>4. CASE ~PublishTail
  <2>1. UNCHANGED <<mem, head, tail>>
    BY <1>4 DEF ReaderStep, PollBytes, BytesFromISR, ReadFirst, ReadSecond,
                ReceiveCompleted, shared
  <2>2. Contents' = Contents
    BY <1>1, <2>1, ContentsStable
  <2>3. CASE ReceiveCompleted
    <3>1. Delivered = rbuf /\ Delivered' = << >>
      BY <2>3 DEF ReceiveCompleted, Delivered
    <3>2. Fifo!Release
      BY <1>1, <1>2, <2>2, <3>1 DEF Fifo!Release
    <3> QED
      BY <3>2 DEF Fifo!Next
  <2>4. CASE ~ReceiveCompleted
    <3>1. Delivered = << >> /\ Delivered' = << >>
      BY <1>4, <2>4 DEF ReaderStep, PollBytes, BytesFromISR, ReadFirst, ReadSecond, Delivered
    <3> QED
      BY <1>1, <2>2, <3>1 DEF Mapped
  <2> QED
    BY <2>3, <2>4
<1> QED
  BY <1>3, <1>4

(* Every step is a step of the queue or a stutter. *)
LEMMA StepRefines ==
  ASSUME IInv, IInv', [Next]_vars
  PROVE  [Fifo!Next]_(Fifo!fifoVars)
<1>0. TypeOK /\ Fifo!fifoVars = Mapped
  BY DEF IInv, Fifo!fifoVars, Mapped
<1>1. CASE UNCHANGED vars
  <2>1. Contents' = Contents
    BY <1>0, <1>1, ContentsStable DEF vars
  <2>2. Offered' = Offered /\ Delivered' = Delivered
    BY <1>1 DEF vars, Offered, Delivered
  <2> QED
    BY <1>0, <2>1, <2>2 DEF Mapped, Fifo!fifoVars
<1>2. ASSUME NEW mode \in Modes, NEW n \in Chunks, NEW d \in [1..n -> Byte], Send(mode, d)
      PROVE  Fifo!Next
  <2>1. Contents' = Contents
    BY <1>0, <1>2, ContentsStable DEF Send, shared
  <2>2. Offered = << >> /\ Offered' = d /\ Delivered' = Delivered
    BY <1>2 DEF Send, Offered, Delivered, readerVars
  <2>3. Fifo!Offer(d)
    BY <2>1, <2>2 DEF Fifo!Offer
  <2> QED
    BY <2>3 DEF Fifo!Next
<1>3. CASE WriterStep
  BY <1>3, WriterRefines DEF Mapped, Fifo!fifoVars
<1>4. CASE ReaderStep
  BY <1>4, ReaderRefines DEF Mapped, Fifo!fifoVars
<1> QED
  BY <1>1, <1>2, <1>3, <1>4 DEF Next

(***************************************************************************)
(* The stream buffer is the bounded byte queue the audio path relies on:   *)
(* whatever the interleaving of the memcpys and index stores of            *)
(* xStreamBufferSend(FromISR) and xStreamBufferReceiveFromISR, an accepted *)
(* prefix of a chunk is delivered once, in order, in whole blocks.         *)
(***************************************************************************)
THEOREM Refinement == Spec => ImplementsFifo
<1>1. Init => Fifo!Init
  BY InitRefines
<1>2. IInv /\ IInv' /\ [Next]_vars => [Fifo!Next]_(Fifo!fifoVars)
  BY StepRefines
<1> QED
  BY <1>1, <1>2, Invariance, PTL DEF Spec, ImplementsFifo, Fifo!Spec

=============================================================================
