------------------------- MODULE I2SPlaybackProofs -------------------------
(***************************************************************************)
(* Proofs about the playback, for every size of the stream buffer, the     *)
(* block, the packet and the frame, every threshold, and every sequence of *)
(* calls, packets and interrupts.                                          *)
(***************************************************************************)
EXTENDS I2SPlayback, SequenceTheorems, TLAPS

USE LengthAssumption, SizesAssumption, FrameAssumption, ThresholdsAssumption,
    LateAssumption, BoundsAssumption

Byte == Nat \X Nat

(* Bytes the interrupt has taken from the stream buffer. *)
Consumed == accepted - Len(queue)

TypeInv == TypeOK /\ dma \in [{0, 1} -> Seq(Byte)]

(* What the hardware and the interrupt handler know of each other.  A      *)
(* handler in which no block ended fills the half that is not played.  An  *)
(* error switches the stream off before the handle is unlocked, and until  *)
(* a first i2s_start succeeds nothing moves.                               *)
HardwareInv ==
  /\ isr = "callback" /\ ~tcif => fill = 1 - ct
  /\ straddles = 0 /\ isr # "idle" => ~tcif
  /\ straddles > 0 => Late
  /\ isr = "error" => failed
  /\ teif \/ failed => ~enabled /\ broken
  /\ failed => ~tcif /\ ~teif
  /\ dmaBusy => hwLength > 0
  /\ ~dmaBusy => isr = "idle" /\ ~tcif /\ ~teif /\ ~enabled
  /\ ~dmaBusy /\ ~broken => /\ hwLength = 0 /\ heard = 0
                           /\ dma = [h \in {0, 1} |-> Quiet(MaxTrans)]

(* The software takes the block size the hardware plays. *)
StartInv ==
  ~broken /\ dmaBusy => starting = "no" /\ hwLength = trans /\ trans % Frame = 0

(* The stream buffer continues what the interrupt has taken. *)
QueueInv ==
  ~broken => \A i \in 1..Len(queue) : queue[i][1] = Consumed + i

(* The half being played has been heard, and a handler in which a block    *)
(* ended has none to spoil.  As long as there was no such handler, the     *)
(* other half was heard, too, or it comes next and nothing is pending that *)
(* could overwrite it.                                                     *)
PlayInv ==
  ~broken =>
    /\ ~Fresh(ct)
    /\ tcif /\ isr # "idle" => ~Fresh(1 - ct)
    /\ straddles = 0 =>
         IF Fresh(1 - ct)
         THEN /\ ~tcif /\ isr = "idle"
              /\ Consumed = heard + hwLength
              /\ \A i \in 1..hwLength : dma[1 - ct][i][1] = heard + i
         ELSE Consumed = heard

(* The handler that runs, or the one to come, will spoil a refill: it was  *)
(* paid for by a block that ended inside a handler.                        *)
NextSpoils == \/ isr # "idle" /\ tcif
              \/ (isr # "idle" \/ tcif) /\ Fresh(1 - ct)

LossInv == ~broken => spoilt + (IF NextSpoils THEN 1 ELSE 0) <= straddles

(* The stream buffer and the halves begin with a frame. *)
ChannelInv ==
  ~cut /\ ~broken =>
    /\ Len(queue) % Frame = 0
    /\ \A i \in 1..Len(queue) : queue[i][2] = (i - 1) % Frame
    /\ \A h \in {0, 1} : \A i \in 1..MaxTrans :
         dma[h][i] # Silence => dma[h][i][2] = (i - 1) % Frame

(* An interrupt is never a block late: it has refilled the other half, has *)
(* reported that it could not, or is on its way.                           *)
ReportInv ==
  ~Late /\ ~broken /\ heard > 0 /\ notEnough = 0 => Fresh(1 - ct) \/ tcif \/ isr # "idle"

IInv == /\ TypeInv /\ HardwareInv /\ StartInv /\ QueueInv
        /\ PlayInv /\ LossInv /\ ChannelInv /\ ReportInv

-----------------------------------------------------------------------------
(* Remainders. *)
LEMMA Remainder ==
  ASSUME NEW q \in Int, NEW m \in Nat \ {0}, NEW r \in 0..(m - 1)
  PROVE  (q * m + r) % m = r
OBVIOUS

(* A multiple of the frame does not move a byte to another channel. *)
LEMMA SameChannel ==
  ASSUME NEW a \in Int, NEW b \in Int, NEW m \in Nat \ {0}, a % m = 0
  PROVE  (a + b) % m = b % m
<1> DEFINE qa == a \div m
           qb == b \div m
           r  == b % m
<1>1. qa \in Int /\ qb \in Int /\ r \in 0..(m - 1)
  OBVIOUS
<1>2. a = qa * m
  OBVIOUS
<1>3. b = qb * m + r
  OBVIOUS
<1> HIDE DEF qa, qb, r
<1>4. a + b = (qa + qb) * m + r
  BY <1>1, <1>2, <1>3
<1>5. (qa + qb) \in Int
  BY <1>1
<1>6. (a + b) % m = r
  BY <1>1, <1>4, <1>5, Remainder
<1> QED
  BY <1>6 DEF r

(* The HAL counts halfwords; a block of whole frames loses nothing. *)
LEMMA HalfwordsSuffice ==
  ASSUME NEW n \in Nat, n % Frame = 0
  PROVE  2 * (n \div 2) = n
<1>1. PICK k \in Int : n = k * Frame
  OBVIOUS
<1>2. PICK j \in Int : Frame = 2 * j
  OBVIOUS
<1>3. n = 2 * (k * j) /\ k * j \in Int
  BY <1>1, <1>2
<1> QED
  BY <1>3

(* Silence is a sequence of bytes. *)
LEMMA QuietSeq ==
  ASSUME NEW n \in Nat
  PROVE  /\ Quiet(n) \in Seq(Byte) /\ Len(Quiet(n)) = n
         /\ \A i \in 1..n : Quiet(n)[i] = Silence
BY DEF Quiet, Silence, Byte

LEMMA QuietHalf ==
  /\ MaxTrans \in Nat /\ Quiet(MaxTrans) \in Seq(Byte) /\ Len(Quiet(MaxTrans)) = MaxTrans
  /\ \A i \in 1..MaxTrans : Quiet(MaxTrans)[i] = Silence
<1>1. MaxTrans \in Nat
  OBVIOUS
<1> QED
  BY <1>1, QuietSeq

(* Two sequences of bytes, one after the other. *)
LEMMA ConcatBytes ==
  ASSUME NEW s \in Seq(Byte), NEW t \in Seq(Byte), NEW n \in Nat, n = Len(s) + Len(t)
  PROVE  /\ s \o t \in Seq(Byte) /\ Len(s \o t) = n
         /\ \A i \in 1..n : (s \o t)[i] = IF i <= Len(s) THEN s[i] ELSE t[i - Len(s)]
BY ConcatProperties

LEMMA LastIdValue ==
  ASSUME NEW s \in Seq(Byte)
  PROVE  LastId(s) = IF Len(s) = 0 THEN 0 ELSE s[Len(s)][1]
BY DEF LastId, Last, Byte

(* What the types give, with bytes named. *)
LEMMA TypeFacts ==
  ASSUME TypeInv
  PROVE  /\ queue \in Seq(Byte) /\ Len(queue) \in 0..(Length - 1)
         /\ trans \in 0..MaxTrans /\ hwLength \in 0..MaxTrans
         /\ MaxTrans \in Nat /\ Packet \in Nat /\ Length \in Nat
         /\ dma \in [{0, 1} -> Seq(Byte)]
         /\ \A h \in {0, 1} : dma[h] \in Seq(Byte) /\ Len(dma[h]) = MaxTrans
         /\ accepted \in Nat /\ heard \in Nat /\ ct \in {0, 1} /\ fill \in {0, 1}
         /\ notEnough \in 0..2 /\ packets \in 0..MaxPackets
         /\ straddles \in 0..MaxStraddles /\ straddles \in Nat /\ spoilt \in Nat
         /\ \A i \in 1..Len(queue) : queue[i] \in Byte
         /\ \A h \in {0, 1} : \A i \in 1..MaxTrans : dma[h][i] \in Byte
<1>1. queue \in Seq(Byte) /\ \A h \in {0, 1} : dma[h] \in Seq(Byte) /\ Len(dma[h]) = MaxTrans
  BY DEF TypeInv, TypeOK, Byte
<1>2. \A i \in 1..Len(queue) : queue[i] \in Byte
  BY <1>1, ElementOfSeq
<1>3. \A h \in {0, 1} : \A i \in 1..MaxTrans : dma[h][i] \in Byte
  BY <1>1, ElementOfSeq
<1>4. Len(queue) \in 0..(Length - 1)
  BY <1>1 DEF TypeInv, TypeOK, Capacity
<1> QED
  BY <1>1, <1>2, <1>3, <1>4 DEF TypeInv, TypeOK

(* The last byte of a block of m bytes. *)
LEMMA LastOfBlock ==
  ASSUME NEW s \in Seq(Byte), NEW m \in 0..Len(s)
  PROVE  /\ LastId(SubSeq(s, 1, m)) = IF m = 0 THEN 0 ELSE s[m][1]
         /\ LastId(SubSeq(s, 1, m)) \in Nat
<1>1. Len(s) \in Nat /\ \A i \in 1..Len(s) : s[i] \in Byte
  BY ElementOfSeq
<1>2. \A i \in 1..m : s[i] \in Byte
  BY <1>1
<1>3. SubSeq(s, 1, m) \in Seq(Byte) /\ Len(SubSeq(s, 1, m)) = m
      /\ \A i \in 1..m : SubSeq(s, 1, m)[i] = s[i]
  BY <1>1, <1>2, SubSeqProperties
<1>4. LastId(SubSeq(s, 1, m)) = IF m = 0 THEN 0 ELSE s[m][1]
  <2> DEFINE t == SubSeq(s, 1, m)
  <2>1. t \in Seq(Byte) /\ Len(t) = m /\ (m # 0 => t[m] = s[m])
    BY <1>1, <1>3
  <2> HIDE DEF t
  <2>2. LastId(t) = IF m = 0 THEN 0 ELSE s[m][1]
    BY <2>1, LastIdValue
  <2> QED
    BY <2>2 DEF t
<1>5. m # 0 => s[m][1] \in Nat
  BY <1>1 DEF Byte
<1> QED
  BY <1>4, <1>5

(* When the other half comes next. *)
LEMMA FreshIs ==
  ASSUME TypeInv, NEW h \in {0, 1}
  PROVE  /\ LastId(Block(h)) \in Nat
         /\ LastId(Block(h)) = IF hwLength = 0 THEN 0 ELSE dma[h][hwLength][1]
         /\ Fresh(h) <=> LastId(Block(h)) > heard
BY TypeFacts, LastOfBlock DEF Block, Fresh

(* A block that comes to be played counts as heard. *)
LEMMA HeardCovers ==
  ASSUME TypeInv, NEW half \in Seq(Byte), Len(half) = MaxTrans
  PROVE  /\ HeardWith(half) \in Nat /\ heard <= HeardWith(half)
         /\ ~(LastId(SubSeq(half, 1, hwLength)) > HeardWith(half))
         /\ HeardWith(half) = IF LastId(SubSeq(half, 1, hwLength)) > heard
                              THEN LastId(SubSeq(half, 1, hwLength)) ELSE heard
<1>1. heard \in Nat /\ LastId(SubSeq(half, 1, hwLength)) \in Nat
  BY TypeFacts, LastOfBlock
<1> QED
  BY <1>1 DEF HeardWith

(* What a packet does to the stream buffer. *)
LEMMA PacketEffect ==
  ASSUME TypeInv, SendPacket
  PROVE  \E n \in 0..Packet :
           /\ queue' \in Seq(Byte) /\ Len(queue') = Len(queue) + n
           /\ Len(queue') <= Capacity
           /\ \A i \in 1..Len(queue) : queue'[i] = queue[i]
           /\ \A i \in 1..n : queue'[Len(queue) + i] = <<accepted + i, (i - 1) % Frame>>
           /\ accepted' = accepted + n
           /\ cut' = (cut \/ n < Packet)
           /\ packets' \in 0..MaxPackets
<1> DEFINE n == Lesser(Packet, Room)
           new == [i \in 1..n |-> <<accepted + i, (i - 1) % Frame>>]
<1>1. n \in 0..Packet /\ Len(queue) + n <= Capacity
  <2>1. Packet \in Nat /\ Length \in Nat /\ Len(queue) \in 0..(Length - 1)
    BY TypeFacts
  <2> QED
    BY <2>1 DEF Lesser, Room, Capacity
<1>2. queue' = queue \o new /\ accepted' = accepted + n /\ cut' = (cut \/ n < Packet)
      /\ packets' = packets + 1 /\ packets < MaxPackets
  BY DEF SendPacket
<1> HIDE DEF n
<1>3. \A i \in 1..n : <<accepted + i, (i - 1) % Frame>> \in Byte
  <2> TAKE i \in 1..n
  <2>1. accepted + i \in Nat /\ i - 1 \in Nat
    BY <1>1, TypeFacts
  <2>2. (i - 1) % Frame \in Nat
    BY <2>1
  <2> QED
    BY <2>1, <2>2 DEF Byte
<1>4. new \in Seq(Byte) /\ Len(new) = n
      /\ \A i \in 1..n : new[i] = <<accepted + i, (i - 1) % Frame>>
  BY <1>1, <1>3
<1> HIDE DEF new
<1>5. queue \in Seq(Byte)
  BY TypeFacts
<1>6. /\ queue' \in Seq(Byte) /\ Len(queue') = Len(queue) + n
      /\ \A i \in 1..(Len(queue) + n) :
           queue'[i] = IF i <= Len(queue) THEN queue[i] ELSE new[i - Len(queue)]
  <2>1. Len(queue) + n \in Nat /\ Len(queue) + n = Len(queue) + Len(new)
    BY <1>1, <1>4, TypeFacts
  <2>2. /\ queue \o new \in Seq(Byte) /\ Len(queue \o new) = Len(queue) + n
        /\ \A i \in 1..(Len(queue) + n) :
             (queue \o new)[i] = IF i <= Len(queue) THEN queue[i] ELSE new[i - Len(queue)]
    BY <2>1, <1>4, <1>5, ConcatBytes
  <2> QED
    BY <2>2, <1>2
<1>7. \A i \in 1..n : queue'[Len(queue) + i] = new[i]
  <2> TAKE i \in 1..n
  <2>1. Len(queue) \in Nat /\ Len(queue) + i \in 1..(Len(queue) + n)
    BY <1>1
  <2>2. ~(Len(queue) + i <= Len(queue)) /\ Len(queue) + i - Len(queue) = i
    BY <2>1
  <2> QED
    BY <2>1, <2>2, <1>6
<1>8. \A i \in 1..Len(queue) : queue'[i] = queue[i]
  BY <1>1, <1>5, <1>6
<1>9. packets' \in 0..MaxPackets
  BY <1>2, TypeFacts
<1> QED
  BY <1>1, <1>2, <1>4, <1>6, <1>7, <1>8, <1>9

(* What a refill does to the stream buffer and the halves. *)
LEMMA RefillEffect ==
  ASSUME TypeInv, Refill, Enough
  PROVE  /\ queue' \in Seq(Byte) /\ Len(queue') = Len(queue) - trans
         /\ \A i \in 1..Len(queue') : queue'[i] = queue[trans + i]
         /\ dma' \in [{0, 1} -> Seq(Byte)] /\ Len(dma'[fill]) = MaxTrans
         /\ \A h \in {0, 1} \ {fill} : dma'[h] = dma[h]
         /\ \A i \in 1..MaxTrans :
              dma'[fill][i] = IF i <= trans THEN queue[i] ELSE dma[fill][i]
<1>1. queue \in Seq(Byte) /\ Len(queue) \in Nat /\ dma[fill] \in Seq(Byte)
  BY TypeFacts
<1>2. Taken = trans /\ trans <= Len(queue) /\ trans \in 0..MaxTrans
  BY TypeFacts DEF Taken, Lesser, Enough
<1> DEFINE head == SubSeq(queue, 1, trans)
           rest == SubSeq(dma[fill], trans + 1, MaxTrans)
<1>3. head \in Seq(Byte) /\ Len(head) = trans /\ \A i \in 1..trans : head[i] = queue[i]
  <2>1. \A i \in 1..trans : queue[i] \in Byte
    BY <1>1, <1>2, TypeFacts
  <2> QED
    BY <2>1, <1>2, SubSeqProperties
<1>4. /\ rest \in Seq(Byte) /\ Len(rest) = MaxTrans - trans
      /\ \A i \in 1..(MaxTrans - trans) : rest[i] = dma[fill][trans + i]
  <2>1. \A i \in (trans + 1)..MaxTrans : dma[fill][i] \in Byte
    BY <1>1, <1>2, TypeFacts
  <2>2. /\ rest \in Seq(Byte)
        /\ Len(rest) = IF trans + 1 <= MaxTrans THEN MaxTrans - (trans + 1) + 1 ELSE 0
        /\ \A i \in 1..(MaxTrans - (trans + 1) + 1) : rest[i] = dma[fill][(trans + 1) + i - 1]
    BY <2>1, <1>2, SubSeqProperties
  <2> HIDE DEF rest
  <2> QED
    BY <2>2, <1>2
<1>5. /\ queue' \in Seq(Byte) /\ Len(queue') = Len(queue) - trans
      /\ \A i \in 1..(Len(queue) - trans) : queue'[i] = queue[trans + i]
  <2>1. \A i \in (trans + 1)..Len(queue) : queue[i] \in Byte
    BY <1>1, <1>2, TypeFacts
  <2>2. queue' = SubSeq(queue, trans + 1, Len(queue))
    BY <1>2 DEF Refill, Rest
  <2>3. /\ queue' \in Seq(Byte)
        /\ Len(queue') = IF trans + 1 <= Len(queue) THEN Len(queue) - (trans + 1) + 1 ELSE 0
        /\ \A i \in 1..(Len(queue) - (trans + 1) + 1) : queue'[i] = queue[(trans + 1) + i - 1]
    BY <2>1, <2>2, <1>1, <1>2, SubSeqProperties
  <2>4. \A i \in 1..(Len(queue) - trans) : (trans + 1) + i - 1 = trans + i
    BY <1>1, <1>2
  <2>5. Len(queue) - (trans + 1) + 1 = Len(queue) - trans
    BY <1>1, <1>2
  <2>6. Len(queue') = Len(queue) - trans
    BY <2>3, <1>1, <1>2
  <2> QED
    BY <2>3, <2>4, <2>5, <2>6
<1>6. dma' = [dma EXCEPT ![fill] = head \o rest]
  BY <1>2 DEF Refill
<1> HIDE DEF head, rest
<1>7. /\ head \o rest \in Seq(Byte) /\ Len(head \o rest) = MaxTrans
      /\ \A i \in 1..MaxTrans :
           (head \o rest)[i] = IF i <= trans THEN queue[i] ELSE dma[fill][i]
  <2>1. MaxTrans \in Nat /\ MaxTrans = Len(head) + Len(rest)
    BY <1>2, <1>3, <1>4, TypeFacts
  <2>2. /\ head \o rest \in Seq(Byte) /\ Len(head \o rest) = MaxTrans
        /\ \A i \in 1..MaxTrans :
             (head \o rest)[i] = IF i <= Len(head) THEN head[i] ELSE rest[i - Len(head)]
    BY <2>1, <1>3, <1>4, ConcatBytes
  <2>3. ASSUME NEW i \in 1..MaxTrans
        PROVE  (head \o rest)[i] = IF i <= trans THEN queue[i] ELSE dma[fill][i]
    <3>1. CASE i <= trans
      BY <3>1, <2>2, <1>3
    <3>2. CASE ~(i <= trans)
      <4>1. i - trans \in 1..(MaxTrans - trans) /\ trans + (i - trans) = i
        BY <3>2, <1>2
      <4>2. (head \o rest)[i] = rest[i - trans]
        BY <3>2, <2>2, <1>3
      <4> QED
        BY <3>2, <4>1, <4>2, <1>4
    <3> QED
      BY <3>1, <3>2
  <2> QED
    BY <2>2, <2>3
<1>8. dma'[fill] = head \o rest /\ \A h \in {0, 1} \ {fill} : dma'[h] = dma[h]
  BY <1>6, TypeFacts
<1>9. dma' \in [{0, 1} -> Seq(Byte)]
  BY <1>6, <1>7, TypeFacts
<1> QED
  BY <1>5, <1>7, <1>8, <1>9

-----------------------------------------------------------------------------
(***************************************************************************)
(* Every step keeps the invariant.                                         *)
(***************************************************************************)
LEMMA FreshKept ==
  ASSUME UNCHANGED <<dma, hwLength, heard, ct>>
  PROVE  Fresh(ct)' = Fresh(ct) /\ Fresh(1 - ct)' = Fresh(1 - ct)
BY DEF Fresh, Block

LEMMA InitInv == Init => IInv
<1> SUFFICES ASSUME Init
             PROVE  IInv
  OBVIOUS
<1>1. MaxTrans \in Nat /\ Quiet(MaxTrans) \in Seq(Byte) /\ Len(Quiet(MaxTrans)) = MaxTrans
      /\ \A i \in 1..MaxTrans : Quiet(MaxTrans)[i] = Silence
  BY QuietHalf
<1>2. TypeInv
  <2>1. queue \in Seq(Byte) /\ Len(queue) = 0
    BY DEF Init
  <2>2. dma \in [{0, 1} -> Seq(Byte)] /\ \A h \in {0, 1} : Len(dma[h]) = MaxTrans
    BY <1>1 DEF Init
  <2>3. \A h \in {0, 1} : dma[h] \in Seq(Byte) /\ Len(dma[h]) = MaxTrans
    BY <2>2
  <2> QED
    <3>1. /\ trans \in 0..MaxTrans /\ hwLength \in 0..MaxTrans /\ Len(queue) <= Capacity
          /\ packets \in 0..MaxPackets /\ starts \in 0..MaxStarts
          /\ heard \in Nat /\ accepted \in Nat
          /\ ct \in {0, 1} /\ fill \in {0, 1} /\ notEnough \in 0..2
          /\ errors \in 0..MaxErrors /\ straddles \in 0..MaxStraddles /\ spoilt \in Nat
      BY <2>1 DEF Init, Capacity
    <3>2. /\ starting \in {"no", "create", "clear"} /\ result \in {"none", "ok", "error"}
          /\ state \in {"ready", "busy"} /\ isr \in {"idle", "cleared", "callback", "error"}
          /\ usb \in {"off", "up", "open"}
          /\ dmaBusy \in BOOLEAN /\ clock \in BOOLEAN /\ tcif \in BOOLEAN
          /\ cut \in BOOLEAN /\ broken \in BOOLEAN
          /\ enabled \in BOOLEAN /\ teif \in BOOLEAN /\ failed \in BOOLEAN
      BY Zenon DEF Init
    <3> QED
      BY <2>1, <2>2, <2>3, <3>1, <3>2 DEF TypeInv, TypeOK, Byte
<1>3. LastId(Block(0)) = 0 /\ LastId(Block(1)) = 0
  BY <1>2, FreshIs DEF Init
<1>4. ~Fresh(0) /\ ~Fresh(1) /\ heard = 0 /\ ct = 0
  BY <1>3 DEF Fresh, Init
<1>5. PlayInv
  <2>1. Consumed = 0
    <3>1. accepted = 0 /\ Len(queue) = 0
      BY DEF Init
    <3> QED
      BY <3>1 DEF Consumed
  <2>2. 1 - ct = 1
    BY <1>4
  <2> QED
    BY <1>4, <2>1, <2>2 DEF PlayInv, Init
<1>6. QueueInv /\ ReportInv /\ HardwareInv /\ StartInv /\ LossInv
  BY DEF Init, QueueInv, ReportInv, HardwareInv, StartInv, LossInv, NextSpoils
<1>7. ChannelInv
  BY <1>1 DEF Init, ChannelInv
<1> QED
  BY <1>2, <1>5, <1>6, <1>7 DEF IInv

(* A step that leaves the bytes, the interrupt and the block size alone. *)
LEMMA OtherStep ==
  ASSUME IInv,
         UNCHANGED <<queue, accepted, cut, trans, starting, broken, dmaBusy, hwLength, enabled,
                     isrVars, playVars, errorVars, lateVars>>
  PROVE  /\ HardwareInv' /\ StartInv' /\ QueueInv' /\ PlayInv'
         /\ LossInv' /\ ChannelInv' /\ ReportInv'
<1> USE DEF isrVars, playVars, errorVars, lateVars
<1>1. Fresh(ct)' = Fresh(ct) /\ Fresh(1 - ct)' = Fresh(1 - ct)
  BY FreshKept
<1>2. HardwareInv' /\ StartInv' /\ QueueInv' /\ ChannelInv'
  BY DEF IInv, HardwareInv, StartInv, QueueInv, ChannelInv, Consumed
<1>3. PlayInv' /\ ReportInv'
  BY <1>1 DEF IInv, PlayInv, ReportInv, Consumed
<1>4. LossInv'
  BY <1>1 DEF IInv, LossInv, NextSpoils
<1> QED
  BY <1>2, <1>3, <1>4

(* i2s_pause, i2s_resume, audio_v2_init, usbd_audio_close. *)
LEMMA ApiInv == IInv /\ (Pause \/ Resume \/ UsbInit \/ Close \/ UNCHANGED vars) => IInv'
<1> SUFFICES ASSUME IInv, Pause \/ Resume \/ UsbInit \/ Close \/ UNCHANGED vars
             PROVE  IInv'
  OBVIOUS
<1> USE DEF Pause, Resume, UsbInit, Close, vars, startVars, streamVars, hwVars, isrVars,
            playVars, errorVars, lateVars, usbVars
<1>1. TypeInv'
  <2>1. state' \in {"ready", "busy"} /\ clock' \in BOOLEAN /\ usb' \in {"off", "up", "open"}
    BY DEF IInv, TypeInv, TypeOK
  <2>2. UNCHANGED <<queue, trans, hwLength, starting, result, dmaBusy, ct, tcif, heard, accepted,
                    dma, isr, fill, notEnough, cut, broken, packets, starts,
                    enabled, teif, failed, errors, straddles, spoilt>>
    OBVIOUS
  <2> QED
    BY <2>1, <2>2 DEF IInv, TypeInv, TypeOK
<1>2. UNCHANGED <<queue, accepted, cut, trans, starting, broken, dmaBusy, hwLength, enabled,
                  isrVars, playVars, errorVars, lateVars>>
  OBVIOUS
<1> QED
  BY <1>1, <1>2, OtherStep DEF IInv

(* i2s_start finds an empty stream buffer and an idle stream, or broken is *)
(* set and promises nothing more.                                          *)
LEMMA StartCreateInv ==
  ASSUME IInv, NEW threshold \in Thresholds, StartCreate(threshold)
  PROVE  IInv'
<1> USE DEF StartCreate, hwVars, playVars, isrVars, errorVars, lateVars, usbVars
<1>1. queue' = << >> /\ Len(queue') = 0 /\ queue' \in Seq(Byte)
  OBVIOUS
<1>2. trans' \in 0..MaxTrans
  BY DEF Lesser
<1>3. TypeInv'
  BY <1>1, <1>2 DEF IInv, TypeInv, TypeOK, Capacity, Byte
<1>4. HardwareInv' /\ StartInv'
  BY DEF IInv, HardwareInv, StartInv
<1>5. QueueInv'
  BY <1>1 DEF QueueInv
<1>6. Fresh(ct)' = Fresh(ct) /\ Fresh(1 - ct)' = Fresh(1 - ct)
  BY FreshKept
<1>7. ~broken' => ~broken /\ ~dmaBusy /\ Consumed' = Consumed
  BY <1>1 DEF Consumed
<1>8. PlayInv'
  BY <1>6, <1>7 DEF IInv, PlayInv
<1>9. ReportInv' /\ LossInv'
  BY <1>6, <1>7 DEF IInv, ReportInv, LossInv, NextSpoils
<1>10. ChannelInv'
  <2>1. 0 % Frame = 0
    OBVIOUS
  <2> QED
    BY <1>1, <1>7, <2>1 DEF IInv, ChannelInv
<1> QED
  BY <1>3, <1>4, <1>5, <1>8, <1>9, <1>10 DEF IInv

(* Both halves were silent before, unless the stream is in use. *)
LEMMA StartClearInv == IInv /\ StartClear => IInv'
<1> SUFFICES ASSUME IInv, StartClear
             PROVE  IInv'
  OBVIOUS
<1> USE DEF StartClear, hwVars, isrVars, errorVars, lateVars, usbVars
<1>1. Len(queue) \in 0..Capacity /\ MaxTrans \in Nat /\ dma \in [{0, 1} -> Seq(Byte)]
      /\ \A h \in {0, 1} : Len(dma[h]) = MaxTrans
  BY TypeFacts DEF IInv, Capacity
<1>2. Quiet(MaxTrans) \in Seq(Byte) /\ Len(Quiet(MaxTrans)) = MaxTrans
  BY <1>1, QuietSeq
<1>3. queue' \in Seq(Byte) /\ Len(queue') = Len(queue)
  BY <1>1, QuietSeq
<1>4. PICK stale \in SUBSET {0, 1} :
        dma' = [h \in {0, 1} |-> IF h \in stale THEN dma[h] ELSE Quiet(MaxTrans)]
  OBVIOUS
<1>5. dma' \in [{0, 1} -> Seq(Byte)] /\ \A h \in {0, 1} : Len(dma'[h]) = MaxTrans
  BY <1>1, <1>2, <1>4
<1>6. TypeInv'
  BY <1>1, <1>3, <1>5 DEF IInv, TypeInv, TypeOK, Byte
<1>7. ~dmaBusy /\ ~broken => dma' = dma
  <2> SUFFICES ASSUME ~dmaBusy, ~broken
               PROVE  dma' = dma
    OBVIOUS
  <2>1. dma = [h \in {0, 1} |-> Quiet(MaxTrans)]
    BY DEF IInv, HardwareInv
  <2> QED
    BY <1>4, <2>1
<1>8. HardwareInv'
  BY <1>7 DEF IInv, HardwareInv
<1>9. ~broken' => ~broken /\ ~dmaBusy /\ queue' = queue
  <2> SUFFICES ASSUME ~broken'
               PROVE  ~broken /\ ~dmaBusy /\ queue' = queue
    OBVIOUS
  <2>1. ~broken /\ queue = << >>
    OBVIOUS
  <2>2. ~dmaBusy
    BY <2>1 DEF IInv, StartInv
  <2>3. queue' = queue
    BY <2>1 DEF Quiet
  <2> QED
    BY <2>1, <2>2, <2>3
<1>10. ~dmaBusy /\ ~broken => Fresh(ct)' = Fresh(ct) /\ Fresh(1 - ct)' = Fresh(1 - ct)
  BY <1>7, FreshKept
<1>11. StartInv' /\ QueueInv'
  BY <1>9 DEF IInv, StartInv, QueueInv, Consumed
<1>12. PlayInv' /\ ReportInv' /\ LossInv'
  <2> SUFFICES ASSUME ~broken'
               PROVE  PlayInv' /\ ReportInv' /\ LossInv'
    BY DEF PlayInv, ReportInv, LossInv
  <2>1. Fresh(ct)' = Fresh(ct) /\ Fresh(1 - ct)' = Fresh(1 - ct) /\ dma' = dma
    BY <1>7, <1>9, <1>10
  <2>2. LossInv'
    BY <2>1, <1>9 DEF IInv, LossInv, NextSpoils
  <2> QED
    BY <2>1, <2>2, <1>9 DEF IInv, PlayInv, ReportInv, Consumed
<1>13. ChannelInv'
  BY <1>7, <1>9 DEF IInv, ChannelInv
<1> QED
  BY <1>6, <1>8, <1>11, <1>12, <1>13 DEF IInv

(* A start that succeeds finds the stream off, and without an error before *)
(* it programs the block size the software takes, into silent halves.      *)
LEMMA StartHalInv == IInv /\ StartHal => IInv'
<1> SUFFICES ASSUME IInv, StartHal
             PROVE  IInv'
  OBVIOUS
<1> USE DEF StartHal, streamVars, isrVars, lateVars, usbVars
<1>1. CASE ~HalStarts
  <2>1. /\ starting' = "no"
        /\ UNCHANGED <<trans, queue, accepted, cut, ct, tcif, dma, heard, isr, fill, notEnough,
                       straddles, spoilt, broken, dmaBusy, hwLength, enabled, teif, failed>>
    BY <1>1 DEF hwVars
  <2>2. TypeInv'
    BY <1>1 DEF IInv, TypeInv, TypeOK, hwVars
  <2>3. Fresh(ct)' = Fresh(ct) /\ Fresh(1 - ct)' = Fresh(1 - ct)
    BY <2>1, FreshKept
  <2>4. HardwareInv' /\ StartInv' /\ QueueInv' /\ ChannelInv'
    BY <2>1 DEF IInv, HardwareInv, StartInv, QueueInv, ChannelInv, Consumed
  <2>5. PlayInv' /\ ReportInv' /\ LossInv'
    BY <2>1, <2>3 DEF IInv, PlayInv, ReportInv, LossInv, NextSpoils, Consumed
  <2> QED
    BY <2>2, <2>4, <2>5 DEF IInv
<1>2. CASE HalStarts
  <2>1. /\ ~dmaBusy /\ dmaBusy' /\ starting' = "no" /\ ~tcif' /\ ~teif' /\ ~failed'
        /\ trans \div 2 > 0 /\ hwLength' = 2 * (trans \div 2)
        /\ broken' = (broken \/ trans % Frame # 0)
        /\ UNCHANGED <<trans, queue, accepted, cut, ct, dma, heard, isr, fill, notEnough,
                       straddles, spoilt>>
    BY <1>2 DEF HalStarts
  <2>2. isr = "idle"
    OBVIOUS
  <2>3. hwLength' \in 0..MaxTrans /\ hwLength' > 0
    <3>1. trans \in 0..MaxTrans /\ MaxTrans \in Nat
      BY TypeFacts DEF IInv
    <3> QED
      BY <2>1, <3>1
  <2>4. TypeInv'
    BY <1>2, <2>3 DEF IInv, TypeInv, TypeOK
  <2>5. HardwareInv'
    BY <2>1, <2>2, <2>3 DEF IInv, HardwareInv
  <2>6. StartInv'
    <3> SUFFICES ASSUME ~broken'
                 PROVE  starting' = "no" /\ hwLength' = trans' /\ trans' % Frame = 0
      BY DEF StartInv
    <3>1. trans \in Nat /\ trans % Frame = 0
      <4>1. trans \in Nat
        BY TypeFacts DEF IInv
      <4>2. ~(trans % Frame # 0)
        BY <2>1
      <4> QED
        BY <4>1, <4>2
    <3>2. 2 * (trans \div 2) = trans
      BY <3>1, HalfwordsSuffice
    <3> QED
      BY <2>1, <3>1, <3>2
  <2>7. ~broken' => ~broken
    BY <2>1
  <2>8. QueueInv' /\ ChannelInv'
    BY <2>1, <2>7 DEF IInv, QueueInv, ChannelInv, Consumed
  <2>9. ASSUME ~broken'
        PROVE  PlayInv' /\ ReportInv' /\ LossInv'
    <3>1. hwLength = 0 /\ heard = 0 /\ dma = [h \in {0, 1} |-> Quiet(MaxTrans)]
      BY <2>1, <2>7, <2>9 DEF IInv, HardwareInv
    <3>2. LastId(Block(0))' = 0 /\ LastId(Block(1))' = 0
      <4>1. hwLength' \in 0..Len(Quiet(MaxTrans)) /\ Quiet(MaxTrans)[hwLength'] = Silence
        BY <2>3, QuietHalf
      <4>2. LastId(SubSeq(Quiet(MaxTrans), 1, hwLength')) = 0
        BY <4>1, <2>3, QuietHalf, LastOfBlock DEF Silence
      <4>3. dma'[0] = Quiet(MaxTrans) /\ dma'[1] = Quiet(MaxTrans)
        BY <2>1, <3>1
      <4> QED
        BY <4>2, <4>3 DEF Block
    <3>3. \A h \in {0, 1} : ~(LastId(SubSeq(dma'[h], 1, hwLength')) > heard')
      BY <2>1, <3>1, <3>2 DEF Block
    <3>4. ct \in {0, 1} /\ 1 - ct \in {0, 1} /\ ct' = ct
      BY <2>1, TypeFacts DEF IInv
    <3>5. ~Fresh(ct)' /\ ~Fresh(1 - ct)'
      BY <3>3, <3>4 DEF Fresh, Block
    <3>6. straddles = 0 => Consumed = heard
      <4>1. LastId(Block(1 - ct)) = 0
        BY <3>1, <3>4, FreshIs DEF IInv
      <4>2. ~Fresh(1 - ct)
        BY <4>1, <3>1 DEF Fresh
      <4> QED
        BY <4>2, <2>7, <2>9 DEF IInv, PlayInv
    <3>7. PlayInv'
      BY <3>5, <3>6, <2>1, <2>2 DEF PlayInv, Consumed
    <3>8. spoilt <= straddles /\ spoilt \in Nat /\ straddles \in Nat
      BY <2>7, <2>9, TypeFacts DEF IInv, LossInv
    <3>9. LossInv'
      BY <2>1, <2>2, <3>5, <3>8 DEF LossInv, NextSpoils
    <3> QED
      BY <3>1, <3>7, <3>9, <2>1 DEF ReportInv
  <2>10. PlayInv' /\ ReportInv' /\ LossInv'
    BY <2>9 DEF PlayInv, ReportInv, LossInv
  <2> QED
    BY <2>4, <2>5, <2>6, <2>8, <2>10 DEF IInv
<1> QED
  BY <1>1, <1>2

(* A packet comes behind what is there; what is cut off is the end of a    *)
(* packet, never of what came before.                                      *)
LEMMA PacketInv == IInv /\ (Open \/ IsoOut) => IInv'
<1> SUFFICES ASSUME IInv, Open \/ IsoOut
             PROVE  IInv'
  OBVIOUS
<1>1. /\ SendPacket /\ isr = "idle" /\ usb' = "open"
      /\ UNCHANGED <<startVars, hwVars, playVars, isrVars, errorVars, lateVars>>
  BY DEF Open, IsoOut
<1> USE DEF startVars, hwVars, playVars, isrVars, errorVars, lateVars
<1>2. TypeInv
  BY DEF IInv
<1>3. PICK n \in 0..Packet :
           /\ queue' \in Seq(Byte) /\ Len(queue') = Len(queue) + n
           /\ Len(queue') <= Capacity
           /\ \A i \in 1..Len(queue) : queue'[i] = queue[i]
           /\ \A i \in 1..n : queue'[Len(queue) + i] = <<accepted + i, (i - 1) % Frame>>
           /\ accepted' = accepted + n
           /\ cut' = (cut \/ n < Packet)
           /\ packets' \in 0..MaxPackets
  BY <1>1, <1>2, PacketEffect
<1>4. Len(queue) \in Nat /\ accepted \in Nat /\ n \in Nat /\ Packet \in Nat
  BY <1>2, TypeFacts
<1>5. TypeInv'
  <2>1. cut' \in BOOLEAN
    BY <1>3
  <2>2. accepted' \in Nat
    BY <1>3, <1>4
  <2> QED
    BY <1>1, <1>3, <2>1, <2>2 DEF IInv, TypeInv, TypeOK, Byte
<1>6. HardwareInv' /\ StartInv'
  BY <1>1 DEF IInv, HardwareInv, StartInv
<1>7. Consumed' = Consumed
  BY <1>3, <1>4 DEF Consumed
<1>8. Fresh(ct)' = Fresh(ct) /\ Fresh(1 - ct)' = Fresh(1 - ct)
  BY <1>1, FreshKept
<1>9. PlayInv' /\ ReportInv' /\ LossInv'
  BY <1>1, <1>7, <1>8 DEF IInv, PlayInv, ReportInv, LossInv, NextSpoils
<1>10. ASSUME NEW i \in 1..Len(queue'), ~(i <= Len(queue))
       PROVE  /\ i - Len(queue) \in 1..n /\ Len(queue) + (i - Len(queue)) = i
              /\ queue'[i] = <<accepted + (i - Len(queue)), (i - Len(queue) - 1) % Frame>>
  <2>1. i - Len(queue) \in 1..n /\ Len(queue) + (i - Len(queue)) = i
    BY <1>3, <1>4, <1>10
  <2> QED
    BY <1>3, <2>1
<1>11. QueueInv'
  <2> SUFFICES ASSUME ~broken, NEW i \in 1..Len(queue')
               PROVE  queue'[i][1] = Consumed + i
    BY <1>1, <1>7 DEF QueueInv
  <2>1. CASE i <= Len(queue)
    <3>1. i \in 1..Len(queue)
      BY <2>1, <1>4
    <3> QED
      BY <3>1, <1>3 DEF IInv, QueueInv
  <2>2. CASE ~(i <= Len(queue))
    <3>1. queue'[i][1] = accepted + (i - Len(queue))
      BY <2>2, <1>10
    <3> QED
      BY <3>1, <1>4 DEF Consumed
  <2> QED
    BY <2>1, <2>2
<1>12. ChannelInv'
  <2> SUFFICES ASSUME ~broken, ~cut'
               PROVE  /\ Len(queue') % Frame = 0
                      /\ \A i \in 1..Len(queue') : queue'[i][2] = (i - 1) % Frame
                      /\ \A h \in {0, 1} : \A i \in 1..MaxTrans :
                           dma'[h][i] # Silence => dma'[h][i][2] = (i - 1) % Frame
    BY <1>1 DEF ChannelInv
  <2>1. ~cut /\ n = Packet
    <3>1. ~cut /\ ~(n < Packet)
      BY <1>3
    <3> QED
      BY <3>1, <1>4
  <2>2. /\ Len(queue) % Frame = 0
        /\ \A i \in 1..Len(queue) : queue[i][2] = (i - 1) % Frame
        /\ \A h \in {0, 1} : \A i \in 1..MaxTrans :
             dma[h][i] # Silence => dma[h][i][2] = (i - 1) % Frame
    BY <2>1 DEF IInv, ChannelInv
  <2>3. Len(queue') % Frame = 0
    <3>1. Packet % Frame = 0 /\ Packet \in Int /\ Frame \in Nat \ {0} /\ Len(queue) \in Int
      BY <1>4
    <3>2. (Len(queue) + Packet) % Frame = Packet % Frame
      BY <3>1, <2>2, SameChannel, Zenon
    <3> QED
      BY <3>1, <3>2, <2>1, <1>3
  <2>4. ASSUME NEW i \in 1..Len(queue')
        PROVE  queue'[i][2] = (i - 1) % Frame
    <3>1. CASE i <= Len(queue)
      <4>1. i \in 1..Len(queue)
        BY <3>1, <1>4
      <4> QED
        BY <4>1, <1>3, <2>2
    <3>2. CASE ~(i <= Len(queue))
      <4>1. queue'[i][2] = (i - Len(queue) - 1) % Frame
        BY <3>2, <1>10
      <4>2. i - 1 = Len(queue) + (i - Len(queue) - 1) /\ i - Len(queue) - 1 \in Int
        BY <1>4
      <4>3. Frame \in Nat \ {0} /\ Len(queue) \in Int
        BY <1>4
      <4>4. (Len(queue) + (i - Len(queue) - 1)) % Frame = (i - Len(queue) - 1) % Frame
        BY <4>2, <4>3, <2>2, SameChannel, Zenon
      <4> QED
        BY <4>1, <4>2, <4>4
    <3> QED
      BY <3>1, <3>2
  <2> QED
    BY <2>2, <2>3, <2>4, <1>1
<1> QED
  BY <1>5, <1>6, <1>9, <1>11, <1>12 DEF IInv

(* The block that begins was heard before or continues the last new one.   *)
(* The half that ends has been heard; it is the one the interrupt fills.   *)
LEMMA BlockEndInv == IInv /\ BlockEnd => IInv'
<1> SUFFICES ASSUME IInv, BlockEnd
             PROVE  IInv'
  OBVIOUS
<1> DEFINE id == LastId(Block(1 - ct))
<1>1. /\ clock /\ enabled /\ ct' = 1 - ct /\ tcif'
      /\ tcif \/ isr # "idle" => Late
      /\ straddles' = IF isr = "idle" THEN straddles ELSE straddles + 1
      /\ UNCHANGED <<queue, accepted, cut, trans, starting, broken, dmaBusy, hwLength, enabled,
                     dma, isr, fill, notEnough, teif, failed, spoilt>>
  BY DEF BlockEnd, streamVars, startVars, hwVars, isrVars, errorVars
<1>2. ct \in {0, 1} /\ 1 - ct \in {0, 1} /\ 1 - ct' = ct /\ heard \in Nat /\ hwLength \in Nat
      /\ accepted \in Nat /\ Len(queue) \in Nat /\ straddles \in Nat /\ spoilt \in Nat
  BY <1>1, TypeFacts DEF IInv
<1>3. id \in Nat /\ LastId(Block(ct)) \in Nat
      /\ id = (IF hwLength = 0 THEN 0 ELSE dma[1 - ct][hwLength][1])
      /\ (Fresh(1 - ct) <=> id > heard) /\ (Fresh(ct) <=> LastId(Block(ct)) > heard)
  BY <1>2, FreshIs DEF IInv
<1>4. heard' = IF id > heard THEN id ELSE heard
  BY DEF BlockEnd, HeardWith, Block
<1> HIDE DEF id
<1>5. heard' \in Nat /\ heard <= heard' /\ id <= heard'
  BY <1>2, <1>3, <1>4
<1>6. dmaBusy /\ hwLength > 0 /\ ~teif /\ ~failed
  BY <1>1 DEF IInv, HardwareInv
<1>7. TypeInv'
  <2>1. ct' \in {0, 1} /\ tcif' \in BOOLEAN
    BY <1>2, <1>1 DEF BlockEnd
  <2>2. straddles' \in 0..MaxStraddles
    <3>1. straddles \in 0..MaxStraddles /\ (isr # "idle" => straddles < MaxStraddles)
      BY TypeFacts DEF IInv, BlockEnd
    <3> QED
      BY <3>1, <1>1
  <2> QED
    BY <1>5, <2>1, <2>2 DEF IInv, TypeInv, TypeOK, BlockEnd, streamVars, startVars, hwVars,
                            isrVars, errorVars, usbVars
<1>8. StartInv' /\ QueueInv' /\ ChannelInv'
  BY <1>1 DEF IInv, StartInv, QueueInv, ChannelInv, Consumed
<1>9. HardwareInv'
  BY <1>1, <1>2, <1>6 DEF IInv, HardwareInv
<1>10. ReportInv'
  BY <1>1 DEF ReportInv
<1>11. ~broken => ~Fresh(ct)' /\ ~Fresh(1 - ct)'
  <2> SUFFICES ASSUME ~broken
               PROVE  ~Fresh(ct)' /\ ~Fresh(1 - ct)'
    OBVIOUS
  <2>1. ~Fresh(ct)'
    <3>1. LastId(SubSeq(dma'[ct'], 1, hwLength')) = id
      BY <1>1 DEF id, Block
    <3>2. ~(id > heard')
      BY <1>2, <1>3, <1>5
    <3> QED
      BY <3>1, <3>2 DEF Fresh, Block
  <2>2. ~Fresh(1 - ct)'
    <3>1. LastId(SubSeq(dma'[1 - ct'], 1, hwLength')) = LastId(Block(ct))
      BY <1>1, <1>2 DEF Block
    <3>2. ~(LastId(Block(ct)) > heard')
      BY <1>2, <1>3, <1>5 DEF IInv, PlayInv
    <3> QED
      BY <3>1, <3>2 DEF Fresh, Block
  <2> QED
    BY <2>1, <2>2
<1>12. PlayInv'
  <2> SUFFICES ASSUME ~broken, straddles' = 0
               PROVE  Consumed' = heard'
    BY <1>1, <1>11 DEF PlayInv
  <2>1. straddles = 0
    BY <1>1, <1>2
  <2>2. IF Fresh(1 - ct)
        THEN /\ Consumed = heard + hwLength
             /\ \A i \in 1..hwLength : dma[1 - ct][i][1] = heard + i
        ELSE Consumed = heard
    BY <2>1 DEF IInv, PlayInv
  <2>3. Consumed' = Consumed
    BY <1>1 DEF Consumed
  <2>4. CASE Fresh(1 - ct)
    <3>1. dma[1 - ct][hwLength][1] = heard + hwLength
      BY <2>4, <2>2, <1>2, <1>6
    <3> QED
      BY <2>4, <3>1, <2>2, <2>3, <1>2, <1>3, <1>4, <1>6
  <2>5. CASE ~Fresh(1 - ct)
    BY <2>5, <2>2, <2>3, <1>3, <1>4
  <2> QED
    BY <2>4, <2>5
<1>13. LossInv'
  <2> SUFFICES ASSUME ~broken
               PROVE  spoilt' + (IF NextSpoils' THEN 1 ELSE 0) <= straddles'
    BY <1>1 DEF LossInv
  <2>1. spoilt' = spoilt /\ spoilt <= straddles
    BY <1>1, <1>2 DEF IInv, LossInv
  <2>2. CASE isr = "idle"
    <3>1. ~NextSpoils'
      BY <2>2, <1>1, <1>11 DEF NextSpoils
    <3> QED
      BY <2>1, <2>2, <3>1, <1>1, <1>2
  <2>3. CASE isr # "idle"
    BY <2>1, <2>3, <1>1, <1>2
  <2> QED
    BY <2>2, <2>3
<1> QED
  BY <1>7, <1>8, <1>9, <1>10, <1>12, <1>13 DEF IInv

(* A stream that fails is off at once; its handle stays locked until the   *)
(* handler has seen the error.                                             *)
LEMMA ErrorInv == IInv /\ (TransferError \/ IrqError) => IInv'
<1> SUFFICES ASSUME IInv, TransferError \/ IrqError
             PROVE  IInv'
  OBVIOUS
<1>1. CASE TransferError
  <2>1. /\ enabled /\ ~enabled' /\ teif' /\ broken' /\ errors < MaxErrors /\ errors' = errors + 1
        /\ UNCHANGED <<queue, accepted, cut, trans, starting, result, starts, state, dmaBusy,
                       clock, hwLength, ct, tcif, dma, heard, isr, fill, notEnough, failed,
                       straddles, spoilt, usb, packets>>
    BY <1>1 DEF TransferError, streamVars, playVars, isrVars, lateVars, usbVars
  <2>2. enabled' \in BOOLEAN /\ teif' \in BOOLEAN /\ broken' \in BOOLEAN
    BY <1>1 DEF TransferError
  <2>3. errors' \in 0..MaxErrors
    BY <2>1 DEF IInv, TypeInv, TypeOK
  <2>4. TypeInv'
    BY <2>1, <2>2, <2>3 DEF IInv, TypeInv, TypeOK
  <2>5. HardwareInv'
    BY <2>1 DEF IInv, HardwareInv
  <2> QED
    BY <2>1, <2>4, <2>5 DEF IInv, StartInv, QueueInv, PlayInv, LossInv, ChannelInv, ReportInv
<1>2. CASE IrqError
  <2>1. /\ isr = "error" /\ isr' = "idle" /\ ~dmaBusy'
        /\ UNCHANGED <<queue, accepted, cut, trans, starting, result, starts, state, broken,
                       clock, hwLength, enabled, ct, tcif, dma, heard, fill, notEnough, teif,
                       failed, errors, straddles, spoilt, usb, packets>>
    BY <1>2 DEF IrqError, streamVars, startVars, playVars, errorVars, lateVars, usbVars
  <2>2. failed /\ broken /\ ~enabled /\ ~tcif /\ ~teif
    BY <2>1 DEF IInv, HardwareInv
  <2>3. dmaBusy' \in BOOLEAN
    BY <1>2 DEF IrqError
  <2>4. TypeInv'
    BY <2>1, <2>3 DEF IInv, TypeInv, TypeOK
  <2>5. HardwareInv'
    BY <2>1, <2>2 DEF IInv, HardwareInv
  <2> QED
    BY <2>1, <2>2, <2>4, <2>5 DEF IInv, StartInv, QueueInv, PlayInv, LossInv, ChannelInv, ReportInv
<1> QED
  BY <1>1, <1>2

(* The handler, up to its callback.  A completion it takes without a block *)
(* that ended inside a handler leaves it a half that has been heard.       *)
LEMMA IrqClearInv == IInv /\ IrqClear => IInv'
<1> SUFFICES ASSUME IInv, IrqClear
             PROVE  IInv'
  OBVIOUS
<1>1. /\ isr = "idle"
      /\ tcif \/ teif
      /\ ~tcif' /\ ~teif' /\ failed' = (failed \/ teif)
      /\ isr' = IF tcif THEN "cleared" ELSE "error"
      /\ UNCHANGED <<queue, accepted, cut, trans, starting, result, starts, broken, state, dmaBusy,
                     clock, hwLength, enabled, ct, dma, heard, fill, notEnough, errors,
                     straddles, spoilt, usb, packets>>
  BY DEF IrqClear, streamVars, startVars, hwVars, lateVars, usbVars
<1>2. TypeInv'
  <2>1. isr' \in {"idle", "cleared", "callback", "error"}
    BY <1>1
  <2>2. tcif' \in BOOLEAN /\ teif' \in BOOLEAN /\ failed' \in BOOLEAN
    BY DEF IrqClear, IInv, TypeInv, TypeOK
  <2> QED
    BY <1>1, <2>1, <2>2 DEF IInv, TypeInv, TypeOK
<1>3. HardwareInv'
  BY <1>1 DEF IInv, HardwareInv
<1>4. StartInv' /\ QueueInv' /\ ChannelInv'
  BY <1>1 DEF IInv, StartInv, QueueInv, ChannelInv, Consumed
<1>5. Fresh(ct)' = Fresh(ct) /\ Fresh(1 - ct)' = Fresh(1 - ct)
  BY <1>1, FreshKept
<1>6. ~broken => tcif
  BY <1>1 DEF IInv, HardwareInv
<1>7. PlayInv' /\ ReportInv'
  BY <1>1, <1>5, <1>6 DEF IInv, PlayInv, ReportInv, Consumed
<1>8. LossInv'
  <2> SUFFICES ASSUME ~broken
               PROVE  spoilt + (IF NextSpoils' THEN 1 ELSE 0) <= straddles
    BY <1>1 DEF LossInv
  <2>1. NextSpoils' <=> NextSpoils
    <3>1. NextSpoils <=> Fresh(1 - ct)
      BY <1>1, <1>6 DEF NextSpoils
    <3>2. isr' # "idle" /\ ~tcif'
      BY <1>1
    <3>3. NextSpoils' <=> Fresh(1 - ct)'
      BY <3>2 DEF NextSpoils
    <3> QED
      BY <3>1, <3>3, <1>5
  <2>2. spoilt + (IF NextSpoils THEN 1 ELSE 0) <= straddles
    BY DEF IInv, LossInv
  <2> HIDE DEF NextSpoils
  <2> QED
    BY <2>1, <2>2
<1> QED
  BY <1>2, <1>3, <1>4, <1>7, <1>8 DEF IInv

LEMMA IrqSelectInv == IInv /\ IrqSelect => IInv'
<1> SUFFICES ASSUME IInv, IrqSelect
             PROVE  IInv'
  OBVIOUS
<1>1. /\ isr = "cleared" /\ isr' = "callback"
      /\ UNCHANGED <<queue, accepted, cut, trans, starting, result, starts, broken, state, dmaBusy,
                     clock, hwLength, enabled, ct, tcif, dma, heard, notEnough, teif, failed,
                     errors, straddles, spoilt, usb, packets>>
  BY DEF IrqSelect, streamVars, startVars, hwVars, playVars, errorVars, lateVars, usbVars
<1>2. fill' = 1 - ct /\ fill' \in {0, 1}
  BY TypeFacts DEF IInv, IrqSelect, FreeHalf
<1>3. TypeInv'
  BY <1>1, <1>2 DEF IInv, TypeInv, TypeOK
<1>4. HardwareInv'
  BY <1>1, <1>2 DEF IInv, HardwareInv
<1>5. StartInv' /\ QueueInv' /\ ChannelInv'
  BY <1>1 DEF IInv, StartInv, QueueInv, ChannelInv, Consumed
<1>6. Fresh(ct)' = Fresh(ct) /\ Fresh(1 - ct)' = Fresh(1 - ct)
  BY <1>1, FreshKept
<1>7. PlayInv' /\ ReportInv'
  BY <1>1, <1>6 DEF IInv, PlayInv, ReportInv, Consumed
<1>8. LossInv'
  BY <1>1, <1>6 DEF IInv, LossInv, NextSpoils
<1> QED
  BY <1>3, <1>4, <1>5, <1>7, <1>8 DEF IInv

(* Without a whole block the callback only reports. *)
LEMMA RefillEmptyInv ==
  ASSUME IInv, Refill, ~Enough
  PROVE  IInv'
<1>1. /\ isr = "callback" /\ isr' = (IF failed THEN "error" ELSE "idle") /\ notEnough' = fill + 1
      /\ UNCHANGED <<queue, accepted, cut, trans, starting, result, starts, broken, state, dmaBusy,
                     clock, hwLength, enabled, ct, tcif, dma, heard, fill, teif, failed, errors,
                     straddles, spoilt, usb, packets>>
  BY DEF Refill, startVars, hwVars, errorVars, usbVars
<1>2. notEnough' \in 1..2
  BY <1>1, TypeFacts DEF IInv
<1>3. TypeInv'
  <2>1. isr' \in {"idle", "cleared", "callback", "error"}
    BY <1>1
  <2> QED
    BY <1>1, <1>2, <2>1 DEF IInv, TypeInv, TypeOK
<1>4. HardwareInv' /\ StartInv' /\ QueueInv' /\ ChannelInv'
  BY <1>1 DEF IInv, HardwareInv, StartInv, QueueInv, ChannelInv, Consumed
<1>5. Fresh(ct)' = Fresh(ct) /\ Fresh(1 - ct)' = Fresh(1 - ct)
  BY <1>1, FreshKept
<1>6. ~broken => isr' = "idle"
  BY <1>1 DEF IInv, HardwareInv
<1>7. PlayInv'
  BY <1>1, <1>5, <1>6 DEF IInv, PlayInv, Consumed
<1>8. ReportInv'
  BY <1>2 DEF ReportInv
<1>9. LossInv'
  <2> SUFFICES ASSUME ~broken
               PROVE  spoilt + (IF NextSpoils' THEN 1 ELSE 0) <= straddles
    BY <1>1 DEF LossInv
  <2>1. ~NextSpoils'
    BY <1>1, <1>5, <1>6 DEF IInv, PlayInv, NextSpoils
  <2>2. spoilt <= straddles /\ spoilt \in Nat
    BY TypeFacts DEF IInv, LossInv
  <2> QED
    BY <2>1, <2>2
<1> QED
  BY <1>3, <1>4, <1>7, <1>8, <1>9 DEF IInv

(* A whole block continues the last one, on the same channels.  It is      *)
(* spoilt only where a block that ended inside a handler was counted.      *)
LEMMA RefillBlockInv ==
  ASSUME IInv, Refill, Enough
  PROVE  IInv'
<1>1. /\ isr = "callback" /\ isr' = (IF failed THEN "error" ELSE "idle")
      /\ UNCHANGED <<accepted, cut, trans, starting, result, starts, broken, state, dmaBusy,
                     clock, hwLength, enabled, ct, tcif, fill, notEnough, teif, failed, errors,
                     straddles, usb, packets>>
  BY DEF Refill, startVars, hwVars, errorVars, usbVars
<1>2. TypeInv
  BY DEF IInv
<1>3. /\ queue' \in Seq(Byte) /\ Len(queue') = Len(queue) - trans
      /\ \A i \in 1..Len(queue') : queue'[i] = queue[trans + i]
      /\ dma' \in [{0, 1} -> Seq(Byte)] /\ Len(dma'[fill]) = MaxTrans
      /\ \A h \in {0, 1} \ {fill} : dma'[h] = dma[h]
      /\ \A i \in 1..MaxTrans :
           dma'[fill][i] = IF i <= trans THEN queue[i] ELSE dma[fill][i]
  BY <1>2, RefillEffect
<1>4. /\ trans \in 0..MaxTrans /\ MaxTrans \in Nat /\ Len(queue) \in 0..(Length - 1)
      /\ hwLength \in 0..MaxTrans /\ heard \in Nat /\ accepted \in Nat /\ ct \in {0, 1}
      /\ fill \in {0, 1} /\ straddles \in Nat /\ spoilt \in Nat
      /\ trans <= Len(queue) /\ Len(queue') \in Nat
  BY <1>2, <1>3, TypeFacts DEF Enough
<1>5. fill # ct => fill = 1 - ct
  BY <1>4
<1>6. /\ heard' \in Nat /\ heard <= heard' /\ (fill # ct => heard' = heard)
      /\ (fill = ct => ~(LastId(SubSeq(dma'[ct], 1, hwLength)) > heard'))
  <2>1. dma'[fill] \in Seq(Byte) /\ Len(dma'[fill]) = MaxTrans
    BY <1>3, <1>4
  <2>2. heard' = IF fill = ct THEN HeardWith(dma'[fill]) ELSE heard
    BY DEF Refill
  <2>3. /\ HeardWith(dma'[fill]) \in Nat /\ heard <= HeardWith(dma'[fill])
        /\ ~(LastId(SubSeq(dma'[fill], 1, hwLength)) > HeardWith(dma'[fill]))
    <3> DEFINE half == dma'[fill]
    <3>1. half \in Seq(Byte) /\ Len(half) = MaxTrans
      BY <2>1
    <3> HIDE DEF half
    <3>2. /\ HeardWith(half) \in Nat /\ heard <= HeardWith(half)
          /\ ~(LastId(SubSeq(half, 1, hwLength)) > HeardWith(half))
      BY <3>1, <1>2, HeardCovers
    <3> QED
      BY <3>2 DEF half
  <2> QED
    BY <2>2, <2>3, <1>4
<1>7. dmaBusy /\ hwLength > 0 /\ (~tcif => fill = 1 - ct) /\ (~broken => isr' = "idle")
  BY <1>1 DEF IInv, HardwareInv
<1>8. TypeInv'
  <2>1. \A h \in {0, 1} : dma'[h] \in Seq(Byte) /\ Len(dma'[h]) = MaxTrans
    BY <1>2, <1>3, TypeFacts
  <2>2. Len(queue') <= Capacity
    BY <1>3, <1>4 DEF Capacity
  <2>3. isr' \in {"idle", "cleared", "callback", "error"}
    BY <1>1
  <2>4. spoilt' \in Nat
    BY <1>4 DEF Refill
  <2> QED
    BY <1>1, <1>3, <1>6, <2>1, <2>2, <2>3, <2>4 DEF IInv, TypeInv, TypeOK, Byte
<1>9. HardwareInv'
  BY <1>1, <1>7 DEF IInv, HardwareInv
<1>10. StartInv'
  BY <1>1 DEF IInv, StartInv
<1>11. Consumed' = Consumed + trans
  BY <1>1, <1>3, <1>4 DEF Consumed
<1>12. ASSUME NEW i \in 1..Len(queue')
       PROVE  trans + i \in 1..Len(queue) /\ queue'[i] = queue[trans + i]
  BY <1>3, <1>4
<1>13. QueueInv'
  <2> SUFFICES ASSUME ~broken, NEW i \in 1..Len(queue')
               PROVE  queue'[i][1] = Consumed' + i
    BY <1>1 DEF QueueInv
  <2>1. queue'[i][1] = Consumed + (trans + i)
    BY <1>12 DEF IInv, QueueInv
  <2>2. Consumed \in Int
    BY <1>4 DEF Consumed
  <2> QED
    BY <2>1, <2>2, <1>4, <1>11
<1>14. ~broken => ~Fresh(ct)'
  <2> SUFFICES ASSUME ~broken
               PROVE  ~Fresh(ct)'
    OBVIOUS
  <2>1. CASE fill = ct
    BY <2>1, <1>1, <1>6 DEF Fresh, Block
  <2>2. CASE fill # ct
    <3>1. dma'[ct] = dma[ct] /\ heard' = heard
      BY <2>2, <1>3, <1>4, <1>6
    <3> QED
      BY <3>1, <1>1 DEF IInv, PlayInv, Fresh, Block
  <2> QED
    BY <2>1, <2>2
<1>15. ASSUME ~broken, straddles = 0
       PROVE  /\ ~tcif /\ Fresh(1 - ct)' /\ Consumed' = heard' + hwLength
              /\ \A i \in 1..hwLength : dma'[1 - ct][i][1] = heard' + i
  <2>1. hwLength = trans
    BY <1>7, <1>15 DEF IInv, StartInv
  <2>2. ~tcif /\ fill = 1 - ct /\ fill # ct
    <3>1. ~tcif
      BY <1>1, <1>15 DEF IInv, HardwareInv
    <3> QED
      BY <3>1, <1>4, <1>7
  <2>3. heard' = heard
    BY <2>2, <1>6
  <2>4. Consumed = heard
    BY <1>1, <1>15 DEF IInv, PlayInv
  <2>5. \A i \in 1..hwLength : dma'[1 - ct][i][1] = heard + i
    <3> TAKE i \in 1..hwLength
    <3>1. i \in 1..MaxTrans /\ i <= trans /\ i \in 1..Len(queue)
      BY <2>1, <1>4
    <3>2. dma'[1 - ct][i] = queue[i]
      BY <3>1, <1>3, <2>2
    <3>3. queue[i][1] = Consumed + i
      BY <3>1, <1>15 DEF IInv, QueueInv
    <3> QED
      BY <3>2, <3>3, <2>4
  <2>6. Fresh(1 - ct)'
    <3>1. dma'[1 - ct] \in Seq(Byte) /\ Len(dma'[1 - ct]) = MaxTrans
      BY <1>3, <1>4, <2>2
    <3>2. LastId(SubSeq(dma'[1 - ct], 1, hwLength)) = dma'[1 - ct][hwLength][1]
      BY <3>1, <1>4, <1>7, LastOfBlock
    <3>3. dma'[1 - ct][hwLength][1] = heard + hwLength
      BY <2>5, <1>4, <1>7
    <3>4. LastId(SubSeq(dma'[1 - ct], 1, hwLength)) > heard
      BY <3>2, <3>3, <1>4, <1>7
    <3> QED
      BY <3>4, <2>3, <1>1 DEF Fresh, Block
  <2> QED
    BY <2>1, <2>2, <2>3, <2>4, <2>5, <2>6, <1>11
<1>16. PlayInv' /\ ReportInv'
  <2> SUFFICES ASSUME ~broken
               PROVE  PlayInv' /\ ReportInv'
    BY <1>1 DEF PlayInv, ReportInv
  <2>1. isr' = "idle"
    BY <1>7
  <2>2. PlayInv'
    BY <2>1, <1>1, <1>14, <1>15 DEF PlayInv
  <2>3. ~Late => straddles = 0
    BY <1>4 DEF IInv, HardwareInv
  <2>4. ReportInv'
    BY <2>3, <1>1, <1>15 DEF ReportInv
  <2> QED
    BY <2>2, <2>4
<1>18. LossInv'
  <2> SUFFICES ASSUME ~broken
               PROVE  spoilt' + (IF NextSpoils' THEN 1 ELSE 0) <= straddles
    BY <1>1 DEF LossInv
  <2>1. NextSpoils' => tcif /\ Fresh(1 - ct)'
    BY <1>1, <1>7 DEF NextSpoils
  <2>2. spoilt' = IF fill = ct \/ Fresh(fill) THEN spoilt + 1 ELSE spoilt
    BY DEF Refill
  <2>3. CASE tcif
    <3>1. spoilt + 1 <= straddles
      BY <2>3, <1>1, <1>4 DEF IInv, LossInv, NextSpoils
    <3>2. ~Fresh(ct) /\ ~Fresh(1 - ct)
      BY <2>3, <1>1 DEF IInv, PlayInv
    <3>3. CASE fill = ct
      <4>1. 1 - ct \in {0, 1} \ {fill}
        BY <3>3, <1>4
      <4>2. dma'[1 - ct] = dma[1 - ct]
        BY <4>1, <1>3
      <4>3. LastId(Block(1 - ct)) \in Nat /\ ~(LastId(Block(1 - ct)) > heard)
        BY <3>2, <4>1, <1>2, FreshIs
      <4>4. ~(LastId(Block(1 - ct)) > heard')
        BY <4>3, <1>4, <1>6
      <4>5. ~Fresh(1 - ct)'
        BY <4>2, <4>4, <1>1 DEF Fresh, Block
      <4> QED
        BY <4>5, <3>1, <2>1, <2>2, <1>4
    <3>4. CASE fill # ct
      <4>1. spoilt' = spoilt
        BY <3>2, <3>4, <1>5, <2>2
      <4> QED
        BY <4>1, <3>1, <1>4
    <3> QED
      BY <3>3, <3>4
  <2>4. CASE ~tcif
    <3>1. fill = 1 - ct /\ fill # ct /\ ~NextSpoils'
      BY <2>1, <2>4, <1>4, <1>7
    <3>2. spoilt <= straddles /\ (Fresh(1 - ct) => spoilt + 1 <= straddles)
      BY <2>4, <1>1, <1>4 DEF IInv, LossInv, NextSpoils
    <3> QED
      BY <3>1, <3>2, <2>2, <1>4
  <2> QED
    BY <2>3, <2>4
<1>17. ChannelInv'
  <2> SUFFICES ASSUME ~broken, ~cut
               PROVE  /\ Len(queue') % Frame = 0
                      /\ \A i \in 1..Len(queue') : queue'[i][2] = (i - 1) % Frame
                      /\ \A h \in {0, 1} : \A i \in 1..MaxTrans :
                           dma'[h][i] # Silence => dma'[h][i][2] = (i - 1) % Frame
    BY <1>1 DEF ChannelInv
  <2>1. /\ Len(queue) % Frame = 0
        /\ \A i \in 1..Len(queue) : queue[i][2] = (i - 1) % Frame
        /\ \A h \in {0, 1} : \A i \in 1..MaxTrans :
             dma[h][i] # Silence => dma[h][i][2] = (i - 1) % Frame
    BY DEF IInv, ChannelInv
  <2>2. trans % Frame = 0 /\ trans \in Int /\ Frame \in Nat \ {0} /\ Len(queue') \in Int
    BY <1>4, <1>7 DEF IInv, StartInv
  <2>3. Len(queue') % Frame = 0
    <3>1. (trans + Len(queue')) % Frame = Len(queue') % Frame
      BY <2>2, SameChannel, Zenon
    <3>2. trans + Len(queue') = Len(queue)
      BY <1>3, <1>4
    <3> QED
      BY <3>1, <3>2, <2>1
  <2>4. ASSUME NEW i \in 1..Len(queue')
        PROVE  queue'[i][2] = (i - 1) % Frame
    <3>1. queue'[i][2] = ((trans + i) - 1) % Frame
      <4>1. trans + i \in 1..Len(queue) /\ queue'[i] = queue[trans + i]
        BY <1>12
      <4>2. queue[trans + i][2] = ((trans + i) - 1) % Frame
        BY <4>1, <2>1, Zenon
      <4> QED
        BY <4>1, <4>2, Zenon
    <3>2. (trans + i) - 1 = trans + (i - 1) /\ i - 1 \in Int
      BY <2>2
    <3>3. (trans + (i - 1)) % Frame = (i - 1) % Frame
      BY <3>2, <2>2, SameChannel, Zenon
    <3> QED
      BY <3>1, <3>2, <3>3
  <2>5. ASSUME NEW h \in {0, 1}, NEW i \in 1..MaxTrans, dma'[h][i] # Silence
        PROVE  dma'[h][i][2] = (i - 1) % Frame
    <3>1. CASE h = fill /\ i <= trans
      <4>1. dma'[h][i] = queue[i] /\ i \in 1..Len(queue)
        BY <3>1, <1>3, <1>4
      <4> QED
        BY <4>1, <2>1
    <3>2. CASE ~(h = fill /\ i <= trans)
      <4>1. dma'[h][i] = dma[h][i]
        BY <3>2, <1>3
      <4> QED
        BY <4>1, <2>1, <2>5
    <3> QED
      BY <3>1, <3>2
  <2> QED
    BY <2>3, <2>4, <2>5
<1> QED
  BY <1>8, <1>9, <1>10, <1>13, <1>16, <1>17, <1>18 DEF IInv

LEMMA StepInv == IInv /\ [Next]_vars => IInv'
<1> SUFFICES ASSUME IInv, [Next]_vars
             PROVE  IInv'
  OBVIOUS
<1>1. CASE StartStep
  BY <1>1, StartCreateInv, StartClearInv, StartHalInv DEF StartStep
<1>2. CASE Pause \/ Resume \/ UsbInit \/ Close \/ UNCHANGED vars
  BY <1>2, ApiInv
<1>3. CASE Open \/ IsoOut
  BY <1>3, PacketInv
<1>4. CASE BlockEnd
  BY <1>4, BlockEndInv
<1>5. CASE IrqClear \/ IrqSelect \/ Refill
  BY <1>5, IrqClearInv, IrqSelectInv, RefillEmptyInv, RefillBlockInv
<1>6. CASE TransferError \/ IrqError
  BY <1>6, ErrorInv
<1> QED
  BY <1>1, <1>2, <1>3, <1>4, <1>5, <1>6 DEF Next, IrqStep

-----------------------------------------------------------------------------
(***************************************************************************)
(* The theorems.                                                           *)
(***************************************************************************)

(* The invariant, by the steps of Next. *)
THEOREM Invariance == Spec => []IInv
BY InitInv, StepInv, PTL DEF Spec

(* The stream buffer never holds more than it can, and a half keeps its    *)
(* size, whatever i2s_start, the packets and the interrupt do.             *)
THEOREM TypeCorrect == Spec => []TypeOK
<1>1. IInv => TypeOK
  BY DEF IInv, TypeInv
<1> QED
  BY <1>1, Invariance, PTL

(* Without a cut packet no sample changes its channel. *)
THEOREM KeepsChannels == Spec => []ChannelsKept
<1>1. IInv => ChannelsKept
  <2> SUFFICES ASSUME IInv, ~cut, ~broken, NEW h \in {0, 1}, NEW i \in 1..hwLength,
                      dma[h][i] # Silence
               PROVE  dma[h][i][2] = (i - 1) % Frame
    BY DEF ChannelsKept
  <2>1. i \in 1..MaxTrans
    BY TypeFacts DEF IInv
  <2> QED
    BY <2>1 DEF IInv, ChannelInv
<1> QED
  BY <1>1, Invariance, PTL

(* The DMA handle is unlocked only when the stream is off and its          *)
(* interrupts have been handled, and only then can a start succeed.        *)
THEOREM ProgramsWhenOff == Spec => ProgrammedWhenOff
<1>1. IInv /\ [Next]_vars =>
        [starting = "clear" /\ starting' = "no" /\ result' = "ok" =>
           ~enabled /\ ~tcif /\ ~teif]_vars
  <2> SUFFICES ASSUME IInv, [Next]_vars, starting = "clear", starting' = "no", result' = "ok"
               PROVE  ~enabled /\ ~tcif /\ ~teif
    OBVIOUS
  <2>1. CASE StartHal
    <3>1. ~dmaBusy
      BY <2>1 DEF StartHal, HalStarts
    <3> QED
      BY <3>1 DEF IInv, HardwareInv
  <2>2. CASE StartClear \/ \E threshold \in Thresholds : StartCreate(threshold)
    BY <2>2 DEF StartClear, StartCreate
  <2>3. CASE Pause \/ Resume
    BY <2>3 DEF Pause, Resume
  <2>4. CASE UsbInit \/ Open \/ IsoOut \/ Close
    BY <2>4 DEF UsbInit, Open, IsoOut, Close, startVars
  <2>5. CASE BlockEnd \/ TransferError \/ IrqStep
    BY <2>5 DEF BlockEnd, TransferError, IrqStep, IrqClear, IrqSelect, Refill, IrqError, startVars
  <2>6. CASE UNCHANGED vars
    BY <2>6 DEF vars, startVars
  <2> QED
    BY <2>1, <2>2, <2>3, <2>4, <2>5, <2>6 DEF Next, StartStep
<1> QED
  BY <1>1, Invariance, PTL DEF Spec, ProgrammedWhenOff

(* However late the interrupt is: for every refill that is spoilt a block  *)
(* has ended inside a handler, each block for one refill.                  *)
THEOREM BoundsLosses == Spec => []LossBounded
<1>1. IInv => LossBounded
  BY TypeFacts DEF IInv, LossInv, LossBounded
<1> QED
  BY <1>1, Invariance, PTL

(* The block that begins to play is the old one or continues the last.     *)
LEMMA BlocksContinue ==
  ASSUME IInv, BlockEnd, ~broken, straddles = 0
  PROVE  Fresh(ct') => \A i \in 1..hwLength : dma[ct'][i][1] = heard + i
<1>1. ct' = 1 - ct
  BY DEF BlockEnd
<1> QED
  BY <1>1 DEF IInv, PlayInv

(* Nothing but the end of a block swaps the halves. *)
LEMMA OnlyBlockEndSwaps ==
  ASSUME [Next]_vars, ~BlockEnd
  PROVE  ct' = ct
<1>1. CASE StartStep
  BY <1>1 DEF StartStep, StartCreate, StartClear, StartHal, playVars
<1>2. CASE Pause \/ Resume \/ UsbInit \/ Open \/ IsoOut \/ Close \/ UNCHANGED vars
  BY <1>2 DEF Pause, Resume, UsbInit, Open, IsoOut, Close, vars, playVars
<1>3. CASE TransferError \/ IrqStep
  BY <1>3 DEF TransferError, IrqStep, IrqClear, IrqSelect, Refill, IrqError, playVars
<1> QED
  BY <1>1, <1>2, <1>3 DEF Next

(* Nobody writes to the half that is being played, unless a block ended    *)
(* inside a handler.                                                       *)
LEMMA PlayedHalfKept ==
  ASSUME IInv, [Next]_vars, ~BlockEnd, ~broken, straddles = 0, clock /\ enabled
  PROVE  dma'[ct] = dma[ct]
<1>1. CASE StartClear
  <2>1. starting = "create"
    BY <1>1 DEF StartClear
  <2>2. ~enabled
    BY <2>1 DEF IInv, StartInv, HardwareInv
  <2> QED
    BY <2>2
<1>2. CASE StartHal \/ \E threshold \in Thresholds : StartCreate(threshold)
  BY <1>2 DEF StartHal, StartCreate, playVars
<1>3. CASE Pause \/ Resume
  BY <1>3 DEF Pause, Resume, playVars
<1>4. CASE UsbInit \/ Open \/ IsoOut \/ Close
  BY <1>4 DEF UsbInit, Open, IsoOut, Close, playVars
<1>5. CASE IrqClear \/ IrqSelect \/ IrqError \/ TransferError
  BY <1>5 DEF IrqClear, IrqSelect, IrqError, TransferError, playVars
<1>6. CASE Refill
  <2>1. isr = "callback" /\ ct \in {0, 1}
    BY <1>6, TypeFacts DEF IInv, Refill
  <2>2. fill = 1 - ct
    BY <2>1 DEF IInv, HardwareInv
  <2>3. ct \in {0, 1} \ {fill}
    BY <2>1, <2>2
  <2>4. CASE Enough
    BY <2>3, <2>4, <1>6, RefillEffect DEF IInv
  <2>5. CASE ~Enough
    BY <2>5, <1>6 DEF Refill
  <2> QED
    BY <2>4, <2>5
<1>7. CASE UNCHANGED vars
  BY <1>7 DEF vars, playVars
<1> QED
  BY <1>1, <1>2, <1>3, <1>4, <1>5, <1>6, <1>7 DEF Next, StartStep, IrqStep

(* What is heard continues what was heard, and no half changes while it is *)
(* played, also when completions share one interrupt, until a block ends   *)
(* inside a handler.                                                       *)
THEOREM SkipsNothing == Spec => NothingSkipped
<1>1. IInv /\ [Next]_vars =>
        [~broken /\ ~broken' /\ straddles' = 0 =>
           IF ct' = ct
           THEN clock /\ enabled => dma'[ct] = dma[ct]
           ELSE Fresh(ct') => \A i \in 1..hwLength : dma[ct'][i][1] = heard + i]_vars
  <2> SUFFICES ASSUME IInv, [Next]_vars, ~broken, straddles' = 0, ~(UNCHANGED vars)
               PROVE  IF ct' = ct
                      THEN clock /\ enabled => dma'[ct] = dma[ct]
                      ELSE Fresh(ct') => \A i \in 1..hwLength : dma[ct'][i][1] = heard + i
    OBVIOUS
  <2>1. straddles \in Nat
    BY TypeFacts DEF IInv
  <2>2. CASE BlockEnd
    <3>1. dma' = dma /\ straddles = 0
      BY <2>1, <2>2 DEF BlockEnd
    <3>2. Fresh(ct') => \A i \in 1..hwLength : dma[ct'][i][1] = heard + i
      BY <2>2, <3>1, BlocksContinue
    <3> QED
      BY <3>1, <3>2
  <2>3. CASE ~BlockEnd
    <3>1. straddles' = straddles
      <4>1. CASE StartStep
        BY <4>1 DEF StartStep, StartCreate, StartClear, StartHal, lateVars
      <4>2. CASE Pause \/ Resume \/ UsbInit \/ Open \/ IsoOut \/ Close
        BY <4>2 DEF Pause, Resume, UsbInit, Open, IsoOut, Close, lateVars
      <4>3. CASE TransferError \/ IrqStep
        BY <4>3 DEF TransferError, IrqStep, IrqClear, IrqSelect, Refill, IrqError, lateVars
      <4> QED
        BY <4>1, <4>2, <4>3, <2>3 DEF Next
    <3>2. ct' = ct
      BY <2>3, OnlyBlockEndSwaps
    <3> QED
      BY <3>1, <3>2, <2>3, PlayedHalfKept
  <2> QED
    BY <2>2, <2>3
<1> QED
  BY <1>1, Invariance, PTL DEF Spec, NothingSkipped

(* If no interrupt is a block late, whoever hears a block again finds      *)
(* rx_stream_not_enough set.                                               *)
THEOREM ReportsUnderruns == ASSUME ~Late PROVE Spec => UnderrunReported
<1>1. IInv /\ [Next]_vars =>
        [ct' # ct /\ heard > 0 /\ ~Fresh(ct') /\ ~broken => notEnough # 0]_vars
  <2> SUFFICES ASSUME IInv, [Next]_vars, ct' # ct, heard > 0, ~Fresh(ct'), ~broken
               PROVE  notEnough # 0
    OBVIOUS
  <2>1. BlockEnd
    BY OnlyBlockEndSwaps
  <2>2. ct' = 1 - ct /\ isr = "idle" /\ ~tcif
    BY <2>1 DEF BlockEnd
  <2>3. ~Fresh(1 - ct)
    BY <2>2
  <2> QED
    BY <2>2, <2>3 DEF IInv, ReportInv
<1> QED
  BY <1>1, Invariance, PTL DEF Spec, UnderrunReported
=============================================================================
