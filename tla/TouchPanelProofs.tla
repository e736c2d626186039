-------------------------- MODULE TouchPanelProofs --------------------------
(***************************************************************************)
(* Proofs about the touch panel, for every number of bits of a byte, every *)
(* number of tries, all registers and sizes, whatever the chip ignores and *)
(* whenever the processor is reset.                                        *)
(***************************************************************************)
EXTENDS TouchPanel, SwI2CProofs

-----------------------------------------------------------------------------
(***************************************************************************)
(* The bus calls as sequences of functions.                                *)
(***************************************************************************)
FnSet == {Start, Stop, WaitAck, <<"check">>, Receive(0), Receive(1)} \cup {Send(b) : b \in Byte}

(* What the driver asks of the bus: a block of registers in the chip. *)
IsCall(k) ==
  /\ k # None /\ k.op \in {"send", "receive"}
  /\ k.reg \in Address /\ k.size \in Nat \ {0} /\ k.reg + k.size \in Address
  /\ k.op = "send" => k.size = 1 /\ k.bytes \in Seq(Byte) /\ Len(k.bytes) = 1

Fns(k) == IF k.op = "send" THEN BusSend(k.reg, k.bytes) ELSE BusReceive(k.reg, k.size)

LEMMA CallsAre ==
  ASSUME NEW c \in DOMAIN CallOf
  PROVE  IsCall(CallOf[c])
<1>1. c \in {"command", "version", "product", "status", "clear", "point"} /\ CallOf[c] # None
  BY NoneAssumption DEF CallOf
<1>2. 0 \in Byte /\ 1 \in Byte
  BY Bytes
<1>3. ASSUME NEW reg \in Nat, NEW n \in Nat \ {0}, reg + n \in Address
      PROVE  reg \in Address
  <2>1. 2^(2 * Bits) \in Nat
    BY SquareOfBytes
  <2> DEFINE N == 2^(2 * Bits)
  <2> HIDE DEF N
  <2>2. N \in Nat /\ Address = 0..(N - 1)
    BY <2>1 DEF N, Address
  <2> QED
    BY <1>3, <2>2
<1>4. ASSUME NEW reg \in Nat, NEW b \in Byte, reg + 1 \in Address, CallOf[c] = SendCall(reg, <<b>>)
      PROVE  IsCall(CallOf[c])
  <2> DEFINE s == <<b>>
  <2>1. s \in Seq(Byte) /\ Len(s) = 1 /\ CallOf[c] = SendCall(reg, s)
    BY <1>4
  <2>2. reg \in Address
    BY <1>3, <1>4
  <2> HIDE DEF s
  <2> DEFINE k == CallOf[c]
  <2>3. k.op = "send" /\ k.reg = reg /\ k.bytes = s /\ k.size = 1
    BY <2>1 DEF SendCall
  <2>4. k # None
    BY <1>1
  <2> HIDE DEF k
  <2>5. IsCall(k)
    BY <1>4, <2>1, <2>2, <2>3, <2>4 DEF IsCall
  <2> QED
    BY <2>5 DEF k
<1>5. ASSUME NEW reg \in Nat, NEW n \in Nat \ {0}, reg + n \in Address, CallOf[c] = ReceiveCall(reg, n)
      PROVE  IsCall(CallOf[c])
  <2>2. reg \in Address
    BY <1>3, <1>5
  <2> DEFINE k == CallOf[c]
  <2>3. k.op = "receive" /\ k.reg = reg /\ k.size = n
    BY <1>5 DEF ReceiveCall
  <2>4. k # None
    BY <1>1
  <2> HIDE DEF k
  <2>5. IsCall(k)
    BY <1>5, <2>2, <2>3, <2>4 DEF IsCall
  <2> QED
    BY <2>5 DEF k
<1>6. CASE c = "command"
  <2>1. CallOf[c] = SendCall(COMMAND, <<1>>) /\ COMMAND \in Nat /\ COMMAND + 1 \in Address
    BY <1>6, RegisterAssumption DEF CallOf
  <2> QED
    BY <1>2, <1>4, <2>1
<1>7. CASE c = "clear"
  <2>1. CallOf[c] = SendCall(STATUS, <<0>>) /\ STATUS \in Nat /\ STATUS + 1 \in Address
    BY <1>7, RegisterAssumption DEF CallOf
  <2> QED
    BY <1>2, <1>4, <2>1
<1>8. CASE c = "version"
  <2>1. CallOf[c] = ReceiveCall(VERSION, 1) /\ VERSION \in Nat /\ VERSION + 1 \in Address
    BY <1>8, RegisterAssumption DEF CallOf
  <2> QED
    BY <1>5, <2>1
<1>9. CASE c = "product"
  <2>1. CallOf[c] = ReceiveCall(PID1, InfoSize) /\ PID1 \in Nat /\ PID1 + InfoSize \in Address
    BY <1>9, RegisterAssumption DEF CallOf
  <2> QED
    BY <1>5, <2>1, SizeAssumption
<1>10. CASE c = "status"
  <2>1. CallOf[c] = ReceiveCall(STATUS, 1) /\ STATUS \in Nat /\ STATUS + 1 \in Address
    BY <1>10, RegisterAssumption DEF CallOf
  <2> QED
    BY <1>5, <2>1
<1>11. CASE c = "point"
  <2>1. /\ CallOf[c] = ReceiveCall(TRACKID1, PointSize)
        /\ TRACKID1 \in Nat /\ TRACKID1 + PointSize \in Address
    BY <1>11, RegisterAssumption DEF CallOf
  <2> QED
    BY <1>5, <2>1, SizeAssumption
<1> QED
  BY <1>1, <1>6, <1>7, <1>8, <1>9, <1>10, <1>11

(* The functions of both calls up to the last byte of the register. *)
Selects(F, reg) ==
  /\ F[1] = Start /\ F[2] = Send(DevAddr) /\ F[3] = WaitAck /\ F[4] = <<"check">>
  /\ F[5] = Send(reg \div 2^Bits) /\ F[6] = WaitAck
  /\ F[7] = Send(reg % 2^Bits) /\ F[8] = WaitAck

LEMMA SelectIs ==
  ASSUME NEW reg \in Address
  PROVE  Select(reg) \in Seq(FnSet) /\ Len(Select(reg)) = 8 /\ Selects(Select(reg), reg)
<1> DEFINE d == Send(DevAddr)
           h == Send(reg \div 2^Bits)
           l == Send(reg % 2^Bits)
           s == <<Start, d, WaitAck, <<"check">>, h, WaitAck, l, WaitAck>>
<1>1. d \in FnSet /\ h \in FnSet /\ l \in FnSet
  BY Bytes, TwoBytes DEF FnSet
<1>2. Start \in FnSet /\ WaitAck \in FnSet /\ <<"check">> \in FnSet
  BY DEF FnSet
<1>3. Select(reg) = s
  BY DEF Select
<1> HIDE DEF d, h, l
<1>4. s \in Seq(FnSet) /\ Len(s) = 8
  BY <1>1, <1>2
<1>5. Selects(s, reg)
  BY DEF Selects, d, h, l
<1> QED
  BY <1>3, <1>4, <1>5

LEMMA SendFns ==
  ASSUME NEW k, IsCall(k), k.op = "send"
  PROVE  /\ Fns(k) \in Seq(FnSet) /\ Len(Fns(k)) = 11 /\ Selects(Fns(k), k.reg)
         /\ Fns(k)[9] = Send(k.bytes[1]) /\ Fns(k)[10] = WaitAck /\ Fns(k)[11] = Stop
<1> DEFINE p == [i \in 1..Len(k.bytes) |-> <<Send(k.bytes[i]), WaitAck>>]
           f == FlattenSeq(p)
           s == Select(k.reg)
           z == Stop
<1>1. /\ k.reg \in Address /\ k.bytes \in Seq(Byte) /\ Len(k.bytes) = 1 /\ k.bytes[1] \in Byte
  BY DEF IsCall
<1>2. WaitAck \in FnSet /\ z \in FnSet /\ Send(k.bytes[1]) \in FnSet
  BY <1>1 DEF FnSet
<1>3. p \in [1..1 -> Seq(FnSet)] /\ \A i \in 1..1 : Len(p[i]) = 2
  BY <1>1, <1>2
<1>4. p[1] = <<Send(k.bytes[1]), WaitAck>>
  BY <1>1
<1>5. s \in Seq(FnSet) /\ Len(s) = 8 /\ Selects(s, k.reg)
  BY <1>1, SelectIs
<1>6. Fns(k) = (s \o f) \o <<z>>
  BY DEF Fns, BusSend
<1> HIDE DEF p, f, s, z
<1>7. f \in Seq(FnSet) /\ Pieces(f, p, 1, 2)
  <2> DEFINE n == 1
             L == 2
  <2>1. n \in Nat \ {0} /\ L \in Nat /\ L \in {2, 5, 6} /\ p \in [1..n -> Seq(FnSet)]
        /\ \A i \in 1..n : Len(p[i]) = L
    BY <1>3
  <2> HIDE DEF n, L
  <2>2. FlattenSeq(p) \in Seq(FnSet) /\ Pieces(FlattenSeq(p), p, n, L)
    BY <2>1, Flatten
  <2> QED
    BY <2>2 DEF f, n, L
<1>8. Len(f) = 2 /\ f[1] = Send(k.bytes[1]) /\ f[2] = WaitAck
  <2>1. Len(f) = 2 * 1 /\ \A i \in 1..1 : \A o \in 1..2 : f[2 * (i - 1) + o] = p[i][o]
    BY <1>7 DEF Pieces
  <2>2. f[2 * (1 - 1) + 1] = p[1][1] /\ f[2 * (1 - 1) + 2] = p[1][2]
    BY <2>1
  <2> QED
    BY <2>1, <2>2, <1>4
<1> DEFINE r == s \o f
           m == 8
           n == 2
<1>9. m \in Nat /\ n \in Nat /\ Len(s) = m /\ Len(f) = n
  BY <1>5, <1>8
<1> HIDE DEF m, n
<1>10. r \in Seq(FnSet) /\ Joins(r, s, m, f, n)
  BY <1>5, <1>7, <1>9, Joined
<1>11. Len(r) = 10 /\ Selects(r, k.reg) /\ r[9] = Send(k.bytes[1]) /\ r[10] = WaitAck
  <2>1. /\ Len(r) = 8 + 2 /\ (\A i \in 1..8 : r[i] = s[i])
        /\ \A i \in 1..2 : r[8 + i] = f[i]
    BY <1>10 DEF Joins, m, n
  <2> HIDE DEF r
  <2>2. r[8 + 1] = f[1] /\ r[8 + 2] = f[2]
    BY <2>1
  <2>3. Selects(r, k.reg)
    BY <1>5, <2>1 DEF Selects
  <2> QED
    BY <1>8, <2>1, <2>2, <2>3
<1> HIDE DEF r
<1> DEFINE q == 10
<1>12. q \in Nat /\ Len(r) = q
  BY <1>11
<1> HIDE DEF q
<1>13. r \o <<z>> \in Seq(FnSet) /\ Joins(r \o <<z>>, r, q, <<z>>, 1)
  BY <1>2, <1>10, <1>12, Appended
<1> DEFINE w == r \o <<z>>
<1>14. Fns(k) = w
  BY <1>6 DEF r
<1>15. w \in Seq(FnSet) /\ Len(w) = 10 + 1 /\ (\A i \in 1..10 : w[i] = r[i])
       /\ (\A i \in 1..1 : w[10 + i] = <<z>>[i])
  BY <1>13 DEF Joins, q
<1> HIDE DEF w
<1>16. w[10 + 1] = <<z>>[1]
  BY <1>15
<1>17. Selects(w, k.reg)
  BY <1>11, <1>15 DEF Selects
<1> QED
  BY <1>11, <1>14, <1>15, <1>16, <1>17 DEF z

LEMMA ReceiveFns ==
  ASSUME NEW k, IsCall(k), k.op = "receive"
  PROVE  /\ Fns(k) \in Seq(FnSet) /\ Len(Fns(k)) = 13 + k.size /\ Selects(Fns(k), k.reg)
         /\ Fns(k)[9] = Stop /\ Fns(k)[10] = Start /\ Fns(k)[11] = Send(DevAddr + 1)
         /\ Fns(k)[12] = WaitAck
         /\ \A i \in 1..k.size : Fns(k)[12 + i] = Receive(IF i < k.size THEN 1 ELSE 0)
         /\ Fns(k)[13 + k.size] = Stop
<1> DEFINE s == Select(k.reg)
           d == Send(DevAddr + 1)
           t == <<Stop, Start, d, WaitAck>>
           u == [i \in 1..(k.size - 1) |-> Receive(1)]
           x == Receive(0)
           v == <<x, Stop>>
           m == 8
           n == 4
           e == k.size - 1
           o == 2
<1>1. k.reg \in Address /\ k.size \in Nat \ {0}
  BY DEF IsCall
<1>2. s \in Seq(FnSet) /\ Len(s) = m /\ Selects(s, k.reg)
  BY <1>1, SelectIs
<1>3. Stop \in FnSet /\ Start \in FnSet /\ WaitAck \in FnSet /\ Receive(1) \in FnSet /\ x \in FnSet
      /\ d \in FnSet
  BY Bytes DEF FnSet
<1>4. /\ m \in Nat /\ n \in Nat /\ e \in Nat /\ o \in Nat /\ m + n \in Nat /\ (m + n) + e \in Nat
  BY <1>1
<1>5. u \in Seq(FnSet) /\ Len(u) = e /\ \A i \in 1..e : u[i] = Receive(1)
  BY <1>1, <1>3
<1>6. Fns(k) = ((s \o t) \o u) \o v
  <2>1. k.op # "send"
    OBVIOUS
  <2> QED
    BY <2>1 DEF Fns, BusReceive
<1> HIDE DEF s, d, x, u
<1>7. t \in Seq(FnSet) /\ Len(t) = n /\ t[1] = Stop /\ t[2] = Start /\ t[3] = d /\ t[4] = WaitAck
  BY <1>3
<1>8. v \in Seq(FnSet) /\ Len(v) = o /\ v[1] = x /\ v[2] = Stop
  BY <1>3
<1> HIDE DEF t, v, m, n, e, o
<1> DEFINE p == s \o t
           q == p \o u
           w == q \o v
<1>9. p \in Seq(FnSet) /\ Joins(p, s, m, t, n)
  BY <1>2, <1>4, <1>7, Joined
<1>10. Len(p) = m + n
  BY <1>9 DEF Joins
<1> HIDE DEF p
<1>11. q \in Seq(FnSet) /\ Joins(q, p, m + n, u, e)
  BY <1>4, <1>5, <1>9, <1>10, Joined
<1>12. Len(q) = (m + n) + e
  BY <1>11 DEF Joins
<1> HIDE DEF q
<1>13. w \in Seq(FnSet) /\ Joins(w, q, (m + n) + e, v, o)
  BY <1>4, <1>8, <1>11, <1>12, Joined
<1>14. Fns(k) = w
  BY <1>6 DEF p, q
<1> HIDE DEF w
<1>15. /\ Len(w) = (12 + e) + 2
       /\ \A i \in 1..(12 + e) : w[i] = q[i]
       /\ \A i \in 1..2 : w[(12 + e) + i] = v[i]
  BY <1>13 DEF Joins, m, n, o
<1>16. /\ \A i \in 1..12 : q[i] = p[i]
       /\ \A i \in 1..e : q[12 + i] = u[i]
  BY <1>11 DEF Joins, m, n
<1>17. /\ \A i \in 1..8 : p[i] = s[i]
       /\ \A i \in 1..4 : p[8 + i] = t[i]
  BY <1>9 DEF Joins, m, n
<1>18. p[8 + 1] = t[1] /\ p[8 + 2] = t[2] /\ p[8 + 3] = t[3] /\ p[8 + 4] = t[4]
  BY <1>17
<1>19. \A i \in 1..12 : w[i] = p[i]
  BY <1>4, <1>15, <1>16
<1>20. Selects(w, k.reg)
  BY <1>2, <1>17, <1>19 DEF Selects
<1>21. w[9] = Stop /\ w[10] = Start /\ w[11] = d /\ w[12] = WaitAck
  BY <1>7, <1>18, <1>19
<1>22. w[(12 + e) + 1] = x /\ w[(12 + e) + 2] = Stop
  BY <1>8, <1>15
<1>23. (12 + e) + 1 = 12 + k.size /\ (12 + e) + 2 = 13 + k.size
  BY <1>1 DEF e
<1>24. ASSUME NEW i \in 1..k.size
       PROVE  w[12 + i] = Receive(IF i < k.size THEN 1 ELSE 0)
  <2>1. CASE i < k.size
    <3>1. i \in 1..e /\ 12 + i \in 1..(12 + e)
      BY <1>1, <2>1 DEF e
    <3>2. w[12 + i] = q[12 + i] /\ q[12 + i] = u[i] /\ u[i] = Receive(1)
      BY <1>5, <1>15, <1>16, <3>1
    <3> QED
      BY <2>1, <3>2
  <2>2. CASE ~(i < k.size)
    <3>1. i = k.size
      BY <1>1, <2>2
    <3> QED
      BY <1>22, <1>23, <2>2, <3>1 DEF x
  <2> QED
    BY <2>1, <2>2
<1> QED
  BY <1>13, <1>14, <1>15, <1>20, <1>21, <1>22, <1>23, <1>24 DEF d

-----------------------------------------------------------------------------
(***************************************************************************)
(* Where a bus call is: the functions still to be called are the rest of   *)
(* the call from one of them on.                                           *)
(***************************************************************************)
Pos(j, k) == todo = SubSeq(Fns(k), j, Len(Fns(k)))

(* At function i, which is f, the call goes on with function j. *)
Goes(i, j, f, k) ==
  Pos(i, k) => /\ todo # <<>> /\ Current = f
               /\ todo' = todo => Pos(i, k)'
               /\ todo' = Tail(todo) => Pos(j, k)'

LEMMA Walking ==
  ASSUME NEW k, Fns(k) \in Seq(FnSet), NEW i \in 1..Len(Fns(k)), NEW j, j = i + 1,
         NEW f, Fns(k)[i] = f
  PROVE  Goes(i, j, f, k)
<1> DEFINE F == Fns(k)
           n == Len(F)
<1>1. SUFFICES ASSUME Pos(i, k)
               PROVE  /\ todo # <<>> /\ Current = f
                      /\ todo' = todo => Pos(i, k)'
                      /\ todo' = Tail(todo) => Pos(j, k)'
  BY DEF Goes
<1>2. F \in Seq(FnSet) /\ i \in 1..Len(F) /\ n \in i..Len(F) /\ n \in Int /\ i \in Int
  OBVIOUS
<1>3. todo = SubSeq(F, i, n) /\ F[i] = f
  BY <1>1 DEF Pos
<1> HIDE DEF F
<1>4. Head(SubSeq(F, i, n)) = F[i] /\ Tail(SubSeq(F, i, n)) = SubSeq(F, i + 1, n)
  BY <1>2, HeadTailOfSubSeq
<1>5. Current = f
  BY <1>3, <1>4 DEF Current
<1>6. todo # <<>>
  <2>1. \A x \in i..n : F[x] \in FnSet
    BY <1>2
  <2>2. Len(SubSeq(F, i, n)) = IF i <= n THEN n - i + 1 ELSE 0
    BY <1>2, <2>1, SubSeqProperties
  <2>3. Len(todo) # 0
    BY <1>2, <1>3, <2>2
  <2> QED
    BY <2>3
<1>7. ASSUME todo' = todo PROVE Pos(i, k)'
  BY <1>3, <1>7 DEF Pos, F
<1>8. ASSUME todo' = Tail(todo) PROVE Pos(j, k)'
  <2>1. todo' = SubSeq(F, j, n)
    BY <1>3, <1>4, <1>8
  <2> QED
    BY <2>1 DEF Pos, F
<1> QED
  BY <1>5, <1>6, <1>7, <1>8

(* The way through the first eight functions of any call. *)
SelectWalk(k) ==
  /\ Goes(1, 2, Start, k) /\ Goes(2, 3, Send(DevAddr), k) /\ Goes(3, 4, WaitAck, k)
  /\ Goes(4, 5, <<"check">>, k) /\ Goes(5, 6, Send(k.reg \div 2^Bits), k)
  /\ Goes(6, 7, WaitAck, k) /\ Goes(7, 8, Send(k.reg % 2^Bits), k) /\ Goes(8, 9, WaitAck, k)

SendWalk(k) == Goes(9, 10, Send(k.bytes[1]), k) /\ Goes(10, 11, WaitAck, k)

ReceiveWalk(k) ==
  /\ Goes(9, 10, Stop, k) /\ Goes(10, 11, Start, k) /\ Goes(11, 12, Send(DevAddr + 1), k)
  /\ Goes(12, 13, WaitAck, k)
  /\ \A m \in 1..k.size : Goes(12 + m, 13 + m, Receive(IF m < k.size THEN 1 ELSE 0), k)

(* The last function of a call is Stop. *)
LastWalk(k) == Goes(Len(Fns(k)), Len(Fns(k)) + 1, Stop, k)

LEMMA Walks ==
  ASSUME NEW k, IsCall(k)
  PROVE  /\ SelectWalk(k) /\ LastWalk(k)
         /\ k.op = "send" => SendWalk(k) /\ Len(Fns(k)) = 11
         /\ k.op = "receive" => ReceiveWalk(k) /\ Len(Fns(k)) = 13 + k.size
         /\ Fns(k) \in Seq(FnSet) /\ Fns(k) # <<>>
<1> DEFINE F == Fns(k)
           Is(i, f) == i \in 1..Len(F) /\ F[i] = f
           i1 == 1  i2 == 2  i3 == 3  i4 == 4  i5 == 5  i6 == 6  i7 == 7  i8 == 8
           i9 == 9  i10 == 10  i11 == 11  i12 == 12  i13 == 13
<1>1. k.op \in {"send", "receive"} /\ k.size \in Nat \ {0}
  BY DEF IsCall
<1>2. F \in Seq(FnSet) /\ Len(F) >= 11 /\ Selects(F, k.reg) /\ F # <<>>
  <2>1. CASE k.op = "send"
    BY <2>1, SendFns
  <2>2. CASE k.op = "receive"
    BY <1>1, <2>2, ReceiveFns
  <2> QED
    BY <1>1, <2>1, <2>2
<1>3. /\ {i1, i2, i3, i4, i5, i6, i7, i8, i9, i10, i11, i12} \subseteq Nat
      /\ i2 = i1 + 1 /\ i3 = i2 + 1 /\ i4 = i3 + 1 /\ i5 = i4 + 1 /\ i6 = i5 + 1
      /\ i7 = i6 + 1 /\ i8 = i7 + 1 /\ i9 = i8 + 1 /\ i10 = i9 + 1 /\ i11 = i10 + 1
      /\ i12 = i11 + 1 /\ i13 = i12 + 1
  OBVIOUS
<1>4. /\ Is(i1, Start) /\ Is(i2, Send(DevAddr)) /\ Is(i3, WaitAck) /\ Is(i4, <<"check">>)
      /\ Is(i5, Send(k.reg \div 2^Bits)) /\ Is(i6, WaitAck)
      /\ Is(i7, Send(k.reg % 2^Bits)) /\ Is(i8, WaitAck)
  BY <1>2 DEF Selects
<1>5. k.op = "send" => /\ Len(F) = 11 /\ Is(i9, Send(k.bytes[1])) /\ Is(i10, WaitAck)
                       /\ Is(Len(F), Stop)
  BY SendFns
<1>6. k.op = "receive" =>
        /\ Len(F) = 13 + k.size /\ Is(i9, Stop) /\ Is(i10, Start) /\ Is(i11, Send(DevAddr + 1))
        /\ Is(i12, WaitAck) /\ Is(Len(F), Stop)
        /\ \A m \in 1..k.size : Is(i12 + m, Receive(IF m < k.size THEN 1 ELSE 0))
  <2>1. SUFFICES ASSUME k.op = "receive"
                 PROVE  /\ Len(F) = 13 + k.size /\ Is(i9, Stop) /\ Is(i10, Start)
                        /\ Is(i11, Send(DevAddr + 1)) /\ Is(i12, WaitAck) /\ Is(Len(F), Stop)
                        /\ \A m \in 1..k.size :
                             Is(i12 + m, Receive(IF m < k.size THEN 1 ELSE 0))
    OBVIOUS
  <2>2. /\ Len(F) = 13 + k.size /\ F[9] = Stop /\ F[10] = Start /\ F[11] = Send(DevAddr + 1)
        /\ F[12] = WaitAck
        /\ \A i \in 1..k.size : F[12 + i] = Receive(IF i < k.size THEN 1 ELSE 0)
        /\ F[13 + k.size] = Stop
    BY <2>1, ReceiveFns
  <2> HIDE DEF F
  <2> QED
    BY <1>1, <2>2
<1> HIDE DEF i1, i2, i3, i4, i5, i6, i7, i8, i9, i10, i11, i12, i13
<1>7. ASSUME NEW i, NEW j, i \in Nat, j = i + 1, NEW f, Is(i, f)
      PROVE  Goes(i, j, f, k)
  BY <1>2, <1>7, Walking
<1> HIDE DEF Is, F
<1>8. SelectWalk(k)
  <2>1. Goes(i1, i2, Start, k)
    BY <1>3, <1>4, <1>7
  <2>2. Goes(i2, i3, Send(DevAddr), k)
    BY <1>3, <1>4, <1>7
  <2>3. Goes(i3, i4, WaitAck, k)
    BY <1>3, <1>4, <1>7
  <2>4. Goes(i4, i5, <<"check">>, k)
    BY <1>3, <1>4, <1>7
  <2>5. Goes(i5, i6, Send(k.reg \div 2^Bits), k)
    BY <1>3, <1>4, <1>7
  <2>6. Goes(i6, i7, WaitAck, k)
    BY <1>3, <1>4, <1>7
  <2>7. Goes(i7, i8, Send(k.reg % 2^Bits), k)
    BY <1>3, <1>4, <1>7
  <2>8. Goes(i8, i9, WaitAck, k)
    BY <1>3, <1>4, <1>7
  <2> QED
    BY <2>1, <2>2, <2>3, <2>4, <2>5, <2>6, <2>7, <2>8
    DEF SelectWalk, i1, i2, i3, i4, i5, i6, i7, i8, i9
<1>9. LastWalk(k)
  <2>1. Len(F) \in Nat /\ Is(Len(F), Stop)
    BY <1>1, <1>2, <1>5, <1>6
  <2>2. Goes(Len(F), Len(F) + 1, Stop, k)
    BY <1>7, <2>1
  <2> QED
    BY <2>2 DEF LastWalk, F
<1>10. ASSUME k.op = "send" PROVE SendWalk(k)
  <2>1. Goes(i9, i10, Send(k.bytes[1]), k)
    BY <1>3, <1>5, <1>7, <1>10
  <2>2. Goes(i10, i11, WaitAck, k)
    BY <1>3, <1>5, <1>7, <1>10
  <2> QED
    BY <2>1, <2>2 DEF SendWalk, i9, i10, i11
<1>11. ASSUME k.op = "receive" PROVE ReceiveWalk(k)
  <2>1. Goes(i9, i10, Stop, k)
    BY <1>3, <1>6, <1>7, <1>11
  <2>2. Goes(i10, i11, Start, k)
    BY <1>3, <1>6, <1>7, <1>11
  <2>3. Goes(i11, i12, Send(DevAddr + 1), k)
    BY <1>3, <1>6, <1>7, <1>11
  <2>4. Goes(i12, i13, WaitAck, k)
    BY <1>3, <1>6, <1>7, <1>11
  <2>5. ASSUME NEW m \in 1..k.size
        PROVE  Goes(12 + m, 13 + m, Receive(IF m < k.size THEN 1 ELSE 0), k)
    <3> DEFINE f == Receive(IF m < k.size THEN 1 ELSE 0)
    <3>0. Is(i12 + m, f)
      BY <1>6, <1>11
    <3>1. Is(i12 + m, f) /\ i12 + m \in Nat /\ i13 + m = (i12 + m) + 1
      BY <1>1, <1>3, <3>0
    <3> HIDE DEF f
    <3>2. Goes(i12 + m, i13 + m, f, k)
      BY <1>7, <3>1
    <3> QED
      BY <3>2 DEF i12, i13, f
  <2> QED
    BY <2>1, <2>2, <2>3, <2>4, <2>5 DEF ReceiveWalk, i9, i10, i11, i12, i13
<1> QED
  BY <1>2, <1>5, <1>6, <1>8, <1>9, <1>10, <1>11 DEF F

-----------------------------------------------------------------------------
(***************************************************************************)
(* The invariant of a bus call: at which function it is, what that         *)
(* function and the chip are at, and what the call has moved so far.       *)
(***************************************************************************)
NoneYet == moved = <<>> /\ data = <<>>

HighByte(k) == k.reg \div 2^Bits
LowByte(k)  == k.reg % 2^Bits

(* START, the address of the chip and the register.  The chip's own        *)
(* register address is still a, where the last call left it.               *)
SelectInv(k, a) ==
  /\ NoneYet /\ byte = 0
  /\ \/ Pos(1, k) /\ StartInv(a)
     \/ Pos(2, k) /\ SendInv(DevAddr, "address", a, "high", a)
     \/ Pos(3, k) /\ WaitInv("high", DevAddr, a)
     \/ /\ Pos(4, k) /\ step = 1 /\ scl = 0 /\ sdaM = 1 /\ nack = deaf
        /\ Waited("high", a) /\ sdaC = chip.want
     \/ /\ Pos(5, k) /\ ~deaf
        /\ SendInv(HighByte(k), "high", a, "low", HighByte(k) * 2^Bits)
     \/ Pos(6, k) /\ ~deaf /\ WaitInv("low", HighByte(k), HighByte(k) * 2^Bits)
     \/ /\ Pos(7, k) /\ ~deaf
        /\ SendInv(LowByte(k), "low", HighByte(k) * 2^Bits, "store", k.reg)
     \/ Pos(8, k) /\ ~deaf /\ WaitInv("store", LowByte(k), k.reg)

(* The byte of a send. *)
WriteInv(k) ==
  /\ k.op = "send" /\ ~deaf /\ data = <<>> /\ byte = 0
  /\ \/ /\ Pos(9, k) /\ SendInv(k.bytes[1], "store", k.reg, "store", Following(k.reg))
        /\ moved = IF step < 6 * Bits THEN <<>> ELSE <<k.bytes[1]>>
     \/ /\ Pos(10, k) /\ moved = <<k.bytes[1]>>
        /\ WaitInv("store", k.bytes[1], Following(k.reg))

(* The m-th byte of a receive is v.  The chip fetches it before the master *)
(* samples it, and the next one when the master has acknowledged it.       *)
Receiving(k, m, v) ==
  /\ Pos(12 + m, k) /\ Len(data) = m - 1
  /\ IF deaf THEN v = Ones /\ moved = <<>>
     ELSE /\ Len(moved) = IF m < k.size /\ step > 5 * Bits + 5 THEN m + 1 ELSE m
          /\ moved[m] = v
  /\ ReceiveInv(IF m < k.size THEN 1 ELSE 0, v, k.reg + m)

ReadInv(k) ==
  /\ k.op = "receive"
  /\ \/ Pos(9, k) /\ NoneYet /\ byte = 0 /\ ~deaf /\ StopInv(k.reg)
     \/ Pos(10, k) /\ NoneYet /\ byte = 0 /\ StartInv(k.reg)
     \/ /\ Pos(11, k) /\ NoneYet /\ byte = 0
        /\ SendInv(DevAddr + 1, "address", k.reg, "fetch", k.reg)
     \/ /\ Pos(12, k) /\ data = <<>> /\ byte = 0 /\ WaitInv("fetch", DevAddr + 1, k.reg)
        /\ IF step < 7 \/ deaf THEN moved = <<>> ELSE Len(moved) = 1
     \/ \E m \in 1..k.size, v \in Byte : Receiving(k, m, v)

(* Everything asked for has been moved, or the chip did not answer. *)
AllMoved(k) ==
  /\ Len(moved) <= k.size /\ Len(data) <= k.size
  /\ Len(IF k.op = "send" THEN moved ELSE data) = k.size \/ (deaf /\ data = <<>>)

LastInv(k, a) ==
  /\ byte = 0 /\ AllMoved(k)
  /\ \/ Pos(Len(Fns(k)), k) /\ StopInv(a)
     \/ todo = <<>> /\ step = 1 /\ Free

CallInv(k) ==
  \/ \E a \in Address : SelectInv(k, a)
  \/ WriteInv(k)
  \/ ReadInv(k)
  \/ \E a \in Address : LastInv(k, a)

(* Between two calls. *)
Idle == call = None /\ byte = 0 /\ NoneYet /\ ~deaf

(* touch_init: whatever the chip did before, the bus is free in the end. *)
BootInv ==
  \/ todo = <<<<"pins">>, Stop, <<"reset">>>> /\ step \in 1..2
  \/ /\ todo = <<Stop, <<"reset">>>> /\ step \in 1..6
     /\ step > 3 => scl = 1
     /\ step = 6 => sdaM = 1
  \/ todo = <<<<"reset">>>> /\ step = 1 /\ scl = 1 /\ sdaM = 1
  \/ todo = <<>> /\ step = 1 /\ Free

RunInv ==
  \/ pc = "off" /\ Idle /\ todo = <<>> /\ step = 1
  \/ pc = "boot" /\ Idle /\ BootInv
  \/ pc \in DOMAIN CallOf \cup {"idle"} /\ Idle /\ todo = <<>> /\ step = 1 /\ Free
  \/ \E c \in DOMAIN CallOf : pc = c /\ call = CallOf[c] /\ CallInv(CallOf[c])

AllFns == FnSet \cup {<<"pins">>, <<"reset">>}

TypeInv ==
  /\ BusTypes /\ ChipInv
  /\ todo \in Seq(AllFns)
  /\ todo # <<>> => step <= Len(Ops(Current))
  /\ pc \in {"off", "boot", "idle"} \cup DOMAIN CallOf /\ pressed \in BOOLEAN

(* The inductive invariant. *)
Inv == TypeInv /\ RunInv

-----------------------------------------------------------------------------
(***************************************************************************)
(* Each function begins where the one before has ended.                    *)
(***************************************************************************)
LEMMA SendEntered ==
  ASSUME step' = 1, scl' = 0, NEW b \in Byte, NEW p, NEW a, NEW q, NEW c, Hears(p, 0, 0, a)'
  PROVE  SendInv(b, p, a, q, c)'
<1> DEFINE i == 1
           o == 1
<1>1. Bits \in Nat /\ Bits >= 2 /\ i \in 1..Bits /\ o \in 1..6 /\ i - 1 = 0
  BY BitsAre
<1>2. Prefix(b, i - 1) = 0
  BY <1>1, PrefixEnds
<1>3. Hears(p, i - 1, Prefix(b, i - 1), a)'
  BY <1>1, <1>2
<1>4. step' = 6 * (i - 1) + o /\ scl' = Level(o \in 4..5) /\ ~(o > 1) /\ ~(o \in 4..5) /\ o # 6
  BY DEF Level
<1> HIDE DEF i, o
<1>5. SendBit(b, p, a, q, c, i, o)'
  BY <1>3, <1>4 DEF SendBit
<1> QED
  BY <1>1, <1>5 DEF SendInv

LEMMA WaitEntered ==
  ASSUME step' = 1, scl' = 0, NEW q, NEW b, NEW c, Answers(q, Bits, b, c)', sdaC' = chip'.want
  PROVE  WaitInv(q, b, c)'
BY DEF WaitInv, Level

LEMMA StopEntered ==
  ASSUME step' = 1, scl' = 0, sdaC' = 1, NEW a, chip'.ptr = a, chip'.want = 1, chip'.n = 0,
         chip'.phase \in {"ignore", "store"}
  PROVE  StopInv(a)'
BY DEF StopInv, Level

LEMMA ReceiveEntered ==
  ASSUME step' = 1, scl' = 0, sdaM' = 1, byte' = 0, sdaC' = chip'.want, NEW ack, NEW v \in Byte, NEW a,
         IF deaf' THEN Ignores' ELSE Gives(0, v, a, Bit(v, 1))'
  PROVE  ReceiveInv(ack, v, a)'
<1> DEFINE i == 1
           o == 1
<1>1. Bits \in Nat /\ Bits >= 2 /\ i \in 1..Bits /\ o \in 1..5 /\ i - 1 = 0
  BY BitsAre
<1>2. Prefix(v, i - 1) = 0
  BY <1>1, PrefixEnds
<1>3. IF deaf' THEN Ignores' ELSE Gives(i - 1, v, a, Bit(v, i))'
  BY <1>1
<1>4. /\ step' = 5 * (i - 1) + o /\ scl' = Level(o \in 2..4) /\ o < 4 /\ o = 1
      /\ ~(o \in 2..4) /\ o # 5
  BY DEF Level
<1> HIDE DEF i, o
<1>5. byte' = Prefix(v, IF o < 4 THEN i - 1 ELSE i)
  BY <1>2, <1>4
<1>6. ReceiveBit(v, a, i, o)'
  BY <1>3, <1>4, <1>5 DEF ReceiveBit
<1> QED
  BY <1>1, <1>6 DEF ReceiveInv

(* A register has a byte above and a byte below. *)
LEMMA BytesOfCall ==
  ASSUME NEW k, IsCall(k)
  PROVE  /\ HighByte(k) \in Byte /\ LowByte(k) \in Byte
         /\ HighByte(k) * 2^Bits + LowByte(k) = k.reg
         /\ \A m \in 0..(k.size - 1) : /\ k.reg + m \in Address
                                       /\ Following(k.reg + m) = k.reg + (m + 1)
         /\ k.reg + k.size \in Address
<1>1. k.reg \in Address /\ k.size \in Nat \ {0} /\ k.reg + k.size \in Address
  BY DEF IsCall
<1>2. /\ HighByte(k) \in Byte /\ LowByte(k) \in Byte
      /\ HighByte(k) * 2^Bits + LowByte(k) = k.reg
  BY <1>1, TwoBytes DEF HighByte, LowByte
<1>3. ASSUME NEW m \in 0..(k.size - 1)
      PROVE  k.reg + m \in Address /\ Following(k.reg + m) = k.reg + (m + 1)
  <2> DEFINE N == 2^(2 * Bits)
  <2>1. N \in Nat /\ Address = 0..(N - 1)
    BY SquareOfBytes DEF Address
  <2> HIDE DEF N
  <2>2. m \in Nat /\ k.reg \in Nat /\ k.size \in Nat
    BY <1>1, <2>1
  <2> DEFINE x == k.reg + m
  <2>3. x \in Address /\ x + 1 \in Address /\ x + 1 = k.reg + (m + 1)
    BY <1>1, <2>1, <2>2
  <2> HIDE DEF x
  <2>4. Following(x) = x + 1
    BY <2>3, NextRegister
  <2> QED
    BY <2>3, <2>4 DEF x
<1> QED
  BY <1>1, <1>2, <1>3

(* STOP comes last, alone. *)
LEMMA OnlyStop ==
  ASSUME NEW k, IsCall(k), todo' = <<Stop>>
  PROVE  Pos(Len(Fns(k)), k)'
<1> DEFINE F == Fns(k)
           n == Len(F)
<1>1. F \in Seq(FnSet) /\ F # <<>>
  BY Walks
<1>2. F[n] = Stop
  <2>1. k.op \in {"send", "receive"}
    BY DEF IsCall
  <2> QED
    BY <2>1, SendFns, ReceiveFns
<1> HIDE DEF F
<1>3. n \in 1..Len(F) /\ n \in n..Len(F) /\ n + 1 > n /\ n \in Int
  BY <1>1
<1>4. SubSeq(F, n, n) = <<F[n]>> \o SubSeq(F, n + 1, n)
  BY <1>1, <1>3, SubSeqRecursiveFirst
<1>5. SubSeq(F, n + 1, n) = <<>>
  BY <1>3, SubSeqEmpty
<1>6. <<F[n]>> \o <<>> = <<F[n]>>
  OBVIOUS
<1>7. SubSeq(F, n, n) = <<Stop>>
  BY <1>2, <1>4, <1>5, <1>6
<1> QED
  BY <1>7 DEF Pos, F

LEMMA AfterLast ==
  ASSUME NEW k, IsCall(k), Pos(Len(Fns(k)) + 1, k)'
  PROVE  todo' = <<>>
<1> DEFINE F == Fns(k)
           n == Len(F)
<1>1. F \in Seq(FnSet)
  BY Walks
<1>2. todo' = SubSeq(F, n + 1, n)
  BY DEF Pos
<1> HIDE DEF F
<1>3. n + 1 > n /\ n \in Int
  BY <1>1
<1> QED
  BY <1>2, <1>3, SubSeqEmpty

-----------------------------------------------------------------------------
(***************************************************************************)
(* What a step of the master does for the call: nothing yet, or the chip   *)
(* turns away, stores, fetches, or the caller gets a byte.                 *)
(***************************************************************************)
TurnsAway == NoneYet /\ deaf' /\ regs' = regs /\ moved' = moved /\ data' = data

Stores(k) ==
  /\ k.op = "send" /\ ~deaf /\ Len(moved) < k.size
  /\ LET b == k.bytes[Len(moved) + 1]
     IN  regs' = [regs EXCEPT ![k.reg + Len(moved)] = b] /\ moved' = Append(moved, b)
  /\ deaf' = deaf /\ data' = data

FetchesNext(k) ==
  /\ k.op = "receive" /\ ~deaf /\ Len(moved) < k.size
  /\ Fetches(k.reg + Len(moved)) /\ data' = data

Delivers(k) ==
  /\ k.op = "receive" /\ Len(data) < k.size /\ Frozen
  /\ IF deaf THEN data' = Append(data, Ones)
     ELSE Len(data) < Len(moved) /\ data' = Append(data, moved[Len(data) + 1])

Effect(k) ==
  \/ Frozen /\ data' = data
  \/ TurnsAway
  \/ Stores(k)
  \/ FetchesNext(k)
  \/ Delivers(k)

(* The address and the register do nothing but name where to begin. *)
LEMMA SelectStep ==
  ASSUME InCall, Acts, NEW k, IsCall(k), call = k, NEW a \in Address, SelectInv(k, a)
  PROVE  CallInv(k)' /\ call' = call /\ Effect(k)
<1> DEFINE h == HighByte(k)
           l == LowByte(k)
           high == h * 2^Bits
<1>1. /\ h \in Byte /\ l \in Byte /\ high + l = k.reg /\ DevAddr \in Byte /\ k.reg \in Address
      /\ high \in Address
  BY BytesOfCall, Bytes, FromTwoBytes DEF IsCall
<1>2. /\ Goes(1, 2, Start, k) /\ Goes(2, 3, Send(DevAddr), k) /\ Goes(3, 4, WaitAck, k)
      /\ Goes(4, 5, <<"check">>, k) /\ Goes(5, 6, Send(h), k)
      /\ Goes(6, 7, WaitAck, k) /\ Goes(7, 8, Send(l), k) /\ Goes(8, 9, WaitAck, k)
  BY Walks DEF SelectWalk, HighByte, LowByte
<1>3. NoneYet /\ byte = 0
  BY DEF SelectInv
<1>4. ASSUME Frozen, Kept
      PROVE  NoneYet' /\ byte' = 0 /\ deaf' = deaf /\ call' = call /\ Effect(k)
  BY <1>3, <1>4 DEF Frozen, Kept, NoneYet, Effect
<1>5. ASSUME SelectInv(k, a)' PROVE CallInv(k)'
  BY <1>5 DEF CallInv
<1> HIDE DEF h, l, high
<1>6. CASE Pos(1, k) /\ StartInv(a)
  <2>1. Current = Start /\ (todo' = todo => Pos(1, k)') /\ (todo' = Tail(todo) => Pos(2, k)')
    BY <1>2, <1>6 DEF Goes
  <2>2. /\ Frozen /\ Kept
        /\ \/ todo' = todo /\ StartInv(a)'
           \/ todo' = Tail(todo) /\ step' = 1 /\ scl' = 0 /\ Hears("address", 0, 0, a)'
    BY <1>6, <2>1, StartStep
  <2>3. CASE todo' = todo /\ StartInv(a)'
    BY <1>4, <1>5, <2>1, <2>2, <2>3 DEF SelectInv
  <2>4. CASE todo' = Tail(todo) /\ step' = 1 /\ scl' = 0 /\ Hears("address", 0, 0, a)'
    <3> DEFINE p == "address"
               q == "high"
    <3>1. Hears(p, 0, 0, a)'
      BY <2>4
    <3> HIDE DEF p, q
    <3>2. SendInv(DevAddr, p, a, q, a)'
      BY <1>1, <2>4, <3>1, SendEntered
    <3>3. SendInv(DevAddr, "address", a, "high", a)'
      BY <3>2 DEF p, q
    <3> QED
      BY <1>4, <1>5, <2>1, <2>2, <2>4, <3>3 DEF SelectInv
  <2> QED
    BY <2>2, <2>3, <2>4
<1>7. CASE Pos(2, k) /\ SendInv(DevAddr, "address", a, "high", a)
  <2>1. Current = Send(DevAddr) /\ (todo' = todo => Pos(2, k)') /\ (todo' = Tail(todo) => Pos(3, k)')
    BY <1>2, <1>7 DEF Goes
  <2> DEFINE p == "address"
             q == "high"
             b == DevAddr
  <2>2. p \in Taking /\ Leads(b, p, a, q, a) /\ SendInv(b, p, a, q, a) /\ b \in Byte /\ Current = Send(b)
    BY <1>1, <1>7, <2>1 DEF Taking, Leads
  <2> HIDE DEF p, q, b
  <2>3. /\ Kept
        /\ IF step = 6 * Bits - 1 THEN Arrives(b, p, a) ELSE Frozen
        /\ \/ todo' = todo /\ step' = step + 1 /\ SendInv(b, p, a, q, a)'
           \/ /\ todo' = Tail(todo) /\ step = 6 * Bits + 1 /\ step' = 1 /\ scl' = 0 /\ sdaM' = 1
              /\ Answers(q, Bits, b, a)' /\ sdaC' = chip'.want
    BY <2>2, SendStep
  <2>4. Effect(k) /\ NoneYet' /\ byte' = 0 /\ call' = call
    <3>1. CASE Frozen
      BY <1>4, <2>3, <3>1
    <3>2. CASE deaf' /\ regs' = regs /\ moved' = moved
      BY <1>3, <2>3, <3>2 DEF Effect, TurnsAway, Kept, NoneYet
    <3> QED
      BY <2>3, <3>1, <3>2 DEF Arrives, p
  <2>5. CASE todo' = todo /\ SendInv(b, p, a, q, a)'
    <3>1. SendInv(DevAddr, "address", a, "high", a)'
      BY <2>5 DEF p, q, b
    <3> QED
      BY <1>5, <2>1, <2>4, <2>5, <3>1 DEF SelectInv
  <2>6. CASE todo' = Tail(todo) /\ step' = 1 /\ scl' = 0 /\ Answers(q, Bits, b, a)' /\ sdaC' = chip'.want
    <3>1. WaitInv(q, b, a)'
      BY <2>6, WaitEntered
    <3>2. WaitInv("high", DevAddr, a)'
      BY <3>1 DEF q, b
    <3> QED
      BY <1>5, <2>1, <2>4, <2>6, <3>2 DEF SelectInv
  <2> QED
    BY <2>3, <2>4, <2>5, <2>6
<1>8. CASE Pos(3, k) /\ WaitInv("high", DevAddr, a)
  <2>1. Current = WaitAck /\ (todo' = todo => Pos(3, k)') /\ (todo' = Tail(todo) => Pos(4, k)')
    BY <1>2, <1>8 DEF Goes
  <2> DEFINE q == "high"
             b == DevAddr
  <2>2. WaitInv(q, b, a) /\ q \in {"high", "low", "store", "fetch"} /\ q # "fetch"
    BY <1>8
  <2> HIDE DEF q, b
  <2>3. /\ byte' = byte /\ data' = data /\ call' = call
        /\ IF step = 6 /\ q = "fetch" /\ ~deaf THEN Fetches(a) ELSE Frozen
        /\ \/ todo' = todo /\ WaitInv(q, b, a)'
           \/ /\ todo' = Tail(todo) /\ step' = 1 /\ scl' = 0 /\ sdaM' = 1
              /\ nack' = deaf' /\ Waited(q, a)' /\ sdaC' = chip'.want
    BY <2>1, <2>2, WaitStep
  <2>4. Effect(k) /\ NoneYet' /\ byte' = 0
    BY <1>3, <2>2, <2>3 DEF Effect, Frozen, NoneYet
  <2>5. CASE todo' = todo /\ WaitInv(q, b, a)'
    <3>1. WaitInv("high", DevAddr, a)'
      BY <2>5 DEF q, b
    <3> QED
      BY <1>5, <2>1, <2>3, <2>4, <2>5, <3>1 DEF SelectInv
  <2>6. CASE /\ todo' = Tail(todo) /\ step' = 1 /\ scl' = 0 /\ sdaM' = 1
             /\ nack' = deaf' /\ Waited(q, a)' /\ sdaC' = chip'.want
    <3>1. Waited("high", a)'
      BY <2>6 DEF q
    <3> QED
      BY <1>5, <2>1, <2>3, <2>4, <2>6, <3>1 DEF SelectInv
  <2> QED
    BY <2>3, <2>4, <2>5, <2>6
<1>9. CASE /\ Pos(4, k) /\ step = 1 /\ scl = 0 /\ sdaM = 1 /\ nack = deaf
           /\ Waited("high", a) /\ sdaC = chip.want
  <2>1. Current = <<"check">> /\ (todo' = Tail(todo) => Pos(5, k)')
    BY <1>2, <1>9 DEF Goes
  <2>2. Op[1] = "check"
    <3>1. Op = <<Check>>[1]
      BY <1>9, <2>1, OpsAre DEF Op
    <3> QED
      BY <3>1, Operations
  <2>3. Calm /\ Kept /\ step' = 1 /\ todo' = IF nack THEN <<Stop>> ELSE Tail(todo)
    BY <2>2, StepCheck
  <2>4. Effect(k) /\ NoneYet' /\ byte' = 0 /\ deaf' = deaf /\ call' = call
    BY <1>4, <2>3 DEF Calm
  <2>5. CASE deaf
    <3>1. todo' = <<Stop>>
      BY <1>9, <2>3, <2>5
    <3>2. Pos(Len(Fns(k)), k)'
      BY <3>1, OnlyStop
    <3>3. Ignores /\ chip.ptr \in Address
      BY <1>9, <2>5 DEF Waited, InCall, ChipInv, ChipType
    <3>4. PICK x \in Address : x = chip.ptr
      BY <3>3
    <3>5. StopInv(x)'
      BY <1>9, <2>3, <3>3, <3>4, StopEntered DEF Calm, Ignores, Still
    <3>6. AllMoved(k)'
      BY <2>4, <2>5 DEF AllMoved, NoneYet, IsCall
    <3>7. LastInv(k, x)'
      BY <2>4, <3>2, <3>5, <3>6 DEF LastInv
    <3> QED
      BY <2>4, <3>7 DEF CallInv
  <2>6. CASE ~deaf
    <3>1. todo' = Tail(todo)
      BY <1>9, <2>3, <2>6
    <3> DEFINE p == "high"
               q == "low"
    <3>2. Hears(p, 0, 0, a)'
      BY <1>9, <2>3, <2>4, <2>6 DEF Waited, Hears, Calm
    <3> HIDE DEF p, q
    <3>3. scl' = 0
      BY <1>9, <2>3 DEF Calm
    <3>4. SendInv(h, p, a, q, high)'
      BY <1>1, <2>3, <3>2, <3>3, SendEntered
    <3>5. SendInv(HighByte(k), "high", a, "low", HighByte(k) * 2^Bits)'
      BY <3>4 DEF p, q, h, high
    <3> QED
      BY <1>5, <2>1, <2>4, <2>6, <3>1, <3>5 DEF SelectInv
  <2> QED
    BY <2>5, <2>6
<1>10. CASE Pos(5, k) /\ ~deaf /\ SendInv(HighByte(k), "high", a, "low", HighByte(k) * 2^Bits)
  <2>1. Current = Send(h) /\ (todo' = todo => Pos(5, k)') /\ (todo' = Tail(todo) => Pos(6, k)')
    BY <1>2, <1>10 DEF Goes
  <2> DEFINE p == "high"
             q == "low"
  <2>2. p \in Taking /\ Leads(h, p, a, q, high) /\ SendInv(h, p, a, q, high)
    BY <1>10 DEF Taking, Leads, h, high
  <2> HIDE DEF p, q
  <2>3. /\ Kept
        /\ IF step = 6 * Bits - 1 THEN Arrives(h, p, a) ELSE Frozen
        /\ \/ todo' = todo /\ step' = step + 1 /\ SendInv(h, p, a, q, high)'
           \/ /\ todo' = Tail(todo) /\ step = 6 * Bits + 1 /\ step' = 1 /\ scl' = 0 /\ sdaM' = 1
              /\ Answers(q, Bits, h, high)' /\ sdaC' = chip'.want
    BY <1>1, <2>1, <2>2, SendStep
  <2>4. Frozen
    BY <2>3 DEF Arrives, p
  <2>5. Effect(k) /\ NoneYet' /\ byte' = 0 /\ deaf' = deaf /\ call' = call
    BY <1>4, <2>3, <2>4
  <2>6. CASE todo' = todo /\ SendInv(h, p, a, q, high)'
    <3>1. SendInv(HighByte(k), "high", a, "low", HighByte(k) * 2^Bits)'
      BY <2>6 DEF p, q, h, high
    <3> QED
      BY <1>5, <1>10, <2>1, <2>5, <2>6, <3>1 DEF SelectInv
  <2>7. CASE todo' = Tail(todo) /\ step' = 1 /\ scl' = 0 /\ Answers(q, Bits, h, high)' /\ sdaC' = chip'.want
    <3>1. WaitInv(q, h, high)'
      BY <2>7, WaitEntered
    <3>2. WaitInv("low", HighByte(k), HighByte(k) * 2^Bits)'
      BY <3>1 DEF q, h, high
    <3> QED
      BY <1>5, <1>10, <2>1, <2>5, <2>7, <3>2 DEF SelectInv
  <2> QED
    BY <2>3, <2>5, <2>6, <2>7
<1>11. CASE Pos(6, k) /\ ~deaf /\ WaitInv("low", HighByte(k), HighByte(k) * 2^Bits)
  <2>1. Current = WaitAck /\ (todo' = todo => Pos(6, k)') /\ (todo' = Tail(todo) => Pos(7, k)')
    BY <1>2, <1>11 DEF Goes
  <2> DEFINE q == "low"
             p == "store"
  <2>2. WaitInv(q, h, high) /\ q \in {"high", "low", "store", "fetch"} /\ q # "fetch"
    BY <1>11 DEF h, high
  <2> HIDE DEF q
  <2>3. /\ byte' = byte /\ data' = data /\ call' = call
        /\ IF step = 6 /\ q = "fetch" /\ ~deaf THEN Fetches(high) ELSE Frozen
        /\ \/ todo' = todo /\ WaitInv(q, h, high)'
           \/ /\ todo' = Tail(todo) /\ step' = 1 /\ scl' = 0 /\ sdaM' = 1
              /\ nack' = deaf' /\ Waited(q, high)' /\ sdaC' = chip'.want
    BY <2>1, <2>2, WaitStep
  <2>4. Effect(k) /\ NoneYet' /\ byte' = 0 /\ deaf' = deaf
    BY <1>3, <2>2, <2>3 DEF Effect, Frozen, NoneYet
  <2>5. CASE todo' = todo /\ WaitInv(q, h, high)'
    <3>1. WaitInv("low", HighByte(k), HighByte(k) * 2^Bits)'
      BY <2>5 DEF q, h, high
    <3> QED
      BY <1>5, <1>11, <2>1, <2>3, <2>4, <2>5, <3>1 DEF SelectInv
  <2>6. CASE /\ todo' = Tail(todo) /\ step' = 1 /\ scl' = 0 /\ sdaM' = 1
             /\ nack' = deaf' /\ Waited(q, high)' /\ sdaC' = chip'.want
    <3>1. Hears(q, 0, 0, high)'
      BY <1>11, <2>2, <2>4, <2>6 DEF Waited, Hears
    <3> HIDE DEF p
    <3>2. SendInv(l, q, high, p, k.reg)'
      BY <1>1, <2>6, <3>1, SendEntered
    <3>3. SendInv(LowByte(k), "low", HighByte(k) * 2^Bits, "store", k.reg)'
      BY <3>2 DEF q, p, h, l, high
    <3> QED
      BY <1>5, <1>11, <2>1, <2>3, <2>4, <2>6, <3>3 DEF SelectInv
  <2> QED
    BY <2>3, <2>4, <2>5, <2>6
<1>12. CASE Pos(7, k) /\ ~deaf /\ SendInv(LowByte(k), "low", HighByte(k) * 2^Bits, "store", k.reg)
  <2>1. Current = Send(l) /\ (todo' = todo => Pos(7, k)') /\ (todo' = Tail(todo) => Pos(8, k)')
    BY <1>2, <1>12 DEF Goes
  <2> DEFINE p == "low"
             q == "store"
             c == k.reg
  <2>2. p \in Taking /\ Leads(l, p, high, q, c) /\ SendInv(l, p, high, q, c)
    BY <1>1, <1>12 DEF Taking, Leads, h, l, high
  <2> HIDE DEF p, q, c
  <2>3. /\ Kept
        /\ IF step = 6 * Bits - 1 THEN Arrives(l, p, high) ELSE Frozen
        /\ \/ todo' = todo /\ step' = step + 1 /\ SendInv(l, p, high, q, c)'
           \/ /\ todo' = Tail(todo) /\ step = 6 * Bits + 1 /\ step' = 1 /\ scl' = 0 /\ sdaM' = 1
              /\ Answers(q, Bits, l, c)' /\ sdaC' = chip'.want
    BY <1>1, <2>1, <2>2, SendStep
  <2>4. Frozen
    BY <2>3 DEF Arrives, p
  <2>5. Effect(k) /\ NoneYet' /\ byte' = 0 /\ deaf' = deaf /\ call' = call
    BY <1>4, <2>3, <2>4
  <2>6. CASE todo' = todo /\ SendInv(l, p, high, q, c)'
    <3>1. SendInv(LowByte(k), "low", HighByte(k) * 2^Bits, "store", k.reg)'
      BY <2>6 DEF p, q, c, h, l, high
    <3> QED
      BY <1>5, <1>12, <2>1, <2>5, <2>6, <3>1 DEF SelectInv
  <2>7. CASE todo' = Tail(todo) /\ step' = 1 /\ scl' = 0 /\ Answers(q, Bits, l, c)' /\ sdaC' = chip'.want
    <3>1. WaitInv(q, l, c)'
      BY <2>7, WaitEntered
    <3>2. WaitInv("store", LowByte(k), k.reg)'
      BY <3>1 DEF q, l, c
    <3> QED
      BY <1>5, <1>12, <2>1, <2>5, <2>7, <3>2 DEF SelectInv
  <2> QED
    BY <2>3, <2>5, <2>6, <2>7
<1>13. CASE Pos(8, k) /\ ~deaf /\ WaitInv("store", LowByte(k), k.reg)
  <2>1. Current = WaitAck /\ (todo' = todo => Pos(8, k)') /\ (todo' = Tail(todo) => Pos(9, k)')
    BY <1>2, <1>13 DEF Goes
  <2> DEFINE q == "store"
             c == k.reg
  <2>2. WaitInv(q, l, c) /\ q \in {"high", "low", "store", "fetch"} /\ q # "fetch"
    BY <1>13 DEF l
  <2> HIDE DEF q, c
  <2>3. /\ byte' = byte /\ data' = data /\ call' = call
        /\ IF step = 6 /\ q = "fetch" /\ ~deaf THEN Fetches(c) ELSE Frozen
        /\ \/ todo' = todo /\ WaitInv(q, l, c)'
           \/ /\ todo' = Tail(todo) /\ step' = 1 /\ scl' = 0 /\ sdaM' = 1
              /\ nack' = deaf' /\ Waited(q, c)' /\ sdaC' = chip'.want
    BY <2>1, <2>2, WaitStep
  <2>4. Effect(k) /\ NoneYet' /\ byte' = 0 /\ ~deaf'
    BY <1>3, <1>13, <2>2, <2>3 DEF Effect, Frozen, NoneYet
  <2>5. CASE todo' = todo /\ WaitInv(q, l, c)'
    <3>1. WaitInv("store", LowByte(k), k.reg)'
      BY <2>5 DEF q, l, c
    <3> QED
      BY <1>5, <2>1, <2>3, <2>4, <2>5, <3>1 DEF SelectInv
  <2>6. CASE /\ todo' = Tail(todo) /\ step' = 1 /\ scl' = 0 /\ sdaM' = 1
             /\ nack' = deaf' /\ Waited(q, c)' /\ sdaC' = chip'.want
    <3>1. /\ chip'.phase = q /\ chip'.n = 0 /\ chip'.shift = 0 /\ chip'.ptr = c
          /\ chip'.want = 1 /\ ~chip'.more /\ sdaC' = 1
      BY <2>2, <2>4, <2>6 DEF Waited
    <3>2. CASE k.op = "send"
      <4> DEFINE b == k.bytes[1]
                 e == Following(c)
      <4>1. b \in Byte
        BY <3>2 DEF IsCall
      <4> HIDE DEF b, e
      <4>2. Hears(q, 0, 0, c)'
        BY <2>4, <3>1 DEF Hears
      <4>3. SendInv(b, q, c, q, e)'
        BY <2>6, <4>1, <4>2, SendEntered
      <4>4. SendInv(k.bytes[1], "store", k.reg, "store", Following(k.reg))'
        BY <4>3 DEF q, b, c, e
      <4>5. step' < 6 * Bits
        BY <2>6, BitsAre
      <4>6. WriteInv(k)'
        BY <2>1, <2>4, <2>6, <3>2, <4>4, <4>5 DEF WriteInv, NoneYet
      <4> QED
        BY <2>3, <2>4, <4>6 DEF CallInv
    <3>3. CASE k.op = "receive"
      <4>1. StopInv(c)'
        BY <2>6, <3>1, StopEntered DEF q
      <4>2. ReadInv(k)'
        BY <2>1, <2>4, <2>6, <3>3, <4>1 DEF ReadInv, c
      <4> QED
        BY <2>3, <2>4, <4>2 DEF CallInv
    <3> QED
      BY <3>2, <3>3 DEF IsCall
  <2> QED
    BY <2>3, <2>4, <2>5, <2>6
<1> QED
  BY <1>6, <1>7, <1>8, <1>9, <1>10, <1>11, <1>12, <1>13 DEF SelectInv

(* Nothing of what the call has to show for has changed. *)
LEMMA NothingMoved ==
  ASSUME Frozen, data' = data, NEW k
  PROVE  /\ Effect(k) /\ (NoneYet => NoneYet') /\ (AllMoved(k) => AllMoved(k)')
         /\ deaf' = deaf /\ moved' = moved
BY DEF Frozen, Effect, NoneYet, AllMoved

(* The byte of a send reaches its register, once. *)
LEMMA WriteStep ==
  ASSUME InCall, Acts, NEW k, IsCall(k), call = k, WriteInv(k)
  PROVE  CallInv(k)' /\ call' = call /\ Effect(k)
<1> DEFINE b == k.bytes[1]
           a == k.reg
           c == Following(k.reg)
<1>1. /\ k.op = "send" /\ ~deaf /\ data = <<>> /\ byte = 0 /\ k.size = 1 /\ b \in Byte
      /\ a \in Address /\ c \in Address
  BY NextRegister DEF WriteInv, IsCall
<1>2. /\ Goes(9, 10, Send(b), k) /\ Goes(10, 11, WaitAck, k) /\ Len(Fns(k)) = 11
  BY <1>1, Walks DEF SendWalk
<1>3. ASSUME WriteInv(k)' PROVE CallInv(k)'
  BY <1>3 DEF CallInv
<1>4. /\ step \in Nat /\ Bits \in Nat /\ Bits >= 2
  BY BitsAre DEF InCall, BusTypes
<1>5. CASE /\ Pos(9, k) /\ SendInv(b, "store", a, "store", c)
           /\ moved = IF step < 6 * Bits THEN <<>> ELSE <<b>>
  <2> HIDE DEF a, b, c
  <2>1. Current = Send(b) /\ (todo' = todo => Pos(9, k)') /\ (todo' = Tail(todo) => Pos(10, k)')
    BY <1>2, <1>5 DEF Goes
  <2> DEFINE p == "store"
  <2>2. p \in Taking /\ Leads(b, p, a, p, c) /\ SendInv(b, p, a, p, c)
    BY <1>5 DEF Taking, Leads, a, c
  <2> HIDE DEF p
  <2>3. /\ Kept
        /\ IF step = 6 * Bits - 1 THEN Arrives(b, p, a) ELSE Frozen
        /\ \/ todo' = todo /\ step' = step + 1 /\ SendInv(b, p, a, p, c)'
           \/ /\ todo' = Tail(todo) /\ step = 6 * Bits + 1 /\ step' = 1 /\ scl' = 0 /\ sdaM' = 1
              /\ Answers(p, Bits, b, c)' /\ sdaC' = chip'.want
    BY <1>1, <2>1, <2>2, SendStep
  <2>4. data' = <<>> /\ data' = data /\ byte' = 0 /\ call' = call
    BY <1>1, <2>3 DEF Kept
  <2>5. CASE step = 6 * Bits - 1
    <3>1. moved = <<>>
      BY <1>4, <1>5, <2>5
    <3>2. regs' = [regs EXCEPT ![a] = b] /\ deaf' = deaf /\ moved' = Append(moved, b)
      BY <2>3, <2>5 DEF Arrives, p
    <3>3. moved' = <<b>>
      BY <3>1, <3>2
    <3>4. Stores(k)
      <4>1. Len(moved) = 0 /\ a + 0 = a /\ 0 + 1 = 1
        BY <1>1, <3>1, SquareOfBytes DEF Address
      <4>2. k.reg + Len(moved) = a /\ k.bytes[Len(moved) + 1] = b /\ Len(moved) < k.size
        BY <1>1, <4>1 DEF a, b
      <4> QED
        BY <1>1, <2>4, <3>2, <4>2 DEF Stores
    <3>5. todo' = todo /\ step' = 6 * Bits /\ SendInv(b, p, a, p, c)'
      BY <1>4, <2>3, <2>5
    <3>6. ~(step' < 6 * Bits) /\ ~deaf'
      BY <1>1, <1>4, <3>2, <3>5
    <3>7. WriteInv(k)'
      BY <1>1, <2>1, <2>4, <3>3, <3>5, <3>6 DEF WriteInv, a, b, c, p
    <3> QED
      BY <1>3, <2>4, <3>4, <3>7 DEF Effect
  <2>6. CASE step # 6 * Bits - 1
    <3>1. Frozen
      BY <2>3, <2>6
    <3>2. Effect(k) /\ deaf' = deaf /\ moved' = moved
      BY <2>4, <3>1, NothingMoved
    <3>3. CASE todo' = todo /\ step' = step + 1 /\ SendInv(b, p, a, p, c)'
      <4>1. (step' < 6 * Bits) = (step < 6 * Bits)
        BY <1>4, <2>6, <3>3
      <4>2. moved' = IF step' < 6 * Bits THEN <<>> ELSE <<b>>
        BY <1>5, <3>2, <4>1
      <4>3. WriteInv(k)'
        BY <1>1, <2>1, <2>4, <3>2, <3>3, <4>2 DEF WriteInv, a, b, c, p
      <4> QED
        BY <1>3, <2>4, <3>2, <4>3
    <3>4. CASE /\ todo' = Tail(todo) /\ step = 6 * Bits + 1 /\ step' = 1 /\ scl' = 0
               /\ Answers(p, Bits, b, c)' /\ sdaC' = chip'.want
      <4>1. WaitInv(p, b, c)'
        BY <3>4, WaitEntered
      <4>2. moved' = <<b>>
        BY <1>4, <1>5, <3>2, <3>4
      <4>3. WriteInv(k)'
        BY <1>1, <2>1, <2>4, <3>2, <3>4, <4>1, <4>2 DEF WriteInv, a, b, c, p
      <4> QED
        BY <1>3, <2>4, <3>2, <4>3
    <3> QED
      BY <2>3, <3>3, <3>4
  <2> QED
    BY <2>5, <2>6
<1>6. CASE Pos(10, k) /\ moved = <<b>> /\ WaitInv("store", b, c)
  <2> HIDE DEF a, b, c
  <2>1. Current = WaitAck /\ (todo' = todo => Pos(10, k)') /\ (todo' = Tail(todo) => Pos(11, k)')
    BY <1>2, <1>6 DEF Goes
  <2> DEFINE q == "store"
  <2>2. WaitInv(q, b, c) /\ q \in {"high", "low", "store", "fetch"} /\ q # "fetch"
    BY <1>6
  <2> HIDE DEF q
  <2>3. /\ byte' = byte /\ data' = data /\ call' = call
        /\ IF step = 6 /\ q = "fetch" /\ ~deaf THEN Fetches(c) ELSE Frozen
        /\ \/ todo' = todo /\ WaitInv(q, b, c)'
           \/ /\ todo' = Tail(todo) /\ step' = 1 /\ scl' = 0 /\ sdaM' = 1
              /\ nack' = deaf' /\ Waited(q, c)' /\ sdaC' = chip'.want
    BY <2>1, <2>2, WaitStep
  <2>4. Frozen
    BY <2>2, <2>3
  <2>5. Effect(k) /\ ~deaf' /\ moved' = <<b>> /\ data' = <<>> /\ byte' = 0
    BY <1>1, <1>6, <2>3, <2>4, NothingMoved
  <2>6. CASE todo' = todo /\ WaitInv(q, b, c)'
    <3>1. WriteInv(k)'
      BY <1>1, <2>1, <2>5, <2>6 DEF WriteInv, b, c, q
    <3> QED
      BY <1>3, <2>3, <2>5, <3>1
  <2>7. CASE /\ todo' = Tail(todo) /\ step' = 1 /\ scl' = 0 /\ Waited(q, c)' /\ sdaC' = chip'.want
    <3>1. chip'.phase = q /\ chip'.n = 0 /\ chip'.ptr = c /\ chip'.want = 1 /\ sdaC' = 1
      BY <2>2, <2>5, <2>7 DEF Waited
    <3>2. StopInv(c)'
      BY <2>7, <3>1, StopEntered DEF q
    <3>3. AllMoved(k)'
      BY <1>1, <2>5 DEF AllMoved
    <3>4. Pos(Len(Fns(k)), k)'
      BY <1>2, <2>1, <2>7
    <3>5. LastInv(k, c)'
      BY <2>5, <3>2, <3>3, <3>4 DEF LastInv
    <3> QED
      BY <1>1, <2>3, <2>5, <3>5 DEF CallInv
  <2> QED
    BY <2>3, <2>6, <2>7
<1> QED
  BY <1>5, <1>6 DEF WriteInv

(* The last STOP. *)
LEMMA LastStep ==
  ASSUME InCall, Acts, NEW k, IsCall(k), call = k, NEW a \in Address, LastInv(k, a)
  PROVE  CallInv(k)' /\ call' = call /\ Effect(k)
<1>1. /\ byte = 0 /\ AllMoved(k) /\ Pos(Len(Fns(k)), k) /\ StopInv(a)
  BY DEF LastInv, InCall
<1>2. /\ Current = Stop /\ (todo' = todo => Pos(Len(Fns(k)), k)')
      /\ (todo' = Tail(todo) => Pos(Len(Fns(k)) + 1, k)')
  BY <1>1, Walks DEF LastWalk, Goes
<1>3. /\ Frozen /\ Kept
      /\ \/ todo' = todo /\ StopInv(a)'
         \/ todo' = Tail(todo) /\ step' = 1 /\ Free'
  BY <1>1, <1>2, StopStep
<1>4. Effect(k) /\ AllMoved(k)' /\ byte' = 0 /\ call' = call
  BY <1>1, <1>3, NothingMoved DEF Kept
<1>5. LastInv(k, a)'
  <2>1. CASE todo' = todo /\ StopInv(a)'
    BY <1>2, <1>4, <2>1 DEF LastInv
  <2>2. CASE todo' = Tail(todo) /\ step' = 1 /\ Free'
    <3>1. todo' = <<>>
      BY <1>2, <2>2, AfterLast
    <3> QED
      BY <1>4, <2>2, <3>1 DEF LastInv
  <2> QED
    BY <1>3, <2>1, <2>2
<1> QED
  BY <1>4, <1>5 DEF CallInv

(* A receive stops, starts again and names the chip once more. *)
LEMMA RestartStep ==
  ASSUME InCall, Acts, NEW k, IsCall(k), call = k, k.op = "receive",
         \/ Pos(9, k) /\ NoneYet /\ byte = 0 /\ ~deaf /\ StopInv(k.reg)
         \/ Pos(10, k) /\ NoneYet /\ byte = 0 /\ StartInv(k.reg)
         \/ /\ Pos(11, k) /\ NoneYet /\ byte = 0
            /\ SendInv(DevAddr + 1, "address", k.reg, "fetch", k.reg)
  PROVE  CallInv(k)' /\ call' = call /\ Effect(k)
<1> DEFINE a == k.reg
           b == DevAddr + 1
           p == "address"
           q == "fetch"
<1>1. a \in Address /\ b \in Byte /\ NoneYet /\ byte = 0
  BY Bytes DEF IsCall
<1>2. Goes(9, 10, Stop, k) /\ Goes(10, 11, Start, k) /\ Goes(11, 12, Send(b), k)
  BY Walks DEF ReceiveWalk
<1>3. ASSUME ReadInv(k)' PROVE CallInv(k)'
  BY <1>3 DEF CallInv
<1>4. ASSUME Frozen, Kept
      PROVE  NoneYet' /\ byte' = 0 /\ deaf' = deaf /\ call' = call /\ Effect(k)
  BY <1>1, <1>4, NothingMoved DEF Kept
<1> HIDE DEF a, b, p, q
<1>5. CASE Pos(9, k) /\ ~deaf /\ StopInv(k.reg)
  <2>1. Current = Stop /\ (todo' = todo => Pos(9, k)') /\ (todo' = Tail(todo) => Pos(10, k)')
    BY <1>2, <1>5 DEF Goes
  <2>2. StopInv(a)
    BY <1>5 DEF a
  <2>3. /\ Frozen /\ Kept
        /\ \/ todo' = todo /\ StopInv(a)'
           \/ todo' = Tail(todo) /\ step' = 1 /\ Free' /\ chip'.ptr = a
    BY <2>1, <2>2, StopStep
  <2>4. NoneYet' /\ byte' = 0 /\ deaf' = deaf /\ call' = call /\ Effect(k)
    BY <1>4, <2>3
  <2>5. CASE todo' = todo /\ StopInv(a)'
    <3>1. ReadInv(k)'
      BY <1>5, <2>1, <2>4, <2>5 DEF ReadInv, a
    <3> QED
      BY <1>3, <2>4, <3>1
  <2>6. CASE todo' = Tail(todo) /\ step' = 1 /\ Free' /\ chip'.ptr = a
    <3>1. StartInv(a)'
      BY <1>5, <2>4, <2>6 DEF StartInv, Free
    <3>2. ReadInv(k)'
      BY <2>1, <2>4, <2>6, <3>1 DEF ReadInv, a
    <3> QED
      BY <1>3, <2>4, <3>2
  <2> QED
    BY <2>3, <2>5, <2>6
<1>6. CASE Pos(10, k) /\ StartInv(k.reg)
  <2>1. Current = Start /\ (todo' = todo => Pos(10, k)') /\ (todo' = Tail(todo) => Pos(11, k)')
    BY <1>2, <1>6 DEF Goes
  <2>2. StartInv(a)
    BY <1>6 DEF a
  <2>3. /\ Frozen /\ Kept
        /\ \/ todo' = todo /\ StartInv(a)'
           \/ todo' = Tail(todo) /\ step' = 1 /\ scl' = 0 /\ Hears("address", 0, 0, a)'
    BY <2>1, <2>2, StartStep
  <2>4. NoneYet' /\ byte' = 0 /\ deaf' = deaf /\ call' = call /\ Effect(k)
    BY <1>4, <2>3
  <2>5. CASE todo' = todo /\ StartInv(a)'
    <3>1. ReadInv(k)'
      BY <2>1, <2>4, <2>5 DEF ReadInv, a
    <3> QED
      BY <1>3, <2>4, <3>1
  <2>6. CASE todo' = Tail(todo) /\ step' = 1 /\ scl' = 0 /\ Hears("address", 0, 0, a)'
    <3>1. Hears(p, 0, 0, a)'
      BY <2>6 DEF p
    <3>2. SendInv(b, p, a, q, a)'
      BY <1>1, <2>6, <3>1, SendEntered
    <3>3. SendInv(DevAddr + 1, "address", k.reg, "fetch", k.reg)'
      BY <3>2 DEF a, b, p, q
    <3>4. ReadInv(k)'
      BY <2>1, <2>4, <2>6, <3>3 DEF ReadInv
    <3> QED
      BY <1>3, <2>4, <3>4
  <2> QED
    BY <2>3, <2>5, <2>6
<1>7. CASE Pos(11, k) /\ SendInv(DevAddr + 1, "address", k.reg, "fetch", k.reg)
  <2>1. Current = Send(b) /\ (todo' = todo => Pos(11, k)') /\ (todo' = Tail(todo) => Pos(12, k)')
    BY <1>2, <1>7 DEF Goes
  <2>2. p \in Taking /\ Leads(b, p, a, q, a) /\ SendInv(b, p, a, q, a)
    BY <1>7 DEF Taking, Leads, a, b, p, q
  <2>3. /\ Kept
        /\ IF step = 6 * Bits - 1 THEN Arrives(b, p, a) ELSE Frozen
        /\ \/ todo' = todo /\ step' = step + 1 /\ SendInv(b, p, a, q, a)'
           \/ /\ todo' = Tail(todo) /\ step = 6 * Bits + 1 /\ step' = 1 /\ scl' = 0 /\ sdaM' = 1
              /\ Answers(q, Bits, b, a)' /\ sdaC' = chip'.want
    BY <1>1, <2>1, <2>2, SendStep
  <2>4. Effect(k) /\ NoneYet' /\ byte' = 0 /\ call' = call
    <3>1. CASE Frozen
      BY <1>4, <2>3, <3>1
    <3>2. CASE deaf' /\ regs' = regs /\ moved' = moved
      BY <1>1, <2>3, <3>2 DEF Effect, TurnsAway, Kept, NoneYet
    <3> QED
      BY <2>3, <3>1, <3>2 DEF Arrives, p
  <2>5. CASE todo' = todo /\ SendInv(b, p, a, q, a)'
    <3>1. SendInv(DevAddr + 1, "address", k.reg, "fetch", k.reg)'
      BY <2>5 DEF a, b, p, q
    <3>2. ReadInv(k)'
      BY <2>1, <2>4, <2>5, <3>1 DEF ReadInv
    <3> QED
      BY <1>3, <2>4, <3>2
  <2>6. CASE /\ todo' = Tail(todo) /\ step' = 1 /\ scl' = 0
             /\ Answers(q, Bits, b, a)' /\ sdaC' = chip'.want
    <3>1. WaitInv(q, b, a)'
      BY <2>6, WaitEntered
    <3>2. WaitInv("fetch", DevAddr + 1, k.reg)'
      BY <3>1 DEF a, b, q
    <3>3. IF step' < 7 \/ deaf' THEN moved' = <<>> ELSE Len(moved') = 1
      BY <2>4, <2>6 DEF NoneYet
    <3>4. ReadInv(k)'
      BY <2>1, <2>4, <2>6, <3>2, <3>3 DEF ReadInv, NoneYet
    <3> QED
      BY <1>3, <2>4, <3>4
  <2> QED
    BY <2>3, <2>4, <2>5, <2>6
<1> QED
  BY <1>5, <1>6, <1>7

(* The chip acknowledges that it is to be read, and fetches the first byte. *)
LEMMA FirstFetchStep ==
  ASSUME InCall, Acts, ChipInv', deaf' \in BOOLEAN, moved' \in Seq(Byte),
         NEW k, IsCall(k), call = k, k.op = "receive",
         Pos(12, k), data = <<>>, byte = 0, WaitInv("fetch", DevAddr + 1, k.reg),
         IF step < 7 \/ deaf THEN moved = <<>> ELSE Len(moved) = 1
  PROVE  CallInv(k)' /\ call' = call /\ Effect(k)
<1> DEFINE a == k.reg
           b == DevAddr + 1
           q == "fetch"
<1>1. /\ a \in Address /\ k.size \in Nat \ {0} /\ Following(a) = a + 1 /\ Ones \in Byte
      /\ a + 0 = a /\ a \in Nat
  <2>1. k.size \in Nat \ {0} /\ a \in Address
    BY DEF IsCall
  <2>2. a \in Nat
    BY <2>1, SquareOfBytes DEF Address
  <2>3. 0 \in 0..(k.size - 1)
    BY <2>1
  <2> DEFINE z == 0
  <2> HIDE DEF z
  <2>4. z \in 0..(k.size - 1)
    BY <2>3 DEF z
  <2>5. Following(k.reg + z) = k.reg + (z + 1)
    BY <2>4, BytesOfCall
  <2> QED
    BY <2>1, <2>2, <2>5, Bytes DEF z
<1>2. Current = WaitAck /\ (todo' = todo => Pos(12, k)') /\ (todo' = Tail(todo) => Pos(13, k)')
  BY Walks DEF ReceiveWalk, Goes
<1>3. ASSUME ReadInv(k)' PROVE CallInv(k)'
  BY <1>3 DEF CallInv
<1>4. WaitInv(q, b, a) /\ q \in {"high", "low", "store", "fetch"} /\ step \in 1..7 /\ deaf \in BOOLEAN
  BY DEF WaitInv, InCall, BusTypes
<1> HIDE DEF a, b, q
<1>5. /\ byte' = byte /\ data' = data /\ call' = call
      /\ IF step = 6 /\ q = "fetch" /\ ~deaf THEN Fetches(a) ELSE Frozen
      /\ \/ todo' = todo /\ step' \in {step, step + 1} /\ WaitInv(q, b, a)'
         \/ /\ todo' = Tail(todo) /\ step = 7 /\ step' = 1 /\ scl' = 0 /\ sdaM' = 1
            /\ nack' = deaf' /\ Waited(q, a)' /\ sdaC' = chip'.want
  BY <1>2, <1>4, WaitStep
<1>6. ASSUME step = 6 PROVE step' = 7 /\ todo' = todo
  <2>1. Ops(Current) = WaitAckOps /\ Op = WaitAckOps[step]
    BY <1>2, OpsAre DEF Op
  <2>2. Op[1] = "clk" /\ Len(WaitAckOps) = 7
    BY <1>6, <2>1 DEF WaitAckOps, Clk
  <2>3. Advance
    BY <2>2, StepClk
  <2> QED
    BY <1>6, <2>1, <2>2, <2>3 DEF Advance
<1>7. CASE step = 6 /\ ~deaf
  <2>1. Fetches(a) /\ moved = <<>> /\ step' = 7 /\ todo' = todo
    BY <1>5, <1>6, <1>7 DEF q
  <2>2. Len(moved) = 0 /\ moved' = Append(moved, regs[a]) /\ Len(moved') = 1 /\ deaf' = deaf
    <3>1. moved' = Append(moved, regs[a]) /\ deaf' = deaf
      BY <2>1 DEF Fetches
    <3>2. moved' = <<regs[a]>>
      BY <2>1, <3>1
    <3> QED
      BY <2>1, <3>1, <3>2
  <2>3. FetchesNext(k)
    <3>1. k.reg + Len(moved) = a
      BY <1>1, <2>2 DEF a
    <3>2. Len(moved) < k.size
      BY <1>1, <2>2
    <3> QED
      BY <1>5, <1>7, <2>1, <3>1, <3>2 DEF FetchesNext
  <2>4. WaitInv("fetch", DevAddr + 1, k.reg)'
    BY <1>4, <1>5, <2>1 DEF a, b, q
  <2>5. ReadInv(k)'
    BY <1>2, <1>5, <1>7, <2>1, <2>2, <2>4 DEF ReadInv
  <2> QED
    BY <1>3, <1>5, <2>3, <2>5 DEF Effect
<1>8. CASE ~(step = 6 /\ ~deaf)
  <2>1. Frozen
    BY <1>5, <1>8
  <2>2. Effect(k) /\ deaf' = deaf /\ moved' = moved
    BY <1>5, <2>1, NothingMoved
  <2>3. CASE todo' = todo /\ step' \in {step, step + 1} /\ WaitInv(q, b, a)'
    <3>1. IF step' < 7 \/ deaf' THEN moved' = <<>> ELSE Len(moved') = 1
      BY <1>4, <1>8, <2>2, <2>3 DEF WaitInv
    <3>2. WaitInv("fetch", DevAddr + 1, k.reg)'
      BY <2>3 DEF a, b, q
    <3>3. ReadInv(k)'
      BY <1>2, <1>5, <2>3, <3>1, <3>2 DEF ReadInv
    <3> QED
      BY <1>3, <1>5, <2>2, <3>3
  <2>4. CASE /\ todo' = Tail(todo) /\ step = 7 /\ step' = 1 /\ scl' = 0 /\ sdaM' = 1
             /\ Waited(q, a)' /\ sdaC' = chip'.want
    <3>1. PICK v \in Byte : IF deaf' THEN v = Ones /\ moved' = <<>>
                            ELSE Len(moved') = 1 /\ moved'[1] = v
      <4>1. CASE deaf'
        BY <1>1, <2>2, <4>1
      <4>2. CASE ~deaf'
        <5>1. Len(moved') = 1 /\ moved' \in Seq(Byte)
          BY <2>2, <2>4, <4>2
        <5>2. moved'[1] \in Byte
          BY <5>1
        <5> QED
          BY <4>2, <5>1, <5>2
      <4> QED
        BY <4>1, <4>2
    <3> DEFINE m == 1
               e == a + 1
               ack == IF m < k.size THEN 1 ELSE 0
    <3>2. m \in 1..k.size /\ m - 1 = 0 /\ 12 + m = 13 /\ ~(step' > 5 * Bits + 5)
      BY <1>1, <2>4, BitsAre
    <3>3. IF deaf' THEN Ignores' ELSE Gives(0, v, e, Bit(v, 1))'
      <4>1. CASE deaf'
        BY <2>4, <4>1 DEF Waited
      <4>2. CASE ~deaf'
        <5>1. Given(a)'
          BY <2>4, <4>2 DEF Waited, q
        <5>2. chip'.shift = v
          BY <3>1, <4>2, <5>1 DEF Given
        <5> QED
          BY <1>1, <4>2, <5>1, <5>2 DEF Given, Gives
      <4> QED
        BY <4>1, <4>2
    <3> HIDE DEF e, ack
    <3>4. ReceiveInv(ack, v, e)'
      BY <1>5, <2>4, <3>3, ReceiveEntered
    <3>5. Pos(12 + m, k)' /\ Len(data') = m - 1
      BY <1>2, <1>5, <2>4, <3>2
    <3>6. IF deaf' THEN v = Ones /\ moved' = <<>>
          ELSE /\ Len(moved') = IF m < k.size /\ step' > 5 * Bits + 5 THEN m + 1 ELSE m
               /\ moved'[m] = v
      BY <3>1, <3>2
    <3>7. ReceiveInv(IF m < k.size THEN 1 ELSE 0, v, k.reg + m)'
      BY <3>4 DEF a, e, ack
    <3> HIDE DEF m
    <3>8. Receiving(k, m, v)'
      BY <3>5, <3>6, <3>7 DEF Receiving
    <3>9. ReadInv(k)'
      BY <3>2, <3>8 DEF ReadInv
    <3> QED
      BY <1>3, <1>5, <2>2, <3>9
  <2> QED
    BY <1>5, <2>3, <2>4
<1> QED
  BY <1>7, <1>8

(* The bytes of a receive reach the caller in order. *)
LEMMA ReceivingStep ==
  ASSUME InCall, Acts, ChipInv', deaf' \in BOOLEAN, moved' \in Seq(Byte),
         NEW k, IsCall(k), call = k, k.op = "receive",
         NEW m \in 1..k.size, NEW v \in Byte, Receiving(k, m, v)
  PROVE  CallInv(k)' /\ call' = call /\ Effect(k)
<1> DEFINE ack == IF m < k.size THEN 1 ELSE 0
           a == k.reg + m
           N == 5 * Bits + 5
<1>1. /\ k.size \in Nat \ {0} /\ m \in Nat /\ ack \in {0, 1} /\ N \in Nat /\ step \in Nat
      /\ Ones \in Byte /\ deaf \in BOOLEAN /\ Len(Fns(k)) = 13 + k.size
  BY BitsAre, Bytes, Walks DEF IsCall, InCall, BusTypes
<1>2. /\ Current = Receive(ack) /\ (todo' = todo => Pos(12 + m, k)')
      /\ (todo' = Tail(todo) => Pos(13 + m, k)')
  BY Walks DEF ReceiveWalk, Goes, Receiving
<1>3. ASSUME ReadInv(k)' PROVE CallInv(k)'
  BY <1>3 DEF CallInv
<1>4. /\ Len(data) = m - 1 /\ ReceiveInv(ack, v, a) /\ (deaf => v = Ones)
      /\ IF deaf THEN v = Ones /\ moved = <<>>
         ELSE /\ Len(moved) = IF m < k.size /\ step > N THEN m + 1 ELSE m
              /\ moved[m] = v
      /\ data \in Seq(Byte) /\ moved \in Seq(Byte)
  BY DEF Receiving, InCall, BusTypes
<1>5. ack = 1 <=> m < k.size
  OBVIOUS
<1> HIDE DEF a
<1>6. /\ call' = call
      /\ IF step = N /\ ack = 1 /\ ~deaf THEN Fetches(a) ELSE Frozen
      /\ \/ todo' = todo /\ step' = step + 1 /\ data' = data /\ ReceiveInv(ack, v, a)'
         \/ /\ todo' = Tail(todo) /\ step = 5 * Bits + 7 + ack /\ step' = 1
            /\ scl' = 0 /\ sdaM' = 1
            /\ data' = Append(data, v) /\ byte' = 0 /\ sdaC' = chip'.want
            /\ Received(ack, a)'
  <2> HIDE DEF ack
  <2> QED
    BY <1>1, <1>2, <1>4, ReceiveStep
<1>7. CASE step = N /\ ack = 1 /\ ~deaf
  <2>1. /\ Fetches(a) /\ todo' = todo /\ step' = step + 1 /\ data' = data /\ ReceiveInv(ack, v, a)'
    BY <1>1, <1>6, <1>7, BitsAre
  <2>2. Len(moved) = m /\ moved[m] = v /\ m < k.size
    BY <1>1, <1>4, <1>5, <1>7
  <2>3. deaf' = deaf /\ moved' = Append(moved, regs[a])
    BY <2>1 DEF Fetches
  <2>4. Len(moved') = m + 1 /\ moved'[m] = v
    BY <1>1, <1>4, <2>2, <2>3
  <2>5. FetchesNext(k)
    BY <1>7, <2>1, <2>2 DEF FetchesNext, a
  <2>6. step' > N
    BY <1>1, <1>7, <2>1
  <2>7. Receiving(k, m, v)'
    BY <1>2, <1>4, <1>7, <2>1, <2>2, <2>3, <2>4, <2>6 DEF Receiving, a
  <2>8. ReadInv(k)'
    BY <2>7 DEF ReadInv
  <2> QED
    BY <1>3, <1>6, <2>5, <2>8 DEF Effect
<1>8. CASE ~(step = N /\ ack = 1 /\ ~deaf)
  <2>1. Frozen /\ deaf' = deaf /\ moved' = moved
    BY <1>6, <1>8 DEF Frozen
  <2>2. CASE todo' = todo /\ step' = step + 1 /\ data' = data /\ ReceiveInv(ack, v, a)'
    <3>1. Effect(k)
      BY <2>1, <2>2, NothingMoved
    <3>2. deaf \/ ~(m < k.size) \/ ((step' > N) = (step > N))
      BY <1>1, <1>5, <1>8, <2>2
    <3>3. IF deaf' THEN v = Ones /\ moved' = <<>>
          ELSE /\ Len(moved') = IF m < k.size /\ step' > N THEN m + 1 ELSE m
               /\ moved'[m] = v
      BY <1>4, <2>1, <3>2
    <3>4. Receiving(k, m, v)'
      BY <1>2, <1>4, <2>2, <3>3 DEF Receiving, a
    <3>5. ReadInv(k)'
      BY <3>4 DEF ReadInv
    <3> QED
      BY <1>3, <1>6, <3>1, <3>5
  <2>3. CASE /\ todo' = Tail(todo) /\ step = 5 * Bits + 7 + ack /\ step' = 1
             /\ scl' = 0 /\ sdaM' = 1
             /\ data' = Append(data, v) /\ byte' = 0 /\ sdaC' = chip'.want
             /\ Received(ack, a)'
    <3>1. step > N
      BY <1>1, <2>3, BitsAre
    <3>2. Len(data') = m /\ Len(data) < k.size /\ Len(data) + 1 = m
      BY <1>1, <1>4, <2>3
    <3>3. Delivers(k)
      <4>1. CASE deaf
        BY <1>4, <2>1, <2>3, <3>2, <4>1 DEF Delivers
      <4>2. CASE ~deaf
        <5>1. Len(moved) \in {m, m + 1} /\ moved[Len(data) + 1] = v
          BY <1>4, <3>2, <4>2
        <5>2. Len(data) < Len(moved)
          BY <1>1, <3>2, <5>1
        <5> QED
          BY <2>1, <2>3, <3>2, <4>2, <5>1, <5>2 DEF Delivers
      <4> QED
        BY <4>1, <4>2
    <3>4. CASE m < k.size
      <4> DEFINE j == m + 1
                 e == k.reg + j
                 ack2 == IF j < k.size THEN 1 ELSE 0
      <4>1. j \in 1..k.size /\ j - 1 = m /\ 12 + j = 13 + m /\ ~(step' > 5 * Bits + 5)
        BY <1>1, <2>3, <3>4, BitsAre
      <4>2. Following(a) = e
        <5>1. m \in 0..(k.size - 1)
          BY <1>1, <3>4
        <5> QED
          BY <5>1, BytesOfCall DEF a
      <4>3. PICK w \in Byte : IF deaf' THEN w = Ones /\ moved' = <<>>
                              ELSE Len(moved') = j /\ moved'[j] = w
        <5>1. CASE deaf'
          BY <1>1, <1>4, <2>1, <5>1
        <5>2. CASE ~deaf'
          <6>1. Len(moved') = j
            BY <1>4, <2>1, <3>1, <3>4, <5>2
          <6>2. moved'[j] \in Byte
            BY <1>1, <6>1
          <6> QED
            BY <5>2, <6>1, <6>2
        <5> QED
          BY <5>1, <5>2
      <4>4. IF deaf' THEN Ignores' ELSE Gives(0, w, e, Bit(w, 1))'
        <5>1. CASE deaf'
          BY <2>3, <5>1 DEF Received
        <5>2. CASE ~deaf'
          <6>1. Given(a)'
            BY <1>1, <1>5, <2>3, <3>4, <5>2 DEF Received
          <6>2. chip'.shift = w
            BY <4>3, <5>2, <6>1 DEF Given
          <6> QED
            BY <4>2, <5>2, <6>1, <6>2 DEF Given, Gives
        <5> QED
          BY <5>1, <5>2
      <4> HIDE DEF e, ack2
      <4>5. ReceiveInv(ack2, w, e)'
        BY <2>3, <4>4, ReceiveEntered
      <4>6. Pos(12 + j, k)' /\ Len(data') = j - 1
        BY <1>2, <2>3, <3>2, <4>1
      <4>7. IF deaf' THEN w = Ones /\ moved' = <<>>
            ELSE /\ Len(moved') = IF j < k.size /\ step' > 5 * Bits + 5 THEN j + 1 ELSE j
                 /\ moved'[j] = w
        BY <4>1, <4>3
      <4>8. ReceiveInv(IF j < k.size THEN 1 ELSE 0, w, k.reg + j)'
        BY <4>5 DEF e, ack2
      <4> HIDE DEF j
      <4>9. Receiving(k, j, w)'
        BY <4>6, <4>7, <4>8 DEF Receiving
      <4>10. ReadInv(k)'
        BY <4>1, <4>9 DEF ReadInv
      <4> QED
        BY <1>3, <1>6, <3>3, <4>10 DEF Effect
    <3>5. CASE ~(m < k.size)
      <4>1. m = k.size /\ ack = 0
        BY <1>1, <3>5
      <4>2. Ignores'
        BY <2>3, <4>1 DEF Received
      <4>3. chip'.ptr \in Address
        BY DEF ChipInv, ChipType
      <4>4. PICK x \in Address : x = chip'.ptr
        BY <4>3
      <4>5. StopInv(x)'
        BY <2>3, <4>2, <4>4, StopEntered DEF Ignores, Still
      <4>6. Len(moved') <= k.size
        BY <1>1, <1>4, <2>1, <4>1
      <4>7. AllMoved(k)'
        BY <1>1, <3>2, <4>1, <4>6 DEF AllMoved
      <4>8. Pos(Len(Fns(k)), k)'
        BY <1>1, <1>2, <2>3, <4>1
      <4>9. LastInv(k, x)'
        BY <2>3, <4>5, <4>7, <4>8 DEF LastInv
      <4> QED
        BY <1>6, <3>3, <4>9 DEF CallInv, Effect
    <3> QED
      BY <3>4, <3>5
  <2> QED
    BY <1>6, <2>2, <2>3
<1> QED
  BY <1>7, <1>8

(* A step of the master in a bus call. *)
LEMMA CallStep ==
  ASSUME InCall, Acts, ChipInv', deaf' \in BOOLEAN, moved' \in Seq(Byte),
         NEW k, IsCall(k), call = k, CallInv(k)
  PROVE  CallInv(k)' /\ call' = call /\ Effect(k)
<1>1. CASE \E a \in Address : SelectInv(k, a)
  BY <1>1, SelectStep
<1>2. CASE WriteInv(k)
  BY <1>2, WriteStep
<1>3. CASE ReadInv(k)
  <2>1. k.op = "receive"
    BY <1>3 DEF ReadInv
  <2>2. CASE \/ Pos(9, k) /\ NoneYet /\ byte = 0 /\ ~deaf /\ StopInv(k.reg)
             \/ Pos(10, k) /\ NoneYet /\ byte = 0 /\ StartInv(k.reg)
             \/ /\ Pos(11, k) /\ NoneYet /\ byte = 0
                /\ SendInv(DevAddr + 1, "address", k.reg, "fetch", k.reg)
    BY <2>1, <2>2, RestartStep
  <2>3. CASE /\ Pos(12, k) /\ data = <<>> /\ byte = 0 /\ WaitInv("fetch", DevAddr + 1, k.reg)
             /\ IF step < 7 \/ deaf THEN moved = <<>> ELSE Len(moved) = 1
    BY <2>1, <2>3, FirstFetchStep
  <2>4. CASE \E m \in 1..k.size, v \in Byte : Receiving(k, m, v)
    BY <2>1, <2>4, ReceivingStep
  <2> QED
    BY <1>3, <2>2, <2>3, <2>4 DEF ReadInv
<1>4. CASE \E a \in Address : LastInv(k, a)
  BY <1>4, LastStep
<1> QED
  BY <1>1, <1>2, <1>3, <1>4 DEF CallInv

-----------------------------------------------------------------------------
(***************************************************************************)
(* Who moves the data line, and when.  While the clock is high the chip    *)
(* has done what it is about to do, and only START and STOP have an        *)
(* operation on the data line then.                                        *)
(***************************************************************************)
Settled == scl = 1 => sdaC = chip.want

Framed == Op[1] = "sda" => scl = 0

LEMMA SendSettled ==
  ASSUME InCall, NEW b \in Byte, NEW p, NEW a, NEW q, NEW c, SendInv(b, p, a, q, c),
         Current = Send(b)
  PROVE  Settled /\ Framed
<1>1. b \in Nat /\ Bits \in Nat /\ Op = SendOps(b)[step] /\ step \in Nat
  BY Bytes, BitsAre, OpsAre DEF Op, InCall, BusTypes
<1>2. ASSUME NEW i \in 1..Bits, NEW o \in 1..6, SendBit(b, p, a, q, c, i, o)
      PROVE  Settled /\ Framed
  <2>1. step = 6 * (i - 1) + o /\ scl = Level(o \in 4..5)
    BY <1>2 DEF SendBit
  <2>2. Settled
    BY <1>2, <2>1 DEF Settled, SendBit, Hears, Level
  <2>3. /\ SendOps(b)[6 * (i - 1) + 4] = Delay
        /\ SendOps(b)[6 * (i - 1) + 5] = Clk(0)
    BY <1>1, SendOpsAre
  <2>4. Framed
    <3>1. CASE o = 4
      BY <1>1, <2>1, <2>3, <3>1, Operations DEF Framed
    <3>2. CASE o = 5
      BY <1>1, <2>1, <2>3, <3>2, Operations DEF Framed
    <3>3. CASE o \notin 4..5
      BY <2>1, <3>3 DEF Framed, Level
    <3> QED
      BY <3>1, <3>2, <3>3
  <2> QED
    BY <2>2, <2>4
<1>3. CASE step = 6 * Bits + 1 /\ scl = 0
  BY <1>3 DEF Settled, Framed
<1> QED
  BY <1>2, <1>3 DEF SendInv

LEMMA WaitSettled ==
  ASSUME InCall, NEW q, NEW b, NEW c, WaitInv(q, b, c), Current = WaitAck
  PROVE  Settled /\ Framed
<1>1. step \in 1..7 /\ scl = Level(step \in 4..6) /\ (step \in 4..6 => sdaC = chip.want)
  BY DEF WaitInv
<1>2. Settled
  BY <1>1 DEF Settled, Level
<1>3. Op = WaitAckOps[step]
  BY OpsAre DEF Op
<1>4. step \in 4..6 => Op[1] # "sda"
  <2>1. WaitAckOps[4] = Delay /\ WaitAckOps[5] = Look /\ WaitAckOps[6] = Clk(0)
    BY DEF WaitAckOps
  <2>2. CASE step = 4
    BY <1>3, <2>1, <2>2, Operations
  <2>3. CASE step = 5
    BY <1>3, <2>1, <2>3, Operations
  <2>4. CASE step = 6
    BY <1>3, <2>1, <2>4, Operations
  <2> QED
    BY <2>2, <2>3, <2>4
<1>5. Framed
  BY <1>1, <1>4 DEF Framed, Level
<1> QED
  BY <1>2, <1>5

LEMMA ReceiveSettled ==
  ASSUME InCall, NEW ack \in {0, 1}, NEW v, NEW a, ReceiveInv(ack, v, a), Current = Receive(ack)
  PROVE  Settled /\ Framed
<1>1. Bits \in Nat /\ Op = ReceiveOps(ack)[step] /\ step \in Nat
  BY BitsAre, OpsAre DEF Op, InCall, BusTypes
<1>2. ASSUME NEW i \in 1..Bits, NEW o \in 1..5, ReceiveBit(v, a, i, o)
      PROVE  Settled /\ Framed
  <2>1. step = 5 * (i - 1) + o /\ scl = Level(o \in 2..4) /\ (o < 5 => sdaC = chip.want)
    BY <1>2 DEF ReceiveBit
  <2>2. Settled
    BY <2>1 DEF Settled, Level
  <2>3. /\ ReceiveOps(ack)[5 * (i - 1) + 2] = Delay
        /\ ReceiveOps(ack)[5 * (i - 1) + 3] = Sample
        /\ ReceiveOps(ack)[5 * (i - 1) + 4] = Clk(0)
    BY ReceiveOpsAre
  <2>4. Framed
    <3>1. CASE o = 2
      BY <1>1, <2>1, <2>3, <3>1, Operations DEF Framed
    <3>2. CASE o = 3
      BY <1>1, <2>1, <2>3, <3>2, Operations DEF Framed
    <3>3. CASE o = 4
      BY <1>1, <2>1, <2>3, <3>3, Operations DEF Framed
    <3>4. CASE o \notin 2..4
      BY <2>1, <3>4 DEF Framed, Level
    <3> QED
      BY <3>1, <3>2, <3>3, <3>4
  <2> QED
    BY <2>2, <2>4
<1>3. ASSUME NEW o \in 1..(7 + ack), ReceiveAck(ack, v, a, o)
      PROVE  Settled /\ Framed
  <2>1. step = 5 * Bits + o /\ scl = Level(o \in 4..5) /\ (o # 6 => sdaC = chip.want)
    BY <1>3 DEF ReceiveAck
  <2>2. Settled
    BY <2>1 DEF Settled, Level
  <2>3. ReceiveOps(ack)[5 * Bits + 4] = Delay /\ ReceiveOps(ack)[5 * Bits + 5] = Clk(0)
    BY ReceiveOpsAre
  <2>4. Framed
    <3>1. CASE o = 4
      BY <1>1, <2>1, <2>3, <3>1, Operations DEF Framed
    <3>2. CASE o = 5
      BY <1>1, <2>1, <2>3, <3>2, Operations DEF Framed
    <3>3. CASE o \notin 4..5
      BY <2>1, <3>3 DEF Framed, Level
    <3> QED
      BY <3>1, <3>2, <3>3
  <2> QED
    BY <2>2, <2>4
<1> QED
  BY <1>2, <1>3 DEF ReceiveInv

LEMMA CallSettled ==
  ASSUME BusTypes, ChipInv, NEW k, IsCall(k), call = k, CallInv(k)
  PROVE  Settled /\ (todo # <<>> /\ Current \notin {Start, Stop} => Framed)
<1>1. call # None
  BY DEF IsCall
<1>2. ASSUME NEW a, StartInv(a) PROVE Settled
  BY <1>2 DEF Settled, StartInv, Still
<1>3. ASSUME NEW a, StopInv(a) PROVE Settled
  BY <1>3 DEF Settled, StopInv, Still
<1>4. CASE \E a \in Address : SelectInv(k, a)
  <2>1. PICK a \in Address : SelectInv(k, a)
    BY <1>4
  <2>2. HighByte(k) \in Byte /\ LowByte(k) \in Byte /\ DevAddr \in Byte
    BY BytesOfCall, Bytes
  <2>3. /\ Goes(1, 2, Start, k) /\ Goes(2, 3, Send(DevAddr), k) /\ Goes(3, 4, WaitAck, k)
        /\ Goes(4, 5, <<"check">>, k) /\ Goes(5, 6, Send(HighByte(k)), k)
        /\ Goes(6, 7, WaitAck, k) /\ Goes(7, 8, Send(LowByte(k)), k) /\ Goes(8, 9, WaitAck, k)
    BY Walks DEF SelectWalk, HighByte, LowByte
  <2>4. CASE Pos(1, k) /\ StartInv(a)
    BY <1>2, <2>3, <2>4 DEF Goes
  <2>5. CASE Pos(2, k) /\ SendInv(DevAddr, "address", a, "high", a)
    BY <1>1, <2>2, <2>3, <2>5, SendSettled DEF Goes, InCall
  <2>6. CASE Pos(3, k) /\ WaitInv("high", DevAddr, a)
    BY <1>1, <2>3, <2>6, WaitSettled DEF Goes, InCall
  <2>7. CASE Pos(4, k) /\ scl = 0
    BY <2>7 DEF Settled, Framed
  <2>8. CASE Pos(5, k) /\ SendInv(HighByte(k), "high", a, "low", HighByte(k) * 2^Bits)
    BY <1>1, <2>2, <2>3, <2>8, SendSettled DEF Goes, InCall
  <2>9. CASE Pos(6, k) /\ WaitInv("low", HighByte(k), HighByte(k) * 2^Bits)
    BY <1>1, <2>3, <2>9, WaitSettled DEF Goes, InCall
  <2>10. CASE Pos(7, k) /\ SendInv(LowByte(k), "low", HighByte(k) * 2^Bits, "store", k.reg)
    BY <1>1, <2>2, <2>3, <2>10, SendSettled DEF Goes, InCall
  <2>11. CASE Pos(8, k) /\ WaitInv("store", LowByte(k), k.reg)
    BY <1>1, <2>3, <2>11, WaitSettled DEF Goes, InCall
  <2> QED
    BY <2>1, <2>4, <2>5, <2>6, <2>7, <2>8, <2>9, <2>10, <2>11 DEF SelectInv
<1>5. CASE WriteInv(k)
  <2>1. /\ k.bytes[1] \in Byte /\ Goes(9, 10, Send(k.bytes[1]), k) /\ Goes(10, 11, WaitAck, k)
    BY <1>5, Walks DEF WriteInv, IsCall, SendWalk
  <2>2. CASE Pos(9, k) /\ SendInv(k.bytes[1], "store", k.reg, "store", Following(k.reg))
    BY <1>1, <2>1, <2>2, SendSettled DEF Goes, InCall
  <2>3. CASE Pos(10, k) /\ WaitInv("store", k.bytes[1], Following(k.reg))
    BY <1>1, <2>1, <2>3, WaitSettled DEF Goes, InCall
  <2> QED
    BY <1>5, <2>2, <2>3 DEF WriteInv
<1>6. CASE ReadInv(k)
  <2>1. /\ Goes(9, 10, Stop, k) /\ Goes(10, 11, Start, k) /\ Goes(11, 12, Send(DevAddr + 1), k)
        /\ Goes(12, 13, WaitAck, k) /\ DevAddr + 1 \in Byte
        /\ \A m \in 1..k.size : Goes(12 + m, 13 + m, Receive(IF m < k.size THEN 1 ELSE 0), k)
    BY <1>6, Walks, Bytes DEF ReadInv, ReceiveWalk
  <2>2. CASE Pos(9, k) /\ StopInv(k.reg)
    BY <1>3, <2>1, <2>2 DEF Goes
  <2>3. CASE Pos(10, k) /\ StartInv(k.reg)
    BY <1>2, <2>1, <2>3 DEF Goes
  <2>4. CASE Pos(11, k) /\ SendInv(DevAddr + 1, "address", k.reg, "fetch", k.reg)
    BY <1>1, <2>1, <2>4, SendSettled DEF Goes, InCall
  <2>5. CASE Pos(12, k) /\ WaitInv("fetch", DevAddr + 1, k.reg)
    BY <1>1, <2>1, <2>5, WaitSettled DEF Goes, InCall
  <2>6. ASSUME NEW m \in 1..k.size, NEW v \in Byte, Receiving(k, m, v)
        PROVE  Settled /\ Framed
    <3> DEFINE ack == IF m < k.size THEN 1 ELSE 0
    <3>1. ack \in {0, 1} /\ Pos(12 + m, k) /\ ReceiveInv(ack, v, k.reg + m)
      BY <2>6 DEF Receiving
    <3>2. Goes(12 + m, 13 + m, Receive(ack), k)
      BY <2>1
    <3> HIDE DEF ack
    <3>3. InCall /\ Current = Receive(ack)
      BY <1>1, <3>1, <3>2 DEF Goes, InCall
    <3> QED
      BY <3>1, <3>3, ReceiveSettled
  <2> QED
    BY <1>6, <2>2, <2>3, <2>4, <2>5, <2>6 DEF ReadInv
<1>7. CASE \E a \in Address : LastInv(k, a)
  <2>1. PICK a \in Address : LastInv(k, a)
    BY <1>7
  <2>2. CASE Pos(Len(Fns(k)), k) /\ StopInv(a)
    BY <1>3, <2>2, Walks DEF LastWalk, Goes
  <2>3. CASE todo = <<>> /\ Free
    BY <2>3 DEF Settled, Free, Still
  <2> QED
    BY <2>1, <2>2, <2>3 DEF LastInv
<1> QED
  BY <1>4, <1>5, <1>6, <1>7 DEF CallInv

(***************************************************************************)
(* The chip moves the data line at its leisure, where the master waits for *)
(* it.                                                                     *)
(***************************************************************************)
LEMMA DriveChanges ==
  ASSUME ChipDrives
  PROVE  /\ sdaC # chip.want /\ sdaC' = chip.want /\ scl' = scl /\ sdaM' = sdaM /\ todo' = todo
         /\ step' = step /\ try' = try /\ nack' = nack /\ byte' = byte /\ data' = data
         /\ call' = call /\ chip' = chip /\ Frozen
BY DEF ChipDrives, master, history, Frozen

LEMMA SendDriven ==
  ASSUME ChipDrives, NEW b, NEW p, NEW a, NEW q, NEW c, SendInv(b, p, a, q, c)
  PROVE  SendInv(b, p, a, q, c)'
<1>1. /\ sdaC # chip.want /\ scl' = scl /\ sdaM' = sdaM /\ step' = step /\ chip' = chip
      /\ deaf' = deaf
  BY DriveChanges DEF Frozen
<1>2. ASSUME NEW i \in 1..Bits, NEW o \in 1..6, SendBit(b, p, a, q, c, i, o)
      PROVE  SendBit(b, p, a, q, c, i, o)'
  <2>1. o = 6 /\ i = Bits /\ ~(o < 4) /\ ~(o \in 4..5) /\ ~(i < Bits)
    <3>1. ~(o < 4) /\ ~(o \in 4..5 \/ (o = 6 /\ i < Bits))
      BY <1>1, <1>2 DEF SendBit, Hears
    <3> QED
      BY <3>1, BitsAre
  <2>2. Answers(q, Bits, b, c)'
    <3>1. Answers(q, Bits, b, c)
      BY <1>2, <2>1 DEF SendBit
    <3> QED
      BY <1>1, <3>1 DEF Answers, Ignores, Still
  <2> QED
    BY <1>1, <1>2, <2>1, <2>2 DEF SendBit
<1>3. CASE \E i \in 1..Bits, o \in 1..6 : SendBit(b, p, a, q, c, i, o)
  BY <1>2, <1>3 DEF SendInv
<1>4. CASE sdaC = chip.want
  BY <1>1, <1>4
<1> QED
  BY <1>3, <1>4 DEF SendInv

LEMMA WaitDriven ==
  ASSUME ChipDrives, NEW q, NEW b, NEW c, WaitInv(q, b, c)
  PROVE  WaitInv(q, b, c)'
<1>1. /\ sdaC # chip.want /\ scl' = scl /\ sdaM' = sdaM /\ step' = step /\ chip' = chip
      /\ deaf' = deaf /\ moved' = moved /\ nack' = nack
  BY DriveChanges DEF Frozen
<1>2. step = 7 /\ scl = 0 /\ sdaM = 1 /\ nack = deaf /\ Waited(q, c)
  BY <1>1 DEF WaitInv, Level
<1>3. Waited(q, c)'
  BY <1>1, <1>2 DEF Waited, Ignores, Still, Given
<1> QED
  BY <1>1, <1>2, <1>3 DEF WaitInv, Level

LEMMA ReceiveDriven ==
  ASSUME ChipDrives, NEW ack, NEW v, NEW a, ReceiveInv(ack, v, a)
  PROVE  ReceiveInv(ack, v, a)'
<1>1. /\ sdaC # chip.want /\ scl' = scl /\ sdaM' = sdaM /\ step' = step /\ chip' = chip
      /\ deaf' = deaf /\ moved' = moved /\ byte' = byte
  BY DriveChanges DEF Frozen
<1>2. ASSUME NEW i \in 1..Bits, NEW o \in 1..5, ReceiveBit(v, a, i, o)
      PROVE  ReceiveBit(v, a, i, o)'
  <2>1. o = 5
    BY <1>1, <1>2 DEF ReceiveBit
  <2>2. ~deaf
    BY <1>1, <1>2 DEF ReceiveBit, Ignores, Still
  <2>3. Gives(i, v, a, IF i = Bits THEN 1 ELSE Bit(v, i + 1))'
    BY <1>1, <1>2, <2>1, <2>2 DEF ReceiveBit, Gives
  <2> QED
    BY <1>1, <1>2, <2>1, <2>2, <2>3 DEF ReceiveBit
<1>3. ASSUME NEW o \in 1..(7 + ack), ReceiveAck(ack, v, a, o)
      PROVE  ReceiveAck(ack, v, a, o)'
  <2>1. o = 6 /\ ~deaf
    BY <1>1, <1>3 DEF ReceiveAck, Ignores, Still
  <2>2. IF ack = 1 THEN Given(a)' ELSE Ignores'
    <3>1. IF ack = 1 THEN Given(a) ELSE Ignores
      BY <1>3, <2>1 DEF ReceiveAck
    <3> QED
      BY <1>1, <3>1 DEF Given, Ignores, Still
  <2> QED
    BY <1>1, <1>3, <2>1, <2>2 DEF ReceiveAck
<1>4. CASE \E i \in 1..Bits, o \in 1..5 : ReceiveBit(v, a, i, o)
  BY <1>2, <1>4 DEF ReceiveInv
<1>5. CASE \E o \in 1..(7 + ack) : ReceiveAck(ack, v, a, o)
  BY <1>3, <1>5 DEF ReceiveInv
<1> QED
  BY <1>4, <1>5 DEF ReceiveInv

LEMMA DriveKept ==
  ASSUME ChipDrives, NEW k, CallInv(k)
  PROVE  CallInv(k)'
<1>1. /\ sdaC # chip.want /\ scl' = scl /\ sdaM' = sdaM /\ step' = step /\ chip' = chip
      /\ todo' = todo /\ byte' = byte /\ data' = data /\ deaf' = deaf /\ moved' = moved
  BY DriveChanges DEF Frozen
<1>2. \A j : Pos(j, k) => Pos(j, k)'
  BY <1>1 DEF Pos
<1>3. NoneYet => NoneYet'
  BY <1>1 DEF NoneYet
<1>4. \A a : ~StartInv(a) /\ ~StopInv(a)
  BY <1>1 DEF StartInv, StopInv, Still
<1>5. CASE \E a \in Address : SelectInv(k, a)
  <2>1. PICK a \in Address : SelectInv(k, a)
    BY <1>5
  <2>2. SelectInv(k, a)'
    <3>1. CASE Pos(2, k) /\ SendInv(DevAddr, "address", a, "high", a)
      BY <1>1, <1>2, <1>3, <2>1, <3>1, SendDriven DEF SelectInv
    <3>2. CASE Pos(3, k) /\ WaitInv("high", DevAddr, a)
      BY <1>1, <1>2, <1>3, <2>1, <3>2, WaitDriven DEF SelectInv
    <3>3. CASE Pos(5, k) /\ ~deaf /\ SendInv(HighByte(k), "high", a, "low", HighByte(k) * 2^Bits)
      BY <1>1, <1>2, <1>3, <2>1, <3>3, SendDriven DEF SelectInv
    <3>4. CASE Pos(6, k) /\ ~deaf /\ WaitInv("low", HighByte(k), HighByte(k) * 2^Bits)
      BY <1>1, <1>2, <1>3, <2>1, <3>4, WaitDriven DEF SelectInv
    <3>5. CASE Pos(7, k) /\ ~deaf /\ SendInv(LowByte(k), "low", HighByte(k) * 2^Bits, "store", k.reg)
      BY <1>1, <1>2, <1>3, <2>1, <3>5, SendDriven DEF SelectInv
    <3>6. CASE Pos(8, k) /\ ~deaf /\ WaitInv("store", LowByte(k), k.reg)
      BY <1>1, <1>2, <1>3, <2>1, <3>6, WaitDriven DEF SelectInv
    <3> QED
      BY <1>1, <1>4, <2>1, <3>1, <3>2, <3>3, <3>4, <3>5, <3>6 DEF SelectInv
  <2> QED
    BY <2>2 DEF CallInv
<1>6. CASE WriteInv(k)
  <2>1. CASE /\ Pos(9, k) /\ SendInv(k.bytes[1], "store", k.reg, "store", Following(k.reg))
             /\ moved = IF step < 6 * Bits THEN <<>> ELSE <<k.bytes[1]>>
    <3>1. SendInv(k.bytes[1], "store", k.reg, "store", Following(k.reg))'
      BY <2>1, SendDriven
    <3>2. WriteInv(k)'
      BY <1>1, <1>2, <1>6, <2>1, <3>1 DEF WriteInv
    <3> QED
      BY <3>2 DEF CallInv
  <2>2. CASE /\ Pos(10, k) /\ moved = <<k.bytes[1]>>
             /\ WaitInv("store", k.bytes[1], Following(k.reg))
    <3>1. WaitInv("store", k.bytes[1], Following(k.reg))'
      BY <2>2, WaitDriven
    <3>2. WriteInv(k)'
      BY <1>1, <1>2, <1>6, <2>2, <3>1 DEF WriteInv
    <3> QED
      BY <3>2 DEF CallInv
  <2> QED
    BY <1>6, <2>1, <2>2 DEF WriteInv
<1>7. CASE ReadInv(k)
  <2>1. CASE /\ Pos(11, k) /\ NoneYet /\ byte = 0
             /\ SendInv(DevAddr + 1, "address", k.reg, "fetch", k.reg)
    <3>1. SendInv(DevAddr + 1, "address", k.reg, "fetch", k.reg)'
      BY <2>1, SendDriven
    <3>2. ReadInv(k)'
      BY <1>1, <1>2, <1>3, <1>7, <2>1, <3>1 DEF ReadInv
    <3> QED
      BY <3>2 DEF CallInv
  <2>2. CASE /\ Pos(12, k) /\ data = <<>> /\ byte = 0 /\ WaitInv("fetch", DevAddr + 1, k.reg)
             /\ IF step < 7 \/ deaf THEN moved = <<>> ELSE Len(moved) = 1
    <3>1. WaitInv("fetch", DevAddr + 1, k.reg)'
      BY <2>2, WaitDriven
    <3>2. ReadInv(k)'
      BY <1>1, <1>2, <1>7, <2>2, <3>1 DEF ReadInv
    <3> QED
      BY <3>2 DEF CallInv
  <2>3. ASSUME NEW m \in 1..k.size, NEW v \in Byte, Receiving(k, m, v)
        PROVE  CallInv(k)'
    <3> DEFINE ack == IF m < k.size THEN 1 ELSE 0
               a == k.reg + m
    <3>1. ReceiveInv(ack, v, a)
      BY <2>3 DEF Receiving
    <3> HIDE DEF ack, a
    <3>2. ReceiveInv(ack, v, a)'
      BY <3>1, ReceiveDriven
    <3>3. Receiving(k, m, v)'
      BY <1>1, <1>2, <2>3, <3>2 DEF Receiving, ack, a
    <3>4. ReadInv(k)'
      BY <1>7, <3>3 DEF ReadInv
    <3> QED
      BY <3>4 DEF CallInv
  <2> QED
    BY <1>4, <1>7, <2>1, <2>2, <2>3 DEF ReadInv
<1>8. CASE \E a \in Address : LastInv(k, a)
  BY <1>1, <1>4, <1>8 DEF LastInv, Free, Still
<1> QED
  BY <1>5, <1>6, <1>7, <1>8 DEF CallInv

-----------------------------------------------------------------------------
(***************************************************************************)
(* Types: every function is a sequence of line operations, and every step  *)
(* of the master leaves one of them to be done next.                       *)
(***************************************************************************)
MasterOps == OpSet \cup {Look, Check}

LEMMA OpsTyped ==
  /\ \A f \in AllFns \ {<<"reset">>} : Ops(f) \in Seq(MasterOps) /\ Len(Ops(f)) >= 1
  /\ \A f \in AllFns : Len(Ops(f)) \in Nat /\ Len(Ops(f)) >= 1
<1>1. OpSet \subseteq MasterOps
  BY DEF MasterOps
<1>2. {Clk(0), Clk(1), Sda(0), Sda(1), Delay, Sample, Keep, Look, Check} \subseteq MasterOps
  BY DEF MasterOps, OpSet
<1>3. Ops(Start) \in Seq(MasterOps) /\ Len(Ops(Start)) = 7
  <2> DEFINE u == Clk(1)  v == Sda(1)  d == Delay  w == Sda(0)  x == Clk(0)
  <2>1. {u, v, d, w, x} \subseteq MasterOps
    BY <1>2
  <2>2. Ops(Start) = <<u, v, d, w, d, x, d>>
    BY OpsAre DEF StartOps
  <2> HIDE DEF u, v, d, w, x
  <2> QED
    BY <2>1, <2>2
<1>4. Ops(Stop) \in Seq(MasterOps) /\ Len(Ops(Stop)) = 6
  <2> DEFINE u == Clk(1)  v == Sda(1)  d == Delay  w == Sda(0)
  <2>1. {u, v, d, w} \subseteq MasterOps
    BY <1>2
  <2>2. Ops(Stop) = <<w, d, u, d, v, d>>
    BY OpsAre DEF StopOps
  <2> HIDE DEF u, v, d, w
  <2> QED
    BY <2>1, <2>2
<1>5. Ops(WaitAck) \in Seq(MasterOps) /\ Len(Ops(WaitAck)) = 7
  <2> DEFINE u == Clk(1)  v == Sda(1)  d == Delay  w == Look  x == Clk(0)
  <2>1. {u, v, d, w, x} \subseteq MasterOps
    BY <1>2
  <2>2. Ops(WaitAck) = <<v, d, u, d, w, x, d>>
    BY OpsAre DEF WaitAckOps
  <2> HIDE DEF u, v, d, w, x
  <2> QED
    BY <2>1, <2>2
<1>6. Ops(<<"check">>) \in Seq(MasterOps) /\ Len(Ops(<<"check">>)) = 1
  <2> DEFINE u == Check
             t == <<u>>
  <2>1. u \in MasterOps /\ Ops(<<"check">>) = t
    BY <1>2, OpsAre
  <2> HIDE DEF u
  <2>2. t \in Seq(MasterOps) /\ Len(t) = 1
    BY <2>1
  <2> HIDE DEF t
  <2> QED
    BY <2>1, <2>2, Zenon
<1>7. Ops(<<"pins">>) \in Seq(MasterOps) /\ Len(Ops(<<"pins">>)) = 2
  <2> DEFINE u == Clk(0)
             v == Sda(0)
             t == <<u, v>>
  <2>1. u \in MasterOps /\ v \in MasterOps /\ Ops(<<"pins">>) = t
    BY <1>2, OpsAre DEF PinOps
  <2> HIDE DEF u, v
  <2>2. t \in Seq(MasterOps) /\ Len(t) = 2
    BY <2>1
  <2> HIDE DEF t
  <2> QED
    BY <2>1, <2>2, Zenon
<1>8. Len(Ops(<<"reset">>)) = 1
  BY OpsAre
<1>9. ASSUME NEW b \in Byte
      PROVE  Ops(Send(b)) \in Seq(MasterOps) /\ Len(Ops(Send(b))) \in Nat /\ Len(Ops(Send(b))) >= 1
  <2>1. SendOps(b) \in Seq(OpSet) /\ Len(SendOps(b)) = 6 * Bits + 1
    BY Bytes, SendOpsAre
  <2>2. SendOps(b) \in Seq(MasterOps)
    BY <1>1, <2>1
  <2> QED
    BY <2>1, <2>2, BitsAre, OpsAre
<1>10. ASSUME NEW ack \in {0, 1}
       PROVE  /\ Ops(Receive(ack)) \in Seq(MasterOps)
              /\ Len(Ops(Receive(ack))) \in Nat /\ Len(Ops(Receive(ack))) >= 1
  <2>1. ReceiveOps(ack) \in Seq(OpSet) /\ Len(ReceiveOps(ack)) = 5 * Bits + (7 + ack)
    BY ReceiveOpsAre
  <2>2. ReceiveOps(ack) \in Seq(MasterOps)
    BY <1>1, <2>1
  <2> QED
    BY <2>1, <2>2, BitsAre, OpsAre
<1>11. ASSUME NEW f \in AllFns, f # <<"reset">>
       PROVE  Ops(f) \in Seq(MasterOps) /\ Len(Ops(f)) \in Nat /\ Len(Ops(f)) >= 1
  <2>1. \/ f = Start \/ f = Stop \/ f = WaitAck \/ f = <<"check">> \/ f = <<"pins">>
        \/ (\E ack \in {0, 1} : f = Receive(ack)) \/ (\E b \in Byte : f = Send(b))
    BY <1>11 DEF AllFns, FnSet
  <2>2. CASE f = Start
    BY <1>3, <2>2
  <2>3. CASE f = Stop
    BY <1>4, <2>3
  <2>4. CASE f = WaitAck
    BY <1>5, <2>4
  <2>5. CASE f = <<"check">>
    BY <1>6, <2>5
  <2>6. CASE f = <<"pins">>
    BY <1>7, <2>6
  <2>7. CASE \E ack \in {0, 1} : f = Receive(ack)
    BY <1>10, <2>7
  <2>8. CASE \E b \in Byte : f = Send(b)
    BY <1>9, <2>8
  <2> QED
    BY <2>1, <2>2, <2>3, <2>4, <2>5, <2>6, <2>7, <2>8
<1> QED
  BY <1>8, <1>11

LEMMA AdvanceTyped ==
  ASSUME todo \in Seq(AllFns), todo # <<>>, step \in Nat \ {0}, step <= Len(Ops(Current)), Advance
  PROVE  /\ step' \in Nat \ {0} /\ todo' \in Seq(AllFns)
         /\ todo' # <<>> => step' <= Len(Ops(Current)')
<1>1. Current \in AllFns /\ Tail(todo) \in Seq(AllFns)
  BY DEF Current
<1>2. Len(Ops(Current)) \in Nat
  BY <1>1, OpsTyped
<1>3. CASE step < Len(Ops(Current))
  <2>1. step' = step + 1 /\ todo' = todo
    BY <1>3 DEF Advance
  <2>2. Ops(Current)' = Ops(Current)
    BY <2>1 DEF Current
  <2> QED
    BY <1>2, <1>3, <2>1, <2>2
<1>4. CASE ~(step < Len(Ops(Current)))
  <2>1. step' = 1 /\ todo' = Tail(todo)
    BY <1>4 DEF Advance
  <2>2. ASSUME todo' # <<>> PROVE Len(Ops(Current)') >= 1
    <3>1. Current' \in AllFns
      BY <1>1, <2>1, <2>2 DEF Current
    <3> QED
      BY <3>1, OpsTyped
  <2>3. ASSUME todo' # <<>> PROVE step' <= Len(Ops(Current)')
    <3>1. Current' \in AllFns
      BY <1>1, <2>1, <2>3 DEF Current
    <3>2. Len(Ops(Current')) \in Nat
      BY <3>1, OpsTyped
    <3> QED
      BY <2>1, <2>2, <2>3, <3>2
  <2> QED
    BY <1>1, <2>1, <2>3
<1> QED
  BY <1>3, <1>4

(* The other operation, the chip's reset, is not one of these steps. *)
LEMMA MasterOp ==
  ASSUME BusTypes, todo \in Seq(AllFns), todo # <<>>, step <= Len(Ops(Current)),
         Current # <<"reset">>
  PROVE  Op \in MasterOps
<1>1. Current \in AllFns \ {<<"reset">>}
  BY DEF Current
<1>2. Ops(Current) \in Seq(MasterOps) /\ step \in 1..Len(Ops(Current))
  BY <1>1, OpsTyped DEF BusTypes
<1> QED
  BY <1>2 DEF Op

LEMMA ActsTyped ==
  ASSUME TypeInv, Acts, pc' = pc, pressed' = pressed
  PROVE  TypeInv'
<1>1. /\ BusTypes /\ ChipInv /\ todo \in Seq(AllFns) /\ (todo # <<>> => step <= Len(Ops(Current)))
      /\ step \in Nat \ {0}
  BY DEF TypeInv, BusTypes
<1>2. todo # <<>>
  BY DEF Acts, SetLine, Wait, LookForAck, SampleBit, KeepByte, CheckAck, At
<1> DEFINE Rest == /\ step' \in Nat \ {0} /\ todo' \in Seq(AllFns)
                   /\ todo' # <<>> => step' <= Len(Ops(Current)')
           Same == /\ scl' = scl /\ sdaM' = sdaM /\ sdaC' = sdaC /\ chip' = chip /\ Frozen
<1>3. ASSUME Advance PROVE Rest
  BY <1>1, <1>2, <1>3, AdvanceTyped
<1>4. ASSUME todo' = todo, step' = step PROVE Rest
  BY <1>1, <1>4 DEF Current
<1> HIDE DEF Rest
<1>5. SUFFICES Rest /\ BusTypes' /\ ChipInv'
  BY DEF Rest, TypeInv
<1>6. ASSUME Same PROVE ChipInv' /\ regs' \in [Address -> Byte] /\ deaf' \in BOOLEAN /\ moved' \in Seq(Byte)
                        /\ scl' \in {0, 1} /\ sdaM' \in {0, 1} /\ sdaC' \in {0, 1}
  BY <1>1, <1>6 DEF ChipInv, ChipType, Still, BusTypes, Frozen
<1>7. ASSUME Same, Rest, try' \in 0..Tries, nack' \in BOOLEAN, byte' \in Byte, data' \in Seq(Byte)
      PROVE  Rest /\ BusTypes' /\ ChipInv'
  BY <1>6, <1>7 DEF BusTypes, Rest
<1>8. CASE SetLine
  <2>1. /\ \/ At("clk") /\ scl' = Op[2] /\ sdaM' = sdaM
           \/ At("sda") /\ sdaM' = Op[2] /\ scl' = scl
        /\ Advance /\ ChipSees
        /\ sdaC' = sdaC /\ try' = try /\ nack' = nack /\ byte' = byte /\ data' = data
    BY <1>8, Zenon DEF SetLine
  <2>2. Op \in MasterOps
    <3>1. ASSUME Current = <<"reset">> PROVE FALSE
      <4>1. Ops(Current) = <<<<"reset">>>> /\ Len(<<<<"reset">>>>) = 1
        BY <3>1, OpsAre
      <4>2. step = 1
        BY <1>1, <1>2, <4>1
      <4>3. Op[1] = "reset"
        BY <4>1, <4>2 DEF Op
      <4> QED
        BY <2>1, <4>3 DEF At
    <3> QED
      BY <1>1, <1>2, <3>1, MasterOp
  <2>3. (At("clk") \/ At("sda")) => Op[2] \in {0, 1}
    <3>1. ASSUME NEW o \in MasterOps, o[1] = "clk" \/ o[1] = "sda" PROVE o[2] \in {0, 1}
      BY <3>1 DEF MasterOps, OpSet, Clk, Sda, Delay, Sample, Keep, Look, Check
    <3> QED
      BY <2>2, <3>1 DEF At
  <2>4. scl' \in {0, 1} /\ sdaM' \in {0, 1}
    BY <1>1, <2>1, <2>3 DEF BusTypes
  <2>5. ChipInv' /\ regs' \in [Address -> Byte] /\ deaf' \in BOOLEAN /\ moved' \in Seq(Byte)
    BY <1>1, <2>1, <2>4, SeesKept
  <2>6. Rest
    BY <1>3, <2>1
  <2> QED
    BY <1>1, <2>1, <2>4, <2>5, <2>6 DEF BusTypes, Rest
<1>9. CASE Wait
  <2>1. Same /\ Advance /\ try' = try /\ nack' = nack /\ byte' = byte /\ data' = data
    BY <1>9 DEF Wait, wires, history, Frozen
  <2> QED
    BY <1>1, <1>3, <1>7, <2>1 DEF BusTypes
<1>10. CASE LookForAck
  <2>1. /\ Same /\ byte' = byte /\ data' = data
        /\ \/ Advance /\ try' = 0 /\ nack' = FALSE
           \/ Advance /\ try' = 0 /\ nack' = TRUE
           \/ try' = try + 1 /\ try + 1 <= Tries /\ nack' = nack /\ todo' = todo /\ step' = step
    BY <1>10 DEF LookForAck, wires, history, Frozen
  <2>2. try' \in 0..Tries /\ nack' \in BOOLEAN
    <3>1. Tries \in Nat /\ try \in 0..Tries /\ nack \in BOOLEAN
      BY <1>1, TriesAssumption DEF BusTypes
    <3>2. \/ try' = 0 /\ nack' \in BOOLEAN
          \/ try' = try + 1 /\ try + 1 <= Tries /\ nack' = nack
      BY <2>1
    <3> QED
      BY <3>1, <3>2
  <2>3. Rest
    BY <1>3, <1>4, <2>1
  <2> QED
    BY <1>1, <1>7, <2>1, <2>2, <2>3 DEF BusTypes
<1>11. CASE SampleBit
  <2>1. Same /\ Advance /\ try' = try /\ nack' = nack /\ byte' = (2 * byte + SDA) % 2^Bits /\ data' = data
    BY <1>11 DEF SampleBit, wires, history, Frozen
  <2>2. byte' \in Byte
    <3> DEFINE M == 2^Bits
               x == 2 * byte + SDA
    <3>1. byte \in Nat /\ SDA \in {0, 1} /\ M \in Nat \ {0}
      BY <1>1, Bytes, LineLevels DEF BusTypes, SDA
    <3>2. x \in Int
      BY <3>1
    <3> HIDE DEF M, x
    <3>3. x % M \in 0..(M - 1)
      BY <3>1, <3>2
    <3> QED
      BY <2>1, <3>3 DEF M, x, Byte
  <2> QED
    BY <1>1, <1>3, <1>7, <2>1, <2>2 DEF BusTypes
<1>12. CASE KeepByte
  <2>1. Same /\ Advance /\ try' = try /\ nack' = nack /\ byte' = 0 /\ data' = Append(data, byte)
    BY <1>12 DEF KeepByte, wires, history, Frozen
  <2>2. byte' \in Byte /\ data' \in Seq(Byte)
    BY <1>1, <2>1, Bytes DEF BusTypes
  <2> QED
    BY <1>1, <1>3, <1>7, <2>1, <2>2 DEF BusTypes
<1>13. CASE CheckAck
  <2>1. /\ Same /\ try' = try /\ nack' = nack /\ byte' = byte /\ data' = data /\ step' = 1
        /\ todo' = IF nack THEN <<Stop>> ELSE Tail(todo)
    BY <1>13 DEF CheckAck, wires, history, Frozen
  <2>2. Stop \in AllFns /\ <<Stop>> \in Seq(AllFns)
    <3> DEFINE z == Stop
    <3>1. z \in AllFns
      BY DEF AllFns, FnSet
    <3> HIDE DEF z
    <3>2. <<z>> \in Seq(AllFns)
      BY <3>1
    <3> QED
      BY <3>1, <3>2 DEF z
  <2>3. todo' \in Seq(AllFns)
    BY <1>1, <1>2, <2>1, <2>2
  <2>4. ASSUME todo' # <<>> PROVE step' <= Len(Ops(Current)')
    <3>1. Current' \in AllFns
      BY <2>3, <2>4 DEF Current
    <3>2. Len(Ops(Current')) \in Nat /\ Len(Ops(Current')) >= 1
      BY <3>1, OpsTyped
    <3> QED
      BY <2>1, <3>2
  <2>5. Rest
    BY <2>1, <2>3, <2>4 DEF Rest
  <2> QED
    BY <1>1, <1>7, <2>1, <2>5 DEF BusTypes
<1> QED
  BY <1>8, <1>9, <1>10, <1>11, <1>12, <1>13 DEF Acts

-----------------------------------------------------------------------------
(***************************************************************************)
(* The driver: starting up, calling, and being reset.                      *)
(***************************************************************************)
LEMMA Pcs ==
  DOMAIN CallOf = {"command", "version", "product", "status", "clear", "point"}
BY DEF CallOf

LEMMA DefaultsTyped == Defaults \in [Address -> Byte]
<1>1. ASSUME NEW a \in Address PROVE a % 2^Bits \in Byte
  BY <1>1, TwoBytes
<1>2. 0 \in Byte
  BY Bytes
<1> QED
  BY <1>1, <1>2 DEF Defaults

LEMMA ReportTyped ==
  ASSUME regs \in [Address -> Byte], Report
  PROVE  regs' \in [Address -> Byte]
<1>1. New \in Byte
  <2>1. Bits - 1 \in Nat /\ Bits - 2 \in Nat /\ (Bits - 2) + 1 = Bits - 1 /\ (Bits - 1) + 1 = Bits
    BY BitsAre
  <2>2. 2^(Bits - 2) \in Nat \ {0} /\ 2^(Bits - 1) = 2 * 2^(Bits - 2) /\ 2^Bits = 2 * 2^(Bits - 1)
    <3>1. 2^((Bits - 2) + 1) = 2 * 2^(Bits - 2) /\ 2^((Bits - 1) + 1) = 2 * 2^(Bits - 1)
      BY <2>1, PowerStep
    <3> QED
      BY <2>1, <3>1, PowerPositive
  <2> DEFINE h == 2^(Bits - 2)
             g == 2^(Bits - 1)
             M == 2^Bits
  <2>3. h \in Nat \ {0} /\ g = 2 * h /\ M = 2 * g
    BY <2>2
  <2> HIDE DEF h, g, M
  <2>4. g + 1 \in 0..(M - 1)
    BY <2>3
  <2> QED
    BY <2>4 DEF New, Byte, g, M
<1>2. PICK r \in [Point -> Coordinate] :
        regs' = [a \in Address |-> IF a = STATUS THEN New ELSE IF a \in Point THEN r[a] ELSE regs[a]]
  BY DEF Report
<1>3. \A a \in Point : r[a] \in Byte
  BY CoordinateAssumption
<1> QED
  BY <1>1, <1>2, <1>3

(* The pins while no call is in progress. *)
LEMMA IdleLine ==
  ASSUME Acts, call = None, ~deaf, moved = <<>>, Op[1] \in {"clk", "sda", "delay"}, deaf \in BOOLEAN
  PROVE  /\ Op[1] = "clk" => scl' = Op[2] /\ sdaM' = sdaM
         /\ Op[1] = "sda" => sdaM' = Op[2] /\ scl' = scl
         /\ Op[1] = "delay" => scl' = scl /\ sdaM' = sdaM
         /\ Advance /\ byte' = byte /\ data' = data /\ call' = call
         /\ ~deaf' /\ moved' = <<>>
<1>1. SetLine \/ Wait
  BY DEF Acts, SetLine, Wait, LookForAck, SampleBit, KeepByte, CheckAck, At
<1>2. CASE SetLine
  <2>1. /\ \/ Op[1] = "clk" /\ scl' = Op[2] /\ sdaM' = sdaM
           \/ Op[1] = "sda" /\ sdaM' = Op[2] /\ scl' = scl
        /\ Advance /\ byte' = byte /\ data' = data /\ call' = call /\ ChipSees
    BY <1>2, Zenon DEF SetLine, At
  <2>2. deaf' = FALSE /\ moved' = <<>>
    BY <2>1 DEF ChipSees, Remember
  <2> QED
    BY <2>1, <2>2
<1>3. CASE Wait
  BY <1>3 DEF Wait, At, wires, history
<1> QED
  BY <1>1, <1>2, <1>3

LEMMA BootStep ==
  ASSUME TypeInv, Idle, BootInv, Acts
  PROVE  Idle' /\ BootInv'
<1>1. /\ call = None /\ byte = 0 /\ data = <<>> /\ moved = <<>> /\ ~deaf /\ deaf \in BOOLEAN
  BY DEF Idle, NoneYet, TypeInv, BusTypes
<1>2. todo # <<>>
  BY DEF Acts, SetLine, Wait, LookForAck, SampleBit, KeepByte, CheckAck, At
<1> DEFINE P == <<"pins">>
           Z == Stop
           R == <<"reset">>
<1>3. ASSUME Op[1] \in {"clk", "sda", "delay"}
      PROVE  /\ Op[1] = "clk" => scl' = Op[2] /\ sdaM' = sdaM
             /\ Op[1] = "sda" => sdaM' = Op[2] /\ scl' = scl
             /\ Op[1] = "delay" => scl' = scl /\ sdaM' = sdaM
             /\ Advance /\ Idle'
  BY <1>1, <1>3, IdleLine DEF Idle, NoneYet
<1>4. Len(PinOps) = 2 /\ Ops(P) = PinOps /\ PinOps[1] = Clk(0) /\ PinOps[2] = Sda(0)
  BY OpsAre DEF PinOps
<1>5. /\ Len(StopOps) = 6 /\ Ops(Z) = StopOps
      /\ StopOps[1] = Sda(0) /\ StopOps[2] = Delay /\ StopOps[3] = Clk(1)
      /\ StopOps[4] = Delay /\ StopOps[5] = Sda(1) /\ StopOps[6] = Delay
  BY OpsAre DEF StopOps
<1>6. Ops(R) = <<R>>
  BY OpsAre
<1>7. R[1] = "reset"
  OBVIOUS
<1> HIDE DEF P, Z, R
<1>8. \/ todo = <<P, Z, R>> /\ step \in 1..2
      \/ todo = <<Z, R>> /\ step \in 1..6 /\ (step > 3 => scl = 1) /\ (step = 6 => sdaM = 1)
      \/ todo = <<R>> /\ step = 1
  BY <1>2 DEF BootInv, P, Z, R
<1>9. BootInv' <=>
        \/ todo' = <<P, Z, R>> /\ step' \in 1..2
        \/ todo' = <<Z, R>> /\ step' \in 1..6 /\ (step' > 3 => scl' = 1) /\ (step' = 6 => sdaM' = 1)
        \/ todo' = <<R>> /\ step' = 1 /\ scl' = 1 /\ sdaM' = 1
        \/ todo' = <<>> /\ step' = 1 /\ Free'
  BY DEF BootInv, P, Z, R
<1>10. CASE todo = <<P, Z, R>> /\ step \in 1..2
  <2>1. Current = P /\ Tail(todo) = <<Z, R>> /\ Op = PinOps[step] /\ Len(Ops(Current)) = 2
    BY <1>4, <1>10 DEF Current, Op
  <2>2. Op[1] \in {"clk", "sda", "delay"}
    BY <1>4, <1>10, <2>1, Operations
  <2>3. Advance /\ Idle'
    BY <1>3, <2>2
  <2>4. IF step < 2 THEN step' = step + 1 /\ todo' = todo ELSE step' = 1 /\ todo' = <<Z, R>>
    BY <2>1, <2>3 DEF Advance
  <2> QED
    BY <1>9, <1>10, <2>3, <2>4
<1>11. CASE /\ todo = <<Z, R>> /\ step \in 1..6 /\ (step > 3 => scl = 1) /\ (step = 6 => sdaM = 1)
  <2>1. Current = Z /\ Tail(todo) = <<R>> /\ Op = StopOps[step] /\ Len(Ops(Current)) = 6
    BY <1>5, <1>11 DEF Current, Op
  <2>2. Op[1] \in {"clk", "sda", "delay"}
    BY <1>5, <1>11, <2>1, Operations
  <2>3. Advance /\ Idle'
    BY <1>3, <2>2
  <2>4. IF step < 6 THEN step' = step + 1 /\ todo' = todo ELSE step' = 1 /\ todo' = <<R>>
    BY <2>1, <2>3 DEF Advance
  <2>5. CASE step \in 1..2
    BY <1>9, <1>11, <2>3, <2>4, <2>5
  <2>6. CASE step = 3
    <3>1. Op[1] = "clk" /\ Op[2] = 1
      BY <1>5, <2>1, <2>6, Operations
    <3> QED
      BY <1>3, <1>9, <1>11, <2>3, <2>4, <2>6, <3>1
  <2>7. CASE step = 4
    <3>1. Op[1] = "delay"
      BY <1>5, <2>1, <2>7, Operations
    <3> QED
      BY <1>3, <1>9, <1>11, <2>3, <2>4, <2>7, <3>1
  <2>8. CASE step = 5
    <3>1. Op[1] = "sda" /\ Op[2] = 1
      BY <1>5, <2>1, <2>8, Operations
    <3> QED
      BY <1>3, <1>9, <1>11, <2>3, <2>4, <2>8, <3>1
  <2>9. CASE step = 6
    <3>1. Op[1] = "delay"
      BY <1>5, <2>1, <2>9, Operations
    <3> QED
      BY <1>3, <1>9, <1>11, <2>3, <2>4, <2>9, <3>1
  <2> QED
    BY <1>11, <2>5, <2>6, <2>7, <2>8, <2>9
<1>12. CASE todo = <<R>> /\ step = 1
  <2>1. Op = R /\ Op[1] = "reset"
    BY <1>6, <1>7, <1>12 DEF Current, Op
  <2> QED
    BY <2>1 DEF Acts, SetLine, Wait, LookForAck, SampleBit, KeepByte, CheckAck, At
<1> QED
  BY <1>8, <1>10, <1>11, <1>12

(* A call that has nothing left to do has done what it was asked, and has  *)
(* left the bus free.                                                      *)
LEMMA CallEnds ==
  ASSUME NEW k, IsCall(k), CallInv(k), todo = <<>>
  PROVE  step = 1 /\ Free /\ byte = 0 /\ AllMoved(k)
<1>1. SelectWalk(k) /\ LastWalk(k) /\ (k.op = "send" => SendWalk(k))
      /\ (k.op = "receive" => ReceiveWalk(k))
  BY Walks
<1>2. ASSUME NEW a, SelectInv(k, a) PROVE FALSE
  BY <1>1, <1>2 DEF SelectInv, SelectWalk, Goes
<1>3. ASSUME WriteInv(k) PROVE FALSE
  BY <1>1, <1>3 DEF WriteInv, SendWalk, Goes
<1>4. ASSUME ReadInv(k) PROVE FALSE
  <2>1. ReceiveWalk(k)
    BY <1>1, <1>4 DEF ReadInv
  <2>2. ASSUME NEW m \in 1..k.size, NEW v \in Byte, Receiving(k, m, v)
        PROVE  FALSE
    BY <2>1, <2>2 DEF ReceiveWalk, Receiving, Goes
  <2> QED
    BY <1>4, <2>1, <2>2 DEF ReadInv, ReceiveWalk, Goes
<1>5. PICK a \in Address : LastInv(k, a)
  BY <1>2, <1>3, <1>4 DEF CallInv
<1> QED
  BY <1>1, <1>5 DEF LastInv, LastWalk, Goes

(* A call in progress is the one the program counter names. *)
LEMMA CallOfPc ==
  ASSUME Inv, call # None
  PROVE  \E c \in DOMAIN CallOf : /\ pc = c /\ call = CallOf[c] /\ IsCall(CallOf[c])
                                  /\ CallInv(CallOf[c])
BY CallsAre DEF Inv, RunInv, Idle

LEMMA NoCall ==
  ASSUME Inv, call = None
  PROVE  /\ Idle
         /\ pc = "boot" => BootInv
         /\ pc # "boot" => todo = <<>> /\ step = 1
         /\ Up => pc \in DOMAIN CallOf \cup {"idle"} /\ Free
BY CallsAre, Pcs DEF Inv, RunInv, IsCall, Up

LEMMA ActsStep ==
  ASSUME Inv, Acts, pc' = pc, pressed' = pressed
  PROVE  Inv'
<1>1. TypeInv /\ BusTypes /\ ChipInv
  BY DEF Inv, TypeInv
<1>2. TypeInv' /\ ChipInv' /\ deaf' \in BOOLEAN /\ moved' \in Seq(Byte)
  <2>1. TypeInv'
    BY <1>1, ActsTyped
  <2> QED
    BY <2>1 DEF TypeInv, BusTypes
<1>3. todo # <<>>
  BY DEF Acts, SetLine, Wait, LookForAck, SampleBit, KeepByte, CheckAck, At
<1>4. CASE call # None
  <2>1. PICK c \in DOMAIN CallOf : /\ pc = c /\ call = CallOf[c] /\ IsCall(CallOf[c])
                                   /\ CallInv(CallOf[c])
    BY <1>4, CallOfPc
  <2> DEFINE k == CallOf[c]
  <2>2. IsCall(k) /\ call = k /\ CallInv(k) /\ InCall
    BY <1>1, <1>3, <1>4, <2>1 DEF InCall
  <2> HIDE DEF k
  <2>3. CallInv(k)' /\ call' = call
    BY <1>2, <2>2, CallStep
  <2>4. RunInv'
    BY <2>1, <2>3 DEF RunInv, k
  <2> QED
    BY <1>2, <2>4 DEF Inv
<1>5. CASE call = None
  <2>1. pc = "boot" /\ Idle /\ BootInv
    BY <1>3, <1>5, NoCall
  <2>2. Idle' /\ BootInv'
    BY <1>1, <2>1, BootStep
  <2> QED
    BY <1>2, <2>1, <2>2 DEF Inv, RunInv
<1> QED
  BY <1>4, <1>5

(* The chip after its reset, and before the first call. *)
LEMMA QuietChip ==
  /\ chip = Quiet => ChipInv /\ Still /\ chip.phase = "idle"
  /\ chip' = Quiet => ChipInv' /\ Still' /\ chip'.phase = "idle"
<1> DEFINE Q == [phase |-> "idle", n |-> 0, shift |-> 0, ptr |-> 0, want |-> 1, more |-> FALSE]
<1>1. Quiet = Q
  BY DEF Quiet
<1>2. 0 \in Byte /\ 0 \in Address /\ 0 \in 0..(Bits + 1) /\ 0 <= Bits
  BY Bytes, SquareOfBytes, BitsAre DEF Address
<1>3. ASSUME NEW c, c = Q
      PROVE  /\ c \in [phase : Phases, n : 0..(Bits + 1), shift : Byte, ptr : Address,
                       want : {0, 1}, more : BOOLEAN]
             /\ c.phase = "idle" /\ c.n = 0 /\ c.shift = 0 /\ c.want = 1 /\ ~c.more
  BY <1>2, <1>3 DEF Phases
<1>4. ASSUME chip = Quiet
      PROVE  ChipInv /\ Still /\ chip.phase = "idle"
  <2>1. ChipType /\ Still /\ chip.phase = "idle" /\ chip.n = 0 /\ ~chip.more
    BY <1>1, <1>3, <1>4 DEF ChipType, Still
  <2>2. chip.phase \notin Taking /\ chip.phase # "fetch" /\ chip.phase # "low"
    BY <2>1 DEF Taking
  <2>3. scl = 0 => chip.n <= Bits
    BY <1>2, <2>1
  <2>4. chip.more => chip.phase = "read" /\ chip.n = Bits + 1
    BY <2>1, Zenon
  <2>5. /\ chip.phase \in Taking /\ chip.n <= Bits => chip.shift < 2^chip.n
        /\ chip.phase = "fetch" => chip.n >= Bits
        /\ chip.phase = "low" => \E h \in Byte : chip.ptr = h * 2^Bits
    BY <2>2, Zenon
  <2> QED
    BY <2>1, <2>3, <2>4, <2>5, Zenon DEF ChipInv
<1>5. ASSUME chip' = Quiet
      PROVE  ChipInv' /\ Still' /\ chip'.phase = "idle"
  <2>1. ChipType' /\ Still' /\ chip'.phase = "idle" /\ chip'.n = 0 /\ ~chip'.more
    BY <1>1, <1>3, <1>5 DEF ChipType, Still
  <2>2. chip'.phase \notin Taking /\ chip'.phase # "fetch" /\ chip'.phase # "low"
    BY <2>1 DEF Taking
  <2>3. scl' = 0 => chip'.n <= Bits
    BY <1>2, <2>1
  <2>4. chip'.more => chip'.phase = "read" /\ chip'.n = Bits + 1
    BY <2>1, Zenon
  <2>5. /\ chip'.phase \in Taking /\ chip'.n <= Bits => chip'.shift < 2^chip'.n
        /\ chip'.phase = "fetch" => chip'.n >= Bits
        /\ chip'.phase = "low" => \E h \in Byte : chip'.ptr = h * 2^Bits
    BY <2>2, Zenon
  <2> QED
    BY <2>1, <2>3, <2>4, <2>5, Zenon DEF ChipInv
<1> QED
  BY <1>4, <1>5

(* A bus call calls these functions only. *)
LEMMA CallFn ==
  ASSUME NEW k, IsCall(k), CallInv(k), todo # <<>>
  PROVE  Current \in FnSet
<1>1. SelectWalk(k) /\ LastWalk(k) /\ (k.op = "send" => SendWalk(k))
      /\ (k.op = "receive" => ReceiveWalk(k))
  BY Walks
<1>2. /\ Start \in FnSet /\ Stop \in FnSet /\ WaitAck \in FnSet /\ <<"check">> \in FnSet
      /\ Receive(0) \in FnSet /\ Receive(1) \in FnSet /\ \A b \in Byte : Send(b) \in FnSet
  BY DEF FnSet
<1>3. /\ DevAddr \in Byte /\ DevAddr + 1 \in Byte
      /\ k.reg \div 2^Bits \in Byte /\ k.reg % 2^Bits \in Byte
      /\ k.op = "send" => k.bytes[1] \in Byte
  BY Bytes, TwoBytes DEF IsCall
<1>4. CASE \E a \in Address : SelectInv(k, a)
  BY <1>1, <1>2, <1>3, <1>4 DEF SelectInv, SelectWalk, Goes
<1>5. CASE WriteInv(k)
  BY <1>1, <1>2, <1>3, <1>5 DEF WriteInv, SendWalk, Goes
<1>6. CASE ReadInv(k)
  <2>1. ReceiveWalk(k)
    BY <1>1, <1>6 DEF ReadInv
  <2>2. ASSUME NEW m \in 1..k.size, NEW v \in Byte, Receiving(k, m, v)
        PROVE  Current \in FnSet
    <3>1. Current = Receive(IF m < k.size THEN 1 ELSE 0)
      BY <2>1, <2>2 DEF ReceiveWalk, Receiving, Goes
    <3> QED
      BY <1>2, <3>1
  <2> QED
    BY <1>2, <1>3, <1>6, <2>1, <2>2 DEF ReadInv, ReceiveWalk, Goes
<1>7. CASE \E a \in Address : LastInv(k, a)
  BY <1>1, <1>2, <1>7 DEF LastInv, LastWalk, Goes
<1> QED
  BY <1>4, <1>5, <1>6, <1>7 DEF CallInv

LEMMA InitInv == Init => Inv
<1> SUFFICES ASSUME Init
             PROVE  Inv
  OBVIOUS
<1>1. /\ scl = 1 /\ sdaM = 1 /\ sdaC = 1 /\ todo = <<>> /\ step = 1 /\ try = 0 /\ nack = FALSE
      /\ byte = 0 /\ data = <<>> /\ call = None /\ chip = Quiet /\ regs = Defaults
      /\ deaf = FALSE /\ moved = <<>> /\ pc = "off" /\ pressed = FALSE
  BY DEF Init
<1>2. BusTypes
  <2>1. try \in 0..Tries
    BY <1>1, TriesAssumption
  <2>2. byte \in Byte /\ regs \in [Address -> Byte]
    BY <1>1, Bytes, DefaultsTyped
  <2>3. nack \in BOOLEAN /\ deaf \in BOOLEAN
    BY <1>1, Zenon
  <2>4. /\ data \in Seq(Byte) /\ moved \in Seq(Byte) /\ step \in Nat \ {0} /\ scl \in {0, 1} /\ sdaM \in {0, 1} /\ sdaC \in {0, 1}
    BY <1>1
  <2> QED
    BY <2>1, <2>2, <2>3, <2>4 DEF BusTypes
<1>3. TypeInv
  <2>1. todo \in Seq(AllFns) /\ todo = <<>> /\ pc \in {"off", "boot", "idle"} \cup DOMAIN CallOf
    BY <1>1
  <2>2. pressed \in BOOLEAN /\ ChipInv
    BY <1>1, QuietChip
  <2> QED
    BY <1>2, <2>1, <2>2 DEF TypeInv
<1>4. RunInv
  BY <1>1 DEF RunInv, Idle, NoneYet
<1> QED
  BY <1>3, <1>4 DEF Inv

LEMMA TouchInitStep ==
  ASSUME Inv, TouchInit
  PROVE  Inv'
<1>1. /\ pc = "off" /\ pc' = "boot" /\ todo' = <<<<"pins">>, Stop, <<"reset">>>>
      /\ scl' = scl /\ sdaM' = sdaM /\ sdaC' = sdaC /\ step' = step /\ try' = try /\ nack' = nack
      /\ byte' = byte /\ data' = data /\ call' = call /\ chip' = chip /\ regs' = regs
      /\ deaf' = deaf /\ moved' = moved /\ pressed' = pressed
  BY DEF TouchInit, wires, history
<1>2. TypeInv /\ Idle /\ step = 1
  BY <1>1, Pcs DEF Inv, RunInv
<1>3. BusTypes' /\ ChipInv'
  BY <1>1, <1>2 DEF TypeInv, BusTypes, ChipInv, ChipType, Still
<1> DEFINE P == <<"pins">>
           Z == Stop
           R == <<"reset">>
<1>4. P \in AllFns /\ Z \in AllFns /\ R \in AllFns /\ Ops(P) = PinOps /\ Len(PinOps) = 2
  BY OpsAre DEF AllFns, FnSet, PinOps
<1>5. todo' = <<P, Z, R>>
  BY <1>1
<1> HIDE DEF P, Z, R
<1>6. todo' \in Seq(AllFns) /\ todo' # <<>> /\ Current' = P
  BY <1>4, <1>5 DEF Current
<1>7. Ops(Current)' = PinOps
  BY <1>4, <1>6
<1>8. TypeInv'
  <2>1. pc' \in {"off", "boot", "idle"} \cup DOMAIN CallOf /\ pressed' \in BOOLEAN
    BY <1>1, <1>2 DEF TypeInv
  <2>2. step' <= Len(Ops(Current)')
    BY <1>1, <1>2, <1>4, <1>7
  <2> QED
    BY <1>3, <1>6, <2>1, <2>2 DEF TypeInv
<1>9. Idle' /\ BootInv'
  BY <1>1, <1>2 DEF Idle, NoneYet, BootInv
<1> QED
  BY <1>1, <1>8, <1>9 DEF Inv, RunInv

(* The chip's reset line is moved by touch_init only. *)
LEMMA ResetBooting ==
  ASSUME Inv, At("reset")
  PROVE  call = None /\ pc = "boot" /\ BootInv /\ Current = <<"reset">>
<1>1. /\ todo # <<>> /\ Op[1] = "reset" /\ BusTypes /\ todo \in Seq(AllFns)
      /\ step <= Len(Ops(Current))
  BY DEF At, Inv, TypeInv
<1>2. Current = <<"reset">>
  <2>1. SUFFICES ASSUME Current # <<"reset">>
                 PROVE  FALSE
    OBVIOUS
  <2>2. Op \in MasterOps
    BY <1>1, <2>1, MasterOp
  <2>3. \A o \in MasterOps : o[1] # "reset"
    BY DEF MasterOps, OpSet, Clk, Sda, Delay, Sample, Keep, Look, Check
  <2> QED
    BY <1>1, <2>2, <2>3
<1>3. call = None
  <2>1. SUFFICES ASSUME call # None
                 PROVE  FALSE
    OBVIOUS
  <2>2. PICK c \in DOMAIN CallOf : IsCall(CallOf[c]) /\ CallInv(CallOf[c])
    BY <2>1, CallOfPc
  <2> DEFINE k == CallOf[c]
  <2>3. IsCall(k) /\ CallInv(k)
    BY <2>2
  <2> HIDE DEF k
  <2>4. Current \in FnSet
    BY <1>1, <2>3, CallFn
  <2>5. <<"reset">> \notin FnSet
    BY DEF FnSet, Start, Stop, WaitAck, Send, Receive
  <2> QED
    BY <1>2, <2>4, <2>5
<1> QED
  BY <1>1, <1>2, <1>3, NoCall

LEMMA ResetChipStep ==
  ASSUME Inv, ResetChip
  PROVE  Inv'
<1>1. /\ todo # <<>> /\ Op[1] = "reset" /\ chip' = Quiet /\ sdaC' = 1 /\ regs' = Defaults /\ Advance
      /\ scl' = scl /\ sdaM' = sdaM /\ try' = try /\ nack' = nack /\ byte' = byte /\ data' = data
      /\ call' = call /\ deaf' = deaf /\ moved' = moved /\ pc' = pc /\ pressed' = pressed
  BY DEF ResetChip, At, history
<1>2. /\ TypeInv /\ BusTypes /\ todo \in Seq(AllFns) /\ step <= Len(Ops(Current))
      /\ step \in Nat \ {0}
  BY <1>1 DEF Inv, TypeInv, BusTypes
<1>3. Current = <<"reset">> /\ call = None /\ pc = "boot" /\ BootInv /\ Idle
  BY <1>1, ResetBooting, NoCall DEF At
<1>4. scl = 1 /\ sdaM = 1 /\ step = 1 /\ Tail(todo) = <<>>
  <2> DEFINE P == <<"pins">>
             Z == Stop
             R == <<"reset">>
  <2>1. P # R /\ Z # R
    BY DEF Stop
  <2>2. \/ todo = <<P, Z, R>> \/ todo = <<Z, R>>
        \/ todo = <<R>> /\ step = 1 /\ scl = 1 /\ sdaM = 1
    BY <1>1, <1>3 DEF BootInv
  <2>3. Head(todo) = R
    BY <1>3 DEF Current
  <2> HIDE DEF P, Z, R
  <2>4. Head(<<P, Z, R>>) = P /\ Head(<<Z, R>>) = Z /\ Tail(<<R>>) = <<>>
    OBVIOUS
  <2>5. todo = <<R>> /\ step = 1 /\ scl = 1 /\ sdaM = 1
    BY <2>1, <2>2, <2>3, <2>4, Zenon
  <2> QED
    BY <2>4, <2>5
<1>5. step' = 1 /\ todo' = <<>>
  <2>1. Len(Ops(Current)) = 1
    BY <1>3, OpsAre
  <2>2. ~(step < Len(Ops(Current)))
    BY <1>4, <2>1
  <2> QED
    BY <1>1, <1>4, <2>2, Zenon DEF Advance
<1>6. ChipInv' /\ Still' /\ chip'.phase = "idle"
  BY <1>1, QuietChip
<1>7. BusTypes'
  BY <1>1, <1>2, <1>5, DefaultsTyped DEF BusTypes
<1>8. TypeInv'
  BY <1>1, <1>2, <1>5, <1>6, <1>7 DEF TypeInv
<1>9. Idle' /\ BootInv'
  BY <1>1, <1>3, <1>4, <1>5, <1>6 DEF Idle, NoneYet, BootInv, Free
<1> QED
  BY <1>1, <1>3, <1>8, <1>9 DEF Inv, RunInv

(* The driver's own steps between two calls leave the bus alone. *)
LEMMA BetweenCalls ==
  ASSUME Inv, call = None, UNCHANGED <<i2cVars, pressed>>,
         pc' \in DOMAIN CallOf \cup {"idle"}, todo = <<>>, Free
  PROVE  Inv'
<1>1. /\ todo' = todo /\ scl' = scl /\ sdaM' = sdaM /\ sdaC' = sdaC /\ step' = step /\ try' = try
      /\ nack' = nack /\ byte' = byte /\ data' = data /\ call' = call /\ chip' = chip
      /\ regs' = regs /\ deaf' = deaf /\ moved' = moved /\ pressed' = pressed
  BY DEF i2cVars
<1>2. TypeInv /\ Idle /\ step = 1
  BY NoCall, Zenon DEF Inv, RunInv, BootInv
<1>3. BusTypes' /\ ChipInv'
  BY <1>1, <1>2 DEF TypeInv, BusTypes, ChipInv, ChipType, Still
<1>4. TypeInv'
  BY <1>1, <1>2, <1>3 DEF TypeInv
<1>5. RunInv'
  BY <1>1, <1>2 DEF RunInv, Idle, NoneYet, Free, Still
<1> QED
  BY <1>4, <1>5 DEF Inv

LEMMA BootedStep ==
  ASSUME Inv, Booted
  PROVE  Inv'
<1>1. pc = "boot" /\ todo = <<>> /\ pc' = "command" /\ UNCHANGED <<i2cVars, pressed>>
  BY DEF Booted
<1>2. call = None /\ BootInv
  BY <1>1, Pcs DEF Inv, RunInv, Idle
<1>3. Free
  BY <1>1, <1>2 DEF BootInv
<1> QED
  BY <1>1, <1>2, <1>3, Pcs, BetweenCalls

LEMMA TouchpadReadStep ==
  ASSUME Inv, TouchpadRead
  PROVE  Inv'
<1>1. pc = "idle" /\ call = None /\ pc' = "status" /\ UNCHANGED <<i2cVars, pressed>>
  BY DEF TouchpadRead
<1>2. todo = <<>> /\ Free
  BY <1>1, NoCall DEF Up
<1> QED
  BY <1>1, <1>2, Pcs, BetweenCalls

LEMMA BeginCallStep ==
  ASSUME Inv, BeginCall
  PROVE  Inv' /\ Up /\ call = None /\ call' # None /\ regs' = regs /\ deaf' = deaf /\ moved' = moved
         /\ data' = data /\ Up'
<1>1. PICK k : k = CallOf[pc]
  OBVIOUS
<1>2. /\ pc \in DOMAIN CallOf /\ call = None /\ todo = <<>> /\ call' = k /\ step' = 1
      /\ todo' = IF k.op = "send" THEN BusSend(k.reg, k.bytes) ELSE BusReceive(k.reg, k.size)
      /\ scl' = scl /\ sdaM' = sdaM /\ sdaC' = sdaC /\ try' = try
      /\ nack' = nack /\ byte' = byte /\ data' = data /\ chip' = chip
      /\ regs' = regs /\ deaf' = deaf /\ moved' = moved /\ pressed' = pressed /\ pc' = pc
  BY <1>1 DEF BeginCall, Begin, wires, history
<1>3. todo' = Fns(k) /\ Fns(k) \in Seq(FnSet) /\ Len(Fns(k)) \in Nat /\ Len(Fns(k)) >= 1 /\ IsCall(k)
  <2>1. IsCall(k)
    BY <1>1, <1>2, CallsAre
  <2>2. CASE k.op = "send"
    BY <1>2, <2>1, <2>2, SendFns DEF Fns
  <2>3. CASE k.op # "send"
    <3>1. k.op = "receive" /\ k.size \in Nat
      BY <2>1, <2>3 DEF IsCall
    <3> QED
      BY <1>2, <2>1, <2>3, <3>1, ReceiveFns DEF Fns
  <2> QED
    BY <2>2, <2>3
<1>4. TypeInv /\ Idle /\ Up /\ Free
  <2>1. Up
    BY <1>2, Pcs DEF Up
  <2> QED
    BY <1>2, <2>1, NoCall DEF Inv
<1>5. BusTypes' /\ ChipInv'
  BY <1>2, <1>4 DEF TypeInv, BusTypes, ChipInv, ChipType, Still
<1>6. todo' \in Seq(AllFns) /\ todo' # <<>> /\ Current' \in AllFns
  <2>1. FnSet \subseteq AllFns
    BY DEF AllFns
  <2>2. todo' \in Seq(AllFns) /\ todo' # <<>>
    BY <1>3, <2>1
  <2> QED
    BY <2>2 DEF Current
<1>7. TypeInv'
  <2>1. Len(Ops(Current')) \in Nat /\ Len(Ops(Current')) >= 1
    BY <1>6, OpsTyped
  <2>2. step' <= Len(Ops(Current)')
    BY <1>2, <2>1
  <2> QED
    BY <1>2, <1>4, <1>5, <1>6, <2>2 DEF TypeInv
<1>8. Pos(1, k)'
  <2> DEFINE F == Fns(k)
  <2>1. F \in Seq(FnSet) /\ todo' = F
    BY <1>3
  <2> HIDE DEF F
  <2>2. SubSeq(F, 1, Len(F)) = F
    BY <2>1
  <2> QED
    BY <2>1, <2>2 DEF Pos, F
<1>9. PICK a : a = chip.ptr
  OBVIOUS
<1>10. a \in Address
  BY <1>4, <1>9 DEF TypeInv, ChipInv, ChipType
<1>11. StartInv(a)'
  BY <1>2, <1>4, <1>9 DEF StartInv, Free, Still, Idle
<1>12. SelectInv(k, a)'
  BY <1>2, <1>4, <1>8, <1>11 DEF SelectInv, Idle, NoneYet
<1>13. CallInv(k)'
  BY <1>10, <1>12 DEF CallInv
<1>14. RunInv'
  BY <1>1, <1>2, <1>13 DEF RunInv
<1>15. call' # None /\ Up'
  BY <1>2, <1>3, <1>4 DEF IsCall, Up
<1> QED
  BY <1>2, <1>4, <1>7, <1>14, <1>15 DEF Inv

LEMMA EndCallStep ==
  ASSUME Inv, EndCall
  PROVE  Inv' /\ Up /\ Up'
<1>1. /\ call # None /\ todo = <<>> /\ call' = None /\ data' = <<>> /\ deaf' = FALSE /\ moved' = <<>>
      /\ scl' = scl /\ sdaM' = sdaM /\ sdaC' = sdaC /\ todo' = todo /\ step' = step /\ try' = try
      /\ nack' = nack /\ byte' = byte /\ chip' = chip /\ regs' = regs
      /\ pressed' = IF pc = "status" THEN StatusRead ELSE pressed
  BY DEF EndCall, End, wires
<1>2. PICK c \in DOMAIN CallOf : pc = c /\ IsCall(CallOf[c]) /\ CallInv(CallOf[c])
  BY <1>1, CallOfPc
<1>3. step = 1 /\ Free /\ byte = 0
  <2> DEFINE k == CallOf[c]
  <2>1. IsCall(k) /\ CallInv(k)
    BY <1>2
  <2> HIDE DEF k
  <2> QED
    BY <1>1, <2>1, CallEnds
<1>4. pc' \in DOMAIN CallOf \cup {"idle"}
  BY <1>2, Pcs DEF EndCall
<1>5. TypeInv
  BY DEF Inv
<1>6. deaf' \in BOOLEAN /\ pressed' \in BOOLEAN
  <2>1. pressed \in BOOLEAN
    BY <1>5 DEF TypeInv
  <2> QED
    BY <1>1, <2>1, Zenon DEF StatusRead
<1>7. data' \in Seq(Byte) /\ moved' \in Seq(Byte)
  BY <1>1
<1>8. BusTypes'
  BY <1>1, <1>5, <1>6, <1>7, Zenon DEF TypeInv, BusTypes
<1>9. ChipInv'
  BY <1>1, <1>5, Zenon DEF TypeInv, ChipInv, ChipType, Still
<1>10. TypeInv'
  BY <1>1, <1>4, <1>5, <1>6, <1>8, <1>9 DEF TypeInv
<1>11. Idle' /\ Free'
  <2>1. ~deaf'
    BY <1>1
  <2> QED
    BY <1>1, <1>3, <2>1 DEF Idle, NoneYet, Free, Still
<1>12. RunInv'
  BY <1>1, <1>3, <1>4, <1>11 DEF RunInv
<1>13. Up /\ Up'
  BY <1>2, <1>4, Pcs DEF Up
<1> QED
  BY <1>10, <1>12, <1>13 DEF Inv

LEMMA DriveStep ==
  ASSUME Inv, Drive
  PROVE  Inv'
<1>1. /\ ChipDrives /\ sdaC # chip.want /\ sdaC' = chip.want /\ scl' = scl /\ sdaM' = sdaM
      /\ todo' = todo /\ step' = step /\ try' = try /\ nack' = nack /\ byte' = byte /\ data' = data
      /\ call' = call /\ chip' = chip /\ regs' = regs /\ deaf' = deaf /\ moved' = moved
      /\ pc' = pc /\ pressed' = pressed
  BY DEF Drive, ChipDrives, master, history
<1>2. TypeInv /\ chip.want \in {0, 1}
  BY DEF Inv, TypeInv, ChipInv, ChipType
<1>3. BusTypes'
  BY <1>1, <1>2 DEF TypeInv, BusTypes
<1>4. ChipInv'
  BY <1>1, <1>2, Zenon DEF TypeInv, ChipInv, ChipType, Still
<1>5. TypeInv'
  <2>1. todo' # <<>> => step' <= Len(Ops(Current)')
    BY <1>1, <1>2, Zenon DEF TypeInv, Current
  <2> QED
    BY <1>1, <1>2, <1>3, <1>4, <2>1, Zenon DEF TypeInv
<1>6. ~Free
  BY <1>1 DEF Free, Still
<1>7. CASE call # None
  <2>1. PICK c \in DOMAIN CallOf : pc = c /\ call = CallOf[c] /\ CallInv(CallOf[c])
    BY <1>7, CallOfPc
  <2> DEFINE k == CallOf[c]
  <2>2. CallInv(k)
    BY <2>1
  <2> HIDE DEF k
  <2>3. CallInv(k)'
    BY <1>1, <2>2, DriveKept
  <2>4. RunInv'
    BY <1>1, <2>1, <2>3 DEF RunInv, k
  <2> QED
    BY <1>5, <2>4 DEF Inv
<1>8. CASE call = None
  <2>1. Idle /\ (pc = "boot" => BootInv) /\ (pc # "boot" => todo = <<>> /\ step = 1) /\ ~Up
    BY <1>6, <1>8, NoCall
  <2>2. Idle'
    BY <1>1, <2>1, Zenon DEF Idle, NoneYet
  <2>3. pc = "boot" => BootInv'
    BY <1>1, <1>6, <2>1 DEF BootInv
  <2>4. RunInv'
    BY <1>1, <2>1, <2>2, <2>3, Zenon DEF RunInv, Up
  <2> QED
    BY <1>5, <2>4 DEF Inv
<1> QED
  BY <1>7, <1>8

LEMMA SameCall ==
  ASSUME todo' = todo, scl' = scl, sdaM' = sdaM, sdaC' = sdaC, step' = step, nack' = nack,
         byte' = byte, data' = data, chip' = chip, deaf' = deaf, moved' = moved, NEW k
  PROVE  CallInv(k) => CallInv(k)'
<1>1. \A j : Pos(j, k)' = Pos(j, k)
  BY DEF Pos
<1>2. \A a : StartInv(a)' = StartInv(a) /\ StopInv(a)' = StopInv(a)
  BY DEF StartInv, StopInv, Still
<1>3. \A q, b, c : WaitInv(q, b, c)' = WaitInv(q, b, c)
  BY DEF WaitInv, Answers, Waited, Given, Ignores, Still
<1>4. \A b, p, a, q, c : SendInv(b, p, a, q, c)' = SendInv(b, p, a, q, c)
  BY DEF SendInv, SendBit, Hears, Answers, Ignores, Still
<1>5. \A ack, v, a : ReceiveInv(ack, v, a)' = ReceiveInv(ack, v, a)
  BY DEF ReceiveInv, ReceiveBit, ReceiveAck, Gives, Given, Ignores, Still
<1>6. \A q, c : Waited(q, c)' = Waited(q, c)
  BY DEF Waited, Given, Ignores, Still
<1>7. \A a : SelectInv(k, a)' = SelectInv(k, a)
  BY <1>1, <1>2, <1>3, <1>4, <1>6 DEF SelectInv, NoneYet
<1>8. WriteInv(k)' = WriteInv(k)
  BY <1>1, <1>3, <1>4 DEF WriteInv
<1>9. \A m, v : Receiving(k, m, v)' = Receiving(k, m, v)
  BY <1>1, <1>5 DEF Receiving
<1>10. ReadInv(k)' = ReadInv(k)
  BY <1>1, <1>2, <1>3, <1>4, <1>9 DEF ReadInv, NoneYet
<1>11. \A a : LastInv(k, a)' = LastInv(k, a)
  BY <1>1, <1>2 DEF LastInv, AllMoved, Free, Still
<1> QED
  BY <1>7, <1>8, <1>10, <1>11 DEF CallInv

LEMMA ReportStep ==
  ASSUME Inv, Report
  PROVE  Inv' /\ regs' \in [Address -> Byte]
<1>1. /\ todo' = todo /\ scl' = scl /\ sdaM' = sdaM /\ sdaC' = sdaC /\ step' = step /\ try' = try
      /\ nack' = nack /\ byte' = byte /\ data' = data /\ call' = call /\ chip' = chip
      /\ deaf' = deaf /\ moved' = moved /\ pc' = pc /\ pressed' = pressed /\ Up
  BY DEF Report, wires, master, history
<1>2. TypeInv /\ RunInv
  BY DEF Inv
<1>3. regs' \in [Address -> Byte]
  BY <1>2, ReportTyped DEF TypeInv, BusTypes
<1>4. BusTypes'
  BY <1>1, <1>2, <1>3, Zenon DEF TypeInv, BusTypes
<1>5. ChipInv'
  BY <1>1, <1>2, Zenon DEF TypeInv, ChipInv, ChipType, Still
<1>6. TypeInv'
  <2>1. todo' # <<>> => step' <= Len(Ops(Current)')
    BY <1>1, <1>2, Zenon DEF TypeInv, Current
  <2> QED
    BY <1>1, <1>2, <1>4, <1>5, <2>1, Zenon DEF TypeInv
<1>7. RunInv'
  <2>1. CASE call # None
    <3>1. PICK c \in DOMAIN CallOf : pc = c /\ call = CallOf[c] /\ CallInv(CallOf[c])
      BY <2>1, CallOfPc
    <3>2. CallInv(CallOf[c])'
      BY <1>1, <3>1, SameCall
    <3> QED
      BY <1>1, <3>1, <3>2 DEF RunInv
  <2>2. CASE call = None
    <3>1. Idle /\ todo = <<>> /\ step = 1 /\ pc \in DOMAIN CallOf \cup {"idle"} /\ Free
      BY <1>1, <2>2, NoCall DEF Up
    <3>2. Idle' /\ Free'
      BY <1>1, <3>1, Zenon DEF Idle, NoneYet, Free, Still
    <3> QED
      BY <1>1, <3>1, <3>2, Zenon DEF RunInv
  <2> QED
    BY <2>1, <2>2
<1> QED
  BY <1>3, <1>6, <1>7 DEF Inv

LEMMA CrashStep ==
  ASSUME Inv, Crash
  PROVE  Inv' /\ regs' \in [Address -> Byte] /\ Idle' /\ ~Up'
<1>1. /\ scl' = 1 /\ sdaM' = 1 /\ sdaC' = sdaC /\ todo' = <<>> /\ step' = 1 /\ try' = 0
      /\ nack' = FALSE /\ byte' = 0 /\ data' = <<>> /\ call' = None /\ pc' = "off"
      /\ pressed' = FALSE /\ ChipSees
  BY DEF Crash
<1>2. TypeInv /\ BusTypes /\ ChipInv
  BY DEF Inv, TypeInv
<1>3. ChipInv' /\ regs' \in [Address -> Byte] /\ deaf' \in BOOLEAN /\ moved' \in Seq(Byte)
  BY <1>1, <1>2, SeesKept
<1>4. deaf' = FALSE /\ moved' = <<>>
  BY <1>1 DEF ChipSees, Remember
<1>5. BusTypes'
  <2>1. try' \in 0..Tries /\ byte' \in Byte
    BY <1>1, TriesAssumption, Bytes
  <2>2. data' \in Seq(Byte) /\ step' \in Nat \ {0} /\ scl' \in {0, 1} /\ sdaM' \in {0, 1}
    BY <1>1
  <2>3. nack' \in BOOLEAN
    BY <1>1, Zenon
  <2>4. sdaC' \in {0, 1}
    BY <1>1, <1>2 DEF BusTypes
  <2> QED
    BY <1>3, <2>1, <2>2, <2>3, <2>4 DEF BusTypes
<1>6. TypeInv'
  <2>1. todo' \in Seq(AllFns) /\ todo' = <<>> /\ pc' \in {"off", "boot", "idle"} \cup DOMAIN CallOf
    BY <1>1
  <2>2. pressed' \in BOOLEAN
    BY <1>1, Zenon
  <2> QED
    BY <1>3, <1>5, <2>1, <2>2 DEF TypeInv
<1>7. Idle' /\ RunInv'
  BY <1>1, <1>4 DEF RunInv, Idle, NoneYet
<1>8. ~Up'
  BY <1>1 DEF Up
<1> QED
  BY <1>3, <1>6, <1>7, <1>8 DEF Inv

LEMMA StutterStep ==
  ASSUME Inv, UNCHANGED vars
  PROVE  Inv'
<1>1. /\ todo' = todo /\ scl' = scl /\ sdaM' = sdaM /\ sdaC' = sdaC /\ step' = step /\ try' = try
      /\ nack' = nack /\ byte' = byte /\ data' = data /\ call' = call /\ chip' = chip
      /\ regs' = regs /\ deaf' = deaf /\ moved' = moved /\ pc' = pc /\ pressed' = pressed
  BY DEF vars
<1>2. TypeInv /\ RunInv
  BY DEF Inv
<1>3. BusTypes' /\ ChipInv'
  BY <1>1, <1>2, Zenon DEF TypeInv, BusTypes, ChipInv, ChipType, Still
<1>4. TypeInv'
  <2>1. todo' # <<>> => step' <= Len(Ops(Current)')
    BY <1>1, <1>2, Zenon DEF TypeInv, Current
  <2> QED
    BY <1>1, <1>2, <1>3, <2>1, Zenon DEF TypeInv
<1>5. \A c : CallInv(CallOf[c]) => CallInv(CallOf[c])'
  BY <1>1, SameCall
<1>6. Idle => Idle'
  BY <1>1, Zenon DEF Idle, NoneYet
<1>7. BootInv => BootInv'
  BY <1>1 DEF BootInv, Free, Still
<1>8. Free => Free'
  BY <1>1 DEF Free, Still
<1>9. RunInv'
  BY <1>1, <1>2, <1>5, <1>6, <1>7, <1>8, Zenon DEF RunInv
<1> QED
  BY <1>4, <1>9 DEF Inv

LEMMA NextInv ==
  ASSUME Inv, [Next]_vars
  PROVE  Inv'
<1>1. CASE TouchInit
  BY <1>1, TouchInitStep
<1>2. CASE ResetChip
  BY <1>2, ResetChipStep
<1>3. CASE Booted
  BY <1>3, BootedStep
<1>4. CASE BeginCall
  BY <1>4, BeginCallStep
<1>5. CASE EndCall
  BY <1>5, EndCallStep
<1>6. CASE MasterStep
  <2>1. Acts /\ pc' = pc /\ pressed' = pressed
    BY <1>6 DEF MasterStep, Acts
  <2> QED
    BY <2>1, ActsStep
<1>7. CASE Drive
  BY <1>7, DriveStep
<1>8. CASE TouchpadRead
  BY <1>8, TouchpadReadStep
<1>9. CASE Report
  BY <1>9, ReportStep
<1>10. CASE Crash
  BY <1>10, CrashStep
<1>11. CASE UNCHANGED vars
  BY <1>11, StutterStep
<1> QED
  BY <1>1, <1>2, <1>3, <1>4, <1>5, <1>6, <1>7, <1>8, <1>9, <1>10, <1>11 DEF Next, Driver

(* The inductive invariant holds in every state: both sides agree about    *)
(* the bit, the byte and the register a call is at, whatever the chip      *)
(* ignores and whenever the processor is reset.                            *)
THEOREM Invariance == Spec => []Inv
<1>1. Inv /\ [Next]_vars => Inv'
  BY NextInv
<1> QED
  BY InitInv, <1>1, PTL DEF Spec

-----------------------------------------------------------------------------
(***************************************************************************)
(* What follows from it.                                                   *)
(***************************************************************************)
LEMMA Sizes ==
  ASSUME NEW k, IsCall(k), CallInv(k), moved \in Seq(Byte), data \in Seq(Byte)
  PROVE  k.size >= Len(moved) /\ (k.op = "receive" => k.size >= Len(data))
<1>1. /\ k.size \in Nat \ {0} /\ (k.op = "send" => k.size = 1) /\ Len(moved) \in Nat
      /\ Len(data) \in Nat /\ k.op \in {"send", "receive"}
  BY DEF IsCall
<1>7. ASSUME Len(moved) = 0 \/ Len(moved) = 1, Len(data) = 0
      PROVE  k.size >= Len(moved) /\ k.size >= Len(data)
  <2> DEFINE x == Len(moved)
             y == Len(data)
             z == k.size
  <2>1. x \in {0, 1} /\ y = 0 /\ z \in Nat \ {0}
    BY <1>1, <1>7
  <2> HIDE DEF x, y, z
  <2>2. z >= x /\ z >= y
    BY <2>1
  <2> QED
    BY <2>2 DEF x, y, z
<1>2. NoneYet => Len(moved) = 0 /\ Len(data) = 0
  BY DEF NoneYet
<1>3. CASE \E a \in Address : SelectInv(k, a)
  BY <1>1, <1>2, <1>3 DEF SelectInv
<1>4. CASE WriteInv(k)
  <2>1. moved = <<>> \/ moved = <<k.bytes[1]>>
    BY <1>4 DEF WriteInv
  <2> DEFINE b == k.bytes[1]
             t == <<b>>
  <2>2. moved = <<>> \/ moved = t
    BY <2>1
  <2> HIDE DEF b
  <2>3. Len(t) = 1 /\ Len(<<>>) = 0
    OBVIOUS
  <2> HIDE DEF t
  <2>4. Len(moved) = 1 \/ Len(moved) = 0
    BY <2>2, <2>3, Zenon
  <2>5. data = <<>>
    BY <1>4 DEF WriteInv
  <2>6. Len(data) = 0
    BY <2>5
  <2> QED
    BY <1>7, <2>4, <2>6, Zenon
<1>5. CASE ReadInv(k)
  <2>1. ASSUME NEW m \in 1..k.size, NEW v \in Byte, Receiving(k, m, v)
        PROVE  k.size >= Len(moved) /\ k.size >= Len(data)
    <3>1. Len(data) = m - 1 /\ (moved = <<>> \/ (Len(moved) = m + 1 /\ m < k.size) \/ Len(moved) = m)
      BY <2>1 DEF Receiving
    <3>2. moved = <<>> => Len(moved) = 0
      OBVIOUS
    <3> QED
      BY <1>1, <3>1, <3>2
  <2>2. ASSUME data = <<>>, moved = <<>> \/ Len(moved) = 1
        PROVE  k.size >= Len(moved) /\ k.size >= Len(data)
    <3>1. Len(data) = 0
      BY <2>2
    <3>2. Len(moved) = 0 \/ Len(moved) = 1
      <4>1. moved = <<>> => Len(moved) = 0
        OBVIOUS
      <4> QED
        BY <2>2, <4>1, Zenon
    <3> QED
      BY <1>7, <3>1, <3>2, Zenon
  <2> QED
    BY <1>5, <2>1, <2>2, Zenon DEF ReadInv, NoneYet
<1>6. CASE \E a \in Address : LastInv(k, a)
  BY <1>1, <1>6 DEF LastInv, AllMoved
<1> QED
  BY <1>3, <1>4, <1>5, <1>6 DEF CallInv

LEMMA FunctionNames ==
  \A f \in AllFns : f[1] \in Functions
<1>1. \A b : Send(b)[1] = "send" /\ Receive(b)[1] = "receive"
  BY DEF Send, Receive
<1> QED
  BY <1>1 DEF AllFns, FnSet, Start, Stop, WaitAck, Functions

(* Types.  No call stores more in the caller's array than it was given,    *)
(* also when the chip fetches a byte more, and no operation is looked up   *)
(* past the end of a function.                                             *)
THEOREM TypeCorrect == Spec => []TypeOK
<1>1. Inv => TypeOK
  <2> SUFFICES ASSUME Inv
               PROVE  TypeOK
    OBVIOUS
  <2>1. TypeInv /\ BusTypes /\ ChipType /\ todo \in Seq(AllFns)
    BY DEF Inv, TypeInv, ChipInv
  <2>2. {scl, sdaM, sdaC} \subseteq {0, 1}
    BY <2>1 DEF BusTypes
  <2>3. \A i \in DOMAIN todo : todo[i][1] \in Functions
    BY <2>1, FunctionNames
  <2>4. call # None => /\ call.size >= Len(moved)
                       /\ call.op = "receive" => call.size >= Len(data)
    <3>1. SUFFICES ASSUME call # None
                   PROVE  /\ call.size >= Len(moved)
                          /\ call.op = "receive" => call.size >= Len(data)
      OBVIOUS
    <3>2. PICK c \in DOMAIN CallOf : call = CallOf[c] /\ IsCall(CallOf[c]) /\ CallInv(CallOf[c])
      BY <3>1, CallOfPc
    <3> DEFINE k == CallOf[c]
    <3>3. IsCall(k) /\ CallInv(k) /\ call = k
      BY <3>2
    <3> HIDE DEF k
    <3>4. moved \in Seq(Byte) /\ data \in Seq(Byte)
      BY <2>1 DEF BusTypes
    <3> QED
      BY <3>3, <3>4, Sizes
  <2>5. /\ chip.n \in 0..(Bits + 1) /\ chip.shift \in Byte /\ chip.ptr \in Address
        /\ chip.want \in {0, 1} /\ chip.more \in BOOLEAN /\ chip.phase \in Phases
    BY <2>1 DEF ChipType
  <2> QED
    BY <2>1, <2>2, <2>3, <2>4, <2>5, Zenon DEF TypeOK, TypeInv, BusTypes, Phases
<1> QED
  BY Invariance, <1>1, PTL

(* Between two bus calls the bus is free and the chip waits for a START,   *)
(* also after the processor was reset in the middle of a byte: touch_init  *)
(* brings both together again.                                             *)
THEOREM BusIsFree == Spec => []BusFree
<1>1. Inv => BusFree
  <2> SUFFICES ASSUME Inv, Up, call = None
               PROVE  scl = 1 /\ SDA = 1 /\ chip.phase = "idle"
    BY DEF BusFree
  <2>1. Free
    BY NoCall
  <2> QED
    BY <2>1 DEF Free, SDA, Line
<1> QED
  BY Invariance, <1>1, PTL

(* In a call SDA changes under a high clock in sw_i2c_start and            *)
(* sw_i2c_stop only.                                                       *)
LEMMA FramesStep ==
  ASSUME Inv, Next, Up, Up', scl = 1, scl' = 1, SDA' # SDA
  PROVE  todo # <<>> /\ Current \in {Start, Stop}
<1>1. TypeInv /\ BusTypes /\ ChipInv /\ pc # "boot" /\ pc # "off" /\ pc' # "off"
  BY DEF Inv, TypeInv, Up
<1>2. sdaM' # sdaM \/ sdaC' # sdaC
  BY DEF SDA
<1>3. SetLine \/ Drive \/ ResetChip
  <2>1. ~TouchInit /\ ~Booted /\ ~Crash
    BY <1>1 DEF TouchInit, Booted, Crash
  <2>2. ~BeginCall /\ ~EndCall /\ ~TouchpadRead /\ ~Report
    BY <1>2 DEF BeginCall, Begin, EndCall, End, TouchpadRead, Report, i2cVars, wires
  <2>3. ~Wait /\ ~LookForAck /\ ~SampleBit /\ ~KeepByte /\ ~CheckAck
    BY <1>2 DEF Wait, LookForAck, SampleBit, KeepByte, CheckAck, wires
  <2> QED
    BY <2>1, <2>2, <2>3 DEF Next, Driver, MasterStep
<1>4. CASE call = None
  <2>1. todo = <<>> /\ Free
    BY <1>1, <1>4, NoCall
  <2> QED
    BY <1>3, <2>1 DEF SetLine, Drive, ChipDrives, ResetChip, At, Free, Still
<1>5. CASE call # None
  <2>1. PICK c \in DOMAIN CallOf : call = CallOf[c] /\ IsCall(CallOf[c]) /\ CallInv(CallOf[c])
    BY <1>5, CallOfPc
  <2> DEFINE k == CallOf[c]
  <2>2. IsCall(k) /\ CallInv(k) /\ call = k
    BY <2>1
  <2> HIDE DEF k
  <2>3. Settled /\ (todo # <<>> /\ Current \notin {Start, Stop} => Framed)
    BY <1>1, <2>2, CallSettled
  <2>4. sdaC = chip.want
    BY <2>3 DEF Settled
  <2>5. SetLine \/ ResetChip
    BY <1>3, <2>4 DEF Drive, ChipDrives
  <2>6. todo # <<>>
    BY <2>5 DEF SetLine, ResetChip, At
  <2>7. CASE ResetChip
    BY <1>5, <2>7, ResetBooting DEF ResetChip
  <2>8. CASE SetLine
    <3>1. sdaC' = sdaC
      BY <2>8 DEF SetLine
    <3>2. Op[1] = "sda"
      BY <1>2, <2>8, <3>1 DEF SetLine, At
    <3> QED
      BY <2>3, <2>6, <3>2 DEF Framed
  <2> QED
    BY <2>5, <2>7, <2>8
<1> QED
  BY <1>4, <1>5

(* Between start and stop, data changes only while the clock is low,       *)
(* whichever of master and chip changes it: no bit is taken for a START or *)
(* a STOP.                                                                 *)
THEOREM FramesAreKept == Spec => FramesOnly
<1>1. Inv /\ [Next]_vars =>
        [Up /\ Up' /\ scl = 1 /\ scl' = 1 /\ SDA' # SDA
           => todo # <<>> /\ Current \in {Start, Stop}]_vars
  BY FramesStep
<1> QED
  BY Invariance, <1>1, PTL DEF Spec, FramesOnly

-----------------------------------------------------------------------------
(***************************************************************************)
(* The calls implement RegisterBus.                                        *)
(***************************************************************************)
LEMMA UpIs == Up \in BOOLEAN /\ Up' \in BOOLEAN /\ (pc' = pc => Up' = Up)
BY DEF Up

(* touch_init and a reset of the processor take the bus down. *)
LEMMA GoesDown ==
  ASSUME Inv', pc' \in {"off", "boot"}
  PROVE  RB!GoDown
<1>1. Idle' /\ regs' \in [Address -> Byte] /\ deaf' \in BOOLEAN
  BY Pcs DEF Inv, RunInv, TypeInv, BusTypes
<1>2. Up' = FALSE
  BY DEF Up
<1>3. call' = None /\ data' = <<>> /\ moved' = <<>> /\ ~deaf'
  BY <1>1 DEF Idle, NoneYet
<1>4. deaf' = FALSE
  BY <1>1, <1>3
<1> QED
  BY <1>1, <1>2, <1>3, <1>4 DEF RB!GoDown

LEMMA NoEffect ==
  ASSUME Up' = Up, regs' = regs, call' = call, deaf' = deaf, moved' = moved, data' = data
  PROVE  UNCHANGED RB!vars
BY DEF RB!vars

LEMMA EffectIs ==
  ASSUME NEW k, IsCall(k), call = k, call' = call, Up' = Up, deaf' \in BOOLEAN, Effect(k)
  PROVE  [RB!Next]_(RB!vars)
<1>1. call # None /\ call.op = k.op /\ call.size = k.size /\ call.reg = k.reg /\ call = k
  BY DEF IsCall
<1>2. CASE Frozen /\ data' = data
  BY <1>2, NoEffect DEF Frozen
<1>3. CASE TurnsAway
  <2>1. deaf' = TRUE /\ moved = <<>> /\ data = <<>> /\ regs' = regs /\ moved' = moved /\ data' = data
    BY <1>3, Zenon DEF TurnsAway, NoneYet
  <2>2. RB!TurnDeaf
    BY <1>1, <2>1 DEF RB!TurnDeaf
  <2> QED
    BY <2>2 DEF RB!Next
<1>4. CASE Stores(k)
  <2>1. RB!Store
    BY <1>1, <1>4 DEF RB!Store, RB!Listening, Stores
  <2> QED
    BY <2>1 DEF RB!Next
<1>5. CASE FetchesNext(k)
  <2>1. RB!Fetch
    BY <1>1, <1>5 DEF RB!Fetch, RB!Listening, FetchesNext, Fetches
  <2> QED
    BY <2>1 DEF RB!Next
<1>6. CASE Delivers(k)
  <2>1. RB!Deliver
    BY <1>1, <1>6 DEF RB!Deliver, Delivers, Frozen
  <2> QED
    BY <2>1 DEF RB!Next
<1> QED
  BY <1>2, <1>3, <1>4, <1>5, <1>6 DEF Effect

(* Every step is one of RegisterBus, or none. *)
LEMMA StepImplements ==
  ASSUME Inv, Inv', [Next]_vars
  PROVE  [RB!Next]_(RB!vars)
<1>1. TypeInv /\ BusTypes /\ ChipInv /\ TypeInv' /\ BusTypes' /\ ChipInv'
  BY DEF Inv, TypeInv
<1>2. CASE pc' \in {"off", "boot"}
  BY <1>2, GoesDown DEF RB!Next
<1>3. CASE pc' \notin {"off", "boot"}
  <2>1. Up'
    BY <1>3 DEF Up
  <2>2. CASE TouchInit
    BY <1>3, <2>2 DEF TouchInit
  <2>3. CASE ResetChip
    <3>1. pc = "boot" /\ pc' = pc
      BY <2>3, ResetBooting DEF ResetChip
    <3> QED
      BY <1>3, <3>1
  <2>4. CASE Booted
    <3>1. ~Up /\ Up' = TRUE
      BY <2>1, <2>4, UpIs DEF Booted, Up
    <3>2. RB!ComeUp
      BY <2>4, <3>1 DEF Booted, i2cVars, RB!ComeUp
    <3> QED
      BY <3>2 DEF RB!Next
  <2>5. CASE BeginCall
    <3>1. /\ Up /\ call = None /\ call' # None /\ regs' = regs /\ deaf' = deaf /\ moved' = moved
          /\ data' = data
      BY <2>5, BeginCallStep
    <3>2. Up' = Up
      BY <2>1, <3>1, UpIs
    <3>3. RB!Request
      BY <3>1, <3>2 DEF RB!Request
    <3> QED
      BY <3>3 DEF RB!Next
  <2>6. CASE EndCall
    <3>1. /\ call # None /\ todo = <<>> /\ call' = None /\ data' = <<>> /\ deaf' = FALSE
          /\ moved' = <<>> /\ regs' = regs
      BY <2>6 DEF EndCall, End
    <3>2. Up' = Up
      BY <2>1, <2>6, EndCallStep, UpIs
    <3>3. PICK c \in DOMAIN CallOf : call = CallOf[c] /\ IsCall(CallOf[c]) /\ CallInv(CallOf[c])
      BY <3>1, CallOfPc
    <3> DEFINE k == CallOf[c]
    <3>4. IsCall(k) /\ CallInv(k) /\ call = k
      BY <3>3
    <3> HIDE DEF k
    <3>5. AllMoved(k)
      BY <3>1, <3>4, CallEnds
    <3>6. RB!Complete \/ (deaf /\ data = <<>>)
      BY <3>4, <3>5 DEF AllMoved, RB!Complete
    <3>7. RB!Return
      BY <3>1, <3>2, <3>6 DEF RB!Return
    <3> QED
      BY <3>7 DEF RB!Next
  <2>7. CASE MasterStep
    <3>1. Acts /\ pc' = pc
      BY <2>7 DEF MasterStep, Acts
    <3>2. todo # <<>> /\ Up' = Up
      BY <3>1, UpIs DEF Acts, SetLine, Wait, LookForAck, SampleBit, KeepByte, CheckAck, At
    <3>3. call # None
      BY <1>3, <3>1, <3>2, NoCall
    <3>4. PICK c \in DOMAIN CallOf : call = CallOf[c] /\ IsCall(CallOf[c]) /\ CallInv(CallOf[c])
      BY <3>3, CallOfPc
    <3> DEFINE k == CallOf[c]
    <3>5. IsCall(k) /\ CallInv(k) /\ call = k
      BY <3>4
    <3> HIDE DEF k
    <3>6. deaf' \in BOOLEAN /\ moved' \in Seq(Byte) /\ InCall
      BY <1>1, <3>2, <3>3 DEF BusTypes, InCall
    <3>7. call' = call /\ Effect(k)
      BY <1>1, <3>1, <3>5, <3>6, CallStep
    <3> QED
      BY <3>2, <3>5, <3>6, <3>7, EffectIs
  <2>8. CASE Drive
    BY <2>8, UpIs, NoEffect DEF Drive, ChipDrives, master, history
  <2>9. CASE TouchpadRead
    <3>1. Up' = Up
      BY <2>1, <2>9, UpIs DEF TouchpadRead, Up
    <3> QED
      BY <2>9, <3>1, NoEffect DEF TouchpadRead, i2cVars
  <2>10. CASE Report
    <3>1. /\ Up' = Up /\ call' = call /\ deaf' = deaf /\ moved' = moved /\ data' = data
      BY <2>10, UpIs DEF Report, master, history
    <3>2. regs' \in [Address -> Byte]
      BY <1>1 DEF BusTypes
    <3>3. \A a \in Address \ ({STATUS} \cup Point) : regs'[a] = regs[a]
      BY <2>10 DEF Report
    <3>4. RB!Report
      BY <3>1, <3>2, <3>3 DEF RB!Report
    <3> QED
      BY <3>4 DEF RB!Next
  <2>11. CASE Crash
    BY <1>3, <2>11 DEF Crash
  <2>12. CASE UNCHANGED vars
    BY <2>12, UpIs, NoEffect DEF vars
  <2> QED
    BY <2>2, <2>3, <2>4, <2>5, <2>6, <2>7, <2>8, <2>9, <2>10, <2>11, <2>12 DEF Next, Driver
<1> QED
  BY <1>2, <1>3

(* Bit by bit, the calls do what RegisterBus promises: bytes arrive whole, *)
(* in order and once, each register is the one meant, and a call the chip  *)
(* does not answer leaves the chip as it is, whatever the chip ignores and *)
(* whenever the processor is reset.                                        *)
THEOREM BusImplemented == Spec => ImplementsRegisterBus
<1>1. Init => RB!Init
  <2> SUFFICES ASSUME Init
               PROVE  RB!Init
    OBVIOUS
  <2>1. call = None /\ deaf = FALSE /\ moved = <<>> /\ data = <<>> /\ regs \in [Address -> Byte]
    BY DefaultsTyped DEF Init
  <2>2. Up = FALSE
    BY DEF Init, Up
  <2> QED
    BY <2>1, <2>2 DEF RB!Init
<1>2. Inv /\ Inv' /\ [Next]_vars => [RB!Next]_(RB!vars)
  BY StepImplements
<1> QED
  BY Invariance, <1>1, <1>2, PTL DEF Spec, ImplementsRegisterBus, RB!Spec
=============================================================================
