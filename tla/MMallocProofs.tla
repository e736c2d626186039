--------------------------- MODULE MMallocProofs ---------------------------
(***************************************************************************)
(* Proofs about the heap of mmalloc.c, for every heap size, alignment,     *)
(* header and word, every set of requests and every sequence of calls.     *)
(***************************************************************************)
EXTENDS MMalloc, FiniteSetTheorems, WellFoundedInduction, TLAPS

LEMMA Constants ==
  /\ Header \in Nat \ {0} /\ Alignment \in Nat \ {0} /\ HeapSize \in Nat
  /\ End \in Nat /\ HeapSize = End + Header /\ End >= 2 * Header
BY HeaderAssumption, AlignmentAssumption, HeapAssumption DEF End

(* Quotients and remainders. *)
LEMMA Quotient ==
  ASSUME NEW x \in Int, NEW m \in Nat \ {0}
  PROVE  /\ x \div m \in Int /\ x % m \in 0..(m - 1)
         /\ x = m * (x \div m) + (x % m)
<1> DEFINE q == x \div m
           r == x % m
<1>1. q \in Int /\ r \in 0..(m - 1)
  OBVIOUS
<1>2. x = q * m + r
  OBVIOUS
<1> HIDE DEF q, r
<1>3. x = m * q + r
  BY <1>1, <1>2
<1> QED
  BY <1>1, <1>3, Zenon DEF q, r

LEMMA SmallRemainder ==
  ASSUME NEW m \in Nat \ {0}, NEW x \in 0..(m - 1)
  PROVE  x % m = x
OBVIOUS

USE Constants DEF Start, Null

-----------------------------------------------------------------------------
(***************************************************************************)
(* Sets of addresses and walks along a list.                               *)
(***************************************************************************)

LEMMA LeastNat ==
  ASSUME NEW S \in SUBSET Nat, S # {}
  PROVE  \E m \in S : \A x \in S : m <= x
<1>1. PICK m \in S : \A x \in S : ~(<<x, m>> \in OpToRel(<, Nat))
  BY NatLessThanWellFounded, WFMin, Zenon
<1>2. \A x \in S : ~(x < m)
  BY <1>1 DEF OpToRel
<1> QED
  BY <1>2

(* A set of addresses has a greatest one. *)
LEMMA Greatest ==
  ASSUME NEW n \in Int, NEW S, \A x \in S : x \in Int /\ x <= n, S # {}
  PROVE  \E m \in S : \A x \in S : x <= m
<1> DEFINE D == {n - x : x \in S}
<1>1. D \in SUBSET Nat /\ D # {}
  OBVIOUS
<1>2. PICK d \in D : \A x \in D : d <= x
  BY <1>1, LeastNat
<1>3. PICK m \in S : d = n - m
  OBVIOUS
<1>4. \A x \in S : n - m <= n - x
  BY <1>2, <1>3
<1> QED
  BY <1>3, <1>4

(* What a walk may rely on: next leads to the next member of the list, if  *)
(* there is one, and never back.                                           *)
Ordered(h, list) ==
  \A p \in list : /\ p \in Int /\ p < End /\ h[p].next \in Int /\ h[p].next > p
                  /\ \A y \in list : y > p => h[p].next \in list /\ h[p].next <= y

(* A walk has a definite result. *)
Leads(h, list, on, f) == f = [p \in list |-> IF h[p].next \in on THEN f[h[p].next] ELSE p]

LEMMA WalkDefined ==
  ASSUME NEW h, NEW list, NEW on \in SUBSET list, Ordered(h, list)
  PROVE  \E f : Leads(h, list, on, f)
<1> DEFINE S(p) == {y \in list : y >= p /\ \A z \in list : p < z /\ z <= y => z \in on}
           Top(p, m) == m \in S(p) /\ \A y \in S(p) : y <= m
           F == [p \in list |-> CHOOSE m : Top(p, m)]
<1>1. ASSUME NEW p \in list
      PROVE  Top(p, F[p])
  <2>1. p \in S(p)
    BY DEF Ordered
  <2>2. \A y \in S(p) : y \in Int /\ y <= End
    BY DEF Ordered
  <2> HIDE DEF S
  <2>3. \E m : Top(p, m)
    BY <2>1, <2>2, Greatest
  <2> QED
    BY <2>3
<1>2. ASSUME NEW p \in list, NEW a, NEW b, Top(p, a), Top(p, b)
      PROVE  a = b
  <2>1. a \in list /\ b \in list /\ a <= b /\ b <= a
    BY <1>2
  <2>2. a \in Int /\ b \in Int
    BY <2>1 DEF Ordered
  <2> QED
    BY <2>1, <2>2
<1> HIDE DEF F
<1>3. ASSUME NEW p \in list
      PROVE  F[p] = IF h[p].next \in on THEN F[h[p].next] ELSE p
  <2> DEFINE q == h[p].next
  <2>1. CASE q \in on
    <3>1. q \in list /\ q > p /\ p \in Int /\ q \in Int
      BY <2>1 DEF Ordered
    <3>2. \A y \in list : y \in Int /\ (y > p => q <= y)
      BY DEF Ordered
    <3>3. S(q) = S(p) \ {p}
      <4>1. ASSUME NEW y \in S(q)
            PROVE  y \in S(p) \ {p}
        <5>1. y \in list /\ y >= q /\ y \in Int
          BY <3>2
        <5>2. ASSUME NEW z \in list, p < z, z <= y
              PROVE  z \in on
          <6>1. z = q \/ q < z
            BY <5>2, <3>1, <3>2
          <6> QED
            BY <6>1, <5>2, <2>1, <4>1
        <5>3. y >= p /\ y # p
          BY <5>1, <3>1
        <5>4. \A z \in list : p < z /\ z <= y => z \in on
          <6> HIDE DEF q
          <6> QED
            BY <5>2
        <5> QED
          BY <5>1, <5>3, <5>4, Zenon
      <4>2. ASSUME NEW y \in S(p) \ {p}
            PROVE  y \in S(q)
        <5>1. y \in list /\ y \in Int /\ y # p /\ y >= p
          BY <3>1, <3>2
        <5>3. y > p /\ y >= q
          BY <5>1, <3>1, <3>2
        <5>2. ASSUME NEW z \in list, q < z, z <= y
              PROVE  z \in on
          BY <5>2, <3>1, <3>2
        <5>5. \A z \in list : q < z /\ z <= y => z \in on
          <6> HIDE DEF q
          <6> QED
            BY <5>2
        <5> QED
          BY <5>1, <5>3, <5>5, Zenon
      <4> QED
        BY <4>1, <4>2
    <3>4. Top(q, F[q])
      BY <3>1, <1>1
    <3>5. F[q] >= q /\ F[q] \in Int
      BY <3>4, <3>2
    <3>6. Top(p, F[q])
      BY <3>1, <3>3, <3>4, <3>5
    <3> HIDE DEF Top
    <3> QED
      BY <3>6, <1>1, <1>2, <2>1
  <2>2. CASE q \notin on
    <3>1. q > p /\ p \in Int /\ q \in Int
      BY DEF Ordered
    <3>2. \A y \in list : y \in Int /\ (y > p => q \in list /\ q <= y)
      BY DEF Ordered
    <3>3. S(p) = {p}
      <4>1. ASSUME NEW y \in S(p), y # p
            PROVE  FALSE
        <5>1. y \in list /\ y \in Int /\ y > p
          BY <4>1, <3>1, <3>2
        <5>2. q \in list /\ q <= y /\ p < q
          BY <5>1, <3>1, <3>2
        <5>3. q \in on
          BY <5>2
        <5> QED
          BY <5>3, <2>2
      <4>2. p \in S(p)
        BY <3>1, <3>2
      <4> QED
        BY <4>1, <4>2
    <3>4. Top(p, p)
      BY <3>1, <3>3
    <3> HIDE DEF Top
    <3> QED
      BY <3>4, <1>1, <1>2, <2>2
  <2> QED
    BY <2>1, <2>2
<1>4. F = [p \in list |-> F[p]]
  BY DEF F
<1>5. Leads(h, list, on, F)
  BY <1>3, <1>4 DEF Leads
<1> QED
  BY <1>5

(* It stops where the next block is not one of on, and has passed only     *)
(* blocks of on.                                                           *)
LEMMA WalkStops ==
  ASSUME NEW h, NEW list, NEW on \in SUBSET list, Ordered(h, list), Start \in list
  PROVE  /\ Walk(h, list, on) \in list /\ Walk(h, list, on) >= Start
         /\ h[Walk(h, list, on)].next \notin on
         /\ \A z \in list : Start < z /\ z <= Walk(h, list, on) => z \in on
<1> DEFINE f == CHOOSE g : g = [p \in list |-> IF h[p].next \in on THEN g[h[p].next] ELSE p]
           Good(p) == /\ f[p] \in list /\ f[p] >= p /\ h[f[p]].next \notin on
                      /\ \A z \in list : p < z /\ z <= f[p] => z \in on
           T == {p \in list : ~Good(p)}
<1>1. f = [p \in list |-> IF h[p].next \in on THEN f[h[p].next] ELSE p]
  <2>1. \E g : Leads(h, list, on, g)
    BY WalkDefined
  <2> QED
    BY <2>1, Zenon DEF Leads
<1>2. Walk(h, list, on) = f[Start]
  BY DEF Walk
<1> HIDE DEF f
<1>3. \A p \in list : f[p] = IF h[p].next \in on THEN f[h[p].next] ELSE p
  BY <1>1
<1>4. \A p \in list : p \in Int /\ h[p].next \in Int /\ h[p].next > p
  BY DEF Ordered
<1>5. T = {}
  <2> SUFFICES ASSUME T # {}
               PROVE  FALSE
    OBVIOUS
  <2>1. \A p \in T : p \in Int /\ p <= End
    BY <1>4 DEF Ordered
  <2>2. PICK t \in T : \A p \in T : p <= t
    <3> HIDE DEF T
    <3> QED
      BY <2>1, Greatest
  <2>3. t \in list /\ t \in Int /\ ~Good(t)
    BY <2>2, <1>4
  <2>4. CASE h[t].next \notin on
    <3>1. f[t] = t
      BY <2>3, <2>4, <1>3
    <3> QED
      BY <2>3, <2>4, <3>1, <1>4
  <2>5. CASE h[t].next \in on
    <3> DEFINE q == h[t].next
    <3>1. q \in list /\ q \in Int /\ q > t
      BY <2>3, <2>5, <1>4
    <3>2. f[t] = f[q]
      BY <2>3, <2>5, <1>3
    <3>3. Good(q)
      BY <3>1, <2>2, <2>3
    <3>4. f[q] \in Int
      BY <3>3, <1>4
    <3>5. ASSUME NEW z \in list, t < z, z <= f[q]
          PROVE  z \in on
      <4>1. q <= z /\ z \in Int
        BY <3>5, <2>3 DEF Ordered
      <4> QED
        BY <4>1, <3>1, <3>3, <3>5, <2>5
    <3>6. Good(t)
      BY <2>3, <3>1, <3>2, <3>3, <3>4, <3>5
    <3> QED
      BY <2>3, <3>6
  <2> QED
    BY <2>4, <2>5
<1>6. Good(Start)
  BY <1>5
<1> QED
  BY <1>2, <1>6

-----------------------------------------------------------------------------
(***************************************************************************)
(* The heap as a value: its headers, and the heap with one free block that *)
(* is not yet linked in, as prvmInsertBlockIntoFreeList finds it.          *)
(***************************************************************************)
Shaped(h) ==
  /\ {Start, End} \subseteq DOMAIN h /\ DOMAIN h \subseteq Start..End
  /\ h = [x \in DOMAIN h |-> h[x]]
  /\ \A x \in DOMAIN h : h[x] \in [next : Int, size : Nat, used : BOOLEAN]
  /\ h[Start].size = 0 /\ h[End].size = 0

(* The free blocks but b, by rising address, as a list. *)
ListedBut(h, b) ==
  /\ \A x \in List(h) \ {b} :
       /\ h[x].next \in (FreeSet(h) \ {b}) \cup {End}
       /\ h[x].next > x
       /\ \A y \in FreeSet(h) \ {b} : ~(x < y /\ y < h[x].next)
  /\ \A x \in Used(h) \cup {End} : h[x].next = Null

MergedBut(h, b) == \A x \in FreeSet(h) \ {b} : Follows(h, x) \notin FreeSet(h) \ {b}

Loose(h, b) ==
  Shaped(h) /\ Tiled(h) /\ b \in FreeSet(h) /\ ListedBut(h, b) /\ MergedBut(h, b)

(* Blocks lie in front of pxEnd, and those of the list behind xStart. *)
LEMMA Addresses ==
  ASSUME NEW h, Shaped(h)
  PROVE  /\ \A x \in Blocks(h) : x \in Nat /\ x < End
         /\ \A x \in List(h) : x \in Int /\ x >= Start /\ x < End
         /\ \A x \in List(h) : x # Start => x \in Blocks(h) /\ x > Start
         /\ FreeSet(h) = List(h) \ {Start}
         /\ FreeSet(h) \subseteq Blocks(h)
         /\ Blocks(h) \subseteq DOMAIN h
BY DEF Shaped, Blocks, List, FreeSet, Used

(* Two blocks with the same end are one. *)
LEMMA SameEnd ==
  ASSUME NEW h, Shaped(h), Tiled(h), NEW x \in Blocks(h), NEW y \in Blocks(h),
         Follows(h, x) = Follows(h, y)
  PROVE  x = y
<1>1. x \in Nat /\ y \in Nat /\ h[x].size \in Nat /\ h[y].size \in Nat
  BY DEF Shaped, Blocks
<1>2. h[x].size > 0 /\ h[y].size > 0
  BY <1>1 DEF Tiled
<1>3. ~(x < y /\ y < Follows(h, x)) /\ ~(y < x /\ x < Follows(h, y))
  BY DEF Tiled
<1> QED
  BY <1>1, <1>2, <1>3 DEF Follows

(* The place where a loose block goes: between two neighbours of the list. *)
Between(h, b, p, above) ==
  /\ p \in List(h) \ {b} /\ p < b
  /\ above \in (FreeSet(h) \ {b}) \cup {End} /\ b < above
  /\ above = h[p].next
  /\ \A y \in FreeSet(h) \ {b} : y <= p \/ y >= above

LEMMA InsertionPointBetween ==
  ASSUME NEW h, NEW b, Loose(h, b)
  PROVE  LET p == InsertionPoint(h, b) IN Between(h, b, p, h[p].next)
<1> DEFINE L == List(h) \ {b}
           on == {x \in L : x < b}
           p == Walk(h, L, on)
<1>1. Shaped(h) /\ b \in FreeSet(h) /\ b \in Nat /\ b < End
  BY Addresses DEF Loose
<1>2. \A x \in L : x \in Int /\ x < End /\ x >= Start
  BY <1>1, Addresses
<1>3. \A x \in L : h[x].next \in L \cup {End} /\ h[x].next \in Int /\ h[x].next > x
  BY <1>1, <1>2 DEF Loose, ListedBut, List
<1>4. ASSUME NEW x \in L, NEW y \in L, y > x
      PROVE  h[x].next \in L /\ h[x].next <= y
  <2>1. y \in FreeSet(h) \ {b}
    BY <1>2, <1>4, <1>1, Addresses
  <2>2. ~(x < y /\ y < h[x].next)
    BY <2>1 DEF Loose, ListedBut
  <2> QED
    BY <2>2, <1>2, <1>3, <1>4
<1>5. Ordered(h, L)
  BY <1>2, <1>3, <1>4 DEF Ordered
<1>6. Start \in L
  BY <1>1 DEF List
<1>7. /\ p \in L /\ p >= Start /\ h[p].next \notin on
      /\ \A z \in L : Start < z /\ z <= p => z \in on
  <2>1. on \in SUBSET L
    OBVIOUS
  <2> HIDE DEF L, on, p
  <2>2. /\ Walk(h, L, on) \in L /\ Walk(h, L, on) >= Start
        /\ h[Walk(h, L, on)].next \notin on
        /\ \A z \in L : Start < z /\ z <= Walk(h, L, on) => z \in on
    BY <2>1, <1>5, <1>6, WalkStops
  <2> QED
    BY <2>2 DEF p
<1>8. InsertionPoint(h, b) = p
  BY DEF InsertionPoint
<1> HIDE DEF p
<1>9. p < b
  BY <1>1, <1>2, <1>7
<1>10. h[p].next > b /\ h[p].next \in (FreeSet(h) \ {b}) \cup {End}
  <2>1. h[p].next \in (FreeSet(h) \ {b}) \cup {End}
    BY <1>7 DEF Loose, ListedBut
  <2>2. h[p].next # b
    BY <2>1, <1>1
  <2> QED
    BY <2>1, <2>2, <1>1, <1>2, <1>3, <1>7
<1>11. ASSUME NEW y \in FreeSet(h) \ {b}
       PROVE  y <= p \/ y >= h[p].next
  <2>1. y \in L /\ p \in Int /\ y \in Int /\ h[p].next \in Int
    BY <1>2, <1>3, <1>7 DEF List
  <2> QED
    BY <2>1, <1>4, <1>7
<1> QED
  BY <1>7, <1>8, <1>9, <1>10, <1>11 DEF Between


-----------------------------------------------------------------------------
(***************************************************************************)
(* prvmInsertBlockIntoFreeList: what it does to a heap with a loose block. *)
(***************************************************************************)
Below(h, b, p)     == Follows(h, p) = b
Joins(h, b, above) == Follows(h, b) = above /\ above # End
Place(h, b, p)     == IF Below(h, b, p) THEN p ELSE b
Gone(h, b, p, above) ==
  (IF Below(h, b, p) THEN {b} ELSE {}) \cup (IF Joins(h, b, above) THEN {above} ELSE {})

(* What every header of the new heap g holds. *)
LinkedIn(h, b, p, above, g) ==
  /\ DOMAIN g = DOMAIN h \ Gone(h, b, p, above)
  /\ g = [x \in DOMAIN g |-> g[x]]
  /\ g[Place(h, b, p)].used = FALSE
  /\ g[Place(h, b, p)].next = IF Joins(h, b, above) THEN h[above].next ELSE above
  /\ Follows(g, Place(h, b, p)) =
       IF Joins(h, b, above) THEN Follows(h, above) ELSE Follows(h, b)
  /\ \A x \in DOMAIN g :
       /\ g[x] \in [next : Int, size : Nat, used : BOOLEAN]
       /\ x # Place(h, b, p) /\ x # p => g[x] = h[x]
       /\ x # Place(h, b, p) /\ x = p =>
            g[x].next = b /\ g[x].size = h[x].size /\ g[x].used = h[x].used

LEMMA InsertLinksIn ==
  ASSUME NEW h, NEW b, Loose(h, b),
         NEW p, p = InsertionPoint(h, b), NEW above, above = h[p].next
  PROVE  LinkedIn(h, b, p, above, Insert(h, b))
<1> DEFINE size == IF Below(h, b, p) THEN h[p].size + h[b].size ELSE h[b].size
           join == Place(h, b, p) + size = above /\ above # End
           block == [next |-> IF join THEN h[above].next ELSE above,
                     size |-> IF join THEN size + h[above].size ELSE size,
                     used |-> FALSE]
           g == Insert(h, b)
<1>1. Shaped(h) /\ b \in FreeSet(h)
  BY DEF Loose
<1>2. Between(h, b, p, above)
  BY InsertionPointBetween
<1>3. /\ p \in List(h) /\ p < b /\ b < above /\ p \in Int /\ b \in Nat /\ above \in Int
      /\ b \in DOMAIN h /\ p \in DOMAIN h /\ above \in DOMAIN h /\ b < End /\ b # End
      /\ p # End /\ End \in DOMAIN h
  BY <1>1, <1>2, Addresses DEF Between, List, Shaped, FreeSet, Blocks
<1>4. /\ h[b] \in [next : Int, size : Nat, used : BOOLEAN]
      /\ h[p] \in [next : Int, size : Nat, used : BOOLEAN]
      /\ h[above] \in [next : Int, size : Nat, used : BOOLEAN]
  BY <1>1, <1>3 DEF Shaped
<1>5. size \in Nat /\ Place(h, b, p) \in Int /\ Place(h, b, p) + size = Follows(h, b)
  BY <1>3, <1>4 DEF Place, Below, Follows
<1>6. join = Joins(h, b, above)
  BY <1>5 DEF Joins
<1>7. Place(h, b, p) \in DOMAIN h \ Gone(h, b, p, above)
  BY <1>3 DEF Place, Gone
<1>8. g = [x \in DOMAIN h \ Gone(h, b, p, above) |->
             IF x = Place(h, b, p) THEN block
             ELSE IF x = p THEN [h[p] EXCEPT !.next = Place(h, b, p)] ELSE h[x]]
  <2>1. Gone(h, b, p, above) = (IF Below(h, b, p) THEN {b} ELSE {}) \cup (IF join THEN {above} ELSE {})
    BY <1>6 DEF Gone
  <2> QED
    BY <2>1, Zenon DEF Insert, Below, Place
<1> HIDE DEF g, size
<1>9. block \in [next : Int, size : Nat, used : BOOLEAN]
  BY <1>4, <1>5, <1>3
<1>10. g[Place(h, b, p)] = block
  BY <1>7, <1>8
<1>11. DOMAIN g = DOMAIN h \ Gone(h, b, p, above) /\ g = [x \in DOMAIN g |-> g[x]]
  BY <1>8
<1>12. block.size = IF Joins(h, b, above) THEN size + h[above].size ELSE size
  BY <1>6
<1>13. Follows(g, Place(h, b, p)) =
         IF Joins(h, b, above) THEN Follows(h, above) ELSE Follows(h, b)
  <2> HIDE DEF block
  <2>1. Follows(g, Place(h, b, p)) = Place(h, b, p) + block.size
    BY <1>10 DEF Follows
  <2>2. CASE Joins(h, b, above)
    <3>1. block.size = size + h[above].size /\ Follows(h, b) = above
      BY <2>2, <1>12 DEF Joins
    <3>2. Place(h, b, p) + (size + h[above].size) = above + h[above].size
      BY <3>1, <1>4, <1>5
    <3> QED
      BY <2>1, <2>2, <3>1, <3>2 DEF Follows
  <2>3. CASE ~Joins(h, b, above)
    BY <2>1, <2>3, <1>12, <1>5
  <2> QED
    BY <2>2, <2>3
<1>14. block.next = (IF Joins(h, b, above) THEN h[above].next ELSE above) /\ block.used = FALSE
  BY <1>6
<1>15. ASSUME NEW x \in DOMAIN g
       PROVE  /\ g[x] \in [next : Int, size : Nat, used : BOOLEAN]
              /\ x # Place(h, b, p) /\ x # p => g[x] = h[x]
              /\ x # Place(h, b, p) /\ x = p =>
                   g[x].next = b /\ g[x].size = h[x].size /\ g[x].used = h[x].used
  <2>1. CASE x = Place(h, b, p)
    BY <2>1, <1>9, <1>10
  <2>2. CASE x # Place(h, b, p) /\ x # p
    BY <2>2, <1>8, <1>11, <1>1 DEF Shaped
  <2>3. CASE x # Place(h, b, p) /\ x = p
    <3>1. g[x] = [h[p] EXCEPT !.next = b]
      BY <2>3, <1>8, <1>11 DEF Place
    <3> QED
      BY <3>1, <1>3, <1>4, <2>3
  <2> QED
    BY <2>1, <2>2, <2>3
<1> QED
  <2> HIDE DEF block
  <2> QED
    BY <1>10, <1>11, <1>13, <1>14, <1>15 DEF LinkedIn, g


Situation(h, b, p, above, g) ==
  Loose(h, b) /\ Between(h, b, p, above) /\ LinkedIn(h, b, p, above, g)

(* Who is who: the neighbours, and what is left of the sets of blocks. *)
LEMMA LinkedSets ==
  ASSUME NEW h, NEW b, NEW p, NEW above, NEW g, Situation(h, b, p, above, g)
  PROVE  /\ Shaped(h) /\ Shaped(g)
         /\ b \in Nat /\ b < End /\ b \in FreeSet(h)
         /\ p \in Int /\ p < b /\ p \in List(h) \ {b}
         /\ above \in Int /\ b < above /\ above \in (FreeSet(h) \ {b}) \cup {End}
         /\ Below(h, b, p) => p \in FreeSet(h)
         /\ Joins(h, b, above) => above \in FreeSet(h)
         /\ Gone(h, b, p, above) \subseteq FreeSet(h)
         /\ Blocks(g) = Blocks(h) \ Gone(h, b, p, above)
         /\ FreeSet(g) = FreeSet(h) \ Gone(h, b, p, above)
         /\ Used(g) = Used(h)
         /\ Place(h, b, p) \in FreeSet(g)
         /\ \A x \in Used(h) : g[x] = h[x]
<1> DEFINE at == Place(h, b, p)
           gone == Gone(h, b, p, above)
<1>1. Shaped(h) /\ b \in FreeSet(h) /\ b \in Nat /\ b < End
  BY Addresses DEF Situation, Loose
<1>2. /\ p \in Int /\ p < b /\ p \in List(h) \ {b} /\ p >= Start
      /\ above \in Int /\ b < above /\ above \in (FreeSet(h) \ {b}) \cup {End}
  BY <1>1, Addresses DEF Situation, Between, List
<1>3. Below(h, b, p) => p \in FreeSet(h)
  <2>1. p = Start => Follows(h, p) = Start
    BY <1>1 DEF Follows, Shaped
  <2> QED
    BY <2>1, <1>1, <1>2 DEF Below, List
<1>4. Joins(h, b, above) => above \in FreeSet(h)
  BY <1>2 DEF Joins
<1>5. gone \subseteq FreeSet(h) /\ at \in FreeSet(h) \ gone
  BY <1>1, <1>2, <1>3, <1>4 DEF Gone, Place
<1>6. /\ Start \in DOMAIN h /\ End \in DOMAIN h /\ DOMAIN h \subseteq Start..End
      /\ Start \notin FreeSet(h) /\ End \notin FreeSet(h)
  BY <1>1 DEF Shaped, FreeSet, Blocks
<1>7. /\ DOMAIN g = DOMAIN h \ gone
      /\ g = [x \in DOMAIN g |-> g[x]]
      /\ g[at].used = FALSE
      /\ \A x \in DOMAIN g :
           /\ g[x] \in [next : Int, size : Nat, used : BOOLEAN]
           /\ x # at /\ x # p => g[x] = h[x]
           /\ x # at /\ x = p => g[x].size = h[x].size /\ g[x].used = h[x].used
  BY DEF Situation, LinkedIn
<1> HIDE DEF at, gone
<1>8. Blocks(g) = Blocks(h) \ gone
  BY <1>7 DEF Blocks
<1>9. \A x \in Blocks(g) : g[x].used = h[x].used
  <2>1. h[at].used = FALSE
    <3>1. h[at].used \in BOOLEAN
      BY <1>1, <1>5 DEF Shaped, FreeSet, Blocks
    <3> QED
      BY <3>1, <1>5 DEF FreeSet, Used
  <2> QED
    BY <2>1, <1>7 DEF Blocks
<1>10. Used(g) = Used(h)
  <2>1. Used(h) \cap gone = {}
    BY <1>5 DEF FreeSet
  <2> QED
    BY <2>1, <1>8, <1>9 DEF Used
<1>11. FreeSet(g) = FreeSet(h) \ gone
  BY <1>8, <1>10 DEF FreeSet
<1>12. \A x \in Used(h) : g[x] = h[x]
  <2>1. ASSUME NEW x \in Used(h)
        PROVE  x \in DOMAIN g /\ x # at /\ x # p
    <3>1. x \in Used(g) /\ x \notin FreeSet(h) /\ x # Start
      BY <2>1, <1>10 DEF FreeSet, Used, Blocks
    <3> QED
      BY <3>1, <1>2, <1>5 DEF Used, Blocks, List
  <2> QED
    BY <2>1, <1>7
<1>13. Shaped(g)
  <2>1. Start \in DOMAIN g /\ End \in DOMAIN g /\ DOMAIN g \subseteq Start..End
    BY <1>5, <1>6, <1>7
  <2>2. g[Start].size = h[Start].size /\ g[End].size = h[End].size
    BY <2>1, <1>5, <1>6, <1>7
  <2> QED
    BY <2>1, <2>2, <1>1, <1>7 DEF Shaped
<1> QED
  BY <1>1, <1>2, <1>3, <1>4, <1>5, <1>8, <1>10, <1>11, <1>12, <1>13 DEF at, gone

(* Blocks other than the merged one keep their end. *)
LEMMA LinkedEnds ==
  ASSUME NEW h, NEW b, NEW p, NEW above, NEW g, Situation(h, b, p, above, g)
  PROVE  /\ Follows(g, Place(h, b, p)) =
              IF Joins(h, b, above) THEN Follows(h, above) ELSE Follows(h, b)
         /\ \A x \in DOMAIN g :
              x # Place(h, b, p) => g[x].size = h[x].size /\ Follows(g, x) = Follows(h, x)
<1>1. ASSUME NEW x \in DOMAIN g, x # Place(h, b, p)
      PROVE  g[x].size = h[x].size
  BY <1>1 DEF Situation, LinkedIn
<1> QED
  BY <1>1 DEF Follows, Situation, LinkedIn

LEMMA InsertKeepsTiles ==
  ASSUME NEW h, NEW b, NEW p, NEW above, NEW g, Situation(h, b, p, above, g)
  PROVE  Tiled(g)
<1> DEFINE at == Place(h, b, p)
           gone == Gone(h, b, p, above)
<1>1. /\ Shaped(h) /\ Tiled(h)
      /\ Blocks(g) = Blocks(h) \ gone
      /\ at \in Blocks(g) /\ Blocks(g) \subseteq DOMAIN g /\ gone \subseteq Blocks(h)
      /\ b \in Blocks(h) /\ b \in Nat
      /\ p \in Int /\ p < b /\ above \in Int /\ b < above
      /\ Below(h, b, p) => p \in Blocks(h)
      /\ Joins(h, b, above) => above \in Blocks(h)
  BY LinkedSets DEF FreeSet, Blocks, Situation, Loose
<1>2. \A x \in Blocks(h) :
        /\ x \in Nat /\ x < End /\ h[x].size \in Nat
        /\ x % Alignment = 0 /\ h[x].size > Header
        /\ Follows(h, x) \in Blocks(h) \cup {End}
        /\ \A y \in Blocks(h) : ~(x < y /\ y < Follows(h, x))
  BY <1>1, Addresses DEF Tiled, Shaped
<1>3. \A x \in Blocks(h) : Follows(h, x) \in Nat /\ x < Follows(h, x)
  BY <1>2 DEF Follows
<1>4. 0 \in Blocks(g)
  <2>1. 0 \in Blocks(h)
    BY <1>1 DEF Tiled
  <2>2. Below(h, b, p) => b # 0
    BY <1>1, <1>2
  <2> QED
    BY <2>1, <2>2, <1>1 DEF Gone
<1>5. ASSUME NEW x \in Blocks(g), x # at
      PROVE  /\ g[x].size > Header
             /\ Follows(g, x) \in Blocks(g) \cup {End}
             /\ \A y \in Blocks(g) : ~(x < y /\ y < Follows(g, x))
  <2>1. g[x].size = h[x].size /\ Follows(g, x) = Follows(h, x) /\ x \in Blocks(h)
    BY <1>1, <1>5, LinkedEnds
  <2>2. Follows(h, x) \notin gone
    <3>1. SUFFICES ASSUME Follows(h, x) \in gone
                   PROVE  FALSE
      OBVIOUS
    <3>2. CASE Below(h, b, p) /\ Follows(h, x) = b
      <4>1. x = p
        BY <3>2, <2>1, <1>1, SameEnd DEF Below
      <4> QED
        BY <4>1, <3>2, <1>5 DEF Place
    <3>3. CASE Joins(h, b, above) /\ Follows(h, x) = above
      <4>1. x = b
        BY <3>3, <2>1, <1>1, SameEnd DEF Joins
      <4> QED
        BY <4>1, <1>1, <1>5 DEF Place, Gone
    <3> QED
      BY <3>1, <3>2, <3>3 DEF Gone
  <2> QED
    BY <2>1, <2>2, <1>1, <1>2
<1>6. ASSUME Joins(h, b, above)
      PROVE  /\ Follows(g, at) \in Blocks(g) \cup {End}
             /\ \A y \in Blocks(g) : ~(at < y /\ y < Follows(g, at))
  <2>1. Follows(g, at) = Follows(h, above) /\ Follows(h, b) = above /\ above \in Blocks(h)
    BY <1>6, <1>1, LinkedEnds DEF Joins
  <2>2. above \in gone /\ Follows(h, above) > above
    BY <1>6, <2>1, <1>3 DEF Gone
  <2>3. Follows(h, above) \notin gone
    BY <2>1, <2>2, <1>1, <1>3 DEF Gone
  <2>4. ASSUME NEW y \in Blocks(g), at < y, y < Follows(g, at)
        PROVE  FALSE
    <3>1. y \in Blocks(h) /\ y \notin gone /\ y \in Nat
      BY <1>1, <1>2
    <3>2. y # above /\ ~(y > above)
      BY <3>1, <2>1, <2>2, <2>4, <1>2
    <3>3. ~(b < y)
      BY <3>1, <3>2, <2>1, <1>1, <1>2
    <3>4. CASE Below(h, b, p)
      BY <3>1, <3>3, <3>4, <2>4, <1>1, <1>2 DEF Below, Gone, Place
    <3>5. CASE ~Below(h, b, p)
      BY <3>3, <3>5, <2>4 DEF Place
    <3> QED
      BY <3>4, <3>5
  <2>5. Follows(g, at) \in Blocks(g) \cup {End}
    BY <2>1, <2>3, <1>1, <1>2
  <2> QED
    BY <2>4, <2>5
<1>7. ASSUME ~Joins(h, b, above)
      PROVE  /\ Follows(g, at) \in Blocks(g) \cup {End}
             /\ \A y \in Blocks(g) : ~(at < y /\ y < Follows(g, at))
  <2>1. Follows(g, at) = Follows(h, b)
    BY <1>7, LinkedEnds
  <2>2. Follows(h, b) \notin gone
    BY <1>1, <1>3, <1>7 DEF Gone
  <2>3. ASSUME NEW y \in Blocks(g), at < y, y < Follows(g, at)
        PROVE  FALSE
    <3>1. y \in Blocks(h) /\ y \notin gone /\ y \in Nat /\ ~(b < y)
      BY <2>1, <2>3, <1>1, <1>2
    <3>2. CASE Below(h, b, p)
      BY <3>1, <3>2, <2>3, <1>1, <1>2 DEF Below, Gone, Place
    <3>3. CASE ~Below(h, b, p)
      BY <3>1, <3>3, <2>3 DEF Place
    <3> QED
      BY <3>2, <3>3
  <2> QED
    BY <2>1, <2>2, <2>3, <1>1, <1>2
<1>8. g[at].size > Header
  <2>1. g[at].size \in Nat /\ at \in Nat /\ at <= b
    BY <1>1, <1>2 DEF Situation, LinkedIn, Place
  <2>2. Follows(g, at) >= Follows(h, b)
    BY <1>1, <1>3, LinkedEnds DEF Joins
  <2>3. Follows(g, at) = at + g[at].size /\ Follows(h, b) = b + h[b].size
    BY DEF Follows
  <2> QED
    BY <2>1, <2>2, <2>3, <1>1, <1>2
<1> QED
  BY <1>1, <1>2, <1>4, <1>5, <1>6, <1>7, <1>8 DEF Tiled


LEMMA Neighbours ==
  ASSUME NEW h, NEW b, NEW p, NEW above, NEW g, Situation(h, b, p, above, g)
  PROVE  /\ p \in (FreeSet(h) \ {b}) \cup {Start}
         /\ Below(h, b, p) => p \in FreeSet(h) \ {b}
         /\ Joins(h, b, above) => above \in FreeSet(h) \ {b}
         /\ above = h[p].next
         /\ \A y \in FreeSet(h) \ {b} : y <= p \/ y >= above
         /\ FreeSet(g) \subseteq DOMAIN g
<1>1. p \in (FreeSet(h) \ {b}) \cup {Start}
  BY LinkedSets DEF List
<1>2. Below(h, b, p) => p \in FreeSet(h) \ {b}
  BY LinkedSets
<1>3. Joins(h, b, above) => above \in FreeSet(h) \ {b}
  BY LinkedSets
<1>4. above = h[p].next /\ \A y \in FreeSet(h) \ {b} : y <= p \/ y >= above
  BY DEF Situation, Between
<1>5. FreeSet(g) \subseteq DOMAIN g
  BY DEF FreeSet, Blocks
<1> QED
  BY <1>1, <1>2, <1>3, <1>4, <1>5

LEMMA InsertKeepsList ==
  ASSUME NEW h, NEW b, NEW p, NEW above, NEW g, Situation(h, b, p, above, g)
  PROVE  Listed(g)
<1> DEFINE at == Place(h, b, p)
           gone == Gone(h, b, p, above)
           F == FreeSet(h) \ {b}
<1>1. /\ Shaped(h) /\ FreeSet(g) = FreeSet(h) \ gone /\ Used(g) = Used(h)
      /\ at \in FreeSet(g) /\ FreeSet(g) \subseteq DOMAIN g
      /\ b \in Nat /\ b < End /\ b \in FreeSet(h)
      /\ p \in Int /\ p < b /\ p \in List(h) \ {b}
      /\ above \in Int /\ b < above /\ above \in F \cup {End}
      /\ Below(h, b, p) => p \in F
      /\ Joins(h, b, above) => above \in F
      /\ \A y \in F : y <= p \/ y >= above
      /\ above = h[p].next
  BY LinkedSets, Neighbours
<1>2. \A x \in List(h) : x \in Int /\ x >= Start /\ x < End
  BY <1>1, Addresses
<1>3. \A x \in List(h) \ {b} :
        /\ h[x].next \in F \cup {End} /\ h[x].next > x /\ h[x].next \in Int
        /\ \A y \in F : ~(x < y /\ y < h[x].next)
  <2>1. F \subseteq List(h)
    BY DEF List
  <2> QED
    BY <1>2, <2>1 DEF Situation, Loose, ListedBut
<1>4. /\ g[at].next = IF Joins(h, b, above) THEN h[above].next ELSE above
      /\ \A x \in DOMAIN g : x # at /\ x # p => g[x] = h[x]
      /\ p \in DOMAIN g /\ p # at => g[p].next = b
  BY DEF Situation, LinkedIn
<1>5. Start \in DOMAIN g /\ End \in DOMAIN g /\ at # End /\ p # End /\ Start \notin FreeSet(h)
  <2>1. Shaped(g)
    BY LinkedSets
  <2> QED
    BY <2>1, <1>1, <1>2 DEF Shaped, FreeSet, Blocks
<1>6. FreeSet(g) \subseteq FreeSet(h) /\ F \subseteq List(h) /\ List(h) = F \cup {b, Start}
  BY <1>1 DEF List
<1>7. ASSUME NEW x \in FreeSet(g) \cup {Start}, x # at, x # p
      PROVE  /\ g[x].next \in FreeSet(g) \cup {End} /\ g[x].next > x
             /\ \A y \in FreeSet(g) : ~(x < y /\ y < g[x].next)
  <2>1. x \in List(h) \ {b} /\ g[x] = h[x]
    BY <1>1, <1>4, <1>5, <1>6, <1>7 DEF Place, Gone
  <2>2. x \in Int /\ x >= Start /\ (x < p \/ x >= above)
    <3>1. x \in F \/ x = Start
      BY <2>1, <1>6
    <3> QED
      BY <3>1, <2>1, <1>1, <1>2, <1>7
  <2>3. (x < p /\ h[x].next <= p) \/ (x >= above /\ h[x].next > above)
    <3>1. CASE x < p
      <4>1. p \in F
        BY <3>1, <2>2, <1>1, <1>2, <1>6
      <4> QED
        BY <4>1, <3>1, <2>1, <2>2, <1>1, <1>3
    <3>2. CASE x >= above
      BY <3>2, <2>1, <2>2, <1>1, <1>3
    <3> QED
      BY <2>2, <3>1, <3>2
  <2>4. h[x].next \notin gone
    <3>1. h[x].next # b /\ h[x].next # above
      BY <2>1, <2>3, <1>1, <1>3
    <3> QED
      BY <3>1 DEF Gone
  <2>5. ~(x < b /\ b < h[x].next)
    BY <2>1, <2>2, <2>3, <1>1, <1>3
  <2>6. g[x].next \in FreeSet(g) \cup {End} /\ g[x].next > x
    BY <2>1, <2>4, <1>1, <1>3
  <2>7. ASSUME NEW y \in FreeSet(g)
        PROVE  ~(x < y /\ y < h[x].next)
    <3>1. y \in F \/ y = b
      BY <1>6
    <3> QED
      BY <3>1, <2>1, <2>5, <1>3
  <2> QED
    BY <2>1, <2>6, <2>7
<1>8. /\ g[at].next \in FreeSet(g) \cup {End} /\ g[at].next > at
      /\ \A y \in FreeSet(g) : ~(at < y /\ y < g[at].next)
  <2>1. at = p \/ at = b
    BY DEF Place
  <2>2. ASSUME NEW y \in FreeSet(g), at < y
        PROVE  y >= above
    <3>1. y \in FreeSet(h) /\ y \notin gone /\ y \in Int
      BY <1>1, <1>2, <1>6
    <3>2. y # b
      BY <3>1, <2>2, <1>1 DEF Gone, Place
    <3> QED
      BY <3>1, <3>2, <2>1, <2>2, <1>1
  <2>3. CASE Joins(h, b, above)
    <3>1. above \in F /\ above \in gone /\ g[at].next = h[above].next
      BY <2>3, <1>1, <1>4 DEF Gone
    <3>2. /\ h[above].next \in F \cup {End} /\ h[above].next > above /\ h[above].next \in Int
          /\ \A y \in F : ~(above < y /\ y < h[above].next)
      BY <3>1, <1>3, <1>6
    <3>3. h[above].next \notin gone
      BY <3>1, <3>2, <1>1 DEF Gone
    <3>4. ASSUME NEW y \in FreeSet(g), at < y, y < g[at].next
          PROVE  FALSE
      <4>1. y \in FreeSet(h) /\ y \notin gone /\ y \in Int /\ y >= above
        BY <3>4, <2>2, <1>1, <1>2, <1>6
      <4>2. y > above /\ y \in F
        BY <4>1, <3>1, <1>1
      <4> QED
        BY <4>2, <3>1, <3>2, <3>4
    <3> QED
      BY <3>1, <3>2, <3>3, <3>4, <2>1, <1>1
  <2>4. CASE ~Joins(h, b, above)
    <3>1. g[at].next = above /\ above \notin gone
      BY <2>4, <1>1, <1>4 DEF Gone
    <3>2. \A y \in FreeSet(g) : y \in Int
      BY <1>2, <1>6
    <3> QED
      BY <3>1, <3>2, <2>1, <2>2, <1>1
  <2> QED
    BY <2>3, <2>4
<1>9. ASSUME p # at
      PROVE  /\ g[p].next \in FreeSet(g) \cup {End} /\ g[p].next > p
             /\ \A y \in FreeSet(g) : ~(p < y /\ y < g[p].next)
  <2>1. at = b /\ ~Below(h, b, p)
    BY <1>9 DEF Place
  <2>2. p \in DOMAIN g
    BY <2>1, <1>1, <1>5, <1>6 DEF Gone
  <2>3. g[p].next = b
    BY <2>2, <1>4, <1>9
  <2>4. ASSUME NEW y \in FreeSet(g), p < y, y < b
        PROVE  FALSE
    <3>1. y \in FreeSet(h) /\ y \in Int
      BY <1>2, <1>6
    <3>2. y \in F
      BY <3>1, <2>4, <1>1
    <3> QED
      BY <3>1, <3>2, <2>4, <1>1
  <2> QED
    BY <2>1, <2>3, <2>4, <1>1
<1>10. \A x \in Used(g) \cup {End} : g[x].next = Null
  <2>1. \A x \in Used(h) : g[x] = h[x]
    BY LinkedSets
  <2>2. g[End] = h[End]
    BY <1>4, <1>5
  <2>3. \A x \in Used(h) \cup {End} : h[x].next = Null
    BY DEF Situation, Loose, ListedBut
  <2> QED
    BY <2>1, <2>2, <2>3, <1>1
<1>11. ASSUME NEW x \in FreeSet(g) \cup {Start}
       PROVE  /\ g[x].next \in FreeSet(g) \cup {End} /\ g[x].next > x
              /\ \A y \in FreeSet(g) : ~(x < y /\ y < g[x].next)
  BY <1>7, <1>8, <1>9
<1> QED
  BY <1>10, <1>11 DEF Listed

LEMMA InsertMerges ==
  ASSUME NEW h, NEW b, NEW p, NEW above, NEW g, Situation(h, b, p, above, g)
  PROVE  Merged(g)
<1> DEFINE at == Place(h, b, p)
           gone == Gone(h, b, p, above)
           F == FreeSet(h) \ {b}
<1>1. /\ Shaped(h) /\ FreeSet(g) = FreeSet(h) \ gone /\ FreeSet(g) \subseteq DOMAIN g
      /\ at \in FreeSet(g) /\ b \in Nat /\ b < End /\ b \in FreeSet(h)
      /\ p \in Int /\ p < b /\ p \in F \cup {Start}
      /\ above \in Int /\ b < above /\ above \in F \cup {End}
      /\ Joins(h, b, above) => above \in F
      /\ \A y \in F : y <= p \/ y >= above
  BY LinkedSets, Neighbours
<1>2. \A x \in FreeSet(h) :
        /\ x \in Nat /\ x < End /\ Follows(h, x) \in Nat /\ x < Follows(h, x)
        /\ \A y \in FreeSet(h) : ~(x < y /\ y < Follows(h, x))
  <2>1. \A x \in FreeSet(h) : x \in Nat /\ x < End /\ h[x].size \in Nat /\ h[x].size > Header
    BY <1>1, Addresses DEF Shaped, Situation, Loose, Tiled
  <2>2. \A x \in FreeSet(h), y \in FreeSet(h) : ~(x < y /\ y < Follows(h, x))
    BY DEF Situation, Loose, Tiled, FreeSet
  <2> QED
    BY <2>1, <2>2 DEF Follows
<1>3. \A x \in F : Follows(h, x) \notin F
  BY DEF Situation, Loose, MergedBut
<1>4. ASSUME NEW x \in FreeSet(g), x # at, Follows(g, x) \in FreeSet(g)
      PROVE  FALSE
  <2>1. Follows(g, x) = Follows(h, x)
    BY <1>1, <1>4, LinkedEnds
  <2>2. x \in F
    BY <1>1, <1>4 DEF Place, Gone
  <2>3. Follows(h, x) = b /\ ~Below(h, b, p)
    BY <2>1, <2>2, <1>1, <1>3, <1>4 DEF Gone
  <2>4. x <= p /\ x # p
    BY <2>2, <2>3, <1>1, <1>2 DEF Below
  <2>5. p \in F /\ x < p
    BY <2>2, <2>4, <1>1, <1>2
  <2> QED
    BY <2>2, <2>3, <2>5, <1>1, <1>2
<1>5. ASSUME Follows(g, at) \in FreeSet(g)
      PROVE  FALSE
  <2>1. CASE Joins(h, b, above)
    <3>1. Follows(g, at) = Follows(h, above) /\ above \in F
      BY <2>1, <1>1, LinkedEnds
    <3>2. Follows(h, above) # b /\ Follows(h, above) \notin F
      BY <3>1, <1>1, <1>2, <1>3
    <3> QED
      BY <3>1, <3>2, <1>1, <1>5
  <2>2. CASE ~Joins(h, b, above)
    <3> DEFINE f == Follows(h, b)
    <3>1. f \in F /\ f > b /\ f \in Nat /\ f < End
      BY <2>2, <1>1, <1>2, <1>5, LinkedEnds
    <3>2. f >= above /\ f # above
      BY <3>1, <2>2, <1>1 DEF Joins
    <3>3. above \in F
      BY <3>1, <3>2, <1>1
    <3> QED
      BY <3>1, <3>2, <3>3, <1>1, <1>2
  <2> QED
    BY <2>1, <2>2
<1> QED
  BY <1>4, <1>5 DEF Merged

(* Merging moves no byte into or out of the free blocks. *)
LEMMA InsertKeepsBytes ==
  ASSUME NEW h, NEW b, NEW p, NEW above, NEW g, Situation(h, b, p, above, g)
  PROVE  FreeBytes(g) = FreeBytes(h)
<1> DEFINE at == Place(h, b, p)
           gone == Gone(h, b, p, above)
           F == FreeSet(h)
           In(f, x, i) == x <= i /\ i < Follows(f, x)
<1>1. /\ FreeSet(g) = F \ gone /\ FreeSet(g) \subseteq DOMAIN g
      /\ at \in FreeSet(g) /\ b \in Nat /\ b \in F
      /\ p \in Int /\ p < b /\ (Below(h, b, p) => p \in F /\ Follows(h, p) = b)
      /\ above \in Int /\ b < above
      /\ (Joins(h, b, above) => above \in F /\ Follows(h, b) = above)
  BY LinkedSets DEF FreeSet, Blocks, Below, Joins
<1>2. \A x \in F : x \in Nat /\ Follows(h, x) \in Nat /\ x < Follows(h, x)
  <2>1. \A x \in F : x \in Nat /\ h[x].size \in Nat /\ h[x].size > Header
    <3>1. Shaped(h)
      BY LinkedSets
    <3> QED
      BY <3>1, Addresses DEF Shaped, Situation, Loose, Tiled
  <2> QED
    BY <2>1 DEF Follows
<1>3. Follows(g, at) = IF Joins(h, b, above) THEN Follows(h, above) ELSE Follows(h, b)
  BY LinkedEnds
<1>4. \A x \in FreeSet(g) : x # at => Follows(g, x) = Follows(h, x)
  BY <1>1, LinkedEnds
<1>5. ASSUME NEW i \in Int, NEW x \in F, In(h, x, i)
      PROVE  \E y \in FreeSet(g) : In(g, y, i)
  <2>1. CASE x \notin gone /\ x # at
    BY <2>1, <1>1, <1>4, <1>5
  <2>2. CASE x \in gone \/ x = at
    <3>1. x = b \/ (x = p /\ Below(h, b, p)) \/ (x = above /\ Joins(h, b, above))
      BY <2>2 DEF Gone, Place
    <3>2. at <= i /\ i < Follows(g, at)
      <4>1. at = (IF Below(h, b, p) THEN p ELSE b)
        BY DEF Place
      <4> HIDE DEF at
      <4> QED
        BY <3>1, <4>1, <1>1, <1>2, <1>3, <1>5
    <3> QED
      BY <3>2, <1>1
  <2> QED
    BY <2>1, <2>2
<1>6. ASSUME NEW i \in Int, NEW x \in FreeSet(g), In(g, x, i)
      PROVE  \E y \in F : In(h, y, i)
  <2>1. CASE x # at
    BY <2>1, <1>1, <1>4, <1>6
  <2>2. CASE x = at
    <3>1. at = (IF Below(h, b, p) THEN p ELSE b)
      BY DEF Place
    <3> HIDE DEF at
    <3>2. (p <= i /\ i < b /\ Below(h, b, p)) \/ (b <= i /\ i < Follows(h, b))
            \/ (Joins(h, b, above) /\ above <= i /\ i < Follows(h, above))
      BY <3>1, <2>2, <1>1, <1>2, <1>3, <1>6
    <3> QED
      BY <3>2, <1>1
  <2> QED
    BY <2>1, <2>2
<1>7. \A i \in Int : (\E y \in FreeSet(g) : In(g, y, i)) <=> (\E x \in F : In(h, x, i))
  BY <1>5, <1>6
<1>8. \A x \in FreeSet(g) : x \in Int /\ Follows(g, x) \in Int
  BY <1>1, <1>2, <1>3, <1>4
<1>9. FreeBytes(g) = {i \in 0..(End - 1) : \E x \in FreeSet(g) : In(g, x, i)}
  BY <1>8 DEF FreeBytes
<1>10. FreeBytes(h) = {i \in 0..(End - 1) : \E x \in F : In(h, x, i)}
  BY <1>2 DEF FreeBytes
<1> HIDE DEF In, F
<1> QED
  BY <1>7, <1>9, <1>10

(* A sound heap, with the words of its headers in range. *)
Sound(h) == Shaped(h) /\ Tiled(h) /\ Listed(h) /\ Merged(h)

(* Linking a loose block in makes the heap sound; the blocks in use keep   *)
(* their place, and the free bytes are the same.                           *)
LEMMA InsertEffect ==
  ASSUME NEW h, NEW b, Loose(h, b)
  PROVE  /\ Sound(Insert(h, b))
         /\ Used(Insert(h, b)) = Used(h)
         /\ \A x \in Used(h) : Insert(h, b)[x] = h[x]
         /\ FreeBytes(Insert(h, b)) = FreeBytes(h)
<1> DEFINE p == InsertionPoint(h, b)
           above == h[p].next
<1>1. Between(h, b, p, above) /\ LinkedIn(h, b, p, above, Insert(h, b))
  BY InsertionPointBetween, InsertLinksIn
<1>2. Situation(h, b, p, above, Insert(h, b))
  BY <1>1 DEF Situation
<1> HIDE DEF p, above
<1> QED
  BY <1>2, LinkedSets, InsertKeepsTiles, InsertKeepsList, InsertMerges, InsertKeepsBytes
     DEF Sound


-----------------------------------------------------------------------------
(***************************************************************************)
(* Alignment, and the size a request is increased to.                      *)
(***************************************************************************)
LEMMA Division ==
  ASSUME NEW x \in Int
  PROVE  /\ x \div Alignment \in Int /\ x % Alignment \in 0..(Alignment - 1)
         /\ x = Alignment * (x \div Alignment) + (x % Alignment)
BY Quotient

LEMMA FewerMultiples ==
  ASSUME NEW j \in Int, NEW k \in Int, Alignment * j < Alignment * k + Alignment
  PROVE  j <= k
<1>1. Alignment * k + Alignment = Alignment * (k + 1)
  OBVIOUS
<1>2. Alignment * j < Alignment * (k + 1)
  BY <1>1
<1>3. ASSUME j >= k + 1
      PROVE  FALSE
  <2>1. Alignment * (j - (k + 1)) >= 0
    BY <1>3
  <2>2. Alignment * (j - (k + 1)) = Alignment * j - Alignment * (k + 1)
    OBVIOUS
  <2> QED
    BY <2>1, <2>2, <1>2
<1> QED
  BY <1>3

LEMMA MultipleOf ==
  ASSUME NEW x \in Int, NEW k \in Int, NEW r \in 0..(Alignment - 1), x = Alignment * k + r
  PROVE  x % Alignment = r
<1> DEFINE q == x \div Alignment
           s == x % Alignment
<1>1. q \in Int /\ s \in 0..(Alignment - 1) /\ x = Alignment * q + s
  BY Division
<1> HIDE DEF q, s
<1>2. q <= k /\ k <= q
  <2>1. Alignment * q \in Int /\ Alignment * k \in Int
    BY <1>1
  <2>2. Alignment * q < Alignment * k + Alignment /\ Alignment * k < Alignment * q + Alignment
    BY <1>1, <2>1
  <2> QED
    BY <2>2, <1>1, FewerMultiples
<1>3. q = k
  BY <1>1, <1>2
<1>4. s = r
  <2>1. Alignment * k \in Int
    OBVIOUS
  <2> QED
    BY <1>1, <1>3, <2>1
<1> QED
  BY <1>4 DEF s

LEMMA Multiples ==
  ASSUME NEW x \in Int, NEW y \in Int, y % Alignment = 0
  PROVE  /\ (x + y) % Alignment = x % Alignment
         /\ (x - y) % Alignment = x % Alignment
<1> DEFINE i == x \div Alignment
           j == y \div Alignment
           r == x % Alignment
<1>1. i \in Int /\ j \in Int /\ r \in 0..(Alignment - 1) /\ x = Alignment * i + r
      /\ y = Alignment * j
  BY Division
<1> HIDE DEF i, j, r
<1>2. x + y = Alignment * (i + j) + r /\ x - y = Alignment * (i - j) + r
  BY <1>1
<1>3. i + j \in Int /\ i - j \in Int
  BY <1>1
<1>4. (x + y) % Alignment = r
  BY <1>1, <1>2, <1>3, MultipleOf
<1>5. (x - y) % Alignment = r
  BY <1>1, <1>2, <1>3, MultipleOf
<1> QED
  BY <1>4, <1>5 DEF r

(* No multiple of the alignment lies between a size and that size rounded  *)
(* up.                                                                     *)
LEMMA RoundedUp ==
  ASSUME NEW s \in Int, NEW m \in Int, m % Alignment = 0, m >= s
  PROVE  m >= IF s % Alignment = 0 THEN s ELSE s + Alignment - (s % Alignment)
<1> DEFINE i == s \div Alignment
           j == m \div Alignment
           r == s % Alignment
<1>1. i \in Int /\ j \in Int /\ r \in 0..(Alignment - 1) /\ s = Alignment * i + r
      /\ m = Alignment * j
  BY Division
<1>2. CASE r = 0
  BY <1>2
<1>3. CASE r # 0
  <2> HIDE DEF i, j, r
  <2>1. Alignment * i \in Int /\ Alignment * j \in Int
    BY <1>1
  <2>2. Alignment * i + r <= Alignment * j
    BY <1>1
  <2>3. j >= i + 1
    <3>1. ASSUME j <= i
          PROVE  FALSE
      <4>1. Alignment * (i - j) >= 0 /\ Alignment * (i - j) = Alignment * i - Alignment * j
        BY <3>1, <1>1
      <4> QED
        BY <4>1, <2>1, <2>2, <1>1, <1>3
    <3> QED
      BY <3>1, <1>1
  <2>4. Alignment * j >= Alignment * i + Alignment
    <3>1. Alignment * (j - (i + 1)) >= 0
      BY <2>3, <1>1
    <3>2. Alignment * (j - (i + 1)) = Alignment * j - Alignment * i - Alignment
      BY <1>1
    <3> QED
      BY <3>1, <3>2, <2>1
  <2>5. m >= s + Alignment - r
    BY <2>1, <2>4, <1>1
  <2>6. s % Alignment = r
    BY DEF r
  <2> QED
    BY <2>5, <2>6, <1>3
<1> QED
  BY <1>2, <1>3

LEMMA WordIsWide ==
  /\ TopBit \in Nat /\ Word = 2 * TopBit /\ HeapSize < TopBit
  /\ Header % Alignment = 0 /\ Alignment <= Header
<1>1. TopBit \in Nat /\ Word = 2 * TopBit /\ HeapSize < TopBit
  BY WordAssumption DEF TopBit
<1>2. Header % Alignment = 0
  BY HeaderAssumption
<1>3. Alignment <= Header
  <2>1. Header >= 1 /\ Header \in Int
    OBVIOUS
  <2> DEFINE k == Header \div Alignment
  <2>2. k \in Int /\ Header = Alignment * k
    BY <1>2, <2>1, Division
  <2> HIDE DEF k
  <2>3. k >= 1
    <3>1. ASSUME k <= 0
          PROVE  FALSE
      <4>1. Alignment * k <= 0
        BY <3>1, <2>2
      <4> QED
        BY <4>1, <2>1, <2>2
    <3> QED
      BY <3>1, <2>2
  <2>4. Alignment * (k - 1) >= 0 /\ Alignment * (k - 1) = Alignment * k - Alignment
    BY <2>2, <2>3
  <2> QED
    BY <2>2, <2>4
<1> QED
  BY <1>1, <1>2, <1>3

(* A request that is not refused at once is increased to the least size    *)
(* that is aligned and holds it with its header.                           *)
LEMMA WantedSize ==
  ASSUME NEW n \in Nat, n < Word
  PROVE  /\ Wanted(n) \in Nat
         /\ Wanted(n) = 0 <=> n = 0 \/ n >= TopBit
         /\ Wanted(n) # 0 => /\ Wanted(n) >= n + Header
                             /\ Wanted(n) % Alignment = 0
                             /\ \A m \in Int : m % Alignment = 0 /\ m >= n + Header
                                                 => m >= Wanted(n)
<1>1. /\ TopBit \in Nat /\ Word = 2 * TopBit /\ End + Header < TopBit
      /\ Header % Alignment = 0 /\ Alignment <= Header
  BY WordIsWide
<1>2. CASE n >= TopBit \/ n = 0
  <2>1. Wanted(n) = 0
    BY <1>1, <1>2 DEF Wanted, Increased
  <2> QED
    BY <2>1, <1>2
<1>3. CASE n < TopBit /\ n # 0
  <2> DEFINE s == n + Header
             r == s % Alignment
             w == IF r = 0 THEN s ELSE s + Alignment - r
  <2>1. s \in Nat /\ r \in 0..(Alignment - 1) /\ s + Alignment < Word /\ s > n
    BY <1>1, <1>3, Division
  <2>2. (n + Header) % Word = s /\ (r # 0 => (s + Alignment - r) % Word = s + Alignment - r)
    <3>1. Word \in Nat \ {0}
      BY <1>1
    <3>2. (n + Header) % Word = s
      <4>1. n + Header \in 0..(Word - 1)
        BY <3>1, <2>1
      <4> QED
        BY <3>1, <4>1, SmallRemainder
    <3>3. ASSUME r # 0
          PROVE  (s + Alignment - r) % Word = s + Alignment - r
      <4> HIDE DEF r, s
      <4>1. s + Alignment - r \in 0..(Word - 1)
        BY <2>1, <3>1
      <4> QED
        BY <4>1, <3>1, SmallRemainder
    <3> QED
      BY <3>2, <3>3
  <2>3. Wanted(n) = w
    <3> HIDE DEF r
    <3>1. Increased(n) = LET even == (s + Alignment - r) % Word
                         IN IF n = 0 \/ s <= n THEN 0
                            ELSE IF r = 0 THEN s
                            ELSE IF even > s THEN even ELSE 0
      BY <2>2 DEF Increased, r
    <3>2. ~(n = 0 \/ s <= n)
      BY <2>1, <1>3
    <3>3. r # 0 => s + Alignment - r > s
      BY <2>1
    <3>4. Increased(n) = w
      BY <3>1, <3>2, <3>3, <2>2
    <3> QED
      BY <3>4, <1>3 DEF Wanted
  <2>4. w \in Nat /\ w # 0 /\ w >= s
    BY <2>1
  <2>5. w % Alignment = 0
    <3>1. CASE r = 0
      BY <3>1
    <3>2. CASE r # 0
      <4> DEFINE i == s \div Alignment
      <4>1. i \in Int /\ s = Alignment * i + r
        BY <2>1, Division
      <4> HIDE DEF i, r, s
      <4>2. w = Alignment * (i + 1) + 0
        BY <4>1, <3>2, <2>1
      <4>3. w \in Int /\ i + 1 \in Int /\ 0 \in 0..(Alignment - 1)
        BY <4>1, <2>4
      <4> QED
        BY <4>2, <4>3, MultipleOf
    <3> QED
      BY <3>1, <3>2
  <2>6. \A m \in Int : m % Alignment = 0 /\ m >= s => m >= w
    <3>1. s \in Int
      OBVIOUS
    <3>2. \A m \in Int : m % Alignment = 0 /\ m >= s =>
            m >= IF s % Alignment = 0 THEN s ELSE s + Alignment - (s % Alignment)
      <4> HIDE DEF s
      <4> QED
        BY <3>1, RoundedUp
    <3> QED
      BY <3>2
  <2> HIDE DEF w
  <2> QED
    BY <2>3, <2>4, <2>5, <2>6, <1>1, <1>3
<1> QED
  BY <1>1, <1>2, <1>3


-----------------------------------------------------------------------------
(***************************************************************************)
(* What mmalloc and mfree do to a sound heap.                              *)
(***************************************************************************)
Tile(h, x) == x..(Follows(h, x) - 1)

LEMMA SoundFacts ==
  ASSUME NEW h, Sound(h)
  PROVE  /\ Shaped(h) /\ Tiled(h) /\ Listed(h) /\ Merged(h)
         /\ \A x \in Blocks(h) :
              /\ x \in Nat /\ x < End /\ x \in DOMAIN h
              /\ h[x].size \in Nat /\ h[x].size > Header /\ h[x].used \in BOOLEAN
              /\ x % Alignment = 0
              /\ Follows(h, x) = x + h[x].size /\ Follows(h, x) \in Nat
              /\ Follows(h, x) \in Blocks(h) \cup {End} /\ Follows(h, x) <= End
              /\ \A y \in Blocks(h) : ~(x < y /\ y < Follows(h, x))
         /\ Blocks(h) = Used(h) \cup FreeSet(h) /\ Used(h) \cap FreeSet(h) = {}
         /\ List(h) = FreeSet(h) \cup {Start} /\ Start \notin Blocks(h)
<1>1. Shaped(h) /\ Tiled(h) /\ Listed(h) /\ Merged(h)
  BY DEF Sound
<1>2. ASSUME NEW x \in Blocks(h)
      PROVE  /\ x \in Nat /\ x < End /\ x \in DOMAIN h
             /\ h[x].size \in Nat /\ h[x].used \in BOOLEAN
  BY <1>1, Addresses DEF Shaped
<1>3. ASSUME NEW x \in Blocks(h)
      PROVE  /\ h[x].size > Header /\ x % Alignment = 0
             /\ Follows(h, x) \in Blocks(h) \cup {End}
             /\ \A y \in Blocks(h) : ~(x < y /\ y < Follows(h, x))
  BY <1>1 DEF Tiled
<1>4. ASSUME NEW x \in Blocks(h)
      PROVE  /\ Follows(h, x) = x + h[x].size /\ Follows(h, x) \in Nat /\ Follows(h, x) <= End
  BY <1>2, <1>3 DEF Follows
<1>5. Blocks(h) = Used(h) \cup FreeSet(h) /\ Used(h) \cap FreeSet(h) = {}
  BY DEF Used, FreeSet
<1>6. List(h) = FreeSet(h) \cup {Start} /\ Start \notin Blocks(h)
  BY DEF List, Blocks
<1> QED
  BY <1>1, <1>2, <1>3, <1>4, <1>5, <1>6

(* No byte belongs to two blocks. *)
LEMMA TilesDisjoint ==
  ASSUME NEW h, Sound(h), NEW x \in Blocks(h), NEW y \in Blocks(h),
         NEW i \in Int, i \in Tile(h, x), i \in Tile(h, y)
  PROVE  x = y
<1>1. /\ x \in Nat /\ y \in Nat /\ Follows(h, x) \in Nat /\ Follows(h, y) \in Nat
      /\ ~(x < y /\ y < Follows(h, x)) /\ ~(y < x /\ x < Follows(h, y))
  BY SoundFacts
<1>2. x <= i /\ i < Follows(h, x) /\ y <= i /\ i < Follows(h, y)
  BY <1>1 DEF Tile
<1> QED
  BY <1>1, <1>2

(* The list without the block that a call takes out of it. *)
LEMMA TakenOut ==
  ASSUME NEW h, Sound(h), NEW p \in List(h), NEW b \in FreeSet(h), h[p].next = b,
         NEW k, k[p].next = h[b].next,
         \A x \in List(h) \ {b, p} : k[x].next = h[x].next
  PROVE  /\ p < b /\ p \in List(h) \ {b}
         /\ \A x \in List(h) \ {b} :
              /\ k[x].next \in (FreeSet(h) \ {b}) \cup {End} /\ k[x].next > x
              /\ \A y \in FreeSet(h) \ {b} : ~(x < y /\ y < k[x].next)
<1>1. \A x \in List(h) : x \in Int /\ x >= Start /\ (x # Start => x \in FreeSet(h))
  BY SoundFacts, Addresses
<1>2. \A x \in List(h) : /\ h[x].next \in FreeSet(h) \cup {End} /\ h[x].next > x
                         /\ h[x].next \in Int
                         /\ \A y \in FreeSet(h) : ~(x < y /\ y < h[x].next)
  BY SoundFacts DEF Listed
<1>3. b \in Int /\ b \in List(h) /\ p \in Int /\ p < b /\ p # b
  BY <1>1, <1>2 DEF List
<1>4. ASSUME NEW x \in List(h) \ {b}, x # p
      PROVE  h[x].next # b
  <2>1. SUFFICES ASSUME h[x].next = b
                 PROVE  FALSE
    OBVIOUS
  <2>2. CASE x < p
    <3>1. p \in FreeSet(h)
      BY <2>2, <1>1, <1>3
    <3> QED
      BY <3>1, <2>1, <2>2, <1>2, <1>3
  <2>3. CASE p < x
    <3>1. x \in FreeSet(h) /\ x < b
      BY <2>1, <2>3, <1>1, <1>2, <1>3
    <3> QED
      BY <3>1, <2>3, <1>2, <1>3
  <2> QED
    BY <2>2, <2>3, <1>1, <1>3, <1>4
<1>5. ASSUME NEW x \in List(h) \ {b}, x # p
      PROVE  /\ k[x].next \in (FreeSet(h) \ {b}) \cup {End} /\ k[x].next > x
             /\ \A y \in FreeSet(h) \ {b} : ~(x < y /\ y < k[x].next)
  BY <1>2, <1>4, <1>5
<1>6. /\ k[p].next \in (FreeSet(h) \ {b}) \cup {End} /\ k[p].next > p
      /\ \A y \in FreeSet(h) \ {b} : ~(p < y /\ y < k[p].next)
  <2>1. /\ h[b].next \in FreeSet(h) \cup {End} /\ h[b].next > b /\ h[b].next \in Int
        /\ \A y \in FreeSet(h) : ~(b < y /\ y < h[b].next) /\ ~(p < y /\ y < b)
    BY <1>2, <1>3
  <2>2. ASSUME NEW y \in FreeSet(h) \ {b}, p < y, y < h[b].next
        PROVE  FALSE
    <3>1. y \in Int
      BY <1>1 DEF List
    <3>2. ~(b < y) /\ ~(y < b)
      BY <2>1, <2>2
    <3> QED
      BY <3>1, <3>2, <1>3
  <2>3. h[b].next # b /\ h[b].next > p
    BY <2>1, <1>3
  <2> QED
    BY <2>1, <2>2, <2>3
<1> QED
  BY <1>3, <1>5, <1>6

(* mfree: the block is free again, and with it exactly its bytes. *)
Freed(h, b) == Insert([h EXCEPT ![b].used = FALSE], b)

LEMMA Released ==
  ASSUME NEW h, Sound(h), NEW b \in Used(h),
         NEW g, g = Freed(h, b)
  PROVE  /\ Sound(g) /\ Used(g) = Used(h) \ {b}
         /\ \A x \in Used(h) \ {b} : g[x] = h[x]
         /\ FreeBytes(g) = FreeBytes(h) \cup Tile(h, b)
         /\ FreeBytes(h) \cap Tile(h, b) = {}
<1> DEFINE k == [h EXCEPT ![b].used = FALSE]
<1>1. b \in Blocks(h) /\ b \in DOMAIN h /\ b # Start /\ b # End
  BY DEF Used, Blocks
<1>2. Shaped(h) /\ h[b] \in [next : Int, size : Nat, used : BOOLEAN]
  BY <1>1, SoundFacts DEF Shaped
<1>3. /\ DOMAIN k = DOMAIN h /\ k = [x \in DOMAIN k |-> k[x]]
      /\ \A x \in DOMAIN h : x # b => k[x] = h[x]
      /\ k[b].next = h[b].next /\ k[b].size = h[b].size /\ k[b].used = FALSE
      /\ k[b] \in [next : Int, size : Nat, used : BOOLEAN]
  BY <1>1, <1>2 DEF Shaped
<1> HIDE DEF k
<1>4. Blocks(k) = Blocks(h) /\ Used(k) = Used(h) \ {b} /\ FreeSet(k) = FreeSet(h) \cup {b}
  <2>1. Blocks(k) = Blocks(h)
    BY <1>3 DEF Blocks
  <2>2. Used(k) = Used(h) \ {b}
    BY <2>1, <1>3 DEF Used, Blocks
  <2> QED
    BY <2>1, <2>2, <1>1 DEF FreeSet
<1>5. \A x \in Blocks(h) : Follows(k, x) = Follows(h, x) /\ k[x].size = h[x].size
  BY <1>3 DEF Follows, Blocks
<1>6. FreeSet(k) \ {b} = FreeSet(h) /\ List(k) \ {b} = List(h) /\ b \notin FreeSet(h)
  BY <1>1, <1>4 DEF List, FreeSet
<1>7. Loose(k, b)
  <2>1. Shaped(k)
    BY <1>1, <1>2, <1>3 DEF Shaped
  <2>2. Tiled(k)
    BY <1>4, <1>5, SoundFacts DEF Tiled
  <2>3. \A x \in List(h) \cup Used(k) \cup {End} : k[x] = h[x]
    <3>1. List(h) \cup Used(k) \cup {End} \subseteq DOMAIN h \ {b}
      BY <1>1, <1>2, <1>4 DEF List, FreeSet, Used, Blocks, Shaped
    <3> QED
      BY <3>1, <1>3
  <2>4. ListedBut(k, b)
    <3>1. \A x \in List(h) : /\ k[x].next \in FreeSet(h) \cup {End} /\ k[x].next > x
                             /\ \A y \in FreeSet(h) : ~(x < y /\ y < k[x].next)
      BY <2>3, SoundFacts DEF Listed
    <3>2. \A x \in Used(k) \cup {End} : k[x].next = Null
      BY <2>3, <1>4, SoundFacts DEF Listed
    <3> QED
      BY <3>1, <3>2, <1>6 DEF ListedBut
  <2>5. MergedBut(k, b)
    <3>1. \A x \in FreeSet(h) : Follows(k, x) \notin FreeSet(h)
      BY <1>5, SoundFacts DEF Merged
    <3> QED
      BY <3>1, <1>6 DEF MergedBut
  <2> QED
    BY <2>1, <2>2, <2>4, <2>5, <1>4 DEF Loose
<1>8. /\ Sound(g) /\ Used(g) = Used(k) /\ FreeBytes(g) = FreeBytes(k)
      /\ \A x \in Used(k) : g[x] = k[x]
  <2>1. g = Insert(k, b)
    BY DEF k, Freed
  <2>2. /\ Sound(Insert(k, b)) /\ Used(Insert(k, b)) = Used(k)
        /\ \A x \in Used(k) : Insert(k, b)[x] = k[x]
        /\ FreeBytes(Insert(k, b)) = FreeBytes(k)
    BY <1>7, InsertEffect
  <2> QED
    BY <2>1, <2>2
<1>9. \A x \in Used(h) \ {b} : g[x] = h[x]
  BY <1>3, <1>4, <1>8 DEF Used, Blocks
<1>10. FreeBytes(k) = FreeBytes(h) \cup Tile(h, b)
  <2>1. Tile(h, b) \subseteq 0..(End - 1)
    BY <1>1, SoundFacts DEF Tile
  <2>2. FreeBytes(h) = {i \in 0..(End - 1) : \E x \in FreeSet(h) : i \in Tile(h, x)}
    BY DEF FreeBytes, Tile
  <2>3. FreeBytes(k) = {i \in 0..(End - 1) : \E x \in FreeSet(k) : i \in Tile(k, x)}
    BY DEF FreeBytes, Tile
  <2>4. \A x \in FreeSet(k) : Tile(k, x) = Tile(h, x)
    BY <1>4, <1>5 DEF Tile, FreeSet
  <2> QED
    BY <2>1, <2>2, <2>3, <2>4, <1>4
<1>11. FreeBytes(h) \cap Tile(h, b) = {}
  <2>1. SUFFICES ASSUME NEW i \in FreeBytes(h), i \in Tile(h, b)
                 PROVE  FALSE
    OBVIOUS
  <2>2. PICK x \in FreeSet(h) : i \in Tile(h, x) /\ i \in Int
    BY DEF FreeBytes, Tile
  <2>3. x \in Blocks(h)
    BY DEF FreeSet
  <2>4. x = b
    BY <2>1, <2>2, <2>3, <1>1, TilesDisjoint
  <2> QED
    BY <2>4, <1>6
<1> QED
  BY <1>4, <1>8, <1>9, <1>10, <1>11


(* mmalloc gives block b, found behind p, as it is. *)
WholeGiven(h, p, b, g) ==
  /\ DOMAIN g = DOMAIN h /\ g = [x \in DOMAIN g |-> g[x]]
  /\ \A x \in DOMAIN h : x # b /\ x # p => g[x] = h[x]
  /\ g[b] \in [next : Int, size : Nat, used : BOOLEAN]
  /\ g[b].next = Null /\ g[b].size = h[b].size /\ g[b].used = TRUE
  /\ g[p] \in [next : Int, size : Nat, used : BOOLEAN]
  /\ g[p].next = h[b].next /\ g[p].size = h[p].size /\ g[p].used = h[p].used

(* The block found is one header, the one in front of it another. *)
LEMMA FoundBlock ==
  ASSUME NEW h, Sound(h), NEW p \in List(h), NEW b \in FreeSet(h), h[p].next = b
  PROVE  /\ Shaped(h) /\ b \in Blocks(h) /\ b \in DOMAIN h /\ b # Start /\ b # End
         /\ b \in Nat /\ b < End /\ b % Alignment = 0 /\ b \notin Used(h)
         /\ h[b].size \in Nat /\ b + h[b].size <= End /\ Follows(h, b) = b + h[b].size
         /\ p \in DOMAIN h /\ p # End /\ p \notin Used(h) /\ p \in Int /\ p < b
         /\ h[b] \in [next : Int, size : Nat, used : BOOLEAN]
         /\ h[p] \in [next : Int, size : Nat, used : BOOLEAN]
         /\ List(h) \subseteq DOMAIN h /\ Used(h) \cup {End} \subseteq DOMAIN h \ {b, p}
<1>1. /\ Shaped(h) /\ b \in Blocks(h) /\ b # Start /\ b # End
      /\ Start \in DOMAIN h /\ End \in DOMAIN h
  BY SoundFacts DEF FreeSet, Blocks, Shaped
<1>2. /\ b \in DOMAIN h /\ b \in Nat /\ b < End /\ b % Alignment = 0 /\ b \notin Used(h)
      /\ h[b].size \in Nat /\ b + h[b].size <= End /\ Follows(h, b) = b + h[b].size
  BY <1>1, SoundFacts
<1>3. List(h) \subseteq DOMAIN h /\ End \notin List(h) /\ List(h) \cap Used(h) = {}
  BY <1>1 DEF List, FreeSet, Blocks, Used
<1>4. h[p].next > p /\ p \in Int
  BY <1>1, SoundFacts, Addresses DEF Listed, List
<1>5. /\ h[b] \in [next : Int, size : Nat, used : BOOLEAN]
      /\ h[p] \in [next : Int, size : Nat, used : BOOLEAN]
  BY <1>1, <1>2, <1>3 DEF Shaped
<1>6. Used(h) \cup {End} \subseteq DOMAIN h \ {b, p}
  BY <1>1, <1>2, <1>3 DEF Used, Blocks
<1> QED
  BY <1>1, <1>2, <1>3, <1>4, <1>5, <1>6

LEMMA GivesWhole ==
  ASSUME NEW h, Sound(h), NEW p \in List(h), NEW b \in FreeSet(h), h[p].next = b
  PROVE  WholeGiven(h, p, b, [[h EXCEPT ![p].next = h[b].next]
                                EXCEPT ![b].next = Null, ![b].used = TRUE])
<1> DEFINE k == [h EXCEPT ![p].next = h[b].next]
           g == [k EXCEPT ![b].next = Null, ![b].used = TRUE]
<1>1. /\ b \in DOMAIN h /\ p \in DOMAIN h /\ p # b /\ h[b].next \in Int
      /\ h[b] \in [next : Int, size : Nat, used : BOOLEAN]
      /\ h[p] \in [next : Int, size : Nat, used : BOOLEAN]
  BY FoundBlock
<1>2. /\ DOMAIN k = DOMAIN h /\ \A x \in DOMAIN h : x # p => k[x] = h[x]
      /\ k[p] = [next |-> h[b].next, size |-> h[p].size, used |-> h[p].used]
  BY <1>1
<1> HIDE DEF k
<1>3. k[b] = h[b]
  BY <1>1, <1>2
<1>4. /\ DOMAIN g = DOMAIN k /\ g = [x \in DOMAIN g |-> g[x]]
      /\ \A x \in DOMAIN k : x # b => g[x] = k[x]
  OBVIOUS
<1>5. g[b] = [next |-> Null, size |-> h[b].size, used |-> TRUE]
  BY <1>1, <1>2, <1>3
<1> HIDE DEF g
<1>6. g[p] = [next |-> h[b].next, size |-> h[p].size, used |-> h[p].used]
  BY <1>1, <1>2, <1>4
<1>7. \A x \in DOMAIN h : x # b /\ x # p => g[x] = h[x]
  BY <1>2, <1>4
<1>8. /\ g[b] \in [next : Int, size : Nat, used : BOOLEAN]
      /\ g[b].next = Null /\ g[b].size = h[b].size /\ g[b].used = TRUE
  BY <1>1, <1>5
<1>9. /\ g[p] \in [next : Int, size : Nat, used : BOOLEAN]
      /\ g[p].next = h[b].next /\ g[p].size = h[p].size /\ g[p].used = h[p].used
  BY <1>1, <1>6
<1>10. WholeGiven(h, p, b, g)
  BY <1>2, <1>4, <1>7, <1>8, <1>9 DEF WholeGiven
<1> QED
  BY <1>10 DEF g, k

LEMMA GivenWhole ==
  ASSUME NEW h, Sound(h), NEW p \in List(h), NEW b \in FreeSet(h), h[p].next = b,
         NEW g, WholeGiven(h, p, b, g)
  PROVE  /\ Sound(g) /\ Used(g) = Used(h) \cup {b}
         /\ \A x \in Used(h) : g[x] = h[x]
         /\ g[b].size = h[b].size
         /\ FreeBytes(g) = FreeBytes(h) \ Tile(h, b)
<1>1. Shaped(h) /\ b \in Blocks(h) /\ b \in DOMAIN h /\ b # Start /\ b # End
  BY FoundBlock
<1>2. p \in DOMAIN h /\ p # End /\ p \notin Used(h) /\ p # b
  BY FoundBlock
<1>3. /\ h[b] \in [next : Int, size : Nat, used : BOOLEAN]
      /\ h[p] \in [next : Int, size : Nat, used : BOOLEAN]
  BY FoundBlock
<1>5. /\ DOMAIN g = DOMAIN h /\ g = [x \in DOMAIN g |-> g[x]]
      /\ \A x \in DOMAIN h : x # b /\ x # p => g[x] = h[x]
      /\ g[b] \in [next : Int, size : Nat, used : BOOLEAN]
      /\ g[p] \in [next : Int, size : Nat, used : BOOLEAN]
  BY DEF WholeGiven
<1>6. g[p].next = h[b].next /\ g[p].used = h[p].used /\ g[p].size = h[p].size
  BY DEF WholeGiven
<1>7. g[b].next = Null /\ g[b].used = TRUE /\ g[b].size = h[b].size
  BY DEF WholeGiven
<1>8. Shaped(g)
  <2>1. \A x \in DOMAIN g : g[x] \in [next : Int, size : Nat, used : BOOLEAN]
    BY <1>1, <1>3, <1>5 DEF Shaped
  <2>2. g[Start].size = h[Start].size /\ g[End].size = h[End].size
    BY <1>1, <1>5, <1>6 DEF Shaped
  <2> QED
    BY <2>1, <2>2, <1>1, <1>5 DEF Shaped
<1>9. Blocks(g) = Blocks(h) /\ Used(g) = Used(h) \cup {b} /\ FreeSet(g) = FreeSet(h) \ {b}
  <2>1. Blocks(g) = Blocks(h)
    BY <1>5 DEF Blocks
  <2>2. Used(g) = Used(h) \cup {b}
    BY <2>1, <1>1, <1>5, <1>6, <1>7 DEF Used, Blocks
  <2> QED
    BY <2>1, <2>2 DEF FreeSet
<1>10. \A x \in Blocks(h) : Follows(g, x) = Follows(h, x) /\ g[x].size = h[x].size
  <2>1. \A x \in Blocks(h) : g[x].size = h[x].size
    BY <1>5, <1>6, <1>7 DEF Blocks
  <2> QED
    BY <2>1 DEF Follows
<1>11. Tiled(g)
  BY <1>9, <1>10, SoundFacts DEF Tiled
<1>12. Listed(g)
  <2>1. List(h) \ {b} = FreeSet(g) \cup {Start}
    BY <1>1, <1>9 DEF List
  <2>2. \A x \in List(h) \ {b, p} : g[x].next = h[x].next
    <3>1. List(h) \subseteq DOMAIN h
      BY FoundBlock
    <3> QED
      BY <3>1, <1>5
  <2>3. \A x \in List(h) \ {b} :
              /\ g[x].next \in (FreeSet(h) \ {b}) \cup {End} /\ g[x].next > x
              /\ \A y \in FreeSet(h) \ {b} : ~(x < y /\ y < g[x].next)
    BY <2>2, <1>6, TakenOut
  <2>4. \A x \in Used(h) \cup {End} : g[x] = h[x]
    <3>1. Used(h) \cup {End} \subseteq DOMAIN h \ {b, p}
      BY FoundBlock
    <3> QED
      BY <3>1, <1>5
  <2>5. \A x \in Used(g) \cup {End} : g[x].next = Null
    BY <2>4, <1>7, <1>9, SoundFacts DEF Listed
  <2> QED
    BY <2>1, <2>3, <2>5, <1>9 DEF Listed
<1>13. Merged(g)
  BY <1>9, <1>10, SoundFacts DEF Merged
<1>14. \A x \in Used(h) : g[x] = h[x]
  BY <1>1, <1>2, <1>5, SoundFacts DEF Used, Blocks
<1>15. FreeBytes(g) = FreeBytes(h) \ Tile(h, b)
  <2>1. FreeBytes(h) = {i \in 0..(End - 1) : \E x \in FreeSet(h) : i \in Tile(h, x)}
    BY DEF FreeBytes, Tile
  <2>2. FreeBytes(g) = {i \in 0..(End - 1) : \E x \in FreeSet(g) : i \in Tile(g, x)}
    BY DEF FreeBytes, Tile
  <2>3. \A x \in FreeSet(g) : Tile(g, x) = Tile(h, x)
    BY <1>9, <1>10 DEF Tile, FreeSet
  <2>4. \A x \in FreeSet(h), i \in 0..(End - 1) : i \in Tile(h, x) /\ i \in Tile(h, b) => x = b
    BY <1>1, TilesDisjoint DEF FreeSet
  <2> QED
    BY <2>1, <2>2, <2>3, <2>4, <1>9
<1> QED
  BY <1>7, <1>8, <1>9, <1>11, <1>12, <1>13, <1>14, <1>15 DEF Sound

(* mmalloc gives the first w bytes of block b, found behind p; the rest is *)
(* a loose block.                                                          *)
PartGiven(h, p, b, w, k) ==
  /\ DOMAIN k = DOMAIN h \cup {b + w} /\ k = [x \in DOMAIN k |-> k[x]]
  /\ \A x \in DOMAIN h : x # b /\ x # p => k[x] = h[x]
  /\ k[b + w] \in [next : Int, size : Nat, used : BOOLEAN]
  /\ k[b + w].next = Null /\ k[b + w].size = h[b].size - w /\ k[b + w].used = FALSE
  /\ k[b] \in [next : Int, size : Nat, used : BOOLEAN]
  /\ k[b].next = Null /\ k[b].size = w /\ k[b].used = TRUE
  /\ k[p] \in [next : Int, size : Nat, used : BOOLEAN]
  /\ k[p].next = h[b].next /\ k[p].size = h[p].size /\ k[p].used = h[p].used

LEMMA RestIsNew ==
  ASSUME NEW h, Sound(h), NEW p \in List(h), NEW b \in FreeSet(h), h[p].next = b,
         NEW w \in Nat, w > Header, h[b].size - w > Header
  PROVE  /\ b + w \in Nat /\ b < b + w /\ b + w < Follows(h, b) /\ b + w < End
         /\ b + w \notin {p, b, End, Start}
         /\ b + w \notin Blocks(h) /\ b + w \notin DOMAIN h
<1>1. /\ b \in Blocks(h) /\ b \in Nat /\ h[b].size \in Nat /\ b + h[b].size <= End
      /\ Follows(h, b) = b + h[b].size /\ p \in Int /\ p < b
  BY FoundBlock
<1>2. /\ b + w \in Nat /\ b < b + w /\ b + w < Follows(h, b) /\ b + w < End
      /\ b + w \notin {p, b, End, Start}
  BY <1>1
<1>3. b + w \notin Blocks(h)
  BY <1>1, <1>2, SoundFacts
<1> QED
  BY <1>2, <1>3 DEF Blocks

(* The headers after the split. *)
SplitAt(h, b, w) ==
  [x \in DOMAIN h \cup {b + w} |->
     CASE x = b + w -> [next |-> Null, size |-> h[b].size - w, used |-> FALSE]
       [] x = b     -> [next |-> Null, size |-> w, used |-> TRUE]
       [] OTHER     -> h[x]]

LEMMA GivesPart ==
  ASSUME NEW h, Sound(h), NEW p \in List(h), NEW b \in FreeSet(h), h[p].next = b,
         NEW w \in Nat, w > Header, h[b].size - w > Header,
         NEW h1, h1 = [h EXCEPT ![p].next = h[b].next]
  PROVE  PartGiven(h, p, b, w, SplitAt(h1, b, w))
<1> DEFINE c == b + w
           k == [x \in DOMAIN h1 \cup {c} |->
                   CASE x = c -> [next |-> Null, size |-> h1[b].size - w, used |-> FALSE]
                     [] x = b -> [next |-> Null, size |-> w, used |-> TRUE]
                     [] OTHER -> h1[x]]
<1>1. /\ b \in DOMAIN h /\ p \in DOMAIN h /\ p # b /\ h[b].next \in Int /\ h[b].size \in Nat
      /\ h[p] \in [next : Int, size : Nat, used : BOOLEAN]
  BY FoundBlock
<1>2. c \notin DOMAIN h /\ c # b /\ c # p
  BY RestIsNew
<1>3. /\ DOMAIN h1 = DOMAIN h /\ \A x \in DOMAIN h : x # p => h1[x] = h[x]
      /\ h1[p] = [next |-> h[b].next, size |-> h[p].size, used |-> h[p].used]
  BY <1>1
<1>4. h1[b].size = h[b].size
  BY <1>1, <1>3
<1> HIDE DEF c
<1>5. DOMAIN k = DOMAIN h \cup {c} /\ k = [x \in DOMAIN k |-> k[x]]
  BY <1>3
<1>6. k[c] = [next |-> Null, size |-> h1[b].size - w, used |-> FALSE]
  BY <1>2
<1>7. k[b] = [next |-> Null, size |-> w, used |-> TRUE]
  BY <1>1, <1>2, <1>3
<1>8. \A x \in DOMAIN h : x # b => k[x] = h1[x]
  BY <1>2, <1>3
<1> HIDE DEF k
<1>9. /\ k[c] \in [next : Int, size : Nat, used : BOOLEAN]
      /\ k[c].next = Null /\ k[c].size = h[b].size - w /\ k[c].used = FALSE
  <2>1. h[b].size - w \in Nat
    BY <1>1
  <2> QED
    BY <2>1, <1>4, <1>6
<1>10. /\ k[b] \in [next : Int, size : Nat, used : BOOLEAN]
       /\ k[b].next = Null /\ k[b].size = w /\ k[b].used = TRUE
  BY <1>7
<1>11. /\ k[p] \in [next : Int, size : Nat, used : BOOLEAN]
       /\ k[p].next = h[b].next /\ k[p].size = h[p].size /\ k[p].used = h[p].used
  <2>1. k[p] = [next |-> h[b].next, size |-> h[p].size, used |-> h[p].used]
    BY <1>1, <1>3, <1>8
  <2> QED
    BY <2>1, <1>1
<1>12. \A x \in DOMAIN h : x # b /\ x # p => k[x] = h[x]
  BY <1>3, <1>8
<1>13. PartGiven(h, p, b, w, k)
  BY <1>5, <1>9, <1>10, <1>11, <1>12 DEF PartGiven, c
<1> QED
  BY <1>13, Zenon DEF k, c, SplitAt

LEMMA GivenPart ==
  ASSUME NEW h, Sound(h), NEW p \in List(h), NEW b \in FreeSet(h), h[p].next = b,
         NEW w \in Nat, w > Header, w % Alignment = 0, h[b].size - w > Header,
         NEW k, PartGiven(h, p, b, w, k)
  PROVE  /\ Loose(k, b + w) /\ Used(k) = Used(h) \cup {b}
         /\ \A x \in Used(h) : k[x] = h[x]
         /\ k[b].size = w
         /\ FreeBytes(k) = FreeBytes(h) \ (b..((b + w) - 1))
<1> DEFINE c == b + w
           F == FreeSet(h) \ {b}
<1>1. /\ Shaped(h) /\ b \in Blocks(h) /\ b \in DOMAIN h /\ b # Start /\ b # End /\ b \in Nat
      /\ h[b].size \in Nat /\ b + h[b].size <= End /\ Follows(h, b) = b + h[b].size
      /\ b % Alignment = 0
  BY FoundBlock
<1>2. p \in DOMAIN h /\ p # End /\ p \notin Used(h) /\ p \in Int /\ p < b
  BY FoundBlock
<1>3. c \in Nat /\ b < c /\ c < Follows(h, b) /\ c < End /\ c # p /\ c # b /\ c # End /\ c # Start
  BY RestIsNew
<1>4. c \notin Blocks(h) /\ c \notin DOMAIN h
  BY RestIsNew
<1>8. /\ DOMAIN k = DOMAIN h \cup {c} /\ k = [x \in DOMAIN k |-> k[x]]
      /\ k[c] \in [next : Int, size : Nat, used : BOOLEAN]
      /\ k[b] \in [next : Int, size : Nat, used : BOOLEAN]
      /\ k[p] \in [next : Int, size : Nat, used : BOOLEAN]
  BY DEF PartGiven
<1>9. k[c].next = Null /\ k[c].size = h[b].size - w /\ k[c].used = FALSE
  BY DEF PartGiven
<1>10. k[b].next = Null /\ k[b].size = w /\ k[b].used = TRUE
  BY DEF PartGiven
<1>11. k[p].next = h[b].next /\ k[p].size = h[p].size /\ k[p].used = h[p].used
  BY DEF PartGiven
<1>12. \A x \in DOMAIN h : x # b /\ x # p => k[x] = h[x]
  BY DEF PartGiven
<1> HIDE DEF c
<1>13. Shaped(k)
  <2>2. \A x \in DOMAIN k : k[x] \in [next : Int, size : Nat, used : BOOLEAN]
    BY <1>1, <1>8, <1>12 DEF Shaped
  <2>3. k[Start].size = h[Start].size /\ k[End].size = h[End].size
    BY <1>1, <1>11, <1>12 DEF Shaped
  <2> QED
    BY <2>2, <2>3, <1>1, <1>3, <1>8 DEF Shaped
<1>14. Blocks(k) = Blocks(h) \cup {c} /\ Used(k) = Used(h) \cup {b} /\ FreeSet(k) = F \cup {c}
  <2>1. Blocks(k) = Blocks(h) \cup {c}
    BY <1>3, <1>8 DEF Blocks
  <2>2. Used(k) = Used(h) \cup {b}
    BY <2>1, <1>1, <1>4, <1>9, <1>10, <1>11, <1>12 DEF Used, Blocks
  <2>3. c \notin Used(h) \cup {b}
    BY <1>3, <1>4 DEF Used
  <2> QED
    BY <2>1, <2>2, <2>3 DEF FreeSet
<1>15. /\ \A x \in Blocks(h) : x # b => k[x].size = h[x].size /\ Follows(k, x) = Follows(h, x)
       /\ Follows(k, b) = c /\ Follows(k, c) = Follows(h, b)
  <2>1. \A x \in Blocks(h) : x # b => k[x].size = h[x].size
    BY <1>11, <1>12 DEF Blocks
  <2>2. Follows(k, b) = c
    BY <1>10 DEF Follows, c
  <2>3. Follows(k, c) = Follows(h, b)
    BY <1>1, <1>9 DEF Follows, c
  <2> QED
    BY <2>1, <2>2, <2>3 DEF Follows
<1>16. Tiled(k)
  <2>1. c % Alignment = 0
    <3>1. b \in Int /\ w \in Int
      BY <1>1
    <3>2. (b + w) % Alignment = b % Alignment
      BY <3>1, Multiples
    <3> QED
      BY <3>2, <1>1 DEF c
  <2>2. ASSUME NEW x \in Blocks(h), x # b
        PROVE  ~(x < c /\ c < Follows(h, x))
    <3>1. /\ x \in Nat /\ Follows(h, x) \in Nat
          /\ ~(x < b /\ b < Follows(h, x)) /\ ~(b < x /\ x < Follows(h, b))
      BY <1>1, SoundFacts
    <3> QED
      BY <3>1, <2>2, <1>1, <1>3
  <2>3. ASSUME NEW x \in Blocks(k)
        PROVE  /\ x % Alignment = 0 /\ k[x].size > Header
               /\ Follows(k, x) \in Blocks(k) \cup {End}
               /\ \A y \in Blocks(k) : ~(x < y /\ y < Follows(k, x))
    <3>1. CASE x = c
      <4>1. \A y \in Blocks(h) : y \in Nat /\ ~(b < y /\ y < Follows(h, b))
        BY <1>1, SoundFacts
      <4>2. Follows(h, b) \in Blocks(h) \cup {End}
        BY <1>1, SoundFacts
      <4>3. \A y \in Blocks(k) : ~(c < y /\ y < Follows(h, b))
        BY <4>1, <1>1, <1>3, <1>14
      <4> QED
        BY <3>1, <4>2, <4>3, <2>1, <1>9, <1>14, <1>15
    <3>2. CASE x = b
      <4>1. \A y \in Blocks(h) : y \in Nat /\ ~(b < y /\ y < Follows(h, b))
        BY <1>1, SoundFacts
      <4>2. \A y \in Blocks(k) : ~(b < y /\ y < c)
        BY <4>1, <1>1, <1>3, <1>14
      <4> QED
        BY <3>2, <4>2, <1>1, <1>10, <1>14, <1>15
    <3>3. CASE x \in Blocks(h) /\ x # b
      BY <3>3, <2>2, <1>14, <1>15, SoundFacts
    <3> QED
      BY <3>1, <3>2, <3>3, <1>14
  <2>4. 0 \in Blocks(k)
    BY <1>14, SoundFacts DEF Tiled
  <2> QED
    BY <2>3, <2>4 DEF Tiled
<1>17. FreeSet(k) \ {c} = F /\ List(k) \ {c} = List(h) \ {b} /\ c \in FreeSet(k)
  BY <1>1, <1>3, <1>4, <1>14 DEF List, FreeSet
<1>18. ListedBut(k, c)
  <2>1. \A x \in List(h) \ {b, p} : k[x].next = h[x].next
    <3>1. List(h) \subseteq DOMAIN h
      BY FoundBlock
    <3> QED
      BY <3>1, <1>12
  <2>2. \A x \in List(h) \ {b} :
              /\ k[x].next \in F \cup {End} /\ k[x].next > x
              /\ \A y \in F : ~(x < y /\ y < k[x].next)
    BY <2>1, <1>11, TakenOut
  <2>3. \A x \in Used(h) \cup {End} : k[x] = h[x]
    <3>1. Used(h) \cup {End} \subseteq DOMAIN h \ {b, p}
      BY FoundBlock
    <3> QED
      BY <3>1, <1>12
  <2>4. \A x \in Used(k) \cup {End} : k[x].next = Null
    BY <2>3, <1>10, <1>14, SoundFacts DEF Listed
  <2> QED
    BY <2>2, <2>4, <1>17 DEF ListedBut
<1>19. MergedBut(k, c)
  <2>1. \A x \in F : Follows(k, x) = Follows(h, x) /\ Follows(h, x) \notin FreeSet(h)
    BY <1>15, SoundFacts DEF Merged, FreeSet
  <2> QED
    BY <2>1, <1>17 DEF MergedBut
<1>20. Loose(k, c)
  BY <1>13, <1>16, <1>17, <1>18, <1>19 DEF Loose
<1>21. \A x \in Used(h) : k[x] = h[x]
  BY <1>1, <1>2, <1>12, SoundFacts DEF Used, Blocks
<1>22. FreeBytes(k) = FreeBytes(h) \ (b..(c - 1))
  <2>1. FreeBytes(h) = {i \in 0..(End - 1) : \E x \in FreeSet(h) : i \in Tile(h, x)}
    BY DEF FreeBytes, Tile
  <2>2. FreeBytes(k) = {i \in 0..(End - 1) : \E x \in FreeSet(k) : i \in Tile(k, x)}
    BY DEF FreeBytes, Tile
  <2>3. \A x \in F : Tile(k, x) = Tile(h, x)
    BY <1>15 DEF Tile, FreeSet
  <2>4. \A x \in FreeSet(h), i \in 0..(End - 1) : i \in Tile(h, x) /\ i \in Tile(h, b) => x = b
    BY <1>1, TilesDisjoint DEF FreeSet
  <2>5. /\ Tile(k, c) \cap (b..(c - 1)) = {} /\ Tile(h, b) = Tile(k, c) \cup (b..(c - 1))
    BY <1>1, <1>3, <1>15 DEF Tile
  <2> QED
    BY <2>1, <2>2, <2>3, <2>4, <2>5, <1>14
<1> QED
  BY <1>10, <1>14, <1>20, <1>21, <1>22 DEF c


(* mmalloc: the bytes it gives were free and are no longer, and the blocks *)
(* in use stay as they are.                                                *)
Given(h, b, w, g) ==
  /\ Sound(g) /\ Used(g) = Used(h) \cup {b} /\ b \notin Used(h)
  /\ \A x \in Used(h) : g[x] = h[x]
  /\ g[b].size \in Nat /\ w <= g[b].size
  /\ b..((b + g[b].size) - 1) \subseteq FreeBytes(h)
  /\ FreeBytes(g) = FreeBytes(h) \ (b..((b + g[b].size) - 1))

LEMMA TileIsFree ==
  ASSUME NEW h, Sound(h), NEW b \in FreeSet(h)
  PROVE  /\ Tile(h, b) = b..((b + h[b].size) - 1)
         /\ Tile(h, b) \subseteq FreeBytes(h)
<1>1. /\ b \in Nat /\ h[b].size \in Nat /\ b + h[b].size <= End
      /\ Follows(h, b) = b + h[b].size
  BY SoundFacts DEF FreeSet
<1> QED
  BY <1>1 DEF Tile, FreeBytes

LEMMA PartIsGiven ==
  ASSUME NEW h, Sound(h), NEW p \in List(h), NEW b \in FreeSet(h), h[p].next = b,
         NEW w \in Nat, w > Header, w % Alignment = 0, h[b].size - w > Header,
         NEW k, PartGiven(h, p, b, w, k)
  PROVE  Given(h, b, w, Insert(k, b + w))
<1> DEFINE g == Insert(k, b + w)
<1>1. /\ Loose(k, b + w) /\ Used(k) = Used(h) \cup {b}
      /\ \A x \in Used(h) : k[x] = h[x]
      /\ k[b].size = w
      /\ FreeBytes(k) = FreeBytes(h) \ (b..((b + w) - 1))
  BY GivenPart
<1>2. /\ Sound(g) /\ Used(g) = Used(k) /\ FreeBytes(g) = FreeBytes(k)
      /\ \A x \in Used(k) : g[x] = k[x]
  BY <1>1, InsertEffect
<1> HIDE DEF g
<1>3. g[b].size = w
  BY <1>1, <1>2
<1>4. \A x \in Used(h) : g[x] = h[x]
  BY <1>1, <1>2
<1>5. b \notin Used(h) /\ b \in Nat /\ h[b].size \in Nat
  BY FoundBlock
<1>6. b..((b + w) - 1) \subseteq Tile(h, b)
  BY <1>5, TileIsFree
<1>7. b..((b + w) - 1) \subseteq FreeBytes(h)
  BY <1>6, TileIsFree
<1>8. Given(h, b, w, g)
  BY <1>1, <1>2, <1>3, <1>4, <1>5, <1>7 DEF Given
<1> QED
  BY <1>8 DEF g

LEMMA WholeIsGiven ==
  ASSUME NEW h, Sound(h), NEW p \in List(h), NEW b \in FreeSet(h), h[p].next = b,
         NEW w \in Nat, w <= h[b].size,
         NEW g, WholeGiven(h, p, b, g)
  PROVE  Given(h, b, w, g)
<1>1. /\ Sound(g) /\ Used(g) = Used(h) \cup {b}
      /\ \A x \in Used(h) : g[x] = h[x]
      /\ g[b].size = h[b].size
      /\ FreeBytes(g) = FreeBytes(h) \ Tile(h, b)
  BY GivenWhole
<1>2. b \notin Used(h) /\ h[b].size \in Nat
  BY FoundBlock
<1>3. Tile(h, b) = b..((b + h[b].size) - 1) /\ Tile(h, b) \subseteq FreeBytes(h)
  BY TileIsFree
<1> QED
  BY <1>1, <1>2, <1>3 DEF Given

LEMMA Carved ==
  ASSUME NEW h, Sound(h), NEW p \in List(h), NEW b \in FreeSet(h), h[p].next = b,
         NEW w \in Nat, w > Header, w % Alignment = 0, w <= h[b].size
  PROVE  Given(h, b, w, Carve([h EXCEPT ![p].next = h[b].next], b, w))
<1> DEFINE h1 == [h EXCEPT ![p].next = h[b].next]
           k == SplitAt(h1, b, w)
           whole == [h1 EXCEPT ![b].next = Null, ![b].used = TRUE]
           g == Carve(h1, b, w)
<1>1. g = IF h1[b].size - w > MinimumBlock THEN Insert(k, b + w) ELSE whole
  BY Zenon DEF Carve, SplitAt
<1>2. h[b].size \in Nat /\ h1[b].size = h[b].size
  BY FoundBlock
<1>3. ASSUME h[b].size - w > Header
      PROVE  PartGiven(h, p, b, w, k)
  BY <1>3, GivesPart
<1>4. WholeGiven(h, p, b, whole)
  BY GivesWhole
<1> HIDE DEF g, k, whole, h1
<1>5. CASE h1[b].size - w > MinimumBlock
  <2>1. h[b].size - w > Header
    BY <1>2, <1>5 DEF MinimumBlock
  <2>2. Given(h, b, w, Insert(k, b + w))
    BY <2>1, <1>3, PartIsGiven
  <2>3. Given(h, b, w, g)
    BY <2>2, <1>1, <1>5
  <2> QED
    BY <2>3 DEF g, h1
<1>6. CASE ~(h1[b].size - w > MinimumBlock)
  <2>1. Given(h, b, w, whole)
    BY <1>4, WholeIsGiven
  <2>2. Given(h, b, w, g)
    BY <2>1, <1>1, <1>6
  <2> QED
    BY <2>2 DEF g, h1
<1> QED
  BY <1>5, <1>6

(* The block found is the first of the list that is large enough; there is *)
(* none if the walk ends in front of pxEnd.                                *)
LEMMA FirstFitFinds ==
  ASSUME Sound(heap), NEW w \in Nat
  PROVE  LET p == FirstFit(w)
             b == heap[p].next
         IN /\ p \in List(heap) /\ b \in FreeSet(heap) \cup {End}
            /\ b \in FreeSet(heap) => heap[b].size >= w
            /\ b = End => \A x \in FreeSet(heap) : heap[x].size < w
<1> DEFINE L == List(heap)
           on == {x \in L : TooSmall(x, w) /\ heap[x].next # Null}
           p == Walk(heap, L, on)
           b == heap[p].next
<1>1. \A x \in L : x \in Int /\ x >= Start /\ x < End /\ (x # Start => x \in FreeSet(heap))
  BY SoundFacts, Addresses
<1>2. \A x \in L : /\ heap[x].next \in FreeSet(heap) \cup {End} /\ heap[x].next > x
                   /\ heap[x].next \in Int
                   /\ \A y \in FreeSet(heap) : ~(x < y /\ y < heap[x].next)
  BY SoundFacts, Addresses DEF Listed, List
<1>3. Start \in L /\ FreeSet(heap) \subseteq L
  BY DEF List
<1>4. Ordered(heap, L)
  <2>1. ASSUME NEW x \in L, NEW y \in L, y > x
        PROVE  heap[x].next \in L /\ heap[x].next <= y
    <3> DEFINE m == heap[x].next
    <3>1. y \in FreeSet(heap) /\ y < End /\ y \in Int
      BY <2>1, <1>1
    <3>2. m \in FreeSet(heap) \cup {End} /\ m \in Int /\ ~(x < y /\ y < m)
      BY <3>1, <1>2
    <3> HIDE DEF m
    <3>3. m <= y /\ m # End
      BY <3>1, <3>2, <2>1
    <3>4. m \in L
      BY <3>2, <3>3, <1>3
    <3> QED
      BY <3>3, <3>4 DEF m
  <2> QED
    BY <2>1, <1>1, <1>2 DEF Ordered
<1>5. /\ p \in L /\ heap[p].next \notin on
      /\ \A z \in L : Start < z /\ z <= p => z \in on
  <2>1. on \in SUBSET L
    OBVIOUS
  <2> HIDE DEF L, on
  <2> QED
    BY <2>1, <1>3, <1>4, WalkStops
<1>6. FirstFit(w) = p
  BY DEF FirstFit
<1> HIDE DEF p
<1>7. b \in FreeSet(heap) \cup {End}
  BY <1>2, <1>5
<1>8. ASSUME b \in FreeSet(heap)
      PROVE  heap[b].size >= w
  <2>1. b \in L /\ heap[b].next # Null
    BY <1>8, <1>1, <1>2, <1>3
  <2>2. ~TooSmall(b, w)
    BY <2>1, <1>5
  <2>3. heap[b].size \in Nat
    BY <1>8, SoundFacts DEF FreeSet
  <2> QED
    BY <2>2, <2>3 DEF TooSmall
<1>9. ASSUME b = End, NEW x \in FreeSet(heap)
      PROVE  heap[x].size < w
  <2>1. x \in L /\ x \in Int /\ p \in Int /\ x < End /\ x > Start
    BY <1>1, <1>3, <1>5, <1>9, SoundFacts DEF FreeSet
  <2>2. x <= p
    BY <2>1, <1>2, <1>5, <1>9
  <2> QED
    BY <2>1, <2>2, <1>5 DEF TooSmall
<1> QED
  BY <1>5, <1>6, <1>7, <1>8, <1>9

-----------------------------------------------------------------------------
(***************************************************************************)
(* Counting.                                                               *)
(***************************************************************************)

LEMMA FreeBytesFinite ==
  ASSUME NEW h
  PROVE  /\ IsFiniteSet(FreeBytes(h)) /\ Cardinality(FreeBytes(h)) \in Nat
         /\ Cardinality(FreeBytes(h)) <= End
<1>1. IsFiniteSet(0..(End - 1)) /\ Cardinality(0..(End - 1)) = End
  BY FS_Interval
<1>2. FreeBytes(h) \in SUBSET (0..(End - 1))
  BY DEF FreeBytes
<1> QED
  BY <1>1, <1>2, FS_Subset, FS_CardinalityType

LEMMA RangeSize ==
  ASSUME NEW a \in Int, NEW n \in Nat
  PROVE  IsFiniteSet(a..((a + n) - 1)) /\ Cardinality(a..((a + n) - 1)) = n
<1>1. (a + n) - 1 \in Int
  OBVIOUS
<1>2. /\ IsFiniteSet(a..((a + n) - 1))
      /\ Cardinality(a..((a + n) - 1)) = IF a > (a + n) - 1 THEN 0 ELSE ((a + n) - 1) - a + 1
  BY <1>1, FS_Interval
<1> QED
  BY <1>2

LEMMA RangeTaken ==
  ASSUME NEW S, IsFiniteSet(S), NEW a \in Int, NEW n \in Nat, a..((a + n) - 1) \subseteq S
  PROVE  Cardinality(S \ (a..((a + n) - 1))) = Cardinality(S) - n
<1> DEFINE T == a..((a + n) - 1)
<1>1. Cardinality(T) = n
  BY RangeSize
<1>2. S \cap T = T
  OBVIOUS
<1>3. Cardinality(S \ T) = Cardinality(S) - Cardinality(S \cap T)
  BY FS_Difference
<1> QED
  BY <1>1, <1>2, <1>3

LEMMA RangeGiven ==
  ASSUME NEW S, IsFiniteSet(S), NEW a \in Int, NEW n \in Nat, S \cap a..((a + n) - 1) = {}
  PROVE  Cardinality(S \cup (a..((a + n) - 1))) = Cardinality(S) + n
<1> DEFINE T == a..((a + n) - 1)
<1>1. Cardinality(T) = n /\ IsFiniteSet(T)
  BY RangeSize
<1>2. Cardinality(S \cap T) = 0
  BY FS_EmptySet
<1>3. Cardinality(S \cup T) = Cardinality(S) + Cardinality(T) - Cardinality(S \cap T)
  BY <1>1, FS_Union
<1>4. Cardinality(S) \in Nat
  BY FS_CardinalityType
<1> HIDE DEF T
<1>5. Cardinality(S \cup T) = Cardinality(S) + n
  BY <1>1, <1>2, <1>3, <1>4
<1> QED
  BY <1>5 DEF T

LEMMA UsedFinite ==
  ASSUME NEW h, Sound(h)
  PROVE  IsFiniteSet(Used(h)) /\ Cardinality(Used(h)) \in Nat
<1>1. IsFiniteSet(0..End)
  BY FS_Interval
<1>2. Used(h) \in SUBSET (0..End)
  BY SoundFacts DEF Used
<1> QED
  BY <1>1, <1>2, FS_Subset, FS_CardinalityType


-----------------------------------------------------------------------------
(***************************************************************************)
(* The inductive invariant: the heap is sound, the counters agree with it, *)
(* and the pointers handed out are those of the blocks in use, each large  *)
(* enough for what was asked.                                              *)
(***************************************************************************)
CounterInv ==
  /\ Accounting
  /\ minimum \in Nat /\ frees \in Nat /\ allocations \in 0..MaxCalls

AskedInv ==
  /\ DOMAIN asked = {b + Header : b \in Used(heap)}
  /\ \A b \in Used(heap) : /\ asked[b + Header] \in Nat \ {0}
                           /\ asked[b + Header] + Header <= heap[b].size

IInv == Sound(heap) /\ CounterInv /\ AskedInv

LEMMA InitIInv == Init => IInv
<1> SUFFICES ASSUME Init
             PROVE  IInv
  OBVIOUS
<1>1. /\ DOMAIN heap = {Start, 0, End} /\ heap = [x \in DOMAIN heap |-> heap[x]]
      /\ heap[Start] = [next |-> 0, size |-> 0, used |-> FALSE]
      /\ heap[0] = [next |-> End, size |-> End, used |-> FALSE]
      /\ heap[End] = [next |-> Null, size |-> 0, used |-> FALSE]
  <2>1. heap = FreshHeap /\ End # 0 /\ End # Start
    BY DEF Init
  <2> QED
    BY <2>1 DEF FreshHeap
<1>2. /\ heap[Start].next = 0 /\ heap[Start].size = 0 /\ heap[Start].used = FALSE
      /\ heap[0].next = End /\ heap[0].size = End /\ heap[0].used = FALSE
      /\ heap[End].next = Null /\ heap[End].size = 0 /\ heap[End].used = FALSE
  BY <1>1
<1>3. Blocks(heap) = {0} /\ Used(heap) = {} /\ FreeSet(heap) = {0} /\ Follows(heap, 0) = End
  <2>1. Blocks(heap) = {0}
    BY <1>1 DEF Blocks
  <2>2. Used(heap) = {}
    BY <2>1, <1>2 DEF Used
  <2>3. FreeSet(heap) = {0}
    BY <2>1, <2>2 DEF FreeSet
  <2>4. Follows(heap, 0) = End
    <3>1. heap[0].size = End
      BY <1>2
    <3> QED
      BY <3>1 DEF Follows
  <2> QED
    BY <2>1, <2>2, <2>3, <2>4
<1>4. Sound(heap)
  <2>1. Shaped(heap)
    <3>1. \A x \in DOMAIN heap : heap[x] \in [next : Int, size : Nat, used : BOOLEAN]
      <4>1. \A i \in Int, m \in Nat :
              [next |-> i, size |-> m, used |-> FALSE] \in [next : Int, size : Nat, used : BOOLEAN]
        OBVIOUS
      <4>2. 0 \in Int /\ End \in Int /\ Null \in Int /\ 0 \in Nat
        OBVIOUS
      <4>3. heap[Start] \in [next : Int, size : Nat, used : BOOLEAN]
        BY <4>1, <4>2, <1>1, Zenon
      <4>4. heap[0] \in [next : Int, size : Nat, used : BOOLEAN]
        BY <4>1, <4>2, <1>1, Zenon
      <4>5. heap[End] \in [next : Int, size : Nat, used : BOOLEAN]
        BY <4>1, <4>2, <1>1, Zenon
      <4> QED
        BY <4>3, <4>4, <4>5, <1>1
    <3>2. {Start, End} \subseteq DOMAIN heap /\ DOMAIN heap \subseteq Start..End
      BY <1>1
    <3> QED
      BY <3>1, <3>2, <1>1, <1>2 DEF Shaped
  <2>2. Tiled(heap)
    <3>1. 0 % Alignment = 0
      BY SmallRemainder
    <3>2. heap[0].size > Header
      BY <1>2
    <3> QED
      BY <3>1, <3>2, <1>3 DEF Tiled
  <2>3. Listed(heap)
    BY <1>2, <1>3 DEF Listed
  <2>4. Merged(heap)
    BY <1>3 DEF Merged
  <2> QED
    BY <2>1, <2>2, <2>3, <2>4 DEF Sound
<1>5. CounterInv
  <2>1. FreeBytes(heap) = 0..(End - 1)
    BY <1>3 DEF FreeBytes
  <2>2. Cardinality(0..(End - 1)) = End
    BY FS_Interval
  <2>3. Cardinality(Used(heap)) = 0
    BY <1>3, FS_EmptySet
  <2>4. free = End /\ minimum = End /\ allocations = 0 /\ frees = 0
    BY DEF Init
  <2> QED
    BY <2>1, <2>2, <2>3, <2>4, MaxCallsAssumption DEF CounterInv, Accounting
<1>6. AskedInv
  <2>1. DOMAIN asked = {}
    BY DEF Init
  <2> QED
    BY <2>1, <1>3 DEF AskedInv
<1> QED
  BY <1>4, <1>5, <1>6 DEF IInv

(* What a successful mmalloc does, in terms of the block it gives. *)
LEMMA MallocGives ==
  ASSUME IInv, NEW n \in Requests, Malloc(n)
  PROVE  \E b \in FreeSet(heap) :
           /\ Given(heap, b, Wanted(n), heap')
           /\ n \in Nat \ {0} /\ Wanted(n) \in Nat /\ n + Header <= Wanted(n)
           /\ free' = free - heap'[b].size
           /\ minimum' = (IF free' < minimum THEN free' ELSE minimum)
           /\ allocations < MaxCalls /\ allocations' = allocations + 1 /\ frees' = frees
           /\ asked' = [q \in DOMAIN asked \cup {b + Header} |->
                          IF q = b + Header THEN n ELSE asked[q]]
<1> DEFINE w == Wanted(n)
           p == FirstFit(w)
           b == heap[p].next
<1>1. Sound(heap) /\ n \in Nat /\ n < Word
  BY RequestsAssumption, WordIsWide DEF IInv
<1>2. /\ ~MallocFails(n)
      /\ heap' = Carve([heap EXCEPT ![p].next = heap[b].next], b, w)
      /\ free' = free - heap'[b].size
      /\ minimum' = (IF free' < minimum THEN free' ELSE minimum)
      /\ allocations < MaxCalls /\ allocations' = allocations + 1 /\ frees' = frees
      /\ asked' = [q \in DOMAIN asked \cup {b + Header} |->
                     IF q = b + Header THEN n ELSE asked[q]]
  BY DEF Malloc
<1>3. w # 0 /\ b # End
  BY <1>2 DEF MallocFails
<1>4. /\ w \in Nat /\ n # 0 /\ w >= n + Header /\ w % Alignment = 0 /\ w > Header
  BY <1>1, <1>3, WantedSize
<1>5. p \in List(heap) /\ b \in FreeSet(heap) /\ heap[b].size >= w
  BY <1>1, <1>3, <1>4, FirstFitFinds
<1> HIDE DEF w, p
<1>6. heap[b].size \in Nat
  BY <1>1, <1>5, SoundFacts DEF FreeSet
<1>7. Given(heap, b, w, heap')
  BY <1>1, <1>2, <1>4, <1>5, <1>6, Carved
<1> HIDE DEF b
<1> QED
  BY <1>1, <1>2, <1>4, <1>5, <1>7 DEF w

LEMMA MallocIInv ==
  ASSUME IInv, NEW n \in Requests, Malloc(n)
  PROVE  IInv'
<1>1. PICK b \in FreeSet(heap) :
           /\ Given(heap, b, Wanted(n), heap')
           /\ n \in Nat \ {0} /\ Wanted(n) \in Nat /\ n + Header <= Wanted(n)
           /\ free' = free - heap'[b].size
           /\ minimum' = (IF free' < minimum THEN free' ELSE minimum)
           /\ allocations < MaxCalls /\ allocations' = allocations + 1 /\ frees' = frees
           /\ asked' = [q \in DOMAIN asked \cup {b + Header} |->
                          IF q = b + Header THEN n ELSE asked[q]]
  BY MallocGives
<1>2. Sound(heap) /\ b \in Nat
  BY SoundFacts DEF IInv, FreeSet
<1>3. /\ Sound(heap') /\ Used(heap') = Used(heap) \cup {b} /\ b \notin Used(heap)
      /\ \A x \in Used(heap) : heap'[x] = heap[x]
      /\ heap'[b].size \in Nat /\ Wanted(n) <= heap'[b].size
      /\ b..((b + heap'[b].size) - 1) \subseteq FreeBytes(heap)
      /\ FreeBytes(heap') = FreeBytes(heap) \ (b..((b + heap'[b].size) - 1))
  BY <1>1 DEF Given
<1>4. CounterInv'
  <2>1. Cardinality(FreeBytes(heap')) = Cardinality(FreeBytes(heap)) - heap'[b].size
    <3> DEFINE m == heap'[b].size
               S == FreeBytes(heap)
    <3>1. /\ IsFiniteSet(S) /\ b \in Int /\ m \in Nat /\ b..((b + m) - 1) \subseteq S
          /\ FreeBytes(heap') = S \ (b..((b + m) - 1))
      BY <1>2, <1>3, FreeBytesFinite
    <3> HIDE DEF m, S
    <3>2. Cardinality(S \ (b..((b + m) - 1))) = Cardinality(S) - m
      BY <3>1, RangeTaken
    <3> QED
      BY <3>1, <3>2 DEF m, S
  <2>2. Cardinality(FreeBytes(heap')) \in Nat
    BY FreeBytesFinite
  <2>3. Cardinality(Used(heap')) = Cardinality(Used(heap)) + 1
    BY <1>2, <1>3, UsedFinite, FS_AddElement
  <2>4. /\ free = Cardinality(FreeBytes(heap)) /\ minimum <= free /\ minimum \in Nat
        /\ allocations - frees = Cardinality(Used(heap))
        /\ frees \in Nat /\ allocations \in 0..MaxCalls
    BY DEF IInv, CounterInv, Accounting
  <2>5. free' = Cardinality(FreeBytes(heap')) /\ minimum' \in Nat /\ minimum' <= free'
    BY <2>1, <2>2, <2>4, <1>1, <1>3
  <2>6. /\ allocations' - frees' = Cardinality(Used(heap'))
        /\ frees' \in Nat /\ allocations' \in 0..MaxCalls
    BY <2>3, <2>4, <1>1, <1>2, UsedFinite, MaxCallsAssumption
  <2> QED
    BY <2>5, <2>6 DEF CounterInv, Accounting
<1>5. AskedInv'
  <2>1. /\ DOMAIN asked = {x + Header : x \in Used(heap)}
        /\ \A x \in Used(heap) : /\ asked[x + Header] \in Nat \ {0}
                                 /\ asked[x + Header] + Header <= heap[x].size
    BY DEF IInv, AskedInv
  <2>2. DOMAIN asked' = {x + Header : x \in Used(heap')}
    BY <2>1, <1>1, <1>3
  <2>3. asked'[b + Header] = n
    BY <1>1
  <2>4. ASSUME NEW x \in Used(heap)
        PROVE  asked'[x + Header] = asked[x + Header]
    <3>1. x \in Nat /\ x # b
      BY <1>2, <1>3, SoundFacts DEF Used
    <3>2. x + Header # b + Header /\ x + Header \in DOMAIN asked
      BY <3>1, <2>1, <1>2
    <3> QED
      BY <3>2, <1>1
  <2>5. n + Header <= heap'[b].size
    BY <1>1, <1>3
  <2> QED
    BY <2>1, <2>2, <2>3, <2>4, <2>5, <1>1, <1>3 DEF AskedInv
<1> QED
  BY <1>3, <1>4, <1>5 DEF IInv

(* What mfree of a pointer in use does, in terms of its block. *)
LEMMA FreeReleases ==
  ASSUME IInv, NEW q \in DOMAIN asked, Free(q)
  PROVE  \E b \in Used(heap) :
           /\ q = b + Header /\ b \in Nat /\ heap[b].size \in Nat
           /\ Sound(heap') /\ Used(heap') = Used(heap) \ {b}
           /\ \A x \in Used(heap) \ {b} : heap'[x] = heap[x]
           /\ FreeBytes(heap') = FreeBytes(heap) \cup (b..((b + heap[b].size) - 1))
           /\ FreeBytes(heap) \cap b..((b + heap[b].size) - 1) = {}
           /\ free' = free + heap[b].size
<1>1. PICK b \in Used(heap) : q = b + Header
  BY DEF IInv, AskedInv
<1>2. /\ Sound(heap) /\ b \in Nat /\ heap[b].size \in Nat
      /\ Follows(heap, b) = b + heap[b].size
  BY SoundFacts DEF IInv, Used
<1>3. q - Header = b
  BY <1>1, <1>2
<1>4. heap' = Freed(heap, b) /\ free' = free + heap[b].size
  BY <1>3 DEF Free, SizeOf, Freed
<1>5. /\ Sound(heap') /\ Used(heap') = Used(heap) \ {b}
      /\ \A x \in Used(heap) \ {b} : heap'[x] = heap[x]
      /\ FreeBytes(heap') = FreeBytes(heap) \cup Tile(heap, b)
      /\ FreeBytes(heap) \cap Tile(heap, b) = {}
  BY <1>2, <1>4, Released
<1>6. Tile(heap, b) = b..((b + heap[b].size) - 1)
  BY <1>2 DEF Tile
<1> QED
  BY <1>1, <1>2, <1>4, <1>5, <1>6

LEMMA FreeIInv ==
  ASSUME IInv, NEW q \in DOMAIN asked, Free(q)
  PROVE  IInv'
<1>1. PICK b \in Used(heap) :
           /\ q = b + Header /\ b \in Nat /\ heap[b].size \in Nat
           /\ Sound(heap') /\ Used(heap') = Used(heap) \ {b}
           /\ \A x \in Used(heap) \ {b} : heap'[x] = heap[x]
           /\ FreeBytes(heap') = FreeBytes(heap) \cup (b..((b + heap[b].size) - 1))
           /\ FreeBytes(heap) \cap b..((b + heap[b].size) - 1) = {}
           /\ free' = free + heap[b].size
  BY FreeReleases
<1>2. /\ frees' = frees + 1 /\ minimum' = minimum /\ allocations' = allocations
      /\ asked' = [r \in DOMAIN asked \ {q} |-> asked[r]]
  BY DEF Free, Restrict
<1>3. Sound(heap)
  BY DEF IInv
<1>4. CounterInv'
  <2>1. Cardinality(FreeBytes(heap')) = Cardinality(FreeBytes(heap)) + heap[b].size
    <3> DEFINE m == heap[b].size
               S == FreeBytes(heap)
    <3>1. /\ IsFiniteSet(S) /\ b \in Int /\ m \in Nat /\ S \cap b..((b + m) - 1) = {}
          /\ FreeBytes(heap') = S \cup (b..((b + m) - 1))
      BY <1>1, FreeBytesFinite
    <3> HIDE DEF m, S
    <3>2. Cardinality(S \cup (b..((b + m) - 1))) = Cardinality(S) + m
      BY <3>1, RangeGiven
    <3> QED
      BY <3>1, <3>2 DEF m, S
  <2>2. Cardinality(Used(heap')) = Cardinality(Used(heap)) - 1 /\ Cardinality(Used(heap')) \in Nat
    BY <1>1, <1>3, UsedFinite, FS_RemoveElement
  <2>3. /\ free = Cardinality(FreeBytes(heap)) /\ minimum <= free /\ minimum \in Nat
        /\ allocations - frees = Cardinality(Used(heap))
        /\ frees \in Nat /\ allocations \in 0..MaxCalls
    BY DEF IInv, CounterInv, Accounting
  <2>4. free' = Cardinality(FreeBytes(heap')) /\ minimum' <= free'
    BY <2>1, <2>3, <1>1, <1>2, FreeBytesFinite
  <2>5. /\ allocations' - frees' = Cardinality(Used(heap'))
        /\ frees' \in Nat /\ allocations' \in 0..MaxCalls
    BY <2>2, <2>3, <1>2, <1>3, UsedFinite
  <2> QED
    BY <2>3, <2>4, <2>5, <1>2 DEF CounterInv, Accounting
<1>5. AskedInv'
  <2>1. /\ DOMAIN asked = {x + Header : x \in Used(heap)}
        /\ \A x \in Used(heap) : /\ asked[x + Header] \in Nat \ {0}
                                 /\ asked[x + Header] + Header <= heap[x].size
    BY DEF IInv, AskedInv
  <2>2. \A x \in Used(heap) : x \in Nat /\ (x + Header = q => x = b)
    BY <1>1, <1>3, SoundFacts DEF Used
  <2>3. DOMAIN asked' = {x + Header : x \in Used(heap')}
    BY <2>1, <2>2, <1>1, <1>2
  <2>4. ASSUME NEW x \in Used(heap')
        PROVE  asked'[x + Header] = asked[x + Header]
    <3>1. x \in Used(heap) /\ x + Header \in DOMAIN asked \ {q}
      BY <2>1, <2>2, <1>1
    <3> QED
      BY <3>1, <1>2
  <2> QED
    BY <2>1, <2>3, <2>4, <1>1 DEF AskedInv
<1> QED
  BY <1>1, <1>4, <1>5 DEF IInv

(* The invariant holds in every reachable state.                           *)
THEOREM Invariance == Spec => []IInv
<1>1. Init => IInv
  BY InitIInv
<1>2. IInv /\ [Next]_vars => IInv'
  <2> SUFFICES ASSUME IInv, [Next]_vars
               PROVE  IInv'
    OBVIOUS
  <2>1. ASSUME NEW n \in Requests, Malloc(n)
        PROVE  IInv'
    BY <2>1, MallocIInv
  <2>2. ASSUME NEW q \in DOMAIN asked, Free(q)
        PROVE  IInv'
    BY <2>2, FreeIInv
  <2>3. CASE UNCHANGED vars
    BY <2>3 DEF vars, IInv, CounterInv, AskedInv, Accounting
  <2> QED
    BY <2>1, <2>2, <2>3 DEF Next
<1> QED
  BY <1>1, <1>2, PTL DEF Spec


-----------------------------------------------------------------------------
(***************************************************************************)
(* What follows from the invariant.                                        *)
(***************************************************************************)

(* Links lead to headers that exist, and no counter leaves its range: the  *)
(* subtractions and additions of mmalloc.c never wrap.                     *)
THEOREM TypeCorrect == Spec => []TypeOK
<1>1. ASSUME IInv
      PROVE  TypeOK
  <2>1. /\ Sound(heap) /\ Shaped(heap) /\ Listed(heap)
        /\ {Start, End} \subseteq DOMAIN heap /\ DOMAIN heap \subseteq Start..End
    BY <1>1, SoundFacts DEF IInv, Shaped
  <2>2. ASSUME NEW b \in DOMAIN heap
        PROVE  /\ heap[b].next \in DOMAIN heap \cup {Null}
               /\ heap[b].size \in Nat /\ heap[b].used \in BOOLEAN
    <3>1. b \in FreeSet(heap) \cup {Start} \/ b \in Used(heap) \cup {End}
      BY DEF FreeSet, Blocks
    <3>2. heap[b].next \in FreeSet(heap) \cup {End, Null}
      BY <3>1, <2>1 DEF Listed
    <3> QED
      BY <3>2, <2>1 DEF FreeSet, Blocks, Shaped
  <2>3. CASE \A b \in DOMAIN heap : heap[b].size <= End
    <3>1. /\ free = Cardinality(FreeBytes(heap)) /\ minimum <= free /\ minimum \in Nat
          /\ allocations - frees = Cardinality(Used(heap))
          /\ frees \in Nat /\ allocations \in 0..MaxCalls
      BY <1>1 DEF IInv, CounterInv, Accounting
    <3>2. free \in 0..End /\ minimum \in 0..End
      BY <3>1, FreeBytesFinite
    <3>3. frees \in 0..MaxCalls
      BY <3>1, <2>1, UsedFinite, MaxCallsAssumption
    <3>4. \A b \in DOMAIN heap : heap[b].size \in 0..End
      BY <2>2, <2>3
    <3> QED
      BY <3>1, <3>2, <3>3, <3>4, <2>1, <2>2 DEF TypeOK
  <2>4. ASSUME NEW b \in DOMAIN heap
        PROVE  heap[b].size <= End
    <3>1. CASE b = Start
      BY <3>1, <2>1 DEF Shaped
    <3>2. CASE b = End
      BY <3>2, <2>1 DEF Shaped
    <3>3. CASE b \in Blocks(heap)
      <4>1. b \in Nat /\ heap[b].size \in Nat /\ b + heap[b].size <= End
        BY <3>3, <2>1, SoundFacts
      <4> QED
        BY <4>1
    <3> QED
      BY <3>1, <3>2, <3>3 DEF Blocks
  <2> QED
    BY <2>3, <2>4
<1> QED
  BY <1>1, Invariance, PTL

(* Whatever is allocated and released, the blocks tile the heap, the list  *)
(* holds the free ones by rising address, and no two of them touch.        *)
THEOREM HeapIsSound == Spec => []HeapSound
<1>1. IInv => HeapSound
  BY DEF IInv, Sound, HeapSound
<1> QED
  BY <1>1, Invariance, PTL

(* xFreeBytesRemaining is the number of bytes in free blocks, and the      *)
(* calls counted account for the blocks in use.                            *)
THEOREM CountersAgree == Spec => []Accounting
<1>1. IInv => Accounting
  BY DEF IInv, CounterInv
<1> QED
  BY <1>1, Invariance, PTL

(* mmalloc returns NULL exactly for a request that is 0 or too large for a *)
(* size_t's top bit, or that no free block can hold.                       *)
THEOREM FailsOnlyWhenFull == Spec => []FailsOnlyWithoutRoom
<1>1. ASSUME IInv, NEW n \in Requests
      PROVE  MallocFails(n) <=> \/ n = 0 \/ n >= TopBit
                                \/ \A b \in FreeSet(heap) : heap[b].size < n + Header
  <2> DEFINE w == Wanted(n)
             b == heap[FirstFit(w)].next
  <2>1. /\ Sound(heap) /\ n \in Nat /\ n < Word /\ free = Cardinality(FreeBytes(heap))
    BY <1>1, RequestsAssumption, WordIsWide DEF IInv, CounterInv, Accounting
  <2>2. /\ w \in Nat /\ (w = 0 <=> n = 0 \/ n >= TopBit)
        /\ w # 0 => /\ w >= n + Header
                    /\ \A m \in Int : m % Alignment = 0 /\ m >= n + Header => m >= w
    BY <2>1, WantedSize
  <2>3. /\ b \in FreeSet(heap) \cup {End}
        /\ b \in FreeSet(heap) => heap[b].size >= w
        /\ b = End => \A x \in FreeSet(heap) : heap[x].size < w
    BY <2>1, <2>2, FirstFitFinds
  <2>4. MallocFails(n) <=> w = 0 \/ w > free \/ b = End
    BY DEF MallocFails
  <2>5. ASSUME NEW x \in FreeSet(heap)
        PROVE  /\ heap[x].size \in Nat /\ heap[x].size <= free
               /\ heap[x].size % Alignment = 0
    <3>1. /\ x \in Nat /\ heap[x].size \in Nat /\ x % Alignment = 0
          /\ Follows(heap, x) = x + heap[x].size
          /\ Follows(heap, x) \in Blocks(heap) \cup {End}
      BY <2>1, <2>5, SoundFacts DEF FreeSet
    <3>2. heap[x].size <= free
      <4> DEFINE m == heap[x].size
                 T == x..((x + m) - 1)
      <4>1. T \in SUBSET FreeBytes(heap)
        BY <2>1, <2>5, TileIsFree
      <4>2. x \in Int /\ m \in Nat
        BY <3>1
      <4> HIDE DEF m
      <4>3. Cardinality(T) = m
        BY <4>2, RangeSize
      <4> HIDE DEF T
      <4>4. Cardinality(T) <= Cardinality(FreeBytes(heap))
        BY <4>1, FreeBytesFinite, FS_Subset
      <4> QED
        BY <4>3, <4>4, <2>1 DEF m
    <3>3. Follows(heap, x) \in Int /\ Follows(heap, x) % Alignment = 0
      <4>1. End % Alignment = 0
        <5>1. /\ HeapSize % Alignment = 0 /\ Header % Alignment = 0 /\ HeapSize - Header = End
              /\ HeapSize \in Int /\ Header \in Int
          BY HeapAssumption, HeaderAssumption
        <5>2. (HeapSize - Header) % Alignment = HeapSize % Alignment
          BY <5>1, Multiples
        <5> QED
          BY <5>1, <5>2
      <4> QED
        BY <3>1, <4>1, <2>1, SoundFacts
    <3>4. heap[x].size % Alignment = 0
      <4>1. (Follows(heap, x) - x) % Alignment = Follows(heap, x) % Alignment
        <5> DEFINE e == Follows(heap, x)
        <5>1. e \in Int /\ x \in Int /\ x % Alignment = 0
          BY <3>1, <3>3
        <5> HIDE DEF e
        <5>2. (e - x) % Alignment = e % Alignment
          BY <5>1, Multiples
        <5> QED
          BY <5>2 DEF e
      <4>2. Follows(heap, x) - x = heap[x].size
        BY <3>1
      <4> QED
        BY <4>1, <4>2, <3>3
    <3> QED
      BY <3>1, <3>2, <3>4
  <2>6. b = End => b \notin FreeSet(heap)
    BY DEF FreeSet, Blocks
  <2> HIDE DEF w, b
  <2>7. ASSUME w # 0, w > free \/ b = End, NEW x \in FreeSet(heap)
        PROVE  heap[x].size < n + Header
    <3>1. heap[x].size < w
      BY <2>1, <2>2, <2>3, <2>5, <2>7, FreeBytesFinite
    <3> QED
      BY <3>1, <2>1, <2>2, <2>5, <2>7
  <2>8. ASSUME w # 0, \A x \in FreeSet(heap) : heap[x].size < n + Header
        PROVE  b = End
    <3>1. SUFFICES ASSUME b \in FreeSet(heap)
                   PROVE  FALSE
      BY <2>3
    <3>2. heap[b].size >= w /\ heap[b].size < n + Header /\ heap[b].size \in Nat
      BY <3>1, <2>3, <2>5, <2>8
    <3> QED
      BY <3>2, <2>1, <2>2, <2>8
  <2> QED
    BY <2>2, <2>4, <2>7, <2>8
<1>2. IInv => FailsOnlyWithoutRoom
  BY <1>1 DEF FailsOnlyWithoutRoom
<1> QED
  BY <1>2, Invariance, PTL

(* A call of mmalloc or mfree is one step of the abstract allocator: what  *)
(* is handed out is aligned, inside the heap, and shares no byte.          *)
LEMMA MallocGrants ==
  ASSUME IInv, IInv', NEW n \in Requests, Malloc(n)
  PROVE  Heap!Next
<1>1. PICK b \in FreeSet(heap) :
           /\ Given(heap, b, Wanted(n), heap')
           /\ n \in Nat \ {0} /\ Wanted(n) \in Nat /\ n + Header <= Wanted(n)
           /\ asked' = [q \in DOMAIN asked \cup {b + Header} |->
                          IF q = b + Header THEN n ELSE asked[q]]
  BY MallocGives
<1> DEFINE r == b + Header
<1>2. /\ Sound(heap') /\ b \in Used(heap') /\ Used(heap) \subseteq Used(heap')
      /\ b \notin Used(heap) /\ n + Header <= heap'[b].size
      /\ \A x \in Used(heap) : heap'[x] = heap[x]
  BY <1>1 DEF Given
<1>3. \A x \in Used(heap') :
        /\ x \in Blocks(heap') /\ x \in Nat /\ heap'[x].size \in Nat /\ x % Alignment = 0
        /\ x + heap'[x].size <= End /\ Follows(heap', x) = x + heap'[x].size
  BY <1>2, SoundFacts DEF Used
<1>4. /\ DOMAIN asked = {x + Header : x \in Used(heap)}
      /\ \A x \in Used(heap) : /\ asked[x + Header] \in Nat \ {0}
                               /\ asked[x + Header] + Header <= heap[x].size
  BY DEF IInv, AskedInv
<1>5. r \notin DOMAIN asked
  BY <1>2, <1>3, <1>4
<1>6. r % Alignment = 0
  <2>1. b \in Int /\ Header \in Int /\ Header % Alignment = 0 /\ b % Alignment = 0
    BY <1>2, <1>3, HeaderAssumption
  <2>2. (b + Header) % Alignment = b % Alignment
    BY <2>1, Multiples
  <2> QED
    BY <2>1, <2>2
<1>7. r \in 0..(HeapSize - 1) /\ n \in 1..HeapSize /\ r..((r + n) - 1) \subseteq 0..(HeapSize - 1)
  BY <1>1, <1>2, <1>3
<1>8. ASSUME NEW q \in DOMAIN asked, NEW i \in Int,
             i \in q..((q + asked[q]) - 1), i \in r..((r + n) - 1)
      PROVE  FALSE
  <2>1. PICK x \in Used(heap) : q = x + Header
    BY <1>4
  <2>2. /\ x \in Used(heap') /\ x # b
        /\ asked[q] \in Nat /\ asked[q] + Header <= heap'[x].size
    BY <2>1, <1>2, <1>4
  <2>3. i \in Tile(heap', x) /\ i \in Tile(heap', b)
    BY <2>1, <2>2, <1>1, <1>2, <1>3, <1>8 DEF Tile
  <2> QED
    BY <2>2, <2>3, <1>2, <1>3, TilesDisjoint
<1>9. \A q \in DOMAIN asked : Heap!Bytes(q) \cap r..((r + n) - 1) = {}
  <2>1. \A q \in DOMAIN asked : asked[q] \in Int /\ q \in Int
    BY <1>2, <1>3, <1>4
  <2> HIDE DEF r
  <2> QED
    BY <2>1, <1>8 DEF Heap!Bytes
<1> HIDE DEF r
<1>10. asked' = [q \in DOMAIN asked \cup {r} |-> IF q = r THEN n ELSE asked[q]]
  BY <1>1 DEF r
<1>11. Heap!Grant(r, n)
  BY <1>5, <1>6, <1>7, <1>9, <1>10 DEF Heap!Grant
<1> QED
  BY <1>7, <1>11 DEF Heap!Next

THEOREM Refinement == Spec => ImplementsAllocator
<1>1. Init => Heap!Init
  BY DEF Init, Heap!Init
<1>2. IInv /\ IInv' /\ [Next]_vars => [Heap!Next]_asked
  <2> SUFFICES ASSUME IInv, IInv', [Next]_vars
               PROVE  [Heap!Next]_asked
    OBVIOUS
  <2>1. ASSUME NEW n \in Requests, Malloc(n)
        PROVE  Heap!Next
    BY <2>1, MallocGrants
  <2>2. ASSUME NEW q \in DOMAIN asked, Free(q)
        PROVE  Heap!Next
    BY <2>2 DEF Free, Restrict, Heap!Next, Heap!Return
  <2>3. CASE UNCHANGED vars
    BY <2>3 DEF vars
  <2> QED
    BY <2>1, <2>2, <2>3 DEF Next
<1> QED
  BY <1>1, <1>2, Invariance, PTL DEF Spec, ImplementsAllocator, Heap!Spec
=============================================================================
