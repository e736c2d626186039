------------------------------ MODULE MMalloc ------------------------------
(***************************************************************************)
(* The heap of mmalloc.c, from which decode_flac and, by the macros of     *)
(* config.h, libFLAC take their memory: a first-fit list of free blocks in *)
(* the order of their addresses, split on allocation and merged with their *)
(* neighbours on release.                                                  *)
(*                                                                         *)
(* heap maps the address of every block header to its two words, and the   *)
(* list head xStart to the same.  The code takes no lock: one task calls   *)
(* it, so a call is a step.                                                *)
(***************************************************************************)
EXTENDS Integers, FiniteSets, Functions

CONSTANTS
  HeapSize,    \* configTOTAL_HEAP_SIZE
  Alignment,   \* portBYTE_ALIGNMENT
  Header,      \* xHeapStructSize
  Word,        \* 2^w, the values of a size_t
  Requests,    \* sizes asked for, any size_t
  MaxCalls     \* bound on the successful allocations

ASSUME AlignmentAssumption == Alignment \in Nat \ {0}
ASSUME HeaderAssumption ==
  Header \in Nat \ {0} /\ Header % Alignment = 0
ASSUME HeapAssumption ==
  HeapSize \in Nat /\ HeapSize % Alignment = 0 /\ HeapSize >= 3 * Header
ASSUME WordAssumption == Word \in Nat /\ Word % 2 = 0 /\ HeapSize < Word \div 2
ASSUME RequestsAssumption == Requests \subseteq 0..(Word - 1)
ASSUME MaxCallsAssumption == MaxCalls \in Nat

VARIABLES
  heap,        \* headers: [next, size, used], keyed by their address
  free,        \* xFreeBytesRemaining
  minimum,     \* xMinimumEverFreeBytesRemaining
  allocations, \* xNumberOfSuccessfulAllocations
  frees,       \* xNumberOfSuccessfulFrees
  asked        \* history: bytes asked for, by pointer in use

vars == <<heap, free, minimum, allocations, frees, asked>>

Start == -1                    \* &xStart
Null  == -2
End   == HeapSize - Header     \* pxEnd
MinimumBlock == 2 * Header     \* heapMINIMUM_BLOCK_SIZE
TopBit == Word \div 2          \* xBlockAllocatedBit

Blocks(h)  == DOMAIN h \ {Start, End}
Used(h)    == {b \in Blocks(h) : h[b].used}
FreeSet(h) == Blocks(h) \ Used(h)
Follows(h, b) == b + h[b].size

-----------------------------------------------------------------------------
(* prvmHeapInit, on the first call. *)
FreshHeap ==
  [b \in {Start, 0, End} |->
     CASE b = Start -> [next |-> 0,    size |-> 0,   used |-> FALSE]
       [] b = 0     -> [next |-> End,  size |-> End, used |-> FALSE]
       [] b = End   -> [next |-> Null, size |-> 0,   used |-> FALSE]]

(* The size a request is increased to, 0 when it cannot be: a header goes  *)
(* in front, and blocks stay aligned.                                      *)
Increased(n) ==
  LET sum  == (n + Header) % Word
      odd  == sum % Alignment
      even == (sum + Alignment - odd) % Word
  IN IF n = 0 \/ sum <= n THEN 0
     ELSE IF odd = 0 THEN sum
     ELSE IF even > sum THEN even ELSE 0

WantedUnaligned(n) == IF n < TopBit THEN n + Header ELSE 0  \* faulty
Wanted(n) == IF n < TopBit THEN Increased(n) ELSE 0

(* Where a walk along the list stops: it goes on from xStart, or from a     *)
(* block of the list, as long as the next block is one of on.              *)
List(h) == FreeSet(h) \cup {Start}

Walk(h, list, on) ==
  LET from[p \in list] == IF h[p].next \in on THEN from[h[p].next] ELSE p
  IN from[Start]

(* The block in front of the first one that is large enough; when there is *)
(* none, the one in front of pxEnd, the only one of the list without next. *)
NotLarger(b, w) == heap[b].size <= w  \* faulty: an exact fit is passed over
TooSmall(b, w) == heap[b].size < w

FirstFit(w) ==
  Walk(heap, List(heap), {b \in List(heap) : TooSmall(b, w) /\ heap[b].next # Null})

(* The last block of the list below block b, which is not yet in it. *)
InsertionPoint(h, b) ==
  Walk(h, List(h) \ {b}, {x \in List(h) \ {b} : x < b})

(* prvmInsertBlockIntoFreeList: link in block b, merged with the one below *)
(* it, with the one above it unless that is pxEnd, or with both.           *)
InsertUnmerged(h, b) ==  \* faulty: never merges
  LET p == InsertionPoint(h, b) IN
    [h EXCEPT ![p].next = b, ![b] = [next |-> h[p].next, size |-> @.size, used |-> FALSE]]

Insert(h, b) ==
  LET p     == InsertionPoint(h, b)
      above == h[p].next
      below == Follows(h, p) = b
      at    == IF below THEN p ELSE b
      size  == IF below THEN h[p].size + h[b].size ELSE h[b].size
      join  == at + size = above /\ above # End
      block == [next |-> IF join THEN h[above].next ELSE above,
                size |-> IF join THEN size + h[above].size ELSE size,
                used |-> FALSE]
      gone  == (IF below THEN {b} ELSE {}) \cup (IF join THEN {above} ELSE {})
  IN [x \in DOMAIN h \ gone |->
        IF x = at THEN block
        ELSE IF x = p THEN [h[p] EXCEPT !.next = at]
        ELSE h[x]]

(* Block b gives w bytes; the rest goes back if it is worth a block.       *)
Carve(h, b, w) ==
  IF h[b].size - w > MinimumBlock
  THEN Insert([x \in DOMAIN h \cup {b + w} |->
                 CASE x = b + w -> [next |-> Null, size |-> h[b].size - w, used |-> FALSE]
                   [] x = b     -> [next |-> Null, size |-> w, used |-> TRUE]
                   [] OTHER     -> h[x]], b + w)
  ELSE [h EXCEPT ![b].next = Null, ![b].used = TRUE]

MallocFails(n) ==
  \/ Wanted(n) = 0
  \/ Wanted(n) > free
  \/ heap[FirstFit(Wanted(n))].next = End

(* A request that is met.  mcalloc(k, m) is the same with n = k * m, which *)
(* no caller lets wrap, and the bytes cleared.  One that fails returns     *)
(* NULL and changes nothing.                                               *)
Malloc(n) ==
  LET w == Wanted(n)
      p == FirstFit(w)
      b == heap[p].next
  IN /\ ~MallocFails(n)
     /\ allocations < MaxCalls
     /\ heap' = Carve([heap EXCEPT ![p].next = heap[b].next], b, w)
     /\ free' = free - heap'[b].size
     /\ minimum' = IF free' < minimum THEN free' ELSE minimum
     /\ allocations' = allocations + 1
     /\ asked' = [q \in DOMAIN asked \cup {b + Header} |->
                    IF q = b + Header THEN n ELSE asked[q]]
     /\ UNCHANGED frees

(* mfree of a pointer in use; mfree(NULL) does nothing, and a pointer that *)
(* is not in use stops the program in configASSERT.                        *)
SizeWithHeader(b) == heap[b].size + Header  \* faulty
SizeOf(b) == heap[b].size

Free(q) ==
  LET b == q - Header IN
    /\ free' = free + SizeOf(b)
    /\ heap' = Insert([heap EXCEPT ![b].used = FALSE], b)
    /\ frees' = frees + 1
    /\ asked' = Restrict(asked, DOMAIN asked \ {q})
    /\ UNCHANGED <<minimum, allocations>>

(* xNumberOfFreeBlocks of vmPortGetHeapStats.  Its loop counts a block     *)
(* before it asks for pxEnd: with no free block it counts pxEnd and runs   *)
(* on through whatever is stored at address NULL.                          *)
StatsMayCount(n) ==
  LET count[b \in DOMAIN heap] ==
        IF heap[b].next = End THEN 1 ELSE 1 + count[heap[b].next]
  IN IF heap[Start].next = End THEN n >= 1 ELSE n = count[heap[Start].next]

-----------------------------------------------------------------------------
Init ==
  /\ heap = FreshHeap
  /\ free = End /\ minimum = End
  /\ allocations = 0 /\ frees = 0 /\ asked = << >>

Next ==
  \/ \E n \in Requests : Malloc(n)
  \/ \E q \in DOMAIN asked : Free(q)

Spec == Init /\ [][Next]_vars

-----------------------------------------------------------------------------
(***************************************************************************)
(* Properties.                                                             *)
(***************************************************************************)

(* Every link leads to a header that exists, and sizes and counters stay   *)
(* within the heap.                                                        *)
TypeOK ==
  /\ {Start, End} \subseteq DOMAIN heap /\ DOMAIN heap \subseteq Start..End
  /\ \A b \in DOMAIN heap : heap[b].next \in DOMAIN heap \cup {Null}
                            /\ heap[b].size \in 0..End /\ heap[b].used \in BOOLEAN
  /\ free \in 0..End /\ minimum \in 0..End
  /\ allocations \in 0..MaxCalls /\ frees \in 0..MaxCalls

(* The blocks, used and free, follow each other from the first byte to     *)
(* pxEnd: none overlap and no byte is lost to both lists.                  *)
Tiled(h) ==
  /\ 0 \in Blocks(h)
  /\ \A b \in Blocks(h) :
       /\ b % Alignment = 0 /\ h[b].size > Header
       /\ Follows(h, b) \in Blocks(h) \cup {End}
       /\ \A x \in Blocks(h) : ~(b < x /\ x < Follows(h, b))

(* The list holds exactly the free blocks, by rising address.              *)
Listed(h) ==
  /\ \A b \in FreeSet(h) \cup {Start} :
       /\ h[b].next \in FreeSet(h) \cup {End}
       /\ h[b].next > b
       /\ \A x \in FreeSet(h) : ~(b < x /\ x < h[b].next)
  /\ \A b \in Used(h) \cup {End} : h[b].next = Null

(* No two free blocks touch: after any sequence of calls in which all is   *)
(* given back, the heap is one block again.                                *)
Merged(h) == \A b \in FreeSet(h) : Follows(h, b) \notin FreeSet(h)

(* The shape of the heap after any sequence of mmalloc and mfree.          *)
HeapSound == Tiled(heap) /\ Listed(heap) /\ Merged(heap)

FreeBytes(h) == {i \in 0..(End - 1) : \E b \in FreeSet(h) : i \in b..(Follows(h, b) - 1)}

(* The counters agree with the list, whatever was split or merged: there   *)
(* are free bytes in free blocks, and as many blocks in use as calls were  *)
(* not undone.                                                             *)
Accounting ==
  /\ free = Cardinality(FreeBytes(heap))
  /\ minimum <= free
  /\ allocations - frees = Cardinality(Used(heap))

(* mmalloc gives up only when no free block could hold the request: the    *)
(* walk that ends on a NULL link and the test of xFreeBytesRemaining       *)
(* before it are never too strict, nor too lax.                            *)
FailsOnlyWithoutRoom ==
  \A n \in Requests :
    MallocFails(n) <=> \/ n = 0 \/ n >= TopBit
                       \/ \A b \in FreeSet(heap) : heap[b].size < n + Header

(* Every pointer in use owns the bytes that were asked for, alone.         *)
Heap == INSTANCE Allocator WITH granted <- asked

ImplementsAllocator == Heap!Spec

(* The comment on xNumberOfFreeBlocks: "The number of free memory blocks   *)
(* within the heap at the time vmPortGetHeapStats() is called."            *)
StatsCountFreeBlocks ==
  \A n \in 0..(HeapSize \div Header) :
    StatsMayCount(n) => n = Cardinality(FreeSet(heap))

=============================================================================
