----------------------------- MODULE Allocator -----------------------------
(***************************************************************************)
(* What a caller of mmalloc, mcalloc and mfree relies on: an extent that   *)
(* was granted is aligned, lies in the heap and shares no byte with any    *)
(* other until it is given back.                                           *)
(***************************************************************************)
EXTENDS Integers, FiniteSets

CONSTANTS
  HeapSize,   \* bytes of the heap
  Alignment   \* portBYTE_ALIGNMENT

VARIABLE granted  \* the extents in use: a function from pointers to lengths

Bytes(p) == p..(p + granted[p] - 1)

Init == granted = << >>

Grant(p, n) ==
  /\ p \notin DOMAIN granted
  /\ p % Alignment = 0
  /\ p..(p + n - 1) \subseteq 0..(HeapSize - 1)
  /\ \A q \in DOMAIN granted : Bytes(q) \cap p..(p + n - 1) = {}
  /\ granted' = [q \in DOMAIN granted \cup {p} |-> IF q = p THEN n ELSE granted[q]]

Return(p) ==
  /\ p \in DOMAIN granted
  /\ granted' = [q \in DOMAIN granted \ {p} |-> granted[q]]

Next ==
  \/ \E p \in 0..(HeapSize - 1), n \in 1..HeapSize : Grant(p, n)
  \/ \E p \in DOMAIN granted : Return(p)

Spec == Init /\ [][Next]_granted

=============================================================================
