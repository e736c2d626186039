------------------------------ MODULE ByteFifo ------------------------------
(***************************************************************************)
(* What the audio path is promised by its stream buffer: a bounded queue   *)
(* of bytes between one writer and one reader.  An offered chunk is        *)
(* appended once, in order, possibly cut short; a block of Trans bytes is  *)
(* taken from the front, whole or not at all.                              *)
(***************************************************************************)
EXTENDS Integers, Sequences

CONSTANTS
  Byte,      \* values of a byte
  Capacity,  \* most bytes the queue ever holds
  Chunks,    \* sizes of the chunks a writer offers
  Trans      \* size of the block the reader takes

VARIABLES
  queue,     \* bytes accepted and not yet delivered
  offer,     \* the chunk the writer is sending, << >> when it sends none
  block      \* the block just delivered, << >> once the reader is done with it

fifoVars == <<queue, offer, block>>

Init == queue = << >> /\ offer = << >> /\ block = << >>

Offer(d) ==
  /\ offer = << >>
  /\ offer' = d
  /\ UNCHANGED <<queue, block>>

(* A prefix of the chunk, perhaps empty, is appended; the rest is gone.    *)
Accept(n) ==
  /\ offer # << >>
  /\ Len(queue) + n <= Capacity
  /\ queue' = queue \o SubSeq(offer, 1, n)
  /\ offer' = << >>
  /\ UNCHANGED block

Deliver ==
  /\ block = << >>
  /\ Len(queue) >= Trans
  /\ block' = SubSeq(queue, 1, Trans)
  /\ queue' = SubSeq(queue, Trans + 1, Len(queue))
  /\ UNCHANGED offer

Release ==
  /\ block # << >>
  /\ block' = << >>
  /\ UNCHANGED <<queue, offer>>

Next ==
  \/ \E n \in Chunks : \E d \in [1..n -> Byte] : Offer(d)
  \/ \E n \in 0..Len(offer) : Accept(n)
  \/ Deliver
  \/ Release

Spec == Init /\ [][Next]_fifoVars

=============================================================================
