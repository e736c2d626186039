-------------------------- MODULE DecodeFlacProofs --------------------------
(***************************************************************************)
(* Proofs about decode_flac, for every size of FatFs's table, every set of *)
(* output names and every length of the input.                             *)
(***************************************************************************)
EXTENDS DecodeFlac, TLAPS

USE LocksAssumption, SizeAssumption, NamesAssumption

Open(b) == fil[b].state = "open"

(* Both blocks are there from their allocation to the end of the loop. *)
BlockInv ==
  /\ pc \in {"idle", "malloc"} => ~block["inf"] /\ ~block["outf"]
  /\ pc \in {"open_inf", "open_outf", "reclose", "new", "init", "process"}
       => block["inf"] /\ block["outf"]
  /\ block["outf"] => block["inf"]

(* The input is open from its f_open until its f_close, and only then.  It *)
(* is never modified, so the card has no say in its f_close.               *)
InputInv ==
  /\ pc \in {"open_outf", "reclose", "new", "init", "process"} => Open("inf")
  /\ Open("inf") => /\ pc \in {"open_outf", "reclose", "new", "init", "process", "close_inf"}
                    /\ block["inf"] /\ ~fil["inf"].modified
  /\ fil["inf"].state = "stale" => ~Open("outf")

(* A slot in use belongs to a file that is still to be closed in this      *)
(* call, or to one the card has refused to close.                          *)
SlotInv ==
  \A k \in Slot : files[k] # Null =>
    \/ k \in kept
    \/ Open("inf") /\ fil["inf"].lock = k
    \/ Open("outf") /\ fil["outf"].lock = k /\ block["outf"]
         /\ pc \in {"new", "init", "process", "close_inf", "close_outf"}

DecoderInv ==
  /\ pc = "init" => decoder = "new"
  /\ pc = "process" => decoder \in {"ready", "ended"}
  /\ pc \notin {"init", "process"} => decoder = "none"

NameInv == pc # "idle" => pcm \in Pcms

IInv == TypeOK /\ NameInv /\ BlockInv /\ InputInv /\ FilesOwnLocks /\ SlotInv /\ DecoderInv

-----------------------------------------------------------------------------
LEMMA InitInv == Init => IInv
BY DEF Init, IInv, TypeOK, NameInv, BlockInv, InputInv, FilesOwnLocks, SlotInv,
       DecoderInv, Open, Objects, FileObject, Slot

(* The steps that leave files and file objects alone. *)
LEMMA QuietInv ==
  ASSUME IInv, UNCHANGED <<fil, files, kept>>,
         Call \/ Malloc \/ NewDecoder \/ InitDecoder \/ ReadCallback
           \/ WriteCallbackAborts \/ Delete \/ Free
  PROVE  IInv'
<1> USE DEF IInv, Objects, Break
<1>1. CASE Call
  BY <1>1 DEF Call, TypeOK, NameInv, BlockInv, InputInv, FilesOwnLocks, SlotInv, DecoderInv, Open
<1>2. CASE Malloc
  <2>1. ~Open("inf")
    BY <1>2 DEF Malloc, InputInv
  <2>2. /\ pc = "malloc" /\ pc' \in {"open_inf", "close_inf"}
        /\ block' \in [Objects -> BOOLEAN]
        /\ pc' = "open_inf" => block'["inf"] /\ block'["outf"]
        /\ block'["outf"] => block'["inf"]
        /\ errorcode' \in 0..5
        /\ UNCHANGED <<pcm, fil, files, pos, decoder, lost, kept>>
    <3>1. CASE block' = [b \in Objects |-> TRUE] /\ pc' = "open_inf" /\ UNCHANGED errorcode
      BY <1>2, <3>1 DEF Malloc, TypeOK
    <3>2. CASE block' = [b \in Objects |-> FALSE] /\ Break(1)
      BY <1>2, <3>2 DEF Malloc
    <3>3. CASE block' = [b \in Objects |-> b = "inf"] /\ Break(1)
      <4>1. block' \in [Objects -> BOOLEAN]
        BY <3>3, Zenon
      <4>2. ~block'["outf"]
        BY <3>3
      <4>3. pc = "malloc" /\ UNCHANGED <<pcm, fil, files, pos, decoder, lost, kept>>
        BY <1>2 DEF Malloc
      <4>4. pc' = "close_inf" /\ errorcode' = 1 /\ errorcode' \in 0..5
        BY <3>3
      <4> QED
        BY <4>1, <4>2, <4>3, <4>4
    <3> QED
      BY <1>2, <3>1, <3>2, <3>3 DEF Malloc
  <2>3. TypeOK'
    BY <2>2 DEF TypeOK
  <2>4. NameInv' /\ BlockInv' /\ DecoderInv'
    BY <2>2 DEF NameInv, BlockInv, DecoderInv
  <2>5. InputInv' /\ FilesOwnLocks' /\ SlotInv'
    BY <2>1, <2>2 DEF InputInv, FilesOwnLocks, SlotInv, Open
  <2> QED
    BY <2>3, <2>4, <2>5
<1>3. CASE NewDecoder
  BY <1>3 DEF NewDecoder, TypeOK, NameInv, BlockInv, InputInv, FilesOwnLocks, SlotInv, DecoderInv, Open
<1>4. CASE InitDecoder
  BY <1>4 DEF InitDecoder, TypeOK, NameInv, BlockInv, InputInv, FilesOwnLocks, SlotInv, DecoderInv, Open
<1>5. CASE ReadCallback
  BY <1>5 DEF ReadCallback, TypeOK, NameInv, BlockInv, InputInv, FilesOwnLocks, SlotInv, DecoderInv, Open
<1>6. CASE WriteCallbackAborts
  BY <1>6 DEF WriteCallbackAborts, TypeOK, NameInv, BlockInv, InputInv, FilesOwnLocks, SlotInv, DecoderInv, Open
<1>7. CASE Delete
  BY <1>7 DEF Delete, TypeOK, NameInv, BlockInv, InputInv, FilesOwnLocks, SlotInv, DecoderInv, Open
<1>8. CASE Free
  BY <1>8 DEF Free, TypeOK, NameInv, BlockInv, InputInv, FilesOwnLocks, SlotInv, DecoderInv, Open
<1> QED
  BY <1>1, <1>2, <1>3, <1>4, <1>5, <1>6, <1>7, <1>8

(* f_open takes a slot nobody has. *)
LEMMA OpenInfInv == IInv /\ OpenInf => IInv'
<1> SUFFICES ASSUME IInv, OpenInf
             PROVE  IInv'
  OBVIOUS
<1> USE DEF IInv, Objects, Blank, Slot
<1>0. pc = "open_inf" /\ UNCHANGED <<pcm, block, decoder, lost, kept>>
  BY DEF OpenInf
<1>1. CASE Opens("inf", Flac, FALSE) /\ pos' = 0 /\ pc' = "open_outf" /\ UNCHANGED errorcode
  <2>1. PICK k \in Blank : /\ files' = [files EXCEPT ![k] = Flac]
                           /\ fil' = [fil EXCEPT !["inf"] = [state |-> "open", lock |-> k, modified |-> FALSE]]
    BY <1>1 DEF Opens
  <2>2. TypeOK'
    BY <1>0, <1>1, <2>1 DEF TypeOK, FileObject
  <2>3. NameInv' /\ BlockInv' /\ DecoderInv'
    BY <1>0, <1>1 DEF NameInv, BlockInv, DecoderInv
  <2>4. InputInv'
    BY <1>0, <1>1, <2>1 DEF InputInv, BlockInv, Open, TypeOK
  <2>5. FilesOwnLocks' /\ SlotInv'
    BY <1>0, <1>1, <2>1 DEF FilesOwnLocks, SlotInv, InputInv, Open, TypeOK
  <2> QED
    BY <2>2, <2>3, <2>4, <2>5
<1>2. CASE OpenFails("inf") /\ Break(2) /\ UNCHANGED pos
  <2>1. fil' = [fil EXCEPT !["inf"].state = "closed"] /\ files' = files
    BY <1>2 DEF OpenFails
  <2>2. pc' = "close_inf" /\ errorcode' = 2
    BY <1>2 DEF Break
  <2>3. TypeOK'
    BY <1>0, <1>2, <2>1, <2>2 DEF TypeOK, FileObject
  <2>4. NameInv' /\ BlockInv' /\ DecoderInv'
    BY <1>0, <2>2 DEF NameInv, BlockInv, DecoderInv
  <2>5. InputInv' /\ FilesOwnLocks'
    BY <1>0, <2>1, <2>2 DEF InputInv, FilesOwnLocks, Open, TypeOK
  <2>6. SlotInv'
    BY <1>0, <2>1, <2>2 DEF InputInv, SlotInv, Open, TypeOK
  <2> QED
    BY <2>3, <2>4, <2>5, <2>6
<1> QED
  BY <1>1, <1>2 DEF OpenInf

LEMMA OpenOutfInv == IInv /\ OpenOutf => IInv'
<1> SUFFICES ASSUME IInv, OpenOutf
             PROVE  IInv'
  OBVIOUS
<1> USE DEF IInv, OpenOutf, Objects, Blank, Slot
<1>1. CASE Opens("outf", pcm, TRUE) /\ pc' = "new"
  <2>1. PICK k \in Blank : /\ files' = [files EXCEPT ![k] = pcm]
                           /\ fil' = [fil EXCEPT !["outf"] = [state |-> "open", lock |-> k, modified |-> TRUE]]
    BY <1>1 DEF Opens
  <2>2. TypeOK' /\ NameInv' /\ BlockInv' /\ DecoderInv'
    BY <1>1, <2>1 DEF TypeOK, NameInv, BlockInv, DecoderInv, FileObject
  <2>3. InputInv'
    BY <1>1, <2>1 DEF InputInv, Open, TypeOK
  <2>4. FilesOwnLocks'
    BY <1>1, <2>1 DEF FilesOwnLocks, NameInv, InputInv, Open, TypeOK
  <2>5. SlotInv'
    BY <1>1, <2>1 DEF SlotInv, BlockInv, InputInv, Open, TypeOK
  <2> QED
    BY <2>2, <2>3, <2>4, <2>5
<1>2. CASE OpenFails("outf") /\ pc' = "reclose"
  <2>1. TypeOK' /\ NameInv' /\ BlockInv' /\ DecoderInv'
    BY <1>2 DEF OpenFails, TypeOK, NameInv, BlockInv, DecoderInv, FileObject
  <2>2. InputInv' /\ FilesOwnLocks'
    BY <1>2 DEF OpenFails, InputInv, FilesOwnLocks, Open, TypeOK, FileObject
  <2>3. SlotInv'
    BY <1>2 DEF OpenFails, SlotInv, Open, TypeOK
  <2> QED
    BY <2>1, <2>2, <2>3
<1> QED
  BY <1>1, <1>2

-----------------------------------------------------------------------------
(* What f_close does to a file object and to the table. *)
LEMMA CloseEffect ==
  ASSUME IInv, NEW b \in Objects, FClose(b)
  PROVE  \/ /\ fil[b].state # "closed" /\ fil[b].lock \in Slot
            /\ files' = [files EXCEPT ![fil[b].lock] = Null]
            /\ kept' = kept \ {fil[b].lock}
            /\ fil' = [fil EXCEPT ![b].state = "closed"]
         \/ /\ fil[b].modified /\ UNCHANGED files
            /\ \E m \in BOOLEAN : fil' = [fil EXCEPT ![b].modified = m]
            /\ kept' = IF Open(b) THEN kept \cup {fil[b].lock} ELSE kept
         \/ ~(block[b] /\ Open(b)) /\ UNCHANGED <<fil, files, kept>>
BY DEF FClose, Closes, SyncFails, Valid, Open, IInv, FilesOwnLocks, Slot

(* f_close keeps types and the ownership of slots. *)
LEMMA CloseKeeps ==
  ASSUME IInv, NEW b \in Objects, FClose(b),
         fil[b].state = "stale" => \A o \in Objects : ~Open(o)
  PROVE  /\ fil' \in [Objects -> FileObject] /\ kept' \subseteq Slot
         /\ files' \in [Slot -> Pcms \cup {Flac, Null}]
         /\ FilesOwnLocks'
<1> USE DEF IInv, Objects, Slot
<1>1. CASE /\ fil[b].state # "closed" /\ fil[b].lock \in Slot
           /\ files' = [files EXCEPT ![fil[b].lock] = Null]
           /\ kept' = kept \ {fil[b].lock}
           /\ fil' = [fil EXCEPT ![b].state = "closed"]
  BY <1>1 DEF TypeOK, FileObject, FilesOwnLocks, Open
<1>2. CASE /\ fil[b].modified /\ UNCHANGED files
           /\ \E m \in BOOLEAN : fil' = [fil EXCEPT ![b].modified = m]
           /\ kept' = IF Open(b) THEN kept \cup {fil[b].lock} ELSE kept
  BY <1>2 DEF TypeOK, FileObject, FilesOwnLocks, Open
<1>3. CASE UNCHANGED <<fil, files, kept>>
  BY <1>3 DEF TypeOK, FilesOwnLocks
<1> QED
  BY <1>1, <1>2, <1>3, CloseEffect

(* A slot in use after f_close was in use before, and was not that of the  *)
(* file closed unless the card refused.                                    *)
LEMMA CloseFrees ==
  ASSUME IInv, NEW b \in Objects, FClose(b)
  PROVE  /\ \A o \in Objects : /\ o # b => fil'[o] = fil[o]
                               /\ fil'[o].state \in {fil[o].state, "closed"}
                               /\ fil'[o].lock = fil[o].lock
                               /\ fil'[o].modified => fil[b].modified \/ fil[o].modified
         /\ \A k \in Slot : files'[k] # Null =>
              /\ files[k] # Null
              /\ k \in kept' \/ (k \notin kept /\ ~(block[b] /\ Open(b) /\ fil[b].lock = k))
<1> USE DEF IInv, Objects, Slot
<1>1. CASE /\ fil[b].state # "closed" /\ fil[b].lock \in Slot
           /\ files' = [files EXCEPT ![fil[b].lock] = Null]
           /\ kept' = kept \ {fil[b].lock}
           /\ fil' = [fil EXCEPT ![b].state = "closed"]
  BY <1>1 DEF TypeOK, FileObject, Open
<1>2. CASE /\ fil[b].modified /\ UNCHANGED files
           /\ \E m \in BOOLEAN : fil' = [fil EXCEPT ![b].modified = m]
           /\ kept' = IF Open(b) THEN kept \cup {fil[b].lock} ELSE kept
  BY <1>2 DEF TypeOK, FileObject, Open
<1>3. CASE ~(block[b] /\ Open(b)) /\ UNCHANGED <<fil, files, kept>>
  BY <1>3 DEF TypeOK
<1> QED
  BY <1>1, <1>2, <1>3, CloseEffect

(* Nothing keeps the input from being closed. *)
LEMMA InputCloses == IInv /\ FClose("inf") => ~Open("inf")'
BY CloseEffect DEF FClose, SyncFails, Closes, IInv, InputInv, FilesOwnLocks, TypeOK, Open,
                   Valid, Objects, FileObject, Slot

LEMMA RecloseInv == IInv /\ Reclose => IInv'
<1> SUFFICES ASSUME IInv, Reclose
             PROVE  IInv'
  OBVIOUS
<1>1. /\ pc = "reclose" /\ pc' = "close_inf" /\ errorcode' = 3 /\ FClose("inf")
      /\ UNCHANGED <<pcm, block, pos, decoder, lost>>
  BY DEF Reclose, Break
<1>2. "inf" \in Objects /\ "outf" \in Objects /\ Open("inf") /\ block["inf"]
  BY <1>1 DEF IInv, InputInv, Objects
<1>3. TypeOK' /\ FilesOwnLocks'
  BY <1>1, <1>2, CloseKeeps DEF IInv, TypeOK, Open
<1>4. NameInv' /\ BlockInv' /\ DecoderInv'
  BY <1>1 DEF IInv, NameInv, BlockInv, DecoderInv
<1>5. ~Open("inf")' /\ fil'["outf"] = fil["outf"] /\ fil'["inf"].state # "stale"
  BY <1>1, <1>2, InputCloses, CloseFrees DEF Open
<1>6. InputInv'
  BY <1>1, <1>5 DEF InputInv, Open
<1>7. SlotInv'
  BY <1>1, <1>2, <1>5, CloseFrees DEF IInv, SlotInv, Open
<1> QED
  BY <1>3, <1>4, <1>6, <1>7 DEF IInv

LEMMA CloseInfInv == IInv /\ CloseInf => IInv'
<1> SUFFICES ASSUME IInv, CloseInf
             PROVE  IInv'
  OBVIOUS
<1>1. /\ pc = "close_inf" /\ pc' = "close_outf" /\ FClose("inf")
      /\ UNCHANGED <<pcm, block, pos, decoder, errorcode, lost>>
  BY DEF CloseInf
<1>2. "inf" \in Objects /\ "outf" \in Objects
  BY DEF Objects
<1>3. fil["inf"].state = "stale" => ~Open("inf") /\ ~Open("outf")
  BY DEF IInv, InputInv, Open
<1>4. TypeOK' /\ FilesOwnLocks'
  BY <1>1, <1>2, <1>3, CloseKeeps DEF IInv, TypeOK, Objects
<1>5. NameInv' /\ BlockInv' /\ DecoderInv'
  BY <1>1 DEF IInv, NameInv, BlockInv, DecoderInv
<1>6. /\ ~Open("inf")' /\ fil'["outf"] = fil["outf"]
      /\ fil'["inf"].state = "stale" => fil["inf"].state = "stale"
  BY <1>1, <1>2, InputCloses, CloseFrees
<1>7. InputInv'
  BY <1>1, <1>3, <1>6 DEF InputInv, Open
<1>8. SlotInv'
  BY <1>1, <1>2, <1>6, CloseFrees DEF IInv, SlotInv, InputInv, Open
<1> QED
  BY <1>4, <1>5, <1>7, <1>8 DEF IInv

LEMMA CloseOutfInv == IInv /\ CloseOutf => IInv'
<1> SUFFICES ASSUME IInv, CloseOutf
             PROVE  IInv'
  OBVIOUS
<1>1. /\ pc = "close_outf" /\ pc' = "free" /\ FClose("outf")
      /\ UNCHANGED <<pcm, block, pos, decoder, errorcode, lost>>
  BY DEF CloseOutf
<1>2. "inf" \in Objects /\ "outf" \in Objects /\ ~Open("inf")
  BY <1>1 DEF IInv, InputInv, Objects
<1>3. TypeOK' /\ FilesOwnLocks'
  BY <1>1, <1>2, CloseKeeps DEF IInv, TypeOK, Objects, Open
<1>4. NameInv' /\ BlockInv' /\ DecoderInv'
  BY <1>1 DEF IInv, NameInv, BlockInv, DecoderInv
<1>5. fil'["inf"] = fil["inf"] /\ (Open("outf")' => Open("outf"))
  BY <1>1, <1>2, CloseFrees DEF Open
<1>6. InputInv'
  BY <1>1, <1>2, <1>5 DEF IInv, InputInv, Open
<1>7. SlotInv'
  BY <1>1, <1>2, CloseFrees DEF IInv, SlotInv, Open
<1> QED
  BY <1>3, <1>4, <1>6, <1>7 DEF IInv

-----------------------------------------------------------------------------
(* What is true of files, slots, blocks and decoder at every call that     *)
(* decode_flac makes.                                                      *)
THEOREM Invariance == Spec => []IInv
<1>1. IInv /\ [Next]_vars => IInv'
  <2> SUFFICES ASSUME IInv, [Next]_vars
               PROVE  IInv'
    OBVIOUS
  <2>1. CASE Call
    BY <2>1, QuietInv DEF Call
  <2>2. CASE Malloc
    BY <2>2, QuietInv DEF Malloc
  <2>3. CASE OpenInf
    BY <2>3, OpenInfInv
  <2>4. CASE OpenOutf
    BY <2>4, OpenOutfInv
  <2>5. CASE Reclose
    BY <2>5, RecloseInv
  <2>6. CASE NewDecoder
    BY <2>6, QuietInv DEF NewDecoder
  <2>7. CASE InitDecoder
    BY <2>7, QuietInv DEF InitDecoder
  <2>8. CASE ReadCallback
    BY <2>8, QuietInv DEF ReadCallback
  <2>9. CASE WriteCallbackAborts
    BY <2>9, QuietInv DEF WriteCallbackAborts
  <2>10. CASE Delete
    BY <2>10, QuietInv DEF Delete
  <2>11. CASE CloseInf
    BY <2>11, CloseInfInv
  <2>12. CASE CloseOutf
    BY <2>12, CloseOutfInv
  <2>13. CASE Free
    BY <2>13, QuietInv DEF Free
  <2>14. CASE UNCHANGED vars
    BY <2>14 DEF vars, IInv, TypeOK, NameInv, BlockInv, InputInv, FilesOwnLocks, SlotInv,
                 DecoderInv, Open
  <2> QED
    BY <2>1, <2>2, <2>3, <2>4, <2>5, <2>6, <2>7, <2>8, <2>9, <2>10, <2>11, <2>12, <2>13,
       <2>14 DEF Next, Proceed
<1> QED
  BY <1>1, InitInv, PTL DEF Spec

(* Types; the input is never read beyond its end. *)
THEOREM TypeCorrect == Spec => []TypeOK
<1>1. IInv => TypeOK
  BY DEF IInv
<1> QED
  BY <1>1, Invariance, PTL

(* No close on the way out, of an open file, a closed one or one that was  *)
(* never opened, takes the slot of another open file.                      *)
THEOREM LocksAreOwned == Spec => []FilesOwnLocks
<1>1. IInv => FilesOwnLocks
  BY DEF IInv
<1> QED
  BY <1>1, Invariance, PTL

(* Whatever failed, decode_flac gives back what it took, but for decoders  *)
(* that could not be initialised and files the card refused to close.      *)
THEOREM NothingIsLeft == Spec => []NothingLeft
<1>1. IInv => NothingLeft
  BY DEF IInv, NothingLeft, BlockInv, DecoderInv, SlotInv, InputInv, Objects
<1> QED
  BY <1>1, Invariance, PTL
=============================================================================
