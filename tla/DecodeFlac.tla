----------------------------- MODULE DecodeFlac -----------------------------
(***************************************************************************)
(* decode_flac with the part of FatFs it leans on: file objects, their     *)
(* test for validity, and the table of open files.  It has one way out for *)
(* success and every failure: close both files, free both blocks.          *)
(*                                                                         *)
(* The two blocks come from a heap that is neither cleared nor scrambled   *)
(* between calls, so a file object begins with what the call before left   *)
(* in it, and in the first call with what the SDRAM held.  FatFs has one   *)
(* client, so a FatFs call is one step.  Any access to the card may fail,  *)
(* and so may any allocation.  The samples themselves are left out.        *)
(***************************************************************************)
EXTENDS Integers, FiniteSets

CONSTANTS
  Locks,    \* FF_FS_LOCK
  Pcms,     \* names of output files
  Flac,     \* the input file
  Null,     \* no block, no file
  Size,     \* reads until the input ends
  MaxLost   \* bound on decoders lost

ASSUME LocksAssumption == Locks \in Nat \ {0}
ASSUME SizeAssumption  == Size \in Nat /\ MaxLost \in Nat
ASSUME NamesAssumption == Flac \notin Pcms /\ Null \notin Pcms /\ Flac # Null

VARIABLES
  pc,         \* the call decode_flac is about to make
  pcm,        \* pcmname
  block,      \* udata: whether inf and outf are allocated
  fil,        \* the two file objects
  files,      \* Files[], by slot
  pos,        \* reads made from the input
  decoder,    \* "none", "new", "ready" or "ended"
  errorcode,
  lost,       \* history: decoders that nobody can delete any more
  kept        \* history: slots whose file could not be closed

vars == <<pc, pcm, block, fil, files, pos, decoder, errorcode, lost, kept>>

Objects == {"inf", "outf"}
Slot    == 1..Locks
Blank   == {k \in Slot : files[k] = Null}

(* A file object: what validate sees in it, its lockid, 0 for one outside  *)
(* the table, and FA_MODIFIED.  It is "stale" if it passes validate though *)
(* f_open has not been called since the start.                             *)
FileObject == [state : {"closed", "open", "stale"}, lock : 0..Locks, modified : BOOLEAN]

Valid(b) == block[b] /\ fil[b].state # "closed"

-----------------------------------------------------------------------------
Init ==
  /\ pc = "idle" /\ pcm = Null
  /\ block = [b \in Objects |-> FALSE]
  /\ fil \in [Objects -> {o \in FileObject : o.state # "open"}]
  /\ files = [k \in Slot |-> Null]
  /\ pos = 0 /\ decoder = "none" /\ errorcode = 0
  /\ lost = 0 /\ kept = {}

Call ==
  /\ pc = "idle"
  /\ \E name \in Pcms : pcm' = name
  /\ pc' = "malloc" /\ errorcode' = 0 /\ decoder' = "none"
  /\ UNCHANGED <<block, fil, files, pos, lost, kept>>

(* Leave the do-while loop. *)
Break(code) == errorcode' = code /\ pc' = "close_inf"

(* Equal sizes: the second is only granted if the first is. *)
Malloc ==
  /\ pc = "malloc"
  /\ \/ block' = [b \in Objects |-> TRUE] /\ pc' = "open_inf" /\ UNCHANGED errorcode
     \/ /\ block' \in {[b \in Objects |-> FALSE], [b \in Objects |-> b = "inf"]}
        /\ Break(1)
  /\ UNCHANGED <<pcm, fil, files, pos, decoder, lost, kept>>

-----------------------------------------------------------------------------
(***************************************************************************)
(* FatFs.                                                                  *)
(***************************************************************************)
(* chk_share: nobody has the file open, and there is a slot for it.        *)
MayOpen(name) == Blank # {} /\ \A k \in Slot : files[k] # name

(* f_open gives the file the first blank slot. *)
Opens(b, name, write) ==
  /\ MayOpen(name)
  /\ \E k \in Blank :
       /\ \A j \in Blank : k <= j
       /\ files' = [files EXCEPT ![k] = name]
       /\ fil' = [fil EXCEPT ![b] = [state |-> "open", lock |-> k, modified |-> write]]

(* The file is locked or missing, or the card fails. *)
OpenFails(b) == fil' = [fil EXCEPT ![b].state = "closed"] /\ UNCHANGED files

\* faulty: the object is not invalidated
CloseHalf(b) ==
  /\ fil[b].lock \in Slot
  /\ files' = [files EXCEPT ![fil[b].lock] = Null]
  /\ kept' = kept \ {fil[b].lock}
  /\ UNCHANGED fil

(* dec_share, and the object is no longer valid. *)
Closes(b) ==
  /\ fil[b].lock \in Slot
  /\ files' = [files EXCEPT ![fil[b].lock] = Null]
  /\ kept' = kept \ {fil[b].lock}
  /\ fil' = [fil EXCEPT ![b].state = "closed"]

(* f_sync cannot write the directory entry: the file stays open.  It may   *)
(* have lost its FA_MODIFIED all the same.                                 *)
SyncFails(b) ==
  /\ fil[b].modified
  /\ \E m \in BOOLEAN : fil' = [fil EXCEPT ![b].modified = m]
  /\ kept' = IF fil[b].state = "open" THEN kept \cup {fil[b].lock} ELSE kept
  /\ UNCHANGED files

FClose(b) ==
  \/ Valid(b) /\ (Closes(b) \/ SyncFails(b))
  \/ (Valid(b) => fil[b].lock = 0) /\ UNCHANGED <<fil, files, kept>>

-----------------------------------------------------------------------------
OpenInf ==
  /\ pc = "open_inf"
  /\ \/ Opens("inf", Flac, FALSE) /\ pos' = 0 /\ pc' = "open_outf" /\ UNCHANGED errorcode
     \/ OpenFails("inf") /\ Break(2) /\ UNCHANGED pos
  /\ UNCHANGED <<pcm, block, decoder, lost, kept>>

OpenOutf ==
  /\ pc = "open_outf"
  /\ \/ Opens("outf", pcm, TRUE) /\ pc' = "new"
     \/ OpenFails("outf") /\ pc' = "reclose"
  /\ UNCHANGED <<pcm, block, pos, decoder, errorcode, lost, kept>>

(* f_close(udata.inf) on the way out, where it is closed once more. *)
Reclose ==
  /\ pc = "reclose"
  /\ FClose("inf")
  /\ Break(3)
  /\ UNCHANGED <<pcm, block, pos, decoder, lost>>

\* faulty: the failure returns at once
NewOrReturn ==
  /\ pc = "new"
  /\ \/ decoder' = "new" /\ pc' = "init" /\ UNCHANGED errorcode
     \/ errorcode' = 4 /\ pc' = "free" /\ UNCHANGED decoder
  /\ UNCHANGED <<pcm, block, fil, files, pos, lost, kept>>

NewDecoder ==
  /\ pc = "new"
  /\ \/ decoder' = "new" /\ pc' = "init" /\ UNCHANGED errorcode
     \/ Break(4) /\ UNCHANGED decoder
  /\ UNCHANGED <<pcm, block, fil, files, pos, lost, kept>>

(* The decoder that could not be initialised is not deleted. *)
InitDecoder ==
  /\ pc = "init"
  /\ \/ decoder' = "ready" /\ pc' = "process" /\ UNCHANGED <<errorcode, lost>>
     \/ /\ lost < MaxLost
        /\ lost' = lost + 1 /\ decoder' = "none" /\ Break(5)
  /\ UNCHANGED <<pcm, block, fil, files, pos, kept>>

\* faulty: no bytes are taken for bytes
ReadOn ==
  /\ pc = "process" /\ decoder = "ready"
  /\ \/ pos < Size /\ pos' = pos + 1 /\ UNCHANGED decoder
     \/ pos = Size /\ UNCHANGED <<pos, decoder>>
  /\ UNCHANGED <<pc, pcm, block, fil, files, errorcode, lost, kept>>

\* faulty: bytes are found beyond the end
ReadPast ==
  /\ pc = "process" /\ decoder = "ready"
  /\ \/ pos <= Size /\ pos' = pos + 1 /\ UNCHANGED decoder
     \/ decoder' = "ended" /\ UNCHANGED pos
  /\ UNCHANGED <<pc, pcm, block, fil, files, errorcode, lost, kept>>

(* read_callback: bytes, the end of the stream, or abort. *)
ReadCallback ==
  /\ pc = "process" /\ decoder = "ready"
  /\ \/ pos < Size /\ pos' = pos + 1 /\ UNCHANGED decoder
     \/ pos = Size /\ decoder' = "ended" /\ UNCHANGED pos
     \/ decoder' = "ended" /\ UNCHANGED pos
  /\ UNCHANGED <<pc, pcm, block, fil, files, errorcode, lost, kept>>

(* write_callback does not like the format, or the decoder gives up. *)
WriteCallbackAborts ==
  /\ pc = "process" /\ decoder = "ready" /\ pos > 0
  /\ decoder' = "ended"
  /\ UNCHANGED <<pc, pcm, block, fil, files, pos, errorcode, lost, kept>>

Delete ==
  /\ pc = "process" /\ decoder = "ended"
  /\ decoder' = "none" /\ pc' = "close_inf"
  /\ UNCHANGED <<pcm, block, fil, files, pos, errorcode, lost, kept>>

CloseInf ==
  /\ pc = "close_inf"
  /\ FClose("inf")
  /\ pc' = "close_outf"
  /\ UNCHANGED <<pcm, block, pos, decoder, errorcode, lost>>

CloseOutf ==
  /\ pc = "close_outf"
  /\ FClose("outf")
  /\ pc' = "free"
  /\ UNCHANGED <<pcm, block, pos, decoder, errorcode, lost>>

Free ==
  /\ pc = "free"
  /\ block' = [b \in Objects |-> FALSE]
  /\ pc' = "idle" /\ pcm' = Null
  /\ UNCHANGED <<fil, files, pos, decoder, errorcode, lost, kept>>

(* What happens of itself: nothing is assumed of the format. *)
Proceed ==
  \/ Malloc \/ OpenInf \/ OpenOutf \/ Reclose \/ NewDecoder \/ InitDecoder
  \/ ReadCallback \/ Delete \/ CloseInf \/ CloseOutf \/ Free

Next == Call \/ Proceed \/ WriteCallbackAborts
Spec == Init /\ [][Next]_vars
FairSpec == Spec /\ WF_vars(Proceed)

-----------------------------------------------------------------------------
(* Types.  The input is never read beyond its end.                         *)
TypeOK ==
  /\ pc \in {"idle", "malloc", "open_inf", "open_outf", "reclose", "new", "init",
             "process", "close_inf", "close_outf", "free"}
  /\ pcm \in Pcms \cup {Null}
  /\ block \in [Objects -> BOOLEAN] /\ fil \in [Objects -> FileObject]
  /\ files \in [Slot -> Pcms \cup {Flac, Null}]
  /\ pos \in 0..Size /\ decoder \in {"none", "new", "ready", "ended"}
  /\ errorcode \in 0..5 /\ lost \in 0..MaxLost /\ kept \subseteq Slot

(* An open file object owns its slot in the table of open files, and no    *)
(* two own the same: neither closing the input twice, nor closing what was *)
(* never opened, ever gives away the slot of a file that is open.          *)
FilesOwnLocks ==
  /\ \A b \in Objects : fil[b].state = "open" => fil[b].lock \in Slot /\ files[fil[b].lock] # Null
  /\ (\A b \in Objects : fil[b].state = "open") => fil["inf"].lock # fil["outf"].lock

(* When decode_flac has returned, by whatever path, both blocks and the    *)
(* decoder are given back, unless the error was 5, and every slot is free  *)
(* but those of files whose last sync the card refused.                    *)
NothingLeft ==
  pc = "idle" =>
    /\ decoder = "none" /\ \A b \in Objects : ~block[b]
    /\ \A k \in Slot : files[k] # Null => k \in kept

(* Every call returns, also when the file ends or the card fails while the *)
(* decoder asks for more.                                                  *)
DecodeReturns == (pc # "idle") ~> (pc = "idle")
=============================================================================
