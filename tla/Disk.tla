-------------------------------- MODULE Disk --------------------------------
(***************************************************************************)
(* What FatFs relies on when it calls disk_read and disk_write: a read     *)
(* that succeeds returns what the medium stores, a write that succeeds has *)
(* stored every block, and one that fails has touched no other block and   *)
(* left each of its own with either the old or the new content.            *)
(***************************************************************************)
EXTENDS Integers, Sequences

CONSTANTS
  NBlocks,  \* blocks of the medium
  Value,    \* contents of a block
  Counts    \* numbers of blocks a request asks for

VARIABLES
  stored,   \* content of each block
  request,  \* the request being served, None when there is none
  reply     \* its answer, None until there is one

diskVars == <<stored, request, reply>>

Block == 0..(NBlocks - 1)

None    == [op |-> "none"]
Failure == [ok |-> FALSE, data |-> << >>]

Read(a, n)  == [op |-> "read", addr |-> a, n |-> n, data |-> << >>]
Write(a, d) == [op |-> "write", addr |-> a, n |-> Len(d), data |-> d]

Asked == Block \cap request.addr..(request.addr + request.n - 1)

Init ==
  /\ stored \in [Block -> Value]
  /\ request = None
  /\ reply = None

Ask ==
  /\ request = None
  /\ \E a \in Block, n \in Counts :
       \/ request' = Read(a, n)
       \/ \E d \in [1..n -> Value] : request' = Write(a, d)
  /\ UNCHANGED <<stored, reply>>

Store ==
  /\ request.op = "write" /\ reply = None
  /\ \E b \in Asked :
       stored' = [stored EXCEPT ![b] = request.data[b - request.addr + 1]]
  /\ UNCHANGED <<request, reply>>

AnswerRead ==
  /\ request.op = "read" /\ reply = None
  /\ request.addr + request.n <= NBlocks
  /\ reply' = [ok |-> TRUE,
               data |-> [k \in 1..request.n |-> stored[request.addr + k - 1]]]
  /\ UNCHANGED <<stored, request>>

AnswerWrite ==
  /\ request.op = "write" /\ reply = None
  /\ request.addr + request.n <= NBlocks
  /\ \A k \in 1..request.n : stored[request.addr + k - 1] = request.data[k]
  /\ reply' = [ok |-> TRUE, data |-> << >>]
  /\ UNCHANGED <<stored, request>>

Fail ==
  /\ request # None /\ reply = None
  /\ reply' = Failure
  /\ UNCHANGED <<stored, request>>

Done ==
  /\ reply # None
  /\ request' = None /\ reply' = None
  /\ UNCHANGED stored

Next == Ask \/ Store \/ AnswerRead \/ AnswerWrite \/ Fail \/ Done

Spec == Init /\ [][Next]_diskVars

=============================================================================
