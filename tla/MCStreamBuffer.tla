--------------------------- MODULE MCStreamBuffer ---------------------------
(***************************************************************************)
(* Small instances of the stream buffer.  Two byte values are enough to    *)
(* tell a byte from its neighbour; the storage is long enough for a chunk  *)
(* and a block to wrap at every index.                                     *)
(***************************************************************************)
EXTENDS StreamBuffer

(* The instances keep the sizing rule, so NoMutualWait and SendReturns are *)
(* not vacuous.                                                            *)
ASSUME MCSizedAssumption == Sized

=============================================================================
