-------------------------------- MODULE Party --------------------------------
(***************************************************************************)
(* The peer link of networking/Party.h as seen by the protocol: one byte  *)
(* stream per direction, no framing.  SendVec writes the raw memory of a  *)
(* vector<T> and ReceiveVec<T>(n) reads exactly n * sizeof(T) bytes, so   *)
(* what a receiver gets depends only on the byte stream, not on how the   *)
(* sender grouped it.  A stream is a sequence of units of the smallest    *)
(* storage width (every storage width is a multiple of it); integers are  *)
(* laid out little-endian, as on the x86-64 and ARM64 builds.             *)
(***************************************************************************)
EXTENDS Spdz2kShare

Unit == StorageWidths[1]

(* Number of stream units occupied by one integer of storage width w.     *)
UnitsPer(w) == w \div Unit

(* The units of a vector of w-bit integers, as SendVec writes them.       *)
Encode(vec, w) ==
  [j \in 1 .. Len(vec) * UnitsPer(w) |->
     LET i == (j - 1) \div UnitsPer(w) + 1
         k == (j - 1) % UnitsPer(w)
     IN  (vec[i] \div 2^(k * Unit)) % 2^Unit]

(* The vector of n w-bit integers that ReceiveVec<T>(n) builds from the   *)
(* first n * sizeof(T) bytes of a stream.                                  *)
Decode(units, n, w) ==
  [i \in 1 .. n |->
     MapThenSumSet(LAMBDA k : units[(i - 1) * UnitsPer(w) + k + 1] * 2^(k * Unit),
                   0 .. UnitsPer(w) - 1)]
=============================================================================
