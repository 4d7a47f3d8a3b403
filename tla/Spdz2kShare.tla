----------------------------- MODULE Spdz2kShare -----------------------------
(***************************************************************************)
(* Ring types of SPDZ2k shares (share/Mod2PowN.h, share/Spdz2kShare.h) and *)
(* the vector/matrix kernels over them (utils/linear_algebra.h).           *)
(*                                                                         *)
(* An integer "modulo 2^N" is stored in the smallest of uint32_t, uint64_t *)
(* and __uint128_t that holds N bits, and C++ unsigned arithmetic wraps    *)
(* modulo 2^(storage width), not modulo 2^N.  The model keeps that: the    *)
(* three storage widths are the constant StorageWidths (scaled down from   *)
(* 32/64/128 so that TLC can enumerate values), and every operation wraps  *)
(* at the storage width of its operand type.                               *)
(***************************************************************************)
EXTENDS Integers, Sequences, FiniteSetsExt, Bitwise

CONSTANTS
  K,              \* data width: ClearType is Z_{2^K}
  S,              \* statistical / MAC width
  StorageWidths   \* <<w32, w64, w128>>: widths of the three storage types

ASSUME /\ K \in Nat \ {0} /\ S \in Nat
       /\ StorageWidths \in Seq(Nat \ {0}) /\ Len(StorageWidths) = 3
       /\ StorageWidths[1] < StorageWidths[2] /\ StorageWidths[2] < StorageWidths[3]
       /\ \A i \in 1..3 : StorageWidths[i] % StorageWidths[1] = 0
       /\ K + S <= StorageWidths[3]

(* Mod2PowN_t<N>: the storage width of an integer modulo 2^N.              *)
Mod2PowN(N) ==
  CASE N <= StorageWidths[1] -> StorageWidths[1]
    [] N <= StorageWidths[2] -> StorageWidths[2]
    [] OTHER                 -> StorageWidths[3]

KBits  == Mod2PowN(K)        \* width of KType  = ClearType
SBits  == Mod2PowN(S)        \* width of SType  = KeyShrType
KSBits == Mod2PowN(K + S)    \* width of KSType = SemiShrType = GlobalKeyType

ClearType    == 0 .. (2^KBits - 1)
KeyShrType   == 0 .. (2^SBits - 1)
SemiShrType  == 0 .. (2^KSBits - 1)

(* Unsigned C++ arithmetic on a w-bit type. *)
Wrap(v, w) == v % (2^w)

(* Spdz2kShare::RemoveUpperBits: (value << S) >> S in SemiShrType.        *)
RemoveUpperBits(value) ==
  IF S > 0 THEN Wrap(value * 2^S, KSBits) \div 2^S ELSE value

RemoveUpperBitsVec(values) == [i \in DOMAIN values |-> RemoveUpperBits(values[i])]

(***************************************************************************)
(* linear_algebra.h: elementwise kernels and the row-major matrix product. *)
(* A vector is a sequence; w is the storage width of its element type.     *)
(* No kernel checks dimensions: callers guarantee them.                    *)
(***************************************************************************)
MatrixAdd(x, y, w)      == [i \in 1..Len(x) |-> Wrap(x[i] + y[i], w)]
MatrixSubtract(x, y, w) == [i \in 1..Len(x) |-> Wrap(x[i] - y[i], w)]

(* lhs is dim_row x dim_mid, rhs is dim_mid x dim_col, both row-major.     *)
MatrixMultiply(lhs, rhs, dim_row, dim_mid, dim_col, w) ==
  [i \in 1 .. dim_row * dim_col |->
     LET row == (i - 1) \div dim_col
         col == (i - 1) % dim_col
     IN  Wrap(MapThenSumSet(LAMBDA k : lhs[row * dim_mid + k] * rhs[(k - 1) * dim_col + col + 1],
                            1 .. dim_mid), w)]
=============================================================================
