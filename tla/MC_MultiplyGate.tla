--------------------------- MODULE MC_MultiplyGate ---------------------------
(***************************************************************************)
(* Model-checking harness for MultiplyGate: the properties of one gate.    *)
(***************************************************************************)
EXTENDS MultiplyGate, TLC

(* Storage widths scaled from uint32_t, uint64_t, __uint128_t. *)
MCStorageWidths == <<1, 2, 4>>

(* The inputs as the clear values x and y of the circuit. *)
XClear == x_input
YClear == y_input

(* x * y over Z_{2^K}: what the multiplication gate must compute. *)
Product == MatrixMultiply(XClear, YClear, DimRow, DimMid, DimCol, KBits)

(* What party p has opened, read in Z_{2^K}. *)
OpenedValue(p) == [i \in 1 .. SizeOutput |-> Delta_clear[p][i] % 2^K]

-----------------------------------------------------------------------------
TypeOK ==
  /\ dealer_pc \in {"start", "constructed", "done"}
  /\ pc \in [Parties -> {"built", "loaded", "exchange", "done"}]
  /\ output_files \in [Parties -> Seq(SemiShrType)]
  /\ sent \in [Parties -> 0 .. SizeOutput * UnitsPer(KSBits)]
  /\ received \in [Parties -> Seq(0 .. 2^Unit - 1)]
  /\ chan \in [Parties -> Seq(0 .. 2^Unit - 1)]
  /\ \A p \in Parties : Len(chan[p]) <= SocketBuffer

(* The files the dealer wrote are a consistent preprocessing: read back  *)
(* as MultiplyGate::doReadOfflineFromFile reads them, the shares of the  *)
(* two parties sum to a triple with c = a * b, to lambda_z, and to values *)
(* whose MACs are global_key times the value, and delta_x + lambda_x =   *)
(* a, delta_y + lambda_y = b.  This ties FakeMultiplyGate's write order  *)
(* to MultiplyGate's read order and FakeParty's share arithmetic.        *)
ShareSum(k) ==
  [i \in 1 .. FieldSizes[k] |->
     Wrap(ReadShares(output_files[0], k)[i] + ReadShares(output_files[1], k)[i], KSBits)]

LowBits(v) == [i \in DOMAIN v |-> v[i] % 2^K]

OfflineFilesConsistent ==
  dealer_pc = "done" =>
    /\ LowBits(MatrixMultiply(LowBits(ShareSum(1)), LowBits(ShareSum(3)),
                              DimRow, DimMid, DimCol, KBits)) = LowBits(ShareSum(5))
    /\ LowBits(ShareSum(7)) = LowBits(lambda_clear["z"])
    /\ \A k \in {1, 3, 5, 7} :
         ShareSum(k + 1) = [i \in 1 .. FieldSizes[k] |-> Wrap(ShareSum(k)[i] * global_key, KSBits)]
    /\ LowBits(MatrixAdd(ReadShares(output_files[0], 9), lambda_clear["x"], KBits)) = LowBits(ShareSum(1))
    /\ LowBits(MatrixAdd(ReadShares(output_files[0], 10), lambda_clear["y"], KBits)) = LowBits(ShareSum(3))

(* Every party that finished MultiplyGate::doRunOnline holds the masked  *)
(* product x * y + lambda_z as its public Delta_z.                        *)
OpenedCorrect ==
  \A p \in Parties :
    pc[p] = "done" =>
      OpenedValue(p) = LowBits(MatrixAdd(Product, lambda_clear["z"], KBits))

(* While both parties hold their shares of the gate, the MAC shares      *)
(* doRunOnline computes for the later batched check authenticate the     *)
(* value the Delta_z shares add up to: the sum of the two MAC shares is  *)
(* global_key times the sum of the two Delta_z shares, over SemiShrType. *)
(* The public term temp_xy enters [Delta_z] once (party 0) but its MAC   *)
(* temp_xy * [key] must be added by every party.                         *)
MacShareConsistent ==
  (\A p \in Parties : Delta_z_mac[p] # <<>>) =>
    \A i \in 1 .. SizeOutput :
      Wrap(Delta_z_mac[0][i] + Delta_z_mac[1][i], KSBits) =
        Wrap(global_key * (Delta_z_shr[0][i] + Delta_z_shr[1][i]), KSBits)

(* Both parties eventually return from runOnline: the concurrent send in  *)
(* t1 keeps two parties that both send then receive from blocking each    *)
(* other.                                                                 *)
AllDone == <>(\A p \in Parties : pc[p] = "done")

=============================================================================
