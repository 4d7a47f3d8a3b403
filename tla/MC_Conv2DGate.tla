---------------------------- MODULE MC_Conv2DGate ----------------------------
(***************************************************************************)
(* Model-checking harness for Conv2DGate: correctness, clean streams and  *)
(* termination.                                                            *)
(***************************************************************************)
EXTENDS Conv2DGate, TLC

MCStorageWidths == <<1, 2, 4>>

Product == Convolution(x_input, y_input, KBits)

LowBits(v) == [i \in DOMAIN v |-> v[i] % 2^K]

OpenedValue(p) == LowBits(Delta_clear[p])

TypeOK ==
  /\ dealer_pc \in {"start", "constructed", "done"}
  /\ pc \in [Parties -> {"built", "loaded", "exchange", "done"}]
  /\ sent \in [Parties -> 0 .. SizeOutput * UnitsPer(KSBits)]
  /\ received \in [Parties -> Seq(0 .. 2^Unit - 1)]
  /\ chan \in [Parties -> Seq(0 .. 2^Unit - 1)]
  /\ \A p \in Parties : Len(chan[p]) <= SocketBuffer

(* The dealer's convolution triple, read back in the reader's layout:     *)
(* the two parties' shares of c sum to conv(a, b) mod 2^K, and delta_x +  *)
(* lambda_x = a, delta_y + lambda_y = b.                                  *)
ShareSum(k) ==
  [i \in 1 .. FieldSizes[k] |->
     Wrap(ReadShares(output_files[0], k)[i] + ReadShares(output_files[1], k)[i], KSBits)]

ConvTripleConsistent ==
  dealer_pc = "done" =>
    /\ LowBits(Convolution(LowBits(ShareSum(1)), LowBits(ShareSum(3)), KBits)) = LowBits(ShareSum(5))
    /\ LowBits(MatrixAdd(ReadShares(output_files[0], 9), lambda_clear["x"], KBits)) = LowBits(ShareSum(1))
    /\ LowBits(MatrixAdd(ReadShares(output_files[0], 10), lambda_clear["y"], KBits)) = LowBits(ShareSum(3))

(* Every party that finished Conv2DGate::doRunOnline holds                *)
(* conv(x, y) + lambda_z as its public Delta_z, for every output element. *)
OpenedCorrect ==
  \A p \in Parties :
    pc[p] = "done" => OpenedValue(p) = LowBits(MatrixAdd(Product, lambda_clear["z"], KBits))

(* While both parties hold their shares of the convolution, the MAC     *)
(* shares doRunOnline computes for the later batched check authenticate *)
(* the Delta_z the value shares add up to: sum of MAC shares = global_key *)
(* * sum of Delta_z shares, element by element, over SemiShrType.        *)
MacShareConsistent ==
  (\A p \in Parties : Delta_z_mac[p] # <<>>) =>
    \A i \in DOMAIN Delta_z_shr[0] :
      Wrap(Delta_z_mac[0][i] + Delta_z_mac[1][i], KSBits) =
        Wrap(global_key * (Delta_z_shr[0][i] + Delta_z_shr[1][i]), KSBits)

(* Unlike MultiplyGate, t2 reads exactly the SemiShrType vector the peer  *)
(* wrote: after both parties finish, no byte of the gate is left over.    *)
StreamDrained ==
  (\A p \in Parties : pc[p] = "done") => \A p \in Parties : chan[p] = <<>>

(* Both parties return from doRunOnline: t1 and t2 run concurrently, so  *)
(* neither party's join waits on a write its peer never reads.            *)
AllDone == <>(\A p \in Parties : pc[p] = "done")
=============================================================================
