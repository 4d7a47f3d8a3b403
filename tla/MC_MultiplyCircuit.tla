-------------------------- MODULE MC_MultiplyCircuit --------------------------
(***************************************************************************)
(* Model-checking harness for MultiplyCircuit on the circuit              *)
(*   x = input(0); y = input(1); c = multiply(x, y); e = multiply(c, y);   *)
(*   d = output(e); addEndpoint(d)                                         *)
(* Two multiply gates follow each other on the file and on the link, and  *)
(* the input y feeds both, so the dealer's traversal reaches it twice.    *)
(***************************************************************************)
EXTENDS MultiplyCircuit, TLC

MCStorageWidths == <<1, 2, 4>>

MCBuilder == << [kind |-> "input"],
                [kind |-> "input"],
                [kind |-> "mul", x |-> 1, y |-> 2],
                [kind |-> "mul", x |-> 3, y |-> 2],
                [kind |-> "out", x |-> 4] >>

MCEndpoints == <<5>>

LowBits(v) == [i \in DOMAIN v |-> v[i] % 2^K]

(* The clear value every gate stands for: the circuit evaluated over      *)
(* Z_{2^K} on the inputs.                                                  *)
RECURSIVE ClearValue(_)
ClearValue(g) ==
  CASE Builder[g].kind = "input" -> input_value[g] % 2^K
    [] Builder[g].kind = "mul"   -> (ClearValue(Builder[g].x) * ClearValue(Builder[g].y)) % 2^K
    [] OTHER                     -> ClearValue(Builder[g].x)

-----------------------------------------------------------------------------
TypeOK ==
  /\ dealer_pc \in {"start", "run"}
  /\ dealt \in 0 .. Len(DealerOrder)
  /\ pc \in [Parties -> {"built", "eval", "exchange", "done"}]
  /\ cur \in [Parties -> 0 .. Len(Builder) + 1]
  /\ output_files \in [Parties -> Seq(SemiShrType)]
  /\ sent \in [Parties -> 0 .. UnitsPer(KSBits)]
  /\ received \in [Parties -> Seq(0 .. 2^Unit - 1)]
  /\ chan \in [Parties -> Seq(0 .. 2^Unit - 1)]
  /\ \A p \in Parties : Len(chan[p]) <= SocketBuffer

(* Once the dealer has run every gate, each multiply gate's fields, read  *)
(* back from both files where Circuit::readOfflineFromFile reads them,    *)
(* are a consistent preprocessing for that gate: the shares sum to a      *)
(* triple with c = a * b, to the gate's lambda, to MACs equal to          *)
(* global_key times the value, and delta_x, delta_y are a and b minus the *)
(* masks its input gates hold now.  The last conjunct ties each gate to   *)
(* the gates that feed it: a mask drawn again after a consumer used it,   *)
(* or one gate's fields read in another gate's place, breaks it.          *)
FieldSum(g, k) == Wrap(output_files[0][FieldPos(g, k)] + output_files[1][FieldPos(g, k)], KSBits)

OfflineChainConsistent ==
  DealerDone =>
    \A g \in MulNodes :
      /\ (FieldSum(g, 1) * FieldSum(g, 3) - FieldSum(g, 5)) % 2^K = 0
      /\ FieldSum(g, 7) % 2^K = lambda_clear[g][1]
      /\ \A k \in {1, 3, 5, 7} : FieldSum(g, k + 1) = Wrap(FieldSum(g, k) * global_key, KSBits)
      /\ (output_files[0][FieldPos(g, 9)] + lambda_clear[Builder[g].x][1] - FieldSum(g, 1)) % 2^K = 0
      /\ (output_files[0][FieldPos(g, 10)] + lambda_clear[Builder[g].y][1] - FieldSum(g, 3)) % 2^K = 0

(* Every multiply gate a party has evaluated holds the masked clear value *)
(* of that gate, ClearValue(g) + lambda_g: each gate's exchange reads     *)
(* the peer's share of that same gate.                                    *)
OpenedCorrect ==
  \A p \in Parties, g \in MulNodes :
    Delta_clear[p][g] # <<>> =>
      LowBits(Delta_clear[p][g]) = <<(ClearValue(g) + lambda_clear[g][1]) % 2^K>>

(* Both parties eventually return from Circuit::runOnline. *)
AllDone == <>(\A p \in Parties : pc[p] = "done")
=============================================================================
