----------------------------- MODULE MultiplyGate -----------------------------
(***************************************************************************)
(* The circuit  z = x * y  of the dot-product experiments, for N = 2       *)
(* parties: input x (owner 0, dim_row x dim_mid), input y (owner 1,        *)
(* dim_mid x dim_col), one multiplication gate and its output.            *)
(*                                                                         *)
(* Offline, the trusted dealer (FakeParty, FakeCircuit::runOffline and     *)
(* FakeMultiplyGate::doRunOffline) writes each party's file.  Online, each *)
(* party reads its file (MultiplyGate::doReadOfflineFromFile) and runs     *)
(* MultiplyGate::doRunOnline: it computes its share of Delta_z, starts a   *)
(* thread t1 that writes the share vector to the peer, reads the peer's    *)
(* vector on its own thread, joins t1 and opens Delta_z.                   *)
(*                                                                         *)
(* The stream from p to its peer holds at most SocketBuffer units: a       *)
(* blocking write cannot complete while the peer does not read.            *)
(***************************************************************************)
EXTENDS FakeParty, Party

CONSTANTS
  XRows, XCols,             \* the shape input x is built with
  YRows, YCols,             \* the shape input y is built with
  ClearRand,                \* draws of getRand<ClearType>()
  InputValues,              \* values the parties give to setInput
  SocketBuffer              \* capacity of one direction of the link, in units

(* The MultiplyGate and FakeMultiplyGate constructors throw              *)
(* std::invalid_argument unless x's columns match y's rows; the drivers   *)
(* build x as 1 x dim and y as dim x dbsize.                               *)
ASSUME /\ N = 2
       /\ {XRows, XCols, YRows, YCols} \subseteq Nat \ {0}
       /\ XCols = YRows
       /\ ClearRand \subseteq ClearType /\ InputValues \subseteq ClearType
       /\ SocketBuffer \in Nat \ {0}

VARIABLES
  dealer_pc,      \* "start" | "constructed" | "done": the offline program
  lambda_clear,   \* FakeGate::lambda_clear_ of the gates x, y, z
  x_input,        \* InputGate::setInput of party 0
  y_input,        \* InputGate::setInput of party 1
  pc,             \* per party: "built" | "loaded" | "exchange" | "done"
  offline,        \* per party: the preprocessing vectors of the gate
  Delta_z_shr,    \* per party: its share of Delta_z, captured by t1
  Delta_z_mac,    \* per party: its MAC share of Delta_z (a local of doRunOnline)
  sent,           \* per party: units t1 has written so far
  received,       \* per party: units the main thread has read so far
  chan,           \* chan[p]: the byte stream from p to 1 - p
  Delta_clear     \* per party: Gate::Delta_clear() of the multiply gate

vars == <<key_shares, global_key, output_files, dealer_pc, lambda_clear,
          x_input, y_input, pc, offline, Delta_z_shr, Delta_z_mac, sent, received,
          chan, Delta_clear>>

(* MultiplyGate's constructor: the output is x.dim_row x y.dim_col. *)
DimRow == XRows
DimCol == YCols

(* FakeMultiplyGate's constructor: dim_mid_ is x.dim_col. *)
DimMid == XCols

SizeLhs == DimRow * DimMid
SizeRhs == DimMid * DimCol
SizeOutput == DimRow * DimCol

Other(p) == 1 - p

NoOffline == [a |-> <<>>, a_mac |-> <<>>, b |-> <<>>, b_mac |-> <<>>,
              c |-> <<>>, c_mac |-> <<>>, lambda |-> <<>>, lambda_mac |-> <<>>,
              delta_x |-> <<>>, delta_y |-> <<>>]

-----------------------------------------------------------------------------
(* The file layout MultiplyGate::doReadOfflineFromFile expects after the  *)
(* key line: a, a_mac, b, b_mac, c, c_mac, lambda, lambda_mac, delta_x,   *)
(* delta_y, each a vector of the size the gate's dimensions give.          *)
FieldSizes == <<SizeLhs, SizeLhs, SizeRhs, SizeRhs, SizeOutput, SizeOutput,
                SizeOutput, SizeOutput, SizeLhs, SizeRhs>>

FieldStart(k) == 2 + MapThenSumSet(LAMBDA j : FieldSizes[j], 1 .. k - 1)

(* Party::ReadShares(n) for the k-th field of a party's file. *)
ReadShares(file, k) == SubSeq(file, FieldStart(k), FieldStart(k) + FieldSizes[k] - 1)

(* InputGate's online step (not under src/): Delta = value + lambda,      *)
(* reduced to the clear width, known to both parties.                     *)
InputDelta(value, lambda) ==
  [i \in DOMAIN value |-> RemoveUpperBits(Wrap(value[i] + lambda[i], KSBits))]

-----------------------------------------------------------------------------
(* Dealer *)

(* FakeParty party(job): key fragments and the first line of each file. *)
DealerConstruct ==
  /\ dealer_pc = "start"
  /\ Construct
  /\ dealer_pc' = "constructed"
  /\ UNCHANGED <<lambda_clear, x_input, y_input, pc, offline, Delta_z_shr, Delta_z_mac,
                 sent, received, chan, Delta_clear>>

(* FakeInputGate::doRunOffline (not under src/): a random mask per input. *)
InputGateOffline(size) == [1 .. size -> ClearRand]

(* FakeCircuit::runOffline on the endpoint d = output(multiply(x, y)):    *)
(* the input gates draw their masks, then FakeMultiplyGate::doRunOffline  *)
(* draws lambda_z and the triple, shares everything, and writes a, a_mac, *)
(* b, b_mac, c, c_mac, lambda, lambda_mac as shares and delta_x, delta_y  *)
(* in the clear to every file; FakeOutputGate does nothing.                *)
RunOffline ==
  /\ dealer_pc = "constructed"
  /\ \E lx \in InputGateOffline(SizeLhs), ly \in InputGateOffline(SizeRhs),
        lz \in [1 .. SizeOutput -> ClearRand],
        a \in [1 .. SizeLhs -> ClearRand], b \in [1 .. SizeRhs -> ClearRand],
        dl \in [1 .. SizeOutput -> ShareDraw], da \in [1 .. SizeLhs -> ShareDraw],
        db \in [1 .. SizeRhs -> ShareDraw], dc \in [1 .. SizeOutput -> ShareDraw] :
       LET c       == MatrixMultiply(a, b, DimRow, DimMid, DimCol, KBits)
           lam     == GenerateAllPartiesSharesVec(lz, global_key, dl)
           a_sh    == GenerateAllPartiesSharesVec(a, global_key, da)
           b_sh    == GenerateAllPartiesSharesVec(b, global_key, db)
           c_sh    == GenerateAllPartiesSharesVec(c, global_key, dc)
           delta_x == MatrixSubtract(a, lx, KBits)
           delta_y == MatrixSubtract(b, ly, KBits)
           f1 == WriteSharesToAllParites(output_files, a_sh.value_shares)
           f2 == WriteSharesToAllParites(f1, a_sh.mac_shares)
           f3 == WriteSharesToAllParites(f2, b_sh.value_shares)
           f4 == WriteSharesToAllParites(f3, b_sh.mac_shares)
           f5 == WriteSharesToAllParites(f4, c_sh.value_shares)
           f6 == WriteSharesToAllParites(f5, c_sh.mac_shares)
           f7 == WriteSharesToAllParites(f6, lam.value_shares)
           f8 == WriteSharesToAllParites(f7, lam.mac_shares)
       IN  /\ lambda_clear' = [g \in {"x", "y", "z"} |->
                                 CASE g = "x" -> lx [] g = "y" -> ly [] OTHER -> lz]
           /\ output_files' = WriteClearToAllParties(WriteClearToAllParties(f8, delta_x), delta_y)
  /\ dealer_pc' = "done"
  /\ UNCHANGED <<key_shares, global_key, x_input, y_input, pc, offline,
                 Delta_z_shr, Delta_z_mac, sent, received, chan, Delta_clear>>

-----------------------------------------------------------------------------
(* Online party p *)

(* Circuit::readOfflineFromFile -> MultiplyGate::doReadOfflineFromFile.   *)
ReadOffline(p) ==
  /\ dealer_pc = "done"
  /\ pc[p] = "built"
  /\ LET f == output_files[p] IN
       offline' = [offline EXCEPT ![p] =
                     [a |-> ReadShares(f, 1), a_mac |-> ReadShares(f, 2),
                      b |-> ReadShares(f, 3), b_mac |-> ReadShares(f, 4),
                      c |-> ReadShares(f, 5), c_mac |-> ReadShares(f, 6),
                      lambda |-> ReadShares(f, 7), lambda_mac |-> ReadShares(f, 8),
                      delta_x |-> ReadShares(f, 9), delta_y |-> ReadShares(f, 10)]]
  /\ pc' = [pc EXCEPT ![p] = "loaded"]
  /\ UNCHANGED <<key_shares, global_key, output_files, dealer_pc, lambda_clear,
                 x_input, y_input, Delta_z_shr, Delta_z_mac, sent, received, chan,
                 Delta_clear>>

(* temp_x = Delta_x + delta_x and temp_y = Delta_y + delta_y. *)
TempX(p) == MatrixAdd(InputDelta(x_input, lambda_clear["x"]), offline[p].delta_x, KSBits)
TempY(p) == MatrixAdd(InputDelta(y_input, lambda_clear["y"]), offline[p].delta_y, KSBits)

(* temp_x * temp_y, and the affine part [c] + [lambda_z] - [a] * temp_y - *)
(* temp_x * [b] of a share (c, lambda, a, b are the value or MAC shares). *)
TempXY(p) == MatrixMultiply(TempX(p), TempY(p), DimRow, DimMid, DimCol, KSBits)
Affine(p, c, lambda, a, b) ==
  LET d1 == MatrixAdd(c, lambda, KSBits)
      d2 == MatrixSubtract(d1, MatrixMultiply(a, TempY(p), DimRow, DimMid, DimCol, KSBits), KSBits)
  IN  MatrixSubtract(d2, MatrixMultiply(TempX(p), b, DimRow, DimMid, DimCol, KSBits), KSBits)

(* Mutant of LocalShare: every party adds temp_xy (the my_id() == 0 test *)
(* dropped).                                                               *)
LocalShareBothAddXY(p) ==
  LET o == offline[p] IN MatrixAdd(Affine(p, o.c, o.lambda, o.a, o.b), TempXY(p), KSBits)

(* Party p's share of Delta_z (MultiplyGate.h lines 76-98). *)
LocalShare(p) ==
  LET o == offline[p]
      d3 == Affine(p, o.c, o.lambda, o.a, o.b)
  IN  IF p = 0 THEN MatrixAdd(d3, TempXY(p), KSBits) ELSE d3

(* Mutant: temp_xy * [key] added by party 0 only, as for [Delta_z].       *)
LocalMacShareOnlyFirst(p) ==
  LET o   == offline[p]
      key == output_files[p][1]
      d3  == Affine(p, o.c_mac, o.lambda_mac, o.a_mac, o.b_mac)
  IN  IF p = 0 THEN MatrixAdd([i \in DOMAIN TempXY(p) |-> Wrap(TempXY(p)[i] * key, KSBits)], d3, KSBits)
      ELSE d3

(* Party p's MAC share of Delta_z (lines 100-112): temp_xy * [key] by    *)
(* every party, plus the same affine combination of the MAC shares.  The *)
(* key share is the first line of the party's file.                      *)
LocalMacShare(p) ==
  LET o   == offline[p]
      key == output_files[p][1]
  IN  MatrixAdd([i \in DOMAIN TempXY(p) |-> Wrap(TempXY(p)[i] * key, KSBits)],
                Affine(p, o.c_mac, o.lambda_mac, o.a_mac, o.b_mac), KSBits)

(* doRunOnline up to the start of t1: the share is computed and t1 starts *)
(* writing it.                                                             *)
RunOnline(p) ==
  /\ pc[p] = "loaded"
  /\ Delta_z_shr' = [Delta_z_shr EXCEPT ![p] = LocalShare(p)]
  /\ Delta_z_mac' = [Delta_z_mac EXCEPT ![p] = LocalMacShare(p)]
  /\ pc' = [pc EXCEPT ![p] = "exchange"]
  /\ UNCHANGED <<key_shares, global_key, output_files, dealer_pc, lambda_clear,
                 x_input, y_input, offline, sent, received, chan, Delta_clear>>

(* The bytes SendVecToOther(inner_product_shares) writes: SemiShrType.    *)
Outgoing(p) == Encode(Delta_z_shr[p], KSBits)

(* Units ReceiveVecFromOther<ClearType>(size) reads. *)
ExpectedUnits == SizeOutput * UnitsPer(KBits)

(* Mutants of SendUnit: a write that never blocks on a full socket, and  *)
(* a send loop that stops one unit short.                                 *)
SendUnitNoBlock(p) ==
  /\ pc[p] = "exchange"
  /\ sent[p] < Len(Outgoing(p))
  /\ chan' = [chan EXCEPT ![p] = Append(@, Outgoing(p)[sent[p] + 1])]
  /\ sent' = [sent EXCEPT ![p] = @ + 1]
  /\ UNCHANGED <<key_shares, global_key, output_files, dealer_pc, lambda_clear,
                 x_input, y_input, pc, offline, Delta_z_shr, Delta_z_mac, received, Delta_clear>>

SendUnitShort(p) ==
  /\ pc[p] = "exchange"
  /\ sent[p] < Len(Outgoing(p)) - 1
  /\ Len(chan[p]) < SocketBuffer
  /\ chan' = [chan EXCEPT ![p] = Append(@, Outgoing(p)[sent[p] + 1])]
  /\ sent' = [sent EXCEPT ![p] = @ + 1]
  /\ UNCHANGED <<key_shares, global_key, output_files, dealer_pc, lambda_clear,
                 x_input, y_input, pc, offline, Delta_z_shr, Delta_z_mac, received, Delta_clear>>

(* Thread t1: boost::asio::write puts one more unit into the stream.      *)
SendUnit(p) ==
  /\ pc[p] = "exchange"
  /\ sent[p] < Len(Outgoing(p))
  /\ Len(chan[p]) < SocketBuffer
  /\ chan' = [chan EXCEPT ![p] = Append(@, Outgoing(p)[sent[p] + 1])]
  /\ sent' = [sent EXCEPT ![p] = @ + 1]
  /\ UNCHANGED <<key_shares, global_key, output_files, dealer_pc, lambda_clear,
                 x_input, y_input, pc, offline, Delta_z_shr, Delta_z_mac, received, Delta_clear>>

(* Main thread: boost::asio::read takes one more unit from the peer.      *)
ReceiveUnit(p) ==
  /\ pc[p] = "exchange"
  /\ Len(received[p]) < ExpectedUnits
  /\ chan[Other(p)] # <<>>
  /\ received' = [received EXCEPT ![p] = Append(@, Head(chan[Other(p)]))]
  /\ chan' = [chan EXCEPT ![Other(p)] = Tail(@)]
  /\ UNCHANGED <<key_shares, global_key, output_files, dealer_pc, lambda_clear,
                 x_input, y_input, pc, offline, Delta_z_shr, Delta_z_mac, sent, Delta_clear>>

(* t1.join(), then lines 137-175: add the received vector (ClearType) to  *)
(* the own share into a ClearType vector, widen it to SemiShrType, remove *)
(* the upper bits, and free the preprocessing vectors.                    *)
Finish(p) ==
  /\ pc[p] = "exchange"
  /\ sent[p] = Len(Outgoing(p))
  /\ Len(received[p]) = ExpectedUnits
  /\ LET received_vec == Decode(received[p], SizeOutput, KBits)
         added_clear  == [i \in 1 .. SizeOutput |->
                            Wrap(Delta_z_shr[p][i] + received_vec[i], KBits)]
     IN  Delta_clear' = [Delta_clear EXCEPT ![p] = RemoveUpperBitsVec(added_clear)]
  /\ offline' = [offline EXCEPT ![p] = NoOffline]
  /\ Delta_z_shr' = [Delta_z_shr EXCEPT ![p] = <<>>]
  /\ Delta_z_mac' = [Delta_z_mac EXCEPT ![p] = <<>>]
  /\ sent' = [sent EXCEPT ![p] = 0]
  /\ received' = [received EXCEPT ![p] = <<>>]
  /\ pc' = [pc EXCEPT ![p] = "done"]
  /\ UNCHANGED <<key_shares, global_key, output_files, dealer_pc, lambda_clear,
                 x_input, y_input, chan>>

(* Both programs have returned from runOnline. *)
Terminated ==
  /\ \A p \in Parties : pc[p] = "done"
  /\ UNCHANGED vars

-----------------------------------------------------------------------------
Init ==
  /\ key_shares = [p \in Parties |-> 0]
  /\ global_key = 0
  /\ output_files = [p \in Parties |-> <<>>]
  /\ dealer_pc = "start"
  /\ lambda_clear = [g \in {"x", "y", "z"} |-> <<>>]
  /\ x_input \in [1 .. SizeLhs -> InputValues]
  /\ y_input \in [1 .. SizeRhs -> InputValues]
  /\ pc = [p \in Parties |-> "built"]
  /\ offline = [p \in Parties |-> NoOffline]
  /\ Delta_z_shr = [p \in Parties |-> <<>>]
  /\ Delta_z_mac = [p \in Parties |-> <<>>]
  /\ sent = [p \in Parties |-> 0]
  /\ received = [p \in Parties |-> <<>>]
  /\ chan = [p \in Parties |-> <<>>]
  /\ Delta_clear = [p \in Parties |-> <<>>]

PartyStep(p) ==
  \/ ReadOffline(p) \/ RunOnline(p) \/ SendUnit(p) \/ ReceiveUnit(p) \/ Finish(p)

Next ==
  \/ DealerConstruct \/ RunOffline
  \/ \E p \in Parties : PartyStep(p)
  \/ Terminated

(* The dealer program runs to completion, and the OS keeps scheduling the *)
(* main thread and t1 of each party: each is its own thread, so each of   *)
(* its steps is weakly fair on its own.                                    *)
Fairness ==
  /\ WF_vars(DealerConstruct) /\ WF_vars(RunOffline)
  /\ \A p \in Parties :
       /\ WF_vars(ReadOffline(p)) /\ WF_vars(RunOnline(p)) /\ WF_vars(Finish(p))
       /\ WF_vars(SendUnit(p)) /\ WF_vars(ReceiveUnit(p))

Spec == Init /\ [][Next]_vars /\ Fairness
=============================================================================
