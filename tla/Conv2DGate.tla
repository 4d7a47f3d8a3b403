------------------------------ MODULE Conv2DGate ------------------------------
(***************************************************************************)
(* The circuit  z = conv2D(x, y)  for N = 2 parties: an image x (owner 0), *)
(* a kernel y (owner 1), one Conv2DGate and its output.                    *)
(*                                                                         *)
(* Offline, FakeConv2DGate::doRunOffline writes the same ten fields as    *)
(* FakeMultiplyGate with c = conv(a, b).  Online, Conv2DGate::doRunOnline *)
(* computes the party's share of Delta_z and runs two threads: t1 writes  *)
(* the share vector (SemiShrType) to the peer, t2 reads the peer's vector *)
(* (SemiShrType) into Delta_clear; t1 and then t2 are joined, the own     *)
(* share is added and the upper bits removed.                             *)
(***************************************************************************)
EXTENDS FakeParty, Party, SequencesExt

CONSTANTS
  InRows, InCols,     \* Conv2DOp: image size (one channel, stride 1, no padding)
  KerRows, KerCols,   \* Conv2DOp: kernel size
  ClearRand,          \* draws of getRand<ClearType>()
  InputValues,        \* values the parties give to setInput
  SocketBuffer        \* capacity of one direction of the link, in units

ASSUME /\ N = 2
       /\ {InRows, InCols, KerRows, KerCols} \subseteq Nat \ {0}
       /\ KerRows <= InRows /\ KerCols <= InCols
       /\ ClearRand \subseteq ClearType /\ InputValues \subseteq ClearType
       /\ SocketBuffer \in Nat \ {0}

VARIABLES
  dealer_pc,      \* "start" | "constructed" | "done"
  lambda_clear,   \* FakeGate::lambda_clear_ of the gates x, y, z
  x_input,        \* the image party 0 gives to setInput
  y_input,        \* the kernel party 1 gives to setInput
  pc,             \* per party: "built" | "loaded" | "exchange" | "done"
  offline,        \* per party: the preprocessing vectors of the gate
  Delta_z_shr,    \* per party: its share of Delta_z, read by t1
  Delta_z_mac,    \* per party: its MAC share of Delta_z (a local of doRunOnline)
  sent,           \* per party: units t1 has written
  received,       \* per party: units t2 has read
  chan,           \* chan[p]: the byte stream from p to 1 - p
  Delta_clear     \* per party: Gate::Delta_clear() of the gate

vars == <<key_shares, global_key, output_files, dealer_pc, lambda_clear,
          x_input, y_input, pc, offline, Delta_z_shr, Delta_z_mac, sent, received,
          chan, Delta_clear>>

OutRows == InRows - KerRows + 1
OutCols == InCols - KerCols + 1

(* Conv2DOp::compute_input_size, compute_kernel_size, compute_output_size. *)
SizeLhs == InRows * InCols
SizeRhs == KerRows * KerCols
SizeOutput == OutRows * OutCols

Other(p) == 1 - p

NoOffline == [a |-> <<>>, a_mac |-> <<>>, b |-> <<>>, b_mac |-> <<>>,
              c |-> <<>>, c_mac |-> <<>>, lambda |-> <<>>, lambda_mac |-> <<>>,
              delta_x |-> <<>>, delta_y |-> <<>>]

(* convolution(x, y, op) of utils/tensor.h (not under src/): a valid 2D   *)
(* convolution of the row-major image by the row-major kernel, over the   *)
(* element type of width w.                                                *)
Convolution(image, kernel, w) ==
  [o \in 1 .. SizeOutput |->
     LET r == (o - 1) \div OutCols
         c == (o - 1) % OutCols
     IN  Wrap(MapThenSumSet(
                LAMBDA k : image[(r + (k - 1) \div KerCols) * InCols + c + ((k - 1) % KerCols) + 1]
                           * kernel[k],
                1 .. SizeRhs), w)]

(* The field layout Conv2DGate::doReadOfflineFromFile reads. *)
FieldSizes == <<SizeLhs, SizeLhs, SizeRhs, SizeRhs, SizeOutput, SizeOutput,
                SizeOutput, SizeOutput, SizeLhs, SizeRhs>>

(* Mutant: the layout forgets the key line at the head of the file. *)
FieldStartNoKey(k) == 1 + MapThenSumSet(LAMBDA j : FieldSizes[j], 1 .. k - 1)

FieldStart(k) == 2 + MapThenSumSet(LAMBDA j : FieldSizes[j], 1 .. k - 1)

ReadShares(file, k) == SubSeq(file, FieldStart(k), FieldStart(k) + FieldSizes[k] - 1)

InputDelta(value, lambda) ==
  [i \in DOMAIN value |-> RemoveUpperBits(Wrap(value[i] + lambda[i], KSBits))]

-----------------------------------------------------------------------------
DealerConstruct ==
  /\ dealer_pc = "start"
  /\ Construct
  /\ dealer_pc' = "constructed"
  /\ UNCHANGED <<lambda_clear, x_input, y_input, pc, offline, Delta_z_shr, Delta_z_mac,
                 sent, received, chan, Delta_clear>>

InputGateOffline(size) == [1 .. size -> ClearRand]

(* FakeCircuit::runOffline: the input gates, then                          *)
(* FakeConv2DGate::doRunOffline.                                           *)
RunOffline ==
  /\ dealer_pc = "constructed"
  /\ \E lx \in InputGateOffline(SizeLhs), ly \in InputGateOffline(SizeRhs),
        lz \in [1 .. SizeOutput -> ClearRand],
        a \in [1 .. SizeLhs -> ClearRand], b \in [1 .. SizeRhs -> ClearRand],
        dl \in [1 .. SizeOutput -> ShareDraw], da \in [1 .. SizeLhs -> ShareDraw],
        db \in [1 .. SizeRhs -> ShareDraw], dc \in [1 .. SizeOutput -> ShareDraw] :
       LET lam  == GenerateAllPartiesSharesVec(lz, global_key, dl)
           a_sh == GenerateAllPartiesSharesVec(a, global_key, da)
           b_sh == GenerateAllPartiesSharesVec(b, global_key, db)
           c_sh == GenerateAllPartiesSharesVec(Convolution(a, b, KBits), global_key, dc)
           fields == <<a_sh.value_shares, a_sh.mac_shares, b_sh.value_shares,
                       b_sh.mac_shares, c_sh.value_shares, c_sh.mac_shares,
                       lam.value_shares, lam.mac_shares>>
           shared == FoldLeft(WriteSharesToAllParites, output_files, fields)
       IN  /\ lambda_clear' = [g \in {"x", "y", "z"} |->
                                 CASE g = "x" -> lx [] g = "y" -> ly [] OTHER -> lz]
           /\ output_files' =
                WriteClearToAllParties(WriteClearToAllParties(shared, MatrixSubtract(a, lx, KBits)),
                                       MatrixSubtract(b, ly, KBits))
  /\ dealer_pc' = "done"
  /\ UNCHANGED <<key_shares, global_key, x_input, y_input, pc, offline,
                 Delta_z_shr, Delta_z_mac, sent, received, chan,
                 Delta_clear>>

-----------------------------------------------------------------------------
(* Conv2DGate::doReadOfflineFromFile. *)
ReadOffline(p) ==
  /\ dealer_pc = "done"
  /\ pc[p] = "built"
  /\ LET f == output_files[p] IN
       offline' = [offline EXCEPT ![p] =
                     [a |-> ReadShares(f, 1), a_mac |-> ReadShares(f, 2),
                      b |-> ReadShares(f, 3), b_mac |-> ReadShares(f, 4),
                      c |-> ReadShares(f, 5), c_mac |-> ReadShares(f, 6),
                      lambda |-> ReadShares(f, 7), lambda_mac |-> ReadShares(f, 8),
                      delta_x |-> ReadShares(f, 9), delta_y |-> ReadShares(f, 10)]]
  /\ pc' = [pc EXCEPT ![p] = "loaded"]
  /\ UNCHANGED <<key_shares, global_key, output_files, dealer_pc, lambda_clear,
                 x_input, y_input, Delta_z_shr, Delta_z_mac, sent, received, chan,
                 Delta_clear>>

(* temp_x = Delta_x + delta_x, temp_y = Delta_y + delta_y, and the      *)
(* affine part [c] + [lambda_z] - conv([a], temp_y) - conv(temp_x, [b])  *)
(* of a share, for the value or the MAC shares.                          *)
TempX(p) == MatrixAdd(InputDelta(x_input, lambda_clear["x"]), offline[p].delta_x, KSBits)
TempY(p) == MatrixAdd(InputDelta(y_input, lambda_clear["y"]), offline[p].delta_y, KSBits)
TempXY(p) == Convolution(TempX(p), TempY(p), KSBits)
Affine(p, c, lambda, a, b) ==
  LET d1 == MatrixAdd(c, lambda, KSBits)
      d2 == MatrixSubtract(d1, Convolution(a, TempY(p), KSBits), KSBits)
  IN  MatrixSubtract(d2, Convolution(TempX(p), b, KSBits), KSBits)

(* Mutant: party 0 does not add temp_xy. *)
LocalShareNoXY(p) == LET o == offline[p] IN Affine(p, o.c, o.lambda, o.a, o.b)

(* Party p's share of Delta_z (Conv2DGate.h lines 71-90). *)
LocalShare(p) ==
  LET o  == offline[p]
      d3 == Affine(p, o.c, o.lambda, o.a, o.b)
  IN  IF p = 0 THEN MatrixAdd(d3, TempXY(p), KSBits) ELSE d3

(* Mutant: [c_mac] + [lambda_z_mac] replaced by the value shares. *)
LocalMacShareValueShares(p) ==
  LET o == offline[p] IN
  MatrixAdd([i \in DOMAIN TempXY(p) |-> Wrap(TempXY(p)[i] * output_files[p][1], KSBits)],
            Affine(p, o.c, o.lambda, o.a_mac, o.b_mac), KSBits)

(* Party p's MAC share of Delta_z (lines 92-103): temp_xy * [key] by     *)
(* every party plus the affine combination of the MAC shares; the key    *)
(* share is the first line of the party's file.                          *)
LocalMacShare(p) ==
  LET o == offline[p] IN
  MatrixAdd([i \in DOMAIN TempXY(p) |-> Wrap(TempXY(p)[i] * output_files[p][1], KSBits)],
            Affine(p, o.c_mac, o.lambda_mac, o.a_mac, o.b_mac), KSBits)

(* doRunOnline up to the start of t1 and t2. *)
RunOnline(p) ==
  /\ pc[p] = "loaded"
  /\ Delta_z_shr' = [Delta_z_shr EXCEPT ![p] = LocalShare(p)]
  /\ Delta_z_mac' = [Delta_z_mac EXCEPT ![p] = LocalMacShare(p)]
  /\ pc' = [pc EXCEPT ![p] = "exchange"]
  /\ UNCHANGED <<key_shares, global_key, output_files, dealer_pc, lambda_clear,
                 x_input, y_input, offline, sent, received, chan, Delta_clear>>

Outgoing(p) == Encode(Delta_z_shr[p], KSBits)

(* Mutant: the peer's vector is read as ClearType, as MultiplyGate does. *)
RecvTypeClear == KBits

(* The element type of ReceiveVecFromOther<SemiShrType>, by its width. *)
RecvType == KSBits

(* Mutant: one unit too many is awaited. *)
ExpectedUnitsOneMore == SizeOutput * UnitsPer(RecvType) + 1

(* Units ReceiveVecFromOther<SemiShrType>(dim_row * dim_col) reads. *)
ExpectedUnits == SizeOutput * UnitsPer(RecvType)

(* Mutant: a write that never blocks on a full socket. *)
SendUnitNoBlock(p) ==
  /\ pc[p] = "exchange"
  /\ sent[p] < Len(Outgoing(p))
  /\ chan' = [chan EXCEPT ![p] = Append(@, Outgoing(p)[sent[p] + 1])]
  /\ sent' = [sent EXCEPT ![p] = @ + 1]
  /\ UNCHANGED <<key_shares, global_key, output_files, dealer_pc, lambda_clear,
                 x_input, y_input, pc, offline, Delta_z_shr, Delta_z_mac, received, Delta_clear>>

(* Thread t1: SendVecToOther(Delta_z_shr), one unit at a time. *)
SendUnit(p) ==
  /\ pc[p] = "exchange"
  /\ sent[p] < Len(Outgoing(p))
  /\ Len(chan[p]) < SocketBuffer
  /\ chan' = [chan EXCEPT ![p] = Append(@, Outgoing(p)[sent[p] + 1])]
  /\ sent' = [sent EXCEPT ![p] = @ + 1]
  /\ UNCHANGED <<key_shares, global_key, output_files, dealer_pc, lambda_clear,
                 x_input, y_input, pc, offline, Delta_z_shr, Delta_z_mac, received, Delta_clear>>

(* Thread t2: ReceiveVecFromOther, one unit at a time. *)
ReceiveUnit(p) ==
  /\ pc[p] = "exchange"
  /\ Len(received[p]) < ExpectedUnits
  /\ chan[Other(p)] # <<>>
  /\ received' = [received EXCEPT ![p] = Append(@, Head(chan[Other(p)]))]
  /\ chan' = [chan EXCEPT ![Other(p)] = Tail(@)]
  /\ UNCHANGED <<key_shares, global_key, output_files, dealer_pc, lambda_clear,
                 x_input, y_input, pc, offline, Delta_z_shr, Delta_z_mac, sent, Delta_clear>>

(* t1.join(), t2.join(), lines 118-140: Delta_clear (what t2 read) plus   *)
(* the own share in SemiShrType, upper bits removed, buffers released.    *)
Finish(p) ==
  /\ pc[p] = "exchange"
  /\ sent[p] = Len(Outgoing(p))
  /\ Len(received[p]) = ExpectedUnits
  /\ Delta_clear' = [Delta_clear EXCEPT ![p] =
        RemoveUpperBitsVec(MatrixAdd(Decode(received[p], SizeOutput, RecvType),
                                     Delta_z_shr[p], KSBits))]
  /\ offline' = [offline EXCEPT ![p] = NoOffline]
  /\ Delta_z_shr' = [Delta_z_shr EXCEPT ![p] = <<>>]
  /\ Delta_z_mac' = [Delta_z_mac EXCEPT ![p] = <<>>]
  /\ sent' = [sent EXCEPT ![p] = 0]
  /\ received' = [received EXCEPT ![p] = <<>>]
  /\ pc' = [pc EXCEPT ![p] = "done"]
  /\ UNCHANGED <<key_shares, global_key, output_files, dealer_pc, lambda_clear,
                 x_input, y_input, chan>>

Terminated ==
  /\ \A p \in Parties : pc[p] = "done"
  /\ UNCHANGED vars

-----------------------------------------------------------------------------
Init ==
  /\ key_shares = [p \in Parties |-> 0]
  /\ global_key = 0
  /\ output_files = [p \in Parties |-> <<>>]
  /\ dealer_pc = "start"
  /\ lambda_clear = [g \in {"x", "y", "z"} |-> <<>>]
  /\ x_input \in [1 .. SizeLhs -> InputValues]
  /\ y_input \in [1 .. SizeRhs -> InputValues]
  /\ pc = [p \in Parties |-> "built"]
  /\ offline = [p \in Parties |-> NoOffline]
  /\ Delta_z_shr = [p \in Parties |-> <<>>]
  /\ Delta_z_mac = [p \in Parties |-> <<>>]
  /\ sent = [p \in Parties |-> 0]
  /\ received = [p \in Parties |-> <<>>]
  /\ chan = [p \in Parties |-> <<>>]
  /\ Delta_clear = [p \in Parties |-> <<>>]

Next ==
  \/ DealerConstruct \/ RunOffline
  \/ \E p \in Parties :
       \/ ReadOffline(p) \/ RunOnline(p) \/ SendUnit(p) \/ ReceiveUnit(p) \/ Finish(p)
  \/ Terminated

(* The dealer runs to completion; the main thread, t1 and t2 of each     *)
(* party are OS threads, each weakly fair.                                *)
Fairness ==
  /\ WF_vars(DealerConstruct) /\ WF_vars(RunOffline)
  /\ \A p \in Parties :
       /\ WF_vars(ReadOffline(p)) /\ WF_vars(RunOnline(p)) /\ WF_vars(Finish(p))
       /\ WF_vars(SendUnit(p)) /\ WF_vars(ReceiveUnit(p))

Spec == Init /\ [][Next]_vars /\ Fairness
=============================================================================
