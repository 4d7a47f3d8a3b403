---------------------------- MODULE MultiplyCircuit ----------------------------
(***************************************************************************)
(* A circuit of several scalar gates built with the FakeCircuit / Circuit  *)
(* builders (input, multiply, output, addEndpoint), for N = 2 parties.    *)
(*                                                                         *)
(* Offline, FakeCircuit::runOffline calls runOffline on each endpoint,     *)
(* which runs the gate's inputs first and then the gate itself; each      *)
(* multiply gate appends its ten fields (FakeMultiplyGate::doRunOffline)   *)
(* to both files.  Online, each party reads every gate's fields in builder *)
(* order and then evaluates the gates in builder order; every multiply     *)
(* gate does the exchange of MultiplyGate::doRunOnline on the same link.   *)
(*                                                                         *)
(* Every gate is 1 x 1: the module is about how gates follow each other on *)
(* the file and on the link; the vector case is module MultiplyGate.       *)
(***************************************************************************)
EXTENDS FakeParty, Party, SequencesExt

CONSTANTS
  Builder,        \* the builder calls in order: [kind |-> "input" | "mul" | "out", ...]
  Endpoints,      \* the gates passed to addEndpoint, in order
  ClearRand,      \* draws of getRand<ClearType>()
  InputValues,    \* values the owners give to setInput
  SocketBuffer    \* capacity of one direction of the link, in units

Nodes == 1 .. Len(Builder)
InputNodes == {g \in Nodes : Builder[g].kind = "input"}
MulNodes == {g \in Nodes : Builder[g].kind = "mul"}

ASSUME /\ N = 2
       /\ \A g \in Nodes \ InputNodes : Builder[g].x \in 1 .. g - 1
       /\ \A g \in MulNodes : Builder[g].y \in 1 .. g - 1
       /\ ClearRand \subseteq ClearType /\ InputValues \subseteq ClearType
       /\ SocketBuffer \in Nat \ {0}

VARIABLES
  dealer_pc,      \* "start" | "run": the offline program
  dealt,          \* how many gates of DealerOrder have run doRunOffline
  lambda_clear,   \* FakeGate::lambda_clear_ of every gate (<<>> until drawn)
  input_value,    \* InputGate::setInput of each input's owner
  pc,             \* per party: "built" | "eval" | "exchange" | "done"
  cur,            \* per party: the gate runOnline is at, in builder order
  offline,        \* per party: each multiply gate's preprocessing
  Delta_z_shr,    \* per party: its share of the current gate's Delta_z
  sent, received, \* per party: units t1 has written, units read
  chan,           \* chan[p]: the byte stream from p to 1 - p
  Delta_clear     \* per party: Gate::Delta_clear() of every gate

dealer_vars == <<key_shares, global_key, output_files, dealer_pc, dealt, lambda_clear>>
party_vars == <<pc, cur, offline, Delta_z_shr, sent, received, chan, Delta_clear>>
vars == <<dealer_vars, input_value, party_vars>>

Other(p) == 1 - p

-----------------------------------------------------------------------------
(* FakeGate::runOffline (not under src/): the inputs of a gate run first, *)
(* and a gate that has already run is not run again.                      *)
(* Mutant: no record of the gates that have already run. *)
RECURSIVE VisitNoGuard(_, _)
VisitNoGuard(g, order) ==
  LET afterX == IF g \in InputNodes THEN order ELSE VisitNoGuard(Builder[g].x, order)
      afterY == IF g \in MulNodes THEN VisitNoGuard(Builder[g].y, afterX) ELSE afterX
  IN  Append(afterY, g)

RECURSIVE Visit(_, _)
Visit(g, order) ==
  IF g \in ToSet(order) THEN order
  ELSE LET afterX == IF g \in InputNodes THEN order ELSE Visit(Builder[g].x, order)
           afterY == IF g \in MulNodes THEN Visit(Builder[g].y, afterX) ELSE afterX
       IN  Append(afterY, g)

(* FakeCircuit::runOffline: runOffline on each endpoint in turn. *)
DealerOrder == FoldLeft(LAMBDA order, e : Visit(e, order), <<>>, Endpoints)

DealerDone == dealer_pc = "run" /\ dealt = Len(DealerOrder)

(* Multiply gates in builder order (Circuit::readOfflineFromFile), and   *)
(* the position of field k (1..10) of gate g in a file, after the key.    *)
ReadOrder == SelectSeq([i \in Nodes |-> i], LAMBDA g : g \in MulNodes)
FieldPos(g, k) ==
  LET slot == CHOOSE j \in DOMAIN ReadOrder : ReadOrder[j] = g
  IN  1 + 10 * (slot - 1) + k

InputDelta(value, lambda) ==
  [i \in DOMAIN value |-> RemoveUpperBits(Wrap(value[i] + lambda[i], KSBits))]

-----------------------------------------------------------------------------
(* Dealer *)

DealerConstruct ==
  /\ dealer_pc = "start"
  /\ Construct
  /\ dealer_pc' = "run"
  /\ UNCHANGED <<dealt, lambda_clear, input_value, party_vars>>

NextDealt == DealerOrder[dealt + 1]

(* FakeInputGate::doRunOffline (not under src/): a random mask. *)
InputGateOffline ==
  /\ dealer_pc = "run" /\ dealt < Len(DealerOrder) /\ NextDealt \in InputNodes
  /\ \E l \in ClearRand : lambda_clear' = [lambda_clear EXCEPT ![NextDealt] = <<l>>]
  /\ dealt' = dealt + 1
  /\ UNCHANGED <<key_shares, global_key, output_files, dealer_pc, input_value, party_vars>>

(* FakeMultiplyGate::doRunOffline for a 1 x 1 gate: lambda_z, a triple,   *)
(* their shares and MACs, and delta_x, delta_y against the masks of the   *)
(* gate's inputs, appended to both files in the reader's field order.     *)
MultiplyGateOffline ==
  /\ dealer_pc = "run" /\ dealt < Len(DealerOrder) /\ NextDealt \in MulNodes
  /\ \E lz, a, b \in ClearRand, dl, da, db, dc \in ShareDraw :
       LET g    == NextDealt
           lam  == GenerateAllPartiesSharesVec(<<lz>>, global_key, <<dl>>)
           a_sh == GenerateAllPartiesSharesVec(<<a>>, global_key, <<da>>)
           b_sh == GenerateAllPartiesSharesVec(<<b>>, global_key, <<db>>)
           c_sh == GenerateAllPartiesSharesVec(<<Wrap(a * b, KBits)>>, global_key, <<dc>>)
           fields == <<a_sh.value_shares, a_sh.mac_shares, b_sh.value_shares,
                       b_sh.mac_shares, c_sh.value_shares, c_sh.mac_shares,
                       lam.value_shares, lam.mac_shares>>
           shared == FoldLeft(WriteSharesToAllParites, output_files, fields)
       IN  /\ lambda_clear' = [lambda_clear EXCEPT ![g] = <<lz>>]
           /\ output_files' = WriteClearToAllParties(
                  WriteClearToAllParties(shared, MatrixSubtract(<<a>>, lambda_clear[Builder[g].x], KBits)),
                  MatrixSubtract(<<b>>, lambda_clear[Builder[g].y], KBits))
  /\ dealt' = dealt + 1
  /\ UNCHANGED <<key_shares, global_key, dealer_pc, input_value, party_vars>>

(* FakeOutputGate::doRunOffline: nothing is drawn or written. *)
OutputGateOffline ==
  /\ dealer_pc = "run" /\ dealt < Len(DealerOrder)
  /\ Builder[NextDealt].kind = "out"
  /\ dealt' = dealt + 1
  /\ UNCHANGED <<key_shares, global_key, output_files, dealer_pc, lambda_clear,
                 input_value, party_vars>>

-----------------------------------------------------------------------------
(* Online party p *)

(* Circuit::readOfflineFromFile: MultiplyGate::doReadOfflineFromFile of   *)
(* each multiply gate in builder order; the MAC fields are read past.     *)
ReadOffline(p) ==
  /\ DealerDone
  /\ pc[p] = "built"
  /\ LET f == output_files[p]
         field(g, k) == <<f[FieldPos(g, k)]>>
     IN  offline' = [offline EXCEPT ![p] =
            [g \in MulNodes |-> [a |-> field(g, 1), b |-> field(g, 3), c |-> field(g, 5),
                                 lambda |-> field(g, 7), delta_x |-> field(g, 9),
                                 delta_y |-> field(g, 10)]]]
  /\ pc' = [pc EXCEPT ![p] = "eval"]
  /\ cur' = [cur EXCEPT ![p] = 1]
  /\ UNCHANGED <<dealer_vars, input_value, Delta_z_shr, sent, received, chan, Delta_clear>>

CurKind(p) == Builder[cur[p]].kind

(* InputGate::doRunOnline (not under src/): Delta = value + lambda.       *)
RunInput(p) ==
  /\ pc[p] = "eval" /\ cur[p] \in Nodes /\ CurKind(p) = "input"
  /\ Delta_clear' = [Delta_clear EXCEPT ![p][cur[p]] =
                       InputDelta(<<input_value[cur[p]]>>, lambda_clear[cur[p]])]
  /\ cur' = [cur EXCEPT ![p] = @ + 1]
  /\ UNCHANGED <<dealer_vars, input_value, pc, offline, Delta_z_shr, sent, received, chan>>

(* OutputGate::doRunOnline (not under src/): forwards its input's Delta.  *)
RunOutput(p) ==
  /\ pc[p] = "eval" /\ cur[p] \in Nodes /\ CurKind(p) = "out"
  /\ Delta_clear' = [Delta_clear EXCEPT ![p][cur[p]] = Delta_clear[p][Builder[cur[p]].x]]
  /\ cur' = [cur EXCEPT ![p] = @ + 1]
  /\ UNCHANGED <<dealer_vars, input_value, pc, offline, Delta_z_shr, sent, received, chan>>

(* Party p's share of Delta_z of multiply gate g (MultiplyGate.h 76-98). *)
LocalShare(p, g) ==
  LET o      == offline[p][g]
      temp_x == MatrixAdd(Delta_clear[p][Builder[g].x], o.delta_x, KSBits)
      temp_y == MatrixAdd(Delta_clear[p][Builder[g].y], o.delta_y, KSBits)
      temp_xy == MatrixMultiply(temp_x, temp_y, 1, 1, 1, KSBits)
      d1 == MatrixAdd(o.c, o.lambda, KSBits)
      d2 == MatrixSubtract(d1, MatrixMultiply(o.a, temp_y, 1, 1, 1, KSBits), KSBits)
      d3 == MatrixSubtract(d2, MatrixMultiply(temp_x, o.b, 1, 1, 1, KSBits), KSBits)
  IN  IF p = 0 THEN MatrixAdd(d3, temp_xy, KSBits) ELSE d3

(* MultiplyGate::doRunOnline up to the start of t1. *)
RunMultiply(p) ==
  /\ pc[p] = "eval" /\ cur[p] \in Nodes /\ CurKind(p) = "mul"
  /\ Delta_z_shr' = [Delta_z_shr EXCEPT ![p] = LocalShare(p, cur[p])]
  /\ pc' = [pc EXCEPT ![p] = "exchange"]
  /\ UNCHANGED <<dealer_vars, input_value, cur, offline, sent, received, chan, Delta_clear>>

Outgoing(p) == Encode(Delta_z_shr[p], KSBits)

(* Units ReceiveVecFromOther<ClearType>(1) reads (MultiplyGate.h 128). *)
ExpectedUnits == UnitsPer(KBits)

(* Mutant: a send loop that stops one unit short. *)
SendUnitShort(p) ==
  /\ pc[p] = "exchange"
  /\ sent[p] < Len(Outgoing(p)) - 1
  /\ Len(chan[p]) < SocketBuffer
  /\ chan' = [chan EXCEPT ![p] = Append(@, Outgoing(p)[sent[p] + 1])]
  /\ sent' = [sent EXCEPT ![p] = @ + 1]
  /\ UNCHANGED <<dealer_vars, input_value, pc, cur, offline, Delta_z_shr, received, Delta_clear>>

(* Mutant: a write that never blocks on a full socket. *)
SendUnitNoBlock(p) ==
  /\ pc[p] = "exchange"
  /\ sent[p] < Len(Outgoing(p))
  /\ chan' = [chan EXCEPT ![p] = Append(@, Outgoing(p)[sent[p] + 1])]
  /\ sent' = [sent EXCEPT ![p] = @ + 1]
  /\ UNCHANGED <<dealer_vars, input_value, pc, cur, offline, Delta_z_shr, received, Delta_clear>>

(* Thread t1: one more unit into the stream, blocking while it is full.   *)
SendUnit(p) ==
  /\ pc[p] = "exchange"
  /\ sent[p] < Len(Outgoing(p))
  /\ Len(chan[p]) < SocketBuffer
  /\ chan' = [chan EXCEPT ![p] = Append(@, Outgoing(p)[sent[p] + 1])]
  /\ sent' = [sent EXCEPT ![p] = @ + 1]
  /\ UNCHANGED <<dealer_vars, input_value, pc, cur, offline, Delta_z_shr, received, Delta_clear>>

(* Main thread: one more unit from the peer's stream. *)
ReceiveUnit(p) ==
  /\ pc[p] = "exchange"
  /\ Len(received[p]) < ExpectedUnits
  /\ chan[Other(p)] # <<>>
  /\ received' = [received EXCEPT ![p] = Append(@, Head(chan[Other(p)]))]
  /\ chan' = [chan EXCEPT ![Other(p)] = Tail(@)]
  /\ UNCHANGED <<dealer_vars, input_value, pc, cur, offline, Delta_z_shr, sent, Delta_clear>>

(* t1.join() and MultiplyGate.h 137-175: the ClearType sum, widened, upper *)
(* bits removed; the gate's preprocessing is freed and the circuit moves   *)
(* on to the next gate.                                                    *)
Finish(p) ==
  /\ pc[p] = "exchange"
  /\ sent[p] = Len(Outgoing(p))
  /\ Len(received[p]) = ExpectedUnits
  /\ LET received_vec == Decode(received[p], 1, KBits)
     IN  Delta_clear' = [Delta_clear EXCEPT ![p][cur[p]] =
            RemoveUpperBitsVec(<<Wrap(Delta_z_shr[p][1] + received_vec[1], KBits)>>)]
  /\ offline' = [offline EXCEPT ![p][cur[p]] = [a |-> <<>>, b |-> <<>>, c |-> <<>>,
                   lambda |-> @.lambda, delta_x |-> <<>>, delta_y |-> <<>>]]
  /\ Delta_z_shr' = [Delta_z_shr EXCEPT ![p] = <<>>]
  /\ sent' = [sent EXCEPT ![p] = 0]
  /\ received' = [received EXCEPT ![p] = <<>>]
  /\ pc' = [pc EXCEPT ![p] = "eval"]
  /\ cur' = [cur EXCEPT ![p] = @ + 1]
  /\ UNCHANGED <<dealer_vars, input_value, chan>>

(* Circuit::runOnline returns after the last gate. *)
Return(p) ==
  /\ pc[p] = "eval" /\ cur[p] = Len(Builder) + 1
  /\ pc' = [pc EXCEPT ![p] = "done"]
  /\ UNCHANGED <<dealer_vars, input_value, cur, offline, Delta_z_shr, sent, received, chan, Delta_clear>>

Terminated ==
  /\ \A p \in Parties : pc[p] = "done"
  /\ UNCHANGED vars

-----------------------------------------------------------------------------
Init ==
  /\ key_shares = [p \in Parties |-> 0]
  /\ global_key = 0
  /\ output_files = [p \in Parties |-> <<>>]
  /\ dealer_pc = "start"
  /\ dealt = 0
  /\ lambda_clear = [g \in Nodes |-> <<>>]
  /\ input_value \in [InputNodes -> InputValues]
  /\ pc = [p \in Parties |-> "built"]
  /\ cur = [p \in Parties |-> 0]
  /\ offline = [p \in Parties |-> [g \in MulNodes |-> [a |-> <<>>, b |-> <<>>, c |-> <<>>,
                   lambda |-> <<>>, delta_x |-> <<>>, delta_y |-> <<>>]]]
  /\ Delta_z_shr = [p \in Parties |-> <<>>]
  /\ sent = [p \in Parties |-> 0]
  /\ received = [p \in Parties |-> <<>>]
  /\ chan = [p \in Parties |-> <<>>]
  /\ Delta_clear = [p \in Parties |-> [g \in Nodes |-> <<>>]]

PartyStep(p) ==
  \/ ReadOffline(p) \/ RunInput(p) \/ RunOutput(p) \/ RunMultiply(p)
  \/ SendUnit(p) \/ ReceiveUnit(p) \/ Finish(p) \/ Return(p)

Next ==
  \/ DealerConstruct \/ InputGateOffline \/ MultiplyGateOffline \/ OutputGateOffline
  \/ \E p \in Parties : PartyStep(p)
  \/ Terminated

(* The dealer runs to completion; each party's main thread and t1 are OS *)
(* threads, weakly fair each.                                             *)
Fairness ==
  /\ WF_vars(DealerConstruct) /\ WF_vars(InputGateOffline)
  /\ WF_vars(MultiplyGateOffline) /\ WF_vars(OutputGateOffline)
  /\ \A p \in Parties :
       /\ WF_vars(ReadOffline(p)) /\ WF_vars(RunInput(p)) /\ WF_vars(RunOutput(p))
       /\ WF_vars(RunMultiply(p)) /\ WF_vars(Finish(p)) /\ WF_vars(Return(p))
       /\ WF_vars(SendUnit(p)) /\ WF_vars(ReceiveUnit(p))

Spec == Init /\ [][Next]_vars /\ Fairness
=============================================================================
