--------------------------- MODULE OfflineSimulator ---------------------------
(***************************************************************************)
(* The simulated SPDZ offline phase of the dot-product-db experiment:     *)
(* dot_product_db_offline_party_0.cpp (SPDZOfflineSimulator) and           *)
(* dot_product_db_offline_party_1.cpp (SPDZCommunicationTester) exchange  *)
(* uint64_t values over the two byte streams of networking/Party.h.       *)
(*                                                                         *)
(* The values themselves are random and never checked, so a party is      *)
(* modelled by its program: the sequence of blocking Send/SendVec and     *)
(* Receive/ReceiveVec calls its handlers make, each moving n uint64_t     *)
(* units.  Every unit carries a ghost tag naming the handler and loop     *)
(* iteration that wrote it, and every receive names the tag it expects,   *)
(* so that the model can tell when a handler reads bytes its peer's       *)
(* counterpart did not write for it.  Each party runs on one thread.      *)
(***************************************************************************)
EXTENDS Integers, Sequences, SequencesExt

CONSTANTS
  Dim,            \* dim of dot_product_db_config.h (scaled)
  DbSize,         \* dbsize of dot_product_db_config.h (scaled)
  WordBits,       \* the 64 of num_bits = dim * 64 (scaled)
  SocketBuffer    \* capacity of one direction of the link, in uint64_t

ASSUME {Dim, DbSize, WordBits, SocketBuffer} \subseteq Nat \ {0}

VARIABLES
  pc,       \* pc[p]: index of the call party p is in
  moved,    \* moved[p]: units that call has written or read so far
  chan      \* chan[p]: tags of the units in the stream from p to 1 - p

vars == <<pc, moved, chan>>

Parties == {0, 1}
Other(p) == 1 - p

(* One blocking call: Send/SendVec ("send") or Receive/ReceiveVec         *)
(* ("recv") of n uint64_t values, tagged with the handler and iteration.  *)
Snd(n, tag) == [dir |-> "send", n |-> n, tag |-> tag]
Rcv(n, tag) == [dir |-> "recv", n |-> n, tag |-> tag]

(* for (i = 0; i < count; i++) body(i) *)
Loop(count, Body(_)) == FlattenSeq([i \in 1 .. count |-> Body(i)])

(* k single-value Send or Receive calls in a row. *)
Snds(k, tag) == [j \in 1 .. k |-> Snd(1, tag)]
Rcvs(k, tag) == [j \in 1 .. k |-> Rcv(1, tag)]

NumTriples == Dim * DbSize
NumSquares == DbSize
NumBits == Dim * WordBits
NumToSacrifice(total) == IF total \div 10 > 1 THEN total \div 10 ELSE 1

-----------------------------------------------------------------------------
(* Party 0: SPDZOfflineSimulator. *)

establishMACKey ==
  LET t == <<"key", 1>> IN
  <<Snd(1, t), Rcv(1, t)>> \o Snds(2, t) \o Rcvs(2, t)

generateMultiplicationTriples(count) ==
  Loop(count, LAMBDA i : <<Snd(6, <<"triple", i>>), Rcv(6, <<"triple", i>>)>>)

sacrificePhase(total_triples) ==
  Loop(NumToSacrifice(total_triples),
       LAMBDA i : Snds(3, <<"sacrifice", i>>) \o Rcvs(3, <<"sacrifice", i>>))

generateSquarePairs(count) ==
  Loop(count, LAMBDA i : <<Snd(4, <<"square", i>>), Rcv(4, <<"square", i>>)>>)

generateBitTriples(count) ==
  Loop(count, LAMBDA i : <<Snd(6, <<"bit", i>>), Rcv(6, <<"bit", i>>)>>)

(* phase is a ghost name telling the two calls of the handler apart. *)
generateInputMasks(phase, count) ==
  Loop(count, LAMBDA i : Snds(2, <<phase, i>>) \o Rcvs(2, <<phase, i>>))

(* Mutant: one challenge too many is sent. *)
batchMACVerificationExtraChallenge ==
  LET t == <<"batch-mac", 1>> IN
  Snds(11, t) \o <<Rcv(10, t)>> \o Snds(2, t) \o Rcvs(2, t)

batchMACVerification ==
  LET t == <<"batch-mac", 1>> IN
  Snds(10, t) \o <<Rcv(10, t)>> \o Snds(2, t) \o Rcvs(2, t)

zkProofSimulation ==
  Loop(3, LAMBDA r : <<Snd(1, <<"zk", r>>), Snd(1, <<"zk", r>>), Rcv(1, <<"zk", r>>),
                       Snd(1, <<"zk", r>>), Rcv(1, <<"zk", r>>)>>)

runCompleteOfflinePhase ==
  establishMACKey \o generateMultiplicationTriples(NumTriples)
  \o sacrificePhase(NumTriples) \o generateSquarePairs(NumSquares)
  \o generateBitTriples(NumBits) \o generateInputMasks("query-mask", Dim)
  \o generateInputMasks("db-mask", DbSize * Dim)
  \o batchMACVerification \o zkProofSimulation

-----------------------------------------------------------------------------
(* Party 1: SPDZCommunicationTester. *)

handleMACKeyExchange ==
  LET t == <<"key", 1>> IN
  <<Rcv(1, t), Snd(1, t)>> \o Rcvs(2, t) \o Snds(2, t)

handleTripleGeneration(count) ==
  Loop(count, LAMBDA i : <<Rcv(6, <<"triple", i>>), Snd(6, <<"triple", i>>)>>)

handleSacrificePhase(total_triples) ==
  Loop(NumToSacrifice(total_triples),
       LAMBDA i : Rcvs(3, <<"sacrifice", i>>) \o Snds(3, <<"sacrifice", i>>))

(* Mutant: the pair read with the size of a triple. *)
handleSquarePairsTripleSize(count) ==
  Loop(count, LAMBDA i : <<Rcv(6, <<"square", i>>), Snd(4, <<"square", i>>)>>)

handleSquarePairs(count) ==
  Loop(count, LAMBDA i : <<Rcv(4, <<"square", i>>), Snd(4, <<"square", i>>)>>)

handleBitTriples(count) ==
  Loop(count, LAMBDA i : <<Rcv(6, <<"bit", i>>), Snd(6, <<"bit", i>>)>>)

(* Mutant: only the mask is read, not its MAC. *)
handleInputMasksMacDropped(phase, count) ==
  Loop(count, LAMBDA i : Rcvs(1, <<phase, i>>) \o Snds(2, <<phase, i>>))

handleInputMasks(phase, count) ==
  Loop(count, LAMBDA i : Rcvs(2, <<phase, i>>) \o Snds(2, <<phase, i>>))

handleBatchMACVerification ==
  LET t == <<"batch-mac", 1>> IN
  <<Rcv(10, t)>> \o Snds(10, t) \o Rcvs(2, t) \o Snds(2, t)

handleZKProof ==
  Loop(3, LAMBDA r : <<Rcv(1, <<"zk", r>>), Rcv(1, <<"zk", r>>), Snd(1, <<"zk", r>>),
                       Rcv(1, <<"zk", r>>), Snd(1, <<"zk", r>>)>>)

runCommunicationTest ==
  handleMACKeyExchange \o handleTripleGeneration(NumTriples)
  \o handleSacrificePhase(NumTriples) \o handleSquarePairs(NumSquares)
  \o handleBitTriples(NumBits) \o handleInputMasks("query-mask", Dim)
  \o handleInputMasks("db-mask", DbSize * Dim)
  \o handleBatchMACVerification \o handleZKProof

Program == [p \in Parties |-> IF p = 0 THEN runCompleteOfflinePhase
                                       ELSE runCommunicationTest]

-----------------------------------------------------------------------------
Finished(p) == pc[p] > Len(Program[p])
Call(p) == Program[p][pc[p]]

(* The call moved its last unit: the party goes on to its next call.     *)
Advance(p) ==
  IF moved[p] + 1 = Call(p).n
  THEN /\ pc' = [pc EXCEPT ![p] = @ + 1]
       /\ moved' = [moved EXCEPT ![p] = 0]
  ELSE /\ moved' = [moved EXCEPT ![p] = @ + 1]
       /\ UNCHANGED pc

(* Mutant: a write that never blocks on a full socket. *)
SendUnitNoBlock(p) ==
  /\ ~Finished(p)
  /\ Call(p).dir = "send"
  /\ chan' = [chan EXCEPT ![p] = Append(@, Call(p).tag)]
  /\ Advance(p)

(* Party::Send / Party::SendVec: boost::asio::write blocks until the     *)
(* kernel accepts each unit; the stream holds at most SocketBuffer.       *)
SendUnit(p) ==
  /\ ~Finished(p)
  /\ Call(p).dir = "send"
  /\ Len(chan[p]) < SocketBuffer
  /\ chan' = [chan EXCEPT ![p] = Append(@, Call(p).tag)]
  /\ Advance(p)

(* Party::Receive / Party::ReceiveVec: boost::asio::read blocks until    *)
(* each unit arrives.                                                     *)
ReceiveUnit(p) ==
  /\ ~Finished(p)
  /\ Call(p).dir = "recv"
  /\ chan[Other(p)] # <<>>
  /\ chan' = [chan EXCEPT ![Other(p)] = Tail(@)]
  /\ Advance(p)

(* Both simulators have returned from their run. *)
Terminated ==
  /\ \A p \in Parties : Finished(p)
  /\ UNCHANGED vars

Init ==
  /\ pc = [p \in Parties |-> 1]
  /\ moved = [p \in Parties |-> 0]
  /\ chan = [p \in Parties |-> <<>>]

Next ==
  \/ \E p \in Parties : SendUnit(p) \/ ReceiveUnit(p)
  \/ Terminated

(* Each party is one thread that the OS keeps scheduling. *)
Spec == Init /\ [][Next]_vars /\ \A p \in Parties : WF_vars(SendUnit(p) \/ ReceiveUnit(p))
=============================================================================
