---------------------------- MODULE BenchmarkLoop ----------------------------
(***************************************************************************)
(* The per-network benchmark loop of the dot-product-db online drivers,   *)
(* dot_product_db_party_0.cpp and dot_product_db_party_1.cpp (the offline *)
(* drivers' main functions have the same loop).                           *)
(*                                                                         *)
(* Each party runs NumNets iterations.  An iteration builds a fresh Party  *)
(* on the same port, runs the protocol and prints one result line labelled *)
(* with the iteration's network name; any std::exception is caught, the   *)
(* iteration is abandoned and the loop goes on.  Only party 0 calls        *)
(* setupNetwork, which reconfigures the loopback device shared by both     *)
(* processes.  Nothing pairs party 0's iteration i with party 1's          *)
(* iteration i except that each waits in the Party constructor for the    *)
(* other.                                                                  *)
(*                                                                         *)
(* The protocol run itself (MultiplyCircuit) is one joint step here; what  *)
(* matters is who is connected to whom and under which network.  A read  *)
(* that fails in the multiply gate's exchange throws while t1 is still    *)
(* joinable, so it ends the process by std::terminate instead of reaching  *)
(* the catch.                                                              *)
(***************************************************************************)
EXTENDS Naturals

CONSTANTS
  NumNets,        \* number of entries of networks / network_names
  CtorMayThrow,   \* the Party constructor may throw before it is connected
  BodyMayThrow,   \* a call of the try body after the constructor may throw
  TcMayFail       \* system("sudo tc ...") may return non-zero

ASSUME /\ NumNets \in Nat \ {0}
       /\ TcMayFail \in BOOLEAN
       /\ CtorMayThrow \in BOOLEAN
       /\ BodyMayThrow \in BOOLEAN

VARIABLES
  it,        \* it[p]: the loop iteration party p is in (NumNets + 1 after the loop)
  pc,        \* pc[p]: where in the iteration party p is
  link,      \* the parties whose Party object of the current connection is alive
  peer_it,   \* peer_it[p]: the peer's iteration when p's Party connected
  netcond,   \* the tc qdisc configuration in force on lo (0: none, k: net
             \* k's netem and tbf, NetemOnly(k): net k's delay, no rate)
  measured,  \* measured[p]: netcond while p's protocol run took place
  reports    \* reports[p]: the result lines party p has printed

vars == <<it, pc, link, peer_it, netcond, measured, reports>>

Parties == {0, 1}
Other(p) == 1 - p
Nets == 1 .. NumNets

NetemOnly(k) == NumNets + k
Conds == 0 .. 2 * NumNets

Report == [label : Nets, net : Conds, peer : Nets]

-----------------------------------------------------------------------------
(* setupNetwork(net) at the top of party 0's iteration: every entry of     *)
(* networks has a non-zero delay, so it runs "del; add netem; add tbf".   *)
(* The status is the last command's.  On failure the code warns and goes  *)
(* on: nothing changed (sudo refused), no qdisc at all (the netem add     *)
(* failed, so the tbf add under it failed too), or netem without tbf.     *)
SetupNetwork ==
  /\ pc[0] = "setup"
  /\ netcond' \in {it[0]} \cup (IF TcMayFail
                                THEN {netcond, 0, NetemOnly(it[0])} ELSE {})
  /\ pc' = [pc EXCEPT ![0] = "connect"]
  /\ UNCHANGED <<it, link, peer_it, measured, reports>>

(* PartyWithFakeOffline party(p, 2, 5050, kJobName) in both processes:    *)
(* each constructor accepts and connects (retrying) until the peer's     *)
(* constructor does the same, whatever iteration the peer is in.  The    *)
(* circuit is then built from the party.                                  *)
Connect ==
  /\ \A p \in Parties : pc[p] = "connect"
  /\ link' = Parties
  /\ peer_it' = [p \in Parties |-> it[Other(p)]]
  /\ pc' = [p \in Parties |-> "run"]
  /\ UNCHANGED <<it, netcond, measured, reports>>

(* The constructor throws (a socket cannot be bound or connected) before *)
(* it is connected; the catch block prints the error.                    *)
ConstructorThrows(p) ==
  /\ CtorMayThrow
  /\ pc[p] = "connect"
  /\ pc' = [pc EXCEPT ![p] = "sleep"]
  /\ UNCHANGED <<it, link, peer_it, netcond, measured, reports>>

(* setInput, readOfflineFromFile and runOnlineWithBenckmark: the gates   *)
(* exchange their shares, timed under the network now configured.        *)
RunOnline ==
  /\ \A p \in Parties : pc[p] = "run"
  /\ link = Parties
  /\ measured' = [p \in Parties |-> netcond]
  /\ pc' = [p \in Parties |-> "report"]
  /\ UNCHANGED <<it, link, peer_it, netcond, reports>>

(* A call of the try body before the exchange throws after the Party is   *)
(* connected (the dimension check of the MultiplyGate constructor, the    *)
(* offline files); leaving the try block destroys the Party, which closes *)
(* its sockets.                                                           *)
BodyThrows(p) ==
  /\ BodyMayThrow
  /\ pc[p] \in {"run", "report"}
  /\ link' = link \ {p}
  /\ pc' = [pc EXCEPT ![p] = "sleep"]
  /\ UNCHANGED <<it, peer_it, netcond, measured, reports>>

(* The peer's Party is gone while p is still exchanging: boost::asio::read *)
(* in Party::ReceiveVec fails on the closed stream and throws.  In an     *)
(* input gate's exchange the driver's catch takes it; in                  *)
(* ReceiveVecFromOther at MultiplyGate.h:128 t1 is joinable, so unwinding *)
(* calls std::terminate and the process ends ("dead").                    *)
PeerClosed(p) ==
  /\ pc[p] = "run"
  /\ Other(p) \notin link
  /\ link' = link \ {p}
  /\ \E next \in {"sleep", "dead"} : pc' = [pc EXCEPT ![p] = next]
  /\ UNCHANGED <<it, peer_it, netcond, measured, reports>>

(* The result line labelled with the iteration's network name; the Party  *)
(* is destroyed at the end of the try block.                              *)
PrintResult(p) ==
  /\ pc[p] = "report"
  /\ reports' = [reports EXCEPT ![p] =
                   @ \cup {[label |-> it[p], net |-> measured[p], peer |-> peer_it[p]]}]
  /\ link' = link \ {p}
  /\ pc' = [pc EXCEPT ![p] = "sleep"]
  /\ UNCHANGED <<it, peer_it, netcond, measured>>

(* Mutant: party 1's loop runs while test <= network_names.size().        *)
AdvanceExtraRound(p) ==
  /\ pc[p] = "sleep"
  /\ it' = [it EXCEPT ![p] = @ + 1]
  /\ pc' = [pc EXCEPT ![p] =
              IF it[p] + 1 > (IF p = 1 THEN NumNets + 1 ELSE NumNets) THEN "after"
              ELSE IF p = 0 THEN "setup" ELSE "connect"]
  /\ UNCHANGED <<link, peer_it, netcond, measured, reports>>

(* The sleep after the try block and the loop increment: party 0 starts   *)
(* its next iteration with setupNetwork, party 1 with the constructor.    *)
Advance(p) ==
  /\ pc[p] = "sleep"
  /\ it' = [it EXCEPT ![p] = @ + 1]
  /\ pc' = [pc EXCEPT ![p] = IF it[p] + 1 > NumNets THEN "after"
                             ELSE IF p = 0 THEN "setup" ELSE "connect"]
  /\ UNCHANGED <<link, peer_it, netcond, measured, reports>>

(* After the loop party 0 calls cleanupNetwork, whose failure only warns; *)
(* both then return.                                                      *)
ExitMain(p) ==
  /\ pc[p] = "after"
  /\ netcond' \in IF p = 0 THEN {0} \cup (IF TcMayFail THEN {netcond} ELSE {})
                  ELSE {netcond}
  /\ pc' = [pc EXCEPT ![p] = "exit"]
  /\ UNCHANGED <<it, link, peer_it, measured, reports>>

(* Both processes have returned from main. *)
Terminated ==
  /\ \A p \in Parties : pc[p] = "exit"
  /\ UNCHANGED vars

Init ==
  /\ it = [p \in Parties |-> 1]
  /\ pc = [p \in Parties |-> IF p = 0 THEN "setup" ELSE "connect"]
  /\ link = {}
  /\ peer_it = [p \in Parties |-> 1]
  /\ netcond = 0
  /\ measured = [p \in Parties |-> 0]
  /\ reports = [p \in Parties |-> {}]

Next ==
  \/ SetupNetwork
  \/ Connect
  \/ RunOnline
  \/ \E p \in Parties :
       \/ ConstructorThrows(p)
       \/ BodyThrows(p)
       \/ PeerClosed(p)
       \/ PrintResult(p)
       \/ Advance(p)
       \/ ExitMain(p)
  \/ Terminated

(* Every step but a throw is one the processes keep taking: the           *)
(* constructors retry until both are connected, and the rest are local.   *)
(* An exception is never forced to happen; a failed read is, but whether *)
(* the catch or std::terminate takes it is not.                          *)
Fairness ==
  /\ WF_vars(SetupNetwork)
  /\ WF_vars(Connect)
  /\ WF_vars(RunOnline)
  /\ \A p \in Parties :
       WF_vars(PeerClosed(p) \/ PrintResult(p) \/ Advance(p) \/ ExitMain(p))

Spec == Init /\ [][Next]_vars /\ Fairness
=============================================================================
