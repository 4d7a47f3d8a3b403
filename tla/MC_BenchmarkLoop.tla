--------------------------- MODULE MC_BenchmarkLoop ---------------------------
(***************************************************************************)
(* Model-checking harness for BenchmarkLoop with the three networks LAN,  *)
(* MAN and WAN of the drivers.                                             *)
(***************************************************************************)
EXTENDS BenchmarkLoop

TypeOK ==
  /\ it \in [Parties -> 1 .. NumNets + 1]
  /\ pc \in [Parties -> {"setup", "connect", "run", "report", "sleep", "after", "exit", "dead"}]
  /\ link \subseteq Parties
  /\ peer_it \in [Parties -> Nets]
  /\ netcond \in Conds
  /\ measured \in [Parties -> Conds]
  /\ reports \in [Parties -> SUBSET Report]

(* Every result line a driver prints under network name k was produced  *)
(* by a Party connected to the peer's iteration k: the two drivers' loops *)
(* stay paired, whatever exceptions the try blocks catch.                  *)
ReportsPairedByIteration ==
  \A p \in Parties : \A r \in reports[p] : r.peer = r.label

(* Both drivers return from main, unless one of them was ended by         *)
(* std::terminate: the caught exceptions of either loop never leave a     *)
(* driver waiting in its constructor for a peer that has returned.        *)
AllTestsCompleteUnlessTerminated ==
  <>((\A p \in Parties : pc[p] = "exit") \/ (\E p \in Parties : pc[p] = "dead"))
=============================================================================
