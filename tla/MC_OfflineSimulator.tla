------------------------- MODULE MC_OfflineSimulator -------------------------
(***************************************************************************)
(* Model-checking harness for OfflineSimulator.                           *)
(***************************************************************************)
EXTENDS OfflineSimulator, TLC

Tags == UNION {{Program[p][i].tag : i \in 1 .. Len(Program[p])} : p \in Parties}

TypeOK ==
  /\ pc \in [Parties -> Nat]
  /\ \A p \in Parties : pc[p] <= Len(Program[p]) + 1
  /\ \A p \in Parties : ~Finished(p) => moved[p] < Call(p).n
  /\ chan \in [Parties -> Seq(Tags)]
  /\ \A p \in Parties : Len(chan[p]) <= SocketBuffer

(* Whenever a handler of one party is blocked in Receive/ReceiveVec and   *)
(* bytes are waiting, they were written by the peer's counterpart handler *)
(* in the same loop iteration: the two programs never drift apart on the  *)
(* unframed stream, so no handler consumes bytes meant for another.       *)
ReadAligned ==
  \A p \in Parties :
    (~Finished(p) /\ Call(p).dir = "recv" /\ chan[Other(p)] # <<>>)
       => Head(chan[Other(p)]) = Call(p).tag

(* When both simulators have returned, every byte either wrote has been  *)
(* read: the next network configuration starts on clean streams.          *)
StreamsDrained ==
  (\A p \in Parties : Finished(p)) => \A p \in Parties : chan[p] = <<>>

(* Both simulators run to completion: the send-first and receive-first    *)
(* handlers never leave both parties blocked.                             *)
AllFinished == <>(\A p \in Parties : Finished(p))
=============================================================================
