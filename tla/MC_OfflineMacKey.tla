--------------------------- MODULE MC_OfflineMacKey ---------------------------
(***************************************************************************)
(* Model-checking harness for OfflineMacKey.                              *)
(***************************************************************************)
EXTENDS OfflineMacKey

TypeOK ==
  /\ pc \in [{0, 1} -> {"key", "key_recv", "key_test", "challenge", "recv_challenges",
                        "combine", "recv_combined", "batch", "combined", "done"}]
  /\ chan \in [{0, 1} -> Seq(Word \cup {Unread})]
  /\ local_key \in Field /\ recv_share \in Word /\ mac_key \in Field
  /\ challenges \in Seq(Field) /\ test_vals \in Seq(Field)
  /\ combined_value \in Field /\ combined_mac \in Field

(* The sum over Z_FIELD_SIZE of challenge_i * test_val_i, the value the  *)
(* combination loop is meant to compute.                                  *)
RECURSIVE FieldDot(_, _)
FieldDot(cs, ts) ==
  IF ts = <<>> THEN 0
  ELSE (Head(cs) * Head(ts) + FieldDot(Tail(cs), Tail(ts))) % FIELD_SIZE

(* batchMACVerification: at every point of its combination loop the       *)
(* combined value is the field sum of challenge * test_val over the       *)
(* challenges combined so far, and the combined MAC, accumulated from     *)
(* challenge * (test_val * mac_key) with the key of establishMACKey, is   *)
(* mac_key times it: the linear combination of MACs authenticates the     *)
(* linear combination of values.                                          *)
BatchMacConsistent ==
  /\ combined_value = FieldDot(challenges, test_vals)
  /\ combined_mac = field_mul(combined_value, mac_key)

(* establishMACKey: the global MAC key party 0 computes is the sum over   *)
(* Z_FIELD_SIZE of its own key share and the share party 1 sent.         *)
MacKeyIsSumOfShares ==
  pc[0] \notin {"key", "key_recv"} => mac_key = (local_key + recv_share) % FIELD_SIZE
=============================================================================
