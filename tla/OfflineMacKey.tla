---------------------------- MODULE OfflineMacKey ----------------------------
(***************************************************************************)
(* The values of the simulated offline phase of dot-product-db that       *)
(* depend on the MAC key: the key exchange (establishMACKey of party 0,   *)
(* handleMACKeyExchange of party 1) and the batch MAC combination of      *)
(* batchMACVerification with party 1's handleBatchMACVerification.        *)
(*                                                                         *)
(* Arithmetic is that of the code: a uint64_t wraps modulo 2^WordBits,    *)
(* field_add reduces the wrapped sum modulo FIELD_SIZE = 2^FieldBits - 1  *)
(* and field_mul reduces the exact 128-bit product.  The handlers run in   *)
(* the code between the two are left out on both sides; their blocking    *)
(* behaviour is OfflineSimulator's.  Values the receiver never reads      *)
(* (the key test values, the challenges and combined values of party 1)   *)
(* travel as the token Unread.                                            *)
(***************************************************************************)
EXTENDS Integers, Sequences

CONSTANTS
  WordBits,       \* width of uint64_t (scaled)
  FieldBits,      \* the 61 of FIELD_SIZE = (1ULL << 61) - 1 (scaled)
  NumChallenges,  \* the 10 challenges of batchMACVerification (scaled)
  Unread          \* a model value: a word its receiver discards

ASSUME /\ FieldBits \in Nat \ {0, 1}
       /\ WordBits \in Nat /\ WordBits > FieldBits
       /\ NumChallenges \in Nat \ {0}

VARIABLES
  pc,          \* pc[p]: the step party p is at
  chan,        \* chan[p]: the words in the stream from p to 1 - p
  local_key,   \* party 0's local_key_share
  recv_share,  \* party 0's remote_key_share, as received
  mac_key,     \* party 0's mac_key (0 before it is computed)
  challenges,  \* party 0's challenges, in the order drawn
  test_vals,   \* party 0's test_val of each combined challenge
  combined_value,
  combined_mac

vars == <<pc, chan, local_key, recv_share, mac_key, challenges, test_vals,
          combined_value, combined_mac>>

FIELD_SIZE == 2^FieldBits - 1
Word == 0 .. 2^WordBits - 1
Field == 0 .. FIELD_SIZE - 1

(* uint64_t arithmetic wraps. *)
U64(x) == x % 2^WordBits

(* Mutant: the wrapped sum is not reduced into the field. *)
field_add_unreduced(a, b) == U64(a + b)

field_add(a, b) == U64(a + b) % FIELD_SIZE

(* The product is taken in __uint128_t, which cannot wrap. *)
field_mul(a, b) == (a * b) % FIELD_SIZE

Send(p, ws) == chan' = [chan EXCEPT ![p] = @ \o ws]
Unreads(n) == [i \in 1 .. n |-> Unread]

-----------------------------------------------------------------------------
(* establishMACKey: draw the share from dis(1, FIELD_SIZE - 1), send it. *)
EstablishKeySend ==
  /\ pc[0] = "key"
  /\ \E s \in 1 .. FIELD_SIZE - 1 :
       /\ local_key' = s
       /\ Send(0, <<s>>)
  /\ pc' = [pc EXCEPT ![0] = "key_recv"]
  /\ UNCHANGED <<recv_share, mac_key, challenges, test_vals, combined_value, combined_mac>>

(* Receive the peer's share, mac_key = field_add(local, remote), then     *)
(* send test_value and test_mac = field_mul(test_value, mac_key).         *)
EstablishKeyCombine ==
  /\ pc[0] = "key_recv"
  /\ chan[1] # <<>>
  /\ recv_share' = Head(chan[1])
  /\ mac_key' = field_add(local_key, Head(chan[1]))
  /\ chan' = [chan EXCEPT ![1] = Tail(@), ![0] = @ \o Unreads(2)]
  /\ pc' = [pc EXCEPT ![0] = "key_test"]
  /\ UNCHANGED <<local_key, challenges, test_vals, combined_value, combined_mac>>

(* Receive the peer's test value and MAC; nothing checks them. *)
EstablishKeyTestRecv ==
  /\ pc[0] = "key_test"
  /\ Len(chan[1]) >= 2
  /\ chan' = [chan EXCEPT ![1] = SubSeq(@, 3, Len(@))]
  /\ pc' = [pc EXCEPT ![0] = "challenge"]
  /\ UNCHANGED <<local_key, recv_share, mac_key, challenges, test_vals,
                 combined_value, combined_mac>>

(* handleMACKeyExchange: receive party 0's share, draw the own share     *)
(* from a default uniform_int_distribution<uint64_t> (the whole word) and *)
(* send it.                                                               *)
HandleKeyExchange ==
  /\ pc[1] = "key"
  /\ chan[0] # <<>>
  /\ \E s \in Word :
       chan' = [chan EXCEPT ![0] = Tail(@), ![1] = @ \o <<s>>]
  /\ pc' = [pc EXCEPT ![1] = "key_test"]
  /\ UNCHANGED <<local_key, recv_share, mac_key, challenges, test_vals,
                 combined_value, combined_mac>>

(* Receive the test value and MAC, send two random words back. *)
HandleKeyTest ==
  /\ pc[1] = "key_test"
  /\ Len(chan[0]) >= 2
  /\ chan' = [chan EXCEPT ![0] = SubSeq(@, 3, Len(@)), ![1] = @ \o Unreads(2)]
  /\ pc' = [pc EXCEPT ![1] = "batch"]
  /\ UNCHANGED <<local_key, recv_share, mac_key, challenges, test_vals,
                 combined_value, combined_mac>>

-----------------------------------------------------------------------------
(* batchMACVerification, first loop: draw a challenge from               *)
(* dis(0, FIELD_SIZE - 1) and send it.                                    *)
BatchChallenge ==
  /\ pc[0] = "challenge"
  /\ \E c \in Field :
       /\ challenges' = Append(challenges, c)
       /\ Send(0, <<Unread>>)
  /\ pc' = [pc EXCEPT ![0] = IF Len(challenges) + 1 = NumChallenges
                             THEN "recv_challenges" ELSE "challenge"]
  /\ UNCHANGED <<local_key, recv_share, mac_key, test_vals, combined_value, combined_mac>>

(* ReceiveVec of the peer's NumChallenges challenges. *)
BatchRecvChallenges ==
  /\ pc[0] = "recv_challenges"
  /\ Len(chan[1]) >= NumChallenges
  /\ chan' = [chan EXCEPT ![1] = SubSeq(@, NumChallenges + 1, Len(@))]
  /\ pc' = [pc EXCEPT ![0] = "combine"]
  /\ UNCHANGED <<local_key, recv_share, mac_key, challenges, test_vals,
                 combined_value, combined_mac>>

(* Second loop: for the next challenge draw test_val and add            *)
(* challenge * test_val to combined_value and challenge * (test_val *     *)
(* mac_key) to combined_mac; after the last one send both.                *)
BatchCombine ==
  /\ pc[0] = "combine"
  /\ LET c == challenges[Len(test_vals) + 1]
         last == Len(test_vals) + 1 = NumChallenges
     IN  \E t \in Field :
           LET cv == field_add(combined_value, field_mul(c, t))
               cm == field_add(combined_mac, field_mul(c, field_mul(t, mac_key)))
           IN  /\ test_vals' = Append(test_vals, t)
               /\ combined_value' = cv
               /\ combined_mac' = cm
               /\ IF last THEN /\ Send(0, <<cv, cm>>)
                               /\ pc' = [pc EXCEPT ![0] = "recv_combined"]
                          ELSE UNCHANGED <<chan, pc>>
  /\ UNCHANGED <<local_key, recv_share, mac_key, challenges>>

(* Receive the peer's combined value and MAC; nothing checks them. *)
BatchRecvCombined ==
  /\ pc[0] = "recv_combined"
  /\ Len(chan[1]) >= 2
  /\ chan' = [chan EXCEPT ![1] = SubSeq(@, 3, Len(@))]
  /\ pc' = [pc EXCEPT ![0] = "done"]
  /\ UNCHANGED <<local_key, recv_share, mac_key, challenges, test_vals,
                 combined_value, combined_mac>>

(* handleBatchMACVerification: ReceiveVec of the challenges, then send  *)
(* NumChallenges random challenges one by one.                           *)
HandleBatchChallenges ==
  /\ pc[1] = "batch"
  /\ Len(chan[0]) >= NumChallenges
  /\ chan' = [chan EXCEPT ![0] = SubSeq(@, NumChallenges + 1, Len(@)),
                          ![1] = @ \o Unreads(NumChallenges)]
  /\ pc' = [pc EXCEPT ![1] = "combined"]
  /\ UNCHANGED <<local_key, recv_share, mac_key, challenges, test_vals,
                 combined_value, combined_mac>>

(* Receive the combined value and MAC, send two random words. *)
HandleBatchCombined ==
  /\ pc[1] = "combined"
  /\ Len(chan[0]) >= 2
  /\ chan' = [chan EXCEPT ![0] = SubSeq(@, 3, Len(@)), ![1] = @ \o Unreads(2)]
  /\ pc' = [pc EXCEPT ![1] = "done"]
  /\ UNCHANGED <<local_key, recv_share, mac_key, challenges, test_vals,
                 combined_value, combined_mac>>

(* Both handlers have returned. *)
Terminated ==
  /\ \A p \in {0, 1} : pc[p] = "done"
  /\ UNCHANGED vars

Init ==
  /\ pc = [p \in {0, 1} |-> "key"]
  /\ chan = [p \in {0, 1} |-> <<>>]
  /\ local_key = 0
  /\ recv_share = 0
  /\ mac_key = 0
  /\ challenges = <<>>
  /\ test_vals = <<>>
  /\ combined_value = 0
  /\ combined_mac = 0

Next ==
  \/ EstablishKeySend \/ EstablishKeyCombine \/ EstablishKeyTestRecv
  \/ HandleKeyExchange \/ HandleKeyTest
  \/ BatchChallenge \/ BatchRecvChallenges \/ BatchCombine \/ BatchRecvCombined
  \/ HandleBatchChallenges \/ HandleBatchCombined
  \/ Terminated

Spec == Init /\ [][Next]_vars
=============================================================================
