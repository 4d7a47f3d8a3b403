------------------------------ MODULE FakeParty ------------------------------
(***************************************************************************)
(* The trusted dealer of the fake offline phase (fake-offline/FakeParty.h).*)
(* One FakeParty generates the MAC key fragments and the additive shares  *)
(* of every preprocessed value, and appends them to one output file per   *)
(* party.  A file is modelled as the sequence of the integers written to  *)
(* it, one per line; the decimal formatting is left out because reader    *)
(* and writer agree on it and no property is about it.                    *)
(*                                                                         *)
(* Randomness (getRand<T>) is a choice from a constant subset of T, so    *)
(* that a run can bound how many random draws TLC enumerates.              *)
(***************************************************************************)
EXTENDS Spdz2kShare

CONSTANTS
  N,              \* number of parties (template parameter N)
  MaskRand,       \* draws of getRand<KeyShrType>() used as the upper mask
  KeyRand,        \* draws of getRand<KeyShrType>() used as key fragments
  ShareRand,      \* draws of getRand<SemiShrType>() for value shares
  MacShareRand    \* draws of getRand<SemiShrType>() for MAC shares

ASSUME /\ N \in Nat \ {0, 1}
       /\ MaskRand \subseteq KeyShrType /\ KeyRand \subseteq KeyShrType
       /\ ShareRand \subseteq SemiShrType /\ MacShareRand \subseteq SemiShrType

VARIABLES key_shares, global_key, output_files

Parties == 0 .. N - 1

(* FakeParty::FakeParty: draw the key fragments, sum them into the global *)
(* key, and write each fragment as the first line of that party's file.   *)
Construct ==
  \E ks \in [Parties -> KeyRand] :
     /\ key_shares'   = ks
     /\ global_key'   = Wrap(SumFunction(ks), KSBits)
     /\ output_files' = [p \in Parties |-> <<ks[p]>>]

(* The random draws of one GenerateAllPartiesShares(ClearType) call: the  *)
(* upper mask and the shares of the first N-1 parties.                    *)
ShareDraw == [mask : MaskRand,
              value : [0 .. N - 2 -> ShareRand],
              mac : [0 .. N - 2 -> MacShareRand]]

(* The first N-1 shares are the draws, the last makes the sum exact.      *)
LOCAL SplitShares(total, firsts) ==
  [p \in Parties |-> IF p < N - 1 THEN firsts[p]
                     ELSE Wrap(total - SumFunction(firsts), KSBits)]

(* Mutant: the MAC computed on the unmasked value. *)
GenerateAllPartiesSharesUnmaskedMac(value, gkey, d) ==
  LET masked_value == Wrap(d.mask * 2^K, KSBits) | value
  IN  [value_shares |-> SplitShares(masked_value, d.value),
       mac_shares   |-> SplitShares(Wrap(value * gkey, KSBits), d.mac)]

(* FakeParty::GenerateAllPartiesShares(ClearType value), given its draws. *)
GenerateAllPartiesShares(value, gkey, d) ==
  LET masked_value == Wrap(d.mask * 2^K, KSBits) | value
      mac          == Wrap(masked_value * gkey, KSBits)
  IN  [value_shares |-> SplitShares(masked_value, d.value),
       mac_shares   |-> SplitShares(mac, d.mac)]

(* The vectorised overload: element i uses draws ds[i]; the result is     *)
(* indexed by party, then by element, as AllPartiesSharesVec.             *)
GenerateAllPartiesSharesVec(values, gkey, ds) ==
  LET one == [i \in DOMAIN values |-> GenerateAllPartiesShares(values[i], gkey, ds[i])]
  IN  [value_shares |-> [p \in Parties |-> [i \in DOMAIN values |-> one[i].value_shares[p]]],
       mac_shares   |-> [p \in Parties |-> [i \in DOMAIN values |-> one[i].mac_shares[p]]]]

(* WriteSharesToAllParites: party p's vector is appended to file p.       *)
WriteSharesToAllParites(files, shares) ==
  [p \in Parties |-> files[p] \o shares[p]]

(* WriteClearToAllParties: the same vector is appended to every file.     *)
WriteClearToAllParties(files, values) ==
  [p \in Parties |-> files[p] \o values]
=============================================================================
