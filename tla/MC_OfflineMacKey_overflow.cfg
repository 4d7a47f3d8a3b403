\* Same bounds as MC_OfflineMacKey.cfg; checks the sum of the key shares.
CONSTANTS
  WordBits = 5
  FieldBits = 3
  NumChallenges = 2
  Unread = Unread
SPECIFICATION Spec
INVARIANTS
  MacKeyIsSumOfShares
