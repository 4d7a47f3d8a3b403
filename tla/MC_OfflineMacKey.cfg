\* A word of 5 bits and a field of 2^3 - 1 = 7 elements: party 1's share
\* can make the sum of the two shares pass 2^5, as a 64-bit share can
\* make it pass 2^64.  Two challenges make the loop combine twice.
CONSTANTS
  WordBits = 5
  FieldBits = 3
  NumChallenges = 2
  Unread = Unread
SPECIFICATION Spec
INVARIANTS
  TypeOK
  BatchMacConsistent
