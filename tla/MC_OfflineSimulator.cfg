\* dim = 2, dbsize = 10: twenty triples, so the sacrifice phase takes
\* total / 10 = 2 rounds rather than the floor of 1; 2 bits per element and
\* a stream of 3 uint64_t, so a 6-value vector is written in several parts.
CONSTANTS
  Dim = 2
  DbSize = 10
  WordBits = 2
  SocketBuffer = 3
SPECIFICATION Spec
INVARIANTS
  TypeOK
  ReadAligned
  StreamsDrained
PROPERTIES
  AllFinished
