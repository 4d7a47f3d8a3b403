\* x * y * y with two scalar multiply gates on one link; the socket buffer
\* of two units leaves room for the unit the first gate leaves unread.
CONSTANTS
  K = 1
  S = 1
  StorageWidths <- MCStorageWidths
  N = 2
  Builder <- MCBuilder
  Endpoints <- MCEndpoints
  MaskRand = {1}
  KeyRand = {1}
  ShareRand = {3}
  MacShareRand = {2}
  ClearRand = {0, 1}
  InputValues = {0, 1}
  SocketBuffer = 2
SPECIFICATION Spec
INVARIANTS
  TypeOK
  OfflineChainConsistent
PROPERTIES
  AllDone
