\* One scalar multiplication (1 x 1 times 1 x 1), K = S = 1 scaled from
\* Spdz2kShare64 (ClearType one unit, SemiShrType two units).
CONSTANTS
  K = 1
  S = 1
  StorageWidths <- MCStorageWidths
  N = 2
  XRows = 1
  XCols = 1
  YRows = 1
  YCols = 1
  MaskRand = {1}
  KeyRand = {0, 1}
  ShareRand = {3}
  MacShareRand = {2}
  ClearRand = {0, 1}
  InputValues = {0, 1}
  SocketBuffer = 1
SPECIFICATION Spec
INVARIANTS
  TypeOK
  OfflineFilesConsistent
  OpenedCorrect
  MacShareConsistent
PROPERTIES
  AllDone
