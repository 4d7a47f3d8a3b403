\* A 1 x 2 image convolved with a 1 x 1 kernel: a 1 x 2 output, so
\* element boundaries on the stream matter.
CONSTANTS
  K = 1
  S = 1
  StorageWidths <- MCStorageWidths
  N = 2
  InRows = 1
  InCols = 2
  KerRows = 1
  KerCols = 1
  MaskRand = {1}
  KeyRand = {1}
  ShareRand = {3}
  MacShareRand = {2}
  ClearRand = {0, 1}
  InputValues = {0, 1}
  SocketBuffer = 2
SPECIFICATION Spec
INVARIANTS
  TypeOK
  ConvTripleConsistent
  OpenedCorrect
  MacShareConsistent
  StreamDrained
PROPERTIES
  AllDone
