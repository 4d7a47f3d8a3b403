\* The constructors always connect; calls after connecting and tc may fail.
\* A driver whose peer was terminated waits in its constructor for ever, so
\* the system really may stop.
CONSTANTS
  NumNets = 3
  CtorMayThrow = FALSE
  BodyMayThrow = TRUE
  TcMayFail = TRUE
SPECIFICATION Spec
CHECK_DEADLOCK FALSE
PROPERTIES
  AllTestsCompleteUnlessTerminated
