\* A constructor may throw while the peer waits in its own constructor.
CONSTANTS
  NumNets = 3
  CtorMayThrow = TRUE
  BodyMayThrow = FALSE
  TcMayFail = FALSE
SPECIFICATION Spec
INVARIANTS
  ReportsPairedByIteration
