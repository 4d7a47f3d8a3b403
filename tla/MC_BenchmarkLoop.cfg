\* Every fault: constructor failures, failures after connecting, tc failures.
\* A driver whose peer was terminated waits in its constructor for ever, so
\* the system really may stop.
CONSTANTS
  NumNets = 3
  CtorMayThrow = TRUE
  BodyMayThrow = TRUE
  TcMayFail = TRUE
SPECIFICATION Spec
CHECK_DEADLOCK FALSE
INVARIANTS
  TypeOK
