SPECIFICATION Spec
CONSTANTS
  connect = connect
  teardown = teardown
  Process = {connect, teardown}
  Body = {"phase", "cmd"}
  Shared = FALSE
  Faults = {"torn", "sync"}
  MaxWrites = 4
SYMMETRY Symmetry
INVARIANT RecoveryOpens
