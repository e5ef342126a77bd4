SPECIFICATION Spec
CONSTANTS
  connect = connect
  teardown = teardown
  Process = {connect, teardown}
  Body = {"phase", "cmd"}
  Shared = TRUE
  Faults = {}
  MaxWrites = 4
SYMMETRY Symmetry
INVARIANT ChainVerifies
