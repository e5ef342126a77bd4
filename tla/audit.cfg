SPECIFICATION Spec
CONSTANTS
  connect = connect
  teardown = teardown
  Process = {connect, teardown}
  Body = {"phase", "cmd"}
  Shared = TRUE
  Faults = {"torn", "sync"}
  MaxWrites = 4
SYMMETRY Symmetry
INVARIANTS TypeOK ChainSound AckedSurvive DamageDetected
PROPERTY EvidenceKept
