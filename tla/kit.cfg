SPECIFICATION Spec
CHECK_DEADLOCK FALSE
CONSTANTS
  new = new
  dotted = dotted
  old = old
  tool = tool
  v1 = v1
  Config = {new, dotted, old}
  Tool = {tool}
  Version = {v1}
  Url <- MCUrl
  Ca <- MCCa
  Path <- MCPath
  None = None
  Torn = Torn
  MaxSigned = 2
  MaxFaults = 2
INVARIANTS TypeOK AcceptedAsSigned StagedAsSigned ServerIsSigned RecoveryOpens DeletionContained
PROPERTY Keeps
