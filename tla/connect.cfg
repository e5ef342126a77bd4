SPECIFICATION TrackedSpec
CONSTANTS
  nic = nic
  wifi = wifi
  Adapter = {nic, wifi}
  Poll = 1
  Late = 1
  ProbeTime = 1
  StartTime = 1
  TunnelTimeout = 3
  Grace = 2
  Faults <- AllFaults
  Crashes = TRUE
  timeout = timeout
  badCert = badCert
  Text = {timeout, badCert}
  Silent = Silent
  Every = 3
  Floor = 2
  MaxFails = 6
INVARIANTS TypeOK VerifyBounded StalenessBounded NoEarlyTrip Contained Diagnosed LogBounded
PROPERTIES VerdictReached LossEndsWatch Implements
