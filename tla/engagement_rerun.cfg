SPECIFICATION Spec
CONSTANTS
  rdp = rdp
  probe = probe
  domain = domain
  nic = nic
  Rule = {rdp}
  Stubborn = {}
  Installer = {}
  Allow = {probe}
  Profile = {domain}
  Adapter = {nic}
  Poll = 1
  Late = 0
  ProbeTime = 0
  StartTime = 0
  TunnelTimeout = 0
  Grace = 0
  Faults = {}
  Crashes = FALSE
  MaxFailed = 0
  Reruns = TRUE
  Overlap = FALSE
INVARIANT TeardownRestores
VIEW Decisive
