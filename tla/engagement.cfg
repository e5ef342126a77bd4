SPECIFICATION Spec
CONSTANTS
  rdp = rdp
  agent = agent
  probe = probe
  domain = domain
  nic = nic
  Rule = {rdp}
  Stubborn = {}
  Installer = {agent}
  Allow = {probe}
  Profile = {domain}
  Adapter = {nic}
  Poll = 1
  Late = 0
  ProbeTime = 0
  StartTime = 0
  TunnelTimeout = 0
  Grace = 0
  Faults = {"query", "audit", "save", "start", "stop"}
  Crashes = TRUE
  MaxFailed = 2
  Reruns = FALSE
  Overlap = FALSE
INVARIANTS TypeOK TeardownRestores TeardownReconnects TeardownBestEffort RunsQuarantined
VIEW Decisive
