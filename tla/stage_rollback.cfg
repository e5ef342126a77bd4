SPECIFICATION Spec
CONSTANTS
  remote = remote
  planted = planted
  agent = agent
  dhcp = dhcp
  probe = probe
  domain = domain
  public = public
  Rule = {remote, planted}
  Stubborn = {planted}
  Installer = {agent}
  Allow = {dhcp, probe}
  Profile = {domain, public}
SYMMETRY Symmetry
INVARIANT RollbackTruthful
