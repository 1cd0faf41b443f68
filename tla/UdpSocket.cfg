\* Every order of calls on one socket, with a network that comes and goes.
CONSTANTS
  a = a
  b = b
  all = all
  NoEndpoint = NoEndpoint
  Remotes <- MCRemotes
  Broadcasts <- MCBroadcasts
  Ports = {7000, 7001}
  PortsInUse = {7001}
  EphemeralPorts = {40000, 40001}
  Groups = {g}
  QueueCapacity = 1
SYMMETRY Hosts
SPECIFICATION Spec
INVARIANTS
  AssociationRestored
  LocalPortIsActual
