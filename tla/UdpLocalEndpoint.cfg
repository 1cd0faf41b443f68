\* A socket bound to a port of the system's choice is asked for its endpoint.
CONSTANTS
  a = a
  b = b
  all = all
  NoEndpoint = NoEndpoint
  Remotes <- MCRemotes
  Broadcasts <- MCBroadcasts
  Ports = {7000, 7001}
  PortsInUse = {7001}
  EphemeralPorts = {40000, 40001}
  Groups = {g}
  QueueCapacity = 1
SYMMETRY Hosts
SPECIFICATION Spec
INVARIANTS
  BoundPortReceives
