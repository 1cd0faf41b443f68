\* Two sessions that come and go, one calling thread.
CONSTANTS
  s1 = s1
  s2 = s2
  c1 = c1
  Sessions = {s1, s2}
  Script <- PacketsAndViolation
  Fds = {5, 6}
  Callers = {c1}
  PipeCapacity = 1
SPECIFICATION FairSpec
INVARIANTS
  TypeOK
  DescriptorsOwned
  SessionsKeptApart
  AtMostOneReadAfterStop
  NoLostWakeup
PROPERTIES
  ImplementsStoppableRun
  EverySessionServed
