\* A packet listener calls Break while a timer is due.
CONSTANTS
  s1 = s1
  s2 = s2
  c1 = c1
  c2 = c2
  Sockets = {s1}
  Callers = {}
  Timers <- OneTimer
  PipeCapacity = 1
  QueueCapacity = 1
  MaxTime = 1
SPECIFICATION Spec
INVARIANTS
  NoCallbackAfterBreak
