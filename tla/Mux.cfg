\* Two timers beside one socket; a thread requests stops, listeners may too.
CONSTANTS
  s1 = s1
  s2 = s2
  c1 = c1
  c2 = c2
  Sockets = {s1}
  Callers = {c1}
  Timers <- TwoTimers
  PipeCapacity = 1
  QueueCapacity = 1
  MaxTime = 2
SPECIFICATION FairSpec
INVARIANTS
  TypeOK
  NoLostWakeup
  WakesForEarliestTimer
  AtMostOneTimerAfterBreak
PROPERTIES
  ImplementsStoppableRun
  DueTimersFire
