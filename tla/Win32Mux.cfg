\* Two sockets and a timer; a thread requests stops, listeners may too.
CONSTANTS
  s1 = s1
  s2 = s2
  c1 = c1
  Sockets <- MCSockets
  Timers <- OneTimer
  Callers = {c1}
  QueueCapacity = 2
  MaxTime = 1
SPECIFICATION FairSpec
INVARIANTS
  NothingSleptThrough
PROPERTIES
  NoCallbackAfterBreak
  ImplementsStoppableRun
