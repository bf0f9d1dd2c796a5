SPECIFICATION Spec
CONSTANTS
  step = step
  udp = udp
  Timers = {step, tr}
  Delays = {2}
  Files = {udp, f, g}
  NoFile = NoFile
  POLL_EVENT_NFD = 2
  StepDelay = 1
  MaxPushes = 2
INVARIANTS
  TypeOK
  TimersAreKept
  QueueIsServed
PROPERTIES
  OnlyReportedEvents
  EventsInOrder
  DueTimersFire
  EventsAreHandled
