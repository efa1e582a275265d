SPECIFICATION FairPathSpec
CONSTANTS
  k1 = k1
  w1 = w1
  Controller = {k1}
  Worker = {w1}
  Command = {1, 2, 3}
  NoCommand = NoCommand
  SlotOf <- MCOneWorker
  Unsendable = {}
  Restarts = {2}
  MaxUpsets = 3
INVARIANTS
  UnderWayIsInFlight
  ResultIsOwn
  RestartIsExclusive
  RunsAtMostOnce
  NoneIsForgotten
PROPERTY UndisturbedCommandsEnd
CHECK_DEADLOCK FALSE
