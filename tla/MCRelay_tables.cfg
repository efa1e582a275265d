SPECIFICATION Spec
CONSTANTS
  Worker = {w1, w2}
  WSocket = {c1, c2}
  CSocket = {k1}
  NoSocket = NoSocket
  NoWorker = NoWorker
  Reported = {}
  MaxVersion = 0
  Expiring = {k1}
  IdOf <- MCOwnIds
  Auth <- MCAuth
INVARIANTS
  EndedControllerLeavesNoTrace
  WatchedIsRecorded
CHECK_DEADLOCK FALSE
SYMMETRY MCSymmetry
VIEW MCTables
