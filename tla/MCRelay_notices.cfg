SPECIFICATION Spec
CONSTANTS
  Worker = {w1}
  WSocket = {c1, c2}
  CSocket = {k1, k2}
  NoSocket = NoSocket
  NoWorker = NoWorker
  Reported = {}
  MaxVersion = 0
  Expiring = {}
  IdOf <- MCIdOf
  Auth <- MCAuth
INVARIANT SubscriberSeesConnected
CHECK_DEADLOCK FALSE
SYMMETRY MCSymmetry
