SPECIFICATION QueueSpec
CONSTANTS
  k1 = k1
  w1 = w1
  w2 = w2
  Controller = {k1}
  Worker = {w1, w2}
  Command <- MCCommand
  NoCommand = NoCommand
  SlotOf <- MCSlotOf
  Unsendable <- MCUnsendable
INVARIANTS
  QueueTypeOK
  NoIdleBacklog
  PlacedAsShown
PROPERTY KeepsOrder
CHECK_DEADLOCK FALSE
