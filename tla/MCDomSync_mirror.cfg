SPECIFICATION Spec
CONSTANTS
  Task = {t}
  NoOne = NoOne
  Garbled = Garbled
  MaxMutations = 2
  Events = {"load", "command", "drop", "away", "ask", "restart"}
  MaxEvents = 1
CHECK_DEADLOCK FALSE
INVARIANTS DomTypeOK UpdatesFit GarbageIsReplaced SettledMirrorIsCurrent
PROPERTIES StaleIsHelped DiscardsAreReread ResyncHeals ChangesArrive
