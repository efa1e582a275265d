CONSTANTS
  FirstHandles = {1, 2}
  MaxHandle = 4
  Garbled = Garbled
  Task = {t1, t2}
  NoOne = NoOne
  Events = {"close_tab"}
  MaxEvents = 1
  MaxFrames = 0
SPECIFICATION Spec
SYMMETRY Tasks
PROPERTY RestartsOnlyTheDead
CHECK_DEADLOCK FALSE
