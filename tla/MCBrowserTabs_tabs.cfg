CONSTANTS
  FirstHandles = {1, 2}
  MaxHandle = 3
  Garbled = Garbled
  Task = {t1, t2}
  NoOne = NoOne
  Events = {"open", "gone", "mutate", "new_tab", "switch_tab", "close_tab"}
  MaxEvents = 2
  MaxFrames = 0
SPECIFICATION Spec
SYMMETRY Tasks
INVARIANTS
  ActiveFollowsFocus GhostsWereMissed MissingWereSkipped OwnPage
PROPERTY ClosesWhatWasAsked
CHECK_DEADLOCK FALSE
