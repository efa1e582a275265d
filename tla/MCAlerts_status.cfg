CONSTANTS
  Task = {t1, t2}
  NoOne = NoOne
  Names = {"keypress", "click", "type", "refresh", "restart_worker"}
  MaxAlerts = 2
  MaxEvents = 3
SPECIFICATION Spec
SYMMETRY Tasks
CHECK_DEADLOCK FALSE
INVARIANTS NoPhantomAlert OpenAlertIsShown MutenessHasACause
