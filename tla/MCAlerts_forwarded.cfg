CONSTANTS
  Task = {t1, t2}
  NoOne = NoOne
  Names = {"keypress", "click", "type", "refresh", "restart_worker"}
  MaxAlerts = 2
  MaxEvents = 3
SPECIFICATION Spec
CHECK_DEADLOCK FALSE
PROPERTY AlertsAreForwarded
