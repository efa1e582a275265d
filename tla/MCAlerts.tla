------------------------------ MODULE MCAlerts ------------------------------
EXTENDS Alerts, TLC
Tasks == Permutations(Task)
=============================================================================
