SPECIFICATION FairSpec
CONSTANTS
  Worker = {w1}
  WSocket = {c1, c2}
  CSocket = {k1}
  NoSocket = NoSocket
  NoWorker = NoWorker
  Reported = {}
  MaxVersion = 1
  Expiring = {}
  IdOf <- MCIdOf
  Auth <- MCAuth
INVARIANTS
  NoGhostWorker
  ServedWorkerIsListed
  ReplacementIsAtomic
  StatusMatchesConnection
  VersionFromListedConnection
  ObserverCountFresh
PROPERTIES
  RegistrationCompletes
  GoneWorkerIsUnlisted
  GoneControllerLeaves
CHECK_DEADLOCK FALSE
