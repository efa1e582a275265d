----------------------------- MODULE Endpoints -----------------------------
(***************************************************************************)
(* The parties of the relay.  A socket stands for one accepted WebSocket   *)
(* connection and is used once: a peer that reconnects comes back on       *)
(* another one.                                                            *)
(***************************************************************************)
EXTENDS Naturals, FiniteSets

CONSTANTS
  Worker,      \* worker ids
  WSocket,     \* worker connections
  CSocket,     \* controller connections
  NoSocket     \* "no entry" in a table of sockets

ASSUME EndpointsAssumption ==
  /\ NoSocket \notin WSocket \cup CSocket
  /\ IsFiniteSet(CSocket)
=============================================================================
