--------------------------- MODULE MCCommandPath ---------------------------
(***************************************************************************)
(* An instance of CommandPath: commands named 1, 2, ..., which one         *)
(* controller gives, in this order, to one worker; command 2 is a          *)
(* restart_worker.                                                         *)
(***************************************************************************)
EXTENDS CommandPath

CONSTANTS k1, w1
MCOneWorker == [c \in Command |-> <<k1, w1>>]
=============================================================================
