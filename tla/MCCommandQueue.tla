--------------------------- MODULE MCCommandQueue ---------------------------
(***************************************************************************)
(* Instances of CommandQueue: commands named 1, 2, ... go to the workers   *)
(* of one controller in turn.                                              *)
(***************************************************************************)
EXTENDS CommandQueue

CONSTANTS k1, w1, w2
MCCommand == 1..5
MCSlotOf == [c \in MCCommand |-> <<k1, IF c = 4 THEN w2 ELSE w1>>]
MCUnsendable == {2, 5}
=============================================================================
