----------------------------- MODULE OneByOne -----------------------------
(***************************************************************************)
(* What the controller's command queue promises the user: the commands for *)
(* one worker end in the order they were given, none is lost, none comes   *)
(* back, and what happens at one worker leaves the backlog of the others   *)
(* alone.  CommandQueue implements this.                                   *)
(***************************************************************************)
EXTENDS Naturals, Sequences

CONSTANTS Slot, Command, SlotOf

VARIABLES
  backlog,  \* per slot: the commands given and not ended, oldest first
  ended     \* the commands that have ended, however they did

OrderInit ==
  /\ backlog = [s \in Slot |-> <<>>]
  /\ ended = {}

\* The oldest n commands of b end.
Advance(s, b) ==
  \E n \in 0..Len(b) :
    /\ backlog' = [backlog EXCEPT ![s] = SubSeq(b, n + 1, Len(b))]
    /\ ended' = ended \cup {b[i] : i \in 1..n}

Given == ended \cup UNION {{backlog[s][i] : i \in DOMAIN backlog[s]} : s \in Slot}

Give(c) == c \notin Given /\ Advance(SlotOf[c], Append(backlog[SlotOf[c]], c))

OrderNext ==
  \/ \E c \in Command : Give(c)
  \/ \E s \in Slot : Advance(s, backlog[s])

OrderSpec == OrderInit /\ [][OrderNext]_<<backlog, ended>>
=============================================================================
