---------------------------- MODULE CommandQueue ----------------------------
(***************************************************************************)
(* controller/command_queue.py: one queue per worker in each controller.   *)
(* All of it runs in the Qt main thread, so one call is one step, with the *)
(* dispatch of the next command at its end.  A slot is the queue one       *)
(* controller keeps for one worker.                                        *)
(***************************************************************************)
EXTENDS Naturals, Sequences

CONSTANTS
  Controller, Worker,
  Command,     \* commands the users give, each once
  NoCommand,   \* "nothing in flight"
  SlotOf,      \* who gives a command, to which worker
  Unsendable   \* commands whose dispatch raises an exception

Slot == Controller \X Worker

ASSUME CommandQueueAssumption ==
  /\ NoCommand \notin Command
  /\ SlotOf \in [Command -> Slot]
  /\ Unsendable \subseteq Command

VARIABLES
  queue,     \* WorkerCommandQueue.queue
  inFlight,  \* WorkerCommandQueue.in_flight
  history,   \* WorkerCommandQueue.history
  state      \* CommandItem.state; "new" before the command is given

queueVars == <<queue, inFlight, history, state>>

Ended == {"success", "failed", "timed_out"}
CommandState == {"new", "queued", "in_flight"} \cup Ended

\* Queues and histories hold commands, and in flight is a command or none:
\* no call makes an item of a result nobody waited for.
QueueTypeOK ==
  /\ queue \in [Slot -> Seq(Command)]
  /\ inFlight \in [Slot -> Command \cup {NoCommand}]
  /\ history \in [Slot -> Seq(Command)]
  /\ state \in [Command -> CommandState]

QueueInit ==
  /\ queue = [s \in Slot |-> <<>>]
  /\ inFlight = [s \in Slot |-> NoCommand]
  /\ history = [s \in Slot |-> <<>>]
  /\ state = [c \in Command |-> "new"]

\* How many dispatches in a row raise: each such command fails at once and
\* handle_command_result calls _process_next again.
Refused(q) ==
  CHOOSE n \in 0..Len(q) :
    /\ \A i \in 1..n : q[i] \in Unsendable
    /\ n < Len(q) => q[n + 1] \notin Unsendable

\* Mutants: the newest command goes first; the command is sent without
\* leaving the queue; nothing is dispatched.
ProcessNewest(s, q, h, st) ==
  /\ inFlight' = [inFlight EXCEPT ![s] = IF q = <<>> THEN NoCommand ELSE q[Len(q)]]
  /\ queue' = [queue EXCEPT ![s] = IF q = <<>> THEN q ELSE SubSeq(q, 1, Len(q) - 1)]
  /\ history' = [history EXCEPT ![s] = h]
  /\ state' = [c \in Command |-> IF c = inFlight'[s] THEN "in_flight" ELSE st[c]]
ProcessWithoutPop(s, q, h, st) ==
  /\ inFlight' = [inFlight EXCEPT ![s] = IF q = <<>> THEN NoCommand ELSE q[1]]
  /\ queue' = [queue EXCEPT ![s] = q]
  /\ history' = [history EXCEPT ![s] = h]
  /\ state' = [c \in Command |-> IF c = inFlight'[s] THEN "in_flight" ELSE st[c]]
ProcessNothing(s, q, h, st) ==
  /\ queue' = [queue EXCEPT ![s] = q]
  /\ inFlight' = [inFlight EXCEPT ![s] = NoCommand]
  /\ history' = [history EXCEPT ![s] = h]
  /\ state' = st

\* _process_next with nothing in flight, on queue q, history h and states st.
ProcessNext(s, q, h, st) ==
  LET n == Refused(q)
  IN  /\ queue' = [queue EXCEPT ![s] = SubSeq(q, n + 2, Len(q))]
      /\ inFlight' = [inFlight EXCEPT ![s] = IF n < Len(q) THEN q[n + 1] ELSE NoCommand]
      /\ history' = [history EXCEPT ![s] = h \o SubSeq(q, 1, n)]
      /\ state' = [c \in Command |-> IF \E i \in 1..n : q[i] = c THEN "failed"
                                     ELSE IF n < Len(q) /\ q[n + 1] = c THEN "in_flight"
                                     ELSE st[c]]

\* Mutant: a command is dispatched while another is in flight.
EnqueueAtOnce(c) ==
  /\ state[c] = "new"
  /\ ProcessNext(SlotOf[c], Append(queue[SlotOf[c]], c), history[SlotOf[c]],
                 [state EXCEPT ![c] = "queued"])

\* enqueue_command.
EnqueueCommand(c) ==
  LET s == SlotOf[c]
  IN  /\ state[c] = "new"
      /\ IF inFlight[s] = NoCommand
           THEN ProcessNext(s, Append(queue[s], c), history[s], [state EXCEPT ![c] = "queued"])
           ELSE /\ queue' = [queue EXCEPT ![s] = Append(@, c)]
                /\ state' = [state EXCEPT ![c] = "queued"]
                /\ UNCHANGED <<inFlight, history>>

\* The command in flight ends as end, the next one is dispatched.
EndInFlight(s, end) ==
  ProcessNext(s, queue[s], Append(history[s], inFlight[s]),
              [state EXCEPT ![inFlight[s]] = end])

\* Mutant: a result is taken without looking whether one is awaited.
HandleResultUnchecked(s, ok) == EndInFlight(s, IF ok THEN "success" ELSE "failed")

\* handle_command_result: whatever is in flight for the worker takes the
\* result; without one in flight it is only logged.
HandleCommandResult(s, ok) ==
  IF inFlight[s] = NoCommand THEN UNCHANGED queueVars
  ELSE EndInFlight(s, IF ok THEN "success" ELSE "failed")

\* handle_timeout, for a command id.
HandleTimeout(c) ==
  /\ inFlight[SlotOf[c]] = c
  /\ EndInFlight(SlotOf[c], "timed_out")

\* clear_history.
ClearHistory(s) ==
  /\ history[s] # <<>>
  /\ history' = [history EXCEPT ![s] = <<>>]
  /\ UNCHANGED <<queue, inFlight, state>>

QueueNext ==
  \/ \E c \in Command : EnqueueCommand(c) \/ HandleTimeout(c)
  \/ \E s \in Slot : \E ok \in BOOLEAN : HandleCommandResult(s, ok)
  \/ \E s \in Slot : ClearHistory(s)

QueueSpec == QueueInit /\ [][QueueNext]_queueVars
-----------------------------------------------------------------------------
\* The commands a slot still owes the user, oldest first.
Pending(s) == IF inFlight[s] = NoCommand THEN queue[s] ELSE <<inFlight[s]>> \o queue[s]

\* No call leaves commands waiting behind nothing, also when several
\* dispatches in a row raise (_process_next at the end of every call).
NoIdleBacklog == \A s \in Slot : inFlight[s] = NoCommand => queue[s] = <<>>

\* The state a command shows is the place it is in: no command is in two
\* places, in another worker's slot, or gone without having ended.
PlacedAsShown ==
  \A c \in Command :
    LET places == {p \in Slot \X (1..Len(Pending(SlotOf[c]))) :
                     p[2] \in DOMAIN Pending(p[1]) /\ Pending(p[1])[p[2]] = c}
    IN  IF state[c] \in {"queued", "in_flight"}
          THEN \E i \in DOMAIN Pending(SlotOf[c]) :
                 /\ places = {<<SlotOf[c], i>>}
                 /\ (i = 1) = (state[c] = "in_flight")
          ELSE places = {}

Backlog == [s \in Slot |-> Pending(s)]
EndedCommands == {c \in Command : state[c] \in Ended}

\* The order promised to the user is kept.
Order == INSTANCE OneByOne WITH backlog <- Backlog, ended <- EndedCommands
KeepsOrder == Order!OrderSpec
=============================================================================
