---------------------------- MODULE CommandPath ----------------------------
(***************************************************************************)
(* The way of a command: from the queue of a controller over the relay     *)
(* server to a worker, and its result back to every controller that        *)
(* watches the worker (controller/main_window.py and websocket_client.py,  *)
(* server/message_router.py, worker/worker.py and websocket_client.py).    *)
(*                                                                         *)
(* The server is reduced to what a command meets there: is the worker      *)
(* connected, and who is subscribed to it.  A link breaks at both of its   *)
(* ends at once; whatever is still on it is lost, but frames its receiver  *)
(* has buffered are handled later.                                         *)
(***************************************************************************)
EXTENDS CommandQueue, FiniteSets

CONSTANTS
  Restarts,   \* the restart_worker commands: run by the receive loop itself
  MaxUpsets   \* bound: broken links, ended worker processes, closed tabs

ASSUME CommandPathAssumption ==
  /\ Restarts \subseteq Command
  /\ Unsendable = {}
  /\ MaxUpsets \in Nat

VARIABLES
  linked,      \* controllers whose websocket is up
  online,      \* workers whose websocket is up
  tabs,        \* worker_tabs of each controller
  watchers,    \* worker_subscribers of the server
  up,          \* frames from each controller to the server
  down,        \* commands from the server to each worker
  tasks,       \* _process_command tasks of each worker, in turn for the browser
  restarting,  \* the restart_worker command its receive loop is busy with
  back,        \* frames and signals each controller's main thread has not seen
  outcome,     \* how each command went at its worker
  upsets

pathVars == <<linked, online, tabs, watchers, up, down, tasks, restarting, back, outcome, upsets>>
vars == <<queueVars, pathVars>>

CommandFrame(c) == [type |-> "command", command |-> c]
RegisterFrame(ids) == [type |-> "register", ids |-> ids]
ResultFrame(c, ok) == [type |-> "result", command |-> c, ok |-> ok]
Connected == [type |-> "connected"]

PathInit ==
  /\ QueueInit
  /\ linked = Controller
  /\ online = Worker
  /\ tabs = [k \in Controller |-> {}]
  /\ watchers = [w \in Worker |-> {}]
  /\ up = [k \in Controller |-> <<>>]
  /\ down = [w \in Worker |-> <<>>]
  /\ tasks = [w \in Worker |-> <<>>]
  /\ restarting = [w \in Worker |-> NoCommand]
  /\ back = [k \in Controller |-> <<>>]
  /\ outcome = [c \in Command |-> "none"]
  /\ upsets = 0

Upset == upsets < MaxUpsets /\ upsets' = upsets + 1
-----------------------------------------------------------------------------
(* The controller: Qt main thread and send_message *)

\* send_message: a frame is dropped without a word while the link is down.
Send(k, frame) == up' = IF k \in linked THEN [up EXCEPT ![k] = Append(@, frame)] ELSE up

\* Mutant: the command that follows another is shown in flight, not sent.
SendDispatchedFirst(s) ==
  IF inFlight'[s] = NoCommand \/ inFlight[s] # NoCommand THEN UNCHANGED up
  ELSE Send(s[1], CommandFrame(inFlight'[s]))

\* What _process_next has put in flight on slot s is sent.
SendDispatched(s) ==
  IF inFlight'[s] \in {NoCommand, inFlight[s]} THEN UNCHANGED up
  ELSE Send(s[1], CommandFrame(inFlight'[s]))

\* _on_command_requested_tab: the user gives a command in a worker's tab.
Submit(c) ==
  LET s == SlotOf[c]
  IN  /\ s[2] \in tabs[s[1]]
      /\ EnqueueCommand(c)
      /\ SendDispatched(s)
      /\ UNCHANGED <<linked, online, tabs, watchers, down, tasks, restarting, back, outcome, upsets>>

\* _on_worker_item_clicked and _on_tab_close_requested, each with
\* _update_server_subscriptions.
ChangeTabs(k, ids) ==
  /\ tabs' = [tabs EXCEPT ![k] = ids]
  /\ Send(k, RegisterFrame(ids))
  /\ UNCHANGED <<queueVars, linked, online, watchers, down, tasks, restarting, back, outcome>>
OpenTab(k, w) == w \notin tabs[k] /\ ChangeTabs(k, tabs[k] \cup {w}) /\ UNCHANGED upsets
CloseTab(k, w) == w \in tabs[k] /\ ChangeTabs(k, tabs[k] \ {w}) /\ Upset

\* _on_message_received for a COMMAND_RESULT: the queue of its worker takes
\* it, with or without a tab.  _on_server_connected: the tabs are subscribed
\* to again.
ControllerTake(k) ==
  LET frame == Head(back[k])
  IN  /\ back[k] # <<>>
      /\ back' = [back EXCEPT ![k] = Tail(@)]
      /\ IF frame.type = "connected"
           THEN Send(k, RegisterFrame(tabs[k])) /\ UNCHANGED queueVars
           ELSE LET s == <<k, SlotOf[frame.command][2]>>
                IN  HandleCommandResult(s, frame.ok) /\ SendDispatched(s)
      /\ UNCHANGED <<linked, online, tabs, watchers, down, tasks, restarting, outcome, upsets>>
-----------------------------------------------------------------------------
(* The relay server *)

\* handle_controller_message: a command for a worker that is not connected
\* is answered with an ERROR, which the controller only logs.
ServerTake(k) ==
  LET frame == Head(up[k])
  IN  /\ up[k] # <<>>
      /\ up' = [up EXCEPT ![k] = Tail(@)]
      /\ IF frame.type = "register"
           THEN /\ watchers' = [w \in Worker |-> IF w \in frame.ids THEN watchers[w] \cup {k}
                                                 ELSE watchers[w] \ {k}]
                /\ UNCHANGED down
           ELSE LET w == SlotOf[frame.command][2]
                IN  /\ down' = IF w \in online THEN [down EXCEPT ![w] = Append(@, frame.command)]
                               ELSE down
                    /\ UNCHANGED watchers
      /\ UNCHANGED <<queueVars, linked, online, tabs, tasks, restarting, back, outcome, upsets>>
-----------------------------------------------------------------------------
(* The worker *)

\* The command has ended and its result is sent and broadcast; offline it is
\* lost, for good.
Report(w, c, ok) ==
  /\ outcome' = [outcome EXCEPT ![c] = IF ok THEN "success" ELSE "failed"]
  /\ back' = [k \in Controller |-> IF w \in online /\ k \in watchers[w]
                                   THEN Append(back[k], ResultFrame(c, ok)) ELSE back[k]]

\* Mutant: a restart does not hold up the receive loop.
WorkerTakeAlways(w) ==
  LET c == Head(down[w])
  IN  /\ down[w] # <<>>
      /\ down' = [down EXCEPT ![w] = Tail(@)]
      /\ IF c \in Restarts
           THEN Report(w, c, TRUE) /\ restarting' = [restarting EXCEPT ![w] = c] /\ UNCHANGED tasks
           ELSE /\ tasks' = [tasks EXCEPT ![w] = Append(@, c)]
                /\ UNCHANGED <<restarting, back, outcome>>
      /\ UNCHANGED <<queueVars, linked, online, tabs, watchers, up, upsets>>

\* _handle_server_message: a command becomes a task; a restart_worker is
\* answered at once and then carried out before the next frame is read.
WorkerTake(w) ==
  LET c == Head(down[w])
  IN  /\ down[w] # <<>>
      /\ restarting[w] = NoCommand
      /\ down' = [down EXCEPT ![w] = Tail(@)]
      /\ IF c \in Restarts
           THEN Report(w, c, TRUE) /\ restarting' = [restarting EXCEPT ![w] = c] /\ UNCHANGED tasks
           ELSE /\ tasks' = [tasks EXCEPT ![w] = Append(@, c)]
                /\ UNCHANGED <<restarting, back, outcome>>
      /\ UNCHANGED <<queueVars, linked, online, tabs, watchers, up, upsets>>

\* Mutant: the restart is reported once more when it is done.
WorkerRestartedReporting(w) ==
  /\ restarting[w] # NoCommand
  /\ tasks[w] = <<>>
  /\ Report(w, restarting[w], TRUE)
  /\ restarting' = [restarting EXCEPT ![w] = NoCommand]
  /\ UNCHANGED <<queueVars, linked, online, tabs, watchers, up, down, tasks, upsets>>

\* _recover_from_browser_crash is through; the tasks started before it are
\* first in line for _selenium_lock.
WorkerRestarted(w) ==
  /\ restarting[w] # NoCommand
  /\ tasks[w] = <<>>
  /\ restarting' = [restarting EXCEPT ![w] = NoCommand]
  /\ UNCHANGED <<queueVars, linked, online, tabs, watchers, up, down, tasks, back, outcome, upsets>>

\* _process_command: the first task in line has the browser, ends and
\* answers.
WorkerRun(w, ok) ==
  /\ tasks[w] # <<>>
  /\ Report(w, Head(tasks[w]), ok)
  /\ tasks' = [tasks EXCEPT ![w] = Tail(@)]
  /\ UNCHANGED <<queueVars, linked, online, tabs, watchers, up, down, restarting, upsets>>
-----------------------------------------------------------------------------
(* Links and processes *)

\* The controller's websocket breaks; the server drops its subscriptions.
DropController(k) ==
  /\ k \in linked
  /\ Upset
  /\ linked' = linked \ {k}
  /\ up' = [up EXCEPT ![k] = <<>>]
  /\ watchers' = [w \in Worker |-> watchers[w] \ {k}]
  /\ \E n \in 0..Len(back[k]) : back' = [back EXCEPT ![k] = SubSeq(@, 1, n)]
  /\ UNCHANGED <<queueVars, online, tabs, down, tasks, restarting, outcome>>

\* Mutant: a command that was in flight when the link broke is sent again.
RelinkControllerResending(k) ==
  /\ k \notin linked
  /\ linked' = linked \cup {k}
  /\ back' = [back EXCEPT ![k] = Append(@, Connected)]
  /\ \E s \in Slot :
       /\ s[1] = k
       /\ up' = [up EXCEPT ![k] = IF inFlight[s] = NoCommand THEN <<>>
                                 ELSE <<CommandFrame(inFlight[s])>>]
  /\ UNCHANGED <<queueVars, online, tabs, watchers, down, tasks, restarting, outcome, upsets>>

\* _connection_supervisor is through to the server again.
RelinkController(k) ==
  /\ k \notin linked
  /\ linked' = linked \cup {k}
  /\ back' = [back EXCEPT ![k] = Append(@, Connected)]
  /\ UNCHANGED <<queueVars, online, tabs, watchers, up, down, tasks, restarting, outcome, upsets>>

\* The worker's websocket breaks; its browser and its tasks go on.
DropWorker(w) ==
  /\ w \in online
  /\ Upset
  /\ online' = online \ {w}
  /\ \E n \in 0..Len(down[w]) : down' = [down EXCEPT ![w] = SubSeq(@, 1, n)]
  /\ UNCHANGED <<queueVars, linked, tabs, watchers, up, tasks, restarting, back, outcome>>

\* _connection_loop connects again, once the loop over the old connection's
\* frames has ended.
RelinkWorker(w) ==
  /\ w \notin online
  /\ down[w] = <<>>
  /\ restarting[w] = NoCommand
  /\ online' = online \cup {w}
  /\ UNCHANGED <<queueVars, linked, tabs, watchers, up, down, tasks, restarting, back, outcome, upsets>>

\* The worker process ends; one with the same id may be started again.
EndWorker(w) ==
  /\ Upset
  /\ online' = online \ {w}
  /\ down' = [down EXCEPT ![w] = <<>>]
  /\ tasks' = [tasks EXCEPT ![w] = <<>>]
  /\ restarting' = [restarting EXCEPT ![w] = NoCommand]
  /\ UNCHANGED <<queueVars, linked, tabs, watchers, up, back, outcome>>
-----------------------------------------------------------------------------
PathNext ==
  \/ \E c \in Command : Submit(c)
  \/ \E k \in Controller : ServerTake(k) \/ ControllerTake(k) \/ DropController(k)
                           \/ RelinkController(k)
  \/ \E k \in Controller, w \in Worker : OpenTab(k, w) \/ CloseTab(k, w)
  \/ \E w \in Worker : WorkerTake(w) \/ WorkerRestarted(w) \/ DropWorker(w) \/ RelinkWorker(w)
                       \/ EndWorker(w)
  \/ \E w \in Worker, ok \in BOOLEAN : WorkerRun(w, ok)

PathSpec == PathInit /\ [][PathNext]_vars

\* Event loops go on, Selenium calls return, both clients reconnect for
\* ever.  The user owes nothing.
PathFairness ==
  /\ \A k \in Controller : /\ WF_vars(ServerTake(k))
                           /\ WF_vars(ControllerTake(k))
                           /\ WF_vars(RelinkController(k))
  /\ \A w \in Worker : /\ WF_vars(WorkerTake(w))
                       /\ WF_vars(WorkerRestarted(w))
                       /\ WF_vars(RelinkWorker(w))
                       /\ WF_vars(\E ok \in BOOLEAN : WorkerRun(w, ok))

FairPathSpec == PathSpec /\ PathFairness
-----------------------------------------------------------------------------
SeqSet(s) == {s[i] : i \in DOMAIN s}

\* Commands sent and neither ended nor, as far as the worker goes, lost.
UnderWay(s) ==
  {c \in Command :
     /\ SlotOf[c] = s
     /\ \/ CommandFrame(c) \in SeqSet(up[s[1]])
        \/ c \in SeqSet(down[s[2]])
        \/ c \in SeqSet(tasks[s[2]])}

\* Only one controller gives commands to w; others may watch it.
Exclusive(w) ==
  \A c, d \in Command : SlotOf[c][2] = w /\ SlotOf[d][2] = w => SlotOf[c] = SlotOf[d]

\* Where one controller only gives commands to a worker, nothing but the command
\* shown as in flight can be on its way to the browser or under its hands,
\* whatever links broke or processes ended (the queue dispatches after a
\* result only, and results are never repeated), and whatever other
\* controllers do at other workers.
UnderWayIsInFlight ==
  \A s \in Slot : Exclusive(s[2]) => UnderWay(s) \subseteq {inFlight[s]}

\* There, a command shown as succeeded or failed did end that way: the result
\* carries no command id (command_queue.py, handle_command_result), and yet
\* never reaches a later command.
ResultIsOwn ==
  \A c \in Command :
    Exclusive(SlotOf[c][2]) /\ state[c] \in {"success", "failed"} => outcome[c] = state[c]

\* There, a command given after restart_worker does not run on the browser that
\* is being restarted, although the restart is reported as done at its start
\* (worker.py, _handle_server_message).
RestartIsExclusive ==
  \A w \in Worker : Exclusive(w) /\ restarting[w] # NoCommand => tasks[w] = <<>>

\* Where c is on its way to the browser, or under its hands.
PlacesIn(s, x) == {i \in DOMAIN s : s[i] = x}
Copies(c) ==
  LET sent   == UNION {{"up"} \X {k} \X PlacesIn(up[k], CommandFrame(c)) : k \in Controller}
      passed == UNION {{"down"} \X {w} \X PlacesIn(down[w], c) : w \in Worker}
      begun  == UNION {{"tasks"} \X {w} \X PlacesIn(tasks[w], c) : w \in Worker}
  IN  sent \cup passed \cup begun

\* However many controllers share a worker, and whatever breaks, no command
\* is carried out twice: it is sent when it leaves the queue and at no other
\* time (command_queue.py:166-194), it is in one place then, and once it has
\* ended it is in none, also when its result was lost and its controller
\* still waits (websocket_client.py:81).
RunsAtMostOnce ==
  \A c \in Command :
    /\ \A p, q \in Copies(c) : p = q
    /\ outcome[c] # "none" => Copies(c) = {}
    /\ state[c] \in {"new", "queued"} => Copies(c) = {} /\ outcome[c] = "none"

\* As long as no link breaks, no worker ends and no tab is closed, a queue
\* never waits for nothing: the command in flight is on its way, under the
\* worker's hands, or its result is on the way back to the controller that
\* gave it, although who watches the worker is told by frames of their own
\* (main_window.py, _update_server_subscriptions) and the results of other
\* controllers come in between.
NoneIsForgotten ==
  upsets = 0 =>
    \A s \in Slot : inFlight[s] # NoCommand =>
      \/ inFlight[s] \in UnderWay(s)
      \/ \E ok \in BOOLEAN : ResultFrame(inFlight[s], ok) \in SeqSet(back[s[1]])

\* As long as no link breaks, no worker ends and no tab is closed, every
\* command the user gives ends.
UndisturbedCommandsEnd ==
  [](upsets = 0) =>
    \A c \in Command : state[c] \in {"queued", "in_flight"} ~> state[c] \in Ended
=============================================================================
