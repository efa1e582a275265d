------------------------------- MODULE Alerts -------------------------------
(***************************************************************************)
(* Dialogs of the page (alert, confirm, prompt), from the browser to what  *)
(* the controller shows of the worker.  Chrome leaves a dialog open        *)
(* (browser.py:77) and fails most of the driver's calls while there is     *)
(* one: each coroutine of worker.py and each command of command_handler.py *)
(* reports that or does not.  One worker with one window and one           *)
(* controller; the worker's link to the server may break.  Nobody sits at  *)
(* the worker's Chrome: a dialog goes with a restart only, for the panel   *)
(* that would answer it is never shown (see AlertsAreForwarded).           *)
(***************************************************************************)
EXTENDS Naturals, Sequences, FiniteSets

CONSTANTS
  Task,      \* the _process_command tasks
  NoOne,     \* nobody has _selenium_lock
  Names,     \* the commands the user gives
  MaxAlerts, \* how many dialogs there are
  MaxEvents  \* how many commands, breaks of the link and changes of the page, all in all

ASSUME AlertsAssumption ==
  /\ {MaxAlerts, MaxEvents} \subseteq Nat
  /\ Names \subseteq {"keypress", "click", "type", "refresh", "restart_worker"}
  /\ {"poll", "reader"} \cap Task = {} /\ NoOne \notin {"poll", "reader"} \cup Task

Process == {"poll", "reader"} \cup Task
NoAlert == 0
Word(met, nav) == [met |-> met, nav |-> nav]
Nothing == Word(NoAlert, FALSE)

VARIABLES
  alert,     \* the dialog that is open; they are numbered
  opened,    \* how many there have been
  lock,      \* who has _selenium_lock
  at,        \* where each coroutine is
  local,     \* the dialog it has to report, whether it has to read the page again
  cmd,       \* the command of each task
  navigating, executing,  \* _navigation_in_progress, _command_executing
  ready,     \* _snapshot_ready
  greeting,  \* the reader is in _on_server_connected
  linked,    \* the worker's link to the server is up
  inbox, frames,          \* messages on their way to the worker, the controller
  slot,      \* the controller's status of the worker, the one its list of workers
             \* shows, and whether what it has of the page is stale
  queue, inFlight,        \* the controller's commands
  spent,     \* how often things happened
  history    \* see NoHistory

Status(status, listed, stale) == [status |-> status, listed |-> listed, stale |-> stale]

browserVars == <<alert, opened>>
coroutineVars == <<lock, at, local, cmd>>
flagVars == <<navigating, executing, ready, greeting>>
netVars == <<linked, inbox, frames>>
queueVars == <<queue, inFlight>>
vars == <<browserVars, coroutineVars, flagVars, netVars, slot, queueVars, spent, history>>

\* What has happened: the dialogs that were reported; those reported before a
\* snapshot, or a status, of an earlier page was sent, and before an update of
\* one; the last report was of a dialog that had gone; what may have left the
\* worker mute.
Past(told, late, lateUpdate, outdated, causes) ==
  [told |-> told, late |-> late, lateUpdate |-> lateUpdate, outdated |-> outdated, causes |-> causes]
NoHistory == Past({}, {}, {}, FALSE, {})
Causes(cause, condition) == IF condition THEN history.causes \cup {cause} ELSE history.causes
Notes(cause, condition) ==
  history' = Past(history.told, history.late, history.lateUpdate, history.outdated,
                  Causes(cause, condition))

\* A message of an earlier page is sent after the report of the open dialog.
Hides == Past(history.told, history.late \cup (history.told \cap {alert}), history.lateUpdate,
              FALSE, history.causes)

Init ==
  /\ alert = NoAlert /\ opened = 0
  /\ lock = NoOne /\ at = [p \in Process |-> "idle"]
  /\ local = [p \in Process |-> Nothing] /\ cmd = [t \in Task |-> "none"]
  /\ navigating = FALSE /\ executing = FALSE /\ ready = TRUE /\ greeting = FALSE
  /\ linked = TRUE /\ inbox = <<>> /\ frames = <<>>
  /\ slot = Status("connected", "connected", FALSE)
  /\ queue = <<>> /\ inFlight = FALSE
  /\ spent = 0
  /\ history = NoHistory

Goes(p, place) == at' = [at EXCEPT ![p] = place]
Free == lock = NoOne
Happens == spent < MaxEvents /\ spent' = spent + 1
Reads(p, what) == local' = [local EXCEPT ![p] = what]

\* The server's parse_message knows the type; it answers an ALERT_OPENED with
\* an error, which the worker does not look at.
Parses(type) == type # "opened"

Sent(type) == frames' = IF Parses(type) THEN Append(frames, type) ELSE frames
SentIfLinked(type) == IF linked THEN Sent(type) ELSE UNCHANGED frames
-----------------------------------------------------------------------------
(* The page and the link *)

AlertOpens ==
  /\ alert = NoAlert /\ opened < MaxAlerts
  /\ opened' = opened + 1 /\ alert' = opened + 1
  /\ UNCHANGED <<coroutineVars, flagVars, netVars, slot, queueVars, spent, history>>

\* What is on its way to the server is lost, the server tells the controller.
LinkBreaks ==
  /\ linked /\ Happens
  /\ linked' = FALSE /\ inbox' = <<>>
  /\ \E n \in 0..Len(frames) : frames' = Append(SubSeq(frames, 1, n), "disconnected")
  /\ UNCHANGED <<browserVars, coroutineVars, flagVars, slot, queueVars, history>>

\* The reader notices, connects again and sends a snapshot.
LinkReturns ==
  /\ ~linked /\ at["reader"] = "idle"
  /\ linked' = TRUE /\ ready' = FALSE /\ greeting' = TRUE
  /\ Goes("reader", "snap")
  /\ Sent("connected")
  /\ UNCHANGED <<browserVars, lock, local, cmd, navigating, executing, inbox, slot, queueVars,
                 spent, history>>
-----------------------------------------------------------------------------
(* A coroutine reports a dialog; offline it gets a ConnectionError *)

\* The greeting and the tasks catch it, the poll loop does not and ends.
Offline(p) ==
  /\ ~linked /\ at[p] \in {"tell", "status"}
  /\ Goes(p, IF p = "poll" THEN "dead" ELSE "idle")
  /\ ready' = (ready \/ p = "reader") /\ greeting' = (greeting /\ p # "reader")
  /\ Reads(p, Nothing)
  /\ Notes("offline", p = "poll" \/ local[p].nav)
  /\ UNCHANGED <<browserVars, lock, cmd, navigating, executing, netVars, slot, queueVars, spent>>

Tell(p) ==
  /\ linked /\ at[p] = "tell"
  /\ Sent("opened")
  /\ Goes(p, "status")
  /\ UNCHANGED <<browserVars, lock, local, cmd, flagVars, linked, inbox, slot, queueVars, spent,
                 history>>

TellStatus(p) ==
  /\ linked /\ at[p] = "status"
  /\ Sent("alert_blocking")
  /\ Goes(p, IF local[p].nav THEN "reread" ELSE "idle")
  /\ ready' = (ready \/ p = "reader") /\ greeting' = (greeting /\ p # "reader")
  /\ Reads(p, Nothing)
  /\ history' = Past(history.told \cup ({alert} \ {NoAlert}), history.late \ {alert},
                     history.lateUpdate \ {alert}, alert = NoAlert, history.causes)
  /\ UNCHANGED <<browserVars, lock, cmd, navigating, executing, linked, inbox, slot, queueVars, spent>>
-----------------------------------------------------------------------------
(* send_full_snapshot, by any of the coroutines *)

\* Its exception: a dialog met while the page is read is reported upon a new
\* connection only, one met by inject by the poll loop only.  Nobody else
\* tells, and the new connection stays without a snapshot for good.
Blocked(p, teller) ==
  /\ Goes(p, IF teller THEN "tell" ELSE "idle")
  /\ Reads(p, IF teller THEN Word(alert, FALSE) ELSE Nothing)
  /\ lock' = NoOne
  /\ greeting' = (greeting /\ (p # "reader" \/ teller))

\* Mutant: nobody reports a dialog that is met while the page is read.
SnapSourceSilent(p) ==
  /\ at[p] = "snap" /\ Free
  /\ IF alert = NoAlert
     THEN Goes(p, "inject") /\ lock' = p /\ UNCHANGED <<local, greeting>>
     ELSE Blocked(p, FALSE)
  /\ UNCHANGED <<browserVars, cmd, navigating, executing, ready, netVars, slot, queueVars, spent, history>>

SnapSource(p) ==
  /\ at[p] = "snap" /\ Free
  /\ IF alert = NoAlert
     THEN Goes(p, "inject") /\ lock' = p /\ UNCHANGED <<local, greeting>>
     ELSE Blocked(p, p = "reader" /\ greeting)
  /\ UNCHANGED <<browserVars, cmd, navigating, executing, ready, netVars, slot, queueVars, spent, history>>

SnapInject(p) ==
  /\ at[p] = "inject"
  /\ IF alert = NoAlert
     THEN Goes(p, "send") /\ lock' = NoOne /\ UNCHANGED <<local, greeting>>
     ELSE Blocked(p, p = "poll")
  /\ Notes("greeting", greeting' # greeting)
  /\ UNCHANGED <<browserVars, cmd, navigating, executing, ready, netVars, slot, queueVars, spent>>

SnapSend(p) ==
  /\ at[p] = "send"
  /\ SentIfLinked("snapshot")
  /\ Goes(p, "idle")
  /\ ready' = (ready \/ (p = "reader" /\ greeting /\ linked))
  /\ greeting' = (greeting /\ p # "reader")
  /\ history' = IF linked THEN Hides ELSE history
  /\ UNCHANGED <<browserVars, lock, local, cmd, navigating, executing, linked, inbox, slot,
                 queueVars, spent>>
-----------------------------------------------------------------------------
(* The receive loop *)

\* A RESYNC_REQUEST and a restart are served right here, by restart_worker
\* (which is answered first) or by another configuration of the browser.
Receive ==
  /\ at["reader"] = "idle" /\ linked
  /\ inbox # <<>> /\ inbox' = Tail(inbox)
  /\ LET c == Head(inbox)
     IN  \/ /\ c = "resync"
            /\ Goes("reader", "snap") /\ UNCHANGED <<cmd, navigating, executing, frames>>
         \/ /\ c \in {"restart_worker", "browser_config"}
            /\ Goes("reader", "recover")
            /\ frames' = frames \o (IF c = "restart_worker" THEN <<"result", "crashed">> ELSE <<"crashed">>)
            /\ UNCHANGED <<cmd, navigating, executing>>
         \/ /\ c \notin {"resync", "restart_worker", "browser_config"}
            /\ \E t \in Task :
                 /\ at[t] = "idle"
                 /\ Goes(t, "start")
                 /\ cmd' = [cmd EXCEPT ![t] = c]
            /\ navigating' = (navigating \/ c = "refresh")
            /\ executing' = TRUE
            /\ UNCHANGED frames
  /\ UNCHANGED <<browserVars, lock, local, ready, greeting, linked, slot, queueVars, spent, history>>

\* The dialog goes with the old Chrome.
Recover ==
  /\ at["reader"] = "recover" /\ Free
  /\ alert' = NoAlert
  /\ Goes("reader", "recovered")
  /\ UNCHANGED <<opened, lock, local, cmd, flagVars, netVars, slot, queueVars, spent, history>>

SayConnected ==
  /\ at["reader"] = "recovered"
  /\ SentIfLinked("connected")
  /\ Goes("reader", "snap")
  /\ history' = IF linked THEN Hides ELSE history
  /\ UNCHANGED <<browserVars, lock, local, cmd, flagVars, linked, inbox, slot, queueVars, spent>>
-----------------------------------------------------------------------------
(* The commands *)

\* The error of a command may tell of a dialog.
Ends(t, met) ==
  /\ Goes(t, "report")
  /\ Reads(t, Word(met, FALSE))
  /\ lock' = NoOne /\ executing' = FALSE

\* click turns every exception into a ValueError, and _highlight_element,
\* which type begins with, fails on a NameError of its own: no word of the
\* dialog in either.  Of the others the first driver's call tells; the calls
\* after a refresh never fail.
Tells(name, call) == name # "click" /\ <<name, call>> # <<"type", 1>>
Met(name, call) == IF Tells(name, call) THEN alert ELSE NoAlert

FirstCall(t) ==
  /\ at[t] = "start" /\ Free
  /\ IF alert = NoAlert
     THEN Goes(t, "second") /\ lock' = t /\ UNCHANGED <<local, executing>>
     ELSE Ends(t, Met(cmd[t], 1))

SecondCall(t) ==
  /\ at[t] = "second"
  /\ Ends(t, IF cmd[t] = "refresh" THEN NoAlert ELSE Met(cmd[t], 2))

Execute(t) ==
  /\ FirstCall(t) \/ SecondCall(t)
  /\ UNCHANGED <<browserVars, cmd, navigating, ready, greeting, netVars, slot, queueVars, spent, history>>

\* Offline that is all, and the flag of a navigation stays.
Report(t) ==
  /\ at[t] = "report"
  /\ LET nav == cmd[t] = "refresh"
         tells == local[t].met # NoAlert
     IN  /\ IF linked
            THEN /\ Goes(t, IF tells THEN "tell" ELSE IF nav THEN "reread" ELSE "idle")
                 /\ Reads(t, IF tells THEN Word(local[t].met, nav) ELSE Nothing)
            ELSE Goes(t, "idle") /\ Reads(t, Nothing)
         /\ Notes("offline", ~linked /\ nav)
  /\ SentIfLinked("result")
  /\ cmd' = [cmd EXCEPT ![t] = "none"]
  /\ UNCHANGED <<browserVars, lock, navigating, executing, ready, greeting, linked, inbox, slot,
                 queueVars, spent>>

\* Mutant: the flag is put back by the next navigation only.
RereadKeepingFlag(t) ==
  /\ at[t] = "reread" /\ Free
  /\ Goes(t, IF alert = NoAlert THEN "snap" ELSE "idle")
  /\ Notes("reread", alert # NoAlert)
  /\ UNCHANGED <<browserVars, lock, local, cmd, flagVars, netVars, slot, queueVars, spent>>

\* The page is read again after a navigation; a dialog ends the task on the
\* spot, with _navigation_in_progress still set.
Reread(t) ==
  /\ at[t] = "reread" /\ Free
  /\ Goes(t, IF alert = NoAlert THEN "snap" ELSE "idle")
  /\ navigating' = (navigating /\ alert # NoAlert)
  /\ Notes("reread", alert # NoAlert)
  /\ UNCHANGED <<browserVars, lock, local, cmd, executing, ready, greeting, netVars, slot, queueVars, spent>>
-----------------------------------------------------------------------------
(* The poll loop *)

PollWake ==
  /\ at["poll"] = "idle" /\ ~executing
  /\ Goes("poll", "awake")
  /\ UNCHANGED <<browserVars, lock, local, cmd, flagVars, netVars, slot, queueVars, spent, history>>

PollCheck ==
  /\ at["poll"] = "awake"
  /\ Goes("poll", IF linked /\ ready THEN "read" ELSE "idle")
  /\ UNCHANGED <<browserVars, lock, local, cmd, flagVars, netVars, slot, queueVars, spent, history>>

\* Something to send, a change or a page of another address, or nothing; with
\* a dialog the page is not read and nothing is said.
PollRead ==
  /\ at["poll"] = "read" /\ Free
  /\ \/ Goes("poll", "idle") /\ UNCHANGED spent
     \/ /\ ~navigating /\ alert = NoAlert /\ Happens
        /\ \E place \in {"update", "snap"} : Goes("poll", place)
  /\ UNCHANGED <<browserVars, lock, local, cmd, flagVars, netVars, slot, queueVars, history>>

PollUpdate ==
  /\ at["poll"] = "update"
  /\ SentIfLinked("update")
  /\ Goes("poll", "idle")
  /\ history' = IF linked
                THEN Past(history.told, history.late,
                          history.lateUpdate \cup (history.told \cap {alert}), history.outdated,
                          history.causes)
                ELSE history
  /\ UNCHANGED <<browserVars, lock, local, cmd, flagVars, linked, inbox, slot, queueVars, spent>>
-----------------------------------------------------------------------------
(* The controller *)

\* The oldest command goes out when none is in flight; offline it is lost.
Dispatch(commands, busy) ==
  IF busy \/ commands = <<>>
  THEN queue' = commands /\ inFlight' = busy /\ UNCHANGED inbox
  ELSE /\ queue' = Tail(commands) /\ inFlight' = TRUE
       /\ inbox' = IF linked THEN Append(inbox, Head(commands)) ELSE inbox

UserCommand(name) ==
  /\ Happens
  /\ Dispatch(Append(queue, name), inFlight)
  /\ UNCHANGED <<browserVars, coroutineVars, flagVars, linked, frames, slot, history>>

\* Another configuration does not wait for the commands.
UserConfig ==
  /\ Happens /\ linked
  /\ inbox' = Append(inbox, "browser_config")
  /\ UNCHANGED <<browserVars, coroutineVars, flagVars, linked, frames, slot, queueVars, history>>

TakeStatus(m) ==
  /\ m \in {"connected", "disconnected", "crashed", "alert_blocking"}
  /\ slot' = Status(m, m, slot.stale \/ m = "disconnected")
  /\ UNCHANGED <<inbox, queueVars>>

\* Mutant: a snapshot leaves the status alone.
TakeSnapshotOnly(m) ==
  /\ m = "snapshot"
  /\ slot' = Status(slot.status, slot.listed, FALSE)
  /\ UNCHANGED <<inbox, queueVars>>

TakeSnapshot(m) ==
  /\ m = "snapshot"
  /\ slot' = Status("connected", "connected", FALSE)
  /\ UNCHANGED <<inbox, queueVars>>

\* An update that does not fit makes the controller ask for a snapshot, one
\* that fits changes the list only.
TakeUpdate(m) ==
  /\ m = "update"
  /\ \/ slot' = slot /\ inbox' = IF linked THEN Append(inbox, "resync") ELSE inbox
     \/ ~slot.stale /\ slot' = Status(slot.status, "connected", FALSE) /\ UNCHANGED inbox
  /\ UNCHANGED queueVars

TakeResult(m) ==
  /\ m = "result"
  /\ Dispatch(queue, FALSE)
  /\ UNCHANGED slot

Take ==
  /\ frames # <<>> /\ frames' = Tail(frames)
  /\ LET m == Head(frames)
     IN  TakeStatus(m) \/ TakeSnapshot(m) \/ TakeUpdate(m) \/ TakeResult(m)
  /\ UNCHANGED <<browserVars, coroutineVars, flagVars, linked, spent, history>>
-----------------------------------------------------------------------------
Reports(p) == Offline(p) \/ Tell(p) \/ TellStatus(p)
Snapshots(p) == SnapSource(p) \/ SnapInject(p) \/ SnapSend(p)

Next ==
  \/ AlertOpens \/ LinkBreaks \/ LinkReturns
  \/ \E p \in Process : Reports(p) \/ Snapshots(p)
  \/ Receive \/ Recover \/ SayConnected
  \/ \E t \in Task : Execute(t) \/ Report(t) \/ Reread(t)
  \/ PollWake \/ PollCheck \/ PollRead \/ PollUpdate
  \/ \E name \in Names : UserCommand(name)
  \/ UserConfig \/ Take

Spec == Init /\ [][Next]_vars

-----------------------------------------------------------------------------
(* Properties *)

Quiet ==
  /\ frames = <<>> /\ inbox = <<>> /\ queue = <<>> /\ linked
  /\ \A p \in Process : at[p] \in {"idle", "dead"}

\* Once everything is quiet the controller says alert_blocking only of a worker
\* that has a dialog open, whatever restarts, breaks of the link and snapshots
\* there were, unless a dialog was reported by one coroutine after the reader
\* had restarted Chrome and said so (worker.py:342 against 262-268).
NoPhantomAlert ==
  Quiet /\ "alert_blocking" \in {slot.status, slot.listed} => alert # NoAlert \/ history.outdated

\* A dialog that was reported and is still open is shown by the controller, even
\* over a break of the link, unless a snapshot of the page as it was before it
\* opened was sent after the report (send_full_snapshot sends without
\* _selenium_lock, worker.py:206-227), or a restart's connected status; the list
\* of the workers forgets it upon an update, too (main_window.py:296).
OpenAlertIsShown ==
  Quiet /\ alert \in history.told \ history.late
    => /\ slot.status = "alert_blocking"
       /\ alert \notin history.lateUpdate => slot.listed = "alert_blocking"

\* A dialog that is gone leaves the poll loop at work.  What stops it for good
\* is a result or a report that cannot be sent (worker.py:343, 555), a dialog
\* that opens in the middle of the first snapshot of a connection
\* (worker.py:179) and one that the re-reading of a navigation meets
\* (worker.py:358).
MutenessHasACause ==
  Quiet /\ alert = NoAlert /\ history.causes = {}
    => ready /\ ~navigating /\ at["poll"] = "idle"

\* "4. COMMAND_RESULT, ERROR, ALERT_OPENED, TAB_OPENED, TAB_CLOSED" are
\* broadcast to the controllers (message_router.py:356-358): the dialog a worker
\* tells of is on its way to the controller.  The code does not do this.
AlertsAreForwarded ==
  [][\A p \in Process : Tell(p) => frames' = Append(frames, "opened")]_vars
=============================================================================
