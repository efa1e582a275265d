------------------------------ MODULE DomSync ------------------------------
(***************************************************************************)
(* How the page of a worker's browser gets into the mirror of a            *)
(* controller: worker/worker.py (the poll loop, the snapshots, the         *)
(* navigation commands, connecting and restarting) over                    *)
(* worker/mutation_observer.py, and controller/state_manager.py with       *)
(* main_window.py at the other end.  One worker, one browser tab, one      *)
(* controller.                                                             *)
(*                                                                         *)
(* Other controllers may watch the worker too, so its poll loop does not   *)
(* pause while this one is away.                                           *)
(*                                                                         *)
(* The worker is one event loop with three kinds of coroutines: the        *)
(* receive loop ("reader"), the poll loop ("poll") and the task of each    *)
(* navigation command.  A step is what one of them does between two awaits *)
(* that matter; at says where it is.  What it does under _state_lock is    *)
(* one step; what it does under _selenium_lock is several, because the     *)
(* page does not wait for locks.  Alerts and crashes of Chrome are left    *)
(* out: the recovery from a crash is that of restart_worker.               *)
(*                                                                         *)
(* Pages are numbered in the order the browser shows them.  normalize is   *)
(* taken to keep different pages apart, and compute_diff and apply_diff to *)
(* do what shared/dom_differ.py says: the difference of two pages turns    *)
(* the one into the other (module DomDiff shows when).  Applied to any     *)
(* other page it gives garbage.                                            *)
(***************************************************************************)
EXTENDS Naturals, Sequences

CONSTANTS
  Task,      \* the _process_command tasks of navigation commands
  NoOne,     \* "nobody has _selenium_lock"
  Garbled,   \* the html a difference makes of a page it does not fit
  MaxMutations,  \* how often the page changes by itself
  Events,    \* what else happens from outside
  MaxEvents  \* and how often, all in all

ASSUME DomSyncAssumption ==
  /\ Events \subseteq {"load", "command", "drop", "away", "ask", "restart"}
  /\ MaxMutations \in Nat /\ MaxEvents \in Nat
  /\ {"reader", "poll", NoOne} \cap Task = {}
  /\ NoOne \notin {"reader", "poll"}
  /\ Garbled \notin Nat

Process == {"reader", "poll"} \cup Task

VARIABLES
  \* the browser
  page,        \* what it shows
  url,         \* and where: the number of the first page seen there
  observed,    \* the MutationObserver is installed in this document
  recorded,    \* it has recorded something since the last drain
  \* the worker
  lock,        \* who has _selenium_lock
  ahead,       \* who waited for it before the poll loop did
  at,          \* where each coroutine is
  local,       \* what it has read from the browser
  ver,         \* dom_version
  lastHtml,    \* _last_snapshot_html
  lastUrl,     \* _last_snapshot_url
  ready,       \* _snapshot_ready
  greeting,    \* the receive loop is in _on_server_connected
  navigating,  \* _navigation_in_progress
  executing,   \* _command_executing
  \* between them
  linked,      \* the worker's websocket is up
  notice,      \* the server still has to say that the worker was disconnected
  asks,        \* RESYNC_REQUESTs on their way to the worker
  frames,      \* messages on their way to the controller
  \* the controller
  watching,    \* subscribed: the link is up and the tab open
  html,        \* TabState.html
  version,     \* TabState.dom_version
  stale,       \* TabState.is_stale
  \* history
  unnumbered,  \* what has happened that the versions do not tell: the
               \* mirror has not got a snapshot ("lost"), the worker has recorded
               \* a page before sending it, the version has been reset
  missed,      \* since the page was last read for a snapshot, changes have been
               \* thrown away, or an older page has been sent after a newer one
  unsent,      \* a navigation could not send its result, and none has ended since
  mutations,   \* how often the page has changed by itself
  spent        \* how many other events there were

browserVars == <<page, url, observed, recorded, missed>>
coroutineVars == <<at, local>>
lastVars == <<ver, lastHtml, lastUrl>>
flagVars == <<ready, greeting, navigating, executing, unsent>>
channelVars == <<frames, unnumbered>>
netVars == <<linked, notice, asks, channelVars>>
mirrorVars == <<watching, html, version, stale>>
countVars == <<mutations, spent>>
lockVars == <<lock, ahead>>
workerVars == <<lockVars, coroutineVars, lastVars, flagVars>>
vars == <<browserVars, workerVars, netVars, mirrorVars, countVars>>

Snapshot(v, h) == [type |-> "snapshot", version |-> v, html |-> h]
Update(b, v, from, to) ==
  [type |-> "update", base |-> b, version |-> v, from |-> from, to |-> to]
Disconnected == [type |-> "disconnected"]
\* What a coroutine has read: a page, an address, whether the observer had
\* recorded something, whether it was installed at all.
Seen(h, u, drained, known) == [html |-> h, url |-> u, drained |-> drained, known |-> known]
Nothing == Seen(0, 0, FALSE, FALSE)

Init ==
  /\ page = 0 /\ url = 0 /\ observed = FALSE /\ recorded = FALSE
  /\ lock = NoOne /\ ahead = {}
  /\ at = [p \in Process |-> IF p = "reader" THEN "off" ELSE "idle"]
  /\ local = [p \in Process |-> Nothing]
  /\ ver = 1 /\ lastHtml = 0 /\ lastUrl = 0
  /\ ready = FALSE /\ greeting = FALSE /\ navigating = FALSE /\ executing = FALSE
  /\ linked = FALSE /\ notice = FALSE /\ asks = 0 /\ frames = <<>>
  /\ watching = TRUE /\ html = 0 /\ version = 0 /\ stale = TRUE
  /\ unnumbered = {} /\ missed = FALSE /\ unsent = FALSE
  /\ mutations = 0 /\ spent = 0

Happens(e) ==
  /\ e \in Events
  /\ spent < MaxEvents
  /\ spent' = spent + 1
  /\ UNCHANGED mutations

\* A coroutine goes on, having read something, or goes on without what it
\* had read.
Goes(p, place) == at' = [at EXCEPT ![p] = place] /\ UNCHANGED local
Reads(p, place, what) == at' = [at EXCEPT ![p] = place] /\ local' = [local EXCEPT ![p] = what]
Ends(p, place) == Reads(p, place, Nothing)

\* Mutant: whoever comes may go first.
TurnOfAnyone(p) ==
  /\ lock = NoOne
  /\ ahead' = IF p = "poll" THEN {} ELSE ahead \ {p}

\* _selenium_lock is first come, first served: who comes while the poll loop
\* waits for it does not go before it.
Turn(p) ==
  /\ lock = NoOne
  /\ at["poll"] \in {"discard", "watch"} => p = "poll" \/ p \in ahead
  /\ ahead' = IF p = "poll" THEN {} ELSE ahead \ {p}
Acquire(p) == Turn(p) /\ lock' = p
Release(p) == lock = p /\ lock' = NoOne /\ UNCHANGED ahead

\* send_message, or a broadcast of the server: nobody but a subscriber
\* hears it.
Post(frame) ==
  /\ frames' = IF watching THEN Append(frames, frame) ELSE frames
  /\ unnumbered' = IF ~watching /\ frame.type = "snapshot" THEN unnumbered \cup {"lost"} ELSE unnumbered

\* The last frames on a broken link are lost.
Lose ==
  \E n \in 0..Len(frames) :
    /\ frames' = SubSeq(frames, 1, n)
    /\ unnumbered' = IF \E i \in n + 1..Len(frames) : frames[i].type = "snapshot"
                     THEN unnumbered \cup {"lost"} ELSE unnumbered
-----------------------------------------------------------------------------
(* The browser *)

\* The page changes; the observer, if installed, records it.
Mutation ==
  /\ mutations < MaxMutations
  /\ mutations' = mutations + 1
  /\ page' = page + 1
  /\ recorded' = observed
  /\ UNCHANGED <<url, observed, missed, workerVars, netVars, mirrorVars, spent>>

\* A new document, at the same address or another one.
NewDocument ==
  /\ page' = page + 1
  /\ url' \in {url, page + 1}
  /\ observed' = FALSE
  /\ recorded' = FALSE
  /\ UNCHANGED missed

\* A link, a form or a script of the page loads one.
Load ==
  /\ Happens("load")
  /\ NewDocument
  /\ UNCHANGED <<workerVars, netVars, mirrorVars>>

\* Mutant: the script does not look whether the observer is installed.
InjectAgain(read) ==
  /\ observed' = TRUE
  /\ recorded' = FALSE
  /\ UNCHANGED missed

\* inject: a second observer is never installed; a new one has recorded
\* nothing.
Inject(read) ==
  /\ observed' = TRUE
  /\ recorded' = (observed /\ recorded)
  /\ missed' = (missed \/ (~observed /\ read # page))

\* drain_mutations: where no observer is installed, one is; but not in a
\* document that comes after it has looked whether one is.
Drain(kept) ==
  \/ /\ observed' = TRUE
     /\ recorded' = FALSE
     /\ missed' = (missed \/ (observed /\ recorded /\ ~kept) \/ (~observed /\ page # lastHtml))
  \/ ~observed /\ UNCHANGED <<observed, recorded, missed>>
-----------------------------------------------------------------------------
(* send_full_snapshot, in any coroutine *)

SnapshotRead(p) ==
  /\ at[p] = "snapshot"
  /\ Acquire(p)
  /\ Reads(p, "snapshot inject", Seen(page, 0, FALSE, FALSE))
  /\ missed' = FALSE
  /\ UNCHANGED <<page, url, observed, recorded, lastVars, flagVars, netVars, mirrorVars, countVars>>

\* Mutant: the lock is not given back.
SnapshotInjectLocked(p) ==
  /\ at[p] = "snapshot inject"
  /\ Reads(p, "snapshot send", Seen(local[p].html, url, FALSE, FALSE))
  /\ Inject(local[p].html)
  /\ UNCHANGED <<page, url, lockVars, lastVars, flagVars, netVars, mirrorVars, countVars>>

SnapshotInject(p) ==
  /\ at[p] = "snapshot inject"
  /\ Release(p)
  /\ Reads(p, "snapshot send", Seen(local[p].html, url, FALSE, FALSE))
  /\ Inject(local[p].html)
  /\ UNCHANGED <<page, url, lastVars, flagVars, netVars, mirrorVars, countVars>>

\* Under _state_lock.  Offline, send_message raises: what is recorded as
\* the last snapshot stays, and connecting does not go on to its drain.
SnapshotSend(p) ==
  /\ at[p] = "snapshot send"
  /\ IF linked
       THEN /\ Post(Snapshot(ver, local[p].html))
            /\ lastHtml' = local[p].html
            /\ lastUrl' = local[p].url
            /\ missed' = (missed \/ local[p].html < lastHtml)
       ELSE UNCHANGED <<channelVars, lastHtml, lastUrl, missed>>
  /\ greeting' = (greeting /\ (p = "reader" => linked))
  /\ Ends(p, CASE p = "poll" -> "idle"
               [] p \in Task -> "ended"
               [] p = "reader" -> IF greeting /\ linked THEN "drain" ELSE "read")
  /\ UNCHANGED <<page, url, observed, recorded, lockVars, ver, ready, navigating, executing, unsent, linked, notice, asks,
                 mirrorVars, countVars>>
-----------------------------------------------------------------------------
(* The receive loop *)

\* The websocket is up (again): _on_server_connected.
Connect ==
  /\ at["reader"] = "off"
  /\ linked' = TRUE
  /\ greeting' = TRUE
  /\ Goes("reader", "snapshot")
  /\ UNCHANGED <<browserVars, lockVars, lastVars, ready, navigating, executing, unsent, notice, asks,
                 channelVars, mirrorVars, countVars>>

\* Its last part: what was recorded during the outage is thrown away.
Greeted ==
  /\ at["reader"] = "drain"
  /\ Turn("reader")
  /\ Drain(FALSE)
  /\ ready' = TRUE
  /\ greeting' = FALSE
  /\ Goes("reader", "read")
  /\ UNCHANGED <<page, url, lock, lastVars, navigating, executing, unsent, netVars, mirrorVars, countVars>>

\* Mutant: a request that finds the browser busy is skipped.
TakeAskIdle ==
  /\ at["reader"] = "read"
  /\ asks > 0
  /\ asks' = asks - 1
  /\ Goes("reader", IF lock = NoOne THEN "snapshot" ELSE "read")
  /\ UNCHANGED <<browserVars, lockVars, lastVars, flagVars, linked, notice, channelVars, mirrorVars, countVars>>

\* RESYNC_REQUEST.
TakeAsk ==
  /\ at["reader"] = "read"
  /\ asks > 0
  /\ asks' = asks - 1
  /\ Goes("reader", "snapshot")
  /\ UNCHANGED <<browserVars, lockVars, lastVars, flagVars, linked, notice, channelVars, mirrorVars, countVars>>

\* restart_worker or BROWSER_CONFIG: a new Chrome at TARGET_DOMAIN, then
\* version 0, then a snapshot.
TakeRestart ==
  /\ at["reader"] = "read"
  /\ linked
  /\ Happens("restart")
  /\ Goes("reader", "restart")
  /\ UNCHANGED <<browserVars, lockVars, lastVars, flagVars, netVars, mirrorVars>>
Restart ==
  /\ at["reader"] = "restart"
  /\ Turn("reader")
  /\ NewDocument
  /\ Goes("reader", "reset")
  /\ UNCHANGED <<lock, lastVars, flagVars, netVars, mirrorVars, countVars>>
ResetVersion ==
  /\ at["reader"] = "reset"
  /\ ver' = 0
  /\ unnumbered' = unnumbered \cup {"reset"}
  /\ Goes("reader", "snapshot")
  /\ UNCHANGED <<browserVars, lockVars, lastHtml, lastUrl, flagVars, linked, notice, asks, frames,
                 mirrorVars, countVars>>

\* The loop over the old connection ends: _on_server_disconnected.
Disconnect ==
  /\ at["reader"] = "read"
  /\ ~linked
  /\ ready' = FALSE
  /\ Goes("reader", "off")
  /\ UNCHANGED <<browserVars, lockVars, lastVars, greeting, navigating, executing, unsent, netVars, mirrorVars, countVars>>
-----------------------------------------------------------------------------
(* _mutation_poll_loop *)

PollWake ==
  /\ at["poll"] = "idle"
  /\ ~executing
  /\ linked
  /\ ready
  /\ Goes("poll", "awake")
  /\ UNCHANGED <<browserVars, lockVars, lastVars, flagVars, netVars, mirrorVars, countVars>>

\* Who waits for _selenium_lock.
Waiting == {p \in Process : at[p] \in {"snapshot", "drain", "restart", "queued", "page"}}

\* The browser is alive.  The flag is read before the loop waits for the lock
\* again, and the navigation goes on while it waits.
PollCheck ==
  /\ at["poll"] = "awake"
  /\ lock = NoOne
  /\ Goes("poll", IF navigating THEN "discard" ELSE "watch")
  /\ ahead' = Waiting
  /\ UNCHANGED <<browserVars, lock, lastVars, flagVars, netVars, mirrorVars, countVars>>

\* While a navigation is under way, mutations are thrown away.
PollDiscard ==
  /\ at["poll"] = "discard"
  /\ Turn("poll")
  /\ Drain(FALSE)
  /\ Goes("poll", "idle")
  /\ UNCHANGED <<page, url, lock, lastVars, flagVars, netVars, mirrorVars, countVars>>

\* is_injected, and then, under the same lock, the drain.
PollLook ==
  /\ at["poll"] = "watch"
  /\ Acquire("poll")
  /\ Reads("poll", "looked", Seen(0, 0, FALSE, observed))
  /\ UNCHANGED <<browserVars, lastVars, flagVars, netVars, mirrorVars, countVars>>
PollDrain ==
  /\ at["poll"] = "looked"
  /\ Reads("poll", "drained", Seen(0, 0, recorded, local["poll"].known))
  /\ Drain(TRUE)
  /\ UNCHANGED <<page, url, lockVars, lastVars, flagVars, netVars, mirrorVars, countVars>>

\* The url and then the page source are read after the drain, so a change in
\* between is in the page and in the next drain.
PollAddress ==
  LET read == local["poll"]
  IN  /\ at["poll"] = "drained"
      /\ IF navigating THEN Release("poll") /\ Ends("poll", "idle")
         ELSE Reads("poll", "addressed", Seen(0, url, read.drained, read.known)) /\ UNCHANGED lockVars
      /\ UNCHANGED <<browserVars, lastVars, flagVars, netVars, mirrorVars, countVars>>
PollRead ==
  LET read == local["poll"]
  IN  /\ at["poll"] = "addressed"
      /\ Release("poll")
      /\ Reads("poll", "compare url", Seen(page, read.url, read.drained, read.known))
      /\ UNCHANGED <<browserVars, lastVars, flagVars, netVars, mirrorVars, countVars>>

\* Another url: a new document is sent whole; the same document with a
\* new url (as far as the poll loop can tell) is announced with no
\* operations, and its mutations follow.
PollCompareUrl ==
  LET read == local["poll"]
      moved == read.url # lastUrl
  IN  /\ at["poll"] = "compare url"
      /\ lastUrl' = read.url
      /\ IF moved /\ read.known /\ linked THEN Post(Update(ver, ver, lastHtml, lastHtml))
         ELSE UNCHANGED channelVars
      /\ IF moved /\ ~read.known THEN Ends("poll", "snapshot")
         ELSE IF read.drained /\ (moved => linked) THEN Goes("poll", "compare")
         ELSE Ends("poll", "idle")
      /\ UNCHANGED <<browserVars, lockVars, ver, lastHtml, flagVars, linked, notice, asks, mirrorVars, countVars>>

\* Mutant: a difference is sent under the version it was sent on.
PollSendSameVersion ==
  /\ at["poll"] = "compare"
  /\ IF linked /\ local["poll"].html # lastHtml
       THEN /\ Post(Update(ver, ver, lastHtml, local["poll"].html))
            /\ lastHtml' = local["poll"].html
       ELSE UNCHANGED <<channelVars, lastHtml>>
  /\ Ends("poll", "idle")
  /\ UNCHANGED <<browserVars, lockVars, ver, lastUrl, flagVars, linked, notice, asks, mirrorVars, countVars>>

\* Under _state_lock.  Offline, send_message raises before anything is
\* recorded.
PollSend ==
  /\ at["poll"] = "compare"
  /\ IF linked /\ local["poll"].html # lastHtml
       THEN /\ Post(Update(ver, ver + 1, lastHtml, local["poll"].html))
            /\ ver' = ver + 1
            /\ lastHtml' = local["poll"].html
            /\ missed' = (missed \/ local["poll"].html < lastHtml)
       ELSE UNCHANGED <<channelVars, ver, lastHtml, missed>>
  /\ Ends("poll", "idle")
  /\ UNCHANGED <<page, url, observed, recorded, lockVars, lastUrl, flagVars, linked, notice, asks, mirrorVars, countVars>>
-----------------------------------------------------------------------------
(* _process_command of a navigation *)

TaskStart(t) ==
  /\ at[t] = "idle"
  /\ at["reader"] = "read"
  /\ linked
  /\ Happens("command")
  /\ Goes(t, "queued")
  /\ navigating' = TRUE
  /\ executing' = TRUE
  /\ UNCHANGED <<browserVars, lockVars, lastVars, ready, greeting, unsent, netVars, mirrorVars>>

\* The command has run, with or without success; offline its result cannot
\* be sent and the task returns as it is.
TaskRun(t) ==
  /\ at[t] = "queued"
  /\ Turn(t)
  /\ NewDocument \/ UNCHANGED browserVars
  /\ executing' = FALSE
  /\ Goes(t, IF linked THEN "page" ELSE "ended")
  /\ unsent' = (unsent \/ ~linked)
  /\ UNCHANGED <<lock, lastVars, ready, greeting, navigating, netVars, mirrorVars, countVars>>

TaskRead(t) ==
  /\ at[t] = "page"
  /\ Acquire(t)
  /\ Reads(t, "inject", Seen(page, 0, FALSE, FALSE))
  /\ UNCHANGED <<browserVars, lastVars, flagVars, netVars, mirrorVars, countVars>>

TaskInject(t) ==
  /\ at[t] = "inject"
  /\ Release(t)
  /\ Inject(local[t].html)
  /\ Goes(t, "record")
  /\ UNCHANGED <<page, url, lastVars, flagVars, netVars, mirrorVars, countVars>>

\* Mutant: the navigation is never over.
TaskRecordOnly(t) ==
  /\ at[t] = "record"
  /\ lastHtml' = local[t].html
  /\ unnumbered' = unnumbered \cup {"recorded"}
  /\ Ends(t, "snapshot")
  /\ UNCHANGED <<browserVars, lockVars, ver, lastUrl, ready, greeting, navigating, executing, unsent, linked, notice, asks,
                 frames, mirrorVars, countVars>>

\* Mutant: the page is recorded, and not sent.
TaskRecordUnsent(t) ==
  /\ at[t] = "record"
  /\ lastHtml' = local[t].html
  /\ navigating' = FALSE /\ unsent' = FALSE
  /\ unnumbered' = unnumbered \cup {"recorded"}
  /\ Ends(t, "ended")
  /\ UNCHANGED <<browserVars, lockVars, ver, lastUrl, ready, greeting, executing, linked, notice, asks,
                 frames, mirrorVars, countVars>>

\* The page is recorded as the last snapshot before it is sent.
TaskRecord(t) ==
  /\ at[t] = "record"
  /\ lastHtml' = local[t].html
  /\ navigating' = FALSE /\ unsent' = FALSE
  /\ unnumbered' = unnumbered \cup {"recorded"}
  /\ Ends(t, "snapshot")
  /\ UNCHANGED <<browserVars, lockVars, ver, lastUrl, ready, greeting, executing, linked, notice, asks,
                 frames, mirrorVars, countVars>>
-----------------------------------------------------------------------------
(* The links *)

\* The worker's websocket breaks: the last frames on it are lost, and the
\* server tells its subscribers, unless a new connection of the worker
\* replaces the old one first.  The notice can come after the reconnect.
Drop ==
  /\ linked
  /\ Happens("drop")
  /\ linked' = FALSE
  /\ asks' = 0
  /\ Lose
  /\ notice' \in BOOLEAN
  /\ UNCHANGED <<browserVars, workerVars, mirrorVars>>

Notice ==
  /\ notice
  /\ notice' = FALSE
  /\ Post(Disconnected)
  /\ UNCHANGED <<browserVars, workerVars, linked, asks, mirrorVars, countVars>>

\* A RESYNC_REQUEST reaches a connected worker only.
Ask == asks' = IF linked THEN asks + 1 ELSE asks

\* The user asks for one.
UserAsk ==
  /\ watching
  /\ Happens("ask")
  /\ Ask
  /\ UNCHANGED <<browserVars, workerVars, linked, notice, channelVars, mirrorVars>>
-----------------------------------------------------------------------------
(* The mirror *)

\* apply_diff.
Patched(h, from, to) == IF from = to THEN h ELSE IF h = from THEN to ELSE Garbled

\* The next message is of this type and leaves the channel.
Takes(type) ==
  /\ frames # <<>> /\ Head(frames).type = type
  /\ frames' = Tail(frames)
  /\ UNCHANGED <<unnumbered, browserVars, workerVars, linked, notice, watching, countVars>>

\* Mutant: the version of a difference is not looked at.
TakeUpdateAnyVersion ==
  /\ Takes("update")
  /\ html' = Patched(html, Head(frames).from, Head(frames).to)
  /\ version' = Head(frames).version
  /\ UNCHANGED <<stale, asks>>

\* apply_dom_update; refused, the worker is asked for a snapshot.
TakeUpdate ==
  LET f == Head(frames)
  IN  /\ Takes("update")
      /\ IF stale \/ version # f.base
           THEN stale' = TRUE /\ Ask /\ UNCHANGED <<html, version>>
           ELSE /\ html' = Patched(html, f.from, f.to)
                /\ version' = f.version
                /\ UNCHANGED <<stale, asks>>

\* apply_full_snapshot.
TakeSnapshot ==
  /\ Takes("snapshot")
  /\ html' = Head(frames).html
  /\ version' = Head(frames).version
  /\ stale' = FALSE
  /\ UNCHANGED asks

\* update_status.
TakeDisconnected ==
  /\ Takes("disconnected")
  /\ stale' = TRUE
  /\ UNCHANGED <<asks, html, version>>

\* Mutant: whoever comes back with a stale mirror waits for what comes.
ComeBackWaiting(newLink) ==
  /\ ~watching
  /\ newLink => frames = <<>>
  /\ watching' = TRUE
  /\ stale' = (stale \/ newLink)
  /\ UNCHANGED asks
  /\ \/ UNCHANGED frames
     \/ ~linked /\ frames' = Append(frames, Disconnected)
  /\ UNCHANGED <<browserVars, workerVars, linked, notice, unnumbered, html, version, countVars>>

\* The controller loses its link, or closes the tab, and comes back.  The
\* server then tells it the status of the worker.  With a new link
\* everything is stale (_on_server_connected); a tab opened again asks for
\* a snapshot only if its mirror is stale (_on_worker_item_clicked).
Leave ==
  /\ watching
  /\ Happens("away")
  /\ watching' = FALSE
  /\ Lose
  /\ UNCHANGED <<browserVars, workerVars, linked, notice, asks, html, version, stale>>
ComeBack(newLink) ==
  /\ ~watching
  /\ newLink => frames = <<>>
  /\ watching' = TRUE
  /\ stale' = (stale \/ newLink)
  /\ IF stale' THEN Ask ELSE UNCHANGED asks
  /\ \/ UNCHANGED frames
     \/ ~linked /\ frames' = Append(frames, Disconnected)
  /\ UNCHANGED <<browserVars, workerVars, linked, notice, unnumbered, html, version, countVars>>
-----------------------------------------------------------------------------
SnapshotStep(p) == SnapshotRead(p) \/ SnapshotInject(p) \/ SnapshotSend(p)
ReaderStep ==
  \/ Greeted \/ TakeAsk \/ Restart \/ ResetVersion \/ Disconnect \/ SnapshotStep("reader")
PollStep ==
  \/ PollWake \/ PollCheck \/ PollDiscard \/ PollLook \/ PollDrain \/ PollAddress \/ PollRead
  \/ PollCompareUrl \/ PollSend \/ SnapshotStep("poll")
TaskStep(t) == TaskRun(t) \/ TaskRead(t) \/ TaskInject(t) \/ TaskRecord(t) \/ SnapshotStep(t)
MirrorStep == TakeUpdate \/ TakeSnapshot \/ TakeDisconnected

Next ==
  \/ Mutation \/ Load
  \/ Connect \/ TakeRestart \/ ReaderStep
  \/ PollStep
  \/ \E t \in Task : TaskStart(t) \/ TaskStep(t)
  \/ Drop \/ Notice \/ UserAsk \/ MirrorStep \/ Leave
  \/ \E newLink \in BOOLEAN : ComeBack(newLink)

\* The event loops go on and Selenium calls return.  Semaphore and Lock of
\* asyncio are first come, first served: whoever waits for _selenium_lock
\* gets it (SF), although the poll loop takes it again and again.  The
\* client reconnects for ever.  Nothing is asked of the page, the users and
\* the links.
Fairness ==
  /\ WF_vars(Connect)
  /\ \A p \in Process : SF_vars(SnapshotRead(p)) /\ WF_vars(SnapshotInject(p) \/ SnapshotSend(p))
  /\ SF_vars(Greeted \/ Restart)
  /\ WF_vars(TakeAsk \/ ResetVersion \/ Disconnect)
  /\ SF_vars(PollCheck \/ PollDiscard \/ PollLook)
  /\ WF_vars(PollWake \/ PollDrain \/ PollAddress \/ PollRead \/ PollCompareUrl \/ PollSend)
  /\ \A t \in Task : SF_vars(TaskRun(t) \/ TaskRead(t)) /\ WF_vars(TaskInject(t) \/ TaskRecord(t))
  /\ WF_vars(MirrorStep)

Spec == Init /\ [][Next]_vars /\ Fairness
-----------------------------------------------------------------------------
(* Properties *)

Place == {"idle", "awake", "discard", "watch", "looked", "drained", "addressed", "compare url",
  "compare", "off", "read", "drain", "restart", "reset", "queued", "page", "inject", "record", "ended", "snapshot", "snapshot inject",
  "snapshot send"}

\* Types, and _selenium_lock is held exactly between the two halves of what
\* a coroutine reads from the browser (worker.py:200, 356 and 459).
DomTypeOK ==
  /\ page \in Nat /\ url \in 0..page /\ observed \in BOOLEAN /\ recorded \in BOOLEAN
  /\ recorded => observed
  /\ lock \in Process \cup {NoOne} /\ ahead \subseteq Process
  /\ at \in [Process -> Place]
  /\ \A p \in Process : lock = p <=> at[p] \in {"looked", "drained", "addressed", "inject", "snapshot inject"}
  /\ local \in [Process -> [html : 0..page, url : 0..page, drained : BOOLEAN, known : BOOLEAN]]
  /\ ver \in Nat /\ lastHtml \in 0..page /\ lastUrl \in 0..page
  /\ {ready, greeting, navigating, executing, linked, notice, watching, stale, missed, unsent} \subseteq BOOLEAN
  /\ unnumbered \subseteq {"lost", "recorded", "reset"}
  /\ asks \in Nat /\ version \in Nat
  /\ html \in 0..page \cup {Garbled}

\* Versions make up for lost updates: however many updates a mirror misses,
\* while it is away or on a broken link, no difference is ever applied to a
\* page it does not fit (state_manager.py:149), but for the three things
\* that versions do not tell.
UpdatesFit == html = Garbled => unnumbered # {}

\* A snapshot is read or about to be, or a new connection is to be greeted with
\* one; or it is on its way.
SnapshotComes ==
  \/ ~linked
  \/ \E p \in Process : at[p] \in {"off", "snapshot", "snapshot inject", "snapshot send"}
SnapshotSent == \E i \in 1..Len(frames) : frames[i].type = "snapshot"

\* Garbage does not stay: where versions do not tell that a difference does
\* not fit (a page recorded before it is sent, worker.py:366; a version that
\* starts again, worker.py:259), the snapshot that puts it right is still to
\* come when the difference is applied, unless a snapshot was lost.
GarbageIsReplaced ==
  html = Garbled /\ "lost" \notin unnumbered => SnapshotComes \/ SnapshotSent

\* The mirror is stale, although both links are up, and nothing is on the way
\* that would help it.
Stranded ==
  /\ watching /\ linked /\ stale
  /\ asks = 0 /\ ~SnapshotComes /\ ~SnapshotSent

\* A mirror that turns stale has asked for a snapshot or one is coming
\* already (main_window.py:292, 382), and what was coming has not got lost
\* without a link breaking: only the notice of an old disconnection that
\* comes after the greeting of the new connection leaves it stale and
\* without help.
StaleIsHelped == [][Stranded' => Stranded \/ TakeDisconnected]_vars

\* A RESYNC_REQUEST on its way is answered by a snapshot that the mirror
\* takes, whatever the poll loop and the commands do meanwhile, unless the
\* link breaks or the mirror goes away (worker.py:302).
ResyncHeals == watching /\ linked /\ asks > 0 ~> ~stale \/ ~linked \/ ~watching

\* The mirror has all that was sent, or it is on its way.
Follows ==
  /\ watching /\ linked /\ ready
  /\ ~stale /\ unnumbered = {}
  /\ frames = <<>> => version = ver

\* A change the observer has recorded gets to a mirror that follows, also
\* when a snapshot installs the observer again, when resyncs overlap with
\* the poll loop and when the change comes between its drain and its
\* reading of the page (worker.py:459).  Not so when the document is
\* replaced; and during a navigation, changes are discarded.
ChangesArrive ==
  \A n \in 1..MaxMutations + MaxEvents :
    Follows /\ ~navigating /\ recorded /\ page = n
      ~> html \in n..page \/ ~Follows \/ navigating \/ ~observed

\* No page is on its way to the mirror, and the observer, in place, has nothing
\* to report.
Settled ==
  /\ linked /\ frames = <<>>
  /\ \A p \in Process : at[p] \in {"idle", "read", "ended"}
  /\ observed /\ ~recorded

\* A mirror that is not stale and has the worker's version shows the page
\* that the browser shows, also after reconnects, navigations, restarts and
\* visits elsewhere, once nothing is under way and nothing recorded is left
\* to send (worker.py:156, 540; state_manager.py:149), unless changes have
\* been thrown away (worker.py:166, 456; mutation_observer.py:129), a page
\* read earlier was sent later (worker.py:200-227 and 468-536: the lock is
\* given up in between), or a snapshot was lost.
SettledMirrorIsCurrent ==
  Settled /\ ~stale /\ version = ver /\ ~missed /\ "lost" \notin unnumbered => html = page

\* Changes that the poll loop throws away for the sake of a navigation are in
\* a snapshot still to be read, although the navigation goes on, and may be
\* over, while the loop waits for the lock (worker.py:453); but for a
\* navigation that could not send its result: it returns with the flag set
\* (worker.py:348).
DiscardsAreReread ==
  [][PollDiscard =>
       unsent \/ \E t \in Task : at[t] \in {"queued", "page", "inject", "record", "snapshot"}]_vars
=============================================================================
