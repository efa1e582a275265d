---------------------------- MODULE BrowserTabs ----------------------------
(***************************************************************************)
(* The browser's tabs as the worker follows them (the poll loop, the       *)
(* commands about tabs and the snapshots of worker/worker.py, the commands *)
(* themselves in command_handler.py) and as the controller mirrors them.   *)
(* One worker, one controller with the worker's tab open, links that hold; *)
(* the controller's queue has one command under way at a time.             *)
(*                                                                         *)
(* Drivers' calls run in threads: between any two of one coroutine those   *)
(* of another may come that does not wait for _selenium_lock.  Of a page   *)
(* only matters which window it is the page of.                            *)
(***************************************************************************)
EXTENDS Browser, TabMirror, FiniteSets

CONSTANTS
  Task,      \* the _process_command tasks
  NoOne,     \* nobody has _selenium_lock
  Events,    \* what happens from outside
  MaxEvents, \* how often, all in all
  MaxFrames  \* how far the controller may fall behind

ASSUME BrowserTabsAssumption ==
  /\ {MaxEvents, MaxFrames} \subseteq Nat
  /\ Events \subseteq {"open", "gone", "mutate", "new_tab", "switch_tab", "close_tab"}
  /\ {"poll", "reader"} \cap Task = {} /\ NoOne \notin {"poll", "reader"} \cup Task
  /\ Garbled \notin 0..MaxHandle

Process == {"poll", "reader"} \cup Task

VARIABLES
  lock,      \* who has _selenium_lock
  at,        \* where each coroutine is
  local,     \* what it has read: whose page, a handle, whether the page had
             \* an observer and mutations, all handles
  cmd,       \* the command of each task
  executing, navigating,  \* the worker's two flags
  known,     \* _known_window_handles
  ver,       \* dom_version
  lastPage,  \* the window whose page _last_snapshot_html is
  lastUrl,   \* and _last_snapshot_url: every window has its own address
  inbox,     \* messages on their way to the worker
  frames,    \* and to the controller
  pending,   \* a command of the controller is under way
  spent,     \* how many events there were
  history    \* see History

flagVars == <<executing, navigating>>
coroutineVars == <<lock, at, local, cmd>>
netVars == <<inbox, frames, pending>>
pageOfVars == <<lastPage, lastUrl>>
stateVars == <<known, ver, pageOfVars>>
vars == <<browserVars, mirrorVars, coroutineVars, flagVars, stateVars, netVars, spent, history>>

Has(page, handle, hasObserver, hasMutations, all) ==
  [page |-> page, handle |-> handle, observed |-> hasObserver, mutated |-> hasMutations, all |-> all]
Nothing == Has(0, 0, FALSE, FALSE, {})
Only(handle) == Has(0, handle, FALSE, FALSE, {})
NoCommand == [name |-> "none", handle |-> 0]
Resync == [name |-> "resync", handle |-> 0]

\* What has happened: the last snapshot was sent when the driver was on
\* another window; the tabs whose last snapshot was of another page or was
\* sent when they had gone; the handles the poll loop has listed, and those
\* it did not follow because a newer one came with them.
Past(late, mixed, dead, listed, skipped) ==
  [late |-> late, mixed |-> mixed, dead |-> dead, listed |-> listed, skipped |-> skipped]
NoHistory == Past(FALSE, {}, {}, {}, {})
Sent(h, page) ==
  LET Now(set, condition) == IF condition THEN set \cup {h} ELSE set \ {h}
  IN  Past(h # focus, Now(history.mixed, h # page), Now(history.dead, h \notin Open),
           history.listed, history.skipped)
Listed(skipped) ==
  Past(history.late, history.mixed, history.dead, history.listed \cup Open,
       history.skipped \cup skipped)

\* The worker has sent the snapshot of its first page.
Init ==
  /\ BrowserInit /\ MirrorInit
  /\ lock = NoOne
  /\ at = [p \in Process |-> "idle"] /\ local = [p \in Process |-> Nothing]
  /\ cmd = [t \in Task |-> NoCommand]
  /\ executing = FALSE /\ navigating = FALSE
  /\ known = {} /\ ver = 1 /\ lastPage = 1 /\ lastUrl = 1
  /\ inbox = <<>> /\ pending = FALSE
  /\ frames = <<[type |-> "snapshot", handle |-> 1, page |-> 1, version |-> 1]>>
  /\ spent = 0 /\ history = NoHistory

Happens(e) == e \in Events /\ spent < MaxEvents /\ spent' = spent + 1

Goes(p, place) == at' = [at EXCEPT ![p] = place]
Reads(p, what) == local' = [local EXCEPT ![p] = what]
Free == lock = NoOne
\* At most MaxFrames are on their way when another is sent.
Post(new) == Len(frames) <= MaxFrames /\ frames' = frames \o new
-----------------------------------------------------------------------------
(* Pages and the user *)

PageOpens == Happens("open") /\ OpenWindow
PageGoes == Happens("gone") /\ \E h \in Open : WindowCloses(h)
PageMutates == Happens("mutate") /\ \E h \in observed \ mutated : Mutates(h)

World ==
  /\ PageOpens \/ PageGoes \/ PageMutates
  /\ UNCHANGED <<mirrorVars, coroutineVars, flagVars, stateVars, netVars, history>>

\* The user clicks a tab, its cross, or opens a link in a new tab.  The tab
\* bar is hidden unless there are two.
Command(name, h) ==
  /\ Happens(name)
  /\ ~pending
  /\ IF name = "new_tab" THEN h = 0 ELSE h \in bar /\ Cardinality(bar) > 1
  /\ pending' = TRUE
  /\ inbox' = Append(inbox, [name |-> name, handle |-> h])
  /\ UNCHANGED <<browserVars, mirrorVars, coroutineVars, flagVars, stateVars, frames, history>>
-----------------------------------------------------------------------------
(* send_full_snapshot, by any of the coroutines *)

\* Whether the driver is on an open window is asked without the lock.
SnapCheck(p) ==
  /\ at[p] = "snap"
  /\ Goes(p, IF IsAlive THEN "source" ELSE "recover")
  /\ UNCHANGED <<browserVars, mirrorVars, lock, local, cmd, flagVars, stateVars, netVars, spent, history>>

\* If not Chrome is restarted and versions start again.
Recover(p) ==
  /\ at[p] = "recover"
  /\ Free /\ made < MaxHandle
  /\ Restart
  /\ ver' = 0
  /\ Goes(p, "snap")
  /\ UNCHANGED <<mirrorVars, lock, local, cmd, flagVars, known, pageOfVars, netVars, spent, history>>

\* The page, under the lock; without a window the coroutine is left with an
\* exception.
SnapSource(p) ==
  /\ at[p] = "source"
  /\ Free
  /\ IF IsAlive
     THEN /\ lock' = p
          /\ Goes(p, "handle")
          /\ Reads(p, Has(focus, 0, FALSE, FALSE, {}))
     ELSE /\ Goes(p, "idle")
          /\ Reads(p, Nothing)
          /\ UNCHANGED lock
  /\ UNCHANGED <<browserVars, mirrorVars, cmd, flagVars, stateVars, netVars, spent, history>>

\* Its handle, the observer, and out of the lock.
SnapHandle(p) ==
  /\ at[p] = "handle"
  /\ Inject
  /\ Reads(p, Has(local[p].page, GetCurrentWindowHandle, FALSE, FALSE, {}))
  /\ lock' = NoOne
  /\ Goes(p, "send")
  /\ UNCHANGED <<mirrorVars, cmd, flagVars, stateVars, netVars, spent, history>>

SnapSend(p) ==
  /\ at[p] = "send"
  /\ Post(<<[type |-> "snapshot", handle |-> local[p].handle, page |-> local[p].page,
             version |-> ver]>>)
  /\ lastPage' = local[p].page /\ lastUrl' = local[p].page
  /\ history' = Sent(local[p].handle, local[p].page)
  /\ Goes(p, "idle")
  /\ Reads(p, Nothing)
  /\ UNCHANGED <<browserVars, mirrorVars, lock, cmd, flagVars, known, ver, inbox, pending, spent>>
-----------------------------------------------------------------------------
(* The receive loop *)

\* A command starts a task; a RESYNC_REQUEST is answered right here.
Receive ==
  /\ at["reader"] = "idle"
  /\ inbox # <<>>
  /\ inbox' = Tail(inbox)
  /\ IF Head(inbox) = Resync
     THEN Goes("reader", "snap") /\ UNCHANGED <<cmd, flagVars>>
     ELSE \E t \in Task :
            /\ at[t] = "idle"
            /\ Goes(t, "start")
            /\ cmd' = [cmd EXCEPT ![t] = Head(inbox)]
            /\ navigating' = TRUE /\ executing' = TRUE
  /\ UNCHANGED <<browserVars, mirrorVars, lock, local, stateVars, frames, pending, spent, history>>
-----------------------------------------------------------------------------
(* The commands *)

\* The command is over, and what its result says of the tab switched to.
Over(t, switchedTo) ==
  /\ Goes(t, "report")
  /\ Reads(t, Only(switchedTo))
  /\ lock' = NoOne
  /\ executing' = FALSE

\* A driver's call that does not end the command.
Calls(t, place) == Goes(t, place) /\ lock' = t /\ UNCHANGED executing

\* A command needs the lock, and fails at once without a window.
Begins(t, name) == at[t] = "start" /\ cmd[t].name = name /\ Free /\ IsAlive

Fail(t) ==
  /\ at[t] = "start" /\ Free /\ ~IsAlive
  /\ Over(t, 0)
  /\ UNCHANGED browserVars

SwitchTab(t) ==
  /\ Begins(t, "switch_tab")
  /\ SwitchToWindow(cmd[t].handle)
  /\ Over(t, cmd[t].handle)

NewTabOpens(t) ==
  /\ Begins(t, "new_tab")
  /\ made < MaxHandle /\ NewWindow
  /\ Over(t, 0)

\* close_tab opens a window first when there is one only, so that Chrome
\* stays, and goes back to that one.
CloseTabRescue(t) ==
  /\ Begins(t, "close_tab")
  /\ IF Len(windows) <= 1
     THEN made < MaxHandle /\ NewWindow /\ Reads(t, Only(Head(windows)))
     ELSE UNCHANGED <<browserVars, local>>
  /\ Calls(t, "target")

\* Mutant: the tab asked for is not switched to.
CloseTabTargetFirst(t) ==
  /\ at[t] = "target"
  /\ SwitchToWindow(local[t].handle)
  /\ Calls(t, "close") /\ UNCHANGED local

CloseTabTarget(t) ==
  /\ at[t] = "target"
  /\ SwitchToWindow(IF cmd[t].handle \in Open THEN cmd[t].handle ELSE local[t].handle)
  /\ Calls(t, "close") /\ UNCHANGED local

CloseTabClose(t) ==
  /\ at[t] = "close"
  /\ IF IsAlive THEN Close /\ Calls(t, "leave") /\ UNCHANGED local
     ELSE Over(t, 0) /\ UNCHANGED browserVars

CloseTabLeave(t) ==
  /\ at[t] = "leave"
  /\ IF windows = <<>> THEN UNCHANGED browserVars ELSE SwitchToWindow(Last(windows))
  /\ Over(t, 0)

CloseTab(t) == CloseTabRescue(t) \/ CloseTabTarget(t) \/ CloseTabClose(t) \/ CloseTabLeave(t)

Execute(t) ==
  /\ Fail(t) \/ SwitchTab(t) \/ NewTabOpens(t) \/ CloseTab(t)
  /\ UNCHANGED <<mirrorVars, cmd, navigating, stateVars, netVars, spent, history>>

Report(t) ==
  /\ at[t] = "report"
  /\ Post(<<[type |-> "result", handle |-> local[t].handle]>>)
  /\ Goes(t, "reread")
  /\ Reads(t, Nothing)
  /\ cmd' = [cmd EXCEPT ![t] = NoCommand]
  /\ UNCHANGED <<browserVars, mirrorVars, lock, flagVars, stateVars, inbox, pending, spent, history>>

\* Mutant: no snapshot.
RememberOnly(t) ==
  /\ at[t] = "reread"
  /\ Free
  /\ Inject
  /\ lastPage' = IF IsAlive THEN focus ELSE lastPage
  /\ navigating' = FALSE
  /\ Goes(t, "idle")
  /\ UNCHANGED <<mirrorVars, lock, local, cmd, executing, known, ver, lastUrl, netVars, spent, history>>

\* The page the tab shows now becomes the last one, then the mutations count
\* again, then there is a snapshot.
Remember(t) ==
  /\ at[t] = "reread"
  /\ Free
  /\ Inject
  /\ lastPage' = IF IsAlive THEN focus ELSE lastPage
  /\ navigating' = FALSE
  /\ Goes(t, "snap")
  /\ UNCHANGED <<mirrorVars, lock, local, cmd, executing, known, ver, lastUrl, netVars, spent, history>>
-----------------------------------------------------------------------------
(* The poll loop *)

\* It does not begin during a command; one that begins now does not stop it.
PollWake ==
  /\ at["poll"] = "idle" /\ ~executing
  /\ Goes("poll", "awake")
  /\ UNCHANGED <<browserVars, mirrorVars, lock, local, cmd, flagVars, stateVars, netVars, spent, history>>

\* It reads the page and takes the mutations, or during a navigation throws
\* them away.
PollRead ==
  /\ at["poll"] = "awake" /\ Free
  /\ IF IsAlive THEN Drain ELSE UNCHANGED browserVars
  /\ IF navigating \/ ~IsAlive THEN Goes("poll", "idle") /\ UNCHANGED local
     ELSE /\ Goes("poll", "address")
          /\ Reads("poll", Has(focus, focus, focus \in observed, focus \in mutated, {}))
  /\ UNCHANGED <<mirrorVars, lock, cmd, flagVars, stateVars, netVars, spent, history>>

\* Another address than that of the last snapshot: a page with an observer
\* tells its address, another one is sent.
SameAddress == lastUrl \in {0, local["poll"].page}

PollAddress ==
  /\ at["poll"] = "address" /\ ~SameAddress
  /\ LET read == local["poll"]
     IN  /\ lastUrl' = read.page
         /\ IF read.observed
            THEN /\ Post(<<[type |-> "update", handle |-> read.handle, base |-> ver, version |-> ver,
                            from |-> 0, to |-> 0]>>)
                 /\ Goes("poll", "tabs")
            ELSE UNCHANGED frames /\ Goes("poll", "snap")
  /\ UNCHANGED <<browserVars, mirrorVars, lock, local, cmd, flagVars, known, ver, lastPage, inbox,
                 pending, spent, history>>

\* Python goes through a set in any order.
Orders(handles) == {list \in [1..Cardinality(handles) -> handles] : Range(list) = handles}

\* Mutant: one notice for many.
NoticeOfOne(type, list) == IF list = <<>> THEN <<>> ELSE <<[type |-> type, handle |-> list[1]]>>

Notices(type, list) == [i \in DOMAIN list |-> [type |-> type, handle |-> list[i]]]

Closed == known \ Open
New == Open \ known
Follows ==
  /\ Goes("poll", "follow")
  /\ Reads("poll", Has(local["poll"].page, Last(windows), local["poll"].observed,
                       local["poll"].mutated, Open))
  /\ UNCHANGED known

\* Mutant: nothing is said of closed tabs when there is a new one.
PollTabsForgetful ==
  /\ at["poll"] = "tabs" \/ (at["poll"] = "address" /\ SameAddress)
  /\ IF known # {} /\ New # {}
     THEN /\ UNCHANGED frames
          /\ history' = Listed(New \ {Last(windows)})
          /\ Follows
     ELSE /\ \E closed \in Orders(Closed), new \in Orders(New) :
               Post(IF Open = {} THEN <<>> ELSE Notices("closed", closed) \o Notices("opened", new))
          /\ known' = IF Open = {} THEN known ELSE Open
          /\ history' = Listed({})
          /\ Goes("poll", "update")
          /\ UNCHANGED local
  /\ UNCHANGED <<browserVars, mirrorVars, lock, cmd, flagVars, ver, pageOfVars, inbox, pending, spent>>

\* The windows are listed without the lock; of the new ones the newest is
\* followed, unless the loop lists windows for the first time.
PollTabs ==
  /\ at["poll"] = "tabs" \/ (at["poll"] = "address" /\ SameAddress)
  /\ IF known # {} /\ New # {}
     THEN /\ \E closed \in Orders(Closed) : Post(Notices("closed", closed))
          /\ history' = Listed(New \ {Last(windows)})
          /\ Follows
     ELSE /\ \E closed \in Orders(Closed), new \in Orders(New) :
               Post(IF Open = {} THEN <<>> ELSE Notices("closed", closed) \o Notices("opened", new))
          /\ known' = IF Open = {} THEN known ELSE Open
          /\ history' = Listed({})
          /\ Goes("poll", "update")
          /\ UNCHANGED local
  /\ UNCHANGED <<browserVars, mirrorVars, lock, cmd, flagVars, ver, pageOfVars, inbox, pending, spent>>

PollFollow ==
  /\ at["poll"] = "follow"
  /\ SwitchToWindow(local["poll"].handle)
  /\ known' = local["poll"].all
  /\ Goes("poll", "announce")
  /\ UNCHANGED <<mirrorVars, lock, local, cmd, flagVars, ver, pageOfVars, netVars, spent, history>>

PollAnnounce ==
  /\ at["poll"] = "announce"
  /\ Post(<<[type |-> "opened", handle |-> local["poll"].handle]>>)
  /\ lastUrl' = GetCurrentWindowHandle
  /\ Goes("poll", "snap")
  /\ UNCHANGED <<browserVars, mirrorVars, lock, local, cmd, flagVars, known, ver, lastPage, inbox,
                 pending, spent, history>>

\* Without mutations none is taken; mutations may leave the page as it was.
NoDifference == ~local["poll"].mutated \/ local["poll"].page = lastPage

\* Mutant: the change is said to be of the tab the driver is on now.
PollUpdateOfFocus ==
  /\ at["poll"] = "update"
  /\ \/ /\ local["poll"].mutated
        /\ Post(<<[type |-> "update", handle |-> GetCurrentWindowHandle, base |-> ver,
                   version |-> ver + 1, from |-> lastPage, to |-> local["poll"].page]>>)
        /\ lastPage' = local["poll"].page /\ ver' = ver + 1
     \/ NoDifference /\ UNCHANGED <<frames, lastPage, ver>>
  /\ Goes("poll", "idle") /\ Reads("poll", Nothing)
  /\ UNCHANGED <<browserVars, mirrorVars, lock, cmd, flagVars, known, lastUrl, inbox, pending, spent, history>>

\* The difference between the last page and the one read goes out as a
\* change of the tab it was read in.
PollUpdate ==
  /\ at["poll"] = "update"
  /\ LET read == local["poll"]
     IN  \/ /\ read.mutated
            /\ Post(<<[type |-> "update", handle |-> read.handle, base |-> ver,
                       version |-> ver + 1, from |-> lastPage, to |-> read.page]>>)
            /\ lastPage' = read.page /\ ver' = ver + 1
         \/ NoDifference /\ UNCHANGED <<frames, lastPage, ver>>
  /\ Goes("poll", "idle") /\ Reads("poll", Nothing)
  /\ UNCHANGED <<browserVars, mirrorVars, lock, cmd, flagVars, known, lastUrl, inbox, pending, spent, history>>
-----------------------------------------------------------------------------
(* The controller *)

Asks(condition) == inbox' = IF condition THEN Append(inbox, Resync) ELSE inbox

Take ==
  /\ frames # <<>>
  /\ frames' = Tail(frames)
  /\ LET m == Head(frames)
     IN  \/ /\ m.type = "opened" /\ TabOpened(m.handle) /\ UNCHANGED <<inbox, pending>>
         \/ /\ m.type = "closed" /\ TabClosed(m.handle)
            /\ Asks(Blank(tabs', active')) /\ UNCHANGED pending
         \/ /\ m.type = "snapshot" /\ FullSnapshot(m.handle, m.page, m.version)
            /\ UNCHANGED <<inbox, pending>>
         \/ /\ m.type = "update" /\ DomUpdate(m.handle, m.base, m.version, m.from, m.to)
            /\ Asks(~Fits(m.handle, m.base) \/ Blank(tabs', active')) /\ UNCHANGED pending
         \/ /\ m.type = "result" /\ CommandResult(m.handle) /\ pending' = FALSE
            /\ Asks(m.handle # 0 /\ Blank(tabs', active'))
  /\ UNCHANGED <<browserVars, coroutineVars, flagVars, stateVars, spent, history>>
-----------------------------------------------------------------------------
Snapshots(p) == SnapCheck(p) \/ Recover(p) \/ SnapSource(p) \/ SnapHandle(p) \/ SnapSend(p)
Works(t) == Execute(t) \/ Report(t) \/ Remember(t)
Polls == PollWake \/ PollRead \/ PollAddress \/ PollTabs \/ PollFollow \/ PollAnnounce \/ PollUpdate

Next ==
  \/ World
  \/ \E h \in 0..MaxHandle, name \in {"new_tab", "switch_tab", "close_tab"} : Command(name, h)
  \/ \E p \in Process : Snapshots(p)
  \/ Receive
  \/ \E t \in Task : Works(t)
  \/ Polls
  \/ Take

Spec == Init /\ [][Next]_vars

-----------------------------------------------------------------------------
(* Properties *)

\* Nothing is on its way, and the poll loop has nothing to tell.
Quiet ==
  /\ frames = <<>> /\ inbox = <<>>
  /\ \A p \in Process : at[p] = "idle"
  /\ IsAlive => known = Open /\ focus \notin mutated /\ lastUrl \in {0, focus}

\* Once everything is quiet the controller shows the tab the driver is on,
\* whoever switched last (the user, the page, close_tab, a restart), unless a
\* snapshot of another coroutine was sent late (worker.py:200-231 reads under
\* _selenium_lock and sends after it).
ActiveFollowsFocus == Quiet /\ IsAlive /\ ~history.late => active = focus

\* A tab that has gone is forgotten: the controller keeps one only when the
\* window came and went between two polls, so that nobody ever missed it, or
\* when a snapshot of it was sent after it had gone.
GhostsWereMissed ==
  Quiet /\ IsAlive => Mirrored \ Open \subseteq history.dead \cup (Handle \ history.listed)

\* An open tab is mirrored, unless it opened together with a newer one: the
\* poll loop follows the newest and counts the others as known.
MissingWereSkipped == Quiet /\ IsAlive => Open \ Mirrored \subseteq history.skipped

\* The active tab shows its own page: differences are never taken between the
\* pages of two tabs and applied to one, whatever is switched meanwhile,
\* unless the page and the handle of its last snapshot are of two windows
\* (the poll loop follows a new window without _selenium_lock) or the last
\* snapshot was sent late (the next difference is then taken from its page).
OwnPage ==
  Quiet /\ IsAlive /\ ~history.late /\ active \in Mirrored \ history.mixed /\ ~Shown(active).stale
    => Shown(active).shows = active

\* The buttons of the tab bar are the mirrored tabs; a tab without a handle,
\* of a snapshot sent when the driver was on no window, has none.
BarIsMirrored == bar = Mirrored \ {NoHandle}

\* close_tab closes no other tab than the one asked for, unless that one has
\* gone already or the poll loop, which does not wait for the command, has
\* just followed a new window.
ClosesWhatWasAsked ==
  [][\A t \in Task :
       at[t] = "close" /\ windows' # windows
       => \/ focus = cmd[t].handle
          \/ cmd[t].handle \notin Open
          \/ at["poll"] \in {"announce", "snap", "source", "recover"}]_vars

\* Chrome is restarted only when the driver is on no window, that is, dead to
\* is_alive; all use of Selenium, recovery included, is one at a time
\* (ARCHITECTURE.md:1081).
RestartsOnlyTheDead == [][made' > made /\ Len(windows') = 1 => ~IsAlive]_vars
=============================================================================
