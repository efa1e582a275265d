# A verification development for the remote web viewer

This directory models the running system in TLA+: TLC checks the models on small
instances, and TLAPS proves what matters most for every instance. `PROJECT.json`
maps each definition to the lines it translates.

## The system

A *worker* drives one Chrome browser through Selenium and mirrors its page. A
*relay server* (FastAPI, one asyncio event loop) connects workers and
*controllers*. A controller is a Qt application that shows the mirrored pages of
the workers it has tabs for and sends them commands. `worker_id` is the only
routing key; nothing is persisted.

| component | state | operations | talks to |
|---|---|---|---|
| server: worker registry (`server/worker_manager.py`) | connection, state record and subscriber set per worker, one asyncio lock, scheduled count tasks | register, unregister, forget, subscribe, unsubscribe, status, version, observer count | awaits sends to controllers and workers, and the close of a replaced socket |
| server: handlers (`websocket_manager.py`, `message_router.py`) | one coroutine per connection | handshake, dispatch loop, cleanup; routing of every message type | registry, sessions, all peers |
| server: sessions (`session.py`, `controller_manager.py`, `main.py`) | session per controller connection, its subscriptions and idle clock | create, touch, subscribe, destroy; the reaper | closes controller sockets |
| server: authentication, audit | none | token check, log lines | |
| controller: command queue (`command_queue.py`) | per worker: queue, command in flight, history | enqueue, result, timeout, clear; dispatch at the end of each | `send_message` |
| controller: links and window (`websocket_client.py`, `main_window.py`) | websocket, open tabs | reconnect, subscribe, hand messages to queue and mirror | server |
| controller: mirror (`state_manager.py`, `worker_manager.py`) | per worker and tab: html, version, stale flag; known and active workers | snapshot, update, tabs, status, stale on reconnect | resync requests |
| controller: views (`main_window.py`, `worker_tab.py`, `browser_view.py`) | tab bar, page view, alert panel | what each message does to them; a blank view asks for a snapshot | mirror, queue |
| worker: command tasks (`worker.py`) | tasks waiting for the browser, flags for navigation and execution | run, answer, snapshot after a navigation, restart_worker | server, browser |
| worker: synchronisation (`worker.py`, `mutation_observer.py`, `dom_pipeline.py`) | version, last html, ready flag, observer buffer in the page | poll loop, snapshot, resync, crash recovery | server, browser |
| worker: browser (`browser.py`, `command_handler.py`) | the windows of Chrome, which of them the driver is on, a dialog that blocks it | commands as series of driver's calls, liveness, restart | page |
| worker: link (`worker/websocket_client.py`) | websocket | reconnect with a snapshot | server |
| shared (`messages.py`, `dom_differ.py`, `compression.py`, ...) | none | formats, diff and patch, compression, profiles | |
| web controller, command line, benchmarks | small | a thinner controller; start the parts; measure | |

What is hard about it: every `await` in the server and in the worker lets other
coroutines run between a read and the write that depends on it; links break and
come back at any point, and a worker id can be on two connections at once; three
parties (a connection's handler, the reaper and `forget_worker`) clean up the same
tables; commands and results are matched by their order alone; the worker's poll
loop, its snapshots and its command tasks share one version and one "last html".

For each component, what makes it correct:

- registry: a listed connection is served, a served connection is listed, status
  and version shown are the listed connection's; a registration never hangs;
- sessions: an ended controller is in no table; who watches is recorded; the
  observer count a worker is told is right or about to be corrected;
- command queue: per worker, commands end in the order given, one at a time, none
  lost, none twice; the queue moves on;
- command path: the result shown for a command is that command's;
- synchronisation and mirror: the mirror shows a page the browser had, and the
  current one once everything is quiet;
- differ: patching the old page with the difference gives the new one; where it does
  not, the mirror still has the elements of the page;
- tabs: once everything is quiet the controller has the tabs the browser has, shows the
  one the driver is on, with that tab's page; the right tab is closed;
- dialogs: a worker that is blocked by one is shown as blocked, for as long as it is; the
  poll loop survives it.

## Modules

    Endpoints ─┬─ WorkerManager ─┐
               └─ Sessions ──────┴─ Relay ─┬─ MCRelay       (runs relay_*)
                                           └─ RelayProofs   (theorems)
    OneByOne <─ CommandQueue ─┬─ MCCommandQueue              (run queue)
                              ├─ CommandQueueProofs          (theorems)
                              └─ CommandPath ─┬─ MCCommandPath     (run path_safety)
                                              └─ CommandPathProofs (lemmas, with
                                                   │                CommandQueueProofs)
                                                   └─ SharedPathProofs   (theorems)
                                                        └─ ExclusivePathProofs (theorems)
    DomSync ─┬─ MCDomSync                                   (run dom_mirror)
             └─ DomSyncProofs                               (theorems)
    DomDiff ─ MCDomDiff                                     (runs diff*)
    Browser ───┬─ BrowserTabs ─┬─ MCBrowserTabs             (runs tabs*)
    TabMirror ─┘               └─ BrowserTabsProofs         (theorems)
    Alerts ─┬─ MCAlerts                                     (runs alerts*)
            └─ AlertsProofs                                 (theorems)

**Endpoints** names workers and websocket connections. A connection is used
once; a worker that reconnects appears on another one (`IdOf` says whose it is).

**WorkerManager** holds the registry's tables (`conns`, `status`, `domVersion`,
`subKeys`/`subs`, `lock`, `countTasks`), with one operator per synchronous stretch of a
method. **Sessions** does the same for `_sessions` (`live`, `viewing`, `idle`) and the
list the reaper walks. **Relay** is the server: the handler of each connection is a
little process whose place is `wpc`/`cpc`, and a step is the stretch of code between
two awaits that can suspend (a send to a controller, the lock, the close of a
socket). A send suspends, if at all, after its message is written: the step that begins a
broadcast therefore writes the first message (`Broadcasting`), and `WSent` the next one
when a send has returned. The finally clauses, the second cleanup by the reaper, and the
`AttributeError` in which `forget_worker` ends are steps like any other. The peers are
modelled as far as the tables' correctness shows there: what each controller was last
told (`view`), the observer count each worker believes (`observers`).

A socket is `open`, `closing` (the server has called close and awaits it; a message
can still be handed to the handler) or `closed` (this side knows it is gone). The close
of a replaced socket returns whatever the handler of that socket does: that is
Starlette's behaviour, and marked external in the map.

**OneByOne** is the promise of a command queue: per slot (one controller, one worker)
a backlog whose oldest commands end first. **CommandQueue** is `command_queue.py`; all
of it runs in the Qt main thread, so a call is one step, the dispatches at its end
included (`Refused` is the run of dispatches that raise, each of which calls
`handle_command_result` and so `_process_next` again). It implements OneByOne with
`backlog` = the command in flight and the queue behind it.

**CommandPath** puts the queue to work: `Submit`, `ControllerTake` (results, and the
signal that the link is back), `ServerTake` (routing, subscriptions), `WorkerTake`,
`WorkerRun` (the task at the head of the line for `_selenium_lock` ends and
answers), `restart_worker`, which is answered before it is carried out, and the links
and processes that break. A link breaks at both ends at once; what its receiver has
buffered is handled later, the rest is lost. Results carry no command id in the code:
the `command` of a `ResultFrame` is there for the properties and for naming the worker.

**DomSync** is the way of a page into the mirror. `page` numbers the pages the browser
shows; `observed` and `recorded` are the MutationObserver in the document and whether
its buffer is empty. The worker's coroutines (`reader`, the receive loop; `poll`; one
per navigation command) are small processes: `at` is the place, `local` what the
coroutine has read from the browser, `lock` is `_selenium_lock`. What runs under
`_state_lock` is one step; what runs under `_selenium_lock` is split, because the page
changes meanwhile. The poll loop reads `_navigation_in_progress` first (`PollCheck`) and
waits for the lock afterwards, to discard (`PollDiscard`) or to look (`PollLook`,
`PollDrain`, `PollAddress`, `PollRead`), whatever has become of the flag. An
`asyncio.Semaphore` is first come, first served, so `ahead` keeps who waited for it when
the poll loop came, and those go first (`Turn`). The worker's connection, its reconnect (snapshot, then drain, then
`_snapshot_ready`), `restart_worker` and the version reset are there, and at the other
end `apply_full_snapshot`, `apply_dom_update`, the resync request of a refused update,
tabs closed and opened again and new links. Three history variables name what the code
does not make up for: `unnumbered` is the set of things that happened that a version
number does not tell (a snapshot the mirror has not got, a page recorded as the last
snapshot before it is sent, the version reset); `missed` says that changes were thrown
away, or a page that was read earlier was sent later, since the last snapshot was read;
`unsent`, that a navigation could not send its result. `Patched` takes
`apply_diff(a, compute_diff(a, b)) = b` for granted and calls anything else garbage; how
far the differ keeps that promise is the subject of DomDiff. A DISCONNECTED notice may
come after the reconnect, as relay_notices shows.

**DomDiff** is `dom_differ.py` over the keys of the elements: in body the ids that the
normaliser assigns, and of html, head, body and the elements in head their own id, if they
have one. A page is the sequence of its nodes in document order, each with its depth, tag,
key and one value (of its attribute, or its text); subtrees are then stretches of the
sequence. `ComputeDiff` and `ApplyDiff` follow the code operation by operation; the page
changes by `SetVal`, `SetId`, `InsertMeta`, `Rename`, `SetText`, `Insert` and `Delete`,
and `Sync` is what the poll loop and the mirror do with it. `Told` describes from the
outside, by the children of each element before and after, which changes a difference can
tell; it does not mention operations. What happens to an element without a key is not
told, and neither is a new one in a parent without a key (`Unheard`).
Taken as one: the attributes of an element (they are compared one by one), its text nodes
(the differ looks at the stripped concatenation; here there is at most one), and the kinds
of elements in head, of which `meta` stands for all. Left out: the texts of title, style
and script; ids that two elements share or pass on to each other; text that is white space
only; and `formatter=None`, which leaves `<` and `&` in texts unescaped.
`OP_VALUE` is never generated.

**Browser** is Chrome seen from the driver: the open windows in order, `focus`, the
window the driver is on (closed or not), which pages have an observer and which have
recorded something. **TabMirror** is the slot of `state_manager.py` with its tabs and the
tab bar. **BrowserTabs** composes them: `switch_tab`, `new_tab` and `close_tab` call by
call as `command_handler.py` makes them, the poll loop's comparison of window handles,
the snapshots, the recovery when `is_alive` says no, and the messages in between. The
driver's calls run in threads, so whatever does not wait for `_selenium_lock` comes in
between any two of them. The tab bar is hidden while it has fewer than two tabs, so the
user switches and closes only when there are two. The handles of new and of closed
tabs are Python sets, so their notices come in any order (`Orders`). Every window has one
address of its own; of a page only matters whose it is, and mutations need not leave a
difference (`NoDifference`). Links hold here (DomSync breaks them). History variables
name what the code does not make up for: the last snapshot was sent when the driver had
gone on to another window (`late`), or its page and its handle are of two windows
(`mixed`), or its tab had gone (`dead`); and which handles the poll loop has listed, and
skipped because a newer one came with them.

**Alerts** follows a dialog of the page: which of the driver's calls fail while there is
one, what each coroutine makes of the exception (`send_full_snapshot`, the greeting, the
tasks, the poll loop, whose handler sends messages itself), what the messages do at the
server and what `main_window.py` makes of them. Of the commands, five stand for all:
`keypress` (whose failure tells of the dialog), `click` (which hides it in a ValueError),
`type` (which fails before it gets that far, on the NameError below), `refresh` (a
navigation) and `restart_worker`. One window, and nobody sits at the worker's Chrome to
answer the dialog. `history` records which reports were overtaken and what could have
left the worker mute.

## Runs

| run | instance | shows |
|---|---|---|
| relay_registry | one worker id on two connections, one controller, all interleavings | five invariants of the registry and that of the observer counts; registrations complete, gone workers and controllers leave the tables |
| relay_tables | two workers, one controller whose session may expire at any time | `EndedControllerLeavesNoTrace` and `WatchedIsRecorded`, whether the handler, the reaper or a failing `forget_worker` ends the controller |
| relay_notices (violation) | one worker id on two connections, two controllers | "disconnected" of the old connection can be the last thing the second subscriber hears, when the send to the first is held up; with one subscriber it cannot be, as the first message is written before anyone else runs |
| queue | five commands to two workers of one controller, two of them refused at dispatch | order, nothing lost or stranded, OneByOne |
| path_safety | three commands (one restart_worker) to one worker, three broken links, ended processes or closed tabs | results go to their own command, nothing else is under way; `RunsAtMostOnce`: no command is at two places or runs twice; `NoneIsForgotten`: while nothing breaks, a queue never waits for nothing; undisturbed commands end |
| dom_mirror | two changes of the page, one navigation task, and one load, command, broken link, absence of the mirror, resync or restart | `UpdatesFit`: no difference is applied to a page it does not fit; `GarbageIsReplaced`: where that fails, a snapshot is still to come; `SettledMirrorIsCurrent`; `StaleIsHelped`: a mirror does not become stale with nothing on the way that helps it; `DiscardsAreReread`: what is thrown away for a navigation is in a snapshot still to be read; `ResyncHeals`; `ChangesArrive`; each but for the causes it names |
| diff | three start pages, with ids on none, on body and on head, three changes, in body and outside it, in any number of differences | `ToldChangesArrive`; `SameElements`: whatever is not told, the mirror has the page's elements with a key and no others, but for those that come in a parent without one; `NothingSkipped`; the last two but where html, head or body loses its id |
| diff_guarantee (violation) | the same pages, one change | the guarantee in the head of `dom_differ.py` does not hold |
| tabs | two windows, up to three, two tasks, two of: a page opens or closes a window or changes, the user opens, switches or closes a tab | the five properties of the tabs, each but for the causes it names |
| tabs_restart (violation) | two windows, one close_tab of one of them | `is_alive`, asked without the lock between the close and the switch, has Chrome restarted |
| alerts | two dialogs, two tasks, three of: commands, another configuration, changes, breaks of the link | the controller shows the blocked worker and no other; what can leave a worker mute |
| alerts_forwarded (violation) | the same | ALERT_OPENED is refused by the server's parser |

Why the bounds are enough. A registry entry concerns one worker id, the handlers of
different ids meet only at the lock and in `list(subscribers)`; the interesting case is
one id on two connections, one being replaced by the other while it ends. One
controller can be subscribed, expired, reaped and forgotten in every order against
that; the proofs hold for any number of each. `MaxVersion` = 1 tells a stale version from a fresh one. In
relay_tables a VIEW leaves `view` out, which no action reads, and workers with their
connections are interchangeable; it has a connection for each worker, as what sessions and
subscribers agree on does not depend on which connection a worker is on. relay_registry has
no expiry and no symmetry, as it checks liveness. `Reported` is empty in all of them: any other status takes the
same path as "connected" but for the version. Three commands give one in flight, one
queued and one given late; `MaxUpsets` = 3 lets a link break, come back and break again.
In dom_mirror two changes are what a lost update takes
to be noticed (one is missed, the next shows it), and each kind of event meets every
place of the poll loop and of a snapshot. That two of them overlap is left to
the proofs: only then does a version that has started again meet a mirror that missed what
came before (a restart and an absence, 22 steps), the other reason for which
`GarbageIsReplaced` is needed besides the page that is recorded before it is sent. So it is
with the command path of several controllers: path_safety has one, to which every worker is
`Exclusive`.
In diff, three changes make a page of up to nine nodes, give each operation something to
collide with, and come together or one by one; a difference looks at an element, its
parent and its children only. In tabs, `MaxHandle` = 3 lets a window open beside two
others or be made by a restart (handles are not used again, as in Chrome), two events
of different actors are what each hazard takes, and `MaxFrames` = 0 lets a second message
be sent only when the controller has taken the first: the controller's messages
come in order, and what matters is how they interleave with the commands it sends. Two
events are not enough to see everything: that `OwnPage` needs the exception for late
snapshots (the next difference is then taken from the page of the late one) shows with
four events on two windows only. The properties of the tabs therefore rest on their
proofs, and the run is there for the mutants and for what the proofs leave out: that every
action can happen. Tasks are interchangeable. In alerts, the second dialog tells one that is over from one that is
open, and three events hold a command, a restart and a break, the longest of the causes.
Deadlock is not checked: sockets, commands, changes and windows are used up, so every
instance ends.

Fairness. relay_registry: the event loop resumes every handler and task that can go on
(weak fairness of `WorkerResumes`, `ControllerResumes`, `CountTask`); nothing is asked
of peers, and nothing of the reaper, which sleeps. path_safety: event loops go on, Selenium
calls return (they have timeouts) and both clients reconnect for ever with a bounded
backoff; nothing is asked of the user. dom_mirror: the same, and whoever waits for
`_selenium_lock` gets it (strong fairness of the steps that take it): asyncio's semaphore
is first come, first served, while the poll loop takes it again and again. Nothing is
asked of the page and the links.

## What the violations are

Each violation run states what a document, a comment or a test says and shows a
behaviour of the code against it; `findings` in `PROJECT.json` quotes both. None of
them is excluded from the passing runs. Where a property of a passing run names exceptions,
each is there because the property fails without it: the exception is a fact about the
code.

Other things seen while modelling, without a run of their own:

- `forget_worker` deletes the subscriptions of all controllers, not only of the one that
  asks, and then fails on `_snapshot_throttles`, which nothing defines
  (`worker_manager.py:118-121`).
- A worker that reconnects keeps the observer count it was last told; subscribers that
  came meanwhile do not wake it (`worker_manager.py:136`, `worker.py:441`).
- A result that is lost leaves its command in flight, and the queue behind it, for ever:
  nothing calls `handle_timeout` (`command_queue.py:144`). With two controllers, the
  result of the one's command ends the other's (`command_queue.py:112`): results carry no
  id.
- A change between the snapshot of a connect and its drain is thrown away
  (`worker.py:161-166`): `missed`. A navigation that ends offline leaves
  `_navigation_in_progress` set (`worker.py:348`): `unsent`.
- The handler of the poll loop's exception sends messages outside of any try; offline,
  the poll loop is gone for good (`worker.py:555`). A first snapshot that a dialog
  interrupts in `inject` never sets `_snapshot_ready` (`worker.py:179`).
- A dialog reported by one coroutine after the reader has restarted Chrome leaves the
  controller with `alert_blocking` until the next snapshot: `outdated`.
- `send_full_snapshot` raises `AlertBlockingError`, which the poll loop does not take for
  a dialog (`worker.py:545`), and `_highlight_element` fails on a name it does not import,
  so `type`, `clear` and `highlight` say nothing of a dialog they meet first, and `click`
  never does.
- When html, head or body loses its id, the differ takes it for gone and removes it from
  the mirror with all that is in it (`dom_differ.py:47-51`): `LosesId`.
- When a page closes the window the driver is on, the next snapshot finds the browser
  dead and restarts it, the other tabs with it (`worker.py:194`).
- A worker's tab that is closed and opened again has an empty tab bar until the next
  message about each browser tab (`main_window.py:371-385`).

## Proofs

`RelayProofs` proves `Spec => []P` for the type invariant and the eight safety
invariants of relay_registry and relay_tables, for any sets of workers, connections and controllers. It
assumes what the modules assume of their constants: `IdOf`, `Auth` and `Expiring` are
of their kinds, the set of connections is finite, `NoSocket` and `NoWorker` are no
socket and no worker, and no worker reports "disconnected" or "unknown" (the worker
code sends crashed, alert_blocking and connected only).

The argument goes in three layers, each an inductive invariant on top of the former:

1. `Registry` strengthens the five registry invariants. Alone they are not inductive:
   `ServingIsListed` says the same of a socket that is *closing*, `HoldersHold` ties the
   place "replace" to the lock, `NothingReported` says an unregistered connection has
   reported no version.
2. `Tables` adds `GreetedIsRecorded` to the two invariants about sessions: what the
   greeting is about to subscribe to is recorded already.
3. `Counts` rests on `Registry`: a count is only told to a registered connection
   (`ToldWasRegistered`), and every change of a subscriber set schedules its count
   because the set has a key (`KeysCoverSubscribers`).

Each is proved with one step per action; steps that leave the relevant variables alone
are handled together by an "Untouched" lemma.

`CommandQueueProofs`: for any controllers, workers and commands, of which any may be
refused at dispatch, `QueueSpec => []P` for `QueueTypeOK`, `NoIdleBacklog` and
`PlacedAsShown`, and `QueueSpec => KeepsOrder`, the refinement of OneByOne.
`RunOfRefusalsEnds` shows that the number of refused dispatches `Refused` picks exists (a
least number, by the library's well-founded order); `Processing` says what `_process_next`
then leaves. `QueueTypeOK` and `NoIdleBacklog` are inductive together. `PlacedAsShown` is
not: `Placed` says by position that what is in a backlog was given to its slot, is there
once, is in flight if first and queued otherwise, and that whatever says so is there.
`QueueInv` is the three together; from it every call is a step of OneByOne: the commands
that end are a prefix of one backlog.

The path of the commands is proved about in three modules, all for any controllers,
workers, commands, links and upsets, with `Unsendable = {}` as CommandPath assumes.

`CommandPathProofs` has what the other two stand on: the types; `PathIsQueue`, that every
step of the path is one of the queue's, which brings in the queue's invariants; and what
each step does to a `Trip`: up to the server, down to the worker, among its tasks and back,
there is at most one item of a worker, and it is of the command in flight. A step keeps the
item where it is, takes it on to the next place, or loses it (`TripSame`, `TripPassed`);
only a dispatch adds one, and it comes with nothing in flight or with the result just
taken.

`SharedPathProofs`: what holds however many controllers give commands to one worker, where
results can end the wrong command and `Trip` is false.

- `PathRunsTheQueues`: the path implements CommandQueue, so that the main window asks of
  the queues only what they offer; `PathKeepsOrder`, the refinement of OneByOne, follows.
- `PathRunsAtMostOnce`, whatever breaks. `Solo` counts over the places of one command at a
  time: before it is sent it is nowhere, after that once in at most one place, and with an
  outcome, nowhere. It does not ask which command the queue waits for, which is what the
  foreign result confuses. `UpIsOwn` (a controller's link carries its own commands only)
  says which link is meant. What a step does to a place is `Kept`: what counts there
  afterwards was there before, by its position; only sending, passing on and starting add
  to a place.
- `PathForgetsNone`. `Calm` is about `upsets = 0` only, where nothing gets lost, but where a
  foreign result may leave a command under way that no queue waits for. It says of a
  command in flight that it is somewhere, or its result is (`Followed`); for which the
  result must find its controller among the watchers when it is made. The subscription is
  a frame of its own on the same link: `Ordered` says that ahead of a command on its way
  the server is told that its controller watches the worker, and that nothing on its way
  takes this back once it is told; `Watched`, that whoever has a command beyond the server
  watches; `Opened`, that a command was given in a tab that is open.

`ExclusivePathProofs`: `UnderWayIsInFlight`, `ResultIsOwn` and `RestartIsExclusive`, for each
worker to which one controller only gives commands (`Exclusive`, without which they are
false: results carry no id), whatever others do at other workers or watch at this one. The
strengthening is `OwnTrips`, the `Trip` of that controller with that worker. Of what the
others do, their frames cannot reach the worker (`UpIsOwn`), and their queues and places
are not those of the trip (`OtherTrip`). `ResultsAreTrue` (a result on its way says how its
command ended) carries `ResultIsOwn`; it is true of all workers, since by `Solo` a command
that a worker has in hand has not ended before. A watcher that takes the result of a
stranger's command has nothing in flight for that worker, and so ends nothing.

`DomSyncProofs`: for any number of changes, loads, tasks and breaks, `DomTypeOK` (with the
mutual exclusion of `_selenium_lock`), `DiscardsAreReread`, `UpdatesFit`,
`SettledMirrorIsCurrent`, `GarbageIsReplaced` and `StaleIsHelped`.
`DomInv` holds the types with what each coroutine has read so far; `NavigationInHand`,
that the flag `_navigation_in_progress` is up only while a task works or after one that
could not send. On it rests `DiscardInHand`, for `DiscardsAreReread`: from the look at the
flag to the discard, some navigation has still to read the page for its snapshot, because
it may go on while the poll loop waits for the lock, but not past its own turn (`ahead`).
`UpdatesFit` needs `VersionsTell`, about what is between worker and mirror
at once: as long as nothing has happened that a version does not tell, two messages
without a snapshot between them of which the second goes on from the version of the
first show the page that the second goes on from; the same of the mirror and the first
message, of the last message and the worker, and of the two ends when nothing is between
them (`Chained`, `ComesFrom`, `LeadsTo`, `Agree`). Sending, taking, refusing and losing
messages keep this, and an update taken by the version therefore fits.

`SettledMirrorIsCurrent` follows the page in two halves, each with an invariant of its own.
From the browser to what the worker sent last, `ChangesInHand`: unless changes have been
thrown away, the page was sent last, or there is no observer, or it has recorded
something, or the worker is offline, or some coroutine will read the page or holds it as
it is (`Brings`). The one way a coroutine could drop what it has drained without
throwing it away, a navigation that starts while it waits for the lock or has it, needs
`DrainedInHand`: that navigation waits behind the poll loop, has still to run, and reads
the page itself. From the
worker to the mirror, `MirrorTold`: a snapshot is still to come (`SnapshotComes`), or the
mirror, the messages after the last snapshot and the worker agree as far as their versions
do (`RecentTold`). `VersionsTell` would not do here: a reset version or a page recorded
before it was sent breaks it for good, and a snapshot repairs `RecentTold`, which asks
nothing of the messages before it.

`GarbageIsReplaced` is inductive over `MirrorTold`: when a difference is applied and
neither a snapshot is to come nor one is on its way, `RecentTold` says that it fits; and
what is to come is posted (`WhatComesIsSent`), and what is on its way stays there
(`SnapshotSentStep`) until the mirror takes it or a link breaks. `StaleIsHelped` is a fact
about steps, from the same two lemmas: no step takes away the last help of a stale mirror,
and each that makes a mirror stale asks, but for the notice of a disconnection that comes
after the reconnect (`TakeDisconnected`, see relay_notices).

`BrowserTabsProofs`: for any number of windows, tasks, events and frames on their way,
`BrowserTabsTypes`, `BarIsMirrored` (the tab bar shows the mirrored tabs) and the five
properties of the run tabs. It assumes what the modules
assume of their constants: the first windows are among those there may be, the two loops
are no tasks, nobody is no coroutine, and the page of no window is not the page of one.
The types say that handles are not used again (`OnlyNewOpen`, of every step: a window that
is open after it and was made before it was open before it) and that a tab said to be
closed is not open (`Named`), on which the rest depends. Each property has its own
strengthening, about what is still on its way:

- `BarIsMirrored` is inductive with the types.
- `ClosesWhatWasAsked` (an action property): `CloseIsAsked` says what it says of the
  place "close", where nothing but the poll loop moves the driver.
- `MissingWereSkipped`: `KnownIsMirrored`, that an open window the poll loop knows was
  skipped, or is mirrored, or will be by a frame under way or the announcement to come.
- `GhostsWereMissed`: `ListedIsDropped`, that a handle listed once and no longer known is
  out of the mirror, or removed by a frame that no frame brings back (`WillBeGone`), or had
  a snapshot after it had gone.
- `ActiveFollowsFocus`: `FocusLands`. `Sending` says that somebody is where the driver may
  be moved or is on the way to a snapshot; the last of them sends one (`SendingEnds`).
  When nobody is, the frames under way end with the tab of the driver active (`Lands`).
- `OwnPage`: `FocusIsRight`. When nobody is sending, there is a number n such that the
  differences of the driver's tab numbered from below n are from its own page to its own
  page, and those from n on fit nothing it will hold (`GapAt`): a difference taken between
  the pages of two windows costs a version that the other tab never gets.

`AlertsProofs`: for any number of tasks, dialogs and events, `AlertsTypes` and the three
properties of the run alerts. `MutenessHasACause` needs where the greeting is (`Greets`),
that a poll loop that has ended has a cause (`PollLives`), and for each flag who will set it
right: `ReadyComes`, `FlagGoes`. `NoPhantomAlert` and `OpenAlertIsShown` are about what the
controller will show once all messages on their way are taken (`Shows`), which a sent
message changes as its own kind says and a taken one does not change at all (`ShowsAppend`,
`ShowsTail`): without a dialog, nothing on its way leaves alert_blocking behind unless the
reader has just restarted Chrome and has yet to say so (`NoPhantom`); what was reported and
not hidden is shown in the end, or will be told again (`ReportReaches`).

Only model-checked: everything about liveness (`RegistrationCompletes` and the other
properties of relay_registry, `UndisturbedCommandsEnd`, `ResyncHeals`, `ChangesArrive`),
which is out of this prover's reach, and DomDiff, whose differ and patcher are recursive
over the page (`NothingSkipped`, `SameElements` and `ToldChangesArrive` would take induction
over it). The violation runs are
counterexamples and need no proof. Only proved: the type invariants of Relay, BrowserTabs
and Alerts, `BarIsMirrored`, and what is said of the command path with several controllers.

## Not modelled

Rejected handshakes, parse errors (but for the dialogs') and PING/PONG change no table.
Authentication is the constant `Auth`; the audit log and the throttle fields of the
worker record are left out (`should_throttle_snapshot` has no caller). The throttle
profile, compression and the metrics change nothing that another part decides on. Widgets
and rendering hold no shared state, and neither do the web controller (to the server it is
one more controller), the command line and the benchmarks. What a command does inside a
page is Selenium's.

Of what is modelled: which button of the tab bar is checked; the text of a dialog and the
alert panel with its answers (`accept_alert`, `dismiss_alert`, `send_alert_text`), which
the finding of alerts_forwarded puts out of reach of the Qt controller; the idle countdown
of a worker nobody watches (`worker.py:271-283`: it navigates under the lock, like a
navigation command without its flag and its snapshot); tab commands while a dialog is
open; dialogs in several windows.

## Plan

1. *Done:* Relay with its runs and proofs; CommandQueue and CommandPath with theirs.
2. *Done:* DomSync, DomDiff, BrowserTabs over Browser and TabMirror, Alerts.
3. To come: the idle countdown and the pause of an unwatched worker in DomSync, with two
   overlapping navigation tasks; `ResultIsOwn` for a worker that several controllers command,
   once results carry the id of their command.
4. Proofs. *Done:* the server, the command queue with its refinement, the command path of
   any number of controllers, all safety properties of DomSync, BrowserTabs and Alerts. With
   what 3 adds to DomSync, `DrainedInHand` and `ChangesInHand` have to be looked at again: an
   idle navigation takes the lock without the flag.
