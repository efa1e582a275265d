------------------------------- MODULE Relay -------------------------------
(***************************************************************************)
(* The relay server: the connection handlers of                            *)
(* server/websocket_manager.py and server/message_router.py over the       *)
(* tables of WorkerManager and Sessions.                                   *)
(*                                                                         *)
(* The server is one asyncio event loop.  A handler runs without           *)
(* interruption up to an await that suspends, so a step here is one such   *)
(* stretch: a send to a controller, the acquisition of the lock, and the   *)
(* closing of a socket end one.  A send waits after it has written its     *)
(* message, if at all, so the first message of a loop is written by the    *)
(* step that begins the loop.  wpc and cpc say where each handler waits;   *)
(* wtodo, ctodo and clist are the recipients or messages its current loop  *)
(* has left.                                                               *)
(*                                                                         *)
(* Left out because they change no table: rejected handshakes, parse and   *)
(* identity errors, PING/PONG, and the forwarding of frames to a worker.   *)
(***************************************************************************)
EXTENDS WorkerManager, Sessions

CONSTANTS
  IdOf,       \* the worker id each worker connection registers
  NoWorker    \* a controller that names no worker in its query string

ASSUME RelayAssumption ==
  /\ IdOf \in [WSocket -> Worker]
  /\ NoWorker \notin Worker

VARIABLES
  wpc,     \* where the handler of each worker connection waits
  wsock,   \* state of its socket
  wtodo,   \* controllers its broadcast has not reached yet
  wmsg,    \* what it broadcasts: a status, or "content"
  cpc,     \* the same for controller connections
  csock,
  ctodo,   \* workers whose fresh status is still to be sent
  cskip,   \* workers the list of the others leaves out
  clist,   \* statuses of the others still to be sent, read beforehand
  \* the peers, as far as the tables' correctness shows there
  view,          \* last WORKER_STATUS each controller got about each worker
  observers,     \* _observer_count of each worker process
  told,          \* worker connections that carried an OBSERVER_COUNT
  lastVersion    \* last version each worker connection reported

handlerVars == <<wpc, wsock, wtodo, wmsg, cpc, csock, ctodo, cskip, clist>>
peerVars == <<view, observers, told, lastVersion>>
vars == <<managerVars, sessionVars, handlerVars, peerVars>>

workerHandlerVars == <<wpc, wsock, wtodo, wmsg>>
controllerHandlerVars == <<cpc, csock, ctodo, cskip, clist>>

WPhase == {"off", "register", "replace", "announce", "dispatch", "broadcast",
           "unregister", "farewell", "done"}
CPhase == {"off", "hello", "dispatch", "fresh", "reply", "forget", "raised", "done"}
SockState == {"open", "closing", "closed"}

\* The tables and handlers hold values of their kinds: a version the server
\* shows is one a worker can report, a session that is idle exists.
TypeOK ==
  /\ ManagerTypeOK
  /\ SessionTypeOK
  /\ wpc \in [WSocket -> WPhase]
  /\ wsock \in [WSocket -> SockState]
  /\ wtodo \in [WSocket -> SUBSET CSocket]
  /\ wmsg \in [WSocket -> Status \cup {"content"}]
  /\ cpc \in [CSocket -> CPhase]
  /\ csock \in [CSocket -> SockState]
  /\ ctodo \in [CSocket -> SUBSET Worker]
  /\ cskip \in [CSocket -> SUBSET Worker]
  /\ clist \in [CSocket -> SUBSET (Worker \X Known)]
  /\ view \in [CSocket -> [Worker -> Known]]
  /\ observers \in [Worker -> Nat]
  /\ told \subseteq WSocket
  /\ lastVersion \in [WSocket -> Version]

Init ==
  /\ ManagerInit
  /\ SessionInit
  /\ wpc = [c \in WSocket |-> "off"]
  /\ wsock = [c \in WSocket |-> "open"]
  /\ wtodo = [c \in WSocket |-> {}]
  /\ wmsg = [c \in WSocket |-> "content"]
  /\ cpc = [k \in CSocket |-> "off"]
  /\ csock = [k \in CSocket |-> "open"]
  /\ ctodo = [k \in CSocket |-> {}]
  /\ cskip = [k \in CSocket |-> {}]
  /\ clist = [k \in CSocket |-> {}]
  /\ view = [k \in CSocket |-> [w \in Worker |-> "unknown"]]
  /\ observers = [w \in Worker |-> 1]
  /\ told = {}
  /\ lastVersion = [c \in WSocket |-> 0]
-----------------------------------------------------------------------------
(* Worker connections: handle_worker_connection *)

\* A handler blocked in receive_text can still be handed a message while
\* the server closes the socket, and none once it is closed.
CanReceive(sock) == sock \in {"open", "closing"}

\* Message m about w is sent to controller k: lost if its socket is gone.
Tell(k, w, m) ==
  view' = IF m = "content" \/ csock[k] # "open" THEN view ELSE [view EXCEPT ![k][w] = m]

\* Those of to whose socket takes a message.  A send to any other raises at
\* once, which is swallowed, and the loop goes on without waiting.
Hearing(to) == {k \in to : csock[k] = "open"}

\* The handler begins to send m to the controllers of to, one after the
\* other: the first has it before anyone else runs.
Broadcasting(c, phase, m, to) ==
  /\ wpc' = [wpc EXCEPT ![c] = phase]
  /\ wmsg' = [wmsg EXCEPT ![c] = m]
  /\ \/ /\ Hearing(to) = {}
        /\ wtodo' = [wtodo EXCEPT ![c] = {}]
        /\ UNCHANGED view
     \/ \E k \in Hearing(to) :
          /\ wtodo' = [wtodo EXCEPT ![c] = to \ {k}]
          /\ Tell(k, IdOf[c], m)

\* accept() and authentication succeeded; the worker id is in the query.
WConnect(c) ==
  /\ wpc[c] = "off"
  /\ wpc' = [wpc EXCEPT ![c] = "register"]
  /\ UNCHANGED <<managerVars, sessionVars, wsock, wtodo, wmsg, controllerHandlerVars, peerVars>>

\* register_worker when no connection of this worker is registered.
WRegister(c) ==
  /\ wpc[c] = "register"
  /\ LockFree
  /\ conns[IdOf[c]] = NoSocket
  /\ RecordWorker(IdOf[c], c)
  /\ Broadcasting(c, "announce", "connected", subs[IdOf[c]])
  /\ UNCHANGED <<lock, oldSocket, sessionVars, wsock, controllerHandlerVars,
                 observers, told, lastVersion>>

\* register_worker when one is: old_ws.close() begins under the lock.
WReplace(c) ==
  /\ wpc[c] = "register"
  /\ HoldForClose(IdOf[c], c)
  /\ wpc' = [wpc EXCEPT ![c] = "replace"]
  /\ wsock' = [wsock EXCEPT ![conns[IdOf[c]]] = IF @ = "open" THEN "closing" ELSE @]
  /\ UNCHANGED <<sessionVars, wtodo, wmsg, controllerHandlerVars, peerVars>>

\* Mutant: the close waits for the replaced handler, which waits for the lock.
CloseReturnsAfterHandler(old) == wpc[old] = "done"

\* old_ws.close() returns, or raises and is ignored, whatever the handler
\* of the old socket does.
CloseReturns(old) == wsock[old] \in {"closing", "closed"}

WReplaced(c) ==
  /\ wpc[c] = "replace"
  /\ CloseReturns(oldSocket)
  /\ wsock' = [wsock EXCEPT ![oldSocket] = "closed"]
  /\ RecordWorker(IdOf[c], c)
  /\ lock' = NoSocket
  /\ oldSocket' = NoSocket
  /\ Broadcasting(c, "announce", "connected", subs[IdOf[c]])
  /\ UNCHANGED <<sessionVars, controllerHandlerVars, observers, told, lastVersion>>

\* handle_worker_message: WORKER_STATUS.  A worker that says "connected"
\* sends the version 0 it restarts from.
WStatus(c, s) ==
  LET v == IF s = "connected" THEN 0 ELSE domVersion[IdOf[c]]
  IN  /\ wpc[c] = "dispatch"
      /\ CanReceive(wsock[c])
      /\ SetStatus(IdOf[c], s, v)
      /\ Broadcasting(c, "broadcast", s, subs[IdOf[c]])
      /\ lastVersion' = [lastVersion EXCEPT ![c] = IF s = "connected" THEN 0 ELSE @]
      /\ UNCHANGED <<sessionVars, wsock, controllerHandlerVars, observers, told>>

\* FULL_SNAPSHOT and DOM_UPDATE.
WVersion(c, v) ==
  /\ wpc[c] = "dispatch"
  /\ CanReceive(wsock[c])
  /\ SetVersion(IdOf[c], v)
  /\ Broadcasting(c, "broadcast", "content", subs[IdOf[c]])
  /\ lastVersion' = [lastVersion EXCEPT ![c] = v]
  /\ UNCHANGED <<sessionVars, wsock, controllerHandlerVars, observers, told>>

\* COMMAND_RESULT, ERROR, TAB_OPENED and TAB_CLOSED.
WContent(c) ==
  /\ wpc[c] = "dispatch"
  /\ CanReceive(wsock[c])
  /\ Broadcasting(c, "broadcast", "content", subs[IdOf[c]])
  /\ UNCHANGED <<managerVars, sessionVars, wsock, controllerHandlerVars, observers, told, lastVersion>>

\* A send has returned: the next message is written, or the broadcast is
\* over.  receive_text raises at once on a socket that the server has begun
\* to close.
WSent(c) ==
  /\ wpc[c] \in {"announce", "broadcast", "farewell"}
  /\ IF Hearing(wtodo[c]) # {}
       THEN /\ \E k \in Hearing(wtodo[c]) :
                 /\ wtodo' = [wtodo EXCEPT ![c] = @ \ {k}]
                 /\ Tell(k, IdOf[c], wmsg[c])
            /\ UNCHANGED <<wpc, wmsg>>
       ELSE /\ wpc' = [wpc EXCEPT ![c] = IF @ = "farewell" THEN "done"
                                         ELSE IF wsock[c] = "open" THEN "dispatch" ELSE "unregister"]
            /\ wmsg' = [wmsg EXCEPT ![c] = "content"]
            /\ wtodo' = [wtodo EXCEPT ![c] = {}]
            /\ UNCHANGED view
  /\ UNCHANGED <<managerVars, sessionVars, wsock, controllerHandlerVars, observers, told, lastVersion>>

\* The peer goes away: process gone, network lost, or it closes.
WPeerGone(c) ==
  /\ wpc[c] \notin {"off", "done"}
  /\ wsock[c] = "open"
  /\ wsock' = [wsock EXCEPT ![c] = "closed"]
  /\ UNCHANGED <<managerVars, sessionVars, wpc, wtodo, wmsg, controllerHandlerVars, peerVars>>

\* receive_text raises and the finally clause is entered.
WDisconnect(c) ==
  /\ wpc[c] = "dispatch"
  /\ wsock[c] = "closed"
  /\ wpc' = [wpc EXCEPT ![c] = "unregister"]
  /\ UNCHANGED <<managerVars, sessionVars, wsock, wtodo, wmsg, controllerHandlerVars, peerVars>>

\* Mutant: unregister_worker does not take the lock.
WUnregisterUnlocked(c) ==
  /\ wpc[c] = "unregister"
  /\ RemoveWorker(IdOf[c], c)
  /\ Broadcasting(c, "farewell", "disconnected",
                  IF conns[IdOf[c]] = c THEN subs[IdOf[c]] ELSE {})
  /\ UNCHANGED <<sessionVars, wsock, controllerHandlerVars, observers, told, lastVersion>>

\* unregister_worker; its notices are sent after the lock is released, and
\* only the first of them before anyone else can run.
WUnregister(c) ==
  /\ wpc[c] = "unregister"
  /\ LockFree
  /\ RemoveWorker(IdOf[c], c)
  /\ Broadcasting(c, "farewell", "disconnected",
                  IF conns[IdOf[c]] = c THEN subs[IdOf[c]] ELSE {})
  /\ UNCHANGED <<sessionVars, wsock, controllerHandlerVars, observers, told, lastVersion>>

\* A scheduled _notify_worker_observer_count task runs: it counts now, and
\* the count is lost if the socket is gone.
CountTask(w) ==
  LET c == conns[w]
      delivered == c # NoSocket /\ wsock[c] = "open"
  IN  /\ w \in countTasks
      /\ countTasks' = countTasks \ {w}
      /\ observers' = IF delivered THEN [observers EXCEPT ![w] = Cardinality(subs[w])]
                      ELSE observers
      /\ told' = IF delivered THEN told \cup {c} ELSE told
      /\ UNCHANGED <<conns, status, domVersion, subKeys, subs, lock, oldSocket,
                     sessionVars, handlerVars, view, lastVersion>>
-----------------------------------------------------------------------------
(* Controller connections: handle_controller_connection *)

\* finally: unregister_controller, remove_subscriber_from_all.
Cleanup(k) ==
  /\ DestroySession(k)
  /\ DropSubscriber(k)
  /\ cpc' = [cpc EXCEPT ![k] = "done"]
  /\ csock' = [csock EXCEPT ![k] = "closed"]
  /\ ctodo' = [ctodo EXCEPT ![k] = {}]
  /\ cskip' = [cskip EXCEPT ![k] = {}]
  /\ clist' = [clist EXCEPT ![k] = {}]
  /\ UNCHANGED <<reapList, reaping, workerHandlerVars, peerVars>>

\* The handler of k begins to send the statuses of the workers outside skip
\* that the token covers, read beforehand.
Others(covered, skip) == {p \in ConnectedStatuses(skip) : p[1] \in covered}
ListOthers(k, covered, skip) ==
  \/ /\ Others(covered, skip) = {}
     /\ clist' = [clist EXCEPT ![k] = {}]
     /\ UNCHANGED view
  \/ \E p \in Others(covered, skip) :
       /\ clist' = [clist EXCEPT ![k] = Others(covered, skip) \ {p}]
       /\ Tell(k, p[1], p[2])

\* The worker of the query string is subscribed to, and its status follows.
Subscribe(k, asked) ==
  /\ IF asked = {} THEN UNCHANGED managerVars ELSE MoveSubscriber(k, {}, asked)
  /\ view' = IF csock[k] # "open" THEN view
             ELSE [view EXCEPT ![k] = [w \in Worker |-> IF w \in asked THEN CurrentStatus(w) ELSE @[w]]]
  /\ cpc' = [cpc EXCEPT ![k] = "reply"]
  /\ cskip' = [cskip EXCEPT ![k] = {}]
  /\ UNCHANGED clist

\* Authenticated with worker_id q in the query (or none): the session is
\* made and the statuses of the other workers are read and sent.
CConnect(k, q) ==
  LET asked == {q} \cap Worker
  IN  /\ cpc[k] = "off"
      /\ CreateSession(k, asked)
      /\ \/ /\ Others(Auth[k], asked) = {}
            /\ Subscribe(k, asked)
         \/ /\ Others(Auth[k], asked) # {}
            /\ ListOthers(k, Auth[k], asked)
            /\ cpc' = [cpc EXCEPT ![k] = "hello"]
            /\ cskip' = [cskip EXCEPT ![k] = asked]
            /\ UNCHANGED managerVars
      /\ UNCHANGED <<workerHandlerVars, csock, ctodo, observers, told, lastVersion>>

\* The next status of that list; authorization is asked again for each.
CSendOther(k, p) ==
  /\ cpc[k] \in {"hello", "reply"}
  /\ csock[k] # "closing"
  /\ p \in clist[k]
  /\ clist' = [clist EXCEPT ![k] = @ \ {p}]
  /\ IF IsAuthorized(k, p[1]) THEN Tell(k, p[1], p[2]) ELSE UNCHANGED view
  /\ UNCHANGED <<managerVars, sessionVars, workerHandlerVars, cpc, csock, ctodo, cskip,
                 observers, told, lastVersion>>

\* The list is sent: the worker of the query string comes only now.
CHelloDone(k) ==
  /\ cpc[k] = "hello"
  /\ clist[k] = {}
  /\ Subscribe(k, cskip[k])
  /\ UNCHANGED <<sessionVars, workerHandlerVars, csock, ctodo, observers, told, lastVersion>>

\* The workers a controller may hear of.
Covered(k) == {w \in Worker : IsAuthorized(k, w)}

\* CONTROLLER_REGISTER with the worker ids asked: the status of each new
\* one is sent, then those of the others.
CRegister(k, asked) ==
  LET old == PreviousSubscriptions(k)
      joining == asked \ old
  IN  /\ cpc[k] = "dispatch"
      /\ CanReceive(csock[k])
      /\ SetSubscriptions(k, asked)
      /\ MoveSubscriber(k, old \ asked, joining)
      /\ \/ /\ joining = {}
            /\ ListOthers(k, Covered(k), {})
            /\ cpc' = [cpc EXCEPT ![k] = "reply"]
            /\ UNCHANGED <<ctodo, cskip>>
         \/ \E w \in joining :
              /\ Tell(k, w, CurrentStatus(w))
              /\ ctodo' = [ctodo EXCEPT ![k] = joining \ {w}]
              /\ cskip' = [cskip EXCEPT ![k] = joining]
              /\ cpc' = [cpc EXCEPT ![k] = "fresh"]
              /\ UNCHANGED clist
      /\ UNCHANGED <<workerHandlerVars, csock, observers, told, lastVersion>>

\* The status of the next new subscription, read when it is sent.
CSendFresh(k, w) ==
  /\ cpc[k] = "fresh"
  /\ csock[k] # "closing"
  /\ w \in ctodo[k]
  /\ ctodo' = [ctodo EXCEPT ![k] = @ \ {w}]
  /\ Tell(k, w, CurrentStatus(w))
  /\ UNCHANGED <<managerVars, sessionVars, workerHandlerVars, cpc, csock, cskip, clist,
                 observers, told, lastVersion>>

CFreshDone(k) ==
  /\ cpc[k] = "fresh"
  /\ ctodo[k] = {}
  /\ ListOthers(k, Covered(k), cskip[k])
  /\ cpc' = [cpc EXCEPT ![k] = "reply"]
  /\ cskip' = [cskip EXCEPT ![k] = {}]
  /\ UNCHANGED <<managerVars, sessionVars, workerHandlerVars, csock, ctodo,
                 observers, told, lastVersion>>

\* Back to the dispatch loop, where receive_text raises at once on a
\* socket the server has begun to close.
CReturn(k) ==
  /\ cpc[k] = "reply"
  /\ clist[k] = {}
  /\ csock[k] = "open"
  /\ cpc' = [cpc EXCEPT ![k] = "dispatch"]
  /\ UNCHANGED <<managerVars, sessionVars, workerHandlerVars, csock, ctodo, cskip, clist, peerVars>>

\* COMMAND, RESYNC_REQUEST, THROTTLE_CONFIG, BROWSER_CONFIG, PING: of the
\* tables modelled here they only touch the session.
CFrame(k) ==
  /\ cpc[k] = "dispatch"
  /\ CanReceive(csock[k])
  /\ TouchSession(k)
  /\ cpc' = [cpc EXCEPT ![k] = "reply"]
  /\ UNCHANGED <<managerVars, workerHandlerVars, csock, ctodo, cskip, clist, peerVars>>

\* FORGET_WORKER: the handler waits for the lock.
CForgetFrame(k, w) ==
  /\ cpc[k] = "dispatch"
  /\ CanReceive(csock[k])
  /\ TouchSession(k)
  /\ cpc' = [cpc EXCEPT ![k] = "forget"]
  /\ ctodo' = [ctodo EXCEPT ![k] = {w}]
  /\ UNCHANGED <<managerVars, workerHandlerVars, csock, cskip, clist, peerVars>>

\* forget_worker returns early on a connected worker.
CForgetRefused(k, w) ==
  /\ cpc[k] = "forget"
  /\ w \in ctodo[k]
  /\ LockFree
  /\ conns[w] # NoSocket
  /\ cpc' = [cpc EXCEPT ![k] = "reply"]
  /\ ctodo' = [ctodo EXCEPT ![k] = {}]
  /\ UNCHANGED <<managerVars, sessionVars, workerHandlerVars, csock, cskip, clist, peerVars>>

\* Otherwise it deletes the entries and then raises AttributeError, which
\* ends the handler of the controller that asked.
CForget(k, w) ==
  /\ cpc[k] = "forget"
  /\ w \in ctodo[k]
  /\ EraseWorker(w)
  /\ cpc' = [cpc EXCEPT ![k] = "raised"]
  /\ ctodo' = [ctodo EXCEPT ![k] = {}]
  /\ UNCHANGED <<sessionVars, workerHandlerVars, csock, cskip, clist, peerVars>>

CPeerGone(k) ==
  /\ cpc[k] \notin {"off", "done"}
  /\ csock[k] = "open"
  /\ csock' = [csock EXCEPT ![k] = "closed"]
  /\ UNCHANGED <<managerVars, sessionVars, workerHandlerVars, cpc, ctodo, cskip, clist, peerVars>>

\* The handler ends: receive_text or one of its own sends raises, or the
\* AttributeError of forget_worker reaches it.
CEnd(k) ==
  /\ \/ cpc[k] = "dispatch" /\ csock[k] = "closed"
     \/ cpc[k] \in {"hello", "fresh", "reply"} /\ csock[k] # "open"
     \/ cpc[k] = "raised"
  /\ Cleanup(k)
-----------------------------------------------------------------------------
(* The session reaper: session_reaper_loop *)

Idle(k) ==
  /\ GoIdle(k)
  /\ UNCHANGED <<managerVars, handlerVars, peerVars>>

ReapScan ==
  /\ ListExpired
  /\ UNCHANGED <<managerVars, handlerVars, peerVars>>

ReapNotify(k) ==
  /\ TakeExpired(k)
  /\ UNCHANGED <<managerVars, handlerVars, peerVars>>

\* The SESSION_TIMEOUT frame is out; websocket.close() begins.
ReapClose(k) ==
  /\ reaping = k
  /\ csock[k] = "open"
  /\ csock' = [csock EXCEPT ![k] = "closing"]
  /\ UNCHANGED <<managerVars, sessionVars, workerHandlerVars, cpc, ctodo, cskip, clist, peerVars>>

\* It returns, or one of the two calls raised on a dead socket.
Reaped(k) ==
  /\ csock[k] # "open"
  /\ FinishReaping(k)
  /\ csock' = [csock EXCEPT ![k] = "closed"]
  /\ UNCHANGED <<managerVars, workerHandlerVars, cpc, ctodo, cskip, clist, peerVars>>
-----------------------------------------------------------------------------
WorkerStep(c) ==
  \/ WConnect(c) \/ WRegister(c) \/ WReplace(c) \/ WReplaced(c)
  \/ \E s \in Reported \cup {"connected"} : WStatus(c, s)
  \/ \E v \in Version : WVersion(c, v)
  \/ WContent(c)
  \/ WSent(c) \/ WPeerGone(c) \/ WDisconnect(c) \/ WUnregister(c)

ControllerStep(k) ==
  \/ \E q \in Worker \cup {NoWorker} : CConnect(k, q)
  \/ \E p \in Worker \X Known : CSendOther(k, p)
  \/ CHelloDone(k)
  \/ \E asked \in SUBSET Worker : CRegister(k, asked)
  \/ \E w \in Worker : CSendFresh(k, w) \/ CForgetFrame(k, w)
                        \/ CForgetRefused(k, w) \/ CForget(k, w)
  \/ CFreshDone(k) \/ CReturn(k) \/ CFrame(k) \/ CPeerGone(k) \/ CEnd(k)

ReaperStep(k) == Idle(k) \/ ReapNotify(k) \/ ReapClose(k) \/ Reaped(k)

Next ==
  \/ \E c \in WSocket : WorkerStep(c)
  \/ \E k \in CSocket : ControllerStep(k) \/ ReaperStep(k)
  \/ \E w \in Worker : CountTask(w)
  \/ ReapScan

Spec == Init /\ [][Next]_vars

\* The steps a handler takes without its peer: it gets the lock, its sends
\* and closes return, a closed socket is noticed.
WorkerResumes(c) ==
  \/ WRegister(c) \/ WReplace(c) \/ WReplaced(c)
  \/ WSent(c) \/ WDisconnect(c) \/ WUnregister(c)
ControllerResumes(k) ==
  \/ \E p \in Worker \X Known : CSendOther(k, p)
  \/ CHelloDone(k) \/ CFreshDone(k) \/ CReturn(k) \/ CEnd(k)
  \/ \E w \in Worker : CSendFresh(k, w) \/ CForgetRefused(k, w) \/ CForget(k, w)

\* The event loop resumes every handler and every scheduled task that can
\* go on.  Nothing is owed by the peers, and the reaper sleeps as it likes.
Fairness ==
  /\ \A c \in WSocket : WF_vars(WorkerResumes(c))
  /\ \A k \in CSocket : WF_vars(ControllerResumes(k))
  /\ \A w \in Worker : WF_vars(CountTask(w))

FairSpec == Spec /\ Fairness
-----------------------------------------------------------------------------
(* Safety *)

Registered == {"announce", "dispatch", "broadcast", "unregister"}
Active == CPhase \ {"off", "done"}

\* A worker id is listed as connected only while the handler of the listed
\* socket is still running and will remove it: no reconnect leaves a ghost
\* worker behind (worker_manager.py, register_worker and unregister_worker).
NoGhostWorker ==
  \A w \in Worker : conns[w] # NoSocket =>
    /\ IdOf[conns[w]] = w
    /\ wpc[conns[w]] \in Registered

\* The late cleanup of a replaced connection never unlists the connection
\* that replaced it: a handler that serves an open socket is the listed one
\* (the identity check of unregister_worker).
ServedWorkerIsListed ==
  \A c \in WSocket :
    wpc[c] \in {"announce", "dispatch", "broadcast"} /\ wsock[c] = "open"
      => conns[IdOf[c]] = c

\* While register_worker awaits the close of the old socket, the table does
\* not move under it: the socket it is about to overwrite is still the one
\* it closed (the lock held across the await).
ReplacementIsAtomic ==
  lock # NoSocket => /\ wpc[lock] = "replace"
                     /\ oldSocket # NoSocket
                     /\ conns[IdOf[lock]] = oldSocket

\* The status the server shows for a worker agrees with its connection
\* table, however the old and the new connection's handlers interleave.
StatusMatchesConnection ==
  \A w \in Worker :
    /\ conns[w] # NoSocket => status[w] \notin {"unknown", "disconnected"}
    /\ conns[w] = NoSocket => status[w] \in {"unknown", "disconnected"}

\* The DOM version the server shows for a connected worker was reported on
\* the connection that is listed, never on the one it replaced.
VersionFromListedConnection ==
  \A w \in Worker : conns[w] # NoSocket => domVersion[w] = lastVersion[conns[w]]

\* A controller connection whose handler has ended is in no subscriber set
\* and has no session, also when the reaper ended the session first or
\* forget_worker raised (the finally clause of handle_controller_connection).
EndedControllerLeavesNoTrace ==
  \A k \in CSocket : cpc[k] \notin Active =>
    /\ k \notin live
    /\ \A w \in Worker : k \notin subs[w]

\* The two subscription tables agree in this direction: a controller with a
\* session gets the traffic of a worker its token covers only if the session
\* records the subscription (message_router.py, CONTROLLER_REGISTER).
WatchedIsRecorded ==
  \A k \in live, w \in Worker :
    k \in subs[w] /\ w \in Auth[k] => w \in viewing[k]

\* Once a listed connection has been told an observer count, the last count
\* it was told is right whenever no count task is pending, whatever joined,
\* left, was dropped or forgotten meanwhile.
ObserverCountFresh ==
  \A w \in Worker :
    LET c == conns[w]
    IN  c # NoSocket /\ c \in told /\ wsock[c] = "open" /\ w \notin countTasks
          => observers[w] = Cardinality(subs[w])
-----------------------------------------------------------------------------
(* A claim of the documentation the code does not keep *)

\* ARCHITECTURE.md 20.4: disconnected, then connected.  The notices of the
\* old connection are sent after the lock is released, one after the other:
\* while the first subscriber keeps the handler waiting, the worker can come
\* back, and a later subscriber hears "connected" before "disconnected".
Quiet ==
  /\ \A c \in WSocket : wpc[c] \in {"off", "dispatch", "done"}
  /\ \A k \in CSocket : cpc[k] \in {"off", "dispatch", "done"}
SubscriberSeesConnected ==
  Quiet => \A k \in CSocket, w \in Worker :
    /\ cpc[k] = "dispatch" /\ csock[k] = "open" /\ k \in subs[w]
    /\ conns[w] # NoSocket /\ wsock[conns[w]] = "open"
    => view[k][w] # "disconnected"
-----------------------------------------------------------------------------
(* Liveness *)

\* A worker connection that waits for registration is registered: the lock
\* held across the close of the old socket is always given back, although
\* the handler of that socket needs it too.
RegistrationCompletes ==
  \A c \in WSocket : wpc[c] = "register" ~> wpc[c] = "announce"

\* A worker that is gone is unlisted, whatever broadcasts and replacements
\* are under way.
GoneWorkerIsUnlisted ==
  \A c \in WSocket :
    wsock[c] = "closed" /\ wpc[c] # "off" ~> wpc[c] = "done" /\ conns[IdOf[c]] # c

\* A controller connection that is closed leaves both tables for good.
GoneControllerLeaves ==
  \A k \in CSocket :
    csock[k] = "closed" ~> [](k \notin live /\ \A w \in Worker : k \notin subs[w])
=============================================================================
