---------------------------- MODULE RelayProofs ----------------------------
(***************************************************************************)
(* Proofs about Relay, for every set of workers, connections and           *)
(* controllers: type correctness, then the agreement of the registry with  *)
(* the handlers of the worker connections, then the agreement of the       *)
(* subscription tables with the handlers of the controllers.               *)
(***************************************************************************)
EXTENDS Relay, FiniteSetTheorems, TLAPS

\* Constant-level facts the steps below use.
LEMMA VersionZero == 0 \in Version
  BY WorkerManagerAssumption DEF Version

\* The count _notify_worker_observer_count sends is a natural number.
LEMMA SubscriberCount ==
  ASSUME NEW s \in SUBSET CSocket
  PROVE  Cardinality(s) \in Nat
  BY EndpointsAssumption, FS_Subset, FS_CardinalityType
-----------------------------------------------------------------------------
(* Type correctness *)

\* A message sent to a controller keeps its view a table of statuses.
LEMMA TellTyped ==
  ASSUME TypeOK, NEW k \in CSocket, NEW w \in Worker, NEW m \in Known \cup {"content"},
         Tell(k, w, m)
  PROVE  view' \in [CSocket -> [Worker -> Known]]
  BY DEF TypeOK, Tell

\* So does the first message of a broadcast, and the handler waits for the
\* rest of its recipients.
LEMMA BroadcastTyped ==
  ASSUME TypeOK, NEW c \in WSocket, NEW phase \in WPhase, NEW m \in Status \cup {"content"},
         NEW to \in SUBSET CSocket, Broadcasting(c, phase, m, to)
  PROVE  /\ wpc' \in [WSocket -> WPhase]
         /\ wmsg' \in [WSocket -> Status \cup {"content"}]
         /\ wtodo' \in [WSocket -> SUBSET CSocket]
         /\ view' \in [CSocket -> [Worker -> Known]]
  <1>1. wpc' \in [WSocket -> WPhase] /\ wmsg' \in [WSocket -> Status \cup {"content"}]
    BY DEF Broadcasting, TypeOK
  <1>2. CASE wtodo' = [wtodo EXCEPT ![c] = {}] /\ UNCHANGED view
    BY <1>1, <1>2 DEF TypeOK
  <1>3. ASSUME NEW k \in to, wtodo' = [wtodo EXCEPT ![c] = to \ {k}], Tell(k, IdOf[c], m)
        PROVE  /\ wtodo' \in [WSocket -> SUBSET CSocket]
               /\ view' \in [CSocket -> [Worker -> Known]]
    <2>1. IdOf[c] \in Worker /\ m \in Known \cup {"content"}
      BY RelayAssumption DEF Known
    <2>2. view' \in [CSocket -> [Worker -> Known]]
      BY <1>3, <2>1, TellTyped
    <2>3. QED
      BY <1>3, <2>2 DEF TypeOK
  <1>4. QED
    BY <1>1, <1>2, <1>3 DEF Broadcasting, Hearing

\* Every stretch of a worker connection's handler keeps the kinds.
LEMMA WorkerStepTyped ==
  ASSUME TypeOK, NEW c \in WSocket, WorkerStep(c)
  PROVE  TypeOK'
  <1> USE VersionZero, EndpointsAssumption, WorkerManagerAssumption, RelayAssumption
      DEF TypeOK, ManagerTypeOK, SessionTypeOK, managerVars, sessionVars, controllerHandlerVars,
          peerVars, WPhase, SockState, Status, Known, LockFree
  <1>1. CASE WConnect(c)
    BY <1>1 DEF WConnect
  <1>2. CASE WRegister(c)
    <2>1. /\ Broadcasting(c, "announce", "connected", subs[IdOf[c]])
          /\ subs[IdOf[c]] \in SUBSET CSocket
      BY <1>2 DEF WRegister
    <2>2. ManagerTypeOK'
      BY <1>2 DEF WRegister, RecordWorker
    <2>3. QED
      BY <1>2, <2>1, <2>2, BroadcastTyped DEF WRegister
  <1>3. CASE WReplace(c)
    BY <1>3 DEF WReplace, HoldForClose
  <1>4. CASE WReplaced(c)
    <2>1. /\ Broadcasting(c, "announce", "connected", subs[IdOf[c]])
          /\ subs[IdOf[c]] \in SUBSET CSocket
      BY <1>4 DEF WReplaced
    <2>2. ManagerTypeOK'
      BY <1>4 DEF WReplaced, RecordWorker
    <2>3. wsock' \in [WSocket -> SockState]
      BY <1>4 DEF WReplaced
    <2>4. QED
      BY <1>4, <2>1, <2>2, <2>3, BroadcastTyped DEF WReplaced
  <1>5. ASSUME NEW s \in Reported \cup {"connected"}, WStatus(c, s)
        PROVE  TypeOK'
    <2> DEFINE v == IF s = "connected" THEN 0 ELSE domVersion[IdOf[c]]
    <2>1. IdOf[c] \in Worker /\ v \in Version /\ s \in Status
      OBVIOUS
    <2>2. SetStatus(IdOf[c], s, v)
      BY <1>5 DEF WStatus
    <2>3. ManagerTypeOK'
      <3>1. CASE status[IdOf[c]] = "unknown"
        BY <2>2, <3>1 DEF SetStatus
      <3>2. CASE status[IdOf[c]] # "unknown"
        <4>1. /\ status' = [status EXCEPT ![IdOf[c]] = s]
              /\ domVersion' = [domVersion EXCEPT ![IdOf[c]] = v]
              /\ UNCHANGED <<conns, subKeys, subs, lock, oldSocket, countTasks>>
          BY <2>2, <3>2 DEF SetStatus
        <4> HIDE DEF v
        <4>2. QED
          BY <2>1, <4>1
      <3>3. QED
        BY <3>1, <3>2
    <2>4. Broadcasting(c, "broadcast", s, subs[IdOf[c]]) /\ subs[IdOf[c]] \in SUBSET CSocket
      BY <1>5, <2>1 DEF WStatus
    <2>5. QED
      BY <1>5, <2>1, <2>3, <2>4, BroadcastTyped DEF WStatus
  <1>6. ASSUME NEW v \in Version, WVersion(c, v)
        PROVE  TypeOK'
    BY <1>6, BroadcastTyped DEF WVersion, SetVersion
  <1>7. CASE WContent(c)
    BY <1>7, BroadcastTyped DEF WContent
  <1>8. CASE WSent(c)
    <2>1. ASSUME NEW k \in Hearing(wtodo[c]), wtodo' = [wtodo EXCEPT ![c] = @ \ {k}],
                 Tell(k, IdOf[c], wmsg[c]), UNCHANGED <<wpc, wmsg>>
          PROVE  TypeOK'
      <3>1. k \in CSocket /\ IdOf[c] \in Worker /\ wmsg[c] \in Known \cup {"content"}
        BY <2>1 DEF Hearing
      <3>2. view' \in [CSocket -> [Worker -> Known]]
        BY <2>1, <3>1, TellTyped
      <3>3. wtodo' \in [WSocket -> SUBSET CSocket]
        BY <2>1
      <3>4. QED
        BY <1>8, <2>1, <3>2, <3>3 DEF WSent
    <2>2. CASE Hearing(wtodo[c]) = {}
      <3>1. \E phase \in {"done", "dispatch", "unregister"} : wpc' = [wpc EXCEPT ![c] = phase]
        BY <1>8, <2>2 DEF WSent
      <3>2. wmsg' = [wmsg EXCEPT ![c] = "content"] /\ wtodo' = [wtodo EXCEPT ![c] = {}]
        BY <1>8, <2>2 DEF WSent
      <3>3. UNCHANGED <<managerVars, sessionVars, wsock, controllerHandlerVars, peerVars>>
        BY <1>8, <2>2 DEF WSent
      <3>4. QED
        BY <3>1, <3>2, <3>3
    <2>3. QED
      BY <1>8, <2>1, <2>2 DEF WSent
  <1>9. CASE WPeerGone(c)
    BY <1>9 DEF WPeerGone
  <1>10. CASE WDisconnect(c)
    BY <1>10 DEF WDisconnect
  <1>11. CASE WUnregister(c)
    <2>1. /\ wpc' \in [WSocket -> WPhase]
          /\ wmsg' \in [WSocket -> Status \cup {"content"}]
          /\ wtodo' \in [WSocket -> SUBSET CSocket]
          /\ view' \in [CSocket -> [Worker -> Known]]
      <3> DEFINE to == IF conns[IdOf[c]] = c THEN subs[IdOf[c]] ELSE {}
      <3>1. to \in SUBSET CSocket /\ Broadcasting(c, "farewell", "disconnected", to)
        BY <1>11 DEF WUnregister
      <3>2. QED
        BY <3>1, BroadcastTyped
    <2>2. ManagerTypeOK'
      <3>1. CASE conns[IdOf[c]] = c
        <4>1. IdOf[c] \in Worker
          OBVIOUS
        <4>2. /\ conns' = [conns EXCEPT ![IdOf[c]] = NoSocket]
              /\ status' = [status EXCEPT ![IdOf[c]] = IF @ = "unknown" THEN @ ELSE "disconnected"]
              /\ UNCHANGED <<domVersion, subKeys, subs, lock, oldSocket, countTasks>>
          BY <1>11, <3>1 DEF WUnregister, RemoveWorker
        <4>3. status' \in [Worker -> Known]
          BY <4>1, <4>2
        <4>4. QED
          BY <4>1, <4>2, <4>3
      <3>2. CASE conns[IdOf[c]] # c
        BY <1>11, <3>2 DEF WUnregister, RemoveWorker
      <3>3. QED
        BY <3>1, <3>2
    <2>3. QED
      BY <1>11, <2>1, <2>2 DEF WUnregister
  <1>12. QED
    BY <1>1, <1>2, <1>3, <1>4, <1>5, <1>6, <1>7, <1>8, <1>9, <1>10, <1>11 DEF WorkerStep

\* A count task keeps the kinds.
LEMMA CountTaskTyped ==
  ASSUME TypeOK, NEW w \in Worker, CountTask(w)
  PROVE  TypeOK'
  <1>1. Cardinality(subs[w]) \in Nat
    BY SubscriberCount DEF TypeOK, ManagerTypeOK
  <1>2. conns[w] # NoSocket => conns[w] \in WSocket
    BY DEF TypeOK, ManagerTypeOK
  <1>3. observers' \in [Worker -> Nat] /\ told' \subseteq WSocket
    BY <1>1, <1>2 DEF CountTask, TypeOK
  <1>4. QED
    BY <1>3 DEF CountTask, TypeOK, ManagerTypeOK, SessionTypeOK, sessionVars, handlerVars

\* The list of the others holds statuses, and the first of them sent keeps
\* the view a table of statuses.
LEMMA ListTyped ==
  ASSUME TypeOK, NEW k \in CSocket, NEW covered, NEW skip, ListOthers(k, covered, skip)
  PROVE  /\ clist' \in [CSocket -> SUBSET (Worker \X Known)]
         /\ view' \in [CSocket -> [Worker -> Known]]
  <1>1. Others(covered, skip) \subseteq Worker \X Known
    BY DEF Others, ConnectedStatuses, TypeOK, ManagerTypeOK
  <1>2. CASE clist' = [clist EXCEPT ![k] = {}] /\ UNCHANGED view
    BY <1>2 DEF TypeOK
  <1>3. ASSUME NEW p \in Others(covered, skip),
               clist' = [clist EXCEPT ![k] = Others(covered, skip) \ {p}], Tell(k, p[1], p[2])
        PROVE  /\ clist' \in [CSocket -> SUBSET (Worker \X Known)]
               /\ view' \in [CSocket -> [Worker -> Known]]
    <2>1. p[1] \in Worker /\ p[2] \in Known \cup {"content"}
      BY <1>1
    <2>2. view' \in [CSocket -> [Worker -> Known]]
      BY <1>3, <2>1, TellTyped
    <2>3. QED
      BY <1>1, <1>3, <2>2 DEF TypeOK
  <1>4. QED
    BY <1>2, <1>3 DEF ListOthers

\* Every status the server shows is one of its kinds.
LEMMA StatusKnown ==
  ASSUME TypeOK, NEW w \in Worker
  PROVE  CurrentStatus(w) \in Known
  BY DEF CurrentStatus, Known, Status, TypeOK, ManagerTypeOK

\* The subscription of the query string keeps the kinds.
LEMMA SubscribeTyped ==
  ASSUME TypeOK, NEW k \in CSocket, NEW asked \in SUBSET Worker, Subscribe(k, asked)
  PROVE  /\ ManagerTypeOK'
         /\ view' \in [CSocket -> [Worker -> Known]]
         /\ cpc' \in [CSocket -> CPhase]
         /\ cskip' \in [CSocket -> SUBSET Worker]
         /\ clist' = clist
  <1> USE DEF TypeOK, ManagerTypeOK, CPhase
  <1>1. ManagerTypeOK'
    BY DEF Subscribe, MoveSubscriber, managerVars
  <1>2. view' \in [CSocket -> [Worker -> Known]]
    <2>1. view[k] \in [Worker -> Known]
      OBVIOUS
    <2>2. [w \in Worker |-> IF w \in asked THEN CurrentStatus(w) ELSE view[k][w]]
            \in [Worker -> Known]
      BY <2>1, StatusKnown
    <2>3. QED
      BY <2>2 DEF Subscribe
  <1>3. QED
    BY <1>1, <1>2 DEF Subscribe

\* Every stretch of a controller connection's handler keeps the kinds.
LEMMA ControllerStepTyped ==
  ASSUME TypeOK, NEW k \in CSocket, ControllerStep(k)
  PROVE  TypeOK'
  <1> USE SessionsAssumption
      DEF TypeOK, ManagerTypeOK, SessionTypeOK, managerVars, sessionVars, workerHandlerVars,
          peerVars, CPhase, SockState
  <1>1. ASSUME NEW q \in Worker \cup {NoWorker}, CConnect(k, q)
        PROVE  TypeOK'
    <2> DEFINE asked == {q} \cap Worker
    <2>1. SessionTypeOK'
      BY <1>1 DEF CConnect, CreateSession
    <2>2. CASE Subscribe(k, asked)
      BY <1>1, <2>1, <2>2, SubscribeTyped DEF CConnect
    <2>3. ASSUME ListOthers(k, Auth[k], asked), UNCHANGED managerVars,
                 cpc' = [cpc EXCEPT ![k] = "hello"], cskip' = [cskip EXCEPT ![k] = asked]
          PROVE  TypeOK'
      <3>1. cpc' \in [CSocket -> CPhase] /\ cskip' \in [CSocket -> SUBSET Worker]
        BY <2>3
      <3>2. QED
        BY <1>1, <2>1, <2>3, <3>1, ListTyped DEF CConnect
    <2>4. QED
      BY <1>1, <2>2, <2>3 DEF CConnect
  <1>2. ASSUME NEW p \in Worker \X Known, CSendOther(k, p)
        PROVE  TypeOK'
    <2>1. p[1] \in Worker /\ p[2] \in Known \cup {"content"}
      OBVIOUS
    <2>2. view' \in [CSocket -> [Worker -> Known]]
      BY <1>2, <2>1, TellTyped DEF CSendOther
    <2>3. clist' \in [CSocket -> SUBSET (Worker \X Known)]
      BY <1>2 DEF CSendOther
    <2>4. QED
      BY <1>2, <2>2, <2>3 DEF CSendOther
  <1>3. CASE CHelloDone(k)
    <2>1. Subscribe(k, cskip[k]) /\ cskip[k] \in SUBSET Worker
      BY <1>3 DEF CHelloDone
    <2>2. QED
      BY <1>3, <2>1, SubscribeTyped DEF CHelloDone
  <1>4. ASSUME NEW asked \in SUBSET Worker, CRegister(k, asked)
        PROVE  TypeOK'
    <2> DEFINE joining == asked \ PreviousSubscriptions(k)
    <2>1. PreviousSubscriptions(k) \subseteq Worker /\ joining \subseteq Worker
      BY DEF PreviousSubscriptions
    <2>2. ManagerTypeOK'
      BY <1>4, <2>1 DEF CRegister, MoveSubscriber
    <2>3. SessionTypeOK'
      BY <1>4 DEF CRegister, SetSubscriptions
    <2>4. CASE ListOthers(k, Covered(k), {}) /\ cpc' = [cpc EXCEPT ![k] = "reply"]
               /\ UNCHANGED <<ctodo, cskip>>
      BY <1>4, <2>2, <2>3, <2>4, ListTyped DEF CRegister
    <2>5. ASSUME NEW w \in joining, Tell(k, w, CurrentStatus(w)),
                 ctodo' = [ctodo EXCEPT ![k] = joining \ {w}],
                 cskip' = [cskip EXCEPT ![k] = joining],
                 cpc' = [cpc EXCEPT ![k] = "fresh"], UNCHANGED clist
          PROVE  TypeOK'
      <3>1. view' \in [CSocket -> [Worker -> Known]]
        BY <2>1, <2>5, StatusKnown, TellTyped
      <3>2. ctodo' \in [CSocket -> SUBSET Worker] /\ cskip' \in [CSocket -> SUBSET Worker]
        BY <2>1, <2>5
      <3>3. cpc' \in [CSocket -> CPhase]
        BY <2>5
      <3>4. QED
        BY <1>4, <2>2, <2>3, <2>5, <3>1, <3>2, <3>3 DEF CRegister
    <2>6. QED
      BY <1>4, <2>4, <2>5 DEF CRegister
  <1>5. ASSUME NEW w \in Worker, CSendFresh(k, w)
        PROVE  TypeOK'
    BY <1>5, StatusKnown, TellTyped DEF CSendFresh
  <1>6. ASSUME NEW w \in Worker, CForgetFrame(k, w)
        PROVE  TypeOK'
    BY <1>6 DEF CForgetFrame, TouchSession
  <1>7. ASSUME NEW w \in Worker, CForgetRefused(k, w)
        PROVE  TypeOK'
    BY <1>7 DEF CForgetRefused
  <1>8. ASSUME NEW w \in Worker, CForget(k, w)
        PROVE  TypeOK'
    BY <1>8, VersionZero DEF CForget, EraseWorker, Known
  <1>9. CASE CFreshDone(k)
    BY <1>9, ListTyped DEF CFreshDone
  <1>10. CASE CReturn(k)
    BY <1>10 DEF CReturn
  <1>11. CASE CFrame(k)
    BY <1>11 DEF CFrame, TouchSession
  <1>12. CASE CPeerGone(k)
    BY <1>12 DEF CPeerGone
  <1>13. CASE CEnd(k)
    BY <1>13 DEF CEnd, Cleanup, DestroySession, DropSubscriber
  <1>14. QED
    BY <1>1, <1>2, <1>3, <1>4, <1>5, <1>6, <1>7, <1>8, <1>9, <1>10, <1>11, <1>12, <1>13
    DEF ControllerStep

\* Every step of session_reaper_loop about one session keeps the kinds.
LEMMA ReaperStepTyped ==
  ASSUME TypeOK, NEW k \in CSocket, ReaperStep(k)
  PROVE  TypeOK'
  <1> USE DEF TypeOK, ManagerTypeOK, SessionTypeOK, managerVars, sessionVars, handlerVars,
              workerHandlerVars, peerVars, SockState
  <1>1. CASE Idle(k)
    BY <1>1 DEF Idle, GoIdle
  <1>2. CASE ReapNotify(k)
    BY <1>2 DEF ReapNotify, TakeExpired
  <1>3. CASE ReapClose(k)
    BY <1>3 DEF ReapClose
  <1>4. CASE Reaped(k)
    BY <1>4 DEF Reaped, FinishReaping, DestroySession
  <1>5. QED
    BY <1>1, <1>2, <1>3, <1>4 DEF ReaperStep

\* The tables and the handlers hold values of their kinds in every reachable
\* state, for any number of workers and controllers.
THEOREM TypeCorrect == Spec => []TypeOK
  <1>1. Init => TypeOK
    BY VersionZero
    DEF Init, ManagerInit, SessionInit, TypeOK, ManagerTypeOK, SessionTypeOK, WPhase, CPhase,
        SockState, Status, Known
  <1>2. ASSUME TypeOK, [Next]_vars
        PROVE  TypeOK'
    <2>1. CASE ReapScan
      BY <1>2, <2>1
      DEF ReapScan, ListExpired, TypeOK, ManagerTypeOK, SessionTypeOK, managerVars, handlerVars,
          peerVars
    <2>2. CASE UNCHANGED vars
      BY <1>2, <2>2
      DEF vars, TypeOK, ManagerTypeOK, SessionTypeOK, managerVars, sessionVars, handlerVars, peerVars
    <2>3. QED
      BY <1>2, <2>1, <2>2, WorkerStepTyped, ControllerStepTyped, ReaperStepTyped, CountTaskTyped
      DEF Next
  <1>3. QED
    BY <1>1, <1>2, PTL DEF Spec
-----------------------------------------------------------------------------
(* The registry and the handlers of the worker connections *)

registryVars == <<conns, status, domVersion, lock, oldSocket, wpc, wsock, lastVersion>>

\* A handler that awaits the close of the old socket holds the lock.
HoldersHold == \A c \in WSocket : wpc[c] = "replace" => lock = c

\* ServedWorkerIsListed for a socket that is being closed too: it is
\* listed until the replacement is recorded.
ServingIsListed ==
  \A c \in WSocket :
    wpc[c] \in {"announce", "dispatch", "broadcast"} /\ wsock[c] # "closed"
      => conns[IdOf[c]] = c

\* A connection that is not registered yet has reported no version.
NothingReported ==
  \A c \in WSocket : wpc[c] \in {"off", "register", "replace"} => lastVersion[c] = 0

Registry ==
  /\ NoGhostWorker
  /\ HoldersHold
  /\ ReplacementIsAtomic
  /\ ServingIsListed
  /\ StatusMatchesConnection
  /\ VersionFromListedConnection
  /\ NothingReported

\* The steps that leave the registry alone.
LEMMA RegistryUntouched ==
  ASSUME TypeOK, Registry, UNCHANGED registryVars
  PROVE  Registry'
  BY DEF registryVars, Registry, NoGhostWorker, HoldersHold, ReplacementIsAtomic, ServingIsListed,
         StatusMatchesConnection, VersionFromListedConnection, NothingReported

\* No step of a controller or of the reaper touches the registry, but
\* forget_worker, which deletes only what belongs to an unlisted worker.
LEMMA ControllerStepKeepsRegistry ==
  ASSUME TypeOK, Registry, NEW k \in CSocket, ControllerStep(k)
  PROVE  Registry'
  <1>1. ASSUME NEW w \in Worker, CForget(k, w)
        PROVE  Registry'
    <2>1. /\ conns[w] = NoSocket
          /\ status' = [status EXCEPT ![w] = "unknown"]
          /\ domVersion' = [domVersion EXCEPT ![w] = 0]
          /\ UNCHANGED <<conns, lock, oldSocket, wpc, wsock, lastVersion>>
      BY <1>1 DEF CForget, EraseWorker, workerHandlerVars, peerVars
    <2>2. QED
      BY <2>1 DEF TypeOK, ManagerTypeOK, Registry, NoGhostWorker, HoldersHold, ReplacementIsAtomic,
                  ServingIsListed, StatusMatchesConnection, VersionFromListedConnection,
                  NothingReported
  <1>2. ASSUME \A w \in Worker : ~ CForget(k, w)
        PROVE  UNCHANGED registryVars
    BY <1>2
    DEF ControllerStep, CConnect, CSendOther, CHelloDone, CRegister, CSendFresh, CForgetFrame,
        CForgetRefused, CFreshDone, CReturn, CFrame, CPeerGone, CEnd, Cleanup, Subscribe,
        MoveSubscriber, DropSubscriber, managerVars, workerHandlerVars, peerVars, registryVars
  <1>3. QED
    BY <1>1, <1>2, RegistryUntouched

\* An action that ends with c listed for w in a fresh record: WRegister,
\* where nothing was listed, and WReplaced, where the closed socket was.
LEMMA RecordKeepsRegistry ==
  ASSUME TypeOK, Registry, NEW c \in WSocket, wpc[c] \in {"register", "replace"},
         RecordWorker(IdOf[c], c), wpc' = [wpc EXCEPT ![c] = "announce"],
         lock' = NoSocket, lastVersion' = lastVersion,
         wsock' \in [WSocket -> SockState],
         \A d \in WSocket : conns[IdOf[c]] = d => wsock'[d] = "closed",
         \A d \in WSocket : wsock[d] = "closed" => wsock'[d] = "closed",
         \A d \in WSocket : d # c => wpc[d] # "replace"
  PROVE  Registry'
  <1> USE EndpointsAssumption, RelayAssumption, WorkerManagerAssumption
      DEF TypeOK, ManagerTypeOK, RecordWorker, Registered
  <1>1. NoGhostWorker'
    BY DEF Registry, NoGhostWorker
  <1>2. HoldersHold' /\ ReplacementIsAtomic'
    BY DEF HoldersHold, ReplacementIsAtomic
  <1>3. ServingIsListed'
    BY DEF Registry, ServingIsListed
  <1>4. StatusMatchesConnection'
    BY DEF Registry, StatusMatchesConnection
  <1>5. VersionFromListedConnection'
    BY DEF Registry, NoGhostWorker, VersionFromListedConnection, NothingReported
  <1>6. NothingReported'
    BY DEF Registry, NothingReported
  <1>7. QED
    BY <1>1, <1>2, <1>3, <1>4, <1>5, <1>6 DEF Registry

\* Every stretch of a worker connection's handler keeps the registry, its
\* own connection listed or replaced.
LEMMA WorkerStepKeepsRegistry ==
  ASSUME TypeOK, Registry, NEW c \in WSocket, WorkerStep(c)
  PROVE  Registry'
  <1> USE EndpointsAssumption, RelayAssumption, WorkerManagerAssumption
      DEF TypeOK, ManagerTypeOK, managerVars, peerVars, Broadcasting, Registered
  <1>1. CASE WConnect(c)
    BY <1>1 DEF WConnect, Registry, NoGhostWorker, HoldersHold, ReplacementIsAtomic,
                ServingIsListed, StatusMatchesConnection, VersionFromListedConnection,
                NothingReported
  <1>2. CASE WRegister(c)
    <2>1. lock = NoSocket /\ conns[IdOf[c]] = NoSocket /\ wpc[c] = "register"
      BY <1>2 DEF WRegister, LockFree
    <2>2. \A d \in WSocket : wpc[d] # "replace" /\ conns[IdOf[c]] # d
      BY <2>1 DEF Registry, HoldersHold
    <2>3. /\ RecordWorker(IdOf[c], c)
          /\ wpc' = [wpc EXCEPT ![c] = "announce"]
          /\ UNCHANGED <<lock, wsock, lastVersion>>
      BY <1>2 DEF WRegister
    <2>4. QED
      BY <2>1, <2>2, <2>3, RecordKeepsRegistry
  <1>3. CASE WReplace(c)
    BY <1>3 DEF WReplace, HoldForClose, LockFree, Registry, NoGhostWorker, HoldersHold,
                ReplacementIsAtomic, ServingIsListed, StatusMatchesConnection,
                VersionFromListedConnection, NothingReported
  <1>4. CASE WReplaced(c)
    <2>1. wpc[c] = "replace" /\ lock = c /\ oldSocket \in WSocket /\ conns[IdOf[c]] = oldSocket
      BY <1>4 DEF WReplaced, Registry, HoldersHold, ReplacementIsAtomic
    <2>2. \A d \in WSocket : d # c => wpc[d] # "replace"
      BY <2>1 DEF Registry, HoldersHold
    <2>3. /\ RecordWorker(IdOf[c], c)
          /\ wpc' = [wpc EXCEPT ![c] = "announce"]
          /\ lock' = NoSocket
          /\ lastVersion' = lastVersion
          /\ wsock' = [wsock EXCEPT ![oldSocket] = "closed"]
      BY <1>4 DEF WReplaced
    <2>4. /\ wsock' \in [WSocket -> SockState]
          /\ wsock'[oldSocket] = "closed"
          /\ \A d \in WSocket : wsock[d] = "closed" => wsock'[d] = "closed"
          /\ \A d \in WSocket : conns[IdOf[c]] = d => wsock'[d] = "closed"
      BY <2>1, <2>3 DEF SockState
    <2>5. QED
      BY <2>1, <2>2, <2>3, <2>4, RecordKeepsRegistry
  <1>5. ASSUME NEW s \in Reported \cup {"connected"}, WStatus(c, s)
        PROVE  Registry'
    <2>1. conns[IdOf[c]] = c /\ status[IdOf[c]] # "unknown"
      BY <1>5 DEF WStatus, CanReceive, Registry, ServingIsListed, StatusMatchesConnection
    <2>2. /\ status' = [status EXCEPT ![IdOf[c]] = s]
          /\ domVersion' = [domVersion EXCEPT ![IdOf[c]] =
                              IF s = "connected" THEN 0 ELSE domVersion[IdOf[c]]]
          /\ lastVersion' = [lastVersion EXCEPT ![c] = IF s = "connected" THEN 0 ELSE @]
          /\ wpc[c] = "dispatch"
          /\ wpc' = [wpc EXCEPT ![c] = "broadcast"]
          /\ UNCHANGED <<conns, lock, oldSocket, wsock>>
      BY <1>5, <2>1 DEF WStatus, SetStatus
    <2>3. NoGhostWorker' /\ HoldersHold' /\ ReplacementIsAtomic' /\ ServingIsListed'
      BY <2>2 DEF Registry, NoGhostWorker, HoldersHold, ReplacementIsAtomic, ServingIsListed
    <2>4. StatusMatchesConnection'
      BY <2>1, <2>2 DEF Registry, StatusMatchesConnection
    <2>5. VersionFromListedConnection' /\ NothingReported'
      BY <2>1, <2>2 DEF Registry, NoGhostWorker, VersionFromListedConnection, NothingReported
    <2>6. QED
      BY <2>3, <2>4, <2>5 DEF Registry
  <1>6. ASSUME NEW v \in Version, WVersion(c, v)
        PROVE  Registry'
    <2>1. conns[IdOf[c]] = c /\ status[IdOf[c]] # "unknown"
      BY <1>6 DEF WVersion, CanReceive, Registry, ServingIsListed, StatusMatchesConnection
    <2>2. QED
      BY <1>6, <2>1
      DEF WVersion, SetVersion, Registry, NoGhostWorker, HoldersHold, ReplacementIsAtomic,
          ServingIsListed, StatusMatchesConnection, VersionFromListedConnection, NothingReported
  <1>7. CASE WContent(c)
    BY <1>7 DEF WContent, CanReceive, Registry, NoGhostWorker, HoldersHold, ReplacementIsAtomic,
                ServingIsListed, StatusMatchesConnection, VersionFromListedConnection,
                NothingReported
  <1>8. CASE WSent(c)
    BY <1>8 DEF WSent, Registry, NoGhostWorker, HoldersHold, ReplacementIsAtomic,
                ServingIsListed, StatusMatchesConnection, VersionFromListedConnection,
                NothingReported
  <1>9. CASE WPeerGone(c)
    BY <1>9 DEF WPeerGone, Registry, NoGhostWorker, HoldersHold, ReplacementIsAtomic,
                ServingIsListed, StatusMatchesConnection, VersionFromListedConnection,
                NothingReported
  <1>10. CASE WDisconnect(c)
    BY <1>10 DEF WDisconnect, Registry, NoGhostWorker, HoldersHold, ReplacementIsAtomic,
                 ServingIsListed, StatusMatchesConnection, VersionFromListedConnection,
                 NothingReported
  <1>11. CASE WUnregister(c)
    <2>1. CASE conns[IdOf[c]] = c
      <3>1. /\ wpc[c] = "unregister" /\ lock = NoSocket
            /\ wpc' = [wpc EXCEPT ![c] = "farewell"]
            /\ conns' = [conns EXCEPT ![IdOf[c]] = NoSocket]
            /\ status' = [status EXCEPT ![IdOf[c]] = "disconnected"]
            /\ UNCHANGED <<domVersion, lock, oldSocket, wsock, lastVersion>>
        BY <1>11, <2>1
        DEF WUnregister, RemoveWorker, LockFree, Registry, StatusMatchesConnection
      <3>2. StatusMatchesConnection'
        BY <3>1 DEF Registry, StatusMatchesConnection
      <3>3. QED
        BY <2>1, <3>1, <3>2
        DEF Registry, NoGhostWorker, HoldersHold, ReplacementIsAtomic, ServingIsListed,
            VersionFromListedConnection, NothingReported
    <2>2. CASE conns[IdOf[c]] # c
      BY <1>11, <2>2
      DEF WUnregister, RemoveWorker, LockFree, Registry, NoGhostWorker, HoldersHold,
          ReplacementIsAtomic, ServingIsListed, StatusMatchesConnection,
          VersionFromListedConnection, NothingReported
    <2>3. QED
      BY <2>1, <2>2
  <1>12. QED
    BY <1>1, <1>2, <1>3, <1>4, <1>5, <1>6, <1>7, <1>8, <1>9, <1>10, <1>11 DEF WorkerStep

\* The registry invariant holds in every reachable state: conns, status and
\* domVersion of WorkerManager and the handlers' places fit together.
THEOREM RegistryInvariant == Spec => []Registry
  <1>1. Init => Registry
    BY EndpointsAssumption
    DEF Init, ManagerInit, Registry, NoGhostWorker, HoldersHold, ReplacementIsAtomic,
        ServingIsListed, StatusMatchesConnection, VersionFromListedConnection, NothingReported
  <1>2. ASSUME TypeOK, Registry, [Next]_vars
        PROVE  Registry'
    <2>1. ASSUME NEW k \in CSocket, ReaperStep(k)
          PROVE  Registry'
      BY <1>2, <2>1, RegistryUntouched
      DEF ReaperStep, Idle, ReapNotify, ReapClose, Reaped, managerVars, handlerVars,
          workerHandlerVars, peerVars, registryVars
    <2>2. ASSUME NEW w \in Worker, CountTask(w)
          PROVE  Registry'
      BY <1>2, <2>2, RegistryUntouched DEF CountTask, handlerVars, registryVars
    <2>3. CASE ReapScan
      BY <1>2, <2>3, RegistryUntouched DEF ReapScan, managerVars, handlerVars, peerVars, registryVars
    <2>4. CASE UNCHANGED vars
      BY <1>2, <2>4, RegistryUntouched DEF vars, managerVars, handlerVars, peerVars, registryVars
    <2>5. QED
      BY <1>2, <2>1, <2>2, <2>3, <2>4, WorkerStepKeepsRegistry, ControllerStepKeepsRegistry DEF Next
  <1>3. QED
    BY <1>1, <1>2, TypeCorrect, PTL DEF Spec

\* No reconnect, however it interleaves with the cleanup of the connection
\* it replaces, leaves a listed worker that no handler will remove
\* (register_worker, unregister_worker).
THEOREM NoGhosts == Spec => []NoGhostWorker
  <1>1. Registry => NoGhostWorker
    BY DEF Registry
  <1>2. QED
    BY <1>1, RegistryInvariant, PTL

\* A worker that is being served is listed: no late cleanup takes it out
\* (the identity check of unregister_worker).
THEOREM ServedWorkersListed == Spec => []ServedWorkerIsListed
  <1>1. Registry => ServedWorkerIsListed
    BY DEF Registry, ServingIsListed, ServedWorkerIsListed
  <1>2. QED
    BY <1>1, RegistryInvariant, PTL

\* The replacement of a connection is atomic to everyone else although it
\* awaits (the lock of register_worker).
THEOREM ReplacementsAtomic == Spec => []ReplacementIsAtomic
  <1>1. Registry => ReplacementIsAtomic
    BY DEF Registry
  <1>2. QED
    BY <1>1, RegistryInvariant, PTL

\* Status and connection table agree (register_worker, unregister_worker,
\* update_status, forget_worker).
THEOREM StatusesMatch == Spec => []StatusMatchesConnection
  <1>1. Registry => StatusMatchesConnection
    BY DEF Registry
  <1>2. QED
    BY <1>1, RegistryInvariant, PTL

\* No version reported on a replaced connection is shown for the new one
\* (register_worker makes a new record, update_dom_version).
THEOREM VersionsCurrent == Spec => []VersionFromListedConnection
  <1>1. Registry => VersionFromListedConnection
    BY DEF Registry
  <1>2. QED
    BY <1>1, RegistryInvariant, PTL
-----------------------------------------------------------------------------
(* The subscription tables and the handlers of the controllers *)

tableVars == <<live, viewing, subs, cpc, cskip>>

\* The worker of the query string, which is subscribed to only when the
\* list of the others is out, is recorded in the session already.
GreetedIsRecorded ==
  \A k \in live : cpc[k] = "hello" => cskip[k] \cap Auth[k] \subseteq viewing[k]

Tables ==
  /\ EndedControllerLeavesNoTrace
  /\ WatchedIsRecorded
  /\ GreetedIsRecorded

\* Steps that leave the two subscription tables and the sessions alone.
LEMMA TablesUntouched ==
  ASSUME Tables, UNCHANGED tableVars
  PROVE  Tables'
  BY DEF tableVars, Tables, EndedControllerLeavesNoTrace, WatchedIsRecorded, GreetedIsRecorded

\* A handler that only goes on, to any other place than the end or the
\* greeting, whatever becomes of the subscriptions it is about to report.
LEMMA PlaceMoves ==
  ASSUME TypeOK, Tables, NEW k \in CSocket, NEW place \in Active \ {"hello"},
         cpc[k] \in Active, cpc' = [cpc EXCEPT ![k] = place],
         \A j \in CSocket \ {k} : cskip'[j] = cskip[j],
         UNCHANGED <<live, viewing, subs>>
  PROVE  Tables'
  <1> USE DEF TypeOK, SessionTypeOK
  <1>1. \A j \in CSocket : /\ cpc'[j] \in Active <=> cpc[j] \in Active
                           /\ cpc'[j] = "hello" => j # k /\ cpc[j] = "hello"
    BY DEF Active
  <1>2. EndedControllerLeavesNoTrace'
    BY <1>1 DEF Tables, EndedControllerLeavesNoTrace
  <1>3. WatchedIsRecorded'
    BY DEF Tables, WatchedIsRecorded
  <1>4. GreetedIsRecorded'
    BY <1>1 DEF Tables, GreetedIsRecorded
  <1>5. QED
    BY <1>2, <1>3, <1>4 DEF Tables

\* No handler of a worker connection touches the subscription tables.
LEMMA WorkerStepKeepsTables ==
  ASSUME Tables, NEW c \in WSocket, WorkerStep(c)
  PROVE  Tables'
  <1>1. UNCHANGED tableVars
    BY DEF WorkerStep, WConnect, WRegister, WReplace, WReplaced, WStatus, WVersion, WContent,
           WSent, WPeerGone, WDisconnect, WUnregister, HoldForClose, RecordWorker,
           RemoveWorker, SetStatus, SetVersion, managerVars, sessionVars, controllerHandlerVars,
           tableVars
  <1>2. QED
    BY <1>1, TablesUntouched

\* Every stretch of a controller connection's handler keeps the two
\* subscription tables in agreement.
LEMMA ControllerStepKeepsTables ==
  ASSUME TypeOK, Tables, NEW k \in CSocket, ControllerStep(k)
  PROVE  Tables'
  <1> USE DEF TypeOK, ManagerTypeOK, SessionTypeOK, Active, CPhase, managerVars, sessionVars
  <1>1. ASSUME NEW q \in Worker \cup {NoWorker}, CConnect(k, q)
        PROVE  Tables'
    <2> DEFINE asked == {q} \cap Worker
    <2>1. CASE Subscribe(k, asked)
      <3>1. /\ subs' = [w \in Worker |-> IF w \in asked THEN subs[w] \cup {k} ELSE subs[w]]
            /\ cpc' = [cpc EXCEPT ![k] = "reply"]
            /\ cskip' = [cskip EXCEPT ![k] = {}]
        <4>1. CASE asked = {}
          BY <2>1, <4>1 DEF Subscribe
        <4>2. CASE asked # {}
          BY <2>1, <4>2 DEF Subscribe, MoveSubscriber
        <4>3. QED
          BY <4>1, <4>2
      <3>2. QED
        BY <1>1, <3>1 DEF CConnect, CreateSession, Tables, EndedControllerLeavesNoTrace,
                          WatchedIsRecorded, GreetedIsRecorded
    <2>2. CASE ~ Subscribe(k, asked)
      BY <1>1, <2>2 DEF CConnect, CreateSession, Tables, EndedControllerLeavesNoTrace,
                        WatchedIsRecorded, GreetedIsRecorded
    <2>3. QED
      BY <2>1, <2>2
  <1>2. ASSUME NEW p \in Worker \X Known, CSendOther(k, p)
        PROVE  Tables'
    BY <1>2, TablesUntouched DEF CSendOther, tableVars
  <1>3. CASE CHelloDone(k)
    <2>1. /\ subs' = [w \in Worker |-> IF w \in cskip[k] THEN subs[w] \cup {k} ELSE subs[w]]
          /\ cpc[k] = "hello"
          /\ cpc' = [cpc EXCEPT ![k] = "reply"]
          /\ UNCHANGED <<live, viewing>>
      <3>1. CASE cskip[k] = {}
        BY <1>3, <3>1 DEF CHelloDone, Subscribe
      <3>2. CASE cskip[k] # {}
        BY <1>3, <3>2 DEF CHelloDone, Subscribe, MoveSubscriber
      <3>3. QED
        BY <3>1, <3>2
    <2>2. WatchedIsRecorded'
      BY <2>1 DEF Tables, WatchedIsRecorded, GreetedIsRecorded
    <2>3. EndedControllerLeavesNoTrace' /\ GreetedIsRecorded'
      BY <1>3, <2>1 DEF CHelloDone, Subscribe, Tables, EndedControllerLeavesNoTrace, GreetedIsRecorded
    <2>4. QED
      BY <2>2, <2>3 DEF Tables
  <1>4. ASSUME NEW asked \in SUBSET Worker, CRegister(k, asked)
        PROVE  Tables'
    BY <1>4 DEF CRegister, SetSubscriptions, MoveSubscriber, PreviousSubscriptions, Tables,
                EndedControllerLeavesNoTrace, WatchedIsRecorded, GreetedIsRecorded
  <1>5. ASSUME NEW w \in Worker, CForget(k, w)
        PROVE  Tables'
    BY <1>5 DEF CForget, EraseWorker, Tables, EndedControllerLeavesNoTrace, WatchedIsRecorded,
                GreetedIsRecorded
  <1>6. ASSUME NEW w \in Worker, CSendFresh(k, w) \/ CForgetFrame(k, w) \/ CForgetRefused(k, w)
        PROVE  Tables'
    <2>1. CASE CSendFresh(k, w)
      BY <2>1, TablesUntouched DEF CSendFresh, tableVars
    <2>2. CASE CForgetFrame(k, w)
      BY <2>2 DEF CForgetFrame, TouchSession, Tables, EndedControllerLeavesNoTrace,
                  WatchedIsRecorded, GreetedIsRecorded
    <2>3. CASE CForgetRefused(k, w)
      BY <2>3 DEF CForgetRefused, Tables, EndedControllerLeavesNoTrace, WatchedIsRecorded,
                  GreetedIsRecorded
    <2>4. QED
      BY <1>6, <2>1, <2>2, <2>3
  <1>7. CASE CFreshDone(k) \/ CReturn(k) \/ CFrame(k) \/ CPeerGone(k)
    <2>1. CASE CFreshDone(k)
      BY <2>1, PlaceMoves DEF CFreshDone
    <2>2. CASE CReturn(k)
      BY <2>2, PlaceMoves DEF CReturn
    <2>3. CASE CFrame(k)
      BY <2>3, PlaceMoves DEF CFrame, TouchSession
    <2>4. CASE CPeerGone(k)
      BY <2>4, TablesUntouched DEF CPeerGone, tableVars
    <2>5. QED
      BY <1>7, <2>1, <2>2, <2>3, <2>4
  <1>8. CASE CEnd(k)
    BY <1>8 DEF CEnd, Cleanup, DestroySession, DropSubscriber, Tables,
                EndedControllerLeavesNoTrace, WatchedIsRecorded, GreetedIsRecorded
  <1>9. QED
    BY <1>1, <1>2, <1>3, <1>4, <1>5, <1>6, <1>7, <1>8 DEF ControllerStep

\* The sessions, the recorded subscriptions and the subscriber sets agree in
\* every reachable state, also when the reaper is first.
THEOREM TablesInvariant == Spec => []Tables
  <1>1. Init => Tables
    BY DEF Init, ManagerInit, SessionInit, Tables, EndedControllerLeavesNoTrace,
           WatchedIsRecorded, GreetedIsRecorded, Active
  <1>2. ASSUME TypeOK, Tables, [Next]_vars
        PROVE  Tables'
    <2>1. ASSUME NEW k \in CSocket, Reaped(k)
          PROVE  Tables'
      BY <1>2, <2>1
      DEF Reaped, FinishReaping, DestroySession, TypeOK, SessionTypeOK, managerVars, Tables,
          EndedControllerLeavesNoTrace, WatchedIsRecorded, GreetedIsRecorded
    <2>2. ASSUME NEW k \in CSocket, Idle(k) \/ ReapNotify(k) \/ ReapClose(k)
          PROVE  Tables'
      BY <1>2, <2>2, TablesUntouched
      DEF Idle, GoIdle, ReapNotify, TakeExpired, ReapClose, managerVars, sessionVars, handlerVars,
          tableVars
    <2>3. ASSUME NEW w \in Worker, CountTask(w)
          PROVE  Tables'
      BY <1>2, <2>3, TablesUntouched DEF CountTask, sessionVars, handlerVars, tableVars
    <2>4. CASE ReapScan
      BY <1>2, <2>4, TablesUntouched DEF ReapScan, ListExpired, managerVars, handlerVars, tableVars
    <2>5. CASE UNCHANGED vars
      BY <1>2, <2>5, TablesUntouched DEF vars, managerVars, sessionVars, handlerVars, tableVars
    <2>6. QED
      BY <1>2, <2>1, <2>2, <2>3, <2>4, <2>5, WorkerStepKeepsTables, ControllerStepKeepsTables
      DEF Next, ReaperStep
  <1>3. QED
    BY <1>1, <1>2, TypeCorrect, PTL DEF Spec

\* A controller whose handler has ended is gone from both tables, whether
\* the reaper, a lost peer or forget_worker ended it.
THEOREM EndedControllersGone == Spec => []EndedControllerLeavesNoTrace
  <1>1. Tables => EndedControllerLeavesNoTrace
    BY DEF Tables
  <1>2. QED
    BY <1>1, TablesInvariant, PTL

\* Covered traffic is recorded traffic: the subscriber table never runs
\* ahead of the session of a controller on a worker its token covers.
THEOREM WatchingRecorded == Spec => []WatchedIsRecorded
  <1>1. Tables => WatchedIsRecorded
    BY DEF Tables
  <1>2. QED
    BY <1>1, TablesInvariant, PTL
-----------------------------------------------------------------------------
(* The observer counts *)

countVars == <<conns, subKeys, subs, countTasks, wpc, wsock, observers, told>>

\* A count only goes to a connection that has been registered.
ToldWasRegistered == \A c \in told : wpc[c] \notin {"off", "register", "replace"}

\* A worker without a key has no subscribers; leaving it schedules no task.
KeysCoverSubscribers == \A w \in Worker : subs[w] # {} => w \in subKeys

Counts ==
  /\ ObserverCountFresh
  /\ ToldWasRegistered
  /\ KeysCoverSubscribers

\* Steps that touch neither subscribers, counts nor connections.
LEMMA CountsUntouched ==
  ASSUME Counts, UNCHANGED countVars
  PROVE  Counts'
  BY DEF countVars, Counts, ObserverCountFresh, ToldWasRegistered, KeysCoverSubscribers

\* A change of the subscriber sets keeps the counts right if every set that
\* really changes has its count task scheduled.
LEMMA SubscribersChange ==
  ASSUME TypeOK, Counts,
         \A w \in Worker : subs'[w] # subs[w] => w \in countTasks',
         \A w \in Worker : subs'[w] # {} => w \in subKeys',
         countTasks \subseteq countTasks',
         UNCHANGED <<conns, wpc, wsock, observers, told>>
  PROVE  Counts'
  BY DEF Counts, ObserverCountFresh, ToldWasRegistered, KeysCoverSubscribers, TypeOK, ManagerTypeOK

\* add_subscriber and remove_subscriber schedule a count for each set they
\* change.
LEMMA MovingSchedules ==
  ASSUME TypeOK, Counts, NEW k \in CSocket, NEW leaving \in SUBSET Worker,
         NEW joining \in SUBSET Worker, MoveSubscriber(k, leaving, joining)
  PROVE  /\ \A w \in Worker : subs'[w] # subs[w] => w \in countTasks'
         /\ \A w \in Worker : subs'[w] # {} => w \in subKeys'
         /\ countTasks \subseteq countTasks'
         /\ conns' = conns
  BY DEF MoveSubscriber, Counts, KeysCoverSubscribers, TypeOK, ManagerTypeOK

\* A registration lists a connection that has not been told a count yet.
LEMMA RecordKeepsCounts ==
  ASSUME TypeOK, Counts, NEW c \in WSocket, wpc[c] \in {"register", "replace"},
         RecordWorker(IdOf[c], c), wpc' = [wpc EXCEPT ![c] = "announce"],
         UNCHANGED <<observers, told>>,
         \A d \in WSocket : wsock'[d] = "open" => wsock[d] = "open"
  PROVE  Counts'
  <1> USE RelayAssumption DEF Counts, RecordWorker, TypeOK, ManagerTypeOK
  <1>1. c \notin told
    BY DEF ToldWasRegistered
  <1>2. ObserverCountFresh'
    BY <1>1 DEF ObserverCountFresh
  <1>3. ToldWasRegistered' /\ KeysCoverSubscribers'
    BY DEF ToldWasRegistered, KeysCoverSubscribers
  <1>4. QED
    BY <1>2, <1>3

\* Every stretch of a worker connection's handler keeps the counts.
LEMMA WorkerStepKeepsCounts ==
  ASSUME TypeOK, Registry, Counts, NEW c \in WSocket, WorkerStep(c)
  PROVE  Counts'
  <1> USE EndpointsAssumption, RelayAssumption
      DEF TypeOK, ManagerTypeOK, managerVars, peerVars, Broadcasting
  <1>1. CASE WRegister(c)
    BY <1>1, RecordKeepsCounts DEF WRegister
  <1>2. CASE WReplaced(c)
    BY <1>2, RecordKeepsCounts DEF WReplaced
  <1>3. CASE WReplace(c)
    BY <1>3 DEF WReplace, HoldForClose, Counts, ObserverCountFresh, ToldWasRegistered,
                KeysCoverSubscribers, Registry, NoGhostWorker, Registered
  <1>4. CASE WUnregister(c)
    <2>1. /\ wpc' = [wpc EXCEPT ![c] = "farewell"]
          /\ \A w \in Worker : conns'[w] \in {conns[w], NoSocket}
          /\ UNCHANGED <<subKeys, subs, countTasks, wsock, observers, told>>
      BY <1>4 DEF WUnregister, RemoveWorker
    <2>2. QED
      BY <2>1 DEF Counts, ObserverCountFresh, ToldWasRegistered, KeysCoverSubscribers
  <1>5. ASSUME NEW s \in Reported \cup {"connected"}, WStatus(c, s)
        PROVE  Counts'
    BY <1>5 DEF WStatus, SetStatus, Counts, ObserverCountFresh, ToldWasRegistered,
                KeysCoverSubscribers
  <1>6. ASSUME NEW v \in Version, WVersion(c, v)
        PROVE  Counts'
    BY <1>6 DEF WVersion, SetVersion, Counts, ObserverCountFresh, ToldWasRegistered,
                KeysCoverSubscribers
  <1>7. CASE WConnect(c)
    BY <1>7 DEF WConnect, Counts, ObserverCountFresh, ToldWasRegistered, KeysCoverSubscribers
  <1>8. CASE WContent(c) \/ WDisconnect(c)
    BY <1>8 DEF WContent, WDisconnect, Counts, ObserverCountFresh, ToldWasRegistered,
                KeysCoverSubscribers
  <1>9. CASE WSent(c)
    BY <1>9 DEF WSent, Counts, ObserverCountFresh, ToldWasRegistered, KeysCoverSubscribers
  <1>10. CASE WPeerGone(c)
    BY <1>10 DEF WPeerGone, Counts, ObserverCountFresh, ToldWasRegistered, KeysCoverSubscribers
  <1>11. QED
    BY <1>1, <1>2, <1>3, <1>4, <1>5, <1>6, <1>7, <1>8, <1>9, <1>10 DEF WorkerStep

\* Every stretch of a controller connection's handler keeps the counts, or
\* schedules the task that corrects them.
LEMMA ControllerStepKeepsCounts ==
  ASSUME TypeOK, Counts, NEW k \in CSocket, ControllerStep(k)
  PROVE  Counts'
  <1> USE DEF managerVars, workerHandlerVars, peerVars
  <1>0. ASSUME NEW asked \in SUBSET Worker, Subscribe(k, asked),
               UNCHANGED <<wpc, wsock, observers, told>>
        PROVE  Counts'
    <2>1. CASE asked = {}
      BY <1>0, <2>1, CountsUntouched DEF Subscribe, countVars
    <2>2. CASE asked # {}
      <3>1. MoveSubscriber(k, {}, asked)
        BY <1>0, <2>2 DEF Subscribe
      <3>2. QED
        BY <1>0, <3>1, MovingSchedules, SubscribersChange
    <2>3. QED
      BY <2>1, <2>2
  <1>1. CASE CHelloDone(k)
    <2>1. Subscribe(k, cskip[k]) /\ cskip[k] \in SUBSET Worker
      BY <1>1 DEF CHelloDone, TypeOK
    <2>2. UNCHANGED <<wpc, wsock, observers, told>>
      BY <1>1 DEF CHelloDone
    <2>3. QED
      BY <1>0, <2>1, <2>2
  <1>2. ASSUME NEW asked \in SUBSET Worker, CRegister(k, asked)
        PROVE  Counts'
    <2> DEFINE old == PreviousSubscriptions(k)
    <2>1. old \in SUBSET Worker
      BY DEF PreviousSubscriptions, TypeOK, SessionTypeOK
    <2>2. MoveSubscriber(k, old \ asked, asked \ old) /\ UNCHANGED <<wpc, wsock, observers, told>>
      BY <1>2 DEF CRegister
    <2>3. QED
      BY <2>1, <2>2, MovingSchedules, SubscribersChange
  <1>3. CASE CEnd(k)
    <2>1. DropSubscriber(k) /\ UNCHANGED <<wpc, wsock, observers, told>>
      BY <1>3 DEF CEnd, Cleanup
    <2>2. QED
      BY <2>1, SubscribersChange
      DEF DropSubscriber, Counts, KeysCoverSubscribers, TypeOK, ManagerTypeOK
  <1>4. ASSUME NEW w \in Worker, CForget(k, w)
        PROVE  Counts'
    BY <1>4 DEF CForget, EraseWorker, Counts, ObserverCountFresh, ToldWasRegistered,
                KeysCoverSubscribers, TypeOK, ManagerTypeOK
  <1>5. ASSUME NEW q \in Worker \cup {NoWorker}, CConnect(k, q)
        PROVE  Counts'
    <2> DEFINE asked == {q} \cap Worker
    <2>1. UNCHANGED <<wpc, wsock, observers, told>>
      BY <1>5 DEF CConnect
    <2>2. CASE Subscribe(k, asked)
      BY <1>0, <2>1, <2>2
    <2>3. CASE ~ Subscribe(k, asked)
      BY <1>5, <2>1, <2>3, CountsUntouched DEF CConnect, countVars
    <2>4. QED
      BY <2>2, <2>3
  <1>6. ASSUME ~ CHelloDone(k), \A q \in Worker \cup {NoWorker} : ~ CConnect(k, q), \A asked \in SUBSET Worker : ~ CRegister(k, asked), ~ CEnd(k),
               \A w \in Worker : ~ CForget(k, w)
        PROVE  UNCHANGED countVars
    BY <1>6 DEF ControllerStep, CSendOther, CSendFresh, CForgetFrame, CForgetRefused,
                CFreshDone, CReturn, CFrame, CPeerGone, countVars
  <1>7. QED
    BY <1>1, <1>2, <1>3, <1>4, <1>5, <1>6, CountsUntouched

\* In every reachable state a told count is right or its correction is
\* scheduled.
THEOREM CountsInvariant == Spec => []Counts
  <1>1. Init => Counts
    BY DEF Init, ManagerInit, Counts, ObserverCountFresh, ToldWasRegistered, KeysCoverSubscribers
  <1>2. ASSUME TypeOK, Registry, Counts, [Next]_vars
        PROVE  Counts'
    <2>1. ASSUME NEW w \in Worker, CountTask(w)
          PROVE  Counts'
      <3>1. conns[w] # NoSocket => wpc[conns[w]] \in Registered
        BY <1>2 DEF Registry, NoGhostWorker
      <3>2. /\ countTasks' = countTasks \ {w}
            /\ UNCHANGED <<conns, subKeys, subs, wpc, wsock>>
        BY <2>1 DEF CountTask, handlerVars
      <3>3. CASE conns[w] # NoSocket /\ wsock[conns[w]] = "open"
        <4>1. /\ observers' = [observers EXCEPT ![w] = Cardinality(subs[w])]
              /\ told' = told \cup {conns[w]}
          BY <2>1, <3>3 DEF CountTask
        <4>2. ObserverCountFresh'
          <5>1. ASSUME NEW x \in Worker, x # w, conns[x] # NoSocket, conns[x] \in told'
                PROVE  conns[x] \in told
            BY <1>2, <3>3, <4>1, <5>1 DEF Registry, NoGhostWorker
          <5>2. observers'[w] = Cardinality(subs[w]) /\ \A x \in Worker : x # w => observers'[x] = observers[x]
            BY <1>2, <4>1 DEF TypeOK
          <5>3. QED
            BY <1>2, <3>2, <5>1, <5>2 DEF Counts, ObserverCountFresh
        <4>3. ToldWasRegistered' /\ KeysCoverSubscribers'
          BY <1>2, <3>1, <3>2, <3>3, <4>1
          DEF Counts, ToldWasRegistered, KeysCoverSubscribers, Registered
        <4>4. QED
          BY <4>2, <4>3 DEF Counts
      <3>4. CASE ~ (conns[w] # NoSocket /\ wsock[conns[w]] = "open")
        <4>1. UNCHANGED <<observers, told>>
          BY <2>1, <3>4 DEF CountTask
        <4>2. QED
          BY <1>2, <3>2, <3>4, <4>1
          DEF Counts, ObserverCountFresh, ToldWasRegistered, KeysCoverSubscribers
      <3>5. QED
        BY <3>3, <3>4
    <2>2. ASSUME NEW k \in CSocket, ReaperStep(k)
          PROVE  Counts'
      BY <1>2, <2>2, CountsUntouched
      DEF ReaperStep, Idle, ReapNotify, ReapClose, Reaped, managerVars, handlerVars,
          workerHandlerVars, peerVars, countVars
    <2>3. CASE ReapScan
      BY <1>2, <2>3, CountsUntouched DEF ReapScan, managerVars, handlerVars, peerVars, countVars
    <2>4. CASE UNCHANGED vars
      BY <1>2, <2>4, CountsUntouched DEF vars, managerVars, handlerVars, peerVars, countVars
    <2>5. QED
      BY <1>2, <2>1, <2>2, <2>3, <2>4, WorkerStepKeepsCounts, ControllerStepKeepsCounts DEF Next
  <1>3. QED
    BY <1>1, <1>2, TypeCorrect, RegistryInvariant, PTL DEF Spec

\* A told count is the right one once no task is pending: no path that adds
\* or removes a subscriber forgets to schedule one, and no connection that
\* was replaced keeps the count of its successor from being told.
THEOREM CountsFresh == Spec => []ObserverCountFresh
  <1>1. Counts => ObserverCountFresh
    BY DEF Counts
  <1>2. QED
    BY <1>1, CountsInvariant, PTL
=============================================================================
