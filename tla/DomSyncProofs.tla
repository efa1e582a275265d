--------------------------- MODULE DomSyncProofs ---------------------------
(***************************************************************************)
(* Proofs about DomSync, for any number of navigations, changes of the     *)
(* page and events: its type invariant with the mutual exclusion of        *)
(* _selenium_lock, that the versions keep differences off pages they do    *)
(* not fit, that the page is read again after the poll loop has discarded  *)
(* changes, that the mirror shows the page of the browser once nothing is  *)
(* under way, that garbage is replaced and that a stale mirror is helped.  *)
(***************************************************************************)
EXTENDS DomSync, SequenceTheorems, TLAPS

USE DEF lockVars

(* The browser *)

BrowserOK ==
  /\ page \in Nat /\ url \in 0..page
  /\ observed \in BOOLEAN /\ recorded \in BOOLEAN /\ missed \in BOOLEAN
  /\ recorded => observed

\* The page is only ever replaced by a later one, and an observer that is not
\* installed has recorded nothing.
LEMMA BrowserStep ==
  ASSUME BrowserOK, [Next]_vars
  PROVE  BrowserOK' /\ page <= page'
<1> DEFINE Goal == BrowserOK' /\ page <= page'
<1>1. CASE UNCHANGED browserVars
  BY <1>1 DEF browserVars, BrowserOK
<1>2. CASE Mutation
  BY <1>2 DEF Mutation, BrowserOK
<1>3. CASE NewDocument
  <2>1. page' \in Nat /\ url' \in 0..page' /\ page <= page'
    BY <1>3 DEF NewDocument, BrowserOK
  <2> QED BY <1>3, <2>1 DEF NewDocument, BrowserOK
<1>4. ASSUME NEW read, Inject(read), UNCHANGED <<page, url>>
      PROVE  Goal
  BY <1>4 DEF Inject, BrowserOK
<1>5. ASSUME NEW kept \in BOOLEAN, Drain(kept), UNCHANGED <<page, url>>
      PROVE  Goal
  <2>1. missed' \in BOOLEAN
    BY <1>5, Zenon DEF Drain, BrowserOK
  <2>2. \/ observed' = TRUE /\ recorded' = FALSE
        \/ observed' = observed /\ recorded' = recorded
    BY <1>5 DEF Drain
  <2>4. observed' \in BOOLEAN /\ recorded' \in BOOLEAN /\ (recorded' => observed')
    <3>1. observed \in BOOLEAN /\ recorded \in BOOLEAN /\ (recorded => observed)
      BY DEF BrowserOK
    <3>2. CASE observed' = TRUE /\ recorded' = FALSE
      BY <3>2
    <3>3. CASE observed' = observed /\ recorded' = recorded
      BY <3>1, <3>3, Zenon
    <3> QED BY <2>2, <3>2, <3>3
  <2>3. page' \in Nat /\ url' \in 0..page' /\ page <= page'
    BY <1>5 DEF BrowserOK
  <2> QED BY <2>1, <2>3, <2>4 DEF BrowserOK
<1>6. ASSUME UNCHANGED <<page, url, observed, recorded>>, missed' \in BOOLEAN
      PROVE  Goal
  BY <1>6 DEF BrowserOK
<1>7. ASSUME NEW p, SnapshotStep(p)
      PROVE  Goal
  <2>1. CASE SnapshotRead(p)
    BY <1>6, <2>1 DEF SnapshotRead
  <2>2. CASE SnapshotInject(p)
    BY <1>4, <2>2 DEF SnapshotInject
  <2>3. CASE SnapshotSend(p)
    BY <1>6, <2>3 DEF SnapshotSend, BrowserOK
  <2> QED BY <1>7, <2>1, <2>2, <2>3 DEF SnapshotStep
<1>8. ASSUME ReaderStep
      PROVE  Goal
  <2>1. CASE Greeted
    BY <1>5, <2>1 DEF Greeted
  <2>2. CASE Restart
    BY <1>3, <2>2 DEF Restart
  <2>3. CASE TakeAsk \/ ResetVersion \/ Disconnect
    BY <1>1, <2>3 DEF TakeAsk, ResetVersion, Disconnect
  <2> QED BY <1>7, <1>8, <2>1, <2>2, <2>3 DEF ReaderStep
<1>9. ASSUME PollStep
      PROVE  Goal
  <2>1. CASE PollDiscard
    BY <1>5, <2>1 DEF PollDiscard
  <2>2. CASE PollDrain
    BY <1>5, <2>2 DEF PollDrain
  <2>3. CASE PollSend
    BY <1>6, <2>3 DEF PollSend, BrowserOK
  <2>4. CASE PollWake \/ PollCheck \/ PollLook \/ PollAddress \/ PollRead \/ PollCompareUrl
    BY <1>1, <2>4 DEF PollWake, PollCheck, PollLook, PollAddress, PollRead, PollCompareUrl
  <2> QED BY <1>7, <1>9, <2>1, <2>2, <2>3, <2>4 DEF PollStep
<1>10. ASSUME NEW t \in Task, TaskStart(t) \/ TaskStep(t)
       PROVE  Goal
  <2>1. CASE TaskRun(t)
    BY <1>1, <1>3, <2>1 DEF TaskRun
  <2>2. CASE TaskInject(t)
    BY <1>4, <2>2 DEF TaskInject
  <2>3. CASE TaskStart(t) \/ TaskRead(t) \/ TaskRecord(t)
    BY <1>1, <2>3 DEF TaskStart, TaskRead, TaskRecord
  <2> QED BY <1>7, <1>10, <2>1, <2>2, <2>3 DEF TaskStep
<1>11. CASE Load
  BY <1>3, <1>11 DEF Load
<1>12. CASE Connect \/ TakeRestart \/ Drop \/ Notice \/ UserAsk
  BY <1>1, <1>12 DEF Connect, TakeRestart, Drop, Notice, UserAsk
<1>13. CASE MirrorStep
  BY <1>1, <1>13 DEF MirrorStep, TakeUpdate, TakeSnapshot, TakeDisconnected, Takes
<1>14. CASE Leave \/ \E newLink \in BOOLEAN : ComeBack(newLink)
  BY <1>1, <1>14 DEF Leave, ComeBack
<1>15. CASE UNCHANGED vars
  BY <1>1, <1>15 DEF vars
<1> QED BY <1>2, <1>8, <1>9, <1>10, <1>11, <1>12, <1>13, <1>14, <1>15 DEF Next
-----------------------------------------------------------------------------
(* The coroutines and _selenium_lock *)

Reading == {"looked", "drained", "addressed", "inject", "snapshot inject"}
Read(n) == [html : 0..n, url : 0..n, drained : BOOLEAN, known : BOOLEAN]

LockOK ==
  /\ lock \in Process \cup {NoOne}
  /\ at \in [Process -> Place]
  /\ \A p \in Process : lock = p <=> at[p] \in Reading
  /\ ahead \subseteq Waiting
LocalOK == local \in [Process -> Read(page)]

\* A coroutine p goes to place, with what it has read, or as it was.  It waits
\* no longer for the turn it had.
Move(p, place, what) ==
  /\ at' = [at EXCEPT ![p] = place]
  /\ local' \in {local, [local EXCEPT ![p] = what]}
  /\ ahead' \subseteq Waiting \ {p}
  /\ \/ UNCHANGED lock /\ (at[p] \in Reading <=> place \in Reading)
     \/ Acquire(p) /\ place \in Reading
     \/ Release(p) /\ place \notin Reading

\* Who moves as the lock asks keeps the others out.
LEMMA MoveOK ==
  ASSUME LockOK, LocalOK, page \in Nat, page' \in Nat, page <= page',
         NEW p \in Process, NEW place \in Place, NEW what \in Read(page),
         Move(p, place, what)
  PROVE  LockOK' /\ LocalOK'
<1>1. NoOne \notin Process
  BY DomSyncAssumption DEF Process
<1>2. at' \in [Process -> Place]
  BY DEF Move, LockOK
<1>3. at'[p] = place /\ \A q \in Process \ {p} : at'[q] = at[q]
  BY DEF Move, LockOK
<1>4. lock' \in Process \cup {NoOne}
  BY DEF Move, LockOK, Acquire, Release
<1>5. ASSUME NEW q \in Process
      PROVE  lock' = q <=> at'[q] \in Reading
  <2>1. (lock = q <=> at[q] \in Reading) /\ (lock = p <=> at[p] \in Reading)
    BY DEF LockOK
  <2>2. q # NoOne
    BY <1>1
  <2>3. CASE q = p
    BY <1>1, <1>3, <2>1, <2>2, <2>3 DEF Move, Acquire, Release, Turn
  <2>4. CASE q # p
    <3>1. at'[q] = at[q]
      BY <1>3, <2>4
    <3> QED BY <2>1, <2>2, <2>4, <3>1 DEF Move, Acquire, Release, Turn
  <2> QED BY <2>3, <2>4
<1>6. ahead' \subseteq Waiting'
  BY <1>3 DEF Move, Waiting
<1>7. LockOK'
  BY <1>2, <1>4, <1>5, <1>6 DEF LockOK
<1>8. Read(page) \subseteq Read(page')
  BY DEF Read
<1>9. local' \in [Process -> Read(page)]
  BY DEF Move, LocalOK
<1>10. LocalOK'
  BY <1>8, <1>9 DEF LocalOK
<1> QED BY <1>7, <1>10

\* Every step is a move of one coroutine, or moves none.
LEMMA Moves ==
  ASSUME BrowserOK, LockOK, LocalOK, [Next]_vars
  PROVE  \/ UNCHANGED <<lockVars, at, local>>
         \/ \E p \in Process, place \in Place, what \in Read(page) : Move(p, place, what)
<1> DEFINE Goal == \/ UNCHANGED <<lockVars, at, local>>
                   \/ \E p \in Process, place \in Place, what \in Read(page) : Move(p, place, what)
<1>1. Nothing \in Read(page)
  BY DEF Nothing, Seen, Read, BrowserOK
<1>2. Seen(page, 0, FALSE, FALSE) \in Read(page)
  BY DEF Nothing, Seen, Read, BrowserOK
<1>3. {"reader", "poll"} \subseteq Process /\ Task \subseteq Process
  BY DEF Process
<1>13. \A h \in 0..page, u \in 0..page, d \in BOOLEAN, k \in BOOLEAN : Seen(h, u, d, k) \in Read(page)
  BY DEF Seen, Read
<1>14. 0 \in 0..page /\ page \in 0..page /\ url \in 0..page
  BY DEF BrowserOK
<1>15. /\ local["poll"].url \in 0..page
       /\ local["poll"].drained \in BOOLEAN /\ local["poll"].known \in BOOLEAN
  BY <1>3 DEF LocalOK, Read
<1>16. recorded \in BOOLEAN /\ observed \in BOOLEAN
  BY DEF BrowserOK
<1> USE DEF Reading, LockOK, Waiting, Acquire, Release, Turn
<1>4. ASSUME NEW p \in Process, SnapshotStep(p)
      PROVE  Goal
  <2>1. CASE SnapshotRead(p)
    <3>1. Move(p, "snapshot inject", Seen(page, 0, FALSE, FALSE))
      BY <2>1 DEF SnapshotRead, Move, Reads
    <3> QED BY <1>2, <3>1 DEF Place
  <2>2. CASE SnapshotInject(p)
    <3>1. Seen(local[p].html, url, FALSE, FALSE) \in Read(page)
      BY DEF LocalOK, Seen, Read, BrowserOK
    <3>2. Move(p, "snapshot send", Seen(local[p].html, url, FALSE, FALSE))
      BY <2>2 DEF SnapshotInject, Move, Reads
    <3> QED BY <3>1, <3>2 DEF Place
  <2>3. CASE SnapshotSend(p)
    <3> DEFINE place == CASE p = "poll" -> "idle"
                          [] p \in Task -> "ended"
                          [] p = "reader" -> IF greeting /\ linked THEN "drain" ELSE "read"
    <3>1. place \in {"idle", "ended", "drain", "read"}
      <4>1. CASE p = "poll"
        BY <4>1, DomSyncAssumption
      <4>2. CASE p \in Task
        BY <4>2, DomSyncAssumption
      <4>3. CASE p = "reader"
        BY <4>3, DomSyncAssumption
      <4> QED BY <4>1, <4>2, <4>3 DEF Process
    <3>2. Ends(p, place) /\ at[p] = "snapshot send" /\ UNCHANGED lockVars
      BY <2>3 DEF SnapshotSend
    <3> HIDE DEF place
    <3>3. Move(p, place, Nothing)
      BY <3>1, <3>2 DEF Move, Ends, Reads
    <3> QED BY <1>1, <3>1, <3>3 DEF Place
  <2> QED BY <1>4, <2>1, <2>2, <2>3 DEF SnapshotStep
<1>5. ASSUME ReaderStep
      PROVE  Goal
  <2>1. CASE Greeted \/ Disconnect
    <3>1. Move("reader", "read", Nothing) \/ Move("reader", "off", Nothing)
      BY <2>1 DEF Greeted, Disconnect, Move, Goes
    <3> QED BY <1>1, <1>3, <3>1 DEF Place
  <2>2. CASE TakeAsk \/ Restart \/ ResetVersion
    <3>1. Move("reader", "snapshot", Nothing) \/ Move("reader", "reset", Nothing)
      BY <2>2 DEF TakeAsk, Restart, ResetVersion, Move, Goes, lastVars
    <3> QED BY <1>1, <1>3, <3>1 DEF Place
  <2> QED BY <1>3, <1>4, <1>5, <2>1, <2>2 DEF ReaderStep
<1>6. ASSUME PollStep
      PROVE  Goal
  <2>1. CASE PollWake \/ PollDiscard
    <3>1. Move("poll", "awake", Nothing) \/ Move("poll", "idle", Nothing)
      BY <2>1 DEF PollWake, PollDiscard, Move, Goes
    <3> QED BY <1>1, <1>3, <3>1 DEF Place
  <2>6. CASE PollCheck
    <3>1. Move("poll", "discard", Nothing) \/ Move("poll", "watch", Nothing)
      BY <2>6 DEF PollCheck, Move, Goes
    <3> QED BY <1>1, <1>3, <3>1 DEF Place
  <2>7. CASE PollLook
    <3> DEFINE what == Seen(0, 0, FALSE, observed)
    <3>1. what \in Read(page)
      BY <1>13, <1>14, <1>16, Zenon
    <3>2. Move("poll", "looked", what)
      BY <2>7 DEF PollLook, Move, Reads
    <3> QED BY <1>3, <3>1, <3>2 DEF Place
  <2>2. CASE PollDrain
    <3> DEFINE what == Seen(0, 0, recorded, local["poll"].known)
    <3>1. what \in Read(page)
      BY <1>13, <1>14, <1>15, <1>16, Zenon
    <3>2. at["poll"] = "looked" /\ Reads("poll", "drained", what) /\ UNCHANGED ahead /\ UNCHANGED lock
      BY <2>2 DEF PollDrain
    <3>3. Move("poll", "drained", what)
      BY <1>3, <3>2 DEF Move, Reads
    <3> QED BY <1>3, <3>1, <3>3 DEF Place
  <2>8. CASE PollAddress
    <3> DEFINE what == Seen(0, url, local["poll"].drained, local["poll"].known)
    <3>1. what \in Read(page)
      BY <1>13, <1>14, <1>15, Zenon
    <3>2. Move("poll", "idle", Nothing) \/ Move("poll", "addressed", what)
      BY <1>3, <2>8 DEF PollAddress, Move, Ends, Reads
    <3> QED BY <1>1, <1>3, <3>1, <3>2 DEF Place
  <2>3. CASE PollRead
    <3> DEFINE what == Seen(page, local["poll"].url, local["poll"].drained, local["poll"].known)
    <3>1. what \in Read(page)
      BY <1>13, <1>14, <1>15, Zenon
    <3>2. Move("poll", "compare url", what)
      BY <2>3 DEF PollRead, Move, Reads
    <3> QED BY <1>3, <3>1, <3>2 DEF Place
  <2>4. CASE PollCompareUrl
    <3>1. \/ Move("poll", "snapshot", Nothing) \/ Move("poll", "compare", Nothing)
          \/ Move("poll", "idle", Nothing)
      BY <2>4 DEF PollCompareUrl, Move, Ends, Goes, Reads
    <3> QED BY <1>1, <1>3, <3>1 DEF Place
  <2>5. CASE PollSend
    <3>1. Move("poll", "idle", Nothing)
      BY <2>5 DEF PollSend, Move, Ends, Reads
    <3> QED BY <1>1, <1>3, <3>1 DEF Place
  <2> QED BY <1>3, <1>4, <1>6, <2>1, <2>2, <2>3, <2>4, <2>5, <2>6, <2>7, <2>8 DEF PollStep
<1>7. ASSUME NEW t \in Task, TaskStart(t) \/ TaskStep(t)
      PROVE  Goal
  <2>1. CASE TaskStart(t)
    <3>1. Move(t, "queued", Nothing)
      BY <2>1 DEF TaskStart, Move, Goes
    <3> QED BY <1>1, <1>3, <3>1 DEF Place
  <2>2. CASE TaskRun(t)
    <3>1. Move(t, "page", Nothing) \/ Move(t, "ended", Nothing)
      BY <2>2 DEF TaskRun, Move, Goes
    <3> QED BY <1>1, <1>3, <3>1 DEF Place
  <2>3. CASE TaskRead(t)
    <3>1. Move(t, "inject", Seen(page, 0, FALSE, FALSE))
      BY <2>3 DEF TaskRead, Move, Reads
    <3> QED BY <1>2, <1>3, <3>1 DEF Place
  <2>4. CASE TaskInject(t)
    <3>1. Move(t, "record", Nothing)
      BY <2>4 DEF TaskInject, Move, Goes
    <3> QED BY <1>1, <1>3, <3>1 DEF Place
  <2>5. CASE TaskRecord(t)
    <3>1. Move(t, "snapshot", Nothing)
      BY <2>5 DEF TaskRecord, Ends, Move, Reads
    <3> QED BY <1>1, <1>3, <3>1 DEF Place
  <2> QED BY <1>3, <1>4, <1>7, <2>1, <2>2, <2>3, <2>4, <2>5 DEF TaskStep
<1>8. CASE Connect \/ TakeRestart
  <2>1. Move("reader", "snapshot", Nothing) \/ Move("reader", "restart", Nothing)
    BY <1>8 DEF Connect, TakeRestart, Move, Goes
  <2> QED BY <1>1, <1>3, <2>1 DEF Place
<1>9. CASE Mutation \/ Load \/ Drop \/ Notice \/ UserAsk
  BY <1>9 DEF Mutation, Load, Drop, Notice, UserAsk, workerVars, coroutineVars
<1>10. CASE MirrorStep
  BY <1>10 DEF MirrorStep, TakeUpdate, TakeSnapshot, TakeDisconnected, Takes, workerVars, coroutineVars
<1>11. CASE Leave \/ \E newLink \in BOOLEAN : ComeBack(newLink)
  BY <1>11 DEF Leave, ComeBack, workerVars, coroutineVars
<1>12. CASE UNCHANGED vars
  BY <1>12 DEF vars, workerVars, coroutineVars
<1> QED BY <1>5, <1>6, <1>7, <1>8, <1>9, <1>10, <1>11, <1>12 DEF Next

\* Of a coroutine that holds the lock no other takes it.
LEMMA LockStep ==
  ASSUME BrowserOK, LockOK, LocalOK, [Next]_vars
  PROVE  LockOK' /\ LocalOK'
<1>1. page \in Nat /\ page' \in Nat /\ page <= page'
  BY BrowserStep DEF BrowserOK
<1>2. CASE UNCHANGED <<lockVars, at, local>>
  <2>1. Read(page) \subseteq Read(page')
    BY <1>1 DEF Read
  <2>2. LocalOK'
    BY <1>2, <2>1 DEF LocalOK
  <2> QED BY <1>2, <2>2 DEF LockOK, Waiting
<1> QED BY <1>1, <1>2, Moves, MoveOK
-----------------------------------------------------------------------------
(* What the worker remembers and the links carry *)

LastOK == ver \in Nat /\ lastHtml \in 0..page /\ lastUrl \in 0..page

\* What is recorded as last sent was read before.
LEMMA LastStep ==
  ASSUME BrowserOK, LocalOK, LastOK, [Next]_vars
  PROVE  LastOK'
<1>1. page \in Nat /\ page' \in Nat /\ page <= page'
  BY BrowserStep DEF BrowserOK
<1>2. \A p \in Process : local[p].html \in 0..page /\ local[p].url \in 0..page
  BY DEF LocalOK, Read
<1>3. {"reader", "poll"} \subseteq Process /\ Task \subseteq Process
  BY DEF Process
<1>4. SUFFICES ver' \in Nat /\ lastHtml' \in 0..page /\ lastUrl' \in 0..page
  BY <1>1 DEF LastOK
<1> DEFINE Goal == ver' \in Nat /\ lastHtml' \in 0..page /\ lastUrl' \in 0..page
<1>5. CASE UNCHANGED lastVars
  BY <1>5 DEF lastVars, LastOK
<1>6. ASSUME NEW p \in Process, SnapshotStep(p)
      PROVE  Goal
  <2>1. CASE SnapshotRead(p) \/ SnapshotInject(p)
    BY <1>5, <2>1 DEF SnapshotRead, SnapshotInject
  <2>2. CASE SnapshotSend(p)
    <3>1. lastHtml' \in {lastHtml, local[p].html} /\ lastUrl' \in {lastUrl, local[p].url} /\ ver' = ver
      BY <2>2 DEF SnapshotSend
    <3> QED BY <1>2, <3>1 DEF LastOK
  <2> QED BY <1>6, <2>1, <2>2 DEF SnapshotStep
<1>7. CASE ReaderStep
  <2>1. CASE ResetVersion
    BY <2>1 DEF ResetVersion, LastOK
  <2>2. CASE Greeted \/ TakeAsk \/ Restart \/ Disconnect
    BY <1>5, <2>2 DEF Greeted, TakeAsk, Restart, Disconnect
  <2> QED BY <1>3, <1>6, <1>7, <2>1, <2>2 DEF ReaderStep
<1>8. CASE PollStep
  <2>1. CASE PollCompareUrl
    BY <1>2, <1>3, <2>1 DEF PollCompareUrl, LastOK
  <2>2. CASE PollSend
    <3>1. lastHtml' \in {lastHtml, local["poll"].html} /\ ver' \in {ver, ver + 1} /\ lastUrl' = lastUrl
      BY <2>2 DEF PollSend
    <3> QED BY <1>2, <1>3, <3>1 DEF LastOK
  <2>3. CASE PollWake \/ PollCheck \/ PollDiscard \/ PollLook \/ PollDrain \/ PollAddress \/ PollRead
    BY <1>5, <2>3 DEF PollWake, PollCheck, PollDiscard, PollLook, PollDrain, PollAddress, PollRead
  <2> QED BY <1>3, <1>6, <1>8, <2>1, <2>2, <2>3 DEF PollStep
<1>9. ASSUME NEW t \in Task, TaskStart(t) \/ TaskStep(t)
      PROVE  Goal
  <2>1. CASE TaskRecord(t)
    BY <1>2, <1>3, <2>1 DEF TaskRecord, LastOK
  <2>2. CASE TaskStart(t) \/ TaskRun(t) \/ TaskRead(t) \/ TaskInject(t)
    BY <1>5, <2>2 DEF TaskStart, TaskRun, TaskRead, TaskInject
  <2> QED BY <1>3, <1>6, <1>9, <2>1, <2>2 DEF TaskStep
<1>10. CASE Connect \/ TakeRestart
  BY <1>5, <1>10 DEF Connect, TakeRestart
<1>11. CASE Mutation \/ Load \/ Drop \/ Notice \/ UserAsk
  BY <1>5, <1>11 DEF Mutation, Load, Drop, Notice, UserAsk, workerVars
<1>12. CASE MirrorStep
  BY <1>5, <1>12 DEF MirrorStep, TakeUpdate, TakeSnapshot, TakeDisconnected, Takes, workerVars
<1>13. CASE Leave \/ \E newLink \in BOOLEAN : ComeBack(newLink)
  BY <1>5, <1>13 DEF Leave, ComeBack, workerVars
<1>14. CASE UNCHANGED vars
  BY <1>5, <1>14 DEF vars, workerVars
<1> QED BY <1>7, <1>8, <1>9, <1>10, <1>11, <1>12, <1>13, <1>14 DEF Next

Message(n) ==
  [type : {"snapshot"}, version : Nat, html : 0..n]
  \cup [type : {"update"}, base : Nat, version : Nat, from : 0..n, to : 0..n]
  \cup {Disconnected}
ChannelOK ==
  /\ frames \in Seq(Message(page))
  /\ unnumbered \subseteq {"lost", "recorded", "reset"}

\* What is on its way to the mirror: after a step it has grown by a message,
\* lost its first or its last ones, or is the same.
LEMMA SeqOfMore ==
  ASSUME NEW S, NEW T, S \subseteq T, NEW s \in Seq(S)
  PROVE  s \in Seq(T)
<1>1. s \in [1..Len(s) -> S] /\ Len(s) \in Nat
  OBVIOUS
<1>2. s \in [1..Len(s) -> T]
  BY <1>1
<1> QED BY <1>1, <1>2, SeqDef

\* Posting and losing keep the channel in shape.
LEMMA PostOK ==
  ASSUME ChannelOK, NEW m \in Message(page), Post(m)
  PROVE  /\ frames' \in Seq(Message(page))
         /\ unnumbered' \subseteq {"lost", "recorded", "reset"}
  BY DEF Post, ChannelOK

LEMMA LoseOK ==
  ASSUME ChannelOK, Lose
  PROVE  /\ frames' \in Seq(Message(page))
         /\ unnumbered' \subseteq {"lost", "recorded", "reset"}
<1>1. PICK n \in 0..Len(frames) :
        /\ frames' = SubSeq(frames, 1, n)
        /\ unnumbered' \in {unnumbered, unnumbered \cup {"lost"}}
  BY DEF Lose
<1>2. frames \in Seq(Message(page)) /\ Len(frames) \in Nat
  BY DEF ChannelOK
<1>3. \A i \in 1..n : frames[i] \in Message(page)
  BY <1>1, <1>2, ElementOfSeq
<1>4. SubSeq(frames, 1, n) \in Seq(Message(page))
  BY <1>1, <1>2, <1>3, SubSeqProperties
<1> QED BY <1>1, <1>4 DEF ChannelOK

LEMMA ChannelStep ==
  ASSUME BrowserOK, LocalOK, LastOK, ChannelOK, [Next]_vars
  PROVE  ChannelOK'
<1>1. page \in Nat /\ page' \in Nat /\ page <= page'
  BY BrowserStep DEF BrowserOK
<1>2. \A p \in Process : local[p].html \in 0..page
  BY DEF LocalOK, Read
<1>3. {"reader", "poll"} \subseteq Process /\ Task \subseteq Process
  BY DEF Process
<1>4. SUFFICES /\ frames' \in Seq(Message(page))
               /\ unnumbered' \subseteq {"lost", "recorded", "reset"}
  <2>1. Message(page) \subseteq Message(page')
    BY <1>1 DEF Message
  <2> QED BY <2>1, SeqOfMore DEF ChannelOK
<1> DEFINE Goal == /\ frames' \in Seq(Message(page))
                   /\ unnumbered' \subseteq {"lost", "recorded", "reset"}
<1>5. CASE UNCHANGED channelVars
  BY <1>5 DEF channelVars, ChannelOK
<1>6. ASSUME NEW p \in Process, SnapshotStep(p)
      PROVE  Goal
  <2>1. CASE SnapshotRead(p) \/ SnapshotInject(p)
    BY <1>5, <2>1 DEF SnapshotRead, SnapshotInject, netVars
  <2>2. CASE SnapshotSend(p)
    <3>1. Snapshot(ver, local[p].html) \in Message(page)
      BY <1>2 DEF LastOK, Snapshot, Message
    <3> QED BY <1>5, <2>2, <3>1, PostOK DEF SnapshotSend
  <2> QED BY <1>6, <2>1, <2>2 DEF SnapshotStep
<1>7. CASE ReaderStep
  <2>1. CASE ResetVersion
    BY <2>1 DEF ResetVersion, ChannelOK
  <2>2. CASE Greeted \/ TakeAsk \/ Restart \/ Disconnect
    BY <1>5, <2>2 DEF Greeted, TakeAsk, Restart, Disconnect, netVars
  <2> QED BY <1>3, <1>6, <1>7, <2>1, <2>2 DEF ReaderStep
<1>8. CASE PollStep
  <2>1. CASE PollCompareUrl
    <3>1. Update(ver, ver, lastHtml, lastHtml) \in Message(page)
      BY DEF LastOK, Update, Message
    <3> QED BY <1>5, <2>1, <3>1, PostOK DEF PollCompareUrl
  <2>2. CASE PollSend
    <3>1. Update(ver, ver + 1, lastHtml, local["poll"].html) \in Message(page)
      BY <1>2, <1>3 DEF LastOK, Update, Message
    <3> QED BY <1>5, <2>2, <3>1, PostOK DEF PollSend
  <2>3. CASE PollWake \/ PollCheck \/ PollDiscard \/ PollLook \/ PollDrain \/ PollAddress \/ PollRead
    BY <1>5, <2>3 DEF PollWake, PollCheck, PollDiscard, PollLook, PollDrain, PollAddress, PollRead, netVars
  <2> QED BY <1>3, <1>6, <1>8, <2>1, <2>2, <2>3 DEF PollStep
<1>9. ASSUME NEW t \in Task, TaskStart(t) \/ TaskStep(t)
      PROVE  Goal
  <2>1. CASE TaskRecord(t)
    BY <2>1 DEF TaskRecord, ChannelOK
  <2>2. CASE TaskStart(t) \/ TaskRun(t) \/ TaskRead(t) \/ TaskInject(t)
    BY <1>5, <2>2 DEF TaskStart, TaskRun, TaskRead, TaskInject, netVars
  <2> QED BY <1>3, <1>6, <1>9, <2>1, <2>2 DEF TaskStep
<1>10. CASE Connect \/ TakeRestart
  BY <1>5, <1>10 DEF Connect, TakeRestart, netVars
<1>11. CASE Mutation \/ Load \/ UserAsk
  BY <1>5, <1>11 DEF Mutation, Load, UserAsk, netVars
<1>12. CASE Drop \/ Leave
  BY <1>12, LoseOK DEF Drop, Leave
<1>13. CASE Notice
  <2>1. Disconnected \in Message(page)
    BY DEF Message
  <2> QED BY <1>13, <2>1, PostOK DEF Notice
<1>14. CASE MirrorStep
  <2>1. frames # <<>> /\ frames' = Tail(frames) /\ unnumbered' = unnumbered
    BY <1>14 DEF MirrorStep, TakeUpdate, TakeSnapshot, TakeDisconnected, Takes
  <2> QED BY <2>1 DEF ChannelOK
<1>15. ASSUME NEW newLink \in BOOLEAN, ComeBack(newLink)
       PROVE  Goal
  <2>1. Disconnected \in Message(page)
    BY DEF Message
  <2>2. frames' \in {frames, Append(frames, Disconnected)} /\ unnumbered' = unnumbered
    BY <1>15 DEF ComeBack
  <2> QED BY <2>1, <2>2 DEF ChannelOK
<1>16. CASE UNCHANGED vars
  BY <1>5, <1>16 DEF vars, netVars
<1> QED BY <1>7, <1>8, <1>9, <1>10, <1>11, <1>12, <1>13, <1>14, <1>15, <1>16 DEF Next
-----------------------------------------------------------------------------
(* Flags, requests and the mirror *)

FlagsOK ==
  /\ ready \in BOOLEAN /\ greeting \in BOOLEAN /\ navigating \in BOOLEAN
  /\ executing \in BOOLEAN /\ unsent \in BOOLEAN

\* The worker's flags.
LEMMA FlagStep ==
  ASSUME FlagsOK, [Next]_vars
  PROVE  FlagsOK'
<1>1. CASE UNCHANGED flagVars
  BY <1>1 DEF flagVars, FlagsOK
<1>2. ASSUME NEW p, SnapshotStep(p)
      PROVE  FlagsOK'
  <2>1. CASE SnapshotRead(p) \/ SnapshotInject(p)
    BY <1>1, <2>1 DEF SnapshotRead, SnapshotInject
  <2>2. CASE SnapshotSend(p)
    <3>1. UNCHANGED <<ready, navigating, executing, unsent>>
      BY <2>2 DEF SnapshotSend
    <3>2. greeting' \in BOOLEAN
      BY <2>2 DEF SnapshotSend
    <3> QED BY <3>1, <3>2 DEF FlagsOK
  <2> QED BY <1>2, <2>1, <2>2 DEF SnapshotStep
<1>3. CASE ReaderStep
  <2>1. CASE Greeted \/ Disconnect
    BY <2>1 DEF Greeted, Disconnect, FlagsOK
  <2>2. CASE TakeAsk \/ Restart \/ ResetVersion
    BY <1>1, <2>2 DEF TakeAsk, Restart, ResetVersion
  <2> QED BY <1>2, <1>3, <2>1, <2>2 DEF ReaderStep
<1>4. CASE PollStep
  <2>1. CASE \/ PollWake \/ PollCheck \/ PollDiscard \/ PollLook \/ PollDrain \/ PollAddress
             \/ PollRead \/ PollCompareUrl \/ PollSend
    BY <1>1, <2>1 DEF PollWake, PollCheck, PollDiscard, PollLook, PollDrain, PollAddress,
                      PollRead, PollCompareUrl, PollSend
  <2> QED BY <1>2, <1>4, <2>1 DEF PollStep
<1>5. ASSUME NEW t \in Task, TaskStart(t) \/ TaskStep(t)
      PROVE  FlagsOK'
  <2>1. CASE TaskStart(t)
    BY <2>1 DEF TaskStart, FlagsOK
  <2>2. CASE TaskRun(t)
    <3>1. unsent' \in BOOLEAN
      BY <2>2 DEF TaskRun
    <3> QED BY <2>2, <3>1 DEF TaskRun, FlagsOK
  <2>3. CASE TaskRecord(t)
    BY <2>3 DEF TaskRecord, FlagsOK
  <2>4. CASE TaskRead(t) \/ TaskInject(t)
    BY <1>1, <2>4 DEF TaskRead, TaskInject
  <2> QED BY <1>2, <1>5, <2>1, <2>2, <2>3, <2>4 DEF TaskStep
<1>6. CASE Connect
  BY <1>6 DEF Connect, FlagsOK
<1>7. CASE TakeRestart \/ Mutation \/ Load \/ Drop \/ Notice \/ UserAsk
  BY <1>1, <1>7 DEF TakeRestart, Mutation, Load, Drop, Notice, UserAsk, workerVars
<1>8. CASE MirrorStep
  BY <1>1, <1>8 DEF MirrorStep, TakeUpdate, TakeSnapshot, TakeDisconnected, Takes, workerVars
<1>9. CASE Leave \/ \E newLink \in BOOLEAN : ComeBack(newLink)
  BY <1>1, <1>9 DEF Leave, ComeBack, workerVars
<1>10. CASE UNCHANGED vars
  BY <1>1, <1>10 DEF vars, workerVars
<1> QED BY <1>3, <1>4, <1>5, <1>6, <1>7, <1>8, <1>9, <1>10 DEF Next

LinksOK == linked \in BOOLEAN /\ notice \in BOOLEAN /\ asks \in Nat
MirrorOK ==
  /\ watching \in BOOLEAN /\ stale \in BOOLEAN
  /\ version \in Nat
  /\ html \in 0..page \cup {Garbled}

\* A request is taken only when there is one.
LEMMA LinkStep ==
  ASSUME LinksOK, [Next]_vars
  PROVE  LinksOK'
<1>1. CASE UNCHANGED <<linked, notice, asks>>
  BY <1>1 DEF LinksOK
<1>2. ASSUME Ask, UNCHANGED <<linked, notice>>
      PROVE  LinksOK'
  BY <1>2 DEF Ask, LinksOK
<1>3. ASSUME NEW p, SnapshotStep(p)
      PROVE  LinksOK'
  BY <1>1, <1>3 DEF SnapshotStep, SnapshotRead, SnapshotInject, SnapshotSend, netVars
<1>4. CASE ReaderStep
  <2>1. CASE TakeAsk
    BY <2>1 DEF TakeAsk, LinksOK
  <2>2. CASE Greeted \/ Restart \/ ResetVersion \/ Disconnect
    BY <1>1, <2>2 DEF Greeted, Restart, ResetVersion, Disconnect, netVars
  <2> QED BY <1>3, <1>4, <2>1, <2>2 DEF ReaderStep
<1>5. CASE PollStep
  <2>1. CASE \/ PollWake \/ PollCheck \/ PollDiscard \/ PollLook \/ PollDrain \/ PollAddress
             \/ PollRead \/ PollCompareUrl \/ PollSend
    BY <1>1, <2>1 DEF PollWake, PollCheck, PollDiscard, PollLook, PollDrain, PollAddress,
                      PollRead, PollCompareUrl, PollSend, netVars
  <2> QED BY <1>3, <1>5, <2>1 DEF PollStep
<1>6. ASSUME NEW t \in Task, TaskStart(t) \/ TaskStep(t)
      PROVE  LinksOK'
  <2>1. CASE TaskStart(t) \/ TaskRun(t) \/ TaskRead(t) \/ TaskInject(t) \/ TaskRecord(t)
    BY <1>1, <2>1 DEF TaskStart, TaskRun, TaskRead, TaskInject, TaskRecord, netVars
  <2> QED BY <1>3, <1>6, <2>1 DEF TaskStep
<1>7. CASE Connect \/ Drop \/ Notice
  <2>1. linked' \in BOOLEAN /\ notice' \in BOOLEAN
    BY <1>7 DEF Connect, Drop, Notice, LinksOK
  <2>2. asks' \in {asks, 0}
    BY <1>7 DEF Connect, Drop, Notice
  <2> QED BY <2>1, <2>2 DEF LinksOK
<1>8. CASE TakeRestart \/ Mutation \/ Load
  BY <1>1, <1>8 DEF TakeRestart, Mutation, Load, netVars
<1>9. CASE UserAsk
  BY <1>2, <1>9 DEF UserAsk
<1>10. CASE MirrorStep
  BY <1>1, <1>2, <1>10 DEF MirrorStep, TakeUpdate, TakeSnapshot, TakeDisconnected, Takes
<1>11. CASE Leave
  BY <1>1, <1>11 DEF Leave
<1>12. ASSUME NEW newLink \in BOOLEAN, ComeBack(newLink)
       PROVE  LinksOK'
  BY <1>1, <1>2, <1>12 DEF ComeBack
<1>13. CASE UNCHANGED vars
  BY <1>1, <1>13 DEF vars, netVars
<1> QED BY <1>4, <1>5, <1>6, <1>7, <1>8, <1>9, <1>10, <1>11, <1>12, <1>13 DEF Next

\* Only MirrorStep, Leave and ComeBack touch the mirror.
LEMMA MirrorAlone ==
  ASSUME [Next]_vars
  PROVE  \/ UNCHANGED mirrorVars
         \/ MirrorStep
         \/ Leave
         \/ \E newLink \in BOOLEAN : ComeBack(newLink)
<1>1. ASSUME NEW p, SnapshotStep(p)
      PROVE  UNCHANGED mirrorVars
  BY <1>1 DEF SnapshotStep, SnapshotRead, SnapshotInject, SnapshotSend
<1>2. CASE ReaderStep
  BY <1>1, <1>2 DEF ReaderStep, Greeted, TakeAsk, Restart, ResetVersion, Disconnect
<1>3. CASE PollStep
  BY <1>1, <1>3 DEF PollStep, PollWake, PollCheck, PollDiscard, PollLook, PollDrain, PollAddress,
                    PollRead, PollCompareUrl, PollSend
<1>4. ASSUME NEW t \in Task, TaskStart(t) \/ TaskStep(t)
      PROVE  UNCHANGED mirrorVars
  BY <1>1, <1>4 DEF TaskStep, TaskStart, TaskRun, TaskRead, TaskInject, TaskRecord
<1>5. CASE Connect \/ TakeRestart \/ Mutation \/ Load \/ Drop \/ Notice \/ UserAsk
  BY <1>5 DEF Connect, TakeRestart, Mutation, Load, Drop, Notice, UserAsk
<1> QED BY <1>2, <1>3, <1>4, <1>5 DEF Next, vars

\* The mirror shows pages there have been, or garbage.
LEMMA MirrorTypeStep ==
  ASSUME BrowserOK, ChannelOK, MirrorOK, [Next]_vars
  PROVE  MirrorOK'
<1>1. page \in Nat /\ page' \in Nat /\ page <= page'
  BY BrowserStep DEF BrowserOK
<1>2. SUFFICES /\ watching' \in BOOLEAN /\ stale' \in BOOLEAN
               /\ version' \in Nat
               /\ html' \in 0..page \cup {Garbled}
  BY <1>1 DEF MirrorOK
<1>3. CASE UNCHANGED mirrorVars
  BY <1>3 DEF mirrorVars, MirrorOK
<1>4. frames # <<>> => Head(frames) \in Message(page)
  BY DEF ChannelOK
<1>5. CASE TakeUpdate
  <2> DEFINE f == Head(frames)
  <2>1. f \in Message(page) /\ f.type = "update"
    BY <1>4, <1>5 DEF TakeUpdate, Takes
  <2>2. f.version \in Nat /\ f.to \in 0..page
    BY <2>1 DEF Message, Disconnected
  <2>3. /\ html' = html \/ html' = Patched(html, f.from, f.to)
        /\ version' \in {version, f.version}
        /\ stale' = TRUE \/ stale' = stale
        /\ watching' = watching
    BY <1>5 DEF TakeUpdate, Takes
  <2> HIDE DEF f
  <2>4. html' \in 0..page \cup {Garbled}
    BY <2>2, <2>3 DEF Patched, MirrorOK
  <2> QED BY <2>2, <2>3, <2>4 DEF MirrorOK
<1>6. CASE TakeSnapshot
  <2> DEFINE f == Head(frames)
  <2>1. f \in Message(page) /\ f.type = "snapshot"
    BY <1>4, <1>6 DEF TakeSnapshot, Takes
  <2>2. f.version \in Nat /\ f.html \in 0..page
    BY <2>1 DEF Message, Disconnected
  <2> QED BY <1>6, <2>2 DEF TakeSnapshot, Takes, MirrorOK
<1>7. CASE TakeDisconnected
  BY <1>7 DEF TakeDisconnected, Takes, MirrorOK
<1>8. CASE Leave
  BY <1>8 DEF Leave, MirrorOK
<1>9. ASSUME NEW newLink \in BOOLEAN, ComeBack(newLink)
      PROVE  /\ watching' \in BOOLEAN /\ stale' \in BOOLEAN
             /\ version' \in Nat
             /\ html' \in 0..page \cup {Garbled}
  BY <1>9 DEF ComeBack, MirrorOK
<1> QED BY <1>3, <1>5, <1>6, <1>7, <1>8, <1>9, MirrorAlone DEF MirrorStep
-----------------------------------------------------------------------------
(* The type invariant *)

DomInv ==
  /\ BrowserOK /\ LockOK /\ LocalOK
  /\ LastOK /\ ChannelOK /\ FlagsOK /\ LinksOK /\ MirrorOK

LEMMA DomInvStart == Init => DomInv
<1> SUFFICES ASSUME Init PROVE DomInv
  OBVIOUS
<1>1. BrowserOK /\ LastOK /\ FlagsOK /\ LinksOK /\ MirrorOK
  <2>1. BrowserOK
    <3>1. page \in Nat /\ url \in 0..page
      BY DEF Init
    <3>2. observed = FALSE /\ recorded = FALSE /\ missed = FALSE
      BY DEF Init
    <3>3. recorded => observed
      BY <3>2, Zenon
    <3> QED BY <3>1, <3>2, <3>3, Zenon DEF BrowserOK
  <2>2. LastOK
    BY DEF Init, LastOK
  <2>3. FlagsOK /\ LinksOK
    BY DEF Init, FlagsOK, LinksOK
  <2>4. MirrorOK
    BY DEF Init, MirrorOK
  <2> QED BY <2>1, <2>2, <2>3, <2>4
<1>2. LockOK
  BY DomSyncAssumption DEF Init, LockOK, Process, Place, Reading
<1>3. LocalOK
  BY DEF Init, LocalOK, Nothing, Seen, Read
<1>4. ChannelOK
  BY EmptySeq DEF Init, ChannelOK
<1> QED BY <1>1, <1>2, <1>3, <1>4 DEF DomInv

LEMMA DomInvStep ==
  ASSUME DomInv, [Next]_vars
  PROVE  DomInv'
<1>1. /\ BrowserOK /\ LockOK /\ LocalOK
      /\ LastOK /\ ChannelOK /\ FlagsOK /\ LinksOK /\ MirrorOK
  BY DEF DomInv
<1>2. BrowserOK' /\ LockOK' /\ LocalOK'
  BY <1>1, BrowserStep, LockStep
<1>3. LastOK' /\ ChannelOK'
  BY <1>1, LastStep, ChannelStep
<1>4. FlagsOK' /\ LinksOK' /\ MirrorOK'
  BY <1>1, FlagStep, LinkStep, MirrorTypeStep
<1> QED BY <1>2, <1>3, <1>4 DEF DomInv

LEMMA DomInvHolds == Spec => []DomInv
<1>1. DomInv /\ [Next]_vars => DomInv'
  BY DomInvStep
<1> QED BY <1>1, DomInvStart, PTL DEF Spec

\* Types; and of the coroutines of the worker, however many navigations there
\* are, only one at a time is between two reads of the browser, the one that has
\* _selenium_lock (worker.py:200, 356 and 459).
THEOREM DomTypes == Spec => []DomTypeOK
<1>1. DomInv => DomTypeOK
  <2> SUFFICES ASSUME DomInv PROVE DomTypeOK
    OBVIOUS
  <2>1. /\ page \in Nat /\ url \in 0..page /\ observed \in BOOLEAN /\ recorded \in BOOLEAN
        /\ missed \in BOOLEAN
        /\ recorded => observed
    BY DEF DomInv, BrowserOK
  <2>2. /\ lock \in Process \cup {NoOne} /\ ahead \subseteq Process /\ at \in [Process -> Place]
        /\ \A p \in Process : lock = p <=> at[p] \in {"looked", "drained", "addressed", "inject", "snapshot inject"}
    BY DEF DomInv, LockOK, Reading, Waiting
  <2>3. local \in [Process -> [html : 0..page, url : 0..page, drained : BOOLEAN, known : BOOLEAN]]
    BY DEF DomInv, LocalOK, Read
  <2>4. /\ ver \in Nat /\ lastHtml \in 0..page /\ lastUrl \in 0..page
        /\ unnumbered \subseteq {"lost", "recorded", "reset"}
    BY DEF DomInv, LastOK, ChannelOK
  <2>5. /\ ready \in BOOLEAN /\ greeting \in BOOLEAN /\ navigating \in BOOLEAN
        /\ executing \in BOOLEAN /\ unsent \in BOOLEAN
    BY DEF DomInv, FlagsOK
  <2>6. linked \in BOOLEAN /\ notice \in BOOLEAN /\ asks \in Nat
    BY DEF DomInv, LinksOK
  <2>7. /\ watching \in BOOLEAN /\ stale \in BOOLEAN /\ version \in Nat
        /\ html \in 0..page \cup {Garbled}
    BY DEF DomInv, MirrorOK
  <2>8. {ready, greeting, navigating, executing, linked, notice, watching, stale, missed, unsent}
          \subseteq BOOLEAN
    BY <2>1, <2>5, <2>6, <2>7
  <2> QED BY <2>1, <2>2, <2>3, <2>4, <2>6, <2>7, <2>8 DEF DomTypeOK
<1> QED BY <1>1, DomInvHolds, PTL
-----------------------------------------------------------------------------
(* Navigations *)

Handling == {"queued", "page", "inject", "record"}
NavigationInHand == navigating => unsent \/ \E t \in Task : at[t] \in Handling

\* The flag that makes the poll loop discard changes is set as long as a
\* navigation is in hand, and stays behind only with a result that was not sent.
LEMMA NavigationStep ==
  ASSUME LockOK, NavigationInHand, [Next]_vars
  PROVE  NavigationInHand'
<1>1. at \in [Process -> Place]
  BY DEF LockOK
<1>2. /\ "reader" \notin Task /\ "poll" \notin Task
      /\ Task \subseteq Process /\ "reader" \in Process /\ "poll" \in Process
  BY DomSyncAssumption DEF Process
<1>3. ASSUME UNCHANGED <<navigating, unsent>>,
             \A t \in Task : at[t] \in Handling => at'[t] \in Handling
      PROVE  NavigationInHand'
  BY <1>3 DEF NavigationInHand
<1>4. ASSUME UNCHANGED <<navigating, unsent>>,
             NEW p \in Process \ Task, NEW place, at' = [at EXCEPT ![p] = place]
      PROVE  NavigationInHand'
  BY <1>1, <1>2, <1>3, <1>4
<1>5. ASSUME UNCHANGED <<navigating, unsent>>, UNCHANGED at
      PROVE  NavigationInHand'
  BY <1>3, <1>5
<1>6. ASSUME NEW p \in Process, SnapshotStep(p)
      PROVE  NavigationInHand'
  <2>1. UNCHANGED <<navigating, unsent>>
    BY <1>6 DEF SnapshotStep, SnapshotRead, SnapshotInject, SnapshotSend, flagVars
  <2>2. at[p] \notin Handling
    BY <1>6 DEF SnapshotStep, SnapshotRead, SnapshotInject, SnapshotSend, Handling
  <2>3. \A q \in Process \ {p} : at'[q] = at[q]
    BY <1>1, <1>6 DEF SnapshotStep, SnapshotRead, SnapshotInject, SnapshotSend, Ends, Reads
  <2> QED BY <1>2, <1>3, <2>1, <2>2, <2>3
<1>7. CASE ReaderStep
  <2>1. CASE Greeted \/ TakeAsk \/ Restart \/ ResetVersion \/ Disconnect
    <3>1. UNCHANGED <<navigating, unsent>>
      BY <2>1 DEF Greeted, TakeAsk, Restart, ResetVersion, Disconnect, flagVars
    <3>2. \/ at' = [at EXCEPT !["reader"] = "read"] \/ at' = [at EXCEPT !["reader"] = "snapshot"]
          \/ at' = [at EXCEPT !["reader"] = "reset"] \/ at' = [at EXCEPT !["reader"] = "off"]
      BY <2>1 DEF Greeted, TakeAsk, Restart, ResetVersion, Disconnect, Goes
    <3> QED BY <1>2, <1>4, <3>1, <3>2
  <2> QED BY <1>2, <1>6, <1>7, <2>1 DEF ReaderStep
<1>8. CASE PollStep
  <2>1. CASE \/ PollWake \/ PollCheck \/ PollDiscard \/ PollLook \/ PollDrain \/ PollAddress
             \/ PollRead \/ PollCompareUrl \/ PollSend
    <3>1. UNCHANGED <<navigating, unsent>>
      BY <2>1 DEF PollWake, PollCheck, PollDiscard, PollLook, PollDrain, PollAddress, PollRead,
                  PollCompareUrl, PollSend, flagVars
    <3>2. \E place \in {"awake", "discard", "watch", "idle", "looked", "drained", "addressed",
                       "compare url", "snapshot", "compare"} :
            at' = [at EXCEPT !["poll"] = place]
      BY <2>1 DEF PollWake, PollCheck, PollDiscard, PollLook, PollDrain, PollAddress, PollRead,
                  PollCompareUrl, PollSend, Goes, Ends, Reads
    <3> QED BY <1>2, <1>4, <3>1, <3>2
  <2> QED BY <1>2, <1>6, <1>8, <2>1 DEF PollStep
<1>9. ASSUME NEW t \in Task, TaskStart(t) \/ TaskStep(t)
      PROVE  NavigationInHand'
  <2>1. CASE TaskStart(t)
    <3>1. at'[t] = "queued"
      BY <1>1, <1>2, <2>1 DEF TaskStart, Goes
    <3> QED BY <3>1 DEF NavigationInHand, Handling
  <2>2. CASE TaskRun(t) /\ linked
    <3>1. at'[t] = "page"
      BY <1>1, <1>2, <2>2 DEF TaskRun, Goes
    <3> QED BY <3>1 DEF NavigationInHand, Handling
  <2>3. CASE TaskRun(t) /\ ~linked
    BY <2>3 DEF TaskRun, NavigationInHand
  <2>4. CASE TaskRead(t)
    <3>1. at'[t] = "inject"
      BY <1>1, <1>2, <2>4 DEF TaskRead, Reads
    <3> QED BY <3>1 DEF NavigationInHand, Handling
  <2>5. CASE TaskInject(t)
    <3>1. at'[t] = "record"
      BY <1>1, <1>2, <2>5 DEF TaskInject, Goes
    <3> QED BY <3>1 DEF NavigationInHand, Handling
  <2>6. CASE TaskRecord(t)
    BY <2>6 DEF TaskRecord, NavigationInHand
  <2> QED BY <1>2, <1>6, <1>9, <2>1, <2>2, <2>3, <2>4, <2>5, <2>6 DEF TaskStep
<1>10. CASE Connect \/ TakeRestart
  <2>1. /\ UNCHANGED <<navigating, unsent>>
        /\ \/ at' = [at EXCEPT !["reader"] = "snapshot"]
           \/ at' = [at EXCEPT !["reader"] = "restart"]
    BY <1>10 DEF Connect, TakeRestart, Goes, flagVars
  <2> QED BY <1>2, <1>4, <2>1
<1>11. CASE Mutation \/ Load \/ Drop \/ Notice \/ UserAsk
  BY <1>5, <1>11 DEF Mutation, Load, Drop, Notice, UserAsk, workerVars, flagVars, coroutineVars
<1>12. CASE MirrorStep
  BY <1>5, <1>12 DEF MirrorStep, TakeUpdate, TakeSnapshot, TakeDisconnected, Takes, workerVars,
                     flagVars, coroutineVars
<1>13. CASE Leave \/ \E newLink \in BOOLEAN : ComeBack(newLink)
  BY <1>5, <1>13 DEF Leave, ComeBack, workerVars, flagVars, coroutineVars
<1>14. CASE UNCHANGED vars
  BY <1>5, <1>14 DEF vars, workerVars, flagVars, coroutineVars
<1> QED BY <1>7, <1>8, <1>9, <1>10, <1>11, <1>12, <1>13, <1>14 DEF Next

\* Where the poll loop waits to discard, a navigation has still to read the page
\* for its snapshot, and cannot before the loop has had its turn.
Rereading(t) == at[t] \in Handling \/ (at[t] = "snapshot" /\ t \notin ahead)
DiscardInHand == at["poll"] = "discard" => unsent \/ \E t \in Task : Rereading(t)

LEMMA DiscardStep ==
  ASSUME LockOK, NavigationInHand, DiscardInHand, [Next]_vars
  PROVE  DiscardInHand'
<1>1. at \in [Process -> Place] /\ ahead \subseteq Waiting
  BY DEF LockOK
<1>2. /\ "reader" \notin Task /\ "poll" \notin Task /\ "reader" # "poll"
      /\ Task \subseteq Process /\ "reader" \in Process /\ "poll" \in Process
  BY DomSyncAssumption DEF Process
\* Nobody else moves a task that is rereading.
<1>3. ASSUME NEW p \in Process, unsent => unsent', ahead' \subseteq ahead,
             \A q \in Process \ {p} : at'[q] = at[q],
             at'["poll"] = "discard" => at["poll"] = "discard",
             p \in Task /\ Rereading(p) /\ at'["poll"] = "discard" => Rereading(p)' \/ unsent'
      PROVE  DiscardInHand'
  <2>1. \A t \in Task \ {p} : Rereading(t) => Rereading(t)'
    BY <1>2, <1>3 DEF Rereading
  <2> QED BY <1>3, <2>1 DEF DiscardInHand
<1>4. ASSUME UNCHANGED <<at, ahead, unsent>>
      PROVE  DiscardInHand'
  BY <1>4 DEF DiscardInHand, Rereading
\* Who is no task and does not come to discard changes nothing.
<1>5. ASSUME NEW p \in {"reader", "poll"}, NEW place, place # "discard", UNCHANGED unsent,
             ahead' \subseteq ahead, at' = [at EXCEPT ![p] = place]
      PROVE  DiscardInHand'
  <2>1. \A q \in Process \ {p} : at'[q] = at[q]
    BY <1>1, <1>5
  <2>2. at'["poll"] = "discard" => at["poll"] = "discard"
    BY <1>1, <1>2, <1>5
  <2> QED BY <1>2, <1>3, <1>5, <2>1, <2>2
<1>6. ASSUME NEW p \in Process, SnapshotStep(p)
      PROVE  DiscardInHand'
  <2>1. UNCHANGED unsent /\ \A q \in Process \ {p} : at'[q] = at[q]
    BY <1>1, <1>6 DEF SnapshotStep, SnapshotRead, SnapshotInject, SnapshotSend, Ends, Reads, flagVars
  <2>2. CASE SnapshotRead(p)
    <3>1. /\ at'[p] = "snapshot inject" /\ at[p] = "snapshot"
          /\ ahead' \subseteq ahead /\ (at["poll"] = "discard" => p = "poll" \/ p \in ahead)
      BY <1>1, <2>2 DEF SnapshotRead, Reads, Acquire, Turn
    <3>2. p \in Task /\ Rereading(p) => at["poll"] # "discard"
      BY <1>2, <3>1 DEF Rereading, Handling
    <3> QED BY <1>2, <1>3, <2>1, <3>1, <3>2
  <2>3. CASE SnapshotInject(p) \/ SnapshotSend(p)
    <3>1. /\ at[p] \in {"snapshot inject", "snapshot send"} /\ UNCHANGED ahead
          /\ at'[p] # "discard"
      BY <1>1, <1>2, <2>3 DEF SnapshotInject, SnapshotSend, Reads, Ends, Release, Process
    <3>2. ~Rereading(p)
      BY <3>1 DEF Rereading, Handling
    <3> QED BY <1>2, <1>3, <2>1, <3>1, <3>2
  <2> QED BY <1>6, <2>2, <2>3 DEF SnapshotStep
<1>7. CASE ReaderStep
  <2>1. CASE Greeted \/ TakeAsk \/ Restart \/ ResetVersion \/ Disconnect
    <3>1. UNCHANGED unsent /\ ahead' \subseteq ahead
      BY <2>1 DEF Greeted, TakeAsk, Restart, ResetVersion, Disconnect, flagVars, Turn
    <3>2. \E place \in {"read", "snapshot", "reset", "off"} : at' = [at EXCEPT !["reader"] = place]
      BY <2>1 DEF Greeted, TakeAsk, Restart, ResetVersion, Disconnect, Goes
    <3> QED BY <1>5, <3>1, <3>2
  <2> QED BY <1>2, <1>6, <1>7, <2>1 DEF ReaderStep
<1>8. CASE PollStep
  <2>1. CASE PollCheck
    <3>1. /\ at' = [at EXCEPT !["poll"] = IF navigating THEN "discard" ELSE "watch"]
          /\ ahead' = Waiting /\ UNCHANGED unsent
      BY <2>1 DEF PollCheck, Goes, flagVars
    <3>2. CASE ~navigating
      BY <1>1, <1>2, <3>1, <3>2 DEF DiscardInHand
    <3>3. CASE navigating /\ ~unsent
      <4>1. PICK t \in Task : at[t] \in Handling
        BY <3>3 DEF NavigationInHand
      <4>2. at'[t] = at[t]
        BY <1>1, <1>2, <3>1
      <4>3. Rereading(t)'
        BY <4>1, <4>2 DEF Rereading
      <4> QED BY <4>3 DEF DiscardInHand
    <3>4. CASE unsent
      BY <3>1, <3>4 DEF DiscardInHand
    <3> QED BY <3>2, <3>3, <3>4
  <2>2. CASE \/ PollWake \/ PollDiscard \/ PollLook \/ PollDrain \/ PollAddress \/ PollRead
             \/ PollCompareUrl \/ PollSend
    <3>1. UNCHANGED unsent /\ ahead' \subseteq ahead
      BY <2>2 DEF PollWake, PollDiscard, PollLook, PollDrain, PollAddress, PollRead, PollCompareUrl,
                  PollSend, flagVars, Acquire, Release, Turn
    <3>2. \E place \in {"awake", "idle", "looked", "drained", "addressed", "compare url", "snapshot",
                       "compare"} : at' = [at EXCEPT !["poll"] = place]
      BY <2>2 DEF PollWake, PollDiscard, PollLook, PollDrain, PollAddress, PollRead, PollCompareUrl,
                  PollSend, Goes, Ends, Reads
    <3> QED BY <1>5, <3>1, <3>2
  <2> QED BY <1>2, <1>6, <1>8, <2>1, <2>2 DEF PollStep
<1>9. ASSUME NEW t \in Task, TaskStart(t) \/ TaskStep(t)
      PROVE  DiscardInHand'
  <2>1. CASE TaskStart(t) \/ TaskRun(t) \/ TaskRead(t) \/ TaskInject(t)
    <3>1. \A q \in Process \ {t} : at'[q] = at[q]
      BY <1>1, <2>1 DEF TaskStart, TaskRun, TaskRead, TaskInject, Goes, Reads
    <3>2. ahead' \subseteq ahead
      BY <2>1 DEF TaskStart, TaskRun, TaskRead, TaskInject, Turn, Acquire, Release
    <3>3. unsent => unsent'
      BY <2>1, Zenon DEF TaskStart, TaskRun, TaskRead, TaskInject, flagVars
    <3>4. at'[t] \in Handling \/ unsent'
      <4>1. CASE TaskRun(t)
        BY <1>1, <1>2, <4>1 DEF TaskRun, Goes, Handling
      <4>2. CASE TaskStart(t) \/ TaskRead(t) \/ TaskInject(t)
        BY <1>1, <1>2, <4>2 DEF TaskStart, TaskRead, TaskInject, Goes, Reads, Handling
      <4> QED BY <2>1, <4>1, <4>2
    <3> QED BY <1>2, <1>3, <3>1, <3>2, <3>3, <3>4 DEF Rereading
  <2>2. CASE TaskRecord(t)
    <3>1. at'[t] = "snapshot" /\ at[t] = "record" /\ UNCHANGED ahead
      BY <1>1, <1>2, <2>2 DEF TaskRecord, Ends, Reads
    <3>2. t \notin ahead
      BY <1>1, <3>1 DEF Waiting
    <3> QED BY <3>1, <3>2 DEF DiscardInHand, Rereading
  <2> QED BY <1>2, <1>6, <1>9, <2>1, <2>2 DEF TaskStep
<1>10. CASE Connect \/ TakeRestart
  <2>1. /\ UNCHANGED <<unsent, ahead>>
        /\ \E place \in {"snapshot", "restart"} : at' = [at EXCEPT !["reader"] = place]
    BY <1>10 DEF Connect, TakeRestart, Goes, flagVars
  <2> QED BY <1>5, <2>1
<1>11. CASE Mutation \/ Load \/ Drop \/ Notice \/ UserAsk
  BY <1>4, <1>11 DEF Mutation, Load, Drop, Notice, UserAsk, workerVars, flagVars, coroutineVars
<1>12. CASE MirrorStep
  BY <1>4, <1>12 DEF MirrorStep, TakeUpdate, TakeSnapshot, TakeDisconnected, Takes, workerVars,
                     flagVars, coroutineVars
<1>13. CASE Leave \/ \E newLink \in BOOLEAN : ComeBack(newLink)
  BY <1>4, <1>13 DEF Leave, ComeBack, workerVars, flagVars, coroutineVars
<1>14. CASE UNCHANGED vars
  BY <1>4, <1>14 DEF vars, workerVars, flagVars, coroutineVars
<1> QED BY <1>7, <1>8, <1>9, <1>10, <1>11, <1>12, <1>13, <1>14 DEF Next

\* The page is read again for a snapshot after the poll loop has thrown changes
\* away, although the flag it has looked at may be reset while it waits for
\* _selenium_lock; but for a navigation that could not send its result
\* (worker.py:343-348 and 453-457).
THEOREM DiscardsAreMadeUp == Spec => DiscardsAreReread
<1>1. Init => NavigationInHand /\ DiscardInHand
  BY DomSyncAssumption DEF Init, NavigationInHand, DiscardInHand, Process
<1>2. DomInv /\ NavigationInHand /\ DiscardInHand /\ [Next]_vars
        => NavigationInHand' /\ DiscardInHand'
  BY NavigationStep, DiscardStep DEF DomInv
<1>3. DiscardInHand /\ [Next]_vars
      => [PollDiscard =>
            unsent \/ \E t \in Task : at[t] \in {"queued", "page", "inject", "record", "snapshot"}]_vars
  BY DEF DiscardInHand, Rereading, Handling, PollDiscard
<1> QED BY <1>1, <1>2, <1>3, DomInvHolds, PTL DEF Spec, DiscardsAreReread
-----------------------------------------------------------------------------
(* Versions *)

\* What a message makes of a mirror that takes it.
Shows(f) == f.type \in {"snapshot", "update"}
Shown(f) == IF f.type = "snapshot" THEN f.html ELSE f.to
NoSnapshot(fs, i, j) == \A k \in i..j : fs[k].type # "snapshot"

\* A message whose version an update goes on from, without a snapshot between
\* them, shows the page that the update goes on from.
Chained(fs) ==
  \A i, j \in 1..Len(fs) :
    /\ i < j /\ Shows(fs[i]) /\ fs[j].type = "update"
    /\ NoSnapshot(fs, i + 1, j) /\ fs[i].version = fs[j].base
    => Shown(fs[i]) = fs[j].from

\* The same with the worker, at version wv and page wh, after the last message;
LeadsTo(fs, wv, wh) ==
  \A i \in 1..Len(fs) :
    Shows(fs[i]) =>
      /\ fs[i].version <= wv
      /\ NoSnapshot(fs, i + 1, Len(fs)) /\ fs[i].version = wv => Shown(fs[i]) = wh

\* with a mirror, at version v and page h, before the first;
ComesFrom(fs, v, h) ==
  \A j \in 1..Len(fs) :
    fs[j].type = "update" /\ NoSnapshot(fs, 1, j) /\ fs[j].base = v => fs[j].from = h

\* and of the mirror with the worker.
Agree(fs, v, h, wv, wh) ==
  v <= wv /\ (NoSnapshot(fs, 1, Len(fs)) /\ v = wv => h = wh)

Told(fs, old, v, h, wv, wh) ==
  /\ Chained(fs) /\ LeadsTo(fs, wv, wh)
  /\ ~old => ComesFrom(fs, v, h) /\ Agree(fs, v, h, wv, wh)

VersionsTell == unnumbered = {} => Told(frames, stale, version, html, ver, lastHtml)

\* A difference is sent: to the next version, or to the same one and page.
LEMMA PostUpdateTold ==
  ASSUME NEW M, NEW fs \in Seq(M), NEW old, NEW v \in Nat, NEW h, NEW wv \in Nat, NEW wh,
         \A i \in 1..Len(fs) : Shows(fs[i]) => fs[i].version \in Nat,
         Told(fs, old, v, h, wv, wh),
         NEW u \in M, u.type = "update", u.base = wv, u.from = wh,
         (u.version = wv /\ u.to = wh) \/ u.version = wv + 1
  PROVE  Told(Append(fs, u), old, v, h, u.version, u.to)
<1> DEFINE gs == Append(fs, u)
           n == Len(fs)
<1>1. n \in Nat /\ Len(gs) = n + 1 /\ gs[n + 1] = u /\ \A i \in 1..n : gs[i] = fs[i]
  OBVIOUS
<1> HIDE DEF gs, n
<1>2. \A i \in 1..n + 1 : \A j \in 1..n : NoSnapshot(gs, i, j) => NoSnapshot(fs, i, j)
  BY <1>1 DEF NoSnapshot
<1>3. \A i \in 1..n + 1 : NoSnapshot(gs, i, n + 1) => NoSnapshot(fs, i, n)
  BY <1>1 DEF NoSnapshot
<1>4. Shown(u) = u.to
  BY DEF Shown
<1>5. Chained(gs)
  <2> SUFFICES ASSUME NEW i \in 1..n + 1, NEW j \in 1..n + 1,
                      i < j, Shows(gs[i]), gs[j].type = "update",
                      NoSnapshot(gs, i + 1, j), gs[i].version = gs[j].base
               PROVE  Shown(gs[i]) = gs[j].from
    BY <1>1 DEF Chained
  <2>1. i \in 1..n /\ i + 1 \in 1..n + 1 /\ gs[i] = fs[i]
    BY <1>1
  <2>2. CASE j \in 1..n
    BY <1>1, <1>2, <2>1, <2>2 DEF Told, Chained, n
  <2>3. CASE j = n + 1
    BY <1>1, <1>3, <2>1, <2>3 DEF Told, LeadsTo, n
  <2> QED BY <1>1, <2>2, <2>3
<1>6. LeadsTo(gs, u.version, u.to)
  <2> SUFFICES ASSUME NEW i \in 1..n + 1, Shows(gs[i])
               PROVE  /\ gs[i].version <= u.version
                      /\ NoSnapshot(gs, i + 1, n + 1) /\ gs[i].version = u.version
                         => Shown(gs[i]) = u.to
    BY <1>1 DEF LeadsTo
  <2>1. CASE i \in 1..n
    <3>1. gs[i] = fs[i] /\ gs[i].version \in Nat /\ gs[i].version <= wv /\ i + 1 \in 1..n + 1
      BY <1>1, <2>1 DEF Told, LeadsTo, n
    <3>2. NoSnapshot(gs, i + 1, n + 1) /\ gs[i].version = wv => Shown(gs[i]) = wh
      BY <1>3, <2>1, <3>1 DEF Told, LeadsTo, n
    <3> QED BY <3>1, <3>2
  <2>2. CASE i = n + 1
    BY <1>1, <1>4, <2>2
  <2> QED BY <1>1, <2>1, <2>2
<1>7. ASSUME ~old
      PROVE  ComesFrom(gs, v, h) /\ Agree(gs, v, h, u.version, u.to)
  <2>1. ComesFrom(fs, v, h) /\ Agree(fs, v, h, wv, wh)
    BY <1>7 DEF Told
  <2>2. ASSUME NEW j \in 1..n + 1, gs[j].type = "update", NoSnapshot(gs, 1, j), gs[j].base = v
        PROVE  gs[j].from = h
    <3>1. CASE j \in 1..n
      BY <1>1, <1>2, <2>1, <2>2, <3>1 DEF ComesFrom, n
    <3>2. CASE j = n + 1
      BY <1>1, <1>3, <2>1, <2>2, <3>2 DEF Agree, n
    <3> QED BY <1>1, <3>1, <3>2
  <2>3. v <= u.version
    BY <2>1 DEF Agree
  <2>4. NoSnapshot(gs, 1, n + 1) /\ v = u.version => h = u.to
    BY <1>1, <1>3, <2>1 DEF Agree, n
  <2> QED BY <1>1, <2>2, <2>3, <2>4 DEF ComesFrom, Agree
<1> QED BY <1>5, <1>6, <1>7 DEF Told, gs

\* A snapshot is sent, under the version the worker has.
LEMMA PostSnapshotTold ==
  ASSUME NEW M, NEW fs \in Seq(M), NEW old, NEW v \in Nat, NEW h, NEW wv \in Nat, NEW wh,
         Told(fs, old, v, h, wv, wh),
         NEW f \in M, f.type = "snapshot", f.version = wv
  PROVE  Told(Append(fs, f), old, v, h, wv, f.html)
<1> DEFINE gs == Append(fs, f)
           n == Len(fs)
<1>1. n \in Nat /\ Len(gs) = n + 1 /\ gs[n + 1] = f /\ \A i \in 1..n : gs[i] = fs[i]
  OBVIOUS
<1> HIDE DEF gs, n
<1>2. \A i \in 1..n + 1 : \A j \in 1..n : NoSnapshot(gs, i, j) => NoSnapshot(fs, i, j)
  BY <1>1 DEF NoSnapshot
<1>3. \A i \in 1..n + 1 : ~NoSnapshot(gs, i, n + 1)
  BY <1>1 DEF NoSnapshot
<1>4. Chained(gs)
  <2> SUFFICES ASSUME NEW i \in 1..n + 1, NEW j \in 1..n + 1,
                      i < j, Shows(gs[i]), gs[j].type = "update",
                      NoSnapshot(gs, i + 1, j), gs[i].version = gs[j].base
               PROVE  Shown(gs[i]) = gs[j].from
    BY <1>1 DEF Chained
  <2>1. i \in 1..n /\ j \in 1..n /\ i + 1 \in 1..n + 1
    BY <1>1
  <2> QED BY <1>1, <1>2, <2>1 DEF Told, Chained, n
<1>5. LeadsTo(gs, wv, f.html)
  <2> SUFFICES ASSUME NEW i \in 1..n + 1, Shows(gs[i])
               PROVE  /\ gs[i].version <= wv
                      /\ NoSnapshot(gs, i + 1, n + 1) => Shown(gs[i]) = f.html
    BY <1>1 DEF LeadsTo
  <2>1. CASE i \in 1..n
    <3>1. i + 1 \in 1..n + 1
      BY <1>1, <2>1
    <3> QED BY <1>1, <1>3, <2>1, <3>1 DEF Told, LeadsTo, n
  <2>2. CASE i = n + 1
    BY <1>1, <2>2 DEF Shown
  <2> QED BY <1>1, <2>1, <2>2
<1>6. ASSUME ~old
      PROVE  ComesFrom(gs, v, h) /\ Agree(gs, v, h, wv, f.html)
  <2>1. ComesFrom(fs, v, h) /\ v <= wv
    BY <1>6 DEF Told, Agree
  <2>2. ASSUME NEW j \in 1..n + 1, gs[j].type = "update", NoSnapshot(gs, 1, j), gs[j].base = v
        PROVE  gs[j].from = h
    BY <1>1, <1>2, <2>1, <2>2 DEF ComesFrom, n
  <2>3. ~NoSnapshot(gs, 1, n + 1)
    BY <1>1, <1>3
  <2> QED BY <1>1, <2>1, <2>2, <2>3 DEF ComesFrom, Agree
<1> QED BY <1>4, <1>5, <1>6 DEF Told, gs

\* A message about something else.
LEMMA PostOtherTold ==
  ASSUME NEW M, NEW fs \in Seq(M), NEW old, NEW v \in Nat, NEW h, NEW wv \in Nat, NEW wh,
         Told(fs, old, v, h, wv, wh),
         NEW f \in M, f.type \notin {"snapshot", "update"}
  PROVE  Told(Append(fs, f), old, v, h, wv, wh)
<1> DEFINE gs == Append(fs, f)
           n == Len(fs)
<1>1. n \in Nat /\ Len(gs) = n + 1 /\ gs[n + 1] = f /\ \A i \in 1..n : gs[i] = fs[i]
  OBVIOUS
<1> HIDE DEF gs, n
<1>2. \A i \in 1..n + 1 : \A j \in 1..n : NoSnapshot(gs, i, j) => NoSnapshot(fs, i, j)
  BY <1>1 DEF NoSnapshot
<1>3. \A i \in 1..n + 1 : NoSnapshot(gs, i, n + 1) => NoSnapshot(fs, i, n)
  BY <1>1 DEF NoSnapshot
<1>4. \A i \in 1..n + 1 : Shows(gs[i]) \/ gs[i].type = "update" => i \in 1..n
  BY <1>1 DEF Shows
<1>5. Chained(gs)
  <2> SUFFICES ASSUME NEW i \in 1..n + 1, NEW j \in 1..n + 1,
                      i < j, Shows(gs[i]), gs[j].type = "update",
                      NoSnapshot(gs, i + 1, j), gs[i].version = gs[j].base
               PROVE  Shown(gs[i]) = gs[j].from
    BY <1>1 DEF Chained
  <2>1. i \in 1..n /\ j \in 1..n /\ i + 1 \in 1..n + 1
    BY <1>1, <1>4
  <2> QED BY <1>1, <1>2, <2>1 DEF Told, Chained, n
<1>6. LeadsTo(gs, wv, wh)
  <2> SUFFICES ASSUME NEW i \in 1..n + 1, Shows(gs[i])
               PROVE  /\ gs[i].version <= wv
                      /\ NoSnapshot(gs, i + 1, n + 1) /\ gs[i].version = wv => Shown(gs[i]) = wh
    BY <1>1 DEF LeadsTo
  <2>1. i \in 1..n /\ i + 1 \in 1..n + 1
    BY <1>1, <1>4
  <2> QED BY <1>1, <1>3, <2>1 DEF Told, LeadsTo, n
<1>7. ASSUME ~old
      PROVE  ComesFrom(gs, v, h) /\ Agree(gs, v, h, wv, wh)
  <2>1. ComesFrom(fs, v, h) /\ Agree(fs, v, h, wv, wh)
    BY <1>7 DEF Told
  <2>2. ASSUME NEW j \in 1..n + 1, gs[j].type = "update", NoSnapshot(gs, 1, j), gs[j].base = v
        PROVE  gs[j].from = h
    BY <1>1, <1>2, <1>4, <2>1, <2>2 DEF ComesFrom, n
  <2>3. NoSnapshot(gs, 1, n + 1) => NoSnapshot(fs, 1, n)
    BY <1>1, <1>3
  <2> QED BY <1>1, <2>1, <2>2, <2>3 DEF ComesFrom, Agree, n
<1> QED BY <1>5, <1>6, <1>7 DEF Told, gs

\* Differences that nobody hears leave a gap between the versions.
LEMMA UnheardTold ==
  ASSUME NEW M, NEW fs \in Seq(M), NEW old, NEW v \in Nat, NEW h, NEW wv \in Nat, NEW wh, NEW to,
         \A i \in 1..Len(fs) : Shows(fs[i]) => fs[i].version \in Nat,
         Told(fs, old, v, h, wv, wh)
  PROVE  Told(fs, old, v, h, wv + 1, to)
<1>1. LeadsTo(fs, wv + 1, to)
  <2> SUFFICES ASSUME NEW i \in 1..Len(fs), Shows(fs[i])
               PROVE  fs[i].version <= wv + 1 /\ fs[i].version # wv + 1
    BY DEF LeadsTo
  <2>1. fs[i].version \in Nat /\ fs[i].version <= wv
    BY DEF Told, LeadsTo
  <2> QED BY <2>1
<1>2. ~old => v <= wv + 1 /\ v # wv + 1
  BY DEF Told, Agree
<1> QED BY <1>1, <1>2 DEF Told, Agree

\* The last messages are lost, no snapshot among them.
LEMMA LoseTold ==
  ASSUME NEW M, NEW fs \in Seq(M), NEW old, NEW v \in Nat, NEW h, NEW wv \in Nat, NEW wh,
         Told(fs, old, v, h, wv, wh),
         NEW n \in 0..Len(fs), NoSnapshot(fs, n + 1, Len(fs))
  PROVE  Told(SubSeq(fs, 1, n), old, v, h, wv, wh)
<1> DEFINE gs == SubSeq(fs, 1, n)
<1>1. n \in Nat /\ Len(fs) \in Nat /\ n <= Len(fs)
  OBVIOUS
<1>2. Len(gs) = n /\ \A i \in 1..n : gs[i] = fs[i]
  <2>1. \A i \in 1..n : fs[i] \in M
    BY <1>1, ElementOfSeq
  <2>2. /\ Len(gs) = IF 1 <= n THEN n - 1 + 1 ELSE 0
        /\ \A i \in 1..n - 1 + 1 : gs[i] = fs[1 + i - 1]
    BY <1>1, <2>1, SubSeqProperties
  <2> HIDE DEF gs
  <2> QED BY <1>1, <2>2
<1> HIDE DEF gs
<1>3. \A i \in 1..n + 1 : \A j \in 1..n : NoSnapshot(gs, i, j) => NoSnapshot(fs, i, j)
  BY <1>1, <1>2 DEF NoSnapshot
<1>4. \A i \in 1..n + 1 : NoSnapshot(gs, i, n) => NoSnapshot(fs, i, Len(fs))
  BY <1>1, <1>2 DEF NoSnapshot
<1>5. Chained(gs)
  <2> SUFFICES ASSUME NEW i \in 1..n, NEW j \in 1..n,
                      i < j, Shows(gs[i]), gs[j].type = "update",
                      NoSnapshot(gs, i + 1, j), gs[i].version = gs[j].base
               PROVE  Shown(gs[i]) = gs[j].from
    BY <1>2 DEF Chained
  <2>1. i \in 1..Len(fs) /\ j \in 1..Len(fs) /\ i + 1 \in 1..n + 1
    BY <1>1
  <2> QED BY <1>2, <1>3, <2>1 DEF Told, Chained
<1>6. LeadsTo(gs, wv, wh)
  <2> SUFFICES ASSUME NEW i \in 1..n, Shows(gs[i])
               PROVE  /\ gs[i].version <= wv
                      /\ NoSnapshot(gs, i + 1, n) /\ gs[i].version = wv => Shown(gs[i]) = wh
    BY <1>2 DEF LeadsTo
  <2>1. i \in 1..Len(fs) /\ i + 1 \in 1..n + 1
    BY <1>1
  <2> QED BY <1>2, <1>4, <2>1 DEF Told, LeadsTo
<1>7. ASSUME ~old
      PROVE  ComesFrom(gs, v, h) /\ Agree(gs, v, h, wv, wh)
  <2>1. ComesFrom(fs, v, h) /\ Agree(fs, v, h, wv, wh) /\ 1 \in 1..n + 1
    BY <1>1, <1>7 DEF Told
  <2>2. ASSUME NEW j \in 1..n, gs[j].type = "update", NoSnapshot(gs, 1, j), gs[j].base = v
        PROVE  gs[j].from = h
    BY <1>1, <1>2, <1>3, <2>1, <2>2 DEF ComesFrom
  <2>3. NoSnapshot(gs, 1, n) => NoSnapshot(fs, 1, Len(fs))
    BY <1>4, <2>1
  <2> QED BY <1>2, <2>1, <2>2, <2>3 DEF ComesFrom, Agree
<1> QED BY <1>5, <1>6, <1>7 DEF Told, gs

\* The mirror takes the first message, or refuses it and is stale.
LEMMA TakeTold ==
  ASSUME NEW M, NEW fs \in Seq(M), fs # <<>>, NEW old, NEW v, NEW h, NEW wv \in Nat, NEW wh,
         Told(fs, old, v, h, wv, wh),
         NEW old2, NEW v2, NEW h2,
         ~old2 => Shows(Head(fs)) /\ v2 = Head(fs).version /\ h2 = Shown(Head(fs))
  PROVE  Told(Tail(fs), old2, v2, h2, wv, wh)
<1> DEFINE gs == Tail(fs)
           n == Len(fs)
<1>1. /\ n \in Nat /\ n > 0 /\ Len(gs) = n - 1 /\ Head(fs) = fs[1]
      /\ \A i \in 1..n - 1 : gs[i] = fs[i + 1]
  OBVIOUS
<1> HIDE DEF gs, n
<1>2. \A i \in 1..n : \A j \in 0..n - 1 : NoSnapshot(gs, i, j) => NoSnapshot(fs, i + 1, j + 1)
  <2> SUFFICES ASSUME NEW i \in 1..n, NEW j \in 0..n - 1, NoSnapshot(gs, i, j),
                      NEW k \in i + 1..j + 1
               PROVE  fs[k].type # "snapshot"
    BY DEF NoSnapshot
  <2>1. k - 1 \in i..j /\ k - 1 \in 1..n - 1 /\ (k - 1) + 1 = k
    BY <1>1
  <2>2. gs[k - 1] = fs[k]
    BY <1>1, <2>1
  <2> QED BY <2>1, <2>2 DEF NoSnapshot
<1>3. Chained(gs)
  <2> SUFFICES ASSUME NEW i \in 1..n - 1, NEW j \in 1..n - 1,
                      i < j, Shows(gs[i]), gs[j].type = "update",
                      NoSnapshot(gs, i + 1, j), gs[i].version = gs[j].base
               PROVE  Shown(gs[i]) = gs[j].from
    BY <1>1 DEF Chained
  <2>1. i + 1 \in 1..n /\ j + 1 \in 1..n /\ i + 1 < j + 1 /\ j \in 0..n - 1
    BY <1>1
  <2>2. NoSnapshot(fs, (i + 1) + 1, j + 1)
    BY <1>2, <2>1
  <2> QED BY <1>1, <2>1, <2>2 DEF Told, Chained, n
<1>4. LeadsTo(gs, wv, wh)
  <2> SUFFICES ASSUME NEW i \in 1..n - 1, Shows(gs[i])
               PROVE  /\ gs[i].version <= wv
                      /\ NoSnapshot(gs, i + 1, n - 1) /\ gs[i].version = wv => Shown(gs[i]) = wh
    BY <1>1 DEF LeadsTo
  <2>1. i + 1 \in 1..n /\ n - 1 \in 0..n - 1 /\ (n - 1) + 1 = n
    BY <1>1
  <2>2. NoSnapshot(gs, i + 1, n - 1) => NoSnapshot(fs, (i + 1) + 1, n)
    BY <1>2, <2>1
  <2> QED BY <1>1, <2>1, <2>2 DEF Told, LeadsTo, n
<1>5. ASSUME ~old2
      PROVE  ComesFrom(gs, v2, h2) /\ Agree(gs, v2, h2, wv, wh)
  <2>1. Shows(fs[1]) /\ v2 = fs[1].version /\ h2 = Shown(fs[1]) /\ 1 \in 1..n
    BY <1>1, <1>5
  <2>2. ASSUME NEW j \in 1..n - 1, gs[j].type = "update", NoSnapshot(gs, 1, j), gs[j].base = v2
        PROVE  gs[j].from = h2
    <3>1. j + 1 \in 1..n /\ 1 < j + 1 /\ j \in 0..n - 1 /\ gs[j] = fs[j + 1]
      BY <1>1
    <3>2. NoSnapshot(fs, 1 + 1, j + 1)
      BY <1>2, <2>1, <2>2, <3>1
    <3> QED BY <2>1, <2>2, <3>1, <3>2 DEF Told, Chained, n
  <2>3. NoSnapshot(gs, 1, n - 1) => NoSnapshot(fs, 1 + 1, n)
    <3>1. n - 1 \in 0..n - 1 /\ (n - 1) + 1 = n
      BY <1>1
    <3> QED BY <1>2, <2>1, <3>1
  <2>4. v2 <= wv /\ (NoSnapshot(gs, 1, n - 1) /\ v2 = wv => h2 = wh)
    BY <2>1, <2>3 DEF Told, LeadsTo, n
  <2> QED BY <1>1, <2>2, <2>4 DEF ComesFrom, Agree
<1> QED BY <1>3, <1>4, <1>5 DEF Told, gs

\* Post and Lose on the channel as it is.
LEMMA PostTold ==
  ASSUME DomInv, VersionsTell, unnumbered' = {}, NEW m \in Message(page), Post(m),
         UNCHANGED <<stale, version, html>>,
         \/ m.type = "snapshot" /\ m.version = ver /\ ver' = ver /\ lastHtml' = m.html
         \/ /\ m.type = "update" /\ m.base = ver /\ m.from = lastHtml
            /\ ver' = m.version /\ lastHtml' = m.to
            /\ (m.version = ver /\ m.to = lastHtml) \/ m.version = ver + 1
         \/ m = Disconnected /\ UNCHANGED <<ver, lastHtml>>
  PROVE  Told(frames', stale', version', html', ver', lastHtml')
<1>1. /\ frames \in Seq(Message(page)) /\ version \in Nat /\ ver \in Nat
  BY DEF DomInv, ChannelOK, MirrorOK, LastOK
<1>2. unnumbered = {} /\ (~watching => m.type # "snapshot")
  BY DEF Post
<1>3. Told(frames, stale, version, html, ver, lastHtml)
  BY <1>2 DEF VersionsTell
<1>4. \A i \in 1..Len(frames) : Shows(frames[i]) => frames[i].version \in Nat
  <2> SUFFICES ASSUME NEW i \in 1..Len(frames), Shows(frames[i])
               PROVE  frames[i].version \in Nat
    OBVIOUS
  <2>1. frames[i] \in Message(page)
    BY <1>1, ElementOfSeq
  <2> QED BY <2>1 DEF Message, Shows, Disconnected
<1>5. CASE m.type = "snapshot" /\ m.version = ver /\ ver' = ver /\ lastHtml' = m.html
  <2>1. frames' = Append(frames, m)
    BY <1>2, <1>5 DEF Post
  <2> QED BY <1>1, <1>3, <1>5, <2>1, PostSnapshotTold
<1>6. CASE /\ m.type = "update" /\ m.base = ver /\ m.from = lastHtml
           /\ ver' = m.version /\ lastHtml' = m.to
           /\ (m.version = ver /\ m.to = lastHtml) \/ m.version = ver + 1
  <2>1. CASE watching
    <3>1. frames' = Append(frames, m)
      BY <2>1 DEF Post
    <3> QED BY <1>1, <1>3, <1>4, <1>6, <3>1, PostUpdateTold
  <2>2. CASE ~watching
    <3>1. frames' = frames
      BY <2>2 DEF Post
    <3>2. CASE m.version = ver /\ m.to = lastHtml
      BY <1>3, <1>6, <3>1, <3>2
    <3>3. CASE m.version = ver + 1
      BY <1>1, <1>3, <1>4, <1>6, <3>1, <3>3, UnheardTold
    <3> QED BY <1>6, <3>2, <3>3
  <2> QED BY <2>1, <2>2
<1>7. CASE m = Disconnected /\ UNCHANGED <<ver, lastHtml>>
  <2>1. m.type \notin {"snapshot", "update"}
    BY <1>7 DEF Disconnected
  <2>2. frames' = Append(frames, m) \/ frames' = frames
    BY DEF Post
  <2> QED BY <1>1, <1>3, <1>7, <2>1, <2>2, PostOtherTold
<1> QED BY <1>5, <1>6, <1>7

LEMMA LostTold ==
  ASSUME DomInv, VersionsTell, unnumbered' = {}, Lose,
         UNCHANGED <<stale, version, html, ver, lastHtml>>
  PROVE  Told(frames', stale', version', html', ver', lastHtml')
<1>1. PICK n \in 0..Len(frames) :
        /\ frames' = SubSeq(frames, 1, n)
        /\ unnumbered' = IF \E i \in n + 1..Len(frames) : frames[i].type = "snapshot"
                         THEN unnumbered \cup {"lost"} ELSE unnumbered
  BY DEF Lose
<1>2. unnumbered = {} /\ NoSnapshot(frames, n + 1, Len(frames))
  BY <1>1 DEF NoSnapshot
<1>3. frames \in Seq(Message(page)) /\ version \in Nat /\ ver \in Nat
  BY DEF DomInv, ChannelOK, MirrorOK, LastOK
<1>4. Told(frames, stale, version, html, ver, lastHtml)
  BY <1>2 DEF VersionsTell
<1> QED BY <1>1, <1>2, <1>3, <1>4, LoseTold

\* The mirror goes on as Told wants, and is not garbled.
LEMMA TakenTold ==
  ASSUME DomInv, VersionsTell, UpdatesFit, unnumbered = {}, MirrorStep
  PROVE  /\ Told(frames', stale', version', html', ver', lastHtml')
         /\ html' # Garbled
<1> DEFINE f == Head(frames)
<1>1. /\ frames # <<>> /\ frames' = Tail(frames) /\ ver' = ver /\ lastHtml' = lastHtml
  BY DEF MirrorStep, TakeUpdate, TakeSnapshot, TakeDisconnected, Takes, workerVars, lastVars
<1>2. /\ frames \in Seq(Message(page)) /\ ver \in Nat /\ page \in Nat /\ version \in Nat
      /\ Told(frames, stale, version, html, ver, lastHtml)
  BY DEF DomInv, ChannelOK, LastOK, BrowserOK, MirrorOK, VersionsTell
<1>3. f \in Message(page) /\ f = frames[1] /\ 1 \in 1..Len(frames)
  BY <1>1, <1>2
<1>4. html # Garbled
  BY DEF UpdatesFit
<1>5. \A n \in 0..page : n # Garbled
  BY <1>2, DomSyncAssumption
<1> HIDE DEF f
<1>6. ASSUME html' # Garbled,
             ~stale' => Shows(f) /\ version' = f.version /\ html' = Shown(f)
      PROVE  /\ Told(frames', stale', version', html', ver', lastHtml')
             /\ html' # Garbled
  BY <1>1, <1>2, <1>6, TakeTold DEF f
<1>7. CASE TakeUpdate
  <2>1. f.type = "update" /\ f.to \in 0..page
    BY <1>3, <1>7 DEF TakeUpdate, Takes, f, Message, Disconnected
  <2>2. CASE stale \/ version # f.base
    BY <1>4, <1>6, <1>7, <2>2 DEF TakeUpdate, f
  <2>3. CASE ~(stale \/ version # f.base)
    <3>1. html = f.from
      <4>1. ComesFrom(frames, version, html)
        BY <1>2, <2>3 DEF Told
      <4>2. NoSnapshot(frames, 1, 1)
        BY <1>3, <2>1 DEF NoSnapshot
      <4> QED BY <1>3, <2>1, <2>3, <4>1, <4>2 DEF ComesFrom
    <3>2. html' = f.to /\ version' = f.version
      BY <1>7, <2>3, <3>1 DEF TakeUpdate, f, Patched
    <3>3. Shows(f) /\ Shown(f) = f.to
      BY <2>1 DEF Shows, Shown
    <3> QED BY <1>5, <1>6, <2>1, <3>2, <3>3
  <2> QED BY <2>2, <2>3
<1>8. CASE TakeSnapshot
  <2>1. f.type = "snapshot" /\ f.html \in 0..page
    BY <1>3, <1>8 DEF TakeSnapshot, Takes, f, Message, Disconnected
  <2>2. html' = f.html /\ version' = f.version
    BY <1>8 DEF TakeSnapshot, f
  <2>3. Shows(f) /\ Shown(f) = f.html
    BY <2>1 DEF Shows, Shown
  <2> QED BY <1>5, <1>6, <2>1, <2>2, <2>3
<1>9. CASE TakeDisconnected
  BY <1>4, <1>6, <1>9 DEF TakeDisconnected
<1> QED BY <1>7, <1>8, <1>9 DEF MirrorStep

\* What the versions do not tell is never forgotten.
LEMMA UnnumberedGrows ==
  ASSUME [Next]_vars
  PROVE  unnumbered \subseteq unnumbered'
<1>1. CASE UNCHANGED unnumbered
  BY <1>1
<1>2. ASSUME NEW m, Post(m) PROVE unnumbered \subseteq unnumbered'
  BY <1>2 DEF Post
<1>3. CASE Lose
  BY <1>3 DEF Lose
<1>4. ASSUME NEW p, SnapshotStep(p)
      PROVE  unnumbered \subseteq unnumbered'
  <2>1. UNCHANGED channelVars \/ Post(Snapshot(ver, local[p].html))
    BY <1>4 DEF SnapshotStep, SnapshotRead, SnapshotInject, SnapshotSend, netVars
  <2> QED BY <1>2, <2>1 DEF channelVars
<1>5. CASE ReaderStep
  <2>1. CASE ResetVersion
    BY <2>1 DEF ResetVersion
  <2>2. CASE Greeted \/ TakeAsk \/ Restart \/ Disconnect
    BY <2>2 DEF Greeted, TakeAsk, Restart, Disconnect, netVars, channelVars
  <2> QED BY <1>4, <1>5, <2>1, <2>2 DEF ReaderStep
<1>6. CASE PollStep
  <2>1. CASE PollCompareUrl
    BY <1>2, <2>1 DEF PollCompareUrl, channelVars
  <2>2. CASE PollSend
    BY <1>2, <2>2 DEF PollSend, channelVars
  <2>3. CASE PollWake \/ PollCheck \/ PollDiscard \/ PollLook \/ PollDrain \/ PollAddress \/ PollRead
    BY <2>3 DEF PollWake, PollCheck, PollDiscard, PollLook, PollDrain, PollAddress, PollRead, netVars, channelVars
  <2> QED BY <1>4, <1>6, <2>1, <2>2, <2>3 DEF PollStep
<1>7. ASSUME NEW t \in Task, TaskStart(t) \/ TaskStep(t)
      PROVE  unnumbered \subseteq unnumbered'
  <2>1. CASE TaskRecord(t)
    BY <2>1 DEF TaskRecord
  <2>2. CASE TaskStart(t) \/ TaskRun(t) \/ TaskRead(t) \/ TaskInject(t)
    BY <2>2 DEF TaskStart, TaskRun, TaskRead, TaskInject, netVars, channelVars
  <2> QED BY <1>4, <1>7, <2>1, <2>2 DEF TaskStep
<1>8. CASE Connect \/ TakeRestart \/ Mutation \/ Load \/ UserAsk
  BY <1>8 DEF Connect, TakeRestart, Mutation, Load, UserAsk, netVars, channelVars
<1>9. CASE Drop \/ Leave
  BY <1>3, <1>9 DEF Drop, Leave
<1>10. CASE Notice
  BY <1>2, <1>10 DEF Notice
<1>11. CASE MirrorStep
  BY <1>11 DEF MirrorStep, TakeUpdate, TakeSnapshot, TakeDisconnected, Takes
<1>12. CASE \E newLink \in BOOLEAN : ComeBack(newLink)
  BY <1>12 DEF ComeBack
<1>13. CASE UNCHANGED vars
  BY <1>13 DEF vars, netVars, channelVars
<1> QED BY <1>5, <1>6, <1>7, <1>8, <1>9, <1>10, <1>11, <1>12, <1>13 DEF Next

\* Every step keeps what the versions tell.
LEMMA VersionsStep ==
  ASSUME DomInv, VersionsTell, UpdatesFit, [Next]_vars
  PROVE  VersionsTell' /\ UpdatesFit'
<1> SUFFICES ASSUME unnumbered' = {}
             PROVE  /\ Told(frames', stale', version', html', ver', lastHtml')
                    /\ html' # Garbled
  BY DEF VersionsTell, UpdatesFit
<1> DEFINE Goal == Told(frames', stale', version', html', ver', lastHtml')
<1>1. unnumbered = {}
  BY UnnumberedGrows
<1>2. Told(frames, stale, version, html, ver, lastHtml) /\ html # Garbled
  BY <1>1 DEF VersionsTell, UpdatesFit
<1>3. html' # Garbled
  BY <1>1, <1>2, MirrorAlone, TakenTold DEF mirrorVars, Leave, ComeBack
<1> SUFFICES Goal
  BY <1>3
<1>4. ASSUME UNCHANGED <<frames, stale, version, html, ver, lastHtml>>
      PROVE  Goal
  BY <1>2, <1>4
<1>5. /\ {"reader", "poll"} \subseteq Process /\ Task \subseteq Process
      /\ \A p \in Process : local[p].html \in 0..page
      /\ ver \in Nat /\ lastHtml \in 0..page
  BY DEF Process, DomInv, LocalOK, Read, LastOK
<1>6. ASSUME NEW p \in Process, SnapshotStep(p)
      PROVE  Goal
  <2>1. CASE SnapshotRead(p) \/ SnapshotInject(p)
    BY <1>4, <2>1 DEF SnapshotRead, SnapshotInject, lastVars, netVars, channelVars, mirrorVars
  <2>2. CASE SnapshotSend(p) /\ ~linked
    BY <1>4, <2>2 DEF SnapshotSend, channelVars, mirrorVars
  <2>3. CASE SnapshotSend(p) /\ linked
    <3> DEFINE m == Snapshot(ver, local[p].html)
    <3>1. m \in Message(page) /\ m.type = "snapshot" /\ m.version = ver /\ m.html = local[p].html
      BY <1>5 DEF Snapshot, Message
    <3>2. /\ Post(m) /\ ver' = ver /\ lastHtml' = local[p].html
          /\ UNCHANGED <<stale, version, html>>
      BY <2>3 DEF SnapshotSend, mirrorVars
    <3> HIDE DEF m
    <3> QED BY <3>1, <3>2, PostTold
  <2> QED BY <1>6, <2>1, <2>2, <2>3 DEF SnapshotStep
<1>7. CASE ReaderStep
  <2>1. ~ResetVersion
    BY DEF ResetVersion
  <2>2. CASE Greeted \/ TakeAsk \/ Restart \/ Disconnect
    BY <1>4, <2>2 DEF Greeted, TakeAsk, Restart, Disconnect, lastVars, netVars, channelVars, mirrorVars
  <2> QED BY <1>5, <1>6, <1>7, <2>1, <2>2 DEF ReaderStep
<1>8. CASE PollStep
  <2>1. CASE PollCompareUrl
    <3> DEFINE m == Update(ver, ver, lastHtml, lastHtml)
    <3>1. /\ m \in Message(page) /\ m.type = "update" /\ m.base = ver /\ m.from = lastHtml
          /\ m.version = ver /\ m.to = lastHtml
      BY <1>5 DEF Update, Message
    <3>2. /\ Post(m) \/ UNCHANGED channelVars
          /\ UNCHANGED <<ver, lastHtml, stale, version, html>>
      BY <2>1 DEF PollCompareUrl, mirrorVars
    <3> HIDE DEF m
    <3>3. CASE Post(m)
      BY <3>1, <3>2, <3>3, PostTold
    <3> QED BY <1>4, <3>2, <3>3 DEF channelVars
  <2>2. CASE PollSend
    <3> DEFINE m == Update(ver, ver + 1, lastHtml, local["poll"].html)
    <3>1. /\ m \in Message(page) /\ m.type = "update" /\ m.base = ver /\ m.from = lastHtml
          /\ m.version = ver + 1 /\ m.to = local["poll"].html
      BY <1>5 DEF Update, Message
    <3>2. /\ UNCHANGED <<stale, version, html>>
          /\ \/ Post(m) /\ ver' = ver + 1 /\ lastHtml' = local["poll"].html
             \/ UNCHANGED <<frames, ver, lastHtml>>
      BY <2>2 DEF PollSend, mirrorVars, channelVars
    <3> HIDE DEF m
    <3>3. CASE Post(m) /\ ver' = ver + 1 /\ lastHtml' = local["poll"].html
      BY <3>1, <3>2, <3>3, PostTold
    <3> QED BY <1>4, <3>2, <3>3
  <2>3. CASE PollWake \/ PollCheck \/ PollDiscard \/ PollLook \/ PollDrain \/ PollAddress \/ PollRead
    BY <1>4, <2>3 DEF PollWake, PollCheck, PollDiscard, PollLook, PollDrain, PollAddress, PollRead, lastVars, netVars, channelVars,
                      mirrorVars
  <2> QED BY <1>5, <1>6, <1>8, <2>1, <2>2, <2>3 DEF PollStep
<1>9. ASSUME NEW t \in Task, TaskStart(t) \/ TaskStep(t)
      PROVE  Goal
  <2>1. ~TaskRecord(t)
    BY DEF TaskRecord
  <2>2. CASE TaskStart(t) \/ TaskRun(t) \/ TaskRead(t) \/ TaskInject(t)
    BY <1>4, <2>2 DEF TaskStart, TaskRun, TaskRead, TaskInject, lastVars, netVars, channelVars,
                      mirrorVars
  <2> QED BY <1>5, <1>6, <1>9, <2>1, <2>2 DEF TaskStep
<1>10. CASE Connect \/ TakeRestart
  BY <1>4, <1>10 DEF Connect, TakeRestart, lastVars, netVars, channelVars, mirrorVars
<1>11. CASE Mutation \/ Load \/ UserAsk
  BY <1>4, <1>11 DEF Mutation, Load, UserAsk, workerVars, lastVars, netVars, channelVars, mirrorVars
<1>12. CASE Drop
  BY <1>12, LostTold DEF Drop, workerVars, lastVars, mirrorVars
<1>13. CASE Leave
  BY <1>13, LostTold DEF Leave, workerVars, lastVars
<1>14. CASE Notice
  <2>1. Disconnected \in Message(page)
    BY DEF Message
  <2>2. Post(Disconnected) /\ UNCHANGED <<ver, lastHtml, stale, version, html>>
    BY <1>14 DEF Notice, workerVars, lastVars, mirrorVars
  <2> QED BY <2>1, <2>2, PostTold
<1>15. CASE MirrorStep
  BY <1>1, <1>15, TakenTold
<1>16. ASSUME NEW newLink \in BOOLEAN, ComeBack(newLink)
       PROVE  Goal
  <2>1. /\ UNCHANGED <<ver, lastHtml, version, html>>
        /\ frames' = frames \/ frames' = Append(frames, Disconnected)
        /\ ~stale' => ~stale
    BY <1>16 DEF ComeBack, workerVars, lastVars
  <2>2. Told(frames, stale', version, html, ver, lastHtml)
    BY <1>2, <2>1 DEF Told
  <2>3. /\ frames \in Seq(Message(page)) /\ version \in Nat
        /\ Disconnected \in Message(page) /\ Disconnected.type \notin {"snapshot", "update"}
    BY DEF DomInv, ChannelOK, MirrorOK, Message, Disconnected
  <2>4. Told(Append(frames, Disconnected), stale', version, html, ver, lastHtml)
    BY <1>5, <2>2, <2>3, PostOtherTold
  <2> QED BY <2>1, <2>2, <2>4
<1>17. CASE UNCHANGED vars
  BY <1>4, <1>17 DEF vars, workerVars, lastVars, netVars, channelVars, mirrorVars
<1> QED BY <1>7, <1>8, <1>9, <1>10, <1>11, <1>12, <1>13, <1>14, <1>15, <1>16, <1>17 DEF Next

LEMMA VersionsStart == Init => VersionsTell /\ UpdatesFit
<1> SUFFICES ASSUME Init PROVE VersionsTell /\ UpdatesFit
  OBVIOUS
<1>1. frames = <<>> /\ html = 0 /\ stale = TRUE
  BY DEF Init
<1>2. Len(frames) = 0
  BY <1>1, EmptySeq
<1>3. Chained(frames) /\ LeadsTo(frames, ver, lastHtml)
  BY <1>2 DEF Chained, LeadsTo
<1> QED BY <1>1, <1>3, DomSyncAssumption DEF VersionsTell, Told, UpdatesFit

\* However many differences a mirror misses, on a broken link or while it is away,
\* and whatever the poll loop, the navigations and the resyncs do meanwhile, none
\* is ever applied to a page it does not fit (state_manager.py:149), unless a
\* snapshot was lost, a navigation has recorded its page before sending it, or a
\* restart has set the version back.
THEOREM VersionsProtect == Spec => []UpdatesFit
<1>1. DomInv /\ VersionsTell /\ UpdatesFit /\ [Next]_vars => VersionsTell' /\ UpdatesFit'
  BY VersionsStep
<1> QED BY <1>1, VersionsStart, DomInvHolds, PTL DEF Spec
-----------------------------------------------------------------------------
(* The worker and a mirror that has its version *)

\* No snapshot follows message i.
Recent(fs, i) == NoSnapshot(fs, i + 1, Len(fs))

\* Told, of the last snapshot and what follows it only: what came before it, under
\* versions of before a restart or from a page that was not sent, the snapshot
\* will put right.
RecentTold(fs, old, v, h, wv, wh) ==
  /\ \A i, j \in 1..Len(fs) :
       i < j /\ Recent(fs, i) /\ Shows(fs[i]) /\ fs[j].type = "update" /\ fs[i].version = fs[j].base
       => Shown(fs[i]) = fs[j].from
  /\ \A i \in 1..Len(fs) :
       Recent(fs, i) /\ Shows(fs[i])
       => fs[i].version <= wv /\ (fs[i].version = wv => Shown(fs[i]) = wh)
  /\ ~old /\ NoSnapshot(fs, 1, Len(fs)) =>
       /\ \A j \in 1..Len(fs) : fs[j].type = "update" /\ fs[j].base = v => fs[j].from = h
       /\ v <= wv /\ (v = wv => h = wh)

\* A snapshot is sent: nothing before it matters any more.
LEMMA PostSnapshotRecent ==
  ASSUME NEW M, NEW fs \in Seq(M), NEW old, NEW v, NEW h,
         NEW f \in M, f.type = "snapshot", f.version \in Nat
  PROVE  RecentTold(Append(fs, f), old, v, h, f.version, f.html)
<1> DEFINE gs == Append(fs, f)
           n == Len(fs)
<1>1. n \in Nat /\ Len(gs) = n + 1 /\ gs[n + 1] = f
  OBVIOUS
<1> HIDE DEF gs, n
<1>2. \A i \in 1..n : ~Recent(gs, i)
  BY <1>1 DEF Recent, NoSnapshot
<1>3. ~NoSnapshot(gs, 1, n + 1)
  BY <1>1 DEF NoSnapshot
<1>4. Shown(f) = f.html
  BY DEF Shown
<1>5. \A i \in 1..n + 1 : Recent(gs, i) => i = n + 1
  BY <1>1, <1>2
<1> QED BY <1>1, <1>3, <1>4, <1>5 DEF RecentTold, gs

\* A difference is sent: to the next version, or to the same one and page.
LEMMA PostUpdateRecent ==
  ASSUME NEW M, NEW fs \in Seq(M), NEW old, NEW v \in Nat, NEW h, NEW wv \in Nat, NEW wh,
         \A i \in 1..Len(fs) : Shows(fs[i]) => fs[i].version \in Nat,
         RecentTold(fs, old, v, h, wv, wh),
         NEW u \in M, u.type = "update", u.base = wv, u.from = wh,
         (u.version = wv /\ u.to = wh) \/ u.version = wv + 1
  PROVE  RecentTold(Append(fs, u), old, v, h, u.version, u.to)
<1> DEFINE gs == Append(fs, u)
           n == Len(fs)
<1>1. n \in Nat /\ Len(gs) = n + 1 /\ gs[n + 1] = u /\ \A i \in 1..n : gs[i] = fs[i]
  OBVIOUS
<1> HIDE DEF gs, n
<1>2. \A i \in 1..n : Recent(gs, i) => Recent(fs, i)
  BY <1>1 DEF Recent, NoSnapshot, n
<1>3. NoSnapshot(gs, 1, n + 1) => NoSnapshot(fs, 1, n)
  BY <1>1 DEF NoSnapshot
<1>4. Shown(u) = u.to
  BY DEF Shown
<1>5. \A i \in 1..n : Recent(fs, i) /\ Shows(fs[i])
        => fs[i].version <= wv /\ (fs[i].version = wv => Shown(fs[i]) = wh)
  BY DEF RecentTold, n
<1>6. ASSUME NEW i \in 1..n + 1, NEW j \in 1..n + 1, i < j, Recent(gs, i), Shows(gs[i]),
             gs[j].type = "update", gs[i].version = gs[j].base
      PROVE  Shown(gs[i]) = gs[j].from
  <2>1. i \in 1..n /\ gs[i] = fs[i] /\ Recent(fs, i)
    BY <1>1, <1>2, <1>6
  <2>2. CASE j \in 1..n
    BY <1>1, <1>6, <2>1, <2>2 DEF RecentTold, n
  <2>3. CASE j = n + 1
    BY <1>1, <1>5, <1>6, <2>1, <2>3
  <2> QED BY <1>1, <2>2, <2>3
<1>7. ASSUME NEW i \in 1..n + 1, Recent(gs, i), Shows(gs[i])
      PROVE  gs[i].version <= u.version /\ (gs[i].version = u.version => Shown(gs[i]) = u.to)
  <2>1. CASE i \in 1..n
    <3>1. gs[i] = fs[i] /\ Recent(fs, i) /\ fs[i].version \in Nat
      BY <1>1, <1>2, <1>7, <2>1 DEF n
    <3> QED BY <1>5, <1>7, <2>1, <3>1
  <2>2. CASE i = n + 1
    BY <1>1, <1>4, <2>2
  <2> QED BY <1>1, <2>1, <2>2
<1>8. ASSUME ~old, NoSnapshot(gs, 1, n + 1)
      PROVE  /\ \A j \in 1..n + 1 : gs[j].type = "update" /\ gs[j].base = v => gs[j].from = h
             /\ v <= u.version /\ (v = u.version => h = u.to)
  <2>1. /\ \A j \in 1..n : fs[j].type = "update" /\ fs[j].base = v => fs[j].from = h
        /\ v <= wv /\ (v = wv => h = wh)
    BY <1>3, <1>8 DEF RecentTold, n
  <2>2. ASSUME NEW j \in 1..n + 1, gs[j].type = "update", gs[j].base = v
        PROVE  gs[j].from = h
    <3>1. j \in 1..n \/ j = n + 1
      BY <1>1
    <3> QED BY <1>1, <2>1, <2>2, <3>1
  <2> QED BY <2>1, <2>2
<1> QED BY <1>1, <1>6, <1>7, <1>8 DEF RecentTold, gs

\* A message about something else.
LEMMA PostOtherRecent ==
  ASSUME NEW M, NEW fs \in Seq(M), NEW old, NEW v, NEW h, NEW wv, NEW wh,
         RecentTold(fs, old, v, h, wv, wh),
         NEW f \in M, f.type \notin {"snapshot", "update"}
  PROVE  RecentTold(Append(fs, f), old, v, h, wv, wh)
<1> DEFINE gs == Append(fs, f)
           n == Len(fs)
<1>1. n \in Nat /\ Len(gs) = n + 1 /\ gs[n + 1] = f /\ \A i \in 1..n : gs[i] = fs[i]
  OBVIOUS
<1> HIDE DEF gs, n
<1>2. \A i \in 1..n : Recent(gs, i) => Recent(fs, i)
  BY <1>1 DEF Recent, NoSnapshot, n
<1>3. NoSnapshot(gs, 1, n + 1) => NoSnapshot(fs, 1, n)
  BY <1>1 DEF NoSnapshot
<1>4. \A i \in 1..n + 1 : Shows(gs[i]) \/ gs[i].type = "update" => i \in 1..n
  BY <1>1 DEF Shows
<1>5. ASSUME NEW i \in 1..n + 1, NEW j \in 1..n + 1, i < j, Recent(gs, i), Shows(gs[i]),
             gs[j].type = "update", gs[i].version = gs[j].base
      PROVE  Shown(gs[i]) = gs[j].from
  <2>1. i \in 1..n /\ j \in 1..n
    BY <1>4, <1>5
  <2> QED BY <1>1, <1>2, <1>5, <2>1 DEF RecentTold, n
<1>6. ASSUME NEW i \in 1..n + 1, Recent(gs, i), Shows(gs[i])
      PROVE  gs[i].version <= wv /\ (gs[i].version = wv => Shown(gs[i]) = wh)
  <2>1. i \in 1..n
    BY <1>4, <1>6
  <2> QED BY <1>1, <1>2, <1>6, <2>1 DEF RecentTold, n
<1>7. ASSUME ~old, NoSnapshot(gs, 1, n + 1)
      PROVE  /\ \A j \in 1..n + 1 : gs[j].type = "update" /\ gs[j].base = v => gs[j].from = h
             /\ v <= wv /\ (v = wv => h = wh)
  BY <1>1, <1>3, <1>4, <1>7 DEF RecentTold, n
<1> QED BY <1>1, <1>5, <1>6, <1>7 DEF RecentTold, gs

\* Differences that nobody hears leave a gap between the versions.
LEMMA UnheardRecent ==
  ASSUME NEW M, NEW fs \in Seq(M), NEW old, NEW v \in Nat, NEW h, NEW wv \in Nat, NEW wh, NEW to,
         \A i \in 1..Len(fs) : Shows(fs[i]) => fs[i].version \in Nat,
         RecentTold(fs, old, v, h, wv, wh)
  PROVE  RecentTold(fs, old, v, h, wv + 1, to)
<1>1. \A i \in 1..Len(fs) :
        Recent(fs, i) /\ Shows(fs[i]) => fs[i].version <= wv + 1 /\ fs[i].version # wv + 1
  BY DEF RecentTold
<1> QED BY <1>1 DEF RecentTold

\* The last messages are lost, no snapshot among them.
LEMMA LoseRecent ==
  ASSUME NEW M, NEW fs \in Seq(M), NEW old, NEW v, NEW h, NEW wv, NEW wh,
         RecentTold(fs, old, v, h, wv, wh),
         NEW n \in 0..Len(fs), NoSnapshot(fs, n + 1, Len(fs))
  PROVE  RecentTold(SubSeq(fs, 1, n), old, v, h, wv, wh)
<1> DEFINE gs == SubSeq(fs, 1, n)
<1>1. n \in Nat /\ Len(fs) \in Nat /\ n <= Len(fs)
  OBVIOUS
<1>2. Len(gs) = n /\ \A i \in 1..n : gs[i] = fs[i]
  <2>1. \A i \in 1..n : fs[i] \in M
    BY <1>1, ElementOfSeq
  <2>2. /\ Len(gs) = IF 1 <= n THEN n - 1 + 1 ELSE 0
        /\ \A i \in 1..n - 1 + 1 : gs[i] = fs[1 + i - 1]
    BY <1>1, <2>1, SubSeqProperties
  <2> HIDE DEF gs
  <2> QED BY <1>1, <2>2
<1> HIDE DEF gs
<1>3. \A i \in 1..n : Recent(gs, i) => Recent(fs, i)
  BY <1>1, <1>2 DEF Recent, NoSnapshot
<1>4. NoSnapshot(gs, 1, n) => NoSnapshot(fs, 1, Len(fs))
  BY <1>1, <1>2 DEF NoSnapshot
<1>5. \A i \in 1..n : i \in 1..Len(fs)
  BY <1>1
<1> QED BY <1>2, <1>3, <1>4, <1>5 DEF RecentTold, gs

\* The mirror takes the first message, or refuses it and is stale; what it makes
\* of it matters only where no snapshot follows.
LEMMA TakeRecent ==
  ASSUME NEW M, NEW fs \in Seq(M), fs # <<>>, NEW old, NEW v, NEW h, NEW wv \in Nat, NEW wh,
         RecentTold(fs, old, v, h, wv, wh),
         NEW old2, NEW v2, NEW h2,
         ~old2 /\ Recent(fs, 1) => Shows(Head(fs)) /\ v2 = Head(fs).version /\ h2 = Shown(Head(fs))
  PROVE  RecentTold(Tail(fs), old2, v2, h2, wv, wh)
<1> DEFINE gs == Tail(fs)
           n == Len(fs)
<1>1. /\ n \in Nat /\ n > 0 /\ Len(gs) = n - 1 /\ Head(fs) = fs[1]
      /\ \A i \in 1..n - 1 : gs[i] = fs[i + 1]
  OBVIOUS
<1> HIDE DEF gs, n
<1>2. \A i \in 0..n - 1 : NoSnapshot(gs, i + 1, n - 1) => Recent(fs, i + 1)
  <2> SUFFICES ASSUME NEW i \in 0..n - 1, NoSnapshot(gs, i + 1, n - 1), NEW k \in (i + 1) + 1..n
               PROVE  fs[k].type # "snapshot"
    BY DEF Recent, NoSnapshot, n
  <2>1. k - 1 \in i + 1..n - 1 /\ k - 1 \in 1..n - 1 /\ (k - 1) + 1 = k
    BY <1>1
  <2>2. gs[k - 1] = fs[k]
    BY <1>1, <2>1
  <2> QED BY <2>1, <2>2 DEF NoSnapshot
<1>3. \A i \in 1..n - 1 : Recent(gs, i) => Recent(fs, i + 1)
  BY <1>1, <1>2 DEF Recent
<1>4. ASSUME NEW i \in 1..n - 1, NEW j \in 1..n - 1, i < j, Recent(gs, i), Shows(gs[i]),
             gs[j].type = "update", gs[i].version = gs[j].base
      PROVE  Shown(gs[i]) = gs[j].from
  <2>1. i + 1 \in 1..n /\ j + 1 \in 1..n /\ i + 1 < j + 1
    BY <1>1, <1>4
  <2> QED BY <1>1, <1>3, <1>4, <2>1 DEF RecentTold, n
<1>5. ASSUME NEW i \in 1..n - 1, Recent(gs, i), Shows(gs[i])
      PROVE  gs[i].version <= wv /\ (gs[i].version = wv => Shown(gs[i]) = wh)
  <2>1. i + 1 \in 1..n
    BY <1>1
  <2> QED BY <1>1, <1>3, <1>5, <2>1 DEF RecentTold, n
<1>6. ASSUME ~old2, NoSnapshot(gs, 1, n - 1)
      PROVE  /\ \A j \in 1..n - 1 : gs[j].type = "update" /\ gs[j].base = v2 => gs[j].from = h2
             /\ v2 <= wv /\ (v2 = wv => h2 = wh)
  <2>1. Recent(fs, 1) /\ 1 \in 1..n
    BY <1>1, <1>2, <1>6
  <2>2. Shows(fs[1]) /\ v2 = fs[1].version /\ h2 = Shown(fs[1])
    BY <1>1, <1>6, <2>1
  <2>3. ASSUME NEW j \in 1..n - 1, gs[j].type = "update", gs[j].base = v2
        PROVE  gs[j].from = h2
    <3>1. j + 1 \in 1..n /\ 1 < j + 1 /\ gs[j] = fs[j + 1]
      BY <1>1
    <3> QED BY <2>1, <2>2, <2>3, <3>1 DEF RecentTold, n
  <2>4. v2 <= wv /\ (v2 = wv => h2 = wh)
    BY <2>1, <2>2 DEF RecentTold, n
  <2> QED BY <2>3, <2>4
<1> QED BY <1>1, <1>4, <1>5, <1>6 DEF RecentTold, gs

\* Where a coroutine is whose snapshot is still to come.
Sending == {"off", "snapshot", "snapshot inject", "snapshot send"}
MirrorTold ==
  "lost" \notin unnumbered
    => SnapshotComes \/ RecentTold(frames, stale, version, html, ver, lastHtml)

\* What is to come stays so until it is posted.
LEMMA SnapshotComesStep ==
  ASSUME LockOK, SnapshotComes, [Next]_vars
  PROVE  SnapshotComes' \/ \E p \in Process : SnapshotSend(p) /\ linked
<1> DEFINE Goal == SnapshotComes' \/ \E p \in Process : SnapshotSend(p) /\ linked
<1>1. at \in [Process -> Place]
  BY DEF LockOK
<1>2. Task \subseteq Process /\ "reader" \in Process /\ "poll" \in Process
  BY DEF Process
<1>3. ASSUME linked' => linked, UNCHANGED at
      PROVE  Goal
  BY <1>3 DEF SnapshotComes
<1>4. ASSUME UNCHANGED linked, NEW p \in Process, NEW place, at' = [at EXCEPT ![p] = place],
             at[p] \notin Sending \/ place \in Sending
      PROVE  Goal
  <2>1. CASE ~linked
    BY <1>4, <2>1 DEF SnapshotComes
  <2>2. ASSUME NEW q \in Process, at[q] \in Sending
        PROVE  at'[q] \in Sending
    BY <1>1, <1>4, <2>2
  <2> QED BY <1>4, <2>1, <2>2 DEF SnapshotComes, Sending
<1>5. ASSUME NEW p \in Process, SnapshotStep(p)
      PROVE  Goal
  <2>1. CASE SnapshotRead(p)
    BY <1>4, <2>1 DEF SnapshotRead, Reads, Sending, netVars
  <2>2. CASE SnapshotInject(p)
    BY <1>4, <2>2 DEF SnapshotInject, Reads, Sending, netVars
  <2>3. CASE SnapshotSend(p)
    BY <2>3 DEF SnapshotSend, SnapshotComes
  <2> QED BY <1>5, <2>1, <2>2, <2>3 DEF SnapshotStep
<1>6. CASE ReaderStep
  <2>1. CASE TakeAsk \/ ResetVersion \/ Disconnect
    <3>1. /\ UNCHANGED linked
          /\ at' = [at EXCEPT !["reader"] = "snapshot"] \/ at' = [at EXCEPT !["reader"] = "off"]
      BY <2>1 DEF TakeAsk, ResetVersion, Disconnect, Goes, netVars
    <3> QED BY <1>2, <1>4, <3>1 DEF Sending
  <2>2. CASE Greeted \/ Restart
    <3>1. /\ UNCHANGED linked /\ at["reader"] \notin Sending
          /\ at' = [at EXCEPT !["reader"] = "read"] \/ at' = [at EXCEPT !["reader"] = "reset"]
      BY <2>2 DEF Greeted, Restart, Goes, netVars, Sending
    <3> QED BY <1>2, <1>4, <3>1
  <2> QED BY <1>2, <1>5, <1>6, <2>1, <2>2 DEF ReaderStep
<1>7. CASE PollStep
  <2>1. CASE \/ PollWake \/ PollCheck \/ PollDiscard \/ PollLook \/ PollDrain \/ PollAddress
             \/ PollRead \/ PollCompareUrl \/ PollSend
    <3>1. UNCHANGED linked /\ at["poll"] \notin Sending
      BY <2>1 DEF PollWake, PollCheck, PollDiscard, PollLook, PollDrain, PollAddress, PollRead,
                  PollCompareUrl, PollSend, netVars, Sending
    <3>2. \E place \in {"awake", "discard", "watch", "idle", "looked", "drained", "addressed",
                       "compare url", "snapshot", "compare"} :
            at' = [at EXCEPT !["poll"] = place]
      BY <2>1 DEF PollWake, PollCheck, PollDiscard, PollLook, PollDrain, PollAddress, PollRead,
                  PollCompareUrl, PollSend, Goes, Ends, Reads
    <3> QED BY <1>2, <1>4, <3>1, <3>2
  <2> QED BY <1>2, <1>5, <1>7, <2>1 DEF PollStep
<1>8. ASSUME NEW t \in Task, TaskStart(t) \/ TaskStep(t)
      PROVE  Goal
  <2>1. CASE TaskStart(t) \/ TaskRun(t) \/ TaskRead(t) \/ TaskInject(t) \/ TaskRecord(t)
    <3>1. UNCHANGED linked /\ at[t] \notin Sending
      BY <2>1 DEF TaskStart, TaskRun, TaskRead, TaskInject, TaskRecord, netVars, Sending
    <3>2. \/ at' = [at EXCEPT ![t] = "queued"] \/ at' = [at EXCEPT ![t] = "page"]
          \/ at' = [at EXCEPT ![t] = "ended"] \/ at' = [at EXCEPT ![t] = "inject"]
          \/ at' = [at EXCEPT ![t] = "record"] \/ at' = [at EXCEPT ![t] = "snapshot"]
      BY <2>1 DEF TaskStart, TaskRun, TaskRead, TaskInject, TaskRecord, Goes, Ends, Reads
    <3> QED BY <1>2, <1>4, <3>1, <3>2
  <2> QED BY <1>2, <1>5, <1>8, <2>1 DEF TaskStep
<1>9. CASE Connect
  <2>1. at'["reader"] = "snapshot"
    BY <1>1, <1>2, <1>9 DEF Connect, Goes
  <2> QED BY <1>2, <2>1 DEF SnapshotComes, Sending
<1>10. CASE TakeRestart
  <2>1. /\ UNCHANGED linked /\ at["reader"] \notin Sending
        /\ at' = [at EXCEPT !["reader"] = "restart"]
    BY <1>10 DEF TakeRestart, Goes, netVars, Sending
  <2> QED BY <1>2, <1>4, <2>1
<1>11. CASE Mutation \/ Load \/ Drop \/ Notice \/ UserAsk
  BY <1>3, <1>11 DEF Mutation, Load, Drop, Notice, UserAsk, workerVars, coroutineVars, netVars
<1>12. CASE MirrorStep
  BY <1>3, <1>12 DEF MirrorStep, TakeUpdate, TakeSnapshot, TakeDisconnected, Takes, workerVars,
                     coroutineVars
<1>13. CASE Leave \/ \E newLink \in BOOLEAN : ComeBack(newLink)
  BY <1>3, <1>13 DEF Leave, ComeBack, workerVars, coroutineVars
<1>14. CASE UNCHANGED vars
  BY <1>3, <1>14 DEF vars, workerVars, coroutineVars, netVars
<1> QED BY <1>6, <1>7, <1>8, <1>9, <1>10, <1>11, <1>12, <1>13, <1>14 DEF Next

\* Whatever was before, the snapshot that is posted sets it right.
LEMMA SnapshotSetsRight ==
  ASSUME DomInv, NEW p \in Process, SnapshotSend(p), linked, "lost" \notin unnumbered'
  PROVE  RecentTold(frames', stale', version', html', ver', lastHtml')
<1> DEFINE m == Snapshot(ver, local[p].html)
<1>1. /\ local[p].html \in 0..page /\ ver \in Nat /\ frames \in Seq(Message(page))
  BY DEF DomInv, LocalOK, Read, LastOK, ChannelOK
<1>2. m \in Message(page) /\ m.type = "snapshot" /\ m.version = ver /\ m.html = local[p].html
  BY <1>1 DEF Snapshot, Message
<1>3. /\ Post(m) /\ ver' = ver /\ lastHtml' = local[p].html
      /\ UNCHANGED <<stale, version, html>>
  BY DEF SnapshotSend, mirrorVars
<1> HIDE DEF m
<1>4. frames' = Append(frames, m)
  BY <1>2, <1>3 DEF Post
<1> QED BY <1>1, <1>2, <1>3, <1>4, PostSnapshotRecent

\* Differences and other messages on the channel as it is.
LEMMA PostRecent ==
  ASSUME DomInv, RecentTold(frames, stale, version, html, ver, lastHtml),
         NEW m \in Message(page), Post(m), UNCHANGED <<stale, version, html>>,
         \/ /\ m.type = "update" /\ m.base = ver /\ m.from = lastHtml
            /\ ver' = m.version /\ lastHtml' = m.to
            /\ (m.version = ver /\ m.to = lastHtml) \/ m.version = ver + 1
         \/ m = Disconnected /\ UNCHANGED <<ver, lastHtml>>
  PROVE  RecentTold(frames', stale', version', html', ver', lastHtml')
<1>1. /\ frames \in Seq(Message(page)) /\ version \in Nat /\ ver \in Nat
  BY DEF DomInv, ChannelOK, MirrorOK, LastOK
<1>2. \A i \in 1..Len(frames) : Shows(frames[i]) => frames[i].version \in Nat
  <2> SUFFICES ASSUME NEW i \in 1..Len(frames), Shows(frames[i])
               PROVE  frames[i].version \in Nat
    OBVIOUS
  <2>1. frames[i] \in Message(page)
    BY <1>1, ElementOfSeq
  <2> QED BY <2>1 DEF Message, Shows, Disconnected
<1>3. CASE /\ m.type = "update" /\ m.base = ver /\ m.from = lastHtml
           /\ ver' = m.version /\ lastHtml' = m.to
           /\ (m.version = ver /\ m.to = lastHtml) \/ m.version = ver + 1
  <2>1. CASE watching
    <3>1. frames' = Append(frames, m)
      BY <2>1 DEF Post
    <3> QED BY <1>1, <1>2, <1>3, <3>1, PostUpdateRecent
  <2>2. CASE ~watching
    <3>1. frames' = frames
      BY <2>2 DEF Post
    <3>2. CASE m.version = ver /\ m.to = lastHtml
      BY <1>3, <3>1, <3>2
    <3>3. CASE m.version = ver + 1
      BY <1>1, <1>2, <1>3, <3>1, <3>3, UnheardRecent
    <3> QED BY <1>3, <3>2, <3>3
  <2> QED BY <2>1, <2>2
<1>4. CASE m = Disconnected /\ UNCHANGED <<ver, lastHtml>>
  <2>1. m.type \notin {"snapshot", "update"}
    BY <1>4 DEF Disconnected
  <2>2. frames' = Append(frames, m) \/ frames' = frames
    BY DEF Post
  <2> QED BY <1>1, <1>4, <2>1, <2>2, PostOtherRecent
<1> QED BY <1>3, <1>4

LEMMA LostRecent ==
  ASSUME DomInv, RecentTold(frames, stale, version, html, ver, lastHtml),
         "lost" \notin unnumbered', Lose,
         UNCHANGED <<stale, version, html, ver, lastHtml>>
  PROVE  RecentTold(frames', stale', version', html', ver', lastHtml')
<1>1. PICK n \in 0..Len(frames) :
        /\ frames' = SubSeq(frames, 1, n)
        /\ unnumbered' = IF \E i \in n + 1..Len(frames) : frames[i].type = "snapshot"
                         THEN unnumbered \cup {"lost"} ELSE unnumbered
  BY DEF Lose
<1>2. NoSnapshot(frames, n + 1, Len(frames))
  BY <1>1 DEF NoSnapshot
<1>3. frames \in Seq(Message(page))
  BY DEF DomInv, ChannelOK
<1> QED BY <1>1, <1>2, <1>3, LoseRecent

\* The mirror may make garbage of an update, but only where a snapshot follows.
LEMMA TakenRecent ==
  ASSUME DomInv, RecentTold(frames, stale, version, html, ver, lastHtml), MirrorStep
  PROVE  RecentTold(frames', stale', version', html', ver', lastHtml')
<1> DEFINE f == Head(frames)
<1>1. /\ frames # <<>> /\ frames' = Tail(frames) /\ ver' = ver /\ lastHtml' = lastHtml
  BY DEF MirrorStep, TakeUpdate, TakeSnapshot, TakeDisconnected, Takes, workerVars, lastVars
<1>2. /\ frames \in Seq(Message(page)) /\ ver \in Nat
  BY DEF DomInv, ChannelOK, LastOK
<1>3. f = frames[1] /\ 1 \in 1..Len(frames) /\ Len(frames) \in Nat
  BY <1>1, <1>2
<1> HIDE DEF f
<1>4. ASSUME ~stale' /\ Recent(frames, 1) => Shows(f) /\ version' = f.version /\ html' = Shown(f)
      PROVE  RecentTold(frames', stale', version', html', ver', lastHtml')
  BY <1>1, <1>2, <1>4, TakeRecent DEF f
<1>5. CASE TakeUpdate
  <2>1. f.type = "update"
    BY <1>5 DEF TakeUpdate, Takes, f
  <2>2. CASE stale \/ version # f.base
    BY <1>4, <1>5, <2>2 DEF TakeUpdate, f
  <2>3. CASE ~(stale \/ version # f.base)
    <3>1. ASSUME Recent(frames, 1)
          PROVE  html = f.from
      <4>1. NoSnapshot(frames, 1, Len(frames))
        BY <1>3, <2>1, <3>1 DEF Recent, NoSnapshot
      <4> QED BY <1>3, <2>1, <2>3, <4>1 DEF RecentTold
    <3>2. version' = f.version /\ html' = Patched(html, f.from, f.to)
      BY <1>5, <2>3 DEF TakeUpdate, f
    <3>3. Shows(f) /\ Shown(f) = f.to
      BY <2>1 DEF Shows, Shown
    <3> QED BY <1>4, <3>1, <3>2, <3>3 DEF Patched
  <2> QED BY <2>2, <2>3
<1>6. CASE TakeSnapshot
  <2>1. f.type = "snapshot" /\ html' = f.html /\ version' = f.version
    BY <1>6 DEF TakeSnapshot, Takes, f
  <2> QED BY <1>4, <2>1 DEF Shows, Shown
<1>7. CASE TakeDisconnected
  BY <1>4, <1>7 DEF TakeDisconnected
<1> QED BY <1>5, <1>6, <1>7 DEF MirrorStep

\* Where no snapshot is to come, a mirror that lost none will be at the worker's
\* page when it is at the worker's version.
LEMMA MirrorToldStep ==
  ASSUME DomInv, MirrorTold, [Next]_vars
  PROVE  MirrorTold'
<1> SUFFICES ASSUME "lost" \notin unnumbered', ~SnapshotComes'
             PROVE  RecentTold(frames', stale', version', html', ver', lastHtml')
  BY DEF MirrorTold
<1> DEFINE Goal == RecentTold(frames', stale', version', html', ver', lastHtml')
<1>1. CASE \E p \in Process : SnapshotSend(p) /\ linked
  BY <1>1, SnapshotSetsRight
<1> SUFFICES ASSUME ~\E p \in Process : SnapshotSend(p) /\ linked
             PROVE  Goal
  BY <1>1
<1>2. LockOK /\ at \in [Process -> Place]
  BY DEF DomInv, LockOK
<1>3. RecentTold(frames, stale, version, html, ver, lastHtml)
  BY <1>2, UnnumberedGrows, SnapshotComesStep DEF MirrorTold
<1>4. ASSUME UNCHANGED <<frames, stale, version, html, ver, lastHtml>>
      PROVE  Goal
  BY <1>3, <1>4
<1>5. /\ "reader" \in Process /\ "poll" \in Process /\ Task \subseteq Process
      /\ \A p \in Process : local[p].html \in 0..page
      /\ ver \in Nat /\ lastHtml \in 0..page
  BY DEF Process, DomInv, LocalOK, Read, LastOK
<1>6. ASSUME NEW p \in Process, SnapshotStep(p)
      PROVE  Goal
  <2>1. CASE SnapshotRead(p) \/ SnapshotInject(p)
    BY <1>4, <2>1 DEF SnapshotRead, SnapshotInject, lastVars, netVars, channelVars, mirrorVars
  <2>2. CASE SnapshotSend(p) /\ ~linked
    BY <1>4, <2>2 DEF SnapshotSend, channelVars, mirrorVars
  <2> QED BY <1>6, <2>1, <2>2 DEF SnapshotStep
<1>7. CASE ReaderStep
  <2>1. ASSUME ResetVersion PROVE FALSE
    <3>1. at'["reader"] = "snapshot"
      BY <1>2, <1>5, <2>1 DEF ResetVersion, Goes
    <3> QED BY <1>5, <3>1 DEF SnapshotComes, Sending
  <2>2. CASE Greeted \/ TakeAsk \/ Restart \/ Disconnect
    BY <1>4, <2>2 DEF Greeted, TakeAsk, Restart, Disconnect, lastVars, netVars, channelVars, mirrorVars
  <2> QED BY <1>5, <1>6, <1>7, <2>1, <2>2 DEF ReaderStep
<1>8. CASE PollStep
  <2>1. CASE PollCompareUrl
    <3> DEFINE m == Update(ver, ver, lastHtml, lastHtml)
    <3>1. /\ m \in Message(page) /\ m.type = "update" /\ m.base = ver /\ m.from = lastHtml
          /\ m.version = ver /\ m.to = lastHtml
      BY <1>5 DEF Update, Message
    <3>2. /\ Post(m) \/ UNCHANGED channelVars
          /\ UNCHANGED <<ver, lastHtml, stale, version, html>>
      BY <2>1 DEF PollCompareUrl, mirrorVars
    <3> HIDE DEF m
    <3>3. CASE Post(m)
      BY <1>3, <3>1, <3>2, <3>3, PostRecent
    <3> QED BY <1>4, <3>2, <3>3 DEF channelVars
  <2>2. CASE PollSend
    <3> DEFINE m == Update(ver, ver + 1, lastHtml, local["poll"].html)
    <3>1. /\ m \in Message(page) /\ m.type = "update" /\ m.base = ver /\ m.from = lastHtml
          /\ m.version = ver + 1 /\ m.to = local["poll"].html
      BY <1>5 DEF Update, Message
    <3>2. /\ UNCHANGED <<stale, version, html>>
          /\ \/ Post(m) /\ ver' = ver + 1 /\ lastHtml' = local["poll"].html
             \/ UNCHANGED <<frames, ver, lastHtml>>
      BY <2>2 DEF PollSend, mirrorVars, channelVars
    <3> HIDE DEF m
    <3>3. CASE Post(m) /\ ver' = ver + 1 /\ lastHtml' = local["poll"].html
      BY <1>3, <3>1, <3>2, <3>3, PostRecent
    <3> QED BY <1>4, <3>2, <3>3
  <2>3. CASE PollWake \/ PollCheck \/ PollDiscard \/ PollLook \/ PollDrain \/ PollAddress \/ PollRead
    BY <1>4, <2>3 DEF PollWake, PollCheck, PollDiscard, PollLook, PollDrain, PollAddress, PollRead, lastVars, netVars, channelVars,
                      mirrorVars
  <2> QED BY <1>5, <1>6, <1>8, <2>1, <2>2, <2>3 DEF PollStep
<1>9. ASSUME NEW t \in Task, TaskStart(t) \/ TaskStep(t)
      PROVE  Goal
  <2>1. ASSUME TaskRecord(t) PROVE FALSE
    <3>1. at'[t] = "snapshot"
      BY <1>2, <1>5, <2>1 DEF TaskRecord, Ends, Reads
    <3> QED BY <1>5, <3>1 DEF SnapshotComes, Sending
  <2>2. CASE TaskStart(t) \/ TaskRun(t) \/ TaskRead(t) \/ TaskInject(t)
    BY <1>4, <2>2 DEF TaskStart, TaskRun, TaskRead, TaskInject, lastVars, netVars, channelVars,
                      mirrorVars
  <2> QED BY <1>5, <1>6, <1>9, <2>1, <2>2 DEF TaskStep
<1>10. CASE Connect \/ TakeRestart
  BY <1>4, <1>10 DEF Connect, TakeRestart, lastVars, netVars, channelVars, mirrorVars
<1>11. CASE Mutation \/ Load \/ UserAsk
  BY <1>4, <1>11 DEF Mutation, Load, UserAsk, workerVars, lastVars, netVars, channelVars, mirrorVars
<1>12. CASE Drop \/ Leave
  BY <1>3, <1>12, LostRecent DEF Drop, Leave, workerVars, lastVars, mirrorVars
<1>13. CASE Notice
  <2>1. Disconnected \in Message(page)
    BY DEF Message
  <2>2. Post(Disconnected) /\ UNCHANGED <<ver, lastHtml, stale, version, html>>
    BY <1>13 DEF Notice, workerVars, lastVars, mirrorVars
  <2> QED BY <1>3, <2>1, <2>2, PostRecent
<1>14. CASE MirrorStep
  BY <1>3, <1>14, TakenRecent
<1>15. ASSUME NEW newLink \in BOOLEAN, ComeBack(newLink)
       PROVE  Goal
  <2>1. /\ UNCHANGED <<ver, lastHtml, version, html>>
        /\ frames' = frames \/ frames' = Append(frames, Disconnected)
        /\ ~stale' => ~stale
    BY <1>15 DEF ComeBack, workerVars, lastVars
  <2>2. RecentTold(frames, stale', version, html, ver, lastHtml)
    BY <1>3, <2>1 DEF RecentTold
  <2>3. /\ frames \in Seq(Message(page))
        /\ Disconnected \in Message(page) /\ Disconnected.type \notin {"snapshot", "update"}
    BY DEF DomInv, ChannelOK, Message, Disconnected
  <2>4. RecentTold(Append(frames, Disconnected), stale', version, html, ver, lastHtml)
    BY <2>2, <2>3, PostOtherRecent
  <2> QED BY <2>1, <2>2, <2>4
<1>16. CASE UNCHANGED vars
  BY <1>4, <1>16 DEF vars, workerVars, lastVars, netVars, channelVars, mirrorVars
<1> QED BY <1>7, <1>8, <1>9, <1>10, <1>11, <1>12, <1>13, <1>14, <1>15, <1>16 DEF Next
-----------------------------------------------------------------------------
(* The worker and the page *)

\* A navigation that comes while the poll loop waits for _selenium_lock, or has
\* it, has still to run when the loop gives up what it has drained for it.
Draining == {"watch", "looked", "drained"}
DrainedInHand ==
  at["poll"] \in Draining /\ navigating => \E t \in Task : at[t] = "queued" /\ t \notin ahead

LEMMA DrainedInHandStep ==
  ASSUME LockOK, DrainedInHand, [Next]_vars
  PROVE  DrainedInHand'
<1>1. at \in [Process -> Place] /\ ahead \subseteq Waiting
  BY DEF LockOK
<1>2. /\ "reader" \notin Task /\ "poll" \notin Task /\ NoOne # "poll" /\ "reader" # "poll"
      /\ Task \subseteq Process /\ "reader" \in Process /\ "poll" \in Process
  BY DomSyncAssumption DEF Process
<1>3. ASSUME navigating' => navigating, NEW p \in Process, at[p] # "queued", ahead' \subseteq ahead,
             NEW place, p = "poll" => at[p] \in Draining \/ place \notin Draining,
             at' = [at EXCEPT ![p] = place]
      PROVE  DrainedInHand'
  <2>1. at'["poll"] \in Draining => at["poll"] \in Draining
    BY <1>1, <1>2, <1>3
  <2>2. \A t \in Task : at[t] = "queued" /\ t \notin ahead => at'[t] = "queued" /\ t \notin ahead'
    BY <1>1, <1>2, <1>3
  <2> QED BY <1>3, <2>1, <2>2 DEF DrainedInHand
<1>4. ASSUME UNCHANGED <<at, ahead, navigating>>
      PROVE  DrainedInHand'
  BY <1>4 DEF DrainedInHand
<1>5. ASSUME NEW p \in Process, SnapshotStep(p)
      PROVE  DrainedInHand'
  <2>1. UNCHANGED navigating /\ at[p] # "queued" /\ ahead' \subseteq ahead
    BY <1>5 DEF SnapshotStep, SnapshotRead, SnapshotInject, SnapshotSend, flagVars, Acquire, Release,
                Turn
  <2>2. CASE SnapshotRead(p) \/ SnapshotInject(p)
    BY <1>3, <2>1, <2>2 DEF SnapshotRead, SnapshotInject, Reads, Draining
  <2>3. CASE SnapshotSend(p)
    <3> DEFINE place == CASE p = "poll" -> "idle"
                          [] p \in Task -> "ended"
                          [] p = "reader" -> IF greeting /\ linked THEN "drain" ELSE "read"
    <3>1. place \in {"idle", "ended", "drain", "read"}
      <4>1. CASE p = "poll"
        BY <1>2, <4>1
      <4>2. CASE p \in Task
        BY <1>2, <4>2
      <4>3. CASE p = "reader"
        BY <1>2, <4>3
      <4> QED BY <4>1, <4>2, <4>3 DEF Process
    <3>2. Ends(p, place)
      BY <2>3 DEF SnapshotSend
    <3> HIDE DEF place
    <3>3. at' = [at EXCEPT ![p] = place] /\ place \notin Draining
      BY <3>1, <3>2 DEF Ends, Reads, Draining
    <3> QED BY <1>3, <2>1, <3>3
  <2> QED BY <1>5, <2>2, <2>3 DEF SnapshotStep
<1>6. CASE ReaderStep
  <2>1. CASE Greeted \/ TakeAsk \/ Restart \/ ResetVersion \/ Disconnect
    <3>1. UNCHANGED navigating /\ at["reader"] # "queued" /\ ahead' \subseteq ahead
      BY <2>1 DEF Greeted, TakeAsk, Restart, ResetVersion, Disconnect, flagVars, Turn
    <3>2. \/ at' = [at EXCEPT !["reader"] = "read"] \/ at' = [at EXCEPT !["reader"] = "snapshot"]
          \/ at' = [at EXCEPT !["reader"] = "reset"] \/ at' = [at EXCEPT !["reader"] = "off"]
      BY <2>1 DEF Greeted, TakeAsk, Restart, ResetVersion, Disconnect, Goes
    <3> QED BY <1>2, <1>3, <3>1, <3>2
  <2> QED BY <1>2, <1>5, <1>6, <2>1 DEF ReaderStep
<1>7. CASE PollStep
  <2>1. CASE PollCheck
    <3>1. /\ at' = [at EXCEPT !["poll"] = IF navigating THEN "discard" ELSE "watch"]
          /\ UNCHANGED navigating
      BY <2>1 DEF PollCheck, Goes, flagVars
    <3> QED BY <1>1, <1>2, <3>1 DEF DrainedInHand, Draining
  <2>2. CASE \/ PollWake \/ PollDiscard \/ PollLook \/ PollDrain \/ PollAddress \/ PollRead
             \/ PollCompareUrl \/ PollSend
    <3>1. UNCHANGED navigating /\ at["poll"] # "queued" /\ ahead' \subseteq ahead
      BY <2>2 DEF PollWake, PollDiscard, PollLook, PollDrain, PollAddress, PollRead, PollCompareUrl,
                  PollSend, flagVars, Acquire, Release, Turn
    <3>2. \E place \in {"awake", "idle", "looked", "drained", "addressed", "compare url", "snapshot",
                       "compare"} :
            /\ at' = [at EXCEPT !["poll"] = place]
            /\ place \in Draining => at["poll"] \in Draining
      BY <2>2 DEF PollWake, PollDiscard, PollLook, PollDrain, PollAddress, PollRead, PollCompareUrl,
                  PollSend, Goes, Ends, Reads, Draining
    <3> QED BY <1>2, <1>3, <3>1, <3>2
  <2> QED BY <1>2, <1>5, <1>7, <2>1, <2>2 DEF PollStep
<1>8. ASSUME NEW t \in Task, TaskStart(t) \/ TaskStep(t)
      PROVE  DrainedInHand'
  <2>1. CASE TaskStart(t)
    <3>1. at'[t] = "queued" /\ at[t] = "idle" /\ UNCHANGED ahead
      BY <1>1, <1>2, <2>1 DEF TaskStart, Goes
    <3>2. t \notin ahead
      BY <1>1, <3>1 DEF Waiting
    <3> QED BY <3>1, <3>2 DEF DrainedInHand
  <2>2. CASE TaskRun(t)
    <3>1. /\ at["poll"] \notin {"looked", "drained"}
          /\ at["poll"] = "watch" => t \in ahead
      BY <1>2, <2>2 DEF TaskRun, LockOK, Reading, Turn
    <3>2. UNCHANGED navigating /\ ahead' \subseteq ahead /\ \A q \in Process \ {t} : at'[q] = at[q]
      BY <1>1, <2>2 DEF TaskRun, Goes, Turn
    <3> QED BY <1>2, <3>1, <3>2 DEF DrainedInHand, Draining
  <2>3. CASE TaskRead(t) \/ TaskInject(t) \/ TaskRecord(t)
    <3>1. at[t] # "queued" /\ ahead' \subseteq ahead
      BY <2>3 DEF TaskRead, TaskInject, TaskRecord, Acquire, Release, Turn
    <3>3. navigating' => navigating
      BY <2>3, Zenon DEF TaskRead, TaskInject, TaskRecord, flagVars
    <3>2. \/ at' = [at EXCEPT ![t] = "inject"] \/ at' = [at EXCEPT ![t] = "record"]
          \/ at' = [at EXCEPT ![t] = "snapshot"]
      BY <2>3 DEF TaskRead, TaskInject, TaskRecord, Goes, Ends, Reads
    <3> QED BY <1>2, <1>3, <3>1, <3>2, <3>3
  <2> QED BY <1>2, <1>5, <1>8, <2>1, <2>2, <2>3 DEF TaskStep
<1>9. CASE Connect \/ TakeRestart
  <2>1. /\ UNCHANGED <<navigating, ahead>> /\ at["reader"] # "queued"
        /\ \/ at' = [at EXCEPT !["reader"] = "snapshot"]
           \/ at' = [at EXCEPT !["reader"] = "restart"]
    BY <1>9 DEF Connect, TakeRestart, Goes, flagVars
  <2> QED BY <1>2, <1>3, <2>1
<1>10. CASE Mutation \/ Load \/ Drop \/ Notice \/ UserAsk
  BY <1>4, <1>10 DEF Mutation, Load, Drop, Notice, UserAsk, workerVars, flagVars, coroutineVars
<1>11. CASE MirrorStep
  BY <1>4, <1>11 DEF MirrorStep, TakeUpdate, TakeSnapshot, TakeDisconnected, Takes, workerVars,
                     flagVars, coroutineVars
<1>12. CASE Leave \/ \E newLink \in BOOLEAN : ComeBack(newLink)
  BY <1>4, <1>12 DEF Leave, ComeBack, workerVars, flagVars, coroutineVars
<1>13. CASE UNCHANGED vars
  BY <1>4, <1>13 DEF vars, workerVars, flagVars, coroutineVars
<1> QED BY <1>6, <1>7, <1>8, <1>9, <1>10, <1>11, <1>12, <1>13 DEF Next

\* Coroutine p will read the page, or has read it as it is and will send it.
Brings(p) ==
  \/ at[p] \in {"off", "restart", "reset", "snapshot", "queued", "page"}
  \/ /\ at[p] \in {"inject", "record", "snapshot inject", "snapshot send", "compare"}
     /\ local[p].html = page
  \/ at[p] \in {"drained", "addressed"} /\ local[p].drained
  \/ at[p] = "compare url" /\ local[p].drained /\ local[p].html = page

\* As long as no change has been thrown away, the worker has sent the page last,
\* or the observer, a coroutine or the next connection will see to it.
InHand == lastHtml = page \/ \E p \in Process : Brings(p)
ChangesInHand == ~missed => InHand \/ ~observed \/ recorded \/ ~linked

LEMMA ChangesInHandStep ==
  ASSUME DomInv, DrainedInHand, ChangesInHand, [Next]_vars
  PROVE  ChangesInHand'
<1> SUFFICES ASSUME ~missed', observed', ~recorded', linked'
             PROVE  InHand'
  BY DEF ChangesInHand
<1>1. /\ at \in [Process -> Place] /\ local \in [Process -> Read(page)]
      /\ page \in Nat /\ lastHtml \in 0..page
      /\ recorded => observed
  BY DEF DomInv, LockOK, LocalOK, LastOK, BrowserOK
<1>2. /\ "reader" \notin Task /\ "poll" \notin Task /\ "reader" # "poll"
      /\ Task \subseteq Process /\ "reader" \in Process /\ "poll" \in Process
  BY DomSyncAssumption DEF Process
<1>3. \A p \in Process : local[p].html \in 0..page
  BY <1>1 DEF Read
\* Only what p does matters;
<1>4. ASSUME NEW p \in Process, UNCHANGED page,
             \A q \in Process \ {p} : at'[q] = at[q] /\ local'[q] = local[q],
             InHand, lastHtml = page => lastHtml' = page, Brings(p) => InHand'
      PROVE  InHand'
  <2>1. \A q \in Process \ {p} : Brings(q) => Brings(q)'
    BY <1>4 DEF Brings
  <2> QED BY <1>4, <2>1 DEF InHand
\* and p goes to a place from which it will read the page.
<1>5. ASSUME NEW p \in Process, NEW place,
             place \in {"off", "restart", "reset", "snapshot", "queued", "page"},
             at' = [at EXCEPT ![p] = place]
      PROVE  InHand'
  <2>1. at'[p] = place
    BY <1>1, <1>5
  <2> QED BY <1>5, <2>1 DEF InHand, Brings
<1>6. ASSUME UNCHANGED <<page, observed, recorded, missed, at, local, lastHtml, linked>>
      PROVE  InHand'
  BY <1>6 DEF ChangesInHand, InHand, Brings
<1>7. ASSUME UNCHANGED <<observed, recorded, linked>>, missed => missed'
      PROVE  InHand
  BY <1>7 DEF ChangesInHand
\* An observer is put in, after the page has been read.
<1>8. ASSUME NEW p \in Process, Inject(local[p].html), UNCHANGED <<page, linked, lastHtml>>,
             \A q \in Process \ {p} : at'[q] = at[q] /\ local'[q] = local[q],
             at[p] \in {"inject", "snapshot inject"}, at'[p] \in {"record", "snapshot send"},
             local'[p].html = local[p].html
      PROVE  InHand'
  <2>1. local[p].html = page => Brings(p)'
    BY <1>8 DEF Brings
  <2>2. Brings(p) => local[p].html = page
    BY <1>8 DEF Brings
  <2>3. local[p].html = page \/ InHand
    BY <1>1, <1>8 DEF Inject, ChangesInHand
  <2> QED BY <1>4, <1>8, <2>1, <2>2, <2>3 DEF InHand
\* Changes are drained to be thrown away.
<1>9. ASSUME NEW p \in Process, Drain(FALSE), UNCHANGED <<page, linked, lastHtml, local>>,
             at[p] \in {"discard", "drain"}, NEW place, at' = [at EXCEPT ![p] = place]
      PROVE  InHand'
  <2>1. InHand
    BY <1>1, <1>9 DEF Drain, ChangesInHand, InHand
  <2>2. ~Brings(p)
    BY <1>9 DEF Brings
  <2>3. \A q \in Process \ {p} : at'[q] = at[q] /\ local'[q] = local[q]
    BY <1>1, <1>9
  <2> QED BY <1>4, <1>9, <2>1, <2>2, <2>3
\* A page that was read is sent.
<1>10. ASSUME NEW p \in Process, UNCHANGED <<page, observed, recorded, linked>>,
              at[p] \in {"compare", "snapshot send"},
              lastHtml' = local[p].html, missed' = (missed \/ local[p].html < lastHtml),
              \A q \in Process \ {p} : at'[q] = at[q] /\ local'[q] = local[q]
       PROVE  InHand'
  <2>1. InHand
    BY <1>7, <1>10
  <2>2. ~(local[p].html < lastHtml) /\ lastHtml' = local[p].html
    BY <1>10, Zenon
  <2>3. local[p].html \in 0..page /\ page \in Nat
    BY <1>1, <1>3
  <2>4. lastHtml = page => lastHtml' = page
    BY <2>2, <2>3
  <2>5. Brings(p) => lastHtml' = page'
    BY <1>10 DEF Brings
  <2> QED BY <1>4, <1>10, <2>1, <2>4, <2>5 DEF InHand
<1>11. ASSUME NEW p \in Process, SnapshotStep(p)
       PROVE  InHand'
  <2>1. CASE SnapshotRead(p)
    <3>1. at'[p] = "snapshot inject" /\ local'[p].html = page /\ page' = page
      BY <1>1, <2>1 DEF SnapshotRead, Reads, Seen
    <3> QED BY <3>1 DEF InHand, Brings
  <2>2. CASE SnapshotInject(p)
    <3>1. /\ at'[p] = "snapshot send" /\ local'[p].html = local[p].html
          /\ \A q \in Process \ {p} : at'[q] = at[q] /\ local'[q] = local[q]
      BY <1>1, <2>2 DEF SnapshotInject, Reads, Seen
    <3>2. /\ Inject(local[p].html) /\ UNCHANGED <<page, linked, lastHtml>>
          /\ at[p] = "snapshot inject"
      BY <2>2 DEF SnapshotInject, lastVars, netVars
    <3> QED BY <1>8, <3>1, <3>2
  <2>3. CASE SnapshotSend(p)
    <3>1. \A q \in Process \ {p} : at'[q] = at[q] /\ local'[q] = local[q]
      BY <1>1, <2>3 DEF SnapshotSend, Ends, Reads
    <3>2. /\ UNCHANGED <<page, observed, recorded, linked>> /\ at[p] = "snapshot send"
          /\ lastHtml' = local[p].html /\ missed' = (missed \/ local[p].html < lastHtml)
      BY <2>3 DEF SnapshotSend
    <3> QED BY <1>10, <3>1, <3>2
  <2> QED BY <1>11, <2>1, <2>2, <2>3 DEF SnapshotStep
<1>12. CASE ReaderStep
  <2>1. CASE Greeted
    BY <1>2, <1>9, <2>1 DEF Greeted, Goes, lastVars, netVars
  <2>2. CASE TakeAsk \/ Restart \/ ResetVersion \/ Disconnect
    <3>1. \/ at' = [at EXCEPT !["reader"] = "snapshot"]
          \/ at' = [at EXCEPT !["reader"] = "reset"] \/ at' = [at EXCEPT !["reader"] = "off"]
      BY <2>2 DEF TakeAsk, Restart, ResetVersion, Disconnect, Goes
    <3> QED BY <1>2, <1>5, <3>1
  <2> QED BY <1>2, <1>11, <1>12, <2>1, <2>2 DEF ReaderStep
<1>13. CASE PollStep
  <2>1. CASE PollWake \/ PollCheck \/ PollLook
    <3>1. UNCHANGED <<page, observed, recorded, missed, lastHtml, linked>>
      BY <2>1 DEF PollWake, PollCheck, PollLook, browserVars, lastVars, netVars
    <3>2. /\ ~Brings("poll")
          /\ \A q \in Process \ {"poll"} : at'[q] = at[q] /\ local'[q] = local[q]
      BY <1>1, <2>1 DEF PollWake, PollCheck, PollLook, Goes, Reads, Brings
    <3> QED BY <1>2, <1>4, <1>7, <3>1, <3>2
  <2>2. CASE PollDiscard
    BY <1>2, <1>9, <2>2 DEF PollDiscard, Goes, lastVars, netVars
  <2>3. CASE PollDrain
    <3>1. /\ at'["poll"] = "drained" /\ local'["poll"].drained = recorded
          /\ \A q \in Process \ {"poll"} : at'[q] = at[q] /\ local'[q] = local[q]
      BY <1>1, <1>2, <2>3 DEF PollDrain, Reads, Seen
    <3>2. UNCHANGED <<page, lastHtml, linked>> /\ Drain(TRUE) /\ ~Brings("poll")
      BY <2>3 DEF PollDrain, lastVars, netVars, Brings
    <3>3. CASE recorded
      BY <1>2, <3>1, <3>3 DEF InHand, Brings
    <3>4. CASE ~recorded
      <4>1. InHand
        BY <3>2, <3>4 DEF Drain, ChangesInHand, InHand
      <4> QED BY <1>2, <1>4, <3>1, <3>2, <4>1
    <3> QED BY <3>3, <3>4
  <2>7. CASE PollAddress
    <3>1. /\ UNCHANGED <<page, observed, recorded, missed, lastHtml, linked>>
          /\ at["poll"] = "drained"
      BY <2>7 DEF PollAddress, browserVars, lastVars, netVars
    <3>2. \A q \in Process \ {"poll"} : at'[q] = at[q] /\ local'[q] = local[q]
      BY <1>1, <2>7 DEF PollAddress, Ends, Reads
    <3>3. CASE navigating
      <4>1. PICK t \in Task : at[t] = "queued"
        BY <3>1, <3>3 DEF DrainedInHand, Draining
      <4>2. at'[t] = "queued" /\ t \in Process
        BY <1>2, <3>2, <4>1
      <4> QED BY <4>2 DEF InHand, Brings
    <3>4. CASE ~navigating
      <4>1. Reads("poll", "addressed", Seen(0, url, local["poll"].drained, local["poll"].known))
        BY <2>7, <3>4, Zenon DEF PollAddress
      <4>2. at'["poll"] = "addressed" /\ local'["poll"].drained = local["poll"].drained
        BY <1>1, <1>2, <4>1 DEF Reads, Seen
      <4>3. Brings("poll") => Brings("poll")'
        BY <3>1, <4>2 DEF Brings
      <4> QED BY <1>2, <1>4, <1>7, <3>1, <3>2, <4>3 DEF InHand
    <3> QED BY <3>3, <3>4
  <2>4. CASE PollRead
    <3>1. /\ UNCHANGED <<page, observed, recorded, missed, lastHtml, linked>>
          /\ at["poll"] = "addressed"
      BY <2>4 DEF PollRead, browserVars, lastVars, netVars
    <3>2. /\ \A q \in Process \ {"poll"} : at'[q] = at[q] /\ local'[q] = local[q]
          /\ at'["poll"] = "compare url" /\ local'["poll"].html = page
          /\ local'["poll"].drained = local["poll"].drained
      BY <1>1, <1>2, <2>4 DEF PollRead, Reads, Seen
    <3>3. Brings("poll") => Brings("poll")'
      BY <3>1, <3>2 DEF Brings
    <3> QED BY <1>2, <1>4, <1>7, <3>1, <3>2, <3>3 DEF InHand
  <2>5. CASE PollCompareUrl
    <3> DEFINE read == local["poll"]
               moved == read.url # lastUrl
    <3>1. /\ UNCHANGED <<page, observed, recorded, missed, lastHtml, linked>>
          /\ at["poll"] = "compare url"
      BY <2>5 DEF PollCompareUrl, browserVars
    <3>2. \A q \in Process \ {"poll"} : at'[q] = at[q] /\ local'[q] = local[q]
      BY <1>1, <2>5 DEF PollCompareUrl, Ends, Reads, Goes
    <3>3. linked
      BY <3>1
    <3>4. CASE moved /\ ~read.known
      <4>1. at' = [at EXCEPT !["poll"] = "snapshot"]
        BY <2>5, <3>4 DEF PollCompareUrl, Ends, Reads
      <4> QED BY <1>2, <1>5, <4>1
    <3>5. CASE ~(moved /\ ~read.known) /\ read.drained
      <4>1. Goes("poll", "compare")
        BY <2>5, <3>3, <3>5, Zenon DEF PollCompareUrl
      <4>2. at'["poll"] = "compare" /\ local' = local
        BY <1>1, <1>2, <4>1 DEF Goes
      <4>3. Brings("poll") => Brings("poll")'
        BY <3>1, <4>2 DEF Brings
      <4> QED BY <1>2, <1>4, <1>7, <3>1, <3>2, <4>3 DEF InHand
    <3>6. CASE ~read.drained
      <4>1. ~Brings("poll")
        BY <3>1, <3>6 DEF Brings
      <4> QED BY <1>2, <1>4, <1>7, <3>1, <3>2, <4>1
    <3> QED BY <3>4, <3>5, <3>6
  <2>6. CASE PollSend
    <3>1. UNCHANGED <<page, observed, recorded, linked>> /\ at["poll"] = "compare"
      BY <2>6 DEF PollSend
    <3>2. \A q \in Process \ {"poll"} : at'[q] = at[q] /\ local'[q] = local[q]
      BY <1>1, <2>6 DEF PollSend, Ends, Reads
    <3>3. CASE local["poll"].html # lastHtml
      <4>1. lastHtml' = local["poll"].html /\ missed' = (missed \/ local["poll"].html < lastHtml)
        BY <2>6, <3>1, <3>3 DEF PollSend
      <4> QED BY <1>2, <1>10, <3>1, <3>2, <4>1
    <3>4. CASE local["poll"].html = lastHtml
      <4>1. UNCHANGED <<lastHtml, missed>>
        BY <2>6, <3>4 DEF PollSend
      <4>2. Brings("poll") => lastHtml' = page'
        BY <3>1, <3>4, <4>1 DEF Brings
      <4> QED BY <1>2, <1>4, <1>7, <3>1, <3>2, <4>1, <4>2 DEF InHand
    <3> QED BY <3>3, <3>4
  <2> QED BY <1>2, <1>11, <1>13, <2>1, <2>2, <2>3, <2>4, <2>5, <2>6, <2>7 DEF PollStep
<1>14. ASSUME NEW t \in Task, TaskStart(t) \/ TaskStep(t)
       PROVE  InHand'
  <2>1. CASE TaskStart(t) \/ TaskRecord(t)
    <3>1. at' = [at EXCEPT ![t] = "queued"] \/ at' = [at EXCEPT ![t] = "snapshot"]
      BY <2>1 DEF TaskStart, TaskRecord, Goes, Ends, Reads
    <3> QED BY <1>2, <1>5, <3>1
  <2>2. CASE TaskRun(t)
    <3>1. at' = [at EXCEPT ![t] = "page"]
      BY <2>2 DEF TaskRun, Goes, netVars
    <3> QED BY <1>2, <1>5, <3>1
  <2>3. CASE TaskRead(t)
    <3>1. at'[t] = "inject" /\ local'[t].html = page /\ page' = page
      BY <1>1, <1>2, <2>3 DEF TaskRead, Reads, Seen, browserVars
    <3> QED BY <1>2, <3>1 DEF InHand, Brings
  <2>4. CASE TaskInject(t)
    <3>1. /\ at'[t] = "record" /\ local' = local
          /\ \A q \in Process \ {t} : at'[q] = at[q]
      BY <1>1, <1>2, <2>4 DEF TaskInject, Goes
    <3>2. /\ Inject(local[t].html) /\ UNCHANGED <<page, linked, lastHtml>> /\ at[t] = "inject"
      BY <2>4 DEF TaskInject, lastVars, netVars
    <3> QED BY <1>2, <1>8, <3>1, <3>2
  <2> QED BY <1>2, <1>11, <1>14, <2>1, <2>2, <2>3, <2>4 DEF TaskStep
<1>15. CASE Connect \/ TakeRestart
  <2>1. at' = [at EXCEPT !["reader"] = "snapshot"] \/ at' = [at EXCEPT !["reader"] = "restart"]
    BY <1>15 DEF Connect, TakeRestart, Goes
  <2> QED BY <1>2, <1>5, <2>1
\* What a change of the page leaves is recorded, or no observer.
<1>16. CASE Mutation
  <2>1. recorded' = observed /\ observed' = observed
    BY <1>16, Zenon DEF Mutation
  <2> QED BY <2>1, Zenon
<1>17. CASE Load
  BY <1>17, Zenon DEF Load, NewDocument
<1>18. CASE Drop
  BY <1>18 DEF Drop
<1>19. CASE Notice \/ UserAsk
  BY <1>6, <1>19 DEF Notice, UserAsk, browserVars, workerVars, coroutineVars, lastVars
<1>20. CASE MirrorStep
  BY <1>6, <1>20 DEF MirrorStep, TakeUpdate, TakeSnapshot, TakeDisconnected, Takes, browserVars,
                     workerVars, coroutineVars, lastVars
<1>21. CASE Leave \/ \E newLink \in BOOLEAN : ComeBack(newLink)
  BY <1>6, <1>21 DEF Leave, ComeBack, browserVars, workerVars, coroutineVars, lastVars
<1>22. CASE UNCHANGED vars
  BY <1>6, <1>22 DEF vars, browserVars, workerVars, coroutineVars, lastVars, netVars
<1> QED BY <1>12, <1>13, <1>14, <1>15, <1>16, <1>17, <1>18, <1>19, <1>20, <1>21, <1>22 DEF Next

\* Once nothing is under way, a mirror that is not stale and has the worker's
\* version shows the page, through reconnects, navigations, restarts, resyncs and
\* visits elsewhere in any order, unless a change has been thrown away, an older
\* page sent after a newer one, or a snapshot lost (worker.py:156 and 540).
THEOREM SettledMirrorsShowThePage == Spec => []SettledMirrorIsCurrent
<1>1. Init => DrainedInHand /\ ChangesInHand /\ MirrorTold
  BY DomSyncAssumption DEF Init, DrainedInHand, ChangesInHand, InHand, MirrorTold, SnapshotComes, Process
<1>2. DomInv /\ DrainedInHand /\ ChangesInHand /\ MirrorTold /\ [Next]_vars
        => DrainedInHand' /\ ChangesInHand' /\ MirrorTold'
  BY DrainedInHandStep, ChangesInHandStep, MirrorToldStep DEF DomInv
<1>3. DomInv /\ ChangesInHand /\ MirrorTold => SettledMirrorIsCurrent
  <2> SUFFICES ASSUME DomInv, ChangesInHand, MirrorTold,
                      Settled, ~stale, version = ver, ~missed, "lost" \notin unnumbered
               PROVE  html = page
    BY DEF SettledMirrorIsCurrent
  <2>1. lastHtml = page
    BY DEF Settled, ChangesInHand, InHand, Brings
  <2>2. ~SnapshotComes
    BY DEF Settled, SnapshotComes, Sending
  <2>3. Len(frames) = 0
    BY EmptySeq DEF Settled
  <2>4. NoSnapshot(frames, 1, Len(frames))
    BY <2>3 DEF NoSnapshot
  <2> QED BY <2>1, <2>2, <2>4 DEF MirrorTold, RecentTold
<1> QED BY <1>1, <1>2, <1>3, DomInvHolds, PTL DEF Spec
-----------------------------------------------------------------------------
(* Garbage, and a mirror that needs help *)

\* Of the channel, a snapshot is taken or lost.
LEMMA LostSnapshot ==
  ASSUME ChannelOK, SnapshotSent, Lose, "lost" \notin unnumbered'
  PROVE  SnapshotSent'
<1>1. PICK n \in 0..Len(frames) :
        /\ frames' = SubSeq(frames, 1, n)
        /\ unnumbered' = IF \E i \in n + 1..Len(frames) : frames[i].type = "snapshot"
                         THEN unnumbered \cup {"lost"} ELSE unnumbered
  BY DEF Lose
<1>2. frames \in Seq(Message(page)) /\ Len(frames) \in Nat
  BY DEF ChannelOK
<1>3. PICK i \in 1..Len(frames) : frames[i].type = "snapshot"
  BY DEF SnapshotSent
<1>4. i \in 1..n
  BY <1>1, <1>2, <1>3
<1>5. Len(frames') = n /\ frames'[i] = frames[i]
  BY <1>1, <1>2, <1>4, SubSeqProperties
<1> QED BY <1>3, <1>4, <1>5 DEF SnapshotSent

LEMMA MoreIsSent ==
  ASSUME ChannelOK, SnapshotSent, NEW m \in Message(page),
         frames' = Append(frames, m) \/ UNCHANGED frames
  PROVE  SnapshotSent'
<1>1. frames \in Seq(Message(page))
  BY DEF ChannelOK
<1>2. PICK i \in 1..Len(frames) : frames[i].type = "snapshot"
  BY DEF SnapshotSent
<1>3. i \in 1..Len(frames') /\ frames'[i] = frames[i]
  BY <1>1, <1>2
<1> QED BY <1>2, <1>3 DEF SnapshotSent

\* Where another message is taken, the snapshot is still behind it.
LEMMA OtherIsTaken ==
  ASSUME ChannelOK, SnapshotSent, TakeUpdate \/ TakeDisconnected
  PROVE  SnapshotSent'
<1>1. /\ frames # <<>> /\ frames' = Tail(frames) /\ Head(frames).type # "snapshot"
  BY DEF TakeUpdate, TakeDisconnected, Takes
<1>2. frames \in Seq(Message(page))
  BY DEF ChannelOK
<1>3. PICK i \in 1..Len(frames) : frames[i].type = "snapshot"
  BY DEF SnapshotSent
<1>4. i # 1
  BY <1>1, <1>2, <1>3
<1>5. i - 1 \in 1..Len(frames') /\ frames'[i - 1] = frames[i]
  BY <1>1, <1>2, <1>3, <1>4
<1> QED BY <1>3, <1>5 DEF SnapshotSent

\* A snapshot on its way stays there until the mirror takes it or a link breaks.
LEMMA SnapshotSentStep ==
  ASSUME DomInv, SnapshotSent, [Next]_vars
  PROVE  SnapshotSent' \/ TakeSnapshot \/ Drop \/ Leave
<1>1. /\ ChannelOK
      /\ \A p \in Process : local[p].html \in 0..page
      /\ ver \in Nat /\ lastHtml \in 0..page
  BY DEF DomInv, LocalOK, Read, LastOK
<1>2. ASSUME UNCHANGED frames
      PROVE  SnapshotSent'
  BY <1>2 DEF SnapshotSent
<1>3. ASSUME NEW m \in Message(page), Post(m)
      PROVE  SnapshotSent'
  BY <1>1, <1>3, MoreIsSent DEF Post
<1>4. "reader" \in Process /\ "poll" \in Process /\ Task \subseteq Process
  BY DEF Process
<1>5. ASSUME NEW p \in Process, SnapshotStep(p)
      PROVE  SnapshotSent'
  <2>1. Snapshot(ver, local[p].html) \in Message(page)
    BY <1>1 DEF Snapshot, Message
  <2>2. CASE SnapshotRead(p) \/ SnapshotInject(p)
    BY <1>2, <2>2 DEF SnapshotRead, SnapshotInject, netVars, channelVars
  <2>3. CASE SnapshotSend(p)
    BY <1>2, <1>3, <2>1, <2>3 DEF SnapshotSend, channelVars
  <2> QED BY <1>5, <2>2, <2>3 DEF SnapshotStep
<1>6. CASE ReaderStep
  <2>1. CASE Greeted \/ TakeAsk \/ Restart \/ ResetVersion \/ Disconnect
    BY <1>2, <2>1 DEF Greeted, TakeAsk, Restart, ResetVersion, Disconnect, netVars, channelVars
  <2> QED BY <1>4, <1>5, <1>6, <2>1 DEF ReaderStep
<1>7. CASE PollStep
  <2>1. /\ Update(ver, ver, lastHtml, lastHtml) \in Message(page)
        /\ Update(ver, ver + 1, lastHtml, local["poll"].html) \in Message(page)
    BY <1>1, <1>4 DEF Update, Message
  <2>2. CASE PollCompareUrl
    BY <1>2, <1>3, <2>1, <2>2 DEF PollCompareUrl, channelVars
  <2>3. CASE PollSend
    BY <1>2, <1>3, <2>1, <2>3 DEF PollSend, channelVars
  <2>4. CASE PollWake \/ PollCheck \/ PollDiscard \/ PollLook \/ PollDrain \/ PollAddress \/ PollRead
    BY <1>2, <2>4 DEF PollWake, PollCheck, PollDiscard, PollLook, PollDrain, PollAddress, PollRead, netVars, channelVars
  <2> QED BY <1>4, <1>5, <1>7, <2>2, <2>3, <2>4 DEF PollStep
<1>8. ASSUME NEW t \in Task, TaskStart(t) \/ TaskStep(t)
      PROVE  SnapshotSent'
  <2>1. CASE TaskStart(t) \/ TaskRun(t) \/ TaskRead(t) \/ TaskInject(t) \/ TaskRecord(t)
    BY <1>2, <2>1 DEF TaskStart, TaskRun, TaskRead, TaskInject, TaskRecord, netVars, channelVars
  <2> QED BY <1>4, <1>5, <1>8, <2>1 DEF TaskStep
<1>9. Disconnected \in Message(page)
  BY DEF Message
<1>10. CASE Notice
  BY <1>3, <1>9, <1>10 DEF Notice
<1>11. ASSUME NEW newLink \in BOOLEAN, ComeBack(newLink)
       PROVE  SnapshotSent'
  <2>1. frames' = Append(frames, Disconnected) \/ UNCHANGED frames
    BY <1>11 DEF ComeBack
  <2> QED BY <1>1, <1>9, <2>1, MoreIsSent
<1>12. CASE TakeUpdate \/ TakeDisconnected
  BY <1>1, <1>12, OtherIsTaken
<1>13. CASE Mutation \/ Load \/ Connect \/ TakeRestart \/ UserAsk \/ UNCHANGED vars
  BY <1>2, <1>13 DEF Mutation, Load, Connect, TakeRestart, UserAsk, vars, netVars, channelVars
<1> QED BY <1>6, <1>7, <1>8, <1>10, <1>11, <1>12, <1>13 DEF Next, MirrorStep

\* What was to come, and comes no more, has been posted: it is on its way, or
\* nobody was there to hear it.
LEMMA WhatComesIsSent ==
  ASSUME DomInv, SnapshotComes, ~SnapshotComes', [Next]_vars
  PROVE  UNCHANGED watching /\ (watching => SnapshotSent') /\ (~watching => "lost" \in unnumbered')
<1>1. PICK p \in Process : SnapshotSend(p) /\ linked
  BY SnapshotComesStep DEF DomInv
<1> DEFINE m == Snapshot(ver, local[p].html)
<1>2. Post(m) /\ m.type = "snapshot" /\ UNCHANGED watching
  BY <1>1 DEF SnapshotSend, Snapshot, mirrorVars
<1> HIDE DEF m
<1>3. ASSUME watching
      PROVE  SnapshotSent'
  <2>1. frames' = Append(frames, m) /\ frames \in Seq(Message(page))
    BY <1>2, <1>3 DEF Post, DomInv, ChannelOK
  <2>2. Len(frames) + 1 \in 1..Len(frames') /\ frames'[Len(frames) + 1] = m
    BY <2>1
  <2> QED BY <1>2, <2>2 DEF SnapshotSent
<1>4. ~watching => "lost" \in unnumbered'
  BY <1>2 DEF Post
<1> QED BY <1>2, <1>3, <1>4

\* Garbage needs a difference that does not fit, and where no snapshot is to come
\* every difference that is not refused does.
LEMMA GarbageStep ==
  ASSUME DomInv, MirrorTold, GarbageIsReplaced, [Next]_vars
  PROVE  GarbageIsReplaced'
<1> SUFFICES ASSUME html' = Garbled, "lost" \notin unnumbered', ~SnapshotComes', ~SnapshotSent'
             PROVE  FALSE
  BY DEF GarbageIsReplaced
<1>1. "lost" \notin unnumbered
  BY UnnumberedGrows
<1>2. ChannelOK /\ MirrorOK /\ frames \in Seq(Message(page))
  BY DEF DomInv, ChannelOK
<1>3. ~TakeSnapshot
  <2> SUFFICES ASSUME TakeSnapshot PROVE FALSE
    OBVIOUS
  <2>1. Head(frames) \in Message(page) /\ Head(frames).type = "snapshot"
    BY <1>2 DEF TakeSnapshot, Takes
  <2>2. html' \in 0..page
    BY <2>1 DEF TakeSnapshot, Message, Disconnected
  <2> QED BY <2>2, DomSyncAssumption
<1>4. ~SnapshotSent
  <2> SUFFICES ASSUME SnapshotSent PROVE FALSE
    OBVIOUS
  <2>1. Drop \/ Leave
    BY <1>3, SnapshotSentStep
  <2> QED BY <1>2, <2>1, LostSnapshot DEF Drop, Leave
<1>5. CASE SnapshotComes
  <2>1. ~watching
    BY <1>5, WhatComesIsSent
  <2> QED BY <1>5, <2>1, WhatComesIsSent
<1>6. CASE ~SnapshotComes
  <2>1. html # Garbled
    BY <1>1, <1>4, <1>6 DEF GarbageIsReplaced
  <2>2. TakeUpdate
    BY <1>3, <2>1, MirrorAlone DEF mirrorVars, MirrorStep, TakeDisconnected, Leave, ComeBack
  <2> DEFINE f == Head(frames)
  <2>3. /\ frames # <<>> /\ f.type = "update"
        /\ ~stale /\ f.base = version /\ html' = Patched(html, f.from, f.to)
    BY <2>1, <2>2 DEF TakeUpdate, Takes
  <2>4. 1 \in 1..Len(frames) /\ f = frames[1]
    BY <1>2, <2>3
  <2>5. NoSnapshot(frames, 1, Len(frames))
    BY <1>4 DEF SnapshotSent, NoSnapshot
  <2>6. f.from = html
    BY <1>1, <1>6, <2>3, <2>4, <2>5 DEF MirrorTold, RecentTold
  <2>7. f.to # Garbled
    <3>1. f \in Message(page)
      BY <1>2, <2>3
    <3>2. f.to \in Nat
      BY <2>3, <3>1 DEF Message, Disconnected
    <3> QED BY <3>2, DomSyncAssumption
  <2> HIDE DEF f
  <2> QED BY <2>1, <2>3, <2>6, <2>7 DEF Patched
<1> QED BY <1>5, <1>6

\* A difference that is applied to a page it does not fit, because the versions
\* do not tell, is followed by the snapshot that puts the mirror right, unless a
\* snapshot is lost (worker.py:259 and 366).
THEOREM GarbageDoesNotStay == Spec => []GarbageIsReplaced
<1>1. Init => MirrorTold /\ GarbageIsReplaced
  BY DEF Init, MirrorTold, GarbageIsReplaced, SnapshotComes
<1>2. DomInv /\ MirrorTold /\ GarbageIsReplaced /\ [Next]_vars
        => MirrorTold' /\ GarbageIsReplaced'
  BY MirrorToldStep, GarbageStep
<1> QED BY <1>1, <1>2, DomInvHolds, PTL DEF Spec

\* Only these steps touch who watches, who is stale and what is asked for.
LEMMA AskedAlone ==
  ASSUME [Next]_vars
  PROVE  \/ UNCHANGED <<watching, stale, asks>>
         \/ TakeAsk \/ Drop \/ UserAsk \/ MirrorStep \/ Leave
         \/ \E newLink \in BOOLEAN : ComeBack(newLink)
<1>1. ASSUME NEW p, SnapshotStep(p)
      PROVE  UNCHANGED <<watching, stale, asks>>
  BY <1>1 DEF SnapshotStep, SnapshotRead, SnapshotInject, SnapshotSend, mirrorVars, netVars
<1>2. CASE ReaderStep
  BY <1>1, <1>2 DEF ReaderStep, Greeted, Restart, ResetVersion, Disconnect, mirrorVars, netVars
<1>3. CASE PollStep
  BY <1>1, <1>3 DEF PollStep, PollWake, PollCheck, PollDiscard, PollLook, PollDrain, PollAddress,
                    PollRead, PollCompareUrl, PollSend,
                    mirrorVars, netVars
<1>4. ASSUME NEW t \in Task, TaskStart(t) \/ TaskStep(t)
      PROVE  UNCHANGED <<watching, stale, asks>>
  BY <1>1, <1>4 DEF TaskStep, TaskStart, TaskRun, TaskRead, TaskInject, TaskRecord, mirrorVars, netVars
<1>5. CASE Connect \/ TakeRestart \/ Mutation \/ Load \/ Notice
  BY <1>5 DEF Connect, TakeRestart, Mutation, Load, Notice, mirrorVars, netVars
<1>6. CASE UNCHANGED vars
  BY <1>6 DEF vars, mirrorVars, netVars
<1> QED BY <1>2, <1>3, <1>4, <1>5, <1>6 DEF Next

LEMMA StrandedStep ==
  ASSUME DomInv, [Next]_vars, Stranded', ~TakeDisconnected
  PROVE  Stranded
<1>1. /\ watching' /\ linked' /\ stale' /\ asks' = 0
      /\ ~SnapshotComes' /\ ~SnapshotSent'
  BY DEF Stranded
<1>2. ~Drop /\ ~Leave
  BY <1>1 DEF Drop, Leave
<1>3. ~TakeSnapshot
  BY <1>1 DEF TakeSnapshot
<1>4. ~SnapshotSent
  BY <1>1, <1>2, <1>3, SnapshotSentStep
<1>5. ~SnapshotComes
  BY <1>1, WhatComesIsSent
<1>6. linked /\ asks \in Nat
  BY <1>5 DEF SnapshotComes, DomInv, LinksOK
<1>7. ~TakeAsk
  <2> SUFFICES ASSUME TakeAsk PROVE FALSE
    OBVIOUS
  <2>1. "reader" \in Process /\ at \in [Process -> Place]
    BY DEF Process, DomInv, LockOK
  <2>2. at'["reader"] = "snapshot"
    BY <2>1 DEF TakeAsk, Goes
  <2> QED BY <1>1, <2>1, <2>2 DEF SnapshotComes
<1>8. ~Ask
  BY <1>1, <1>6 DEF Ask
<1>9. CASE UNCHANGED <<watching, stale, asks>>
  BY <1>1, <1>4, <1>5, <1>6, <1>9 DEF Stranded
<1>10. CASE TakeUpdate
  BY <1>1, <1>4, <1>5, <1>6, <1>8, <1>10 DEF TakeUpdate, Takes, Stranded
<1>11. ASSUME NEW newLink \in BOOLEAN, ComeBack(newLink)
       PROVE  FALSE
  BY <1>1, <1>8, <1>11 DEF ComeBack
<1> QED BY <1>2, <1>3, <1>7, <1>8, <1>9, <1>10, <1>11, AskedAlone DEF MirrorStep, UserAsk

\* A mirror that turns stale has asked for a snapshot, or one is coming, and
\* neither is lost without a link breaking; but for the late notice of an old
\* disconnection (main_window.py:292 and 382).
THEOREM StaleMirrorsAreHelped == Spec => StaleIsHelped
<1>1. DomInv /\ [Next]_vars => [Stranded' => Stranded \/ TakeDisconnected]_vars
  BY StrandedStep
<1> QED BY <1>1, DomInvHolds, PTL DEF Spec, StaleIsHelped
=============================================================================
