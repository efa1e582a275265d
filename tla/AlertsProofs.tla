---------------------------- MODULE AlertsProofs ----------------------------
(***************************************************************************)
(* Proofs about Alerts, for any number of tasks, dialogs and events: its   *)
(* types with the mutual exclusion of _selenium_lock, what stops the poll  *)
(* loop, and that the controller's status of a worker is that of its       *)
(* dialog in the end.                                                      *)
(***************************************************************************)
EXTENDS Alerts, SequenceTheorems, TLAPS

(* Types *)

Place == {"idle", "dead", "snap", "inject", "send", "tell", "status", "reread", "report",
          "start", "second", "awake", "read", "update", "recover", "recovered"}
Holding == {"inject", "second"}
State == {"connected", "disconnected", "crashed", "alert_blocking"}
Frame == State \cup {"snapshot", "update", "result"}
Order == Names \cup {"resync", "browser_config", "restart_worker"}
Words == [met : Nat, nav : BOOLEAN]

CoroutinesOK ==
  /\ lock \in Process \cup {NoOne} /\ at \in [Process -> Place]
  /\ \A p \in Process : lock = p <=> at[p] \in Holding
LocalOK == local \in [Process -> Words] /\ cmd \in [Task -> Order \cup {"none"}]
FlagsOK ==
  /\ navigating \in BOOLEAN /\ executing \in BOOLEAN /\ ready \in BOOLEAN /\ greeting \in BOOLEAN
  /\ linked \in BOOLEAN /\ inFlight \in BOOLEAN
MessagesOK ==
  /\ inbox \in Seq(Order) /\ queue \in Seq(Names) /\ frames \in Seq(Frame)
  /\ slot \in [status : State, listed : State, stale : BOOLEAN]
Causing == {"offline", "greeting", "reread"}
Histories(n) == [told : SUBSET (1..n), late : SUBSET (1..n), lateUpdate : SUBSET (1..n),
                 outdated : BOOLEAN, causes : SUBSET Causing]
HistoryOK ==
  opened \in Nat /\ alert \in 0..opened /\ spent \in Nat /\ history \in Histories(opened)

AlertsTypes == CoroutinesOK /\ LocalOK /\ FlagsOK /\ MessagesOK /\ HistoryOK

\* A coroutine goes to a place, with the lock as the place demands.
Moves(p, place) ==
  /\ Goes(p, place)
  /\ \/ UNCHANGED lock /\ at[p] \notin Holding /\ place \notin Holding
     \/ lock = NoOne /\ lock' = p /\ place \in Holding
     \/ at[p] \in Holding /\ lock' = NoOne /\ place \notin Holding

LEMMA MoveOK ==
  ASSUME CoroutinesOK, NEW p \in Process, NEW place \in Place, Moves(p, place)
  PROVE  CoroutinesOK'
BY AlertsAssumption DEF CoroutinesOK, Moves, Goes, Process, Holding

LEMMA CoroutinesStep == ASSUME CoroutinesOK, [Next]_vars PROVE CoroutinesOK'
<1> DEFINE Moved == \E p \in Process : \E place \in Place : Moves(p, place)
<1>0. Task \subseteq Process /\ "poll" \in Process /\ "reader" \in Process
      /\ NoOne \notin Process
  BY AlertsAssumption DEF Process
<1>1. ASSUME Moved PROVE CoroutinesOK'
  BY <1>1, MoveOK
<1>2. CASE UNCHANGED <<lock, at>>
  BY <1>2 DEF CoroutinesOK
<1>3. ASSUME NEW p \in Process, NEW place \in Place \ Holding, Goes(p, place), UNCHANGED lock,
             at[p] \notin Holding
      PROVE  CoroutinesOK'
  BY <1>1, <1>3 DEF Moves
<1>4. ASSUME NEW p \in Process, Reports(p) \/ Snapshots(p) PROVE CoroutinesOK'
  <2>1. CASE Offline(p)
    BY <1>3, <2>1 DEF Offline, Place, Holding
  <2>2. CASE Tell(p)
    BY <1>3, <2>2 DEF Tell, Place, Holding
  <2>3. CASE TellStatus(p)
    BY <1>3, <2>3 DEF TellStatus, Place, Holding
  <2>4. CASE SnapSource(p)
    <3>1. CASE alert = NoAlert
      <4>1. Moves(p, "inject")
        BY <2>4, <3>1 DEF SnapSource, Moves, Holding, Free
      <4> QED BY <1>1, <4>1 DEF Place
    <3>2. CASE alert # NoAlert
      <4>1. \E place \in {"tell", "idle"} : Goes(p, place)
        BY <2>4, <3>2 DEF SnapSource, Blocked
      <4> QED BY <1>3, <2>4, <3>2, <4>1 DEF SnapSource, Blocked, Free, Place, Holding
    <3> QED BY <3>1, <3>2
  <2>5. CASE SnapInject(p)
    <3>1. \E place \in {"tell", "idle", "send"} : Goes(p, place)
      BY <2>5 DEF SnapInject, Blocked
    <3>2. lock' = NoOne /\ at[p] \in Holding
      BY <2>5 DEF SnapInject, Blocked, Holding
    <3> QED BY <1>1, <3>1, <3>2 DEF Moves, Place, Holding
  <2>6. CASE SnapSend(p)
    BY <1>3, <2>6 DEF SnapSend, Place, Holding
  <2> QED BY <1>4, <2>1, <2>2, <2>3, <2>4, <2>5, <2>6 DEF Reports, Snapshots
<1>5. CASE LinkReturns
  BY <1>0, <1>3, <1>5 DEF LinkReturns, Place, Holding
<1>6. CASE Receive
  <2>1. PICK c : \/ Goes("reader", "snap")
                 \/ Goes("reader", "recover")
                 \/ \E t \in Task : at[t] = "idle" /\ Goes(t, "start")
    BY <1>6 DEF Receive
  <2>2. at["reader"] = "idle" /\ UNCHANGED lock
    BY <1>6 DEF Receive
  <2> QED BY <1>0, <1>3, <2>1, <2>2 DEF Place, Holding
<1>7. CASE Recover
  BY <1>0, <1>3, <1>7 DEF Recover, Place, Holding
<1>8. CASE SayConnected
  BY <1>0, <1>3, <1>8 DEF SayConnected, Place, Holding
<1>9. ASSUME NEW t \in Task, Execute(t) \/ Report(t) \/ Reread(t) PROVE CoroutinesOK'
  <2>1. CASE FirstCall(t) /\ alert = NoAlert
    <3>1. Moves(t, "second")
      BY <2>1 DEF FirstCall, Moves, Holding, Free
    <3> QED BY <1>0, <1>1, <3>1 DEF Place
  <2>2. CASE FirstCall(t) /\ alert # NoAlert
    BY <1>0, <1>3, <2>2 DEF FirstCall, Ends, Free, Place, Holding
  <2>3. CASE SecondCall(t)
    <3>1. Moves(t, "report")
      BY <2>3 DEF SecondCall, Ends, Moves, Holding
    <3> QED BY <1>0, <1>1, <3>1 DEF Place
  <2>4. CASE Report(t)
    <3>1. \E place \in {"tell", "reread", "idle"} : Goes(t, place)
      BY <2>4 DEF Report
    <3> QED BY <1>0, <1>3, <2>4, <3>1 DEF Report, Place, Holding
  <2>5. CASE Reread(t)
    BY <1>0, <1>3, <2>5 DEF Reread, Place, Holding
  <2> QED BY <1>9, <2>1, <2>2, <2>3, <2>4, <2>5 DEF Execute
<1>10. CASE PollWake \/ PollCheck
  BY <1>0, <1>3, <1>10 DEF PollWake, PollCheck, Place, Holding
<1>11. CASE PollRead
  <2>1. \E place \in {"idle", "update", "snap"} : Goes("poll", place)
    BY <1>11 DEF PollRead
  <2> QED BY <1>0, <1>3, <1>11, <2>1 DEF PollRead, Place, Holding
<1>12. CASE PollUpdate
  BY <1>0, <1>3, <1>12 DEF PollUpdate, Place, Holding
<1>13. CASE AlertOpens \/ LinkBreaks \/ UserConfig \/ Take
  BY <1>2, <1>13 DEF AlertOpens, LinkBreaks, UserConfig, Take, coroutineVars
<1>14. ASSUME NEW name \in Names, UserCommand(name) PROVE CoroutinesOK'
  BY <1>2, <1>14 DEF UserCommand, coroutineVars
<1>15. CASE UNCHANGED vars
  BY <1>2, <1>15 DEF vars, coroutineVars
<1> QED BY <1>4, <1>5, <1>6, <1>7, <1>8, <1>9, <1>10, <1>11, <1>12, <1>13, <1>14, <1>15 DEF Next

LEMMA LocalStep == ASSUME LocalOK, MessagesOK, HistoryOK, [Next]_vars PROVE LocalOK'
<1> DEFINE Reading(p) == \E what \in Words : Reads(p, what)
<1>0. Task \subseteq Process /\ "poll" \in Process /\ "reader" \in Process
  BY DEF Process
<1>1. Nothing \in Words /\ \A nav \in BOOLEAN : Word(alert, nav) \in Words
  BY DEF Nothing, Word, Words, NoAlert, HistoryOK
<1>2. ASSUME NEW p \in Process, Reading(p), UNCHANGED cmd PROVE LocalOK'
  BY <1>2 DEF LocalOK, Reads
<1>3. CASE UNCHANGED <<local, cmd>>
  BY <1>3 DEF LocalOK
<1>4. ASSUME NEW p \in Process, Reports(p) \/ Snapshots(p) PROVE LocalOK'
  <2>1. CASE Offline(p) \/ TellStatus(p)
    BY <1>1, <1>2, <2>1 DEF Offline, TellStatus
  <2>2. CASE Tell(p) \/ SnapSend(p)
    BY <1>3, <2>2 DEF Tell, SnapSend
  <2>3. ASSUME NEW teller \in BOOLEAN, Blocked(p, teller) PROVE Reading(p)
    BY <1>1, <2>3 DEF Blocked
  <2>4. CASE SnapSource(p)
    <3>1. UNCHANGED cmd /\ (UNCHANGED local \/ Blocked(p, p = "reader" /\ greeting))
      BY <2>4 DEF SnapSource
    <3> QED BY <1>2, <1>3, <2>3, <3>1
  <2>5. CASE SnapInject(p)
    <3>1. UNCHANGED cmd /\ (UNCHANGED local \/ Blocked(p, p = "poll"))
      BY <2>5 DEF SnapInject
    <3> QED BY <1>2, <1>3, <2>3, <3>1
  <2> QED BY <1>4, <2>1, <2>2, <2>4, <2>5 DEF Reports, Snapshots
<1>5. CASE Receive
  <2>1. PICK c \in Order : UNCHANGED cmd \/ \E t \in Task : cmd' = [cmd EXCEPT ![t] = c]
    BY <1>5 DEF Receive, MessagesOK
  <2>2. UNCHANGED local
    BY <1>5 DEF Receive
  <2> QED BY <2>1, <2>2 DEF LocalOK
<1>6. ASSUME NEW t \in Task, Execute(t) \/ Report(t) \/ Reread(t) PROVE LocalOK'
  <2>1. CASE Execute(t)
    <3>1. UNCHANGED local \/ \E met \in {alert, NoAlert} : Reads(t, Word(met, FALSE))
      BY <2>1 DEF Execute, FirstCall, SecondCall, Ends, Met
    <3>2. UNCHANGED cmd
      BY <2>1 DEF Execute
    <3>3. Word(NoAlert, FALSE) \in Words
      BY <1>1 DEF Nothing
    <3> QED BY <1>0, <1>1, <1>2, <1>3, <3>1, <3>2, <3>3
  <2>2. CASE Report(t)
    <3>1. \E what : /\ Reads(t, what)
                    /\ what = Nothing \/ \E nav \in BOOLEAN : what = Word(local[t].met, nav)
      BY <2>2 DEF Report
    <3>2. local[t].met \in Nat
      BY <1>0 DEF LocalOK, Words
    <3>3. \A nav \in BOOLEAN : Word(local[t].met, nav) \in Words
      BY <3>2 DEF Word, Words
    <3>4. Reading(t)
      BY <1>1, <3>1, <3>3
    <3>5. local' \in [Process -> Words]
      BY <1>0, <3>4 DEF Reads, LocalOK
    <3>6. cmd' = [cmd EXCEPT ![t] = "none"]
      BY <2>2 DEF Report
    <3> QED BY <3>5, <3>6 DEF LocalOK
  <2>3. CASE Reread(t)
    BY <1>3, <2>3 DEF Reread
  <2> QED BY <1>6, <2>1, <2>2, <2>3
<1>7. CASE LinkReturns \/ Recover \/ SayConnected
  BY <1>3, <1>7 DEF LinkReturns, Recover, SayConnected
<1>8. CASE PollWake \/ PollCheck \/ PollRead \/ PollUpdate
  BY <1>3, <1>8 DEF PollWake, PollCheck, PollRead, PollUpdate
<1>9. CASE AlertOpens \/ LinkBreaks \/ UserConfig \/ Take
  BY <1>3, <1>9 DEF AlertOpens, LinkBreaks, UserConfig, Take, coroutineVars
<1>10. ASSUME NEW name \in Names, UserCommand(name) PROVE LocalOK'
  BY <1>3, <1>10 DEF UserCommand, coroutineVars
<1>11. CASE UNCHANGED vars
  BY <1>3, <1>11 DEF vars, coroutineVars
<1> QED BY <1>4, <1>5, <1>6, <1>7, <1>8, <1>9, <1>10, <1>11 DEF Next

LEMMA FlagsStep == ASSUME FlagsOK, [Next]_vars PROVE FlagsOK'
<1> USE DEF FlagsOK
<1>1. CASE UNCHANGED <<flagVars, linked, inFlight>>
  BY <1>1 DEF flagVars
<1>2. ASSUME NEW p \in Process, Reports(p) \/ Snapshots(p) PROVE FlagsOK'
  <2>0. UNCHANGED <<navigating, executing, linked, inFlight>>
    BY <1>2 DEF Reports, Snapshots, Offline, Tell, TellStatus, SnapSource, SnapInject, SnapSend,
                flagVars, netVars, queueVars
  <2>1. ready' \in BOOLEAN
    BY <1>2, Zenon DEF Reports, Snapshots, Offline, Tell, TellStatus, SnapSource, SnapInject,
                       SnapSend, flagVars
  <2>2. greeting' \in BOOLEAN
    BY <1>2, Zenon DEF Reports, Snapshots, Offline, Tell, TellStatus, SnapSource, SnapInject,
                       SnapSend, Blocked, flagVars
  <2> QED BY <2>0, <2>1, <2>2
<1>3. CASE Receive
  <2>1. navigating' \in BOOLEAN
    BY <1>3, Zenon DEF Receive
  <2>2. executing' \in BOOLEAN
    BY <1>3 DEF Receive
  <2> QED BY <1>3, <2>1, <2>2 DEF Receive, queueVars
<1>4. ASSUME NEW t \in Task, Execute(t) \/ Report(t) \/ Reread(t) PROVE FlagsOK'
  <2>1. executing' \in BOOLEAN /\ UNCHANGED <<ready, greeting, linked, inFlight>>
    BY <1>4 DEF Execute, FirstCall, SecondCall, Ends, Report, Reread, netVars, queueVars
  <2>2. navigating' \in BOOLEAN
    BY <1>4, Zenon DEF Execute, Report, Reread
  <2> QED BY <2>1, <2>2
<1>5. CASE LinkBreaks \/ LinkReturns
  BY <1>5 DEF LinkBreaks, LinkReturns, flagVars, queueVars
<1>6. CASE AlertOpens \/ Recover \/ SayConnected
  BY <1>1, <1>6 DEF AlertOpens, Recover, SayConnected, netVars, queueVars
<1>7. CASE PollWake \/ PollCheck \/ PollRead \/ PollUpdate
  BY <1>1, <1>7 DEF PollWake, PollCheck, PollRead, PollUpdate, netVars, queueVars
<1>8. ASSUME NEW commands, NEW busy \in BOOLEAN, Dispatch(commands, busy) PROVE inFlight' \in BOOLEAN
  BY <1>8 DEF Dispatch
<1>9. ASSUME NEW name \in Names, UserCommand(name) PROVE FlagsOK'
  BY <1>8, <1>9 DEF UserCommand, flagVars
<1>10. CASE UserConfig
  BY <1>1, <1>10 DEF UserConfig, queueVars
<1>11. CASE Take
  <2>1. inFlight' \in BOOLEAN
    BY <1>8, <1>11 DEF Take, TakeStatus, TakeSnapshot, TakeUpdate, TakeResult, queueVars
  <2> QED BY <1>11, <2>1 DEF Take, flagVars
<1>12. CASE UNCHANGED vars
  BY <1>1, <1>12 DEF vars, netVars, queueVars
<1> QED BY <1>2, <1>3, <1>4, <1>5, <1>6, <1>7, <1>9, <1>10, <1>11, <1>12 DEF Next

LEMMA SentOK ==
  ASSUME frames \in Seq(Frame), NEW type \in Frame, Sent(type) \/ SentIfLinked(type)
  PROVE  frames' \in Seq(Frame)
BY DEF Sent, SentIfLinked

LEMMA DispatchOK ==
  ASSUME inbox \in Seq(Order), NEW commands \in Seq(Names), NEW busy, Dispatch(commands, busy)
  PROVE  inbox' \in Seq(Order) /\ queue' \in Seq(Names)
<1>1. Names \subseteq Order
  BY DEF Order
<1>2. CASE busy \/ commands = <<>>
  BY <1>2 DEF Dispatch
<1>3. CASE ~(busy \/ commands = <<>>)
  <2>1. Head(commands) \in Names /\ Tail(commands) \in Seq(Names)
    BY <1>3
  <2>2. queue' = Tail(commands) /\ inbox' = IF linked THEN Append(inbox, Head(commands)) ELSE inbox
    BY <1>3 DEF Dispatch
  <2> QED BY <1>1, <2>1, <2>2
<1> QED BY <1>2, <1>3

LEMMA MessagesStep == ASSUME MessagesOK, [Next]_vars PROVE MessagesOK'
<1> USE DEF MessagesOK
<1>0. {"update", "connected", "disconnected", "crashed", "alert_blocking", "snapshot", "result"}
        \subseteq Frame
  BY DEF Frame, State
<1>1. CASE UNCHANGED <<inbox, queue, frames, slot>>
  BY <1>1
<1>2. ASSUME frames' \in Seq(Frame), UNCHANGED <<inbox, queue, slot>> PROVE MessagesOK'
  BY <1>2
<1>3. ASSUME NEW p \in Process, Reports(p) \/ Snapshots(p) PROVE MessagesOK'
  <2>1. CASE Offline(p) \/ SnapSource(p) \/ SnapInject(p)
    BY <1>1, <2>1 DEF Offline, SnapSource, SnapInject, netVars, queueVars
  <2>2. CASE Tell(p)
    BY <1>1, <2>2 DEF Tell, Sent, Parses, queueVars
  <2>3. CASE TellStatus(p)
    BY <1>0, <1>2, SentOK, <2>3 DEF TellStatus, queueVars
  <2>4. CASE SnapSend(p)
    BY <1>0, <1>2, SentOK, <2>4 DEF SnapSend, queueVars
  <2> QED BY <1>3, <2>1, <2>2, <2>3, <2>4 DEF Reports, Snapshots
<1>4. CASE LinkBreaks
  <2>1. PICK n \in 0..Len(frames) : frames' = Append(SubSeq(frames, 1, n), "disconnected")
    BY <1>4 DEF LinkBreaks
  <2>2. SubSeq(frames, 1, n) \in Seq(Frame)
    BY SubSeqProperties
  <2> QED BY <1>0, <1>4, <2>1, <2>2 DEF LinkBreaks, queueVars
<1>5. CASE LinkReturns
  BY <1>0, <1>2, SentOK, <1>5 DEF LinkReturns, queueVars
<1>6. CASE Receive
  <2>1. Head(inbox) \in Order /\ inbox' \in Seq(Order)
    BY <1>6 DEF Receive
  <2>2. frames' \in Seq(Frame)
    <3>1. frames' \in {frames, frames \o <<"result", "crashed">>, frames \o <<"crashed">>}
      BY <1>6 DEF Receive
    <3>2. <<"result", "crashed">> \in Seq(Frame) /\ <<"crashed">> \in Seq(Frame)
      BY <1>0
    <3>3. frames \o <<"result", "crashed">> \in Seq(Frame)
      BY <3>2, ConcatProperties
    <3>4. frames \o <<"crashed">> \in Seq(Frame)
      BY <3>2, ConcatProperties
    <3> QED BY <3>1, <3>3, <3>4
  <2> QED BY <1>6, <2>1, <2>2 DEF Receive, queueVars
<1>7. CASE Recover
  BY <1>1, <1>7 DEF Recover, netVars, queueVars
<1>8. CASE SayConnected
  BY <1>0, <1>2, SentOK, <1>8 DEF SayConnected, queueVars
<1>9. ASSUME NEW t \in Task, Execute(t) \/ Report(t) \/ Reread(t) PROVE MessagesOK'
  <2>1. CASE Execute(t) \/ Reread(t)
    BY <1>1, <2>1 DEF Execute, Reread, netVars, queueVars
  <2>2. CASE Report(t)
    BY <1>0, <1>2, SentOK, <2>2 DEF Report, queueVars
  <2> QED BY <1>9, <2>1, <2>2
<1>10. CASE PollWake \/ PollCheck \/ PollRead
  BY <1>1, <1>10 DEF PollWake, PollCheck, PollRead, netVars, queueVars
<1>11. CASE PollUpdate
  BY <1>0, <1>2, SentOK, <1>11 DEF PollUpdate, queueVars
<1>12. ASSUME NEW name \in Names, UserCommand(name) PROVE MessagesOK'
  <2>1. Append(queue, name) \in Seq(Names)
    OBVIOUS
  <2>2. inbox' \in Seq(Order) /\ queue' \in Seq(Names)
    BY <1>12, <2>1, DispatchOK DEF UserCommand
  <2> QED BY <1>12, <2>2 DEF UserCommand
<1>13. CASE UserConfig
  <2>1. inbox' \in Seq(Order)
    BY <1>13 DEF UserConfig, Order
  <2> QED BY <1>13, <2>1 DEF UserConfig, queueVars
<1>14. CASE Take
  <2>1. PICK m : /\ m = Head(frames)
                 /\ TakeStatus(m) \/ TakeSnapshot(m) \/ TakeUpdate(m) \/ TakeResult(m)
    BY <1>14 DEF Take
  <2>2. frames' \in Seq(Frame)
    BY <1>14 DEF Take
  <2>3. CASE TakeStatus(m)
    BY <2>2, <2>3 DEF TakeStatus, Status, State, queueVars
  <2>4. CASE TakeSnapshot(m)
    BY <2>2, <2>4 DEF TakeSnapshot, Status, State, queueVars
  <2>5. CASE TakeUpdate(m)
    <3>1. Append(inbox, "resync") \in Seq(Order)
      BY DEF Order
    <3>2. inbox' \in {inbox, Append(inbox, "resync")}
      BY <2>5, Zenon DEF TakeUpdate
    <3>3. slot' \in {slot, Status(slot.status, "connected", FALSE)}
      BY <2>5, Zenon DEF TakeUpdate
    <3>4. Status(slot.status, "connected", FALSE) \in [status : State, listed : State, stale : BOOLEAN]
      BY DEF Status, State
    <3>5. UNCHANGED queue
      BY <2>5 DEF TakeUpdate, queueVars
    <3> QED BY <2>2, <3>1, <3>2, <3>3, <3>4, <3>5
  <2>6. CASE TakeResult(m)
    BY <2>2, <2>6, DispatchOK DEF TakeResult
  <2> QED BY <2>1, <2>3, <2>4, <2>5, <2>6
<1>15. CASE AlertOpens
  BY <1>1, <1>15 DEF AlertOpens, netVars, queueVars
<1>16. CASE UNCHANGED vars
  BY <1>1, <1>16 DEF vars, netVars, queueVars
<1> QED BY <1>3, <1>4, <1>5, <1>6, <1>7, <1>8, <1>9, <1>10, <1>11, <1>12, <1>13, <1>14, <1>15, <1>16
        DEF Next

LEMMA PastOK ==
  ASSUME NEW n \in Nat, NEW told \in SUBSET (1..n), NEW late \in SUBSET (1..n),
         NEW lateUpdate \in SUBSET (1..n), NEW outdated \in BOOLEAN, NEW causes \in SUBSET Causing
  PROVE  Past(told, late, lateUpdate, outdated, causes) \in Histories(n)
BY DEF Past, Histories

LEMMA HistoryStep == ASSUME HistoryOK, [Next]_vars PROVE HistoryOK'
<1>0. opened \in Nat /\ alert \in 0..opened /\ spent \in Nat /\ history \in Histories(opened)
  BY DEF HistoryOK, Histories
<1>1. /\ history.told \in SUBSET (1..opened) /\ history.late \in SUBSET (1..opened)
      /\ history.lateUpdate \in SUBSET (1..opened) /\ history.outdated \in BOOLEAN
      /\ history.causes \in SUBSET Causing
  BY <1>0 DEF Histories
<1>2. ASSUME UNCHANGED <<opened, alert>>, spent' \in {spent, spent + 1}, history' \in Histories(opened)
      PROVE  HistoryOK'
  BY <1>0, <1>2 DEF HistoryOK, Histories
<1>3. ASSUME NEW cause \in Causing, NEW condition \in BOOLEAN, Notes(cause, condition)
      PROVE  history' \in Histories(opened)
  <2>1. Causes(cause, condition) \in SUBSET Causing
    BY <1>1, <1>3 DEF Causes
  <2> QED BY <1>0, <1>1, <1>3, <2>1, PastOK DEF Notes
<1>4. Hides \in Histories(opened)
  <2>1. history.late \cup (history.told \cap {alert}) \in SUBSET (1..opened)
    BY <1>1
  <2> QED BY <1>0, <1>1, <2>1, PastOK DEF Hides
<1>5. CASE UNCHANGED <<opened, alert, spent, history>>
  BY <1>0, <1>2, <1>5
<1>6. ASSUME NEW p \in Process, Reports(p) \/ Snapshots(p) PROVE HistoryOK'
  <2>1. CASE Offline(p)
    <3>1. \E condition \in BOOLEAN : Notes("offline", condition)
      BY <2>1, Zenon DEF Offline
    <3> QED BY <1>2, <1>3, <2>1, <3>1 DEF Offline, browserVars, Causing
  <2>2. CASE TellStatus(p)
    <3>1. history.told \cup ({alert} \ {NoAlert}) \in SUBSET (1..opened)
      BY <1>0, <1>1 DEF NoAlert
    <3>2. history.late \ {alert} \in SUBSET (1..opened)
          /\ history.lateUpdate \ {alert} \in SUBSET (1..opened)
      BY <1>1
    <3>3. (alert = NoAlert) \in BOOLEAN
      OBVIOUS
    <3>4. history' \in Histories(opened)
      BY <1>0, <1>1, <2>2, <3>1, <3>2, <3>3, PastOK DEF TellStatus
    <3> QED BY <1>2, <2>2, <3>4 DEF TellStatus, browserVars
  <2>3. CASE Tell(p) \/ SnapSource(p)
    BY <1>5, <2>3 DEF Tell, SnapSource, browserVars
  <2>4. CASE SnapInject(p)
    <3>1. \E condition \in BOOLEAN : Notes("greeting", condition)
      BY <2>4, Zenon DEF SnapInject
    <3> QED BY <1>2, <1>3, <2>4, <3>1 DEF SnapInject, browserVars, Causing
  <2>5. CASE SnapSend(p)
    BY <1>0, <1>2, <1>4, <2>5 DEF SnapSend, browserVars
  <2> QED BY <1>6, <2>1, <2>2, <2>3, <2>4, <2>5 DEF Reports, Snapshots
<1>7. CASE AlertOpens
  <2>1. opened' = opened + 1 /\ alert' = opened + 1 /\ UNCHANGED <<spent, history>>
    BY <1>7 DEF AlertOpens
  <2>2. SUBSET (1..opened) \subseteq SUBSET (1..(opened + 1))
    BY <1>0
  <2>3. history \in Histories(opened + 1)
    BY <1>0, <2>2 DEF Histories
  <2> QED BY <1>0, <2>1, <2>3 DEF HistoryOK, Histories
<1>8. CASE LinkBreaks \/ UserConfig
  BY <1>0, <1>2, <1>8 DEF LinkBreaks, UserConfig, Happens, browserVars
<1>9. CASE LinkReturns \/ Receive
  BY <1>5, <1>9 DEF LinkReturns, Receive, browserVars
<1>10. CASE Recover
  BY <1>0, <1>10 DEF Recover, HistoryOK, Histories, NoAlert
<1>11. CASE SayConnected
  BY <1>0, <1>2, <1>4, <1>11 DEF SayConnected, browserVars
<1>12. ASSUME NEW t \in Task, Execute(t) \/ Report(t) \/ Reread(t) PROVE HistoryOK'
  <2>1. CASE Execute(t)
    BY <1>5, <2>1 DEF Execute, browserVars
  <2>2. CASE Report(t)
    <3>1. Notes("offline", ~linked /\ cmd[t] = "refresh")
      BY <2>2 DEF Report
    <3>2. (~linked /\ cmd[t] = "refresh") \in BOOLEAN
      OBVIOUS
    <3> QED BY <1>2, <1>3, <2>2, <3>1, <3>2 DEF Report, browserVars, Causing
  <2>3. CASE Reread(t)
    <3>1. Notes("reread", alert # NoAlert) /\ (alert # NoAlert) \in BOOLEAN
      BY <2>3 DEF Reread
    <3> QED BY <1>2, <1>3, <2>3, <3>1 DEF Reread, browserVars, Causing
  <2> QED BY <1>12, <2>1, <2>2, <2>3
<1>13. CASE PollWake \/ PollCheck
  BY <1>5, <1>13 DEF PollWake, PollCheck, browserVars
<1>14. CASE PollRead
  BY <1>0, <1>2, <1>14 DEF PollRead, Happens, browserVars
<1>15. CASE PollUpdate
  <2>1. history.lateUpdate \cup (history.told \cap {alert}) \in SUBSET (1..opened)
    BY <1>1
  <2>2. history' \in Histories(opened)
    BY <1>0, <1>1, <1>15, <2>1, PastOK DEF PollUpdate
  <2> QED BY <1>2, <1>15, <2>2 DEF PollUpdate, browserVars
<1>16. ASSUME NEW name \in Names, UserCommand(name) PROVE HistoryOK'
  BY <1>0, <1>2, <1>16 DEF UserCommand, Happens, browserVars
<1>17. CASE Take
  BY <1>5, <1>17 DEF Take, browserVars
<1>18. CASE UNCHANGED vars
  BY <1>5, <1>18 DEF vars, browserVars
<1> QED BY <1>6, <1>7, <1>8, <1>9, <1>10, <1>11, <1>12, <1>13, <1>14, <1>15, <1>16, <1>17, <1>18
        DEF Next

LEMMA TypesInit == Init => AlertsTypes
<1> SUFFICES ASSUME Init PROVE AlertsTypes
  OBVIOUS
<1>1. CoroutinesOK
  BY AlertsAssumption DEF Init, CoroutinesOK, Place, Holding, Process
<1>2. LocalOK
  BY DEF Init, LocalOK, Words, Nothing, Word, NoAlert
<1>3. FlagsOK
  BY DEF Init, FlagsOK
<1>4. MessagesOK
  BY DEF Init, MessagesOK, Status, State
<1>5. HistoryOK
  <2>1. NoHistory \in Histories(0)
    BY PastOK DEF NoHistory
  <2> QED BY <2>1 DEF Init, HistoryOK, NoAlert
<1> QED BY <1>1, <1>2, <1>3, <1>4, <1>5 DEF AlertsTypes

LEMMA TypesStep == AlertsTypes /\ [Next]_vars => AlertsTypes'
BY CoroutinesStep, LocalStep, FlagsStep, MessagesStep, HistoryStep DEF AlertsTypes

\* Whatever happens, every coroutine is at one of its places, at most one of
\* them holds _selenium_lock, and it is the one that reads the page or is
\* between the two calls of a command (worker.py:190-206,
\* command_handler.py:78-83).
THEOREM AlertsTyped == Spec => []AlertsTypes
BY TypesInit, TypesStep, PTL DEF Spec
-----------------------------------------------------------------------------
(* What leaves the worker mute *)

\* The reader is in _on_server_connected only where the snapshot of a new
\* connection is.
Greets == greeting => at["reader"] \in {"snap", "inject", "send", "tell", "status"}
PollLives == at["poll"] = "dead" => history.causes # {}
ReadyComes == ~ready /\ history.causes = {} => greeting \/ ~linked

\* Task t has still to read the page again after a navigation.
NavigatesFor(t) ==
  \/ cmd[t] = "refresh" /\ at[t] \in {"start", "second", "report"}
  \/ local[t].nav /\ at[t] \in {"tell", "status"}
  \/ at[t] = "reread"
FlagGoes == navigating /\ history.causes = {} => \E t \in Task : NavigatesFor(t)

LEMMA CausesStay ==
  ASSUME HistoryOK, [Next]_vars, history'.causes = {}
  PROVE  /\ history.causes = {}
         /\ \A cause, condition : Notes(cause, condition) => ~condition
<1>1. ASSUME UNCHANGED history PROVE history'.causes = history.causes
  BY <1>1
<1>2. ASSUME NEW cause, NEW condition, Notes(cause, condition)
      PROVE  history.causes \subseteq history'.causes /\ (condition => cause \in history'.causes)
  BY <1>2 DEF Notes, Past, Causes
<1>3. Hides.causes = history.causes
  BY DEF Hides, Past
<1>4. CASE \E p \in Process : TellStatus(p) \/ SnapSend(p)
  BY <1>1, <1>2, <1>3, <1>4 DEF TellStatus, SnapSend, Past
<1>5. CASE \E p \in Process : Offline(p) \/ SnapInject(p)
  BY <1>2, <1>5 DEF Offline, SnapInject
<1>6. CASE \E t \in Task : Report(t) \/ Reread(t)
  BY <1>2, <1>6 DEF Report, Reread
<1>7. CASE SayConnected \/ PollUpdate
  BY <1>1, <1>2, <1>3, <1>7 DEF SayConnected, PollUpdate, Past
<1>8. CASE UNCHANGED history
  BY <1>1, <1>2, <1>8
<1>9. \/ UNCHANGED history
      \/ \E p \in Process : TellStatus(p) \/ SnapSend(p) \/ Offline(p) \/ SnapInject(p)
      \/ \E t \in Task : Report(t) \/ Reread(t)
      \/ SayConnected \/ PollUpdate
  BY DEF Next, vars, AlertOpens, LinkBreaks, LinkReturns, Reports, Tell, Snapshots, SnapSource,
         Receive, Recover, Execute, PollWake, PollCheck, PollRead, UserCommand, UserConfig, Take
<1> QED BY <1>4, <1>5, <1>6, <1>7, <1>8, <1>9

LEMMA GreetsStep == ASSUME AlertsTypes, Greets, [Next]_vars PROVE Greets'
<1>0. "reader" \in Process /\ "reader" \notin Task /\ at \in [Process -> Place]
  BY AlertsAssumption DEF Process, AlertsTypes, CoroutinesOK
<1>1. ASSUME NEW p \in Process \ {"reader"}, NEW place, Goes(p, place), greeting' => greeting
      PROVE  Greets'
  BY <1>0, <1>1 DEF Greets, Goes
<1>2. CASE UNCHANGED <<at, greeting>>
  BY <1>2 DEF Greets
<1>3. ASSUME ~greeting' PROVE Greets'
  BY <1>3 DEF Greets
<1>4. ASSUME NEW p \in Process, Reports(p) \/ Snapshots(p) PROVE Greets'
  <2>1. CASE Offline(p)
    BY <1>1, <1>3, <2>1 DEF Offline
  <2>2. CASE Tell(p)
    BY <1>0, <1>1, <2>2 DEF Tell, flagVars, Goes, Greets
  <2>3. CASE TellStatus(p)
    BY <1>1, <1>3, <2>3 DEF TellStatus
  <2>4. CASE SnapSource(p)
    <3>1. \E place \in {"inject", "tell", "idle"} : Goes(p, place)
      BY <2>4 DEF SnapSource, Blocked
    <3>2. greeting' => greeting
      BY <2>4 DEF SnapSource, Blocked
    <3>3. CASE p = "reader" /\ greeting
      BY <1>0, <2>4, <3>3 DEF SnapSource, Blocked, Goes, Greets
    <3> QED BY <1>1, <1>3, <3>1, <3>2, <3>3
  <2>5. CASE SnapInject(p)
    <3>1. \E place \in {"send", "tell", "idle"} : Goes(p, place)
      BY <2>5 DEF SnapInject, Blocked
    <3>2. greeting' => greeting
      BY <2>5 DEF SnapInject, Blocked
    <3>3. CASE p = "reader" /\ greeting
      BY <1>0, <2>5, <3>3 DEF SnapInject, Blocked, Goes, Greets
    <3> QED BY <1>1, <1>3, <3>1, <3>2, <3>3
  <2>6. CASE SnapSend(p)
    BY <1>1, <1>3, <2>6 DEF SnapSend
  <2> QED BY <1>4, <2>1, <2>2, <2>3, <2>4, <2>5, <2>6 DEF Reports, Snapshots
<1>5. CASE LinkReturns
  BY <1>0, <1>5 DEF LinkReturns, Goes, Greets
<1>6. CASE Receive \/ Recover \/ SayConnected
  <2>1. at["reader"] \in {"idle", "recover", "recovered"}
    BY <1>6 DEF Receive, Recover, SayConnected
  <2>2. UNCHANGED greeting
    BY <1>6 DEF Receive, Recover, SayConnected, flagVars
  <2> QED BY <1>3, <2>1, <2>2 DEF Greets
<1>7. ASSUME NEW t \in Task, Execute(t) \/ Report(t) \/ Reread(t) PROVE Greets'
  <2>1. \E place \in Place : Goes(t, place)
    BY <1>7 DEF Execute, FirstCall, SecondCall, Ends, Report, Reread, Place
  <2>2. UNCHANGED greeting
    BY <1>7 DEF Execute, Report, Reread
  <2>3. t \in Process \ {"reader"}
    BY <1>0 DEF Process
  <2> QED BY <1>1, <2>1, <2>2, <2>3
<1>8. CASE PollWake \/ PollCheck \/ PollRead \/ PollUpdate
  <2>1. \E place \in Place : Goes("poll", place)
    BY <1>8 DEF PollWake, PollCheck, PollRead, PollUpdate, Place
  <2>2. UNCHANGED greeting
    BY <1>8 DEF PollWake, PollCheck, PollRead, PollUpdate, flagVars
  <2>3. "poll" \in Process \ {"reader"}
    BY DEF Process
  <2> QED BY <1>1, <2>1, <2>2, <2>3
<1>9. CASE AlertOpens \/ LinkBreaks \/ UserConfig \/ Take
  BY <1>2, <1>9 DEF AlertOpens, LinkBreaks, UserConfig, Take, coroutineVars, flagVars
<1>10. ASSUME NEW name \in Names, UserCommand(name) PROVE Greets'
  BY <1>2, <1>10 DEF UserCommand, coroutineVars, flagVars
<1>11. CASE UNCHANGED vars
  BY <1>2, <1>11 DEF vars, coroutineVars, flagVars
<1> QED BY <1>4, <1>5, <1>6, <1>7, <1>8, <1>9, <1>10, <1>11 DEF Next

\* The poll loop ends with a report it cannot send, which is a cause.
LEMMA PollStays == ASSUME AlertsTypes, PollLives, [Next]_vars PROVE PollLives'
<1> SUFFICES ASSUME at'["poll"] = "dead", history'.causes = {} PROVE FALSE
  BY DEF PollLives
<1>0. Task \subseteq Process \ {"poll"} /\ "poll" \in Process /\ at \in [Process -> Place]
  BY AlertsAssumption DEF Process, AlertsTypes, CoroutinesOK
<1>1. /\ at["poll"] # "dead" /\ HistoryOK
      /\ \A cause, condition : Notes(cause, condition) => ~condition
  BY CausesStay DEF PollLives, AlertsTypes
<1>2. ASSUME NEW p \in Process, NEW place \in Place \ {"dead"}, Goes(p, place) PROVE FALSE
  BY <1>0, <1>1, <1>2 DEF Goes
<1>3. ASSUME NEW p \in Process, Reports(p) \/ Snapshots(p) PROVE FALSE
  <2>1. CASE Offline(p)
    BY <1>1, <1>2, <2>1 DEF Offline, Place
  <2>2. CASE Tell(p) \/ TellStatus(p) \/ SnapSend(p)
    BY <1>2, <2>2 DEF Tell, TellStatus, SnapSend, Place
  <2>3. CASE SnapSource(p) \/ SnapInject(p)
    BY <1>2, <2>3 DEF SnapSource, SnapInject, Blocked, Place
  <2> QED BY <1>3, <2>1, <2>2, <2>3 DEF Reports, Snapshots
<1>4. CASE LinkReturns \/ Recover \/ SayConnected
  BY <1>2, <1>4 DEF LinkReturns, Recover, SayConnected, Place, Process
<1>5. CASE Receive
  <2>1. \E p \in Process : \E place \in {"snap", "recover", "start"} : Goes(p, place)
    BY <1>5 DEF Receive, Process
  <2> QED BY <1>2, <2>1 DEF Place
<1>6. ASSUME NEW t \in Task, Execute(t) \/ Report(t) \/ Reread(t) PROVE FALSE
  <2>1. \E place \in Place \ {"dead"} : Goes(t, place)
    BY <1>6 DEF Execute, FirstCall, SecondCall, Ends, Report, Reread, Place
  <2> QED BY <1>0, <1>2, <2>1
<1>7. CASE PollWake \/ PollCheck \/ PollRead \/ PollUpdate
  <2>1. \E place \in Place \ {"dead"} : Goes("poll", place)
    BY <1>7 DEF PollWake, PollCheck, PollRead, PollUpdate, Place
  <2> QED BY <1>0, <1>2, <2>1
<1>8. CASE UNCHANGED at
  BY <1>1, <1>8
<1> QED BY <1>3, <1>4, <1>5, <1>6, <1>7, <1>8
        DEF Next, vars, AlertOpens, LinkBreaks, UserConfig, UserCommand, Take, coroutineVars

\* A first snapshot that is not sent is a cause too.
LEMMA ReadyStep == ASSUME AlertsTypes, Greets, ReadyComes, [Next]_vars PROVE ReadyComes'
<1> SUFFICES ASSUME ~ready', history'.causes = {}, linked' PROVE greeting'
  BY DEF ReadyComes
<1>0. "reader" \in Process /\ "reader" \notin Task
  BY AlertsAssumption DEF Process
<1>1. /\ ~ready => greeting \/ ~linked
      /\ \A cause, condition : Notes(cause, condition) => ~condition
  BY CausesStay DEF ReadyComes, AlertsTypes
<1>2. CASE ~ready /\ UNCHANGED <<greeting, linked>>
  BY <1>1, <1>2
<1>3. ASSUME NEW p \in Process, Reports(p) \/ Snapshots(p) PROVE greeting'
  <2>0. UNCHANGED linked
    BY <1>3, Zenon DEF Reports, Snapshots, Offline, Tell, TellStatus, SnapSource, SnapInject,
                       SnapSend, netVars
  <2>1. CASE Offline(p) \/ TellStatus(p)
    BY <1>1, <2>0, <2>1 DEF Offline, TellStatus
  <2>2. CASE Tell(p)
    BY <1>2, <2>0, <2>2 DEF Tell, flagVars
  <2>3. CASE SnapSource(p)
    <3>1. ~ready /\ greeting
      BY <1>1, <2>0, <2>3 DEF SnapSource
    <3> QED BY <2>3, <3>1 DEF SnapSource, Blocked
  <2>4. CASE SnapInject(p)
    <3>1. Notes("greeting", greeting' # greeting) /\ ~ready
      BY <2>4 DEF SnapInject
    <3>2. ASSUME greeting' # greeting PROVE FALSE
      <4>1. Causes("greeting", greeting' # greeting) = history.causes \cup {"greeting"}
        BY <3>2, Zenon DEF Causes
      <4>2. history'.causes = Causes("greeting", greeting' # greeting)
        BY <3>1 DEF Notes, Past
      <4> QED BY <4>1, <4>2
    <3>3. greeting' = greeting
      BY <3>2, Zenon
    <3> QED BY <1>1, <2>0, <3>1, <3>3
  <2>5. CASE SnapSend(p)
    <3>1. ~ready /\ ~(p = "reader" /\ greeting /\ linked)
      BY <2>5, Zenon DEF SnapSend
    <3>2. greeting /\ linked
      BY <1>1, <2>0, <3>1
    <3>3. p # "reader"
      BY <3>1, <3>2
    <3> QED BY <2>5, <3>2, <3>3 DEF SnapSend
  <2> QED BY <1>3, <2>1, <2>2, <2>3, <2>4, <2>5 DEF Reports, Snapshots
<1>4. CASE LinkReturns
  BY <1>4 DEF LinkReturns
<1>5. CASE LinkBreaks
  BY <1>5 DEF LinkBreaks
<1>6. CASE UNCHANGED <<ready, greeting, linked>>
  BY <1>2, <1>6
<1>7. ASSUME NEW t \in Task, Execute(t) \/ Report(t) \/ Reread(t) PROVE greeting'
  BY <1>6, <1>7 DEF Execute, Report, Reread, netVars
<1>8. ASSUME NEW name \in Names, UserCommand(name) PROVE greeting'
  BY <1>6, <1>8 DEF UserCommand, flagVars
<1> QED BY <1>3, <1>4, <1>5, <1>6, <1>7, <1>8
        DEF Next, vars, netVars, flagVars, AlertOpens, Receive, Recover, SayConnected, PollWake,
            PollCheck, PollRead, PollUpdate, UserConfig, Take

\* The flag of a navigation goes down with the re-reading that follows it.
LEMMA FlagStep == ASSUME AlertsTypes, FlagGoes, [Next]_vars PROVE FlagGoes'
<1> SUFFICES ASSUME navigating', history'.causes = {} PROVE \E t \in Task : NavigatesFor(t)'
  BY DEF FlagGoes
<1>0. /\ Task \subseteq Process \ {"poll", "reader"} /\ at \in [Process -> Place]
      /\ local \in [Process -> Words] /\ cmd \in [Task -> Order \cup {"none"}]
  BY AlertsAssumption DEF Process, AlertsTypes, CoroutinesOK, LocalOK
<1>1. /\ navigating => \E t \in Task : NavigatesFor(t)
      /\ \A cause, condition : Notes(cause, condition) => ~condition
  BY CausesStay DEF FlagGoes, AlertsTypes
<1>2. ASSUME NEW t \in Task, NavigatesFor(t), UNCHANGED <<at[t], local[t], cmd[t]>>
      PROVE  NavigatesFor(t)'
  BY <1>2 DEF NavigatesFor
<1>3. CASE navigating /\ UNCHANGED <<at, local, cmd>>
  BY <1>1, <1>2, <1>3
<1>4. ASSUME NEW p \in Process \ Task, navigating, UNCHANGED cmd,
             \E place : Goes(p, place), UNCHANGED local \/ \E what : Reads(p, what)
      PROVE  \E t \in Task : NavigatesFor(t)'
  <2>1. PICK t \in Task : NavigatesFor(t)
    BY <1>1, <1>4
  <2>2. UNCHANGED <<at[t], local[t], cmd[t]>>
    BY <1>0, <1>4 DEF Goes, Reads
  <2> QED BY <1>2, <2>1, <2>2
<1>5. ASSUME NEW p \in Task, navigating, NavigatesFor(p) => NavigatesFor(p)',
             \E place : Goes(p, place), UNCHANGED local \/ \E what : Reads(p, what),
             UNCHANGED cmd \/ \E name : cmd' = [cmd EXCEPT ![p] = name]
      PROVE  \E t \in Task : NavigatesFor(t)'
  <2>1. PICK t \in Task : NavigatesFor(t)
    BY <1>1, <1>5
  <2>2. CASE t # p
    <3>1. UNCHANGED <<at[t], local[t], cmd[t]>>
      BY <1>0, <1>5, <2>2 DEF Goes, Reads
    <3> QED BY <1>2, <2>1, <3>1
  <2> QED BY <1>5, <2>1, <2>2
<1>6. ASSUME NEW p \in Process, Reports(p) \/ Snapshots(p)
      PROVE  \E t \in Task : NavigatesFor(t)'
  <2>1. /\ navigating /\ UNCHANGED cmd /\ \E place : Goes(p, place)
        /\ UNCHANGED local \/ \E what : Reads(p, what)
    BY <1>6 DEF Reports, Snapshots, Offline, Tell, TellStatus, SnapSource, SnapInject, SnapSend,
                Blocked, flagVars
  <2>2. CASE p \in Task /\ Reports(p)
    <3>1. CASE Offline(p)
      <4>1. ~(p = "poll" \/ local[p].nav)
        BY <1>1, <3>1 DEF Offline
      <4>2. ~NavigatesFor(p)
        BY <3>1, <4>1 DEF NavigatesFor, Offline
      <4> QED BY <1>5, <2>1, <2>2, <4>2
    <3>2. CASE Tell(p)
      <4>1. NavigatesFor(p) => NavigatesFor(p)'
        BY <1>0, <2>2, <3>2 DEF Tell, Goes, NavigatesFor
      <4> QED BY <1>5, <2>1, <2>2, <4>1
    <3>3. CASE TellStatus(p)
      <4>1. NavigatesFor(p) => at'[p] = "reread"
        BY <1>0, <2>2, <3>3 DEF TellStatus, Goes, NavigatesFor
      <4> QED BY <1>5, <2>1, <2>2, <4>1 DEF NavigatesFor
    <3> QED BY <2>2, <3>1, <3>2, <3>3 DEF Reports
  <2>3. CASE p \in Task /\ Snapshots(p)
    <3>1. ~NavigatesFor(p)
      BY <2>3 DEF Snapshots, SnapSource, SnapInject, SnapSend, NavigatesFor
    <3> QED BY <1>5, <2>1, <2>3, <3>1
  <2> QED BY <1>4, <1>6, <2>1, <2>2, <2>3
<1>7. ASSUME NEW t \in Task, Execute(t) \/ Report(t) \/ Reread(t)
      PROVE  \E u \in Task : NavigatesFor(u)'
  <2>1. CASE Execute(t)
    <3>1. PICK place \in {"second", "report"} : Goes(t, place)
      BY <2>1 DEF Execute, FirstCall, SecondCall, Ends
    <3>2. at[t] \in {"start", "second"}
      BY <2>1 DEF Execute, FirstCall, SecondCall
    <3>3. /\ navigating /\ UNCHANGED cmd
          /\ UNCHANGED local \/ \E what : Reads(t, what)
      BY <2>1 DEF Execute, FirstCall, SecondCall, Ends
    <3>4. NavigatesFor(t) => NavigatesFor(t)'
      BY <1>0, <3>1, <3>2, <3>3 DEF Goes, NavigatesFor
    <3> QED BY <1>5, <3>1, <3>3, <3>4
  <2>2. CASE Report(t)
    <3>1. /\ at[t] = "report" /\ navigating /\ cmd' = [cmd EXCEPT ![t] = "none"]
          /\ \E place : Goes(t, place) /\ \E what : Reads(t, what)
      BY <2>2 DEF Report
    <3>2. NavigatesFor(t) => NavigatesFor(t)'
      <4> SUFFICES ASSUME NavigatesFor(t) PROVE NavigatesFor(t)'
        OBVIOUS
      <4>1. cmd[t] = "refresh"
        BY <3>1 DEF NavigatesFor
      <4>2. linked
        BY <1>1, <2>2, <4>1 DEF Report
      <4>3. CASE local[t].met = NoAlert
        <5>1. Goes(t, "reread")
          BY <2>2, <4>1, <4>2, <4>3 DEF Report
        <5> QED BY <1>0, <5>1 DEF Goes, NavigatesFor
      <4>4. CASE local[t].met # NoAlert
        <5>1. Goes(t, "tell") /\ Reads(t, Word(local[t].met, TRUE))
          BY <2>2, <4>1, <4>2, <4>4 DEF Report
        <5>2. at'[t] = "tell" /\ local'[t].nav
          BY <1>0, <5>1 DEF Goes, Reads, Word
        <5> QED BY <5>2 DEF NavigatesFor
      <4> QED BY <4>3, <4>4
    <3> QED BY <1>5, <3>1, <3>2
  <2>3. CASE Reread(t)
    <3>1. alert = NoAlert
      BY <1>1, <2>3, Zenon DEF Reread
    <3> QED BY <2>3, <3>1 DEF Reread
  <2> QED BY <1>7, <2>1, <2>2, <2>3
<1>8. CASE Receive
  <2> DEFINE c == Head(inbox)
  <2>0. UNCHANGED local
    BY <1>8 DEF Receive
  <2>1. CASE c \in {"resync", "restart_worker", "browser_config"}
    <3>1. navigating /\ UNCHANGED cmd /\ \E place : Goes("reader", place)
      BY <1>8, <2>1 DEF Receive
    <3> QED BY <1>0, <1>4, <2>0, <3>1 DEF Process
  <2>2. CASE c \notin {"resync", "restart_worker", "browser_config"}
    <3>1. PICK t \in Task : at[t] = "idle" /\ Goes(t, "start") /\ cmd' = [cmd EXCEPT ![t] = c]
      BY <1>8, <2>2 DEF Receive
    <3>2. navigating \/ c = "refresh"
      BY <1>8, <2>2 DEF Receive
    <3>3. CASE c = "refresh"
      BY <1>0, <3>1, <3>3 DEF Goes, NavigatesFor
    <3>4. CASE navigating
      <4>1. ~NavigatesFor(t)
        BY <3>1 DEF NavigatesFor
      <4> QED BY <1>5, <2>0, <3>1, <3>4, <4>1
    <3> QED BY <3>2, <3>3, <3>4
  <2> QED BY <2>1, <2>2
<1>9. CASE LinkReturns \/ Recover \/ SayConnected
  <2>1. /\ navigating /\ UNCHANGED <<local, cmd>>
        /\ \E place : Goes("reader", place)
    BY <1>9 DEF LinkReturns, Recover, SayConnected, flagVars
  <2> QED BY <1>0, <1>4, <2>1 DEF Process
<1>10. CASE PollWake \/ PollCheck \/ PollRead \/ PollUpdate
  <2>1. /\ navigating /\ UNCHANGED <<local, cmd>>
        /\ \E place : Goes("poll", place)
    BY <1>10 DEF PollWake, PollCheck, PollRead, PollUpdate, flagVars
  <2> QED BY <1>0, <1>4, <2>1 DEF Process
<1> QED BY <1>3, <1>6, <1>7, <1>8, <1>9, <1>10
        DEF Next, vars, AlertOpens, LinkBreaks, UserConfig, UserCommand, Take, coroutineVars, flagVars

MuteInv == AlertsTypes /\ Greets /\ PollLives /\ ReadyComes /\ FlagGoes

\* However commands, dialogs, snapshots and breaks of the link interleave, a
\* worker whose dialogs are gone polls its page again, unless one of the three
\* named things has happened to it (worker.py:179, 343, 358, 555): a quiet
\* reader has set _snapshot_ready, and a quiet task has taken back the
\* _navigation_in_progress it had set.
THEOREM OnlyCausesMute == Spec => []MutenessHasACause
<1>1. Init => MuteInv
  BY TypesInit DEF Init, MuteInv, Greets, PollLives, ReadyComes, FlagGoes, Process
<1>2. MuteInv /\ [Next]_vars => MuteInv'
  BY TypesStep, GreetsStep, PollStays, ReadyStep, FlagStep DEF MuteInv
<1>3. MuteInv => MutenessHasACause
  <2> SUFFICES ASSUME MuteInv, Quiet, history.causes = {}
               PROVE  ready /\ ~navigating /\ at["poll"] = "idle"
    BY DEF MutenessHasACause
  <2>1. \A p \in Process : at[p] \in {"idle", "dead"}
    BY DEF Quiet
  <2>2. at["poll"] = "idle"
    BY <2>1 DEF MuteInv, PollLives, Process
  <2>3. ready
    BY <2>1 DEF MuteInv, ReadyComes, Greets, Quiet, Process
  <2>4. ~navigating
    <3>1. \A t \in Task : ~NavigatesFor(t)
      BY <2>1 DEF NavigatesFor, Process
    <3> QED BY <3>1 DEF MuteInv, FlagGoes
  <2> QED BY <2>2, <2>3, <2>4
<1> QED BY <1>1, <1>2, <1>3, PTL DEF Spec
-----------------------------------------------------------------------------
(* What the controller will show in the end *)

Clearing == {"connected", "disconnected", "crashed", "snapshot"}
Listing == Clearing \cup {"update"}

\* Once the messages f are taken, a status that is s now is alert_blocking; the
\* messages over are those that set it to something else.
Shows(f, s, over) ==
  \/ \E i \in 1..Len(f) :
       f[i] = "alert_blocking" /\ \A j \in (i + 1)..Len(f) : f[j] \notin over
  \/ s = "alert_blocking" /\ \A j \in 1..Len(f) : f[j] \notin over

LEMMA ShowsAppend ==
  ASSUME NEW f \in Seq(Frame), NEW m \in Frame, NEW s, NEW over
  PROVE  /\ m \in over /\ m # "alert_blocking" => ~Shows(Append(f, m), s, over)
         /\ m = "alert_blocking" => Shows(Append(f, m), s, over)
         /\ m \notin over /\ Shows(f, s, over) => Shows(Append(f, m), s, over)
         /\ m # "alert_blocking" /\ Shows(Append(f, m), s, over) => Shows(f, s, over)
<1> DEFINE g == Append(f, m)
<1>1. /\ Len(g) = Len(f) + 1 /\ Len(f) \in Nat /\ g[Len(f) + 1] = m
      /\ \A i \in 1..Len(f) : g[i] = f[i]
  OBVIOUS
<1> HIDE DEF g
<1>2. ASSUME m \in over, m # "alert_blocking" PROVE ~Shows(g, s, over)
  BY <1>1, <1>2 DEF Shows
<1>3. ASSUME m = "alert_blocking" PROVE Shows(g, s, over)
  BY <1>1, <1>3 DEF Shows
<1>4. ASSUME m \notin over, Shows(f, s, over) PROVE Shows(g, s, over)
  <2>1. ASSUME NEW k \in 1..(Len(f) + 1), \A j \in k..Len(f) : f[j] \notin over
        PROVE  \A j \in k..Len(g) : g[j] \notin over
    BY <1>1, <1>4, <2>1
  <2> QED BY <1>1, <1>4, <2>1 DEF Shows
<1>5. ASSUME m # "alert_blocking", Shows(g, s, over) PROVE Shows(f, s, over)
  BY <1>1, <1>5 DEF Shows
<1> QED BY <1>2, <1>3, <1>4, <1>5 DEF g

LEMMA ShowsTail ==
  ASSUME NEW f \in Seq(Frame), f # <<>>, NEW s, NEW t, NEW over, "alert_blocking" \notin over
  PROVE  /\ Shows(f, s, over) /\ (Head(f) \notin over \cup {"alert_blocking"} => t = s)
            /\ (Head(f) = "alert_blocking" => t = "alert_blocking")
              => Shows(Tail(f), t, over)
         /\ Shows(Tail(f), t, over)
            /\ (t = "alert_blocking"
                  => Head(f) \notin over /\ (s = "alert_blocking" \/ Head(f) = "alert_blocking"))
              => Shows(f, s, over)
<1> DEFINE g == Tail(f)
<1>1. /\ Len(g) = Len(f) - 1 /\ Len(f) \in Nat \ {0} /\ Len(g) \in Nat
      /\ \A i \in 1..Len(g) : g[i] = f[i + 1]
      /\ Head(f) = f[1]
  OBVIOUS
<1> HIDE DEF g
<1>2. ASSUME NEW k \in 1..Len(f)
      PROVE  (\A j \in (k + 1)..Len(f) : f[j] \notin over) <=> (\A j \in k..Len(g) : g[j] \notin over)
  <2>1. ASSUME \A j \in (k + 1)..Len(f) : f[j] \notin over, NEW j \in k..Len(g)
        PROVE  g[j] \notin over
    BY <1>1, <2>1
  <2>2. ASSUME \A j \in k..Len(g) : g[j] \notin over, NEW j \in (k + 1)..Len(f)
        PROVE  f[j] \notin over
    <3>1. j - 1 \in k..Len(g) /\ g[j - 1] = f[j]
      BY <1>1
    <3> QED BY <2>2, <3>1
  <2> QED BY <2>1, <2>2
<1>3. ASSUME NEW i \in 2..Len(f), f[i] = "alert_blocking",
             \A j \in (i + 1)..Len(f) : f[j] \notin over
      PROVE  Shows(g, t, over)
  <2>1. i - 1 \in 1..Len(g) /\ g[i - 1] = "alert_blocking"
    BY <1>1, <1>3
  <2>2. \A j \in (i - 1 + 1)..Len(g) : g[j] \notin over
    BY <1>1, <1>2, <1>3
  <2> QED BY <2>1, <2>2 DEF Shows
<1>4. ASSUME Shows(f, s, over), Head(f) \notin over \cup {"alert_blocking"} => t = s,
             Head(f) = "alert_blocking" => t = "alert_blocking"
      PROVE  Shows(g, t, over)
  <2>1. CASE f[1] = "alert_blocking" /\ \A j \in 2..Len(f) : f[j] \notin over
    <3>1. \A j \in 1..Len(g) : g[j] \notin over
      BY <1>1, <1>2, <2>1
    <3> QED BY <1>1, <1>4, <2>1, <3>1 DEF Shows
  <2>2. CASE s = "alert_blocking" /\ \A j \in 1..Len(f) : f[j] \notin over
    <3>1. \A j \in 1..Len(g) : g[j] \notin over
      BY <1>1, <1>2, <2>2
    <3>2. t = "alert_blocking"
      BY <1>1, <1>4, <2>2
    <3> QED BY <3>1, <3>2 DEF Shows
  <2> QED BY <1>1, <1>3, <1>4, <2>1, <2>2 DEF Shows
<1>5. ASSUME Shows(g, t, over),
             t = "alert_blocking"
               => Head(f) \notin over /\ (s = "alert_blocking" \/ Head(f) = "alert_blocking")
      PROVE  Shows(f, s, over)
  <2>1. ASSUME NEW i \in 1..Len(g), g[i] = "alert_blocking",
               \A j \in (i + 1)..Len(g) : g[j] \notin over
        PROVE  Shows(f, s, over)
    <3>1. i + 1 \in 1..Len(f) /\ f[i + 1] = "alert_blocking"
      BY <1>1, <2>1
    <3>2. \A j \in (i + 1 + 1)..Len(f) : f[j] \notin over
      BY <1>1, <1>2, <2>1, <3>1
    <3> QED BY <3>1, <3>2 DEF Shows
  <2>2. CASE t = "alert_blocking" /\ \A j \in 1..Len(g) : g[j] \notin over
    <3>1. \A j \in 2..Len(f) : f[j] \notin over
      BY <1>1, <1>2, <2>2
    <3>2. CASE Head(f) = "alert_blocking"
      BY <1>1, <3>1, <3>2 DEF Shows
    <3>3. CASE s = "alert_blocking" /\ Head(f) \notin over
      <4>1. \A j \in 1..Len(f) : f[j] \notin over
        BY <1>1, <3>1, <3>3
      <4> QED BY <3>3, <4>1 DEF Shows
    <3> QED BY <1>5, <2>2, <3>2, <3>3
  <2> QED BY <1>5, <2>1, <2>2 DEF Shows
<1> QED BY <1>4, <1>5 DEF g

\* Nothing the controller has or will get makes it say alert_blocking.
Cleared == ~Shows(frames, slot.status, Clearing) /\ ~Shows(frames, slot.listed, Clearing)
StatusShown == Shows(frames, slot.status, Clearing)
ListShown == Shows(frames, slot.listed, Listing)

LEMMA SentShows ==
  ASSUME MessagesOK, UNCHANGED slot, NEW m \in Frame, Sent(m)
  PROVE  /\ m \in Clearing => Cleared'
         /\ m # "alert_blocking" /\ Cleared => Cleared'
         /\ m = "alert_blocking" => StatusShown' /\ ListShown'
         /\ m \in {"update", "result"} /\ StatusShown => StatusShown'
         /\ m = "result" /\ ListShown => ListShown'
<1>1. frames \in Seq(Frame) /\ frames' = Append(frames, m)
  BY DEF MessagesOK, Sent, Parses, Frame, State
<1> QED BY <1>1, ShowsAppend DEF Cleared, StatusShown, ListShown, Clearing, Listing

LEMMA TakeShows ==
  ASSUME MessagesOK, Take
  PROVE  /\ Cleared => Cleared'
         /\ StatusShown => StatusShown'
         /\ ListShown => ListShown'
<1> DEFINE m == Head(frames)
<1>1. /\ frames \in Seq(Frame) /\ frames # <<>> /\ frames' = Tail(frames) /\ m \in Frame
      /\ TakeStatus(m) \/ TakeSnapshot(m) \/ TakeUpdate(m) \/ TakeResult(m)
  BY DEF MessagesOK, Take
<1>2. /\ m = "alert_blocking" => slot'.status = m /\ slot'.listed = m
      /\ m \in Clearing
           => slot'.status # "alert_blocking" /\ slot'.listed # "alert_blocking"
      /\ m = "result" => UNCHANGED slot
      /\ m = "update"
           => slot'.status = slot.status /\ slot'.listed \in {slot.listed, "connected"}
  <2>1. CASE TakeStatus(m)
    BY <2>1 DEF TakeStatus, Status, Clearing
  <2>2. CASE TakeSnapshot(m)
    BY <2>2 DEF TakeSnapshot, Status, Clearing
  <2>3. CASE TakeUpdate(m)
    <3>1. slot' \in {slot, Status(slot.status, "connected", FALSE)} /\ m = "update"
      BY <2>3, Zenon DEF TakeUpdate
    <3> QED BY <3>1 DEF Status, Clearing
  <2>4. CASE TakeResult(m)
    BY <2>4 DEF TakeResult, Clearing
  <2> QED BY <1>1, <2>1, <2>2, <2>3, <2>4
<1>3. m \in Clearing \cup {"alert_blocking", "result", "update"}
  BY <1>1 DEF Frame, State, Clearing
<1>4. "alert_blocking" \notin Clearing /\ "alert_blocking" \notin Listing /\ Clearing \subseteq Listing
      /\ "update" \in Listing /\ {"update", "result"} \cap Clearing = {} /\ "result" \notin Listing
  BY DEF Clearing, Listing
<1> HIDE DEF m
<1>5. Shows(frames, slot.status, Clearing) => Shows(frames', slot'.status, Clearing)
  BY <1>1, <1>2, <1>3, <1>4, ShowsTail DEF m
<1>6. Shows(frames, slot.listed, Listing) => Shows(frames', slot'.listed, Listing)
  BY <1>1, <1>2, <1>3, <1>4, ShowsTail DEF m
<1>7. Shows(frames', slot'.status, Clearing) => Shows(frames, slot.status, Clearing)
  BY <1>1, <1>2, <1>3, <1>4, ShowsTail DEF m
<1>8. Shows(frames', slot'.listed, Clearing) => Shows(frames, slot.listed, Clearing)
  BY <1>1, <1>2, <1>3, <1>4, ShowsTail DEF m
<1> QED BY <1>5, <1>6, <1>7, <1>8 DEF Cleared, StatusShown, ListShown

\* A step that says nothing of a dialog, in a message or in the history.
Aside ==
  /\ UNCHANGED <<alert, linked, slot>>
  /\ UNCHANGED frames \/ Sent("result")
  /\ UNCHANGED <<history.told, history.late, history.lateUpdate, history.outdated>>

LEMMA AsideOrNot ==
  ASSUME [Next]_vars
  PROVE  \/ Aside
         \/ AlertOpens \/ LinkBreaks \/ LinkReturns \/ Receive \/ Recover \/ SayConnected
         \/ \E p \in Process : TellStatus(p) \/ SnapSend(p)
         \/ PollUpdate \/ Take
<1>1. ASSUME UNCHANGED <<alert, linked, slot, frames, history>> PROVE Aside
  BY <1>1 DEF Aside
<1>2. ASSUME NEW cause, NEW condition, Notes(cause, condition)
      PROVE  UNCHANGED <<history.told, history.late, history.lateUpdate, history.outdated>>
  BY <1>2 DEF Notes, Past
<1>3. ASSUME NEW p \in Process, Offline(p) \/ SnapInject(p) PROVE Aside
  BY <1>2, <1>3 DEF Offline, SnapInject, browserVars, netVars, Aside
<1>4. ASSUME NEW p \in Process, Tell(p) \/ SnapSource(p) PROVE Aside
  BY <1>1, <1>4 DEF Tell, SnapSource, Sent, Parses, browserVars, netVars
<1>5. ASSUME NEW t \in Task, Execute(t) \/ Report(t) \/ Reread(t) PROVE Aside
  <2>1. CASE Execute(t)
    BY <1>1, <2>1 DEF Execute, browserVars, netVars
  <2>2. CASE Report(t) \/ Reread(t)
    BY <1>2, <2>2 DEF Report, Reread, SentIfLinked, browserVars, netVars, Aside
  <2> QED BY <1>5, <2>1, <2>2
<1>6. CASE PollWake \/ PollCheck \/ PollRead
  BY <1>1, <1>6 DEF PollWake, PollCheck, PollRead, browserVars, netVars
<1>7. CASE UserConfig \/ \E name \in Names : UserCommand(name)
  BY <1>1, <1>7 DEF UserConfig, UserCommand, browserVars
<1>8. CASE UNCHANGED vars
  BY <1>1, <1>8 DEF vars, browserVars, netVars
<1> QED BY <1>3, <1>4, <1>5, <1>6, <1>7, <1>8 DEF Next, Reports, Snapshots

\* A reader that restarts Chrome does so, and says so, before anything else.
LEMMA ReaderRestarts ==
  ASSUME AlertsTypes, [Next]_vars, at["reader"] \in {"recover", "recovered"}
  PROVE  UNCHANGED at["reader"] \/ Recover \/ SayConnected
<1>0. /\ Task \subseteq Process \ {"reader"} /\ {"poll", "reader"} \subseteq Process
      /\ at \in [Process -> Place]
  BY AlertsAssumption DEF Process, AlertsTypes, CoroutinesOK
<1>1. ASSUME NEW p \in Process \ {"reader"}, NEW place, Goes(p, place) PROVE UNCHANGED at["reader"]
  BY <1>0, <1>1 DEF Goes
<1>2. ASSUME NEW p \in Process, Reports(p) \/ Snapshots(p) PROVE UNCHANGED at["reader"]
  <2>1. p # "reader"
    BY <1>2 DEF Reports, Snapshots, Offline, Tell, TellStatus, SnapSource, SnapInject, SnapSend
  <2>2. \E place : Goes(p, place)
    BY <1>2 DEF Reports, Snapshots, Offline, Tell, TellStatus, SnapSource, SnapInject, SnapSend,
                Blocked
  <2> QED BY <1>1, <2>1, <2>2
<1>3. ASSUME NEW t \in Task, Execute(t) \/ Report(t) \/ Reread(t) PROVE UNCHANGED at["reader"]
  <2>1. \E place : Goes(t, place)
    BY <1>3 DEF Execute, FirstCall, SecondCall, Ends, Report, Reread
  <2> QED BY <1>0, <1>1, <2>1
<1>4. CASE PollWake \/ PollCheck \/ PollRead \/ PollUpdate
  <2>1. \E place : Goes("poll", place)
    BY <1>4 DEF PollWake, PollCheck, PollRead, PollUpdate
  <2> QED BY <1>0, <1>1, <2>1
<1>5. ~LinkReturns /\ ~Receive
  BY DEF LinkReturns, Receive
<1>6. CASE UNCHANGED at
  BY <1>6
<1> QED BY <1>2, <1>3, <1>4, <1>5, <1>6
        DEF Next, vars, AlertOpens, LinkBreaks, UserConfig, UserCommand, Take, coroutineVars

\* A break of the link ends with the server's word that the worker is gone, and
\* a restart with a message that overrules the dialog that went with Chrome.
NoPhantom ==
  ~linked \/ (alert = NoAlert /\ ~history.outdated /\ at["reader"] # "recovered") => Cleared

LEMMA PhantomStep == ASSUME AlertsTypes, NoPhantom, [Next]_vars PROVE NoPhantom'
<1> SUFFICES ASSUME \/ ~linked'
                    \/ alert' = NoAlert /\ ~history'.outdated /\ at'["reader"] # "recovered"
             PROVE  Cleared'
  BY DEF NoPhantom
<1>0. MessagesOK /\ HistoryOK /\ FlagsOK /\ at \in [Process -> Place] /\ "reader" \in Process
  BY DEF AlertsTypes, CoroutinesOK, Process
<1>1. at["reader"] = "recovered" => at'["reader"] = "recovered" \/ SayConnected
  BY ReaderRestarts DEF Recover
<1>2. ASSUME UNCHANGED <<alert, linked, history.outdated>>, ~SayConnected PROVE Cleared
  BY <1>1, <1>2 DEF NoPhantom
<1>3. ASSUME Cleared, UNCHANGED <<frames, slot>> PROVE Cleared'
  BY <1>3 DEF Cleared
<1>4. ASSUME NEW m \in Clearing, Sent(m), UNCHANGED slot PROVE Cleared'
  BY <1>0, <1>4, SentShows DEF Frame, State, Clearing
<1>5. ASSUME NEW m \in {"update", "result"}, Sent(m), UNCHANGED slot, Cleared PROVE Cleared'
  BY <1>0, <1>5, SentShows DEF Frame
<1>6. CASE SayConnected
  <2>1. CASE linked
    BY <1>4, <1>6, <2>1 DEF SayConnected, SentIfLinked, Clearing
  <2>2. CASE ~linked
    BY <1>3, <1>6, <2>2 DEF SayConnected, SentIfLinked, NoPhantom
  <2> QED BY <2>1, <2>2
<1>7. CASE Aside /\ ~SayConnected
  BY <1>2, <1>3, <1>5, <1>7 DEF Aside
<1>8. CASE AlertOpens
  <2>1. alert' # NoAlert /\ UNCHANGED <<linked, frames, slot>>
    BY <1>0, <1>8 DEF AlertOpens, HistoryOK, NoAlert, netVars
  <2> QED BY <1>3, <2>1 DEF NoPhantom
<1>9. CASE LinkBreaks
  <2>1. PICK n \in 0..Len(frames) : frames' = Append(SubSeq(frames, 1, n), "disconnected")
    BY <1>9 DEF LinkBreaks
  <2>2. SubSeq(frames, 1, n) \in Seq(Frame)
    BY <1>0, SubSeqProperties DEF MessagesOK
  <2>3. UNCHANGED slot /\ "disconnected" \in Frame \cap Clearing
    BY <1>9 DEF LinkBreaks, Frame, State, Clearing
  <2> QED BY <2>1, <2>2, <2>3, ShowsAppend DEF Cleared
<1>10. CASE LinkReturns
  BY <1>4, <1>10 DEF LinkReturns, Clearing
<1>11. CASE Receive /\ ~SayConnected
  <2>1. Cleared
    BY <1>2, <1>11 DEF Receive, browserVars
  <2>2. UNCHANGED slot /\ frames \in Seq(Frame)
    BY <1>0, <1>11 DEF Receive, MessagesOK
  <2>3. CASE UNCHANGED frames
    BY <1>3, <2>1, <2>2, <2>3
  <2>4. CASE \E g \in Seq(Frame) : frames' = Append(g, "crashed")
    BY <2>2, <2>4, ShowsAppend DEF Cleared, Clearing, Frame, State
  <2>5. \/ UNCHANGED frames \/ frames' = frames \o <<"crashed">>
        \/ frames' = frames \o <<"result", "crashed">>
    BY <1>11 DEF Receive
  <2>6. /\ frames \o <<"crashed">> = Append(frames, "crashed")
        /\ frames \o <<"result", "crashed">> = Append(Append(frames, "result"), "crashed")
        /\ Append(frames, "result") \in Seq(Frame)
    BY <2>2 DEF Frame
  <2> QED BY <2>2, <2>3, <2>4, <2>5, <2>6
<1>12. CASE Recover
  <2>1. at'["reader"] = "recovered" /\ UNCHANGED <<linked, frames, slot>>
    BY <1>0, <1>12 DEF Recover, Goes, netVars
  <2> QED BY <1>3, <2>1 DEF NoPhantom
<1>13. ASSUME NEW p \in Process, TellStatus(p) PROVE Cleared'
  <2>1. linked' /\ UNCHANGED alert /\ history'.outdated = (alert = NoAlert)
    BY <1>13 DEF TellStatus, Past, browserVars
  <2> QED BY <2>1
<1>14. ASSUME NEW p \in Process, SnapSend(p) PROVE Cleared'
  <2>1. CASE linked
    BY <1>4, <1>14, <2>1 DEF SnapSend, SentIfLinked, Clearing
  <2>2. CASE ~linked
    BY <1>3, <1>14, <2>2 DEF SnapSend, SentIfLinked, NoPhantom
  <2> QED BY <2>1, <2>2
<1>15. CASE PollUpdate /\ ~SayConnected
  <2>1. UNCHANGED <<alert, linked, history.outdated, slot>>
    BY <1>15 DEF PollUpdate, Past, browserVars
  <2>2. Cleared
    BY <1>2, <1>15, <2>1
  <2> QED BY <1>3, <1>5, <1>15, <2>1, <2>2 DEF PollUpdate, SentIfLinked
<1>16. CASE Take
  <2>1. UNCHANGED <<alert, linked, history.outdated>>
    BY <1>16 DEF Take, browserVars
  <2> QED BY <1>0, <1>2, <1>6, <1>16, <2>1, TakeShows
<1> QED BY <1>6, <1>7, <1>8, <1>9, <1>10, <1>11, <1>12, <1>13, <1>14, <1>15, <1>16, AsideOrNot

\* Quiet at last: nothing on its way changes what the controller says.
LEMMA QuietShows ==
  ASSUME Quiet
  PROVE  /\ Cleared => "alert_blocking" \notin {slot.status, slot.listed}
         /\ StatusShown => slot.status = "alert_blocking"
         /\ ListShown => slot.listed = "alert_blocking"
<1>1. frames = <<>> /\ Len(frames) = 0
  BY DEF Quiet
<1> QED BY <1>1 DEF Cleared, StatusShown, ListShown, Shows

PhantomInv == AlertsTypes /\ NoPhantom

\* Whatever restarts, reconnections, snapshots and late reports there were,
\* the controller is left with alert_blocking for a worker without a dialog
\* only when the dialog was reported after the restart that took it away
\* (worker.py:262-268 against 342, worker_manager.py:37-59).
THEOREM PhantomsHaveACause == Spec => []NoPhantomAlert
<1>1. Init => PhantomInv
  <2>1. Init => NoPhantom
    BY DEF Init, NoPhantom, Cleared, Shows, Status
  <2> QED BY <2>1, TypesInit DEF PhantomInv
<1>2. PhantomInv /\ [Next]_vars => PhantomInv'
  BY TypesStep, PhantomStep DEF PhantomInv
<1>3. PhantomInv => NoPhantomAlert
  <2> SUFFICES ASSUME PhantomInv, Quiet, alert = NoAlert, ~history.outdated
               PROVE  "alert_blocking" \notin {slot.status, slot.listed}
    BY DEF NoPhantomAlert
  <2>1. at["reader"] # "recovered"
    BY DEF Quiet, Process
  <2> QED BY <2>1, QuietShows DEF PhantomInv, NoPhantom
<1> QED BY <1>1, <1>2, <1>3, PTL DEF Spec

\* The reader is about to restart Chrome, and the dialog goes, or will report
\* the dialog again before the snapshot of the new connection.
Retold ==
  \/ at["reader"] = "recover"
  \/ greeting /\ at["reader"] \in {"snap", "tell", "status"}

\* What was reported and not hidden since is on its way, unless the link broke.
ReportReaches ==
  linked /\ alert \in history.told \ history.late
    => \/ Retold
       \/ StatusShown /\ (alert \notin history.lateUpdate => ListShown)
NoAlertUntold == NoAlert \notin history.told

LEMMA RetoldStep ==
  ASSUME AlertsTypes, [Next]_vars, alert # NoAlert, Retold, linked',
         ~Recover, \A p \in Process : ~TellStatus(p)
  PROVE  Retold'
<1>0. /\ Task \subseteq Process \ {"reader"} /\ {"poll", "reader"} \subseteq Process
      /\ at \in [Process -> Place] /\ at["reader"] \notin {"idle", "recovered", "inject", "send"}
  BY AlertsAssumption DEF Process, AlertsTypes, CoroutinesOK, Retold
<1>1. ASSUME NEW p \in Process \ {"reader"}, NEW place, Goes(p, place), UNCHANGED greeting PROVE Retold'
  BY <1>0, <1>1 DEF Goes, Retold
<1>2. CASE UNCHANGED <<at, greeting>>
  BY <1>2 DEF Retold
<1>3. ASSUME NEW p \in Process, p # "reader", Reports(p) \/ Snapshots(p) PROVE Retold'
  <2>1. \E place : Goes(p, place)
    BY <1>3 DEF Reports, Snapshots, Offline, Tell, TellStatus, SnapSource, SnapInject, SnapSend,
                Blocked
  <2>2. greeting' = greeting
    <3>1. FlagsOK
      BY DEF AlertsTypes
    <3> QED BY <1>3, <3>1 DEF Reports, Snapshots, Offline, Tell, TellStatus, SnapSource, SnapInject,
                              SnapSend, Blocked, flagVars, FlagsOK
  <2> QED BY <1>1, <1>3, <2>1, <2>2
<1>4. CASE Reports("reader") \/ Snapshots("reader")
  <2>1. CASE Offline("reader")
    BY <2>1 DEF Offline, netVars
  <2>2. CASE Tell("reader")
    BY <1>0, <2>2 DEF Tell, Goes, flagVars, Retold
  <2>3. CASE SnapSource("reader")
    BY <1>0, <2>3 DEF SnapSource, Blocked, Goes, Retold
  <2>4. ~SnapInject("reader") /\ ~SnapSend("reader")
    BY <1>0 DEF SnapInject, SnapSend
  <2> QED BY <1>0, <1>4, <2>1, <2>2, <2>3, <2>4 DEF Reports, Snapshots
<1>5. ASSUME NEW t \in Task, Execute(t) \/ Report(t) \/ Reread(t) PROVE Retold'
  <2>1. /\ \E place : Goes(t, place)
        /\ UNCHANGED greeting
    BY <1>5 DEF Execute, FirstCall, SecondCall, Ends, Report, Reread
  <2> QED BY <1>0, <1>1, <2>1
<1>6. CASE PollWake \/ PollCheck \/ PollRead \/ PollUpdate
  <2>1. /\ \E place : Goes("poll", place)
        /\ UNCHANGED greeting
    BY <1>6 DEF PollWake, PollCheck, PollRead, PollUpdate, flagVars
  <2> QED BY <1>0, <1>1, <2>1
<1>7. ~LinkReturns /\ ~Receive /\ ~SayConnected
  BY <1>0 DEF LinkReturns, Receive, SayConnected
<1> QED BY <1>2, <1>3, <1>4, <1>5, <1>6, <1>7
        DEF Next, vars, AlertOpens, LinkBreaks, UserConfig, UserCommand, Take, coroutineVars, flagVars

LEMMA UntoldStep ==
  ASSUME AlertsTypes, NoAlertUntold, [Next]_vars
  PROVE  NoAlertUntold' /\ (alert' # NoAlert => alert' = alert \/ alert' \notin history'.told)
<1>0. alert \in 0..opened /\ opened \in Nat /\ history.told \subseteq 1..opened
  BY DEF AlertsTypes, HistoryOK, Histories
<1>1. CASE UNCHANGED <<alert, history.told>>
  BY <1>1 DEF NoAlertUntold
<1>2. CASE Aside
  BY <1>1, <1>2 DEF Aside
<1>3. CASE AlertOpens
  <2>1. alert' = opened + 1 /\ UNCHANGED history
    BY <1>3 DEF AlertOpens
  <2> QED BY <1>0, <2>1 DEF NoAlertUntold
<1>4. CASE Recover
  BY <1>4 DEF Recover, NoAlertUntold
<1>5. ASSUME NEW p \in Process, TellStatus(p) PROVE NoAlertUntold' /\ UNCHANGED alert
  BY <1>5 DEF TellStatus, Past, browserVars, NoAlertUntold
<1>6. ASSUME NEW p \in Process, SnapSend(p) PROVE UNCHANGED <<alert, history.told>>
  BY <1>6 DEF SnapSend, Hides, Past, browserVars
<1>7. CASE SayConnected \/ PollUpdate
  BY <1>1, <1>7 DEF SayConnected, PollUpdate, Hides, Past, browserVars
<1>8. CASE LinkBreaks \/ LinkReturns \/ Receive \/ Take
  BY <1>1, <1>8 DEF LinkBreaks, LinkReturns, Receive, Take, browserVars
<1> QED BY <1>1, <1>2, <1>3, <1>4, <1>5, <1>6, <1>7, <1>8, AsideOrNot

LEMMA ReportStep ==
  ASSUME AlertsTypes, NoAlertUntold, ReportReaches, [Next]_vars
  PROVE  ReportReaches'
<1> SUFFICES ASSUME linked', alert' \in history'.told \ history'.late
             PROVE  \/ Retold'
                    \/ StatusShown' /\ (alert' \notin history'.lateUpdate => ListShown')
  BY DEF ReportReaches
<1> DEFINE Goal == Retold' \/ (StatusShown' /\ (alert' \notin history'.lateUpdate => ListShown'))
<1>0. /\ MessagesOK /\ HistoryOK /\ FlagsOK /\ at \in [Process -> Place] /\ "reader" \in Process
      /\ alert' = alert /\ alert # NoAlert /\ ~Recover
  BY UntoldStep DEF AlertsTypes, CoroutinesOK, Process, NoAlertUntold, Recover
<1>1. ASSUME linked, alert \in history.told \ history.late, \A p \in Process : ~TellStatus(p), ~Retold'
      PROVE  StatusShown /\ (alert \notin history.lateUpdate => ListShown)
  BY <1>0, <1>1, RetoldStep DEF ReportReaches
<1>2. ASSUME NEW p \in Process, TellStatus(p) PROVE Goal
  BY <1>0, <1>2, SentShows DEF TellStatus, Frame, State
<1>3. CASE Aside /\ \A p \in Process : ~TellStatus(p)
  BY <1>0, <1>1, <1>3, SentShows DEF Aside, StatusShown, ListShown, Frame
<1>4. CASE LinkReturns
  BY <1>0, <1>4 DEF LinkReturns, Goes, Retold
<1>5. ASSUME NEW p \in Process, SnapSend(p) PROVE FALSE
  BY <1>0, <1>5 DEF SnapSend, Hides, Past, netVars
<1>6. CASE SayConnected
  BY <1>0, <1>6 DEF SayConnected, Hides, Past, netVars
<1>7. CASE Receive /\ \A p \in Process : ~TellStatus(p)
  <2>1. linked /\ UNCHANGED <<history, slot>>
    BY <1>7 DEF Receive
  <2>2. UNCHANGED frames \/ Goes("reader", "recover")
    BY <1>7 DEF Receive
  <2>3. CASE Goes("reader", "recover")
    BY <1>0, <2>3 DEF Goes, Retold
  <2> QED BY <1>0, <1>1, <1>7, <2>1, <2>2, <2>3 DEF StatusShown, ListShown
<1>8. CASE PollUpdate /\ \A p \in Process : ~TellStatus(p)
  <2>1. linked /\ UNCHANGED <<history.told, history.late, slot>> /\ Sent("update")
    BY <1>8 DEF PollUpdate, SentIfLinked, Past
  <2>2. alert \in history'.lateUpdate
    BY <1>0, <1>8, <2>1 DEF PollUpdate, Past
  <2> QED BY <1>0, <1>1, <1>8, <2>1, <2>2, SentShows DEF Frame
<1>9. CASE Take /\ \A p \in Process : ~TellStatus(p)
  <2>1. UNCHANGED <<linked, history>>
    BY <1>9 DEF Take
  <2> QED BY <1>0, <1>1, <1>9, <2>1, TakeShows
<1>10. ~AlertOpens /\ ~LinkBreaks
  BY <1>0 DEF AlertOpens, LinkBreaks, HistoryOK
<1> QED BY <1>0, <1>2, <1>3, <1>4, <1>5, <1>6, <1>7, <1>8, <1>9, <1>10, AsideOrNot

ReportInv == AlertsTypes /\ NoAlertUntold /\ ReportReaches

\* A dialog that was reported and is still open ends up as the controller's
\* status of the worker, over breaks of the link too, for the first snapshot
\* of a new connection reports it again (worker.py:163-180); what hides it is
\* a snapshot or a connected status of before it opened, and of the list of
\* workers an update, too (worker.py:206-231, 258-268, main_window.py:296).
THEOREM ReportsReach == Spec => []OpenAlertIsShown
<1>1. Init => ReportInv
  <2>1. Init => NoAlertUntold /\ ReportReaches
    BY DEF Init, NoAlertUntold, ReportReaches, NoHistory, Past
  <2> QED BY <2>1, TypesInit DEF ReportInv
<1>2. ReportInv /\ [Next]_vars => ReportInv'
  BY TypesStep, UntoldStep, ReportStep DEF ReportInv
<1>3. ReportInv => OpenAlertIsShown
  <2> SUFFICES ASSUME ReportInv, Quiet, alert \in history.told \ history.late
               PROVE  /\ slot.status = "alert_blocking"
                      /\ alert \notin history.lateUpdate => slot.listed = "alert_blocking"
    BY DEF OpenAlertIsShown
  <2>1. linked /\ ~Retold
    BY DEF Quiet, Process, Retold
  <2> QED BY <2>1, QuietShows DEF ReportInv, ReportReaches
<1> QED BY <1>1, <1>2, <1>3, PTL DEF Spec
=============================================================================
