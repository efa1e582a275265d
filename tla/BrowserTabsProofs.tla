------------------------- MODULE BrowserTabsProofs -------------------------
(***************************************************************************)
(* Proofs about BrowserTabs, for any number of windows, tasks and events:  *)
(* its types with the mutual exclusion of _selenium_lock, and what the     *)
(* controller shows of the browser's tabs in the end.                      *)
(***************************************************************************)
EXTENDS BrowserTabs, SequenceTheorems, FiniteSetTheorems, TLAPS

(* Types *)

Places == {"idle", "snap", "recover", "source", "handle", "send", "start", "target", "close",
          "leave", "report", "reread", "awake", "address", "tabs", "update", "follow", "announce"}
Holding == {"handle", "target", "close", "leave"}
Order == [name : {"none", "resync", "new_tab", "switch_tab", "close_tab"}, handle : Nat]
Words == [page : Nat, handle : Nat, observed : BOOLEAN, mutated : BOOLEAN, all : SUBSET Nat]
TabSet == [handle : Nat, shows : Nat \cup {Garbled}, version : Nat, stale : BOOLEAN]
Notice == [type : {"opened", "closed", "result"}, handle : Nat]
Snapshot == [type : {"snapshot"}, handle : Nat, page : Nat, version : Nat]
Update == [type : {"update"}, handle : Nat, base : Nat, version : Nat, from : Nat, to : Nat]
Message == Notice \cup Snapshot \cup Update
Histories == [late : BOOLEAN, mixed : SUBSET Nat, dead : SUBSET Nat, listed : SUBSET Nat,
              skipped : SUBSET Nat]

BrowserOK ==
  /\ windows \in Seq(Nat) /\ made \in Nat /\ focus \in 1..made /\ made <= MaxHandle
  /\ Open \subseteq 1..made /\ observed \subseteq 1..made /\ mutated \subseteq 1..made
CoroutinesOK ==
  /\ lock \in Process \cup {NoOne} /\ at \in [Process -> Places]
  /\ \A p \in Process : lock = p <=> at[p] \in Holding
\* What the poll loop knows at a place: the window it follows, or the page it
\* has read with the window it was read in.
PollKnows(place, word) ==
  /\ place \in {"follow", "announce"} => word.handle # NoHandle
  /\ place \in {"address", "tabs", "update"} => word.page = word.handle
WordsOK ==
  /\ local \in [Process -> Words]
  /\ \A p \in Process : local[p].handle <= made /\ local[p].all \subseteq 1..made
  /\ PollKnows(at["poll"], local["poll"])
OrdersOK ==
  /\ cmd \in [Task -> Order] /\ \A t \in Task : cmd[t].handle <= made
  /\ inbox \in Seq(Order) /\ \A i \in DOMAIN inbox : inbox[i].handle <= made
StateOK ==
  /\ executing \in BOOLEAN /\ navigating \in BOOLEAN /\ pending \in BOOLEAN
  /\ known \subseteq 1..made /\ ver \in Nat /\ lastPage \in Nat /\ lastUrl \in Nat
  /\ spent \in Nat /\ history \in Histories /\ history.listed \subseteq 1..made
Named(m, n, open) ==
  /\ m.handle <= n
  /\ m.type \in {"opened", "closed"} => m.handle # NoHandle
  /\ m.type = "closed" => m.handle \notin open
FramesOK == frames \in Seq(Message) /\ \A i \in DOMAIN frames : Named(frames[i], made, Open)
Handles(list) == {list[i].handle : i \in DOMAIN list}
TabsOK(list) ==
  /\ list \in Seq(TabSet) /\ Handles(list) \subseteq 0..made
  /\ \A i, j \in DOMAIN list : list[i].handle = list[j].handle => i = j
MirrorOK == TabsOK(tabs) /\ active \in Nat /\ bar \subseteq 1..made

BrowserTabsTypes ==
  BrowserOK /\ CoroutinesOK /\ WordsOK /\ OrdersOK /\ StateOK /\ FramesOK /\ MirrorOK

LEMMA Processes ==
  /\ Task \subseteq Process /\ "poll" \in Process /\ "reader" \in Process
  /\ NoOne \notin Process /\ "poll" \notin Task /\ "reader" \notin Task
BY BrowserTabsAssumption DEF Process

(* The driver's calls.  A handle is never used again. *)

OnlyNewOpen == made <= made' /\ Open' \cap 1..made \subseteq Open

LEMMA RemoveAtProperties ==
  ASSUME NEW S, NEW s \in Seq(S), NEW i \in 1..Len(s)
  PROVE  /\ RemoveAt(s, i) \in Seq(S) /\ Len(RemoveAt(s, i)) = Len(s) - 1
         /\ \A j \in 1..(Len(s) - 1) : RemoveAt(s, i)[j] = IF j < i THEN s[j] ELSE s[j + 1]
<1> DEFINE a == SubSeq(s, 1, i - 1)
           b == SubSeq(s, i + 1, Len(s))
<1>1. /\ a \in Seq(S) /\ Len(a) = i - 1
      /\ \A j \in 1..(i - 1) : a[j] = s[j]
  BY SubSeqProperties
<1>2. /\ b \in Seq(S) /\ Len(b) = Len(s) - i
      /\ \A j \in 1..(Len(s) - i) : b[j] = s[i + j]
  BY SubSeqProperties
<1>3. RemoveAt(s, i) = a \o b
  BY DEF RemoveAt
<1> HIDE DEF a, b
<1>4. /\ a \o b \in Seq(S) /\ Len(a \o b) = Len(a) + Len(b)
      /\ \A j \in 1..(Len(a) + Len(b)) : (a \o b)[j] = IF j <= Len(a) THEN a[j] ELSE b[j - Len(a)]
  BY <1>1, <1>2, ConcatProperties
<1>5. ASSUME NEW j \in 1..(Len(s) - 1) PROVE (a \o b)[j] = IF j < i THEN s[j] ELSE s[j + 1]
  <2>1. CASE j < i
    BY <1>1, <1>2, <1>4, <2>1
  <2>2. CASE j >= i
    <3>1. j - (i - 1) \in 1..(Len(s) - i) /\ i + (j - (i - 1)) = j + 1
      BY <2>2
    <3>2. ~(j <= Len(a)) /\ Len(a) = i - 1 /\ j \in 1..(Len(a) + Len(b))
      BY <1>1, <1>2, <2>2
    <3>3. (a \o b)[j] = b[j - (i - 1)]
      BY <1>4, <3>2
    <3>4. b[j - (i - 1)] = s[i + (j - (i - 1))]
      BY <1>2, <3>1
    <3>5. (a \o b)[j] = s[j + 1]
      BY <3>1, <3>3, <3>4, Zenon
    <3>6. ~(j < i)
      BY <2>2
    <3> QED BY <3>5, <3>6, Zenon
  <2>3. j < i \/ j >= i
    OBVIOUS
  <2> QED BY <2>1, <2>2, <2>3, Zenon
<1> QED BY <1>1, <1>2, <1>3, <1>4, <1>5

LEMMA WindowGoes ==
  ASSUME BrowserOK, NEW h, Without(h)
  PROVE  BrowserOK' /\ OnlyNewOpen /\ made' = made /\ focus' = focus
<1>1. PICK i \in DOMAIN windows : windows[i] = h /\ windows' = RemoveAt(windows, i)
  BY DEF Without
<1>2. /\ i \in 1..Len(windows) /\ windows \in Seq(Nat) /\ DOMAIN windows = 1..Len(windows)
  BY <1>1 DEF BrowserOK
<1>3. /\ windows' \in Seq(Nat) /\ Len(windows') = Len(windows) - 1
      /\ \A j \in 1..(Len(windows) - 1) : windows'[j] \in {windows[j], windows[j + 1]}
  BY <1>1, <1>2, RemoveAtProperties
<1>4. DOMAIN windows' = 1..(Len(windows) - 1) /\ Len(windows) \in Nat
  BY <1>2, <1>3
<1>5. ASSUME NEW j \in DOMAIN windows' PROVE windows'[j] \in Open
  <2>1. j \in DOMAIN windows /\ j + 1 \in DOMAIN windows
    BY <1>2, <1>4
  <2> QED BY <1>3, <1>4, <2>1 DEF Open, Range
<1>6. Open' \subseteq Open
  BY <1>5 DEF Open, Range
<1>7. observed' \subseteq observed /\ mutated' \subseteq mutated /\ made' = made /\ focus' = focus
  BY DEF Without
<1> QED BY <1>3, <1>6, <1>7 DEF BrowserOK, OnlyNewOpen

LEMMA WindowComes ==
  ASSUME BrowserOK, made < MaxHandle, windows' = Append(windows, made + 1), made' = made + 1,
         UNCHANGED pageVars, focus' \in {focus, made + 1}
  PROVE  BrowserOK' /\ OnlyNewOpen
<1>1. /\ windows' \in Seq(Nat) /\ Len(windows') = Len(windows) + 1
      /\ \A i \in 1..Len(windows) : windows'[i] = windows[i]
      /\ windows'[Len(windows) + 1] = made + 1
  BY AppendProperties DEF BrowserOK
<1>2. DOMAIN windows = 1..Len(windows) /\ DOMAIN windows' = 1..(Len(windows) + 1) /\ Len(windows) \in Nat
  BY <1>1 DEF BrowserOK
<1>3. Open' = Open \cup {made + 1}
  BY <1>1, <1>2 DEF Open, Range
<1> QED BY <1>1, <1>3, BrowserAssumption DEF BrowserOK, OnlyNewOpen, pageVars

LEMMA ChromeRestarts ==
  ASSUME BrowserOK, made < MaxHandle, Restart
  PROVE  BrowserOK' /\ OnlyNewOpen
<1>1. windows' \in Seq(Nat) /\ Open' = {made + 1}
  BY DEF Restart, BrowserOK, Open, Range
<1> QED BY <1>1, BrowserAssumption DEF BrowserOK, OnlyNewOpen, Restart

LEMMA WindowsStay ==
  ASSUME BrowserOK, UNCHANGED <<windows, made>>, focus' \in Open \cup {focus},
         observed' \subseteq observed \cup {focus}, mutated' \subseteq mutated \cup observed
  PROVE  BrowserOK' /\ OnlyNewOpen
<1>1. Open' = Open
  BY DEF Open
<1> QED BY <1>1 DEF BrowserOK, OnlyNewOpen

LEMMA ExecuteBrowser ==
  ASSUME BrowserOK, NEW t \in Task, Execute(t)
  PROVE  BrowserOK' /\ OnlyNewOpen
<1>1. CASE UNCHANGED browserVars
  BY <1>1, WindowsStay DEF browserVars
<1>2. ASSUME NEW h, SwitchToWindow(h) PROVE BrowserOK' /\ OnlyNewOpen
  BY <1>2, WindowsStay DEF SwitchToWindow, pageVars
<1>3. CASE made < MaxHandle /\ NewWindow
  BY <1>3, WindowComes DEF NewWindow
<1>4. CASE Close
  BY <1>4, WindowGoes DEF Close
<1>5. CASE Fail(t) \/ SwitchTab(t) \/ NewTabOpens(t)
  BY <1>1, <1>2, <1>3, <1>5 DEF Fail, SwitchTab, NewTabOpens
<1>6. CASE CloseTabRescue(t)
  BY <1>1, <1>3, <1>6 DEF CloseTabRescue
<1>7. CASE CloseTabTarget(t)
  BY <1>2, <1>7 DEF CloseTabTarget
<1>8. CASE CloseTabClose(t) \/ CloseTabLeave(t)
  BY <1>1, <1>2, <1>4, <1>8 DEF CloseTabClose, CloseTabLeave
<1> QED BY <1>5, <1>6, <1>7, <1>8 DEF Execute, CloseTab

LEMMA BrowserStep == ASSUME BrowserOK, [Next]_vars PROVE BrowserOK' /\ OnlyNewOpen
<1>1. CASE UNCHANGED browserVars
  BY <1>1, WindowsStay DEF browserVars
<1>2. CASE World
  <2>1. CASE PageOpens
    BY <2>1, WindowComes DEF PageOpens, OpenWindow
  <2>2. CASE PageGoes
    BY <2>2, WindowGoes DEF PageGoes, WindowCloses
  <2>3. CASE PageMutates
    BY <2>3, WindowsStay DEF PageMutates, Mutates
  <2> QED BY <1>2, <2>1, <2>2, <2>3 DEF World
<1>3. CASE Inject
  BY <1>3, WindowsStay DEF Inject
<1>4. ASSUME NEW p \in Process, Snapshots(p) PROVE BrowserOK' /\ OnlyNewOpen
  BY <1>1, <1>3, <1>4, ChromeRestarts
  DEF Snapshots, SnapCheck, Recover, SnapSource, SnapHandle, SnapSend
<1>5. ASSUME NEW t \in Task, Works(t) PROVE BrowserOK' /\ OnlyNewOpen
  BY <1>1, <1>3, <1>5, ExecuteBrowser DEF Works, Report, Remember
<1>6. CASE PollRead
  BY <1>1, <1>6, WindowsStay DEF PollRead, Drain
<1>7. CASE PollFollow
  BY <1>7, WindowsStay DEF PollFollow, SwitchToWindow, pageVars
<1>8. CASE PollWake \/ PollAddress \/ PollTabs \/ PollAnnounce \/ PollUpdate
  BY <1>1, <1>8 DEF PollWake, PollAddress, PollTabs, PollAnnounce, PollUpdate
<1>9. CASE Receive \/ Take
  BY <1>1, <1>9 DEF Receive, Take
<1>10. ASSUME NEW h, NEW name, Command(name, h) PROVE BrowserOK' /\ OnlyNewOpen
  BY <1>1, <1>10 DEF Command
<1>11. CASE UNCHANGED vars
  BY <1>1, <1>11 DEF vars
<1> QED BY <1>2, <1>4, <1>5, <1>6, <1>7, <1>8, <1>9, <1>10, <1>11 DEF Next, Polls

(* The coroutines and the lock *)

\* A coroutine goes to a place, with the lock as the place demands.
Moves(p, place) ==
  /\ Goes(p, place)
  /\ \/ UNCHANGED lock /\ at[p] \notin Holding /\ place \notin Holding
     \/ lock = NoOne /\ lock' = p /\ place \in Holding
     \/ at[p] \in Holding /\ lock' = p /\ place \in Holding
     \/ (at[p] \in Holding \/ lock = NoOne) /\ lock' = NoOne /\ place \notin Holding

LEMMA MoveOK ==
  ASSUME CoroutinesOK, NEW p \in Process, NEW place \in Places, Moves(p, place)
  PROVE  CoroutinesOK'
BY Processes DEF CoroutinesOK, Moves, Goes

LEMMA ExecuteMoves ==
  ASSUME NEW t \in Task, Execute(t)
  PROVE  \E place \in Places : Moves(t, place)
<1>1. CASE Fail(t)
  <2>1. Moves(t, "report")
    BY <1>1 DEF Fail, Over, Free, Moves, Holding
  <2> QED BY <2>1 DEF Places
<1>2. CASE SwitchTab(t) \/ NewTabOpens(t)
  <2>1. Moves(t, "report")
    BY <1>2 DEF SwitchTab, NewTabOpens, Begins, Over, Free, Moves, Holding
  <2> QED BY <2>1 DEF Places
<1>3. CASE CloseTabRescue(t)
  <2>1. Moves(t, "target")
    BY <1>3 DEF CloseTabRescue, Begins, Calls, Free, Moves, Holding
  <2> QED BY <2>1 DEF Places
<1>4. CASE CloseTabTarget(t)
  <2>1. Moves(t, "close")
    BY <1>4 DEF CloseTabTarget, Calls, Moves, Holding
  <2> QED BY <2>1 DEF Places
<1>5. CASE CloseTabClose(t)
  <2>1. \/ Goes(t, "leave") /\ lock' = t
        \/ Goes(t, "report") /\ lock' = NoOne
    BY <1>5 DEF CloseTabClose, Calls, Over
  <2>2. Moves(t, "leave") \/ Moves(t, "report")
    BY <1>5, <2>1 DEF CloseTabClose, Moves, Holding
  <2> QED BY <2>2 DEF Places
<1>6. CASE CloseTabLeave(t)
  <2>1. Moves(t, "report")
    BY <1>6 DEF CloseTabLeave, Over, Moves, Holding
  <2> QED BY <2>1 DEF Places
<1> QED BY <1>1, <1>2, <1>3, <1>4, <1>5, <1>6 DEF Execute, CloseTab

LEMMA CoroutinesStep == ASSUME CoroutinesOK, [Next]_vars PROVE CoroutinesOK'
<1>1. ASSUME \E p \in Process : \E place \in Places : Moves(p, place) PROVE CoroutinesOK'
  BY <1>1, MoveOK
<1>2. CASE UNCHANGED <<lock, at>>
  BY <1>2 DEF CoroutinesOK
<1>3. ASSUME NEW p \in Process, NEW place \in Places \ Holding, Goes(p, place), UNCHANGED lock,
             at[p] \notin Holding
      PROVE  CoroutinesOK'
  BY <1>1, <1>3 DEF Moves
<1>4. ASSUME NEW p \in Process, Snapshots(p) PROVE CoroutinesOK'
  <2>1. CASE SnapCheck(p)
    <3>1. \E place \in {"source", "recover"} : Goes(p, place)
      BY <2>1 DEF SnapCheck
    <3> QED BY <1>3, <2>1, <3>1 DEF SnapCheck, Places, Holding
  <2>2. CASE Recover(p) \/ SnapSend(p)
    BY <1>3, <2>2 DEF Recover, SnapSend, Places, Holding
  <2>3. CASE SnapSource(p)
    <3>1. \/ Goes(p, "handle") /\ lock' = p
          \/ Goes(p, "idle") /\ UNCHANGED lock
      BY <2>3 DEF SnapSource
    <3>2. Moves(p, "handle") \/ Moves(p, "idle")
      BY <2>3, <3>1 DEF SnapSource, Free, Moves, Holding
    <3> QED BY <1>1, <3>2 DEF Places
  <2>4. CASE SnapHandle(p)
    <3>1. Moves(p, "send")
      BY <2>4 DEF SnapHandle, Moves, Holding
    <3> QED BY <1>1, <3>1 DEF Places
  <2> QED BY <1>4, <2>1, <2>2, <2>3, <2>4 DEF Snapshots
<1>5. CASE Receive
  <2>1. Goes("reader", "snap") \/ \E t \in Task : at[t] = "idle" /\ Goes(t, "start")
    BY <1>5 DEF Receive
  <2>2. at["reader"] = "idle" /\ UNCHANGED lock
    BY <1>5 DEF Receive
  <2> QED BY <1>3, <2>1, <2>2, Processes DEF Places, Holding
<1>6. ASSUME NEW t \in Task, Works(t) PROVE CoroutinesOK'
  <2>1. CASE Execute(t)
    BY <1>1, <2>1, ExecuteMoves, Processes
  <2>2. CASE Report(t)
    BY <1>3, <2>2, Processes DEF Report, Places, Holding
  <2>3. CASE Remember(t)
    BY <1>3, <2>3, Processes DEF Remember, Places, Holding
  <2> QED BY <1>6, <2>1, <2>2, <2>3 DEF Works
<1>7. CASE PollWake \/ PollFollow \/ PollAnnounce \/ PollUpdate
  BY <1>3, <1>7, Processes DEF PollWake, PollFollow, PollAnnounce, PollUpdate, Places, Holding
<1>8. CASE PollRead \/ PollAddress
  <2>1. \E place \in {"idle", "address", "tabs", "snap"} : Goes("poll", place)
    BY <1>8 DEF PollRead, PollAddress
  <2>2. at["poll"] \in {"awake", "address"} /\ UNCHANGED lock
    BY <1>8 DEF PollRead, PollAddress
  <2> QED BY <1>3, <2>1, <2>2, Processes DEF Places, Holding
<1>9. CASE PollTabs
  <2>1. Goes("poll", "follow") \/ Goes("poll", "update")
    BY <1>9 DEF PollTabs, Follows
  <2>2. at["poll"] \in {"tabs", "address"} /\ UNCHANGED lock
    BY <1>9 DEF PollTabs
  <2> QED BY <1>3, <2>1, <2>2, Processes DEF Places, Holding
<1>10. CASE World \/ Take
  BY <1>2, <1>10 DEF World, Take, coroutineVars
<1>11. ASSUME NEW h, NEW name, Command(name, h) PROVE CoroutinesOK'
  BY <1>2, <1>11 DEF Command, coroutineVars
<1>12. CASE UNCHANGED vars
  BY <1>2, <1>12 DEF vars, coroutineVars
<1> QED BY <1>4, <1>5, <1>6, <1>7, <1>8, <1>9, <1>10, <1>11, <1>12 DEF Next, Polls

(* What the coroutines have read, and the commands *)

LEMMA WordsMove ==
  ASSUME WordsOK, CoroutinesOK, made \in Nat, made' \in Nat, made <= made',
         NEW p \in Process, NEW place \in Places, NEW word \in Words,
         word.handle <= made', word.all \subseteq 1..made', Goes(p, place), Reads(p, word),
         p = "poll" => PollKnows(place, word)
  PROVE  WordsOK'
<1>1. /\ at' = [at EXCEPT ![p] = place] /\ local' = [local EXCEPT ![p] = word]
      /\ at \in [Process -> Places] /\ local \in [Process -> Words]
  BY DEF Goes, Reads, CoroutinesOK, WordsOK
<1>2. local' \in [Process -> Words]
  BY <1>1
<1>3. ASSUME NEW q \in Process PROVE local'[q].handle <= made' /\ local'[q].all \subseteq 1..made'
  <2>1. CASE q = p
    BY <1>1, <2>1
  <2>2. CASE q # p
    <3>1. local'[q] = local[q] /\ local[q] \in Words
      BY <1>1, <2>2
    <3>2. local[q].handle <= made /\ local[q].all \subseteq 1..made /\ local[q].handle \in Nat
      BY <3>1 DEF WordsOK, Words
    <3> QED BY <3>1, <3>2
  <2> QED BY <2>1, <2>2
<1>4. PollKnows(at'["poll"], local'["poll"])
  <2>1. CASE p = "poll"
    BY <1>1, <2>1
  <2>2. CASE p # "poll"
    <3>1. at'["poll"] = at["poll"] /\ local'["poll"] = local["poll"]
      BY <1>1, <2>2, Processes
    <3> QED BY <3>1 DEF WordsOK
  <2> QED BY <2>1, <2>2
<1> QED BY <1>2, <1>3, <1>4 DEF WordsOK, PollKnows

LEMMA WordsStay ==
  ASSUME WordsOK, CoroutinesOK, made \in Nat, made' \in Nat, made <= made', UNCHANGED local,
         NEW p \in Process, NEW place \in Places, Goes(p, place),
         p = "poll" => PollKnows(place, local[p])
  PROVE  WordsOK'
<1>1. local[p] \in Words /\ local[p].handle <= made' /\ local[p].all \subseteq 1..made'
  BY DEF WordsOK, Words
<1>2. Reads(p, local[p])
  BY DEF Reads, WordsOK
<1> QED BY <1>1, <1>2, WordsMove

LEMMA HasOK ==
  ASSUME NEW page \in Nat, NEW handle \in Nat, NEW o \in BOOLEAN, NEW m \in BOOLEAN,
         NEW all \in SUBSET Nat
  PROVE  /\ Has(page, handle, o, m, all) \in Words
         /\ Has(page, handle, o, m, all).handle = handle
         /\ Has(page, handle, o, m, all).page = page
         /\ Has(page, handle, o, m, all).mutated = m
         /\ Has(page, handle, o, m, all).all = all
BY DEF Has, Words

LEMMA NewestIsOpen ==
  ASSUME BrowserOK, Open # {}
  PROVE  Last(windows) \in Open
<1>1. windows \in Seq(Nat) /\ DOMAIN windows = 1..Len(windows) /\ Len(windows) \in Nat
  BY DEF BrowserOK
<1>2. Len(windows) \in DOMAIN windows
  BY <1>1 DEF Open, Range
<1> QED BY <1>2 DEF Last, Open, Range

LEMMA FirstIsOpen ==
  ASSUME BrowserOK, Open # {}
  PROVE  Head(windows) \in Open
<1>1. windows \in Seq(Nat) /\ DOMAIN windows = 1..Len(windows) /\ Len(windows) \in Nat
  BY DEF BrowserOK
<1>2. 1 \in DOMAIN windows /\ Head(windows) = windows[1]
  BY <1>1 DEF Open, Range
<1> QED BY <1>2 DEF Open, Range

LEMMA WordsStep ==
  ASSUME BrowserOK, CoroutinesOK, WordsOK, OrdersOK, [Next]_vars
  PROVE  WordsOK'
<1>0. made \in Nat /\ made' \in Nat /\ made <= made' /\ focus \in Nat /\ focus <= made
  BY BrowserStep DEF BrowserOK, OnlyNewOpen
<1>1. CASE UNCHANGED <<at, local>>
  <2>1. ASSUME NEW p \in Process
        PROVE  local[p].handle <= made' /\ local[p].all \subseteq 1..made'
    BY <1>0 DEF WordsOK, Words
  <2> QED BY <1>1, <2>1 DEF WordsOK, PollKnows
<1>2. ASSUME NEW p \in Process, NEW place \in Places, Goes(p, place),
             p = "poll" => place \notin {"follow", "announce", "address", "tabs", "update"},
             UNCHANGED local \/ Reads(p, Nothing)
      PROVE  WordsOK'
  <2>1. Nothing \in Words /\ Nothing.handle = 0 /\ Nothing.all = {}
    BY DEF Nothing, Has, Words
  <2> QED BY <1>0, <1>2, <2>1, WordsMove, WordsStay DEF PollKnows
<1>14. ASSUME NEW p \in Process, NEW place \in Places, Goes(p, place),
              p = "poll" => place \notin {"follow", "announce", "address", "tabs", "update"},
              NEW page \in Nat, NEW handle \in 0..made, Reads(p, Has(page, handle, FALSE, FALSE, {}))
       PROVE  WordsOK'
  <2> DEFINE word == Has(page, handle, FALSE, FALSE, {})
  <2>1. word \in Words /\ word.handle = handle /\ word.all = {}
    BY <1>0, <1>14 DEF Has, Words
  <2>3. Reads(p, word)
    BY <1>14
  <2> HIDE DEF word
  <2>2. word.handle <= made' /\ word.all \subseteq 1..made'
    BY <1>0, <1>14, <2>1
  <2> QED BY <1>0, <1>14, <2>1, <2>2, <2>3, WordsMove DEF PollKnows
<1>3. ASSUME NEW p \in Process, Snapshots(p) PROVE WordsOK'
  <2>1. CASE SnapCheck(p) \/ Recover(p) \/ SnapSend(p)
    BY <1>2, <2>1 DEF SnapCheck, Recover, SnapSend, Places
  <2>2. CASE Goes(p, "idle") /\ Reads(p, Nothing)
    BY <1>2, <2>2 DEF Places
  <2>3. CASE Goes(p, "handle") /\ Reads(p, Has(focus, 0, FALSE, FALSE, {}))
    <3>1. 0 \in 0..made
      BY <1>0
    <3> QED BY <1>0, <1>14, <2>3, <3>1 DEF Places
  <2>4. CASE SnapHandle(p)
    <3>1. local[p].page \in Nat /\ GetCurrentWindowHandle \in 0..made
      BY <1>0 DEF WordsOK, Words, GetCurrentWindowHandle, NoHandle
    <3> QED BY <1>14, <2>4, <3>1 DEF SnapHandle, Places
  <2> QED BY <1>3, <2>1, <2>2, <2>3, <2>4 DEF Snapshots, SnapSource
<1>4. CASE Receive
  <2>1. Goes("reader", "snap") \/ \E t \in Task : Goes(t, "start")
    BY <1>4 DEF Receive
  <2>2. UNCHANGED local
    BY <1>4 DEF Receive
  <2> QED BY <1>2, <2>1, <2>2, Processes DEF Places
<1>5. ASSUME NEW t \in Task, Works(t) PROVE WordsOK'
  <2>1. ASSUME NEW handle \in 0..made, NEW place \in Places, Goes(t, place), Reads(t, Only(handle))
        PROVE  WordsOK'
    BY <1>14, <2>1, Processes DEF Only
  <2>2. CASE Fail(t)
    BY <1>0, <2>1, <2>2 DEF Fail, Over, Places
  <2>3. CASE SwitchTab(t)
    <3>1. cmd[t].handle \in 0..made
      BY <1>0 DEF OrdersOK, Order
    <3> QED BY <2>1, <2>3, <3>1 DEF SwitchTab, Over, Places
  <2>4. CASE NewTabOpens(t)
    BY <1>0, <2>1, <2>4 DEF NewTabOpens, Over, Places
  <2>5. CASE CloseTabRescue(t)
    <3>1. Open # {}
      BY <2>5 DEF CloseTabRescue, Begins, IsAlive
    <3>2. Head(windows) \in 0..made
      <4>1. Head(windows) \in Open
        BY <3>1, FirstIsOpen
      <4>2. Open \subseteq 1..made
        BY DEF BrowserOK
      <4>3. 1..made \subseteq 0..made
        BY <1>0
      <4> QED BY <4>1, <4>2, <4>3, Zenon
    <3>3. Goes(t, "target") /\ (UNCHANGED local \/ Reads(t, Only(Head(windows))))
      BY <2>5 DEF CloseTabRescue, Calls
    <3> QED BY <1>2, <2>1, <3>2, <3>3, Processes DEF Places
  <2>6. CASE CloseTabTarget(t)
    BY <1>2, <2>6, Processes DEF CloseTabTarget, Calls, Places
  <2>7. CASE CloseTabClose(t)
    <3>1. \/ Goes(t, "leave") /\ UNCHANGED local
          \/ Goes(t, "report") /\ Reads(t, Only(0))
      BY <2>7 DEF CloseTabClose, Calls, Over
    <3> QED BY <1>0, <1>2, <2>1, <3>1, Processes DEF Places
  <2>8. CASE CloseTabLeave(t)
    BY <1>0, <2>1, <2>8 DEF CloseTabLeave, Over, Places
  <2>9. CASE Report(t) \/ Remember(t)
    BY <1>2, <2>9, Processes DEF Report, Remember, Places
  <2> QED BY <1>5, <2>2, <2>3, <2>4, <2>5, <2>6, <2>7, <2>8, <2>9 DEF Works, Execute, CloseTab
<1>6. CASE PollWake \/ PollUpdate
  BY <1>2, <1>6, Processes DEF PollWake, PollUpdate, Places
<1>7. CASE PollRead
  <2>1. CASE Goes("poll", "idle") /\ UNCHANGED local
    BY <1>2, <2>1, Processes DEF Places
  <2>2. CASE /\ Goes("poll", "address")
             /\ Reads("poll", Has(focus, focus, focus \in observed, focus \in mutated, {}))
    <3>1. (focus \in observed) \in BOOLEAN /\ (focus \in mutated) \in BOOLEAN
      OBVIOUS
    <3>2. PICK o \in BOOLEAN, m \in BOOLEAN : Reads("poll", Has(focus, focus, o, m, {}))
      BY <2>2, <3>1, Zenon
    <3> QED BY <1>0, <2>2, <3>2, HasOK, WordsMove, Processes DEF PollKnows, Places
  <2> QED BY <1>7, <2>1, <2>2 DEF PollRead
<1>8. CASE PollAddress
  <2>1. at["poll"] = "address" /\ UNCHANGED local /\ (Goes("poll", "tabs") \/ Goes("poll", "snap"))
    BY <1>8 DEF PollAddress
  <2>2. local["poll"].page = local["poll"].handle
    BY <2>1 DEF WordsOK, PollKnows
  <2> QED BY <1>0, <2>1, <2>2, WordsStay, Processes DEF PollKnows, Places
<1>9. CASE PollTabs
  <2>1. local["poll"].page = local["poll"].handle
    BY <1>9 DEF PollTabs, WordsOK, PollKnows
  <2>2. CASE Goes("poll", "update") /\ UNCHANGED local
    <3>1. PollKnows("update", local["poll"])
      BY <2>1 DEF PollKnows
    <3> QED BY <1>0, <2>2, <3>1, WordsStay, Processes DEF Places
  <2>3. CASE Follows /\ New # {}
    <3>1. Last(windows) \in Open
      BY <2>3, NewestIsOpen DEF New
    <3>2. Last(windows) \in 1..made /\ Open \subseteq 1..made
      BY <3>1 DEF BrowserOK
    <3>3. /\ local["poll"].page \in Nat /\ local["poll"].observed \in BOOLEAN
          /\ local["poll"].mutated \in BOOLEAN
      BY Processes DEF WordsOK, Words
    <3>4. Open \in SUBSET Nat /\ Open \subseteq 1..made' /\ Last(windows) \in Nat
      BY <1>0, <3>2
    <3> DEFINE word == Has(local["poll"].page, Last(windows), local["poll"].observed,
                           local["poll"].mutated, Open)
    <3>5. word \in Words /\ word.handle = Last(windows) /\ word.all = Open
      <4>1. PICK page \in Nat, o \in BOOLEAN, m \in BOOLEAN :
               page = local["poll"].page /\ o = local["poll"].observed /\ m = local["poll"].mutated
        BY <3>3, Zenon
      <4>2. Has(page, Last(windows), o, m, Open) \in Words
        BY <3>4, HasOK
      <4>3. /\ Has(page, Last(windows), o, m, Open).handle = Last(windows)
            /\ Has(page, Last(windows), o, m, Open).all = Open
        BY DEF Has
      <4> QED BY <4>1, <4>2, <4>3, Zenon
    <3>6. Goes("poll", "follow") /\ Reads("poll", word)
      BY <2>3 DEF Follows
    <3> HIDE DEF word
    <3>7. word.handle <= made' /\ word.all \subseteq 1..made' /\ word.handle # NoHandle
      BY <1>0, <3>2, <3>4, <3>5 DEF NoHandle
    <3> QED BY <1>0, <3>5, <3>6, <3>7, WordsMove, Processes DEF PollKnows, Places
  <2> QED BY <1>9, <2>2, <2>3 DEF PollTabs
<1>10. CASE PollFollow \/ PollAnnounce
  <2>1. CASE PollFollow
    <3>1. at["poll"] = "follow" /\ UNCHANGED local /\ Goes("poll", "announce")
      BY <2>1 DEF PollFollow
    <3>2. local["poll"].handle # NoHandle
      BY <3>1 DEF WordsOK, PollKnows
    <3> QED BY <1>0, <3>1, <3>2, WordsStay, Processes DEF PollKnows, Places
  <2>2. CASE PollAnnounce
    BY <1>2, <2>2, Processes DEF PollAnnounce, Places
  <2> QED BY <1>10, <2>1, <2>2
<1>11. CASE World \/ Take
  BY <1>1, <1>11 DEF World, Take, coroutineVars
<1>12. ASSUME NEW h, NEW name, Command(name, h) PROVE WordsOK'
  BY <1>1, <1>12 DEF Command, coroutineVars
<1>13. CASE UNCHANGED vars
  BY <1>1, <1>13 DEF vars, coroutineVars
<1> QED BY <1>3, <1>4, <1>5, <1>6, <1>7, <1>8, <1>9, <1>10, <1>11, <1>12, <1>13 DEF Next, Polls

LEMMA OrdersStep ==
  ASSUME BrowserOK, CoroutinesOK, WordsOK, OrdersOK, MirrorOK, [Next]_vars
  PROVE  OrdersOK'
<1>0. /\ made \in Nat /\ made' \in Nat /\ made <= made'
      /\ inbox \in Seq(Order) /\ cmd \in [Task -> Order] /\ Resync \in Order /\ NoCommand \in Order
  BY BrowserStep DEF BrowserOK, OnlyNewOpen, OrdersOK, Resync, NoCommand, Order
<1>1. (\A t \in Task : cmd[t].handle <= made') /\ \A i \in DOMAIN inbox : inbox[i].handle <= made'
  <2>1. ASSUME NEW t \in Task PROVE cmd[t].handle <= made'
    BY <1>0 DEF OrdersOK, Order
  <2>2. ASSUME NEW i \in DOMAIN inbox PROVE inbox[i].handle <= made'
    <3>1. inbox[i] \in Order /\ inbox[i].handle <= made
      BY <1>0 DEF OrdersOK
    <3> QED BY <1>0, <3>1 DEF Order
  <2> QED BY <2>1, <2>2
<1>2. CASE UNCHANGED <<cmd, inbox>>
  BY <1>0, <1>1, <1>2 DEF OrdersOK
<1>3. ASSUME NEW order \in Order, order.handle <= made', inbox' = Append(inbox, order), UNCHANGED cmd
      PROVE  OrdersOK'
  <2>1. inbox' \in Seq(Order)
    BY <1>0, <1>3
  <2>2. ASSUME NEW i \in DOMAIN inbox' PROVE inbox'[i].handle <= made'
    BY <1>0, <1>1, <1>3, <2>1, <2>2
  <2> QED BY <1>0, <1>1, <1>3, <2>1, <2>2 DEF OrdersOK
<1>4. ASSUME NEW t \in Task, NEW order \in Order, order.handle <= made',
             cmd' = [cmd EXCEPT ![t] = order]
      PROVE  cmd' \in [Task -> Order] /\ \A u \in Task : cmd'[u].handle <= made'
  BY <1>0, <1>1, <1>4
<1>5. CASE Receive
  <2>1. inbox # <<>> /\ inbox' = Tail(inbox)
    BY <1>5 DEF Receive
  <2>2. /\ inbox' \in Seq(Order) /\ \A i \in DOMAIN inbox' : inbox'[i].handle <= made'
        /\ Head(inbox) \in Order /\ Head(inbox).handle <= made'
    BY <1>0, <1>1, <2>1
  <2>3. UNCHANGED cmd \/ \E t \in Task : cmd' = [cmd EXCEPT ![t] = Head(inbox)]
    BY <1>5 DEF Receive
  <2>4. cmd' \in [Task -> Order] /\ \A u \in Task : cmd'[u].handle <= made'
    BY <1>0, <1>1, <1>4, <2>2, <2>3
  <2> QED BY <2>2, <2>4 DEF OrdersOK
<1>6. ASSUME NEW t \in Task, Report(t) PROVE OrdersOK'
  <2>1. UNCHANGED inbox /\ cmd' = [cmd EXCEPT ![t] = NoCommand]
    BY <1>6 DEF Report
  <2>2. NoCommand.handle <= made'
    BY <1>0 DEF NoCommand
  <2> QED BY <1>0, <1>1, <1>4, <2>1, <2>2 DEF OrdersOK
<1>7. ASSUME NEW h \in 0..MaxHandle, NEW name \in {"new_tab", "switch_tab", "close_tab"},
             Command(name, h)
      PROVE  OrdersOK'
  <2>1. h \in Nat /\ h <= made
    BY <1>0, <1>7, BrowserAssumption DEF Command, MirrorOK
  <2>2. [name |-> name, handle |-> h] \in Order
    BY <2>1 DEF Order
  <2>3. inbox' = Append(inbox, [name |-> name, handle |-> h]) /\ UNCHANGED cmd
    BY <1>7 DEF Command, coroutineVars
  <2> QED BY <1>0, <1>3, <2>1, <2>2, <2>3
<1>8. CASE Take
  <2>1. UNCHANGED inbox \/ inbox' = Append(inbox, Resync)
    BY <1>8 DEF Take, Asks
  <2>2. UNCHANGED cmd
    BY <1>8 DEF Take, coroutineVars
  <2>3. Resync.handle <= made'
    BY <1>0 DEF Resync
  <2> QED BY <1>0, <1>2, <1>3, <2>1, <2>2, <2>3
<1>9. ASSUME NEW p \in Process, Snapshots(p) PROVE UNCHANGED <<cmd, inbox>>
  BY <1>9 DEF Snapshots, SnapCheck, Recover, SnapSource, SnapHandle, SnapSend, netVars
<1>10. ASSUME NEW t \in Task, Execute(t) \/ Remember(t) PROVE UNCHANGED <<cmd, inbox>>
  BY <1>10 DEF Execute, Remember, netVars
<1>11. ASSUME Polls PROVE UNCHANGED <<cmd, inbox>>
  <2>1. CASE PollWake \/ PollRead \/ PollFollow
    BY <2>1 DEF PollWake, PollRead, PollFollow, netVars
  <2>2. CASE PollAddress \/ PollTabs \/ PollAnnounce \/ PollUpdate
    BY <2>2 DEF PollAddress, PollTabs, PollAnnounce, PollUpdate
  <2> QED BY <1>11, <2>1, <2>2 DEF Polls
<1>12. ASSUME World \/ UNCHANGED vars PROVE UNCHANGED <<cmd, inbox>>
  <2>1. CASE World
    BY <2>1 DEF World, coroutineVars, netVars
  <2>2. CASE UNCHANGED vars
    BY <2>2 DEF vars, coroutineVars, netVars
  <2> QED BY <1>12, <2>1, <2>2
<1> QED BY <1>2, <1>5, <1>6, <1>7, <1>8, <1>9, <1>10, <1>11, <1>12 DEF Next, Works

(* What the worker remembers *)

LEMMA PastOK ==
  ASSUME NEW late \in BOOLEAN, NEW mixed \in SUBSET Nat, NEW dead \in SUBSET Nat,
         NEW listed \in SUBSET Nat, NEW skipped \in SUBSET Nat
  PROVE  Past(late, mixed, dead, listed, skipped) \in Histories
BY DEF Past, Histories

LEMMA SentOK ==
  ASSUME history \in Histories, NEW h \in Nat, NEW page
  PROVE  /\ Sent(h, page) \in Histories
         /\ Sent(h, page).listed = history.listed /\ Sent(h, page).skipped = history.skipped
         /\ Sent(h, page).late <=> h # focus
         /\ \A g \in Nat : g # h => /\ g \in Sent(h, page).mixed <=> g \in history.mixed
                                    /\ g \in Sent(h, page).dead <=> g \in history.dead
         /\ h \in Sent(h, page).mixed <=> h # page
         /\ h \in Sent(h, page).dead <=> h \notin Open
<1> DEFINE mixed == IF h # page THEN history.mixed \cup {h} ELSE history.mixed \ {h}
           dead == IF h \notin Open THEN history.dead \cup {h} ELSE history.dead \ {h}
<1>1. Sent(h, page) = Past(h # focus, mixed, dead, history.listed, history.skipped)
  BY Zenon DEF Sent
<1>2. /\ history.mixed \in SUBSET Nat /\ history.dead \in SUBSET Nat
      /\ history.listed \in SUBSET Nat /\ history.skipped \in SUBSET Nat
  BY DEF Histories
<1>3. (h # focus) \in BOOLEAN /\ mixed \in SUBSET Nat /\ dead \in SUBSET Nat
  BY <1>2
<1>4. /\ \A g \in Nat : g # h => (g \in mixed <=> g \in history.mixed) /\ (g \in dead <=> g \in history.dead)
      /\ h \in mixed <=> h # page
      /\ h \in dead <=> h \notin Open
  OBVIOUS
<1> HIDE DEF mixed, dead
<1>6. PICK late \in BOOLEAN :
        /\ late <=> h # focus
        /\ Sent(h, page) = Past(late, mixed, dead, history.listed, history.skipped)
  BY <1>1, <1>3, Zenon
<1>5. Sent(h, page) \in Histories
  BY <1>2, <1>3, <1>6, PastOK
<1>7. /\ Sent(h, page).mixed = mixed /\ Sent(h, page).dead = dead
      /\ Sent(h, page).listed = history.listed /\ Sent(h, page).skipped = history.skipped
  BY <1>1 DEF Past
<1>8. Sent(h, page).late <=> h # focus
  BY <1>6 DEF Past
<1> QED BY <1>4, <1>5, <1>7, <1>8

LEMMA ListedOK ==
  ASSUME history \in Histories, BrowserOK, NEW skipped \in SUBSET Nat
  PROVE  /\ Listed(skipped) \in Histories
         /\ Listed(skipped).listed = history.listed \cup Open
         /\ Listed(skipped).skipped = history.skipped \cup skipped
         /\ Listed(skipped).late = history.late /\ Listed(skipped).mixed = history.mixed
         /\ Listed(skipped).dead = history.dead
<1>1. Open \in SUBSET Nat
  BY DEF BrowserOK
<1> QED BY <1>1 DEF Listed, Past, Histories

LEMMA TabsListed ==
  ASSUME BrowserOK, history \in Histories, PollTabs
  PROVE  \E skipped \in SUBSET Open :
           /\ history' = Listed(skipped)
           /\ \/ /\ Follows /\ New # {} /\ skipped = New \ {Last(windows)}
                 /\ \E closed \in Orders(Closed) : Post(Notices("closed", closed))
              \/ /\ Goes("poll", "update") /\ UNCHANGED local
                 /\ skipped = {} /\ known' = IF Open = {} THEN known ELSE Open
                 /\ \E closed \in Orders(Closed), new \in Orders(New) :
                      Post(IF Open = {} THEN <<>>
                           ELSE Notices("closed", closed) \o Notices("opened", new))
<1>1. CASE known # {} /\ New # {}
  <2>1. New \ {Last(windows)} \in SUBSET Open
    BY DEF New
  <2> QED BY <1>1, <2>1, Zenon DEF PollTabs
<1>2. CASE ~(known # {} /\ New # {})
  <2>1. {} \in SUBSET Open
    OBVIOUS
  <2> QED BY <1>2, <2>1, Zenon DEF PollTabs
<1> QED BY <1>1, <1>2

LEMMA StateStep ==
  ASSUME BrowserOK, CoroutinesOK, WordsOK, StateOK, [Next]_vars
  PROVE  StateOK'
<1>0. /\ made \in Nat /\ made' \in Nat /\ made <= made' /\ focus \in Nat /\ Open \subseteq 1..made
      /\ known \subseteq 1..made /\ history \in Histories /\ history.listed \subseteq 1..made
      /\ ver \in Nat /\ lastPage \in Nat /\ lastUrl \in Nat
  BY BrowserStep DEF BrowserOK, OnlyNewOpen, StateOK
<1>1. ASSUME executing' \in {executing, TRUE, FALSE}, navigating' \in {navigating, TRUE, FALSE},
             pending' \in {pending, TRUE, FALSE}, spent' \in {spent, spent + 1},
             known' \subseteq 1..made, UNCHANGED history \/ (history' \in Histories /\ history'.listed \subseteq 1..made),
             ver' \in Nat, lastPage' \in Nat, lastUrl' \in Nat
      PROVE  StateOK'
  <2>1. executing' \in BOOLEAN /\ navigating' \in BOOLEAN /\ pending' \in BOOLEAN
    BY <1>1, Zenon DEF StateOK
  <2>2. spent' \in Nat
    BY <1>1 DEF StateOK
  <2>3. known' \subseteq 1..made'
    BY <1>0, <1>1
  <2>4. history' \in Histories /\ history'.listed \subseteq 1..made'
    BY <1>0, <1>1
  <2> QED BY <1>1, <2>1, <2>2, <2>3, <2>4 DEF StateOK
<1>2. CASE UNCHANGED <<stateVars, history>> /\ pending' \in {pending, TRUE, FALSE}
           /\ executing' \in {executing, TRUE, FALSE}
           /\ navigating' \in {navigating, TRUE, FALSE} /\ spent' \in {spent, spent + 1}
  BY <1>0, <1>1, <1>2 DEF stateVars, pageOfVars
<1>3. ASSUME NEW p \in Process, Snapshots(p) PROVE StateOK'
  <2>1. CASE SnapCheck(p) \/ SnapSource(p) \/ SnapHandle(p)
    BY <1>2, <2>1 DEF SnapCheck, SnapSource, SnapHandle, flagVars, netVars
  <2>2. CASE Recover(p)
    BY <1>0, <1>1, <2>2 DEF Recover, flagVars, netVars, pageOfVars
  <2>3. CASE SnapSend(p)
    <3>1. local[p].page \in Nat /\ local[p].handle \in Nat
      BY DEF WordsOK, Words
    <3>2. history' \in Histories /\ history'.listed = history.listed
      BY <1>0, <2>3, <3>1, SentOK DEF SnapSend
    <3> QED BY <1>0, <1>1, <2>3, <3>1, <3>2 DEF SnapSend, flagVars
  <2> QED BY <1>3, <2>1, <2>2, <2>3 DEF Snapshots
<1>4. CASE World
  BY <1>2, <1>4 DEF World, PageOpens, PageGoes, PageMutates, Happens, flagVars, netVars
<1>5. ASSUME NEW h, NEW name, Command(name, h) PROVE StateOK'
  BY <1>2, <1>5 DEF Command, Happens, flagVars
<1>6. CASE Receive
  <2>1. executing' \in {executing, TRUE, FALSE} /\ navigating' \in {navigating, TRUE, FALSE}
    BY <1>6, Zenon DEF Receive, flagVars
  <2> QED BY <1>2, <1>6, <2>1 DEF Receive
<1>7. ASSUME NEW t \in Task, Works(t) PROVE StateOK'
  <2>1. CASE Execute(t)
    <3>1. executing' \in {executing, TRUE, FALSE}
      BY <2>1 DEF Execute, Fail, SwitchTab, NewTabOpens, CloseTab, CloseTabRescue, CloseTabTarget,
                  CloseTabClose, CloseTabLeave, Over, Calls
    <3> QED BY <1>2, <2>1, <3>1 DEF Execute, netVars
  <2>2. CASE Report(t)
    BY <1>2, <2>2 DEF Report, flagVars
  <2>3. CASE Remember(t)
    BY <1>0, <1>1, <2>3 DEF Remember, netVars
  <2> QED BY <1>7, <2>1, <2>2, <2>3 DEF Works
<1>8. CASE PollWake \/ PollRead
  BY <1>2, <1>8 DEF PollWake, PollRead, flagVars, netVars
<1>9. CASE PollAddress \/ PollUpdate
  <2>1. local["poll"].page \in Nat
    BY Processes DEF WordsOK, Words
  <2>2. known' = known /\ ver' \in Nat /\ lastPage' \in Nat /\ lastUrl' \in Nat
    BY <1>0, <1>9, <2>1 DEF PollAddress, PollUpdate
  <2> QED BY <1>0, <1>1, <1>9, <2>2 DEF PollAddress, PollUpdate, flagVars
<1>10. CASE PollTabs
  <2>1. PICK skipped \in SUBSET Open : history' = Listed(skipped) /\ (known' = known \/ known' = Open)
    BY <1>0, <1>10, TabsListed DEF Follows
  <2>2. history' \in Histories /\ history'.listed = history.listed \cup Open
    <3>1. skipped \in SUBSET Nat
      BY <1>0
    <3> QED BY <1>0, <2>1, <3>1, ListedOK
  <2>3. known' \subseteq 1..made /\ history'.listed \subseteq 1..made
    BY <1>0, <2>1, <2>2
  <2> QED BY <1>0, <1>1, <1>10, <2>2, <2>3 DEF PollTabs, flagVars, pageOfVars
<1>11. CASE PollFollow \/ PollAnnounce
  <2>1. local["poll"].all \subseteq 1..made /\ GetCurrentWindowHandle \in Nat
    BY <1>0, Processes DEF WordsOK, GetCurrentWindowHandle, NoHandle
  <2> QED BY <1>0, <1>1, <1>11, <2>1 DEF PollFollow, PollAnnounce, flagVars, netVars, pageOfVars
<1>12. CASE Take
  <2>1. pending' \in {pending, TRUE, FALSE}
    BY <1>12 DEF Take
  <2> QED BY <1>2, <1>12, <2>1 DEF Take, flagVars
<1>13. CASE UNCHANGED vars
  BY <1>2, <1>13 DEF vars, flagVars, netVars
<1> QED BY <1>3, <1>4, <1>5, <1>6, <1>7, <1>8, <1>9, <1>10, <1>11, <1>12, <1>13 DEF Next, Polls

(* The messages to the controller *)

LEMMA ConcatElements ==
  ASSUME NEW S, NEW s \in Seq(S), NEW t \in Seq(S)
  PROVE  /\ s \o t \in Seq(S) /\ DOMAIN (s \o t) = 1..(Len(s) + Len(t))
         /\ Len(s) \in Nat /\ Len(t) \in Nat /\ DOMAIN s = 1..Len(s) /\ DOMAIN t = 1..Len(t)
         /\ \A i \in DOMAIN s : i \in DOMAIN (s \o t) /\ (s \o t)[i] = s[i]
         /\ \A i \in DOMAIN t : Len(s) + i \in DOMAIN (s \o t) /\ (s \o t)[Len(s) + i] = t[i]
         /\ \A i \in DOMAIN (s \o t) : i \in DOMAIN s \/ \E k \in DOMAIN t : i = Len(s) + k
<1> DEFINE u == s \o t
<1>1. /\ u \in Seq(S) /\ Len(u) = Len(s) + Len(t)
      /\ \A i \in 1..(Len(s) + Len(t)) : u[i] = IF i <= Len(s) THEN s[i] ELSE t[i - Len(s)]
  BY ConcatProperties
<1>2. Len(s) \in Nat /\ Len(t) \in Nat /\ DOMAIN s = 1..Len(s) /\ DOMAIN t = 1..Len(t)
  OBVIOUS
<1> HIDE DEF u
<1>3. DOMAIN u = 1..(Len(s) + Len(t))
  BY <1>1
<1>4. ASSUME NEW i \in DOMAIN s PROVE i \in DOMAIN u /\ u[i] = s[i]
  BY <1>1, <1>2, <1>3
<1>5. ASSUME NEW i \in DOMAIN t PROVE Len(s) + i \in DOMAIN u /\ u[Len(s) + i] = t[i]
  <2>1. Len(s) + i \in 1..(Len(s) + Len(t)) /\ ~(Len(s) + i <= Len(s)) /\ (Len(s) + i) - Len(s) = i
    BY <1>2
  <2>2. u[Len(s) + i] = t[(Len(s) + i) - Len(s)]
    BY <1>1, <2>1
  <2> QED BY <1>3, <2>1, <2>2, Zenon
<1>6. ASSUME NEW i \in DOMAIN u PROVE i \in DOMAIN s \/ \E k \in DOMAIN t : i = Len(s) + k
  <2>1. CASE i <= Len(s)
    BY <1>2, <1>3, <2>1
  <2>2. CASE i > Len(s)
    <3>1. i - Len(s) \in DOMAIN t /\ i = Len(s) + (i - Len(s))
      BY <1>2, <1>3, <2>2
    <3> QED BY <3>1, Zenon
  <2> QED BY <1>2, <1>3, <2>1, <2>2
<1> QED BY <1>1, <1>2, <1>3, <1>4, <1>5, <1>6 DEF u

TellsAll(type, handles, new) ==
  \A h \in handles : \E i \in DOMAIN new : new[i].type = type /\ new[i].handle = h

LEMMA NoticesOK ==
  ASSUME NEW type \in {"opened", "closed"}, NEW S, S \subseteq 1..made, made \in Nat,
         NEW list \in Orders(S)
  PROVE  /\ Notices(type, list) \in Seq(Message)
         /\ \A i \in DOMAIN Notices(type, list) :
              Notices(type, list)[i].type = type /\ Notices(type, list)[i].handle \in S
         /\ TellsAll(type, S, Notices(type, list))
<1> DEFINE n == Cardinality(S)
<1>1. n \in Nat
  <2>1. IsFiniteSet(1..made)
    BY FS_Interval
  <2> QED BY <2>1, FS_Subset, FS_CardinalityType
<1> HIDE DEF n
<1>2. list \in [1..n -> S] /\ Range(list) = S
  BY DEF Orders, n
<1>3. /\ Notices(type, list) = [i \in 1..n |-> [type |-> type, handle |-> list[i]]]
      /\ DOMAIN Notices(type, list) = 1..n
  BY <1>2 DEF Notices
<1>4. ASSUME NEW i \in 1..n PROVE [type |-> type, handle |-> list[i]] \in Message
  <2>1. list[i] \in Nat
    <3>1. list[i] \in S
      BY <1>2
    <3>2. S \subseteq Nat
      OBVIOUS
    <3> QED BY <3>1, <3>2
  <2>2. [type |-> type, handle |-> list[i]] \in Notice
    BY <2>1 DEF Notice
  <2> QED BY <2>2 DEF Message
<1>5. Notices(type, list) \in [1..n -> Message]
  BY <1>3, <1>4
<1>6. Notices(type, list) \in Seq(Message)
  BY <1>1, <1>5
<1>7. ASSUME NEW i \in 1..n
      PROVE  Notices(type, list)[i].type = type /\ Notices(type, list)[i].handle = list[i]
  BY <1>3
<1>8. ASSUME NEW h \in S PROVE \E i \in 1..n : list[i] = h
  BY <1>2 DEF Range
<1>9. TellsAll(type, S, Notices(type, list))
  BY <1>3, <1>7, <1>8 DEF TellsAll
<1> QED BY <1>2, <1>3, <1>6, <1>7, <1>9

\* What one round of the poll loop says of the tabs.
TellsTabs(new) ==
  /\ new \in Seq(Message) /\ Post(new)
  /\ \A i \in DOMAIN new : \/ new[i].type = "closed" /\ new[i].handle \in Closed
                           \/ new[i].type = "opened" /\ new[i].handle \in New

LEMMA TabsTold ==
  ASSUME BrowserOK, StateOK, FramesOK, PollTabs
  PROVE  \E new :
           /\ TellsTabs(new)
           /\ \/ /\ Follows /\ New # {} /\ history' = Listed(New \ {Last(windows)})
                 /\ TellsAll("closed", Closed, new)
              \/ /\ Goes("poll", "update") /\ UNCHANGED local /\ history' = Listed({})
                 /\ Open = {} /\ UNCHANGED <<known, frames>>
              \/ /\ Goes("poll", "update") /\ UNCHANGED local /\ history' = Listed({})
                 /\ Open # {} /\ known' = Open
                 /\ TellsAll("closed", Closed, new) /\ TellsAll("opened", New, new)
<1>0. made \in Nat /\ Closed \subseteq 1..made /\ New \subseteq 1..made
  BY DEF BrowserOK, StateOK, Closed, New
<1>1. PICK skipped \in SUBSET Open :
           /\ history' = Listed(skipped)
           /\ \/ /\ Follows /\ New # {} /\ skipped = New \ {Last(windows)}
                 /\ \E closed \in Orders(Closed) : Post(Notices("closed", closed))
              \/ /\ Goes("poll", "update") /\ UNCHANGED local
                 /\ skipped = {} /\ known' = IF Open = {} THEN known ELSE Open
                 /\ \E closed \in Orders(Closed), new \in Orders(New) :
                      Post(IF Open = {} THEN <<>>
                           ELSE Notices("closed", closed) \o Notices("opened", new))
  BY TabsListed DEF StateOK
<1>4. ASSUME NEW list \in Orders(Closed)
      PROVE  /\ Notices("closed", list) \in Seq(Message) /\ TellsAll("closed", Closed, Notices("closed", list))
             /\ \A i \in DOMAIN Notices("closed", list) :
                  /\ Notices("closed", list)[i].type = "closed"
                  /\ Notices("closed", list)[i].handle \in Closed
  BY <1>0, NoticesOK
<1>5. ASSUME NEW list \in Orders(New)
      PROVE  /\ Notices("opened", list) \in Seq(Message) /\ TellsAll("opened", New, Notices("opened", list))
             /\ \A i \in DOMAIN Notices("opened", list) :
                  /\ Notices("opened", list)[i].type = "opened"
                  /\ Notices("opened", list)[i].handle \in New
  BY <1>0, NoticesOK
<1>2. CASE /\ Follows /\ New # {} /\ skipped = New \ {Last(windows)}
           /\ \E closed \in Orders(Closed) : Post(Notices("closed", closed))
  <2>1. PICK closed \in Orders(Closed) : Post(Notices("closed", closed))
    BY <1>2
  <2> DEFINE new == Notices("closed", closed)
  <2>2. /\ new \in Seq(Message) /\ TellsAll("closed", Closed, new)
        /\ \A i \in DOMAIN new : new[i].type = "closed" /\ new[i].handle \in Closed
    BY <1>4
  <2>3. Post(new)
    BY <2>1
  <2> HIDE DEF new
  <2>4. TellsTabs(new)
    BY <2>2, <2>3 DEF TellsTabs
  <2> QED BY <1>1, <1>2, <2>2, <2>4
<1>3. CASE /\ Goes("poll", "update") /\ UNCHANGED local
           /\ skipped = {} /\ known' = IF Open = {} THEN known ELSE Open
           /\ \E closed \in Orders(Closed), new \in Orders(New) :
                Post(IF Open = {} THEN <<>>
                     ELSE Notices("closed", closed) \o Notices("opened", new))
  <2>1. PICK closed \in Orders(Closed), opened \in Orders(New) :
               Post(IF Open = {} THEN <<>>
                    ELSE Notices("closed", closed) \o Notices("opened", opened))
    BY <1>3
  <2>2. CASE Open = {}
    <3>1. Post(<<>>) /\ frames' = frames \o <<>>
      BY <2>1, <2>2 DEF Post
    <3>2. UNCHANGED frames
      BY <3>1 DEF FramesOK
    <3>3. TellsTabs(<<>>)
      BY <3>1 DEF TellsTabs
    <3> QED BY <1>1, <1>3, <2>2, <3>2, <3>3
  <2>3. CASE Open # {}
    <3> DEFINE c == Notices("closed", closed)
               o == Notices("opened", opened)
               new == c \o o
    <3>1. /\ c \in Seq(Message) /\ TellsAll("closed", Closed, c)
          /\ \A i \in DOMAIN c : c[i].type = "closed" /\ c[i].handle \in Closed
      BY <1>4
    <3>2. /\ o \in Seq(Message) /\ TellsAll("opened", New, o)
          /\ \A i \in DOMAIN o : o[i].type = "opened" /\ o[i].handle \in New
      BY <1>5
    <3>3. Post(c \o o)
      BY <2>1, <2>3
    <3> HIDE DEF c, o
    <3>4. /\ new \in Seq(Message)
          /\ \A i \in DOMAIN c : i \in DOMAIN new /\ new[i] = c[i]
          /\ \A i \in DOMAIN o : Len(c) + i \in DOMAIN new /\ new[Len(c) + i] = o[i]
          /\ \A i \in DOMAIN new : i \in DOMAIN c \/ \E k \in DOMAIN o : i = Len(c) + k
      BY <3>1, <3>2, ConcatElements
    <3>5. Post(new)
      BY <3>3
    <3> HIDE DEF new
    <3>6. TellsTabs(new)
      BY <3>1, <3>2, <3>4, <3>5 DEF TellsTabs
    <3>7. TellsAll("closed", Closed, new)
      <4>1. ASSUME NEW h \in Closed
            PROVE  \E i \in DOMAIN new : new[i].type = "closed" /\ new[i].handle = h
        <5>1. PICK i \in DOMAIN c : c[i].type = "closed" /\ c[i].handle = h
          BY <3>1 DEF TellsAll
        <5> QED BY <3>4, <5>1
      <4> QED BY <4>1 DEF TellsAll
    <3>8. TellsAll("opened", New, new)
      <4>1. ASSUME NEW h \in New
            PROVE  \E i \in DOMAIN new : new[i].type = "opened" /\ new[i].handle = h
        <5>1. PICK i \in DOMAIN o : o[i].type = "opened" /\ o[i].handle = h
          BY <3>2 DEF TellsAll
        <5> QED BY <3>4, <5>1
      <4> QED BY <4>1 DEF TellsAll
    <3> QED BY <1>1, <1>3, <2>3, <3>6, <3>7, <3>8
  <2> QED BY <2>2, <2>3
<1> QED BY <1>1, <1>2, <1>3

LEMMA AppendIsPost ==
  ASSUME FramesOK, NEW m \in Message, Post(<<m>>)
  PROVE  frames' = Append(frames, m)
BY DEF FramesOK, Post

LEMMA TypesDisjoint ==
  /\ \A m \in Notice : m \in Message /\ m.type \in {"opened", "closed", "result"} /\ m.handle \in Nat
  /\ \A m \in Snapshot : m \in Message /\ m.type = "snapshot" /\ m.handle \in Nat
  /\ \A m \in Update : m \in Message /\ m.type = "update" /\ m.handle \in Nat
  /\ \A m \in Message : /\ m.type \in {"opened", "closed", "result"} => m \in Notice
                        /\ m.type = "snapshot" => m \in Snapshot
                        /\ m.type = "update" => m \in Update
                        /\ m.type \in {"opened", "closed", "result", "snapshot", "update"}
                        /\ m.handle \in Nat
BY DEF Notice, Snapshot, Update, Message

\* What a step does to the frames and to the mirror, but for Take and PollTabs.
Appends(m) == frames' = Append(frames, m)
Quietly == UNCHANGED frames
SendsSnapshot(p, m) ==
  /\ SnapSend(p) /\ m \in Snapshot /\ Appends(m)
  /\ m.handle = local[p].handle /\ m.page = local[p].page /\ m.version = ver
Results(t, m) ==
  /\ Report(t) /\ m \in Notice /\ Appends(m)
  /\ m.type = "result" /\ m.handle = local[t].handle
Updates(m) == (PollAddress \/ PollUpdate) /\ m \in Update /\ Appends(m) /\ m.handle = local["poll"].handle
Announces(m) ==
  /\ PollAnnounce /\ m \in Notice /\ Appends(m)
  /\ m.type = "opened" /\ m.handle = local["poll"].handle

LEMMA SnapSends ==
  ASSUME WordsOK, StateOK, FramesOK, NEW p \in Process, SnapSend(p)
  PROVE  \E m \in Message : SendsSnapshot(p, m)
<1> DEFINE m == [type |-> "snapshot", handle |-> local[p].handle, page |-> local[p].page,
                 version |-> ver]
<1>1. m \in Snapshot /\ m.handle = local[p].handle /\ m.page = local[p].page /\ m.version = ver
  BY DEF Snapshot, WordsOK, Words, StateOK
<1>2. Post(<<m>>)
  BY DEF SnapSend
<1> HIDE DEF m
<1>3. m \in Message
  BY <1>1 DEF Message
<1> QED BY <1>1, <1>2, <1>3, AppendIsPost DEF SendsSnapshot, Appends

LEMMA StepKinds ==
  ASSUME WordsOK, StateOK, FramesOK, [Next]_vars
  PROVE  \/ Take
         \/ PollTabs /\ UNCHANGED mirrorVars
         \/ Quietly /\ UNCHANGED mirrorVars
         \/ /\ UNCHANGED mirrorVars
            /\ \E m \in Message : \/ \E p \in Process : SendsSnapshot(p, m)
                                  \/ \E t \in Task : Results(t, m)
                                  \/ Updates(m) \/ Announces(m)
<1>0. /\ \A p \in Process : local[p].handle \in Nat /\ local[p].page \in Nat
      /\ ver \in Nat /\ lastPage \in Nat /\ Task \subseteq Process /\ "poll" \in Process
  BY Processes DEF WordsOK, Words, StateOK
<1>1. ASSUME NEW p \in Process, Snapshots(p), ~SnapSend(p) PROVE Quietly /\ UNCHANGED mirrorVars
  <2>1. CASE SnapCheck(p) \/ SnapSource(p) \/ SnapHandle(p)
    BY <2>1 DEF SnapCheck, SnapSource, SnapHandle, netVars, Quietly
  <2>2. CASE Recover(p)
    BY <2>2 DEF Recover, netVars, Quietly
  <2> QED BY <1>1, <2>1, <2>2 DEF Snapshots
<1>2. ASSUME NEW p \in Process, SnapSend(p)
      PROVE  UNCHANGED mirrorVars /\ \E m \in Message : SendsSnapshot(p, m)
  BY <1>2, SnapSends DEF SnapSend
<1>3. ASSUME NEW t \in Task, Report(t)
      PROVE  UNCHANGED mirrorVars /\ \E m \in Message : Results(t, m)
  <2> DEFINE m == [type |-> "result", handle |-> local[t].handle]
  <2>1. m \in Notice /\ m.type = "result" /\ m.handle = local[t].handle
    BY <1>0 DEF Notice
  <2>2. Post(<<m>>) /\ UNCHANGED mirrorVars
    BY <1>3 DEF Report
  <2> HIDE DEF m
  <2>3. m \in Message
    BY <2>1 DEF Message
  <2> QED BY <1>3, <2>1, <2>2, <2>3, AppendIsPost DEF Results, Appends
<1>4. CASE PollAnnounce
  <2> DEFINE m == [type |-> "opened", handle |-> local["poll"].handle]
  <2>1. m \in Notice /\ m.type = "opened" /\ m.handle = local["poll"].handle
    BY <1>0 DEF Notice
  <2>2. Post(<<m>>) /\ UNCHANGED mirrorVars
    BY <1>4 DEF PollAnnounce, mirrorVars
  <2> HIDE DEF m
  <2>3. m \in Message
    BY <2>1 DEF Message
  <2> QED BY <1>4, <2>1, <2>2, <2>3, AppendIsPost DEF Announces, Appends
<1>5. ASSUME NEW base \in Nat, NEW v \in Nat, NEW from \in Nat, NEW to \in Nat,
             PollAddress \/ PollUpdate,
             Post(<<[type |-> "update", handle |-> local["poll"].handle, base |-> base,
                     version |-> v, from |-> from, to |-> to]>>)
      PROVE  \E m \in Message : Updates(m)
  <2> DEFINE m == [type |-> "update", handle |-> local["poll"].handle, base |-> base,
                   version |-> v, from |-> from, to |-> to]
  <2>1. m \in Update /\ m.handle = local["poll"].handle
    BY <1>0, <1>5 DEF Update
  <2>2. Post(<<m>>)
    BY <1>5
  <2> HIDE DEF m
  <2>3. m \in Message
    BY <2>1 DEF Message
  <2> QED BY <1>5, <2>1, <2>2, <2>3, AppendIsPost DEF Updates, Appends
<1>6. CASE PollAddress
  <2>1. UNCHANGED mirrorVars
    BY <1>6 DEF PollAddress
  <2>2. CASE UNCHANGED frames
    BY <2>1, <2>2 DEF Quietly
  <2>3. CASE Post(<<[type |-> "update", handle |-> local["poll"].handle, base |-> ver,
                     version |-> ver, from |-> 0, to |-> 0]>>)
    <3>1. \E m \in Message : Updates(m)
      BY <1>0, <1>5, <1>6, <2>3
    <3> QED BY <2>1, <3>1
  <2> QED BY <1>6, <2>2, <2>3 DEF PollAddress
<1>7. CASE PollUpdate
  <2>1. UNCHANGED mirrorVars
    BY <1>7 DEF PollUpdate
  <2>2. CASE UNCHANGED frames
    BY <2>1, <2>2 DEF Quietly
  <2>3. CASE Post(<<[type |-> "update", handle |-> local["poll"].handle, base |-> ver,
                     version |-> ver + 1, from |-> lastPage, to |-> local["poll"].page]>>)
    <3>1. \E m \in Message : Updates(m)
      BY <1>0, <1>5, <1>7, <2>3
    <3> QED BY <2>1, <3>1
  <2> QED BY <1>7, <2>2, <2>3 DEF PollUpdate
<1>8. ASSUME NEW t \in Task, Execute(t) \/ Remember(t) PROVE Quietly /\ UNCHANGED mirrorVars
  BY <1>8 DEF Execute, Remember, netVars, Quietly
<1>9. ASSUME PollWake \/ PollRead \/ PollFollow PROVE Quietly /\ UNCHANGED mirrorVars
  BY <1>9 DEF PollWake, PollRead, PollFollow, netVars, Quietly
<1>10. ASSUME PollTabs PROVE UNCHANGED mirrorVars
  BY <1>10 DEF PollTabs
<1>11. ASSUME World PROVE Quietly /\ UNCHANGED mirrorVars
  BY <1>11 DEF World, netVars, Quietly
<1>12. ASSUME Receive PROVE Quietly /\ UNCHANGED mirrorVars
  BY <1>12 DEF Receive, Quietly
<1>13. ASSUME NEW h, NEW name, Command(name, h) PROVE Quietly /\ UNCHANGED mirrorVars
  BY <1>13 DEF Command, Quietly
<1>14. ASSUME UNCHANGED vars PROVE Quietly /\ UNCHANGED mirrorVars
  <2>1. UNCHANGED netVars /\ UNCHANGED mirrorVars
    BY <1>14 DEF vars
  <2> QED BY <2>1 DEF netVars, Quietly
<1> QED BY <1>1, <1>2, <1>3, <1>4, <1>6, <1>7, <1>8, <1>9, <1>10, <1>11, <1>12, <1>13, <1>14
        DEF Next, Works, Polls

LEMMA StaysNamed ==
  ASSUME BrowserOK, OnlyNewOpen, made' \in Nat, NEW m \in Message, Named(m, made, Open)
  PROVE  Named(m, made', Open')
BY TypesDisjoint DEF BrowserOK, OnlyNewOpen, Named, NoHandle

LEMMA FramesPosted ==
  ASSUME BrowserOK, FramesOK, OnlyNewOpen, made' \in Nat, NEW new \in Seq(Message),
         frames' = frames \o new, \A i \in DOMAIN new : Named(new[i], made', Open')
  PROVE  FramesOK'
<1>1. /\ frames' \in Seq(Message)
      /\ \A i \in DOMAIN frames : frames'[i] = frames[i]
      /\ \A i \in DOMAIN new : frames'[Len(frames) + i] = new[i]
      /\ \A i \in DOMAIN frames' : i \in DOMAIN frames \/ \E k \in DOMAIN new : i = Len(frames) + k
  BY ConcatElements DEF FramesOK
<1>2. ASSUME NEW i \in DOMAIN frames PROVE Named(frames[i], made', Open')
  <2>1. Named(frames[i], made, Open) /\ frames[i] \in Message
    BY DEF FramesOK
  <2> QED BY <2>1, StaysNamed
<1>3. ASSUME NEW i \in DOMAIN frames' PROVE Named(frames'[i], made', Open')
  <2>1. CASE i \in DOMAIN frames
    BY <1>1, <1>2, <2>1
  <2>2. ASSUME NEW k \in DOMAIN new, i = Len(frames) + k PROVE Named(frames'[i], made', Open')
    BY <1>1, <2>2
  <2> QED BY <1>1, <2>1, <2>2
<1> QED BY <1>1, <1>3 DEF FramesOK

LEMMA FramesAppended ==
  ASSUME BrowserOK, FramesOK, OnlyNewOpen, made' \in Nat, NEW m \in Message,
         Named(m, made', Open'), Appends(m)
  PROVE  FramesOK'
<1>1. <<m>> \in Seq(Message) /\ frames' = frames \o <<m>> /\ DOMAIN <<m>> = 1..1 /\ <<m>>[1] = m
  BY DEF FramesOK, Appends
<1>2. \A i \in DOMAIN <<m>> : Named(<<m>>[i], made', Open')
  BY <1>1
<1> QED BY <1>1, <1>2, FramesPosted

LEMMA FramesStep ==
  ASSUME BrowserOK, CoroutinesOK, WordsOK, StateOK, FramesOK, [Next]_vars
  PROVE  FramesOK'
<1>0. made \in Nat /\ made' \in Nat /\ made <= made' /\ OnlyNewOpen
  BY BrowserStep DEF BrowserOK, OnlyNewOpen
<1>1. CASE Quietly
  <2>1. ASSUME NEW i \in DOMAIN frames PROVE Named(frames[i], made', Open')
    <3>1. Named(frames[i], made, Open) /\ frames[i] \in Message
      BY DEF FramesOK
    <3> QED BY <1>0, <3>1, StaysNamed
  <2> QED BY <1>1, <2>1 DEF FramesOK, Quietly
<1>2. CASE Take
  <2>1. UNCHANGED <<windows, made>> /\ frames # <<>> /\ frames' = Tail(frames)
    BY <1>2 DEF Take, browserVars
  <2>2. Open' = Open
    BY <2>1 DEF Open
  <2>3. frames' \in Seq(Message) /\ \A i \in DOMAIN frames' : frames'[i] = frames[i + 1] /\ i + 1 \in DOMAIN frames
    BY <2>1 DEF FramesOK
  <2> QED BY <2>1, <2>2, <2>3 DEF FramesOK
<1>3. CASE PollTabs
  <2>1. PICK new : TellsTabs(new)
    BY <1>3, TabsTold
  <2>2. UNCHANGED <<windows, made>> /\ new \in Seq(Message) /\ frames' = frames \o new
    BY <1>3, <2>1 DEF PollTabs, browserVars, TellsTabs, Post
  <2>3. Open' = Open
    BY <2>2 DEF Open
  <2>4. ASSUME NEW i \in DOMAIN new PROVE Named(new[i], made', Open')
    <3>1. \/ new[i].type = "closed" /\ new[i].handle \in known \ Open
          \/ new[i].type = "opened" /\ new[i].handle \in Open
      BY <2>1 DEF TellsTabs, Closed, New
    <3>2. new[i].handle \in 1..made
      BY <3>1 DEF BrowserOK, StateOK
    <3> QED BY <1>0, <2>2, <2>3, <3>1, <3>2 DEF Named, NoHandle
  <2> QED BY <1>0, <2>2, <2>4, FramesPosted
<1>4. ASSUME NEW m \in Message, m.type # "closed", Appends(m), NEW p \in Process,
             m.handle = local[p].handle, m.type = "opened" => m.handle # NoHandle
      PROVE  FramesOK'
  <2>1. local[p].handle <= made /\ local[p].handle \in Nat
    BY DEF WordsOK, Words
  <2>2. Named(m, made', Open')
    BY <1>0, <1>4, <2>1 DEF Named
  <2> QED BY <1>0, <1>4, <2>2, FramesAppended
<1>5. ASSUME NEW m \in Message, NEW p \in Process, SendsSnapshot(p, m) PROVE FramesOK'
  BY <1>4, <1>5, TypesDisjoint DEF SendsSnapshot
<1>6. ASSUME NEW m \in Message, NEW t \in Task, Results(t, m) PROVE FramesOK'
  BY <1>4, <1>6, Processes DEF Results
<1>7. ASSUME NEW m \in Message, Updates(m) PROVE FramesOK'
  BY <1>4, <1>7, Processes, TypesDisjoint DEF Updates
<1>8. ASSUME NEW m \in Message, Announces(m) PROVE FramesOK'
  <2>1. local["poll"].handle # NoHandle
    BY <1>8 DEF Announces, PollAnnounce, WordsOK, PollKnows
  <2> QED BY <1>4, <1>8, <2>1, Processes DEF Announces
<1> QED BY <1>1, <1>2, <1>3, <1>5, <1>6, <1>7, <1>8, StepKinds

(* The controller's tabs *)

LEMMA HandlesSame ==
  ASSUME made \in Nat, NEW list, TabsOK(list), NEW other, other \in [DOMAIN list -> TabSet],
         \A i \in DOMAIN list : other[i].handle = list[i].handle
  PROVE  TabsOK(other) /\ Handles(other) = Handles(list)
<1>1. list \in Seq(TabSet) /\ DOMAIN list = 1..Len(list) /\ Len(list) \in Nat
  BY DEF TabsOK
<1>2. other \in Seq(TabSet) /\ DOMAIN other = DOMAIN list
  BY <1>1
<1>3. Handles(other) = Handles(list)
  BY <1>2 DEF Handles
<1> QED BY <1>2, <1>3 DEF TabsOK

LEMMA NewTabOK ==
  ASSUME NEW h \in Nat
  PROVE  NewTab(h) \in TabSet /\ NewTab(h).handle = h /\ NewTab(h).stale
BY DEF NewTab, Tab, TabSet

LEMMA WithTabOK ==
  ASSUME made \in Nat, TabsOK(tabs), NEW h \in 0..made
  PROVE  /\ TabsOK(WithTab(h)) /\ Handles(WithTab(h)) = Mirrored \cup {h}
         /\ \A i \in DOMAIN WithTab(h) :
              \/ h \notin Mirrored /\ WithTab(h)[i] = NewTab(h)
              \/ i \in DOMAIN tabs /\ WithTab(h)[i] = tabs[i]
<1>1. /\ tabs \in Seq(TabSet) /\ DOMAIN tabs = 1..Len(tabs) /\ Len(tabs) \in Nat
      /\ Handles(tabs) = Mirrored /\ Mirrored \subseteq 0..made
      /\ \A i \in DOMAIN tabs : tabs[i].handle \in Mirrored
  BY DEF TabsOK, Handles, Mirrored
<1>2. CASE h \in Mirrored
  <2>1. WithTab(h) = tabs
    BY <1>2 DEF WithTab
  <2> QED BY <1>1, <1>2, <2>1
<1>3. CASE h \notin Mirrored
  <2> DEFINE s == Append(tabs, NewTab(h))
  <2>1. WithTab(h) = s
    BY <1>3 DEF WithTab
  <2>2. NewTab(h) \in TabSet /\ NewTab(h).handle = h
    BY NewTabOK
  <2>3. /\ s \in Seq(TabSet) /\ DOMAIN s = 1..(Len(tabs) + 1)
        /\ \A i \in DOMAIN tabs : s[i] = tabs[i]
        /\ s[Len(tabs) + 1] = NewTab(h)
    BY <1>1, <2>2
  <2> HIDE DEF s
  <2>4. /\ \A i \in DOMAIN s : i = Len(tabs) + 1 \/ i \in DOMAIN tabs
        /\ \A i \in DOMAIN tabs : i \in DOMAIN s
        /\ Len(tabs) + 1 \in DOMAIN s
    BY <1>1, <2>3
  <2>5. Handles(s) = Mirrored \cup {h}
    BY <1>1, <2>2, <2>3, <2>4 DEF Handles, Mirrored
  <2>6. \A i, j \in DOMAIN s : s[i].handle = s[j].handle => i = j
    BY <1>1, <1>3, <2>2, <2>3, <2>4 DEF TabsOK
  <2>7. TabsOK(s)
    BY <1>1, <2>3, <2>5, <2>6 DEF TabsOK
  <2> QED BY <1>3, <2>1, <2>3, <2>4, <2>5, <2>7
<1> QED BY <1>2, <1>3

LEMMA WithoutTabOK ==
  ASSUME made \in Nat, TabsOK(tabs), NEW h
  PROVE  /\ TabsOK(WithoutTab(h)) /\ Handles(WithoutTab(h)) = Mirrored \ {h}
         /\ \A i \in DOMAIN WithoutTab(h) : \E j \in DOMAIN tabs : WithoutTab(h)[i] = tabs[j]
<1>1. /\ tabs \in Seq(TabSet) /\ DOMAIN tabs = 1..Len(tabs) /\ Len(tabs) \in Nat
      /\ Handles(tabs) = Mirrored /\ Mirrored \subseteq 0..made
      /\ \A i \in DOMAIN tabs : tabs[i].handle \in Mirrored
  BY DEF TabsOK, Handles, Mirrored
<1>2. CASE h \notin Mirrored
  <2>1. WithoutTab(h) = tabs
    BY <1>2 DEF WithoutTab
  <2> QED BY <1>1, <1>2, <2>1
<1>3. CASE h \in Mirrored
  <2> DEFINE p == Place(h)
             s == RemoveAt(tabs, p)
             n == Len(tabs)
  <2>1. p \in DOMAIN tabs /\ tabs[p].handle = h
    <3>1. \E i \in DOMAIN tabs : tabs[i].handle = h
      BY <1>3 DEF Mirrored
    <3> QED BY <3>1 DEF Place
  <2>2. WithoutTab(h) = s
    BY <1>3 DEF WithoutTab
  <2> HIDE DEF p
  <2>3. /\ s \in Seq(TabSet) /\ Len(s) = n - 1
        /\ \A j \in 1..(n - 1) : s[j] = IF j < p THEN tabs[j] ELSE tabs[j + 1]
    BY <1>1, <2>1, RemoveAtProperties
  <2> HIDE DEF s
  <2>4. DOMAIN s = 1..(n - 1)
    BY <2>3
  <2> DEFINE From(j) == IF j < p THEN j ELSE j + 1
  <2>5. ASSUME NEW j \in DOMAIN s PROVE From(j) \in DOMAIN tabs /\ From(j) # p /\ s[j] = tabs[From(j)]
    BY <1>1, <2>1, <2>3, <2>4
  <2>6. ASSUME NEW i \in DOMAIN tabs, i # p PROVE \E j \in DOMAIN s : s[j] = tabs[i]
    <3>1. CASE i < p
      <4>1. i \in 1..(n - 1)
        BY <1>1, <2>1, <3>1
      <4> QED BY <2>3, <2>4, <3>1, <4>1
    <3>2. CASE i > p
      <4>1. i - 1 \in 1..(n - 1) /\ ~(i - 1 < p) /\ (i - 1) + 1 = i
        BY <1>1, <2>1, <3>2
      <4>2. s[i - 1] = tabs[(i - 1) + 1]
        BY <2>3, <4>1
      <4> QED BY <2>4, <4>1, <4>2, Zenon
    <3> QED BY <1>1, <2>1, <2>6, <3>1, <3>2
  <2>7. Handles(s) = Mirrored \ {h}
    <3>1. ASSUME NEW j \in DOMAIN s PROVE s[j].handle \in Mirrored \ {h}
      BY <1>1, <2>1, <2>5 DEF TabsOK
    <3>2. ASSUME NEW g \in Mirrored \ {h} PROVE \E j \in DOMAIN s : s[j].handle = g
      <4>1. PICK i \in DOMAIN tabs : tabs[i].handle = g
        BY DEF Mirrored
      <4> QED BY <2>1, <2>6, <4>1
    <3> QED BY <3>1, <3>2 DEF Handles
  <2>8. ASSUME NEW i \in DOMAIN s, NEW j \in DOMAIN s, s[i].handle = s[j].handle PROVE i = j
    <3>1. From(i) = From(j)
      BY <2>5, <2>8 DEF TabsOK
    <3> QED BY <1>1, <2>1, <2>4, <3>1
  <2>9. TabsOK(s)
    BY <1>1, <2>3, <2>7, <2>8 DEF TabsOK
  <2> QED BY <1>3, <2>2, <2>5, <2>7, <2>9
<1> QED BY <1>2, <1>3

LEMMA OpenedMirror ==
  ASSUME made \in Nat, MirrorOK, NEW h \in 1..made, TabOpened(h)
  PROVE  /\ TabsOK(tabs') /\ active' \in Nat /\ bar' \subseteq 1..made
         /\ Handles(tabs') = Mirrored \cup {h} /\ bar' = bar \cup {h}
         /\ active' = IF active = 0 THEN h ELSE active
         /\ \A i \in DOMAIN tabs' :
              \/ tabs'[i].handle = h /\ tabs'[i].stale
              \/ \E j \in DOMAIN tabs : tabs'[i] = tabs[j]
<1>1. tabs' = WithTab(h) /\ bar' = bar \cup {h} /\ active' = IF active = 0 THEN h ELSE active
  BY DEF TabOpened
<1>2. h \in 0..made /\ NewTab(h).handle = h /\ NewTab(h).stale
  BY NewTabOK
<1>3. /\ TabsOK(WithTab(h)) /\ Handles(WithTab(h)) = Mirrored \cup {h}
      /\ \A i \in DOMAIN WithTab(h) : WithTab(h)[i] = NewTab(h)
                                      \/ (i \in DOMAIN tabs /\ WithTab(h)[i] = tabs[i])
  BY <1>2, WithTabOK DEF MirrorOK
<1> QED BY <1>1, <1>2, <1>3 DEF MirrorOK

LEMMA ClosedMirror ==
  ASSUME made \in Nat, MirrorOK, NEW h \in 1..made, TabClosed(h)
  PROVE  /\ TabsOK(tabs') /\ active' \in Nat /\ bar' \subseteq 1..made
         /\ Handles(tabs') = Mirrored \ {h} /\ bar' = bar \ {h}
         /\ active # h => active' = active
         /\ \A i \in DOMAIN tabs' : \E j \in DOMAIN tabs : tabs'[i] = tabs[j]
<1>1. /\ tabs' = WithoutTab(h) /\ bar' = bar \ {h}
      /\ active' = IF active # h THEN active ELSE IF tabs' = <<>> THEN 0 ELSE tabs'[1].handle
  BY DEF TabClosed
<1>2. /\ TabsOK(tabs') /\ Handles(tabs') = Mirrored \ {h}
      /\ \A i \in DOMAIN tabs' : \E j \in DOMAIN tabs : tabs'[i] = tabs[j]
  BY <1>1, WithoutTabOK DEF MirrorOK
<1>3. tabs' # <<>> => tabs'[1].handle \in Nat
  <2>1. tabs' \in Seq(TabSet)
    BY <1>2 DEF TabsOK
  <2>2. tabs' # <<>> => tabs'[1] \in TabSet
    BY <2>1
  <2> QED BY <2>2 DEF TabSet
<1> QED BY <1>1, <1>2, <1>3 DEF MirrorOK

LEMMA SnapshotMirror ==
  ASSUME made \in Nat, MirrorOK, NEW h \in 0..made, NEW page \in Nat, NEW v \in Nat,
         FullSnapshot(h, page, v)
  PROVE  /\ TabsOK(tabs') /\ active' \in Nat /\ bar' \subseteq 1..made
         /\ Handles(tabs') = Mirrored \cup {h} /\ bar' = IF h = 0 THEN bar ELSE bar \cup {h}
         /\ active' = h
         /\ \A i \in DOMAIN tabs' :
              \/ tabs'[i].handle = h /\ tabs'[i] = Tab(h, page, v, FALSE)
              \/ tabs'[i].handle # h /\ \E j \in DOMAIN tabs : tabs'[i] = tabs[j]
<1> DEFINE with == WithTab(h)
           tab == Tab(h, page, v, FALSE)
<1>1. /\ tabs' = [i \in DOMAIN with |-> IF with[i].handle = h THEN tab ELSE with[i]]
      /\ active' = h /\ bar' = IF h = 0 THEN bar ELSE bar \cup {h}
  BY DEF FullSnapshot
<1>2. h \in Nat /\ tab \in TabSet /\ tab.handle = h /\ NewTab(h).handle = h
  BY NewTabOK DEF Tab, TabSet
<1>3. /\ TabsOK(with) /\ Handles(with) = Mirrored \cup {h}
      /\ \A i \in DOMAIN with : with[i] = NewTab(h)
                                \/ (i \in DOMAIN tabs /\ with[i] = tabs[i])
  BY <1>2, WithTabOK DEF MirrorOK
<1> HIDE DEF with, tab
<1>4. /\ tabs' \in [DOMAIN with -> TabSet]
      /\ \A i \in DOMAIN with : tabs'[i].handle = with[i].handle
  <2>1. \A i \in DOMAIN with : with[i] \in TabSet
    BY <1>3 DEF TabsOK
  <2> QED BY <1>1, <1>2, <2>1
<1>5. TabsOK(tabs') /\ Handles(tabs') = Mirrored \cup {h}
  BY <1>3, <1>4, HandlesSame
<1>6. ASSUME NEW i \in DOMAIN tabs'
      PROVE  \/ tabs'[i].handle = h /\ tabs'[i] = tab
             \/ tabs'[i].handle # h /\ \E j \in DOMAIN tabs : tabs'[i] = tabs[j]
  <2>1. CASE with[i].handle = h
    BY <1>1, <1>2, <1>4, <2>1
  <2>2. CASE with[i].handle # h
    BY <1>1, <1>2, <1>3, <1>4, <2>2
  <2> QED BY <2>1, <2>2
<1>7. bar' \subseteq 1..made
  BY <1>1 DEF MirrorOK
<1> QED BY <1>1, <1>2, <1>5, <1>6, <1>7 DEF tab

LEMMA UpdateMirror ==
  ASSUME made \in Nat, MirrorOK, NEW h \in Nat, NEW base \in Nat, NEW v \in Nat, NEW from \in Nat,
         NEW to \in Nat, DomUpdate(h, base, v, from, to)
  PROVE  /\ TabsOK(tabs') /\ UNCHANGED <<active, bar>> /\ Handles(tabs') = Mirrored
         /\ DOMAIN tabs' = DOMAIN tabs
         /\ \A i \in DOMAIN tabs' :
              \/ tabs'[i] = tabs[i]
              \/ tabs'[i].handle = h /\ tabs[i].handle = h /\ tabs'[i].stale
              \/ /\ tabs'[i].handle = h /\ tabs[i].handle = h /\ ~tabs[i].stale
                 /\ tabs[i].version = base /\ tabs'[i].version = v
                 /\ tabs'[i].shows = Patched(tabs[i].shows, from, to)
<1>1. /\ tabs' = [i \in DOMAIN tabs |->
                    IF tabs[i].handle # h THEN tabs[i]
                    ELSE IF Fits(h, base)
                    THEN Tab(h, Patched(tabs[i].shows, from, to), v, FALSE)
                    ELSE Tab(h, tabs[i].shows, tabs[i].version, TRUE)]
      /\ UNCHANGED <<active, bar>>
  BY DEF DomUpdate
<1>2. /\ TabsOK(tabs) /\ tabs \in Seq(TabSet) /\ Handles(tabs) = Mirrored
      /\ \A i \in DOMAIN tabs : tabs[i] \in TabSet
  BY DEF MirrorOK, TabsOK, Mirrored, Handles
<1>3. ASSUME NEW i \in DOMAIN tabs
      PROVE  /\ tabs'[i] \in TabSet /\ tabs'[i].handle = tabs[i].handle
             /\ \/ tabs'[i] = tabs[i]
                \/ tabs'[i].handle = h /\ tabs[i].handle = h /\ tabs'[i].stale
                \/ /\ tabs'[i].handle = h /\ tabs[i].handle = h /\ ~tabs[i].stale
                   /\ tabs[i].version = base /\ tabs'[i].version = v
                   /\ tabs'[i].shows = Patched(tabs[i].shows, from, to)
  <2>1. /\ tabs[i].shows \in Nat \cup {Garbled} /\ tabs[i].version \in Nat
        /\ Patched(tabs[i].shows, from, to) \in Nat \cup {Garbled}
    BY <1>2 DEF TabSet, Patched
  <2>2. CASE tabs[i].handle # h
    BY <1>1, <1>2, <2>2
  <2>3. CASE tabs[i].handle = h /\ ~Fits(h, base)
    <3>1. tabs'[i] = Tab(h, tabs[i].shows, tabs[i].version, TRUE)
      BY <1>1, <2>3
    <3> QED BY <2>1, <1>2, <2>3, <3>1 DEF Tab, TabSet
  <2>4. CASE tabs[i].handle = h /\ Fits(h, base)
    <3>1. tabs'[i] = Tab(h, Patched(tabs[i].shows, from, to), v, FALSE)
      BY <1>1, <2>4
    <3>2. Place(h) = i
      <4>1. Place(h) \in DOMAIN tabs /\ tabs[Place(h)].handle = h
        BY <2>4 DEF Place
      <4> QED BY <2>4, <4>1 DEF MirrorOK, TabsOK
    <3>3. ~tabs[i].stale /\ tabs[i].version = base
      BY <2>4, <3>2 DEF Fits, Shown
    <3> QED BY <2>1, <2>4, <3>1, <1>2, <3>3 DEF Tab, TabSet
  <2> QED BY <2>2, <2>3, <2>4
<1>4. tabs' \in [DOMAIN tabs -> TabSet] /\ DOMAIN tabs' = DOMAIN tabs
  BY <1>1, <1>3
<1>5. TabsOK(tabs') /\ Handles(tabs') = Mirrored
  BY <1>2, <1>3, <1>4, HandlesSame
<1> QED BY <1>1, <1>3, <1>4, <1>5

\* What Take does with the message m, in the terms of the lemmas above.
Shifts ==
  /\ frames # <<>> /\ frames' \in Seq(Message) /\ Len(frames) \in Nat
  /\ DOMAIN frames = 1..Len(frames) /\ DOMAIN frames' = 1..(Len(frames) - 1)
  /\ \A i \in DOMAIN frames' : i + 1 \in DOMAIN frames /\ frames'[i] = frames[i + 1]
Shown1(m) ==
  \/ m.type = "opened" /\ m.handle \in 1..made /\ TabOpened(m.handle)
  \/ m.type = "closed" /\ m.handle \in 1..made /\ TabClosed(m.handle)
  \/ m.type = "snapshot" /\ m \in Snapshot /\ FullSnapshot(m.handle, m.page, m.version)
  \/ m.type = "update" /\ m \in Update /\ DomUpdate(m.handle, m.base, m.version, m.from, m.to)
  \/ m.type = "result" /\ CommandResult(m.handle)

LEMMA TakeShifts ==
  ASSUME BrowserOK, FramesOK, Take
  PROVE  /\ Shifts /\ frames[1] \in Message /\ frames[1].handle \in 0..made /\ Shown1(frames[1])
         /\ UNCHANGED <<windows, focus, made, at, local, history, known, ver, lastPage>>
<1>1. frames # <<>> /\ frames' = Tail(frames) /\ frames \in Seq(Message)
  BY DEF Take, FramesOK
<1>2. Shifts /\ 1 \in DOMAIN frames /\ Head(frames) = frames[1]
  BY <1>1 DEF Shifts
<1>3. /\ frames[1] \in Message /\ frames[1].handle \in 0..made
      /\ frames[1].type \in {"opened", "closed"} => frames[1].handle \in 1..made
  BY <1>2, TypesDisjoint DEF FramesOK, BrowserOK, Named, NoHandle
<1>4. UNCHANGED <<windows, focus, made, at, local, history, known, ver, lastPage>>
  BY DEF Take, browserVars, coroutineVars, stateVars, pageOfVars
<1> DEFINE m == frames[1]
<1>5. \/ m.type = "opened" /\ TabOpened(m.handle)
      \/ m.type = "closed" /\ TabClosed(m.handle)
      \/ m.type = "snapshot" /\ FullSnapshot(m.handle, m.page, m.version)
      \/ m.type = "update" /\ DomUpdate(m.handle, m.base, m.version, m.from, m.to)
      \/ m.type = "result" /\ CommandResult(m.handle)
  BY <1>2, Zenon DEF Take
<1>6. Shown1(m)
  BY <1>3, <1>5, TypesDisjoint DEF Shown1
<1> QED BY <1>2, <1>3, <1>4, <1>6

LEMMA TakeHandles ==
  ASSUME BrowserOK, FramesOK, MirrorOK, Take
  PROVE  /\ MirrorOK'
         /\ Mirrored' = IF frames[1].type \in {"opened", "snapshot"} THEN Mirrored \cup {frames[1].handle}
                        ELSE IF frames[1].type = "closed" THEN Mirrored \ {frames[1].handle}
                        ELSE Mirrored
         /\ bar' = IF frames[1].type \in {"opened", "snapshot"} THEN bar \cup ({frames[1].handle} \ {0})
                   ELSE IF frames[1].type = "closed" THEN bar \ {frames[1].handle}
                   ELSE bar
<1>0. /\ frames[1] \in Message /\ frames[1].handle \in 0..made /\ Shown1(frames[1])
      /\ made' = made /\ made \in Nat
  BY TakeShifts DEF BrowserOK
<1> DEFINE m == frames[1]
<1>1. ASSUME TabsOK(tabs'), active' \in Nat, bar' \subseteq 1..made
      PROVE  MirrorOK' /\ Mirrored' = Handles(tabs')
  BY <1>0, <1>1 DEF MirrorOK, TabsOK, Mirrored, Handles
<1>2. CASE m.type = "opened"
  <2>1. TabOpened(m.handle) /\ m.handle \in 1..made
    BY <1>0, <1>2 DEF Shown1
  <2> QED BY <1>0, <1>1, <1>2, <2>1, OpenedMirror
<1>3. CASE m.type = "closed"
  <2>1. TabClosed(m.handle) /\ m.handle \in 1..made
    BY <1>0, <1>3 DEF Shown1
  <2> QED BY <1>0, <1>1, <1>3, <2>1, ClosedMirror
<1>4. CASE m.type = "snapshot"
  <2>1. FullSnapshot(m.handle, m.page, m.version) /\ m.page \in Nat /\ m.version \in Nat
    BY <1>0, <1>4 DEF Shown1, Snapshot
  <2>2. /\ TabsOK(tabs') /\ active' \in Nat /\ bar' \subseteq 1..made
        /\ Handles(tabs') = Mirrored \cup {m.handle}
        /\ bar' = IF m.handle = 0 THEN bar ELSE bar \cup {m.handle}
    BY <1>0, <2>1, SnapshotMirror
  <2> QED BY <1>1, <1>4, <2>2
<1>5. CASE m.type = "update"
  <2>1. /\ DomUpdate(m.handle, m.base, m.version, m.from, m.to)
        /\ m.base \in Nat /\ m.version \in Nat /\ m.from \in Nat /\ m.to \in Nat /\ m.handle \in Nat
    BY <1>0, <1>5 DEF Shown1, Update
  <2>2. TabsOK(tabs') /\ UNCHANGED <<active, bar>> /\ Handles(tabs') = Mirrored
    BY <1>0, <2>1, UpdateMirror
  <2> QED BY <1>0, <1>1, <1>5, <2>2 DEF MirrorOK
<1>6. CASE m.type = "result"
  <2>1. /\ active' = IF m.handle = 0 THEN active ELSE m.handle
        /\ UNCHANGED <<tabs, bar>>
    BY <1>0, <1>6 DEF Shown1, CommandResult
  <2>2. Handles(tabs') = Mirrored
    BY <2>1 DEF Handles, Mirrored
  <2> QED BY <1>0, <1>1, <1>6, <2>1, <2>2 DEF MirrorOK
<1> QED BY <1>0, <1>2, <1>3, <1>4, <1>5, <1>6 DEF Shown1

LEMMA MirrorStep ==
  ASSUME BrowserOK, CoroutinesOK, WordsOK, StateOK, FramesOK, MirrorOK, [Next]_vars
  PROVE  MirrorOK'
<1>1. made \in Nat /\ made' \in Nat /\ made <= made'
  BY BrowserStep DEF BrowserOK, OnlyNewOpen
<1>2. CASE UNCHANGED mirrorVars
  <2>1. UNCHANGED tabs /\ UNCHANGED active /\ UNCHANGED bar
    BY <1>2 DEF mirrorVars
  <2>2. 0..made \subseteq 0..made' /\ 1..made \subseteq 1..made'
    BY <1>1
  <2> QED BY <2>1, <2>2 DEF MirrorOK, TabsOK, Handles
<1> QED BY <1>2, StepKinds, TakeHandles

LEMMA TypesInit == Init => BrowserTabsTypes
<1> SUFFICES ASSUME Init PROVE BrowserTabsTypes
  OBVIOUS
<1>0. made \in 1..MaxHandle /\ MaxHandle \in Nat /\ windows = [h \in 1..made |-> h] /\ focus = 1
  BY BrowserAssumption DEF Init, BrowserInit
<1>1. BrowserOK
  BY <1>0 DEF Init, BrowserInit, BrowserOK, Open, Range
<1>2. CoroutinesOK
  BY Processes DEF Init, CoroutinesOK, Places, Holding
<1>3. Nothing \in Words /\ Nothing.handle = 0 /\ Nothing.all = {}
  BY DEF Nothing, Has, Words
<1>4. WordsOK
  BY <1>0, <1>3, Processes DEF Init, WordsOK, PollKnows
<1>5. OrdersOK
  BY <1>0 DEF Init, OrdersOK, NoCommand, Order
<1>6. StateOK
  BY <1>0 DEF Init, StateOK, NoHistory, Past, Histories
<1>7. FramesOK
  <2> DEFINE m == [type |-> "snapshot", handle |-> 1, page |-> 1, version |-> 1]
  <2>1. m \in Snapshot /\ m.handle = 1 /\ m.type = "snapshot"
    BY DEF Snapshot
  <2>2. frames = <<m>>
    BY DEF Init
  <2> HIDE DEF m
  <2>3. m \in Message
    BY <2>1 DEF Message
  <2> QED BY <1>0, <2>1, <2>2, <2>3 DEF FramesOK, Named
<1>8. MirrorOK
  BY <1>0 DEF Init, MirrorInit, MirrorOK, TabsOK, Handles
<1> QED BY <1>1, <1>2, <1>4, <1>5, <1>6, <1>7, <1>8 DEF BrowserTabsTypes

LEMMA TypesStep == BrowserTabsTypes /\ [Next]_vars => BrowserTabsTypes'
BY BrowserStep, CoroutinesStep, WordsStep, OrdersStep, StateStep, FramesStep, MirrorStep
DEF BrowserTabsTypes

\* Every state is of the types above; at most one coroutine holds
\* _selenium_lock, at a place between the driver's calls it is held for; the
\* poll loop follows a window and reads a page with the handle it belongs to;
\* and no closed notice is ever of an open window, for handles come once.
THEOREM BrowserTabsTyped == Spec => []BrowserTabsTypes
BY TypesInit, TypesStep, PTL DEF Spec

(* The tab bar *)

\* The buttons of the tab bar are the mirrored tabs, through every message in
\* any order (worker_tab.py and state_manager.py change apart).
THEOREM BarFollowsTabs == Spec => []BarIsMirrored
<1>1. Init => BarIsMirrored
  BY DEF Init, MirrorInit, BarIsMirrored, Mirrored
<1>2. BrowserTabsTypes /\ BarIsMirrored /\ [Next]_vars => BarIsMirrored'
  <2> SUFFICES ASSUME BrowserTabsTypes, BarIsMirrored, [Next]_vars PROVE BarIsMirrored'
    OBVIOUS
  <2>1. CASE UNCHANGED mirrorVars
    BY <2>1 DEF mirrorVars, BarIsMirrored, Mirrored
  <2>2. CASE Take
    <3>1. frames[1].type = "closed" => frames[1].handle # 0
      BY <2>2, TakeShifts DEF BrowserTabsTypes, Shown1
    <3> QED BY <2>2, <3>1, TakeHandles DEF BrowserTabsTypes, BarIsMirrored, NoHandle
  <2> QED BY <2>1, <2>2, StepKinds DEF BrowserTabsTypes
<1> QED BY <1>1, <1>2, BrowserTabsTyped, PTL DEF Spec

(* close_tab *)

Following == {"announce", "snap", "source", "recover"}
Asked(t) ==
  \/ focus = cmd[t].handle
  \/ cmd[t].handle \notin Open
  \/ at["poll"] \in Following
CloseIsAsked == \A t \in Task : at[t] = "close" => Asked(t)

\* Between the two calls of close_tab only the poll loop goes to a window,
\* and it does not get on with its snapshot of that one.
LEMMA WhileClosing ==
  ASSUME BrowserTabsTypes, NEW t \in Task, at[t] = "close", [Next]_vars, ~CloseTabClose(t)
  PROVE  /\ cmd'[t] = cmd[t]
         /\ \/ at'["poll"] = "announce"
            \/ UNCHANGED focus /\ (at["poll"] \in Following => at'["poll"] \in Following)
<1>0. /\ lock = t /\ ~Free /\ at \in [Process -> Places] /\ cmd \in [Task -> Order]
      /\ \A p \in Process : p # t => at[p] \notin Holding
  BY Processes DEF BrowserTabsTypes, CoroutinesOK, OrdersOK, Holding, Free
<1> DEFINE Goal == /\ cmd'[t] = cmd[t]
                   /\ \/ at'["poll"] = "announce"
                      \/ UNCHANGED focus /\ (at["poll"] \in Following => at'["poll"] \in Following)
<1>1. CASE UNCHANGED <<at, cmd, focus>>
  BY <1>1
<1>2. ASSUME NEW p \in Process, NEW place, Goes(p, place), UNCHANGED <<cmd, focus>>,
             p = "poll" /\ at["poll"] \in Following => place \in Following
      PROVE  Goal
  BY <1>0, <1>2, Processes DEF Goes
<1>3. ASSUME NEW p \in Process, Snapshots(p) PROVE Goal
  <2>1. CASE SnapCheck(p)
    <3>1. \E place \in {"source", "recover"} : Goes(p, place)
      BY <2>1 DEF SnapCheck
    <3> QED BY <1>2, <2>1, <3>1 DEF SnapCheck, browserVars, Following
  <2>2. ~Recover(p) /\ ~SnapSource(p)
    BY <1>0 DEF Recover, SnapSource
  <2>3. ~SnapHandle(p)
    BY <1>0 DEF SnapHandle, Holding
  <2>4. CASE SnapSend(p)
    BY <1>2, <2>4 DEF SnapSend, browserVars, Following
  <2> QED BY <1>3, <2>1, <2>2, <2>3, <2>4 DEF Snapshots
<1>4. CASE Receive
  <2>1. UNCHANGED focus /\ at["reader"] = "idle"
    BY <1>4 DEF Receive, browserVars
  <2>2. CASE Goes("reader", "snap") /\ UNCHANGED cmd
    BY <1>2, <2>1, <2>2, Processes
  <2>3. ASSUME NEW u \in Task, at[u] = "idle", Goes(u, "start"), NEW order,
               cmd' = [cmd EXCEPT ![u] = order]
        PROVE  Goal
    BY <1>0, <2>1, <2>3, Processes DEF Goes
  <2> QED BY <1>4, <2>2, <2>3 DEF Receive
<1>5. ASSUME NEW u \in Task, Works(u) PROVE Goal
  <2>1. ASSUME Execute(u) PROVE FALSE
    <3>1. ~Fail(u) /\ ~SwitchTab(u) /\ ~NewTabOpens(u) /\ ~CloseTabRescue(u)
      BY <1>0 DEF Fail, SwitchTab, NewTabOpens, CloseTabRescue, Begins
    <3>2. ~CloseTabTarget(u) /\ ~CloseTabLeave(u) /\ ~CloseTabClose(u)
      BY <1>0, Processes DEF CloseTabTarget, CloseTabLeave, CloseTabClose, Holding
    <3> QED BY <2>1, <3>1, <3>2 DEF Execute, CloseTab
  <2>2. CASE Report(u)
    BY <1>0, <2>2, Processes DEF Report, Goes, browserVars
  <2>3. ~Remember(u)
    BY <1>0 DEF Remember
  <2> QED BY <1>5, <2>1, <2>2, <2>3 DEF Works
<1>6. CASE PollWake \/ PollUpdate
  BY <1>2, <1>6, Processes DEF PollWake, PollUpdate, browserVars, Following
<1>7. ~PollRead
  BY <1>0 DEF PollRead
<1>8. CASE PollAddress \/ PollTabs
  <2>1. \E place \in {"tabs", "snap", "update", "follow"} : Goes("poll", place)
    BY <1>8 DEF PollAddress, PollTabs, Follows
  <2>2. at["poll"] \in {"address", "tabs"} /\ UNCHANGED <<cmd, focus>>
    BY <1>8 DEF PollAddress, PollTabs, browserVars
  <2> QED BY <1>2, <2>1, <2>2, Processes DEF Following
<1>9. CASE PollFollow
  BY <1>0, <1>9, Processes DEF PollFollow, Goes
<1>10. CASE PollAnnounce
  BY <1>2, <1>10, Processes DEF PollAnnounce, browserVars, Following
<1>11. CASE World
  BY <1>1, <1>11 DEF World, coroutineVars, PageOpens, OpenWindow, PageGoes, WindowCloses, Without,
                     PageMutates, Mutates
<1>12. ASSUME NEW h, NEW name, Command(name, h) PROVE Goal
  BY <1>1, <1>12 DEF Command, coroutineVars, browserVars
<1>13. CASE Take
  BY <1>1, <1>13 DEF Take, coroutineVars, browserVars
<1>14. CASE UNCHANGED vars
  BY <1>1, <1>14 DEF vars, coroutineVars, browserVars
<1> QED BY <1>3, <1>4, <1>5, <1>6, <1>7, <1>8, <1>9, <1>10, <1>11, <1>12, <1>13, <1>14
        DEF Next, Polls

LEMMA CloseIsAskedFor ==
  ASSUME BrowserTabsTypes, NEW t \in Task, at'[t] = "close", at[t] # "close", [Next]_vars
  PROVE  CloseTabTarget(t) /\ UNCHANGED cmd
<1>0. at \in [Process -> Places] /\ t \in Process /\ "poll" \in Process /\ "reader" \in Process
  BY Processes DEF BrowserTabsTypes, CoroutinesOK
<1>1. ASSUME NEW p \in Process, NEW place, Goes(p, place), place # "close" PROVE FALSE
  BY <1>0, <1>1 DEF Goes
<1>2. ASSUME UNCHANGED at PROVE FALSE
  BY <1>2
<1>3. ASSUME NEW p \in Process, Snapshots(p) PROVE FALSE
  BY <1>1, <1>3 DEF Snapshots, SnapCheck, Recover, SnapSource, SnapHandle, SnapSend
<1>4. ASSUME Receive PROVE FALSE
  BY <1>0, <1>1, <1>4, Processes DEF Receive
<1>5. ASSUME NEW u \in Task, Works(u), ~(CloseTabTarget(u) /\ UNCHANGED cmd) PROVE FALSE
  <2>1. CASE Execute(u)
    BY <1>1, <1>5, <2>1, Processes DEF Execute, Fail, SwitchTab, NewTabOpens, CloseTab, CloseTabRescue,
       CloseTabClose, CloseTabLeave, Over, Calls
  <2>2. CASE Report(u) \/ Remember(u)
    BY <1>1, <2>2, Processes DEF Report, Remember
  <2> QED BY <1>5, <2>1, <2>2 DEF Works
<1>6. ASSUME NEW u \in Task, CloseTabTarget(u), u # t PROVE FALSE
  BY <1>0, <1>6, Processes DEF CloseTabTarget, Calls, Goes
<1>7. ASSUME Polls PROVE FALSE
  BY <1>0, <1>1, <1>7 DEF Polls, PollWake, PollRead, PollAddress, PollTabs, Follows, PollFollow,
     PollAnnounce, PollUpdate
<1>8. ASSUME World \/ Take PROVE FALSE
  BY <1>2, <1>8 DEF World, Take, coroutineVars
<1>9. ASSUME NEW h, NEW name, Command(name, h) PROVE FALSE
  BY <1>2, <1>9 DEF Command, coroutineVars
<1>10. ASSUME UNCHANGED vars PROVE FALSE
  BY <1>2, <1>10 DEF vars, coroutineVars
<1> QED BY <1>3, <1>4, <1>5, <1>6, <1>7, <1>8, <1>9, <1>10 DEF Next

LEMMA AskedStep ==
  ASSUME BrowserTabsTypes, CloseIsAsked, [Next]_vars
  PROVE  CloseIsAsked'
<1> SUFFICES ASSUME NEW t \in Task, at'[t] = "close" PROVE Asked(t)'
  BY DEF CloseIsAsked
<1>0. /\ at \in [Process -> Places] /\ t \in Process /\ cmd[t].handle \in 0..made
      /\ Open' \cap 1..made \subseteq Open /\ Open' \subseteq 1..made' /\ made \in Nat
  BY BrowserStep, Processes
  DEF BrowserTabsTypes, CoroutinesOK, OrdersOK, Order, OnlyNewOpen, BrowserOK
<1>1. CASE at[t] = "close"
  <2>1. Asked(t)
    BY <1>1 DEF CloseIsAsked
  <2>2. ~CloseTabClose(t)
    BY <1>0 DEF CloseTabClose, Calls, Over, Goes
  <2>3. /\ cmd'[t] = cmd[t]
        /\ \/ at'["poll"] = "announce"
           \/ UNCHANGED focus /\ (at["poll"] \in Following => at'["poll"] \in Following)
    BY <1>1, <2>2, WhileClosing
  <2>4. cmd[t].handle \notin Open => cmd[t].handle \notin Open'
    BY <1>0
  <2> QED BY <2>1, <2>3, <2>4 DEF Asked, Following
<1>2. CASE at[t] # "close"
  <2>1. CloseTabTarget(t) /\ UNCHANGED cmd
    BY <1>2, CloseIsAskedFor
  <2>2. /\ focus' = cmd[t].handle \/ cmd[t].handle \notin Open
        /\ UNCHANGED <<cmd, windows>>
    BY <2>1 DEF CloseTabTarget, SwitchToWindow
  <2> QED BY <2>2 DEF Asked, Open
<1> QED BY <1>1, <1>2

\* close_tab closes the tab asked for: between its switch and its close, both
\* under _selenium_lock (command_handler.py:441-461), only the poll loop's
\* switch to a new window comes, and then the loop waits for the lock.
THEOREM ClosesTheTabAskedFor == Spec => ClosesWhatWasAsked
<1>1. Init => CloseIsAsked
  BY Processes DEF Init, CloseIsAsked
<1>2. BrowserTabsTypes /\ CloseIsAsked /\ [Next]_vars => CloseIsAsked'
  BY AskedStep
<1>3. CloseIsAsked => \A t \in Task :
        at[t] = "close" /\ windows' # windows
        => \/ focus = cmd[t].handle
           \/ cmd[t].handle \notin Open
           \/ at["poll"] \in {"announce", "snap", "source", "recover"}
  BY DEF CloseIsAsked, Asked, Following
<1> QED BY <1>1, <1>2, <1>3, BrowserTabsTyped, PTL DEF Spec, ClosesWhatWasAsked

(* What the poll loop has told of the tabs *)

\* Where the poll loop follows a new window.
Follow == {"follow", "announce"}
PollKeeps ==
  at["poll"] \in Follow \/ at'["poll"] \in Follow =>
    at'["poll"] = at["poll"] /\ local'["poll"] = local["poll"]

LEMMA Asides ==
  ASSUME BrowserTabsTypes, [Next]_vars
  PROVE  \/ PollTabs \/ PollFollow \/ PollAnnounce
         \/ /\ UNCHANGED known /\ PollKeeps
            /\ UNCHANGED history \/ \E p \in Process : SnapSend(p)
<1>0. at \in [Process -> Places] /\ local \in [Process -> Words]
  BY DEF BrowserTabsTypes, CoroutinesOK, WordsOK
<1>1. ASSUME NEW p \in Process, NEW place, Goes(p, place), UNCHANGED local \/ \E w : Reads(p, w),
             p = "poll" => at["poll"] \notin Follow /\ place \notin Follow
      PROVE  PollKeeps
  <2>1. CASE p = "poll"
    BY <1>0, <1>1, <2>1 DEF Goes, PollKeeps
  <2>2. CASE p # "poll"
    BY <1>0, <1>1, <2>2, Processes DEF Goes, Reads, PollKeeps
  <2> QED BY <2>1, <2>2
<1>2. ASSUME UNCHANGED <<at, local>> PROVE PollKeeps
  BY <1>2 DEF PollKeeps
<1>3. ASSUME NEW p \in Process, Snapshots(p)
      PROVE  UNCHANGED known /\ PollKeeps /\ (UNCHANGED history \/ SnapSend(p))
  <2>1. CASE SnapCheck(p)
    <3>1. \E place \in {"source", "recover"} : Goes(p, place)
      BY <2>1 DEF SnapCheck
    <3> QED BY <1>1, <2>1, <3>1 DEF SnapCheck, stateVars, Follow
  <2>2. CASE Recover(p)
    BY <1>1, <2>2 DEF Recover, Follow
  <2>3. CASE SnapSource(p)
    <3>1. \E place \in {"handle", "idle"} : Goes(p, place) /\ \E w : Reads(p, w)
      BY <2>3 DEF SnapSource
    <3> QED BY <1>1, <2>3, <3>1 DEF SnapSource, stateVars, Follow
  <2>4. CASE SnapHandle(p) \/ SnapSend(p)
    BY <1>1, <2>4 DEF SnapHandle, SnapSend, stateVars, Follow
  <2> QED BY <1>3, <2>1, <2>2, <2>3, <2>4 DEF Snapshots
<1>4. ASSUME Receive PROVE UNCHANGED <<known, history>> /\ PollKeeps
  <2>1. Goes("reader", "snap") \/ \E t \in Task : Goes(t, "start")
    BY <1>4 DEF Receive
  <2> QED BY <1>1, <1>4, <2>1, Processes DEF Receive, stateVars
<1>5. ASSUME NEW t \in Task, Works(t) PROVE UNCHANGED <<known, history>> /\ PollKeeps
  <2>1. CASE Execute(t)
    <3>1. \E place \in Places : Goes(t, place)
      BY <2>1, ExecuteMoves DEF Moves
    <3>2. UNCHANGED local \/ \E w : Reads(t, w)
      BY <2>1 DEF Execute, Fail, SwitchTab, NewTabOpens, CloseTab, CloseTabRescue, CloseTabTarget,
                  CloseTabClose, CloseTabLeave, Over
    <3> QED BY <1>1, <2>1, <3>1, <3>2, Processes DEF Execute, stateVars
  <2>2. CASE Report(t) \/ Remember(t)
    BY <1>1, <2>2, Processes DEF Report, Remember, stateVars
  <2> QED BY <1>5, <2>1, <2>2 DEF Works
<1>6. ASSUME PollWake \/ PollUpdate PROVE UNCHANGED <<known, history>> /\ PollKeeps
  BY <1>1, <1>6, Processes DEF PollWake, PollUpdate, stateVars, Follow
<1>7. ASSUME PollRead \/ PollAddress PROVE UNCHANGED <<known, history>> /\ PollKeeps
  <2>1. \E place \in {"idle", "address", "tabs", "snap"} :
          Goes("poll", place) /\ (UNCHANGED local \/ \E w : Reads("poll", w))
    BY <1>7 DEF PollRead, PollAddress
  <2>2. at["poll"] \in {"awake", "address"} /\ UNCHANGED <<known, history>>
    BY <1>7 DEF PollRead, PollAddress, stateVars
  <2> QED BY <1>1, <2>1, <2>2, Processes DEF Follow
<1>8. ASSUME World \/ Take PROVE UNCHANGED <<known, history>> /\ PollKeeps
  BY <1>2, <1>8 DEF World, Take, coroutineVars, stateVars
<1>9. ASSUME NEW h, NEW name, Command(name, h) PROVE UNCHANGED <<known, history>> /\ PollKeeps
  BY <1>2, <1>9 DEF Command, coroutineVars, stateVars
<1>10. ASSUME UNCHANGED vars PROVE UNCHANGED <<known, history>> /\ PollKeeps
  <2>1. UNCHANGED coroutineVars /\ UNCHANGED stateVars /\ UNCHANGED history
    BY <1>10 DEF vars
  <2> QED BY <1>2, <2>1 DEF coroutineVars, stateVars
<1> QED BY <1>3, <1>4, <1>5, <1>6, <1>7, <1>8, <1>9, <1>10 DEF Next, Polls

\* Frames are lost to the controller only.
Grows ==
  /\ frames' \in Seq(Message)
  /\ \A i \in DOMAIN frames : i \in DOMAIN frames' /\ frames'[i] = frames[i]

LEMMA FramesGrow ==
  ASSUME BrowserTabsTypes, [Next]_vars
  PROVE  Take \/ (UNCHANGED mirrorVars /\ Grows)
<1>0. frames \in Seq(Message)
  BY DEF BrowserTabsTypes, FramesOK
<1>1. ASSUME Quietly PROVE Grows
  BY <1>0, <1>1 DEF Quietly, Grows
<1>2. ASSUME NEW m \in Message, Appends(m) PROVE Grows
  BY <1>0, <1>2 DEF Appends, Grows
<1>3. ASSUME PollTabs PROVE Grows
  <2>1. PICK new : TellsTabs(new)
    BY <1>3, TabsTold DEF BrowserTabsTypes
  <2>2. new \in Seq(Message) /\ frames' = frames \o new
    BY <2>1 DEF TellsTabs, Post
  <2> QED BY <1>0, <2>2, ConcatElements DEF Grows
<1> QED BY <1>1, <1>2, <1>3, StepKinds DEF BrowserTabsTypes, SendsSnapshot, Results, Updates, Announces

(* Which tabs the controller has *)

WillBeMirrored(h) ==
  \/ h \in Mirrored
  \/ \E i \in DOMAIN frames : frames[i].type \in {"opened", "snapshot"} /\ frames[i].handle = h
KnownIsMirrored ==
  /\ \A h \in known \cap Open :
       \/ h \in history.skipped
       \/ WillBeMirrored(h)
       \/ at["poll"] = "announce" /\ local["poll"].handle = h
  /\ at["poll"] = "follow" =>
       local["poll"].all \subseteq known \cup history.skipped \cup {local["poll"].handle}

LEMMA StaysMirrored ==
  ASSUME BrowserTabsTypes, [Next]_vars, NEW h \in Open, WillBeMirrored(h)
  PROVE  WillBeMirrored(h)'
<1>1. ASSUME UNCHANGED mirrorVars, Grows PROVE WillBeMirrored(h)'
  <2>1. Mirrored' = Mirrored
    BY <1>1 DEF mirrorVars, Mirrored
  <2> QED BY <1>1, <2>1 DEF WillBeMirrored, Grows
<1>2. CASE Take
  <2>1. /\ Mirrored' = IF frames[1].type \in {"opened", "snapshot"} THEN Mirrored \cup {frames[1].handle}
                       ELSE IF frames[1].type = "closed" THEN Mirrored \ {frames[1].handle}
                       ELSE Mirrored
        /\ Shifts
    BY <1>2, TakeHandles, TakeShifts DEF BrowserTabsTypes
  <2>2. 1 \in DOMAIN frames
    BY <2>1 DEF Shifts
  <2>3. ~(frames[1].type = "closed" /\ frames[1].handle = h)
    BY <2>2 DEF BrowserTabsTypes, FramesOK, Named
  <2>4. CASE h \in Mirrored
    BY <2>1, <2>3, <2>4 DEF WillBeMirrored
  <2>5. ASSUME NEW i \in DOMAIN frames, frames[i].type \in {"opened", "snapshot"}, frames[i].handle = h
        PROVE  WillBeMirrored(h)'
    <3>1. CASE i = 1
      BY <2>1, <2>5, <3>1 DEF WillBeMirrored
    <3>2. CASE i # 1
      <4>1. i - 1 \in DOMAIN frames' /\ (i - 1) + 1 = i
        BY <2>1, <2>5, <3>2 DEF Shifts
      <4>2. frames'[i - 1] = frames[(i - 1) + 1]
        BY <2>1, <4>1 DEF Shifts
      <4>3. frames'[i - 1] = frames[i]
        BY <4>1, <4>2, Zenon
      <4> QED BY <2>5, <4>1, <4>3 DEF WillBeMirrored
    <3> QED BY <3>1, <3>2
  <2> QED BY <2>4, <2>5 DEF WillBeMirrored
<1> QED BY <1>1, <1>2, FramesGrow

LEMMA AppendedMirrored ==
  ASSUME BrowserTabsTypes, NEW m \in Message, Appends(m), m.type \in {"opened", "snapshot"}
  PROVE  WillBeMirrored(m.handle)'
<1>1. Len(frames) + 1 \in DOMAIN frames' /\ frames'[Len(frames) + 1] = m
  BY DEF BrowserTabsTypes, FramesOK, Appends
<1> QED BY <1>1 DEF WillBeMirrored

LEMMA ToldMirrored ==
  ASSUME BrowserTabsTypes, NEW new, TellsTabs(new), TellsAll("opened", New, new), NEW h \in New
  PROVE  WillBeMirrored(h)'
<1>1. frames \in Seq(Message) /\ new \in Seq(Message) /\ frames' = frames \o new
  BY DEF BrowserTabsTypes, FramesOK, TellsTabs, Post
<1>2. PICK i \in DOMAIN new : new[i].type = "opened" /\ new[i].handle = h
  BY DEF TellsAll
<1>3. Len(frames) + i \in DOMAIN frames' /\ frames'[Len(frames) + i] = new[i]
  BY <1>1, ConcatElements
<1> QED BY <1>2, <1>3 DEF WillBeMirrored

LEMMA AnnounceOpens ==
  ASSUME BrowserTabsTypes, PollAnnounce
  PROVE  \E m \in Message : Announces(m)
<1> DEFINE m == [type |-> "opened", handle |-> local["poll"].handle]
<1>1. m \in Notice /\ m.type = "opened" /\ m.handle = local["poll"].handle
  BY Processes DEF BrowserTabsTypes, WordsOK, Words, Notice
<1>2. Post(<<m>>)
  BY DEF PollAnnounce
<1> HIDE DEF m
<1>3. m \in Message
  BY <1>1 DEF Message
<1> QED BY <1>1, <1>2, <1>3, AppendIsPost DEF Announces, Appends, BrowserTabsTypes

LEMMA KnownStep ==
  ASSUME BrowserTabsTypes, KnownIsMirrored, [Next]_vars
  PROVE  KnownIsMirrored'
<1>0. /\ at \in [Process -> Places] /\ "poll" \in Process /\ history \in Histories
      /\ known \subseteq 1..made /\ Open \subseteq 1..made /\ Open' \cap 1..made \subseteq Open
      /\ local["poll"].all \subseteq 1..made
  BY BrowserStep, Processes
  DEF BrowserTabsTypes, CoroutinesOK, StateOK, BrowserOK, OnlyNewOpen, WordsOK
<1>1. \A h \in Open : WillBeMirrored(h) => WillBeMirrored(h)'
  BY StaysMirrored
<1>2. CASE PollTabs
  <2>1. PICK new :
           /\ TellsTabs(new)
           /\ \/ /\ Follows /\ New # {} /\ history' = Listed(New \ {Last(windows)})
                 /\ TellsAll("closed", Closed, new)
              \/ /\ Goes("poll", "update") /\ UNCHANGED local /\ history' = Listed({})
                 /\ Open = {} /\ UNCHANGED <<known, frames>>
              \/ /\ Goes("poll", "update") /\ UNCHANGED local /\ history' = Listed({})
                 /\ Open # {} /\ known' = Open
                 /\ TellsAll("closed", Closed, new) /\ TellsAll("opened", New, new)
    BY <1>2, TabsTold DEF BrowserTabsTypes
  <2>2. at["poll"] \in {"tabs", "address"} /\ Open' = Open
    BY <1>2 DEF PollTabs, browserVars, Open
  <2>3. \A skipped \in SUBSET Nat : Listed(skipped).skipped = history.skipped \cup skipped
    BY <1>0, ListedOK DEF BrowserTabsTypes
  <2>4. CASE Follows /\ New # {} /\ history' = Listed(New \ {Last(windows)})
    <3>1. /\ at' = [at EXCEPT !["poll"] = "follow"] /\ known' = known
          /\ local' = [local EXCEPT !["poll"] = Has(local["poll"].page, Last(windows),
                         local["poll"].observed, local["poll"].mutated, Open)]
      BY <2>4 DEF Follows, Goes, Reads
    <3>2. local'["poll"].all = Open /\ local'["poll"].handle = Last(windows)
      BY <1>0, <3>1 DEF BrowserTabsTypes, WordsOK, Has
    <3>3. history'.skipped = history.skipped \cup (New \ {Last(windows)})
      <4>1. New \ {Last(windows)} \in SUBSET Nat
        <5>1. Open \subseteq Nat
          BY <1>0 DEF BrowserTabsTypes, BrowserOK
        <5> QED BY <5>1 DEF New
      <4> QED BY <2>3, <2>4, <4>1
    <3>4. Open \subseteq known \cup New
      BY DEF New
    <3> QED BY <1>0, <1>1, <2>2, <3>1, <3>2, <3>3, <3>4 DEF KnownIsMirrored
  <2>5. CASE Goes("poll", "update") /\ history' = Listed({}) /\ Open = {} /\ UNCHANGED known
    BY <1>0, <2>2, <2>5 DEF KnownIsMirrored, Goes
  <2>6. CASE /\ Goes("poll", "update") /\ history' = Listed({})
             /\ known' = Open /\ TellsAll("opened", New, new)
    <3>1. history'.skipped = history.skipped
      BY <2>3, <2>6
    <3>2. at'["poll"] = "update" /\ at["poll"] # "announce"
      BY <1>0, <2>2, <2>6 DEF Goes
    <3>3. \A h \in New : WillBeMirrored(h)'
      BY <2>1, <2>6, ToldMirrored
    <3> QED BY <1>0, <1>1, <2>2, <2>6, <3>1, <3>2, <3>3 DEF KnownIsMirrored, New
  <2> QED BY <2>1, <2>4, <2>5, <2>6
<1>3. CASE PollFollow
  <2>1. /\ at["poll"] = "follow" /\ at'["poll"] = "announce" /\ known' = local["poll"].all
        /\ UNCHANGED local /\ UNCHANGED history
    BY <1>0, <1>3 DEF PollFollow, Goes
  <2> QED BY <1>0, <1>1, <2>1 DEF KnownIsMirrored
<1>4. CASE PollAnnounce
  <2>1. /\ at["poll"] = "announce" /\ at'["poll"] = "snap" /\ UNCHANGED known /\ UNCHANGED history
    BY <1>0, <1>4 DEF PollAnnounce, Goes
  <2>2. PICK h : h = local["poll"].handle /\ WillBeMirrored(h)'
    <3>1. PICK m \in Message : Announces(m)
      BY <1>4, AnnounceOpens
    <3>2. Appends(m) /\ m.type = "opened" /\ m.handle = local["poll"].handle
      BY <3>1 DEF Announces
    <3>3. WillBeMirrored(m.handle)'
      BY <3>2, AppendedMirrored
    <3> QED BY <3>2, <3>3
  <2> QED BY <1>0, <1>1, <2>1, <2>2 DEF KnownIsMirrored
<1>5. CASE UNCHANGED known /\ PollKeeps /\ (UNCHANGED history \/ \E p \in Process : SnapSend(p))
  <2>1. history'.skipped = history.skipped
    <3>1. ASSUME NEW p \in Process, SnapSend(p) PROVE history'.skipped = history.skipped
      <4>1. local[p].handle \in Nat
        BY DEF BrowserTabsTypes, WordsOK, Words
      <4> QED BY <1>0, <3>1, <4>1, SentOK DEF SnapSend
    <3> QED BY <1>5, <3>1
  <2> QED BY <1>0, <1>1, <1>5, <2>1 DEF KnownIsMirrored, PollKeeps, Follow
<1> QED BY <1>2, <1>3, <1>4, <1>5, Asides

\* An open tab is mirrored once everything is quiet, unless it opened together
\* with a newer one: what the poll loop counts as known it has told of, tells
\* of next, or skipped (worker.py:489-518).
THEOREM OnlySkippedAreMissing == Spec => []MissingWereSkipped
<1>1. Init => KnownIsMirrored
  BY Processes DEF Init, KnownIsMirrored
<1>2. BrowserTabsTypes /\ KnownIsMirrored /\ [Next]_vars => KnownIsMirrored'
  BY KnownStep
<1>3. KnownIsMirrored => MissingWereSkipped
  BY Processes DEF KnownIsMirrored, MissingWereSkipped, Quiet, WillBeMirrored
<1> QED BY <1>1, <1>2, <1>3, BrowserTabsTyped, PTL DEF Spec

\* Of a tab nothing more comes after it is closed.
Brings(m, h) == m.type \in {"opened", "snapshot"} /\ m.handle = h
Removes(m, h) == m.type = "closed" /\ m.handle = h
WillBeGone(h) ==
  \/ h \notin Mirrored /\ \A i \in DOMAIN frames : ~Brings(frames[i], h)
  \/ \E k \in DOMAIN frames :
       Removes(frames[k], h) /\ \A i \in DOMAIN frames : i > k => ~Brings(frames[i], h)
Dropped(h) == h \notin Open /\ (h \in history.dead \/ WillBeGone(h))
ListedIsDropped ==
  /\ Dropped(NoHandle)
  /\ \A h \in history.listed :
       h \in known \/ Dropped(h) \/ (at["poll"] = "follow" /\ h \in local["poll"].all)
  /\ at["poll"] = "follow" =>
       /\ local["poll"].handle \in local["poll"].all
       /\ \A h \in known \ local["poll"].all : Dropped(h)
  /\ at["poll"] = "announce" => local["poll"].handle \in known

LEMMA GoneGrows ==
  ASSUME BrowserTabsTypes, NEW h, WillBeGone(h), UNCHANGED mirrorVars, Grows,
         \A i \in DOMAIN frames' \ DOMAIN frames : ~Brings(frames'[i], h)
  PROVE  WillBeGone(h)'
<1>1. Mirrored' = Mirrored
  BY DEF mirrorVars, Mirrored
<1>2. CASE h \notin Mirrored /\ \A i \in DOMAIN frames : ~Brings(frames[i], h)
  BY <1>1, <1>2 DEF WillBeGone, Grows
<1>3. ASSUME NEW k \in DOMAIN frames, Removes(frames[k], h),
             \A i \in DOMAIN frames : i > k => ~Brings(frames[i], h)
      PROVE  WillBeGone(h)'
  BY <1>3 DEF WillBeGone, Grows
<1> QED BY <1>2, <1>3 DEF WillBeGone

LEMMA GoneTaken ==
  ASSUME BrowserTabsTypes, NEW h, WillBeGone(h), Take
  PROVE  WillBeGone(h)'
<1>1. /\ Mirrored' = IF frames[1].type \in {"opened", "snapshot"} THEN Mirrored \cup {frames[1].handle}
                     ELSE IF frames[1].type = "closed" THEN Mirrored \ {frames[1].handle}
                     ELSE Mirrored
      /\ Shifts
  BY TakeHandles, TakeShifts DEF BrowserTabsTypes
<1>2. 1 \in DOMAIN frames
  BY <1>1 DEF Shifts
<1>3. CASE h \notin Mirrored /\ \A i \in DOMAIN frames : ~Brings(frames[i], h)
  <2>1. h \notin Mirrored'
    BY <1>1, <1>2, <1>3 DEF Brings
  <2>2. \A i \in DOMAIN frames' : ~Brings(frames'[i], h)
    BY <1>1, <1>3 DEF Shifts
  <2> QED BY <2>1, <2>2 DEF WillBeGone
<1>4. ASSUME NEW k \in DOMAIN frames, Removes(frames[k], h),
             \A i \in DOMAIN frames : i > k => ~Brings(frames[i], h)
      PROVE  WillBeGone(h)'
  <2>1. CASE k = 1
    <3>1. h \notin Mirrored'
      BY <1>1, <1>4, <2>1 DEF Removes
    <3>2. ASSUME NEW i \in DOMAIN frames' PROVE ~Brings(frames'[i], h)
      <4>1. i + 1 \in DOMAIN frames /\ frames'[i] = frames[i + 1] /\ i + 1 > k
        BY <1>1, <2>1 DEF Shifts
      <4> QED BY <1>4, <4>1
    <3> QED BY <3>1, <3>2 DEF WillBeGone
  <2>2. CASE k # 1
    <3>1. k - 1 \in DOMAIN frames' /\ (k - 1) + 1 = k
      BY <1>1, <2>2 DEF Shifts
    <3>2. frames'[k - 1] = frames[(k - 1) + 1]
      BY <1>1, <3>1 DEF Shifts
    <3>3. Removes(frames'[k - 1], h)
      BY <1>4, <3>1, <3>2, Zenon
    <3>4. ASSUME NEW i \in DOMAIN frames', i > k - 1 PROVE ~Brings(frames'[i], h)
      <4>1. i + 1 \in DOMAIN frames /\ frames'[i] = frames[i + 1] /\ i + 1 > k
        BY <1>1, <3>4 DEF Shifts
      <4> QED BY <1>4, <4>1
    <3> QED BY <3>1, <3>3, <3>4 DEF WillBeGone
  <2> QED BY <2>1, <2>2
<1> QED BY <1>3, <1>4 DEF WillBeGone

LEMMA GoneTold ==
  ASSUME BrowserTabsTypes, NEW new, TellsTabs(new), TellsAll("closed", Closed, new), NEW h \in Closed
  PROVE  WillBeGone(h)'
<1>1. frames \in Seq(Message) /\ new \in Seq(Message) /\ frames' = frames \o new
  BY DEF BrowserTabsTypes, FramesOK, TellsTabs, Post
<1>2. PICK k \in DOMAIN new : Removes(new[k], h)
  BY DEF TellsAll, Removes
<1>3. /\ Len(frames) + k \in DOMAIN frames' /\ frames'[Len(frames) + k] = new[k]
      /\ DOMAIN frames = 1..Len(frames) /\ Len(frames) \in Nat /\ k \in Nat
      /\ \A i \in DOMAIN new : frames'[Len(frames) + i] = new[i]
      /\ \A i \in DOMAIN frames' : i \in DOMAIN frames \/ \E j \in DOMAIN new : i = Len(frames) + j
  BY <1>1, ConcatElements
<1>4. \A i \in DOMAIN new : ~Brings(new[i], h)
  BY DEF TellsTabs, Brings, Closed, New
<1>5. ASSUME NEW i \in DOMAIN frames', i > Len(frames) + k PROVE ~Brings(frames'[i], h)
  <2>1. i \notin DOMAIN frames
    BY <1>3, <1>5
  <2> QED BY <1>3, <1>4, <2>1
<1> QED BY <1>2, <1>3, <1>5 DEF WillBeGone

LEMMA DroppedStays ==
  ASSUME BrowserTabsTypes, [Next]_vars, NEW h \in 0..made, Dropped(h),
         PollAnnounce => local["poll"].handle # h
  PROVE  Dropped(h)'
<1>0. /\ history \in Histories /\ frames \in Seq(Message) /\ made \in Nat
      /\ \A p \in Process : local[p].handle \in Nat
  BY DEF BrowserTabsTypes, StateOK, FramesOK, BrowserOK, WordsOK, Words
<1>1. h \notin Open'
  BY BrowserStep DEF BrowserTabsTypes, BrowserOK, OnlyNewOpen, Dropped
<1>2. ASSUME NEW p \in Process, SnapSend(p) PROVE h \in history.dead \/ h = local[p].handle => h \in history'.dead
  BY <1>0, <1>2, SentOK DEF SnapSend, Dropped
<1>3. h \in history.dead => h \in history'.dead
  <2>1. CASE PollTabs
    <3>1. PICK skipped \in SUBSET Open : history' = Listed(skipped)
      BY <1>0, <2>1, TabsListed DEF BrowserTabsTypes
    <3>2. skipped \in SUBSET Nat
      BY <1>0 DEF BrowserTabsTypes, BrowserOK
    <3> QED BY <1>0, <3>1, <3>2, ListedOK DEF BrowserTabsTypes
  <2>2. CASE PollFollow \/ PollAnnounce
    BY <2>2 DEF PollFollow, PollAnnounce
  <2> QED BY <1>2, <2>1, <2>2, Asides
<1>4. ASSUME WillBeGone(h) PROVE WillBeGone(h)' \/ h \in history'.dead
  <2>1. CASE Take
    BY <1>4, <2>1, GoneTaken
  <2>2. ASSUME NEW m \in Message, Appends(m), ~Brings(m, h), UNCHANGED mirrorVars PROVE WillBeGone(h)'
    <3>1. Grows /\ \A i \in DOMAIN frames' \ DOMAIN frames : frames'[i] = m
      BY <1>0, <2>2 DEF Appends, Grows
    <3> QED BY <1>4, <2>2, <3>1, GoneGrows
  <2>3. CASE Quietly /\ UNCHANGED mirrorVars
    BY <1>0, <1>4, <2>3, GoneGrows DEF Quietly, Grows
  <2>4. CASE PollTabs /\ UNCHANGED mirrorVars
    <3>1. PICK new : TellsTabs(new)
      BY <2>4, TabsTold DEF BrowserTabsTypes
    <3>2. new \in Seq(Message) /\ frames' = frames \o new
      BY <3>1 DEF TellsTabs, Post
    <3>3. /\ Grows /\ \A i \in DOMAIN new : frames'[Len(frames) + i] = new[i]
          /\ \A i \in DOMAIN frames' : i \in DOMAIN frames \/ \E k \in DOMAIN new : i = Len(frames) + k
      BY <1>0, <3>2, ConcatElements DEF Grows
    <3>4. \A i \in DOMAIN new : ~Brings(new[i], h)
      BY <3>1 DEF TellsTabs, Brings, New, Dropped
    <3>5. \A i \in DOMAIN frames' \ DOMAIN frames : ~Brings(frames'[i], h)
      BY <3>3, <3>4
    <3> QED BY <1>4, <2>4, <3>3, <3>5, GoneGrows
  <2>5. ASSUME NEW m \in Message, NEW p \in Process, SendsSnapshot(p, m), UNCHANGED mirrorVars
        PROVE  WillBeGone(h)' \/ h \in history'.dead
    <3>1. CASE m.handle = h
      BY <1>2, <2>5, <3>1 DEF SendsSnapshot
    <3>2. CASE m.handle # h
      BY <2>2, <2>5, <3>2 DEF SendsSnapshot, Brings
    <3> QED BY <3>1, <3>2
  <2>6. ASSUME NEW m \in Message, NEW t \in Task, Results(t, m), UNCHANGED mirrorVars
        PROVE  WillBeGone(h)'
    BY <2>2, <2>6 DEF Results, Brings
  <2>7. ASSUME NEW m \in Message, Updates(m), UNCHANGED mirrorVars PROVE WillBeGone(h)'
    BY <2>2, <2>7, TypesDisjoint DEF Updates, Brings
  <2>8. ASSUME NEW m \in Message, Announces(m), UNCHANGED mirrorVars PROVE WillBeGone(h)'
    BY <2>2, <2>8 DEF Announces, Brings
  <2> QED BY <2>1, <2>3, <2>4, <2>5, <2>6, <2>7, <2>8, StepKinds DEF BrowserTabsTypes
<1> QED BY <1>1, <1>3, <1>4 DEF Dropped

LEMMA ListedStep ==
  ASSUME BrowserTabsTypes, ListedIsDropped, [Next]_vars
  PROVE  ListedIsDropped'
<1>0. /\ at \in [Process -> Places] /\ local \in [Process -> Words] /\ "poll" \in Process
      /\ history \in Histories /\ made \in Nat
      /\ known \subseteq 1..made /\ Open \subseteq 1..made /\ history.listed \subseteq 1..made
      /\ local["poll"].all \subseteq 1..made
      /\ at["poll"] = "announce" => local["poll"].handle # NoHandle
  BY Processes DEF BrowserTabsTypes, CoroutinesOK, StateOK, BrowserOK, WordsOK, PollKnows
<1>1. ASSUME NEW h \in 0..made, Dropped(h), PollAnnounce => local["poll"].handle # h
      PROVE  Dropped(h)'
  BY <1>1, DroppedStays
<1>2. Dropped(NoHandle)'
  BY <1>0, <1>1 DEF ListedIsDropped, NoHandle, PollAnnounce
<1>3. \A h \in 1..made : Dropped(h) /\ (PollAnnounce => local["poll"].handle # h) => Dropped(h)'
  BY <1>0, <1>1
<1>4. CASE PollTabs
  <2>1. PICK new :
           /\ TellsTabs(new)
           /\ \/ /\ Follows /\ New # {} /\ history' = Listed(New \ {Last(windows)})
                 /\ TellsAll("closed", Closed, new)
              \/ /\ Goes("poll", "update") /\ UNCHANGED local /\ history' = Listed({})
                 /\ Open = {} /\ UNCHANGED <<known, frames>>
              \/ /\ Goes("poll", "update") /\ UNCHANGED local /\ history' = Listed({})
                 /\ Open # {} /\ known' = Open
                 /\ TellsAll("closed", Closed, new) /\ TellsAll("opened", New, new)
    BY <1>4, TabsTold DEF BrowserTabsTypes
  <2>2. at["poll"] \in {"tabs", "address"} /\ Open' = Open /\ ~PollAnnounce
    BY <1>4 DEF PollTabs, browserVars, Open, PollAnnounce
  <2>3. history'.listed = history.listed \cup Open
    <3>1. New \ {Last(windows)} \in SUBSET Nat /\ {} \in SUBSET Nat
      <4>1. Open \subseteq Nat
        BY <1>0
      <4> QED BY <4>1 DEF New
    <3> QED BY <1>0, <2>1, <3>1, ListedOK DEF BrowserTabsTypes
  <2>4. ASSUME TellsAll("closed", Closed, new) PROVE \A h \in Closed : Dropped(h)'
    <3>1. \A h \in Closed : WillBeGone(h)' /\ h \notin Open'
      BY <2>1, <2>2, <2>4, GoneTold DEF Closed
    <3> QED BY <3>1 DEF Dropped
  <2>5. CASE Follows /\ New # {} /\ TellsAll("closed", Closed, new)
    <3>1. /\ at' = [at EXCEPT !["poll"] = "follow"] /\ known' = known
          /\ local' = [local EXCEPT !["poll"] = Has(local["poll"].page, Last(windows),
                         local["poll"].observed, local["poll"].mutated, Open)]
      BY <2>5 DEF Follows, Goes, Reads
    <3>2. local'["poll"].all = Open /\ local'["poll"].handle = Last(windows)
      BY <1>0, <3>1 DEF Has
    <3>3. Last(windows) \in Open
      BY <2>5, NewestIsOpen DEF New, BrowserTabsTypes
    <3>4. at'["poll"] = "follow"
      BY <1>0, <3>1
    <3> QED BY <1>0, <1>2, <1>3, <2>2, <2>3, <2>4, <2>5, <3>1, <3>2, <3>3, <3>4
            DEF ListedIsDropped, Closed
  <2>6. CASE Goes("poll", "update") /\ Open = {} /\ UNCHANGED known
    <3>1. at'["poll"] = "update"
      BY <1>0, <2>6 DEF Goes
    <3> QED BY <1>0, <1>2, <1>3, <2>2, <2>3, <2>6, <3>1 DEF ListedIsDropped
  <2>7. CASE Goes("poll", "update") /\ known' = Open /\ TellsAll("closed", Closed, new)
    <3>1. at'["poll"] = "update"
      BY <1>0, <2>7 DEF Goes
    <3> QED BY <1>0, <1>2, <1>3, <2>2, <2>3, <2>4, <2>7, <3>1 DEF ListedIsDropped, Closed
  <2> QED BY <2>1, <2>5, <2>6, <2>7
<1>5. CASE PollFollow
  <2>1. /\ at["poll"] = "follow" /\ at'["poll"] = "announce" /\ known' = local["poll"].all
        /\ UNCHANGED local /\ UNCHANGED history /\ ~PollAnnounce
    BY <1>0, <1>5 DEF PollFollow, PollAnnounce, Goes
  <2> QED BY <1>0, <1>2, <1>3, <2>1 DEF ListedIsDropped
<1>6. CASE PollAnnounce
  <2>1. /\ at["poll"] = "announce" /\ at'["poll"] = "snap" /\ UNCHANGED known /\ UNCHANGED history
    BY <1>0, <1>6 DEF PollAnnounce, Goes
  <2> QED BY <1>0, <1>2, <1>3, <2>1 DEF ListedIsDropped
<1>7. CASE ~PollAnnounce /\ UNCHANGED known /\ PollKeeps
           /\ (UNCHANGED history \/ \E p \in Process : SnapSend(p))
  <2>1. history'.listed = history.listed
    <3>1. ASSUME NEW p \in Process, SnapSend(p) PROVE history'.listed = history.listed
      <4>1. local[p].handle \in Nat
        BY <1>0 DEF Words
      <4> QED BY <1>0, <3>1, <4>1, SentOK DEF SnapSend
    <3> QED BY <1>7, <3>1
  <2> QED BY <1>0, <1>2, <1>3, <1>7, <2>1 DEF ListedIsDropped, PollKeeps, Follow
<1> QED BY <1>4, <1>5, <1>6, <1>7, Asides

\* A tab that has gone is forgotten once everything is quiet, unless the poll
\* loop never listed it or a snapshot of it was sent after it had gone: what
\* the loop no longer knows it has said to be closed (worker.py:489-518).
THEOREM OnlyMissedStay == Spec => []GhostsWereMissed
<1>1. Init => ListedIsDropped
  <2> SUFFICES ASSUME Init PROVE ListedIsDropped
    OBVIOUS
  <2>1. WillBeGone(NoHandle)
    BY DEF Init, MirrorInit, Mirrored, WillBeGone, Brings, NoHandle
  <2>2. NoHandle \notin Open
    BY TypesInit DEF BrowserTabsTypes, BrowserOK, NoHandle
  <2> QED BY <2>1, <2>2, Processes DEF Init, NoHistory, Past, ListedIsDropped, Dropped
<1>2. BrowserTabsTypes /\ ListedIsDropped /\ [Next]_vars => ListedIsDropped'
  BY ListedStep
<1>3. BrowserTabsTypes /\ ListedIsDropped => GhostsWereMissed
  <2> SUFFICES ASSUME BrowserTabsTypes, ListedIsDropped, Quiet, IsAlive,
                      NEW h \in Mirrored \ Open, h \in history.listed \/ h \notin Handle
               PROVE  h \in history.dead
    BY DEF GhostsWereMissed
  <2>1. h \in 0..made /\ made <= MaxHandle /\ made \in Nat /\ MaxHandle \in Nat
    BY BrowserAssumption DEF BrowserTabsTypes, BrowserOK, MirrorOK, TabsOK, Handles, Mirrored
  <2>2. frames = <<>> /\ known = Open /\ at["poll"] = "idle"
    BY Processes DEF Quiet
  <2>3. Dropped(h)
    BY <2>1, <2>2 DEF ListedIsDropped, Handle, NoHandle
  <2>4. ~WillBeGone(h)
    BY <2>2 DEF WillBeGone
  <2> QED BY <2>3, <2>4 DEF Dropped
<1> QED BY <1>1, <1>2, <1>3, BrowserTabsTyped, PTL DEF Spec

(* Which tab the controller shows *)

\* Where a coroutine may move the driver, or is on its way to send a snapshot.
Busy == {"snap", "recover", "source", "handle", "send", "target", "close", "leave", "report", "reread"}
Sending == at["poll"] = "announce" \/ \E p \in Process : at[p] \in Busy
KeepsActive(m, h) == m.type # "snapshot" /\ (m.type = "result" => m.handle \in {0, h})
SnapshotOf(m, h) == m.type = "snapshot" /\ m.handle = h
\* The frames on their way make h the active tab.
Lands(h) ==
  \/ active = h /\ \A i \in DOMAIN frames : KeepsActive(frames[i], h)
  \/ \E k \in DOMAIN frames :
       SnapshotOf(frames[k], h) /\ \A i \in DOMAIN frames : i > k => KeepsActive(frames[i], h)
FocusLands == IsAlive /\ ~history.late /\ ~Sending => Lands(focus)

LEMMA GoesSending ==
  ASSUME BrowserTabsTypes, NEW p \in Process, NEW place \in Busy, Goes(p, place)
  PROVE  Sending'
BY DEF BrowserTabsTypes, CoroutinesOK, Goes, Sending

LEMMA OthersSend ==
  ASSUME BrowserTabsTypes, Sending, NEW p \in Process, NEW place, Goes(p, place), at[p] \notin Busy,
         p = "poll" => at["poll"] # "announce"
  PROVE  Sending'
<1>1. at \in [Process -> Places] /\ at' = [at EXCEPT ![p] = place] /\ "poll" \in Process
  BY Processes DEF BrowserTabsTypes, CoroutinesOK, Goes
<1>2. CASE at["poll"] = "announce"
  BY <1>1, <1>2 DEF Sending
<1>3. ASSUME NEW q \in Process, at[q] \in Busy PROVE Sending'
  <2>1. at'[q] = at[q]
    BY <1>1, <1>3
  <2> QED BY <1>3, <2>1 DEF Sending
<1> QED BY <1>2, <1>3 DEF Sending

\* A command goes on to tell its result, and then to a snapshot.
LEMMA CommandsSend ==
  ASSUME BrowserTabsTypes, NEW t \in Task, Works(t)
  PROVE  Sending'
<1>0. t \in Process
  BY Processes
<1>1. \E place \in Busy : Goes(t, place)
  <2>1. CASE Fail(t) \/ SwitchTab(t) \/ NewTabOpens(t)
    BY <2>1 DEF Fail, SwitchTab, NewTabOpens, Over, Busy
  <2>2. CASE CloseTabRescue(t) \/ CloseTabTarget(t)
    BY <2>2 DEF CloseTabRescue, CloseTabTarget, Calls, Busy
  <2>3. CASE CloseTabClose(t) \/ CloseTabLeave(t)
    BY <2>3 DEF CloseTabClose, CloseTabLeave, Calls, Over, Busy
  <2>4. CASE Report(t) \/ Remember(t)
    BY <2>4 DEF Report, Remember, Busy
  <2> QED BY <2>1, <2>2, <2>3, <2>4 DEF Works, Execute, CloseTab
<1> QED BY <1>0, <1>1, GoesSending

\* Nobody is on the way to send a snapshot before the step, nor after it.
Calmly ==
  /\ UNCHANGED <<focus, lastPage, ver, history>> /\ Quietly /\ UNCHANGED mirrorVars

LEMMA CalmSteps ==
  ASSUME BrowserTabsTypes, [Next]_vars, ~Sending'
  PROVE  \/ \E p \in Process : Snapshots(p)
         \/ Take \/ PollTabs \/ PollAddress \/ PollUpdate \/ Calmly
<1>0. "poll" \in Process /\ "reader" \in Process /\ at \in [Process -> Places]
  BY Processes DEF BrowserTabsTypes, CoroutinesOK
<1>1. \A t \in Task : ~Works(t)
  BY CommandsSend
<1>2. CASE PollFollow
  <2>1. at' = [at EXCEPT !["poll"] = "announce"]
    BY <1>2 DEF PollFollow, Goes
  <2> QED BY <1>0, <2>1 DEF Sending
<1>3. CASE PollAnnounce
  BY <1>0, <1>3, GoesSending DEF PollAnnounce, Busy
<1>4. CASE PollWake \/ PollRead
  <2>1. UNCHANGED focus
    BY <1>4 DEF PollWake, PollRead, browserVars, Drain
  <2>2. UNCHANGED stateVars /\ UNCHANGED netVars /\ UNCHANGED history /\ UNCHANGED mirrorVars
    BY <1>4 DEF PollWake, PollRead
  <2> QED BY <2>1, <2>2 DEF stateVars, pageOfVars, netVars, Calmly, Quietly
<1>5. CASE World
  BY <1>5 DEF World, PageOpens, PageGoes, PageMutates, OpenWindow, WindowCloses, Without, Mutates,
              stateVars, pageOfVars, netVars, Calmly, Quietly
<1>6. CASE Receive
  BY <1>6 DEF Receive, browserVars, stateVars, pageOfVars, Calmly, Quietly
<1>7. ASSUME NEW h, NEW name, Command(name, h) PROVE Calmly
  BY <1>7 DEF Command, browserVars, stateVars, pageOfVars, Calmly, Quietly
<1>8. CASE UNCHANGED vars
  <2>1. UNCHANGED browserVars /\ UNCHANGED stateVars /\ UNCHANGED netVars /\ UNCHANGED history
        /\ UNCHANGED mirrorVars
    BY <1>8 DEF vars
  <2> QED BY <2>1 DEF browserVars, stateVars, pageOfVars, netVars, Calmly, Quietly
<1> QED BY <1>1, <1>2, <1>3, <1>4, <1>5, <1>6, <1>7, <1>8 DEF Next, Polls

LEMMA SnapshotsSend ==
  ASSUME BrowserTabsTypes, NEW p \in Process, Snapshots(p), IsAlive', ~Sending'
  PROVE  SnapSend(p)
<1>1. ~SnapCheck(p)
  BY GoesSending DEF SnapCheck, Busy
<1>2. ~Recover(p)
  BY GoesSending DEF Recover, Busy
<1>3. ~SnapHandle(p)
  BY GoesSending DEF SnapHandle, Busy
<1>4. ASSUME SnapSource(p) PROVE FALSE
  <2>1. IsAlive' <=> IsAlive
    BY <1>4 DEF SnapSource, browserVars, IsAlive, Open
  <2> QED BY <1>4, <2>1, GoesSending DEF SnapSource, Busy
<1> QED BY <1>1, <1>2, <1>3, <1>4 DEF Snapshots

\* The last of those under way is a snapshot's sender.
LEMMA SendingEnds ==
  ASSUME BrowserTabsTypes, [Next]_vars, Sending, IsAlive', ~Sending'
  PROVE  \E p \in Process : SnapSend(p)
<1>0. "poll" \in Process /\ "reader" \in Process /\ Task \subseteq Process
  BY Processes
<1>1. ASSUME UNCHANGED at PROVE FALSE
  BY <1>1 DEF Sending
<1>2. ASSUME World \/ Take \/ UNCHANGED vars PROVE FALSE
  BY <1>1, <1>2 DEF World, Take, vars, coroutineVars
<1>3. ASSUME NEW h, NEW name, Command(name, h) PROVE FALSE
  BY <1>1, <1>3 DEF Command, coroutineVars
<1>4. ASSUME Receive PROVE FALSE
  <2>1. \/ at["reader"] = "idle" /\ Goes("reader", "snap")
        \/ \E t \in Task : at[t] = "idle" /\ Goes(t, "start")
    BY <1>4 DEF Receive
  <2>2. ASSUME NEW p \in Process, at[p] = "idle", NEW place, Goes(p, place) PROVE FALSE
    BY <2>2, OthersSend DEF Busy
  <2> QED BY <1>0, <2>1, <2>2
<1>5. ASSUME NEW t \in Task, Works(t) PROVE FALSE
  BY <1>5, CommandsSend
<1>6. ASSUME PollWake \/ PollRead \/ PollAddress \/ PollTabs \/ PollUpdate PROVE FALSE
  <2>1. /\ at["poll"] \in {"idle", "awake", "address", "tabs", "update"}
        /\ \E place : Goes("poll", place)
    BY <1>6 DEF PollWake, PollRead, PollAddress, PollTabs, PollUpdate, Follows
  <2> QED BY <1>0, <2>1, OthersSend DEF Busy
<1>7. ASSUME PollFollow PROVE FALSE
  <2>1. at["poll"] = "follow" /\ Goes("poll", "announce")
    BY <1>7 DEF PollFollow
  <2> QED BY <1>0, <2>1, OthersSend DEF Busy
<1>8. ASSUME PollAnnounce PROVE FALSE
  BY <1>0, <1>8, GoesSending DEF PollAnnounce, Busy
<1> QED BY <1>2, <1>3, <1>4, <1>5, <1>6, <1>7, <1>8, SnapshotsSend DEF Next, Polls

\* Only what a snapshot of focus changed: the driver stays and was not lost.
LEMMA CalmBefore ==
  ASSUME BrowserTabsTypes, [Next]_vars, IsAlive', ~Sending, ~Sending'
  PROVE  /\ Take \/ PollTabs \/ PollAddress \/ PollUpdate \/ Calmly
         /\ focus' = focus /\ IsAlive
         /\ history'.late = history.late /\ history'.mixed = history.mixed
<1>1. Take \/ PollTabs \/ PollAddress \/ PollUpdate \/ Calmly
  BY CalmSteps, SnapshotsSend DEF SnapSend, Sending, Busy
<1>2. focus' = focus
  BY <1>1 DEF Take, PollTabs, PollAddress, PollUpdate, Calmly, browserVars
<1>3. history'.late = history.late /\ history'.mixed = history.mixed
  <2>1. CASE PollTabs
    <3>1. PICK skipped \in SUBSET Open : history' = Listed(skipped)
      BY <2>1, TabsListed DEF BrowserTabsTypes, StateOK
    <3>2. skipped \in SUBSET Nat
      BY DEF BrowserTabsTypes, BrowserOK
    <3> QED BY <3>1, <3>2, ListedOK DEF BrowserTabsTypes, StateOK
  <2> QED BY <1>1, <2>1 DEF Take, PollAddress, PollUpdate, Calmly
<1>4. IsAlive
  BY <1>2, BrowserStep DEF BrowserTabsTypes, BrowserOK, OnlyNewOpen, IsAlive
<1> QED BY <1>1, <1>2, <1>3, <1>4

LEMMA TabsAppended ==
  ASSUME BrowserTabsTypes, PollTabs
  PROVE  Grows /\ \A i \in DOMAIN frames' \ DOMAIN frames : frames'[i].type \in {"opened", "closed"}
<1>1. PICK new : TellsTabs(new)
  BY TabsTold DEF BrowserTabsTypes
<1>2. frames \in Seq(Message) /\ new \in Seq(Message) /\ frames' = frames \o new
  BY <1>1 DEF TellsTabs, Post, BrowserTabsTypes, FramesOK
<1>3. /\ Grows /\ \A i \in DOMAIN new : frames'[Len(frames) + i] = new[i]
      /\ \A i \in DOMAIN frames' : i \in DOMAIN frames \/ \E k \in DOMAIN new : i = Len(frames) + k
  BY <1>2, ConcatElements DEF Grows
<1> QED BY <1>1, <1>3 DEF TellsTabs

\* What comes after the frames that are on their way.
LEMMA NewFrames ==
  ASSUME BrowserTabsTypes, [Next]_vars
  PROVE  \/ Take
         \/ PollTabs /\ UNCHANGED mirrorVars /\ Grows
            /\ \A i \in DOMAIN frames' \ DOMAIN frames : frames'[i].type \in {"opened", "closed"}
         \/ Quietly /\ UNCHANGED mirrorVars
         \/ /\ UNCHANGED mirrorVars /\ Grows
            /\ \E m \in Message :
                 /\ \A i \in DOMAIN frames' \ DOMAIN frames : frames'[i] = m /\ i = Len(frames) + 1
                 /\ \/ \E p \in Process : SendsSnapshot(p, m)
                    \/ \E t \in Task : Results(t, m)
                    \/ Updates(m) \/ Announces(m)
<1>0. frames \in Seq(Message)
  BY DEF BrowserTabsTypes, FramesOK
<1>1. ASSUME NEW m \in Message, Appends(m)
      PROVE  Grows /\ \A i \in DOMAIN frames' \ DOMAIN frames : frames'[i] = m /\ i = Len(frames) + 1
  BY <1>0, <1>1 DEF Appends, Grows
<1>2. \A m \in Message :
        (\E p \in Process : SendsSnapshot(p, m)) \/ (\E t \in Task : Results(t, m)) \/ Updates(m)
          \/ Announces(m) => Appends(m)
  BY DEF SendsSnapshot, Results, Updates, Announces
<1> QED BY <1>1, <1>2, TabsAppended, StepKinds DEF BrowserTabsTypes

LEMMA LandsGrows ==
  ASSUME NEW h, Lands(h), UNCHANGED active, Grows,
         \A i \in DOMAIN frames' \ DOMAIN frames : KeepsActive(frames'[i], h)
  PROVE  Lands(h)'
<1>1. CASE active = h /\ \A i \in DOMAIN frames : KeepsActive(frames[i], h)
  BY <1>1 DEF Lands, Grows
<1>2. ASSUME NEW k \in DOMAIN frames, SnapshotOf(frames[k], h),
             \A i \in DOMAIN frames : i > k => KeepsActive(frames[i], h)
      PROVE  Lands(h)'
  BY <1>2 DEF Lands, Grows
<1> QED BY <1>1, <1>2 DEF Lands

LEMMA LandsTaken ==
  ASSUME BrowserTabsTypes, NEW h \in Open, Lands(h), Take
  PROVE  Lands(h)'
<1>0. /\ Shifts /\ frames[1] \in Message /\ frames[1].handle \in 0..made /\ Shown1(frames[1])
      /\ 1 \in DOMAIN frames /\ h \in 1..made /\ made \in Nat /\ MirrorOK
      /\ Named(frames[1], made, Open)
  BY TakeShifts DEF BrowserTabsTypes, Shifts, BrowserOK, FramesOK
<1> DEFINE m == frames[1]
<1>1. CASE active = h /\ \A i \in DOMAIN frames : KeepsActive(frames[i], h)
  <2>1. KeepsActive(m, h)
    BY <1>0, <1>1
  <2>2. ASSUME m.type = "opened" PROVE active' = h
    <3>1. TabOpened(m.handle)
      BY <1>0, <2>2 DEF Shown1
    <3>2. active # 0
      BY <1>0, <1>1
    <3> QED BY <1>1, <3>1, <3>2 DEF TabOpened
  <2>3. ASSUME m.type = "closed" PROVE active' = h
    <3>1. TabClosed(m.handle) /\ m.handle \notin Open
      BY <1>0, <2>3 DEF Shown1, Named
    <3> QED BY <1>1, <3>1 DEF TabClosed
  <2>4. ASSUME m.type = "update" PROVE active' = h
    <3>1. UNCHANGED active
      BY <1>0, <2>4 DEF Shown1, DomUpdate
    <3> QED BY <1>1, <3>1
  <2>5. ASSUME m.type = "result" PROVE active' = h
    <3>1. CommandResult(m.handle) /\ m.handle \in {0, h}
      BY <1>0, <2>1, <2>5 DEF Shown1, KeepsActive
    <3> QED BY <1>1, <3>1 DEF CommandResult
  <2>6. active' = h
    BY <1>0, <2>1, <2>2, <2>3, <2>4, <2>5 DEF Shown1, KeepsActive
  <2> QED BY <1>0, <1>1, <2>6 DEF Lands, Shifts
<1>2. ASSUME NEW k \in DOMAIN frames, SnapshotOf(frames[k], h),
             \A i \in DOMAIN frames : i > k => KeepsActive(frames[i], h)
      PROVE  Lands(h)'
  <2>1. CASE k = 1
    <3>1. active' = h
      BY <1>0, <1>2, <2>1 DEF SnapshotOf, Shown1, FullSnapshot
    <3>2. ASSUME NEW i \in DOMAIN frames' PROVE KeepsActive(frames'[i], h)
      <4>1. i + 1 \in DOMAIN frames /\ frames'[i] = frames[i + 1] /\ i + 1 > k
        BY <1>0, <2>1 DEF Shifts
      <4> QED BY <1>2, <4>1
    <3> QED BY <3>1, <3>2 DEF Lands
  <2>2. CASE k # 1
    <3>1. k - 1 \in DOMAIN frames' /\ (k - 1) + 1 = k
      BY <1>0, <2>2 DEF Shifts
    <3>2. frames'[k - 1] = frames[(k - 1) + 1]
      BY <1>0, <3>1 DEF Shifts
    <3>3. SnapshotOf(frames'[k - 1], h)
      BY <1>2, <3>1, <3>2, Zenon
    <3>4. ASSUME NEW i \in DOMAIN frames', i > k - 1 PROVE KeepsActive(frames'[i], h)
      <4>1. i + 1 \in DOMAIN frames /\ frames'[i] = frames[i + 1] /\ i + 1 > k
        BY <1>0, <3>4 DEF Shifts
      <4> QED BY <1>2, <4>1
    <3> QED BY <3>1, <3>3, <3>4 DEF Lands
  <2> QED BY <2>1, <2>2
<1> QED BY <1>1, <1>2 DEF Lands

LEMMA FocusLandsStep ==
  ASSUME BrowserTabsTypes, FocusLands, [Next]_vars
  PROVE  FocusLands'
<1> SUFFICES ASSUME IsAlive', ~history'.late, ~Sending' PROVE \E h : h = focus' /\ Lands(h)'
  BY DEF FocusLands
<1>0. /\ history \in Histories /\ frames \in Seq(Message) /\ \A p \in Process : local[p].handle \in Nat
  BY DEF BrowserTabsTypes, StateOK, FramesOK, WordsOK, Words
<1>1. CASE Sending
  <2>1. PICK p \in Process : SnapSend(p)
    BY <1>1, SendingEnds
  <2>2. focus' = focus /\ local[p].handle = focus
    BY <1>0, <2>1, SentOK DEF SnapSend, browserVars
  <2>3. PICK m \in Message : m.type = "snapshot" /\ m.handle = local[p].handle /\ Appends(m)
    <3>1. \E m \in Message : SendsSnapshot(p, m)
      BY <2>1, SnapSends DEF BrowserTabsTypes
    <3> QED BY <3>1, TypesDisjoint DEF SendsSnapshot
  <2>4. /\ Len(frames) + 1 \in DOMAIN frames' /\ frames'[Len(frames) + 1] = m
        /\ ~\E i \in DOMAIN frames' : i > Len(frames) + 1
    BY <1>0, <2>3 DEF Appends
  <2> QED BY <2>2, <2>3, <2>4 DEF Lands, SnapshotOf
<1>2. CASE ~Sending
  <2>1. /\ Take \/ PollTabs \/ PollAddress \/ PollUpdate \/ Calmly
        /\ focus' = focus /\ IsAlive /\ ~history.late
    BY <1>2, CalmBefore
  <2>2. Lands(focus) /\ focus \in Open
    BY <1>2, <2>1 DEF FocusLands, IsAlive
  <2>3. CASE Take
    <3>1. \A h : h \in Open /\ Lands(h) => Lands(h)'
      BY <2>3, LandsTaken
    <3> QED BY <2>1, <2>2, <3>1
  <2>4. CASE UNCHANGED mirrorVars /\ Grows
             /\ \A i \in DOMAIN frames' \ DOMAIN frames : KeepsActive(frames'[i], focus)
    <3>1. \A h : Lands(h) /\ h = focus => Lands(h)'
      BY <2>4, LandsGrows DEF mirrorVars
    <3> QED BY <2>1, <2>2, <3>1
  <2>5. CASE Quietly /\ UNCHANGED mirrorVars
    BY <1>0, <2>4, <2>5 DEF Quietly, Grows
  <2>6. ASSUME \A i \in DOMAIN frames' \ DOMAIN frames : frames'[i].type \in {"opened", "closed"}
        PROVE  \A i \in DOMAIN frames' \ DOMAIN frames : KeepsActive(frames'[i], focus)
    BY <2>6 DEF KeepsActive
  <2>7. ASSUME NEW m \in Message, Updates(m) PROVE KeepsActive(m, focus)
    BY <2>7, TypesDisjoint DEF Updates, KeepsActive
  <2>8. /\ \A p \in Process, m \in Message : ~SendsSnapshot(p, m)
        /\ \A t \in Task, m \in Message : ~Results(t, m)
        /\ \A m \in Message : ~Announces(m)
    BY <1>2, Processes DEF SendsSnapshot, Results, Announces, SnapSend, Report, PollAnnounce, Sending, Busy
  <2> QED BY <2>3, <2>4, <2>5, <2>6, <2>7, <2>8, NewFrames
<1> QED BY <1>1, <1>2

\* In the end the controller shows the tab the driver is on: the last snapshot
\* of those under way follows every move of the driver, and what comes after
\* it changes the active tab no more (worker.py:200-231).
THEOREM ShowsTheDriversTab == Spec => []ActiveFollowsFocus
<1>1. Init => FocusLands
  <2> SUFFICES ASSUME Init PROVE Lands(focus)
    BY DEF FocusLands
  <2>1. DOMAIN frames = 1..1 /\ SnapshotOf(frames[1], focus)
    BY DEF Init, BrowserInit, SnapshotOf
  <2> QED BY <2>1 DEF Lands
<1>2. BrowserTabsTypes /\ FocusLands /\ [Next]_vars => FocusLands'
  BY FocusLandsStep
<1>3. FocusLands => ActiveFollowsFocus
  <2> SUFFICES ASSUME FocusLands, Quiet, IsAlive, ~history.late PROVE active = focus
    BY DEF ActiveFollowsFocus
  <2>1. ~Sending /\ frames = <<>>
    BY Processes DEF Quiet, Sending, Busy
  <2> QED BY <2>1 DEF FocusLands, Lands
<1> QED BY <1>1, <1>2, <1>3, BrowserTabsTyped, PTL DEF Spec

(* What the tab it shows is of *)

\* n separates the differences from the page of tab h, all of them taken since
\* its last snapshot, from those that are out of sequence.
Harmless(m, h, n, v) ==
  m.type = "update" /\ m.handle = h =>
    /\ m.version <= v /\ m.base <= m.version /\ m.to \in {0, h}
    /\ m.base >= n \/ (m.version < n /\ (m.from = h \/ m.to = 0))
OutOfPlace(m, h, n, v) == ~SnapshotOf(m, h) /\ Harmless(m, h, n, v)
Right(tab, h, n) == tab.handle = h => tab.stale \/ (tab.shows = h /\ tab.version < n)
SnapshotFits(m, h, n) == SnapshotOf(m, h) /\ m.page = h /\ m.version < n
Differs(h, n) == n <= ver + 1 /\ (n > ver => lastPage = h)
ShowsNow(h, n) ==
  /\ \A i \in DOMAIN tabs : Right(tabs[i], h, n)
  /\ \A i \in DOMAIN frames : OutOfPlace(frames[i], h, n, ver)
ShowsSoon(h, n) ==
  \E k \in DOMAIN frames :
    /\ SnapshotFits(frames[k], h, n)
    /\ \A i \in DOMAIN frames : i > k => OutOfPlace(frames[i], h, n, ver)
GapAt(h, n) == Differs(h, n) /\ (ShowsNow(h, n) \/ ShowsSoon(h, n))
FocusIsRight ==
  IsAlive /\ ~history.late /\ ~Sending /\ focus \notin history.mixed => \E n \in Nat : GapAt(focus, n)

LEMMA GapGrows ==
  ASSUME NEW h, NEW n, NEW k, ShowsNow(h, n) \/ ShowsSoon(h, n), UNCHANGED tabs, Grows, Differs(h, k)',
         \A i \in DOMAIN frames' \ DOMAIN frames : OutOfPlace(frames'[i], h, k, ver'),
         \A m \in Message : OutOfPlace(m, h, n, ver) => OutOfPlace(m, h, k, ver'),
         \A m \in Message : SnapshotFits(m, h, n) => SnapshotFits(m, h, k),
         \A tab \in TabSet : Right(tab, h, n) => Right(tab, h, k),
         frames \in Seq(Message), tabs \in Seq(TabSet)
  PROVE  GapAt(h, k)'
<1>1. \A i \in DOMAIN frames : frames[i] \in Message
  OBVIOUS
<1>2. \A i \in DOMAIN tabs : tabs[i] \in TabSet
  OBVIOUS
<1>3. CASE ShowsNow(h, n)
  <2>1. ShowsNow(h, k)'
    BY <1>1, <1>2, <1>3 DEF ShowsNow, Grows
  <2> QED BY <2>1 DEF GapAt
<1>4. CASE ShowsSoon(h, n)
  <2>1. ShowsSoon(h, k)'
    BY <1>1, <1>4 DEF ShowsSoon, Grows
  <2> QED BY <2>1 DEF GapAt
<1> QED BY <1>3, <1>4

\* What an update does to the tabs.
Patches(m) ==
  /\ DOMAIN tabs' = DOMAIN tabs
  /\ \A i \in DOMAIN tabs' :
       \/ tabs'[i] = tabs[i]
       \/ tabs'[i].handle = m.handle /\ tabs[i].handle = m.handle /\ tabs'[i].stale
       \/ /\ tabs'[i].handle = m.handle /\ tabs[i].handle = m.handle /\ ~tabs[i].stale
          /\ tabs[i].version = m.base /\ tabs'[i].version = m.version
          /\ tabs'[i].shows = Patched(tabs[i].shows, m.from, m.to)

LEMMA UpdatePatches ==
  ASSUME made \in Nat, MirrorOK, NEW m \in Update,
         DomUpdate(m.handle, m.base, m.version, m.from, m.to)
  PROVE  Patches(m)
<1>1. m.base \in Nat /\ m.version \in Nat /\ m.from \in Nat /\ m.to \in Nat /\ m.handle \in Nat
  BY DEF Update
<1> QED BY <1>1, UpdateMirror DEF Patches

LEMMA PatchesRight ==
  ASSUME NEW h \in Nat, NEW n \in Nat, NEW m \in Update, OutOfPlace(m, h, n, ver),
         \A i \in DOMAIN tabs : Right(tabs[i], h, n), Patches(m)
  PROVE  \A i \in DOMAIN tabs' : Right(tabs'[i], h, n)
<1>1. /\ m.base \in Nat /\ m.version \in Nat /\ m.from \in Nat /\ m.to \in Nat /\ m.handle \in Nat
      /\ m.type = "update"
  BY DEF Update
<1>2. /\ DOMAIN tabs' = DOMAIN tabs
      /\ \A i \in DOMAIN tabs' :
           \/ tabs'[i] = tabs[i]
           \/ tabs'[i].handle = m.handle /\ tabs[i].handle = m.handle /\ tabs'[i].stale
           \/ /\ tabs'[i].handle = m.handle /\ tabs[i].handle = m.handle /\ ~tabs[i].stale
              /\ tabs[i].version = m.base /\ tabs'[i].version = m.version
              /\ tabs'[i].shows = Patched(tabs[i].shows, m.from, m.to)
  BY DEF Patches
<1>3. ASSUME NEW i \in DOMAIN tabs, m.handle = h, ~tabs[i].stale, tabs[i].handle = h, tabs[i].version = m.base
      PROVE  m.version < n /\ Patched(tabs[i].shows, m.from, m.to) = h
  <2>1. tabs[i].shows = h /\ m.base < n
    BY <1>3 DEF Right
  <2>2. m.version < n /\ (m.from = h \/ m.to = 0) /\ m.to \in {0, h}
    BY <1>1, <1>3, <2>1 DEF OutOfPlace, Harmless
  <2> QED BY <2>1, <2>2 DEF Patched
<1>4. ASSUME NEW i \in DOMAIN tabs', ~(tabs'[i] = tabs[i]), ~tabs'[i].stale, tabs'[i].handle = h
      PROVE  tabs'[i].shows = h /\ tabs'[i].version < n
  BY <1>2, <1>3, <1>4
<1> QED BY <1>2, <1>4 DEF Right

LEMMA GapTaken ==
  ASSUME BrowserTabsTypes, NEW h \in Nat, NEW n \in Nat, GapAt(h, n), Take
  PROVE  GapAt(h, n)'
<1>0. /\ Shifts /\ frames[1] \in Message /\ frames[1].handle \in 0..made /\ Shown1(frames[1])
      /\ 1 \in DOMAIN frames /\ made \in Nat /\ MirrorOK /\ ver' = ver /\ lastPage' = lastPage
  BY TakeShifts DEF BrowserTabsTypes, Shifts, BrowserOK
<1> DEFINE m == frames[1]
<1>1. Differs(h, n)'
  BY <1>0 DEF GapAt, Differs
<1>2. ASSUME ShowsNow(h, n) PROVE ShowsNow(h, n)'
  <2>1. /\ \A i \in DOMAIN tabs : Right(tabs[i], h, n)
        /\ OutOfPlace(m, h, n, ver)
    BY <1>0, <1>2 DEF ShowsNow
  <2>2. \A i \in DOMAIN frames' : OutOfPlace(frames'[i], h, n, ver)
    BY <1>0, <1>2 DEF ShowsNow, Shifts
  <2>3. ASSUME m.type = "opened" PROVE \A i \in DOMAIN tabs' : Right(tabs'[i], h, n)
    <3>1. TabOpened(m.handle) /\ m.handle \in 1..made
      BY <1>0, <2>3 DEF Shown1
    <3>2. \A i \in DOMAIN tabs' :
            \/ tabs'[i].handle = m.handle /\ tabs'[i].stale
            \/ \E j \in DOMAIN tabs : tabs'[i] = tabs[j]
      BY <1>0, <3>1, OpenedMirror
    <3> QED BY <2>1, <3>2 DEF Right
  <2>4. ASSUME m.type = "closed" PROVE \A i \in DOMAIN tabs' : Right(tabs'[i], h, n)
    <3>1. TabClosed(m.handle) /\ m.handle \in 1..made
      BY <1>0, <2>4 DEF Shown1
    <3>2. \A i \in DOMAIN tabs' : \E j \in DOMAIN tabs : tabs'[i] = tabs[j]
      BY <1>0, <3>1, ClosedMirror
    <3> QED BY <2>1, <3>2
  <2>5. ASSUME m.type = "snapshot" PROVE \A i \in DOMAIN tabs' : Right(tabs'[i], h, n)
    <3>1. FullSnapshot(m.handle, m.page, m.version) /\ m.page \in Nat /\ m.version \in Nat
      BY <1>0, <2>5 DEF Shown1, Snapshot
    <3>2. \A i \in DOMAIN tabs' :
            \/ tabs'[i].handle = m.handle /\ tabs'[i] = Tab(m.handle, m.page, m.version, FALSE)
            \/ tabs'[i].handle # m.handle /\ \E j \in DOMAIN tabs : tabs'[i] = tabs[j]
      BY <1>0, <3>1, SnapshotMirror
    <3>3. m.handle # h
      BY <2>1, <2>5 DEF OutOfPlace, SnapshotOf
    <3> QED BY <2>1, <3>2, <3>3 DEF Right
  <2>6. ASSUME m.type = "update" PROVE \A i \in DOMAIN tabs' : Right(tabs'[i], h, n)
    <3>1. DomUpdate(m.handle, m.base, m.version, m.from, m.to) /\ m \in Update
      BY <1>0, <2>6 DEF Shown1
    <3>2. Patches(m)
      BY <1>0, <3>1, UpdatePatches
    <3> QED BY <1>0, <2>1, <3>1, <3>2, PatchesRight
  <2>7. ASSUME m.type = "result" PROVE \A i \in DOMAIN tabs' : Right(tabs'[i], h, n)
    <3>1. UNCHANGED tabs
      BY <1>0, <2>7 DEF Shown1, CommandResult
    <3> QED BY <2>1, <3>1
  <2>8. \A i \in DOMAIN tabs' : Right(tabs'[i], h, n)
    BY <1>0, <2>3, <2>4, <2>5, <2>6, <2>7, TypesDisjoint
  <2> QED BY <1>0, <2>2, <2>8 DEF ShowsNow
<1>3. ASSUME NEW k \in DOMAIN frames, SnapshotFits(frames[k], h, n),
             \A i \in DOMAIN frames : i > k => OutOfPlace(frames[i], h, n, ver)
      PROVE  ShowsNow(h, n)' \/ ShowsSoon(h, n)'
  <2>1. CASE k = 1
    <3>1. /\ FullSnapshot(m.handle, m.page, m.version) /\ m.page \in Nat /\ m.version \in Nat
          /\ m.handle = h /\ m.page = h /\ m.version < n
      BY <1>0, <1>3, <2>1 DEF Shown1, Snapshot, SnapshotFits, SnapshotOf
    <3>2. \A i \in DOMAIN tabs' :
            \/ tabs'[i].handle = m.handle /\ tabs'[i] = Tab(m.handle, m.page, m.version, FALSE)
            \/ tabs'[i].handle # m.handle /\ \E j \in DOMAIN tabs : tabs'[i] = tabs[j]
      <4>1. FullSnapshot(m.handle, m.page, m.version) /\ m.page \in Nat /\ m.version \in Nat
        BY <3>1
      <4> QED BY <1>0, <4>1, SnapshotMirror
    <3>3. \A i \in DOMAIN tabs' : Right(tabs'[i], h, n)
      BY <3>1, <3>2 DEF Right, Tab
    <3>4. ASSUME NEW i \in DOMAIN frames' PROVE OutOfPlace(frames'[i], h, n, ver)
      <4>1. i + 1 \in DOMAIN frames /\ frames'[i] = frames[i + 1] /\ i + 1 > k
        BY <1>0, <2>1 DEF Shifts
      <4> QED BY <1>3, <4>1
    <3> QED BY <1>0, <3>3, <3>4 DEF ShowsNow
  <2>2. CASE k # 1
    <3>1. k - 1 \in DOMAIN frames' /\ (k - 1) + 1 = k
      BY <1>0, <2>2 DEF Shifts
    <3>2. frames'[k - 1] = frames[(k - 1) + 1]
      BY <1>0, <3>1 DEF Shifts
    <3>3. SnapshotFits(frames'[k - 1], h, n)
      BY <1>3, <3>1, <3>2, Zenon
    <3>4. ASSUME NEW i \in DOMAIN frames', i > k - 1 PROVE OutOfPlace(frames'[i], h, n, ver)
      <4>1. i + 1 \in DOMAIN frames /\ frames'[i] = frames[i + 1] /\ i + 1 > k
        BY <1>0, <3>4 DEF Shifts
      <4> QED BY <1>3, <4>1
    <3> QED BY <1>0, <3>1, <3>3, <3>4 DEF ShowsSoon
  <2> QED BY <2>1, <2>2
<1> QED BY <1>1, <1>2, <1>3 DEF GapAt, ShowsSoon

LEMMA GapStart ==
  ASSUME BrowserTabsTypes, NEW p \in Process, SnapSend(p), local[p].handle = focus,
         local[p].page = focus
  PROVE  GapAt(focus, ver + 1)' /\ ver' = ver /\ focus' = focus
<1>0. frames \in Seq(Message) /\ ver \in Nat
  BY DEF BrowserTabsTypes, FramesOK, StateOK
<1>1. ver' = ver /\ focus' = focus /\ lastPage' = focus
  BY DEF SnapSend, browserVars
<1>2. PICK m \in Message : SendsSnapshot(p, m)
  BY SnapSends DEF BrowserTabsTypes
<1>3. /\ m.type = "snapshot" /\ m.handle = focus /\ m.page = focus /\ m.version = ver
      /\ frames' = Append(frames, m)
  BY <1>2, TypesDisjoint DEF SendsSnapshot, Appends
<1>4. /\ Len(frames) + 1 \in DOMAIN frames' /\ frames'[Len(frames) + 1] = m
      /\ ~\E i \in DOMAIN frames' : i > Len(frames) + 1
  BY <1>0, <1>3
<1>5. SnapshotFits(m, focus, ver + 1)
  BY <1>0, <1>3 DEF SnapshotFits, SnapshotOf
<1>6. \A h, n : h = focus /\ n = ver + 1 => ShowsSoon(h, n)' /\ Differs(h, n)'
  BY <1>0, <1>1, <1>4, <1>5 DEF ShowsSoon, Differs
<1> QED BY <1>1, <1>6 DEF GapAt

LEMMA GapSame ==
  ASSUME BrowserTabsTypes, NEW h, NEW n \in Nat, GapAt(h, n), UNCHANGED <<tabs, ver, lastPage>>, Grows,
         \A i \in DOMAIN frames' \ DOMAIN frames : OutOfPlace(frames'[i], h, n, ver)
  PROVE  GapAt(h, n)'
<1>1. frames \in Seq(Message) /\ tabs \in Seq(TabSet)
  BY DEF BrowserTabsTypes, FramesOK, MirrorOK, TabsOK
<1>2. Differs(h, n)'
  BY DEF GapAt, Differs
<1> QED BY <1>1, <1>2, GapGrows DEF GapAt

\* What PollUpdate adds is a difference in sequence, or begins one.
LEMMA GapUpdated ==
  ASSUME BrowserTabsTypes, NEW h \in Nat, NEW n \in Nat, GapAt(h, n), PollUpdate
  PROVE  \E k \in Nat : GapAt(h, k)'
<1> DEFINE read == local["poll"]
<1>0. /\ frames \in Seq(Message) /\ tabs \in Seq(TabSet) /\ ver \in Nat /\ lastPage \in Nat
      /\ read.page \in Nat /\ read.handle = read.page
  <2>1. read \in Words /\ at["poll"] = "update"
    BY Processes DEF BrowserTabsTypes, WordsOK, PollUpdate
  <2> QED BY <2>1 DEF BrowserTabsTypes, FramesOK, MirrorOK, TabsOK, StateOK, WordsOK, Words, PollKnows
<1>1. UNCHANGED mirrorVars /\ UNCHANGED tabs
  BY DEF PollUpdate, mirrorVars
<1>2. CASE UNCHANGED <<frames, lastPage, ver>>
  <2>1. Grows /\ \A i \in DOMAIN frames' \ DOMAIN frames : FALSE
    BY <1>0, <1>2 DEF Grows
  <2>2. GapAt(h, n)'
    BY <1>1, <1>2, <2>1, GapSame
  <2> QED BY <2>2
<1>3. CASE /\ Post(<<[type |-> "update", handle |-> read.handle, base |-> ver,
                      version |-> ver + 1, from |-> lastPage, to |-> read.page]>>)
           /\ lastPage' = read.page /\ ver' = ver + 1
  <2> DEFINE m == [type |-> "update", handle |-> read.handle, base |-> ver,
                   version |-> ver + 1, from |-> lastPage, to |-> read.page]
  <2>1. /\ m.type = "update" /\ m.handle = read.page /\ m.base = ver /\ m.version = ver + 1
        /\ m.from = lastPage /\ m.to = read.page /\ m \in Update
    BY <1>0 DEF Update
  <2>2. Post(<<m>>)
    BY <1>3
  <2> HIDE DEF m
  <2>3. m \in Message /\ frames' = Append(frames, m)
    BY <1>0, <2>1, <2>2, AppendIsPost DEF BrowserTabsTypes, Message
  <2>4. Grows /\ \A i \in DOMAIN frames' \ DOMAIN frames : frames'[i] = m
    BY <1>0, <2>3 DEF Grows
  <2>5. ASSUME NEW k \in {n, n + 1}, Differs(h, k)', OutOfPlace(m, h, k, ver + 1),
               \A x \in Message : OutOfPlace(x, h, n, ver) => OutOfPlace(x, h, k, ver + 1)
        PROVE  GapAt(h, k)'
    <3>1. ShowsNow(h, n) \/ ShowsSoon(h, n)
      BY DEF GapAt
    <3>2. \A x \in Message : SnapshotFits(x, h, n) => SnapshotFits(x, h, k)
      BY <2>5, TypesDisjoint DEF SnapshotFits, Snapshot, SnapshotOf
    <3>3. \A tab \in TabSet : Right(tab, h, n) => Right(tab, h, k)
      BY <2>5 DEF Right, TabSet
    <3> QED BY <1>0, <1>1, <1>3, <2>4, <2>5, <3>1, <3>2, <3>3, GapGrows
  <2>6. ASSUME NEW x \in Message, OutOfPlace(x, h, n, ver)
        PROVE  /\ OutOfPlace(x, h, n, ver + 1)
               /\ n = ver + 1 => OutOfPlace(x, h, n + 1, ver + 1)
    <3>1. CASE x.type = "update"
      <4>1. x.base \in Nat /\ x.version \in Nat
        BY <3>1, TypesDisjoint DEF Update
      <4> QED BY <1>0, <2>6, <4>1 DEF OutOfPlace, Harmless
    <3>2. CASE x.type # "update"
      BY <2>6, <3>2 DEF OutOfPlace, Harmless
    <3> QED BY <3>1, <3>2
  <2>7. ~SnapshotOf(m, h)
    BY <2>1 DEF SnapshotOf
  <2>8. n <= ver + 1 /\ (n > ver => lastPage = h)
    BY DEF GapAt, Differs
  <2>9. CASE read.page = h /\ n = ver + 1
    <3>1. OutOfPlace(m, h, n + 1, ver + 1)
      BY <1>0, <2>1, <2>7, <2>8, <2>9 DEF OutOfPlace, Harmless
    <3>2. Differs(h, n + 1)'
      BY <1>0, <1>3, <2>9 DEF Differs
    <3>3. GapAt(h, n + 1)'
      BY <2>5, <2>6, <2>9, <3>1, <3>2
    <3> QED BY <3>3
  <2>10. CASE ~(read.page = h /\ n = ver + 1)
    <3>1. OutOfPlace(m, h, n, ver + 1)
      BY <1>0, <2>1, <2>7, <2>8, <2>10 DEF OutOfPlace, Harmless
    <3>2. Differs(h, n)'
      BY <1>0, <1>3, <2>8, <2>10 DEF Differs
    <3>3. GapAt(h, n)'
      BY <2>5, <2>6, <3>1, <3>2
    <3> QED BY <3>3
  <2> QED BY <2>9, <2>10
<1> QED BY <1>2, <1>3 DEF PollUpdate

\* An address that changes changes no page.
LEMMA GapAddressed ==
  ASSUME BrowserTabsTypes, NEW h \in Nat, NEW n \in Nat, GapAt(h, n), PollAddress
  PROVE  GapAt(h, n)'
<1> DEFINE read == local["poll"]
<1>0. frames \in Seq(Message) /\ ver \in Nat /\ read.handle \in Nat
  BY Processes DEF BrowserTabsTypes, FramesOK, StateOK, WordsOK, Words
<1>1. UNCHANGED <<tabs, ver, lastPage>>
  BY DEF PollAddress, mirrorVars
<1>2. CASE UNCHANGED frames
  <2>1. Grows /\ \A i \in DOMAIN frames' \ DOMAIN frames : FALSE
    BY <1>0, <1>2 DEF Grows
  <2> QED BY <1>1, <2>1, GapSame
<1>3. CASE Post(<<[type |-> "update", handle |-> read.handle, base |-> ver, version |-> ver,
                   from |-> 0, to |-> 0]>>)
  <2> DEFINE m == [type |-> "update", handle |-> read.handle, base |-> ver, version |-> ver,
                   from |-> 0, to |-> 0]
  <2>1. m.type = "update" /\ m.base = ver /\ m.version = ver /\ m.to = 0 /\ m \in Update
    BY <1>0 DEF Update
  <2>2. Post(<<m>>)
    BY <1>3
  <2> HIDE DEF m
  <2>3. m \in Message /\ frames' = Append(frames, m)
    BY <1>0, <2>1, <2>2, AppendIsPost DEF BrowserTabsTypes, Message
  <2>4. Grows /\ \A i \in DOMAIN frames' \ DOMAIN frames : frames'[i] = m
    BY <1>0, <2>3 DEF Grows
  <2>5. OutOfPlace(m, h, n, ver)
    BY <1>0, <2>1 DEF OutOfPlace, Harmless, SnapshotOf
  <2> QED BY <1>1, <2>4, <2>5, GapSame
<1> QED BY <1>2, <1>3 DEF PollAddress

LEMMA FocusIsRightStep ==
  ASSUME BrowserTabsTypes, FocusIsRight, [Next]_vars
  PROVE  FocusIsRight'
<1> SUFFICES ASSUME IsAlive', ~history'.late, ~Sending', focus' \notin history'.mixed
             PROVE  \E h : h = focus' /\ \E n \in Nat : GapAt(h, n)'
  BY DEF FocusIsRight
<1>0. /\ history \in Histories /\ frames \in Seq(Message) /\ ver \in Nat /\ focus \in Nat
      /\ \A p \in Process : local[p].handle \in Nat
  BY DEF BrowserTabsTypes, StateOK, FramesOK, BrowserOK, WordsOK, Words
<1>1. CASE Sending
  <2>1. PICK p \in Process : SnapSend(p)
    BY <1>1, SendingEnds
  <2>2. focus' = focus /\ history' = Sent(local[p].handle, local[p].page)
    BY <2>1 DEF SnapSend, browserVars
  <2>3. local[p].handle = focus
    BY <1>0, <2>2, SentOK
  <2>4. local[p].page = focus
    BY <1>0, <2>2, <2>3, SentOK
  <2>5. \A h, n : h = focus /\ n = ver + 1 => GapAt(h, n)'
    BY <2>1, <2>2, <2>3, <2>4, GapStart
  <2> QED BY <1>0, <2>2, <2>5
<1>2. CASE ~Sending
  <2>1. /\ Take \/ PollTabs \/ PollAddress \/ PollUpdate \/ Calmly
        /\ focus' = focus /\ IsAlive
        /\ history'.late = history.late /\ history'.mixed = history.mixed
    BY <1>2, CalmBefore
  <2>2. PICK n \in Nat : GapAt(focus, n)
    BY <1>2, <2>1 DEF FocusIsRight
  <2>3. CASE Take
    <3>1. \A h : h = focus => GapAt(h, n)'
      BY <1>0, <2>2, <2>3, GapTaken
    <3> QED BY <2>1, <3>1
  <2>4. CASE PollUpdate
    <3>1. \A h : h = focus => \E k \in Nat : GapAt(h, k)'
      BY <1>0, <2>2, <2>4, GapUpdated
    <3> QED BY <2>1, <3>1
  <2>5. CASE PollAddress
    <3>1. \A h : h = focus => GapAt(h, n)'
      BY <1>0, <2>2, <2>5, GapAddressed
    <3> QED BY <2>1, <3>1
  <2>6. ASSUME UNCHANGED <<tabs, ver, lastPage>>, Grows,
               \A i \in DOMAIN frames' \ DOMAIN frames : frames'[i].type \in {"opened", "closed"}
        PROVE  \E h : h = focus' /\ \E k \in Nat : GapAt(h, k)'
    <3>1. \A i \in DOMAIN frames' \ DOMAIN frames : OutOfPlace(frames'[i], focus, n, ver)
      BY <2>6 DEF OutOfPlace, Harmless, SnapshotOf
    <3>2. \A h : h = focus => GapAt(h, n)'
      BY <2>2, <2>6, <3>1, GapSame
    <3> QED BY <2>1, <3>2
  <2>7. CASE PollTabs
    <3>1. UNCHANGED <<tabs, ver, lastPage>>
      BY <2>7 DEF PollTabs, mirrorVars, pageOfVars
    <3> QED BY <2>6, <2>7, <3>1, TabsAppended
  <2>8. CASE Calmly
    <3>1. UNCHANGED <<tabs, ver, lastPage>> /\ UNCHANGED frames
      BY <2>8 DEF Calmly, Quietly, mirrorVars
    <3>2. Grows /\ \A i \in DOMAIN frames' \ DOMAIN frames : FALSE
      BY <1>0, <3>1 DEF Grows
    <3> QED BY <2>6, <3>1, <3>2
  <2> QED BY <2>1, <2>3, <2>4, <2>5, <2>7, <2>8
<1> QED BY <1>1, <1>2

\* In the end the active tab shows its own page: since its last snapshot every
\* difference that fits it was taken from its own page (worker.py:526-539),
\* unless that snapshot's page and handle were of two windows.
THEOREM ShowsItsOwnPage == Spec => []OwnPage
<1>1. Init => FocusIsRight
  <2> SUFFICES ASSUME Init PROVE GapAt(focus, 2)
    BY DEF FocusIsRight
  <2>1. /\ focus = 1 /\ ver = 1 /\ lastPage = 1 /\ DOMAIN frames = 1..1 /\ SnapshotFits(frames[1], focus, 2)
    BY DEF Init, BrowserInit, SnapshotFits, SnapshotOf
  <2>2. ShowsSoon(focus, 2)
    BY <2>1 DEF ShowsSoon
  <2> QED BY <2>1, <2>2 DEF GapAt, Differs
<1>2. BrowserTabsTypes /\ FocusIsRight /\ [Next]_vars => FocusIsRight'
  BY FocusIsRightStep
<1>3. BrowserTabsTypes /\ ActiveFollowsFocus /\ FocusIsRight => OwnPage
  <2> SUFFICES ASSUME BrowserTabsTypes, ActiveFollowsFocus, FocusIsRight, Quiet, IsAlive, ~history.late,
                      active \in Mirrored \ history.mixed, ~Shown(active).stale
               PROVE  Shown(active).shows = active
    BY DEF OwnPage
  <2>1. ~Sending /\ frames = <<>> /\ active = focus
    BY Processes DEF Quiet, Sending, Busy, ActiveFollowsFocus
  <2>2. PICK n \in Nat : GapAt(focus, n)
    BY <2>1 DEF FocusIsRight
  <2>3. \A i \in DOMAIN tabs : Right(tabs[i], focus, n)
    BY <2>1, <2>2 DEF GapAt, ShowsNow, ShowsSoon
  <2>4. Place(active) \in DOMAIN tabs /\ tabs[Place(active)].handle = active
    <3>1. \E i \in DOMAIN tabs : tabs[i].handle = active
      BY DEF Mirrored
    <3> QED BY <3>1 DEF Place
  <2> QED BY <2>1, <2>3, <2>4 DEF Right, Shown
<1> QED BY <1>1, <1>2, <1>3, BrowserTabsTyped, ShowsTheDriversTab, PTL DEF Spec
=============================================================================
