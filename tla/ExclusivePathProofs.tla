------------------------ MODULE ExclusivePathProofs ------------------------
(***************************************************************************)
(* What TLAPS proves of CommandPath for a worker to which one controller   *)
(* only gives commands (Exclusive), whatever other controllers do at other *)
(* workers, or watch at this one: although a result carries no command id, *)
(* it reaches the command it is of.                                        *)
(*                                                                         *)
(* The argument: on the round trip of such a worker - to the server, to    *)
(* the worker, among its tasks and back - there is never more than one     *)
(* item, and it is of the command in flight (Trip, CommandPathProofs).     *)
(* That no other controller's frame comes in between is UpIsOwn, and that  *)
(* a result is of a command that has ended, for good, is Solo              *)
(* (SharedPathProofs).                                                     *)
(***************************************************************************)
EXTENDS SharedPathProofs

\* No controller but k gives commands to w.
Owns(k, w) == \A c \in CommandsOf(w) : SlotOf[c][1] = k

\* Every trip of such a worker has one item at most.
OwnTrips == \A k \in Controller, w \in Worker : Owns(k, w) => Trip(k, w)

\* The owner of an exclusive worker is the controller of any command for it.
LEMMA ExclusiveIsOwned ==
  ASSUME NEW c \in Command, Exclusive(SlotOf[c][2])
  PROVE  /\ SlotOf[c] \in Slot /\ SlotOf[c][1] \in Controller /\ SlotOf[c][2] \in Worker
         /\ SlotOf[c] = <<SlotOf[c][1], SlotOf[c][2]>>
         /\ Owns(SlotOf[c][1], SlotOf[c][2])
<1>1. SlotOf[c] \in Slot
  BY CommandQueueAssumption
<1>2. ASSUME NEW d \in CommandsOf(SlotOf[c][2]) PROVE SlotOf[d][1] = SlotOf[c][1]
  BY DEF CommandsOf, Exclusive
<1> QED BY <1>1, <1>2 DEF Slot, Owns

\* What another controller does with the server is nothing to the owner's trip.
LEMMA OtherServerTrip ==
  ASSUME PathTypeOK, PathTypeOK', UpIsOwn, NEW k \in Controller, NEW w \in Worker, Owns(k, w),
         Trip(k, w), NEW j \in Controller \ {k}, ServerTake(j)
  PROVE  Trip(k, w)'
<1>1. /\ up[j] # <<>> /\ up'[k] = up[k] /\ tasks'[w] = tasks[w] /\ back'[k] = back[k]
      /\ inFlight'[<<k, w>>] = inFlight[<<k, w>>]
  BY DEF ServerTake, queueVars, PathTypeOK
<1>2. down'[w] = down[w]
  <2>1. CASE Head(up[j]).type = "register"
    BY <2>1 DEF ServerTake
  <2>2. ASSUME NEW c \in Command, Head(up[j]) = CommandFrame(c), Head(up[j]).type = "command",
               Head(up[j]).command = c, SlotOf[c][2] \in Worker
        PROVE  down'[w] = down[w]
    <3>1. 1 \in 1..Len(up[j]) /\ up[j][1] = CommandFrame(c)
      BY <1>1, <2>2, PlacesOf
    <3>2. SlotOf[c][1] = j
      BY <3>1 DEF UpIsOwn
    <3>3. SlotOf[c][2] # w
      BY <3>2 DEF Owns, CommandsOf
    <3> QED BY <2>2, <3>3 DEF ServerTake, PathTypeOK
  <2> QED BY <1>1, <2>1, <2>2, FrameInHand
<1>3. /\ \E d \in Nat : Kept(up[k], up'[k], Items(w)["up"], d)
      /\ \E d \in Nat : Kept(down[w], down'[w], Items(w)["down"], d)
      /\ \E d \in Nat : Kept(tasks[w], tasks'[w], Items(w)["tasks"], d)
      /\ \E d \in Nat : Kept(back[k], back'[k], Items(w)["back"], d)
  BY <1>1, <1>2, PlacesOf
<1> QED BY <1>1, <1>3, TripSame

\* The queues and the frames of one controller are nothing to the others.
LEMMA OthersDispatch ==
  ASSUME PathTypeOK, NEW s \in Slot, SendDispatched(s), NEW k \in Controller \ {s[1]}
  PROVE  up'[k] = up[k]
<1>1. CASE inFlight'[s] \in {NoCommand, inFlight[s]}
  BY <1>1 DEF SendDispatched
<1>2. CASE inFlight'[s] \notin {NoCommand, inFlight[s]}
  BY <1>2 DEF SendDispatched, Send, PathTypeOK
<1> QED BY <1>1, <1>2

\* Another controller gives a command, or takes what has come to it.
LEMMA OtherTrip ==
  ASSUME PathTypeOK, PathTypeOK', QueueInv, NEW k \in Controller, NEW w \in Worker, Trip(k, w),
         \/ \E c \in Command : SlotOf[c][1] # k /\ Submit(c)
         \/ \E j \in Controller \ {k} : ControllerTake(j)
  PROVE  Trip(k, w)'
<1>1. ASSUME NEW c \in Command, SlotOf[c][1] # k, Submit(c)
      PROVE  /\ up'[k] = up[k] /\ back'[k] = back[k] /\ down'[w] = down[w] /\ tasks'[w] = tasks[w]
             /\ inFlight'[<<k, w>>] = inFlight[<<k, w>>]
  <2>1. /\ SlotOf[c] \in Slot /\ SlotOf[c] # <<k, w>> /\ EnqueueCommand(c) /\ SendDispatched(SlotOf[c])
        /\ inFlight \in [Slot -> Command \cup {NoCommand}] /\ <<k, w>> \in Slot
    BY <1>1, CommandQueueAssumption DEF Submit, Slot, QueueInv, QueueTypeOK
  <2>2. up'[k] = up[k]
    BY <1>1, <2>1, OthersDispatch
  <2>3. inFlight' = inFlight \/ inFlight' = [inFlight EXCEPT ![SlotOf[c]] = c]
    BY <2>1, Given
  <2>4. inFlight'[<<k, w>>] = inFlight[<<k, w>>]
    BY <2>1, <2>3
  <2> QED BY <1>1, <2>2, <2>4 DEF Submit
<1>2. ASSUME NEW j \in Controller \ {k}, ControllerTake(j)
      PROVE  /\ up'[k] = up[k] /\ back'[k] = back[k] /\ down'[w] = down[w] /\ tasks'[w] = tasks[w]
             /\ inFlight'[<<k, w>>] = inFlight[<<k, w>>]
  <2>1. back[j] # <<>> /\ back'[k] = back[k] /\ down'[w] = down[w] /\ tasks'[w] = tasks[w]
    BY <1>2 DEF ControllerTake, PathTypeOK
  <2>2. CASE Head(back[j]).type = "connected"
    <3>1. inFlight' = inFlight /\ Send(j, RegisterFrame(tabs[j]))
      BY <1>2, <2>2 DEF ControllerTake, queueVars
    <3> QED BY <2>1, <3>1 DEF Send, PathTypeOK
  <2>3. ASSUME NEW c \in Command, NEW ok \in BOOLEAN,
               Head(back[j]).type = "result", Head(back[j]).command = c, Head(back[j]).ok = ok,
               SlotOf[c][2] \in Worker, <<j, SlotOf[c][2]>> \in Slot
        PROVE  up'[k] = up[k] /\ inFlight'[<<k, w>>] = inFlight[<<k, w>>]
    <3> DEFINE s == <<j, SlotOf[c][2]>>
    <3>1. HandleCommandResult(s, ok) /\ SendDispatched(s) /\ s \in Slot /\ s[1] = j /\ s # <<k, w>>
      BY <1>2, <2>3 DEF ControllerTake
    <3>2. inFlight \in [Slot -> Command \cup {NoCommand}] /\ <<k, w>> \in Slot
      BY DEF Slot, QueueInv, QueueTypeOK
    <3> HIDE DEF s
    <3>3. up'[k] = up[k]
      BY <3>1, OthersDispatch
    <3>4. UNCHANGED queueVars \/ \E n : inFlight' = [inFlight EXCEPT ![s] = n]
      BY <3>1, Answered
    <3>5. inFlight'[<<k, w>>] = inFlight[<<k, w>>]
      BY <3>1, <3>2, <3>4 DEF queueVars
    <3> QED BY <3>3, <3>5
  <2> QED BY <2>1, <2>2, <2>3, ResultInHand
<1>3. /\ up'[k] = up[k] /\ back'[k] = back[k] /\ down'[w] = down[w] /\ tasks'[w] = tasks[w]
      /\ inFlight'[<<k, w>>] = inFlight[<<k, w>>]
  BY <1>1, <1>2
<1>4. /\ \E d \in Nat : Kept(up[k], up'[k], Items(w)["up"], d)
      /\ \E d \in Nat : Kept(down[w], down'[w], Items(w)["down"], d)
      /\ \E d \in Nat : Kept(tasks[w], tasks'[w], Items(w)["tasks"], d)
      /\ \E d \in Nat : Kept(back[k], back'[k], Items(w)["back"], d)
  BY <1>3, PlacesOf
<1> QED BY <1>3, <1>4, TripSame

\* A step of the path: there is still one item at most on an owner's trip.
LEMMA TripStep ==
  ASSUME PathTypeOK, PathTypeOK', QueueInv, UpIsOwn,
         NEW k \in Controller, NEW w \in Worker, Owns(k, w), Trip(k, w), [PathNext]_vars
  PROVE  Trip(k, w)'
<1>1. ASSUME NEW c \in Command, Submit(c) PROVE Trip(k, w)'
  BY <1>1, SubmitTrip, OtherTrip
<1>2. ASSUME NEW j \in Controller, ServerTake(j) PROVE Trip(k, w)'
  BY <1>2, ServerTakeTrip, OtherServerTrip
<1>3. ASSUME NEW j \in Controller, ControllerTake(j) PROVE Trip(k, w)'
  BY <1>3, ControllerTakeTrip, OtherTrip
<1>4. ASSUME NEW j \in Controller, DropController(j) \/ RelinkController(j) PROVE Trip(k, w)'
  BY <1>4, LinksTrip
<1>5. ASSUME NEW j \in Controller, NEW v \in Worker, OpenTab(j, v) \/ CloseTab(j, v)
      PROVE  Trip(k, w)'
  <2>1. tabs[j] \cup {v} \in SUBSET Worker /\ tabs[j] \ {v} \in SUBSET Worker
    BY DEF PathTypeOK
  <2>2. PICK ids \in SUBSET Worker : ChangeTabs(j, ids)
    BY <1>5, <2>1 DEF OpenTab, CloseTab
  <2> QED BY <2>2, LinksTrip
<1>6. ASSUME NEW v \in Worker, WorkerTake(v) PROVE Trip(k, w)'
  BY <1>6, WorkerTakeTrip
<1>7. ASSUME NEW v \in Worker,
             WorkerRestarted(v) \/ DropWorker(v) \/ RelinkWorker(v) \/ EndWorker(v)
      PROVE  Trip(k, w)'
  BY <1>7, BreaksTrip
<1>8. ASSUME NEW v \in Worker, NEW ok \in BOOLEAN, WorkerRun(v, ok) PROVE Trip(k, w)'
  BY <1>8, WorkerRunTrip
<1>9. CASE UNCHANGED vars
  <2>1. /\ up'[k] = up[k] /\ down'[w] = down[w] /\ tasks'[w] = tasks[w] /\ back'[k] = back[k]
        /\ inFlight'[<<k, w>>] = inFlight[<<k, w>>]
    BY <1>9 DEF vars, pathVars, queueVars
  <2> QED BY <2>1, PlacesOf, TripSame
<1> QED BY <1>1, <1>2, <1>3, <1>4, <1>5, <1>6, <1>7, <1>8, <1>9 DEF PathNext

\* All trips at once.
LEMMA OwnTripsStep ==
  ASSUME PathTypeOK, PathTypeOK', QueueInv, UpIsOwn, OwnTrips, [PathNext]_vars
  PROVE  OwnTrips'
<1> SUFFICES ASSUME NEW k \in Controller, NEW w \in Worker, Owns(k, w)
             PROVE  Trip(k, w)'
  BY DEF OwnTrips, Owns, CommandsOf
<1> QED BY TripStep DEF OwnTrips
-----------------------------------------------------------------------------
(* Results are true, and own *)

\* What the queue shows for a result, and the frames that carry one.
Shown(ok) == IF ok THEN "success" ELSE "failed"
Result == {ResultFrame(c, ok) : c \in Command, ok \in BOOLEAN}

\* A result on the way back tells how its command ended, and so it has.
ResultsAreTrue ==
  \A k \in Controller : \A i \in 1..Len(back[k]) : \A c \in Command, ok \in BOOLEAN :
    back[k][i] = ResultFrame(c, ok) => outcome[c] = Shown(ok)

\* A result frame has one command, and one end of it.
LEMMA ResultFramesDiffer ==
  ASSUME NEW c, NEW d, NEW ok \in BOOLEAN, NEW b \in BOOLEAN, ResultFrame(c, ok) = ResultFrame(d, b)
  PROVE  c = d /\ ok = b
  BY DEF ResultFrame

\* Results that were true stay so while none is new and no command ends.
LEMMA TrueKept ==
  ASSUME PathTypeOK, ResultsAreTrue, outcome' = outcome,
         \A k \in Controller : \E d \in Nat : Kept(back[k], back'[k], Result, d)
  PROVE  ResultsAreTrue'
<1> SUFFICES ASSUME NEW k \in Controller, NEW i \in 1..Len(back'[k]), NEW c \in Command,
                    NEW ok \in BOOLEAN, back'[k][i] = ResultFrame(c, ok)
             PROVE  outcome'[c] = Shown(ok)
  BY DEF ResultsAreTrue
<1>1. back'[k][i] \in Result
  BY DEF Result
<1>2. PICK d \in Nat : Kept(back[k], back'[k], Result, d)
  OBVIOUS
<1>3. i + d \in 1..Len(back[k]) /\ back[k][i + d] = back'[k][i]
  BY <1>1, <1>2 DEF Kept
<1> QED BY <1>3 DEF ResultsAreTrue

\* A worker's command that has not ended: no result of it is anywhere.
LEMMA NotBackYet ==
  ASSUME PathTypeOK, PathTypeOK', ResultsAreTrue, NEW w \in Worker, NEW c \in CommandsOf(w), Solo(c),
         \/ down[w] # <<>> /\ Head(down[w]) = c
         \/ tasks[w] # <<>> /\ Head(tasks[w]) = c,
         NEW k \in Controller, NEW i \in 1..Len(back[k]), NEW ok \in BOOLEAN
  PROVE  back[k][i] # ResultFrame(c, ok)
<1> SUFFICES ASSUME back[k][i] = ResultFrame(c, ok)
             PROVE  FALSE
  OBVIOUS
<1>1. c \in Command /\ SlotOf[c][2] = w
  BY DEF CommandsOf
<1>2. outcome[c] # "none"
  <2>1. outcome[c] = Shown(ok)
    BY <1>1 DEF ResultsAreTrue
  <2> QED BY <2>1 DEF Shown
<1>3. /\ \A n \in 1..Len(Track(c)["down"]) : Track(c)["down"][n] \notin For(c)["down"]
      /\ \A n \in 1..Len(Track(c)["tasks"]) : Track(c)["tasks"][n] \notin For(c)["tasks"]
  <2>1. Free(Track(c), For(c)) /\ "down" \in Way /\ "tasks" \in Way
    BY <1>2 DEF Solo, Way
  <2> QED BY <2>1 DEF Free
<1>4. Track(c)["down"] = down[w] /\ Track(c)["tasks"] = tasks[w]
  BY <1>1, TrackIs
<1>5. c \in For(c)["down"] /\ c \in For(c)["tasks"]
  BY DEF For, Way
<1>6. \/ 1 \in 1..Len(down[w]) /\ down[w][1] = c
      \/ 1 \in 1..Len(tasks[w]) /\ tasks[w][1] = c
  BY PlacesOf
<1> QED BY <1>3, <1>4, <1>5, <1>6

\* A command ends at its worker: its result is the first, and tells the truth.
LEMMA ReportTrue ==
  ASSUME PathTypeOK, PathTypeOK', ResultsAreTrue,
         NEW w \in Worker, NEW c \in CommandsOf(w), Solo(c), NEW ok \in BOOLEAN, Report(w, c, ok),
         \/ down[w] # <<>> /\ Head(down[w]) = c
         \/ tasks[w] # <<>> /\ Head(tasks[w]) = c
  PROVE  ResultsAreTrue'
<1>1. c \in Command
  BY DEF CommandsOf
<1>2. /\ outcome' = [outcome EXCEPT ![c] = Shown(ok)]
      /\ \A k \in Controller : back'[k] \in {back[k], Append(back[k], ResultFrame(c, ok))}
  BY <1>1, Reporting DEF Shown
<1>3. outcome \in [Command -> {"none", "success", "failed"}]
  BY DEF PathTypeOK
<1> SUFFICES ASSUME NEW k \in Controller, NEW i \in 1..Len(back'[k]), NEW d \in Command,
                    NEW b \in BOOLEAN, back'[k][i] = ResultFrame(d, b)
             PROVE  outcome'[d] = Shown(b)
  BY DEF ResultsAreTrue
<1>4. back[k] \in Seq(BackFrame) /\ Len(back[k]) \in Nat
  BY DEF PathTypeOK
<1>5. CASE i \in 1..Len(back[k])
  <2>1. back[k][i] = ResultFrame(d, b)
    BY <1>2, <1>4, <1>5
  <2>2. outcome[d] = Shown(b)
    BY <1>5, <2>1 DEF ResultsAreTrue
  <2>3. d # c
    BY <1>5, <2>1, NotBackYet
  <2> QED BY <1>2, <1>3, <2>2, <2>3
<1>6. CASE i \notin 1..Len(back[k])
  <2>1. back'[k] = Append(back[k], ResultFrame(c, ok))
    BY <1>2, <1>6
  <2>2. back'[k][i] = ResultFrame(c, ok)
    BY <1>4, <1>6, <2>1
  <2>3. d = c /\ b = ok
    BY <2>2, ResultFramesDiffer
  <2> QED BY <1>1, <1>2, <1>3, <2>3
<1> QED BY <1>5, <1>6

\* And the command still shows "in flight", if its worker is exclusive.
LEMMA ReportOwn ==
  ASSUME PathTypeOK, QueueInv, OwnTrips, ResultIsOwn,
         NEW w \in Worker, NEW c \in CommandsOf(w), NEW ok \in BOOLEAN, Report(w, c, ok),
         \/ down[w] # <<>> /\ Head(down[w]) = c
         \/ tasks[w] # <<>> /\ Head(tasks[w]) = c,
         state' = state
  PROVE  ResultIsOwn'
<1>1. c \in Command /\ SlotOf[c][2] = w
  BY DEF CommandsOf
<1>2. outcome' = [outcome EXCEPT ![c] = Shown(ok)]
  BY <1>1, Reporting DEF Shown
<1>3. outcome \in [Command -> {"none", "success", "failed"}]
  BY DEF PathTypeOK
<1>4. Exclusive(w) => state[c] = "in_flight"
  <2> SUFFICES ASSUME Exclusive(w) PROVE state[c] = "in_flight"
    OBVIOUS
  <2>1. SlotOf[c] \in Slot /\ SlotOf[c][1] \in Controller /\ SlotOf[c] = <<SlotOf[c][1], w>>
        /\ Owns(SlotOf[c][1], w)
    BY <1>1, ExclusiveIsOwned
  <2>2. Trip(SlotOf[c][1], w)
    BY <2>1 DEF OwnTrips
  <2>3. c = inFlight[SlotOf[c]]
    BY <2>1, <2>2, FirstIsInFlight
  <2>4. c # NoCommand
    BY <1>1, CommandQueueAssumption
  <2> QED BY <2>1, <2>3, <2>4, InFlightIsMine
<1> SUFFICES ASSUME NEW d \in Command, Exclusive(SlotOf[d][2]), state[d] \in {"success", "failed"}
             PROVE  outcome'[d] = state[d]
  BY DEF ResultIsOwn, Exclusive
<1>5. d # c /\ outcome[d] = state[d]
  BY <1>1, <1>4 DEF ResultIsOwn
<1> QED BY <1>2, <1>3, <1>5

\* The controller takes a frame: a result is of the command it ends, if the
\* worker is exclusive; a watcher's own queue does not wait.
LEMMA TakeOwn ==
  ASSUME PathTypeOK, QueueInv, OwnTrips, ResultsAreTrue, ResultIsOwn,
         NEW k \in Controller, ControllerTake(k)
  PROVE  ResultIsOwn'
<1>1. outcome' = outcome /\ back[k] # <<>>
  BY DEF ControllerTake
<1>2. CASE Head(back[k]).type = "connected"
  <2>1. state' = state
    BY <1>2 DEF ControllerTake, queueVars
  <2> QED BY <1>1, <2>1 DEF ResultIsOwn, Exclusive
<1>3. ASSUME NEW c \in Command, NEW ok \in BOOLEAN,
             Head(back[k]) = ResultFrame(c, ok), Head(back[k]).type = "result",
             Head(back[k]).command = c, Head(back[k]).ok = ok,
             SlotOf[c][2] \in Worker, <<k, SlotOf[c][2]>> \in Slot
      PROVE  ResultIsOwn'
  <2> DEFINE w == SlotOf[c][2]
             s == <<k, w>>
             f == inFlight[s]
             q == queue[s]
             ended == [state EXCEPT ![f] = Shown(ok)]
  <2>1. HandleCommandResult(s, ok) /\ c \in CommandsOf(w) /\ s \in Slot
    BY <1>3 DEF ControllerTake, CommandsOf
  <2>2. q \in Seq(Command) /\ state \in [Command -> CommandState]
    BY <1>3 DEF QueueInv, QueueTypeOK
  <2>3. CASE f = NoCommand
    <3>1. state' = state
      BY <2>1, <2>3 DEF HandleCommandResult, queueVars
    <3> QED BY <1>1, <3>1 DEF ResultIsOwn, Exclusive
  <2>4. CASE f # NoCommand
    <3>1. f \in Command /\ SlotOf[f] = s /\ SlotOf[f][2] = w
      BY <2>1, <2>4, InFlightIsMine
    <3>2. Exclusive(w) => f = c /\ outcome[c] = Shown(ok)
      <4> SUFFICES ASSUME Exclusive(w) PROVE f = c /\ outcome[c] = Shown(ok)
        OBVIOUS
      <4>1. Owns(SlotOf[c][1], w) /\ SlotOf[c][1] = k
        <5>1. SlotOf[c] = SlotOf[f]
          BY <3>1 DEF Exclusive
        <5> QED BY <3>1, <5>1, ExclusiveIsOwned
      <4>2. Trip(k, w)
        BY <1>3, <4>1 DEF OwnTrips
      <4>3. c = f
        BY <1>1, <1>3, <2>1, <4>2, FirstIsInFlight
      <4>4. outcome[c] = Shown(ok)
        <5>1. 1 \in 1..Len(back[k]) /\ back[k][1] = ResultFrame(c, ok)
          <6>1. back[k] \in Seq(BackFrame)
            BY DEF PathTypeOK
          <6> QED BY <1>1, <1>3, <6>1
        <5> QED BY <5>1 DEF ResultsAreTrue
      <4> QED BY <4>3, <4>4
    <3>3. PICK h : ProcessNext(s, q, h, ended)
      BY <2>1, <2>4 DEF HandleCommandResult, EndInFlight, Shown
    <3>4. state' = [x \in Command |-> IF q # <<>> /\ q[1] = x THEN "in_flight" ELSE ended[x]]
      <4>1. s \in Slot
        BY <2>1
      <4> HIDE DEF s, q, ended
      <4> QED BY <2>2, <3>3, <4>1, NextSent
    <3>5. \A d \in Command : /\ d # f => ended[d] = state[d]
                             /\ d = f => ended[d] = Shown(ok)
      BY <2>2, <3>1
    <3> HIDE DEF ended
    <3> SUFFICES ASSUME NEW d \in Command, Exclusive(SlotOf[d][2]), state'[d] \in {"success", "failed"}
                 PROVE  outcome[d] = state'[d]
      BY <1>1 DEF ResultIsOwn, Exclusive
    <3>6. state'[d] = ended[d]
      BY <3>4
    <3>7. CASE d = f
      <4>1. Exclusive(w)
        BY <3>1, <3>7
      <4> QED BY <3>2, <3>5, <3>6, <3>7, <4>1
    <3>8. CASE d # f
      BY <3>5, <3>6, <3>8 DEF ResultIsOwn
    <3> QED BY <3>7, <3>8
  <2> QED BY <2>3, <2>4
<1>4. CASE \E c \in Command, ok \in BOOLEAN :
             /\ Head(back[k]) = ResultFrame(c, ok) /\ Head(back[k]).type = "result"
             /\ Head(back[k]).command = c /\ Head(back[k]).ok = ok
             /\ SlotOf[c][2] \in Worker /\ <<k, SlotOf[c][2]>> \in Slot
  BY <1>3, <1>4
<1> QED BY <1>1, <1>2, <1>4, ResultInHand

\* The user gives a command: none ends.
LEMMA SubmitOwn ==
  ASSUME QueueInv, ResultIsOwn, NEW c \in Command, Submit(c)
  PROVE  ResultIsOwn'
<1> DEFINE s == SlotOf[c]
           q == Append(queue[s], c)
           given == [state EXCEPT ![c] = "queued"]
<1>1. EnqueueCommand(c) /\ outcome' = outcome
  BY DEF Submit
<1>2. s \in Slot /\ q \in Seq(Command) /\ state \in [Command -> CommandState]
  BY CommandQueueAssumption DEF QueueInv, QueueTypeOK
<1>3. state' = given \/ \E h : ProcessNext(s, q, h, given)
  BY <1>1 DEF EnqueueCommand
<1>4. \A d \in Command : state'[d] \in {"in_flight", given[d]}
  <2>1. CASE state' = given
    BY <2>1
  <2>2. ASSUME NEW h, ProcessNext(s, q, h, given)
        PROVE  \A d \in Command : state'[d] \in {"in_flight", given[d]}
    <3>1. state' = [x \in Command |-> IF q # <<>> /\ q[1] = x THEN "in_flight" ELSE given[x]]
      <4> HIDE DEF s, q, given
      <4> QED BY <1>2, <2>2, NextSent
    <3> QED BY <3>1
  <2> QED BY <1>3, <2>1, <2>2
<1>5. \A d \in Command : given[d] \in {"queued", state[d]}
  BY <1>2
<1> HIDE DEF given
<1>6. \A d \in Command : state'[d] \in {"success", "failed"} => state'[d] = state[d]
  BY <1>4, <1>5
<1> QED BY <1>1, <1>6 DEF ResultIsOwn, Exclusive

\* What a step does to the results.
LEMMA ResultsStep ==
  ASSUME PathTypeOK, PathTypeOK', QueueInv, OwnTrips, ResultsAreTrue, ResultIsOwn,
         \A c \in Command : Solo(c), [PathNext]_vars
  PROVE  ResultsAreTrue' /\ ResultIsOwn'
<1> DEFINE Quiet == /\ outcome' = outcome
                    /\ \A k \in Controller : \E d \in Nat : Kept(back[k], back'[k], Result, d)
<1>1. ASSUME NEW k \in Controller
      PROVE  /\ back[k] \in Seq(BackFrame)
             /\ \E d \in Nat : Kept(back[k], back[k], Result, d)
             /\ back[k] # <<>> => \E d \in Nat : Kept(back[k], Tail(back[k]), Result, d)
             /\ \A n \in 0..Len(back[k]) : \E d \in Nat : Kept(back[k], SubSeq(back[k], 1, n), Result, d)
             /\ \E d \in Nat : Kept(back[k], Append(back[k], Connected), Result, d)
  <2>1. back[k] \in Seq(BackFrame)
    BY DEF PathTypeOK
  <2>2. Connected \in BackFrame
    BY DEF BackFrame
  <2>3. Connected \notin Result
    <3>1. \A c \in Command, ok \in BOOLEAN : Connected # ResultFrame(c, ok)
      BY DEF Connected, ResultFrame
    <3> QED BY <3>1 DEF Result
  <2> QED BY <2>1, <2>2, <2>3, KeptPlace
<1>2. ASSUME outcome' = outcome, back' = back PROVE Quiet
  BY <1>1, <1>2
<1>3. ASSUME Quiet PROVE ResultsAreTrue'
  BY <1>3, TrueKept
<1>4. ASSUME outcome' = outcome, state' = state PROVE ResultIsOwn'
  BY <1>4 DEF ResultIsOwn, Exclusive
<1>5. ASSUME NEW c \in Command, Submit(c) PROVE ResultsAreTrue' /\ ResultIsOwn'
  <2>1. outcome' = outcome /\ back' = back
    BY <1>5 DEF Submit
  <2> HIDE DEF Quiet
  <2> QED BY <1>2, <1>3, <1>5, <2>1, SubmitOwn
<1>6. ASSUME NEW k \in Controller, ControllerTake(k) PROVE ResultsAreTrue' /\ ResultIsOwn'
  <2>1. outcome' = outcome /\ back[k] # <<>> /\ back' = [back EXCEPT ![k] = Tail(back[k])]
    BY <1>6 DEF ControllerTake
  <2>2. \A j \in Controller : back'[j] = back[j] \/ (j = k /\ back'[j] = Tail(back[k]))
    BY <2>1 DEF PathTypeOK
  <2>3. Quiet
    BY <1>1, <2>1, <2>2
  <2> HIDE DEF Quiet
  <2> QED BY <1>3, <1>6, <2>3, TakeOwn
<1>7. ASSUME NEW k \in Controller, DropController(k) PROVE ResultsAreTrue' /\ ResultIsOwn'
  <2>1. PICK n \in 0..Len(back[k]) : back' = [back EXCEPT ![k] = SubSeq(back[k], 1, n)]
    BY <1>7 DEF DropController
  <2>2. outcome' = outcome /\ state' = state
    BY <1>7 DEF DropController, queueVars
  <2>3. \A j \in Controller : back'[j] = back[j] \/ (j = k /\ back'[j] = SubSeq(back[k], 1, n))
    BY <2>1 DEF PathTypeOK
  <2>4. Quiet
    <3> SUFFICES ASSUME NEW j \in Controller
                 PROVE  \E d \in Nat : Kept(back[j], back'[j], Result, d)
      BY <2>2
    <3> QED BY <1>1, <2>3
  <2> HIDE DEF Quiet
  <2> QED BY <1>3, <1>4, <2>2, <2>4
<1>8. ASSUME NEW k \in Controller, RelinkController(k) PROVE ResultsAreTrue' /\ ResultIsOwn'
  <2>1. /\ back' = [back EXCEPT ![k] = Append(back[k], Connected)]
        /\ outcome' = outcome /\ state' = state
    BY <1>8 DEF RelinkController, queueVars
  <2>2. \A j \in Controller : back'[j] = back[j] \/ (j = k /\ back'[j] = Append(back[k], Connected))
    BY <2>1 DEF PathTypeOK
  <2>3. Quiet
    BY <1>1, <2>1, <2>2
  <2> HIDE DEF Quiet
  <2> QED BY <1>3, <1>4, <2>1, <2>3
<1> HIDE DEF Quiet
<1>9. ASSUME NEW k \in Controller, ServerTake(k) PROVE ResultsAreTrue' /\ ResultIsOwn'
  <2>1. outcome' = outcome /\ back' = back /\ state' = state
    BY <1>9 DEF ServerTake, queueVars
  <2> QED BY <1>2, <1>3, <1>4, <2>1
<1>10. ASSUME NEW k \in Controller, NEW w \in Worker, OpenTab(k, w) \/ CloseTab(k, w)
       PROVE  ResultsAreTrue' /\ ResultIsOwn'
  <2>1. outcome' = outcome /\ back' = back /\ state' = state
    BY <1>10 DEF OpenTab, CloseTab, ChangeTabs, queueVars
  <2> QED BY <1>2, <1>3, <1>4, <2>1
<1>11. ASSUME NEW w \in Worker, WorkerTake(w) PROVE ResultsAreTrue' /\ ResultIsOwn'
  <2> DEFINE c == Head(down[w])
  <2>1. state' = state /\ down[w] # <<>> /\ c \in CommandsOf(w) /\ Solo(c)
    BY <1>11, WorkInHand DEF WorkerTake, queueVars
  <2>2. CASE c \in Restarts
    <3>1. Report(w, c, TRUE)
      BY <1>11, <2>2 DEF WorkerTake
    <3>2. \A ok \in BOOLEAN : Report(w, c, ok) => ResultsAreTrue' /\ ResultIsOwn'
      BY <2>1, ReportTrue, ReportOwn
    <3> QED BY <3>1, <3>2
  <2>3. CASE c \notin Restarts
    <3>1. outcome' = outcome /\ back' = back
      BY <1>11, <2>3 DEF WorkerTake
    <3> QED BY <1>2, <1>3, <1>4, <2>1, <3>1
  <2> QED BY <2>2, <2>3
<1>12. ASSUME NEW w \in Worker, NEW ok \in BOOLEAN, WorkerRun(w, ok)
       PROVE  ResultsAreTrue' /\ ResultIsOwn'
  <2> DEFINE c == Head(tasks[w])
  <2>1. /\ state' = state /\ tasks[w] # <<>> /\ c \in CommandsOf(w) /\ Solo(c)
        /\ Report(w, c, ok)
    BY <1>12, WorkInHand DEF WorkerRun, queueVars
  <2> QED BY <2>1, ReportTrue, ReportOwn
<1>13. ASSUME NEW w \in Worker,
              WorkerRestarted(w) \/ DropWorker(w) \/ RelinkWorker(w) \/ EndWorker(w)
       PROVE  ResultsAreTrue' /\ ResultIsOwn'
  <2>1. outcome' = outcome /\ back' = back /\ state' = state
    BY <1>13 DEF WorkerRestarted, DropWorker, RelinkWorker, EndWorker, queueVars
  <2> QED BY <1>2, <1>3, <1>4, <2>1
<1>14. CASE UNCHANGED vars
  <2>1. outcome' = outcome /\ back' = back /\ state' = state
    BY <1>14 DEF vars, pathVars, queueVars
  <2> QED BY <1>2, <1>3, <1>4, <2>1
<1> QED BY <1>5, <1>6, <1>7, <1>8, <1>9, <1>10, <1>11, <1>12, <1>13, <1>14 DEF PathNext
-----------------------------------------------------------------------------
(* Restarts, and the theorems *)

\* A restart begins on an idle browser, and no command joins it.
LEMMA RestartStep ==
  ASSUME PathTypeOK, OwnTrips, RestartIsExclusive, [PathNext]_vars
  PROVE  RestartIsExclusive'
<1>1. ASSUME NEW w \in Worker, WorkerTake(w) PROVE RestartIsExclusive'
  <2> DEFINE c == Head(down[w])
  <2>1. down[w] # <<>> /\ restarting[w] = NoCommand /\ c \in CommandsOf(w) /\ c \in Command
    BY <1>1, WorkInHand DEF WorkerTake
  <2>2. CASE c \in Restarts
    <3>1. restarting' = [restarting EXCEPT ![w] = c] /\ tasks' = tasks
      BY <1>1, <2>2 DEF WorkerTake
    <3>2. Exclusive(w) => tasks[w] = <<>>
      <4> SUFFICES ASSUME Exclusive(w), tasks[w] # <<>> PROVE FALSE
        OBVIOUS
      <4> DEFINE k == SlotOf[c][1]
      <4>1. k \in Controller /\ Owns(k, w)
        BY <2>1, ExclusiveIsOwned DEF CommandsOf
      <4> HIDE DEF k
      <4>2. /\ 1 \in 1..Len(down[w]) /\ down[w][1] \in Items(w)["down"]
            /\ 1 \in 1..Len(tasks[w]) /\ tasks[w][1] \in Items(w)["tasks"]
        BY <2>1, <4>1, WorkInHand, PlacesOf, ItemsAre
      <4>3. Alone(On(k, w), Items(w))
        BY <4>1 DEF OwnTrips, Trip
      <4>4. /\ On(k, w)["down"] = down[w] /\ On(k, w)["tasks"] = tasks[w]
            /\ "down" \in Way /\ "tasks" \in Way /\ "down" # "tasks"
        BY <4>1, Places DEF Way
      <4>5. \A a, b \in Way : \A m \in 1..Len(On(k, w)[a]), n \in 1..Len(On(k, w)[b]) :
              On(k, w)[a][m] \in Items(w)[a] /\ On(k, w)[b][n] \in Items(w)[b] => a = b /\ m = n
        BY <4>3 DEF Alone
      <4> QED BY <4>2, <4>4, <4>5
    <3> QED BY <3>1, <3>2 DEF RestartIsExclusive, Exclusive, PathTypeOK
  <2>3. CASE c \notin Restarts
    <3>1. restarting' = restarting /\ tasks' = [tasks EXCEPT ![w] = Append(tasks[w], c)]
      BY <1>1, <2>3 DEF WorkerTake
    <3> QED BY <2>1, <3>1 DEF RestartIsExclusive, Exclusive, PathTypeOK
  <2> QED BY <2>2, <2>3
<1>2. ASSUME NEW w \in Worker, NEW ok \in BOOLEAN, WorkerRun(w, ok) PROVE RestartIsExclusive'
  BY <1>2 DEF WorkerRun, RestartIsExclusive, Exclusive, PathTypeOK
<1>3. ASSUME NEW w \in Worker, WorkerRestarted(w) PROVE RestartIsExclusive'
  BY <1>3 DEF WorkerRestarted, RestartIsExclusive, Exclusive, PathTypeOK
<1>4. ASSUME NEW w \in Worker, EndWorker(w) PROVE RestartIsExclusive'
  BY <1>4 DEF EndWorker, RestartIsExclusive, Exclusive, PathTypeOK
<1>5. ASSUME NEW w \in Worker, DropWorker(w) \/ RelinkWorker(w) PROVE RestartIsExclusive'
  BY <1>5 DEF DropWorker, RelinkWorker, RestartIsExclusive, Exclusive
<1>6. ASSUME NEW c \in Command, Submit(c) PROVE RestartIsExclusive'
  BY <1>6 DEF Submit, RestartIsExclusive, Exclusive
<1>7. ASSUME NEW k \in Controller,
             ServerTake(k) \/ ControllerTake(k) \/ DropController(k) \/ RelinkController(k)
      PROVE  RestartIsExclusive'
  BY <1>7 DEF ServerTake, ControllerTake, DropController, RelinkController, RestartIsExclusive, Exclusive
<1>8. ASSUME NEW k \in Controller, NEW w \in Worker, OpenTab(k, w) \/ CloseTab(k, w)
      PROVE  RestartIsExclusive'
  BY <1>8 DEF OpenTab, CloseTab, ChangeTabs, RestartIsExclusive, Exclusive
<1>9. CASE UNCHANGED vars
  BY <1>9 DEF vars, pathVars, RestartIsExclusive, Exclusive
<1> QED BY <1>1, <1>2, <1>3, <1>4, <1>5, <1>6, <1>7, <1>8, <1>9 DEF PathNext

\* The inductive invariant.
PathInv == PathOnceInv /\ OwnTrips /\ ResultsAreTrue /\ ResultIsOwn /\ RestartIsExclusive

\* It holds at the start ...
LEMMA PathStart == PathInit => PathInv
<1> SUFFICES ASSUME PathInit PROVE PathInv
  OBVIOUS
<1>1. PathOnceInv
  BY PathOnceStart
<1>2. 1..Len(<<>>) = {}
  BY EmptySeq
<1>3. OwnTrips
  <2> SUFFICES ASSUME NEW k \in Controller, NEW w \in Worker PROVE Trip(k, w)
    BY DEF OwnTrips
  <2>1. up[k] = <<>> /\ down[w] = <<>> /\ tasks[w] = <<>> /\ back[k] = <<>>
    BY DEF PathInit
  <2>2. \A a \in Way : On(k, w)[a] = <<>>
    BY <2>1, Places DEF Way
  <2>3. Free(On(k, w), Items(w))
    BY <1>2, <2>2 DEF Free
  <2> QED BY <2>3, FreeTrip DEF Trip
<1>4. ResultsAreTrue
  <2>1. \A k \in Controller : back[k] = <<>>
    BY DEF PathInit
  <2> QED BY <1>2, <2>1 DEF ResultsAreTrue
<1>5. ResultIsOwn
  BY DEF PathInit, QueueInit, ResultIsOwn
<1>6. RestartIsExclusive
  BY DEF PathInit, RestartIsExclusive
<1> QED BY <1>1, <1>3, <1>4, <1>5, <1>6 DEF PathInv

\* ... and ever after.
LEMMA PathInvHolds == PathSpec => []PathInv
<1>1. PathOnceInv' /\ PathInv /\ [PathNext]_vars => PathInv'
  <2> SUFFICES ASSUME PathOnceInv', PathInv, [PathNext]_vars PROVE PathInv'
    OBVIOUS
  <2>1. /\ PathTypeOK /\ QueueInv /\ UpIsOwn /\ \A c \in Command : Solo(c)
        /\ OwnTrips /\ ResultsAreTrue /\ ResultIsOwn /\ RestartIsExclusive
    BY DEF PathInv, PathOnceInv, PathBase
  <2>2. PathTypeOK'
    BY DEF PathOnceInv, PathBase
  <2>3. OwnTrips'
    BY <2>1, <2>2, OwnTripsStep
  <2>4. ResultsAreTrue' /\ ResultIsOwn'
    BY <2>1, <2>2, ResultsStep
  <2>5. RestartIsExclusive'
    BY <2>1, RestartStep
  <2> QED BY <2>3, <2>4, <2>5 DEF PathInv
<1> QED BY <1>1, PathStart, PathOnceHolds, PTL DEF PathSpec

\* Where one controller only gives commands to a worker, no command is on its
\* way to the browser or under its hands but the one shown as in flight,
\* whatever breaks (the queue sends after a result only, and no result is
\* repeated).
THEOREM PathCarriesOne == PathSpec => []UnderWayIsInFlight
<1>1. PathInv => UnderWayIsInFlight
  <2> SUFFICES ASSUME PathInv, NEW s \in Slot, Exclusive(s[2]), NEW c \in UnderWay(s)
               PROVE  c = inFlight[s]
    BY DEF UnderWayIsInFlight
  <2> DEFINE k == s[1]
             w == s[2]
  <2>1. k \in Controller /\ w \in Worker /\ s = <<k, w>>
    BY DEF Slot
  <2>2. c \in CommandsOf(w) /\ c \in Command
    BY DEF UnderWay, CommandsOf
  <2>3. \/ CommandFrame(c) \in SeqSet(up[k]) \/ c \in SeqSet(down[w]) \/ c \in SeqSet(tasks[w])
    BY DEF UnderWay
  <2> HIDE DEF k, w
  <2>4. PathTypeOK /\ Carries(On(k, w), Items(w), For(inFlight[s]))
    <3>1. SlotOf[c] = s
      BY DEF UnderWay
    <3>2. Owns(k, w)
      BY <2>2, <3>1, ExclusiveIsOwned DEF k, w
    <3> QED BY <2>1, <3>2 DEF PathInv, PathOnceInv, PathBase, OwnTrips, Trip
  <2>5. up[k] \in Seq(UpFrame) /\ down[w] \in Seq(Command) /\ tasks[w] \in Seq(Command)
    BY <2>1, <2>4, PlacesOf
  <2>6. ASSUME NEW a \in Way, NEW x \in SeqSet(On(k, w)[a]), On(k, w)[a] \in Seq(Item), x \in Items(w)[a]
        PROVE  x \in For(inFlight[s])[a]
    <3>1. DOMAIN On(k, w)[a] = 1..Len(On(k, w)[a])
      BY <2>6
    <3> QED BY <2>4, <2>6, <3>1 DEF SeqSet, Carries
  <2>7. \A a \in Way : On(k, w)[a] \in Seq(Item)
    BY <2>1, <2>4, PlacesType
  <2>8. /\ On(k, w)["up"] = up[k] /\ On(k, w)["down"] = down[w] /\ On(k, w)["tasks"] = tasks[w]
        /\ "up" \in Way /\ "down" \in Way /\ "tasks" \in Way
    BY <2>1, Places DEF Way
  <2>9. CommandFrame(c) \in Items(w)["up"] /\ c \in Items(w)["down"] /\ c \in Items(w)["tasks"]
    BY <2>1, <2>2, ItemsAre
  <2>10. /\ For(inFlight[s])["up"] = {CommandFrame(inFlight[s])}
         /\ For(inFlight[s])["down"] = {inFlight[s]} /\ For(inFlight[s])["tasks"] = {inFlight[s]}
    BY DEF For, Way
  <2>11. CommandFrame(c) = CommandFrame(inFlight[s]) => c = inFlight[s]
    BY DEF CommandFrame
  <2>12. CASE CommandFrame(c) \in SeqSet(up[k])
    BY <2>6, <2>7, <2>8, <2>9, <2>10, <2>11, <2>12
  <2>13. CASE c \in SeqSet(down[w])
    BY <2>6, <2>7, <2>8, <2>9, <2>10, <2>13
  <2>14. CASE c \in SeqSet(tasks[w])
    BY <2>6, <2>7, <2>8, <2>9, <2>10, <2>14
  <2> QED BY <2>3, <2>12, <2>13, <2>14
<1> QED BY <1>1, PathInvHolds, PTL

\* There, a command shown as succeeded or failed did end that way, although
\* results carry no command id (command_queue.py:106-131).
THEOREM PathResultsAreOwn == PathSpec => []ResultIsOwn
<1>1. PathInv => ResultIsOwn
  BY DEF PathInv
<1> QED BY <1>1, PathInvHolds, PTL

\* There, no command runs on a browser that is being restarted
\* (worker.py:339-364).
THEOREM PathRestartsAlone == PathSpec => []RestartIsExclusive
<1>1. PathInv => RestartIsExclusive
  BY DEF PathInv
<1> QED BY <1>1, PathInvHolds, PTL
=============================================================================
