-------------------------- MODULE SharedPathProofs --------------------------
(***************************************************************************)
(* What TLAPS proves of CommandPath with any number of controllers: the    *)
(* queues keep their order on the path, no command runs twice, and while   *)
(* nothing breaks no command in flight is forgotten.                       *)
(***************************************************************************)
EXTENDS CommandPathProofs

\* What every proof below starts from.
PathBase == QueueInv /\ PathTypeOK

\* The queues and the types need no other invariant.
LEMMA BaseStep == ASSUME PathBase, [PathNext]_vars PROVE PathBase'
<1>1. [QueueNext]_queueVars
  BY PathIsQueue DEF PathBase
<1>2. QueueInv'
  BY <1>1, QueueStep, PlacedStep DEF PathBase, QueueInv
<1> QED BY <1>2, PathTypeStep DEF PathBase, QueueInv

\* The path starts with it ...
LEMMA BaseStart == PathInit => PathBase
<1> SUFFICES ASSUME PathInit PROVE PathBase
  OBVIOUS
<1>1. QueueInv
  BY QueueStart, PlacedStart DEF PathInit, QueueInv
<1>2. PathTypeOK
  <2>1. /\ <<>> \in Seq(UpFrame) /\ <<>> \in Seq(BackFrame) /\ <<>> \in Seq(Command)
        /\ \A w \in Worker : <<>> \in Seq(CommandsOf(w))
    BY EmptySeq
  <2> QED BY <2>1 DEF PathInit, PathTypeOK
<1> QED BY <1>1, <1>2 DEF PathBase

\* ... and keeps it.
LEMMA BaseHolds == PathSpec => []PathBase
<1>1. PathBase /\ [PathNext]_vars => PathBase'
  BY BaseStep
<1> QED BY <1>1, BaseStart, PTL DEF PathSpec

\* On the path the queues are those of CommandQueue: what Submit and
\* ControllerTake ask of them is what command_queue.py offers, so everything
\* proved of CommandQueue holds here.
THEOREM PathRunsTheQueues == PathSpec => QueueSpec
<1>1. PathBase /\ [PathNext]_vars => [QueueNext]_queueVars
  BY PathIsQueue DEF PathBase
<1>2. PathInit => QueueInit
  BY DEF PathInit
<1> QED BY <1>1, <1>2, BaseHolds, PTL DEF PathSpec, QueueSpec

\* On the path, too, each queue sends its commands in the order in which they
\* were given (command_queue.py), however many controllers share the workers.
THEOREM PathKeepsOrder == PathSpec => KeepsOrder
  BY PathRunsTheQueues, QueueKeepsOrder

\* A command is given.
LEMMA Given ==
  ASSUME PathTypeOK, QueueInv, NEW c \in Command, EnqueueCommand(c), SendDispatched(SlotOf[c])
  PROVE  /\ state[c] = "new" /\ state' \in [Command -> CommandState]
         /\ \A d \in Command \ {c} : state'[d] = state[d]
         /\ \/ up' = up /\ inFlight' = inFlight /\ inFlight[SlotOf[c]] # NoCommand /\ state'[c] = "queued"
            \/ /\ inFlight' = [inFlight EXCEPT ![SlotOf[c]] = c] /\ state'[c] = "in_flight"
               /\ Send(SlotOf[c][1], CommandFrame(c))
<1> DEFINE s == SlotOf[c]
           given == [state EXCEPT ![c] = "queued"]
<1>1. /\ s \in Slot /\ c # NoCommand /\ inFlight \in [Slot -> Command \cup {NoCommand}]
      /\ queue[s] \in Seq(Command) /\ state \in [Command -> CommandState] /\ state[c] = "new"
  BY CommandQueueAssumption DEF QueueInv, QueueTypeOK, EnqueueCommand
<1>2. given \in [Command -> CommandState] /\ given[c] = "queued" /\ \A d \in Command \ {c} : given[d] = state[d]
  BY <1>1 DEF CommandState
<1>3. CASE inFlight[s] # NoCommand
  <2>1. inFlight' = inFlight /\ state' = given
    BY <1>3 DEF EnqueueCommand
  <2>2. up' = up
    BY <2>1 DEF SendDispatched
  <2> QED BY <1>1, <1>2, <1>3, <2>1, <2>2
<1>4. CASE inFlight[s] = NoCommand
  <2> DEFINE q == Append(queue[s], c)
  <2>1. q \in Seq(Command) /\ q # <<>> /\ q[1] = c
    <3>1. queue[s] = <<>>
      BY <1>1, <1>4 DEF QueueInv, NoIdleBacklog
    <3> QED BY <1>1, <3>1
  <2>2. ProcessNext(s, q, history[s], given)
    BY <1>4 DEF EnqueueCommand
  <2> HIDE DEF q, given
  <2>3. /\ inFlight' = [inFlight EXCEPT ![s] = IF q = <<>> THEN NoCommand ELSE q[1]]
        /\ state' = [d \in Command |-> IF q # <<>> /\ q[1] = d THEN "in_flight" ELSE given[d]]
    BY <1>1, <2>1, <2>2, NextSent
  <2>4. inFlight' = [inFlight EXCEPT ![s] = c] /\ inFlight'[s] = c
    BY <1>1, <2>1, <2>3
  <2>5. state' = [d \in Command |-> IF c = d THEN "in_flight" ELSE given[d]]
    BY <2>1, <2>3
  <2>6. /\ state' \in [Command -> CommandState] /\ state'[c] = "in_flight"
        /\ \A d \in Command \ {c} : state'[d] = state[d]
    BY <1>2, <2>5 DEF CommandState
  <2>7. Send(s[1], CommandFrame(c))
    BY <1>1, <1>4, <2>4 DEF SendDispatched
  <2> QED BY <1>1, <2>4, <2>6, <2>7
<1> QED BY <1>3, <1>4

\* A result is taken.
LEMMA Answered ==
  ASSUME PathTypeOK, QueueInv, NEW s \in Slot, NEW ok \in BOOLEAN,
         HandleCommandResult(s, ok), SendDispatched(s)
  PROVE  \/ UNCHANGED queueVars /\ up' = up /\ inFlight[s] = NoCommand
         \/ /\ inFlight[s] # NoCommand /\ state' \in [Command -> CommandState]
            /\ state'[inFlight[s]] \in Ended
            /\ \/ /\ inFlight' = [inFlight EXCEPT ![s] = NoCommand] /\ up' = up
                  /\ \A d \in Command \ {inFlight[s]} : state'[d] = state[d]
               \/ \E n \in Command \ {inFlight[s]} :
                    /\ SlotOf[n] = s /\ state[n] = "queued" /\ state'[n] = "in_flight"
                    /\ inFlight' = [inFlight EXCEPT ![s] = n] /\ Send(s[1], CommandFrame(n))
                    /\ \A d \in Command \ {n, inFlight[s]} : state'[d] = state[d]
<1>1. /\ inFlight \in [Slot -> Command \cup {NoCommand}] /\ NoCommand \notin Command
      /\ queue[s] \in Seq(Command) /\ state \in [Command -> CommandState]
  BY CommandQueueAssumption DEF QueueInv, QueueTypeOK
<1>2. CASE inFlight[s] = NoCommand
  <2>1. UNCHANGED queueVars /\ inFlight' = inFlight
    BY <1>2 DEF HandleCommandResult, queueVars
  <2> QED BY <1>2, <2>1 DEF SendDispatched
<1>3. CASE inFlight[s] # NoCommand
  <2> DEFINE f == inFlight[s]
             end == IF ok THEN "success" ELSE "failed"
             ended == [state EXCEPT ![f] = end]
             q == queue[s]
  <2>1. f \in Command /\ state[f] = "in_flight" /\ end \in Ended
    BY <1>3, InFlightIsMine DEF Ended
  <2>2. /\ ended \in [Command -> CommandState] /\ ended[f] = end
        /\ \A d \in Command \ {f} : ended[d] = state[d]
    BY <1>1, <2>1 DEF CommandState
  <2>3. PICK h : ProcessNext(s, q, h, ended)
    BY <1>3 DEF HandleCommandResult, EndInFlight
  <2> HIDE DEF ended
  <2>4. /\ inFlight' = [inFlight EXCEPT ![s] = IF q = <<>> THEN NoCommand ELSE q[1]]
        /\ state' = [d \in Command |-> IF q # <<>> /\ q[1] = d THEN "in_flight" ELSE ended[d]]
    BY <1>1, <2>3, NextSent
  <2>5. state' \in [Command -> CommandState]
    BY <2>2, <2>4 DEF CommandState
  <2>6. CASE q = <<>>
    <3>1. inFlight' = [inFlight EXCEPT ![s] = NoCommand] /\ inFlight'[s] = NoCommand
      BY <1>1, <2>4, <2>6
    <3>2. up' = up
      BY <3>1 DEF SendDispatched
    <3>3. state'[f] = end /\ \A d \in Command \ {f} : state'[d] = state[d]
      BY <2>1, <2>2, <2>4, <2>6
    <3> HIDE DEF end
    <3> QED BY <1>3, <2>1, <2>5, <3>1, <3>2, <3>3
  <2>7. CASE q # <<>>
    <3> DEFINE n == q[1]
    <3>1. n \in Command /\ SlotOf[n] = s /\ state[n] = "queued"
      BY <2>7, FirstIsMine
    <3>2. n # f
      BY <2>1, <3>1
    <3>3. inFlight' = [inFlight EXCEPT ![s] = n] /\ inFlight'[s] = n
      BY <1>1, <2>4, <2>7
    <3>4. Send(s[1], CommandFrame(n))
      BY <1>1, <3>1, <3>2, <3>3 DEF SendDispatched
    <3>5. /\ state'[n] = "in_flight" /\ state'[f] = end
          /\ \A d \in Command \ {n, f} : state'[d] = state[d]
      BY <2>1, <2>2, <2>4, <2>7, <3>1, <3>2
    <3> HIDE DEF end, n
    <3> QED BY <1>3, <2>1, <2>5, <3>1, <3>2, <3>3, <3>4, <3>5
  <2> QED BY <2>6, <2>7
<1> QED BY <1>2, <1>3
-----------------------------------------------------------------------------
(* One command, in one place *)

\* The way of c as far as the end of its run.
Track(c) == [a \in Way |-> IF a = "up" THEN up[SlotOf[c][1]]
                           ELSE IF a = "down" THEN down[SlotOf[c][2]]
                           ELSE IF a = "tasks" THEN tasks[SlotOf[c][2]] ELSE <<>>]

\* The places of a track, before and after a step.
LEMMA TrackIs ==
  ASSUME PathTypeOK, PathTypeOK', NEW c \in Command
  PROVE  /\ SlotOf[c] \in Slot /\ SlotOf[c][1] \in Controller /\ SlotOf[c][2] \in Worker
         /\ Track(c)["up"] = up[SlotOf[c][1]] /\ Track(c)'["up"] = up'[SlotOf[c][1]]
         /\ Track(c)["down"] = down[SlotOf[c][2]] /\ Track(c)'["down"] = down'[SlotOf[c][2]]
         /\ Track(c)["tasks"] = tasks[SlotOf[c][2]] /\ Track(c)'["tasks"] = tasks'[SlotOf[c][2]]
         /\ Track(c)["back"] = <<>> /\ Track(c)'["back"] = <<>>
         /\ \A a \in Way : /\ Track(c)[a] \in Seq(Item) /\ Len(Track(c)[a]) \in Nat
                           /\ Track(c)'[a] \in Seq(Item) /\ Len(Track(c)'[a]) \in Nat
<1>1. SlotOf[c] \in Slot /\ SlotOf[c][1] \in Controller /\ SlotOf[c][2] \in Worker
  BY CommandQueueAssumption DEF Slot
<1>2. /\ Track(c)["up"] = up[SlotOf[c][1]] /\ Track(c)'["up"] = up'[SlotOf[c][1]]
      /\ Track(c)["down"] = down[SlotOf[c][2]] /\ Track(c)'["down"] = down'[SlotOf[c][2]]
      /\ Track(c)["tasks"] = tasks[SlotOf[c][2]] /\ Track(c)'["tasks"] = tasks'[SlotOf[c][2]]
      /\ Track(c)["back"] = <<>> /\ Track(c)'["back"] = <<>>
  BY DEF Track, Way
<1>3. ASSUME NEW X, X \subseteq Item, NEW fs \in Seq(X)
      PROVE  fs \in Seq(Item) /\ Len(fs) \in Nat
  <2>1. fs \in [1..Len(fs) -> X] /\ Len(fs) \in Nat
    OBVIOUS
  <2>2. fs \in [1..Len(fs) -> Item]
    BY <1>3, <2>1
  <2> QED BY <2>1, <2>2, SeqDef
<1>4. /\ up[SlotOf[c][1]] \in Seq(UpFrame) /\ up'[SlotOf[c][1]] \in Seq(UpFrame)
      /\ down[SlotOf[c][2]] \in Seq(Command) /\ down'[SlotOf[c][2]] \in Seq(Command)
      /\ tasks[SlotOf[c][2]] \in Seq(Command) /\ tasks'[SlotOf[c][2]] \in Seq(Command)
  BY <1>1 DEF PathTypeOK
<1>5. UpFrame \subseteq Item /\ Command \subseteq Item
  BY DEF Item
<1>6. <<>> \in Seq(Item) /\ Len(<<>>) \in Nat
  BY EmptySeq
<1>7. /\ Track(c)["up"] \in Seq(Item) /\ Track(c)["down"] \in Seq(Item) /\ Track(c)["tasks"] \in Seq(Item)
      /\ Track(c)'["up"] \in Seq(Item) /\ Track(c)'["down"] \in Seq(Item) /\ Track(c)'["tasks"] \in Seq(Item)
  BY <1>2, <1>3, <1>4, <1>5
<1>8. \A a \in Way : Track(c)[a] \in Seq(Item) /\ Track(c)'[a] \in Seq(Item)
  BY <1>2, <1>6, <1>7 DEF Way
<1>9. \A a \in Way : Len(Track(c)[a]) \in Nat /\ Len(Track(c)'[a]) \in Nat
  BY <1>8
<1> QED BY <1>1, <1>2, <1>8, <1>9

\* c has not left its queue.
Unsent(c) == state[c] \in {"new", "queued"}

\* c is in one place at most, in none once it has ended, and nowhere before it
\* is sent.
Solo(c) ==
  /\ Alone(Track(c), For(c))
  /\ outcome[c] # "none" => Free(Track(c), For(c))
  /\ Unsent(c) => Free(Track(c), For(c)) /\ outcome[c] = "none"

\* Nothing of c is new.
LEMMA SoloKept ==
  ASSUME PathTypeOK, PathTypeOK', NEW c \in Command, Solo(c),
         \E d \in Nat : Kept(up[SlotOf[c][1]], up'[SlotOf[c][1]], {CommandFrame(c)}, d),
         \E d \in Nat : Kept(down[SlotOf[c][2]], down'[SlotOf[c][2]], {c}, d),
         \E d \in Nat : Kept(tasks[SlotOf[c][2]], tasks'[SlotOf[c][2]], {c}, d),
         outcome'[c] = outcome[c], Unsent(c)' => Unsent(c)
  PROVE  Solo(c)'
<1> DEFINE q == Track(c)
           r == Track(c)'
           S == For(c)
<1>1. PICK du \in Nat : Kept(up[SlotOf[c][1]], up'[SlotOf[c][1]], {CommandFrame(c)}, du)
  OBVIOUS
<1>2. PICK dd \in Nat : Kept(down[SlotOf[c][2]], down'[SlotOf[c][2]], {c}, dd)
  OBVIOUS
<1>3. PICK dt \in Nat : Kept(tasks[SlotOf[c][2]], tasks'[SlotOf[c][2]], {c}, dt)
  OBVIOUS
<1> DEFINE d == [a \in Way |-> IF a = "up" THEN du ELSE IF a = "down" THEN dd
                               ELSE IF a = "tasks" THEN dt ELSE 0]
<1>4. /\ d \in [Way -> Nat]
      /\ d["up"] = du /\ d["down"] = dd /\ d["tasks"] = dt /\ d["back"] = 0
  BY DEF Way
<1>5. /\ q["up"] = up[SlotOf[c][1]] /\ q["down"] = down[SlotOf[c][2]] /\ q["tasks"] = tasks[SlotOf[c][2]]
      /\ r["up"] = up'[SlotOf[c][1]] /\ r["down"] = down'[SlotOf[c][2]] /\ r["tasks"] = tasks'[SlotOf[c][2]]
      /\ q["back"] = <<>> /\ r["back"] = <<>>
  BY TrackIs
<1>6. S["up"] = {CommandFrame(c)} /\ S["down"] = {c} /\ S["tasks"] = {c}
  BY DEF For, Way
<1>7. \A a \in Way : Len(r[a]) \in Nat
  BY TrackIs
<1>8. Kept(<<>>, <<>>, S["back"], 0)
  BY KeptNone
<1> HIDE DEF q, r, S, d
<1>9. \A a \in Way : Kept(q[a], r[a], S[a], d[a])
  BY <1>1, <1>2, <1>3, <1>4, <1>5, <1>6, <1>8 DEF Way
<1>10. (Alone(q, S) => Alone(r, S)) /\ (Free(q, S) => Free(r, S))
  BY <1>4, <1>7, <1>9, KeptTrip
<1>11. (Alone(Track(c), For(c)) => Alone(Track(c)', For(c))) /\ (Free(Track(c), For(c)) => Free(Track(c)', For(c)))
  BY <1>10 DEF q, r, S
<1> QED BY <1>11 DEF Solo

\* c goes on from a to b, or is lost.
LEMMA SoloPassed ==
  ASSUME PathTypeOK, PathTypeOK', NEW c \in Command, Solo(c),
         NEW a \in Way, NEW b \in Way \ {a}, b \in {"down", "tasks"},
         Track(c)[a] # <<>>, Head(Track(c)[a]) \in For(c)[a],
         Track(c)'[a] = Tail(Track(c)[a]),
         Track(c)'[b] \in {Track(c)[b], Append(Track(c)[b], c)},
         \A e \in Way \ {a, b} : Track(c)'[e] = Track(c)[e],
         outcome'[c] = outcome[c], Unsent(c)' => Unsent(c)
  PROVE  Solo(c)'
<1> DEFINE q == Track(c)
           r == Track(c)'
           S == For(c)
<1>1. c \in S[b] /\ c \in Item
  BY DEF For, Way, Item
<1>2. \A e \in Way : q[e] \in Seq(Item)
  BY TrackIs
<1>3. 1 \in 1..Len(q[a]) /\ q[a][1] = Head(q[a])
  BY <1>2
<1>4. ~Free(q, S)
  BY <1>3 DEF Free
<1>5. Alone(q, S) /\ outcome[c] = "none" /\ ~Unsent(c)
  BY <1>4 DEF Solo
<1>6. /\ q[a] # <<>> /\ Head(q[a]) \in S[a]
      /\ r[a] = Tail(q[a]) /\ r[b] \in {q[b], Append(q[b], c)}
      /\ \A e \in Way \ {a, b} : r[e] = q[e]
  OBVIOUS
<1> HIDE DEF q, r, S
<1>7. Alone(r, S)
  BY <1>1, <1>2, <1>5, <1>6, PassedTrip
<1>8. Alone(Track(c)', For(c))
  BY <1>7 DEF r, S
<1> QED BY <1>5, <1>8 DEF Solo

\* c has ended at the worker.
LEMMA SoloEnded ==
  ASSUME PathTypeOK, PathTypeOK', NEW c \in Command, Solo(c), NEW a \in Way,
         Track(c)[a] # <<>>, Head(Track(c)[a]) \in For(c)[a],
         Track(c)'[a] = Tail(Track(c)[a]),
         \A e \in Way \ {a} : Track(c)'[e] = Track(c)[e],
         Unsent(c)' => Unsent(c)
  PROVE  Solo(c)'
<1> DEFINE q == Track(c)
           r == Track(c)'
           S == For(c)
           d == [e \in Way |-> IF e = a THEN 1 ELSE 0]
<1>1. d \in [Way -> Nat] /\ d[a] = 1 /\ d[a] > 0 /\ \A e \in Way \ {a} : d[e] = 0
  OBVIOUS
<1>2. \A e \in Way : q[e] \in Seq(Item) /\ Len(r[e]) \in Nat
  BY TrackIs
<1>3. 1 \in 1..Len(q[a]) /\ q[a][1] = Head(q[a])
  BY <1>2
<1>4. ~Free(q, S)
  BY <1>3 DEF Free
<1>5. Alone(q, S) /\ ~Unsent(c)
  BY <1>4 DEF Solo
<1>6. /\ q[a] # <<>> /\ Head(q[a]) \in S[a]
      /\ r[a] = Tail(q[a]) /\ \A e \in Way \ {a} : r[e] = q[e]
  OBVIOUS
<1> HIDE DEF q, r, S, d
<1>7. \A e \in Way : Kept(q[e], r[e], S[e], d[e])
  BY <1>1, <1>2, <1>6, KeptTail, KeptSame
<1>8. Free(r, S)
  BY <1>1, <1>2, <1>5, <1>6, <1>7, TakenFree
<1>9. Free(Track(c)', For(c)) /\ Alone(Track(c)', For(c))
  BY <1>8, FreeTrip DEF r, S
<1> QED BY <1>5, <1>9 DEF Solo

\* c is sent, or lost at once.
LEMMA SoloSent ==
  ASSUME PathTypeOK, PathTypeOK', NEW c \in Command, Solo(c), Unsent(c), ~Unsent(c)',
         up'[SlotOf[c][1]] \in {up[SlotOf[c][1]], Append(up[SlotOf[c][1]], CommandFrame(c))},
         down' = down, tasks' = tasks, outcome' = outcome
  PROVE  Solo(c)'
<1> DEFINE q == Track(c)
           r == Track(c)'
           S == For(c)
<1>1. Free(q, S) /\ outcome'[c] = "none"
  BY DEF Solo
<1>2. /\ q["up"] = up[SlotOf[c][1]] /\ q["down"] = down[SlotOf[c][2]] /\ q["tasks"] = tasks[SlotOf[c][2]]
      /\ r["up"] = up'[SlotOf[c][1]] /\ r["down"] = down'[SlotOf[c][2]] /\ r["tasks"] = tasks'[SlotOf[c][2]]
      /\ q["back"] = <<>> /\ r["back"] = <<>>
  BY TrackIs
<1>3. q["up"] \in Seq(Item) /\ CommandFrame(c) \in Item /\ "up" \in Way
  BY TrackIs DEF Item, UpFrame, Way
<1>4. CommandFrame(c) \in S["up"]
  BY DEF For, Way
<1> HIDE DEF q, r, S
<1>5. \A b \in Way \ {"up"} : r[b] = q[b]
  BY <1>2 DEF Way
<1>6. ASSUME r["up"] = Append(q["up"], CommandFrame(c)) PROVE Alone(r, S)
  BY <1>1, <1>3, <1>4, <1>5, <1>6, LoadedTrip
<1>7. ASSUME r["up"] = q["up"] PROVE Alone(r, S)
  <2>1. \A b \in Way : r[b] = q[b]
    BY <1>5, <1>7
  <2>2. Free(r, S)
    BY <1>1, <2>1 DEF Free
  <2> QED BY <2>2, FreeTrip
<1>8. Alone(r, S)
  BY <1>2, <1>6, <1>7
<1>9. Alone(Track(c)', For(c))
  BY <1>8 DEF r, S
<1> QED BY <1>1, <1>9 DEF Solo

\* A frame of c goes to the server from the controller that gave it.
UpIsOwn ==
  \A k \in Controller, c \in Command :
    SlotOf[c][1] # k => \A i \in 1..Len(up[k]) : up[k][i] # CommandFrame(c)

\* What a sequence keeps of one thing.
LEMMA KeptOne ==
  ASSUME NEW M, NEW fs \in Seq(M), NEW x
  PROVE  /\ \E d \in Nat : Kept(fs, fs, {x}, d)
         /\ \E d \in Nat : Kept(fs, <<>>, {x}, d)
         /\ fs # <<>> => \E d \in Nat : Kept(fs, Tail(fs), {x}, d)
         /\ \A n \in 0..Len(fs) : \E d \in Nat : Kept(fs, SubSeq(fs, 1, n), {x}, d)
         /\ \A y \in M : y # x => \E d \in Nat : Kept(fs, Append(fs, y), {x}, d)
<1>1. \A y \in M : y # x => y \notin {x}
  OBVIOUS
<1> QED BY <1>1, KeptPlace

\* Another command, or none, is sent.
LEMMA SentKept ==
  ASSUME PathTypeOK, NEW k \in Controller, NEW c \in Command,
         NEW j \in Controller, NEW frame \in UpFrame, Send(j, frame), j # k \/ frame # CommandFrame(c)
  PROVE  \E d \in Nat : Kept(up[k], up'[k], {CommandFrame(c)}, d)
<1>1. up[k] \in Seq(UpFrame)
  BY DEF PathTypeOK
<1>2. up'[k] = up[k] \/ (j = k /\ up'[k] = Append(up[k], frame))
  BY DEF Send, PathTypeOK
<1>3. \E d \in Nat : Kept(up[k], up[k], {CommandFrame(c)}, d)
  BY <1>1, KeptOne
<1>4. frame # CommandFrame(c) => \E d \in Nat : Kept(up[k], Append(up[k], frame), {CommandFrame(c)}, d)
  BY <1>1, KeptOne
<1> QED BY <1>2, <1>3, <1>4

\* Frames of two commands differ, and from a register frame.
LEMMA FramesDiffer ==
  /\ \A c, d \in Command : CommandFrame(c) = CommandFrame(d) => c = d
  /\ \A c \in Command : \A ids : RegisterFrame(ids) # CommandFrame(c)
  /\ \A c \in Command : CommandFrame(c) \in UpFrame
  /\ \A ids \in SUBSET Worker : RegisterFrame(ids) \in UpFrame
<1>1. \A c, d \in Command : CommandFrame(c) = CommandFrame(d) => c = d
  BY DEF CommandFrame
<1>2. \A c \in Command : \A ids : RegisterFrame(ids) # CommandFrame(c)
  BY DEF CommandFrame, RegisterFrame
<1> QED BY <1>1, <1>2 DEF UpFrame

\* c is sent: it was waiting, and no more.
Sends(c) ==
  /\ Unsent(c) /\ ~Unsent(c)'
  /\ up'[SlotOf[c][1]] \in {up[SlotOf[c][1]], Append(up[SlotOf[c][1]], CommandFrame(c))}

\* The queue of slot s sends one command of its own, or nothing.
LEMMA DispatchStep ==
  ASSUME PathTypeOK, QueueInv, NEW s \in Slot, SendDispatched(s),
         \/ \E n \in Command : SlotOf[n] = s /\ EnqueueCommand(n)
         \/ \E ok \in BOOLEAN : HandleCommandResult(s, ok),
         NEW c \in Command, NEW k \in Controller
  PROVE  /\ Unsent(c)' => Unsent(c)
         /\ \/ \E d \in Nat : Kept(up[k], up'[k], {CommandFrame(c)}, d)
            \/ SlotOf[c][1] = k /\ Sends(c)
<1>1. /\ up[k] \in Seq(UpFrame) /\ \E d \in Nat : Kept(up[k], up[k], {CommandFrame(c)}, d)
      /\ s[1] \in Controller /\ state \in [Command -> CommandState]
  <2>1. up[k] \in Seq(UpFrame) /\ s[1] \in Controller /\ state \in [Command -> CommandState]
    BY DEF PathTypeOK, Slot, QueueInv, QueueTypeOK
  <2> QED BY <2>1, KeptPlace
<1>2. ASSUME NEW n \in Command, SlotOf[n] = s, Send(s[1], CommandFrame(n)),
             Unsent(n), ~Unsent(n)'
      PROVE  \/ \E d \in Nat : Kept(up[k], up'[k], {CommandFrame(c)}, d)
             \/ SlotOf[c][1] = k /\ Sends(c)
  <2>1. CASE s[1] # k \/ CommandFrame(n) # CommandFrame(c)
    BY <1>1, <1>2, <2>1, FramesDiffer, SentKept
  <2>2. CASE s[1] = k /\ CommandFrame(n) = CommandFrame(c)
    <3>1. n = c
      BY <2>2, FramesDiffer
    <3>2. up'[k] \in {up[k], Append(up[k], CommandFrame(c))}
      BY <1>2, <2>2, <3>1 DEF Send, PathTypeOK
    <3> QED BY <1>2, <2>2, <3>1, <3>2 DEF Sends
  <2> QED BY <2>1, <2>2
<1>3. ASSUME NEW n \in Command, SlotOf[n] = s, EnqueueCommand(n)
      PROVE  /\ Unsent(c)' => Unsent(c)
             /\ \/ \E d \in Nat : Kept(up[k], up'[k], {CommandFrame(c)}, d)
                \/ SlotOf[c][1] = k /\ Sends(c)
  <2>1. /\ state[n] = "new" /\ \A d \in Command \ {n} : state'[d] = state[d]
        /\ \/ up' = up
           \/ state'[n] = "in_flight" /\ Send(s[1], CommandFrame(n))
    BY <1>3, Given
  <2>2. Unsent(c)' => Unsent(c)
    BY <2>1 DEF Unsent
  <2>3. state'[n] = "in_flight" => Unsent(n) /\ ~Unsent(n)'
    BY <2>1 DEF Unsent
  <2> QED BY <1>1, <1>2, <1>3, <2>1, <2>2, <2>3
<1>4. ASSUME NEW ok \in BOOLEAN, HandleCommandResult(s, ok)
      PROVE  /\ Unsent(c)' => Unsent(c)
             /\ \/ \E d \in Nat : Kept(up[k], up'[k], {CommandFrame(c)}, d)
                \/ SlotOf[c][1] = k /\ Sends(c)
  <2>1. CASE UNCHANGED queueVars /\ up' = up
    BY <1>1, <2>1 DEF queueVars, Unsent
  <2>2. CASE /\ state'[inFlight[s]] \in Ended /\ up' = up
             /\ \A d \in Command \ {inFlight[s]} : state'[d] = state[d]
    BY <1>1, <2>2 DEF Unsent, Ended
  <2>3. ASSUME NEW n \in Command, state'[inFlight[s]] \in Ended,
               SlotOf[n] = s, state[n] = "queued", state'[n] = "in_flight",
               Send(s[1], CommandFrame(n)),
               \A d \in Command \ {n, inFlight[s]} : state'[d] = state[d]
        PROVE  /\ Unsent(c)' => Unsent(c)
               /\ \/ \E d \in Nat : Kept(up[k], up'[k], {CommandFrame(c)}, d)
                  \/ SlotOf[c][1] = k /\ Sends(c)
    <3>1. Unsent(c)' => Unsent(c)
      BY <2>3 DEF Unsent, Ended
    <3>2. Unsent(n) /\ ~Unsent(n)'
      BY <2>3 DEF Unsent
    <3> QED BY <1>2, <2>3, <3>1, <3>2
  <2> QED BY <1>4, <2>1, <2>2, <2>3, Answered
<1> QED BY <1>3, <1>4

\* The controller takes what has come: it subscribes, or its queue answers.
LEMMA TakeStep ==
  ASSUME PathTypeOK, QueueInv, NEW j \in Controller, ControllerTake(j),
         NEW c \in Command, NEW k \in Controller
  PROVE  /\ Unsent(c)' => Unsent(c)
         /\ \/ \E d \in Nat : Kept(up[k], up'[k], {CommandFrame(c)}, d)
            \/ SlotOf[c][1] = k /\ Sends(c)
<1>1. back[j] # <<>>
  BY DEF ControllerTake
<1>2. CASE Head(back[j]).type = "connected"
  <2>1. Send(j, RegisterFrame(tabs[j])) /\ state' = state
    BY <1>2 DEF ControllerTake, queueVars
  <2>2. RegisterFrame(tabs[j]) \in UpFrame /\ RegisterFrame(tabs[j]) # CommandFrame(c)
    BY FramesDiffer DEF PathTypeOK
  <2>3. \E d \in Nat : Kept(up[k], up'[k], {CommandFrame(c)}, d)
    BY <2>1, <2>2, SentKept
  <2> QED BY <2>1, <2>3 DEF Unsent
<1>3. ASSUME NEW n \in Command, NEW ok \in BOOLEAN,
             Head(back[j]).type = "result", Head(back[j]).command = n, Head(back[j]).ok = ok,
             <<j, SlotOf[n][2]>> \in Slot
      PROVE  /\ Unsent(c)' => Unsent(c)
             /\ \/ \E d \in Nat : Kept(up[k], up'[k], {CommandFrame(c)}, d)
                \/ SlotOf[c][1] = k /\ Sends(c)
  <2> DEFINE s == <<j, SlotOf[n][2]>>
  <2>1. HandleCommandResult(s, ok) /\ SendDispatched(s)
    BY <1>3 DEF ControllerTake
  <2>2. s \in Slot
    BY <1>3
  <2> HIDE DEF s
  <2> QED BY <2>1, <2>2, DispatchStep
<1> QED BY <1>1, <1>2, <1>3, ResultInHand

\* The user gives a command.
LEMMA GivesStep ==
  ASSUME PathTypeOK, QueueInv, NEW n \in Command, Submit(n),
         NEW c \in Command, NEW k \in Controller
  PROVE  /\ Unsent(c)' => Unsent(c)
         /\ \/ \E d \in Nat : Kept(up[k], up'[k], {CommandFrame(c)}, d)
            \/ SlotOf[c][1] = k /\ Sends(c)
<1>1. EnqueueCommand(n) /\ SendDispatched(SlotOf[n]) /\ SlotOf[n] \in Slot
  BY CommandQueueAssumption DEF Submit
<1> QED BY <1>1, DispatchStep

\* What goes to the server: what went, or the command that is sent.
LEMMA UpStep ==
  ASSUME PathBase, [PathNext]_vars, NEW c \in Command, NEW k \in Controller
  PROVE  /\ Unsent(c)' => Unsent(c)
         /\ \/ \E d \in Nat : Kept(up[k], up'[k], {CommandFrame(c)}, d)
            \/ SlotOf[c][1] = k /\ Sends(c)
<1> DEFINE Goal == /\ Unsent(c)' => Unsent(c)
                   /\ \/ \E d \in Nat : Kept(up[k], up'[k], {CommandFrame(c)}, d)
                      \/ SlotOf[c][1] = k /\ Sends(c)
<1>1. PathTypeOK /\ QueueInv /\ up[k] \in Seq(UpFrame)
  BY DEF PathBase, PathTypeOK
<1>2. /\ \E d \in Nat : Kept(up[k], up[k], {CommandFrame(c)}, d)
      /\ \E d \in Nat : Kept(up[k], <<>>, {CommandFrame(c)}, d)
      /\ up[k] # <<>> => \E d \in Nat : Kept(up[k], Tail(up[k]), {CommandFrame(c)}, d)
  BY <1>1, KeptPlace
<1>3. ASSUME state' = state, \/ up'[k] \in {up[k], <<>>}
                             \/ up[k] # <<>> /\ up'[k] = Tail(up[k])
      PROVE  Goal
  BY <1>2, <1>3 DEF Unsent
<1>4. ASSUME NEW n \in Command, Submit(n) PROVE Goal
  BY <1>1, <1>4, GivesStep
<1>5. ASSUME NEW j \in Controller, ControllerTake(j) PROVE Goal
  BY <1>1, <1>5, TakeStep
<1>6. ASSUME NEW j \in Controller, NEW ids \in SUBSET Worker, ChangeTabs(j, ids) PROVE Goal
  <2>1. Send(j, RegisterFrame(ids)) /\ state' = state
    BY <1>6 DEF ChangeTabs, queueVars
  <2>2. \E d \in Nat : Kept(up[k], up'[k], {CommandFrame(c)}, d)
    BY <1>1, <2>1, FramesDiffer, SentKept
  <2> QED BY <2>1, <2>2 DEF Unsent
<1>7. ASSUME NEW j \in Controller, NEW w \in Worker, OpenTab(j, w) \/ CloseTab(j, w) PROVE Goal
  <2>1. tabs[j] \cup {w} \in SUBSET Worker /\ tabs[j] \ {w} \in SUBSET Worker
    BY <1>1 DEF PathTypeOK
  <2> HIDE DEF Goal
  <2> QED BY <1>6, <1>7, <2>1 DEF OpenTab, CloseTab
<1> HIDE DEF Goal
<1>8. ASSUME NEW j \in Controller, ServerTake(j) PROVE Goal
  <2>1. state' = state /\ up[j] # <<>> /\ up' = [up EXCEPT ![j] = Tail(up[j])]
    BY <1>8 DEF ServerTake, queueVars
  <2>2. up'[k] = up[k] \/ (up[k] # <<>> /\ up'[k] = Tail(up[k]))
    BY <1>1, <2>1 DEF PathTypeOK
  <2> QED BY <1>3, <2>1, <2>2
<1>9. ASSUME NEW j \in Controller, DropController(j) \/ RelinkController(j) PROVE Goal
  <2>1. state' = state /\ (up' = up \/ up' = [up EXCEPT ![j] = <<>>])
    BY <1>9 DEF DropController, RelinkController, queueVars
  <2>2. up'[k] \in {up[k], <<>>}
    BY <1>1, <2>1 DEF PathTypeOK
  <2> QED BY <1>3, <2>1, <2>2
<1>10. ASSUME up' = up, state' = state PROVE Goal
  BY <1>3, <1>10
<1>11. ASSUME NEW w \in Worker, \/ WorkerTake(w) \/ WorkerRestarted(w) \/ DropWorker(w)
                                \/ RelinkWorker(w) \/ EndWorker(w)
       PROVE  Goal
  BY <1>10, <1>11 DEF WorkerTake, WorkerRestarted, DropWorker, RelinkWorker, EndWorker, queueVars
<1>12. ASSUME NEW w \in Worker, NEW ok \in BOOLEAN, WorkerRun(w, ok) PROVE Goal
  BY <1>10, <1>12 DEF WorkerRun, queueVars
<1>13. ASSUME UNCHANGED vars PROVE Goal
  <2>1. up' = up /\ state' = state
    BY <1>13 DEF vars, pathVars, queueVars
  <2> QED BY <1>10, <2>1
<1>14. Goal
  BY <1>4, <1>5, <1>7, <1>8, <1>9, <1>11, <1>12, <1>13 DEF PathNext
<1> QED BY <1>14 DEF Goal

\* Only the queue of its own slot sends a command.
LEMMA UpIsOwnStep ==
  ASSUME PathBase, PathBase', UpIsOwn, [PathNext]_vars
  PROVE  UpIsOwn'
<1> SUFFICES ASSUME NEW k \in Controller, NEW c \in Command, SlotOf[c][1] # k,
                    NEW i \in 1..Len(up'[k]), up'[k][i] = CommandFrame(c)
             PROVE  FALSE
  BY DEF UpIsOwn
<1>1. PICK d \in Nat : Kept(up[k], up'[k], {CommandFrame(c)}, d)
  BY UpStep
<1>2. Len(up'[k]) \in Nat /\ up[k] \in Seq(UpFrame) /\ i \in 1..Len(up'[k]) /\ up'[k][i] \in {CommandFrame(c)}
  BY DEF PathBase, PathTypeOK
<1>3. i + d \in 1..Len(up[k]) /\ up[k][i + d] = up'[k][i]
  BY <1>1, <1>2 DEF Kept
<1>4. \A j \in 1..Len(up[k]) : up[k][j] # CommandFrame(c)
  BY DEF UpIsOwn
<1> QED BY <1>2, <1>3, <1>4

\* A command at the worker: it was there, or comes from the server.
LEMMA SoloServer ==
  ASSUME PathBase, PathBase', UpIsOwn, NEW c \in Command, Solo(c), NEW j \in Controller,
         ServerTake(j), Unsent(c)' => Unsent(c),
         \E d \in Nat : Kept(up[SlotOf[c][1]], up'[SlotOf[c][1]], {CommandFrame(c)}, d)
  PROVE  Solo(c)'
<1> DEFINE k == SlotOf[c][1]
           w == SlotOf[c][2]
<1>1. /\ PathTypeOK /\ PathTypeOK' /\ k \in Controller /\ w \in Worker
      /\ up[j] # <<>> /\ up' = [up EXCEPT ![j] = Tail(up[j])]
      /\ tasks' = tasks /\ outcome' = outcome
  BY CommandQueueAssumption DEF ServerTake, PathBase, Slot
<1>2. /\ \E d \in Nat : Kept(tasks[w], tasks[w], {c}, d)
      /\ \E d \in Nat : Kept(down[w], down[w], {c}, d)
      /\ \A n \in Command : n # c => \E d \in Nat : Kept(down[w], Append(down[w], n), {c}, d)
  <2>1. tasks[w] \in Seq(Command) /\ down[w] \in Seq(Command)
    BY <1>1 DEF PathTypeOK
  <2> QED BY <2>1, KeptOne
<1>3. CASE down'[w] = down[w]
  BY <1>1, <1>2, <1>3, SoloKept
<1>4. ASSUME NEW n \in Command, Head(up[j]) = CommandFrame(n), Head(up[j]).type = "command",
             Head(up[j]).command = n, SlotOf[n][2] \in Worker
      PROVE  Solo(c)'
  <2>1. down' \in {down, [down EXCEPT ![SlotOf[n][2]] = Append(down[SlotOf[n][2]], n)]}
    BY <1>4 DEF ServerTake
  <2>2. CASE n # c
    <3>1. down'[w] \in {down[w], Append(down[w], n)}
      <4>1. DOMAIN down = Worker
        BY <1>1 DEF PathTypeOK
      <4>2. CASE down' = down
        BY <4>2
      <4>3. CASE down' = [down EXCEPT ![SlotOf[n][2]] = Append(down[SlotOf[n][2]], n)]
        BY <1>1, <4>1, <4>3
      <4> QED BY <2>1, <4>2, <4>3
    <3>2. \E d \in Nat : Kept(down[w], down'[w], {c}, d)
      BY <1>2, <2>2, <3>1
    <3>3. \E d \in Nat : Kept(tasks[w], tasks'[w], {c}, d)
      BY <1>1, <1>2
    <3> QED BY <1>1, <3>2, <3>3, SoloKept
  <2>3. CASE n = c
    <3>1. j = k
      <4>1. up[j] \in Seq(UpFrame)
        BY <1>1 DEF PathTypeOK
      <4>2. 1 \in 1..Len(up[j]) /\ up[j][1] = CommandFrame(c)
        BY <1>1, <1>4, <2>3, <4>1
      <4> QED BY <4>2 DEF UpIsOwn
    <3>2. up'[k] = Tail(up[k]) /\ down'[w] \in {down[w], Append(down[w], c)} /\ tasks'[w] = tasks[w]
      BY <1>1, <2>1, <2>3, <3>1 DEF PathTypeOK
    <3>3. /\ Track(c)["up"] = up[k] /\ Track(c)'["up"] = up'[k]
          /\ Track(c)["down"] = down[w] /\ Track(c)'["down"] = down'[w]
          /\ Track(c)["tasks"] = tasks[w] /\ Track(c)'["tasks"] = tasks'[w]
          /\ Track(c)["back"] = Track(c)'["back"]
      BY <1>1, TrackIs
    <3>4. "up" \in Way /\ "down" \in Way \ {"up"} /\ CommandFrame(c) \in For(c)["up"]
      BY DEF Way, For
    <3>5. \A e \in Way \ {"up", "down"} : Track(c)'[e] = Track(c)[e]
      BY <3>2, <3>3 DEF Way
    <3>6. /\ Track(c)["up"] # <<>> /\ Head(Track(c)["up"]) \in For(c)["up"]
          /\ Track(c)'["up"] = Tail(Track(c)["up"])
          /\ Track(c)'["down"] \in {Track(c)["down"], Append(Track(c)["down"], c)}
      BY <1>1, <1>4, <2>3, <3>1, <3>2, <3>3, <3>4
    <3> QED BY <1>1, <3>4, <3>5, <3>6, SoloPassed
  <2> QED BY <2>2, <2>3
<1>5. CASE Head(up[j]).type = "register"
  <2>1. down'[w] = down[w]
    BY <1>5 DEF ServerTake
  <2> QED BY <1>3, <2>1
<1> QED BY <1>1, <1>4, <1>5, FrameInHand

\* A command reaches its worker.
LEMMA SoloTaken ==
  ASSUME PathBase, PathBase', NEW c \in Command, Solo(c), NEW v \in Worker,
         WorkerTake(v)
  PROVE  Solo(c)'
<1> DEFINE k == SlotOf[c][1]
           w == SlotOf[c][2]
           h == Head(down[v])
<1>1. /\ PathTypeOK /\ PathTypeOK' /\ k \in Controller /\ w \in Worker
      /\ up' = up /\ down[v] # <<>> /\ down' = [down EXCEPT ![v] = Tail(down[v])]
      /\ Unsent(c)' = Unsent(c)
  BY CommandQueueAssumption DEF WorkerTake, PathBase, Slot, Unsent, queueVars
<1>2. /\ \E d \in Nat : Kept(up[k], up[k], {CommandFrame(c)}, d)
      /\ \E d \in Nat : Kept(tasks[w], tasks[w], {c}, d)
      /\ \A n \in Command : n # c => \E d \in Nat : Kept(tasks[w], Append(tasks[w], n), {c}, d)
      /\ \E d \in Nat : Kept(down[w], down[w], {c}, d)
      /\ down[w] # <<>> => \E d \in Nat : Kept(down[w], Tail(down[w]), {c}, d)
  <2>1. up[k] \in Seq(UpFrame) /\ tasks[w] \in Seq(Command) /\ down[w] \in Seq(Command)
    BY <1>1 DEF PathTypeOK
  <2> QED BY <2>1, KeptOne
<1>3. h \in Command /\ h \in CommandsOf(v)
  BY <1>1, WorkInHand
<1>4. \E d \in Nat : Kept(down[w], down'[w], {c}, d)
  <2>1. down'[w] = down[w] \/ (down[w] # <<>> /\ down'[w] = Tail(down[w]))
    BY <1>1 DEF PathTypeOK
  <2> QED BY <1>2, <2>1
<1>5. \E d \in Nat : Kept(up[k], up'[k], {CommandFrame(c)}, d)
  BY <1>1, <1>2
<1>6. CASE h \in Restarts
  <2>1. tasks' = tasks /\ Report(v, h, TRUE)
    BY <1>6 DEF WorkerTake
  <2>2. CASE h # c
    <3>1. outcome'[c] = outcome[c]
      BY <1>1, <2>1, <2>2 DEF Report, PathTypeOK
    <3>2. \E d \in Nat : Kept(tasks[w], tasks'[w], {c}, d)
      BY <1>2, <2>1
    <3> QED BY <1>1, <1>4, <1>5, <3>1, <3>2, SoloKept
  <2>3. CASE h = c
    <3>1. v = w
      BY <1>3, <2>3 DEF CommandsOf
    <3>2. /\ Track(c)["up"] = up[k] /\ Track(c)'["up"] = up'[k]
          /\ Track(c)["down"] = down[w] /\ Track(c)'["down"] = down'[w]
          /\ Track(c)["tasks"] = tasks[w] /\ Track(c)'["tasks"] = tasks'[w]
          /\ Track(c)["back"] = Track(c)'["back"]
      BY <1>1, TrackIs
    <3>3. down'[w] = Tail(down[w])
      BY <1>1, <3>1 DEF PathTypeOK
    <3>4. \A e \in Way \ {"down"} : Track(c)'[e] = Track(c)[e]
      BY <1>1, <2>1, <3>2 DEF Way
    <3>5. "down" \in Way /\ c \in For(c)["down"]
      BY DEF Way, For
    <3>6. /\ Track(c)["down"] # <<>> /\ Head(Track(c)["down"]) \in For(c)["down"]
          /\ Track(c)'["down"] = Tail(Track(c)["down"])
      BY <1>1, <2>3, <3>1, <3>2, <3>3, <3>5
    <3> QED BY <1>1, <3>4, <3>5, <3>6, SoloEnded
  <2> QED BY <2>2, <2>3
<1>7. CASE h \notin Restarts
  <2>1. tasks' = [tasks EXCEPT ![v] = Append(tasks[v], h)] /\ outcome' = outcome
    BY <1>7 DEF WorkerTake
  <2>2. CASE h # c
    <3>1. tasks'[w] \in {tasks[w], Append(tasks[w], h)}
      BY <1>1, <2>1 DEF PathTypeOK
    <3>2. \E d \in Nat : Kept(tasks[w], tasks'[w], {c}, d)
      BY <1>2, <1>3, <2>2, <3>1
    <3> QED BY <1>1, <1>4, <1>5, <2>1, <3>2, SoloKept
  <2>3. CASE h = c
    <3>1. v = w
      BY <1>3, <2>3 DEF CommandsOf
    <3>2. /\ Track(c)["up"] = up[k] /\ Track(c)'["up"] = up'[k]
          /\ Track(c)["down"] = down[w] /\ Track(c)'["down"] = down'[w]
          /\ Track(c)["tasks"] = tasks[w] /\ Track(c)'["tasks"] = tasks'[w]
          /\ Track(c)["back"] = Track(c)'["back"]
      BY <1>1, TrackIs
    <3>3. down'[w] = Tail(down[w]) /\ tasks'[w] = Append(tasks[w], c)
      BY <1>1, <2>1, <2>3, <3>1 DEF PathTypeOK
    <3>4. \A e \in Way \ {"down", "tasks"} : Track(c)'[e] = Track(c)[e]
      BY <1>1, <3>2 DEF Way
    <3>5. "down" \in Way /\ "tasks" \in Way \ {"down"} /\ c \in For(c)["down"]
      BY DEF Way, For
    <3>6. /\ Track(c)["down"] # <<>> /\ Head(Track(c)["down"]) \in For(c)["down"]
          /\ Track(c)'["down"] = Tail(Track(c)["down"])
          /\ Track(c)'["tasks"] \in {Track(c)["tasks"], Append(Track(c)["tasks"], c)}
      BY <1>1, <2>3, <3>1, <3>2, <3>3, <3>5
    <3> QED BY <1>1, <2>1, <3>4, <3>5, <3>6, SoloPassed
  <2> QED BY <2>2, <2>3
<1> QED BY <1>6, <1>7

\* A command ends at its worker.
LEMMA SoloRun ==
  ASSUME PathBase, PathBase', NEW c \in Command, Solo(c), NEW v \in Worker, NEW ok \in BOOLEAN,
         WorkerRun(v, ok)
  PROVE  Solo(c)'
<1> DEFINE k == SlotOf[c][1]
           w == SlotOf[c][2]
           h == Head(tasks[v])
<1>1. /\ PathTypeOK /\ PathTypeOK' /\ k \in Controller /\ w \in Worker
      /\ up' = up /\ down' = down /\ Report(v, h, ok)
      /\ tasks[v] # <<>> /\ tasks' = [tasks EXCEPT ![v] = Tail(tasks[v])]
      /\ Unsent(c)' = Unsent(c)
  BY CommandQueueAssumption DEF WorkerRun, PathBase, Slot, Unsent, queueVars
<1>2. h \in Command /\ h \in CommandsOf(v)
  BY <1>1, WorkInHand
<1>3. CASE h # c
  <2>1. outcome'[c] = outcome[c]
    BY <1>1, <1>3 DEF Report, PathTypeOK
  <2>2. tasks'[w] = tasks[w] \/ (tasks[w] # <<>> /\ tasks'[w] = Tail(tasks[w]))
    BY <1>1 DEF PathTypeOK
  <2>3. /\ \E d \in Nat : Kept(up[k], up[k], {CommandFrame(c)}, d)
        /\ \E d \in Nat : Kept(tasks[w], tasks[w], {c}, d)
        /\ \E d \in Nat : Kept(down[w], down[w], {c}, d)
        /\ tasks[w] # <<>> => \E d \in Nat : Kept(tasks[w], Tail(tasks[w]), {c}, d)
    <3>1. up[k] \in Seq(UpFrame) /\ tasks[w] \in Seq(Command) /\ down[w] \in Seq(Command)
      BY <1>1 DEF PathTypeOK
    <3> QED BY <3>1, KeptOne
  <2>4. /\ \E d \in Nat : Kept(up[k], up'[k], {CommandFrame(c)}, d)
        /\ \E d \in Nat : Kept(down[w], down'[w], {c}, d)
        /\ \E d \in Nat : Kept(tasks[w], tasks'[w], {c}, d)
    BY <1>1, <2>2, <2>3
  <2> QED BY <1>1, <2>1, <2>4, SoloKept
<1>4. CASE h = c
  <2>1. v = w
    BY <1>2, <1>4 DEF CommandsOf
  <2>2. /\ Track(c)["up"] = up[k] /\ Track(c)'["up"] = up'[k]
        /\ Track(c)["down"] = down[w] /\ Track(c)'["down"] = down'[w]
        /\ Track(c)["tasks"] = tasks[w] /\ Track(c)'["tasks"] = tasks'[w]
        /\ Track(c)["back"] = Track(c)'["back"]
    BY <1>1, TrackIs
  <2>3. tasks'[w] = Tail(tasks[w])
    BY <1>1, <2>1 DEF PathTypeOK
  <2>4. \A e \in Way \ {"tasks"} : Track(c)'[e] = Track(c)[e]
    BY <1>1, <2>2 DEF Way
  <2>5. "tasks" \in Way /\ c \in For(c)["tasks"]
    BY DEF Way, For
  <2>6. /\ Track(c)["tasks"] # <<>> /\ Head(Track(c)["tasks"]) \in For(c)["tasks"]
        /\ Track(c)'["tasks"] = Tail(Track(c)["tasks"])
    BY <1>1, <1>4, <2>1, <2>2, <2>3, <2>5
  <2> QED BY <1>1, <2>4, <2>5, <2>6, SoloEnded
<1> QED BY <1>3, <1>4

\* A link breaks or is made again, or a worker ends: nothing is new.
LEMMA SoloLinks ==
  ASSUME PathBase, PathBase', NEW c \in Command, Solo(c),
         \/ \E j \in Controller : DropController(j) \/ RelinkController(j)
         \/ \E v \in Worker : WorkerRestarted(v) \/ DropWorker(v) \/ RelinkWorker(v) \/ EndWorker(v)
         \/ UNCHANGED vars
  PROVE  Solo(c)'
<1> DEFINE k == SlotOf[c][1]
           w == SlotOf[c][2]
<1>1. /\ PathTypeOK /\ PathTypeOK' /\ k \in Controller /\ w \in Worker
      /\ up[k] \in Seq(UpFrame) /\ tasks[w] \in Seq(Command) /\ down[w] \in Seq(Command)
  BY CommandQueueAssumption DEF PathBase, Slot, PathTypeOK
<1>2. outcome' = outcome /\ state' = state
  BY DEF DropController, RelinkController, WorkerRestarted, DropWorker, RelinkWorker, EndWorker,
         vars, queueVars, pathVars
<1>3. \E d \in Nat : Kept(up[k], up'[k], {CommandFrame(c)}, d)
  <2>1. up'[k] \in {up[k], <<>>}
    BY <1>1 DEF DropController, RelinkController, WorkerRestarted, DropWorker, RelinkWorker, EndWorker,
                vars, pathVars, PathTypeOK
  <2> QED BY <1>1, <2>1, KeptOne
<1>4. \E d \in Nat : Kept(tasks[w], tasks'[w], {c}, d)
  <2>1. tasks'[w] \in {tasks[w], <<>>}
    BY <1>1 DEF DropController, RelinkController, WorkerRestarted, DropWorker, RelinkWorker, EndWorker,
                vars, pathVars, PathTypeOK
  <2> QED BY <1>1, <2>1, KeptOne
<1>5. \E d \in Nat : Kept(down[w], down'[w], {c}, d)
  <2>1. down'[w] \in {down[w], <<>>} \/ \E n \in 0..Len(down[w]) : down'[w] = SubSeq(down[w], 1, n)
    <3>1. ASSUME NEW v \in Worker, DropWorker(v)
          PROVE  down'[w] = down[w] \/ \E n \in 0..Len(down[w]) : down'[w] = SubSeq(down[w], 1, n)
      BY <1>1, <3>1 DEF DropWorker, PathTypeOK
    <3>2. ASSUME NEW v \in Worker, EndWorker(v) PROVE down'[w] \in {down[w], <<>>}
      BY <1>1, <3>2 DEF EndWorker, PathTypeOK
    <3>3. CASE \/ \E j \in Controller : DropController(j) \/ RelinkController(j)
               \/ \E v \in Worker : WorkerRestarted(v) \/ RelinkWorker(v)
               \/ UNCHANGED vars
      BY <3>3 DEF DropController, RelinkController, WorkerRestarted, RelinkWorker, vars, pathVars
    <3> QED BY <3>1, <3>2, <3>3
  <2>2. /\ \E d \in Nat : Kept(down[w], down[w], {c}, d)
        /\ \E d \in Nat : Kept(down[w], <<>>, {c}, d)
        /\ \A n \in 0..Len(down[w]) : \E d \in Nat : Kept(down[w], SubSeq(down[w], 1, n), {c}, d)
    BY <1>1, KeptOne
  <2> QED BY <2>1, <2>2
<1>6. Unsent(c)' => Unsent(c)
  BY <1>2 DEF Unsent
<1>7. outcome'[c] = outcome[c]
  BY <1>2
<1> QED BY <1>1, <1>3, <1>4, <1>5, <1>6, <1>7, SoloKept

\* No step makes a second copy of a command, or revives one that has ended.
LEMMA SoloStep ==
  ASSUME PathBase, PathBase', UpIsOwn, NEW c \in Command, Solo(c), [PathNext]_vars
  PROVE  Solo(c)'
<1> DEFINE k == SlotOf[c][1]
           w == SlotOf[c][2]
<1>1. /\ PathTypeOK /\ PathTypeOK' /\ k \in Controller /\ w \in Worker
      /\ tasks[w] \in Seq(Command) /\ down[w] \in Seq(Command)
  BY CommandQueueAssumption DEF PathBase, Slot, PathTypeOK
<1>2. /\ Unsent(c)' => Unsent(c)
      /\ \/ \E d \in Nat : Kept(up[k], up'[k], {CommandFrame(c)}, d)
         \/ Sends(c)
  BY <1>1, UpStep
<1>3. ASSUME down' = down, tasks' = tasks, outcome' = outcome PROVE Solo(c)'
  <2>1. CASE Sends(c)
    BY <1>1, <1>3, <2>1, SoloSent DEF Sends
  <2>2. CASE \E d \in Nat : Kept(up[k], up'[k], {CommandFrame(c)}, d)
    <3>1. /\ \E d \in Nat : Kept(down[w], down'[w], {c}, d)
          /\ \E d \in Nat : Kept(tasks[w], tasks'[w], {c}, d)
          /\ outcome'[c] = outcome[c]
      BY <1>1, <1>3, KeptOne
    <3> QED BY <1>1, <1>2, <2>2, <3>1, SoloKept
  <2> QED BY <1>2, <2>1, <2>2
<1>4. CASE \/ \E n \in Command : Submit(n)
           \/ \E j \in Controller : ControllerTake(j)
           \/ \E j \in Controller, v \in Worker : OpenTab(j, v) \/ CloseTab(j, v)
  BY <1>3, <1>4 DEF Submit, ControllerTake, OpenTab, CloseTab, ChangeTabs
<1>5. ASSUME NEW j \in Controller, ServerTake(j) PROVE Solo(c)'
  <2>1. state' = state /\ up[j] # <<>> /\ up' = [up EXCEPT ![j] = Tail(up[j])]
    BY <1>5 DEF ServerTake, queueVars
  <2>2. up[k] \in Seq(UpFrame)
    BY <1>1 DEF PathTypeOK
  <2>3. up'[k] = up[k] \/ (up[k] # <<>> /\ up'[k] = Tail(up[k]))
    BY <1>1, <2>1 DEF PathTypeOK
  <2>4. /\ \E d \in Nat : Kept(up[k], up[k], {CommandFrame(c)}, d)
        /\ up[k] # <<>> => \E d \in Nat : Kept(up[k], Tail(up[k]), {CommandFrame(c)}, d)
    BY <2>2, KeptPlace
  <2>5. \E d \in Nat : Kept(up[k], up'[k], {CommandFrame(c)}, d)
    BY <2>3, <2>4
  <2> QED BY <1>2, <1>5, <2>5, SoloServer
<1>6. CASE \E v \in Worker : WorkerTake(v)
  BY <1>6, SoloTaken
<1>7. CASE \E v \in Worker, ok \in BOOLEAN : WorkerRun(v, ok)
  BY <1>7, SoloRun
<1>8. CASE \/ \E j \in Controller : DropController(j) \/ RelinkController(j)
           \/ \E v \in Worker : WorkerRestarted(v) \/ DropWorker(v) \/ RelinkWorker(v) \/ EndWorker(v)
           \/ UNCHANGED vars
  BY <1>8, SoloLinks
<1> QED BY <1>4, <1>5, <1>6, <1>7, <1>8 DEF PathNext
-----------------------------------------------------------------------------
(* At most once *)

\* The inductive invariant behind RunsAtMostOnce.
PathOnceInv == PathBase /\ UpIsOwn /\ \A c \in Command : Solo(c)

\* It holds at the start ...
LEMMA PathOnceStart == PathInit => PathOnceInv
<1> SUFFICES ASSUME PathInit PROVE PathOnceInv
  OBVIOUS
<1>1. PathBase
  BY BaseStart
<1>2. /\ \A k \in Controller : up[k] = <<>>
      /\ \A w \in Worker : down[w] = <<>> /\ tasks[w] = <<>>
      /\ \A c \in Command : outcome[c] = "none"
  BY DEF PathInit
<1>3. \A i : i \notin 1..Len(<<>>)
  BY EmptySeq
<1>4. UpIsOwn
  BY <1>2, <1>3 DEF UpIsOwn
<1>5. ASSUME NEW c \in Command PROVE Solo(c)
  <2>1. SlotOf[c][1] \in Controller /\ SlotOf[c][2] \in Worker
    BY CommandQueueAssumption DEF Slot
  <2>2. \A a \in Way : Track(c)[a] = <<>>
    BY <1>2, <2>1 DEF Track
  <2>3. Free(Track(c), For(c))
    BY <1>3, <2>2 DEF Free
  <2>4. Alone(Track(c), For(c))
    BY <2>3, FreeTrip
  <2> QED BY <1>2, <2>3, <2>4 DEF Solo
<1> QED BY <1>1, <1>4, <1>5 DEF PathOnceInv

\* ... and ever after.
LEMMA PathOnceHolds == PathSpec => []PathOnceInv
<1>1. PathOnceInv /\ [PathNext]_vars => PathOnceInv'
  <2> SUFFICES ASSUME PathOnceInv, [PathNext]_vars PROVE PathOnceInv'
    OBVIOUS
  <2>1. PathBase /\ PathBase' /\ UpIsOwn
    BY BaseStep DEF PathOnceInv
  <2>2. UpIsOwn'
    BY <2>1, UpIsOwnStep
  <2>3. ASSUME NEW c \in Command PROVE Solo(c)'
    <3>1. Solo(c)
      BY DEF PathOnceInv
    <3> QED BY <2>1, <3>1, SoloStep
  <2> QED BY <2>1, <2>2, <2>3 DEF PathOnceInv
<1> QED BY <1>1, PathOnceStart, PTL DEF PathSpec

\* Every copy of c is on its own way.
LEMMA CopyPlaces ==
  ASSUME PathBase, UpIsOwn, NEW c \in Command, NEW p \in Copies(c)
  PROVE  \E a \in Way : \E i \in 1..Len(Track(c)[a]) :
           /\ p = <<a, IF a = "up" THEN SlotOf[c][1] ELSE SlotOf[c][2], i>>
           /\ Track(c)[a][i] \in For(c)[a]
<1> DEFINE k == SlotOf[c][1]
           w == SlotOf[c][2]
<1>1. /\ PathTypeOK /\ k \in Controller /\ w \in Worker
      /\ Track(c)["up"] = up[k] /\ Track(c)["down"] = down[w] /\ Track(c)["tasks"] = tasks[w]
      /\ CommandFrame(c) \in For(c)["up"] /\ c \in For(c)["down"] /\ c \in For(c)["tasks"]
  BY CommandQueueAssumption DEF PathBase, Track, Way, For, Slot
<1>2. ASSUME NEW j \in Controller, NEW i \in DOMAIN up[j], up[j][i] = CommandFrame(c), p = <<"up", j, i>>
      PROVE  \E a \in Way : \E n \in 1..Len(Track(c)[a]) :
               /\ p = <<a, IF a = "up" THEN k ELSE w, n>>
               /\ Track(c)[a][n] \in For(c)[a]
  <2>1. up[j] \in Seq(UpFrame)
    BY <1>1 DEF PathTypeOK
  <2>2. i \in 1..Len(up[j])
    BY <2>1
  <2>3. j = k
    BY <1>2, <2>2 DEF UpIsOwn
  <2> QED BY <1>1, <1>2, <2>2, <2>3 DEF Way
<1>3. ASSUME NEW v \in Worker, NEW s \in Seq(CommandsOf(v)), NEW i \in DOMAIN s, s[i] = c
      PROVE  i \in 1..Len(s) /\ v = w
  <2>1. i \in 1..Len(s) /\ s[i] \in CommandsOf(v)
    OBVIOUS
  <2> QED BY <1>3, <2>1 DEF CommandsOf
<1>4. ASSUME NEW v \in Worker, NEW i \in DOMAIN down[v], down[v][i] = c, p = <<"down", v, i>>
      PROVE  \E a \in Way : \E n \in 1..Len(Track(c)[a]) :
               /\ p = <<a, IF a = "up" THEN k ELSE w, n>>
               /\ Track(c)[a][n] \in For(c)[a]
  <2>1. i \in 1..Len(down[v]) /\ v = w
    BY <1>1, <1>3, <1>4 DEF PathTypeOK
  <2> QED BY <1>1, <1>4, <2>1 DEF Way
<1>5. ASSUME NEW v \in Worker, NEW i \in DOMAIN tasks[v], tasks[v][i] = c, p = <<"tasks", v, i>>
      PROVE  \E a \in Way : \E n \in 1..Len(Track(c)[a]) :
               /\ p = <<a, IF a = "up" THEN k ELSE w, n>>
               /\ Track(c)[a][n] \in For(c)[a]
  <2>1. i \in 1..Len(tasks[v]) /\ v = w
    BY <1>1, <1>3, <1>5 DEF PathTypeOK
  <2> QED BY <1>1, <1>5, <2>1 DEF Way
<1>6. \/ \E j \in Controller : \E i \in DOMAIN up[j] : up[j][i] = CommandFrame(c) /\ p = <<"up", j, i>>
      \/ \E v \in Worker : \E i \in DOMAIN down[v] : down[v][i] = c /\ p = <<"down", v, i>>
      \/ \E v \in Worker : \E i \in DOMAIN tasks[v] : tasks[v][i] = c /\ p = <<"tasks", v, i>>
  <2> DEFINE U(j) == {"up"} \X {j} \X PlacesIn(up[j], CommandFrame(c))
             D(v) == {"down"} \X {v} \X PlacesIn(down[v], c)
             T(v) == {"tasks"} \X {v} \X PlacesIn(tasks[v], c)
             Us == UNION {U(j) : j \in Controller}
             Ds == UNION {D(v) : v \in Worker}
             Ts == UNION {T(v) : v \in Worker}
  <2>11. Copies(c) = (Us \cup Ds) \cup Ts
    BY Zenon DEF Copies
  <2> HIDE DEF U, D, T
  <2>7. p \in Us \/ p \in Ds \/ p \in Ts
    <3> HIDE DEF Us, Ds, Ts
    <3> QED BY <2>11
  <2>8. p \in Us => \E j \in Controller : p \in U(j)
    OBVIOUS
  <2>9. p \in Ds => \E v \in Worker : p \in D(v)
    OBVIOUS
  <2>10. p \in Ts => \E v \in Worker : p \in T(v)
    OBVIOUS
  <2>1. \/ \E j \in Controller : p \in {"up"} \X {j} \X PlacesIn(up[j], CommandFrame(c))
        \/ \E v \in Worker : p \in {"down"} \X {v} \X PlacesIn(down[v], c)
        \/ \E v \in Worker : p \in {"tasks"} \X {v} \X PlacesIn(tasks[v], c)
    BY <2>7, <2>8, <2>9, <2>10 DEF U, D, T
  <2>2. ASSUME NEW x, NEW y, NEW P, p \in {x} \X {y} \X P
        PROVE  \E i \in P : p = <<x, y, i>>
    BY <2>2
  <2>3. ASSUME NEW s, NEW x, NEW i \in PlacesIn(s, x) PROVE i \in DOMAIN s /\ s[i] = x
    BY DEF PlacesIn
  <2>4. ASSUME NEW j \in Controller, p \in {"up"} \X {j} \X PlacesIn(up[j], CommandFrame(c))
        PROVE  \E i \in DOMAIN up[j] : up[j][i] = CommandFrame(c) /\ p = <<"up", j, i>>
    BY <2>2, <2>3, <2>4
  <2>5. ASSUME NEW v \in Worker, p \in {"down"} \X {v} \X PlacesIn(down[v], c)
        PROVE  \E i \in DOMAIN down[v] : down[v][i] = c /\ p = <<"down", v, i>>
    BY <2>2, <2>3, <2>5
  <2>6. ASSUME NEW v \in Worker, p \in {"tasks"} \X {v} \X PlacesIn(tasks[v], c)
        PROVE  \E i \in DOMAIN tasks[v] : tasks[v][i] = c /\ p = <<"tasks", v, i>>
    BY <2>2, <2>3, <2>6
  <2> QED BY <2>1, <2>4, <2>5, <2>6
<1> QED BY <1>2, <1>4, <1>5, <1>6

\* Every behaviour of the path, with any number of controllers on a worker and
\* whatever breaks, carries out no command twice: a command is sent when it
\* leaves the queue, and websocket_client.py never repeats a frame.
THEOREM PathRunsAtMostOnce == PathSpec => []RunsAtMostOnce
<1>1. PathOnceInv => RunsAtMostOnce
  <2> SUFFICES ASSUME PathOnceInv, NEW c \in Command
               PROVE  /\ \A p, q \in Copies(c) : p = q
                      /\ outcome[c] # "none" => Copies(c) = {}
                      /\ state[c] \in {"new", "queued"} => Copies(c) = {} /\ outcome[c] = "none"
    BY DEF RunsAtMostOnce
  <2>1. PathBase /\ UpIsOwn /\ Solo(c)
    BY DEF PathOnceInv
  <2>2. ASSUME NEW p \in Copies(c), NEW q \in Copies(c) PROVE p = q
    <3> DEFINE At(x, e, n) == /\ x = <<e, IF e = "up" THEN SlotOf[c][1] ELSE SlotOf[c][2], n>>
                              /\ Track(c)[e][n] \in For(c)[e]
    <3>1. PICK a \in Way : \E i \in 1..Len(Track(c)[a]) : At(p, a, i)
      BY <2>1, CopyPlaces
    <3>2. PICK b \in Way : \E i \in 1..Len(Track(c)[b]) : At(q, b, i)
      BY <2>1, CopyPlaces
    <3>3. PICK i \in 1..Len(Track(c)[a]) : At(p, a, i)
      BY <3>1
    <3>4. PICK j \in 1..Len(Track(c)[b]) : At(q, b, j)
      BY <3>2
    <3>5. a = b /\ i = j
      BY <2>1, <3>3, <3>4 DEF Solo, Alone
    <3> QED BY <3>3, <3>4, <3>5
  <2>3. ASSUME Free(Track(c), For(c)) PROVE Copies(c) = {}
    <3>1. ASSUME NEW p \in Copies(c) PROVE FALSE
      BY <2>1, <2>3, CopyPlaces DEF Free
    <3> QED BY <3>1
  <2> QED BY <2>1, <2>2, <2>3 DEF Solo, Unsent
<1> QED BY <1>1, PathOnceHolds, PTL
-----------------------------------------------------------------------------
(* Subscriptions and commands on one link *)

\* A frame that subscribes to w, and one that ends the subscription.
Tells(f, w) == \E ids \in SUBSET Worker : f = RegisterFrame(ids) /\ w \in ids
Denies(f, w) == \E ids \in SUBSET Worker : f = RegisterFrame(ids) /\ w \notin ids

\* When the server has handled the first i of the frames us, k watches w.
Told(us, ws, k, w, i) == k \in ws \/ \E j \in 1..i : Tells(us[j], w)

\* Frames that carry a command for w.
MyFrames(w) == {CommandFrame(c) : c \in CommandsOf(w)}

\* What is under way to the server never ends a subscription, agrees with the
\* tabs when it is through, and subscribes before it commands.
Orderly(us, ws, ts, k, w) ==
  /\ \A i \in 1..Len(us) : Told(us, ws, k, w, i) => ~Denies(us[i], w)
  /\ Told(us, ws, k, w, Len(us)) <=> w \in ts
  /\ \A i \in 1..Len(us) : us[i] \in MyFrames(w) => Told(us, ws, k, w, i)

\* What each frame says about the subscription to w.
LEMMA FramesSay ==
  ASSUME NEW w \in Worker
  PROVE  /\ \A ids \in SUBSET Worker : /\ Tells(RegisterFrame(ids), w) <=> w \in ids
                                       /\ Denies(RegisterFrame(ids), w) <=> w \notin ids
                                       /\ RegisterFrame(ids) \notin MyFrames(w)
         /\ \A c \in Command : /\ ~Tells(CommandFrame(c), w) /\ ~Denies(CommandFrame(c), w)
                               /\ CommandFrame(c) \in MyFrames(w) <=> SlotOf[c][2] = w
<1>1. \A a, b : RegisterFrame(a) = RegisterFrame(b) => a = b
  BY DEF RegisterFrame
<1>2. \A c \in Command : \A ids : RegisterFrame(ids) # CommandFrame(c)
  BY DEF CommandFrame, RegisterFrame
<1>3. \A c \in Command, d \in Command : CommandFrame(c) = CommandFrame(d) => c = d
  BY DEF CommandFrame
<1>4. ASSUME NEW ids \in SUBSET Worker
      PROVE  /\ Tells(RegisterFrame(ids), w) <=> w \in ids
             /\ Denies(RegisterFrame(ids), w) <=> w \notin ids
  BY <1>1 DEF Tells, Denies
<1>5. ASSUME NEW ids \in SUBSET Worker PROVE RegisterFrame(ids) \notin MyFrames(w)
  BY <1>2 DEF MyFrames, CommandsOf
<1>6. ASSUME NEW c \in Command
      PROVE  /\ ~Tells(CommandFrame(c), w) /\ ~Denies(CommandFrame(c), w)
             /\ CommandFrame(c) \in MyFrames(w) <=> SlotOf[c][2] = w
  <2>1. ~Tells(CommandFrame(c), w) /\ ~Denies(CommandFrame(c), w)
    BY <1>2 DEF Tells, Denies
  <2>2. CommandFrame(c) \in MyFrames(w) <=> SlotOf[c][2] = w
    BY <1>3 DEF MyFrames, CommandsOf
  <2> QED BY <2>1, <2>2
<1> QED BY <1>4, <1>5, <1>6

\* The order holds when a frame is sent that keeps the subscription ...
LEMMA OrderlyAppend ==
  ASSUME NEW us \in Seq(UpFrame), NEW ws, NEW ts, NEW ts2, NEW k, NEW w, NEW f \in UpFrame,
         Orderly(us, ws, ts, k, w),
         Denies(f, w) => w \notin ts, Tells(f, w) => w \in ts2,
         w \in ts => w \in ts2, w \in ts2 => w \in ts \/ Tells(f, w),
         f \in MyFrames(w) => w \in ts
  PROVE  Orderly(Append(us, f), ws, ts2, k, w)
<1> DEFINE vs == Append(us, f)
           n == Len(us)
<1>1. /\ n \in Nat /\ Len(vs) = n + 1 /\ vs[n + 1] = f
      /\ \A i \in 1..n : vs[i] = us[i]
  OBVIOUS
<1> HIDE DEF vs
<1>2. ASSUME NEW i \in 0..n PROVE Told(vs, ws, k, w, i) <=> Told(us, ws, k, w, i)
  <2>1. \A j \in 1..i : vs[j] = us[j]
    BY <1>1
  <2> QED BY <2>1 DEF Told
<1>3. Told(us, ws, k, w, n) <=> w \in ts
  BY DEF Orderly
<1>4. Told(vs, ws, k, w, n + 1) <=> Told(vs, ws, k, w, n) \/ Tells(f, w)
  <2>1. \A j : j \in 1..(n + 1) <=> j \in 1..n \/ j = n + 1
    BY <1>1
  <2> QED BY <1>1, <2>1 DEF Told
<1>5. Told(vs, ws, k, w, n + 1) <=> w \in ts \/ Tells(f, w)
  <2>1. n \in 0..n
    BY <1>1
  <2> QED BY <1>2, <1>3, <1>4, <2>1
<1>6. ~(Tells(f, w) /\ Denies(f, w))
  BY DEF Tells, Denies, RegisterFrame
<1>7. ASSUME NEW i \in 1..Len(vs)
      PROVE  /\ Told(vs, ws, k, w, i) => ~Denies(vs[i], w)
             /\ vs[i] \in MyFrames(w) => Told(vs, ws, k, w, i)
  <2>1. CASE i = n + 1
    BY <1>1, <1>5, <1>6, <2>1
  <2>2. CASE i # n + 1
    <3>1. i \in 1..n /\ i \in 0..n /\ vs[i] = us[i]
      BY <1>1, <2>2
    <3> QED BY <1>2, <3>1 DEF Orderly
  <2> QED BY <2>1, <2>2
<1>8. Told(vs, ws, k, w, Len(vs)) <=> w \in ts2
  BY <1>1, <1>5
<1>9. Orderly(vs, ws, ts2, k, w)
  BY <1>7, <1>8 DEF Orderly
<1> QED BY <1>9 DEF vs

\* ... and when the server handles the first one.
LEMMA OrderlyTail ==
  ASSUME NEW us \in Seq(UpFrame), us # <<>>, NEW ws, NEW ws2, NEW ts, NEW k, NEW w,
         Orderly(us, ws, ts, k, w),
         \/ ~Tells(Head(us), w) /\ ~Denies(Head(us), w) /\ (k \in ws2 <=> k \in ws)
         \/ Tells(Head(us), w) /\ k \in ws2
         \/ Denies(Head(us), w) /\ k \notin ws2
  PROVE  /\ Orderly(Tail(us), ws2, ts, k, w)
         /\ k \in ws => k \in ws2
         /\ Head(us) \in MyFrames(w) /\ ~Tells(Head(us), w) => k \in ws
<1> DEFINE vs == Tail(us)
           n == Len(vs)
<1>1. /\ n \in Nat /\ Len(us) = n + 1 /\ us[1] = Head(us)
      /\ \A i \in 1..n : vs[i] = us[i + 1]
  OBVIOUS
<1> HIDE DEF vs
<1>2. \A i : i \in 1..1 <=> i = 1
  OBVIOUS
<1>3. Told(us, ws, k, w, 1) <=> k \in ws \/ Tells(Head(us), w)
  BY <1>1, <1>2 DEF Told
<1>4. /\ Told(us, ws, k, w, 1) => ~Denies(Head(us), w)
      /\ Head(us) \in MyFrames(w) => Told(us, ws, k, w, 1)
  <2>1. 1 \in 1..Len(us)
    BY <1>1
  <2> QED BY <1>1, <2>1 DEF Orderly
<1>5. k \in ws2 <=> k \in ws \/ Tells(Head(us), w)
  BY <1>3, <1>4
<1>6. ASSUME NEW i \in 0..n PROVE Told(vs, ws2, k, w, i) <=> Told(us, ws, k, w, i + 1)
  <2>1. (\E j \in 1..i + 1 : Tells(us[j], w)) <=> Tells(us[1], w) \/ \E j \in 1..i : Tells(us[j + 1], w)
    <3>1. \A j \in 1..i : j + 1 \in 1..i + 1
      BY <1>1
    <3>2. \A j \in 1..i + 1 : j = 1 \/ (j - 1 \in 1..i /\ (j - 1) + 1 = j)
      BY <1>1
    <3>3. 1 \in 1..i + 1
      BY <1>1
    <3> QED BY <3>1, <3>2, <3>3
  <2>2. (\E j \in 1..i : Tells(vs[j], w)) <=> \E j \in 1..i : Tells(us[j + 1], w)
    BY <1>1
  <2> QED BY <1>1, <1>5, <2>1, <2>2 DEF Told
<1>7. ASSUME NEW i \in 1..n
      PROVE  /\ Told(vs, ws2, k, w, i) => ~Denies(vs[i], w)
             /\ vs[i] \in MyFrames(w) => Told(vs, ws2, k, w, i)
  <2>1. i \in 0..n /\ i + 1 \in 1..Len(us) /\ vs[i] = us[i + 1]
    BY <1>1
  <2> QED BY <1>6, <2>1 DEF Orderly
<1>8. Told(vs, ws2, k, w, n) <=> w \in ts
  <2>1. n \in 0..n /\ n + 1 = Len(us)
    BY <1>1
  <2>2. Told(us, ws, k, w, Len(us)) <=> w \in ts
    BY DEF Orderly
  <2> QED BY <1>6, <2>1, <2>2
<1>9. Orderly(vs, ws2, ts, k, w)
  BY <1>7, <1>8 DEF Orderly
<1> QED BY <1>3, <1>4, <1>5, <1>9 DEF vs
-----------------------------------------------------------------------------
(* Where a command is *)

\* Something of X is in s.
Has(s, X) == \E i \in 1..Len(s) : s[i] \in X

\* It still is when something is added, or something else taken.
LEMMA HasStill ==
  ASSUME NEW M, NEW s \in Seq(M), NEW X, Has(s, X)
  PROVE  /\ \A y \in M : Has(Append(s, y), X)
         /\ Head(s) \notin X => Has(Tail(s), X)
<1>1. PICK i \in 1..Len(s) : s[i] \in X
  BY DEF Has
<1>2. ASSUME NEW y \in M PROVE Has(Append(s, y), X)
  <2>1. i \in 1..Len(Append(s, y)) /\ Append(s, y)[i] = s[i]
    OBVIOUS
  <2> QED BY <1>1, <2>1 DEF Has
<1>3. ASSUME Head(s) \notin X PROVE Has(Tail(s), X)
  <2>1. s # <<>> /\ s[1] = Head(s)
    OBVIOUS
  <2>2. i # 1
    BY <1>1, <1>3, <2>1
  <2>3. i - 1 \in 1..Len(Tail(s)) /\ Tail(s)[i - 1] = s[i]
    BY <2>1, <2>2
  <2> QED BY <1>1, <2>3 DEF Has
<1> QED BY <1>2, <1>3

\* It is when it has just been added.
LEMMA HasNew ==
  ASSUME NEW M, NEW s \in Seq(M), NEW X, NEW y \in M, y \in X
  PROVE  Has(Append(s, y), X)
<1>1. Len(s) + 1 \in 1..Len(Append(s, y)) /\ Append(s, y)[Len(s) + 1] = y
  OBVIOUS
<1> QED BY <1>1 DEF Has

\* c is on its way, at the worker, or its result is on the way back.
ResultsFor(c) == {ResultFrame(c, ok) : ok \in BOOLEAN}
Somewhere(c) ==
  \/ Has(up[SlotOf[c][1]], {CommandFrame(c)})
  \/ Has(down[SlotOf[c][2]], {c})
  \/ Has(tasks[SlotOf[c][2]], {c})
  \/ Has(back[SlotOf[c][1]], ResultsFor(c))
-----------------------------------------------------------------------------
(* While nothing breaks *)

\* What holds as long as nothing has broken: the frames of every controller
\* subscribe before they command; work at a worker is of controllers that watch
\* it; a command is given in an open tab; no command in flight is lost.
Ordered == \A k \in Controller, w \in Worker : Orderly(up[k], watchers[w], tabs[k], k, w)
Watched ==
  /\ \A w \in Worker : \A i \in 1..Len(down[w]) : SlotOf[down[w][i]][1] \in watchers[w]
  /\ \A w \in Worker : \A i \in 1..Len(tasks[w]) : SlotOf[tasks[w][i]][1] \in watchers[w]
Opened == \A c \in Command : state[c] # "new" => SlotOf[c][2] \in tabs[SlotOf[c][1]]
Followed == \A s \in Slot : inFlight[s] # NoCommand => Somewhere(inFlight[s])
Calm ==
  /\ linked = Controller /\ online = Worker
  /\ Ordered /\ Watched /\ Opened /\ Followed

\* While its link is up, what a controller sends is on its way.
LEMMA Sent ==
  ASSUME PathTypeOK, linked = Controller, NEW j \in Controller, NEW f \in UpFrame, Send(j, f)
  PROVE  /\ up'[j] = Append(up[j], f) /\ \A k \in Controller \ {j} : up'[k] = up[k]
         /\ \A k \in Controller : \A X : Has(up[k], X) => Has(up'[k], X)
         /\ \A X : f \in X => Has(up'[j], X)
<1>1. up' = [up EXCEPT ![j] = Append(up[j], f)]
  BY DEF Send
<1>2. up'[j] = Append(up[j], f) /\ \A k \in Controller \ {j} : up'[k] = up[k]
  BY <1>1 DEF PathTypeOK
<1>3. up[j] \in Seq(UpFrame)
  BY DEF PathTypeOK
<1>4. ASSUME NEW k \in Controller, NEW X, Has(up[k], X) PROVE Has(up'[k], X)
  <2>1. up[k] \in Seq(UpFrame)
    BY DEF PathTypeOK
  <2>2. Has(Append(up[k], f), X)
    BY <1>4, <2>1, HasStill
  <2> QED BY <1>2, <1>4, <2>2
<1>5. ASSUME NEW X, f \in X PROVE Has(up'[j], X)
  BY <1>2, <1>3, <1>5, HasNew
<1> QED BY <1>2, <1>4, <1>5

\* Who sends a frame keeps the order.
LEMMA OrderedSend ==
  ASSUME PathTypeOK, PathTypeOK', linked = Controller, Ordered, watchers' = watchers,
         NEW j \in Controller, NEW f \in UpFrame, Send(j, f),
         \A k \in Controller \ {j} : tabs'[k] = tabs[k],
         \A w \in Worker : /\ Denies(f, w) => w \notin tabs[j]
                           /\ Tells(f, w) => w \in tabs'[j]
                           /\ w \in tabs[j] => w \in tabs'[j]
                           /\ w \in tabs'[j] => w \in tabs[j] \/ Tells(f, w)
                           /\ f \in MyFrames(w) => w \in tabs[j]
  PROVE  Ordered'
<1> SUFFICES ASSUME NEW k \in Controller, NEW w \in Worker
             PROVE  Orderly(up'[k], watchers[w], tabs'[k], k, w)
  BY DEF Ordered, Orderly, Told
<1>1. Orderly(up[k], watchers[w], tabs[k], k, w) /\ up[k] \in Seq(UpFrame)
  BY DEF Ordered, PathTypeOK
<1>2. CASE k # j
  <2>1. up'[k] = up[k] /\ tabs'[k] = tabs[k]
    BY <1>2, Sent
  <2> QED BY <1>1, <2>1
<1>3. CASE k = j
  <2>1. up'[k] = Append(up[k], f)
    BY <1>3, Sent
  <2>2. Orderly(Append(up[k], f), watchers[w], tabs'[k], k, w)
    BY <1>1, <1>3, OrderlyAppend
  <2> QED BY <2>1, <2>2
<1> QED BY <1>2, <1>3

\* A command that is still everywhere it was is somewhere.
LEMMA StillSomewhere ==
  ASSUME NEW c, Somewhere(c),
         Has(up[SlotOf[c][1]], {CommandFrame(c)}) => Has(up'[SlotOf[c][1]], {CommandFrame(c)}),
         Has(down[SlotOf[c][2]], {c}) => Has(down'[SlotOf[c][2]], {c}),
         Has(tasks[SlotOf[c][2]], {c}) => Has(tasks'[SlotOf[c][2]], {c}),
         Has(back[SlotOf[c][1]], ResultsFor(c)) => Has(back'[SlotOf[c][1]], ResultsFor(c))
  PROVE  \/ Has(up'[SlotOf[c][1]], {CommandFrame(c)})
         \/ Has(down'[SlotOf[c][2]], {c})
         \/ Has(tasks'[SlotOf[c][2]], {c})
         \/ Has(back'[SlotOf[c][1]], ResultsFor(c))
  BY DEF Somewhere

\* Somewhere, in the next state.
Found(c) ==
  \/ Has(up'[SlotOf[c][1]], {CommandFrame(c)})
  \/ Has(down'[SlotOf[c][2]], {c})
  \/ Has(tasks'[SlotOf[c][2]], {c})
  \/ Has(back'[SlotOf[c][1]], ResultsFor(c))

\* It is enough to find each command in flight.
LEMMA FollowedBy ==
  ASSUME \A s \in Slot : inFlight'[s] # NoCommand => Found(inFlight'[s])
  PROVE  Followed'
  BY DEF Followed, Found, Somewhere

\* A command in flight is of its slot, and its places are sequences.
LEMMA InFlightIs ==
  ASSUME PathBase, NEW s \in Slot, inFlight[s] # NoCommand
  PROVE  /\ inFlight[s] \in Command /\ SlotOf[inFlight[s]] = s
         /\ s[1] \in Controller /\ s[2] \in Worker
         /\ up[s[1]] \in Seq(UpFrame) /\ down[s[2]] \in Seq(Command)
         /\ tasks[s[2]] \in Seq(Command) /\ back[s[1]] \in Seq(BackFrame)
<1>1. QueueInv /\ PathTypeOK
  BY DEF PathBase
<1>2. s[1] \in Controller /\ s[2] \in Worker
  BY DEF Slot
<1> QED BY <1>1, <1>2, InFlightIsMine DEF PathTypeOK

\* The user gives a command: if it is sent, it is on its way.
LEMMA CalmSubmit ==
  ASSUME PathBase, PathBase', Calm, NEW n \in Command, Submit(n)
  PROVE  Calm'
<1> DEFINE s == SlotOf[n]
           k == s[1]
<1>1. /\ PathTypeOK /\ PathTypeOK' /\ QueueInv /\ s \in Slot /\ k \in Controller
      /\ s[2] \in tabs[k] /\ EnqueueCommand(n) /\ SendDispatched(s)
      /\ UNCHANGED <<linked, online, tabs, watchers, down, tasks, restarting, back, outcome, upsets>>
  BY CommandQueueAssumption DEF Submit, PathBase, Slot
<1>2. /\ \A d \in Command \ {n} : state'[d] = state[d]
      /\ \/ up' = up /\ inFlight' = inFlight
         \/ inFlight' = [inFlight EXCEPT ![s] = n] /\ Send(k, CommandFrame(n))
  BY <1>1, Given
<1>3. CommandFrame(n) \in UpFrame
  BY FramesDiffer
<1>4. Ordered'
  <2>1. CASE up' = up
    BY <1>1, <2>1 DEF Calm, Ordered, Orderly, Told
  <2>2. CASE Send(k, CommandFrame(n))
    <3>1. \A w \in Worker : /\ ~Tells(CommandFrame(n), w) /\ ~Denies(CommandFrame(n), w)
                            /\ CommandFrame(n) \in MyFrames(w) => w \in tabs[k]
      BY <1>1, FramesSay
    <3>2. tabs' = tabs
      BY <1>1
    <3> QED BY <1>1, <1>3, <2>2, <3>1, <3>2, OrderedSend DEF Calm
  <2> QED BY <1>2, <2>1, <2>2
<1>5. Opened'
  BY <1>1, <1>2 DEF Calm, Opened
<1>6. ASSUME NEW t \in Slot, inFlight[t] # NoCommand PROVE Found(inFlight[t])
  <2>1. Has(up[t[1]], {CommandFrame(inFlight[t])}) => Has(up'[t[1]], {CommandFrame(inFlight[t])})
    BY <1>1, <1>2, <1>3, <1>6, InFlightIs, Sent DEF Calm
  <2>2. Somewhere(inFlight[t]) /\ SlotOf[inFlight[t]] = t
    BY <1>6, InFlightIs DEF Calm, Followed
  <2> QED BY <1>1, <2>1, <2>2 DEF Somewhere, Found
<1>7. ASSUME inFlight' = [inFlight EXCEPT ![s] = n], Send(k, CommandFrame(n)) PROVE Followed'
  <2>1. Found(n)
    BY <1>1, <1>3, <1>7, Sent DEF Calm, Found
  <2>2. inFlight \in [Slot -> Command \cup {NoCommand}]
    BY <1>1 DEF QueueInv, QueueTypeOK
  <2>3. ASSUME NEW t \in Slot, inFlight'[t] # NoCommand PROVE Found(inFlight'[t])
    BY <1>6, <1>7, <2>1, <2>2, <2>3
  <2> QED BY <1>1, <2>3, FollowedBy
<1>8. ASSUME inFlight' = inFlight PROVE Followed'
  BY <1>1, <1>6, <1>8, FollowedBy
<1>9. Followed'
  BY <1>2, <1>7, <1>8
<1>10. Watched'
  BY <1>1 DEF Calm, Watched
<1>11. (linked = Controller /\ online = Worker)'
  BY <1>1 DEF Calm
<1> QED BY <1>4, <1>5, <1>9, <1>10, <1>11 DEF Calm

\* A tab is opened: the frame that tells the server keeps all others.
LEMMA CalmOpen ==
  ASSUME PathBase, PathBase', Calm, NEW j \in Controller, NEW v \in Worker, OpenTab(j, v)
  PROVE  Calm'
<1> DEFINE ids == tabs[j] \cup {v}
           f == RegisterFrame(ids)
<1>1. /\ PathTypeOK /\ PathTypeOK' /\ QueueInv
      /\ tabs' = [tabs EXCEPT ![j] = ids] /\ Send(j, f)
      /\ state' = state /\ inFlight' = inFlight
      /\ UNCHANGED <<linked, online, watchers, down, tasks, back>>
  BY DEF OpenTab, ChangeTabs, PathBase, queueVars
<1>2. /\ tabs'[j] = ids /\ \A k \in Controller \ {j} : tabs'[k] = tabs[k]
      /\ tabs[j] \in SUBSET Worker
  BY <1>1 DEF PathTypeOK
<1>3. ids \in SUBSET Worker
  BY <1>2
<1>4. f \in UpFrame
  BY <1>3, FramesDiffer
<1>5. \A w \in Worker : /\ Tells(f, w) <=> w \in ids
                        /\ Denies(f, w) <=> w \notin ids
                        /\ f \notin MyFrames(w)
  BY <1>3, FramesSay
<1> HIDE DEF f
<1>6. Ordered'
  BY <1>1, <1>2, <1>4, <1>5, OrderedSend DEF Calm
<1>7. Opened'
  <2>1. \A k \in Controller : tabs[k] \subseteq tabs'[k]
    BY <1>2
  <2>2. \A c \in Command : SlotOf[c][1] \in Controller
    BY CommandQueueAssumption DEF Slot
  <2> QED BY <1>1, <2>1, <2>2 DEF Calm, Opened
<1>8. ASSUME NEW t \in Slot, inFlight[t] # NoCommand PROVE Found(inFlight[t])
  <2>1. Has(up[t[1]], {CommandFrame(inFlight[t])}) => Has(up'[t[1]], {CommandFrame(inFlight[t])})
    BY <1>1, <1>4, <1>8, InFlightIs, Sent DEF Calm
  <2>2. Somewhere(inFlight[t]) /\ SlotOf[inFlight[t]] = t
    BY <1>8, InFlightIs DEF Calm, Followed
  <2> QED BY <1>1, <2>1, <2>2 DEF Somewhere, Found
<1>9. Followed'
  BY <1>1, <1>8, FollowedBy
<1>10. Watched'
  BY <1>1 DEF Calm, Watched
<1>11. (linked = Controller /\ online = Worker)'
  BY <1>1 DEF Calm
<1> QED BY <1>6, <1>7, <1>9, <1>10, <1>11 DEF Calm

\* What the controller takes is not of a command in flight for another slot.
LEMMA TakenIsNot ==
  ASSUME PathBase, NEW j \in Controller, back[j] # <<>>, NEW t \in Slot, inFlight[t] # NoCommand,
         t[1] # j \/ Head(back[j]) \notin ResultsFor(inFlight[t]), Has(back[t[1]], ResultsFor(inFlight[t])),
         back' = [back EXCEPT ![j] = Tail(back[j])]
  PROVE  Has(back'[t[1]], ResultsFor(inFlight[t]))
<1>1. t[1] \in Controller /\ back[t[1]] \in Seq(BackFrame)
  BY InFlightIs
<1>2. CASE t[1] = j
  <2>1. Has(Tail(back[t[1]]), ResultsFor(inFlight[t]))
    BY <1>1, <1>2, HasStill
  <2>2. back'[t[1]] = Tail(back[t[1]])
    BY <1>1, <1>2 DEF PathBase, PathTypeOK
  <2> QED BY <2>1, <2>2
<1>3. CASE t[1] # j
  BY <1>1, <1>3 DEF PathBase, PathTypeOK
<1> QED BY <1>2, <1>3

\* The controller subscribes again to what it has.
LEMMA CalmConnected ==
  ASSUME PathBase, PathBase', Calm, NEW j \in Controller, ControllerTake(j),
         Head(back[j]) = Connected, Head(back[j]).type = "connected"
  PROVE  Calm'
<1> DEFINE f == RegisterFrame(tabs[j])
<1>1. /\ PathTypeOK /\ PathTypeOK' /\ QueueInv
      /\ back[j] # <<>> /\ back' = [back EXCEPT ![j] = Tail(back[j])]
      /\ Send(j, f) /\ state' = state /\ inFlight' = inFlight
      /\ UNCHANGED <<linked, online, tabs, watchers, down, tasks>>
  BY DEF ControllerTake, PathBase, queueVars
<1>2. tabs[j] \in SUBSET Worker
  BY <1>1 DEF PathTypeOK
<1>3. f \in UpFrame
  BY <1>2, FramesDiffer
<1>4. \A w \in Worker : /\ Tells(f, w) <=> w \in tabs[j]
                        /\ Denies(f, w) <=> w \notin tabs[j]
                        /\ f \notin MyFrames(w)
  BY <1>2, FramesSay
<1> HIDE DEF f
<1>5. Ordered'
  <2>1. tabs' = tabs
    BY <1>1
  <2> QED BY <1>1, <1>3, <1>4, <2>1, OrderedSend DEF Calm
<1>6. Opened' /\ Watched' /\ (linked = Controller /\ online = Worker)'
  BY <1>1 DEF Calm, Opened, Watched
<1>7. ASSUME NEW t \in Slot, inFlight[t] # NoCommand PROVE Found(inFlight[t])
  <2>1. Has(up[t[1]], {CommandFrame(inFlight[t])}) => Has(up'[t[1]], {CommandFrame(inFlight[t])})
    BY <1>1, <1>3, <1>7, InFlightIs, Sent DEF Calm
  <2>2. Head(back[j]) \notin ResultsFor(inFlight[t])
    BY DEF ResultsFor, ResultFrame, Connected
  <2>3. Has(back[t[1]], ResultsFor(inFlight[t])) => Has(back'[t[1]], ResultsFor(inFlight[t]))
    BY <1>1, <1>7, <2>2, TakenIsNot
  <2>4. Somewhere(inFlight[t]) /\ SlotOf[inFlight[t]] = t
    BY <1>7, InFlightIs DEF Calm, Followed
  <2> QED BY <1>1, <2>1, <2>3, <2>4 DEF Somewhere, Found
<1>8. Followed'
  BY <1>1, <1>7, FollowedBy
<1> QED BY <1>5, <1>6, <1>8 DEF Calm

\* The queue answers a result: the command it was for is no longer in flight,
\* the next one is on its way.
LEMMA CalmResult ==
  ASSUME PathBase, PathBase', Calm, NEW j \in Controller, ControllerTake(j),
         NEW c \in Command, NEW ok \in BOOLEAN, Head(back[j]) = ResultFrame(c, ok),
         Head(back[j]).type = "result", Head(back[j]).command = c, Head(back[j]).ok = ok,
         <<j, SlotOf[c][2]>> \in Slot
  PROVE  Calm'
<1> DEFINE s == <<j, SlotOf[c][2]>>
<1>1. /\ PathTypeOK /\ PathTypeOK' /\ QueueInv
      /\ back[j] # <<>> /\ back' = [back EXCEPT ![j] = Tail(back[j])]
      /\ HandleCommandResult(s, ok) /\ SendDispatched(s)
      /\ UNCHANGED <<linked, online, tabs, watchers, down, tasks>>
  BY DEF ControllerTake, PathBase
<1>2. s \in Slot /\ s[1] = j /\ s[2] = SlotOf[c][2]
  OBVIOUS
<1> HIDE DEF s
<1>3. \/ UNCHANGED queueVars /\ up' = up /\ inFlight[s] = NoCommand
      \/ /\ inFlight[s] # NoCommand /\ state'[inFlight[s]] \in Ended
         /\ \/ /\ inFlight' = [inFlight EXCEPT ![s] = NoCommand] /\ up' = up
               /\ \A d \in Command \ {inFlight[s]} : state'[d] = state[d]
            \/ \E n \in Command \ {inFlight[s]} :
                 /\ SlotOf[n] = s /\ state[n] = "queued" /\ state'[n] = "in_flight"
                 /\ inFlight' = [inFlight EXCEPT ![s] = n] /\ Send(s[1], CommandFrame(n))
                 /\ \A d \in Command \ {n, inFlight[s]} : state'[d] = state[d]
  BY <1>1, <1>2, Answered
<1>4. inFlight \in [Slot -> Command \cup {NoCommand}]
  BY <1>1 DEF QueueInv, QueueTypeOK
<1>5. ASSUME NEW t \in Slot, t # s, inFlight[t] # NoCommand,
             Has(up[t[1]], {CommandFrame(inFlight[t])}) => Has(up'[t[1]], {CommandFrame(inFlight[t])})
      PROVE  Found(inFlight[t])
  <2>1. Somewhere(inFlight[t]) /\ inFlight[t] \in Command /\ SlotOf[inFlight[t]] = t
    BY <1>5, InFlightIs DEF Calm, Followed
  <2>2. t[1] # j \/ Head(back[j]) \notin ResultsFor(inFlight[t])
    <3>1. SUFFICES ASSUME t[1] = j, Head(back[j]) \in ResultsFor(inFlight[t]) PROVE FALSE
      OBVIOUS
    <3>2. c = inFlight[t]
      BY <3>1 DEF ResultsFor, ResultFrame
    <3>3. t = <<t[1], t[2]>> /\ t[2] = SlotOf[c][2]
      BY <2>1, <3>2 DEF Slot
    <3> QED BY <1>5, <3>1, <3>3 DEF s
  <2>3. Has(back[t[1]], ResultsFor(inFlight[t])) => Has(back'[t[1]], ResultsFor(inFlight[t]))
    BY <1>1, <1>5, <2>2, TakenIsNot
  <2> QED BY <1>1, <1>5, <2>1, <2>3 DEF Somewhere, Found
<1>6. Watched' /\ (linked = Controller /\ online = Worker)'
  BY <1>1 DEF Calm, Watched
<1>7. ASSUME up' = up PROVE Ordered'
  BY <1>1, <1>7 DEF Calm, Ordered, Orderly, Told
<1>8. ASSUME UNCHANGED queueVars, up' = up, inFlight[s] = NoCommand PROVE Opened' /\ Followed'
  <2>1. state' = state /\ inFlight' = inFlight
    BY <1>8 DEF queueVars
  <2>2. Opened'
    BY <1>1, <2>1 DEF Calm, Opened
  <2>3. \A t \in Slot : inFlight'[t] # NoCommand => Found(inFlight'[t])
    BY <1>5, <1>8, <2>1
  <2> QED BY <2>2, <2>3, FollowedBy
<1>9. inFlight[s] # NoCommand => /\ inFlight[s] \in Command /\ state[inFlight[s]] # "new"
  BY <1>1, <1>2, InFlightIsMine
<1>10. ASSUME inFlight[s] # NoCommand, inFlight' = [inFlight EXCEPT ![s] = NoCommand], up' = up,
              \A d \in Command \ {inFlight[s]} : state'[d] = state[d]
       PROVE  Opened' /\ Followed'
  <2>1. Opened'
    BY <1>1, <1>9, <1>10 DEF Calm, Opened
  <2>2. ASSUME NEW t \in Slot, inFlight'[t] # NoCommand PROVE Found(inFlight'[t])
    <3>1. t # s /\ inFlight'[t] = inFlight[t]
      BY <1>2, <1>4, <1>10, <2>2
    <3> QED BY <1>5, <1>10, <2>2, <3>1
  <2> QED BY <2>1, <2>2, FollowedBy
<1>11. ASSUME NEW n \in Command, inFlight[s] # NoCommand,
              SlotOf[n] = s, state[n] = "queued",
              inFlight' = [inFlight EXCEPT ![s] = n], Send(s[1], CommandFrame(n)),
              \A d \in Command \ {n, inFlight[s]} : state'[d] = state[d]
       PROVE  Ordered' /\ Opened' /\ Followed'
  <2>1. CommandFrame(n) \in UpFrame
    BY FramesDiffer
  <2>2. s[2] \in tabs[j]
    BY <1>2, <1>11 DEF Calm, Opened
  <2>3. Ordered'
    <3>1. \A w \in Worker : /\ ~Tells(CommandFrame(n), w) /\ ~Denies(CommandFrame(n), w)
                            /\ CommandFrame(n) \in MyFrames(w) => w \in tabs[j]
      BY <1>11, <2>2, FramesSay
    <3>2. tabs' = tabs
      BY <1>1
    <3> QED BY <1>1, <1>2, <1>11, <2>1, <3>1, <3>2, OrderedSend DEF Calm
  <2>4. Opened'
    BY <1>1, <1>9, <1>11 DEF Calm, Opened
  <2>5. Found(n)
    BY <1>1, <1>2, <1>11, <2>1, Sent DEF Calm, Found
  <2>6. ASSUME NEW t \in Slot, inFlight'[t] # NoCommand PROVE Found(inFlight'[t])
    <3>1. CASE t = s
      BY <1>2, <1>4, <1>11, <2>5, <3>1
    <3>2. CASE t # s
      <4>1. inFlight'[t] = inFlight[t]
        BY <1>4, <1>11, <3>2
      <4>2. t[1] \in Controller
        BY DEF Slot
      <4>3. Has(up[t[1]], {CommandFrame(inFlight[t])}) => Has(up'[t[1]], {CommandFrame(inFlight[t])})
        BY <1>1, <1>2, <1>11, <2>1, <4>2, Sent DEF Calm
      <4> QED BY <1>5, <2>6, <3>2, <4>1, <4>3
    <3> QED BY <3>1, <3>2
  <2> QED BY <2>3, <2>4, <2>6, FollowedBy
<1>12. Ordered' /\ Opened' /\ Followed'
  BY <1>3, <1>7, <1>8, <1>10, <1>11
<1> QED BY <1>6, <1>12 DEF Calm

\* A result is for every controller that watches the worker.
LEMMA CalmReport ==
  ASSUME PathTypeOK, online = Worker, NEW w \in Worker, NEW c \in Command, NEW ok \in BOOLEAN,
         Report(w, c, ok)
  PROVE  /\ \A k \in Controller : \A X : Has(back[k], X) => Has(back'[k], X)
         /\ \A k \in watchers[w] \cap Controller : Has(back'[k], ResultsFor(c))
<1>1. ResultFrame(c, ok) \in BackFrame /\ ResultFrame(c, ok) \in ResultsFor(c)
  BY DEF BackFrame, ResultsFor
<1>2. \A k \in Controller : /\ back'[k] \in {back[k], Append(back[k], ResultFrame(c, ok))}
                            /\ back[k] \in Seq(BackFrame)
  BY Reporting DEF PathTypeOK
<1>3. \A k \in watchers[w] \cap Controller : back'[k] = Append(back[k], ResultFrame(c, ok))
  BY DEF Report
<1>4. ASSUME NEW k \in Controller, NEW X, Has(back[k], X) PROVE Has(back'[k], X)
  <2>1. back[k] \in Seq(BackFrame)
    BY <1>2
  <2>2. Has(Append(back[k], ResultFrame(c, ok)), X)
    BY <1>1, <1>4, <2>1, HasStill
  <2> QED BY <1>2, <1>4, <2>2
<1>5. ASSUME NEW k \in watchers[w] \cap Controller PROVE Has(back'[k], ResultsFor(c))
  <2>1. back[k] \in Seq(BackFrame)
    BY <1>2
  <2>2. Has(Append(back[k], ResultFrame(c, ok)), ResultsFor(c))
    BY <1>1, <2>1, HasNew
  <2> QED BY <1>3, <2>2
<1> QED BY <1>4, <1>5

\* The server takes a frame: the subscription was handled before the command,
\* so the command reaches its worker and the controller watches that worker.
LEMMA CalmServer ==
  ASSUME PathBase, PathBase', UpIsOwn, Calm, NEW j \in Controller, ServerTake(j)
  PROVE  Calm'
<1> DEFINE h == Head(up[j])
<1>1. /\ PathTypeOK /\ PathTypeOK' /\ QueueInv
      /\ up[j] # <<>> /\ up' = [up EXCEPT ![j] = Tail(up[j])] /\ up[j] \in Seq(UpFrame)
      /\ up'[j] = Tail(up[j]) /\ \A k \in Controller \ {j} : up'[k] = up[k]
      /\ state' = state /\ inFlight' = inFlight
      /\ UNCHANGED <<linked, online, tabs, tasks, back>>
  BY DEF ServerTake, PathBase, PathTypeOK, queueVars
<1>2. Opened' /\ (linked = Controller /\ online = Worker)'
  BY <1>1 DEF Calm, Opened
<1>3. ASSUME NEW t \in Slot, inFlight[t] # NoCommand, h # CommandFrame(inFlight[t]),
             Has(down[t[2]], {inFlight[t]}) => Has(down'[t[2]], {inFlight[t]})
      PROVE  Found(inFlight[t])
  <2>1. Somewhere(inFlight[t]) /\ SlotOf[inFlight[t]] = t /\ t[1] \in Controller
    BY <1>3, InFlightIs DEF Calm, Followed
  <2>2. Has(up[t[1]], {CommandFrame(inFlight[t])}) => Has(up'[t[1]], {CommandFrame(inFlight[t])})
    <3>1. CASE t[1] = j
      BY <1>1, <1>3, <3>1, HasStill
    <3>2. CASE t[1] # j
      BY <1>1, <2>1, <3>2
    <3> QED BY <3>1, <3>2
  <2> QED BY <1>1, <1>3, <2>1, <2>2 DEF Somewhere, Found
<1>4. ASSUME NEW ids \in SUBSET Worker, h = RegisterFrame(ids), h.type = "register"
      PROVE  Ordered' /\ Watched' /\ Followed'
  <2>1. /\ watchers' = [w \in Worker |-> IF w \in ids THEN watchers[w] \cup {j} ELSE watchers[w] \ {j}]
        /\ down' = down
    <3>1. h.ids = ids
      BY <1>4 DEF RegisterFrame
    <3> QED BY <1>4, <3>1 DEF ServerTake
  <2>2. \A w \in Worker : /\ Tells(h, w) <=> w \in ids
                          /\ Denies(h, w) <=> w \notin ids
    BY <1>4, FramesSay
  <2>3. ASSUME NEW w \in Worker
        PROVE  /\ Orderly(up'[j], watchers'[w], tabs[j], j, w)
               /\ j \in watchers[w] => j \in watchers'[w]
               /\ \A k \in Controller \ {j} : k \in watchers'[w] <=> k \in watchers[w]
    <3>1. Orderly(up[j], watchers[w], tabs[j], j, w)
      BY DEF Calm, Ordered
    <3>2. \/ Tells(h, w) /\ j \in watchers'[w]
          \/ Denies(h, w) /\ j \notin watchers'[w]
      BY <2>1, <2>2
    <3>3. Orderly(Tail(up[j]), watchers'[w], tabs[j], j, w) /\ (j \in watchers[w] => j \in watchers'[w])
      BY <1>1, <3>1, <3>2, OrderlyTail
    <3>4. \A k \in Controller \ {j} : k \in watchers'[w] <=> k \in watchers[w]
      BY <2>1
    <3> QED BY <1>1, <3>3, <3>4
  <2>4. Ordered'
    <3> SUFFICES ASSUME NEW k \in Controller, NEW w \in Worker
                 PROVE  Orderly(up'[k], watchers'[w], tabs'[k], k, w)
      BY DEF Ordered, Orderly, Told
    <3>1. CASE k = j
      BY <1>1, <2>3, <3>1
    <3>2. CASE k # j
      <4>1. Orderly(up[k], watchers[w], tabs[k], k, w) /\ up'[k] = up[k] /\ tabs' = tabs
        BY <1>1, <3>2 DEF Calm, Ordered
      <4>2. k \in watchers'[w] <=> k \in watchers[w]
        BY <2>3, <3>2
      <4> QED BY <4>1, <4>2 DEF Orderly, Told
    <3> QED BY <3>1, <3>2
  <2>5. Watched'
    <3>1. \A w \in Worker : watchers[w] \subseteq watchers'[w]
      BY <2>1, <2>3
    <3> QED BY <1>1, <2>1, <3>1 DEF Calm, Watched
  <2>6. ASSUME NEW t \in Slot, inFlight[t] # NoCommand PROVE Found(inFlight[t])
    <3>1. h # CommandFrame(inFlight[t])
      BY <1>4 DEF RegisterFrame, CommandFrame
    <3> QED BY <1>3, <2>1, <2>6, <3>1
  <2>7. Followed'
    BY <1>1, <2>6, FollowedBy
  <2> QED BY <2>4, <2>5, <2>7
<1>5. ASSUME NEW n \in Command, h = CommandFrame(n), h.type = "command", h.command = n,
             SlotOf[n][2] \in Worker
      PROVE  Ordered' /\ Watched' /\ Followed'
  <2> DEFINE v == SlotOf[n][2]
  <2>1. watchers' = watchers /\ down' = [down EXCEPT ![v] = Append(down[v], n)]
    BY <1>5 DEF ServerTake, Calm
  <2>2. /\ down'[v] = Append(down[v], n) /\ \A w \in Worker \ {v} : down'[w] = down[w]
        /\ \A w \in Worker : down[w] \in Seq(Command)
    BY <1>1, <1>5, <2>1 DEF PathTypeOK
  <2>3. \A w \in Worker : ~Tells(h, w) /\ ~Denies(h, w)
    BY <1>5, FramesSay
  <2>4. ASSUME NEW w \in Worker PROVE Orderly(up'[j], watchers[w], tabs[j], j, w)
    <3>1. Orderly(up[j], watchers[w], tabs[j], j, w)
      BY DEF Calm, Ordered
    <3>2. Orderly(Tail(up[j]), watchers[w], tabs[j], j, w)
      BY <1>1, <2>3, <3>1, OrderlyTail
    <3> QED BY <1>1, <3>2
  <2>5. Ordered'
    <3> SUFFICES ASSUME NEW k \in Controller, NEW w \in Worker
                 PROVE  Orderly(up'[k], watchers[w], tabs[k], k, w)
      BY <1>1, <2>1 DEF Ordered, Orderly, Told
    <3>1. CASE k = j
      BY <2>4, <3>1
    <3>2. CASE k # j
      BY <1>1, <3>2 DEF Calm, Ordered
    <3> QED BY <3>1, <3>2
  <2>6. SlotOf[n][1] = j
    <3>1. 1 \in 1..Len(up[j]) /\ up[j][1] = CommandFrame(n)
      BY <1>1, <1>5
    <3> QED BY <3>1 DEF UpIsOwn
  <2>7. j \in watchers[v]
    <3>1. h \in MyFrames(v)
      BY <1>5, FramesSay
    <3>2. Orderly(up[j], watchers[v], tabs[j], j, v)
      BY <1>5 DEF Calm, Ordered
    <3>3. ~Tells(h, v) /\ ~Denies(h, v)
      BY <1>5, <2>3
    <3>4. 1 \in 1..Len(up[j]) /\ up[j][1] = h /\ \A i : i \in 1..1 <=> i = 1
      BY <1>1
    <3> QED BY <3>1, <3>2, <3>3, <3>4 DEF Orderly, Told
  <2>8. Watched'
    <3>1. ASSUME NEW w \in Worker, NEW i \in 1..Len(down'[w]) PROVE SlotOf[down'[w][i]][1] \in watchers[w]
      <4>1. CASE w = v
        <5>1. down[v] \in Seq(Command) /\ i \in 1..Len(Append(down[v], n)) /\ down'[v] = Append(down[v], n)
          BY <2>2, <3>1, <4>1
        <5>2. Append(down[v], n)[i] = n \/ (i \in 1..Len(down[v]) /\ Append(down[v], n)[i] = down[v][i])
          BY <5>1
        <5>3. ASSUME i \in 1..Len(down[v]) PROVE SlotOf[down[v][i]][1] \in watchers[v]
          BY <1>5, <5>3 DEF Calm, Watched
        <5> QED BY <2>6, <2>7, <4>1, <5>1, <5>2, <5>3
      <4>2. CASE w # v
        BY <2>2, <3>1, <4>2 DEF Calm, Watched
      <4> QED BY <4>1, <4>2
    <3> QED BY <1>1, <2>1, <3>1 DEF Calm, Watched
  <2>9. ASSUME NEW t \in Slot, inFlight[t] # NoCommand PROVE Found(inFlight[t])
    <3>1. t[2] \in Worker /\ inFlight[t] \in Command /\ SlotOf[inFlight[t]] = t
      BY <2>9, InFlightIs
    <3>2. Has(down[t[2]], {inFlight[t]}) => Has(down'[t[2]], {inFlight[t]})
      <4>1. down[t[2]] \in Seq(Command)
        BY <2>2, <3>1
      <4>2. Has(down[t[2]], {inFlight[t]}) => Has(Append(down[t[2]], n), {inFlight[t]})
        BY <4>1, HasStill
      <4>3. down'[t[2]] \in {down[t[2]], Append(down[t[2]], n)}
        BY <2>2, <3>1
      <4> QED BY <4>2, <4>3
    <3>3. CASE n # inFlight[t]
      <4>1. h # CommandFrame(inFlight[t])
        BY <1>5, <3>1, <3>3, FramesDiffer
      <4> QED BY <1>3, <2>9, <3>2, <4>1
    <3>4. CASE n = inFlight[t]
      <4>1. Has(down'[v], {n})
        BY <1>5, <2>2, HasNew
      <4> QED BY <3>4, <4>1 DEF Found
    <3> QED BY <3>3, <3>4
  <2>10. Followed'
    BY <1>1, <2>9, FollowedBy
  <2> QED BY <2>5, <2>8, <2>10
<1>6. h \in UpFrame
  BY <1>1
<1>7. Ordered' /\ Watched' /\ Followed'
  <2>1. CASE \E ids \in SUBSET Worker : h = RegisterFrame(ids)
    <3>1. PICK ids \in SUBSET Worker : h = RegisterFrame(ids)
      BY <2>1
    <3>2. h.type = "register"
      BY <3>1 DEF RegisterFrame
    <3> HIDE DEF h
    <3> QED BY <1>4, <3>1, <3>2
  <2>2. CASE \E n \in Command : h = CommandFrame(n)
    <3>1. PICK n \in Command : h = CommandFrame(n)
      BY <2>2
    <3>2. h.type = "command" /\ h.command = n /\ SlotOf[n][2] \in Worker
      BY <3>1, CommandQueueAssumption DEF CommandFrame, Slot
    <3> HIDE DEF h
    <3> QED BY <1>5, <3>1, <3>2
  <2> QED BY <1>6, <2>1, <2>2 DEF UpFrame
<1> QED BY <1>2, <1>7 DEF Calm

\* What is taken from the front is not of another command.
LEMMA StillThere ==
  ASSUME NEW fs \in Seq(Command), NEW gs, NEW c, Has(fs, {c}),
         gs = fs \/ (fs # <<>> /\ Head(fs) # c /\ gs = Tail(fs))
                 \/ \E n \in Command : gs = Append(fs, n)
  PROVE  Has(gs, {c})
<1>1. CASE gs = fs
  BY <1>1
<1>2. CASE Head(fs) # c /\ gs = Tail(fs)
  BY <1>2, HasStill
<1>3. CASE \E n \in Command : gs = Append(fs, n)
  BY <1>3, HasStill
<1> QED BY <1>1, <1>2, <1>3

\* What is left, and what is taken, is of controllers that watch ...
LEMMA WatchedTail ==
  ASSUME NEW fs \in Seq(Command), fs # <<>>, NEW X,
         \A i \in 1..Len(fs) : SlotOf[fs[i]][1] \in X
  PROVE  /\ \A i \in 1..Len(Tail(fs)) : SlotOf[Tail(fs)[i]][1] \in X
         /\ SlotOf[Head(fs)][1] \in X
<1>1. /\ \A i \in 1..Len(Tail(fs)) : i + 1 \in 1..Len(fs) /\ Tail(fs)[i] = fs[i + 1]
      /\ 1 \in 1..Len(fs) /\ Head(fs) = fs[1]
  OBVIOUS
<1> QED BY <1>1

\* ... and what is added is of one that watches.
LEMMA WatchedAppend ==
  ASSUME NEW fs \in Seq(Command), NEW n \in Command, NEW X, SlotOf[n][1] \in X,
         \A i \in 1..Len(fs) : SlotOf[fs[i]][1] \in X
  PROVE  \A i \in 1..Len(Append(fs, n)) : SlotOf[Append(fs, n)[i]][1] \in X
<1>1. \A i \in 1..Len(Append(fs, n)) : \/ i \in 1..Len(fs) /\ Append(fs, n)[i] = fs[i]
                                       \/ Append(fs, n)[i] = n
  OBVIOUS
<1> QED BY <1>1

\* The worker takes a command: it becomes a task, or is answered to who gave it.
LEMMA CalmWorker ==
  ASSUME PathBase, PathBase', Calm, NEW v \in Worker, WorkerTake(v)
  PROVE  Calm'
<1> DEFINE h == Head(down[v])
<1>1. /\ PathTypeOK /\ PathTypeOK' /\ QueueInv
      /\ down[v] # <<>> /\ down' = [down EXCEPT ![v] = Tail(down[v])]
      /\ \A w \in Worker : down[w] \in Seq(Command) /\ tasks[w] \in Seq(Command)
      /\ down'[v] = Tail(down[v]) /\ \A w \in Worker \ {v} : down'[w] = down[w]
      /\ h \in Command /\ SlotOf[h][2] = v
      /\ state' = state /\ inFlight' = inFlight
      /\ UNCHANGED <<linked, online, tabs, watchers, up>>
  BY WorkInHand DEF WorkerTake, PathBase, PathTypeOK, queueVars, CommandsOf
<1>2. Opened' /\ Ordered' /\ (linked = Controller /\ online = Worker)'
  BY <1>1 DEF Calm, Opened, Ordered, Orderly, Told
<1>3. /\ \A i \in 1..Len(Tail(down[v])) : SlotOf[Tail(down[v])[i]][1] \in watchers[v]
      /\ SlotOf[h][1] \in watchers[v] /\ SlotOf[h][1] \in Controller
  <2>1. SlotOf[h][1] \in Controller
    BY <1>1, CommandQueueAssumption DEF Slot
  <2>2. \A i \in 1..Len(down[v]) : SlotOf[down[v][i]][1] \in watchers[v]
    BY DEF Calm, Watched
  <2> QED BY <1>1, <2>1, <2>2, WatchedTail
<1>4. \A w \in Worker : \A i \in 1..Len(down'[w]) : SlotOf[down'[w][i]][1] \in watchers'[w]
  <2> SUFFICES ASSUME NEW w \in Worker
               PROVE  \A i \in 1..Len(down'[w]) : SlotOf[down'[w][i]][1] \in watchers[w]
    BY <1>1
  <2>1. CASE w = v
    BY <1>1, <1>3, <2>1
  <2>2. CASE w # v
    BY <1>1, <2>2 DEF Calm, Watched
  <2> QED BY <2>1, <2>2
<1>5. ASSUME NEW t \in Slot, inFlight[t] # NoCommand, inFlight[t] # h,
             Has(tasks[t[2]], {inFlight[t]}) => Has(tasks'[t[2]], {inFlight[t]}),
             Has(back[t[1]], ResultsFor(inFlight[t])) => Has(back'[t[1]], ResultsFor(inFlight[t]))
      PROVE  Found(inFlight[t])
  <2>1. Somewhere(inFlight[t]) /\ SlotOf[inFlight[t]] = t /\ t[2] \in Worker /\ inFlight[t] \in Command
    BY <1>5, InFlightIs DEF Calm, Followed
  <2>2. Has(down[t[2]], {inFlight[t]}) => Has(down'[t[2]], {inFlight[t]})
    <3>1. down'[t[2]] = down[t[2]] \/ (down[t[2]] # <<>> /\ Head(down[t[2]]) # inFlight[t]
                                       /\ down'[t[2]] = Tail(down[t[2]]))
      BY <1>1, <1>5, <2>1
    <3> QED BY <1>1, <2>1, <3>1, StillThere
  <2> QED BY <1>1, <1>5, <2>1, <2>2 DEF Somewhere, Found
<1>6. ASSUME h \in Restarts PROVE Watched' /\ Followed'
  <2>1. tasks' = tasks /\ Report(v, h, TRUE) /\ online = Worker
    BY <1>6 DEF WorkerTake, Calm
  <2>2. Watched'
    BY <1>1, <1>4, <2>1 DEF Calm, Watched
  <2>3. /\ \A k \in Controller : \A X : Has(back[k], X) => Has(back'[k], X)
        /\ Has(back'[SlotOf[h][1]], ResultsFor(h))
    BY <1>1, <1>3, <2>1, CalmReport
  <2>4. ASSUME NEW t \in Slot, inFlight[t] # NoCommand PROVE Found(inFlight[t])
    <3>1. CASE inFlight[t] = h
      BY <2>3, <3>1 DEF Found
    <3>2. CASE inFlight[t] # h
      <4>1. t[1] \in Controller
        BY DEF Slot
      <4> QED BY <1>5, <2>1, <2>3, <2>4, <3>2, <4>1
    <3> QED BY <3>1, <3>2
  <2>5. Followed'
    BY <1>1, <2>4, FollowedBy
  <2> QED BY <2>2, <2>5
<1>7. ASSUME h \notin Restarts PROVE Watched' /\ Followed'
  <2>1. /\ tasks' = [tasks EXCEPT ![v] = Append(tasks[v], h)] /\ back' = back
        /\ tasks'[v] = Append(tasks[v], h) /\ \A w \in Worker \ {v} : tasks'[w] = tasks[w]
    BY <1>1, <1>7 DEF WorkerTake, PathTypeOK
  <2>2. \A w \in Worker : \A i \in 1..Len(tasks'[w]) : SlotOf[tasks'[w][i]][1] \in watchers'[w]
    <3> SUFFICES ASSUME NEW w \in Worker
                 PROVE  \A i \in 1..Len(tasks'[w]) : SlotOf[tasks'[w][i]][1] \in watchers[w]
      BY <1>1
    <3>1. \A i \in 1..Len(tasks[w]) : SlotOf[tasks[w][i]][1] \in watchers[w]
      BY DEF Calm, Watched
    <3>2. CASE w = v
      <4>1. \A i \in 1..Len(Append(tasks[v], h)) : SlotOf[Append(tasks[v], h)[i]][1] \in watchers[v]
        BY <1>1, <1>3, <3>1, <3>2, WatchedAppend
      <4> QED BY <2>1, <3>2, <4>1
    <3>3. CASE w # v
      BY <2>1, <3>1, <3>3
    <3> QED BY <3>2, <3>3
  <2>3. Watched'
    BY <1>4, <2>2 DEF Watched
  <2>4. ASSUME NEW t \in Slot, inFlight[t] # NoCommand PROVE Found(inFlight[t])
    <3>1. CASE inFlight[t] = h
      <4>1. Has(tasks'[v], {h})
        BY <1>1, <2>1, HasNew
      <4> QED BY <1>1, <3>1, <4>1 DEF Found
    <3>2. CASE inFlight[t] # h
      <4>1. t[2] \in Worker /\ tasks'[t[2]] \in {tasks[t[2]], Append(tasks[t[2]], h)}
        BY <2>1 DEF Slot
      <4>2. Has(tasks[t[2]], {inFlight[t]}) => Has(tasks'[t[2]], {inFlight[t]})
        <5>1. tasks[t[2]] \in Seq(Command) /\ h \in Command
          BY <1>1, <4>1
        <5>2. Has(tasks[t[2]], {inFlight[t]}) => Has(Append(tasks[t[2]], h), {inFlight[t]})
          BY <5>1, HasStill
        <5> QED BY <4>1, <5>2
      <4> QED BY <1>5, <2>1, <2>4, <3>2, <4>2
    <3> QED BY <3>1, <3>2
  <2>5. Followed'
    BY <1>1, <2>4, FollowedBy
  <2> QED BY <2>3, <2>5
<1> QED BY <1>2, <1>6, <1>7 DEF Calm

\* A command ends: its result is on the way to who gave it.
LEMMA CalmRun ==
  ASSUME PathBase, PathBase', Calm, NEW v \in Worker, NEW ok \in BOOLEAN, WorkerRun(v, ok)
  PROVE  Calm'
<1> DEFINE h == Head(tasks[v])
<1>1. /\ PathTypeOK /\ PathTypeOK' /\ QueueInv
      /\ tasks[v] # <<>> /\ tasks' = [tasks EXCEPT ![v] = Tail(tasks[v])]
      /\ \A w \in Worker : tasks[w] \in Seq(Command)
      /\ tasks'[v] = Tail(tasks[v]) /\ \A w \in Worker \ {v} : tasks'[w] = tasks[w]
      /\ h \in Command /\ SlotOf[h][2] = v /\ Report(v, h, ok) /\ online = Worker
      /\ state' = state /\ inFlight' = inFlight
      /\ UNCHANGED <<linked, online, tabs, watchers, up, down>>
  BY WorkInHand DEF WorkerRun, PathBase, PathTypeOK, queueVars, CommandsOf, Calm
<1>2. Opened' /\ Ordered' /\ (linked = Controller /\ online = Worker)'
  BY <1>1 DEF Calm, Opened, Ordered, Orderly, Told
<1>3. /\ \A i \in 1..Len(Tail(tasks[v])) : SlotOf[Tail(tasks[v])[i]][1] \in watchers[v]
      /\ SlotOf[h][1] \in watchers[v] /\ SlotOf[h][1] \in Controller
  <2>1. SlotOf[h][1] \in Controller
    BY <1>1, CommandQueueAssumption DEF Slot
  <2>2. \A i \in 1..Len(tasks[v]) : SlotOf[tasks[v][i]][1] \in watchers[v]
    BY DEF Calm, Watched
  <2> QED BY <1>1, <2>1, <2>2, WatchedTail
<1>4. \A w \in Worker : \A i \in 1..Len(tasks'[w]) : SlotOf[tasks'[w][i]][1] \in watchers[w]
  <2> SUFFICES ASSUME NEW w \in Worker
               PROVE  \A i \in 1..Len(tasks'[w]) : SlotOf[tasks'[w][i]][1] \in watchers[w]
    OBVIOUS
  <2>1. CASE w = v
    BY <1>1, <1>3, <2>1
  <2>2. CASE w # v
    BY <1>1, <2>2 DEF Calm, Watched
  <2> QED BY <2>1, <2>2
<1>5. Watched'
  BY <1>1, <1>4 DEF Calm, Watched
<1>6. /\ \A k \in Controller : \A X : Has(back[k], X) => Has(back'[k], X)
      /\ Has(back'[SlotOf[h][1]], ResultsFor(h))
  BY <1>1, <1>3, CalmReport
<1>7. ASSUME NEW t \in Slot, inFlight[t] # NoCommand PROVE Found(inFlight[t])
  <2>1. CASE inFlight[t] = h
    BY <1>6, <2>1 DEF Found
  <2>2. CASE inFlight[t] # h
    <3>1. /\ Somewhere(inFlight[t]) /\ SlotOf[inFlight[t]] = t
          /\ t[1] \in Controller /\ t[2] \in Worker /\ inFlight[t] \in Command
      BY <1>7, InFlightIs DEF Calm, Followed
    <3>2. tasks'[t[2]] = tasks[t[2]] \/ (tasks[t[2]] # <<>> /\ Head(tasks[t[2]]) # inFlight[t]
                                         /\ tasks'[t[2]] = Tail(tasks[t[2]]))
      BY <1>1, <2>2, <3>1
    <3>3. Has(tasks[t[2]], {inFlight[t]}) => Has(tasks'[t[2]], {inFlight[t]})
      BY <1>1, <3>1, <3>2, StillThere
    <3> QED BY <1>1, <1>6, <3>1, <3>3 DEF Somewhere, Found
  <2> QED BY <2>1, <2>2
<1>8. Followed'
  BY <1>1, <1>7, FollowedBy
<1> QED BY <1>2, <1>5, <1>8 DEF Calm

\* The inductive invariant behind NoneIsForgotten.
PathCalmInv == PathBase /\ UpIsOwn /\ upsets \in Nat /\ (upsets = 0 => Calm)

\* A step breaks something for good, or keeps the calm.
LEMMA PathCalmStep ==
  ASSUME PathCalmInv, [PathNext]_vars
  PROVE  PathCalmInv'
<1>1. PathBase /\ PathBase' /\ UpIsOwn /\ UpIsOwn' /\ upsets \in Nat
  BY BaseStep, UpIsOwnStep DEF PathCalmInv
<1>2. \/ upsets' = upsets + 1
      \/ /\ upsets' = upsets
         /\ \/ \E c \in Command : Submit(c)
            \/ \E k \in Controller : ServerTake(k) \/ ControllerTake(k) \/ RelinkController(k)
            \/ \E k \in Controller, w \in Worker : OpenTab(k, w)
            \/ \E w \in Worker : WorkerTake(w) \/ WorkerRestarted(w) \/ RelinkWorker(w)
            \/ \E w \in Worker, ok \in BOOLEAN : WorkerRun(w, ok)
            \/ UNCHANGED vars
  <2>1. ASSUME NEW k \in Controller, NEW w \in Worker, CloseTab(k, w) PROVE upsets' = upsets + 1
    BY <2>1 DEF CloseTab, Upset
  <2>2. ASSUME NEW k \in Controller, DropController(k) PROVE upsets' = upsets + 1
    BY <2>2 DEF DropController, Upset
  <2>3. ASSUME NEW w \in Worker, DropWorker(w) \/ EndWorker(w) PROVE upsets' = upsets + 1
    BY <2>3 DEF DropWorker, EndWorker, Upset
  <2>4. ASSUME NEW c \in Command, Submit(c) PROVE upsets' = upsets
    BY <2>4 DEF Submit
  <2>5. ASSUME NEW k \in Controller, ServerTake(k) \/ ControllerTake(k) \/ RelinkController(k)
        PROVE  upsets' = upsets
    BY <2>5 DEF ServerTake, ControllerTake, RelinkController
  <2>6. ASSUME NEW k \in Controller, NEW w \in Worker, OpenTab(k, w) PROVE upsets' = upsets
    BY <2>6 DEF OpenTab
  <2>7. ASSUME NEW w \in Worker, WorkerTake(w) \/ WorkerRestarted(w) \/ RelinkWorker(w)
        PROVE  upsets' = upsets
    BY <2>7 DEF WorkerTake, WorkerRestarted, RelinkWorker
  <2>8. ASSUME NEW w \in Worker, NEW ok \in BOOLEAN, WorkerRun(w, ok) PROVE upsets' = upsets
    BY <2>8 DEF WorkerRun
  <2>9. CASE UNCHANGED vars
    BY <2>9 DEF vars, pathVars
  <2> QED BY <2>1, <2>2, <2>3, <2>4, <2>5, <2>6, <2>7, <2>8, <2>9 DEF PathNext
<1>3. upsets' \in Nat /\ (upsets' = 0 => upsets = 0 /\ upsets' = upsets /\ upsets' # upsets + 1)
  BY <1>1, <1>2
<1>4. ASSUME upsets' = 0 PROVE Calm'
  <2>1. Calm /\ upsets' = upsets /\ upsets' # upsets + 1
    BY <1>3, <1>4 DEF PathCalmInv
  <2>2. CASE \E c \in Command : Submit(c)
    BY <1>1, <2>1, <2>2, CalmSubmit
  <2>3. CASE \E k \in Controller : ServerTake(k)
    BY <1>1, <2>1, <2>3, CalmServer
  <2>4. ASSUME NEW k \in Controller, ControllerTake(k) PROVE Calm'
    <3>1. back[k] # <<>> /\ PathTypeOK
      BY <1>1, <2>4 DEF ControllerTake, PathBase
    <3> QED BY <1>1, <2>1, <2>4, <3>1, ResultInHand, CalmConnected, CalmResult
  <2>5. CASE \E k \in Controller, w \in Worker : OpenTab(k, w)
    BY <1>1, <2>1, <2>5, CalmOpen
  <2>6. CASE \E w \in Worker : WorkerTake(w)
    BY <1>1, <2>1, <2>6, CalmWorker
  <2>7. CASE \E w \in Worker, ok \in BOOLEAN : WorkerRun(w, ok)
    BY <1>1, <2>1, <2>7, CalmRun
  <2>8. CASE \E k \in Controller : RelinkController(k)
    BY <2>1, <2>8 DEF RelinkController, Calm
  <2>9. CASE \E w \in Worker : RelinkWorker(w)
    BY <2>1, <2>9 DEF RelinkWorker, Calm
  <2>10. ASSUME (\E w \in Worker : WorkerRestarted(w)) \/ UNCHANGED vars PROVE Calm'
    <3>1. UNCHANGED <<queueVars, linked, online, tabs, watchers, up, down, tasks, back>>
      BY <2>10 DEF WorkerRestarted, vars, pathVars
    <3>2. Ordered' /\ Watched' /\ Opened' /\ Followed'
      BY <2>1, <3>1 DEF Calm, Ordered, Orderly, Told, Watched, Opened, Followed, Somewhere, queueVars
    <3> QED BY <2>1, <3>1, <3>2 DEF Calm
  <2> QED BY <1>2, <2>1, <2>2, <2>3, <2>4, <2>5, <2>6, <2>7, <2>8, <2>9, <2>10
<1> QED BY <1>1, <1>3, <1>4 DEF PathCalmInv

\* At the start nothing is broken, sent or in flight.
LEMMA PathCalmStart == PathInit => PathCalmInv
<1> SUFFICES ASSUME PathInit PROVE PathCalmInv
  OBVIOUS
<1>1. PathOnceInv
  BY PathOnceStart
<1>2. /\ linked = Controller /\ online = Worker /\ upsets = 0
      /\ \A k \in Controller : up[k] = <<>> /\ tabs[k] = {}
      /\ \A w \in Worker : down[w] = <<>> /\ tasks[w] = <<>> /\ watchers[w] = {}
      /\ \A c \in Command : state[c] = "new"
      /\ \A s \in Slot : inFlight[s] = NoCommand
  BY DEF PathInit, QueueInit
<1>3. Len(<<>>) = 0 /\ \A i : i \notin 1..0
  BY EmptySeq
<1>4. Ordered
  BY <1>2, <1>3 DEF Ordered, Orderly, Told
<1>5. Watched /\ Opened /\ Followed
  BY <1>2, <1>3 DEF Watched, Opened, Followed
<1> QED BY <1>1, <1>2, <1>4, <1>5 DEF PathCalmInv, PathOnceInv, Calm

\* Every behaviour of the path, with any number of controllers: as long as no
\* link breaks, no worker ends and no tab is closed, what a queue waits for is
\* on its way, at the worker or on the way back (command_queue.py would wait
\* for ever otherwise: nothing there times out).
THEOREM PathForgetsNone == PathSpec => []NoneIsForgotten
<1>1. PathCalmInv => NoneIsForgotten
  <2> SUFFICES ASSUME PathCalmInv, upsets = 0, NEW s \in Slot, inFlight[s] # NoCommand
               PROVE  \/ inFlight[s] \in UnderWay(s)
                      \/ \E ok \in BOOLEAN : ResultFrame(inFlight[s], ok) \in SeqSet(back[s[1]])
    BY DEF NoneIsForgotten
  <2> DEFINE c == inFlight[s]
  <2>1. /\ Somewhere(c) /\ c \in Command /\ SlotOf[c] = s
        /\ up[s[1]] \in Seq(UpFrame) /\ down[s[2]] \in Seq(Command)
        /\ tasks[s[2]] \in Seq(Command) /\ back[s[1]] \in Seq(BackFrame)
    BY InFlightIs DEF PathCalmInv, Calm, Followed
  <2>2. ASSUME NEW M, NEW fs \in Seq(M), NEW X, Has(fs, X) PROVE \E x \in X : x \in SeqSet(fs)
    BY <2>2 DEF Has, SeqSet
  <2> HIDE DEF c
  <2>3. ASSUME Has(back[s[1]], ResultsFor(c))
        PROVE  \E ok \in BOOLEAN : ResultFrame(c, ok) \in SeqSet(back[s[1]])
    <3>1. \E x \in ResultsFor(c) : x \in SeqSet(back[s[1]])
      BY <2>1, <2>2, <2>3
    <3> QED BY <3>1 DEF ResultsFor
  <2>4. ASSUME \/ Has(up[s[1]], {CommandFrame(c)}) \/ Has(down[s[2]], {c}) \/ Has(tasks[s[2]], {c})
        PROVE  c \in UnderWay(s)
    <3>1. \/ CommandFrame(c) \in SeqSet(up[s[1]]) \/ c \in SeqSet(down[s[2]]) \/ c \in SeqSet(tasks[s[2]])
      BY <2>1, <2>2, <2>4
    <3> QED BY <2>1, <3>1 DEF UnderWay
  <2>5. c \in UnderWay(s) \/ \E ok \in BOOLEAN : ResultFrame(c, ok) \in SeqSet(back[s[1]])
    BY <2>1, <2>3, <2>4 DEF Somewhere
  <2> QED BY <2>5 DEF c
<1>2. PathCalmInv /\ [PathNext]_vars => PathCalmInv'
  BY PathCalmStep
<1> QED BY <1>1, <1>2, PathCalmStart, PTL DEF PathSpec
=============================================================================
