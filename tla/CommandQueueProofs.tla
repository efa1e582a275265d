------------------------- MODULE CommandQueueProofs -------------------------
(***************************************************************************)
(* Proofs about CommandQueue, for any controllers, workers and commands:   *)
(* its invariants, and that it keeps the order OneByOne promises.          *)
(*                                                                         *)
(* QueueTypeOK and NoIdleBacklog are inductive together.  PlacedAsShown is *)
(* not: Placed says the same by position in the backlogs, and that nothing *)
(* is in a backlog twice.                                                  *)
(***************************************************************************)
EXTENDS CommandQueue, SequenceTheorems, WellFoundedInduction, TLAPS

\* Every nonempty set of numbers has a least one.
LEMMA LeastNumber ==
  ASSUME NEW S \in SUBSET Nat, S # {}
  PROVE  \E x \in S : \A y \in S : x <= y
<1> DEFINE R == OpToRel(<, Nat)
<1>1. IsWellFoundedOn(R, Nat)
  BY NatLessThanWellFounded
<1>2. R = {p \in Nat \X Nat : p[1] < p[2]}
  BY DEF OpToRel
<1> HIDE DEF R
<1>3. PICK x \in S : \A y \in S : ~(<<y, x>> \in R)
  BY <1>1, WFMin
<1>4. x \in Nat
  OBVIOUS
<1>5. \A y \in S : y \in Nat /\ ~(y < x)
  BY <1>2, <1>3, <1>4
<1>6. \A y \in S : x <= y
  BY <1>4, <1>5
<1> QED BY <1>6

\* A run of refused dispatches comes to an end: with the queue, or before it at
\* a command that can be sent (_process_next).
LEMMA RunOfRefusalsEnds ==
  ASSUME NEW q \in Seq(Command)
  PROVE  /\ Refused(q) \in 0..Len(q)
         /\ \A i \in 1..Refused(q) : q[i] \in Unsendable
         /\ Refused(q) < Len(q) => q[Refused(q) + 1] \notin Unsendable
<1> DEFINE Stops == {i \in 1..Len(q) + 1 : i <= Len(q) => q[i] \notin Unsendable}
           Fits(n) == /\ \A i \in 1..n : q[i] \in Unsendable
                      /\ n < Len(q) => q[n + 1] \notin Unsendable
<1>1. Len(q) \in Nat
  OBVIOUS
<1>2. Stops \in SUBSET Nat /\ Len(q) + 1 \in Stops
  BY <1>1
<1>3. PICK x \in Stops : \A y \in Stops : x <= y
  <2> HIDE DEF Stops
  <2> QED BY <1>2, LeastNumber
<1>4. x - 1 \in 0..Len(q) /\ Fits(x - 1)
  BY <1>1, <1>3
<1>5. Refused(q) = CHOOSE n \in 0..Len(q) : Fits(n)
  BY DEF Refused
<1> HIDE DEF Fits
<1>6. Refused(q) \in 0..Len(q) /\ Fits(Refused(q))
  BY <1>4, <1>5
<1> QED BY <1>6 DEF Fits
-----------------------------------------------------------------------------
\* A backlog is a sequence of commands.
LEMMA BacklogType ==
  ASSUME QueueTypeOK
  PROVE  Backlog \in [Slot -> Seq(Command)]
<1> SUFFICES ASSUME NEW s \in Slot PROVE Pending(s) \in Seq(Command)
  BY DEF Backlog
<1>1. queue[s] \in Seq(Command) /\ inFlight[s] \in Command \cup {NoCommand}
  BY DEF QueueTypeOK
<1>2. CASE inFlight[s] = NoCommand
  BY <1>1, <1>2 DEF Pending
<1>3. CASE inFlight[s] # NoCommand
  <2>1. <<inFlight[s]>> \in Seq(Command)
    BY <1>1, <1>3
  <2> QED BY <1>1, <1>3, <2>1, ConcatProperties DEF Pending
<1> QED BY <1>2, <1>3

\* What _process_next does: the refused commands leave the queue, the next
\* one is in flight but remains in the backlog.
LEMMA Processing ==
  ASSUME QueueTypeOK,
         NEW s \in Slot, NEW q \in Seq(Command), NEW h \in Seq(Command),
         NEW st \in [Command -> CommandState],
         ProcessNext(s, q, h, st)
  PROVE  /\ QueueTypeOK'
         /\ NoIdleBacklog => NoIdleBacklog'
         /\ Backlog' = [Backlog EXCEPT ![s] = SubSeq(q, Refused(q) + 1, Len(q))]
<1> DEFINE n == Refused(q)
<1>1. n \in 0..Len(q) /\ Len(q) \in Nat
  BY RunOfRefusalsEnds
<1>2. \A i \in 1..Len(q) : q[i] \in Command
  BY ElementOfSeq
<1>3. /\ queue' = [queue EXCEPT ![s] = SubSeq(q, n + 2, Len(q))]
      /\ inFlight' = [inFlight EXCEPT ![s] = IF n < Len(q) THEN q[n + 1] ELSE NoCommand]
      /\ history' = [history EXCEPT ![s] = h \o SubSeq(q, 1, n)]
      /\ state' = [c \in Command |-> IF \E i \in 1..n : q[i] = c THEN "failed"
                                     ELSE IF n < Len(q) /\ q[n + 1] = c THEN "in_flight"
                                     ELSE st[c]]
  BY DEF ProcessNext
<1> HIDE DEF n
<1>4. SubSeq(q, n + 2, Len(q)) \in Seq(Command)
  BY <1>1, <1>2, SubSeqProperties
<1>5. SubSeq(q, 1, n) \in Seq(Command)
  BY <1>1, <1>2, SubSeqProperties
<1>6. h \o SubSeq(q, 1, n) \in Seq(Command)
  BY <1>5, ConcatProperties
<1>7. QueueTypeOK'
  <2>1. queue' \in [Slot -> Seq(Command)]
    BY <1>3, <1>4 DEF QueueTypeOK
  <2>2. inFlight' \in [Slot -> Command \cup {NoCommand}]
    BY <1>1, <1>2, <1>3 DEF QueueTypeOK
  <2>3. history' \in [Slot -> Seq(Command)]
    BY <1>3, <1>6 DEF QueueTypeOK
  <2>4. state' \in [Command -> CommandState]
    BY <1>3 DEF CommandState, Ended
  <2> QED BY <2>1, <2>2, <2>3, <2>4 DEF QueueTypeOK
<1>8. NoIdleBacklog => NoIdleBacklog'
  <2> SUFFICES ASSUME NoIdleBacklog, NEW r \in Slot, inFlight'[r] = NoCommand
               PROVE  queue'[r] = <<>>
    BY DEF NoIdleBacklog
  <2>1. CASE r # s
    BY <1>3, <2>1 DEF NoIdleBacklog, QueueTypeOK
  <2>2. CASE r = s
    <3>1. ~(n < Len(q))
      BY <1>1, <1>2, <1>3, <2>2, CommandQueueAssumption DEF QueueTypeOK
    <3>2. SubSeq(q, n + 2, Len(q)) = <<>>
      BY <1>1, <3>1, SubSeqEmpty
    <3> QED BY <1>3, <2>2, <3>2 DEF QueueTypeOK
  <2> QED BY <2>1, <2>2
<1>9. Backlog' = [Backlog EXCEPT ![s] = SubSeq(q, n + 1, Len(q))]
  <2>1. Pending(s)' = SubSeq(q, n + 1, Len(q))
    <3>1. queue'[s] = SubSeq(q, n + 2, Len(q))
      BY <1>3 DEF QueueTypeOK
    <3>2. CASE n < Len(q)
      <4>1. inFlight'[s] = q[n + 1] /\ q[n + 1] # NoCommand
        BY <1>1, <1>2, <1>3, <3>2, CommandQueueAssumption DEF QueueTypeOK
      <4>2. n + 1 \in 1..Len(q) /\ Len(q) \in n + 1..Len(q) /\ (n + 1) + 1 = n + 2
        BY <1>1, <3>2
      <4>3. SubSeq(q, n + 1, Len(q)) = <<q[n + 1]>> \o SubSeq(q, n + 2, Len(q))
        BY <4>2, SubSeqRecursiveFirst
      <4> QED BY <3>1, <4>1, <4>3 DEF Pending
    <3>3. CASE ~(n < Len(q))
      <4>1. inFlight'[s] = NoCommand
        BY <1>3, <3>3 DEF QueueTypeOK
      <4>2. SubSeq(q, n + 2, Len(q)) = <<>> /\ SubSeq(q, n + 1, Len(q)) = <<>>
        BY <1>1, <3>3, SubSeqEmpty
      <4> QED BY <3>1, <4>1, <4>2 DEF Pending
    <3> QED BY <3>2, <3>3
  <2>2. \A r \in Slot \ {s} : Pending(r)' = Pending(r)
    BY <1>3 DEF Pending, QueueTypeOK
  <2> QED BY <2>1, <2>2 DEF Backlog
<1> QED BY <1>7, <1>8, <1>9 DEF n

\* _process_next of the queue as it is, at the end of the command in flight.
LEMMA EndingType ==
  ASSUME QueueTypeOK, NEW s \in Slot, inFlight[s] # NoCommand, NEW end \in Ended
  PROVE  /\ queue[s] \in Seq(Command)
         /\ Append(history[s], inFlight[s]) \in Seq(Command)
         /\ [state EXCEPT ![inFlight[s]] = end] \in [Command -> CommandState]
<1>1. inFlight[s] \in Command /\ queue[s] \in Seq(Command) /\ history[s] \in Seq(Command)
  BY DEF QueueTypeOK
<1>2. Append(history[s], inFlight[s]) \in Seq(Command)
  BY <1>1
<1>3. [state EXCEPT ![inFlight[s]] = end] \in [Command -> CommandState]
  BY <1>1 DEF QueueTypeOK, CommandState
<1> QED BY <1>1, <1>2, <1>3

\* And of a new command that finds nothing in flight.
LEMMA GivenType ==
  ASSUME QueueTypeOK, NEW c \in Command
  PROVE  /\ SlotOf[c] \in Slot
         /\ queue[SlotOf[c]] \in Seq(Command)
         /\ Append(queue[SlotOf[c]], c) \in Seq(Command)
         /\ history[SlotOf[c]] \in Seq(Command)
         /\ [state EXCEPT ![c] = "queued"] \in [Command -> CommandState]
<1>1. SlotOf[c] \in Slot
  BY CommandQueueAssumption
<1>2. queue[SlotOf[c]] \in Seq(Command) /\ history[SlotOf[c]] \in Seq(Command)
  BY <1>1 DEF QueueTypeOK
<1>3. Append(queue[SlotOf[c]], c) \in Seq(Command)
  BY <1>2
<1>4. [state EXCEPT ![c] = "queued"] \in [Command -> CommandState]
  BY DEF QueueTypeOK, CommandState
<1> QED BY <1>1, <1>2, <1>3, <1>4

\* A command given to a slot with one in flight waits behind all others.
LEMMA Waiting ==
  ASSUME QueueTypeOK, NEW c \in Command, EnqueueCommand(c), inFlight[SlotOf[c]] # NoCommand
  PROVE  /\ QueueTypeOK'
         /\ NoIdleBacklog => NoIdleBacklog'
         /\ Backlog' = [Backlog EXCEPT ![SlotOf[c]] = Append(Backlog[SlotOf[c]], c)]
         /\ state' = [state EXCEPT ![c] = "queued"]
<1> DEFINE s == SlotOf[c]
<1>1. /\ queue' = [queue EXCEPT ![s] = Append(queue[s], c)]
      /\ state' = [state EXCEPT ![c] = "queued"]
      /\ inFlight' = inFlight /\ history' = history
  BY DEF EnqueueCommand
<1>2. /\ s \in Slot /\ queue[s] \in Seq(Command) /\ Append(queue[s], c) \in Seq(Command)
      /\ state' \in [Command -> CommandState]
  BY <1>1, GivenType
<1> HIDE DEF s
<1>3. QueueTypeOK'
  BY <1>1, <1>2 DEF QueueTypeOK
<1>4. NoIdleBacklog => NoIdleBacklog'
  BY <1>1, <1>2 DEF NoIdleBacklog, QueueTypeOK, s
<1>5. Pending(s)' = Append(Pending(s), c)
  <2>1. inFlight[s] \in Command /\ inFlight'[s] = inFlight[s]
    BY <1>1, <1>2 DEF QueueTypeOK, s
  <2>2. queue'[s] = Append(queue[s], c)
    BY <1>1, <1>2 DEF QueueTypeOK
  <2>3. <<inFlight[s]>> \o Append(queue[s], c) = Append(<<inFlight[s]>> \o queue[s], c)
    BY <1>2, <2>1
  <2> QED BY <2>1, <2>2, <2>3 DEF Pending, s
<1>6. \A r \in Slot \ {s} : Pending(r)' = Pending(r)
  BY <1>1 DEF Pending, QueueTypeOK
<1>7. Backlog' = [Backlog EXCEPT ![s] = Append(Backlog[s], c)]
  BY <1>2, <1>5, <1>6 DEF Backlog
<1> QED BY <1>1, <1>3, <1>4, <1>7 DEF s

\* Every call is one of four: it leaves commands and places alone, ends the
\* command in flight, or gives one, which waits or is processed at once.
LEMMA Calls ==
  ASSUME QueueTypeOK, [QueueNext]_queueVars
  PROVE  \/ QueueTypeOK' /\ UNCHANGED <<queue, inFlight, state>>
         \/ \E s \in Slot, end \in Ended : inFlight[s] # NoCommand /\ EndInFlight(s, end)
         \/ \E c \in Command : EnqueueCommand(c) /\ inFlight[SlotOf[c]] # NoCommand
         \/ \E c \in Command : EnqueueCommand(c) /\ inFlight[SlotOf[c]] = NoCommand
<1>1. CASE UNCHANGED queueVars
  BY <1>1 DEF queueVars, QueueTypeOK
<1>2. CASE \E c \in Command : EnqueueCommand(c)
  BY <1>2
<1>3. ASSUME NEW c \in Command, HandleTimeout(c)
      PROVE  \E s \in Slot, end \in Ended : inFlight[s] # NoCommand /\ EndInFlight(s, end)
  BY <1>3, GivenType, CommandQueueAssumption DEF HandleTimeout, Ended
<1>4. ASSUME NEW s \in Slot, NEW ok \in BOOLEAN, HandleCommandResult(s, ok)
      PROVE  \/ UNCHANGED queueVars
             \/ \E end \in Ended : inFlight[s] # NoCommand /\ EndInFlight(s, end)
  BY <1>4 DEF HandleCommandResult, Ended
<1>5. ASSUME NEW s \in Slot, ClearHistory(s)
      PROVE  QueueTypeOK' /\ UNCHANGED <<queue, inFlight, state>>
  <2>1. <<>> \in Seq(Command)
    BY EmptySeq
  <2> QED BY <1>5, <2>1 DEF ClearHistory, QueueTypeOK
<1> QED BY <1>1, <1>2, <1>3, <1>4, <1>5 DEF QueueNext

\* The types, and that nothing waits behind nothing, are kept by every call.
LEMMA QueueStep ==
  ASSUME QueueTypeOK, NoIdleBacklog, [QueueNext]_queueVars
  PROVE  QueueTypeOK' /\ NoIdleBacklog'
<1>1. CASE QueueTypeOK' /\ UNCHANGED <<queue, inFlight, state>>
  BY <1>1 DEF NoIdleBacklog
<1>2. ASSUME NEW s \in Slot, NEW end \in Ended, inFlight[s] # NoCommand, EndInFlight(s, end)
      PROVE  QueueTypeOK' /\ NoIdleBacklog'
  BY <1>2, EndingType, Processing DEF EndInFlight
<1>3. ASSUME NEW c \in Command, EnqueueCommand(c), inFlight[SlotOf[c]] # NoCommand
      PROVE  QueueTypeOK' /\ NoIdleBacklog'
  BY <1>3, Waiting
<1>4. ASSUME NEW c \in Command, EnqueueCommand(c), inFlight[SlotOf[c]] = NoCommand
      PROVE  QueueTypeOK' /\ NoIdleBacklog'
  <2>1. ProcessNext(SlotOf[c], Append(queue[SlotOf[c]], c), history[SlotOf[c]],
                    [state EXCEPT ![c] = "queued"])
    BY <1>4 DEF EnqueueCommand
  <2> QED BY <2>1, GivenType, Processing
<1> QED BY <1>1, <1>2, <1>3, <1>4, Calls

\* At the start.
LEMMA QueueStart == QueueInit => QueueTypeOK /\ NoIdleBacklog
<1>1. <<>> \in Seq(Command)
  BY EmptySeq
<1> QED BY <1>1 DEF QueueInit, QueueTypeOK, NoIdleBacklog, CommandState

\* Queues and histories hold commands, and what is in flight is a command or
\* none, whatever results, timeouts and refusals come in whatever order
\* (command_queue.py:106-164).
THEOREM QueueTypes == QueueSpec => []QueueTypeOK
<1>1. QueueTypeOK /\ NoIdleBacklog /\ [QueueNext]_queueVars => (QueueTypeOK /\ NoIdleBacklog)'
  BY QueueStep
<1> QED BY <1>1, QueueStart, PTL DEF QueueSpec

\* No command waits behind nothing, however many dispatches in a row raise
\* (command_queue.py:166-204).
THEOREM QueueMovesOn == QueueSpec => []NoIdleBacklog
<1>1. QueueTypeOK /\ NoIdleBacklog /\ [QueueNext]_queueVars => (QueueTypeOK /\ NoIdleBacklog)'
  BY QueueStep
<1> QED BY <1>1, QueueStart, PTL DEF QueueSpec
-----------------------------------------------------------------------------
\* Where commands are: what is in the backlog of a slot was given to that slot,
\* is there once, and is in flight if it is the first and queued otherwise;
\* and all commands that say so are there.
Mine(s, b, st) ==
  \A i \in 1..Len(b) :
    /\ SlotOf[b[i]] = s
    /\ st[b[i]] = IF i = 1 THEN "in_flight" ELSE "queued"
Once(b) == \A i, j \in 1..Len(b) : b[i] = b[j] => i = j
Owed == {"queued", "in_flight"}
In(c, b) == \E i \in 1..Len(b) : b[i] = c

Placed ==
  /\ \A s \in Slot : Mine(s, Backlog[s], state) /\ Once(Backlog[s])
  /\ \A c \in Command : state[c] \in Owed => In(c, Backlog[SlotOf[c]])

\* The same of the queue that _process_next finds, all of it queued.
Waits(s, q, st) ==
  /\ \A i \in 1..Len(q) : SlotOf[q[i]] = s /\ st[q[i]] = "queued"
  /\ Once(q)
  /\ \A c \in Command : SlotOf[c] = s /\ st[c] \in Owed => In(c, q)
  /\ \A c \in Command : SlotOf[c] # s => st[c] = state[c]

\* The rest of a queue.
LEMMA Rest ==
  ASSUME NEW q \in Seq(Command), NEW n \in 0..Len(q)
  PROVE  LET b == SubSeq(q, n + 1, Len(q))
         IN  /\ b \in Seq(Command) /\ Len(b) = Len(q) - n
             /\ \A i \in 1..Len(b) : i + n \in 1..Len(q) /\ b[i] = q[i + n]
<1>1. \A i \in n + 1..Len(q) : q[i] \in Command
  BY ElementOfSeq
<1>2. n + 1 \in Int /\ Len(q) \in Int /\ n \in Nat /\ Len(q) \in Nat /\ n <= Len(q)
  OBVIOUS
<1> DEFINE b == SubSeq(q, n + 1, Len(q))
<1>3. /\ b \in Seq(Command)
      /\ Len(b) = IF n + 1 <= Len(q) THEN Len(q) - (n + 1) + 1 ELSE 0
      /\ \A i \in 1..Len(q) - (n + 1) + 1 : b[i] = q[(n + 1) + i - 1]
  BY <1>1, <1>2, SubSeqProperties
<1> HIDE DEF b
<1>4. Len(b) = Len(q) - n
  BY <1>2, <1>3
<1>5. \A i \in 1..Len(b) : i + n \in 1..Len(q) /\ b[i] = q[i + n]
  BY <1>2, <1>3, <1>4
<1> QED BY <1>3, <1>4, <1>5 DEF b

\* _process_next puts everything in its place.
LEMMA ProcessingPlaces ==
  ASSUME QueueTypeOK, Placed,
         NEW s \in Slot, NEW q \in Seq(Command), NEW h \in Seq(Command),
         NEW st \in [Command -> CommandState],
         ProcessNext(s, q, h, st), Waits(s, q, st)
  PROVE  Placed'
<1> DEFINE n == Refused(q)
           b == SubSeq(q, n + 1, Len(q))
<1>1. n \in 0..Len(q) /\ Len(q) \in Nat
  BY RunOfRefusalsEnds
<1>2. /\ b \in Seq(Command) /\ Len(b) = Len(q) - n
      /\ \A i \in 1..Len(b) : i + n \in 1..Len(q) /\ b[i] = q[i + n]
  BY <1>1, Rest
<1>3. Backlog' = [Backlog EXCEPT ![s] = b]
  BY Processing
<1>4. state' = [c \in Command |-> IF \E i \in 1..n : q[i] = c THEN "failed"
                                   ELSE IF n < Len(q) /\ q[n + 1] = c THEN "in_flight"
                                   ELSE st[c]]
  BY DEF ProcessNext
<1>5. Backlog \in [Slot -> Seq(Command)]
  BY BacklogType
<1>6. \A i \in 1..Len(q) : q[i] \in Command /\ SlotOf[q[i]] = s /\ st[q[i]] = "queued"
  BY ElementOfSeq DEF Waits
<1>7. \A i, j \in 1..Len(q) : q[i] = q[j] => i = j
  BY DEF Waits, Once
<1> HIDE DEF n, b
<1>8. Backlog'[s] = b /\ \A r \in Slot \ {s} : Backlog'[r] = Backlog[r]
  BY <1>3, <1>5
<1>9. Mine(s, b, state') /\ Once(b)
  <2>1. \A i \in 1..Len(b) : b[i] \in Command /\ SlotOf[b[i]] = s
    BY <1>2, <1>6
  <2>2. ASSUME NEW i \in 1..Len(b)
        PROVE  state'[b[i]] = IF i = 1 THEN "in_flight" ELSE "queued"
    <3>1. i + n \in 1..Len(q) /\ b[i] = q[i + n] /\ i \in Nat /\ n \in Nat
      BY <1>1, <1>2
    <3>2. ~\E j \in 1..n : q[j] = b[i]
      BY <1>1, <1>7, <3>1
    <3>3. n < Len(q) /\ n + 1 \in 1..Len(q)
      BY <1>1, <3>1
    <3>4. q[n + 1] = b[i] <=> i = 1
      BY <1>1, <1>7, <3>1, <3>3
    <3>5. b[i] \in Command /\ st[b[i]] = "queued"
      BY <1>6, <2>1, <3>1
    <3>6. state'[b[i]] = IF q[n + 1] = b[i] THEN "in_flight" ELSE st[b[i]]
      BY <1>4, <3>2, <3>3, <3>5
    <3> QED BY <3>4, <3>5, <3>6
  <2>3. Once(b)
    <3> SUFFICES ASSUME NEW i \in 1..Len(b), NEW j \in 1..Len(b), b[i] = b[j] PROVE i = j
      BY DEF Once
    <3>1. /\ i + n \in 1..Len(q) /\ b[i] = q[i + n] /\ i \in Nat /\ n \in Nat
          /\ j + n \in 1..Len(q) /\ b[j] = q[j + n] /\ j \in Nat
      BY <1>1, <1>2
    <3>2. i + n = j + n
      BY <1>7, <3>1
    <3> QED BY <3>1, <3>2
  <2> QED BY <2>1, <2>2, <2>3 DEF Mine
<1>10. ASSUME NEW r \in Slot, r # s
       PROVE  Mine(r, Backlog[r], state') /\ Once(Backlog[r])
  <2>1. ASSUME NEW i \in 1..Len(Backlog[r])
        PROVE  state'[Backlog[r][i]] = state[Backlog[r][i]]
    <3> DEFINE c == Backlog[r][i]
    <3>1. c \in Command /\ SlotOf[c] # s
      BY <1>5, <1>10, <2>1, ElementOfSeq DEF Placed, Mine
    <3>2. ~\E j \in 1..Len(q) : q[j] = c
      BY <1>6, <3>1
    <3>3. st[c] = state[c]
      BY <3>1 DEF Waits
    <3> HIDE DEF c
    <3>4. ~(\E j \in 1..n : q[j] = c) /\ ~(n < Len(q) /\ q[n + 1] = c)
      BY <1>1, <3>2
    <3>5. state'[c] = state[c]
      BY <1>4, <3>1, <3>3, <3>4
    <3> QED BY <3>5 DEF c
  <2> QED BY <2>1 DEF Placed, Mine
<1>11. ASSUME NEW c \in Command, state'[c] \in Owed
       PROVE  In(c, Backlog'[SlotOf[c]])
  <2>1. SlotOf[c] \in Slot
    BY CommandQueueAssumption
  <2>2. CASE SlotOf[c] # s
    <3>1. ~\E j \in 1..Len(q) : q[j] = c
      BY <1>6, <2>2
    <3>2. state'[c] = state[c]
      BY <1>1, <1>4, <2>2, <3>1 DEF Waits
    <3> QED BY <1>8, <1>11, <2>1, <2>2, <3>2 DEF Placed
  <2>3. CASE SlotOf[c] = s
    <3>1. PICK j \in 1..Len(q) : q[j] = c
      <4>1. CASE n < Len(q) /\ q[n + 1] = c
        BY <1>1, <4>1
      <4>2. CASE ~(n < Len(q) /\ q[n + 1] = c)
        BY <1>1, <1>4, <1>11, <2>3, <4>2 DEF Waits, Owed, In
      <4> QED BY <4>1, <4>2
    <3>2. ~(j \in 1..n)
      BY <1>4, <1>11, <3>1 DEF Owed
    <3>3. j - n \in 1..Len(b) /\ (j - n) + n = j
      BY <1>1, <1>2, <3>1, <3>2
    <3>4. b[j - n] = c
      BY <1>2, <3>1, <3>3
    <3> QED BY <1>8, <2>3, <3>3, <3>4 DEF In
  <2> QED BY <2>2, <2>3
<1> QED BY <1>8, <1>9, <1>10, <1>11 DEF Placed

\* What is left behind the command in flight waits.
LEMMA LeftWaits ==
  ASSUME QueueTypeOK, Placed, NEW s \in Slot, inFlight[s] # NoCommand, NEW end \in Ended
  PROVE  Waits(s, queue[s], [state EXCEPT ![inFlight[s]] = end])
<1> DEFINE b == Backlog[s]
           q == queue[s]
           st == [state EXCEPT ![inFlight[s]] = end]
<1>1. inFlight[s] \in Command /\ q \in Seq(Command) /\ Len(q) \in Nat
  BY DEF QueueTypeOK
<1>2. b = <<inFlight[s]>> \o q
  BY DEF Backlog, Pending
<1>3. /\ Len(b) = 1 + Len(q) /\ b[1] = inFlight[s]
      /\ \A i \in 1..Len(q) : i + 1 \in 1..Len(b) /\ i + 1 # 1 /\ b[i + 1] = q[i]
      /\ \A i \in 1..Len(b) : i = 1 \/ (i - 1 \in 1..Len(q) /\ b[i] = q[i - 1])
  <2>1. <<inFlight[s]>> \in Seq(Command) /\ Len(<<inFlight[s]>>) = 1 /\ <<inFlight[s]>>[1] = inFlight[s]
    BY <1>1
  <2>2. /\ Len(b) = 1 + Len(q)
        /\ \A i \in 1..1 + Len(q) : b[i] = IF i <= 1 THEN <<inFlight[s]>>[i] ELSE q[i - 1]
    BY <1>1, <1>2, <2>1, ConcatProperties
  <2> HIDE DEF b, q
  <2> QED BY <1>1, <2>1, <2>2
<1>4. Mine(s, b, state) /\ Once(b)
  BY DEF Placed
<1>5. \A c \in Command : st[c] = IF c = inFlight[s] THEN end ELSE state[c]
  BY <1>1 DEF QueueTypeOK
<1>6. \A i \in 1..Len(q) : q[i] \in Command
  BY <1>1, ElementOfSeq
<1> HIDE DEF b, q, st
<1>7. \A i \in 1..Len(q) : q[i] # inFlight[s]
  BY <1>1, <1>3, <1>4 DEF Once
<1>8. \A i \in 1..Len(q) : SlotOf[q[i]] = s /\ st[q[i]] = "queued"
  BY <1>3, <1>4, <1>5, <1>6, <1>7 DEF Mine
<1>9. Once(q)
  BY <1>1, <1>3, <1>4 DEF Once
<1>10. ASSUME NEW c \in Command, SlotOf[c] = s, st[c] \in Owed
       PROVE  In(c, q)
  <2>1. c # inFlight[s] /\ state[c] \in Owed
    BY <1>5, <1>10 DEF Owed, Ended
  <2>2. PICK i \in 1..Len(b) : b[i] = c
    BY <1>10, <2>1 DEF Placed, In, b
  <2>3. i - 1 \in 1..Len(q) /\ q[i - 1] = c
    BY <1>3, <2>1, <2>2
  <2> QED BY <2>3 DEF In
<1>11. \A c \in Command : SlotOf[c] # s => st[c] = state[c]
  <2>1. SlotOf[inFlight[s]] = s
    BY <1>1, <1>3, <1>4 DEF Mine
  <2> QED BY <1>5, <2>1
<1> QED BY <1>8, <1>9, <1>10, <1>11 DEF Waits, q, st

\* A new command that finds nothing in flight is alone.
LEMMA GivenWaits ==
  ASSUME QueueTypeOK, NoIdleBacklog, Placed,
         NEW c \in Command, state[c] = "new", inFlight[SlotOf[c]] = NoCommand
  PROVE  Waits(SlotOf[c], Append(queue[SlotOf[c]], c), [state EXCEPT ![c] = "queued"])
<1> DEFINE s == SlotOf[c]
           st == [state EXCEPT ![c] = "queued"]
<1>1. s \in Slot /\ queue[s] = <<>>
  BY CommandQueueAssumption DEF NoIdleBacklog
<1>2. Backlog[s] = <<>>
  BY <1>1 DEF Backlog, Pending
<1>3. /\ Append(queue[s], c) \in Seq(Command) /\ Len(Append(queue[s], c)) = 1
      /\ Append(queue[s], c)[1] = c
  BY <1>1
<1>4. st[c] = "queued" /\ \A d \in Command \ {c} : st[d] = state[d]
  BY DEF QueueTypeOK
<1>5. \A d \in Command : SlotOf[d] = s => state[d] \notin Owed
  BY <1>1, <1>2 DEF Placed, In
<1> HIDE DEF st
<1>6. Waits(s, Append(queue[s], c), st)
  BY <1>3, <1>4, <1>5 DEF Waits, Once, In
<1> QED BY <1>6 DEF st

\* Commands keep their places in every call.
LEMMA PlacedStep ==
  ASSUME QueueTypeOK, NoIdleBacklog, Placed, [QueueNext]_queueVars
  PROVE  Placed'
<1>1. CASE QueueTypeOK' /\ UNCHANGED <<queue, inFlight, state>>
  <2>1. Backlog' = Backlog /\ state' = state
    BY <1>1 DEF Backlog, Pending
  <2> QED BY <2>1 DEF Placed, Mine, Once, In
<1>2. ASSUME NEW s \in Slot, NEW end \in Ended, inFlight[s] # NoCommand, EndInFlight(s, end)
      PROVE  Placed'
  BY <1>2, EndingType, LeftWaits, ProcessingPlaces DEF EndInFlight
<1>3. ASSUME NEW c \in Command, EnqueueCommand(c), inFlight[SlotOf[c]] # NoCommand
      PROVE  Placed'
  <2> DEFINE s == SlotOf[c]
             b == Backlog[s]
             b2 == Append(b, c)
  <2>1. Backlog' = [Backlog EXCEPT ![s] = b2] /\ state' = [state EXCEPT ![c] = "queued"]
    BY <1>3, Waiting
  <2>2. s \in Slot /\ Backlog \in [Slot -> Seq(Command)] /\ b \in Seq(Command) /\ Len(b) \in Nat
    BY BacklogType, CommandQueueAssumption
  <2>3. b # <<>>
    <3>1. b = <<inFlight[s]>> \o queue[s] /\ inFlight[s] \in Command /\ queue[s] \in Seq(Command)
      BY <1>3, <2>2 DEF Backlog, Pending, QueueTypeOK
    <3> QED BY <3>1
  <2>4. /\ Len(b2) = Len(b) + 1 /\ b2[Len(b) + 1] = c
        /\ \A i \in 1..Len(b) : b2[i] = b[i]
    BY <2>2
  <2>5. state[c] = "new"
    BY <1>3 DEF EnqueueCommand
  <2>6. \A r \in Slot : Mine(r, Backlog[r], state) /\ Once(Backlog[r])
    BY DEF Placed
  <2>7. \A r \in Slot : \A i \in 1..Len(Backlog[r]) :
           Backlog[r][i] \in Command /\ Backlog[r][i] # c /\ state'[Backlog[r][i]] = state[Backlog[r][i]]
    <3> SUFFICES ASSUME NEW r \in Slot, NEW i \in 1..Len(Backlog[r])
                 PROVE  /\ Backlog[r][i] \in Command /\ Backlog[r][i] # c
                        /\ state'[Backlog[r][i]] = state[Backlog[r][i]]
      OBVIOUS
    <3>1. Backlog[r][i] \in Command
      BY <2>2, ElementOfSeq
    <3>2. Backlog[r][i] # c
      BY <2>5, <2>6 DEF Mine
    <3> QED BY <2>1, <3>1, <3>2 DEF QueueTypeOK
  <2>8. Backlog'[s] = b2 /\ \A r \in Slot \ {s} : Backlog'[r] = Backlog[r]
    BY <2>1, <2>2
  <2>9. state'[c] = "queued" /\ \A d \in Command \ {c} : state'[d] = state[d]
    BY <2>1 DEF QueueTypeOK
  <2>10. SlotOf[c] = s /\ Mine(s, b, state) /\ Once(b)
    BY <2>2, <2>6
  <2>11. \A i \in 1..Len(b) : b[i] # c /\ state'[b[i]] = state[b[i]]
    BY <2>2, <2>7
  <2>12. Len(b) # 0
    BY <2>2, <2>3, EmptySeq
  <2> HIDE DEF s, b, b2
  <2>13. Mine(s, b2, state')
    <3> SUFFICES ASSUME NEW i \in 1..Len(b2)
                 PROVE  /\ SlotOf[b2[i]] = s
                        /\ state'[b2[i]] = IF i = 1 THEN "in_flight" ELSE "queued"
      BY DEF Mine
    <3>1. CASE i \in 1..Len(b)
      BY <2>4, <2>10, <2>11, <3>1 DEF Mine
    <3>2. CASE i = Len(b) + 1
      BY <2>2, <2>4, <2>9, <2>10, <2>12, <3>2
    <3> QED BY <2>2, <2>4, <3>1, <3>2
  <2>14. Once(b2)
    BY <2>2, <2>4, <2>10, <2>11 DEF Once
  <2>15. \A r \in Slot \ {s} : Mine(r, Backlog[r], state') /\ Once(Backlog[r])
    BY <2>6, <2>7 DEF Mine
  <2>16. ASSUME NEW d \in Command, state'[d] \in Owed
         PROVE  In(d, Backlog'[SlotOf[d]])
    <3>1. SlotOf[d] \in Slot
      BY CommandQueueAssumption
    <3>2. CASE d = c
      BY <2>2, <2>4, <2>8, <2>10, <3>2 DEF In
    <3>3. CASE d # c
      <4>1. In(d, Backlog[SlotOf[d]])
        BY <2>9, <2>16, <3>3 DEF Placed
      <4>2. CASE SlotOf[d] = s
        <5>1. PICK i \in 1..Len(b) : b[i] = d
          BY <4>1, <4>2 DEF In, b
        <5>2. i \in 1..Len(b2) /\ b2[i] = d
          BY <2>2, <2>4, <5>1
        <5> QED BY <2>8, <4>2, <5>2 DEF In
      <4>3. CASE SlotOf[d] # s
        BY <2>8, <3>1, <4>1, <4>3
      <4> QED BY <4>2, <4>3
    <3> QED BY <3>2, <3>3
  <2> QED BY <2>8, <2>13, <2>14, <2>15, <2>16 DEF Placed
<1>4. ASSUME NEW c \in Command, EnqueueCommand(c), inFlight[SlotOf[c]] = NoCommand
      PROVE  Placed'
  <2> DEFINE s == SlotOf[c]
             q == Append(queue[s], c)
             st == [state EXCEPT ![c] = "queued"]
  <2>1. ProcessNext(s, q, history[s], st) /\ state[c] = "new"
    BY <1>4 DEF EnqueueCommand
  <2>2. /\ s \in Slot /\ q \in Seq(Command) /\ history[s] \in Seq(Command)
        /\ st \in [Command -> CommandState]
    BY GivenType
  <2>3. Waits(s, q, st)
    BY <1>4, <2>1, GivenWaits
  <2> HIDE DEF s, q, st
  <2> QED BY <2>1, <2>2, <2>3, ProcessingPlaces
<1> QED BY <1>1, <1>2, <1>3, <1>4, Calls

\* At the start no command is anywhere.
LEMMA PlacedStart == QueueInit => Placed
<1> SUFFICES ASSUME QueueInit PROVE Placed
  OBVIOUS
<1>1. \A s \in Slot : Backlog[s] = <<>>
  BY DEF QueueInit, Backlog, Pending
<1>2. \A c \in Command : state[c] = "new"
  BY DEF QueueInit
<1>3. \A s \in Slot : Len(Backlog[s]) = 0
  BY <1>1, EmptySeq
<1> QED BY <1>2, <1>3 DEF Placed, Mine, Once, Owed

\* A command in its place shows it.
LEMMA PlacedShows ==
  ASSUME QueueTypeOK, Placed
  PROVE  PlacedAsShown
<1> SUFFICES ASSUME NEW c \in Command
             PROVE  LET places == {p \in Slot \X (1..Len(Pending(SlotOf[c]))) :
                                     p[2] \in DOMAIN Pending(p[1]) /\ Pending(p[1])[p[2]] = c}
                    IN  IF state[c] \in {"queued", "in_flight"}
                          THEN \E i \in DOMAIN Pending(SlotOf[c]) :
                                 /\ places = {<<SlotOf[c], i>>}
                                 /\ (i = 1) = (state[c] = "in_flight")
                          ELSE places = {}
  BY DEF PlacedAsShown
<1> DEFINE t == SlotOf[c]
           places == {p \in Slot \X (1..Len(Pending(t))) :
                        p[2] \in DOMAIN Pending(p[1]) /\ Pending(p[1])[p[2]] = c}
<1>1. t \in Slot
  BY CommandQueueAssumption
<1>2. \A s \in Slot : /\ Pending(s) = Backlog[s]
                      /\ Pending(s) \in Seq(Command)
                      /\ DOMAIN Pending(s) = 1..Len(Pending(s))
  BY BacklogType DEF Backlog
<1>3. \A s \in Slot : Mine(s, Pending(s), state) /\ Once(Pending(s))
  BY <1>2 DEF Placed
<1>4. state[c] \in Owed => In(c, Pending(t))
  BY <1>1, <1>2 DEF Placed
<1>5. ASSUME NEW p \in places
      PROVE  /\ p[1] = t /\ p[2] \in 1..Len(Pending(t)) /\ Pending(t)[p[2]] = c
             /\ p = <<t, p[2]>>
             /\ state[c] = IF p[2] = 1 THEN "in_flight" ELSE "queued"
  <2>1. /\ p[1] \in Slot /\ p[2] \in 1..Len(Pending(p[1])) /\ Pending(p[1])[p[2]] = c
        /\ p = <<p[1], p[2]>>
    BY <1>2
  <2>2. SlotOf[c] = p[1] /\ state[c] = IF p[2] = 1 THEN "in_flight" ELSE "queued"
    BY <1>3, <2>1 DEF Mine
  <2> QED BY <2>1, <2>2
<1>6. CASE state[c] \in Owed
  <2>1. PICK i \in 1..Len(Pending(t)) : Pending(t)[i] = c
    BY <1>4, <1>6 DEF In
  <2>2. <<t, i>> \in places
    BY <1>1, <1>2, <2>1
  <2>3. ASSUME NEW p \in places PROVE p = <<t, i>>
    BY <1>1, <1>3, <1>5, <2>1 DEF Once
  <2>4. places = {<<t, i>>}
    BY <2>2, <2>3
  <2>5. (i = 1) = (state[c] = "in_flight")
    BY <1>1, <1>3, <2>1 DEF Mine
  <2>6. i \in DOMAIN Pending(t)
    BY <1>1, <1>2
  <2> HIDE DEF places
  <2> QED BY <1>6, <2>4, <2>5, <2>6 DEF Owed, places
<1>7. CASE state[c] \notin Owed
  <2>1. places = {}
    BY <1>5, <1>7 DEF Owed
  <2> QED BY <1>7, <2>1 DEF Owed
<1> QED BY <1>6, <1>7

\* What the invariants are proved from, in one.
QueueInv == QueueTypeOK /\ NoIdleBacklog /\ Placed

LEMMA QueueInvHolds == QueueSpec => []QueueInv
<1>1. QueueInit => QueueInv
  BY QueueStart, PlacedStart DEF QueueInv
<1>2. QueueInv /\ [QueueNext]_queueVars => QueueInv'
  BY QueueStep, PlacedStep DEF QueueInv
<1> QED BY <1>1, <1>2, PTL DEF QueueSpec

\* No command is lost, doubled or in another worker's queue: the one that shows
\* "in flight" is the first of the backlog of its slot, one that shows "queued"
\* is behind it, any other is nowhere (command_queue.py:62-204).
THEOREM QueuePlaces == QueueSpec => []PlacedAsShown
<1>1. QueueInv => PlacedAsShown
  BY PlacedShows DEF QueueInv
<1> QED BY <1>1, QueueInvHolds, PTL
-----------------------------------------------------------------------------
\* The refinement: what ends in a call are the oldest commands of a backlog.

\* The commands that _process_next refuses are those that end in it.
LEMMA ProcessingEnds ==
  ASSUME QueueTypeOK,
         NEW s \in Slot, NEW q \in Seq(Command), NEW h \in Seq(Command),
         NEW st \in [Command -> CommandState],
         ProcessNext(s, q, h, st), Waits(s, q, st)
  PROVE  EndedCommands' = {c \in Command : st[c] \in Ended} \cup {q[i] : i \in 1..Refused(q)}
<1> DEFINE n == Refused(q)
<1>1. n \in 0..Len(q) /\ Len(q) \in Nat
  BY RunOfRefusalsEnds
<1>2. state' = [c \in Command |-> IF \E i \in 1..n : q[i] = c THEN "failed"
                                   ELSE IF n < Len(q) /\ q[n + 1] = c THEN "in_flight"
                                   ELSE st[c]]
  BY DEF ProcessNext
<1>3. \A i \in 1..Len(q) : q[i] \in Command /\ st[q[i]] = "queued"
  BY ElementOfSeq DEF Waits
<1> HIDE DEF n
<1>4. ASSUME NEW c \in Command
      PROVE  state'[c] \in Ended <=> st[c] \in Ended \/ \E i \in 1..n : q[i] = c
  <2>1. CASE \E i \in 1..n : q[i] = c
    BY <1>2, <2>1 DEF Ended
  <2>2. CASE n < Len(q) /\ q[n + 1] = c /\ ~\E i \in 1..n : q[i] = c
    <3>1. state'[c] = "in_flight"
      BY <1>2, <2>2
    <3>2. n + 1 \in 1..Len(q)
      BY <1>1, <2>2
    <3>3. st[c] = "queued"
      BY <1>3, <2>2, <3>2
    <3> QED BY <2>2, <3>1, <3>3 DEF Ended
  <2>3. CASE ~(n < Len(q) /\ q[n + 1] = c) /\ ~\E i \in 1..n : q[i] = c
    BY <1>2, <2>3
  <2> QED BY <2>1, <2>2, <2>3
<1>5. \A i \in 1..n : q[i] \in Command
  BY <1>1, <1>3
<1> QED BY <1>4, <1>5 DEF EndedCommands, n

\* An ending and the refusals after it end the oldest of the backlog.
LEMMA EndingAdvances ==
  ASSUME QueueTypeOK, Placed,
         NEW s \in Slot, NEW end \in Ended, inFlight[s] # NoCommand, EndInFlight(s, end)
  PROVE  Order!Advance(s, Backlog[s])
<1> DEFINE f == inFlight[s]
           q == queue[s]
           b == Backlog[s]
           n == Refused(q)
           st == [state EXCEPT ![f] = end]
<1>1. f \in Command /\ q \in Seq(Command) /\ n \in 0..Len(q) /\ Len(q) \in Nat
  BY RunOfRefusalsEnds DEF QueueTypeOK
<1>2. Backlog' = [Backlog EXCEPT ![s] = SubSeq(q, n + 1, Len(q))]
  BY EndingType, Processing DEF EndInFlight
<1>3. EndedCommands' = {c \in Command : st[c] \in Ended} \cup {q[i] : i \in 1..n}
  BY EndingType, LeftWaits, ProcessingEnds DEF EndInFlight
<1>4. {c \in Command : st[c] \in Ended} = EndedCommands \cup {f}
  BY <1>1 DEF EndedCommands, QueueTypeOK
<1>5. b = <<f>> \o q /\ b \in Seq(Command)
  BY BacklogType DEF Backlog, Pending
<1> HIDE DEF f, q, b, n, st
<1>6. /\ Len(b) = 1 + Len(q) /\ b[1] = f
      /\ \A i \in 1..Len(q) : b[i + 1] = q[i]
  <2>1. <<f>> \in Seq(Command) /\ Len(<<f>>) = 1 /\ <<f>>[1] = f
    BY <1>1
  <2>2. /\ Len(b) = 1 + Len(q)
        /\ \A i \in 1..1 + Len(q) : b[i] = IF i <= 1 THEN <<f>>[i] ELSE q[i - 1]
    BY <1>1, <1>5, <2>1, ConcatProperties
  <2> QED BY <1>1, <2>1, <2>2
<1>7. n + 1 \in 0..Len(b)
  BY <1>1, <1>6
<1>8. SubSeq(b, (n + 1) + 1, Len(b)) = SubSeq(q, n + 1, Len(q))
  <2> DEFINE r == SubSeq(b, (n + 1) + 1, Len(b))
             t == SubSeq(q, n + 1, Len(q))
  <2>1. /\ r \in Seq(Command) /\ Len(r) = Len(b) - (n + 1)
        /\ \A i \in 1..Len(r) : r[i] = b[i + (n + 1)]
    BY <1>5, <1>7, Rest
  <2>2. /\ t \in Seq(Command) /\ Len(t) = Len(q) - n
        /\ \A i \in 1..Len(t) : i + n \in 1..Len(q) /\ t[i] = q[i + n]
    BY <1>1, Rest
  <2> HIDE DEF r, t
  <2>3. Len(r) = Len(t)
    BY <1>1, <1>6, <2>1, <2>2
  <2>4. ASSUME NEW i \in 1..Len(r) PROVE r[i] = t[i]
    <3>1. i \in Nat /\ n \in Nat /\ i + (n + 1) = (i + n) + 1
      BY <1>1
    <3>2. i + n \in 1..Len(q) /\ t[i] = q[i + n]
      BY <2>2, <2>3
    <3>3. b[(i + n) + 1] = q[i + n]
      BY <1>6, <3>2
    <3> QED BY <2>1, <3>1, <3>2, <3>3
  <2>5. r = t
    BY <2>1, <2>2, <2>3, <2>4, SeqEqual
  <2> QED BY <2>5 DEF r, t
<1>9. {b[i] : i \in 1..n + 1} = {f} \cup {q[i] : i \in 1..n}
  <2>1. \A i \in 1..n : i + 1 \in 1..n + 1 /\ b[i + 1] = q[i]
    BY <1>1, <1>6
  <2>2. \A i \in 1..n + 1 : i = 1 \/ (i - 1 \in 1..n /\ b[i] = q[i - 1])
    BY <1>1, <1>6
  <2>3. 1 \in 1..n + 1
    BY <1>1
  <2>4. \A d : (\E i \in 1..n + 1 : b[i] = d) <=> d = f \/ \E i \in 1..n : q[i] = d
    BY <1>6, <2>1, <2>2, <2>3
  <2> QED BY <2>4
<1>10. /\ Backlog' = [Backlog EXCEPT ![s] = SubSeq(b, (n + 1) + 1, Len(b))]
       /\ EndedCommands' = EndedCommands \cup {b[i] : i \in 1..n + 1}
  BY <1>2, <1>3, <1>4, <1>8, <1>9
<1> QED BY <1>7, <1>10 DEF Order!Advance, b

\* A command that was never given is in no backlog and has not ended.
LEMMA NewIsNotGiven ==
  ASSUME QueueTypeOK, Placed, NEW c \in Command, state[c] = "new"
  PROVE  c \notin Order!Given
<1>1. c \notin EndedCommands
  BY DEF EndedCommands, Ended
<1>2. \A s \in Slot : \A i \in DOMAIN Backlog[s] : Backlog[s][i] # c
  <2> SUFFICES ASSUME NEW s \in Slot, NEW i \in DOMAIN Backlog[s]
               PROVE  Backlog[s][i] # c
    OBVIOUS
  <2>1. i \in 1..Len(Backlog[s])
    BY BacklogType
  <2> QED BY <2>1 DEF Placed, Mine
<1> QED BY <1>1, <1>2 DEF Order!Given

\* Giving a command that finds nothing in flight.
LEMMA GivingToIdle ==
  ASSUME QueueTypeOK, NoIdleBacklog, Placed,
         NEW c \in Command, EnqueueCommand(c), inFlight[SlotOf[c]] = NoCommand
  PROVE  Order!Give(c)
<1> DEFINE s == SlotOf[c]
           q == Append(queue[s], c)
           n == Refused(q)
           st == [state EXCEPT ![c] = "queued"]
<1>1. s \in Slot /\ queue[s] = <<>> /\ state[c] = "new"
  BY CommandQueueAssumption DEF NoIdleBacklog, EnqueueCommand
<1>2. q = Append(Backlog[s], c) /\ Backlog[s] = <<>>
  BY <1>1 DEF Backlog, Pending
<1>3. /\ ProcessNext(s, q, history[s], st) /\ q \in Seq(Command)
      /\ history[s] \in Seq(Command) /\ st \in [Command -> CommandState]
  BY GivenType DEF EnqueueCommand
<1>4. Waits(s, q, st)
  BY <1>1, GivenWaits
<1>5. n \in 0..Len(q)
  BY <1>3, RunOfRefusalsEnds
<1>6. {d \in Command : st[d] \in Ended} = EndedCommands
  BY <1>1 DEF EndedCommands, Ended, QueueTypeOK
<1> HIDE DEF q, st
<1>7. /\ Backlog' = [Backlog EXCEPT ![s] = SubSeq(q, n + 1, Len(q))]
      /\ EndedCommands' = EndedCommands \cup {q[i] : i \in 1..n}
  BY <1>1, <1>3, <1>4, <1>6, Processing, ProcessingEnds
<1> HIDE DEF s, n
<1>8. Order!Advance(s, q)
  BY <1>5, <1>7 DEF Order!Advance
<1> QED BY <1>1, <1>2, <1>8, NewIsNotGiven DEF Order!Give, s, q

\* Giving a command that waits.
LEMMA GivingWaits ==
  ASSUME QueueTypeOK, Placed,
         NEW c \in Command, EnqueueCommand(c), inFlight[SlotOf[c]] # NoCommand
  PROVE  Order!Give(c)
<1> DEFINE s == SlotOf[c]
           b == Append(Backlog[s], c)
<1>1. Backlog' = [Backlog EXCEPT ![s] = b] /\ state' = [state EXCEPT ![c] = "queued"]
  BY Waiting
<1>2. s \in Slot /\ Backlog[s] \in Seq(Command) /\ state[c] = "new"
  BY BacklogType, CommandQueueAssumption DEF EnqueueCommand
<1>3. b \in Seq(Command) /\ Len(b) \in Nat
  BY <1>2
<1>4. SubSeq(b, 0 + 1, Len(b)) = b
  BY <1>3, SubSeqFull
<1>5. EndedCommands' = EndedCommands
  BY <1>1, <1>2 DEF EndedCommands, Ended, QueueTypeOK
<1> HIDE DEF b, s
<1>6. Order!Advance(s, b)
  <2>1. 0 \in 0..Len(b) /\ 1..0 = {}
    BY <1>3
  <2>2. EndedCommands' = EndedCommands \cup {b[i] : i \in 1..0}
    BY <1>5, <2>1
  <2> QED BY <1>1, <1>4, <2>1, <2>2 DEF Order!Advance
<1> QED BY <1>2, <1>6, NewIsNotGiven DEF Order!Give, b, s

\* Every call is a step of the promised order or none.
LEMMA OrderStep ==
  ASSUME QueueInv, [QueueNext]_queueVars
  PROVE  [Order!OrderNext]_<<Backlog, EndedCommands>>
<1>1. CASE QueueTypeOK' /\ UNCHANGED <<queue, inFlight, state>>
  BY <1>1 DEF Backlog, Pending, EndedCommands
<1>2. ASSUME NEW s \in Slot, NEW end \in Ended, inFlight[s] # NoCommand, EndInFlight(s, end)
      PROVE  Order!OrderNext
  BY <1>2, EndingAdvances DEF QueueInv, Order!OrderNext
<1>3. ASSUME NEW c \in Command, EnqueueCommand(c), inFlight[SlotOf[c]] # NoCommand
      PROVE  Order!OrderNext
  BY <1>3, GivingWaits DEF QueueInv, Order!OrderNext
<1>4. ASSUME NEW c \in Command, EnqueueCommand(c), inFlight[SlotOf[c]] = NoCommand
      PROVE  Order!OrderNext
  BY <1>4, GivingToIdle DEF QueueInv, Order!OrderNext
<1>5. QueueTypeOK
  BY DEF QueueInv
<1> QED BY <1>1, <1>2, <1>3, <1>4, <1>5, Calls

\* Nothing given, nothing ended.
LEMMA OrderStart == QueueInit => Order!OrderInit
  BY DEF QueueInit, Order!OrderInit, Backlog, Pending, EndedCommands, Ended

\* The queue keeps the order it promises: the commands for a worker end in the
\* order they were given, whether by result, timeout or refusal, and no other
\* worker's are touched (command_queue.py:62-204 against OneByOne).
THEOREM QueueKeepsOrder == QueueSpec => KeepsOrder
<1>1. QueueInv /\ [QueueNext]_queueVars => [Order!OrderNext]_<<Backlog, EndedCommands>>
  BY OrderStep
<1> QED BY <1>1, OrderStart, QueueInvHolds, PTL DEF QueueSpec, KeepsOrder, Order!OrderSpec
=============================================================================
