------------------------- MODULE CommandPathProofs -------------------------
(***************************************************************************)
(* Lemmas about CommandPath, for any controllers, workers, commands and    *)
(* breaks: its types, its steps as steps of the queues, and what each step *)
(* does to one round trip.                                                 *)
(*                                                                         *)
(* On the round trip of a worker with one controller - to the server, to   *)
(* the worker, among its tasks and back - there is at most one item, and   *)
(* it is of the command in flight (Trip).  A step keeps the item, passes   *)
(* it on or loses it.                                                      *)
(***************************************************************************)
EXTENDS CommandPath, CommandQueueProofs

(* Trips: four sequences q, what in each counts (S), of which one item     *)

Way == {"up", "down", "tasks", "back"}

Alone(q, S) ==
  \A a, b \in Way : \A i \in 1..Len(q[a]), j \in 1..Len(q[b]) :
    q[a][i] \in S[a] /\ q[b][j] \in S[b] => a = b /\ i = j
Carries(q, S, G) ==
  \A a \in Way : \A i \in 1..Len(q[a]) : q[a][i] \in S[a] => q[a][i] \in G[a]
Free(q, S) == \A a \in Way : \A i \in 1..Len(q[a]) : q[a][i] \notin S[a]

\* What counts in gs was in fs, each d places further on.
Kept(fs, gs, S, d) ==
  \A j \in 1..Len(gs) : gs[j] \in S => j + d \in 1..Len(fs) /\ fs[j + d] = gs[j]

\* What is left of one item is one item or none.
LEMMA KeptTrip ==
  ASSUME NEW q, NEW r, NEW S, NEW G, NEW d \in [Way -> Nat],
         \A a \in Way : Len(r[a]) \in Nat /\ Kept(q[a], r[a], S[a], d[a])
  PROVE  /\ Alone(q, S) => Alone(r, S)
         /\ Carries(q, S, G) => Carries(r, S, G)
         /\ Free(q, S) => Free(r, S)
<1>1. ASSUME NEW a \in Way, NEW j \in 1..Len(r[a]), r[a][j] \in S[a]
      PROVE  j + d[a] \in 1..Len(q[a]) /\ q[a][j + d[a]] = r[a][j] /\ j \in Nat /\ d[a] \in Nat
  BY <1>1 DEF Kept
<1>2. Free(q, S) => Free(r, S)
  BY <1>1 DEF Free
<1>3. Carries(q, S, G) => Carries(r, S, G)
  BY <1>1 DEF Carries
<1>4. ASSUME Alone(q, S),
             NEW a \in Way, NEW b \in Way, NEW i \in 1..Len(r[a]), NEW j \in 1..Len(r[b]),
             r[a][i] \in S[a], r[b][j] \in S[b]
      PROVE  a = b /\ i = j
  <2>1. /\ i + d[a] \in 1..Len(q[a]) /\ q[a][i + d[a]] \in S[a]
        /\ j + d[b] \in 1..Len(q[b]) /\ q[b][j + d[b]] \in S[b]
        /\ i \in Nat /\ j \in Nat /\ d[a] \in Nat
    BY <1>1, <1>4
  <2>2. a = b /\ i + d[a] = j + d[b]
    BY <1>4, <2>1 DEF Alone
  <2> QED BY <2>1, <2>2
<1>5. Alone(q, S) => Alone(r, S)
  BY <1>4 DEF Alone
<1> QED BY <1>2, <1>3, <1>5

\* Where nothing is, nothing is alone and of any command.
LEMMA FreeTrip ==
  ASSUME NEW q, NEW S, NEW G, Free(q, S)
  PROVE  Alone(q, S) /\ Carries(q, S, G)
  BY DEF Free, Alone, Carries

\* The one item is taken.
LEMMA TakenFree ==
  ASSUME NEW q, NEW r, NEW S, NEW M, NEW a \in Way, NEW d \in [Way -> Nat],
         q[a] \in Seq(M), q[a] # <<>>, Head(q[a]) \in S[a], d[a] > 0,
         \A b \in Way : Len(r[b]) \in Nat /\ Kept(q[b], r[b], S[b], d[b]),
         Alone(q, S)
  PROVE  Free(r, S)
<1> SUFFICES ASSUME NEW b \in Way, NEW j \in 1..Len(r[b]), r[b][j] \in S[b]
             PROVE  FALSE
  BY DEF Free
<1>1. 1 \in 1..Len(q[a]) /\ q[a][1] \in S[a]
  OBVIOUS
<1>2. j + d[b] \in 1..Len(q[b]) /\ q[b][j + d[b]] = r[b][j] /\ j \in Nat /\ j > 0 /\ d[b] \in Nat
  BY DEF Kept
<1>3. a = b /\ 1 = j + d[b]
  BY <1>1, <1>2 DEF Alone
<1> QED BY <1>2, <1>3

\* One item is added where none was.
LEMMA LoadedTrip ==
  ASSUME NEW q, NEW r, NEW S, NEW G, NEW M, NEW a \in Way, NEW x \in M,
         q[a] \in Seq(M), r[a] = Append(q[a], x), x \in G[a],
         \A b \in Way \ {a} : r[b] = q[b],
         Free(q, S)
  PROVE  Alone(r, S) /\ Carries(r, S, G)
<1>1. /\ Len(q[a]) \in Nat /\ Len(r[a]) = Len(q[a]) + 1 /\ r[a][Len(q[a]) + 1] = x
      /\ \A i \in 1..Len(q[a]) : r[a][i] = q[a][i]
  OBVIOUS
<1>2. ASSUME NEW b \in Way, NEW i \in 1..Len(r[b]), r[b][i] \in S[b]
      PROVE  b = a /\ i = Len(q[a]) + 1
  <2>1. CASE b # a
    BY <1>2, <2>1 DEF Free
  <2>2. CASE b = a
    BY <1>1, <1>2, <2>2 DEF Free
  <2> QED BY <2>1, <2>2
<1>3. Alone(r, S)
  BY <1>2 DEF Alone
<1>4. Carries(r, S, G)
  BY <1>1, <1>2 DEF Carries
<1> QED BY <1>3, <1>4

\* The ways in which a sequence keeps what counts.
LEMMA KeptSame == ASSUME NEW M, NEW fs \in Seq(M), NEW S PROVE Kept(fs, fs, S, 0)
  BY DEF Kept

LEMMA KeptNone == ASSUME NEW fs, NEW S PROVE Kept(fs, <<>>, S, 0)
<1>1. 1..Len(<<>>) = {}
  BY EmptySeq
<1> QED BY <1>1 DEF Kept

LEMMA KeptTail ==
  ASSUME NEW M, NEW fs \in Seq(M), fs # <<>>, NEW S
  PROVE  Kept(fs, Tail(fs), S, 1)
<1>1. /\ Len(fs) \in Nat /\ Len(fs) > 0 /\ Len(Tail(fs)) = Len(fs) - 1
      /\ \A j \in 1..Len(fs) - 1 : Tail(fs)[j] = fs[j + 1]
  OBVIOUS
<1> QED BY <1>1 DEF Kept

LEMMA KeptPrefix ==
  ASSUME NEW M, NEW fs \in Seq(M), NEW n \in 0..Len(fs), NEW S
  PROVE  SubSeq(fs, 1, n) \in Seq(M) /\ Kept(fs, SubSeq(fs, 1, n), S, 0)
<1>1. Len(fs) \in Nat /\ n \in Nat /\ n <= Len(fs)
  OBVIOUS
<1>2. \A i \in 1..n : fs[i] \in M
  BY <1>1, ElementOfSeq
<1> DEFINE gs == SubSeq(fs, 1, n)
<1>3. /\ gs \in Seq(M) /\ Len(gs) = IF 1 <= n THEN n - 1 + 1 ELSE 0
      /\ \A i \in 1..n - 1 + 1 : gs[i] = fs[1 + i - 1]
  BY <1>1, <1>2, SubSeqProperties
<1> HIDE DEF gs
<1>4. Kept(fs, gs, S, 0)
  BY <1>1, <1>3 DEF Kept
<1> QED BY <1>3, <1>4 DEF gs

LEMMA KeptAppend ==
  ASSUME NEW M, NEW fs \in Seq(M), NEW x \in M, NEW S, x \notin S
  PROVE  Kept(fs, Append(fs, x), S, 0)
<1>1. /\ Len(fs) \in Nat /\ Len(Append(fs, x)) = Len(fs) + 1
      /\ Append(fs, x)[Len(fs) + 1] = x
      /\ \A i \in 1..Len(fs) : Append(fs, x)[i] = fs[i]
  OBVIOUS
<1> QED BY <1>1 DEF Kept

\* One item goes from one place to the end of another, or is lost.
LEMMA PassedTrip ==
  ASSUME NEW q, NEW r, NEW S, NEW G, NEW M, NEW a \in Way, NEW b \in Way \ {a}, NEW x \in M,
         \A e \in Way : q[e] \in Seq(M),
         q[a] # <<>>, Head(q[a]) \in S[a], x \in G[b],
         r[a] = Tail(q[a]), r[b] \in {q[b], Append(q[b], x)},
         \A e \in Way \ {a, b} : r[e] = q[e],
         Alone(q, S)
  PROVE  Alone(r, S) /\ Carries(r, S, G)
<1> DEFINE p == [e \in Way |-> IF e = a THEN Tail(q[a]) ELSE q[e]]
           d == [e \in Way |-> IF e = a THEN 1 ELSE 0]
<1>1. d \in [Way -> Nat] /\ d[a] = 1 /\ \A e \in Way \ {a} : d[e] = 0
  OBVIOUS
<1>2. p[a] = Tail(q[a]) /\ \A e \in Way \ {a} : p[e] = q[e]
  OBVIOUS
<1>3. \A e \in Way : p[e] \in Seq(M)
  BY <1>2
<1> HIDE DEF p, d
<1>4. \A e \in Way : Len(p[e]) \in Nat /\ Kept(q[e], p[e], S[e], d[e])
  BY <1>1, <1>2, <1>3, KeptSame, KeptTail
<1>5. Free(p, S)
  <2>1. q[a] \in Seq(M) /\ q[a] # <<>> /\ Head(q[a]) \in S[a] /\ d[a] > 0
    BY <1>1
  <2> QED BY <1>1, <1>4, <2>1, TakenFree
<1>6. CASE r[b] = Append(q[b], x)
  <2>1. /\ p[b] \in Seq(M) /\ r[b] = Append(p[b], x)
        /\ \A e \in Way \ {b} : r[e] = p[e]
    BY <1>2, <1>3, <1>6
  <2> QED BY <1>5, <2>1, LoadedTrip
<1>7. CASE r[b] = q[b]
  <2>1. \A e \in Way : r[e] = p[e]
    BY <1>2, <1>7
  <2>2. Free(r, S)
    BY <1>5, <2>1 DEF Free
  <2> QED BY <2>2, FreeTrip
<1> QED BY <1>6, <1>7
-----------------------------------------------------------------------------
(* The trip of a worker *)

CommandsOf(w) == {c \in Command : SlotOf[c][2] = w}
UpFrame == {CommandFrame(c) : c \in Command} \cup {RegisterFrame(ids) : ids \in SUBSET Worker}
BackFrame == {ResultFrame(c, ok) : c \in Command, ok \in BOOLEAN} \cup {Connected}

PathTypeOK ==
  /\ tabs \in [Controller -> SUBSET Worker]
  /\ up \in [Controller -> Seq(UpFrame)]
  /\ down \in [Worker -> Seq(Command)] /\ \A w \in Worker : down[w] \in Seq(CommandsOf(w))
  /\ tasks \in [Worker -> Seq(Command)] /\ \A w \in Worker : tasks[w] \in Seq(CommandsOf(w))
  /\ restarting \in [Worker -> Command \cup {NoCommand}]
  /\ back \in [Controller -> Seq(BackFrame)]
  /\ outcome \in [Command -> {"none", "success", "failed"}]

On(k, w) == [a \in Way |-> IF a = "up" THEN up[k] ELSE IF a = "back" THEN back[k]
                           ELSE IF a = "down" THEN down[w] ELSE tasks[w]]
For(c) == [a \in Way |-> IF a = "up" THEN {CommandFrame(c)}
                         ELSE IF a = "back" THEN {ResultFrame(c, ok) : ok \in BOOLEAN} ELSE {c}]
Items(w) == [a \in Way |-> UNION {For(c)[a] : c \in CommandsOf(w)}]

\* What counts where.
LEMMA ItemsAre ==
  ASSUME NEW w \in Worker
  PROVE  /\ Items(w)["up"] = {CommandFrame(c) : c \in CommandsOf(w)}
         /\ Items(w)["back"] = {ResultFrame(c, ok) : c \in CommandsOf(w), ok \in BOOLEAN}
         /\ Items(w)["down"] = CommandsOf(w)
         /\ Items(w)["tasks"] = CommandsOf(w)
  BY DEF Items, For, Way

\* An item is of one command, so it counts for one worker.
LEMMA ItemsOfOthers ==
  ASSUME NEW c \in Command, NEW w \in Worker, NEW ok \in BOOLEAN
  PROVE  /\ CommandFrame(c) \in Items(w)["up"] <=> SlotOf[c][2] = w
         /\ ResultFrame(c, ok) \in Items(w)["back"] <=> SlotOf[c][2] = w
         /\ \A ids : RegisterFrame(ids) \notin Items(w)["up"]
         /\ Connected \notin Items(w)["back"]
<1>1. \A d \in Command : CommandFrame(d) = CommandFrame(c) => d = c
  BY DEF CommandFrame
<1>2. \A d \in Command : \A b \in BOOLEAN : ResultFrame(d, b) = ResultFrame(c, ok) => d = c
  BY DEF ResultFrame
<1>3. \A ids : \A d \in Command : RegisterFrame(ids) # CommandFrame(d)
  BY DEF RegisterFrame, CommandFrame
<1>4. \A d \in Command, b \in BOOLEAN : ResultFrame(d, b) # Connected
  BY DEF ResultFrame, Connected
<1>5. CommandsOf(w) \subseteq Command /\ (c \in CommandsOf(w) <=> SlotOf[c][2] = w)
  BY DEF CommandsOf
<1>6. CommandFrame(c) \in Items(w)["up"] <=> SlotOf[c][2] = w
  BY <1>1, <1>5, ItemsAre
<1>7. ResultFrame(c, ok) \in Items(w)["back"] <=> SlotOf[c][2] = w
  BY <1>2, <1>5, ItemsAre
<1>8. \A ids : RegisterFrame(ids) \notin Items(w)["up"]
  BY <1>3, <1>5, ItemsAre
<1>9. Connected \notin Items(w)["back"]
  BY <1>4, <1>5, ItemsAre
<1> QED BY <1>6, <1>7, <1>8, <1>9

\* The places of a trip, before and after a step.
LEMMA Places ==
  ASSUME NEW k \in Controller, NEW w \in Worker
  PROVE  /\ On(k, w)["up"] = up[k] /\ On(k, w)["back"] = back[k]
         /\ On(k, w)["down"] = down[w] /\ On(k, w)["tasks"] = tasks[w]
         /\ On(k, w)'["up"] = up'[k] /\ On(k, w)'["back"] = back'[k]
         /\ On(k, w)'["down"] = down'[w] /\ On(k, w)'["tasks"] = tasks'[w]
  BY DEF On, Way

\* What all places are sequences of.
Item == UpFrame \cup Command \cup BackFrame

LEMMA PlacesType ==
  ASSUME PathTypeOK, NEW k \in Controller, NEW w \in Worker
  PROVE  \A a \in Way : On(k, w)[a] \in Seq(Item) /\ Len(On(k, w)[a]) \in Nat
<1>1. up[k] \in Seq(Item) /\ back[k] \in Seq(Item) /\ down[w] \in Seq(Item) /\ tasks[w] \in Seq(Item)
  <2>1. UpFrame \subseteq Item /\ BackFrame \subseteq Item /\ Command \subseteq Item
    BY DEF Item
  <2>2. ASSUME NEW X, X \subseteq Item, NEW fs \in Seq(X)
        PROVE  fs \in Seq(Item)
    <3>1. fs \in [1..Len(fs) -> X] /\ Len(fs) \in Nat
      OBVIOUS
    <3>2. fs \in [1..Len(fs) -> Item]
      BY <2>2, <3>1
    <3> QED BY <3>1, <3>2, SeqDef
  <2> QED BY <2>1, <2>2 DEF PathTypeOK
<1> QED BY <1>1, Places DEF Way

\* A step that keeps what counts in each of the places; or takes its first item.
LEMMA TripKept ==
  ASSUME PathTypeOK, PathTypeOK', NEW k \in Controller, NEW w \in Worker,
         NEW du \in Nat, NEW dd \in Nat, NEW dt \in Nat, NEW db \in Nat,
         Kept(up[k], up'[k], Items(w)["up"], du),
         Kept(down[w], down'[w], Items(w)["down"], dd),
         Kept(tasks[w], tasks'[w], Items(w)["tasks"], dt),
         Kept(back[k], back'[k], Items(w)["back"], db)
  PROVE  /\ Alone(On(k, w), Items(w)) => Alone(On(k, w)', Items(w))
         /\ \A G : Carries(On(k, w), Items(w), G) => Carries(On(k, w)', Items(w), G)
         /\ Free(On(k, w), Items(w)) => Free(On(k, w)', Items(w))
         /\ db > 0 /\ back[k] # <<>> /\ Head(back[k]) \in Items(w)["back"]
            /\ Alone(On(k, w), Items(w)) => Free(On(k, w)', Items(w))
         /\ du > 0 /\ up[k] # <<>> /\ Head(up[k]) \in Items(w)["up"]
            /\ Alone(On(k, w), Items(w)) => Free(On(k, w)', Items(w))
<1> DEFINE q == On(k, w)
           r == On(k, w)'
           S == Items(w)
           d == [a \in Way |-> IF a = "up" THEN du ELSE IF a = "back" THEN db
                               ELSE IF a = "down" THEN dd ELSE dt]
<1>1. /\ d \in [Way -> Nat]
      /\ d["up"] = du /\ d["down"] = dd /\ d["tasks"] = dt /\ d["back"] = db
  BY DEF Way
<1>2. \A a \in Way : q[a] \in Seq(Item)
  BY PlacesType
<1>3. \A a \in Way : Len(r[a]) \in Nat
  <2>1. Len(up'[k]) \in Nat /\ Len(down'[w]) \in Nat /\ Len(tasks'[w]) \in Nat /\ Len(back'[k]) \in Nat
    BY DEF PathTypeOK
  <2> QED BY <2>1, Places DEF Way
<1>4. /\ q["up"] = up[k] /\ q["back"] = back[k] /\ q["down"] = down[w] /\ q["tasks"] = tasks[w]
      /\ r["up"] = up'[k] /\ r["back"] = back'[k] /\ r["down"] = down'[w] /\ r["tasks"] = tasks'[w]
  BY Places
<1> HIDE DEF q, r, S, d
<1>5. \A a \in Way : Kept(q[a], r[a], S[a], d[a])
  BY <1>1, <1>4 DEF Way, S
<1>6. /\ Alone(q, S) => Alone(r, S)
      /\ \A G : Carries(q, S, G) => Carries(r, S, G)
      /\ Free(q, S) => Free(r, S)
  BY <1>1, <1>3, <1>5, KeptTrip
<1>7. ASSUME NEW a \in Way, d[a] > 0, q[a] # <<>>, Head(q[a]) \in S[a], Alone(q, S)
      PROVE  Free(r, S)
  BY <1>1, <1>2, <1>3, <1>5, <1>7, TakenFree
<1>8. db > 0 /\ back[k] # <<>> /\ Head(back[k]) \in S["back"] /\ Alone(q, S) => Free(r, S)
  BY <1>1, <1>4, <1>7 DEF Way
<1>9. du > 0 /\ up[k] # <<>> /\ Head(up[k]) \in S["up"] /\ Alone(q, S) => Free(r, S)
  BY <1>1, <1>4, <1>7 DEF Way
<1> QED BY <1>6, <1>8, <1>9 DEF q, r, S

\* A new item, where none was.
LEMMA TripLoaded ==
  ASSUME PathTypeOK, NEW k \in Controller, NEW w \in Worker, NEW c \in Command,
         up'[k] = Append(up[k], CommandFrame(c)),
         down'[w] = down[w], tasks'[w] = tasks[w], back'[k] = back[k],
         Free(On(k, w), Items(w))
  PROVE  Alone(On(k, w)', Items(w)) /\ Carries(On(k, w)', Items(w), For(c))
<1> DEFINE q == On(k, w)
           r == On(k, w)'
<1>1. q["up"] \in Seq(Item) /\ CommandFrame(c) \in Item
  BY PlacesType DEF Way, Item, UpFrame
<1>2. r["up"] = Append(q["up"], CommandFrame(c)) /\ \A a \in Way \ {"up"} : r[a] = q[a]
  BY Places DEF Way
<1>3. CommandFrame(c) \in For(c)["up"] /\ "up" \in Way
  BY DEF For, Way
<1> HIDE DEF q, r
<1>4. Free(q, Items(w))
  BY DEF q
<1>5. Alone(r, Items(w)) /\ Carries(r, Items(w), For(c))
  BY <1>1, <1>2, <1>3, <1>4, LoadedTrip
<1> QED BY <1>5 DEF r

\* With nothing in flight nothing is under way.
LEMMA IdleFree ==
  ASSUME NEW k \in Controller, NEW w \in Worker, NEW q,
         Carries(q, Items(w), For(NoCommand))
  PROVE  Free(q, Items(w))
<1> SUFFICES ASSUME NEW a \in Way, NEW i \in 1..Len(q[a]), q[a][i] \in Items(w)[a]
             PROVE  FALSE
  BY DEF Free
<1>1. q[a][i] \in For(NoCommand)[a]
  BY DEF Carries
<1>2. PICK c \in CommandsOf(w) : q[a][i] \in For(c)[a]
  BY DEF Items
<1>3. c # NoCommand
  BY CommandQueueAssumption DEF CommandsOf
<1>4. CASE a = "up"
  BY <1>1, <1>2, <1>3, <1>4 DEF For, Way, CommandFrame
<1>5. CASE a = "back"
  BY <1>1, <1>2, <1>3, <1>5 DEF For, Way, ResultFrame
<1>6. CASE a \in {"down", "tasks"}
  BY <1>1, <1>2, <1>3, <1>6 DEF For, Way
<1> QED BY <1>4, <1>5, <1>6 DEF Way
-----------------------------------------------------------------------------
(* The queue on the path *)

\* No dispatch on the path is refused: _process_next sends the first command.
LEMMA NextSent ==
  ASSUME NEW s \in Slot, NEW q \in Seq(Command), NEW h, NEW st, ProcessNext(s, q, h, st)
  PROVE  /\ inFlight' = [inFlight EXCEPT ![s] = IF q = <<>> THEN NoCommand ELSE q[1]]
         /\ state' = [c \in Command |-> IF q # <<>> /\ q[1] = c THEN "in_flight" ELSE st[c]]
<1>1. Refused(q) = 0
  <2>1. Refused(q) \in 0..Len(q) /\ Len(q) \in Nat /\ \A i \in 1..Refused(q) : q[i] \in Unsendable
    BY RunOfRefusalsEnds
  <2>2. Unsendable = {}
    BY CommandPathAssumption
  <2>3. 1 \notin 1..Refused(q)
    BY <2>1, <2>2
  <2> QED BY <2>1, <2>3
<1>2. 0 < Len(q) <=> q # <<>>
  OBVIOUS
<1>3. inFlight' = [inFlight EXCEPT ![s] = IF q = <<>> THEN NoCommand ELSE q[1]]
  <2> DEFINE n == Refused(q)
             first == IF n < Len(q) THEN q[n + 1] ELSE NoCommand
  <2>1. first = IF q = <<>> THEN NoCommand ELSE q[1]
    BY <1>1, <1>2
  <2>2. inFlight' = [inFlight EXCEPT ![s] = first]
    BY DEF ProcessNext
  <2> QED BY <2>1, <2>2
<1>4. \A i : i \notin 1..0
  OBVIOUS
<1>5. state' = [c \in Command |-> IF q # <<>> /\ q[1] = c THEN "in_flight" ELSE st[c]]
  BY <1>1, <1>2, <1>4 DEF ProcessNext
<1> QED BY <1>3, <1>5

\* What is in flight for a slot was given to it, and says so.
LEMMA InFlightIsMine ==
  ASSUME QueueInv, NEW s \in Slot, inFlight[s] # NoCommand
  PROVE  inFlight[s] \in Command /\ SlotOf[inFlight[s]] = s /\ state[inFlight[s]] = "in_flight"
<1>1. inFlight[s] \in Command /\ queue[s] \in Seq(Command)
  BY DEF QueueInv, QueueTypeOK
<1>2. Backlog[s] = <<inFlight[s]>> \o queue[s]
  BY DEF Backlog, Pending
<1>3. 1 \in 1..Len(Backlog[s]) /\ Backlog[s][1] = inFlight[s]
  BY <1>1, <1>2
<1> QED BY <1>1, <1>3 DEF QueueInv, Placed, Mine

\* The first of the queue was given to its slot, too, and waits.
LEMMA FirstIsMine ==
  ASSUME QueueInv, NEW s \in Slot, queue[s] # <<>>
  PROVE  /\ queue[s][1] \in Command /\ SlotOf[queue[s][1]] = s
         /\ state[queue[s][1]] = "queued" /\ inFlight[s] # NoCommand
<1>1. inFlight[s] \in Command \cup {NoCommand} /\ queue[s] \in Seq(Command) /\ inFlight[s] # NoCommand
  BY DEF QueueInv, QueueTypeOK, NoIdleBacklog
<1>2. Backlog[s] = <<inFlight[s]>> \o queue[s]
  BY <1>1 DEF Backlog, Pending
<1>3. 2 \in 1..Len(Backlog[s]) /\ Backlog[s][2] = queue[s][1] /\ queue[s][1] \in Command
  BY <1>1, <1>2
<1> QED BY <1>1, <1>3 DEF QueueInv, Placed, Mine

\* send_message appends a frame, or nothing.
LEMMA Sending ==
  ASSUME PathTypeOK, NEW k \in Controller, NEW frame \in UpFrame, Send(k, frame)
  PROVE  /\ up' \in [Controller -> Seq(UpFrame)]
         /\ up'[k] \in {up[k], Append(up[k], frame)}
         /\ k \notin linked => up'[k] = up[k]
  BY DEF Send, PathTypeOK

\* A result is appended to what a controller has not seen, or lost.
LEMMA Reporting ==
  ASSUME PathTypeOK, NEW w \in Worker, NEW c \in Command, NEW ok \in BOOLEAN, Report(w, c, ok)
  PROVE  /\ outcome' \in [Command -> {"none", "success", "failed"}]
         /\ back' \in [Controller -> Seq(BackFrame)]
         /\ outcome' = [outcome EXCEPT ![c] = IF ok THEN "success" ELSE "failed"]
         /\ \A k \in Controller : back'[k] \in {back[k], Append(back[k], ResultFrame(c, ok))}
<1>1. ResultFrame(c, ok) \in BackFrame
  BY DEF BackFrame
<1>2. outcome' = [outcome EXCEPT ![c] = IF ok THEN "success" ELSE "failed"]
  BY DEF Report
<1>3. \A k \in Controller : /\ back'[k] \in {back[k], Append(back[k], ResultFrame(c, ok))}
                            /\ back[k] \in Seq(BackFrame)
  BY DEF Report, PathTypeOK
<1>4. \A k \in Controller : back'[k] \in Seq(BackFrame)
  BY <1>1, <1>3
<1>5. back' \in [Controller -> Seq(BackFrame)]
  BY <1>4 DEF Report
<1>6. outcome' \in [Command -> {"none", "success", "failed"}]
  BY <1>2 DEF PathTypeOK
<1> QED BY <1>2, <1>3, <1>5, <1>6

\* A result in hand is of a command, and for a slot.
LEMMA ResultInHand ==
  ASSUME PathTypeOK, NEW k \in Controller, back[k] # <<>>
  PROVE  \/ Head(back[k]) = Connected /\ Head(back[k]).type = "connected"
         \/ \E c \in Command, ok \in BOOLEAN :
              /\ Head(back[k]) = ResultFrame(c, ok) /\ Head(back[k]).type = "result"
              /\ Head(back[k]).command = c /\ Head(back[k]).ok = ok
              /\ SlotOf[c][2] \in Worker /\ <<k, SlotOf[c][2]>> \in Slot
<1>1. Head(back[k]) \in BackFrame
  BY DEF PathTypeOK
<1>2. CASE Head(back[k]) = Connected
  BY <1>2 DEF Connected
<1>3. ASSUME NEW c \in Command, NEW ok \in BOOLEAN, Head(back[k]) = ResultFrame(c, ok)
      PROVE  /\ Head(back[k]).type = "result"
             /\ Head(back[k]).command = c /\ Head(back[k]).ok = ok
             /\ SlotOf[c][2] \in Worker /\ <<k, SlotOf[c][2]>> \in Slot
  BY <1>3, CommandQueueAssumption DEF ResultFrame, Slot
<1>4. CASE \E c \in Command, ok \in BOOLEAN : Head(back[k]) = ResultFrame(c, ok)
  <2>1. PICK c \in Command, ok \in BOOLEAN : Head(back[k]) = ResultFrame(c, ok)
    BY <1>4
  <2>2. /\ Head(back[k]) = ResultFrame(c, ok) /\ Head(back[k]).type = "result"
        /\ Head(back[k]).command = c /\ Head(back[k]).ok = ok
        /\ SlotOf[c][2] \in Worker /\ <<k, SlotOf[c][2]>> \in Slot
    BY <1>3, <2>1
  <2> QED BY <2>2
<1> QED BY <1>1, <1>2, <1>4 DEF BackFrame

\* What the path asks of the queues is what they are made for.
LEMMA PathIsQueue ==
  ASSUME PathTypeOK, [PathNext]_vars
  PROVE  [QueueNext]_queueVars
<1>1. ASSUME NEW c \in Command, Submit(c) PROVE QueueNext
  BY <1>1 DEF Submit, QueueNext
<1>2. ASSUME NEW k \in Controller, ControllerTake(k) PROVE [QueueNext]_queueVars
  <2>1. CASE Head(back[k]).type = "connected"
    BY <1>2, <2>1 DEF ControllerTake
  <2>2. ASSUME NEW c \in Command, NEW ok \in BOOLEAN,
               Head(back[k]).type = "result", Head(back[k]).command = c, Head(back[k]).ok = ok,
               <<k, SlotOf[c][2]>> \in Slot
        PROVE  QueueNext
    BY <1>2, <2>2 DEF ControllerTake, QueueNext
  <2> QED BY <1>2, <2>1, <2>2, ResultInHand DEF ControllerTake
<1>3. ASSUME NEW k \in Controller, ServerTake(k) \/ DropController(k) \/ RelinkController(k)
      PROVE  UNCHANGED queueVars
  BY <1>3 DEF ServerTake, DropController, RelinkController
<1>4. ASSUME NEW k \in Controller, NEW w \in Worker, OpenTab(k, w) \/ CloseTab(k, w)
      PROVE  UNCHANGED queueVars
  BY <1>4 DEF OpenTab, CloseTab, ChangeTabs
<1>5. ASSUME NEW w \in Worker, WorkerTake(w) \/ WorkerRestarted(w) \/ DropWorker(w) \/ RelinkWorker(w)
                               \/ EndWorker(w)
      PROVE  UNCHANGED queueVars
  BY <1>5 DEF WorkerTake, WorkerRestarted, DropWorker, RelinkWorker, EndWorker
<1>6. ASSUME NEW w \in Worker, NEW ok \in BOOLEAN, WorkerRun(w, ok)
      PROVE  UNCHANGED queueVars
  BY <1>6 DEF WorkerRun
<1>7. CASE UNCHANGED vars
  BY <1>7 DEF vars
<1> QED BY <1>1, <1>2, <1>3, <1>4, <1>5, <1>6, <1>7 DEF PathNext
-----------------------------------------------------------------------------
(* What a step may find, and the types it leaves *)

LEMMA FrameInHand ==
  ASSUME PathTypeOK, NEW k \in Controller, up[k] # <<>>
  PROVE  \/ Head(up[k]).type = "register" /\ \E ids : Head(up[k]) = RegisterFrame(ids)
         \/ \E c \in Command :
              /\ Head(up[k]) = CommandFrame(c) /\ Head(up[k]).type = "command"
              /\ Head(up[k]).command = c
              /\ SlotOf[c][2] \in Worker
<1>1. Head(up[k]) \in UpFrame
  BY DEF PathTypeOK
<1>2. CASE \E ids \in SUBSET Worker : Head(up[k]) = RegisterFrame(ids)
  <2>1. PICK ids \in SUBSET Worker : Head(up[k]) = RegisterFrame(ids)
    BY <1>2
  <2>2. Head(up[k]).type = "register"
    BY <2>1 DEF RegisterFrame
  <2> QED BY <2>1, <2>2
<1>3. CASE \E c \in Command : Head(up[k]) = CommandFrame(c)
  <2>1. PICK c \in Command : Head(up[k]) = CommandFrame(c)
    BY <1>3
  <2>2. /\ Head(up[k]) = CommandFrame(c) /\ Head(up[k]).type = "command"
        /\ Head(up[k]).command = c /\ SlotOf[c][2] \in Worker
    BY <2>1, CommandQueueAssumption DEF CommandFrame, Slot
  <2> QED BY <2>2
<1>4. \/ \E ids \in SUBSET Worker : Head(up[k]) = RegisterFrame(ids)
      \/ \E c \in Command : Head(up[k]) = CommandFrame(c)
  BY <1>1 DEF UpFrame
<1> QED BY <1>2, <1>3, <1>4

\* The worker's frames and tasks are of commands for it.
LEMMA WorkInHand ==
  ASSUME PathTypeOK, NEW w \in Worker
  PROVE  /\ down[w] # <<>> => /\ Head(down[w]) \in CommandsOf(w) /\ Head(down[w]) \in Command
                              /\ Tail(down[w]) \in Seq(Command) /\ Tail(down[w]) \in Seq(CommandsOf(w))
         /\ tasks[w] # <<>> => /\ Head(tasks[w]) \in CommandsOf(w) /\ Head(tasks[w]) \in Command
                               /\ Tail(tasks[w]) \in Seq(Command) /\ Tail(tasks[w]) \in Seq(CommandsOf(w))
<1>1. /\ down[w] \in Seq(CommandsOf(w)) /\ tasks[w] \in Seq(CommandsOf(w))
      /\ down[w] \in Seq(Command) /\ tasks[w] \in Seq(Command)
  BY DEF PathTypeOK
<1> QED BY <1>1

\* _process_next sends the command it has put in flight.
LEMMA Dispatching ==
  ASSUME PathTypeOK, QueueTypeOK', NEW s \in Slot, SendDispatched(s)
  PROVE  /\ up' \in [Controller -> Seq(UpFrame)]
         /\ \/ up' = up
            \/ /\ inFlight'[s] \in Command /\ inFlight'[s] # inFlight[s]
               /\ up'[s[1]] \in {up[s[1]], Append(up[s[1]], CommandFrame(inFlight'[s]))}
<1>1. CASE inFlight'[s] \in {NoCommand, inFlight[s]}
  BY <1>1 DEF SendDispatched, PathTypeOK
<1>2. CASE inFlight'[s] \notin {NoCommand, inFlight[s]}
  <2>1. inFlight'[s] \in Command /\ s[1] \in Controller
    BY <1>2 DEF QueueTypeOK, Slot
  <2>2. CommandFrame(inFlight'[s]) \in UpFrame /\ Send(s[1], CommandFrame(inFlight'[s]))
    BY <1>2, <2>1 DEF UpFrame, SendDispatched
  <2> QED BY <1>2, <2>1, <2>2, Sending
<1> QED BY <1>1, <1>2

LEMMA PathTypeStep ==
  ASSUME PathTypeOK, QueueTypeOK', [PathNext]_vars
  PROVE  PathTypeOK'
<1>1. ASSUME NEW c \in Command, Submit(c) PROVE PathTypeOK'
  <2>1. SlotOf[c] \in Slot
    BY CommandQueueAssumption
  <2>2. up' \in [Controller -> Seq(UpFrame)]
    BY <1>1, <2>1, Dispatching DEF Submit
  <2> QED BY <1>1, <2>2 DEF Submit, PathTypeOK
<1>2. ASSUME NEW k \in Controller, ControllerTake(k) PROVE PathTypeOK'
  <2>1. back' \in [Controller -> Seq(BackFrame)]
    BY <1>2 DEF ControllerTake, PathTypeOK
  <2>2. up' \in [Controller -> Seq(UpFrame)]
    <3>1. CASE Head(back[k]).type = "connected"
      <4>1. RegisterFrame(tabs[k]) \in UpFrame /\ Send(k, RegisterFrame(tabs[k]))
        BY <1>2, <3>1 DEF ControllerTake, UpFrame, PathTypeOK
      <4> QED BY <4>1, Sending
    <3>2. ASSUME NEW c \in Command, Head(back[k]).type = "result", Head(back[k]).command = c,
                 <<k, SlotOf[c][2]>> \in Slot
          PROVE  up' \in [Controller -> Seq(UpFrame)]
      <4>1. SendDispatched(<<k, SlotOf[c][2]>>)
        BY <1>2, <3>2 DEF ControllerTake
      <4> QED BY <3>2, <4>1, Dispatching
    <3>3. back[k] # <<>>
      BY <1>2 DEF ControllerTake
    <3> QED BY <3>1, <3>2, <3>3, ResultInHand
  <2> QED BY <1>2, <2>1, <2>2 DEF ControllerTake, PathTypeOK
<1>3. ASSUME NEW k \in Controller, ServerTake(k) PROVE PathTypeOK'
  <2>1. up' \in [Controller -> Seq(UpFrame)] /\ up[k] # <<>>
    <3>1. up[k] # <<>> /\ up' = [up EXCEPT ![k] = Tail(up[k])]
      BY <1>3 DEF ServerTake
    <3>2. up \in [Controller -> Seq(UpFrame)] /\ Tail(up[k]) \in Seq(UpFrame)
      BY <3>1 DEF PathTypeOK
    <3> QED BY <3>1, <3>2
  <2>2. down' \in [Worker -> Seq(Command)] /\ \A w \in Worker : down'[w] \in Seq(CommandsOf(w))
    <3>1. CASE Head(up[k]).type = "register"
      BY <1>3, <3>1 DEF ServerTake, PathTypeOK
    <3>2. ASSUME NEW c \in Command, Head(up[k]).type = "command", Head(up[k]).command = c,
                 SlotOf[c][2] \in Worker
          PROVE  down' \in [Worker -> Seq(Command)]
                 /\ \A w \in Worker : down'[w] \in Seq(CommandsOf(w))
      <4> DEFINE w == SlotOf[c][2]
      <4>1. down' \in {down, [down EXCEPT ![w] = Append(down[w], c)]}
        BY <1>3, <3>2 DEF ServerTake
      <4>2. c \in CommandsOf(w)
        BY DEF CommandsOf
      <4>3. down[w] \in Seq(CommandsOf(w)) /\ down[w] \in Seq(Command) /\ w \in Worker
        BY <3>2 DEF PathTypeOK
      <4>4. Append(down[w], c) \in Seq(CommandsOf(w)) /\ Append(down[w], c) \in Seq(Command)
        BY <4>2, <4>3
      <4> QED BY <4>1, <4>3, <4>4 DEF PathTypeOK
    <3> QED BY <2>1, <3>1, <3>2, FrameInHand
  <2> QED BY <1>3, <2>1, <2>2 DEF ServerTake, PathTypeOK
<1>4. ASSUME NEW k \in Controller, DropController(k) PROVE PathTypeOK'
  <2>1. PICK n \in 0..Len(back[k]) : back' = [back EXCEPT ![k] = SubSeq(back[k], 1, n)]
    BY <1>4 DEF DropController
  <2>2. back[k] \in Seq(BackFrame)
    BY DEF PathTypeOK
  <2>3. SubSeq(back[k], 1, n) \in Seq(BackFrame)
    BY <2>2, KeptPrefix
  <2>4. back' \in [Controller -> Seq(BackFrame)]
    BY <2>1, <2>3 DEF PathTypeOK
  <2>5. <<>> \in Seq(UpFrame)
    BY EmptySeq
  <2>6. up' \in [Controller -> Seq(UpFrame)]
    BY <1>4, <2>5 DEF DropController, PathTypeOK
  <2> QED BY <1>4, <2>4, <2>6 DEF DropController, PathTypeOK
<1>5. ASSUME NEW k \in Controller, RelinkController(k) PROVE PathTypeOK'
  <2>1. back[k] \in Seq(BackFrame)
    BY DEF PathTypeOK
  <2>2. Connected \in BackFrame
    BY DEF BackFrame
  <2>3. back' \in [Controller -> Seq(BackFrame)]
    BY <1>5, <2>1, <2>2 DEF RelinkController, PathTypeOK
  <2> QED BY <1>5, <2>3 DEF RelinkController, PathTypeOK
<1>6. ASSUME NEW k \in Controller, NEW ids \in SUBSET Worker, ChangeTabs(k, ids) PROVE PathTypeOK'
  <2>1. RegisterFrame(ids) \in UpFrame
    BY DEF UpFrame
  <2>2. up' \in [Controller -> Seq(UpFrame)]
    BY <1>6, <2>1, Sending DEF ChangeTabs
  <2>3. tabs' \in [Controller -> SUBSET Worker]
    BY <1>6 DEF ChangeTabs, PathTypeOK
  <2> QED BY <1>6, <2>2, <2>3 DEF ChangeTabs, PathTypeOK
<1>7. ASSUME NEW k \in Controller, NEW w \in Worker, OpenTab(k, w) \/ CloseTab(k, w) PROVE PathTypeOK'
  <2>1. tabs[k] \cup {w} \in SUBSET Worker /\ tabs[k] \ {w} \in SUBSET Worker
    BY DEF PathTypeOK
  <2> QED BY <1>6, <1>7, <2>1 DEF OpenTab, CloseTab
<1>8. ASSUME NEW w \in Worker, WorkerTake(w) PROVE PathTypeOK'
  <2> DEFINE c == Head(down[w])
  <2>1. /\ down[w] # <<>> /\ c \in CommandsOf(w) /\ c \in Command
        /\ Tail(down[w]) \in Seq(Command) /\ Tail(down[w]) \in Seq(CommandsOf(w))
    BY <1>8, WorkInHand DEF WorkerTake
  <2>2. down' = [down EXCEPT ![w] = Tail(down[w])]
    BY <1>8 DEF WorkerTake
  <2>3. down' \in [Worker -> Seq(Command)] /\ \A v \in Worker : down'[v] \in Seq(CommandsOf(v))
    BY <2>1, <2>2 DEF PathTypeOK
  <2>4. CASE c \in Restarts
    <3>1. Report(w, c, TRUE) /\ restarting' = [restarting EXCEPT ![w] = c] /\ tasks' = tasks
      BY <1>8, <2>4 DEF WorkerTake
    <3>2. outcome' \in [Command -> {"none", "success", "failed"}] /\ back' \in [Controller -> Seq(BackFrame)]
      BY <2>1, <3>1, Reporting
    <3>3. restarting' \in [Worker -> Command \cup {NoCommand}]
      BY <2>1, <3>1 DEF PathTypeOK
    <3> QED BY <1>8, <2>3, <3>1, <3>2, <3>3 DEF WorkerTake, PathTypeOK
  <2>5. CASE c \notin Restarts
    <3>1. tasks' = [tasks EXCEPT ![w] = Append(tasks[w], c)] /\ UNCHANGED <<restarting, back, outcome>>
      BY <1>8, <2>5 DEF WorkerTake
    <3>2. tasks[w] \in Seq(Command) /\ tasks[w] \in Seq(CommandsOf(w))
      BY DEF PathTypeOK
    <3>3. Append(tasks[w], c) \in Seq(Command) /\ Append(tasks[w], c) \in Seq(CommandsOf(w))
      BY <2>1, <3>2
    <3>4. tasks' \in [Worker -> Seq(Command)] /\ \A v \in Worker : tasks'[v] \in Seq(CommandsOf(v))
      BY <3>1, <3>3 DEF PathTypeOK
    <3> QED BY <1>8, <2>3, <3>1, <3>4 DEF WorkerTake, PathTypeOK
  <2> QED BY <2>4, <2>5
<1>9. ASSUME NEW w \in Worker, NEW ok \in BOOLEAN, WorkerRun(w, ok) PROVE PathTypeOK'
  <2> DEFINE c == Head(tasks[w])
  <2>1. /\ c \in Command
        /\ Tail(tasks[w]) \in Seq(Command) /\ Tail(tasks[w]) \in Seq(CommandsOf(w))
    BY <1>9, WorkInHand DEF WorkerRun
  <2>2. tasks' \in [Worker -> Seq(Command)] /\ \A v \in Worker : tasks'[v] \in Seq(CommandsOf(v))
    BY <1>9, <2>1 DEF WorkerRun, PathTypeOK
  <2>3. outcome' \in [Command -> {"none", "success", "failed"}] /\ back' \in [Controller -> Seq(BackFrame)]
    BY <1>9, <2>1, Reporting DEF WorkerRun
  <2> QED BY <1>9, <2>2, <2>3 DEF WorkerRun, PathTypeOK
<1>10. ASSUME NEW w \in Worker, WorkerRestarted(w) \/ RelinkWorker(w) PROVE PathTypeOK'
  BY <1>10 DEF WorkerRestarted, RelinkWorker, PathTypeOK
<1>11. ASSUME NEW w \in Worker, DropWorker(w) PROVE PathTypeOK'
  <2>1. PICK n \in 0..Len(down[w]) : down' = [down EXCEPT ![w] = SubSeq(down[w], 1, n)]
    BY <1>11 DEF DropWorker
  <2>2. down[w] \in Seq(Command) /\ down[w] \in Seq(CommandsOf(w))
    BY DEF PathTypeOK
  <2>3. SubSeq(down[w], 1, n) \in Seq(Command) /\ SubSeq(down[w], 1, n) \in Seq(CommandsOf(w))
    BY <2>2, KeptPrefix
  <2>4. down' \in [Worker -> Seq(Command)] /\ \A v \in Worker : down'[v] \in Seq(CommandsOf(v))
    BY <2>1, <2>3 DEF PathTypeOK
  <2> QED BY <1>11, <2>4 DEF DropWorker, PathTypeOK
<1>12. ASSUME NEW w \in Worker, EndWorker(w) PROVE PathTypeOK'
  <2>1. <<>> \in Seq(Command) /\ <<>> \in Seq(CommandsOf(w))
    BY EmptySeq
  <2> QED BY <1>12, <2>1 DEF EndWorker, PathTypeOK
<1>13. CASE UNCHANGED vars
  BY <1>13 DEF vars, pathVars, PathTypeOK
<1> QED BY <1>1, <1>2, <1>3, <1>4, <1>5, <1>7, <1>8, <1>9, <1>10, <1>11, <1>12, <1>13 DEF PathNext
-----------------------------------------------------------------------------
(* The one item, step by step *)

Trip(k, w) ==
  /\ Alone(On(k, w), Items(w))
  /\ Carries(On(k, w), Items(w), For(inFlight[<<k, w>>]))

\* Nothing that counts is new, and in flight is what was.
LEMMA TripSame ==
  ASSUME PathTypeOK, PathTypeOK', NEW k \in Controller, NEW w \in Worker, Trip(k, w),
         inFlight'[<<k, w>>] = inFlight[<<k, w>>],
         \E d \in Nat : Kept(up[k], up'[k], Items(w)["up"], d),
         \E d \in Nat : Kept(down[w], down'[w], Items(w)["down"], d),
         \E d \in Nat : Kept(tasks[w], tasks'[w], Items(w)["tasks"], d),
         \E d \in Nat : Kept(back[k], back'[k], Items(w)["back"], d)
  PROVE  Trip(k, w)'
<1>1. /\ Alone(On(k, w), Items(w)) => Alone(On(k, w)', Items(w))
      /\ \A G : Carries(On(k, w), Items(w), G) => Carries(On(k, w)', Items(w), G)
  BY TripKept
<1>2. Alone(On(k, w)', Items(w))
  BY <1>1 DEF Trip
<1>3. Carries(On(k, w)', Items(w), For(inFlight'[<<k, w>>]))
  BY <1>1 DEF Trip
<1> QED BY <1>2, <1>3 DEF Trip

\* Nothing was on its way, and nothing is.
LEMMA TripFree ==
  ASSUME NEW k \in Controller, NEW w \in Worker, Free(On(k, w)', Items(w))
  PROVE  Trip(k, w)'
<1>1. Alone(On(k, w)', Items(w)) /\ Carries(On(k, w)', Items(w), For(inFlight'[<<k, w>>]))
  BY FreeTrip
<1> QED BY <1>1 DEF Trip

\* The item goes from a to b, or is lost.
LEMMA TripPassed ==
  ASSUME PathTypeOK, NEW k \in Controller, NEW w \in Worker, Trip(k, w),
         NEW a \in Way, NEW b \in Way \ {a}, NEW x \in Item,
         On(k, w)[a] # <<>>, Head(On(k, w)[a]) \in Items(w)[a],
         x \in For(inFlight'[<<k, w>>])[b],
         On(k, w)'[a] = Tail(On(k, w)[a]),
         On(k, w)'[b] \in {On(k, w)[b], Append(On(k, w)[b], x)},
         \A e \in Way \ {a, b} : On(k, w)'[e] = On(k, w)[e]
  PROVE  Trip(k, w)'
<1> DEFINE q == On(k, w)
           r == On(k, w)'
           G == For(inFlight'[<<k, w>>])
<1>1. \A e \in Way : q[e] \in Seq(Item)
  BY PlacesType
<1>2. Alone(q, Items(w))
  BY DEF Trip
<1>3. /\ q[a] # <<>> /\ Head(q[a]) \in Items(w)[a] /\ x \in G[b]
      /\ r[a] = Tail(q[a]) /\ r[b] \in {q[b], Append(q[b], x)}
      /\ \A e \in Way \ {a, b} : r[e] = q[e]
  OBVIOUS
<1> HIDE DEF q, r, G
<1>4. Alone(r, Items(w)) /\ Carries(r, Items(w), G)
  BY <1>1, <1>2, <1>3, PassedTrip
<1>5. Alone(On(k, w)', Items(w)) /\ Carries(On(k, w)', Items(w), For(inFlight'[<<k, w>>]))
  BY <1>4 DEF r, G
<1> QED BY <1>5 DEF Trip

\* What is first in a place and counts is of the command in flight.
LEMMA FirstIsInFlight ==
  ASSUME PathTypeOK, NEW k \in Controller, NEW w \in Worker, Trip(k, w), NEW c \in CommandsOf(w)
  PROVE  /\ up[k] # <<>> /\ Head(up[k]) = CommandFrame(c) => c = inFlight[<<k, w>>]
         /\ down[w] # <<>> /\ Head(down[w]) = c => c = inFlight[<<k, w>>]
         /\ tasks[w] # <<>> /\ Head(tasks[w]) = c => c = inFlight[<<k, w>>]
         /\ \A ok \in BOOLEAN : back[k] # <<>> /\ Head(back[k]) = ResultFrame(c, ok)
                                => c = inFlight[<<k, w>>]
<1> DEFINE q == On(k, w)
           f == inFlight[<<k, w>>]
<1>1. ASSUME NEW a \in Way, q[a] # <<>>, Head(q[a]) \in Items(w)[a]
      PROVE  Head(q[a]) \in For(f)[a]
  <2>1. q[a] \in Seq(Item)
    BY PlacesType
  <2>2. 1 \in 1..Len(q[a]) /\ q[a][1] = Head(q[a])
    BY <1>1, <2>1
  <2>3. Carries(q, Items(w), For(f))
    BY DEF Trip
  <2> HIDE DEF q, f
  <2> QED BY <1>1, <2>2, <2>3 DEF Carries
<1>2. /\ q["up"] = up[k] /\ q["back"] = back[k] /\ q["down"] = down[w] /\ q["tasks"] = tasks[w]
  BY Places
<1>3. /\ CommandFrame(c) \in Items(w)["up"] /\ c \in Items(w)["down"] /\ c \in Items(w)["tasks"]
      /\ \A ok \in BOOLEAN : ResultFrame(c, ok) \in Items(w)["back"]
  BY ItemsAre
<1>4. /\ For(f)["up"] = {CommandFrame(f)} /\ For(f)["down"] = {f} /\ For(f)["tasks"] = {f}
      /\ For(f)["back"] = {ResultFrame(f, ok) : ok \in BOOLEAN}
  BY DEF For, Way
<1> HIDE DEF q, f
<1>5. up[k] # <<>> /\ Head(up[k]) = CommandFrame(c) => c = f
  <2>1. CommandFrame(c) = CommandFrame(f) => c = f
    BY DEF CommandFrame
  <2> QED BY <1>1, <1>2, <1>3, <1>4, <2>1 DEF Way
<1>6. down[w] # <<>> /\ Head(down[w]) = c => c = f
  BY <1>1, <1>2, <1>3, <1>4 DEF Way
<1>7. tasks[w] # <<>> /\ Head(tasks[w]) = c => c = f
  BY <1>1, <1>2, <1>3, <1>4 DEF Way
<1>8. ASSUME NEW ok \in BOOLEAN, back[k] # <<>>, Head(back[k]) = ResultFrame(c, ok)
      PROVE  c = f
  <2>1. \A b \in BOOLEAN : ResultFrame(c, ok) = ResultFrame(f, b) => c = f
    BY DEF ResultFrame
  <2> QED BY <1>1, <1>2, <1>3, <1>4, <1>8, <2>1 DEF Way
<1> QED BY <1>5, <1>6, <1>7, <1>8 DEF f

\* What a sequence of a typed place keeps, whatever it is.
LEMMA KeptPlace ==
  ASSUME NEW M, NEW fs \in Seq(M), NEW S
  PROVE  /\ \E d \in Nat : Kept(fs, fs, S, d)
         /\ \E d \in Nat : Kept(fs, <<>>, S, d)
         /\ fs # <<>> => \E d \in Nat : Kept(fs, Tail(fs), S, d)
         /\ \A n \in 0..Len(fs) : \E d \in Nat : Kept(fs, SubSeq(fs, 1, n), S, d)
         /\ \A x \in M : x \notin S => \E d \in Nat : Kept(fs, Append(fs, x), S, d)
<1>1. 0 \in Nat /\ 1 \in Nat
  OBVIOUS
<1>2. \E d \in Nat : Kept(fs, fs, S, d)
  BY <1>1, KeptSame
<1>3. \E d \in Nat : Kept(fs, <<>>, S, d)
  BY <1>1, KeptNone
<1>4. fs # <<>> => \E d \in Nat : Kept(fs, Tail(fs), S, d)
  BY <1>1, KeptTail
<1>5. \A n \in 0..Len(fs) : \E d \in Nat : Kept(fs, SubSeq(fs, 1, n), S, d)
  BY <1>1, KeptPrefix
<1>6. \A x \in M : x \notin S => \E d \in Nat : Kept(fs, Append(fs, x), S, d)
  BY <1>1, KeptAppend
<1> QED BY <1>2, <1>3, <1>4, <1>5, <1>6

\* The places of one trip, for the steps that follow.
LEMMA PlacesOf ==
  ASSUME PathTypeOK, NEW k \in Controller, NEW w \in Worker
  PROVE  /\ up[k] \in Seq(UpFrame) /\ down[w] \in Seq(Command)
         /\ tasks[w] \in Seq(Command) /\ back[k] \in Seq(BackFrame)
         /\ \E d \in Nat : Kept(up[k], up[k], Items(w)["up"], d)
         /\ \E d \in Nat : Kept(down[w], down[w], Items(w)["down"], d)
         /\ \E d \in Nat : Kept(tasks[w], tasks[w], Items(w)["tasks"], d)
         /\ \E d \in Nat : Kept(back[k], back[k], Items(w)["back"], d)
<1>1. /\ up[k] \in Seq(UpFrame) /\ down[w] \in Seq(Command)
      /\ tasks[w] \in Seq(Command) /\ back[k] \in Seq(BackFrame)
  BY DEF PathTypeOK
<1> QED BY <1>1, KeptPlace

\* The worker takes a command: it goes from its frames to its tasks, or
\* straight back, as the result of a restart.
LEMMA WorkerTakeTrip ==
  ASSUME PathTypeOK, PathTypeOK', NEW k \in Controller, NEW w \in Worker, Trip(k, w),
         NEW v \in Worker, WorkerTake(v)
  PROVE  Trip(k, w)'
<1> DEFINE c == Head(down[v])
<1>1. /\ down[v] # <<>> /\ c \in CommandsOf(v) /\ c \in Command
      /\ down' = [down EXCEPT ![v] = Tail(down[v])] /\ up' = up /\ inFlight' = inFlight
  BY WorkInHand DEF WorkerTake, queueVars
<1>2. \/ /\ tasks' = tasks /\ back'[k] \in {back[k], Append(back[k], ResultFrame(c, TRUE))}
      \/ tasks' = [tasks EXCEPT ![v] = Append(tasks[v], c)] /\ back' = back
  <2>1. CASE c \in Restarts
    BY <1>1, <2>1, Reporting DEF WorkerTake
  <2>2. CASE c \notin Restarts
    BY <2>2 DEF WorkerTake
  <2> QED BY <2>1, <2>2
<1> HIDE DEF c
<1>3. ResultFrame(c, TRUE) \in BackFrame
  <2>1. \A ok \in BOOLEAN : ResultFrame(c, ok) \in BackFrame
    BY <1>1 DEF BackFrame
  <2>2. TRUE \in BOOLEAN
    OBVIOUS
  <2> QED BY <2>1, <2>2
<1>4. CASE v # w
  <2>1. ResultFrame(c, TRUE) \notin Items(w)["back"]
    BY <1>1, <1>4, ItemsOfOthers DEF CommandsOf
  <2>2. down'[w] = down[w] /\ tasks'[w] = tasks[w] /\ up'[k] = up[k]
    BY <1>1, <1>2, <1>4 DEF PathTypeOK
  <2>3. \E d \in Nat : Kept(back[k], back'[k], Items(w)["back"], d)
    <3>1. \E d \in Nat : Kept(back[k], Append(back[k], ResultFrame(c, TRUE)), Items(w)["back"], d)
      BY <1>3, <2>1, PlacesOf, KeptPlace
    <3> QED BY <1>2, <3>1, PlacesOf
  <2>4. inFlight'[<<k, w>>] = inFlight[<<k, w>>]
    BY <1>1
  <2> QED BY <2>2, <2>3, <2>4, PlacesOf, TripSame
<1>5. CASE v = w
  <2>1. c = inFlight[<<k, w>>] /\ c \in Items(w)["down"]
    BY <1>1, <1>5, FirstIsInFlight, ItemsAre DEF c
  <2>2. /\ c \in For(inFlight'[<<k, w>>])["tasks"] /\ c \in Item
        /\ ResultFrame(c, TRUE) \in For(inFlight'[<<k, w>>])["back"]
        /\ ResultFrame(c, TRUE) \in Item
    BY <1>1, <1>3, <2>1 DEF For, Way, Item
  <2>3. /\ down[w] # <<>> /\ Head(down[w]) \in Items(w)["down"] /\ down'[w] = Tail(down[w])
        /\ up'[k] = up[k]
    BY <1>1, <1>5, <2>1 DEF PathTypeOK, c
  <2>4. CASE tasks' = tasks /\ back'[k] \in {back[k], Append(back[k], ResultFrame(c, TRUE))}
    <3>1. \A e \in Way \ {"down", "back"} : On(k, w)'[e] = On(k, w)[e]
      BY <2>3, <2>4, Places DEF Way
    <3>2. /\ On(k, w)["down"] = down[w] /\ On(k, w)'["down"] = down'[w]
          /\ On(k, w)["back"] = back[k] /\ On(k, w)'["back"] = back'[k]
          /\ "down" \in Way /\ "back" \in Way \ {"down"}
      BY Places DEF Way
    <3>3. /\ On(k, w)["down"] # <<>> /\ Head(On(k, w)["down"]) \in Items(w)["down"]
          /\ On(k, w)'["down"] = Tail(On(k, w)["down"])
          /\ On(k, w)'["back"] \in {On(k, w)["back"], Append(On(k, w)["back"], ResultFrame(c, TRUE))}
      BY <2>3, <2>4, <3>2
    <3> QED BY <2>2, <3>1, <3>2, <3>3, TripPassed
  <2>5. CASE tasks' = [tasks EXCEPT ![v] = Append(tasks[v], c)] /\ back' = back
    <3>1. tasks'[w] = Append(tasks[w], c) /\ back'[k] = back[k]
      BY <1>5, <2>5 DEF PathTypeOK
    <3>2. \A e \in Way \ {"down", "tasks"} : On(k, w)'[e] = On(k, w)[e]
      BY <2>3, <3>1, Places DEF Way
    <3>3. /\ On(k, w)["down"] = down[w] /\ On(k, w)'["down"] = down'[w]
          /\ On(k, w)["tasks"] = tasks[w] /\ On(k, w)'["tasks"] = tasks'[w]
          /\ "down" \in Way /\ "tasks" \in Way \ {"down"}
      BY Places DEF Way
    <3>4. /\ On(k, w)["down"] # <<>> /\ Head(On(k, w)["down"]) \in Items(w)["down"]
          /\ On(k, w)'["down"] = Tail(On(k, w)["down"])
          /\ On(k, w)'["tasks"] \in {On(k, w)["tasks"], Append(On(k, w)["tasks"], c)}
      BY <2>3, <3>1, <3>3
    <3> QED BY <2>2, <3>2, <3>3, <3>4, TripPassed
  <2> QED BY <1>2, <2>4, <2>5
<1> QED BY <1>4, <1>5

\* A task has ended: its command goes back as its result.
LEMMA WorkerRunTrip ==
  ASSUME PathTypeOK, PathTypeOK', NEW k \in Controller, NEW w \in Worker, Trip(k, w),
         NEW v \in Worker, NEW ok \in BOOLEAN, WorkerRun(v, ok)
  PROVE  Trip(k, w)'
<1> DEFINE c == Head(tasks[v])
<1>1. /\ tasks[v] # <<>> /\ c \in CommandsOf(v) /\ c \in Command
      /\ tasks' = [tasks EXCEPT ![v] = Tail(tasks[v])]
      /\ up' = up /\ down' = down /\ inFlight' = inFlight
  BY WorkInHand DEF WorkerRun, queueVars
<1>2. back'[k] \in {back[k], Append(back[k], ResultFrame(c, ok))}
  BY <1>1, Reporting DEF WorkerRun
<1> HIDE DEF c
<1>3. ResultFrame(c, ok) \in BackFrame
  BY <1>1 DEF BackFrame
<1>4. CASE v # w
  <2>1. ResultFrame(c, ok) \notin Items(w)["back"]
    BY <1>1, <1>4, ItemsOfOthers DEF CommandsOf
  <2>2. tasks'[w] = tasks[w]
    BY <1>1, <1>4 DEF PathTypeOK
  <2>3. \E d \in Nat : Kept(back[k], back'[k], Items(w)["back"], d)
    <3>1. \E d \in Nat : Kept(back[k], Append(back[k], ResultFrame(c, ok)), Items(w)["back"], d)
      BY <1>3, <2>1, PlacesOf, KeptPlace
    <3> QED BY <1>2, <3>1, PlacesOf
  <2>4. inFlight'[<<k, w>>] = inFlight[<<k, w>>] /\ up'[k] = up[k] /\ down'[w] = down[w]
    BY <1>1
  <2> QED BY <2>2, <2>3, <2>4, PlacesOf, TripSame
<1>5. CASE v = w
  <2>1. c = inFlight[<<k, w>>] /\ c \in Items(w)["tasks"]
    BY <1>1, <1>5, FirstIsInFlight, ItemsAre DEF c
  <2>2. ResultFrame(c, ok) \in For(inFlight'[<<k, w>>])["back"] /\ ResultFrame(c, ok) \in Item
    BY <1>1, <1>3, <2>1 DEF For, Way, Item
  <2>3. tasks[w] # <<>> /\ Head(tasks[w]) \in Items(w)["tasks"] /\ tasks'[w] = Tail(tasks[w])
    BY <1>1, <1>5, <2>1 DEF PathTypeOK, c
  <2>4. \A e \in Way \ {"tasks", "back"} : On(k, w)'[e] = On(k, w)[e]
    BY <1>1, Places DEF Way
  <2>5. /\ On(k, w)["tasks"] = tasks[w] /\ On(k, w)'["tasks"] = tasks'[w]
        /\ On(k, w)["back"] = back[k] /\ On(k, w)'["back"] = back'[k]
        /\ "tasks" \in Way /\ "back" \in Way \ {"tasks"}
    BY Places DEF Way
  <2>6. /\ On(k, w)["tasks"] # <<>> /\ Head(On(k, w)["tasks"]) \in Items(w)["tasks"]
        /\ On(k, w)'["tasks"] = Tail(On(k, w)["tasks"])
        /\ On(k, w)'["back"] \in {On(k, w)["back"], Append(On(k, w)["back"], ResultFrame(c, ok))}
    BY <1>2, <2>3, <2>5
  <2> QED BY <2>2, <2>4, <2>5, <2>6, TripPassed
<1> QED BY <1>4, <1>5

\* Broken links, ended processes and the rest of a restart add nothing.
LEMMA BreaksTrip ==
  ASSUME PathTypeOK, PathTypeOK', NEW k \in Controller, NEW w \in Worker, Trip(k, w),
         NEW v \in Worker,
         WorkerRestarted(v) \/ DropWorker(v) \/ RelinkWorker(v) \/ EndWorker(v)
  PROVE  Trip(k, w)'
<1>1. up'[k] = up[k] /\ back'[k] = back[k] /\ inFlight'[<<k, w>>] = inFlight[<<k, w>>]
  BY DEF WorkerRestarted, DropWorker, RelinkWorker, EndWorker, queueVars
<1>2. \E d \in Nat : Kept(down[w], down'[w], Items(w)["down"], d)
  <2>1. down'[w] \in {down[w], <<>>} \/ \E n \in 0..Len(down[w]) : down'[w] = SubSeq(down[w], 1, n)
    <3>1. CASE WorkerRestarted(v) \/ RelinkWorker(v)
      BY <3>1 DEF WorkerRestarted, RelinkWorker
    <3>2. CASE EndWorker(v)
      BY <3>2 DEF EndWorker, PathTypeOK
    <3>3. CASE DropWorker(v)
      <4>1. PICK n \in 0..Len(down[v]) : down' = [down EXCEPT ![v] = SubSeq(down[v], 1, n)]
        BY <3>3 DEF DropWorker
      <4>2. down'[w] = down[w] \/ (v = w /\ down'[w] = SubSeq(down[w], 1, n))
        BY <4>1 DEF PathTypeOK
      <4> QED BY <4>1, <4>2
    <3> QED BY <3>1, <3>2, <3>3
  <2>2. ASSUME NEW n \in 0..Len(down[w])
        PROVE  \E d \in Nat : Kept(down[w], SubSeq(down[w], 1, n), Items(w)["down"], d)
    BY PlacesOf, KeptPlace
  <2>3. \E d \in Nat : Kept(down[w], <<>>, Items(w)["down"], d)
    BY PlacesOf, KeptPlace
  <2>4. CASE down'[w] = <<>>
    BY <2>3, <2>4
  <2>5. CASE \E n \in 0..Len(down[w]) : down'[w] = SubSeq(down[w], 1, n)
    BY <2>2, <2>5
  <2>6. CASE down'[w] = down[w]
    BY <2>6, PlacesOf
  <2> QED BY <2>1, <2>4, <2>5, <2>6
<1>3. \E d \in Nat : Kept(tasks[w], tasks'[w], Items(w)["tasks"], d)
  <2>1. tasks'[w] \in {tasks[w], <<>>}
    BY DEF WorkerRestarted, DropWorker, RelinkWorker, EndWorker, PathTypeOK
  <2>2. \E d \in Nat : Kept(tasks[w], <<>>, Items(w)["tasks"], d)
    BY PlacesOf, KeptPlace
  <2> QED BY <2>1, <2>2, PlacesOf
<1>4. \E d \in Nat : Kept(up[k], up'[k], Items(w)["up"], d)
  BY <1>1, PlacesOf
<1>5. \E d \in Nat : Kept(back[k], back'[k], Items(w)["back"], d)
  BY <1>1, PlacesOf
<1>6. inFlight'[<<k, w>>] = inFlight[<<k, w>>]
  BY <1>1
<1> QED BY <1>2, <1>3, <1>4, <1>5, <1>6, TripSame

\* A frame of a user's new subscriptions, or a fresh link, is no item.
LEMMA LinksTrip ==
  ASSUME PathTypeOK, PathTypeOK', NEW k \in Controller, NEW w \in Worker, Trip(k, w),
         NEW j \in Controller,
         \/ DropController(j) \/ RelinkController(j)
         \/ \E ids \in SUBSET Worker : ChangeTabs(j, ids)
  PROVE  Trip(k, w)'
<1>1. down'[w] = down[w] /\ tasks'[w] = tasks[w] /\ inFlight'[<<k, w>>] = inFlight[<<k, w>>]
  BY DEF DropController, RelinkController, ChangeTabs, queueVars
<1>2. CASE DropController(j)
  <2>1. PICK n \in 0..Len(back[j]) : back' = [back EXCEPT ![j] = SubSeq(back[j], 1, n)]
    BY <1>2 DEF DropController
  <2>2. back'[k] = back[k] \/ (k = j /\ back'[k] = SubSeq(back[k], 1, n))
    BY <2>1 DEF PathTypeOK
  <2>3. up'[k] \in {up[k], <<>>}
    BY <1>2 DEF DropController, PathTypeOK
  <2>4. \E d \in Nat : Kept(up[k], up'[k], Items(w)["up"], d)
    <3>1. \E d \in Nat : Kept(up[k], <<>>, Items(w)["up"], d)
      BY PlacesOf, KeptPlace
    <3> QED BY <2>3, <3>1, PlacesOf
  <2>5. \E d \in Nat : Kept(back[k], back'[k], Items(w)["back"], d)
    <3>1. k = j => \E d \in Nat : Kept(back[k], SubSeq(back[k], 1, n), Items(w)["back"], d)
      BY PlacesOf, KeptPlace
    <3> QED BY <2>2, <3>1, PlacesOf
  <2> QED BY <1>1, <2>4, <2>5, PlacesOf, TripSame
<1>3. CASE RelinkController(j)
  <2>1. up'[k] = up[k] /\ back'[k] \in {back[k], Append(back[k], Connected)}
    BY <1>3 DEF RelinkController, PathTypeOK
  <2>2. Connected \in BackFrame
    BY DEF BackFrame
  <2>3. Connected \notin Items(w)["back"]
    <3>1. \A c \in CommandsOf(w), ok \in BOOLEAN : Connected # ResultFrame(c, ok)
      BY DEF Connected, ResultFrame
    <3> QED BY <3>1, ItemsAre
  <2>4. \E d \in Nat : Kept(back[k], Append(back[k], Connected), Items(w)["back"], d)
    BY <2>2, <2>3, PlacesOf, KeptPlace
    <2>5. inFlight'[<<k, w>>] = inFlight[<<k, w>>]
      BY <1>1
    <2>6. \E d \in Nat : Kept(up[k], up'[k], Items(w)["up"], d)
      BY <2>1, PlacesOf
    <2>7. \E d \in Nat : Kept(down[w], down'[w], Items(w)["down"], d)
      BY <1>1, PlacesOf
    <2>8. \E d \in Nat : Kept(tasks[w], tasks'[w], Items(w)["tasks"], d)
      BY <1>1, PlacesOf
    <2>9. \E d \in Nat : Kept(back[k], back'[k], Items(w)["back"], d)
      BY <2>1, <2>4, PlacesOf
    <2> QED BY <2>5, <2>6, <2>7, <2>8, <2>9, TripSame
<1>4. ASSUME NEW ids \in SUBSET Worker, ChangeTabs(j, ids)
      PROVE  Trip(k, w)'
  <2>1. RegisterFrame(ids) \in UpFrame
    BY DEF UpFrame
  <2>2. up'[k] \in {up[k], Append(up[k], RegisterFrame(ids))} /\ back'[k] = back[k]
    BY <1>4 DEF ChangeTabs, Send, PathTypeOK
  <2>3. RegisterFrame(ids) \notin Items(w)["up"]
    <3>1. \A c \in CommandsOf(w) : RegisterFrame(ids) # CommandFrame(c)
      BY DEF RegisterFrame, CommandFrame
    <3> QED BY <3>1, ItemsAre
  <2>4. \E d \in Nat : Kept(up[k], Append(up[k], RegisterFrame(ids)), Items(w)["up"], d)
    BY <2>1, <2>3, PlacesOf, KeptPlace
  <2>5. \E d \in Nat : Kept(up[k], up'[k], Items(w)["up"], d)
    BY <2>2, <2>4, PlacesOf
    <2>6. inFlight'[<<k, w>>] = inFlight[<<k, w>>]
      BY <1>1
    <2>7. \E d \in Nat : Kept(down[w], down'[w], Items(w)["down"], d)
      BY <1>1, PlacesOf
    <2>8. \E d \in Nat : Kept(tasks[w], tasks'[w], Items(w)["tasks"], d)
      BY <1>1, PlacesOf
    <2>9. \E d \in Nat : Kept(back[k], back'[k], Items(w)["back"], d)
      BY <2>2, PlacesOf
    <2> QED BY <2>5, <2>6, <2>7, <2>8, <2>9, TripSame
<1>5. CASE \E ids \in SUBSET Worker : ChangeTabs(j, ids)
  <2>1. PICK ids \in SUBSET Worker : ChangeTabs(j, ids)
    BY <1>5
  <2> QED BY <1>4, <2>1
<1> QED BY <1>2, <1>3, <1>5

\* The server hands a command on to its worker, or drops it.
LEMMA ServerTakeTrip ==
  ASSUME PathTypeOK, PathTypeOK', NEW k \in Controller, NEW w \in Worker, Trip(k, w),
         ServerTake(k)
  PROVE  Trip(k, w)'
<1>1. /\ up[k] # <<>> /\ up'[k] = Tail(up[k])
      /\ tasks'[w] = tasks[w] /\ back'[k] = back[k] /\ inFlight'[<<k, w>>] = inFlight[<<k, w>>]
  BY DEF ServerTake, queueVars, PathTypeOK
<1>2. \E d \in Nat : Kept(up[k], Tail(up[k]), Items(w)["up"], d)
  BY <1>1, PlacesOf, KeptPlace
<1>3. CASE Head(up[k]).type = "register"
  <2>1. down'[w] = down[w]
    BY <1>3 DEF ServerTake
    <2>2. inFlight'[<<k, w>>] = inFlight[<<k, w>>]
      BY <1>1
    <2>3. \E d \in Nat : Kept(up[k], up'[k], Items(w)["up"], d)
      BY <1>1, <1>2
    <2>4. \E d \in Nat : Kept(down[w], down'[w], Items(w)["down"], d)
      BY <2>1, PlacesOf
    <2>5. \E d \in Nat : Kept(tasks[w], tasks'[w], Items(w)["tasks"], d)
      BY <1>1, PlacesOf
    <2>6. \E d \in Nat : Kept(back[k], back'[k], Items(w)["back"], d)
      BY <1>1, PlacesOf
    <2> QED BY <2>2, <2>3, <2>4, <2>5, <2>6, TripSame
<1>4. ASSUME NEW c \in Command,
             Head(up[k]) = CommandFrame(c), Head(up[k]).type = "command", Head(up[k]).command = c,
             SlotOf[c][2] \in Worker
      PROVE  Trip(k, w)'
  <2> DEFINE v == SlotOf[c][2]
  <2>1. down' \in {down, [down EXCEPT ![v] = Append(down[v], c)]}
    BY <1>4 DEF ServerTake
  <2>2. CASE v # w
    <3>1. down'[w] = down[w]
      BY <2>1, <2>2 DEF PathTypeOK
      <3>2. inFlight'[<<k, w>>] = inFlight[<<k, w>>]
        BY <1>1
      <3>3. \E d \in Nat : Kept(up[k], up'[k], Items(w)["up"], d)
        BY <1>1, <1>2
      <3>4. \E d \in Nat : Kept(down[w], down'[w], Items(w)["down"], d)
        BY <3>1, PlacesOf
      <3>5. \E d \in Nat : Kept(tasks[w], tasks'[w], Items(w)["tasks"], d)
        BY <1>1, PlacesOf
      <3>6. \E d \in Nat : Kept(back[k], back'[k], Items(w)["back"], d)
        BY <1>1, PlacesOf
      <3> QED BY <3>2, <3>3, <3>4, <3>5, <3>6, TripSame
  <2>3. CASE v = w
    <3>1. down'[w] \in {down[w], Append(down[w], c)} /\ c \in CommandsOf(w)
      BY <2>1, <2>3 DEF PathTypeOK, CommandsOf
    <3>2. c = inFlight[<<k, w>>] /\ Head(up[k]) \in Items(w)["up"]
      BY <1>1, <1>4, <3>1, FirstIsInFlight, ItemsAre
    <3>3. c \in For(inFlight'[<<k, w>>])["down"] /\ c \in Item
      BY <1>1, <3>2 DEF For, Way, Item
    <3>4. \A e \in Way \ {"up", "down"} : On(k, w)'[e] = On(k, w)[e]
      BY <1>1, Places DEF Way
    <3>5. /\ On(k, w)["up"] = up[k] /\ On(k, w)'["up"] = up'[k]
          /\ On(k, w)["down"] = down[w] /\ On(k, w)'["down"] = down'[w]
          /\ "up" \in Way /\ "down" \in Way \ {"up"}
      BY Places DEF Way
    <3>6. /\ On(k, w)["up"] # <<>> /\ Head(On(k, w)["up"]) \in Items(w)["up"]
          /\ On(k, w)'["up"] = Tail(On(k, w)["up"])
          /\ On(k, w)'["down"] \in {On(k, w)["down"], Append(On(k, w)["down"], c)}
      BY <1>1, <3>1, <3>2, <3>5
    <3> QED BY <3>3, <3>4, <3>5, <3>6, TripPassed
  <2> QED BY <2>2, <2>3
<1>5. CASE \E c \in Command : /\ Head(up[k]) = CommandFrame(c) /\ Head(up[k]).type = "command"
                              /\ Head(up[k]).command = c /\ SlotOf[c][2] \in Worker
  BY <1>4, <1>5
<1>6. Head(up[k]).type = "register"
      \/ \E c \in Command : /\ Head(up[k]) = CommandFrame(c) /\ Head(up[k]).type = "command"
                            /\ Head(up[k]).command = c /\ SlotOf[c][2] \in Worker
  BY <1>1, FrameInHand
<1> QED BY <1>3, <1>5, <1>6

\* A command is given: it is sent at once if nothing is in flight, that is, if
\* nothing is on its way.
LEMMA SubmitTrip ==
  ASSUME PathTypeOK, PathTypeOK', QueueInv, NEW k \in Controller, NEW w \in Worker, Trip(k, w),
         NEW c \in Command, SlotOf[c][1] = k, Submit(c)
  PROVE  Trip(k, w)'
<1> DEFINE s == SlotOf[c]
<1>1. s \in Slot /\ s = <<k, s[2]>> /\ s[2] \in Worker
  BY CommandQueueAssumption DEF Slot
<1>2. /\ EnqueueCommand(c) /\ SendDispatched(s)
      /\ down'[w] = down[w] /\ tasks'[w] = tasks[w] /\ back'[k] = back[k]
  BY DEF Submit
<1>3. c # NoCommand /\ inFlight \in [Slot -> Command \cup {NoCommand}] /\ queue[s] \in Seq(Command)
  BY <1>1, CommandQueueAssumption DEF QueueInv, QueueTypeOK
<1>4. CASE inFlight[s] # NoCommand
  <2>1. inFlight' = inFlight
    BY <1>2, <1>4 DEF EnqueueCommand
  <2>2. up' = up
    BY <1>2, <2>1 DEF SendDispatched
  <2> QED BY <1>2, <2>1, <2>2, PlacesOf, TripSame
<1>5. CASE inFlight[s] = NoCommand
  <2>1. queue[s] = <<>>
    BY <1>1, <1>5 DEF QueueInv, NoIdleBacklog
  <2>2. Append(queue[s], c) \in Seq(Command) /\ Append(queue[s], c) # <<>> /\ Append(queue[s], c)[1] = c
    BY <1>3, <2>1
  <2>3. inFlight' = [inFlight EXCEPT ![s] = c]
    <3>1. ProcessNext(s, Append(queue[s], c), history[s], [state EXCEPT ![c] = "queued"])
      BY <1>2, <1>5 DEF EnqueueCommand
    <3>2. inFlight' = [inFlight EXCEPT ![s] = IF Append(queue[s], c) = <<>> THEN NoCommand
                                              ELSE Append(queue[s], c)[1]]
      BY <1>1, <2>2, <3>1, NextSent
    <3> QED BY <2>2, <3>2
  <2>4. inFlight'[s] = c
    BY <1>1, <1>3, <2>3
  <2>5. Send(k, CommandFrame(c))
    BY <1>1, <1>2, <1>3, <1>5, <2>4 DEF SendDispatched
  <2>6. up'[k] \in {up[k], Append(up[k], CommandFrame(c))}
    BY <2>5 DEF Send, PathTypeOK
  <2>7. CASE s[2] # w
    <3>1. CommandFrame(c) \notin Items(w)["up"] /\ CommandFrame(c) \in UpFrame
      <4>1. \A d \in Command : CommandFrame(d) \in UpFrame
        BY DEF UpFrame
      <4> QED BY <2>7, <4>1, ItemsOfOthers
    <3>2. \E d \in Nat : Kept(up[k], Append(up[k], CommandFrame(c)), Items(w)["up"], d)
      BY <3>1, PlacesOf, KeptPlace
    <3>3. \E d \in Nat : Kept(up[k], up'[k], Items(w)["up"], d)
      BY <2>6, <3>2, PlacesOf
    <3>4. inFlight'[<<k, w>>] = inFlight[<<k, w>>]
      BY <1>1, <1>3, <2>3, <2>7
    <3> QED BY <1>2, <3>3, <3>4, PlacesOf, TripSame
  <2>8. CASE s[2] = w
    <3>1. s = <<k, w>>
      BY <1>1, <2>8
    <3>2. Free(On(k, w), Items(w))
      BY <1>5, <3>1, IdleFree DEF Trip
    <3>3. CASE up'[k] = Append(up[k], CommandFrame(c))
      <4>1. Alone(On(k, w)', Items(w)) /\ Carries(On(k, w)', Items(w), For(c))
        BY <1>2, <3>2, <3>3, TripLoaded
      <4> QED BY <2>4, <3>1, <4>1 DEF Trip
    <3>4. CASE up'[k] = up[k]
      <4>1. Free(On(k, w)', Items(w))
        BY <1>2, <3>2, <3>4, PlacesOf, TripKept
      <4> QED BY <4>1, TripFree
    <3> QED BY <2>6, <3>3, <3>4
  <2> QED BY <2>7, <2>8
<1> QED BY <1>4, <1>5

\* The controller takes a result: the item is gone, and the next command, if
\* there is one, is the item.
LEMMA ResultTrip ==
  ASSUME PathTypeOK, PathTypeOK', QueueInv, NEW k \in Controller, NEW w \in Worker, Trip(k, w),
         ControllerTake(k), NEW c \in Command, NEW ok \in BOOLEAN,
         Head(back[k]) = ResultFrame(c, ok), Head(back[k]).type = "result",
         Head(back[k]).command = c, Head(back[k]).ok = ok,
         SlotOf[c][2] \in Worker, <<k, SlotOf[c][2]>> \in Slot
  PROVE  Trip(k, w)'
<1> DEFINE v == SlotOf[c][2]
           s == <<k, v>>
           next == inFlight'[s]
<1>1. /\ back[k] # <<>> /\ back'[k] = Tail(back[k]) /\ down'[w] = down[w] /\ tasks'[w] = tasks[w]
      /\ HandleCommandResult(s, ok) /\ SendDispatched(s)
  BY DEF ControllerTake, PathTypeOK
<1>2. \E d \in Nat : Kept(back[k], back'[k], Items(w)["back"], d)
  BY <1>1, PlacesOf, KeptPlace
<1>3. /\ inFlight \in [Slot -> Command \cup {NoCommand}] /\ queue[s] \in Seq(Command)
      /\ NoCommand \notin Command
  BY CommandQueueAssumption DEF QueueInv, QueueTypeOK
<1>4. \/ inFlight' = inFlight
      \/ /\ queue[s] = <<>> /\ inFlight' = [inFlight EXCEPT ![s] = NoCommand]
      \/ /\ queue[s] # <<>> /\ inFlight' = [inFlight EXCEPT ![s] = queue[s][1]]
  <2>1. CASE inFlight[s] = NoCommand
    BY <1>1, <2>1 DEF HandleCommandResult, queueVars
  <2>2. CASE inFlight[s] # NoCommand
    <3>1. PICK h, st : ProcessNext(s, queue[s], h, st)
      BY <1>1, <2>2 DEF HandleCommandResult, EndInFlight
    <3>2. inFlight' = [inFlight EXCEPT ![s] = IF queue[s] = <<>> THEN NoCommand ELSE queue[s][1]]
      BY <1>3, <3>1, NextSent
    <3> QED BY <3>2
  <2> QED BY <2>1, <2>2
<1>5. \/ up' = up
      \/ /\ queue[s] # <<>> /\ next = queue[s][1] /\ next \in Command /\ SlotOf[next] = s
         /\ up'[k] \in {up[k], Append(up[k], CommandFrame(next))}
  <2>1. CASE next \in {NoCommand, inFlight[s]}
    BY <1>1, <2>1 DEF SendDispatched
  <2>2. CASE next \notin {NoCommand, inFlight[s]}
    <3>1. queue[s] # <<>> /\ next = queue[s][1]
      BY <1>3, <1>4, <2>2
    <3>2. next \in Command /\ SlotOf[next] = s
      BY <3>1, FirstIsMine
    <3>3. Send(k, CommandFrame(next))
      BY <1>1, <2>2 DEF SendDispatched
    <3>4. up'[k] \in {up[k], Append(up[k], CommandFrame(next))}
      BY <3>3 DEF Send, PathTypeOK
    <3> QED BY <3>1, <3>2, <3>4
  <2> QED BY <2>1, <2>2
<1> HIDE DEF next
<1>6. CASE v # w
  <2>1. inFlight'[<<k, w>>] = inFlight[<<k, w>>]
    <3>1. <<k, w>> \in Slot /\ <<k, w>> # s
      BY <1>6 DEF Slot
    <3> HIDE DEF s
    <3> QED BY <1>3, <1>4, <3>1
  <2>2. \E d \in Nat : Kept(up[k], up'[k], Items(w)["up"], d)
    <3>1. CASE up' = up
      BY <3>1, PlacesOf
    <3>2. CASE /\ next \in Command /\ SlotOf[next] = s
               /\ up'[k] \in {up[k], Append(up[k], CommandFrame(next))}
      <4>1. CommandFrame(next) \notin Items(w)["up"] /\ CommandFrame(next) \in UpFrame
        <5>1. \A d \in Command : CommandFrame(d) \in UpFrame
          BY DEF UpFrame
        <5> QED BY <1>6, <3>2, <5>1, ItemsOfOthers
      <4>2. \E d \in Nat : Kept(up[k], Append(up[k], CommandFrame(next)), Items(w)["up"], d)
        BY <4>1, PlacesOf, KeptPlace
      <4> QED BY <3>2, <4>2, PlacesOf
    <3> QED BY <1>5, <3>1, <3>2
  <2> QED BY <1>1, <1>2, <2>1, <2>2, PlacesOf, TripSame
<1>7. CASE v = w
  <2>1. s = <<k, w>> /\ c \in CommandsOf(w)
    BY <1>7 DEF CommandsOf
  <2>2. Head(back[k]) \in Items(w)["back"]
    BY <2>1, ItemsAre
  <2>3. CASE up'[k] = up[k]
    <3>1. Kept(back[k], back'[k], Items(w)["back"], 1)
      BY <1>1, PlacesOf, KeptTail
    <3>2. /\ Kept(up[k], up'[k], Items(w)["up"], 0)
          /\ Kept(down[w], down'[w], Items(w)["down"], 0)
          /\ Kept(tasks[w], tasks'[w], Items(w)["tasks"], 0)
      BY <1>1, <2>3, PlacesOf, KeptSame
    <3>3. Free(On(k, w)', Items(w))
      <4>1. 0 \in Nat /\ 1 \in Nat /\ 1 > 0
        OBVIOUS
      <4>2. Alone(On(k, w), Items(w))
        BY DEF Trip
      <4> QED BY <1>1, <2>2, <3>1, <3>2, <4>1, <4>2, TripKept
    <3> QED BY <3>3, TripFree
  <2>4. CASE /\ next \in Command /\ up'[k] \in {up[k], Append(up[k], CommandFrame(next))}
    <3>1. next = inFlight'[<<k, w>>]
      BY <2>1 DEF next
    <3>2. CommandFrame(next) \in For(inFlight'[<<k, w>>])["up"]
      BY <3>1 DEF For, Way
    <3>3. CommandFrame(next) \in Item
      BY <2>4 DEF Item, UpFrame
    <3>4. \A e \in Way \ {"back", "up"} : On(k, w)'[e] = On(k, w)[e]
      BY <1>1, Places DEF Way
    <3>5. /\ On(k, w)["up"] = up[k] /\ On(k, w)'["up"] = up'[k]
          /\ On(k, w)["back"] = back[k] /\ On(k, w)'["back"] = back'[k]
          /\ "back" \in Way /\ "up" \in Way \ {"back"}
      BY Places DEF Way
    <3>6. /\ On(k, w)["back"] # <<>> /\ Head(On(k, w)["back"]) \in Items(w)["back"]
          /\ On(k, w)'["back"] = Tail(On(k, w)["back"])
          /\ On(k, w)'["up"] \in {On(k, w)["up"], Append(On(k, w)["up"], CommandFrame(next))}
      BY <1>1, <2>2, <2>4, <3>5
    <3> QED BY <3>2, <3>3, <3>4, <3>5, <3>6, TripPassed
  <2> QED BY <1>5, <2>3, <2>4
<1> QED BY <1>6, <1>7

\* The controller takes whatever has come.
LEMMA ControllerTakeTrip ==
  ASSUME PathTypeOK, PathTypeOK', QueueInv, NEW k \in Controller, NEW w \in Worker, Trip(k, w),
         ControllerTake(k)
  PROVE  Trip(k, w)'
<1>1. /\ back[k] # <<>> /\ back'[k] = Tail(back[k]) /\ down'[w] = down[w] /\ tasks'[w] = tasks[w]
  BY DEF ControllerTake, PathTypeOK
<1>2. CASE Head(back[k]).type = "connected"
  <2>1. inFlight'[<<k, w>>] = inFlight[<<k, w>>] /\ Send(k, RegisterFrame(tabs[k]))
    BY <1>2 DEF ControllerTake, queueVars
  <2>2. RegisterFrame(tabs[k]) \in UpFrame
    BY DEF UpFrame, PathTypeOK
  <2>3. up'[k] \in {up[k], Append(up[k], RegisterFrame(tabs[k]))}
    BY <2>1 DEF Send, PathTypeOK
  <2>4. RegisterFrame(tabs[k]) \notin Items(w)["up"]
    <3>1. \A c \in CommandsOf(w) : RegisterFrame(tabs[k]) # CommandFrame(c)
      BY DEF RegisterFrame, CommandFrame
    <3> QED BY <3>1, ItemsAre
  <2>5. \E d \in Nat : Kept(up[k], Append(up[k], RegisterFrame(tabs[k])), Items(w)["up"], d)
    BY <2>2, <2>4, PlacesOf, KeptPlace
  <2>6. \E d \in Nat : Kept(up[k], up'[k], Items(w)["up"], d)
    BY <2>3, <2>5, PlacesOf
  <2>7. \E d \in Nat : Kept(back[k], back'[k], Items(w)["back"], d)
    BY <1>1, PlacesOf, KeptPlace
  <2> QED BY <1>1, <2>1, <2>6, <2>7, PlacesOf, TripSame
<1>3. CASE \E c \in Command, ok \in BOOLEAN :
             /\ Head(back[k]) = ResultFrame(c, ok) /\ Head(back[k]).type = "result"
             /\ Head(back[k]).command = c /\ Head(back[k]).ok = ok
             /\ SlotOf[c][2] \in Worker /\ <<k, SlotOf[c][2]>> \in Slot
  BY <1>3, ResultTrip
<1> QED BY <1>1, <1>2, <1>3, ResultInHand
=============================================================================
