--------------------------- MODULE WorkerManager ---------------------------
(***************************************************************************)
(* The tables of server/worker_manager.py and the methods that change      *)
(* them.  Each operator below is one synchronous stretch of a method: what *)
(* it does between two suspension points of the event loop.  The handlers  *)
(* that call the methods, and the sends they await, are in Relay.          *)
(***************************************************************************)
EXTENDS Endpoints

CONSTANTS
  Reported,    \* the statuses workers report besides "connected"
  MaxVersion   \* bound on the DOM versions workers report

ASSUME WorkerManagerAssumption ==
  /\ MaxVersion \in Nat
  /\ "disconnected" \notin Reported
  /\ "unknown" \notin Reported

VARIABLES
  conns,       \* _worker_connections; NoSocket where the key is absent
  status,      \* _worker_states[w].status; "unknown" where the key is absent
  domVersion,  \* _worker_states[w].dom_version
  subKeys,     \* keys of _worker_subscribers
  subs,        \* _worker_subscribers[w]; {} where the key is absent
  lock,        \* the register_worker call that holds _lock across an await
  oldSocket,   \* old_ws of that call
  countTasks   \* workers with a scheduled _notify_worker_observer_count task

managerVars == <<conns, status, domVersion, subKeys, subs, lock, oldSocket, countTasks>>

Status == Reported \cup {"connected", "disconnected"}
Known  == Status \cup {"unknown"}
Version == 0..MaxVersion

ManagerTypeOK ==
  /\ conns \in [Worker -> WSocket \cup {NoSocket}]
  /\ status \in [Worker -> Known]
  /\ domVersion \in [Worker -> Version]
  /\ subKeys \subseteq Worker
  /\ subs \in [Worker -> SUBSET CSocket]
  /\ lock \in WSocket \cup {NoSocket}
  /\ oldSocket \in WSocket \cup {NoSocket}
  /\ countTasks \subseteq Worker

ManagerInit ==
  /\ conns = [w \in Worker |-> NoSocket]
  /\ status = [w \in Worker |-> "unknown"]
  /\ domVersion = [w \in Worker |-> 0]
  /\ subKeys = {}
  /\ subs = [w \in Worker |-> {}]
  /\ lock = NoSocket
  /\ oldSocket = NoSocket
  /\ countTasks = {}

\* asyncio.Lock: unregister_worker and forget_worker hold it for one
\* stretch only, so only a register_worker that awaits old_ws.close()
\* is seen holding it.
LockFree == lock = NoSocket

\* The body of register_worker under the lock, up to the await: it keeps
\* the lock while the previous socket of the worker closes.
HoldForClose(w, c) ==
  /\ LockFree
  /\ conns[w] # NoSocket
  /\ lock' = c
  /\ oldSocket' = conns[w]
  /\ UNCHANGED <<conns, status, domVersion, subKeys, subs, countTasks>>

\* Mutant: the state record of the previous connection is kept.
RecordWorkerKeepingVersion(w, c) ==
  /\ conns' = [conns EXCEPT ![w] = c]
  /\ status' = [status EXCEPT ![w] = "connected"]
  /\ subKeys' = subKeys \cup {w}
  /\ UNCHANGED <<domVersion, subs, countTasks>>

\* The rest of register_worker: a fresh state record, the subscriber set
\* kept if there is one.
RecordWorker(w, c) ==
  /\ conns' = [conns EXCEPT ![w] = c]
  /\ status' = [status EXCEPT ![w] = "connected"]
  /\ domVersion' = [domVersion EXCEPT ![w] = 0]
  /\ subKeys' = subKeys \cup {w}
  /\ UNCHANGED <<subs, countTasks>>

\* Mutants: no identity check; the state marked before the identity check;
\* the connection left in the table.
RemoveWorkerUnchecked(w, c) ==
  /\ conns' = [conns EXCEPT ![w] = NoSocket]
  /\ status' = [status EXCEPT ![w] = IF @ = "unknown" THEN @ ELSE "disconnected"]
  /\ UNCHANGED <<domVersion, subKeys, subs, lock, oldSocket, countTasks>>
RemoveWorkerMarkingFirst(w, c) ==
  /\ conns' = IF conns[w] = c THEN [conns EXCEPT ![w] = NoSocket] ELSE conns
  /\ status' = [status EXCEPT ![w] = IF @ = "unknown" THEN @ ELSE "disconnected"]
  /\ UNCHANGED <<domVersion, subKeys, subs, lock, oldSocket, countTasks>>
RemoveWorkerKeepingEntry(w, c) ==
  /\ status' = IF conns[w] # c \/ status[w] = "unknown" THEN status
               ELSE [status EXCEPT ![w] = "disconnected"]
  /\ UNCHANGED <<conns, domVersion, subKeys, subs, lock, oldSocket, countTasks>>

\* unregister_worker under the lock: only the registered socket removes
\* the entry and marks the worker.
RemoveWorker(w, c) ==
  IF conns[w] = c
    THEN /\ conns' = [conns EXCEPT ![w] = NoSocket]
         /\ status' = [status EXCEPT ![w] = IF @ = "unknown" THEN @ ELSE "disconnected"]
         /\ UNCHANGED <<domVersion, subKeys, subs, lock, oldSocket, countTasks>>
    ELSE UNCHANGED managerVars

\* forget_worker on a worker that is not connected: both deletions happen,
\* then self._snapshot_throttles, which nothing defines, raises.
EraseWorker(w) ==
  /\ LockFree
  /\ conns[w] = NoSocket
  /\ status' = [status EXCEPT ![w] = "unknown"]
  /\ domVersion' = [domVersion EXCEPT ![w] = 0]
  /\ subKeys' = subKeys \ {w}
  /\ subs' = [subs EXCEPT ![w] = {}]
  /\ UNCHANGED <<conns, lock, oldSocket, countTasks>>

\* update_status without its broadcast; v is the version the record has
\* afterwards: the one it had, unless the message carries one.
SetStatus(w, s, v) ==
  /\ IF status[w] = "unknown" THEN UNCHANGED <<status, domVersion>>
     ELSE /\ status' = [status EXCEPT ![w] = s]
          /\ domVersion' = [domVersion EXCEPT ![w] = v]
  /\ UNCHANGED <<conns, subKeys, subs, lock, oldSocket, countTasks>>

\* update_dom_version.
SetVersion(w, v) ==
  /\ domVersion' = IF status[w] = "unknown" THEN domVersion
                   ELSE [domVersion EXCEPT ![w] = v]
  /\ UNCHANGED <<conns, status, subKeys, subs, lock, oldSocket, countTasks>>

\* Mutant: the controller is never taken out of the sets it leaves.
MoveSubscriberOnlyAdding(k, leaving, joining) ==
  /\ subs' = [w \in Worker |-> IF w \in joining THEN subs[w] \cup {k} ELSE subs[w]]
  /\ subKeys' = subKeys \cup joining
  /\ countTasks' = countTasks \cup joining \cup (leaving \cap subKeys)
  /\ UNCHANGED <<conns, status, domVersion, lock, oldSocket>>

\* remove_subscriber for every worker of leaving, then add_subscriber for
\* every worker of joining; each schedules a count task.
MoveSubscriber(k, leaving, joining) ==
  /\ subs' = [w \in Worker |-> IF w \in joining THEN subs[w] \cup {k}
                               ELSE IF w \in leaving THEN subs[w] \ {k} ELSE subs[w]]
  /\ subKeys' = subKeys \cup joining
  /\ countTasks' = countTasks \cup joining \cup (leaving \cap subKeys)
  /\ UNCHANGED <<conns, status, domVersion, lock, oldSocket>>

\* Mutants: no count task; only the counts are refreshed.
DropSubscriberSilently(k) ==
  /\ subs' = [w \in Worker |-> subs[w] \ {k}]
  /\ UNCHANGED <<conns, status, domVersion, subKeys, lock, oldSocket, countTasks>>
DropSubscriberCountOnly(k) ==
  /\ countTasks' = countTasks \cup {w \in Worker : k \in subs[w]}
  /\ UNCHANGED <<conns, status, domVersion, subKeys, subs, lock, oldSocket>>

\* remove_subscriber_from_all.
DropSubscriber(k) ==
  /\ subs' = [w \in Worker |-> subs[w] \ {k}]
  /\ countTasks' = countTasks \cup {w \in Worker : k \in subs[w]}
  /\ UNCHANGED <<conns, status, domVersion, subKeys, lock, oldSocket>>

\* get_all_worker_statuses, the connected entries outside skip: a copy
\* that the callers iterate over while they await.
ConnectedStatuses(skip) ==
  {<<w, status[w]>> : w \in {x \in Worker \ skip : conns[x] # NoSocket /\ status[x] # "unknown"}}

\* What get_worker_state says of one worker to a new subscriber.
CurrentStatus(w) == IF status[w] = "unknown" THEN "disconnected" ELSE status[w]
=============================================================================
