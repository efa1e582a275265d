------------------------------ MODULE Sessions ------------------------------
(***************************************************************************)
(* server/session.py, server/controller_manager.py and the loop of         *)
(* server/main.py that reaps idle sessions: the session table, its idle    *)
(* clock reduced to "idle longer than the timeout or not", and the list    *)
(* the reaper walks while it awaits.                                       *)
(***************************************************************************)
EXTENDS Endpoints

CONSTANTS
  Expiring,  \* controllers that may stay silent for SESSION_TIMEOUT_SECONDS;
             \* none when it is 0, which starts no reaper
  Auth       \* authorized_worker_ids of the token each controller uses

ASSUME SessionsAssumption ==
  /\ Expiring \subseteq CSocket
  /\ Auth \in [CSocket -> SUBSET Worker]

VARIABLES
  live,      \* keys of _sessions
  viewing,   \* subscribed_worker_ids of each session; {} where there is none
  idle,      \* sessions whose last_activity_at is older than the timeout
  reapList,  \* rest of the list get_expired_sessions returned
  reaping    \* the session the reaper is closing

sessionVars == <<live, viewing, idle, reapList, reaping>>

SessionTypeOK ==
  /\ live \subseteq CSocket
  /\ viewing \in [CSocket -> SUBSET Worker]
  /\ idle \subseteq live
  /\ reapList \subseteq CSocket
  /\ reaping \in CSocket \cup {NoSocket}

SessionInit ==
  /\ live = {}
  /\ viewing = [k \in CSocket |-> {}]
  /\ idle = {}
  /\ reapList = {}
  /\ reaping = NoSocket

\* is_authorized: no session, no access.
IsAuthorized(k, w) == k \in live /\ w \in Auth[k]

\* register_controller with the worker ids of the query string.
CreateSession(k, asked) ==
  /\ live' = live \cup {k}
  /\ viewing' = [viewing EXCEPT ![k] = asked \cap Auth[k]]
  /\ idle' = idle \ {k}
  /\ UNCHANGED <<reapList, reaping>>

\* What set_subscriptions returns: the previous set, {} without a session.
PreviousSubscriptions(k) == IF k \in live THEN viewing[k] ELSE {}

\* touch_session followed by set_subscriptions, which keeps only the
\* authorized ids.
SetSubscriptions(k, asked) ==
  /\ viewing' = IF k \in live THEN [viewing EXCEPT ![k] = asked \cap Auth[k]] ELSE viewing
  /\ idle' = idle \ {k}
  /\ UNCHANGED <<live, reapList, reaping>>

\* touch_session.
TouchSession(k) ==
  /\ idle' = idle \ {k}
  /\ UNCHANGED <<live, viewing, reapList, reaping>>

\* Mutant: the session outlives its connection.
DestroySessionNever(k) == UNCHANGED <<live, viewing, idle>>

\* unregister_controller, destroy_session.
DestroySession(k) ==
  /\ live' = live \ {k}
  /\ viewing' = [viewing EXCEPT ![k] = {}]
  /\ idle' = idle \ {k}

\* The timeout passes without a message.
GoIdle(k) ==
  /\ k \in (live \cap Expiring) \ idle
  /\ idle' = idle \cup {k}
  /\ UNCHANGED <<live, viewing, reapList, reaping>>

\* session_reaper_loop wakes up and lists the expired sessions.
ListExpired ==
  /\ reapList = {}
  /\ reaping = NoSocket
  /\ idle # {}
  /\ reapList' = idle
  /\ UNCHANGED <<live, viewing, idle, reaping>>

\* It takes the next of the list and awaits the SESSION_TIMEOUT send.
TakeExpired(k) ==
  /\ reaping = NoSocket
  /\ k \in reapList
  /\ reaping' = k
  /\ reapList' = reapList \ {k}
  /\ UNCHANGED <<live, viewing, idle>>

\* The finally clause, once send and close have returned or raised.
FinishReaping(k) ==
  /\ reaping = k
  /\ reaping' = NoSocket
  /\ DestroySession(k)
  /\ UNCHANGED reapList
=============================================================================
