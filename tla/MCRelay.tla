------------------------------ MODULE MCRelay ------------------------------
(***************************************************************************)
(* Instances of Relay: one worker id with several connections one after    *)
(* the other, or two workers with a connection each, and controllers that  *)
(* come, go and forget workers.                                            *)
(***************************************************************************)
EXTENDS Relay, TLC

MCIdOf == [c \in WSocket |-> CHOOSE w \in Worker : TRUE]
MCOwnIds == CHOOSE f \in [WSocket -> Worker] : \A c, d \in WSocket : f[c] = f[d] => c = d
MCAuth == [k \in CSocket |-> Worker]

\* Workers are interchangeable, each with its connections, and so are
\* controllers: every token covers the same workers.
MCSymmetry ==
  {p \in Permutations(Worker \cup WSocket) :
     \A c \in WSocket : p[c] \in WSocket /\ p[IdOf[c]] = IdOf[p[c]]}
  \cup Permutations(CSocket)

\* No action and no safety property reads what the controllers were told.
MCTables == <<managerVars, sessionVars, handlerVars, observers, told, lastVersion>>
=============================================================================
