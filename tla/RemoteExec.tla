----------------------------- MODULE RemoteExec -----------------------------
(***************************************************************************)
(* What demotool promises the user of its client: a request is asked, the    *)
(* server carries it out, and the client's exit code says so only if it did.  *)
(* DemoTool implements this specification.                                    *)
(***************************************************************************)
CONSTANT Users

VARIABLES
  asked,   \* the users whose request is on its way to the server
  done,    \* the users whose request the server has carried out
  told     \* told[u]: what the exit code says

remoteVars == <<asked, done, told>>

RemoteInit ==
  /\ asked = {} /\ done = {}
  /\ told = [u \in Users |-> "nothing"]

Ask(u) ==
  /\ u \notin asked /\ told[u] = "nothing"
  /\ asked' = asked \cup {u}
  /\ UNCHANGED <<done, told>>

\* Nothing is carried out that was not asked for, and nothing twice.
CarryOut(u) ==
  /\ u \in asked \ done
  /\ done' = done \cup {u}
  /\ UNCHANGED <<asked, told>>

\* A failure may be reported for what was done in the end, never a success
\* for what was not.
Tell(u, verdict) ==
  /\ told[u] = "nothing"
  /\ verdict = "done" => u \in done
  /\ told' = [told EXCEPT ![u] = verdict]
  /\ UNCHANGED <<asked, done>>

AskAgain(u) ==
  /\ told[u] # "nothing"
  /\ asked' = asked \ {u}
  /\ done' = done \ {u}
  /\ told' = [told EXCEPT ![u] = "nothing"]

RemoteNext ==
  \E u \in Users :
    \/ Ask(u) \/ CarryOut(u) \/ AskAgain(u)
    \/ Tell(u, "done") \/ Tell(u, "failed")

RemoteSpec == RemoteInit /\ [][RemoteNext]_remoteVars
=============================================================================
