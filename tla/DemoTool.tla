------------------------------ MODULE DemoTool ------------------------------
(***************************************************************************)
(* The whole of demotool: the server of Server with its plugins, and the     *)
(* clients of Client in the place of the open world Server assumes.           *)
(***************************************************************************)
EXTENDS Server, Client

sysVars == <<vars, cliVars>>

SysInit == Init /\ ClientInit

SysTypeOK == TypeOK /\ ClientTypeOK

\* The server's kernel completes a connect() while the listen queue has room.
CanConnect ==
  /\ "listen_sock" \in held
  /\ Cardinality({d \in Conns : srv[d] = "queued"}) < Backlog

ClientStep(c) ==
  \/ CanConnect /\ Connect(c)
  \/ ConnectFails(c) \/ ClientWorks(c) \/ Kill(c) \/ Again(c)

SysNext ==
  \/ (ServerStep \/ AcceptFails \/ Restart) /\ UNCHANGED cliVars
  \/ \E c \in Conns : ClientStep(c) /\ UNCHANGED srvVars
  \/ \E c \in Conns : Network(c) /\ UNCHANGED cliVars

SysSpec == SysInit /\ [][SysNext]_sysVars

\* Both programs are scheduled by their machines, and TCP repeats a reset
\* until it is heard.  Nobody owes the system another invocation of the
\* client, nor the server another start.
SysFairSpec ==
  /\ SysSpec
  /\ WF_sysVars(ServerStep /\ UNCHANGED cliVars)
  /\ \A c \in Conns : WF_sysVars(ClientWorks(c) /\ UNCHANGED srvVars)
  /\ \A c \in Conns : WF_sysVars(Network(c) /\ UNCHANGED cliVars)

-----------------------------------------------------------------------------
(* What keeps the client within what Server assumes of its peers. *)

\* How far the client is in the protocol: a connection starts with nothing
\* sent, the header goes out once and the payload only for an upload, of which
\* the file may have grown by a block but no more.
PaceInv ==
  \A c \in Conns :
    /\ cli[c] = "free" \/ cpc[c] = "open" => sent[c] = 0
    /\ cpc[c] = "header" => sent[c] < HandshakeLen(req[c])
    /\ cpc[c] \in {"header", "reply", "send"} /\ IsUpload(req[c]) =>
         flen[c] <= req[c].size + 1
    /\ cpc[c] = "send" => IsUpload(req[c])

-----------------------------------------------------------------------------
(* The promise to the user.  A request counts as carried out when the server *)
(* has answered it with DT_ERR_OK and has read everything it announced.       *)

FullAnswer(r) ==
  IF r.id # "HDR" THEN <<OK>>
  ELSE IF r.plugin = PEEK THEN <<OK>> \o [i \in 1..r.size |-> DATA]
  ELSE <<OK, OK>>

CarriedOut(c) == rcvd[c] >= RequestLen(req[c]) /\ out[c] = FullAnswer(req[c])

Promise == INSTANCE RemoteExec WITH
  Users <- Conns,
  asked <- {c \in Conns : cli[c] # "free"},
  done  <- {c \in Conns : cli[c] # "free" /\ CarriedOut(c)},
  told  <- [c \in Conns |->
              IF cpc[c] # "finished" THEN "nothing"
              ELSE IF result[c] = OK THEN "done" ELSE "failed"]

\* The client exits with 0 only if the server did what was asked for, and the
\* server does nothing unasked or twice.
KeepsPromise == Promise!RemoteSpec

-----------------------------------------------------------------------------

\* An error that the server sends on a connection that is not reset is the
\* one the client of an upload or a command exits with.
ErrorsSurface ==
  \A c \in Conns :
    LET o == out[c]
    IN  /\ cpc[c] = "finished" /\ ~rst[c] /\ Len(o) > 0
        /\ ~IsPeek(req[c]) /\ got[c] = Len(o) /\ o[Len(o)] # OK
        => result[c] \in {o[Len(o)], "killed"}

\* recv_safe() or the loop of the ADR0 plugin at the end of the stream of a
\* client that has left before all was sent, and has nothing unread that would
\* bring a reset: the one place the server never leaves.
Stuck ==
  /\ pc \in {"id", "hdr", "adr.recv"}
  /\ 0 \in RecvResults(active, 1)
  /\ got[active] = Len(out[active])

\* Every session comes to an end, and with it the turn of the next client,
\* whatever the client does: it may fail or be killed anywhere, answers may be
\* lost.  Only the end of the stream in Stuck is fatal.
SessionEndsBut ==
  pc \in Points \ {"start", "accept", "stopped"} ~> (pc \in {"accept", "stopped"} \/ Stuck)


\* A dump of memory that the server has sent completely comes to an end.
DumpEnds ==
  \A c \in Conns :
    (cpc[c] = "peek" /\ srv[c] = "closed" /\ ~rst[c]) ~> cpc[c] = "finished"
=============================================================================
