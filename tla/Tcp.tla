-------------------------------- MODULE Tcp ---------------------------------
(***************************************************************************)
(* The sockets between the client and the server, as the code uses them    *)
(* (external: bsdsocket.library on the Amiga, BSD sockets on the client's   *)
(* host).  Both streams of connection c are reliable and ordered; each is   *)
(* kept as what has been written so far and how much of it has been read.   *)
(* The kernel completes a connect() as soon as the listen queue has room,   *)
(* whether or not the server has called accept().                           *)
(***************************************************************************)
EXTENDS Protocol

CONSTANTS
  Conns,      \* the connections (one per client invocation)
  NoConn,     \* active_socket = -1
  Requests,   \* Requests[c]: what the client of connection c may ask for
  Backlog,    \* listen() backlog, cfg.backlog = 1
  Window      \* tokens a socket buffers in each direction

ASSUME TcpAssumption ==
  /\ NoConn \notin Conns
  /\ Requests \in [Conns -> (SUBSET Request) \ {{}}]
  /\ Backlog \in Nat \ {0}
  /\ Window \in Nat \ {0}

VARIABLES
  req,   \* req[c]: the request of the client at the other end of c
  sent,  \* sent[c]: tokens written by the client
  rcvd,  \* rcvd[c]: tokens read by the server
  out,   \* out[c]: tokens written by the server
  got,   \* got[c]: tokens read by the client
  cli,   \* cli[c]: the client's end
  srv,   \* srv[c]: the server's end
  rst    \* rst[c]: the connection was reset, undelivered tokens are lost

tcpVars == <<req, sent, rcvd, out, got, cli, srv, rst>>

TcpTypeOK ==
  /\ req \in [Conns -> Request]
  /\ sent \in [Conns -> Nat]
  /\ rcvd \in [Conns -> Nat]
  /\ out \in [Conns -> Seq(Tokens)]
  /\ got \in [Conns -> Nat]
  /\ cli \in [Conns -> {"free", "open", "closed"}]
  /\ srv \in [Conns -> {"none", "queued", "open", "closed"}]
  /\ rst \in [Conns -> BOOLEAN]

\* The request of a connection nobody has made is arbitrary.
Unmade(c) == CHOOSE r \in Requests[c] : TRUE

TcpInit ==
  /\ req = [c \in Conns |-> Unmade(c)]
  /\ sent = [c \in Conns |-> 0]
  /\ rcvd = [c \in Conns |-> 0]
  /\ out = [c \in Conns |-> <<>>]
  /\ got = [c \in Conns |-> 0]
  /\ cli = [c \in Conns |-> "free"]
  /\ srv = [c \in Conns |-> "none"]
  /\ rst = [c \in Conns |-> FALSE]

-----------------------------------------------------------------------------
(* The server's calls. *)

Unread(c) == sent[c] - rcvd[c]

\* recv() of at most m tokens: some prefix of what is buffered, 0 when the
\* client has closed its end, -1 (and nothing consumed) after a reset.  With
\* no result possible, recv() blocks.
RecvResults(c, m) ==
  {k \in 1..m : k <= Unread(c)}
    \cup (IF Unread(c) = 0 /\ cli[c] = "closed" /\ ~rst[c] THEN {0} ELSE {})
    \cup (IF rst[c] THEN {-1} ELSE {})

Consume(c, len) ==
  /\ rcvd' = IF len > 0 THEN [rcvd EXCEPT ![c] = @ + len] ELSE rcvd
  /\ UNCHANGED <<req, sent, out, got, cli, srv, rst>>

\* send() of one token; the stack drops it when the connection is reset, and
\* the code ignores the result of every response it sends.
Emit(c, token) ==
  /\ out' = IF rst[c] THEN out ELSE [out EXCEPT ![c] = Append(@, token)]
  /\ UNCHANGED <<req, sent, rcvd, got, cli, srv, rst>>

CloseServerEnd(c) ==
  /\ srv' = [srv EXCEPT ![c] = "closed"]
  /\ UNCHANGED <<req, sent, rcvd, out, got, cli, rst>>

-----------------------------------------------------------------------------
(* The network and the kernel. *)

\* A reset: one end went away while the other still had something to tell it
\* (input the server never read, output the client never read), or the client
\* was killed or lost its host.
Reset(c) ==
  /\ srv[c] # "none"
  /\ ~rst[c]
  /\ \/ srv[c] = "closed" /\ Unread(c) > 0
     \/ cli[c] = "closed" /\ got[c] < Len(out[c])
  /\ rst' = [rst EXCEPT ![c] = TRUE]
  /\ UNCHANGED <<req, sent, rcvd, out, got, cli, srv>>

-----------------------------------------------------------------------------
(* The client's calls. *)

\* connect(), completed by the server's kernel.
ConnectTo(c, r) ==
  /\ cli[c] = "free"
  /\ req' = [req EXCEPT ![c] = r]
  /\ cli' = [cli EXCEPT ![c] = "open"]
  /\ srv' = [srv EXCEPT ![c] = "queued"]
  /\ UNCHANGED <<sent, rcvd, out, got, rst>>

\* send() of one token, while the buffers between the ends have room.
ClientSend(c) ==
  /\ cli[c] = "open" /\ ~rst[c]
  /\ Unread(c) < Window
  /\ sent' = [sent EXCEPT ![c] = @ + 1]
  /\ UNCHANGED <<req, rcvd, out, got, cli, srv, rst>>

\* recv() of one token; what had arrived before a reset can still be read.
ClientRead(c) ==
  /\ cli[c] = "open"
  /\ got[c] < Len(out[c])
  /\ got' = [got EXCEPT ![c] = @ + 1]
  /\ UNCHANGED <<req, sent, rcvd, out, cli, srv, rst>>

ClientClose(c) ==
  /\ cli[c] = "open"
  /\ cli' = [cli EXCEPT ![c] = "closed"]
  /\ UNCHANGED <<req, sent, rcvd, out, got, srv, rst>>

\* Both ends are closed: the connection is forgotten, another can be made.
Forget(c) ==
  /\ cli[c] = "closed" /\ srv[c] = "closed"
  /\ sent' = [sent EXCEPT ![c] = 0]
  /\ rcvd' = [rcvd EXCEPT ![c] = 0]
  /\ out' = [out EXCEPT ![c] = <<>>]
  /\ got' = [got EXCEPT ![c] = 0]
  /\ cli' = [cli EXCEPT ![c] = "free"]
  /\ srv' = [srv EXCEPT ![c] = "none"]
  /\ rst' = [rst EXCEPT ![c] = FALSE]
  /\ req' = [req EXCEPT ![c] = Unmade(c)]
=============================================================================
