------------------------------- MODULE Server -------------------------------
(***************************************************************************)
(* server/demotool.c: the loop of start_server() and one session of         *)
(* loader_main(), with the four plugins, against clients that may send any  *)
(* part of a request, go away at any point, or be replaced by another one.  *)
(***************************************************************************)
EXTENDS LoadsegPlugin, AddrPlugin, AdfPlugin, PeekPlugin, PluginTable,
        FiniteSets

CONSTANT Loaded   \* the plugin list given to start_server()

ASSUME ServerAssumption == Loaded \in Seq([tag : PluginTags, version : Nat])

TypeOK == TcpTypeOK /\ SrvTypeOK

Init ==
  /\ TcpInit
  /\ pc = "start"
  /\ active = NoConn
  /\ hdr = NoHdr
  /\ ret = "uninitialised"
  /\ cnt = 0 /\ pos = 0 /\ unit = "df0"
  /\ held = {}

-----------------------------------------------------------------------------
(* start_server() *)

\* OpenLibrary(), init_with_open().  When the latter fails "ret" is returned
\* without ever having been assigned.
StartServer ==
  /\ pc = "start"
  /\ \/ /\ ret' = "DT_CMD_ERROR|DT_ERR_OPENLIBRARY"
        /\ Goto("stopped")
        /\ UNCHANGED held
     \/ /\ Goto("stopped")
        /\ UNCHANGED <<ret, held>>
     \/ /\ held' = held \cup Listening
        /\ Goto("accept")
        /\ UNCHANGED ret
  /\ UNCHANGED <<tcpVars, active, hdr, cnt, pos, unit>>

Accept(c) ==
  /\ pc = "accept"
  /\ srv[c] = "queued"
  /\ srv' = [srv EXCEPT ![c] = "open"]
  /\ active' = c
  /\ Goto("id")
  /\ UNCHANGED <<req, sent, rcvd, out, got, cli, rst, hdr, ret, cnt, pos, unit, held>>

\* accept() returns -1: the loop ends and with it the server.
AcceptFails ==
  /\ pc = "accept"
  /\ Goto("stop")
  /\ UNCHANGED <<tcpVars, active, hdr, ret, cnt, pos, unit, held>>

\* Back from loader_main().  close_connection() has set active_socket to -1
\* when a plugin was executed; otherwise the socket is closed here, and
\* active_socket keeps its number.
EndSession ==
  /\ pc = "end"
  /\ IF active = NoConn THEN UNCHANGED tcpVars ELSE CloseServerEnd(active)
  /\ pc' = IF ret = "DT_CMD_PLUGIN" THEN "accept" ELSE "stop"
  /\ UNCHANGED <<active, hdr, ret, cnt, pos, unit, held>>

\* CloseSocket(listen_sock): the kernel resets the connections still queued.
StopServer ==
  /\ pc = "stop"
  /\ srv' = [c \in Conns |-> IF srv[c] = "queued" THEN "closed" ELSE srv[c]]
  /\ rst' = [c \in Conns |-> rst[c] \/ srv[c] = "queued"]
  /\ held' = held \ Listening
  /\ Goto("stopped")
  /\ UNCHANGED <<req, sent, rcvd, out, got, cli, active, hdr, ret, cnt, pos, unit>>

\* The operator starts the server again; AmigaOS has reclaimed nothing that
\* the last process left open, unless the machine was rebooted.
Restart ==
  /\ pc = "stopped"
  /\ Goto("start")
  /\ ret' = "uninitialised"
  /\ active' = NoConn
  /\ held' = IF ret = "DT_CMD_REBOOT" THEN {} ELSE held
  /\ UNCHANGED <<tcpVars, hdr, cnt, pos, unit>>

-----------------------------------------------------------------------------
(* loader_main() *)

\* recv_safe() keeps asking until it has everything: a recv() of 0 at the end
\* of the stream is added to the total and asked again, for ever.
RecvSafe(c) == RecvResults(c, 1) \ {0}

RecvSpins ==
  /\ pc \in {"id", "hdr"}
  /\ 0 \in RecvResults(active, 1)
  /\ UNCHANGED vars

\* The verdict on the first four bytes of a request.
IdError(r) ==
  IF r.id = "OTHER" THEN "DT_ERR_HDR_TAG"
  ELSE IF r.hdrVer # 0 THEN MinusTwo
  ELSE IF r.shortLen THEN "DT_ERR_HDR_LEN"
  ELSE OK

\* AllocVec() of the header is the last thing that happens to a good id.
ReadId ==
  /\ pc = "id"
  /\ \E len \in RecvSafe(active) :
       /\ Consume(active, len)
       /\ \/ /\ len < 0
             /\ ret' = "DT_CMD_PLUGIN"
             /\ Goto("end")
             /\ UNCHANGED held
          \/ /\ len = 1 /\ req[active].id \in {"QUIT", "RBOT"}
             /\ ret' = IF req[active].id = "QUIT" THEN "DT_CMD_QUIT" ELSE "DT_CMD_REBOOT"
             /\ Goto("command")
             /\ UNCHANGED held
          \/ /\ len = 1 /\ req[active].id \notin {"QUIT", "RBOT"}
             /\ \/ /\ IdError(req[active]) # OK
                   /\ ret' = IdError(req[active])
                   /\ Goto("reject")
                   /\ UNCHANGED held
                \/ /\ IdError(req[active]) = OK
                   /\ ret' = "DT_ERR_MALLOC"
                   /\ Goto("reject")
                   /\ UNCHANGED held
                \/ /\ IdError(req[active]) = OK
                   /\ held' = held \cup {"p_hdr"}
                   /\ Goto("hdr")
                   /\ UNCHANGED ret
  /\ UNCHANGED <<active, hdr, cnt, pos, unit>>

\* DT_HDR_TAG_CMD_QUIT and DT_HDR_TAG_CMD_REBOOT are answered and returned.
Command ==
  /\ pc = "command"
  /\ Emit(active, OK)
  /\ Goto("end")
  /\ UNCHANGED <<active, hdr, ret, cnt, pos, unit, held>>

\* Every early return: send_response(error), DT_CMD_PLUGIN.
Reject ==
  /\ pc = "reject"
  /\ Emit(active, ret)
  /\ ret' = "DT_CMD_PLUGIN"
  /\ Goto("end")
  /\ UNCHANGED <<active, hdr, cnt, pos, unit, held>>

ReadHeader ==
  /\ pc = "hdr"
  /\ \E len \in RecvSafe(active) :
       /\ Consume(active, len)
       /\ \/ /\ len = 1
             /\ hdr' = req[active]
             /\ Goto("find")
             /\ UNCHANGED <<ret, held>>
          \/ /\ len < 0
             /\ held' = held \ {"p_hdr"}
             /\ ret' = "DT_ERR_RECV"
             /\ Goto("reject")
             /\ UNCHANGED hdr
  /\ UNCHANGED <<active, cnt, pos, unit>>

SelectPlugin ==
  /\ pc = "find"
  /\ \/ /\ HasPlugin(Loaded, hdr.plugin, hdr.version, hdr.exact)
        /\ Goto("init")
        /\ UNCHANGED <<hdr, ret, held>>
     \/ /\ ~HasPlugin(Loaded, hdr.plugin, hdr.version, hdr.exact)
        /\ hdr' = NoHdr
        /\ held' = held \ {"p_hdr"}
        /\ ret' = "DT_ERR_NO_PLUGIN"
        /\ Goto("reject")
  /\ UNCHANGED <<tcpVars, active, cnt, pos, unit>>

\* Mutant: the client is not told.
InitFailedSilent ==
  /\ pc = "initfail"
  /\ held' = held \ (DoneNullReleases(hdr.plugin) \cup {"p_hdr"})
  /\ hdr' = NoHdr
  /\ ret' = "DT_CMD_PLUGIN"
  /\ Goto("end")
  /\ UNCHANGED <<tcpVars, active, cnt, pos, unit>>

\* errno(NULL), done(NULL) and FreeVec(p_hdr) after init() returned NULL.
InitFailed ==
  /\ pc = "initfail"
  /\ held' = held \ (DoneNullReleases(hdr.plugin) \cup {"p_hdr"})
  /\ hdr' = NoHdr
  /\ Goto("reject")
  /\ UNCHANGED <<tcpVars, active, ret, cnt, pos, unit>>

\* "ACK OK to the client and move to plugin phase."
Acknowledge ==
  /\ pc = "ack"
  /\ Emit(active, OK)
  /\ Goto("exec")
  /\ UNCHANGED <<active, hdr, ret, cnt, pos, unit, held>>

\* Mutant: active_socket keeps the number of the closed socket.
CloseConnectionStale ==
  /\ pc = "close"
  /\ CloseServerEnd(active)
  /\ pc' = IF ~hdr.norun /\ ret = OK THEN "run" ELSE "done"
  /\ UNCHANGED <<active, hdr, ret, cnt, pos, unit, held>>

\* After exec(): the connection is closed before the program may run.
CloseConnection ==
  /\ pc = "close"
  /\ CloseServerEnd(active)
  /\ active' = NoConn
  /\ pc' = IF ~hdr.norun /\ ret = OK THEN "run" ELSE "done"
  /\ UNCHANGED <<hdr, ret, cnt, pos, unit, held>>

\* done() succeeds in every plugin, whatever exec() and run() returned.  With
\* the context the plugin's variables are gone.
Done ==
  /\ pc = "done"
  /\ held' = held \ (DoneReleases(hdr.plugin) \cup {"p_hdr"})
  /\ ret' = IF hdr.reboot THEN "DT_CMD_REBOOT" ELSE "DT_CMD_PLUGIN"
  /\ hdr' = NoHdr
  /\ cnt' = 0 /\ pos' = 0 /\ unit' = "df0"
  /\ Goto("end")
  /\ UNCHANGED <<tcpVars, active>>

Plugins == LsgNext \/ AdrNext \/ AdfNext \/ PeekNext \/ Answer

Loader ==
  \/ ReadId \/ Command \/ Reject \/ ReadHeader \/ SelectPlugin \/ InitFailed
  \/ Acknowledge \/ CloseConnection \/ Done \/ RecvSpins

ServerStep ==
  \/ StartServer \/ (\E c \in Conns : Accept(c)) \/ EndSession \/ StopServer
  \/ Loader \/ Plugins

-----------------------------------------------------------------------------
(* The clients, as far as the server can tell. *)

\* A file may have grown by one block since its size went into the header.
PeerLimit(r) == RequestLen(r) + 1

Connected(c, r) ==
  /\ "listen_sock" \in held
  /\ Cardinality({d \in Conns : srv[d] = "queued"}) < Backlog
  /\ ConnectTo(c, r)

Peer(c) ==
  /\ \/ \E r \in Requests[c] : Connected(c, r)
     \/ sent[c] < PeerLimit(req[c]) /\ ClientSend(c)
     \/ ClientRead(c)
     \/ ClientClose(c)
     \/ Forget(c)
  /\ UNCHANGED srvVars

Network(c) == Reset(c) /\ UNCHANGED srvVars

Next ==
  \/ ServerStep
  \/ AcceptFails
  \/ Restart
  \/ \E c \in Conns : Peer(c) \/ Network(c)

Spec == Init /\ [][Next]_vars

-----------------------------------------------------------------------------
(* Safety *)

\* The points at which loader_main() works on an open connection.
OnConnection ==
  Points \ {"start", "accept", "run", "done", "end", "stop", "stopped"}

\* Between two clients the server holds its listening socket and nothing of
\* any session, however the last one ended; a server that has stopped holds
\* nothing at all.  AmigaOS reclaims nothing, so whatever one of the error
\* paths of loader_main() and the plugins forgot would be lost for good.
NothingLeaks ==
  /\ pc = "accept" => held = Listening
  /\ pc \in {"stop", "stopped"} => held \subseteq Listening
  /\ pc \in {"start", "stopped"} => held = {}

\* Every accepted socket is closed exactly once and before the next accept():
\* the only open one is active_socket, it is open as long as the header, a
\* plugin or an answer still needs it, and start_server() never closes the
\* stale number that loader_main() left in active_socket.
SocketsAccounted ==
  /\ \A c \in Conns : srv[c] = "open" => active = c
  /\ pc \in OnConnection => active # NoConn /\ srv[active] = "open"
  /\ pc = "end" /\ active # NoConn => srv[active] = "open"
  /\ pc \in {"start", "accept", "run", "done", "stop", "stopped"} =>
       \A c \in Conns : srv[c] # "open"

\* A program is run only after an exec() that reported success, when LoadSeg()
\* took the file or every announced byte of it came, and with the socket
\* already closed under it: the header's NO_RUN, exec()'s result and what
\* exec() left behind all decide.
RunsOnlyLoaded ==
  pc = "run" =>
    /\ ret = OK /\ ~hdr.norun /\ active = NoConn
    /\ hdr.plugin = LSG0 => "program" \in held
    /\ hdr.plugin \in {ADR0, ADF0} => cnt >= hdr.size

\* One error or the answer to a command, or DT_ERR_OK and then what the
\* plugin's protocol promises: an answer from LSG0, ADR0 and ADF0, at most
\* "size" blocks from PEEK.
Shaped(r, o) ==
  \/ Len(o) <= 1
  \/ /\ o[1] = OK /\ r.id = "HDR"
     /\ IF r.plugin = PEEK
        THEN Len(o) <= 1 + r.size /\ \A i \in 2..Len(o) : o[i] = DATA
        ELSE Len(o) = 2 /\ o[2] \in Codes

\* All that the protocol answers to a request has been answered.
Complete(r, o) ==
  /\ Len(o) > 0
  /\ o[1] = OK /\ r.id = "HDR" =>
       Len(o) = IF r.plugin = PEEK THEN 1 + r.size ELSE 2

\* What a client is told on its connection has the shape of the protocol.
ProtocolShape == \A c \in Conns : Shaped(req[c], out[c])

\* The one way out of the loadseg plugin that has no answer
\* (loadseg_plugin.c:180): a device name that leaves no room for the temporary
\* file's name.
Unanswered(r) == r.id = "HDR" /\ r.plugin = LSG0 /\ r.dev = "long"

\* The server never hangs up on a client without having told it how it went
\* (as long as the connection carries the answer): errors before exec() are
\* answered by loader_main(), later ones by the plugin.
NoSilentCloseBut ==
  \A c \in Conns :
    srv[c] = "closed" /\ ~rst[c] => Complete(req[c], out[c]) \/ Unanswered(req[c])

\* DT_ERR_OK as the last answer of ADR0 or ADF0.
Uploaded(c) ==
  /\ req[c].id = "HDR" /\ req[c].plugin \in {ADR0, ADF0}
  /\ Len(out[c]) = 2 /\ out[c][2] = OK

\* A client that reads DT_ERR_OK as the last answer of ADR0 or ADF0 knows
\* that every byte it announced has reached memory or the disk.
OkMeansReceived ==
  \A c \in Conns : Uploaded(c) => rcvd[c] >= RequestLen(req[c])

\* The disk that --device names is the one that is written.
WritesNamedDrive ==
  pc = "adf.write" /\ hdr.dev # "none" => unit = "named"
=============================================================================
