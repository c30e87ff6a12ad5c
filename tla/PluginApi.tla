----------------------------- MODULE PluginApi ------------------------------
(***************************************************************************)
(* The state the server and its plugins share, and the interface between    *)
(* them (plugins/plugin_header.h).  A plugin sees the header, a context of  *)
(* its own, and two callbacks on the connection the server owns.  The four  *)
(* plugin modules add the init(), exec(), run() and done() of each.         *)
(***************************************************************************)
EXTENDS Tcp

CONSTANTS
  NoHdr,       \* p_hdr is not allocated
  BlockMax,    \* TMP_BUF_LEN, in tokens
  TrackLen,    \* TRACK_LEN of the ADF plugin, in tokens
  NumTracks    \* tracks of a disk (160 in the code)

ASSUME PluginAssumption ==
  /\ NoHdr \notin Request
  /\ BlockMax \in Nat \ {0}
  /\ TrackLen \in Nat \ {0}
  /\ NumTracks \in Nat \ {0}

VARIABLES
  pc,      \* where the server is
  active,  \* dt_cfg.active_socket
  hdr,     \* *p_hdr
  ret,     \* the local "ret" of the function being executed
  cnt,     \* the plugin's "cnt"
  pos,     \* the ADF plugin's "pos", within a track
  unit,    \* the drive trackdisk.device was opened for
  held     \* what the server and the plugin have allocated or opened

srvVars == <<pc, active, hdr, ret, cnt, pos, unit, held>>
vars == <<tcpVars, srvVars>>

Resources ==
  {"bsdsocket.library", "listen_sock",               \* start_server()
   "p_hdr",                                          \* loader_main()
   "p_ctx",                                          \* every plugin
   "dos.library", "fh", "tmpfile", "program",        \* loadseg
   "io_data", "p_port", "p_ioreq", "trackdisk"}      \* adf

Listening == {"bsdsocket.library", "listen_sock"}

Points ==
  {"start", "accept", "id", "hdr", "find", "command", "init", "initfail", "ack", "exec",
   "lsg.recv", "lsg.load", "adr.recv", "adf.recv", "adf.write", "adf.motor",
   "peek.send", "answer", "close", "run", "done", "reject", "end", "stop",
   "stopped"}

\* What "ret" can hold: a code to answer, what recv() returned is not kept,
\* a DT_CMD_*, or the indeterminate value of a variable never assigned.
Commands == {"DT_CMD_PLUGIN", "DT_CMD_QUIT", "DT_CMD_REBOOT"}
Results == Codes \cup Commands \cup {"DT_CMD_ERROR|DT_ERR_OPENLIBRARY", "uninitialised"}

SrvTypeOK ==
  /\ pc \in Points
  /\ active \in Conns \cup {NoConn}
  /\ hdr \in Request \cup {NoHdr}
  /\ ret \in Results
  /\ cnt \in Nat
  /\ pos \in Nat
  /\ unit \in {"df0", "named"}
  /\ held \in SUBSET Resources

-----------------------------------------------------------------------------
(* Steps the plugins are made of. *)

Plugin(tag) == hdr # NoHdr /\ hdr.plugin = tag

Goto(to) == pc' = to

\* init() succeeds, holding what it acquired ...
InitDone(acquired) ==
  /\ held' = held \cup acquired
  /\ Goto("ack")
  /\ UNCHANGED <<tcpVars, active, hdr, ret, cnt, pos>>

\* ... or sets g_errno and returns NULL, perhaps with something left open.
InitFails(error, acquired) ==
  /\ held' = held \cup acquired
  /\ ret' = error
  /\ Goto("initfail")
  /\ UNCHANGED <<tcpVars, active, hdr, cnt, pos>>

\* p_ctx->send(&ret, 4): the last step of exec() in the plugins that answer.
Answer ==
  /\ pc = "answer"
  /\ Emit(active, ret)
  /\ Goto("close")
  /\ UNCHANGED <<active, hdr, ret, cnt, pos, unit, held>>

\* run() returns; its result replaces "ret".
RunReturns(result) ==
  /\ ret' = result
  /\ Goto("done")
  /\ UNCHANGED <<tcpVars, active, hdr, cnt, pos, unit, held>>

\* What done(ctx) gives back.  With ctx = NULL only the loadseg plugin has
\* something to release: the library its global DOSBase keeps open.
LsgDone == {"program", "dos.library", "p_ctx"}
AdrDone == {"p_ctx"}
AdfDone == {"io_data", "trackdisk", "p_ioreq", "p_port", "p_ctx"}
PeekDone == {"p_ctx"}

DoneReleases(tag) ==
  IF tag = LSG0 THEN LsgDone ELSE IF tag = ADR0 THEN AdrDone
  ELSE IF tag = ADF0 THEN AdfDone ELSE PeekDone

\* Mutant: done(NULL) returns at once.
DoneNullReleasesNone(tag) == {}

DoneNullReleases(tag) == IF tag = LSG0 THEN {"dos.library"} ELSE {}
=============================================================================
