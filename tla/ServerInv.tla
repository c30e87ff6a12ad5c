----------------------------- MODULE ServerInv ------------------------------
(***************************************************************************)
(* Why the safety properties of Server hold: what is allocated, which       *)
(* header is at hand and which socket is open at every point of the code.   *)
(* IInv and AnswersInv are inductive (ServerProof).                          *)
(***************************************************************************)
EXTENDS Server

\* What init() acquires.
Context(tag) == DoneReleases(tag) \ {"program"}

\* Points by what the code holds there besides the listening socket.
BareSession   == {"id", "command", "reject", "end"}
WithHeader    == {"hdr", "find", "init"}
WithContext   == {"ack", "exec", "adr.recv", "adf.recv", "adf.write", "adf.motor", "peek.send"}
WithTmpFile   == {"lsg.recv", "lsg.load"}
AfterExec     == {"answer", "close", "run", "done"}

LedgerInv ==
  /\ pc \in {"start", "stopped"} => held = {}
  /\ pc \in {"accept", "stop"} \cup BareSession => held = Listening
  /\ pc \in WithHeader => held = Listening \cup {"p_hdr"}
  /\ pc = "initfail" =>
       /\ Listening \cup {"p_hdr"} \subseteq held
       /\ held \subseteq Listening \cup {"p_hdr"} \cup DoneNullReleases(hdr.plugin)
  /\ pc \in WithContext =>
       held = Listening \cup {"p_hdr"} \cup Context(hdr.plugin)
  /\ pc \in WithTmpFile =>
       held = Listening \cup {"p_hdr", "fh", "tmpfile"} \cup Context(LSG0)
  /\ pc \in AfterExec =>
       /\ Listening \cup {"p_hdr"} \cup Context(hdr.plugin) \subseteq held
       /\ held \subseteq Listening \cup {"p_hdr"} \cup DoneReleases(hdr.plugin)

\* p_hdr is there from its receipt to its FreeVec(), and each plugin's loops
\* run for the plugin it names.
HeaderInv ==
  /\ pc \in {"find", "init", "initfail"} \cup WithContext \cup WithTmpFile \cup AfterExec
       => hdr \in Request
  /\ pc \in WithTmpFile => hdr.plugin = LSG0
  /\ pc = "adr.recv" => hdr.plugin = ADR0
  /\ pc \in {"adf.recv", "adf.write", "adf.motor"} => hdr.plugin = ADF0
  /\ pc = "peek.send" => hdr.plugin = PEEK

SocketInv ==
  /\ \A c \in Conns : cli[c] = "free" => srv[c] = "none"
  /\ \A c \in Conns : srv[c] = "open" => active = c
  /\ pc \in OnConnection => active \in Conns /\ srv[active] = "open"
  /\ pc = "end" /\ active # NoConn => srv[active] = "open"
  /\ pc \in {"run", "done"} => active = NoConn
  /\ pc \in {"start", "accept", "run", "done", "stop", "stopped"} =>
       \A c \in Conns : srv[c] # "open"

\* Where exec() may end with DT_ERR_OK, the program has arrived.
LoadedInv ==
  /\ pc \in {"answer", "close", "run"} /\ ret = OK =>
       /\ hdr.plugin = LSG0 => "program" \in held
       /\ hdr.plugin \in {ADR0, ADF0} => cnt >= hdr.size
  /\ pc = "run" => ret = OK /\ ~hdr.norun
  /\ pc = "adf.motor" /\ ret = OK => cnt >= hdr.size

\* Whatever is about to be answered is an error code.
AnswerInv ==
  pc \in {"initfail", "reject", "answer", "lsg.recv", "lsg.load", "adr.recv",
         "adf.recv", "adf.write", "adf.motor"} => ret \in Codes

IInv == TypeOK /\ LedgerInv /\ HeaderInv /\ SocketInv /\ LoadedInv /\ AnswerInv

-----------------------------------------------------------------------------
(* What each client has been told, and what it had sent by then. *)

\* Points by what has been told on the connection: nothing, or DT_ERR_OK (as
\* long as it is not reset, which drops what is told from then on).
Quiet   == {"id", "hdr", "command", "find", "init", "initfail", "ack", "reject"}
Working == {"exec", "lsg.recv", "lsg.load", "adr.recv", "adf.recv", "adf.write",
            "adf.motor", "answer"}

\* The header at hand is that of the client at the other end.
RequestInv ==
  /\ pc \in {"find", "init", "initfail", "close", "peek.send", "ack"} \cup Working =>
       hdr = req[active] /\ hdr.id = "HDR"
  /\ pc = "hdr" => req[active].id = "HDR"
  /\ pc = "command" => req[active].id # "HDR"
  /\ pc = "answer" => hdr.plugin # PEEK
  /\ pc \in {"reject", "initfail"} => ret # OK

\* What the plugin has counted has been read.
ReceivedInv ==
  /\ pc = "hdr" => rcvd[active] >= 1
  /\ pc \in {"find", "init", "ack", "exec"} => rcvd[active] >= 2
  /\ pc = "adr.recv" => rcvd[active] >= 2 + cnt
  /\ pc \in {"adf.recv", "adf.write", "adf.motor"} => rcvd[active] >= 2 + cnt + pos
  /\ pc = "adf.write" => pos >= TrackLen
  /\ pc = "answer" /\ hdr.plugin \in {ADR0, ADF0} /\ ret = OK =>
       rcvd[active] >= 2 + hdr.size

Acknowledged(c) == out[c] \in {<<>>, <<OK>>} /\ (~rst[c] => out[c] = <<OK>>)

Dumping(c) ==
  /\ cnt <= hdr.size
  /\ Len(out[c]) <= 1 + cnt /\ (~rst[c] => Len(out[c]) = 1 + cnt)
  /\ Len(out[c]) > 0 => out[c][1] = OK
  /\ \A i \in 2 .. Len(out[c]) : out[c][i] = DATA

\* The three promises of Server for one connection.
Answered(c) ==
  /\ Shaped(req[c], out[c])
  /\ ~rst[c] => Complete(req[c], out[c]) \/ Unanswered(req[c])
  /\ Uploaded(c) => rcvd[c] >= RequestLen(req[c])

ActiveTold ==
  /\ pc \in Quiet => out[active] = <<>>
  /\ pc \in Working => Acknowledged(active)
  /\ pc = "peek.send" => Dumping(active)
  /\ pc = "close" => Answered(active)
  /\ pc = "end" /\ active # NoConn => Answered(active)

RestTold ==
  /\ \A c \in Conns : srv[c] \in {"none", "queued"} => out[c] = <<>>
  /\ \A c \in Conns : srv[c] = "closed" => Answered(c)

\* The file of LSG0 has been read, unless the client stopped it half-way: then
\* recv() ends the loop with DT_ERR_OK, and nobody reads the answer.
FileRead(c) == rcvd[c] >= RequestLen(req[c]) \/ cli[c] = "closed"

\* DT_ERR_OK as the last answer of LSG0.
Started(c) ==
  /\ req[c].id = "HDR" /\ req[c].plugin = LSG0
  /\ Len(out[c]) = 2 /\ out[c][2] = OK

\* Nobody is answered who has not asked, and what LSG0 answers.
HeardInv ==
  /\ pc \in Quiet \ {"id"} => rcvd[active] >= 1
  /\ \A c \in Conns : Len(out[c]) > 0 => rcvd[c] >= 1
  /\ pc = "lsg.recv" => rcvd[active] >= 2 + cnt
  /\ pc = "lsg.load" /\ ret = OK => FileRead(active)
  /\ pc = "answer" /\ hdr.plugin = LSG0 /\ ret = OK => FileRead(active)
  /\ \A c \in Conns : Started(c) => FileRead(c)

AnswersInv ==
  IInv /\ RequestInv /\ ReceivedInv /\ ActiveTold /\ RestTold /\ HeardInv
=============================================================================
