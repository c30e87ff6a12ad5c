------------------------------- MODULE Client -------------------------------
(***************************************************************************)
(* client/demotool.c: one invocation of the command line client on each     *)
(* connection.  main() connects, lets the command talk to the server, closes *)
(* the socket and exits with what the command returned.  lsg0() serves all   *)
(* commands that upload a file, peek() those that download.                  *)
(***************************************************************************)
EXTENDS Tcp

CONSTANTS
  Drift,      \* by how many blocks a file may change after its size was taken
  MayFail,    \* connections whose client's own files, memory or socket calls may fail
  MayCrash    \* connections whose client may be killed

\* What the command line can ask for.
ASSUME ClientAssumption ==
  /\ \A c \in Conns : \A r \in Requests[c] :
       r.id # "OTHER" /\ r.hdrVer = 0 /\ ~r.shortLen
  /\ Drift \subseteq {-1, 0, 1}
  /\ MayFail \subseteq Conns
  /\ MayCrash \subseteq Conns

VARIABLES
  cpc,     \* where the client is
  flen,    \* blocks that fread() will find in the file
  result   \* "ret" of main(), and the cause of the exit code

cliVars == <<cpc, flen, result>>

ClientPoints ==
  {"idle", "open", "header", "reply", "send", "sendfail", "ack", "peek",
   "closing", "finished"}

ClientErrors ==
  {OnClient(e) : e \in {"DT_ERR_CONNECT", "DT_ERR_CONNECT_TIMEOUT",
                        "DT_ERR_FCNTL", "DT_ERR_FILE_OPEN", "DT_ERR_FILE_IO",
                        "DT_ERR_SEND", "DT_ERR_RECV"}}

\* The bit DT_ERR_CLIENT makes an error of whatever it is added to.
ASSUME OnClientAssumption == OK \notin ClientErrors

ClientTypeOK ==
  /\ cpc \in [Conns -> ClientPoints]
  /\ flen \in [Conns -> 0..(MaxSize + 1)]
  /\ result \in [Conns -> Tokens \cup ClientErrors \cup {"none", "crashed", "killed"}]

ClientInit ==
  /\ cpc = [c \in Conns |-> "idle"]
  /\ flen = [c \in Conns |-> 0]
  /\ result = [c \in Conns |-> "none"]

IsUpload(r) == r.id = "HDR" /\ r.plugin # PEEK
IsPeek(r) == r.id = "HDR" /\ r.plugin = PEEK

\* Tokens before the reply: a command, or the two parts of a header.
HandshakeLen(r) == IF r.id = "HDR" THEN 2 ELSE 1

CGoto(c, to) == cpc' = [cpc EXCEPT ![c] = to]

\* The command is over; main() has still to close the socket.
Return(c, res) ==
  /\ result' = [result EXCEPT ![c] = res]
  /\ CGoto(c, "closing")
  /\ UNCHANGED flen

\* The same for a failure on the client's own side.
Fails(c, res) == c \in MayFail /\ Return(c, res)

-----------------------------------------------------------------------------
(* open_connection() *)

Connect(c) ==
  /\ cpc[c] = "idle"
  /\ \E r \in Requests[c] : ConnectTo(c, r)
  /\ CGoto(c, "open")
  /\ UNCHANGED <<flen, result>>

\* No connection: refused or otherwise failed, or none within five seconds.
ConnectFails(c) ==
  /\ cpc[c] = "idle"
  /\ \E e \in {"DT_ERR_CONNECT", "DT_ERR_CONNECT_TIMEOUT"} :
       result' = [result EXCEPT ![c] = OnClient(e)]
  /\ CGoto(c, "finished")
  /\ UNCHANGED <<tcpVars, flen>>

\* The way back to blocking mode fails on a connection already made.
SetupFails(c) ==
  /\ cpc[c] = "open"
  /\ Fails(c, OnClient("DT_ERR_FCNTL"))
  /\ UNCHANGED tcpVars

-----------------------------------------------------------------------------
(* get_file_read_size() or fopen(), and prepare_header() *)

\* lsg0() closes an uninitialised FILE* when the file cannot be opened, which
\* may or may not survive.  A failed malloc() is reported without the bit that
\* marks an error of the client.
Prepare(c) ==
  /\ cpc[c] = "open"
  /\ LET r == req[c]
     IN  \/ /\ IsUpload(r)
            /\ \E d \in Drift :
                 r.size + d >= 0 /\ flen' = [flen EXCEPT ![c] = r.size + d]
            /\ CGoto(c, "header")
            /\ UNCHANGED result
         \/ /\ ~IsUpload(r)
            /\ CGoto(c, "header")
            /\ UNCHANGED <<flen, result>>
         \/ /\ IsUpload(r)
            /\ \E res \in {OnClient("DT_ERR_FILE_OPEN"),
                           OnClient("DT_ERR_FILE_IO"), "crashed"} : Fails(c, res)
         \/ IsPeek(r) /\ Fails(c, OnClient("DT_ERR_FILE_OPEN"))
         \/ r.id = "HDR" /\ Fails(c, "DT_ERR_MALLOC")
  /\ UNCHANGED tcpVars

-----------------------------------------------------------------------------
(* handshake(), quit_remote(), reboot_remote() *)

\* Mutant: one token too many.
SendHeaderLong(c) ==
  /\ cpc[c] = "header"
  /\ ClientSend(c)
  /\ CGoto(c, IF sent[c] = HandshakeLen(req[c]) THEN "reply" ELSE "header")
  /\ UNCHANGED <<flen, result>>

SendHeader(c) ==
  /\ cpc[c] = "header"
  /\ ClientSend(c)
  /\ CGoto(c, IF sent[c] + 1 = HandshakeLen(req[c]) THEN "reply" ELSE "header")
  /\ UNCHANGED <<flen, result>>

HandshakeFails(c) ==
  /\ cpc[c] \in {"header", "reply"}
  /\ rst[c]
  /\ Return(c, OnClient(IF cpc[c] = "header" THEN "DT_ERR_SEND" ELSE "DT_ERR_RECV"))
  /\ UNCHANGED tcpVars

NextToken(c) == out[c][got[c] + 1]

\* peek() takes only a reply with the DT_ERR_CLIENT bit for an error: with any
\* other it goes on to read, keeping the error in "ret".
ReadReply(c) ==
  /\ cpc[c] = "reply"
  /\ ClientRead(c)
  /\ LET r == req[c]  v == NextToken(c)
     IN  \/ /\ IsUpload(r) /\ v = OK
            /\ CGoto(c, "send")
            /\ UNCHANGED <<flen, result>>
         \/ /\ IsPeek(r) /\ v # MinusTwo
            /\ CGoto(c, "peek")
            /\ result' = [result EXCEPT ![c] = v]
            /\ UNCHANGED flen
         \/ /\ IF IsUpload(r) THEN v # OK ELSE IsPeek(r) => v = MinusTwo
            /\ Return(c, v)

-----------------------------------------------------------------------------
(* lsg0(): the file goes out as far as fread() finds it *)

\* Mutant: off by one at the end of the file.
InFileOneMore(c) == sent[c] - 2 <= flen[c]

InFile(c) == sent[c] - 2 < flen[c]

SendBlock(c) ==
  /\ cpc[c] = "send" /\ InFile(c)
  /\ ClientSend(c)
  /\ UNCHANGED cliVars

\* Mutant: the last acknowledgement is not waited for.
ReadEndsNoAck(c) ==
  /\ cpc[c] = "send" /\ ~InFile(c)
  /\ Return(c, OK)
  /\ UNCHANGED tcpVars

ReadEnds(c) ==
  /\ cpc[c] = "send"
  /\ \/ /\ ~InFile(c)
        /\ CGoto(c, "ack")
        /\ UNCHANGED <<flen, result>>
     \/ Fails(c, OnClient("DT_ERR_FILE_IO"))
  /\ UNCHANGED tcpVars

SendBlockFails(c) ==
  /\ cpc[c] = "send" /\ InFile(c)
  /\ rst[c]
  /\ CGoto(c, "sendfail")
  /\ UNCHANGED <<tcpVars, flen, result>>

\* Mutant: the acknowledgement is read and ignored.
ReadAckIgnored(c) ==
  /\ cpc[c] \in {"sendfail", "ack"}
  /\ ClientRead(c) /\ Return(c, OK)

\* The acknowledgement, or after a failed send() the reason for it.
ReadAck(c) ==
  /\ cpc[c] \in {"sendfail", "ack"}
  /\ \/ ClientRead(c) /\ Return(c, NextToken(c))
     \/ /\ rst[c]
        /\ Return(c, OnClient(IF cpc[c] = "ack" THEN "DT_ERR_RECV" ELSE "DT_ERR_SEND"))
        /\ UNCHANGED tcpVars

-----------------------------------------------------------------------------
(* peek(): blocks are read and written to the file; only an error ends it *)

PeekRead(c) ==
  /\ cpc[c] = "peek"
  /\ \/ /\ ClientRead(c)
        /\ \/ UNCHANGED cliVars
           \/ Fails(c, OnClient("DT_ERR_FILE_IO"))
     \/ /\ rst[c]
        /\ Return(c, "DT_ERR_RECV")
        /\ UNCHANGED tcpVars

-----------------------------------------------------------------------------

\* recv_safe() never returns at the end of the stream.  After a failed send()
\* has reported the reset, recv() may find nothing but the end of the stream.
AtEnd(c) ==
  /\ got[c] = Len(out[c])
  /\ \/ srv[c] = "closed" /\ ~rst[c] /\ cpc[c] \in {"reply", "ack", "peek"}
     \/ cpc[c] = "sendfail"

ClientSpins(c) == AtEnd(c) /\ UNCHANGED <<tcpVars, cliVars>>

CloseSock(c) ==
  /\ cpc[c] = "closing"
  /\ ClientClose(c)
  /\ CGoto(c, "finished")
  /\ UNCHANGED <<flen, result>>

\* Killed, by a signal or with its host: the kernel closes the socket.
Kill(c) ==
  /\ c \in MayCrash
  /\ cpc[c] \notin {"idle", "closing", "finished"}
  /\ ClientClose(c)
  /\ CGoto(c, "finished")
  /\ result' = [result EXCEPT ![c] = "killed"]
  /\ UNCHANGED flen

\* The user calls the client again.
Again(c) ==
  /\ cpc[c] = "finished"
  /\ IF cli[c] = "free" THEN UNCHANGED tcpVars ELSE Forget(c)
  /\ CGoto(c, "idle")
  /\ flen' = [flen EXCEPT ![c] = 0]
  /\ result' = [result EXCEPT ![c] = "none"]

\* Everything a connected client does, but being killed.
ClientWorks(c) ==
  \/ SetupFails(c) \/ Prepare(c) \/ SendHeader(c) \/ HandshakeFails(c)
  \/ ReadReply(c) \/ SendBlock(c) \/ ReadEnds(c) \/ SendBlockFails(c)
  \/ ReadAck(c) \/ PeekRead(c) \/ ClientSpins(c) \/ CloseSock(c)
=============================================================================
