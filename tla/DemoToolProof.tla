--------------------------- MODULE DemoToolProof ----------------------------
(***************************************************************************)
(* The client of client/demotool.c is one of the peers that Server reckons   *)
(* with: every behaviour of DemoTool is one of Server, and what ServerProof   *)
(* proves of the server holds of the whole system.  What the client has been   *)
(* told on top of that, it reports.                                           *)
(***************************************************************************)
EXTENDS DemoTool, ServerProof

-----------------------------------------------------------------------------
(* The server touches neither the request of a client nor what it has sent  *)
(* and read, and takes back nothing it has answered.                         *)

OnlyAnswers ==
  /\ UNCHANGED <<req, sent, cli, got>>
  /\ \/ UNCHANGED out
     \/ \E c, t : out' = [out EXCEPT ![c] = Append(@, t)]

LEMMA LoaderKeeps == ASSUME Loader PROVE OnlyAnswers
<1> USE DEF OnlyAnswers
<1>1. CASE ReadId BY <1>1 DEF ReadId, Consume
<1>2. CASE Command BY <1>2 DEF Command, Emit
<1>3. CASE Reject BY <1>3 DEF Reject, Emit
<1>4. CASE ReadHeader BY <1>4 DEF ReadHeader, Consume
<1>5. CASE SelectPlugin BY <1>5 DEF SelectPlugin, tcpVars
<1>6. CASE InitFailed BY <1>6 DEF InitFailed, tcpVars
<1>7. CASE Acknowledge BY <1>7 DEF Acknowledge, Emit
<1>8. CASE CloseConnection BY <1>8 DEF CloseConnection, CloseServerEnd
<1>9. CASE Done BY <1>9 DEF Done, tcpVars
<1>10. CASE RecvSpins BY <1>10 DEF RecvSpins, vars, tcpVars
<1>11. QED
  BY <1>1, <1>2, <1>3, <1>4, <1>5, <1>6, <1>7, <1>8, <1>9, <1>10 DEF Loader

LEMMA UploadPluginsKeep ==
  ASSUME LsgNext \/ AdrNext \/ AdfNext
  PROVE  OnlyAnswers
<1> USE DEF OnlyAnswers, InitDone, InitFails, RunReturns, tcpVars
<1>1. CASE LsgInit BY <1>1 DEF LsgInit
<1>2. CASE LsgExec BY <1>2 DEF LsgExec
<1>3. CASE LsgRecv BY <1>3 DEF LsgRecv, Consume
<1>4. CASE LsgRecvEnds BY <1>4 DEF LsgRecvEnds
<1>5. CASE LsgLoad BY <1>5 DEF LsgLoad
<1>6. CASE LsgRun BY <1>6 DEF LsgRun
<1>7. CASE AdrInit BY <1>7 DEF AdrInit
<1>8. CASE AdrExec BY <1>8 DEF AdrExec
<1>9. CASE AdrRecv BY <1>9 DEF AdrRecv, Consume
<1>10. CASE AdrRecvEnds BY <1>10 DEF AdrRecvEnds
<1>11. CASE AdrRun BY <1>11 DEF AdrRun
<1>12. CASE AdfInit BY <1>12 DEF AdfInit
<1>13. CASE AdfExec BY <1>13 DEF AdfExec
<1>14. CASE AdfRecv BY <1>14 DEF AdfRecv, Consume
<1>15. CASE AdfWrite BY <1>15 DEF AdfWrite
<1>16. CASE AdfMotor BY <1>16 DEF AdfMotor
<1>17. CASE AdfRun BY <1>17 DEF AdfRun
<1>18. QED
  BY <1>1, <1>2, <1>3, <1>4, <1>5, <1>6, <1>7, <1>8, <1>9, <1>10, <1>11,
     <1>12, <1>13, <1>14, <1>15, <1>16, <1>17 DEF LsgNext, AdrNext, AdfNext

LEMMA PeekKeeps == ASSUME PeekNext \/ Answer PROVE OnlyAnswers
<1> USE DEF OnlyAnswers, InitDone, InitFails, RunReturns, tcpVars
<1>1. CASE PeekInit BY <1>1 DEF PeekInit
<1>2. CASE PeekExec BY <1>2 DEF PeekExec
<1>3. CASE PeekSend BY <1>3 DEF PeekSend, Emit
<1>4. CASE PeekEnds BY <1>4 DEF PeekEnds
<1>5. CASE PeekRun BY <1>5 DEF PeekRun
<1>6. CASE Answer BY <1>6 DEF Answer, Emit
<1>7. QED BY <1>1, <1>2, <1>3, <1>4, <1>5, <1>6 DEF PeekNext

LEMMA ServerKeeps ==
  ASSUME ServerStep \/ AcceptFails \/ Restart
  PROVE  OnlyAnswers
<1> USE DEF OnlyAnswers
<1>1. CASE StartServer BY <1>1 DEF StartServer, tcpVars
<1>2. ASSUME NEW c \in Conns, Accept(c) PROVE OnlyAnswers
  BY <1>2 DEF Accept
<1>3. CASE EndSession BY <1>3 DEF EndSession, CloseServerEnd, tcpVars
<1>4. CASE StopServer BY <1>4 DEF StopServer
<1>5. CASE Loader BY <1>5, LoaderKeeps
<1>6. CASE Plugins BY <1>6, UploadPluginsKeep, PeekKeeps DEF Plugins
<1>7. CASE AcceptFails BY <1>7 DEF AcceptFails, tcpVars
<1>8. CASE Restart BY <1>8 DEF Restart, tcpVars
<1>9. QED
  BY <1>1, <1>2, <1>3, <1>4, <1>5, <1>6, <1>7, <1>8 DEF ServerStep

-----------------------------------------------------------------------------
(* The client keeps its pace. *)

SysInv == IInv /\ ClientTypeOK /\ PaceInv

\* Facts about the connection of a client that the cases below share.
LEMMA RequestFacts ==
  ASSUME SysInv, NEW c \in Conns
  PROVE  /\ req[c] \in Request
         /\ req[c].size \in 0..MaxSize
         /\ sent[c] \in Nat /\ flen[c] \in Int
         /\ HandshakeLen(req[c]) \in {1, 2}
         /\ RequestLen(req[c]) \in Nat
         /\ HandshakeLen(req[c]) <= RequestLen(req[c])
         /\ IsUpload(req[c]) => RequestLen(req[c]) = 2 + req[c].size
<1>1. req[c] \in Request /\ sent[c] \in Nat /\ flen[c] \in Int
  BY ProtocolAssumption DEF SysInv, IInv, TypeOK, TcpTypeOK, ClientTypeOK
<1>2. req[c].size \in 0..MaxSize
  BY <1>1 DEF Request
<1>3. req[c].size \in Nat
  BY <1>2, ProtocolAssumption
<1>4. HandshakeLen(req[c]) \in {1, 2}
  BY DEF HandshakeLen
<1>5. RequestLen(req[c]) \in Nat /\ HandshakeLen(req[c]) <= RequestLen(req[c])
  BY <1>3 DEF HandshakeLen, RequestLen
<1>6. IsUpload(req[c]) => RequestLen(req[c]) = 2 + req[c].size
  BY DEF RequestLen, IsUpload
<1>7. QED
  BY <1>1, <1>2, <1>4, <1>5, <1>6

\* What the client reads is a token the server has written.
LEMMA TokenRead ==
  ASSUME SysInv, NEW c \in Conns, ClientRead(c)
  PROVE  NextToken(c) \in Tokens
<1>1. out[c] \in Seq(Tokens) /\ got[c] \in Nat
  BY DEF SysInv, IInv, TypeOK, TcpTypeOK
<1>2. got[c] + 1 \in 1..Len(out[c])
  BY <1>1 DEF ClientRead
<1>3. QED BY <1>1, <1>2 DEF NextToken

\* Whatever the client does on its connection, Server's Peer may do.
LEMMA ClientIsPeer ==
  ASSUME SysInv, NEW c \in Conns, ClientStep(c), UNCHANGED srvVars
  PROVE  Peer(c) \/ UNCHANGED vars
<1> USE RequestFacts
<1>1. CASE CanConnect /\ Connect(c)
  BY <1>1 DEF CanConnect, Connect, Connected, Peer
<1>2. CASE ConnectFails(c) BY <1>2 DEF ConnectFails, vars
<1>3. CASE SetupFails(c) BY <1>3 DEF SetupFails, vars
<1>4. CASE Prepare(c) BY <1>4 DEF Prepare, vars
<1>5. CASE SendHeader(c)
  BY <1>5 DEF SendHeader, SysInv, PaceInv, Peer, PeerLimit
<1>6. CASE HandshakeFails(c) BY <1>6 DEF HandshakeFails, vars
<1>7. CASE ReadReply(c) BY <1>7 DEF ReadReply, Peer
<1>8. CASE SendBlock(c)
  BY <1>8 DEF SendBlock, InFile, SysInv, PaceInv, Peer, PeerLimit
<1>9. CASE ReadEnds(c) BY <1>9 DEF ReadEnds, vars
<1>10. CASE SendBlockFails(c) BY <1>10 DEF SendBlockFails, vars
<1>11. CASE ReadAck(c) BY <1>11 DEF ReadAck, Peer, vars
<1>12. CASE PeekRead(c) BY <1>12 DEF PeekRead, Peer, vars
<1>13. CASE ClientSpins(c) BY <1>13 DEF ClientSpins, vars
<1>14. CASE CloseSock(c) BY <1>14 DEF CloseSock, Peer
<1>15. CASE Kill(c) BY <1>15 DEF Kill, Peer
<1>16. CASE Again(c) BY <1>16 DEF Again, Peer, vars
<1>17. QED
  BY <1>1, <1>2, <1>3, <1>4, <1>5, <1>6, <1>7, <1>8, <1>9, <1>10, <1>11,
     <1>12, <1>13, <1>14, <1>15, <1>16 DEF ClientStep, ClientWorks

\* Hence a step of the system is a step of Server, or none.
LEMMA SysStep == ASSUME SysInv, [SysNext]_sysVars PROVE [Next]_vars
<1>1. CASE (ServerStep \/ AcceptFails \/ Restart) /\ UNCHANGED cliVars
  BY <1>1 DEF Next
<1>2. ASSUME NEW c \in Conns, ClientStep(c), UNCHANGED srvVars PROVE [Next]_vars
  BY <1>2, ClientIsPeer DEF Next
<1>3. ASSUME NEW c \in Conns, Network(c) PROVE [Next]_vars
  BY <1>3 DEF Next
<1>4. CASE UNCHANGED sysVars BY <1>4 DEF sysVars
<1>5. QED BY <1>1, <1>2, <1>3, <1>4 DEF SysNext

\* The client's own variables stay in their ranges.
LEMMA ClientTypeStep ==
  ASSUME SysInv, NEW c \in Conns, ClientStep(c)
  PROVE  ClientTypeOK'
<1> USE RequestFacts DEF SysInv, ClientTypeOK, ClientPoints, CGoto, Return, Fails
<1>1. CASE CanConnect /\ Connect(c) BY <1>1 DEF Connect
<1>2. CASE ConnectFails(c) BY <1>2 DEF ConnectFails, ClientErrors
<1>3. CASE SetupFails(c) BY <1>3 DEF SetupFails, ClientErrors
<1>4. CASE Prepare(c)
  <2>1. flen' \in [Conns -> 0..(MaxSize + 1)]
    <3>1. ASSUME NEW d \in Drift, req[c].size + d >= 0
          PROVE  req[c].size + d \in 0..(MaxSize + 1)
      BY <3>1, ClientAssumption, ProtocolAssumption
    <3>2. QED BY <1>4, <3>1 DEF Prepare
  <2>2. cpc' \in [Conns -> ClientPoints] BY <1>4 DEF Prepare
  <2>3. result' \in [Conns -> Tokens \cup ClientErrors \cup {"none", "crashed", "killed"}]
    BY <1>4 DEF Prepare, ClientErrors, Tokens, Codes, ServerErrors
  <2>4. QED BY <2>1, <2>2, <2>3
<1>5. CASE SendHeader(c) BY <1>5 DEF SendHeader
<1>6. CASE HandshakeFails(c) BY <1>6 DEF HandshakeFails, ClientErrors
<1>7. CASE ReadReply(c) BY <1>7, TokenRead DEF ReadReply
<1>8. CASE SendBlock(c) BY <1>8 DEF SendBlock, cliVars
<1>9. CASE ReadEnds(c) BY <1>9 DEF ReadEnds, ClientErrors
<1>10. CASE SendBlockFails(c) BY <1>10 DEF SendBlockFails
<1>11. CASE ReadAck(c) BY <1>11, TokenRead DEF ReadAck, ClientErrors
<1>12. CASE PeekRead(c) BY <1>12 DEF PeekRead, cliVars, ClientErrors, Tokens, Codes, ServerErrors
<1>13. CASE ClientSpins(c) BY <1>13 DEF ClientSpins, cliVars
<1>14. CASE CloseSock(c) BY <1>14 DEF CloseSock
<1>15. CASE Kill(c) BY <1>15 DEF Kill
<1>16. CASE Again(c) BY <1>16, ProtocolAssumption DEF Again
<1>17. QED
  BY <1>1, <1>2, <1>3, <1>4, <1>5, <1>6, <1>7, <1>8, <1>9, <1>10, <1>11,
     <1>12, <1>13, <1>14, <1>15, <1>16 DEF ClientStep, ClientWorks

\* Only the client itself moves along its protocol.
LEMMA PaceStep ==
  ASSUME SysInv, NEW c \in Conns, ClientStep(c)
  PROVE  PaceInv'
<1> USE RequestFacts DEF SysInv, PaceInv, ClientTypeOK, IInv, TypeOK, TcpTypeOK,
        CGoto, Return, Fails
<1>1. CASE CanConnect /\ Connect(c) BY <1>1 DEF Connect, ConnectTo
<1>2. CASE ConnectFails(c) BY <1>2 DEF ConnectFails, tcpVars
<1>3. CASE SetupFails(c) BY <1>3 DEF SetupFails, tcpVars
<1>4. CASE Prepare(c)
  <2>1. UNCHANGED <<req, sent, cli>> /\ sent[c] = 0
    BY <1>4 DEF Prepare, tcpVars
  <2>2. cpc'[c] \in {"header", "closing"}
    BY <1>4 DEF Prepare
  <2>3. \A d \in Conns : d # c => cpc'[d] = cpc[d] /\ flen'[d] = flen[d]
    BY <1>4 DEF Prepare
  <2>4. cpc'[c] = "header" /\ IsUpload(req[c]) => flen'[c] <= req[c].size + 1
    <3>1. ASSUME NEW d \in Drift PROVE req[c].size + d <= req[c].size + 1
      <4>1. d \in {-1, 0, 1} BY <3>1, ClientAssumption
      <4>2. req[c].size \in Nat BY ProtocolAssumption
      <4>3. QED BY <4>1, <4>2
    <3>2. QED BY <1>4, <3>1 DEF Prepare
  <2>5. 0 < HandshakeLen(req[c])
    BY DEF HandshakeLen
  <2>6. ASSUME NEW e \in Conns
        PROVE  /\ cli'[e] = "free" \/ cpc'[e] = "open" => sent'[e] = 0
               /\ cpc'[e] = "header" => sent'[e] < HandshakeLen(req'[e])
               /\ cpc'[e] \in {"header", "reply", "send"} /\ IsUpload(req'[e]) =>
                    flen'[e] <= req'[e].size + 1
               /\ cpc'[e] = "send" => IsUpload(req'[e])
    <3>1. CASE e = c BY <2>1, <2>2, <2>4, <2>5, <3>1
    <3>2. CASE e # c BY <2>1, <2>3, <3>2
    <3>3. QED BY <3>1, <3>2
  <2>7. QED BY <2>6
<1>5. CASE SendHeader(c)
  <2>1. UNCHANGED <<req, cli, flen>> /\ sent' = [sent EXCEPT ![c] = @ + 1]
    BY <1>5 DEF SendHeader, ClientSend
  <2>2. cpc[c] = "header" /\ cli[c] = "open"
    BY <1>5 DEF SendHeader, ClientSend
  <2>3. \A d \in Conns : d # c => cpc'[d] = cpc[d] /\ sent'[d] = sent[d]
    BY <1>5, <2>1 DEF SendHeader
  <2>4. \/ cpc'[c] = "reply"
        \/ cpc'[c] = "header" /\ sent[c] + 1 # HandshakeLen(req[c])
    BY <1>5 DEF SendHeader
  <2>5. sent[c] < HandshakeLen(req[c]) /\ sent'[c] = sent[c] + 1
    BY <2>1, <2>2
  <2>6. cpc'[c] = "header" => sent'[c] < HandshakeLen(req[c])
    BY <2>4, <2>5
  <2>7. QED BY <2>1, <2>2, <2>3, <2>4, <2>6
<1>6. CASE HandshakeFails(c) BY <1>6 DEF HandshakeFails, tcpVars
<1>7. CASE ReadReply(c) BY <1>7 DEF ReadReply, ClientRead
<1>8. CASE SendBlock(c) BY <1>8 DEF SendBlock, ClientSend, cliVars
<1>9. CASE ReadEnds(c) BY <1>9 DEF ReadEnds, tcpVars
<1>10. CASE SendBlockFails(c) BY <1>10 DEF SendBlockFails, tcpVars
<1>11. CASE ReadAck(c) BY <1>11 DEF ReadAck, ClientRead, tcpVars
<1>12. CASE PeekRead(c) BY <1>12 DEF PeekRead, ClientRead, cliVars, tcpVars
<1>13. CASE ClientSpins(c) BY <1>13 DEF ClientSpins, cliVars, tcpVars
<1>14. CASE CloseSock(c) BY <1>14 DEF CloseSock, ClientClose
<1>15. CASE Kill(c) BY <1>15 DEF Kill, ClientClose
<1>16. CASE Again(c) BY <1>16 DEF Again, Forget, tcpVars
<1>17. QED
  BY <1>1, <1>2, <1>3, <1>4, <1>5, <1>6, <1>7, <1>8, <1>9, <1>10, <1>11,
     <1>12, <1>13, <1>14, <1>15, <1>16 DEF ClientStep, ClientWorks

\* Every step of the system preserves the invariants of both sides.
LEMMA SysInvStep == ASSUME SysInv, [SysNext]_sysVars PROVE SysInv'
<1>1. IInv'
  BY SysStep, IInvStep DEF SysInv
<1>2. CASE (ServerStep \/ AcceptFails \/ Restart) /\ UNCHANGED cliVars
  <2>1. UNCHANGED <<req, sent, cli, cpc, flen, result>>
    BY <1>2, ServerKeeps DEF OnlyAnswers, cliVars
  <2>2. ClientTypeOK' /\ PaceInv'
    BY <2>1 DEF SysInv, ClientTypeOK, PaceInv
  <2>3. QED BY <1>1, <2>2 DEF SysInv
<1>3. ASSUME NEW c \in Conns, ClientStep(c) PROVE SysInv'
  BY <1>1, <1>3, ClientTypeStep, PaceStep DEF SysInv
<1>4. ASSUME NEW c \in Conns, Network(c), UNCHANGED cliVars PROVE SysInv'
  <2>1. UNCHANGED <<req, sent, cli, cpc, flen, result>>
    BY <1>4 DEF Network, Reset, cliVars
  <2>2. ClientTypeOK' /\ PaceInv'
    BY <2>1 DEF SysInv, ClientTypeOK, PaceInv
  <2>3. QED BY <1>1, <2>2 DEF SysInv
<1>5. CASE UNCHANGED sysVars
  <2>1. ClientTypeOK' /\ PaceInv'
    BY <1>5 DEF SysInv, ClientTypeOK, PaceInv, sysVars, vars, tcpVars, cliVars
  <2>2. QED BY <1>1, <2>1 DEF SysInv
<1>6. QED BY <1>2, <1>3, <1>4, <1>5 DEF SysNext

LEMMA SysInvInit == SysInit => SysInv
<1> SUFFICES ASSUME SysInit PROVE SysInv
  OBVIOUS
<1>1. IInv BY InitIInv DEF SysInit
<1>2. ClientTypeOK
  BY ProtocolAssumption DEF SysInit, ClientInit, ClientTypeOK, ClientPoints
<1>3. PaceInv
  BY DEF SysInit, Init, TcpInit, ClientInit, PaceInv
<1>4. QED BY <1>1, <1>2, <1>3 DEF SysInv

-----------------------------------------------------------------------------
(* The client reports what it has been told. *)

\* What the client of an upload or a command has read: nothing up to the reply,
\* DT_ERR_OK while the file goes out, and at the end either that again or the
\* response it returns.
ReadBy(c) ==
  /\ cpc[c] = "idle" => cli[c] = "free"
  /\ cli[c] = "free" => got[c] = 0
  /\ cpc[c] \in {"open", "header", "reply"} => got[c] = 0
  /\ cpc[c] = "peek" => IsPeek(req[c])
  /\ cpc[c] \in {"send", "sendfail", "ack"} =>
       got[c] = 1 /\ Len(out[c]) >= 1 /\ out[c][1] = OK
  /\ cpc[c] \in {"closing", "finished"} /\ ~IsPeek(req[c]) /\ got[c] > 0 =>
       /\ got[c] <= Len(out[c])
       /\ out[c][got[c]] = OK \/ result[c] \in {out[c][got[c]], "killed"}

ReadInv == \A c \in Conns : ReadBy(c)

ReportInv == SysInv /\ ReadInv

\* What has been read stays read, and is still there.
LEMMA AnswersGrow ==
  ASSUME SysInv, OnlyAnswers, NEW c \in Conns
  PROVE  /\ out[c] \in Seq(Tokens)
         /\ Len(out'[c]) >= Len(out[c])
         /\ \A i \in 1..Len(out[c]) : out'[c][i] = out[c][i]
<1>1. out \in [Conns -> Seq(Tokens)]
  BY DEF SysInv, IInv, TypeOK, TcpTypeOK
<1>2. out[c] \in Seq(Tokens) /\ Len(out[c]) \in Nat
  BY <1>1
<1>3. CASE UNCHANGED out BY <1>2, <1>3
<1>4. ASSUME NEW d, NEW t, out' = [out EXCEPT ![d] = Append(@, t)]
      PROVE  /\ Len(out'[c]) >= Len(out[c])
             /\ \A i \in 1..Len(out[c]) : out'[c][i] = out[c][i]
  <2>1. out'[c] = out[c] \/ out'[c] = Append(out[c], t)
    BY <1>1, <1>4
  <2>2. /\ Len(Append(out[c], t)) = Len(out[c]) + 1
        /\ \A i \in 1..Len(out[c]) : Append(out[c], t)[i] = out[c][i]
    BY <1>2
  <2>3. QED BY <1>2, <2>1, <2>2
<1>5. QED BY <1>2, <1>3, <1>4 DEF OnlyAnswers

LEMMA ReadInvServer ==
  ASSUME ReportInv, OnlyAnswers, UNCHANGED cliVars PROVE ReadInv'
<1> SUFFICES ASSUME NEW c \in Conns
             PROVE  /\ cpc[c] \in {"send", "sendfail", "ack"} =>
                         Len(out'[c]) >= 1 /\ out'[c][1] = OK
                    /\ cpc[c] \in {"closing", "finished"} /\ ~IsPeek(req[c]) /\ got[c] > 0 =>
                         /\ got[c] <= Len(out'[c])
                         /\ out'[c][got[c]] = OK
                              \/ result[c] \in {out'[c][got[c]], "killed"}
  BY DEF ReportInv, ReadInv, ReadBy, OnlyAnswers, cliVars
<1>1. /\ out[c] \in Seq(Tokens) /\ Len(out'[c]) >= Len(out[c])
      /\ \A i \in 1..Len(out[c]) : out'[c][i] = out[c][i]
  BY AnswersGrow DEF ReportInv
<1>2. got[c] \in Nat /\ Len(out[c]) \in Nat
  BY <1>1 DEF ReportInv, SysInv, IInv, TypeOK, TcpTypeOK
<1>3. ASSUME cpc[c] \in {"send", "sendfail", "ack"}
      PROVE  Len(out'[c]) >= 1 /\ out'[c][1] = OK
  BY <1>1, <1>2, <1>3 DEF ReportInv, ReadInv, ReadBy
<1>4. ASSUME cpc[c] \in {"closing", "finished"}, ~IsPeek(req[c]), got[c] > 0
      PROVE  /\ got[c] <= Len(out'[c]) /\ got[c] \in 1..Len(out[c])
             /\ out[c][got[c]] = OK \/ result[c] \in {out[c][got[c]], "killed"}
  BY <1>1, <1>2, <1>4 DEF ReportInv, ReadInv, ReadBy
<1>5. QED BY <1>1, <1>3, <1>4

\* What the client has read is the token before the one it reads next.
LEMMA Reads ==
  ASSUME SysInv, NEW c \in Conns, ClientRead(c)
  PROVE  /\ got' = [got EXCEPT ![c] = @ + 1] /\ got'[c] = got[c] + 1
         /\ got[c] \in Nat /\ Len(out[c]) \in Nat /\ got[c] + 1 <= Len(out[c])
         /\ UNCHANGED <<req, out, cli>> /\ cli[c] = "open"
         /\ NextToken(c) = out[c][got'[c]]
<1>1. got \in [Conns -> Nat] /\ out[c] \in Seq(Tokens)
  BY DEF SysInv, IInv, TypeOK, TcpTypeOK
<1>2. QED BY <1>1 DEF ClientRead, NextToken

LEMMA ReadInvClient ==
  ASSUME ReportInv, NEW c \in Conns, ClientStep(c) PROVE ReadInv'
<1> USE DEF ReportInv, ReadInv, ReadBy, SysInv, ClientTypeOK, IInv, TypeOK, TcpTypeOK,
        CGoto, Return, Fails
<1>1. CASE CanConnect /\ Connect(c) BY <1>1 DEF Connect, ConnectTo
<1>2. CASE ConnectFails(c) BY <1>2 DEF ConnectFails, tcpVars
<1>3. CASE SetupFails(c) BY <1>3 DEF SetupFails, tcpVars
<1>4. CASE Prepare(c) BY <1>4 DEF Prepare, tcpVars
<1>5. CASE SendHeader(c) BY <1>5 DEF SendHeader, ClientSend
<1>6. CASE HandshakeFails(c) BY <1>6 DEF HandshakeFails, tcpVars
<1>7. CASE ReadReply(c) BY <1>7, Reads DEF ReadReply
<1>8. CASE SendBlock(c) BY <1>8 DEF SendBlock, ClientSend, cliVars
<1>9. CASE ReadEnds(c) BY <1>9 DEF ReadEnds, tcpVars
<1>10. CASE SendBlockFails(c) BY <1>10 DEF SendBlockFails, tcpVars
<1>11. CASE ReadAck(c)
  <2>1. cpc[c] \in {"sendfail", "ack"} /\ got[c] = 1 /\ Len(out[c]) >= 1 /\ out[c][1] = OK
    BY <1>11 DEF ReadAck
  <2>2. CASE ClientRead(c) /\ Return(c, NextToken(c)) BY <2>1, <2>2, Reads
  <2>3. CASE UNCHANGED tcpVars BY <1>11, <2>1, <2>3 DEF ReadAck, tcpVars, ClientRead
  <2>4. QED BY <1>11, <2>2, <2>3 DEF ReadAck
<1>12. CASE PeekRead(c) BY <1>12, Reads DEF PeekRead, cliVars, tcpVars
<1>13. CASE ClientSpins(c) BY <1>13 DEF ClientSpins, cliVars, tcpVars
<1>14. CASE CloseSock(c) BY <1>14 DEF CloseSock, ClientClose
<1>15. CASE Kill(c)
  <2>1. /\ UNCHANGED <<req, out, got>> /\ cli' = [cli EXCEPT ![c] = "closed"]
        /\ cpc' = [cpc EXCEPT ![c] = "finished"]
        /\ result' = [result EXCEPT ![c] = "killed"]
    BY <1>15 DEF Kill, ClientClose
  <2>2. /\ cpc[c] \in {"open", "header", "reply", "peek", "send", "sendfail", "ack"}
        /\ cpc'[c] = "finished" /\ result'[c] = "killed" /\ cli'[c] = "closed"
    BY <1>15, <2>1 DEF Kill, ClientPoints
  <2>3. ~IsPeek(req[c]) => got[c] = 0 \/ (got[c] = 1 /\ Len(out[c]) >= 1)
    BY <2>2
  <2>4. \A d \in Conns : d # c => cpc'[d] = cpc[d] /\ result'[d] = result[d] /\ cli'[d] = cli[d]
    BY <2>1
  <2>5. ASSUME NEW d \in Conns, d # c
        PROVE  /\ cpc'[d] = cpc[d] /\ result'[d] = result[d] /\ cli'[d] = cli[d]
               /\ req'[d] = req[d] /\ out'[d] = out[d] /\ got'[d] = got[d]
    BY <2>1, <2>4, <2>5
  <2>6. req'[c] = req[c] /\ out'[c] = out[c] /\ got'[c] = got[c]
    BY <2>1
  <2>7. ReadBy(c)' BY <2>2, <2>3, <2>6
  <2>8. ASSUME NEW d \in Conns, d # c PROVE ReadBy(d)'
    <3>1. ReadBy(d) OBVIOUS
    <3>2. QED BY <2>5, <2>8, <3>1
  <2>9. QED BY <2>7, <2>8
<1>16. CASE Again(c) BY <1>16 DEF Again, Forget, tcpVars
<1>17. QED
  BY <1>1, <1>2, <1>3, <1>4, <1>5, <1>6, <1>7, <1>8, <1>9, <1>10, <1>11,
     <1>12, <1>13, <1>14, <1>15, <1>16 DEF ClientStep, ClientWorks

LEMMA ReportInvInit == SysInit => ReportInv
<1>1. SysInit => ReadInv
  BY DEF SysInit, Init, TcpInit, ClientInit, ReadInv, ReadBy
<1>2. QED BY <1>1, SysInvInit DEF ReportInv

LEMMA ReportInvStep == ASSUME ReportInv, [SysNext]_sysVars PROVE ReportInv'
<1>1. SysInv' BY SysInvStep DEF ReportInv
<1>2. ASSUME ServerStep \/ AcceptFails \/ Restart, UNCHANGED cliVars PROVE ReadInv'
  BY <1>2, ServerKeeps, ReadInvServer
<1>3. ASSUME NEW c \in Conns, ClientStep(c) PROVE ReadInv'
  BY <1>3, ReadInvClient
<1>4. ASSUME NEW c \in Conns, Network(c), UNCHANGED cliVars PROVE ReadInv'
  BY <1>4 DEF Network, Reset, ReportInv, ReadInv, ReadBy, cliVars
<1>5. ASSUME UNCHANGED sysVars PROVE ReadInv'
  BY <1>5 DEF ReportInv, ReadInv, ReadBy, sysVars, vars, tcpVars, cliVars
<1>6. ReadInv' BY <1>2, <1>3, <1>4, <1>5 DEF SysNext
<1>7. QED BY <1>1, <1>6 DEF ReportInv

-----------------------------------------------------------------------------
(* The system keeps the promise of RemoteExec: what the server does, and what *)
(* the client says of it.                                                     *)

\* The user is told of success when the request has been carried out, and of an
\* upload nothing else is asked than its answers.
OkInv ==
  \A c \in Conns :
    /\ cpc[c] \in {"send", "sendfail", "ack"} => IsUpload(req[c])
    /\ cpc[c] \in {"closing", "finished"} /\ result[c] = OK =>
         cli[c] # "free" /\ CarriedOut(c)

PromiseInv == ReportInv /\ AnswersInv /\ OkInv

\* An answer that is about to be sent was still missing.
Missing(c) ==
  \/ out[c] = <<>>
  \/ out[c] = <<OK>> /\ req[c].id = "HDR" /\ req[c].plugin # PEEK
  \/ req[c].id = "HDR" /\ req[c].plugin = PEEK /\ Len(out[c]) # 1 + req[c].size

\* What the server does to a connection: read, answer what is missing, or
\* neither.
Serves ==
  \/ UNCHANGED <<out, rcvd>>
  \/ pc \in OnConnection /\ \E m \in Int : \E len \in RecvResults(active, m) : Consume(active, len)
  \/ pc \in OnConnection /\ ~rst[active] /\ Missing(active) /\ \E t : Emit(active, t)

LEMMA EmitServes ==
  ASSUME AnswersInv, pc \in OnConnection, NEW t, Emit(active, t),
         ~rst[active] => Missing(active)
  PROVE  Serves
<1>1. CASE rst[active] BY <1>1 DEF Emit, Serves
<1>2. CASE ~rst[active] BY <1>2 DEF Serves
<1>3. QED BY <1>1, <1>2

LEMMA LoaderServes == ASSUME AnswersInv, Loader PROVE Serves
<1>0. 1 \in Int /\ {"id", "hdr", "command", "reject", "ack"} \subseteq OnConnection
  BY DEF OnConnection, Points
<1>1. CASE ReadId BY <1>0, <1>1 DEF ReadId, RecvSafe, Serves
<1>2. CASE Command
  <2>1. Missing(active) BY <1>2 DEF Command, Missing, AnswersInv, ActiveTold, Quiet
  <2>2. QED BY <1>0, <1>2, <2>1, EmitServes DEF Command
<1>3. CASE Reject
  <2>1. Missing(active) BY <1>3 DEF Reject, Missing, AnswersInv, ActiveTold, Quiet
  <2>2. QED BY <1>0, <1>3, <2>1, EmitServes DEF Reject
<1>4. CASE ReadHeader BY <1>0, <1>4 DEF ReadHeader, RecvSafe, Serves
<1>5. CASE SelectPlugin BY <1>5 DEF SelectPlugin, tcpVars, Serves
<1>6. CASE InitFailed BY <1>6 DEF InitFailed, tcpVars, Serves
<1>7. CASE Acknowledge
  <2>1. Missing(active) BY <1>7 DEF Acknowledge, Missing, AnswersInv, ActiveTold, Quiet
  <2>2. QED BY <1>0, <1>7, <2>1, EmitServes DEF Acknowledge
<1>8. CASE CloseConnection BY <1>8 DEF CloseConnection, CloseServerEnd, Serves
<1>9. CASE Done BY <1>9 DEF Done, tcpVars, Serves
<1>10. CASE RecvSpins BY <1>10 DEF RecvSpins, vars, tcpVars, Serves
<1>11. QED
  BY <1>1, <1>2, <1>3, <1>4, <1>5, <1>6, <1>7, <1>8, <1>9, <1>10 DEF Loader

LEMMA UploadPluginsServe ==
  ASSUME AnswersInv, LsgNext \/ AdrNext \/ AdfNext
  PROVE  Serves
<1> USE DEF InitDone, InitFails, RunReturns, tcpVars
<1>0. {"lsg.recv", "adr.recv", "adf.recv"} \subseteq OnConnection
  BY DEF OnConnection, Points
<1>1. CASE LsgInit BY <1>1 DEF LsgInit, Serves
<1>2. CASE LsgExec BY <1>2 DEF LsgExec, Serves
<1>3. CASE LsgRecv
  <2>1. hdr.size \in Nat
    BY <1>3, CountTypes DEF LsgRecv, AnswersInv, IInv, HeaderInv, WithTmpFile
  <2>2. LsgAsk \in Int
    BY <2>1, CountTypes, PluginAssumption DEF LsgAsk
  <2>3. QED BY <1>0, <1>3, <2>2 DEF LsgRecv, Serves
<1>4. CASE LsgRecvEnds BY <1>4 DEF LsgRecvEnds, Serves
<1>5. CASE LsgLoad BY <1>5 DEF LsgLoad, Serves
<1>6. CASE LsgRun BY <1>6 DEF LsgRun, Serves
<1>7. CASE AdrInit BY <1>7 DEF AdrInit, Serves
<1>8. CASE AdrExec BY <1>8 DEF AdrExec, Serves
<1>9. CASE AdrRecv BY <1>0, <1>9, PluginAssumption DEF AdrRecv, Serves
<1>10. CASE AdrRecvEnds BY <1>10 DEF AdrRecvEnds, Serves
<1>11. CASE AdrRun BY <1>11 DEF AdrRun, Serves
<1>12. CASE AdfInit BY <1>12 DEF AdfInit, Serves
<1>13. CASE AdfExec BY <1>13 DEF AdfExec, Serves
<1>14. CASE AdfRecv BY <1>0, <1>14, AskTypes DEF AdfRecv, Serves, AnswersInv
<1>15. CASE AdfWrite BY <1>15 DEF AdfWrite, Serves
<1>16. CASE AdfMotor BY <1>16 DEF AdfMotor, Serves
<1>17. CASE AdfRun BY <1>17 DEF AdfRun, Serves
<1>18. QED
  BY <1>1, <1>2, <1>3, <1>4, <1>5, <1>6, <1>7, <1>8, <1>9, <1>10, <1>11,
     <1>12, <1>13, <1>14, <1>15, <1>16, <1>17 DEF LsgNext, AdrNext, AdfNext

LEMMA PeekServes == ASSUME AnswersInv, PeekNext \/ Answer PROVE Serves
<1> USE DEF InitDone, InitFails, RunReturns, tcpVars
<1>0. {"peek.send", "answer"} \subseteq OnConnection
  BY DEF OnConnection, Points
<1>1. CASE PeekInit BY <1>1 DEF PeekInit, Serves
<1>2. CASE PeekExec BY <1>2 DEF PeekExec, Serves
<1>3. CASE PeekSend
  <2>1. pc = "peek.send" /\ cnt < hdr.size /\ hdr \in Request /\ hdr.plugin = PEEK
        /\ hdr = req[active] /\ hdr.id = "HDR" /\ Dumping(active)
    BY <1>3 DEF PeekSend, AnswersInv, IInv, HeaderInv, WithContext, RequestInv, ActiveTold
  <2>2. cnt \in Nat /\ hdr.size \in Nat
    BY <2>1, CountTypes
  <2>3. ~rst[active] => Missing(active)
    BY <2>1, <2>2 DEF Dumping, Missing
  <2>4. CASE Emit(active, DATA)
    BY <1>0, <2>1, <2>3, <2>4, EmitServes
  <2>5. QED BY <1>3, <2>4 DEF PeekSend, Serves
<1>4. CASE PeekEnds BY <1>4 DEF PeekEnds, Serves
<1>5. CASE PeekRun BY <1>5 DEF PeekRun, Serves
<1>6. CASE Answer
  <2>1. hdr = req[active] /\ hdr.id = "HDR" /\ hdr.plugin # PEEK /\ Acknowledged(active)
    BY <1>6 DEF Answer, AnswersInv, RequestInv, ActiveTold, Working
  <2>2. ~rst[active] => Missing(active)
    BY <2>1 DEF Acknowledged, Missing
  <2>3. QED BY <1>0, <1>6, <2>2, EmitServes DEF Answer
<1>7. QED BY <1>1, <1>2, <1>3, <1>4, <1>5, <1>6 DEF PeekNext

LEMMA ServerServes ==
  ASSUME AnswersInv, ServerStep \/ AcceptFails \/ Restart
  PROVE  Serves
<1>1. CASE StartServer BY <1>1 DEF StartServer, tcpVars, Serves
<1>2. ASSUME NEW c \in Conns, Accept(c) PROVE Serves
  BY <1>2 DEF Accept, Serves
<1>3. CASE EndSession BY <1>3 DEF EndSession, CloseServerEnd, tcpVars, Serves
<1>4. CASE StopServer BY <1>4 DEF StopServer, Serves
<1>5. CASE Loader BY <1>5, LoaderServes
<1>6. CASE Plugins BY <1>6, UploadPluginsServe, PeekServes DEF Plugins
<1>7. CASE AcceptFails BY <1>7 DEF AcceptFails, tcpVars, Serves
<1>8. CASE Restart BY <1>8 DEF Restart, tcpVars, Serves
<1>9. QED
  BY <1>1, <1>2, <1>3, <1>4, <1>5, <1>6, <1>7, <1>8 DEF ServerStep

LEMMA FullAnswerLen ==
  ASSUME NEW r \in Request
  PROVE  Len(FullAnswer(r)) =
           IF r.id # "HDR" THEN 1 ELSE IF r.plugin = PEEK THEN 1 + r.size ELSE 2
<1> DEFINE s == [i \in 1..r.size |-> DATA]
<1>1. r.size \in Nat
  BY ProtocolAssumption DEF Request
<1>2. s \in Seq({OK, DATA}) /\ Len(s) = r.size /\ <<OK>> \in Seq({OK, DATA})
  BY <1>1
<1>3. FullAnswer(r) = IF r.id # "HDR" THEN <<OK>> ELSE IF r.plugin = PEEK THEN <<OK>> \o s ELSE <<OK, OK>>
  BY DEF FullAnswer
<1> HIDE DEF s
<1>4. Len(<<OK>> \o s) = 1 + r.size
  <2>1. Len(<<OK>>) = 1
    OBVIOUS
  <2>2. Len(<<OK>> \o s) = Len(<<OK>>) + Len(s)
    BY <1>2
  <2>3. QED BY <1>1, <1>2, <2>1, <2>2
<1>5. Len(<<OK>>) = 1 /\ Len(<<OK, OK>>) = 2
  OBVIOUS
<1>6. QED BY <1>3, <1>4, <1>5

\* What was missing was not carried out.
LEMMA MissingNotDone ==
  ASSUME AnswersInv, NEW c \in Conns, Missing(c) PROVE ~CarriedOut(c)
<1>1. req[c] \in Request /\ req[c].size \in Nat
  BY ProtocolAssumption DEF AnswersInv, IInv, TypeOK, TcpTypeOK, Request
<1>2. Len(FullAnswer(req[c])) =
        IF req[c].id # "HDR" THEN 1 ELSE IF req[c].plugin = PEEK THEN 1 + req[c].size ELSE 2
  BY <1>1, FullAnswerLen
<1>3. CASE out[c] = <<>>
  <2>1. Len(<<>>) = 0 OBVIOUS
  <2>2. Len(FullAnswer(req[c])) # 0 BY <1>1, <1>2
  <2>3. QED BY <1>3, <2>1, <2>2 DEF CarriedOut
<1>4. CASE out[c] = <<OK>> /\ req[c].id = "HDR" /\ req[c].plugin # PEEK
  <2>1. Len(<<OK>>) = 1 OBVIOUS
  <2>2. Len(FullAnswer(req[c])) = 2 BY <1>2, <1>4
  <2>3. QED BY <1>4, <2>1, <2>2 DEF CarriedOut
<1>5. CASE req[c].id = "HDR" /\ req[c].plugin = PEEK /\ Len(out[c]) # 1 + req[c].size
  BY <1>2, <1>5 DEF CarriedOut
<1>6. QED BY <1>3, <1>4, <1>5 DEF Missing

\* A request that has been carried out stays so as long as nobody answers it.
LEMMA DoneStays ==
  ASSUME NEW c, req'[c] = req[c], out'[c] = out[c], rcvd'[c] = rcvd[c]
  PROVE  CarriedOut(c)' <=> CarriedOut(c)
  BY DEF CarriedOut

\* The server carries out the request at hand, and takes nothing back.
LEMMA ServerCarriesOut ==
  ASSUME PromiseInv, Serves, OnlyAnswers
  PROVE  \/ \A c \in Conns : CarriedOut(c)' <=> CarriedOut(c)
         \/ \E d \in Conns :
              /\ cli[d] # "free" /\ ~CarriedOut(d) /\ CarriedOut(d)'
              /\ \A c \in Conns : c # d => (CarriedOut(c)' <=> CarriedOut(c))
<1>0. AnswersInv /\ UNCHANGED req
  BY DEF PromiseInv, OnlyAnswers
<1>1. CASE UNCHANGED <<out, rcvd>>
  BY <1>0, <1>1, DoneStays
<1>2. ASSUME pc \in OnConnection, NEW d \in Conns, d = active,
             CarriedOut(d) => CarriedOut(d)',
             \A c \in Conns : c # d => out'[c] = out[c] /\ rcvd'[c] = rcvd[c]
      PROVE  \/ \A c \in Conns : CarriedOut(c)' <=> CarriedOut(c)
             \/ \E e \in Conns :
                  /\ cli[e] # "free" /\ ~CarriedOut(e) /\ CarriedOut(e)'
                  /\ \A c \in Conns : c # e => (CarriedOut(c)' <=> CarriedOut(c))
  <2>1. cli[d] # "free"
    BY <1>0, <1>2, Served DEF AnswersInv, IInv, SocketInv
  <2>2. \A c \in Conns : c # d => (CarriedOut(c)' <=> CarriedOut(c))
    BY <1>0, <1>2, DoneStays
  <2>3. CASE CarriedOut(d)' <=> CarriedOut(d) BY <2>2, <2>3
  <2>4. CASE ~CarriedOut(d) /\ CarriedOut(d)' BY <2>1, <2>2, <2>4
  <2>5. QED BY <1>2, <2>3, <2>4
<1>3. ASSUME pc \in OnConnection, NEW m \in Int, NEW len \in RecvResults(active, m),
             Consume(active, len), NEW d \in Conns, d = active
      PROVE  /\ CarriedOut(d) => CarriedOut(d)'
             /\ \A c \in Conns : c # d => out'[c] = out[c] /\ rcvd'[c] = rcvd[c]
  <2>1. UNCHANGED out /\ rcvd'[d] >= rcvd[d] /\ rcvd'[d] \in Nat
    BY <1>0, <1>3, ReadMore
  <2>2. rcvd[d] \in Nat /\ RequestLen(req[d]) \in Nat
    BY RequestFacts DEF PromiseInv, ReportInv, SysInv, IInv, TypeOK, TcpTypeOK
  <2>3. \A c \in Conns : c # d => rcvd'[c] = rcvd[c]
    BY <1>0, <1>3 DEF Consume, AnswersInv, IInv, TypeOK, TcpTypeOK
  <2>4. CarriedOut(d) => CarriedOut(d)'
    <3>1. req'[d] = req[d] /\ out'[d] = out[d]
      BY <1>0, <2>1
    <3>2. QED BY <2>1, <2>2, <3>1 DEF CarriedOut
  <2>5. QED BY <2>1, <2>3, <2>4
<1>4. ASSUME pc \in OnConnection, Missing(active), NEW t, Emit(active, t),
             NEW d \in Conns, d = active
      PROVE  /\ CarriedOut(d) => CarriedOut(d)'
             /\ \A c \in Conns : c # d => out'[c] = out[c] /\ rcvd'[c] = rcvd[c]
  <2>1. UNCHANGED rcvd /\ \A c \in Conns : c # d => out'[c] = out[c]
    BY <1>0, <1>4, Telling DEF Emit
  <2>2. ~CarriedOut(d)
    BY <1>0, <1>4, MissingNotDone
  <2>3. QED BY <2>1, <2>2
<1>5. pc \in OnConnection => active \in Conns
  BY <1>0, Served
<1>6. CASE pc \in OnConnection
  <2>1. PICK d \in Conns : d = active BY <1>5, <1>6
  <2>2. CASE \E m \in Int : \E len \in RecvResults(active, m) : Consume(active, len)
    BY <1>2, <1>3, <1>6, <2>1, <2>2
  <2>3. CASE Missing(active) /\ \E t : Emit(active, t)
    BY <1>2, <1>4, <1>6, <2>1, <2>3
  <2>4. QED BY <1>1, <2>2, <2>3 DEF Serves
<1>7. QED BY <1>1, <1>6 DEF Serves

-----------------------------------------------------------------------------
(* What the client says. *)

\* DT_ERR_OK in answer to a command is the whole answer.
LEMMA CommandDone ==
  ASSUME AnswersInv, NEW c \in Conns, req[c].id # "HDR",
         Len(out[c]) >= 1, out[c][1] = OK
  PROVE  CarriedOut(c)
<1>1. out[c] \in Seq(Tokens) /\ rcvd[c] \in Nat
  BY DEF AnswersInv, IInv, TypeOK, TcpTypeOK
<1>2. Shaped(req[c], out[c])
  BY EveryoneShaped
<1>3. Len(out[c]) = 1
  <2>1. Len(out[c]) <= 1 BY <1>2, Zenon DEF Shaped
  <2> DEFINE n == Len(out[c])
  <2>2. n \in Nat /\ n >= 1 /\ n <= 1 BY <1>1, <2>1
  <2> HIDE DEF n
  <2>3. n = 1 BY <2>2
  <2>4. QED BY <2>3 DEF n
<1>4. out[c] = <<OK>>
  BY <1>1, <1>3
<1>5. rcvd[c] >= 1
  BY <1>3 DEF AnswersInv, HeardInv
<1>6. QED BY <1>4, <1>5 DEF CarriedOut, FullAnswer, RequestLen

\* Two DT_ERR_OK to a client that is still there are a complete upload.
LEMMA UploadDone ==
  ASSUME AnswersInv, NEW c \in Conns, IsUpload(req[c]), cli[c] = "open",
         Len(out[c]) >= 2, out[c][1] = OK, out[c][2] = OK
  PROVE  CarriedOut(c)
<1>1. out[c] \in Seq(Tokens) /\ rcvd[c] \in Nat /\ req[c] \in Request
  BY DEF AnswersInv, IInv, TypeOK, TcpTypeOK
<1>2. Shaped(req[c], out[c])
  BY EveryoneShaped
<1>3. Len(out[c]) = 2
  BY <1>1, <1>2 DEF Shaped, IsUpload
<1>4. out[c] = <<OK, OK>>
  BY <1>1, <1>3
<1>5. req[c].id = "HDR" /\ req[c].plugin \in {LSG0, ADR0, ADF0}
  BY <1>1 DEF IsUpload, Request, PluginTags
<1>6. CASE req[c].plugin = LSG0
  <2>1. Started(c) BY <1>3, <1>5, <1>6 DEF Started
  <2>2. FileRead(c) BY <2>1 DEF AnswersInv, HeardInv
  <2>3. rcvd[c] >= RequestLen(req[c]) BY <2>2 DEF FileRead
  <2>4. QED BY <1>4, <1>5, <2>3 DEF CarriedOut, FullAnswer, IsUpload
<1>7. CASE req[c].plugin \in {ADR0, ADF0}
  <2>1. Uploaded(c) BY <1>3, <1>5, <1>7 DEF Uploaded
  <2>2. rcvd[c] >= RequestLen(req[c]) BY <2>1, UploadRead
  <2>3. QED BY <1>4, <1>5, <2>2 DEF CarriedOut, FullAnswer, IsUpload
<1>8. QED BY <1>5, <1>6, <1>7

\* A connection the client neither makes nor forgets carries on.
LEMMA OthersStay ==
  ASSUME PromiseInv, NEW c \in Conns, ClientStep(c), NEW d \in Conns, d # c
  PROVE  /\ cpc'[d] = cpc[d] /\ result'[d] = result[d] /\ cli'[d] = cli[d]
         /\ req'[d] = req[d] /\ out'[d] = out[d] /\ rcvd'[d] = rcvd[d]
<1> USE DEF PromiseInv, ReportInv, SysInv, ClientTypeOK, IInv, TypeOK, TcpTypeOK,
        CGoto, Return, Fails
<1>1. CASE CanConnect /\ Connect(c) BY <1>1 DEF Connect, ConnectTo
<1>2. CASE ConnectFails(c) BY <1>2 DEF ConnectFails, tcpVars
<1>3. CASE SetupFails(c) BY <1>3 DEF SetupFails, tcpVars
<1>4. CASE Prepare(c) BY <1>4 DEF Prepare, tcpVars
<1>5. CASE SendHeader(c) BY <1>5 DEF SendHeader, ClientSend
<1>6. CASE HandshakeFails(c) BY <1>6 DEF HandshakeFails, tcpVars
<1>7. CASE ReadReply(c) BY <1>7 DEF ReadReply, ClientRead
<1>8. CASE SendBlock(c) BY <1>8 DEF SendBlock, ClientSend, cliVars
<1>9. CASE ReadEnds(c) BY <1>9 DEF ReadEnds, tcpVars
<1>10. CASE SendBlockFails(c) BY <1>10 DEF SendBlockFails, tcpVars
<1>11. CASE ReadAck(c) BY <1>11 DEF ReadAck, ClientRead, tcpVars
<1>12. CASE PeekRead(c) BY <1>12 DEF PeekRead, ClientRead, cliVars, tcpVars
<1>13. CASE ClientSpins(c) BY <1>13 DEF ClientSpins, cliVars, tcpVars
<1>14. CASE CloseSock(c) BY <1>14 DEF CloseSock, ClientClose
<1>15. CASE Kill(c) BY <1>15 DEF Kill, ClientClose
<1>16. CASE Again(c) BY <1>16 DEF Again, Forget, tcpVars
<1>17. QED
  BY <1>1, <1>2, <1>3, <1>4, <1>5, <1>6, <1>7, <1>8, <1>9, <1>10, <1>11,
     <1>12, <1>13, <1>14, <1>15, <1>16 DEF ClientStep, ClientWorks

\* What a step of the client is for its user: a new request, the next call, a
\* verdict, or nothing yet.
Moves(c) ==
  /\ UNCHANGED <<req, out, rcvd>>
  /\ cli'[c] = cli[c] \/ (cli[c] = "open" /\ cli'[c] = "closed")
  /\ \/ /\ cpc[c] # "finished" /\ cpc'[c] \notin {"closing", "finished"}
        /\ cpc'[c] \in {"send", "sendfail", "ack"} =>
             cpc[c] \in {"send", "sendfail", "ack"} \/ IsUpload(req[c])
     \/ /\ cpc[c] # "finished" /\ cpc'[c] \in {"closing", "finished"}
        /\ result'[c] # OK
     \/ /\ cpc[c] # "finished" /\ cpc'[c] = "closing"
        /\ cli[c] = "open" /\ CarriedOut(c)
     \/ cpc[c] = "closing" /\ cpc'[c] = "finished" /\ result'[c] = result[c]

LEMMA ClientMoves ==
  ASSUME PromiseInv, NEW c \in Conns, ClientStep(c)
  PROVE  (CanConnect /\ Connect(c)) \/ Again(c) \/ Moves(c)
<1> USE DEF PromiseInv, ReportInv, SysInv, ClientTypeOK, CGoto, Return, Fails, Moves
<1>0. \A e \in ClientErrors : e # OK
  BY OnClientAssumption
<1>1. CASE ConnectFails(c) BY <1>0, <1>1 DEF ConnectFails, tcpVars, ClientErrors
<1>2. CASE SetupFails(c) BY <1>0, <1>2 DEF SetupFails, tcpVars, ClientErrors
<1>3. CASE Prepare(c)
  <2>1. /\ UNCHANGED <<req, out, rcvd, cli>> /\ cpc[c] = "open"
        /\ cpc'[c] = "header" \/ (cpc'[c] = "closing" /\ result'[c] # OK)
    BY <1>0, <1>3 DEF Prepare, tcpVars, ClientErrors, OK
  <2>2. QED BY <2>1
<1>4. CASE SendHeader(c) BY <1>4 DEF SendHeader, ClientSend
<1>5. CASE HandshakeFails(c) BY <1>0, <1>5 DEF HandshakeFails, tcpVars, ClientErrors
<1>6. CASE ReadReply(c)
  <2>1. /\ UNCHANGED <<req, out, rcvd, cli>> /\ cli[c] = "open" /\ cpc[c] = "reply"
        /\ got[c] = 0 /\ Len(out[c]) >= 1 /\ NextToken(c) = out[c][1]
    <3>1. cpc[c] = "reply" /\ ClientRead(c) BY <1>6 DEF ReadReply
    <3>2. got[c] = 0 BY <3>1 DEF ReadInv, ReadBy
    <3>3. out[c] \in Seq(Tokens) BY DEF IInv, TypeOK, TcpTypeOK
    <3>4. QED BY <3>1, <3>2, <3>3 DEF ClientRead, NextToken
  <2>2. CASE cpc' = [cpc EXCEPT ![c] = "send"] /\ IsUpload(req[c]) BY <2>1, <2>2
  <2>3. CASE cpc' = [cpc EXCEPT ![c] = "peek"] BY <2>1, <2>3
  <2>4. CASE /\ IF IsUpload(req[c]) THEN NextToken(c) # OK
                ELSE IsPeek(req[c]) => NextToken(c) = MinusTwo
             /\ Return(c, NextToken(c))
    <3>1. cpc'[c] = "closing" /\ result'[c] = NextToken(c) BY <2>4
    <3>2. MinusTwo # OK BY DEF MinusTwo, OK
    <3>3. CASE NextToken(c) # OK BY <2>1, <3>1, <3>3
    <3>4. CASE NextToken(c) = OK
      <4>1. req[c].id # "HDR" BY <2>4, <3>2, <3>4 DEF IsUpload, IsPeek
      <4>2. CarriedOut(c) BY <2>1, <3>4, <4>1, CommandDone
      <4>3. QED BY <2>1, <3>1, <4>2
    <3>5. QED BY <3>3, <3>4
  <2>5. QED BY <1>6, <2>2, <2>3, <2>4 DEF ReadReply
<1>7. CASE SendBlock(c) BY <1>7 DEF SendBlock, ClientSend, cliVars
<1>8. CASE ReadEnds(c) BY <1>0, <1>8 DEF ReadEnds, tcpVars, ClientErrors
<1>9. CASE SendBlockFails(c) BY <1>9 DEF SendBlockFails, tcpVars
<1>10. CASE ReadAck(c)
  <2>1. CASE ClientRead(c) /\ Return(c, NextToken(c))
    <3>1. /\ UNCHANGED <<req, out, rcvd, cli>> /\ cli[c] = "open"
          /\ cpc[c] \in {"sendfail", "ack"} /\ cpc'[c] = "closing"
          /\ result'[c] = NextToken(c)
      BY <1>10, <2>1 DEF ReadAck, ClientRead
    <3>2. got[c] = 1 /\ out[c][1] = OK BY <3>1 DEF ReadInv, ReadBy
    <3>3. out[c] \in Seq(Tokens) BY DEF IInv, TypeOK, TcpTypeOK
    <3>4. Len(out[c]) >= 2 /\ NextToken(c) = out[c][2]
      BY <2>1, <3>2, <3>3 DEF ClientRead, NextToken
    <3>5. IsUpload(req[c]) BY <3>1 DEF OkInv
    <3>6. CASE NextToken(c) # OK BY <3>1, <3>6
    <3>7. CASE NextToken(c) = OK BY <3>1, <3>2, <3>4, <3>5, <3>7, UploadDone
    <3>8. QED BY <3>6, <3>7
  <2>2. CASE UNCHANGED tcpVars /\ \E e \in ClientErrors : Return(c, e)
    BY <1>0, <1>10, <2>2 DEF ReadAck, tcpVars
  <2>3. QED BY <1>10, <2>1, <2>2 DEF ReadAck, ClientErrors
<1>11. CASE PeekRead(c)
  <2>1. /\ UNCHANGED <<req, out, rcvd, cli>> /\ cpc[c] = "peek"
        /\ cpc'[c] = "peek" \/ (cpc'[c] = "closing" /\ result'[c] # OK)
    BY <1>0, <1>11 DEF PeekRead, ClientRead, tcpVars, cliVars, ClientErrors, OK
  <2>2. QED BY <2>1
<1>12. CASE ClientSpins(c) BY <1>12 DEF ClientSpins, AtEnd, cliVars, tcpVars
<1>13. CASE CloseSock(c) BY <1>13 DEF CloseSock, ClientClose, IInv, TypeOK, TcpTypeOK
<1>14. CASE Kill(c) BY <1>14 DEF Kill, ClientClose, IInv, TypeOK, TcpTypeOK, OK
<1>15. QED
  BY <1>1, <1>2, <1>3, <1>4, <1>5, <1>6, <1>7, <1>8, <1>9, <1>10, <1>11,
     <1>12, <1>13, <1>14 DEF ClientStep, ClientWorks

LEMMA OkInvStep == ASSUME PromiseInv, [SysNext]_sysVars PROVE OkInv'
<1>0. OkInv /\ AnswersInv BY DEF PromiseInv
<1>1. ASSUME ServerStep \/ AcceptFails \/ Restart, UNCHANGED cliVars PROVE OkInv'
  <2>1. Serves /\ OnlyAnswers BY <1>0, <1>1, ServerServes, ServerKeeps
  <2>2. \A c \in Conns : CarriedOut(c) => CarriedOut(c)'
    BY <2>1, ServerCarriesOut
  <2>3. UNCHANGED <<req, cli, cpc, result>> BY <1>1, <2>1 DEF OnlyAnswers, cliVars
  <2>4. QED BY <1>0, <2>2, <2>3 DEF OkInv
<1>2. ASSUME NEW c \in Conns, ClientStep(c) PROVE OkInv'
  <2> DEFINE Ok(d) ==
        /\ cpc[d] \in {"send", "sendfail", "ack"} => IsUpload(req[d])
        /\ cpc[d] \in {"closing", "finished"} /\ result[d] = OK =>
             cli[d] # "free" /\ CarriedOut(d)
  <2>1. ASSUME NEW d \in Conns, d # c PROVE Ok(d)'
    <3>1. /\ cpc'[d] = cpc[d] /\ result'[d] = result[d] /\ cli'[d] = cli[d]
          /\ req'[d] = req[d] /\ out'[d] = out[d] /\ rcvd'[d] = rcvd[d]
      BY <1>2, <2>1, OthersStay
    <3>2. CarriedOut(d)' <=> CarriedOut(d) BY <3>1, DoneStays
    <3>3. QED BY <1>0, <3>1, <3>2 DEF OkInv
  <2>2. Ok(c)'
    <3>1. CASE CanConnect /\ Connect(c)
      BY <3>1 DEF Connect, CGoto, PromiseInv, ReportInv, SysInv, ClientTypeOK
    <3>2. CASE Again(c)
      BY <3>2 DEF Again, CGoto, PromiseInv, ReportInv, SysInv, ClientTypeOK
    <3>3. CASE Moves(c)
      <4>1. CarriedOut(c)' <=> CarriedOut(c) BY <3>3, DoneStays DEF Moves
      <4>2. (IsUpload(req[c]))' = IsUpload(req[c]) BY <3>3 DEF Moves
      <4>3. QED BY <1>0, <3>3, <4>1, <4>2 DEF Moves, OkInv
    <3>4. QED BY <1>2, <3>1, <3>2, <3>3, ClientMoves
  <2>3. \A d \in Conns : Ok(d)' BY <2>1, <2>2
  <2>4. QED BY <2>3 DEF OkInv
<1>3. ASSUME NEW c \in Conns, Network(c), UNCHANGED cliVars PROVE OkInv'
  BY <1>0, <1>3 DEF Network, Reset, cliVars, OkInv, CarriedOut
<1>4. ASSUME UNCHANGED sysVars PROVE OkInv'
  BY <1>0, <1>4 DEF sysVars, vars, tcpVars, cliVars, OkInv, CarriedOut
<1>5. QED BY <1>1, <1>2, <1>3, <1>4 DEF SysNext

LEMMA PromiseInvInit == SysInit => PromiseInv
<1>1. SysInit => OkInv
  BY DEF SysInit, ClientInit, OkInv
<1>2. SysInit => AnswersInv
  BY InitAnswers DEF SysInit
<1>3. QED BY <1>1, <1>2, ReportInvInit DEF PromiseInv

LEMMA PromiseInvStep == ASSUME PromiseInv, [SysNext]_sysVars PROVE PromiseInv'
<1>1. ReportInv' BY ReportInvStep DEF PromiseInv
<1>2. AnswersInv' BY SysStep, AnswersStep DEF PromiseInv, ReportInv
<1>3. QED BY <1>1, <1>2, OkInvStep DEF PromiseInv

-----------------------------------------------------------------------------
(* What the user sees of a step. *)

Asked == {c \in Conns : cli[c] # "free"}
Accomplished == {c \in Conns : cli[c] # "free" /\ CarriedOut(c)}
Verdict(c) ==
  IF cpc[c] # "finished" THEN "nothing" ELSE IF result[c] = OK THEN "done" ELSE "failed"
Told == [c \in Conns |-> Verdict(c)]

LEMMA InitSeen == SysInit => Promise!RemoteInit
<1>1. SysInit => Promise!RemoteInit
  BY DEF SysInit, Init, TcpInit, ClientInit, Promise!RemoteInit
<1>2. QED BY <1>1

LEMMA ServerSeen ==
  ASSUME PromiseInv, ServerStep \/ AcceptFails \/ Restart, UNCHANGED cliVars
  PROVE  [Promise!RemoteNext]_(Promise!remoteVars)
<1>1. Serves /\ OnlyAnswers BY ServerServes, ServerKeeps DEF PromiseInv
<1>2. UNCHANGED <<cli, cpc, result>> BY <1>1 DEF OnlyAnswers, cliVars
<1>3. Asked' = Asked /\ Told' = Told BY <1>2 DEF Asked, Told, Verdict
<1>4. CASE \A c \in Conns : CarriedOut(c)' <=> CarriedOut(c)
  <2>1. Accomplished' = Accomplished BY <1>2, <1>4 DEF Accomplished
  <2>2. UNCHANGED Promise!remoteVars
    BY <1>3, <2>1 DEF Promise!remoteVars, Asked, Accomplished, Told, Verdict
  <2>3. QED BY <2>2
<1>5. ASSUME NEW d \in Conns, cli[d] # "free", ~CarriedOut(d), CarriedOut(d)',
             \A c \in Conns : c # d => (CarriedOut(c)' <=> CarriedOut(c))
      PROVE  Promise!RemoteNext
  <2>1. d \in Asked \ Accomplished BY <1>5 DEF Asked, Accomplished
  <2>2. Accomplished' = Accomplished \cup {d} BY <1>2, <1>5 DEF Accomplished
  <2>3. Promise!CarryOut(d)
    BY <1>3, <2>1, <2>2 DEF Promise!CarryOut, Asked, Accomplished, Told, Verdict
  <2>4. QED BY <2>3 DEF Promise!RemoteNext
<1>6. QED BY <1>1, <1>4, <1>5, ServerCarriesOut

\* A verdict, or nothing the user could see.
LEMMA MovesSeen ==
  ASSUME PromiseInv, NEW c \in Conns, ClientStep(c), Moves(c)
  PROVE  [Promise!RemoteNext]_(Promise!remoteVars)
<1>1. ASSUME NEW d \in Conns
      PROVE  /\ cli'[d] # "free" <=> cli[d] # "free"
             /\ CarriedOut(d)' <=> CarriedOut(d)
             /\ d # c => cpc'[d] = cpc[d] /\ result'[d] = result[d]
  <2>1. CASE d = c BY <2>1, DoneStays DEF Moves
  <2>2. CASE d # c BY <2>2, OthersStay, DoneStays
  <2>3. QED BY <2>1, <2>2
<1>2. Asked' = Asked /\ Accomplished' = Accomplished
  BY <1>1 DEF Asked, Accomplished
<1>3. CASE cpc[c] = "closing" /\ cpc'[c] = "finished" /\ result'[c] = result[c]
  <2>1. Told[c] = "nothing" BY <1>3 DEF Told, Verdict
  <2>2. \A d \in Conns : d # c => Verdict(d)' = Verdict(d)
    BY <1>1 DEF Verdict
  <2>3. Told' = [Told EXCEPT ![c] = Verdict(c)']
    BY <2>2 DEF Told
  <2>4. CASE result[c] = OK
    <3>1. c \in Accomplished BY <1>3, <2>4 DEF PromiseInv, OkInv, Accomplished
    <3>2. Verdict(c)' = "done" BY <1>3, <2>4 DEF Verdict
    <3>3. Promise!Tell(c, "done")
      BY <1>2, <2>1, <2>3, <3>1, <3>2 DEF Promise!Tell, Asked, Accomplished, Told, Verdict
    <3>4. QED BY <3>3 DEF Promise!RemoteNext
  <2>5. CASE result[c] # OK
    <3>1. Verdict(c)' = "failed" BY <1>3, <2>5 DEF Verdict
    <3>2. Promise!Tell(c, "failed")
      BY <1>2, <2>1, <2>3, <3>1 DEF Promise!Tell, Asked, Accomplished, Told, Verdict
    <3>3. QED BY <3>2 DEF Promise!RemoteNext
  <2>6. QED BY <2>4, <2>5
<1>4. CASE cpc[c] # "finished" /\ cpc'[c] = "finished" /\ result'[c] # OK
  <2>1. Told[c] = "nothing" BY <1>4 DEF Told, Verdict
  <2>2. \A d \in Conns : d # c => Verdict(d)' = Verdict(d)
    BY <1>1 DEF Verdict
  <2>3. Verdict(c)' = "failed" BY <1>4 DEF Verdict
  <2>4. Told' = [Told EXCEPT ![c] = "failed"]
    BY <2>2, <2>3 DEF Told
  <2>5. Promise!Tell(c, "failed")
    BY <1>2, <2>1, <2>4 DEF Promise!Tell, Asked, Accomplished, Told, Verdict
  <2>6. QED BY <2>5 DEF Promise!RemoteNext
<1>5. CASE cpc[c] # "finished" /\ cpc'[c] # "finished"
  <2>1. \A d \in Conns : Verdict(d)' = Verdict(d)
    BY <1>1, <1>5 DEF Verdict
  <2>2. Told' = Told BY <2>1 DEF Told
  <2>3. UNCHANGED Promise!remoteVars
    BY <1>2, <2>2 DEF Promise!remoteVars, Asked, Accomplished, Told, Verdict
  <2>4. QED BY <2>3
<1>6. QED BY <1>3, <1>4, <1>5 DEF Moves

\* A new connection is a new request, and nothing has been done for it.
LEMMA ConnectSeen ==
  ASSUME PromiseInv, NEW c \in Conns, ClientStep(c), Connect(c)
  PROVE  Promise!Ask(c)
<1>1. PICK r \in Requests[c] : ConnectTo(c, r)
  BY DEF Connect
<1>2. /\ cli[c] = "free" /\ cpc[c] = "idle"
      /\ cli'[c] = "open" /\ cpc'[c] = "open" /\ req'[c] = r /\ out' = out
  BY <1>1 DEF Connect, ConnectTo, CGoto, PromiseInv, ReportInv, SysInv, ClientTypeOK,
              IInv, TypeOK, TcpTypeOK
<1>3. ~CarriedOut(c)'
  <2>1. out'[c] = <<>>
    BY <1>2 DEF PromiseInv, AnswersInv, IInv, SocketInv, RestTold
  <2>2. r \in Request /\ r.size \in Nat
    BY TcpAssumption, ProtocolAssumption DEF Request
  <2>3. Len(FullAnswer(r)) =
          IF r.id # "HDR" THEN 1 ELSE IF r.plugin = PEEK THEN 1 + r.size ELSE 2
    BY <2>2, FullAnswerLen
  <2>4. Len(FullAnswer(r)) # 0 BY <2>2, <2>3
  <2>5. Len(<<>>) = 0 OBVIOUS
  <2>6. out'[c] # FullAnswer(req'[c]) BY <1>2, <2>1, <2>4, <2>5
  <2>7. QED BY <2>6 DEF CarriedOut
<1>4. ASSUME NEW d \in Conns, d # c
      PROVE  /\ cli'[d] = cli[d] /\ (CarriedOut(d)' <=> CarriedOut(d))
             /\ cpc'[d] = cpc[d] /\ result'[d] = result[d]
  BY <1>4, OthersStay, DoneStays
<1>5. c \notin Asked /\ Asked' = Asked \cup {c}
  BY <1>2, <1>4 DEF Asked
<1>6. Accomplished' = Accomplished
  BY <1>2, <1>3, <1>4 DEF Accomplished
<1>7. Told[c] = "nothing" /\ Told' = Told
  <2>1. \A d \in Conns : Verdict(d)' = Verdict(d) BY <1>2, <1>4 DEF Verdict
  <2>2. QED BY <1>2, <2>1 DEF Told, Verdict
<1>8. QED
  BY <1>5, <1>6, <1>7 DEF Promise!Ask, Asked, Accomplished, Told, Verdict

\* The next invocation of the client forgets the last.
LEMMA AgainSeen ==
  ASSUME PromiseInv, NEW c \in Conns, ClientStep(c), Again(c)
  PROVE  Promise!AskAgain(c)
<1>1. cpc[c] = "finished" /\ cpc'[c] = "idle" /\ cli'[c] = "free"
  BY DEF Again, Forget, CGoto, PromiseInv, ReportInv, SysInv, ClientTypeOK,
         IInv, TypeOK, TcpTypeOK, tcpVars
<1>2. ASSUME NEW d \in Conns, d # c
      PROVE  /\ cli'[d] = cli[d] /\ (CarriedOut(d)' <=> CarriedOut(d))
             /\ cpc'[d] = cpc[d] /\ result'[d] = result[d]
  BY <1>2, OthersStay, DoneStays
<1>3. Asked' = Asked \ {c} BY <1>1, <1>2 DEF Asked
<1>4. Accomplished' = Accomplished \ {c} BY <1>1, <1>2 DEF Accomplished
<1>5. Told[c] # "nothing" BY <1>1 DEF Told, Verdict
<1>6. Told' = [Told EXCEPT ![c] = "nothing"]
  <2>1. \A d \in Conns : d # c => Verdict(d)' = Verdict(d) BY <1>2 DEF Verdict
  <2>2. Verdict(c)' = "nothing" BY <1>1 DEF Verdict
  <2>3. QED BY <2>1, <2>2 DEF Told
<1>7. QED
  BY <1>3, <1>4, <1>5, <1>6 DEF Promise!AskAgain, Asked, Accomplished, Told, Verdict

\* Every step of the system is one of RemoteExec, or nothing to the user.
LEMMA StepSeen ==
  ASSUME PromiseInv, [SysNext]_sysVars
  PROVE  [Promise!RemoteNext]_(Promise!remoteVars)
<1>1. ASSUME ServerStep \/ AcceptFails \/ Restart, UNCHANGED cliVars
      PROVE  [Promise!RemoteNext]_(Promise!remoteVars)
  BY <1>1, ServerSeen
<1>2. ASSUME NEW c \in Conns, ClientStep(c)
      PROVE  [Promise!RemoteNext]_(Promise!remoteVars)
  <2>1. CASE Connect(c) BY <1>2, <2>1, ConnectSeen DEF Promise!RemoteNext
  <2>2. CASE Again(c) BY <1>2, <2>2, AgainSeen DEF Promise!RemoteNext
  <2>3. CASE Moves(c) BY <1>2, <2>3, MovesSeen
  <2>4. QED BY <1>2, <2>1, <2>2, <2>3, ClientMoves
<1>3. ASSUME UNCHANGED <<req, out, rcvd, cli, cpc, result>>
      PROVE  UNCHANGED Promise!remoteVars
  <2>1. Asked' = Asked /\ Accomplished' = Accomplished /\ Told' = Told
    BY <1>3, DoneStays DEF Asked, Accomplished, Told, Verdict
  <2>2. QED BY <2>1 DEF Promise!remoteVars, Asked, Accomplished, Told, Verdict
<1>4. ASSUME NEW c \in Conns, Network(c), UNCHANGED cliVars
      PROVE  UNCHANGED Promise!remoteVars
  BY <1>3, <1>4 DEF Network, Reset, cliVars
<1>5. ASSUME UNCHANGED sysVars PROVE UNCHANGED Promise!remoteVars
  BY <1>3, <1>5 DEF sysVars, vars, tcpVars, cliVars
<1>6. QED BY <1>1, <1>2, <1>4, <1>5 DEF SysNext

-----------------------------------------------------------------------------
\* The clients never send more than their header announced and a block, and
\* begin each connection from the start.
THEOREM Pace == SysSpec => []PaceInv
<1>1. SysInv => PaceInv BY DEF SysInv
<1>2. QED BY SysInvInit, SysInvStep, <1>1, PTL DEF SysSpec

\* The system implements Server: the client assumes nothing of the server and
\* does nothing to it that Server's peers may not do.
THEOREM Closed == SysSpec => Spec
<1>1. SysInit => Init BY DEF SysInit
<1>2. QED BY <1>1, SysInvInit, SysInvStep, SysStep, PTL DEF SysSpec, Spec

\* With the clients of the repository, too, no session leaves anything behind.
THEOREM SystemNoLeak == SysSpec => []NothingLeaks
  BY Closed, NoLeak, PTL

\* With the clients of the repository, too, a program runs only when it was
\* loaded completely.
THEOREM SystemRunsLoaded == SysSpec => []RunsOnlyLoaded
  BY Closed, RunsLoaded, PTL

\* With the clients of the repository, too, the program gives up a session
\* without an answer only at the end of a dump or over a peer that is gone.
THEOREM SystemNobodyLeftSilent == SysSpec => []NoSilentCloseBut
  BY Closed, NobodyLeftSilent, PTL

\* With the clients of the repository, too, an upload that is acknowledged as
\* complete has been received to its announced size.
THEOREM SystemOkIsReceived == SysSpec => []OkMeansReceived
  BY Closed, OkIsReceived, PTL

\* The client of an upload or a command that has read an error exits with it:
\* no failed send(), close or later answer puts another in its place.
THEOREM SystemErrorsSurface == SysSpec => []ErrorsSurface
<1>1. ReportInv => ErrorsSurface
  <2> SUFFICES ASSUME ReportInv, NEW c \in Conns, cpc[c] = "finished",
                      Len(out[c]) > 0, ~IsPeek(req[c]), got[c] = Len(out[c]),
                      out[c][Len(out[c])] # OK
               PROVE  result[c] \in {out[c][Len(out[c])], "killed"}
    BY DEF ErrorsSurface
  <2>1. QED BY DEF ReportInv, ReadInv, ReadBy
<1>2. QED BY ReportInvInit, ReportInvStep, <1>1, PTL DEF SysSpec

\* demotool keeps its promise: nothing is done unasked or twice, whatever is
\* done was asked for, and an exit code of 0 means that the server has read all
\* of the request and answered it in full.  It implements RemoteExec.
THEOREM SystemKeepsPromise == SysSpec => KeepsPromise
<1>1. SysInit => Promise!RemoteInit BY InitSeen
<1>2. PromiseInv /\ [SysNext]_sysVars => [Promise!RemoteNext]_(Promise!remoteVars)
  BY StepSeen
<1>3. PromiseInv /\ [SysNext]_sysVars => PromiseInv'
  BY PromiseInvStep
<1>4. QED
  BY <1>1, <1>2, <1>3, PromiseInvInit, PTL DEF SysSpec, KeepsPromise, Promise!RemoteSpec
=============================================================================
