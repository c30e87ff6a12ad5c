---------------------------- MODULE ServerProof -----------------------------
(***************************************************************************)
(* Proofs about the server, for any set of connections, any requests, any   *)
(* plugin list and any sizes.  From IInv follow the types, the resource     *)
(* ledger, the sockets and the conditions under which a program is run; from *)
(* AnswersInv, in the second half, what the server tells its clients.        *)
(***************************************************************************)
EXTENDS ServerInv, TLAPS

\* A connection nobody has made has some request of its client.
LEMMA UnmadeOK == ASSUME NEW c \in Conns PROVE Unmade(c) \in Request
  BY TcpAssumption DEF Unmade

\* recv() returns a number, and at the points that call it or send() the
\* connection is one of Conns.
LEMMA RecvInt ==
  ASSUME NEW c, NEW m \in Int
  PROVE  RecvResults(c, m) \subseteq Int
  BY DEF RecvResults

LEMMA ActiveOpen ==
  ASSUME IInv, pc \in OnConnection
  PROVE  active \in Conns /\ srv[active] = "open"
  BY DEF IInv, SocketInv

LEMMA PeerRequest ==
  ASSUME IInv, NEW c \in Conns
  PROVE  req[c] \in Request
  BY DEF IInv, TypeOK, TcpTypeOK

\* What the receive loops ask for is a number.
LEMMA AskTypes ==
  ASSUME IInv
  PROVE  /\ pc = "lsg.recv" => LsgAsk \in Int
         /\ AdfAsk \in Int
  BY PluginAssumption
     DEF IInv, TypeOK, SrvTypeOK, HeaderInv, WithTmpFile, Request, LsgAsk, AdfAsk

\* recv() and send() leave the connections well typed.
LEMMA RecvTypes ==
  ASSUME TcpTypeOK, NEW c \in Conns, NEW m \in Int,
         NEW len \in RecvResults(c, m), Consume(c, len)
  PROVE  TcpTypeOK'
  BY RecvInt DEF Consume, TcpTypeOK

LEMMA EmitTypes ==
  ASSUME TcpTypeOK, NEW c \in Conns, NEW token \in Tokens, Emit(c, token)
  PROVE  TcpTypeOK'
  BY DEF Emit, TcpTypeOK

\* Whatever a client does leaves the connections well typed.
LEMMA PeerTypes ==
  ASSUME TcpTypeOK, NEW c \in Conns, Peer(c)
  PROVE  TcpTypeOK'
<1>1. ASSUME NEW r \in Requests[c], Connected(c, r) PROVE TcpTypeOK'
  BY <1>1, TcpAssumption DEF Connected, ConnectTo, TcpTypeOK
<1>2. CASE ClientSend(c)
  BY <1>2 DEF ClientSend, TcpTypeOK
<1>3. CASE ClientRead(c)
  BY <1>3 DEF ClientRead, TcpTypeOK
<1>4. CASE ClientClose(c)
  BY <1>4 DEF ClientClose, TcpTypeOK
<1>5. CASE Forget(c)
  BY <1>5, UnmadeOK DEF Forget, TcpTypeOK
<1>6. QED
  BY <1>1, <1>2, <1>3, <1>4, <1>5 DEF Peer

\* The server starts with nothing held and nothing connected.
LEMMA InitIInv == Init => IInv
  <1> SUFFICES ASSUME Init PROVE IInv
    OBVIOUS
  <1> USE DEF Init, TcpInit
  <1>1. TypeOK
    BY UnmadeOK DEF TypeOK, TcpTypeOK, SrvTypeOK, Points, Results
  <1>2. LedgerInv
    BY DEF LedgerInv, BareSession, WithHeader, WithContext, WithTmpFile, AfterExec
  <1>3. HeaderInv
    BY DEF HeaderInv, WithContext, WithTmpFile, AfterExec
  <1>4. SocketInv
    BY DEF SocketInv, OnConnection
  <1>5. LoadedInv /\ AnswerInv
    BY DEF LoadedInv, AnswerInv
  <1>6. QED
    BY <1>1, <1>2, <1>3, <1>4, <1>5 DEF IInv

\* Every step leaves the connections well typed.
LEMMA TcpTypeStep ==
  ASSUME IInv, [Next]_vars
  PROVE  TcpTypeOK'
<1> USE DEF IInv, TypeOK, SrvTypeOK, Goto, Plugin
<1>1. CASE StartServer BY <1>1 DEF StartServer, tcpVars, TcpTypeOK
<1>2. ASSUME NEW c \in Conns, Accept(c) PROVE TcpTypeOK'
  BY <1>2 DEF Accept, tcpVars, TcpTypeOK
<1>3. CASE AcceptFails BY <1>3 DEF AcceptFails, tcpVars, TcpTypeOK
<1>4. CASE EndSession
  BY <1>4 DEF EndSession, tcpVars, CloseServerEnd, TcpTypeOK
<1>5. CASE StopServer BY <1>5 DEF StopServer, tcpVars, TcpTypeOK
<1>6. CASE Restart BY <1>6 DEF Restart, tcpVars, TcpTypeOK
<1>7. CASE ReadId
  <2>1. active \in Conns BY <1>7, ActiveOpen DEF ReadId, OnConnection, Points
  <2>2. PICK len \in RecvResults(active, 1) : Consume(active, len)
    BY <1>7 DEF ReadId, RecvSafe
  <2>3. QED BY <2>1, <2>2, RecvTypes
<1>8. CASE Command
  <2>1. active \in Conns BY <1>8, ActiveOpen DEF Command, OnConnection, Points
  <2>2. Emit(active, OK) /\ OK \in Tokens BY <1>8 DEF Command, Tokens, Codes
  <2>3. QED BY <2>1, <2>2, EmitTypes
<1>9. CASE Reject
  <2>1. active \in Conns BY <1>9, ActiveOpen DEF Reject, OnConnection, Points
  <2>2. Emit(active, ret) /\ ret \in Tokens BY <1>9 DEF Reject, Tokens, AnswerInv
  <2>3. QED BY <2>1, <2>2, EmitTypes
<1>10. CASE ReadHeader
  <2>1. active \in Conns BY <1>10, ActiveOpen DEF ReadHeader, OnConnection, Points
  <2>2. PICK len \in RecvResults(active, 1) : Consume(active, len)
    BY <1>10 DEF ReadHeader, RecvSafe
  <2>3. QED BY <2>1, <2>2, RecvTypes
<1>11. CASE SelectPlugin BY <1>11 DEF SelectPlugin, tcpVars, TcpTypeOK
<1>12. CASE InitFailed BY <1>12 DEF InitFailed, tcpVars, TcpTypeOK
<1>13. CASE Acknowledge
  <2>1. active \in Conns BY <1>13, ActiveOpen DEF Acknowledge, OnConnection, Points
  <2>2. Emit(active, OK) /\ OK \in Tokens BY <1>13 DEF Acknowledge, Tokens, Codes
  <2>3. QED BY <2>1, <2>2, EmitTypes
<1>14. CASE CloseConnection
  BY <1>14 DEF CloseConnection, tcpVars, CloseServerEnd, TcpTypeOK
<1>15. CASE Done BY <1>15 DEF Done, tcpVars, TcpTypeOK
<1>16. CASE RecvSpins
  BY <1>16 DEF RecvSpins, vars, srvVars, tcpVars, TcpTypeOK
<1>17. CASE LsgInit
  BY <1>17 DEF LsgInit, InitDone, InitFails, tcpVars, TcpTypeOK
<1>18. CASE LsgExec BY <1>18 DEF LsgExec, tcpVars, TcpTypeOK
<1>19. CASE LsgRecv
  <2>1. active \in Conns BY <1>19, ActiveOpen DEF LsgRecv, OnConnection, Points
  <2>2. PICK len \in RecvResults(active, LsgAsk) : Consume(active, len)
    BY <1>19 DEF LsgRecv
  <2>3. QED BY <2>1, <2>2, RecvTypes, AskTypes, <1>19 DEF LsgRecv
<1>20. CASE LsgRecvEnds BY <1>20 DEF LsgRecvEnds, tcpVars, TcpTypeOK
<1>21. CASE LsgLoad BY <1>21 DEF LsgLoad, tcpVars, TcpTypeOK
<1>22. CASE LsgRun BY <1>22 DEF LsgRun, RunReturns, tcpVars, TcpTypeOK
<1>23. CASE AdrInit
  BY <1>23 DEF AdrInit, InitDone, InitFails, tcpVars, TcpTypeOK
<1>24. CASE AdrExec BY <1>24 DEF AdrExec, tcpVars, TcpTypeOK
<1>25. CASE AdrRecv
  <2>1. active \in Conns BY <1>25, ActiveOpen DEF AdrRecv, OnConnection, Points
  <2>2. PICK len \in RecvResults(active, BlockMax) : Consume(active, len)
    BY <1>25 DEF AdrRecv
  <2>3. QED BY <2>1, <2>2, RecvTypes, PluginAssumption
<1>26. CASE AdrRecvEnds BY <1>26 DEF AdrRecvEnds, tcpVars, TcpTypeOK
<1>27. CASE AdrRun BY <1>27 DEF AdrRun, RunReturns, tcpVars, TcpTypeOK
<1>28. CASE AdfInit
  BY <1>28 DEF AdfInit, InitDone, InitFails, tcpVars, TcpTypeOK
<1>29. CASE AdfExec BY <1>29 DEF AdfExec, tcpVars, TcpTypeOK
<1>30. CASE AdfRecv
  <2>1. active \in Conns BY <1>30, ActiveOpen DEF AdfRecv, OnConnection, Points
  <2>2. PICK len \in RecvResults(active, AdfAsk) : Consume(active, len)
    BY <1>30 DEF AdfRecv
  <2>3. QED BY <2>1, <2>2, RecvTypes, AskTypes
<1>31. CASE AdfWrite BY <1>31 DEF AdfWrite, tcpVars, TcpTypeOK
<1>32. CASE AdfMotor BY <1>32 DEF AdfMotor, tcpVars, TcpTypeOK
<1>33. CASE AdfRun BY <1>33 DEF AdfRun, RunReturns, tcpVars, TcpTypeOK
<1>34. CASE PeekInit
  BY <1>34 DEF PeekInit, InitDone, InitFails, tcpVars, TcpTypeOK
<1>35. CASE PeekExec BY <1>35 DEF PeekExec, tcpVars, TcpTypeOK
<1>36. CASE PeekSend
  <2>1. active \in Conns BY <1>36, ActiveOpen DEF PeekSend, OnConnection, Points
  <2>2. (Emit(active, DATA) /\ DATA \in Tokens) \/ UNCHANGED tcpVars
    BY <1>36 DEF PeekSend, Tokens
  <2>3. QED BY <2>1, <2>2, EmitTypes DEF tcpVars, TcpTypeOK
<1>37. CASE PeekEnds BY <1>37 DEF PeekEnds, tcpVars, TcpTypeOK
<1>38. CASE PeekRun BY <1>38 DEF PeekRun, RunReturns, tcpVars, TcpTypeOK
<1>39. CASE Answer
  <2>1. active \in Conns BY <1>39, ActiveOpen DEF Answer, OnConnection, Points
  <2>2. Emit(active, ret) /\ ret \in Tokens BY <1>39 DEF Answer, Tokens, AnswerInv
  <2>3. QED BY <2>1, <2>2, EmitTypes
<1>40. ASSUME NEW c \in Conns, Peer(c) PROVE TcpTypeOK'
  BY <1>40, PeerTypes DEF Peer, srvVars, tcpVars
<1>41. ASSUME NEW c \in Conns, Network(c) PROVE TcpTypeOK'
  BY <1>41 DEF Network, srvVars, tcpVars, Reset, TcpTypeOK
<1>42. CASE UNCHANGED vars BY <1>42 DEF vars, tcpVars, srvVars, TcpTypeOK
<1>43. QED
  BY <1>1, <1>2, <1>3, <1>4, <1>5, <1>6, <1>7, <1>8, <1>9, <1>10, <1>11,
     <1>12, <1>13, <1>14, <1>15, <1>16, <1>17, <1>18, <1>19, <1>20, <1>21,
     <1>22, <1>23, <1>24, <1>25, <1>26, <1>27, <1>28, <1>29, <1>30, <1>31,
     <1>32, <1>33, <1>34, <1>35, <1>36, <1>37, <1>38, <1>39, <1>40, <1>41,
     <1>42 DEF Next, ServerStep, Loader, Plugins, LsgNext, AdrNext, AdfNext,
     PeekNext

\* Every step keeps the types of the server's own variables.
LEMMA SrvTypeStep ==
  ASSUME IInv, [Next]_vars
  PROVE  SrvTypeOK'
<1> USE DEF IInv, TypeOK, SrvTypeOK, Points, Resources, Results, Codes,
        ServerErrors, Commands, Goto, Plugin
<1>1. CASE StartServer BY <1>1 DEF StartServer, Listening
<1>2. ASSUME NEW c \in Conns, Accept(c) PROVE SrvTypeOK' BY <1>2 DEF Accept
<1>3. CASE AcceptFails BY <1>3 DEF AcceptFails
<1>4. CASE EndSession BY <1>4 DEF EndSession, tcpVars
<1>5. CASE StopServer BY <1>5 DEF StopServer, tcpVars
<1>6. CASE Restart BY <1>6 DEF Restart
<1>7. CASE ReadId BY <1>7 DEF ReadId, IdError, MinusTwo
<1>8. CASE Command BY <1>8 DEF Command
<1>9. CASE Reject BY <1>9 DEF Reject
<1>10. CASE ReadHeader
  <2>1. req[active] \in Request
    BY <1>10, ActiveOpen, PeerRequest DEF ReadHeader, OnConnection
  <2>2. QED BY <1>10, <2>1 DEF ReadHeader
<1>11. CASE SelectPlugin BY <1>11 DEF SelectPlugin
<1>12. CASE InitFailed BY <1>12 DEF InitFailed
<1>13. CASE Acknowledge BY <1>13 DEF Acknowledge
<1>14. CASE CloseConnection BY <1>14 DEF CloseConnection
<1>15. CASE Done BY <1>15 DEF Done
<1>16. CASE RecvSpins BY <1>16 DEF RecvSpins, vars, srvVars, tcpVars
<1>17. CASE LsgInit BY <1>17 DEF LsgInit, InitDone, InitFails
<1>18. CASE LsgExec
  <2>1. pc' \in Points /\ ret' \in Results BY <1>18 DEF LsgExec
  <2>2. cnt' \in Nat BY <1>18 DEF LsgExec
  <2>4. held' \subseteq Resources BY <1>18 DEF LsgExec, Resources
  <2>3. QED BY <1>18, <2>1, <2>2, <2>4 DEF LsgExec
<1>19. CASE LsgRecv BY <1>19, RecvInt, AskTypes DEF LsgRecv
<1>20. CASE LsgRecvEnds BY <1>20 DEF LsgRecvEnds
<1>21. CASE LsgLoad BY <1>21 DEF LsgLoad
<1>22. CASE LsgRun BY <1>22 DEF LsgRun, RunReturns
<1>23. CASE AdrInit BY <1>23 DEF AdrInit, InitDone, InitFails
<1>24. CASE AdrExec BY <1>24 DEF AdrExec
<1>25. CASE AdrRecv BY <1>25, RecvInt, PluginAssumption DEF AdrRecv
<1>26. CASE AdrRecvEnds BY <1>26 DEF AdrRecvEnds
<1>27. CASE AdrRun BY <1>27 DEF AdrRun, RunReturns
<1>28. CASE AdfInit BY <1>28 DEF AdfInit, InitDone, InitFails, DrivesFound
<1>29. CASE AdfExec BY <1>29 DEF AdfExec
<1>30. CASE AdfRecv BY <1>30, RecvInt, AskTypes DEF AdfRecv
<1>31. CASE AdfWrite BY <1>31, PluginAssumption DEF AdfWrite
<1>32. CASE AdfMotor BY <1>32 DEF AdfMotor
<1>33. CASE AdfRun BY <1>33 DEF AdfRun, RunReturns
<1>34. CASE PeekInit BY <1>34 DEF PeekInit, InitDone, InitFails
<1>35. CASE PeekExec BY <1>35 DEF PeekExec
<1>36. CASE PeekSend BY <1>36 DEF PeekSend
<1>37. CASE PeekEnds BY <1>37 DEF PeekEnds
<1>38. CASE PeekRun BY <1>38 DEF PeekRun, RunReturns
<1>39. CASE Answer BY <1>39 DEF Answer
<1>40. ASSUME NEW c \in Conns, Peer(c) PROVE SrvTypeOK'
  BY <1>40 DEF Peer, srvVars
<1>41. ASSUME NEW c \in Conns, Network(c) PROVE SrvTypeOK'
  BY <1>41 DEF Network, srvVars
<1>42. CASE UNCHANGED vars BY <1>42 DEF vars, tcpVars, srvVars
<1>43. QED
  BY <1>1, <1>2, <1>3, <1>4, <1>5, <1>6, <1>7, <1>8, <1>9, <1>10, <1>11,
     <1>12, <1>13, <1>14, <1>15, <1>16, <1>17, <1>18, <1>19, <1>20, <1>21,
     <1>22, <1>23, <1>24, <1>25, <1>26, <1>27, <1>28, <1>29, <1>30, <1>31,
     <1>32, <1>33, <1>34, <1>35, <1>36, <1>37, <1>38, <1>39, <1>40, <1>41,
     <1>42 DEF Next, ServerStep, Loader, Plugins, LsgNext, AdrNext, AdfNext,
     PeekNext

\* Every step moves the ledger as the point it reaches demands.
LEMMA LedgerStep ==
  ASSUME IInv, [Next]_vars
  PROVE  LedgerInv'
<1> USE DEF IInv, LedgerInv, HeaderInv, Context, DoneReleases, LsgDone, AdrDone,
        AdfDone, PeekDone, DoneNullReleases, Listening, BareSession, WithHeader,
        WithContext, WithTmpFile, AfterExec, Goto, Plugin
<1>1. CASE StartServer BY <1>1 DEF StartServer
<1>2. ASSUME NEW c \in Conns, Accept(c) PROVE LedgerInv' BY <1>2 DEF Accept
<1>3. CASE AcceptFails BY <1>3 DEF AcceptFails
<1>4. CASE EndSession BY <1>4 DEF EndSession, tcpVars
<1>5. CASE StopServer BY <1>5 DEF StopServer, tcpVars
<1>6. CASE Restart BY <1>6 DEF Restart
<1>7. CASE ReadId BY <1>7 DEF ReadId
<1>8. CASE Command BY <1>8 DEF Command
<1>9. CASE Reject BY <1>9 DEF Reject
<1>10. CASE ReadHeader BY <1>10 DEF ReadHeader
<1>11. CASE SelectPlugin BY <1>11 DEF SelectPlugin
<1>12. CASE InitFailed BY <1>12 DEF InitFailed
<1>13. CASE Acknowledge BY <1>13 DEF Acknowledge
<1>14. CASE CloseConnection BY <1>14 DEF CloseConnection
<1>15. CASE Done BY <1>15 DEF Done
<1>16. CASE RecvSpins BY <1>16 DEF RecvSpins, vars, srvVars, tcpVars
<1>17. CASE LsgInit BY <1>17 DEF LsgInit, InitDone, InitFails
<1>18. CASE LsgExec BY <1>18 DEF LsgExec
<1>19. CASE LsgRecv BY <1>19 DEF LsgRecv
<1>20. CASE LsgRecvEnds BY <1>20 DEF LsgRecvEnds
<1>21. CASE LsgLoad BY <1>21 DEF LsgLoad
<1>22. CASE LsgRun BY <1>22 DEF LsgRun, RunReturns
<1>23. CASE AdrInit
  BY <1>23, ProtocolAssumption DEF AdrInit, InitDone, InitFails
<1>24. CASE AdrExec BY <1>24 DEF AdrExec
<1>25. CASE AdrRecv BY <1>25 DEF AdrRecv
<1>26. CASE AdrRecvEnds BY <1>26 DEF AdrRecvEnds
<1>27. CASE AdrRun BY <1>27 DEF AdrRun, RunReturns
<1>28. CASE AdfInit
  BY <1>28, ProtocolAssumption DEF AdfInit, InitDone, InitFails
<1>29. CASE AdfExec BY <1>29 DEF AdfExec
<1>30. CASE AdfRecv BY <1>30 DEF AdfRecv
<1>31. CASE AdfWrite BY <1>31 DEF AdfWrite
<1>32. CASE AdfMotor BY <1>32 DEF AdfMotor
<1>33. CASE AdfRun BY <1>33 DEF AdfRun, RunReturns
<1>34. CASE PeekInit
  BY <1>34, ProtocolAssumption DEF PeekInit, InitDone, InitFails
<1>35. CASE PeekExec BY <1>35 DEF PeekExec
<1>36. CASE PeekSend BY <1>36 DEF PeekSend
<1>37. CASE PeekEnds BY <1>37 DEF PeekEnds
<1>38. CASE PeekRun BY <1>38 DEF PeekRun, RunReturns
<1>39. CASE Answer BY <1>39 DEF Answer
<1>40. ASSUME NEW c \in Conns, Peer(c) PROVE LedgerInv'
  BY <1>40 DEF Peer, srvVars
<1>41. ASSUME NEW c \in Conns, Network(c) PROVE LedgerInv'
  BY <1>41 DEF Network, srvVars
<1>42. CASE UNCHANGED vars BY <1>42 DEF vars, tcpVars, srvVars
<1>43. QED
  BY <1>1, <1>2, <1>3, <1>4, <1>5, <1>6, <1>7, <1>8, <1>9, <1>10, <1>11,
     <1>12, <1>13, <1>14, <1>15, <1>16, <1>17, <1>18, <1>19, <1>20, <1>21,
     <1>22, <1>23, <1>24, <1>25, <1>26, <1>27, <1>28, <1>29, <1>30, <1>31,
     <1>32, <1>33, <1>34, <1>35, <1>36, <1>37, <1>38, <1>39, <1>40, <1>41,
     <1>42 DEF Next, ServerStep, Loader, Plugins, LsgNext, AdrNext, AdfNext,
     PeekNext

\* The header is at hand wherever the code looks at it.
LEMMA HeaderStep ==
  ASSUME IInv, [Next]_vars
  PROVE  HeaderInv'
<1> USE DEF IInv, HeaderInv, TypeOK, TcpTypeOK, SrvTypeOK, BareSession, WithHeader,
        WithContext, WithTmpFile, AfterExec, Goto, Plugin
<1>1. CASE StartServer BY <1>1 DEF StartServer
<1>2. ASSUME NEW c \in Conns, Accept(c) PROVE HeaderInv' BY <1>2 DEF Accept
<1>3. CASE AcceptFails BY <1>3 DEF AcceptFails
<1>4. CASE EndSession BY <1>4 DEF EndSession, tcpVars
<1>5. CASE StopServer BY <1>5 DEF StopServer, tcpVars
<1>6. CASE Restart BY <1>6 DEF Restart
<1>7. CASE ReadId BY <1>7 DEF ReadId
<1>8. CASE Command BY <1>8 DEF Command
<1>9. CASE Reject BY <1>9 DEF Reject
<1>10. CASE ReadHeader
  BY <1>10 DEF ReadHeader, RecvSafe, SocketInv, OnConnection, Points
<1>11. CASE SelectPlugin BY <1>11 DEF SelectPlugin
<1>12. CASE InitFailed BY <1>12 DEF InitFailed
<1>13. CASE Acknowledge BY <1>13 DEF Acknowledge
<1>14. CASE CloseConnection BY <1>14 DEF CloseConnection
<1>15. CASE Done BY <1>15 DEF Done
<1>16. CASE RecvSpins BY <1>16 DEF RecvSpins, vars, srvVars, tcpVars
<1>17. CASE LsgInit BY <1>17 DEF LsgInit, InitDone, InitFails
<1>18. CASE LsgExec BY <1>18 DEF LsgExec
<1>19. CASE LsgRecv BY <1>19 DEF LsgRecv
<1>20. CASE LsgRecvEnds BY <1>20 DEF LsgRecvEnds
<1>21. CASE LsgLoad BY <1>21 DEF LsgLoad
<1>22. CASE LsgRun BY <1>22 DEF LsgRun, RunReturns
<1>23. CASE AdrInit BY <1>23 DEF AdrInit, InitDone, InitFails
<1>24. CASE AdrExec BY <1>24 DEF AdrExec
<1>25. CASE AdrRecv BY <1>25 DEF AdrRecv
<1>26. CASE AdrRecvEnds BY <1>26 DEF AdrRecvEnds
<1>27. CASE AdrRun BY <1>27 DEF AdrRun, RunReturns
<1>28. CASE AdfInit BY <1>28 DEF AdfInit, InitDone, InitFails
<1>29. CASE AdfExec BY <1>29 DEF AdfExec
<1>30. CASE AdfRecv BY <1>30 DEF AdfRecv
<1>31. CASE AdfWrite BY <1>31 DEF AdfWrite
<1>32. CASE AdfMotor BY <1>32 DEF AdfMotor
<1>33. CASE AdfRun BY <1>33 DEF AdfRun, RunReturns
<1>34. CASE PeekInit BY <1>34 DEF PeekInit, InitDone, InitFails
<1>35. CASE PeekExec BY <1>35 DEF PeekExec
<1>36. CASE PeekSend BY <1>36 DEF PeekSend
<1>37. CASE PeekEnds BY <1>37 DEF PeekEnds
<1>38. CASE PeekRun BY <1>38 DEF PeekRun, RunReturns
<1>39. CASE Answer BY <1>39 DEF Answer
<1>40. ASSUME NEW c \in Conns, Peer(c) PROVE HeaderInv'
  BY <1>40 DEF Peer, srvVars
<1>41. ASSUME NEW c \in Conns, Network(c) PROVE HeaderInv'
  BY <1>41 DEF Network, srvVars
<1>42. CASE UNCHANGED vars BY <1>42 DEF vars, tcpVars, srvVars
<1>43. QED
  BY <1>1, <1>2, <1>3, <1>4, <1>5, <1>6, <1>7, <1>8, <1>9, <1>10, <1>11,
     <1>12, <1>13, <1>14, <1>15, <1>16, <1>17, <1>18, <1>19, <1>20, <1>21,
     <1>22, <1>23, <1>24, <1>25, <1>26, <1>27, <1>28, <1>29, <1>30, <1>31,
     <1>32, <1>33, <1>34, <1>35, <1>36, <1>37, <1>38, <1>39, <1>40, <1>41,
     <1>42 DEF Next, ServerStep, Loader, Plugins, LsgNext, AdrNext, AdfNext,
     PeekNext

\* Sockets: one is open at a time and active_socket names it.
LEMMA SocketStep ==
  ASSUME IInv, [Next]_vars
  PROVE  SocketInv'
<1> USE DEF IInv, SocketInv, TypeOK, TcpTypeOK, SrvTypeOK, OnConnection, Points,
        Goto, Plugin
<1>1. CASE StartServer BY <1>1 DEF StartServer, tcpVars
<1>2. ASSUME NEW c \in Conns, Accept(c) PROVE SocketInv'
  BY <1>2 DEF Accept, tcpVars
<1>3. CASE AcceptFails BY <1>3 DEF AcceptFails, tcpVars
<1>4. CASE EndSession
  <2>1. CASE active = NoConn
    <3>1. \A c \in Conns : srv[c] # "open"  BY <2>1, TcpAssumption
    <3>2. UNCHANGED <<cli, srv, active>>  BY <1>4, <2>1 DEF EndSession, tcpVars
    <3>3. pc' \in {"accept", "stop"}  BY <1>4 DEF EndSession
    <3>4. QED BY <3>1, <3>2, <3>3
  <2>2. CASE active # NoConn
    <3>1. \A c \in Conns : srv'[c] # "open"
      BY <1>4, <2>2 DEF EndSession, CloseServerEnd
    <3>2. \A c \in Conns : cli'[c] = "free" => srv'[c] = "none"
      BY <1>4, <2>2 DEF EndSession, CloseServerEnd
    <3>3. QED BY <1>4, <3>1, <3>2 DEF EndSession
  <2>3. QED BY <2>1, <2>2
<1>5. CASE StopServer BY <1>5 DEF StopServer, tcpVars
<1>6. CASE Restart BY <1>6 DEF Restart, tcpVars
<1>7. CASE ReadId
  BY <1>7 DEF ReadId, RecvSafe, RecvResults, Unread, Consume, IdError,
       tcpVars
<1>8. CASE Command BY <1>8 DEF Command, Emit, tcpVars
<1>9. CASE Reject BY <1>9 DEF Reject, Emit, tcpVars
<1>10. CASE ReadHeader
  BY <1>10 DEF ReadHeader, RecvSafe, RecvResults, Unread, Consume, tcpVars
<1>11. CASE SelectPlugin BY <1>11 DEF SelectPlugin, tcpVars
<1>12. CASE InitFailed BY <1>12 DEF InitFailed, tcpVars
<1>13. CASE Acknowledge BY <1>13 DEF Acknowledge, Emit, tcpVars
<1>14. CASE CloseConnection
  BY <1>14 DEF CloseConnection, CloseServerEnd, tcpVars
<1>15. CASE Done BY <1>15 DEF Done, tcpVars
<1>16. CASE RecvSpins BY <1>16 DEF RecvSpins, vars, srvVars, tcpVars
<1>17. CASE LsgInit BY <1>17 DEF LsgInit, InitDone, InitFails, tcpVars
<1>18. CASE LsgExec BY <1>18 DEF LsgExec, tcpVars
<1>19. CASE LsgRecv
  BY <1>19 DEF LsgRecv, RecvResults, Unread, Consume, LsgAsk, tcpVars
<1>20. CASE LsgRecvEnds BY <1>20 DEF LsgRecvEnds, tcpVars
<1>21. CASE LsgLoad BY <1>21 DEF LsgLoad, tcpVars
<1>22. CASE LsgRun BY <1>22 DEF LsgRun, RunReturns, tcpVars
<1>23. CASE AdrInit BY <1>23 DEF AdrInit, InitDone, InitFails, tcpVars
<1>24. CASE AdrExec BY <1>24 DEF AdrExec, tcpVars
<1>25. CASE AdrRecv
  BY <1>25 DEF AdrRecv, RecvResults, Unread, Consume, tcpVars
<1>26. CASE AdrRecvEnds BY <1>26 DEF AdrRecvEnds, tcpVars
<1>27. CASE AdrRun BY <1>27 DEF AdrRun, RunReturns, tcpVars
<1>28. CASE AdfInit
  BY <1>28 DEF AdfInit, InitDone, InitFails, DrivesFound, tcpVars
<1>29. CASE AdfExec BY <1>29 DEF AdfExec, tcpVars
<1>30. CASE AdfRecv
  BY <1>30 DEF AdfRecv, RecvResults, Unread, Consume, AdfAsk, tcpVars
<1>31. CASE AdfWrite BY <1>31 DEF AdfWrite, tcpVars
<1>32. CASE AdfMotor BY <1>32 DEF AdfMotor, tcpVars
<1>33. CASE AdfRun BY <1>33 DEF AdfRun, RunReturns, tcpVars
<1>34. CASE PeekInit BY <1>34 DEF PeekInit, InitDone, InitFails, tcpVars
<1>35. CASE PeekExec BY <1>35 DEF PeekExec, tcpVars
<1>36. CASE PeekSend BY <1>36 DEF PeekSend, Emit, tcpVars
<1>37. CASE PeekEnds BY <1>37 DEF PeekEnds, tcpVars
<1>38. CASE PeekRun BY <1>38 DEF PeekRun, RunReturns, tcpVars
<1>39. CASE Answer BY <1>39 DEF Answer, Emit, tcpVars
<1>40. ASSUME NEW c \in Conns, Peer(c) PROVE SocketInv'
  <2>1. UNCHANGED <<pc, active>> BY <1>40 DEF Peer, srvVars
  <2>2. ASSUME NEW r \in Requests[c], Connected(c, r) PROVE SocketInv'
    BY <2>1, <2>2 DEF Connected, ConnectTo
  <2>3. CASE ClientSend(c)  BY <2>1, <2>3 DEF ClientSend
  <2>4. CASE ClientRead(c)  BY <2>1, <2>4 DEF ClientRead
  <2>5. CASE ClientClose(c)  BY <2>1, <2>5 DEF ClientClose
  <2>6. CASE Forget(c)  BY <2>1, <2>6 DEF Forget
  <2>7. QED  BY <1>40, <2>2, <2>3, <2>4, <2>5, <2>6 DEF Peer
<1>41. ASSUME NEW c \in Conns, Network(c) PROVE SocketInv'
  BY <1>41 DEF Network, srvVars, Reset, tcpVars
<1>42. CASE UNCHANGED vars BY <1>42 DEF vars, tcpVars, srvVars
<1>43. QED
  BY <1>1, <1>2, <1>3, <1>4, <1>5, <1>6, <1>7, <1>8, <1>9, <1>10, <1>11,
     <1>12, <1>13, <1>14, <1>15, <1>16, <1>17, <1>18, <1>19, <1>20, <1>21,
     <1>22, <1>23, <1>24, <1>25, <1>26, <1>27, <1>28, <1>29, <1>30, <1>31,
     <1>32, <1>33, <1>34, <1>35, <1>36, <1>37, <1>38, <1>39, <1>40, <1>41,
     <1>42 DEF Next, ServerStep, Loader, Plugins, LsgNext, AdrNext, AdfNext,
     PeekNext

\* exec() cannot report success without the whole program.
LEMMA LoadedStep ==
  ASSUME IInv, [Next]_vars
  PROVE  LoadedInv'
<1> USE DEF IInv, LoadedInv, HeaderInv, TypeOK, SrvTypeOK, AnswerInv, OK,
        BareSession, WithHeader, WithContext, WithTmpFile, AfterExec, Goto, Plugin
<1>1. CASE StartServer BY <1>1 DEF StartServer
<1>2. ASSUME NEW c \in Conns, Accept(c) PROVE LoadedInv' BY <1>2 DEF Accept
<1>3. CASE AcceptFails BY <1>3 DEF AcceptFails
<1>4. CASE EndSession BY <1>4 DEF EndSession, tcpVars
<1>5. CASE StopServer BY <1>5 DEF StopServer, tcpVars
<1>6. CASE Restart BY <1>6 DEF Restart
<1>7. CASE ReadId BY <1>7 DEF ReadId
<1>8. CASE Command BY <1>8 DEF Command
<1>9. CASE Reject BY <1>9 DEF Reject
<1>10. CASE ReadHeader BY <1>10 DEF ReadHeader
<1>11. CASE SelectPlugin BY <1>11 DEF SelectPlugin
<1>12. CASE InitFailed BY <1>12 DEF InitFailed
<1>13. CASE Acknowledge BY <1>13 DEF Acknowledge
<1>14. CASE CloseConnection BY <1>14 DEF CloseConnection
<1>15. CASE Done BY <1>15 DEF Done
<1>16. CASE RecvSpins BY <1>16 DEF RecvSpins, vars, srvVars, tcpVars
<1>17. CASE LsgInit BY <1>17 DEF LsgInit, InitDone, InitFails
<1>18. CASE LsgExec BY <1>18 DEF LsgExec
<1>19. CASE LsgRecv BY <1>19 DEF LsgRecv
<1>20. CASE LsgRecvEnds BY <1>20 DEF LsgRecvEnds
<1>21. CASE LsgLoad BY <1>21, ProtocolAssumption DEF LsgLoad
<1>22. CASE LsgRun BY <1>22 DEF LsgRun, RunReturns
<1>23. CASE AdrInit BY <1>23 DEF AdrInit, InitDone, InitFails
<1>24. CASE AdrExec BY <1>24 DEF AdrExec
<1>25. CASE AdrRecv BY <1>25 DEF AdrRecv
<1>26. CASE AdrRecvEnds
  BY <1>26, ProtocolAssumption DEF AdrRecvEnds, Request
<1>27. CASE AdrRun BY <1>27 DEF AdrRun, RunReturns
<1>28. CASE AdfInit BY <1>28 DEF AdfInit, InitDone, InitFails
<1>29. CASE AdfExec BY <1>29 DEF AdfExec
<1>30. CASE AdfRecv BY <1>30 DEF AdfRecv, RecvResults, Request
<1>31. CASE AdfWrite
  BY <1>31, ProtocolAssumption, PluginAssumption DEF AdfWrite, Request
<1>32. CASE AdfMotor BY <1>32, ProtocolAssumption DEF AdfMotor
<1>33. CASE AdfRun BY <1>33 DEF AdfRun, RunReturns
<1>34. CASE PeekInit BY <1>34 DEF PeekInit, InitDone, InitFails
<1>35. CASE PeekExec BY <1>35 DEF PeekExec
<1>36. CASE PeekSend BY <1>36 DEF PeekSend
<1>37. CASE PeekEnds BY <1>37, ProtocolAssumption DEF PeekEnds
<1>38. CASE PeekRun BY <1>38 DEF PeekRun, RunReturns
<1>39. CASE Answer BY <1>39 DEF Answer
<1>40. ASSUME NEW c \in Conns, Peer(c) PROVE LoadedInv'
  BY <1>40 DEF Peer, srvVars
<1>41. ASSUME NEW c \in Conns, Network(c) PROVE LoadedInv'
  BY <1>41 DEF Network, srvVars
<1>42. CASE UNCHANGED vars BY <1>42 DEF vars, tcpVars, srvVars
<1>43. QED
  BY <1>1, <1>2, <1>3, <1>4, <1>5, <1>6, <1>7, <1>8, <1>9, <1>10, <1>11,
     <1>12, <1>13, <1>14, <1>15, <1>16, <1>17, <1>18, <1>19, <1>20, <1>21,
     <1>22, <1>23, <1>24, <1>25, <1>26, <1>27, <1>28, <1>29, <1>30, <1>31,
     <1>32, <1>33, <1>34, <1>35, <1>36, <1>37, <1>38, <1>39, <1>40, <1>41,
     <1>42 DEF Next, ServerStep, Loader, Plugins, LsgNext, AdrNext, AdfNext,
     PeekNext

\* What is answered is an error code.
LEMMA AnswerStep ==
  ASSUME IInv, [Next]_vars
  PROVE  AnswerInv'
<1> USE DEF IInv, AnswerInv, HeaderInv, Codes, ServerErrors, BareSession,
        WithHeader, WithContext, WithTmpFile, AfterExec, Goto, Plugin
<1>1. CASE StartServer BY <1>1 DEF StartServer
<1>2. ASSUME NEW c \in Conns, Accept(c) PROVE AnswerInv' BY <1>2 DEF Accept
<1>3. CASE AcceptFails BY <1>3 DEF AcceptFails
<1>4. CASE EndSession BY <1>4 DEF EndSession, tcpVars
<1>5. CASE StopServer BY <1>5 DEF StopServer, tcpVars
<1>6. CASE Restart BY <1>6 DEF Restart
<1>7. CASE ReadId BY <1>7 DEF ReadId, IdError, MinusTwo
<1>8. CASE Command BY <1>8 DEF Command
<1>9. CASE Reject BY <1>9 DEF Reject
<1>10. CASE ReadHeader BY <1>10 DEF ReadHeader
<1>11. CASE SelectPlugin BY <1>11 DEF SelectPlugin
<1>12. CASE InitFailed BY <1>12 DEF InitFailed
<1>13. CASE Acknowledge BY <1>13 DEF Acknowledge
<1>14. CASE CloseConnection BY <1>14 DEF CloseConnection
<1>15. CASE Done BY <1>15 DEF Done
<1>16. CASE RecvSpins BY <1>16 DEF RecvSpins, vars, srvVars, tcpVars
<1>17. CASE LsgInit BY <1>17 DEF LsgInit, InitDone, InitFails
<1>18. CASE LsgExec BY <1>18 DEF LsgExec
<1>19. CASE LsgRecv BY <1>19 DEF LsgRecv
<1>20. CASE LsgRecvEnds BY <1>20 DEF LsgRecvEnds
<1>21. CASE LsgLoad BY <1>21 DEF LsgLoad
<1>22. CASE LsgRun BY <1>22 DEF LsgRun, RunReturns
<1>23. CASE AdrInit BY <1>23 DEF AdrInit, InitDone, InitFails
<1>24. CASE AdrExec BY <1>24 DEF AdrExec
<1>25. CASE AdrRecv BY <1>25 DEF AdrRecv
<1>26. CASE AdrRecvEnds BY <1>26 DEF AdrRecvEnds
<1>27. CASE AdrRun BY <1>27 DEF AdrRun, RunReturns
<1>28. CASE AdfInit BY <1>28 DEF AdfInit, InitDone, InitFails
<1>29. CASE AdfExec BY <1>29 DEF AdfExec
<1>30. CASE AdfRecv BY <1>30 DEF AdfRecv
<1>31. CASE AdfWrite BY <1>31 DEF AdfWrite
<1>32. CASE AdfMotor BY <1>32 DEF AdfMotor
<1>33. CASE AdfRun BY <1>33 DEF AdfRun, RunReturns
<1>34. CASE PeekInit BY <1>34 DEF PeekInit, InitDone, InitFails
<1>35. CASE PeekExec BY <1>35 DEF PeekExec
<1>36. CASE PeekSend BY <1>36 DEF PeekSend
<1>37. CASE PeekEnds BY <1>37 DEF PeekEnds
<1>38. CASE PeekRun BY <1>38 DEF PeekRun, RunReturns
<1>39. CASE Answer BY <1>39 DEF Answer
<1>40. ASSUME NEW c \in Conns, Peer(c) PROVE AnswerInv'
  BY <1>40 DEF Peer, srvVars
<1>41. ASSUME NEW c \in Conns, Network(c) PROVE AnswerInv'
  BY <1>41 DEF Network, srvVars
<1>42. CASE UNCHANGED vars BY <1>42 DEF vars, tcpVars, srvVars
<1>43. QED
  BY <1>1, <1>2, <1>3, <1>4, <1>5, <1>6, <1>7, <1>8, <1>9, <1>10, <1>11,
     <1>12, <1>13, <1>14, <1>15, <1>16, <1>17, <1>18, <1>19, <1>20, <1>21,
     <1>22, <1>23, <1>24, <1>25, <1>26, <1>27, <1>28, <1>29, <1>30, <1>31,
     <1>32, <1>33, <1>34, <1>35, <1>36, <1>37, <1>38, <1>39, <1>40, <1>41,
     <1>42 DEF Next, ServerStep, Loader, Plugins, LsgNext, AdrNext, AdfNext,
     PeekNext

-----------------------------------------------------------------------------
\* Every step of the server and of its peers preserves the whole invariant.
LEMMA IInvStep == IInv /\ [Next]_vars => IInv'
<1> SUFFICES ASSUME IInv, [Next]_vars PROVE IInv'
  OBVIOUS
<1>1. QED
  BY TcpTypeStep, SrvTypeStep, LedgerStep, HeaderStep, SocketStep, LoadedStep, AnswerStep
     DEF IInv, TypeOK

\* The inductive invariant holds in every reachable state of the server.
THEOREM Invariance == Spec => []IInv
  BY InitIInv, IInvStep, PTL DEF Spec

\* Type correctness of start_server(), loader_main(), the plugins and the
\* connections.
THEOREM TypeCorrect == Spec => []TypeOK
<1>1. IInv => TypeOK BY DEF IInv
<1>2. QED BY <1>1, Invariance, PTL

\* No error path of a session, of whatever plugin, leaves memory, a library, a
\* file or a device behind when the server waits for its next client.
THEOREM NoLeak == Spec => []NothingLeaks
<1>1. IInv => NothingLeaks
  BY DEF IInv, LedgerInv, NothingLeaks, Listening
<1>2. QED BY <1>1, Invariance, PTL

\* Every accepted socket is closed before the next accept(), and no plugin
\* touches a closed one.
THEOREM Sockets == Spec => []SocketsAccounted
<1>1. IInv => SocketsAccounted
  BY TcpAssumption DEF IInv, SocketInv, SocketsAccounted, OnConnection, Points
<1>2. QED BY <1>1, Invariance, PTL

\* run() is reached only with a completely received program and a closed
\* socket.
THEOREM RunsLoaded == Spec => []RunsOnlyLoaded
<1>1. IInv => RunsOnlyLoaded
  BY DEF IInv, LoadedInv, SocketInv, RunsOnlyLoaded
<1>2. QED BY <1>1, Invariance, PTL

-----------------------------------------------------------------------------
(* What the server tells its clients, for any clients, plugin list and     *)
(* sizes: every answer has the shape of the protocol, no client is left     *)
(* without one, and DT_ERR_OK at the end of an upload means that all of it   *)
(* was read.                                                                *)

\* The server works on an open connection, and on that one only.
LEMMA Served ==
  ASSUME AnswersInv, pc \in OnConnection
  PROVE  active \in Conns /\ srv[active] = "open" /\ active # NoConn
  BY ActiveOpen, TcpAssumption DEF AnswersInv

LEMMA ServedPoints ==
  Quiet \cup Working \cup {"peek.send", "close"} \subseteq OnConnection
  BY DEF Quiet, Working, OnConnection, Points

LEMMA InitAnswers == Init => AnswersInv
  <1> SUFFICES ASSUME Init PROVE AnswersInv
    OBVIOUS
  <1> USE DEF Init, TcpInit
  <1>1. RequestInv /\ ReceivedInv
    BY DEF RequestInv, ReceivedInv, Working
  <1>2. ActiveTold /\ RestTold
    BY DEF ActiveTold, RestTold, Quiet, Working
  <1>3. HeardInv
    <2>1. Len(<<>>) = 0
      OBVIOUS
    <2> QED BY <2>1 DEF HeardInv, Started, Quiet
  <1> QED
    BY <1>1, <1>2, <1>3, InitIInv DEF AnswersInv

\* recv() adds what it returns to what was read.
LEMMA Reading ==
  ASSUME AnswersInv, pc \in OnConnection, NEW m \in Int,
         NEW len \in RecvResults(active, m), Consume(active, len)
  PROVE  /\ len \in Int /\ rcvd[active] \in Nat
         /\ rcvd'[active] = IF len > 0 THEN rcvd[active] + len ELSE rcvd[active]
  BY Served, RecvInt DEF Consume, AnswersInv, IInv, TypeOK, TcpTypeOK

LEMMA CountTypes ==
  ASSUME AnswersInv
  PROVE  /\ cnt \in Nat /\ pos \in Nat /\ TrackLen \in Nat
         /\ pc \in OnConnection => rcvd[active] \in Nat
         /\ hdr \in Request => hdr.size \in Nat
  BY Served, PluginAssumption, ProtocolAssumption
     DEF AnswersInv, IInv, TypeOK, TcpTypeOK, SrvTypeOK, Request

\* A peer changes neither the request nor the answers of a connection the
\* server works on, and takes back nothing it has sent.
LEMMA PeerLeaves ==
  ASSUME AnswersInv, NEW c \in Conns, Peer(c) \/ Network(c)
  PROVE  /\ UNCHANGED srvVars
         /\ \A d \in Conns : srv[d] = "open" =>
              /\ srv'[d] = "open" /\ req'[d] = req[d]
              /\ out'[d] = out[d] /\ rcvd'[d] = rcvd[d] /\ (rst[d] => rst'[d])
         /\ pc \in OnConnection =>
              /\ srv'[active] = "open" /\ req'[active] = req[active]
              /\ out'[active] = out[active] /\ rcvd'[active] = rcvd[active]
              /\ rst[active] => rst'[active]
  <1> DEFINE Leaves(d) ==
               /\ srv'[d] = "open" /\ req'[d] = req[d]
               /\ out'[d] = out[d] /\ rcvd'[d] = rcvd[d] /\ (rst[d] => rst'[d])
  <1>1. UNCHANGED srvVars
    BY DEF Peer, Network
  <1>2. ASSUME NEW d \in Conns, srv[d] = "open" PROVE Leaves(d)
    <2> USE <1>2 DEF AnswersInv, IInv, TypeOK, TcpTypeOK
    <2>1. ASSUME NEW r \in Requests[c], Connected(c, r) PROVE Leaves(d)
      BY <2>1 DEF SocketInv, Connected, ConnectTo
    <2>2. CASE ClientSend(c)
      BY <2>2 DEF ClientSend
    <2>3. CASE ClientRead(c)
      BY <2>3 DEF ClientRead
    <2>4. CASE ClientClose(c)
      BY <2>4 DEF ClientClose
    <2>5. CASE Forget(c)
      BY <2>5 DEF Forget
    <2>6. CASE Reset(c)
      BY <2>6 DEF Reset
    <2> QED
      BY <2>1, <2>2, <2>3, <2>4, <2>5, <2>6 DEF Peer, Network
  <1>3. pc \in OnConnection => Leaves(active)
    BY <1>2, Served
  <1> QED
    BY <1>1, <1>2, <1>3

\* The header the plugins work on stays that of the client they answer.
LEMMA RequestStep ==
  ASSUME AnswersInv, [Next]_vars
  PROVE  RequestInv'
<1> USE DEF AnswersInv, RequestInv, Working, Goto, Plugin, OnConnection, Points,
        OK, IInv, TypeOK, TcpTypeOK
<1>1. CASE StartServer BY <1>1 DEF StartServer, tcpVars
<1>2. ASSUME NEW c \in Conns, Accept(c) PROVE RequestInv'
  BY <1>2 DEF Accept, tcpVars
<1>3. CASE AcceptFails BY <1>3 DEF AcceptFails, tcpVars
<1>4. CASE EndSession BY <1>4 DEF EndSession, CloseServerEnd, tcpVars
<1>5. CASE StopServer BY <1>5 DEF StopServer, tcpVars
<1>6. CASE Restart BY <1>6 DEF Restart, tcpVars
<1>7. CASE ReadId
  <2>1. req[active].id \in {"QUIT", "RBOT", "HDR", "OTHER"}
    BY <1>7, Served, ServedPoints DEF ReadId, Quiet, Request, Ids
  <2>2. UNCHANGED <<req, active>>
    BY <1>7 DEF ReadId, Consume
  <2>3. CASE pc' = "end"
    BY <2>3 DEF RequestInv, Working
  <2>4. CASE pc' = "command"
    BY <1>7, <2>2, <2>4 DEF ReadId
  <2>5. CASE pc' = "reject" /\ ret' = IdError(req[active]) /\ IdError(req[active]) # OK
    BY <2>5
  <2>6. CASE pc' \in {"hdr", "reject"} /\ IdError(req[active]) = OK /\ ret' \in {ret, "DT_ERR_MALLOC"}
             /\ (pc' = "reject" => ret' = "DT_ERR_MALLOC")
             /\ req[active].id \notin {"QUIT", "RBOT"}
    BY <2>1, <2>2, <2>6 DEF IdError
  <2>7. QED
    BY <1>7, <2>3, <2>4, <2>5, <2>6 DEF ReadId
<1>8. CASE Command BY <1>8 DEF Command, Emit, tcpVars
<1>9. CASE Reject BY <1>9 DEF Reject, Emit, tcpVars
<1>10. CASE ReadHeader BY <1>10 DEF ReadHeader, Consume, RecvSafe, tcpVars
<1>11. CASE SelectPlugin BY <1>11 DEF SelectPlugin, tcpVars
<1>12. CASE InitFailed BY <1>12 DEF InitFailed, tcpVars
<1>13. CASE Acknowledge BY <1>13 DEF Acknowledge, Emit, tcpVars
<1>14. CASE CloseConnection
  BY <1>14 DEF CloseConnection, CloseServerEnd, tcpVars
<1>15. CASE Done BY <1>15 DEF Done, tcpVars
<1>16. CASE RecvSpins BY <1>16 DEF RecvSpins, vars, srvVars, tcpVars
<1>17. CASE LsgInit BY <1>17 DEF LsgInit, InitDone, InitFails, tcpVars
<1>18. CASE LsgExec
  <2>1. pc' = "answer" => hdr'.plugin # PEEK
    BY <1>18, ProtocolAssumption DEF LsgExec, HeaderInv, WithContext, WithTmpFile
  <2> QED BY <1>18, <2>1 DEF LsgExec, tcpVars
<1>19. CASE LsgRecv BY <1>19 DEF LsgRecv, Consume, tcpVars
<1>20. CASE LsgRecvEnds BY <1>20 DEF LsgRecvEnds, tcpVars
<1>21. CASE LsgLoad
  <2>1. pc' = "answer" => hdr'.plugin # PEEK
    BY <1>21, ProtocolAssumption DEF LsgLoad, HeaderInv, WithContext, WithTmpFile
  <2> QED BY <1>21, <2>1 DEF LsgLoad, tcpVars
<1>22. CASE LsgRun BY <1>22 DEF LsgRun, RunReturns, tcpVars
<1>23. CASE AdrInit BY <1>23 DEF AdrInit, InitDone, InitFails, tcpVars
<1>24. CASE AdrExec BY <1>24 DEF AdrExec, tcpVars
<1>25. CASE AdrRecv
  <2>1. pc' = "answer" => hdr'.plugin # PEEK
    BY <1>25, ProtocolAssumption DEF AdrRecv, HeaderInv, WithContext, WithTmpFile
  <2> QED BY <1>25, <2>1 DEF AdrRecv, Consume, tcpVars
<1>26. CASE AdrRecvEnds
  <2>1. pc' = "answer" => hdr'.plugin # PEEK
    BY <1>26, ProtocolAssumption DEF AdrRecvEnds, HeaderInv, WithContext, WithTmpFile
  <2> QED BY <1>26, <2>1 DEF AdrRecvEnds, tcpVars
<1>27. CASE AdrRun BY <1>27 DEF AdrRun, RunReturns, tcpVars
<1>28. CASE AdfInit BY <1>28 DEF AdfInit, InitDone, InitFails, tcpVars
<1>29. CASE AdfExec BY <1>29 DEF AdfExec, tcpVars
<1>30. CASE AdfRecv BY <1>30 DEF AdfRecv, Consume, tcpVars
<1>31. CASE AdfWrite BY <1>31 DEF AdfWrite, tcpVars
<1>32. CASE AdfMotor
  <2>1. pc' = "answer" => hdr'.plugin # PEEK
    BY <1>32, ProtocolAssumption DEF AdfMotor, HeaderInv, WithContext, WithTmpFile
  <2> QED BY <1>32, <2>1 DEF AdfMotor, tcpVars
<1>33. CASE AdfRun BY <1>33 DEF AdfRun, RunReturns, tcpVars
<1>34. CASE PeekInit BY <1>34 DEF PeekInit, InitDone, InitFails, tcpVars
<1>35. CASE PeekExec BY <1>35 DEF PeekExec, tcpVars
<1>36. CASE PeekSend BY <1>36 DEF PeekSend, Emit, tcpVars
<1>37. CASE PeekEnds BY <1>37 DEF PeekEnds, tcpVars
<1>38. CASE PeekRun BY <1>38 DEF PeekRun, RunReturns, tcpVars
<1>39. CASE Answer BY <1>39 DEF Answer, Emit, tcpVars
<1>40. ASSUME NEW c \in Conns, Peer(c) PROVE RequestInv'
  BY <1>40, PeerLeaves DEF srvVars
<1>41. ASSUME NEW c \in Conns, Network(c) PROVE RequestInv'
  BY <1>41, PeerLeaves DEF srvVars
<1>42. CASE UNCHANGED vars BY <1>42 DEF vars, tcpVars, srvVars
<1>43. QED
  BY <1>1, <1>2, <1>3, <1>4, <1>5, <1>6, <1>7, <1>8, <1>9, <1>10, <1>11,
     <1>12, <1>13, <1>14, <1>15, <1>16, <1>17, <1>18, <1>19, <1>20, <1>21, <1>22,
     <1>23, <1>24, <1>25, <1>26, <1>27, <1>28, <1>29, <1>30, <1>31, <1>32, <1>33,
     <1>34, <1>35, <1>36, <1>37, <1>38, <1>39, <1>40, <1>41, <1>42 DEF Next,
     ServerStep, Loader, Plugins, LsgNext, AdrNext, AdfNext, PeekNext

\* What the plugins count is never ahead of what was read.
LEMMA ReceivedStep ==
  ASSUME AnswersInv, [Next]_vars
  PROVE  ReceivedInv'
<1> USE DEF AnswersInv, RequestInv, ReceivedInv, Working, Goto, Plugin,
        OnConnection, Points, OK, IInv
<1>1. CASE StartServer BY <1>1 DEF StartServer, tcpVars
<1>2. ASSUME NEW c \in Conns, Accept(c) PROVE ReceivedInv'
  BY <1>2 DEF Accept, tcpVars
<1>3. CASE AcceptFails BY <1>3 DEF AcceptFails, tcpVars
<1>4. CASE EndSession BY <1>4 DEF EndSession, CloseServerEnd, tcpVars
<1>5. CASE StopServer BY <1>5 DEF StopServer, tcpVars
<1>6. CASE Restart BY <1>6 DEF Restart, tcpVars
<1>7. CASE ReadId
  <2>1. PICK len \in RecvResults(active, 1) : Consume(active, len) /\ (pc' = "hdr" => len = 1)
    BY <1>7 DEF ReadId, RecvSafe
  <2>2. pc \in OnConnection /\ pc' \in {"end", "command", "reject", "hdr"} /\ active' = active
    BY <1>7 DEF ReadId
  <2> QED BY <2>1, <2>2, Reading
<1>8. CASE Command BY <1>8 DEF Command, Emit, tcpVars
<1>9. CASE Reject BY <1>9 DEF Reject, Emit, tcpVars
<1>10. CASE ReadHeader
  <2>1. PICK len \in RecvResults(active, 1) : Consume(active, len) /\ (pc' = "find" => len = 1)
    BY <1>10 DEF ReadHeader, RecvSafe
  <2>2. pc \in OnConnection /\ pc' \in {"find", "reject"} /\ active' = active
    BY <1>10 DEF ReadHeader
  <2>3. rcvd[active] >= 1
    BY <1>10 DEF ReadHeader
  <2> QED BY <2>1, <2>2, <2>3, Reading
<1>11. CASE SelectPlugin BY <1>11 DEF SelectPlugin, tcpVars
<1>12. CASE InitFailed BY <1>12 DEF InitFailed, tcpVars
<1>13. CASE Acknowledge BY <1>13 DEF Acknowledge, Emit, tcpVars
<1>14. CASE CloseConnection
  BY <1>14 DEF CloseConnection, CloseServerEnd, tcpVars
<1>15. CASE Done BY <1>15 DEF Done, tcpVars
<1>16. CASE RecvSpins BY <1>16 DEF RecvSpins, vars, srvVars, tcpVars
<1>17. CASE LsgInit BY <1>17 DEF LsgInit, InitDone, InitFails, tcpVars
<1>18. CASE LsgExec BY <1>18 DEF LsgExec, tcpVars
<1>19. CASE LsgRecv BY <1>19 DEF LsgRecv, Consume, tcpVars
<1>20. CASE LsgRecvEnds BY <1>20 DEF LsgRecvEnds, tcpVars
<1>21. CASE LsgLoad
  <2>1. hdr.plugin \notin {ADR0, ADF0} /\ pc' = "answer" /\ hdr' = hdr
    BY <1>21, ProtocolAssumption DEF LsgLoad, HeaderInv, WithTmpFile
  <2> QED BY <2>1
<1>22. CASE LsgRun BY <1>22 DEF LsgRun, RunReturns, tcpVars
<1>23. CASE AdrInit BY <1>23 DEF AdrInit, InitDone, InitFails, tcpVars
<1>24. CASE AdrExec BY <1>24 DEF AdrExec, tcpVars
<1>25. CASE AdrRecv
  <2>1. PICK len \in RecvResults(active, BlockMax) :
          /\ Consume(active, len)
          /\ \/ len < 0 /\ ret' = "DT_ERR_RECV" /\ pc' = "answer"
             \/ len >= 0 /\ cnt' = cnt + len /\ pc' = pc
    BY <1>25 DEF AdrRecv
  <2>2. pc = "adr.recv" /\ active' = active /\ rcvd[active] >= 2 + cnt
    BY <1>25 DEF AdrRecv
  <2>3. /\ len \in Int /\ rcvd[active] \in Nat
        /\ rcvd'[active] = IF len > 0 THEN rcvd[active] + len ELSE rcvd[active]
    BY <2>1, <2>2, Reading, PluginAssumption
  <2> QED BY <2>1, <2>2, <2>3, CountTypes
<1>26. CASE AdrRecvEnds
  <2>1. cnt >= hdr.size /\ rcvd[active] >= 2 + cnt
        /\ hdr.size \in Nat /\ rcvd[active] \in Nat
    BY <1>26, CountTypes DEF AdrRecvEnds, HeaderInv, WithContext
  <2>2. pc' = "answer" /\ UNCHANGED <<rcvd, active, hdr>>
    BY <1>26 DEF AdrRecvEnds, tcpVars
  <2> QED BY <2>1, <2>2, CountTypes
<1>27. CASE AdrRun BY <1>27 DEF AdrRun, RunReturns, tcpVars
<1>28. CASE AdfInit BY <1>28 DEF AdfInit, InitDone, InitFails, tcpVars
<1>29. CASE AdfExec BY <1>29 DEF AdfExec, tcpVars
<1>30. CASE AdfRecv
  <2>1. PICK len \in RecvResults(active, AdfAsk) :
          /\ Consume(active, len)
          /\ \/ /\ len > 0 /\ pos' = pos + len
                /\ pc' = IF pos + len < TrackLen THEN pc ELSE "adf.write"
             \/ len <= 0 /\ pos' = pos /\ pc' = "adf.motor"
    BY <1>30, AskTypes, RecvInt DEF AdfRecv
  <2>2. pc = "adf.recv" /\ active' = active /\ cnt' = cnt /\ rcvd[active] >= 2 + cnt + pos
    BY <1>30 DEF AdfRecv
  <2>3. /\ len \in Int /\ rcvd[active] \in Nat
        /\ rcvd'[active] = IF len > 0 THEN rcvd[active] + len ELSE rcvd[active]
    BY <2>1, <2>2, Reading, AskTypes
  <2> QED BY <2>1, <2>2, <2>3, CountTypes
<1>31. CASE AdfWrite
  <2>1. /\ pc = "adf.write" /\ cnt' = cnt + TrackLen /\ pos' = 0
        /\ pc' \in {"adf.recv", "adf.motor"} /\ UNCHANGED <<rcvd, active>>
    BY <1>31 DEF AdfWrite, tcpVars
  <2>2. rcvd[active] >= 2 + cnt + pos /\ pos >= TrackLen
    BY <2>1
  <2> QED BY <2>1, <2>2, CountTypes
<1>32. CASE AdfMotor
  <2>1. pc = "adf.motor" /\ pc' = "answer" /\ UNCHANGED <<rcvd, active, hdr, ret>>
    BY <1>32 DEF AdfMotor, tcpVars
  <2>2. rcvd[active] >= 2 + cnt + pos /\ (ret = OK => cnt >= hdr.size) /\ hdr \in Request
    BY <2>1 DEF LoadedInv, HeaderInv, WithContext
  <2> QED BY <2>1, <2>2, CountTypes
<1>33. CASE AdfRun BY <1>33 DEF AdfRun, RunReturns, tcpVars
<1>34. CASE PeekInit BY <1>34 DEF PeekInit, InitDone, InitFails, tcpVars
<1>35. CASE PeekExec BY <1>35 DEF PeekExec, tcpVars
<1>36. CASE PeekSend BY <1>36 DEF PeekSend, Emit, tcpVars
<1>37. CASE PeekEnds BY <1>37 DEF PeekEnds, tcpVars
<1>38. CASE PeekRun BY <1>38 DEF PeekRun, RunReturns, tcpVars
<1>39. CASE Answer BY <1>39 DEF Answer, Emit, tcpVars
<1>40. ASSUME NEW c \in Conns, Peer(c) PROVE ReceivedInv'
  BY <1>40, PeerLeaves DEF srvVars
<1>41. ASSUME NEW c \in Conns, Network(c) PROVE ReceivedInv'
  BY <1>41, PeerLeaves DEF srvVars
<1>42. CASE UNCHANGED vars BY <1>42 DEF vars, tcpVars, srvVars
<1>43. QED
  BY <1>1, <1>2, <1>3, <1>4, <1>5, <1>6, <1>7, <1>8, <1>9, <1>10, <1>11,
     <1>12, <1>13, <1>14, <1>15, <1>16, <1>17, <1>18, <1>19, <1>20, <1>21, <1>22,
     <1>23, <1>24, <1>25, <1>26, <1>27, <1>28, <1>29, <1>30, <1>31, <1>32, <1>33,
     <1>34, <1>35, <1>36, <1>37, <1>38, <1>39, <1>40, <1>41, <1>42 DEF Next,
     ServerStep, Loader, Plugins, LsgNext, AdrNext, AdfNext, PeekNext

\* send() tells the connection at hand, unless it is reset, and no other.
LEMMA Telling ==
  ASSUME AnswersInv, pc \in OnConnection, NEW token, Emit(active, token)
  PROVE  /\ out'[active] = IF rst[active] THEN out[active] ELSE Append(out[active], token)
         /\ \A c \in Conns : c # active => out'[c] = out[c]
         /\ UNCHANGED <<req, rcvd, srv, rst>>
  BY Served DEF Emit, AnswersInv, IInv, TypeOK, TcpTypeOK

LEMMA AnsweredKept ==
  ASSUME NEW c, Answered(c), req'[c] = req[c], out'[c] = out[c],
         rcvd'[c] = rcvd[c], rst[c] => rst'[c], rst'[c] \in BOOLEAN, rst[c] \in BOOLEAN
  PROVE  Answered(c)'
  BY DEF Answered, Uploaded

\* While the server works on one connection, what the others were told stays.
LEMMA RestKept ==
  ASSUME AnswersInv, pc \in OnConnection, UNCHANGED <<req, srv, rst>>,
         \A c \in Conns : c # active => out'[c] = out[c] /\ rcvd'[c] = rcvd[c]
  PROVE  RestTold'
  <1>1. srv[active] = "open"
    BY Served
  <1>2. ASSUME NEW c \in Conns, srv[c] = "closed" PROVE Answered(c)'
    BY <1>1, <1>2, AnsweredKept DEF AnswersInv, RestTold, IInv, TypeOK, TcpTypeOK
  <1> QED
    BY <1>1, <1>2 DEF AnswersInv, RestTold

LEMMA RestUntouched ==
  ASSUME AnswersInv, UNCHANGED tcpVars
  PROVE  RestTold'
  BY DEF AnswersInv, RestTold, Answered, Uploaded, tcpVars

\* A reset excuses the server from saying more.
LEMMA NothingTold ==
  ASSUME NEW c, out'[c] \in {<<>>, <<OK>>}, rst'[c] PROVE Answered(c)'
  <1>1. Len(<<>>) = 0 /\ Len(<<OK>>) = 1
    OBVIOUS
  <1>2. Len(out'[c]) = 0 \/ Len(out'[c]) = 1
    BY <1>1
  <1>3. Len(out'[c]) <= 1 /\ Len(out'[c]) # 2
    BY <1>2
  <1> QED BY <1>3 DEF Answered, Uploaded, Shaped

\* What connections were told that the server is not working on stays right.
LEMMA RestStep ==
  ASSUME AnswersInv, [Next]_vars
  PROVE  RestTold'
<1> USE DEF AnswersInv, Goto, OnConnection, Points
<1>1. CASE StartServer
  BY <1>1, RestUntouched DEF StartServer
<1>2. ASSUME NEW c \in Conns, Accept(c) PROVE RestTold'
  <2>1. srv' = [srv EXCEPT ![c] = "open"] /\ UNCHANGED <<req, rcvd, out, rst>>
    BY <1>2 DEF Accept
  <2> QED
    BY <2>1, AnsweredKept DEF RestTold, IInv, TypeOK, TcpTypeOK
<1>3. CASE AcceptFails
  BY <1>3, RestUntouched DEF AcceptFails
<1>4. CASE EndSession
  <2>1. CASE active = NoConn
    BY <1>4, <2>1, RestUntouched DEF EndSession
  <2>2. CASE active # NoConn
    <3>1. srv' = [srv EXCEPT ![active] = "closed"] /\ UNCHANGED <<req, rcvd, out, rst>>
      BY <1>4, <2>2 DEF EndSession, CloseServerEnd
    <3>2. Answered(active)
      BY <1>4, <2>2 DEF EndSession, ActiveTold
    <3> QED
      BY <3>1, <3>2, AnsweredKept DEF RestTold, IInv, TypeOK, TcpTypeOK
  <2> QED BY <2>1, <2>2
<1>5. CASE StopServer
  <2>1. UNCHANGED <<req, rcvd, out>>
        /\ \A c \in Conns : /\ srv'[c] = IF srv[c] = "queued" THEN "closed" ELSE srv[c]
                            /\ rst'[c] = (rst[c] \/ srv[c] = "queued")
    BY <1>5 DEF StopServer
  <2>2. ASSUME NEW c \in Conns, srv[c] = "queued" PROVE Answered(c)'
    <3>1. out'[c] = <<>> /\ rst'[c]
      BY <2>1, <2>2 DEF RestTold
    <3> QED BY <3>1, NothingTold
  <2>3. ASSUME NEW c \in Conns, srv[c] = "closed" PROVE Answered(c)'
    BY <2>1, <2>3, AnsweredKept DEF RestTold, IInv, TypeOK, TcpTypeOK
  <2> QED BY <2>1, <2>2, <2>3 DEF RestTold
<1>6. CASE Restart
  BY <1>6, RestUntouched DEF Restart
<1>7. CASE ReadId
  <2>1. /\ pc \in OnConnection /\ UNCHANGED <<req, srv, rst, out>>
        /\ \A c \in Conns : c # active => rcvd'[c] = rcvd[c]
    BY <1>7, Served DEF ReadId, Consume, IInv, TypeOK, TcpTypeOK
  <2> QED BY <2>1, RestKept
<1>8. CASE Command
  <2>1. PICK token : pc \in OnConnection /\ Emit(active, token)
    BY <1>8 DEF Command
  <2> QED BY <2>1, Telling, RestKept
<1>9. CASE Reject
  <2>1. PICK token : pc \in OnConnection /\ Emit(active, token)
    BY <1>9 DEF Reject
  <2> QED BY <2>1, Telling, RestKept
<1>10. CASE ReadHeader
  <2>1. /\ pc \in OnConnection /\ UNCHANGED <<req, srv, rst, out>>
        /\ \A c \in Conns : c # active => rcvd'[c] = rcvd[c]
    BY <1>10, Served DEF ReadHeader, Consume, IInv, TypeOK, TcpTypeOK
  <2> QED BY <2>1, RestKept
<1>11. CASE SelectPlugin
  BY <1>11, RestUntouched DEF SelectPlugin
<1>12. CASE InitFailed
  BY <1>12, RestUntouched DEF InitFailed
<1>13. CASE Acknowledge
  <2>1. PICK token : pc \in OnConnection /\ Emit(active, token)
    BY <1>13 DEF Acknowledge
  <2> QED BY <2>1, Telling, RestKept
<1>14. CASE CloseConnection
  <2>1. srv' = [srv EXCEPT ![active] = "closed"] /\ UNCHANGED <<req, rcvd, out, rst>>
    BY <1>14 DEF CloseConnection, CloseServerEnd
  <2>2. Answered(active)
    BY <1>14 DEF CloseConnection, ActiveTold
  <2> QED
    BY <2>1, <2>2, AnsweredKept DEF RestTold, IInv, TypeOK, TcpTypeOK
<1>15. CASE Done
  BY <1>15, RestUntouched DEF Done
<1>16. CASE RecvSpins
  BY <1>16, RestUntouched DEF RecvSpins, vars
<1>17. CASE LsgInit
  BY <1>17, RestUntouched DEF LsgInit, InitDone, InitFails
<1>18. CASE LsgExec
  BY <1>18, RestUntouched DEF LsgExec
<1>19. CASE LsgRecv
  <2>1. /\ pc \in OnConnection /\ UNCHANGED <<req, srv, rst, out>>
        /\ \A c \in Conns : c # active => rcvd'[c] = rcvd[c]
    BY <1>19, Served DEF LsgRecv, Consume, IInv, TypeOK, TcpTypeOK
  <2> QED BY <2>1, RestKept
<1>20. CASE LsgRecvEnds
  BY <1>20, RestUntouched DEF LsgRecvEnds
<1>21. CASE LsgLoad
  BY <1>21, RestUntouched DEF LsgLoad
<1>22. CASE LsgRun
  BY <1>22, RestUntouched DEF LsgRun, RunReturns
<1>23. CASE AdrInit
  BY <1>23, RestUntouched DEF AdrInit, InitDone, InitFails
<1>24. CASE AdrExec
  BY <1>24, RestUntouched DEF AdrExec
<1>25. CASE AdrRecv
  <2>1. /\ pc \in OnConnection /\ UNCHANGED <<req, srv, rst, out>>
        /\ \A c \in Conns : c # active => rcvd'[c] = rcvd[c]
    BY <1>25, Served DEF AdrRecv, Consume, IInv, TypeOK, TcpTypeOK
  <2> QED BY <2>1, RestKept
<1>26. CASE AdrRecvEnds
  BY <1>26, RestUntouched DEF AdrRecvEnds
<1>27. CASE AdrRun
  BY <1>27, RestUntouched DEF AdrRun, RunReturns
<1>28. CASE AdfInit
  BY <1>28, RestUntouched DEF AdfInit, InitDone, InitFails
<1>29. CASE AdfExec
  BY <1>29, RestUntouched DEF AdfExec
<1>30. CASE AdfRecv
  <2>1. /\ pc \in OnConnection /\ UNCHANGED <<req, srv, rst, out>>
        /\ \A c \in Conns : c # active => rcvd'[c] = rcvd[c]
    BY <1>30, Served DEF AdfRecv, Consume, IInv, TypeOK, TcpTypeOK
  <2> QED BY <2>1, RestKept
<1>31. CASE AdfWrite
  BY <1>31, RestUntouched DEF AdfWrite
<1>32. CASE AdfMotor
  BY <1>32, RestUntouched DEF AdfMotor
<1>33. CASE AdfRun
  BY <1>33, RestUntouched DEF AdfRun, RunReturns
<1>34. CASE PeekInit
  BY <1>34, RestUntouched DEF PeekInit, InitDone, InitFails
<1>35. CASE PeekExec
  BY <1>35, RestUntouched DEF PeekExec
<1>36. CASE PeekSend
  <2>1. CASE Emit(active, DATA)
    BY <1>36, <2>1, Telling, RestKept DEF PeekSend
  <2>2. CASE UNCHANGED tcpVars
    BY <2>2, RestUntouched
  <2> QED BY <1>36, <2>1, <2>2 DEF PeekSend
<1>37. CASE PeekEnds
  BY <1>37, RestUntouched DEF PeekEnds
<1>38. CASE PeekRun
  BY <1>38, RestUntouched DEF PeekRun, RunReturns
<1>39. CASE Answer
  <2>1. PICK token : pc \in OnConnection /\ Emit(active, token)
    BY <1>39 DEF Answer
  <2> QED BY <2>1, Telling, RestKept
<1>40. ASSUME NEW c \in Conns, Peer(c) PROVE RestTold'
  <2> USE DEF IInv, TypeOK, TcpTypeOK
  <2>1. ASSUME NEW r \in Requests[c], Connected(c, r) PROVE RestTold'
    <3>1. srv[c] = "none" /\ req' = [req EXCEPT ![c] = r]
          /\ srv' = [srv EXCEPT ![c] = "queued"] /\ UNCHANGED <<out, rcvd, rst>>
      BY <2>1 DEF Connected, ConnectTo, SocketInv
    <3>2. ASSUME NEW d \in Conns, srv'[d] = "closed" PROVE Answered(d)'
      BY <3>1, <3>2, AnsweredKept DEF RestTold
    <3> QED BY <3>1, <3>2 DEF RestTold
  <2>2. CASE ClientSend(c) \/ ClientRead(c) \/ ClientClose(c)
    <3>1. UNCHANGED <<req, rcvd, out, srv, rst>>
      BY <2>2 DEF ClientSend, ClientRead, ClientClose
    <3> QED BY <3>1 DEF RestTold, Answered, Uploaded
  <2>3. CASE Forget(c)
    <3>1. /\ srv' = [srv EXCEPT ![c] = "none"] /\ out' = [out EXCEPT ![c] = <<>>]
          /\ \A d \in Conns : d # c => req'[d] = req[d] /\ rcvd'[d] = rcvd[d] /\ rst'[d] = rst[d]
      BY <2>3 DEF Forget
    <3>2. ASSUME NEW d \in Conns, srv'[d] = "closed" PROVE Answered(d)'
      <4>1. d # c /\ srv[d] = "closed" /\ out'[d] = out[d]
        BY <3>1, <3>2
      <4> QED BY <3>1, <4>1, AnsweredKept DEF RestTold
    <3> QED BY <3>1, <3>2 DEF RestTold
  <2> QED BY <1>40, <2>1, <2>2, <2>3 DEF Peer
<1>41. ASSUME NEW c \in Conns, Network(c) PROVE RestTold'
  <2>1. UNCHANGED <<req, rcvd, out, srv>> /\ rst' = [rst EXCEPT ![c] = TRUE]
    BY <1>41 DEF Network, Reset
  <2>2. ASSUME NEW d \in Conns, srv[d] = "closed" PROVE Answered(d)'
    BY <2>1, <2>2, AnsweredKept DEF RestTold, IInv, TypeOK, TcpTypeOK
  <2> QED BY <2>1, <2>2 DEF RestTold
<1>42. CASE UNCHANGED vars BY <1>42 DEF vars, tcpVars, srvVars, RestTold, Answered, Uploaded
<1>43. QED
  BY <1>1, <1>2, <1>3, <1>4, <1>5, <1>6, <1>7, <1>8, <1>9, <1>10, <1>11,
     <1>12, <1>13, <1>14, <1>15, <1>16, <1>17, <1>18, <1>19, <1>20, <1>21, <1>22,
     <1>23, <1>24, <1>25, <1>26, <1>27, <1>28, <1>29, <1>30, <1>31, <1>32, <1>33,
     <1>34, <1>35, <1>36, <1>37, <1>38, <1>39, <1>40, <1>41, <1>42 DEF Next,
     ServerStep, Loader, Plugins, LsgNext, AdrNext, AdfNext, PeekNext

\* One answer is right if it is not followed by another, and the last one.
LEMMA OneAnswer ==
  ASSUME NEW r, NEW token, token # OK \/ r.id # "HDR"
  PROVE  Shaped(r, <<token>>) /\ Complete(r, <<token>>)
  <1>1. Len(<<token>>) = 1 /\ <<token>>[1] = token
    OBVIOUS
  <1> QED BY <1>1 DEF Shaped, Complete

LEMMA FirstAnswer ==
  ASSUME AnswersInv, pc \in OnConnection, out[active] = <<>>, NEW token, Emit(active, token)
  PROVE  out'[active] = IF rst[active] THEN <<>> ELSE <<token>>
  BY Telling

LEMMA FirstAnswered ==
  ASSUME AnswersInv, pc \in OnConnection, out[active] = <<>>, NEW token, Emit(active, token),
         token # OK \/ req[active].id # "HDR", active' = active
  PROVE  Answered(active)'
  <1>1. CASE rst[active]
    BY <1>1, FirstAnswer, Telling, NothingTold
  <1>2. CASE ~rst[active]
    <2>1. out'[active] = <<token>> /\ req' = req
      BY <1>2, FirstAnswer, Telling
    <2>2. Len(<<token>>) = 1
      OBVIOUS
    <2> QED BY <2>1, <2>2, OneAnswer DEF Answered, Uploaded
  <1> QED BY <1>1, <1>2

LEMMA OneAtMost ==
  ASSUME NEW c, Acknowledged(c) PROVE Len(out[c]) = 0 \/ Len(out[c]) = 1
  <1>1. Len(<<>>) = 0 /\ Len(<<OK>>) = 1
    OBVIOUS
  <1> QED BY <1>1 DEF Acknowledged

\* Both answers of an upload.
LEMMA SecondAnswer ==
  ASSUME AnswersInv, pc = "answer", Emit(active, ret), active' = active
  PROVE  Answered(active)'
  <1>1. /\ hdr = req[active] /\ hdr.id = "HDR" /\ hdr.plugin # PEEK
        /\ ret \in Codes /\ Acknowledged(active)
    BY DEF AnswersInv, RequestInv, ActiveTold, Working, IInv, AnswerInv
  <1>2. /\ out'[active] = IF rst[active] THEN out[active] ELSE Append(out[active], ret)
        /\ UNCHANGED <<req, rcvd, rst>>
    BY Telling, Served, ServedPoints DEF Working
  <1>3. CASE rst[active]
    BY <1>1, <1>2, <1>3, NothingTold DEF Acknowledged
  <1>4. CASE ~rst[active]
    <2> DEFINE o == Append(<<OK>>, ret)
    <2>1. out'[active] = o
      BY <1>1, <1>2, <1>4 DEF Acknowledged
    <2>2. Len(o) = 2 /\ o[1] = OK /\ o[2] = ret
      <3>1. <<OK>> \in Seq(Codes) /\ Len(<<OK>>) = 1 /\ <<OK>>[1] = OK
        BY DEF Codes
      <3> QED BY <1>1, <3>1
    <2> HIDE DEF o
    <2>3. Shaped(req[active], o) /\ Complete(req[active], o)
      BY <1>1, <2>2 DEF Shaped, Complete
    <2>4. ret = OK /\ hdr.plugin \in {ADR0, ADF0} => rcvd[active] >= RequestLen(hdr)
      BY <1>1 DEF AnswersInv, ReceivedInv, RequestLen
    <2> QED BY <1>1, <1>2, <2>1, <2>2, <2>3, <2>4 DEF Answered, Uploaded
  <1> QED BY <1>3, <1>4

\* An upload that is not answered, and a dump.
LEMMA Unfinished ==
  ASSUME NEW c, Acknowledged(c), Unanswered(req[c]), UNCHANGED <<req, out, rst>>
  PROVE  Answered(c)'
  <1>1. Len(out[c]) = 0 \/ Len(out[c]) = 1
    BY OneAtMost
  <1>2. Shaped(req[c], out[c])
    BY <1>1 DEF Shaped
  <1>3. ~Uploaded(c)
    BY <1>1 DEF Uploaded
  <1>4. Shaped(req[c], out[c])' /\ Unanswered(req[c])' /\ Uploaded(c)' = Uploaded(c)
    BY <1>2 DEF Uploaded
  <1> QED BY <1>3, <1>4 DEF Answered

LEMMA DumpAnswered ==
  ASSUME NEW c, Dumping(c), req[c] = hdr, hdr \in Request, hdr.id = "HDR", hdr.plugin = PEEK,
         out[c] \in Seq(Tokens), cnt \in Nat, rst[c] \/ cnt >= hdr.size,
         UNCHANGED <<req, out, rst>>
  PROVE  Answered(c)'
  <1>1. hdr.size \in Nat /\ Len(out[c]) \in Nat
    BY ProtocolAssumption DEF Request
  <1>2. Shaped(req[c], out[c])
    BY <1>1 DEF Dumping, Shaped
  <1>3. ~rst[c] => Complete(req[c], out[c])
    BY <1>1 DEF Dumping, Complete
  <1>4. ~(req[c].plugin \in {ADR0, ADF0})
    BY ProtocolAssumption
  <1> QED BY <1>2, <1>3, <1>4 DEF Answered, Uploaded

LEMMA DumpGoesOn ==
  ASSUME AnswersInv, pc = "peek.send", cnt < hdr.size, ~rst[active], Emit(active, DATA),
         cnt' = cnt + 1, UNCHANGED <<active, hdr>>
  PROVE  Dumping(active)'
  <1> DEFINE o == out[active]
  <1>1. active \in Conns /\ pc \in OnConnection
    BY Served, ServedPoints
  <1>2. out'[active] = Append(o, DATA) /\ rst' = rst
    BY <1>1, Telling
  <1>3. o \in Seq(Tokens) /\ cnt \in Nat /\ hdr.size \in Nat
    BY <1>1, CountTypes DEF AnswersInv, IInv, TypeOK, TcpTypeOK, HeaderInv, WithContext
  <1>4. Len(o) = 1 + cnt /\ o[1] = OK /\ \A i \in 2 .. Len(o) : o[i] = DATA
    BY <1>3 DEF AnswersInv, ActiveTold, Dumping
  <1>5. /\ Len(Append(o, DATA)) = Len(o) + 1 /\ Append(o, DATA)[Len(o) + 1] = DATA
        /\ \A i \in 1 .. Len(o) : Append(o, DATA)[i] = o[i]
    BY <1>3
  <1> HIDE DEF o
  <1>6. Append(o, DATA)[1] = OK
    BY <1>3, <1>4, <1>5
  <1>7. \A i \in 2 .. Len(Append(o, DATA)) : Append(o, DATA)[i] = DATA
    BY <1>3, <1>4, <1>5
  <1>8. cnt' <= hdr'.size /\ Len(Append(o, DATA)) = 1 + cnt'
    BY <1>3, <1>4, <1>5
  <1> QED BY <1>2, <1>6, <1>7, <1>8 DEF Dumping

\* What the client at hand has been told fits the point the server has reached.
LEMMA ActiveStep ==
  ASSUME AnswersInv, [Next]_vars
  PROVE  ActiveTold'
<1> USE DEF AnswersInv, ActiveTold, Quiet, Working, Goto, Plugin, OnConnection, Points
<1>1. CASE StartServer BY <1>1 DEF StartServer, tcpVars
<1>2. ASSUME NEW c \in Conns, Accept(c) PROVE ActiveTold'
  <2>1. out[c] = <<>> /\ pc' = "id" /\ active' = c /\ out' = out
    BY <1>2 DEF Accept, RestTold
  <2> QED BY <2>1
<1>3. CASE AcceptFails BY <1>3 DEF AcceptFails, tcpVars
<1>4. CASE EndSession
  <2>1. pc' \in {"accept", "stop"}
    BY <1>4 DEF EndSession
  <2> QED BY <2>1
<1>5. CASE StopServer BY <1>5 DEF StopServer, tcpVars
<1>6. CASE Restart BY <1>6 DEF Restart, tcpVars
<1>7. CASE ReadId
  <2>1. PICK len \in RecvSafe(active) : Consume(active, len) /\ (pc' = "end" => len < 0)
    BY <1>7 DEF ReadId
  <2>2. out[active] = <<>> /\ UNCHANGED <<out, active, rst>> /\ pc' \in {"end", "command", "reject", "hdr"}
    BY <1>7, <2>1 DEF ReadId, Consume
  <2>3. CASE pc' = "end"
    <3>1. rst[active]
      BY <2>1, <2>3 DEF RecvSafe, RecvResults
    <3> QED BY <2>2, <2>3, <3>1, NothingTold
  <2> QED BY <2>2, <2>3
<1>8. CASE Command
  <2>1. Answered(active)'
    BY <1>8, FirstAnswered DEF Command, RequestInv
  <2>2. pc' = "end" /\ active' = active
    BY <1>8 DEF Command
  <2> QED BY <2>1, <2>2
<1>9. CASE Reject
  <2>1. Answered(active)'
    BY <1>9, FirstAnswered DEF Reject, RequestInv
  <2>2. pc' = "end" /\ active' = active
    BY <1>9 DEF Reject
  <2> QED BY <2>1, <2>2
<1>10. CASE ReadHeader
  <2>1. out[active] = <<>> /\ UNCHANGED <<out, active>> /\ pc' \in {"find", "reject"}
    BY <1>10 DEF ReadHeader, Consume
  <2> QED BY <2>1
<1>11. CASE SelectPlugin
  BY <1>11 DEF SelectPlugin, Acknowledged, tcpVars
<1>12. CASE InitFailed
  BY <1>12 DEF InitFailed, Acknowledged, tcpVars
<1>13. CASE Acknowledge
  <2>1. /\ out'[active] = IF rst[active] THEN <<>> ELSE <<OK>>
        /\ UNCHANGED <<rst, active>> /\ pc' = "exec"
    BY <1>13, FirstAnswer, Telling DEF Acknowledge
  <2> QED BY <2>1 DEF Acknowledged
<1>14. CASE CloseConnection
  <2>1. pc' \in {"run", "done"} /\ active' = NoConn
    BY <1>14 DEF CloseConnection
  <2> QED BY <2>1
<1>15. CASE Done
  <2>1. pc = "done" /\ pc' = "end" /\ active' = active
    BY <1>15 DEF Done
  <2>2. active = NoConn
    BY <2>1 DEF IInv, SocketInv
  <2> QED BY <2>1, <2>2
<1>16. CASE RecvSpins
  BY <1>16 DEF RecvSpins, vars, srvVars, tcpVars, Acknowledged
<1>17. CASE LsgInit
  BY <1>17 DEF LsgInit, InitDone, InitFails, Acknowledged, tcpVars
<1>18. CASE LsgExec
  <2>1. /\ hdr = req[active] /\ hdr.id = "HDR" /\ hdr.plugin = LSG0 /\ Acknowledged(active)
        /\ UNCHANGED <<req, out, rst, active>>
    BY <1>18 DEF LsgExec, RequestInv, tcpVars
  <2>2. CASE pc' \in {"answer", "lsg.recv"}
    BY <2>1, <2>2 DEF Acknowledged
  <2>3. CASE pc' = "close" /\ ~TmpNameFits
    <3>1. Unanswered(req[active])
      BY <2>1, <2>3, <1>18 DEF Unanswered, TmpNameFits
    <3> QED BY <2>1, <2>3, <3>1, Unfinished
  <2> QED BY <1>18, <2>2, <2>3 DEF LsgExec
<1>19. CASE LsgRecv
  BY <1>19 DEF LsgRecv, Consume, Acknowledged
<1>20. CASE LsgRecvEnds
  BY <1>20 DEF LsgRecvEnds, Acknowledged, tcpVars
<1>21. CASE LsgLoad
  BY <1>21 DEF LsgLoad, Acknowledged, tcpVars
<1>22. CASE LsgRun BY <1>22 DEF LsgRun, RunReturns, tcpVars
<1>23. CASE AdrInit
  BY <1>23 DEF AdrInit, InitDone, InitFails, Acknowledged, tcpVars
<1>24. CASE AdrExec
  BY <1>24 DEF AdrExec, Acknowledged, tcpVars
<1>25. CASE AdrRecv
  BY <1>25 DEF AdrRecv, Consume, Acknowledged
<1>26. CASE AdrRecvEnds
  BY <1>26 DEF AdrRecvEnds, Acknowledged, tcpVars
<1>27. CASE AdrRun BY <1>27 DEF AdrRun, RunReturns, tcpVars
<1>28. CASE AdfInit
  BY <1>28 DEF AdfInit, InitDone, InitFails, Acknowledged, tcpVars
<1>29. CASE AdfExec
  BY <1>29 DEF AdfExec, Acknowledged, tcpVars
<1>30. CASE AdfRecv
  BY <1>30 DEF AdfRecv, Consume, Acknowledged
<1>31. CASE AdfWrite
  BY <1>31 DEF AdfWrite, Acknowledged, tcpVars
<1>32. CASE AdfMotor
  BY <1>32 DEF AdfMotor, Acknowledged, tcpVars
<1>33. CASE AdfRun BY <1>33 DEF AdfRun, RunReturns, tcpVars
<1>34. CASE PeekInit
  BY <1>34 DEF PeekInit, InitDone, InitFails, Acknowledged, tcpVars
<1>35. CASE PeekExec
  <2>1. Acknowledged(active) /\ UNCHANGED <<out, rst, active, hdr>> /\ pc' = "peek.send" /\ cnt' = 0
    BY <1>35 DEF PeekExec, tcpVars
  <2>2. hdr.size \in Nat
    BY <1>35, CountTypes DEF PeekExec, IInv, HeaderInv, WithContext
  <2>3. Dumping(active)'
    <3>1. Len(<<>>) = 0 /\ Len(<<OK>>) = 1 /\ <<OK>>[1] = OK
      OBVIOUS
    <3>2. out'[active] \in {<<>>, <<OK>>} /\ (~rst'[active] => out'[active] = <<OK>>)
      BY <2>1 DEF Acknowledged
    <3> DEFINE o == out'[active]
    <3>3. (Len(o) = 0 \/ Len(o) = 1) /\ (Len(o) > 0 => o[1] = OK) /\ (~rst'[active] => Len(o) = 1)
      BY <3>1, <3>2
    <3> HIDE DEF o
    <3>4. 0 <= hdr.size /\ Len(o) <= 1 + 0 /\ \A i \in 2 .. Len(o) : o[i] = DATA
      <4>1. CASE Len(o) = 0
        BY <2>2, <4>1
      <4>2. CASE Len(o) = 1
        BY <2>2, <4>2
      <4> QED BY <3>3, <4>1, <4>2
    <3> QED BY <2>1, <3>3, <3>4 DEF Dumping, o
  <2> QED BY <2>1, <2>3
<1>36. CASE PeekSend
  <2>1. /\ Dumping(active) /\ req[active] = hdr /\ hdr \in Request /\ hdr.id = "HDR"
        /\ hdr.plugin = PEEK /\ active \in Conns /\ out[active] \in Seq(Tokens) /\ cnt \in Nat
    BY <1>36, Served, CountTypes
       DEF PeekSend, RequestInv, IInv, HeaderInv, WithContext, TypeOK, TcpTypeOK
  <2>2. CASE ~rst[active] /\ Emit(active, DATA) /\ cnt' = cnt + 1 /\ pc' = pc
    BY <1>36, <2>2, DumpGoesOn DEF PeekSend
  <2>3. CASE rst[active] /\ pc' = "close" /\ UNCHANGED tcpVars
    <3>1. active' = active
      BY <1>36 DEF PeekSend
    <3>2. Answered(active)'
      BY <2>1, <2>3, <3>1, DumpAnswered DEF tcpVars
    <3> QED BY <2>3, <3>1, <3>2
  <2> QED BY <1>36, <2>2, <2>3 DEF PeekSend
<1>37. CASE PeekEnds
  <2>1. /\ Dumping(active) /\ req[active] = hdr /\ hdr \in Request /\ hdr.id = "HDR"
        /\ hdr.plugin = PEEK /\ active \in Conns /\ out[active] \in Seq(Tokens) /\ cnt \in Nat
    BY <1>37, Served, CountTypes
       DEF PeekEnds, RequestInv, IInv, HeaderInv, WithContext, TypeOK, TcpTypeOK
  <2>2. Answered(active)'
    BY <1>37, <2>1, DumpAnswered DEF PeekEnds, tcpVars
  <2> QED BY <1>37, <2>2 DEF PeekEnds
<1>38. CASE PeekRun BY <1>38 DEF PeekRun, RunReturns, tcpVars
<1>39. CASE Answer
  <2>1. Answered(active)'
    BY <1>39, SecondAnswer DEF Answer
  <2>2. pc' = "close" /\ active' = active
    BY <1>39 DEF Answer
  <2> QED BY <2>1, <2>2
<1>40. ASSUME NEW c \in Conns, Peer(c) PROVE ActiveTold'
  <2>1. UNCHANGED srvVars
    BY <1>40, PeerLeaves
  <2>2. CASE pc \in OnConnection \/ (pc = "end" /\ active # NoConn)
    <3>1. active \in Conns /\ srv[active] = "open"
      BY <2>2, Served DEF IInv, SocketInv, TypeOK, SrvTypeOK
    <3>2. /\ req'[active] = req[active] /\ out'[active] = out[active]
          /\ rcvd'[active] = rcvd[active] /\ (rst[active] => rst'[active])
          /\ rst[active] \in BOOLEAN /\ rst'[active] \in BOOLEAN
      BY <1>40, <3>1, PeerLeaves, TcpTypeStep DEF Next, IInv, TypeOK, TcpTypeOK
    <3>3. Answered(active) => Answered(active)'
      BY <2>1, <3>2, AnsweredKept DEF srvVars
    <3>4. Dumping(active) => Dumping(active)'
      BY <2>1, <3>2 DEF srvVars, Dumping
    <3>5. Acknowledged(active) => Acknowledged(active)'
      BY <2>1, <3>2 DEF srvVars, Acknowledged
    <3> QED BY <2>1, <3>2, <3>3, <3>4, <3>5 DEF srvVars
  <2>3. CASE ~(pc \in OnConnection \/ (pc = "end" /\ active # NoConn))
    BY <2>1, <2>3 DEF srvVars
  <2> QED BY <2>2, <2>3
<1>41. ASSUME NEW c \in Conns, Network(c) PROVE ActiveTold'
  <2>1. UNCHANGED srvVars
    BY <1>41, PeerLeaves
  <2>2. CASE pc \in OnConnection \/ (pc = "end" /\ active # NoConn)
    <3>1. active \in Conns /\ srv[active] = "open"
      BY <2>2, Served DEF IInv, SocketInv, TypeOK, SrvTypeOK
    <3>2. /\ req'[active] = req[active] /\ out'[active] = out[active]
          /\ rcvd'[active] = rcvd[active] /\ (rst[active] => rst'[active])
          /\ rst[active] \in BOOLEAN /\ rst'[active] \in BOOLEAN
      BY <1>41, <3>1, PeerLeaves, TcpTypeStep DEF Next, IInv, TypeOK, TcpTypeOK
    <3>3. Answered(active) => Answered(active)'
      BY <2>1, <3>2, AnsweredKept DEF srvVars
    <3>4. Dumping(active) => Dumping(active)'
      BY <2>1, <3>2 DEF srvVars, Dumping
    <3>5. Acknowledged(active) => Acknowledged(active)'
      BY <2>1, <3>2 DEF srvVars, Acknowledged
    <3> QED BY <2>1, <3>2, <3>3, <3>4, <3>5 DEF srvVars
  <2>3. CASE ~(pc \in OnConnection \/ (pc = "end" /\ active # NoConn))
    BY <2>1, <2>3 DEF srvVars
  <2> QED BY <2>2, <2>3
<1>42. CASE UNCHANGED vars BY <1>42 DEF vars, tcpVars, srvVars, Acknowledged, Dumping, Answered, Uploaded
<1>43. QED
  BY <1>1, <1>2, <1>3, <1>4, <1>5, <1>6, <1>7, <1>8, <1>9, <1>10, <1>11,
     <1>12, <1>13, <1>14, <1>15, <1>16, <1>17, <1>18, <1>19, <1>20, <1>21, <1>22,
     <1>23, <1>24, <1>25, <1>26, <1>27, <1>28, <1>29, <1>30, <1>31, <1>32, <1>33,
     <1>34, <1>35, <1>36, <1>37, <1>38, <1>39, <1>40, <1>41, <1>42 DEF Next,
     ServerStep, Loader, Plugins, LsgNext, AdrNext, AdfNext, PeekNext

\* What a connection has been told, and what was read of it, while the server
\* only reads or works.
LEMMA HeardKept ==
  ASSUME AnswersInv, UNCHANGED <<req, out, cli>>,
         \A c \in Conns : rcvd'[c] >= rcvd[c] /\ rcvd'[c] \in Nat
  PROVE  /\ \A c \in Conns : Len(out'[c]) > 0 => rcvd'[c] >= 1
         /\ \A c \in Conns : Started(c)' => FileRead(c)'
         /\ \A c \in Conns : FileRead(c) => FileRead(c)'
  <1>1. \A c \in Conns : rcvd[c] \in Nat /\ req[c] \in Request
    BY DEF AnswersInv, IInv, TypeOK, TcpTypeOK
  <1>2. ASSUME NEW c \in Conns PROVE RequestLen(req[c]) \in Nat
    <2>1. req[c].size \in Nat
      BY <1>1, ProtocolAssumption DEF Request
    <2> QED BY <2>1 DEF RequestLen
  <1>3. ASSUME NEW c \in Conns, FileRead(c) PROVE FileRead(c)'
    <2>1. (RequestLen(req[c]))' = RequestLen(req[c]) /\ cli'[c] = cli[c]
      OBVIOUS
    <2> QED BY <1>1, <1>2, <1>3, <2>1 DEF FileRead
  <1>4. ASSUME NEW c \in Conns, Len(out'[c]) > 0 PROVE rcvd'[c] >= 1
    BY <1>1, <1>4 DEF AnswersInv, HeardInv
  <1>5. ASSUME NEW c \in Conns, Started(c)' PROVE FileRead(c)'
    BY <1>3, <1>5 DEF AnswersInv, HeardInv, Started
  <1> QED BY <1>3, <1>4, <1>5

LEMMA HeardSame ==
  ASSUME AnswersInv, UNCHANGED <<req, out, cli, rcvd>>
  PROVE  /\ \A c \in Conns : Len(out'[c]) > 0 => rcvd'[c] >= 1
         /\ \A c \in Conns : Started(c)' => FileRead(c)'
         /\ \A c \in Conns : FileRead(c) => FileRead(c)'
  BY DEF AnswersInv, HeardInv, Started, FileRead

\* recv() takes nothing back.
LEMMA ReadMore ==
  ASSUME AnswersInv, pc \in OnConnection, NEW m \in Int,
         NEW len \in RecvResults(active, m), Consume(active, len)
  PROVE  /\ UNCHANGED <<req, out, cli>>
         /\ \A c \in Conns : rcvd'[c] >= rcvd[c] /\ rcvd'[c] \in Nat
  <1>1. /\ len \in Int /\ rcvd[active] \in Nat
        /\ rcvd'[active] = IF len > 0 THEN rcvd[active] + len ELSE rcvd[active]
    BY Reading
  <1>2. \A c \in Conns : rcvd[c] \in Nat /\ (c # active => rcvd'[c] = rcvd[c])
    BY Served DEF Consume, AnswersInv, IInv, TypeOK, TcpTypeOK
  <1>3. \A c \in Conns : rcvd'[c] >= rcvd[c] /\ rcvd'[c] \in Nat
    BY <1>1, <1>2
  <1> QED BY <1>3 DEF Consume

\* An answer to a request of which something was read.
LEMMA HeardTold ==
  ASSUME AnswersInv, pc \in OnConnection, rcvd[active] >= 1 \/ rst[active],
         NEW token, Emit(active, token),
         ~rst[active] /\ req[active].id = "HDR" /\ req[active].plugin = LSG0
           /\ Len(Append(out[active], token)) = 2 /\ token = OK => FileRead(active)
  PROVE  /\ \A c \in Conns : Len(out'[c]) > 0 => rcvd'[c] >= 1
         /\ \A c \in Conns : Started(c)' => FileRead(c)'
         /\ \A c \in Conns : FileRead(c) => FileRead(c)'
  <1>1. /\ out'[active] = IF rst[active] THEN out[active] ELSE Append(out[active], token)
        /\ \A c \in Conns : c # active => out'[c] = out[c]
        /\ UNCHANGED <<req, rcvd, cli>>
    BY Telling DEF Emit
  <1>2. \A c \in Conns : FileRead(c)' = FileRead(c)
    BY <1>1 DEF FileRead
  <1>3. ASSUME NEW c \in Conns, Len(out'[c]) > 0 PROVE rcvd'[c] >= 1
    BY <1>1, <1>3 DEF AnswersInv, HeardInv
  <1>4. out[active] \in Seq(Tokens)
    BY Served DEF AnswersInv, IInv, TypeOK, TcpTypeOK
  <1>5. ASSUME Len(Append(out[active], token)) = 2
        PROVE  Append(out[active], token)[2] = token
    BY <1>4, <1>5
  <1>6. ASSUME NEW c \in Conns, Started(c)' PROVE FileRead(c)
    <2>1. CASE out'[c] = out[c]
      BY <1>1, <1>6, <2>1 DEF AnswersInv, HeardInv, Started
    <2>2. CASE c = active /\ ~rst[active]
      BY <1>1, <1>5, <1>6, <2>2 DEF Started
    <2> QED BY <1>1, <2>1, <2>2
  <1> QED BY <1>2, <1>3, <1>6

\* Nothing is answered before something was asked, and LSG0 answers DT_ERR_OK
\* only to a file it has read or to a client that has left.
LEMMA HeardStep ==
  ASSUME AnswersInv, [Next]_vars
  PROVE  HeardInv'
<1> USE DEF AnswersInv, HeardInv, Quiet, Working, Goto, Plugin, OnConnection, Points
<1>1. CASE StartServer BY <1>1, HeardSame DEF StartServer, tcpVars
<1>2. ASSUME NEW c \in Conns, Accept(c) PROVE HeardInv'
  BY <1>2, HeardSame DEF Accept
<1>3. CASE AcceptFails BY <1>3, HeardSame DEF AcceptFails, tcpVars
<1>4. CASE EndSession
  <2>1. UNCHANGED <<req, out, cli, rcvd>> /\ pc' \in {"accept", "stop"}
    BY <1>4 DEF EndSession, CloseServerEnd, tcpVars
  <2> QED BY <2>1, HeardSame
<1>5. CASE StopServer BY <1>5, HeardSame DEF StopServer, tcpVars
<1>6. CASE Restart BY <1>6, HeardSame DEF Restart, tcpVars
<1>7. CASE ReadId
  <2>1. PICK len \in RecvResults(active, 1) : Consume(active, len) /\ (pc' # "end" => len = 1)
    BY <1>7 DEF ReadId, RecvSafe
  <2>2. pc \in OnConnection /\ pc' \in {"end", "command", "reject", "hdr"} /\ active' = active
    BY <1>7 DEF ReadId
  <2>3. pc' # "end" => rcvd'[active] >= 1
    BY <2>1, <2>2, Reading
  <2> QED BY <2>1, <2>2, <2>3, ReadMore, HeardKept
<1>8. CASE Command
  <2>1. pc = "command" /\ pc' = "end" /\ Emit(active, OK) /\ rcvd[active] >= 1
    BY <1>8 DEF Command
  <2>2. req[active].id # "HDR"
    BY <2>1 DEF RequestInv
  <2> QED BY <2>1, <2>2, HeardTold
<1>9. CASE Reject
  <2>1. pc = "reject" /\ pc' = "end" /\ Emit(active, ret) /\ rcvd[active] >= 1 /\ ret # OK
    BY <1>9 DEF Reject, RequestInv
  <2> QED BY <2>1, HeardTold
<1>10. CASE ReadHeader
  <2>1. PICK len \in RecvResults(active, 1) : Consume(active, len)
    BY <1>10 DEF ReadHeader, RecvSafe
  <2>2. pc = "hdr" /\ pc' \in {"find", "reject"} /\ active' = active /\ rcvd[active] >= 1
    BY <1>10 DEF ReadHeader
  <2>3. rcvd'[active] >= 1
    BY <2>1, <2>2, Reading
  <2> QED BY <2>1, <2>2, <2>3, ReadMore, HeardKept
<1>11. CASE SelectPlugin BY <1>11, HeardSame DEF SelectPlugin, tcpVars
<1>12. CASE InitFailed BY <1>12, HeardSame DEF InitFailed, tcpVars
<1>13. CASE Acknowledge
  <2>1. pc = "ack" /\ pc' = "exec" /\ Emit(active, OK) /\ rcvd[active] >= 1 /\ out[active] = <<>>
    BY <1>13 DEF Acknowledge, ActiveTold
  <2>2. Len(Append(<<>>, OK)) # 2
    OBVIOUS
  <2> QED BY <2>1, <2>2, HeardTold
<1>14. CASE CloseConnection
  BY <1>14, HeardSame DEF CloseConnection, CloseServerEnd, tcpVars
<1>15. CASE Done BY <1>15, HeardSame DEF Done, tcpVars
<1>16. CASE RecvSpins BY <1>16, HeardSame DEF RecvSpins, vars, srvVars, tcpVars, FileRead
<1>17. CASE LsgInit BY <1>17, HeardSame DEF LsgInit, InitDone, InitFails, tcpVars
<1>18. CASE LsgExec
  <2>1. /\ UNCHANGED <<req, out, cli, rcvd, active>> /\ pc = "exec"
        /\ \/ pc' = "close"
           \/ pc' = "answer" /\ ret' # OK
           \/ pc' = "lsg.recv" /\ cnt' = 0
    BY <1>18 DEF LsgExec, tcpVars, OK
  <2>2. rcvd[active] >= 2 + 0
    BY <2>1 DEF ReceivedInv
  <2> QED BY <2>1, <2>2, HeardSame
<1>19. CASE LsgRecv
  <2>1. PICK len \in RecvResults(active, LsgAsk) :
          /\ Consume(active, len)
          /\ \/ len < 0 /\ ret' # OK /\ pc' = "lsg.load"
             \/ len > 0 /\ ret' # OK /\ pc' = "lsg.load"
             \/ len > 0 /\ pc' = pc /\ cnt' = cnt + len
             \/ len = 0 /\ pc' = "lsg.load"
    BY <1>19 DEF LsgRecv, OK
  <2>2. pc = "lsg.recv" /\ active' = active /\ hdr' = hdr /\ rcvd[active] >= 2 + cnt
    BY <1>19 DEF LsgRecv
  <2>3. LsgAsk \in Int
    <3>1. hdr.size \in Nat
      BY <2>2, CountTypes DEF IInv, HeaderInv, WithTmpFile
    <3> QED BY <3>1, CountTypes, PluginAssumption DEF LsgAsk
  <2>4. /\ len \in Int /\ rcvd[active] \in Nat
        /\ rcvd'[active] = IF len > 0 THEN rcvd[active] + len ELSE rcvd[active]
    BY <2>1, <2>2, <2>3, Reading
  <2>5. len = 0 => cli[active] = "closed"
    BY <2>1 DEF RecvResults
  <2>6. pc' = "lsg.load" /\ ret' = OK => FileRead(active)'
    BY <2>1, <2>2, <2>5 DEF FileRead, Consume
  <2>7. pc' = "lsg.recv" => rcvd'[active] >= 2 + cnt'
    BY <2>1, <2>2, <2>4, CountTypes
  <2>8. pc' \in {"lsg.load", "lsg.recv"}
    BY <2>1, <2>2
  <2> QED BY <2>1, <2>2, <2>3, <2>6, <2>7, <2>8, ReadMore, HeardKept
<1>20. CASE LsgRecvEnds
  <2>1. /\ pc = "lsg.recv" /\ cnt >= hdr.size /\ rcvd[active] >= 2 + cnt
        /\ UNCHANGED <<req, out, cli, rcvd, active, hdr>> /\ pc' = "lsg.load"
    BY <1>20 DEF LsgRecvEnds, tcpVars
  <2>2. hdr = req[active] /\ hdr.id = "HDR" /\ hdr.plugin = LSG0 /\ hdr \in Request
    BY <2>1 DEF RequestInv, IInv, HeaderInv, WithTmpFile
  <2>3. RequestLen(hdr) = 2 + hdr.size
    BY <2>2, ProtocolAssumption DEF RequestLen
  <2>4. rcvd[active] >= RequestLen(req[active])
    BY <2>1, <2>2, <2>3, CountTypes
  <2>5. FileRead(active)'
    BY <2>1, <2>4 DEF FileRead
  <2> QED BY <2>1, <2>5, HeardSame
<1>21. CASE LsgLoad
  <2>1. /\ pc = "lsg.load" /\ pc' = "answer" /\ (ret' = OK => ret = OK)
        /\ UNCHANGED <<req, out, cli, rcvd, active, hdr>>
    BY <1>21 DEF LsgLoad, tcpVars, OK
  <2>2. ret' = OK => FileRead(active)'
    BY <2>1 DEF FileRead
  <2> QED BY <2>1, <2>2, HeardSame
<1>22. CASE LsgRun BY <1>22, HeardSame DEF LsgRun, RunReturns, tcpVars
<1>23. CASE AdrInit BY <1>23, HeardSame DEF AdrInit, InitDone, InitFails, tcpVars
<1>24. CASE AdrExec BY <1>24, HeardSame DEF AdrExec, tcpVars
<1>25. CASE AdrRecv
  <2>1. PICK len \in RecvResults(active, BlockMax) : Consume(active, len)
    BY <1>25 DEF AdrRecv
  <2>2. pc = "adr.recv" /\ pc' \in {"adr.recv", "answer"} /\ active' = active /\ hdr' = hdr
    BY <1>25 DEF AdrRecv
  <2>3. hdr.plugin # LSG0 /\ BlockMax \in Int
    BY <2>2, ProtocolAssumption, PluginAssumption DEF IInv, HeaderInv
  <2> QED BY <2>1, <2>2, <2>3, ReadMore, HeardKept
<1>26. CASE AdrRecvEnds
  <2>1. hdr.plugin # LSG0
    BY <1>26, ProtocolAssumption DEF AdrRecvEnds, IInv, HeaderInv
  <2> QED BY <1>26, <2>1, HeardSame DEF AdrRecvEnds, tcpVars
<1>27. CASE AdrRun BY <1>27, HeardSame DEF AdrRun, RunReturns, tcpVars
<1>28. CASE AdfInit BY <1>28, HeardSame DEF AdfInit, InitDone, InitFails, tcpVars
<1>29. CASE AdfExec BY <1>29, HeardSame DEF AdfExec, tcpVars
<1>30. CASE AdfRecv
  <2>1. PICK len \in RecvResults(active, AdfAsk) : Consume(active, len)
    BY <1>30 DEF AdfRecv
  <2>2. pc = "adf.recv" /\ pc' \in {"adf.recv", "adf.write", "adf.motor"} /\ active' = active
    BY <1>30 DEF AdfRecv
  <2> QED BY <2>1, <2>2, AskTypes, ReadMore, HeardKept
<1>31. CASE AdfWrite BY <1>31, HeardSame DEF AdfWrite, tcpVars
<1>32. CASE AdfMotor
  <2>1. hdr.plugin # LSG0
    BY <1>32, ProtocolAssumption DEF AdfMotor, IInv, HeaderInv
  <2> QED BY <1>32, <2>1, HeardSame DEF AdfMotor, tcpVars
<1>33. CASE AdfRun BY <1>33, HeardSame DEF AdfRun, RunReturns, tcpVars
<1>34. CASE PeekInit BY <1>34, HeardSame DEF PeekInit, InitDone, InitFails, tcpVars
<1>35. CASE PeekExec BY <1>35, HeardSame DEF PeekExec, tcpVars
<1>36. CASE PeekSend
  <2>1. pc = "peek.send" /\ pc' \in {"peek.send", "close"}
    BY <1>36 DEF PeekSend
  <2>2. CASE ~rst[active] /\ Emit(active, DATA)
    <3>1. rcvd[active] >= 1
      <4>1. Len(out[active]) = 1 + cnt /\ active \in Conns
        BY <2>1, <2>2, Served DEF ActiveTold, Dumping
      <4> QED BY <4>1, CountTypes
    <3> QED BY <2>1, <2>2, <3>1, HeardTold DEF OK, DATA
  <2>3. CASE UNCHANGED tcpVars
    BY <2>1, <2>3, HeardSame DEF tcpVars
  <2> QED BY <1>36, <2>2, <2>3 DEF PeekSend
<1>37. CASE PeekEnds BY <1>37, HeardSame DEF PeekEnds, tcpVars
<1>38. CASE PeekRun BY <1>38, HeardSame DEF PeekRun, RunReturns, tcpVars
<1>39. CASE Answer
  <2>1. pc = "answer" /\ pc' = "close" /\ Emit(active, ret) /\ active \in Conns
    BY <1>39, Served DEF Answer
  <2>2. rcvd[active] >= 1 \/ rst[active]
    <3>1. ~rst[active] => out[active] = <<OK>>
      BY <2>1 DEF ActiveTold, Acknowledged
    <3>2. Len(<<OK>>) > 0
      OBVIOUS
    <3>3. rst[active] \in BOOLEAN
      BY <2>1 DEF IInv, TypeOK, TcpTypeOK
    <3> QED BY <2>1, <3>1, <3>2, <3>3
  <2>3. hdr = req[active]
    BY <2>1 DEF RequestInv
  <2> QED BY <2>1, <2>2, <2>3, HeardTold
<1>40. ASSUME NEW c \in Conns, Peer(c) PROVE HeardInv'
  <2> USE DEF IInv, TypeOK, TcpTypeOK
  <2>1. UNCHANGED srvVars
    BY <1>40, PeerLeaves
  <2>2. \A d \in Conns : Len(out'[d]) > 0 => rcvd'[d] >= 1 /\ req'[d] = req[d] /\ out'[d] = out[d]
    <3>1. Len(<<>>) = 0
      OBVIOUS
    <3>2. ASSUME NEW r \in Requests[c], Connected(c, r), NEW d \in Conns, Len(out'[d]) > 0
          PROVE  rcvd'[d] >= 1 /\ req'[d] = req[d] /\ out'[d] = out[d]
      <4>1. out[c] = <<>> /\ UNCHANGED <<out, rcvd>> /\ req' = [req EXCEPT ![c] = r]
        BY <3>2 DEF Connected, ConnectTo, SocketInv, RestTold
      <4>2. d # c
        BY <3>1, <3>2, <4>1
      <4> QED BY <3>2, <4>1, <4>2
    <3>3. CASE ClientSend(c) \/ ClientRead(c) \/ ClientClose(c)
      BY <3>3 DEF ClientSend, ClientRead, ClientClose
    <3>4. CASE Forget(c)
      <4>1. /\ out' = [out EXCEPT ![c] = <<>>]
            /\ \A d \in Conns : d # c => req'[d] = req[d] /\ rcvd'[d] = rcvd[d]
        BY <3>4 DEF Forget
      <4> QED BY <3>1, <4>1
    <3> QED BY <1>40, <3>2, <3>3, <3>4 DEF Peer
  <2>3. ASSUME NEW d \in Conns, req'[d] = req[d], FileRead(d), rcvd'[d] = rcvd[d],
               d # c \/ ~Forget(c)
        PROVE  FileRead(d)'
    <3>1. cli[d] = "closed" => cli'[d] = "closed"
      BY <1>40, <2>3 DEF Peer, Connected, ConnectTo, ClientSend, ClientRead, ClientClose, Forget
    <3> QED BY <2>3, <3>1 DEF FileRead
  <2>4. ASSUME NEW d \in Conns, Started(d)' PROVE FileRead(d)'
    <3>1. Len(out'[d]) > 0
      BY <2>4 DEF Started
    <3>2. Started(d)
      BY <2>2, <2>4, <3>1 DEF Started
    <3>3. rcvd'[d] = rcvd[d] /\ (d # c \/ ~Forget(c))
      <4>1. Len(<<>>) = 0
        OBVIOUS
      <4>2. CASE Forget(c)
        <5>1. out' = [out EXCEPT ![c] = <<>>] /\ rcvd' = [rcvd EXCEPT ![c] = 0]
          BY <4>2 DEF Forget
        <5>2. d # c
          BY <3>1, <4>1, <5>1
        <5> QED BY <5>1, <5>2
      <4>3. CASE ~Forget(c)
        <5>1. UNCHANGED rcvd
          BY <1>40, <4>3 DEF Peer, Connected, ConnectTo, ClientSend, ClientRead, ClientClose
        <5> QED BY <4>3, <5>1
      <4> QED BY <4>2, <4>3
    <3> QED BY <2>2, <2>3, <3>1, <3>2, <3>3
  <2>5. pc \in OnConnection =>
          /\ req'[active] = req[active] /\ rcvd'[active] = rcvd[active]
          /\ active \in Conns /\ (active # c \/ ~Forget(c))
    BY <1>40, PeerLeaves, Served DEF Forget
  <2>6. pc \in OnConnection => (FileRead(active) => FileRead(active)')
    BY <2>1, <2>3, <2>5 DEF srvVars, FileRead
  <2> QED BY <2>1, <2>2, <2>4, <2>5, <2>6 DEF srvVars
<1>41. ASSUME NEW c \in Conns, Network(c) PROVE HeardInv'
  BY <1>41, HeardSame DEF Network, Reset, srvVars, FileRead
<1>42. CASE UNCHANGED vars BY <1>42, HeardSame DEF vars, tcpVars, srvVars, FileRead
<1>43. QED
  BY <1>1, <1>2, <1>3, <1>4, <1>5, <1>6, <1>7, <1>8, <1>9, <1>10, <1>11,
     <1>12, <1>13, <1>14, <1>15, <1>16, <1>17, <1>18, <1>19, <1>20, <1>21, <1>22,
     <1>23, <1>24, <1>25, <1>26, <1>27, <1>28, <1>29, <1>30, <1>31, <1>32, <1>33,
     <1>34, <1>35, <1>36, <1>37, <1>38, <1>39, <1>40, <1>41, <1>42 DEF Next,
     ServerStep, Loader, Plugins, LsgNext, AdrNext, AdfNext, PeekNext

LEMMA AnswersStep ==
  ASSUME AnswersInv, [Next]_vars
  PROVE  AnswersInv'
  BY IInvStep, RequestStep, ReceivedStep, ActiveStep, RestStep, HeardStep DEF AnswersInv

-----------------------------------------------------------------------------
(* What is told at every point of the server follows the protocol, for any     *)
(* clients, plugin list and sizes (loader_main() and the plugins).             *)
THEOREM AnswersInvariance == Spec => []AnswersInv
  BY InitAnswers, AnswersStep, PTL DEF Spec

\* Every connection is one of those the invariant speaks of.
LEMMA Everywhere ==
  ASSUME AnswersInv, NEW c \in Conns
  PROVE  \/ out[c] = <<>> \/ Answered(c) \/ Acknowledged(c)
         \/ pc = "peek.send" /\ active = c /\ Dumping(c) /\ hdr = req[c]
  <1>1. CASE srv[c] # "open"
    BY <1>1 DEF AnswersInv, RestTold, IInv, TypeOK, TcpTypeOK
  <1>2. CASE srv[c] = "open"
    <2>1. active = c /\ active # NoConn
      BY <1>2, TcpAssumption DEF AnswersInv, IInv, SocketInv
    <2>2. pc \in Quiet \cup Working \cup {"peek.send", "close", "end"}
      BY <1>2, <2>1 DEF AnswersInv, IInv, SocketInv, TypeOK, SrvTypeOK, Points, Quiet, Working
    <2> QED BY <2>1, <2>2 DEF AnswersInv, ActiveTold, RequestInv
  <1> QED BY <1>1, <1>2

LEMMA EveryoneShaped ==
  ASSUME AnswersInv, NEW c \in Conns PROVE Shaped(req[c], out[c])
  <1>1. CASE out[c] = <<>> \/ Acknowledged(c)
    <2>1. Len(out[c]) <= 1
      <3>1. Len(<<>>) = 0
        OBVIOUS
      <3>2. Len(out[c]) = 0 \/ Len(out[c]) = 1
        BY <1>1, <3>1, OneAtMost
      <3>3. 0 <= 1 /\ 1 <= 1
        OBVIOUS
      <3> QED BY <3>2, <3>3, Zenon
    <2> QED BY <2>1 DEF Shaped
  <1>2. CASE Answered(c)
    BY <1>2 DEF Answered
  <1>3. CASE pc = "peek.send" /\ active = c /\ Dumping(c) /\ hdr = req[c]
    <2>1. hdr.id = "HDR" /\ hdr.plugin = PEEK /\ hdr \in Request
      BY <1>3 DEF AnswersInv, RequestInv, IInv, HeaderInv, WithContext
    <2>2. cnt \in Nat /\ hdr.size \in Nat /\ Len(out[c]) \in Nat
      BY <2>1, CountTypes DEF AnswersInv, IInv, TypeOK, TcpTypeOK
    <2> QED BY <1>3, <2>1, <2>2 DEF Dumping, Shaped
  <1> QED BY <1>1, <1>2, <1>3, Everywhere

LEMMA UploadRead ==
  ASSUME AnswersInv, NEW c \in Conns, Uploaded(c) PROVE rcvd[c] >= RequestLen(req[c])
  <1>1. CASE out[c] = <<>> \/ Acknowledged(c)
    <2>1. Len(out[c]) = 0 \/ Len(out[c]) = 1
      BY <1>1, OneAtMost
    <2> QED BY <2>1 DEF Uploaded
  <1>2. CASE Answered(c)
    BY <1>2 DEF Answered
  <1>3. CASE pc = "peek.send" /\ active = c /\ Dumping(c) /\ hdr = req[c]
    <2>1. hdr.plugin = PEEK
      BY <1>3 DEF AnswersInv, IInv, HeaderInv
    <2> QED BY <1>3, <2>1, ProtocolAssumption DEF Uploaded
  <1> QED BY <1>1, <1>2, <1>3, Everywhere

(* Every client is told one error, or DT_ERR_OK and what its plugin promises.  *)
THEOREM AnswersShaped == Spec => []ProtocolShape
  <1>1. AnswersInv => ProtocolShape
    BY EveryoneShaped DEF ProtocolShape
  <1> QED BY <1>1, AnswersInvariance, PTL

(* No path of loader_main() hangs up without an answer, but for one.           *)
THEOREM NobodyLeftSilent == Spec => []NoSilentCloseBut
  <1>1. AnswersInv => NoSilentCloseBut
    BY DEF AnswersInv, RestTold, Answered, NoSilentCloseBut
  <1> QED BY <1>1, AnswersInvariance, PTL

(* DT_ERR_OK as the last answer of ADR0 and ADF0 means that all was read.      *)
THEOREM OkIsReceived == Spec => []OkMeansReceived
  <1>1. AnswersInv => OkMeansReceived
    BY UploadRead DEF OkMeansReceived
  <1> QED BY <1>1, AnswersInvariance, PTL
=============================================================================
