----------------------------- MODULE ReactorProof -----------------------------
(***************************************************************************)
(* Proofs about the event handler prototype, for any size of its table, any *)
(* number of sockets and peers and any backlog: the table follows the       *)
(* sockets, no handler can block, and only CTRL-C ends the loop.            *)
(***************************************************************************)
EXTENDS Reactor, TLAPS

\* Nothing is registered, waited for or open but the listening socket.
BoundInv ==
  pc = "bound" =>
    /\ ready = {} /\ rset = [t \in Slots |-> "none"]
    /\ \E l \in Sockets :
         sock[l] = "listen" /\ \A s \in Sockets \ {l} : sock[s] = "free"

OffInv == pc = "off" => ready = {} /\ \A s \in Sockets : sock[s] = "free"

\* The loop visits only sockets that are in the table.
ReadyInv == (Started => ready \subseteq Registered) /\ (pc = "ended" => ready = {})

WhyInv == OnlyBreakEnds /\ (pc \in {"bound", "run"} => why = "none")

IInv ==
  TypeOK /\ BoundInv /\ OffInv /\ ReadyInv /\ WhyInv /\ TableMatches /\ NeverBlocks

\* What the table holds is open, so that WaitSelect() never fails because of it.
LEMMA NoBadSet == ASSUME IInv, Started PROVE ~BadSet
  <1> SUFFICES ASSUME NEW s \in Registered PROVE s \in Sockets /\ sock[s] # "free"
    BY DEF BadSet
  <1>1. s \in Slots /\ (rset[s] = "accept" \/ rset[s] = "read")
    BY DEF IInv, TypeOK, EhTypeOK, Registered
  <1> QED
    BY <1>1, EventAssumption DEF IInv, TableMatches

\* A queue that has lost a member still has peers only.
LEMMA RemoveAtType ==
  ASSUME NEW q \in Seq(Peers), NEW i \in 1 .. Len(q)
  PROVE  RemoveAt(q, i) \in Seq(Peers)
  BY DEF RemoveAt

LEMMA AwayType == Away \in PeerStates
  BY ReactorAssumption DEF Away, PeerStates

LEMMA InitIInv == Init => IInv
  <1> SUFFICES ASSUME Init PROVE IInv
    OBVIOUS
  <1>1. EhTypeOK
    BY DEF Init, EhInit, EhTypeOK
  <1>a. peer \in [Peers -> PeerStates]
    BY AwayType DEF Init
  <1>b. queue \in Seq(Peers)
    BY DEF Init
  <1>2. TypeOK
    BY <1>1, <1>a, <1>b DEF Init, TypeOK
  <1> QED
    BY <1>2 DEF Init, EhInit, IInv, BoundInv, OffInv, ReadyInv, WhyInv,
       TableMatches, NeverBlocks, OnlyBreakEnds, Started

-----------------------------------------------------------------------------
(* main() *)

LEMMA StartIInv == ASSUME IInv, Start PROVE IInv'
  <1>1. CASE UNCHANGED <<ehVars, pc, library, queue, peer>>
    BY <1>1 DEF Start, IInv, TypeOK, EhTypeOK, BoundInv, OffInv, ReadyInv, WhyInv,
       TableMatches, NeverBlocks, OnlyBreakEnds, Started, Registered, ehVars
  <1>2. CASE \E s \in Sockets :
               /\ sock' = [sock EXCEPT ![s] = "listen"]
               /\ rset' = [t \in Slots |-> "none"]
               /\ library' = TRUE /\ pc' = "bound"
               /\ UNCHANGED <<nonblock, ready, queue, peer>>
    <2>1. PICK s \in Sockets :
               /\ sock' = [sock EXCEPT ![s] = "listen"]
               /\ rset' = [t \in Slots |-> "none"]
               /\ library' = TRUE /\ pc' = "bound"
               /\ UNCHANGED <<nonblock, ready, queue, peer>>
      BY <1>2
    <2>2. TypeOK'
      BY <2>1 DEF Start, IInv, TypeOK, EhTypeOK
    <2>3. BoundInv'
      BY <2>1 DEF Start, IInv, OffInv, BoundInv, TypeOK, EhTypeOK
    <2> QED
      BY <2>1, <2>2, <2>3 DEF Start, IInv, OffInv, ReadyInv, WhyInv, TableMatches,
         NeverBlocks, OnlyBreakEnds, Started
  <1> QED
    BY <1>1, <1>2 DEF Start

\* Afterwards nothing is open, and nothing waits.
LEMMA CloseAllType == ASSUME TypeOK, CloseAll PROVE
  /\ sock' \in [Sockets -> {"free", "listen"} \cup Peers] /\ nonblock' \subseteq Sockets
  /\ library' \in BOOLEAN /\ queue' \in Seq(Peers)
  /\ peer' \in [Peers -> PeerStates]
  /\ \A s \in Sockets : sock'[s] = "free"
  <1>1. queue' \in Seq(Peers)
    BY DEF CloseAll
  <1>2. peer' \in [Peers -> PeerStates]
    BY AwayType DEF CloseAll
  <1>3. sock' \in [Sockets -> {"free", "listen"} \cup Peers]
        /\ \A s \in Sockets : sock'[s] = "free"
    BY DEF CloseAll
  <1> QED
    BY <1>1, <1>2, <1>3 DEF CloseAll

LEMMA RegisterIInv == ASSUME IInv, Register PROVE IInv'
  <1>1. PICK s \in Sockets :
          /\ sock[s] = "listen"
          /\ \/ /\ AddWatched(s, "listen", "accept") /\ pc' = "run"
                /\ UNCHANGED <<ready, library, queue, peer>>
             \/ CloseAll /\ pc' = "off" /\ UNCHANGED <<rset, ready>>
    BY DEF Register
  <1>2. pc = "bound" /\ UNCHANGED <<signal, why>>
    BY DEF Register
  <1>3. CASE CloseAll /\ pc' = "off" /\ UNCHANGED <<rset, ready>>
    BY <1>2, <1>3, CloseAllType DEF IInv, TypeOK, EhTypeOK, BoundInv, OffInv, ReadyInv,
       WhyInv, TableMatches, NeverBlocks, OnlyBreakEnds, Started
  <1>4. CASE AddWatched(s, "listen", "accept") /\ pc' = "run"
             /\ UNCHANGED <<ready, library, queue, peer>>
    <2>1. TypeOK'
      BY <1>2, <1>4 DEF AddWatched, IInv, TypeOK, EhTypeOK
    <2>2. \A t \in Sockets \ {s} : sock[t] = "free"
      BY <1>1, <1>2 DEF IInv, BoundInv
    <2>3. TableMatches'
      BY <1>1, <1>2, <1>4, <2>2, EventAssumption
         DEF AddWatched, IInv, TypeOK, EhTypeOK, BoundInv, TableMatches
    <2>4. NeverBlocks'
      BY <1>2, <1>4 DEF AddWatched, IInv, BoundInv, NeverBlocks, Registered
    <2>5. ready' = {} /\ pc' = "run" /\ why' = "none"
      BY <1>2, <1>4 DEF IInv, BoundInv, WhyInv
    <2> QED
      BY <2>1, <2>3, <2>4, <2>5 DEF IInv, BoundInv, OffInv, ReadyInv, WhyInv, OnlyBreakEnds
  <1> QED
    BY <1>1, <1>3, <1>4

LEMMA DeinitIInv == ASSUME IInv, Deinit PROVE IInv'
  <1>1. CloseAll /\ pc' = "off" /\ rset' = [s \in Slots |-> "none"]
        /\ UNCHANGED <<ready, signal, why>> /\ pc = "ended"
    BY DEF Deinit
  <1> QED
    BY <1>1, CloseAllType DEF IInv, TypeOK, EhTypeOK, BoundInv, OffInv, ReadyInv, WhyInv,
       TableMatches, NeverBlocks, OnlyBreakEnds, Started

-----------------------------------------------------------------------------
(* eh_run() *)

LEMMA WaitIInv == ASSUME IInv, Wait PROVE IInv'
  BY DEF Wait, Select, IInv, TypeOK, EhTypeOK, BoundInv, OffInv, ReadyInv, WhyInv,
     TableMatches, NeverBlocks, OnlyBreakEnds, Started, Registered

LEMMA WaitFailsIInv == ASSUME IInv, WaitFails PROVE IInv'
  <1>1. signal
    BY NoBadSet DEF WaitFails, Started
  <1> QED
    BY <1>1 DEF WaitFails, IInv, TypeOK, EhTypeOK, BoundInv, OffInv, ReadyInv, WhyInv,
       TableMatches, NeverBlocks, OnlyBreakEnds, Started, Registered, ehVars

LEMMA AcceptNothingIInv == ASSUME IInv, NEW s \in Slots, AcceptNothing(s) PROVE IInv'
  BY DEF AcceptNothing, Turn, IInv, TypeOK, EhTypeOK, BoundInv, OffInv, ReadyInv, WhyInv,
     TableMatches, NeverBlocks, OnlyBreakEnds, Started, Registered

LEMMA AcceptOneIInv == ASSUME IInv, NEW s \in Slots, AcceptOne(s) PROVE IInv'
  <1> DEFINE p == Head(queue)
  <1>1. PICK new \in FreeSockets :
          \/ /\ AddBounds(new, p) \/ AddWatched(new, p, "read")
             /\ peer' = [peer EXCEPT ![p].at = "open"]
          \/ AddConf(new) /\ peer' = [peer EXCEPT ![p] = Away]
    BY DEF AcceptOne
  <1>2. /\ pc = "run" /\ queue # <<>> /\ queue' = Tail(queue) /\ ready' = ready \ {s}
        /\ UNCHANGED <<pc, library, signal, why>>
    BY DEF AcceptOne, Turn
  <1>3. p \in Peers /\ queue' \in Seq(Peers)
    BY <1>2 DEF IInv, TypeOK
  <1>4. new \in Sockets /\ sock[new] = "free"
    BY DEF FreeSockets
  <1>5. new \in Slots => rset[new] = "none"
    BY <1>2, <1>4, EventAssumption
       DEF IInv, TypeOK, EhTypeOK, TableMatches, Started
  <1> HIDE DEF p
  <1>a. peer' \in [Peers -> PeerStates]
    <2>1. peer \in [Peers -> PeerStates]
      BY DEF IInv, TypeOK
    <2>2. CASE peer' = [peer EXCEPT ![p].at = "open"]
      BY <1>3, <2>1, <2>2 DEF PeerStates
    <2>3. CASE peer' = [peer EXCEPT ![p] = Away]
      BY <1>3, <2>1, <2>3, AwayType
    <2> QED
      BY <1>1, <2>2, <2>3
  <1>b. sock' \in [Sockets -> {"free", "listen"} \cup Peers] /\ nonblock' \subseteq Sockets
    BY <1>1, <1>3, <1>4 DEF AddBounds, AddWatched, AddConf, IInv, TypeOK, EhTypeOK
  <1>c. rset' \in [Slots -> {"none", "accept", "read"}]
    BY <1>1 DEF AddBounds, AddWatched, AddConf, IInv, TypeOK, EhTypeOK
  <1>6. TypeOK'
    BY <1>2, <1>3, <1>a, <1>b, <1>c DEF IInv, TypeOK, EhTypeOK
  <1>7. TableMatches'
    <2>1. \A t \in Slots :
            /\ rset[t] = "accept" <=> t \in Sockets /\ sock[t] = "listen"
            /\ rset[t] = "read" <=> t \in Sockets /\ sock[t] \in Peers
      BY <1>2 DEF IInv, TableMatches, Started
    <2>2. sock \in [Sockets -> {"free", "listen"} \cup Peers]
          /\ rset \in [Slots -> {"none", "accept", "read"}]
      BY DEF IInv, TypeOK, EhTypeOK
    <2>3. CASE AddBounds(new, p)
      BY <1>2, <1>4, <2>1, <2>2, <2>3 DEF AddBounds, TableMatches
    <2>4. CASE AddWatched(new, p, "read")
      BY <1>2, <1>3, <1>4, <2>1, <2>2, <2>4, EventAssumption DEF AddWatched, TableMatches
    <2>5. CASE AddConf(new)
      BY <1>2, <1>4, <2>1, <2>2, <2>5 DEF AddConf, TableMatches
    <2> QED
      BY <1>1, <2>3, <2>4, <2>5
  <1>8. NeverBlocks'
    BY <1>1, <1>2, <1>4, <1>5
       DEF AddBounds, AddWatched, AddConf, IInv, TypeOK, EhTypeOK, NeverBlocks, Started,
           Registered
  <1>9. ReadyInv'
    BY <1>1, <1>2, <1>4, <1>5
       DEF AddBounds, AddWatched, AddConf, IInv, TypeOK, EhTypeOK, ReadyInv, Started,
           Registered
  <1> QED
    BY <1>2, <1>6, <1>7, <1>8, <1>9 DEF IInv, BoundInv, OffInv, WhyInv, OnlyBreakEnds

LEMMA ReadSomeIInv == ASSUME IInv, NEW s \in Slots, ReadSome(s) PROVE IInv'
  <1>1. PICK p \in Peers : \E r \in 1 .. peer[p].data :
          peer' = [peer EXCEPT ![p].data = @ - r]
    BY DEF ReadSome
  <1>a. PICK r \in 1 .. peer[p].data : peer' = [peer EXCEPT ![p].data = @ - r]
    BY <1>1
  <1>b. peer[p] \in PeerStates
    BY DEF IInv, TypeOK
  <1>c. peer[p].data - r \in 0 .. MaxData
    BY <1>b, ReactorAssumption DEF PeerStates
  <1>2. peer' \in [Peers -> PeerStates]
    BY <1>a, <1>b, <1>c DEF IInv, TypeOK, PeerStates
  <1> QED
    BY <1>2 DEF ReadSome, Turn, IInv, TypeOK, EhTypeOK, BoundInv, OffInv, ReadyInv, WhyInv,
       TableMatches, NeverBlocks, OnlyBreakEnds, Started, Registered

LEMMA ReadEndIInv == ASSUME IInv, NEW s \in Slots, ReadEnd(s) PROVE IInv'
  <1>1. PICK p \in Peers : sock[s] = p /\ peer' = [peer EXCEPT ![p] = Away]
    BY DEF ReadEnd
  <1>2. /\ pc = "run" /\ rset[s] = "read" /\ ready' = ready \ {s}
        /\ UNCHANGED <<pc, library, signal, why, queue>>
        /\ sock' = [sock EXCEPT ![s] = "free"] /\ nonblock' = nonblock \ {s}
        /\ rset' = [rset EXCEPT ![s] = "none"]
    BY DEF ReadEnd, Turn, CloseAndDelete
  <1>3. TypeOK'
    BY <1>1, <1>2, AwayType DEF IInv, TypeOK, EhTypeOK
  <1>4. TableMatches'
    BY <1>2, EventAssumption DEF IInv, TypeOK, EhTypeOK, TableMatches, Started
  <1>5. NeverBlocks'
    BY <1>2 DEF IInv, TypeOK, EhTypeOK, NeverBlocks, Started, Registered
  <1>6. ReadyInv'
    BY <1>2 DEF IInv, TypeOK, EhTypeOK, ReadyInv, Started, Registered
  <1> QED
    BY <1>2, <1>3, <1>4, <1>5, <1>6 DEF IInv, BoundInv, OffInv, WhyInv, OnlyBreakEnds

-----------------------------------------------------------------------------
(* The world touches nothing but peers, the queue and the signal. *)

LEMMA ElsewhereIInv ==
  ASSUME IInv, TypeOK', UNCHANGED <<ehVars, pc, why>>
  PROVE  IInv'
  BY DEF IInv, BoundInv, OffInv, ReadyInv, WhyInv, TableMatches, NeverBlocks,
     OnlyBreakEnds, Started, Registered, ehVars

LEMMA CtrlCIInv == ASSUME IInv, CtrlC PROVE IInv'
  <1>1. TypeOK'
    BY DEF CtrlC, IInv, TypeOK, EhTypeOK, ehVars
  <1> QED
    BY <1>1, ElsewhereIInv DEF CtrlC

LEMMA PeerIInv ==
  ASSUME IInv, NEW p \in Peers, Connect(p) \/ Send(p) \/ Close(p) \/ Reset(p)
  PROVE  IInv'
  <1> USE DEF IInv, TypeOK
  <1>1. UNCHANGED <<ehVars, pc, library, signal, why>>
    BY DEF Connect, Send, Close, Reset, World
  <1>2. EhTypeOK'
    BY <1>1 DEF EhTypeOK, ehVars
  <1>3. CASE Connect(p)
    <2>a. peer' \in [Peers -> PeerStates]
      BY <1>3 DEF Connect, PeerStates
    <2>b. queue' \in Seq(Peers)
      BY <1>3 DEF Connect
    <2>1. TypeOK'
      BY <1>1, <1>2, <2>a, <2>b
    <2> QED BY <1>1, <2>1, ElsewhereIInv
  <1>4. CASE Send(p)
    <2>a. peer[p] \in PeerStates /\ peer[p].data + 1 \in 0 .. MaxData
      BY <1>4, ReactorAssumption DEF Send, PeerStates
    <2>b. peer' \in [Peers -> PeerStates] /\ queue' = queue
      BY <1>4, <2>a DEF Send, PeerStates
    <2>1. TypeOK'
      BY <1>1, <1>2, <2>b
    <2> QED BY <1>1, <2>1, ElsewhereIInv
  <1>5. CASE Close(p)
    <2>a. peer' \in [Peers -> PeerStates] /\ queue' = queue
      BY <1>5 DEF Close, PeerStates
    <2>1. TypeOK'
      BY <1>1, <1>2, <2>a
    <2> QED BY <1>1, <2>1, ElsewhereIInv
  <1>6. CASE Reset(p)
    <2>1. queue' \in Seq(Peers)
      BY <1>6, RemoveAtType DEF Reset
    <2>a. peer' \in [Peers -> PeerStates]
      BY <1>6, AwayType, ReactorAssumption DEF Reset, PeerStates
    <2>2. TypeOK'
      BY <1>1, <1>2, <2>1, <2>a
    <2> QED BY <1>1, <2>2, ElsewhereIInv
  <1> QED
    BY <1>3, <1>4, <1>5, <1>6

LEMMA NextIInv == IInv /\ [Next]_vars => IInv'
  <1> SUFFICES ASSUME IInv, [Next]_vars PROVE IInv'
    OBVIOUS
  <1>1. CASE Main
    BY <1>1, StartIInv, RegisterIInv, DeinitIInv, WaitIInv, WaitFailsIInv,
       AcceptNothingIInv, AcceptOneIInv, ReadSomeIInv, ReadEndIInv DEF Main, Handlers
  <1>2. CASE CtrlC
    BY <1>2, CtrlCIInv
  <1>3. CASE \E p \in Peers : Connect(p) \/ Send(p) \/ Close(p) \/ Reset(p)
    BY <1>3, PeerIInv
  <1>4. CASE UNCHANGED vars
    <2>1. TypeOK'
      BY <1>4 DEF IInv, TypeOK, EhTypeOK, vars, ehVars
    <2> QED
      BY <1>4, <2>1, ElsewhereIInv DEF vars
  <1> QED
    BY <1>1, <1>2, <1>3, <1>4 DEF Next

-----------------------------------------------------------------------------
(* The inductive invariant holds in every reachable state. *)
THEOREM ReactorInv == Spec => []IInv
  BY InitIInv, NextIInv, PTL DEF Spec

(* The event handler's table, the sockets, the queue and the peers keep their  *)
(* types: no entry is ever written behind the table (eh_add_handler()).        *)
THEOREM ReactorTypes == Spec => []TypeOK
  <1>1. IInv => TypeOK
    BY DEF IInv
  <1> QED BY <1>1, ReactorInv, PTL

(* Between two calls of handlers the table has exactly the sockets that are    *)
(* open and that fit it (eh_handle_callback(), accept_handler()).              *)
THEOREM ReactorTable == Spec => []TableMatches
  <1>1. IInv => TableMatches
    BY DEF IInv
  <1> QED BY <1>1, ReactorInv, PTL

(* Every socket whose handler can be called is non-blocking: neither accept()  *)
(* nor recv() stops the loop.                                                  *)
THEOREM ReactorNeverBlocks == Spec => []NeverBlocks
  <1>1. IInv => NeverBlocks
    BY DEF IInv
  <1> QED BY <1>1, ReactorInv, PTL

(* eh_run() returns for CTRL-C only: no closed socket is left for WaitSelect() *)
(* to fail on, whatever peers did between two calls of handlers.               *)
THEOREM ReactorOnlyBreak == Spec => []OnlyBreakEnds
  <1>1. IInv => OnlyBreakEnds
    BY DEF IInv, WhyInv
  <1> QED BY <1>1, ReactorInv, PTL
=============================================================================
