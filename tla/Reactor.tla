------------------------------- MODULE Reactor -------------------------------
(* The program around the event handler (tmp/new_main.c): a listening socket   *)
(* whose handler accepts, and a handler per connection that reads until the    *)
(* peer has closed.  Peers connect, send, close and reset at any time, and     *)
(* between any two calls of handlers.  The program never sends.                *)
EXTENDS EventHandler

CONSTANTS
  MaxData,   \* bound: unread portions of data a connection holds
  Backlog    \* ACCEPT_HANDLER_NUM_LISTENERS

ASSUME ReactorAssumption == MaxData \in Nat \ {0} /\ Backlog \in Nat \ {0}

VARIABLES
  pc,       \* where main() is
  library,  \* bsdsocket.library is open
  signal,   \* CTRL-C was pressed
  why,      \* what ended eh_run()
  queue,    \* connections that wait for accept()
  peer      \* peer[p]: where it is, what it has sent and how it has ended

vars == <<ehVars, pc, library, signal, why, queue, peer>>

PeerStates ==
  [at : {"away", "queued", "open"}, data : 0 .. MaxData, end : {"no", "fin", "reset"}]

Away == [at |-> "away", data |-> 0, end |-> "no"]

TypeOK ==
  /\ EhTypeOK
  /\ pc \in {"off", "bound", "run", "ended"}
  /\ library \in BOOLEAN /\ signal \in BOOLEAN
  /\ why \in {"none", "break", "badset"}
  /\ queue \in Seq(Peers)
  /\ peer \in [Peers -> PeerStates]

Init ==
  /\ EhInit
  /\ pc = "off" /\ library = FALSE /\ signal = FALSE /\ why = "none"
  /\ queue = <<>> /\ peer = [p \in Peers |-> Away]

\* The library closes with all its sockets; waiting and connected peers are gone.
CloseAll ==
  /\ library' = FALSE
  /\ sock' = [s \in Sockets |-> "free"] /\ nonblock' = {}
  /\ queue' = <<>> /\ peer' = [p \in Peers |-> Away]

-----------------------------------------------------------------------------
(* main() *)

\* eh_init_with_open() and init_accept_handler(): no library, no socket or no
\* bind() or listen() (the socket is closed again), or a listening socket.
Start ==
  /\ pc = "off"
  /\ \/ UNCHANGED <<ehVars, pc, library, queue, peer>>
     \/ \E s \in Sockets :
          /\ sock' = [sock EXCEPT ![s] = "listen"]
          /\ rset' = [t \in Slots |-> "none"]
          /\ library' = TRUE
          /\ pc' = "bound"
          /\ UNCHANGED <<nonblock, ready, queue, peer>>
  /\ signal' = FALSE /\ why' = "none"

\* eh_add_handler() for accept_handler().  When it fails main() cleans up, after
\* EH_ERROR_SOCKET_CONF with a second CloseSocket() of the same number.
Register ==
  /\ pc = "bound"
  /\ \E s \in Sockets :
       /\ sock[s] = "listen"
       /\ \/ /\ AddWatched(s, "listen", "accept")
             /\ pc' = "run"
             /\ UNCHANGED <<ready, library, queue, peer>>
          \/ /\ CloseAll
             /\ pc' = "off"
             /\ UNCHANGED <<rset, ready>>
  /\ UNCHANGED <<signal, why>>

\* eh_run() has returned: deinit_accept_handler() and eh_deinit().
Deinit ==
  /\ pc = "ended"
  /\ CloseAll
  /\ pc' = "off"
  /\ rset' = [s \in Slots |-> "none"]   \* the table is static: Start clears it
  /\ UNCHANGED <<ready, signal, why>>

-----------------------------------------------------------------------------
(* eh_run() *)

Pending(p) == peer[p].data > 0 \/ peer[p].end # "no"

Readable ==
  {s \in Sockets : \/ sock[s] = "listen" /\ queue # <<>>
                   \/ \E p \in Peers : sock[s] = p /\ Pending(p)}

Wait ==
  /\ pc = "run" /\ ~signal
  /\ Select(Readable)
  /\ UNCHANGED <<pc, library, signal, why, queue, peer>>

\* WaitSelect() returns -1.
WaitFails ==
  /\ pc = "run" /\ ready = {}
  /\ signal \/ BadSet
  /\ why' = IF signal THEN "break" ELSE "badset"
  /\ pc' = "ended"
  /\ UNCHANGED <<ehVars, library, signal, queue, peer>>

\* Mutant: the rest of the round is forgotten.
TurnLast(s) == pc = "run" /\ IsNext(s) /\ ready' = {}

\* One bit of the loop in eh_wfe().
Turn(s) == pc = "run" /\ IsNext(s) /\ ready' = ready \ {s}

\* accept() has nothing (the peer is gone again) or no number left.
AcceptNothing(s) ==
  /\ Turn(s) /\ rset[s] = "accept"
  /\ queue = <<>> \/ FreeSockets = {}
  /\ s \in nonblock
  /\ UNCHANGED <<sock, nonblock, rset, pc, library, signal, why, queue, peer>>

\* A connection, and eh_add_handler() with a result that nobody looks at.
AcceptOne(s) ==
  /\ Turn(s) /\ rset[s] = "accept"
  /\ queue # <<>>
  /\ queue' = Tail(queue)
  /\ \E new \in FreeSockets :
       LET p == Head(queue)
       IN  \/ /\ AddBounds(new, p) \/ AddWatched(new, p, "read")
              /\ peer' = [peer EXCEPT ![p].at = "open"]
           \/ /\ AddConf(new)
              /\ peer' = [peer EXCEPT ![p] = Away]
  /\ UNCHANGED <<pc, library, signal, why>>

\* recv() brings data.
ReadSome(s) ==
  /\ Turn(s) /\ rset[s] = "read"
  /\ \E p \in Peers :
       /\ sock[s] = p
       /\ \E r \in 1 .. peer[p].data : peer' = [peer EXCEPT ![p].data = @ - r]
  /\ UNCHANGED <<sock, nonblock, rset, pc, library, signal, why, queue>>

\* recv() returns 0, or -1 after a reset.
ReadEnd(s) ==
  /\ Turn(s) /\ rset[s] = "read"
  /\ \E p \in Peers :
       /\ sock[s] = p
       /\ peer[p].data = 0 /\ peer[p].end # "no"
       /\ peer' = [peer EXCEPT ![p] = Away]
  /\ CloseAndDelete(s)
  /\ UNCHANGED <<pc, library, signal, why, queue>>

Handlers == \E s \in Slots :
  AcceptNothing(s) \/ AcceptOne(s) \/ ReadSome(s) \/ ReadEnd(s)

-----------------------------------------------------------------------------
(* The world. *)

CtrlC ==
  /\ pc = "run" /\ signal' = TRUE
  /\ UNCHANGED <<ehVars, pc, library, why, queue, peer>>

World == UNCHANGED <<ehVars, pc, library, signal, why>>

Connect(p) ==
  /\ peer[p].at = "away" /\ Len(queue) < Backlog
  /\ \E s \in Sockets : sock[s] = "listen"
  /\ peer' = [peer EXCEPT ![p].at = "queued"]
  /\ queue' = Append(queue, p)
  /\ World

Send(p) ==
  /\ peer[p].at # "away" /\ peer[p].end = "no" /\ peer[p].data < MaxData
  /\ peer' = [peer EXCEPT ![p].data = @ + 1]
  /\ UNCHANGED queue /\ World

Close(p) ==
  /\ peer[p].at # "away" /\ peer[p].end = "no"
  /\ peer' = [peer EXCEPT ![p].end = "fin"]
  /\ UNCHANGED queue /\ World

\* A reset destroys what has not been read, and takes a connection that has not
\* been accepted out of the queue.
Reset(p) ==
  /\ \/ /\ peer[p].at = "open" /\ peer[p].end # "reset"
        /\ peer' = [peer EXCEPT ![p].data = 0, ![p].end = "reset"]
        /\ UNCHANGED queue
     \/ \E i \in 1 .. Len(queue) :
          /\ queue[i] = p
          /\ peer' = [peer EXCEPT ![p] = Away]
          /\ queue' = RemoveAt(queue, i)
  /\ World

Main == Start \/ Register \/ Deinit \/ Wait \/ WaitFails \/ Handlers

Next ==
  \/ Main \/ CtrlC
  \/ \E p \in Peers : Connect(p) \/ Send(p) \/ Close(p) \/ Reset(p)

Spec == Init /\ [][Next]_vars

\* The program runs as long as it can; nothing is asked of user or peers.
FairSpec == Spec /\ WF_vars(Register \/ Deinit \/ Wait \/ WaitFails \/ Handlers)

-----------------------------------------------------------------------------
(* Properties. *)

Started == pc \in {"run", "ended"}

\* Whatever failed while a connection was accepted or read, between two calls of
\* handlers the table has exactly the sockets that are open: one that is open
\* and not in it would never be heard or closed again, one that is in it and
\* closed would make WaitSelect() fail for all.  Only a number beyond the table
\* is lost (eh_add_handler()'s result is ignored by accept_handler()).
TableMatches ==
  Started =>
    \A s \in Slots :
      /\ rset[s] = "accept" <=> s \in Sockets /\ sock[s] = "listen"
      /\ rset[s] = "read" <=> s \in Sockets /\ sock[s] \in Peers

\* No call of a handler can block and with it everybody else, although a peer
\* may be gone by the time of accept() or recv().
NeverBlocks == Started => \A s \in Registered : s \in nonblock

\* The program ends on CTRL-C, not because of what any peer does.
OnlyBreakEnds == pc = "ended" => why = "break"

\* Nobody starves: however busy the others are, whoever waits is accepted
\* while there are numbers, and what was sent is read.
Heard(p) == \E s \in Slots \cap Sockets : sock[s] = p

EveryoneServed ==
  \A p \in Peers :
    /\ peer[p].at = "queued" ~> (peer[p].at # "queued" \/ FreeSockets = {})
    /\ (Heard(p) /\ Pending(p)) ~> ~Pending(p)
=============================================================================
