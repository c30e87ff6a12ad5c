----------------------------- MODULE EventHandler -----------------------------
(* The event handler prototype (tmp/event_handler.c): one table of handlers,   *)
(* indexed by socket number, and a loop that waits for any of the sockets and  *)
(* calls the handlers of those that are ready.  The tables for writing and     *)
(* exceptions stay empty, no caller registers for them.  Socket numbers are    *)
(* given out by bsdsocket.library (external), in any order.                    *)
EXTENDS Integers, Sequences, SequencesExt

CONSTANTS
  FD_SETSIZE,   \* entries in a table of handlers
  TableSize,    \* sockets the library gives one program
  Peers         \* who may connect

ASSUME EventAssumption ==
  /\ FD_SETSIZE \in Nat \ {0} /\ TableSize \in Nat \ {0}
  /\ "free" \notin Peers /\ "listen" \notin Peers

Sockets == 0 .. TableSize - 1
Slots   == 0 .. FD_SETSIZE - 1

VARIABLES
  sock,       \* sock[s]: free, the listening socket, or the peer it is connected to
  nonblock,   \* the sockets that FIONBIO was enabled for
  rset,       \* rset[s]: the handler of socket s
  ready       \* bits of WaitSelect()'s result at places the loop has still to visit

ehVars == <<sock, nonblock, rset, ready>>

EhTypeOK ==
  /\ sock \in [Sockets -> {"free", "listen"} \cup Peers]
  /\ nonblock \subseteq Sockets
  /\ rset \in [Slots -> {"none", "accept", "read"}]
  /\ ready \subseteq Slots

EhInit ==
  /\ sock = [s \in Sockets |-> "free"]
  /\ nonblock = {}
  /\ rset = [s \in Slots |-> "none"]
  /\ ready = {}

FreeSockets == {s \in Sockets : sock[s] = "free"}
Registered  == {s \in Slots : rset[s] # "none"}

\* The loop visits the numbers upwards.
IsNext(s) == s \in ready /\ \A t \in ready : s <= t

-----------------------------------------------------------------------------
(* eh_add_handler(READ, s, func) for a socket that has just become "what": the *)
(* number does not fit the table, the socket cannot be made non-blocking and   *)
(* is closed, or it is watched.                                                *)

AddBounds(s, what) ==
  /\ s \notin Slots
  /\ sock' = [sock EXCEPT ![s] = what]
  /\ UNCHANGED <<nonblock, rset>>

AddConf(s) ==
  /\ s \in Slots
  /\ sock' = [sock EXCEPT ![s] = "free"]
  /\ nonblock' = nonblock \ {s}
  /\ UNCHANGED rset

\* Mutant: the socket is left blocking.
AddWatchedBlocking(s, what, func) ==
  /\ s \in Slots
  /\ sock' = [sock EXCEPT ![s] = what]
  /\ rset' = [rset EXCEPT ![s] = func]
  /\ UNCHANGED nonblock

\* Mutant: the number just behind the table is let through.
AddWatchedBehind(s, what, func) ==
  /\ s \in Slots \cup {FD_SETSIZE}
  /\ sock' = [sock EXCEPT ![s] = what]
  /\ nonblock' = nonblock \cup {s}
  /\ rset' = [t \in Slots \cup {s} |-> IF t = s THEN func ELSE rset[t]]

AddWatched(s, what, func) ==
  /\ s \in Slots
  /\ sock' = [sock EXCEPT ![s] = what]
  /\ nonblock' = nonblock \cup {s}
  /\ rset' = [rset EXCEPT ![s] = func]

\* Mutant: the handler stays.
CloseAndKeep(s) ==
  /\ sock' = [sock EXCEPT ![s] = "free"]
  /\ nonblock' = nonblock \ {s}
  /\ UNCHANGED rset

\* CloseSocket(s) in a handler that then returns NULL: eh_handle_callback()
\* deletes the handler.
CloseAndDelete(s) ==
  /\ sock' = [sock EXCEPT ![s] = "free"]
  /\ nonblock' = nonblock \ {s}
  /\ rset' = [rset EXCEPT ![s] = "none"]

-----------------------------------------------------------------------------
(* eh_wfe(): WaitSelect() returns what is ready of the sockets in the table.   *)
(* (A timeout changes nothing.)  It fails when one of them is not open.        *)

BadSet == \E s \in Registered : s \notin Sockets \/ sock[s] = "free"

Select(readable) ==
  /\ ready = {} /\ ~BadSet
  /\ ready' = Registered \cap readable
  /\ ready' # {}
  /\ UNCHANGED <<sock, nonblock, rset>>
=============================================================================
