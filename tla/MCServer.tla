------------------------------ MODULE MCServer ------------------------------
(* Server against two open-world clients. *)
EXTENDS ServerInv

CONSTANTS c1, c2

MCConns == {c1, c2}

Header(tag, size) ==
  [id |-> "HDR", hdrVer |-> 0, shortLen |-> FALSE, plugin |-> tag,
   version |-> 1, exact |-> FALSE, norun |-> FALSE, reboot |-> FALSE,
   size |-> size, addrOK |-> TRUE, dev |-> "none"]

\* What the client of c1 asks for: every way through the server.
AllRequests ==
  { [Header(LSG0, 0) EXCEPT !.id = "QUIT"],
    [Header(LSG0, 0) EXCEPT !.id = "OTHER"],
    [Header(LSG0, 0) EXCEPT !.hdrVer = 1],
    [Header(PEEK, 0) EXCEPT !.version = 3],
    [Header(LSG0, 2) EXCEPT !.reboot = TRUE],
    [Header(LSG0, 1) EXCEPT !.dev = "long"],
    Header(ADR0, 2),
    [Header(ADR0, 1) EXCEPT !.addrOK = FALSE],
    [Header(ADF0, 2) EXCEPT !.dev = "short"],
    Header(ADF0, 1),
    Header(PEEK, 2),
    [Header(LSG0, 0) EXCEPT !.norun = TRUE] }

\* The client of c2 competes for the listen queue.
MCRequests ==
  [c \in MCConns |->
     IF c = c1 THEN AllRequests
     ELSE {[Header(LSG0, 0) EXCEPT !.id = "RBOT"]}]

MCLoaded == <<[tag |-> LSG0, version |-> 1], [tag |-> ADR0, version |-> 2],
              [tag |-> ADF0, version |-> 2], [tag |-> PEEK, version |-> 2]>>
=============================================================================
