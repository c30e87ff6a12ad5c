----------------------------- MODULE MCDemoTool -----------------------------
(* DemoTool with two clients. *)
EXTENDS DemoTool

CONSTANTS c1, c2

MCConns == {c1, c2}

Header(tag, size) ==
  [id |-> "HDR", hdrVer |-> 0, shortLen |-> FALSE, plugin |-> tag,
   version |-> 1, exact |-> FALSE, norun |-> FALSE, reboot |-> FALSE,
   size |-> size, addrOK |-> TRUE, dev |-> "none"]

QuitCommand == [Header(LSG0, 0) EXCEPT !.id = "QUIT"]

\* What the client of c1 is called for; the one of c2 is next in the queue.
FirstRequests ==
  { QuitCommand,
    [Header(ADR0, 1) EXCEPT !.version = 3],
    Header(LSG0, 1),
    Header(ADR0, 1),
    [Header(ADF0, 2) EXCEPT !.norun = TRUE],
    Header(PEEK, 1) }

MCRequests ==
  [c \in MCConns |-> IF c = c1 THEN FirstRequests ELSE {Header(LSG0, 0)}]

\* Only the first client runs into trouble of its own.
FirstOnly == {c1}

MCLoaded == <<[tag |-> LSG0, version |-> 1], [tag |-> ADR0, version |-> 2],
              [tag |-> ADF0, version |-> 2], [tag |-> PEEK, version |-> 2]>>
=============================================================================
