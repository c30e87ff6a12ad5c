----------------------------- MODULE AddrPlugin -----------------------------
(***************************************************************************)
(* plugins/addr_plugin.c: receive a program to an absolute address and      *)
(* jump to it.                                                              *)
(***************************************************************************)
EXTENDS PluginApi

AdrInit ==
  /\ pc = "init" /\ Plugin(ADR0)
  /\ UNCHANGED unit
  /\ \/ ~hdr.addrOK /\ InitFails("DT_ERR_HDR_INVALID", {})
     \/ hdr.addrOK /\ InitDone({"p_ctx"})
     \/ hdr.addrOK /\ InitFails("DT_ERR_MALLOC", {})

AdrExec ==
  /\ pc = "exec" /\ Plugin(ADR0)
  /\ ret' = OK
  /\ cnt' = 0
  /\ Goto("adr.recv")
  /\ UNCHANGED <<tcpVars, active, hdr, pos, unit, held>>

\* Mutants: a failed recv() is counted; the end of the stream ends the loop.
AdrRecvUnchecked ==
  /\ pc = "adr.recv" /\ cnt < hdr.size
  /\ \E len \in RecvResults(active, BlockMax) :
       Consume(active, len) /\ cnt' = cnt + len
  /\ UNCHANGED <<pc, active, hdr, ret, pos, unit, held>>

AdrRecvShort ==
  /\ pc = "adr.recv" /\ cnt < hdr.size
  /\ \E len \in RecvResults(active, BlockMax) :
       /\ Consume(active, len)
       /\ pc' = IF len > 0 THEN pc ELSE "answer"
       /\ cnt' = IF len > 0 THEN cnt + len ELSE cnt
  /\ UNCHANGED <<active, hdr, ret, pos, unit, held>>

\* One turn of the loop.  It asks for a whole buffer whatever is missing, and
\* an end of file (len = 0) does not leave it.
AdrRecv ==
  /\ pc = "adr.recv" /\ cnt < hdr.size
  /\ \E len \in RecvResults(active, BlockMax) :
       /\ Consume(active, len)
       /\ \/ /\ len < 0
             /\ ret' = "DT_ERR_RECV"
             /\ Goto("answer")
             /\ UNCHANGED cnt
          \/ /\ len >= 0
             /\ cnt' = cnt + len
             /\ UNCHANGED <<pc, ret>>
  /\ UNCHANGED <<active, hdr, pos, unit, held>>

AdrRecvEnds ==
  /\ pc = "adr.recv" /\ cnt >= hdr.size
  /\ Goto("answer")
  /\ UNCHANGED <<tcpVars, active, hdr, ret, cnt, pos, unit, held>>

AdrRun ==
  /\ pc = "run" /\ Plugin(ADR0)
  /\ RunReturns(OK)

AdrNext == AdrInit \/ AdrExec \/ AdrRecv \/ AdrRecvEnds \/ AdrRun
=============================================================================
