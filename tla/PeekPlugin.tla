----------------------------- MODULE PeekPlugin -----------------------------
(***************************************************************************)
(* plugins/peek_plugin.c: send "size" bytes of memory, no acknowledgement.  *)
(***************************************************************************)
EXTENDS PluginApi

PeekInit ==
  /\ pc = "init" /\ Plugin(PEEK)
  /\ UNCHANGED unit
  /\ \/ hdr.size = 0 /\ InitFails("DT_ERR_HDR_INVALID", {})
     \/ hdr.size # 0 /\ InitDone({"p_ctx"})
     \/ hdr.size # 0 /\ InitFails("DT_ERR_MALLOC", {})

PeekExec ==
  /\ pc = "exec" /\ Plugin(PEEK)
  /\ ret' = OK
  /\ cnt' = 0
  /\ Goto("peek.send")
  /\ UNCHANGED <<tcpVars, active, hdr, pos, unit, held>>

\* send() blocks while the client does not read and its buffer is full.
PeekSend ==
  /\ pc = "peek.send" /\ cnt < hdr.size
  /\ \/ /\ ~rst[active]
        /\ cli[active] = "closed" \/ Len(out[active]) - got[active] < Window
        /\ Emit(active, DATA)
        /\ cnt' = cnt + 1
        /\ UNCHANGED <<pc, ret>>
     \/ /\ rst[active]
        /\ ret' = "DT_ERR_SEND"
        /\ Goto("close")
        /\ UNCHANGED <<tcpVars, cnt>>
  /\ UNCHANGED <<active, hdr, pos, unit, held>>

\* Mutant: the acknowledgement of the other plugins.
PeekEndsAcked ==
  /\ pc = "peek.send" /\ cnt >= hdr.size
  /\ Goto("answer")
  /\ UNCHANGED <<tcpVars, active, hdr, ret, cnt, pos, unit, held>>

PeekEnds ==
  /\ pc = "peek.send" /\ cnt >= hdr.size
  /\ Goto("close")
  /\ UNCHANGED <<tcpVars, active, hdr, ret, cnt, pos, unit, held>>

PeekRun ==
  /\ pc = "run" /\ Plugin(PEEK)
  /\ RunReturns(OK)

PeekNext == PeekInit \/ PeekExec \/ PeekSend \/ PeekEnds \/ PeekRun
=============================================================================
