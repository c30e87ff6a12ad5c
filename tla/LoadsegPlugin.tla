--------------------------- MODULE LoadsegPlugin ----------------------------
(***************************************************************************)
(* plugins/loadseg_plugin.c: receive a program into a temporary file,       *)
(* LoadSeg() it, and run it from the server's own process.                  *)
(***************************************************************************)
EXTENDS PluginApi

\* local_init(): a failed AllocVec() leaves DOSBase open.
LsgInit ==
  /\ pc = "init" /\ Plugin(LSG0)
  /\ UNCHANGED unit
  /\ \/ InitDone({"dos.library", "p_ctx"})
     \/ InitFails("DT_ERR_MALLOC", {"dos.library"})
     \/ InitFails("DT_ERR_OPENLIBRARY", {})

\* get_tmp_filename(): prefix, eight digits and the NUL must fit into
\* LOADSEG_FILENAME_LEN = 24, so the prefix has at most 15 characters.  A
\* device of 15 characters and its ":" make 16.
TmpNameFits == hdr.dev # "long"

\* local_exec() up to the receive loop.
LsgExec ==
  /\ pc = "exec" /\ Plugin(LSG0)
  /\ \/ /\ ~TmpNameFits
        /\ ret' = "DT_ERR_FILE_OPEN"
        /\ Goto("close")                    \* returns at once: no answer
        /\ UNCHANGED <<cnt, held>>
     \/ /\ TmpNameFits
        /\ ret' = "DT_ERR_FILE_OPEN"
        /\ Goto("answer")
        /\ UNCHANGED <<cnt, held>>
     \/ /\ TmpNameFits
        /\ ret' = OK
        /\ cnt' = 0
        /\ held' = held \cup {"fh", "tmpfile"}
        /\ Goto("lsg.recv")
  /\ UNCHANGED <<tcpVars, active, hdr, pos, unit>>

\* One turn of the loop: recv() of at most a buffer and at most what is
\* missing; an end of file ends the loop with "ret" still DT_ERR_OK.
LsgAsk == IF hdr.size - cnt >= BlockMax THEN BlockMax ELSE hdr.size - cnt

LsgRecv ==
  /\ pc = "lsg.recv" /\ cnt < hdr.size
  /\ \E len \in RecvResults(active, LsgAsk) :
       /\ Consume(active, len)
       /\ \/ /\ len < 0
             /\ ret' = "DT_ERR_RECV"
             /\ Goto("lsg.load")
             /\ UNCHANGED cnt
          \/ /\ len > 0
             /\ ret' = "DT_ERR_FILE_IO"     \* Write() failed
             /\ Goto("lsg.load")
             /\ UNCHANGED cnt
          \/ /\ len > 0
             /\ cnt' = cnt + len
             /\ UNCHANGED <<pc, ret>>
          \/ /\ len = 0
             /\ Goto("lsg.load")
             /\ UNCHANGED <<ret, cnt>>
  /\ UNCHANGED <<active, hdr, pos, unit, held>>


LsgRecvEnds ==
  /\ pc = "lsg.recv" /\ cnt >= hdr.size
  /\ Goto("lsg.load")
  /\ UNCHANGED <<tcpVars, active, hdr, ret, cnt, pos, unit, held>>

\* Mutant: a failed LoadSeg() goes unnoticed.
LsgLoadUnchecked ==
  /\ pc = "lsg.load"
  /\ held' \in {held \ {"fh", "tmpfile"}, (held \ {"fh", "tmpfile"}) \cup {"program"}}
  /\ Goto("answer")
  /\ UNCHANGED <<tcpVars, active, hdr, ret, cnt, pos, unit>>

\* Close(), LoadSeg() if all went well, DeleteFile().
LsgLoad ==
  /\ pc = "lsg.load"
  /\ \/ /\ ret = OK
        /\ held' = (held \ {"fh", "tmpfile"}) \cup {"program"}
        /\ UNCHANGED ret
     \/ /\ ret' = IF ret = OK THEN "DT_ERR_EXEC" ELSE ret
        /\ held' = held \ {"fh", "tmpfile"}
  /\ Goto("answer")
  /\ UNCHANGED <<tcpVars, active, hdr, cnt, pos, unit>>

\* local_run(): Cli() is NULL when the server was not started from a shell.
LsgRun ==
  /\ pc = "run" /\ Plugin(LSG0)
  /\ \/ RunReturns(OK)
     \/ RunReturns("DT_ERR_RUN")

LsgNext == LsgInit \/ LsgExec \/ LsgRecv \/ LsgRecvEnds \/ LsgLoad \/ LsgRun
=============================================================================
