----------------------------- MODULE AdfPlugin ------------------------------
(***************************************************************************)
(* plugins/adf_plugin.c: receive a disk image track by track and write it   *)
(* with trackdisk.device.  Only one track or a whole disk is accepted.      *)
(***************************************************************************)
EXTENDS PluginApi

AdfSizeOK == hdr.size \in {TrackLen, TrackLen * NumTracks}

(***************************************************************************)
(* local_init() looks for a device name only in as many bytes as            *)
(* get_extensions_len() reports, and it is asked about the user data        *)
(* pointer, not the header: the low byte of the bsdsocket.library base is   *)
(* taken for the header length.  When that leaves nothing to look at, the   *)
(* name is overlooked and the drive stays df0.  A failure after io_data     *)
(* goes through local_done(p_ctx).                                          *)
(***************************************************************************)
DrivesFound ==
  {"df0"} \cup IF hdr.dev = "short" THEN {"named"} ELSE {}

AdfInit ==
  /\ pc = "init" /\ Plugin(ADF0)
  /\ unit' \in DrivesFound
  /\ \/ ~AdfSizeOK /\ InitFails("DT_ERR_ADF_FILE_SIZE", {})
     \/ AdfSizeOK /\ InitFails("DT_ERR_MALLOC", {})
     \/ AdfSizeOK /\ hdr.dev # "none" /\ InitFails("DT_ERR_DISK_DEVICE", {})
     \/ /\ AdfSizeOK
        /\ \E error \in {"DT_ERR_CREATE_MSGPORT", "DT_ERR_CREATE_IOREQ",
                         "DT_ERR_OPENDEVICE"} : InitFails(error, {})
     \/ /\ AdfSizeOK
        /\ InitDone({"p_ctx", "io_data", "p_port", "p_ioreq", "trackdisk"})

AdfExec ==
  /\ pc = "exec" /\ Plugin(ADF0)
  /\ ret' = OK
  /\ cnt' = 0
  /\ pos' = 0
  /\ Goto("adf.recv")
  /\ UNCHANGED <<tcpVars, active, hdr, unit, held>>

\* The inner loop: fill one track.
AdfAsk == IF TrackLen - pos > BlockMax THEN BlockMax ELSE TrackLen - pos

\* Mutant: an incomplete track is not an error.
AdfRecvShort ==
  /\ pc = "adf.recv" /\ cnt < hdr.size
  /\ \E len \in RecvResults(active, AdfAsk) :
       /\ Consume(active, len)
       /\ pos' = IF len > 0 THEN pos + len ELSE pos
       /\ pc' = IF len <= 0 THEN "adf.motor"
                ELSE IF pos + len < TrackLen THEN pc ELSE "adf.write"
       /\ ret' = IF len < 0 THEN "DT_ERR_RECV" ELSE ret
  /\ UNCHANGED <<active, hdr, cnt, unit, held>>

\* Mutant: the end of the stream is asked for again.
AdfRecvAgain ==
  /\ pc = "adf.recv" /\ cnt < hdr.size
  /\ \E len \in RecvResults(active, AdfAsk) :
       /\ Consume(active, len)
       /\ pos' = IF len > 0 THEN pos + len ELSE pos
       /\ pc' = IF len < 0 THEN "adf.motor"
                ELSE IF pos' < TrackLen THEN pc ELSE "adf.write"
       /\ ret' = IF len < 0 THEN "DT_ERR_RECV" ELSE ret
  /\ UNCHANGED <<active, hdr, cnt, unit, held>>

AdfRecv ==
  /\ pc = "adf.recv" /\ cnt < hdr.size
  /\ \E len \in RecvResults(active, AdfAsk) :
       /\ Consume(active, len)
       /\ \/ /\ len > 0
             /\ pos' = pos + len
             /\ pc' = IF pos + len < TrackLen THEN pc ELSE "adf.write"
             /\ UNCHANGED ret
          \/ /\ len < 0
             /\ ret' = "DT_ERR_RECV"
             /\ Goto("adf.motor")
             /\ UNCHANGED pos
          \/ /\ len = 0
             /\ ret' = "DT_ERR_DISK_SECTOR_LEN"
             /\ Goto("adf.motor")
             /\ UNCHANGED pos
  /\ UNCHANGED <<active, hdr, cnt, unit, held>>

\* TD_FORMAT of a full track; "pos" starts from 0 in the next turn.
AdfWrite ==
  /\ pc = "adf.write"
  /\ cnt' = cnt + TrackLen
  /\ pos' = 0
  /\ \/ /\ pc' = IF cnt + TrackLen < hdr.size THEN "adf.recv" ELSE "adf.motor"
        /\ UNCHANGED ret
     \/ /\ ret' = "DT_ERR_DISK_IO"
        /\ Goto("adf.motor")
  /\ UNCHANGED <<tcpVars, active, hdr, unit, held>>

\* The motor is turned off on every path.
AdfMotor ==
  /\ pc = "adf.motor"
  /\ Goto("answer")
  /\ UNCHANGED <<tcpVars, active, hdr, ret, cnt, pos, unit, held>>

AdfRun ==
  /\ pc = "run" /\ Plugin(ADF0)
  /\ RunReturns(OK)

AdfNext == AdfInit \/ AdfExec \/ AdfRecv \/ AdfWrite \/ AdfMotor \/ AdfRun
=============================================================================
