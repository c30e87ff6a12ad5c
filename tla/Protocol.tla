------------------------------ MODULE Protocol ------------------------------
(***************************************************************************)
(* The wire protocol of inc/protocol.h as data.                            *)
(*                                                                         *)
(* A connection carries two token streams.  Client to server: token 1 is   *)
(* the four byte id (QUIT, RBOT, or the tag/length/version of a plugin      *)
(* header), token 2 the rest of the header, every further token one block   *)
(* of payload.  Server to client: four byte responses, and the blocks PEEK  *)
(* reads from memory.  An error code is its name in inc/protocol.h.         *)
(***************************************************************************)
EXTENDS Integers, Sequences

CONSTANTS
  LSG0, ADR0, ADF0, PEEK,   \* the plugins the repository ships
  MaxSize                   \* bound on dt_header.size, in blocks

PluginTags == {LSG0, ADR0, ADF0, PEEK}

ASSUME ProtocolAssumption ==
  /\ MaxSize \in Nat
  /\ LSG0 # ADR0 /\ LSG0 # ADF0 /\ LSG0 # PEEK
  /\ ADR0 # ADF0 /\ ADR0 # PEEK /\ ADF0 # PEEK

(***************************************************************************)
(* What a client asks for: the id and the dt_header fields the server and   *)
(* the plugins look at.  "dev" is the length class of DT_EXT_DEVICE_NAME:   *)
(* a name of the full 15 characters is "long".  "addrOK" holds when addr    *)
(* and jump are even and addr is not 0.                                     *)
(***************************************************************************)
Ids == {"QUIT", "RBOT", "HDR", "OTHER"}

Request ==
  [id : Ids, hdrVer : {0, 1}, shortLen : BOOLEAN,
   plugin : PluginTags, version : Nat, exact : BOOLEAN,
   norun : BOOLEAN, reboot : BOOLEAN,
   size : 0..MaxSize, addrOK : BOOLEAN, dev : {"none", "short", "long"}]

\* Tokens of a complete request: the id, the header remainder, the payload.
RequestLen(r) ==
  IF r.id # "HDR" THEN 1
  ELSE IF r.plugin = PEEK THEN 2 ELSE 2 + r.size

OK == "DT_ERR_OK"

\* DT_ERR_CLIENT: "add this to denote client side".
OnClient(err) == "DT_ERR_CLIENT|" \o err

\* The value check_dt_ver_len() answers for a foreign header version: -2 as
\* an unsigned number, hence with the DT_ERR_CLIENT bit set.
MinusTwo == "0xfffffffe"

ServerErrors ==
  {"DT_ERR_MALLOC", "DT_ERR_OPENLIBRARY", "DT_ERR_FILE_OPEN",
   "DT_ERR_FILE_IO", "DT_ERR_NO_PLUGIN", "DT_ERR_EXEC", "DT_ERR_RUN",
   "DT_ERR_HDR_TAG", "DT_ERR_HDR_LEN", "DT_ERR_HDR_INVALID",
   "DT_ERR_RECV", "DT_ERR_SEND", "DT_ERR_ADF_FILE_SIZE",
   "DT_ERR_CREATE_MSGPORT", "DT_ERR_CREATE_IOREQ", "DT_ERR_OPENDEVICE",
   "DT_ERR_DISK_DEVICE", "DT_ERR_DISK_IO", "DT_ERR_DISK_SECTOR_LEN", MinusTwo}

Codes == {OK} \cup ServerErrors

\* Server to client tokens: a response, or one block of memory.
DATA == "DATA"
Tokens == Codes \cup {DATA}
=============================================================================
