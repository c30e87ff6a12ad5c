---------------------------- MODULE HeaderCodec -----------------------------
(***************************************************************************)
(* The plugin header between the client and the loadseg plugin: how         *)
(* prepare_header() packs a device name and a command line into extensions,  *)
(* how the server takes the header off the stream, and what local_exec() of   *)
(* the plugin finds in it with find_extension().  Bytes are numbers, for the  *)
(* type and the length of an extension share one.                             *)
(***************************************************************************)
EXTENDS Integers, Sequences, FiniteSetsExt

CONSTANTS
  ExtMax,     \* DT_EXT_MAX_LEN, the longest extension (15 in the code)
  Devices,    \* what --device may be given
  CmdLines,   \* what --cmd may be given
  Beyond      \* what may stand in memory behind a header

Byte == 0..255
Char == 1..255      \* what a string of C is made of

\* An extension has room for "RAM:".
ASSUME HeaderAssumption ==
  /\ ExtMax \in 4..15
  /\ \A d \in Devices : d \in Seq(Char) /\ Len(d) <= ExtMax
  /\ \A c \in CmdLines : c \in Seq(Char) /\ Len(c) <= 2 * ExtMax
  /\ Beyond \subseteq Byte /\ Beyond # {}

\* The options of the client; DT_FLG_EXTENSION is set when one is given.
Options ==
  {o \in [given : SUBSET {"device", "cmdline"},
          device : Devices \cup {<<>>}, cmdline : CmdLines \cup {<<>>}] :
     /\ "device" \in o.given \/ o.device = <<>>
     /\ "cmdline" \in o.given \/ o.cmdline = <<>>}

VARIABLES
  hpc,      \* prepare, sent, received, parsed or named
  opt,      \* the options
  wire,     \* the header: its fourth byte and its extensions
  junk,     \* the bytes behind it in the server's memory
  prefix,   \* a_prefix
  cmdline,  \* p_ctx->cmdline and whether its end is where it should be
  name      \* length of p_ctx->filename, 0 for none

codecVars == <<hpc, opt, wire, junk, prefix, cmdline, name>>

-----------------------------------------------------------------------------
(* client/demotool.c *)

PADDING == 0
DEVICE_NAME == 16
CMDLINE0 == 32
CMDLINE1 == 48

HeaderLen == 28                      \* sizeof(dt_header_t)
Multiple4(n) == n - (n % 4)           \* n & DT_HDR_LEN_MASK, below 256

AddExtension(type, ext) ==
  LET len == Min({Len(ext), ExtMax})
  IN  <<type + len>> \o SubSeq(ext, 1, len)

\* Mutant: a long command line is counted with one tag only.
ExtensionLenOneTag(o) ==
  (IF "device" \in o.given THEN Len(o.device) + 1 ELSE 0)
    + (IF "cmdline" \in o.given THEN Len(o.cmdline) + 1 ELSE 0)

\* "extension_len": what the extensions are expected to need.
ExtensionLen(o) ==
  (IF "device" \in o.given THEN Len(o.device) + 1 ELSE 0)
    + (IF "cmdline" \in o.given
       THEN Len(o.cmdline) + (IF Len(o.cmdline) > ExtMax THEN 2 ELSE 1) ELSE 0)

Packed(o) ==
  LET c == o.cmdline
  IN  (IF "device" \in o.given THEN AddExtension(DEVICE_NAME, o.device) ELSE <<>>)
        \o (IF "cmdline" \notin o.given THEN <<>>
            ELSE IF Len(c) <= ExtMax THEN AddExtension(CMDLINE0, c)
            ELSE AddExtension(CMDLINE1, SubSeq(c, 1, ExtMax))
                   \o AddExtension(CMDLINE0, SubSeq(c, ExtMax + 1, Len(c))))

Padded(s) == s \o [i \in 1..((4 - (Len(s) % 4)) % 4) |-> PADDING]

PrepareHeader ==
  /\ hpc = "prepare"
  /\ wire' = [lenVer |-> Multiple4(HeaderLen - 4 + ExtensionLen(opt) + 3),
              ext |-> Padded(Packed(opt))]
  /\ hpc' = "sent"
  /\ UNCHANGED <<opt, junk, prefix, cmdline, name>>

-----------------------------------------------------------------------------
(* server/demotool.c: check_dt_ver_len() and the second recv() *)

\* What the server reads after the first four bytes.
HdrLen(lenVer) == IF Multiple4(lenVer) = 0 THEN 256 ELSE Multiple4(lenVer)

ReceiveHeader ==
  /\ hpc = "sent"
  /\ HdrLen(wire.lenVer) >= HeaderLen - 4
  /\ hpc' = "received"
  /\ UNCHANGED <<opt, wire, junk, prefix, cmdline, name>>

-----------------------------------------------------------------------------
(* plugins/utils.c *)

\* get_extensions_len() of a header of version 0.
ExtensionsLen(lenVer) == HdrLen(lenVer) - HeaderLen + 4

\* The byte at offset n of the extensions, from 0.
At(n) == IF n < Len(wire.ext) THEN wire.ext[n + 1] ELSE junk

Type(b) == b - (b % 16)

None == [found |-> FALSE, val |-> <<>>]

\* Mutant: the search starts one byte late.
FindExtensionLate(from, len, type) ==
  LET hits == {n \in 1..(len - 1) : Type(At(from + n)) = type}
      n    == Min(hits)
  IN  IF hits = {} THEN None
      ELSE [found |-> TRUE,
            val |-> [i \in 1..(At(from + n) % 16) |-> At(from + n + i)]]

\* find_extension(): the first byte with the type in its upper half, be it a tag
\* or a byte of another extension's payload.
FindExtension(from, len, type) ==
  LET hits == {n \in 0..(len - 1) : Type(At(from + n)) = type}
      n    == Min(hits)
  IN  IF hits = {} THEN None
      ELSE [found |-> TRUE,
            val |-> [i \in 1..(At(from + n) % 16) |-> At(from + n + i)]]

\* What strcat() and strlen() see of an array: the bytes before the first NUL.
CString(s) ==
  LET ends == {i \in 1..Len(s) : s[i] = 0}
  IN  IF ends = {} THEN s ELSE SubSeq(s, 1, Min(ends) - 1)

\* get_tmp_filename(): eight digits and a NUL follow the prefix.
FilenameLen == ExtMax + 8 + 1

\* Mutant: no room for the NUL.
TmpFilenameTight(p) == IF Len(p) + 8 > FilenameLen THEN 0 ELSE Len(p) + 8

TmpFilename(p) == IF Len(p) + 8 + 1 > FilenameLen THEN 0 ELSE Len(p) + 8

-----------------------------------------------------------------------------
(* plugins/loadseg_plugin.c: local_exec() up to Open() *)

COLON == 58
RAM == <<82, 65, 77, COLON>>

\* Mutant: the second part is written over the first.
JoinedOver(cl1, cl0) == cl0.val

\* DT_EXT_CMDLINE1 holds the beginning, DT_EXT_CMDLINE0 is written behind it.
Joined(cl1, cl0) == cl1.val \o cl0.val

\* The second and the third search begin where the values found so far would
\* end if their tags took no room, and look at as many bytes as the first.  A
\* part of the command line without the one that ends it stands in memory
\* nobody has cleared.
ParseExtensions ==
  /\ hpc = "received"
  /\ IF opt.given = {}
     THEN /\ prefix' = RAM
          /\ UNCHANGED cmdline
     ELSE LET len == Multiple4(4 + wire.lenVer) - HeaderLen
              dev == FindExtension(0, len, DEVICE_NAME)
              cl1 == FindExtension(Len(dev.val), len, CMDLINE1)
              cl0 == FindExtension(Len(dev.val) + Len(cl1.val), len, CMDLINE0)
          IN  /\ prefix' = IF dev.found THEN CString(dev.val) \o <<COLON>> ELSE RAM
              /\ cmdline' = [text |-> Joined(cl1, cl0),
                             ended |-> cl0.found \/ cl1.val = <<>>]
  /\ hpc' = "parsed"
  /\ UNCHANGED <<opt, wire, junk, name>>

NameTmpFile ==
  /\ hpc = "parsed"
  /\ name' = TmpFilename(prefix)
  /\ hpc' = "named"
  /\ UNCHANGED <<opt, wire, junk, prefix, cmdline>>

-----------------------------------------------------------------------------

\* The context's command line is empty until the plugin finds one.
Init ==
  /\ hpc = "prepare"
  /\ opt \in Options
  /\ wire = [lenVer |-> 0, ext |-> <<>>]
  /\ junk \in Beyond
  /\ prefix = <<>>
  /\ cmdline = [text |-> <<>>, ended |-> TRUE]
  /\ name = 0

Next == PrepareHeader \/ ReceiveHeader \/ ParseExtensions \/ NameTmpFile

Spec == Init /\ [][Next]_codecVars

-----------------------------------------------------------------------------
(* Properties *)

\* Client, server and plugins work the length of the extensions out in four
\* ways, and they agree: the bytes the client sends are the bytes the server
\* takes off the stream, so that the payload starts where both think it does;
\* the buffer the client allocated holds them; and both computations of the
\* plugins give the length of the extensions.
LengthsAgree ==
  hpc # "prepare" =>
    /\ HdrLen(wire.lenVer) = HeaderLen - 4 + Len(wire.ext)
    /\ Len(wire.ext) <= ExtensionLen(opt) + 4
    /\ ExtensionsLen(wire.lenVer) = Len(wire.ext)
    /\ Multiple4(4 + wire.lenVer) - HeaderLen = Len(wire.ext)

\* No character of a command line looks like the tag of one of these extensions.
Plain(c, types) == \A i \in DOMAIN c : Type(c[i]) \notin types

\* The device of the temporary file is the one the user named, whatever the
\* command line looks like; without one it is RAM:, unless the command line has
\* a control character that looks like the tag of a device name.
DeviceArrives ==
  hpc \in {"parsed", "named"}
    /\ ("device" \in opt.given \/ Plain(opt.cmdline, {DEVICE_NAME}))
  => prefix = IF "device" \in opt.given THEN Append(opt.device, COLON) ELSE RAM

\* A temporary file's name is made for every device name but those of the full
\* length, and whatever the prefix is, the name fits into the plugin's context
\* with its NUL.
TmpNameFits ==
  hpc = "named" =>
    /\ name # 0 => name + 1 <= FilenameLen
    /\ "device" \in opt.given => (name # 0 <=> Len(opt.device) < ExtMax)
    /\ opt.given = {} => name # 0

\* The program is run with the command line the user gave.
CmdlineArrives ==
  hpc = "named" => cmdline = [text |-> opt.cmdline, ended |-> TRUE]

\* That much is true of a command line none of whose characters looks like a tag
\* (letters do not; digits, blanks and dashes do), when no device is named with it.
PlainCmdlineArrives ==
  hpc = "named" /\ "device" \notin opt.given
    /\ Plain(opt.cmdline, {DEVICE_NAME, CMDLINE0, CMDLINE1})
  => cmdline = [text |-> opt.cmdline, ended |-> TRUE]
=============================================================================
