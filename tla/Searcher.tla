------------------------------- MODULE Searcher -------------------------------
(* The graphics searcher (searcher/searcher.c): the keys that change what a    *)
(* picture is saved as, and handle_filesave(), which writes one file, or one   *)
(* per playfield, through the buffered handle.  Keys that only move pointers,  *)
(* modulos or colours are in Screen.                                           *)
EXTENDS IffHandle, IlbmWriter

CONSTANTS
  LoresWidth, HiresWidth,   \* 320 and 640
  MaxBplaneWidth,           \* MAX_BPLANE_WIDTH
  Heights,                  \* the bound on scr_height: F2 to F5 and F6 within it
  DefaultHeight             \* 200

ASSUME WidthAssumption ==
  /\ LoresWidth \in Nat /\ HiresWidth \in Nat /\ MaxBplaneWidth \in Nat
  /\ LoresWidth % 16 = 0 /\ HiresWidth % 16 = 0 /\ MaxBplaneWidth % 16 = 0
  /\ 32 <= LoresWidth /\ LoresWidth <= HiresWidth
  /\ 64 <= HiresWidth /\ HiresWidth <= MaxBplaneWidth
  /\ MaxBplaneWidth \div 8 <= BufferSize /\ 64 <= BufferSize
  /\ Heights \subseteq Nat /\ DefaultHeight \in Heights

VARIABLES
  cfg,      \* cop_cfg_t: settings, flags, status and ioerr
  pc,       \* where handle_filesave() is, "idle" in the main loop
  odd,      \* which playfield is being saved
  todo,     \* the writes still to make
  ret,      \* the sign of handle_filesave()'s ret
  failed,   \* the calls of this save that failed, and for which playfield
  made      \* the sizes of the files closed in this save

saveVars == <<odd, todo, ret, failed, made>>
vars == <<cfg, pc, saveVars, iffVars>>

Displays == <<"STD", "HAM", "DUALPF">>
SaveFormats == {"IFF", "RAW", "PAL"}
Modes == {"STD", "HAM", "DUALPF", "PF2PRI", "HIRES"}
Calls == {"open", "write", "close", "short", "free"}

Config ==
  [scr_width : 16 .. MaxBplaneWidth, scr_height : Heights, num_bpl : 0 .. 7,
   display : 0 .. 2, priority : 0 .. 1, save_as : SaveFormats, flags : SUBSET Modes,
   ioerr : Errors,
   status : {"VERSION", "PALETTE", "NOTFOUND", "NOSAVE", "NORAM", "SAVEOK"}]

TypeOK ==
  /\ IffTypeOK
  /\ cfg \in Config
  /\ pc \in {"idle", "open", "save", "close", "failed", "free", "shown", "lost"}
  /\ odd \in BOOLEAN /\ ret \in {-1, 0}
  /\ todo \in Seq((Nat \ {0}) \X Nat)
  /\ failed \subseteq Calls \X BOOLEAN
  /\ made \in Seq(Nat)

Init ==
  /\ IffInit
  /\ cfg = [scr_width |-> LoresWidth, scr_height |-> DefaultHeight, num_bpl |-> 5,
            display |-> 0, priority |-> 0, save_as |-> "IFF", flags |-> {"STD"},
            ioerr |-> "none", status |-> "VERSION"]
  /\ pc = "idle" /\ odd = TRUE /\ todo = <<>> /\ ret = 0 /\ failed = {} /\ made = <<>>

-----------------------------------------------------------------------------
(* Keys. *)

Key == pc = "idle" /\ UNCHANGED <<pc, saveVars, iffVars>>

inc_scr_width ==
  /\ Key
  /\ LET new_width == cfg.scr_width + IF Has(cfg, "HIRES") THEN 32 ELSE 16
     IN  cfg' = [cfg EXCEPT !.scr_width =
                   IF new_width < MaxBplaneWidth THEN new_width ELSE MaxBplaneWidth]

dec_scr_width ==
  /\ Key
  /\ LET step == IF Has(cfg, "HIRES") THEN 32 ELSE 16
         min  == 2 * step
     IN  cfg' = [cfg EXCEPT !.scr_width = IF @ - step > min THEN @ - step ELSE min]

(* Mutant: hires stays. *)
handle_display_modeHires ==
  /\ Key
  /\ LET display == IF cfg.display = 2 THEN 0 ELSE cfg.display + 1
         flags   == (cfg.flags \ {"HAM", "STD", "DUALPF"}) \cup {Displays[display + 1]}
     IN  cfg' = [cfg EXCEPT !.display = display, !.flags = flags]

handle_display_mode ==
  /\ Key
  /\ LET display == IF cfg.display = 2 THEN 0 ELSE cfg.display + 1
         flags   == (cfg.flags \ {"HAM", "STD", "DUALPF"}) \cup {Displays[display + 1]}
     IN  cfg' = [cfg EXCEPT !.display = display,
                            !.flags = IF display = 1 THEN flags \ {"HIRES"} ELSE flags]

handle_save_as ==
  /\ Key
  /\ cfg' = [cfg EXCEPT !.save_as = CASE @ = "IFF" -> "RAW"
                                      [] @ = "RAW" -> "PAL"
                                      [] @ = "PAL" -> "IFF"]

set_bplane_height ==
  /\ Key
  /\ \E height \in Heights : cfg' = [cfg EXCEPT !.scr_height = height]

handle_bplane_height ==
  /\ Key
  /\ \E step \in {1, -1} :
       /\ cfg.scr_height + step > 0 /\ cfg.scr_height + step \in Heights
       /\ cfg' = [cfg EXCEPT !.scr_height = @ + step]

dec_bplane_num ==
  /\ Key
  /\ cfg.num_bpl > 0
  /\ cfg' = [cfg EXCEPT !.num_bpl = @ - 1]

inc_bplane_num ==
  /\ Key
  /\ cfg.num_bpl < 7
  /\ cfg' = [cfg EXCEPT !.num_bpl = @ + 1]

set_resolution(hires) ==
  /\ Key
  /\ cfg' = IF ~hires
            THEN [cfg EXCEPT !.flags = @ \ {"HIRES"}, !.scr_width = LoresWidth]
            ELSE [cfg EXCEPT
                   !.flags = (@ \cup {"HIRES"}) \ {"HAM"},
                   !.scr_width = HiresWidth,
                   !.num_bpl = IF @ > 4 THEN 4 ELSE @,
                   !.display = IF Has(cfg, "HAM") THEN 0 ELSE @]

handle_priority ==
  /\ Key
  /\ cfg' = IF cfg.priority = 1
            THEN [cfg EXCEPT !.priority = 0, !.flags = @ \ {"PF2PRI"}]
            ELSE [cfg EXCEPT !.priority = 1, !.flags = @ \cup {"PF2PRI"}]

(* What a search for a copper list tells; the search itself is in Screen. *)
copper_search ==
  /\ Key
  /\ \E status \in {"PALETTE", "NOTFOUND"} :
       cfg' = [cfg EXCEPT !.ioerr = "none", !.status = status]

Keys ==
  \/ inc_scr_width \/ dec_scr_width \/ handle_display_mode \/ handle_save_as
  \/ set_bplane_height \/ handle_bplane_height \/ dec_bplane_num \/ inc_bplane_num
  \/ set_resolution(TRUE) \/ set_resolution(FALSE) \/ handle_priority \/ copper_search

-----------------------------------------------------------------------------
(* handle_filesave() *)

Failed(yes, call) == failed' = IF yes THEN failed \cup {<<call, odd>>} ELSE failed

(* An empty name, no memory, or a fresh handle. *)
StartSave ==
  /\ pc = "idle"
  /\ \/ \E status \in {"NOSAVE", "NORAM"} :
          /\ cfg' = [cfg EXCEPT !.ioerr = "none", !.status = status]
          /\ pc' = "shown"
          /\ UNCHANGED <<saveVars, iffVars>>
     \/ /\ initIFFHandle
        /\ cfg' = [cfg EXCEPT !.ioerr = "none", !.status = "SAVEOK"]
        /\ pc' = "open" /\ odd' = TRUE /\ ret' = -1
        /\ UNCHANGED <<todo, failed, made>>

(* fh->open().  Only for the first file is a failure looked at. *)
OpenFile ==
  /\ pc = "open"
  /\ \E opened \in BOOLEAN :
       /\ s_open(opened)
       /\ Failed(~opened, "open")
       /\ pc' = IF opened THEN "save" ELSE IF odd THEN "failed" ELSE "free"
       /\ todo' = IF opened THEN Writes(cfg, odd) ELSE <<>>
  /\ UNCHANGED <<cfg, odd, ret, made>>

(* One fh->write(), putnum() or putc() of save_iff(), save_raw(), save_pal(). *)
WriteSome ==
  /\ pc = "save" /\ todo # <<>>
  /\ \E r \in {-1, 0, todo[1][2]} :
       /\ s_write(todo[1][2], r)
       /\ Failed(r < 0, "write")
       /\ todo' = IF r < 0 THEN <<>> ELSE Advance(todo)
       /\ pc' = IF r >= 0 THEN "save" ELSE IF odd THEN "close" ELSE "failed"
  /\ UNCHANGED <<cfg, odd, ret, made>>

(* save_iff(), save_raw() or save_pal() returns what it announced. *)
SaveDone ==
  /\ pc = "save" /\ todo = <<>>
  /\ ret' = 0 /\ pc' = "close"
  /\ UNCHANGED <<cfg, odd, todo, failed, made, iffVars>>

(* More planes than planes[] has: undefined from here on, on top of the steps  *)
(* of a program whose stack survives it.                                       *)
Overrun ==
  /\ pc = "save" /\ PlanesOverrun(cfg)
  /\ pc' = "lost"
  /\ UNCHANGED <<cfg, saveVars, iffVars>>

(* fh->close(), whose result nobody looks at. *)
CloseFile ==
  /\ pc = "close"
  /\ \E r \in {-1, 0} :
       /\ s_close(r)
       /\ failed' = failed \cup {<<c, odd>> : c \in {x \in {"close"} : r < 0} \cup
                                                    {x \in {"short"} : lossy'}}
       /\ made' = IF r < 0 THEN made ELSE Append(made, file')
  /\ pc' = IF ~odd THEN "free"
           ELSE IF ret < 0 THEN "failed"
           ELSE IF Has(cfg, "DUALPF") THEN "open" ELSE "free"
  /\ IF odd /\ ret = 0 /\ Has(cfg, "DUALPF")
     THEN odd' = FALSE /\ ret' = -1
     ELSE UNCHANGED <<odd, ret>>
  /\ UNCHANGED <<cfg, todo>>

(* fh->ioerr(): for the first file after it was closed, for the second before. *)
TellError ==
  /\ pc = "failed"
  /\ s_ioerr
  /\ cfg' = [cfg EXCEPT !.ioerr = Ioerr]
  /\ pc' = IF odd THEN "free" ELSE "close"
  /\ UNCHANGED saveVars

FreeHandle ==
  /\ pc = "free"
  /\ \E r \in {-1, 0} :
       /\ freeIFFHandle(r)
       /\ Failed(r < 0, "free")
  /\ pc' = "shown"
  /\ UNCHANGED <<cfg, odd, todo, ret, made>>

(* update_head_texts() has shown the status line; the main loop goes on.  What *)
(* belonged to this save is forgotten.                                         *)
Return ==
  /\ pc = "shown" /\ pc' = "idle"
  /\ odd' = TRUE /\ todo' = <<>> /\ ret' = 0 /\ failed' = {} /\ made' = <<>>
  /\ file' = 0 /\ taken' = 0 /\ lossy' = FALSE /\ buffer_pos' = 0
  /\ last_ioerr' = "none" /\ dos_err' = "none" /\ handle' = FALSE
  /\ UNCHANGED <<cfg, allocated>>

Lost == pc = "lost" /\ UNCHANGED vars

Next ==
  \/ Keys \/ StartSave \/ OpenFile \/ WriteSome \/ SaveDone \/ Overrun
  \/ CloseFile \/ TellError \/ FreeHandle \/ Return \/ Lost

Spec == Init /\ [][Next]_vars

-----------------------------------------------------------------------------
(* Properties. *)

(* The flags that decide how a picture is fetched and saved agree with the     *)
(* mode the screen names: HAM and dual playfield are set exactly when they are *)
(* shown, and HAM is never combined with hires, in whatever order F1, H and L  *)
(* are pressed.  (STD may be missing after H in HAM mode: set_resolution()     *)
(* sets the name only.)                                                        *)
ModesAgree ==
  /\ Has(cfg, "HAM") <=> cfg.display = 1
  /\ Has(cfg, "DUALPF") <=> cfg.display = 2
  /\ Has(cfg, "STD") => cfg.display = 0
  /\ ~(Has(cfg, "HAM") /\ Has(cfg, "HIRES"))
  /\ Has(cfg, "PF2PRI") <=> cfg.priority = 1

(* Rows are whole words and fit the buffer, as save_iff() ("all source bitmaps *)
(* are divisible by 16 pixels") and s_write() rely on, although F1 leaves      *)
(* hires without touching the width.                                           *)
RowsFit == cfg.scr_width % 16 = 0 /\ BytesPerRow(cfg) \in 1 .. MaxBplaneWidth \div 8

(* The status line says that a file was saved. *)
SavedOk == pc = "shown" /\ cfg.status = "SAVEOK" /\ cfg.ioerr = "none"

PictureBytes == cfg.scr_height * cfg.num_bpl * BytesPerRow(cfg)

(* A save in which no call of AmigaDOS fails or falls short says so, and       *)
(* leaves every byte of one file, or of one per playfield, each closed; raw    *)
(* files hold each row of each plane once.                                     *)
SavedWhole ==
  pc = "shown" /\ cfg.status = "SAVEOK" /\ failed = {} =>
    /\ SavedOk
    /\ Len(made) = IF Has(cfg, "DUALPF") THEN 2 ELSE 1
    /\ made[1] = Bytes(Writes(cfg, TRUE))
    /\ Len(made) = 2 => made[2] = Bytes(Writes(cfg, FALSE))
    /\ cfg.save_as = "RAW" =>
         PictureBytes = made[1] + IF Has(cfg, "DUALPF") THEN made[2] ELSE 0

(* Of the failures, these reach the status line instead of "File saved OK": a  *)
(* first file that cannot be opened, a failed write and a failed close of the  *)
(* first, a failed write to the second.  (The others do not: see the hazards.) *)
FailuresShown ==
  pc = "shown" /\ (\/ failed \cap {<<"open", TRUE>>, <<"write", FALSE>>} # {}
                   \/ {<<"write", TRUE>>, <<"close", TRUE>>} \subseteq failed)
    => ~SavedOk

(* However a save ends, the handle's memory is given back, and no file stays   *)
(* open, except when the last flush, the second chance of a file that could    *)
(* not be closed, fails as well.                                               *)
HandleReturned ==
  pc \in {"idle", "shown"} => ~allocated /\ (handle => <<"free", odd>> \in failed)

(* The plane counts save_iff() announces and the planes its loop writes agree: *)
(* not for seven planes, for HAM without six, for the missing second playfield *)
(* of a single plane.                                                          *)
PlanesAgree ==
  /\ cfg.num_bpl <= MAXSAVEDEPTH
  /\ Has(cfg, "HAM") => cfg.num_bpl = 6
  /\ Has(cfg, "DUALPF") /\ ~odd => cfg.num_bpl # 1

(* An IFF file has been handed to the buffer to its end. *)
IffComplete == pc = "close" /\ cfg.save_as = "IFF" /\ ret = 0

(* The length announced in front of an IFF file is that of what follows it,    *)
(* but for a CAMG chunk (12 bytes) that is counted and only written for a mode *)
(* other than plain lores.                                                     *)
FormSizeBut ==
  IffComplete /\ PlanesAgree =>
    taken = 8 + FormSize(cfg, odd) - IF ModeId(cfg) = {} THEN 12 ELSE 0

-----------------------------------------------------------------------------
(* The inductive invariant of the proofs: every write that is still to be made *)
(* fits the buffer, and the handle is where handle_filesave() left it.         *)

Runs == {r \in (Nat \ {0}) \X Nat : r[2] <= BufferSize}

TodoFits == todo \in Seq(Runs)

HandleInv ==
  /\ pc \in {"idle", "shown"} => ~allocated
  /\ pc = "idle" => ~handle
  /\ pc = "shown" /\ handle => <<"free", odd>> \in failed

(* Failures whose file is not the last, or is not looked at. *)
Passed == {<<"close", TRUE>>, <<"short", TRUE>>}

(* The failures that reach the status line. *)
Bad ==
  \/ failed \cap {<<"open", TRUE>>, <<"write", FALSE>>} # {}
  \/ {<<"write", TRUE>>, <<"close", TRUE>>} \subseteq failed

(* What has failed when the save is at each of its points: while a file is     *)
(* written nothing of it, and once a failure counts there is an error to tell. *)
FailInv ==
  /\ pc = "idle" => failed = {}
  /\ pc \in {"open", "save"} => ret = -1 /\ failed \subseteq IF odd THEN {} ELSE Passed
  /\ pc \in {"save", "close"} => handle
  /\ pc = "close" /\ odd => failed = IF ret = 0 THEN {} ELSE {<<"write", TRUE>>}
  /\ pc = "close" /\ ~odd =>
       /\ failed \subseteq Passed \cup {<<"write", FALSE>>}
       /\ ret = -1 => <<"write", FALSE>> \in failed /\ cfg.ioerr # "none"
       /\ ret = 0 => failed \subseteq Passed
  /\ pc = "failed" =>
       /\ failed # {}
       /\ Bad => Ioerr # "none"
       /\ ~odd => /\ ret = -1 /\ handle /\ <<"write", FALSE>> \in failed
                  /\ failed \subseteq Passed \cup {<<"write", FALSE>>}
  /\ pc \in {"free", "shown"} /\ Bad => cfg.ioerr # "none"

(* The sizes of the files: what was given to the buffer and is still to be     *)
(* given make up all writes, and the files closed before have theirs.          *)
SizesInv ==
  /\ pc \in {"open", "save", "close", "free", "failed"} => cfg.status = "SAVEOK"
  /\ pc = "save" => taken + Bytes(todo) = Bytes(Writes(cfg, odd))
  /\ pc = "close" /\ ret = 0 => taken = Bytes(Writes(cfg, odd))
  /\ pc = "idle" => made = <<>>
  /\ pc \in {"open", "save", "close"} /\ odd => made = <<>>
  /\ pc \in {"open", "save", "close", "failed"} /\ ~odd => Has(cfg, "DUALPF")
  /\ failed = {} =>
       /\ pc \in {"open", "save", "close", "free"} => cfg.ioerr = "none"
       /\ pc \in {"open", "save", "close"} /\ ~odd =>
            made = << Bytes(Writes(cfg, TRUE)) >>
       /\ \/ pc = "free"
          \/ pc = "shown" /\ cfg.status = "SAVEOK"
          => /\ cfg.ioerr = "none"
             /\ made = IF Has(cfg, "DUALPF")
                       THEN << Bytes(Writes(cfg, TRUE)), Bytes(Writes(cfg, FALSE)) >>
                       ELSE << Bytes(Writes(cfg, TRUE)) >>

IInv ==
  /\ TypeOK /\ NothingLost /\ BufferFits /\ ModesAgree /\ RowsFit
  /\ TodoFits /\ HandleInv /\ FailInv /\ SizesInv
=============================================================================
