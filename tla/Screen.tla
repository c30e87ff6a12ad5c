-------------------------------- MODULE Screen --------------------------------
(* What the graphics searcher looks at and shows: bitplane pointers, modulos,  *)
(* palette and the search for copper lists (searcher/searcher.c and            *)
(* searcher/colfind.c), and after every key the texts in the header and the    *)
(* user copper list (searcher/screen.c).  The settings that a save depends on  *)
(* are those of Searcher, whose keys run here with what they print.            *)
EXTENDS Searcher

CONSTANTS
  ChipUnit,      \* 64 KB
  Chips,         \* the machines: chip memory in bytes and its words
  DefaultPtr,    \* 0x4000, where every bitplane starts
  LastPlane,     \* 5
  NumColours,    \* 32
  MaxModulo,     \* MAX_MODULO
  BigStep,       \* 10, what N and M change a modulo by
  LongStep,      \* 32, the words a search with shift steps on
  MinLists,      \* 4 and 8, the entries X and C look for
  Black, Tint,   \* words that can be a colour: 0, and one of the default palette
  Junk           \* a word above 0xfff: neither a colour nor a colour register

Planes  == 0 .. LastPlane
Colours == 0 .. NumColours - 1

(* A word that moves to colour register c stands as c.  (It is below 0x1c0, so *)
(* it can be read as a colour as well.)                                        *)
Rgbs  == Colours \cup {Black, Tint}
Words == Rgbs \cup {Junk}

ASSUME ScreenAssumption ==
  /\ ChipUnit \in Nat \ {0} /\ ChipUnit % 2 = 0
  /\ DefaultPtr \in 0 .. ChipUnit - 1 /\ DefaultPtr % 2 = 0
  /\ LastPlane \in Nat /\ NumColours \in Nat \ {0}
  /\ MaxModulo \in Nat \ {0} /\ BigStep \in Nat /\ BigStep % 2 = 0
  /\ LongStep \in Nat /\ MinLists \subseteq Nat \ {0}
  /\ \A chip \in Chips :
       /\ chip.max \in {4 * ChipUnit, 8 * ChipUnit, 16 * ChipUnit, 32 * ChipUnit}
       /\ chip.mem \in [0 .. chip.max \div 2 -> Words]

VARIABLES
  chip,      \* max_chipmem, a power of two, and the words up to one behind it
  view,      \* the rest of cop_cfg_t: what is looked at
  shown,     \* the texts of the header as they were printed last
  current,   \* the copper list on the screen is that of cfg and view
  nomem,     \* the last setup_copper() got no memory and changed nothing
  searched,  \* the last copper_search(), if it was the last key
  loop       \* main(): "running", "done" after F10, "left"

screenVars == <<chip, view, shown, current, nomem, searched, loop>>

-----------------------------------------------------------------------------
(* Screen: texts and copper list. *)

Wider(mod) == IF mod > 0 THEN mod ELSE 0

(* update_head_texts(): what stands for each of its texts. *)
Texts(c, v) ==
  [SCREEN |-> c.scr_width, PF1WIDTH |-> c.scr_width + Wider(v.mod_odd),
   PF2WIDTH |-> c.scr_width + Wider(v.mod_even), HEIGHT |-> c.scr_height,
   ADDRESS |-> v.pal_ptr, RGB |-> <<v.rgb_idx, v.pal[v.rgb_idx]>>,
   MODEVEN |-> v.mod_even, MODODD |-> v.mod_odd, DISPLAY |-> c.display,
   PRIORITY |-> c.priority, SAVEAS |-> c.save_as, BPLANES |-> c.num_bpl,
   RESO |-> Has(c, "HIRES"), BPLLOCKS |-> v.bpl_lock, BPLADDRS |-> v.bpl_ptr,
   STATUS |-> IF c.ioerr = "none" THEN c.status ELSE c.ioerr]

Printed(update) ==
  update \cup (IF "MODODD" \in update THEN {"PF1WIDTH"} ELSE {})
         \cup (IF "MODEVEN" \in update THEN {"PF2WIDTH"} ELSE {})

PrintTexts(update) ==
  LET texts == Texts(cfg', view')  printed == Printed(update)
  IN  shown' = [t \in DOMAIN shown |-> IF t \in printed THEN texts[t] ELSE shown[t]]

(* setup_copper(): what the list says of cfg and view. *)
CopperList(c, v) ==
  LET full  == (IF Has(c, "HIRES") THEN HiresWidth ELSE LoresWidth) \div 16
      words == c.scr_width \div 16
  IN  [modes |-> c.flags \ {"STD"}, planes |-> c.num_bpl, height |-> c.scr_height,
       fetch |-> IF words > full THEN full ELSE words,
       odd |-> v.mod_odd, even |-> v.mod_even, ptrs |-> v.bpl_ptr, pal |-> v.pal]

(* Mutant: TEXT_COPPER_MASK as it was meant. *)
CopperDueMasked(update) ==
  update \cap {"MODEVEN", "MODODD", "DISPLAY", "PRIORITY", "BPLANES", "RESO",
               "BPLADDRS", "RGB_CHANGE"} # {}

(* update & TEXT_COPPER_MASK: the macro has no parentheses, so that only its   *)
(* first name is masked and the others are or-ed to the result.                *)
CopperDue(update) ==
  (update \cap {"MODEVEN"}) \cup {"MODODD", "DISPLAY", "PRIORITY", "BPLANES", "RESO",
                                  "BPLADDRS", "RGB_CHANGE"} # {}

setup_copper ==
  \E got \in BOOLEAN :
    /\ nomem' = ~got
    /\ current' = (got \/ (current /\ CopperList(cfg', view') = CopperList(cfg, view)))

(* The end of main_key_loop(). *)
Refresh(update) ==
  /\ PrintTexts(update)
  /\ IF CopperDue(update)
     THEN setup_copper
     ELSE /\ current' = (current /\ CopperList(cfg', view') = CopperList(cfg, view))
          /\ UNCHANGED nomem

-----------------------------------------------------------------------------
(* Types and initial states. *)

Views ==
  [bpl_ptr : [Planes -> Nat], bpl_lock : SUBSET Planes, mod_even : Int, mod_odd : Int,
   pal : [Colours -> Words], rgb_idx : Colours, pal_ptr : Nat]

NoSearch == [min |-> 0, start |-> 0, at |-> -1]

(* What the hardware is told stays in chip memory, and is even, as the copper  *)
(* list's mask 0x1ffffe takes for granted: pointers that are moved by rows and *)
(* modulos, wrap at the end of memory and are reset by F8 and F9.  F9 sets     *)
(* 0x50000 on 256 KB as well, as its missing break wants it.                   *)
BitplanesInChip ==
  \A n \in Planes :
    /\ view.bpl_ptr[n] % 2 = 0
    /\ \/ view.bpl_ptr[n] < chip.max
       \/ chip.max = 4 * ChipUnit /\ view.bpl_ptr[n] = 5 * ChipUnit

PaletteInChip == view.pal_ptr < chip.max /\ view.pal_ptr % 2 = 0

ModulosFit ==
  \A mod \in {view.mod_even, view.mod_odd} :
    mod % 2 = 0 /\ -MaxModulo < mod /\ mod < MaxModulo

ScreenTypeOK ==
  /\ view \in Views
  /\ current \in BOOLEAN /\ nomem \in BOOLEAN
  /\ DOMAIN shown = DOMAIN Texts(cfg, view)
  /\ searched.min \in MinLists \cup {0}
  /\ loop \in {"running", "done", "left"}
  /\ BitplanesInChip /\ PaletteInChip /\ ModulosFit

(* init_cop_cfg(), the first update_head_texts() and setup_copper(). *)
ScreenInit ==
  /\ Init
  /\ chip \in Chips
  /\ view = [bpl_ptr |-> [n \in Planes |-> DefaultPtr], bpl_lock |-> Planes,
             mod_even |-> 0, mod_odd |-> 0, pal |-> [c \in Colours |-> Tint],
             rgb_idx |-> 0, pal_ptr |-> 0]
  /\ shown = Texts(cfg, view)
  /\ current \in BOOLEAN /\ nomem = ~current
  /\ searched = NoSearch /\ loop = "running"

-----------------------------------------------------------------------------
(* Keys of Searcher, with what they print. *)

Pressed(update) == loop # "left" /\ loop' = "running" /\ UNCHANGED chip /\ Refresh(update)

Set(update) == UNCHANGED view /\ searched' = NoSearch /\ Pressed(update)

WidthTexts == {"SCREEN", "PF1WIDTH", "PF2WIDTH"}

ResolutionTexts(hires) ==
  WidthTexts \cup {"RESO"}
    \cup (IF hires /\ cfg.num_bpl > 4 THEN {"BPLANES"} ELSE {})
    \cup (IF hires /\ Has(cfg, "HAM") THEN {"DISPLAY"} ELSE {})

DisplayTexts ==
  {"DISPLAY"} \cup (IF cfg'.display = 1 /\ Has(cfg, "HIRES") THEN {"RESO"} ELSE {})

SettingKeys ==
  \/ (inc_scr_width \/ dec_scr_width) /\ Set(WidthTexts)
  \/ handle_display_mode /\ Set(DisplayTexts)
  \/ handle_save_as /\ Set({"SAVEAS"})
  \/ (set_bplane_height \/ handle_bplane_height) /\ Set({"HEIGHT"})
  \/ (dec_bplane_num \/ inc_bplane_num) /\ Set({"BPLANES"})
  \/ \E hires \in BOOLEAN : set_resolution(hires) /\ Set(ResolutionTexts(hires))
  \/ handle_priority /\ Set({"PRIORITY"})

-----------------------------------------------------------------------------
(* Keys that move what is looked at. *)

Look(update) ==
  /\ pc = "idle" /\ searched' = NoSearch
  /\ UNCHANGED vars /\ Pressed(update)

Shifts == {"none", "LSHIFT", "RSHIFT"}

set_bplane_lock ==
  /\ \/ \E n \in Planes :
          view' = [view EXCEPT !.bpl_lock = IF n \in @ THEN @ \ {n} ELSE @ \cup {n}]
     \/ view' = [view EXCEPT !.bpl_lock = IF @ = Planes THEN {} ELSE Planes]
  /\ Look({"BPLLOCKS"})

SetPointers(ptr) ==
  /\ view' = [view EXCEPT !.bpl_ptr = [n \in Planes |-> ptr]]
  /\ Look({"BPLADDRS"})

reset_bplane_addrs == \E ptr \in {view.bpl_ptr[0], 0} : SetPointers(ptr)

(* F8 and F9. *)
ChipAddrs ==
  CASE chip.max = 4 * ChipUnit  -> {0, 5 * ChipUnit}
    [] chip.max = 8 * ChipUnit  -> {0, 5 * ChipUnit}
    [] chip.max = 16 * ChipUnit -> {8 * ChipUnit, 13 * ChipUnit}
    [] chip.max = 32 * ChipUnit -> {16 * ChipUnit, 21 * ChipUnit}

set_chipmem_addr == \E ptr \in ChipAddrs : SetPointers(ptr)

Line(mod) == cfg.scr_width \div 8 + mod

Step(key, mod) ==
  CASE key = "LEFT" -> 2 [] key = "RIGHT" -> -2
    [] key = "UP" -> Line(mod) [] key = "DOWN" -> -Line(mod)

RowSteps(shift) ==
  CASE shift = "RSHIFT" -> cfg.scr_height \div 8
    [] shift = "LSHIFT" -> cfg.scr_height \div 4
    [] shift = "none"   -> 1

(* Planes with an odd index have the even modulo, but only in dual playfield.  *)
PlaneModulo(n) ==
  IF n % 2 = 1 /\ Has(cfg, "DUALPF") THEN view.mod_even ELSE view.mod_odd

(* Mutants: at the end of memory the pointer stays, or goes on. *)
WrapHeld(a) == IF a < 0 THEN 0 ELSE IF a >= chip.max THEN chip.max - 2 ELSE a
WrapNone(a) == IF a < 0 THEN 0 ELSE a

Wrap(a) == a % chip.max

Moved(ptrs, key, shift, times) ==
  [n \in Planes |->
     IF n \in view.bpl_lock
     THEN Wrap(ptrs[n] + Step(key, PlaneModulo(n)) * RowSteps(shift) * times)
     ELSE ptrs[n]]

(* Cursor keys; held down, they come with IEQUALIFIER_REPEAT. *)
handle_bplane_move ==
  \E key \in {"LEFT", "RIGHT", "UP", "DOWN"}, shift \in Shifts, times \in {1, 4} :
    /\ view' = [view EXCEPT !.bpl_ptr = Moved(@, key, shift, times)]
    /\ Look({"BPLADDRS"})

Stepped(mod, step) ==
  IF -MaxModulo < mod + step /\ mod + step < MaxModulo THEN mod + step ELSE mod

ModuloTexts(shift) ==
  CASE shift = "RSHIFT" -> {"MODEVEN"}
    [] shift = "LSHIFT" -> {"MODODD"}
    [] shift = "none"   -> {"MODEVEN", "MODODD"}

SetModulos(shift, newEven, newOdd) ==
  /\ view' = [view EXCEPT !.mod_even = IF shift = "LSHIFT" THEN @ ELSE newEven,
                          !.mod_odd = IF shift = "RSHIFT" THEN @ ELSE newOdd]
  /\ Look(ModuloTexts(shift))

(* N, M, comma and full stop: step; slash: reset. *)
handle_modulos(shift) ==
  \/ \E step \in {2, -2, BigStep, -BigStep} :
       SetModulos(shift, Stepped(view.mod_even, step), Stepped(view.mod_odd, step))
  \/ SetModulos(shift, 0, 0)

-----------------------------------------------------------------------------
(* Keys for colours. *)

(* The numeric pad.  Steps and toggles of red, green and blue are abstracted:  *)
(* they leave the upper four bits alone, and 0 clears them too.                *)
handle_palette ==
  \E rgb \in IF view.pal[view.rgb_idx] = Junk THEN {Junk, Black} ELSE Rgbs :
    /\ view' = [view EXCEPT !.pal[view.rgb_idx] = rgb]
    /\ Look({"RGB"})

palette_index ==
  \E step \in {1, -1} :
    /\ view' = [view EXCEPT !.rgb_idx = (@ + step) % NumColours]
    /\ Look({"RGB"})

(* D *)
init_cop_cfg ==
  /\ view' = [view EXCEPT !.pal_ptr = 0, !.pal = [c \in Colours |-> Tint]]
  /\ Look({"RGB_CHANGE", "ADDRESS"})

Word(a) == chip.mem[Wrap(a) \div 2]

(* V and B, alone in steps of a word, with shift of the second of two words. *)
handle_palette_move ==
  \E step \in {2, -2}, times \in {1, 2} :
    LET from == Wrap(view.pal_ptr + step * times)
        shft == IF times = 2 THEN 2 ELSE 0
    IN  /\ view' = [view EXCEPT !.pal_ptr = from,
                                !.pal = [c \in Colours |-> Word(from + shft + 2 * times * c)]]
        /\ Look({"RGB_CHANGE", "ADDRESS"})

Size == chip.max \div 2

(* Mutants: a colour may come twice; a word that is no colour leaves the       *)
(* search waiting for one.                                                     *)
SearchWordTwice(s, p, min) ==
  LET word  == chip.mem[p]
      again == [s EXCEPT !.move = TRUE, !.found = 0, !.colpal = {}]
  IN  CASE s.found = min -> s
        [] s.found # min /\ s.move ->
             IF word \in Colours
             THEN [s EXCEPT !.move = FALSE, !.idx = word, !.at = IF s.found = 0 THEN p ELSE @]
             ELSE again
        [] s.found # min /\ ~s.move ->
             IF word # Junk THEN [s EXCEPT !.move = TRUE, !.found = @ + 1] ELSE again

SearchWordStuck(s, p, min) ==
  LET word  == chip.mem[p]
      again == [s EXCEPT !.found = 0, !.colpal = {}]
  IN  CASE s.found = min -> s
        [] s.found # min /\ s.move ->
             IF word \in Colours \ s.colpal
             THEN [s EXCEPT !.move = FALSE, !.idx = word, !.at = IF s.found = 0 THEN p ELSE @]
             ELSE again
        [] s.found # min /\ ~s.move ->
             IF word # Junk
             THEN [s EXCEPT !.move = TRUE, !.found = @ + 1, !.colpal = @ \cup {s.idx}]
             ELSE again

(* One turn of the loop in copper_search(), at word p.  (found is reset when a *)
(* colour comes twice, and the word that told is not looked at again.)         *)
SearchWord(s, p, min) ==
  LET word  == chip.mem[p]
      again == [s EXCEPT !.move = TRUE, !.found = 0, !.colpal = {}]
  IN  CASE s.found = min -> s
        [] s.found # min /\ s.move ->
             IF word \in Colours \ s.colpal
             THEN [s EXCEPT !.move = FALSE, !.idx = word, !.at = IF s.found = 0 THEN p ELSE @]
             ELSE again
        [] s.found # min /\ ~s.move ->
             IF word # Junk
             THEN [s EXCEPT !.move = TRUE, !.found = @ + 1, !.colpal = @ \cup {s.idx}]
             ELSE again

(* Around the whole of memory, from start: what is known after k words. *)
Turns(start, min) ==
  LET turn[k \in 0 .. Size] ==
        IF k = 0
        THEN [move |-> TRUE, found |-> 0, colpal |-> {}, idx |-> 0, at |-> start]
        ELSE SearchWord(turn[k - 1], (start + k - 1) % Size, min)
  IN  turn

Search(start, min) == Turns(start, min)[Size]

(* The palette after n of the pairs from word p on.  p is masked after each    *)
(* pair: a pair that starts in the last word ends in the word behind memory.   *)
Loads(p) ==
  LET pal[n \in 0 .. NumColours] ==
        IF n = 0 THEN [c \in Colours |-> Black]
        ELSE LET at  == (p + 2 * (n - 1)) % Size
                 reg == chip.mem[at]
                 rgb == chip.mem[at + 1]
             IN  IF reg \in Colours /\ rgb # Junk
                 THEN [pal[n - 1] EXCEPT ![reg] = rgb] ELSE pal[n - 1]
  IN  pal

LoadColours(p) == Loads(p)[NumColours]

(* A search goes on behind the last place, except from address 0, the default. *)
SearchStart(step) ==
  LET here == view.pal_ptr \div 2 IN IF here > 0 THEN (here + step) % Size ELSE here

(* X and C. *)
handle_copper_search ==
  \E min \in MinLists, step \in {1, LongStep} :
    LET start == SearchStart(step)
        s     == Search(start, min)
    IN  /\ copper_search
        /\ IF s.found = min
           THEN /\ view' = [view EXCEPT !.pal_ptr = 2 * s.at, !.pal = LoadColours(s.at)]
                /\ cfg'.status = "PALETTE"
                /\ searched' = [min |-> min, start |-> start, at |-> s.at]
                /\ Pressed({"ADDRESS", "RGB_CHANGE", "STATUS"})
           ELSE /\ cfg'.status = "NOTFOUND"
                /\ searched' = [min |-> min, start |-> start, at |-> -1]
                /\ UNCHANGED view
                /\ Pressed({"STATUS"})

-----------------------------------------------------------------------------
(* The main loop. *)

PointerKeys ==
  \/ set_bplane_lock \/ reset_bplane_addrs \/ set_chipmem_addr \/ handle_bplane_move
  \/ \E shift \in Shifts : handle_modulos(shift)

ColourKeys ==
  handle_palette \/ palette_index \/ init_cop_cfg \/ handle_palette_move

(* A key that means nothing, a limit reached, TAB, the release of a key: the   *)
(* copper list is set up even so.                                              *)
OtherKey == UNCHANGED view /\ Look({})

(* F10 is forgotten when another message, its own release for one, is already  *)
(* in the queue: done is assigned for every key.                               *)
Quit ==
  /\ pc = "idle" /\ loop # "left" /\ loop' = "done"
  /\ UNCHANGED <<vars, chip, view, shown, current, nomem, searched>>

Leave ==
  /\ pc = "idle" /\ loop = "done" /\ loop' = "left"
  /\ UNCHANGED <<vars, chip, view, shown, current, nomem, searched>>

Left == loop = "left" /\ UNCHANGED <<vars, screenVars>>

(* handle_filesave(): only its status line is shown. *)
SaveFile ==
  /\ loop # "left"
  /\ \/ /\ StartSave \/ OpenFile \/ WriteSome \/ SaveDone \/ Overrun \/ CloseFile
           \/ TellError \/ FreeHandle \/ Lost
        /\ UNCHANGED screenVars
     \/ /\ Return
        /\ UNCHANGED <<chip, view, current, nomem, searched, loop>>
        /\ PrintTexts({"STATUS"})

ScreenNext ==
  \/ SettingKeys \/ PointerKeys \/ ColourKeys \/ handle_copper_search
  \/ OtherKey \/ Quit \/ Leave \/ Left \/ SaveFile

ScreenSpec == ScreenInit /\ [][ScreenNext]_<<vars, screenVars>>

-----------------------------------------------------------------------------
(* Properties. *)

(* The cursor keys search memory by going back and forth: whatever the locks,  *)
(* modulos, display mode, shift and repeat, and across both ends of memory,    *)
(* the opposite key brings every plane back to the address it came from (once  *)
(* it is in chip memory: F9 on 256 KB sets one outside).                       *)
MovesUndone ==
  \A pair \in {<<"LEFT", "RIGHT">>, <<"UP", "DOWN">>}, shift \in Shifts, times \in {1, 4} :
    LET ptrs  == view.bpl_ptr
        there == Moved(ptrs, pair[1], shift, times)
        away  == Moved(ptrs, pair[2], shift, times)
    IN  \A n \in Planes :
          ptrs[n] < chip.max =>
            /\ Moved(there, pair[2], shift, times)[n] = ptrs[n]
            /\ Moved(away, pair[1], shift, times)[n] = ptrs[n]

(* The header shows what is set, and so does the picture, unless memory for   *)
(* its copper list was refused: every handler returns the mask of all it       *)
(* changed.  The status line waits for the end of a save.  Excepted is the     *)
(* colour under the cursor, which V, B, X, C and D change without printing it. *)
ScreenCurrent ==
  /\ \A t \in DOMAIN shown \ {"RGB"} :
       t # "STATUS" \/ pc = "idle" => shown[t] = Texts(cfg, view)[t]
  /\ current \/ nomem

(* n moves to different colours stand from word p on, around the end.          *)
ListAt(p, n) ==
  LET word(k) == chip.mem[(p + k) % Size]
  IN  /\ \A k \in 0 .. n - 1 : word(2 * k) \in Colours /\ word(2 * k + 1) # Junk
      /\ \A j, k \in 0 .. n - 1 : word(2 * j) = word(2 * k) => j = k

Found == searched.at # -1

(* Where X or C says "palette", as many entries as were asked for stand there, *)
(* and the palette holds nothing but black and what the moves from there on    *)
(* load; only a move in the last word of memory is loaded with a colour from   *)
(* behind memory.                                                              *)
FoundIsList ==
  Found =>
    /\ view.pal_ptr = 2 * searched.at
    /\ ListAt(searched.at, searched.min)
    /\ \A c \in Colours : view.pal[c] # Black =>
         \E k \in 0 .. NumColours - 1 :
           LET p == (searched.at + 2 * k) % Size
           IN  chip.mem[p] = c /\ (p = Size - 1 \/ chip.mem[p + 1] = view.pal[c])

(* The words between where a search began and word p. *)
Behind(p) == (p - searched.start) % Size

(* A list the search cannot mistake: whole within one turn around memory, and  *)
(* no register among the two words in front of it (one would make the list's   *)
(* first word the colour of another move, or its first colour a repeated one). *)
ClearList(p) ==
  /\ ListAt(p, searched.min) /\ Behind(p) + 2 * searched.min <= Size
  /\ \A k \in {1, 2} : k <= Behind(p) => chip.mem[(p - k) % Size] \notin Colours

(* No clear list is passed over: neither in front of the one that was found,   *)
(* nor where "not found" is shown.  The search keeps state from word to word   *)
(* (in a move or not, colours seen) that has to be right again after anything  *)
(* that only looks like the beginning of a list.                               *)
NoneMissed ==
  searched.min > 0 =>
    \A p \in 0 .. Size - 1 :
      ClearList(p) => Found /\ Behind(searched.at) <= Behind(p)
=============================================================================
