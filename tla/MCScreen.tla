------------------------------- MODULE MCScreen -------------------------------
(* The searcher's screen on small machines.  The keys are pressed in groups    *)
(* that share state, one group per behaviour: the sum of the groups is checked *)
(* instead of their product.  A first search may begin anywhere, later ones go *)
(* on from there.                                                              *)
EXTENDS Screen

CONSTANTS black, tint, junk

VARIABLE group

Groups == {"planes", "modulos", "settings", "search", "edit", "save"}

(* Memory for the groups that do not search it. *)
Blank(max) == [max |-> max, mem |-> [p \in 0 .. max \div 2 |-> IF p = 1 THEN junk ELSE black]]

MaxWords == 8

(* All memories of MaxWords words with three black words and one of junk,      *)
(* in which colours are numbered as they come: the search tells them apart,    *)
(* but not which is which.  Another word stands behind memory.                 *)
Contents ==
  {mem \in [0 .. MaxWords - 1 -> Colours \cup {black, junk}] :
     /\ Cardinality({p \in DOMAIN mem : mem[p] = junk}) = 1
     /\ Cardinality({p \in DOMAIN mem : mem[p] = black}) = 3
     /\ \A p \in DOMAIN mem : mem[p] \in Colours \ {0} =>
          \E q \in 0 .. p - 1 : mem[q] = mem[p] - 1}

Searched ==
  {[max |-> 2 * MaxWords, mem |-> [p \in 0 .. MaxWords |-> IF p = MaxWords THEN tint ELSE mem[p]]]
     : mem \in Contents}

MCChips == {Blank(n * ChipUnit) : n \in {4, 8, 16, 32}} \cup Searched

MCInit ==
  /\ ScreenInit
  /\ group \in Groups
  /\ CASE group = "planes" -> chip \in {Blank(4 * ChipUnit), Blank(8 * ChipUnit)}
       [] group = "search" -> chip \in Searched /\ current
       [] group = "modulos" -> chip \in {Blank(16 * ChipUnit), Blank(32 * ChipUnit)}
       [] group \in {"settings", "edit", "save"} -> chip = Blank(4 * ChipUnit)

MCNext ==
  /\ group' = group
  /\ \/ /\ group = "planes"
        /\ \/ set_bplane_lock \/ reset_bplane_addrs \/ set_chipmem_addr \/ handle_bplane_move
           \/ handle_modulos("LSHIFT")
           \/ (handle_display_mode /\ Set(DisplayTexts))
     \/ /\ group = "modulos"
        /\ set_chipmem_addr \/ \E shift \in Shifts : handle_modulos(shift)
     \/ group = "settings" /\ SettingKeys
     \/ /\ group = "search"
        /\ \/ handle_copper_search \/ init_cop_cfg
           \/ cfg.status = "VERSION" /\ handle_palette_move
        /\ ~nomem'
     \/ /\ group = "edit"
        /\ ColourKeys \/ OtherKey \/ Quit \/ Leave
     \/ group = "save" /\ SaveFile
     \/ Left

MCSpec == MCInit /\ [][MCNext]_<<vars, screenVars, group>>
=============================================================================
