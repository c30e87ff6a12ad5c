----------------------------- MODULE ScreenProof ------------------------------
(***************************************************************************)
(* Proofs about the searcher's screen, for any chip memory, screen, number  *)
(* of planes and of colours: the screen's keys are steps of Searcher, so    *)
(* that what is proved there holds here; the bitplane pointers stay even    *)
(* and inside chip memory, and every move of them can be undone; header and *)
(* picture show what is set; and the search for copper lists finds lists,   *)
(* and passes none over.                                                    *)
(***************************************************************************)
EXTENDS Screen, SearcherProof

-----------------------------------------------------------------------------
(* Arithmetic. *)

LEMMA Division ==
  ASSUME NEW a \in Int, NEW m \in Nat \ {0}
  PROVE  a = m * (a \div m) + (a % m) /\ a % m \in 0 .. m - 1 /\ a \div m \in Int
  BY Z3

\* Quotient and remainder are unique.
LEMMA SameRemainder ==
  ASSUME NEW m \in Nat \ {0}, NEW q \in Int, NEW r \in 0 .. m - 1,
         NEW s \in Int, NEW t \in 0 .. m - 1, m * q + r = m * s + t
  PROVE  r = t
  <1>1. m * (q - s) = t - r
    BY SMT
  <1>2. CASE q - s >= 1
    <2>1. m * (q - s) >= m BY <1>2, SMT
    <2> QED BY <1>1, <2>1
  <1>3. CASE s - q >= 1
    <2>1. m * (s - q) >= m BY <1>3, SMT
    <2>2. m * (s - q) = r - t BY <1>1, SMT
    <2> QED BY <2>1, <2>2
  <1>4. CASE q = s
    BY <1>1, <1>4, SMT
  <1> QED BY <1>2, <1>3, <1>4

\* There and back, around the end of memory in either direction.
LEMMA WrapBack ==
  ASSUME NEW m \in Nat \ {0}, NEW p \in 0 .. m - 1, NEW d \in Int
  PROVE  (((p + d) % m) - d) % m = p
  <1> DEFINE a == p + d
             q == a \div m
             y == (a % m) - d
             s == y \div m
             t == y % m
  <1>1. a \in Int OBVIOUS
  <1> HIDE DEF a
  <1>2. a = m * q + (a % m) /\ a % m \in 0 .. m - 1 /\ q \in Int
    BY <1>1, Division
  <1>3. y \in Int
    BY <1>2
  <1> HIDE DEF y
  <1>4. y = m * s + t /\ t \in 0 .. m - 1 /\ s \in Int
    BY <1>3, Division
  <1>5. p + d = m * q + (y + d)
    BY <1>2, <1>3 DEF a, y
  <1> HIDE DEF q, s, t
  <1>6. m * (0 - q) = 0 - m * q /\ m * q \in Int /\ 0 - q \in Int
    BY <1>2, SMT
  <1>7. m * (0 - q) + p = m * s + t
    BY <1>3, <1>4, <1>5, <1>6
  <1>8. p = t
    BY <1>4, <1>6, <1>7, SameRemainder
  <1> QED BY <1>8 DEF a, y, t

LEMMA EvenHalf ==
  ASSUME NEW a \in Int, a % 2 = 0 PROVE \E k \in Int : a = 2 * k
  <1>1. a = 2 * (a \div 2) /\ a \div 2 \in Int BY SMT
  <1> QED BY <1>1

LEMMA EvenRemainder ==
  ASSUME NEW a \in Int, NEW m \in Nat \ {0}, a % 2 = 0, m % 2 = 0
  PROVE  (a % m) % 2 = 0
  <1> DEFINE q == a \div m
             r == a % m
  <1>1. a = m * q + r /\ r \in 0 .. m - 1 /\ q \in Int
    BY Division
  <1> HIDE DEF q, r
  <1>2. PICK k \in Int : m = 2 * k
    BY EvenHalf
  <1>3. PICK j \in Int : a = 2 * j
    BY EvenHalf
  <1>4. r = 2 * (j - k * q) /\ k * q \in Int
    BY <1>1, <1>2, <1>3, SMT
  <1>5. r % 2 = 0
    BY <1>4, SMT
  <1> QED BY <1>5 DEF r

LEMMA EvenProduct ==
  ASSUME NEW a \in Int, NEW r \in Int, NEW t \in Int, a % 2 = 0
  PROVE  a * r * t \in Int /\ (a * r * t) % 2 = 0
  <1>1. PICK k \in Int : a = 2 * k
    BY EvenHalf
  <1> DEFINE y == k * r * t
  <1>2. a * r * t = 2 * y /\ y \in Int
    BY <1>1, SMT
  <1> HIDE DEF y
  <1>3. (2 * y) % 2 = 0 /\ 2 * y \in Int
    BY <1>2, SMT
  <1> QED BY <1>2, <1>3

LEMMA OppositeProduct ==
  ASSUME NEW a \in Int, NEW r \in Int, NEW t \in Int
  PROVE  a * r * t \in Int /\ (-a) * r * t = 0 - a * r * t
  <1> DEFINE x == a * r
  <1>1. x \in Int /\ (-a) * r = 0 - x
    BY SMT
  <1> HIDE DEF x
  <1>2. x * t \in Int /\ (0 - x) * t = 0 - x * t
    BY <1>1, SMT
  <1> QED BY <1>1, <1>2 DEF x

LEMMA RowsEven ==
  ASSUME NEW w \in Nat, w % 16 = 0
  PROVE  w \div 8 \in Nat /\ (w \div 8) % 2 = 0
  BY SMT

-----------------------------------------------------------------------------
(* Searcher. *)

LEMMA ScreenStepIsStep == ScreenNext => [Next]_vars
  <1> SUFFICES ASSUME ScreenNext PROVE Keys \/ Next \/ UNCHANGED vars
    BY DEF Next
  <1>1. CASE SettingKeys
    BY <1>1 DEF SettingKeys, Keys
  <1>2. CASE PointerKeys
    BY <1>2 DEF PointerKeys, set_bplane_lock, reset_bplane_addrs, set_chipmem_addr,
       SetPointers, handle_bplane_move, handle_modulos, SetModulos, Look
  <1>3. CASE ColourKeys
    BY <1>3 DEF ColourKeys, handle_palette, palette_index, init_cop_cfg,
       handle_palette_move, Look
  <1>4. CASE handle_copper_search
    BY <1>4 DEF handle_copper_search, Keys
  <1>5. CASE OtherKey \/ Quit \/ Leave \/ Left
    BY <1>5 DEF OtherKey, Look, Quit, Leave, Left
  <1>6. CASE SaveFile
    BY <1>6 DEF SaveFile, Next
  <1> QED
    BY <1>1, <1>2, <1>3, <1>4, <1>5, <1>6 DEF ScreenNext

(* The searcher with everything it looks at and shows behaves, towards its     *)
(* settings and files, as Searcher says: no key that moves pointers or colours *)
(* (main_key_loop()) touches what a save depends on.                           *)
THEOREM ScreenIsSearcher == ScreenSpec => Spec
  <1>1. ScreenInit => Init
    BY DEF ScreenInit
  <1>2. [ScreenNext]_<<vars, screenVars>> => [Next]_vars
    BY ScreenStepIsStep
  <1> QED
    BY <1>1, <1>2, PTL DEF ScreenSpec, Spec

(* With the whole keyboard, flags and the modes that are shown agree           *)
(* (handle_display_mode(), set_resolution()).                                  *)
THEOREM ScreenModes == ScreenSpec => []ModesAgree
  BY ScreenIsSearcher, SearcherModes, PTL

-----------------------------------------------------------------------------
(* The bitplane pointers. *)

\* The record is one, whatever a search has put into its palette.
ViewShape ==
  view = [bpl_ptr |-> view.bpl_ptr, bpl_lock |-> view.bpl_lock,
          mod_even |-> view.mod_even, mod_odd |-> view.mod_odd, pal |-> view.pal,
          rgb_idx |-> view.rgb_idx, pal_ptr |-> view.pal_ptr]

PointerInv ==
  /\ chip \in Chips /\ ViewShape
  /\ view.bpl_ptr \in [Planes -> Nat]
  /\ view.mod_even \in Int /\ view.mod_odd \in Int
  /\ BitplanesInChip /\ ModulosFit

\* What the keys below need of the settings: rows of whole words.
LEMMA SettingsUsed == IInv =>
  cfg.scr_width \in Nat /\ cfg.scr_width % 16 = 0 /\ cfg.scr_height \in Nat
  <1> SUFFICES ASSUME IInv
               PROVE  cfg.scr_width \in Nat /\ cfg.scr_width % 16 = 0 /\ cfg.scr_height \in Nat
    OBVIOUS
  <1>1. cfg.scr_width \in 16 .. MaxBplaneWidth /\ cfg.scr_height \in Heights
    BY DEF IInv, TypeOK, Config
  <1>2. cfg.scr_width % 16 = 0
    BY DEF IInv, RowsFit
  <1>3. cfg.scr_height \in Nat
    BY <1>1, WidthAssumption
  <1>4. cfg.scr_width \in Nat
    <2>1. MaxBplaneWidth \in Nat
      BY WidthAssumption
    <2> QED BY <1>1, <2>1
  <1> QED BY <1>2, <1>3, <1>4

LEMMA ChipSizes ==
  ASSUME chip \in Chips
  PROVE  /\ chip.max \in Nat \ {0} /\ chip.max % 2 = 0 /\ ChipUnit <= chip.max
         /\ ChipUnit \in Nat \ {0} /\ ChipUnit % 2 = 0
  BY ScreenAssumption

LEMMA PointerInit == ScreenInit => PointerInv
  <1> SUFFICES ASSUME ScreenInit PROVE PointerInv
    OBVIOUS
  <1>1. chip \in Chips
    BY DEF ScreenInit
  <1>2. view.bpl_ptr = [n \in Planes |-> DefaultPtr] /\ view.mod_even = 0 /\ view.mod_odd = 0
    BY DEF ScreenInit
  <1>3. ViewShape
    BY DEF ScreenInit, ViewShape
  <1>4. BitplanesInChip
    BY <1>1, <1>2, ChipSizes, ScreenAssumption DEF BitplanesInChip
  <1>5. ModulosFit
    BY <1>2, ScreenAssumption DEF ModulosFit
  <1> QED
    BY <1>1, <1>2, <1>3, <1>4, <1>5, ScreenAssumption DEF PointerInv

LEMMA PointersKept ==
  ASSUME PointerInv, ViewShape', UNCHANGED chip,
         view'.bpl_ptr = view.bpl_ptr, view'.mod_even = view.mod_even,
         view'.mod_odd = view.mod_odd
  PROVE  PointerInv'
  BY DEF PointerInv, BitplanesInChip, ModulosFit

LEMMA LookKeepsChip == ASSUME NEW u, Look(u) PROVE UNCHANGED chip
  BY DEF Look, Pressed

LEMMA SetPointersInv ==
  ASSUME PointerInv, NEW ptr \in Nat, SetPointers(ptr), ptr % 2 = 0,
         ptr < chip.max \/ (chip.max = 4 * ChipUnit /\ ptr = 5 * ChipUnit)
  PROVE  PointerInv'
  <1>1. chip' = chip /\ view' = [view EXCEPT !.bpl_ptr = [n \in Planes |-> ptr]]
    BY LookKeepsChip DEF SetPointers
  <1>2. ViewShape' /\ view'.bpl_ptr = [n \in Planes |-> ptr]
        /\ view'.mod_even = view.mod_even /\ view'.mod_odd = view.mod_odd
    BY <1>1 DEF PointerInv, ViewShape
  <1>3. BitplanesInChip'
    BY <1>1, <1>2 DEF BitplanesInChip
  <1> QED
    BY <1>1, <1>2, <1>3 DEF PointerInv, ModulosFit

\* A cursor key's step is an even number of bytes.
LEMMA StepEven ==
  ASSUME IInv, PointerInv, NEW key \in {"LEFT", "RIGHT", "UP", "DOWN"}, NEW n \in Planes
  PROVE  /\ Step(key, PlaneModulo(n)) \in Int
         /\ Step(key, PlaneModulo(n)) % 2 = 0
  <1> DEFINE w == cfg.scr_width \div 8
             mod == PlaneModulo(n)
  <1>1. w \in Nat /\ w % 2 = 0
    BY SettingsUsed, RowsEven
  <1>2. mod \in Int /\ mod % 2 = 0
    BY DEF PlaneModulo, PointerInv, ModulosFit
  <1> HIDE DEF w, mod
  <1>3. w + mod \in Int /\ (w + mod) % 2 = 0 /\ -(w + mod) \in Int /\ (-(w + mod)) % 2 = 0
    BY <1>1, <1>2, SMT
  <1>4. Line(mod) = w + mod
    BY DEF Line, w
  <1>5. Step(key, mod) \in {2, -2, w + mod, -(w + mod)}
    BY <1>4 DEF Step
  <1> QED
    BY <1>3, <1>5, SMT DEF mod

LEMMA RowStepsInt == ASSUME IInv, NEW shift \in Shifts PROVE RowSteps(shift) \in Int
  BY SettingsUsed DEF RowSteps, Shifts

LEMMA MovedInChip ==
  ASSUME IInv, PointerInv, NEW key \in {"LEFT", "RIGHT", "UP", "DOWN"},
         NEW shift \in Shifts, NEW times \in {1, 4}, NEW n \in Planes,
         n \in view.bpl_lock
  PROVE  LET ptr == Moved(view.bpl_ptr, key, shift, times)[n]
         IN  ptr \in Nat /\ ptr % 2 = 0 /\ ptr < chip.max
  <1> DEFINE d == Step(key, PlaneModulo(n)) * RowSteps(shift) * times
             a == view.bpl_ptr[n] + d
  <1>1. d \in Int /\ d % 2 = 0
    <2>1. Step(key, PlaneModulo(n)) \in Int /\ Step(key, PlaneModulo(n)) % 2 = 0
      BY StepEven
    <2>2. RowSteps(shift) \in Int /\ times \in Int
      BY RowStepsInt
    <2> QED BY <2>1, <2>2, EvenProduct
  <1>2. Moved(view.bpl_ptr, key, shift, times)[n] = Wrap(a)
    BY DEF Moved
  <1> HIDE DEF d
  <1>3. a \in Int /\ a % 2 = 0
    BY <1>1, SMT DEF PointerInv, BitplanesInChip
  <1> HIDE DEF a
  <1>4. a % chip.max \in 0 .. chip.max - 1 /\ (a % chip.max) % 2 = 0
    BY <1>3, ChipSizes, Division, EvenRemainder DEF PointerInv
  <1> QED
    BY <1>2, <1>4, ChipSizes DEF Wrap, PointerInv

LEMMA MoveInv == ASSUME IInv, PointerInv, handle_bplane_move PROVE PointerInv'
  <1>1. PICK key \in {"LEFT", "RIGHT", "UP", "DOWN"}, shift \in Shifts, times \in {1, 4} :
          /\ view' = [view EXCEPT !.bpl_ptr = Moved(@, key, shift, times)]
          /\ Look({"BPLADDRS"})
    BY DEF handle_bplane_move
  <1> DEFINE ptrs == Moved(view.bpl_ptr, key, shift, times)
  <1>2. chip' = chip
    BY <1>1, LookKeepsChip
  <1>3. ViewShape' /\ view'.bpl_ptr = ptrs
        /\ view'.mod_even = view.mod_even /\ view'.mod_odd = view.mod_odd
    BY <1>1 DEF PointerInv, ViewShape
  <1>4. \A n \in Planes : n \notin view.bpl_lock => ptrs[n] = view.bpl_ptr[n]
    BY DEF Moved
  <1>5. \A n \in Planes :
          /\ ptrs[n] \in Nat /\ ptrs[n] % 2 = 0
          /\ ptrs[n] < chip.max \/ (chip.max = 4 * ChipUnit /\ ptrs[n] = 5 * ChipUnit)
    <2> TAKE n \in Planes
    <2>1. CASE n \in view.bpl_lock
      BY <2>1, MovedInChip
    <2>2. CASE n \notin view.bpl_lock
      BY <1>4, <2>2 DEF PointerInv, BitplanesInChip
    <2> QED BY <2>1, <2>2
  <1>6. ptrs = [n \in Planes |-> ptrs[n]]
    BY DEF Moved
  <1> HIDE DEF ptrs
  <1>7. ptrs \in [Planes -> Nat]
    BY <1>5, <1>6
  <1>8. BitplanesInChip'
    BY <1>2, <1>3, <1>5 DEF BitplanesInChip
  <1> QED
    BY <1>2, <1>3, <1>7, <1>8 DEF PointerInv, ModulosFit

LEMMA SteppedFits ==
  ASSUME NEW mod \in Int, NEW step \in {2, -2, BigStep, -BigStep},
         mod % 2 = 0, -MaxModulo < mod, mod < MaxModulo
  PROVE  LET new == Stepped(mod, step)
         IN  new \in Int /\ new % 2 = 0 /\ -MaxModulo < new /\ new < MaxModulo
  <1>1. step \in Int /\ step % 2 = 0
    BY ScreenAssumption, SMT
  <1>2. mod + step \in Int /\ (mod + step) % 2 = 0
    BY <1>1, SMT
  <1> QED
    BY <1>2 DEF Stepped

LEMMA SetModulosInv ==
  ASSUME PointerInv, NEW shift, NEW e \in Int, NEW o \in Int,
         SetModulos(shift, e, o),
         e % 2 = 0, -MaxModulo < e, e < MaxModulo,
         o % 2 = 0, -MaxModulo < o, o < MaxModulo
  PROVE  PointerInv'
  <1>1. chip' = chip
    BY LookKeepsChip DEF SetModulos
  <1>2. ViewShape' /\ view'.bpl_ptr = view.bpl_ptr
        /\ view'.mod_even \in {view.mod_even, e} /\ view'.mod_odd \in {view.mod_odd, o}
    BY DEF SetModulos, PointerInv, ViewShape
  <1>3. ModulosFit'
    BY <1>2 DEF PointerInv, ModulosFit
  <1> QED
    BY <1>1, <1>2, <1>3 DEF PointerInv, BitplanesInChip

LEMMA ModulosInv ==
  ASSUME PointerInv, NEW shift \in Shifts, handle_modulos(shift) PROVE PointerInv'
  <1>1. CASE \E step \in {2, -2, BigStep, -BigStep} :
               SetModulos(shift, Stepped(view.mod_even, step), Stepped(view.mod_odd, step))
    BY <1>1, SteppedFits, SetModulosInv DEF PointerInv, ModulosFit
  <1>2. CASE SetModulos(shift, 0, 0)
    <2>1. -MaxModulo < 0 /\ 0 < MaxModulo
      BY ScreenAssumption DEF PointerInv, ModulosFit
    <2> QED BY <1>2, <2>1, SetModulosInv
  <1> QED
    BY <1>1, <1>2 DEF handle_modulos

LEMMA PointerNext == IInv /\ PointerInv /\ [ScreenNext]_<<vars, screenVars>> => PointerInv'
  <1> SUFFICES ASSUME IInv, PointerInv, [ScreenNext]_<<vars, screenVars>>
               PROVE  PointerInv'
    OBVIOUS
  <1>1. CASE UNCHANGED <<view, chip>>
    BY <1>1 DEF PointerInv, ViewShape, BitplanesInChip, ModulosFit
  <1>2. CASE set_bplane_lock
    <2>1. ViewShape' /\ chip' = chip /\ view'.bpl_ptr = view.bpl_ptr
          /\ view'.mod_even = view.mod_even /\ view'.mod_odd = view.mod_odd
      BY <1>2, LookKeepsChip DEF set_bplane_lock, PointerInv, ViewShape
    <2> QED BY <2>1, PointersKept
  <1>3. CASE reset_bplane_addrs
    <2>1. 0 \in Planes
      BY ScreenAssumption DEF Planes
    <2> QED
      BY <1>3, <2>1, SetPointersInv, ChipSizes
         DEF reset_bplane_addrs, PointerInv, BitplanesInChip
  <1>4. CASE set_chipmem_addr
    <2>1. PICK ptr \in ChipAddrs : SetPointers(ptr)
      BY <1>4 DEF set_chipmem_addr
    <2>2. ptr \in Nat /\ ptr % 2 = 0
          /\ (ptr < chip.max \/ (chip.max = 4 * ChipUnit /\ ptr = 5 * ChipUnit))
      <3>1. ChipUnit \in Nat \ {0} /\ ChipUnit % 2 = 0
        BY ScreenAssumption
      <3>2. chip.max \in {4 * ChipUnit, 8 * ChipUnit, 16 * ChipUnit, 32 * ChipUnit}
        BY ScreenAssumption DEF PointerInv
      <3>3. CASE chip.max = 4 * ChipUnit
        BY <2>1, <3>1, <3>3 DEF ChipAddrs
      <3>4. CASE chip.max = 8 * ChipUnit
        BY <2>1, <3>1, <3>4 DEF ChipAddrs
      <3>5. CASE chip.max = 16 * ChipUnit
        BY <2>1, <3>1, <3>5 DEF ChipAddrs
      <3>6. CASE chip.max = 32 * ChipUnit
        BY <2>1, <3>1, <3>6 DEF ChipAddrs
      <3> QED BY <3>2, <3>3, <3>4, <3>5, <3>6
    <2> QED BY <2>1, <2>2, SetPointersInv
  <1>5. CASE handle_bplane_move
    BY <1>5, MoveInv
  <1>6. CASE \E shift \in Shifts : handle_modulos(shift)
    BY <1>6, ModulosInv
  <1>7. CASE ColourKeys
    <2>1. ViewShape' /\ chip' = chip /\ view'.bpl_ptr = view.bpl_ptr
          /\ view'.mod_even = view.mod_even /\ view'.mod_odd = view.mod_odd
      BY <1>7, LookKeepsChip DEF ColourKeys, handle_palette, palette_index, init_cop_cfg,
         handle_palette_move, PointerInv, ViewShape
    <2> QED BY <2>1, PointersKept
  <1>8. CASE handle_copper_search
    <2>1. ViewShape' /\ chip' = chip /\ view'.bpl_ptr = view.bpl_ptr
          /\ view'.mod_even = view.mod_even /\ view'.mod_odd = view.mod_odd
      BY <1>8 DEF handle_copper_search, Pressed, PointerInv, ViewShape
    <2> QED BY <2>1, PointersKept
  <1>9. CASE SettingKeys \/ OtherKey \/ Quit \/ Leave \/ Left \/ SaveFile
    BY <1>1, <1>9 DEF SettingKeys, Set, Pressed, OtherKey, Look, Quit, Leave, Left,
       SaveFile, screenVars
  <1> QED
    BY <1>1, <1>2, <1>3, <1>4, <1>5, <1>6, <1>7, <1>8, <1>9
       DEF ScreenNext, PointerKeys, screenVars

(* Pointers and modulos, together with what keeps them so: the invariant of    *)
(* all theorems below (handle_bplane_move(), handle_modulos()).                *)
THEOREM ScreenPointers == ScreenSpec => []PointerInv
  <1>1. ScreenSpec => []IInv
    BY ScreenIsSearcher, SearcherInv, PTL
  <1> QED
    BY <1>1, PointerInit, PointerNext, PTL DEF ScreenSpec

(* Every bitplane pointer is even and, but for F9 on 256 KB, inside chip       *)
(* memory, whatever keys moved it (handle_bplane_move(), set_chipmem_addr()).  *)
THEOREM ScreenBitplanes == ScreenSpec => []BitplanesInChip
  <1>1. PointerInv => BitplanesInChip
    BY DEF PointerInv
  <1> QED BY <1>1, ScreenPointers, PTL

LEMMA MoveBack ==
  ASSUME IInv, PointerInv, NEW shift \in Shifts, NEW times \in {1, 4}, NEW n \in Planes,
         view.bpl_ptr[n] < chip.max,
         NEW there, NEW back,
         <<there, back>> \in {<<"LEFT", "RIGHT">>, <<"RIGHT", "LEFT">>,
                              <<"UP", "DOWN">>, <<"DOWN", "UP">>}
  PROVE  Moved(Moved(view.bpl_ptr, there, shift, times), back, shift, times)[n]
           = view.bpl_ptr[n]
  <1> DEFINE mod == PlaneModulo(n)
             s == Step(there, mod)
             r == RowSteps(shift)
             d == s * r * times
             p == view.bpl_ptr[n]
  <1>1. there \in {"LEFT", "RIGHT", "UP", "DOWN"} /\ back \in {"LEFT", "RIGHT", "UP", "DOWN"}
    OBVIOUS
  <1>2. s \in Int
    BY <1>1, StepEven
  <1>3. Step(back, mod) = -s
    <2>1. Line(mod) \in Int
      BY SettingsUsed DEF Line, PlaneModulo, PointerInv
    <2> HIDE DEF mod
    <2> QED BY <2>1 DEF Step
  <1>4. r \in Int
    BY RowStepsInt
  <1> HIDE DEF mod, s, r
  <1>5. d \in Int /\ (-s) * r * times = 0 - d
    BY <1>2, <1>4, OppositeProduct
  <1>6. p \in 0 .. chip.max - 1 /\ chip.max \in Nat \ {0}
    BY ChipSizes DEF PointerInv
  <1>7. CASE n \in view.bpl_lock
    <2>1. Moved(view.bpl_ptr, there, shift, times)[n] = (p + d) % chip.max
      BY <1>7 DEF Moved, Wrap, mod, s, r
    <2>2. Moved(Moved(view.bpl_ptr, there, shift, times), back, shift, times)[n]
            = (((p + d) % chip.max) + (-s) * r * times) % chip.max
      BY <1>3, <1>7, <2>1 DEF Moved, Wrap, mod, r
    <2> HIDE DEF d
    <2>3. (p + d) % chip.max \in Int
      BY <1>5, <1>6, Division
    <2>4. ((p + d) % chip.max) + (0 - d) = ((p + d) % chip.max) - d
      BY <1>5, <2>3
    <2>5. (((p + d) % chip.max) - d) % chip.max = p
      BY <1>5, <1>6, WrapBack
    <2>6. Moved(Moved(view.bpl_ptr, there, shift, times), back, shift, times)[n]
            = (((p + d) % chip.max) + (0 - d)) % chip.max
      BY <1>5, <2>2
    <2> QED BY <2>4, <2>5, <2>6
  <1>8. CASE n \notin view.bpl_lock
    BY <1>8 DEF Moved
  <1> QED BY <1>7, <1>8

(* Every move of the cursor keys can be undone with the opposite key, across   *)
(* the ends of chip memory of any size (handle_bplane_move()).                 *)
THEOREM ScreenMovesUndone == ScreenSpec => []MovesUndone
  <1>1. IInv /\ PointerInv => MovesUndone
    BY MoveBack DEF MovesUndone
  <1>2. ScreenSpec => []IInv
    BY ScreenIsSearcher, SearcherInv, PTL
  <1> QED BY <1>1, <1>2, ScreenPointers, PTL

-----------------------------------------------------------------------------
(* The search for copper lists: its turns. *)

LEMMA ChipWords ==
  ASSUME chip \in Chips
  PROVE  /\ Size \in Nat /\ Size > 0 /\ chip.max = 2 * Size
         /\ chip.mem \in [0 .. Size -> Words]
<1>1. chip.max \in Nat \ {0} /\ chip.max % 2 = 0
  BY ChipSizes
<1>2. chip.mem \in [0 .. chip.max \div 2 -> Words]
  BY ScreenAssumption
<1>3. \A m \in Nat \ {0} : m % 2 = 0 => m \div 2 \in Nat /\ m \div 2 > 0 /\ m = 2 * (m \div 2)
  OBVIOUS
<1>4. QED BY <1>1, <1>2, <1>3 DEF Size

LEMMA ColoursInt == \A c \in Colours : c \in Int
  BY ScreenAssumption DEF Colours

LEMMA PlaceInMemory ==
  ASSUME chip \in Chips, NEW i \in Int
  PROVE  i % Size \in 0 .. Size - 1
<1> DEFINE m == Size
<1>1. m \in Nat \ {0}
  BY ChipWords
<1> HIDE DEF m
<1>2. i % m \in 0 .. m - 1
  BY <1>1, Division
<1>3. QED BY <1>2 DEF m

SearchStates ==
  [move : BOOLEAN, found : Nat, colpal : SUBSET Colours, idx : Colours, at : 0 .. Size - 1]

\* What a turn does, case by case.
LEMMA TurnCases ==
  ASSUME NEW s \in SearchStates, NEW p \in 0 .. Size - 1, NEW min \in Nat
  PROVE  LET t == SearchWord(s, p, min)
             again == /\ t.move = TRUE /\ t.found = 0 /\ t.colpal = {}
                      /\ t.idx = s.idx /\ t.at = s.at
         IN  /\ t \in SearchStates
             /\ s.found = min => t = s
             /\ s.found # min /\ s.move /\ chip.mem[p] \in Colours \ s.colpal =>
                  /\ t.move = FALSE /\ t.found = s.found /\ t.colpal = s.colpal
                  /\ t.idx = chip.mem[p] /\ t.at = IF s.found = 0 THEN p ELSE s.at
             /\ s.found # min /\ s.move /\ chip.mem[p] \notin Colours \ s.colpal => again
             /\ s.found # min /\ ~s.move /\ chip.mem[p] # Junk =>
                  /\ t.move = TRUE /\ t.found = s.found + 1
                  /\ t.colpal = s.colpal \cup {s.idx} /\ t.idx = s.idx /\ t.at = s.at
             /\ s.found # min /\ ~s.move /\ chip.mem[p] = Junk => again
<1> DEFINE t == SearchWord(s, p, min)
<1>0. /\ s.move \in BOOLEAN /\ s.found \in Nat /\ s.colpal \subseteq Colours
      /\ s.idx \in Colours /\ s.at \in 0 .. Size - 1
  BY DEF SearchStates
<1>1. CASE s.found = min
  <2>1. t = s
    BY <1>1 DEF SearchWord
  <2>2. QED BY <1>1, <2>1, Zenon
<1> DEFINE r == [s EXCEPT !.move = TRUE, !.found = 0, !.colpal = {}]
           u == [s EXCEPT !.move = FALSE, !.idx = chip.mem[p],
                          !.at = IF s.found = 0 THEN p ELSE @]
           v == [s EXCEPT !.move = TRUE, !.found = @ + 1, !.colpal = @ \cup {s.idx}]
<1>2. /\ r \in SearchStates
      /\ r.move = TRUE /\ r.found = 0 /\ r.colpal = {} /\ r.idx = s.idx /\ r.at = s.at
  BY <1>0 DEF SearchStates
<1>3. /\ chip.mem[p] \in Colours => u \in SearchStates
      /\ u.move = FALSE /\ u.found = s.found /\ u.colpal = s.colpal
      /\ u.idx = chip.mem[p] /\ u.at = IF s.found = 0 THEN p ELSE s.at
  BY <1>0 DEF SearchStates
<1>4. /\ v \in SearchStates
      /\ v.move = TRUE /\ v.found = s.found + 1 /\ v.colpal = s.colpal \cup {s.idx}
      /\ v.idx = s.idx /\ v.at = s.at
  <2> DEFINE n == s.found + 1
             c == s.colpal \cup {s.idx}
  <2>1. n \in Nat /\ c \in SUBSET Colours
    BY <1>0
  <2>2. v = [s EXCEPT !.move = TRUE, !.found = n, !.colpal = c]
    OBVIOUS
  <2> HIDE DEF n, c, v
  <2>3. /\ v \in SearchStates
        /\ v.move = TRUE /\ v.found = n /\ v.colpal = c /\ v.idx = s.idx /\ v.at = s.at
    BY <1>0, <2>1, <2>2 DEF SearchStates
  <2>4. QED BY <2>3 DEF n, c
<1>5. s.found # min /\ s.move => t = IF chip.mem[p] \in Colours \ s.colpal THEN u ELSE r
  BY DEF SearchWord
<1>6. s.found # min /\ ~s.move => t = IF chip.mem[p] # Junk THEN v ELSE r
  BY DEF SearchWord
<1> HIDE DEF t, r, u, v
<1>7. CASE s.found # min /\ s.move
  <2>1. CASE chip.mem[p] \in Colours \ s.colpal
    BY <1>3, <1>5, <1>7, <2>1 DEF t
  <2>2. CASE chip.mem[p] \notin Colours \ s.colpal
    <3>1. t = r
      BY <1>5, <1>7, <2>2
    <3>2. QED BY <1>2, <1>7, <2>2, <3>1 DEF t
  <2>3. QED BY <2>1, <2>2
<1>8. CASE s.found # min /\ ~s.move
  <2>1. CASE chip.mem[p] # Junk
    <3>1. t = v
      BY <1>6, <1>8, <2>1
    <3>2. QED BY <1>4, <1>8, <2>1, <3>1 DEF t
  <2>2. CASE chip.mem[p] = Junk
    <3>1. t = r
      BY <1>6, <1>8, <2>2
    <3>2. QED BY <1>2, <1>8, <2>2, <3>1 DEF t
  <2>3. QED BY <2>1, <2>2
<1>9. QED BY <1>0, <1>1, <1>7, <1>8

FirstTurn(start) == [move |-> TRUE, found |-> 0, colpal |-> {}, idx |-> 0, at |-> start]

LEMMA TurnsDefined ==
  ASSUME chip \in Chips, NEW start \in 0 .. Size - 1, NEW min \in Nat
  PROVE  /\ Turns(start, min) \in [0 .. Size -> SearchStates]
         /\ Turns(start, min)[0] = FirstTurn(start)
         /\ \A k \in 1 .. Size :
              Turns(start, min)[k] = SearchWord(Turns(start, min)[k - 1], (start + k - 1) % Size, min)
<1> DEFINE V == SearchStates
           N == Size
           v0 == FirstTurn(start)
           step == [p \in V \X (1 .. N) |-> SearchWord(p[1], (start + p[2] - 1) % Size, min)]
           body(g) == [k \in 0 .. Size |->
                         IF k = 0
                         THEN [move |-> TRUE, found |-> 0, colpal |-> {}, idx |-> 0, at |-> start]
                         ELSE SearchWord(g[k - 1], (start + k - 1) % Size, min)]
<1>0. \A k \in 1 .. N : (start + k - 1) % Size \in 0 .. Size - 1
  <2>1. ASSUME NEW k \in 1 .. N PROVE (start + k - 1) % Size \in 0 .. Size - 1
    <3>1. start + k - 1 \in Int
      BY ChipWords
    <3>2. QED BY <3>1, PlaceInMemory
  <2>2. QED BY <2>1
<1>1. N \in Nat /\ v0 \in V /\ step \in [V \X (1 .. N) -> V]
  <2>1. N \in Nat
    BY ChipWords
  <2>2. v0 \in V
    <3>1. 0 \in Colours
      BY ScreenAssumption DEF Colours
    <3>2. QED BY <3>1 DEF SearchStates, FirstTurn
  <2>3. ASSUME NEW p \in V \X (1 .. N)
        PROVE  SearchWord(p[1], (start + p[2] - 1) % Size, min) \in V
    <3>1. p[1] \in V /\ p[2] \in 1 .. N
      OBVIOUS
    <3> HIDE DEF V, N
    <3>2. (start + p[2] - 1) % Size \in 0 .. Size - 1
      BY <1>0, <3>1
    <3>3. QED BY <3>1, <3>2, TurnCases DEF V
  <2>4. step \in [V \X (1 .. N) -> V]
    BY <2>3
  <2>5. QED BY <2>1, <2>2, <2>4
<1>2. PICK g \in [0 .. N -> V] : Computes(g, N, v0, step)
  <2> HIDE DEF V, N, v0, step
  <2>1. QED BY <1>1, Recursion
<1>3. ASSUME NEW k \in 1 .. N
      PROVE  g[k] = SearchWord(g[k - 1], (start + k - 1) % Size, min)
  <2>1. k - 1 \in 0 .. N
    BY <1>1
  <2>2. g[k - 1] \in V
    <3> HIDE DEF V, N
    <3>1. QED BY <2>1
  <2>3. g[k] = step[<<g[k - 1], k>>]
    <3> HIDE DEF step
    <3>1. QED BY <1>2 DEF Computes
  <2>4. <<g[k - 1], k>> \in V \X (1 .. N)
    <3> HIDE DEF V, N
    <3>1. QED BY <2>2
  <2>5. QED
    <3> HIDE DEF V
    <3>1. QED BY <2>3, <2>4
<1>4. g[0] = v0
  <2> HIDE DEF step
  <2>1. QED BY <1>2 DEF Computes
<1>5. g = body(g)
  <2>1. g = [k \in 0 .. N |-> g[k]]
    OBVIOUS
  <2>2. body(g) = [k \in 0 .. N |-> body(g)[k]]
    OBVIOUS
  <2>3. ASSUME NEW k \in 0 .. N PROVE g[k] = body(g)[k]
    <3>1. CASE k = 0
      BY <3>1, <1>4 DEF FirstTurn
    <3>2. CASE k # 0
      <4>1. k \in 1 .. N
        BY <3>2
      <4>2. QED BY <1>3, <3>2, <4>1
    <3>3. QED BY <3>1, <3>2
  <2> HIDE DEF body
  <2>4. QED BY <2>1, <2>2, <2>3
<1>6. Turns(start, min) = CHOOSE turn : turn = body(turn)
  BY DEF Turns
<1> DEFINE T == Turns(start, min)
<1> HIDE DEF body
<1>7. T = body(T)
  BY <1>5, <1>6
<1>8. \A k \in 0 .. N : T[k] = body(T)[k]
  BY <1>7, Zenon
<1>9. T[0] = FirstTurn(start)
  <2>1. 0 \in 0 .. N
    BY <1>1
  <2> HIDE DEF T
  <2>2. QED BY <1>8, <2>1 DEF body, FirstTurn
<1>10. \A k \in 1 .. N : T[k] = SearchWord(T[k - 1], (start + k - 1) % Size, min)
  <2> HIDE DEF T
  <2>1. QED BY <1>8 DEF body
<1> DEFINE S == {k \in 0 .. N : T[k] \in V}
<1>11. 0 \in S
  <2> HIDE DEF T, V
  <2>1. 0 \in 0 .. N
    BY <1>1
  <2>2. QED BY <1>1, <1>9, <2>1
<1>12. ASSUME NEW k \in 0 .. (N - 1), k \in S PROVE k + 1 \in S
  <2> HIDE DEF T
  <2>1. /\ k + 1 \in 1 .. N /\ (k + 1) - 1 = k /\ k + 1 \in 0 .. N
    BY <1>1
  <2>2. T[k] \in V
    BY <1>12
  <2>3. T[k + 1] = SearchWord(T[k], (start + (k + 1) - 1) % Size, min)
    BY <1>10, <2>1
  <2>4. (start + (k + 1) - 1) % Size \in 0 .. Size - 1
    BY <1>0, <2>1
  <2>5. T[k + 1] \in V
    <3>1. SearchWord(T[k], (start + (k + 1) - 1) % Size, min) \in SearchStates
      BY <2>2, <2>4, TurnCases DEF V
    <3>2. QED BY <2>3, <3>1 DEF V
  <2>6. QED BY <2>1, <2>5
<1>13. \A k \in 0 .. N : k \in S
  <2> HIDE DEF S, N
  <2>1. QED BY <1>1, <1>11, <1>12, IntervalInduction
<1>14. T = [k \in 0 .. N |-> T[k]]
  <2>1. T = [k \in 0 .. N |-> body(T)[k]]
    <3> HIDE DEF T
    <3>1. QED BY <1>7 DEF body
  <2> HIDE DEF T, body
  <2>2. QED BY <1>8, <2>1
<1>15. T \in [0 .. N -> V]
  <2> HIDE DEF T, V, N
  <2>1. \A k \in 0 .. N : T[k] \in V
    BY <1>13
  <2>2. QED BY <1>14, <2>1
<1>16. QED BY <1>9, <1>10, <1>15

-----------------------------------------------------------------------------
(* The search for copper lists: what its state says of the words it has read. *)

\* Word i of a search from start.
Ahead(start, i) == chip.mem[(start + i) % Size]

\* From word a of the search on, n moves to different colours stand, those in
\* the set cols.
MovesRead(start, a, n, cols) ==
  /\ \A i \in 0 .. n - 1 :
       Ahead(start, a + 2 * i) \in Colours /\ Ahead(start, a + 2 * i + 1) # Junk
  /\ \A i, j \in 0 .. n - 1 : Ahead(start, a + 2 * i) = Ahead(start, a + 2 * j) => i = j
  /\ cols = {Ahead(start, a + 2 * i) : i \in 0 .. n - 1}

\* After k words: the words from a up to e are the moves that were found, and
\* the first word of one more if its colour is still to come.
Scanned(start, min, s, k) ==
  \E a, e \in 0 .. k :
    /\ e = a + 2 * s.found + (IF s.move THEN 0 ELSE 1)
    /\ s.found # min => e = k
    /\ s.found > 0 \/ ~s.move => s.at = (start + a) % Size
    /\ MovesRead(start, a, s.found, s.colpal)
    /\ ~s.move => s.idx = Ahead(start, e - 1) /\ s.idx \in Colours \ s.colpal

LEMMA ReadNone ==
  ASSUME NEW start, NEW a PROVE MovesRead(start, a, 0, {})
  BY DEF MovesRead

LEMMA ReadMore ==
  ASSUME NEW start, NEW a \in Int, NEW n \in Nat, NEW cols, MovesRead(start, a, n, cols),
         Ahead(start, a + 2 * n) \in Colours \ cols, Ahead(start, a + 2 * n + 1) # Junk
  PROVE  MovesRead(start, a, n + 1, cols \cup {Ahead(start, a + 2 * n)})
<1> DEFINE first(i) == Ahead(start, a + 2 * i)
           second(i) == Ahead(start, a + 2 * i + 1)
<1>1. /\ \A i \in 0 .. n - 1 : first(i) \in Colours /\ second(i) # Junk
      /\ \A i, j \in 0 .. n - 1 : first(i) = first(j) => i = j
      /\ cols = {first(i) : i \in 0 .. n - 1}
  BY DEF MovesRead
<1>2. first(n) \in Colours \ cols /\ second(n) # Junk
  OBVIOUS
<1> HIDE DEF first, second
<1>3. /\ \A i \in 0 .. (n + 1) - 1 : i \in 0 .. n - 1 \/ i = n
      /\ \A i \in 0 .. n - 1 : i \in 0 .. (n + 1) - 1
      /\ n \in 0 .. (n + 1) - 1
  OBVIOUS
<1>4. \A i \in 0 .. (n + 1) - 1 : first(i) \in Colours /\ second(i) # Junk
  BY <1>1, <1>2, <1>3, Zenon
<1>5. \A i \in 0 .. n - 1 : first(i) # first(n)
  BY <1>1, <1>2, Zenon
<1>6. \A i, j \in 0 .. (n + 1) - 1 : first(i) = first(j) => i = j
  BY <1>1, <1>3, <1>5, Zenon
<1>7. cols \cup {first(n)} = {first(i) : i \in 0 .. (n + 1) - 1}
  BY <1>1, <1>3, Zenon
<1>8. QED BY <1>4, <1>6, <1>7 DEF MovesRead, first, second

LEMMA ScannedStep ==
  ASSUME chip \in Chips, NEW start \in 0 .. Size - 1, NEW min \in Nat,
         NEW k \in Nat, NEW s \in SearchStates, Scanned(start, min, s, k)
  PROVE  Scanned(start, min, SearchWord(s, (start + k) % Size, min), k + 1)
<1> DEFINE p == (start + k) % Size
           t == SearchWord(s, p, min)
<1>1. p \in 0 .. Size - 1 /\ chip.mem[p] = Ahead(start, k)
  <2>1. start + k \in Int
    BY ChipWords
  <2>2. QED BY <2>1, PlaceInMemory DEF Ahead
<1>2. /\ s.move \in BOOLEAN /\ s.found \in Nat /\ s.idx \in Colours
  BY DEF SearchStates
<1>3. PICK a \in 0 .. k, e \in 0 .. k :
        /\ e = a + 2 * s.found + (IF s.move THEN 0 ELSE 1)
        /\ s.found # min => e = k
        /\ s.found > 0 \/ ~s.move => s.at = (start + a) % Size
        /\ MovesRead(start, a, s.found, s.colpal)
        /\ ~s.move => s.idx = Ahead(start, e - 1) /\ s.idx \in Colours \ s.colpal
  BY DEF Scanned
<1> SUFFICES Scanned(start, min, t, k + 1)
  OBVIOUS
<1>p. p = (start + k) % Size
  OBVIOUS
<1> HIDE DEF p
<1>4. a \in 0 .. k + 1 /\ e \in 0 .. k + 1 /\ k + 1 \in 0 .. k + 1 /\ a \in Int /\ e \in Int
  OBVIOUS
<1>5. CASE s.found = min
  <2>1. t = s
    BY <1>5 DEF SearchWord
  <2>2. Scanned(start, min, s, k + 1)
    BY <1>3, <1>4, <1>5 DEF Scanned
  <2> HIDE DEF t
  <2>3. QED BY <2>1, <2>2
<1>6. CASE s.found # min /\ t.move = TRUE /\ t.found = 0 /\ t.colpal = {}
  <2> HIDE DEF t
  <2>1. k + 1 = (k + 1) + 2 * t.found + (IF t.move THEN 0 ELSE 1)
    BY <1>6
  <2>2. MovesRead(start, k + 1, t.found, t.colpal)
    BY <1>6, ReadNone
  <2>3. Scanned(start, min, t, k + 1)
    BY <1>4, <1>6, <2>1, <2>2 DEF Scanned
  <2>4. QED BY <2>3
<1>7. CASE s.found # min /\ s.move /\ chip.mem[p] \in Colours \ s.colpal
  <2>1. /\ t.move = FALSE /\ t.found = s.found /\ t.colpal = s.colpal
        /\ t.idx = chip.mem[p] /\ t.at = IF s.found = 0 THEN p ELSE s.at
    BY <1>1, <1>7, TurnCases
  <2> HIDE DEF t
  <2>2. /\ e = k /\ e = a + 2 * s.found /\ (s.found = 0 => a = k)
    BY <1>2, <1>3, <1>4, <1>7
  <2>3. k + 1 = a + 2 * t.found + (IF t.move THEN 0 ELSE 1)
    BY <1>2, <2>1, <2>2
  <2>4. t.at = (start + a) % Size
    <3>1. CASE s.found = 0
      BY <1>p, <2>1, <2>2, <3>1
    <3>2. CASE s.found # 0
      BY <1>2, <1>3, <2>1, <3>2
    <3>3. QED BY <3>1, <3>2
  <2>5. t.idx = Ahead(start, (k + 1) - 1) /\ t.idx \in Colours \ t.colpal
    BY <1>1, <1>7, <2>1
  <2>6. MovesRead(start, a, t.found, t.colpal)
    BY <1>3, <2>1
  <2>7. Scanned(start, min, t, k + 1)
    BY <1>4, <2>3, <2>4, <2>5, <2>6 DEF Scanned
  <2>8. QED BY <2>7
<1>8. CASE s.found # min /\ ~s.move /\ chip.mem[p] # Junk
  <2>1. /\ t.move = TRUE /\ t.found = s.found + 1
        /\ t.colpal = s.colpal \cup {s.idx} /\ t.at = s.at
    BY <1>1, <1>8, TurnCases
  <2> HIDE DEF t
  <2>2. e = k /\ e = a + 2 * s.found + 1
    BY <1>3, <1>8
  <2>3. e - 1 = a + 2 * s.found /\ k = a + 2 * s.found + 1
    BY <1>2, <1>4, <2>2
  <2>4. s.idx = Ahead(start, a + 2 * s.found) /\ s.idx \in Colours \ s.colpal
    BY <1>3, <1>8, <2>3
  <2>5. Ahead(start, a + 2 * s.found + 1) # Junk
    BY <1>1, <1>8, <2>3
  <2>6. MovesRead(start, a, s.found + 1, s.colpal \cup {s.idx})
    <3>1. MovesRead(start, a, s.found + 1, s.colpal \cup {Ahead(start, a + 2 * s.found)})
      <4> DEFINE n == s.found
                 cols == s.colpal
      <4>1. /\ n \in Nat /\ MovesRead(start, a, n, cols)
            /\ Ahead(start, a + 2 * n) \in Colours \ cols
            /\ Ahead(start, a + 2 * n + 1) # Junk
        BY <1>2, <1>3, <2>4, <2>5
      <4> HIDE DEF n, cols
      <4>2. MovesRead(start, a, n + 1, cols \cup {Ahead(start, a + 2 * n)})
        BY <1>4, <4>1, ReadMore
      <4>3. QED BY <4>2 DEF n, cols
    <3>2. QED BY <2>4, <3>1
  <2>7. k + 1 = a + 2 * t.found + (IF t.move THEN 0 ELSE 1)
    BY <1>2, <2>1, <2>3
  <2>8. t.at = (start + a) % Size
    BY <1>3, <1>8, <2>1
  <2>9. MovesRead(start, a, t.found, t.colpal)
    BY <2>1, <2>6
  <2>10. Scanned(start, min, t, k + 1)
    BY <1>4, <2>1, <2>7, <2>8, <2>9 DEF Scanned
  <2>11. QED BY <2>10
<1>9. CASE s.found # min /\ s.move /\ chip.mem[p] \notin Colours \ s.colpal
  <2>1. t.move = TRUE /\ t.found = 0 /\ t.colpal = {}
    <3>1. t = [s EXCEPT !.move = TRUE, !.found = 0, !.colpal = {}]
      BY <1>9 DEF SearchWord
    <3> HIDE DEF t
    <3>2. QED BY <3>1 DEF SearchStates
  <2>2. QED BY <1>6, <1>9, <2>1
<1>10. CASE s.found # min /\ ~s.move /\ chip.mem[p] = Junk
  <2>1. t.move = TRUE /\ t.found = 0 /\ t.colpal = {}
    BY <1>1, <1>10, TurnCases
  <2>2. QED BY <1>6, <1>10, <2>1
<1>11. QED BY <1>5, <1>7, <1>8, <1>9, <1>10, Zenon

\* Every state of a search.
LEMMA TurnsScanned ==
  ASSUME chip \in Chips, NEW start \in 0 .. Size - 1, NEW min \in Nat
  PROVE  \A k \in 0 .. Size : Scanned(start, min, Turns(start, min)[k], k)
<1> DEFINE T == Turns(start, min)
           N == Size
           S == {k \in 0 .. N : Scanned(start, min, T[k], k)}
<1>1. N \in Nat
  BY ChipWords
<1>2. 0 \in S
  <2>1. T[0] = FirstTurn(start)
    BY TurnsDefined
  <2> HIDE DEF T
  <2>2. /\ T[0].move = TRUE /\ T[0].found = 0 /\ T[0].colpal = {}
    BY <2>1 DEF FirstTurn
  <2>3. MovesRead(start, 0, T[0].found, T[0].colpal)
    BY <2>2, ReadNone
  <2>4. 0 \in 0 .. 0 /\ 0 = 0 + 2 * T[0].found + (IF T[0].move THEN 0 ELSE 1)
    BY <2>2
  <2>5. Scanned(start, min, T[0], 0)
    BY <2>2, <2>3, <2>4 DEF Scanned
  <2>6. 0 \in 0 .. N
    BY <1>1
  <2>7. QED BY <2>5, <2>6
<1>3. ASSUME NEW k \in 0 .. (N - 1), k \in S PROVE k + 1 \in S
  <2>1. /\ k \in Nat /\ k \in 0 .. N /\ k + 1 \in 1 .. N /\ (k + 1) - 1 = k
        /\ k + 1 \in 0 .. N /\ start + (k + 1) - 1 = start + k
    BY <1>1
  <2>2. T[k + 1] = SearchWord(T[(k + 1) - 1], (start + (k + 1) - 1) % Size, min)
    BY <2>1, TurnsDefined
  <2>3. T[k] \in SearchStates
    BY <2>1, TurnsDefined
  <2> HIDE DEF T
  <2>4. T[k + 1] = SearchWord(T[k], (start + k) % Size, min)
    BY <2>1, <2>2
  <2>5. Scanned(start, min, T[k], k)
    BY <1>3
  <2>6. Scanned(start, min, T[k + 1], k + 1)
    BY <2>1, <2>3, <2>4, <2>5, ScannedStep
  <2>7. QED BY <2>1, <2>6
<1>4. \A k \in 0 .. N : k \in S
  <2> HIDE DEF S, N
  <2>1. QED BY <1>1, <1>2, <1>3, IntervalInduction
<1>5. QED BY <1>4

-----------------------------------------------------------------------------
(* The search for copper lists: its result. *)

LEMMA Shifted ==
  ASSUME NEW m \in Nat \ {0}, NEW a \in Int, NEW i \in Int
  PROVE  ((a % m) + i) % m = (a + i) % m
<1> DEFINE q == a \div m
           r == a % m
           y == r + i
           s == y \div m
           t == y % m
           z == a + i
           u == z \div m
           v == z % m
<1>1. a = m * q + r /\ r \in 0 .. m - 1 /\ q \in Int
  BY Division
<1> HIDE DEF q, r
<1>2. y \in Int /\ z \in Int /\ z = m * q + y
  BY <1>1
<1> HIDE DEF y, z
<1>3. y = m * s + t /\ t \in 0 .. m - 1 /\ s \in Int
  BY <1>2, Division
<1>4. z = m * u + v /\ v \in 0 .. m - 1 /\ u \in Int
  BY <1>2, Division
<1> HIDE DEF s, t, u, v
<1>5. m * (q + s) = m * q + m * s /\ q + s \in Int /\ m * q \in Int /\ m * s \in Int
      /\ m * u \in Int
  BY <1>1, <1>3, <1>4, SMT
<1>6. m * (q + s) + t = m * u + v
  BY <1>2, <1>3, <1>4, <1>5
<1>7. t = v
  BY <1>3, <1>4, <1>5, <1>6, SameRemainder
<1>8. QED BY <1>7 DEF t, v, y, z, r

\* A word and how far behind the start it is.
LEMMA Distance ==
  ASSUME NEW m \in Nat \ {0}, NEW start \in 0 .. m - 1
  PROVE  /\ \A a \in 0 .. m - 1 : (((start + a) % m) - start) % m = a
         /\ \A p \in 0 .. m - 1 : /\ (p - start) % m \in 0 .. m - 1
                                  /\ (start + ((p - start) % m)) % m = p
<1>1. ASSUME NEW a \in 0 .. m - 1 PROVE (((start + a) % m) - start) % m = a
  <2>1. (((a + start) % m) - start) % m = a /\ a + start = start + a
    BY WrapBack
  <2>2. QED BY <2>1
<1>2. ASSUME NEW p \in 0 .. m - 1
      PROVE  (p - start) % m \in 0 .. m - 1 /\ (start + ((p - start) % m)) % m = p
  <2> DEFINE d == -start
             b == (p - start) % m
  <2>1. d \in Int /\ p + d = p - start /\ p - start \in Int
    OBVIOUS
  <2>2. (((p + d) % m) - d) % m = p
    <3> HIDE DEF d
    <3>1. QED BY <2>1, WrapBack
  <2>3. b \in 0 .. m - 1
    BY <2>1, Division
  <2>4. (b - d) % m = p
    BY <2>1, <2>2
  <2> HIDE DEF b
  <2>5. b - d = start + b
    BY <2>3
  <2>6. QED BY <2>3, <2>4, <2>5 DEF b
<1>3. QED BY <1>1, <1>2

LEMMA WordAhead ==
  ASSUME chip \in Chips, NEW start \in 0 .. Size - 1, NEW a \in Int, NEW i \in Int
  PROVE  chip.mem[(((start + a) % Size) + i) % Size] = Ahead(start, a + i)
<1> DEFINE m == Size
           x == start + a
<1>1. m \in Nat \ {0} /\ x \in Int /\ x + i = start + (a + i)
  BY ChipWords
<1> HIDE DEF m, x
<1>2. ((x % m) + i) % m = (x + i) % m
  BY <1>1, Shifted
<1>3. QED BY <1>1, <1>2 DEF Ahead, m, x

\* ListAt() in terms of the words a search reads.
LEMMA ListAhead ==
  ASSUME chip \in Chips, NEW start \in 0 .. Size - 1, NEW a \in Int, NEW n \in Nat
  PROVE  ListAt((start + a) % Size, n) <=>
           /\ \A i \in 0 .. n - 1 :
                Ahead(start, a + 2 * i) \in Colours /\ Ahead(start, a + 2 * i + 1) # Junk
           /\ \A i, j \in 0 .. n - 1 : Ahead(start, a + 2 * i) = Ahead(start, a + 2 * j) => i = j
<1> DEFINE p == (start + a) % Size
           word(k) == chip.mem[(p + k) % Size]
<1>1. \A k \in 0 .. n - 1 : word(2 * k) = Ahead(start, a + 2 * k)
  <2> TAKE k \in 0 .. n - 1
  <2> DEFINE i == 2 * k
  <2>1. i \in Int
    OBVIOUS
  <2> HIDE DEF i
  <2>2. chip.mem[(((start + a) % Size) + i) % Size] = Ahead(start, a + i)
    BY <2>1, WordAhead
  <2>3. QED BY <2>2 DEF i
<1>2. \A k \in 0 .. n - 1 : word(2 * k + 1) = Ahead(start, a + 2 * k + 1)
  <2> TAKE k \in 0 .. n - 1
  <2> DEFINE i == 2 * k + 1
  <2>1. i \in Int /\ a + i = a + 2 * k + 1
    OBVIOUS
  <2> HIDE DEF i
  <2>2. chip.mem[(((start + a) % Size) + i) % Size] = Ahead(start, a + i)
    BY <2>1, WordAhead
  <2>3. QED BY <2>1, <2>2 DEF i
<1>3. ListAt(p, n) <=>
        /\ \A k \in 0 .. n - 1 : word(2 * k) \in Colours /\ word(2 * k + 1) # Junk
        /\ \A j, k \in 0 .. n - 1 : word(2 * j) = word(2 * k) => j = k
  BY DEF ListAt
<1> HIDE DEF word, p
<1>4. ListAt(p, n) <=>
        /\ \A i \in 0 .. n - 1 :
             Ahead(start, a + 2 * i) \in Colours /\ Ahead(start, a + 2 * i + 1) # Junk
        /\ \A i, j \in 0 .. n - 1 : Ahead(start, a + 2 * i) = Ahead(start, a + 2 * j) => i = j
  BY <1>1, <1>2, <1>3, Zenon
<1>5. QED BY <1>4 DEF p

\* Once all that was asked for is found, the search has ended.
LEMMA Frozen ==
  ASSUME chip \in Chips, NEW start \in 0 .. Size - 1, NEW min \in Nat,
         NEW k \in 0 .. Size, Turns(start, min)[k].found = min
  PROVE  Search(start, min) = Turns(start, min)[k]
<1> DEFINE T == Turns(start, min)
           N == Size
           S == {i \in k .. N : T[i] = T[k]}
<1>1. N \in Nat /\ k \in Nat
  BY ChipWords
<1>2. k \in S
  BY <1>1
<1>3. ASSUME NEW i \in k .. (N - 1), i \in S PROVE i + 1 \in S
  <2>1. i + 1 \in 1 .. N /\ (i + 1) - 1 = i /\ i + 1 \in k .. N /\ i \in 0 .. N
        /\ start + (i + 1) - 1 \in Int
    BY <1>1
  <2>2. T[i + 1] = SearchWord(T[(i + 1) - 1], (start + (i + 1) - 1) % Size, min)
    BY <2>1, TurnsDefined
  <2>3. (start + (i + 1) - 1) % Size \in 0 .. Size - 1
    BY <2>1, PlaceInMemory
  <2>5. T[i] = T[k] /\ T[k].found = min
    BY <1>3
  <2> HIDE DEF T
  <2>6. T[i + 1] = T[i]
    BY <2>1, <2>2, <2>5 DEF SearchWord
  <2>7. QED BY <2>1, <2>5, <2>6
<1>4. \A i \in k .. N : i \in S
  <2> HIDE DEF S, N
  <2>1. QED BY <1>1, <1>2, <1>3, IntervalInduction
<1>5. N \in k .. N
  BY <1>1
<1> HIDE DEF T
<1>6. T[N] = T[k]
  BY <1>4, <1>5
<1>7. QED BY <1>6 DEF Search, T

\* Where the search says a list stands, one does.
LEMMA SearchFinds ==
  ASSUME chip \in Chips, NEW start \in 0 .. Size - 1, NEW min \in Nat \ {0},
         Search(start, min).found = min
  PROVE  ListAt(Search(start, min).at, min) /\ Search(start, min).at \in 0 .. Size - 1
<1> DEFINE s == Search(start, min)
<1>1. Size \in 0 .. Size /\ Size \in Nat
  BY ChipWords
<1>2. s \in SearchStates /\ Scanned(start, min, s, Size)
  BY <1>1, TurnsDefined, TurnsScanned DEF Search
<1>3. s.found = min
  OBVIOUS
<1> HIDE DEF s
<1>4. PICK a \in 0 .. Size :
        /\ s.found > 0 \/ ~s.move => s.at = (start + a) % Size
        /\ MovesRead(start, a, s.found, s.colpal)
  BY <1>2 DEF Scanned
<1>5. s.at = (start + a) % Size
  BY <1>3, <1>4
<1>6. MovesRead(start, a, min, s.colpal) /\ a \in Int
  BY <1>3, <1>4
<1>7. ListAt((start + a) % Size, min)
  BY <1>6, ListAhead DEF MovesRead
<1>8. QED BY <1>2, <1>5, <1>7 DEF s, SearchStates

\* In front of a list: no move begun, no colour seen.
Waits(s) == s.move = TRUE /\ s.found = 0 /\ s.colpal = {}

\* Where a clear list starts, unless the search has ended it waits for one.
LEMMA WaitsForList ==
  ASSUME chip \in Chips, NEW start \in 0 .. Size - 1, NEW min \in Nat \ {0},
         NEW b \in 0 .. Size - 1,
         \A k \in {1, 2} : k <= b => Ahead(start, b - k) \notin Colours,
         Turns(start, min)[b].found # min
  PROVE  Waits(Turns(start, min)[b])
<1> DEFINE T == Turns(start, min)
<1>1. CASE b = 0
  <2>1. T[b] = FirstTurn(start)
    BY <1>1, TurnsDefined
  <2> HIDE DEF T
  <2>2. Waits(T[b])
    BY <2>1 DEF FirstTurn, Waits
  <2>3. QED BY <2>2 DEF T
<1>2. CASE b # 0
  <2> DEFINE s == T[b - 1]
             p == (start + b - 1) % Size
  <2>1. b \in 1 .. Size /\ b - 1 \in 0 .. Size /\ start + b - 1 \in Int /\ b - 1 \in Nat
        /\ start + b - 1 = start + (b - 1)
    BY <1>2, ChipWords
  <2>2. T[b] = SearchWord(s, p, min)
    BY <2>1, TurnsDefined
  <2>3. s \in SearchStates /\ Scanned(start, min, s, b - 1)
    BY <2>1, TurnsDefined, TurnsScanned
  <2>4. p \in 0 .. Size - 1 /\ chip.mem[p] = Ahead(start, b - 1)
    BY <2>1, PlaceInMemory DEF Ahead
  <2>5. chip.mem[p] \notin Colours
    BY <2>1, <2>4
  <2> HIDE DEF s, p
  <2>6. s.found # min
    <3>1. s.found = min => SearchWord(s, p, min) = s
      BY DEF SearchWord
    <3>2. QED BY <2>2, <3>1
  <2>7. s.move
    <3>1. SUFFICES ASSUME ~s.move PROVE FALSE
      OBVIOUS
    <3>2. PICK a \in 0 .. b - 1, e \in 0 .. b - 1 :
            /\ e = a + 2 * s.found + (IF s.move THEN 0 ELSE 1)
            /\ s.found # min => e = b - 1
            /\ ~s.move => s.idx = Ahead(start, e - 1) /\ s.idx \in Colours \ s.colpal
      BY <2>3 DEF Scanned
    <3>3. e = b - 1 /\ Ahead(start, e - 1) \in Colours
      BY <2>6, <3>1, <3>2
    <3>4. s.found \in Nat /\ a \in Nat /\ e = a + 2 * s.found + 1
      BY <2>3, <3>1, <3>2 DEF SearchStates
    <3>5. 2 <= b /\ e - 1 = b - 2
      BY <3>3, <3>4
    <3>6. Ahead(start, b - 2) \notin Colours
      BY <3>5
    <3>7. QED BY <3>3, <3>5, <3>6
  <2>8. T[b] = [s EXCEPT !.move = TRUE, !.found = 0, !.colpal = {}]
    <3> HIDE DEF T
    <3>1. QED BY <2>2, <2>5, <2>6, <2>7 DEF SearchWord
  <2> HIDE DEF T
  <2>9. Waits(T[b])
    BY <2>3, <2>8 DEF SearchStates, Waits
  <2>10. QED BY <2>9 DEF T
<1>3. QED BY <1>1, <1>2

LEMMA NextTurn ==
  ASSUME chip \in Chips, NEW start \in 0 .. Size - 1, NEW min \in Nat, NEW k \in 0 .. Size - 1
  PROVE  /\ Turns(start, min)[k] \in SearchStates
         /\ Turns(start, min)[k + 1] \in SearchStates
         /\ Turns(start, min)[k + 1] = SearchWord(Turns(start, min)[k], (start + k) % Size, min)
         /\ (start + k) % Size \in 0 .. Size - 1
         /\ chip.mem[(start + k) % Size] = Ahead(start, k)
<1> DEFINE T == Turns(start, min)
<1>1. /\ k \in 0 .. Size /\ k + 1 \in 1 .. Size /\ k + 1 \in 0 .. Size /\ (k + 1) - 1 = k
      /\ start + (k + 1) - 1 = start + k /\ start + k \in Int
  BY ChipWords
<1>2. T[k + 1] = SearchWord(T[(k + 1) - 1], (start + (k + 1) - 1) % Size, min)
  BY <1>1, TurnsDefined
<1>3. T[k] \in SearchStates /\ T[k + 1] \in SearchStates
  BY <1>1, TurnsDefined
<1> HIDE DEF T
<1>4. T[k + 1] = SearchWord(T[k], (start + k) % Size, min)
  BY <1>1, <1>2
<1>5. QED BY <1>1, <1>3, <1>4, PlaceInMemory DEF T, Ahead

LEMMA TakesMove ==
  ASSUME NEW s \in SearchStates, NEW p \in 0 .. Size - 1, NEW min \in Nat,
         s.found # min, s.move = TRUE, chip.mem[p] \in Colours \ s.colpal
  PROVE  LET t == SearchWord(s, p, min)
         IN  /\ t.move = FALSE /\ t.found = s.found /\ t.colpal = s.colpal
             /\ t.idx = chip.mem[p] /\ t.at = IF s.found = 0 THEN p ELSE s.at
  BY TurnCases

LEMMA TakesColour ==
  ASSUME NEW s \in SearchStates, NEW p \in 0 .. Size - 1, NEW min \in Nat,
         s.found # min, s.move = FALSE, chip.mem[p] # Junk
  PROVE  LET t == SearchWord(s, p, min)
         IN  /\ t.move = TRUE /\ t.found = s.found + 1
             /\ t.colpal = s.colpal \cup {s.idx} /\ t.at = s.at
  BY TurnCases

EntryTaken(s, p, u) ==
  /\ u.move = TRUE /\ u.found = s.found + 1 /\ u.colpal = s.colpal \cup {chip.mem[p]}
  /\ u.at = IF s.found = 0 THEN p ELSE s.at

\* A move of a new register is read in two turns.
LEMMA TakesEntry ==
  ASSUME NEW s \in SearchStates, NEW p \in 0 .. Size - 1, NEW q \in 0 .. Size - 1,
         NEW min \in Nat, s.found # min, s.move = TRUE,
         chip.mem[p] \in Colours \ s.colpal, chip.mem[q] # Junk
  PROVE  EntryTaken(s, p, SearchWord(SearchWord(s, p, min), q, min))
<1> DEFINE t == SearchWord(s, p, min)
           u == SearchWord(t, q, min)
<1>1. /\ t.move = FALSE /\ t.found = s.found /\ t.colpal = s.colpal
      /\ t.idx = chip.mem[p] /\ t.at = IF s.found = 0 THEN p ELSE s.at
  BY TakesMove
<1>2. t \in SearchStates
  BY TurnCases
<1> HIDE DEF t
<1>3. t.found # min /\ t.move = FALSE
  BY <1>1
<1>4. /\ u.move = TRUE /\ u.found = t.found + 1
      /\ u.colpal = t.colpal \cup {t.idx} /\ u.at = t.at
  BY <1>2, <1>3, TakesColour
<1> HIDE DEF u
<1>5. /\ u.move = TRUE /\ u.found = s.found + 1
      /\ u.colpal = s.colpal \cup {chip.mem[p]}
      /\ u.at = IF s.found = 0 THEN p ELSE s.at
  BY <1>1, <1>4
<1>6. QED BY <1>5 DEF t, u, EntryTaken

\* A search that waits for a list where one starts finds that list.
LEMMA ReadsList ==
  ASSUME chip \in Chips, NEW start \in 0 .. Size - 1, NEW min \in Nat \ {0},
         NEW b \in 0 .. Size - 1, b + 2 * min <= Size,
         ListAt((start + b) % Size, min),
         Waits(Turns(start, min)[b])
  PROVE  Search(start, min).found = min /\ Search(start, min).at = (start + b) % Size
<1> DEFINE T == Turns(start, min)
           word(i) == Ahead(start, b + 2 * i)
           Seen(n) == {word(j) : j \in 0 .. n - 1}
           Read(s, n) == /\ s.move = TRUE /\ s.found = n /\ s.colpal = Seen(n)
                         /\ n > 0 => s.at = (start + b) % Size
           S == {n \in 0 .. min : Read(T[b + 2 * n], n)}
<1>1. /\ \A i \in 0 .. min - 1 : word(i) \in Colours /\ Ahead(start, b + 2 * i + 1) # Junk
      /\ \A i, j \in 0 .. min - 1 : word(i) = word(j) => i = j
  <2>1. b \in Int /\ min \in Nat
    OBVIOUS
  <2>2. QED BY <2>1, ListAhead
<1>2. 0 \in S
  <2>1. Seen(0) = {} /\ b + 2 * 0 = b /\ 0 \in 0 .. min
    OBVIOUS
  <2> HIDE DEF T, Seen
  <2>2. T[b].move = TRUE /\ T[b].found = 0 /\ T[b].colpal = {}
    BY DEF T, Waits
  <2>3. ~(0 > 0)
    OBVIOUS
  <2>4. Read(T[b], 0)
    BY <2>1, <2>2, <2>3, Zenon
  <2>5. T[b + 2 * 0] = T[b]
    BY <2>1
  <2> HIDE DEF Read
  <2>6. Read(T[b + 2 * 0], 0)
    BY <2>4, <2>5
  <2>7. QED BY <2>1, <2>6
<1>3. ASSUME NEW n \in 0 .. (min - 1), n \in S PROVE n + 1 \in S
  <2> DEFINE k == b + 2 * n
             s == T[k]
             t == T[k + 1]
             u == T[k + 2]
             p == (start + k) % Size
             q == (start + (k + 1)) % Size
  <2>1. /\ k \in 0 .. Size - 1 /\ k + 1 \in 0 .. Size - 1 /\ (k + 1) + 1 = k + 2
        /\ b + 2 * (n + 1) = k + 2 /\ n + 1 \in 0 .. min /\ n \in 0 .. min - 1
        /\ n # min /\ n + 1 > 0 /\ n \in Nat /\ (n > 0 \/ n = 0)
    <3>1. Size \in Nat
      BY ChipWords
    <3>2. QED BY <3>1
  <2>2. Read(s, n)
    BY <1>3
  <2> HIDE DEF S, k
  <2>3. /\ s \in SearchStates /\ t = SearchWord(s, p, min) /\ p \in 0 .. Size - 1
        /\ chip.mem[p] = Ahead(start, k) /\ t \in SearchStates
    BY <2>1, NextTurn
  <2>4. /\ u = SearchWord(t, q, min) /\ q \in 0 .. Size - 1
        /\ chip.mem[q] = Ahead(start, k + 1)
    <3> DEFINE j == k + 1
    <3>1. j \in 0 .. Size - 1 /\ j + 1 = k + 2
      BY <2>1
    <3> HIDE DEF j
    <3>2. /\ T[j + 1] = SearchWord(T[j], (start + j) % Size, min)
          /\ (start + j) % Size \in 0 .. Size - 1
          /\ chip.mem[(start + j) % Size] = Ahead(start, j)
      BY <3>1, NextTurn
    <3>3. QED BY <3>1, <3>2 DEF j
  <2>5. chip.mem[p] = word(n) /\ chip.mem[q] # Junk
    <3>1. Ahead(start, k) = word(n) /\ Ahead(start, k + 1) = Ahead(start, b + 2 * n + 1)
      BY DEF k
    <3>2. QED BY <1>1, <2>1, <2>3, <2>4, <3>1
  <2>6. p = (start + b) % Size \/ n # 0
    <3>1. n = 0 => k = b
      BY DEF k
    <3>2. QED BY <3>1
  <2> HIDE DEF T, s, t, u, p, q, word
  <2>7. word(n) \in Colours \ Seen(n)
    <3>1. word(n) \in Colours
      BY <1>1, <2>1
    <3>2. \A j \in 0 .. n - 1 : j \in 0 .. min - 1 /\ j # n
      OBVIOUS
    <3>3. \A j \in 0 .. n - 1 : word(j) # word(n)
      BY <1>1, <2>1, <3>2, Zenon
    <3>4. QED BY <3>1, <3>3, Zenon
  <2>8. s.found = n /\ s.move = TRUE /\ s.colpal = Seen(n) /\ (n > 0 => s.at = (start + b) % Size)
    BY <2>2, Zenon
  <2>9. Seen(n + 1) = Seen(n) \cup {word(n)}
    <3>1. \A j \in 0 .. (n + 1) - 1 : j \in 0 .. n - 1 \/ j = n
      OBVIOUS
    <3>2. \A j \in 0 .. n - 1 : j \in 0 .. (n + 1) - 1
      OBVIOUS
    <3>3. n \in 0 .. (n + 1) - 1
      OBVIOUS
    <3>4. QED BY <3>1, <3>2, <3>3, Zenon
  <2> HIDE DEF Seen
  <2>10. s.found # min /\ s.move = TRUE /\ chip.mem[p] \in Colours \ s.colpal /\ min \in Nat
         /\ chip.mem[q] # Junk
    BY <2>1, <2>5, <2>7, <2>8
  <2>11. /\ u.move = TRUE /\ u.found = n + 1 /\ u.colpal = Seen(n) \cup {word(n)}
         /\ u.at = IF n = 0 THEN p ELSE s.at
    <3>1. s \in SearchStates /\ p \in 0 .. Size - 1 /\ q \in 0 .. Size - 1
      BY <2>3, <2>4
    <3>2. EntryTaken(s, p, SearchWord(SearchWord(s, p, min), q, min))
      BY <2>10, <3>1, TakesEntry
    <3>3. EntryTaken(s, p, u)
      BY <2>3, <2>4, <3>2
    <3>4. QED BY <2>5, <2>8, <3>3 DEF EntryTaken
  <2>12. u.at = (start + b) % Size
    BY <2>1, <2>6, <2>8, <2>11
  <2>13. Read(u, n + 1)
    BY <2>1, <2>9, <2>11, <2>12
  <2>14. QED BY <2>1, <2>13 DEF u, S
<1>4. min \in S
  <2>1. min \in Nat /\ min \in 0 .. min
    OBVIOUS
  <2> HIDE DEF S
  <2>2. \A n \in 0 .. min : n \in S
    BY <1>2, <1>3, <2>1, IntervalInduction
  <2>3. QED BY <2>1, <2>2
<1>5. b + 2 * min \in 0 .. Size /\ min > 0
  BY ChipWords
<1>6. T[b + 2 * min].found = min /\ T[b + 2 * min].at = (start + b) % Size
  BY <1>4, <1>5
<1> DEFINE k == b + 2 * min
<1> HIDE DEF k
<1>7. k \in 0 .. Size /\ T[k].found = min /\ T[k].at = (start + b) % Size
  BY <1>5, <1>6 DEF k
<1>8. Search(start, min) = T[k]
  BY <1>7, Frozen
<1> HIDE DEF T
<1>9. QED BY <1>7, <1>8

\* A list that the search cannot mistake is found, or one in front of it.
LEMMA SearchMissesNone ==
  ASSUME chip \in Chips, NEW start \in 0 .. Size - 1, NEW min \in Nat \ {0},
         NEW p \in 0 .. Size - 1, ListAt(p, min), ((p - start) % Size) + 2 * min <= Size,
         \A k \in {1, 2} : k <= (p - start) % Size => chip.mem[(p - k) % Size] \notin Colours
  PROVE  /\ Search(start, min).found = min
         /\ (Search(start, min).at - start) % Size <= (p - start) % Size
<1> DEFINE m == Size
           b == (p - start) % m
           T == Turns(start, min)
<1>1. /\ m \in Nat \ {0} /\ b \in 0 .. m - 1 /\ (start + b) % m = p
      /\ \A a \in 0 .. m - 1 : (((start + a) % m) - start) % m = a
  <2>1. m \in Nat \ {0}
    BY ChipWords
  <2>2. start \in 0 .. m - 1 /\ p \in 0 .. m - 1
    OBVIOUS
  <2> HIDE DEF m
  <2>3. \A a \in 0 .. m - 1 : (((start + a) % m) - start) % m = a
    BY <2>1, <2>2, Distance
  <2>4. \A x \in 0 .. m - 1 :
          (x - start) % m \in 0 .. m - 1 /\ (start + ((x - start) % m)) % m = x
    BY <2>1, <2>2, Distance
  <2>5. (p - start) % m \in 0 .. m - 1 /\ (start + ((p - start) % m)) % m = p
    BY <2>2, <2>4
  <2>6. QED BY <2>1, <2>3, <2>5
<1>2. b + 2 * min <= m
  OBVIOUS
<1>3. \A k \in {1, 2} : k <= b => Ahead(start, b - k) \notin Colours
  <2>1. ASSUME NEW k \in {1, 2}, k <= b PROVE Ahead(start, b - k) \notin Colours
    <3>1. chip.mem[(p - k) % m] \notin Colours
      BY <2>1
    <3> DEFINE i == -k
    <3>2. i \in Int /\ b \in Int /\ p + i = p - k /\ b + i = b - k
      BY <1>1
    <3> HIDE DEF i
    <3>3. chip.mem[(((start + b) % Size) + i) % Size] = Ahead(start, b + i)
      <4> HIDE DEF b
      <4>1. QED BY <3>2, WordAhead
    <3>4. QED BY <1>1, <3>1, <3>2, <3>3
  <2>2. QED BY <2>1
<1>4. b \in 0 .. Size - 1 /\ b \in 0 .. Size /\ b + 2 * min <= Size
  BY <1>1, <1>2
<1> HIDE DEF b
<1>5. CASE T[b].found = min
  <2>1. Search(start, min) = T[b]
    BY <1>4, <1>5, Frozen
  <2>2. Scanned(start, min, T[b], b) /\ T[b] \in SearchStates
    BY <1>4, TurnsScanned, TurnsDefined
  <2> DEFINE s == T[b]
  <2> HIDE DEF T, s
  <2>3. PICK a \in 0 .. b, e \in 0 .. b :
          /\ s.found > 0 \/ ~s.move => s.at = (start + a) % Size
    BY <2>2 DEF Scanned, s
  <2>4. s.at = (start + a) % Size /\ s.found = min
    BY <1>5, <2>3 DEF s
  <2>5. a \in 0 .. m - 1 /\ a <= b
    BY <1>1
  <2>6. (s.at - start) % m = a
    BY <1>1, <2>4, <2>5
  <2>7. QED BY <2>1, <2>4, <2>5, <2>6 DEF b, s
<1>6. CASE T[b].found # min
  <2>1. Waits(T[b])
    BY <1>3, <1>4, <1>6, WaitsForList
  <2>2. ListAt((start + b) % Size, min)
    BY <1>1
  <2>3. Search(start, min).found = min /\ Search(start, min).at = (start + b) % Size
    BY <1>4, <2>1, <2>2, ReadsList
  <2>4. (((start + b) % m) - start) % m = b
    BY <1>1
  <2>5. QED BY <1>4, <2>3, <2>4 DEF b
<1>7. QED BY <1>5, <1>6

-----------------------------------------------------------------------------
(* The palette that is loaded from a list. *)

\* Every colour but black comes from one of the first n moves at p.
LoadedFrom(p, n, pal) ==
  \A c \in Colours : pal[c] # Black =>
    \E k \in 0 .. n - 1 :
      LET q == (p + 2 * k) % Size IN chip.mem[q] = c /\ chip.mem[q + 1] = pal[c]

LoadOne(p, n, pal) ==
  LET at  == (p + 2 * (n - 1)) % Size
      reg == chip.mem[at]
      rgb == chip.mem[at + 1]
  IN  IF reg \in Colours /\ rgb # Junk THEN [pal EXCEPT ![reg] = rgb] ELSE pal

LEMMA LoadOneTyped ==
  ASSUME chip \in Chips, NEW p \in 0 .. Size - 1, NEW n \in Nat \ {0},
         NEW pal \in [Colours -> Words]
  PROVE  /\ LoadOne(p, n, pal) \in [Colours -> Words]
         /\ LoadedFrom(p, n - 1, pal) => LoadedFrom(p, n, LoadOne(p, n, pal))
<1> DEFINE at == (p + 2 * (n - 1)) % Size
           reg == chip.mem[at]
           rgb == chip.mem[at + 1]
           new == LoadOne(p, n, pal)
<1>1. at \in 0 .. Size - 1
  <2>1. p + 2 * (n - 1) \in Int
    BY ChipWords
  <2>2. QED BY <2>1, PlaceInMemory
<1>2. rgb \in Words
  BY <1>1, ChipWords
<1>3. new = IF reg \in Colours /\ rgb # Junk THEN [pal EXCEPT ![reg] = rgb] ELSE pal
  BY DEF LoadOne
<1>4. n - 1 \in 0 .. n - 1 /\ \A k \in 0 .. (n - 1) - 1 : k \in 0 .. n - 1
  OBVIOUS
<1>5. reg = chip.mem[(p + 2 * (n - 1)) % Size] /\ rgb = chip.mem[((p + 2 * (n - 1)) % Size) + 1]
  OBVIOUS
<1> HIDE DEF at, reg, rgb, new
<1>6. new \in [Colours -> Words]
  BY <1>2, <1>3
<1>7. ASSUME LoadedFrom(p, n - 1, pal) PROVE LoadedFrom(p, n, new)
  <2>1. SUFFICES ASSUME NEW c \in Colours, new[c] # Black
                 PROVE  \E k \in 0 .. n - 1 :
                          LET q == (p + 2 * k) % Size
                          IN  chip.mem[q] = c /\ chip.mem[q + 1] = new[c]
    BY DEF LoadedFrom
  <2>2. CASE c = reg /\ rgb # Junk
    <3>1. new[c] = rgb
      BY <1>3, <2>2
    <3>2. QED BY <1>4, <1>5, <2>2, <3>1
  <2>3. CASE ~(c = reg /\ rgb # Junk)
    <3>1. new[c] = pal[c]
      BY <1>3, <2>3
    <3>2. \E k \in 0 .. (n - 1) - 1 :
            LET q == (p + 2 * k) % Size
            IN  chip.mem[q] = c /\ chip.mem[q + 1] = pal[c]
      BY <1>7, <2>1, <3>1 DEF LoadedFrom
    <3>3. QED BY <1>4, <3>1, <3>2
  <2>4. QED BY <2>2, <2>3
<1>8. QED BY <1>6, <1>7 DEF new

LEMMA LoadsDefined ==
  ASSUME chip \in Chips, NEW p \in 0 .. Size - 1
  PROVE  /\ Loads(p)[0] = [c \in Colours |-> Black]
         /\ \A n \in 1 .. NumColours : Loads(p)[n] = LoadOne(p, n, Loads(p)[n - 1])
<1> DEFINE V == [Colours -> Words]
           N == NumColours
           v0 == [c \in Colours |-> Black]
           step == [x \in V \X (1 .. N) |-> LoadOne(p, x[2], x[1])]
           body(g) == [n \in 0 .. NumColours |->
                         IF n = 0 THEN [c \in Colours |-> Black]
                         ELSE LET at  == (p + 2 * (n - 1)) % Size
                                  reg == chip.mem[at]
                                  rgb == chip.mem[at + 1]
                              IN  IF reg \in Colours /\ rgb # Junk
                                  THEN [g[n - 1] EXCEPT ![reg] = rgb] ELSE g[n - 1]]
           plain(g) == [n \in 0 .. NumColours |->
                          IF n = 0 THEN [c \in Colours |-> Black] ELSE LoadOne(p, n, g[n - 1])]
<1>0. ASSUME NEW g PROVE body(g) = plain(g)
  BY DEF LoadOne
<1>1. N \in Nat /\ v0 \in V /\ step \in [V \X (1 .. N) -> V]
  <2>1. N \in Nat
    BY ScreenAssumption
  <2>2. v0 \in V
    BY DEF Words, Rgbs
  <2>3. ASSUME NEW x \in V \X (1 .. N) PROVE LoadOne(p, x[2], x[1]) \in V
    <3>1. x[1] \in V /\ x[2] \in Nat \ {0}
      BY <2>1
    <3> HIDE DEF N
    <3>2. QED BY <3>1, LoadOneTyped
  <2> HIDE DEF V, v0
  <2>4. step \in [V \X (1 .. N) -> V]
    BY <2>3
  <2>5. QED BY <2>1, <2>2, <2>4
<1>2. PICK g \in [0 .. N -> V] : Computes(g, N, v0, step)
  <2> HIDE DEF V, N, v0, step
  <2>1. QED BY <1>1, Recursion
<1>3. ASSUME NEW n \in 1 .. N PROVE g[n] = LoadOne(p, n, g[n - 1])
  <2>1. n - 1 \in 0 .. N
    BY <1>1
  <2>2. g[n] = step[<<g[n - 1], n>>]
    <3> HIDE DEF step
    <3>1. QED BY <1>2 DEF Computes
  <2>3. <<g[n - 1], n>> \in V \X (1 .. N)
    <3> HIDE DEF V, N
    <3>1. QED BY <2>1
  <2>4. QED
    <3> HIDE DEF V
    <3>1. QED BY <2>2, <2>3
<1>4. g[0] = v0
  <2> HIDE DEF step
  <2>1. QED BY <1>2 DEF Computes
<1>5. g = plain(g)
  <2>1. g = [n \in 0 .. N |-> g[n]]
    OBVIOUS
  <2>2. plain(g) = [n \in 0 .. N |-> plain(g)[n]]
    OBVIOUS
  <2>3. ASSUME NEW n \in 0 .. N PROVE g[n] = plain(g)[n]
    <3>1. CASE n = 0
      BY <3>1, <1>4
    <3>2. CASE n # 0
      <4>1. n \in 1 .. N
        BY <3>2
      <4>2. QED BY <1>3, <3>2, <4>1
    <3>3. QED BY <3>1, <3>2
  <2> HIDE DEF plain
  <2>4. QED BY <2>1, <2>2, <2>3
<1>6. Loads(p) = CHOOSE pal : pal = body(pal)
  BY DEF Loads
<1> DEFINE T == Loads(p)
<1>7. T = body(T)
  <2>1. g = body(g)
    <3> HIDE DEF body, plain
    <3>1. QED BY <1>0, <1>5
  <2> HIDE DEF body
  <2>2. QED BY <1>6, <2>1
<1>8. T = plain(T)
  <2> HIDE DEF body, plain, T
  <2>1. QED BY <1>0, <1>7
<1>9. 0 \in 0 .. N /\ \A n \in 1 .. N : n \in 0 .. N /\ n # 0
  BY <1>1
<1> HIDE DEF T
<1>10. QED BY <1>8, <1>9 DEF T

LEMMA ColoursLoaded ==
  ASSUME chip \in Chips, NEW p \in 0 .. Size - 1
  PROVE  LoadColours(p) \in [Colours -> Words] /\ LoadedFrom(p, NumColours, LoadColours(p))
<1> DEFINE T == Loads(p)
           N == NumColours
           V == [Colours -> Words]
           S == {n \in 0 .. N : T[n] \in V /\ LoadedFrom(p, n, T[n])}
<1>1. N \in Nat
  BY ScreenAssumption
<1>2. 0 \in S
  <2>1. T[0] = [c \in Colours |-> Black]
    BY LoadsDefined
  <2> HIDE DEF T
  <2>2. T[0] \in V
    BY <2>1 DEF Words, Rgbs
  <2>3. LoadedFrom(p, 0, T[0])
    BY <2>1 DEF LoadedFrom
  <2>4. QED BY <1>1, <2>2, <2>3
<1>3. ASSUME NEW n \in 0 .. (N - 1), n \in S PROVE n + 1 \in S
  <2>1. n + 1 \in 1 .. N /\ n + 1 \in 0 .. N /\ (n + 1) - 1 = n /\ n + 1 \in Nat \ {0}
    BY <1>1
  <2>2. T[n + 1] = LoadOne(p, n + 1, T[(n + 1) - 1])
    BY <2>1, LoadsDefined
  <2>3. T[n] \in V /\ LoadedFrom(p, n, T[n])
    BY <1>3
  <2> DEFINE k == n + 1
  <2> HIDE DEF T, k
  <2>4. k - 1 = n /\ k \in Nat \ {0} /\ T[n] \in [Colours -> Words] /\ T[k] = LoadOne(p, k, T[n])
    BY <2>1, <2>2, <2>3 DEF k
  <2>5. T[k] \in V /\ LoadedFrom(p, k, T[k])
    BY <2>3, <2>4, LoadOneTyped
  <2>6. QED BY <2>1, <2>5 DEF k
<1>4. \A n \in 0 .. N : n \in S
  <2> HIDE DEF S, N
  <2>1. QED BY <1>1, <1>2, <1>3, IntervalInduction
<1>5. N \in 0 .. N
  BY <1>1
<1>6. T[N] \in V /\ LoadedFrom(p, N, T[N])
  BY <1>4, <1>5
<1>7. QED BY <1>6 DEF LoadColours

-----------------------------------------------------------------------------
(* Types, and the place of the palette. *)

ViewInv ==
  /\ view.bpl_lock \subseteq Planes /\ view.rgb_idx \in Colours
  /\ view.pal \in [Colours -> Words] /\ view.pal_ptr \in Nat /\ PaletteInChip

TextNames ==
  {"SCREEN", "PF1WIDTH", "PF2WIDTH", "HEIGHT", "ADDRESS", "RGB", "MODEVEN", "MODODD",
   "DISPLAY", "PRIORITY", "SAVEAS", "BPLANES", "RESO", "BPLLOCKS", "BPLADDRS", "STATUS"}

MarksInv ==
  /\ current \in BOOLEAN /\ nomem \in BOOLEAN /\ DOMAIN shown = TextNames
  /\ searched.min \in MinLists \cup {0} /\ loop \in {"running", "done", "left"}

LEMMA TextsAre ==
  ASSUME NEW c, NEW v
  PROVE  /\ DOMAIN Texts(c, v) = TextNames
         /\ Texts(c, v)["SCREEN"] = c.scr_width
         /\ Texts(c, v)["PF1WIDTH"] = c.scr_width + Wider(v.mod_odd)
         /\ Texts(c, v)["PF2WIDTH"] = c.scr_width + Wider(v.mod_even)
         /\ Texts(c, v)["HEIGHT"] = c.scr_height
         /\ Texts(c, v)["ADDRESS"] = v.pal_ptr
         /\ Texts(c, v)["MODEVEN"] = v.mod_even
         /\ Texts(c, v)["MODODD"] = v.mod_odd
         /\ Texts(c, v)["DISPLAY"] = c.display
         /\ Texts(c, v)["PRIORITY"] = c.priority
         /\ Texts(c, v)["SAVEAS"] = c.save_as
         /\ Texts(c, v)["BPLANES"] = c.num_bpl
         /\ Texts(c, v)["RESO"] = Has(c, "HIRES")
         /\ Texts(c, v)["BPLLOCKS"] = v.bpl_lock
         /\ Texts(c, v)["BPLADDRS"] = v.bpl_ptr
         /\ Texts(c, v)["STATUS"] = IF c.ioerr = "none" THEN c.status ELSE c.ioerr
  BY DEF Texts, TextNames

LEMMA RefreshMarks ==
  ASSUME NEW u, Refresh(u), MarksInv
  PROVE  /\ current' \in BOOLEAN /\ nomem' \in BOOLEAN /\ DOMAIN shown' = TextNames
         /\ current' \/ nomem'
<1>1. DOMAIN shown' = TextNames
  BY DEF Refresh, PrintTexts, MarksInv
<1>2. CopperDue(u)
  <2>1. "DISPLAY" \in (u \cap {"MODEVEN"}) \cup {"MODODD", "DISPLAY", "PRIORITY", "BPLANES", "RESO",
                                  "BPLADDRS", "RGB_CHANGE"}
    OBVIOUS
  <2>2. QED BY <2>1, Zenon DEF CopperDue
<1>3. PICK got \in BOOLEAN :
        /\ nomem' = ~got
        /\ current' = (got \/ (current /\ CopperList(cfg', view') = CopperList(cfg, view)))
  <2> HIDE DEF CopperDue
  <2>1. setup_copper
    BY <1>2 DEF Refresh
  <2>2. QED BY <2>1, Zenon DEF setup_copper
<1>4. nomem' \in BOOLEAN /\ current' \in BOOLEAN /\ (current' \/ nomem')
  BY <1>3, Zenon
<1>5. QED BY <1>1, <1>4

LEMMA PressedMarks ==
  ASSUME NEW u, Pressed(u), MarksInv, searched'.min \in MinLists \cup {0}
  PROVE  MarksInv'
  BY RefreshMarks DEF Pressed, MarksInv

LEMMA NoSearchMin == NoSearch.min \in MinLists \cup {0}
  BY DEF NoSearch

LEMMA LookMarks == ASSUME NEW u, Look(u), MarksInv PROVE MarksInv'
  BY PressedMarks, NoSearchMin DEF Look

LEMMA SetMarks == ASSUME NEW u, Set(u), MarksInv PROVE MarksInv'
  BY PressedMarks, NoSearchMin DEF Set

LEMMA MarksNext == MarksInv /\ [ScreenNext]_<<vars, screenVars>> => MarksInv'
<1> SUFFICES ASSUME MarksInv, [ScreenNext]_<<vars, screenVars>> PROVE MarksInv'
  OBVIOUS
<1>1. CASE UNCHANGED <<shown, current, nomem, searched, loop>>
  BY <1>1 DEF MarksInv
<1>2. CASE SettingKeys
  BY <1>2, SetMarks DEF SettingKeys
<1>3. CASE PointerKeys
  <2>1. \E u : Look(u)
    BY <1>3 DEF PointerKeys, set_bplane_lock, reset_bplane_addrs, set_chipmem_addr,
       SetPointers, handle_bplane_move, handle_modulos, SetModulos
  <2>2. QED BY <2>1, LookMarks
<1>4. CASE ColourKeys
  <2>1. \E u : Look(u)
    BY <1>4 DEF ColourKeys, handle_palette, palette_index, init_cop_cfg, handle_palette_move
  <2>2. QED BY <2>1, LookMarks
<1>5. CASE handle_copper_search
  <2>1. PICK min \in MinLists, step \in {1, LongStep} :
          /\ searched'.min = min
          /\ \E u : Pressed(u)
    BY <1>5 DEF handle_copper_search
  <2>2. QED BY <2>1, PressedMarks
<1>6. CASE OtherKey
  BY <1>6, LookMarks DEF OtherKey
<1>7. CASE Quit \/ Leave
  BY <1>7 DEF Quit, Leave, MarksInv
<1>8. CASE SaveFile
  BY <1>1, <1>8 DEF SaveFile, screenVars, PrintTexts, MarksInv
<1>9. QED
  BY <1>1, <1>2, <1>3, <1>4, <1>5, <1>6, <1>7, <1>8 DEF ScreenNext, Left, screenVars

LEMMA WordTyped == ASSUME chip \in Chips, NEW a \in Int PROVE Word(a) \in Words
<1>1. Wrap(a) \in 0 .. chip.max - 1 /\ chip.max \in Nat
  BY ChipSizes, Division DEF Wrap
<1>2. Wrap(a) \div 2 \in 0 .. Size
  <2> DEFINE w == Wrap(a)
  <2> HIDE DEF w
  <2>1. w \in 0 .. 2 * Size - 1 /\ Size \in Nat
    BY <1>1, ChipWords DEF w
  <2>2. w \div 2 \in 0 .. Size
    BY <2>1
  <2>3. QED BY <2>2 DEF w
<1>3. QED BY <1>2, ChipWords DEF Word

LEMMA StartInMemory ==
  ASSUME chip \in Chips, view.pal_ptr \in Nat, NEW step \in {1, LongStep}
  PROVE  SearchStart(step) \in 0 .. Size - 1
<1> DEFINE here == view.pal_ptr \div 2
<1>1. here \in Nat /\ step \in Nat
  BY ScreenAssumption
<1> HIDE DEF here
<1>2. (here + step) % Size \in 0 .. Size - 1
  <2>1. here + step \in Int
    BY <1>1
  <2>2. QED BY <2>1, PlaceInMemory
<1>3. SearchStart(step) = IF here > 0 THEN (here + step) % Size ELSE here
  BY DEF SearchStart, here
<1>4. Size > 0 /\ Size \in Nat
  BY ChipWords
<1>5. QED BY <1>1, <1>2, <1>3, <1>4

LEMMA SearchTyped ==
  ASSUME chip \in Chips, NEW start \in 0 .. Size - 1, NEW min \in Nat
  PROVE  Search(start, min).at \in 0 .. Size - 1
<1>1. Size \in 0 .. Size
  BY ChipWords
<1>2. Search(start, min) \in SearchStates
  BY <1>1, TurnsDefined DEF Search
<1>3. QED BY <1>2 DEF SearchStates

LEMMA ViewInit == ScreenInit => ViewInv /\ MarksInv
<1> SUFFICES ASSUME ScreenInit PROVE ViewInv /\ MarksInv
  OBVIOUS
<1>1. /\ view.bpl_lock = Planes /\ view.rgb_idx = 0 /\ view.pal_ptr = 0
      /\ view.pal = [c \in Colours |-> Tint] /\ chip \in Chips
  BY DEF ScreenInit
<1>2. 0 \in Colours /\ Tint \in Words /\ 0 < chip.max /\ 0 % 2 = 0
  BY <1>1, ScreenAssumption, ChipSizes DEF Colours, Words, Rgbs
<1>3. ViewInv
  BY <1>1, <1>2 DEF ViewInv, PaletteInChip
<1>4. /\ current \in BOOLEAN /\ nomem = ~current /\ shown = Texts(cfg, view)
      /\ searched = NoSearch /\ loop = "running"
  BY DEF ScreenInit
<1>5. DOMAIN shown = TextNames
  BY <1>4, TextsAre
<1>6. MarksInv
  BY <1>4, <1>5, NoSearchMin DEF MarksInv
<1>7. QED BY <1>3, <1>6

LEMMA ViewKept ==
  ASSUME ViewInv, UNCHANGED chip, view'.bpl_lock \subseteq Planes,
         view'.rgb_idx \in Colours, view'.pal = view.pal, view'.pal_ptr = view.pal_ptr
  PROVE  ViewInv'
  BY DEF ViewInv, PaletteInChip

LEMMA PaletteMoved ==
  ASSUME ViewInv, PointerInv, handle_palette_move
  PROVE  ViewInv'
<1>1. PICK step \in {2, -2}, times \in {1, 2} :
        LET from == Wrap(view.pal_ptr + step * times)
            shft == IF times = 2 THEN 2 ELSE 0
        IN  view' = [view EXCEPT !.pal_ptr = from,
                       !.pal = [c \in Colours |-> Word(from + shft + 2 * times * c)]]
  BY DEF handle_palette_move
<1> DEFINE a == view.pal_ptr + step * times
           from == Wrap(a)
           shft == IF times = 2 THEN 2 ELSE 0
           pal == [c \in Colours |-> Word(from + shft + 2 * times * c)]
<1>2. view' = [view EXCEPT !.pal_ptr = from, !.pal = pal]
  BY <1>1
<1>3. a \in Int /\ a % 2 = 0
  BY DEF ViewInv, PaletteInChip
<1>4. from \in 0 .. chip.max - 1 /\ from % 2 = 0 /\ chip.max \in Nat
  <2> HIDE DEF a
  <2>1. QED BY <1>3, ChipSizes, Division, EvenRemainder DEF Wrap, PointerInv
<1>5. pal \in [Colours -> Words]
  <2> HIDE DEF from
  <2>1. ASSUME NEW c \in Colours PROVE Word(from + shft + 2 * times * c) \in Words
    <3>1. c \in Int /\ (times = 1 \/ times = 2)
      BY ColoursInt
    <3>2. from + shft + 2 * times * c \in Int
      BY <1>4, <3>1
    <3>3. QED BY <3>2, WordTyped DEF PointerInv
  <2>2. QED BY <2>1
<1>6. chip' = chip
  BY LookKeepsChip DEF handle_palette_move
<1> HIDE DEF from, pal
<1>7. /\ view'.pal_ptr = from /\ view'.pal = pal
      /\ view'.bpl_lock = view.bpl_lock /\ view'.rgb_idx = view.rgb_idx
  BY <1>2 DEF PointerInv, ViewShape
<1>8. QED BY <1>4, <1>5, <1>6, <1>7 DEF ViewInv, PaletteInChip

LEMMA SearchedView ==
  ASSUME ViewInv, PointerInv, handle_copper_search
  PROVE  ViewInv'
<1>1. chip \in Chips /\ view.pal_ptr \in Nat
  BY DEF PointerInv, ViewInv
<1>2. chip' = chip
  BY DEF handle_copper_search, Pressed
<1>3. PICK min \in MinLists, step \in {1, LongStep} :
        \/ UNCHANGED view
        \/ LET at == Search(SearchStart(step), min).at
           IN  view' = [view EXCEPT !.pal_ptr = 2 * at, !.pal = LoadColours(at)]
  BY DEF handle_copper_search
<1> DEFINE at == Search(SearchStart(step), min).at
           pal == LoadColours(at)
<1>4. at \in 0 .. Size - 1
  <2>1. SearchStart(step) \in 0 .. Size - 1
    BY <1>1, StartInMemory
  <2>2. min \in Nat
    BY ScreenAssumption
  <2>3. QED BY <1>1, <2>1, <2>2, SearchTyped
<1> HIDE DEF at
<1>5. pal \in [Colours -> Words]
  BY <1>1, <1>4, ColoursLoaded
<1>6. 2 * at \in Nat /\ 2 * at < chip.max /\ (2 * at) % 2 = 0
  <2>1. Size \in Nat /\ chip.max = 2 * Size
    BY <1>1, ChipWords
  <2>2. QED BY <1>4, <2>1
<1> HIDE DEF pal
<1>7. CASE UNCHANGED view
  BY <1>2, <1>7 DEF ViewInv, PaletteInChip
<1>8. CASE view' = [view EXCEPT !.pal_ptr = 2 * at, !.pal = pal]
  <2>1. /\ view'.pal_ptr = 2 * at /\ view'.pal = pal
        /\ view'.bpl_lock = view.bpl_lock /\ view'.rgb_idx = view.rgb_idx
    BY <1>8 DEF PointerInv, ViewShape
  <2>2. QED BY <1>2, <1>5, <1>6, <2>1 DEF ViewInv, PaletteInChip
<1>9. QED BY <1>3, <1>7, <1>8 DEF at, pal

LEMMA ViewNext ==
  ViewInv /\ PointerInv /\ [ScreenNext]_<<vars, screenVars>> => ViewInv'
<1> SUFFICES ASSUME ViewInv, PointerInv, [ScreenNext]_<<vars, screenVars>> PROVE ViewInv'
  OBVIOUS
<1>1. CASE UNCHANGED <<view, chip>>
  BY <1>1 DEF ViewInv, PaletteInChip
<1>2. CASE PointerKeys
  <2>1. chip' = chip
    BY <1>2, LookKeepsChip DEF PointerKeys, set_bplane_lock, reset_bplane_addrs,
       set_chipmem_addr, SetPointers, handle_bplane_move, handle_modulos, SetModulos
  <2>2. /\ view'.bpl_lock \subseteq Planes /\ view'.rgb_idx = view.rgb_idx
        /\ view'.pal = view.pal /\ view'.pal_ptr = view.pal_ptr
    <3>1. CASE set_bplane_lock
      BY <3>1 DEF set_bplane_lock, ViewInv, PointerInv, ViewShape
    <3>2. CASE PointerKeys /\ ~set_bplane_lock
      BY <3>2 DEF PointerKeys, reset_bplane_addrs, set_chipmem_addr, SetPointers,
         handle_bplane_move, handle_modulos, SetModulos, ViewInv, PointerInv, ViewShape
    <3>3. QED BY <1>2, <3>1, <3>2
  <2>3. QED BY <2>1, <2>2, ViewKept DEF ViewInv
<1>3. CASE handle_palette
  <2>1. PICK rgb \in {Junk, Black} \cup Rgbs : view' = [view EXCEPT !.pal[view.rgb_idx] = rgb]
    BY <1>3 DEF handle_palette
  <2>2. chip' = chip
    BY <1>3, LookKeepsChip DEF handle_palette
  <2>3. rgb \in Words
    BY <2>1 DEF Words, Rgbs
  <2>4. /\ view'.pal = [view.pal EXCEPT ![view.rgb_idx] = rgb]
        /\ view'.bpl_lock = view.bpl_lock /\ view'.rgb_idx = view.rgb_idx
        /\ view'.pal_ptr = view.pal_ptr
    BY <2>1 DEF PointerInv, ViewShape
  <2>5. QED BY <2>2, <2>3, <2>4 DEF ViewInv, PaletteInChip
<1>4. CASE palette_index
  <2>1. PICK step \in {1, -1} : view' = [view EXCEPT !.rgb_idx = (@ + step) % NumColours]
    BY <1>4 DEF palette_index
  <2>2. chip' = chip
    BY <1>4, LookKeepsChip DEF palette_index
  <2>3. (view.rgb_idx + step) % NumColours \in Colours
    <3>1. view.rgb_idx + step \in Int /\ NumColours \in Nat \ {0}
      BY ColoursInt, ScreenAssumption DEF ViewInv
    <3>2. QED BY <3>1, Division DEF Colours
  <2>4. /\ view'.pal = view.pal /\ view'.bpl_lock = view.bpl_lock
        /\ view'.rgb_idx = (view.rgb_idx + step) % NumColours
        /\ view'.pal_ptr = view.pal_ptr
    BY <2>1 DEF PointerInv, ViewShape
  <2>5. QED BY <2>2, <2>3, <2>4, ViewKept DEF ViewInv
<1>5. CASE init_cop_cfg
  <2>1. chip' = chip /\ chip \in Chips
    BY <1>5, LookKeepsChip DEF init_cop_cfg, PointerInv
  <2>2. /\ view'.pal = [c \in Colours |-> Tint] /\ view'.bpl_lock = view.bpl_lock
        /\ view'.rgb_idx = view.rgb_idx /\ view'.pal_ptr = 0
    BY <1>5 DEF init_cop_cfg, PointerInv, ViewShape
  <2>3. Tint \in Words /\ 0 < chip.max /\ 0 % 2 = 0
    BY <2>1, ChipSizes DEF Words, Rgbs
  <2>4. QED BY <2>1, <2>2, <2>3 DEF ViewInv, PaletteInChip
<1>6. CASE handle_palette_move
  BY <1>6, PaletteMoved
<1>7. CASE handle_copper_search
  BY <1>7, SearchedView
<1>8. CASE SettingKeys \/ OtherKey \/ Quit \/ Leave \/ Left \/ SaveFile
  BY <1>1, <1>8 DEF SettingKeys, Set, Pressed, OtherKey, Look, Quit, Leave, Left,
     SaveFile, screenVars
<1>9. QED
  BY <1>1, <1>2, <1>3, <1>4, <1>5, <1>6, <1>7, <1>8 DEF ScreenNext, ColourKeys, screenVars

(* Locks, palette and its address keep their types and places, and header,     *)
(* search and main loop are in one of their states (init_cop_cfg(),            *)
(* handle_palette_move(), copper_search()).                                    *)
THEOREM ScreenView == ScreenSpec => [](ViewInv /\ MarksInv)
<1>1. (ViewInv /\ MarksInv) /\ PointerInv /\ [ScreenNext]_<<vars, screenVars>>
        => (ViewInv /\ MarksInv)'
  BY ViewNext, MarksNext
<1>2. QED BY <1>1, ViewInit, ScreenPointers, PTL DEF ScreenSpec

(* What the searcher looks at keeps its types, and every address and modulo is *)
(* even and inside the chip memory or its limits (main_key_loop()).            *)
THEOREM ScreenTypes == ScreenSpec => []ScreenTypeOK
<1>1. ViewInv /\ MarksInv /\ PointerInv => ScreenTypeOK
  <2> SUFFICES ASSUME ViewInv, MarksInv, PointerInv PROVE ScreenTypeOK
    OBVIOUS
  <2>1. view \in Views
    BY DEF ViewInv, PointerInv, ViewShape, Views
  <2>2. DOMAIN shown = DOMAIN Texts(cfg, view)
    BY TextsAre DEF MarksInv
  <2>3. QED BY <2>1, <2>2 DEF ScreenTypeOK, ViewInv, MarksInv, PointerInv
<1>2. QED BY <1>1, ScreenView, ScreenPointers, PTL

-----------------------------------------------------------------------------
(* What the header shows. *)

\* What a text shows is the same in both, unless it is among those printed.
SameBut(c, v, d, w, P) ==
  /\ "SCREEN" \in P \/ c.scr_width = d.scr_width
  /\ "PF1WIDTH" \in P \/ (c.scr_width = d.scr_width /\ v.mod_odd = w.mod_odd)
  /\ "PF2WIDTH" \in P \/ (c.scr_width = d.scr_width /\ v.mod_even = w.mod_even)
  /\ "HEIGHT" \in P \/ c.scr_height = d.scr_height
  /\ "ADDRESS" \in P \/ v.pal_ptr = w.pal_ptr
  /\ "MODEVEN" \in P \/ v.mod_even = w.mod_even
  /\ "MODODD" \in P \/ v.mod_odd = w.mod_odd
  /\ "DISPLAY" \in P \/ c.display = d.display
  /\ "PRIORITY" \in P \/ c.priority = d.priority
  /\ "SAVEAS" \in P \/ c.save_as = d.save_as
  /\ "BPLANES" \in P \/ c.num_bpl = d.num_bpl
  /\ "RESO" \in P \/ Has(c, "HIRES") = Has(d, "HIRES")
  /\ "BPLLOCKS" \in P \/ v.bpl_lock = w.bpl_lock
  /\ "BPLADDRS" \in P \/ v.bpl_ptr = w.bpl_ptr
  /\ "STATUS" \in P \/ (c.status = d.status /\ c.ioerr = d.ioerr)

\* Texts that may be left out of an update, because what they show is the same.
LEMMA TextsSame ==
  ASSUME NEW c, NEW v, NEW d, NEW w, NEW P, SameBut(c, v, d, w, P)
  PROVE  \A t \in TextNames \ {"RGB"} : t \in P \/ Texts(c, v)[t] = Texts(d, w)[t]
<1> SUFFICES ASSUME NEW t \in TextNames \ {"RGB"}, t \notin P
             PROVE  Texts(c, v)[t] = Texts(d, w)[t]
  OBVIOUS
<1>1. CASE t = "SCREEN"
  BY <1>1, TextsAre DEF SameBut
<1>2. CASE t = "PF1WIDTH"
  BY <1>2, TextsAre DEF SameBut
<1>3. CASE t = "PF2WIDTH"
  BY <1>3, TextsAre DEF SameBut
<1>4. CASE t = "HEIGHT"
  BY <1>4, TextsAre DEF SameBut
<1>5. CASE t = "ADDRESS"
  BY <1>5, TextsAre DEF SameBut
<1>6. CASE t = "MODEVEN"
  BY <1>6, TextsAre DEF SameBut
<1>7. CASE t = "MODODD"
  BY <1>7, TextsAre DEF SameBut
<1>8. CASE t = "DISPLAY"
  BY <1>8, TextsAre DEF SameBut
<1>9. CASE t = "PRIORITY"
  BY <1>9, TextsAre DEF SameBut
<1>10. CASE t = "SAVEAS"
  BY <1>10, TextsAre DEF SameBut
<1>11. CASE t = "BPLANES"
  BY <1>11, TextsAre DEF SameBut
<1>12. CASE t = "RESO"
  BY <1>12, TextsAre DEF SameBut
<1>13. CASE t = "BPLLOCKS"
  BY <1>13, TextsAre DEF SameBut
<1>14. CASE t = "BPLADDRS"
  BY <1>14, TextsAre DEF SameBut
<1>15. CASE t = "STATUS"
  BY <1>15, TextsAre DEF SameBut
<1>16. QED
  BY <1>1, <1>2, <1>3, <1>4, <1>5, <1>6, <1>7, <1>8, <1>9, <1>10, <1>11, <1>12, <1>13,
     <1>14, <1>15 DEF TextNames

\* A key is shown if what it leaves out of its update has not changed.
LEMMA KeyShown ==
  ASSUME NEW u, Refresh(u), MarksInv, ScreenCurrent, pc = "idle",
         \A t \in TextNames \ {"RGB"} :
           t \in Printed(u) \/ Texts(cfg', view')[t] = Texts(cfg, view)[t]
  PROVE  ScreenCurrent'
<1> DEFINE new == Texts(cfg', view')
           old == Texts(cfg, view)
<1>1. DOMAIN shown = TextNames /\ DOMAIN shown' = TextNames /\ (current' \/ nomem')
  BY RefreshMarks DEF MarksInv
<1>2. \A t \in TextNames \ {"RGB"} : shown[t] = old[t]
  BY <1>1 DEF ScreenCurrent
<1>3. \A t \in TextNames : shown'[t] = IF t \in Printed(u) THEN new[t] ELSE shown[t]
  BY <1>1 DEF Refresh, PrintTexts
<1> HIDE DEF new, old
<1>4. \A t \in TextNames \ {"RGB"} : t \in Printed(u) \/ new[t] = old[t]
  BY DEF new, old
<1>5. \A t \in TextNames \ {"RGB"} : shown'[t] = new[t]
  BY <1>2, <1>3, <1>4
<1>6. QED BY <1>1, <1>5 DEF ScreenCurrent, new

\* A key for a setting, and what it must print.
SettingShown(P) ==
  /\ "SCREEN" \in P \/ cfg'.scr_width = cfg.scr_width
  /\ "PF1WIDTH" \in P \/ cfg'.scr_width = cfg.scr_width
  /\ "PF2WIDTH" \in P \/ cfg'.scr_width = cfg.scr_width
  /\ "HEIGHT" \in P \/ cfg'.scr_height = cfg.scr_height
  /\ "DISPLAY" \in P \/ cfg'.display = cfg.display
  /\ "PRIORITY" \in P \/ cfg'.priority = cfg.priority
  /\ "SAVEAS" \in P \/ cfg'.save_as = cfg.save_as
  /\ "BPLANES" \in P \/ cfg'.num_bpl = cfg.num_bpl
  /\ "RESO" \in P \/ Has(cfg', "HIRES") = Has(cfg, "HIRES")
  /\ cfg'.status = cfg.status /\ cfg'.ioerr = cfg.ioerr

LEMMA SetShown ==
  ASSUME NEW u, Set(u), MarksInv, ScreenCurrent, pc = "idle", SettingShown(u)
  PROVE  ScreenCurrent'
<1> DEFINE P == Printed(u)
<1>1. view' = view /\ Refresh(u)
  BY DEF Set, Pressed
<1>2. u \subseteq P
  BY DEF Printed
<1> HIDE DEF P
<1>3. \A t \in TextNames \ {"RGB"} : t \in P \/ Texts(cfg', view')[t] = Texts(cfg, view)[t]
  <2>1. SameBut(cfg', view', cfg, view, P)
    BY <1>1, <1>2 DEF SettingShown, SameBut
  <2>2. QED BY <2>1, TextsSame
<1>4. QED BY <1>1, <1>3, KeyShown DEF P

\* A key that moves what is looked at, and what it must print.
ViewShown(P) ==
  /\ "PF1WIDTH" \in P \/ view'.mod_odd = view.mod_odd
  /\ "PF2WIDTH" \in P \/ view'.mod_even = view.mod_even
  /\ "ADDRESS" \in P \/ view'.pal_ptr = view.pal_ptr
  /\ "MODEVEN" \in P \/ view'.mod_even = view.mod_even
  /\ "MODODD" \in P \/ view'.mod_odd = view.mod_odd
  /\ "BPLLOCKS" \in P \/ view'.bpl_lock = view.bpl_lock
  /\ "BPLADDRS" \in P \/ view'.bpl_ptr = view.bpl_ptr

LEMMA LookShown ==
  ASSUME NEW u, Look(u), MarksInv, ScreenCurrent, ViewShown(Printed(u))
  PROVE  ScreenCurrent'
<1> DEFINE P == Printed(u)
<1>1. cfg' = cfg /\ pc = "idle" /\ Refresh(u)
  BY DEF Look, Pressed, vars
<1> HIDE DEF P
<1>2. ViewShown(P)
  BY DEF P
<1>3. \A t \in TextNames \ {"RGB"} : t \in P \/ Texts(cfg', view')[t] = Texts(cfg, view)[t]
  <2>1. SameBut(cfg', view', cfg, view, P)
    BY <1>1, <1>2 DEF ViewShown, SameBut
  <2>2. QED BY <2>1, TextsSame
<1>4. QED BY <1>1, <1>3, KeyShown DEF P

\* The settings are a record.
CfgShape ==
  cfg = [scr_width |-> cfg.scr_width, scr_height |-> cfg.scr_height, num_bpl |-> cfg.num_bpl,
         display |-> cfg.display, priority |-> cfg.priority, save_as |-> cfg.save_as,
         flags |-> cfg.flags, ioerr |-> cfg.ioerr, status |-> cfg.status]

LEMMA CfgIsRecord == IInv => CfgShape
  BY DEF IInv, TypeOK, Config, CfgShape

LEMMA SettingsShown ==
  ASSUME IInv, MarksInv, ScreenCurrent, SettingKeys
  PROVE  ScreenCurrent'
<1>0. CfgShape
  BY CfgIsRecord
<1>1. CASE (inc_scr_width \/ dec_scr_width) /\ Set(WidthTexts)
  <2>1. SettingShown(WidthTexts) /\ pc = "idle"
    BY <1>0, <1>1 DEF CfgShape, inc_scr_width, dec_scr_width, Key, SettingShown, WidthTexts, Has
  <2>2. QED BY <1>1, <2>1, SetShown
<1>2. CASE handle_display_mode /\ Set(DisplayTexts)
  <2> DEFINE display == IF cfg.display = 2 THEN 0 ELSE cfg.display + 1
             flags == (cfg.flags \ {"HAM", "STD", "DUALPF"}) \cup {Displays[display + 1]}
             new == IF display = 1 THEN flags \ {"HIRES"} ELSE flags
  <2>1. cfg' = [cfg EXCEPT !.display = display, !.flags = new] /\ pc = "idle"
    BY <1>2 DEF handle_display_mode, Key
  <2>2. "HIRES" \in new <=> "HIRES" \in cfg.flags /\ display # 1
    <3>1. display \in {0, 1, 2}
      BY DEF IInv, TypeOK, Config
    <3>2. Displays[display + 1] # "HIRES"
      <4> HIDE DEF display
      <4>1. QED BY <3>1 DEF Displays
    <3> HIDE DEF display
    <3>3. QED BY <3>2
  <2> HIDE DEF display, new
  <2>3. /\ cfg'.display = display /\ cfg'.flags = new
        /\ cfg'.scr_width = cfg.scr_width /\ cfg'.scr_height = cfg.scr_height
        /\ cfg'.num_bpl = cfg.num_bpl /\ cfg'.priority = cfg.priority
        /\ cfg'.save_as = cfg.save_as /\ cfg'.ioerr = cfg.ioerr /\ cfg'.status = cfg.status
    BY <1>0, <2>1 DEF CfgShape
  <2>4. "RESO" \in DisplayTexts \/ Has(cfg', "HIRES") = Has(cfg, "HIRES")
    BY <2>2, <2>3 DEF DisplayTexts, Has
  <2>5. "DISPLAY" \in DisplayTexts
    BY DEF DisplayTexts
  <2>6. SettingShown(DisplayTexts)
    BY <2>3, <2>4, <2>5 DEF SettingShown
  <2>7. QED BY <1>2, <2>1, <2>6, SetShown
<1>3. CASE handle_save_as /\ Set({"SAVEAS"})
  <2>1. SettingShown({"SAVEAS"}) /\ pc = "idle"
    BY <1>0, <1>3 DEF CfgShape, handle_save_as, Key, SettingShown, Has
  <2>2. QED BY <1>3, <2>1, SetShown
<1>4. CASE (set_bplane_height \/ handle_bplane_height) /\ Set({"HEIGHT"})
  <2>1. SettingShown({"HEIGHT"}) /\ pc = "idle"
    BY <1>0, <1>4 DEF CfgShape, set_bplane_height, handle_bplane_height, Key, SettingShown, Has
  <2>2. QED BY <1>4, <2>1, SetShown
<1>5. CASE (dec_bplane_num \/ inc_bplane_num) /\ Set({"BPLANES"})
  <2>1. SettingShown({"BPLANES"}) /\ pc = "idle"
    BY <1>0, <1>5 DEF CfgShape, dec_bplane_num, inc_bplane_num, Key, SettingShown, Has
  <2>2. QED BY <1>5, <2>1, SetShown
<1>6. ASSUME NEW hires \in BOOLEAN, set_resolution(hires), Set(ResolutionTexts(hires))
      PROVE  ScreenCurrent'
  <2>1. pc = "idle"
    BY <1>6 DEF set_resolution, Key
  <2>2. CASE ~hires
    <3>1. cfg' = [cfg EXCEPT !.flags = @ \ {"HIRES"}, !.scr_width = LoresWidth]
      BY <1>6, <2>2 DEF set_resolution
    <3>2. SettingShown(ResolutionTexts(hires))
      BY <1>0, <3>1 DEF CfgShape, SettingShown, ResolutionTexts, WidthTexts
    <3>3. QED BY <1>6, <2>1, <3>2, SetShown
  <2>3. CASE hires
    <3>1. cfg' = [cfg EXCEPT
                   !.flags = (@ \cup {"HIRES"}) \ {"HAM"},
                   !.scr_width = HiresWidth,
                   !.num_bpl = IF @ > 4 THEN 4 ELSE @,
                   !.display = IF Has(cfg, "HAM") THEN 0 ELSE @]
      BY <1>6, <2>3 DEF set_resolution
    <3>2. /\ cfg'.num_bpl = IF cfg.num_bpl > 4 THEN 4 ELSE cfg.num_bpl
          /\ cfg'.display = IF Has(cfg, "HAM") THEN 0 ELSE cfg.display
          /\ cfg'.scr_height = cfg.scr_height /\ cfg'.priority = cfg.priority
          /\ cfg'.save_as = cfg.save_as /\ cfg'.ioerr = cfg.ioerr /\ cfg'.status = cfg.status
      BY <1>0, <3>1 DEF CfgShape
    <3>3. /\ {"RESO", "SCREEN", "PF1WIDTH", "PF2WIDTH"} \subseteq ResolutionTexts(hires)
          /\ cfg.num_bpl > 4 => "BPLANES" \in ResolutionTexts(hires)
          /\ Has(cfg, "HAM") => "DISPLAY" \in ResolutionTexts(hires)
      BY <2>3 DEF ResolutionTexts, WidthTexts
    <3>4. SettingShown(ResolutionTexts(hires))
      BY <3>2, <3>3 DEF SettingShown
    <3>5. QED BY <1>6, <2>1, <3>4, SetShown
  <2>4. QED BY <2>2, <2>3
<1>7. CASE handle_priority /\ Set({"PRIORITY"})
  <2>1. SettingShown({"PRIORITY"}) /\ pc = "idle"
    BY <1>0, <1>7 DEF CfgShape, handle_priority, Key, SettingShown, Has
  <2>2. QED BY <1>7, <2>1, SetShown
<1>8. QED
  BY <1>1, <1>2, <1>3, <1>4, <1>5, <1>6, <1>7 DEF SettingKeys

LEMMA PointersShown ==
  ASSUME PointerInv, MarksInv, ScreenCurrent, PointerKeys \/ ColourKeys \/ OtherKey
  PROVE  ScreenCurrent'
<1>1. CASE set_bplane_lock
  <2>1. Look({"BPLLOCKS"}) /\ ViewShown(Printed({"BPLLOCKS"}))
    BY <1>1 DEF set_bplane_lock, ViewShown, Printed, PointerInv, ViewShape
  <2>2. QED BY <2>1, LookShown
<1>2. CASE reset_bplane_addrs \/ set_chipmem_addr \/ handle_bplane_move
  <2>1. Look({"BPLADDRS"}) /\ ViewShown(Printed({"BPLADDRS"}))
    BY <1>2 DEF reset_bplane_addrs, set_chipmem_addr, SetPointers, handle_bplane_move,
       ViewShown, Printed, PointerInv, ViewShape
  <2>2. QED BY <2>1, LookShown
<1>3. ASSUME NEW shift \in Shifts, handle_modulos(shift) PROVE ScreenCurrent'
  <2>1. PICK e, o : SetModulos(shift, e, o)
    BY <1>3 DEF handle_modulos
  <2>2. /\ view'.pal_ptr = view.pal_ptr /\ view'.bpl_lock = view.bpl_lock
        /\ view'.bpl_ptr = view.bpl_ptr
        /\ shift = "LSHIFT" => view'.mod_even = view.mod_even
        /\ shift = "RSHIFT" => view'.mod_odd = view.mod_odd
    BY <2>1 DEF SetModulos, PointerInv, ViewShape
  <2>3. ViewShown(Printed(ModuloTexts(shift)))
    BY <2>2 DEF ViewShown, Printed, ModuloTexts, Shifts
  <2>4. Look(ModuloTexts(shift))
    BY <2>1 DEF SetModulos
  <2>5. QED BY <2>3, <2>4, LookShown
<1>4. CASE handle_palette \/ palette_index
  <2>1. Look({"RGB"}) /\ ViewShown(Printed({"RGB"}))
    BY <1>4 DEF handle_palette, palette_index, ViewShown, Printed, PointerInv, ViewShape
  <2>2. QED BY <2>1, LookShown
<1>5. CASE init_cop_cfg \/ handle_palette_move
  <2>1. Look({"RGB_CHANGE", "ADDRESS"}) /\ ViewShown(Printed({"RGB_CHANGE", "ADDRESS"}))
    BY <1>5 DEF init_cop_cfg, handle_palette_move, ViewShown, Printed, PointerInv, ViewShape
  <2>2. QED BY <2>1, LookShown
<1>6. CASE OtherKey
  <2>1. Look({}) /\ ViewShown(Printed({}))
    BY <1>6 DEF OtherKey, ViewShown
  <2>2. QED BY <2>1, LookShown
<1>7. QED
  BY <1>1, <1>2, <1>3, <1>4, <1>5, <1>6 DEF PointerKeys, ColourKeys

LEMMA SearchShown ==
  ASSUME IInv, PointerInv, MarksInv, ScreenCurrent, handle_copper_search
  PROVE  ScreenCurrent'
<1>1. pc = "idle" /\ \E status : cfg' = [cfg EXCEPT !.ioerr = "none", !.status = status]
  BY DEF handle_copper_search, copper_search, Key
<1>2. /\ cfg'.scr_width = cfg.scr_width /\ cfg'.scr_height = cfg.scr_height
      /\ cfg'.display = cfg.display /\ cfg'.priority = cfg.priority
      /\ cfg'.save_as = cfg.save_as /\ cfg'.num_bpl = cfg.num_bpl /\ cfg'.flags = cfg.flags
  BY <1>1, CfgIsRecord DEF CfgShape
<1>3. PICK u :
        /\ Refresh(u) /\ "STATUS" \in u
        /\ \/ UNCHANGED view
           \/ "ADDRESS" \in u /\ \E at, pal : view' = [view EXCEPT !.pal_ptr = at, !.pal = pal]
  <2>1. \/ Pressed({"STATUS"}) /\ UNCHANGED view
        \/ /\ Pressed({"ADDRESS", "RGB_CHANGE", "STATUS"})
           /\ \E at, pal : view' = [view EXCEPT !.pal_ptr = at, !.pal = pal]
    BY DEF handle_copper_search
  <2>2. QED BY <2>1 DEF Pressed
<1>4. /\ view'.mod_odd = view.mod_odd /\ view'.mod_even = view.mod_even
      /\ view'.bpl_lock = view.bpl_lock /\ view'.bpl_ptr = view.bpl_ptr
      /\ "ADDRESS" \in u \/ view'.pal_ptr = view.pal_ptr
  BY <1>3 DEF PointerInv, ViewShape
<1> DEFINE P == Printed(u)
<1>5. u \subseteq P
  BY DEF Printed
<1> HIDE DEF P
<1>6. \A t \in TextNames \ {"RGB"} : t \in P \/ Texts(cfg', view')[t] = Texts(cfg, view)[t]
  <2>1. Has(cfg', "HIRES") = Has(cfg, "HIRES")
    BY <1>2 DEF Has
  <2>2. "STATUS" \in P /\ ("ADDRESS" \in P \/ view'.pal_ptr = view.pal_ptr)
    BY <1>3, <1>4, <1>5
  <2>3. SameBut(cfg', view', cfg, view, P)
    BY <1>2, <1>4, <2>1, <2>2 DEF SameBut
  <2>4. QED BY <2>3, TextsSame
<1>7. QED BY <1>1, <1>3, <1>6, KeyShown DEF P

\* Until a save returns, only what the status line says changes.
LEMMA SaveShown ==
  ASSUME IInv, MarksInv, ScreenCurrent, SaveFile
  PROVE  ScreenCurrent'
<1>1. CASE Return
  <2>1. cfg' = cfg /\ view' = view /\ current' = current /\ nomem' = nomem /\ pc = "shown"
        /\ PrintTexts({"STATUS"})
    BY <1>1 DEF Return, SaveFile, StartSave, OpenFile, WriteSome, SaveDone, Overrun, CloseFile,
       TellError, FreeHandle, Lost
  <2> DEFINE old == Texts(cfg, view)
  <2>2. DOMAIN shown = TextNames /\ DOMAIN shown' = TextNames
        /\ \A t \in TextNames : shown'[t] = IF t \in Printed({"STATUS"}) THEN old[t] ELSE shown[t]
    BY <2>1 DEF PrintTexts, MarksInv
  <2>3. "STATUS" \in Printed({"STATUS"})
    BY DEF Printed
  <2>4. \A t \in TextNames \ {"RGB"} : t # "STATUS" => shown[t] = old[t]
    BY <2>2 DEF ScreenCurrent
  <2> HIDE DEF old
  <2>5. \A t \in TextNames \ {"RGB"} : shown'[t] = old[t]
    BY <2>2, <2>3, <2>4
  <2>6. QED BY <2>1, <2>2, <2>5 DEF ScreenCurrent, old
<1>2. CASE ~Return
  <2>1. /\ UNCHANGED screenVars
        /\ StartSave \/ OpenFile \/ WriteSome \/ SaveDone \/ Overrun \/ CloseFile
             \/ TellError \/ FreeHandle \/ Lost
    BY <1>2 DEF SaveFile
  <2>2. /\ pc' # "idle"
        /\ cfg' = cfg \/ \E e, status : cfg' = [cfg EXCEPT !.ioerr = e, !.status = status]
    <3>1. CASE StartSave
      BY <3>1 DEF StartSave
    <3>2. CASE OpenFile
      BY <3>2 DEF OpenFile
    <3>3. CASE WriteSome
      BY <3>3 DEF WriteSome
    <3>4. CASE SaveDone \/ Overrun \/ FreeHandle
      BY <3>4 DEF SaveDone, Overrun, FreeHandle
    <3>5. CASE CloseFile
      BY <3>5 DEF CloseFile
    <3>6. CASE TellError
      <4>1. pc' # "idle" /\ cfg' = [cfg EXCEPT !.ioerr = Ioerr]
        BY <3>6 DEF TellError
      <4>2. [cfg EXCEPT !.ioerr = Ioerr] = [cfg EXCEPT !.ioerr = Ioerr, !.status = cfg.status]
        BY CfgIsRecord DEF CfgShape
      <4>3. QED BY <4>1, <4>2
    <3>7. CASE Lost
      BY <3>7 DEF Lost, vars
    <3>8. QED BY <2>1, <3>1, <3>2, <3>3, <3>4, <3>5, <3>6, <3>7
  <2>3. /\ cfg'.scr_width = cfg.scr_width /\ cfg'.scr_height = cfg.scr_height
        /\ cfg'.display = cfg.display /\ cfg'.priority = cfg.priority
        /\ cfg'.save_as = cfg.save_as /\ cfg'.num_bpl = cfg.num_bpl /\ cfg'.flags = cfg.flags
    BY <2>2, CfgIsRecord DEF CfgShape
  <2>4. view' = view /\ shown' = shown /\ current' = current /\ nomem' = nomem
    BY <2>1 DEF screenVars
  <2>5. \A t \in TextNames \ {"RGB"} :
          t \in {"STATUS"} \/ Texts(cfg', view')[t] = Texts(cfg, view)[t]
    <3> DEFINE P == {"STATUS"}
    <3>1. Has(cfg', "HIRES") = Has(cfg, "HIRES") /\ "STATUS" \in P
      BY <2>3 DEF Has
    <3> HIDE DEF P
    <3>2. \A t \in TextNames \ {"RGB"} :
            t \in P \/ Texts(cfg', view')[t] = Texts(cfg, view)[t]
      <4>1. SameBut(cfg', view', cfg, view, P)
        BY <2>3, <2>4, <3>1 DEF SameBut
      <4>2. QED BY <4>1, TextsSame
    <3>3. QED BY <3>2 DEF P
  <2>6. \A t \in TextNames \ {"RGB"} : t # "STATUS" => shown[t] = Texts(cfg, view)[t]
    BY DEF ScreenCurrent, MarksInv
  <2>7. \A t \in TextNames \ {"RGB"} : t # "STATUS" => shown'[t] = Texts(cfg', view')[t]
    BY <2>4, <2>5, <2>6
  <2>8. DOMAIN shown' = TextNames /\ (current' \/ nomem')
    BY <2>4 DEF MarksInv, ScreenCurrent
  <2>9. QED BY <2>2, <2>7, <2>8 DEF ScreenCurrent
<1>3. QED BY <1>1, <1>2

LEMMA CurrentNext ==
  IInv /\ PointerInv /\ MarksInv /\ ScreenCurrent /\ [ScreenNext]_<<vars, screenVars>>
    => ScreenCurrent'
<1> SUFFICES ASSUME IInv, PointerInv, MarksInv, ScreenCurrent, [ScreenNext]_<<vars, screenVars>>
             PROVE  ScreenCurrent'
  OBVIOUS
<1>1. CASE UNCHANGED <<vars, view, shown, current, nomem>>
  BY <1>1 DEF ScreenCurrent, vars
<1>2. QED
  BY <1>1, SettingsShown, PointersShown, SearchShown, SaveShown
     DEF ScreenNext, Quit, Leave, Left, screenVars

(* Header and picture show what is set, whatever keys are pressed              *)
(* (update_head_texts(), setup_copper(), main_key_loop()).                     *)
THEOREM ScreenShows == ScreenSpec => []ScreenCurrent
<1>1. ScreenInit => ScreenCurrent
  BY DEF ScreenInit, ScreenCurrent
<1>2. ScreenSpec => []IInv
  BY ScreenIsSearcher, SearcherInv, PTL
<1>3. QED
  BY <1>1, <1>2, CurrentNext, ScreenView, ScreenPointers, PTL DEF ScreenSpec

-----------------------------------------------------------------------------
(* What X and C find. *)

SearchKey(min, start) ==
  LET s == Search(start, min)
  IN  IF s.found = min
      THEN /\ searched' = [min |-> min, start |-> start, at |-> s.at]
           /\ view' = [view EXCEPT !.pal_ptr = 2 * s.at, !.pal = LoadColours(s.at)]
      ELSE searched' = [min |-> min, start |-> start, at |-> -1]

LEMMA SearchIs ==
  ASSUME ViewInv, PointerInv, handle_copper_search
  PROVE  /\ chip' = chip /\ chip \in Chips
         /\ \E min \in Nat \ {0}, start \in 0 .. Size - 1 : SearchKey(min, start)
<1>1. chip' = chip /\ chip \in Chips /\ view.pal_ptr \in Nat
  BY DEF handle_copper_search, Pressed, PointerInv, ViewInv
<1>2. PICK min \in MinLists, step \in {1, LongStep} : SearchKey(min, SearchStart(step))
  BY DEF handle_copper_search, SearchKey
<1>3. min \in Nat \ {0} /\ SearchStart(step) \in 0 .. Size - 1
  BY <1>1, ScreenAssumption, StartInMemory
<1>4. QED BY <1>1, <1>2, <1>3

LEMMA OthersSearchNothing ==
  ASSUME [ScreenNext]_<<vars, screenVars>>, ~handle_copper_search
  PROVE  searched' = NoSearch \/ UNCHANGED <<view, chip, searched>>
<1>1. CASE SettingKeys
  BY <1>1 DEF SettingKeys, Set
<1>2. CASE PointerKeys \/ ColourKeys \/ OtherKey
  <2>1. \E u : Look(u)
    BY <1>2 DEF PointerKeys, set_bplane_lock, reset_bplane_addrs, set_chipmem_addr,
       SetPointers, handle_bplane_move, handle_modulos, SetModulos, ColourKeys,
       handle_palette, palette_index, init_cop_cfg, handle_palette_move, OtherKey
  <2>2. QED BY <2>1 DEF Look
<1>3. CASE Quit \/ Leave \/ Left \/ SaveFile
  BY <1>3 DEF Quit, Leave, Left, SaveFile, screenVars
<1>4. QED BY <1>1, <1>2, <1>3 DEF ScreenNext, screenVars

LEMMA FoundSet ==
  ASSUME NEW at, NEW min, NEW pal, ListAt(at, min), LoadedFrom(at, NumColours, pal),
         chip' = chip, searched'.at = at, searched'.min = min,
         view'.pal_ptr = 2 * at, view'.pal = pal
  PROVE  FoundIsList'
<1>1. (view.pal_ptr = 2 * searched.at)' /\ Size' = Size
  BY DEF Size
<1>2. ListAt(searched.at, searched.min)'
  BY DEF ListAt, Size
<1>3. \A c \in Colours : view'.pal[c] # Black =>
        \E k \in 0 .. NumColours - 1 :
          LET p == (searched'.at + 2 * k) % Size'
          IN  chip'.mem[p] = c /\ (p = Size' - 1 \/ chip'.mem[p + 1] = view'.pal[c])
  BY <1>1 DEF LoadedFrom
<1>4. QED BY <1>1, <1>2, <1>3 DEF FoundIsList

LEMMA FoundNext ==
  ViewInv /\ PointerInv /\ FoundIsList /\ [ScreenNext]_<<vars, screenVars>> => FoundIsList'
<1> SUFFICES ASSUME ViewInv, PointerInv, FoundIsList, [ScreenNext]_<<vars, screenVars>>
             PROVE  FoundIsList'
  OBVIOUS
<1>1. CASE searched' = NoSearch
  BY <1>1 DEF FoundIsList, Found, NoSearch
<1>2. CASE UNCHANGED <<view, chip, searched>>
  BY <1>2 DEF FoundIsList, Found, ListAt, Size
<1>3. CASE handle_copper_search
  <2>1. chip' = chip /\ chip \in Chips
    BY <1>3, SearchIs
  <2>2. PICK min \in Nat \ {0}, start \in 0 .. Size - 1 : SearchKey(min, start)
    BY <1>3, SearchIs
  <2> DEFINE s == Search(start, min)
             at == s.at
             pal == LoadColours(at)
  <2>3. CASE s.found # min
    <3>1. searched'.at = -1
      <4> HIDE DEF s
      <4>1. searched' = [min |-> min, start |-> start, at |-> -1]
        BY <2>2, <2>3 DEF SearchKey, s
      <4>2. QED BY <4>1
    <3>2. QED BY <3>1 DEF FoundIsList, Found
  <2>4. CASE s.found = min
    <3>1. /\ searched' = [min |-> min, start |-> start, at |-> at]
          /\ view' = [view EXCEPT !.pal_ptr = 2 * at, !.pal = pal]
      BY <2>2, <2>4 DEF SearchKey
    <3>2. ListAt(at, min) /\ at \in 0 .. Size - 1
      BY <2>1, <2>4, SearchFinds
    <3> HIDE DEF at
    <3>3. LoadedFrom(at, NumColours, pal)
      BY <2>1, <3>2, ColoursLoaded
    <3> HIDE DEF pal
    <3>4. searched'.at = at /\ searched'.min = min /\ view'.pal_ptr = 2 * at /\ view'.pal = pal
      BY <3>1 DEF PointerInv, ViewShape
    <3>5. QED BY <2>1, <3>2, <3>3, <3>4, FoundSet
  <2>5. QED BY <2>3, <2>4
<1>4. QED BY <1>1, <1>2, <1>3, OthersSearchNothing

(* Where "palette" is shown stands a list, and what was loaded comes from it   *)
(* (copper_search()).                                                          *)
THEOREM ScreenFindsLists == ScreenSpec => []FoundIsList
<1>1. ScreenInit => FoundIsList
  BY DEF ScreenInit, FoundIsList, Found, NoSearch
<1>2. QED BY <1>1, FoundNext, ScreenView, ScreenPointers, PTL DEF ScreenSpec

LEMMA MissedNext ==
  ViewInv /\ PointerInv /\ NoneMissed /\ [ScreenNext]_<<vars, screenVars>> => NoneMissed'
<1> SUFFICES ASSUME ViewInv, PointerInv, NoneMissed, [ScreenNext]_<<vars, screenVars>>
             PROVE  NoneMissed'
  OBVIOUS
<1>1. CASE searched' = NoSearch
  BY <1>1 DEF NoneMissed, NoSearch
<1>2. CASE UNCHANGED <<view, chip, searched>>
  BY <1>2 DEF NoneMissed, ClearList, Behind, Found, ListAt, Size
<1>3. CASE handle_copper_search
  <2>1. chip' = chip /\ chip \in Chips
    BY <1>3, SearchIs
  <2>2. PICK min \in Nat \ {0}, start \in 0 .. Size - 1 : SearchKey(min, start)
    BY <1>3, SearchIs
  <2> DEFINE s == Search(start, min)
  <2>3. /\ searched'.min = min /\ searched'.start = start
        /\ s.found = min => searched'.at = s.at
    BY <2>2 DEF SearchKey
  <2>4. SUFFICES ASSUME NEW p \in 0 .. Size - 1, ClearList(p)'
                 PROVE  Found' /\ Behind(searched.at)' <= Behind(p)'
    BY <2>1 DEF NoneMissed, Size
  <2>5. /\ ListAt(p, min) /\ ((p - start) % Size) + 2 * min <= Size
        /\ \A k \in {1, 2} : k <= (p - start) % Size => chip.mem[(p - k) % Size] \notin Colours
    BY <2>1, <2>3, <2>4 DEF ClearList, Behind, ListAt, Size
  <2>6. /\ s.found = min /\ (s.at - start) % Size <= (p - start) % Size
    BY <2>1, <2>5, SearchMissesNone
  <2>7. s.at \in 0 .. Size - 1
    BY <2>1, SearchTyped
  <2> HIDE DEF s
  <2>8. searched'.at = s.at /\ Size' = Size /\ s.at # -1
    BY <2>1, <2>3, <2>6, <2>7 DEF Size
  <2>9. QED BY <2>3, <2>6, <2>8 DEF Found, Behind
<1>4. QED BY <1>1, <1>2, <1>3, OthersSearchNothing

(* No clear list is passed over, in front of the one that was found or where   *)
(* "not found" is shown (copper_search()).                                     *)
THEOREM ScreenMissesNone == ScreenSpec => []NoneMissed
<1>1. ScreenInit => NoneMissed
  BY DEF ScreenInit, NoneMissed, NoSearch
<1>2. QED BY <1>1, MissedNext, ScreenView, ScreenPointers, PTL DEF ScreenSpec
=============================================================================
