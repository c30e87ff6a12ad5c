----------------------------- MODULE IlbmWriter -----------------------------
(* The files the searcher saves (searcher/ilbmw.c): the lengths save_iff(),    *)
(* save_raw() and save_pal() announce, and the writes they make.  cfg is the   *)
(* searcher's cop_cfg_t, odd selects a playfield.                              *)
EXTENDS Integers, Sequences, FiniteSets, SequencesExt

MAXSAVEDEPTH == 6

(* 1 << n *)
Pow2(n) == <<1, 2, 4, 8, 16, 32, 64, 128>>[n + 1]

BytesPerRow(cfg) == cfg.scr_width \div 8
Has(cfg, mode) == mode \in cfg.flags
Dual(cfg) == Has(cfg, "DUALPF") /\ cfg.num_bpl > 1

(* Mutant: an odd plane is left out. *)
HalfDown(cfg, n, odd) ==
  LET half == n \div 2 IN IF odd THEN half ELSE cfg.num_bpl - half

(* Planes of one playfield, for a picture of n planes. *)
Half(cfg, n, odd) ==
  LET half == (n % 2) + (n \div 2) IN IF odd THEN half ELSE cfg.num_bpl - half

Capped(cfg) == IF cfg.num_bpl > MAXSAVEDEPTH THEN MAXSAVEDEPTH ELSE cfg.num_bpl

(* nbplanes of save_iff(), as BMHD and the length of BODY tell it. *)
NbPlanes(cfg, odd) ==
  LET n == IF Has(cfg, "HAM") THEN 6 ELSE Capped(cfg)
  IN  IF Dual(cfg) THEN Half(cfg, n, odd) ELSE n

SingleColors(cfg) ==
  IF cfg.num_bpl < 6 THEN Pow2(cfg.num_bpl) ELSE IF cfg.num_bpl > 6 THEN 16 ELSE 32

NColors(cfg, odd) ==
  IF Dual(cfg) THEN Pow2(NbPlanes(cfg, odd)) ELSE SingleColors(cfg)

ModeId(cfg) ==
  {m \in {"HIRES"} : Has(cfg, m)} \cup
  IF Dual(cfg) THEN {}
  ELSE {m \in {"HAM"} : Has(cfg, m)} \cup
       {m \in {"EXTRA_HALFBRITE"} : Has(cfg, "STD") /\ Capped(cfg) = 6}

BodySize(cfg, odd) == cfg.scr_height * NbPlanes(cfg, odd) * BytesPerRow(cfg)

(* What is written behind FORM: CAMG is always counted. *)
FormSize(cfg, odd) ==
  4 + (8 + 20) + (8 + 3 * NColors(cfg, odd)) + (8 + 4) + 8 + BodySize(cfg, odd)

(* Mutant: every file has every plane. *)
SavedPlanesBoth(cfg, odd) == 0 .. cfg.num_bpl - 1

(* The planes whose rows the loops of save_iff() and save_raw() write. *)
SavedPlanes(cfg, odd) ==
  {m \in 0 .. cfg.num_bpl - 1 : Has(cfg, "DUALPF") => (odd <=> m % 2 = 0)}

(* Writes are runs <<count, length>>; a run of none is left out. *)
Run(count, length) == IF count > 0 THEN << <<count, length>> >> ELSE << >>

Rows(cfg, odd) ==
  Run(cfg.scr_height * Cardinality(SavedPlanes(cfg, odd)), BytesPerRow(cfg))

IffWrites(cfg, odd) ==
  << <<5, 4>>,                                  \* FORM, its size, ILBM, BMHD, its size
     <<4, 2>>, <<4, 1>>, <<1, 2>>,              \* w to y, nPlanes to reserved1, transparentColor
     <<2, 1>>, <<2, 2>>,                        \* aspects, page
     <<2, 4>>, <<NColors(cfg, odd), 3>> >>      \* CMAP
  \o Run(IF ModeId(cfg) = {} THEN 0 ELSE 3, 4)  \* CAMG
  \o << <<2, 4>> >> \o Rows(cfg, odd)           \* BODY

RawWrites(cfg, odd) == Rows(cfg, odd)

PalColors(cfg, odd) ==
  IF Dual(cfg) THEN Pow2(Half(cfg, cfg.num_bpl, odd)) ELSE SingleColors(cfg)

PalWrites(cfg, odd) == << <<1, 2 * PalColors(cfg, odd)>> >>

Writes(cfg, odd) ==
  CASE cfg.save_as = "IFF" -> IffWrites(cfg, odd)
    [] cfg.save_as = "RAW" -> RawWrites(cfg, odd)
    [] cfg.save_as = "PAL" -> PalWrites(cfg, odd)

(* Bytes in the first n of a list of writes, and in all of them. *)
Totals(runs) ==
  LET total[n \in 0 .. Len(runs)] ==
        IF n = 0 THEN 0 ELSE total[n - 1] + runs[n][1] * runs[n][2]
  IN  total

Bytes(runs) == Totals(runs)[Len(runs)]

(* The list after one write. *)
Advance(runs) ==
  IF runs[1][1] = 1 THEN Tail(runs)
  ELSE << <<runs[1][1] - 1, runs[1][2]>> >> \o Tail(runs)

(* The row loops store plane pointers past the end of planes[]. *)
PlanesOverrun(cfg) == cfg.save_as # "PAL" /\ cfg.num_bpl > MAXSAVEDEPTH
=============================================================================
