---------------------------- MODULE SearcherProof ----------------------------
(***************************************************************************)
(* Proofs about the searcher, for any widths and heights, any buffer that   *)
(* holds a row and a palette, and any short writes: no byte is lost between *)
(* save_iff() and the file, the buffer is never overrun, the modes agree,   *)
(* and the handle is given back.                                            *)
(***************************************************************************)
EXTENDS Searcher, Induction, FiniteSetTheorems

-----------------------------------------------------------------------------
(* The buffered handle. *)

Handle == IffTypeOK /\ NothingLost /\ BufferFits

\* Every outcome of Write() is a number.
LEMMA OutcomeInt == ASSUME NEW n \in Nat, NEW w \in Outcomes(n) PROVE w \in Int
<1>1. w = -1 \/ w = n \/ w \in ShortCounts
  BY DEF Outcomes
<1>2. ShortCounts \subseteq Nat
  BY BufferAssumption
<1>3. CASE w = -1
  BY <1>3
<1>4. CASE w \in ShortCounts
  BY <1>2, <1>4
<1>5. QED
  BY <1>1, <1>3, <1>4

LEMMA OpenKeeps ==
  ASSUME Handle, NEW r \in BOOLEAN, s_open(r)
  PROVE  Handle'
<1>1. CASE handle
  BY <1>1 DEF Handle, s_open, IffTypeOK, NothingLost, BufferFits, Errors
<1>2. CASE ~handle
  <2>1. /\ handle' = r /\ buffer_pos' = 0 /\ last_ioerr' = "none"
        /\ dos_err' \in (IF r THEN {dos_err, "none"} ELSE {"disk"})
        /\ file' = 0 /\ taken' = 0 /\ lossy' = FALSE /\ allocated' = allocated
    BY <1>2 DEF s_open
  <2>2. IffTypeOK'
    BY <2>1 DEF Handle, IffTypeOK, Errors
  <2>3. NothingLost' /\ BufferFits'
    BY <2>1, BufferAssumption DEF NothingLost, BufferFits
  <2>4. QED
    BY <2>2, <2>3 DEF Handle
<1>3. QED
  BY <1>1, <1>2

\* A write of no more than the buffer holds keeps the handle's promise.
LEMMA WriteKeeps ==
  ASSUME Handle, NEW length \in Nat, length <= BufferSize, NEW r \in Int,
         s_write(length, r)
  PROVE  Handle'
<1>1. CASE NotOpen(r)
  BY <1>1 DEF Handle, NotOpen, IffTypeOK, NothingLost, BufferFits, Errors
<1>2. CASE Gather(length, r)
  BY <1>2, BufferAssumption
     DEF Handle, Gather, IffTypeOK, NothingLost, BufferFits
<1>3. CASE Spill(length, r)
  <2>1. PICK w \in Outcomes(BufferSize) :
          /\ Write(BufferSize, w)
          /\ r = IF w > 0 THEN length ELSE w
          /\ buffer_pos' = IF w > 0 THEN buffer_pos + length - BufferSize ELSE buffer_pos
          /\ taken' = IF w >= 0 THEN taken + length ELSE taken
    BY <1>3 DEF Spill
  <2>2. w \in Int /\ BufferSize \in Nat \ {0}
    BY <2>1, OutcomeInt, BufferAssumption
  <2>3. buffer_pos + length >= BufferSize /\ UNCHANGED <<allocated, handle, last_ioerr>>
    BY <1>3 DEF Spill
  <2>4. IffTypeOK'
    BY <2>1, <2>2, <2>3 DEF Handle, Write, IffTypeOK, Errors
  <2>5. BufferFits'
    BY <2>1, <2>2, <2>3 DEF Handle, IffTypeOK, BufferFits
  <2>6. NothingLost'
    <3>1. SUFFICES ASSUME ~lossy' PROVE file' + buffer_pos' = taken'
      BY DEF NothingLost
    <3>2. ~lossy /\ w \notin 0 .. BufferSize - 1
      BY <2>1, <3>1 DEF Write
    <3>3. w = -1 \/ w = BufferSize
      BY <2>1, <2>2, <3>2, BufferAssumption DEF Outcomes
    <3>4. QED
      BY <2>1, <2>2, <3>2, <3>3 DEF Handle, Write, IffTypeOK, NothingLost
  <2>7. QED
    BY <2>4, <2>5, <2>6 DEF Handle
<1>4. QED
  BY <1>1, <1>2, <1>3 DEF s_write

\* Flushing too, whatever it comes to.
LEMMA FlushKeeps ==
  ASSUME Handle, NEW r \in Int, s_flush(r), handle' \in BOOLEAN,
         UNCHANGED <<last_ioerr, taken>>, allocated' \in BOOLEAN
  PROVE  Handle'
<1>1. CASE buffer_pos = 0 /\ UNCHANGED <<buffer_pos, file, lossy>> /\ dos_err' \in {dos_err, "none"}
  BY <1>1 DEF Handle, IffTypeOK, NothingLost, BufferFits
<1>2. CASE buffer_pos > 0 /\ \E w \in Outcomes(buffer_pos) :
             /\ Write(buffer_pos, w)
             /\ r = IF w < 0 THEN -1 ELSE 0
             /\ buffer_pos' = IF w < 0 THEN buffer_pos ELSE 0
  <2>1. PICK w \in Outcomes(buffer_pos) :
          /\ Write(buffer_pos, w)
          /\ buffer_pos' = IF w < 0 THEN buffer_pos ELSE 0
    BY <1>2
  <2>2. w \in Int /\ buffer_pos \in Nat
    BY <2>1, OutcomeInt DEF Handle, IffTypeOK
  <2>3. IffTypeOK'
    BY <2>1, <2>2 DEF Handle, Write, IffTypeOK
  <2>4. BufferFits'
    BY <2>1, <2>2, BufferAssumption DEF Handle, BufferFits
  <2>5. NothingLost'
    <3>1. SUFFICES ASSUME ~lossy' PROVE file' + buffer_pos' = taken'
      BY DEF NothingLost
    <3>2. ~lossy /\ w \notin 0 .. buffer_pos - 1
      BY <2>1, <3>1 DEF Write
    <3>3. w = -1 \/ w = buffer_pos
      BY <2>1, <2>2, <3>2, BufferAssumption DEF Outcomes
    <3>4. QED
      BY <1>2, <2>1, <2>2, <3>2, <3>3 DEF Handle, Write, IffTypeOK, NothingLost
  <2>6. QED
    BY <2>3, <2>4, <2>5 DEF Handle
<1>3. QED
  BY <1>1, <1>2 DEF s_flush

LEMMA CloseKeeps ==
  ASSUME Handle, NEW r \in Int, s_close(r)
  PROVE  Handle'
<1>1. CASE NotOpen(r)
  BY <1>1 DEF Handle, NotOpen, IffTypeOK, NothingLost, BufferFits, Errors
<1>2. CASE s_flush(r) /\ handle' = (r < 0) /\ UNCHANGED <<allocated, last_ioerr, taken>>
  BY <1>2, FlushKeeps DEF Handle, IffTypeOK
<1>3. QED
  BY <1>1, <1>2 DEF s_close

LEMMA FreeKeeps ==
  ASSUME Handle, NEW r \in Int, freeIFFHandle(r)
  PROVE  Handle'
<1>1. CASE UNCHANGED <<handle, buffer_pos, last_ioerr, dos_err, file, taken, lossy>>
  BY <1>1 DEF Handle, freeIFFHandle, IffTypeOK, NothingLost, BufferFits
<1>2. CASE s_flush(r) /\ handle' = (r < 0) /\ UNCHANGED <<last_ioerr, taken>>
  <2>1. handle' \in BOOLEAN
    BY <1>2
  <2>2. allocated' = FALSE
    BY DEF freeIFFHandle
  <2>3. QED
    BY <1>2, <2>1, <2>2, FlushKeeps
<1>3. QED
  BY <1>1, <1>2 DEF freeIFFHandle

-----------------------------------------------------------------------------
(* The writes of a picture. *)

Settings == cfg \in Config /\ ModesAgree /\ RowsFit

LEMMA RunTyped ==
  ASSUME NEW count \in Int, NEW length \in Nat, length <= BufferSize
  PROVE  Run(count, length) \in Seq(Runs)
<1>1. CASE count > 0
  <2>1. <<count, length>> \in Runs
    BY <1>1 DEF Runs
  <2>2. QED
    BY <1>1, <2>1 DEF Run
<1>2. CASE ~(count > 0)
  BY <1>2 DEF Run
<1>3. QED
  BY <1>1, <1>2

\* Rows and palettes fit the buffer.
LEMMA RowLength ==
  ASSUME Settings
  PROVE  BytesPerRow(cfg) \in Nat /\ BytesPerRow(cfg) <= BufferSize
  BY WidthAssumption, BufferAssumption DEF Settings, RowsFit

LEMMA Pow2Range ==
  ASSUME NEW n \in 0 .. 7
  PROVE  Pow2(n) \in 1 .. 128 /\ (n <= 5 => Pow2(n) <= 32)
<1>1. n = 0 \/ n = 1 \/ n = 2 \/ n = 3 \/ n = 4 \/ n = 5 \/ n = 6 \/ n = 7
  OBVIOUS
<1>2. QED
  BY <1>1 DEF Pow2

\* Half the planes of a picture: at most four.
LEMMA HalfRange ==
  ASSUME Settings, NEW n \in 2 .. 7, NEW o \in BOOLEAN,
         n = cfg.num_bpl \/ (n = 6 /\ cfg.num_bpl = 7)
  PROVE  Half(cfg, n, o) \in 0 .. 4
<1>1. n = 2 \/ n = 3 \/ n = 4 \/ n = 5 \/ n = 6 \/ n = 7
  OBVIOUS
<1>2. CASE n = cfg.num_bpl
  BY <1>1, <1>2 DEF Half
<1>3. CASE n = 6 /\ cfg.num_bpl = 7
  BY <1>3 DEF Half
<1>4. QED
  BY <1>2, <1>3

LEMMA PlanesTyped ==
  ASSUME Settings
  PROVE  /\ cfg.num_bpl \in 0 .. 7
         /\ cfg.flags \subseteq Modes
         /\ cfg.scr_height \in Nat
         /\ cfg.save_as \in {"IFF", "RAW", "PAL"}
<1>1. /\ cfg.num_bpl \in 0 .. 7 /\ cfg.flags \in SUBSET Modes
      /\ cfg.scr_height \in Heights /\ cfg.save_as \in SaveFormats
  BY DEF Settings, Config
<1>2. QED
  BY <1>1, WidthAssumption DEF SaveFormats

LEMMA SavedPlanesCount ==
  ASSUME Settings, NEW o \in BOOLEAN
  PROVE  Cardinality(SavedPlanes(cfg, o)) \in Nat
<1>1. IsFiniteSet(0 .. cfg.num_bpl - 1)
  <2>1. cfg.num_bpl - 1 \in Int
    BY PlanesTyped
  <2>2. QED
    BY <2>1, FS_Interval
<1>2. SavedPlanes(cfg, o) \subseteq 0 .. cfg.num_bpl - 1
  BY DEF SavedPlanes
<1>3. QED
  BY <1>1, <1>2, FS_Subset, FS_CardinalityType

LEMMA SingleColorsRange ==
  ASSUME Settings
  PROVE  SingleColors(cfg) \in 1 .. 32
<1>1. CASE cfg.num_bpl < 6
  BY <1>1, PlanesTyped, Pow2Range DEF SingleColors
<1>2. CASE ~(cfg.num_bpl < 6)
  BY <1>2, PlanesTyped DEF SingleColors
<1>3. QED
  BY <1>1, <1>2

LEMMA PalColorsRange ==
  ASSUME Settings, NEW o \in BOOLEAN
  PROVE  PalColors(cfg, o) \in 1 .. 32
<1>1. CASE Dual(cfg)
  <2>1. cfg.num_bpl \in 2 .. 7
    BY <1>1, PlanesTyped DEF Dual
  <2>2. Half(cfg, cfg.num_bpl, o) \in 0 .. 4
    BY <2>1, HalfRange
  <2>3. QED
    BY <1>1, <2>2, Pow2Range DEF PalColors
<1>2. CASE ~Dual(cfg)
  BY <1>2, SingleColorsRange DEF PalColors
<1>3. QED
  BY <1>1, <1>2

LEMMA NColorsRange ==
  ASSUME Settings, NEW o \in BOOLEAN
  PROVE  NColors(cfg, o) \in 1 .. 32
<1>1. CASE Dual(cfg)
  <2>1. cfg.num_bpl \in 2 .. 7 /\ Has(cfg, "DUALPF")
    BY <1>1, PlanesTyped DEF Dual
  <2>2. ~Has(cfg, "HAM")
    BY <2>1 DEF Settings, ModesAgree
  <2>3. /\ Capped(cfg) \in 2 .. 7
        /\ Capped(cfg) = cfg.num_bpl \/ (Capped(cfg) = 6 /\ cfg.num_bpl = 7)
    <3>1. CASE cfg.num_bpl = 7
      BY <3>1 DEF Capped, MAXSAVEDEPTH
    <3>2. CASE cfg.num_bpl \in 2 .. 6
      BY <3>2 DEF Capped, MAXSAVEDEPTH
    <3>3. QED
      BY <2>1, <3>1, <3>2
  <2>4. NbPlanes(cfg, o) \in 0 .. 4
    BY <1>1, <2>2, <2>3, HalfRange DEF NbPlanes
  <2>5. QED
    BY <1>1, <2>4, Pow2Range DEF NColors
<1>2. CASE ~Dual(cfg)
  BY <1>2, SingleColorsRange DEF NColors
<1>3. QED
  BY <1>1, <1>2

LEMMA RowsTyped ==
  ASSUME Settings, NEW o \in BOOLEAN
  PROVE  Rows(cfg, o) \in Seq(Runs)
<1>1. cfg.scr_height * Cardinality(SavedPlanes(cfg, o)) \in Int
  BY PlanesTyped, SavedPlanesCount
<1>2. QED
  BY <1>1, RowLength, RunTyped DEF Rows

LEMMA WritesTyped ==
  ASSUME Settings, NEW o \in BOOLEAN
  PROVE  Writes(cfg, o) \in Seq(Runs)
<1>1. BufferSize \in Nat /\ 64 <= BufferSize
  BY BufferAssumption, WidthAssumption
<1>2. CASE cfg.save_as = "IFF"
  <2>1. NColors(cfg, o) \in Nat \ {0}
    BY NColorsRange
  <2>2. << <<5, 4>>, <<4, 2>>, <<4, 1>>, <<1, 2>>, <<2, 1>>, <<2, 2>>, <<2, 4>>,
           <<NColors(cfg, o), 3>> >> \in Seq(Runs)
    BY <1>1, <2>1 DEF Runs
  <2>3. Run(IF ModeId(cfg) = {} THEN 0 ELSE 3, 4) \in Seq(Runs)
    <3>1. (IF ModeId(cfg) = {} THEN 0 ELSE 3) \in Int
      OBVIOUS
    <3>2. 4 \in Nat /\ 4 <= BufferSize
      BY <1>1
    <3>3. QED
      BY <3>1, <3>2, RunTyped
  <2>4. << <<2, 4>> >> \in Seq(Runs)
    BY <1>1 DEF Runs
  <2>5. IffWrites(cfg, o) \in Seq(Runs)
    BY <2>2, <2>3, <2>4, RowsTyped DEF IffWrites
  <2>6. QED
    BY <1>2, <2>5 DEF Writes
<1>3. CASE cfg.save_as = "RAW"
  BY <1>3, RowsTyped DEF Writes, RawWrites
<1>4. CASE cfg.save_as = "PAL"
  <2>1. 2 * PalColors(cfg, o) \in Nat /\ 2 * PalColors(cfg, o) <= BufferSize
    BY <1>1, PalColorsRange
  <2>2. << <<1, 2 * PalColors(cfg, o)>> >> \in Seq(Runs)
    BY <2>1 DEF Runs
  <2>3. QED
    BY <1>4, <2>2 DEF Writes, PalWrites
<1>5. QED
  BY <1>2, <1>3, <1>4, PlanesTyped

\* One write less is still a list of writes that fit.
LEMMA AdvanceTyped ==
  ASSUME NEW runs \in Seq(Runs), runs # <<>>
  PROVE  /\ Advance(runs) \in Seq(Runs)
         /\ runs[1][2] \in Nat /\ runs[1][2] <= BufferSize
<1>1. runs[1] \in Runs /\ Tail(runs) \in Seq(Runs)
  OBVIOUS
<1>2. /\ runs[1][1] \in Nat \ {0} /\ runs[1][2] \in Nat /\ runs[1][2] <= BufferSize
  BY <1>1 DEF Runs
<1>3. CASE runs[1][1] = 1
  BY <1>1, <1>2, <1>3 DEF Advance
<1>4. CASE runs[1][1] # 1
  <2>1. <<runs[1][1] - 1, runs[1][2]>> \in Runs
    BY <1>2, <1>4 DEF Runs
  <2>2. QED
    BY <1>1, <1>2, <1>4, <2>1 DEF Advance
<1>5. QED
  BY <1>3, <1>4, <1>2

-----------------------------------------------------------------------------
(* How many bytes a list of writes has. *)

\* The total of n writes is a recursive definition, and there is a function it
\* defines.
LEMMA TotalsDefined ==
  ASSUME NEW runs \in Seq(Runs)
  PROVE  Totals(runs) = [n \in 0 .. Len(runs) |->
                           IF n = 0 THEN 0
                           ELSE Totals(runs)[n - 1] + runs[n][1] * runs[n][2]]
<1> DEFINE N == Len(runs)
           v0 == 0
           step == [p \in Nat \X (1 .. N) |-> p[1] + runs[p[2]][1] * runs[p[2]][2]]
           loop(g) == [n \in 0 .. Len(runs) |->
                         IF n = 0 THEN 0 ELSE g[n - 1] + runs[n][1] * runs[n][2]]
<1>0. \A n \in 1 .. N : runs[n][1] \in Nat /\ runs[n][2] \in Nat
  BY DEF Runs
<1>1. N \in Nat /\ v0 \in Nat /\ step \in [Nat \X (1 .. N) -> Nat]
  <2>1. ASSUME NEW p \in Nat \X (1 .. N)
        PROVE  p[1] + runs[p[2]][1] * runs[p[2]][2] \in Nat
    <3>1. p[1] \in Nat /\ p[2] \in 1 .. N
      OBVIOUS
    <3>2. runs[p[2]][1] \in Nat /\ runs[p[2]][2] \in Nat
      BY <1>0, <3>1
    <3>3. QED BY <3>1, <3>2
  <2>2. QED BY <2>1
<1>2. PICK g \in [0 .. N -> Nat] : Computes(g, N, v0, step)
  <2> HIDE DEF N, v0, step
  <2>1. QED BY <1>1, Recursion
<1>3. ASSUME NEW n \in 0 .. N PROVE g[n] = loop(g)[n]
  <2>1. CASE n = 0
    BY <2>1, <1>2 DEF Computes
  <2>2. CASE n # 0
    <3>1. n \in 1 .. N /\ n - 1 \in 0 .. N
      BY <2>2
    <3>2. g[n - 1] \in Nat
      BY <3>1
    <3>3. g[n] = step[<<g[n - 1], n>>]
      BY <1>2, <3>1 DEF Computes
    <3>4. step[<<g[n - 1], n>>] = g[n - 1] + runs[n][1] * runs[n][2]
      BY <3>1, <3>2
    <3> HIDE DEF step
    <3>5. QED BY <2>2, <3>3, <3>4
  <2>3. QED BY <2>1, <2>2
<1>4. g = loop(g)
  <2>1. g = [n \in 0 .. N |-> g[n]]
    OBVIOUS
  <2>2. loop(g) = [n \in 0 .. N |-> loop(g)[n]]
    OBVIOUS
  <2> HIDE DEF loop
  <2>3. QED BY <1>3, <2>1, <2>2
<1>5. Totals(runs) = CHOOSE total : total = loop(total)
  BY DEF Totals
<1> HIDE DEF loop
<1>6. Totals(runs) = loop(Totals(runs))
  BY <1>4, <1>5
<1>7. QED BY <1>6 DEF loop

LEMMA TotalsStep ==
  ASSUME NEW runs \in Seq(Runs)
  PROVE  /\ Len(runs) \in Nat
         /\ Totals(runs)[0] = 0
         /\ \A n \in 1 .. Len(runs) :
              /\ Totals(runs)[n] = Totals(runs)[n - 1] + runs[n][1] * runs[n][2]
              /\ runs[n][1] \in Nat /\ runs[n][2] \in Nat
         /\ \A n \in 0 .. Len(runs) : Totals(runs)[n] \in Nat
         /\ Bytes(runs) \in Nat
<1> DEFINE N == Len(runs)
<1>1. N \in Nat
  OBVIOUS
<1>2. Totals(runs)[0] = 0
  <2>1. 0 \in 0 .. N
    BY <1>1
  <2>2. QED BY <2>1, TotalsDefined
<1>3. ASSUME NEW n \in 1 .. N
      PROVE  /\ Totals(runs)[n] = Totals(runs)[n - 1] + runs[n][1] * runs[n][2]
             /\ runs[n][1] \in Nat /\ runs[n][2] \in Nat
  <2>1. n \in 0 .. N /\ n # 0
    OBVIOUS
  <2>2. Totals(runs)[n] = Totals(runs)[n - 1] + runs[n][1] * runs[n][2]
    BY <2>1, TotalsDefined
  <2>3. runs[n] \in Runs
    OBVIOUS
  <2>4. QED BY <2>2, <2>3 DEF Runs
<1> DEFINE S == {n \in 0 .. N : Totals(runs)[n] \in Nat}
<1>4. 0 \in S
  BY <1>1, <1>2
<1>5. ASSUME NEW n \in 0 .. (N - 1), n \in S PROVE n + 1 \in S
  <2>1. n + 1 \in 1 .. N /\ (n + 1) - 1 = n /\ n + 1 \in 0 .. N
    BY <1>1
  <2>2. runs[n + 1][1] \in Nat /\ runs[n + 1][2] \in Nat /\ Totals(runs)[n] \in Nat
    BY <1>3, <1>5, <2>1
  <2>3. Totals(runs)[n + 1] = Totals(runs)[n] + runs[n + 1][1] * runs[n + 1][2]
    BY <1>3, <2>1
  <2>4. QED BY <2>1, <2>2, <2>3
<1>6. \A n \in 0 .. N : n \in S
  <2> HIDE DEF S, N
  <2>1. QED BY <1>1, <1>4, <1>5, IntervalInduction
<1>7. Bytes(runs) \in Nat
  <2>1. N \in 0 .. N
    BY <1>1
  <2>2. QED BY <1>6, <2>1 DEF Bytes
<1>8. QED BY <1>1, <1>2, <1>3, <1>6, <1>7

\* One list behind the other has the bytes of both.
LEMMA BytesJoined ==
  ASSUME NEW s \in Seq(Runs), NEW t \in Seq(Runs)
  PROVE  s \o t \in Seq(Runs) /\ Bytes(s \o t) = Bytes(s) + Bytes(t)
<1> DEFINE u == s \o t
           M == Len(s)
           N == Len(t)
<1>1. /\ u \in Seq(Runs) /\ M \in Nat /\ N \in Nat /\ Len(u) = M + N
      /\ \A i \in 1 .. M : u[i] = s[i]
      /\ \A i \in 1 .. N : u[M + i] = t[i]
  OBVIOUS
<1> HIDE DEF u
<1>2. /\ Totals(u)[0] = 0
      /\ \A n \in 1 .. (M + N) : Totals(u)[n] = Totals(u)[n - 1] + u[n][1] * u[n][2]
  BY <1>1, TotalsStep
<1>3. /\ Totals(s)[0] = 0
      /\ \A n \in 1 .. M : Totals(s)[n] = Totals(s)[n - 1] + s[n][1] * s[n][2]
      /\ \A n \in 0 .. M : Totals(s)[n] \in Nat
      /\ Bytes(s) \in Nat /\ Bytes(s) = Totals(s)[M]
  BY TotalsStep DEF Bytes
<1>4. /\ Totals(t)[0] = 0
      /\ \A n \in 1 .. N : /\ Totals(t)[n] = Totals(t)[n - 1] + t[n][1] * t[n][2]
                           /\ t[n][1] \in Nat /\ t[n][2] \in Nat
      /\ \A n \in 0 .. N : Totals(t)[n] \in Nat
      /\ Bytes(t) \in Nat /\ Bytes(t) = Totals(t)[N]
  BY TotalsStep DEF Bytes
<1> HIDE DEF M, N
<1>5. \A n \in 0 .. M : Totals(u)[n] = Totals(s)[n]
  <2> DEFINE S == {n \in 0 .. M : Totals(u)[n] = Totals(s)[n]}
  <2>1. 0 \in S
    BY <1>1, <1>2, <1>3
  <2>2. ASSUME NEW n \in 0 .. (M - 1), n \in S PROVE n + 1 \in S
    <3>1. /\ n + 1 \in 1 .. M /\ (n + 1) - 1 = n /\ n + 1 \in 0 .. M
          /\ n + 1 \in 1 .. (M + N)
      BY <1>1
    <3>2. Totals(u)[n + 1] = Totals(u)[n] + u[n + 1][1] * u[n + 1][2]
      BY <1>2, <3>1
    <3>3. Totals(s)[n + 1] = Totals(s)[n] + s[n + 1][1] * s[n + 1][2]
      BY <1>3, <3>1
    <3>4. u[n + 1] = s[n + 1] /\ Totals(u)[n] = Totals(s)[n]
      BY <1>1, <2>2, <3>1
    <3>5. QED BY <3>1, <3>2, <3>3, <3>4
  <2>3. \A n \in 0 .. M : n \in S
    <3> HIDE DEF S
    <3>1. QED BY <1>1, <2>1, <2>2, IntervalInduction
  <2>4. QED BY <2>3
<1>6. \A n \in 0 .. N : Totals(u)[M + n] = Totals(s)[M] + Totals(t)[n]
  <2> DEFINE S == {n \in 0 .. N : Totals(u)[M + n] = Totals(s)[M] + Totals(t)[n]}
  <2>1. 0 \in S
    <3>1. M \in 0 .. M /\ M + 0 = M /\ 0 \in 0 .. N
      BY <1>1
    <3>2. Totals(s)[M] \in Nat /\ Totals(u)[M] = Totals(s)[M]
      BY <1>3, <1>5, <3>1
    <3>3. Totals(s)[M] + Totals(t)[0] = Totals(s)[M]
      BY <1>4, <3>2
    <3>4. QED BY <3>1, <3>2, <3>3
  <2>2. ASSUME NEW n \in 0 .. (N - 1), n \in S PROVE n + 1 \in S
    <3>1. /\ n + 1 \in 1 .. N /\ (n + 1) - 1 = n /\ n + 1 \in 0 .. N /\ n \in 0 .. N
          /\ M + (n + 1) \in 1 .. (M + N) /\ (M + (n + 1)) - 1 = M + n /\ M \in 0 .. M
      BY <1>1
    <3>2. Totals(u)[M + (n + 1)] =
            Totals(u)[M + n] + u[M + (n + 1)][1] * u[M + (n + 1)][2]
      BY <1>2, <3>1
    <3>3. Totals(t)[n + 1] = Totals(t)[n] + t[n + 1][1] * t[n + 1][2]
      BY <1>4, <3>1
    <3>4. u[M + (n + 1)] = t[n + 1] /\ Totals(u)[M + n] = Totals(s)[M] + Totals(t)[n]
      BY <1>1, <2>2, <3>1
    <3> DEFINE a == Totals(s)[M]
               b == Totals(t)[n]
               c == t[n + 1][1] * t[n + 1][2]
    <3>5. a \in Nat /\ b \in Nat
      BY <1>3, <1>4, <3>1
    <3>6. t[n + 1][1] \in Nat /\ t[n + 1][2] \in Nat
      BY <1>4, <3>1
    <3>7. c \in Nat
      BY <3>6
    <3>8. Totals(u)[M + (n + 1)] = (a + b) + c /\ Totals(t)[n + 1] = b + c
      BY <3>2, <3>3, <3>4
    <3> HIDE DEF a, b, c
    <3>9. (a + b) + c = a + (b + c)
      BY <3>5, <3>7
    <3>10. Totals(u)[M + (n + 1)] = a + Totals(t)[n + 1]
      BY <3>8, <3>9
    <3>11. QED BY <3>1, <3>10 DEF a
  <2>3. \A n \in 0 .. N : n \in S
    <3> HIDE DEF S
    <3>1. QED BY <1>1, <2>1, <2>2, IntervalInduction
  <2>4. QED BY <2>3
<1>7. N \in 0 .. N
  BY <1>1
<1>8. Bytes(u) = Totals(u)[M + N]
  BY <1>1 DEF Bytes
<1>9. QED BY <1>1, <1>3, <1>4, <1>6, <1>7, <1>8 DEF u

LEMMA BytesNone == Bytes(<<>>) = 0
<1>1. <<>> \in Seq(Runs) /\ Len(<<>>) = 0
  OBVIOUS
<1>2. QED BY <1>1, TotalsStep DEF Bytes

LEMMA BytesOne ==
  ASSUME NEW r \in Runs
  PROVE  <<r>> \in Seq(Runs) /\ Bytes(<<r>>) = r[1] * r[2]
<1> DEFINE s == <<r>>
<1>1. s \in Seq(Runs) /\ Len(s) = 1 /\ s[1] = r
  OBVIOUS
<1>2. r[1] \in Nat /\ r[2] \in Nat
  BY DEF Runs
<1> HIDE DEF s
<1>3. 1 \in 1 .. Len(s) /\ 1 - 1 = 0
  BY <1>1
<1>4. Totals(s)[1] = Totals(s)[0] + r[1] * r[2] /\ Totals(s)[0] = 0
  BY <1>1, <1>3, TotalsStep
<1>5. 0 + r[1] * r[2] = r[1] * r[2]
  BY <1>2
<1>6. QED BY <1>1, <1>4, <1>5 DEF Bytes, s

LEMMA BytesRun ==
  ASSUME NEW count \in Nat, NEW length \in Nat, length <= BufferSize
  PROVE  Bytes(Run(count, length)) = count * length
<1>1. CASE count > 0
  <2>1. <<count, length>> \in Runs
    BY <1>1 DEF Runs
  <2>2. QED BY <1>1, <2>1, BytesOne DEF Run
<1>2. CASE ~(count > 0)
  <2>1. count = 0
    BY <1>2
  <2>2. count * length = 0
    BY <2>1
  <2>3. QED BY <1>2, <2>2, BytesNone DEF Run
<1>3. QED BY <1>1, <1>2

\* A write takes its length off what is still to be written.
LEMMA BytesAdvance ==
  ASSUME NEW runs \in Seq(Runs), runs # <<>>
  PROVE  /\ Bytes(runs) = runs[1][2] + Bytes(Advance(runs))
         /\ Bytes(Advance(runs)) \in Nat /\ runs[1][2] \in Nat
<1> DEFINE r == runs[1]
           t == Tail(runs)
<1>1. r \in Runs /\ t \in Seq(Runs) /\ runs = <<r>> \o t
  OBVIOUS
<1>2. r[1] \in Nat \ {0} /\ r[2] \in Nat /\ r[2] <= BufferSize
  BY <1>1 DEF Runs
<1>3. Bytes(t) \in Nat
  BY <1>1, TotalsStep
<1>6. Advance(runs) = IF r[1] = 1 THEN t ELSE << <<r[1] - 1, r[2]>> >> \o t
  BY DEF Advance
<1> HIDE DEF r, t
<1>4. <<r>> \in Seq(Runs) /\ Bytes(<<r>>) = r[1] * r[2]
  BY <1>1, BytesOne
<1>5. Bytes(runs) = r[1] * r[2] + Bytes(t)
  BY <1>1, <1>4, BytesJoined
<1>7. CASE r[1] = 1
  <2>1. r[1] * r[2] = r[2]
    BY <1>2, <1>7
  <2>2. QED BY <1>2, <1>3, <1>5, <1>6, <1>7, <2>1 DEF r
<1>8. CASE r[1] # 1
  <2> DEFINE q == <<r[1] - 1, r[2]>>
  <2>1. q \in Runs /\ q[1] = r[1] - 1 /\ q[2] = r[2]
    BY <1>2, <1>8 DEF Runs
  <2> HIDE DEF q
  <2>2. <<q>> \in Seq(Runs) /\ Bytes(<<q>>) = (r[1] - 1) * r[2]
    BY <2>1, BytesOne
  <2>3. Bytes(<<q>> \o t) = (r[1] - 1) * r[2] + Bytes(t)
    BY <1>1, <2>2, BytesJoined
  <2>4. Advance(runs) = <<q>> \o t
    BY <1>6, <1>8 DEF q
  <2>5. (r[1] - 1) * r[2] \in Nat /\ r[1] * r[2] = r[2] + (r[1] - 1) * r[2]
    <3>1. \A a \in Nat \ {0}, b \in Nat : (a - 1) * b \in Nat /\ a * b = b + (a - 1) * b
      BY SMT
    <3>2. QED BY <1>2, <3>1
  <2> DEFINE x == r[1] * r[2]
             y == (r[1] - 1) * r[2]
             z == Bytes(t)
             l == r[2]
  <2>6. y \in Nat /\ x = l + y /\ z \in Nat /\ l \in Nat
    BY <1>2, <1>3, <2>5
  <2>7. Bytes(runs) = x + z /\ Bytes(Advance(runs)) = y + z
    BY <1>5, <2>3, <2>4
  <2> HIDE DEF x, y, z, l
  <2>8. Bytes(runs) = l + Bytes(Advance(runs)) /\ Bytes(Advance(runs)) \in Nat /\ l \in Nat
    BY <2>6, <2>7
  <2>9. QED BY <2>8 DEF l, r
<1>9. QED BY <1>7, <1>8

\* Playfields share the planes: the even ones are the odd playfield's.
Evens(n) == {m \in 0 .. n - 1 : m % 2 = 0}
Odds(n) == {m \in 0 .. n - 1 : m % 2 # 0}

LEMMA Shares ==
  ASSUME NEW n \in 0 .. 7
  PROVE  /\ Cardinality(Evens(n)) = (n % 2) + (n \div 2)
         /\ Cardinality(Odds(n)) = n - ((n % 2) + (n \div 2))
<1> DEFINE S == {k \in 0 .. 7 :
                   /\ IsFiniteSet(Evens(k)) /\ IsFiniteSet(Odds(k))
                   /\ Cardinality(Evens(k)) = (k % 2) + (k \div 2)
                   /\ Cardinality(Odds(k)) = k - ((k % 2) + (k \div 2))}
<1>1. 0 \in S
  <2>1. Evens(0) = {} /\ Odds(0) = {}
    BY DEF Evens, Odds
  <2>2. QED BY <2>1, FS_EmptySet
<1>2. ASSUME NEW k \in 0 .. 6, k \in S PROVE k + 1 \in S
  <2>1. /\ IsFiniteSet(Evens(k)) /\ IsFiniteSet(Odds(k))
        /\ Cardinality(Evens(k)) = (k % 2) + (k \div 2)
        /\ Cardinality(Odds(k)) = k - ((k % 2) + (k \div 2))
    BY <1>2
  <2>2. k \notin Evens(k) /\ k \notin Odds(k) /\ k + 1 \in 0 .. 7
    BY DEF Evens, Odds
  <2>3. CASE k % 2 = 0
    <3>1. Evens(k + 1) = Evens(k) \cup {k} /\ Odds(k + 1) = Odds(k)
      BY <2>3 DEF Evens, Odds
    <3>2. IsFiniteSet(Evens(k + 1)) /\ Cardinality(Evens(k + 1)) = Cardinality(Evens(k)) + 1
      BY <2>1, <2>2, <3>1, FS_AddElement
    <3>3. /\ ((k + 1) % 2) + ((k + 1) \div 2) = (k % 2) + (k \div 2) + 1
          /\ (k + 1) - ((k % 2) + (k \div 2) + 1) = k - ((k % 2) + (k \div 2))
      BY <2>3
    <3>4. QED BY <2>1, <2>2, <3>1, <3>2, <3>3
  <2>4. CASE k % 2 # 0
    <3>1. Odds(k + 1) = Odds(k) \cup {k} /\ Evens(k + 1) = Evens(k)
      BY <2>4 DEF Evens, Odds
    <3>2. IsFiniteSet(Odds(k + 1)) /\ Cardinality(Odds(k + 1)) = Cardinality(Odds(k)) + 1
      BY <2>1, <2>2, <3>1, FS_AddElement
    <3>3. /\ ((k + 1) % 2) + ((k + 1) \div 2) = (k % 2) + (k \div 2)
          /\ (k + 1) - ((k % 2) + (k \div 2)) = k - ((k % 2) + (k \div 2)) + 1
      BY <2>4
    <3>4. QED BY <2>1, <2>2, <3>1, <3>2, <3>3
  <2>5. QED BY <2>3, <2>4
<1>3. \A k \in 0 .. 7 : k \in S
  <2> HIDE DEF S
  <2> DEFINE z == 0
             top == 7
  <2>1. z \in Nat /\ top \in Nat /\ z \in S
    BY <1>1
  <2>2. \A k \in z .. top - 1 : k \in S => k + 1 \in S
    BY <1>2
  <2> HIDE DEF z, top
  <2>3. \A k \in z .. top : k \in S
    BY <2>1, <2>2, IntervalInduction
  <2>4. QED BY <2>3 DEF z, top
<1>4. QED BY <1>3

LEMMA PlanesCount ==
  ASSUME Settings, NEW o \in BOOLEAN
  PROVE  Cardinality(SavedPlanes(cfg, o)) =
           IF ~Has(cfg, "DUALPF") THEN cfg.num_bpl
           ELSE IF o THEN (cfg.num_bpl % 2) + (cfg.num_bpl \div 2)
           ELSE cfg.num_bpl - ((cfg.num_bpl % 2) + (cfg.num_bpl \div 2))
<1>1. cfg.num_bpl \in 0 .. 7
  BY PlanesTyped
<1>2. CASE ~Has(cfg, "DUALPF")
  <2>1. SavedPlanes(cfg, o) = 0 .. (cfg.num_bpl - 1)
    BY <1>2 DEF SavedPlanes
  <2>2. Cardinality(0 .. (cfg.num_bpl - 1)) = cfg.num_bpl
    <3> DEFINE top == cfg.num_bpl - 1
               z == 0
    <3>1. top \in Int /\ z \in Int /\ (IF z > top THEN 0 ELSE top - z + 1) = cfg.num_bpl
      BY <1>1
    <3> HIDE DEF top, z
    <3>2. Cardinality(z .. top) = cfg.num_bpl
      BY <3>1, FS_Interval
    <3>3. QED BY <3>2 DEF top, z
  <2>3. QED BY <1>2, <2>1, <2>2
<1>3. CASE Has(cfg, "DUALPF") /\ o
  <2>1. SavedPlanes(cfg, o) = Evens(cfg.num_bpl)
    BY <1>3 DEF SavedPlanes, Evens
  <2>2. QED BY <1>1, <1>3, <2>1, Shares
<1>4. CASE Has(cfg, "DUALPF") /\ ~o
  <2>1. SavedPlanes(cfg, o) = Odds(cfg.num_bpl)
    <3>1. \A m \in 0 .. cfg.num_bpl - 1 :
             (Has(cfg, "DUALPF") => (o <=> m % 2 = 0)) <=> m % 2 # 0
      BY <1>4
    <3>2. QED BY <3>1 DEF SavedPlanes, Odds
  <2>2. QED BY <1>1, <1>4, <2>1, Shares
<1>5. QED BY <1>2, <1>3, <1>4

\* The rows of one file, and a picture's in two.
LEMMA RowsBytes ==
  ASSUME Settings, NEW o \in BOOLEAN
  PROVE  /\ Rows(cfg, o) \in Seq(Runs)
         /\ Bytes(Rows(cfg, o)) =
              cfg.scr_height * Cardinality(SavedPlanes(cfg, o)) * BytesPerRow(cfg)
<1>1. cfg.scr_height * Cardinality(SavedPlanes(cfg, o)) \in Nat
  BY PlanesTyped, SavedPlanesCount
<1>2. QED BY <1>1, RowLength, RowsTyped, BytesRun DEF Rows

LEMMA RawBytes ==
  ASSUME Settings, cfg.save_as = "RAW"
  PROVE  PictureBytes = Bytes(Writes(cfg, TRUE))
                          + IF Has(cfg, "DUALPF") THEN Bytes(Writes(cfg, FALSE)) ELSE 0
<1> DEFINE h == cfg.scr_height
           n == cfg.num_bpl
           b == BytesPerRow(cfg)
           even == Cardinality(SavedPlanes(cfg, TRUE))
           odds == Cardinality(SavedPlanes(cfg, FALSE))
<1>1. Writes(cfg, TRUE) = Rows(cfg, TRUE) /\ Writes(cfg, FALSE) = Rows(cfg, FALSE)
  BY DEF Writes, RawWrites
<1>2. Bytes(Writes(cfg, TRUE)) = h * even * b /\ Bytes(Writes(cfg, FALSE)) = h * odds * b
  BY <1>1, RowsBytes
<1>3. h \in Nat /\ n \in Nat /\ b \in Nat /\ even \in Nat /\ odds \in Nat
  <2>1. h \in Nat /\ n \in Nat /\ b \in Nat
    BY PlanesTyped, RowLength
  <2>2. even \in Nat /\ odds \in Nat
    BY SavedPlanesCount
  <2>3. QED BY <2>1, <2>2
<1>4. IF Has(cfg, "DUALPF") THEN even + odds = n ELSE even = n
  <2>1. even = IF ~Has(cfg, "DUALPF") THEN n ELSE (n % 2) + (n \div 2)
    BY PlanesCount
  <2>2. Has(cfg, "DUALPF") => odds = n - ((n % 2) + (n \div 2))
    BY PlanesCount
  <2> HIDE DEF even, odds, n
  <2>3. QED BY <1>3, <2>1, <2>2
<1>5. PictureBytes = h * n * b
  BY DEF PictureBytes
<1> HIDE DEF h, n, b, even, odds
<1>6. CASE Has(cfg, "DUALPF")
  <2>1. \A i, j, x, y \in Nat : i * (x + y) * j = i * x * j + i * y * j
    BY SMT
  <2>2. h * n * b = h * even * b + h * odds * b
    BY <1>3, <1>4, <1>6, <2>1
  <2>3. QED BY <1>2, <1>5, <1>6, <2>2
<1>7. CASE ~Has(cfg, "DUALPF")
  <2>1. h * n * b \in Nat
    BY <1>3
  <2>2. h * even * b = h * n * b
    BY <1>4, <1>7
  <2> DEFINE size == h * n * b
  <2>3. size \in Nat /\ Bytes(Writes(cfg, TRUE)) = size /\ PictureBytes = size
    BY <1>2, <1>5, <2>1, <2>2
  <2> DEFINE second == IF Has(cfg, "DUALPF") THEN Bytes(Writes(cfg, FALSE)) ELSE 0
  <2>4. second = 0
    BY <1>7
  <2> HIDE DEF size, second
  <2>5. PictureBytes = Bytes(Writes(cfg, TRUE)) + second
    <3>1. size + second = size
      BY <2>3, <2>4
    <3>2. QED BY <2>3, <3>1
  <2>6. QED BY <2>5 DEF second
<1>8. QED BY <1>6, <1>7

\* The planes BMHD and BODY announce are those the loop writes, when the counts
\* agree.
Agreeing(o) ==
  /\ cfg.num_bpl <= MAXSAVEDEPTH
  /\ Has(cfg, "HAM") => cfg.num_bpl = 6
  /\ Has(cfg, "DUALPF") /\ ~o => cfg.num_bpl # 1

LEMMA PlanesAnnounced ==
  ASSUME Settings, NEW o \in BOOLEAN, Agreeing(o)
  PROVE  Cardinality(SavedPlanes(cfg, o)) = NbPlanes(cfg, o)
<1> DEFINE n == cfg.num_bpl
<1>1. n \in 0 .. 6 /\ Capped(cfg) = n
  BY PlanesTyped DEF Agreeing, MAXSAVEDEPTH, Capped
<1>2. Has(cfg, "HAM") => n = 6
  BY DEF Agreeing
<1>3. Cardinality(SavedPlanes(cfg, o)) =
        IF ~Has(cfg, "DUALPF") THEN n
        ELSE IF o THEN (n % 2) + (n \div 2) ELSE n - ((n % 2) + (n \div 2))
  BY PlanesCount
<1>4. NbPlanes(cfg, o) =
        IF Has(cfg, "DUALPF") /\ n > 1
        THEN IF o THEN (n % 2) + (n \div 2) ELSE n - ((n % 2) + (n \div 2))
        ELSE n
  BY <1>1, <1>2 DEF NbPlanes, Dual, Half
<1>5. ASSUME Has(cfg, "DUALPF"), ~(n > 1), ~o PROVE n = 0
  BY <1>1, <1>5 DEF Agreeing
<1> HIDE DEF n
<1>6. CASE Has(cfg, "DUALPF") /\ ~(n > 1)
  <2>1. n = 0 \/ n = 1
    BY <1>1, <1>6
  <2>2. o => (n % 2) + (n \div 2) = n
    BY <2>1
  <2>3. ~o => n - ((n % 2) + (n \div 2)) = n
    BY <1>5, <1>6
  <2>4. QED BY <1>3, <1>4, <1>6, <2>2, <2>3
<1>7. CASE ~(Has(cfg, "DUALPF") /\ ~(n > 1))
  BY <1>3, <1>4, <1>7
<1>8. QED BY <1>6, <1>7

\* One run behind the others.
LEMMA Longer ==
  ASSUME NEW S, NEW s \in Seq(S), NEW d \in S
  PROVE  s \o <<d>> = Append(s, d)
  OBVIOUS

LEMMA IffBytes ==
  ASSUME Settings, NEW o \in BOOLEAN, Agreeing(o), cfg.save_as = "IFF"
  PROVE  Bytes(Writes(cfg, o)) = 8 + FormSize(cfg, o) - IF ModeId(cfg) = {} THEN 12 ELSE 0
<1> DEFINE c == NColors(cfg, o)
           camg == IF ModeId(cfg) = {} THEN 0 ELSE 3
           body == cfg.scr_height * NbPlanes(cfg, o) * BytesPerRow(cfg)
           w1 == << <<5, 4>> >>
           w2 == << <<4, 2>> >>
           w3 == << <<4, 1>> >>
           w4 == << <<1, 2>> >>
           w5 == << <<2, 1>> >>
           w6 == << <<2, 2>> >>
           w7 == << <<2, 4>> >>
           w8 == << <<c, 3>> >>
           head == << <<5, 4>>, <<4, 2>>, <<4, 1>>, <<1, 2>>, <<2, 1>>, <<2, 2>>,
                      <<2, 4>>, <<c, 3>> >>
<1>1. BufferSize \in Nat /\ 64 <= BufferSize /\ c \in Nat \ {0}
  BY BufferAssumption, WidthAssumption, NColorsRange
<1>2. /\ <<5, 4>> \in Runs /\ <<4, 2>> \in Runs /\ <<4, 1>> \in Runs /\ <<1, 2>> \in Runs
      /\ <<2, 1>> \in Runs /\ <<2, 2>> \in Runs /\ <<2, 4>> \in Runs /\ <<c, 3>> \in Runs
  BY <1>1 DEF Runs
<1>3. /\ w1 \in Seq(Runs) /\ Bytes(w1) = 20
      /\ w2 \in Seq(Runs) /\ Bytes(w2) = 8
      /\ w3 \in Seq(Runs) /\ Bytes(w3) = 4
      /\ w4 \in Seq(Runs) /\ Bytes(w4) = 2
  BY <1>2, BytesOne
<1>4. /\ w5 \in Seq(Runs) /\ Bytes(w5) = 2
      /\ w6 \in Seq(Runs) /\ Bytes(w6) = 4
      /\ w7 \in Seq(Runs) /\ Bytes(w7) = 8
      /\ w8 \in Seq(Runs) /\ Bytes(w8) = c * 3
  BY <1>2, BytesOne
<1>5. head = w1 \o w2 \o w3 \o w4 \o w5 \o w6 \o w7 \o w8
  <2> DEFINE x1 == <<5, 4>>
             x2 == <<4, 2>>
             x3 == <<4, 1>>
             x4 == <<1, 2>>
             x5 == <<2, 1>>
             x6 == <<2, 2>>
             x7 == <<2, 4>>
             x8 == <<c, 3>>
  <2>1. /\ x1 \in Runs /\ x2 \in Runs /\ x3 \in Runs /\ x4 \in Runs
        /\ x5 \in Runs /\ x6 \in Runs /\ x7 \in Runs /\ x8 \in Runs
    BY <1>2
  <2> HIDE DEF x1, x2, x3, x4, x5, x6, x7, x8
  <2>2. <<x1, x2>> = <<x1>> \o <<x2>>
    <3>1. <<x1>> \in Seq(Runs) BY <2>1
    <3>2. <<x1, x2>> = Append(<<x1>>, x2) BY <2>1
    <3>3. QED BY <2>1, <3>1, <3>2, Longer, Zenon
  <2>3. <<x1, x2, x3>> = <<x1, x2>> \o <<x3>>
    <3>1. <<x1, x2>> \in Seq(Runs) BY <2>1
    <3>2. <<x1, x2, x3>> = Append(<<x1, x2>>, x3) BY <2>1
    <3>3. QED BY <2>1, <3>1, <3>2, Longer, Zenon
  <2>4. <<x1, x2, x3, x4>> = <<x1, x2, x3>> \o <<x4>>
    <3>1. <<x1, x2, x3>> \in Seq(Runs) BY <2>1
    <3>2. <<x1, x2, x3, x4>> = Append(<<x1, x2, x3>>, x4) BY <2>1
    <3>3. QED BY <2>1, <3>1, <3>2, Longer, Zenon
  <2>5. <<x1, x2, x3, x4, x5>> = <<x1, x2, x3, x4>> \o <<x5>>
    <3>1. <<x1, x2, x3, x4>> \in Seq(Runs) BY <2>1
    <3>2. <<x1, x2, x3, x4, x5>> = Append(<<x1, x2, x3, x4>>, x5) BY <2>1
    <3>3. QED BY <2>1, <3>1, <3>2, Longer, Zenon
  <2>6. <<x1, x2, x3, x4, x5, x6>> = <<x1, x2, x3, x4, x5>> \o <<x6>>
    <3>1. <<x1, x2, x3, x4, x5>> \in Seq(Runs) BY <2>1
    <3>2. <<x1, x2, x3, x4, x5, x6>> = Append(<<x1, x2, x3, x4, x5>>, x6) BY <2>1
    <3>3. QED BY <2>1, <3>1, <3>2, Longer, Zenon
  <2>7. <<x1, x2, x3, x4, x5, x6, x7>> = <<x1, x2, x3, x4, x5, x6>> \o <<x7>>
    <3>1. <<x1, x2, x3, x4, x5, x6>> \in Seq(Runs) BY <2>1
    <3>2. <<x1, x2, x3, x4, x5, x6, x7>> = Append(<<x1, x2, x3, x4, x5, x6>>, x7) BY <2>1
    <3>3. QED BY <2>1, <3>1, <3>2, Longer, Zenon
  <2>8. <<x1, x2, x3, x4, x5, x6, x7, x8>> = <<x1, x2, x3, x4, x5, x6, x7>> \o <<x8>>
    <3>1. <<x1, x2, x3, x4, x5, x6, x7>> \in Seq(Runs) BY <2>1
    <3>2. <<x1, x2, x3, x4, x5, x6, x7, x8>> = Append(<<x1, x2, x3, x4, x5, x6, x7>>, x8) BY <2>1
    <3>3. QED BY <2>1, <3>1, <3>2, Longer, Zenon
  <2>9. QED BY <2>2, <2>3, <2>4, <2>5, <2>6, <2>7, <2>8, Zenon
            DEF x1, x2, x3, x4, x5, x6, x7, x8
<1>6. /\ Run(camg, 4) \in Seq(Runs) /\ Bytes(Run(camg, 4)) = camg * 4
  <2>1. camg \in Nat /\ 4 \in Nat /\ 4 <= BufferSize /\ camg \in Int
    BY <1>1
  <2> HIDE DEF camg
  <2>2. QED BY <2>1, RunTyped, BytesRun
<1>7. Rows(cfg, o) \in Seq(Runs) /\ Bytes(Rows(cfg, o)) = body /\ body \in Nat
  <2>1. Rows(cfg, o) \in Seq(Runs) /\ Bytes(Rows(cfg, o)) = body
    BY RowsBytes, PlanesAnnounced
  <2>2. QED BY <2>1, TotalsStep
<1>8. Writes(cfg, o) = head \o Run(camg, 4) \o w7 \o Rows(cfg, o)
  BY DEF Writes, IffWrites
<1>9. FormSize(cfg, o) = 4 + (8 + 20) + (8 + 3 * c) + (8 + 4) + 8 + body
  BY DEF FormSize, BodySize
<1>10. ModeId(cfg) = {} <=> camg = 0
  OBVIOUS
<1>11. camg \in {0, 3}
  OBVIOUS
<1> DEFINE r == Run(camg, 4)
           b == Rows(cfg, o)
<1> HIDE DEF w1, w2, w3, w4, w5, w6, w7, w8, head, camg, body, c, r, b
<1>12. /\ head \in Seq(Runs)
       /\ Bytes(head) = ((((((20 + 8) + 4) + 2) + 2) + 4) + 8) + c * 3
  <2>1. w1 \o w2 \in Seq(Runs) /\ Bytes(w1 \o w2) = 20 + 8
    BY <1>3, BytesJoined
  <2> DEFINE x2 == w1 \o w2
  <2> HIDE DEF x2
  <2>2. x2 \o w3 \in Seq(Runs) /\ Bytes(x2 \o w3) = (20 + 8) + 4
    BY <1>3, <2>1, BytesJoined DEF x2
  <2> DEFINE x3 == x2 \o w3
  <2> HIDE DEF x3
  <2>3. x3 \o w4 \in Seq(Runs) /\ Bytes(x3 \o w4) = ((20 + 8) + 4) + 2
    BY <1>3, <2>2, BytesJoined DEF x3
  <2> DEFINE x4 == x3 \o w4
  <2> HIDE DEF x4
  <2>4. x4 \o w5 \in Seq(Runs) /\ Bytes(x4 \o w5) = (((20 + 8) + 4) + 2) + 2
    BY <1>4, <2>3, BytesJoined DEF x4
  <2> DEFINE x5 == x4 \o w5
  <2> HIDE DEF x5
  <2>5. x5 \o w6 \in Seq(Runs) /\ Bytes(x5 \o w6) = ((((20 + 8) + 4) + 2) + 2) + 4
    BY <1>4, <2>4, BytesJoined DEF x5
  <2> DEFINE x6 == x5 \o w6
  <2> HIDE DEF x6
  <2>6. x6 \o w7 \in Seq(Runs) /\ Bytes(x6 \o w7) = (((((20 + 8) + 4) + 2) + 2) + 4) + 8
    BY <1>4, <2>5, BytesJoined DEF x6
  <2> DEFINE x7 == x6 \o w7
  <2> HIDE DEF x7
  <2>7. /\ x7 \o w8 \in Seq(Runs)
        /\ Bytes(x7 \o w8) = ((((((20 + 8) + 4) + 2) + 2) + 4) + 8) + c * 3
    BY <1>4, <2>6, BytesJoined DEF x7
  <2>8. QED BY <1>5, <2>7 DEF x2, x3, x4, x5, x6, x7
<1>13. head \o r \in Seq(Runs) /\ Bytes(head \o r) = Bytes(head) + camg * 4
  BY <1>6, <1>12, BytesJoined DEF r
<1> DEFINE y1 == head \o r
<1> HIDE DEF y1
<1>14. y1 \o w7 \in Seq(Runs) /\ Bytes(y1 \o w7) = (Bytes(head) + camg * 4) + 8
  BY <1>4, <1>13, BytesJoined DEF y1
<1> DEFINE y2 == y1 \o w7
<1> HIDE DEF y2
<1>15. Bytes(y2 \o b) = ((Bytes(head) + camg * 4) + 8) + body
  BY <1>7, <1>14, BytesJoined DEF y2, b
<1>16. Writes(cfg, o) = y2 \o b
  BY <1>8 DEF y1, y2, r, b
<1>17. CASE ModeId(cfg) = {}
  <2>1. camg = 0
    BY <1>10, <1>17
  <2>2. QED BY <1>1, <1>7, <1>9, <1>12, <1>15, <1>16, <1>17, <2>1
<1>18. CASE ModeId(cfg) # {}
  <2>1. camg = 3
    BY <1>10, <1>11, <1>18
  <2>2. QED BY <1>1, <1>7, <1>9, <1>12, <1>15, <1>16, <1>18, <2>1
<1>19. QED BY <1>17, <1>18

-----------------------------------------------------------------------------
(* Keys keep the settings in order. *)

LEMMA WidthKeys ==
  ASSUME Settings, inc_scr_width \/ dec_scr_width
  PROVE  Settings'
<1>1. PICK w \in 16 .. MaxBplaneWidth : w % 16 = 0 /\ cfg' = [cfg EXCEPT !.scr_width = w]
  <2>1. /\ cfg.scr_width \in Nat /\ cfg.scr_width % 16 = 0
        /\ 16 <= cfg.scr_width /\ cfg.scr_width <= MaxBplaneWidth
    BY WidthAssumption DEF Settings, Config, RowsFit
  <2>2. CASE inc_scr_width
    <3> DEFINE step == IF Has(cfg, "HIRES") THEN 32 ELSE 16
               w == IF cfg.scr_width + step < MaxBplaneWidth
                    THEN cfg.scr_width + step ELSE MaxBplaneWidth
    <3>1. w \in 16 .. MaxBplaneWidth /\ w % 16 = 0
      BY <2>1, WidthAssumption
    <3>2. cfg' = [cfg EXCEPT !.scr_width = w]
      BY <2>2 DEF inc_scr_width
    <3>3. QED
      BY <3>1, <3>2
  <2>3. CASE dec_scr_width
    <3> DEFINE step == IF Has(cfg, "HIRES") THEN 32 ELSE 16
               w == IF cfg.scr_width - step > 2 * step
                    THEN cfg.scr_width - step ELSE 2 * step
    <3>1. w \in 16 .. MaxBplaneWidth /\ w % 16 = 0
      BY <2>1, WidthAssumption
    <3>2. cfg' = [cfg EXCEPT !.scr_width = w]
      BY <2>3 DEF dec_scr_width, Settings, Config
    <3>3. QED
      BY <3>1, <3>2
  <2>4. QED
    BY <2>2, <2>3
<1>2. cfg' \in Config /\ cfg'.scr_width = w
  BY <1>1 DEF Settings, Config
<1>3. ModesAgree'
  BY <1>1 DEF Settings, Config, ModesAgree, Has
<1>4. RowsFit'
  BY <1>1, <1>2, WidthAssumption DEF RowsFit, BytesPerRow
<1>5. QED
  BY <1>2, <1>3, <1>4 DEF Settings

LEMMA ModeKeys ==
  ASSUME Settings, handle_display_mode \/ handle_priority
  PROVE  Settings'
<1>1. /\ cfg.flags \in SUBSET Modes /\ cfg.display \in 0 .. 2 /\ cfg.priority \in 0 .. 1
      /\ cfg \in Config
  BY DEF Settings, Config
<1>2. CASE handle_display_mode
  <2> DEFINE display == IF cfg.display = 2 THEN 0 ELSE cfg.display + 1
             flags == (cfg.flags \ {"HAM", "STD", "DUALPF"}) \cup {Displays[display + 1]}
             new == IF display = 1 THEN flags \ {"HIRES"} ELSE flags
  <2>1. cfg' = [cfg EXCEPT !.display = display, !.flags = new]
    BY <1>2 DEF handle_display_mode
  <2>2. /\ display \in 0 .. 2
        /\ display = 0 => Displays[display + 1] = "STD"
        /\ display = 1 => Displays[display + 1] = "HAM"
        /\ display = 2 => Displays[display + 1] = "DUALPF"
    BY <1>1 DEF Displays
  <2>3. new \in SUBSET Modes
    BY <1>1, <2>2 DEF Modes
  <2>4. /\ cfg' \in Config /\ cfg'.display = display /\ cfg'.flags = new
        /\ cfg'.priority = cfg.priority /\ cfg'.scr_width = cfg.scr_width
    BY <1>1, <2>1, <2>2, <2>3 DEF Config
  <2>5. ModesAgree'
    BY <2>2, <2>4 DEF Settings, ModesAgree, Has
  <2>6. RowsFit'
    BY <2>4 DEF Settings, RowsFit, BytesPerRow
  <2>7. QED
    BY <2>4, <2>5, <2>6 DEF Settings
<1>3. CASE handle_priority
  <2> DEFINE new == IF cfg.priority = 1 THEN cfg.flags \ {"PF2PRI"}
                                        ELSE cfg.flags \cup {"PF2PRI"}
  <2>1. new \in SUBSET Modes
    BY <1>1 DEF Modes
  <2>2. cfg' = [cfg EXCEPT !.priority = 1 - cfg.priority, !.flags = new]
    <3>1. CASE cfg.priority = 1
      BY <1>3, <3>1 DEF handle_priority
    <3>2. CASE cfg.priority = 0
      BY <1>3, <3>2 DEF handle_priority
    <3>3. QED
      BY <1>1, <3>1, <3>2
  <2>3. 1 - cfg.priority \in 0 .. 1
    BY <1>1
  <2>4. /\ cfg' \in Config /\ cfg'.scr_width = cfg.scr_width /\ cfg'.display = cfg.display
        /\ cfg'.priority = 1 - cfg.priority /\ cfg'.flags = new
    BY <1>1, <2>1, <2>2, <2>3 DEF Config
  <2>5. ModesAgree'
    BY <1>1, <2>4 DEF Settings, ModesAgree, Has
  <2>6. RowsFit'
    BY <2>4 DEF Settings, RowsFit, BytesPerRow
  <2>7. QED
    BY <2>4, <2>5, <2>6 DEF Settings
<1>4. QED
  BY <1>2, <1>3

LEMMA ResolutionKeys ==
  ASSUME Settings, NEW hires \in BOOLEAN, set_resolution(hires)
  PROVE  Settings'
<1>1. cfg \in Config /\ cfg.flags \in SUBSET Modes /\ cfg.num_bpl \in 0 .. 7
      /\ cfg.display \in 0 .. 2
  BY DEF Settings, Config
<1>2. CASE ~hires
  <2>1. cfg' = [cfg EXCEPT !.flags = cfg.flags \ {"HIRES"}, !.scr_width = LoresWidth]
    BY <1>2 DEF set_resolution
  <2>2. cfg.flags \ {"HIRES"} \in SUBSET Modes
    BY <1>1
  <2>3. LoresWidth \in 16 .. MaxBplaneWidth
    BY WidthAssumption
  <2>4. /\ cfg' \in Config /\ cfg'.scr_width = LoresWidth /\ cfg'.display = cfg.display
        /\ cfg'.priority = cfg.priority /\ cfg'.flags = cfg.flags \ {"HIRES"}
    BY <1>1, <2>1, <2>2, <2>3 DEF Config
  <2>5. ModesAgree'
    BY <2>4 DEF Settings, ModesAgree, Has
  <2>6. RowsFit'
    BY <2>4, WidthAssumption DEF RowsFit, BytesPerRow
  <2>7. QED
    BY <2>4, <2>5, <2>6 DEF Settings
<1>3. CASE hires
  <2> DEFINE new == (cfg.flags \cup {"HIRES"}) \ {"HAM"}
             planes == IF cfg.num_bpl > 4 THEN 4 ELSE cfg.num_bpl
             shown == IF Has(cfg, "HAM") THEN 0 ELSE cfg.display
  <2>1. cfg' = [cfg EXCEPT !.flags = new, !.scr_width = HiresWidth,
                           !.num_bpl = planes, !.display = shown]
    BY <1>1, <1>3 DEF set_resolution, Config
  <2>2. new \in SUBSET Modes
    BY <1>1 DEF Modes
  <2>3. HiresWidth \in 16 .. MaxBplaneWidth
    BY WidthAssumption
  <2>4. planes \in 0 .. 7 /\ shown \in 0 .. 2
    BY <1>1
  <2>5. /\ cfg' \in Config /\ cfg'.scr_width = HiresWidth
        /\ cfg'.display = IF Has(cfg, "HAM") THEN 0 ELSE cfg.display
        /\ cfg'.priority = cfg.priority /\ cfg'.flags = (cfg.flags \cup {"HIRES"}) \ {"HAM"}
    BY <1>1, <2>1, <2>2, <2>3, <2>4 DEF Config
  <2>6. ModesAgree'
    BY <1>1, <2>5 DEF Settings, ModesAgree, Has
  <2>7. RowsFit'
    BY <2>5, WidthAssumption DEF RowsFit, BytesPerRow
  <2>8. QED
    BY <2>5, <2>6, <2>7 DEF Settings
<1>4. QED
  BY <1>2, <1>3

\* A change that leaves width, flags, mode and priority alone.
LEMMA OtherSettings ==
  ASSUME Settings, cfg' \in Config, cfg'.scr_width = cfg.scr_width,
         cfg'.flags = cfg.flags, cfg'.display = cfg.display, cfg'.priority = cfg.priority
  PROVE  Settings'
  BY DEF Settings, ModesAgree, RowsFit, BytesPerRow, Has

LEMMA KeysKeep ==
  ASSUME Settings, Keys
  PROVE  Settings'
<1>1. cfg \in Config
  BY DEF Settings
<1>2. CASE inc_scr_width \/ dec_scr_width
  BY <1>2, WidthKeys
<1>3. CASE handle_display_mode \/ handle_priority
  BY <1>3, ModeKeys
<1>4. CASE set_resolution(TRUE) \/ set_resolution(FALSE)
  BY <1>4, ResolutionKeys
<1>5. CASE handle_save_as
  BY <1>1, <1>5, OtherSettings DEF handle_save_as, Config, SaveFormats
<1>6. CASE set_bplane_height
  BY <1>1, <1>6, OtherSettings DEF set_bplane_height, Config
<1>7. CASE handle_bplane_height
  BY <1>1, <1>7, OtherSettings DEF handle_bplane_height, Config
<1>8. CASE dec_bplane_num
  BY <1>1, <1>8, OtherSettings DEF dec_bplane_num, Config
<1>9. CASE inc_bplane_num
  BY <1>1, <1>9, OtherSettings DEF inc_bplane_num, Config
<1>10. CASE copper_search
  BY <1>1, <1>10, OtherSettings DEF copper_search, Config, Errors
<1>11. QED
  BY <1>2, <1>3, <1>4, <1>5, <1>6, <1>7, <1>8, <1>9, <1>10 DEF Keys

-----------------------------------------------------------------------------
(* handle_filesave() and the main loop: one step for each action. *)

Pcs == {"idle", "open", "save", "close", "failed", "free", "shown", "lost"}

SaveTypes ==
  /\ pc \in Pcs /\ odd \in BOOLEAN /\ ret \in {-1, 0}
  /\ TodoFits
  /\ failed \subseteq Calls \X BOOLEAN /\ made \in Seq(Nat)

\* A sequence over a set is one over any larger set.
LEMMA SeqMonotonic ==
  ASSUME NEW S, NEW T, S \subseteq T, NEW s \in Seq(S)
  PROVE  s \in Seq(T)
<1>1. s \in [1 .. Len(s) -> S] /\ Len(s) \in Nat
  OBVIOUS
<1>2. s \in [1 .. Len(s) -> T]
  BY <1>1
<1>3. QED
  BY <1>1, <1>2

LEMMA IInvParts ==
  IInv <=> Handle /\ Settings /\ SaveTypes /\ HandleInv /\ FailInv /\ SizesInv
<1>1. ASSUME TodoFits PROVE todo \in Seq((Nat \ {0}) \X Nat)
  <2>1. Runs \subseteq (Nat \ {0}) \X Nat
    BY DEF Runs
  <2>2. QED
    BY <1>1, <2>1, SeqMonotonic DEF TodoFits
<1>2. QED
  BY <1>1 DEF IInv, TypeOK, Handle, Settings, SaveTypes, Pcs

LEMMA InitInv == Init => IInv
<1> SUFFICES ASSUME Init PROVE IInv
  OBVIOUS
<1>1. Handle
  <2>1. IffTypeOK
    BY DEF Init, IffInit, IffTypeOK, Errors
  <2>2. NothingLost /\ BufferFits
    BY BufferAssumption DEF Init, IffInit, NothingLost, BufferFits
  <2>3. QED
    BY <2>1, <2>2 DEF Handle
<1>2. Settings
  <2>1. cfg \in Config
    BY WidthAssumption DEF Init, Config, SaveFormats, Modes, Errors
  <2>2. ModesAgree
    BY DEF Init, ModesAgree, Has
  <2>3. RowsFit
    BY WidthAssumption DEF Init, RowsFit, BytesPerRow
  <2>4. QED
    BY <2>1, <2>2, <2>3 DEF Settings
<1>3. SaveTypes
  BY DEF Init, SaveTypes, Pcs, TodoFits
<1>4. HandleInv
  BY DEF Init, IffInit, HandleInv
<1>5. FailInv /\ SizesInv
  BY DEF Init, FailInv, SizesInv, Bad
<1>6. QED
  BY <1>1, <1>2, <1>3, <1>4, <1>5, IInvParts

\* What leaves cfg alone, or changes only its status and its error.
LEMMA SameSettings == ASSUME Settings, UNCHANGED cfg PROVE Settings'
  BY DEF Settings, ModesAgree, RowsFit, BytesPerRow, Has

LEMMA StatusSettings ==
  ASSUME Settings,
         NEW e \in Errors,
         NEW st \in {"VERSION", "PALETTE", "NOTFOUND", "NOSAVE", "NORAM", "SAVEOK"},
         cfg' = [cfg EXCEPT !.ioerr = e, !.status = st]
  PROVE  Settings'
  BY OtherSettings DEF Settings, Config

LEMMA SameHandle == ASSUME Handle, UNCHANGED iffVars PROVE Handle'
  BY DEF Handle, iffVars, IffTypeOK, NothingLost, BufferFits

LEMMA FailedTyped ==
  ASSUME SaveTypes, NEW yes, NEW call \in Calls, Failed(yes, call)
  PROVE  failed' \subseteq Calls \X BOOLEAN
  BY DEF SaveTypes, Failed

LEMMA BaseStep ==
  ASSUME IInv, [Next]_vars
  PROVE  Handle' /\ Settings' /\ SaveTypes' /\ HandleInv'
<1>0. Handle /\ Settings /\ SaveTypes /\ HandleInv
  BY IInvParts
<1>1. CASE UNCHANGED vars
  <2>1. Handle' /\ Settings'
    BY <1>0, <1>1, SameHandle, SameSettings DEF vars
  <2>2. SaveTypes' /\ HandleInv'
    BY <1>0, <1>1 DEF vars, saveVars, iffVars, SaveTypes, TodoFits, HandleInv
  <2>3. QED
    BY <2>1, <2>2
<1>2. CASE Keys
  <2>1. Key
    BY <1>2 DEF Keys, inc_scr_width, dec_scr_width, handle_display_mode, handle_save_as,
          set_bplane_height, handle_bplane_height, dec_bplane_num, inc_bplane_num,
          set_resolution, handle_priority, copper_search
  <2>2. Handle' /\ Settings'
    BY <1>0, <1>2, <2>1, SameHandle, KeysKeep DEF Key
  <2>3. SaveTypes' /\ HandleInv'
    BY <1>0, <2>1 DEF Key, saveVars, iffVars, SaveTypes, TodoFits, HandleInv
  <2>4. QED
    BY <2>2, <2>3
<1>3. CASE StartSave
  <2>1. CASE \E status \in {"NOSAVE", "NORAM"} :
               /\ cfg' = [cfg EXCEPT !.ioerr = "none", !.status = status]
               /\ pc' = "shown"
               /\ UNCHANGED <<saveVars, iffVars>>
    <3>1. Settings'
      BY <1>0, <2>1, StatusSettings DEF Errors
    <3>2. Handle'
      BY <1>0, <2>1, SameHandle
    <3>3. SaveTypes' /\ HandleInv'
      BY <1>0, <1>3, <2>1 DEF StartSave, saveVars, iffVars, SaveTypes, Pcs, TodoFits, HandleInv
    <3>4. QED
      BY <3>1, <3>2, <3>3
  <2>2. CASE /\ initIFFHandle
             /\ cfg' = [cfg EXCEPT !.ioerr = "none", !.status = "SAVEOK"]
             /\ pc' = "open" /\ odd' = TRUE /\ ret' = -1
             /\ UNCHANGED <<todo, failed, made>>
    <3>1. Settings'
      BY <1>0, <2>2, StatusSettings DEF Errors
    <3>2. IffTypeOK'
      BY <1>0, <2>2 DEF initIFFHandle, Handle, IffTypeOK, Errors
    <3>3. NothingLost' /\ BufferFits'
      BY <2>2, BufferAssumption DEF initIFFHandle, NothingLost, BufferFits
    <3>4. SaveTypes' /\ HandleInv'
      BY <1>0, <2>2 DEF SaveTypes, Pcs, TodoFits, HandleInv
    <3>5. QED
      BY <3>1, <3>2, <3>3, <3>4 DEF Handle
  <2>3. QED
    BY <1>3, <2>1, <2>2 DEF StartSave
<1>4. CASE OpenFile
  <2>1. PICK opened \in BOOLEAN :
          /\ s_open(opened)
          /\ Failed(~opened, "open")
          /\ pc' = IF opened THEN "save" ELSE IF odd THEN "failed" ELSE "free"
          /\ todo' = IF opened THEN Writes(cfg, odd) ELSE <<>>
    BY <1>4 DEF OpenFile
  <2>2. pc = "open" /\ UNCHANGED <<cfg, odd, ret, made>>
    BY <1>4 DEF OpenFile
  <2>3. Handle' /\ Settings'
    BY <1>0, <2>1, <2>2, OpenKeeps, SameSettings
  <2>4. Writes(cfg, odd) \in Seq(Runs)
    BY <1>0, WritesTyped DEF SaveTypes
  <2>5. TodoFits'
    BY <2>1, <2>4 DEF TodoFits
  <2>6. failed' \subseteq Calls \X BOOLEAN
    BY <1>0, <2>1, FailedTyped DEF Calls
  <2>7. SaveTypes' /\ HandleInv'
    BY <1>0, <2>1, <2>2, <2>5, <2>6 DEF SaveTypes, Pcs, HandleInv
  <2>8. QED
    BY <2>3, <2>7
<1>5. CASE WriteSome
  <2>1. PICK r \in {-1, 0, todo[1][2]} :
          /\ s_write(todo[1][2], r)
          /\ Failed(r < 0, "write")
          /\ todo' = IF r < 0 THEN <<>> ELSE Advance(todo)
          /\ pc' = IF r >= 0 THEN "save" ELSE IF odd THEN "close" ELSE "failed"
    BY <1>5 DEF WriteSome
  <2>2. pc = "save" /\ todo # <<>> /\ UNCHANGED <<cfg, odd, ret, made>>
    BY <1>5 DEF WriteSome
  <2>3. /\ Advance(todo) \in Seq(Runs)
        /\ todo[1][2] \in Nat /\ todo[1][2] <= BufferSize
    BY <1>0, <2>2, AdvanceTyped DEF SaveTypes, TodoFits
  <2>4. r \in Int
    BY <2>3
  <2>5. Handle' /\ Settings'
    BY <1>0, <2>1, <2>2, <2>3, <2>4, WriteKeeps, SameSettings
  <2>6. TodoFits'
    BY <2>1, <2>3 DEF TodoFits
  <2>7. failed' \subseteq Calls \X BOOLEAN
    BY <1>0, <2>1, FailedTyped DEF Calls
  <2>8. SaveTypes' /\ HandleInv'
    BY <1>0, <2>1, <2>2, <2>6, <2>7 DEF SaveTypes, Pcs, HandleInv
  <2>9. QED
    BY <2>5, <2>8
<1>6. CASE SaveDone \/ Overrun \/ Lost
  <2>1. UNCHANGED <<cfg, iffVars, odd, todo, failed, made>> /\ ret' \in {ret, 0}
        /\ pc' \in {"close", "lost"}
    BY <1>6 DEF SaveDone, Overrun, Lost, vars, saveVars
  <2>2. Handle' /\ Settings'
    BY <1>0, <2>1, SameHandle, SameSettings
  <2>3. SaveTypes' /\ HandleInv'
    BY <1>0, <2>1 DEF SaveTypes, Pcs, TodoFits, HandleInv
  <2>4. QED
    BY <2>2, <2>3
<1>7. CASE CloseFile
  <2>1. PICK r \in {-1, 0} :
          /\ s_close(r)
          /\ failed' = failed \cup {<<c, odd>> : c \in {x \in {"close"} : r < 0} \cup
                                                       {x \in {"short"} : lossy'}}
          /\ made' = IF r < 0 THEN made ELSE Append(made, file')
    BY <1>7 DEF CloseFile
  <2>2. /\ pc' \in {"free", "failed", "open"}
        /\ odd' \in {odd, FALSE} /\ ret' \in {ret, -1}
        /\ UNCHANGED <<cfg, todo>>
    BY <1>7 DEF CloseFile
  <2>3. r \in Int
    BY <2>1
  <2>4. Handle' /\ Settings'
    BY <1>0, <2>1, <2>2, <2>3, CloseKeeps, SameSettings
  <2>5. made' \in Seq(Nat)
    BY <1>0, <2>1, <2>4 DEF SaveTypes, Handle, IffTypeOK
  <2>6. failed' \subseteq Calls \X BOOLEAN
    BY <1>0, <2>1 DEF SaveTypes, Calls
  <2>7. SaveTypes' /\ HandleInv'
    BY <1>0, <2>2, <2>5, <2>6 DEF SaveTypes, Pcs, TodoFits, HandleInv
  <2>8. QED
    BY <2>4, <2>7
<1>8. CASE TellError
  <2>1. /\ last_ioerr' = Ioerr
        /\ UNCHANGED <<allocated, handle, buffer_pos, dos_err, file, taken, lossy>>
        /\ cfg' = [cfg EXCEPT !.ioerr = Ioerr]
        /\ pc' \in {"free", "close"}
        /\ UNCHANGED saveVars
    BY <1>8 DEF TellError, s_ioerr
  <2>2. Ioerr \in Errors
    BY <1>0 DEF Handle, IffTypeOK, Ioerr, Errors
  <2>3. Handle'
    BY <1>0, <2>1, <2>2 DEF Handle, IffTypeOK, NothingLost, BufferFits
  <2>4. Settings'
    BY <1>0, <2>1, <2>2, OtherSettings DEF Settings, Config
  <2>5. SaveTypes' /\ HandleInv'
    BY <1>0, <2>1 DEF saveVars, SaveTypes, Pcs, TodoFits, HandleInv
  <2>6. QED
    BY <2>3, <2>4, <2>5
<1>9. CASE FreeHandle
  <2>1. PICK r \in {-1, 0} : freeIFFHandle(r) /\ Failed(r < 0, "free")
    BY <1>9 DEF FreeHandle
  <2>2. pc' = "shown" /\ UNCHANGED <<cfg, odd, todo, ret, made>>
    BY <1>9 DEF FreeHandle
  <2>3. r \in Int
    BY <2>1
  <2>4. Handle' /\ Settings'
    BY <1>0, <2>1, <2>2, <2>3, FreeKeeps, SameSettings
  <2>5. failed' \subseteq Calls \X BOOLEAN
    BY <1>0, <2>1, FailedTyped DEF Calls
  <2>6. SaveTypes'
    BY <1>0, <2>2, <2>5 DEF SaveTypes, Pcs, TodoFits
  <2>7. HandleInv'
    <3>1. ~allocated'
      BY <2>1 DEF freeIFFHandle
    <3>2. handle' => <<"free", odd>> \in failed'
      BY <2>1 DEF freeIFFHandle, Failed
    <3>3. QED
      BY <2>2, <3>1, <3>2 DEF HandleInv
  <2>8. QED
    BY <2>4, <2>6, <2>7
<1>10. CASE Return
  <2>1. /\ pc' = "idle" /\ odd' = TRUE /\ todo' = <<>> /\ ret' = 0 /\ failed' = {} /\ made' = <<>>
        /\ file' = 0 /\ taken' = 0 /\ lossy' = FALSE /\ buffer_pos' = 0
        /\ last_ioerr' = "none" /\ dos_err' = "none" /\ handle' = FALSE
        /\ UNCHANGED <<cfg, allocated>> /\ pc = "shown"
    BY <1>10 DEF Return
  <2>2. Handle'
    <3>1. IffTypeOK'
      BY <1>0, <2>1 DEF Handle, IffTypeOK, Errors
    <3>2. NothingLost' /\ BufferFits'
      BY <2>1, BufferAssumption DEF NothingLost, BufferFits
    <3>3. QED
      BY <3>1, <3>2 DEF Handle
  <2>3. Settings'
    BY <1>0, <2>1, SameSettings
  <2>4. SaveTypes' /\ HandleInv'
    BY <1>0, <2>1 DEF SaveTypes, Pcs, TodoFits, HandleInv
  <2>5. QED
    BY <2>2, <2>3, <2>4
<1>11. QED
  BY <1>1, <1>2, <1>3, <1>4, <1>5, <1>6, <1>7, <1>8, <1>9, <1>10 DEF Next

-----------------------------------------------------------------------------
(* What has failed, and how large the files are. *)

LEMMA Pair ==
  ASSUME NEW a \in Nat, NEW b \in Nat
  PROVE  Append(<<a>>, b) = <<a, b>>
<1> DEFINE s == Append(<<a>>, b)
           t == <<a, b>>
<1>1. s \in Seq(Nat) /\ Len(s) = 2 /\ s[1] = a /\ s[2] = b
  OBVIOUS
<1>2. t \in Seq(Nat) /\ Len(t) = 2 /\ t[1] = a /\ t[2] = b
  OBVIOUS
<1> HIDE DEF s, t
<1>3. s = [i \in 1 .. 2 |-> s[i]] /\ t = [i \in 1 .. 2 |-> t[i]]
  BY <1>1, <1>2
<1>4. \A i \in 1 .. 2 : s[i] = t[i]
  <2>1. \A i \in 1 .. 2 : i = 1 \/ i = 2
    OBVIOUS
  <2>2. QED BY <1>1, <1>2, <2>1
<1>5. s = t
  BY <1>3, <1>4
<1>6. QED BY <1>5 DEF s, t

\* What a call of an open handle does to the rest of it.
LEMMA WriteOutcome ==
  ASSUME Handle, handle, NEW length \in Nat, NEW r \in Int, s_write(length, r)
  PROVE  /\ handle' /\ last_ioerr' = last_ioerr
         /\ r < 0 => dos_err' = "disk"
         /\ r >= 0 => taken' = taken + length
<1>1. ~NotOpen(r)
  BY DEF NotOpen
<1>2. CASE Gather(length, r)
  BY <1>2 DEF Gather
<1>3. CASE Spill(length, r)
  <2>1. PICK w \in Outcomes(BufferSize) :
          /\ Write(BufferSize, w)
          /\ r = IF w > 0 THEN length ELSE w
          /\ taken' = IF w >= 0 THEN taken + length ELSE taken
    BY <1>3 DEF Spill
  <2>2. w \in Int
    BY OutcomeInt, BufferAssumption
  <2>3. UNCHANGED <<handle, last_ioerr>>
    BY <1>3 DEF Spill
  <2>4. r < 0 => w < 0
    BY <2>1, <2>2
  <2>5. r >= 0 => w >= 0
    BY <2>1, <2>2
  <2>6. QED BY <2>1, <2>3, <2>4, <2>5 DEF Write
<1>4. QED BY <1>1, <1>2, <1>3 DEF s_write

LEMMA CloseOutcome ==
  ASSUME Handle, handle, NEW r \in {-1, 0}, s_close(r)
  PROVE  /\ handle' = (r < 0) /\ taken' = taken /\ last_ioerr' = last_ioerr
         /\ r < 0 => dos_err' = "disk"
         /\ r = 0 /\ ~lossy' => file' = taken
<1>1. s_flush(r) /\ handle' = (r < 0) /\ UNCHANGED <<allocated, last_ioerr, taken>>
  BY DEF s_close, NotOpen
<1>2. Handle'
  BY CloseKeeps
<1>3. r < 0 => dos_err' = "disk"
  <2>1. ASSUME r < 0 PROVE \E w \in Outcomes(buffer_pos) : Write(buffer_pos, w) /\ w < 0
    BY <1>1, <2>1 DEF s_flush
  <2>2. QED BY <2>1 DEF Write
<1>4. r = 0 => buffer_pos' = 0
  BY <1>1 DEF s_flush
<1>5. ASSUME r = 0, ~lossy' PROVE file' = taken
  <2>1. file' + buffer_pos' = taken' /\ file' \in Nat
    BY <1>2, <1>5 DEF Handle, NothingLost, IffTypeOK
  <2>2. QED BY <1>1, <1>4, <1>5, <2>1
<1>6. QED BY <1>1, <1>3, <1>5

LEMMA OpenOutcome ==
  ASSUME NEW r \in BOOLEAN, s_open(r)
  PROVE  IF r THEN handle' /\ taken' = 0 ELSE Ioerr' # "none"
<1>1. CASE handle
  BY <1>1 DEF s_open, Ioerr
<1>2. CASE ~handle
  BY <1>2 DEF s_open, Ioerr
<1>3. QED BY <1>1, <1>2

LEMMA PassedOnes ==
  /\ <<"open", TRUE>> \notin Passed
  /\ <<"write", FALSE>> \notin Passed /\ <<"write", TRUE>> \notin Passed
  BY DEF Passed

\* The failures that count, one by one.
LEMMA BadMeans ==
  /\ Bad <=> \/ <<"open", TRUE>> \in failed \/ <<"write", FALSE>> \in failed
             \/ <<"write", TRUE>> \in failed /\ <<"close", TRUE>> \in failed
  /\ Bad' <=> \/ <<"open", TRUE>> \in failed' \/ <<"write", FALSE>> \in failed'
              \/ <<"write", TRUE>> \in failed' /\ <<"close", TRUE>> \in failed'
  BY DEF Bad

LEMMA FailStep == ASSUME IInv, [Next]_vars PROVE FailInv'
<1>0. /\ Handle /\ Settings /\ SaveTypes /\ FailInv
      /\ cfg \in Config /\ odd \in BOOLEAN /\ ret \in {-1, 0}
  BY IInvParts DEF Settings, SaveTypes
<1>1. CASE UNCHANGED vars
  BY <1>0, <1>1 DEF vars, saveVars, iffVars, FailInv, Bad, Ioerr
<1>2. CASE Keys
  <2>1. Key
    BY <1>2 DEF Keys, inc_scr_width, dec_scr_width, handle_display_mode, handle_save_as,
          set_bplane_height, handle_bplane_height, dec_bplane_num, inc_bplane_num,
          set_resolution, handle_priority, copper_search
  <2>2. pc = "idle" /\ pc' = "idle" /\ failed' = failed
    BY <2>1 DEF Key, saveVars
  <2>3. QED BY <1>0, <2>2 DEF FailInv
<1>3. CASE StartSave
  <2>1. pc = "idle" /\ failed = {}
    BY <1>0, <1>3 DEF StartSave, FailInv
  <2>2. CASE pc' = "shown" /\ UNCHANGED <<saveVars, iffVars>>
    BY <2>1, <2>2 DEF saveVars, FailInv, Bad
  <2>3. CASE pc' = "open" /\ odd' = TRUE /\ ret' = -1 /\ failed' = failed
    BY <2>1, <2>3 DEF FailInv
  <2>4. QED BY <1>3, <2>2, <2>3 DEF StartSave
<1>4. CASE OpenFile
  <2>1. PICK opened \in BOOLEAN :
          /\ s_open(opened)
          /\ Failed(~opened, "open")
          /\ pc' = IF opened THEN "save" ELSE IF odd THEN "failed" ELSE "free"
    BY <1>4 DEF OpenFile
  <2>2. pc = "open" /\ UNCHANGED <<cfg, odd, ret, made>>
    BY <1>4 DEF OpenFile
  <2>3. ret = -1 /\ failed \subseteq IF odd THEN {} ELSE Passed
    BY <1>0, <2>2 DEF FailInv
  <2>4. IF opened THEN handle' ELSE Ioerr' # "none"
    BY <2>1, OpenOutcome
  <2>5. failed' = IF ~opened THEN failed \cup {<<"open", odd>>} ELSE failed
    BY <2>1 DEF Failed
  <2>6. CASE opened
    BY <2>1, <2>2, <2>3, <2>4, <2>5, <2>6 DEF FailInv
  <2>7. CASE ~opened /\ odd
    BY <2>1, <2>2, <2>3, <2>4, <2>5, <2>7 DEF FailInv
  <2>8. CASE ~opened /\ ~odd
    <3>1. odd = FALSE /\ failed \subseteq Passed /\ failed' = failed \cup {<<"open", FALSE>>}
      BY <1>0, <2>3, <2>5, <2>8
    <3>3. ~Bad'
      BY <3>1, PassedOnes, BadMeans
    <3>2. QED BY <2>1, <2>8, <3>3 DEF FailInv
  <2>9. QED BY <2>6, <2>7, <2>8
<1>5. CASE WriteSome
  <2>1. PICK r \in {-1, 0, todo[1][2]} :
          /\ s_write(todo[1][2], r)
          /\ Failed(r < 0, "write")
          /\ pc' = IF r >= 0 THEN "save" ELSE IF odd THEN "close" ELSE "failed"
    BY <1>5 DEF WriteSome
  <2>2. pc = "save" /\ todo # <<>> /\ UNCHANGED <<cfg, odd, ret, made>>
    BY <1>5 DEF WriteSome
  <2>3. todo[1][2] \in Nat
    BY <1>0, <2>2, AdvanceTyped DEF SaveTypes, TodoFits
  <2>4. r \in Int
    BY <2>3
  <2>5. ret = -1 /\ handle /\ failed \subseteq IF odd THEN {} ELSE Passed
    BY <1>0, <2>2 DEF FailInv
  <2>6. handle' /\ last_ioerr' = last_ioerr /\ (r < 0 => dos_err' = "disk")
    BY <1>0, <2>1, <2>3, <2>4, <2>5, WriteOutcome
  <2>7. failed' = IF r < 0 THEN failed \cup {<<"write", odd>>} ELSE failed
    BY <2>1 DEF Failed
  <2>8. CASE r >= 0
    <3>1. ~(r < 0)
      BY <2>4, <2>8
    <3>2. QED BY <2>1, <2>2, <2>5, <2>6, <2>7, <2>8, <3>1 DEF FailInv
  <2>9. CASE r < 0 /\ odd
    <3>1. ~(r >= 0)
      BY <2>4, <2>9
    <3>2. pc' = "close" /\ failed' = {<<"write", TRUE>>}
      BY <2>1, <2>5, <2>7, <2>9, <3>1
    <3>3. QED BY <2>2, <2>5, <2>6, <2>9, <3>2 DEF FailInv
  <2>10. CASE r < 0 /\ ~odd
    <3>1. ~(r >= 0)
      BY <2>4, <2>10
    <3>5. odd = FALSE
      BY <1>0, <2>10
    <3>2. pc' = "failed" /\ failed' = failed \cup {<<"write", FALSE>>}
      BY <2>1, <2>7, <2>10, <3>1, <3>5
    <3>3. Ioerr' # "none"
      BY <2>6, <2>10 DEF Ioerr
    <3>4. QED BY <2>2, <2>5, <2>6, <2>10, <3>2, <3>3 DEF FailInv
  <2>11. QED BY <2>4, <2>8, <2>9, <2>10
<1>6. CASE SaveDone
  <2>1. pc = "save" /\ pc' = "close" /\ ret' = 0 /\ UNCHANGED <<cfg, odd, failed, handle>>
    BY <1>6 DEF SaveDone, iffVars
  <2>2. handle /\ failed \subseteq IF odd THEN {} ELSE Passed
    BY <1>0, <2>1 DEF FailInv
  <2>3. odd => failed = {}
    BY <2>2
  <2>4. ~odd => failed \subseteq Passed
    BY <2>2
  <2>5. pc' = "close" /\ odd' => failed' = IF ret' = 0 THEN {} ELSE {<<"write", TRUE>>}
    BY <2>1, <2>3
  <2>6. pc' = "close" /\ ~odd' =>
       /\ failed' \subseteq Passed \cup {<<"write", FALSE>>}
       /\ ret' = -1 => <<"write", FALSE>> \in failed' /\ cfg'.ioerr # "none"
       /\ ret' = 0 => failed' \subseteq Passed
    <3>1. ret' # -1
      BY <2>1
    <3>2. QED BY <2>1, <2>4, <3>1
  <2>7. QED BY <2>1, <2>2, <2>5, <2>6 DEF FailInv
<1>7. CASE Overrun
  <2>1. pc' = "lost"
    BY <1>7 DEF Overrun
  <2>2. QED BY <2>1 DEF FailInv
<1>8. CASE CloseFile
  <2>1. PICK r \in {-1, 0} :
          /\ s_close(r)
          /\ failed' = failed \cup {<<c, odd>> : c \in {x \in {"close"} : r < 0} \cup
                                                       {x \in {"short"} : lossy'}}
    BY <1>8 DEF CloseFile
  <2>2. /\ pc = "close" /\ UNCHANGED <<cfg, todo>>
        /\ pc' = IF ~odd THEN "free"
                 ELSE IF ret < 0 THEN "failed"
                 ELSE IF Has(cfg, "DUALPF") THEN "open" ELSE "free"
        /\ IF odd /\ ret = 0 /\ Has(cfg, "DUALPF")
           THEN odd' = FALSE /\ ret' = -1
           ELSE UNCHANGED <<odd, ret>>
    BY <1>8 DEF CloseFile
  <2>3. handle
    BY <1>0, <2>2 DEF FailInv
  <2>4. last_ioerr' = last_ioerr /\ (r < 0 => dos_err' = "disk")
    BY <1>0, <2>1, <2>3, CloseOutcome
  <2>5. /\ failed \subseteq failed' /\ failed' \subseteq failed \cup {<<"close", odd>>, <<"short", odd>>}
        /\ <<"close", odd>> \in failed' => r < 0 \/ <<"close", odd>> \in failed
    BY <2>1
  <2>6. CASE odd /\ ret = -1
    <3>6. ret < 0 /\ ret # 0
      BY <2>6
    <3>7. odd' = odd /\ odd = TRUE
      BY <1>0, <2>2, <2>6, <3>6
    <3>1. pc' = "failed" /\ odd' /\ failed = {<<"write", TRUE>>}
      BY <1>0, <2>2, <3>6, <3>7 DEF FailInv
    <3>8. Bad' => <<"close", TRUE>> \in failed'
      BY <2>5, <3>1, <3>7, BadMeans
    <3>2. Bad' => r < 0
      BY <2>5, <3>1, <3>7, <3>8
    <3>3. r < 0 => Ioerr' # "none"
      BY <2>4 DEF Ioerr
    <3>4. failed' # {}
      BY <2>5, <3>1
    <3>5. QED BY <3>1, <3>2, <3>3, <3>4 DEF FailInv
  <2>7. CASE odd /\ ret = 0
    <3>1. failed = {}
      BY <1>0, <2>2, <2>7 DEF FailInv
    <3>2. failed' \subseteq Passed
      BY <2>5, <2>7, <3>1 DEF Passed
    <3>3. ~Bad'
      BY <3>2, PassedOnes, BadMeans
    <3>4. CASE Has(cfg, "DUALPF")
      <4>1. pc' = "open" /\ odd' = FALSE /\ ret' = -1
        BY <2>2, <2>7, <3>4
      <4>2. QED BY <3>2, <4>1 DEF FailInv
    <3>5. CASE ~Has(cfg, "DUALPF")
      <4>1. pc' = "free"
        BY <2>2, <2>7, <3>5
      <4>2. QED BY <3>3, <4>1 DEF FailInv
    <3>6. QED BY <3>4, <3>5
  <2>8. CASE ~odd
    <3>1. pc' = "free" /\ cfg' = cfg
      BY <2>2, <2>8
    <3>2. /\ failed \subseteq Passed \cup {<<"write", FALSE>>}
          /\ ret = -1 => cfg.ioerr # "none"
          /\ ret = 0 => failed \subseteq Passed
      BY <1>0, <2>2, <2>8 DEF FailInv
    <3>3. ASSUME Bad' PROVE cfg.ioerr # "none"
      <4>1. <<"write", FALSE>> \in failed
        <5>1. odd = FALSE
          BY <1>0, <2>8
        <5>2. failed' \subseteq Passed \cup {<<"write", FALSE>>, <<"close", FALSE>>, <<"short", FALSE>>}
          BY <2>5, <3>2, <5>1
        <5>3. <<"write", FALSE>> \in failed'
          BY <3>3, <5>2, PassedOnes, BadMeans
        <5>4. QED BY <2>5, <5>1, <5>3
      <4>2. ~(failed \subseteq Passed)
        BY <4>1 DEF Passed
      <4>3. QED BY <1>0, <3>2, <4>2
    <3>4. QED BY <3>1, <3>3 DEF FailInv
  <2>9. QED BY <1>0, <2>6, <2>7, <2>8
<1>9. CASE TellError
  <2>1. /\ pc = "failed" /\ cfg' = [cfg EXCEPT !.ioerr = Ioerr]
        /\ pc' = IF odd THEN "free" ELSE "close"
        /\ UNCHANGED <<odd, ret, failed, handle>>
    BY <1>9 DEF TellError, s_ioerr, saveVars
  <2>2. cfg'.ioerr = Ioerr
    BY <1>0, <2>1 DEF Config
  <2>3. /\ Bad => Ioerr # "none"
        /\ ~odd => /\ ret = -1 /\ handle /\ <<"write", FALSE>> \in failed
                   /\ failed \subseteq Passed \cup {<<"write", FALSE>>}
    BY <1>0, <2>1 DEF FailInv
  <2>4. Bad' <=> Bad
    BY <2>1 DEF Bad
  <2>5. CASE odd
    BY <2>1, <2>2, <2>3, <2>4, <2>5 DEF FailInv
  <2>6. CASE ~odd
    <3>1. Bad
      BY <2>3, <2>6, BadMeans
    <3>2. pc' = "close" /\ ~odd' /\ ret' = -1 /\ handle' /\ cfg'.ioerr # "none"
      BY <2>1, <2>2, <2>3, <2>6, <3>1
    <3>3. /\ <<"write", FALSE>> \in failed'
          /\ failed' \subseteq Passed \cup {<<"write", FALSE>>}
      BY <2>1, <2>3, <2>6
    <3>4. ret' # 0
      BY <3>2
    <3>5. QED BY <3>2, <3>3, <3>4 DEF FailInv
  <2>7. QED BY <2>5, <2>6
<1>10. CASE FreeHandle
  <2>1. PICK r \in {-1, 0} : Failed(r < 0, "free")
    BY <1>10 DEF FreeHandle
  <2>2. pc = "free" /\ pc' = "shown" /\ UNCHANGED <<cfg, odd>>
    BY <1>10 DEF FreeHandle
  <2>3. failed' \subseteq failed \cup {<<"free", odd>>}
    BY <2>1 DEF Failed
  <2>4. Bad' => Bad
    BY <2>3, BadMeans
  <2>5. QED BY <1>0, <2>2, <2>4 DEF FailInv
<1>11. CASE Return
  <2>1. pc' = "idle" /\ failed' = {}
    BY <1>11 DEF Return
  <2>2. QED BY <2>1 DEF FailInv
<1>12. CASE Lost
  BY <1>1, <1>12 DEF Lost
<1>13. QED
  BY <1>1, <1>2, <1>3, <1>4, <1>5, <1>6, <1>7, <1>8, <1>9, <1>10, <1>11, <1>12 DEF Next

LEMMA SizesStep == ASSUME IInv, [Next]_vars PROVE SizesInv'
<1>0. /\ Handle /\ Settings /\ SaveTypes /\ FailInv /\ SizesInv
      /\ cfg \in Config /\ odd \in BOOLEAN /\ ret \in {-1, 0}
  BY IInvParts DEF Settings, SaveTypes
<1>1. CASE UNCHANGED vars
  BY <1>0, <1>1 DEF vars, saveVars, iffVars, SizesInv
<1>2. CASE Keys
  <2>1. Key
    BY <1>2 DEF Keys, inc_scr_width, dec_scr_width, handle_display_mode, handle_save_as,
          set_bplane_height, handle_bplane_height, dec_bplane_num, inc_bplane_num,
          set_resolution, handle_priority, copper_search
  <2>2. pc = "idle" /\ pc' = "idle" /\ made' = made
    BY <2>1 DEF Key, saveVars
  <2>3. QED BY <1>0, <2>2 DEF SizesInv
<1>3. CASE StartSave
  <2>1. pc = "idle" /\ made = <<>>
    BY <1>0, <1>3 DEF StartSave, SizesInv
  <2>2. CASE \E status \in {"NOSAVE", "NORAM"} :
               /\ cfg' = [cfg EXCEPT !.ioerr = "none", !.status = status]
               /\ pc' = "shown"
    <3>1. cfg'.status # "SAVEOK"
      BY <1>0, <2>2 DEF Config
    <3>2. QED BY <2>2, <3>1 DEF SizesInv
  <2>3. CASE /\ cfg' = [cfg EXCEPT !.ioerr = "none", !.status = "SAVEOK"]
             /\ pc' = "open" /\ odd' = TRUE /\ made' = made
    <3>1. cfg'.status = "SAVEOK" /\ cfg'.ioerr = "none"
      BY <1>0, <2>3 DEF Config
    <3>2. QED BY <2>1, <2>3, <3>1 DEF SizesInv
  <2>4. QED BY <1>3, <2>2, <2>3 DEF StartSave
<1>4. CASE OpenFile
  <2>1. PICK opened \in BOOLEAN :
          /\ s_open(opened)
          /\ Failed(~opened, "open")
          /\ pc' = IF opened THEN "save" ELSE IF odd THEN "failed" ELSE "free"
          /\ todo' = IF opened THEN Writes(cfg, odd) ELSE <<>>
    BY <1>4 DEF OpenFile
  <2>2. pc = "open" /\ UNCHANGED <<cfg, odd, ret, made>>
    BY <1>4 DEF OpenFile
  <2>3. CASE opened
    <3>1. pc' = "save" /\ todo' = Writes(cfg, odd) /\ taken' = 0 /\ failed' = failed
      BY <2>1, <2>3, OpenOutcome DEF Failed
    <3>2. Bytes(Writes(cfg, odd)) \in Nat
      BY <1>0, WritesTyped, TotalsStep
    <3>3. taken' + Bytes(todo') = Bytes(Writes(cfg, odd))
      BY <3>1, <3>2
    <3> HIDE DEF SizesInv
    <3>4. QED BY <1>0, <2>2, <3>1, <3>3 DEF SizesInv
  <2>4. CASE ~opened
    <3>1. pc' \in {"failed", "free"} /\ failed' # {}
      BY <2>1, <2>4 DEF Failed
    <3>2. pc' = "failed" => odd
      BY <2>1, <2>4
    <3>3. QED BY <1>0, <2>2, <3>1, <3>2 DEF SizesInv
  <2>5. QED BY <2>3, <2>4
<1>5. CASE WriteSome
  <2>1. PICK r \in {-1, 0, todo[1][2]} :
          /\ s_write(todo[1][2], r)
          /\ Failed(r < 0, "write")
          /\ todo' = IF r < 0 THEN <<>> ELSE Advance(todo)
          /\ pc' = IF r >= 0 THEN "save" ELSE IF odd THEN "close" ELSE "failed"
    BY <1>5 DEF WriteSome
  <2>2. pc = "save" /\ todo # <<>> /\ UNCHANGED <<cfg, odd, ret, made>>
    BY <1>5 DEF WriteSome
  <2>3. /\ todo \in Seq(Runs) /\ todo[1][2] \in Nat /\ Bytes(Advance(todo)) \in Nat
        /\ Bytes(todo) = todo[1][2] + Bytes(Advance(todo))
    BY <1>0, <2>2, BytesAdvance DEF SaveTypes, TodoFits
  <2>4. r \in Int
    BY <2>3
  <2>5. ret = -1 /\ handle /\ taken + Bytes(todo) = Bytes(Writes(cfg, odd)) /\ taken \in Nat
    BY <1>0, <2>2 DEF FailInv, SizesInv, Handle, IffTypeOK
  <2>6. r >= 0 => taken' = taken + todo[1][2]
    BY <1>0, <2>1, <2>3, <2>4, <2>5, WriteOutcome
  <2>7. CASE r >= 0
    <3>1. ~(r < 0)
      BY <2>4, <2>7
    <3>2. pc' = "save" /\ todo' = Advance(todo) /\ failed' = failed
      BY <2>1, <2>7, <3>1 DEF Failed
    <3>3. taken' + Bytes(Advance(todo)) = taken + Bytes(todo)
      BY <2>3, <2>5, <2>6, <2>7
    <3>4. taken' + Bytes(todo') = Bytes(Writes(cfg, odd))
      BY <2>5, <3>2, <3>3
    <3>5. QED BY <1>0, <2>2, <3>2, <3>4 DEF SizesInv
  <2>8. CASE r < 0
    <3>1. ~(r >= 0)
      BY <2>4, <2>8
    <3>2. pc' = (IF odd THEN "close" ELSE "failed") /\ failed' # {}
      BY <2>1, <2>8, <3>1 DEF Failed
    <3>3. ret' = -1 /\ ret' # 0
      BY <2>2, <2>5
    <3>4. odd' = odd
      BY <2>2
    <3>5. cfg.status = "SAVEOK" /\ (odd => made = <<>>) /\ (~odd => Has(cfg, "DUALPF"))
      BY <1>0, <2>2 DEF SizesInv
    <3>6. cfg' = cfg /\ made' = made
      BY <2>2
    <3>7. CASE odd
      <4>1. pc' = "close" /\ odd' /\ made' = <<>> /\ cfg'.status = "SAVEOK"
        BY <3>2, <3>4, <3>5, <3>6, <3>7
      <4>2. QED BY <3>2, <3>3, <4>1 DEF SizesInv
    <3>8. CASE ~odd
      <4>1. pc' = "failed" /\ ~odd' /\ Has(cfg', "DUALPF") /\ cfg'.status = "SAVEOK"
        BY <3>2, <3>4, <3>5, <3>6, <3>8
      <4>2. QED BY <3>2, <3>3, <4>1 DEF SizesInv
    <3>9. QED BY <3>7, <3>8
  <2>9. QED BY <2>4, <2>7, <2>8
<1>6. CASE SaveDone
  <2>1. /\ pc = "save" /\ pc' = "close" /\ todo = <<>>
        /\ UNCHANGED <<cfg, odd, failed, made, taken>>
    BY <1>6 DEF SaveDone, iffVars
  <2>2. taken + Bytes(todo) = Bytes(Writes(cfg, odd)) /\ taken \in Nat
    BY <1>0, <2>1 DEF SizesInv, Handle, IffTypeOK
  <2>3. taken' = Bytes(Writes(cfg, odd))
    BY <2>1, <2>2, BytesNone
  <2>4. QED BY <1>0, <2>1, <2>3 DEF SizesInv
<1>7. CASE Overrun
  <2>1. pc' = "lost"
    BY <1>7 DEF Overrun
  <2>2. QED BY <2>1 DEF SizesInv
<1>8. CASE CloseFile
  <2>1. PICK r \in {-1, 0} :
          /\ s_close(r)
          /\ failed' = failed \cup {<<c, odd>> : c \in {x \in {"close"} : r < 0} \cup
                                                       {x \in {"short"} : lossy'}}
          /\ made' = IF r < 0 THEN made ELSE Append(made, file')
    BY <1>8 DEF CloseFile
  <2>2. /\ pc = "close" /\ UNCHANGED <<cfg, todo>>
        /\ pc' = IF ~odd THEN "free"
                 ELSE IF ret < 0 THEN "failed"
                 ELSE IF Has(cfg, "DUALPF") THEN "open" ELSE "free"
        /\ IF odd /\ ret = 0 /\ Has(cfg, "DUALPF")
           THEN odd' = FALSE /\ ret' = -1
           ELSE UNCHANGED <<odd, ret>>
    BY <1>8 DEF CloseFile
  <2>3. handle
    BY <1>0, <2>2 DEF FailInv
  <2>4. r = 0 /\ ~lossy' => file' = taken
    BY <1>0, <2>1, <2>3, CloseOutcome
  <2>5. /\ cfg.status = "SAVEOK" /\ (ret = 0 => taken = Bytes(Writes(cfg, odd)))
        /\ odd => made = <<>>
        /\ ~odd => Has(cfg, "DUALPF")
        /\ failed = {} => /\ cfg.ioerr = "none"
                          /\ ~odd => made = << Bytes(Writes(cfg, TRUE)) >>
    BY <1>0, <2>2 DEF SizesInv
  <2>6. ret = -1 => failed # {}
    <3>1. ASSUME ret = -1 PROVE failed # {}
      <4>1. ret # 0
        BY <3>1
      <4>2. odd => failed = {<<"write", TRUE>>}
        BY <1>0, <2>2, <4>1 DEF FailInv
      <4>3. ~odd => <<"write", FALSE>> \in failed
        BY <1>0, <2>2, <3>1 DEF FailInv
      <4>4. QED BY <4>2, <4>3
    <3>2. QED BY <3>1
  <2>7. ASSUME failed' = {}
        PROVE  /\ failed = {} /\ ret = 0 /\ cfg.ioerr = "none"
               /\ made' = IF odd THEN << Bytes(Writes(cfg, TRUE)) >>
                          ELSE << Bytes(Writes(cfg, TRUE)), Bytes(Writes(cfg, FALSE)) >>
    <3>7. /\ failed \subseteq failed'
          /\ r < 0 => <<"close", odd>> \in failed'
          /\ lossy' => <<"short", odd>> \in failed'
      BY <2>1
    <3>1. failed = {} /\ ~(r < 0) /\ ~lossy' /\ r = 0
      <4>1. failed = {} /\ ~(r < 0) /\ ~lossy'
        BY <2>7, <3>7
      <4>2. QED BY <4>1
    <3>2. ret = 0
      BY <1>0, <2>6, <3>1
    <3>3. made' = Append(made, Bytes(Writes(cfg, odd)))
      BY <2>1, <2>4, <2>5, <3>1, <3>2
    <3>4. CASE odd
      <4>1. odd = TRUE /\ made = <<>>
        BY <1>0, <2>5, <3>4
      <4>2. made' = << Bytes(Writes(cfg, TRUE)) >>
        BY <3>3, <4>1
      <4>3. QED BY <2>5, <3>1, <3>2, <3>4, <4>2
    <3>5. CASE ~odd
      <4>1. odd = FALSE /\ made = << Bytes(Writes(cfg, TRUE)) >>
        BY <1>0, <2>5, <3>1, <3>5
      <4> DEFINE a == Bytes(Writes(cfg, TRUE))
                 b == Bytes(Writes(cfg, FALSE))
      <4>4. made' = Append(<<a>>, b)
        BY <3>3, <4>1
      <4> HIDE DEF a, b
      <4>6. a \in Nat /\ b \in Nat
        BY <1>0, WritesTyped, TotalsStep DEF a, b
      <4>5. Append(<<a>>, b) = <<a, b>>
        BY <4>6, Pair
      <4>2. made' = << Bytes(Writes(cfg, TRUE)), Bytes(Writes(cfg, FALSE)) >>
        BY <4>4, <4>5 DEF a, b
      <4>3. QED BY <2>5, <3>1, <3>2, <3>5, <4>2
    <3>6. QED BY <3>4, <3>5
  <2>8. CASE odd /\ ret < 0
    <3>3. ret # 0
      BY <2>8
    <3>4. failed' # {}
      BY <2>7, <3>3
    <3>1. pc' = "failed" /\ odd' = odd /\ failed' # {}
      BY <2>2, <2>8, <3>3, <3>4
    <3>2. QED BY <2>2, <2>5, <2>8, <3>1 DEF SizesInv
  <2>9. CASE odd /\ ret = 0
    <3>1. CASE Has(cfg, "DUALPF")
      <4>1. pc' = "open" /\ odd' = FALSE /\ ret' = -1
        BY <2>2, <2>9, <3>1
      <4>2. QED BY <2>2, <2>5, <2>7, <2>9, <3>1, <4>1 DEF SizesInv
    <3>2. CASE ~Has(cfg, "DUALPF")
      <4>1. pc' = "free"
        BY <2>2, <2>9, <3>2
      <4>2. QED BY <2>2, <2>5, <2>7, <2>9, <3>2, <4>1 DEF SizesInv
    <3>3. QED BY <3>1, <3>2
  <2>10. CASE ~odd
    <3>1. pc' = "free"
      BY <2>2, <2>10
    <3>2. QED BY <2>2, <2>5, <2>7, <2>10, <3>1 DEF SizesInv
  <2>11. QED BY <1>0, <2>8, <2>9, <2>10
<1>9. CASE TellError
  <2>1. /\ pc = "failed" /\ cfg' = [cfg EXCEPT !.ioerr = Ioerr]
        /\ pc' = IF odd THEN "free" ELSE "close"
        /\ UNCHANGED <<odd, ret, failed, made>>
    BY <1>9 DEF TellError, s_ioerr, saveVars
  <2>2. cfg'.status = cfg.status /\ cfg'.flags = cfg.flags
    BY <1>0, <2>1 DEF Config
  <2>3. failed # {} /\ (~odd => ret = -1)
    BY <1>0, <2>1 DEF FailInv
  <2>4. cfg.status = "SAVEOK" /\ (~odd => Has(cfg, "DUALPF"))
    BY <1>0, <2>1 DEF SizesInv
  <2>5. ~odd => Has(cfg', "DUALPF")
    BY <2>2, <2>4 DEF Has
  <2>6. CASE odd
    BY <2>1, <2>2, <2>3, <2>4, <2>6 DEF SizesInv
  <2>7. CASE ~odd
    <3>1. pc' = "close" /\ ret' = -1 /\ ~odd' /\ failed' # {} /\ Has(cfg', "DUALPF")
          /\ cfg'.status = "SAVEOK"
      BY <2>1, <2>2, <2>3, <2>4, <2>5, <2>7
    <3>2. ret' # 0
      BY <3>1
    <3>3. QED BY <3>1, <3>2 DEF SizesInv
  <2>8. QED BY <2>6, <2>7
<1>10. CASE FreeHandle
  <2>1. PICK r \in {-1, 0} : Failed(r < 0, "free")
    BY <1>10 DEF FreeHandle
  <2>2. pc = "free" /\ pc' = "shown" /\ UNCHANGED <<cfg, made>>
    BY <1>10 DEF FreeHandle
  <2>3. failed' = {} => failed = {}
    BY <2>1 DEF Failed
  <2>4. QED BY <1>0, <2>2, <2>3 DEF SizesInv
<1>11. CASE Return
  <2>1. pc' = "idle" /\ made' = <<>>
    BY <1>11 DEF Return
  <2>2. QED BY <2>1 DEF SizesInv
<1>12. CASE Lost
  BY <1>1, <1>12 DEF Lost
<1>13. QED
  BY <1>1, <1>2, <1>3, <1>4, <1>5, <1>6, <1>7, <1>8, <1>9, <1>10, <1>11, <1>12 DEF Next

LEMMA StepInv == IInv /\ [Next]_vars => IInv'
<1>1. ASSUME IInv, [Next]_vars
      PROVE  /\ Handle' /\ Settings' /\ SaveTypes' /\ HandleInv'
             /\ FailInv' /\ SizesInv'
  BY <1>1, BaseStep, FailStep, SizesStep
<1>2. Handle' /\ Settings' /\ SaveTypes' /\ HandleInv' /\ FailInv' /\ SizesInv' => IInv'
  BY IInvParts, PTL
<1>3. QED BY <1>1, <1>2

-----------------------------------------------------------------------------
(* The results. *)

THEOREM SearcherInv == Spec => []IInv
<1>1. Init => IInv
  BY InitInv
<1>2. IInv /\ [Next]_vars => IInv'
  BY StepInv
<1>3. QED
  BY <1>1, <1>2, PTL DEF Spec

\* Every variable has its type, in every state (TypeOK).
THEOREM SearcherTypes == Spec => []TypeOK
<1>1. IInv => TypeOK
  BY DEF IInv
<1>2. QED
  BY <1>1, SearcherInv, PTL

\* No byte a caller was told is written is lost between the buffer and the
\* file, as long as Write() takes all it is given or fails (NothingLost).
THEOREM SearcherKeepsBytes == Spec => []NothingLost
<1>1. IInv => NothingLost
  BY DEF IInv
<1>2. QED
  BY <1>1, SearcherInv, PTL

\* The memcpy() calls of s_write() stay inside the buffer, for every picture
\* the keys can set up (BufferFits, RowsFit).
THEOREM SearcherStaysInBuffer == Spec => []BufferFits /\ []RowsFit
<1>1. IInv => BufferFits /\ RowsFit
  BY DEF IInv
<1>2. QED
  BY <1>1, SearcherInv, PTL

\* Flags and the modes that are shown agree, and HAM is never hires (ModesAgree).
THEOREM SearcherModes == Spec => []ModesAgree
<1>1. IInv => ModesAgree
  BY DEF IInv
<1>2. QED
  BY <1>1, SearcherInv, PTL

\* However a save ends, the handle is given back (HandleReturned).
THEOREM SearcherReturnsHandle == Spec => []HandleReturned
<1>1. IInv => HandleReturned
  BY DEF IInv, HandleInv, HandleReturned
<1>2. QED
  BY <1>1, SearcherInv, PTL

\* A save in which nothing fails or falls short says so and leaves every byte it
\* announced, in one file or two, each closed (SavedWhole).
THEOREM SearcherSavesWhole == Spec => []SavedWhole
<1>1. IInv => SavedWhole
  <2> SUFFICES ASSUME IInv, pc = "shown", cfg.status = "SAVEOK", failed = {}
               PROVE  /\ SavedOk
                      /\ Len(made) = IF Has(cfg, "DUALPF") THEN 2 ELSE 1
                      /\ made[1] = Bytes(Writes(cfg, TRUE))
                      /\ Len(made) = 2 => made[2] = Bytes(Writes(cfg, FALSE))
                      /\ cfg.save_as = "RAW" =>
                           PictureBytes = made[1] + IF Has(cfg, "DUALPF") THEN made[2] ELSE 0
    BY DEF SavedWhole
  <2>1. SizesInv /\ Settings
    BY IInvParts
  <2> DEFINE a == Bytes(Writes(cfg, TRUE))
             b == Bytes(Writes(cfg, FALSE))
             dual == Has(cfg, "DUALPF")
  <2>2. cfg.ioerr = "none" /\ made = IF dual THEN <<a, b>> ELSE <<a>>
    BY <2>1 DEF SizesInv
  <2>3. cfg.save_as = "RAW" => PictureBytes = a + IF dual THEN b ELSE 0
    BY <2>1, RawBytes
  <2> HIDE DEF a, b, dual
  <2>4. CASE dual
    <3>1. Len(made) = 2 /\ made[1] = a /\ made[2] = b
      BY <2>2, <2>4
    <3>2. QED BY <2>2, <2>3, <2>4, <3>1 DEF SavedOk, a, b, dual
  <2>5. CASE ~dual
    <3>1. Len(made) = 1 /\ made[1] = a
      BY <2>2, <2>5
    <3>2. SavedOk
      BY <2>2 DEF SavedOk
    <3>3. Len(made) # 2 /\ made[1] = a
      BY <3>1
    <3>4. cfg.save_as = "RAW" => PictureBytes = made[1] + IF dual THEN made[2] ELSE 0
      BY <2>3, <2>5, <3>1
    <3>5. QED BY <2>5, <3>1, <3>2, <3>3, <3>4 DEF a, b, dual
  <2>6. QED BY <2>4, <2>5
<1>2. QED
  BY <1>1, SearcherInv, PTL

\* A first file that cannot be opened, a failed write and a failed close of the
\* first, and a failed write to the second are never "File saved OK"
\* (FailuresShown).
THEOREM SearcherShowsFailures == Spec => []FailuresShown
<1>1. IInv => FailuresShown
  BY DEF IInv, FailInv, Bad, FailuresShown, SavedOk
<1>2. QED
  BY <1>1, SearcherInv, PTL

\* The length in front of an IFF file is that of what follows, whatever the size
\* of the picture, but for the CAMG chunk that is counted and not always written
\* (FormSizeBut).
THEOREM SearcherFormSize == Spec => []FormSizeBut
<1>1. IInv => FormSizeBut
  <2> SUFFICES ASSUME IInv, IffComplete, PlanesAgree
               PROVE  taken = 8 + FormSize(cfg, odd) - IF ModeId(cfg) = {} THEN 12 ELSE 0
    BY DEF FormSizeBut
  <2>1. SizesInv /\ Settings /\ odd \in BOOLEAN
    BY IInvParts DEF SaveTypes
  <2>2. taken = Bytes(Writes(cfg, odd)) /\ cfg.save_as = "IFF"
    BY <2>1 DEF SizesInv, IffComplete
  <2>3. Agreeing(odd)
    BY DEF PlanesAgree, Agreeing
  <2>4. QED BY <2>1, <2>2, <2>3, IffBytes
<1>2. QED
  BY <1>1, SearcherInv, PTL
=============================================================================
