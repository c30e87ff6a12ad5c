---------------------------- MODULE HeaderProof -----------------------------
(***************************************************************************)
(* The proofs that client, server and plugins agree on the length of a      *)
(* header, that the device and a plain command line arrive, and that the name  *)
(* of the temporary file fits where it is made: for every device name and      *)
(* command line that can be given.                                            *)
(***************************************************************************)
EXTENDS HeaderCodec, Induction, SequenceTheorems

\* The length rounded up to longs, as a header counts it.
Longs(n) == Multiple4(n + 3)

-----------------------------------------------------------------------------
(* Rounding. *)

LEMMA RoundDown ==
  ASSUME NEW n \in Nat
  PROVE  Multiple4(n) \in Nat /\ Multiple4(n) <= n /\ n < Multiple4(n) + 4
  BY SMT DEF Multiple4

LEMMA RoundUp ==
  ASSUME NEW n \in Nat
  PROVE  /\ Longs(n) \in Nat /\ n <= Longs(n) /\ Longs(n) <= n + 3
         /\ n + ((4 - (n % 4)) % 4) = Longs(n)
         /\ Multiple4(HeaderLen - 4 + n + 3) = HeaderLen - 4 + Longs(n)
         /\ Multiple4(HeaderLen - 4 + Longs(n)) = HeaderLen - 4 + Longs(n)
         /\ Multiple4(4 + (HeaderLen - 4 + Longs(n))) = HeaderLen + Longs(n)
  BY SMT DEF Longs, Multiple4, HeaderLen

-----------------------------------------------------------------------------
(* What prepare_header() packs. *)

LEMMA AddedLen ==
  ASSUME NEW type \in Nat, NEW ext \in Seq(Nat), Len(ext) <= ExtMax
  PROVE  AddExtension(type, ext) \in Seq(Nat) /\ Len(AddExtension(type, ext)) = Len(ext) + 1
<1>1. ExtMax \in Nat /\ Len(ext) \in Nat
  BY HeaderAssumption
<1>2. Min({Len(ext), ExtMax}) = Len(ext)
  BY <1>1 DEF Min
<1>3. SubSeq(ext, 1, Len(ext)) = ext
  BY SubSeqFull
<1>4. <<type + Len(ext)>> \in Seq(Nat) /\ Len(<<type + Len(ext)>>) = 1
  BY <1>1
<1>5. AddExtension(type, ext) = <<type + Len(ext)>> \o SubSeq(ext, 1, Len(ext))
  BY <1>2 DEF AddExtension
<1>6. QED BY <1>1, <1>3, <1>4, <1>5, ConcatProperties

\* What the options hold.
LEMMA OptionTypes ==
  ASSUME NEW o \in Options
  PROVE  /\ o.device \in Seq(Char) /\ o.cmdline \in Seq(Char)
         /\ o.device \in Seq(Nat) /\ Len(o.device) <= ExtMax
         /\ o.cmdline \in Seq(Nat) /\ Len(o.cmdline) <= 2 * ExtMax
         /\ Len(o.device) \in Nat /\ Len(o.cmdline) \in Nat /\ ExtMax \in Nat
<1>1. ExtMax \in Nat BY HeaderAssumption
<1>2. o.device \in Devices \cup {<<>>} /\ o.cmdline \in CmdLines \cup {<<>>}
  BY DEF Options
<1>3. <<>> \in Seq(Char) /\ Len(<<>>) = 0
  BY EmptySeq
<1>4. o.device \in Seq(Char) /\ Len(o.device) <= ExtMax
  <2>1. CASE o.device = <<>> BY <1>1, <1>3, <2>1
  <2>2. CASE o.device \in Devices BY <2>2, HeaderAssumption
  <2>3. QED BY <1>2, <2>1, <2>2
<1>5. o.cmdline \in Seq(Char) /\ Len(o.cmdline) <= 2 * ExtMax
  <2>1. CASE o.cmdline = <<>> BY <1>1, <1>3, <2>1
  <2>2. CASE o.cmdline \in CmdLines BY <2>2, HeaderAssumption
  <2>3. QED BY <1>2, <2>1, <2>2
<1>6. Char \subseteq Nat
  BY DEF Char
<1>7. o.device \in Seq(Nat) /\ o.cmdline \in Seq(Nat)
  BY <1>4, <1>5, <1>6, SeqMonotonic
<1>8. QED BY <1>1, <1>4, <1>5, <1>7, LenProperties

LEMMA OptionLens ==
  ASSUME NEW o \in Options
  PROVE  /\ ExtMax \in 0..15 /\ 1 <= ExtMax
         /\ Len(o.device) \in 0..15
         /\ Len(o.cmdline) <= ExtMax => Len(o.cmdline) \in 0..15
         /\ Len(o.cmdline) > ExtMax => Len(o.cmdline) - ExtMax \in 1..15
<1>1. ExtMax \in 4..15
  BY HeaderAssumption
<1> DEFINE d == Len(o.device)
           c == Len(o.cmdline)
<1>2. d \in Nat /\ c \in Nat /\ d <= ExtMax /\ c <= 2 * ExtMax
  BY OptionTypes
<1> HIDE DEF d, c
<1>3. /\ ExtMax \in 0..15 /\ 1 <= ExtMax /\ d \in 0..15
      /\ c <= ExtMax => c \in 0..15
      /\ c > ExtMax => c - ExtMax \in 1..15
  BY <1>1, <1>2
<1>4. QED BY <1>3 DEF d, c

\* A command line too long for one extension fills one and has its rest in
\* another.
LEMMA TwoParts ==
  ASSUME NEW c \in Seq(Nat), Len(c) > ExtMax, Len(c) <= 2 * ExtMax
  PROVE  LET both == AddExtension(CMDLINE1, SubSeq(c, 1, ExtMax))
                       \o AddExtension(CMDLINE0, SubSeq(c, ExtMax + 1, Len(c)))
         IN  both \in Seq(Nat) /\ Len(both) = Len(c) + 2
<1> DEFINE first == SubSeq(c, 1, ExtMax)
           rest == SubSeq(c, ExtMax + 1, Len(c))
<1>1. ExtMax \in Nat /\ 1 <= ExtMax /\ Len(c) \in Nat
  BY HeaderAssumption
<1>2. CMDLINE0 \in Nat /\ CMDLINE1 \in Nat
  BY DEF CMDLINE0, CMDLINE1
<1>3. /\ \A i \in 1..ExtMax : c[i] \in Nat
      /\ \A i \in (ExtMax + 1)..Len(c) : c[i] \in Nat
  BY <1>1
<1>4. first \in Seq(Nat) /\ Len(first) = ExtMax
  BY <1>1, <1>3, SubSeqProperties
<1>5. rest \in Seq(Nat) /\ Len(rest) = Len(c) - ExtMax
  BY <1>1, <1>3, SubSeqProperties
<1> DEFINE x == AddExtension(CMDLINE1, first)
           y == AddExtension(CMDLINE0, rest)
<1> HIDE DEF first, rest
<1>6. x \in Seq(Nat) /\ Len(x) = ExtMax + 1
  <2>1. Len(first) <= ExtMax BY <1>1, <1>4
  <2>2. x \in Seq(Nat) /\ Len(x) = Len(first) + 1
    BY <1>2, <1>4, <2>1, AddedLen, Zenon
  <2>3. QED BY <1>4, <2>2
<1>7. y \in Seq(Nat) /\ Len(y) = Len(c) - ExtMax + 1
  <2>1. Len(rest) <= ExtMax BY <1>1, <1>5
  <2>2. y \in Seq(Nat) /\ Len(y) = Len(rest) + 1
    BY <1>2, <1>5, <2>1, AddedLen, Zenon
  <2>3. QED BY <1>5, <2>2
<1> HIDE DEF x, y
<1>8. x \o y \in Seq(Nat) /\ Len(x \o y) = Len(x) + Len(y)
  BY <1>6, <1>7, ConcatProperties, Zenon
<1>9. Len(x \o y) = Len(c) + 2
  BY <1>1, <1>6, <1>7, <1>8
<1>10. QED BY <1>8, <1>9 DEF first, rest, x, y

\* The extensions are as long as prepare_header() has reckoned.
LEMMA PackedLen ==
  ASSUME NEW o \in Options
  PROVE  /\ Packed(o) \in Seq(Nat) /\ Len(Packed(o)) = ExtensionLen(o)
         /\ ExtensionLen(o) \in Nat
<1> DEFINE c == o.cmdline
           dev == IF "device" \in o.given THEN AddExtension(DEVICE_NAME, o.device) ELSE <<>>
           cmd == IF "cmdline" \notin o.given THEN <<>>
                  ELSE IF Len(c) <= ExtMax THEN AddExtension(CMDLINE0, c)
                  ELSE AddExtension(CMDLINE1, SubSeq(c, 1, ExtMax))
                         \o AddExtension(CMDLINE0, SubSeq(c, ExtMax + 1, Len(c)))
           devLen == IF "device" \in o.given THEN Len(o.device) + 1 ELSE 0
           cmdLen == IF "cmdline" \in o.given
                     THEN Len(c) + (IF Len(c) > ExtMax THEN 2 ELSE 1) ELSE 0
<1>1. dev \in Seq(Nat) /\ Len(dev) = devLen /\ devLen \in Nat
  <2>1. CASE "device" \in o.given
    <3>1. DEVICE_NAME \in Nat BY DEF DEVICE_NAME
    <3>2. QED BY <2>1, <3>1, OptionTypes, AddedLen
  <2>2. CASE "device" \notin o.given BY <2>2
  <2>3. QED BY <2>1, <2>2
<1>2. cmd \in Seq(Nat) /\ Len(cmd) = cmdLen /\ cmdLen \in Nat
  <2>1. CMDLINE0 \in Nat BY DEF CMDLINE0
  <2>2. CASE "cmdline" \notin o.given BY <2>2
  <2>3. CASE "cmdline" \in o.given /\ Len(c) <= ExtMax
    <3>1. ~(Len(c) > ExtMax) BY <2>3, OptionTypes
    <3>2. cmd = AddExtension(CMDLINE0, c) /\ cmdLen = Len(c) + 1
      BY <2>3, <3>1, Zenon
    <3>3. /\ AddExtension(CMDLINE0, c) \in Seq(Nat)
          /\ Len(AddExtension(CMDLINE0, c)) = Len(c) + 1
      BY <2>1, <2>3, OptionTypes, AddedLen
    <3> HIDE DEF cmd, cmdLen
    <3>4. QED BY <3>2, <3>3, OptionTypes
  <2>4. CASE "cmdline" \in o.given /\ Len(c) > ExtMax
    <3>1. ~(Len(c) <= ExtMax) BY <2>4, OptionTypes
    <3>2. /\ cmd = AddExtension(CMDLINE1, SubSeq(c, 1, ExtMax))
                     \o AddExtension(CMDLINE0, SubSeq(c, ExtMax + 1, Len(c)))
          /\ cmdLen = Len(c) + 2
      BY <2>4, <3>1, Zenon
    <3>3. c \in Seq(Nat) /\ Len(c) > ExtMax /\ Len(c) <= 2 * ExtMax /\ Len(c) \in Nat
      BY <2>4, OptionTypes
    <3> HIDE DEF c, cmd, cmdLen
    <3>4. cmd \in Seq(Nat) /\ Len(cmd) = Len(c) + 2
      BY <3>2, <3>3, TwoParts
    <3>5. QED BY <3>2, <3>3, <3>4
  <2>5. Len(c) \in Nat /\ ExtMax \in Nat
    BY OptionTypes
  <2> HIDE DEF c, cmd, cmdLen
  <2>6. QED BY <2>2, <2>3, <2>4, <2>5
<1>3. Packed(o) = dev \o cmd /\ ExtensionLen(o) = devLen + cmdLen
  BY DEF Packed, ExtensionLen
<1> HIDE DEF dev, cmd, devLen, cmdLen
<1>4. dev \o cmd \in Seq(Nat) /\ Len(dev \o cmd) = Len(dev) + Len(cmd)
  BY <1>1, <1>2, ConcatProperties, Zenon
<1>5. QED BY <1>1, <1>2, <1>3, <1>4

LEMMA PaddedLen ==
  ASSUME NEW s \in Seq(Nat)
  PROVE  Padded(s) \in Seq(Nat) /\ Len(Padded(s)) = Longs(Len(s))
<1> DEFINE n == (4 - (Len(s) % 4)) % 4
           pad == [i \in 1..n |-> PADDING]
<1>1. Len(s) \in Nat /\ n \in Nat
  BY SMT
<1>2. pad \in Seq(Nat) /\ Len(pad) = n
  BY <1>1 DEF PADDING
<1>3. Len(s) + n = Longs(Len(s))
  BY <1>1, RoundUp
<1>4. Padded(s) = s \o pad
  BY DEF Padded
<1> HIDE DEF n, pad
<1>5. QED BY <1>1, <1>2, <1>3, <1>4, ConcatProperties

-----------------------------------------------------------------------------
(* The bytes of the extensions, one by one.                                  *)

LEMMA Tags ==
  ASSUME NEW l \in 0..15
  PROVE  /\ Type(DEVICE_NAME + l) = DEVICE_NAME /\ (DEVICE_NAME + l) % 16 = l
         /\ Type(CMDLINE0 + l) = CMDLINE0 /\ (CMDLINE0 + l) % 16 = l
         /\ Type(CMDLINE1 + l) = CMDLINE1 /\ (CMDLINE1 + l) % 16 = l
         /\ Type(PADDING) = PADDING
  BY SMT DEF Type, DEVICE_NAME, CMDLINE0, CMDLINE1, PADDING

LEMMA Joint ==
  ASSUME NEW s \in Seq(Nat), NEW t \in Seq(Nat)
  PROVE  /\ s \o t \in Seq(Nat) /\ Len(s \o t) = Len(s) + Len(t)
         /\ \A i \in 1..Len(s) : (s \o t)[i] = s[i]
         /\ \A i \in 1..Len(t) : (s \o t)[Len(s) + i] = t[i]
  OBVIOUS

LEMMA AddedBytes ==
  ASSUME NEW type \in Nat, NEW ext \in Seq(Nat), Len(ext) <= ExtMax
  PROVE  /\ AddExtension(type, ext)[1] = type + Len(ext)
         /\ \A i \in 1..Len(ext) : AddExtension(type, ext)[i + 1] = ext[i]
<1>1. ExtMax \in Nat /\ Len(ext) \in Nat
  BY HeaderAssumption
<1>2. Min({Len(ext), ExtMax}) = Len(ext)
  BY <1>1 DEF Min
<1>3. SubSeq(ext, 1, Len(ext)) = ext
  BY SubSeqFull
<1> DEFINE tag == <<type + Len(ext)>>
<1>4. tag \in Seq(Nat) /\ Len(tag) = 1 /\ tag[1] = type + Len(ext)
  BY <1>1
<1>5. AddExtension(type, ext) = tag \o ext
  BY <1>2, <1>3 DEF AddExtension
<1> HIDE DEF tag
<1>6. /\ \A i \in 1..Len(tag) : (tag \o ext)[i] = tag[i]
      /\ \A i \in 1..Len(ext) : (tag \o ext)[Len(tag) + i] = ext[i]
  BY <1>4, Joint, Zenon
<1>7. \A i \in 1..Len(ext) : 1 + i = i + 1
  BY <1>1
<1>8. 1 \in 1..Len(tag)
  BY <1>4
<1>9. (tag \o ext)[1] = tag[1]
  BY <1>6, <1>8
<1>10. \A i \in 1..Len(ext) : (tag \o ext)[i + 1] = ext[i]
  BY <1>4, <1>6, <1>7
<1>11. QED BY <1>4, <1>5, <1>9, <1>10

LEMMA PaddedBytes ==
  ASSUME NEW s \in Seq(Nat)
  PROVE  /\ Len(s) <= Len(Padded(s))
         /\ \A i \in 1..Len(s) : Padded(s)[i] = s[i]
         /\ \A i \in 1..Len(Padded(s)) : i > Len(s) => Padded(s)[i] = PADDING
<1> DEFINE n == (4 - (Len(s) % 4)) % 4
           pad == [i \in 1..n |-> PADDING]
<1>1. Len(s) \in Nat /\ n \in Nat
  BY SMT
<1>2. pad \in Seq(Nat) /\ Len(pad) = n /\ \A i \in 1..n : pad[i] = PADDING
  BY <1>1 DEF PADDING
<1>3. Padded(s) = s \o pad
  BY DEF Padded
<1> HIDE DEF n, pad
<1>4. /\ Len(s \o pad) = Len(s) + n
      /\ \A i \in 1..(Len(s) + n) :
           (s \o pad)[i] = IF i <= Len(s) THEN s[i] ELSE pad[i - Len(s)]
  BY <1>1, <1>2, ConcatProperties
<1>5. QED BY <1>1, <1>2, <1>3, <1>4

\* A device name comes first.
LEMMA DevicePacked ==
  ASSUME NEW o \in Options, "device" \in o.given
  PROVE  /\ Len(Packed(o)) >= Len(o.device) + 1
         /\ Packed(o)[1] = DEVICE_NAME + Len(o.device)
         /\ \A i \in 1..Len(o.device) : Packed(o)[i + 1] = o.device[i]
<1> DEFINE c == o.cmdline
           dev == AddExtension(DEVICE_NAME, o.device)
           cmd == IF "cmdline" \notin o.given THEN <<>>
                  ELSE IF Len(c) <= ExtMax THEN AddExtension(CMDLINE0, c)
                  ELSE AddExtension(CMDLINE1, SubSeq(c, 1, ExtMax))
                         \o AddExtension(CMDLINE0, SubSeq(c, ExtMax + 1, Len(c)))
<1>1. o.device \in Seq(Nat) /\ Len(o.device) \in Nat /\ Len(o.device) <= ExtMax /\ DEVICE_NAME \in Nat
  BY OptionTypes DEF DEVICE_NAME
<1>2. /\ dev \in Seq(Nat) /\ Len(dev) = Len(o.device) + 1
      /\ dev[1] = DEVICE_NAME + Len(o.device)
      /\ \A i \in 1..Len(o.device) : dev[i + 1] = o.device[i]
  BY <1>1, AddedLen, AddedBytes
<1>3. cmd \in Seq(Nat)
  <2>1. CASE "cmdline" \notin o.given BY <2>1
  <2>2. CASE "cmdline" \in o.given /\ Len(c) <= ExtMax
    <3>1. CMDLINE0 \in Nat BY DEF CMDLINE0
    <3>2. AddExtension(CMDLINE0, c) \in Seq(Nat) BY <2>2, <3>1, OptionTypes, AddedLen
    <3>3. QED BY <2>2, <3>2
  <2>3. CASE "cmdline" \in o.given /\ ~(Len(c) <= ExtMax)
    <3>1. c \in Seq(Nat) /\ Len(c) > ExtMax /\ Len(c) <= 2 * ExtMax
      BY <2>3, OptionTypes
    <3>2. cmd = AddExtension(CMDLINE1, SubSeq(c, 1, ExtMax))
                  \o AddExtension(CMDLINE0, SubSeq(c, ExtMax + 1, Len(c)))
      BY <2>3, Zenon
    <3> HIDE DEF c, cmd
    <3>3. QED BY <3>1, <3>2, TwoParts
  <2>4. QED BY <2>1, <2>2, <2>3
<1>4. Packed(o) = dev \o cmd
  BY DEF Packed
<1> HIDE DEF dev, cmd
<1>5. /\ Len(dev \o cmd) = Len(dev) + Len(cmd) /\ Len(cmd) \in Nat
      /\ \A i \in 1..Len(dev) : (dev \o cmd)[i] = dev[i]
  <2>1. Len(cmd) \in Nat BY <1>3, LenProperties
  <2>2. QED BY <1>2, <1>3, <2>1, Joint, Zenon
<1>6. QED BY <1>1, <1>2, <1>4, <1>5

\* A command line alone, in one part.
LEMMA ShortPacked ==
  ASSUME NEW o \in Options, "device" \notin o.given, "cmdline" \in o.given,
         Len(o.cmdline) <= ExtMax
  PROVE  /\ Len(Packed(o)) = Len(o.cmdline) + 1
         /\ Packed(o)[1] = CMDLINE0 + Len(o.cmdline)
         /\ \A i \in 1..Len(o.cmdline) : Packed(o)[i + 1] = o.cmdline[i]
<1>1. CMDLINE0 \in Nat /\ o.cmdline \in Seq(Nat)
  BY OptionTypes DEF CMDLINE0
<1>2. AddExtension(CMDLINE0, o.cmdline) \in Seq(Nat)
  BY <1>1, AddedLen
<1>3. Packed(o) = <<>> \o AddExtension(CMDLINE0, o.cmdline)
  BY DEF Packed
<1>4. Packed(o) = AddExtension(CMDLINE0, o.cmdline)
  BY <1>2, <1>3
<1> DEFINE c == o.cmdline
<1>5. c \in Seq(Nat) /\ Len(c) <= ExtMax
  BY <1>1
<1> HIDE DEF c
<1>6. /\ Len(AddExtension(CMDLINE0, c)) = Len(c) + 1
      /\ AddExtension(CMDLINE0, c)[1] = CMDLINE0 + Len(c)
      /\ \A i \in 1..Len(c) : AddExtension(CMDLINE0, c)[i + 1] = c[i]
  BY <1>1, <1>5, AddedLen, AddedBytes
<1>7. QED BY <1>4, <1>6 DEF c

\* And in two.
LEMMA LongPacked ==
  ASSUME NEW o \in Options, "device" \notin o.given, "cmdline" \in o.given,
         Len(o.cmdline) > ExtMax
  PROVE  /\ Len(Packed(o)) = Len(o.cmdline) + 2
         /\ Packed(o)[1] = CMDLINE1 + ExtMax
         /\ \A i \in 1..ExtMax : Packed(o)[i + 1] = o.cmdline[i]
         /\ Packed(o)[ExtMax + 2] = CMDLINE0 + (Len(o.cmdline) - ExtMax)
         /\ \A i \in 1..(Len(o.cmdline) - ExtMax) : Packed(o)[ExtMax + 2 + i] = o.cmdline[ExtMax + i]
<1> DEFINE c == o.cmdline
           first == SubSeq(c, 1, ExtMax)
           rest == SubSeq(c, ExtMax + 1, Len(c))
           x == AddExtension(CMDLINE1, first)
           y == AddExtension(CMDLINE0, rest)
           R == Len(c) - ExtMax
<1>1. /\ CMDLINE0 \in Nat /\ CMDLINE1 \in Nat /\ c \in Seq(Nat) /\ Len(c) \in Nat
      /\ ExtMax \in Nat /\ 1 <= ExtMax /\ Len(c) <= 2 * ExtMax /\ Len(c) > ExtMax
  BY OptionTypes, HeaderAssumption DEF CMDLINE0, CMDLINE1
<1>2. Packed(o) = x \o y
  <2>1. ~(Len(c) <= ExtMax) BY <1>1
  <2>2. Packed(o) = <<>> \o (x \o y) BY <2>1 DEF Packed
  <2>3. x \o y \in Seq(Nat) BY <1>1, TwoParts
  <2> HIDE DEF x, y
  <2>4. QED BY <2>2, <2>3
<1> HIDE DEF c
<1>3. \A i \in 1..Len(c) : c[i] \in Nat
  BY <1>1
<1>4. /\ first \in Seq(Nat) /\ Len(first) = ExtMax
      /\ \A i \in 1..ExtMax : first[i] = c[i]
  BY <1>1, <1>3, SubSeqProperties
<1>5. /\ rest \in Seq(Nat) /\ Len(rest) = R /\ R \in Nat /\ R <= ExtMax
      /\ \A i \in 1..R : rest[i] = c[ExtMax + i]
  <2>1. /\ rest \in Seq(Nat) /\ Len(rest) = R
        /\ \A i \in 1..R : rest[i] = c[ExtMax + 1 + i - 1]
    <3>1. /\ ExtMax + 1 \in Int /\ ExtMax + 1 <= Len(c) /\ Len(c) - (ExtMax + 1) + 1 = R
          /\ \A i \in (ExtMax + 1)..Len(c) : c[i] \in Nat
      BY <1>1, <1>3
    <3>2. /\ rest \in Seq(Nat) /\ Len(rest) = Len(c) - (ExtMax + 1) + 1
          /\ \A i \in 1..(Len(c) - (ExtMax + 1) + 1) : rest[i] = c[ExtMax + 1 + i - 1]
      BY <1>1, <3>1, SubSeqProperties
    <3>3. QED BY <3>1, <3>2
  <2>2. \A i \in 1..R : ExtMax + 1 + i - 1 = ExtMax + i BY <1>1
  <2>3. QED BY <1>1, <2>1, <2>2
<1> HIDE DEF first, rest
<1>6. /\ x \in Seq(Nat) /\ Len(x) = ExtMax + 1 /\ x[1] = CMDLINE1 + ExtMax
      /\ \A i \in 1..ExtMax : x[i + 1] = c[i]
  <2>1. Len(first) <= ExtMax BY <1>1, <1>4
  <2>2. /\ x \in Seq(Nat) /\ Len(x) = Len(first) + 1 /\ x[1] = CMDLINE1 + Len(first)
        /\ \A i \in 1..Len(first) : x[i + 1] = first[i]
    BY <1>1, <1>4, <2>1, AddedLen, AddedBytes
  <2>3. QED BY <1>4, <2>2
<1>7. /\ y \in Seq(Nat) /\ Len(y) = R + 1 /\ y[1] = CMDLINE0 + R
      /\ \A i \in 1..R : y[i + 1] = c[ExtMax + i]
  <2>1. Len(rest) <= ExtMax BY <1>1, <1>5
  <2>2. /\ y \in Seq(Nat) /\ Len(y) = Len(rest) + 1 /\ y[1] = CMDLINE0 + Len(rest)
        /\ \A i \in 1..Len(rest) : y[i + 1] = rest[i]
    BY <1>1, <1>5, <2>1, AddedLen, AddedBytes
  <2>3. QED BY <1>5, <2>2
<1> HIDE DEF x, y
<1>8. /\ Len(x \o y) = Len(x) + Len(y)
      /\ \A i \in 1..Len(x) : (x \o y)[i] = x[i]
      /\ \A i \in 1..Len(y) : (x \o y)[Len(x) + i] = y[i]
  BY <1>6, <1>7, Joint
<1> HIDE DEF R
<1>9. Len(x \o y) = Len(c) + 2
  <2>1. R = Len(c) - ExtMax BY DEF R
  <2>2. QED BY <1>1, <1>5, <1>6, <1>7, <1>8, <2>1
<1>10. (x \o y)[1] = CMDLINE1 + ExtMax
  <2>1. 1 \in 1..Len(x) BY <1>1, <1>6
  <2>2. QED BY <1>6, <1>8, <2>1
<1>11. ASSUME NEW i \in 1..ExtMax PROVE (x \o y)[i + 1] = c[i]
  <2>1. i + 1 \in 1..Len(x) BY <1>1, <1>6
  <2>2. QED BY <1>6, <1>8, <2>1
<1>12. (x \o y)[ExtMax + 2] = CMDLINE0 + R
  <2>1. 1 \in 1..Len(y) /\ Len(x) + 1 = ExtMax + 2 BY <1>1, <1>5, <1>6, <1>7
  <2>2. QED BY <1>7, <1>8, <2>1
<1>13. ASSUME NEW i \in 1..R PROVE (x \o y)[ExtMax + 2 + i] = c[ExtMax + i]
  <2>1. i + 1 \in 1..Len(y) /\ Len(x) + (i + 1) = ExtMax + 2 + i BY <1>1, <1>5, <1>6, <1>7
  <2>2. QED BY <1>7, <1>8, <2>1
<1> HIDE DEF x, y
<1> DEFINE p == x \o y
<1>14. /\ Packed(o) = p /\ Len(p) = Len(c) + 2 /\ p[1] = CMDLINE1 + ExtMax
       /\ \A i \in 1..ExtMax : p[i + 1] = c[i]
       /\ p[ExtMax + 2] = CMDLINE0 + R
       /\ \A i \in 1..R : p[ExtMax + 2 + i] = c[ExtMax + i]
  BY <1>2, <1>9, <1>10, <1>11, <1>12, <1>13
<1> HIDE DEF p
<1>15. QED BY <1>14 DEF c, R

-----------------------------------------------------------------------------

\* The header on its way: its length byte counts the extensions, which fill
\* their last long.
HeaderInv ==
  /\ opt \in Options
  /\ junk \in Nat
  /\ hpc # "prepare" =>
       /\ wire.ext = Padded(Packed(opt))
       /\ wire.lenVer = HeaderLen - 4 + Longs(ExtensionLen(opt))
       /\ Len(wire.ext) = Longs(ExtensionLen(opt))

LEMMA LengthsFollow == HeaderInv => LengthsAgree
<1> SUFFICES ASSUME HeaderInv, hpc # "prepare"
             PROVE  /\ HdrLen(wire.lenVer) = HeaderLen - 4 + Len(wire.ext)
                    /\ Len(wire.ext) <= ExtensionLen(opt) + 4
                    /\ ExtensionsLen(wire.lenVer) = Len(wire.ext)
                    /\ Multiple4(4 + wire.lenVer) - HeaderLen = Len(wire.ext)
  BY DEF LengthsAgree
<1> DEFINE n == ExtensionLen(opt)
<1>1. n \in Nat
  BY PackedLen DEF HeaderInv
<1>2. wire.lenVer = HeaderLen - 4 + Longs(n) /\ Len(wire.ext) = Longs(n)
  BY DEF HeaderInv
<1> HIDE DEF n
<1>3. /\ Longs(n) \in Nat /\ Longs(n) <= n + 3
      /\ Multiple4(wire.lenVer) = HeaderLen - 4 + Longs(n)
      /\ Multiple4(4 + wire.lenVer) = HeaderLen + Longs(n)
  BY <1>1, <1>2, RoundUp
<1>4. HdrLen(wire.lenVer) = HeaderLen - 4 + Longs(n)
  BY <1>3 DEF HdrLen, HeaderLen
<1>5. ExtensionsLen(wire.lenVer) = Longs(n)
  BY <1>3, <1>4 DEF ExtensionsLen, HeaderLen
<1>6. Len(wire.ext) <= n + 4
  BY <1>1, <1>2, <1>3
<1>7. Multiple4(4 + wire.lenVer) - HeaderLen = Len(wire.ext)
  BY <1>2, <1>3 DEF HeaderLen
<1>8. QED BY <1>2, <1>4, <1>5, <1>6, <1>7 DEF n

\* What stands where, seen from the plugin.
LEMMA Seen ==
  ASSUME HeaderInv, hpc # "prepare"
  PROVE  /\ wire.ext \in Seq(Nat) /\ Len(wire.ext) \in Nat /\ Len(Packed(opt)) \in Nat
         /\ Len(Packed(opt)) <= Len(wire.ext)
         /\ \A i \in 1..Len(Packed(opt)) : At(i - 1) = Packed(opt)[i]
         /\ \A n \in 0..(Len(wire.ext) - 1) : n >= Len(Packed(opt)) => At(n) = PADDING
<1> DEFINE s == Packed(opt)
<1>1. s \in Seq(Nat) /\ Len(s) \in Nat
  BY PackedLen DEF HeaderInv
<1>2. wire.ext = Padded(s)
  BY DEF HeaderInv
<1> HIDE DEF s
<1>3. /\ wire.ext \in Seq(Nat) /\ Len(s) <= Len(wire.ext) /\ Len(wire.ext) \in Nat
      /\ \A i \in 1..Len(s) : wire.ext[i] = s[i]
      /\ \A i \in 1..Len(wire.ext) : i > Len(s) => wire.ext[i] = PADDING
  BY <1>1, <1>2, PaddedLen, PaddedBytes
<1>4. ASSUME NEW i \in 1..Len(s) PROVE At(i - 1) = s[i]
  <2>1. i - 1 < Len(wire.ext) /\ (i - 1) + 1 = i BY <1>1, <1>3
  <2>2. QED BY <1>3, <2>1 DEF At
<1>5. ASSUME NEW n \in 0..(Len(wire.ext) - 1), n >= Len(s) PROVE At(n) = PADDING
  <2>1. n < Len(wire.ext) /\ n + 1 \in 1..Len(wire.ext) /\ n + 1 > Len(s) BY <1>1, <1>3, <1>5
  <2>2. QED BY <1>3, <2>1 DEF At
<1>6. QED BY <1>1, <1>3, <1>4, <1>5 DEF s

-----------------------------------------------------------------------------
(* find_extension().                                                         *)

LEMMA FoundAt ==
  ASSUME NEW from \in Nat, NEW len \in Nat, NEW type, NEW m \in from..(from + len - 1),
         Type(At(m)) = type, \A n \in from..(m - 1) : Type(At(n)) # type
  PROVE  FindExtension(from, len, type) =
           [found |-> TRUE, val |-> [i \in 1..(At(m) % 16) |-> At(m + i)]]
<1> DEFINE hits == {n \in 0..(len - 1) : Type(At(from + n)) = type}
           k == m - from
<1>1. k \in 0..(len - 1) /\ from + k = m
  OBVIOUS
<1>2. k \in hits /\ hits # {}
  BY <1>1
<1>3. ASSUME NEW n \in hits PROVE k <= n
  <2>1. n \in 0..(len - 1) /\ Type(At(from + n)) = type OBVIOUS
  <2>2. ~(from + n \in from..(m - 1)) BY <2>1
  <2>3. QED BY <2>1, <2>2
<1> HIDE DEF k
<1>4. ASSUME NEW x \in hits, \A y \in hits : x <= y PROVE x = k
  <2>1. x <= k /\ k <= x BY <1>2, <1>3, <1>4
  <2>2. QED BY <1>1, <2>1
<1>5. Min(hits) = k
  <2> HIDE DEF hits
  <2>1. QED BY <1>2, <1>3, <1>4 DEF Min
<1>6. QED BY <1>1, <1>2, <1>5 DEF FindExtension

LEMMA FoundFirst ==
  ASSUME NEW len \in Nat, len # 0, NEW type, Type(At(0)) = type
  PROVE  FindExtension(0, len, type) =
           [found |-> TRUE, val |-> [i \in 1..(At(0) % 16) |-> At(i)]]
<1> DEFINE z == 0
<1>1. z \in Nat /\ z \in z..(z + len - 1) /\ \A n \in z..(z - 1) : Type(At(n)) # type
  OBVIOUS
<1>2. \A i \in 1..(At(z) % 16) : z + i = i
  OBVIOUS
<1>3. Type(At(z)) = type
  OBVIOUS
<1> HIDE DEF z
<1>4. FindExtension(z, len, type) =
        [found |-> TRUE, val |-> [i \in 1..(At(z) % 16) |-> At(z + i)]]
  BY <1>1, <1>3, FoundAt
<1>5. [i \in 1..(At(z) % 16) |-> At(z + i)] = [i \in 1..(At(z) % 16) |-> At(i)]
  BY <1>2
<1>6. QED BY <1>4, <1>5 DEF z

LEMMA NotThere ==
  ASSUME NEW from, NEW len \in Nat, NEW type,
         \A n \in 0..(len - 1) : Type(At(from + n)) # type
  PROVE  FindExtension(from, len, type) = None
<1>1. {n \in 0..(len - 1) : Type(At(from + n)) = type} = {}
  OBVIOUS
<1>2. QED BY <1>1 DEF FindExtension

\* Whatever is found is a sequence of bytes.
LEMMA FoundBytes ==
  ASSUME wire.ext \in Seq(Nat), junk \in Nat, NEW from \in Nat, NEW len \in Nat, NEW type
  PROVE  /\ FindExtension(from, len, type).val \in Seq(Nat)
         /\ FindExtension(from, len, type).found \in BOOLEAN
<1> DEFINE hits == {n \in 0..(len - 1) : Type(At(from + n)) = type}
<1>1. \A n \in Nat : At(n) \in Nat
  BY DEF At
<1>2. CASE hits = {}
  BY <1>2 DEF FindExtension, None
<1>3. CASE hits # {}
  <2>1. hits \subseteq Nat
    OBVIOUS
  <2>2. Min(hits) \in hits
    <3> HIDE DEF hits
    <3>1. \E x \in hits : \A y \in hits : x <= y BY <1>3, <2>1, LeastNatural
    <3>2. QED BY <3>1 DEF Min
  <2> DEFINE n == Min(hits)
  <2>3. n \in Nat
    BY <2>1, <2>2
  <2>4. FindExtension(from, len, type) =
          [found |-> TRUE, val |-> [i \in 1..(At(from + n) % 16) |-> At(from + n + i)]]
    BY <1>3 DEF FindExtension
  <2> HIDE DEF n
  <2>5. from + n \in Nat /\ At(from + n) \in Nat
    BY <1>1, <2>3
  <2>6. At(from + n) % 16 \in Nat
    BY <2>5
  <2>7. \A i \in 1..(At(from + n) % 16) : from + n + i \in Nat
    BY <2>5, <2>6
  <2> DEFINE N == At(from + n) % 16
             val == [i \in 1..N |-> At(from + n + i)]
  <2>8. \A i \in 1..N : At(from + n + i) \in Nat
    BY <1>1, <2>7
  <2>9. val \in Seq(Nat)
    <3>1. N \in Nat BY <2>6
    <3> HIDE DEF N
    <3>2. QED BY <2>8, <3>1
  <2>10. QED BY <2>4, <2>9
<1>4. QED BY <1>2, <1>3

-----------------------------------------------------------------------------
(* What local_exec() finds.                                                  *)

LEMMA DeviceFound ==
  ASSUME HeaderInv, hpc # "prepare", "device" \in opt.given
  PROVE  FindExtension(0, Len(wire.ext), DEVICE_NAME) = [found |-> TRUE, val |-> opt.device]
<1> DEFINE d == opt.device
           L == Len(d)
<1>1. opt \in Options
  BY DEF HeaderInv
<1>2. d \in Seq(Nat) /\ L \in Nat /\ L \in 0..15
  BY <1>1, OptionTypes, OptionLens
<1>3. /\ Len(Packed(opt)) >= L + 1 /\ Packed(opt)[1] = DEVICE_NAME + L
      /\ \A i \in 1..L : Packed(opt)[i + 1] = d[i]
  BY <1>1, DevicePacked
<1> DEFINE P == Len(Packed(opt))
<1>4. /\ Len(wire.ext) \in Nat /\ P \in Nat /\ P <= Len(wire.ext)
      /\ \A i \in 1..P : At(i - 1) = Packed(opt)[i]
  BY Seen
<1> HIDE DEF d, L, P
<1>5. At(0) = DEVICE_NAME + L
  <2>1. 1 \in 1..P /\ 1 - 1 = 0 BY <1>2, <1>3, <1>4 DEF P, L, d
  <2>2. QED BY <1>3, <1>4, <2>1 DEF L, d
<1>6. Type(At(0)) = DEVICE_NAME /\ At(0) % 16 = L
  BY <1>2, <1>5, Tags
<1>7. ASSUME NEW i \in 1..L PROVE At(i) = d[i]
  <2>1. i + 1 \in 1..P /\ (i + 1) - 1 = i BY <1>2, <1>3, <1>4 DEF P, L, d
  <2>2. QED BY <1>3, <1>4, <2>1 DEF L, d
<1>8. FindExtension(0, Len(wire.ext), DEVICE_NAME) =
        [found |-> TRUE, val |-> [i \in 1..(At(0) % 16) |-> At(i)]]
  <2>1. Len(wire.ext) # 0
    BY <1>2, <1>3, <1>4 DEF P, L, d
  <2>2. QED BY <1>6, <1>4, <2>1, FoundFirst
<1>9. [i \in 1..(At(0) % 16) |-> At(i)] = [i \in 1..L |-> d[i]]
  BY <1>6, <1>7
<1>10. d = [i \in 1..L |-> d[i]]
  BY <1>2 DEF L
<1>11. QED BY <1>8, <1>9, <1>10 DEF d

\* A command line alone: its tags, its characters and the padding.
LEMMA OnlyCmdline ==
  ASSUME HeaderInv, hpc # "prepare", "device" \notin opt.given, "cmdline" \in opt.given,
         NEW n \in 0..(Len(wire.ext) - 1)
  PROVE  \/ \E i \in DOMAIN opt.cmdline : At(n) = opt.cmdline[i]
         \/ Type(At(n)) \in {PADDING, CMDLINE0}
         \/ Len(opt.cmdline) > ExtMax /\ Type(At(n)) = CMDLINE1
<1> DEFINE c == opt.cmdline
           P == Len(Packed(opt))
<1>1. /\ c \in Seq(Nat) /\ Len(c) \in Nat /\ DOMAIN c = 1..Len(c)
      /\ ExtMax \in 0..15 /\ opt \in Options
      /\ Len(c) <= ExtMax => Len(c) \in 0..15
      /\ Len(c) > ExtMax => Len(c) - ExtMax \in 1..15
  BY OptionTypes, OptionLens DEF HeaderInv
<1>2. /\ Len(wire.ext) \in Nat /\ P \in Nat /\ P <= Len(wire.ext)
      /\ \A i \in 1..P : At(i - 1) = Packed(opt)[i]
      /\ \A m \in 0..(Len(wire.ext) - 1) : m >= P => At(m) = PADDING
  BY Seen
<1>a. P \in Nat /\ n \in Nat
  BY <1>2
<1>b. Len(c) \in Nat /\ ExtMax \in Nat
  BY <1>1
<1> HIDE DEF c, P
<1>3. CASE n >= P
  <2>1. At(n) = PADDING BY <1>2, <1>3
  <2>2. Type(PADDING) = PADDING BY Tags
  <2>3. QED BY <2>1, <2>2
<1>4. CASE n < P
  <2>1. n + 1 \in 1..P /\ At(n) = Packed(opt)[n + 1]
    <3>1. n + 1 \in 1..P /\ (n + 1) - 1 = n BY <1>a, <1>4
    <3>2. QED BY <1>2, <3>1
  <2>2. CASE Len(c) <= ExtMax
    <3>1. /\ P = Len(c) + 1 /\ Packed(opt)[1] = CMDLINE0 + Len(c)
          /\ \A i \in 1..Len(c) : Packed(opt)[i + 1] = c[i]
      BY <1>1, <2>2, ShortPacked DEF c, P
    <3>2. CASE n = 0
      <4>1. Len(c) \in 0..15 BY <1>1, <2>2
      <4>2. At(n) = CMDLINE0 + Len(c) BY <2>1, <3>1, <3>2
      <4>3. Type(At(n)) = CMDLINE0 BY <4>1, <4>2, Tags
      <4>4. QED BY <4>3
    <3>3. CASE n # 0
      <4>1. P = Len(c) + 1 BY <3>1
      <4>2. n \in 1..Len(c) BY <1>a, <1>b, <1>4, <4>1, <3>3
      <4>3. At(n) = c[n] /\ n \in DOMAIN c BY <1>1, <2>1, <3>1, <4>2
      <4>4. QED BY <4>3 DEF c
    <3>4. QED BY <3>2, <3>3
  <2>3. CASE Len(c) > ExtMax
    <3> DEFINE R == Len(c) - ExtMax
    <3>1. /\ P = Len(c) + 2 /\ Packed(opt)[1] = CMDLINE1 + ExtMax
          /\ \A i \in 1..ExtMax : Packed(opt)[i + 1] = c[i]
          /\ Packed(opt)[ExtMax + 2] = CMDLINE0 + R
          /\ \A i \in 1..R : Packed(opt)[ExtMax + 2 + i] = c[ExtMax + i]
      BY <1>1, <2>3, LongPacked DEF c, P
    <3>2. R \in 0..15 /\ ExtMax \in 0..15
      <4>1. R \in 1..15 BY <1>1, <2>3
      <4>2. R \in 0..15
        <5> HIDE DEF R
        <5>1. QED BY <4>1
      <4>3. ExtMax \in 0..15 BY <1>1
      <4>4. QED BY <4>2, <4>3
    <3>8. R \in Nat /\ ExtMax + R = Len(c) /\ P = ExtMax + R + 2
      <4>1. P = Len(c) + 2 BY <3>1
      <4>2. QED BY <1>b, <2>3, <4>1
    <3> HIDE DEF R
    <3>3. CASE n = 0
      <4>1. At(n) = CMDLINE1 + ExtMax BY <2>1, <3>1, <3>3
      <4>2. Type(At(n)) = CMDLINE1 BY <3>2, <4>1, Tags
      <4>3. QED BY <2>3, <4>2 DEF c
    <3>4. CASE n \in 1..ExtMax
      <4>1. At(n) = c[n] BY <2>1, <3>1, <3>4
      <4>2. n \in 1..Len(c) BY <1>b, <2>3, <3>4
      <4>3. n \in DOMAIN c BY <1>1, <4>2
      <4>4. QED BY <4>1, <4>3 DEF c
    <3>5. CASE n = ExtMax + 1
      <4>1. n + 1 = ExtMax + 2 BY <1>b, <3>5
      <4>2. At(n) = CMDLINE0 + R BY <2>1, <3>1, <4>1
      <4>3. Type(At(n)) = CMDLINE0 BY <3>2, <4>2, Tags
      <4>4. QED BY <4>3
    <3>6. CASE n > ExtMax + 1
      <4>1. n - 1 - ExtMax \in 1..R BY <1>a, <1>b, <1>4, <3>8, <3>6
      <4>2. ExtMax + 2 + (n - 1 - ExtMax) = n + 1 /\ ExtMax + (n - 1 - ExtMax) = n - 1
        BY <1>a, <1>b
      <4>3. Packed(opt)[ExtMax + 2 + (n - 1 - ExtMax)] = c[ExtMax + (n - 1 - ExtMax)]
        BY <3>1, <4>1
      <4>4. At(n) = c[n - 1] BY <2>1, <4>2, <4>3
      <4>5. n - 1 \in 1..Len(c) BY <1>a, <1>b, <1>4, <3>8, <3>6
      <4>6. n - 1 \in DOMAIN c BY <1>1, <4>5
      <4>7. QED BY <4>4, <4>6 DEF c
    <3>7. QED BY <1>a, <1>b, <3>3, <3>4, <3>5, <3>6
  <2>4. QED BY <1>b, <2>2, <2>3
<1>5. QED BY <1>a, <1>3, <1>4

LEMMA TypesDiffer ==
  /\ DEVICE_NAME # CMDLINE0 /\ DEVICE_NAME # CMDLINE1 /\ DEVICE_NAME # PADDING
  /\ CMDLINE0 # CMDLINE1 /\ CMDLINE0 # PADDING /\ CMDLINE1 # PADDING
  BY DEF DEVICE_NAME, CMDLINE0, CMDLINE1, PADDING

LEMMA NoDeviceFound ==
  ASSUME HeaderInv, hpc # "prepare", "device" \notin opt.given, "cmdline" \in opt.given,
         Plain(opt.cmdline, {DEVICE_NAME})
  PROVE  FindExtension(0, Len(wire.ext), DEVICE_NAME) = None
<1>1. ASSUME NEW n \in 0..(Len(wire.ext) - 1) PROVE Type(At(0 + n)) # DEVICE_NAME
  <2>1. 0 + n = n OBVIOUS
  <2>2. QED BY <2>1, OnlyCmdline, TypesDiffer DEF Plain
<1>2. Len(wire.ext) \in Nat
  BY Seen
<1>3. QED BY <1>1, <1>2, NotThere

\* A short command line has no first part.
LEMMA ShortFound ==
  ASSUME HeaderInv, hpc # "prepare", "device" \notin opt.given, "cmdline" \in opt.given,
         Len(opt.cmdline) <= ExtMax, Plain(opt.cmdline, {CMDLINE1})
  PROVE  /\ FindExtension(0, Len(wire.ext), CMDLINE1) = None
         /\ FindExtension(0, Len(wire.ext), CMDLINE0) = [found |-> TRUE, val |-> opt.cmdline]
<1> DEFINE c == opt.cmdline
           P == Len(Packed(opt))
<1>1. /\ c \in Seq(Nat) /\ Len(c) \in Nat /\ Len(c) \in 0..15 /\ opt \in Options
      /\ ~(Len(c) > ExtMax)
  BY OptionTypes, OptionLens DEF HeaderInv
<1>2. /\ Len(wire.ext) \in Nat /\ P \in Nat /\ P <= Len(wire.ext)
      /\ \A i \in 1..P : At(i - 1) = Packed(opt)[i]
  BY Seen
<1>3. FindExtension(0, Len(wire.ext), CMDLINE1) = None
  <2>1. ASSUME NEW n \in 0..(Len(wire.ext) - 1) PROVE Type(At(0 + n)) # CMDLINE1
    <3>1. 0 + n = n OBVIOUS
    <3>2. QED BY <1>1, <3>1, OnlyCmdline, TypesDiffer DEF Plain
  <2>2. QED BY <1>2, <2>1, NotThere
<1>4. /\ P = Len(c) + 1 /\ Packed(opt)[1] = CMDLINE0 + Len(c)
      /\ \A i \in 1..Len(c) : Packed(opt)[i + 1] = c[i]
  BY <1>1, ShortPacked
<1> HIDE DEF c, P
<1>5. At(0) = CMDLINE0 + Len(c)
  <2>1. 1 \in 1..P /\ 1 - 1 = 0 BY <1>1, <1>4
  <2>2. QED BY <1>2, <1>4, <2>1
<1>6. Type(At(0)) = CMDLINE0 /\ At(0) % 16 = Len(c)
  BY <1>1, <1>5, Tags
<1>7. ASSUME NEW i \in 1..Len(c) PROVE At(i) = c[i]
  <2>1. i + 1 \in 1..P /\ (i + 1) - 1 = i BY <1>1, <1>4
  <2>2. QED BY <1>2, <1>4, <2>1
<1>8. FindExtension(0, Len(wire.ext), CMDLINE0) =
        [found |-> TRUE, val |-> [i \in 1..(At(0) % 16) |-> At(i)]]
  <2>1. Len(wire.ext) # 0
    BY <1>1, <1>2, <1>4
  <2>2. QED BY <1>6, <1>2, <2>1, FoundFirst
<1>9. [i \in 1..(At(0) % 16) |-> At(i)] = [i \in 1..Len(c) |-> c[i]]
  BY <1>6, <1>7
<1>10. c = [i \in 1..Len(c) |-> c[i]]
  BY <1>1
<1>11. QED BY <1>3, <1>8, <1>9, <1>10 DEF c

\* A long one has two. The search for the second begins at the last character
\* of the first.
LEMMA LongFound ==
  ASSUME HeaderInv, hpc # "prepare", "device" \notin opt.given, "cmdline" \in opt.given,
         Len(opt.cmdline) > ExtMax, Plain(opt.cmdline, {CMDLINE0})
  PROVE  /\ FindExtension(0, Len(wire.ext), CMDLINE1) =
              [found |-> TRUE, val |-> [i \in 1..ExtMax |-> opt.cmdline[i]]]
         /\ FindExtension(ExtMax, Len(wire.ext), CMDLINE0) =
              [found |-> TRUE, val |-> [i \in 1..(Len(opt.cmdline) - ExtMax) |->
                                          opt.cmdline[ExtMax + i]]]
<1> DEFINE c == opt.cmdline
           P == Len(Packed(opt))
           R == Len(c) - ExtMax
<1>1. /\ c \in Seq(Nat) /\ Len(c) \in Nat /\ R \in 1..15 /\ opt \in Options
      /\ ExtMax \in 0..15 /\ 1 <= ExtMax /\ DOMAIN c = 1..Len(c)
  BY OptionTypes, OptionLens DEF HeaderInv
<1>2. /\ Len(wire.ext) \in Nat /\ P \in Nat /\ P <= Len(wire.ext)
      /\ \A i \in 1..P : At(i - 1) = Packed(opt)[i]
  BY Seen
<1>3. /\ P = Len(c) + 2 /\ Packed(opt)[1] = CMDLINE1 + ExtMax
      /\ \A i \in 1..ExtMax : Packed(opt)[i + 1] = c[i]
      /\ Packed(opt)[ExtMax + 2] = CMDLINE0 + R
      /\ \A i \in 1..R : Packed(opt)[ExtMax + 2 + i] = c[ExtMax + i]
  BY <1>1, LongPacked
<1>4. P = ExtMax + R + 2 /\ Len(c) = ExtMax + R /\ Plain(c, {CMDLINE0})
  <2>1. ExtMax \in Nat /\ Len(c) \in Nat BY <1>1
  <2>2. QED BY <1>3, <2>1
<1> HIDE DEF c, P, R
<1>5. Type(At(0)) = CMDLINE1 /\ At(0) % 16 = ExtMax
  <2>1. 1 \in 1..P /\ 1 - 1 = 0 BY <1>1, <1>4
  <2>2. At(0) = CMDLINE1 + ExtMax BY <1>2, <1>3, <2>1
  <2>3. QED BY <1>1, <2>2, Tags
<1>6. ASSUME NEW i \in 1..ExtMax PROVE At(i) = c[i]
  <2>1. i + 1 \in 1..P /\ (i + 1) - 1 = i BY <1>1, <1>4
  <2>2. QED BY <1>2, <1>3, <2>1
<1>7. Type(At(ExtMax + 1)) = CMDLINE0 /\ At(ExtMax + 1) % 16 = R
  <2>1. ExtMax + 2 \in 1..P /\ (ExtMax + 2) - 1 = ExtMax + 1
    <3>1. ExtMax \in Nat /\ R \in Nat BY <1>1
    <3>2. QED BY <3>1, <1>4
  <2>2. At(ExtMax + 1) = CMDLINE0 + R BY <1>2, <1>3, <2>1
  <2>3. R \in 0..15 BY <1>1
  <2>4. QED BY <2>2, <2>3, Tags
<1>8. ASSUME NEW i \in 1..R PROVE At(ExtMax + 1 + i) = c[ExtMax + i]
  <2>1. ExtMax + 2 + i \in 1..P /\ (ExtMax + 2 + i) - 1 = ExtMax + 1 + i BY <1>1, <1>4
  <2>2. At((ExtMax + 2 + i) - 1) = Packed(opt)[ExtMax + 2 + i] BY <1>2, <2>1
  <2>3. QED BY <1>3, <2>1, <2>2
<1>9. FindExtension(0, Len(wire.ext), CMDLINE1) =
        [found |-> TRUE, val |-> [i \in 1..(At(0) % 16) |-> At(i)]]
  <2>1. Len(wire.ext) # 0
    BY <1>1, <1>2, <1>4
  <2>2. QED BY <1>5, <1>2, <2>1, FoundFirst
<1>10. [i \in 1..(At(0) % 16) |-> At(i)] = [i \in 1..ExtMax |-> c[i]]
  BY <1>5, <1>6
<1>11. FindExtension(ExtMax, Len(wire.ext), CMDLINE0) =
        [found |-> TRUE, val |-> [i \in 1..(At(ExtMax + 1) % 16) |-> At(ExtMax + 1 + i)]]
  <2>1. ExtMax \in Nat /\ Len(wire.ext) \in Nat /\ ExtMax \in 1..ExtMax
        /\ ExtMax + 1 <= ExtMax + Len(wire.ext) - 1
    BY <1>1, <1>2, <1>4
  <2>2. Type(c[ExtMax]) # CMDLINE0
    <3>1. ExtMax \in DOMAIN c BY <1>1, <1>4
    <3>2. QED BY <1>4, <3>1 DEF Plain
  <2>3. Type(At(ExtMax)) # CMDLINE0
    BY <1>6, <2>1, <2>2
  <2> DEFINE f == ExtMax
             m == ExtMax + 1
             len == Len(wire.ext)
             t == CMDLINE0
  <2>4. m \in f..(f + len - 1) /\ len \in Nat /\ f \in Nat
    BY <2>1
  <2>5. f..(m - 1) = {f}
    BY <2>1
  <2>6. Type(At(m)) = t /\ Type(At(f)) # t
    BY <1>7, <2>3
  <2> HIDE DEF f, m, len, t
  <2>7. \A n \in f..(m - 1) : Type(At(n)) # t
    BY <2>5, <2>6
  <2>8. FindExtension(f, len, t) =
          [found |-> TRUE, val |-> [i \in 1..(At(m) % 16) |-> At(m + i)]]
    BY <2>4, <2>6, <2>7, FoundAt
  <2>9. QED BY <2>8 DEF f, m, len, t
<1>12. [i \in 1..(At(ExtMax + 1) % 16) |-> At(ExtMax + 1 + i)] = [i \in 1..R |-> c[ExtMax + i]]
  BY <1>7, <1>8
<1>13. QED BY <1>9, <1>10, <1>11, <1>12 DEF c, R

-----------------------------------------------------------------------------
(* What strcat() and strlen() see.                                           *)

\* A string of C is all there.
LEMMA CStringWhole ==
  ASSUME NEW s \in Seq(Char)
  PROVE  CString(s) = s
<1>1. \A i \in 1..Len(s) : s[i] \in Char
  OBVIOUS
<1>3. ~(0 \in Char)
  BY DEF Char
<1>2. {i \in 1..Len(s) : s[i] = 0} = {}
  BY <1>1, <1>3
<1>4. QED BY <1>2 DEF CString

LEMMA CStringType ==
  ASSUME NEW s \in Seq(Nat)
  PROVE  CString(s) \in Seq(Nat)
<1> DEFINE ends == {i \in 1..Len(s) : s[i] = 0}
<1>1. CASE ends = {} BY <1>1 DEF CString
<1>2. CASE ends # {}
  <2>1. Len(s) \in Nat OBVIOUS
  <2>2. ends \subseteq Nat BY <2>1
  <2>3. PICK k \in ends : \A i \in ends : k <= i
    BY <1>2, <2>2, LeastNatural
  <2>4. Min(ends) \in ends
    <3>1. \E x \in ends : \A y \in ends : x <= y BY <2>3
    <3> HIDE DEF ends
    <3>2. QED BY <3>1 DEF Min
  <2> DEFINE e == Min(ends)
  <2>5. e \in 1..Len(s)
    BY <2>4
  <2>6. CString(s) = SubSeq(s, 1, e - 1)
    BY <1>2 DEF CString
  <2> HIDE DEF e
  <2>7. e - 1 \in 0..Len(s)
    BY <2>1, <2>5
  <2>8. \A i \in 1..(e - 1) : s[i] \in Nat
    BY <2>1, <2>7
  <2>9. SubSeq(s, 1, e - 1) \in Seq(Nat)
    BY <2>1, <2>7, <2>8, SubSeqProperties
  <2>10. QED BY <2>6, <2>9
<1>3. QED BY <1>1, <1>2

LEMMA WithColon ==
  ASSUME NEW s \in Seq(Nat)
  PROVE  /\ s \o <<COLON>> \in Seq(Nat) /\ Len(s \o <<COLON>>) = Len(s) + 1
         /\ s \o <<COLON>> = Append(s, COLON)
  BY DEF COLON

LEMMA RamType == RAM \in Seq(Nat) /\ Len(RAM) = 4
  BY DEF RAM, COLON

-----------------------------------------------------------------------------
(* What local_exec() makes of it.                                            *)

\* The command line is there as soon as the extensions have been searched.
CmdlineThere ==
  hpc \in {"parsed", "named"} /\ "device" \notin opt.given
    /\ Plain(opt.cmdline, {DEVICE_NAME, CMDLINE0, CMDLINE1})
  => cmdline = [text |-> opt.cmdline, ended |-> TRUE]

CodecInv ==
  /\ HeaderInv
  /\ hpc \in {"prepare", "sent", "received", "parsed", "named"}
  /\ hpc \in {"prepare", "sent", "received"} => cmdline = [text |-> <<>>, ended |-> TRUE]
  /\ prefix \in Seq(Nat)
  /\ DeviceArrives
  /\ CmdlineThere
  /\ hpc = "named" => name = TmpFilename(prefix)

LEMMA NothingGiven ==
  ASSUME NEW o \in Options
  PROVE  /\ o.given \in SUBSET {"device", "cmdline"}
         /\ "cmdline" \notin o.given => o.cmdline = <<>>
  BY DEF Options

LEMMA PlainEach ==
  ASSUME NEW c, Plain(c, {DEVICE_NAME, CMDLINE0, CMDLINE1})
  PROVE  Plain(c, {DEVICE_NAME}) /\ Plain(c, {CMDLINE0}) /\ Plain(c, {CMDLINE1})
  BY DEF Plain

\* The prefix the plugin finds.
LEMMA DeviceParsed ==
  ASSUME HeaderInv, hpc # "prepare", opt.given # {}
  PROVE  LET dev == FindExtension(0, Len(wire.ext), DEVICE_NAME)
             p   == IF dev.found THEN CString(dev.val) \o <<COLON>> ELSE RAM
         IN  /\ p \in Seq(Nat)
             /\ "device" \in opt.given => p = Append(opt.device, COLON)
             /\ "device" \notin opt.given /\ Plain(opt.cmdline, {DEVICE_NAME})
                => dev = None /\ p = RAM
<1> DEFINE dev == FindExtension(0, Len(wire.ext), DEVICE_NAME)
           p == IF dev.found THEN CString(dev.val) \o <<COLON>> ELSE RAM
<1>1. opt \in Options
  BY DEF HeaderInv
<1>2. p \in Seq(Nat)
  <2>1. 0 \in Nat /\ Len(wire.ext) \in Nat BY Seen
  <2>2. dev.val \in Seq(Nat) BY <2>1, Seen, FoundBytes DEF HeaderInv
  <2> HIDE DEF dev
  <2>3. CString(dev.val) \in Seq(Nat) BY <2>2, CStringType
  <2>4. CString(dev.val) \o <<COLON>> \in Seq(Nat) BY <2>3, WithColon
  <2>5. QED BY <2>4, RamType
<1>3. ASSUME "device" \in opt.given PROVE p = Append(opt.device, COLON)
  <2>1. dev = [found |-> TRUE, val |-> opt.device] BY <1>3, DeviceFound
  <2> HIDE DEF dev
  <2>2. p = CString(opt.device) \o <<COLON>> BY <2>1
  <2>3. CString(opt.device) = opt.device BY <1>1, OptionTypes, CStringWhole
  <2>4. opt.device \o <<COLON>> = Append(opt.device, COLON) BY <1>1, OptionTypes, WithColon
  <2>5. QED BY <2>2, <2>3, <2>4
<1>4. ASSUME "device" \notin opt.given, Plain(opt.cmdline, {DEVICE_NAME})
      PROVE  dev = None /\ p = RAM
  <2>1. "cmdline" \in opt.given BY <1>1, <1>4, NothingGiven
  <2>2. dev = None BY <1>4, <2>1, NoDeviceFound
  <2> HIDE DEF dev
  <2>3. p = RAM BY <2>2 DEF None
  <2>4. QED BY <2>2, <2>3
<1> HIDE DEF dev, p
<1>5. /\ p \in Seq(Nat)
      /\ "device" \in opt.given => p = Append(opt.device, COLON)
      /\ "device" \notin opt.given /\ Plain(opt.cmdline, {DEVICE_NAME}) => dev = None /\ p = RAM
  BY <1>2, <1>3, <1>4
<1>6. QED BY <1>5 DEF dev, p

\* The command line it finds.
LEMMA CmdlineParsed ==
  ASSUME HeaderInv, hpc # "prepare", "device" \notin opt.given, "cmdline" \in opt.given,
         Plain(opt.cmdline, {CMDLINE0}), Plain(opt.cmdline, {CMDLINE1})
  PROVE  LET len == Len(wire.ext)
             cl1 == FindExtension(0, len, CMDLINE1)
             cl0 == FindExtension(0 + Len(cl1.val), len, CMDLINE0)
         IN  Joined(cl1, cl0) = opt.cmdline /\ cl0.found
<1> DEFINE c == opt.cmdline
           len == Len(wire.ext)
           cl1 == FindExtension(0, len, CMDLINE1)
           cl0 == FindExtension(0 + Len(cl1.val), len, CMDLINE0)
<1>1. c \in Seq(Nat) /\ Len(c) \in Nat /\ ExtMax \in Nat
  BY OptionTypes DEF HeaderInv
<1>2. CASE Len(c) <= ExtMax
  <2>1. cl1 = None /\ FindExtension(0, len, CMDLINE0) = [found |-> TRUE, val |-> c]
    BY <1>2, ShortFound
  <2>2. cl1.val = <<>> /\ 0 + Len(cl1.val) = 0 BY <2>1 DEF None
  <2>3. cl0 = [found |-> TRUE, val |-> c] BY <2>1, <2>2
  <2> HIDE DEF c, cl1, cl0
  <2>4. Joined(cl1, cl0) = <<>> \o c /\ cl0.found BY <2>2, <2>3 DEF Joined
  <2>5. <<>> \o c = c BY <1>1
  <2>6. QED BY <2>4, <2>5 DEF c, cl1, cl0
<1>3. CASE Len(c) > ExtMax
  <2> DEFINE first == [i \in 1..ExtMax |-> c[i]]
             rest == [i \in 1..(Len(c) - ExtMax) |-> c[ExtMax + i]]
  <2>1. /\ cl1 = [found |-> TRUE, val |-> first]
        /\ FindExtension(ExtMax, len, CMDLINE0) = [found |-> TRUE, val |-> rest]
    BY <1>3, LongFound
  <2> HIDE DEF c
  <2>2. first \in Seq(Nat) /\ Len(first) = ExtMax
    BY <1>1, <1>3
  <2>3. rest \in Seq(Nat) /\ Len(rest) = Len(c) - ExtMax
    <3>1. Len(c) - ExtMax \in Nat BY <1>1, <1>3
    <3>2. \A i \in 1..(Len(c) - ExtMax) : ExtMax + i \in 1..Len(c) BY <1>1, <3>1
    <3>3. \A i \in 1..(Len(c) - ExtMax) : c[ExtMax + i] \in Nat BY <1>1, <3>2
    <3>4. QED BY <3>1, <3>3
  <2>4. first \o rest = c
    <3>1. \A i \in 1..ExtMax : first[i] = c[i] OBVIOUS
    <3>2. \A i \in 1..(Len(c) - ExtMax) : rest[i] = c[ExtMax + i] OBVIOUS
    <3> HIDE DEF first, rest
    <3>6. /\ first \o rest \in Seq(Nat) /\ Len(first \o rest) = Len(first) + Len(rest)
          /\ \A i \in 1..Len(first) : (first \o rest)[i] = first[i]
          /\ \A i \in 1..Len(rest) : (first \o rest)[Len(first) + i] = rest[i]
      BY <2>2, <2>3, Joint
    <3>3. Len(first \o rest) = Len(c)
      BY <1>1, <2>2, <2>3, <3>6
    <3>4. ASSUME NEW i \in 1..Len(c) PROVE (first \o rest)[i] = c[i]
      <4>1. CASE i <= ExtMax
        <5>1. i \in 1..ExtMax BY <1>1, <4>1
        <5>2. QED BY <2>2, <3>1, <3>6, <5>1
      <4>2. CASE ~(i <= ExtMax)
        <5>1. i - ExtMax \in 1..(Len(c) - ExtMax) /\ ExtMax + (i - ExtMax) = i
          BY <1>1, <4>2
        <5>2. QED BY <2>2, <2>3, <3>2, <3>6, <5>1
      <4>3. QED BY <4>1, <4>2
    <3>5. QED BY <1>1, <3>3, <3>4, <3>6, SeqEqual
  <2> HIDE DEF first, rest
  <2>5. 0 + Len(cl1.val) = ExtMax BY <1>1, <2>1, <2>2
  <2>6. cl0 = [found |-> TRUE, val |-> rest] BY <2>1, <2>5
  <2> HIDE DEF cl1, cl0
  <2>7. Joined(cl1, cl0) = first \o rest /\ cl0.found BY <2>1, <2>6 DEF Joined
  <2>8. QED BY <2>4, <2>7 DEF c, cl1, cl0
<1>4. QED BY <1>1, <1>2, <1>3

-----------------------------------------------------------------------------
(* The invariant. *)

LEMMA HeaderInvInit == Init => HeaderInv
<1> SUFFICES ASSUME Init PROVE HeaderInv
  OBVIOUS
<1>1. junk \in Nat
  <2>1. junk \in Byte BY HeaderAssumption DEF Init
  <2>2. QED BY <2>1 DEF Byte
<1>2. QED BY <1>1 DEF Init, HeaderInv

LEMMA HeaderInvStep == ASSUME HeaderInv, [Next]_codecVars PROVE HeaderInv'
<1>1. CASE PrepareHeader
  <2>1. opt' = opt /\ opt \in Options /\ junk' = junk /\ junk \in Nat
    BY <1>1 DEF PrepareHeader, HeaderInv
  <2>2. wire' = [lenVer |-> Multiple4(HeaderLen - 4 + ExtensionLen(opt) + 3),
                 ext |-> Padded(Packed(opt))]
    BY <1>1 DEF PrepareHeader
  <2>3. wire'.lenVer = HeaderLen - 4 + Longs(ExtensionLen(opt))
    BY <2>1, <2>2, PackedLen, RoundUp
  <2>4. wire'.ext = Padded(Packed(opt)) /\ Len(wire'.ext) = Longs(ExtensionLen(opt))
    BY <2>1, <2>2, PackedLen, PaddedLen
  <2>5. QED BY <2>1, <2>3, <2>4 DEF HeaderInv
<1>2. CASE ReceiveHeader BY <1>2 DEF ReceiveHeader, HeaderInv
<1>3. CASE ParseExtensions BY <1>3 DEF ParseExtensions, HeaderInv
<1>4. CASE NameTmpFile BY <1>4 DEF NameTmpFile, HeaderInv
<1>5. CASE UNCHANGED codecVars BY <1>5 DEF codecVars, HeaderInv
<1>6. QED BY <1>1, <1>2, <1>3, <1>4, <1>5 DEF Next

LEMMA CodecInvInit == Init => CodecInv
<1> SUFFICES ASSUME Init PROVE CodecInv
  OBVIOUS
<1>1. hpc = "prepare" /\ prefix = <<>> /\ cmdline = [text |-> <<>>, ended |-> TRUE]
  BY DEF Init
<1>2. HeaderInv
  BY HeaderInvInit
<1>3. prefix \in Seq(Nat)
  BY <1>1
<1>4. DeviceArrives /\ CmdlineThere
  BY <1>1 DEF DeviceArrives, CmdlineThere
<1>5. QED BY <1>1, <1>2, <1>3, <1>4 DEF CodecInv

\* local_exec() searches what the client has packed.
LEMMA ParseStep ==
  ASSUME CodecInv, ParseExtensions
  PROVE  prefix' \in Seq(Nat) /\ DeviceArrives' /\ CmdlineThere'
<1>1. /\ hpc = "received" /\ hpc' = "parsed" /\ opt' = opt
      /\ cmdline = [text |-> <<>>, ended |-> TRUE] /\ HeaderInv /\ opt \in Options
  BY DEF ParseExtensions, CodecInv, HeaderInv
<1>2. Multiple4(4 + wire.lenVer) - HeaderLen = Len(wire.ext)
  BY <1>1, LengthsFollow DEF LengthsAgree
<1>3. CASE opt.given = {}
  <2>1. prefix' = RAM /\ cmdline' = cmdline
    BY <1>3 DEF ParseExtensions
  <2>2. opt.cmdline = <<>> /\ "device" \notin opt.given
    BY <1>1, <1>3, NothingGiven
  <2>3. QED BY <1>1, <2>1, <2>2, RamType DEF DeviceArrives, CmdlineThere
<1>4. CASE opt.given # {}
  <2> DEFINE len == Len(wire.ext)
             dev == FindExtension(0, len, DEVICE_NAME)
             cl1 == FindExtension(Len(dev.val), len, CMDLINE1)
             cl0 == FindExtension(Len(dev.val) + Len(cl1.val), len, CMDLINE0)
             p == IF dev.found THEN CString(dev.val) \o <<COLON>> ELSE RAM
  <2>1. /\ prefix' = p
        /\ cmdline' = [text |-> Joined(cl1, cl0), ended |-> cl0.found \/ cl1.val = <<>>]
    BY <1>2, <1>4 DEF ParseExtensions
  <2>2. /\ p \in Seq(Nat)
        /\ "device" \in opt.given => p = Append(opt.device, COLON)
        /\ "device" \notin opt.given /\ Plain(opt.cmdline, {DEVICE_NAME})
           => dev = None /\ p = RAM
    BY <1>1, <1>4, DeviceParsed
  <2>3. ASSUME "device" \notin opt.given,
               Plain(opt.cmdline, {DEVICE_NAME, CMDLINE0, CMDLINE1})
        PROVE  cmdline' = [text |-> opt.cmdline, ended |-> TRUE]
    <3>1. "cmdline" \in opt.given BY <1>1, <1>4, <2>3, NothingGiven
    <3>2. /\ Plain(opt.cmdline, {DEVICE_NAME}) /\ Plain(opt.cmdline, {CMDLINE0})
          /\ Plain(opt.cmdline, {CMDLINE1})
      BY <2>3, PlainEach
    <3> DEFINE cl1a == FindExtension(0, len, CMDLINE1)
               cl0a == FindExtension(0 + Len(cl1a.val), len, CMDLINE0)
    <3>3. Joined(cl1a, cl0a) = opt.cmdline /\ cl0a.found
      BY <1>1, <2>3, <3>1, <3>2, CmdlineParsed
    <3>4. Len(dev.val) = 0 BY <2>2, <2>3, <3>2 DEF None
    <3>5. cl1 = cl1a /\ cl0 = cl0a
      <4> HIDE DEF dev
      <4>1. cl1 = cl1a BY <3>4
      <4> HIDE DEF cl1, cl1a
      <4>2. cl0 = cl0a BY <3>4, <4>1
      <4>3. QED BY <4>1, <4>2
    <3> HIDE DEF cl1, cl0, cl1a, cl0a
    <3>6. QED BY <2>1, <3>3, <3>5
  <2> HIDE DEF p, dev, cl1, cl0
  <2>4. prefix' \in Seq(Nat) BY <2>1, <2>2
  <2>5. DeviceArrives'
    BY <1>1, <2>1, <2>2 DEF DeviceArrives, Plain
  <2>6. CmdlineThere'
    BY <1>1, <2>3 DEF CmdlineThere, Plain
  <2>7. QED BY <2>4, <2>5, <2>6
<1>5. QED BY <1>3, <1>4

LEMMA CodecInvStep == ASSUME CodecInv, [Next]_codecVars PROVE CodecInv'
<1>1. HeaderInv'
  BY HeaderInvStep DEF CodecInv
<1>2. CASE PrepareHeader \/ ReceiveHeader
  <2>1. /\ hpc \in {"prepare", "sent"} /\ hpc' \in {"sent", "received"}
        /\ prefix' = prefix /\ cmdline' = cmdline
    BY <1>2 DEF PrepareHeader, ReceiveHeader
  <2>2. QED BY <1>1, <2>1 DEF CodecInv, DeviceArrives, CmdlineThere
<1>3. CASE ParseExtensions
  <2>1. hpc' = "parsed" BY <1>3 DEF ParseExtensions
  <2>2. QED BY <1>1, <1>3, <2>1, ParseStep DEF CodecInv
<1>4. CASE NameTmpFile
  <2>1. /\ hpc = "parsed" /\ hpc' = "named" /\ name' = TmpFilename(prefix)
        /\ UNCHANGED <<opt, prefix, cmdline>>
    BY <1>4 DEF NameTmpFile
  <2>2. TmpFilename(prefix)' = TmpFilename(prefix)
    BY <2>1 DEF TmpFilename, FilenameLen
  <2>3. DeviceArrives' /\ CmdlineThere'
    BY <2>1 DEF CodecInv, DeviceArrives, CmdlineThere, Plain, Type
  <2>4. QED BY <1>1, <2>1, <2>2, <2>3 DEF CodecInv
<1>5. CASE UNCHANGED codecVars
  <2>1. UNCHANGED <<hpc, opt, prefix, cmdline, name>>
    BY <1>5 DEF codecVars
  <2>2. DeviceArrives' /\ CmdlineThere'
    BY <2>1 DEF CodecInv, DeviceArrives, CmdlineThere, Plain, Type
  <2>3. QED BY <1>1, <2>1, <2>2 DEF CodecInv, TmpFilename, FilenameLen
<1>6. QED BY <1>2, <1>3, <1>4, <1>5 DEF Next

\* Whatever the device and the command line are, the client sends the bytes
\* the server takes for the header, within the buffer it has allocated, and the
\* plugins search exactly the extensions: no byte of the header is taken for
\* payload or the other way round.
THEOREM HeaderLengths == Spec => []LengthsAgree
<1>1. CodecInv => LengthsAgree
  BY LengthsFollow DEF CodecInv
<1>2. QED BY CodecInvInit, CodecInvStep, <1>1, PTL DEF Spec

\* The device the user names is the device of the temporary file, and without
\* one it is RAM: unless a control character of the command line is taken for a
\* tag: find_extension() looks at the first byte first, and that is the device's.
THEOREM HeaderDevice == Spec => []DeviceArrives
<1>1. CodecInv => DeviceArrives
  BY DEF CodecInv
<1>2. QED BY CodecInvInit, CodecInvStep, <1>1, PTL DEF Spec

\* The name of the temporary file fits with its NUL, and only a device name of
\* the full length has none: get_tmp_filename() counts what strcat() writes.
THEOREM HeaderTmpName == Spec => []TmpNameFits
<1>1. CodecInv => TmpNameFits
  <2> SUFFICES ASSUME CodecInv, hpc = "named"
               PROVE  /\ name # 0 => name + 1 <= FilenameLen
                      /\ "device" \in opt.given => (name # 0 <=> Len(opt.device) < ExtMax)
                      /\ opt.given = {} => name # 0
    BY DEF TmpNameFits
  <2>1. name = TmpFilename(prefix) /\ prefix \in Seq(Nat) /\ opt \in Options /\ DeviceArrives
    BY DEF CodecInv, HeaderInv
  <2> DEFINE n == Len(prefix)
             d == Len(opt.device)
  <2>2. n \in Nat /\ d \in Nat /\ ExtMax \in 4..15
    BY <2>1, OptionTypes, HeaderAssumption
  <2>3. name = IF n + 8 + 1 > ExtMax + 8 + 1 THEN 0 ELSE n + 8
    BY <2>1 DEF TmpFilename, FilenameLen
  <2>4. "device" \in opt.given => n = d + 1
    <3>1. "device" \in opt.given => prefix = Append(opt.device, COLON)
      BY <2>1 DEF DeviceArrives
    <3>2. Len(Append(opt.device, COLON)) = d + 1
      BY <2>1, OptionTypes, WithColon
    <3>3. QED BY <3>1, <3>2
  <2>5. opt.given = {} => n = 4
    <3>1. ASSUME opt.given = {} PROVE n = 4
      <4>1. opt.cmdline = <<>> /\ "device" \notin opt.given BY <2>1, <3>1, NothingGiven
      <4>2. Plain(opt.cmdline, {DEVICE_NAME}) BY <4>1 DEF Plain
      <4>3. prefix = RAM BY <2>1, <4>1, <4>2 DEF DeviceArrives
      <4>4. QED BY <4>3, RamType
    <3>2. QED BY <3>1
  <2> HIDE DEF n, d
  <2>6. /\ name # 0 => name + 1 <= ExtMax + 8 + 1
        /\ "device" \in opt.given => (name # 0 <=> d < ExtMax)
        /\ opt.given = {} => name # 0
    BY <2>2, <2>3, <2>4, <2>5
  <2>7. QED BY <2>6 DEF d, FilenameLen
<1>2. QED BY CodecInvInit, CodecInvStep, <1>1, PTL DEF Spec

\* A command line without a character that looks like a tag arrives as it was
\* given, in one part or in two, when no device is named with it.
THEOREM HeaderCmdline == Spec => []PlainCmdlineArrives
<1>1. CodecInv => PlainCmdlineArrives
  BY DEF CodecInv, CmdlineThere, PlainCmdlineArrives
<1>2. QED BY CodecInvInit, CodecInvStep, <1>1, PTL DEF Spec
=============================================================================
