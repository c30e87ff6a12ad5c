--------------------------- MODULE MCHeaderCodec ----------------------------
(* Every device name and command line over a few characters, with extensions *)
(* of at most four bytes instead of fifteen.                                  *)
EXTENDS HeaderCodec, SequencesExt

a == 97
d == 100
esc == 27
blank == 32
zero == 48
two == 50

MCDevices == BoundedSeq({d, zero}, 4)
MCTyped == BoundedSeq({a, blank, two}, 6)

\* With a control character as well, from a script.
MCCmdLines == MCTyped \cup BoundedSeq({a, esc}, 5)

\* Padding, or the beginning of something else.
MCBeyond == {0, two}
=============================================================================
