------------------------------ MODULE MCSearcher ------------------------------
(* The searcher with a small screen: widths of 32 to 64 pixels, pictures of    *)
(* two and three rows, a buffer of 12 of the widest rows, as in the code.      *)
EXTENDS Searcher
=============================================================================
