----------------------------- MODULE MCTextIndex -----------------------------
(* A .text of four words and up to three symbols, which may be aliases,     *)
(* nest, overlap partially, run past the end of .text or have no size.      *)
EXTENDS TextIndex

MCTextBase == 4
MCTextEnd  == 20
MCValues   == {4, 8, 10, 16, 20}
MCSizes    == {0, 4, 8, 14}
MCRanks    == 1..3
MCNopSites == {8, 10, 14, 16}
=============================================================================
