--------------------------- MODULE MCMemoryStream ---------------------------
(* Instances of MemoryStream for TLC.                                      *)
EXTENDS MemoryStream

CONSTANTS m1, m2, m3, g1, g2, w1, w2
=============================================================================
