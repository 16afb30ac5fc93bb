--------------------------- MODULE MCMaxNumberBox ---------------------------
(* MaxNumberBox for TLC: three threads, numbers 0 to 2.                    *)
EXTENDS MaxNumberBox
=============================================================================
