--------------------------- MODULE MCProgression ---------------------------
(* One record, two requests at a time that may overlap, three timestamps.   *)
EXTENDS Progression, TLC

CONSTANTS k1, r1, r2, a, b
=============================================================================
