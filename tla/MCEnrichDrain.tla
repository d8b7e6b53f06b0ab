---------------------------- MODULE MCEnrichDrain ----------------------------
(* Two metadata slots for one metadata_lookup job and one of another type   *)
(* of the same pool; the claim run has a second lookup.                     *)
EXTENDS EnrichDrain, TLC

CONSTANTS m0, m1, metadata

MCPoolOf == [j \in Jobs |-> metadata]
MCMaxAttempts == [j \in Jobs |-> IF j = 1 THEN 2 ELSE 1]
MCServesPool == (m0 :> metadata) @@ (m1 :> metadata)
=============================================================================
