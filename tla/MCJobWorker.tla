---------------------------- MODULE MCJobWorker ----------------------------
(* Two jobs for the two metadata slots and one for the scan slot.           *)
EXTENDS JobWorker, TLC

CONSTANTS m0, m1, s0, metadata, scan

MCPoolOf == (1 :> metadata) @@ (2 :> metadata) @@ (3 :> scan)
MCMaxAttempts == (1 :> 2) @@ (2 :> 1) @@ (3 :> 1)
MCServesPool == (m0 :> metadata) @@ (m1 :> metadata) @@ (s0 :> scan)
=============================================================================
