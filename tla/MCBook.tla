-------------------------------- MODULE MCBook --------------------------------
(***************************************************************************)
(* One book, for TLC: its curated metadata, and the artifacts generated    *)
(* from its file.  The two share no variable and no step, so that one run  *)
(* checks each of them by itself: "part" says which one is at work.        *)
(***************************************************************************)
EXTENDS MetadataCuration, RepresentationCache, TLC

CONSTANTS
  Parts,        \* the parts to check
  f1, f2, v1, v2, s1, s2, h1, h2, t1, t2

VARIABLE part

vars == <<curationVars, representationVars, part>>

\* Fields are alike, values are, and sessions are.
Alike == Permutations({f1, f2}) \cup Permutations({v1, v2}) \cup Permutations({s1, s2})

\* The book that one part starts from is of no interest to the other.
Init ==
  /\ part \in Parts
  /\ CurationInit /\ RepresentationInit
  /\ part # "curation" => value = Blank
  /\ part # "representation" => disk = h1

Next ==
  /\ UNCHANGED part
  /\ \/ part = "curation" /\ CurationNext /\ UNCHANGED representationVars
     \/ part = "representation" /\ RepresentationNext /\ UNCHANGED curationVars

Spec == Init /\ [][Next]_vars
=============================================================================
