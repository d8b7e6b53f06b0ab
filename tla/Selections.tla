------------------------------ MODULE Selections ------------------------------
(***************************************************************************)
(* Lists that the code filters and adds up, over their prefixes.           *)
(***************************************************************************)
EXTENDS Integers, Sequences

\* What is left of a list of its elements in a set, in their order.
Kept(s, good) ==
  LET kept[n \in 0..Len(s)] ==
        IF n = 0 THEN <<>>
        ELSE IF s[n] \in good THEN Append(kept[n - 1], s[n]) ELSE kept[n - 1]
  IN  kept[Len(s)]

\* The sum of a list of numbers.
Total(s) ==
  LET total[n \in 0..Len(s)] == IF n = 0 THEN 0 ELSE total[n - 1] + s[n] IN total[Len(s)]
=============================================================================
