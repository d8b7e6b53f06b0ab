-------------------------- MODULE ProgressRegister --------------------------
(***************************************************************************)
(* What reading progress promises: for each (user, book) pair one record,  *)
(* replaced whole by an update that is not older than it.                  *)
(***************************************************************************)
EXTENDS Integers

CONSTANTS Keys, Positions, Devices, Times, NoRecord

VARIABLE row    \* the record of each key, or NoRecord

Records == [pos : Positions, dev : Devices, at : Times]

RegisterInit == row = [k \in Keys |-> NoRecord]

Accept(k, u) ==
  /\ row[k] = NoRecord \/ row[k].at <= u.at
  /\ row' = [row EXCEPT ![k] = u]

RegisterNext == \E k \in Keys, u \in Records : Accept(k, u)

RegisterSpec == RegisterInit /\ [][RegisterNext]_row
=============================================================================
