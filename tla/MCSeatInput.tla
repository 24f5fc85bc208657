----------------------------- MODULE MCSeatInput -----------------------------
(* SeatInput for TLC.  A modifier list gives the modifiers an order, but     *)
(* nothing else tells two of them, or two objects of a kind, apart.  A       *)
(* configuration makes all objects of a kind destructible or none of them.   *)
EXTENDS SeatInput, TLC

MCSymmetry ==
  Permutations(Surfaces) \cup Permutations(Pointers) \cup Permutations(TextInputs)
    \cup Permutations(Modifiers \ (NoKeycode \cup NoMask))
=============================================================================
