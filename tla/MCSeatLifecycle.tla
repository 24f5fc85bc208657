--------------------------- MODULE MCSeatLifecycle ---------------------------
(* SeatLifecycle for TLC.  The two closers and the two connections are       *)
(* interchangeable, which the safety runs use; a symmetry reduction is not   *)
(* sound for the liveness runs, which do without.                            *)
EXTENDS SeatLifecycle, TLC

MCSymmetry == Permutations(Closers) \cup Permutations(Conns \ Bridges)
=============================================================================
