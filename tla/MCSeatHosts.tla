----------------------------- MODULE MCSeatHosts ------------------------------
(* SeatHosts for TLC: two threads call in the first process, one in each of   *)
(* the others.                                                                *)
EXTENDS SeatHosts, TLC

CONSTANTS h1, h2, h3, t1, t2, t3, t4

MCHostOf == t1 :> h1 @@ t2 :> h1 @@ t3 :> h2 @@ t4 :> h3
(* The second and the third process are alike, each together with its thread.  *)
SwapHosts == {h2 :> h3 @@ h3 :> h2 @@ t3 :> t4 @@ t4 :> t3}
MCSymmetry ==
  Permutations(Pids) \cup Permutations(Seats) \cup Permutations({t1, t2}) \cup SwapHosts
=============================================================================
