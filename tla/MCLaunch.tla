------------------------------ MODULE MCLaunch -------------------------------
(* Launch for TLC.  Launches differ only in what their programs do.          *)
EXTENDS Launch, TLC

MCSymmetry == Permutations(Launchers)
=============================================================================
