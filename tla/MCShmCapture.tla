---------------------------- MODULE MCShmCapture ----------------------------
(* ShmCapture for TLC: pools of one and two rows of one pixel, a window that  *)
(* fills two rows, an icon in the first and one in the second row, rows       *)
(* shorter than their pixels, and what is not a frame at all.                 *)
EXTENDS ShmCapture, TLC

MCLayout(o, w, h, st) == [offset |-> o, width |-> w, height |-> h, stride |-> st]
MCLayouts == {MCLayout(0, 1, 2, 4), MCLayout(0, 1, 1, 4), MCLayout(4, 1, 1, 4),
              MCLayout(4, 2, 1, 4), MCLayout(-4, 1, 1, 4), MCLayout(0, -2, -1, 4)}
MCSizes == {4, 8}
MCSymmetry == Permutations(Surfaces)
=============================================================================
