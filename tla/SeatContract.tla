----------------------------- MODULE SeatContract -----------------------------
(* What an AgentSeat promises the program that closes it, with no threads,    *)
(* locks or passes: connections open and end, calls of close() overlap, and a *)
(* call returns only once the seat is sealed, that is, nothing is open and    *)
(* nothing will ever open again (SECURITY.md:46-47, mod.rs:458-459).          *)
CONSTANTS Conns, Closers

VARIABLES open,     \* connections being served
          ended,    \* connections that were served and are closed
          inClose,  \* callers inside close()
          sealed    \* the seat accepts and serves nothing any more

vars == <<open, ended, inClose, sealed>>

Init == open = {} /\ ended = {} /\ inClose = {} /\ sealed = FALSE

(* The seat may seal itself whenever nothing is left open.                    *)
MaySeal == sealed' \in IF open' = {} THEN {sealed, TRUE} ELSE {sealed}

Open(c) ==
  /\ ~sealed
  /\ c \notin open \cup ended
  /\ open' = open \cup {c}
  /\ UNCHANGED <<ended, inClose, sealed>>

End(c) ==
  /\ c \in open
  /\ open' = open \ {c}
  /\ ended' = ended \cup {c}
  /\ MaySeal
  /\ UNCHANGED inClose

Call(k) ==
  /\ k \notin inClose
  /\ inClose' = inClose \cup {k}
  /\ UNCHANGED <<open, ended, sealed>>

Seal == MaySeal /\ UNCHANGED <<open, ended, inClose>>

Return(k) ==
  /\ k \in inClose
  /\ sealed
  /\ inClose' = inClose \ {k}
  /\ UNCHANGED <<open, ended, sealed>>

Next ==
  \/ \E c \in Conns : Open(c) \/ End(c)
  \/ \E k \in Closers : Call(k) \/ Return(k)
  \/ Seal

Spec == Init /\ [][Next]_vars
=============================================================================
