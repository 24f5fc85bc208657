--------------------------- MODULE SeatInputProofs ---------------------------
(***************************************************************************)
(* Proofs about SeatInput for every set of objects, modifiers and layouts  *)
(* and for modifier lists and texts of every length.                       *)
(*                                                                         *)
(* An injection is a composition of sends, so most of this is about runs:  *)
(* what each operator does to a run, whatever the state it starts from.    *)
(* Once one key has got through, the keyboard and its surface are settled  *)
(* (Ready) and no later key of the same injection can fail: that is why    *)
(* what is held can always be released (Holding, Clean).  Whether a press  *)
(* lands where the app knows its focus to be rests on Conn's belief about  *)
(* focus being true at every send, unless it is in doubt (Honest).         *)
(***************************************************************************)
EXTENDS SeatInput, WellFoundedInduction, TLAPS

Runs == [conn : Conns, app : Apps, ok : BOOLEAN, strayed : BOOLEAN,
         held : Seq(Modifiers), depressed : SUBSET Modifiers, fallback : Surfaces \cup {None},
         doubt : [ptr : BOOLEAN, kbd : BOOLEAN], stuck : SUBSET Modifiers]

Named == Modifiers \cup {Shift}

(* The keyboard is where the run wants its keys to go.                      *)
Ready(r) ==
  /\ r.conn.keyboard_obj \in objects
  /\ r.conn.keyboard_focus # None /\ TargetSurface(r) = r.conn.keyboard_focus

(* Nothing is pressed but what an early return left behind; nothing else    *)
(* is but the held modifiers, and they can be released.                     *)
Clean(r) == r.app.mods \subseteq r.stuck /\ r.app.keys \cap Named \subseteq r.stuck

Holding(r) ==
  /\ r.app.mods \subseteq Range(r.held) \cup r.stuck
  /\ r.app.keys \cap Named \subseteq Range(r.held) \cup r.stuck
  /\ r.depressed \subseteq Range(r.held)
  /\ r.held # <<>> => Ready(r)

(* What the connection believes and nothing has put in doubt is true.       *)
Honest(r) ==
  /\ ~r.doubt.ptr /\ r.conn.pointer_focus # None /\ r.conn.pointer_obj \in objects
       => r.app.ptr[r.conn.pointer_obj] = r.conn.pointer_focus
  /\ ~r.doubt.kbd /\ r.conn.keyboard_focus # None /\ r.conn.keyboard_obj \in objects
       => r.app.kbd[r.conn.keyboard_obj] = r.conn.keyboard_focus

(* What the keyboard's operators leave alone.                               *)
Keeps(r, q) ==
  /\ q \in Runs /\ (q.ok => r.ok)
  /\ q.fallback = r.fallback
  /\ q.conn.focused_surface = r.conn.focused_surface
  /\ q.conn.pointer_obj = r.conn.pointer_obj /\ q.conn.pointer_focus = r.conn.pointer_focus
  /\ q.conn.keyboard_obj = r.conn.keyboard_obj
  /\ q.app.ptr = r.app.ptr /\ q.app.buttons = r.app.buttons
  /\ Honest(r) => Honest(q) /\ (q.strayed => r.strayed)

-----------------------------------------------------------------------------
(* Recursion over a list.                                                   *)

(* What holds of 0 and passes from each number to the next holds up to n.   *)
LEMMA Upwards ==
  ASSUME NEW T, NEW n \in Nat, 0 \in T,
         \A i \in 0 .. n - 1 : i \in T => i + 1 \in T
  PROVE  \A i \in 0 .. n : i \in T
<1> DEFINE R == OpToRel(<, Nat)
           Missing == {i \in 0 .. n : i \notin T}
<1> SUFFICES ASSUME Missing # {} PROVE FALSE
  OBVIOUS
<1>1. Missing \subseteq Nat
  OBVIOUS
<1>2. IsWellFoundedOn(R, Nat)
  BY NatLessThanWellFounded
<1>3. \A i, j \in Nat : i < j => <<i, j>> \in R
  BY DEF OpToRel
<1> HIDE DEF R
<1>4. PICK x \in Missing : \A y \in Missing : <<y, x>> \notin R
  BY <1>1, <1>2, WFMin
<1>5. /\ x \in Nat /\ x - 1 \in Nat /\ x - 1 < x
      /\ x - 1 \in 0 .. n - 1 /\ x - 1 \in 0 .. n /\ (x - 1) + 1 = x
  <2>1. x \in 0 .. n /\ x \notin T
    OBVIOUS
  <2>2. x # 0
    BY <2>1
  <2> HIDE DEF Missing
  <2> QED BY <2>1, <2>2
<1>6. x - 1 \notin Missing
  BY <1>3, <1>4, <1>5
<1> QED BY <1>5, <1>6

(* A function on 0 .. n may be defined by recursion.                        *)
Recursive(f, S, x, n, G) == f \in [0 .. n -> S] /\ f[0] = x /\ \A i \in 1 .. n : f[i] = G[i][f[i - 1]]

LEMMA Recursion ==
  ASSUME NEW S, NEW x \in S, NEW n \in Nat, NEW G \in [1 .. n -> [S -> S]]
  PROVE  \E f : Recursive(f, S, x, n, G)
<1> DEFINE Upto(f, m) == Recursive(f, S, x, m, G)
           T == {m \in 0 .. n : \E f : Upto(f, m)}
<1>1. 0 \in T
  <2>1. Upto([i \in 0 .. 0 |-> x], 0)
    BY DEF Recursive
  <2> HIDE DEF Upto
  <2> QED BY <2>1
<1>2. ASSUME NEW m \in 0 .. n - 1, m \in T PROVE m + 1 \in T
  <2>1. PICK f : Upto(f, m)
    BY <1>2
  <2> DEFINE g == [i \in 0 .. m + 1 |-> IF i \in 0 .. m THEN f[i] ELSE G[m + 1][f[m]]]
  <2>2. /\ m \in Nat /\ m + 1 \in 1 .. n /\ f[m] \in S
    BY <2>1 DEF Recursive
  <2>3. g \in [0 .. m + 1 -> S] /\ g[0] = x
    BY <2>1, <2>2 DEF Recursive
  <2>4. ASSUME NEW i \in 1 .. m + 1 PROVE g[i] = G[i][g[i - 1]]
    <3>1. CASE i \in 1 .. m
      BY <2>1, <2>2, <3>1 DEF Recursive
    <3>2. CASE i = m + 1
      BY <2>1, <2>2, <3>2 DEF Recursive
    <3> QED BY <2>2, <3>1, <3>2
  <2>5. Upto(g, m + 1)
    BY <2>3, <2>4 DEF Recursive
  <2> HIDE DEF Upto
  <2>6. m + 1 \in 0 .. n
    BY <2>2
  <2> QED BY <2>5, <2>6
<1>3. n \in T
  <2>1. \A m \in 0 .. n - 1 : m \in T => m + 1 \in T
    BY <1>2
  <2>2. n \in 0 .. n
    OBVIOUS
  <2> HIDE DEF T
  <2> QED BY <1>1, <2>1, <2>2, Upwards
<1> QED BY <1>3

-----------------------------------------------------------------------------
(* One send, one key.                                                       *)

LEMMA KeepsItself == \A r \in Runs : Keeps(r, r)
  BY DEF Keeps

LEMMA KeepsTwice == \A r, p, q : Keeps(r, p) /\ Keeps(p, q) => Keeps(r, q)
  BY DEF Keeps

(* An event arrives, or the run has failed and is otherwise as it was.      *)
Sent(r, q, involved, told) ==
  /\ q \in Runs
  /\ q.conn = r.conn /\ q.held = r.held /\ q.fallback = r.fallback /\ q.strayed = r.strayed
  /\ q.depressed = r.depressed /\ q.doubt = r.doubt /\ q.stuck = r.stuck
  /\ q.ok <=> r.ok /\ involved \subseteq objects
  /\ q.app = IF q.ok THEN told ELSE r.app
  /\ ~r.ok => q = r

LEMMA SendDoes ==
  ASSUME NEW r \in Runs, NEW involved, NEW told \in Apps
  PROVE  Sent(r, Send(r, involved, told), involved, told)
<1>1. CASE ~r.ok
  BY <1>1 DEF Runs, Send, Sent
<1>2. CASE r.ok /\ involved \subseteq objects
  <2>1. Send(r, involved, told) = [r EXCEPT !.app = told]
    BY <1>2 DEF Send
  <2> QED BY <1>2, <2>1 DEF Runs, Sent
<1>3. CASE r.ok /\ ~(involved \subseteq objects)
  <2>1. Send(r, involved, told) = [r EXCEPT !.ok = FALSE]
    BY <1>3 DEF Send, Fail
  <2> QED BY <1>3, <2>1 DEF Runs, Sent
<1> QED BY <1>1, <1>2, <1>3

LEMMA FailDoes ==
  ASSUME NEW r \in Runs
  PROVE  /\ Keeps(r, Fail(r)) /\ ~Fail(r).ok /\ Fail(r).conn = r.conn /\ Fail(r).app = r.app
         /\ Fail(r).held = r.held /\ Fail(r).depressed = r.depressed /\ Fail(r).stuck = r.stuck
  BY DEF Fail, Runs, Keeps, Honest

LEMMA AbandonDoes ==
  ASSUME NEW r \in Runs
  PROVE  Keeps(r, Abandon(r)) /\ ~Abandon(r).ok /\ (Holding(r) => Clean(Abandon(r)))
<1> DEFINE left == r.stuck \cup Range(r.held)
           q    == Abandon(r)
<1>1. left \in SUBSET Modifiers
  BY DEF Runs, Range
<1>2. q = [r EXCEPT !.ok = FALSE, !.stuck = left]
  BY DEF Abandon
<1>3. Holding(r) => r.app.mods \subseteq left /\ r.app.keys \cap Named \subseteq left
  BY DEF Holding
<1> HIDE DEF left, q
<1>4. /\ q \in Runs /\ ~q.ok /\ q.conn = r.conn /\ q.app = r.app /\ q.fallback = r.fallback
      /\ q.doubt = r.doubt /\ q.strayed = r.strayed /\ q.stuck = left
  BY <1>1, <1>2 DEF Runs
<1>5. Keeps(r, q) /\ ~q.ok /\ (Holding(r) => Clean(q))
  BY <1>3, <1>4 DEF Keeps, Honest, Clean
<1> QED BY <1>5 DEF q

LEMMA TargetDoes == \A r \in Runs : TargetSurface(r) \in Surfaces \cup {None}
  BY DEF Runs, Conns, TargetSurface

(* ensure_keyboard_focus settles where the keyboard is, or fails with the   *)
(* app's keys at most forgotten.                                            *)
LEMMA KeyboardFocus ==
  ASSUME NEW r \in Runs, NEW s \in Surfaces, r.conn.keyboard_obj \in Keyboards
  PROVE  LET q == EnsureKeyboardFocus(r, s)
         IN  /\ Keeps(r, q) /\ q.held = r.held /\ q.app.mods = r.app.mods
             /\ q.depressed = r.depressed /\ q.stuck = r.stuck
             /\ q.app.keys \subseteq r.app.keys
             /\ q.ok => r.ok /\ q.conn.keyboard_focus = s
             /\ r.conn.keyboard_focus = s \/ ~r.ok => q = r
<1> DEFINE k       == r.conn.keyboard_obj
           prev    == r.conn.keyboard_focus
           away    == [r.app EXCEPT !.kbd[k] = None, !.keys = {}]
           left    == IF prev = None THEN r ELSE Send(r, {k, prev}, away)
           there   == [left.app EXCEPT !.kbd[k] = s, !.keys = {}]
           entered == Send(left, {k, s}, there)
           q       == EnsureKeyboardFocus(r, s)
<1>1. CASE ~r.ok \/ prev = s
  <2>1. q = r
    BY <1>1 DEF EnsureKeyboardFocus
  <2> QED BY <2>1, <1>1, KeepsItself
<1>2. CASE r.ok /\ prev # s
  <2>1. /\ r.app \in Apps /\ r.conn \in Conns /\ away \in Apps
        /\ away.keys = {} /\ away.mods = r.app.mods /\ away.ptr = r.app.ptr /\ away.buttons = r.app.buttons
    BY DEF Runs, Apps
  <2>2. /\ left \in Runs /\ left.conn = r.conn /\ left.held = r.held /\ left.fallback = r.fallback
        /\ left.strayed = r.strayed /\ left.ok = (prev = None \/ {k, prev} \subseteq objects)
        /\ left.depressed = r.depressed /\ left.stuck = r.stuck /\ left.doubt = r.doubt
        /\ left.app = IF prev # None /\ left.ok THEN away ELSE r.app
    BY <1>2, <2>1, SendDoes DEF Sent, Runs
  <2> HIDE DEF left, away
  <2>3. /\ there \in Apps /\ there.kbd[k] = s /\ there.keys = {} /\ there.mods = left.app.mods
        /\ there.ptr = left.app.ptr /\ there.buttons = left.app.buttons
    BY <2>1, <2>2 DEF Apps
  <2>4. Sent(left, entered, {k, s}, there)
    BY <2>2, <2>3, SendDoes
  <2>5. q = IF entered.ok THEN [entered EXCEPT !.conn.keyboard_focus = s, !.doubt.kbd = FALSE]
            ELSE [entered EXCEPT !.doubt.kbd = entered.doubt.kbd \/ (left.ok /\ prev # None)]
    BY <1>2, Zenon DEF EnsureKeyboardFocus, left, away
  <2> HIDE DEF entered, there, q
  <2>6. /\ q \in Runs /\ q.ok = entered.ok /\ q.app = entered.app /\ q.held = r.held
        /\ q.fallback = r.fallback /\ q.strayed = r.strayed
        /\ q.depressed = r.depressed /\ q.stuck = r.stuck
        /\ q.conn = IF q.ok THEN [r.conn EXCEPT !.keyboard_focus = s] ELSE r.conn
        /\ q.doubt.ptr = r.doubt.ptr
        /\ ~q.ok /\ left.ok /\ prev # None => q.doubt.kbd
        /\ ~q.ok /\ ~q.doubt.kbd => ~r.doubt.kbd
    <3> DEFINE torn == entered.doubt.kbd \/ (left.ok /\ prev # None)
    <3>1. /\ entered \in Runs /\ entered.conn = r.conn /\ entered.held = r.held
          /\ entered.fallback = r.fallback /\ entered.strayed = r.strayed
          /\ entered.depressed = r.depressed /\ entered.stuck = r.stuck /\ entered.doubt = r.doubt
      BY <2>2, <2>4 DEF Sent
    <3>2. CASE entered.ok
      <4>1. q = [entered EXCEPT !.conn.keyboard_focus = s, !.doubt.kbd = FALSE]
        BY <2>5, <3>2
      <4> QED BY <3>1, <3>2, <4>1 DEF Runs, Conns
    <3>3. CASE ~entered.ok
      <4>1. q = [entered EXCEPT !.doubt.kbd = torn]
        BY <2>5, <3>3
      <4>2. torn \in BOOLEAN /\ (~torn => ~r.doubt.kbd /\ ~(left.ok /\ prev # None))
        BY <2>2, <3>1 DEF Runs
      <4> HIDE DEF torn
      <4> QED BY <3>1, <3>3, <4>1, <4>2 DEF Runs
    <3> QED BY <3>2, <3>3
  <2>7. /\ q.ok <=> left.ok /\ {k, s} \subseteq objects
        /\ q.app = IF q.ok THEN there ELSE left.app
    BY <2>4, <2>6 DEF Sent
  <2>8. /\ q.app.keys \subseteq r.app.keys /\ q.app.mods = r.app.mods
        /\ q.app.ptr = r.app.ptr /\ q.app.buttons = r.app.buttons
    BY <2>1, <2>2, <2>3, <2>7
  <2>9. /\ q.conn.focused_surface = r.conn.focused_surface
        /\ q.conn.pointer_obj = r.conn.pointer_obj /\ q.conn.pointer_focus = r.conn.pointer_focus
        /\ q.conn.keyboard_obj = r.conn.keyboard_obj
        /\ q.conn.keyboard_focus = IF q.ok THEN s ELSE prev
    BY <2>1, <2>6 DEF Conns
  <2>10. ASSUME Honest(r) PROVE Honest(q)
    <3>1. CASE q.ok
      BY <2>3, <2>6, <2>7, <2>8, <2>9, <2>10, <3>1 DEF Honest
    <3>2. CASE ~q.ok /\ left.ok /\ prev # None
      BY <2>6, <2>8, <2>9, <2>10, <3>2 DEF Honest
    <3>3. CASE ~q.ok /\ ~(left.ok /\ prev # None)
      <4>1. q.app = r.app
        BY <2>2, <2>7, <3>3
      <4> QED BY <2>6, <2>9, <2>10, <3>3, <4>1 DEF Honest
    <3> QED BY <3>1, <3>2, <3>3
  <2>11. Keeps(r, q)
    BY <1>2, <2>6, <2>8, <2>9, <2>10 DEF Keeps
  <2> QED BY <1>2, <2>6, <2>8, <2>9, <2>11 DEF q
<1> QED BY <1>1, <1>2

(* One key.  With the keyboard settled a key gets through and changes no    *)
(* focus.                                                                   *)
Struck(r, q, key, down) ==
  /\ Keeps(r, q) /\ q.held = r.held /\ q.stuck = r.stuck /\ q.app.mods = r.app.mods
  /\ q.app.keys \subseteq r.app.keys \cup (IF down /\ q.ok THEN {key} ELSE {})
  /\ ~down /\ q.ok => key \notin q.app.keys
  /\ q.ok => Ready(q)
  /\ r.ok /\ Ready(r) => q.ok

Typed(r, q, key, down) ==
  Struck(r, q, key, down) /\ q.depressed = r.depressed /\ (~r.ok => q = r)

KeySent(r, q, s, key, down) ==
  /\ (r.ok => r.conn.keyboard_focus = s /\ s # None) => Keeps(r, q)
  /\ q.conn = r.conn /\ q.held = r.held /\ q.app.mods = r.app.mods
  /\ q.depressed = r.depressed /\ q.stuck = r.stuck
  /\ q.ok <=> r.ok /\ r.conn.keyboard_obj \in objects
  /\ q.app.keys = IF ~q.ok THEN r.app.keys
                  ELSE IF down THEN r.app.keys \cup {key} ELSE r.app.keys \ {key}

LEMMA SendKeyDoes ==
  ASSUME NEW r \in Runs, NEW s, NEW key \in Modifiers \cup {Key, Shift}, NEW down \in BOOLEAN
  PROVE  KeySent(r, SendKey(r, s, key, down), s, key, down)
<1> DEFINE k    == r.conn.keyboard_obj
           hit  == IF down THEN r.app.keys \cup {key} ELSE r.app.keys \ {key}
           told == [r.app EXCEPT !.keys = hit]
           sent == Send(r, {k}, told)
           astray == sent.strayed \/ (~r.doubt.kbd /\ r.app.kbd[k] # s)
           q    == SendKey(r, s, key, down)
<1>1. q = IF sent.ok THEN [sent EXCEPT !.strayed = astray] ELSE sent
  BY Zenon DEF SendKey
<1>2. hit \in SUBSET (Modifiers \cup {Key, Shift})
  BY DEF Runs, Apps
<1>3. hit = IF down THEN r.app.keys \cup {key} ELSE r.app.keys \ {key}
  OBVIOUS
<1> HIDE DEF hit
<1>4. /\ told \in Apps /\ told.ptr = r.app.ptr /\ told.kbd = r.app.kbd /\ told.mods = r.app.mods
      /\ told.buttons = r.app.buttons /\ told.keys = hit
  BY <1>2 DEF Runs, Apps
<1> HIDE DEF told
<1>5. Sent(r, sent, {k}, told)
  BY <1>4, SendDoes
<1>6. sent \in Runs /\ sent.strayed \in BOOLEAN /\ astray \in BOOLEAN
  BY <1>5 DEF Sent, Runs
<1>7. astray <=> r.strayed \/ (~r.doubt.kbd /\ r.app.kbd[k] # s)
  BY <1>5 DEF Sent
<1> HIDE DEF sent, astray, q
<1>8. /\ q \in Runs /\ q.conn = r.conn /\ q.held = r.held /\ q.fallback = r.fallback
      /\ q.depressed = r.depressed /\ q.stuck = r.stuck /\ q.doubt = r.doubt
      /\ q.ok = sent.ok /\ q.app = sent.app
      /\ q.strayed = IF sent.ok THEN astray ELSE r.strayed
  <2>1. CASE sent.ok
    BY <1>1, <1>5, <1>6, <2>1 DEF Runs, Sent
  <2>2. CASE ~sent.ok
    BY <1>1, <1>5, <1>6, <2>2 DEF Sent
  <2> QED BY <2>1, <2>2
<1>9. /\ q.ok <=> r.ok /\ k \in objects
      /\ q.app = IF q.ok THEN told ELSE r.app
  BY <1>5, <1>8 DEF Sent
<1>10. ASSUME r.ok => r.conn.keyboard_focus = s /\ s # None PROVE Keeps(r, q)
  <2>1. q.app.ptr = r.app.ptr /\ q.app.buttons = r.app.buttons /\ q.app.kbd = r.app.kbd
    BY <1>4, <1>9
  <2>2. Honest(r) => Honest(q)
    BY <1>8, <2>1 DEF Honest
  <2>3. Honest(r) /\ q.strayed => r.strayed
    BY <1>7, <1>8, <1>9, <1>10 DEF Honest
  <2> QED BY <1>8, <1>9, <2>1, <2>2, <2>3 DEF Keeps
<1>11. KeySent(r, q, s, key, down)
  BY <1>3, <1>4, <1>8, <1>9, <1>10 DEF KeySent
<1> QED BY <1>11 DEF q

LEMMA KeyRawDoes ==
  ASSUME NEW r \in Runs, NEW key \in Modifiers \cup {Key, Shift}, NEW down \in BOOLEAN,
         objects \subseteq AllObjects
  PROVE  Typed(r, KeyRaw(r, key, down), key, down)
<1> DEFINE s  == TargetSurface(r)
           k  == r.conn.keyboard_obj
           on == EnsureKeyboardFocus(r, s)
           q  == KeyRaw(r, key, down)
<1>1. CASE ~r.ok
  <2>1. q = r
    BY <1>1 DEF KeyRaw
  <2> QED BY <1>1, <2>1, KeepsItself DEF Typed, Struck
<1>2. CASE r.ok /\ (k = None \/ s = None)
  <2>1. q = Fail(r)
    BY <1>2 DEF KeyRaw
  <2>2. ~Ready(r)
    BY <1>2, NoneAssumption DEF Ready, AllObjects
  <2>3. /\ Keeps(r, q) /\ ~q.ok /\ q.app = r.app /\ q.held = r.held
        /\ q.depressed = r.depressed /\ q.stuck = r.stuck
    BY <2>1, FailDoes
  <2> HIDE DEF q
  <2>4. Typed(r, q, key, down)
    BY <1>2, <2>2, <2>3 DEF Typed, Struck
  <2> QED BY <2>4 DEF q
<1>3. CASE r.ok /\ k # None /\ s # None
  <2>1. s \in Surfaces /\ k \in Keyboards
    BY <1>3, TargetDoes DEF Runs, Conns
  <2>2. /\ Keeps(r, on) /\ on \in Runs /\ on.held = r.held /\ on.app.mods = r.app.mods
        /\ on.depressed = r.depressed /\ on.stuck = r.stuck
        /\ on.app.keys \subseteq r.app.keys
        /\ on.ok => r.ok /\ on.conn.keyboard_focus = s
        /\ r.conn.keyboard_focus = s => on = r
    BY <2>1, KeyboardFocus DEF Keeps
  <2>3. q = SendKey(on, s, key, down)
    BY <1>3 DEF KeyRaw
  <2> HIDE DEF on, s, k, q
  <2>4. /\ Keeps(on, q) /\ q.conn = on.conn /\ q.held = on.held /\ q.app.mods = on.app.mods
        /\ q.depressed = on.depressed /\ q.stuck = on.stuck
        /\ q.ok <=> on.ok /\ on.conn.keyboard_obj \in objects
        /\ q.app.keys = IF ~q.ok THEN on.app.keys
                        ELSE IF down THEN on.app.keys \cup {key} ELSE on.app.keys \ {key}
    <3>1. KeySent(on, q, s, key, down)
      BY <2>2, <2>3, SendKeyDoes
    <3> QED BY <1>3, <2>2, <3>1 DEF KeySent
  <2>5. Keeps(r, q)
    BY <2>2, <2>4, KeepsTwice
  <2>6. q.ok => Ready(q)
    BY <1>3, <2>2, <2>4, <2>5 DEF Ready, Keeps, TargetSurface, k, s
  <2>7. Ready(r) => q.ok
    BY <1>3, <2>2, <2>4 DEF Ready, k, s
  <2>8. Typed(r, q, key, down)
    BY <1>3, <2>2, <2>4, <2>5, <2>6, <2>7 DEF Typed, Struck
  <2> QED BY <2>8 DEF q
<1> QED BY <1>1, <1>2, <1>3

(* A key and the modifier mask that goes with it.                           *)
Masked(r, q, key, down, mask) ==
  /\ Keeps(r, q) /\ q.held = r.held /\ q.stuck = r.stuck
  /\ q.app.keys \subseteq r.app.keys \cup (IF down /\ q.ok THEN {key} ELSE {})
  /\ ~down /\ q.ok => key \notin q.app.keys
  /\ q.app.mods = IF q.ok THEN mask ELSE r.app.mods
  /\ q.ok => Ready(q)
  /\ r.ok /\ Ready(r) => q.ok

LEMMA SendModifiersDoes ==
  ASSUME NEW r \in Runs, NEW mask \in SUBSET (Modifiers \cup {Shift})
  PROVE  LET q == SendModifiers(r, mask)
         IN  /\ Keeps(r, q) /\ q.held = r.held /\ q.conn = r.conn /\ q.app.keys = r.app.keys
             /\ q.depressed = r.depressed /\ q.stuck = r.stuck
             /\ q.ok <=> r.ok /\ r.conn.keyboard_obj \in objects
             /\ q.app.mods = IF q.ok THEN mask ELSE r.app.mods
<1> DEFINE told == [r.app EXCEPT !.mods = mask]
           q    == SendModifiers(r, mask)
<1>1. /\ told \in Apps /\ told.ptr = r.app.ptr /\ told.kbd = r.app.kbd /\ told.keys = r.app.keys
      /\ told.buttons = r.app.buttons /\ told.mods = mask
  BY DEF Runs, Apps
<1>2. Sent(r, q, {r.conn.keyboard_obj}, told)
  BY <1>1, SendDoes DEF SendModifiers
<1> HIDE DEF told, q
<1>3. Keeps(r, q)
  BY <1>1, <1>2 DEF Sent, Keeps, Honest
<1> QED BY <1>1, <1>2, <1>3 DEF Sent, q

LEMMA MaskDoes ==
  ASSUME NEW r \in Runs, NEW p \in Runs, NEW key, NEW down \in BOOLEAN,
         NEW mask \in SUBSET (Modifiers \cup {Shift}), Struck(r, p, key, down)
  PROVE  /\ Masked(r, SendModifiers(p, mask), key, down, mask)
         /\ SendModifiers(p, mask).depressed = p.depressed
<1> DEFINE q == SendModifiers(p, mask)
<1>3. /\ Keeps(p, q) /\ q.held = p.held /\ q.conn = p.conn /\ q.app.keys = p.app.keys
      /\ q.depressed = p.depressed /\ q.stuck = p.stuck
      /\ q.ok <=> p.ok /\ p.conn.keyboard_obj \in objects
      /\ q.app.mods = IF q.ok THEN mask ELSE p.app.mods
  BY SendModifiersDoes
<1> HIDE DEF q
<1>4. q.ok <=> p.ok
  BY <1>3 DEF Struck, Ready
<1>5. Keeps(r, q)
  BY <1>3, KeepsTwice DEF Struck
<1>6. q.ok => Ready(q)
  BY <1>3, <1>4 DEF Struck, Ready, Keeps, TargetSurface
<1>7. Masked(r, q, key, down, mask)
  BY <1>3, <1>4, <1>5, <1>6 DEF Struck, Masked
<1> QED BY <1>3, <1>7 DEF q

LEMMA KeyAndMask ==
  ASSUME NEW r \in Runs, NEW key \in Modifiers \cup {Key, Shift}, NEW down \in BOOLEAN,
         NEW mask \in SUBSET (Modifiers \cup {Shift}), objects \subseteq AllObjects
  PROVE  Masked(r, SendModifiers(KeyRaw(r, key, down), mask), key, down, mask)
<1>1. Struck(r, KeyRaw(r, key, down), key, down) /\ KeyRaw(r, key, down) \in Runs
  BY KeyRawDoes DEF Typed, Struck, Keeps
<1> QED BY <1>1, MaskDoes

(* The same with the running mask of the modifier functions.                *)
LEMMA KeyAndDepressed ==
  ASSUME NEW r \in Runs, NEW key \in Modifiers, NEW down \in BOOLEAN,
         NEW mask \in SUBSET Modifiers, objects \subseteq AllObjects
  PROVE  LET q == SendMask(KeyRaw(r, key, down), mask)
         IN  Masked(r, q, key, down, mask) /\ q.depressed = mask
<1> DEFINE p == KeyRaw(r, key, down)
           d == [p EXCEPT !.depressed = mask]
<1>1. Struck(r, p, key, down) /\ p \in Runs
  BY KeyRawDoes DEF Typed, Struck, Keeps
<1> HIDE DEF p
<1>2. /\ d \in Runs /\ d.conn = p.conn /\ d.app = p.app /\ d.ok = p.ok /\ d.strayed = p.strayed
      /\ d.held = p.held /\ d.fallback = p.fallback /\ d.doubt = p.doubt /\ d.stuck = p.stuck
      /\ d.depressed = mask
  BY <1>1 DEF Runs
<1> HIDE DEF d
<1>3. Keeps(p, d) /\ (Ready(p) => Ready(d))
  BY <1>2 DEF Keeps, Honest, Ready, TargetSurface
<1>4. Struck(r, d, key, down)
  BY <1>1, <1>2, <1>3, KeepsTwice DEF Struck
<1>5. Masked(r, SendModifiers(d, mask), key, down, mask) /\ SendModifiers(d, mask).depressed = mask
  BY <1>2, <1>4, MaskDoes
<1> QED BY <1>5 DEF SendMask, d, p

-----------------------------------------------------------------------------
(* Named modifiers.                                                         *)

LEMMA ReleaseModifierDoes ==
  ASSUME NEW r \in Runs, NEW i \in 1 .. Len(r.held), objects \subseteq AllObjects
  PROVE  LET q    == ReleaseModifier(r, i)
             mask == r.depressed \ {r.held[i]}
         IN  Masked(r, q, r.held[i], FALSE, mask) /\ q.depressed = mask
<1>1. r.held[i] \in Modifiers /\ r.depressed \ {r.held[i]} \in SUBSET Modifiers
  BY DEF Runs
<1> QED BY <1>1, KeyAndDepressed DEF ReleaseModifier

(* The releases of a run one after the other, the last pressed first.       *)
LEMMA ReleaseUnrolls ==
  ASSUME NEW r \in Runs, objects \subseteq AllObjects
  PROVE  \E f : /\ f[0] = [r EXCEPT !.depressed = Range(r.held)]
                /\ \A n \in 1 .. Len(r.held) : f[n] = ReleaseModifier(f[n - 1], Len(r.held) + 1 - n)
                /\ ReleaseNamedModifiers(r) = f[Len(r.held)]
<1> DEFINE len == Len(r.held)
           d   == [r EXCEPT !.depressed = Range(r.held)]
           S   == {q \in Runs : q.held = r.held}
           G   == [n \in 1 .. len |-> [q \in S |-> ReleaseModifier(q, len + 1 - n)]]
<1>1. len \in Nat /\ d \in S
  <2>1. Range(r.held) \in SUBSET Modifiers
    BY DEF Runs, Range
  <2> QED BY <2>1 DEF Runs
<1> HIDE DEF d
<1>2. ASSUME NEW n \in 1 .. len, NEW q \in S PROVE ReleaseModifier(q, len + 1 - n) \in S
  <2>1. len + 1 - n \in 1 .. len
    BY <1>1
  <2> QED BY <2>1, ReleaseModifierDoes DEF Masked, Keeps
<1>3. G \in [1 .. len -> [S -> S]]
  BY <1>2
<1>4. PICK f : Recursive(f, S, d, len, G)
  <2> HIDE DEF G, S, len
  <2> QED BY <1>1, <1>3, Recursion
<1>5. \A n \in 1 .. len : f[n - 1] \in S
  <2> HIDE DEF G, S
  <2> QED BY <1>1, <1>4 DEF Recursive
<1>6. \A n \in 1 .. len : f[n] = ReleaseModifier(f[n - 1], len + 1 - n)
  BY <1>4, <1>5 DEF Recursive
<1>8. f = [n \in 0 .. len |-> IF n = 0 THEN d ELSE ReleaseModifier(f[n - 1], len + 1 - n)]
  <2>1. \A n \in 0 .. len : f[n] = IF n = 0 THEN d ELSE ReleaseModifier(f[n - 1], len + 1 - n)
    BY <1>1, <1>4, <1>6 DEF Recursive
  <2> HIDE DEF G, S
  <2> QED BY <1>4, <2>1 DEF Recursive
<1>9. PICK g : /\ g = [n \in 0 .. len |-> IF n = 0 THEN d ELSE ReleaseModifier(g[n - 1], len + 1 - n)]
               /\ ReleaseNamedModifiers(r) = g[len]
  BY <1>8, Zenon DEF ReleaseNamedModifiers, d
<1>10. \A n \in 0 .. len : g[n] = IF n = 0 THEN d ELSE ReleaseModifier(g[n - 1], len + 1 - n)
  BY <1>9, Zenon
<1>11. g[0] = d /\ \A n \in 1 .. len : g[n] = ReleaseModifier(g[n - 1], len + 1 - n)
  <2> HIDE DEF len
  <2> QED BY <1>1, <1>10
<1> QED BY <1>9, <1>11 DEF d

(* Releasing works to the end, and then nothing is left.                    *)
LEMMA ReleaseDoes ==
  ASSUME NEW r \in Runs, objects \subseteq AllObjects
  PROVE  LET q == ReleaseNamedModifiers(r)
         IN  Keeps(r, q) /\ q.held = r.held /\ q.stuck = r.stuck /\ (r.ok /\ Holding(r) => Clean(q))
<1> DEFINE len     == Len(r.held)
           Left(i) == Range(r.held) \ {r.held[j] : j \in len + 1 - i .. len}
<1>1. len \in Nat /\ r.held \in Seq(Modifiers) /\ Range(r.held) = {r.held[j] : j \in 1 .. len}
  BY DEF Runs, Range
<1>2. PICK f : /\ f[0] = [r EXCEPT !.depressed = Range(r.held)]
               /\ \A n \in 1 .. len : f[n] = ReleaseModifier(f[n - 1], len + 1 - n)
               /\ ReleaseNamedModifiers(r) = f[len]
  BY ReleaseUnrolls
<1> DEFINE P(i) == /\ Keeps(r, f[i]) /\ f[i].held = r.held /\ f[i].stuck = r.stuck
                   /\ r.ok /\ Holding(r) =>
                        /\ f[i].ok /\ (r.held # <<>> => Ready(f[i]))
                        /\ f[i].depressed \subseteq Left(i)
                        /\ f[i].app.mods \subseteq Left(i) \cup r.stuck
                        /\ f[i].app.keys \cap Named \subseteq Left(i) \cup r.stuck
           T == {i \in 0 .. len : P(i)}
<1>3. P(0)
  <2>1. Left(0) = Range(r.held)
    BY <1>1
  <2>2. Range(r.held) \in SUBSET Modifiers
    BY <1>1
  <2> DEFINE d == [r EXCEPT !.depressed = Range(r.held)]
  <2>3. /\ d \in Runs /\ d.conn = r.conn /\ d.app = r.app /\ d.ok = r.ok /\ d.strayed = r.strayed
        /\ d.held = r.held /\ d.fallback = r.fallback /\ d.doubt = r.doubt /\ d.stuck = r.stuck
        /\ d.depressed = Range(r.held)
    BY <2>2 DEF Runs
  <2>4. f[0] = d
    BY <1>2
  <2> HIDE DEF d, Left
  <2>5. Keeps(r, d) /\ (Ready(r) => Ready(d))
    BY <2>3 DEF Keeps, Honest, Ready, TargetSurface
  <2> QED BY <2>1, <2>3, <2>4, <2>5 DEF Holding
<1>4. ASSUME NEW i \in 0 .. len - 1, P(i) PROVE P(i + 1)
  <2> DEFINE n    == len - i
             mask == f[i].depressed \ {r.held[n]}
  <2>1. /\ n \in 1 .. len /\ i + 1 \in 1 .. len /\ len + 1 - (i + 1) = n /\ (i + 1) - 1 = i
        /\ len + 1 - i = n + 1
    <3> HIDE DEF len
    <3>1. i \in Nat /\ i < len
      BY <1>1
    <3> QED BY <1>1, <3>1
  <2>e. r.held # <<>>
    <3>1. Len(<<>>) = 0 /\ len # 0
      BY <2>1
    <3> QED BY <3>1
  <2>2. f[i + 1] = ReleaseModifier(f[i], n)
    BY <1>2, <2>1
  <2>3. f[i] \in Runs /\ f[i].held = r.held /\ f[i].stuck = r.stuck
    BY <1>4 DEF Keeps
  <2>4. Masked(f[i], f[i + 1], r.held[n], FALSE, mask) /\ f[i + 1].depressed = mask
    <3>1. n \in 1 .. Len(f[i].held)
      BY <2>1, <2>3
    <3> QED BY <2>2, <2>3, <3>1, ReleaseModifierDoes
  <2>5. Keeps(r, f[i + 1]) /\ f[i + 1].held = r.held /\ f[i + 1].stuck = r.stuck
    BY <1>4, <2>3, <2>4, KeepsTwice DEF Masked
  <2>6. Left(i) \ {r.held[n]} \subseteq Left(i + 1)
    <3>1. n .. len = {n} \cup (n + 1 .. len)
      BY <1>1, <2>1
    <3> HIDE DEF n
    <3> QED BY <2>1, <3>1
  <2> HIDE DEF Left, n
  <2>7. ASSUME r.ok, Holding(r)
        PROVE  /\ f[i + 1].ok /\ Ready(f[i + 1])
               /\ f[i + 1].depressed \subseteq Left(i + 1)
               /\ f[i + 1].app.mods \subseteq Left(i + 1) \cup r.stuck
               /\ f[i + 1].app.keys \cap Named \subseteq Left(i + 1) \cup r.stuck
    <3>1. f[i + 1].ok /\ Ready(f[i + 1])
      BY <1>4, <2>e, <2>4, <2>7 DEF Masked
    <3>2. mask \subseteq Left(i + 1)
      BY <1>4, <2>6, <2>7
    <3> HIDE DEF mask
    <3> QED BY <1>4, <2>4, <2>6, <2>7, <3>1, <3>2 DEF Masked
  <2> QED BY <2>5, <2>7
<1>5. P(len)
  <2>1. \A i \in 0 .. len - 1 : i \in T => i + 1 \in T
    <3> HIDE DEF P, len
    <3> QED BY <1>1, <1>4
  <2>2. 0 \in T /\ len \in 0 .. len
    <3> HIDE DEF P, len
    <3> QED BY <1>1, <1>3
  <2> HIDE DEF T
  <2>3. len \in T
    BY <1>1, <2>1, <2>2, Upwards
  <2> QED BY <2>3 DEF T
<1>6. Left(len) = {}
  BY <1>1
<1> HIDE DEF Left
<1> QED BY <1>2, <1>5, <1>6 DEF Clean

LEMMA RangeOfAppend ==
  ASSUME NEW S, NEW s \in Seq(S), NEW x \in S
  PROVE  Append(s, x) \in Seq(S) /\ Append(s, x) # <<>> /\ Range(Append(s, x)) = Range(s) \cup {x}
<1>1. /\ Append(s, x) \in Seq(S) /\ Len(Append(s, x)) = Len(s) + 1
      /\ \A i \in 1 .. Len(s) : Append(s, x)[i] = s[i]
      /\ Append(s, x)[Len(s) + 1] = x
  OBVIOUS
<1>2. DOMAIN s = 1 .. Len(s) /\ DOMAIN Append(s, x) = 1 .. Len(s) + 1 /\ Len(s) \in Nat
  BY <1>1
<1>3. Range(Append(s, x)) = Range(s) \cup {x}
  BY <1>1, <1>2 DEF Range
<1>4. Append(s, x) # <<>>
  <2>1. Len(Append(s, x)) # 0 /\ Len(<<>>) = 0
    BY <1>1, <1>2
  <2> QED BY <2>1
<1> QED BY <1>1, <1>3, <1>4

(* A failed press leaves nothing down but what it abandons.                 *)
Pressing(q) == IF q.ok THEN Holding(q) ELSE Clean(q)

LEMMA PressModifierDoes ==
  ASSUME NEW r \in Runs, NEW m \in Modifiers, objects \subseteq AllObjects
  PROVE  LET q == PressModifier(r, m)
         IN  Keeps(r, q) /\ (Pressing(r) => Pressing(q))
<1> DEFINE mask == r.depressed \cup {m}
           down == SendMask(KeyRaw(r, m, TRUE), mask)
           rel  == ReleaseNamedModifiers(r)
           q    == PressModifier(r, m)
<1>0. mask \in SUBSET Modifiers /\ r.held \in Seq(Modifiers) /\ (Holding(r) => mask \subseteq Range(r.held) \cup {m})
  BY DEF Runs, Holding
<1>1. Masked(r, down, m, TRUE, mask) /\ down.depressed = mask
  <2> HIDE DEF mask
  <2> QED BY <1>0, KeyAndDepressed
<1>2. q = IF ~r.ok THEN r
          ELSE IF m \in NoKeycode THEN Fail(rel)
          ELSE IF m \in NoMask THEN Abandon(r)
          ELSE IF down.ok THEN [down EXCEPT !.held = Append(down.held, m)]
          ELSE down
  BY Zenon DEF PressModifier
<1> HIDE DEF down, rel, q, mask
<1>3. CASE ~r.ok
  BY <1>2, <1>3, KeepsItself DEF q
<1>4. CASE r.ok /\ m \in NoKeycode
  <2>1. Keeps(r, rel) /\ (Holding(r) => Clean(rel))
    BY <1>4, ReleaseDoes DEF rel
  <2>2. q = Fail(rel) /\ rel \in Runs
    BY <1>2, <1>4, <2>1 DEF Keeps
  <2>3. Keeps(rel, q) /\ ~q.ok /\ q.app = rel.app /\ q.stuck = rel.stuck
    BY <2>2, FailDoes
  <2>4. Keeps(r, q)
    BY <2>1, <2>3, KeepsTwice
  <2> QED BY <1>4, <2>1, <2>3, <2>4 DEF Pressing, Clean, q
<1>5. CASE r.ok /\ m \notin NoKeycode /\ m \in NoMask
  <2>1. q = Abandon(r)
    BY <1>2, <1>5
  <2> QED BY <1>5, <2>1, AbandonDoes DEF Pressing, q
<1>6. CASE r.ok /\ m \notin NoKeycode /\ m \notin NoMask /\ down.ok
  <2>1. q = [down EXCEPT !.held = Append(down.held, m)]
    BY <1>2, <1>6
  <2>2. down \in Runs /\ down.held = r.held
    BY <1>1 DEF Masked, Keeps
  <2>3. /\ Append(r.held, m) \in Seq(Modifiers) /\ Append(r.held, m) # <<>>
        /\ Range(Append(r.held, m)) = Range(r.held) \cup {m}
    BY <1>0, RangeOfAppend
  <2>4. /\ q \in Runs /\ q.conn = down.conn /\ q.app = down.app /\ q.ok = down.ok /\ q.strayed = down.strayed
        /\ q.fallback = down.fallback /\ q.held = Append(r.held, m)
        /\ q.depressed = down.depressed /\ q.doubt = down.doubt /\ q.stuck = down.stuck
    BY <2>1, <2>2, <2>3 DEF Runs
  <2>5. Keeps(down, q)
    BY <2>4 DEF Keeps, Honest
  <2>6. Keeps(r, q)
    BY <1>1, <2>5, KeepsTwice DEF Masked
  <2>7. Ready(q)
    BY <1>1, <1>6, <2>4 DEF Masked, Ready, TargetSurface
  <2>8. Holding(r) => Holding(q)
    <3>1. q.app.mods = mask /\ q.app.keys \subseteq r.app.keys \cup {m} /\ q.stuck = r.stuck /\ q.depressed = mask
      BY <1>1, <1>6, <2>4 DEF Masked
    <3> QED BY <1>0, <2>3, <2>4, <2>7, <3>1 DEF Holding
  <2> QED BY <1>6, <2>4, <2>6, <2>8 DEF Pressing, q
<1>7. CASE r.ok /\ m \notin NoKeycode /\ m \notin NoMask /\ ~down.ok
  <2>1. q = down
    BY <1>2, <1>7
  <2>2. Holding(r) => Range(r.held) = {}
    <3>1. Holding(r) => r.held = <<>>
      BY <1>1, <1>7 DEF Holding, Masked
    <3> QED BY <3>1 DEF Range
  <2>3. Holding(r) => Clean(down)
    BY <1>1, <1>7, <2>2 DEF Holding, Masked, Clean
  <2> QED BY <1>1, <1>7, <2>1, <2>3 DEF Pressing, Masked, q
<1> QED BY <1>3, <1>4, <1>5, <1>6, <1>7

(* The presses of a list one after the other.                               *)
LEMMA PressUnrolls ==
  ASSUME NEW r \in Runs, NEW names \in Seq(Modifiers), objects \subseteq AllObjects
  PROVE  \E f : /\ f[0] = r
                /\ \A n \in 1 .. Len(names) : f[n] = PressModifier(f[n - 1], names[n])
                /\ PressNamedModifiers(r, names) = f[Len(names)]
<1> DEFINE len == Len(names)
           G   == [n \in 1 .. len |-> [q \in Runs |-> PressModifier(q, names[n])]]
<1>1. len \in Nat /\ \A n \in 1 .. len : names[n] \in Modifiers
  OBVIOUS
<1>a. len \in Nat
  BY <1>1
<1>2. G \in [1 .. len -> [Runs -> Runs]]
  <2>1. \A n \in 1 .. len, q \in Runs : PressModifier(q, names[n]) \in Runs
    BY <1>1, PressModifierDoes DEF Keeps
  <2> QED BY <2>1
<1>3. PICK f : Recursive(f, Runs, r, len, G)
  <2> HIDE DEF G, len
  <2> QED BY <1>a, <1>2, Recursion
<1>4. \A n \in 1 .. len : f[n] = PressModifier(f[n - 1], names[n])
  <2>1. \A n \in 1 .. len : f[n - 1] \in Runs
    <3> HIDE DEF G
    <3> QED BY <1>1, <1>3 DEF Recursive
  <2> QED BY <1>3, <2>1 DEF Recursive
<1>5. f = [n \in 0 .. len |-> IF n = 0 THEN r ELSE PressModifier(f[n - 1], names[n])]
  <2>1. \A n \in 0 .. len : f[n] = IF n = 0 THEN r ELSE PressModifier(f[n - 1], names[n])
    BY <1>1, <1>3, <1>4 DEF Recursive
  <2> HIDE DEF G
  <2> QED BY <1>3, <2>1 DEF Recursive
<1>6. PICK g : /\ g = [n \in 0 .. len |-> IF n = 0 THEN r ELSE PressModifier(g[n - 1], names[n])]
               /\ PressNamedModifiers(r, names) = g[len]
  BY <1>5, Zenon DEF PressNamedModifiers
<1>7. \A n \in 0 .. len : g[n] = IF n = 0 THEN r ELSE PressModifier(g[n - 1], names[n])
  BY <1>6, Zenon
<1>8. g[0] = r /\ \A n \in 1 .. len : g[n] = PressModifier(g[n - 1], names[n])
  <2> HIDE DEF len
  <2> QED BY <1>1, <1>7
<1> QED BY <1>6, <1>8

(* Whatever list is pressed can be released, or nothing of it is down.      *)
LEMMA PressDoes ==
  ASSUME NEW r \in Runs, NEW names \in Seq(Modifiers), objects \subseteq AllObjects
  PROVE  LET q == PressNamedModifiers(r, names)
         IN  Keeps(r, q) /\ (Pressing(r) => Pressing(q))
<1> DEFINE len == Len(names)
<1>1. len \in Nat /\ \A n \in 1 .. len : names[n] \in Modifiers
  OBVIOUS
<1>2. PICK f : /\ f[0] = r
               /\ \A n \in 1 .. len : f[n] = PressModifier(f[n - 1], names[n])
               /\ PressNamedModifiers(r, names) = f[len]
  BY PressUnrolls
<1> DEFINE P(i) == Keeps(r, f[i]) /\ (Pressing(r) => Pressing(f[i]))
           T    == {i \in 0 .. len : P(i)}
<1> HIDE DEF len
<1>3. P(0)
  BY <1>2, KeepsItself
<1>4. ASSUME NEW i \in 0 .. len - 1, P(i) PROVE P(i + 1)
  <2>1. i + 1 \in 1 .. len /\ (i + 1) - 1 = i /\ f[i] \in Runs
    BY <1>1, <1>4 DEF Keeps
  <2>2. f[i + 1] = PressModifier(f[i], names[i + 1])
    BY <1>2, <2>1
  <2>3. Keeps(f[i], f[i + 1]) /\ (Pressing(f[i]) => Pressing(f[i + 1]))
    BY <1>1, <2>1, <2>2, PressModifierDoes
  <2> QED BY <1>4, <2>3, KeepsTwice
<1>5. P(len)
  <2>1. \A i \in 0 .. len - 1 : i \in T => i + 1 \in T
    <3> HIDE DEF P
    <3> QED BY <1>1, <1>4
  <2>2. 0 \in T /\ len \in 0 .. len
    <3> HIDE DEF P
    <3> QED BY <1>1, <1>3
  <2> HIDE DEF T
  <2>3. len \in T
    BY <1>1, <2>1, <2>2, Upwards
  <2> QED BY <2>3 DEF T
<1> QED BY <1>2, <1>5

-----------------------------------------------------------------------------
(* Text by keys.                                                            *)

(* Key pressed and released.                                                *)
Tap(r) == KeyRaw(KeyRaw(r, Key, TRUE), Key, FALSE)

LEMMA TapDoes ==
  ASSUME NEW r \in Runs, objects \subseteq AllObjects
  PROVE  LET q == Tap(r)
         IN  /\ Keeps(r, q) /\ q.held = r.held /\ q.app.mods = r.app.mods
             /\ q.depressed = r.depressed /\ q.stuck = r.stuck
             /\ q.app.keys \cap Named \subseteq r.app.keys
             /\ ~r.ok => q = r
             /\ q.ok => Ready(q)
             /\ r.ok /\ Ready(r) => q.ok
<1> DEFINE p == KeyRaw(r, Key, TRUE)
           q == KeyRaw(p, Key, FALSE)
<1>1. Typed(r, p, Key, TRUE)
  BY KeyRawDoes
<1>2. p \in Runs
  BY <1>1 DEF Typed, Struck, Keeps
<1> HIDE DEF p
<1>3. Typed(p, q, Key, FALSE)
  BY <1>2, KeyRawDoes
<1> HIDE DEF q
<1>4. Keeps(r, q)
  BY <1>1, <1>3, KeepsTwice DEF Typed, Struck
<1>5. q.app.keys \cap Named \subseteq r.app.keys
  BY <1>1, <1>3, KeyAssumption DEF Typed, Struck, Named
<1>6. ~r.ok => q = r
  BY <1>1, <1>3 DEF Typed, Struck
<1>7. /\ q.held = r.held /\ q.app.mods = r.app.mods
      /\ q.depressed = r.depressed /\ q.stuck = r.stuck
      /\ q.ok => Ready(q)
      /\ r.ok /\ Ready(r) => q.ok
  BY <1>1, <1>3 DEF Typed, Struck
<1>8. Tap(r) = q
  BY DEF Tap, p, q
<1> QED BY <1>4, <1>5, <1>6, <1>7, <1>8

CharKinds == {"plain", "shifted", "missing"}

LEMMA TypeCharDoes ==
  ASSUME NEW r \in Runs, NEW c \in CharKinds, objects \subseteq AllObjects
  PROVE  LET q == TypeChar(r, c)
         IN  Keeps(r, q) /\ (Clean(r) => Clean(q))
<1> DEFINE a == SendModifiers(KeyRaw(r, Shift, TRUE), {Shift})
           b == Tap(a)
           d == SendModifiers(KeyRaw(b, Shift, FALSE), {})
<1>1. CASE c = "plain"
  <2>1. TypeChar(r, c) = Tap(r)
    BY <1>1 DEF TypeChar, Tap
  <2> QED BY <2>1, TapDoes DEF Clean
<1>2. CASE c = "shifted"
  <2>1. TypeChar(r, c) = d
    BY <1>2 DEF TypeChar, Tap
  <2>2. Masked(r, a, Shift, TRUE, {Shift})
    BY KeyAndMask
  <2>3. a \in Runs
    BY <2>2 DEF Masked, Keeps
  <2> HIDE DEF a
  <2>4. /\ Keeps(a, b) /\ b.stuck = a.stuck /\ b.app.mods = a.app.mods
        /\ b.app.keys \cap Named \subseteq a.app.keys
        /\ ~a.ok => b = a
        /\ b.ok => Ready(b)
        /\ a.ok /\ Ready(a) => b.ok
    BY <2>3, TapDoes
  <2>5. b \in Runs
    BY <2>4 DEF Keeps
  <2> HIDE DEF b
  <2>6. Masked(b, d, Shift, FALSE, {})
    BY <2>5, KeyAndMask
  <2> HIDE DEF d
  <2>7. Keeps(r, d)
    BY <2>2, <2>4, <2>6, KeepsTwice DEF Masked
  <2>8. CASE a.ok
    <3>1. d.ok
      BY <2>2, <2>4, <2>6, <2>8 DEF Masked
    <3>2. Clean(r) => a.app.keys \cap Named \subseteq {Shift} \cup a.stuck
      BY <2>2, <2>8 DEF Masked, Clean
    <3>3. Clean(r) => Clean(d)
      BY <2>4, <2>6, <3>1, <3>2 DEF Masked, Clean
    <3> QED BY <2>1, <2>7, <3>3
  <2>9. CASE ~a.ok
    <3>1. Clean(r) => Clean(a)
      BY <2>2, <2>9 DEF Masked, Clean
    <3>2. b = a /\ ~d.ok
      BY <2>4, <2>6, <2>9 DEF Masked, Keeps
    <3>3. Clean(a) => Clean(d)
      BY <2>6, <3>2 DEF Masked, Clean
    <3> QED BY <2>1, <2>7, <3>1, <3>3
  <2> QED BY <2>8, <2>9
<1>3. CASE c = "missing"
  <2>1. TypeChar(r, c) = Fail(r)
    BY <1>3 DEF TypeChar
  <2> QED BY <2>1, FailDoes DEF Clean
<1> QED BY <1>1, <1>2, <1>3 DEF CharKinds

(* The characters of a text one after the other.                            *)
LEMMA TypeUnrolls ==
  ASSUME NEW r \in Runs, NEW word \in Seq(CharKinds), objects \subseteq AllObjects
  PROVE  \E f : /\ f[0] = r
                /\ \A n \in 1 .. Len(word) : f[n] = TypeChar(f[n - 1], word[n])
                /\ TypeChars(r, word) = f[Len(word)]
<1> DEFINE len == Len(word)
           G   == [n \in 1 .. len |-> [q \in Runs |-> TypeChar(q, word[n])]]
<1>1. len \in Nat /\ \A n \in 1 .. len : word[n] \in CharKinds
  OBVIOUS
<1>a. len \in Nat
  BY <1>1
<1>2. G \in [1 .. len -> [Runs -> Runs]]
  <2>1. \A n \in 1 .. len, q \in Runs : TypeChar(q, word[n]) \in Runs
    BY <1>1, TypeCharDoes DEF Keeps
  <2> QED BY <2>1
<1>3. PICK f : Recursive(f, Runs, r, len, G)
  <2> HIDE DEF G, len
  <2> QED BY <1>a, <1>2, Recursion
<1>4. \A n \in 1 .. len : f[n] = TypeChar(f[n - 1], word[n])
  <2>1. \A n \in 1 .. len : f[n - 1] \in Runs
    <3> HIDE DEF G
    <3> QED BY <1>1, <1>3 DEF Recursive
  <2> QED BY <1>3, <2>1 DEF Recursive
<1>5. f = [n \in 0 .. len |-> IF n = 0 THEN r ELSE TypeChar(f[n - 1], word[n])]
  <2>1. \A n \in 0 .. len : f[n] = IF n = 0 THEN r ELSE TypeChar(f[n - 1], word[n])
    BY <1>1, <1>3, <1>4 DEF Recursive
  <2> HIDE DEF G
  <2> QED BY <1>3, <2>1 DEF Recursive
<1>6. PICK g : /\ g = [n \in 0 .. len |-> IF n = 0 THEN r ELSE TypeChar(g[n - 1], word[n])]
               /\ TypeChars(r, word) = g[len]
  BY <1>5, Zenon DEF TypeChars
<1>7. \A n \in 0 .. len : g[n] = IF n = 0 THEN r ELSE TypeChar(g[n - 1], word[n])
  BY <1>6, Zenon
<1>8. g[0] = r /\ \A n \in 1 .. len : g[n] = TypeChar(g[n - 1], word[n])
  <2> HIDE DEF len
  <2> QED BY <1>1, <1>7
<1> QED BY <1>6, <1>8

(* However far a text gets, nothing stays down.                             *)
LEMMA TypeDoes ==
  ASSUME NEW r \in Runs, NEW word \in Seq(CharKinds), objects \subseteq AllObjects
  PROVE  LET q == TypeChars(r, word)
         IN  Keeps(r, q) /\ (Clean(r) => Clean(q))
<1> DEFINE len == Len(word)
<1>1. len \in Nat /\ \A n \in 1 .. len : word[n] \in CharKinds
  OBVIOUS
<1>2. PICK f : /\ f[0] = r
               /\ \A n \in 1 .. len : f[n] = TypeChar(f[n - 1], word[n])
               /\ TypeChars(r, word) = f[len]
  BY TypeUnrolls
<1> DEFINE P(i) == Keeps(r, f[i]) /\ (Clean(r) => Clean(f[i]))
           T    == {i \in 0 .. len : P(i)}
<1> HIDE DEF len
<1>3. P(0)
  BY <1>2, KeepsItself
<1>4. ASSUME NEW i \in 0 .. len - 1, P(i) PROVE P(i + 1)
  <2>1. i + 1 \in 1 .. len /\ (i + 1) - 1 = i /\ f[i] \in Runs
    BY <1>1, <1>4 DEF Keeps
  <2>2. f[i + 1] = TypeChar(f[i], word[i + 1])
    BY <1>2, <2>1
  <2>3. Keeps(f[i], f[i + 1]) /\ (Clean(f[i]) => Clean(f[i + 1]))
    BY <1>1, <2>1, <2>2, TypeCharDoes
  <2> QED BY <1>4, <2>3, KeepsTwice
<1>5. P(len)
  <2>1. \A i \in 0 .. len - 1 : i \in T => i + 1 \in T
    <3> HIDE DEF P
    <3> QED BY <1>1, <1>4
  <2>2. 0 \in T /\ len \in 0 .. len
    <3> HIDE DEF P
    <3> QED BY <1>1, <1>3
  <2> HIDE DEF T
  <2>3. len \in T
    BY <1>1, <2>1, <2>2, Upwards
  <2> QED BY <2>3 DEF T
<1> QED BY <1>2, <1>5

-----------------------------------------------------------------------------
(* The pointer.                                                             *)

(* What the pointer's operators leave alone, on the way to a surface s.     *)
Points(r, q, s) ==
  /\ q \in Runs /\ (q.ok => r.ok)
  /\ q.held = r.held /\ q.depressed = r.depressed /\ q.stuck = r.stuck /\ q.fallback = r.fallback
  /\ q.conn.pointer_obj = r.conn.pointer_obj
  /\ q.conn.keyboard_obj = r.conn.keyboard_obj /\ q.conn.keyboard_focus = r.conn.keyboard_focus
  /\ q.conn.focused_surface \in {r.conn.focused_surface, s}
  /\ q.app.keys = r.app.keys /\ q.app.mods = r.app.mods
  /\ Honest(r) => Honest(q) /\ (q.strayed => r.strayed)

LEMMA PointsTwice == \A r, p, q, s : Points(r, p, s) /\ Points(p, q, s) => Points(r, q, s)
  BY DEF Points

LEMMA PointerFocus ==
  ASSUME NEW r \in Runs, NEW s \in Surfaces, r.conn.pointer_obj \in Pointers
  PROVE  LET q == EnsurePointerFocus(r, s)
         IN  /\ Points(r, q, s) /\ q.app.buttons = r.app.buttons
             /\ q.ok => q.conn.pointer_focus = s
<1> DEFINE p       == r.conn.pointer_obj
           prev    == r.conn.pointer_focus
           away    == [r.app EXCEPT !.ptr[p] = None]
           left    == IF prev = None THEN r ELSE Send(r, {p, prev}, away)
           there   == [left.app EXCEPT !.ptr[p] = s]
           entered == Send(left, {p, s}, there)
           q       == EnsurePointerFocus(r, s)
<1>1. CASE ~r.ok \/ prev = s
  <2>1. q = r
    BY <1>1 DEF EnsurePointerFocus
  <2> QED BY <2>1, <1>1 DEF Points
<1>2. CASE r.ok /\ prev # s
  <2>1. /\ r.app \in Apps /\ r.conn \in Conns /\ away \in Apps
        /\ away.keys = r.app.keys /\ away.mods = r.app.mods /\ away.kbd = r.app.kbd
        /\ away.buttons = r.app.buttons
    BY DEF Runs, Apps
  <2>2. /\ left \in Runs /\ left.conn = r.conn /\ left.held = r.held /\ left.fallback = r.fallback
        /\ left.strayed = r.strayed /\ left.ok = (prev = None \/ {p, prev} \subseteq objects)
        /\ left.depressed = r.depressed /\ left.stuck = r.stuck /\ left.doubt = r.doubt
        /\ left.app = IF prev # None /\ left.ok THEN away ELSE r.app
    BY <1>2, <2>1, SendDoes DEF Sent, Runs
  <2> HIDE DEF left, away
  <2>3. /\ there \in Apps /\ there.ptr[p] = s /\ there.keys = left.app.keys /\ there.mods = left.app.mods
        /\ there.kbd = left.app.kbd /\ there.buttons = left.app.buttons
    BY <2>1, <2>2 DEF Apps
  <2>4. Sent(left, entered, {p, s}, there)
    BY <2>2, <2>3, SendDoes
  <2>5. q = IF entered.ok THEN [entered EXCEPT !.conn.pointer_focus = s, !.doubt.ptr = FALSE]
            ELSE [entered EXCEPT !.doubt.ptr = entered.doubt.ptr \/ (left.ok /\ prev # None)]
    BY <1>2, Zenon DEF EnsurePointerFocus, left, away
  <2> HIDE DEF entered, there, q
  <2>6. /\ q \in Runs /\ q.ok = entered.ok /\ q.app = entered.app /\ q.held = r.held
        /\ q.fallback = r.fallback /\ q.strayed = r.strayed
        /\ q.depressed = r.depressed /\ q.stuck = r.stuck
        /\ q.conn = IF q.ok THEN [r.conn EXCEPT !.pointer_focus = s] ELSE r.conn
        /\ q.doubt.kbd = r.doubt.kbd
        /\ ~q.ok /\ left.ok /\ prev # None => q.doubt.ptr
        /\ ~q.ok /\ ~q.doubt.ptr => ~r.doubt.ptr
    <3> DEFINE torn == entered.doubt.ptr \/ (left.ok /\ prev # None)
    <3>1. /\ entered \in Runs /\ entered.conn = r.conn /\ entered.held = r.held
          /\ entered.fallback = r.fallback /\ entered.strayed = r.strayed
          /\ entered.depressed = r.depressed /\ entered.stuck = r.stuck /\ entered.doubt = r.doubt
      BY <2>2, <2>4 DEF Sent
    <3>2. CASE entered.ok
      <4>1. q = [entered EXCEPT !.conn.pointer_focus = s, !.doubt.ptr = FALSE]
        BY <2>5, <3>2
      <4> QED BY <3>1, <3>2, <4>1 DEF Runs, Conns
    <3>3. CASE ~entered.ok
      <4>1. q = [entered EXCEPT !.doubt.ptr = torn]
        BY <2>5, <3>3
      <4>2. torn \in BOOLEAN /\ (~torn => ~r.doubt.ptr /\ ~(left.ok /\ prev # None))
        BY <2>2, <3>1 DEF Runs
      <4> HIDE DEF torn
      <4> QED BY <3>1, <3>3, <4>1, <4>2 DEF Runs
    <3> QED BY <3>2, <3>3
  <2>7. /\ q.ok <=> left.ok /\ {p, s} \subseteq objects
        /\ q.app = IF q.ok THEN there ELSE left.app
    BY <2>4, <2>6 DEF Sent
  <2>8. /\ q.app.keys = r.app.keys /\ q.app.mods = r.app.mods
        /\ q.app.kbd = r.app.kbd /\ q.app.buttons = r.app.buttons
    BY <2>1, <2>2, <2>3, <2>7
  <2>9. /\ q.conn.focused_surface = r.conn.focused_surface
        /\ q.conn.pointer_obj = r.conn.pointer_obj /\ q.conn.keyboard_focus = r.conn.keyboard_focus
        /\ q.conn.keyboard_obj = r.conn.keyboard_obj
        /\ q.conn.pointer_focus = IF q.ok THEN s ELSE prev
    BY <2>1, <2>6 DEF Conns
  <2>10. ASSUME Honest(r) PROVE Honest(q)
    <3>1. CASE q.ok
      BY <2>3, <2>6, <2>7, <2>8, <2>9, <2>10, <3>1 DEF Honest
    <3>2. CASE ~q.ok /\ left.ok /\ prev # None
      BY <2>6, <2>8, <2>9, <2>10, <3>2 DEF Honest
    <3>3. CASE ~q.ok /\ ~(left.ok /\ prev # None)
      <4>1. q.app = r.app
        BY <2>2, <2>7, <3>3
      <4> QED BY <2>6, <2>9, <2>10, <3>3, <4>1 DEF Honest
    <3> QED BY <3>1, <3>2, <3>3
  <2>11. Points(r, q, s)
    BY <1>2, <2>6, <2>8, <2>9, <2>10 DEF Points
  <2> QED BY <2>8, <2>9, <2>11 DEF q
<1> QED BY <1>1, <1>2

LEMMA MotionDoes ==
  ASSUME NEW r \in Runs, NEW s
  PROVE  LET q == Motion(r)
         IN  /\ Points(r, q, s) /\ q.conn = r.conn /\ q.app = r.app
             /\ q.ok <=> r.ok /\ r.conn.pointer_obj \in objects
<1> DEFINE q == Motion(r)
<1>1. r.app \in Apps
  BY DEF Runs
<1>2. Sent(r, q, {r.conn.pointer_obj}, r.app)
  BY <1>1, SendDoes DEF Motion
<1> HIDE DEF q
<1>3. q.app = r.app
  BY <1>2 DEF Sent
<1>4. Points(r, q, s)
  BY <1>2, <1>3 DEF Sent, Points, Honest
<1> QED BY <1>2, <1>3, <1>4 DEF Sent, q

LEMMA ReleaseButtonDoes ==
  ASSUME NEW r \in Runs, NEW s
  PROVE  LET q == ReleaseButton(r)
         IN  /\ Points(r, q, s) /\ q.conn = r.conn
             /\ q.ok <=> r.ok /\ r.conn.pointer_obj \in objects
             /\ q.app.buttons = IF q.ok THEN FALSE ELSE r.app.buttons
<1> DEFINE told == [r.app EXCEPT !.buttons = FALSE]
           q    == ReleaseButton(r)
<1>1. /\ told \in Apps /\ told.ptr = r.app.ptr /\ told.kbd = r.app.kbd /\ told.keys = r.app.keys
      /\ told.mods = r.app.mods /\ told.buttons = FALSE
  BY DEF Runs, Apps
<1>2. Sent(r, q, {r.conn.pointer_obj}, told)
  BY <1>1, SendDoes DEF ReleaseButton
<1> HIDE DEF told, q
<1>3. Points(r, q, s)
  BY <1>1, <1>2 DEF Sent, Points, Honest
<1> QED BY <1>1, <1>2, <1>3 DEF Sent, q

LEMMA PressButtonDoes ==
  ASSUME NEW r \in Runs, NEW s, r.ok => r.conn.pointer_focus = s /\ s # None
  PROVE  LET q == PressButton(r, s)
         IN  /\ Points(r, q, s) /\ q.conn = r.conn
             /\ q.ok <=> r.ok /\ r.conn.pointer_obj \in objects
             /\ ~q.ok => q.app.buttons = r.app.buttons
<1> DEFINE told   == [r.app EXCEPT !.buttons = TRUE]
           sent   == Send(r, {r.conn.pointer_obj}, told)
           astray == sent.strayed \/ (~r.doubt.ptr /\ r.app.ptr[r.conn.pointer_obj] # s)
           q      == PressButton(r, s)
<1>1. /\ told \in Apps /\ told.ptr = r.app.ptr /\ told.kbd = r.app.kbd /\ told.keys = r.app.keys
      /\ told.mods = r.app.mods
  BY DEF Runs, Apps
<1>2. Sent(r, sent, {r.conn.pointer_obj}, told)
  BY <1>1, SendDoes
<1>3. q = IF sent.ok THEN [sent EXCEPT !.strayed = astray] ELSE sent
  BY Zenon DEF PressButton
<1>4. sent \in Runs /\ astray \in BOOLEAN
  BY <1>2 DEF Sent, Runs
<1>5. astray <=> r.strayed \/ (~r.doubt.ptr /\ r.app.ptr[r.conn.pointer_obj] # s)
  BY <1>2 DEF Sent
<1> HIDE DEF told, sent, astray, q
<1>6. /\ q \in Runs /\ q.conn = r.conn /\ q.held = r.held /\ q.fallback = r.fallback
      /\ q.depressed = r.depressed /\ q.stuck = r.stuck /\ q.doubt = r.doubt
      /\ q.ok = sent.ok /\ q.app = sent.app
      /\ q.strayed = IF sent.ok THEN astray ELSE r.strayed
  <2>1. CASE sent.ok
    BY <1>2, <1>3, <1>4, <2>1 DEF Runs, Sent
  <2>2. CASE ~sent.ok
    BY <1>2, <1>3, <1>4, <2>2 DEF Sent
  <2> QED BY <2>1, <2>2
<1>7. /\ q.ok <=> r.ok /\ r.conn.pointer_obj \in objects
      /\ q.app = IF q.ok THEN told ELSE r.app
  BY <1>2, <1>6 DEF Sent
<1>8. Honest(r) => Honest(q)
  BY <1>1, <1>6, <1>7 DEF Honest
<1>9. Honest(r) /\ q.strayed => r.strayed
  BY <1>5, <1>6, <1>7 DEF Honest
<1>10. Points(r, q, s)
  BY <1>1, <1>6, <1>7, <1>8, <1>9 DEF Points
<1> QED BY <1>6, <1>7, <1>10 DEF q

LEMMA FocusDoes ==
  ASSUME NEW r \in Runs, NEW s \in Surfaces
  PROVE  LET q == Focus(r, s)
         IN  /\ Points(r, q, s) /\ q.ok = r.ok /\ q.app = r.app
             /\ q.conn.pointer_focus = r.conn.pointer_focus
             /\ q.ok => q.conn.focused_surface = s
<1> DEFINE q == Focus(r, s)
<1>1. CASE ~r.ok
  <2>1. q = r
    BY <1>1 DEF Focus
  <2> QED BY <1>1, <2>1 DEF Points
<1>2. CASE r.ok
  <2>1. q = [r EXCEPT !.conn.focused_surface = s]
    BY <1>2 DEF Focus
  <2> HIDE DEF q
  <2>2. /\ q \in Runs /\ q.ok = r.ok /\ q.app = r.app /\ q.held = r.held /\ q.fallback = r.fallback
        /\ q.depressed = r.depressed /\ q.stuck = r.stuck /\ q.doubt = r.doubt
        /\ q.strayed = r.strayed /\ q.conn = [r.conn EXCEPT !.focused_surface = s]
    BY <2>1 DEF Runs, Conns
  <2>3. /\ q.conn.focused_surface = s /\ q.conn.pointer_obj = r.conn.pointer_obj
        /\ q.conn.pointer_focus = r.conn.pointer_focus
        /\ q.conn.keyboard_obj = r.conn.keyboard_obj /\ q.conn.keyboard_focus = r.conn.keyboard_focus
    BY <2>2 DEF Runs, Conns
  <2>4. Honest(r) => Honest(q)
    BY <2>2, <2>3 DEF Honest
  <2>5. Points(r, q, s)
    BY <2>2, <2>3, <2>4 DEF Points
  <2> QED BY <2>2, <2>3, <2>5 DEF q
<1> QED BY <1>1, <1>2

(* A click, a scroll or a drag leaves no button down, wherever it breaks    *)
(* off.                                                                     *)
LEMMA PointerRunDoes ==
  ASSUME NEW r \in Runs, NEW s \in Surfaces, NEW op \in {"click", "drag", "scroll"},
         r.conn.pointer_obj \in Pointers
  PROVE  LET q == PointerRun(r, s, op)
         IN  /\ Points(r, q, s)
             /\ ~r.app.buttons => ~q.app.buttons
             /\ op = "click" /\ q.ok => q.conn.focused_surface = s
<1> DEFINE on == EnsurePointerFocus(r, s)
<1>1. /\ Points(r, on, s) /\ on \in Runs /\ on.app.buttons = r.app.buttons
      /\ on.ok => on.conn.pointer_focus = s
  BY PointerFocus DEF Points
<1>2. s # None
  BY NoneAssumption
<1> HIDE DEF on
<1>3. CASE op = "click"
  <2> DEFINE a == Focus(on, s)
             b == Motion(a)
             d == PressButton(b, s)
             q == ReleaseButton(d)
  <2>1. PointerRun(r, s, op) = q
    BY <1>3 DEF PointerRun, on
  <2>2. /\ Points(on, a, s) /\ a \in Runs /\ a.ok = on.ok /\ a.app = on.app
        /\ a.conn.pointer_focus = on.conn.pointer_focus
        /\ a.ok => a.conn.focused_surface = s
    BY <1>1, FocusDoes DEF Points
  <2> HIDE DEF a
  <2>3. /\ Points(a, b, s) /\ b \in Runs /\ b.conn = a.conn /\ b.app = a.app
        /\ b.ok => a.ok
    BY <2>2, MotionDoes DEF Points
  <2> HIDE DEF b
  <2>4. b.ok => b.conn.pointer_focus = s
    BY <1>1, <2>2, <2>3
  <2>5. /\ Points(b, d, s) /\ d \in Runs /\ d.conn = b.conn
        /\ d.ok <=> b.ok /\ b.conn.pointer_obj \in objects
        /\ ~d.ok => d.app.buttons = b.app.buttons
    BY <1>2, <2>3, <2>4, PressButtonDoes DEF Points
  <2> HIDE DEF d
  <2>6. /\ Points(d, q, s) /\ q.conn = d.conn
        /\ q.ok <=> d.ok /\ d.conn.pointer_obj \in objects
        /\ q.app.buttons = IF q.ok THEN FALSE ELSE d.app.buttons
    BY <2>5, ReleaseButtonDoes
  <2> HIDE DEF q
  <2>7. Points(r, q, s)
    BY <1>1, <2>2, <2>3, <2>5, <2>6, PointsTwice
  <2>8. ~r.app.buttons => ~q.app.buttons
    BY <1>1, <2>2, <2>3, <2>5, <2>6
  <2>9. q.ok => q.conn.focused_surface = s
    BY <2>2, <2>3, <2>5, <2>6
  <2> QED BY <2>1, <2>7, <2>8, <2>9
<1>4. CASE op = "drag"
  <2> DEFINE a == Motion(on)
             b == PressButton(a, s)
             d == Motion(b)
             q == ReleaseButton(d)
  <2>1. PointerRun(r, s, op) = q
    BY <1>4 DEF PointerRun, on
  <2>2. /\ Points(on, a, s) /\ a \in Runs /\ a.conn = on.conn /\ a.app = on.app
        /\ a.ok => on.ok
    BY <1>1, MotionDoes DEF Points
  <2> HIDE DEF a
  <2>3. a.ok => a.conn.pointer_focus = s
    BY <1>1, <2>2
  <2>4. /\ Points(a, b, s) /\ b \in Runs /\ b.conn = a.conn
        /\ b.ok <=> a.ok /\ a.conn.pointer_obj \in objects
        /\ ~b.ok => b.app.buttons = a.app.buttons
    BY <1>2, <2>2, <2>3, PressButtonDoes DEF Points
  <2> HIDE DEF b
  <2>5. /\ Points(b, d, s) /\ d \in Runs /\ d.conn = b.conn /\ d.app = b.app
        /\ d.ok <=> b.ok /\ b.conn.pointer_obj \in objects
    BY <2>4, MotionDoes DEF Points
  <2> HIDE DEF d
  <2>6. /\ Points(d, q, s) /\ q.conn = d.conn
        /\ q.ok <=> d.ok /\ d.conn.pointer_obj \in objects
        /\ q.app.buttons = IF q.ok THEN FALSE ELSE d.app.buttons
    BY <2>5, ReleaseButtonDoes
  <2> HIDE DEF q
  <2>7. Points(r, q, s)
    BY <1>1, <2>2, <2>4, <2>5, <2>6, PointsTwice
  <2>8. ~r.app.buttons => ~q.app.buttons
    BY <1>1, <2>2, <2>4, <2>5, <2>6
  <2> QED BY <1>4, <2>1, <2>7, <2>8
<1>5. CASE op = "scroll"
  <2>1. PointerRun(r, s, op) = Motion(on)
    BY <1>5 DEF PointerRun, on
  <2>2. Points(on, Motion(on), s) /\ Motion(on).app = on.app
    BY <1>1, MotionDoes
  <2> QED BY <1>1, <1>5, <2>1, <2>2, PointsTwice
<1> QED BY <1>3, <1>4, <1>5

-----------------------------------------------------------------------------
(* The injections.                                                          *)

Ops == {"none", "click", "scroll", "drag", "key", "combo", "text"}

(* The serial is wrong although the app has committed no other text input.  *)
SerialLost ==
  /\ \A t \in TextInputs \ {text.obj} : asked[t] = 0
  /\ text.serial # asked[text.obj]

(* What an injection that ends with run r has done.                         *)
Result(r, op, target) ==
  /\ r \in Runs /\ op \in Ops /\ target \in Surfaces \cup {None}
  /\ r.conn.pointer_obj = conn.pointer_obj /\ r.conn.keyboard_obj = conn.keyboard_obj
  /\ NothingHeld => Clean(r) /\ ~r.app.buttons
  /\ BeliefIsTruth => Honest(r) /\ (r.strayed => op = "text" /\ text.obj # None /\ SerialLost)
  /\ conn.focused_surface # None =>
       r.conn.focused_surface = conn.focused_surface /\ target \in {conn.focused_surface, None}
  /\ op = "click" /\ r.ok => target # None /\ r.conn.focused_surface = target

LEMMA StartDoes ==
  ASSUME TypeOK, NEW fallback \in Fallbacks
  PROVE  LET r == Start(fallback)
         IN  /\ r \in Runs /\ r.ok /\ ~r.strayed /\ r.conn = conn /\ r.app = app
             /\ NothingHeld => Clean(r) /\ Pressing(r) /\ ~r.app.buttons
             /\ BeliefIsTruth => Honest(r)
<1> DEFINE r == Start(fallback)
<1>1. fallback \in Surfaces \cup {None}
  BY DEF Fallbacks, MostCommitted, LiveSurfaces
<1>2. /\ r \in Runs /\ r.ok /\ ~r.strayed /\ r.conn = conn /\ r.app = app /\ r.held = <<>>
      /\ r.depressed = {} /\ r.fallback = fallback /\ r.doubt = doubt /\ r.stuck = stuck
  BY <1>1 DEF Start, Runs, TypeOK
<1> HIDE DEF r
<1>3. NothingHeld => Clean(r) /\ ~r.app.buttons
  BY <1>2 DEF NothingHeld, Clean, Named
<1>4. Clean(r) => Pressing(r)
  BY <1>2 DEF Clean, Pressing, Holding
<1>5. BeliefIsTruth => Honest(r)
  BY <1>2 DEF BeliefIsTruth, Honest
<1> QED BY <1>2, <1>3, <1>4, <1>5 DEF r

(* A run that kept what Keeps says is a result.                             *)
LEMMA KeptIsResult ==
  ASSUME TypeOK, NEW fallback \in Fallbacks, NEW r, Keeps(Start(fallback), r),
         NEW op \in Ops \ {"click"},
         NothingHeld => Clean(r)
  PROVE  Result(r, op, TargetSurface(r))
<1> DEFINE r0 == Start(fallback)
<1>1. /\ r0 \in Runs /\ ~r0.strayed /\ r0.conn = conn /\ r0.app = app
      /\ NothingHeld => ~r0.app.buttons
      /\ BeliefIsTruth => Honest(r0)
  BY StartDoes
<1> HIDE DEF r0
<1>2. Keeps(r0, r)
  BY DEF r0
<1>3. r \in Runs /\ TargetSurface(r) \in Surfaces \cup {None}
  BY <1>2, TargetDoes DEF Keeps
<1>4. conn.focused_surface # None => TargetSurface(r) = conn.focused_surface
  BY <1>1, <1>2 DEF Keeps, TargetSurface
<1> QED BY <1>1, <1>2, <1>3, <1>4 DEF Keeps, Result

(* Releasing what is held, whether or not what came before went through.    *)
Freed(r) == LET freed == ReleaseNamedModifiers([r EXCEPT !.ok = TRUE])
            IN  [freed EXCEPT !.ok = @ /\ r.ok]

LEMMA FreedDoes ==
  ASSUME NEW r \in Runs, objects \subseteq AllObjects
  PROVE  Keeps(r, Freed(r)) /\ (Holding(r) => Clean(Freed(r)))
<1> DEFINE again == [r EXCEPT !.ok = TRUE]
           freed == ReleaseNamedModifiers(again)
           ok    == freed.ok /\ r.ok
           q     == Freed(r)
<1>1. /\ again \in Runs /\ again.ok /\ again.conn = r.conn /\ again.app = r.app /\ again.held = r.held
      /\ again.fallback = r.fallback /\ again.strayed = r.strayed
      /\ again.depressed = r.depressed /\ again.doubt = r.doubt /\ again.stuck = r.stuck
  BY DEF Runs
<1> HIDE DEF again
<1>2. Keeps(again, freed) /\ (Holding(again) => Clean(freed))
  BY <1>1, ReleaseDoes
<1>3. q = [freed EXCEPT !.ok = ok]
  BY Zenon DEF Freed, again
<1>4. ok \in BOOLEAN /\ (ok => r.ok) /\ freed \in Runs
  BY <1>2 DEF Keeps
<1> HIDE DEF freed, ok, q
<1>5. /\ q \in Runs /\ q.ok = ok /\ q.conn = freed.conn /\ q.app = freed.app
      /\ q.fallback = freed.fallback /\ q.strayed = freed.strayed
      /\ q.doubt = freed.doubt /\ q.stuck = freed.stuck
  BY <1>3, <1>4 DEF Runs
<1>6. Holding(r) => Holding(again)
  BY <1>1 DEF Holding, Ready, TargetSurface
<1>7. Honest(r) => Honest(again)
  BY <1>1 DEF Honest
<1>8. Keeps(r, q)
  BY <1>1, <1>2, <1>4, <1>5, <1>7 DEF Keeps, Honest
<1> QED BY <1>2, <1>5, <1>6, <1>8 DEF Clean, q

LEMMA ListsAreSequences == ModifierLists \subseteq Seq(Modifiers) /\ Words \subseteq Seq(CharKinds)
<1>1. 0 .. MaxLength \subseteq Nat
  OBVIOUS
<1>2. \A n \in Nat : [1 .. n -> Modifiers] \subseteq Seq(Modifiers) /\ [1 .. n -> CharKinds] \subseteq Seq(CharKinds)
  OBVIOUS
<1> QED BY <1>1, <1>2 DEF ModifierLists, Words, CharKinds

LEMMA KeyResult ==
  ASSUME TypeOK, NEW down \in BOOLEAN, InjectKeyRaw(down)
  PROVE  \E r, op, target : Result(r, op, target) /\ Finish(r, op, target)
<1> PICK fallback \in Fallbacks :
      Finish(KeyRaw(Start(fallback), Key, down), "key", TargetSurface(Start(fallback)))
  BY DEF InjectKeyRaw
<1> DEFINE r0 == Start(fallback)
           r  == KeyRaw(r0, Key, down)
<1>1. /\ r0 \in Runs /\ (NothingHeld => Clean(r0)) /\ objects \subseteq AllObjects
  BY StartDoes DEF TypeOK
<1>2. Typed(r0, r, Key, down)
  BY <1>1, KeyRawDoes
<1>3. Keeps(r0, r) /\ TargetSurface(r) = TargetSurface(r0)
  BY <1>2 DEF Typed, Struck, Keeps, TargetSurface
<1>4. NothingHeld => Clean(r)
  BY <1>1, <1>2, KeyAssumption DEF Typed, Struck, Clean, Named
<1>5. Result(r, "key", TargetSurface(r))
  <2> HIDE DEF r
  <2> QED BY <1>3, <1>4, KeptIsResult DEF Ops
<1> QED BY <1>3, <1>5

LEMMA ComboResult ==
  ASSUME TypeOK, NEW names \in ModifierLists, NEW known \in BOOLEAN, NEW readable \in BOOLEAN,
         InjectKeyCombo(names, known, readable)
  PROVE  \E r, op, target : Result(r, op, target) /\ Finish(r, op, target)
<1> DEFINE held(fb)  == PressNamedModifiers(Start(fb), names)
           typed(fb) == IF known THEN Tap(held(fb)) ELSE Fail(held(fb))
           ended(fb) == IF ~held(fb).ok THEN held(fb)
                        ELSE IF ~readable THEN Abandon(held(fb))
                        ELSE Freed(typed(fb))
<1>1. PICK fallback \in Fallbacks : Finish(ended(fallback), "combo", TargetSurface(held(fallback)))
  BY Zenon DEF InjectKeyCombo, Tap, Freed
<1> DEFINE r0 == Start(fallback)
           h  == held(fallback)
           t  == typed(fallback)
           r  == ended(fallback)
<1>2. /\ r0 \in Runs /\ (NothingHeld => Clean(r0) /\ Pressing(r0)) /\ objects \subseteq AllObjects
  BY StartDoes DEF TypeOK
<1>3. Keeps(r0, h) /\ (Pressing(r0) => Pressing(h)) /\ h \in Runs
  BY <1>2, PressDoes, ListsAreSequences DEF Keeps
<1>4. /\ t = IF known THEN Tap(h) ELSE Fail(h)
      /\ r = IF ~h.ok THEN h ELSE IF ~readable THEN Abandon(h) ELSE Freed(t)
      /\ Finish(r, "combo", TargetSurface(h))
  BY <1>1, Zenon
<1> HIDE DEF held, typed, ended
<1>5. Keeps(r0, r) /\ (NothingHeld => Clean(r))
  <2>1. CASE ~h.ok
    BY <1>2, <1>3, <1>4, <2>1 DEF Pressing
  <2>2. CASE h.ok /\ ~readable
    <3>1. r = Abandon(h)
      BY <1>4, <2>2
    <3>2. Keeps(h, r) /\ (Holding(h) => Clean(r))
      BY <1>3, <3>1, AbandonDoes
    <3> QED BY <1>2, <1>3, <2>2, <3>2, KeepsTwice DEF Pressing
  <2>3. CASE h.ok /\ readable
    <3>1. Keeps(h, t) /\ (Holding(h) => Holding(t))
      <4>1. CASE known
        BY <1>2, <1>3, <1>4, <2>3, <4>1, TapDoes DEF Holding
      <4>2. CASE ~known
        <5>1. /\ Keeps(h, t) /\ t.conn = h.conn /\ t.app = h.app /\ t.held = h.held
              /\ t.depressed = h.depressed /\ t.stuck = h.stuck
          BY <1>3, <1>4, <4>2, FailDoes
        <5> QED BY <5>1 DEF Keeps, Holding, Ready, TargetSurface
      <4> QED BY <4>1, <4>2
    <3>2. r = Freed(t) /\ t \in Runs
      BY <1>4, <2>3, <3>1 DEF Keeps
    <3>3. Keeps(t, r) /\ (Holding(t) => Clean(r))
      BY <1>2, <3>2, FreedDoes
    <3>4. Keeps(r0, r)
      BY <1>3, <3>1, <3>3, KeepsTwice
    <3> QED BY <1>2, <1>3, <2>3, <3>1, <3>3, <3>4 DEF Pressing
  <2> QED BY <2>1, <2>2, <2>3
<1>6. TargetSurface(r) = TargetSurface(h)
  BY <1>3, <1>5 DEF Keeps, TargetSurface
<1>7. Result(r, "combo", TargetSurface(r))
  BY <1>5, KeptIsResult DEF Ops
<1> QED BY <1>4, <1>6, <1>7

LEMMA PointerResult ==
  ASSUME TypeOK, NEW names \in ModifierLists, NEW op \in {"click", "drag", "scroll"}, InjectPointer(op, names)
  PROVE  \E r, o, target : Result(r, o, target) /\ Finish(r, o, target)
<1> DEFINE held(fb)    == PressNamedModifiers(Start(fb), names)
           s(fb)       == TargetSurface(held(fb))
           ready(fb)   == held(fb).conn.pointer_obj # None /\ s(fb) # None
           clicked(fb) == IF ready(fb) THEN PointerRun(held(fb), s(fb), op) ELSE Fail(held(fb))
<1>1. PICK fallback \in Fallbacks :
        IF ~held(fallback).ok THEN Finish(held(fallback), op, s(fallback))
        ELSE Finish(Freed(clicked(fallback)), op, s(fallback))
  BY Zenon DEF InjectPointer, Freed
<1> DEFINE r0 == Start(fallback)
           h  == held(fallback)
           c  == clicked(fallback)
           to == TargetSurface(h)
<1>2. /\ r0 \in Runs /\ (NothingHeld => Clean(r0) /\ Pressing(r0) /\ ~r0.app.buttons)
      /\ objects \subseteq AllObjects /\ ~r0.strayed /\ r0.conn = conn /\ (BeliefIsTruth => Honest(r0))
  BY StartDoes DEF TypeOK
<1>3. Keeps(r0, h) /\ (Pressing(r0) => Pressing(h)) /\ h \in Runs
  BY <1>2, PressDoes, ListsAreSequences DEF Keeps
<1>4. to \in Surfaces \cup {None}
  BY <1>3, TargetDoes
<1>5. conn.focused_surface # None => to = conn.focused_surface
  BY <1>2, <1>3 DEF Keeps, TargetSurface
<1>6. CASE ~h.ok
  <2>1. Finish(h, op, to)
    BY <1>1, <1>6
  <2> HIDE DEF held, s, ready, clicked, r0
  <2>2. NothingHeld => Clean(h) /\ ~h.app.buttons
    BY <1>2, <1>3, <1>6 DEF Pressing, Keeps
  <2>3. Result(h, op, to)
    BY <1>2, <1>3, <1>4, <1>5, <1>6, <2>2 DEF Result, Keeps, Ops
  <2> QED BY <2>1, <2>3
<1>7. CASE h.ok
  <2> DEFINE r == Freed(c)
  <2>1. Finish(r, op, to)
    BY <1>1, <1>7
  <2>2. c = IF h.conn.pointer_obj # None /\ to # None THEN PointerRun(h, to, op) ELSE Fail(h)
    BY Zenon
  <2> HIDE DEF held, s, ready, clicked, r0
  <2>3. /\ c \in Runs /\ (Holding(h) => Holding(c))
        /\ c.conn.pointer_obj = h.conn.pointer_obj /\ c.conn.keyboard_obj = h.conn.keyboard_obj
        /\ c.conn.focused_surface \in {h.conn.focused_surface, to}
        /\ ~h.app.buttons => ~c.app.buttons
        /\ Honest(h) => Honest(c) /\ (c.strayed => h.strayed)
        /\ op = "click" /\ c.ok => to # None /\ c.conn.focused_surface = to
    <3>1. CASE h.conn.pointer_obj # None /\ to # None
      <4>1. to \in Surfaces /\ h.conn.pointer_obj \in Pointers
        BY <1>3, <1>4, <3>1 DEF Runs, Conns
      <4>2. /\ Points(h, c, to)
            /\ ~h.app.buttons => ~c.app.buttons
            /\ op = "click" /\ c.ok => c.conn.focused_surface = to
        BY <1>3, <2>2, <3>1, <4>1, PointerRunDoes, NoneAssumption
      <4>3. Ready(h) => Ready(c)
        BY <4>2 DEF Points, Ready, TargetSurface
      <4>4. Holding(h) => Holding(c)
        BY <4>2, <4>3 DEF Points, Holding
      <4> QED BY <3>1, <4>1, <4>2, <4>4 DEF Points
    <3>2. CASE ~(h.conn.pointer_obj # None /\ to # None)
      <4>1. /\ Keeps(h, c) /\ ~c.ok /\ c.conn = h.conn /\ c.app = h.app /\ c.held = h.held
            /\ c.depressed = h.depressed /\ c.stuck = h.stuck
        BY <1>3, <2>2, <3>2, FailDoes
      <4>2. Holding(h) => Holding(c)
        BY <4>1 DEF Keeps, Holding, Ready, TargetSurface
      <4> QED BY <4>1, <4>2 DEF Keeps
    <3> QED BY <3>1, <3>2
  <2> HIDE DEF c
  <2>4. Keeps(c, r) /\ (Holding(c) => Clean(r))
    BY <1>2, <2>3, FreedDoes
  <2> HIDE DEF r
  <2>5. NothingHeld => Clean(r) /\ ~r.app.buttons
    BY <1>2, <1>3, <1>7, <2>3, <2>4 DEF Pressing, Keeps
  <2>6. BeliefIsTruth => Honest(r) /\ ~r.strayed
    BY <1>2, <1>3, <2>3, <2>4 DEF Keeps
  <2>7. conn.focused_surface # None => r.conn.focused_surface = conn.focused_surface
    BY <1>2, <1>3, <1>5, <2>3, <2>4 DEF Keeps
  <2>8. r.conn.pointer_obj = conn.pointer_obj /\ r.conn.keyboard_obj = conn.keyboard_obj
    BY <1>2, <1>3, <2>3, <2>4 DEF Keeps
  <2>9. op = "click" /\ r.ok => to # None /\ r.conn.focused_surface = to
    BY <2>3, <2>4 DEF Keeps
  <2>10. Result(r, op, to)
    BY <1>4, <1>5, <2>4, <2>5, <2>6, <2>7, <2>8, <2>9 DEF Result, Ops, Keeps
  <2> QED BY <2>1, <2>10
<1> QED BY <1>6, <1>7

LEMMA CommitTextDoes ==
  ASSUME NEW r \in Runs
  PROVE  LET q == CommitText(r)
         IN  /\ q \in Runs /\ q.conn = r.conn /\ q.app = r.app /\ q.fallback = r.fallback
             /\ q.doubt = r.doubt /\ q.stuck = r.stuck
             /\ q.strayed => r.strayed \/ SerialLost
<1> DEFINE sent   == Send(r, {text.obj}, r.app)
           done   == Send(sent, {text.obj}, sent.app)
           astray == done.strayed \/ SerialLost
           q      == CommitText(r)
<1>1. Sent(r, sent, {text.obj}, r.app) /\ r.app \in Apps
  BY SendDoes DEF Runs
<1>2. sent \in Runs /\ sent.app = r.app
  BY <1>1 DEF Sent
<1> HIDE DEF sent
<1>3. Sent(sent, done, {text.obj}, r.app)
  BY <1>1, <1>2, SendDoes
<1>4. q = IF done.ok THEN [done EXCEPT !.strayed = astray] ELSE done
  BY Zenon DEF CommitText, sent, SerialLost
<1>5. done \in Runs /\ astray \in BOOLEAN
  BY <1>3 DEF Sent, Runs, SerialLost
<1>6. astray <=> r.strayed \/ SerialLost
  BY <1>1, <1>3 DEF Sent
<1>7. done.strayed = r.strayed
  BY <1>1, <1>3 DEF Sent
<1> HIDE DEF done, astray, q
<1>8. /\ q \in Runs /\ q.conn = done.conn /\ q.app = done.app /\ q.fallback = done.fallback
      /\ q.doubt = done.doubt /\ q.stuck = done.stuck
      /\ q.strayed = IF done.ok THEN astray ELSE done.strayed
  <2>1. CASE done.ok
    BY <1>4, <1>5, <2>1 DEF Runs
  <2>2. CASE ~done.ok
    BY <1>4, <1>5, <2>2
  <2> QED BY <2>1, <2>2
<1> QED BY <1>1, <1>2, <1>3, <1>6, <1>7, <1>8 DEF Sent, q

LEMMA TextResult ==
  ASSUME TypeOK, NEW word \in Words, InjectText(word)
  PROVE  \E r, op, target : Result(r, op, target) /\ Finish(r, op, target)
<1> DEFINE chars(fb) == TypeChars(Start(fb), word)
<1>1. PICK fallback \in Fallbacks :
        IF text.enabled /\ text.obj # None THEN Finish(CommitText(Start(fallback)), "text", None)
        ELSE Finish(chars(fallback), "text", TargetSurface(Start(fallback)))
  BY Zenon DEF InjectText
<1> DEFINE r0 == Start(fallback)
<1>2. /\ r0 \in Runs /\ (NothingHeld => Clean(r0) /\ ~r0.app.buttons) /\ objects \subseteq AllObjects
      /\ ~r0.strayed /\ r0.conn = conn /\ (BeliefIsTruth => Honest(r0))
  BY StartDoes DEF TypeOK
<1>3. CASE text.enabled /\ text.obj # None
  <2> DEFINE r == CommitText(r0)
  <2>1. Finish(r, "text", None)
    BY <1>1, <1>3
  <2> HIDE DEF r0
  <2>2. /\ r \in Runs /\ r.conn = r0.conn /\ r.app = r0.app /\ r.fallback = r0.fallback
        /\ r.doubt = r0.doubt /\ r.stuck = r0.stuck
        /\ r.strayed => r0.strayed \/ SerialLost
    BY <1>2, CommitTextDoes
  <2> HIDE DEF r
  <2>3. BeliefIsTruth => Honest(r)
    BY <1>2, <2>2 DEF Honest
  <2>4. Result(r, "text", None)
    BY <1>2, <1>3, <2>2, <2>3 DEF Result, Ops, Clean
  <2> QED BY <2>1, <2>4
<1>4. CASE ~(text.enabled /\ text.obj # None)
  <2> DEFINE r == chars(fallback)
  <2>1. Finish(r, "text", TargetSurface(r0))
    BY <1>1, <1>4
  <2>2. Keeps(r0, r) /\ (Clean(r0) => Clean(r))
    BY <1>2, TypeDoes, ListsAreSequences
  <2> HIDE DEF chars
  <2>3. TargetSurface(r) = TargetSurface(r0)
    BY <2>2 DEF Keeps, TargetSurface
  <2>4. Result(r, "text", TargetSurface(r))
    BY <1>2, <2>2, KeptIsResult DEF Ops
  <2> QED BY <2>1, <2>3, <2>4
<1> QED BY <1>3, <1>4

LEMMA InjectResult == TypeOK /\ Inject => \E r, op, target : Result(r, op, target) /\ Finish(r, op, target)
<1> SUFFICES ASSUME TypeOK, Inject PROVE \E r, op, target : Result(r, op, target) /\ Finish(r, op, target)
  OBVIOUS
<1>1. ASSUME NEW op \in {"scroll", "drag"}, InjectPointer(op, <<>>)
      PROVE  \E r, o, target : Result(r, o, target) /\ Finish(r, o, target)
  <2>1. <<>> \in ModifierLists
    <3>1. 0 \in 0 .. MaxLength /\ <<>> \in [1 .. 0 -> Modifiers]
      BY BoundAssumption
    <3> QED BY <3>1 DEF ModifierLists
  <2> QED BY <1>1, <2>1, PointerResult
<1>2. ASSUME NEW names \in ModifierLists, InjectPointer("click", names)
      PROVE  \E r, o, target : Result(r, o, target) /\ Finish(r, o, target)
  BY <1>2, PointerResult
<1>3. ASSUME NEW down \in BOOLEAN, InjectKeyRaw(down)
      PROVE  \E r, o, target : Result(r, o, target) /\ Finish(r, o, target)
  BY <1>3, KeyResult
<1>4. ASSUME NEW names \in ModifierLists, NEW known \in BOOLEAN, NEW readable \in BOOLEAN,
             InjectKeyCombo(names, known, readable)
      PROVE  \E r, o, target : Result(r, o, target) /\ Finish(r, o, target)
  BY <1>4, ComboResult
<1>5. ASSUME NEW word \in Words, InjectText(word)
      PROVE  \E r, o, target : Result(r, o, target) /\ Finish(r, o, target)
  BY <1>5, TextResult
<1> QED BY <1>1, <1>2, <1>3, <1>4, <1>5 DEF Inject

-----------------------------------------------------------------------------
(* The specification: every state has its type and holds nothing.           *)

LEMMA WithoutKeeps ==
  ASSUME NEW I, NEW focus \in [I -> Surfaces \cup {None}], NEW o
  PROVE  Without(focus, o) \in [I -> Surfaces \cup {None}]
  BY DEF Without

LEMMA InitTyped == Init => TypeOK
  BY BoundAssumption DEF Init, TypeOK, Conns, Apps, AllObjects, NoInjection

LEMMA StepTyped == TypeOK /\ [Next]_vars => TypeOK'
<1> SUFFICES ASSUME TypeOK, [Next]_vars PROVE TypeOK'
  OBVIOUS
<1> USE DEF TypeOK, history
<1>1. ASSUME NEW o \in AllObjects, Create(o) PROVE TypeOK'
  <2>1. conn' \in Conns
    BY <1>1 DEF Create, Conns
  <2> QED BY <1>1, <2>1 DEF Create
<1>2. ASSUME NEW o \in AllObjects, Destroy(o) PROVE TypeOK'
  <2>1. app' \in Apps /\ comp' \in [ptr : [Pointers -> Surfaces \cup {None}], kbd : [Keyboards -> Surfaces \cup {None}]]
    <3>1. /\ app.ptr \in [Pointers -> Surfaces \cup {None}] /\ app.kbd \in [Keyboards -> Surfaces \cup {None}]
          /\ comp.ptr \in [Pointers -> Surfaces \cup {None}] /\ comp.kbd \in [Keyboards -> Surfaces \cup {None}]
      BY DEF Apps
    <3> DEFINE ptr(v) == Without(v.ptr, o)
               kbd(v) == Without(v.kbd, o)
    <3>2. /\ app' = [app EXCEPT !.ptr = ptr(app), !.kbd = kbd(app)]
          /\ comp' = [ptr |-> ptr(comp), kbd |-> kbd(comp)]
      BY <1>2, Zenon DEF Destroy
    <3>3. /\ ptr(app) \in [Pointers -> Surfaces \cup {None}] /\ kbd(app) \in [Keyboards -> Surfaces \cup {None}]
          /\ ptr(comp) \in [Pointers -> Surfaces \cup {None}] /\ kbd(comp) \in [Keyboards -> Surfaces \cup {None}]
      BY <3>1, WithoutKeeps
    <3> HIDE DEF ptr, kbd
    <3>4. app \in Apps
      OBVIOUS
    <3> QED BY <3>2, <3>3, <3>4 DEF Apps
  <2> QED BY <1>2, <2>1 DEF Destroy, typing
<1>3. ASSUME NEW s \in Surfaces, Commit(s) PROVE TypeOK'
  BY <1>3, BoundAssumption DEF Commit, typing, history
<1>4. ASSUME NEW t \in TextInputs, NEW on \in BOOLEAN, SwitchTextInput(t, on) PROVE TypeOK'
  BY <1>4 DEF SwitchTextInput, history
<1>5. ASSUME NEW t \in TextInputs, CommitTextInput(t) PROVE TypeOK'
  <2>1. text' \in [obj : TextInputs \cup {None}, pending : BOOLEAN, enabled : BOOLEAN, serial : Nat]
    <3> DEFINE on == text.pending
               n  == text.serial
    <3>1. /\ text \in [obj : TextInputs \cup {None}, pending : BOOLEAN, enabled : BOOLEAN, serial : Nat]
          /\ on \in BOOLEAN /\ n \in Nat
      OBVIOUS
    <3> DEFINE counted == [text EXCEPT !.serial = n + 1]
    <3>2. text' = [counted EXCEPT !.enabled = on]
      BY <1>5 DEF CommitTextInput
    <3> HIDE DEF on, n, TypeOK
    <3>3. counted \in [obj : TextInputs \cup {None}, pending : BOOLEAN, enabled : BOOLEAN, serial : Nat]
      BY <3>1
    <3> HIDE DEF counted
    <3> QED BY <3>1, <3>2, <3>3
  <2>2. asked' \in [TextInputs -> 0 .. MaxCommits]
    BY <1>5, BoundAssumption DEF CommitTextInput
  <2> QED BY <1>5, <2>1, <2>2 DEF CommitTextInput
<1>6. ASSUME NEW p \in Pointers, ForwardPointerLeave(p) PROVE TypeOK'
  <2>1. app' \in Apps
    BY <1>6 DEF ForwardPointerLeave, Apps
  <2> QED BY <1>6, <2>1 DEF ForwardPointerLeave, typing
<1>7. ASSUME NEW p \in Pointers, NEW s \in Surfaces, ForwardPointerEnter(p, s) PROVE TypeOK'
  <2>1. app' \in Apps
    BY <1>7 DEF ForwardPointerEnter, Apps
  <2> QED BY <1>7, <2>1 DEF ForwardPointerEnter, typing
<1>8. ASSUME NEW k \in Keyboards, ForwardKeyboardLeave(k) PROVE TypeOK'
  <2>1. app' \in Apps
    BY <1>8 DEF ForwardKeyboardLeave, Apps
  <2>2. conn' \in Conns
    BY <1>8 DEF ForwardKeyboardLeave, Conns
  <2> QED BY <1>8, <2>1, <2>2 DEF ForwardKeyboardLeave, typing, NoInjection
<1>9. ASSUME NEW k \in Keyboards, NEW s \in Surfaces, ForwardKeyboardEnter(k, s) PROVE TypeOK'
  <2>1. app' \in Apps /\ conn' \in Conns
    BY <1>9 DEF ForwardKeyboardEnter, Apps, Conns
  <2> QED BY <1>9, <2>1 DEF ForwardKeyboardEnter, typing, NoInjection
<1>10. CASE Inject
  <2>1. PICK r, op, target : Result(r, op, target) /\ Finish(r, op, target)
    BY <1>10, InjectResult
  <2>2. r \in Runs /\ op \in Ops /\ target \in Surfaces \cup {None}
    BY <2>1 DEF Result
  <2> QED BY <2>1, <2>2 DEF Finish, Runs, Ops, typing
<1>11. CASE UNCHANGED vars
  BY <1>11 DEF vars
<1> QED BY <1>1, <1>2, <1>3, <1>4, <1>5, <1>6, <1>7, <1>8, <1>9, <1>10, <1>11 DEF Next

(* Every injection, whatever it finds and wherever it breaks off, leaves    *)
(* the connection's fields, the app's view and its outcome well formed.     *)
THEOREM TypeCorrect == Spec => []TypeOK
<1>1. Init => TypeOK
  BY InitTyped
<1>2. TypeOK /\ [Next]_vars => TypeOK'
  BY StepTyped
<1> QED BY <1>1, <1>2, PTL DEF Spec

(* No injection leaves a button, a modifier key or a modifier mask down,    *)
(* however many modifiers it holds, however long the text, and wherever a   *)
(* send fails (press_named_modifiers, release_named_modifiers, inject_key_  *)
(* combo, inject_click, inject_drag, inject_text), other than modifiers     *)
(* that an injection held when it returned early.                           *)
THEOREM NothingStaysHeld == Spec => []NothingHeld
<1>1. Init => NothingHeld
  BY DEF Init, NothingHeld
<1>2. TypeOK /\ NothingHeld /\ [Next]_vars => NothingHeld'
  <2> SUFFICES ASSUME TypeOK, NothingHeld, [Next]_vars PROVE NothingHeld'
    OBVIOUS
  <2>1. ASSUME NEW o \in AllObjects, Create(o) PROVE NothingHeld'
    BY <2>1 DEF Create, NothingHeld
  <2>2. ASSUME NEW o \in AllObjects, Destroy(o) PROVE NothingHeld'
    <3>1. app' = [app EXCEPT !.ptr = Without(app.ptr, o), !.kbd = Without(app.kbd, o)]
      BY <2>2, Zenon DEF Destroy
    <3> QED BY <2>2, <3>1 DEF Destroy, NothingHeld, TypeOK, Apps
  <2>3. ASSUME NEW s \in Surfaces, Commit(s) PROVE NothingHeld'
    BY <2>3 DEF Commit, history, NothingHeld
  <2>4. ASSUME NEW t \in TextInputs, NEW on \in BOOLEAN, SwitchTextInput(t, on) PROVE NothingHeld'
    BY <2>4 DEF SwitchTextInput, history, NothingHeld
  <2>5. ASSUME NEW t \in TextInputs, CommitTextInput(t) PROVE NothingHeld'
    BY <2>5 DEF CommitTextInput, history, NothingHeld
  <2>6. ASSUME NEW p \in Pointers, ForwardPointerLeave(p) PROVE NothingHeld'
    BY <2>6 DEF ForwardPointerLeave, NothingHeld, TypeOK, Apps
  <2>7. ASSUME NEW p \in Pointers, NEW s \in Surfaces, ForwardPointerEnter(p, s) PROVE NothingHeld'
    BY <2>7 DEF ForwardPointerEnter, NothingHeld, TypeOK, Apps
  <2>8. ASSUME NEW k \in Keyboards, ForwardKeyboardLeave(k) PROVE NothingHeld'
    BY <2>8 DEF ForwardKeyboardLeave, NothingHeld, TypeOK, Apps
  <2>9. ASSUME NEW k \in Keyboards, NEW s \in Surfaces, ForwardKeyboardEnter(k, s) PROVE NothingHeld'
    BY <2>9 DEF ForwardKeyboardEnter, NothingHeld, TypeOK, Apps
  <2>10. CASE Inject
    <3>1. PICK r, op, target : Result(r, op, target) /\ Finish(r, op, target)
      BY <2>10, InjectResult
    <3>2. Clean(r) /\ ~r.app.buttons /\ app' = r.app /\ stuck' = r.stuck
      BY <3>1 DEF Result, Finish
    <3> QED BY <3>2 DEF Clean, Named, NothingHeld
  <2>11. CASE UNCHANGED vars
    BY <2>11 DEF vars, NothingHeld
  <2> QED BY <2>1, <2>2, <2>3, <2>4, <2>5, <2>6, <2>7, <2>8, <2>9, <2>10, <2>11 DEF Next
<1> QED BY <1>1, <1>2, TypeCorrect, PTL DEF Spec

-----------------------------------------------------------------------------
(* Where the agent's keys go.                                               *)

(* A click that went through has left its surface focused.                  *)
ClickFocused ==
  last.op = "click" /\ last.ok => last.target # None /\ conn.focused_surface = last.target

(* Nothing but a keyboard event of the user's, which forgets the last       *)
(* injection, and an injection changes the focused surface.                 *)
LEMMA OthersKeepFocus ==
  ASSUME TypeOK, [Next]_vars, ~Inject
  PROVE  \/ last' = last /\ conn'.focused_surface = conn.focused_surface
         \/ last' = NoInjection
<1>1. ASSUME NEW o \in AllObjects, Create(o) PROVE last' = last /\ conn'.focused_surface = conn.focused_surface
  BY <1>1 DEF Create, TypeOK, Conns
<1>2. ASSUME NEW o \in AllObjects, Destroy(o) PROVE last' = last /\ conn' = conn
  BY <1>2 DEF Destroy
<1>3. ASSUME NEW s \in Surfaces, Commit(s) PROVE last' = last /\ conn' = conn
  BY <1>3 DEF Commit
<1>4. ASSUME NEW t \in TextInputs, NEW on \in BOOLEAN, SwitchTextInput(t, on) PROVE last' = last /\ conn' = conn
  BY <1>4 DEF SwitchTextInput, history
<1>5. ASSUME NEW t \in TextInputs, CommitTextInput(t) PROVE last' = last /\ conn' = conn
  BY <1>5 DEF CommitTextInput
<1>6. ASSUME NEW p \in Pointers, ForwardPointerLeave(p) PROVE last' = last /\ conn' = conn
  BY <1>6 DEF ForwardPointerLeave
<1>7. ASSUME NEW p \in Pointers, NEW s \in Surfaces, ForwardPointerEnter(p, s) PROVE last' = last /\ conn' = conn
  BY <1>7 DEF ForwardPointerEnter
<1>8. ASSUME NEW k \in Keyboards, ForwardKeyboardLeave(k) PROVE last' = NoInjection
  BY <1>8 DEF ForwardKeyboardLeave
<1>9. ASSUME NEW k \in Keyboards, NEW s \in Surfaces, ForwardKeyboardEnter(k, s) PROVE last' = NoInjection
  BY <1>9 DEF ForwardKeyboardEnter
<1>10. CASE UNCHANGED vars
  BY <1>10 DEF vars
<1> QED BY <1>1, <1>2, <1>3, <1>4, <1>5, <1>6, <1>7, <1>8, <1>9, <1>10 DEF Next

LEMMA FocusStep == TypeOK /\ ClickFocused /\ [Next]_vars => ClickFocused'
<1> SUFFICES ASSUME TypeOK, ClickFocused, [Next]_vars PROVE ClickFocused'
  OBVIOUS
<1>1. CASE Inject
  <2>1. PICK r, op, target : Result(r, op, target) /\ Finish(r, op, target)
    BY <1>1, InjectResult
  <2>2. /\ conn' = r.conn /\ last'.op = op /\ last'.ok = r.ok /\ last'.target = target
        /\ op = "click" /\ r.ok => target # None /\ r.conn.focused_surface = target
    BY <2>1 DEF Result, Finish
  <2> QED BY <2>2 DEF ClickFocused
<1>2. CASE ~Inject
  BY <1>2, OthersKeepFocus DEF ClickFocused, NoInjection
<1> QED BY <1>1, <1>2

(* After a click that went through, the keys and the text of the next       *)
(* injection are meant for the clicked surface, whatever was created,       *)
(* committed or destroyed in between (inject_click, target_surface).        *)
THEOREM KeysGoWhereClicked == Spec => KeysFollowClick
<1>1. Init => ClickFocused
  BY DEF Init, ClickFocused, NoInjection
<1>2. TypeOK /\ ClickFocused /\ [Next]_vars => ClickFocused'
  BY FocusStep
<1> DEFINE Followed ==
      /\ last.op = "click" /\ last.ok /\ last'.op \in {"key", "combo", "text"}
      /\ last'.target # None
<1>3. TypeOK /\ ClickFocused /\ [Next]_vars => (Followed => last'.target = last.target)
  <2> SUFFICES ASSUME TypeOK, ClickFocused, [Next]_vars, Followed PROVE last'.target = last.target
    OBVIOUS
  <2>1. CASE Inject
    <3>1. PICK r, op, target : Result(r, op, target) /\ Finish(r, op, target)
      BY <2>1, InjectResult
    <3>2. last'.target = target /\ (conn.focused_surface # None => target \in {conn.focused_surface, None})
      BY <3>1 DEF Result, Finish
    <3> QED BY <3>2 DEF ClickFocused
  <2>2. CASE ~Inject
    BY <2>2, OthersKeepFocus DEF NoInjection
  <2> QED BY <2>1, <2>2
<1>4. TypeOK /\ ClickFocused /\ [Next]_vars => [Followed => last'.target = last.target]_vars
  BY <1>3
<1> QED BY <1>1, <1>2, <1>4, TypeCorrect, PTL DEF Spec, KeysFollowClick

-----------------------------------------------------------------------------
(* What Conn believes.                                                      *)

BInv == BeliefIsTruth /\ SuccessLanded

LEMMA InitBelieves == Init => BInv
  BY DEF Init, BInv, BeliefIsTruth, SuccessLanded, NoInjection

LEMMA StepBelieves == TypeOK /\ BInv /\ [Next]_vars => BInv'
<1> SUFFICES ASSUME TypeOK, BInv, [Next]_vars PROVE BInv'
  OBVIOUS
<1>0. /\ conn \in Conns /\ app \in Apps /\ doubt \in [ptr : BOOLEAN, kbd : BOOLEAN]
      /\ conn.pointer_obj \in Pointers \cup {None} /\ conn.keyboard_obj \in Keyboards \cup {None}
      /\ app.ptr \in [Pointers -> Surfaces \cup {None}] /\ app.kbd \in [Keyboards -> Surfaces \cup {None}]
      /\ objects \subseteq AllObjects
  BY DEF TypeOK, Apps, Conns
<1>1. ASSUME NEW o \in AllObjects, Create(o) PROVE BInv'
  <2>1. /\ conn' = [conn EXCEPT !.pointer_obj  = IF o \in Pointers THEN o ELSE conn.pointer_obj,
                                !.keyboard_obj = IF o \in Keyboards THEN o ELSE conn.keyboard_obj]
        /\ objects' = objects \cup {o} /\ app' = app /\ last' = last
        /\ doubt' = [ptr |-> doubt.ptr \/ (o \in Pointers /\ conn.pointer_focus # None),
                     kbd |-> doubt.kbd \/ (o \in Keyboards /\ conn.keyboard_focus # None)]
    BY <1>1 DEF Create
  <2>2. /\ conn'.pointer_obj = IF o \in Pointers THEN o ELSE conn.pointer_obj
        /\ conn'.keyboard_obj = IF o \in Keyboards THEN o ELSE conn.keyboard_obj
        /\ conn'.pointer_focus = conn.pointer_focus /\ conn'.keyboard_focus = conn.keyboard_focus
    BY <1>0, <2>1 DEF Conns
  <2>3. /\ ~doubt'.ptr => ~doubt.ptr /\ (o \in Pointers => conn.pointer_focus = None)
        /\ ~doubt'.kbd => ~doubt.kbd /\ (o \in Keyboards => conn.keyboard_focus = None)
    BY <2>1
  <2>4. /\ o \notin Pointers /\ conn.pointer_obj \in objects' /\ conn.pointer_obj \notin objects => o = None
        /\ o \notin Keyboards /\ conn.keyboard_obj \in objects' /\ conn.keyboard_obj \notin objects => o = None
    BY <1>0, <2>1
  <2> QED BY <2>1, <2>2, <2>3, <2>4, NoneAssumption DEF BInv, BeliefIsTruth, SuccessLanded, AllObjects
<1>2. ASSUME NEW o \in AllObjects, Destroy(o) PROVE BInv'
  <2>1. /\ o \in objects /\ objects' = objects \ {o} /\ conn' = conn /\ last' = last
        /\ app' = [app EXCEPT !.ptr = Without(app.ptr, o), !.kbd = Without(app.kbd, o)]
        /\ doubt' = [ptr |-> doubt.ptr \/ o = conn.pointer_focus, kbd |-> doubt.kbd \/ o = conn.keyboard_focus]
    BY <1>2, Zenon DEF Destroy
  <2>2. app'.ptr = Without(app.ptr, o) /\ app'.kbd = Without(app.kbd, o)
    BY <1>0, <2>1 DEF Apps
  <2>3. /\ \A p \in Pointers : p # o /\ app.ptr[p] # o => Without(app.ptr, o)[p] = app.ptr[p]
        /\ \A k \in Keyboards : k # o /\ app.kbd[k] # o => Without(app.kbd, o)[k] = app.kbd[k]
    BY <1>0 DEF Without
  <2>4. /\ ~doubt'.ptr => ~doubt.ptr /\ o # conn.pointer_focus
        /\ ~doubt'.kbd => ~doubt.kbd /\ o # conn.keyboard_focus
    BY <2>1
  <2>5. /\ conn.pointer_obj \in objects => conn.pointer_obj \in Pointers
        /\ conn.keyboard_obj \in objects => conn.keyboard_obj \in Keyboards
    BY <1>0, NoneAssumption DEF AllObjects
  <2> QED BY <2>1, <2>2, <2>3, <2>4, <2>5 DEF BInv, BeliefIsTruth, SuccessLanded
<1>3. ASSUME UNCHANGED <<objects, conn, app, last, doubt>> PROVE BInv'
  BY <1>3 DEF BInv, BeliefIsTruth, SuccessLanded
<1>4. ASSUME NEW p \in Pointers, objects' = objects, conn' = conn, last' = last,
             app'.kbd = app.kbd, \A q \in Pointers \ {p} : app'.ptr[q] = app.ptr[q],
             doubt'.kbd = doubt.kbd, ~doubt'.ptr => ~doubt.ptr /\ p # conn.pointer_obj
      PROVE  BInv'
  <2>1. conn.pointer_obj \in objects => conn.pointer_obj \in Pointers
    BY <1>0, NoneAssumption DEF AllObjects
  <2> QED BY <1>4, <2>1 DEF BInv, BeliefIsTruth, SuccessLanded
<1>5. ASSUME NEW p \in Pointers, ForwardPointerLeave(p) PROVE BInv'
  BY <1>0, <1>4, <1>5 DEF ForwardPointerLeave, Apps
<1>6. ASSUME NEW p \in Pointers, NEW s \in Surfaces, ForwardPointerEnter(p, s) PROVE BInv'
  BY <1>0, <1>4, <1>6 DEF ForwardPointerEnter, Apps
<1>7. ASSUME NEW k \in Keyboards, ForwardKeyboardLeave(k) PROVE BInv'
  <2>1. /\ objects' = objects /\ app'.ptr = app.ptr /\ last' = NoInjection
        /\ doubt' = [doubt EXCEPT !.kbd = conn.focused_surface # comp.kbd[k]]
        /\ conn' = IF conn.focused_surface = comp.kbd[k]
                     THEN [conn EXCEPT !.focused_surface = None, !.keyboard_focus = None] ELSE conn
    BY <1>0, <1>7 DEF ForwardKeyboardLeave, Apps
  <2>2. /\ conn'.pointer_obj = conn.pointer_obj /\ conn'.pointer_focus = conn.pointer_focus
        /\ doubt'.ptr = doubt.ptr /\ (~doubt'.kbd => conn'.keyboard_focus = None)
    BY <1>0, <2>1 DEF Conns
  <2> QED BY <2>1, <2>2 DEF BInv, BeliefIsTruth, SuccessLanded, NoInjection
<1>8. ASSUME NEW k \in Keyboards, NEW s \in Surfaces, ForwardKeyboardEnter(k, s) PROVE BInv'
  <2>1. /\ objects' = objects /\ app'.ptr = app.ptr /\ app'.kbd[k] = s /\ last' = NoInjection
        /\ doubt' = [doubt EXCEPT !.kbd = k # conn.keyboard_obj]
        /\ conn' = [conn EXCEPT !.focused_surface = s, !.keyboard_focus = s]
    BY <1>0, <1>8 DEF ForwardKeyboardEnter, Apps
  <2>2. /\ conn'.pointer_obj = conn.pointer_obj /\ conn'.pointer_focus = conn.pointer_focus
        /\ conn'.keyboard_obj = conn.keyboard_obj /\ conn'.keyboard_focus = s
        /\ doubt'.ptr = doubt.ptr /\ (~doubt'.kbd => k = conn.keyboard_obj)
    BY <1>0, <2>1 DEF Conns
  <2> QED BY <2>1, <2>2 DEF BInv, BeliefIsTruth, SuccessLanded, NoInjection
<1>9. CASE Inject
  <2>1. PICK r, op, target : Result(r, op, target) /\ Finish(r, op, target)
    BY <1>9, InjectResult
  <2>2. /\ conn' = r.conn /\ app' = r.app /\ objects' = objects /\ doubt' = r.doubt
        /\ last'.op = op /\ last'.ok = r.ok /\ last'.strayed = r.strayed
    BY <2>1 DEF Finish
  <2>3. Honest(r) /\ (r.strayed => op = "text")
    BY <2>1 DEF Result, BInv
  <2> QED BY <2>2, <2>3 DEF Honest, BInv, BeliefIsTruth, SuccessLanded
<1>10. ASSUME NEW s \in Surfaces, Commit(s) PROVE BInv'
  BY <1>3, <1>10 DEF Commit, history
<1>11. ASSUME NEW t \in TextInputs, NEW on \in BOOLEAN, SwitchTextInput(t, on) PROVE BInv'
  BY <1>3, <1>11 DEF SwitchTextInput, history
<1>12. ASSUME NEW t \in TextInputs, CommitTextInput(t) PROVE BInv'
  BY <1>3, <1>12 DEF CommitTextInput, history
<1>13. CASE UNCHANGED vars
  BY <1>3, <1>13 DEF vars
<1> QED BY <1>1, <1>2, <1>5, <1>6, <1>7, <1>8, <1>9, <1>10, <1>11, <1>12, <1>13 DEF Next

LEMMA BelievesAlways == Spec => []BInv
<1>1. Init => BInv
  BY InitBelieves
<1>2. TypeOK /\ BInv /\ [Next]_vars => BInv'
  BY StepBelieves
<1> QED BY <1>1, <1>2, TypeCorrect, PTL DEF Spec

(* pointer_focus and keyboard_focus are where the app was told its pointer  *)
(* and keyboard are, whichever order the user's events, injections that     *)
(* fail half way and new or destroyed objects come in, unless one of the    *)
(* five events BeliefIsTruth names has come since the last enter that was   *)
(* sent (ensure_pointer_focus, ensure_keyboard_focus, the wl_keyboard arms  *)
(* of track_event).                                                         *)
THEOREM BeliefsAreTrue == Spec => []BeliefIsTruth
<1>1. BInv => BeliefIsTruth
  BY DEF BInv
<1> QED BY <1>1, BelievesAlways, PTL

(* A click, a drag or a key combination that reports success has pressed    *)
(* every button and key on a surface the app knew its pointer or keyboard   *)
(* to be on, for devices that were not in doubt in that sense.              *)
THEOREM SuccessfulInputLands == Spec => []SuccessLanded
<1>1. BInv => SuccessLanded
  BY DEF BInv
<1> QED BY <1>1, BelievesAlways, PTL

(* While the app has committed one text input only, Conn's serial is the    *)
(* number of its commits.                                                   *)
Counted ==
  \A t \in TextInputs : (\A u \in TextInputs \ {t} : asked[u] = 0) => text.serial = asked[t]

TInv == Counted /\ TextLanded

LEMMA CountedStep ==
  ASSUME TypeOK, Counted, NEW t \in TextInputs, CommitTextInput(t)
  PROVE  Counted'
<1>1. /\ asked' = [asked EXCEPT ![t] = asked[t] + 1] /\ text'.serial = text.serial + 1
      /\ asked \in [TextInputs -> 0 .. MaxCommits] /\ text.serial \in Nat
  BY DEF CommitTextInput, TypeOK
<1>2. SUFFICES ASSUME NEW v \in TextInputs, \A u \in TextInputs \ {v} : asked'[u] = 0
               PROVE  text'.serial = asked'[v]
  BY DEF Counted
<1>3. asked[t] \in Nat /\ asked'[t] = asked[t] + 1 /\ \A u \in TextInputs \ {t} : asked'[u] = asked[u]
  BY <1>1, BoundAssumption
<1>4. v = t
  BY <1>2, <1>3
<1>5. text.serial = asked[t]
  BY <1>2, <1>3, <1>4 DEF Counted
<1> QED BY <1>1, <1>3, <1>4, <1>5

LEMMA StepCounts == TypeOK /\ BInv /\ TInv /\ [Next]_vars => TInv'
<1> SUFFICES ASSUME TypeOK, BInv, TInv, [Next]_vars PROVE TInv'
  OBVIOUS
<1>1. ASSUME NEW t \in TextInputs, CommitTextInput(t) PROVE TInv'
  <2>1. Counted' /\ last' = last
    BY <1>1, CountedStep DEF TInv, CommitTextInput
  <2> QED BY <2>1 DEF TInv, TextLanded
<1>2. ASSUME asked' = asked, text'.serial = text.serial, last' = last \/ last' = NoInjection
      PROVE  TInv'
  BY <1>2 DEF TInv, Counted, TextLanded, NoInjection
<1>3. CASE Inject
  <2>1. PICK r, op, target : Result(r, op, target) /\ Finish(r, op, target)
    BY <1>3, InjectResult
  <2>2. r.strayed => text.obj # None /\ SerialLost
    BY <2>1 DEF Result, BInv
  <2>3. text.obj \in TextInputs \cup {None}
    BY DEF TypeOK
  <2>4. ~r.strayed
    BY <2>2, <2>3 DEF TInv, Counted, SerialLost
  <2> QED BY <2>1, <2>4 DEF Finish, typing, TInv, Counted, TextLanded
<1>4. ASSUME NEW o \in AllObjects, Create(o) PROVE TInv'
  BY <1>2, <1>4 DEF Create, TypeOK
<1>5. ASSUME NEW o \in AllObjects, Destroy(o) PROVE TInv'
  BY <1>2, <1>5 DEF Destroy, typing
<1>6. ASSUME NEW s \in Surfaces, Commit(s) PROVE TInv'
  BY <1>2, <1>6 DEF Commit, typing, history
<1>7. ASSUME NEW t \in TextInputs, NEW on \in BOOLEAN, SwitchTextInput(t, on) PROVE TInv'
  BY <1>2, <1>7 DEF SwitchTextInput, TypeOK
<1>8. ASSUME NEW p \in Pointers, ForwardPointerLeave(p) PROVE TInv'
  BY <1>2, <1>8 DEF ForwardPointerLeave, typing
<1>9. ASSUME NEW p \in Pointers, NEW s \in Surfaces, ForwardPointerEnter(p, s) PROVE TInv'
  BY <1>2, <1>9 DEF ForwardPointerEnter, typing
<1>10. ASSUME NEW k \in Keyboards, ForwardKeyboardLeave(k) PROVE TInv'
  BY <1>2, <1>10 DEF ForwardKeyboardLeave, typing
<1>11. ASSUME NEW k \in Keyboards, NEW s \in Surfaces, ForwardKeyboardEnter(k, s) PROVE TInv'
  BY <1>2, <1>11 DEF ForwardKeyboardEnter, typing
<1>12. CASE UNCHANGED vars
  BY <1>2, <1>12 DEF vars
<1> QED BY <1>1, <1>3, <1>4, <1>5, <1>6, <1>7, <1>8, <1>9, <1>10, <1>11, <1>12 DEF Next

(* A text that reports success was typed where the app knew its keyboard to *)
(* be, unless that was in doubt, or, in an app that has committed no other  *)
(* text input, committed with the serial the app expects, whatever it had   *)
(* enabled, committed, created or destroyed before (inject_text, the commit *)
(* of zwp_text_input_v3 in track_request).                                  *)
THEOREM SuccessfulTextLands == Spec => []TextLanded
<1>1. Init => TInv
  BY DEF Init, TInv, Counted, TextLanded, NoInjection
<1>2. TypeOK /\ BInv /\ TInv /\ [Next]_vars => TInv'
  BY StepCounts
<1>3. TInv => TextLanded
  BY DEF TInv
<1> QED BY <1>1, <1>2, <1>3, TypeCorrect, BelievesAlways, PTL DEF Spec
==============================================================================
