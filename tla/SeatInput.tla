------------------------------ MODULE SeatInput ------------------------------
(***************************************************************************)
(* Input injection into one proxied connection (src/seat/input.rs) and the *)
(* part of its Conn that decides where injected input goes: the input      *)
(* objects, the focused surface and the surfaces the injected pointer and  *)
(* keyboard are believed to be on (src/seat/proxy.rs).                     *)
(*                                                                         *)
(* Three parties change that state: the app creates and destroys objects,  *)
(* the compositor moves its own focus and its events are forwarded, and    *)
(* the agent injects.  Every handler and every injection holds the conn    *)
(* lock from its first to its last statement, so each is one action; an    *)
(* injection is the composition of its sends, and the first send that      *)
(* fails ends it with whatever was sent before already delivered.          *)
(*                                                                         *)
(* Event serials, timestamps, coordinates and the keymap are left out; a   *)
(* layout is the set of modifiers it has no keycode or no mask for, a text *)
(* a sequence of kinds of characters, and a click count is one.            *)
(*                                                                         *)
(* Conn's two focus fields are a belief about the app, and the code has    *)
(* events that change what the app was told without touching them.  The    *)
(* history variables doubt and stuck say where that, or an injection that  *)
(* returned with modifiers down, has happened; no step depends on them,    *)
(* and only the verdict `strayed` is computed with doubt.                  *)
(***************************************************************************)
EXTENDS Naturals, Sequences, Functions

CONSTANTS Surfaces, Pointers, Keyboards,  \* protocol objects, each created at most once
          TextInputs,       \* and zwp_text_input_v3 objects
          Modifiers,        \* modifier names a caller may use
          NoKeycode,        \* those that are unknown or have no keycode
          NoMask,           \* those whose xkb modifier the layout lacks
          MaxCommits,       \* bound on commit_count and on text-input commits
          MaxLength,        \* bound on a list of modifiers and on a text
          UserPointer,      \* the user's own pointer crosses the window
          UserKeyboard,     \* the user's own keyboard focus visits the window
          Destructible,     \* objects the app destroys
          None, Key, Shift

ASSUME LayoutAssumption == NoKeycode \subseteq Modifiers /\ NoMask \subseteq Modifiers
ASSUME BoundAssumption == MaxCommits \in Nat /\ MaxLength \in Nat
ASSUME ScenarioAssumption ==
  /\ {UserPointer, UserKeyboard} \subseteq BOOLEAN
  /\ Destructible \subseteq Surfaces \cup Pointers \cup Keyboards \cup TextInputs
ASSUME KeyAssumption == Key \notin Modifiers \cup {Shift}
ASSUME NoneAssumption == None \notin Surfaces \cup Pointers \cup Keyboards \cup TextInputs

VARIABLES
  objects,   \* which protocol objects are alive, on the server side
  unborn,    \* objects the app has not created yet
  commits,   \* SurfaceState.commit_count
  conn,      \* the fields of Conn injection reads
  text,      \* the text_input fields of Conn
  asked,     \* how often the app has committed each text-input object
  app,       \* what the app has been told: focus per input object, keys, buttons
  comp,      \* the focus the compositor itself has given each input object
  last,      \* the outcome of the last injection
  doubt,     \* history: the focus fields an event went past, per device
  stuck      \* history: modifiers an injection returned early with

vars == <<objects, unborn, commits, conn, text, asked, app, comp, last, doubt, stuck>>
typing == <<text, asked>>
history == <<doubt, stuck>>

AllObjects == Surfaces \cup Pointers \cup Keyboards \cup TextInputs
LiveSurfaces == objects \cap Surfaces

Conns == [pointer_obj : Pointers \cup {None}, keyboard_obj : Keyboards \cup {None},
          focused_surface : Surfaces \cup {None}, pointer_focus : Surfaces \cup {None},
          keyboard_focus : Surfaces \cup {None}]

Apps == [ptr : [Pointers -> Surfaces \cup {None}], kbd : [Keyboards -> Surfaces \cup {None}],
         buttons : BOOLEAN, keys : SUBSET (Modifiers \cup {Key, Shift}),
         mods : SUBSET (Modifiers \cup {Shift})]

TypeOK ==
  /\ objects \subseteq AllObjects /\ unborn \subseteq AllObjects
  /\ commits \in [Surfaces -> 0 .. MaxCommits]
  /\ conn \in Conns /\ app \in Apps
  /\ text \in [obj : TextInputs \cup {None}, pending : BOOLEAN, enabled : BOOLEAN, serial : Nat]
  /\ asked \in [TextInputs -> 0 .. MaxCommits]
  /\ comp \in [ptr : [Pointers -> Surfaces \cup {None}], kbd : [Keyboards -> Surfaces \cup {None}]]
  /\ last \in [op : {"none", "click", "scroll", "drag", "key", "combo", "text"}, ok : BOOLEAN,
               target : Surfaces \cup {None}, strayed : BOOLEAN]
  /\ doubt \in [ptr : BOOLEAN, kbd : BOOLEAN] /\ stuck \subseteq Modifiers

NoInjection == [op |-> "none", ok |-> TRUE, target |-> None, strayed |-> FALSE]

Init ==
  /\ objects = {} /\ unborn = AllObjects
  /\ commits = [s \in Surfaces |-> 0]
  /\ conn = [pointer_obj |-> None, keyboard_obj |-> None, focused_surface |-> None,
             pointer_focus |-> None, keyboard_focus |-> None]
  /\ app = [ptr |-> [p \in Pointers |-> None], kbd |-> [k \in Keyboards |-> None],
            buttons |-> FALSE, keys |-> {}, mods |-> {}]
  /\ comp = [ptr |-> app.ptr, kbd |-> app.kbd]
  /\ text = [obj |-> None, pending |-> FALSE, enabled |-> FALSE, serial |-> 0]
  /\ asked = [t \in TextInputs |-> 0]
  /\ last = NoInjection
  /\ doubt = [ptr |-> FALSE, kbd |-> FALSE] /\ stuck = {}

-----------------------------------------------------------------------------
(* The app: objects come and go, surfaces are committed.                    *)

(* track_created remembers the app's newest pointer, keyboard, text input,  *)
(* and keeps the focus fields, which were about an older one.               *)
Create(o) ==
  /\ o \in unborn
  /\ unborn' = unborn \ {o}
  /\ objects' = objects \cup {o}
  /\ conn' = [conn EXCEPT !.pointer_obj  = IF o \in Pointers THEN o ELSE @,
                          !.keyboard_obj = IF o \in Keyboards THEN o ELSE @]
  /\ text' = [text EXCEPT !.obj = IF o \in TextInputs THEN o ELSE @]
  /\ doubt' = [ptr |-> doubt.ptr \/ (o \in Pointers /\ conn.pointer_focus # None),
               kbd |-> doubt.kbd \/ (o \in Keyboards /\ conn.keyboard_focus # None)]
  /\ UNCHANGED <<commits, asked, app, comp, last, stuck>>

Commit(s) ==
  /\ s \in LiveSurfaces /\ commits[s] < MaxCommits
  /\ commits' = [commits EXCEPT ![s] = @ + 1]
  /\ UNCHANGED <<objects, unborn, conn, typing, app, comp, last, history>>

(* zwp_text_input_v3.enable and disable, which wait for a commit.           *)
SwitchTextInput(t, on) ==
  /\ t \in objects \cap TextInputs
  /\ text' = [text EXCEPT !.pending = on]
  /\ UNCHANGED <<objects, unborn, commits, conn, asked, app, comp, last, history>>

(* Mutant: the serial counts only the commits that enable.                  *)
CommitTextInputEnabling(t) ==
  /\ t \in objects \cap TextInputs /\ asked[t] < MaxCommits
  /\ asked' = [asked EXCEPT ![t] = @ + 1]
  /\ text' = [text EXCEPT !.serial = IF text.pending THEN @ + 1 ELSE @, !.enabled = text.pending]
  /\ UNCHANGED <<objects, unborn, commits, conn, app, comp, last, history>>

(* zwp_text_input_v3.commit: one serial and one state for all text inputs   *)
(* of the connection.                                                       *)
CommitTextInput(t) ==
  /\ t \in objects \cap TextInputs /\ asked[t] < MaxCommits
  /\ asked' = [asked EXCEPT ![t] = @ + 1]
  /\ text' = [text EXCEPT !.serial = @ + 1, !.enabled = text.pending]
  /\ UNCHANGED <<objects, unborn, commits, conn, app, comp, last, history>>

Without(focus, o) == [i \in DOMAIN focus |-> IF i = o \/ focus[i] = o THEN None ELSE focus[i]]

(* SObj::destroyed takes the object out of the maps of Conn and touches     *)
(* neither the input objects nor the focus fields, which may go on naming   *)
(* it.  The app and the compositor forget the object as well.               *)
Destroy(o) ==
  /\ o \in objects \cap Destructible
  /\ objects' = objects \ {o}
  /\ app' = [app EXCEPT !.ptr = Without(@, o), !.kbd = Without(@, o)]
  /\ comp' = [ptr |-> Without(comp.ptr, o), kbd |-> Without(comp.kbd, o)]
  /\ doubt' = [ptr |-> doubt.ptr \/ o = conn.pointer_focus,
               kbd |-> doubt.kbd \/ o = conn.keyboard_focus]
  /\ UNCHANGED <<unborn, commits, conn, typing, last, stuck>>

-----------------------------------------------------------------------------
(* The compositor's own focus events, one per input object.  Its pointer    *)
(* and its keyboard are each on one surface at a time.                      *)

MayEnter(focus, o, s) ==
  /\ o \in objects /\ s \in LiveSurfaces
  /\ focus[o] = None
  /\ \A i \in DOMAIN focus : focus[i] \in {None, s}

(* wl_pointer.enter and leave are forwarded with no bookkeeping.            *)
ForwardPointerEnter(p, s) ==
  /\ UserPointer /\ MayEnter(comp.ptr, p, s)
  /\ comp' = [comp EXCEPT !.ptr[p] = s]
  /\ app' = [app EXCEPT !.ptr[p] = s]
  /\ doubt' = [doubt EXCEPT !.ptr = @ \/ p = conn.pointer_obj]
  /\ UNCHANGED <<objects, unborn, commits, conn, typing, last, stuck>>

ForwardPointerLeave(p) ==
  /\ p \in objects /\ comp.ptr[p] # None
  /\ comp' = [comp EXCEPT !.ptr[p] = None]
  /\ app' = [app EXCEPT !.ptr[p] = IF @ = comp.ptr[p] THEN None ELSE @]
  /\ doubt' = [doubt EXCEPT !.ptr = @ \/ p = conn.pointer_obj]
  /\ UNCHANGED <<objects, unborn, commits, conn, typing, last, stuck>>

(* Mutant: the serial, which is the event's first argument, is stored.      *)
ForwardKeyboardEnterSerial(k, s) ==
  /\ UserKeyboard /\ MayEnter(comp.kbd, k, s)
  /\ comp' = [comp EXCEPT !.kbd[k] = s]
  /\ conn' = [conn EXCEPT !.focused_surface = 0, !.keyboard_focus = 0]
  /\ app' = [app EXCEPT !.kbd[k] = s, !.keys = {}]
  /\ last' = NoInjection
  /\ doubt' = [doubt EXCEPT !.kbd = k # conn.keyboard_obj]
  /\ UNCHANGED <<objects, unborn, commits, typing, stuck>>

(* Mutant: a leave clears the desired focus and keeps the delivered one.    *)
ForwardKeyboardLeaveKeeps(k) ==
  /\ k \in objects /\ comp.kbd[k] # None
  /\ comp' = [comp EXCEPT !.kbd[k] = None]
  /\ conn' = IF conn.focused_surface = comp.kbd[k]
               THEN [conn EXCEPT !.focused_surface = None] ELSE conn
  /\ app' = [app EXCEPT !.kbd[k] = IF @ = comp.kbd[k] THEN None ELSE @, !.keys = {}]
  /\ last' = NoInjection
  /\ doubt' = [doubt EXCEPT !.kbd = conn.focused_surface # comp.kbd[k]]
  /\ UNCHANGED <<objects, unborn, commits, typing, stuck>>

(* wl_keyboard.enter sets both focus fields, whichever keyboard it is for;  *)
(* wl_keyboard.leave clears both when it names the focused surface.  The    *)
(* last injection is then no longer the last thing that happened to the     *)
(* keyboard.                                                                *)
ForwardKeyboardEnter(k, s) ==
  /\ UserKeyboard /\ MayEnter(comp.kbd, k, s)
  /\ comp' = [comp EXCEPT !.kbd[k] = s]
  /\ conn' = [conn EXCEPT !.focused_surface = s, !.keyboard_focus = s]
  /\ app' = [app EXCEPT !.kbd[k] = s, !.keys = {}]
  /\ last' = NoInjection
  /\ doubt' = [doubt EXCEPT !.kbd = k # conn.keyboard_obj]
  /\ UNCHANGED <<objects, unborn, commits, typing, stuck>>

ForwardKeyboardLeave(k) ==
  /\ k \in objects /\ comp.kbd[k] # None
  /\ comp' = [comp EXCEPT !.kbd[k] = None]
  /\ conn' = IF conn.focused_surface = comp.kbd[k]
               THEN [conn EXCEPT !.focused_surface = None, !.keyboard_focus = None]
               ELSE conn
  /\ app' = [app EXCEPT !.kbd[k] = IF @ = comp.kbd[k] THEN None ELSE @, !.keys = {}]
  /\ last' = NoInjection
  /\ doubt' = [doubt EXCEPT !.kbd = conn.focused_surface # comp.kbd[k]]
  /\ UNCHANGED <<objects, unborn, commits, typing, stuck>>

-----------------------------------------------------------------------------
(* Injection.  A run r is the connection and the app's view as the sends    *)
(* change them, `ok` until one fails; `held` and `depressed` are the locals *)
(* of the modifier functions, and `fallback` is the most recently committed *)
(* surface, which the surface table settles for the whole run.              *)

Start(fallback) ==
  [conn |-> conn, app |-> app, ok |-> TRUE, strayed |-> FALSE, held |-> <<>>,
   depressed |-> {}, fallback |-> fallback, doubt |-> doubt, stuck |-> stuck]

Fail(r) == [r EXCEPT !.ok = FALSE]

(* A return by `?` past the release of what is held.                        *)
Abandon(r) == [r EXCEPT !.ok = FALSE, !.stuck = @ \cup Range(r.held)]

(* send: an event reaches the app unless its sender or an object argument   *)
(* is no longer alive (external: the server backend rejects it).            *)
Send(r, involved, told) ==
  IF ~r.ok THEN r
  ELSE IF involved \subseteq objects THEN [r EXCEPT !.app = told] ELSE Fail(r)

MostCommitted ==
  {s \in LiveSurfaces : \A o \in LiveSurfaces : commits[o] <= commits[s]}

TargetSurface(r) == IF r.conn.focused_surface # None THEN r.conn.focused_surface ELSE r.fallback


(* Mutant: the focus is recorded before the enter is known to be sent.      *)
EnsurePointerFocusEarly(r, s) ==
  LET p       == r.conn.pointer_obj
      prev    == r.conn.pointer_focus
      left    == IF prev = None THEN r ELSE Send(r, {p, prev}, [r.app EXCEPT !.ptr[p] = None])
      entered == Send(left, {p, s}, [left.app EXCEPT !.ptr[p] = s])
  IN  IF ~r.ok \/ prev = s THEN r
      ELSE [entered EXCEPT !.conn.pointer_focus = s,
                           !.doubt.ptr = ~entered.ok /\ (@ \/ (left.ok /\ prev # None))]

(* On an error the focus field keeps its value, although the leave may have *)
(* been delivered.                                                          *)
EnsurePointerFocus(r, s) ==
  LET p       == r.conn.pointer_obj
      prev    == r.conn.pointer_focus
      left    == IF prev = None THEN r ELSE Send(r, {p, prev}, [r.app EXCEPT !.ptr[p] = None])
      entered == Send(left, {p, s}, [left.app EXCEPT !.ptr[p] = s])
  IN  IF ~r.ok \/ prev = s THEN r
      ELSE IF entered.ok THEN [entered EXCEPT !.conn.pointer_focus = s, !.doubt.ptr = FALSE]
      ELSE [entered EXCEPT !.doubt.ptr = @ \/ (left.ok /\ prev # None)]

EnsureKeyboardFocus(r, s) ==
  LET k       == r.conn.keyboard_obj
      prev    == r.conn.keyboard_focus
      left    == IF prev = None THEN r
                 ELSE Send(r, {k, prev}, [r.app EXCEPT !.kbd[k] = None, !.keys = {}])
      entered == Send(left, {k, s}, [left.app EXCEPT !.kbd[k] = s, !.keys = {}])
  IN  IF ~r.ok \/ prev = s THEN r
      ELSE IF entered.ok THEN [entered EXCEPT !.conn.keyboard_focus = s, !.doubt.kbd = FALSE]
      ELSE [entered EXCEPT !.doubt.kbd = @ \/ (left.ok /\ prev # None)]

(* A press strays when the app has not been told that the object is on s    *)
(* and nothing has put in doubt what it was told.                           *)
PressButton(r, s) ==
  LET p    == r.conn.pointer_obj
      sent == Send(r, {p}, [r.app EXCEPT !.buttons = TRUE])
  IN  IF sent.ok THEN [sent EXCEPT !.strayed = @ \/ (~r.doubt.ptr /\ r.app.ptr[p] # s)] ELSE sent

ReleaseButton(r) == Send(r, {r.conn.pointer_obj}, [r.app EXCEPT !.buttons = FALSE])
Motion(r)        == Send(r, {r.conn.pointer_obj}, r.app)

(* Mutant: a click leaves the keys where they were.                         *)
FocusForgets(r, s) == r

Focus(r, s) == IF r.ok THEN [r EXCEPT !.conn.focused_surface = s] ELSE r

(* What inject_click, inject_scroll and inject_drag do after checking that  *)
(* there is a surface and a pointer.                                        *)
PointerRun(r, s, op) ==
  LET on == EnsurePointerFocus(r, s)
  IN  CASE op = "click"  -> ReleaseButton(PressButton(Motion(Focus(on, s)), s))
        [] op = "drag"   -> ReleaseButton(Motion(PressButton(Motion(on), s)))
        [] op = "scroll" -> Motion(on)

(* A key event, which strays like a press.                                  *)
SendKey(r, s, key, down) ==
  LET k    == r.conn.keyboard_obj
      sent == Send(r, {k}, [r.app EXCEPT !.keys = IF down THEN @ \cup {key} ELSE @ \ {key}])
  IN  IF sent.ok THEN [sent EXCEPT !.strayed = @ \/ (~r.doubt.kbd /\ r.app.kbd[k] # s)] ELSE sent

KeyRaw(r, key, down) ==
  LET s == TargetSurface(r)
  IN  IF ~r.ok THEN r
      ELSE IF r.conn.keyboard_obj = None \/ s = None THEN Fail(r)
      ELSE SendKey(EnsureKeyboardFocus(r, s), s, key, down)

SendModifiers(r, depressed) ==
  Send(r, {r.conn.keyboard_obj}, [r.app EXCEPT !.mods = depressed])

SendMask(r, mask) == SendModifiers([r EXCEPT !.depressed = mask], mask)

(* One round of release_named_modifiers.                                    *)
ReleaseModifier(r, i) == SendMask(KeyRaw(r, r.held[i], FALSE), r.depressed \ {r.held[i]})

(* release_named_modifiers: the last pressed first, up to the first failing *)
(* send.                                                                    *)
ReleaseNamedModifiers(r) ==
  LET released[n \in 0 .. Len(r.held)] ==
        IF n = 0 THEN [r EXCEPT !.depressed = Range(r.held)]
        ELSE ReleaseModifier(released[n - 1], Len(r.held) + 1 - n)
  IN  released[Len(r.held)]

(* One round of press_named_modifiers: an unknown name or a missing keycode *)
(* releases what is held, a missing mask returns at once.                   *)
PressModifier(r, m) ==
  LET down == SendMask(KeyRaw(r, m, TRUE), r.depressed \cup {m})
  IN  IF ~r.ok THEN r
      ELSE IF m \in NoKeycode THEN Fail(ReleaseNamedModifiers(r))
      ELSE IF m \in NoMask THEN Abandon(r)
      ELSE IF down.ok THEN [down EXCEPT !.held = Append(@, m)]
      ELSE down

PressNamedModifiers(r, names) ==
  LET pressed[n \in 0 .. Len(names)] == IF n = 0 THEN r ELSE PressModifier(pressed[n - 1], names[n])
  IN  pressed[Len(names)]

(* A name may come twice.                                                   *)
ModifierLists == UNION {[1 .. n -> Modifiers] : n \in 0 .. MaxLength}

Finish(r, op, target) ==
  /\ conn' = r.conn /\ app' = r.app
  /\ last' = [op |-> op, ok |-> r.ok, target |-> target, strayed |-> r.strayed]
  /\ doubt' = r.doubt /\ stuck' = r.stuck
  /\ UNCHANGED <<objects, unborn, commits, typing, comp>>

Fallbacks == IF MostCommitted = {} THEN {None} ELSE MostCommitted

(* inject_scroll, inject_drag, and inject_click under a list of held        *)
(* modifiers, which are released whether or not the click went through.     *)
InjectPointer(op, names) ==
  \E fallback \in Fallbacks :
    LET held    == PressNamedModifiers(Start(fallback), names)
        s       == TargetSurface(held)
        ready   == held.conn.pointer_obj # None /\ s # None
        clicked == IF ready THEN PointerRun(held, s, op) ELSE Fail(held)
        freed   == ReleaseNamedModifiers([clicked EXCEPT !.ok = TRUE])
    IN  IF ~held.ok THEN Finish(held, op, s)
        ELSE Finish([freed EXCEPT !.ok = @ /\ clicked.ok], op, s)

(* inject_key_raw, as callers use it to press or release a key.             *)
InjectKeyRaw(down) ==
  \E fallback \in Fallbacks :
    LET r == Start(fallback)
    IN  Finish(KeyRaw(r, Key, down), "key", TargetSurface(r))

(* inject_key_combo: the keymap is read again once the modifiers are down,  *)
(* which may fail, and then nothing releases them; the key is skipped when  *)
(* it is unknown, and the modifiers are released whatever became of it.     *)
InjectKeyCombo(names, known, readable) ==
  \E fallback \in Fallbacks :
    LET held  == PressNamedModifiers(Start(fallback), names)
        typed == IF known THEN KeyRaw(KeyRaw(held, Key, TRUE), Key, FALSE) ELSE Fail(held)
        freed == ReleaseNamedModifiers([typed EXCEPT !.ok = TRUE])
        ended == IF ~held.ok THEN held
                 ELSE IF ~readable THEN Abandon(held)
                 ELSE [freed EXCEPT !.ok = @ /\ typed.ok]
    IN  Finish(ended, "combo", TargetSurface(held))

(* commit_string and done for the text-input object; the app takes the text *)
(* for settled when the serial is the number of its commits.  The serial is *)
(* in doubt once the app has committed another text input as well.          *)
CommitText(r) ==
  LET sent == Send(r, {text.obj}, r.app)
      done == Send(sent, {text.obj}, sent.app)
      lost == /\ \A t \in TextInputs \ {text.obj} : asked[t] = 0
              /\ text.serial # asked[text.obj]
  IN  IF done.ok THEN [done EXCEPT !.strayed = @ \/ lost] ELSE done

(* Mutant: a character the layout lacks leaves Shift down.                  *)
TypeCharForgets(r, c) ==
  LET shifted  == SendModifiers(KeyRaw(r, Shift, TRUE), {Shift})
      typed(q) == KeyRaw(KeyRaw(q, Key, TRUE), Key, FALSE)
  IN  CASE c = "plain"   -> typed(r)
        [] c = "shifted" -> SendModifiers(KeyRaw(typed(shifted), Shift, FALSE), {})
        [] c = "missing" -> Fail(shifted)

(* One character by keys: plain or control characters, those that need      *)
(* Shift, and those the layout has no keycode for.                          *)
TypeChar(r, c) ==
  LET shifted  == SendModifiers(KeyRaw(r, Shift, TRUE), {Shift})
      typed(q) == KeyRaw(KeyRaw(q, Key, TRUE), Key, FALSE)
  IN  CASE c = "plain"   -> typed(r)
        [] c = "shifted" -> SendModifiers(KeyRaw(typed(shifted), Shift, FALSE), {})
        [] c = "missing" -> Fail(r)

TypeChars(r, word) ==
  LET typed[n \in 0 .. Len(word)] == IF n = 0 THEN r ELSE TypeChar(typed[n - 1], word[n])
  IN  typed[Len(word)]

Words == UNION {[1 .. n -> {"plain", "shifted", "missing"}] : n \in 0 .. MaxLength}

(* inject_text: through the text input the app has enabled, whatever became *)
(* of it, or else by keys, up to the first character that cannot be typed.  *)
InjectText(word) ==
  \E fallback \in Fallbacks :
    LET r == Start(fallback)
    IN  IF text.enabled /\ text.obj # None THEN Finish(CommitText(r), "text", None)
        ELSE Finish(TypeChars(r, word), "text", TargetSurface(r))

Inject ==
  \/ \E op \in {"scroll", "drag"} : InjectPointer(op, <<>>)
  \/ \E names \in ModifierLists : InjectPointer("click", names)
  \/ \E down \in BOOLEAN : InjectKeyRaw(down)
  \/ \E names \in ModifierLists, known, readable \in BOOLEAN : InjectKeyCombo(names, known, readable)
  \/ \E word \in Words : InjectText(word)

Next ==
  \/ \E o \in AllObjects : Create(o) \/ Destroy(o)
  \/ \E s \in Surfaces : Commit(s)
  \/ \E t \in TextInputs : CommitTextInput(t) \/ \E on \in BOOLEAN : SwitchTextInput(t, on)
  \/ \E p \in Pointers : ForwardPointerLeave(p) \/ \E s \in Surfaces : ForwardPointerEnter(p, s)
  \/ \E k \in Keyboards : ForwardKeyboardLeave(k) \/ \E s \in Surfaces : ForwardKeyboardEnter(k, s)
  \/ Inject

Spec == Init /\ [][Next]_vars
-----------------------------------------------------------------------------
(* Every key and button an injection presses it also releases, also when a  *)
(* send fails half way, when a modifier turns out to have no keycode, when  *)
(* a text breaks off, and whatever the user and the app did to focus and    *)
(* objects in between (press_named_modifiers, release_named_modifiers,      *)
(* inject_click, inject_drag, inject_text).  All that can stay down is a    *)
(* modifier held at one of two early returns, for a modifier without a mask *)
(* and for a keymap that cannot be read a second time.  A raw key is the    *)
(* caller's own to release.                                                 *)
NothingHeld ==
  ~app.buttons /\ app.mods \subseteq stuck /\ app.keys \cap (Modifiers \cup {Shift}) \subseteq stuck

(* A click, a drag, a key or a modifier held around a click that reports    *)
(* success was pressed on a surface the app knows its pointer or keyboard   *)
(* to be on (ensure_pointer_focus, "Ensure the injected pointer has focus").*)
(* Excepted are presses while the device is in doubt: since the last enter  *)
(* sent for it, the app has been told of its focus, or has replaced the     *)
(* device or destroyed the surface, without Conn's taking note.             *)
SuccessLanded == (last.ok /\ last.op # "text") => ~last.strayed

(* A text that reports success was typed on a surface the app knows its     *)
(* keyboard to be on, with the exception above, or was committed with the   *)
(* number of commits the app itself has counted for the text input, without *)
(* which it drops what follows (inject_text, the commit serial in           *)
(* track_request); excepted are apps that commit several text inputs, whose *)
(* commits Conn counts together.                                            *)
TextLanded == (last.ok /\ last.op = "text") => ~last.strayed

(* What Conn believes about injected focus is what the app has been told:   *)
(* pointer_focus and keyboard_focus survive from one injection to the next  *)
(* and decide whether an enter is sent at all.  Only five events put a      *)
(* belief in doubt, until the next enter sent for it: the user's pointer    *)
(* entering or leaving on the injected one, a newer pointer or keyboard,    *)
(* the destruction of the surface believed in, a keyboard event for another *)
(* keyboard or a leave of another surface, and an enter that fails after    *)
(* its leave has been delivered.                                            *)
BeliefIsTruth ==
  /\ (~doubt.ptr /\ conn.pointer_focus # None /\ conn.pointer_obj \in objects)
       => app.ptr[conn.pointer_obj] = conn.pointer_focus
  /\ (~doubt.kbd /\ conn.keyboard_focus # None /\ conn.keyboard_obj \in objects)
       => app.kbd[conn.keyboard_obj] = conn.keyboard_focus

(* After a successful click the agent's keys go to the clicked surface,     *)
(* until the user's own keyboard has come by (ensure_keyboard_focus:        *)
(* "routed to the same app surface the agent most recently clicked").       *)
KeysFollowClick ==
  [][(/\ last.op = "click" /\ last.ok /\ last'.op \in {"key", "combo", "text"}
      /\ last'.target # None)
       => last'.target = last.target]_vars
=============================================================================
