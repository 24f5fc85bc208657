# A verification of agent-seat-linux

`agent-seat-linux` puts a private Wayland socket (the *seat*) between an
application and the compositor, so that an agent can capture the application's
frames and inject input without the user's pointer or keyboard. This directory
holds TLA+ models of it, TLC runs that check them on small instances, and TLAPS
proofs that hold for instances of any size. `PROJECT.json` maps every
definition to the source lines it stands for and lists runs, mutants, hazards,
findings and theorems. Paths below are relative to `src/src/`.

## 1. The system

| Part | Source | State | Operations |
|---|---|---|---|
| Seat life cycle | `seat/mod.rs` 360-446, 748-909, 982-1116 | `apps`, `bound_apps`, `stopping`, `socket_removed`, `accept_thread`, `proxy_threads`, `bridge_threads` | accept, set up and spawn a proxy; `close()`; `Drop` |
| Registry of apps | `seat/mod.rs` 643-746 | `apps` (list of `Arc<SeatApp>`), `bound_apps` (pid to `Weak`) | look up, bind, wait for a new capturable app, remove |
| CleanupPaths | `seat/mod.rs` 98-124, 250-270 | `paths`, `closed` | register (no caller), close |
| XWayland bridge | `seat/mod.rs` 48-96, 468-641 | child process, X socket, private directory with the authority file | start, stop, adopt, reap |
| Proxy connection | `seat/proxy.rs` | `Conn`: id maps both ways, globals, surfaces, buffers, input objects, focus, `dead` | forward requests and events, create, destroy, bind |
| Input injection | `seat/input.rs` | fields of `Conn`, the keymap | click, scroll, drag, keys, combinations, text |
| Capture | `seat/capture.rs` | shm pools and buffers in `Conn` | choose a frame, check bounds, decode |
| Interface filter | `seat/interfaces.rs` | none | table look-up |
| Harness | `harness.rs` | `ComputerUse`, `ControlledApp`, child processes | launch natively, fall back to XWayland, stop |
| Processes and displays | `process.rs` | none | find an executable, pick a display, spawn |
| Singleton, stale sockets | `seat/mod.rs` 293-446 | one slot per process, the runtime directory | `seat()`, `shutdown()`, `create()`, clean up after a crash |

**How they interact.** One accept thread and one proxy thread per connection
share the seat's tables; each table has a mutex of its own. The threads hold
only `Weak` references to the seat and upgrade them for a moment, so the last
strong reference may be dropped, and `Drop` with its whole shutdown may run, on
one of the very threads that shutdown joins. Injection and capture run on the
program's threads under the connection's mutex, which the proxy thread's
callbacks also take. Launches find a connection and bind it, while the
connection may be ending.

**What is hard.** A connection in the middle of its setup when `close()` starts;
several `close()` at once; a thread that joins itself; the 2021-edition temporary
that keeps the accept-thread mutex locked through a join; a lookup used after
its connection has ended; focus that three parties change; injections that fail
half way; backends that call back under a lock the same thread holds; launches
whose program connects late or hands over to another; processes that end between
any two steps and pids that come back. `PROJECT.json` "hazards" lists each at its line with the property that
covers it, or the reason why none does yet.

**What makes each part correct.**
- *Life cycle*: a `close()` that returned left nothing open, listed or
  admissible; it returns; dropping the last reference releases everything.
- *Registry*: what is listed is served, what has ended is delisted, and a
  binding names a live connection.
- *Bridge*: it is reaped, exactly once, and never blocks a close forever.
- *Singleton and stale files*: a process has one process-wide seat; a clean-up
  removes what crashed processes left and never the socket of a seat that serves.
- *Injection*: what reports success reached a surface the application knows it
  has focus on; nothing stays pressed; keys follow the last click.
- *Connection*: both id maps are inverse to each other, destruction leaves no
  stale entry, only a bind that came to nothing leaves the application an object
  without a twin, and no handler waits for a lock its own thread holds.
- *Capture*: no read outside the pool; the main window's frame, also after its
  buffer is gone; nothing the compositor shows is turned down.
- *Launch*: each launch gets its own application; children and directories do
  not outlive it.

## 2. Modules and how they correspond to the code

| Module | What it is |
|---|---|
| `SeatLifecycle` | accept thread, proxy threads, closers, reapers, launches, one action per critical section |
| `SeatContract` | what the program that calls `close()` is promised, without threads or passes |
| `SeatLifecycleProofs`, `SeatRefinementProofs`, `SeatReapingProofs` | its inductive invariant and what `close()` promises; it implements `SeatContract`; nothing is left over |
| `Launch`, `LaunchProofs` | concurrent launches with their processes, X displays, directories and reapers |
| `ProxyTwins`, `ProxyTwinsProofs` | the object maps of one connection, its globals and the backends' callbacks |
| `SeatInput`, `SeatInputProofs` | injection into one connection and the focus bookkeeping it relies on |
| `ShmCapture`, `ShmCaptureProofs` | shm bookkeeping of one connection and the capture of a frame |
| `SeatHosts`, `SeatHostsProofs` | processes that share a runtime directory: singleton, socket files, crashes |
| `MC...` | symmetry sets and values for TLC, one for each of the above |

The modules meet at named places. `SeatLifecycle` takes a launch's look-up,
binding, adoption and stop as steps of its own (`FindApp`, `BindApp`,
`AdoptBridge`, `StopApp`), and `Launch` takes a connection's listing, delisting
and the closing of the seat as one step each. `ProxyTwins` has the objects whose
fields `SeatInput` and `ShmCapture` track, and `SeatHosts` has a seat's whole
shutdown in the few steps that touch its file and the slot.

### SeatLifecycle
A variable stands for each field of `AgentSeat`, `pc` for where each thread is,
`strong` for the threads that hold an `Arc` of the seat. A thread is a closer
(a thread of the program), the accept thread, or a proxy thread, named by its
connection. `shutdown_inner` is one chain of actions any thread may run,
because `close()` and `Drop` both call it: `StoreStopping`, `SwapSocketRemoved`,
`RemoveSocketFile`, `SnapshotApps`, `CloseActiveConnection`, `TakeAcceptHandle`,
`JoinAccept`, again `SnapshotApps` and `CloseActiveConnection`,
`TakeProxyHandles`, `JoinProxies`, `TakeBridgeHandles`, `JoinBridges`,
`ClearApps`, and `ReturnFromClose` or `FinishDrop`. A mutex held for one
statement makes that statement one action. The accept-thread mutex is a
variable, since `if let Some(handle) = self.accept_thread.lock().unwrap().take()`
keeps its guard until the block ends. `accept_once` and `spawn_proxy_loop` are
the actions from `AcceptNothing` to `EndAccept`, with every early return
(`RefuseClient`, the second test of `stopping` in `CheckAgain`, a failed
`Poller::new`, a failed thread creation). `run_loop` and `ProxyLoopCleanup` are
`CheckLoop` to `DropUpgraded`. `proxy::setup` is one step, with failure
(`SetupDone` or `RefuseClient`). A launch is `FindApp`, `BindApp` and the end of
its `ControlledApp`; it registers no directory with the connection, since
`add_cleanup_path` has no caller but a unit test.
Upgrading a `Weak` is an action with the outcome the strong count gives.
Identifiers, credentials, poll sets, messages and the 200 ms timeout are
abstracted; a timeout shows as `Poll` being always able to return.

### SeatContract
`open`, `ended`, `inClose` and `sealed`: connections open and end, calls overlap,
and a call returns only when the seat is sealed, after which nothing opens. A
refinement mapping in `SeatLifecycle` reads these off the code's state: a
connection is open while it is listed or served and not `dead`; the seat is
sealed once `stopping` is set, the accept thread has ended or can no longer
upgrade, and all that was admitted is dead.

### SeatInput
`conn` holds the five fields injection reads (`pointer_obj`, `keyboard_obj`,
`focused_surface`, `pointer_focus`, `keyboard_focus`); `app` is what the
application has been told, `comp` the focus the compositor itself has given each
input object. Every injection and every forwarded event runs under the `Conn`
mutex from its first to its last statement and is one action. Inside an
injection a *run* is threaded through its sends; a send fails when its sender or
an object argument is dead, which ends the injection there with everything
before it delivered, as `?` does. An unknown name or a missing keycode releases what is held, a missing mask
returns at once. `Destroy`
is `SObj::destroyed`, which clears the tables but not the input fields.
`press_named_modifiers` keeps its running mask in `depressed`, and
`release_named_modifiers` clears one mask after another from it. `inject_key_combo`
reads the keymap again once the modifiers are down; that may fail (`readable`),
and `Abandon` is the return by `?` that releases nothing, here and for a missing mask.
`inject_text` either commits through the text input (`CommitText`) or types
character by character (`TypeChar`: plain, with Shift, or missing in the layout);
`text` holds the four `text_input_*` fields, and `asked` how often the
application has committed each text input, which is what it compares `done`
with. Event serials, times, coordinates and keymap contents are left out, and a
click count is one. Modifier lists and texts have any length up to `MaxLength`,
and a name may come twice; `released`, `pressed` and `typed` are the loops over
them. `InjectText` takes the two paths in the code's order: an enabled text input
first, keys otherwise.

Two history variables name the places where the code's belief and the
application's view part; no step depends on them, and of the rest of the state
only the verdict `strayed` in `last` is computed with `doubt`. `doubt` is set for a device
when an event changes what the application was told, or which object it is told
it through, without a change of the focus field: the user's pointer entering or
leaving, a newer pointer or keyboard, a destroyed surface, a keyboard event for
another keyboard or a leave of another surface, an enter that fails after its
leave was delivered. The next enter sent for the device clears it. `stuck` has the
modifiers an injection held when it returned by `Abandon`. The properties hold in
every state, with these as their only exceptions.

### ShmCapture
`pool`, `buffer`, `surfaces`, `attached` and `commits` are the maps of `Conn` that
capture reads; each tracked request is an action under the `Conn` lock. A buffer
copies its pool's size when it is created, and a surface copies the buffer when
it is attached, as the code does. A capture is a chain of actions that holds the
lock: `BeginCapture`, `ScanSurface` once for each surface in any order (the hash
map's), `EndScan`, `RejectFrame` or `MapPool`, `DecodeFrame`, `EndCapture`. Only
`AppGrowsFile` may come in between, as the app needs no lock for that. `file`
and `granted` belong to the environment: how long each file is, and the pool
size the compositor goes by, so that a frame knows whether the compositor shows
it (`valid`). The app may send layouts the compositor refuses and may shrink a
pool, but it declares no pool longer than its file and shortens no file: the
protocol demands both and the code relies on them. Pixels, formats and dmabuf
planes are left out; a buffer that cannot be read leaves `attached` empty.

### Launch
Each launch is a thread; `pc` follows it through `launch`, `launch_xwayland`,
`start_xwayland_bridge` and `adopt_xwayland_bridge`, and every `?`, early return
and time limit is a branch of an action. A deadline may pass at any moment. The
failures while a bridge is put together (`seat/mod.rs` 496-579: the directory,
its mode, the credentials, their mode, Xwayland's start) are one branch of
`BuildBridge`: each removes the directory if it was made and leaves nothing else.
`proc` has four processes for each launch: the program natively, the process a
wrapper hands over to, Xwayland, and the program as X client. `apps` keeps the
order of the seat's list because `new_capturable_app` takes the newest.
`framed` and `painted` are what `has_interactive_frame` and
`frame_has_visible_content` see. `xfiles` are display numbers with a socket and a
lock file, `server` who listens there: a killed server leaves its files, one
that exits does not. `KillAndWait`, `UndoBridge` and `Reap` are what the code
does to children. `ThreadEnds` is the parent-death signal, which the kernel
sends when the *thread* that forked ends.

### ProxyTwins
`s2u` and `u2s` are the two maps, `alive` and `live` what either backend has,
`ended` the server backend's queue of objects whose `destroyed` is still to be
called. One proxy thread runs the handlers; the steps are cut where a backend
calls back. A destructor request takes `DestructorRequest` (the lock is taken,
the client backend ends the twin), `NestedDestroyed` (`UObj::destroyed` under
that lock: `try_lock` fails), `RequestReturns`, and later `ServerDestroyed` (the
first phase of `SObj::destroyed`) and `DestroyUpstream` (the second, without the
lock). A destructor event takes `DestructorEvent` and `EventReturns`. `holder`
lets an agent's injection or capture have the lock at any of those points.
`SetupEnds` is `proxy::setup`: it goes on at the first global or gives up.
Every request to the compositor may fail. A bind that comes to nothing, because
its global was withdrawn or the request cannot be sent, leaves the application a
`twinless` object. A destructor request that cannot be sent ends the object all
the same. A request that creates an object and cannot be sent, or whose sender is
twinless, is answered without data, and the server backend panics: the stage
"panicked", in which the proxy thread runs no further handler.
Identifiers carry serials and are used once. The number index `u2s_proto` is
written by the code but read only in a branch no object's role reaches, and is
left out.

### SeatHosts
A process is a member of `Hosts`, started once, with a pid that others may have
had; `EndHost` may happen at any step and clears its memory but not the
directory. `lock` is the mutex of the static slot, held from `CallSeat` or
`CallShutdown` to `Return`. `Scan`, `CheckEntry` and `RemoveEntry` are
`cleanup_stale_seat_sockets`, entry by entry; `Bind` and `Start` are
`new_unstarted` and `start` with their failures; `RemoveSocketPath` to
`JoinThreads` are the steps of `shutdown_inner` that concern the file and the
handles. `gone` is a history variable: what was stale when the directory was
read, without the entries whose pid came back (`StartHost`) before the clean-up
got to them.

## 3. Runs

| Run | Instance | Shows |
|---|---|---|
| `lifecycle_close` | 2 closers, 2 connections | `close()` is complete whichever call returns first; nothing is admitted later; workers are joined; the contract is implemented |
| `lifecycle_drop` | 1 closer, 2 connections | without `close()` everything is released and queued clients are refused, whichever thread runs `Drop` |
| `lifecycle_life` | 2 closers, 1 connection that is an adopted bridge, 1 launch | shutdown terminates; no `close()` returns with a bridge nobody joins; an ended connection is delisted |
| `input_background` | 2 surfaces, 1 pointer, 1 keyboard, 2 text inputs, 1 modifier, the user's keyboard | success means focus, or the right commit count; the believed focus is the application's; keys follow the last click |
| `input_shared` | 2 surfaces, 2 pointers, 1 keyboard, 3 modifiers of which one has no keycode and one no mask; the user's pointer and keyboard; surfaces and keyboard destroyed | nothing stays pressed but what an early return held; success and belief are right but for the named events |
| `capture_frames` | 2 surfaces, 1 buffer and 1 pool at a time, 2 files, 6 layouts | captures stay inside the file and take the largest frame, which outlives its buffer |
| `launch_pair` | 2 launches, 2 display numbers | nothing started is left without an owner; no program runs twice; launches that come one after another each control their own |
| `launch_one` | 1 launch of a wrapper, its thread may end | every launch returns; closing the seat ends every bridge |
| `proxy_twins` | 4 objects of the application, of which a callback and a feedback, 3 of the compositor, 2 globals of which one filtered | the maps are inverse, every living object whose bind worked has its twin, nothing stale stays, handlers return |
| `hosts_crash` | 3 processes on 2 pids, 4 threads, 2 seats | clean-up takes what is stale and only that; one process-wide seat serves |

Two closers are what overlapping `close()` calls need, and two connections let
one be in setup while another is served. With three threads that may run
`shutdown_inner` (two closers and the accept thread or a proxy thread) every
pair of passes interleaves. In `lifecycle_life` the second closer, or the thread
that runs `Drop`, meets the first one while it joins the bridge. Two surfaces are
enough to be on the wrong one. Lists of two modifiers (`MaxLength` = 2) have one
held when the other is unknown, has no mask or cannot be sent, and two pointers
make one replace the other. Two text inputs share the serial, and `MaxCommits` = 2
lets one surface or text input commit more often than another; ties are broken
every way, as the hash map may. The text paths and the destruction of objects are
in different runs, since together they do not fit the time; the theorems of
section 4 have both. For capture, two surfaces give every
order of visits and a tie; one buffer and one pool are enough, because they may
be created again while a surface still shows the earlier one, on another file.
The layouts are a window of two rows, an icon in either row, a row shorter than
its pixels, and two that are no frame; sizes are one row and two. Two launches
overlap or follow one another, and two display numbers run out. In
`proxy_twins` the proxy thread has one handler at a time, so that one object in
a handler, one in the queue and one beside them are what can meet; the fourth is
for an interface of another kind. Three processes on two pids make one pid come
back while the other is in use, two threads in one process meet in the slot, and
two seats are the one before and the one after. Closers and connections,
surfaces and modifiers, launches, pids, seats and the like are interchangeable
in the safety runs, which use symmetry; liveness runs do not. Deadlock is
checked in the life cycle (`AllDone` is the only stop), input and capture runs.
`Launch`, `ProxyTwins` and `SeatHosts` do stop: when all launches are over and
their processes have gone, when identifiers are used up, when every process has
ended.

**Fairness.** A thread that can take a step eventually does (weak fairness of
`ShutdownStep` and `ProxyStep` per thread and of `AcceptStep`): they are operating-system
threads, and every wait in them is a join, a mutex or a poll with a time limit.
An Xwayland whose connection was closed exits and its reaper returns, which is
what adoption relies on. Nothing obliges a client to connect or exit, or the
program to close or drop. `lifecycle_drop` starts from a program that has
dropped its reference. In `Launch` a launching thread goes on until it returns,
its deadlines included, reaper threads run, and Xwayland exits once the seat has
closed on it; programs owe nothing. In `ProxyTwins` the proxy thread goes on
with a handler that has begun, an agent gives the lock back, and a thread that
asks for the lock again and again gets it (strong fairness of
`ServerDestroyed`), since injections and captures are short and far between.

### Disagreements with the documentation
Two are runs that expect a violation.
- `launch_wrapper`: the program is a wrapper that starts the real one and exits.
  The harness kills the wrapper and starts the bridge; the real program connects
  natively meanwhile, and `launch_xwayland` takes its connection for the
  bridge's. `Transport::Xwayland` is "connected through the authenticated
  XWayland bridge" (`harness.rs:93`).
- `launch_thread`: a program launched from a thread that ends is killed with the
  thread. `process.rs:26` speaks of the owning process.

Others were met while modelling. The models contain them, and the properties
that would otherwise fail name them as exceptions.
- Launches exclude each other only by the connections they saw at their start
  (`harness.rs:282`), and by the display files (`process.rs:12`), so that two that
  overlap may take each other's program or display. They can mislead a third one
  long after: a program whose launch was given another's connection connects
  late, and an Xwayland adopted for another's display has none. `BoundToOwn` and
  `OwnDisplay` are therefore about seats on which no two launches have
  overlapped.
- A launch that found a connection just before it ended binds it afterwards;
  `app(pid)` then returns it for as long as someone holds it (`seat/mod.rs:643`
  says "when connected").
- Of two concurrent `close()` calls the second finds the handle vectors taken and
  returns while the first still waits for the bridge (`seat/mod.rs:458-459`).
  `BridgesReapedOnReturn` says that a bridge not reaped by then is in the hands of
  a thread that joins it. Connections are closed by then in either case, which is
  what `ClosedOnReturn` says.
- `wl_pointer.leave` from the user's pointer is forwarded without updating
  `pointer_focus`, so the next injected press has no enter before it and still
  returns `Ok` (`seat/input.rs:84`). A destroyed surface stays in `focused_surface`
  and `pointer_focus`; later clicks report success and reach nothing. A second
  `wl_pointer` or `wl_keyboard` is not sent the enter. An enter that fails after
  its leave leaves the old surface recorded. `BeliefIsTruth`, `SuccessLanded` and
  `TextLanded` except a device in `doubt`, until the next enter sent for it.
- Two returns by `?` leave the modifiers of a combination or click down
  (`seat/input.rs:423` for a modifier without a mask, 456 for a keymap that cannot
  be read again); `NothingHeld` excepts just those (`stuck`).
- The user's keyboard leaving the clicked surface clears the agent's desired
  focus (`seat/proxy.rs:876`), and its next key may go to another surface, where
  `seat/input.rs:115-117` says "the same app surface the agent most recently
  clicked". `KeysFollowClick` is about the time until then.
- Without a focused surface, input goes to the surface that has committed most
  often, where `seat/input.rs:72-73` says "most recently".
- The text-input fields are one set for the connection, so a second text input
  is told a serial that counts both; `TextLanded` is about applications that
  commit one.
- `shutdown()` keeps the slot's mutex "until teardown finishes"
  (`seat/mod.rs:314`), but when another thread is in `close()` on the same seat it
  finds the handles taken and returns earlier. `OneSingleton` says where the earlier
  seat is then: in its last stage, its threads being joined by that `close()`.
  `close()` on the process-wide seat leaves it in the slot, and `seat()` goes on
  handing the closed seat out.
- The comment at `seat/mod.rs:390`, "remove a stale one from a crashed run",
  never applies, as the name has a fresh uuid; files of an earlier process with
  the same pid are skipped by the clean-up, and directories of bridges of crashed
  processes (`agent-seat-xwayland-...`) are not looked at by it.
- An application that binds a global after its withdrawal, or whose bind cannot be
  sent, gets an object without a twin. A request on it that creates an object, or
  any such request that cannot be sent, is answered with no data, for which the
  server backend panics (`seat/proxy.rs:528`, 596-608).

## 4. Proofs

Every theorem is for arbitrary sets of whatever the module's constants name,
under the assumptions stated with them (kinds of objects are disjoint, bridges
are connections, and so on). Each proof is the same in outline: an inductive
invariant `IInv`, a lemma per conjunct with one step per action, and the
property as a consequence of `IInv`.

### Life cycle
- `TypeCorrect`: `Spec => []TypeOK`.
- `CloseIsComplete`: `Spec => []ClosedOnReturn`.
- `ClosedStaysClosed`: `Spec => NoAdmissionAfterReturn`.
- `ContractIsImplemented`: `Spec => ImplementsContract`.

`ClosedOnReturn` is not inductive. `IInv` adds why it holds. A closer past the
accept-thread mutex knows that the accept thread is quiet, because whoever took
its handle kept the mutex until the join was over (`HandleTaken`, `AfterJoin`),
and the accept thread holds a strong reference whenever it could still admit
(`AcceptHolds`). An open connection is listed (`OpenIsListed`), so the copy made
by the second pass covers every one (`SecondPassCovers`), and once that pass is
over all are dead (`AllDead`). The mutant that releases the mutex before the
join shows that the lock is essential. For the refinement, `Stages` adds where a
connection is while a list, a copy or a thread holds it; `SealedIsStable` says
that sealing is never undone; `StepIsVisible` sorts the actions into those that
open, end, call, return or do nothing the contract sees.

`SeatReapingProofs` says that nothing is left over:
- `WorkersReaped` (`[]ReapedWhenQuiescent`) and `ListedAreServed`
  (`[]ListedMeansServed`).
- `BridgesReaped` (`[]BridgesReapedOnReturn`): whoever returns from `close()`, a
  bridge adopted before is reaped or being joined; `BridgesReapedInTheEnd` has that
  all are reaped once a `close()` has returned and no thread is in one.
- `DropLeavesNothing`: the safety half of `DropReleases`. When the last reference
  is gone and no thread is in `shutdown_inner`, the socket path is removed, every
  proxy thread has ended, no client is queued, and the accept thread is past its
  loop's body.

Its invariant `WInv` adds to `IInv` that every proxy thread that has not ended is
known to somebody: its handle is in the vector, about to be pushed, taken by a
thread that joins it, or it is itself the thread that runs the shutdown
(`Tracked`, and `BridgesKnown` for bridges); and that a listed connection has a
thread, is about to get one, or is being taken off (`Served`).
`Released` follows the last reference: once nobody has one, a thread is in the
shutdown or one has been through it.

### Launch
- `TypeCorrect`, `Owned` (`[]NothingOrphaned`), `RunOnce` (`[]RunsOnce`).
- `DisplayIsOwn` (`[]OwnDisplay`), `BoundToOwnProcess` (`[]BoundToOwn`), for any
  number of launches of which no two overlap.

`IInv` says for each stage of a launch which of its processes may exist and
whether it has a display, a directory and a reaper (`Stages`, `Bridges`): a child
that is not yet reaped belongs to a launch that is at the stage that reaps it.
`SequentialInv` adds who serves which display and what an earlier launch may
still do: a listening server has its files and belongs to a launch (`Servers`),
any server but the launch's own that still runs has a display already, so that
the one picked stays free until the launch's own takes it (`OwnDisplays`), and a
program that an earlier launch left running has connected already and is
excluded by `before` (`OwnConnections`).

### Input
- `TypeCorrect` (`[]TypeOK`) and `KeysGoWhereClicked` (`KeysFollowClick`).
- `NothingStaysHeld` (`[]NothingHeld`).
- `BeliefsAreTrue` (`[]BeliefIsTruth`), `SuccessfulInputLands` (`[]SuccessLanded`) and
  `SuccessfulTextLands` (`[]TextLanded`).

None has a hypothesis: the user's pointer and keyboard may come and go, there may
be any number of input objects, and any object may be destroyed. The exceptions
are in the formulas, by `doubt` and `stuck`, which section 2 defines.

They are for any surfaces and modifiers, and for lists of modifiers and texts of
any length. The heart is `InjectResult`, what every injection leaves behind,
whether it succeeded or broke off anywhere: the connection and the app's view
are well typed, the target is the focused surface when there is one, what is down
afterwards was down before or is `stuck`, and beliefs that are not in doubt stay
true. It is put together from one lemma for each operator (`SendDoes`,
`KeyboardFocus`, `KeyRawDoes`, `PressModifierDoes`, ...), which relate a run before
and after. The loops are recursive functions on `0 .. n`; their
lemmas (`ReleaseDoes`, `PressDoes`, `TypeDoes`) need an induction, and since the
library's rules for it take an operator, `Upwards` restates induction over
`0 .. n` for a *set* of indices, from the least element of its complement
(`WFMin`), and `Recursion` does the same for the defining equation of such a
function.

### Object maps
- `TypeCorrect`, `Paired` (`[]TwinsInverse`), `Twins` (`[]AliveHasTwin`), `Clean`
  (`[]CleanWhenIdle`), for any number of objects. `Twins` excepts an object whose
  destructor is being sent and one whose bind came to nothing; the latter is in
  neither map, ever.

The heart is what a skipped callback may leave: an entry of the maps whose object
is no longer alive has its object in the queue `ended`, or in the handler under
way, so that `SObj::destroyed` is still to come and removes it. The comment in
`UObj::destroyed` claims just this.

### Capture
For arbitrary objects and files, any integer width `IntMax`, and any sizes and
layouts of that width:
- `CaptureTypeCorrect`: `Spec => []TypeOK`.
- `CaptureStaysInside`: `Spec => []ReadsInsideFile`. The size given to a pool fits
  its file (`PoolsFit`), its copies go on fitting because files only grow
  (`FramesFit`), and row `y` of an accepted frame ends at or before
  `offset + stride * height` (`RowsFit`).
- `CaptureTakesLargest`: `Spec => []LargestIsCaptured`. During the scan the best
  candidate outranks every surface visited (`ScanSound`).
- `CaptureReadsWhatIsShown`: `Spec => []ShownIsReadable`, since the size recorded
  for a pool is never below the one the compositor goes by.
- `FramesSurvive`: `Spec => FrameOutlivesBuffer`.
- `NeedFitsWide`: the sum compared with the pool's size is at most
  `IntMax * IntMax + IntMax`, which for 32-bit fields is below 2^63.

### Processes and socket files
- `TypeCorrect`, `ServingKeepsFile` (`[]ServingSeatHasFile`), `NoFileLeft`
  (`[]FilesAreServed`), `StaleRemoved` (`[]StaleFilesRemoved`), `OneAtATime`
  (`[]OneSingleton`).

An entry chosen for removal belongs to a process that has ended (`DoomedEnded`);
a process that starts later is another one, whatever its pid, so the file cannot
become one that serves before it is removed. A stale entry that is no longer on
the list is doomed or removed, or its pid was in use again (`GoneTracked`). For the
singleton, a seat that `seat()` created is in the slot, or with the thread that
has the mutex, or being torn down by a thread in `close()` (`Tended`), the slot is
empty while the mutex is held (`HostFits`), and a seat whose threads were taken
has the one thread that joins them (`Joined`, `Alone`).

### Only model-checked
Every invariant and every action property of the passing runs is a theorem. What
is left to TLC are the six liveness properties: `DropReleases`,
`ShutdownTerminates`, `GoneIsDelisted`, `LaunchReturns`, `CloseEndsBridges` and
`HandlersReturn`, since liveness under fairness, and ENABLED, are outside the
prover's reach.

## 5. Not modelled, and why

Path look-up and environment variables (I/O), the builder's argument checks,
decoding and colour conversion of pixels, key name and error tables, logging,
conversion of message arguments, and event serials, which only toolkits compare.
dmabuf parameters are tracked by the code, but the interface filter never offers
`zwp_linux_dmabuf_v1`, so no application reaches that path. The queue of actions
has no producer (`send_action` is never called), and the loop only clears it.

`CleanupPaths` (`seat/mod.rs` 98-124, 250-270): `add_cleanup_path` is marked dead
code and called by a unit test only, so the set of paths is always empty.

Of panics only the one of the server backend for a request without data is a step
(of `ProxyTwins`). The handler has given the `Conn` mutex back by then; a panic
under that mutex, which would poison it for every later `lock().unwrap()`, is not
modelled. Clients
still in the listen backlog when `close()` returns stay there until the last
reference drops the listener; the model has this (`FinishDrop`) and no text
promises otherwise. A bridge is adopted after it has connected, as
`adopt_xwayland_bridge` asks; adopting it earlier could make `close()` wait for an
Xwayland nobody closes. Other programs' X servers, which may take a display
between `pick_free_display` and Xwayland's start, are not in `Launch`; another
launch stands for them.

## 6. What could follow

1. A contract for `Launch` (each launch controls its own program or fails
   cleanly) and its refinement; today `NothingOrphaned`, `BoundToOwn` and
   `RunsOnce` say its parts.
2. The safety halves of the other liveness properties, as `DropLeavesNothing` is
   that of `DropReleases`.
3. `SeatInput` without `doubt` and `stuck`, once the code keeps focus and serials
   per object, follows the user's pointer and releases on every early return.
