------------------------------- MODULE Launch --------------------------------
(***************************************************************************)
(* ComputerUse::launch (src/harness.rs) with the child processes, X        *)
(* displays and runtime directories it creates (src/process.rs,            *)
(* start_xwayland_bridge and adopt_xwayland_bridge in src/seat/mod.rs).    *)
(*                                                                         *)
(* launch takes &self, so several launches may be under way on one seat,   *)
(* each by a thread of its own, which also names it here.  A launch starts *)
(* at most three processes: the program on native Wayland, and after that  *)
(* failed an Xwayland server and the program once more as its client.  A   *)
(* program may be a wrapper: it hands over to another process, which is    *)
(* not the harness's child.                                                *)
(*                                                                         *)
(* Time-outs may expire at any moment.  A process opens one connection;    *)
(* the accept loop and the teardown of a seat are in SeatLifecycle, and    *)
(* here a connection is listed or delisted in one step.                    *)
(***************************************************************************)
EXTENDS Naturals, FiniteSets, Sequences, SequencesExt

CONSTANTS Launchers,     \* launches, each by a thread of its own
          Wrappers,      \* those whose program hands over to another process
          ThreadsEnd,    \* the launching thread may end before the harness does
          Displays,      \* the X display numbers there are, 10 .. 98 in the code
          None

ASSUME ScenarioAssumption ==
  /\ Wrappers \subseteq Launchers
  /\ ThreadsEnd \in BOOLEAN
ASSUME DisplayAssumption == Displays \subseteq Nat
ASSUME NoneAssumption == None \notin Displays \cup (Launchers \X {"native", "helper", "xwayland", "x11"})

VARIABLES
  pc,         \* where each launch is in launch and launch_xwayland
  before,     \* connected_pids when the attempt began
  app,        \* the connection found, entered in bound_apps under the child's pid
  proc,       \* the processes
  apps,       \* AgentSeat.apps, oldest first, by the process at the other end
  framed,     \* processes with an app-sized frame (has_interactive_frame)
  painted,    \* those whose frame shows more than one colour
  display,    \* the X display picked for a launch's bridge
  xfiles,     \* displays that have a socket and a lock file
  server,     \* the X server that listens on a display
  dirs,       \* launches whose bridge has a runtime directory
  reapers,    \* launches whose bridge has been adopted, until the reaper ends
  seat,       \* "open" or "closed"
  overlapped  \* launches that were under way together (history)

vars == <<pc, before, app, proc, apps, framed, painted, display, xfiles, server,
          dirs, reapers, seat, overlapped>>
launchVars  == <<pc, before, app, overlapped>>
clientVars  == <<apps, framed, painted>>
bridgeVars  == <<display, xfiles, server, dirs, reapers>>

Native(l)   == <<l, "native">>
Helper(l)   == <<l, "helper">>
Xwayland(l) == <<l, "xwayland">>
X11(l)      == <<l, "x11">>
Processes   == Launchers \X {"native", "helper", "xwayland", "x11"}
Children(l) == {Native(l), Xwayland(l), X11(l)}

Bridging == {"building", "socket", "waiting", "content"}
UnderWay == {"probing", "fallback"} \cup Bridging
Returned == {"native", "xwayland", "failed", "stopped"}

TypeOK ==
  /\ pc \in [Launchers -> {"idle"} \cup UnderWay \cup Returned]
  /\ before \in [Launchers -> SUBSET Processes]
  /\ app \in [Launchers -> Processes \cup {None}]
  /\ proc \in [Processes -> {"unborn", "running", "exited", "killed", "reaped"}]
  /\ apps \in Seq(Processes)
  /\ framed \subseteq Processes /\ painted \subseteq Processes
  /\ display \in [Launchers -> Displays \cup {None}]
  /\ xfiles \subseteq Displays
  /\ server \in [Displays -> Processes \cup {None}]
  /\ dirs \subseteq Launchers /\ reapers \subseteq Launchers
  /\ seat \in {"open", "closed"}
  /\ overlapped \subseteq Launchers

Init ==
  /\ pc = [l \in Launchers |-> "idle"]
  /\ before = [l \in Launchers |-> {}]
  /\ app = [l \in Launchers |-> None]
  /\ proc = [p \in Processes |-> "unborn"]
  /\ apps = <<>> /\ framed = {} /\ painted = {}
  /\ display = [l \in Launchers |-> None]
  /\ xfiles = {} /\ server = [d \in Displays |-> None]
  /\ dirs = {} /\ reapers = {}
  /\ seat = "open" /\ overlapped = {}

Running(p) == proc[p] = "running"
ConnectedPids == Range(apps)
Goto(l, label) == pc' = [pc EXCEPT ![l] = label]

(* launch returns: its locals are gone, a ControlledApp holds p.            *)
Return(l, label, p) ==
  /\ Goto(l, label)
  /\ before' = [before EXCEPT ![l] = {}]
  /\ app' = [app EXCEPT ![l] = p]

(* kill_and_wait, of those of ps that were started.                         *)
KillAndWait(ps) ==
  /\ proc' = [p \in Processes |-> IF p \in ps /\ proc[p] # "unborn" THEN "reaped" ELSE proc[p]]
  /\ server' = [d \in Displays |-> IF server[d] \in ps THEN None ELSE server[d]]

Spawn(p) == proc' = [proc EXCEPT ![p] = "running"]

-----------------------------------------------------------------------------
(* launch: the native attempt.                                              *)

Begin(l) ==
  /\ pc[l] = "idle"
  /\ overlapped' = LET others == {m \in Launchers : pc[m] \in UnderWay}
                   IN  overlapped \cup others \cup (IF others = {} THEN {} ELSE {l})
  /\ \/ /\ Spawn(Native(l)) /\ Goto(l, "probing")
        /\ before' = [before EXCEPT ![l] = ConnectedPids] /\ UNCHANGED app
     \/ UNCHANGED proc /\ Return(l, "failed", None)
  /\ UNCHANGED <<clientVars, bridgeVars, seat>>

(* Mutant: connections that were there before are not left out.             *)
CapturableAnyone(l) == {i \in DOMAIN apps : apps[i] \in framed}

(* new_capturable_app: connections of other processes than before that have *)
(* an app-sized frame, by their place in the list; the newest is taken.     *)
Capturable(l) == {i \in DOMAIN apps : apps[i] \in framed \ before[l]}

NewCapturableApp(l, p) ==
  \E i \in Capturable(l) : p = apps[i] /\ \A j \in Capturable(l) : j <= i

ProbeFinds(l) ==
  /\ pc[l] = "probing"
  /\ \E p \in Processes : NewCapturableApp(l, p) /\ Return(l, "native", p)
  /\ UNCHANGED <<overlapped, proc, clientVars, bridgeVars, seat>>

(* Mutant: the native attempt is left running when the wait for it ends.    *)
GiveUpProbing(l) ==
  /\ pc[l] = "probing"
  /\ Goto(l, "fallback")
  /\ UNCHANGED <<before, app, overlapped, proc, clientVars, bridgeVars, seat>>

(* The time is up, or the child has exited, which ends the wait early: the  *)
(* child is killed and waited for.                                          *)
ProbeEnds(l) ==
  /\ pc[l] = "probing"
  /\ KillAndWait({Native(l)})
  /\ Goto(l, "fallback")
  /\ UNCHANGED <<before, app, overlapped, clientVars, display, xfiles, dirs, reapers, seat>>

(* try_wait fails where the host ignores SIGCHLD and the child has exited,  *)
(* and then the launch fails with it.                                       *)
ProbeFails(l) ==
  /\ pc[l] = "probing" /\ Capturable(l) = {} /\ ~Running(Native(l))
  /\ proc' = [proc EXCEPT ![Native(l)] = "reaped"]
  /\ Return(l, "failed", None)
  /\ UNCHANGED <<overlapped, clientVars, bridgeVars, seat>>

-----------------------------------------------------------------------------
(* launch_xwayland: first start_xwayland_bridge.                            *)

(* Mutant: the first number is taken, used or not.                          *)
PickAnyDisplay(d) == d \in Displays /\ \A e \in Displays : d <= e

PickFreeDisplay(d) == d \in Displays \ xfiles /\ \A e \in Displays \ xfiles : d <= e

(* Mutant: the search for a display starts one number too low.             *)
StartBridgeBelow(l) ==
  /\ pc[l] = "fallback"
  /\ \/ /\ \E d \in Displays : PickFreeDisplay(d) /\ display' = [display EXCEPT ![l] = d - 1]
        /\ before' = [before EXCEPT ![l] = ConnectedPids]
        /\ Goto(l, "building") /\ UNCHANGED app
     \/ UNCHANGED display /\ Return(l, "failed", None)
  /\ UNCHANGED <<overlapped, proc, clientVars, xfiles, server, dirs, reapers, seat>>

(* No bridge is possible: its geometry is too small, Xwayland is missing or *)
(* no display number is free.                                               *)
StartBridge(l) ==
  /\ pc[l] = "fallback"
  /\ \/ /\ \E d \in Displays : PickFreeDisplay(d) /\ display' = [display EXCEPT ![l] = d]
        /\ before' = [before EXCEPT ![l] = ConnectedPids]
        /\ Goto(l, "building") /\ UNCHANGED app
     \/ UNCHANGED display /\ Return(l, "failed", None)
  /\ UNCHANGED <<overlapped, proc, clientVars, xfiles, server, dirs, reapers, seat>>

(* Mutant: an Xwayland that cannot be started leaves its directory.         *)
BuildBridgeLeaves(l) ==
  /\ pc[l] = "building"
  /\ dirs' = dirs \cup {l}
  /\ \/ Spawn(Xwayland(l)) /\ Goto(l, "socket") /\ UNCHANGED <<before, app, display>>
     \/ UNCHANGED proc /\ Return(l, "failed", None) /\ display' = [display EXCEPT ![l] = None]
  /\ UNCHANGED <<overlapped, clientVars, xfiles, server, reapers, seat>>

(* The directory is made, xauth writes the cookie into it and Xwayland is   *)
(* started; whichever of these fails, or a chmod, the directory goes again. *)
BuildBridge(l) ==
  /\ pc[l] = "building"
  /\ \/ /\ Spawn(Xwayland(l)) /\ dirs' = dirs \cup {l}
        /\ Goto(l, "socket") /\ UNCHANGED <<before, app, display>>
     \/ /\ Return(l, "failed", None) /\ display' = [display EXCEPT ![l] = None]
        /\ UNCHANGED <<proc, dirs>>
  /\ UNCHANGED <<overlapped, clientVars, xfiles, server, reapers, seat>>

(* The launch fails with its bridge up: the child, if there is one, is      *)
(* killed, and XwaylandBridge::stop kills the server and removes its        *)
(* directory (Drop, or the start-up path itself).                           *)
UndoBridge(l) ==
  /\ KillAndWait({Xwayland(l), X11(l)})
  /\ dirs' = dirs \ {l}
  /\ display' = [display EXCEPT ![l] = None]

(* The server exited during start-up, or five seconds went by.              *)
SocketMissing(l) ==
  /\ pc[l] = "socket"
  /\ UndoBridge(l) /\ Return(l, "failed", None)
  /\ UNCHANGED <<overlapped, clientVars, xfiles, reapers, seat>>

(* socket.exists() is asked before the server is: whoever made the socket,  *)
(* the bridge counts as started.  The program is started again as an X      *)
(* client; when that fails the bridge is dropped.                           *)
SpawnClient(l) ==
  /\ pc[l] = "socket" /\ display[l] \in xfiles
  /\ \/ /\ Spawn(X11(l)) /\ Goto(l, "waiting")
        /\ UNCHANGED <<before, app, display, server, dirs>>
     \/ UndoBridge(l) /\ Return(l, "failed", None)
  /\ UNCHANGED <<overlapped, clientVars, xfiles, reapers, seat>>

WaitFinds(l) ==
  /\ pc[l] = "waiting"
  /\ \E p \in Processes : NewCapturableApp(l, p) /\ app' = [app EXCEPT ![l] = p]
  /\ Goto(l, "content")
  /\ UNCHANGED <<before, overlapped, proc, clientVars, bridgeVars, seat>>

(* Mutant: a connection that never paints is waited for without a deadline. *)
FallbackTimeoutOnce(l) ==
  /\ pc[l] = "waiting"
  /\ UndoBridge(l) /\ Return(l, "failed", None)
  /\ UNCHANGED <<overlapped, clientVars, xfiles, reapers, seat>>

(* No connection, or none that paints, by the deadline.                     *)
FallbackTimeout(l) ==
  /\ pc[l] \in {"waiting", "content"}
  /\ UndoBridge(l) /\ Return(l, "failed", None)
  /\ UNCHANGED <<overlapped, clientVars, xfiles, reapers, seat>>

(* The frame shows content: the connection is bound and the bridge handed   *)
(* to a reaper thread; when that thread cannot be started the binding is    *)
(* all that stays.                                                          *)
AdoptBridge(l) ==
  /\ pc[l] = "content" /\ app[l] \in painted
  /\ \/ /\ reapers' = reapers \cup {l} /\ Return(l, "xwayland", app[l])
        /\ UNCHANGED <<proc, server, dirs, display>>
     \/ UndoBridge(l) /\ Return(l, "failed", app[l]) /\ UNCHANGED reapers
  /\ UNCHANGED <<overlapped, clientVars, xfiles, seat>>

-----------------------------------------------------------------------------
(* After the launch.                                                        *)

(* ControlledApp::stop, also by Drop: the child is the process of the       *)
(* attempt that succeeded.                                                  *)
StopApp(l) ==
  /\ \/ pc[l] = "native" /\ KillAndWait({Native(l)})
     \/ pc[l] = "xwayland" /\ KillAndWait({X11(l)})
  /\ Return(l, "stopped", None)
  /\ UNCHANGED <<overlapped, clientVars, display, xfiles, dirs, reapers, seat>>

(* Mutant: the credentials stay.                                            *)
ReapOnly(l) ==
  /\ l \in reapers /\ ~Running(Xwayland(l))
  /\ proc' = [proc EXCEPT ![Xwayland(l)] = "reaped"]
  /\ reapers' = reapers \ {l}
  /\ display' = [display EXCEPT ![l] = None]
  /\ UNCHANGED <<launchVars, clientVars, xfiles, server, dirs, seat>>

(* The reaper thread waits for the server and removes its directory.        *)
Reap(l) ==
  /\ l \in reapers /\ ~Running(Xwayland(l))
  /\ proc' = [proc EXCEPT ![Xwayland(l)] = "reaped"]
  /\ reapers' = reapers \ {l} /\ dirs' = dirs \ {l}
  /\ display' = [display EXCEPT ![l] = None]
  /\ UNCHANGED <<launchVars, clientVars, xfiles, server, seat>>

(* The frames of ps that are left when their connections are delisted: those*)
(* of a connection a launch has its hands on.                               *)
Held(frames, ps) == frames \ {p \in ps : \A l \in Launchers : app[l] # p}

(* close, or Drop of the harness: every connection ends (SeatLifecycle).    *)
Close ==
  /\ seat = "open"
  /\ seat' = "closed" /\ apps' = <<>>
  /\ framed' = Held(framed, Processes) /\ painted' = Held(painted, Processes)
  /\ UNCHANGED <<launchVars, proc, bridgeVars>>

(* PR_SET_PDEATHSIG, set in spawn_owned_child, is about the thread that     *)
(* forked: when it ends, the kernel kills the children it started.          *)
ThreadEnds(l) ==
  /\ ThreadsEnd /\ pc[l] \in Returned
  /\ \E p \in Children(l) : Running(p)
  /\ proc' = [p \in Processes |-> IF p \in Children(l) /\ Running(p) THEN "killed" ELSE proc[p]]
  /\ server' = [d \in Displays |-> IF server[d] \in Children(l) THEN None ELSE server[d]]
  /\ UNCHANGED <<launchVars, clientVars, display, xfiles, dirs, reapers, seat>>

-----------------------------------------------------------------------------
(* The processes.                                                           *)

HandOver(l) ==
  /\ l \in Wrappers /\ Running(Native(l)) /\ proc[Helper(l)] = "unborn"
  /\ Spawn(Helper(l))
  /\ UNCHANGED <<launchVars, clientVars, bridgeVars, seat>>

(* A connection is listed.  A wrapper opens none itself; an Xwayland opens  *)
(* its own when it serves a display, and its root window is a frame.        *)
Connect(l, p) ==
  /\ seat = "open" /\ Running(p) /\ p \notin Range(apps)
  /\ \/ p = Native(l) /\ l \notin Wrappers
     \/ p = Helper(l)
     \/ p = Xwayland(l) /\ display[l] # None /\ server[display[l]] = p
  /\ apps' = Append(apps, p)
  /\ framed' = IF p = Xwayland(l) THEN framed \cup {p} ELSE framed
  /\ UNCHANGED <<launchVars, proc, painted, bridgeVars, seat>>

(* A program draws its window.  Through a bridge it needs the server that   *)
(* holds its cookie.                                                        *)
Draw(l, p) ==
  /\ Running(p) /\ p \notin painted
  /\ \/ p \in {Native(l), Helper(l)} /\ p \in Range(apps)
     \/ p = Xwayland(l) /\ p \in Range(apps) /\ Running(X11(l))
  /\ framed' = framed \cup {p}
  /\ painted' = painted \cup {p}
  /\ UNCHANGED <<launchVars, proc, apps, bridgeVars, seat>>

(* An X server takes its display when it is still free, and gives up when   *)
(* it is not.                                                               *)
Serve(l) ==
  /\ Running(Xwayland(l)) /\ \A d \in Displays : server[d] # Xwayland(l)
  /\ display[l] \notin xfiles
  /\ xfiles' = xfiles \cup {display[l]}
  /\ server' = [server EXCEPT ![display[l]] = Xwayland(l)]
  /\ UNCHANGED <<launchVars, clientVars, proc, display, dirs, reapers, seat>>

(* A process ends by itself; an X server takes its socket and its lock file *)
(* away, which one that is killed cannot.                                   *)
Exit(p) ==
  /\ Running(p)
  /\ proc' = [proc EXCEPT ![p] = "exited"]
  /\ xfiles' = xfiles \ {d \in Displays : server[d] = p}
  /\ server' = [d \in Displays |-> IF server[d] = p THEN None ELSE server[d]]
  /\ UNCHANGED <<launchVars, clientVars, display, dirs, reapers, seat>>

(* remove_app for a connection whose process has gone.                      *)
Delist(p) ==
  /\ ~Running(p)
  /\ \E i \in DOMAIN apps : apps[i] = p /\ apps' = RemoveAt(apps, i)
  /\ framed' = Held(framed, {p}) /\ painted' = Held(painted, {p})
  /\ UNCHANGED <<launchVars, proc, bridgeVars, seat>>

-----------------------------------------------------------------------------
LaunchStep(l) ==
  \/ Begin(l) \/ ProbeFinds(l) \/ ProbeEnds(l) \/ ProbeFails(l)
  \/ StartBridge(l) \/ BuildBridge(l) \/ SocketMissing(l) \/ SpawnClient(l)
  \/ WaitFinds(l) \/ FallbackTimeout(l) \/ AdoptBridge(l)

Environment ==
  \/ \E l \in Launchers : StopApp(l) \/ Reap(l) \/ ThreadEnds(l) \/ HandOver(l) \/ Serve(l)
  \/ \E l \in Launchers, p \in Processes : Connect(l, p) \/ Draw(l, p)
  \/ \E p \in Processes : Exit(p) \/ Delist(p)
  \/ Close

Next == (\E l \in Launchers : LaunchStep(l)) \/ Environment

(* A launching thread goes on until it returns, its deadlines included; a   *)
(* reaper thread runs; Xwayland exits when the seat has closed on it.       *)
Fairness ==
  \A l \in Launchers :
    /\ WF_vars(pc[l] # "idle" /\ LaunchStep(l))
    /\ WF_vars(Reap(l))
    /\ WF_vars(seat = "closed" /\ Exit(Xwayland(l)))

Spec == Init /\ [][Next]_vars
FairSpec == Spec /\ Fairness
-----------------------------------------------------------------------------
(* Whatever a launch started is somebody's to stop: a launch that failed    *)
(* leaves no child, no bridge and no credential directory, on any of its    *)
(* error paths; a bridge has a directory exactly while its launch is        *)
(* building it or a reaper thread waits for it (start_xwayland_bridge,      *)
(* adopt_xwayland_bridge, Drop for XwaylandBridge).                         *)
NothingOrphaned ==
  \A l \in Launchers :
    /\ pc[l] = "failed" => \A p \in Children(l) : proc[p] \in {"unborn", "reaped"}
    /\ proc[Xwayland(l)] \in {"running", "exited", "killed"} => l \in dirs
    /\ l \in dirs => pc[l] \in Bridging \/ l \in reapers

(* The program never runs twice for one launch: the native attempt has been *)
(* waited for before the fallback starts it again (kill_and_wait in launch).*)
RunsOnce == \A l \in Launchers : ~(Running(Native(l)) /\ Running(X11(l)))

(* Launches that come one after another each return the connection of a     *)
(* process they started, by the transport they report, whatever the ones    *)
(* before left connected (new_capturable_app, "bound to its exact seat      *)
(* connection"); no program is a wrapper.  Two launches that overlapped can *)
(* also mislead a third one long after.                                     *)
BoundToOwn ==
  overlapped \cup Wrappers = {} => \A l \in Launchers :
    /\ pc[l] = "native" => app[l] = Native(l)
    /\ pc[l] = "xwayland" => app[l] = Xwayland(l)

(* The display a client is pointed at is its own bridge's or nobody's any   *)
(* more, if launches come one after another (pick_free_display;             *)
(* socket.exists()).                                                        *)
OwnDisplay ==
  overlapped = {} => \A l \in Launchers :
    pc[l] \in {"waiting", "content"} => server[display[l]] \in {Xwayland(l), None}

(* What Transport says is true: native is a connection of the program, and  *)
(* XWayland is one through the bridge (harness.rs, enum Transport).         *)
TransportTruthful ==
  \A l \in Launchers :
    /\ pc[l] = "native" => \A m \in Launchers : app[l] # Xwayland(m)
    /\ pc[l] = "xwayland" => \E m \in Launchers : app[l] = Xwayland(m)

(* A program that was launched and not stopped is not killed: only the end  *)
(* of the harness's process is to do that (spawn_owned_child).              *)
KilledOnlyByStop ==
  \A l \in Launchers : /\ pc[l] = "native" => proc[Native(l)] # "killed"
                       /\ pc[l] = "xwayland" => proc[X11(l)] # "killed"

(* Every launch returns, however the program, the bridge and the other      *)
(* launches behave.                                                         *)
LaunchReturns == \A l \in Launchers : pc[l] \in UnderWay ~> pc[l] \in Returned

(* Once the seat is closed every bridge and its credentials go for good,    *)
(* also those of launches under way and those adopted afterwards.           *)
CloseEndsBridges == seat = "closed" ~> [](dirs = {})
=============================================================================
