---------------------------- MODULE SeatLifecycle ----------------------------
(***************************************************************************)
(* The life of one AgentSeat (src/seat/mod.rs): the accept thread, one     *)
(* proxy thread per admitted connection, the threads of the program that   *)
(* hold an Arc of the seat and may call close(), the reaper threads of     *)
(* adopted XWayland bridges, and the launches that look a connection up    *)
(* and bind it.                                                            *)
(*                                                                         *)
(* shutdown_inner() is run by whoever calls close() and also by Drop, on   *)
(* the thread that drops the last Arc of the seat; that may be the accept  *)
(* thread or a proxy thread, which upgrade their Weak reference for a      *)
(* moment.  A mutex held for one statement is one action; the accept       *)
(* thread's mutex, which stays locked while its owner joins the thread, is *)
(* a variable.                                                             *)
(***************************************************************************)
EXTENDS FiniteSets

CONSTANTS Conns,        \* client connections; a proxy thread is named by its own
          Bridges,      \* the connections whose client is an adopted Xwayland
          Closers,      \* threads of the program, each with an Arc of the seat
          Launchers,    \* ComputerUse::launch calls and the ControlledApp they return
          Acceptor,     \* the accept thread
          NoThread, NoConn

ASSUME BridgesAssumption == Bridges \subseteq Conns
ASSUME ThreadsAssumption == /\ Conns \cap Closers = {}
                            /\ Acceptor \notin Conns \cup Closers
                            /\ NoThread \notin Conns \cup Closers \cup {Acceptor}
                            /\ NoConn \notin Conns

Threads == Closers \cup Conns \cup {Acceptor}

VARIABLES
  pc,             \* where each thread is
  strong,         \* threads that hold a strong reference to the seat
  stopping,       \* AgentSeat.stopping
  socketRemoved,  \* AgentSeat.socket_removed
  socketUp,       \* the socket path exists in the runtime directory
  acceptHandle,   \* AgentSeat.accept_thread is Some
  acceptLock,     \* the thread that holds the accept_thread mutex across steps
  apps,           \* AgentSeat.apps
  bound,          \* connections with an entry in AgentSeat.bound_apps
  handles,        \* AgentSeat.proxy_threads
  bridgeHandles,  \* AgentSeat.bridge_threads
  stage,          \* how far each client connection has come
  current,        \* the connection the accept thread is working on
  dead,           \* connections with Conn.dead set and the upstream shut down
  gone,           \* connections whose client has exited
  bridge,         \* the reaper thread of each bridge ("late" is "adopted" after
                  \* a close() had begun, a distinction only properties make)
  work,           \* the local vector a thread iterates in shutdown_inner
  launch,         \* where each launch is
  target          \* the connection a launch holds an Arc<SeatApp> of

seatVars   == <<stopping, socketRemoved, socketUp, acceptHandle, acceptLock>>
tableVars  == <<apps, bound, handles, bridgeHandles>>
connVars   == <<stage, current, dead, gone>>
launchVars == <<launch, target>>
vars == <<pc, strong, seatVars, tableVars, connVars, bridge, work, launchVars>>

FirstPass  == {"stop", "unlink", "removeFile", "snapshot1", "closeAll1", "lockAccept"}
SecondPass == {"snapshot2", "closeAll2"}
Reaping    == {"takeProxies", "joinProxies", "takeBridges", "joinBridges",
               "clearApps", "clearBound"}
ShutdownPC == FirstPass \cup {"joinAccept"} \cup SecondPass \cup Reaping

AcceptBusy == {"checkStop", "accept", "setup", "checkAgain", "pushApp", "spawn",
               "pushHandle", "failClose", "failApps", "failBound", "endAccept"}
ProxyLoop    == {"check", "poll"}
ProxyCleanup == {"closeConn", "upgradeSeat", "removeApp", "removeBound", "dropSeat"}

TypeOK ==
  /\ pc \in [Threads -> ShutdownPC \cup AcceptBusy \cup ProxyLoop \cup ProxyCleanup
                          \cup {"none", "upgrade", "idle", "returned", "exited"}]
  /\ strong \subseteq Threads
  /\ stopping \in BOOLEAN /\ socketRemoved \in BOOLEAN /\ socketUp \in BOOLEAN
  /\ acceptHandle \in BOOLEAN
  /\ acceptLock \in Threads \cup {NoThread}
  /\ apps \subseteq Conns /\ bound \subseteq Conns /\ handles \subseteq Conns
  /\ bridgeHandles \subseteq Bridges
  /\ stage \in [Conns -> {"new", "queued", "accepted", "refused", "proxied"}]
  /\ current \in Conns \cup {NoConn}
  /\ dead \subseteq Conns /\ gone \subseteq Conns
  /\ bridge \in [Bridges -> {"none", "adopted", "late", "reaped"}]
  /\ work \in [Threads -> SUBSET Conns]
  /\ launch \in [Launchers -> {"idle", "found", "bound", "stopped"}]
  /\ target \in [Launchers -> Conns \cup {NoConn}]

Init ==
  /\ pc = [t \in Threads |-> IF t \in Closers THEN "idle"
                             ELSE IF t \in Conns THEN "none" ELSE "upgrade"]
  /\ strong = Closers
  /\ stopping = FALSE /\ socketRemoved = FALSE /\ socketUp = TRUE
  /\ acceptHandle = TRUE /\ acceptLock = NoThread
  /\ apps = {} /\ bound = {} /\ handles = {} /\ bridgeHandles = {}
  /\ stage = [c \in Conns |-> "new"]
  /\ current = NoConn
  /\ dead = {} /\ gone = {}
  /\ bridge = [b \in Bridges |-> "none"]
  /\ work = [t \in Threads |-> {}]
  /\ launch = [l \in Launchers |-> "idle"]
  /\ target = [l \in Launchers |-> NoConn]

Goto(t, label) == pc' = [pc EXCEPT ![t] = label]

Admitted == {c \in Conns : stage[c] = "proxied"}

(* close_connection: Conn.dead is set and the upstream socket shut down     *)
(* under the conn lock; killing the client and waking the poller follow     *)
(* outside it, are idempotent and are read by nobody here.                  *)
CloseConnection(c) == dead' = dead \cup {c}

(* Some Arc<SeatApp> of c is left, so that a Weak in bound_apps upgrades:   *)
(* in the list or a clone of it, on its proxy thread or the accept thread,  *)
(* in a launch.                                                             *)
AppAlive(c) ==
  \/ c \in apps \/ c = current
  \/ pc[c] \notin {"none", "exited"}
  \/ \E t \in Threads : pc[t] \in {"closeAll1", "closeAll2"} /\ c \in work[t]
  \/ \E l \in Launchers : launch[l] \in {"found", "bound"} /\ target[l] = c

(* The second half of remove_app: retain drops the bindings of c and every  *)
(* binding that no longer upgrades.                                         *)
RetainBound(c) == bound' = {d \in bound \ {c} : AppAlive(d)}

(* Dropping an Arc of the seat: the last one runs Drop, hence               *)
(* shutdown_inner, on this very thread.                                     *)
DropSeat(t, label) ==
  /\ strong' = strong \ {t}
  /\ Goto(t, IF strong \ {t} = {} THEN "stop" ELSE label)

-----------------------------------------------------------------------------
(* shutdown_inner, run by any thread t.                                     *)

StoreStopping(t) ==
  /\ pc[t] = "stop"
  /\ stopping' = TRUE
  /\ Goto(t, "unlink")
  /\ UNCHANGED <<strong, socketRemoved, socketUp, acceptHandle, acceptLock,
                 tableVars, connVars, bridge, work, launchVars>>

(* remove_socket_path: only the thread that flips the flag unlinks.         *)
SwapSocketRemoved(t) ==
  /\ pc[t] = "unlink"
  /\ socketRemoved' = TRUE
  /\ Goto(t, IF socketRemoved THEN "snapshot1" ELSE "removeFile")
  /\ UNCHANGED <<strong, stopping, socketUp, acceptHandle, acceptLock,
                 tableVars, connVars, bridge, work, launchVars>>

RemoveSocketFile(t) ==
  /\ pc[t] = "removeFile"
  /\ socketUp' = FALSE
  /\ Goto(t, "snapshot1")
  /\ UNCHANGED <<strong, stopping, socketRemoved, acceptHandle, acceptLock,
                 tableVars, connVars, bridge, work, launchVars>>

(* Mutant: the list is not read again after the accept thread is joined.    *)
SnapshotAppsOnce(t) ==
  \E pass \in {<<"snapshot1", "closeAll1", "lockAccept", apps>>,
               <<"snapshot2", "closeAll2", "takeProxies", {}>>} :
    /\ pc[t] = pass[1]
    /\ work' = [work EXCEPT ![t] = pass[4]]
    /\ Goto(t, IF pass[4] = {} THEN pass[3] ELSE pass[2])
    /\ UNCHANGED <<strong, seatVars, tableVars, connVars, bridge, launchVars>>

(* close_active_connections clones the list and closes each element; it is  *)
(* called once before the accept thread is joined and once after.           *)
SnapshotApps(t) ==
  \E pass \in {<<"snapshot1", "closeAll1", "lockAccept">>,
               <<"snapshot2", "closeAll2", "takeProxies">>} :
    /\ pc[t] = pass[1]
    /\ work' = [work EXCEPT ![t] = apps]
    /\ Goto(t, IF apps = {} THEN pass[3] ELSE pass[2])
    /\ UNCHANGED <<strong, seatVars, tableVars, connVars, bridge, launchVars>>

CloseActiveConnection(t) ==
  \E pass \in {<<"closeAll1", "lockAccept">>, <<"closeAll2", "takeProxies">>},
     c \in work[t] :
    /\ pc[t] = pass[1]
    /\ CloseConnection(c)
    /\ work' = [work EXCEPT ![t] = @ \ {c}]
    /\ Goto(t, IF work[t] = {c} THEN pass[2] ELSE pass[1])
    /\ UNCHANGED <<strong, seatVars, tableVars, stage, current, gone, bridge, launchVars>>

(* Mutant: the guard dies before the join, as in the 2024 edition.          *)
TakeAcceptHandleUnlocked(t) ==
  /\ pc[t] = "lockAccept"
  /\ acceptHandle' = FALSE
  /\ Goto(t, IF acceptHandle /\ t # Acceptor THEN "joinAccept" ELSE "snapshot2")
  /\ UNCHANGED <<strong, stopping, socketRemoved, socketUp, acceptLock,
                 tableVars, connVars, bridge, work, launchVars>>

(* `if let Some(handle) = self.accept_thread.lock().unwrap().take()`: in    *)
(* this edition the guard lives until the end of the `if let`, so the mutex *)
(* stays locked through the join.  join_thread skips the calling thread.    *)
TakeAcceptHandle(t) ==
  /\ pc[t] = "lockAccept"
  /\ acceptLock = NoThread
  /\ acceptHandle' = FALSE
  /\ \/ acceptHandle /\ t # Acceptor /\ acceptLock' = t /\ Goto(t, "joinAccept")
     \/ ~(acceptHandle /\ t # Acceptor) /\ UNCHANGED acceptLock /\ Goto(t, "snapshot2")
  /\ UNCHANGED <<strong, stopping, socketRemoved, socketUp,
                 tableVars, connVars, bridge, work, launchVars>>

(* Mutant: the handle is dropped, which detaches the thread.                *)
JoinAcceptDetaches(t) ==
  /\ pc[t] = "joinAccept"
  /\ acceptLock' = NoThread
  /\ Goto(t, "snapshot2")
  /\ UNCHANGED <<strong, stopping, socketRemoved, socketUp, acceptHandle,
                 tableVars, connVars, bridge, work, launchVars>>

JoinAccept(t) ==
  /\ pc[t] = "joinAccept"
  /\ pc[Acceptor] = "exited"
  /\ acceptLock' = NoThread
  /\ Goto(t, "snapshot2")
  /\ UNCHANGED <<strong, stopping, socketRemoved, socketUp, acceptHandle,
                 tableVars, connVars, bridge, work, launchVars>>

TakeProxyHandles(t) ==
  /\ pc[t] = "takeProxies"
  /\ work' = [work EXCEPT ![t] = handles]
  /\ handles' = {}
  /\ Goto(t, "joinProxies")
  /\ UNCHANGED <<strong, seatVars, apps, bound, bridgeHandles, connVars, bridge, launchVars>>

(* Mutant: join_thread without its test for the calling thread.             *)
JoinProxiesAndSelf(t) ==
  /\ pc[t] = "joinProxies"
  /\ \A c \in work[t] : pc[c] = "exited"
  /\ Goto(t, "takeBridges")
  /\ UNCHANGED <<strong, seatVars, tableVars, connVars, bridge, work, launchVars>>

JoinProxies(t) ==
  /\ pc[t] = "joinProxies"
  /\ \A c \in work[t] \ {t} : pc[c] = "exited"
  /\ Goto(t, "takeBridges")
  /\ UNCHANGED <<strong, seatVars, tableVars, connVars, bridge, work, launchVars>>

TakeBridgeHandles(t) ==
  /\ pc[t] = "takeBridges"
  /\ work' = [work EXCEPT ![t] = bridgeHandles]
  /\ bridgeHandles' = {}
  /\ Goto(t, "joinBridges")
  /\ UNCHANGED <<strong, seatVars, apps, bound, handles, connVars, bridge, launchVars>>

JoinBridges(t) ==
  /\ pc[t] = "joinBridges"
  /\ \A b \in work[t] : bridge[b] = "reaped"
  /\ Goto(t, "clearApps")
  /\ work' = [work EXCEPT ![t] = {}]
  /\ UNCHANGED <<strong, seatVars, tableVars, connVars, bridge, launchVars>>

ClearApps(t) ==
  /\ pc[t] = "clearApps"
  /\ apps' = {}
  /\ Goto(t, "clearBound")
  /\ UNCHANGED <<strong, seatVars, bound, handles, bridgeHandles, connVars,
                 bridge, work, launchVars>>

(* The return of shutdown_inner into close().                               *)
ReturnFromClose(t) ==
  /\ pc[t] = "clearBound" /\ t \in strong
  /\ bound' = {}
  /\ Goto(t, "returned")
  /\ UNCHANGED <<strong, seatVars, apps, handles, bridgeHandles, connVars,
                 bridge, work, launchVars>>

(* The return of shutdown_inner out of Drop, after which the fields are     *)
(* dropped: the listener resets what is still queued.                       *)
FinishDrop(t) ==
  /\ pc[t] = "clearBound" /\ t \notin strong
  /\ bound' = {}
  /\ Goto(t, IF t = Acceptor THEN "upgrade" ELSE "exited")
  /\ stage' = [c \in Conns |-> IF stage[c] = "queued" THEN "refused" ELSE stage[c]]
  /\ UNCHANGED <<strong, seatVars, apps, handles, bridgeHandles, current, dead, gone,
                 bridge, work, launchVars>>

ShutdownStep(t) ==
  \/ StoreStopping(t) \/ SwapSocketRemoved(t) \/ RemoveSocketFile(t)
  \/ SnapshotApps(t) \/ CloseActiveConnection(t)
  \/ TakeAcceptHandle(t) \/ JoinAccept(t)
  \/ TakeProxyHandles(t) \/ JoinProxies(t)
  \/ TakeBridgeHandles(t) \/ JoinBridges(t)
  \/ ClearApps(t) \/ ReturnFromClose(t) \/ FinishDrop(t)

-----------------------------------------------------------------------------
(* The program's threads: close(), any number of times, then drop the Arc.  *)

Close(k) ==
  /\ pc[k] \in {"idle", "returned"}
  /\ Goto(k, "stop")
  /\ UNCHANGED <<strong, seatVars, tableVars, connVars, bridge, work, launchVars>>

DropArc(k) ==
  /\ pc[k] \in {"idle", "returned"}
  /\ DropSeat(k, "exited")
  /\ UNCHANGED <<seatVars, tableVars, connVars, bridge, work, launchVars>>

-----------------------------------------------------------------------------
(* The accept thread.                                                       *)

UpgradeAccept ==
  /\ pc[Acceptor] = "upgrade"
  /\ IF strong = {}
       THEN UNCHANGED strong /\ Goto(Acceptor, "exited")
       ELSE strong' = strong \cup {Acceptor} /\ Goto(Acceptor, "checkStop")
  /\ UNCHANGED <<seatVars, tableVars, connVars, bridge, work, launchVars>>

(* Mutant: the accept loop goes on whatever `stopping` says.                *)
CheckStopIgnored ==
  /\ pc[Acceptor] = "checkStop"
  /\ Goto(Acceptor, "accept")
  /\ UNCHANGED <<strong, seatVars, tableVars, connVars, bridge, work, launchVars>>

(* `break` leaves the loop with the upgraded Arc, which is dropped on exit. *)
CheckStop ==
  /\ pc[Acceptor] = "checkStop"
  /\ IF stopping THEN DropSeat(Acceptor, "exited")
                 ELSE UNCHANGED strong /\ Goto(Acceptor, "accept")
  /\ UNCHANGED <<seatVars, tableVars, connVars, bridge, work, launchVars>>

(* listener.accept() with nothing queued, or failing: sleep and go round.   *)
AcceptNothing ==
  /\ pc[Acceptor] = "accept"
  /\ Goto(Acceptor, "endAccept")
  /\ UNCHANGED <<strong, seatVars, tableVars, connVars, bridge, work, launchVars>>

AcceptClient(c) ==
  /\ pc[Acceptor] = "accept"
  /\ stage[c] = "queued"
  /\ stage' = [stage EXCEPT ![c] = "accepted"]
  /\ current' = c
  /\ Goto(Acceptor, "setup")
  /\ UNCHANGED <<strong, seatVars, tableVars, dead, gone, bridge, work, launchVars>>

(* Mutant: no return after a failed setup.                                  *)
RefuseClientFallsThrough ==
  /\ pc[Acceptor] = "setup"
  /\ stage' = [stage EXCEPT ![current] = "refused"]
  /\ current' = NoConn
  /\ Goto(Acceptor, "pushApp")
  /\ UNCHANGED <<strong, seatVars, tableVars, dead, gone, bridge, work, launchVars>>

(* A peer of another user, no compositor, or proxy::setup failing (it gives *)
(* up after three seconds): the stream is dropped.                          *)
RefuseClient ==
  /\ pc[Acceptor] = "setup"
  /\ stage' = [stage EXCEPT ![current] = "refused"]
  /\ current' = NoConn
  /\ Goto(Acceptor, "endAccept")
  /\ UNCHANGED <<strong, seatVars, tableVars, dead, gone, bridge, work, launchVars>>

SetupDone ==
  /\ pc[Acceptor] = "setup"
  /\ Goto(Acceptor, "checkAgain")
  /\ UNCHANGED <<strong, seatVars, tableVars, connVars, bridge, work, launchVars>>

(* The match guard on `stopping`; Poller::new may fail as well.             *)
CheckAgain ==
  /\ pc[Acceptor] = "checkAgain"
  /\ \/ /\ stage' = [stage EXCEPT ![current] = "refused"]
        /\ current' = NoConn
        /\ Goto(Acceptor, "endAccept")
     \/ /\ ~stopping
        /\ UNCHANGED <<stage, current>>
        /\ Goto(Acceptor, "pushApp")
  /\ UNCHANGED <<strong, seatVars, tableVars, dead, gone, bridge, work, launchVars>>

PushApp ==
  /\ pc[Acceptor] = "pushApp"
  /\ apps' = apps \cup {current}
  /\ stage' = [stage EXCEPT ![current] = "proxied"]
  /\ Goto(Acceptor, "spawn")
  /\ UNCHANGED <<strong, seatVars, bound, handles, bridgeHandles, current, dead, gone,
                 bridge, work, launchVars>>

SpawnProxy ==
  /\ pc[Acceptor] = "spawn"
  /\ pc' = [pc EXCEPT ![Acceptor] = "pushHandle", ![current] = "check"]
  /\ UNCHANGED <<strong, seatVars, tableVars, connVars, bridge, work, launchVars>>

(* Mutant: the handle of the proxy thread is not kept.                      *)
PushHandleForgets ==
  /\ pc[Acceptor] = "pushHandle"
  /\ current' = NoConn
  /\ Goto(Acceptor, "endAccept")
  /\ UNCHANGED <<strong, seatVars, tableVars, stage, dead, gone, bridge, work, launchVars>>

PushHandle ==
  /\ pc[Acceptor] = "pushHandle"
  /\ handles' = handles \cup {current}
  /\ current' = NoConn
  /\ Goto(Acceptor, "endAccept")
  /\ UNCHANGED <<strong, seatVars, apps, bound, bridgeHandles, stage, dead, gone,
                 bridge, work, launchVars>>

(* Thread creation failed: close, clean up and remove on this thread, which *)
(* dropping the unspawned closure's ProxyLoopCleanup has already done once.  *)
SpawnFails ==
  /\ pc[Acceptor] = "spawn"
  /\ Goto(Acceptor, "failClose")
  /\ UNCHANGED <<strong, seatVars, tableVars, connVars, bridge, work, launchVars>>

FailClose ==
  /\ pc[Acceptor] = "failClose"
  /\ CloseConnection(current)
  /\ Goto(Acceptor, "failApps")
  /\ UNCHANGED <<strong, seatVars, tableVars, stage, current, gone, bridge, work, launchVars>>

(* Mutant: a failed thread creation leaves the app in the list.             *)
FailRemoveAppForgets ==
  /\ pc[Acceptor] = "failApps"
  /\ Goto(Acceptor, "failBound")
  /\ UNCHANGED <<strong, seatVars, tableVars, connVars, bridge, work, launchVars>>

FailRemoveApp ==
  /\ pc[Acceptor] = "failApps"
  /\ apps' = apps \ {current}
  /\ Goto(Acceptor, "failBound")
  /\ UNCHANGED <<strong, seatVars, bound, handles, bridgeHandles, connVars,
                 bridge, work, launchVars>>

FailRemoveBound ==
  /\ pc[Acceptor] = "failBound"
  /\ RetainBound(current)
  /\ current' = NoConn
  /\ Goto(Acceptor, "endAccept")
  /\ UNCHANGED <<strong, seatVars, apps, handles, bridgeHandles, stage, dead, gone,
                 bridge, work, launchVars>>

EndAccept ==
  /\ pc[Acceptor] = "endAccept"
  /\ DropSeat(Acceptor, "upgrade")
  /\ UNCHANGED <<seatVars, tableVars, connVars, bridge, work, launchVars>>

AcceptStep ==
  \/ UpgradeAccept \/ CheckStop \/ AcceptNothing \/ \E c \in Conns : AcceptClient(c)
  \/ RefuseClient \/ SetupDone \/ CheckAgain \/ PushApp \/ SpawnProxy \/ PushHandle
  \/ SpawnFails \/ FailClose \/ FailRemoveApp \/ FailRemoveBound \/ EndAccept

-----------------------------------------------------------------------------
(* A proxy thread: run_loop, then ProxyLoopCleanup::drop.                   *)

(* `stopping` and Conn.dead only ever become true, so reading them one      *)
(* after the other ends the loop exactly when reading them together does.   *)
CheckLoop(c) ==
  /\ pc[c] = "check"
  /\ Goto(c, IF stopping \/ c \in dead THEN "closeConn" ELSE "poll")
  /\ UNCHANGED <<strong, seatVars, tableVars, connVars, bridge, work, launchVars>>

(* Mutant: ClientData::disconnected does not mark the connection dead.      *)
PollIgnoresHangup(c) ==
  /\ pc[c] = "poll"
  /\ Goto(c, "check")
  /\ UNCHANGED <<strong, seatVars, tableVars, connVars, bridge, work, launchVars>>

(* poller.wait returns on traffic, on notify or after 200ms.  A client that *)
(* exited is seen by its dispatch; either side may also fail on its own,    *)
(* and a failing poller leaves the loop at once.                            *)
Poll(c) ==
  /\ pc[c] = "poll"
  /\ \/ /\ dead' \in (IF c \in gone THEN {dead \cup {c}} ELSE {dead, dead \cup {c}})
        /\ Goto(c, "check")
     \/ UNCHANGED dead /\ Goto(c, "closeConn")
  /\ UNCHANGED <<strong, seatVars, tableVars, stage, current, gone, bridge, work, launchVars>>

CleanupClose(c) ==
  /\ pc[c] = "closeConn"
  /\ CloseConnection(c)
  /\ Goto(c, "upgradeSeat")
  /\ UNCHANGED <<strong, seatVars, tableVars, stage, current, gone, bridge, work, launchVars>>

UpgradeProxy(c) ==
  /\ pc[c] = "upgradeSeat"
  /\ IF strong = {}
       THEN UNCHANGED strong /\ Goto(c, "exited")
       ELSE strong' = strong \cup {c} /\ Goto(c, "removeApp")
  /\ UNCHANGED <<seatVars, tableVars, connVars, bridge, work, launchVars>>

RemoveApp(c) ==
  /\ pc[c] = "removeApp"
  /\ apps' = apps \ {c}
  /\ Goto(c, "removeBound")
  /\ UNCHANGED <<strong, seatVars, bound, handles, bridgeHandles, connVars,
                 bridge, work, launchVars>>

RemoveBound(c) ==
  /\ pc[c] = "removeBound"
  /\ RetainBound(c)
  /\ Goto(c, "dropSeat")
  /\ UNCHANGED <<strong, seatVars, apps, handles, bridgeHandles, connVars,
                 bridge, work, launchVars>>

DropUpgraded(c) ==
  /\ pc[c] = "dropSeat"
  /\ DropSeat(c, "exited")
  /\ UNCHANGED <<seatVars, tableVars, connVars, bridge, work, launchVars>>

ProxyStep(c) ==
  \/ CheckLoop(c) \/ Poll(c) \/ CleanupClose(c) \/ UpgradeProxy(c)
  \/ RemoveApp(c) \/ RemoveBound(c) \/ DropUpgraded(c)

-----------------------------------------------------------------------------
(* Clients and bridges.                                                     *)

Connect(c) ==
  /\ stage[c] = "new" /\ socketUp
  /\ stage' = [stage EXCEPT ![c] = "queued"]
  /\ UNCHANGED <<pc, strong, seatVars, tableVars, current, dead, gone, bridge, work, launchVars>>

(* A client may exit whenever it likes; Xwayland does when its connection   *)
(* is closed (external, what adopt_xwayland_bridge's comment relies on).    *)
ClientExits(c) ==
  /\ stage[c] \in {"proxied", "refused"} /\ c \notin gone
  /\ gone' = gone \cup {c}
  /\ UNCHANGED <<pc, strong, seatVars, tableVars, stage, current, dead, bridge, work, launchVars>>

(* Mutant: the reaper's handle is not kept.                                 *)
AdoptBridgeDetached(b) ==
  /\ bridge[b] = "none" /\ stage[b] = "proxied"
  /\ strong \cap Closers # {}
  /\ bridge' = [bridge EXCEPT ![b] = IF stopping THEN "late" ELSE "adopted"]
  /\ UNCHANGED <<pc, strong, seatVars, tableVars, connVars, work, launchVars>>

(* adopt_xwayland_bridge, called after the bridge has connected, by a       *)
(* program that holds the seat: spawn the reaper, push its handle.          *)
AdoptBridge(b) ==
  /\ bridge[b] = "none" /\ stage[b] = "proxied"
  /\ strong \cap Closers # {}
  /\ bridge' = [bridge EXCEPT ![b] = IF stopping THEN "late" ELSE "adopted"]
  /\ bridgeHandles' = bridgeHandles \cup {b}
  /\ UNCHANGED <<pc, strong, seatVars, apps, bound, handles, connVars, work, launchVars>>

ReapBridge(b) ==
  /\ bridge[b] \in {"adopted", "late"} /\ b \in gone
  /\ bridge' = [bridge EXCEPT ![b] = "reaped"]
  /\ UNCHANGED <<pc, strong, seatVars, tableVars, connVars, work, launchVars>>

-----------------------------------------------------------------------------
(* A launch: find a connection and bind it; the returned ControlledApp      *)
(* holds the SeatApp until it is dropped.  Only the lookups and the binding *)
(* need the seat.                                                           *)

FindApp(l, c) ==
  /\ launch[l] = "idle" /\ strong \cap Closers # {}
  /\ c \in apps
  /\ launch' = [launch EXCEPT ![l] = "found"]
  /\ target' = [target EXCEPT ![l] = c]
  /\ UNCHANGED <<pc, strong, seatVars, tableVars, connVars, bridge, work>>

BindApp(l) ==
  /\ launch[l] = "found" /\ strong \cap Closers # {}
  /\ bound' = bound \cup {target[l]}
  /\ launch' = [launch EXCEPT ![l] = "bound"]
  /\ UNCHANGED <<pc, strong, seatVars, apps, handles, bridgeHandles, connVars, bridge, work,
                 target>>

StopApp(l) ==
  /\ launch[l] = "bound"
  /\ launch' = [launch EXCEPT ![l] = "stopped"]
  /\ UNCHANGED <<pc, strong, seatVars, tableVars, connVars, bridge, work, target>>

LaunchStep(l) ==
  (\E c \in Conns : FindApp(l, c)) \/ BindApp(l) \/ StopApp(l)

(* Everything has stopped and every reference is gone.                      *)
AllDone ==
  /\ \A t \in Threads : pc[t] \in {"none", "exited"}
  /\ UNCHANGED vars

Next ==
  \/ \E t \in Threads : ShutdownStep(t)
  \/ \E k \in Closers : Close(k) \/ DropArc(k)
  \/ AcceptStep
  \/ \E c \in Conns : ProxyStep(c) \/ Connect(c) \/ ClientExits(c)
  \/ \E b \in Bridges : AdoptBridge(b) \/ ReapBridge(b)
  \/ \E l \in Launchers : LaunchStep(l)
  \/ AllDone

(* Every thread keeps running, and an Xwayland whose connection was closed  *)
(* exits.  Nobody is obliged to connect, to close or to drop.               *)
Fairness ==
  /\ \A t \in Threads : WF_vars(ShutdownStep(t))
  /\ WF_vars(AcceptStep)
  /\ \A c \in Conns : WF_vars(ProxyStep(c))
  /\ \A b \in Bridges : /\ WF_vars(b \in dead /\ ClientExits(b))
                        /\ WF_vars(ReapBridge(b))

Spec == Init /\ [][Next]_vars /\ Fairness

-----------------------------------------------------------------------------
(* Properties.                                                              *)

Closing(t) == pc[t] \in ShutdownPC

(* Whichever of several concurrent close() calls returns, and whoever did   *)
(* the joining: the accept thread can admit nothing any more, no connection *)
(* is open and none is listed, including one whose setup was in flight when *)
(* the first list of connections was closed (the two passes of              *)
(* shutdown_inner, mod.rs:876-888).                                         *)
ClosedOnReturn ==
  \A k \in Closers : pc[k] = "returned" =>
    /\ stopping
    /\ pc[Acceptor] \notin AcceptBusy
    /\ Admitted \subseteq dead
    /\ apps = {}

(* Once a close() has returned and no other one is under way, every worker  *)
(* thread has been joined and the socket path is gone: no handle is lost    *)
(* between the accept thread that pushes it and the closer that takes it.   *)
ReapedWhenQuiescent ==
  (\E k \in Closers : pc[k] = "returned") /\ (\A t \in Threads : ~Closing(t)) =>
    /\ \A c \in Conns : pc[c] \in {"none", "exited"}
    /\ handles = {} /\ ~acceptHandle /\ ~socketUp

(* While the seat lives, a connection is listed exactly as long as it has a *)
(* thread to serve it: a finished proxy thread or a failed thread creation  *)
(* leaves no entry (remove_app on every exit path).                         *)
ListedMeansServed ==
  \A c \in apps : \/ pc[c] \notin {"none", "exited"}
                 \/ c = current
                 \/ strong = {}

(* close()'s comment, "close every proxied connection, and reap bridge      *)
(* threads. Calling this more than once is safe" (mod.rs:458-459), said of  *)
(* several concurrent calls: when one returns, a bridge adopted before the  *)
(* first of them began is reaped, or another thread that is still in        *)
(* close() or Drop has taken its handle and is joining it.  No handle is    *)
(* lost between AdoptBridge's push and the thread that takes it.            *)
BridgesReapedOnReturn ==
  (\E k \in Closers : pc[k] = "returned") =>
    \A b \in Bridges : bridge[b] = "adopted" =>
      \E t \in Threads : pc[t] = "joinBridges" /\ b \in work[t]

(* Nothing becomes visible after a close() returned, whatever the accept    *)
(* thread was doing when it started.                                        *)
NoAdmissionAfterReturn ==
  [][(\E k \in Closers : pc[k] = "returned") =>
       /\ apps' \subseteq apps
       /\ \A c \in Conns : stage'[c] = "proxied" => stage[c] = "proxied"]_vars

(* The accept thread can admit nothing any more: it has finished, or the    *)
(* seat has no strong reference left for it to upgrade to.                  *)
AcceptQuiet == pc[Acceptor] = "exited" \/ strong = {}

(* The seat implements its contract: a connection is open from the moment   *)
(* its app is listed until it is closed, and the seat is sealed once        *)
(* stopping is set, the accept thread is quiet and nothing is open.         *)
Contract == INSTANCE SeatContract WITH
  open    <- Admitted \ dead,
  ended   <- Admitted \cap dead,
  inClose <- {k \in Closers : Closing(k) /\ k \in strong},
  sealed  <- stopping /\ AcceptQuiet /\ Admitted \subseteq dead

ImplementsContract == Contract!Spec

(* close() and Drop return, whichever thread runs them: joining the accept  *)
(* thread, the proxies and the reapers cannot block forever, not even when  *)
(* the joining thread is one of them.                                       *)
ShutdownTerminates == \A t \in Threads : Closing(t) ~> ~Closing(t)

(* A program that just drops its last Arc, without close(), still gets the  *)
(* socket removed, every thread ended and every client refused that was     *)
(* still in the listen backlog (Drop for AgentSeat).                        *)
DropReleases ==
  (strong \cap Closers = {}) ~> /\ ~socketUp
                              /\ pc[Acceptor] = "exited"
                              /\ \A c \in Conns : /\ pc[c] \in {"none", "exited"}
                                                 /\ stage[c] # "queued"

(* A connection whose client went away is eventually taken off the list,    *)
(* without anybody calling close().                                         *)
GoneIsDelisted ==
  \A c \in Conns : (c \in gone /\ stage[c] = "proxied") ~> c \notin apps
=============================================================================
