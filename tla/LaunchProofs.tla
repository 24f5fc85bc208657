---------------------------- MODULE LaunchProofs -----------------------------
(***************************************************************************)
(* Proofs about Launch for every set of launches, wrappers and displays:   *)
(* nothing a launch started is left behind, its program does not run       *)
(* twice, and launches that do not overlap do not get in each other's way. *)
(*                                                                         *)
(* The first two follow from where a launch is: each stage says which of   *)
(* the three children have been started and which waited for (Stages), and *)
(* that its bridge has a directory exactly from the start of the server    *)
(* until either the launch undoes it or the reaper does (Bridges).         *)
(*                                                                         *)
(* The third holds as long as no two launches have overlapped (Solo): an   *)
(* X server listens only where its files are (Servers), whatever an earlier*)
(* launch left running has its display and its connection already          *)
(* (OwnDisplays, OwnConnections), so what is new is the launch's own.      *)
(***************************************************************************)
EXTENDS Launch, SequenceTheorems, TLAPS

Gone(p) == proc[p] \in {"unborn", "reaped"}

(* The children of a launch, by its stage.                                 *)
StageOf(l) ==
  /\ pc[l] = "idle" => \A p \in Children(l) : proc[p] = "unborn"
  /\ pc[l] \in {"probing", "native", "fallback", "building"} =>
       proc[Xwayland(l)] = "unborn" /\ proc[X11(l)] = "unborn"
  /\ pc[l] \in {"fallback", "building", "socket", "waiting", "content", "xwayland", "stopped"} =>
       proc[Native(l)] = "reaped"
  /\ pc[l] \in {"probing", "native"} => proc[Native(l)] # "unborn"
  /\ pc[l] = "socket" => proc[X11(l)] = "unborn"
  /\ pc[l] = "failed" => \A p \in Children(l) : Gone(p)

Stages == \A l \in Launchers : StageOf(l)

(* The bridge of a launch.                                                 *)
BridgeOf(l) ==
  /\ l \in dirs => pc[l] \in {"socket", "waiting", "content"} \/ l \in reapers
  /\ l \in reapers => pc[l] \in {"xwayland", "stopped"}
  /\ ~Gone(Xwayland(l)) => l \in dirs /\ display[l] \in Displays
  /\ pc[l] = "building" => display[l] \in Displays

Bridges == \A l \in Launchers : BridgeOf(l)

IInv == TypeOK /\ Stages /\ Bridges

-----------------------------------------------------------------------------
(* One step.                                                                *)

(* The processes of launches are what they are called.                     *)
LEMMA Names ==
  /\ \A l \in Launchers :
       /\ Native(l) \in Processes /\ Helper(l) \in Processes
       /\ Xwayland(l) \in Processes /\ X11(l) \in Processes
  /\ \A l, m \in Launchers :
       /\ Native(l) # Xwayland(m) /\ Native(l) # X11(m) /\ Xwayland(l) # X11(m)
       /\ Helper(l) # Native(m) /\ Helper(l) # Xwayland(m) /\ Helper(l) # X11(m)
       /\ l # m => Native(l) # Native(m) /\ Xwayland(l) # Xwayland(m) /\ X11(l) # X11(m)
<1>1. \A l \in Launchers :
        /\ Native(l) \in Processes /\ Helper(l) \in Processes
        /\ Xwayland(l) \in Processes /\ X11(l) \in Processes
  BY DEF Native, Helper, Xwayland, X11, Processes
<1>2. \A l, m \in Launchers :
        /\ Native(l) # Xwayland(m) /\ Native(l) # X11(m) /\ Xwayland(l) # X11(m)
        /\ Helper(l) # Native(m) /\ Helper(l) # Xwayland(m) /\ Helper(l) # X11(m)
  BY DEF Native, Helper, Xwayland, X11
<1>3. \A l, m \in Launchers :
        l # m => Native(l) # Native(m) /\ Xwayland(l) # Xwayland(m) /\ X11(l) # X11(m)
  BY DEF Native, Xwayland, X11
<1> QED BY <1>1, <1>2, <1>3

(* A connection stays one of a process when another is taken off the list. *)
LEMMA RemoveAtKeeps ==
  ASSUME NEW S, NEW s \in Seq(S), NEW i \in DOMAIN s
  PROVE  RemoveAt(s, i) \in Seq(S)
  BY DEF RemoveAt

(* The types are preserved.                                                *)
LEMMA TypesStep == TypeOK /\ Bridges /\ [Next]_vars => TypeOK'
<1> SUFFICES ASSUME TypeOK, Bridges, [Next]_vars PROVE TypeOK'
  OBVIOUS
<1> USE DEF Native, Helper, Xwayland, X11, Processes, Children, Bridging, UnderWay, Returned
<1> USE DEF TypeOK, launchVars, clientVars, bridgeVars, Goto, Return, Spawn, KillAndWait, UndoBridge,
        ConnectedPids, Range, Held, Running
<1>1. ASSUME NEW l \in Launchers, Begin(l) PROVE TypeOK'
  <2>1. Native(l) \in Processes
    OBVIOUS
  <2>2. ConnectedPids \in SUBSET Processes
    BY DEF ConnectedPids, Range
  <2>3. overlapped' \in SUBSET Launchers
    BY <1>1 DEF Begin
  <2>4. (/\ Spawn(Native(l)) /\ Goto(l, "probing")
         /\ before' = [before EXCEPT ![l] = ConnectedPids] /\ UNCHANGED app)
        \/ (UNCHANGED proc /\ Return(l, "failed", None))
    BY <1>1 DEF Begin
  <2>5. pc' \in [Launchers -> {"idle"} \cup UnderWay \cup Returned]
    BY <2>4
  <2>6. before' \in [Launchers -> SUBSET Processes]
    <3> HIDE DEF ConnectedPids
    <3> QED BY <2>2, <2>4
  <2>7. app' \in [Launchers -> Processes \cup {None}]
    BY <2>4
  <2>8. proc' \in [Processes -> {"unborn", "running", "exited", "killed", "reaped"}]
    <3> HIDE DEF Processes, Native
    <3> QED BY <2>1, <2>4
  <2>9. UNCHANGED <<clientVars, bridgeVars, seat>>
    BY <1>1 DEF Begin
  <2> QED BY <2>3, <2>5, <2>6, <2>7, <2>8, <2>9
<1>2. ASSUME NEW l \in Launchers, ProbeFinds(l) PROVE TypeOK'
  BY <1>2 DEF ProbeFinds
<1>3. ASSUME NEW l \in Launchers, ProbeEnds(l) PROVE TypeOK'
  BY <1>3 DEF ProbeEnds
<1>4. ASSUME NEW l \in Launchers, ProbeFails(l) PROVE TypeOK'
  BY <1>4 DEF ProbeFails
<1>5. ASSUME NEW l \in Launchers, StartBridge(l) PROVE TypeOK'
  BY <1>5 DEF StartBridge, PickFreeDisplay
<1>6. ASSUME NEW l \in Launchers, BuildBridge(l) PROVE TypeOK'
  BY <1>6 DEF BuildBridge
<1>7. ASSUME NEW l \in Launchers, SocketMissing(l) PROVE TypeOK'
  BY <1>7 DEF SocketMissing
<1>8. ASSUME NEW l \in Launchers, SpawnClient(l) PROVE TypeOK'
  BY <1>8 DEF SpawnClient
<1>9. ASSUME NEW l \in Launchers, WaitFinds(l) PROVE TypeOK'
  BY <1>9 DEF WaitFinds
<1>10. ASSUME NEW l \in Launchers, FallbackTimeout(l) PROVE TypeOK'
  BY <1>10 DEF FallbackTimeout
<1>11. ASSUME NEW l \in Launchers, AdoptBridge(l) PROVE TypeOK'
  <2>1. Return(l, "xwayland", app[l]) \/ Return(l, "failed", app[l])
    BY <1>11 DEF AdoptBridge
  <2>2. pc' \in [Launchers -> {"idle"} \cup UnderWay \cup Returned]
    BY <2>1
  <2>3. before' \in [Launchers -> SUBSET Processes]
    BY <2>1
  <2>4. app[l] \in Processes \cup {None}
    OBVIOUS
  <2>5. app' = [app EXCEPT ![l] = app[l]]
    BY <2>1
  <2>6. app' \in [Launchers -> Processes \cup {None}]
    BY <2>4, <2>5
  <2>7. /\ proc' \in [Processes -> {"unborn", "running", "exited", "killed", "reaped"}]
        /\ server' \in [Displays -> Processes \cup {None}]
        /\ dirs' \subseteq Launchers /\ reapers' \subseteq Launchers
        /\ display' \in [Launchers -> Displays \cup {None}]
    <3>1. CASE UndoBridge(l) /\ UNCHANGED reapers
      <4>1. proc' \in [Processes -> {"unborn", "running", "exited", "killed", "reaped"}]
        BY <3>1
      <4>2. server' \in [Displays -> Processes \cup {None}]
        BY <3>1
      <4> QED BY <3>1, <4>1, <4>2
    <3>2. CASE reapers' = reapers \cup {l} /\ UNCHANGED <<proc, server, dirs, display>>
      BY <3>2
    <3> QED BY <1>11, <3>1, <3>2 DEF AdoptBridge
  <2>8. overlapped' = overlapped /\ apps' = apps /\ framed' = framed /\ painted' = painted
        /\ xfiles' = xfiles /\ seat' = seat
    BY <1>11 DEF AdoptBridge
  <2> QED BY <2>2, <2>3, <2>6, <2>7, <2>8
<1>12. ASSUME NEW l \in Launchers, StopApp(l) PROVE TypeOK'
  BY <1>12 DEF StopApp
<1>13. ASSUME NEW l \in Launchers, Reap(l) PROVE TypeOK'
  BY <1>13 DEF Reap
<1>14. ASSUME NEW l \in Launchers, ThreadEnds(l) PROVE TypeOK'
  BY <1>14 DEF ThreadEnds
<1>15. ASSUME NEW l \in Launchers, HandOver(l) PROVE TypeOK'
  BY <1>15 DEF HandOver
<1>16. ASSUME NEW l \in Launchers, Serve(l) PROVE TypeOK'
  BY <1>16 DEF Serve, Bridges, BridgeOf, Gone
<1>17. ASSUME NEW l \in Launchers, NEW p \in Processes, Connect(l, p) PROVE TypeOK'
  BY <1>17 DEF Connect
<1>18. ASSUME NEW l \in Launchers, NEW p \in Processes, Draw(l, p) PROVE TypeOK'
  BY <1>18 DEF Draw
<1>19. ASSUME NEW p \in Processes, Exit(p) PROVE TypeOK'
  BY <1>19 DEF Exit
<1>20. ASSUME NEW p \in Processes, Delist(p) PROVE TypeOK'
  BY <1>20, RemoveAtKeeps DEF Delist
<1>21. CASE Close
  BY <1>21 DEF Close
<1>22. CASE UNCHANGED vars
  BY <1>22 DEF vars, launchVars, clientVars, bridgeVars
<1> QED BY <1>1, <1>2, <1>3, <1>4, <1>5, <1>6, <1>7, <1>8, <1>9, <1>10, <1>11, <1>12,
      <1>13, <1>14, <1>15, <1>16, <1>17, <1>18, <1>19, <1>20, <1>21, <1>22
      DEF Next, LaunchStep, Environment

(* The children stay what the stage says.                                  *)
LEMMA StagesStep == TypeOK /\ Stages /\ Bridges /\ [Next]_vars => Stages'
<1> SUFFICES ASSUME TypeOK, Stages, Bridges, [Next]_vars, NEW m \in Launchers PROVE StageOf(m)'
  BY DEF Stages
<1>a. pc \in [Launchers -> {"idle"} \cup UnderWay \cup Returned]
      /\ proc \in [Processes -> {"unborn", "running", "exited", "killed", "reaped"}]
  BY DEF TypeOK
<1>b. StageOf(m) /\ \A l \in Launchers : StageOf(l)
  BY DEF Stages
<1> USE Names, <1>a, <1>b DEF StageOf, Gone, Children, launchVars, clientVars, bridgeVars, Goto, Return, Spawn,
        KillAndWait, UndoBridge, Running
<1>1. ASSUME NEW l \in Launchers, Begin(l) PROVE StageOf(m)'
  BY <1>1 DEF Begin
<1>2. ASSUME NEW l \in Launchers, ProbeFinds(l) PROVE StageOf(m)'
  BY <1>2 DEF ProbeFinds
<1>3. ASSUME NEW l \in Launchers, ProbeEnds(l) PROVE StageOf(m)'
  BY <1>3 DEF ProbeEnds
<1>4. ASSUME NEW l \in Launchers, ProbeFails(l) PROVE StageOf(m)'
  BY <1>4 DEF ProbeFails
<1>5. ASSUME NEW l \in Launchers, StartBridge(l) PROVE StageOf(m)'
  BY <1>5 DEF StartBridge
<1>6. ASSUME NEW l \in Launchers, BuildBridge(l) PROVE StageOf(m)'
  BY <1>6 DEF BuildBridge
<1>7. ASSUME NEW l \in Launchers, SocketMissing(l) PROVE StageOf(m)'
  BY <1>7 DEF SocketMissing
<1>8. ASSUME NEW l \in Launchers, SpawnClient(l) PROVE StageOf(m)'
  BY <1>8 DEF SpawnClient
<1>9. ASSUME NEW l \in Launchers, WaitFinds(l) PROVE StageOf(m)'
  BY <1>9 DEF WaitFinds
<1>10. ASSUME NEW l \in Launchers, FallbackTimeout(l) PROVE StageOf(m)'
  BY <1>10 DEF FallbackTimeout
<1>11. ASSUME NEW l \in Launchers, AdoptBridge(l) PROVE StageOf(m)'
  BY <1>11 DEF AdoptBridge
<1>12. ASSUME NEW l \in Launchers, StopApp(l) PROVE StageOf(m)'
  BY <1>12 DEF StopApp
<1>13. ASSUME NEW l \in Launchers, Reap(l) PROVE StageOf(m)'
  BY <1>13 DEF Reap, Bridges, BridgeOf
<1>14. ASSUME NEW l \in Launchers, ThreadEnds(l) PROVE StageOf(m)'
  BY <1>14 DEF ThreadEnds
<1>15. ASSUME NEW l \in Launchers, HandOver(l) PROVE StageOf(m)'
  BY <1>15 DEF HandOver
<1>16. ASSUME NEW l \in Launchers, Serve(l) PROVE StageOf(m)'
  BY <1>16 DEF Serve
<1>17. ASSUME NEW l \in Launchers, NEW p \in Processes, Connect(l, p) PROVE StageOf(m)'
  BY <1>17 DEF Connect
<1>18. ASSUME NEW l \in Launchers, NEW p \in Processes, Draw(l, p) PROVE StageOf(m)'
  BY <1>18 DEF Draw
<1>19. ASSUME NEW p \in Processes, Exit(p) PROVE StageOf(m)'
  BY <1>19 DEF Exit
<1>20. ASSUME NEW p \in Processes, Delist(p) PROVE StageOf(m)'
  BY <1>20 DEF Delist
<1>21. CASE Close
  BY <1>21 DEF Close
<1>22. CASE UNCHANGED vars
  BY <1>22 DEF vars, launchVars, clientVars, bridgeVars
<1> QED BY <1>1, <1>2, <1>3, <1>4, <1>5, <1>6, <1>7, <1>8, <1>9, <1>10, <1>11, <1>12,
      <1>13, <1>14, <1>15, <1>16, <1>17, <1>18, <1>19, <1>20, <1>21, <1>22
      DEF Next, LaunchStep, Environment

(* The bridges stay what the stage says.                                   *)
LEMMA BridgesStep == TypeOK /\ Stages /\ Bridges /\ [Next]_vars => Bridges'
<1> SUFFICES ASSUME TypeOK, Stages, Bridges, [Next]_vars, NEW m \in Launchers PROVE BridgeOf(m)'
  BY DEF Bridges
<1>a. pc \in [Launchers -> {"idle"} \cup UnderWay \cup Returned]
      /\ proc \in [Processes -> {"unborn", "running", "exited", "killed", "reaped"}]
      /\ display \in [Launchers -> Displays \cup {None}]
      /\ dirs \subseteq Launchers /\ reapers \subseteq Launchers
  BY DEF TypeOK
<1>b. StageOf(m) /\ BridgeOf(m) /\ \A l \in Launchers : StageOf(l) /\ BridgeOf(l)
  BY DEF Stages, Bridges
<1> USE Names, <1>a, <1>b DEF StageOf, BridgeOf, Gone, Children, launchVars, clientVars, bridgeVars, Goto, Return, Spawn,
        KillAndWait, UndoBridge, Running
<1>1. ASSUME NEW l \in Launchers, Begin(l) PROVE BridgeOf(m)'
  BY <1>1 DEF Begin
<1>2. ASSUME NEW l \in Launchers, ProbeFinds(l) PROVE BridgeOf(m)'
  BY <1>2 DEF ProbeFinds
<1>3. ASSUME NEW l \in Launchers, ProbeEnds(l) PROVE BridgeOf(m)'
  BY <1>3 DEF ProbeEnds
<1>4. ASSUME NEW l \in Launchers, ProbeFails(l) PROVE BridgeOf(m)'
  BY <1>4 DEF ProbeFails
<1>5. ASSUME NEW l \in Launchers, StartBridge(l) PROVE BridgeOf(m)'
  BY <1>5 DEF StartBridge, PickFreeDisplay
<1>6. ASSUME NEW l \in Launchers, BuildBridge(l) PROVE BridgeOf(m)'
  BY <1>6 DEF BuildBridge
<1>7. ASSUME NEW l \in Launchers, SocketMissing(l) PROVE BridgeOf(m)'
  BY <1>7 DEF SocketMissing
<1>8. ASSUME NEW l \in Launchers, SpawnClient(l) PROVE BridgeOf(m)'
  BY <1>8 DEF SpawnClient
<1>9. ASSUME NEW l \in Launchers, WaitFinds(l) PROVE BridgeOf(m)'
  BY <1>9 DEF WaitFinds
<1>10. ASSUME NEW l \in Launchers, FallbackTimeout(l) PROVE BridgeOf(m)'
  BY <1>10 DEF FallbackTimeout
<1>11. ASSUME NEW l \in Launchers, AdoptBridge(l) PROVE BridgeOf(m)'
  BY <1>11 DEF AdoptBridge
<1>12. ASSUME NEW l \in Launchers, StopApp(l) PROVE BridgeOf(m)'
  BY <1>12 DEF StopApp
<1>13. ASSUME NEW l \in Launchers, Reap(l) PROVE BridgeOf(m)'
  BY <1>13 DEF Reap
<1>14. ASSUME NEW l \in Launchers, ThreadEnds(l) PROVE BridgeOf(m)'
  BY <1>14 DEF ThreadEnds
<1>15. ASSUME NEW l \in Launchers, HandOver(l) PROVE BridgeOf(m)'
  BY <1>15 DEF HandOver
<1>16. ASSUME NEW l \in Launchers, Serve(l) PROVE BridgeOf(m)'
  BY <1>16 DEF Serve
<1>17. ASSUME NEW l \in Launchers, NEW p \in Processes, Connect(l, p) PROVE BridgeOf(m)'
  BY <1>17 DEF Connect
<1>18. ASSUME NEW l \in Launchers, NEW p \in Processes, Draw(l, p) PROVE BridgeOf(m)'
  BY <1>18 DEF Draw
<1>19. ASSUME NEW p \in Processes, Exit(p) PROVE BridgeOf(m)'
  BY <1>19 DEF Exit
<1>20. ASSUME NEW p \in Processes, Delist(p) PROVE BridgeOf(m)'
  BY <1>20 DEF Delist
<1>21. CASE Close
  BY <1>21 DEF Close
<1>22. CASE UNCHANGED vars
  BY <1>22 DEF vars, launchVars, clientVars, bridgeVars
<1> QED BY <1>1, <1>2, <1>3, <1>4, <1>5, <1>6, <1>7, <1>8, <1>9, <1>10, <1>11, <1>12,
      <1>13, <1>14, <1>15, <1>16, <1>17, <1>18, <1>19, <1>20, <1>21, <1>22
      DEF Next, LaunchStep, Environment

-----------------------------------------------------------------------------
(* Launches that come one after another.                                    *)

Solo == \A l, m \in Launchers :
          l # m /\ pc[l] \in UnderWay /\ pc[m] \in UnderWay => overlapped # {}

(* An X server listens while it runs, where its files are.                  *)
Serving(l) == \E d \in Displays : server[d] = Xwayland(l)

Servers == \A d \in Displays : server[d] # None =>
             /\ d \in xfiles /\ Running(server[d])
             /\ \E l \in Launchers : server[d] = Xwayland(l)

(* The display a launch has picked stays free until its own server takes it: *)
(* any other server that still runs has one already.                        *)
DisplayOf(l) ==
  /\ pc[l] \in Bridging => display[l] \in Displays /\ server[display[l]] \in {Xwayland(l), None}
  /\ pc[l] = "building" => display[l] \notin xfiles
  /\ pc[l] = "socket" /\ display[l] \in xfiles /\ Running(Xwayland(l)) => Serving(l)
  /\ pc[l] \in {"waiting", "content"} \cup Returned /\ Running(Xwayland(l)) => Serving(l)

OwnDisplays == overlapped = {} => \A l \in Launchers : DisplayOf(l)

(* What an earlier launch left running has connected already, so that only  *)
(* the process of the attempt under way can be new.                         *)
ConnectionOf(l) ==
  /\ proc[Helper(l)] = "unborn"
  /\ seat = "open" /\ pc[l] \in {"content"} \cup Returned =>
       \A p \in {Native(l), Xwayland(l)} : Running(p) => p \in Range(apps)
  /\ pc[l] = "probing" => Range(apps) \subseteq before[l] \cup {Native(l)}
  /\ pc[l] \in {"building", "socket", "waiting"} => Range(apps) \subseteq before[l] \cup {Xwayland(l)}
  /\ pc[l] = "native" => app[l] = Native(l)
  /\ pc[l] \in {"content", "xwayland"} => app[l] = Xwayland(l)

OwnConnections == overlapped \cup Wrappers = {} => \A l \in Launchers : ConnectionOf(l)

(* Who overlaps is recorded.                                                *)
LEMMA SoloStep == TypeOK /\ Solo /\ [Next]_vars => Solo'
<1> SUFFICES ASSUME TypeOK, Solo, [Next]_vars PROVE Solo'
  OBVIOUS
<1>a. pc \in [Launchers -> {"idle"} \cup UnderWay \cup Returned]
  BY DEF TypeOK
<1> USE <1>a DEF Solo, UnderWay, Returned, Bridging, launchVars, Goto, Return
<1>1. ASSUME NEW l \in Launchers, Begin(l) PROVE Solo'
  BY <1>1 DEF Begin
<1>2. ASSUME NEW l \in Launchers, ProbeFinds(l) PROVE Solo'
  BY <1>2 DEF ProbeFinds
<1>3. ASSUME NEW l \in Launchers, ProbeEnds(l) PROVE Solo'
  BY <1>3 DEF ProbeEnds
<1>4. ASSUME NEW l \in Launchers, ProbeFails(l) PROVE Solo'
  BY <1>4 DEF ProbeFails
<1>5. ASSUME NEW l \in Launchers, StartBridge(l) PROVE Solo'
  BY <1>5 DEF StartBridge
<1>6. ASSUME NEW l \in Launchers, BuildBridge(l) PROVE Solo'
  BY <1>6 DEF BuildBridge
<1>7. ASSUME NEW l \in Launchers, SocketMissing(l) PROVE Solo'
  BY <1>7 DEF SocketMissing
<1>8. ASSUME NEW l \in Launchers, SpawnClient(l) PROVE Solo'
  BY <1>8 DEF SpawnClient
<1>9. ASSUME NEW l \in Launchers, WaitFinds(l) PROVE Solo'
  BY <1>9 DEF WaitFinds
<1>10. ASSUME NEW l \in Launchers, FallbackTimeout(l) PROVE Solo'
  BY <1>10 DEF FallbackTimeout
<1>11. ASSUME NEW l \in Launchers, AdoptBridge(l) PROVE Solo'
  BY <1>11 DEF AdoptBridge
<1>12. ASSUME NEW l \in Launchers, StopApp(l) PROVE Solo'
  BY <1>12 DEF StopApp
<1>13. ASSUME NEW l \in Launchers, Reap(l) PROVE Solo'
  BY <1>13 DEF Reap
<1>14. ASSUME NEW l \in Launchers, ThreadEnds(l) PROVE Solo'
  BY <1>14 DEF ThreadEnds
<1>15. ASSUME NEW l \in Launchers, HandOver(l) PROVE Solo'
  BY <1>15 DEF HandOver
<1>16. ASSUME NEW l \in Launchers, Serve(l) PROVE Solo'
  BY <1>16 DEF Serve
<1>17. ASSUME NEW l \in Launchers, NEW p \in Processes, Connect(l, p) PROVE Solo'
  BY <1>17 DEF Connect
<1>18. ASSUME NEW l \in Launchers, NEW p \in Processes, Draw(l, p) PROVE Solo'
  BY <1>18 DEF Draw
<1>19. ASSUME NEW p \in Processes, Exit(p) PROVE Solo'
  BY <1>19 DEF Exit
<1>20. ASSUME NEW p \in Processes, Delist(p) PROVE Solo'
  BY <1>20 DEF Delist
<1>21. CASE Close
  BY <1>21 DEF Close
<1>22. CASE UNCHANGED vars
  BY <1>22 DEF vars, launchVars, clientVars, bridgeVars
<1> QED BY <1>1, <1>2, <1>3, <1>4, <1>5, <1>6, <1>7, <1>8, <1>9, <1>10, <1>11,
      <1>12, <1>13, <1>14, <1>15, <1>16, <1>17, <1>18, <1>19, <1>20, <1>21, <1>22
      DEF Next, LaunchStep, Environment

(* Servers listen where their files are.                                    *)
LEMMA ServersStep == TypeOK /\ Stages /\ Bridges /\ Servers /\ [Next]_vars => Servers'
<1> SUFFICES ASSUME TypeOK, Stages, Bridges, Servers, [Next]_vars PROVE Servers'
  OBVIOUS
<1>a. pc \in [Launchers -> {"idle"} \cup UnderWay \cup Returned]
      /\ proc \in [Processes -> {"unborn", "running", "exited", "killed", "reaped"}]
      /\ display \in [Launchers -> Displays \cup {None}]
      /\ server \in [Displays -> Processes \cup {None}] /\ xfiles \subseteq Displays
      /\ reapers \subseteq Launchers
  BY DEF TypeOK
<1>b. \A l \in Launchers : StageOf(l) /\ BridgeOf(l)
  BY DEF Stages, Bridges
<1> USE Names, NoneAssumption, <1>a, <1>b DEF StageOf, BridgeOf, Gone, Children,
        UnderWay, Returned, Bridging, launchVars, clientVars, bridgeVars, Goto,
        Return, Spawn, KillAndWait, UndoBridge, Running, Servers
<1>1. ASSUME NEW l \in Launchers, Begin(l) PROVE Servers'
  BY <1>1 DEF Begin
<1>2. ASSUME NEW l \in Launchers, ProbeFinds(l) PROVE Servers'
  BY <1>2 DEF ProbeFinds
<1>3. ASSUME NEW l \in Launchers, ProbeEnds(l) PROVE Servers'
  BY <1>3 DEF ProbeEnds
<1>4. ASSUME NEW l \in Launchers, ProbeFails(l) PROVE Servers'
  BY <1>4 DEF ProbeFails
<1>5. ASSUME NEW l \in Launchers, StartBridge(l) PROVE Servers'
  BY <1>5 DEF StartBridge
<1>6. ASSUME NEW l \in Launchers, BuildBridge(l) PROVE Servers'
  BY <1>6 DEF BuildBridge
<1>7. ASSUME NEW l \in Launchers, SocketMissing(l) PROVE Servers'
  BY <1>7 DEF SocketMissing
<1>8. ASSUME NEW l \in Launchers, SpawnClient(l) PROVE Servers'
  BY <1>8 DEF SpawnClient
<1>9. ASSUME NEW l \in Launchers, WaitFinds(l) PROVE Servers'
  BY <1>9 DEF WaitFinds
<1>10. ASSUME NEW l \in Launchers, FallbackTimeout(l) PROVE Servers'
  BY <1>10 DEF FallbackTimeout
<1>11. ASSUME NEW l \in Launchers, AdoptBridge(l) PROVE Servers'
  BY <1>11 DEF AdoptBridge
<1>12. ASSUME NEW l \in Launchers, StopApp(l) PROVE Servers'
  BY <1>12 DEF StopApp
<1>13. ASSUME NEW l \in Launchers, Reap(l) PROVE Servers'
  BY <1>13 DEF Reap
<1>14. ASSUME NEW l \in Launchers, ThreadEnds(l) PROVE Servers'
  BY <1>14 DEF ThreadEnds
<1>15. ASSUME NEW l \in Launchers, HandOver(l) PROVE Servers'
  BY <1>15 DEF HandOver
<1>16. ASSUME NEW l \in Launchers, Serve(l) PROVE Servers'
  BY <1>16 DEF Serve
<1>17. ASSUME NEW l \in Launchers, NEW p \in Processes, Connect(l, p) PROVE Servers'
  BY <1>17 DEF Connect
<1>18. ASSUME NEW l \in Launchers, NEW p \in Processes, Draw(l, p) PROVE Servers'
  BY <1>18 DEF Draw
<1>19. ASSUME NEW p \in Processes, Exit(p) PROVE Servers'
  BY <1>19 DEF Exit
<1>20. ASSUME NEW p \in Processes, Delist(p) PROVE Servers'
  BY <1>20 DEF Delist
<1>21. CASE Close
  BY <1>21 DEF Close
<1>22. CASE UNCHANGED vars
  BY <1>22 DEF vars, launchVars, clientVars, bridgeVars
<1> QED BY <1>1, <1>2, <1>3, <1>4, <1>5, <1>6, <1>7, <1>8, <1>9, <1>10, <1>11,
      <1>12, <1>13, <1>14, <1>15, <1>16, <1>17, <1>18, <1>19, <1>20, <1>21, <1>22
      DEF Next, LaunchStep, Environment

(* The display of a launch stays its own.                                   *)
LEMMA DisplaysStep == TypeOK /\ Stages /\ Bridges /\ Solo /\ Servers /\ OwnDisplays /\ [Next]_vars => OwnDisplays'
<1> SUFFICES ASSUME TypeOK, Stages, Bridges, Solo, Servers, OwnDisplays, [Next]_vars,
                    overlapped' = {}, NEW m \in Launchers
             PROVE  DisplayOf(m)'
  BY DEF OwnDisplays
<1>a. pc \in [Launchers -> {"idle"} \cup UnderWay \cup Returned]
      /\ proc \in [Processes -> {"unborn", "running", "exited", "killed", "reaped"}]
      /\ display \in [Launchers -> Displays \cup {None}]
      /\ server \in [Displays -> Processes \cup {None}] /\ xfiles \subseteq Displays
      /\ reapers \subseteq Launchers
  BY DEF TypeOK
<1>b. \A l \in Launchers : StageOf(l) /\ BridgeOf(l)
  BY DEF Stages, Bridges
<1>c. overlapped = {}
  BY DEF Next, LaunchStep, Environment, vars, launchVars, Begin, ProbeFinds, ProbeEnds, ProbeFails, StartBridge,
     BuildBridge, SocketMissing, SpawnClient, WaitFinds, FallbackTimeout, AdoptBridge, StopApp, Reap,
     ThreadEnds, HandOver, Serve, Connect, Draw, Exit, Delist, Close
<1>d. \A l \in Launchers : DisplayOf(l)
  BY <1>c DEF OwnDisplays
<1>e. \A l, n \in Launchers : l # n => ~(pc[l] \in UnderWay /\ pc[n] \in UnderWay)
  BY <1>c DEF Solo
<1> USE Names, NoneAssumption, <1>a, <1>b, <1>c, <1>d, <1>e DEF StageOf, BridgeOf,
        Gone, Children, UnderWay, Returned, Bridging, launchVars, clientVars,
        bridgeVars, Goto, Return, Spawn, KillAndWait, UndoBridge, Running, Servers,
        Serving, DisplayOf
<1>1. ASSUME NEW l \in Launchers, Begin(l) PROVE DisplayOf(m)'
  BY <1>1 DEF Begin
<1>2. ASSUME NEW l \in Launchers, ProbeFinds(l) PROVE DisplayOf(m)'
  BY <1>2 DEF ProbeFinds
<1>3. ASSUME NEW l \in Launchers, ProbeEnds(l) PROVE DisplayOf(m)'
  BY <1>3 DEF ProbeEnds
<1>4. ASSUME NEW l \in Launchers, ProbeFails(l) PROVE DisplayOf(m)'
  BY <1>4 DEF ProbeFails
<1>5. ASSUME NEW l \in Launchers, StartBridge(l) PROVE DisplayOf(m)'
  BY <1>5 DEF StartBridge, PickFreeDisplay
<1>6. ASSUME NEW l \in Launchers, BuildBridge(l) PROVE DisplayOf(m)'
  BY <1>6 DEF BuildBridge
<1>7. ASSUME NEW l \in Launchers, SocketMissing(l) PROVE DisplayOf(m)'
  BY <1>7 DEF SocketMissing
<1>8. ASSUME NEW l \in Launchers, SpawnClient(l) PROVE DisplayOf(m)'
  BY <1>8 DEF SpawnClient
<1>9. ASSUME NEW l \in Launchers, WaitFinds(l) PROVE DisplayOf(m)'
  BY <1>9 DEF WaitFinds
<1>10. ASSUME NEW l \in Launchers, FallbackTimeout(l) PROVE DisplayOf(m)'
  BY <1>10 DEF FallbackTimeout
<1>11. ASSUME NEW l \in Launchers, AdoptBridge(l) PROVE DisplayOf(m)'
  BY <1>11 DEF AdoptBridge
<1>12. ASSUME NEW l \in Launchers, StopApp(l) PROVE DisplayOf(m)'
  BY <1>12 DEF StopApp
<1>13. ASSUME NEW l \in Launchers, Reap(l) PROVE DisplayOf(m)'
  BY <1>13 DEF Reap
<1>14. ASSUME NEW l \in Launchers, ThreadEnds(l) PROVE DisplayOf(m)'
  BY <1>14 DEF ThreadEnds
<1>15. ASSUME NEW l \in Launchers, HandOver(l) PROVE DisplayOf(m)'
  BY <1>15 DEF HandOver
<1>16. ASSUME NEW l \in Launchers, Serve(l) PROVE DisplayOf(m)'
  <2>1. pc[l] = "socket" /\ display[l] \in Displays /\ display[l] \notin xfiles
    BY <1>16 DEF Serve
  <2>2. server[display[l]] = None
    BY <2>1
  <2>3. server' = [server EXCEPT ![display[l]] = Xwayland(l)] /\ xfiles' = xfiles \cup {display[l]}
        /\ UNCHANGED <<pc, proc, display>>
    BY <1>16 DEF Serve
  <2>4. CASE m = l
    BY <2>1, <2>2, <2>3, <2>4
  <2>5. CASE m # l
    <3>1. pc[m] \notin UnderWay
      BY <2>1, <2>5
    <3>2. ASSUME NEW d \in Displays, server[d] = Xwayland(m) PROVE server'[d] = Xwayland(m)
      <4>1. Xwayland(m) \in Processes /\ Xwayland(m) # None
        BY DEF Xwayland, Processes
      <4>2. d # display[l]
        BY <2>2, <3>2, <4>1
      <4> QED BY <2>3, <3>2, <4>2
    <3>3. Serving(m) => Serving(m)'
      BY <3>2
    <3> QED BY <2>3, <3>1, <3>3
  <2> QED BY <2>4, <2>5
<1>17. ASSUME NEW l \in Launchers, NEW p \in Processes, Connect(l, p) PROVE DisplayOf(m)'
  BY <1>17 DEF Connect
<1>18. ASSUME NEW l \in Launchers, NEW p \in Processes, Draw(l, p) PROVE DisplayOf(m)'
  BY <1>18 DEF Draw
<1>19. ASSUME NEW p \in Processes, Exit(p) PROVE DisplayOf(m)'
  BY <1>19 DEF Exit
<1>20. ASSUME NEW p \in Processes, Delist(p) PROVE DisplayOf(m)'
  BY <1>20 DEF Delist
<1>21. CASE Close
  BY <1>21 DEF Close
<1>22. CASE UNCHANGED vars
  BY <1>22 DEF vars, launchVars, clientVars, bridgeVars
<1> QED BY <1>1, <1>2, <1>3, <1>4, <1>5, <1>6, <1>7, <1>8, <1>9, <1>10, <1>11,
      <1>12, <1>13, <1>14, <1>15, <1>16, <1>17, <1>18, <1>19, <1>20, <1>21, <1>22
      DEF Next, LaunchStep, Environment

(* What appending to and removing from the list does to what is listed.     *)
LEMMA ListedWith ==
  ASSUME NEW S, NEW s \in Seq(S), NEW p \in S
  PROVE  Range(Append(s, p)) = Range(s) \cup {p}
<1>1. /\ Append(s, p) \in Seq(S) /\ Len(Append(s, p)) = Len(s) + 1
      /\ \A i \in 1 .. Len(s) : Append(s, p)[i] = s[i]
      /\ Append(s, p)[Len(s) + 1] = p
  OBVIOUS
<1>2. DOMAIN s = 1 .. Len(s) /\ DOMAIN Append(s, p) = 1 .. Len(s) + 1 /\ Len(s) \in Nat
  BY <1>1
<1> QED BY <1>1, <1>2 DEF Range

LEMMA ListedWithout ==
  ASSUME NEW S, NEW s \in Seq(S), NEW i \in DOMAIN s
  PROVE  /\ Range(RemoveAt(s, i)) \subseteq Range(s)
         /\ Range(s) \subseteq Range(RemoveAt(s, i)) \cup {s[i]}
<1> DEFINE r == RemoveAt(s, i)
<1>1. DOMAIN s = 1 .. Len(s) /\ Len(s) \in Nat /\ i \in 1 .. Len(s)
  OBVIOUS
<1>2. /\ r \in Seq(S) /\ Len(r) = Len(s) - 1
      /\ \A j \in 1 .. Len(s) - 1 : r[j] = IF j < i THEN s[j] ELSE s[j + 1]
  <2> DEFINE a == SubSeq(s, 1, i - 1)
             b == SubSeq(s, i + 1, Len(s))
  <2>1. /\ a \in Seq(S) /\ Len(a) = i - 1
        /\ \A j \in 1 .. i - 1 : a[j] = s[j]
    BY <1>1
  <2>2. /\ b \in Seq(S) /\ Len(b) = Len(s) - i
        /\ \A j \in 1 .. Len(s) - i : b[j] = s[i + j]
    BY <1>1
  <2>3. r = a \o b
    BY DEF RemoveAt
  <2> HIDE DEF a, b, r
  <2>c. /\ a \o b \in Seq(S) /\ Len(a \o b) = Len(a) + Len(b)
        /\ \A j \in 1 .. Len(a) + Len(b) : (a \o b)[j] = IF j <= Len(a) THEN a[j] ELSE b[j - Len(a)]
    BY <2>1, <2>2, ConcatProperties
  <2>4. /\ r \in Seq(S) /\ Len(r) = Len(a) + Len(b)
        /\ \A j \in 1 .. Len(a) + Len(b) : r[j] = IF j <= Len(a) THEN a[j] ELSE b[j - Len(a)]
    BY <2>3, <2>c
  <2>5. Len(r) = Len(s) - 1
    BY <1>1, <2>1, <2>2, <2>4
  <2>6. ASSUME NEW j \in 1 .. Len(s) - 1
        PROVE  r[j] = IF j < i THEN s[j] ELSE s[j + 1]
    <3>1. CASE j < i
      BY <1>1, <2>1, <2>2, <2>4, <3>1
    <3>2. CASE j >= i
      <4>1. j - (i - 1) \in 1 .. Len(s) - i /\ i + (j - (i - 1)) = j + 1
        BY <1>1, <3>2
      <4>2. r[j] = b[j - (i - 1)]
        BY <1>1, <2>1, <2>2, <2>4, <3>2
      <4> QED BY <2>2, <4>1, <4>2, <3>2, <1>1
    <3> QED BY <1>1, <3>1, <3>2
  <2> QED BY <2>4, <2>5, <2>6
<1> HIDE DEF r
<1>3. DOMAIN r = 1 .. Len(s) - 1
  BY <1>2
<1>4. \A j \in DOMAIN r : \E k \in DOMAIN s : r[j] = s[k]
  BY <1>1, <1>2, <1>3
<1>5. \A k \in DOMAIN s \ {i} : \E j \in DOMAIN r : s[k] = r[j]
  <2> TAKE k \in DOMAIN s \ {i}
  <2>1. CASE k < i
    BY <1>1, <1>2, <1>3, <2>1
  <2>2. CASE k > i
    <3>1. k - 1 \in DOMAIN r /\ ~(k - 1 < i) /\ (k - 1) + 1 = k
      BY <1>1, <1>3, <2>2
    <3> QED BY <1>2, <1>3, <3>1
  <2> QED BY <1>1, <2>1, <2>2
<1> QED BY <1>4, <1>5 DEF Range, r


(* The connection of a launch stays its own.                                *)
LEMMA ConnectionsStep == TypeOK /\ Stages /\ Bridges /\ Solo /\ OwnConnections /\ [Next]_vars => OwnConnections'
<1> SUFFICES ASSUME TypeOK, Stages, Bridges, Solo, OwnConnections, [Next]_vars,
                    overlapped' \cup Wrappers = {}, NEW m \in Launchers
             PROVE  ConnectionOf(m)'
  BY DEF OwnConnections
<1>a. pc \in [Launchers -> {"idle"} \cup UnderWay \cup Returned]
      /\ proc \in [Processes -> {"unborn", "running", "exited", "killed", "reaped"}]
      /\ display \in [Launchers -> Displays \cup {None}]
      /\ server \in [Displays -> Processes \cup {None}] /\ xfiles \subseteq Displays
      /\ reapers \subseteq Launchers /\ apps \in Seq(Processes)
      /\ before \in [Launchers -> SUBSET Processes] /\ app \in [Launchers -> Processes \cup {None}]
  BY DEF TypeOK
<1>b. \A l \in Launchers : StageOf(l) /\ BridgeOf(l)
  BY DEF Stages, Bridges
<1>c. overlapped = {} /\ Wrappers = {}
  BY DEF Next, LaunchStep, Environment, vars, launchVars, Begin, ProbeFinds, ProbeEnds, ProbeFails, StartBridge,
     BuildBridge, SocketMissing, SpawnClient, WaitFinds, FallbackTimeout, AdoptBridge, StopApp, Reap,
     ThreadEnds, HandOver, Serve, Connect, Draw, Exit, Delist, Close
<1>d. \A l \in Launchers : ConnectionOf(l)
  BY <1>c DEF OwnConnections
<1>e. \A l, n \in Launchers : l # n => ~(pc[l] \in UnderWay /\ pc[n] \in UnderWay)
  BY <1>c DEF Solo
<1> USE Names, NoneAssumption, <1>a, <1>b, <1>c, <1>d, <1>e DEF StageOf, BridgeOf,
        Gone, Children, UnderWay, Returned, Bridging, launchVars, clientVars,
        bridgeVars, Goto, Return, Spawn, KillAndWait, UndoBridge, Running,
        ConnectionOf, ConnectedPids
<1>1. ASSUME NEW l \in Launchers, Begin(l) PROVE ConnectionOf(m)'
  BY <1>1 DEF Begin
<1>2. ASSUME NEW l \in Launchers, ProbeFinds(l) PROVE ConnectionOf(m)'
  BY <1>2 DEF ProbeFinds, NewCapturableApp, Capturable, Range
<1>3. ASSUME NEW l \in Launchers, ProbeEnds(l) PROVE ConnectionOf(m)'
  BY <1>3 DEF ProbeEnds
<1>4. ASSUME NEW l \in Launchers, ProbeFails(l) PROVE ConnectionOf(m)'
  BY <1>4 DEF ProbeFails
<1>5. ASSUME NEW l \in Launchers, StartBridge(l) PROVE ConnectionOf(m)'
  BY <1>5 DEF StartBridge
<1>6. ASSUME NEW l \in Launchers, BuildBridge(l) PROVE ConnectionOf(m)'
  BY <1>6 DEF BuildBridge
<1>7. ASSUME NEW l \in Launchers, SocketMissing(l) PROVE ConnectionOf(m)'
  BY <1>7 DEF SocketMissing
<1>8. ASSUME NEW l \in Launchers, SpawnClient(l) PROVE ConnectionOf(m)'
  BY <1>8 DEF SpawnClient
<1>9. ASSUME NEW l \in Launchers, WaitFinds(l) PROVE ConnectionOf(m)'
  BY <1>9 DEF WaitFinds, NewCapturableApp, Capturable, Range
<1>10. ASSUME NEW l \in Launchers, FallbackTimeout(l) PROVE ConnectionOf(m)'
  BY <1>10 DEF FallbackTimeout
<1>11. ASSUME NEW l \in Launchers, AdoptBridge(l) PROVE ConnectionOf(m)'
  BY <1>11 DEF AdoptBridge
<1>12. ASSUME NEW l \in Launchers, StopApp(l) PROVE ConnectionOf(m)'
  BY <1>12 DEF StopApp
<1>13. ASSUME NEW l \in Launchers, Reap(l) PROVE ConnectionOf(m)'
  BY <1>13 DEF Reap
<1>14. ASSUME NEW l \in Launchers, ThreadEnds(l) PROVE ConnectionOf(m)'
  BY <1>14 DEF ThreadEnds
<1>15. ASSUME NEW l \in Launchers, HandOver(l) PROVE ConnectionOf(m)'
  BY <1>15 DEF HandOver
<1>16. ASSUME NEW l \in Launchers, Serve(l) PROVE ConnectionOf(m)'
  BY <1>16 DEF Serve
<1>17. ASSUME NEW l \in Launchers, NEW p \in Processes, Connect(l, p) PROVE ConnectionOf(m)'
  <2>1. Range(apps') = Range(apps) \cup {p}
    BY <1>17, ListedWith DEF Connect
  <2>2. UNCHANGED <<pc, before, app, proc, seat>> /\ Running(p) /\ p \notin Range(apps) /\ seat = "open"
        /\ p \in {Native(l), Xwayland(l)}
    BY <1>17 DEF Connect
  <2>3. pc[l] \in UnderWay \ {"content"}
    BY <2>2
  <2>4. CASE m = l
    BY <2>1, <2>2, <2>3, <2>4
  <2>5. CASE m # l
    <3>1. pc[m] \notin UnderWay
      BY <2>3, <2>5
    <3> QED BY <2>1, <2>2, <3>1
  <2> QED BY <2>4, <2>5
<1>18. ASSUME NEW l \in Launchers, NEW p \in Processes, Draw(l, p) PROVE ConnectionOf(m)'
  BY <1>18 DEF Draw
<1>19. ASSUME NEW p \in Processes, Exit(p) PROVE ConnectionOf(m)'
  BY <1>19 DEF Exit
<1>20. ASSUME NEW p \in Processes, Delist(p) PROVE ConnectionOf(m)'
  <2>1. Range(apps') \subseteq Range(apps) /\ Range(apps) \subseteq Range(apps') \cup {p}
    BY <1>20, ListedWithout DEF Delist
  <2>2. UNCHANGED <<pc, before, app, proc, seat>> /\ ~Running(p)
    BY <1>20 DEF Delist
  <2> QED BY <2>1, <2>2
<1>21. CASE Close
  <2>1. Range(apps') = {}
    BY <1>21 DEF Close, Range
  <2> QED BY <1>21, <2>1 DEF Close
<1>22. CASE UNCHANGED vars
  BY <1>22 DEF vars, launchVars, clientVars, bridgeVars
<1> QED BY <1>1, <1>2, <1>3, <1>4, <1>5, <1>6, <1>7, <1>8, <1>9, <1>10, <1>11,
      <1>12, <1>13, <1>14, <1>15, <1>16, <1>17, <1>18, <1>19, <1>20, <1>21, <1>22
      DEF Next, LaunchStep, Environment

-----------------------------------------------------------------------------
(* What follows.                                                            *)

(* The invariant holds initially and in every reachable state.             *)
THEOREM Invariance == Spec => []IInv
<1>1. Init => IInv
  <2>1. Init => TypeOK
    BY DEF Init, TypeOK
  <2>2. Init => Stages /\ Bridges
    BY Names DEF Init, Stages, StageOf, Bridges, BridgeOf, Gone, Children
  <2> QED BY <2>1, <2>2 DEF IInv
<1>2. IInv /\ [Next]_vars => IInv'
  BY TypesStep, StagesStep, BridgesStep DEF IInv
<1> QED BY <1>1, <1>2, PTL DEF Spec

(* Every variable keeps its type (Launch.TypeOK).                          *)
THEOREM TypeCorrect == Spec => []TypeOK
<1>1. IInv => TypeOK
  BY DEF IInv
<1> QED BY <1>1, Invariance, PTL

(* No launch leaves a child, a bridge or a directory without an owner      *)
(* (start_xwayland_bridge, adopt_xwayland_bridge, Drop).                   *)
THEOREM Owned == Spec => []NothingOrphaned
<1>1. IInv => NothingOrphaned
  BY Names DEF IInv, TypeOK, Stages, StageOf, Bridges, BridgeOf, Gone, Children, Bridging, NothingOrphaned
<1> QED BY <1>1, Invariance, PTL

(* The native attempt and the fallback never run together (launch).        *)
THEOREM RunOnce == Spec => []RunsOnce
<1>1. IInv => RunsOnce
  <2> SUFFICES ASSUME IInv, NEW l \in Launchers PROVE ~(Running(Native(l)) /\ Running(X11(l)))
    BY DEF RunsOnce
  <2>1. StageOf(l) /\ pc[l] \in {"idle"} \cup UnderWay \cup Returned
    BY DEF IInv, TypeOK, Stages
  <2> QED BY <2>1, Names DEF StageOf, Gone, Children, Running, UnderWay, Returned, Bridging
<1> QED BY <1>1, Invariance, PTL

-----------------------------------------------------------------------------
(* Launches one after another.                                              *)

SequentialInv == IInv /\ Solo /\ Servers /\ OwnDisplays /\ OwnConnections

(* The invariant of launches that do not overlap holds in every reachable   *)
(* state.                                                                   *)
THEOREM SequentialInvariance == Spec => []SequentialInv
<1>1. Init => Solo /\ Servers /\ OwnDisplays /\ OwnConnections
  <2> SUFFICES ASSUME Init PROVE Solo /\ Servers /\ OwnDisplays /\ OwnConnections
    OBVIOUS
  <2>1. /\ \A l \in Launchers : pc[l] = "idle"
        /\ \A p \in Processes : proc[p] = "unborn"
        /\ \A d \in Displays : server[d] = None
        /\ Range(apps) = {}
    BY DEF Init, Range
  <2>2. Solo
    BY <2>1 DEF Solo, UnderWay, Bridging
  <2>3. Servers
    BY <2>1 DEF Servers
  <2>4. OwnDisplays
    BY <2>1, Names DEF OwnDisplays, DisplayOf, Running, Bridging, Returned
  <2>5. OwnConnections
    BY <2>1, Names DEF OwnConnections, ConnectionOf, Running, Returned
  <2> QED BY <2>2, <2>3, <2>4, <2>5
<1>2. IInv /\ Solo /\ Servers /\ OwnDisplays /\ OwnConnections /\ [Next]_vars
        => Solo' /\ Servers' /\ OwnDisplays' /\ OwnConnections'
  BY SoloStep, ServersStep, DisplaysStep, ConnectionsStep DEF IInv
<1> QED BY <1>1, <1>2, Invariance, PTL DEF Spec, SequentialInv

(* While no two launches have overlapped, the display a client is pointed   *)
(* at is served by its own Xwayland or by nobody (pick_free_display).       *)
THEOREM DisplayIsOwn == Spec => []OwnDisplay
<1>1. SequentialInv => OwnDisplay
  BY DEF SequentialInv, OwnDisplays, DisplayOf, OwnDisplay, Bridging
<1> QED BY <1>1, SequentialInvariance, PTL

(* While no two launches have overlapped and no program is a wrapper, a     *)
(* launch returns the connection of the process it reports                  *)
(* (new_capturable_app).                                                    *)
THEOREM BoundToOwnProcess == Spec => []BoundToOwn
<1>1. SequentialInv => BoundToOwn
  BY DEF SequentialInv, OwnConnections, ConnectionOf, BoundToOwn
<1> QED BY <1>1, SequentialInvariance, PTL
=============================================================================
