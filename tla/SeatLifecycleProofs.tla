------------------------- MODULE SeatLifecycleProofs -------------------------
(***************************************************************************)
(* Proofs about SeatLifecycle for every set of connections, closers,       *)
(* bridges and launches.                                                   *)
(*                                                                         *)
(* ClosedOnReturn is not inductive.  What makes it true is an argument in  *)
(* two parts: a closer that is past the accept_thread mutex knows that the *)
(* accept thread is quiet, because whoever took the handle held the mutex  *)
(* until the join was over (HandleTaken, AfterJoin); and from then on an   *)
(* open connection can only be one that the second pass has in its copy of *)
(* the list (OpenIsListed, SecondPassCovers).                              *)
(***************************************************************************)
EXTENDS SeatLifecycle, TLAPS

AfterAccept == SecondPass \cup Reaping \cup {"returned"}
Past2       == Reaping \cup {"returned"}
AtWork      == {"setup", "checkAgain", "pushApp", "spawn", "pushHandle",
                "failClose", "failApps", "failBound"}
EndOfProxy  == {"upgradeSeat", "removeApp", "removeBound", "dropSeat"}

CurrentSet == pc[Acceptor] \in AtWork => current \in Conns
TargetSet  == \A l \in Launchers : launch[l] # "idle" => target[l] \in Conns

(* The accept thread works under a strong reference, and runs Drop only     *)
(* when none is left.                                                       *)
AcceptHolds == /\ pc[Acceptor] \in AcceptBusy => Acceptor \in strong
               /\ pc[Acceptor] \in ShutdownPC \cup {"returned"} => strong = {}

StopIsSet == \A t \in Threads : pc[t] \in (ShutdownPC \ {"stop"}) \cup {"returned"} => stopping

HandleTaken == ~acceptHandle => AcceptQuiet \/ acceptLock # NoThread
AfterJoin   == \A t \in Threads : pc[t] \in AfterAccept => AcceptQuiet

EndsDead == /\ \A c \in Conns : pc[c] \in EndOfProxy => c \in dead
            /\ pc[Acceptor] = "failApps" => current \in dead

OpenIsListed     == \A c \in Conns : stage[c] = "proxied" /\ c \notin dead => c \in apps
SecondPassCovers ==
  \A t \in Threads : pc[t] = "closeAll2" =>
    \A c \in Conns : stage[c] = "proxied" /\ c \notin dead => c \in work[t]
AllDead ==
  \A t \in Threads : pc[t] \in Past2 => \A c \in Conns : stage[c] = "proxied" => c \in dead
Cleared == \A t \in Threads : pc[t] \in {"clearBound", "returned"} => apps = {}

Types == TypeOK /\ CurrentSet /\ TargetSet
Sealing == /\ AcceptHolds /\ StopIsSet /\ HandleTaken /\ AfterJoin /\ EndsDead
           /\ OpenIsListed /\ SecondPassCovers /\ AllDead /\ Cleared
IInv == Types /\ Sealing

USE BridgesAssumption, ThreadsAssumption

LEMMA TypesStep == Types /\ [Next]_vars => Types'
<1> SUFFICES ASSUME Types, [Next]_vars PROVE Types'
  OBVIOUS
<1> USE DEF Types, TypeOK, CurrentSet, TargetSet, Threads, Goto, seatVars, tableVars,
        connVars, launchVars, ShutdownPC, FirstPass, SecondPass, Reaping, AcceptBusy,
        ProxyLoop, ProxyCleanup, AtWork
<1>1. ASSUME NEW t \in Threads, StoreStopping(t) PROVE Types'
  BY <1>1 DEF StoreStopping
<1>2. ASSUME NEW t \in Threads, SwapSocketRemoved(t) PROVE Types'
  BY <1>2 DEF SwapSocketRemoved
<1>3. ASSUME NEW t \in Threads, RemoveSocketFile(t) PROVE Types'
  BY <1>3 DEF RemoveSocketFile
<1>4. ASSUME NEW t \in Threads, SnapshotApps(t) PROVE Types'
  BY <1>4 DEF SnapshotApps
<1>5. ASSUME NEW t \in Threads, CloseActiveConnection(t) PROVE Types'
  BY <1>5 DEF CloseActiveConnection, CloseConnection
<1>6. ASSUME NEW t \in Threads, TakeAcceptHandle(t) PROVE Types'
  <2>1. pc' \in [Threads -> ShutdownPC \cup AcceptBusy \cup ProxyLoop \cup ProxyCleanup
                             \cup {"none", "upgrade", "idle", "returned", "exited"}]
    BY <1>6 DEF TakeAcceptHandle
  <2>2. acceptLock' \in Threads \cup {NoThread}
    BY <1>6 DEF TakeAcceptHandle
  <2>3. CurrentSet'
    BY <1>6 DEF TakeAcceptHandle
  <2>4. acceptHandle' \in BOOLEAN
    BY <1>6 DEF TakeAcceptHandle
  <2>5. QED
    BY <1>6, <2>1, <2>2, <2>3, <2>4 DEF TakeAcceptHandle
<1>7. ASSUME NEW t \in Threads, JoinAccept(t) PROVE Types'
  BY <1>7 DEF JoinAccept
<1>8. ASSUME NEW t \in Threads, TakeProxyHandles(t) PROVE Types'
  BY <1>8 DEF TakeProxyHandles
<1>9. ASSUME NEW t \in Threads, JoinProxies(t) PROVE Types'
  BY <1>9 DEF JoinProxies
<1>10. ASSUME NEW t \in Threads, TakeBridgeHandles(t) PROVE Types'
  BY <1>10 DEF TakeBridgeHandles
<1>11. ASSUME NEW t \in Threads, JoinBridges(t) PROVE Types'
  BY <1>11 DEF JoinBridges
<1>12. ASSUME NEW t \in Threads, ClearApps(t) PROVE Types'
  BY <1>12 DEF ClearApps
<1>13. ASSUME NEW t \in Threads, ReturnFromClose(t) PROVE Types'
  BY <1>13 DEF ReturnFromClose
<1>14. ASSUME NEW t \in Threads, FinishDrop(t) PROVE Types'
  BY <1>14 DEF FinishDrop
<1>15. ASSUME NEW k \in Closers, Close(k) PROVE Types'
  BY <1>15 DEF Close
<1>16. ASSUME NEW k \in Closers, DropArc(k) PROVE Types'
  BY <1>16 DEF DropArc, DropSeat
<1>17. ASSUME UpgradeAccept PROVE Types'
  BY <1>17 DEF UpgradeAccept
<1>18. ASSUME CheckStop PROVE Types'
  BY <1>18 DEF CheckStop, DropSeat
<1>19. ASSUME AcceptNothing PROVE Types'
  BY <1>19 DEF AcceptNothing
<1>20. ASSUME NEW c \in Conns, AcceptClient(c) PROVE Types'
  BY <1>20 DEF AcceptClient
<1>21. ASSUME RefuseClient PROVE Types'
  BY <1>21 DEF RefuseClient
<1>22. ASSUME SetupDone PROVE Types'
  BY <1>22 DEF SetupDone
<1>23. ASSUME CheckAgain PROVE Types'
  BY <1>23 DEF CheckAgain
<1>24. ASSUME PushApp PROVE Types'
  BY <1>24 DEF PushApp
<1>25. ASSUME SpawnProxy PROVE Types'
  BY <1>25 DEF SpawnProxy
<1>26. ASSUME PushHandle PROVE Types'
  BY <1>26 DEF PushHandle
<1>27. ASSUME SpawnFails PROVE Types'
  BY <1>27 DEF SpawnFails
<1>28. ASSUME FailClose PROVE Types'
  BY <1>28 DEF FailClose, CloseConnection
<1>29. ASSUME FailRemoveApp PROVE Types'
  BY <1>29 DEF FailRemoveApp
<1>30. ASSUME FailRemoveBound PROVE Types'
  BY <1>30 DEF FailRemoveBound, RetainBound
<1>31. ASSUME EndAccept PROVE Types'
  BY <1>31 DEF EndAccept, DropSeat
<1>32. ASSUME NEW c \in Conns, CheckLoop(c) PROVE Types'
  BY <1>32 DEF CheckLoop
<1>33. ASSUME NEW c \in Conns, Poll(c) PROVE Types'
  BY <1>33 DEF Poll
<1>34. ASSUME NEW c \in Conns, CleanupClose(c) PROVE Types'
  BY <1>34 DEF CleanupClose, CloseConnection
<1>35. ASSUME NEW c \in Conns, UpgradeProxy(c) PROVE Types'
  BY <1>35 DEF UpgradeProxy
<1>36. ASSUME NEW c \in Conns, RemoveApp(c) PROVE Types'
  BY <1>36 DEF RemoveApp
<1>37. ASSUME NEW c \in Conns, RemoveBound(c) PROVE Types'
  BY <1>37 DEF RemoveBound, RetainBound
<1>38. ASSUME NEW c \in Conns, DropUpgraded(c) PROVE Types'
  BY <1>38 DEF DropUpgraded, DropSeat
<1>39. ASSUME NEW c \in Conns, Connect(c) PROVE Types'
  BY <1>39 DEF Connect
<1>40. ASSUME NEW c \in Conns, ClientExits(c) PROVE Types'
  BY <1>40 DEF ClientExits
<1>41. ASSUME NEW b \in Bridges, AdoptBridge(b) PROVE Types'
  BY <1>41 DEF AdoptBridge
<1>42. ASSUME NEW b \in Bridges, ReapBridge(b) PROVE Types'
  BY <1>42 DEF ReapBridge
<1>43. ASSUME NEW l \in Launchers, NEW c \in Conns, FindApp(l, c) PROVE Types'
  BY <1>43 DEF FindApp
<1>44. ASSUME NEW l \in Launchers, BindApp(l) PROVE Types'
  BY <1>44 DEF BindApp
<1>45. ASSUME NEW l \in Launchers, StopApp(l) PROVE Types'
  BY <1>45 DEF StopApp
<1>46. CASE UNCHANGED vars
  BY <1>46 DEF vars
<1>47. QED
  BY <1>1, <1>2, <1>3, <1>4, <1>5, <1>6, <1>7, <1>8, <1>9, <1>10, <1>11, <1>12,
     <1>13, <1>14, <1>15, <1>16, <1>17, <1>18, <1>19, <1>20, <1>21, <1>22,
     <1>23, <1>24, <1>25, <1>26, <1>27, <1>28, <1>29, <1>30, <1>31, <1>32,
     <1>33, <1>34, <1>35, <1>36, <1>37, <1>38, <1>39, <1>40, <1>41,
     <1>42, <1>43, <1>44, <1>45, <1>46
     DEF Next, ShutdownStep, AcceptStep, ProxyStep, LaunchStep, AllDone

LEMMA SealingStep == Types /\ Sealing /\ [Next]_vars => Sealing'
<1> SUFFICES ASSUME Types /\ Sealing, [Next]_vars PROVE Sealing'
  OBVIOUS
<1> USE DEF Types, TypeOK, CurrentSet, TargetSet, Threads, Goto, seatVars, tableVars,
        connVars, launchVars, ShutdownPC, FirstPass, SecondPass, Reaping, AcceptBusy,
        ProxyLoop, ProxyCleanup, AtWork, Sealing, AcceptHolds, StopIsSet,
        HandleTaken, AfterJoin, EndsDead, OpenIsListed, SecondPassCovers, AllDead, Cleared,
        AfterAccept, Past2, EndOfProxy, AcceptQuiet
<1>1. ASSUME NEW t \in Threads, StoreStopping(t) PROVE Sealing'
  BY <1>1 DEF StoreStopping
<1>2. ASSUME NEW t \in Threads, SwapSocketRemoved(t) PROVE Sealing'
  BY <1>2 DEF SwapSocketRemoved
<1>3. ASSUME NEW t \in Threads, RemoveSocketFile(t) PROVE Sealing'
  BY <1>3 DEF RemoveSocketFile
<1>4. ASSUME NEW t \in Threads, SnapshotApps(t) PROVE Sealing'
  BY <1>4 DEF SnapshotApps
<1>5. ASSUME NEW t \in Threads, CloseActiveConnection(t) PROVE Sealing'
  BY <1>5 DEF CloseActiveConnection, CloseConnection
<1>6. ASSUME NEW t \in Threads, TakeAcceptHandle(t) PROVE Sealing'
  BY <1>6 DEF TakeAcceptHandle
<1>7. ASSUME NEW t \in Threads, JoinAccept(t) PROVE Sealing'
  BY <1>7 DEF JoinAccept
<1>8. ASSUME NEW t \in Threads, TakeProxyHandles(t) PROVE Sealing'
  BY <1>8 DEF TakeProxyHandles
<1>9. ASSUME NEW t \in Threads, JoinProxies(t) PROVE Sealing'
  BY <1>9 DEF JoinProxies
<1>10. ASSUME NEW t \in Threads, TakeBridgeHandles(t) PROVE Sealing'
  BY <1>10 DEF TakeBridgeHandles
<1>11. ASSUME NEW t \in Threads, JoinBridges(t) PROVE Sealing'
  BY <1>11 DEF JoinBridges
<1>12. ASSUME NEW t \in Threads, ClearApps(t) PROVE Sealing'
  BY <1>12 DEF ClearApps
<1>13. ASSUME NEW t \in Threads, ReturnFromClose(t) PROVE Sealing'
  BY <1>13 DEF ReturnFromClose
<1>14. ASSUME NEW t \in Threads, FinishDrop(t) PROVE Sealing'
  BY <1>14 DEF FinishDrop
<1>15. ASSUME NEW k \in Closers, Close(k) PROVE Sealing'
  BY <1>15 DEF Close
<1>16. ASSUME NEW k \in Closers, DropArc(k) PROVE Sealing'
  BY <1>16 DEF DropArc, DropSeat
<1>17. ASSUME UpgradeAccept PROVE Sealing'
  BY <1>17 DEF UpgradeAccept
<1>18. ASSUME CheckStop PROVE Sealing'
  BY <1>18 DEF CheckStop, DropSeat
<1>19. ASSUME AcceptNothing PROVE Sealing'
  BY <1>19 DEF AcceptNothing
<1>20. ASSUME NEW c \in Conns, AcceptClient(c) PROVE Sealing'
  BY <1>20 DEF AcceptClient
<1>21. ASSUME RefuseClient PROVE Sealing'
  BY <1>21 DEF RefuseClient
<1>22. ASSUME SetupDone PROVE Sealing'
  BY <1>22 DEF SetupDone
<1>23. ASSUME CheckAgain PROVE Sealing'
  BY <1>23 DEF CheckAgain
<1>24. ASSUME PushApp PROVE Sealing'
  BY <1>24 DEF PushApp
<1>25. ASSUME SpawnProxy PROVE Sealing'
  BY <1>25 DEF SpawnProxy
<1>26. ASSUME PushHandle PROVE Sealing'
  BY <1>26 DEF PushHandle
<1>27. ASSUME SpawnFails PROVE Sealing'
  BY <1>27 DEF SpawnFails
<1>28. ASSUME FailClose PROVE Sealing'
  BY <1>28 DEF FailClose, CloseConnection
<1>29. ASSUME FailRemoveApp PROVE Sealing'
  BY <1>29 DEF FailRemoveApp
<1>30. ASSUME FailRemoveBound PROVE Sealing'
  BY <1>30 DEF FailRemoveBound, RetainBound
<1>31. ASSUME EndAccept PROVE Sealing'
  BY <1>31 DEF EndAccept, DropSeat
<1>32. ASSUME NEW c \in Conns, CheckLoop(c) PROVE Sealing'
  BY <1>32 DEF CheckLoop
<1>33. ASSUME NEW c \in Conns, Poll(c) PROVE Sealing'
  BY <1>33 DEF Poll
<1>34. ASSUME NEW c \in Conns, CleanupClose(c) PROVE Sealing'
  BY <1>34 DEF CleanupClose, CloseConnection
<1>35. ASSUME NEW c \in Conns, UpgradeProxy(c) PROVE Sealing'
  BY <1>35 DEF UpgradeProxy
<1>36. ASSUME NEW c \in Conns, RemoveApp(c) PROVE Sealing'
  BY <1>36 DEF RemoveApp
<1>37. ASSUME NEW c \in Conns, RemoveBound(c) PROVE Sealing'
  BY <1>37 DEF RemoveBound, RetainBound
<1>38. ASSUME NEW c \in Conns, DropUpgraded(c) PROVE Sealing'
  BY <1>38 DEF DropUpgraded, DropSeat
<1>39. ASSUME NEW c \in Conns, Connect(c) PROVE Sealing'
  BY <1>39 DEF Connect
<1>40. ASSUME NEW c \in Conns, ClientExits(c) PROVE Sealing'
  BY <1>40 DEF ClientExits
<1>41. ASSUME NEW b \in Bridges, AdoptBridge(b) PROVE Sealing'
  BY <1>41 DEF AdoptBridge
<1>42. ASSUME NEW b \in Bridges, ReapBridge(b) PROVE Sealing'
  BY <1>42 DEF ReapBridge
<1>43. ASSUME NEW l \in Launchers, NEW c \in Conns, FindApp(l, c) PROVE Sealing'
  BY <1>43 DEF FindApp
<1>44. ASSUME NEW l \in Launchers, BindApp(l) PROVE Sealing'
  BY <1>44 DEF BindApp
<1>45. ASSUME NEW l \in Launchers, StopApp(l) PROVE Sealing'
  BY <1>45 DEF StopApp
<1>46. CASE UNCHANGED vars
  BY <1>46 DEF vars
<1>47. QED
  BY <1>1, <1>2, <1>3, <1>4, <1>5, <1>6, <1>7, <1>8, <1>9, <1>10, <1>11, <1>12,
     <1>13, <1>14, <1>15, <1>16, <1>17, <1>18, <1>19, <1>20, <1>21, <1>22,
     <1>23, <1>24, <1>25, <1>26, <1>27, <1>28, <1>29, <1>30, <1>31, <1>32,
     <1>33, <1>34, <1>35, <1>36, <1>37, <1>38, <1>39, <1>40, <1>41,
     <1>42, <1>43, <1>44, <1>45, <1>46
     DEF Next, ShutdownStep, AcceptStep, ProxyStep, LaunchStep, AllDone

-----------------------------------------------------------------------------
LEMMA InitInvariant == Init => IInv
<1> SUFFICES ASSUME Init PROVE IInv
  OBVIOUS
<1>1. Types
  BY DEF Init, Types, TypeOK, CurrentSet, TargetSet, Threads, AtWork
<1>2. Sealing
  BY DEF Init, Sealing, AcceptHolds, StopIsSet, HandleTaken, AfterJoin, EndsDead, OpenIsListed,
         SecondPassCovers, AllDead, Cleared, Threads, ShutdownPC, FirstPass, SecondPass, Reaping,
         AcceptBusy, AfterAccept, Past2, EndOfProxy
<1>3. QED
  BY <1>1, <1>2 DEF IInv

LEMMA StepInvariant == IInv /\ [Next]_vars => IInv'
  BY TypesStep, SealingStep DEF IInv

(* The inductive invariant holds in every reachable state.                  *)
THEOREM Invariance == Spec => []IInv
<1>1. Init => IInv
  BY InitInvariant
<1>2. IInv /\ [Next]_vars => IInv'
  BY StepInvariant
<1>3. QED
  BY <1>1, <1>2, PTL DEF Spec

(* Every variable of the seat keeps its type, which includes that the       *)
(* accept thread never lists a connection it does not have.                 *)
THEOREM TypeCorrect == Spec => []TypeOK
<1>1. IInv => TypeOK
  BY DEF IInv, Types
<1>2. QED
  BY <1>1, Invariance, PTL

LEMMA InvariantCloses == IInv => ClosedOnReturn
<1> SUFFICES ASSUME IInv, NEW k \in Closers, pc[k] = "returned"
             PROVE  /\ stopping
                    /\ pc[Acceptor] \notin AcceptBusy
                    /\ Admitted \subseteq dead
                    /\ apps = {}
  BY DEF ClosedOnReturn
<1>1. k \in Threads
  BY DEF Threads
<1>2. stopping
  BY <1>1 DEF IInv, Sealing, StopIsSet
<1>3. pc[Acceptor] \notin AcceptBusy
  BY <1>1 DEF IInv, Sealing, AfterJoin, AfterAccept, AcceptQuiet, AcceptHolds, AcceptBusy
<1>4. Admitted \subseteq dead
  BY <1>1 DEF IInv, Sealing, AllDead, Past2, Admitted
<1>5. apps = {}
  BY <1>1 DEF IInv, Sealing, Cleared
<1>6. QED
  BY <1>2, <1>3, <1>4, <1>5

(* Whoever joined what: when any close() has returned, the accept thread    *)
(* can admit nothing, no connection is open and none is listed.             *)
THEOREM CloseIsComplete == Spec => []ClosedOnReturn
  BY Invariance, InvariantCloses, PTL

LEMMA StepAdmitsNothing ==
  IInv /\ [Next]_vars =>
    [(\E k \in Closers : pc[k] = "returned") =>
       /\ apps' \subseteq apps
       /\ \A c \in Conns : stage'[c] = "proxied" => stage[c] = "proxied"]_vars
<1> SUFFICES ASSUME IInv, Next, NEW k \in Closers, pc[k] = "returned"
             PROVE  /\ apps' \subseteq apps
                    /\ \A c \in Conns : stage'[c] = "proxied" => stage[c] = "proxied"
  BY DEF vars
<1>1. pc[Acceptor] \notin AcceptBusy
  BY InvariantCloses DEF ClosedOnReturn
<1>2. stage \in [Conns -> {"new", "queued", "accepted", "refused", "proxied"}]
  BY DEF IInv, Types, TypeOK
<1> USE <1>1, <1>2 DEF AcceptBusy, seatVars, tableVars, connVars, launchVars
<1>3. CASE \E t \in Threads : ShutdownStep(t)
  BY <1>3 DEF ShutdownStep, StoreStopping, SwapSocketRemoved, RemoveSocketFile, SnapshotApps,
       CloseActiveConnection, TakeAcceptHandle, JoinAccept, TakeProxyHandles, JoinProxies,
       TakeBridgeHandles, JoinBridges, ClearApps, ReturnFromClose, FinishDrop
<1>4. CASE \E j \in Closers : Close(j) \/ DropArc(j)
  BY <1>4 DEF Close, DropArc
<1>5. CASE AcceptStep
  BY <1>5 DEF AcceptStep, UpgradeAccept, CheckStop, AcceptNothing, AcceptClient, RefuseClient,
       SetupDone, CheckAgain, PushApp, SpawnProxy, PushHandle, SpawnFails, FailClose,
       FailRemoveApp, FailRemoveBound, EndAccept
<1>6. CASE \E c \in Conns : ProxyStep(c) \/ Connect(c) \/ ClientExits(c)
  BY <1>6 DEF ProxyStep, CheckLoop, Poll, CleanupClose, UpgradeProxy, RemoveApp,
       RemoveBound, DropUpgraded, Connect, ClientExits
<1>7. CASE \E b \in Bridges : AdoptBridge(b) \/ ReapBridge(b)
  BY <1>7 DEF AdoptBridge, ReapBridge
<1>8. CASE \E l \in Launchers : LaunchStep(l)
  BY <1>8 DEF LaunchStep, FindApp, BindApp, StopApp
<1>9. CASE AllDone
  BY <1>9 DEF AllDone, vars
<1>10. QED
  BY <1>3, <1>4, <1>5, <1>6, <1>7, <1>8, <1>9 DEF Next

(* Nothing becomes visible after a close() has returned.                    *)
THEOREM ClosedStaysClosed == Spec => NoAdmissionAfterReturn
<1>1. IInv /\ [Next]_vars =>
        [(\E k \in Closers : pc[k] = "returned") =>
           /\ apps' \subseteq apps
           /\ \A c \in Conns : stage'[c] = "proxied" => stage[c] = "proxied"]_vars
  BY StepAdmitsNothing
<1>2. QED
  BY <1>1, Invariance, PTL DEF Spec, NoAdmissionAfterReturn
=============================================================================
