------------------------ MODULE SeatRefinementProofs ------------------------
(***************************************************************************)
(* SeatLifecycle implements SeatContract, for every set of connections,    *)
(* closers, bridges and launches.                                          *)
(*                                                                         *)
(* The contract has no idea of a connection that is closed before it was   *)
(* open, so the proof needs to know in which stage a connection is while   *)
(* the accept thread, a closer's copy of the list or a proxy thread holds  *)
(* it (Stages).  With that every step of the seat opens or ends one        *)
(* connection, enters or leaves one close(), or does none of these, and    *)
(* may then seal the seat; sealing is never undone (SealedIsStable).       *)
(***************************************************************************)
EXTENDS SeatLifecycleProofs

ListedAdmitted  == apps \subseteq Admitted
CopiesAdmitted  == \A t \in Threads : pc[t] \in {"closeAll1", "closeAll2"} => work[t] \subseteq Admitted
ProxiesAdmitted == \A c \in Conns : pc[c] # "none" => c \in Admitted
DeadAdmitted    == dead \subseteq Admitted
CurrentStage    ==
  /\ pc[Acceptor] \in {"setup", "checkAgain", "pushApp"} => stage[current] = "accepted"
  /\ pc[Acceptor] \in AtWork \ {"setup", "checkAgain", "pushApp"} => current \in Admitted

Stages == /\ ListedAdmitted /\ CopiesAdmitted /\ ProxiesAdmitted /\ DeadAdmitted
          /\ CurrentStage

RInv == IInv /\ Stages

InClose == {k \in Closers : Closing(k) /\ k \in strong}
Sealed  == stopping /\ AcceptQuiet /\ Admitted \subseteq dead

LEMMA StagesStep == Types /\ Stages /\ [Next]_vars => Stages'
<1> SUFFICES ASSUME Types /\ Stages, [Next]_vars PROVE Stages'
  OBVIOUS
<1> USE DEF Types, TypeOK, CurrentSet, TargetSet, Threads, Goto, seatVars, tableVars,
        connVars, launchVars, ShutdownPC, FirstPass, SecondPass, Reaping, AcceptBusy,
        ProxyLoop, ProxyCleanup, AtWork, Stages, ListedAdmitted, CopiesAdmitted, ProxiesAdmitted,
        DeadAdmitted, CurrentStage, Admitted
<1>1. ASSUME NEW t \in Threads, StoreStopping(t) PROVE Stages'
  BY <1>1 DEF StoreStopping
<1>2. ASSUME NEW t \in Threads, SwapSocketRemoved(t) PROVE Stages'
  BY <1>2 DEF SwapSocketRemoved
<1>3. ASSUME NEW t \in Threads, RemoveSocketFile(t) PROVE Stages'
  BY <1>3 DEF RemoveSocketFile
<1>4. ASSUME NEW t \in Threads, SnapshotApps(t) PROVE Stages'
  BY <1>4 DEF SnapshotApps
<1>5. ASSUME NEW t \in Threads, CloseActiveConnection(t) PROVE Stages'
  BY <1>5 DEF CloseActiveConnection, CloseConnection
<1>6. ASSUME NEW t \in Threads, TakeAcceptHandle(t) PROVE Stages'
  BY <1>6 DEF TakeAcceptHandle
<1>7. ASSUME NEW t \in Threads, JoinAccept(t) PROVE Stages'
  BY <1>7 DEF JoinAccept
<1>8. ASSUME NEW t \in Threads, TakeProxyHandles(t) PROVE Stages'
  BY <1>8 DEF TakeProxyHandles
<1>9. ASSUME NEW t \in Threads, JoinProxies(t) PROVE Stages'
  BY <1>9 DEF JoinProxies
<1>10. ASSUME NEW t \in Threads, TakeBridgeHandles(t) PROVE Stages'
  BY <1>10 DEF TakeBridgeHandles
<1>11. ASSUME NEW t \in Threads, JoinBridges(t) PROVE Stages'
  BY <1>11 DEF JoinBridges
<1>12. ASSUME NEW t \in Threads, ClearApps(t) PROVE Stages'
  BY <1>12 DEF ClearApps
<1>13. ASSUME NEW t \in Threads, ReturnFromClose(t) PROVE Stages'
  BY <1>13 DEF ReturnFromClose
<1>14. ASSUME NEW t \in Threads, FinishDrop(t) PROVE Stages'
  BY <1>14 DEF FinishDrop
<1>15. ASSUME NEW k \in Closers, Close(k) PROVE Stages'
  BY <1>15 DEF Close
<1>16. ASSUME NEW k \in Closers, DropArc(k) PROVE Stages'
  BY <1>16 DEF DropArc, DropSeat
<1>17. ASSUME UpgradeAccept PROVE Stages'
  BY <1>17 DEF UpgradeAccept
<1>18. ASSUME CheckStop PROVE Stages'
  BY <1>18 DEF CheckStop, DropSeat
<1>19. ASSUME AcceptNothing PROVE Stages'
  BY <1>19 DEF AcceptNothing
<1>20. ASSUME NEW c \in Conns, AcceptClient(c) PROVE Stages'
  BY <1>20 DEF AcceptClient
<1>21. ASSUME RefuseClient PROVE Stages'
  BY <1>21 DEF RefuseClient
<1>22. ASSUME SetupDone PROVE Stages'
  BY <1>22 DEF SetupDone
<1>23. ASSUME CheckAgain PROVE Stages'
  BY <1>23 DEF CheckAgain
<1>24. ASSUME PushApp PROVE Stages'
  BY <1>24 DEF PushApp
<1>25. ASSUME SpawnProxy PROVE Stages'
  BY <1>25 DEF SpawnProxy
<1>26. ASSUME PushHandle PROVE Stages'
  BY <1>26 DEF PushHandle
<1>27. ASSUME SpawnFails PROVE Stages'
  BY <1>27 DEF SpawnFails
<1>28. ASSUME FailClose PROVE Stages'
  BY <1>28 DEF FailClose, CloseConnection
<1>29. ASSUME FailRemoveApp PROVE Stages'
  BY <1>29 DEF FailRemoveApp
<1>30. ASSUME FailRemoveBound PROVE Stages'
  BY <1>30 DEF FailRemoveBound, RetainBound
<1>31. ASSUME EndAccept PROVE Stages'
  BY <1>31 DEF EndAccept, DropSeat
<1>32. ASSUME NEW c \in Conns, CheckLoop(c) PROVE Stages'
  BY <1>32 DEF CheckLoop
<1>33. ASSUME NEW c \in Conns, Poll(c) PROVE Stages'
  BY <1>33 DEF Poll
<1>34. ASSUME NEW c \in Conns, CleanupClose(c) PROVE Stages'
  BY <1>34 DEF CleanupClose, CloseConnection
<1>35. ASSUME NEW c \in Conns, UpgradeProxy(c) PROVE Stages'
  BY <1>35 DEF UpgradeProxy
<1>36. ASSUME NEW c \in Conns, RemoveApp(c) PROVE Stages'
  BY <1>36 DEF RemoveApp
<1>37. ASSUME NEW c \in Conns, RemoveBound(c) PROVE Stages'
  BY <1>37 DEF RemoveBound, RetainBound
<1>38. ASSUME NEW c \in Conns, DropUpgraded(c) PROVE Stages'
  BY <1>38 DEF DropUpgraded, DropSeat
<1>39. ASSUME NEW c \in Conns, Connect(c) PROVE Stages'
  BY <1>39 DEF Connect
<1>40. ASSUME NEW c \in Conns, ClientExits(c) PROVE Stages'
  BY <1>40 DEF ClientExits
<1>41. ASSUME NEW b \in Bridges, AdoptBridge(b) PROVE Stages'
  BY <1>41 DEF AdoptBridge
<1>42. ASSUME NEW b \in Bridges, ReapBridge(b) PROVE Stages'
  BY <1>42 DEF ReapBridge
<1>43. ASSUME NEW l \in Launchers, NEW c \in Conns, FindApp(l, c) PROVE Stages'
  BY <1>43 DEF FindApp
<1>44. ASSUME NEW l \in Launchers, BindApp(l) PROVE Stages'
  BY <1>44 DEF BindApp
<1>45. ASSUME NEW l \in Launchers, StopApp(l) PROVE Stages'
  BY <1>45 DEF StopApp
<1>46. CASE UNCHANGED vars
  BY <1>46 DEF vars
<1>47. QED
  BY <1>1, <1>2, <1>3, <1>4, <1>5, <1>6, <1>7, <1>8, <1>9, <1>10, <1>11,
     <1>12, <1>13, <1>14, <1>15, <1>16, <1>17, <1>18, <1>19, <1>20, <1>21, <1>22,
     <1>23, <1>24, <1>25, <1>26, <1>27, <1>28, <1>29, <1>30, <1>31, <1>32, <1>33,
     <1>34, <1>35, <1>36, <1>37, <1>38, <1>39, <1>40, <1>41, <1>42, <1>43,
     <1>44, <1>45, <1>46
     DEF Next, ShutdownStep, AcceptStep, ProxyStep, LaunchStep, AllDone

LEMMA StepRefinementInvariant == RInv /\ [Next]_vars => RInv'
  BY StepInvariant, StagesStep DEF RInv, IInv

LEMMA InitRefinementInvariant == Init => RInv
<1> SUFFICES ASSUME Init PROVE Stages
  BY InitInvariant DEF RInv
<1>1. pc[Acceptor] = "upgrade" /\ \A c \in Conns : pc[c] = "none"
  BY ThreadsAssumption DEF Init, Threads
<1>2. \A t \in Threads : pc[t] \notin {"closeAll1", "closeAll2"}
  BY DEF Init
<1>3. apps = {} /\ dead = {}
  BY DEF Init
<1>4. QED
  BY <1>1, <1>2, <1>3 DEF Stages, ListedAdmitted, CopiesAdmitted, ProxiesAdmitted, DeadAdmitted,
         CurrentStage, AtWork

(* Sealing is never undone: stopping stays set, a quiet accept thread stays *)
(* quiet because nobody can upgrade to a seat without strong references,    *)
(* and only a thread that holds one admits a connection.                    *)
LEMMA SealedIsStable == RInv /\ [Next]_vars /\ Sealed => Sealed'
<1> SUFFICES ASSUME RInv, [Next]_vars, Sealed PROVE Sealed'
  OBVIOUS
<1>0. Types /\ AcceptHolds
  BY DEF RInv, IInv, Sealing
<1> USE <1>0 DEF Types, TypeOK, CurrentSet, TargetSet, Threads, Goto, seatVars, tableVars,
        connVars, launchVars, ShutdownPC, FirstPass, SecondPass, Reaping, AcceptBusy,
        ProxyLoop, ProxyCleanup, AtWork, AcceptHolds, Sealed, AcceptQuiet, Admitted
<1>1. ASSUME NEW t \in Threads, StoreStopping(t) PROVE Sealed'
  BY <1>1 DEF StoreStopping
<1>2. ASSUME NEW t \in Threads, SwapSocketRemoved(t) PROVE Sealed'
  BY <1>2 DEF SwapSocketRemoved
<1>3. ASSUME NEW t \in Threads, RemoveSocketFile(t) PROVE Sealed'
  BY <1>3 DEF RemoveSocketFile
<1>4. ASSUME NEW t \in Threads, SnapshotApps(t) PROVE Sealed'
  BY <1>4 DEF SnapshotApps
<1>5. ASSUME NEW t \in Threads, CloseActiveConnection(t) PROVE Sealed'
  BY <1>5 DEF CloseActiveConnection, CloseConnection
<1>6. ASSUME NEW t \in Threads, TakeAcceptHandle(t) PROVE Sealed'
  BY <1>6 DEF TakeAcceptHandle
<1>7. ASSUME NEW t \in Threads, JoinAccept(t) PROVE Sealed'
  BY <1>7 DEF JoinAccept
<1>8. ASSUME NEW t \in Threads, TakeProxyHandles(t) PROVE Sealed'
  BY <1>8 DEF TakeProxyHandles
<1>9. ASSUME NEW t \in Threads, JoinProxies(t) PROVE Sealed'
  BY <1>9 DEF JoinProxies
<1>10. ASSUME NEW t \in Threads, TakeBridgeHandles(t) PROVE Sealed'
  BY <1>10 DEF TakeBridgeHandles
<1>11. ASSUME NEW t \in Threads, JoinBridges(t) PROVE Sealed'
  BY <1>11 DEF JoinBridges
<1>12. ASSUME NEW t \in Threads, ClearApps(t) PROVE Sealed'
  BY <1>12 DEF ClearApps
<1>13. ASSUME NEW t \in Threads, ReturnFromClose(t) PROVE Sealed'
  BY <1>13 DEF ReturnFromClose
<1>14. ASSUME NEW t \in Threads, FinishDrop(t) PROVE Sealed'
  BY <1>14 DEF FinishDrop
<1>15. ASSUME NEW k \in Closers, Close(k) PROVE Sealed'
  BY <1>15 DEF Close
<1>16. ASSUME NEW k \in Closers, DropArc(k) PROVE Sealed'
  BY <1>16 DEF DropArc, DropSeat
<1>17. ASSUME UpgradeAccept PROVE Sealed'
  BY <1>17 DEF UpgradeAccept
<1>18. ASSUME CheckStop PROVE Sealed'
  BY <1>18 DEF CheckStop, DropSeat
<1>19. ASSUME AcceptNothing PROVE Sealed'
  BY <1>19 DEF AcceptNothing
<1>20. ASSUME NEW c \in Conns, AcceptClient(c) PROVE Sealed'
  BY <1>20 DEF AcceptClient
<1>21. ASSUME RefuseClient PROVE Sealed'
  BY <1>21 DEF RefuseClient
<1>22. ASSUME SetupDone PROVE Sealed'
  BY <1>22 DEF SetupDone
<1>23. ASSUME CheckAgain PROVE Sealed'
  BY <1>23 DEF CheckAgain
<1>24. ASSUME PushApp PROVE Sealed'
  BY <1>24 DEF PushApp
<1>25. ASSUME SpawnProxy PROVE Sealed'
  BY <1>25 DEF SpawnProxy
<1>26. ASSUME PushHandle PROVE Sealed'
  BY <1>26 DEF PushHandle
<1>27. ASSUME SpawnFails PROVE Sealed'
  BY <1>27 DEF SpawnFails
<1>28. ASSUME FailClose PROVE Sealed'
  BY <1>28 DEF FailClose, CloseConnection
<1>29. ASSUME FailRemoveApp PROVE Sealed'
  BY <1>29 DEF FailRemoveApp
<1>30. ASSUME FailRemoveBound PROVE Sealed'
  BY <1>30 DEF FailRemoveBound, RetainBound
<1>31. ASSUME EndAccept PROVE Sealed'
  BY <1>31 DEF EndAccept, DropSeat
<1>32. ASSUME NEW c \in Conns, CheckLoop(c) PROVE Sealed'
  BY <1>32 DEF CheckLoop
<1>33. ASSUME NEW c \in Conns, Poll(c) PROVE Sealed'
  BY <1>33 DEF Poll
<1>34. ASSUME NEW c \in Conns, CleanupClose(c) PROVE Sealed'
  BY <1>34 DEF CleanupClose, CloseConnection
<1>35. ASSUME NEW c \in Conns, UpgradeProxy(c) PROVE Sealed'
  BY <1>35 DEF UpgradeProxy
<1>36. ASSUME NEW c \in Conns, RemoveApp(c) PROVE Sealed'
  BY <1>36 DEF RemoveApp
<1>37. ASSUME NEW c \in Conns, RemoveBound(c) PROVE Sealed'
  BY <1>37 DEF RemoveBound, RetainBound
<1>38. ASSUME NEW c \in Conns, DropUpgraded(c) PROVE Sealed'
  BY <1>38 DEF DropUpgraded, DropSeat
<1>39. ASSUME NEW c \in Conns, Connect(c) PROVE Sealed'
  BY <1>39 DEF Connect
<1>40. ASSUME NEW c \in Conns, ClientExits(c) PROVE Sealed'
  BY <1>40 DEF ClientExits
<1>41. ASSUME NEW b \in Bridges, AdoptBridge(b) PROVE Sealed'
  BY <1>41 DEF AdoptBridge
<1>42. ASSUME NEW b \in Bridges, ReapBridge(b) PROVE Sealed'
  BY <1>42 DEF ReapBridge
<1>43. ASSUME NEW l \in Launchers, NEW c \in Conns, FindApp(l, c) PROVE Sealed'
  BY <1>43 DEF FindApp
<1>44. ASSUME NEW l \in Launchers, BindApp(l) PROVE Sealed'
  BY <1>44 DEF BindApp
<1>45. ASSUME NEW l \in Launchers, StopApp(l) PROVE Sealed'
  BY <1>45 DEF StopApp
<1>46. CASE UNCHANGED vars
  BY <1>46 DEF vars
<1>47. QED
  BY <1>1, <1>2, <1>3, <1>4, <1>5, <1>6, <1>7, <1>8, <1>9, <1>10, <1>11,
     <1>12, <1>13, <1>14, <1>15, <1>16, <1>17, <1>18, <1>19, <1>20, <1>21, <1>22,
     <1>23, <1>24, <1>25, <1>26, <1>27, <1>28, <1>29, <1>30, <1>31, <1>32, <1>33,
     <1>34, <1>35, <1>36, <1>37, <1>38, <1>39, <1>40, <1>41, <1>42, <1>43,
     <1>44, <1>45, <1>46
     DEF Next, ShutdownStep, AcceptStep, ProxyStep, LaunchStep, AllDone
-----------------------------------------------------------------------------
(* What a step can do to the contract's state.                              *)
Silent     == Admitted' = Admitted /\ dead' = dead /\ InClose' = InClose
Ends(c)    == /\ c \in Admitted /\ dead' = dead \cup {c}
              /\ Admitted' = Admitted /\ InClose' = InClose
Opens(c)   == /\ c \in Conns \ (Admitted \cup dead) /\ ~Sealed /\ ~Sealed'
              /\ Admitted' = Admitted \cup {c} /\ dead' = dead /\ InClose' = InClose
Calls(k)   == /\ k \in Closers \ InClose /\ InClose' = InClose \cup {k}
              /\ Admitted' = Admitted /\ dead' = dead /\ Sealed' = Sealed
Returns(k) == /\ k \in InClose /\ InClose' = InClose \ {k} /\ Sealed /\ Sealed'
              /\ Admitted' = Admitted /\ dead' = dead

Visible == \/ Silent
           \/ \E c \in Conns : Ends(c) \/ Opens(c)
           \/ \E k \in Closers : Calls(k) \/ Returns(k)

LEMMA StepIsVisible == RInv /\ [Next]_vars => Visible
<1> SUFFICES ASSUME RInv, [Next]_vars PROVE Visible
  OBVIOUS
<1>0. Types /\ Stages /\ AcceptHolds /\ StopIsSet /\ AfterJoin /\ AllDead
  BY DEF RInv, IInv, Sealing
<1> USE <1>0 DEF Types, TypeOK, CurrentSet, TargetSet, Threads, Goto, seatVars, tableVars,
        connVars, launchVars, ShutdownPC, FirstPass, SecondPass, Reaping, AcceptBusy,
        ProxyLoop, ProxyCleanup, AtWork, Silent, InClose, Closing
<1>1. ASSUME NEW t \in Threads, StoreStopping(t) PROVE Visible
  <2>1. Admitted' = Admitted /\ dead' = dead
    BY <1>1 DEF StoreStopping, Admitted
  <2>2. InClose' = InClose
    BY <1>1 DEF StoreStopping
  <2>3. QED
    BY <2>1, <2>2 DEF Visible
<1>2. ASSUME NEW t \in Threads, SwapSocketRemoved(t) PROVE Visible
  <2>1. Admitted' = Admitted /\ dead' = dead
    BY <1>2 DEF SwapSocketRemoved, Admitted
  <2>2. InClose' = InClose
    BY <1>2 DEF SwapSocketRemoved
  <2>3. QED
    BY <2>1, <2>2 DEF Visible
<1>3. ASSUME NEW t \in Threads, RemoveSocketFile(t) PROVE Visible
  <2>1. Admitted' = Admitted /\ dead' = dead
    BY <1>3 DEF RemoveSocketFile, Admitted
  <2>2. InClose' = InClose
    BY <1>3 DEF RemoveSocketFile
  <2>3. QED
    BY <2>1, <2>2 DEF Visible
<1>4. ASSUME NEW t \in Threads, SnapshotApps(t) PROVE Visible
  <2>1. Admitted' = Admitted /\ dead' = dead
    BY <1>4 DEF SnapshotApps, Admitted
  <2>2. InClose' = InClose
    BY <1>4 DEF SnapshotApps
  <2>3. QED
    BY <2>1, <2>2 DEF Visible
<1>5. ASSUME NEW t \in Threads, CloseActiveConnection(t) PROVE Visible
  <2>1. PICK c \in work[t] : dead' = dead \cup {c}
    BY <1>5 DEF CloseActiveConnection, CloseConnection
  <2>2. c \in Admitted
    BY <1>5 DEF CloseActiveConnection, Stages, CopiesAdmitted
  <2>3. Admitted' = Admitted /\ InClose' = InClose
    BY <1>5 DEF CloseActiveConnection, Admitted
  <2>4. c \in Conns
    BY <2>2 DEF Admitted
  <2>5. QED
    BY <2>1, <2>2, <2>3, <2>4 DEF Visible, Ends
<1>6. ASSUME NEW t \in Threads, TakeAcceptHandle(t) PROVE Visible
  <2>1. Admitted' = Admitted /\ dead' = dead
    BY <1>6 DEF TakeAcceptHandle, Admitted
  <2>2. InClose' = InClose
    BY <1>6 DEF TakeAcceptHandle
  <2>3. QED
    BY <2>1, <2>2 DEF Visible
<1>7. ASSUME NEW t \in Threads, JoinAccept(t) PROVE Visible
  <2>1. Admitted' = Admitted /\ dead' = dead
    BY <1>7 DEF JoinAccept, Admitted
  <2>2. InClose' = InClose
    BY <1>7 DEF JoinAccept
  <2>3. QED
    BY <2>1, <2>2 DEF Visible
<1>8. ASSUME NEW t \in Threads, TakeProxyHandles(t) PROVE Visible
  <2>1. Admitted' = Admitted /\ dead' = dead
    BY <1>8 DEF TakeProxyHandles, Admitted
  <2>2. InClose' = InClose
    BY <1>8 DEF TakeProxyHandles
  <2>3. QED
    BY <2>1, <2>2 DEF Visible
<1>9. ASSUME NEW t \in Threads, JoinProxies(t) PROVE Visible
  <2>1. Admitted' = Admitted /\ dead' = dead
    BY <1>9 DEF JoinProxies, Admitted
  <2>2. InClose' = InClose
    BY <1>9 DEF JoinProxies
  <2>3. QED
    BY <2>1, <2>2 DEF Visible
<1>10. ASSUME NEW t \in Threads, TakeBridgeHandles(t) PROVE Visible
  <2>1. Admitted' = Admitted /\ dead' = dead
    BY <1>10 DEF TakeBridgeHandles, Admitted
  <2>2. InClose' = InClose
    BY <1>10 DEF TakeBridgeHandles
  <2>3. QED
    BY <2>1, <2>2 DEF Visible
<1>11. ASSUME NEW t \in Threads, JoinBridges(t) PROVE Visible
  <2>1. Admitted' = Admitted /\ dead' = dead
    BY <1>11 DEF JoinBridges, Admitted
  <2>2. InClose' = InClose
    BY <1>11 DEF JoinBridges
  <2>3. QED
    BY <2>1, <2>2 DEF Visible
<1>12. ASSUME NEW t \in Threads, ClearApps(t) PROVE Visible
  <2>1. Admitted' = Admitted /\ dead' = dead
    BY <1>12 DEF ClearApps, Admitted
  <2>2. InClose' = InClose
    BY <1>12 DEF ClearApps
  <2>3. QED
    BY <2>1, <2>2 DEF Visible
<1>13. ASSUME NEW t \in Threads, ReturnFromClose(t) PROVE Visible
  <2>1. Admitted' = Admitted /\ dead' = dead
    BY <1>13 DEF ReturnFromClose, Admitted
  <2>2. Sealed
    BY <1>13 DEF ReturnFromClose, Sealed, StopIsSet, AfterJoin, AfterAccept, AllDead, Past2, Admitted
  <2>3. Sealed'
    BY <2>2, SealedIsStable
  <2>4. InClose' = InClose \ {t}
    BY <1>13 DEF ReturnFromClose
  <2>5. QED
    BY <2>1, <2>2, <2>3, <2>4 DEF Visible, Returns
<1>14. ASSUME NEW t \in Threads, FinishDrop(t) PROVE Visible
  <2>1. Admitted' = Admitted /\ dead' = dead
    BY <1>14 DEF FinishDrop, Admitted
  <2>2. InClose' = InClose
    BY <1>14 DEF FinishDrop
  <2>3. QED
    BY <2>1, <2>2 DEF Visible
<1>15. ASSUME NEW k \in Closers, Close(k) PROVE Visible
  <2>1. Admitted' = Admitted /\ dead' = dead /\ k \in Threads
    BY <1>15 DEF Close, Admitted
  <2>2. k \notin InClose
    BY <1>15 DEF Close
  <2>3. InClose' = IF k \in strong THEN InClose \cup {k} ELSE InClose
    BY <1>15 DEF Close
  <2>4. Sealed' = Sealed
    BY <1>15, <2>1, ThreadsAssumption DEF Close, Sealed, AcceptQuiet
  <2>5. QED
    BY <2>1, <2>2, <2>3, <2>4 DEF Visible, Calls
<1>16. ASSUME NEW k \in Closers, DropArc(k) PROVE Visible
  <2>1. Admitted' = Admitted /\ dead' = dead
    BY <1>16 DEF DropArc, DropSeat, Admitted
  <2>2. InClose' = InClose
    BY <1>16 DEF DropArc, DropSeat
  <2>3. QED
    BY <2>1, <2>2 DEF Visible
<1>17. ASSUME UpgradeAccept PROVE Visible
  <2>1. Admitted' = Admitted /\ dead' = dead
    BY <1>17 DEF UpgradeAccept, Admitted
  <2>2. InClose' = InClose
    BY <1>17 DEF UpgradeAccept
  <2>3. QED
    BY <2>1, <2>2 DEF Visible
<1>18. ASSUME CheckStop PROVE Visible
  <2>1. Admitted' = Admitted /\ dead' = dead
    BY <1>18 DEF CheckStop, DropSeat, Admitted
  <2>2. InClose' = InClose
    BY <1>18 DEF CheckStop, DropSeat
  <2>3. QED
    BY <2>1, <2>2 DEF Visible
<1>19. ASSUME AcceptNothing PROVE Visible
  <2>1. Admitted' = Admitted /\ dead' = dead
    BY <1>19 DEF AcceptNothing, Admitted
  <2>2. InClose' = InClose
    BY <1>19 DEF AcceptNothing
  <2>3. QED
    BY <2>1, <2>2 DEF Visible
<1>20. ASSUME NEW c \in Conns, AcceptClient(c) PROVE Visible
  <2>1. Admitted' = Admitted /\ dead' = dead
    BY <1>20 DEF AcceptClient, Admitted
  <2>2. InClose' = InClose
    BY <1>20 DEF AcceptClient
  <2>3. QED
    BY <2>1, <2>2 DEF Visible
<1>21. ASSUME RefuseClient PROVE Visible
  <2>1. current \in Conns /\ stage[current] = "accepted"
    BY <1>21 DEF RefuseClient, Stages, CurrentStage
  <2>2. Admitted' = Admitted /\ dead' = dead
    BY <1>21, <2>1 DEF RefuseClient, Admitted
  <2>3. InClose' = InClose
    BY <1>21 DEF RefuseClient
  <2>4. QED
    BY <2>2, <2>3 DEF Visible
<1>22. ASSUME SetupDone PROVE Visible
  <2>1. Admitted' = Admitted /\ dead' = dead
    BY <1>22 DEF SetupDone, Admitted
  <2>2. InClose' = InClose
    BY <1>22 DEF SetupDone
  <2>3. QED
    BY <2>1, <2>2 DEF Visible
<1>23. ASSUME CheckAgain PROVE Visible
  <2>1. current \in Conns /\ stage[current] = "accepted"
    BY <1>23 DEF CheckAgain, Stages, CurrentStage
  <2>2. Admitted' = Admitted /\ dead' = dead
    BY <1>23, <2>1 DEF CheckAgain, Admitted
  <2>3. InClose' = InClose
    BY <1>23 DEF CheckAgain
  <2>4. QED
    BY <2>2, <2>3 DEF Visible
<1>24. ASSUME PushApp PROVE Visible
  <2>1. Acceptor \in strong /\ stage[current] = "accepted" /\ current \in Conns
    BY <1>24 DEF PushApp, AcceptHolds, Stages, CurrentStage
  <2>2. current \notin Admitted /\ current \notin dead
    BY <2>1 DEF Admitted, Stages, DeadAdmitted
  <2>3. Admitted' = Admitted \cup {current} /\ dead' = dead /\ InClose' = InClose
    BY <1>24, <2>1 DEF PushApp, Admitted
  <2>4. ~Sealed /\ ~Sealed'
    BY <1>24, <2>1 DEF PushApp, Sealed, AcceptQuiet
  <2>5. QED
    BY <2>1, <2>2, <2>3, <2>4 DEF Visible, Opens
<1>25. ASSUME SpawnProxy PROVE Visible
  <2>1. Admitted' = Admitted /\ dead' = dead /\ strong' = strong
    BY <1>25 DEF SpawnProxy, Admitted
  <2>2. current \in Conns
    BY <1>25 DEF SpawnProxy
  <2>3. \A k \in Closers : pc'[k] = pc[k]
    BY <1>25, <2>2, ThreadsAssumption DEF SpawnProxy
  <2>4. InClose' = InClose
    BY <2>1, <2>3
  <2>5. QED
    BY <2>1, <2>4 DEF Visible
<1>26. ASSUME PushHandle PROVE Visible
  <2>1. Admitted' = Admitted /\ dead' = dead
    BY <1>26 DEF PushHandle, Admitted
  <2>2. InClose' = InClose
    BY <1>26 DEF PushHandle
  <2>3. QED
    BY <2>1, <2>2 DEF Visible
<1>27. ASSUME SpawnFails PROVE Visible
  <2>1. Admitted' = Admitted /\ dead' = dead
    BY <1>27 DEF SpawnFails, Admitted
  <2>2. InClose' = InClose
    BY <1>27 DEF SpawnFails
  <2>3. QED
    BY <2>1, <2>2 DEF Visible
<1>28. ASSUME FailClose PROVE Visible
  <2>1. current \in Admitted /\ current \in Conns
    BY <1>28 DEF FailClose, Stages, ProxiesAdmitted, CurrentStage
  <2>2. Admitted' = Admitted /\ InClose' = InClose
    BY <1>28 DEF FailClose, CloseConnection, Admitted
  <2>3. dead' = dead \/ dead' = dead \cup {current}
    BY <1>28 DEF FailClose, CloseConnection
  <2>4. QED
    BY <2>1, <2>2, <2>3 DEF Visible, Ends
<1>29. ASSUME FailRemoveApp PROVE Visible
  <2>1. Admitted' = Admitted /\ dead' = dead
    BY <1>29 DEF FailRemoveApp, Admitted
  <2>2. InClose' = InClose
    BY <1>29 DEF FailRemoveApp
  <2>3. QED
    BY <2>1, <2>2 DEF Visible
<1>30. ASSUME FailRemoveBound PROVE Visible
  <2>1. Admitted' = Admitted /\ dead' = dead
    BY <1>30 DEF FailRemoveBound, RetainBound, Admitted
  <2>2. InClose' = InClose
    BY <1>30 DEF FailRemoveBound, RetainBound
  <2>3. QED
    BY <2>1, <2>2 DEF Visible
<1>31. ASSUME EndAccept PROVE Visible
  <2>1. Admitted' = Admitted /\ dead' = dead
    BY <1>31 DEF EndAccept, DropSeat, Admitted
  <2>2. InClose' = InClose
    BY <1>31 DEF EndAccept, DropSeat
  <2>3. QED
    BY <2>1, <2>2 DEF Visible
<1>32. ASSUME NEW c \in Conns, CheckLoop(c) PROVE Visible
  <2>1. Admitted' = Admitted /\ dead' = dead
    BY <1>32 DEF CheckLoop, Admitted
  <2>2. InClose' = InClose
    BY <1>32 DEF CheckLoop
  <2>3. QED
    BY <2>1, <2>2 DEF Visible
<1>33. ASSUME NEW c \in Conns, Poll(c) PROVE Visible
  <2>1. c \in Admitted /\ c \in Conns
    BY <1>33 DEF Poll, Stages, ProxiesAdmitted, CurrentStage
  <2>2. Admitted' = Admitted /\ InClose' = InClose
    BY <1>33 DEF Poll, Admitted
  <2>3. dead' = dead \/ dead' = dead \cup {c}
    BY <1>33 DEF Poll
  <2>4. QED
    BY <2>1, <2>2, <2>3 DEF Visible, Ends
<1>34. ASSUME NEW c \in Conns, CleanupClose(c) PROVE Visible
  <2>1. c \in Admitted /\ c \in Conns
    BY <1>34 DEF CleanupClose, Stages, ProxiesAdmitted, CurrentStage
  <2>2. Admitted' = Admitted /\ InClose' = InClose
    BY <1>34 DEF CleanupClose, CloseConnection, Admitted
  <2>3. dead' = dead \/ dead' = dead \cup {c}
    BY <1>34 DEF CleanupClose, CloseConnection
  <2>4. QED
    BY <2>1, <2>2, <2>3 DEF Visible, Ends
<1>35. ASSUME NEW c \in Conns, UpgradeProxy(c) PROVE Visible
  <2>1. Admitted' = Admitted /\ dead' = dead
    BY <1>35 DEF UpgradeProxy, Admitted
  <2>2. InClose' = InClose
    BY <1>35 DEF UpgradeProxy
  <2>3. QED
    BY <2>1, <2>2 DEF Visible
<1>36. ASSUME NEW c \in Conns, RemoveApp(c) PROVE Visible
  <2>1. Admitted' = Admitted /\ dead' = dead
    BY <1>36 DEF RemoveApp, Admitted
  <2>2. InClose' = InClose
    BY <1>36 DEF RemoveApp
  <2>3. QED
    BY <2>1, <2>2 DEF Visible
<1>37. ASSUME NEW c \in Conns, RemoveBound(c) PROVE Visible
  <2>1. Admitted' = Admitted /\ dead' = dead
    BY <1>37 DEF RemoveBound, RetainBound, Admitted
  <2>2. InClose' = InClose
    BY <1>37 DEF RemoveBound, RetainBound
  <2>3. QED
    BY <2>1, <2>2 DEF Visible
<1>38. ASSUME NEW c \in Conns, DropUpgraded(c) PROVE Visible
  <2>1. Admitted' = Admitted /\ dead' = dead
    BY <1>38 DEF DropUpgraded, DropSeat, Admitted
  <2>2. InClose' = InClose
    BY <1>38 DEF DropUpgraded, DropSeat
  <2>3. QED
    BY <2>1, <2>2 DEF Visible
<1>39. ASSUME NEW c \in Conns, Connect(c) PROVE Visible
  <2>1. Admitted' = Admitted /\ dead' = dead
    BY <1>39 DEF Connect, Admitted
  <2>2. InClose' = InClose
    BY <1>39 DEF Connect
  <2>3. QED
    BY <2>1, <2>2 DEF Visible
<1>40. ASSUME NEW c \in Conns, ClientExits(c) PROVE Visible
  <2>1. Admitted' = Admitted /\ dead' = dead
    BY <1>40 DEF ClientExits, Admitted
  <2>2. InClose' = InClose
    BY <1>40 DEF ClientExits
  <2>3. QED
    BY <2>1, <2>2 DEF Visible
<1>41. ASSUME NEW b \in Bridges, AdoptBridge(b) PROVE Visible
  <2>1. Admitted' = Admitted /\ dead' = dead
    BY <1>41 DEF AdoptBridge, Admitted
  <2>2. InClose' = InClose
    BY <1>41 DEF AdoptBridge
  <2>3. QED
    BY <2>1, <2>2 DEF Visible
<1>42. ASSUME NEW b \in Bridges, ReapBridge(b) PROVE Visible
  <2>1. Admitted' = Admitted /\ dead' = dead
    BY <1>42 DEF ReapBridge, Admitted
  <2>2. InClose' = InClose
    BY <1>42 DEF ReapBridge
  <2>3. QED
    BY <2>1, <2>2 DEF Visible
<1>43. ASSUME NEW l \in Launchers, NEW c \in Conns, FindApp(l, c) PROVE Visible
  <2>1. Admitted' = Admitted /\ dead' = dead
    BY <1>43 DEF FindApp, Admitted
  <2>2. InClose' = InClose
    BY <1>43 DEF FindApp
  <2>3. QED
    BY <2>1, <2>2 DEF Visible
<1>44. ASSUME NEW l \in Launchers, BindApp(l) PROVE Visible
  <2>1. Admitted' = Admitted /\ dead' = dead
    BY <1>44 DEF BindApp, Admitted
  <2>2. InClose' = InClose
    BY <1>44 DEF BindApp
  <2>3. QED
    BY <2>1, <2>2 DEF Visible
<1>45. ASSUME NEW l \in Launchers, StopApp(l) PROVE Visible
  <2>1. Admitted' = Admitted /\ dead' = dead
    BY <1>45 DEF StopApp, Admitted
  <2>2. InClose' = InClose
    BY <1>45 DEF StopApp
  <2>3. QED
    BY <2>1, <2>2 DEF Visible
<1>46. CASE UNCHANGED vars
  BY <1>46 DEF vars, Visible, Admitted
<1>47. QED
  BY <1>1, <1>2, <1>3, <1>4, <1>5, <1>6, <1>7, <1>8, <1>9, <1>10, <1>11,
     <1>12, <1>13, <1>14, <1>15, <1>16, <1>17, <1>18, <1>19, <1>20, <1>21, <1>22,
     <1>23, <1>24, <1>25, <1>26, <1>27, <1>28, <1>29, <1>30, <1>31, <1>32, <1>33,
     <1>34, <1>35, <1>36, <1>37, <1>38, <1>39, <1>40, <1>41, <1>42, <1>43,
     <1>44, <1>45, <1>46
     DEF Next, ShutdownStep, AcceptStep, ProxyStep, LaunchStep, AllDone

LEMMA VisibleStepIsAllowed == RInv /\ [Next]_vars => [Contract!Next]_(Contract!vars)
<1> SUFFICES ASSUME RInv, [Next]_vars PROVE [Contract!Next]_(Contract!vars)
  OBVIOUS
<1> DEFINE open   == Admitted \ dead
           ended  == Admitted \cap dead
<1>1. Visible
  BY StepIsVisible
<1>2. Sealed => Sealed'
  BY SealedIsStable
<1>3. Sealed' => open' = {}
  BY DEF Sealed
<1>4. Sealed \in BOOLEAN /\ Sealed' \in BOOLEAN
  BY DEF Sealed
<1>5. Contract!MaySeal
  BY <1>2, <1>3, <1>4 DEF Contract!MaySeal, Sealed
<1>6. CASE Silent
  BY <1>5, <1>6 DEF Silent, InClose, Contract!Next, Contract!Seal
<1>7. ASSUME NEW c \in Conns, Ends(c) PROVE [Contract!Next]_(Contract!vars)
  <2>1. CASE c \in dead
    BY <1>5, <1>7, <2>1 DEF Ends, InClose, Contract!Next, Contract!Seal
  <2>2. CASE c \notin dead
    <3>1. Contract!End(c)
      BY <1>5, <1>7, <2>2 DEF Ends, InClose, Contract!End
    <3>2. QED
      BY <3>1 DEF Contract!Next
  <2>3. QED
    BY <2>1, <2>2
<1>8. ASSUME NEW c \in Conns, Opens(c) PROVE [Contract!Next]_(Contract!vars)
  <2>1. Contract!Open(c)
    BY <1>8 DEF Opens, InClose, Sealed, Contract!Open
  <2>2. QED
    BY <2>1 DEF Contract!Next
<1>9. ASSUME NEW k \in Closers, Calls(k) PROVE [Contract!Next]_(Contract!vars)
  <2>1. Contract!Call(k)
    BY <1>9 DEF Calls, InClose, Sealed, Contract!Call
  <2>2. QED
    BY <2>1 DEF Contract!Next
<1>10. ASSUME NEW k \in Closers, Returns(k) PROVE [Contract!Next]_(Contract!vars)
  <2>1. Contract!Return(k)
    BY <1>10 DEF Returns, InClose, Sealed, Contract!Return
  <2>2. QED
    BY <2>1 DEF Contract!Next
<1>11. QED
  BY <1>1, <1>6, <1>7, <1>8, <1>9, <1>10 DEF Visible

LEMMA InitIsAllowed == Init => Contract!Init
  BY ThreadsAssumption DEF Init, Contract!Init, Admitted, Closing, AcceptQuiet, ShutdownPC,
     FirstPass, SecondPass, Reaping, Threads

(* The seat implements its contract: connections open and end one at a      *)
(* time, and no close() returns before the seat is sealed for good.         *)
THEOREM ContractIsImplemented == Spec => ImplementsContract
<1>1. Init => RInv /\ Contract!Init
  BY InitRefinementInvariant, InitIsAllowed
<1>2. RInv /\ [Next]_vars => RInv' /\ [Contract!Next]_(Contract!vars)
  BY StepRefinementInvariant, VisibleStepIsAllowed
<1>3. QED
  BY <1>1, <1>2, PTL DEF Spec, ImplementsContract, Contract!Spec
=============================================================================
