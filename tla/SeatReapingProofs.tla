-------------------------- MODULE SeatReapingProofs --------------------------
(***************************************************************************)
(* More about SeatLifecycle for every set of connections, closers, bridges *)
(* and launches: no worker, bridge or list entry is left over.             *)
(*                                                                         *)
(* A proxy thread's handle is on the list, on its way there, or in the     *)
(* hands of a thread that joins it, unless the thread is itself running    *)
(* the shutdown (Tracked); a bridge likewise (BridgesKnown).  A connection *)
(* is listed from before its thread exists until after the thread has      *)
(* taken it off (Served).                                                  *)
(***************************************************************************)
EXTENDS SeatRefinementProofs

USE BridgesAssumption, ThreadsAssumption

(* Who has a strong reference.                                              *)
Kept ==
  /\ \A k \in Closers : pc[k] \in {"idle", "returned"} => k \in strong
  /\ \A t \in Threads : pc[t] \in ShutdownPC => strong = {} \/ t \in Closers \cap strong

(* What a thread that runs shutdown_inner has done so far.                  *)
Flagged ==
  /\ \A t \in Threads : pc[t] \in (ShutdownPC \ {"stop", "unlink"}) \cup {"returned"} => socketRemoved
  /\ socketRemoved /\ socketUp => \E t \in Threads : pc[t] = "removeFile"
  /\ \A t \in Threads : pc[t] \in {"joinAccept"} \cup AfterAccept => ~acceptHandle
  /\ \A t \in Threads : pc[t] \in (Reaping \ {"takeProxies"}) \cup {"returned"} => handles = {}

(* Somebody knows every proxy thread that has not ended.                    *)
Known(c) ==
  \/ c \in handles
  \/ pc[Acceptor] = "pushHandle" /\ c = current
  \/ \E t \in Threads : pc[t] = "joinProxies" /\ c \in work[t]
  \/ pc[c] \in ShutdownPC

Tracked == \A c \in Conns : pc[c] \notin {"none", "exited"} => Known(c)

(* Somebody knows every bridge adopted before the first close.              *)
BridgesKnown ==
  /\ \A b \in Bridges : bridge[b] = "adopted" =>
       b \in bridgeHandles \/ \E t \in Threads : pc[t] = "joinBridges" /\ b \in work[t]
  /\ \A t \in Threads : pc[t] \in {"joinBridges", "clearApps", "clearBound", "returned"} =>
       \A b \in bridgeHandles : bridge[b] # "adopted"

Reaped == Kept /\ Flagged /\ Tracked /\ BridgesKnown

(* What is listed has a thread, is about to get one, or is being taken off. *)
Unserved == {"setup", "checkAgain", "pushApp", "spawn", "failClose", "failApps", "failBound"}

Served ==
  /\ pc[Acceptor] \notin AtWork => current = NoConn
  /\ pc[Acceptor] \in Unserved => pc[current] = "none"
  /\ pc[Acceptor] = "failBound" => current \notin apps
  /\ pc[Acceptor] = "pushHandle" => pc[current] # "none"
  /\ \A c \in apps : pc[c] = "none" => c = current
  /\ \A c \in Conns : pc[c] \in {"removeBound", "dropSeat"} => c \notin apps
  /\ \A c \in apps : pc[c] \in ShutdownPC \cup {"exited"} => strong = {}

-----------------------------------------------------------------------------
(* No worker gets lost in a step.                                            *)
LEMMA ReapedStep == IInv /\ Served /\ Reaped /\ [Next]_vars => Reaped'
<1> SUFFICES ASSUME IInv, Served, Reaped, [Next]_vars PROVE Reaped'
  OBVIOUS
<1>a. pc[Acceptor] \in Unserved => pc[current] = "none"
  BY DEF Served
<1> USE <1>a DEF Unserved
<1> USE DEF Threads, Goto, seatVars, tableVars, connVars, launchVars, ShutdownPC,
        FirstPass, SecondPass, Reaping, AcceptBusy, ProxyLoop, ProxyCleanup, AtWork,
        IInv, Types, TypeOK, CurrentSet, Sealing, AcceptHolds, StopIsSet, AfterJoin,
        AcceptQuiet, AfterAccept, Reaped, Kept, Flagged, Tracked, Known,
        BridgesKnown
<1>1. ASSUME NEW t \in Threads, StoreStopping(t) PROVE Reaped'
  BY <1>1 DEF StoreStopping
<1>2. ASSUME NEW t \in Threads, SwapSocketRemoved(t) PROVE Reaped'
  BY <1>2 DEF SwapSocketRemoved
<1>3. ASSUME NEW t \in Threads, RemoveSocketFile(t) PROVE Reaped'
  BY <1>3 DEF RemoveSocketFile
<1>4. ASSUME NEW t \in Threads, SnapshotApps(t) PROVE Reaped'
  BY <1>4 DEF SnapshotApps
<1>5. ASSUME NEW t \in Threads, CloseActiveConnection(t) PROVE Reaped'
  BY <1>5 DEF CloseActiveConnection, CloseConnection
<1>6. ASSUME NEW t \in Threads, TakeAcceptHandle(t) PROVE Reaped'
  BY <1>6 DEF TakeAcceptHandle
<1>7. ASSUME NEW t \in Threads, JoinAccept(t) PROVE Reaped'
  BY <1>7 DEF JoinAccept
<1>8. ASSUME NEW t \in Threads, TakeProxyHandles(t) PROVE Reaped'
  BY <1>8 DEF TakeProxyHandles
<1>9. ASSUME NEW t \in Threads, JoinProxies(t) PROVE Reaped'
  BY <1>9 DEF JoinProxies
<1>10. ASSUME NEW t \in Threads, TakeBridgeHandles(t) PROVE Reaped'
  BY <1>10 DEF TakeBridgeHandles
<1>11. ASSUME NEW t \in Threads, JoinBridges(t) PROVE Reaped'
  BY <1>11 DEF JoinBridges
<1>12. ASSUME NEW t \in Threads, ClearApps(t) PROVE Reaped'
  BY <1>12 DEF ClearApps
<1>13. ASSUME NEW t \in Threads, ReturnFromClose(t) PROVE Reaped'
  <2>1. Kept'
    BY <1>13 DEF ReturnFromClose
  <2>2. Flagged'
    BY <1>13 DEF ReturnFromClose
  <2>3. Tracked'
    BY <1>13 DEF ReturnFromClose
  <2>4. BridgesKnown'
    BY <1>13 DEF ReturnFromClose
  <2> QED BY <2>1, <2>2, <2>3, <2>4
<1>14. ASSUME NEW t \in Threads, FinishDrop(t) PROVE Reaped'
  <2>1. Kept'
    BY <1>14 DEF FinishDrop
  <2>2. Flagged'
    BY <1>14 DEF FinishDrop
  <2>3. Tracked'
    BY <1>14 DEF FinishDrop
  <2>4. BridgesKnown'
    BY <1>14 DEF FinishDrop
  <2> QED BY <2>1, <2>2, <2>3, <2>4
<1>15. ASSUME NEW k \in Closers, Close(k) PROVE Reaped'
  BY <1>15 DEF Close
<1>16. ASSUME NEW k \in Closers, DropArc(k) PROVE Reaped'
  BY <1>16 DEF DropArc, DropSeat
<1>17. ASSUME UpgradeAccept PROVE Reaped'
  BY <1>17 DEF UpgradeAccept
<1>18. ASSUME CheckStop PROVE Reaped'
  BY <1>18 DEF CheckStop, DropSeat
<1>19. ASSUME AcceptNothing PROVE Reaped'
  BY <1>19 DEF AcceptNothing
<1>20. ASSUME NEW c \in Conns, AcceptClient(c) PROVE Reaped'
  BY <1>20 DEF AcceptClient
<1>21. ASSUME RefuseClient PROVE Reaped'
  BY <1>21 DEF RefuseClient
<1>22. ASSUME SetupDone PROVE Reaped'
  BY <1>22 DEF SetupDone
<1>23. ASSUME CheckAgain PROVE Reaped'
  BY <1>23 DEF CheckAgain
<1>24. ASSUME PushApp PROVE Reaped'
  BY <1>24 DEF PushApp
<1>25. ASSUME SpawnProxy PROVE Reaped'
  <2>1. Kept'
    BY <1>25 DEF SpawnProxy
  <2>2. Flagged'
    BY <1>25 DEF SpawnProxy
  <2>3. Tracked'
    BY <1>25 DEF SpawnProxy
  <2>4. BridgesKnown'
    BY <1>25 DEF SpawnProxy
  <2> QED BY <2>1, <2>2, <2>3, <2>4
<1>26. ASSUME PushHandle PROVE Reaped'
  BY <1>26 DEF PushHandle
<1>27. ASSUME SpawnFails PROVE Reaped'
  BY <1>27 DEF SpawnFails
<1>28. ASSUME FailClose PROVE Reaped'
  BY <1>28 DEF FailClose, CloseConnection
<1>29. ASSUME FailRemoveApp PROVE Reaped'
  BY <1>29 DEF FailRemoveApp
<1>30. ASSUME FailRemoveBound PROVE Reaped'
  BY <1>30 DEF FailRemoveBound, RetainBound
<1>31. ASSUME EndAccept PROVE Reaped'
  BY <1>31 DEF EndAccept, DropSeat
<1>32. ASSUME NEW c \in Conns, CheckLoop(c) PROVE Reaped'
  BY <1>32 DEF CheckLoop
<1>33. ASSUME NEW c \in Conns, Poll(c) PROVE Reaped'
  BY <1>33 DEF Poll
<1>34. ASSUME NEW c \in Conns, CleanupClose(c) PROVE Reaped'
  BY <1>34 DEF CleanupClose, CloseConnection
<1>35. ASSUME NEW c \in Conns, UpgradeProxy(c) PROVE Reaped'
  BY <1>35 DEF UpgradeProxy
<1>36. ASSUME NEW c \in Conns, RemoveApp(c) PROVE Reaped'
  BY <1>36 DEF RemoveApp
<1>37. ASSUME NEW c \in Conns, RemoveBound(c) PROVE Reaped'
  BY <1>37 DEF RemoveBound, RetainBound
<1>38. ASSUME NEW c \in Conns, DropUpgraded(c) PROVE Reaped'
  BY <1>38 DEF DropUpgraded, DropSeat
<1>39. ASSUME NEW c \in Conns, Connect(c) PROVE Reaped'
  BY <1>39 DEF Connect
<1>40. ASSUME NEW c \in Conns, ClientExits(c) PROVE Reaped'
  BY <1>40 DEF ClientExits
<1>41. ASSUME NEW b \in Bridges, AdoptBridge(b) PROVE Reaped'
  BY <1>41 DEF AdoptBridge
<1>42. ASSUME NEW b \in Bridges, ReapBridge(b) PROVE Reaped'
  BY <1>42 DEF ReapBridge
<1>43. ASSUME NEW l \in Launchers, NEW c \in Conns, FindApp(l, c) PROVE Reaped'
  BY <1>43 DEF FindApp
<1>44. ASSUME NEW l \in Launchers, BindApp(l) PROVE Reaped'
  BY <1>44 DEF BindApp
<1>45. ASSUME NEW l \in Launchers, StopApp(l) PROVE Reaped'
  BY <1>45 DEF StopApp
<1>46. CASE UNCHANGED vars
  BY <1>46 DEF vars
<1> QED BY <1>1, <1>2, <1>3, <1>4, <1>5, <1>6, <1>7, <1>8, <1>9, <1>10, <1>11,
     <1>12, <1>13, <1>14, <1>15, <1>16, <1>17, <1>18, <1>19, <1>20, <1>21, <1>22,
     <1>23, <1>24, <1>25, <1>26, <1>27, <1>28, <1>29, <1>30, <1>31, <1>32, <1>33,
     <1>34, <1>35, <1>36, <1>37, <1>38, <1>39, <1>40, <1>41, <1>42, <1>43,
     <1>44, <1>45, <1>46
     DEF Next, ShutdownStep, AcceptStep, ProxyStep, LaunchStep, AllDone

(* A step leaves no entry without a thread.                                  *)
LEMMA ServedStep == RInv /\ Kept /\ Served /\ [Next]_vars => Served'
<1> SUFFICES ASSUME RInv, Kept, Served, [Next]_vars PROVE Served'
  OBVIOUS
<1> USE DEF Threads, Goto, seatVars, tableVars, connVars, launchVars, ShutdownPC,
        FirstPass, SecondPass, Reaping, AcceptBusy, ProxyLoop, ProxyCleanup, AtWork,
        RInv, IInv, Types, TypeOK, CurrentSet, Sealing, AcceptHolds, Stages,
        ListedAdmitted, ProxiesAdmitted, CurrentStage, Admitted, Kept, Served,
        Unserved
<1>1. ASSUME NEW t \in Threads, StoreStopping(t) PROVE Served'
  BY <1>1 DEF StoreStopping
<1>2. ASSUME NEW t \in Threads, SwapSocketRemoved(t) PROVE Served'
  BY <1>2 DEF SwapSocketRemoved
<1>3. ASSUME NEW t \in Threads, RemoveSocketFile(t) PROVE Served'
  BY <1>3 DEF RemoveSocketFile
<1>4. ASSUME NEW t \in Threads, SnapshotApps(t) PROVE Served'
  BY <1>4 DEF SnapshotApps
<1>5. ASSUME NEW t \in Threads, CloseActiveConnection(t) PROVE Served'
  BY <1>5 DEF CloseActiveConnection, CloseConnection
<1>6. ASSUME NEW t \in Threads, TakeAcceptHandle(t) PROVE Served'
  BY <1>6 DEF TakeAcceptHandle
<1>7. ASSUME NEW t \in Threads, JoinAccept(t) PROVE Served'
  BY <1>7 DEF JoinAccept
<1>8. ASSUME NEW t \in Threads, TakeProxyHandles(t) PROVE Served'
  BY <1>8 DEF TakeProxyHandles
<1>9. ASSUME NEW t \in Threads, JoinProxies(t) PROVE Served'
  BY <1>9 DEF JoinProxies
<1>10. ASSUME NEW t \in Threads, TakeBridgeHandles(t) PROVE Served'
  BY <1>10 DEF TakeBridgeHandles
<1>11. ASSUME NEW t \in Threads, JoinBridges(t) PROVE Served'
  BY <1>11 DEF JoinBridges
<1>12. ASSUME NEW t \in Threads, ClearApps(t) PROVE Served'
  BY <1>12 DEF ClearApps
<1>13. ASSUME NEW t \in Threads, ReturnFromClose(t) PROVE Served'
  BY <1>13 DEF ReturnFromClose
<1>14. ASSUME NEW t \in Threads, FinishDrop(t) PROVE Served'
  BY <1>14 DEF FinishDrop
<1>15. ASSUME NEW k \in Closers, Close(k) PROVE Served'
  BY <1>15 DEF Close
<1>16. ASSUME NEW k \in Closers, DropArc(k) PROVE Served'
  BY <1>16 DEF DropArc, DropSeat
<1>17. ASSUME UpgradeAccept PROVE Served'
  BY <1>17 DEF UpgradeAccept
<1>18. ASSUME CheckStop PROVE Served'
  BY <1>18 DEF CheckStop, DropSeat
<1>19. ASSUME AcceptNothing PROVE Served'
  BY <1>19 DEF AcceptNothing
<1>20. ASSUME NEW c \in Conns, AcceptClient(c) PROVE Served'
  BY <1>20 DEF AcceptClient
<1>21. ASSUME RefuseClient PROVE Served'
  BY <1>21 DEF RefuseClient
<1>22. ASSUME SetupDone PROVE Served'
  BY <1>22 DEF SetupDone
<1>23. ASSUME CheckAgain PROVE Served'
  BY <1>23 DEF CheckAgain
<1>24. ASSUME PushApp PROVE Served'
  BY <1>24 DEF PushApp
<1>25. ASSUME SpawnProxy PROVE Served'
  BY <1>25 DEF SpawnProxy
<1>26. ASSUME PushHandle PROVE Served'
  BY <1>26 DEF PushHandle
<1>27. ASSUME SpawnFails PROVE Served'
  BY <1>27 DEF SpawnFails
<1>28. ASSUME FailClose PROVE Served'
  BY <1>28 DEF FailClose, CloseConnection
<1>29. ASSUME FailRemoveApp PROVE Served'
  BY <1>29 DEF FailRemoveApp
<1>30. ASSUME FailRemoveBound PROVE Served'
  BY <1>30 DEF FailRemoveBound, RetainBound
<1>31. ASSUME EndAccept PROVE Served'
  BY <1>31 DEF EndAccept, DropSeat
<1>32. ASSUME NEW c \in Conns, CheckLoop(c) PROVE Served'
  BY <1>32 DEF CheckLoop
<1>33. ASSUME NEW c \in Conns, Poll(c) PROVE Served'
  BY <1>33 DEF Poll
<1>34. ASSUME NEW c \in Conns, CleanupClose(c) PROVE Served'
  BY <1>34 DEF CleanupClose, CloseConnection
<1>35. ASSUME NEW c \in Conns, UpgradeProxy(c) PROVE Served'
  BY <1>35 DEF UpgradeProxy
<1>36. ASSUME NEW c \in Conns, RemoveApp(c) PROVE Served'
  BY <1>36 DEF RemoveApp
<1>37. ASSUME NEW c \in Conns, RemoveBound(c) PROVE Served'
  BY <1>37 DEF RemoveBound, RetainBound
<1>38. ASSUME NEW c \in Conns, DropUpgraded(c) PROVE Served'
  BY <1>38 DEF DropUpgraded, DropSeat
<1>39. ASSUME NEW c \in Conns, Connect(c) PROVE Served'
  BY <1>39 DEF Connect
<1>40. ASSUME NEW c \in Conns, ClientExits(c) PROVE Served'
  BY <1>40 DEF ClientExits
<1>41. ASSUME NEW b \in Bridges, AdoptBridge(b) PROVE Served'
  BY <1>41 DEF AdoptBridge
<1>42. ASSUME NEW b \in Bridges, ReapBridge(b) PROVE Served'
  BY <1>42 DEF ReapBridge
<1>43. ASSUME NEW l \in Launchers, NEW c \in Conns, FindApp(l, c) PROVE Served'
  BY <1>43 DEF FindApp
<1>44. ASSUME NEW l \in Launchers, BindApp(l) PROVE Served'
  BY <1>44 DEF BindApp
<1>45. ASSUME NEW l \in Launchers, StopApp(l) PROVE Served'
  BY <1>45 DEF StopApp
<1>46. CASE UNCHANGED vars
  BY <1>46 DEF vars
<1> QED BY <1>1, <1>2, <1>3, <1>4, <1>5, <1>6, <1>7, <1>8, <1>9, <1>10, <1>11,
     <1>12, <1>13, <1>14, <1>15, <1>16, <1>17, <1>18, <1>19, <1>20, <1>21, <1>22,
     <1>23, <1>24, <1>25, <1>26, <1>27, <1>28, <1>29, <1>30, <1>31, <1>32, <1>33,
     <1>34, <1>35, <1>36, <1>37, <1>38, <1>39, <1>40, <1>41, <1>42, <1>43,
     <1>44, <1>45, <1>46
     DEF Next, ShutdownStep, AcceptStep, ProxyStep, LaunchStep, AllDone

-----------------------------------------------------------------------------
(* What follows.                                                            *)

WInv == RInv /\ Served /\ Reaped

LEMMA InitReaping == Init => WInv
<1> SUFFICES ASSUME Init PROVE WInv
  OBVIOUS
<1>1. RInv
  BY InitRefinementInvariant
<1>2. Served
  BY DEF Init, Served, Unserved, AtWork, Threads
<1>3. Kept /\ Flagged /\ Tracked /\ BridgesKnown
  BY DEF Init, Kept, Flagged, Tracked, BridgesKnown, Threads, ShutdownPC, FirstPass, SecondPass,
         Reaping, AfterAccept
<1> QED BY <1>1, <1>2, <1>3 DEF WInv, Reaped

(* The invariant holds in every reachable state.                            *)
THEOREM ReapingInvariance == Spec => []WInv
<1>1. Init => WInv
  BY InitReaping
<1>2. WInv /\ [Next]_vars => WInv'
  BY StepRefinementInvariant, ReapedStep, ServedStep DEF WInv, RInv, IInv, Reaped
<1> QED BY <1>1, <1>2, PTL DEF Spec

(* Whoever joined what, once a close() has returned and none is under way   *)
(* every worker thread has ended, every handle is taken and the socket path *)
(* is gone (shutdown_inner).                                                *)
THEOREM WorkersReaped == Spec => []ReapedWhenQuiescent
<1>1. WInv => ReapedWhenQuiescent
  <2> SUFFICES ASSUME WInv, NEW k \in Closers, pc[k] = "returned", \A t \in Threads : ~Closing(t)
               PROVE  /\ \A c \in Conns : pc[c] \in {"none", "exited"}
                      /\ handles = {} /\ ~acceptHandle /\ ~socketUp
    BY DEF ReapedWhenQuiescent
  <2>1. k \in Threads /\ Acceptor \in Threads /\ Conns \subseteq Threads
    BY DEF Threads
  <2>2. handles = {} /\ ~acceptHandle /\ socketRemoved
    BY <2>1 DEF WInv, Reaped, Flagged, AfterAccept
  <2>3. ~socketUp
    BY <2>2 DEF WInv, Reaped, Flagged, Closing, ShutdownPC, FirstPass
  <2>4. strong # {} /\ pc[Acceptor] = "exited"
    BY <2>1 DEF WInv, Reaped, Kept, RInv, IInv, Sealing, AfterJoin, AfterAccept, AcceptQuiet
  <2>5. ASSUME NEW c \in Conns, pc[c] \notin {"none", "exited"} PROVE FALSE
    BY <2>1, <2>2, <2>4, <2>5 DEF WInv, Reaped, Tracked, Known, Closing, ShutdownPC, Reaping
  <2> QED BY <2>2, <2>3, <2>5
<1> QED BY <1>1, ReapingInvariance, PTL

(* While the seat lives, no finished or failed connection stays listed      *)
(* (remove_app on every exit path).                                         *)
THEOREM ListedAreServed == Spec => []ListedMeansServed
<1>1. WInv => ListedMeansServed
  BY DEF WInv, Served, ListedMeansServed
<1> QED BY <1>1, ReapingInvariance, PTL

(* No bridge that was adopted before the first close began is waited for    *)
(* by nobody.                                                               *)
BridgesReapedWhenQuiescent ==
  (\E k \in Closers : pc[k] = "returned") /\ (\A t \in Threads : ~Closing(t)) =>
    \A b \in Bridges : bridge[b] # "adopted"

LEMMA QuietBridges == WInv => BridgesReapedWhenQuiescent
<1> SUFFICES ASSUME WInv, NEW k \in Closers, pc[k] = "returned", \A t \in Threads : ~Closing(t),
                    NEW b \in Bridges, bridge[b] = "adopted"
             PROVE  FALSE
  BY DEF BridgesReapedWhenQuiescent
<1>1. k \in Threads
  BY DEF Threads
<1>2. b \in bridgeHandles
  BY DEF WInv, Reaped, BridgesKnown, Closing, ShutdownPC, Reaping
<1> QED BY <1>1, <1>2 DEF WInv, Reaped, BridgesKnown

(* However many threads close the seat: once a close() has returned and no  *)
(* thread is in one, every bridge adopted before is reaped.                 *)
THEOREM BridgesReapedInTheEnd == Spec => []BridgesReapedWhenQuiescent
  BY QuietBridges, ReapingInvariance, PTL

(* Of any number of concurrent close() calls, the one that returns leaves   *)
(* no bridge behind that nobody waits for: it is reaped, or in the hands of *)
(* a thread that is still joining ("reap bridge threads", close()).         *)
THEOREM BridgesReaped == Spec => []BridgesReapedOnReturn
<1>1. WInv => BridgesReapedOnReturn
  <2> SUFFICES ASSUME WInv, NEW k \in Closers, pc[k] = "returned",
                      NEW b \in Bridges, bridge[b] = "adopted"
               PROVE  \E t \in Threads : pc[t] = "joinBridges" /\ b \in work[t]
    BY DEF BridgesReapedOnReturn
  <2>1. k \in Threads
    BY DEF Threads
  <2>2. b \notin bridgeHandles
    BY <2>1 DEF WInv, Reaped, BridgesKnown
  <2> QED BY <2>2 DEF WInv, Reaped, BridgesKnown
<1> QED BY <1>1, ReapingInvariance, PTL

-----------------------------------------------------------------------------
(* The last reference.                                                       *)

(* Whoever drops it runs the shutdown, or has run it.                        *)
Released ==
  strong = {} => \/ \E t \in Threads : Closing(t)
                 \/ /\ socketRemoved /\ ~acceptHandle /\ handles = {}
                    /\ \A c \in Conns : stage[c] # "queued"

(* No step undoes what a drop has done.                                      *)
LEMMA ReleasedStep == IInv /\ Reaped /\ Released /\ [Next]_vars => Released'
<1> SUFFICES ASSUME IInv, Reaped, Released, [Next]_vars PROVE Released'
  OBVIOUS
<1> USE DEF Threads, Goto, seatVars, tableVars, connVars, launchVars, ShutdownPC,
        FirstPass, SecondPass, Reaping, AcceptBusy, ProxyLoop, ProxyCleanup, AtWork,
        IInv, Types, TypeOK, CurrentSet, Sealing, AcceptHolds, StopIsSet, AfterJoin,
        AfterAccept, Reaped, Kept, Flagged, Released, Closing
<1>1. ASSUME NEW t \in Threads, StoreStopping(t) PROVE Released'
  BY <1>1 DEF StoreStopping
<1>2. ASSUME NEW t \in Threads, SwapSocketRemoved(t) PROVE Released'
  BY <1>2 DEF SwapSocketRemoved
<1>3. ASSUME NEW t \in Threads, RemoveSocketFile(t) PROVE Released'
  BY <1>3 DEF RemoveSocketFile
<1>4. ASSUME NEW t \in Threads, SnapshotApps(t) PROVE Released'
  BY <1>4 DEF SnapshotApps
<1>5. ASSUME NEW t \in Threads, CloseActiveConnection(t) PROVE Released'
  BY <1>5 DEF CloseActiveConnection, CloseConnection
<1>6. ASSUME NEW t \in Threads, TakeAcceptHandle(t) PROVE Released'
  BY <1>6 DEF TakeAcceptHandle
<1>7. ASSUME NEW t \in Threads, JoinAccept(t) PROVE Released'
  BY <1>7 DEF JoinAccept
<1>8. ASSUME NEW t \in Threads, TakeProxyHandles(t) PROVE Released'
  BY <1>8 DEF TakeProxyHandles
<1>9. ASSUME NEW t \in Threads, JoinProxies(t) PROVE Released'
  BY <1>9 DEF JoinProxies
<1>10. ASSUME NEW t \in Threads, TakeBridgeHandles(t) PROVE Released'
  BY <1>10 DEF TakeBridgeHandles
<1>11. ASSUME NEW t \in Threads, JoinBridges(t) PROVE Released'
  BY <1>11 DEF JoinBridges
<1>12. ASSUME NEW t \in Threads, ClearApps(t) PROVE Released'
  BY <1>12 DEF ClearApps
<1>13. ASSUME NEW t \in Threads, ReturnFromClose(t) PROVE Released'
  BY <1>13 DEF ReturnFromClose
<1>14. ASSUME NEW t \in Threads, FinishDrop(t) PROVE Released'
  BY <1>14 DEF FinishDrop
<1>15. ASSUME NEW k \in Closers, Close(k) PROVE Released'
  BY <1>15 DEF Close
<1>16. ASSUME NEW k \in Closers, DropArc(k) PROVE Released'
  BY <1>16 DEF DropArc, DropSeat
<1>17. ASSUME UpgradeAccept PROVE Released'
  BY <1>17 DEF UpgradeAccept
<1>18. ASSUME CheckStop PROVE Released'
  BY <1>18 DEF CheckStop, DropSeat
<1>19. ASSUME AcceptNothing PROVE Released'
  BY <1>19 DEF AcceptNothing
<1>20. ASSUME NEW c \in Conns, AcceptClient(c) PROVE Released'
  BY <1>20 DEF AcceptClient
<1>21. ASSUME RefuseClient PROVE Released'
  BY <1>21 DEF RefuseClient
<1>22. ASSUME SetupDone PROVE Released'
  BY <1>22 DEF SetupDone
<1>23. ASSUME CheckAgain PROVE Released'
  BY <1>23 DEF CheckAgain
<1>24. ASSUME PushApp PROVE Released'
  BY <1>24 DEF PushApp
<1>25. ASSUME SpawnProxy PROVE Released'
  BY <1>25 DEF SpawnProxy
<1>26. ASSUME PushHandle PROVE Released'
  BY <1>26 DEF PushHandle
<1>27. ASSUME SpawnFails PROVE Released'
  BY <1>27 DEF SpawnFails
<1>28. ASSUME FailClose PROVE Released'
  BY <1>28 DEF FailClose, CloseConnection
<1>29. ASSUME FailRemoveApp PROVE Released'
  BY <1>29 DEF FailRemoveApp
<1>30. ASSUME FailRemoveBound PROVE Released'
  BY <1>30 DEF FailRemoveBound, RetainBound
<1>31. ASSUME EndAccept PROVE Released'
  BY <1>31 DEF EndAccept, DropSeat
<1>32. ASSUME NEW c \in Conns, CheckLoop(c) PROVE Released'
  BY <1>32 DEF CheckLoop
<1>33. ASSUME NEW c \in Conns, Poll(c) PROVE Released'
  BY <1>33 DEF Poll
<1>34. ASSUME NEW c \in Conns, CleanupClose(c) PROVE Released'
  BY <1>34 DEF CleanupClose, CloseConnection
<1>35. ASSUME NEW c \in Conns, UpgradeProxy(c) PROVE Released'
  BY <1>35 DEF UpgradeProxy
<1>36. ASSUME NEW c \in Conns, RemoveApp(c) PROVE Released'
  BY <1>36 DEF RemoveApp
<1>37. ASSUME NEW c \in Conns, RemoveBound(c) PROVE Released'
  BY <1>37 DEF RemoveBound, RetainBound
<1>38. ASSUME NEW c \in Conns, DropUpgraded(c) PROVE Released'
  BY <1>38 DEF DropUpgraded, DropSeat
<1>39. ASSUME NEW c \in Conns, Connect(c) PROVE Released'
  BY <1>39 DEF Connect
<1>40. ASSUME NEW c \in Conns, ClientExits(c) PROVE Released'
  BY <1>40 DEF ClientExits
<1>41. ASSUME NEW b \in Bridges, AdoptBridge(b) PROVE Released'
  BY <1>41 DEF AdoptBridge
<1>42. ASSUME NEW b \in Bridges, ReapBridge(b) PROVE Released'
  BY <1>42 DEF ReapBridge
<1>43. ASSUME NEW l \in Launchers, NEW c \in Conns, FindApp(l, c) PROVE Released'
  BY <1>43 DEF FindApp
<1>44. ASSUME NEW l \in Launchers, BindApp(l) PROVE Released'
  BY <1>44 DEF BindApp
<1>45. ASSUME NEW l \in Launchers, StopApp(l) PROVE Released'
  BY <1>45 DEF StopApp
<1>46. CASE UNCHANGED vars
  BY <1>46 DEF vars
<1> QED BY <1>1, <1>2, <1>3, <1>4, <1>5, <1>6, <1>7, <1>8, <1>9, <1>10, <1>11,
     <1>12, <1>13, <1>14, <1>15, <1>16, <1>17, <1>18, <1>19, <1>20, <1>21, <1>22,
     <1>23, <1>24, <1>25, <1>26, <1>27, <1>28, <1>29, <1>30, <1>31, <1>32, <1>33,
     <1>34, <1>35, <1>36, <1>37, <1>38, <1>39, <1>40, <1>41, <1>42, <1>43,
     <1>44, <1>45, <1>46
     DEF Next, ShutdownStep, AcceptStep, ProxyStep, LaunchStep, AllDone


(* Drop leaves nothing.                                                      *)
GoneWithLastReference ==
  strong = {} /\ (\A t \in Threads : ~Closing(t)) =>
    /\ ~socketUp /\ ~acceptHandle /\ pc[Acceptor] \notin AcceptBusy
    /\ \A c \in Conns : pc[c] \in {"none", "exited"} /\ stage[c] # "queued"

(* A program that drops its last Arc without close(), on whichever thread   *)
(* the last one happens to go: when that thread is through with Drop the    *)
(* socket path is gone, every proxy thread has ended, no client waits in   *)
(* the listen backlog, and the accept thread is out of its loop's body and  *)
(* can only find that no seat is left (Drop for AgentSeat).  That Drop does *)
(* get through is DropReleases, which is only checked.                      *)
THEOREM DropLeavesNothing ==
  ASSUME Closers # {}
  PROVE  Spec => []GoneWithLastReference
<1>1. Init => Released
  BY DEF Init, Released
<1>2. WInv /\ Released /\ [Next]_vars => Released'
  BY ReleasedStep DEF WInv, RInv
<1>3. WInv /\ Released => GoneWithLastReference
  <2> SUFFICES ASSUME WInv, Released, strong = {}, \A t \in Threads : ~Closing(t)
               PROVE  /\ ~socketUp /\ ~acceptHandle /\ pc[Acceptor] \notin AcceptBusy
                      /\ \A c \in Conns : pc[c] \in {"none", "exited"} /\ stage[c] # "queued"
    BY DEF GoneWithLastReference
  <2>1. socketRemoved /\ ~acceptHandle /\ handles = {} /\ \A c \in Conns : stage[c] # "queued"
    BY DEF Released
  <2>2. Acceptor \in Threads /\ Conns \subseteq Threads
    BY DEF Threads
  <2>3. ~socketUp
    BY <2>1 DEF WInv, Reaped, Flagged, Closing, ShutdownPC, FirstPass
  <2>4. pc[Acceptor] \notin AcceptBusy
    BY DEF WInv, RInv, IInv, Sealing, AcceptHolds
  <2>5. ASSUME NEW c \in Conns, pc[c] \notin {"none", "exited"} PROVE FALSE
    BY <2>1, <2>2, <2>4, <2>5 DEF WInv, Reaped, Tracked, Known, Closing, ShutdownPC, Reaping, AcceptBusy
  <2> QED BY <2>1, <2>3, <2>4, <2>5
<1> QED BY <1>1, <1>2, <1>3, ReapingInvariance, PTL DEF Spec
=============================================================================
