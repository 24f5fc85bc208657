-------------------------- MODULE ProxyTwinsProofs ---------------------------
(***************************************************************************)
(* Proofs about ProxyTwins for all objects, globals and interfaces.        *)
(*                                                                         *)
(* The maps stay each other's inverse as identifiers are fresh when they   *)
(* are linked (Fresh) and unlinking takes both directions.  An object the  *)
(* app can name keeps its twin as whatever is unlinked or destroyed by a   *)
(* callback belongs to an object that has ended (EndedDead, InHandler).    *)
(* The maps are clean in the end as every object that is not alive and     *)
(* still linked waits in the backend's queue (LinkedTracked), and so does  *)
(* that of every living upstream object (LiveTracked).                     *)
(***************************************************************************)
EXTENDS ProxyTwins, FiniteSetTheorems, TLAPS

(* An identifier that was not used yet is nowhere.                         *)
Fresh ==
  /\ \A s \in Servers \cap unborn :
       s2u[s] = None /\ s \notin alive \cup twinless /\ s \notin Range(ended)
  /\ \A u \in Upstreams \cap unborn : u2s[u] = None /\ u \notin live

EndedDead == \A s \in Range(ended) : s \notin alive

(* The objects of a handler whose callback is due.                         *)
InHandler ==
  /\ pc # "idle" => cur.server \in Servers /\ cur.upstream \in Upstreams
  /\ pc = "sending" => holder = "proxy"
  /\ pc \in {"sending", "sent"} => cur.server \in alive /\ cur.upstream \notin live
  /\ pc = "dying" => u2s[cur.upstream] = None
  /\ pc = "event" => u2s[cur.upstream] \notin alive

LinkedTracked == \A s \in Servers : s2u[s] # None => s \in alive \cup Range(ended)

LiveTracked ==
  stage \in {"setup", "serving"} =>
    \A u \in live : \/ u2s[u] \in alive \cup Range(ended)
                    \/ pc \in {"dying", "event"} /\ cur.upstream = u

IInv ==
  /\ TypeOK /\ TwinsInverse /\ Fresh /\ EndedDead /\ InHandler
  /\ AliveHasTwin /\ LinkedTracked /\ LiveTracked

-----------------------------------------------------------------------------
(* The queue of ended objects.                                              *)

LEMMA RangeIn == ASSUME NEW S, NEW q \in Seq(S) PROVE Range(q) \subseteq S
  BY DEF Range

LEMMA RangeAppend ==
  ASSUME NEW S, NEW q \in Seq(S), NEW e \in S
  PROVE  Append(q, e) \in Seq(S) /\ Range(Append(q, e)) = Range(q) \cup {e}
<1>1. Len(Append(q, e)) = Len(q) + 1 /\ Append(q, e)[Len(q) + 1] = e
  OBVIOUS
<1>2. \A i \in 1 .. Len(q) : Append(q, e)[i] = q[i]
  OBVIOUS
<1> QED BY <1>1, <1>2 DEF Range

LEMMA RangeTail ==
  ASSUME NEW S, NEW q \in Seq(S), q # <<>>
  PROVE  /\ Head(q) \in S /\ Tail(q) \in Seq(S)
         /\ Range(q) = {Head(q)} \cup Range(Tail(q))
<1>1. Len(q) > 0 /\ Len(Tail(q)) = Len(q) - 1 /\ Tail(q) \in Seq(S) /\ Head(q) = q[1] /\ Head(q) \in S
  OBVIOUS
<1>2. \A i \in 1 .. Len(q) - 1 : Tail(q)[i] = q[i + 1]
  BY <1>1
<1>3. Range(Tail(q)) \subseteq Range(q) /\ Head(q) \in Range(q)
  BY <1>1, <1>2 DEF Range
<1>4. ASSUME NEW i \in DOMAIN q PROVE q[i] \in {Head(q)} \cup Range(Tail(q))
  <2>1. CASE i = 1
    BY <1>1, <2>1
  <2>2. CASE i # 1
    <3>1. i - 1 \in 1 .. Len(q) - 1 /\ Tail(q)[i - 1] = q[i]
      BY <1>2, <2>2
    <3> QED BY <1>1, <3>1 DEF Range
  <2> QED BY <2>1, <2>2
<1> QED BY <1>1, <1>3, <1>4 DEF Range

LEMMA RangeConcat ==
  ASSUME NEW S, NEW q \in Seq(S), NEW r \in Seq(S)
  PROVE  q \o r \in Seq(S) /\ Range(q \o r) = Range(q) \cup Range(r)
<1>1. /\ q \o r \in Seq(S) /\ Len(q \o r) = Len(q) + Len(r)
      /\ \A i \in 1 .. Len(q) : (q \o r)[i] = q[i]
      /\ \A i \in 1 .. Len(r) : (q \o r)[Len(q) + i] = r[i]
  OBVIOUS
<1>2. ASSUME NEW i \in 1 .. Len(q) + Len(r) PROVE (q \o r)[i] \in Range(q) \cup Range(r)
  <2>1. CASE i \in 1 .. Len(q)
    BY <1>1, <2>1 DEF Range
  <2>2. CASE i \notin 1 .. Len(q)
    <3>1. i - Len(q) \in 1 .. Len(r) /\ (q \o r)[i] = r[i - Len(q)]
      BY <1>1, <2>2
    <3> QED BY <3>1 DEF Range
  <2> QED BY <2>1, <2>2
<1>3. ASSUME NEW i \in 1 .. Len(q) PROVE q[i] \in Range(q \o r)
  <2>1. i \in DOMAIN (q \o r) /\ (q \o r)[i] = q[i]
    BY <1>1
  <2> QED BY <2>1 DEF Range
<1>4. ASSUME NEW i \in 1 .. Len(r) PROVE r[i] \in Range(q \o r)
  <2>1. Len(q) + i \in DOMAIN (q \o r) /\ (q \o r)[Len(q) + i] = r[i]
    BY <1>1
  <2> QED BY <2>1 DEF Range
<1>5. /\ Range(q) = {q[i] : i \in 1 .. Len(q)} /\ Range(r) = {r[i] : i \in 1 .. Len(r)}
      /\ Range(q \o r) = {(q \o r)[i] : i \in 1 .. Len(q) + Len(r)}
  BY <1>1 DEF Range
<1> QED BY <1>1, <1>2, <1>3, <1>4, <1>5

LEMMA EndedGrows ==
  ASSUME TypeOK, NEW s \in Servers, ended' = Append(ended, s)
  PROVE  Range(ended') = Range(ended) \cup {s}
<1>1. ended \in Seq(Servers)
  BY DEF TypeOK
<1> QED BY <1>1, RangeAppend

(* What Disconnect appends is a sequence of all objects that were alive.   *)
LEMMA OrderIsSeq ==
  ASSUME TypeOK, NEW order \in [1 .. Cardinality(alive) -> alive]
  PROVE  order \in Seq(Servers)
<1>1. IsFiniteSet(alive)
  BY FiniteAssumption, FS_Subset DEF TypeOK
<1>2. Cardinality(alive) \in Nat
  BY <1>1, FS_CardinalityType
<1> QED BY <1>2 DEF TypeOK

(* UObj::destroyed unlinks or does nothing.                                *)
LEMMA DestroyedUnlinks ==
  ASSUME NEW u, UpstreamDestroyed(u)
  PROVE  Unlink(u2s[u], u) \/ UNCHANGED maps
  BY DEF UpstreamDestroyed, UnlinkUpstream

-----------------------------------------------------------------------------
(* One step.                                                                *)

(* The types are preserved.                                                *)
LEMMA TypesStep == TypeOK /\ InHandler /\ [Next]_vars => TypeOK'
<1> SUFFICES ASSUME TypeOK, InHandler, [Next]_vars PROVE TypeOK'
  OBVIOUS
<1> USE NoneAssumption DEF TypeOK, InHandler, Handler, Offerable, registry, maps, NewPair, NewTwinless, Link, Unlink, NoObjects
<1>1. ASSUME NEW g \in Globals, OfferGlobal(g) PROVE TypeOK'
  BY <1>1 DEF OfferGlobal
<1>2. ASSUME NEW g \in Globals, RemoveGlobal(g) PROVE TypeOK'
  BY <1>2 DEF RemoveGlobal
<1>3. ASSUME NEW g \in Globals, NEW s \in Servers, Bind(g, s) PROVE TypeOK'
  BY <1>3 DEF Bind
<1>4. CASE SetupEnds
  BY <1>4 DEF SetupEnds
<1>5. CASE Disconnect
  <2> PICK order \in [1 .. Cardinality(alive) -> alive] :
           Range(order) = alive /\ ended' = ended \o order
    BY <1>5 DEF Disconnect
  <2>1. ended' \in Seq(Servers)
    BY OrderIsSeq, RangeConcat
  <2> QED BY <1>5, <2>1 DEF Disconnect
<1>6. ASSUME NEW s \in Servers, NEW t \in Servers, CreateByRequest(s, t) PROVE TypeOK'
  BY <1>6 DEF CreateByRequest
<1>7. ASSUME NEW s \in Servers, DestructorRequest(s) PROVE TypeOK'
  <2>1. CASE pc' = "sending"
    BY <1>7, <2>1 DEF DestructorRequest
  <2>2. CASE pc' # "sending"
    <3>1. ended' \in Seq(Servers)
      BY <1>7, <2>2, RangeAppend DEF DestructorRequest
    <3> QED BY <1>7, <2>2, <3>1 DEF DestructorRequest
  <2> QED BY <2>1, <2>2
<1>8. ASSUME NEW u \in Upstreams, CreateByEvent(u) PROVE TypeOK'
  BY <1>8 DEF CreateByEvent
<1>9. ASSUME NEW u \in Upstreams, DestructorEvent(u) PROVE TypeOK'
  <2>1. u2s[u] \in Servers
    BY <1>9, RoleAssumption DEF DestructorEvent
  <2> QED BY <1>9, <2>1, RangeAppend DEF DestructorEvent
<1>10. CASE ServerDestroyed
  <2>1. Head(ended) \in Servers /\ Tail(ended) \in Seq(Servers)
    BY <1>10, RangeTail DEF ServerDestroyed
  <2> QED BY <1>10, <2>1 DEF ServerDestroyed
<1>11. CASE NestedDestroyed
  BY <1>11, DestroyedUnlinks DEF NestedDestroyed
<1>12. CASE RequestReturns
  BY <1>12, RangeAppend DEF RequestReturns
<1>13. CASE DestroyUpstream
  BY <1>13, DestroyedUnlinks DEF DestroyUpstream
<1>14. CASE EventReturns
  BY <1>14, DestroyedUnlinks DEF EventReturns
<1>15. CASE AgentLocks
  BY <1>15 DEF AgentLocks
<1>16. CASE AgentUnlocks
  BY <1>16 DEF AgentUnlocks
<1>17. CASE UNCHANGED vars
  BY <1>17 DEF vars
<1> QED BY <1>1, <1>2, <1>3, <1>4, <1>5, <1>6, <1>7, <1>8,
      <1>9, <1>10, <1>11, <1>12, <1>13, <1>14, <1>15, <1>16, <1>17 DEF Next, Continue

(* The maps stay each other's inverse.                                    *)
LEMMA InverseStep == TypeOK /\ Fresh /\ InHandler /\ TwinsInverse /\ [Next]_vars => TwinsInverse'
<1> SUFFICES ASSUME TypeOK, Fresh, InHandler, TwinsInverse, [Next]_vars PROVE TwinsInverse'
  OBVIOUS
<1> USE NoneAssumption DEF TypeOK, Fresh, InHandler, TwinsInverse, Handler, Offerable, registry, maps, NewPair, NewTwinless, Link, Unlink, NoObjects
<1>1. ASSUME NEW g \in Globals, OfferGlobal(g) PROVE TwinsInverse'
  BY <1>1 DEF OfferGlobal
<1>2. ASSUME NEW g \in Globals, RemoveGlobal(g) PROVE TwinsInverse'
  BY <1>2 DEF RemoveGlobal
<1>3. ASSUME NEW g \in Globals, NEW s \in Servers, Bind(g, s) PROVE TwinsInverse'
  BY <1>3 DEF Bind
<1>4. CASE SetupEnds
  BY <1>4 DEF SetupEnds
<1>5. CASE Disconnect
  BY <1>5 DEF Disconnect
<1>6. ASSUME NEW s \in Servers, NEW t \in Servers, CreateByRequest(s, t) PROVE TwinsInverse'
  BY <1>6 DEF CreateByRequest
<1>7. ASSUME NEW s \in Servers, DestructorRequest(s) PROVE TwinsInverse'
  BY <1>7 DEF DestructorRequest
<1>8. ASSUME NEW u \in Upstreams, CreateByEvent(u) PROVE TwinsInverse'
  BY <1>8 DEF CreateByEvent
<1>9. ASSUME NEW u \in Upstreams, DestructorEvent(u) PROVE TwinsInverse'
  <2>1. u2s[u] \in Servers
    BY <1>9, RoleAssumption DEF DestructorEvent
  <2> QED BY <1>9, <2>1 DEF DestructorEvent
<1>10. CASE ServerDestroyed
  <2>1. Head(ended) \in Servers
    BY <1>10, RangeTail DEF ServerDestroyed, TypeOK
  <2> QED BY <1>10, <2>1 DEF ServerDestroyed
<1>11. CASE NestedDestroyed
  BY <1>11 DEF NestedDestroyed, UpstreamDestroyed
<1>12. CASE RequestReturns
  BY <1>12 DEF RequestReturns
<1>13. CASE DestroyUpstream
  BY <1>13, DestroyedUnlinks DEF DestroyUpstream
<1>14. CASE EventReturns
  BY <1>14, DestroyedUnlinks DEF EventReturns
<1>15. CASE AgentLocks
  BY <1>15 DEF AgentLocks
<1>16. CASE AgentUnlocks
  BY <1>16 DEF AgentUnlocks
<1>17. CASE UNCHANGED vars
  BY <1>17 DEF vars
<1> QED BY <1>1, <1>2, <1>3, <1>4, <1>5, <1>6, <1>7, <1>8,
      <1>9, <1>10, <1>11, <1>12, <1>13, <1>14, <1>15, <1>16, <1>17 DEF Next, Continue

(* Identifiers that were not used yet stay nowhere.                        *)
LEMMA FreshStep == TypeOK /\ InHandler /\ Fresh /\ [Next]_vars => Fresh'
<1> SUFFICES ASSUME TypeOK, InHandler, Fresh, [Next]_vars PROVE Fresh'
  OBVIOUS
<1> USE NoneAssumption DEF TypeOK, InHandler, Fresh, Handler, Offerable, registry, maps, NewPair, NewTwinless, Link, Unlink, NoObjects
<1>1. ASSUME NEW g \in Globals, OfferGlobal(g) PROVE Fresh'
  BY <1>1 DEF OfferGlobal
<1>2. ASSUME NEW g \in Globals, RemoveGlobal(g) PROVE Fresh'
  BY <1>2 DEF RemoveGlobal
<1>3. ASSUME NEW g \in Globals, NEW s \in Servers, Bind(g, s) PROVE Fresh'
  BY <1>3 DEF Bind
<1>4. CASE SetupEnds
  BY <1>4 DEF SetupEnds
<1>5. CASE Disconnect
  <2> PICK order \in [1 .. Cardinality(alive) -> alive] :
           Range(order) = alive /\ ended' = ended \o order
    BY <1>5 DEF Disconnect
  <2>1. Range(ended') = Range(ended) \cup alive
    BY OrderIsSeq, RangeConcat DEF TypeOK
  <2> QED BY <1>5, <2>1 DEF Disconnect
<1>6. ASSUME NEW s \in Servers, NEW t \in Servers, CreateByRequest(s, t) PROVE Fresh'
  BY <1>6 DEF CreateByRequest
<1>7. ASSUME NEW s \in Servers, DestructorRequest(s) PROVE Fresh'
  <2>1. CASE pc' = "sending"
    BY <1>7, <2>1 DEF DestructorRequest
  <2>2. CASE pc' # "sending"
    <3>1. Range(ended') = Range(ended) \cup {s}
      BY <1>7, <2>2, EndedGrows DEF DestructorRequest
    <3> QED BY <1>7, <2>2, <3>1 DEF DestructorRequest
  <2> QED BY <2>1, <2>2
<1>8. ASSUME NEW u \in Upstreams, CreateByEvent(u) PROVE Fresh'
  BY <1>8 DEF CreateByEvent
<1>9. ASSUME NEW u \in Upstreams, DestructorEvent(u) PROVE Fresh'
  <2>1. u2s[u] \in Servers
    BY <1>9, RoleAssumption DEF DestructorEvent
  <2>2. CASE u2s[u] \in alive
    <3>1. Range(ended') = Range(ended) \cup {u2s[u]}
      BY <1>9, <2>1, <2>2, EndedGrows DEF DestructorEvent
    <3> QED BY <1>9, <2>1, <2>2, <3>1 DEF DestructorEvent
  <2>3. CASE u2s[u] \notin alive
    BY <1>9, <2>1, <2>3 DEF DestructorEvent
  <2> QED BY <2>2, <2>3
<1>10. CASE ServerDestroyed
  <2>1. Head(ended) \in Servers /\ Range(ended) = {Head(ended)} \cup Range(ended')
    BY <1>10, RangeTail DEF ServerDestroyed, TypeOK
  <2> QED BY <1>10, <2>1 DEF ServerDestroyed
<1>11. CASE NestedDestroyed
  BY <1>11 DEF NestedDestroyed, UpstreamDestroyed
<1>12. CASE RequestReturns
  <2>1. Range(ended') = Range(ended) \cup {cur.server}
    BY <1>12, RangeAppend DEF RequestReturns, TypeOK
  <2> QED BY <1>12, <2>1 DEF RequestReturns
<1>13. CASE DestroyUpstream
  BY <1>13, DestroyedUnlinks DEF DestroyUpstream
<1>14. CASE EventReturns
  <2>1. Unlink(u2s[cur.upstream], cur.upstream) \/ UNCHANGED maps
    BY <1>14, DestroyedUnlinks DEF EventReturns
  <2> QED BY <1>14, <2>1 DEF EventReturns
<1>15. CASE AgentLocks
  BY <1>15 DEF AgentLocks
<1>16. CASE AgentUnlocks
  BY <1>16 DEF AgentUnlocks
<1>17. CASE UNCHANGED vars
  BY <1>17 DEF vars
<1> QED BY <1>1, <1>2, <1>3, <1>4, <1>5, <1>6, <1>7, <1>8,
      <1>9, <1>10, <1>11, <1>12, <1>13, <1>14, <1>15, <1>16, <1>17 DEF Next, Continue

(* What has ended stays dead.                                              *)
LEMMA EndedStep == TypeOK /\ Fresh /\ InHandler /\ EndedDead /\ [Next]_vars => EndedDead'
<1> SUFFICES ASSUME TypeOK, Fresh, InHandler, EndedDead, [Next]_vars PROVE EndedDead'
  OBVIOUS
<1> USE NoneAssumption DEF TypeOK, Fresh, InHandler, EndedDead, Handler, Offerable, registry, maps, NewPair, NewTwinless, Link, Unlink, NoObjects
<1>1. ASSUME NEW g \in Globals, OfferGlobal(g) PROVE EndedDead'
  BY <1>1 DEF OfferGlobal
<1>2. ASSUME NEW g \in Globals, RemoveGlobal(g) PROVE EndedDead'
  BY <1>2 DEF RemoveGlobal
<1>3. ASSUME NEW g \in Globals, NEW s \in Servers, Bind(g, s) PROVE EndedDead'
  BY <1>3 DEF Bind
<1>4. CASE SetupEnds
  BY <1>4 DEF SetupEnds
<1>5. CASE Disconnect
  <2> PICK order \in [1 .. Cardinality(alive) -> alive] :
           Range(order) = alive /\ ended' = ended \o order
    BY <1>5 DEF Disconnect
  <2>1. Range(ended') = Range(ended) \cup alive
    BY OrderIsSeq, RangeConcat DEF TypeOK
  <2> QED BY <1>5, <2>1 DEF Disconnect
<1>6. ASSUME NEW s \in Servers, NEW t \in Servers, CreateByRequest(s, t) PROVE EndedDead'
  BY <1>6 DEF CreateByRequest
<1>7. ASSUME NEW s \in Servers, DestructorRequest(s) PROVE EndedDead'
  <2>1. CASE pc' = "sending"
    BY <1>7, <2>1 DEF DestructorRequest
  <2>2. CASE pc' # "sending"
    <3>1. Range(ended') = Range(ended) \cup {s}
      BY <1>7, <2>2, EndedGrows DEF DestructorRequest
    <3> QED BY <1>7, <2>2, <3>1 DEF DestructorRequest
  <2> QED BY <2>1, <2>2
<1>8. ASSUME NEW u \in Upstreams, CreateByEvent(u) PROVE EndedDead'
  BY <1>8 DEF CreateByEvent
<1>9. ASSUME NEW u \in Upstreams, DestructorEvent(u) PROVE EndedDead'
  <2>1. u2s[u] \in Servers
    BY <1>9, RoleAssumption DEF DestructorEvent
  <2>2. CASE u2s[u] \in alive
    <3>1. Range(ended') = Range(ended) \cup {u2s[u]}
      BY <1>9, <2>1, <2>2, EndedGrows DEF DestructorEvent
    <3> QED BY <1>9, <2>1, <2>2, <3>1 DEF DestructorEvent
  <2>3. CASE u2s[u] \notin alive
    BY <1>9, <2>1, <2>3 DEF DestructorEvent
  <2> QED BY <2>2, <2>3
<1>10. CASE ServerDestroyed
  <2>1. Head(ended) \in Servers /\ Range(ended) = {Head(ended)} \cup Range(ended')
    BY <1>10, RangeTail DEF ServerDestroyed, TypeOK
  <2> QED BY <1>10, <2>1 DEF ServerDestroyed
<1>11. CASE NestedDestroyed
  BY <1>11 DEF NestedDestroyed, UpstreamDestroyed
<1>12. CASE RequestReturns
  <2>1. Range(ended') = Range(ended) \cup {cur.server}
    BY <1>12, RangeAppend DEF RequestReturns, TypeOK
  <2> QED BY <1>12, <2>1 DEF RequestReturns
<1>13. CASE DestroyUpstream
  BY <1>13, DestroyedUnlinks DEF DestroyUpstream
<1>14. CASE EventReturns
  BY <1>14, DestroyedUnlinks DEF EventReturns
<1>15. CASE AgentLocks
  BY <1>15 DEF AgentLocks
<1>16. CASE AgentUnlocks
  BY <1>16 DEF AgentUnlocks
<1>17. CASE UNCHANGED vars
  BY <1>17 DEF vars
<1> QED BY <1>1, <1>2, <1>3, <1>4, <1>5, <1>6, <1>7, <1>8,
      <1>9, <1>10, <1>11, <1>12, <1>13, <1>14, <1>15, <1>16, <1>17 DEF Next, Continue

(* The handlers keep what they rely on.                                   *)
LEMMA HandlerStep == TypeOK /\ TwinsInverse /\ AliveHasTwin /\ InHandler /\ [Next]_vars => InHandler'
<1> SUFFICES ASSUME TypeOK, TwinsInverse, AliveHasTwin, InHandler, [Next]_vars PROVE InHandler'
  OBVIOUS
<1> USE NoneAssumption DEF TypeOK, TwinsInverse, AliveHasTwin, InHandler, Handler, Offerable, registry, maps, NewPair, NewTwinless, Link, Unlink, NoObjects
<1>1. ASSUME NEW g \in Globals, OfferGlobal(g) PROVE InHandler'
  BY <1>1 DEF OfferGlobal
<1>2. ASSUME NEW g \in Globals, RemoveGlobal(g) PROVE InHandler'
  BY <1>2 DEF RemoveGlobal
<1>3. ASSUME NEW g \in Globals, NEW s \in Servers, Bind(g, s) PROVE InHandler'
  BY <1>3 DEF Bind
<1>4. CASE SetupEnds
  BY <1>4 DEF SetupEnds
<1>5. CASE Disconnect
  BY <1>5 DEF Disconnect
<1>6. ASSUME NEW s \in Servers, NEW t \in Servers, CreateByRequest(s, t) PROVE InHandler'
  BY <1>6 DEF CreateByRequest
<1>7. ASSUME NEW s \in Servers, DestructorRequest(s) PROVE InHandler'
  BY <1>7 DEF DestructorRequest
<1>8. ASSUME NEW u \in Upstreams, CreateByEvent(u) PROVE InHandler'
  BY <1>8 DEF CreateByEvent
<1>9. ASSUME NEW u \in Upstreams, DestructorEvent(u) PROVE InHandler'
  <2>1. u2s[u] \in Servers
    BY <1>9, RoleAssumption DEF DestructorEvent
  <2> QED BY <1>9, <2>1 DEF DestructorEvent
<1>10. CASE ServerDestroyed
  <2>1. Head(ended) \in Servers
    BY <1>10, RangeTail DEF ServerDestroyed, TypeOK
  <2> QED BY <1>10, <2>1 DEF ServerDestroyed
<1>11. CASE NestedDestroyed
  BY <1>11 DEF NestedDestroyed, UpstreamDestroyed
<1>12. CASE RequestReturns
  BY <1>12 DEF RequestReturns
<1>13. CASE DestroyUpstream
  BY <1>13, DestroyedUnlinks DEF DestroyUpstream
<1>14. CASE EventReturns
  BY <1>14, DestroyedUnlinks DEF EventReturns
<1>15. CASE AgentLocks
  BY <1>15 DEF AgentLocks
<1>16. CASE AgentUnlocks
  BY <1>16 DEF AgentUnlocks
<1>17. CASE UNCHANGED vars
  BY <1>17 DEF vars
<1> QED BY <1>1, <1>2, <1>3, <1>4, <1>5, <1>6, <1>7, <1>8,
      <1>9, <1>10, <1>11, <1>12, <1>13, <1>14, <1>15, <1>16, <1>17 DEF Next, Continue

(* What is alive keeps its twin.                                          *)
LEMMA AliveStep == TypeOK /\ TwinsInverse /\ Fresh /\ EndedDead /\ InHandler /\ AliveHasTwin /\ [Next]_vars => AliveHasTwin'
<1> SUFFICES ASSUME TypeOK, TwinsInverse, Fresh, EndedDead, InHandler, AliveHasTwin, [Next]_vars PROVE AliveHasTwin'
  OBVIOUS
<1> USE NoneAssumption DEF TypeOK, TwinsInverse, Fresh, EndedDead, InHandler, AliveHasTwin, Handler, Offerable, registry, maps, NewPair, NewTwinless, Link, Unlink, NoObjects
<1>1. ASSUME NEW g \in Globals, OfferGlobal(g) PROVE AliveHasTwin'
  BY <1>1 DEF OfferGlobal
<1>2. ASSUME NEW g \in Globals, RemoveGlobal(g) PROVE AliveHasTwin'
  BY <1>2 DEF RemoveGlobal
<1>3. ASSUME NEW g \in Globals, NEW s \in Servers, Bind(g, s) PROVE AliveHasTwin'
  BY <1>3 DEF Bind
<1>4. CASE SetupEnds
  BY <1>4 DEF SetupEnds
<1>5. CASE Disconnect
  <2> PICK order \in [1 .. Cardinality(alive) -> alive] :
           Range(order) = alive /\ ended' = ended \o order
    BY <1>5 DEF Disconnect
  <2>1. Range(ended') = Range(ended) \cup alive
    BY OrderIsSeq, RangeConcat DEF TypeOK
  <2> QED BY <1>5, <2>1 DEF Disconnect
<1>6. ASSUME NEW s \in Servers, NEW t \in Servers, CreateByRequest(s, t) PROVE AliveHasTwin'
  BY <1>6 DEF CreateByRequest
<1>7. ASSUME NEW s \in Servers, DestructorRequest(s) PROVE AliveHasTwin'
  <2>1. CASE pc' = "sending"
    BY <1>7, <2>1 DEF DestructorRequest
  <2>2. CASE pc' # "sending"
    <3>1. Range(ended') = Range(ended) \cup {s}
      BY <1>7, <2>2, EndedGrows DEF DestructorRequest
    <3> QED BY <1>7, <2>2, <3>1 DEF DestructorRequest
  <2> QED BY <2>1, <2>2
<1>8. ASSUME NEW u \in Upstreams, CreateByEvent(u) PROVE AliveHasTwin'
  BY <1>8 DEF CreateByEvent
<1>9. ASSUME NEW u \in Upstreams, DestructorEvent(u) PROVE AliveHasTwin'
  <2>1. u2s[u] \in Servers
    BY <1>9, RoleAssumption DEF DestructorEvent
  <2>2. CASE u2s[u] \in alive
    <3>1. Range(ended') = Range(ended) \cup {u2s[u]}
      BY <1>9, <2>1, <2>2, EndedGrows DEF DestructorEvent
    <3> QED BY <1>9, <2>1, <2>2, <3>1 DEF DestructorEvent
  <2>3. CASE u2s[u] \notin alive
    BY <1>9, <2>1, <2>3 DEF DestructorEvent
  <2> QED BY <2>2, <2>3
<1>10. CASE ServerDestroyed
  <2>1. Head(ended) \in Servers /\ Range(ended) = {Head(ended)} \cup Range(ended')
    BY <1>10, RangeTail DEF ServerDestroyed, TypeOK
  <2> QED BY <1>10, <2>1 DEF ServerDestroyed
<1>11. CASE NestedDestroyed
  BY <1>11 DEF NestedDestroyed, UpstreamDestroyed
<1>12. CASE RequestReturns
  <2>1. Range(ended') = Range(ended) \cup {cur.server}
    BY <1>12, RangeAppend DEF RequestReturns, TypeOK
  <2> QED BY <1>12, <2>1 DEF RequestReturns
<1>13. CASE DestroyUpstream
  BY <1>13, DestroyedUnlinks DEF DestroyUpstream
<1>14. CASE EventReturns
  BY <1>14, DestroyedUnlinks DEF EventReturns
<1>15. CASE AgentLocks
  BY <1>15 DEF AgentLocks
<1>16. CASE AgentUnlocks
  BY <1>16 DEF AgentUnlocks
<1>17. CASE UNCHANGED vars
  BY <1>17 DEF vars
<1> QED BY <1>1, <1>2, <1>3, <1>4, <1>5, <1>6, <1>7, <1>8,
      <1>9, <1>10, <1>11, <1>12, <1>13, <1>14, <1>15, <1>16, <1>17 DEF Next, Continue

(* What is linked is alive or queued.                                      *)
LEMMA LinkedStep == TypeOK /\ TwinsInverse /\ Fresh /\ InHandler /\ LinkedTracked /\ [Next]_vars => LinkedTracked'
<1> SUFFICES ASSUME TypeOK, TwinsInverse, Fresh, InHandler, LinkedTracked, [Next]_vars PROVE LinkedTracked'
  OBVIOUS
<1> USE NoneAssumption DEF TypeOK, TwinsInverse, Fresh, InHandler, LinkedTracked, Handler, Offerable, registry, maps, NewPair, NewTwinless, Link, Unlink, NoObjects
<1>1. ASSUME NEW g \in Globals, OfferGlobal(g) PROVE LinkedTracked'
  BY <1>1 DEF OfferGlobal
<1>2. ASSUME NEW g \in Globals, RemoveGlobal(g) PROVE LinkedTracked'
  BY <1>2 DEF RemoveGlobal
<1>3. ASSUME NEW g \in Globals, NEW s \in Servers, Bind(g, s) PROVE LinkedTracked'
  BY <1>3 DEF Bind
<1>4. CASE SetupEnds
  BY <1>4 DEF SetupEnds
<1>5. CASE Disconnect
  <2> PICK order \in [1 .. Cardinality(alive) -> alive] :
           Range(order) = alive /\ ended' = ended \o order
    BY <1>5 DEF Disconnect
  <2>1. Range(ended') = Range(ended) \cup alive
    BY OrderIsSeq, RangeConcat DEF TypeOK
  <2> QED BY <1>5, <2>1 DEF Disconnect
<1>6. ASSUME NEW s \in Servers, NEW t \in Servers, CreateByRequest(s, t) PROVE LinkedTracked'
  BY <1>6 DEF CreateByRequest
<1>7. ASSUME NEW s \in Servers, DestructorRequest(s) PROVE LinkedTracked'
  <2>1. CASE pc' = "sending"
    BY <1>7, <2>1 DEF DestructorRequest
  <2>2. CASE pc' # "sending"
    <3>1. Range(ended') = Range(ended) \cup {s}
      BY <1>7, <2>2, EndedGrows DEF DestructorRequest
    <3> QED BY <1>7, <2>2, <3>1 DEF DestructorRequest
  <2> QED BY <2>1, <2>2
<1>8. ASSUME NEW u \in Upstreams, CreateByEvent(u) PROVE LinkedTracked'
  BY <1>8 DEF CreateByEvent
<1>9. ASSUME NEW u \in Upstreams, DestructorEvent(u) PROVE LinkedTracked'
  <2>1. u2s[u] \in Servers
    BY <1>9, RoleAssumption DEF DestructorEvent
  <2>2. CASE u2s[u] \in alive
    <3>1. Range(ended') = Range(ended) \cup {u2s[u]}
      BY <1>9, <2>1, <2>2, EndedGrows DEF DestructorEvent
    <3> QED BY <1>9, <2>1, <2>2, <3>1 DEF DestructorEvent
  <2>3. CASE u2s[u] \notin alive
    BY <1>9, <2>1, <2>3 DEF DestructorEvent
  <2> QED BY <2>2, <2>3
<1>10. CASE ServerDestroyed
  <2>1. Head(ended) \in Servers /\ Range(ended) = {Head(ended)} \cup Range(ended')
    BY <1>10, RangeTail DEF ServerDestroyed, TypeOK
  <2> QED BY <1>10, <2>1 DEF ServerDestroyed
<1>11. CASE NestedDestroyed
  BY <1>11 DEF NestedDestroyed, UpstreamDestroyed
<1>12. CASE RequestReturns
  <2>1. Range(ended') = Range(ended) \cup {cur.server}
    BY <1>12, RangeAppend DEF RequestReturns, TypeOK
  <2> QED BY <1>12, <2>1 DEF RequestReturns
<1>13. CASE DestroyUpstream
  BY <1>13, DestroyedUnlinks DEF DestroyUpstream
<1>14. CASE EventReturns
  BY <1>14, DestroyedUnlinks DEF EventReturns
<1>15. CASE AgentLocks
  BY <1>15 DEF AgentLocks
<1>16. CASE AgentUnlocks
  BY <1>16 DEF AgentUnlocks
<1>17. CASE UNCHANGED vars
  BY <1>17 DEF vars
<1> QED BY <1>1, <1>2, <1>3, <1>4, <1>5, <1>6, <1>7, <1>8,
      <1>9, <1>10, <1>11, <1>12, <1>13, <1>14, <1>15, <1>16, <1>17 DEF Next, Continue

(* The twin of a living upstream object is alive or queued.                *)
LEMMA LiveStep == TypeOK /\ TwinsInverse /\ Fresh /\ InHandler /\ LiveTracked /\ [Next]_vars => LiveTracked'
<1> SUFFICES ASSUME TypeOK, TwinsInverse, Fresh, InHandler, LiveTracked, [Next]_vars PROVE LiveTracked'
  OBVIOUS
<1> USE NoneAssumption DEF TypeOK, TwinsInverse, Fresh, InHandler, LiveTracked, Handler, Offerable, registry, maps, NewPair, NewTwinless, Link, Unlink, NoObjects
<1>1. ASSUME NEW g \in Globals, OfferGlobal(g) PROVE LiveTracked'
  BY <1>1 DEF OfferGlobal
<1>2. ASSUME NEW g \in Globals, RemoveGlobal(g) PROVE LiveTracked'
  BY <1>2 DEF RemoveGlobal
<1>3. ASSUME NEW g \in Globals, NEW s \in Servers, Bind(g, s) PROVE LiveTracked'
  BY <1>3 DEF Bind
<1>4. CASE SetupEnds
  BY <1>4 DEF SetupEnds
<1>5. CASE Disconnect
  <2> PICK order \in [1 .. Cardinality(alive) -> alive] :
           Range(order) = alive /\ ended' = ended \o order
    BY <1>5 DEF Disconnect
  <2>1. Range(ended') = Range(ended) \cup alive
    BY OrderIsSeq, RangeConcat DEF TypeOK
  <2> QED BY <1>5, <2>1 DEF Disconnect
<1>6. ASSUME NEW s \in Servers, NEW t \in Servers, CreateByRequest(s, t) PROVE LiveTracked'
  BY <1>6 DEF CreateByRequest
<1>7. ASSUME NEW s \in Servers, DestructorRequest(s) PROVE LiveTracked'
  <2>1. CASE pc' = "sending"
    BY <1>7, <2>1 DEF DestructorRequest
  <2>2. CASE pc' # "sending"
    <3>1. Range(ended') = Range(ended) \cup {s}
      BY <1>7, <2>2, EndedGrows DEF DestructorRequest
    <3> QED BY <1>7, <2>2, <3>1 DEF DestructorRequest
  <2> QED BY <2>1, <2>2
<1>8. ASSUME NEW u \in Upstreams, CreateByEvent(u) PROVE LiveTracked'
  BY <1>8 DEF CreateByEvent
<1>9. ASSUME NEW u \in Upstreams, DestructorEvent(u) PROVE LiveTracked'
  <2>1. u2s[u] \in Servers
    BY <1>9, RoleAssumption DEF DestructorEvent
  <2>2. CASE u2s[u] \in alive
    <3>1. Range(ended') = Range(ended) \cup {u2s[u]}
      BY <1>9, <2>1, <2>2, EndedGrows DEF DestructorEvent
    <3> QED BY <1>9, <2>1, <2>2, <3>1 DEF DestructorEvent
  <2>3. CASE u2s[u] \notin alive
    BY <1>9, <2>1, <2>3 DEF DestructorEvent
  <2> QED BY <2>2, <2>3
<1>10. CASE ServerDestroyed
  <2>1. Head(ended) \in Servers /\ Range(ended) = {Head(ended)} \cup Range(ended')
    BY <1>10, RangeTail DEF ServerDestroyed, TypeOK
  <2> QED BY <1>10, <2>1 DEF ServerDestroyed
<1>11. CASE NestedDestroyed
  BY <1>11 DEF NestedDestroyed, UpstreamDestroyed
<1>12. CASE RequestReturns
  <2>1. Range(ended') = Range(ended) \cup {cur.server}
    BY <1>12, RangeAppend DEF RequestReturns, TypeOK
  <2> QED BY <1>12, <2>1 DEF RequestReturns
<1>13. CASE DestroyUpstream
  BY <1>13, DestroyedUnlinks DEF DestroyUpstream
<1>14. CASE EventReturns
  BY <1>14, DestroyedUnlinks DEF EventReturns
<1>15. CASE AgentLocks
  BY <1>15 DEF AgentLocks
<1>16. CASE AgentUnlocks
  BY <1>16 DEF AgentUnlocks
<1>17. CASE UNCHANGED vars
  BY <1>17 DEF vars
<1> QED BY <1>1, <1>2, <1>3, <1>4, <1>5, <1>6, <1>7, <1>8,
      <1>9, <1>10, <1>11, <1>12, <1>13, <1>14, <1>15, <1>16, <1>17 DEF Next, Continue

-----------------------------------------------------------------------------
(* What follows.                                                            *)

(* The invariant holds initially and in every reachable state.             *)
THEOREM Invariance == Spec => []IInv
<1>1. Init => IInv
  BY NoneAssumption DEF Init, IInv, TypeOK, TwinsInverse, Fresh, EndedDead, InHandler, AliveHasTwin,
     LinkedTracked, LiveTracked, NoObjects, Range
<1>2. IInv /\ [Next]_vars => IInv'
  BY TypesStep, InverseStep, FreshStep, EndedStep, HandlerStep, AliveStep, LinkedStep, LiveStep DEF IInv
<1> QED BY <1>1, <1>2, PTL DEF Spec

(* Every variable keeps its type (ProxyTwins.TypeOK).                      *)
THEOREM TypeCorrect == Spec => []TypeOK
<1>1. IInv => TypeOK
  BY DEF IInv
<1> QED BY <1>1, Invariance, PTL

(* s2u and u2s are each other's inverse (Conn).                            *)
THEOREM Paired == Spec => []TwinsInverse
<1>1. IInv => TwinsInverse
  BY DEF IInv
<1> QED BY <1>1, Invariance, PTL

(* Every object the app can name has a living twin, or its destructor is    *)
(* being sent, or the bind that made it failed; and such a leftover of a    *)
(* failed bind is never entered in the maps (forward_request, bind).        *)
THEOREM Twins == Spec => []AliveHasTwin
<1>1. IInv => AliveHasTwin
  BY DEF IInv
<1> QED BY <1>1, Invariance, PTL

(* The maps are clean whenever the callbacks have caught up (destroyed).   *)
THEOREM Clean == Spec => []CleanWhenIdle
<1>1. IInv => CleanWhenIdle
  BY DEF IInv, TypeOK, LinkedTracked, LiveTracked, CleanWhenIdle, Range
<1> QED BY <1>1, Invariance, PTL
=============================================================================
