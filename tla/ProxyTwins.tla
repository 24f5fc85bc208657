----------------------------- MODULE ProxyTwins ------------------------------
(***************************************************************************)
(* The object maps of one proxied connection (src/seat/proxy.rs): every    *)
(* protocol object the app has is paired with one the proxy has at the     *)
(* compositor.  Pairs are made by the app's requests, by binds of globals  *)
(* and by events that create objects; they end by the app's destructor     *)
(* requests, by destructor events and with the app.                        *)
(*                                                                         *)
(* One thread runs all handlers, agent threads take the conn lock beside   *)
(* it.  A handler holds the lock, which is not reentrant, throughout; but  *)
(* the backends call back when an object ends: the client backend at once, *)
(* from inside send_request or destroy_object or after an event handler    *)
(* has returned, the server backend later, for a queue of ended objects.   *)
(* That is where the steps below are cut.  A request to the compositor may *)
(* fail wherever one is made (external: the client backend's choice).      *)
(*                                                                         *)
(* Identifiers carry the backend's own serial, so each is used once.  The  *)
(* two wl_display objects and the upstream registry, which live as long as *)
(* the connection, are left out, and so is the number index u2s_proto:     *)
(* only the wl_display.delete_id branch of forward_event reads it, and no  *)
(* object is ever given the role that would take that branch.              *)
(***************************************************************************)
EXTENDS Naturals, FiniteSets, Sequences, SequencesExt

CONSTANTS Servers,       \* object identifiers on the app's side
          Upstreams,     \* object identifiers on the compositor's side
          Callbacks,     \* app-side identifiers of wl_callback objects
          Feedbacks,     \* those of other interfaces with a destructor event
          Globals,       \* the compositor's globals, by name
          Filtered,      \* those that is_denied names or by_name does not know
          None

ASSUME RoleAssumption ==
  /\ Callbacks \subseteq Servers /\ Feedbacks \subseteq Servers
  /\ Callbacks \cap Feedbacks = {}
ASSUME FiniteAssumption == IsFiniteSet(Servers)
ASSUME NoneAssumption == None \notin Servers \cup Upstreams \cup {"proxy", "agent"}

VARIABLES
  stage,      \* of the app: "setup", "serving", "refused" or "gone"; "panicked"
              \* is the end of the proxy thread by a panic of the server backend
  globals,    \* Conn.globals: what is offered to the app
  withdrawn,  \* globals the compositor has removed
  s2u, u2s,   \* the two maps of Conn
  unborn,     \* identifiers not used so far
  alive,      \* objects the server backend has for the app
  live,       \* objects the client backend has at the compositor
  twinless,   \* app-side objects whose bind came to nothing (dead_sobj)
  ended,      \* the server backend's queue of objects to call destroyed for
  pc,         \* the proxy thread: "idle", or which callback is due in a handler
  cur,        \* the objects of that handler
  holder      \* who holds the conn lock: "proxy", "agent" or None

vars == <<stage, globals, withdrawn, s2u, u2s, unborn, alive, live, twinless, ended, pc, cur, holder>>
registry == <<stage, globals, withdrawn>>
maps == <<s2u, u2s>>

TypeOK ==
  /\ stage \in {"setup", "serving", "refused", "gone", "panicked"}
  /\ globals \subseteq Globals \ Filtered /\ withdrawn \subseteq Globals
  /\ s2u \in [Servers -> Upstreams \cup {None}]
  /\ u2s \in [Upstreams -> Servers \cup {None}]
  /\ unborn \subseteq Servers \cup Upstreams
  /\ alive \subseteq Servers /\ live \subseteq Upstreams /\ twinless \subseteq Servers
  /\ ended \in Seq(Servers)
  /\ pc \in {"idle", "sending", "sent", "dying", "event"}
  /\ cur \in [server : Servers \cup {None}, upstream : Upstreams \cup {None}]
  /\ holder \in {"proxy", "agent", None}

NoObjects == [server |-> None, upstream |-> None]

Init ==
  /\ stage = "setup" /\ globals = {} /\ withdrawn = {}
  /\ s2u = [s \in Servers |-> None] /\ u2s = [u \in Upstreams |-> None]
  /\ unborn = Servers \cup Upstreams
  /\ alive = {} /\ live = {} /\ twinless = {} /\ ended = <<>>
  /\ pc = "idle" /\ cur = NoObjects /\ holder = None

-----------------------------------------------------------------------------
(* setup, and the globals.                                                  *)

Handler == pc = "idle" /\ holder = None /\ stage # "panicked"

(* by_name and is_denied: what the proxy has no interface for, and what is  *)
(* kept from apps on purpose.                                               *)
Offerable(g) == g \in Globals \ Filtered

(* Mutant: every global is offered.                                         *)
OfferGlobalAny(g) ==
  /\ Handler /\ stage # "refused"
  /\ g \notin globals \cup withdrawn
  /\ globals' = globals \cup {g}
  /\ UNCHANGED <<stage, withdrawn, maps, unborn, alive, live, twinless, ended, pc, cur, holder>>

(* handle_registry_event: a global of a filtered interface is not offered.  *)
OfferGlobal(g) ==
  /\ Handler /\ stage # "refused"
  /\ Offerable(g) /\ g \notin globals \cup withdrawn
  /\ globals' = globals \cup {g}
  /\ UNCHANGED <<stage, withdrawn, maps, unborn, alive, live, twinless, ended, pc, cur, holder>>

RemoveGlobal(g) ==
  /\ Handler /\ g \in globals
  /\ globals' = globals \ {g} /\ withdrawn' = withdrawn \cup {g}
  /\ UNCHANGED <<stage, maps, unborn, alive, live, twinless, ended, pc, cur, holder>>

(* The app is let in at the first global that is seen; after three seconds  *)
(* without one, or when the compositor is lost, it is refused.              *)
SetupEnds ==
  /\ Handler /\ stage = "setup"
  /\ \/ globals # {} /\ stage' = "serving"
     \/ globals = {} /\ stage' = "refused"
  /\ UNCHANGED <<globals, withdrawn, maps, unborn, alive, live, twinless, ended, pc, cur, holder>>

-----------------------------------------------------------------------------
(* Pairs are made.                                                          *)

(* Mutant: only the direction requests need is entered.                     *)
LinkOneWay(s, u) ==
  /\ s2u' = [s2u EXCEPT ![s] = u]
  /\ UNCHANGED u2s

Link(s, u) ==
  /\ s2u' = [s2u EXCEPT ![s] = u]
  /\ u2s' = [u2s EXCEPT ![u] = s]

NewPair(s, u) ==
  /\ {s, u} \subseteq unborn /\ s \in Servers /\ u \in Upstreams
  /\ unborn' = unborn \ {s, u}
  /\ alive' = alive \cup {s} /\ live' = live \cup {u}
  /\ Link(s, u)
  /\ UNCHANGED <<registry, twinless, ended, pc, cur, holder>>

(* dead_sobj: an object of the app that stands for nothing.                 *)
NewTwinless(s) ==
  /\ s \in unborn \cap Servers
  /\ unborn' = unborn \ {s}
  /\ alive' = alive \cup {s} /\ twinless' = twinless \cup {s}
  /\ UNCHANGED <<registry, maps, live, ended, pc, cur, holder>>

(* GlobalHandlerObj::bind.  The app may bind a global that has been         *)
(* withdrawn before it learns of that, and the upstream bind may fail.      *)
Bind(g, s) ==
  /\ Handler /\ stage = "serving"
  /\ \/ g \in globals /\ \E u \in Upstreams : NewPair(s, u)
     \/ g \in globals \cup withdrawn /\ NewTwinless(s)

(* forward_request for a request that creates object s.  When the sender    *)
(* has no twin or the request cannot be sent it returns no data for s, for  *)
(* which the server backend panics (external): the proxy thread runs no     *)
(* further handler.                                                         *)
CreateByRequest(sender, s) ==
  /\ Handler /\ sender \in alive
  /\ \/ s2u[sender] # None /\ \E u \in Upstreams : NewPair(s, u)
     \/ /\ s \in unborn \cap Servers
        /\ unborn' = unborn \ {s} /\ stage' = "panicked"
        /\ UNCHANGED <<globals, withdrawn, maps, alive, live, twinless, ended, pc, cur, holder>>

(* Mutant: the object the event brings is passed on before it is linked.    *)
CreateByEventUnlinked(u) ==
  /\ Handler /\ live # {} /\ u \in unborn \cap Upstreams
  /\ \E s \in unborn \cap Servers :
       /\ unborn' = unborn \ {s, u} /\ alive' = alive \cup {s} /\ live' = live \cup {u}
       /\ UNCHANGED <<registry, maps, twinless, ended, pc, cur, holder>>

(* forward_event for an event that brings a new object: its twin is created *)
(* for the app first, unless the app is gone.                               *)
CreateByEvent(u) ==
  /\ Handler /\ live # {} /\ u \in unborn \cap Upstreams
  /\ \/ stage = "serving" /\ \E s \in Servers : NewPair(s, u)
     \/ /\ stage = "gone"
        /\ unborn' = unborn \ {u} /\ live' = live \cup {u}
        /\ UNCHANGED <<registry, maps, alive, twinless, ended, pc, cur, holder>>

-----------------------------------------------------------------------------
(* Pairs end.                                                               *)

Unlink(s, u) ==
  /\ s2u' = [t \in Servers |-> IF t = s THEN None ELSE s2u[t]]
  /\ u2s' = [v \in Upstreams |-> IF v = u THEN None ELSE u2s[v]]

UnlinkUpstream(u) == Unlink(u2s[u], u)

(* Mutant: the callback waits for the lock.                                 *)
UpstreamDestroyedBlocks(u) == holder = None /\ UnlinkUpstream(u)

(* UObj::destroyed tries the lock and does nothing when somebody has it.    *)
UpstreamDestroyed(u) ==
  IF holder = None THEN UnlinkUpstream(u) ELSE UNCHANGED maps

(* forward_request for a destructor: the client backend ends the twin while *)
(* the message is sent, with the lock held by this very thread.  When there *)
(* is no twin or the message cannot be sent, the server backend ends the    *)
(* object all the same.  Callbacks and feedbacks have no destructor request. *)
DestructorRequest(s) ==
  /\ Handler /\ s \in alive \ (Callbacks \cup Feedbacks)
  /\ \/ /\ s2u[s] # None
        /\ pc' = "sending" /\ holder' = "proxy"
        /\ cur' = [server |-> s, upstream |-> s2u[s]]
        /\ live' = live \ {s2u[s]}
        /\ UNCHANGED <<alive, ended>>
     \/ /\ alive' = alive \ {s} /\ ended' = Append(ended, s)
        /\ UNCHANGED <<live, pc, cur, holder>>
  /\ UNCHANGED <<registry, maps, unborn, twinless>>

NestedDestroyed ==
  /\ pc = "sending" /\ UpstreamDestroyed(cur.upstream)
  /\ pc' = "sent"
  /\ UNCHANGED <<registry, unborn, alive, live, twinless, ended, cur, holder>>

(* The handler returns, and the server backend ends the object.             *)
RequestReturns ==
  /\ pc = "sent"
  /\ holder' = None /\ pc' = "idle" /\ cur' = NoObjects
  /\ alive' = alive \ {cur.server} /\ ended' = Append(ended, cur.server)
  /\ UNCHANGED <<registry, maps, unborn, live, twinless>>

(* Mutant: the maps are left to UObj::destroyed.                            *)
ServerDestroyedLeaves ==
  /\ Handler /\ ended # <<>>
  /\ LET s == Head(ended) IN
       IF s2u[s] # None THEN pc' = "dying" /\ cur' = [server |-> s, upstream |-> s2u[s]]
                        ELSE UNCHANGED <<pc, cur>>
  /\ ended' = Tail(ended)
  /\ UNCHANGED <<registry, maps, unborn, alive, live, twinless, holder>>

(* SObj::destroyed, first phase: the maps, under the lock.                  *)
ServerDestroyed ==
  /\ Handler /\ ended # <<>>
  /\ LET s == Head(ended) IN
       /\ Unlink(s, s2u[s])
       /\ IF s2u[s] # None THEN pc' = "dying" /\ cur' = [server |-> s, upstream |-> s2u[s]]
                           ELSE UNCHANGED <<pc, cur>>
  /\ ended' = Tail(ended)
  /\ UNCHANGED <<registry, unborn, alive, live, twinless, holder>>

(* Second phase, without the lock: the twin is destroyed if it still lives. *)
DestroyUpstream ==
  /\ pc = "dying"
  /\ live' = live \ {cur.upstream}
  /\ IF cur.upstream \in live THEN UpstreamDestroyed(cur.upstream) ELSE UNCHANGED maps
  /\ pc' = "idle" /\ cur' = NoObjects
  /\ UNCHANGED <<registry, unborn, alive, twinless, ended, holder>>

(* forward_event for a destructor event: passing it on ends the app's       *)
(* object, and for wl_callback.done the handler unlinks it as well.         *)
DestructorEvent(u) ==
  LET s == u2s[u] IN
  /\ Handler /\ u \in live /\ s \in Callbacks \cup Feedbacks
  /\ IF s \in Callbacks THEN Unlink(s, u) ELSE UNCHANGED maps
  /\ IF s \in alive THEN alive' = alive \ {s} /\ ended' = Append(ended, s)
                    ELSE UNCHANGED <<alive, ended>>
  /\ pc' = "event" /\ cur' = [server |-> s, upstream |-> u]
  /\ UNCHANGED <<registry, unborn, live, twinless, holder>>

(* The event handler has returned: the client backend ends its object.      *)
EventReturns ==
  /\ pc = "event"
  /\ live' = live \ {cur.upstream} /\ UpstreamDestroyed(cur.upstream)
  /\ pc' = "idle" /\ cur' = NoObjects
  /\ UNCHANGED <<registry, unborn, alive, twinless, ended, holder>>

(* The app disconnects: the server backend ends all its objects, one after  *)
(* another.                                                                 *)
Disconnect ==
  /\ Handler /\ stage = "serving"
  /\ stage' = "gone"
  /\ alive' = {}
  /\ \E order \in [1 .. Cardinality(alive) -> alive] :
       Range(order) = alive /\ ended' = ended \o order
  /\ UNCHANGED <<globals, withdrawn, maps, unborn, live, twinless, pc, cur, holder>>

(* An agent thread injects or captures under the lock.                      *)
AgentLocks ==
  /\ holder = None /\ holder' = "agent"
  /\ UNCHANGED <<registry, maps, unborn, alive, live, twinless, ended, pc, cur>>

AgentUnlocks ==
  /\ holder = "agent" /\ holder' = None
  /\ UNCHANGED <<registry, maps, unborn, alive, live, twinless, ended, pc, cur>>

-----------------------------------------------------------------------------
Continue == NestedDestroyed \/ RequestReturns \/ DestroyUpstream \/ EventReturns

Next ==
  \/ \E g \in Globals : OfferGlobal(g) \/ RemoveGlobal(g) \/ \E s \in Servers : Bind(g, s)
  \/ SetupEnds \/ Disconnect
  \/ \E s, t \in Servers : CreateByRequest(s, t)
  \/ \E s \in Servers : DestructorRequest(s)
  \/ \E u \in Upstreams : CreateByEvent(u) \/ DestructorEvent(u)
  \/ ServerDestroyed \/ Continue
  \/ AgentLocks \/ AgentUnlocks

(* The proxy thread runs on, agents give the lock back, and a thread that   *)
(* keeps asking for it gets it: injections are short and pauses long.       *)
Fairness ==
  WF_vars(Continue) /\ WF_vars(AgentUnlocks) /\ SF_vars(ServerDestroyed)

Spec == Init /\ [][Next]_vars
FairSpec == Spec /\ Fairness
-----------------------------------------------------------------------------
(* The two maps are each other's inverse, whatever requests, events and     *)
(* callbacks have done to them (link, unlink_server, unlink_upstream,       *)
(* SObj::destroyed).                                                        *)
TwinsInverse ==
  \A s \in Servers, u \in Upstreams : s2u[s] = u <=> u2s[u] = s

(* An object the app can name has a living twin, so that none of its        *)
(* requests is dropped and none of its arguments turns null, with two       *)
(* exceptions: while its own destructor is being sent, and when the bind    *)
(* that made it came to nothing (dead_sobj).  Such an object stays out of   *)
(* the maps for good, so that no message of the compositor and no other     *)
(* object is ever taken for its twin (forward_request,                      *)
(* map_object_upstream, GlobalHandlerObj::bind).                            *)
AliveHasTwin ==
  /\ \A s \in alive \ twinless : s2u[s] \in live \/ (pc \in {"sending", "sent"} /\ cur.server = s)
  /\ \A s \in twinless : s2u[s] = None /\ \A u \in Upstreams : u2s[u] # s

(* With no handler running and no callback due, only living objects are in  *)
(* the maps, and while the app is there every object at the compositor has  *)
(* its twin: what the skipped callbacks left undone has been done ("the map *)
(* cleanup is redundant in that case", UObj::destroyed).                    *)
CleanWhenIdle ==
  (pc = "idle" /\ ended = <<>>) =>
    /\ \A s \in Servers : s2u[s] # None => s \in alive
    /\ stage = "serving" => \A u \in live : u2s[u] \in alive

(* No handler waits for a lock its own thread holds: whatever is under way  *)
(* returns, and every ended object is cleaned up after, unless the server   *)
(* backend has panicked.                                                    *)
HandlersReturn ==
  /\ pc # "idle" ~> pc = "idle"
  /\ \A s \in Servers : (ended # <<>> /\ s = Last(ended)) ~> (s2u[s] = None \/ stage = "panicked")
=============================================================================
