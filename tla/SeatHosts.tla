------------------------------ MODULE SeatHosts -------------------------------
(***************************************************************************)
(* Harness processes that share one runtime directory (src/seat/mod.rs):   *)
(* the process-wide seat of seat() and shutdown(), seats of their own from *)
(* AgentSeat::create(), the socket file each seat has, and the clean-up of *)
(* files that processes which are gone have left.                          *)
(*                                                                         *)
(* A process may end at any step without having closed its seats: a crash, *)
(* or an exit, which runs no Drop for the static slot.  Pids are used      *)
(* again.  Setting up and tearing down the seat itself is SeatLifecycle,   *)
(* and here a few steps; a seat's file is known by the seat, as its name   *)
(* has a uuid, and carries the pid of the process that bound it.           *)
(***************************************************************************)
EXTENDS Naturals, FiniteSets

CONSTANTS Hosts,      \* processes, each started at most once
          Pids,       \* process identifiers
          Threads,    \* threads that call the library
          HostOf,     \* the process of each
          Seats,      \* seats, each created at most once
          None

ASSUME ThreadAssumption == HostOf \in [Threads -> Hosts]
ASSUME NoneAssumption == None \notin Pids \cup Seats \cup Threads

VARIABLES
  pid,     \* of every process that has been started
  up,      \* the processes that run
  slot,    \* the static seat slot of a process
  lock,    \* the thread that holds the slot's mutex
  pc,      \* where each thread is in a call
  at,      \* the seat it is starting or closing
  closes,  \* the call is close() or Drop, and not shutdown()
  todo,    \* clean-up: directory entries still to be looked at
  doomed,  \* clean-up: the entry to be removed
  gone,    \* clean-up: the entries that were stale when the directory was read and
           \* whose pid has not come back to life before they were looked at (history)
  phase,   \* of each seat
  owner,   \* the process that created it
  single,  \* it was created by seat()
  files    \* seats whose socket file exists

vars == <<pid, up, slot, lock, pc, at, closes, todo, doomed, gone, phase, owner, single, files>>
processes == <<pid, up>>
cleanup == <<todo, doomed, gone>>
seats == <<phase, owner, single>>

TypeOK ==
  /\ pid \in [Hosts -> Pids \cup {None}] /\ up \subseteq Hosts
  /\ slot \in [Hosts -> Seats \cup {None}]
  /\ lock \in [Hosts -> Threads \cup {None}]
  /\ pc \in [Threads -> {"idle", "scan", "clean", "start", "remove", "unlink", "join", "joining"}]
  /\ at \in [Threads -> Seats \cup {None}] /\ closes \in [Threads -> BOOLEAN]
  /\ todo \in [Threads -> SUBSET Seats] /\ gone \in [Threads -> SUBSET Seats]
  /\ doomed \in [Threads -> Seats \cup {None}]
  /\ phase \in [Seats -> {"unborn", "bound", "open", "closing", "joining", "closed"}]
  /\ owner \in [Seats -> Hosts \cup {None}] /\ single \in [Seats -> BOOLEAN]
  /\ files \subseteq Seats

Init ==
  /\ pid = [h \in Hosts |-> None] /\ up = {}
  /\ slot = [h \in Hosts |-> None] /\ lock = [h \in Hosts |-> None]
  /\ pc = [t \in Threads |-> "idle"]
  /\ at = [t \in Threads |-> None] /\ closes = [t \in Threads |-> FALSE]
  /\ todo = [t \in Threads |-> {}] /\ gone = [t \in Threads |-> {}]
  /\ doomed = [t \in Threads |-> None]
  /\ phase = [s \in Seats |-> "unborn"]
  /\ owner = [s \in Seats |-> None] /\ single = [s \in Seats |-> FALSE]
  /\ files = {}

-----------------------------------------------------------------------------
(* The processes.                                                           *)

FilePid(s) == pid[owner[s]]
PidInUse(p) == \E h \in up : pid[h] = p

StartHost(h, p) ==
  /\ pid[h] = None /\ ~PidInUse(p)
  /\ pid' = [pid EXCEPT ![h] = p] /\ up' = up \cup {h}
  /\ gone' = [t \in Threads |-> gone[t] \ {s \in todo[t] : FilePid(s) = p}]
  /\ UNCHANGED <<slot, lock, pc, at, closes, todo, doomed, seats, files>>

(* What was in the memory of the process goes, what is in the directory     *)
(* stays.                                                                   *)
Cleared(f, h, value) == [t \in Threads |-> IF HostOf[t] = h THEN value ELSE f[t]]

EndHost(h) ==
  /\ h \in up /\ up' = up \ {h}
  /\ slot' = [slot EXCEPT ![h] = None] /\ lock' = [lock EXCEPT ![h] = None]
  /\ pc' = Cleared(pc, h, "idle") /\ at' = Cleared(at, h, None)
  /\ closes' = Cleared(closes, h, FALSE) /\ todo' = Cleared(todo, h, {})
  /\ doomed' = Cleared(doomed, h, None) /\ gone' = Cleared(gone, h, {})
  /\ UNCHANGED <<pid, seats, files>>

-----------------------------------------------------------------------------
(* Calls, each by a thread t.                                               *)

At(t, label) == HostOf[t] \in up /\ pc[t] = label
Goto(t, label) == pc' = [pc EXCEPT ![t] = label]
Holds(t) == lock[HostOf[t]] = t
Lock(t) == lock[HostOf[t]] = None /\ lock' = [lock EXCEPT ![HostOf[t]] = t]

(* The call returns, and gives the mutex back if it has it.                 *)
Return(t) ==
  /\ Goto(t, "idle")
  /\ at' = [at EXCEPT ![t] = None] /\ closes' = [closes EXCEPT ![t] = FALSE]
  /\ lock' = IF Holds(t) THEN [lock EXCEPT ![HostOf[t]] = None] ELSE lock

(* seat() with an empty slot: the mutex is held until the call returns.     *)
(* With a seat in the slot it hands that out and changes nothing.           *)
CallSeat(t) ==
  /\ At(t, "idle") /\ slot[HostOf[t]] = None
  /\ Lock(t) /\ Goto(t, "scan")
  /\ UNCHANGED <<processes, slot, at, closes, cleanup, seats, files>>

CallCreate(t) ==
  /\ At(t, "idle") /\ Goto(t, "scan")
  /\ UNCHANGED <<processes, slot, lock, at, closes, cleanup, seats, files>>

(* Mutant: whoever is not this process is taken for gone.                   *)
StaleOthers(h, s) == FilePid(s) # pid[h]

(* A file another pid has left, when no process has that pid any more.      *)
Stale(h, s) == FilePid(s) # pid[h] /\ ~PidInUse(FilePid(s))

(* cleanup_stale_seat_sockets reads the directory.                          *)
Scan(t) ==
  /\ At(t, "scan") /\ Goto(t, "clean")
  /\ todo' = [todo EXCEPT ![t] = files]
  /\ gone' = [gone EXCEPT ![t] = {s \in files : Stale(HostOf[t], s)}]
  /\ UNCHANGED <<processes, slot, lock, at, closes, doomed, seats, files>>

(* Mutant: the first entry that is not stale ends the clean-up.             *)
CheckEntryStops(t, s) ==
  /\ At(t, "clean") /\ doomed[t] = None /\ s \in todo[t]
  /\ IF Stale(HostOf[t], s)
       THEN todo' = [todo EXCEPT ![t] = @ \ {s}] /\ doomed' = [doomed EXCEPT ![t] = s]
       ELSE todo' = [todo EXCEPT ![t] = {}] /\ UNCHANGED doomed
  /\ UNCHANGED <<processes, slot, lock, pc, at, closes, gone, seats, files>>

(* Each entry is looked at, in any order, and then removed if it was stale. *)
CheckEntry(t, s) ==
  /\ At(t, "clean") /\ doomed[t] = None /\ s \in todo[t]
  /\ todo' = [todo EXCEPT ![t] = @ \ {s}]
  /\ doomed' = IF Stale(HostOf[t], s) THEN [doomed EXCEPT ![t] = s] ELSE doomed
  /\ UNCHANGED <<processes, slot, lock, pc, at, closes, gone, seats, files>>

RemoveEntry(t) ==
  /\ At(t, "clean") /\ doomed[t] # None
  /\ files' = files \ {doomed[t]}
  /\ doomed' = [doomed EXCEPT ![t] = None]
  /\ UNCHANGED <<processes, slot, lock, pc, at, closes, todo, gone, seats>>

Cleaned(t) == At(t, "clean") /\ todo[t] = {} /\ doomed[t] = None

NewSeat(t, s) ==
  /\ phase[s] = "unborn"
  /\ phase' = [phase EXCEPT ![s] = "bound"]
  /\ owner' = [owner EXCEPT ![s] = HostOf[t]]
  /\ single' = [single EXCEPT ![s] = Holds(t)]
  /\ at' = [at EXCEPT ![t] = s]

(* Mutant: the file is named by the pid alone.                              *)
BindUnnamed(t) ==
  /\ Cleaned(t)
  /\ \E s \in Seats : NewSeat(t, s)
  /\ files' = files \cup {pid[HostOf[t]]}
  /\ Goto(t, "start") /\ gone' = [gone EXCEPT ![t] = {}]
  /\ UNCHANGED <<processes, slot, lock, closes, todo, doomed>>

(* new_unstarted binds a socket under a fresh name, or fails and leaves no  *)
(* file: in bind, or after it, and then the file is removed.                *)
Bind(t) ==
  /\ Cleaned(t)
  /\ \/ \E s \in Seats :
          /\ NewSeat(t, s) /\ files' = files \cup {s}
          /\ Goto(t, "start") /\ UNCHANGED <<lock, closes>>
     \/ Return(t) /\ UNCHANGED <<seats, files>>
  /\ gone' = [gone EXCEPT ![t] = {}]
  /\ UNCHANGED <<processes, slot, todo, doomed>>

(* Mutant: a seat that cannot be started keeps its file.                    *)
StartLeaves(t) ==
  /\ At(t, "start")
  /\ \/ /\ phase' = [phase EXCEPT ![at[t]] = "open"]
        /\ slot' = IF Holds(t) THEN [slot EXCEPT ![HostOf[t]] = at[t]] ELSE slot
     \/ phase' = [phase EXCEPT ![at[t]] = "closed"] /\ UNCHANGED slot
  /\ Return(t)
  /\ UNCHANGED <<processes, cleanup, owner, single, files>>

(* start runs the accept thread and the seat is handed out, by seat() with  *)
(* a copy for the slot; without the thread the seat is dropped again, which *)
(* shuts it down.                                                           *)
Start(t) ==
  /\ At(t, "start")
  /\ \/ /\ phase' = [phase EXCEPT ![at[t]] = "open"]
        /\ slot' = IF Holds(t) THEN [slot EXCEPT ![HostOf[t]] = at[t]] ELSE slot
        /\ UNCHANGED files
     \/ /\ phase' = [phase EXCEPT ![at[t]] = "closed"]
        /\ files' = files \ {at[t]}
        /\ UNCHANGED slot
  /\ Return(t)
  /\ UNCHANGED <<processes, cleanup, owner, single>>

(* Mutant: the mutex is given back before the seat is torn down.            *)
CallShutdownUnlocked(t) ==
  LET h == HostOf[t] IN
  /\ At(t, "idle") /\ slot[h] # None /\ lock[h] = None /\ Goto(t, "remove")
  /\ slot' = [slot EXCEPT ![h] = None] /\ at' = [at EXCEPT ![t] = slot[h]]
  /\ UNCHANGED <<processes, lock, closes, cleanup, seats, files>>

(* shutdown() empties the slot and holds the mutex until it returns.        *)
CallShutdown(t) ==
  LET h == HostOf[t] IN
  /\ At(t, "idle") /\ slot[h] # None /\ Lock(t) /\ Goto(t, "remove")
  /\ slot' = [slot EXCEPT ![h] = None] /\ at' = [at EXCEPT ![t] = slot[h]]
  /\ UNCHANGED <<processes, closes, cleanup, seats, files>>

(* close() on a seat the process has, the one in the slot included.         *)
CallClose(t, s) ==
  /\ At(t, "idle") /\ owner[s] = HostOf[t] /\ phase[s] = "open" /\ Goto(t, "remove")
  /\ at' = [at EXCEPT ![t] = s] /\ closes' = [closes EXCEPT ![t] = TRUE]
  /\ UNCHANGED <<processes, slot, lock, cleanup, seats, files>>

(* shutdown_inner, which several threads may run for one seat: the first to *)
(* set socket_removed unlinks the file, and the others do not wait for it.  *)
RemoveSocketPath(t) ==
  /\ At(t, "remove")
  /\ IF phase[at[t]] = "open"
       THEN phase' = [phase EXCEPT ![at[t]] = "closing"] /\ Goto(t, "unlink")
       ELSE Goto(t, "join") /\ UNCHANGED phase
  /\ UNCHANGED <<processes, slot, lock, at, closes, cleanup, owner, single, files>>

UnlinkSocket(t) ==
  /\ At(t, "unlink") /\ Goto(t, "join")
  /\ files' = files \ {at[t]}
  /\ UNCHANGED <<processes, slot, lock, at, closes, cleanup, seats>>

(* The first to take the seat's threads joins them; who finds none returns. *)
TakeThreads(t) ==
  /\ At(t, "join")
  /\ IF phase[at[t]] = "closing"
       THEN /\ phase' = [phase EXCEPT ![at[t]] = "joining"] /\ Goto(t, "joining")
            /\ UNCHANGED <<lock, at, closes>>
       ELSE Return(t) /\ UNCHANGED phase
  /\ UNCHANGED <<processes, slot, cleanup, owner, single, files>>

JoinThreads(t) ==
  /\ At(t, "joining")
  /\ phase' = [phase EXCEPT ![at[t]] = "closed"]
  /\ Return(t)
  /\ UNCHANGED <<processes, slot, cleanup, owner, single, files>>

-----------------------------------------------------------------------------
Call(t) ==
  \/ CallSeat(t) \/ CallCreate(t) \/ Scan(t) \/ RemoveEntry(t) \/ Bind(t) \/ Start(t)
  \/ CallShutdown(t) \/ RemoveSocketPath(t) \/ UnlinkSocket(t) \/ TakeThreads(t) \/ JoinThreads(t)
  \/ \E s \in Seats : CheckEntry(t, s) \/ CallClose(t, s)

Next ==
  \/ \E h \in Hosts : EndHost(h) \/ \E p \in Pids : StartHost(h, p)
  \/ \E t \in Threads : Call(t)

Spec == Init /\ [][Next]_vars
-----------------------------------------------------------------------------
(* No clean-up takes the socket of a seat that serves, whichever process    *)
(* does it, and whatever pids were used again between looking at an entry   *)
(* and removing it (cleanup_stale_seat_sockets).                            *)
ServingSeatHasFile ==
  \A s \in Seats : phase[s] \in {"bound", "open"} /\ owner[s] \in up => s \in files

(* A process that runs has a file only for a seat it serves, is starting or *)
(* is closing: a create that fails leaves none, and neither does a seat     *)
(* that was closed (new_unstarted, start, shutdown_inner).                  *)
FilesAreServed ==
  \A s \in files : owner[s] \in up =>
    phase[s] = "open" \/ \E t \in Threads : HostOf[t] = owner[s] /\ at[t] = s

(* When a seat's socket is about to be bound, every file is gone that a     *)
(* process had left which had ended before the clean-up began, unless its   *)
(* pid came back to life before the clean-up got to that entry              *)
(* (cleanup_stale_seat_sockets).                                            *)
StaleFilesRemoved ==
  \A t \in Threads : Cleaned(t) => gone[t] \cap files = {}

(* A process never has two process-wide seats that serve.  While one is     *)
(* starting or serving, an earlier one can only be left in its last stage,  *)
(* with its threads being joined by a thread that had called close() on it  *)
(* itself: shutdown() does join what nobody else is joining before another  *)
(* seat can follow ("Keep the singleton lock until teardown finishes",      *)
(* shutdown).                                                               *)
OneSingleton ==
  \A s1, s2 \in Seats :
    (/\ s1 # s2 /\ single[s1] /\ single[s2]
     /\ owner[s1] = owner[s2] /\ owner[s1] \in up
     /\ phase[s1] \in {"bound", "open"} /\ phase[s2] \notin {"unborn", "closed"})
    => /\ phase[s2] = "joining"
       /\ \E t \in Threads : at[t] = s2 /\ pc[t] = "joining" /\ closes[t]
=============================================================================
