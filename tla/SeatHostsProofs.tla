--------------------------- MODULE SeatHostsProofs ----------------------------
(***************************************************************************)
(* Proofs about SeatHosts, for any processes, threads, pids and seats: no  *)
(* clean-up removes the socket of a seat that serves, a process that runs  *)
(* has no file left over, what was stale is removed, and a process has one *)
(* process-wide seat.                                                      *)
(***************************************************************************)
EXTENDS SeatHosts, TLAPS

-----------------------------------------------------------------------------
(* The inductive invariant, one operator for each thing it is about.        *)

AtSeat == {"start", "remove", "unlink", "join", "joining"}
Closing == {"closing", "joining", "closed"}

(* A thread in a call belongs to a process that runs, and works on a seat   *)
(* of that process.                                                         *)
CallFits(t) ==
  /\ pc[t] # "idle" => HostOf[t] \in up
  /\ at[t] # None <=> pc[t] \in AtSeat
  /\ at[t] # None => phase[at[t]] # "unborn" /\ owner[at[t]] = HostOf[t]

(* What phase the seat is in that a thread starts or closes.                *)
PhaseFits(t) ==
  /\ pc[t] = "start" => phase[at[t]] = "bound"
  /\ pc[t] = "remove" => phase[at[t]] # "bound"
  /\ pc[t] \in {"unlink", "join"} => phase[at[t]] \in Closing
  /\ pc[t] = "joining" => phase[at[t]] = "joining"

(* One thread starts a seat, and one joins its threads.                     *)
Alone(t) ==
  pc[t] \in {"start", "joining"} =>
    \A u \in Threads : at[u] = at[t] /\ pc[u] = pc[t] => u = t

(* The thread that has the mutex is in seat() or shutdown(), and whoever    *)
(* closes a seat is either that thread or in close().                       *)
LockFits(t) ==
  /\ pc[t] = "idle" => ~Holds(t) /\ ~closes[t]
  /\ closes[t] => ~Holds(t)
  /\ pc[t] \in AtSeat \ {"start"} => closes[t] \/ Holds(t)
  /\ pc[t] = "start" => ~closes[t] /\ (single[at[t]] <=> Holds(t))
  /\ pc[t] \in {"scan", "clean"} => ~closes[t]

(* A process that runs has a pid; the seat in its slot is its own, and has  *)
(* been started; the slot is empty while a thread has the mutex.            *)
HostFits(h) ==
  /\ h \in up => pid[h] # None
  /\ slot[h] # None =>
       /\ owner[slot[h]] = h /\ lock[h] = None
       /\ phase[slot[h]] \notin {"unborn", "bound"}
  /\ lock[h] # None => HostOf[lock[h]] = h

(* A seat that exists has an owner, which has been started; its file exists *)
(* as long as it serves, and after that only until it is unlinked.          *)
SeatFits(s) ==
  /\ phase[s] # "unborn" => owner[s] \in Hosts /\ pid[owner[s]] # None
  /\ s \in files => phase[s] # "unborn"
FileServed(s) ==
  phase[s] \in {"bound", "open"} /\ owner[s] \in up => s \in files
FileOwned(s) ==
  s \in files /\ owner[s] \in up =>
    phase[s] = "open" \/ \E t \in Threads : at[t] = s /\ pc[t] \in {"start", "unlink"}

(* An entry about to be removed belongs to a process that has ended, and    *)
(* none of the entries that were stale has been lost sight of.              *)
DoomedEnded(t) ==
  /\ doomed[t] # None => phase[doomed[t]] # "unborn" /\ owner[doomed[t]] \notin up
  /\ \A s \in todo[t] : phase[s] # "unborn"
GoneTracked(t) ==
  pc[t] = "clean" => \A s \in gone[t] :
    /\ phase[s] # "unborn" /\ owner[s] \notin up
    /\ s \in todo[t] => Stale(HostOf[t], s)
    /\ s \in files => s \in todo[t] \/ doomed[t] = s

(* A process-wide seat whose threads nobody has taken yet is in the slot or *)
(* with the thread that has the mutex; the threads of one that is further   *)
(* on are joined by somebody.                                               *)
Joined(s) ==
  phase[s] = "joining" /\ owner[s] \in up => \E t \in Threads : at[t] = s /\ pc[t] = "joining"
Tended(s) ==
  single[s] /\ owner[s] \in up /\ phase[s] \in {"bound", "open", "closing"} =>
    slot[owner[s]] = s \/ \E t \in Threads : at[t] = s /\ Holds(t)

IInv ==
  /\ TypeOK
  /\ \A t \in Threads : CallFits(t) /\ PhaseFits(t) /\ Alone(t) /\ LockFits(t)
                        /\ DoomedEnded(t) /\ GoneTracked(t)
  /\ \A h \in Hosts : HostFits(h)
  /\ \A s \in Seats : SeatFits(s) /\ FileServed(s) /\ FileOwned(s) /\ Joined(s) /\ Tended(s)


(* Types.                                                                   *)
LEMMA TypeKept ==
  ASSUME IInv, [Next]_vars PROVE TypeOK'
PROOF
<1> USE NoneAssumption, ThreadAssumption DEF IInv, TypeOK
<1>1. ASSUME NEW h \in Hosts, EndHost(h) PROVE TypeOK'
  BY <1>1 DEF EndHost, Cleared, seats
<1>2. ASSUME NEW h \in Hosts, NEW p \in Pids, StartHost(h, p) PROVE TypeOK'
  BY <1>2 DEF StartHost, cleanup, seats, PidInUse
<1>3. ASSUME NEW t \in Threads, CallSeat(t) PROVE TypeOK'
  BY <1>3 DEF CallSeat, At, Lock, Goto, processes, cleanup, seats
<1>4. ASSUME NEW t \in Threads, CallCreate(t) PROVE TypeOK'
  BY <1>4 DEF CallCreate, At, Goto, processes, cleanup, seats
<1>5. ASSUME NEW t \in Threads, Scan(t) PROVE TypeOK'
  BY <1>5 DEF Scan, At, Goto, processes, seats, Stale, PidInUse
<1>6. ASSUME NEW t \in Threads, NEW s \in Seats, CheckEntry(t, s) PROVE TypeOK'
  BY <1>6 DEF CheckEntry, At, processes, seats, Stale, PidInUse
<1>7. ASSUME NEW t \in Threads, RemoveEntry(t) PROVE TypeOK'
  BY <1>7 DEF RemoveEntry, At, processes, seats
<1>8. ASSUME NEW t \in Threads, Bind(t) PROVE TypeOK'
  <2>1. Cleaned(t) /\ gone' = [gone EXCEPT ![t] = {}] /\ UNCHANGED <<processes, slot, todo, doomed>>
    BY <1>8 DEF Bind
  <2>2. ASSUME NEW s \in Seats, NewSeat(t, s), files' = files \cup {s}, Goto(t, "start"),
               UNCHANGED <<lock, closes>>
        PROVE  TypeOK'
    BY <2>1, <2>2 DEF Cleaned, At, Goto, NewSeat, processes, Holds
  <2>3. CASE Return(t) /\ UNCHANGED <<seats, files>>
    BY <2>1, <2>3 DEF Cleaned, At, Goto, Return, processes, seats
  <2> QED BY <1>8, <2>2, <2>3 DEF Bind
<1>9. ASSUME NEW t \in Threads, Start(t) PROVE TypeOK'
  BY <1>9 DEF Start, At, Goto, Return, processes, cleanup
<1>10. ASSUME NEW t \in Threads, CallShutdown(t) PROVE TypeOK'
  BY <1>10 DEF CallShutdown, At, Goto, Lock, processes, cleanup, seats
<1>11. ASSUME NEW t \in Threads, NEW s \in Seats, CallClose(t, s) PROVE TypeOK'
  BY <1>11 DEF CallClose, At, Goto, processes, cleanup, seats
<1>12. ASSUME NEW t \in Threads, RemoveSocketPath(t) PROVE TypeOK'
  BY <1>12 DEF RemoveSocketPath, At, Goto, processes, cleanup
<1>13. ASSUME NEW t \in Threads, UnlinkSocket(t) PROVE TypeOK'
  BY <1>13 DEF UnlinkSocket, At, Goto, processes, cleanup, seats
<1>14. ASSUME NEW t \in Threads, TakeThreads(t) PROVE TypeOK'
  BY <1>14 DEF TakeThreads, At, Goto, Return, processes, cleanup
<1>15. ASSUME NEW t \in Threads, JoinThreads(t) PROVE TypeOK'
  BY <1>15 DEF JoinThreads, At, Goto, Return, processes, cleanup
<1>16. CASE UNCHANGED vars
  BY <1>16 DEF vars, processes, cleanup, seats
<1> QED BY <1>1, <1>2, <1>3, <1>4, <1>5, <1>6, <1>7, <1>8, <1>9, <1>10, <1>11, <1>12, <1>13, <1>14, <1>15, <1>16 DEF Next, Call

(* Calls belong to running processes and work on their own seats.           *)
LEMMA CallFitsKept ==
  ASSUME IInv, [Next]_vars, NEW m \in Threads PROVE CallFits(m)'
PROOF
<1> USE NoneAssumption, ThreadAssumption DEF IInv, TypeOK, CallFits, PhaseFits, HostFits, SeatFits, AtSeat
<1>1. ASSUME NEW h \in Hosts, EndHost(h) PROVE CallFits(m)'
  BY <1>1 DEF EndHost, Cleared, seats
<1>2. ASSUME NEW h \in Hosts, NEW p \in Pids, StartHost(h, p) PROVE CallFits(m)'
  BY <1>2 DEF StartHost, cleanup, seats, PidInUse
<1>3. ASSUME NEW t \in Threads, CallSeat(t) PROVE CallFits(m)'
  BY <1>3 DEF CallSeat, At, Lock, Goto, processes, cleanup, seats
<1>4. ASSUME NEW t \in Threads, CallCreate(t) PROVE CallFits(m)'
  BY <1>4 DEF CallCreate, At, Goto, processes, cleanup, seats
<1>5. ASSUME NEW t \in Threads, Scan(t) PROVE CallFits(m)'
  BY <1>5 DEF Scan, At, Goto, processes, seats, Stale, PidInUse
<1>6. ASSUME NEW t \in Threads, NEW s \in Seats, CheckEntry(t, s) PROVE CallFits(m)'
  BY <1>6 DEF CheckEntry, At, processes, seats, Stale, PidInUse
<1>7. ASSUME NEW t \in Threads, RemoveEntry(t) PROVE CallFits(m)'
  BY <1>7 DEF RemoveEntry, At, processes, seats
<1>8. ASSUME NEW t \in Threads, Bind(t) PROVE CallFits(m)'
  BY <1>8 DEF Bind, Cleaned, At, Goto, NewSeat, Return, processes, seats
<1>9. ASSUME NEW t \in Threads, Start(t) PROVE CallFits(m)'
  BY <1>9 DEF Start, At, Goto, Return, processes, cleanup
<1>10. ASSUME NEW t \in Threads, CallShutdown(t) PROVE CallFits(m)'
  BY <1>10 DEF CallShutdown, At, Goto, Lock, processes, cleanup, seats
<1>11. ASSUME NEW t \in Threads, NEW s \in Seats, CallClose(t, s) PROVE CallFits(m)'
  BY <1>11 DEF CallClose, At, Goto, processes, cleanup, seats
<1>12. ASSUME NEW t \in Threads, RemoveSocketPath(t) PROVE CallFits(m)'
  BY <1>12 DEF RemoveSocketPath, At, Goto, processes, cleanup
<1>13. ASSUME NEW t \in Threads, UnlinkSocket(t) PROVE CallFits(m)'
  BY <1>13 DEF UnlinkSocket, At, Goto, processes, cleanup, seats
<1>14. ASSUME NEW t \in Threads, TakeThreads(t) PROVE CallFits(m)'
  BY <1>14 DEF TakeThreads, At, Goto, Return, processes, cleanup
<1>15. ASSUME NEW t \in Threads, JoinThreads(t) PROVE CallFits(m)'
  BY <1>15 DEF JoinThreads, At, Goto, Return, processes, cleanup
<1>16. CASE UNCHANGED vars
  BY <1>16 DEF vars, processes, cleanup, seats
<1> QED BY <1>1, <1>2, <1>3, <1>4, <1>5, <1>6, <1>7, <1>8, <1>9, <1>10, <1>11, <1>12, <1>13, <1>14, <1>15, <1>16 DEF Next, Call

(* Only the one thread that starts or joins a seat changes what it relies on. *)
LEMMA PhaseFitsKept ==
  ASSUME IInv, [Next]_vars, NEW m \in Threads PROVE PhaseFits(m)'
PROOF
<1> USE NoneAssumption, ThreadAssumption DEF IInv, TypeOK, CallFits, PhaseFits, Alone, HostFits, AtSeat, Closing
<1>1. ASSUME NEW h \in Hosts, EndHost(h) PROVE PhaseFits(m)'
  BY <1>1 DEF EndHost, Cleared, seats
<1>2. ASSUME NEW h \in Hosts, NEW p \in Pids, StartHost(h, p) PROVE PhaseFits(m)'
  BY <1>2 DEF StartHost, cleanup, seats, PidInUse
<1>3. ASSUME NEW t \in Threads, CallSeat(t) PROVE PhaseFits(m)'
  BY <1>3 DEF CallSeat, At, Lock, Goto, processes, cleanup, seats
<1>4. ASSUME NEW t \in Threads, CallCreate(t) PROVE PhaseFits(m)'
  BY <1>4 DEF CallCreate, At, Goto, processes, cleanup, seats
<1>5. ASSUME NEW t \in Threads, Scan(t) PROVE PhaseFits(m)'
  BY <1>5 DEF Scan, At, Goto, processes, seats, Stale, PidInUse
<1>6. ASSUME NEW t \in Threads, NEW s \in Seats, CheckEntry(t, s) PROVE PhaseFits(m)'
  BY <1>6 DEF CheckEntry, At, processes, seats, Stale, PidInUse
<1>7. ASSUME NEW t \in Threads, RemoveEntry(t) PROVE PhaseFits(m)'
  BY <1>7 DEF RemoveEntry, At, processes, seats
<1>8. ASSUME NEW t \in Threads, Bind(t) PROVE PhaseFits(m)'
  BY <1>8 DEF Bind, Cleaned, At, Goto, NewSeat, Return, processes, seats
<1>9. ASSUME NEW t \in Threads, Start(t) PROVE PhaseFits(m)'
  BY <1>9 DEF Start, At, Goto, Return, processes, cleanup
<1>10. ASSUME NEW t \in Threads, CallShutdown(t) PROVE PhaseFits(m)'
  BY <1>10 DEF CallShutdown, At, Goto, Lock, processes, cleanup, seats
<1>11. ASSUME NEW t \in Threads, NEW s \in Seats, CallClose(t, s) PROVE PhaseFits(m)'
  BY <1>11 DEF CallClose, At, Goto, processes, cleanup, seats
<1>12. ASSUME NEW t \in Threads, RemoveSocketPath(t) PROVE PhaseFits(m)'
  BY <1>12 DEF RemoveSocketPath, At, Goto, processes, cleanup
<1>13. ASSUME NEW t \in Threads, UnlinkSocket(t) PROVE PhaseFits(m)'
  BY <1>13 DEF UnlinkSocket, At, Goto, processes, cleanup, seats
<1>14. ASSUME NEW t \in Threads, TakeThreads(t) PROVE PhaseFits(m)'
  BY <1>14 DEF TakeThreads, At, Goto, Return, processes, cleanup
<1>15. ASSUME NEW t \in Threads, JoinThreads(t) PROVE PhaseFits(m)'
  BY <1>15 DEF JoinThreads, At, Goto, Return, processes, cleanup
<1>16. CASE UNCHANGED vars
  BY <1>16 DEF vars, processes, cleanup, seats
<1> QED BY <1>1, <1>2, <1>3, <1>4, <1>5, <1>6, <1>7, <1>8, <1>9, <1>10, <1>11, <1>12, <1>13, <1>14, <1>15, <1>16 DEF Next, Call

(* A seat is started by its creator, and joined by whoever takes its threads. *)
LEMMA AloneKept ==
  ASSUME IInv, [Next]_vars, NEW m \in Threads PROVE Alone(m)'
PROOF
<1> USE NoneAssumption, ThreadAssumption DEF IInv, TypeOK, CallFits, PhaseFits, Alone, AtSeat, Closing
<1>1. ASSUME NEW h \in Hosts, EndHost(h) PROVE Alone(m)'
  BY <1>1 DEF EndHost, Cleared, seats
<1>2. ASSUME NEW h \in Hosts, NEW p \in Pids, StartHost(h, p) PROVE Alone(m)'
  BY <1>2 DEF StartHost, cleanup, seats, PidInUse
<1>3. ASSUME NEW t \in Threads, CallSeat(t) PROVE Alone(m)'
  BY <1>3 DEF CallSeat, At, Lock, Goto, processes, cleanup, seats
<1>4. ASSUME NEW t \in Threads, CallCreate(t) PROVE Alone(m)'
  BY <1>4 DEF CallCreate, At, Goto, processes, cleanup, seats
<1>5. ASSUME NEW t \in Threads, Scan(t) PROVE Alone(m)'
  BY <1>5 DEF Scan, At, Goto, processes, seats, Stale, PidInUse
<1>6. ASSUME NEW t \in Threads, NEW s \in Seats, CheckEntry(t, s) PROVE Alone(m)'
  BY <1>6 DEF CheckEntry, At, processes, seats, Stale, PidInUse
<1>7. ASSUME NEW t \in Threads, RemoveEntry(t) PROVE Alone(m)'
  BY <1>7 DEF RemoveEntry, At, processes, seats
<1>8. ASSUME NEW t \in Threads, Bind(t) PROVE Alone(m)'
  BY <1>8 DEF Bind, Cleaned, At, Goto, NewSeat, Return, processes, seats
<1>9. ASSUME NEW t \in Threads, Start(t) PROVE Alone(m)'
  BY <1>9 DEF Start, At, Goto, Return, processes, cleanup
<1>10. ASSUME NEW t \in Threads, CallShutdown(t) PROVE Alone(m)'
  BY <1>10 DEF CallShutdown, At, Goto, Lock, processes, cleanup, seats
<1>11. ASSUME NEW t \in Threads, NEW s \in Seats, CallClose(t, s) PROVE Alone(m)'
  BY <1>11 DEF CallClose, At, Goto, processes, cleanup, seats
<1>12. ASSUME NEW t \in Threads, RemoveSocketPath(t) PROVE Alone(m)'
  BY <1>12 DEF RemoveSocketPath, At, Goto, processes, cleanup
<1>13. ASSUME NEW t \in Threads, UnlinkSocket(t) PROVE Alone(m)'
  BY <1>13 DEF UnlinkSocket, At, Goto, processes, cleanup, seats
<1>14. ASSUME NEW t \in Threads, TakeThreads(t) PROVE Alone(m)'
  BY <1>14 DEF TakeThreads, At, Goto, Return, processes, cleanup
<1>15. ASSUME NEW t \in Threads, JoinThreads(t) PROVE Alone(m)'
  BY <1>15 DEF JoinThreads, At, Goto, Return, processes, cleanup
<1>16. CASE UNCHANGED vars
  BY <1>16 DEF vars, processes, cleanup, seats
<1> QED BY <1>1, <1>2, <1>3, <1>4, <1>5, <1>6, <1>7, <1>8, <1>9, <1>10, <1>11, <1>12, <1>13, <1>14, <1>15, <1>16 DEF Next, Call

(* The mutex is taken by seat() and shutdown() only, and given back.        *)
LEMMA LockFitsKept ==
  ASSUME IInv, [Next]_vars, NEW m \in Threads PROVE LockFits(m)'
PROOF
<1> USE NoneAssumption, ThreadAssumption DEF IInv, TypeOK, CallFits, LockFits, HostFits, AtSeat, Holds
<1>1. ASSUME NEW h \in Hosts, EndHost(h) PROVE LockFits(m)'
  BY <1>1 DEF EndHost, Cleared, seats
<1>2. ASSUME NEW h \in Hosts, NEW p \in Pids, StartHost(h, p) PROVE LockFits(m)'
  BY <1>2 DEF StartHost, cleanup, seats, PidInUse
<1>3. ASSUME NEW t \in Threads, CallSeat(t) PROVE LockFits(m)'
  BY <1>3 DEF CallSeat, At, Lock, Goto, processes, cleanup, seats
<1>4. ASSUME NEW t \in Threads, CallCreate(t) PROVE LockFits(m)'
  BY <1>4 DEF CallCreate, At, Goto, processes, cleanup, seats
<1>5. ASSUME NEW t \in Threads, Scan(t) PROVE LockFits(m)'
  BY <1>5 DEF Scan, At, Goto, processes, seats, Stale, PidInUse
<1>6. ASSUME NEW t \in Threads, NEW s \in Seats, CheckEntry(t, s) PROVE LockFits(m)'
  BY <1>6 DEF CheckEntry, At, processes, seats, Stale, PidInUse
<1>7. ASSUME NEW t \in Threads, RemoveEntry(t) PROVE LockFits(m)'
  BY <1>7 DEF RemoveEntry, At, processes, seats
<1>8. ASSUME NEW t \in Threads, Bind(t) PROVE LockFits(m)'
  <2>1. Cleaned(t) /\ gone' = [gone EXCEPT ![t] = {}] /\ UNCHANGED <<processes, slot, todo, doomed>>
    BY <1>8 DEF Bind
  <2>2. ASSUME NEW s \in Seats, NewSeat(t, s), files' = files \cup {s}, Goto(t, "start"),
               UNCHANGED <<lock, closes>>
        PROVE  LockFits(m)'
    <3>1. single'[s] = (lock[HostOf[t]] = t)
      BY <2>2 DEF NewSeat
    <3>2. single'[s] <=> Holds(t)
      BY <3>1, Zenon DEF Holds
    <3>3. pc'[t] = "start" /\ at'[t] = s
      BY <2>1, <2>2 DEF Goto, NewSeat
    <3>4. ~closes[t]
      BY <2>1 DEF Cleaned, At
    <3>5. Holds(m)' <=> Holds(m)
      BY <2>2
    <3>6. CASE m = t
      BY <2>2, <3>2, <3>3, <3>4, <3>5, <3>6
    <3>7. CASE m # t
      <4>1. pc'[m] = pc[m] /\ at'[m] = at[m] /\ closes'[m] = closes[m]
        BY <2>2, <3>7 DEF Goto, NewSeat
      <4>2. at[m] # None => single'[at[m]] = single[at[m]]
        BY <2>2 DEF NewSeat
      <4> QED BY <3>5, <4>1, <4>2
    <3> QED BY <3>6, <3>7
  <2>3. CASE Return(t) /\ UNCHANGED <<seats, files>>
    BY <2>1, <2>3 DEF Cleaned, At, Goto, Return, processes, seats
  <2> QED BY <1>8, <2>2, <2>3 DEF Bind
<1>9. ASSUME NEW t \in Threads, Start(t) PROVE LockFits(m)'
  BY <1>9 DEF Start, At, Goto, Return, processes, cleanup
<1>10. ASSUME NEW t \in Threads, CallShutdown(t) PROVE LockFits(m)'
  BY <1>10 DEF CallShutdown, At, Goto, Lock, processes, cleanup, seats
<1>11. ASSUME NEW t \in Threads, NEW s \in Seats, CallClose(t, s) PROVE LockFits(m)'
  BY <1>11 DEF CallClose, At, Goto, processes, cleanup, seats
<1>12. ASSUME NEW t \in Threads, RemoveSocketPath(t) PROVE LockFits(m)'
  BY <1>12 DEF RemoveSocketPath, At, Goto, processes, cleanup
<1>13. ASSUME NEW t \in Threads, UnlinkSocket(t) PROVE LockFits(m)'
  BY <1>13 DEF UnlinkSocket, At, Goto, processes, cleanup, seats
<1>14. ASSUME NEW t \in Threads, TakeThreads(t) PROVE LockFits(m)'
  BY <1>14 DEF TakeThreads, At, Goto, Return, processes, cleanup
<1>15. ASSUME NEW t \in Threads, JoinThreads(t) PROVE LockFits(m)'
  BY <1>15 DEF JoinThreads, At, Goto, Return, processes, cleanup
<1>16. CASE UNCHANGED vars
  BY <1>16 DEF vars, processes, cleanup, seats
<1> QED BY <1>1, <1>2, <1>3, <1>4, <1>5, <1>6, <1>7, <1>8, <1>9, <1>10, <1>11, <1>12, <1>13, <1>14, <1>15, <1>16 DEF Next, Call

(* The slot.                                                                *)
LEMMA HostFitsKept ==
  ASSUME IInv, [Next]_vars, NEW m \in Hosts PROVE HostFits(m)'
PROOF
<1> USE NoneAssumption, ThreadAssumption DEF IInv, TypeOK, CallFits, PhaseFits, HostFits, SeatFits, LockFits, AtSeat, Holds
<1>1. ASSUME NEW h \in Hosts, EndHost(h) PROVE HostFits(m)'
  BY <1>1 DEF EndHost, Cleared, seats
<1>2. ASSUME NEW h \in Hosts, NEW p \in Pids, StartHost(h, p) PROVE HostFits(m)'
  BY <1>2 DEF StartHost, cleanup, seats, PidInUse
<1>3. ASSUME NEW t \in Threads, CallSeat(t) PROVE HostFits(m)'
  BY <1>3 DEF CallSeat, At, Lock, Goto, processes, cleanup, seats
<1>4. ASSUME NEW t \in Threads, CallCreate(t) PROVE HostFits(m)'
  BY <1>4 DEF CallCreate, At, Goto, processes, cleanup, seats
<1>5. ASSUME NEW t \in Threads, Scan(t) PROVE HostFits(m)'
  BY <1>5 DEF Scan, At, Goto, processes, seats, Stale, PidInUse
<1>6. ASSUME NEW t \in Threads, NEW s \in Seats, CheckEntry(t, s) PROVE HostFits(m)'
  BY <1>6 DEF CheckEntry, At, processes, seats, Stale, PidInUse
<1>7. ASSUME NEW t \in Threads, RemoveEntry(t) PROVE HostFits(m)'
  BY <1>7 DEF RemoveEntry, At, processes, seats
<1>8. ASSUME NEW t \in Threads, Bind(t) PROVE HostFits(m)'
  BY <1>8 DEF Bind, Cleaned, At, Goto, NewSeat, Return, processes, seats
<1>9. ASSUME NEW t \in Threads, Start(t) PROVE HostFits(m)'
  BY <1>9 DEF Start, At, Goto, Return, processes, cleanup
<1>10. ASSUME NEW t \in Threads, CallShutdown(t) PROVE HostFits(m)'
  BY <1>10 DEF CallShutdown, At, Goto, Lock, processes, cleanup, seats
<1>11. ASSUME NEW t \in Threads, NEW s \in Seats, CallClose(t, s) PROVE HostFits(m)'
  BY <1>11 DEF CallClose, At, Goto, processes, cleanup, seats
<1>12. ASSUME NEW t \in Threads, RemoveSocketPath(t) PROVE HostFits(m)'
  BY <1>12 DEF RemoveSocketPath, At, Goto, processes, cleanup
<1>13. ASSUME NEW t \in Threads, UnlinkSocket(t) PROVE HostFits(m)'
  BY <1>13 DEF UnlinkSocket, At, Goto, processes, cleanup, seats
<1>14. ASSUME NEW t \in Threads, TakeThreads(t) PROVE HostFits(m)'
  BY <1>14 DEF TakeThreads, At, Goto, Return, processes, cleanup
<1>15. ASSUME NEW t \in Threads, JoinThreads(t) PROVE HostFits(m)'
  BY <1>15 DEF JoinThreads, At, Goto, Return, processes, cleanup
<1>16. CASE UNCHANGED vars
  BY <1>16 DEF vars, processes, cleanup, seats
<1> QED BY <1>1, <1>2, <1>3, <1>4, <1>5, <1>6, <1>7, <1>8, <1>9, <1>10, <1>11, <1>12, <1>13, <1>14, <1>15, <1>16 DEF Next, Call

(* Seats have owners that were started.                                     *)
LEMMA SeatFitsKept ==
  ASSUME IInv, [Next]_vars, NEW m \in Seats PROVE SeatFits(m)'
PROOF
<1> USE NoneAssumption, ThreadAssumption DEF IInv, TypeOK, CallFits, HostFits, SeatFits
<1>1. ASSUME NEW h \in Hosts, EndHost(h) PROVE SeatFits(m)'
  BY <1>1 DEF EndHost, Cleared, seats
<1>2. ASSUME NEW h \in Hosts, NEW p \in Pids, StartHost(h, p) PROVE SeatFits(m)'
  BY <1>2 DEF StartHost, cleanup, seats, PidInUse
<1>3. ASSUME NEW t \in Threads, CallSeat(t) PROVE SeatFits(m)'
  BY <1>3 DEF CallSeat, At, Lock, Goto, processes, cleanup, seats
<1>4. ASSUME NEW t \in Threads, CallCreate(t) PROVE SeatFits(m)'
  BY <1>4 DEF CallCreate, At, Goto, processes, cleanup, seats
<1>5. ASSUME NEW t \in Threads, Scan(t) PROVE SeatFits(m)'
  BY <1>5 DEF Scan, At, Goto, processes, seats, Stale, PidInUse
<1>6. ASSUME NEW t \in Threads, NEW s \in Seats, CheckEntry(t, s) PROVE SeatFits(m)'
  BY <1>6 DEF CheckEntry, At, processes, seats, Stale, PidInUse
<1>7. ASSUME NEW t \in Threads, RemoveEntry(t) PROVE SeatFits(m)'
  BY <1>7 DEF RemoveEntry, At, processes, seats
<1>8. ASSUME NEW t \in Threads, Bind(t) PROVE SeatFits(m)'
  BY <1>8 DEF Bind, Cleaned, At, Goto, NewSeat, Return, processes, seats
<1>9. ASSUME NEW t \in Threads, Start(t) PROVE SeatFits(m)'
  BY <1>9 DEF Start, At, Goto, Return, processes, cleanup
<1>10. ASSUME NEW t \in Threads, CallShutdown(t) PROVE SeatFits(m)'
  BY <1>10 DEF CallShutdown, At, Goto, Lock, processes, cleanup, seats
<1>11. ASSUME NEW t \in Threads, NEW s \in Seats, CallClose(t, s) PROVE SeatFits(m)'
  BY <1>11 DEF CallClose, At, Goto, processes, cleanup, seats
<1>12. ASSUME NEW t \in Threads, RemoveSocketPath(t) PROVE SeatFits(m)'
  BY <1>12 DEF RemoveSocketPath, At, Goto, processes, cleanup
<1>13. ASSUME NEW t \in Threads, UnlinkSocket(t) PROVE SeatFits(m)'
  BY <1>13 DEF UnlinkSocket, At, Goto, processes, cleanup, seats
<1>14. ASSUME NEW t \in Threads, TakeThreads(t) PROVE SeatFits(m)'
  BY <1>14 DEF TakeThreads, At, Goto, Return, processes, cleanup
<1>15. ASSUME NEW t \in Threads, JoinThreads(t) PROVE SeatFits(m)'
  BY <1>15 DEF JoinThreads, At, Goto, Return, processes, cleanup
<1>16. CASE UNCHANGED vars
  BY <1>16 DEF vars, processes, cleanup, seats
<1> QED BY <1>1, <1>2, <1>3, <1>4, <1>5, <1>6, <1>7, <1>8, <1>9, <1>10, <1>11, <1>12, <1>13, <1>14, <1>15, <1>16 DEF Next, Call

(* The socket of a seat that serves stays.                                  *)
LEMMA FileServedKept ==
  ASSUME IInv, [Next]_vars, NEW m \in Seats PROVE FileServed(m)'
PROOF
<1> USE NoneAssumption, ThreadAssumption DEF IInv, TypeOK, CallFits, PhaseFits, HostFits, SeatFits, FileServed, DoomedEnded, AtSeat, Closing
<1>1. ASSUME NEW h \in Hosts, EndHost(h) PROVE FileServed(m)'
  BY <1>1 DEF EndHost, Cleared, seats
<1>2. ASSUME NEW h \in Hosts, NEW p \in Pids, StartHost(h, p) PROVE FileServed(m)'
  BY <1>2 DEF StartHost, cleanup, seats, PidInUse
<1>3. ASSUME NEW t \in Threads, CallSeat(t) PROVE FileServed(m)'
  BY <1>3 DEF CallSeat, At, Lock, Goto, processes, cleanup, seats
<1>4. ASSUME NEW t \in Threads, CallCreate(t) PROVE FileServed(m)'
  BY <1>4 DEF CallCreate, At, Goto, processes, cleanup, seats
<1>5. ASSUME NEW t \in Threads, Scan(t) PROVE FileServed(m)'
  BY <1>5 DEF Scan, At, Goto, processes, seats, Stale, PidInUse
<1>6. ASSUME NEW t \in Threads, NEW s \in Seats, CheckEntry(t, s) PROVE FileServed(m)'
  BY <1>6 DEF CheckEntry, At, processes, seats, Stale, PidInUse
<1>7. ASSUME NEW t \in Threads, RemoveEntry(t) PROVE FileServed(m)'
  BY <1>7 DEF RemoveEntry, At, processes, seats
<1>8. ASSUME NEW t \in Threads, Bind(t) PROVE FileServed(m)'
  BY <1>8 DEF Bind, Cleaned, At, Goto, NewSeat, Return, processes, seats
<1>9. ASSUME NEW t \in Threads, Start(t) PROVE FileServed(m)'
  BY <1>9 DEF Start, At, Goto, Return, processes, cleanup
<1>10. ASSUME NEW t \in Threads, CallShutdown(t) PROVE FileServed(m)'
  BY <1>10 DEF CallShutdown, At, Goto, Lock, processes, cleanup, seats
<1>11. ASSUME NEW t \in Threads, NEW s \in Seats, CallClose(t, s) PROVE FileServed(m)'
  BY <1>11 DEF CallClose, At, Goto, processes, cleanup, seats
<1>12. ASSUME NEW t \in Threads, RemoveSocketPath(t) PROVE FileServed(m)'
  BY <1>12 DEF RemoveSocketPath, At, Goto, processes, cleanup
<1>13. ASSUME NEW t \in Threads, UnlinkSocket(t) PROVE FileServed(m)'
  BY <1>13 DEF UnlinkSocket, At, Goto, processes, cleanup, seats
<1>14. ASSUME NEW t \in Threads, TakeThreads(t) PROVE FileServed(m)'
  BY <1>14 DEF TakeThreads, At, Goto, Return, processes, cleanup
<1>15. ASSUME NEW t \in Threads, JoinThreads(t) PROVE FileServed(m)'
  BY <1>15 DEF JoinThreads, At, Goto, Return, processes, cleanup
<1>16. CASE UNCHANGED vars
  BY <1>16 DEF vars, processes, cleanup, seats
<1> QED BY <1>1, <1>2, <1>3, <1>4, <1>5, <1>6, <1>7, <1>8, <1>9, <1>10, <1>11, <1>12, <1>13, <1>14, <1>15, <1>16 DEF Next, Call

(* No other file of a process that runs stays.                              *)
LEMMA FileOwnedKept ==
  ASSUME IInv, [Next]_vars, NEW m \in Seats PROVE FileOwned(m)'
PROOF
<1> USE NoneAssumption, ThreadAssumption DEF IInv, TypeOK, CallFits, PhaseFits, HostFits, SeatFits, FileOwned, AtSeat, Closing
<1>1. ASSUME NEW h \in Hosts, EndHost(h) PROVE FileOwned(m)'
  BY <1>1 DEF EndHost, Cleared, seats
<1>2. ASSUME NEW h \in Hosts, NEW p \in Pids, StartHost(h, p) PROVE FileOwned(m)'
  BY <1>2 DEF StartHost, cleanup, seats, PidInUse
<1>3. ASSUME NEW t \in Threads, CallSeat(t) PROVE FileOwned(m)'
  BY <1>3 DEF CallSeat, At, Lock, Goto, processes, cleanup, seats
<1>4. ASSUME NEW t \in Threads, CallCreate(t) PROVE FileOwned(m)'
  BY <1>4 DEF CallCreate, At, Goto, processes, cleanup, seats
<1>5. ASSUME NEW t \in Threads, Scan(t) PROVE FileOwned(m)'
  BY <1>5 DEF Scan, At, Goto, processes, seats, Stale, PidInUse
<1>6. ASSUME NEW t \in Threads, NEW s \in Seats, CheckEntry(t, s) PROVE FileOwned(m)'
  BY <1>6 DEF CheckEntry, At, processes, seats, Stale, PidInUse
<1>7. ASSUME NEW t \in Threads, RemoveEntry(t) PROVE FileOwned(m)'
  BY <1>7 DEF RemoveEntry, At, processes, seats
<1>8. ASSUME NEW t \in Threads, Bind(t) PROVE FileOwned(m)'
  BY <1>8 DEF Bind, Cleaned, At, Goto, NewSeat, Return, processes, seats
<1>9. ASSUME NEW t \in Threads, Start(t) PROVE FileOwned(m)'
  BY <1>9 DEF Start, At, Goto, Return, processes, cleanup
<1>10. ASSUME NEW t \in Threads, CallShutdown(t) PROVE FileOwned(m)'
  BY <1>10 DEF CallShutdown, At, Goto, Lock, processes, cleanup, seats
<1>11. ASSUME NEW t \in Threads, NEW s \in Seats, CallClose(t, s) PROVE FileOwned(m)'
  BY <1>11 DEF CallClose, At, Goto, processes, cleanup, seats
<1>12. ASSUME NEW t \in Threads, RemoveSocketPath(t) PROVE FileOwned(m)'
  BY <1>12 DEF RemoveSocketPath, At, Goto, processes, cleanup
<1>13. ASSUME NEW t \in Threads, UnlinkSocket(t) PROVE FileOwned(m)'
  BY <1>13 DEF UnlinkSocket, At, Goto, processes, cleanup, seats
<1>14. ASSUME NEW t \in Threads, TakeThreads(t) PROVE FileOwned(m)'
  BY <1>14 DEF TakeThreads, At, Goto, Return, processes, cleanup
<1>15. ASSUME NEW t \in Threads, JoinThreads(t) PROVE FileOwned(m)'
  BY <1>15 DEF JoinThreads, At, Goto, Return, processes, cleanup
<1>16. CASE UNCHANGED vars
  BY <1>16 DEF vars, processes, cleanup, seats
<1> QED BY <1>1, <1>2, <1>3, <1>4, <1>5, <1>6, <1>7, <1>8, <1>9, <1>10, <1>11, <1>12, <1>13, <1>14, <1>15, <1>16 DEF Next, Call

(* What is about to be removed stays without an owner: a pid that comes back *)
(* is another process.                                                      *)
LEMMA DoomedEndedKept ==
  ASSUME IInv, [Next]_vars, NEW m \in Threads PROVE DoomedEnded(m)'
PROOF
<1> USE NoneAssumption, ThreadAssumption DEF IInv, TypeOK, CallFits, HostFits, SeatFits, DoomedEnded, FilePid
<1>1. ASSUME NEW h \in Hosts, EndHost(h) PROVE DoomedEnded(m)'
  BY <1>1 DEF EndHost, Cleared, seats
<1>2. ASSUME NEW h \in Hosts, NEW p \in Pids, StartHost(h, p) PROVE DoomedEnded(m)'
  BY <1>2 DEF StartHost, cleanup, seats, PidInUse
<1>3. ASSUME NEW t \in Threads, CallSeat(t) PROVE DoomedEnded(m)'
  BY <1>3 DEF CallSeat, At, Lock, Goto, processes, cleanup, seats
<1>4. ASSUME NEW t \in Threads, CallCreate(t) PROVE DoomedEnded(m)'
  BY <1>4 DEF CallCreate, At, Goto, processes, cleanup, seats
<1>5. ASSUME NEW t \in Threads, Scan(t) PROVE DoomedEnded(m)'
  BY <1>5 DEF Scan, At, Goto, processes, seats, Stale, PidInUse
<1>6. ASSUME NEW t \in Threads, NEW s \in Seats, CheckEntry(t, s) PROVE DoomedEnded(m)'
  BY <1>6 DEF CheckEntry, At, processes, seats, Stale, PidInUse
<1>7. ASSUME NEW t \in Threads, RemoveEntry(t) PROVE DoomedEnded(m)'
  BY <1>7 DEF RemoveEntry, At, processes, seats
<1>8. ASSUME NEW t \in Threads, Bind(t) PROVE DoomedEnded(m)'
  BY <1>8 DEF Bind, Cleaned, At, Goto, NewSeat, Return, processes, seats
<1>9. ASSUME NEW t \in Threads, Start(t) PROVE DoomedEnded(m)'
  BY <1>9 DEF Start, At, Goto, Return, processes, cleanup
<1>10. ASSUME NEW t \in Threads, CallShutdown(t) PROVE DoomedEnded(m)'
  BY <1>10 DEF CallShutdown, At, Goto, Lock, processes, cleanup, seats
<1>11. ASSUME NEW t \in Threads, NEW s \in Seats, CallClose(t, s) PROVE DoomedEnded(m)'
  BY <1>11 DEF CallClose, At, Goto, processes, cleanup, seats
<1>12. ASSUME NEW t \in Threads, RemoveSocketPath(t) PROVE DoomedEnded(m)'
  BY <1>12 DEF RemoveSocketPath, At, Goto, processes, cleanup
<1>13. ASSUME NEW t \in Threads, UnlinkSocket(t) PROVE DoomedEnded(m)'
  BY <1>13 DEF UnlinkSocket, At, Goto, processes, cleanup, seats
<1>14. ASSUME NEW t \in Threads, TakeThreads(t) PROVE DoomedEnded(m)'
  BY <1>14 DEF TakeThreads, At, Goto, Return, processes, cleanup
<1>15. ASSUME NEW t \in Threads, JoinThreads(t) PROVE DoomedEnded(m)'
  BY <1>15 DEF JoinThreads, At, Goto, Return, processes, cleanup
<1>16. CASE UNCHANGED vars
  BY <1>16 DEF vars, processes, cleanup, seats
<1> QED BY <1>1, <1>2, <1>3, <1>4, <1>5, <1>6, <1>7, <1>8, <1>9, <1>10, <1>11, <1>12, <1>13, <1>14, <1>15, <1>16 DEF Next, Call

(* No stale entry is lost sight of.                                         *)
LEMMA GoneTrackedKept ==
  ASSUME IInv, [Next]_vars, NEW m \in Threads PROVE GoneTracked(m)'
PROOF
<1> USE NoneAssumption, ThreadAssumption DEF IInv, TypeOK, CallFits, HostFits, SeatFits, GoneTracked, Stale, PidInUse, FilePid
<1>1. ASSUME NEW h \in Hosts, EndHost(h) PROVE GoneTracked(m)'
  BY <1>1 DEF EndHost, Cleared, seats
<1>2. ASSUME NEW h \in Hosts, NEW p \in Pids, StartHost(h, p) PROVE GoneTracked(m)'
  BY <1>2 DEF StartHost, cleanup, seats, PidInUse
<1>3. ASSUME NEW t \in Threads, CallSeat(t) PROVE GoneTracked(m)'
  BY <1>3 DEF CallSeat, At, Lock, Goto, processes, cleanup, seats
<1>4. ASSUME NEW t \in Threads, CallCreate(t) PROVE GoneTracked(m)'
  BY <1>4 DEF CallCreate, At, Goto, processes, cleanup, seats
<1>5. ASSUME NEW t \in Threads, Scan(t) PROVE GoneTracked(m)'
  BY <1>5 DEF Scan, At, Goto, processes, seats, Stale, PidInUse
<1>6. ASSUME NEW t \in Threads, NEW s \in Seats, CheckEntry(t, s) PROVE GoneTracked(m)'
  BY <1>6 DEF CheckEntry, At, processes, seats, Stale, PidInUse
<1>7. ASSUME NEW t \in Threads, RemoveEntry(t) PROVE GoneTracked(m)'
  BY <1>7 DEF RemoveEntry, At, processes, seats
<1>8. ASSUME NEW t \in Threads, Bind(t) PROVE GoneTracked(m)'
  BY <1>8 DEF Bind, Cleaned, At, Goto, NewSeat, Return, processes, seats
<1>9. ASSUME NEW t \in Threads, Start(t) PROVE GoneTracked(m)'
  BY <1>9 DEF Start, At, Goto, Return, processes, cleanup
<1>10. ASSUME NEW t \in Threads, CallShutdown(t) PROVE GoneTracked(m)'
  BY <1>10 DEF CallShutdown, At, Goto, Lock, processes, cleanup, seats
<1>11. ASSUME NEW t \in Threads, NEW s \in Seats, CallClose(t, s) PROVE GoneTracked(m)'
  BY <1>11 DEF CallClose, At, Goto, processes, cleanup, seats
<1>12. ASSUME NEW t \in Threads, RemoveSocketPath(t) PROVE GoneTracked(m)'
  BY <1>12 DEF RemoveSocketPath, At, Goto, processes, cleanup
<1>13. ASSUME NEW t \in Threads, UnlinkSocket(t) PROVE GoneTracked(m)'
  BY <1>13 DEF UnlinkSocket, At, Goto, processes, cleanup, seats
<1>14. ASSUME NEW t \in Threads, TakeThreads(t) PROVE GoneTracked(m)'
  BY <1>14 DEF TakeThreads, At, Goto, Return, processes, cleanup
<1>15. ASSUME NEW t \in Threads, JoinThreads(t) PROVE GoneTracked(m)'
  BY <1>15 DEF JoinThreads, At, Goto, Return, processes, cleanup
<1>16. CASE UNCHANGED vars
  BY <1>16 DEF vars, processes, cleanup, seats
<1> QED BY <1>1, <1>2, <1>3, <1>4, <1>5, <1>6, <1>7, <1>8, <1>9, <1>10, <1>11, <1>12, <1>13, <1>14, <1>15, <1>16 DEF Next, Call

(* A seat whose threads were taken has a thread that joins them.            *)
LEMMA JoinedKept ==
  ASSUME IInv, [Next]_vars, NEW m \in Seats PROVE Joined(m)'
PROOF
<1> USE NoneAssumption, ThreadAssumption DEF IInv, TypeOK, CallFits, PhaseFits, Alone, HostFits, SeatFits, Joined, AtSeat
<1>1. ASSUME NEW h \in Hosts, EndHost(h) PROVE Joined(m)'
  BY <1>1 DEF EndHost, Cleared, seats
<1>2. ASSUME NEW h \in Hosts, NEW p \in Pids, StartHost(h, p) PROVE Joined(m)'
  BY <1>2 DEF StartHost, cleanup, seats, PidInUse
<1>3. ASSUME NEW t \in Threads, CallSeat(t) PROVE Joined(m)'
  BY <1>3 DEF CallSeat, At, Lock, Goto, processes, cleanup, seats
<1>4. ASSUME NEW t \in Threads, CallCreate(t) PROVE Joined(m)'
  BY <1>4 DEF CallCreate, At, Goto, processes, cleanup, seats
<1>5. ASSUME NEW t \in Threads, Scan(t) PROVE Joined(m)'
  BY <1>5 DEF Scan, At, Goto, processes, seats, Stale, PidInUse
<1>6. ASSUME NEW t \in Threads, NEW s \in Seats, CheckEntry(t, s) PROVE Joined(m)'
  BY <1>6 DEF CheckEntry, At, processes, seats, Stale, PidInUse
<1>7. ASSUME NEW t \in Threads, RemoveEntry(t) PROVE Joined(m)'
  BY <1>7 DEF RemoveEntry, At, processes, seats
<1>8. ASSUME NEW t \in Threads, Bind(t) PROVE Joined(m)'
  BY <1>8 DEF Bind, Cleaned, At, Goto, NewSeat, Return, processes, seats
<1>9. ASSUME NEW t \in Threads, Start(t) PROVE Joined(m)'
  BY <1>9 DEF Start, At, Goto, Return, processes, cleanup
<1>10. ASSUME NEW t \in Threads, CallShutdown(t) PROVE Joined(m)'
  BY <1>10 DEF CallShutdown, At, Goto, Lock, processes, cleanup, seats
<1>11. ASSUME NEW t \in Threads, NEW s \in Seats, CallClose(t, s) PROVE Joined(m)'
  BY <1>11 DEF CallClose, At, Goto, processes, cleanup, seats
<1>12. ASSUME NEW t \in Threads, RemoveSocketPath(t) PROVE Joined(m)'
  BY <1>12 DEF RemoveSocketPath, At, Goto, processes, cleanup
<1>13. ASSUME NEW t \in Threads, UnlinkSocket(t) PROVE Joined(m)'
  BY <1>13 DEF UnlinkSocket, At, Goto, processes, cleanup, seats
<1>14. ASSUME NEW t \in Threads, TakeThreads(t) PROVE Joined(m)'
  BY <1>14 DEF TakeThreads, At, Goto, Return, processes, cleanup
<1>15. ASSUME NEW t \in Threads, JoinThreads(t) PROVE Joined(m)'
  BY <1>15 DEF JoinThreads, At, Goto, Return, processes, cleanup
<1>16. CASE UNCHANGED vars
  BY <1>16 DEF vars, processes, cleanup, seats
<1> QED BY <1>1, <1>2, <1>3, <1>4, <1>5, <1>6, <1>7, <1>8, <1>9, <1>10, <1>11, <1>12, <1>13, <1>14, <1>15, <1>16 DEF Next, Call

(* The process-wide seat.                                                   *)
LEMMA TendedKept ==
  ASSUME IInv, [Next]_vars, NEW m \in Seats PROVE Tended(m)'
PROOF
<1> USE NoneAssumption, ThreadAssumption DEF IInv, TypeOK, CallFits, PhaseFits, Alone, LockFits, HostFits, SeatFits, Joined, Tended, AtSeat, Closing, Holds
<1>1. ASSUME NEW h \in Hosts, EndHost(h) PROVE Tended(m)'
  BY <1>1 DEF EndHost, Cleared, seats
<1>2. ASSUME NEW h \in Hosts, NEW p \in Pids, StartHost(h, p) PROVE Tended(m)'
  BY <1>2 DEF StartHost, cleanup, seats, PidInUse
<1>3. ASSUME NEW t \in Threads, CallSeat(t) PROVE Tended(m)'
  BY <1>3 DEF CallSeat, At, Lock, Goto, processes, cleanup, seats
<1>4. ASSUME NEW t \in Threads, CallCreate(t) PROVE Tended(m)'
  BY <1>4 DEF CallCreate, At, Goto, processes, cleanup, seats
<1>5. ASSUME NEW t \in Threads, Scan(t) PROVE Tended(m)'
  BY <1>5 DEF Scan, At, Goto, processes, seats, Stale, PidInUse
<1>6. ASSUME NEW t \in Threads, NEW s \in Seats, CheckEntry(t, s) PROVE Tended(m)'
  BY <1>6 DEF CheckEntry, At, processes, seats, Stale, PidInUse
<1>7. ASSUME NEW t \in Threads, RemoveEntry(t) PROVE Tended(m)'
  BY <1>7 DEF RemoveEntry, At, processes, seats
<1>8. ASSUME NEW t \in Threads, Bind(t) PROVE Tended(m)'
  BY <1>8 DEF Bind, Cleaned, At, Goto, NewSeat, Return, processes, seats
<1>9. ASSUME NEW t \in Threads, Start(t) PROVE Tended(m)'
  BY <1>9 DEF Start, At, Goto, Return, processes, cleanup
<1>10. ASSUME NEW t \in Threads, CallShutdown(t) PROVE Tended(m)'
  BY <1>10 DEF CallShutdown, At, Goto, Lock, processes, cleanup, seats
<1>11. ASSUME NEW t \in Threads, NEW s \in Seats, CallClose(t, s) PROVE Tended(m)'
  BY <1>11 DEF CallClose, At, Goto, processes, cleanup, seats
<1>12. ASSUME NEW t \in Threads, RemoveSocketPath(t) PROVE Tended(m)'
  BY <1>12 DEF RemoveSocketPath, At, Goto, processes, cleanup
<1>13. ASSUME NEW t \in Threads, UnlinkSocket(t) PROVE Tended(m)'
  BY <1>13 DEF UnlinkSocket, At, Goto, processes, cleanup, seats
<1>14. ASSUME NEW t \in Threads, TakeThreads(t) PROVE Tended(m)'
  BY <1>14 DEF TakeThreads, At, Goto, Return, processes, cleanup
<1>15. ASSUME NEW t \in Threads, JoinThreads(t) PROVE Tended(m)'
  BY <1>15 DEF JoinThreads, At, Goto, Return, processes, cleanup
<1>16. CASE UNCHANGED vars
  BY <1>16 DEF vars, processes, cleanup, seats
<1> QED BY <1>1, <1>2, <1>3, <1>4, <1>5, <1>6, <1>7, <1>8, <1>9, <1>10, <1>11, <1>12, <1>13, <1>14, <1>15, <1>16 DEF Next, Call

-----------------------------------------------------------------------------
(* The invariant holds initially and every step keeps it.                   *)
LEMMA InitFits == Init => IInv
PROOF
  BY NoneAssumption, ThreadAssumption
  DEF Init, IInv, TypeOK, CallFits, PhaseFits, Alone, LockFits, DoomedEnded, GoneTracked, HostFits,
      SeatFits, FileServed, FileOwned, Joined, Tended, AtSeat, Holds

LEMMA StepKeeps == IInv /\ [Next]_vars => IInv'
PROOF
<1> SUFFICES ASSUME IInv, [Next]_vars PROVE IInv'
  OBVIOUS
<1>1. \A m \in Threads : /\ CallFits(m)' /\ PhaseFits(m)' /\ Alone(m)' /\ LockFits(m)'
                         /\ DoomedEnded(m)' /\ GoneTracked(m)'
  BY CallFitsKept, PhaseFitsKept, AloneKept, LockFitsKept, DoomedEndedKept, GoneTrackedKept
<1>2. \A m \in Hosts : HostFits(m)'
  BY HostFitsKept
<1>3. \A m \in Seats : /\ SeatFits(m)' /\ FileServed(m)' /\ FileOwned(m)'
                       /\ Joined(m)' /\ Tended(m)'
  BY SeatFitsKept, FileServedKept, FileOwnedKept, JoinedKept, TendedKept
<1> QED BY TypeKept, <1>1, <1>2, <1>3, Zenon DEF IInv

(* IInv is an invariant: the theorems below only look at one state.         *)
THEOREM Invariance == Spec => []IInv
PROOF
  BY InitFits, StepKeeps, PTL DEF Spec

(* Every variable has its type, for any processes, threads, pids, seats.    *)
THEOREM TypeCorrect == Spec => []TypeOK
PROOF
<1>1. IInv => TypeOK
  BY DEF IInv
<1> QED BY <1>1, Invariance, PTL

(* cleanup_stale_seat_sockets never takes the file of a seat that serves,   *)
(* however pids are used again: what it is about to remove belongs to a     *)
(* process that has ended, and that one does not come back.                 *)
THEOREM ServingKeepsFile == Spec => []ServingSeatHasFile
PROOF
<1>1. IInv => ServingSeatHasFile
  BY DEF IInv, FileServed, ServingSeatHasFile
<1> QED BY <1>1, Invariance, PTL

(* A process that runs has files only for seats that it serves, starts or   *)
(* closes: nothing is left by a create that fails or by a closed seat.      *)
THEOREM NoFileLeft == Spec => []FilesAreServed
PROOF
<1>1. IInv => FilesAreServed
  BY NoneAssumption DEF IInv, TypeOK, FileOwned, CallFits, FilesAreServed
<1> QED BY <1>1, Invariance, PTL

(* The files of processes that had ended when the directory was read are    *)
(* gone before a seat's own socket is bound, except those whose pid came    *)
(* back to life before they were looked at.                                 *)
THEOREM StaleRemoved == Spec => []StaleFilesRemoved
PROOF
<1>1. IInv => StaleFilesRemoved
  BY NoneAssumption DEF IInv, TypeOK, GoneTracked, StaleFilesRemoved, Cleaned, At
<1> QED BY <1>1, Invariance, PTL

(* Never do two process-wide seats of a process serve: beside the one that  *)
(* does, another can only be in the hands of a close() that is joining its  *)
(* threads.                                                                 *)
THEOREM OneAtATime == Spec => []OneSingleton
PROOF
<1>1. IInv => OneSingleton
  <2> SUFFICES ASSUME IInv, NEW s1 \in Seats, NEW s2 \in Seats, s1 # s2, single[s1], single[s2],
                      owner[s1] = owner[s2], owner[s1] \in up,
                      phase[s1] \in {"bound", "open"}, phase[s2] \notin {"unborn", "closed"}
               PROVE  /\ phase[s2] = "joining"
                      /\ \E t \in Threads : at[t] = s2 /\ pc[t] = "joining" /\ closes[t]
    BY DEF OneSingleton
  <2> DEFINE h == owner[s1]
  <2>1. h \in Hosts /\ TypeOK /\ HostFits(h)
    BY DEF IInv, TypeOK
  <2>2. slot[h] = s1 \/ \E t \in Threads : at[t] = s1 /\ Holds(t)
    BY DEF IInv, Tended
  <2>3. \A t \in Threads : at[t] \in {s1, s2} /\ Holds(t) => lock[h] = t
    BY NoneAssumption DEF IInv, CallFits, Holds
  <2>4. ~ \E t \in Threads : at[t] = s2 /\ Holds(t)
    <3> SUFFICES ASSUME NEW t \in Threads, at[t] = s2, Holds(t) PROVE FALSE
      OBVIOUS
    <3>1. lock[h] = t /\ lock[h] # None
      BY <2>3, NoneAssumption
    <3>2. slot[h] # s1
      BY <2>1, <3>1, NoneAssumption DEF HostFits
    <3> QED BY <2>2, <2>3, <3>1, <3>2
  <2>5. slot[h] # s2
    <3> SUFFICES ASSUME slot[h] = s2 PROVE FALSE
      OBVIOUS
    <3>1. lock[h] = None
      BY <2>1, NoneAssumption DEF HostFits
    <3> QED BY <2>2, <2>3, <3>1, NoneAssumption
  <2>6. phase[s2] = "joining"
    <3>1. phase[s2] \notin {"bound", "open", "closing"}
      BY <2>4, <2>5 DEF IInv, Tended
    <3> QED BY <2>1, <3>1 DEF TypeOK
  <2>7. PICK t \in Threads : at[t] = s2 /\ pc[t] = "joining"
    BY <2>6 DEF IInv, Joined
  <2>8. closes[t]
    BY <2>4, <2>7 DEF IInv, LockFits, AtSeat
  <2> QED BY <2>6, <2>7, <2>8
<1> QED BY <1>1, Invariance, PTL

==============================================================================
