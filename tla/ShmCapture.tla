----------------------------- MODULE ShmCapture -----------------------------
(***************************************************************************)
(* Frame capture of one proxied connection (src/seat/capture.rs) and the   *)
(* shm bookkeeping it reads (track_request, track_created and destroyed in *)
(* src/seat/proxy.rs).                                                     *)
(*                                                                         *)
(* The proxy thread tracks pools, buffers and surfaces one request at a    *)
(* time under the conn lock.  A capture holds that lock from its first to  *)
(* its last statement: it visits the surfaces in the order of a hash map,  *)
(* keeps the best candidate, checks its bounds, maps the pool and copies   *)
(* the rows out.  Only what needs no lock goes on meanwhile: the app may   *)
(* enlarge the file behind a pool.                                         *)
(*                                                                         *)
(* Pixels, formats and dmabuf planes are left out.  A dmabuf buffer, a     *)
(* buffer of another kind and a null buffer all leave a surface with       *)
(* nothing to read.  Protocol objects may be created again once destroyed, *)
(* as nothing here remembers an object by its number.                      *)
(***************************************************************************)
EXTENDS Integers

CONSTANTS Surfaces, Buffers, Pools,   \* protocol objects
          Files,        \* the files behind the pools' descriptors
          IntMax,       \* the largest i32
          Sizes,        \* the sizes an app declares
          Layouts,      \* the layouts it gives a buffer
          MaxCommits,   \* bound on commit_count
          None

Int32 == -(IntMax + 1) .. IntMax
Layout == [offset : Int32, width : Int32, height : Int32, stride : Int32]

(* ShmFrame.  valid is no field of the code: it says whether the compositor *)
(* has accepted the buffer.                                                 *)
Frame == [file : Files, pool_size : Int32, layout : Layout, valid : BOOLEAN]
ShmPool == [file : Files, size : Int32]

ASSUME IntAssumption == IntMax \in Nat /\ MaxCommits \in Nat
ASSUME InputAssumption == Sizes \subseteq Int32 /\ Layouts \subseteq Layout
ASSUME NoneAssumption == None \notin Frame /\ None \notin ShmPool /\ None \notin Surfaces

VARIABLES
  pool,      \* Conn.shm_pools
  buffer,    \* Conn.buffers, the readable ones
  surfaces,  \* the keys of Conn.surfaces
  attached,  \* SurfaceState.attached
  commits,   \* SurfaceState.commit_count
  file,      \* how long each file is
  granted,   \* the pool sizes the compositor goes by, 0 if it has complained
  cap        \* the capture in progress, pc = "idle" when the lock is free

vars == <<pool, buffer, surfaces, attached, commits, file, granted, cap>>
conn == <<pool, buffer, surfaces, attached, commits>>

Stages == {"idle", "scan", "chosen", "mapped", "decoded"}
Holding == {"chosen", "mapped", "decoded"}   \* a frame has been chosen
Idle == [pc |-> "idle", todo |-> {}, best |-> None, reads |-> {}]

TypeOK ==
  /\ pool \in [Pools -> ShmPool \cup {None}]
  /\ buffer \in [Buffers -> Frame \cup {None}]
  /\ surfaces \subseteq Surfaces
  /\ attached \in [Surfaces -> Frame \cup {None}]
  /\ commits \in [Surfaces -> Nat]
  /\ file \in [Files -> Nat]
  /\ granted \in [Pools -> Int32]
  /\ cap \in [pc : Stages, todo : SUBSET Surfaces,
              best : Surfaces \cup {None}, reads : SUBSET (Int \X Int)]
  /\ cap.pc \in Holding => cap.best # None

Init ==
  /\ pool = [p \in Pools |-> None]
  /\ buffer = [b \in Buffers |-> None]
  /\ surfaces = {}
  /\ attached = [s \in Surfaces |-> None]
  /\ commits = [s \in Surfaces |-> 0]
  /\ file = [f \in Files |-> 0]
  /\ granted = [p \in Pools |-> 0]
  /\ cap = Idle

Unlocked == cap.pc = "idle"

-----------------------------------------------------------------------------
(* The app's files.  A descriptor outlives pools, buffers and surfaces, and  *)
(* a file that serves as a pool is never shortened.                          *)

AppGrowsFile(f, n) ==
  /\ n > file[f]
  /\ file' = [file EXCEPT ![f] = n]
  /\ UNCHANGED <<conn, granted, cap>>

-----------------------------------------------------------------------------
(* Requests, tracked under the lock before the compositor sees them.         *)

CreatePool(p, f, n) ==
  /\ Unlocked /\ pool[p] = None /\ n <= file[f]
  /\ pool' = [pool EXCEPT ![p] = [file |-> f, size |-> n]]
  /\ granted' = [granted EXCEPT ![p] = n]
  /\ UNCHANGED <<buffer, surfaces, attached, commits, file, cap>>

(* Mutant: a resize the proxy does not track. *)
ResizePoolUntracked(p, n) ==
  /\ Unlocked /\ pool[p] # None /\ n <= file[pool[p].file]
  /\ granted' = [granted EXCEPT ![p] = IF n >= @ THEN n ELSE 0]
  /\ UNCHANGED <<conn, file, cap>>

(* The proxy records any size.  The compositor lets a pool grow only.        *)
ResizePool(p, n) ==
  /\ Unlocked /\ pool[p] # None /\ n <= file[pool[p].file]
  /\ pool' = [pool EXCEPT ![p].size = n]
  /\ granted' = [granted EXCEPT ![p] = IF n >= @ THEN n ELSE 0]
  /\ UNCHANGED <<buffer, surfaces, attached, commits, file, cap>>

DestroyPool(p) ==
  /\ Unlocked /\ pool[p] # None
  /\ pool' = [pool EXCEPT ![p] = None]
  /\ UNCHANGED <<buffer, surfaces, attached, commits, file, granted, cap>>

Need(l) == l.offset + l.stride * l.height

(* What a compositor asks of a buffer in a pool of n bytes.                  *)
CompositorAccepts(l, n) ==
  /\ l.offset >= 0 /\ l.width > 0 /\ l.height > 0 /\ l.stride > 0
  /\ Need(l) <= n

(* The size of the pool is copied into the buffer.                           *)
CreateBuffer(b, p, l) ==
  /\ Unlocked /\ buffer[b] = None /\ pool[p] # None
  /\ buffer' = [buffer EXCEPT ![b] =
                  [file |-> pool[p].file, pool_size |-> pool[p].size, layout |-> l,
                   valid |-> CompositorAccepts(l, granted[p])]]
  /\ UNCHANGED <<pool, surfaces, attached, commits, file, granted, cap>>

(* Mutant: frames that go with their buffer. *)
DestroyBufferAndFrames(b) ==
  /\ Unlocked /\ buffer[b] # None
  /\ buffer' = [buffer EXCEPT ![b] = None]
  /\ attached' = [s \in Surfaces |-> IF attached[s] = buffer[b] THEN None ELSE attached[s]]
  /\ UNCHANGED <<pool, surfaces, commits, file, granted, cap>>

DestroyBuffer(b) ==
  /\ Unlocked /\ buffer[b] # None
  /\ buffer' = [buffer EXCEPT ![b] = None]
  /\ UNCHANGED <<pool, surfaces, attached, commits, file, granted, cap>>

CreateSurface(s) ==
  /\ Unlocked /\ s \notin surfaces
  /\ surfaces' = surfaces \cup {s}
  /\ UNCHANGED <<pool, buffer, attached, commits, file, granted, cap>>

DestroySurface(s) ==
  /\ Unlocked /\ s \in surfaces
  /\ surfaces' = surfaces \ {s}
  /\ attached' = [attached EXCEPT ![s] = None]
  /\ commits' = [commits EXCEPT ![s] = 0]
  /\ UNCHANGED <<pool, buffer, file, granted, cap>>

(* wl_surface.attach keeps the frame and a descriptor of its own.            *)
Attach(s, b) ==
  /\ Unlocked /\ s \in surfaces /\ buffer[b] # None
  /\ attached' = [attached EXCEPT ![s] = buffer[b]]
  /\ UNCHANGED <<pool, buffer, surfaces, commits, file, granted, cap>>

AttachUnreadable(s) ==
  /\ Unlocked /\ s \in surfaces
  /\ attached' = [attached EXCEPT ![s] = None]
  /\ UNCHANGED <<pool, buffer, surfaces, commits, file, granted, cap>>

Commit(s) ==
  /\ Unlocked /\ s \in surfaces /\ commits[s] < MaxCommits
  /\ commits' = [commits EXCEPT ![s] = @ + 1]
  /\ UNCHANGED <<pool, buffer, surfaces, attached, file, granted, cap>>

-----------------------------------------------------------------------------
(* A capture.                                                                *)

AtLeastZero(n) == IF n < 0 THEN 0 ELSE n
Area(l) == AtLeastZero(l.width) * AtLeastZero(l.height)

(* Mutant: commits before area. *)
OutranksByCommits(s, t) ==
  LET a == Area(attached[s].layout) b == Area(attached[t].layout)
  IN  commits[s] > commits[t] \/ (commits[s] = commits[t] /\ a >= b)

(* (area, commit_count) of s against that of t, as tuples compare in Rust.   *)
Outranks(s, t) ==
  LET a == Area(attached[s].layout) b == Area(attached[t].layout)
  IN  a > b \/ (a = b /\ commits[s] >= commits[t])

BeginCapture ==
  /\ Unlocked
  /\ cap' = [Idle EXCEPT !.pc = "scan", !.todo = surfaces]
  /\ UNCHANGED <<conn, file, granted>>

ScanSurface(s) ==
  /\ cap.pc = "scan" /\ s \in cap.todo
  /\ cap' = [cap EXCEPT !.todo = @ \ {s},
                        !.best = IF \/ attached[s] = None
                                    \/ @ # None /\ Outranks(@, s) THEN @ ELSE s]
  /\ UNCHANGED <<conn, file, granted>>

(* Mutant: an empty result taken for a frame. *)
EndScanUnchecked ==
  /\ cap.pc = "scan" /\ cap.todo = {}
  /\ cap' = [cap EXCEPT !.pc = "chosen"]
  /\ UNCHANGED <<conn, file, granted>>

(* The frame of the best candidate, or no frame at all.                      *)
EndScan ==
  /\ cap.pc = "scan" /\ cap.todo = {}
  /\ cap' = IF cap.best = None THEN Idle ELSE [cap EXCEPT !.pc = "chosen"]
  /\ UNCHANGED <<conn, file, granted>>

(* Mutant: the bound is one row short. *)
AcceptsOneRowShort(f) ==
  /\ f.layout.offset >= 0 /\ f.layout.width > 0 /\ f.layout.height > 0
  /\ f.layout.stride > 0 /\ f.pool_size > 0
  /\ f.layout.offset + f.layout.stride * (f.layout.height - 1) <= f.pool_size

Accepts(f) ==
  /\ f.layout.offset >= 0 /\ f.layout.width > 0 /\ f.layout.height > 0
  /\ f.layout.stride > 0 /\ f.pool_size > 0
  /\ Need(f.layout) <= f.pool_size

RejectFrame ==
  /\ cap.pc = "chosen" /\ ~ Accepts(attached[cap.best])
  /\ cap' = Idle
  /\ UNCHANGED <<conn, file, granted>>

MapPool ==
  /\ cap.pc = "chosen" /\ Accepts(attached[cap.best])
  /\ cap' = [cap EXCEPT !.pc = "mapped"]
  /\ UNCHANGED <<conn, file, granted>>

(* The bytes [first, end) of row y: a row of pixels, or of the stride if     *)
(* that is shorter.                                                          *)
RowStart(l, y) == l.offset + y * l.stride
RowLength(l) == IF l.stride <= 4 * l.width THEN l.stride ELSE 4 * l.width
Row(l, y) == <<RowStart(l, y), RowStart(l, y) + RowLength(l)>>

DecodeFrame ==
  LET l == attached[cap.best].layout
  IN  /\ cap.pc = "mapped"
      /\ cap' = [cap EXCEPT !.pc = "decoded",
                            !.reads = {Row(l, y) : y \in 0 .. l.height - 1}]
      /\ UNCHANGED <<conn, file, granted>>

(* The capture ends after decoding, or when mmap or the format fails it.     *)
EndCapture ==
  /\ \/ cap.pc \in {"mapped", "decoded"}
     \/ cap.pc = "chosen" /\ Accepts(attached[cap.best])
  /\ cap' = Idle
  /\ UNCHANGED <<conn, file, granted>>

-----------------------------------------------------------------------------
Next ==
  \/ \E f \in Files, n \in Sizes : AppGrowsFile(f, n)
  \/ \E p \in Pools, f \in Files, n \in Sizes : CreatePool(p, f, n)
  \/ \E p \in Pools, n \in Sizes : ResizePool(p, n)
  \/ \E p \in Pools : DestroyPool(p)
  \/ \E b \in Buffers, p \in Pools, l \in Layouts : CreateBuffer(b, p, l)
  \/ \E b \in Buffers : DestroyBuffer(b)
  \/ \E s \in Surfaces : CreateSurface(s) \/ DestroySurface(s)
  \/ \E s \in Surfaces, b \in Buffers : Attach(s, b)
  \/ \E s \in Surfaces : AttachUnreadable(s) \/ Commit(s)
  \/ BeginCapture
  \/ \E s \in Surfaces : ScanSurface(s)
  \/ EndScan \/ RejectFrame \/ MapPool \/ DecodeFrame \/ EndCapture

Spec == Init /\ [][Next]_vars

-----------------------------------------------------------------------------
(* A capture reads nothing outside the file behind the pool, whatever the    *)
(* app declared, resized and destroyed since the buffer was made.            *)
ReadsInsideFile ==
  \A r \in cap.reads :
    0 <= r[1] /\ r[1] <= r[2] /\ r[2] <= file[attached[cap.best].file]

(* The surface captured is one with the most pixels in its frame, and among  *)
(* those one with the most commits, in whatever order they are visited:      *)
(* a splash screen that commits often does not hide the main window.         *)
Pixels(l) == IF l.width > 0 /\ l.height > 0 THEN l.width * l.height ELSE 0

LargestIsCaptured ==
  cap.pc \in Holding =>
    /\ attached[cap.best] # None
    /\ \A s \in surfaces : attached[s] # None =>
         LET mine == Pixels(attached[cap.best].layout) its == Pixels(attached[s].layout)
         IN  mine >= its /\ (mine = its => commits[cap.best] >= commits[s])

(* A frame the compositor shows is never turned down: the proxy's own idea   *)
(* of the pool was no smaller than the compositor's when the buffer was made.*)
ShownIsReadable ==
  cap.pc = "chosen" /\ attached[cap.best].valid => Accepts(attached[cap.best])

(* What a surface shows outlives the buffer and the pool: no request about   *)
(* those changes it.                                                         *)
FrameOutlivesBuffer ==
  [][<<pool, buffer>>' # <<pool, buffer>> => attached' = attached]_vars
=============================================================================
