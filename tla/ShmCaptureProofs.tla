-------------------------- MODULE ShmCaptureProofs --------------------------
(***************************************************************************)
(* Proofs about ShmCapture for every set of objects and files, every       *)
(* integer width and every size and layout of that width.                  *)
(*                                                                         *)
(* Why a capture stays inside the file: the size a pool was given fits its *)
(* file (PoolsFit), the copy of it in a buffer and in a surface goes on    *)
(* fitting as files only grow (FramesFit), and the rows of an accepted     *)
(* frame end where Need says (RowsFit).  Why it captures the largest       *)
(* frame: the best so far outranks all that were visited (ScanSound),      *)
(* since Outranks is a total preorder and the lock keeps frames as they are.*)
(***************************************************************************)
EXTENDS ShmCapture, TLAPS

USE IntAssumption, InputAssumption, NoneAssumption
USE DEF IntAssumption, InputAssumption, NoneAssumption

GoodFrame(f) == f.pool_size <= file[f.file] /\ (f.valid => Accepts(f))

PoolsFit ==
  \A p \in Pools : pool[p] # None =>
    /\ pool[p].size <= file[pool[p].file]
    /\ granted[p] = 0 \/ granted[p] <= pool[p].size

FramesFit ==
  /\ \A b \in Buffers : buffer[b] # None => GoodFrame(buffer[b])
  /\ \A s \in Surfaces : attached[s] # None => GoodFrame(attached[s])

ScanSound ==
  /\ cap.pc \in Holding => cap.todo = {}
  /\ cap.pc # "idle" =>
       /\ cap.best # None => attached[cap.best] # None
       /\ \A s \in surfaces \ cap.todo : attached[s] # None =>
            cap.best # None /\ Outranks(cap.best, s)

ReadSound ==
  /\ cap.pc \in {"mapped", "decoded"} => Accepts(attached[cap.best])
  /\ \A r \in cap.reads :
       /\ cap.pc = "decoded"
       /\ \E y \in 0 .. attached[cap.best].layout.height - 1 :
            r = Row(attached[cap.best].layout, y)

IInv == TypeOK /\ PoolsFit /\ FramesFit /\ ScanSound /\ ReadSound

-----------------------------------------------------------------------------
(* Arithmetic.                                                              *)

LEMMA ProductMonotone ==
  ASSUME NEW a \in Int, NEW b \in Int, NEW s \in Nat, a <= b PROVE a * s <= b * s
<1>1. (b - a) * s >= 0
  OBVIOUS
<1> QED BY <1>1

LEMMA ProductPositive == ASSUME NEW a \in Int, NEW b \in Int, a > 0, b > 0 PROVE a * b > 0
  OBVIOUS

(* Every row of a frame with positive dimensions lies between its offset and *)
(* offset + stride * height.                                                 *)
LEMMA RowsFit ==
  ASSUME NEW l \in Layout, l.offset >= 0, l.width > 0, l.height > 0, l.stride > 0,
         NEW y \in 0 .. l.height - 1
  PROVE  /\ Row(l, y)[1] \in Int /\ Row(l, y)[2] \in Int
         /\ 0 <= Row(l, y)[1] /\ Row(l, y)[1] <= Row(l, y)[2] /\ Row(l, y)[2] <= Need(l)
<1> DEFINE o == l.offset  w == l.width  h == l.height  s == l.stride
<1>1. o \in Int /\ w \in Int /\ h \in Int /\ s \in Nat /\ y \in Int /\ y + 1 <= h /\ y >= 0
  BY DEF Layout, Int32
<1>2. 0 * s <= y * s
  BY <1>1, ProductMonotone
<1>3. (y + 1) * s <= h * s
  BY <1>1, ProductMonotone
<1>4. (y + 1) * s = y * s + s /\ h * s = s * h /\ 0 * s = 0
  BY <1>1
<1>5. 0 <= RowLength(l) /\ RowLength(l) <= s /\ RowLength(l) \in Int
  BY <1>1 DEF RowLength
<1>6. y * s \in Int /\ s * h \in Int
  BY <1>1
<1> QED BY <1>1, <1>2, <1>3, <1>4, <1>5, <1>6 DEF Row, RowStart, Need

(* The sum that is compared with the size of the pool is far inside 64 bits  *)
(* when IntMax is 2^31 - 1.                                                  *)
THEOREM NeedFitsWide ==
  ASSUME NEW l \in Layout, l.height > 0, l.stride > 0
  PROVE  Need(l) <= IntMax * IntMax + IntMax
<1> DEFINE h == l.height  s == l.stride
<1>1. h \in Nat /\ s \in Nat /\ h <= IntMax /\ s <= IntMax /\ l.offset \in Int /\ l.offset <= IntMax
  BY DEF Layout, Int32
<1>2. s * h <= IntMax * h
  BY <1>1, ProductMonotone
<1>3. h * IntMax <= IntMax * IntMax
  BY <1>1, ProductMonotone
<1>4. h * IntMax = IntMax * h /\ s * h \in Int /\ IntMax * h \in Int /\ IntMax * IntMax \in Int
  BY <1>1
<1> QED BY <1>1, <1>2, <1>3, <1>4 DEF Need

LEMMA AreaIsPixels == ASSUME NEW l \in Layout PROVE Area(l) = Pixels(l) /\ Area(l) \in Int
<1>1. l.width \in Int /\ l.height \in Int
  BY DEF Layout, Int32
<1>2. CASE l.width > 0 /\ l.height > 0
  BY <1>1, <1>2 DEF Area, Pixels, AtLeastZero
<1>3. CASE ~ (l.width > 0)
  <2>1. AtLeastZero(l.width) = 0 /\ AtLeastZero(l.height) \in Int
    BY <1>1, <1>3 DEF AtLeastZero
  <2> QED BY <2>1, <1>1, <1>3 DEF Area, Pixels
<1>4. CASE ~ (l.height > 0)
  <2>1. AtLeastZero(l.height) = 0 /\ AtLeastZero(l.width) \in Int
    BY <1>1, <1>4 DEF AtLeastZero
  <2> QED BY <2>1, <1>1, <1>4 DEF Area, Pixels
<1> QED BY <1>2, <1>3, <1>4

(* What fits the compositor's size fits the proxy's.                         *)
LEMMA ShownFits ==
  ASSUME NEW l \in Layout, NEW n \in Int, NEW g \in Int, g = 0 \/ g <= n,
         CompositorAccepts(l, g)
  PROVE  l.offset >= 0 /\ l.width > 0 /\ l.height > 0 /\ l.stride > 0 /\ n > 0 /\ Need(l) <= n
<1>1. l.offset \in Int /\ l.height \in Int /\ l.stride \in Int
  BY DEF Layout, Int32
<1>2. l.stride * l.height > 0 /\ l.stride * l.height \in Int
  BY <1>1, ProductPositive DEF CompositorAccepts
<1> QED BY <1>1, <1>2 DEF CompositorAccepts, Need

-----------------------------------------------------------------------------
(* One step.                                                                *)

(* The types are preserved.                                                *)
LEMMA TypesStep == (TypeOK /\ ScanSound) /\ [Next]_vars => TypeOK'
<1> SUFFICES ASSUME TypeOK, ScanSound, [Next]_vars PROVE TypeOK'
  OBVIOUS
<1> USE DEF TypeOK, conn, Idle, Stages, Holding
<1>1. ASSUME NEW f \in Files, NEW n \in Sizes, AppGrowsFile(f, n) PROVE TypeOK'
  BY <1>1 DEF AppGrowsFile, Int32
<1>2. ASSUME NEW p \in Pools, NEW f \in Files, NEW n \in Sizes, CreatePool(p, f, n) PROVE TypeOK'
  BY <1>2 DEF CreatePool, ShmPool
<1>3. ASSUME NEW p \in Pools, NEW n \in Sizes, ResizePool(p, n) PROVE TypeOK'
  BY <1>3 DEF ResizePool, ShmPool, Int32
<1>4. ASSUME NEW p \in Pools, DestroyPool(p) PROVE TypeOK'
  BY <1>4 DEF DestroyPool
<1>5. ASSUME NEW b \in Buffers, NEW p \in Pools, NEW l \in Layouts, CreateBuffer(b, p, l) PROVE TypeOK'
  BY <1>5 DEF CreateBuffer, Frame, ShmPool, CompositorAccepts
<1>6. ASSUME NEW b \in Buffers, DestroyBuffer(b) PROVE TypeOK'
  BY <1>6 DEF DestroyBuffer
<1>7. ASSUME NEW s \in Surfaces, CreateSurface(s) PROVE TypeOK'
  BY <1>7 DEF CreateSurface
<1>8. ASSUME NEW s \in Surfaces, DestroySurface(s) PROVE TypeOK'
  BY <1>8 DEF DestroySurface
<1>9. ASSUME NEW s \in Surfaces, NEW b \in Buffers, Attach(s, b) PROVE TypeOK'
  BY <1>9 DEF Attach
<1>10. ASSUME NEW s \in Surfaces, AttachUnreadable(s) PROVE TypeOK'
  BY <1>10 DEF AttachUnreadable
<1>11. ASSUME NEW s \in Surfaces, Commit(s) PROVE TypeOK'
  BY <1>11 DEF Commit
<1>12. CASE BeginCapture
  BY <1>12 DEF BeginCapture
<1>13. ASSUME NEW s \in Surfaces, ScanSurface(s) PROVE TypeOK'
  BY <1>13 DEF ScanSurface
<1>14. CASE EndScan
  BY <1>14 DEF EndScan
<1>15. CASE RejectFrame
  BY <1>15 DEF RejectFrame
<1>16. CASE MapPool
  BY <1>16 DEF MapPool
<1>17. CASE DecodeFrame
  <2> DEFINE l == attached[cap.best].layout
  <2>1. attached[cap.best] \in Frame
    BY <1>17 DEF DecodeFrame, ScanSound
  <2>2. l \in Layout
    BY <2>1 DEF Frame
  <2>3. ASSUME NEW y \in 0 .. l.height - 1 PROVE Row(l, y) \in Int \X Int
    BY <2>2, <2>3 DEF Row, RowStart, RowLength, Layout, Int32
  <2>4. {Row(l, y) : y \in 0 .. l.height - 1} \in SUBSET (Int \X Int)
    BY <2>3
  <2> QED BY <1>17, <2>4 DEF DecodeFrame
<1>18. CASE EndCapture
  BY <1>18 DEF EndCapture
<1>19. CASE UNCHANGED vars
  BY <1>19 DEF vars
<1> QED BY <1>1, <1>2, <1>3, <1>4, <1>5, <1>6, <1>7, <1>8, <1>9, <1>10,
      <1>11, <1>12, <1>13, <1>14, <1>15, <1>16, <1>17, <1>18, <1>19 DEF Next

(* Pools keep fitting their files.                                         *)
LEMMA PoolsStep == (TypeOK /\ PoolsFit) /\ [Next]_vars => PoolsFit'
<1> SUFFICES ASSUME (TypeOK /\ PoolsFit), [Next]_vars PROVE PoolsFit'
  OBVIOUS
<1> USE DEF TypeOK, PoolsFit, conn, ShmPool, Int32
<1>1. ASSUME NEW f \in Files, NEW n \in Sizes, AppGrowsFile(f, n) PROVE PoolsFit'
  BY <1>1 DEF AppGrowsFile
<1>2. ASSUME NEW p \in Pools, NEW f \in Files, NEW n \in Sizes, CreatePool(p, f, n) PROVE PoolsFit'
  BY <1>2 DEF CreatePool
<1>3. ASSUME NEW p \in Pools, NEW n \in Sizes, ResizePool(p, n) PROVE PoolsFit'
  BY <1>3 DEF ResizePool
<1>4. ASSUME NEW p \in Pools, DestroyPool(p) PROVE PoolsFit'
  BY <1>4 DEF DestroyPool
<1>5. ASSUME NEW b \in Buffers, NEW p \in Pools, NEW l \in Layouts, CreateBuffer(b, p, l) PROVE PoolsFit'
  BY <1>5 DEF CreateBuffer
<1>6. ASSUME NEW b \in Buffers, DestroyBuffer(b) PROVE PoolsFit'
  BY <1>6 DEF DestroyBuffer
<1>7. ASSUME NEW s \in Surfaces, CreateSurface(s) PROVE PoolsFit'
  BY <1>7 DEF CreateSurface
<1>8. ASSUME NEW s \in Surfaces, DestroySurface(s) PROVE PoolsFit'
  BY <1>8 DEF DestroySurface
<1>9. ASSUME NEW s \in Surfaces, NEW b \in Buffers, Attach(s, b) PROVE PoolsFit'
  BY <1>9 DEF Attach
<1>10. ASSUME NEW s \in Surfaces, AttachUnreadable(s) PROVE PoolsFit'
  BY <1>10 DEF AttachUnreadable
<1>11. ASSUME NEW s \in Surfaces, Commit(s) PROVE PoolsFit'
  BY <1>11 DEF Commit
<1>12. CASE BeginCapture
  BY <1>12 DEF BeginCapture
<1>13. ASSUME NEW s \in Surfaces, ScanSurface(s) PROVE PoolsFit'
  BY <1>13 DEF ScanSurface
<1>14. CASE EndScan
  BY <1>14 DEF EndScan
<1>15. CASE RejectFrame
  BY <1>15 DEF RejectFrame
<1>16. CASE MapPool
  BY <1>16 DEF MapPool
<1>17. CASE DecodeFrame
  BY <1>17 DEF DecodeFrame
<1>18. CASE EndCapture
  BY <1>18 DEF EndCapture
<1>19. CASE UNCHANGED vars
  BY <1>19 DEF vars
<1> QED BY <1>1, <1>2, <1>3, <1>4, <1>5, <1>6, <1>7, <1>8, <1>9, <1>10,
      <1>11, <1>12, <1>13, <1>14, <1>15, <1>16, <1>17, <1>18, <1>19 DEF Next

(* Copies of the pool's size keep fitting: files only grow.                *)
LEMMA FramesStep == (TypeOK /\ PoolsFit /\ FramesFit) /\ [Next]_vars => FramesFit'
<1> SUFFICES ASSUME (TypeOK /\ PoolsFit /\ FramesFit), [Next]_vars PROVE FramesFit'
  OBVIOUS
<1> USE DEF TypeOK, FramesFit, GoodFrame, conn, Frame, Int32
<1>1. ASSUME NEW f \in Files, NEW n \in Sizes, AppGrowsFile(f, n) PROVE FramesFit'
  BY <1>1 DEF AppGrowsFile
<1>2. ASSUME NEW p \in Pools, NEW f \in Files, NEW n \in Sizes, CreatePool(p, f, n) PROVE FramesFit'
  BY <1>2 DEF CreatePool
<1>3. ASSUME NEW p \in Pools, NEW n \in Sizes, ResizePool(p, n) PROVE FramesFit'
  BY <1>3 DEF ResizePool
<1>4. ASSUME NEW p \in Pools, DestroyPool(p) PROVE FramesFit'
  BY <1>4 DEF DestroyPool
<1>5. ASSUME NEW b \in Buffers, NEW p \in Pools, NEW l \in Layouts, CreateBuffer(b, p, l) PROVE FramesFit'
  <2> DEFINE f == [file |-> pool[p].file, pool_size |-> pool[p].size, layout |-> l,
                   valid |-> CompositorAccepts(l, granted[p])]
  <2>1. pool[p] \in ShmPool /\ l \in Layout /\ granted[p] \in Int
    BY <1>5 DEF CreateBuffer, Int32
  <2>2. f.pool_size <= file[f.file]
    BY <1>5 DEF CreateBuffer, PoolsFit
  <2>3. granted[p] = 0 \/ granted[p] <= pool[p].size
    BY <1>5 DEF CreateBuffer, PoolsFit
  <2>4. pool[p].size \in Int
    BY <2>1 DEF ShmPool, Int32
  <2>5. ASSUME CompositorAccepts(l, granted[p]) PROVE Accepts(f)
    <3> HIDE DEF f
    <3>1. f.layout = l /\ f.pool_size = pool[p].size
      BY DEF f
    <3> QED BY <2>1, <2>3, <2>4, <2>5, <3>1, ShownFits DEF Accepts
  <2>6. f.pool_size <= file'[f.file] /\ (f.valid => Accepts(f))
    BY <1>5, <2>2, <2>5 DEF CreateBuffer
  <2>7. buffer'[b] = f /\ \A c \in Buffers \ {b} : buffer'[c] = buffer[c]
    BY <1>5 DEF CreateBuffer
  <2>8. ASSUME NEW c \in Buffers, buffer'[c] # None
        PROVE  buffer'[c].pool_size <= file'[buffer'[c].file]
               /\ (buffer'[c].valid => Accepts(buffer'[c]))
    <3> HIDE DEF f
    <3>1. CASE c = b
      BY <2>6, <2>7, <3>1
    <3>2. CASE c # b
      BY <1>5, <2>7, <2>8, <3>2 DEF CreateBuffer
    <3> QED BY <3>1, <3>2
  <2>9. attached' = attached /\ file' = file
    BY <1>5 DEF CreateBuffer
  <2> QED BY <2>8, <2>9
<1>6. ASSUME NEW b \in Buffers, DestroyBuffer(b) PROVE FramesFit'
  BY <1>6 DEF DestroyBuffer
<1>7. ASSUME NEW s \in Surfaces, CreateSurface(s) PROVE FramesFit'
  BY <1>7 DEF CreateSurface
<1>8. ASSUME NEW s \in Surfaces, DestroySurface(s) PROVE FramesFit'
  BY <1>8 DEF DestroySurface
<1>9. ASSUME NEW s \in Surfaces, NEW b \in Buffers, Attach(s, b) PROVE FramesFit'
  BY <1>9 DEF Attach
<1>10. ASSUME NEW s \in Surfaces, AttachUnreadable(s) PROVE FramesFit'
  BY <1>10 DEF AttachUnreadable
<1>11. ASSUME NEW s \in Surfaces, Commit(s) PROVE FramesFit'
  BY <1>11 DEF Commit
<1>12. CASE BeginCapture
  BY <1>12 DEF BeginCapture
<1>13. ASSUME NEW s \in Surfaces, ScanSurface(s) PROVE FramesFit'
  BY <1>13 DEF ScanSurface
<1>14. CASE EndScan
  BY <1>14 DEF EndScan
<1>15. CASE RejectFrame
  BY <1>15 DEF RejectFrame
<1>16. CASE MapPool
  BY <1>16 DEF MapPool
<1>17. CASE DecodeFrame
  BY <1>17 DEF DecodeFrame
<1>18. CASE EndCapture
  BY <1>18 DEF EndCapture
<1>19. CASE UNCHANGED vars
  BY <1>19 DEF vars
<1> QED BY <1>1, <1>2, <1>3, <1>4, <1>5, <1>6, <1>7, <1>8, <1>9, <1>10,
      <1>11, <1>12, <1>13, <1>14, <1>15, <1>16, <1>17, <1>18, <1>19 DEF Next

(* The best candidate outranks all that were visited.                      *)
LEMMA ScanStep == (TypeOK /\ ScanSound) /\ [Next]_vars => ScanSound'
<1> SUFFICES ASSUME (TypeOK /\ ScanSound), [Next]_vars PROVE ScanSound'
  OBVIOUS
<1> USE DEF TypeOK, ScanSound, Outranks, Unlocked, conn, Idle, Holding, Stages
<1>1. ASSUME NEW f \in Files, NEW n \in Sizes, AppGrowsFile(f, n) PROVE ScanSound'
  BY <1>1 DEF AppGrowsFile
<1>2. ASSUME NEW p \in Pools, NEW f \in Files, NEW n \in Sizes, CreatePool(p, f, n) PROVE ScanSound'
  BY <1>2 DEF CreatePool
<1>3. ASSUME NEW p \in Pools, NEW n \in Sizes, ResizePool(p, n) PROVE ScanSound'
  BY <1>3 DEF ResizePool
<1>4. ASSUME NEW p \in Pools, DestroyPool(p) PROVE ScanSound'
  BY <1>4 DEF DestroyPool
<1>5. ASSUME NEW b \in Buffers, NEW p \in Pools, NEW l \in Layouts, CreateBuffer(b, p, l) PROVE ScanSound'
  BY <1>5 DEF CreateBuffer
<1>6. ASSUME NEW b \in Buffers, DestroyBuffer(b) PROVE ScanSound'
  BY <1>6 DEF DestroyBuffer
<1>7. ASSUME NEW s \in Surfaces, CreateSurface(s) PROVE ScanSound'
  BY <1>7 DEF CreateSurface
<1>8. ASSUME NEW s \in Surfaces, DestroySurface(s) PROVE ScanSound'
  BY <1>8 DEF DestroySurface
<1>9. ASSUME NEW s \in Surfaces, NEW b \in Buffers, Attach(s, b) PROVE ScanSound'
  BY <1>9 DEF Attach
<1>10. ASSUME NEW s \in Surfaces, AttachUnreadable(s) PROVE ScanSound'
  BY <1>10 DEF AttachUnreadable
<1>11. ASSUME NEW s \in Surfaces, Commit(s) PROVE ScanSound'
  BY <1>11 DEF Commit
<1>12. CASE BeginCapture
  BY <1>12 DEF BeginCapture
<1>13. ASSUME NEW s \in Surfaces, ScanSurface(s) PROVE ScanSound'
  <2> DEFINE A(t) == Area(attached[t].layout)
  <2>1. \A t \in Surfaces : attached[t] # None => A(t) \in Int
    <3> SUFFICES ASSUME NEW t \in Surfaces, attached[t] # None PROVE A(t) \in Int
      OBVIOUS
    <3>1. attached[t].layout \in Layout
      BY DEF Frame
    <3> QED BY <3>1, AreaIsPixels
  <2>2. UNCHANGED <<attached, commits, surfaces>> /\ cap'.pc = "scan"
    BY <1>13 DEF ScanSurface
  <2>3. cap'.todo = cap.todo \ {s}
    BY <1>13 DEF ScanSurface
  <2>4. CASE attached[s] = None \/ (cap.best # None /\ Outranks(cap.best, s))
    <3>1. cap'.best = cap.best
      BY <1>13, <2>4 DEF ScanSurface
    <3> QED BY <1>13, <2>2, <2>3, <2>4, <3>1 DEF ScanSurface
  <2>5. CASE ~ (attached[s] = None \/ (cap.best # None /\ Outranks(cap.best, s)))
    <3>1. cap'.best = s
      BY <1>13, <2>5 DEF ScanSurface
    <3>2. Outranks(s, s)
      BY <2>1, <2>5
    <3>3. ASSUME NEW t \in surfaces \ cap.todo, attached[t] # None PROVE Outranks(s, t)
      <4>1. cap.best \in Surfaces /\ attached[cap.best] # None /\ Outranks(cap.best, t)
        BY <1>13, <3>3 DEF ScanSurface
      <4>2. ~ Outranks(cap.best, s)
        BY <2>5, <4>1
      <4>3. A(cap.best) \in Int /\ A(s) \in Int /\ A(t) \in Int
        BY <2>1, <2>5, <3>3, <4>1
      <4> QED BY <4>1, <4>2, <4>3
    <3> QED BY <1>13, <2>2, <2>3, <2>5, <3>1, <3>2, <3>3 DEF ScanSurface
  <2> QED BY <2>4, <2>5
<1>14. CASE EndScan
  BY <1>14 DEF EndScan
<1>15. CASE RejectFrame
  BY <1>15 DEF RejectFrame
<1>16. CASE MapPool
  BY <1>16 DEF MapPool
<1>17. CASE DecodeFrame
  BY <1>17 DEF DecodeFrame
<1>18. CASE EndCapture
  BY <1>18 DEF EndCapture
<1>19. CASE UNCHANGED vars
  BY <1>19 DEF vars
<1> QED BY <1>1, <1>2, <1>3, <1>4, <1>5, <1>6, <1>7, <1>8, <1>9, <1>10,
      <1>11, <1>12, <1>13, <1>14, <1>15, <1>16, <1>17, <1>18, <1>19 DEF Next

(* What is mapped was accepted, what is read is a row of it.               *)
LEMMA ReadStep == (TypeOK /\ ReadSound) /\ [Next]_vars => ReadSound'
<1> SUFFICES ASSUME (TypeOK /\ ReadSound), [Next]_vars PROVE ReadSound'
  OBVIOUS
<1> USE DEF TypeOK, ReadSound, Unlocked, conn, Idle, Holding, Stages
<1>1. ASSUME NEW f \in Files, NEW n \in Sizes, AppGrowsFile(f, n) PROVE ReadSound'
  BY <1>1 DEF AppGrowsFile
<1>2. ASSUME NEW p \in Pools, NEW f \in Files, NEW n \in Sizes, CreatePool(p, f, n) PROVE ReadSound'
  BY <1>2 DEF CreatePool
<1>3. ASSUME NEW p \in Pools, NEW n \in Sizes, ResizePool(p, n) PROVE ReadSound'
  BY <1>3 DEF ResizePool
<1>4. ASSUME NEW p \in Pools, DestroyPool(p) PROVE ReadSound'
  BY <1>4 DEF DestroyPool
<1>5. ASSUME NEW b \in Buffers, NEW p \in Pools, NEW l \in Layouts, CreateBuffer(b, p, l) PROVE ReadSound'
  BY <1>5 DEF CreateBuffer
<1>6. ASSUME NEW b \in Buffers, DestroyBuffer(b) PROVE ReadSound'
  BY <1>6 DEF DestroyBuffer
<1>7. ASSUME NEW s \in Surfaces, CreateSurface(s) PROVE ReadSound'
  BY <1>7 DEF CreateSurface
<1>8. ASSUME NEW s \in Surfaces, DestroySurface(s) PROVE ReadSound'
  BY <1>8 DEF DestroySurface
<1>9. ASSUME NEW s \in Surfaces, NEW b \in Buffers, Attach(s, b) PROVE ReadSound'
  BY <1>9 DEF Attach
<1>10. ASSUME NEW s \in Surfaces, AttachUnreadable(s) PROVE ReadSound'
  BY <1>10 DEF AttachUnreadable
<1>11. ASSUME NEW s \in Surfaces, Commit(s) PROVE ReadSound'
  BY <1>11 DEF Commit
<1>12. CASE BeginCapture
  BY <1>12 DEF BeginCapture
<1>13. ASSUME NEW s \in Surfaces, ScanSurface(s) PROVE ReadSound'
  BY <1>13 DEF ScanSurface
<1>14. CASE EndScan
  BY <1>14 DEF EndScan
<1>15. CASE RejectFrame
  BY <1>15 DEF RejectFrame
<1>16. CASE MapPool
  BY <1>16 DEF MapPool
<1>17. CASE DecodeFrame
  BY <1>17 DEF DecodeFrame
<1>18. CASE EndCapture
  BY <1>18 DEF EndCapture
<1>19. CASE UNCHANGED vars
  BY <1>19 DEF vars
<1> QED BY <1>1, <1>2, <1>3, <1>4, <1>5, <1>6, <1>7, <1>8, <1>9, <1>10,
      <1>11, <1>12, <1>13, <1>14, <1>15, <1>16, <1>17, <1>18, <1>19 DEF Next

-----------------------------------------------------------------------------
LEMMA Inductive == IInv /\ [Next]_vars => IInv'
  BY TypesStep, PoolsStep, FramesStep, ScanStep, ReadStep DEF IInv

LEMMA Initially == Init => IInv
<1> SUFFICES ASSUME Init PROVE IInv
  OBVIOUS
<1> USE DEF Init, Idle, Stages, Holding
<1>1. TypeOK
  BY DEF TypeOK, Int32
<1>2. PoolsFit /\ FramesFit /\ ScanSound /\ ReadSound
  BY DEF PoolsFit, FramesFit, ScanSound, ReadSound
<1> QED BY <1>1, <1>2 DEF IInv

LEMMA Invariance == Spec => []IInv
  BY Initially, Inductive, PTL DEF Spec

(* The types of the connection's tables and of the capture in progress.      *)
THEOREM CaptureTypeCorrect == Spec => []TypeOK
<1>1. IInv => TypeOK
  BY DEF IInv
<1> QED BY <1>1, Invariance, PTL

(* No row of a captured frame lies outside the file behind its pool, for any *)
(* sequence of requests and any sizes and layouts.                           *)
THEOREM CaptureStaysInside == Spec => []ReadsInsideFile
<1>1. IInv => ReadsInsideFile
  <2> SUFFICES ASSUME IInv, NEW r \in cap.reads
               PROVE  0 <= r[1] /\ r[1] <= r[2] /\ r[2] <= file[attached[cap.best].file]
    BY DEF ReadsInsideFile
  <2> DEFINE f == attached[cap.best]
  <2> USE DEF IInv
  <2>1. cap.pc = "decoded" /\ cap.best \in Surfaces
    BY DEF ReadSound, TypeOK, Holding
  <2>2. f \in Frame
    BY <2>1 DEF TypeOK, ScanSound, Holding
  <2>3. Accepts(f)
    BY <2>1 DEF ReadSound
  <2>4. f.pool_size <= file[f.file]
    BY <2>1, <2>2 DEF FramesFit, GoodFrame
  <2>5. PICK y \in 0 .. f.layout.height - 1 : r = Row(f.layout, y)
    BY DEF ReadSound
  <2>6. f.layout \in Layout /\ f.pool_size \in Int /\ file[f.file] \in Int
    BY <2>2 DEF Frame, Int32, TypeOK
  <2>7. Need(f.layout) \in Int
    BY <2>6 DEF Need, Layout, Int32
  <2>8. r[1] \in Int /\ r[2] \in Int /\ 0 <= r[1] /\ r[1] <= r[2] /\ r[2] <= Need(f.layout)
    BY <2>3, <2>5, <2>6, RowsFit DEF Accepts
  <2> QED BY <2>3, <2>4, <2>6, <2>7, <2>8 DEF Accepts
<1> QED BY <1>1, Invariance, PTL

(* Whatever the order in which the surfaces are visited, the one captured    *)
(* has the most pixels, and the most commits among those.                    *)
THEOREM CaptureTakesLargest == Spec => []LargestIsCaptured
<1>1. IInv => LargestIsCaptured
  <2> SUFFICES ASSUME IInv, cap.pc \in Holding
               PROVE  /\ attached[cap.best] # None
                      /\ \A s \in surfaces : attached[s] # None =>
                           LET mine == Pixels(attached[cap.best].layout)
                               its  == Pixels(attached[s].layout)
                           IN  mine >= its /\ (mine = its => commits[cap.best] >= commits[s])
    BY DEF LargestIsCaptured
  <2> USE DEF IInv
  <2>1. cap.best \in Surfaces /\ attached[cap.best] \in Frame
    BY DEF TypeOK, ScanSound, Holding
  <2>2. ASSUME NEW s \in surfaces, attached[s] # None
        PROVE  LET mine == Pixels(attached[cap.best].layout)
                   its  == Pixels(attached[s].layout)
               IN  mine >= its /\ (mine = its => commits[cap.best] >= commits[s])
    <3>1. attached[s].layout \in Layout /\ attached[cap.best].layout \in Layout
      BY <2>1, <2>2 DEF TypeOK, Frame
    <3>2. Outranks(cap.best, s)
      BY <2>2 DEF ScanSound, Holding
    <3> QED BY <3>1, <3>2, AreaIsPixels DEF Outranks
  <2> QED BY <2>1, <2>2
<1> QED BY <1>1, Invariance, PTL

(* A frame that the compositor shows passes the capture's bounds.            *)
THEOREM CaptureReadsWhatIsShown == Spec => []ShownIsReadable
<1>1. IInv => ShownIsReadable
  BY DEF IInv, TypeOK, Holding, FramesFit, GoodFrame, ScanSound, ShownIsReadable
<1> QED BY <1>1, Invariance, PTL

(* No request about a pool or a buffer takes away what a surface shows: the *)
(* frame kept at attach has a descriptor of its own (attach, destroy).      *)
THEOREM FramesSurvive == Spec => FrameOutlivesBuffer
<1> DEFINE Survives == <<pool, buffer>>' # <<pool, buffer>> => attached' = attached
<1>1. [Next]_vars => [Survives]_vars
  <2> SUFFICES ASSUME [Next]_vars, <<pool, buffer>>' # <<pool, buffer>>
               PROVE  attached' = attached
    OBVIOUS
  <2> USE DEF conn, vars
  <2>1. ASSUME NEW p \in Pools, NEW f \in Files, NEW n \in Sizes, CreatePool(p, f, n)
        PROVE  attached' = attached
    BY <2>1 DEF CreatePool
  <2>2. ASSUME NEW p \in Pools, NEW n \in Sizes, ResizePool(p, n) PROVE attached' = attached
    BY <2>2 DEF ResizePool
  <2>3. ASSUME NEW p \in Pools, DestroyPool(p) PROVE attached' = attached
    BY <2>3 DEF DestroyPool
  <2>4. ASSUME NEW b \in Buffers, NEW p \in Pools, NEW l \in Layouts, CreateBuffer(b, p, l)
        PROVE  attached' = attached
    BY <2>4 DEF CreateBuffer
  <2>5. ASSUME NEW b \in Buffers, DestroyBuffer(b) PROVE attached' = attached
    BY <2>5 DEF DestroyBuffer
  <2>6. ASSUME NEW s \in Surfaces, CreateSurface(s) \/ DestroySurface(s) \/ AttachUnreadable(s) \/ Commit(s)
        PROVE  FALSE
    BY <2>6 DEF CreateSurface, DestroySurface, AttachUnreadable, Commit
  <2>7. ASSUME NEW s \in Surfaces, NEW b \in Buffers, Attach(s, b) PROVE FALSE
    BY <2>7 DEF Attach
  <2>8. ASSUME NEW f \in Files, NEW n \in Sizes, AppGrowsFile(f, n) PROVE FALSE
    BY <2>8 DEF AppGrowsFile
  <2>9. CASE \/ BeginCapture \/ (\E s \in Surfaces : ScanSurface(s))
             \/ EndScan \/ RejectFrame \/ MapPool \/ DecodeFrame \/ EndCapture
    BY <2>9 DEF BeginCapture, ScanSurface, EndScan, RejectFrame, MapPool, DecodeFrame, EndCapture
  <2> QED BY <2>1, <2>2, <2>3, <2>4, <2>5, <2>6, <2>7, <2>8, <2>9 DEF Next
<1> QED BY <1>1, PTL DEF Spec, FrameOutlivesBuffer
=============================================================================
