--------------------------- MODULE MmapRingProofs ---------------------------
(***************************************************************************)
(* Proofs about MmapRing: the blocks are read in turn, and capture_mmap    *)
(* implements PacketFifo.                                                  *)
(***************************************************************************)
EXTENDS MmapRing, SequenceTheorems, WellFoundedInduction, TLAPS

----------------------------------------------------------------------------
(***************************************************************************)
(* The circle of blocks.                                                   *)
(***************************************************************************)

\* The block d after b.
At(b, d) == (b + d) % NumBlocks

\* It is a block, counted on from the first one after the last.
LEMMA AtIs ==
    ASSUME NEW b \in Blocks, NEW d \in 0..NumBlocks
    PROVE  /\ At(b, d) = IF b + d < NumBlocks THEN b + d ELSE b + d - NumBlocks
           /\ At(b, d) \in Blocks
<1> DEFINE a == b + d
<1>1. /\ NumBlocks \in Nat \ {0} /\ b \in 0..(NumBlocks - 1)
      /\ a \in Int /\ a = b + d /\ At(b, d) = a % NumBlocks
  BY CaptureAssumption DEF Blocks, At
<1> HIDE DEF a
<1>2. ASSUME NEW n \in Nat \ {0}, NEW c \in Int
      PROVE  /\ c \in 0..(n - 1) => c % n = c
             /\ c \in n..(2 * n - 1) => c % n = c - n
  <2>1. c \in 0..(n - 1) => c % n = c
    BY Z3
  <2>2. c \in n..(2 * n - 1) => c % n = c - n
    BY Z3
  <2> QED
    BY <2>1, <2>2
<1>3. CASE b + d < NumBlocks
  <2>1. a \in 0..(NumBlocks - 1)
    BY <1>1, <1>3
  <2> QED
    BY <1>1, <1>2, <1>3, <2>1, Zenon DEF Blocks
<1>4. CASE ~(b + d < NumBlocks)
  <2>1. a \in NumBlocks..(2 * NumBlocks - 1)
    BY <1>1, <1>4
  <2>2. a % NumBlocks = a - NumBlocks
    BY <1>1, <1>2, <2>1, Zenon
  <2>3. a - NumBlocks \in 0..(NumBlocks - 1)
    BY <1>1, <2>1
  <2> QED
    BY <1>1, <1>4, <2>2, <2>3 DEF Blocks
<1> QED
  BY <1>3, <1>4

\* Going around meets every block once.
LEMMA AtApart ==
    ASSUME NEW b \in Blocks, NEW d \in 0..(NumBlocks - 1), NEW e \in 0..(NumBlocks - 1),
           At(b, d) = At(b, e)
    PROVE  d = e
<1>1. NumBlocks \in Nat /\ d \in 0..NumBlocks /\ e \in 0..NumBlocks
  BY CaptureAssumption
<1>2. /\ At(b, d) = IF b + d < NumBlocks THEN b + d ELSE b + d - NumBlocks
      /\ At(b, e) = IF b + e < NumBlocks THEN b + e ELSE b + e - NumBlocks
  BY <1>1, AtIs
<1>3. b \in 0..(NumBlocks - 1)
  BY DEF Blocks
<1>4. CASE b + d < NumBlocks
  <2>1. At(b, d) = b + d
    BY <1>2, <1>4
  <2>2. CASE b + e < NumBlocks
    <3>1. b + d = b + e
      BY <1>2, <2>1, <2>2, Zenon
    <3> QED
      BY <1>1, <1>3, <3>1
  <2>3. CASE ~(b + e < NumBlocks)
    <3>1. b + d = b + e - NumBlocks
      BY <1>2, <2>1, <2>3, Zenon
    <3> QED
      BY <1>1, <1>3, <3>1
  <2> QED
    BY <2>2, <2>3
<1>5. CASE ~(b + d < NumBlocks)
  <2>1. At(b, d) = b + d - NumBlocks
    BY <1>2, <1>5
  <2>2. CASE b + e < NumBlocks
    <3>1. b + d - NumBlocks = b + e
      BY <1>2, <2>1, <2>2
    <3> QED
      BY <1>1, <1>3, <3>1
  <2>3. CASE ~(b + e < NumBlocks)
    <3>1. b + d - NumBlocks = b + e - NumBlocks
      BY <1>2, <2>1, <2>3, Zenon
    <3> QED
      BY <1>1, <1>3, <3>1
  <2> QED
    BY <2>2, <2>3
<1> QED
  BY <1>4, <1>5

\* Every block is met within a turn.
LEMMA AtAll ==
    ASSUME NEW b \in Blocks, NEW c \in Blocks
    PROVE  \E d \in 0..(NumBlocks - 1) : At(b, d) = c
<1>1. NumBlocks \in Nat
  BY CaptureAssumption
<1>2. CASE c >= b
  <2>1. c - b \in 0..(NumBlocks - 1) /\ c - b \in 0..NumBlocks
    BY <1>1, <1>2 DEF Blocks
  <2>2. At(b, c - b) = c
    BY <1>1, <1>2, <2>1, AtIs DEF Blocks
  <2> QED
    BY <2>1, <2>2
<1>3. CASE ~(c >= b)
  <2>1. c - b + NumBlocks \in 0..(NumBlocks - 1) /\ c - b + NumBlocks \in 0..NumBlocks
    BY <1>1, <1>3 DEF Blocks
  <2>2. At(b, c - b + NumBlocks) = c
    BY <1>1, <1>3, <2>1, AtIs DEF Blocks
  <2> QED
    BY <2>1, <2>2
<1> QED
  BY <1>2, <1>3

\* From the next block on, and back where it began.
LEMMA AtNext ==
    ASSUME NEW b \in Blocks
    PROVE  /\ At(b, 0) = b /\ At(b, NumBlocks) = b /\ At(b, 1) \in Blocks
           /\ \A d \in 0..(NumBlocks - 1) :
                 At(At(b, 1), d) = At(b, d + 1) /\ At(At(b, d), 1) = At(b, d + 1)
<1>1. NumBlocks \in Nat /\ NumBlocks >= 1 /\ b \in 0..(NumBlocks - 1)
  BY CaptureAssumption DEF Blocks
<1>2. /\ 0 \in 0..NumBlocks /\ 1 \in 0..NumBlocks /\ NumBlocks \in 0..NumBlocks
  BY <1>1
<1>3. /\ At(b, 0) = b /\ At(b, NumBlocks) = b /\ At(b, 1) \in Blocks
      /\ At(b, 1) = IF b + 1 < NumBlocks THEN b + 1 ELSE b + 1 - NumBlocks
  BY <1>1, <1>2, AtIs
<1>4. ASSUME NEW d \in 0..(NumBlocks - 1)
      PROVE  At(At(b, 1), d) = At(b, d + 1) /\ At(At(b, d), 1) = At(b, d + 1)
  <2>1. d \in 0..NumBlocks /\ d + 1 \in 0..NumBlocks
    BY <1>1
  <2>2. /\ At(b, d) = IF b + d < NumBlocks THEN b + d ELSE b + d - NumBlocks
        /\ At(b, d + 1) = IF b + (d + 1) < NumBlocks THEN b + (d + 1)
                          ELSE b + (d + 1) - NumBlocks
        /\ At(b, d) \in Blocks
    BY <2>1, AtIs
  <2>3. At(At(b, 1), d) = IF At(b, 1) + d < NumBlocks THEN At(b, 1) + d
                          ELSE At(b, 1) + d - NumBlocks
    BY <1>3, <2>1, AtIs
  <2>4. At(At(b, d), 1) = IF At(b, d) + 1 < NumBlocks THEN At(b, d) + 1
                          ELSE At(b, d) + 1 - NumBlocks
    BY <1>2, <2>2, AtIs
  <2>5. At(At(b, 1), d) = At(b, d + 1)
    BY <1>1, <1>3, <2>2, <2>3
  <2>6. At(At(b, d), 1) = At(b, d + 1)
    BY <1>1, <2>2, <2>4
  <2> QED
    BY <2>5, <2>6
<1> QED
  BY <1>3, <1>4

----------------------------------------------------------------------------
(***************************************************************************)
(* The blocks in turn.                                                     *)
(***************************************************************************)

\* n blocks are retired and not released: those from the program's block on, up
\* to the kernel's.
Ready(n) ==
    /\ k_blk = At(First, n)
    /\ \A d \in 0..(NumBlocks - 1) : status[At(First, d)] = "user" <=> d < n
    /\ ~frozen => n < NumBlocks
    /\ pc = "block" => n >= 1

RingTypes ==
    /\ status \in [Blocks -> {"kernel", "user"}]
    /\ frames \in [Blocks -> Seq(Passing)]
    /\ k_blk \in Blocks /\ frozen \in BOOLEAN /\ bd_ptr \in Blocks /\ i \in Nat

\* The inductive invariant of the mapped capture.
MmapInv == RingTypes /\ \E n \in 0..NumBlocks : Ready(n)

\* It holds before the capture begins: no block is retired.
LEMMA MmapInit == ASSUME Idle, pc = "socket" PROVE MmapInv
<1>1. NumBlocks \in Nat /\ NumBlocks > 0 /\ 0 \in 0..NumBlocks /\ 0 \in Blocks
  BY CaptureAssumption DEF Blocks
<1>2. RingTypes
  BY <1>1 DEF Idle, RingTypes
<1>3. First = 0 /\ At(0, 0) = 0
  BY <1>1, AtNext DEF First, Idle
<1>4. ASSUME NEW d \in 0..(NumBlocks - 1)
      PROVE  status[At(First, d)] = "user" <=> d < 0
  <2>1. At(First, d) \in Blocks
    BY <1>1, <1>3, AtIs
  <2> QED
    BY <1>1, <2>1 DEF Idle
<1>5. Ready(0)
  BY <1>1, <1>3, <1>4 DEF Ready, Idle
<1> QED
  BY <1>1, <1>2, <1>5 DEF MmapInv

\* The block the program looks at next is a block of the ring.
LEMMA FirstIn == ASSUME RingTypes PROVE First \in Blocks
<1>1. (bd_ptr + 1) % NumBlocks = At(bd_ptr, 1)
  BY DEF At
<1> QED
  BY <1>1, AtNext DEF First, RingTypes

\* A step that leaves the ring and the kernel alone keeps the invariant if the
\* program stays at its block, and enters it only when it is retired.
LEMMA MmapStays ==
    ASSUME MmapInv, UNCHANGED <<ring, kernel>>, First' = First,
           bd_ptr' \in Blocks, i' \in Nat,
           pc' = "block" => pc = "block" \/ status[First] = "user"
    PROVE  MmapInv'
<1>1. PICK n \in 0..NumBlocks : Ready(n)
  BY DEF MmapInv
<1>2. status' = status /\ frames' = frames /\ k_blk' = k_blk /\ frozen' = frozen
  BY DEF ring, kernel
<1>3. RingTypes /\ RingTypes'
  BY <1>2 DEF MmapInv, RingTypes
<1>4. NumBlocks \in Nat /\ NumBlocks > 0 /\ 0 \in 0..(NumBlocks - 1)
  BY CaptureAssumption
<1>5. First \in Blocks /\ At(First, 0) = First
  BY <1>3, FirstIn, AtNext
<1>6. status[First] = "user" => n >= 1
  BY <1>1, <1>4, <1>5 DEF Ready
<1>7. pc' = "block" => n >= 1
  BY <1>1, <1>6 DEF Ready
<1>8. Ready(n)'
  BY <1>1, <1>2, <1>7 DEF Ready
<1> QED
  BY <1>3, <1>8 DEF MmapInv

\* The program gives its block back, and its turn moves to the next.
LEMMA ReleaseInv == ASSUME MmapInv, Release PROVE MmapInv' /\ First' = At(First, 1)
<1>1. PICK n \in 0..NumBlocks : Ready(n)
  BY DEF MmapInv
<1>2. NumBlocks \in Nat /\ NumBlocks > 0
  BY CaptureAssumption
<1>3. /\ pc = "block" /\ pc' = "advance" /\ bd_ptr' = bd_ptr
      /\ status' = [status EXCEPT ![bd_ptr] = "kernel"]
      /\ frames' = frames /\ k_blk' = k_blk /\ frozen' = frozen /\ i' = i
  BY DEF Release, Released, kernel
<1>4. RingTypes /\ RingTypes'
  BY <1>3 DEF MmapInv, RingTypes
<1>5. First = bd_ptr /\ First' = At(First, 1) /\ First \in Blocks
  BY <1>3, <1>4, FirstIn DEF First, At
<1>6. n >= 1 /\ n - 1 \in 0..NumBlocks /\ n - 1 \in 0..(NumBlocks - 1)
  BY <1>1, <1>2, <1>3 DEF Ready
<1>7. /\ At(First, 0) = First /\ At(First, NumBlocks) = First
      /\ \A d \in 0..(NumBlocks - 1) : At(At(First, 1), d) = At(First, d + 1)
  BY <1>5, AtNext
<1>8. k_blk' = At(First', n - 1)
  <2>1. At(At(First, 1), n - 1) = At(First, n)
    BY <1>2, <1>6, <1>7
  <2> QED
    BY <1>1, <1>3, <1>5, <2>1 DEF Ready
<1>9. ASSUME NEW d \in 0..(NumBlocks - 1)
      PROVE  status'[At(First', d)] = "user" <=> d < n - 1
  <2>1. At(First', d) = At(First, d + 1)
    BY <1>5, <1>7
  <2>2. CASE d = NumBlocks - 1
    <3>1. At(First', d) = bd_ptr
      BY <1>2, <1>5, <1>7, <2>1, <2>2
    <3>2. status'[At(First', d)] = "kernel"
      BY <1>3, <1>4, <3>1 DEF RingTypes
    <3> QED
      BY <1>2, <1>6, <2>2, <3>2
  <2>3. CASE d # NumBlocks - 1
    <3>1. d + 1 \in 0..(NumBlocks - 1) /\ 0 \in 0..(NumBlocks - 1) /\ d + 1 # 0
      BY <1>2, <2>3
    <3>2. At(First, d + 1) # First
      BY <1>5, <1>7, <3>1, AtApart
    <3>3. At(First, d + 1) \in Blocks
      BY <1>2, <1>5, <3>1, AtIs
    <3>4. status'[At(First', d)] = status[At(First, d + 1)]
      BY <1>3, <1>4, <1>5, <2>1, <3>2, <3>3 DEF RingTypes
    <3>5. status[At(First, d + 1)] = "user" <=> d + 1 < n
      BY <1>1, <3>1 DEF Ready
    <3> QED
      BY <1>2, <3>4, <3>5
  <2> QED
    BY <2>2, <2>3
<1>10. Ready(n - 1)'
  BY <1>2, <1>3, <1>6, <1>8, <1>9 DEF Ready
<1> QED
  BY <1>4, <1>5, <1>6, <1>10 DEF MmapInv

\* The kernel retires its block: one more is ready, and when that was the last
\* one the ring is frozen.
LEMMA RetireInv == ASSUME MmapInv, KernelRetire PROVE MmapInv'
<1>1. PICK n \in 0..NumBlocks : Ready(n)
  BY DEF MmapInv
<1>2. NumBlocks \in Nat /\ NumBlocks > 0 /\ 0 \in 0..(NumBlocks - 1)
  BY CaptureAssumption
<1>3. /\ ~frozen /\ bd_ptr' = bd_ptr /\ i' = i /\ pc' = pc
      /\ status' = [status EXCEPT ![k_blk] = "user"]
      /\ k_blk' = At(k_blk, 1)
      /\ frozen' \in BOOLEAN /\ (~frozen' => status'[k_blk'] = "kernel")
      /\ frames' = frames \/ frames' = [frames EXCEPT ![k_blk'] = << >>]
  BY Zenon DEF KernelRetire, At
<1>4. RingTypes /\ k_blk' \in Blocks
  BY <1>3, AtNext DEF MmapInv, RingTypes
<1>5. frames' \in [Blocks -> Seq(Passing)]
  <2>1. << >> \in Seq(Passing) /\ frames \in [Blocks -> Seq(Passing)]
    BY <1>4 DEF RingTypes
  <2> QED
    BY <1>3, <1>4, <2>1, Zenon
<1>6. RingTypes'
  BY <1>3, <1>4, <1>5 DEF RingTypes
<1>7. First' = First /\ First \in Blocks
  BY <1>3, <1>4, FirstIn DEF First
<1>8. n \in 0..(NumBlocks - 1) /\ n + 1 \in 0..NumBlocks
  BY <1>1, <1>2, <1>3 DEF Ready
<1>9. k_blk' = At(First', n + 1)
  BY <1>1, <1>3, <1>7, <1>8, AtNext DEF Ready
<1>10. ASSUME NEW d \in 0..(NumBlocks - 1)
       PROVE  status'[At(First', d)] = "user" <=> d < n + 1
  <2>1. At(First, d) \in Blocks
    BY <1>2, <1>7, AtIs
  <2>2. status[At(First, d)] = "user" <=> d < n
    BY <1>1 DEF Ready
  <2>3. At(First, d) = k_blk <=> d = n
    BY <1>1, <1>7, <1>8, AtApart DEF Ready
  <2>4. CASE d = n
    <3>1. status'[At(First', d)] = "user"
      BY <1>3, <1>4, <1>7, <2>1, <2>3, <2>4 DEF RingTypes
    <3> QED
      BY <1>2, <2>4, <3>1
  <2>5. CASE d # n
    <3>1. status'[At(First', d)] = status[At(First, d)]
      BY <1>3, <1>4, <1>7, <2>1, <2>3, <2>5 DEF RingTypes
    <3> QED
      BY <1>2, <2>2, <2>5, <3>1
  <2> QED
    BY <2>4, <2>5
<1>11. ~frozen' => n + 1 < NumBlocks
  <2> SUFFICES ASSUME ~frozen', n + 1 = NumBlocks
               PROVE  FALSE
    BY <1>2, <1>8
  <2>1. k_blk' = First /\ At(First', 0) = First
    BY <1>7, <1>9, AtNext
  <2>2. status'[First] = "user"
    BY <1>2, <1>10, <2>1
  <2> QED
    BY <1>3, <2>1, <2>2
<1>12. Ready(n + 1)'
  BY <1>2, <1>8, <1>9, <1>10, <1>11 DEF Ready
<1> QED
  BY <1>6, <1>8, <1>12 DEF MmapInv


\* A step of the kernel that changes its block only.
LEMMA BlockInv ==
    ASSUME MmapInv, UNCHANGED <<status, k_blk, bd_ptr, i, pc>>,
           frozen' \in BOOLEAN, frozen' = frozen \/ status[k_blk] = "kernel",
           NEW s \in Seq(Passing), frames' = [frames EXCEPT ![k_blk] = s]
    PROVE  MmapInv'
<1>1. PICK n \in 0..NumBlocks : Ready(n)
  BY DEF MmapInv
<1>2. NumBlocks \in Nat /\ NumBlocks > 0 /\ 0 \in 0..(NumBlocks - 1)
  BY CaptureAssumption
<1>3. RingTypes /\ RingTypes'
  BY DEF MmapInv, RingTypes
<1>4. First' = First /\ First \in Blocks
  BY <1>3, FirstIn DEF First
<1>5. ~frozen' => n < NumBlocks
  <2> SUFFICES ASSUME n = NumBlocks, status[k_blk] = "kernel"
               PROVE  FALSE
    BY <1>1, <1>2 DEF Ready
  <2>1. k_blk = First /\ At(First, 0) = First
    BY <1>1, <1>4, AtNext DEF Ready
  <2>2. status[First] = "user"
    BY <1>1, <1>2, <2>1 DEF Ready
  <2> QED
    BY <2>1, <2>2
<1>6. Ready(n)'
  BY <1>1, <1>4, <1>5 DEF Ready
<1> QED
  BY <1>3, <1>6 DEF MmapInv

\* The steps that change neither ring nor kernel.
Quiet ==
    \/ Socket \/ Bind \/ Attach \/ Version \/ RxRing \/ MapRing \/ Free
    \/ LoopTest \/ EnterPoll \/ PollIn \/ Handle \/ Advance \/ PollError \/ Signal

\* They leave the ring, and where the program will look next, alone.
LEMMA QuietStays ==
    ASSUME MmapInv, Quiet
    PROVE  /\ UNCHANGED <<ring, kernel>> /\ First' = First
           /\ bd_ptr' \in Blocks /\ i' \in Nat
           /\ pc' = "block" => pc = "block" \/ status[First] = "user"
<1> USE DEF First, MmapInv, RingTypes
<1>1. CASE Socket \/ Bind \/ Attach
  BY <1>1 DEF Socket, Bind, Attach, SetupStep
<1>2. CASE Version \/ RxRing \/ MapRing
  BY <1>2 DEF Version, RxRing, MapRing, SetupStep
<1>3. CASE Free \/ EnterPoll \/ PollIn \/ PollError
  BY <1>3 DEF Free, EnterPoll, PollIn, PollError
<1>4. CASE LoopTest
  BY <1>4 DEF LoopTest, BlockReady
<1>5. CASE Handle
  BY <1>5 DEF Handle
<1>6. CASE Advance
  <2>1. bd_ptr' = At(bd_ptr, 1) /\ bd_ptr' = (bd_ptr + 1) % NumBlocks
    BY <1>6 DEF Advance, NextBlock, At
  <2>2. bd_ptr' \in Blocks
    BY <2>1, AtNext
  <2> QED
    BY <1>6, <2>1, <2>2 DEF Advance
<1>7. CASE Signal
  BY <1>7 DEF Signal
<1> QED
  BY <1>1, <1>2, <1>3, <1>4, <1>5, <1>6, <1>7 DEF Quiet

\* Every step keeps the invariant.
LEMMA MmapStep == ASSUME MmapInv, [Next]_vars PROVE MmapInv'
<1>1. CASE Quiet
  BY <1>1, QuietStays, MmapStays
<1>2. CASE Release
  BY <1>2, ReleaseInv
<1>3. CASE KernelRetire
  BY <1>3, RetireInv
<1>4. CASE KernelReceive
  <2>1. PICK p \in Passing : frames' = [frames EXCEPT ![k_blk] = Append(@, p)]
    BY <1>4, Zenon DEF KernelReceive
  <2> DEFINE s == Append(frames[k_blk], p)
  <2>2. s \in Seq(Passing) /\ frozen \in BOOLEAN
    BY DEF MmapInv, RingTypes
  <2>3. frames' = [frames EXCEPT ![k_blk] = s]
    BY <2>1
  <2> HIDE DEF s
  <2> QED
    BY <1>4, <2>2, <2>3, BlockInv, Zenon DEF KernelReceive, kernel
<1>5. CASE KernelThaw
  <2>1. << >> \in Seq(Passing)
    OBVIOUS
  <2> QED
    BY <1>5, <2>1, BlockInv, Zenon DEF KernelThaw
<1>6. CASE UNCHANGED vars
  <2>1. /\ UNCHANGED <<ring, kernel>> /\ First' = First /\ bd_ptr' = bd_ptr
        /\ i' = i /\ pc' = pc
    BY <1>6 DEF vars, First
  <2> QED
    BY <2>1, MmapStays DEF MmapInv, RingTypes
<1> QED
  BY <1>1, <1>2, <1>3, <1>4, <1>5, <1>6 DEF Next, Program, Quiet

\* The blocks are read in turn, and the program never reads the block the kernel
\* fills (dns_insp.c:500-539).
LEMMA MmapSafe == ASSUME MmapInv PROVE InTurn
<1>1. PICK n \in 0..NumBlocks : Ready(n)
  BY DEF MmapInv
<1>2. NumBlocks \in Nat /\ NumBlocks > 0 /\ 0 \in 0..(NumBlocks - 1)
  BY CaptureAssumption
<1>3. First \in Blocks /\ At(First, 0) = First
  BY FirstIn, AtNext DEF MmapInv
<1> DEFINE ahead == (k_blk - First) % NumBlocks
           ready == {b \in Blocks : status[b] = "user"}
           turns(m) == {(First + d) % NumBlocks : d \in 0..(m - 1)}
<1>4. ahead = IF n = NumBlocks THEN 0 ELSE n
  <2> DEFINE c == k_blk - First
  <2>1. k_blk = IF First + n < NumBlocks THEN First + n ELSE First + n - NumBlocks
    BY <1>1, <1>3, AtIs DEF Ready
  <2>2. First \in 0..(NumBlocks - 1)
    BY <1>3 DEF Blocks
  <2>3. /\ c \in Int /\ ahead = c % NumBlocks
        /\ c = n \/ c = n - NumBlocks
        /\ c = n => n < NumBlocks \/ First + n < NumBlocks
    BY <1>2, <2>1, <2>2
  <2>4. c = n => n < NumBlocks
    BY <1>2, <2>2, <2>3
  <2> HIDE DEF c, ahead
  <2>5. ASSUME NEW m \in Nat \ {0}, NEW a \in Int
        PROVE  /\ a \in 0..(m - 1) => a % m = a
               /\ a + m \in 0..(m - 1) => a % m = a + m
               /\ a = 0 => a % m = 0
    <3>1. a \in 0..(m - 1) => a % m = a
      BY Z3
    <3>2. a + m \in 0..(m - 1) => a % m = a + m
      BY Z3
    <3> QED
      BY <3>1, <3>2
  <2>6. CASE c = n
    <3>1. c \in 0..(NumBlocks - 1) /\ n # NumBlocks
      BY <1>2, <2>4, <2>6
    <3> QED
      BY <1>2, <2>3, <2>5, <2>6, <3>1
  <2>7. CASE c = n - NumBlocks /\ n # NumBlocks
    <3>1. c + NumBlocks \in 0..(NumBlocks - 1) /\ c + NumBlocks = n
      BY <1>2, <2>7
    <3> QED
      BY <1>2, <2>3, <2>5, <2>7, <3>1
  <2>8. CASE c = n - NumBlocks /\ n = NumBlocks
    <3>1. c = 0
      BY <1>2, <2>8
    <3> QED
      BY <1>2, <2>3, <2>5, <2>8, <3>1
  <2> QED
    BY <2>3, <2>6, <2>7, <2>8
<1>5. \A b \in Blocks : b \in ready <=> \E d \in 0..(n - 1) : b = At(First, d)
  <2> TAKE b \in Blocks
  <2>1. PICK e \in 0..(NumBlocks - 1) : At(First, e) = b
    BY <1>3, AtAll
  <2>2. b \in ready <=> e < n
    BY <1>1, <2>1 DEF Ready
  <2>3. ASSUME NEW d \in 0..(n - 1), b = At(First, d)
        PROVE  e < n
    <3>1. d \in 0..(NumBlocks - 1) /\ d < n
      BY <1>2
    <3>2. d = e
      BY <1>3, <2>1, <2>3, <3>1, AtApart
    <3> QED
      BY <3>1, <3>2
  <2>4. e < n => e \in 0..(n - 1)
    BY <1>2
  <2> QED
    BY <2>1, <2>2, <2>3, <2>4
<1>6. ready = turns(n)
  <2>1. turns(n) = {At(First, d) : d \in 0..(n - 1)}
    BY DEF At
  <2>2. \A d \in 0..(n - 1) : At(First, d) \in Blocks
    <3>1. \A d \in 0..(n - 1) : d \in 0..NumBlocks
      BY <1>2
    <3> QED
      BY <1>3, <3>1, AtIs
  <2> HIDE DEF turns
  <2> QED
    BY <1>5, <2>1, <2>2
<1>7. n = NumBlocks => ready = Blocks
  BY <1>3, <1>5, AtAll
<1>8. pc = "block" => ~Open(bd_ptr)
  <2> SUFFICES ASSUME pc = "block", bd_ptr = k_blk, ~frozen
               PROVE  FALSE
    BY DEF Open
  <2>1. First = k_blk /\ n >= 1 /\ n \in 0..(NumBlocks - 1)
    BY <1>1, <1>2 DEF First, Ready
  <2>2. n = 0
    BY <1>1, <1>2, <1>3, <2>1, AtApart DEF Ready
  <2> QED
    BY <2>1, <2>2
<1>9. \/ ready = turns(ahead)
      \/ ready = Blocks /\ ahead = 0
  <2> HIDE DEF ready, ahead, turns
  <2> QED
    BY <1>4, <1>6, <1>7
<1> QED
  BY <1>8, <1>9 DEF InTurn

\* The ready blocks run from the program's block up to the kernel's in every
\* behaviour of the mapped capture.
THEOREM MmapInvariant == Spec => []MmapInv
<1>1. Init => MmapInv
  BY MmapInit DEF Init
<1>2. MmapInv /\ [Next]_vars => MmapInv'
  BY MmapStep
<1> QED
  BY <1>1, <1>2, PTL DEF Spec


----------------------------------------------------------------------------
(***************************************************************************)
(* Sequences strung together, as Queue does with what is in the blocks.    *)
(***************************************************************************)

Strung(s) ==
    LET upTo[d \in 1..Len(s)] == IF d = 1 THEN s[d] ELSE upTo[d - 1] \o s[d]
    IN  upTo[Len(s)]

\* Induction over the numbers, for a set in place of a predicate.
LEMMA NatInd ==
    ASSUME NEW S, 0 \in S, \A n \in Nat : n \in S => n + 1 \in S
    PROVE  Nat \subseteq S
<1> DEFINE T == Nat \ S
<1>1. SUFFICES ASSUME T # {} PROVE FALSE
  OBVIOUS
<1>2. \E x \in T : \A y \in T : ~(<<y, x>> \in OpToRel(<, Nat))
  <2>1. T \subseteq Nat
    OBVIOUS
  <2> HIDE DEF T
  <2> QED
    BY <1>1, <2>1, NatLessThanWellFounded, WFMin
<1>3. PICK x \in T : \A y \in T : ~(<<y, x>> \in OpToRel(<, Nat))
  BY <1>2
<1>4. x # 0 /\ x \in Nat /\ x - 1 \in Nat
  OBVIOUS
<1>5. x - 1 \in T
  <2>1. x - 1 \notin S
    BY <1>4, x = (x - 1) + 1
  <2> QED
    BY <1>4, <2>1
<1>6. <<x - 1, x>> \in OpToRel(<, Nat)
  BY <1>4 DEF OpToRel
<1> QED
  BY <1>3, <1>5, <1>6

\* f[k] strings the first k sequences of s together.
Strings(f, s, n) ==
    f[1] = s[1] /\ \A k \in 2..n : f[k] = f[k - 1] \o s[k]

\* There is such a function.
LEMMA StringsExist ==
    ASSUME NEW S, NEW n \in Nat \ {0}, NEW s \in [1..n -> Seq(S)]
    PROVE  \E f \in [1..n -> Seq(S)] : Strings(f, s, n)
<1> DEFINE T == {m \in Nat : m + 1 <= n =>
                    \E f \in [1..(m + 1) -> Seq(S)] : Strings(f, s, m + 1)}
<1>1. 0 \in T
  <2> DEFINE f == [k \in 1..(0 + 1) |-> s[k]]
  <2>1. f \in [1..(0 + 1) -> Seq(S)]
    OBVIOUS
  <2>2. Strings(f, s, 0 + 1)
    BY DEF Strings
  <2> QED
    BY <2>1, <2>2
<1>2. ASSUME NEW m \in Nat, m \in T
      PROVE  m + 1 \in T
  <2> DEFINE t == (m + 1) + 1
  <2> SUFFICES ASSUME t <= n
               PROVE  \E f \in [1..t -> Seq(S)] : Strings(f, s, t)
    OBVIOUS
  <2>1. PICK g \in [1..(m + 1) -> Seq(S)] : Strings(g, s, m + 1)
    BY <1>2
  <2>2. /\ t \in 1..n /\ m + 1 \in 1..(m + 1) /\ t - 1 = m + 1 /\ t \in Nat
        /\ 1..t = (1..(m + 1)) \union {t} /\ t \notin 1..(m + 1)
        /\ 2..t = (2..(m + 1)) \union {t} /\ 1 \in 1..(m + 1)
        /\ \A k \in 2..(m + 1) : k \in 1..(m + 1) /\ k - 1 \in 1..(m + 1)
    OBVIOUS
  <2> HIDE DEF t
  <2> DEFINE f == [k \in 1..t |-> IF k = t THEN g[m + 1] \o s[t] ELSE g[k]]
  <2>3. f \in [1..t -> Seq(S)]
    <3>1. g[m + 1] \o s[t] \in Seq(S)
      BY <2>2, ConcatProperties
    <3> QED
      BY <2>2, <3>1
  <2>4. \A k \in 1..(m + 1) : f[k] = g[k]
    BY <2>2
  <2>5. f[t] = f[t - 1] \o s[t]
    BY <2>2, <2>4, Zenon
  <2> HIDE DEF f
  <2>6. f[1] = s[1]
    BY <2>1, <2>2, <2>4 DEF Strings
  <2>7. ASSUME NEW k \in 2..(m + 1)
        PROVE  f[k] = f[k - 1] \o s[k]
    BY <2>1, <2>2, <2>4, Zenon DEF Strings
  <2>8. \A k \in 2..t : f[k] = f[k - 1] \o s[k]
    BY <2>2, <2>5, <2>7, Zenon
  <2> QED
    BY <2>3, <2>6, <2>8, Zenon DEF Strings
<1>3. Nat \subseteq T
  <2> HIDE DEF T
  <2> QED
    BY <1>1, <1>2, NatInd, Zenon
<1>4. n - 1 \in T
  <2>1. n - 1 \in Nat
    OBVIOUS
  <2> HIDE DEF T
  <2> QED
    BY <1>3, <2>1
<1> QED
  BY <1>4, (n - 1) + 1 = n

\* Two such functions agree, and so Strung is what either computes.
LEMMA StrungIs ==
    ASSUME NEW S, NEW n \in Nat \ {0}, NEW s \in [1..n -> Seq(S)],
           NEW f \in [1..n -> Seq(S)], Strings(f, s, n)
    PROVE  Strung(s) = f[n]
<1> DEFINE G(g) == [k \in 1..n |-> IF k = 1 THEN s[k] ELSE g[k - 1] \o s[k]]
           h == CHOOSE g : g = G(g)
<1>1. Len(s) = n
  <2>1. s \in Seq(Seq(S)) /\ DOMAIN s = 1..n
    OBVIOUS
  <2> QED
    BY <2>1, LenProperties
<1>2. Strung(s) = h[n]
  BY <1>1 DEF Strung
<1>3. f = G(f)
  <2>1. ASSUME NEW k \in 1..n
        PROVE  f[k] = IF k = 1 THEN s[k] ELSE f[k - 1] \o s[k]
    <3>1. k # 1 => k \in 2..n
      OBVIOUS
    <3> QED
      BY <3>1, Zenon DEF Strings
  <2> QED
    BY <2>1, SMTT(30)
<1>4. h = G(h)
  BY <1>3, Zenon
<1>5. ASSUME NEW k \in 1..n
      PROVE  h[k] = IF k = 1 THEN s[k] ELSE h[k - 1] \o s[k]
  <2>1. G(h)[k] = IF k = 1 THEN s[k] ELSE h[k - 1] \o s[k]
    OBVIOUS
  <2> HIDE DEF h
  <2> QED
    BY <1>4, <2>1, Zenon
<1> HIDE DEF h
<1> DEFINE T == {m \in Nat : m + 1 <= n => h[m + 1] = f[m + 1]}
<1>6. 0 \in T
  BY <1>5 DEF Strings
<1>7. ASSUME NEW m \in Nat, m \in T
      PROVE  m + 1 \in T
  <2> SUFFICES ASSUME (m + 1) + 1 <= n
               PROVE  h[(m + 1) + 1] = f[(m + 1) + 1]
    OBVIOUS
  <2> DEFINE k == (m + 1) + 1
  <2>1. k \in 2..n /\ k \in 1..n /\ k - 1 = m + 1 /\ k # 1
    OBVIOUS
  <2>2. h[m + 1] = f[m + 1]
    BY <1>7
  <2>3. f[k] = f[k - 1] \o s[k]
    BY <2>1 DEF Strings
  <2> HIDE DEF k
  <2>4. h[k] = h[k - 1] \o s[k]
    BY <1>5, <2>1, Zenon
  <2>5. h[k] = f[k]
    BY <2>1, <2>2, <2>3, <2>4, Zenon
  <2> QED
    BY <2>5 DEF k
<1>8. Nat \subseteq T
  <2> HIDE DEF T
  <2> QED
    BY <1>6, <1>7, NatInd, Zenon
<1>9. n - 1 \in T
  <2>1. n - 1 \in Nat
    OBVIOUS
  <2> HIDE DEF T
  <2> QED
    BY <1>8, <2>1
<1> QED
  BY <1>2, <1>9, (n - 1) + 1 = n

\* Tail and Append inside a concatenation.
LEMMA TailOfConcat ==
    ASSUME NEW S, NEW a \in Seq(S), NEW b \in Seq(S), a # << >>
    PROVE  a \o b # << >> /\ Head(a \o b) = Head(a) /\ Tail(a \o b) = Tail(a) \o b
<1>1. /\ Len(a) \in Nat \ {0} /\ Len(b) \in Nat
  BY EmptySeq, LenProperties
<1>2. /\ a \o b \in Seq(S) /\ Len(a \o b) = Len(a) + Len(b)
      /\ \A k \in 1..(Len(a) + Len(b)) :
            (a \o b)[k] = IF k <= Len(a) THEN a[k] ELSE b[k - Len(a)]
  BY ConcatProperties
<1>3. a \o b # << >>
  BY <1>1, <1>2, EmptySeq
<1>4. /\ Tail(a) \in Seq(S) /\ Len(Tail(a)) = Len(a) - 1
      /\ \A k \in 1..(Len(a) - 1) : Tail(a)[k] = a[k + 1]
  BY HeadTailProperties
<1>5. /\ Tail(a \o b) \in Seq(S) /\ Len(Tail(a \o b)) = Len(a) + Len(b) - 1
      /\ \A k \in 1..(Len(a) + Len(b) - 1) : Tail(a \o b)[k] = (a \o b)[k + 1]
  BY <1>1, <1>2, <1>3, HeadTailProperties
<1>6. /\ Tail(a) \o b \in Seq(S) /\ Len(Tail(a) \o b) = Len(a) - 1 + Len(b)
      /\ \A k \in 1..(Len(a) - 1 + Len(b)) :
            (Tail(a) \o b)[k] = IF k <= Len(a) - 1 THEN Tail(a)[k] ELSE b[k - (Len(a) - 1)]
  BY <1>4, ConcatProperties
<1>7. ASSUME NEW k \in 1..(Len(a) + Len(b) - 1)
      PROVE  Tail(a \o b)[k] = (Tail(a) \o b)[k]
  <2>1. k + 1 \in 1..(Len(a) + Len(b)) /\ k \in 1..(Len(a) - 1 + Len(b))
    BY <1>1
  <2>2. CASE k <= Len(a) - 1
    <3>1. k + 1 <= Len(a) /\ k \in 1..(Len(a) - 1)
      BY <1>1, <2>2
    <3> QED
      BY <1>2, <1>4, <1>5, <1>6, <2>1, <2>2, <3>1
  <2>3. CASE ~(k <= Len(a) - 1)
    <3>1. ~(k + 1 <= Len(a)) /\ k + 1 - Len(a) = k - (Len(a) - 1)
      BY <1>1, <2>3
    <3> QED
      BY <1>2, <1>5, <1>6, <2>1, <2>3, <3>1
  <2> QED
    BY <2>2, <2>3
<1>8. Tail(a \o b) = Tail(a) \o b
  <2>1. Len(Tail(a \o b)) = Len(Tail(a) \o b)
    BY <1>1, <1>5, <1>6
  <2> QED
    BY <1>5, <1>6, <1>7, <2>1, SeqEqual
<1>9. Head(a \o b) = Head(a)
  <2>1. 1 \in 1..(Len(a) + Len(b)) /\ 1 <= Len(a)
    BY <1>1
  <2> QED
    BY <1>2, <2>1
<1> QED
  BY <1>3, <1>8, <1>9

\* Appending to the second of two sequences appends to both.
LEMMA ConcatAppend ==
    ASSUME NEW S, NEW a \in Seq(S), NEW b \in Seq(S), NEW p \in S
    PROVE  a \o Append(b, p) = Append(a \o b, p)
<1>1. <<p>> \in Seq(S)
  OBVIOUS
<1>2. a \o b \in Seq(S)
  BY ConcatProperties
<1>3. Append(b, p) = b \o <<p>>
  BY AppendIsConcat
<1>4. Append(a \o b, p) = (a \o b) \o <<p>>
  BY <1>2, AppendIsConcat
<1>5. (a \o b) \o <<p>> = a \o (b \o <<p>>)
  BY <1>1, ConcatAssociative
<1> QED
  BY <1>3, <1>4, <1>5

\* Taking the head of the first sequence takes the head of the whole.
LEMMA StrungTail ==
    ASSUME NEW S, NEW n \in Nat \ {0}, NEW s \in [1..n -> Seq(S)],
           NEW t \in [1..n -> Seq(S)], s[1] # << >>, t[1] = Tail(s[1]),
           \A k \in 2..n : t[k] = s[k]
    PROVE  /\ Strung(s) # << >> /\ Head(Strung(s)) = Head(s[1])
           /\ Strung(t) = Tail(Strung(s))
<1>1. PICK f \in [1..n -> Seq(S)] : Strings(f, s, n)
  BY StringsExist, Zenon
<1>2. PICK g \in [1..n -> Seq(S)] : Strings(g, t, n)
  BY StringsExist
<1>3. Strung(s) = f[n] /\ Strung(t) = g[n]
  <2>1. Strung(s) = f[n]
    BY <1>1, StrungIs, ZenonT(30)
  <2>2. Strung(t) = g[n]
    BY <1>2, StrungIs, ZenonT(30)
  <2> QED
    BY <2>1, <2>2
<1> DEFINE T == {m \in Nat : m + 1 <= n =>
                    /\ f[m + 1] # << >> /\ Head(f[m + 1]) = Head(s[1])
                    /\ g[m + 1] = Tail(f[m + 1])}
<1>4. 0 \in T
  BY <1>1, <1>2 DEF Strings
<1>5. ASSUME NEW m \in Nat, m \in T
      PROVE  m + 1 \in T
  <2> DEFINE k == (m + 1) + 1
  <2> SUFFICES ASSUME k <= n
               PROVE  /\ f[k] # << >> /\ Head(f[k]) = Head(s[1])
                      /\ g[k] = Tail(f[k])
    OBVIOUS
  <2>1. k \in 2..n /\ k \in 1..n /\ k - 1 = m + 1 /\ m + 1 \in 1..n
    OBVIOUS
  <2>2. /\ f[m + 1] # << >> /\ Head(f[m + 1]) = Head(s[1])
        /\ g[m + 1] = Tail(f[m + 1])
    BY <1>5
  <2> HIDE DEF k
  <2>3. f[k] = f[m + 1] \o s[k] /\ g[k] = g[m + 1] \o s[k]
    BY <1>1, <1>2, <2>1, Zenon DEF Strings
  <2>4. f[m + 1] \in Seq(S) /\ s[k] \in Seq(S)
    BY <2>1
  <2>5. /\ f[m + 1] \o s[k] # << >> /\ Head(f[m + 1] \o s[k]) = Head(f[m + 1])
        /\ Tail(f[m + 1] \o s[k]) = Tail(f[m + 1]) \o s[k]
    BY <2>2, <2>4, TailOfConcat, ZenonT(30)
  <2> QED
    BY <2>2, <2>3, <2>5, Zenon
<1>6. n - 1 \in T
  <2>1. n - 1 \in Nat
    OBVIOUS
  <2> HIDE DEF T
  <2> QED
    BY <1>4, <1>5, <2>1, NatInd, Zenon
<1>7. /\ f[n] # << >> /\ Head(f[n]) = Head(s[1]) /\ g[n] = Tail(f[n])
  BY <1>6, (n - 1) + 1 = n
<1> QED
  BY <1>3, <1>7

\* An empty sequence may go from the front to the end.
LEMMA StrungTurn ==
    ASSUME NEW S, NEW n \in Nat \ {0}, NEW s \in [1..n -> Seq(S)],
           NEW t \in [1..n -> Seq(S)], s[1] = << >>, t[n] = << >>,
           \A k \in 1..(n - 1) : t[k] = s[k + 1]
    PROVE  Strung(t) = Strung(s)
<1>1. PICK f \in [1..n -> Seq(S)] : Strings(f, s, n)
  BY StringsExist, Zenon
<1>2. PICK g \in [1..n -> Seq(S)] : Strings(g, t, n)
  BY StringsExist, Zenon
<1>3. Strung(s) = f[n] /\ Strung(t) = g[n]
  <2>1. Strung(s) = f[n]
    BY <1>1, StrungIs, ZenonT(30)
  <2>2. Strung(t) = g[n]
    BY <1>2, StrungIs, ZenonT(30)
  <2> QED
    BY <2>1, <2>2
<1>4. CASE n = 1
  <2>1. f[1] = << >> /\ g[1] = << >>
    BY <1>1, <1>2, <1>4 DEF Strings
  <2> QED
    BY <1>3, <1>4, <2>1
<1>5. CASE n # 1
  <2> DEFINE T == {m \in Nat : m + 2 <= n => g[m + 1] = f[m + 2]}
  <2>1. 0 \in T
    <3>1. 1 \in 1..(n - 1) /\ 2 \in 2..n /\ 2 \in 1..n /\ 1 + 1 = 2
      BY <1>5
    <3>2. g[1] = s[2] /\ s[2] \in Seq(S)
      BY <1>2, <3>1 DEF Strings
    <3>3. f[2] = f[2 - 1] \o s[2]
      BY <1>1, <3>1, Zenon DEF Strings
    <3>4. f[2 - 1] = << >>
      BY <1>1 DEF Strings
    <3>5. << >> \o s[2] = s[2]
      BY <3>2, ConcatEmptySeq
    <3>6. g[1] = f[2]
      BY <3>2, <3>3, <3>4, <3>5
    <3> QED
      BY <3>6, 0 + 1 = 1, 0 + 2 = 2
  <2>2. ASSUME NEW m \in Nat, m \in T
        PROVE  m + 1 \in T
    <3> DEFINE k == (m + 1) + 1
    <3> SUFFICES ASSUME (m + 1) + 2 <= n
                 PROVE  g[k] = f[(m + 1) + 2]
      OBVIOUS
    <3>1. /\ k \in 2..n /\ k \in 1..(n - 1) /\ k - 1 = m + 1 /\ k + 1 = (m + 1) + 2
          /\ k + 1 \in 2..n /\ (k + 1) - 1 = m + 2
      OBVIOUS
    <3>2. g[m + 1] = f[m + 2]
      BY <2>2
    <3> HIDE DEF k
    <3>3. g[k] = g[m + 1] \o t[k] /\ t[k] = s[k + 1]
      BY <1>2, <3>1, Zenon DEF Strings
    <3>4. f[k + 1] = f[m + 2] \o s[k + 1]
      BY <1>1, <3>1, Zenon DEF Strings
    <3>5. g[k] = f[k + 1]
      BY <3>2, <3>3, <3>4
    <3> QED
      BY <3>1, <3>5
  <2>3. n - 2 \in T
    <3>1. n - 2 \in Nat
      BY <1>5
    <3> HIDE DEF T
    <3> QED
      BY <2>1, <2>2, <3>1, NatInd
  <2>4. (n - 2) + 2 = n /\ (n - 2) + 1 = n - 1 /\ n \in 2..n /\ n \in 1..n /\ n - 1 \in 1..n
    BY <1>5
  <2>5. g[n - 1] = f[n]
    BY <2>3, <2>4
  <2>6. g[n] = g[n - 1] \o << >>
    BY <1>2, <2>4, Zenon DEF Strings
  <2>7. g[n] = f[n]
    BY <2>4, <2>5, <2>6, ConcatEmptySeq
  <2> QED
    BY <1>3, <2>7
<1> QED
  BY <1>4, <1>5

\* Appending to the last sequence that is not empty, or to an empty one after
\* it, appends to the whole.
Extends(t, s, n, j, p) ==
    /\ t[j] = Append(s[j], p)
    /\ \A k \in 1..n : k # j => t[k] = s[k]
    /\ \A k \in (j + 1)..n : s[k] = << >>

\* A frame appended to the last part that holds any is appended to the whole.
LEMMA StrungAppend ==
    ASSUME NEW S, NEW n \in Nat \ {0}, NEW s \in [1..n -> Seq(S)],
           NEW t \in [1..n -> Seq(S)], NEW j \in 1..n, NEW p \in S,
           Extends(t, s, n, j, p)
    PROVE  /\ Strung(t) = Append(Strung(s), p)
           /\ Strung(s) \in Seq(S)
<1>1. ASSUME NEW a \in Seq(S), NEW b \in Seq(S)
      PROVE  a \o Append(b, p) = Append(a \o b, p)
  BY ConcatAppend, SMTT(60)
<1>2. PICK f \in [1..n -> Seq(S)] : Strings(f, s, n)
  BY StringsExist, Zenon
<1>3. PICK g \in [1..n -> Seq(S)] : Strings(g, t, n)
  BY StringsExist, Zenon
<1>4. Strung(s) = f[n] /\ Strung(t) = g[n]
  <2>1. Strung(s) = f[n]
    BY <1>2, StrungIs, Zenon
  <2>2. Strung(t) = g[n]
    BY <1>3, StrungIs, Zenon
  <2> QED
    BY <2>1, <2>2
<1> DEFINE T == {m \in Nat : m + 1 <= n =>
                    g[m + 1] = IF m + 1 < j THEN f[m + 1] ELSE Append(f[m + 1], p)}
<1>5. 0 \in T
  <2>1. f[1] = s[1] /\ g[1] = t[1] /\ 1 \in 1..n
    BY <1>2, <1>3 DEF Strings
  <2>2. g[1] = IF 1 < j THEN f[1] ELSE Append(f[1], p)
    <3>1. CASE j = 1
      BY <2>1, <3>1 DEF Extends
    <3>2. CASE j # 1
      BY <2>1, <3>2 DEF Extends
    <3> QED
      BY <3>1, <3>2
  <2> QED
    BY <2>2
<1>6. ASSUME NEW m \in Nat, m \in T
      PROVE  m + 1 \in T
  <2> DEFINE k == (m + 1) + 1
  <2> SUFFICES ASSUME k <= n
               PROVE  g[k] = IF k < j THEN f[k] ELSE Append(f[k], p)
    OBVIOUS
  <2>1. k \in 2..n /\ k \in 1..n /\ k - 1 = m + 1 /\ m + 1 \in 1..n
    OBVIOUS
  <2>2. g[m + 1] = IF m + 1 < j THEN f[m + 1] ELSE Append(f[m + 1], p)
    BY <1>6
  <2>3. m + 1 < j <=> k <= j
    BY SMTT(30)
  <2> HIDE DEF k
  <2>4. f[k] = f[m + 1] \o s[k] /\ g[k] = g[m + 1] \o t[k]
    BY <1>2, <1>3, <2>1, Zenon DEF Strings
  <2>5. f[m + 1] \in Seq(S) /\ s[k] \in Seq(S) /\ f[k] \in Seq(S)
    BY <2>1, SMTT(30)
  <2>6. CASE k < j
    <3>1. k # j /\ k <= j
      BY <2>1, <2>6
    <3>2. t[k] = s[k] /\ g[m + 1] = f[m + 1]
      BY <2>1, <2>2, <2>3, <3>1 DEF Extends
    <3> QED
      BY <2>4, <2>6, <3>2, Zenon
  <2>7. CASE k = j
    <3>1. g[k] = f[m + 1] \o Append(s[k], p)
      <4>1. k <= j /\ t[k] = Append(s[k], p)
        BY <2>1, <2>7 DEF Extends
      <4>2. g[m + 1] = f[m + 1]
        BY <2>2, <2>3, <4>1, SMTT(30)
      <4> QED
        BY <2>4, <4>1, <4>2
    <3>2. f[m + 1] \o Append(s[k], p) = Append(f[m + 1] \o s[k], p)
      BY <1>1, <2>5
    <3>3. g[k] = Append(f[k], p)
      BY <2>4, <3>1, <3>2
    <3> QED
      BY <2>1, <2>7, <3>3
  <2>8. CASE k > j
    <3>1. k \in (j + 1)..n /\ k # j /\ ~(k <= j) /\ ~(k < j)
      BY <2>1, <2>8
    <3>2. s[k] = << >> /\ t[k] = << >>
      BY <2>1, <3>1, SMTT(30) DEF Extends
    <3>3. g[m + 1] = Append(f[m + 1], p) /\ g[m + 1] \in Seq(S)
      BY <2>1, <2>2, <2>3, <3>1
    <3>4. g[k] = g[m + 1] /\ f[k] = f[m + 1]
      BY <2>4, <2>5, <3>2, <3>3, ConcatEmptySeq
    <3> QED
      BY <3>1, <3>3, <3>4
  <2> QED
    BY <2>1, <2>6, <2>7, <2>8
<1>7. n - 1 \in T
  <2>1. n - 1 \in Nat
    OBVIOUS
  <2> HIDE DEF T
  <2> QED
    BY <1>5, <1>6, <2>1, NatInd, Zenon
<1>8. g[n] = Append(f[n], p) /\ f[n] \in Seq(S)
  BY <1>7, (n - 1) + 1 = n
<1> QED
  BY <1>4, <1>8

\* Nothing strung together is nothing.
LEMMA StrungEmpty ==
    ASSUME NEW S, NEW n \in Nat \ {0}, NEW s \in [1..n -> Seq(S)],
           \A k \in 1..n : s[k] = << >>
    PROVE  Strung(s) = << >>
<1>1. PICK f \in [1..n -> Seq(S)] : Strings(f, s, n)
  BY StringsExist
<1>2. Strung(s) = f[n]
  BY <1>1, StrungIs, Zenon
<1> DEFINE T == {m \in Nat : m + 1 <= n => f[m + 1] = << >>}
<1>3. 0 \in T
  BY <1>1 DEF Strings
<1>4. ASSUME NEW m \in Nat, m \in T
      PROVE  m + 1 \in T
  <2> DEFINE k == (m + 1) + 1
  <2> SUFFICES ASSUME k <= n
               PROVE  f[k] = << >>
    OBVIOUS
  <2>1. k \in 2..n /\ k \in 1..n /\ k - 1 = m + 1
    OBVIOUS
  <2>2. f[m + 1] = << >>
    BY <1>4
  <2> HIDE DEF k
  <2>3. f[k] = f[m + 1] \o s[k] /\ s[k] = << >>
    BY <1>1, <2>1 DEF Strings
  <2>4. << >> \o << >> = << >>
    BY EmptySeq, ConcatEmptySeq
  <2> QED
    BY <2>2, <2>3, <2>4
<1>5. n - 1 \in T
  <2>1. n - 1 \in Nat
    OBVIOUS
  <2> HIDE DEF T
  <2> QED
    BY <1>3, <1>4, <2>1, NatInd, Zenon
<1> QED
  BY <1>2, <1>5, (n - 1) + 1 = n

----------------------------------------------------------------------------
(***************************************************************************)
(* The frames not inspected yet, block by block.                           *)
(***************************************************************************)

\* What is pending in each block, and the same from the program's block on.
InBlock == [b \in Blocks |-> Pending(b)]
InOrder == [d \in 1..NumBlocks |-> InBlock[At(First, d - 1)]]

\* The d-th place in the order is d - 1 blocks on.
LEMMA PlaceIn ==
    ASSUME NEW b \in Blocks, NEW d \in 1..NumBlocks
    PROVE  d - 1 \in 0..(NumBlocks - 1) /\ d - 1 \in 0..NumBlocks /\ At(b, d - 1) \in Blocks
<1>1. NumBlocks \in Nat
  BY CaptureAssumption
<1>2. d - 1 \in 0..(NumBlocks - 1) /\ d - 1 \in 0..NumBlocks
  BY <1>1
<1> QED
  BY <1>2, AtIs

\* Queue is what is pending in the blocks, strung together in the order they are
\* read.
LEMMA OrderIs ==
    ASSUME MmapInv
    PROVE  /\ InBlock \in [Blocks -> Seq(Passing)]
           /\ InOrder \in [1..NumBlocks -> Seq(Passing)]
           /\ Queue = Strung(InOrder)
<1>1. RingTypes /\ First \in Blocks
  BY FirstIn DEF MmapInv
<1>2. ASSUME NEW b \in Blocks
      PROVE  Pending(b) \in Seq(Passing)
  <2>1. frames[b] \in Seq(Passing) /\ i + 1 \in Int /\ Len(frames[b]) \in Int
    BY <1>1 DEF RingTypes
  <2>2. \A k \in (i + 1)..Len(frames[b]) : frames[b][k] \in Passing
    <3>1. \A k \in (i + 1)..Len(frames[b]) : k \in 1..Len(frames[b])
      BY <1>1, <2>1 DEF RingTypes
    <3> QED
      BY <2>1, <3>1, ElementOfSeq
  <2>3. SubSeq(frames[b], i + 1, Len(frames[b])) \in Seq(Passing)
    BY <2>1, <2>2, SubSeqProperties
  <2>4. << >> \in Seq(Passing)
    OBVIOUS
  <2> QED
    BY <2>1, <2>3, <2>4 DEF Pending
<1>3. InBlock \in [Blocks -> Seq(Passing)]
  BY <1>2 DEF InBlock
<1>4. ASSUME NEW d \in 1..NumBlocks
      PROVE  /\ At(First, d - 1) \in Blocks
             /\ InBlock[At(First, d - 1)] = Pending((First + d - 1) % NumBlocks)
  <2>1. At(First, d - 1) \in Blocks
    BY <1>1, PlaceIn
  <2>2. First + (d - 1) = First + d - 1
    BY <1>1 DEF Blocks
  <2>3. At(First, d - 1) = (First + d - 1) % NumBlocks
    BY <2>2 DEF At
  <2> QED
    BY <2>1, <2>3 DEF InBlock
<1>5. InOrder \in [1..NumBlocks -> Seq(Passing)]
  BY <1>3, <1>4 DEF InOrder
<1>6. InOrder = [d \in 1..NumBlocks |-> Pending((First + d - 1) % NumBlocks)]
  BY <1>4 DEF InOrder
<1>7. Queue = Strung(InOrder)
  <2> DEFINE G(g) == [d \in 1..NumBlocks |->
                        IF d = 1 THEN Pending((First + d - 1) % NumBlocks)
                        ELSE g[d - 1] \o Pending((First + d - 1) % NumBlocks)]
             H(g) == [d \in 1..NumBlocks |->
                        IF d = 1 THEN InOrder[d] ELSE g[d - 1] \o InOrder[d]]
  <2>1. Len(InOrder) = NumBlocks
    BY CaptureAssumption, <1>5
  <2>2. ASSUME NEW g
        PROVE  G(g) = H(g)
    BY <1>6
  <2>3. Queue = (CHOOSE g : g = G(g))[NumBlocks]
    BY DEF Queue
  <2>4. Strung(InOrder) = (CHOOSE g : g = H(g))[NumBlocks]
    BY <2>1 DEF Strung
  <2> HIDE DEF G, H
  <2>5. (CHOOSE g : g = G(g)) = (CHOOSE g : g = H(g))
    BY <2>2
  <2> QED
    BY <2>3, <2>4, <2>5, Zenon
<1> QED
  BY <1>3, <1>5, <1>7

\* The same of the state after a step.
LEMMA OrderIsNext ==
    MmapInv' => (/\ InBlock \in [Blocks -> Seq(Passing)]
                 /\ InOrder \in [1..NumBlocks -> Seq(Passing)]
                 /\ Queue = Strung(InOrder))'
<1>1. MmapInv => /\ InBlock \in [Blocks -> Seq(Passing)]
                 /\ InOrder \in [1..NumBlocks -> Seq(Passing)]
                 /\ Queue = Strung(InOrder)
  BY OrderIs
<1> QED
  BY <1>1, PTL

\* What the inductive invariant says of the program's block and of the kernel's.
LEMMA BlockFacts ==
    ASSUME MmapInv
    PROVE  /\ pc = "block" => status[bd_ptr] = "user" /\ ~Open(bd_ptr) /\ First = bd_ptr
           /\ First \in Blocks /\ k_blk \in Blocks /\ bd_ptr \in Blocks
<1>1. PICK n \in 0..NumBlocks : Ready(n)
  BY DEF MmapInv
<1>2. NumBlocks \in Nat /\ 0 \in 0..(NumBlocks - 1)
  BY CaptureAssumption
<1>3. First \in Blocks /\ At(First, 0) = First
  BY FirstIn, AtNext DEF MmapInv
<1>4. pc = "block" => status[First] = "user"
  <2> SUFFICES ASSUME pc = "block"
               PROVE  status[First] = "user"
    OBVIOUS
  <2>1. 0 < n
    BY <1>1 DEF Ready
  <2>2. status[At(First, 0)] = "user" <=> 0 < n
    BY <1>1, <1>2 DEF Ready
  <2> QED
    BY <1>3, <2>1, <2>2
<1>5. pc = "block" => ~Open(bd_ptr) /\ First = bd_ptr
  BY MmapSafe DEF InTurn, First
<1> QED
  BY <1>3, <1>4, <1>5 DEF MmapInv, RingTypes

\* A step that changes no block's pending frames changes no queue.
LEMMA OrderStays ==
    ASSUME MmapInv, MmapInv', First' = First, InBlock' = InBlock
    PROVE  Queue' = Queue
<1>1. InOrder' = InOrder
  BY DEF InOrder
<1> QED
  BY <1>1, OrderIs, OrderIsNext


\* LoopTest enters a block with all of its frames pending; the other quiet steps
\* but Handle leave what is pending alone.
LEMMA QueueQuiet ==
    ASSUME MmapInv, MmapInv', Quiet, ~Handle
    PROVE  Queue' = Queue /\ last' = last
<1>1. status' = status /\ frames' = frames /\ k_blk' = k_blk /\ frozen' = frozen /\ First' = First
  BY QuietStays DEF ring, kernel
<1>2. CASE LoopTest
  <2>1. /\ pc = "loop" /\ bd_ptr' = bd_ptr /\ last' = last
        /\ pc' = "block" => status[bd_ptr] = "user" /\ i' = 0
    BY <1>2 DEF LoopTest, BlockReady, insp
  <2>2. ASSUME NEW b \in Blocks
        PROVE  Pending(b)' = Pending(b)
    <3>1. CASE b = bd_ptr /\ pc' = "block"
      <4>1. Pending(b)' = SubSeq(frames[b], 0 + 1, Len(frames[b]))
        BY <1>1, <2>1, <3>1 DEF Pending
      <4>2. frames[b] \in Seq(Passing) /\ 0 + 1 = 1
        BY DEF MmapInv, RingTypes
      <4>3. SubSeq(frames[b], 1, Len(frames[b])) = frames[b]
        BY <4>2, SubSeqFull
      <4> QED
        BY <2>1, <3>1, <4>1, <4>2, <4>3 DEF Pending
    <3>2. CASE ~(b = bd_ptr /\ pc' = "block")
      BY <1>1, <2>1, <3>2 DEF Pending, Open
    <3> QED
      BY <3>1, <3>2
  <2>3. InBlock' = InBlock
    BY <2>2 DEF InBlock
  <2> QED
    BY <1>1, <2>1, <2>3, OrderStays
<1>3. CASE Quiet /\ ~LoopTest
  <2>1. /\ last' = last /\ i' = i
        /\ \/ bd_ptr' = bd_ptr /\ pc' = pc
           \/ pc # "block" /\ pc' # "block"
    <3>1. CASE Socket \/ Bind \/ Attach
      BY <3>1 DEF Socket, Bind, Attach, SetupStep
    <3>2. CASE Version \/ RxRing \/ MapRing
      BY <3>2 DEF Version, RxRing, MapRing, SetupStep
    <3>3. CASE Free \/ EnterPoll \/ PollIn \/ PollError
      BY <3>3 DEF Free, EnterPoll, PollIn, PollError, insp
    <3>4. CASE Advance \/ Signal
      BY <3>4 DEF Advance, Signal, insp
    <3> QED
      BY <1>3, <3>1, <3>2, <3>3, <3>4 DEF Quiet
  <2>2. ASSUME NEW b \in Blocks
        PROVE  Pending(b)' = Pending(b)
    BY <1>1, <2>1 DEF Pending, Open
  <2>3. InBlock' = InBlock
    BY <2>2 DEF InBlock
  <2> QED
    BY <1>1, <2>1, <2>3, OrderStays
<1> QED
  BY <1>2, <1>3

\* Handle inspects the first frame of the queue.
LEMMA QueueHandle ==
    ASSUME MmapInv, MmapInv', Handle
    PROVE  Queue # << >> /\ last' = Head(Queue) /\ Queue' = Tail(Queue)
<1>1. /\ pc = "block" /\ pc' = pc /\ ~(i >= Len(frames[bd_ptr])) /\ bd_ptr' = bd_ptr
      /\ last' = frames[bd_ptr][i + 1] /\ i' = i + 1
      /\ status' = status /\ frames' = frames /\ k_blk' = k_blk /\ frozen' = frozen
  BY DEF Handle, BlockDone, ring, kernel
<1>2. First = bd_ptr /\ First' = First /\ First \in Blocks
  BY <1>1, BlockFacts DEF First
<1>3. NumBlocks \in Nat \ {0} /\ 1 \in 1..NumBlocks /\ 0 \in 0..(NumBlocks - 1)
  BY CaptureAssumption
<1> DEFINE fr == frames[bd_ptr]
<1>4. fr \in Seq(Passing) /\ i \in Nat /\ Len(fr) \in Nat /\ i + 1 \in 1..Len(fr)
  BY <1>1, <1>2 DEF MmapInv, RingTypes
<1>5. Pending(bd_ptr) = SubSeq(fr, i + 1, Len(fr))
  BY <1>1 DEF Pending
<1>6. Pending(bd_ptr)' = SubSeq(fr, (i + 1) + 1, Len(fr))
  BY <1>1 DEF Pending
<1>7. ASSUME NEW b \in Blocks, b # bd_ptr
      PROVE  Pending(b)' = Pending(b)
  BY <1>1, <1>7 DEF Pending, Open
<1> HIDE DEF fr
<1>8. /\ Head(SubSeq(fr, i + 1, Len(fr))) = fr[i + 1]
      /\ Tail(SubSeq(fr, i + 1, Len(fr))) = SubSeq(fr, (i + 1) + 1, Len(fr))
      /\ SubSeq(fr, i + 1, Len(fr)) # << >>
  <2>1. Len(fr) \in (i + 1)..Len(fr)
    BY <1>4
  <2>2. /\ Head(SubSeq(fr, i + 1, Len(fr))) = fr[i + 1]
        /\ Tail(SubSeq(fr, i + 1, Len(fr))) = SubSeq(fr, (i + 1) + 1, Len(fr))
    BY <1>4, <2>1, HeadTailOfSubSeq
  <2>3. SubSeq(fr, i + 1, Len(fr)) = <<fr[i + 1]>> \o SubSeq(fr, (i + 1) + 1, Len(fr))
    BY <1>4, <2>1, SubSeqRecursiveFirst
  <2>4. Len(SubSeq(fr, i + 1, Len(fr))) = Len(fr) - (i + 1) + 1
    <3>1. \A k \in (i + 1)..Len(fr) : fr[k] \in Passing
      <4>1. \A k \in (i + 1)..Len(fr) : k \in 1..Len(fr)
        BY <1>4
      <4> QED
        BY <1>4, <4>1, ElementOfSeq
    <3> QED
      BY <1>4, <3>1, SubSeqProperties
  <2>5. SubSeq(fr, i + 1, Len(fr)) # << >>
    <3>1. Len(fr) - (i + 1) + 1 # 0
      BY <1>4
    <3> QED
      BY <2>4, <3>1, EmptySeq, Zenon
  <2> QED
    BY <2>2, <2>5, Zenon
<1>9. /\ InBlock[bd_ptr] # << >> /\ InBlock'[bd_ptr] = Tail(InBlock[bd_ptr])
      /\ Head(InBlock[bd_ptr]) = last'
      /\ \A b \in Blocks : b # bd_ptr => InBlock'[b] = InBlock[b]
  <2>1. InBlock[bd_ptr] = SubSeq(fr, i + 1, Len(fr))
    BY <1>2, <1>5 DEF InBlock
  <2>2. InBlock'[bd_ptr] = SubSeq(fr, (i + 1) + 1, Len(fr))
    <3>1. \A b \in Blocks : InBlock'[b] = Pending(b)'
      BY DEF InBlock
    <3> QED
      BY <1>1, <1>2, <1>6, <3>1, Zenon
  <2>3. \A b \in Blocks : b # bd_ptr => InBlock'[b] = InBlock[b]
    BY <1>7 DEF InBlock
  <2>4. last' = fr[i + 1]
    BY <1>1 DEF fr
  <2> QED
    BY <1>8, <2>1, <2>2, <2>3, <2>4
<1>10. At(First, 0) = First
  BY <1>2, AtNext
<1> DEFINE s == InOrder
           t == InOrder'
<1>11. /\ s \in [1..NumBlocks -> Seq(Passing)] /\ t \in [1..NumBlocks -> Seq(Passing)]
       /\ Queue = Strung(s) /\ Queue' = Strung(t)
  BY OrderIs, OrderIsNext
<1>12. ASSUME NEW d \in 1..NumBlocks
       PROVE  /\ s[d] = InBlock[At(First, d - 1)] /\ t[d] = InBlock'[At(First, d - 1)]
              /\ At(First, d - 1) \in Blocks /\ (d # 1 => At(First, d - 1) # First)
  <2>1. At(First, d - 1) \in Blocks /\ d - 1 \in 0..(NumBlocks - 1)
    BY <1>2, PlaceIn
  <2>2. d # 1 => d - 1 # 0
    BY <1>3
  <2>3. d # 1 => At(First, d - 1) # First
    BY <1>2, <1>3, <1>10, <2>1, <2>2, AtApart
  <2> QED
    BY <1>2, <2>1, <2>3 DEF InOrder
<1>13. s[1] # << >> /\ t[1] = Tail(s[1]) /\ Head(s[1]) = last'
  BY <1>2, <1>3, <1>9, <1>10, <1>12, 1 - 1 = 0
<1>14. ASSUME NEW d \in 2..NumBlocks
       PROVE  t[d] = s[d]
  <2>1. d \in 1..NumBlocks /\ d # 1
    BY <1>3
  <2> QED
    BY <1>2, <1>9, <1>12, <2>1
<1> HIDE DEF s, t
<1>15. /\ Strung(s) # << >> /\ Head(Strung(s)) = Head(s[1])
       /\ Strung(t) = Tail(Strung(s))
  BY <1>3, <1>11, <1>13, <1>14, StrungTail, Zenon
<1> QED
  BY <1>11, <1>13, <1>15

\* The block that is released has nothing pending: it goes from the front of the
\* order to its end, and the queue stays.
LEMMA QueueRelease ==
    ASSUME MmapInv, MmapInv', Release
    PROVE  Queue' = Queue
<1>1. /\ pc = "block" /\ pc' = "advance" /\ i >= Len(frames[bd_ptr]) /\ bd_ptr' = bd_ptr
      /\ status' = [status EXCEPT ![bd_ptr] = "kernel"] /\ i' = i
      /\ frames' = frames /\ k_blk' = k_blk /\ frozen' = frozen
  BY DEF Release, Released, BlockDone, kernel
<1>2. First = bd_ptr /\ First \in Blocks /\ ~Open(bd_ptr) /\ First' = At(First, 1)
  BY <1>1, BlockFacts, ReleaseInv
<1>3. NumBlocks \in Nat \ {0} /\ 1 \in 1..NumBlocks /\ 0 \in 0..(NumBlocks - 1)
  BY CaptureAssumption
<1>4. status \in [Blocks -> {"kernel", "user"}] /\ i \in Nat /\ Len(frames[bd_ptr]) \in Nat
  BY <1>2 DEF MmapInv, RingTypes
<1>5. Pending(bd_ptr) = << >>
  <2>1. Pending(bd_ptr) = SubSeq(frames[bd_ptr], i + 1, Len(frames[bd_ptr]))
    BY <1>1 DEF Pending
  <2>2. Len(frames[bd_ptr]) < i + 1
    BY <1>1, <1>4
  <2> QED
    BY <1>4, <2>1, <2>2, SubSeqEmpty
<1>6. \A b \in Blocks : InBlock[b] = Pending(b)
  BY DEF InBlock
<1>7. \A b \in Blocks : InBlock'[b] = Pending(b)'
  BY DEF InBlock
<1>8. ASSUME NEW b \in Blocks, b # bd_ptr
      PROVE  InBlock'[b] = InBlock[b]
  <2>1. Pending(b)' = Pending(b)
    BY <1>1, <1>4, <1>8 DEF Pending, Open
  <2> QED
    BY <1>6, <1>7, <2>1
<1>9. InBlock'[bd_ptr] = << >>
  <2>1. ASSUME NEW b \in Blocks, b = bd_ptr
        PROVE  Pending(b)' = << >>
    BY <1>1, <1>2, <1>4, <2>1 DEF Pending, Open
  <2> QED
    BY <1>2, <1>7, <2>1
<1> DEFINE s == InOrder
           t == InOrder'
<1>10. /\ s \in [1..NumBlocks -> Seq(Passing)] /\ t \in [1..NumBlocks -> Seq(Passing)]
       /\ Queue = Strung(s) /\ Queue' = Strung(t)
  BY OrderIs, OrderIsNext
<1>11. /\ At(First, 0) = First /\ At(First, NumBlocks) = First
       /\ \A d \in 0..(NumBlocks - 1) : At(At(First, 1), d) = At(First, d + 1)
  BY <1>2, AtNext
<1>12. ASSUME NEW d \in 1..NumBlocks
       PROVE  s[d] = InBlock[At(First, d - 1)] /\ t[d] = InBlock'[At(First, d)]
  <2>1. d - 1 \in 0..(NumBlocks - 1) /\ (d - 1) + 1 = d
    BY <1>3
  <2>2. At(First', d - 1) = At(First, d)
    BY <1>2, <1>11, <2>1
  <2> QED
    BY <2>2 DEF InOrder
<1>13. s[1] = << >>
  BY <1>2, <1>3, <1>5, <1>6, <1>11, <1>12, 1 - 1 = 0
<1>14. t[NumBlocks] = << >>
  <2>1. NumBlocks \in 1..NumBlocks
    BY <1>3
  <2> QED
    BY <1>2, <1>9, <1>11, <1>12, <2>1
<1>15. ASSUME NEW d \in 1..(NumBlocks - 1)
       PROVE  t[d] = s[d + 1]
  <2>1. /\ d \in 1..NumBlocks /\ d + 1 \in 1..NumBlocks /\ (d + 1) - 1 = d
        /\ d \in 0..(NumBlocks - 1) /\ d # 0 /\ d \in 0..NumBlocks
    BY <1>3
  <2>2. At(First, d) \in Blocks /\ At(First, d) # First
    BY <1>2, <1>3, <1>11, <2>1, AtIs, AtApart
  <2>3. t[d] = InBlock'[At(First, d)]
    BY <1>12, <2>1
  <2>4. s[d + 1] = InBlock[At(First, d)]
    BY <1>12, <2>1
  <2> QED
    BY <1>2, <1>8, <2>2, <2>3, <2>4
<1> HIDE DEF s, t
<1>16. Strung(t) = Strung(s)
  BY <1>3, <1>10, <1>13, <1>14, <1>15, StrungTurn, ZenonT(30)
<1> QED
  BY <1>10, <1>16

\* A retired block keeps its frames, and the next one is opened empty.
LEMMA QueueRetire ==
    ASSUME MmapInv, MmapInv', KernelRetire
    PROVE  Queue' = Queue
<1>1. /\ ~frozen /\ bd_ptr' = bd_ptr /\ i' = i /\ pc' = pc
      /\ status' = [status EXCEPT ![k_blk] = "user"]
  BY DEF KernelRetire
<1>2. \/ /\ status'[k_blk'] = "kernel" /\ frozen' = FALSE
         /\ frames' = [frames EXCEPT ![k_blk'] = << >>]
      \/ frozen' = TRUE /\ frames' = frames
  BY DEF KernelRetire
<1>3. /\ status \in [Blocks -> {"kernel", "user"}] /\ frames \in [Blocks -> Seq(Passing)]
      /\ k_blk \in Blocks /\ k_blk' \in Blocks
  BY DEF MmapInv, RingTypes
<1>4. First' = First
  BY <1>1 DEF First
<1>5. pc = "block" => status[bd_ptr] = "user" /\ bd_ptr # k_blk
  BY <1>1, BlockFacts DEF Open
<1>6. ASSUME NEW b \in Blocks
      PROVE  Pending(b)' = Pending(b)
  <2>1. CASE b = k_blk
    <3>1. Pending(b) = frames[b]
      BY <1>1, <1>5, <2>1 DEF Pending, Open
    <3>2. status'[b] = "user"
      BY <1>1, <1>3, <2>1
    <3>3. frames'[b] = frames[b]
      BY <1>2, <1>3, <3>2
    <3>4. Pending(b)' = frames'[b]
      BY <1>1, <1>5, <2>1, <3>2 DEF Pending
    <3> QED
      BY <3>1, <3>3, <3>4
  <2>2. CASE b # k_blk /\ b = k_blk' /\ frozen' = FALSE
    <3>1. frames'[b] = << >> /\ status'[b] = "kernel"
      BY <1>2, <1>3, <2>2
    <3>2. status[b] = "kernel"
      BY <1>1, <1>3, <2>2, <3>1
    <3>3. ~(b = bd_ptr /\ pc = "block")
      BY <1>5, <3>2
    <3>4. Pending(b) = << >>
      BY <2>2, <3>2, <3>3 DEF Pending, Open
    <3>5. Pending(b)' = << >>
      BY <1>1, <2>2, <3>1, <3>3 DEF Pending
    <3> QED
      BY <3>4, <3>5
  <2>3. CASE b # k_blk /\ ~(b = k_blk' /\ frozen' = FALSE)
    <3>1. frames'[b] = frames[b] /\ status'[b] = status[b]
      BY <1>1, <1>2, <1>3, <2>3
    <3>2. ~Open(b) /\ ~Open(b)'
      BY <1>2, <2>3 DEF Open
    <3> QED
      BY <1>1, <3>1, <3>2 DEF Pending
  <2> QED
    BY <2>1, <2>2, <2>3, Zenon
<1>7. InBlock' = InBlock
  BY <1>6 DEF InBlock
<1> QED
  BY <1>4, <1>7, OrderStays

\* A thawed ring goes on with an empty block.
LEMMA QueueThaw ==
    ASSUME MmapInv, MmapInv', KernelThaw
    PROVE  Queue' = Queue
<1>1. /\ frozen /\ bd_ptr' = bd_ptr /\ i' = i /\ pc' = pc /\ status' = status
      /\ k_blk' = k_blk /\ frozen' = FALSE /\ status[k_blk] = "kernel"
      /\ frames' = [frames EXCEPT ![k_blk] = << >>]
  BY DEF KernelThaw
<1>2. frames \in [Blocks -> Seq(Passing)] /\ k_blk \in Blocks
  BY DEF MmapInv, RingTypes
<1>3. First' = First
  BY <1>1 DEF First
<1>4. pc = "block" => status[bd_ptr] = "user"
  BY BlockFacts
<1>5. ASSUME NEW b \in Blocks
      PROVE  Pending(b)' = Pending(b)
  <2>1. CASE b = k_blk
    <3>1. ~(b = bd_ptr /\ pc = "block") /\ frames'[b] = << >>
      BY <1>1, <1>2, <1>4, <2>1
    <3>2. Pending(b) = << >>
      BY <1>1, <2>1, <3>1 DEF Pending, Open
    <3>3. Pending(b)' = << >>
      BY <1>1, <2>1, <3>1 DEF Pending, Open
    <3> QED
      BY <3>2, <3>3
  <2>2. CASE b # k_blk
    <3>1. frames'[b] = frames[b]
      BY <1>1, <1>2, <2>2
    <3> QED
      BY <1>1, <2>2, <3>1 DEF Pending, Open
  <2> QED
    BY <2>1, <2>2
<1>6. InBlock' = InBlock
  BY <1>5 DEF InBlock
<1> QED
  BY <1>3, <1>6, OrderStays


\* The frame the kernel adds to its open block is the last one pending.
LEMMA QueueReceive ==
    ASSUME MmapInv, MmapInv', KernelReceive
    PROVE  Queue \in Seq(Passing) /\ \E p \in Passing : Queue' = Append(Queue, p)
<1>1. PICK p \in Passing : frames' = [frames EXCEPT ![k_blk] = Append(@, p)]
  BY DEF KernelReceive
<1>2. /\ ~frozen /\ status' = status /\ k_blk' = k_blk /\ frozen' = frozen
      /\ bd_ptr' = bd_ptr /\ i' = i /\ pc' = pc
  BY DEF KernelReceive, kernel
<1>3. frames \in [Blocks -> Seq(Passing)] /\ k_blk \in Blocks
  BY DEF MmapInv, RingTypes
<1>4. First' = First /\ First \in Blocks /\ (pc = "block" => First = bd_ptr /\ bd_ptr # k_blk)
  BY <1>2, BlockFacts DEF First, Open
<1>5. PICK n \in 0..NumBlocks : Ready(n)
  BY DEF MmapInv
<1>6. NumBlocks \in Nat \ {0} /\ n \in 0..(NumBlocks - 1) /\ n + 1 \in 1..NumBlocks
  BY <1>2, <1>5, CaptureAssumption DEF Ready
<1>7. \A b \in Blocks : InBlock[b] = Pending(b)
  BY DEF InBlock
<1>8. \A b \in Blocks : InBlock'[b] = Pending(b)'
  BY DEF InBlock
<1>9. InBlock'[k_blk] = Append(InBlock[k_blk], p)
  <2>1. Pending(k_blk) = frames[k_blk]
    BY <1>2, <1>4 DEF Pending, Open
  <2>2. ASSUME NEW b \in Blocks, b = k_blk
        PROVE  Pending(b)' = frames'[b]
    BY <1>2, <1>4, <2>2 DEF Pending, Open
  <2>3. frames'[k_blk] = Append(frames[k_blk], p)
    BY <1>1, <1>3
  <2> QED
    BY <1>3, <1>7, <1>8, <2>1, <2>2, <2>3
<1>10. ASSUME NEW b \in Blocks, b # k_blk
       PROVE  InBlock'[b] = InBlock[b]
  <2>1. frames'[b] = frames[b]
    BY <1>1, <1>3, <1>10
  <2>2. Pending(b)' = Pending(b)
    BY <1>2, <1>10, <2>1 DEF Pending, Open
  <2> QED
    BY <1>7, <1>8, <2>2
<1> DEFINE s == InOrder
           t == InOrder'
           j == n + 1
<1>11. /\ s \in [1..NumBlocks -> Seq(Passing)] /\ t \in [1..NumBlocks -> Seq(Passing)]
       /\ Queue = Strung(s) /\ Queue' = Strung(t)
  BY OrderIs, OrderIsNext
<1>12. ASSUME NEW d \in 1..NumBlocks
       PROVE  /\ s[d] = InBlock[At(First, d - 1)] /\ t[d] = InBlock'[At(First, d - 1)]
              /\ At(First, d - 1) \in Blocks /\ d - 1 \in 0..(NumBlocks - 1)
              /\ (d # n + 1 => At(First, d - 1) # k_blk)
  <2>1. At(First, d - 1) \in Blocks /\ d - 1 \in 0..(NumBlocks - 1)
    BY <1>4, PlaceIn
  <2>2. d # n + 1 => d - 1 # n
    BY <1>6
  <2>3. k_blk = At(First, n)
    BY <1>5 DEF Ready
  <2>4. d # n + 1 => At(First, d - 1) # k_blk
    BY <1>4, <1>6, <2>1, <2>2, <2>3, AtApart
  <2> QED
    BY <1>4, <2>1, <2>4 DEF InOrder
<1>13. t[j] = Append(s[j], p)
  <2>1. At(First, (n + 1) - 1) = k_blk
    BY <1>5, <1>6, (n + 1) - 1 = n DEF Ready
  <2> QED
    BY <1>6, <1>9, <1>12, <2>1, SMTT(30)
<1>14. ASSUME NEW d \in 1..NumBlocks, d # j
       PROVE  t[d] = s[d]
  BY <1>10, <1>12, <1>14
<1>15. ASSUME NEW d \in (j + 1)..NumBlocks
       PROVE  s[d] = << >>
  <2>1. d \in 1..NumBlocks /\ d # n + 1 /\ ~(d - 1 < n) /\ d - 1 # 0 /\ 0 \in 0..(NumBlocks - 1)
    BY <1>6
  <2> DEFINE b == At(First, d - 1)
  <2>2. b \in Blocks /\ b # k_blk /\ d - 1 \in 0..(NumBlocks - 1)
    BY <1>12, <2>1
  <2>3. b # First
    BY <1>4, <2>1, <2>2, AtNext, AtApart
  <2>4. status[b] # "user"
    BY <1>5, <2>1, <2>2, SMTT(30) DEF Ready
  <2>5. s[d] = Pending(b)
    BY <1>7, <1>12, <2>1, <2>2
  <2> HIDE DEF b
  <2>6. Pending(b) = << >>
    BY <1>4, <2>2, <2>3, <2>4 DEF Pending, Open
  <2> QED
    BY <2>5, <2>6
<1>16. j \in 1..NumBlocks
  BY <1>6
<1> HIDE DEF s, t, j
<1>17. Extends(t, s, NumBlocks, j, p)
  BY <1>13, <1>14, <1>15 DEF Extends
<1>18. Strung(t) = Append(Strung(s), p) /\ Strung(s) \in Seq(Passing)
  BY <1>6, <1>11, <1>16, <1>17, StrungAppend, Zenon
<1> QED
  BY <1>11, <1>18

\* capture_mmap accepts and inspects frames as PacketFifo says: every step adds a
\* frame at the end of the queue, or inspects the first, or leaves both alone
\* (dns_insp.c:491-542).
LEMMA MmapQueueStep ==
    ASSUME MmapInv, MmapInv', [Next]_vars
    PROVE  \/ Queue' = Queue /\ last' = last
           \/ /\ Queue \in Seq(Passing) /\ \E p \in Passing : Queue' = Append(Queue, p)
              /\ last' = last
           \/ Queue # << >> /\ last' = Head(Queue) /\ Queue' = Tail(Queue)
<1>1. CASE Quiet /\ ~Handle
  BY <1>1, QueueQuiet
<1>2. CASE Handle
  BY <1>2, QueueHandle
<1>3. CASE Release
  BY <1>3, QueueRelease DEF Release, insp
<1>4. CASE KernelRetire
  BY <1>4, QueueRetire DEF KernelRetire, insp
<1>5. CASE KernelThaw
  BY <1>5, QueueThaw, Zenon DEF KernelThaw, insp
<1>6. CASE KernelReceive
  BY <1>6, QueueReceive, Zenon DEF KernelReceive, insp
<1>7. CASE UNCHANGED vars
  <2>1. First' = First /\ InBlock' = InBlock /\ last' = last
    BY <1>7 DEF vars, ring, kernel, insp, First, InBlock, Pending, Open
  <2> QED
    BY <2>1, OrderStays
<1> QED
  BY <1>1, <1>2, <1>3, <1>4, <1>5, <1>6, <1>7 DEF Next, Program, Quiet

\* The capture begins with nothing to inspect.
LEMMA MmapQueueInit == ASSUME Idle, pc = "socket" PROVE Queue = << >>
<1>1. MmapInv /\ NumBlocks \in Nat \ {0}
  BY MmapInit, CaptureAssumption
<1>2. InOrder \in [1..NumBlocks -> Seq(Passing)] /\ Queue = Strung(InOrder)
  BY <1>1, OrderIs
<1>3. ASSUME NEW d \in 1..NumBlocks
      PROVE  InOrder[d] = << >>
  <2>1. At(First, d - 1) \in Blocks
    BY <1>1, BlockFacts, PlaceIn
  <2>2. \A b \in Blocks : Pending(b) = << >>
    BY DEF Pending, Idle
  <2> QED
    BY <2>1, <2>2 DEF InOrder, InBlock
<1> QED
  BY <1>1, <1>2, <1>3, StrungEmpty


\* What is inspected came through the filter.
LEMMA MmapLast == ASSUME MmapInv, [Next]_vars PROVE last' = last \/ last' \in Passing
<1>1. CASE Handle
  <2>1. i \in Nat /\ frames[bd_ptr] \in Seq(Passing) /\ ~(i >= Len(frames[bd_ptr]))
    BY <1>1 DEF Handle, BlockDone, MmapInv, RingTypes
  <2>2. i + 1 \in 1..Len(frames[bd_ptr])
    BY <2>1, LenProperties
  <2> QED
    BY <1>1, <2>1, <2>2, ElementOfSeq DEF Handle
<1>2. CASE Quiet /\ ~Handle
  <2>1. CASE Socket \/ Bind \/ Attach
    BY <2>1 DEF Socket, Bind, Attach, SetupStep
  <2>2. CASE Version \/ RxRing \/ MapRing
    BY <2>2 DEF Version, RxRing, MapRing, SetupStep
  <2>3. CASE Free \/ EnterPoll \/ PollIn \/ PollError \/ LoopTest \/ Advance \/ Signal
    BY <2>3, SMTT(30) DEF Free, EnterPoll, PollIn, PollError, LoopTest, Advance, Signal, insp
  <2> QED
    BY <1>2, <2>1, <2>2, <2>3 DEF Quiet
<1>3. CASE Release \/ KernelReceive \/ KernelRetire \/ KernelThaw \/ UNCHANGED vars
  BY <1>3 DEF Release, KernelReceive, KernelRetire, KernelThaw, vars, insp
<1> QED
  BY <1>1, <1>2, <1>3 DEF Next, Program, Quiet

=============================================================================
