--------------------------- MODULE XdpRingProofs ---------------------------
(***************************************************************************)
(* Proofs about XdpRing: every chunk has one owner, the fill ring is never *)
(* overrun, and capture_xdp implements PacketFifo.                         *)
(***************************************************************************)
EXTENDS XdpRing, SequenceTheorems, TLAPS

----------------------------------------------------------------------------
(***************************************************************************)
(* Ring indices.  An index counts modulo U32, an entry is its residue      *)
(* modulo PKT_NUMSLOT.                                                     *)
(***************************************************************************)

\* A number is its quotient and its remainder.
LEMMA DivMod ==
    ASSUME NEW a \in Int, NEW n \in Nat \ {0}
    PROVE  /\ a = n * (a \div n) + (a % n)
           /\ a \div n \in Int /\ a % n \in 0..(n - 1)
  BY Z3T(20)

\* There is one remainder.
LEMMA ModUnique ==
    ASSUME NEW n \in Nat \ {0}, NEW q \in Int, NEW p \in Int,
           NEW r \in 0..(n - 1), NEW s \in 0..(n - 1),
           n * q + r = n * p + s
    PROVE  r = s
<1>1. n * (q - p) = s - r
  BY Z3T(20)
<1>2. CASE q - p >= 1
  <2>1. n * (q - p) >= n * 1
    BY <1>2, Z3T(20)
  <2> QED
    BY <2>1, <1>1
<1>3. CASE q - p <= -1
  <2>1. n * (q - p) <= -n
    BY <1>3, Z3T(20)
  <2> QED
    BY <2>1, <1>1
<1>4. CASE q = p
  BY <1>4, <1>1
<1> QED
  BY <1>2, <1>3, <1>4

\* A multiple of the modulus makes no difference.
LEMMA ModAdd ==
    ASSUME NEW a \in Int, NEW n \in Nat \ {0}, NEW q \in Int
    PROVE  (a + n * q) % n = a % n
<1> DEFINE b == a + n * q
           d == a \div n
           e == b \div n
<1>1. b \in Int /\ b = a + n * q
  BY Z3T(20)
<1>2. a = n * d + (a % n) /\ d \in Int /\ a % n \in 0..(n - 1)
  BY DivMod
<1>3. b = n * e + (b % n) /\ e \in Int /\ b % n \in 0..(n - 1)
  BY DivMod, <1>1
<1> HIDE DEF b, d, e
<1>4. n * (d + q) = n * d + n * q /\ d + q \in Int
  BY <1>2, Z3T(20)
<1>5. n * (d + q) + (a % n) = n * e + (b % n)
  BY <1>1, <1>2, <1>3, <1>4
<1>6. a % n = b % n
  BY <1>2, <1>3, <1>4, <1>5, ModUnique, Zenon
<1> QED
  BY <1>6 DEF b

\* Within one turn of the modulus the remainder is a matter of adding it.
LEMMA ModNear ==
    ASSUME NEW a \in Int, NEW n \in Nat \ {0}
    PROVE  /\ a \in 0..(n - 1) => a % n = a
           /\ a \in n..(2 * n - 1) => a % n = a - n
           /\ a \in (-n)..(-1) => a % n = a + n
<1>1. a \in 0..(n - 1) => a % n = a
  BY Z3
<1>2. a \in n..(2 * n - 1) => a % n = a - n
  BY Z3
<1>3. a \in (-n)..(-1) => a % n = a + n
  BY Z3
<1> QED
  BY <1>1, <1>2, <1>3

\* How far it is from one index to another.
LEMMA DistIs ==
    ASSUME NEW a \in Index, NEW b \in Index
    PROVE  Dist(a, b) = IF b >= a THEN b - a ELSE b - a + U32
<1>1. a \in 0..(U32 - 1) /\ b \in 0..(U32 - 1) /\ U32 \in Nat \ {0}
  BY CaptureAssumption DEF Index
<1> DEFINE c == b - a
<1>2. c \in Int /\ c = b - a /\ Dist(a, b) = c % U32
  BY <1>1 DEF Dist
<1> HIDE DEF c
<1>3. CASE b >= a
  <2>1. c \in 0..(U32 - 1)
    BY <1>1, <1>2, <1>3
  <2> QED
    BY <1>1, <1>2, <1>3, <2>1, ModNear, Zenon
<1>4. CASE ~(b >= a)
  <2>1. c \in (-U32)..(-1)
    BY <1>1, <1>2, <1>4
  <2> QED
    BY <1>1, <1>2, <1>4, <2>1, ModNear, Zenon
<1> QED
  BY <1>3, <1>4

\* The index after another.
LEMMA SuccIs ==
    ASSUME NEW a \in Index
    PROVE  Succ(a) = IF a = U32 - 1 THEN 0 ELSE a + 1
<1>1. a \in 0..(U32 - 1) /\ U32 \in Nat \ {0}
  BY CaptureAssumption DEF Index
<1> DEFINE c == a + 1
<1>2. c \in Int /\ c = a + 1 /\ Succ(a) = c % U32
  BY <1>1 DEF Succ
<1> HIDE DEF c
<1>3. CASE a = U32 - 1
  <2>1. c \in U32..(2 * U32 - 1)
    BY <1>1, <1>2, <1>3
  <2> QED
    BY <1>1, <1>2, <1>3, <2>1, ModNear
<1>4. CASE a # U32 - 1
  <2>1. c \in 0..(U32 - 1)
    BY <1>1, <1>2, <1>4
  <2> QED
    BY <1>1, <1>2, <1>4, <2>1, ModNear, Zenon
<1> QED
  BY <1>3, <1>4

\* An entry is one of the ring's.
LEMMA SlotIn ==
    ASSUME NEW a \in Int
    PROVE  Slot(a) \in Slots
  BY DivMod, CaptureAssumption DEF Slot, Slots

\* Indices wrap where the entries do, as the ring's size divides U32.
LEMMA SlotWraps ==
    ASSUME NEW a \in Int
    PROVE  Slot(a + U32) = Slot(a)
<1> DEFINE q == U32 \div PKT_NUMSLOT
<1>1. U32 = PKT_NUMSLOT * q /\ q \in Int /\ PKT_NUMSLOT \in Nat \ {0}
  BY DivMod, CaptureAssumption
<1> HIDE DEF q
<1>2. (a + PKT_NUMSLOT * q) % PKT_NUMSLOT = a % PKT_NUMSLOT
  BY <1>1, ModAdd, Zenon
<1> QED
  BY <1>1, <1>2 DEF Slot

\* The entries from the next index on.
LEMMA SlotSucc ==
    ASSUME NEW a \in Index, NEW d \in Int
    PROVE  Slot(Succ(a) + d) = Slot(a + (d + 1))
<1>1. a \in Int /\ U32 \in Int
  BY CaptureAssumption DEF Index
<1>2. CASE a = U32 - 1
  <2>1. a + (d + 1) = d + U32 /\ Succ(a) + d = d
    BY <1>1, <1>2, SuccIs
  <2> QED
    BY <2>1, SlotWraps
<1>3. CASE a # U32 - 1
  <2>1. Succ(a) + d = a + (d + 1)
    BY <1>1, <1>3, SuccIs
  <2> QED
    BY <2>1
<1> QED
  BY <1>2, <1>3

\* The entry as far off as another index is that index's entry.
LEMMA SlotDist ==
    ASSUME NEW a \in Index, NEW b \in Index
    PROVE  Slot(a + Dist(a, b)) = Slot(b)
<1>1. a \in Int /\ b \in Int /\ U32 \in Int
  BY CaptureAssumption DEF Index
<1>2. CASE b >= a
  <2>1. a + Dist(a, b) = b
    BY <1>1, <1>2, DistIs
  <2> QED
    BY <2>1
<1>3. CASE ~(b >= a)
  <2>1. a + Dist(a, b) = b + U32
    BY <1>1, <1>3, DistIs
  <2> QED
    BY <1>1, <2>1, SlotWraps
<1> QED
  BY <1>2, <1>3

\* Less than a turn of the ring apart, entries differ.
LEMMA SlotApart ==
    ASSUME NEW a \in Int, NEW d \in Slots, NEW e \in Slots,
           Slot(a + d) = Slot(a + e)
    PROVE  d = e
<1> DEFINE n == PKT_NUMSLOT
           x == a + d
           y == a + e
           p == x \div n
           q == y \div n
           r == x % n
<1>1. n \in Nat \ {0} /\ d \in 0..(n - 1) /\ e \in 0..(n - 1)
  BY CaptureAssumption DEF Slots
<1>2. x \in Int /\ x = a + d /\ y \in Int /\ y = a + e /\ x % n = y % n
  BY <1>1 DEF Slot
<1> HIDE DEF n, x, y
<1>3. /\ x = n * p + r /\ y = n * q + r
      /\ p \in Int /\ q \in Int /\ r \in 0..(n - 1)
  BY <1>1, <1>2, DivMod, Zenon
<1> HIDE DEF p, q, r
<1>4. n * (p - q) = n * p - n * q /\ p - q \in Int
  BY <1>1, <1>3, Z3T(20)
<1>5. n * (p - q) + e = n * 0 + d
  BY <1>1, <1>2, <1>3, <1>4
<1> QED
  BY <1>1, <1>4, <1>5, ModUnique

----------------------------------------------------------------------------
(***************************************************************************)
(* capture_xdp.  The chunks are in two rings and the kernel's pool.        *)
(***************************************************************************)

\* The entries of the fill ring from the kernel's on, those of the rx ring from
\* the program's on, how many there are, and the chunks the kernel keeps.
FillAt  == [d \in Nat |-> fill_descs[Slot(k_fill + d)]]
RxAt    == [d \in Nat |-> rx_descs[Slot(Unread + d)]]
FillLen == Dist(k_fill, Written)
RxLen   == Dist(Unread, k_rx)
Kept    == IF pool = {} THEN 0 ELSE 1

\* The first nf of f, the first nr of r and p are the chunks, each once.
Shared(f, nf, r, nr, p) ==
    /\ \A d, e \in 0..(nf - 1) : f[d] = f[e] => d = e
    /\ \A d, e \in 0..(nr - 1) : r[d] = r[e] => d = e
    /\ \A d \in 0..(nf - 1), e \in 0..(nr - 1) : f[d] # r[e]
    /\ \A d \in 0..(nf - 1) : f[d] \in Chunks /\ f[d] \notin p
    /\ \A d \in 0..(nr - 1) : r[d] \in Chunks /\ r[d] \notin p
    /\ p \subseteq Chunks
    /\ \A c \in Chunks : \/ c \in p
                         \/ \E d \in 0..(nf - 1) : f[d] = c
                         \/ \E d \in 0..(nr - 1) : r[d] = c

\* The indices of each ring follow each other, from the one that the other side
\* may see last to the one that runs ahead, in less than a turn of the ring.
RxOrder ==
    /\ Dist(rx_cons, Unread) + Dist(Unread, rx_prod)
          + Dist(rx_prod, k_rx) <= PKT_NUMSLOT
    /\ pc = "batch" =>
          Dist(Unread, rx_widx) + Dist(rx_widx, rx_prod)
             = Dist(Unread, rx_prod)
FillOrder ==
    Dist(fill_cons, k_fill) + Dist(k_fill, fill_prod)
       + Dist(fill_prod, Written) <= PKT_NUMSLOT

\* What the kernel took from the fill ring and has not told is in the rx ring,
\* not told either, or kept.
TakenIsThere == Dist(fill_cons, k_fill) <= Dist(rx_prod, k_rx) + Kept

\* The inductive invariant of the XDP capture.
XdpInv ==
    /\ TypeOK
    /\ pool = {} \/ \E c \in Chunks : pool = {c}
    /\ RxOrder /\ FillOrder /\ TakenIsThere
    /\ pc = "fill" => Idle
    /\ pc # "fill" => /\ FillLen + RxLen + Kept = PKT_NUMSLOT
                      /\ Shared(FillAt, FillLen, RxAt, RxLen, pool)

\* Distances are counts below U32; they grow and shrink with the index that
\* advances, and add up while they stay below a turn.
LEMMA DistCounts ==
    ASSUME NEW a \in Index, NEW b \in Index
    PROVE  /\ Dist(a, b) \in Nat /\ Dist(a, b) < U32
           /\ Dist(a, b) = 0 <=> a = b
<1>1. U32 \in Nat \ {0}
  BY CaptureAssumption
<1>2. Dist(a, b) = IF b >= a THEN b - a ELSE b - a + U32
  BY DistIs
<1> QED
  BY <1>1, <1>2 DEF Index

\* An index that advances by one moves the distance by one.
LEMMA DistAdvances ==
    ASSUME NEW a \in Index, NEW b \in Index
    PROVE  /\ Succ(b) \in Index
           /\ Dist(a, b) <= PKT_NUMSLOT - 1
                 => Dist(a, Succ(b)) = Dist(a, b) + 1
           /\ a # b => Dist(Succ(a), b) = Dist(a, b) - 1
<1>1. U32 \in Nat \ {0} /\ PKT_NUMSLOT < U32 /\ PKT_NUMSLOT \in Nat
  BY CaptureAssumption
<1>2. /\ Succ(a) = IF a = U32 - 1 THEN 0 ELSE a + 1
      /\ Succ(b) = IF b = U32 - 1 THEN 0 ELSE b + 1
  BY SuccIs
<1>3. Succ(a) \in Index /\ Succ(b) \in Index
  BY <1>1, <1>2 DEF Index
<1>4. /\ Dist(a, b) = IF b >= a THEN b - a ELSE b - a + U32
      /\ Dist(a, Succ(b)) =
            IF Succ(b) >= a THEN Succ(b) - a ELSE Succ(b) - a + U32
      /\ Dist(Succ(a), b) =
            IF b >= Succ(a) THEN b - Succ(a) ELSE b - Succ(a) + U32
  BY <1>3, DistIs
<1> QED
  BY <1>1, <1>2, <1>3, <1>4 DEF Index

\* Distances along one stretch of the ring add up.
LEMMA DistAdds ==
    ASSUME NEW a \in Index, NEW b \in Index, NEW c \in Index,
           Dist(a, b) + Dist(b, c) <= PKT_NUMSLOT
    PROVE  Dist(a, c) = Dist(a, b) + Dist(b, c)
<1>1. U32 \in Nat \ {0} /\ PKT_NUMSLOT < U32 /\ PKT_NUMSLOT \in Nat
  BY CaptureAssumption
<1>2. /\ Dist(a, b) = IF b >= a THEN b - a ELSE b - a + U32
      /\ Dist(b, c) = IF c >= b THEN c - b ELSE c - b + U32
      /\ Dist(a, c) = IF c >= a THEN c - a ELSE c - a + U32
  BY DistIs
<1> QED
  BY <1>1, <1>2 DEF Index

\* The two rings play the same part.
LEMMA SharedSwaps ==
    ASSUME NEW f, NEW nf, NEW r, NEW nr, NEW p, Shared(f, nf, r, nr, p)
    PROVE  Shared(r, nr, f, nf, p)
  BY DEF Shared

\* Taking the first of a ring into the pool.
LEMMA SharedTakes ==
    ASSUME NEW f, NEW nf \in Nat \ {0}, NEW r, NEW nr \in Nat, NEW p, NEW g,
           Shared(f, nf, r, nr, p),
           \A d \in 0..(nf - 2) : g[d] = f[d + 1]
    PROVE  Shared(g, nf - 1, r, nr, p \union {f[0]})
<1>1. 0 \in 0..(nf - 1) /\ \A d \in 0..(nf - 2) : d + 1 \in 0..(nf - 1) /\ d + 1 # 0
  OBVIOUS
<1>2. (nf - 1) - 1 = nf - 2
  OBVIOUS
<1>3. \A d, e \in 0..(nf - 2) : g[d] = g[e] => d = e
  <2> TAKE d \in 0..(nf - 2), e \in 0..(nf - 2)
  <2>1. f[d + 1] = f[e + 1] => d + 1 = e + 1
    BY <1>1 DEF Shared
  <2> QED
    BY <2>1
<1>4. \A d \in 0..(nf - 2) : /\ g[d] \in Chunks /\ g[d] \notin p /\ g[d] # f[0]
                             /\ \A e \in 0..(nr - 1) : g[d] # r[e]
  BY <1>1 DEF Shared
<1>5. \A e \in 0..(nr - 1) : r[e] # f[0]
  BY <1>1 DEF Shared
<1>6. f[0] \in Chunks
  BY <1>1 DEF Shared
<1>7. ASSUME NEW c \in Chunks
      PROVE  \/ c \in p \union {f[0]}
             \/ \E d \in 0..(nf - 2) : g[d] = c
             \/ \E d \in 0..(nr - 1) : r[d] = c
  <2>1. CASE \E d \in 0..(nf - 1) : f[d] = c
    <3> PICK d \in 0..(nf - 1) : f[d] = c
      BY <2>1
    <3>1. CASE d = 0
      BY <3>1
    <3>2. CASE d # 0
      <4>1. d - 1 \in 0..(nf - 2) /\ (d - 1) + 1 = d
        BY <3>2
      <4> QED
        BY <4>1
    <3> QED
      BY <3>1, <3>2
  <2>2. CASE ~(\E d \in 0..(nf - 1) : f[d] = c)
    BY <2>2 DEF Shared
  <2> QED
    BY <2>1, <2>2
<1> QED
  BY <1>2, <1>3, <1>4, <1>5, <1>6, <1>7 DEF Shared

\* Giving one of the pool to the end of a ring.
LEMMA SharedGives ==
    ASSUME NEW f, NEW nf \in Nat, NEW r, NEW nr \in Nat, NEW p, NEW c \in p, NEW g,
           Shared(f, nf, r, nr, p),
           \A d \in 0..(nf - 1) : g[d] = f[d], g[nf] = c
    PROVE  Shared(g, nf + 1, r, nr, p \ {c})
<1>1. /\ \A d \in 0..nf : d \in 0..(nf - 1) \/ d = nf
      /\ (nf + 1) - 1 = nf /\ nf \in 0..nf /\ 0..(nf - 1) \subseteq 0..nf
  OBVIOUS
<1>2. \A d \in 0..(nf - 1) : f[d] # c
  BY DEF Shared
<1>3. \A d \in 0..(nr - 1) : r[d] # c
  BY DEF Shared
<1>4. \A d, e \in 0..nf : g[d] = g[e] => d = e
  <2> TAKE d \in 0..nf, e \in 0..nf
  <2>1. d \in 0..(nf - 1) /\ e \in 0..(nf - 1) => (f[d] = f[e] => d = e)
    BY DEF Shared
  <2> QED
    BY <1>1, <1>2, <2>1
<1>5. \A d \in 0..nf : /\ g[d] \in Chunks /\ g[d] \notin p \ {c}
                       /\ \A e \in 0..(nr - 1) : g[d] # r[e]
  BY <1>1, <1>3 DEF Shared
<1>6. ASSUME NEW b \in Chunks
      PROVE  \/ b \in p \ {c}
             \/ \E d \in 0..nf : g[d] = b
             \/ \E d \in 0..(nr - 1) : r[d] = b
  <2>1. CASE b = c
    BY <2>1, <1>1
  <2>2. CASE b # c
    BY <2>2, <1>1 DEF Shared
  <2> QED
    BY <2>1, <2>2
<1> QED
  BY <1>1, <1>4, <1>5, <1>6 DEF Shared

\* The variables of capture_xdp keep their types.
LEMMA XdpTypes ==
    ASSUME TypeOK, Next
    PROVE  TypeOK'
<1>1. PKT_NUMSLOT \in Index /\ 0 \in Index
  BY CaptureAssumption DEF Index
<1>2. PKT_NUMSLOT % U32 = PKT_NUMSLOT
  <2>1. PKT_NUMSLOT \in 0..(U32 - 1) /\ U32 \in Nat \ {0} /\ PKT_NUMSLOT \in Int
    BY CaptureAssumption
  <2> QED
    BY <2>1, ModNear
<1>3. /\ Succ(fill_idx) \in Index /\ Succ(rx_ridx) \in Index
      /\ Succ(k_rx) \in Index /\ Succ(k_fill) \in Index
  BY DistAdvances DEF TypeOK
<1>4. /\ Slot(rx_ridx) \in Slots /\ Slot(k_fill) \in Slots
      /\ rx_descs[Slot(rx_ridx)] \in Chunks
      /\ fill_descs[Slot(k_fill)] \in Chunks
  BY SlotIn DEF TypeOK, Index
<1>5. CASE RingFill
  BY <1>1, <1>2, <1>5 DEF TypeOK, RingFill, Filled, rx, kernel,
     Slots, Chunks
<1>6. CASE \/ Publish \/ LoopTest \/ EnterPoll \/ PollIn \/ PollError
           \/ ReadIndices \/ SubmitFill \/ SubmitRx \/ Signal
           \/ KernelFlush
  BY <1>6, Zenon DEF TypeOK, Publish, LoopTest, EnterPoll, PollIn,
     PollError, ReadIndices, SubmitFill, SubmitRx, Signal,
     KernelFlush, fill, rx, kernel, local, Available
<1>7. CASE Handle
  BY <1>3, <1>4, <1>7, Zenon DEF TypeOK, Handle, Refill, Frame, rx,
     kernel
<1>8. ASSUME NEW c \in Chunks, Store(c)
      PROVE  /\ umem' \in [Chunks -> Passing \union {NoFrame}]
             /\ rx_descs' \in [Slots -> Chunks]
             /\ k_rx' \in Index /\ pool' \subseteq Chunks
  <2>1. PICK p \in Passing : umem' = [umem EXCEPT ![c] = p]
    BY <1>8, Zenon DEF Store
  <2>2. umem' \in [Chunks -> Passing \union {NoFrame}]
    BY <2>1 DEF TypeOK
  <2>3. \/ /\ rx_descs' = [rx_descs EXCEPT ![Slot(k_rx)] = c]
           /\ k_rx' = Succ(k_rx) /\ pool' = pool \ {c}
        \/ pool' = pool \union {c} /\ UNCHANGED <<rx_descs, k_rx>>
    BY <1>8 DEF Store
  <2> QED
    BY <1>3, <2>2, <2>3 DEF TypeOK
<1>9. CASE KernelReceive
  <2>1. /\ umem' \in [Chunks -> Passing \union {NoFrame}]
        /\ rx_descs' \in [Slots -> Chunks]
        /\ k_rx' \in Index /\ pool' \subseteq Chunks
        /\ k_fill' \in Index
    <3>1. CASE \E c \in pool : Store(c) /\ UNCHANGED k_fill
      BY <3>1, <1>8 DEF TypeOK
    <3>2. CASE Store(fill_descs[Slot(k_fill)]) /\ k_fill' = Succ(k_fill)
      BY <3>2, <1>3, <1>4, <1>8
    <3> QED
      BY <3>1, <3>2, <1>9 DEF KernelReceive
  <2>2. UNCHANGED <<fill_descs, fill_prod, fill_cons, rx_prod, rx_cons, rx_ridx, rx_widx,
                    fill_idx, run, pc, last>>
    BY <1>9 DEF KernelReceive, fill, local
  <2> QED
    BY <2>1, <2>2 DEF TypeOK
<1> QED
  BY <1>5, <1>6, <1>7, <1>9 DEF Next, Program

\* The indices, and what they come to, are where they should be.
LEMMA XdpIndices ==
    ASSUME TypeOK
    PROVE  /\ Written \in Index /\ Unread \in Index
           /\ FillLen \in Nat /\ RxLen \in Nat /\ Kept \in {0, 1}
  BY DistCounts DEF TypeOK, Written, Unread, FillLen, RxLen, Kept

\* A step that moves no index and no chunk.
LEMMA XdpStays ==
    ASSUME XdpInv, TypeOK', UNCHANGED <<fill, rx, umem, kernel, local>>, Written' = Written,
           Unread' = Unread, pc' = "fill" <=> pc = "fill",
           pc' = "batch" => pc = "batch"
    PROVE  XdpInv'
<1>1. /\ FillAt' = FillAt /\ RxAt' = RxAt /\ FillLen' = FillLen /\ RxLen' = RxLen
      /\ Kept' = Kept /\ pool' = pool
  BY DEF FillAt, RxAt, FillLen, RxLen, Kept, fill, rx, kernel, local
<1>2. (RxOrder /\ FillOrder /\ TakenIsThere)'
  BY <1>1 DEF XdpInv, RxOrder, FillOrder, TakenIsThere, fill, rx, kernel, local
<1>3. (pc = "fill" => Idle)'
  BY DEF XdpInv, Idle, fill, rx, kernel, local
<1>4. Shared(FillAt, FillLen, RxAt, RxLen, pool)' = Shared(FillAt, FillLen, RxAt, RxLen, pool)
  BY <1>1 DEF Shared
<1> QED
  BY <1>1, <1>2, <1>3, <1>4 DEF XdpInv

\* The contents of the rings, as long as nobody takes or gives.
LEMMA XdpSame ==
    ASSUME UNCHANGED <<fill_descs, rx_descs, k_fill, k_rx, pool>>,
           Written' = Written, Unread' = Unread
    PROVE  /\ FillLen' = FillLen /\ RxLen' = RxLen /\ Kept' = Kept
           /\ Shared(FillAt, FillLen, RxAt, RxLen, pool)
                 => Shared(FillAt, FillLen, RxAt, RxLen, pool)'
<1>1. /\ FillAt' = FillAt /\ RxAt' = RxAt /\ FillLen' = FillLen /\ RxLen' = RxLen
      /\ Kept' = Kept /\ pool' = pool
  BY DEF FillAt, RxAt, FillLen, RxLen, Kept
<1> QED
  BY <1>1 DEF Shared

\* xsk_ring_fill offers every chunk.
LEMMA RingFillInv ==
    ASSUME XdpInv, TypeOK', RingFill
    PROVE  XdpInv'
<1>1. Idle /\ pc = "fill" /\ pc' = "publish"
  BY DEF XdpInv, RingFill
<1>2. PKT_NUMSLOT % U32 = PKT_NUMSLOT /\ PKT_NUMSLOT \in Nat /\ PKT_NUMSLOT > 0
  <2>1. PKT_NUMSLOT \in 0..(U32 - 1) /\ U32 \in Nat \ {0} /\ PKT_NUMSLOT \in Nat \ {0}
    BY CaptureAssumption
  <2> QED
    BY <2>1, ModNear
<1>3. /\ fill_descs' = [s \in Slots |-> s] /\ fill_idx' = PKT_NUMSLOT
      /\ fill_prod' = 0 /\ fill_cons' = 0 /\ k_fill' = 0 /\ k_rx' = 0 /\ pool' = {}
      /\ rx_prod' = 0 /\ rx_cons' = 0
  BY <1>1, <1>2 DEF RingFill, Filled, Idle, rx, kernel
<1>4. Written' = PKT_NUMSLOT /\ Unread' = 0
  BY <1>1, <1>3 DEF Written, Unread
<1>5. 0 \in Index /\ PKT_NUMSLOT \in Index
  BY CaptureAssumption DEF Index
<1>6. Dist(0, 0) = 0 /\ Dist(0, PKT_NUMSLOT) = PKT_NUMSLOT
  BY <1>2, <1>5, DistIs
<1>7. (RxOrder /\ FillOrder /\ TakenIsThere)'
  BY <1>1, <1>2, <1>3, <1>4, <1>6 DEF RxOrder, FillOrder, TakenIsThere, Kept
<1>8. FillLen' = PKT_NUMSLOT /\ RxLen' = 0 /\ Kept' = 0
  BY <1>3, <1>4, <1>6 DEF FillLen, RxLen, Kept
<1>9. \A d \in Slots : FillAt'[d] = d
  <2> TAKE d \in Slots
  <2>1. d \in 0..(PKT_NUMSLOT - 1) /\ d \in Nat /\ d \in Int /\ 0 + d = d
    BY <1>2 DEF Slots
  <2>2. Slot(d) = d
    BY <1>2, <2>1, ModNear DEF Slot
  <2> QED
    BY <1>3, <2>1, <2>2 DEF FillAt
<1>10. Shared(FillAt, FillLen, RxAt, RxLen, pool)'
  BY <1>2, <1>3, <1>8, <1>9 DEF Shared, Slots, Chunks
<1> QED
  BY <1>1, <1>2, <1>3, <1>7, <1>8, <1>10 DEF XdpInv

\* The program tells how far it has written the fill ring.
LEMMA FillToldInv ==
    ASSUME XdpInv, TypeOK', Publish \/ SubmitFill
    PROVE  XdpInv'
<1>1. /\ UNCHANGED <<fill_descs, fill_cons, rx_descs, rx_prod, rx_cons, umem, k_fill, k_rx,
                     pool, rx_ridx, rx_widx, fill_idx>>
      /\ fill_prod' = fill_idx /\ pc' # "batch" /\ pc' # "fill" /\ pc # "fill"
      /\ Written = fill_idx
  BY DEF Publish, SubmitFill, rx, kernel, local, Written
<1>2. Written' = fill_idx /\ Unread' = Unread
  BY <1>1 DEF Publish, SubmitFill, Written, Unread
<1>3. /\ FillLen' = FillLen /\ RxLen' = RxLen /\ Kept' = Kept
      /\ Shared(FillAt, FillLen, RxAt, RxLen, pool)'
  BY <1>1, <1>2, XdpSame DEF XdpInv
<1>4. RxOrder' /\ TakenIsThere'
  BY <1>1, <1>2, <1>3 DEF XdpInv, RxOrder, TakenIsThere
<1>5. FillOrder'
  <2>1. /\ fill_cons \in Index /\ k_fill \in Index /\ fill_prod \in Index
        /\ fill_idx \in Index
    BY DEF XdpInv, TypeOK
  <2>2. /\ Dist(fill_cons, k_fill) \in Nat /\ Dist(k_fill, fill_prod) \in Nat
        /\ Dist(fill_prod, fill_idx) \in Nat /\ PKT_NUMSLOT \in Nat
        /\ Dist(fill_idx, fill_idx) = 0
    BY <2>1, DistCounts, CaptureAssumption
  <2>3. Dist(fill_cons, k_fill) + Dist(k_fill, fill_prod)
           + Dist(fill_prod, fill_idx) <= PKT_NUMSLOT
    BY <1>1 DEF XdpInv, FillOrder
  <2>4. Dist(k_fill, fill_idx) = Dist(k_fill, fill_prod) + Dist(fill_prod, fill_idx)
    BY <2>1, <2>2, <2>3, DistAdds
  <2> QED
    BY <1>1, <1>2, <2>2, <2>3, <2>4 DEF FillOrder
<1> QED
  BY <1>1, <1>3, <1>4, <1>5 DEF XdpInv

\* The program tells how far it has read the rx ring.
LEMMA RxToldInv ==
    ASSUME XdpInv, TypeOK', SubmitRx
    PROVE  XdpInv'
<1>1. /\ UNCHANGED <<fill_descs, fill_prod, fill_cons, rx_descs, rx_prod, umem, k_fill, k_rx,
                     pool, rx_ridx, rx_widx, fill_idx>>
      /\ rx_cons' = rx_ridx /\ pc' # "batch" /\ pc' # "fill" /\ pc # "fill"
      /\ Unread = rx_ridx
  BY DEF SubmitRx, fill, kernel, local, Unread
<1>2. Written' = Written /\ Unread' = rx_ridx
  BY <1>1 DEF SubmitRx, Written, Unread
<1>3. /\ FillLen' = FillLen /\ RxLen' = RxLen /\ Kept' = Kept
      /\ Shared(FillAt, FillLen, RxAt, RxLen, pool)'
  BY <1>1, <1>2, XdpSame DEF XdpInv
<1>4. FillOrder' /\ TakenIsThere'
  BY <1>1, <1>2, <1>3 DEF XdpInv, FillOrder, TakenIsThere
<1>5. RxOrder'
  <2>1. /\ rx_cons \in Index /\ rx_ridx \in Index /\ rx_prod \in Index
        /\ k_rx \in Index
    BY DEF XdpInv, TypeOK
  <2>2. /\ Dist(rx_cons, rx_ridx) \in Nat /\ Dist(rx_ridx, rx_prod) \in Nat
        /\ Dist(rx_prod, k_rx) \in Nat /\ PKT_NUMSLOT \in Nat
        /\ Dist(rx_ridx, rx_ridx) = 0
    BY <2>1, DistCounts, CaptureAssumption
  <2>3. Dist(rx_cons, rx_ridx) + Dist(rx_ridx, rx_prod)
           + Dist(rx_prod, k_rx) <= PKT_NUMSLOT
    BY <1>1 DEF XdpInv, RxOrder
  <2> QED
    BY <1>1, <1>2, <2>2, <2>3 DEF RxOrder
<1> QED
  BY <1>1, <1>3, <1>4, <1>5 DEF XdpInv

\* The program reads the indices for a batch.
LEMMA ReadIndicesInv ==
    ASSUME XdpInv, TypeOK', ReadIndices
    PROVE  XdpInv'
<1>1. /\ UNCHANGED <<fill_descs, fill_prod, fill_cons, rx_descs, rx_prod, rx_cons, umem,
                     k_fill, k_rx, pool>>
      /\ rx_ridx' = rx_cons /\ rx_widx' = rx_prod /\ fill_idx' = fill_prod
      /\ pc = "read" /\ pc' = "batch"
  BY DEF ReadIndices, fill, rx, kernel, Available
<1>2. Written' = Written /\ Unread' = Unread
  BY <1>1 DEF Written, Unread
<1>3. /\ FillLen' = FillLen /\ RxLen' = RxLen /\ Kept' = Kept
      /\ Shared(FillAt, FillLen, RxAt, RxLen, pool)'
  BY <1>1, <1>2, XdpSame DEF XdpInv
<1>4. FillOrder' /\ TakenIsThere'
  BY <1>1, <1>2, <1>3 DEF XdpInv, FillOrder, TakenIsThere
<1>5. RxOrder'
  <2>1. Unread \in Index /\ rx_prod \in Index
    BY XdpIndices DEF XdpInv, TypeOK
  <2>2. Dist(Unread, rx_prod) \in Nat /\ Dist(rx_prod, rx_prod) = 0
    BY <2>1, DistCounts
  <2> QED
    BY <1>1, <1>2, <2>2 DEF XdpInv, RxOrder
<1> QED
  BY <1>1, <1>3, <1>4, <1>5 DEF XdpInv

\* The kernel tells how far it has come in both rings.
LEMMA FlushInv ==
    ASSUME XdpInv, TypeOK', KernelFlush
    PROVE  XdpInv'
<1>1. /\ UNCHANGED <<fill_descs, fill_prod, rx_descs, rx_cons, umem, k_fill, k_rx, pool,
                     rx_ridx, rx_widx, fill_idx, pc>>
      /\ rx_prod' = k_rx /\ fill_cons' = k_fill
  BY DEF KernelFlush, kernel, local
<1>2. Written' = Written /\ Unread' = Unread
  BY <1>1 DEF Written, Unread
<1>3. /\ FillLen' = FillLen /\ RxLen' = RxLen /\ Kept' = Kept
      /\ pc # "fill" => Shared(FillAt, FillLen, RxAt, RxLen, pool)'
  BY <1>1, <1>2, XdpSame DEF XdpInv
<1>4. /\ fill_cons \in Index /\ k_fill \in Index /\ fill_prod \in Index
      /\ rx_cons \in Index /\ rx_prod \in Index /\ k_rx \in Index
      /\ rx_ridx \in Index /\ rx_widx \in Index /\ PKT_NUMSLOT \in Nat
      /\ Written \in Index /\ Unread \in Index /\ Kept \in {0, 1}
  BY XdpIndices, CaptureAssumption DEF XdpInv, TypeOK
<1>5. FillOrder' /\ TakenIsThere'
  <2>1. /\ Dist(k_fill, k_fill) = 0 /\ Dist(k_rx, k_rx) = 0
        /\ Dist(fill_cons, k_fill) \in Nat /\ Dist(k_fill, fill_prod) \in Nat
        /\ Dist(fill_prod, Written) \in Nat
    BY <1>4, DistCounts
  <2> QED
    BY <1>1, <1>2, <1>3, <1>4, <2>1 DEF XdpInv, FillOrder, TakenIsThere
<1>6. RxOrder'
  <2>1. /\ Dist(k_rx, k_rx) = 0 /\ Dist(rx_prod, k_rx) \in Nat
        /\ Dist(rx_cons, Unread) \in Nat /\ Dist(Unread, rx_prod) \in Nat
        /\ Dist(Unread, rx_widx) \in Nat /\ Dist(rx_widx, rx_prod) \in Nat
        /\ Dist(Unread, rx_prod) \in Nat
    BY <1>4, DistCounts
  <2>2. Dist(rx_cons, Unread) + Dist(Unread, rx_prod)
          + Dist(rx_prod, k_rx) <= PKT_NUMSLOT
    BY DEF XdpInv, RxOrder
  <2>3. Dist(Unread, k_rx) = Dist(Unread, rx_prod) + Dist(rx_prod, k_rx)
    BY <1>4, <2>1, <2>2, DistAdds
  <2>4. pc = "batch" =>
           Dist(Unread, rx_widx) + Dist(rx_widx, k_rx) = Dist(Unread, k_rx)
    <3> SUFFICES ASSUME pc = "batch"
                 PROVE  Dist(Unread, rx_widx) + Dist(rx_widx, k_rx)
                           = Dist(Unread, k_rx)
      OBVIOUS
    <3>1. Dist(Unread, rx_widx) + Dist(rx_widx, rx_prod)
             = Dist(Unread, rx_prod)
      BY DEF XdpInv, RxOrder
    <3>2. Dist(rx_widx, rx_prod) + Dist(rx_prod, k_rx) <= PKT_NUMSLOT
      BY <2>1, <2>2, <3>1, <1>4
    <3>3. Dist(rx_widx, k_rx) = Dist(rx_widx, rx_prod) + Dist(rx_prod, k_rx)
      BY <1>4, <3>2, DistAdds
    <3> QED
      BY <2>1, <2>3, <3>1, <3>3
  <2> QED
    BY <1>1, <1>2, <1>4, <2>1, <2>2, <2>3, <2>4 DEF RxOrder
<1>7. pc = "fill" => UNCHANGED <<rx_prod, fill_cons>>
  BY <1>1 DEF XdpInv, Idle
<1>8. (pc = "fill" => Idle)'
  BY <1>1, <1>7 DEF XdpInv, Idle
<1> QED
  BY <1>1, <1>3, <1>5, <1>6, <1>8 DEF XdpInv

\* The entry at the end of a ring that is not full is none of those before it.
LEMMA EndIsFree ==
    ASSUME NEW a \in Index, NEW b \in Index, Dist(a, b) <= PKT_NUMSLOT - 1
    PROVE  /\ Slot(a + Dist(a, b)) = Slot(b) /\ Slot(b) \in Slots
           /\ \A d \in 0..(Dist(a, b) - 1) :
                 Slot(a + d) \in Slots /\ Slot(a + d) # Slot(b)
<1>1. a \in Int /\ b \in Int /\ PKT_NUMSLOT \in Nat /\ Dist(a, b) \in Nat
  BY DistCounts, CaptureAssumption DEF Index
<1>2. Slot(a + Dist(a, b)) = Slot(b) /\ Slot(b) \in Slots
  BY <1>1, SlotDist, SlotIn
<1>3. ASSUME NEW d \in 0..(Dist(a, b) - 1)
      PROVE  Slot(a + d) \in Slots /\ Slot(a + d) # Slot(b)
  <2>1. d \in Slots /\ Dist(a, b) \in Slots /\ d # Dist(a, b)
    BY <1>1 DEF Slots
  <2>2. Slot(a + d) # Slot(a + Dist(a, b))
    BY <1>1, <2>1, SlotApart, Zenon
  <2> QED
    BY <1>1, <1>2, <2>2, SlotIn
<1> QED
  BY <1>2, <1>3

\* What a frame to handle in a batch means for the two rings.
LEMMA HandleCounts ==
    ASSUME XdpInv, pc = "batch", Unread # rx_widx
    PROVE  /\ Dist(Unread, rx_prod) >= 1 /\ Unread # rx_prod /\ Unread # k_rx
           /\ RxLen = Dist(Unread, rx_prod) + Dist(rx_prod, k_rx)
           /\ FillLen = Dist(k_fill, fill_prod) + Dist(fill_prod, Written)
           /\ Dist(fill_cons, k_fill) + FillLen <= PKT_NUMSLOT - 1
<1>1. /\ fill_cons \in Index /\ k_fill \in Index /\ fill_prod \in Index
      /\ rx_cons \in Index /\ rx_prod \in Index /\ k_rx \in Index
      /\ Unread \in Index /\ rx_widx \in Index /\ Written \in Index
      /\ PKT_NUMSLOT \in Nat /\ Kept \in {0, 1}
  BY XdpIndices, CaptureAssumption DEF XdpInv, TypeOK
<1>2. /\ Dist(rx_cons, Unread) \in Nat /\ Dist(Unread, rx_prod) \in Nat
      /\ Dist(rx_prod, k_rx) \in Nat /\ Dist(Unread, rx_widx) \in Nat
      /\ Dist(rx_widx, rx_prod) \in Nat /\ Dist(Unread, rx_widx) # 0
      /\ Dist(Unread, Unread) = 0
      /\ Dist(fill_cons, k_fill) \in Nat /\ Dist(k_fill, fill_prod) \in Nat
      /\ Dist(fill_prod, Written) \in Nat
  BY <1>1, DistCounts
<1>3. /\ Dist(rx_cons, Unread) + Dist(Unread, rx_prod)
            + Dist(rx_prod, k_rx) <= PKT_NUMSLOT
      /\ Dist(Unread, rx_widx) + Dist(rx_widx, rx_prod) = Dist(Unread, rx_prod)
      /\ Dist(fill_cons, k_fill) + Dist(k_fill, fill_prod)
            + Dist(fill_prod, Written) <= PKT_NUMSLOT
      /\ Dist(fill_cons, k_fill) <= Dist(rx_prod, k_rx) + Kept
      /\ FillLen + RxLen + Kept = PKT_NUMSLOT
  BY DEF XdpInv, RxOrder, FillOrder, TakenIsThere
<1>4. Dist(Unread, rx_prod) >= 1
  BY <1>2, <1>3
<1>5. RxLen = Dist(Unread, rx_prod) + Dist(rx_prod, k_rx)
  BY <1>1, <1>2, <1>3, DistAdds DEF RxLen
<1>6. FillLen = Dist(k_fill, fill_prod) + Dist(fill_prod, Written)
  BY <1>1, <1>2, <1>3, DistAdds DEF FillLen
<1>7. Dist(fill_cons, k_fill) + FillLen <= PKT_NUMSLOT - 1
  BY <1>1, <1>2, <1>3, <1>4, <1>5, <1>6
<1>8. Unread # rx_prod /\ Unread # k_rx
  <2>1. RxLen >= 1
    BY <1>2, <1>4, <1>5
  <2> QED
    BY <1>2, <1>4, <2>1 DEF RxLen
<1> QED
  BY <1>4, <1>5, <1>6, <1>7, <1>8

\* A frame is inspected: its chunk goes from the front of the rx ring to the end
\* of the fill ring.
LEMMA HandleMoves ==
    ASSUME XdpInv, Handle
    PROVE  /\ Unread' = Succ(Unread) /\ Written' = Succ(Written)
           /\ FillLen' = FillLen + 1 /\ RxLen' = RxLen - 1 /\ RxLen >= 1
           /\ \A d \in 0..(FillLen - 1) : FillAt'[d] = FillAt[d]
           /\ FillAt'[FillLen] = RxAt[0]
           /\ \A d \in Nat : RxAt'[d] = RxAt[d + 1]
<1>1. /\ UNCHANGED <<fill_prod, fill_cons, rx_descs, rx_prod, rx_cons, umem, k_fill, k_rx,
                     pool, rx_widx, pc>>
      /\ pc = "batch"
  BY DEF Handle, rx, kernel
<1>2. /\ Unread' = Succ(Unread) /\ Written' = Succ(Written)
      /\ Unread # rx_widx
      /\ fill_descs' = [fill_descs EXCEPT ![Slot(Written)] =
                           rx_descs[Slot(Unread)]]
  BY DEF Unread, Written, Handle, Refill
<1>3. /\ Unread # k_rx
      /\ Dist(fill_cons, k_fill) + FillLen <= PKT_NUMSLOT - 1
  BY <1>1, <1>2, HandleCounts
<1>4. /\ k_fill \in Index /\ Written \in Index /\ k_rx \in Index
      /\ Unread \in Index /\ fill_cons \in Index
      /\ FillLen \in Nat /\ RxLen \in Nat /\ PKT_NUMSLOT \in Nat
      /\ fill_descs \in [Slots -> Chunks]
  BY XdpIndices, CaptureAssumption DEF XdpInv, TypeOK
<1>5. Dist(fill_cons, k_fill) \in Nat
  BY <1>4, DistCounts
<1>6. FillLen <= PKT_NUMSLOT - 1
  BY <1>3, <1>4, <1>5
<1>7. FillLen' = FillLen + 1
  BY <1>1, <1>2, <1>3, <1>4, <1>6, DistAdvances DEF FillLen
<1>8. RxLen' = RxLen - 1 /\ RxLen >= 1
  <2>1. RxLen # 0
    BY <1>3, <1>4, DistCounts DEF RxLen
  <2> QED
    BY <1>1, <1>2, <1>3, <1>4, <2>1, DistAdvances DEF RxLen
<1>9. /\ \A d \in 0..(FillLen - 1) : fill_descs'[Slot(k_fill + d)] = fill_descs[Slot(k_fill + d)]
      /\ fill_descs'[Slot(k_fill + FillLen)] = rx_descs[Slot(Unread)]
  <2>1. Dist(k_fill, Written) <= PKT_NUMSLOT - 1
    BY <1>6 DEF FillLen
  <2>2. /\ Slot(k_fill + FillLen) = Slot(Written) /\ Slot(Written) \in Slots
        /\ \A d \in 0..(FillLen - 1) :
              Slot(k_fill + d) \in Slots /\ Slot(k_fill + d) # Slot(Written)
    BY <1>4, <2>1, EndIsFree DEF FillLen
  <2> QED
    BY <1>2, <1>4, <2>2
<1>10. \A d \in 0..(FillLen - 1) : FillAt'[d] = FillAt[d]
  BY <1>1, <1>4, <1>9 DEF FillAt
<1>11. FillAt'[FillLen] = RxAt[0]
  <2>1. Unread + 0 = Unread
    BY <1>4 DEF Index
  <2> QED
    BY <1>1, <1>4, <1>9, <2>1 DEF FillAt, RxAt
<1>12. \A d \in Nat : RxAt'[d] = RxAt[d + 1]
  <2> TAKE d \in Nat
  <2>1. RxAt'[d] = rx_descs[Slot(Succ(Unread) + d)]
    BY <1>1, <1>2 DEF RxAt
  <2>2. RxAt[d + 1] = rx_descs[Slot(Unread + (d + 1))]
    BY DEF RxAt
  <2> QED
    BY <1>4, <2>1, <2>2, SlotSucc
<1> QED
  BY <1>2, <1>3, <1>7, <1>8, <1>10, <1>11, <1>12

\* A chunk handled goes from the receive ring to the fill ring.
LEMMA HandleInv ==
    ASSUME XdpInv, TypeOK', Handle
    PROVE  XdpInv'
<1>1. /\ UNCHANGED <<fill_prod, fill_cons, rx_prod, rx_cons, k_fill, k_rx, pool, rx_widx, pc>>
      /\ pc = "batch" /\ Unread # rx_widx
  BY DEF Handle, rx, kernel, Unread
<1>2. /\ Dist(Unread, rx_prod) >= 1 /\ Unread # rx_prod
      /\ FillLen = Dist(k_fill, fill_prod) + Dist(fill_prod, Written)
      /\ Dist(fill_cons, k_fill) + FillLen <= PKT_NUMSLOT - 1
  BY <1>1, HandleCounts
<1>3. /\ Unread' = Succ(Unread) /\ Written' = Succ(Written)
      /\ FillLen' = FillLen + 1 /\ RxLen' = RxLen - 1 /\ RxLen >= 1
      /\ \A d \in 0..(FillLen - 1) : FillAt'[d] = FillAt[d]
      /\ FillAt'[FillLen] = RxAt[0]
      /\ \A d \in Nat : RxAt'[d] = RxAt[d + 1]
  BY HandleMoves
<1>4. /\ fill_cons \in Index /\ k_fill \in Index /\ fill_prod \in Index
      /\ rx_cons \in Index /\ rx_prod \in Index /\ k_rx \in Index
      /\ Unread \in Index /\ rx_widx \in Index /\ Written \in Index
      /\ FillLen \in Nat /\ RxLen \in Nat /\ PKT_NUMSLOT \in Nat /\ Kept \in {0, 1}
  BY XdpIndices, CaptureAssumption DEF XdpInv, TypeOK
<1>5. /\ Dist(rx_cons, Unread) \in Nat /\ Dist(Unread, rx_prod) \in Nat
      /\ Dist(rx_prod, k_rx) \in Nat /\ Dist(Unread, rx_widx) \in Nat
      /\ Dist(rx_widx, rx_prod) \in Nat
      /\ Dist(fill_cons, k_fill) \in Nat /\ Dist(k_fill, fill_prod) \in Nat
      /\ Dist(fill_prod, Written) \in Nat
  BY <1>4, DistCounts, SMTT(30)
<1>6. RxOrder'
  <2>1. /\ Dist(rx_cons, Unread) + Dist(Unread, rx_prod)
              + Dist(rx_prod, k_rx) <= PKT_NUMSLOT
        /\ Dist(Unread, rx_widx) + Dist(rx_widx, rx_prod)
              = Dist(Unread, rx_prod)
    BY <1>1, <1>2 DEF XdpInv, RxOrder
  <2>2. Dist(rx_cons, Unread) <= PKT_NUMSLOT - 1
    BY <1>2, <1>4, <1>5, <2>1
  <2>3. /\ Dist(rx_cons, Succ(Unread)) = Dist(rx_cons, Unread) + 1
        /\ Dist(Succ(Unread), rx_prod) = Dist(Unread, rx_prod) - 1
        /\ Dist(Succ(Unread), rx_widx) = Dist(Unread, rx_widx) - 1
    BY <1>1, <1>2, <1>4, <2>2, DistAdvances, SMTT(30)
  <2> QED
    BY <1>1, <1>3, <1>4, <1>5, <2>1, <2>3 DEF RxOrder
<1>7. FillOrder'
  <2>1. Dist(fill_prod, Written) <= PKT_NUMSLOT - 1
    BY <1>2, <1>4, <1>5
  <2>2. Dist(fill_prod, Succ(Written)) = Dist(fill_prod, Written) + 1
    BY <1>4, <2>1, DistAdvances
  <2> QED
    BY <1>1, <1>2, <1>3, <1>4, <1>5, <2>2 DEF FillOrder
<1>8. TakenIsThere' /\ Kept' = Kept
  BY <1>1 DEF XdpInv, TakenIsThere, Kept
<1>9. FillLen' + RxLen' + Kept' = PKT_NUMSLOT
  BY <1>1, <1>3, <1>4, <1>8, SMTT(30) DEF XdpInv
<1>10. Shared(FillAt, FillLen, RxAt, RxLen, pool)'
  <2>1. Shared(RxAt, RxLen, FillAt, FillLen, pool)
    BY <1>1, SharedSwaps DEF XdpInv
  <2>2. RxLen \in Nat \ {0} /\ \A d \in 0..(RxLen - 2) : RxAt'[d] = RxAt[d + 1]
    BY <1>3, <1>4
  <2>3. Shared(RxAt', RxLen - 1, FillAt, FillLen, pool \union {RxAt[0]})
    BY <1>4, <2>1, <2>2, SharedTakes
  <2>4. Shared(FillAt, FillLen, RxAt', RxLen - 1, pool \union {RxAt[0]})
    BY <2>3, SharedSwaps
  <2>5. RxAt[0] \in pool \union {RxAt[0]} /\ RxLen - 1 \in Nat
    BY <1>3, <1>4
  <2>6. Shared(FillAt', FillLen + 1, RxAt', RxLen - 1, (pool \union {RxAt[0]}) \ {RxAt[0]})
    BY <1>3, <1>4, <2>4, <2>5, SharedGives
  <2>7. RxAt[0] \notin pool
    BY <2>1, <2>2 DEF Shared
  <2>8. (pool \union {RxAt[0]}) \ {RxAt[0]} = pool'
    BY <1>1, <2>7
  <2> QED
    BY <1>3, <2>6, <2>8 DEF Shared
<1> QED
  BY <1>1, <1>6, <1>7, <1>8, <1>9, <1>10 DEF XdpInv

\* The kernel stores a frame in chunk c: it goes to the end of the rx ring, or
\* stays with the kernel.
LEMMA StoreMoves ==
    ASSUME XdpInv, NEW c \in Chunks, Store(c),
           UNCHANGED <<rx_cons, rx_prod, Unread>>
    PROVE  \/ /\ pool' = pool \ {c} /\ RxLen' = RxLen + 1 /\ RxAt'[RxLen] = c
              /\ \A d \in 0..(RxLen - 1) : RxAt'[d] = RxAt[d]
              /\ Dist(rx_prod, k_rx') = Dist(rx_prod, k_rx) + 1
              /\ Dist(rx_cons, k_rx) <= PKT_NUMSLOT - 1
           \/ /\ pool' = pool \union {c} /\ RxLen' = RxLen /\ RxAt' = RxAt /\ k_rx' = k_rx
<1>1. /\ rx_cons \in Index /\ rx_prod \in Index /\ k_rx \in Index /\ Unread \in Index
      /\ RxLen \in Nat /\ PKT_NUMSLOT \in Nat /\ rx_descs \in [Slots -> Chunks]
  BY XdpIndices, CaptureAssumption DEF XdpInv, TypeOK
<1>2. /\ Dist(rx_cons, Unread) \in Nat /\ Dist(Unread, rx_prod) \in Nat
      /\ Dist(rx_prod, k_rx) \in Nat /\ Dist(rx_cons, k_rx) \in Nat
  BY <1>1, DistCounts
<1>3. Dist(rx_cons, Unread) + Dist(Unread, rx_prod) + Dist(rx_prod, k_rx) <= PKT_NUMSLOT
  BY DEF XdpInv, RxOrder
<1>4. RxLen = Dist(Unread, rx_prod) + Dist(rx_prod, k_rx)
  BY <1>1, <1>2, <1>3, DistAdds DEF RxLen
<1>5. Dist(rx_cons, k_rx) = Dist(rx_cons, Unread) + RxLen
  BY <1>1, <1>2, <1>3, <1>4, DistAdds DEF RxLen
<1>6. CASE Dist(rx_cons, k_rx) < PKT_NUMSLOT
  <2>1. /\ rx_descs' = [rx_descs EXCEPT ![Slot(k_rx)] = c]
        /\ k_rx' = Succ(k_rx) /\ pool' = pool \ {c}
    BY <1>6 DEF Store
  <2>2. /\ Dist(Unread, k_rx) <= PKT_NUMSLOT - 1 /\ Dist(rx_prod, k_rx) <= PKT_NUMSLOT - 1
        /\ Dist(rx_cons, k_rx) <= PKT_NUMSLOT - 1
    BY <1>1, <1>2, <1>4, <1>5, <1>6 DEF RxLen
  <2>3. RxLen' = RxLen + 1 /\ Dist(rx_prod, k_rx') = Dist(rx_prod, k_rx) + 1
    BY <1>1, <2>1, <2>2, DistAdvances DEF RxLen
  <2>4. /\ \A d \in 0..(RxLen - 1) : rx_descs'[Slot(Unread + d)] = rx_descs[Slot(Unread + d)]
        /\ rx_descs'[Slot(Unread + RxLen)] = c
    <3>1. /\ Slot(Unread + RxLen) = Slot(k_rx) /\ Slot(k_rx) \in Slots
          /\ \A d \in 0..(RxLen - 1) :
                Slot(Unread + d) \in Slots /\ Slot(Unread + d) # Slot(k_rx)
      BY <1>1, <2>2, EndIsFree DEF RxLen
    <3> QED
      BY <1>1, <2>1, <3>1
  <2>5. RxAt'[RxLen] = c /\ \A d \in 0..(RxLen - 1) : RxAt'[d] = RxAt[d]
    BY <1>1, <2>4 DEF RxAt
  <2> QED
    BY <2>1, <2>2, <2>3, <2>5
<1>7. CASE ~(Dist(rx_cons, k_rx) < PKT_NUMSLOT)
  <2>1. pool' = pool \union {c} /\ rx_descs' = rx_descs /\ k_rx' = k_rx
    BY <1>7 DEF Store
  <2>2. RxLen' = RxLen /\ RxAt' = RxAt
    BY <2>1 DEF RxLen, RxAt
  <2> QED
    BY <2>1, <2>2
<1> QED
  BY <1>6, <1>7

\* If c was the only chunk it had, the chunks stay shared out.
LEMMA StoreGives ==
    ASSUME XdpInv, NEW c \in Chunks, Store(c), pool \subseteq {c},
           UNCHANGED <<rx_cons, rx_prod, Unread>>,
           NEW f, NEW n \in Nat, Shared(f, n, RxAt, RxLen, {c})
    PROVE  Shared(f, n, RxAt', RxLen', pool')
<1>1. RxLen \in Nat
  BY XdpIndices DEF XdpInv
<1>2. CASE /\ pool' = pool \ {c} /\ RxLen' = RxLen + 1 /\ RxAt'[RxLen] = c
           /\ \A d \in 0..(RxLen - 1) : RxAt'[d] = RxAt[d]
  <2>1. pool' = {} /\ {c} \ {c} = {}
    BY <1>2
  <2>2. Shared(RxAt, RxLen, f, n, {c})
    BY SharedSwaps
  <2>3. Shared(RxAt', RxLen + 1, f, n, {c} \ {c})
    BY <1>1, <1>2, <2>2, SharedGives
  <2> QED
    BY <1>2, <2>1, <2>3, SharedSwaps
<1>3. CASE pool' = pool \union {c} /\ RxLen' = RxLen /\ RxAt' = RxAt
  <2>1. pool' = {c}
    BY <1>3
  <2> QED
    BY <1>3, <2>1
<1> QED
  BY <1>2, <1>3, StoreMoves

\* A frame stored makes the receive ring longer, or is dropped and its chunk
\* kept.
LEMMA StoreCounts ==
    ASSUME XdpInv, NEW c \in Chunks, Store(c), pool \subseteq {c},
           UNCHANGED <<rx_cons, rx_prod, Unread, rx_widx, pc>>,
           NEW f, NEW n \in Nat, Shared(f, n, RxAt, RxLen, {c})
    PROVE  /\ RxOrder' /\ RxLen' + Kept' = RxLen + 1
           /\ Dist(rx_prod, k_rx') + Kept' = Dist(rx_prod, k_rx) + 1
           /\ pool' = {} \/ pool' = {c}
           /\ Shared(f, n, RxAt', RxLen', pool')
<1>1. /\ rx_cons \in Index /\ rx_prod \in Index /\ k_rx \in Index /\ Unread \in Index
      /\ RxLen \in Nat /\ PKT_NUMSLOT \in Nat
  BY XdpIndices, CaptureAssumption DEF XdpInv, TypeOK
<1>2. /\ Dist(rx_cons, Unread) \in Nat /\ Dist(Unread, rx_prod) \in Nat
      /\ Dist(rx_prod, k_rx) \in Nat /\ Dist(rx_cons, k_rx) \in Nat
  BY <1>1, DistCounts
<1>3. Dist(rx_cons, Unread) + Dist(Unread, rx_prod) + Dist(rx_prod, k_rx) <= PKT_NUMSLOT
  BY DEF XdpInv, RxOrder
<1>4. Dist(Unread, k_rx) = Dist(Unread, rx_prod) + Dist(rx_prod, k_rx)
  BY <1>1, <1>2, <1>3, DistAdds
<1>5. Dist(rx_cons, k_rx) = Dist(rx_cons, Unread) + Dist(Unread, k_rx)
  BY <1>1, <1>2, <1>3, <1>4, DistAdds
<1>6. Shared(f, n, RxAt', RxLen', pool')
  BY StoreGives
<1>7. CASE /\ pool' = pool \ {c} /\ RxLen' = RxLen + 1
           /\ Dist(rx_prod, k_rx') = Dist(rx_prod, k_rx) + 1
           /\ Dist(rx_cons, k_rx) <= PKT_NUMSLOT - 1
  <2>1. Kept' = 0 /\ pool' = {}
    BY <1>7 DEF Kept
  <2>2. Dist(rx_cons, Unread) + Dist(Unread, rx_prod) + Dist(rx_prod, k_rx') <= PKT_NUMSLOT
    BY <1>1, <1>2, <1>4, <1>5, <1>7
  <2>3. RxOrder'
    BY <2>2 DEF XdpInv, RxOrder
  <2> QED
    BY <1>1, <1>2, <1>6, <1>7, <2>1, <2>3
<1>8. CASE pool' = pool \union {c} /\ RxLen' = RxLen /\ k_rx' = k_rx
  <2>1. Kept' = 1 /\ pool' = {c}
    BY <1>8 DEF Kept
  <2>2. RxOrder'
    BY <1>8 DEF XdpInv, RxOrder
  <2> QED
    BY <1>1, <1>2, <1>6, <1>8, <2>1, <2>2
<1> QED
  BY <1>7, <1>8, StoreMoves, SMTT(30)

\* What the kernel may take from the fill ring is there.
LEMMA FillNotEmpty ==
    ASSUME XdpInv, k_fill # fill_prod
    PROVE  FillLen >= 1 /\ k_fill # Written
<1>1. /\ fill_cons \in Index /\ k_fill \in Index /\ fill_prod \in Index /\ Written \in Index
      /\ PKT_NUMSLOT \in Nat
  BY XdpIndices, CaptureAssumption DEF XdpInv, TypeOK
<1>2. /\ Dist(fill_cons, k_fill) \in Nat /\ Dist(k_fill, fill_prod) \in Nat
      /\ Dist(fill_prod, Written) \in Nat /\ Dist(k_fill, fill_prod) # 0
  BY <1>1, DistCounts
<1>3. Dist(fill_cons, k_fill) + Dist(k_fill, fill_prod) + Dist(fill_prod, Written)
         <= PKT_NUMSLOT
  BY DEF XdpInv, FillOrder
<1>4. FillLen = Dist(k_fill, fill_prod) + Dist(fill_prod, Written)
  BY <1>1, <1>2, <1>3, DistAdds DEF FillLen
<1>5. FillLen >= 1
  BY <1>2, <1>4
<1> QED
  BY <1>1, <1>5, DistCounts DEF FillLen

\* The kernel receives a frame, into a chunk it keeps or into the first of the
\* fill ring.
LEMMA ReceiveInv ==
    ASSUME XdpInv, TypeOK', KernelReceive
    PROVE  XdpInv'
<1>1. /\ UNCHANGED <<fill_descs, fill_prod, fill_cons, rx_prod, rx_cons, rx_ridx, rx_widx,
                     fill_idx, pc>>
      /\ \/ \E c \in pool : Store(c) /\ k_fill' = k_fill
         \/ pool = {} /\ k_fill # fill_prod /\ Store(fill_descs[Slot(k_fill)])
            /\ k_fill' = Succ(k_fill)
  BY DEF KernelReceive, fill, local
<1>2. Written' = Written /\ Unread' = Unread
  BY <1>1 DEF Written, Unread
<1>3. pc # "fill"
  <2> SUFFICES ASSUME pc = "fill" PROVE FALSE
    OBVIOUS
  <2>1. pool = {} /\ k_fill = 0 /\ fill_prod = 0
    BY SMTT(30) DEF XdpInv, Idle
  <2> QED
    BY <1>1, <2>1
<1>4. /\ fill_cons \in Index /\ k_fill \in Index /\ fill_prod \in Index /\ Written \in Index
      /\ rx_prod \in Index /\ k_rx \in Index /\ k_rx' \in Index
      /\ FillLen \in Nat /\ RxLen \in Nat /\ RxLen' \in Nat /\ PKT_NUMSLOT \in Nat
      /\ Kept \in {0, 1} /\ Kept' \in {0, 1} /\ pool \subseteq Chunks
      /\ fill_descs \in [Slots -> Chunks] /\ Unread \in Index
  <2>1. k_rx' \in Index
    BY DEF TypeOK
  <2>2. RxLen' \in Nat
    BY <1>2, <2>1, XdpIndices, DistCounts DEF XdpInv, RxLen
  <2> QED
    BY <2>1, <2>2, XdpIndices, CaptureAssumption DEF XdpInv, TypeOK, Kept
<1>5. /\ Dist(fill_cons, k_fill) \in Nat /\ Dist(k_fill, fill_prod) \in Nat
      /\ Dist(fill_prod, Written) \in Nat /\ Dist(rx_prod, k_rx) \in Nat
      /\ Dist(rx_prod, k_rx') \in Nat
  BY <1>4, DistCounts
<1>6. /\ Dist(fill_cons, k_fill) + Dist(k_fill, fill_prod) + Dist(fill_prod, Written)
            <= PKT_NUMSLOT
      /\ Dist(fill_cons, k_fill) <= Dist(rx_prod, k_rx) + Kept
      /\ FillLen + RxLen + Kept = PKT_NUMSLOT
      /\ Shared(FillAt, FillLen, RxAt, RxLen, pool)
  BY <1>3 DEF XdpInv, FillOrder, TakenIsThere
<1>7. ASSUME NEW c \in pool, Store(c), k_fill' = k_fill
      PROVE  XdpInv'
  <2>1. pool = {c} /\ c \in Chunks /\ Kept = 1
    BY <1>4 DEF XdpInv, Kept
  <2>2. FillAt' = FillAt /\ FillLen' = FillLen
    BY <1>1, <1>2, <1>7, SMTT(30) DEF FillAt, FillLen
  <2>3. /\ RxOrder' /\ RxLen' + Kept' = RxLen + 1
        /\ Dist(rx_prod, k_rx') + Kept' = Dist(rx_prod, k_rx) + 1
        /\ pool' = {} \/ pool' = {c}
        /\ Shared(FillAt, FillLen, RxAt', RxLen', pool')
    BY <1>1, <1>2, <1>3, <1>4, <1>6, <1>7, <2>1, StoreCounts, Zenon
  <2>4. FillOrder' /\ TakenIsThere'
    BY <1>1, <1>2, <1>4, <1>5, <1>6, <1>7, <2>1, <2>3 DEF FillOrder, TakenIsThere
  <2>5. FillLen' + RxLen' + Kept' = PKT_NUMSLOT
    <3> DEFINE r == RxLen'
               k == Kept'
    <3>1. r \in Nat
      BY <1>4
    <3>2. k \in {0, 1}
      BY <1>4
    <3>3. r + k = RxLen + 1
      BY <2>3
    <3> HIDE DEF r, k
    <3>4. FillLen + r + k = PKT_NUMSLOT
      BY <1>4, <1>6, <2>1, <3>1, <3>2, <3>3, SMTT(30)
    <3> QED
      BY <2>2, <3>4 DEF r, k
  <2>6. Shared(FillAt, FillLen, RxAt, RxLen, pool)'
    BY <2>2, <2>3, SMTT(30) DEF Shared
  <2> QED
    BY <1>1, <1>3, <2>1, <2>3, <2>4, <2>5, <2>6, SMTT(30) DEF XdpInv
<1>8. CASE /\ pool = {} /\ k_fill # fill_prod /\ Store(fill_descs[Slot(k_fill)])
           /\ k_fill' = Succ(k_fill)
  <2> DEFINE c == fill_descs[Slot(k_fill)]
  <2>1. c = FillAt[0] /\ c \in Chunks
    <3>1. k_fill + 0 = k_fill /\ k_fill \in Int
      BY <1>4 DEF Index
    <3> QED
      BY <1>4, <3>1, SlotIn DEF FillAt
  <2>2. FillLen >= 1 /\ k_fill # Written
    BY <1>8, FillNotEmpty, SMTT(30)
  <2>3. /\ FillLen' = FillLen - 1
        /\ Dist(k_fill', fill_prod) = Dist(k_fill, fill_prod) - 1
        /\ Dist(fill_cons, k_fill') = Dist(fill_cons, k_fill) + 1
    <3>1. Dist(fill_cons, k_fill) <= PKT_NUMSLOT - 1
      <4>1. Dist(k_fill, fill_prod) # 0
        BY <1>4, <1>8, DistCounts
      <4> QED
        BY <1>4, <1>5, <1>6, <4>1
    <3> QED
      BY <1>1, <1>2, <1>4, <1>8, <2>2, <3>1, DistAdvances DEF FillLen
  <2>4. \A d \in Nat : FillAt'[d] = FillAt[d + 1]
    <3> TAKE d \in Nat
    <3>1. FillAt'[d] = fill_descs[Slot(Succ(k_fill) + d)]
      BY <1>1, <1>8 DEF FillAt
    <3>2. FillAt[d + 1] = fill_descs[Slot(k_fill + (d + 1))]
      BY DEF FillAt
    <3> QED
      BY <1>4, <3>1, <3>2, SlotSucc
  <2>5. Shared(FillAt', FillLen - 1, RxAt, RxLen, {c})
    <3>1. FillLen \in Nat \ {0} /\ \A d \in 0..(FillLen - 2) : FillAt'[d] = FillAt[d + 1]
      BY <1>4, <2>2, <2>4, SMTT(30)
    <3>2. Shared(FillAt', FillLen - 1, RxAt, RxLen, pool \union {FillAt[0]})
      BY <1>4, <1>6, <3>1, SharedTakes
    <3>3. pool \union {FillAt[0]} = {c}
      BY <1>8, <2>1
    <3> QED
      BY <3>2, <3>3
  <2>6. FillLen - 1 \in Nat /\ pool \subseteq {c} /\ Store(c) /\ Kept = 0
    BY <1>4, <1>8, <2>2, SMTT(30) DEF Kept
  <2> HIDE DEF c
  <2>7. /\ RxOrder' /\ RxLen' + Kept' = RxLen + 1
        /\ Dist(rx_prod, k_rx') + Kept' = Dist(rx_prod, k_rx) + 1
        /\ pool' = {} \/ pool' = {c}
        /\ Shared(FillAt', FillLen - 1, RxAt', RxLen', pool')
    BY <1>1, <1>2, <1>3, <1>4, <2>1, <2>5, <2>6, StoreCounts, ZenonT(30)
  <2>8. FillOrder' /\ TakenIsThere'
    BY <1>1, <1>2, <1>4, <1>5, <1>6, <2>3, <2>6, <2>7, SMTT(30) DEF FillOrder, TakenIsThere
  <2>9. FillLen' + RxLen' + Kept' = PKT_NUMSLOT
    <3> DEFINE r == RxLen'
               k == Kept'
    <3>1. r \in Nat
      BY <1>4
    <3>2. k \in {0, 1}
      BY <1>4
    <3>3. r + k = RxLen + 1
      BY <2>7
    <3> HIDE DEF r, k
    <3>4. (FillLen - 1) + r + k = PKT_NUMSLOT
      BY <1>4, <1>6, <2>6, <3>1, <3>2, <3>3, SMTT(30)
    <3> QED
      BY <2>3, <3>4 DEF r, k
  <2>10. Shared(FillAt, FillLen, RxAt, RxLen, pool)'
    BY <2>3, <2>7 DEF Shared
  <2> QED
    BY <1>1, <1>3, <2>1, <2>7, <2>8, <2>9, <2>10, Zenon DEF XdpInv
<1> QED
  BY <1>1, <1>7, <1>8

\* The steps that move no index and no chunk.
LEMMA RestInv ==
    ASSUME XdpInv, TypeOK',
           LoopTest \/ EnterPoll \/ PollIn \/ PollError \/ Signal
    PROVE  XdpInv'
<1>1. UNCHANGED <<fill, rx, umem, kernel, local>>
  BY DEF LoopTest, EnterPoll, PollIn, PollError, Signal
<1>2. UNCHANGED <<fill_prod, rx_cons, rx_ridx, fill_idx>>
  BY <1>1 DEF fill, rx, local
<1>3. Written' = Written /\ Unread' = Unread
  BY <1>2 DEF LoopTest, EnterPoll, PollIn, PollError, Signal, Written, Unread
<1>4. (pc' = "fill" <=> pc = "fill") /\ (pc' = "batch" => pc = "batch")
  BY DEF LoopTest, EnterPoll, PollIn, PollError, Signal
<1> QED
  BY <1>1, <1>3, <1>4, XdpStays

\* At first the rings are empty, and no chunk is offered yet.
LEMMA XdpInit ==
    ASSUME Init
    PROVE  XdpInv
<1>1. Idle /\ pc = "fill" /\ run = TRUE /\ last = NoFrame
  BY DEF Init
<1>2. 0 \in Index /\ 0 \in Chunks /\ PKT_NUMSLOT \in Nat
  BY CaptureAssumption DEF Index, Chunks
<1>3. TypeOK
  BY <1>1, <1>2 DEF Idle, TypeOK, Slots, Chunks
<1>4. Written = 0 /\ Unread = 0 /\ Dist(0, 0) = 0 /\ Kept = 0
  BY <1>1, <1>2, DistCounts DEF Idle, Written, Unread, Kept
<1>5. RxOrder /\ FillOrder /\ TakenIsThere
  BY <1>1, <1>2, <1>4 DEF Idle, RxOrder, FillOrder, TakenIsThere
<1> QED
  BY <1>1, <1>3, <1>5 DEF XdpInv, Idle

\* Every step keeps the invariant.
LEMMA XdpStep ==
    ASSUME XdpInv, [Next]_vars
    PROVE  XdpInv'
<1>1. CASE Next
  <2>1. TypeOK'
    BY <1>1, XdpTypes DEF XdpInv
  <2> QED
    BY <1>1, <2>1, RingFillInv, FillToldInv, RestInv, ReadIndicesInv, HandleInv, RxToldInv,
       ReceiveInv, FlushInv DEF Next, Program
<1>2. CASE UNCHANGED vars
  <2>1. UNCHANGED <<fill, rx, umem, kernel, local, run, pc, last>>
    BY <1>2, SMTT(30) DEF vars
  <2>2. TypeOK' /\ Written' = Written /\ Unread' = Unread
    BY <2>1 DEF XdpInv, TypeOK, Written, Unread, fill, rx, kernel, local
  <2> QED
    BY <2>1, <2>2, XdpStays
<1> QED
  BY <1>1, <1>2

\* The invariant holds in every state of a capture.
THEOREM XdpInvariant == Spec => []XdpInv
<1>1. Init => XdpInv
  BY XdpInit
<1>2. XdpInv /\ [Next]_vars => XdpInv'
  BY XdpStep
<1> QED
  BY <1>1, <1>2, PTL DEF Spec

\* How many elements a set has that has none or one.
Counts == Cardinality({}) = 0 /\ \A c : Cardinality({c}) = 1

\* What the invariant says of the chunks and of the fill ring.
LEMMA XdpSafe ==
    ASSUME XdpInv
    PROVE  (Counts => OneOwner) /\ FillRingRoom
<1>1. /\ fill_cons \in Index /\ k_fill \in Index /\ fill_prod \in Index /\ Written \in Index
      /\ PKT_NUMSLOT \in Nat
  BY XdpIndices, CaptureAssumption DEF XdpInv, TypeOK
<1>2. FillRingRoom
  <2>1. /\ Dist(fill_cons, k_fill) \in Nat /\ Dist(k_fill, fill_prod) \in Nat
        /\ Dist(fill_prod, Written) \in Nat
    BY <1>1, DistCounts
  <2>2. Dist(fill_cons, k_fill) + Dist(k_fill, fill_prod) + Dist(fill_prod, Written)
           <= PKT_NUMSLOT
    BY DEF XdpInv, FillOrder
  <2>3. Dist(k_fill, Written) = Dist(k_fill, fill_prod) + Dist(fill_prod, Written)
    BY <1>1, <2>1, <2>2, DistAdds
  <2>4. Dist(fill_cons, Written) = Dist(fill_cons, k_fill) + Dist(k_fill, Written)
    BY <1>1, <2>1, <2>2, <2>3, DistAdds
  <2> QED
    BY <1>1, <2>1, <2>2, <2>3, <2>4 DEF FillRingRoom
<1>3. ASSUME Counts, pc # "fill"
      PROVE  /\ Dist(k_fill, Written) + Dist(Unread, k_rx) + Cardinality(pool) = PKT_NUMSLOT
             /\ Offered \union Received \union pool = Chunks
  <2>1. /\ FillLen + RxLen + Kept = PKT_NUMSLOT
        /\ Shared(FillAt, FillLen, RxAt, RxLen, pool)
    BY <1>3 DEF XdpInv
  <2>2. Cardinality(pool) = Kept
    <3>1. CASE pool = {}
      BY <1>3, <3>1 DEF Counts, Kept
    <3>2. ASSUME NEW c \in Chunks, pool = {c}
          PROVE  Cardinality(pool) = Kept
      BY <1>3, <3>2, Zenon DEF Counts, Kept
    <3> QED
      BY <3>1, <3>2 DEF XdpInv
  <2>3. Offered = {FillAt[d] : d \in 0..(FillLen - 1)}
    BY DEF Offered, FillAt, FillLen
  <2>4. Received = {RxAt[d] : d \in 0..(RxLen - 1)}
    BY DEF Received, RxAt, RxLen
  <2>5. Offered \union Received \union pool = Chunks
    BY <2>1, <2>3, <2>4 DEF Shared
  <2> QED
    BY <2>1, <2>2, <2>5 DEF FillLen, RxLen
<1> QED
  BY <1>2, <1>3, SMTT(30) DEF OneOwner

----------------------------------------------------------------------------
(***************************************************************************)
(* capture_xdp as a queue: the frames of the rx ring.                      *)
(***************************************************************************)

\* A frame the kernel may have put into a chunk.
Stored == Passing \union {NoFrame}

\* A sequence is told by its length and its elements.
LEMMA SameSeq ==
    ASSUME NEW S, NEW n \in Nat, NEW s \in [1..n -> S], NEW t \in Seq(S),
           Len(t) = n, \A d \in 1..n : s[d] = t[d]
    PROVE  s = t
<1>1. t \in [1..n -> S]
  BY LenProperties, SMTT(30)
<1> QED
  BY <1>1

\* Queue holds the frames in the unread chunks of the receive ring, in ring
\* order.
LEMMA QueueIs ==
    ASSUME XdpInv
    PROVE  /\ RxLen \in Nat /\ Queue \in [1..RxLen -> Stored] /\ Queue \in Seq(Stored)
           /\ Len(Queue) = RxLen /\ DOMAIN Queue = 1..RxLen
           /\ \A d \in 1..RxLen : /\ Queue[d] = umem[RxAt[d - 1]]
                                  /\ d - 1 \in 0..(RxLen - 1) /\ RxAt[d - 1] \in Chunks
<1>1. /\ RxLen \in Nat /\ Unread \in Index /\ rx_descs \in [Slots -> Chunks]
      /\ umem \in [Chunks -> Stored]
  BY XdpIndices DEF XdpInv, TypeOK, Stored
<1>2. Queue = [d \in 1..RxLen |-> umem[rx_descs[Slot(Unread + d - 1)]]]
  BY DEF Queue, RxLen, Frame
<1>3. ASSUME NEW d \in 1..RxLen
      PROVE  /\ d - 1 \in Nat /\ Unread + d - 1 = Unread + (d - 1) /\ Unread + d - 1 \in Int
             /\ RxAt[d - 1] = rx_descs[Slot(Unread + d - 1)] /\ RxAt[d - 1] \in Chunks
             /\ d - 1 \in 0..(RxLen - 1)
  <2>1. d - 1 \in Nat /\ Unread + d - 1 = Unread + (d - 1) /\ Unread + d - 1 \in Int
    BY <1>1 DEF Index
  <2>2. RxAt[d - 1] = rx_descs[Slot(Unread + d - 1)]
    BY <2>1 DEF RxAt
  <2> QED
    BY <1>1, <2>1, <2>2, SlotIn
<1>4. Queue \in [1..RxLen -> Stored] /\ DOMAIN Queue = 1..RxLen
  BY <1>1, <1>2, <1>3
<1>5. Queue \in Seq(Stored) /\ Len(Queue) = RxLen
  BY <1>1, <1>4
<1> QED
  BY <1>1, <1>2, <1>3, <1>4, <1>5, SMTT(30)

\* The same of the state after a step.
LEMMA QueueIsNext ==
    XdpInv' => (/\ Queue \in [1..RxLen -> Stored]
                /\ \A d \in 1..RxLen : Queue[d] = umem[RxAt[d - 1]])'
<1>1. XdpInv => /\ Queue \in [1..RxLen -> Stored]
                /\ \A d \in 1..RxLen : Queue[d] = umem[RxAt[d - 1]]
  BY QueueIs
<1> QED
  BY <1>1, PTL

\* What each step does to the queue: nothing, or it inspects the first frame, or
\* accepts a frame at the end.
LEMMA QueueStays ==
    ASSUME UNCHANGED <<umem, rx_descs, k_rx>>, Unread' = Unread
    PROVE  Queue' = Queue
  BY DEF Queue, Frame

\* insp_process_pkt takes the first frame of the queue.
LEMMA QueueHandle ==
    ASSUME XdpInv, XdpInv', Handle
    PROVE  Queue # << >> /\ last' = Head(Queue) /\ Queue' = Tail(Queue)
<1>1. /\ RxLen' = RxLen - 1 /\ RxLen >= 1 /\ \A d \in Nat : RxAt'[d] = RxAt[d + 1]
      /\ umem' = umem
  BY HandleMoves, Zenon DEF Handle
<1>2. /\ RxLen \in Nat /\ Queue \in Seq(Stored) /\ Len(Queue) = RxLen
      /\ \A d \in 1..RxLen : Queue[d] = umem[RxAt[d - 1]]
  BY QueueIs
<1>3. /\ Queue' \in [1..(RxLen - 1) -> Stored]
      /\ \A d \in 1..(RxLen - 1) : Queue'[d] = umem[RxAt'[d - 1]]
  <2>1. /\ Queue' \in [1..RxLen' -> Stored']
        /\ \A d \in 1..RxLen' : Queue'[d] = umem'[RxAt'[d - 1]]
    BY QueueIsNext
  <2> QED
    BY <1>1, <2>1 DEF Stored
<1>4. Queue # << >> /\ Head(Queue) = Queue[1]
  BY <1>1, <1>2
<1>5. last' = Head(Queue)
  <2>1. last' = umem[rx_descs[Slot(Unread)]]
    BY DEF Handle, Frame, Unread
  <2>2. RxAt[0] = rx_descs[Slot(Unread)]
    <3>1. Unread + 0 = Unread
      BY XdpIndices DEF XdpInv, Index
    <3> QED
      BY <3>1 DEF RxAt
  <2>3. Queue[1] = umem[RxAt[0]]
    BY <1>1, <1>2
  <2> QED
    BY <1>4, <2>1, <2>2, <2>3, SMTT(30)
<1>6. /\ Tail(Queue) \in Seq(Stored) /\ Len(Tail(Queue)) = RxLen - 1
      /\ \A d \in 1..(RxLen - 1) : Tail(Queue)[d] = Queue[d + 1]
  BY <1>2, <1>4, HeadTailProperties
<1>7. ASSUME NEW d \in 1..(RxLen - 1)
      PROVE  Queue'[d] = Tail(Queue)[d]
  <2>1. d + 1 \in 1..RxLen /\ (d + 1) - 1 = d /\ d - 1 \in Nat /\ (d - 1) + 1 = d
    BY <1>2
  <2>2. Queue'[d] = umem[RxAt[d]]
    BY <1>1, <1>3, <2>1, ZenonT(30)
  <2>3. Queue[d + 1] = umem[RxAt[d]]
    BY <1>2, <2>1
  <2> QED
    BY <1>6, <2>2, <2>3
<1>8. Queue' = Tail(Queue)
  <2>1. RxLen - 1 \in Nat
    BY <1>1, <1>2
  <2> QED
    BY <1>3, <1>6, <1>7, <2>1, SameSeq
<1> QED
  BY <1>4, <1>5, <1>8, SMTT(30)

\* The kernel puts a frame at the end of the queue, or drops it.
LEMMA QueueReceive ==
    ASSUME XdpInv, XdpInv', KernelReceive
    PROVE  /\ last' = last
           /\ Queue' = Queue \/ \E p \in Passing : Queue' = Append(Queue, p)
<1>1. /\ UNCHANGED <<fill_descs, fill_prod, rx_prod, rx_cons, rx_ridx, rx_widx, fill_idx, pc, last>>
      /\ \/ \E c \in pool : Store(c)
         \/ pool = {} /\ k_fill # fill_prod /\ Store(fill_descs[Slot(k_fill)])
  BY DEF KernelReceive, fill, local
<1>2. Unread' = Unread
  BY <1>1 DEF Unread
<1>3. pc # "fill"
  <2> SUFFICES ASSUME pc = "fill" PROVE FALSE
    OBVIOUS
  <2>1. pool = {} /\ k_fill = 0 /\ fill_prod = 0
    BY DEF XdpInv, Idle
  <2> QED
    BY <1>1, <2>1
<1>4. Shared(FillAt, FillLen, RxAt, RxLen, pool) /\ FillLen \in Nat
  BY <1>3, XdpIndices, SMTT(30) DEF XdpInv
<1>5. PICK c \in Chunks : Store(c) /\ \A d \in 0..(RxLen - 1) : RxAt[d] # c
  <2>1. ASSUME NEW c \in pool, Store(c)
        PROVE  c \in Chunks /\ \A d \in 0..(RxLen - 1) : RxAt[d] # c
    BY <1>4 DEF Shared
  <2>2. CASE pool = {} /\ k_fill # fill_prod /\ Store(fill_descs[Slot(k_fill)])
    <3>1. FillAt[0] = fill_descs[Slot(k_fill)]
      <4>1. k_fill + 0 = k_fill
        BY DEF XdpInv, TypeOK, Index
      <4> QED
        BY <4>1, SMTT(30) DEF FillAt
    <3>2. 0 \in 0..(FillLen - 1)
      BY <1>4, <2>2, FillNotEmpty
    <3>3. FillAt[0] \in Chunks /\ \A d \in 0..(RxLen - 1) : RxAt[d] # FillAt[0]
      BY <1>4, <3>2, SMTT(30) DEF Shared
    <3> QED
      BY <2>2, <3>1, <3>3
  <2> QED
    BY <1>1, <2>1, <2>2, Zenon
<1>6. PICK p \in Passing : umem' = [umem EXCEPT ![c] = p]
  BY <1>5, Zenon DEF Store
<1>7. /\ RxLen \in Nat /\ Queue \in [1..RxLen -> Stored] /\ Queue \in Seq(Stored)
      /\ Len(Queue) = RxLen /\ umem \in [Chunks -> Stored] /\ p \in Stored
      /\ \A d \in 1..RxLen : /\ Queue[d] = umem[RxAt[d - 1]] /\ d - 1 \in 0..(RxLen - 1)
                             /\ RxAt[d - 1] \in Chunks
  BY QueueIs DEF XdpInv, TypeOK, Stored
<1>8. /\ Queue' \in [1..RxLen' -> Stored]
      /\ \A d \in 1..RxLen' : Queue'[d] = umem'[RxAt'[d - 1]]
  BY QueueIsNext DEF Stored
<1>9. \A d \in 1..RxLen : umem'[RxAt[d - 1]] = Queue[d]
  BY <1>5, <1>6, <1>7
<1>10. CASE /\ RxLen' = RxLen + 1 /\ RxAt'[RxLen] = c
            /\ \A d \in 0..(RxLen - 1) : RxAt'[d] = RxAt[d]
  <2>1. /\ Append(Queue, p) \in Seq(Stored) /\ Len(Append(Queue, p)) = RxLen + 1
        /\ \A d \in 1..RxLen : Append(Queue, p)[d] = Queue[d]
        /\ Append(Queue, p)[RxLen + 1] = p
    BY <1>7, AppendProperties
  <2>2. ASSUME NEW d \in 1..(RxLen + 1)
        PROVE  Queue'[d] = Append(Queue, p)[d]
    <3>1. CASE d = RxLen + 1
      <4>1. Queue'[d] = umem'[RxAt'[d - 1]] /\ d - 1 = RxLen
        BY <1>7, <1>8, <1>10, <3>1
      <4> QED
        BY <1>6, <1>7, <1>10, <2>1, <3>1, <4>1
    <3>2. CASE d # RxLen + 1
      <4>1. d \in 1..RxLen /\ d - 1 \in 0..(RxLen - 1)
        BY <1>7, <3>2
      <4>2. Queue'[d] = umem'[RxAt[d - 1]]
        BY <1>8, <1>10, <4>1
      <4> QED
        BY <1>9, <2>1, <4>1, <4>2
    <3> QED
      BY <3>1, <3>2, ZenonT(30)
  <2>3. Queue' = Append(Queue, p)
    <3>1. RxLen + 1 \in Nat /\ Queue' \in [1..(RxLen + 1) -> Stored]
      BY <1>7, <1>8, <1>10
    <3> QED
      BY <2>1, <2>2, <3>1, SameSeq, SMTT(30)
  <2> QED
    BY <1>1, <2>3, SMTT(30)
<1>11. CASE RxLen' = RxLen /\ RxAt' = RxAt
  <2>1. Queue' \in [1..RxLen -> Stored] /\ \A d \in 1..RxLen : Queue'[d] = Queue[d]
    BY <1>8, <1>9, <1>11, SMTT(30)
  <2>2. Queue' = Queue
    BY <1>7, <2>1, SameSeq
  <2> QED
    BY <1>1, <2>2
<1> QED
  BY <1>1, <1>2, <1>5, <1>10, <1>11, StoreMoves, Zenon

\* capture_xdp keeps the promise of PacketFifo, step by step.
LEMMA XdpQueueStep ==
    ASSUME XdpInv, XdpInv', [Next]_vars
    PROVE  \/ Queue' = Queue /\ last' = last
           \/ (\E p \in Passing : Queue' = Append(Queue, p)) /\ last' = last
           \/ Queue # << >> /\ last' = Head(Queue) /\ Queue' = Tail(Queue)
<1>1. CASE Handle
  BY <1>1, QueueHandle
<1>2. CASE KernelReceive
  BY <1>2, QueueReceive
<1>3. CASE \/ RingFill \/ Publish \/ LoopTest \/ EnterPoll \/ PollIn \/ PollError \/ ReadIndices
           \/ SubmitFill \/ SubmitRx \/ Signal \/ KernelFlush \/ UNCHANGED vars
  <2>1. UNCHANGED <<umem, rx_descs, k_rx, last>>
    BY <1>3, ZenonT(30) DEF RingFill, Publish, LoopTest, EnterPoll, PollIn, PollError, ReadIndices,
       SubmitFill, SubmitRx, Signal, KernelFlush, vars, fill, rx, kernel, local
  <2>2. Unread' = Unread
    BY <1>3, Zenon DEF RingFill, Publish, LoopTest, EnterPoll, PollIn, PollError, ReadIndices,
       SubmitFill, SubmitRx, Signal, KernelFlush, vars, fill, rx, kernel, local, Unread
  <2> QED
    BY <2>1, <2>2, QueueStays, SMTT(30)
<1> QED
  BY <1>1, <1>2, <1>3 DEF Next, Program


\* The capture begins with nothing to inspect.
LEMMA XdpQueueInit == ASSUME Init PROVE Queue = << >>
<1>1. XdpInv
  BY XdpInit
<1>2. RxLen = 0
  <2>1. Unread = 0 /\ k_rx = 0
    BY DEF Init, Idle, Unread
  <2>2. U32 \in Nat \ {0} /\ 0 % U32 = 0
    BY CaptureAssumption
  <2> QED
    BY <2>1, <2>2 DEF RxLen, Dist
<1>3. Queue \in Seq(Stored) /\ Len(Queue) = RxLen
  BY <1>1, QueueIs
<1> QED
  BY <1>2, <1>3, EmptySeq

============================================================================
