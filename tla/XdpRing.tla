------------------------------ MODULE XdpRing ------------------------------
(***************************************************************************)
(* capture_xdp (dns_insp.c) and the kernel's side of its AF_XDP socket.    *)
(*                                                                         *)
(* Frames live in chunks of a shared memory.  The program hands free       *)
(* chunks to the kernel through the fill ring, the kernel hands filled     *)
(* ones back through the rx ring.  A ring is an array of PKT_NUMSLOT       *)
(* entries with a producer and a consumer index of 32 bits that run on     *)
(* and wrap; x & mask is x % PKT_NUMSLOT.  The program never asks whether  *)
(* the fill ring has room.                                                 *)
(***************************************************************************)
EXTENDS CaptureBase, FiniteSets

Chunks == 0..(PKT_NUMSLOT - 1)
Slots  == 0..(PKT_NUMSLOT - 1)
Index  == 0..(U32 - 1)

VARIABLES
    fill_descs, fill_prod, fill_cons,   \* the fill ring
    rx_descs, rx_prod, rx_cons,         \* the rx ring
    umem,       \* contents of the chunks
    k_fill,     \* kernel: next entry of the fill ring to take
    k_rx,       \* kernel: next entry of the rx ring to write
    pool,       \* kernel: chunks taken and not used
    rx_ridx, rx_widx, fill_idx,         \* locals of capture_xdp
    run,        \* insp->sig.run
    pc,
    last        \* the frame inspected last

fill   == <<fill_descs, fill_prod, fill_cons>>
rx     == <<rx_descs, rx_prod, rx_cons>>
kernel == <<k_fill, k_rx, pool>>
local  == <<rx_ridx, rx_widx, fill_idx>>
vars   == <<fill, rx, umem, kernel, local, run, pc, last>>

\* The rings as setup_xdp leaves them.
Idle ==
    /\ fill_descs = [s \in Slots |-> 0] /\ fill_prod = 0 /\ fill_cons = 0
    /\ rx_descs = [s \in Slots |-> 0] /\ rx_prod = 0 /\ rx_cons = 0
    /\ umem = [c \in Chunks |-> NoFrame]
    /\ k_fill = 0 /\ k_rx = 0 /\ pool = {}
    /\ rx_ridx = 0 /\ rx_widx = 0 /\ fill_idx = 0

Init == Idle /\ run = TRUE /\ pc = "fill" /\ last = NoFrame

----------------------------------------------------------------------------
\* Plausible slips of the code, each substituted for the definition after it.

\* the descriptor is cleared before its address is given back
RefillCleared(a) == 0
\* both indices are read through the consumer's pointer
AvailableNone == rx_cons
\* i <= num_slot in xsk_ring_fill
FilledOneMore == PKT_NUMSLOT + 1
----------------------------------------------------------------------------

\* index & mask, for an entry of the fill or the rx ring
Slot(i) == i % PKT_NUMSLOT
Succ(i) == (i + 1) % U32
Dist(i, j) == (j - i) % U32

\* Entries xsk_ring_fill writes.
Filled == PKT_NUMSLOT

\* The frame an entry of the rx ring refers to.
Frame(i) == umem[rx_descs[Slot(i)]]

\* Up to where the rx ring holds frames.
Available == rx_prod

\* The chunk put back for the frame just inspected.
Refill(a) == a

----------------------------------------------------------------------------
\* xsk_ring_fill: every chunk is offered, then the kernel is told.
RingFill ==
    /\ pc = "fill"
    /\ fill_descs' = [s \in Slots |-> s]
    /\ fill_idx' = Filled % U32
    /\ pc' = "publish"
    /\ UNCHANGED <<fill_prod, fill_cons, rx, umem, kernel, rx_ridx, rx_widx, run, last>>

Publish ==
    /\ pc = "publish"
    /\ fill_prod' = fill_idx
    /\ pc' = "loop"
    /\ UNCHANGED <<fill_descs, fill_cons, rx, umem, kernel, local, run, last>>

\* while (insp->sig.run)
LoopTest ==
    /\ pc = "loop"
    /\ pc' = IF run THEN "enter" ELSE "exit"
    /\ UNCHANGED <<fill, rx, umem, kernel, local, run, last>>

\* The program enters poll, without a timeout.
EnterPoll ==
    /\ pc = "enter"
    /\ pc' = "blocked"
    /\ UNCHANGED <<fill, rx, umem, kernel, local, run, last>>

\* poll returns: frames are there, or the socket failed.
PollIn ==
    /\ pc = "blocked" /\ rx_prod # rx_cons
    /\ pc' = "read"
    /\ UNCHANGED <<fill, rx, umem, kernel, local, run, last>>

PollError ==
    /\ pc = "blocked"
    /\ pc' = "exit"
    /\ UNCHANGED <<fill, rx, umem, kernel, local, run, last>>

\* The indices are read once for the batch.
ReadIndices ==
    /\ pc = "read"
    /\ rx_ridx' = rx_cons
    /\ rx_widx' = Available
    /\ fill_idx' = fill_prod
    /\ pc' = "batch"
    /\ UNCHANGED <<fill, rx, umem, kernel, run, last>>

\* A frame is inspected and its chunk written to the fill ring.
Handle ==
    /\ pc = "batch" /\ rx_ridx # rx_widx
    /\ last' = Frame(rx_ridx)
    /\ fill_descs' = [fill_descs EXCEPT ![Slot(fill_idx)] =
                         Refill(rx_descs[Slot(rx_ridx)])]
    /\ fill_idx' = Succ(fill_idx)
    /\ rx_ridx' = Succ(rx_ridx)
    /\ UNCHANGED <<fill_prod, fill_cons, rx, umem, kernel, rx_widx, run, pc>>

\* The new positions are submitted.  The two stores are plain ones with no
\* barrier between them, so the build may put either first.
SubmitFill ==
    /\ \/ pc = "batch" /\ rx_ridx = rx_widx /\ pc' = "rx_left"
       \/ pc = "fill_left" /\ pc' = "loop"
    /\ fill_prod' = fill_idx
    /\ UNCHANGED <<fill_descs, fill_cons, rx, umem, kernel, local, run, last>>

SubmitRx ==
    /\ \/ pc = "batch" /\ rx_ridx = rx_widx /\ pc' = "fill_left"
       \/ pc = "rx_left" /\ pc' = "loop"
    /\ rx_cons' = rx_ridx
    /\ UNCHANGED <<fill, rx_descs, rx_prod, umem, kernel, local, run, last>>

\* SIGINT or SIGTERM: handle_signal clears run; a poll under way returns EINTR.
Signal ==
    /\ run
    /\ run' = FALSE
    /\ pc' = IF pc = "blocked" THEN "loop" ELSE pc
    /\ UNCHANGED <<fill, rx, umem, kernel, local, last>>

----------------------------------------------------------------------------
\* The kernel copies a frame into a free chunk and enters it into the rx ring;
\* if that is full, or when no chunk is free, the frame is dropped.
Store(c) ==
    \E p \in Passing :
        /\ umem' = [umem EXCEPT ![c] = p]
        /\ IF Dist(rx_cons, k_rx) < PKT_NUMSLOT
           THEN /\ rx_descs' = [rx_descs EXCEPT ![Slot(k_rx)] = c]
                /\ k_rx' = Succ(k_rx)
                /\ pool' = pool \ {c}
           ELSE /\ pool' = pool \union {c}
                /\ UNCHANGED <<rx_descs, k_rx>>

KernelReceive ==
    /\ \/ \E c \in pool : Store(c) /\ UNCHANGED k_fill
       \/ /\ pool = {} /\ k_fill # fill_prod
          /\ Store(fill_descs[Slot(k_fill)])
          /\ k_fill' = Succ(k_fill)
    /\ UNCHANGED <<fill, rx_prod, rx_cons, local, run, pc, last>>

\* At the end of its batch the kernel publishes both indices.
KernelFlush ==
    /\ rx_prod # k_rx \/ fill_cons # k_fill
    /\ rx_prod' = k_rx
    /\ fill_cons' = k_fill
    /\ UNCHANGED <<fill_descs, fill_prod, rx_descs, rx_cons, umem, kernel, local,
                   run, pc, last>>

Program ==
    \/ RingFill \/ Publish \/ LoopTest \/ EnterPoll \/ PollIn
    \/ ReadIndices \/ Handle \/ SubmitFill \/ SubmitRx

Next == Program \/ PollError \/ Signal \/ KernelReceive \/ KernelFlush

Spec == Init /\ [][Next]_vars

\* The program runs whenever it is not blocked, and the kernel ends the batches
\* it begins.  Frames need not arrive, nor signals.
FairSpec == Spec /\ WF_vars(Program) /\ WF_vars(KernelFlush)

----------------------------------------------------------------------------
\* Up to where the program has written the fill ring, and from where on the rx
\* ring is unread, published or not.
Written == IF pc \in {"publish", "batch", "fill_left"} THEN fill_idx ELSE fill_prod
Unread  == IF pc \in {"batch", "rx_left"} THEN rx_ridx ELSE rx_cons

Offered  == {fill_descs[Slot(k_fill + d)] : d \in 0..(Dist(k_fill, Written) - 1)}
Received == {rx_descs[Slot(Unread + d)] : d \in 0..(Dist(Unread, k_rx) - 1)}

\* The variables keep their types.
TypeOK ==
    /\ fill_descs \in [Slots -> Chunks] /\ rx_descs \in [Slots -> Chunks]
    /\ fill_prod \in Index /\ fill_cons \in Index
    /\ rx_prod \in Index /\ rx_cons \in Index
    /\ umem \in [Chunks -> Passing \union {NoFrame}]
    /\ k_fill \in Index /\ k_rx \in Index /\ pool \subseteq Chunks
    /\ rx_ridx \in Index /\ rx_widx \in Index /\ fill_idx \in Index
    /\ run \in BOOLEAN
    /\ pc \in {"fill", "publish", "loop", "enter", "blocked", "read", "batch",
               "rx_left", "fill_left", "exit"}
    /\ last \in Passing \union {NoFrame}

\* Each chunk has one owner: offered to the kernel, kept by it, or received and
\* not yet inspected.  So no chunk gets lost, and the kernel never overwrites a
\* frame that is still to be inspected (dns_insp.c:808-828).
OneOwner ==
    pc # "fill" =>
        /\ Dist(k_fill, Written) + Dist(Unread, k_rx) + Cardinality(pool) = PKT_NUMSLOT
        /\ Offered \union Received \union pool = Chunks

\* The fill ring is never written over an entry the kernel has not released,
\* although capture_xdp does not look at the ring's consumer
\* (dns_insp.c:817-827).
FillRingRoom == Dist(fill_cons, Written) <= PKT_NUMSLOT

\* The frames of the rx ring that are not inspected yet, oldest first.
Queue == [d \in 1..Dist(Unread, k_rx) |-> Frame(Unread + d - 1)]

\* Frames are there to be read, and the program has just read some.
Waiting == rx_prod # rx_cons
Served  == pc = "batch" /\ rx_ridx # rx_cons
=============================================================================
