------------------------------ MODULE MmapRing ------------------------------
(***************************************************************************)
(* setup_mmap and capture_mmap (dns_insp.c) and the kernel's side of the   *)
(* TPACKET_V3 ring.                                                        *)
(*                                                                         *)
(* What the socket queues before the ring exists is dropped with           *)
(* PACKET_RX_RING, which comes after the filter.  The ring is a circle of  *)
(* blocks.  The kernel packs frames into its open block and retires it,    *)
(* when it is full or its timer expires, by setting the status to          *)
(* TP_STATUS_USER.  The program inspects the frames of the block at bd_ptr *)
(* and gives the block back.                                               *)
(***************************************************************************)
EXTENDS CaptureBase

Blocks == 0..(NumBlocks - 1)

VARIABLES
    sock,     \* "none", "open", "bound", "filtered", "ring" or "closed"
    status,   \* block_status: "kernel" or "user"
    frames,   \* frames in each block; its length is num_pkts
    k_blk,    \* kernel: the block it fills, or waits for
    frozen,   \* kernel: k_blk is not open, as the program has not released it
    bd_ptr,   \* the program's block
    i,        \* frames of the block it has inspected
    run,      \* insp->sig.run
    pc,
    last      \* the frame inspected last

ring   == <<status, frames>>
kernel == <<k_blk, frozen>>
insp   == <<sock, run, last>>
vars   == <<ring, kernel, bd_ptr, i, insp, pc>>

\* No frame is in the ring.
Idle ==
    /\ status = [b \in Blocks |-> "kernel"]
    /\ frames = [b \in Blocks |-> << >>]
    /\ k_blk = 0 /\ frozen = FALSE
    /\ bd_ptr = 0 /\ i = 0

Init ==
    /\ Idle
    /\ sock = "none" /\ run = TRUE /\ pc = "socket" /\ last = NoFrame

----------------------------------------------------------------------------
\* Plausible slips of the code, each substituted for the definition after it.

\* the block is given back only if it was full
ReleasedIfFull(b) == IF i < BlockRoom THEN "user" ELSE "kernel"
\* i < num_pkts - 1
BlockDoneEarly == i + 1 >= Len(frames[bd_ptr])
----------------------------------------------------------------------------

\* block_status & TP_STATUS_USER
BlockReady(b) == status[b] = "user"

\* The block after b, back at the start of the ring after the last.
NextBlock(b) == (b + 1) % NumBlocks

\* The for loop over the frames of a block is through.
BlockDone == i >= Len(frames[bd_ptr])

\* The status the program leaves in a block.
Released(b) == "kernel"

\* A step of setup_mmap succeeds and the next one follows, or it fails and the
\* program goes on to insp_free.
SetupStep(from, to, new) ==
    /\ pc = from
    /\ \/ pc' = to /\ sock' = new
       \/ pc' = "free" /\ UNCHANGED sock
    /\ UNCHANGED <<ring, kernel, bd_ptr, i, run, last>>

Socket  == SetupStep("socket", "bind", "open")
Bind    == SetupStep("bind", "filter", "bound")
Attach  == SetupStep("filter", "version", "filtered")
Version == SetupStep("version", "rx_ring", sock)
RxRing  == SetupStep("rx_ring", "map", "ring")
MapRing == SetupStep("map", "loop", sock)

\* while (insp->sig.run) and the test of the block's status
LoopTest ==
    /\ pc = "loop"
    /\ pc' = IF ~run THEN "free"
             ELSE IF BlockReady(bd_ptr) THEN "block" ELSE "enter"
    /\ i' = 0
    /\ UNCHANGED <<ring, kernel, bd_ptr, insp>>

\* The program enters poll, without a timeout.
EnterPoll ==
    /\ pc = "enter"
    /\ pc' = "blocked"
    /\ UNCHANGED <<ring, kernel, bd_ptr, i, insp>>

\* poll reports POLLIN while the block the kernel retired last is not released.
Readable == status[(k_blk + NumBlocks - 1) % NumBlocks] = "user"

PollIn ==
    /\ pc = "blocked" /\ Readable
    /\ pc' = "loop"
    /\ UNCHANGED <<ring, kernel, bd_ptr, i, insp>>

PollError ==
    /\ pc = "blocked"
    /\ pc' = "free"
    /\ UNCHANGED <<ring, kernel, bd_ptr, i, insp>>

Handle ==
    /\ pc = "block" /\ ~BlockDone
    /\ last' = frames[bd_ptr][i + 1]
    /\ i' = i + 1
    /\ UNCHANGED <<ring, kernel, bd_ptr, sock, run, pc>>

\* The block goes back to the kernel, and bd_ptr to the next one.
Release ==
    /\ pc = "block" /\ BlockDone
    /\ status' = [status EXCEPT ![bd_ptr] = Released(bd_ptr)]
    /\ pc' = "advance"
    /\ UNCHANGED <<frames, kernel, bd_ptr, i, insp>>

Advance ==
    /\ pc = "advance"
    /\ bd_ptr' = NextBlock(bd_ptr)
    /\ pc' = "loop"
    /\ UNCHANGED <<ring, kernel, i, insp>>

\* insp_free
Free ==
    /\ pc = "free"
    /\ sock' = IF sock = "none" THEN "none" ELSE "closed"
    /\ pc' = "exit"
    /\ UNCHANGED <<ring, kernel, bd_ptr, i, run, last>>

\* SIGINT or SIGTERM: handle_signal clears run; a poll under way returns EINTR.
Signal ==
    /\ run
    /\ run' = FALSE
    /\ pc' = IF pc = "blocked" THEN "loop" ELSE pc
    /\ UNCHANGED <<ring, kernel, bd_ptr, i, sock, last>>

----------------------------------------------------------------------------
\* The kernel adds a frame to its open block.
KernelReceive ==
    /\ sock = "ring" /\ ~frozen /\ Len(frames[k_blk]) < BlockRoom
    /\ \E p \in Passing : frames' = [frames EXCEPT ![k_blk] = Append(@, p)]
    /\ UNCHANGED <<status, kernel, bd_ptr, i, insp, pc>>

\* It retires the block, and opens the next one if that has been released.
KernelRetire ==
    /\ sock = "ring" /\ ~frozen /\ frames[k_blk] # << >>
    /\ status' = [status EXCEPT ![k_blk] = "user"]
    /\ k_blk' = (k_blk + 1) % NumBlocks
    /\ IF status'[k_blk'] = "kernel"
       THEN frozen' = FALSE /\ frames' = [frames EXCEPT ![k_blk'] = << >>]
       ELSE frozen' = TRUE /\ UNCHANGED frames
    /\ UNCHANGED <<bd_ptr, i, insp, pc>>

\* The ring thaws when the program has released the block.
KernelThaw ==
    /\ sock = "ring" /\ frozen /\ status[k_blk] = "kernel"
    /\ frozen' = FALSE
    /\ frames' = [frames EXCEPT ![k_blk] = << >>]
    /\ UNCHANGED <<status, k_blk, bd_ptr, i, insp, pc>>

Program ==
    \/ Socket \/ Bind \/ Attach \/ Version \/ RxRing \/ MapRing \/ Free
    \/ LoopTest \/ EnterPoll \/ PollIn \/ Handle \/ Release \/ Advance

Next ==
    \/ Program \/ PollError \/ Signal
    \/ KernelReceive \/ KernelRetire \/ KernelThaw

Spec == Init /\ [][Next]_vars

\* The program runs whenever it is not blocked; the kernel's timer retires every
\* block that holds a frame (tp_retire_blk_tov).
FairSpec ==
    Spec /\ WF_vars(Program) /\ WF_vars(KernelRetire) /\ WF_vars(KernelThaw)

----------------------------------------------------------------------------
\* The block the program inspects, or is about to turn to.
First == IF pc = "advance" THEN (bd_ptr + 1) % NumBlocks ELSE bd_ptr

\* Frames of a block that are accepted and not inspected yet.
Open(b) == b = k_blk /\ ~frozen
Pending(b) ==
    IF b = bd_ptr /\ pc = "block" THEN SubSeq(frames[b], i + 1, Len(frames[b]))
    ELSE IF Open(b) \/ status[b] = "user" THEN frames[b]
    ELSE << >>

\* The variables keep their types; bd_ptr stays in the ring.
TypeOK ==
    /\ status \in [Blocks -> {"kernel", "user"}]
    /\ frames \in [Blocks -> Seq(Passing)]
    /\ \A b \in Blocks : Len(frames[b]) <= BlockRoom
    /\ k_blk \in Blocks /\ frozen \in BOOLEAN
    /\ bd_ptr \in Blocks /\ i \in 0..BlockRoom
    /\ run \in BOOLEAN
    /\ sock \in {"none", "open", "bound", "filtered", "ring", "closed"}
    /\ pc \in {"socket", "bind", "filter", "version", "rx_ring", "map", "loop",
               "enter", "blocked", "block", "advance", "free", "exit"}
    /\ last \in Passing \union {NoFrame}

\* The blocks to inspect follow each other from the program's block on, up to
\* the kernel's: the program never waits at a block while a later one is ready,
\* and never meets the kernel's open block (dns_insp.c:500-539).
InTurn ==
    LET ahead == (k_blk - First) % NumBlocks
        ready == {b \in Blocks : status[b] = "user"}
        turns(n) == {(First + d) % NumBlocks : d \in 0..(n - 1)}
    IN  /\ \/ ready = turns(ahead)
           \/ ready = Blocks /\ ahead = 0
        /\ pc = "block" => ~Open(bd_ptr)

\* The frames of the ring that are not inspected yet, from the program's block
\* on.
Queue ==
    LET upTo[d \in 1..NumBlocks] ==
            LET here == Pending((First + d - 1) % NumBlocks)
            IN  IF d = 1 THEN here ELSE upTo[d - 1] \o here
    IN  upTo[NumBlocks]

\* Blocks are there to be read, and the program has just read one.
Waiting == \E b \in Blocks : status[b] = "user"
Served  == pc = "advance" /\ i > 0
=============================================================================
