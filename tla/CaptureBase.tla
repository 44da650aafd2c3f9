---------------------------- MODULE CaptureBase ----------------------------
(***************************************************************************)
(* What the three capture methods of dns-insp have in common: the bounds,  *)
(* the frames that pass by, and which of them an AF_PACKET socket takes.   *)
(***************************************************************************)
EXTENDS Integers, Sequences

CONSTANTS
    PKT_MAXRECV,   \* messages a recvmmsg takes, 10 in the code
    RcvBuf,        \* frames the socket's receive buffer holds
    MaxFrames,     \* bound: frames that come by during a raw capture
    NumBlocks,     \* tp_block_nr, 100 in the code
    BlockRoom,     \* bound: frames that fit in a block
    PKT_NUMSLOT,   \* entries of an XDP ring, and chunks: 4096 in the code
    U32,           \* number of values of a ring index, 2^32 in the code
    RingIds        \* bound: frames told apart in the shared rings

\* PKT_NUMSLOT is a power of two, and so divides the range of an index.
ASSUME CaptureAssumption ==
    /\ PKT_MAXRECV \in Nat \ {0} /\ RcvBuf \in Nat \ {0} /\ MaxFrames \in Nat
    /\ NumBlocks \in Nat \ {0} /\ BlockRoom \in Nat \ {0}
    /\ PKT_NUMSLOT \in Nat \ {0} /\ U32 \in Nat \ {0}
    /\ U32 % PKT_NUMSLOT = 0 /\ U32 > PKT_NUMSLOT
    /\ RingIds \subseteq Nat \ {0}

\* A frame: its number, whether it passes on the device and whether it is DNS.
Frames  == [id : (1..MaxFrames) \union RingIds, dev : BOOLEAN, dns : BOOLEAN]
NoFrame == [id |-> 0, dev |-> FALSE, dns |-> FALSE]

\* What the program is for, and what the kernel's filters let through.
Wanted(frame) == frame.dev /\ frame.dns
Passing       == [id : RingIds, dev : {TRUE}, dns : {TRUE}]

\* The socket receives from the moment it is created: at first from every
\* device, after bind from the one asked for, and after SO_ATTACH_FILTER only
\* DNS.  Neither call drops what is queued already.
Accepts(sock, frame) ==
    \/ sock = "open"
    \/ sock = "bound" /\ frame.dev
    \/ sock = "filtered" /\ Wanted(frame)
============================================================================
