------------------------------ MODULE Capture ------------------------------
(***************************************************************************)
(* run_capture of dns-insp (dns_insp.c): one of the three capture methods, *)
(* chosen by --type, on the state they share in struct dns_insp.  Each     *)
(* keeps the promise of PacketFifo.                                        *)
(***************************************************************************)
EXTENDS CaptureBase

VARIABLES
    type,   \* insp->type: "raw", "mmap" or "xdp"
    sock,   \* insp->sock, as far as its set-up has come
    run,    \* insp->sig.run
    pc,
    last,   \* the frame insp_process_pkt saw last
    come, sockq, msgs, file, written, inspected, dns_pkts,
    status, frames, k_blk, frozen, bd_ptr, i,
    fill_descs, fill_prod, fill_cons, rx_descs, rx_prod, rx_cons,
    umem, k_fill, k_rx, pool, rx_ridx, rx_widx, fill_idx

raw  == <<come, sockq, msgs, file, written, inspected, dns_pkts>>
mmap == <<status, frames, k_blk, frozen, bd_ptr, i>>
xdp  == <<fill_descs, fill_prod, fill_cons, rx_descs, rx_prod, rx_cons,
          umem, k_fill, k_rx, pool, rx_ridx, rx_widx, fill_idx>>
vars == <<type, sock, run, pc, last, raw, mmap, xdp>>

Raw  == INSTANCE RawCapture
Mmap == INSTANCE MmapRing
Xdp  == INSTANCE XdpRing

----------------------------------------------------------------------------
\* The set-up of AF_XDP is DnsInsp's; capture_xdp starts with what it leaves.
\* Only capture_raw looks at insp->pcap.
Init ==
    /\ type \in {"raw", "mmap", "xdp"}
    /\ Raw!Idle /\ Mmap!Idle /\ Xdp!Idle
    /\ file \in IF type = "raw" THEN {"none", "open"} ELSE {"none"}
    /\ sock = IF type = "xdp" THEN "xdp" ELSE "none"
    /\ pc = IF type = "xdp" THEN "fill" ELSE "socket"
    /\ run = TRUE /\ last = NoFrame

RawStep  == type = "raw"  /\ Raw!Next  /\ UNCHANGED <<type, mmap, xdp>>
MmapStep == type = "mmap" /\ Mmap!Next /\ UNCHANGED <<type, raw, xdp>>
XdpStep  == type = "xdp"  /\ Xdp!Next  /\ UNCHANGED <<type, sock, raw, mmap>>

Next == RawStep \/ MmapStep \/ XdpStep

Spec == Init /\ [][Next]_vars

\* What the program does next, and what the kernel owes it: it retires a block
\* that holds a frame, thaws a ring, and ends the batches it begins.
Program ==
    \/ type = "raw" /\ Raw!Program /\ UNCHANGED <<type, mmap, xdp>>
    \/ type = "mmap" /\ Mmap!Program /\ UNCHANGED <<type, raw, xdp>>
    \/ type = "xdp" /\ Xdp!Program /\ UNCHANGED <<type, sock, raw, mmap>>

KernelOwes ==
    \/ /\ type = "mmap" /\ (Mmap!KernelRetire \/ Mmap!KernelThaw)
       /\ UNCHANGED <<type, raw, xdp>>
    \/ type = "xdp" /\ Xdp!KernelFlush /\ UNCHANGED <<type, sock, raw, mmap>>

\* The program runs whenever it is not blocked.  Frames need not arrive, nor
\* signals.
FairSpec == Spec /\ WF_vars(Program) /\ WF_vars(KernelOwes)

----------------------------------------------------------------------------
\* The variables of the method that runs keep their types.
TypeOK ==
    /\ type = "raw" => Raw!TypeOK
    /\ type = "mmap" => Mmap!TypeOK
    /\ type = "xdp" => Xdp!TypeOK

\* Each chunk of the XDP memory has one owner (XdpRing!OneOwner,
\* dns_insp.c:808-828).
OneOwner == type = "xdp" => Xdp!OneOwner

\* The fill ring is never overrun (XdpRing!FillRingRoom, dns_insp.c:817-827).
FillRingRoom == type = "xdp" => Xdp!FillRingRoom

\* The blocks of the mapped ring are read in the order the kernel retires them
\* (MmapRing!InTurn, dns_insp.c:500-539).
InTurn == type = "mmap" => Mmap!InTurn

\* The capture file holds the frames that were inspected
\* (RawCapture!FileAgrees, dns_insp.c:324-336).
FileAgrees == type = "raw" => Raw!FileAgrees

\* A frame that is not DNS, or not of the device, is only ever inspected if it
\* came before the filter was attached, and so was in the receive buffer when
\* the capture began: one of the first RcvBuf frames of a raw capture, and none
\* of a mapped or XDP one (dns_insp.c:346-396).
OnlyEarlyStrays ==
    /\ last = NoFrame \/ Wanted(last) \/ type = "raw"
    /\ \A n \in 1..Len(inspected) : n > RcvBuf => Wanted(inspected[n])

\* Accepted frames are inspected in order, each once, none lost or altered
\* (dns_insp.c:398-425, 491-542, 787-832).
Fifo == INSTANCE PacketFifo WITH
            Packets <- Frames,
            queue <- CASE type = "raw"  -> Raw!Queue
                       [] type = "mmap" -> Mmap!Queue
                       [] OTHER         -> Xdp!Queue
RefinesFifo == Fifo!Spec

\* While frames wait, the program goes on reading them, unless it is stopped:
\* it never sleeps in poll or recvmmsg on frames it has been handed
\* (dns_insp.c:402-423, 500-539, 787-832).
Waiting ==
    CASE type = "raw"  -> Raw!Waiting
      [] type = "mmap" -> Mmap!Waiting
      [] OTHER         -> Xdp!Waiting
Served ==
    CASE type = "raw"  -> Raw!Served
      [] type = "mmap" -> Mmap!Served
      [] OTHER         -> Xdp!Served
Consumed == []<>(~Waiting \/ Served \/ pc = "exit")
=============================================================================
