----------------------------- MODULE RawCapture -----------------------------
(***************************************************************************)
(* The raw capture of dns-insp: open_pcap, setup_raw, capture_raw,         *)
(* insp_process_msg and insp_free (dns_insp.c), with the AF_PACKET socket  *)
(* they use, whose queue is not emptied when it is bound and filtered.     *)
(***************************************************************************)
EXTENDS CaptureBase

VARIABLES
    come,        \* frames that have come by
    sock,        \* "none", "open", "bound", "filtered" or "closed"
    sockq,       \* the socket's receive queue
    msgs,        \* insp->msgs: the messages still to be processed
    last,        \* the frame inspected last
    file,        \* "none", "open", "failed" or "closed": insp->pcap
    written,     \* frames in the capture file
    inspected,   \* frames handed to insp_process_pkt
    dns_pkts,    \* frames of these that dns_validate saw
    run,         \* insp->sig.run
    pc

capture == <<written, inspected, dns_pkts, last>>
vars == <<come, sock, sockq, msgs, file, capture, run, pc>>

Idle ==
    /\ come = 0 /\ sockq = << >> /\ msgs = << >>
    /\ written = << >> /\ inspected = << >> /\ dns_pkts = 0

Init ==
    /\ Idle
    /\ sock = "none" /\ file \in {"none", "open"}
    /\ run = TRUE /\ pc = "socket" /\ last = NoFrame

----------------------------------------------------------------------------
\* Plausible slips of the code, each substituted for the definition after it.

\* the file is written after the frame is inspected and found to be DNS
WriteOnlyDns == file = "open" /\ Head(msgs).dns
\* SO_ATTACH_FILTER is set, and the filter is one that accepts everything
AttachVoid ==
    /\ pc = "filter" /\ pc' = "promisc"
    /\ UNCHANGED <<come, sock, sockq, msgs, file, capture, run>>
----------------------------------------------------------------------------

\* A step of setup_raw succeeds and the next one follows, or it fails and the
\* program goes on to insp_free.
SetupStep(from, to, new) ==
    /\ pc = from
    /\ \/ pc' = to /\ sock' = new
       \/ pc' = "free" /\ UNCHANGED sock
    /\ UNCHANGED <<come, sockq, msgs, file, capture, run>>

Socket  == SetupStep("socket", "bind", "open")
Bind    == SetupStep("bind", "filter", "bound")
\* Failing to set the size of the receive buffer is only logged.
Attach  == SetupStep("filter", "promisc", "filtered")
Promisc == SetupStep("promisc", "loop", sock)

\* while (insp->sig.run)
LoopTest ==
    /\ pc = "loop"
    /\ pc' = IF run THEN "enter" ELSE "free"
    /\ UNCHANGED <<come, sock, sockq, msgs, file, capture, run>>

\* The program enters recvmmsg, which waits for a first frame without limit.
EnterRecv ==
    /\ pc = "enter"
    /\ pc' = "blocked"
    /\ UNCHANGED <<come, sock, sockq, msgs, file, capture, run>>

\* How many frames one call takes.
Batch(q) == IF Len(q) < PKT_MAXRECV THEN Len(q) ELSE PKT_MAXRECV
Rest(q, n) == SubSeq(q, n + 1, Len(q))

\* It returns what is queued, at most PKT_MAXRECV frames.
Recv ==
    /\ pc = "blocked" /\ sockq # << >>
    /\ LET n == Batch(sockq) IN
          /\ msgs' = SubSeq(sockq, 1, n)
          /\ sockq' = Rest(sockq, n)
    /\ pc' = "write"
    /\ UNCHANGED <<come, sock, file, capture, run>>

RecvError ==
    /\ pc = "blocked"
    /\ pc' = "free"
    /\ UNCHANGED <<come, sock, sockq, msgs, file, capture, run>>

WritesFile == file = "open"

\* insp_process_msg writes the frame as it came; the result of pcap_write is
\* not looked at, and a file that failed once is not written again.
WriteMsg ==
    /\ pc = "write" /\ msgs # << >>
    /\ pc' = "inspect"
    /\ \/ WritesFile /\ written' = Append(written, Head(msgs)) /\ UNCHANGED file
       \/ WritesFile /\ file' = "failed" /\ UNCHANGED written
       \/ ~WritesFile /\ UNCHANGED <<written, file>>
    /\ UNCHANGED <<come, sock, sockq, msgs, inspected, dns_pkts, last, run>>

\* insp_process_pkt: only DNS reaches dns_validate.
InspectMsg ==
    /\ pc = "inspect"
    /\ LET frame == Head(msgs) IN
          /\ last' = frame
          /\ inspected' = Append(inspected, frame)
          /\ dns_pkts' = dns_pkts + (IF frame.dns THEN 1 ELSE 0)
    /\ msgs' = Tail(msgs)
    /\ pc' = "write"
    /\ UNCHANGED <<come, sock, sockq, file, written, run>>

BatchDone ==
    /\ pc = "write" /\ msgs = << >>
    /\ pc' = "loop"
    /\ UNCHANGED <<come, sock, sockq, msgs, file, capture, run>>

\* insp_free
Free ==
    /\ pc = "free"
    /\ sock' = IF sock = "none" THEN "none" ELSE "closed"
    /\ file' = IF file = "none" THEN "none" ELSE "closed"
    /\ pc' = "exit"
    /\ UNCHANGED <<come, sockq, msgs, capture, run>>

\* SIGINT or SIGTERM: handle_signal clears run; a recvmmsg that waits returns
\* EINTR.
Signal ==
    /\ run
    /\ run' = FALSE
    /\ pc' = IF pc = "blocked" /\ sockq = << >> THEN "loop" ELSE pc
    /\ UNCHANGED <<come, sock, sockq, msgs, file, capture>>

----------------------------------------------------------------------------
\* A frame passes on some device; the socket queues it, or drops it.
Arrive ==
    /\ come < MaxFrames
    /\ come' = come + 1
    /\ \E frame \in {f \in Frames : f.id = come'} :
          IF Accepts(sock, frame) /\ Len(sockq) < RcvBuf
          THEN sockq' = Append(sockq, frame)
          ELSE UNCHANGED sockq
    /\ UNCHANGED <<sock, msgs, file, capture, run, pc>>

Program ==
    \/ Socket \/ Bind \/ Attach \/ Promisc
    \/ LoopTest \/ EnterRecv \/ Recv \/ WriteMsg \/ InspectMsg \/ BatchDone
    \/ Free

Next == Program \/ RecvError \/ Signal \/ Arrive

Spec == Init /\ [][Next]_vars

\* The program runs whenever it is not blocked.  Nothing makes frames arrive.
FairSpec == Spec /\ WF_vars(Program)

----------------------------------------------------------------------------
\* The variables keep their types; the receive queue and the message array are
\* within bounds.
TypeOK ==
    /\ come \in 0..MaxFrames
    /\ sock \in {"none", "open", "bound", "filtered", "closed"}
    /\ sockq \in Seq(Frames) /\ Len(sockq) <= RcvBuf
    /\ msgs \in Seq(Frames) /\ Len(msgs) <= PKT_MAXRECV
    /\ file \in {"none", "open", "failed", "closed"}
    /\ written \in Seq(Frames) /\ inspected \in Seq(Frames)
    /\ dns_pkts \in 0..Len(inspected) /\ last \in Frames \union {NoFrame}
    /\ run \in BOOLEAN
    /\ pc \in {"socket", "bind", "filter", "promisc", "loop", "enter", "blocked",
               "write", "inspect", "free", "exit"}

\* The capture file holds the frames that were inspected, in their order: all of
\* them while no write fails, and otherwise those before the failure.  It may be
\* one frame ahead, the one being processed (dns_insp.c:324-336).
FileAgrees ==
    LET seen == IF pc = "inspect" THEN Append(inspected, Head(msgs)) ELSE inspected
    IN  /\ \E n \in 0..Len(seen) : written = SubSeq(seen, 1, n)
        /\ file = "open" => written = seen

\* The frames taken from the socket and those it still holds.
Queue == msgs \o sockq

\* Frames are there to be read, and the program has just read some.
Waiting == sockq # << >>
Served  == pc = "inspect"

\* README.md:130 "shutting down: got signal 2 (Interrupt)": a signal ends the
\* capture (dns_insp.c:402-423).
SignalStops == ~run ~> pc = "exit"

\* README.md:93 "can write DNS traffic to a PCAP file": what is written is DNS.
OnlyDnsWritten == \A n \in 1..Len(written) : written[n].dns

\* README.md:60 "network interface to listen on": what is inspected passed on
\* that interface.
OnlyThisDevice == \A n \in 1..Len(inspected) : inspected[n].dev
=============================================================================
