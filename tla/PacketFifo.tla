----------------------------- MODULE PacketFifo -----------------------------
(***************************************************************************)
(* What a capture method of dns-insp promises: the frames the kernel       *)
(* accepts are inspected one by one, in order, each once and unchanged.    *)
(* Frames may be refused, but not lost once accepted.                      *)
(***************************************************************************)
EXTENDS Sequences

CONSTANT Packets

VARIABLES
    queue,   \* frames accepted and not inspected yet
    last     \* the frame insp_process_pkt saw last, an element of Packets

vars == <<queue, last>>

Init == queue = << >> /\ last \notin Packets

Accept ==
    /\ \E p \in Packets : queue' = Append(queue, p)
    /\ UNCHANGED last

Inspect ==
    /\ queue # << >>
    /\ last' = Head(queue)
    /\ queue' = Tail(queue)

Next == Accept \/ Inspect

Spec == Init /\ [][Next]_vars
=============================================================================
