----------------------------- MODULE PcapTools -----------------------------
(***************************************************************************)
(* The programs around pcap.c.  A capture file is written by dns-gen with  *)
(* --output (one packet, gen_pcap_file) or by a capture of dns-insp, which *)
(* may fail or be killed, or it comes from elsewhere; then dns-insp reads  *)
(* what is on disk, run_readpcap or run_tracepcap (dns_insp.c).            *)
(*                                                                         *)
(* What insp_process_pkt makes of a packet is given by the packet: other   *)
(* than DNS, a message dns_validate accepts or one it refuses.             *)
(***************************************************************************)
EXTENDS PcapLayout

CONSTANTS
    Packets, MaxWrites,   \* what is written, see PcapWriter
    Files,                \* files from elsewhere
    BufLen,               \* size of the reader's buffer, 2048 in dns-insp
    Kind(_)               \* "other", "okay" or "bad"

ASSUME ToolsAssumption ==
    /\ \A p \in Packets : p.len \in Nat
    /\ MaxWrites \in Nat /\ BufLen \in Nat

VARIABLES
    origin,   \* "gen" (which knows no simple blocks), "capture" or "elsewhere"
    told,     \* dns-gen: "nothing", "wrote" or "failed"
    file,
    is_ng, use_spb, w_have_idb, w_sys_err, wpc, asked, acked,
    pos, must_swap, have_shb, have_idb, sys_err, have_eof, rpc, got,
    mode,     \* "readpcap" or "tracepcap"
    stats,    \* insp->rcv_pkts, dns_pkts, dns_okay and dns_fail
    rc        \* 0, or what run_readpcap returned

W == INSTANCE PcapWriter WITH have_idb <- w_have_idb, sys_err <- w_sys_err
R == INSTANCE PcapReader

writer == <<is_ng, use_spb, w_have_idb, w_sys_err, wpc, asked, acked, told>>
reader == <<pos, must_swap, have_shb, have_idb, sys_err, have_eof, rpc, got>>
insp   == <<mode, stats, rc>>
vars   == <<origin, file, writer, reader, insp>>

Init ==
    /\ origin \in {"gen", "capture", "elsewhere"}
    /\ \/ origin # "elsewhere" /\ W!Init /\ (origin = "gen" => ~use_spb)
       \/ /\ origin = "elsewhere" /\ file \in Files
          /\ is_ng = FALSE /\ use_spb = FALSE /\ w_have_idb = FALSE /\ w_sys_err = FALSE
          /\ wpc = "shut" /\ asked = << >> /\ acked = << >>
    /\ R!Start
    /\ told = "nothing"
    /\ mode \in {"readpcap", "tracepcap"} /\ rc = 0
    /\ stats = [rcv_pkts |-> 0, dns_pkts |-> 0, dns_okay |-> 0, dns_fail |-> 0]

----------------------------------------------------------------------------
\* Plausible slips of the code, each substituted for the definition after it.

\* rc is only returned when it is positive
StopsOnNever(val) == FALSE
\* the result of pcap_write is not looked at
WriteReturnedAny == wpc = "ready" /\ asked # << >>
----------------------------------------------------------------------------

\* pcap_write has returned 0 for dns-gen's packet.
WriteReturned == wpc = "ready" /\ acked # << >>

\* gen_pcap_file: open, one packet, close, each unless the one before failed.
GenWrites ==
    /\ W!Next
    /\ wpc = "ready" /\ asked = << >> => wpc' # "shut" /\ wpc' # "lost"
    /\ wpc = "ready" /\ asked # << >> => asked' = asked
    /\ told' = IF wpc' = "shut" /\ WriteReturned THEN "wrote"
               ELSE IF wpc' \in {"shut", "lost"} THEN "failed" ELSE told

Writing ==
    /\ \/ origin = "gen" /\ GenWrites
       \/ origin = "capture" /\ W!Next /\ UNCHANGED told
    /\ UNCHANGED <<origin, reader, insp>>

\* A packet pcap_read has returned and the loop has not looked at yet.
Pending == mode = "readpcap" /\ stats.rcv_pkts < Len(got)

Reading ==
    /\ wpc \in W!Ended /\ ~Pending /\ rc = 0
    /\ R!Next
    /\ UNCHANGED <<origin, writer, insp>>

\* The rc of insp_process_pkt for which run_readpcap returns.
StopsOn(val) == val # 0

\* A packet that comes with the padding of a simple block is not the one that
\* was captured, and a message may be refused for it.
Verdicts(p) ==
    IF \E k \in 1..Len(file) : /\ CarriesPacket(file[k])
                               /\ file[k].pkt = p.pkt /\ file[k].incl = p.len
    THEN {Kind(p.pkt)} ELSE {Kind(p.pkt), "bad"}

Inspect ==
    /\ Pending
    /\ \E kind \in Verdicts(got[Len(got)]) :
          /\ stats' = [rcv_pkts |-> stats.rcv_pkts + 1,
                       dns_pkts |-> stats.dns_pkts + (IF kind = "other" THEN 0 ELSE 1),
                       dns_okay |-> stats.dns_okay + (IF kind = "okay" THEN 1 ELSE 0),
                       dns_fail |-> stats.dns_fail + (IF kind = "bad" THEN 1 ELSE 0)]
          /\ LET val == IF kind = "bad" THEN -1 ELSE 0 IN
                IF StopsOn(val) THEN rc' = val ELSE UNCHANGED rc
    /\ UNCHANGED <<origin, file, writer, reader, mode>>

Next == Writing \/ Reading \/ Inspect

Spec == Init /\ [][Next]_vars

----------------------------------------------------------------------------
\* Packets of these lengths are returned as they were written: they fit the
\* reader's buffer and, in simple blocks, need no padding.
Faithful(p) == p.len \in 1..BufLen /\ (is_ng /\ use_spb => PadLen(p.len) = 0)
AllFaithful == \A k \in 1..Len(asked) : Faithful(asked[k])

\* Whatever fails and whenever the process dies, only the last block of a file
\* can be torn: nothing is written behind an incomplete block, where a reader
\* would take packet octets for a header (pcap.c:910-912).
TornOnlyLast ==
    origin # "elsewhere" =>
        /\ W!TypeOK
        /\ \A k \in 1..(Len(file) - 1) : BlockWhole(file[k])

\* What the reader returns are the packets on disk, in order and each as it was,
\* from a file cut anywhere and across sections of either byte order; of a file
\* of our own these are the packets handed to pcap_write, in that order.
ReadsInOrder ==
    /\ R!TypeOK /\ R!InOrder
    /\ origin # "elsewhere" /\ AllFaithful =>
          LET whole == PacketsOf(file) IN
          /\ Len(got) <= Len(whole) /\ Len(whole) <= Len(asked)
          /\ \A k \in 1..Len(got) : got[k] = whole[k]
          /\ \A k \in 1..Len(whole) : whole[k] = asked[k]

\* When pcap_read gives 0 and the device reported no error, every packet whose
\* octets are in the file in front of a block for local use has been returned;
\* and of a file of our own that is every packet pcap_write was called with if
\* no write failed and the file was closed.  StopsAtEnd is about packets behind
\* a block for local use.
ReadsAll ==
    /\ R!NothingLeft
    /\ origin # "elsewhere" /\ rpc = "stop" /\ ~sys_err /\ AllFaithful =>
          /\ got = PacketsOf(file)
          /\ wpc = "shut" /\ ~w_sys_err => got = asked

\* Of an ordinary file that the device reads without an error, run_readpcap
\* returns 0 only if every packet in front of a block for local use is inspected
\* and none refused; otherwise it returns at the first that is refused.  Its
\* counters add up (dns_insp.c:266-322, 995-1009).  What it returns after a
\* device error, which pcap_read reports like the end, is not part of this.
ZeroMeansClean ==
    mode = "readpcap" =>
        /\ stats.dns_okay + stats.dns_fail = stats.dns_pkts
        /\ stats.dns_fail = IF rc = 0 THEN 0 ELSE 1
        /\ R!Ordinary /\ rpc = "stop" /\ ~sys_err /\ ~Pending /\ rc = 0 =>
              LET ps == PacketsOf(R!Reached) IN
              /\ stats.rcv_pkts = Len(ps)
              /\ \A k \in 1..Len(ps) : Kind(ps[k].pkt) # "bad"
        /\ rc # 0 /\ R!Ordinary =>
              \A k \in 1..Len(got) : Kind(got[k].pkt) = "bad" <=> k = Len(got)

\* When dns-gen reports that it wrote the message, the file holds it whole and
\* dns-insp finds it there; of pcapng, whose blocks report a failed write of
\* their octets as success, if no write failed (dns_gen.c:214-230).
ToldWritten ==
    told = "wrote" /\ (is_ng => ~w_sys_err) /\ AllFaithful =>
        /\ PacketsOf(file) = asked /\ Len(asked) = 1
        /\ rpc = "stop" /\ ~sys_err => got = asked

\* pcap.c:750 "eof or error": pcap_read gives 0 of an ordinary pcapng file only
\* at its end or after an error; without one, all its packets were returned.
StopsAtEnd ==
    R!Ordinary /\ rpc = "stop" /\ ~sys_err => Len(got) = Len(PacketsOf(file))

\* pcap.h:28 "pcap_write(pf, buf, len)   : write packet to file": of a process
\* that was not killed, each packet pcap_write returned 0 for is in the file.
AckedWritten ==
    wpc = "ready" =>
        \A k \in 1..Len(acked) :
            \E j \in 1..Len(PacketsOf(file)) : PacketsOf(file)[j] = acked[k]

\* README.md:135 "Reads DNS messages from packet capture flle, decodes and prints
\* them to stdout": every message of the file is looked at.
AllInspected ==
    mode = "readpcap" /\ R!Ordinary /\ (rpc = "stop" \/ rc # 0) /\ ~sys_err /\ ~Pending =>
        stats.rcv_pkts = Len(PacketsOf(file))
=============================================================================
