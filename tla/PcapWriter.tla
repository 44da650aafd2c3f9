----------------------------- MODULE PcapWriter -----------------------------
(***************************************************************************)
(* The writing side of pcap.c: pcap_open for writing, pcap_write and       *)
(* pcap_close.  One action is one call of fwrite, which may come up short  *)
(* and then sets sys_err.  A killed process leaves a prefix of the file,   *)
(* as stdio may still have held any tail of it.                            *)
(***************************************************************************)
EXTENDS PcapLayout

CONSTANTS
    Packets,    \* packets to write, records with a name pkt and a length len
    MaxWrites   \* calls of pcap_write

VARIABLES
    file,      \* the blocks on disk
    is_ng,     \* pcapng
    use_spb,   \* simple packet blocks
    have_idb,
    sys_err,
    wpc,       \* next fwrite, "ready" between calls, "shut", "lost" or "killed"
    asked,     \* packets pcap_write was called with
    acked      \* packets it returned 0 for

\* The writer is through: the file was closed, with or without its tail, or the
\* process was killed.
Ended == {"shut", "lost", "killed"}

wvars == <<file, is_ng, use_spb, have_idb, sys_err, wpc, asked, acked>>

Init ==
    /\ file = << >>
    /\ is_ng \in BOOLEAN
    /\ use_spb \in BOOLEAN
    /\ have_idb = FALSE
    /\ sys_err = FALSE
    /\ wpc = "open"
    /\ asked = << >>
    /\ acked = << >>

----------------------------------------------------------------------------
\* Plausible slips of the code, each substituted for the definition after it.

\* a failed write is forgotten
MayWriteAlways == TRUE
----------------------------------------------------------------------------

\* pcap_write: nothing is written behind an error.
MayWrite == ~sys_err

\* pcap_write_xpb
NeedsIdb == ~have_idb

Padding(p) == PadLen(p.len)

Packet   == asked[Len(asked)]
XpbType  == IF use_spb THEN "SPB" ELSE "EPB"
PktType  == IF is_ng THEN XpbType ELSE "REC"

\* pcap_write_block: n bytes that start a block, or fewer and an error.
PutBlock(b, ok, failed) ==
    LET n == HdrLen(b.type) IN
    \/ file' = AddBlock(file, b, n) /\ wpc' = ok /\ UNCHANGED sys_err
    \/ /\ \E k \in 1..(n - 1) : file' = AddBlock(file, b, k)
       /\ sys_err' = TRUE /\ wpc' = failed
    \/ UNCHANGED file /\ sys_err' = TRUE /\ wpc' = failed

\* pcap_write_data: n more bytes of the block, or fewer and an error.
PutData(n, ok, failed) ==
    \/ file' = Grow(file, n) /\ wpc' = ok /\ UNCHANGED sys_err
    \/ /\ \E k \in 0..(n - 1) : file' = Grow(file, k)
       /\ sys_err' = TRUE /\ wpc' = failed

\* pcap_write returns: 0 counts the packet as written.
Returned(val) == acked' = IF val = 0 THEN Append(acked, Packet) ELSE acked

----------------------------------------------------------------------------
\* pcap_open: the file header or the section header, and its footer.
Open ==
    /\ wpc = "open"
    /\ IF is_ng THEN PutBlock(Block("SHB", FALSE, NoPacket, 0), "shb_foot", "shut")
                ELSE PutBlock(Block("HDR", FALSE, NoPacket, 0), "ready", "shut")
    /\ UNCHANGED <<is_ng, use_spb, have_idb, asked, acked>>

ShbFooter ==
    /\ wpc = "shb_foot"
    /\ PutData(FOOTER_LEN, "ready", "shut")
    /\ UNCHANGED <<is_ng, use_spb, have_idb, asked, acked>>

\* pcap_write is called; refused once an error was met.
Write ==
    /\ wpc = "ready" /\ Len(asked) < MaxWrites
    /\ \E p \in Packets : asked' = Append(asked, p)
    /\ wpc' = IF ~MayWrite THEN "ready"
              ELSE IF is_ng /\ NeedsIdb THEN "idb" ELSE "pkt"
    /\ UNCHANGED <<file, is_ng, use_spb, have_idb, sys_err, acked>>

WriteIdb ==
    /\ wpc = "idb"
    /\ PutBlock(Block("IDB", FALSE, NoPacket, 0), "idb_foot", "ready")
    /\ UNCHANGED <<is_ng, use_spb, have_idb, asked, acked>>

IdbFooter ==
    /\ wpc = "idb_foot"
    /\ PutData(FOOTER_LEN, "pkt", "ready")
    /\ have_idb' = ~sys_err'
    /\ UNCHANGED <<is_ng, use_spb, asked, acked>>

\* The header of the packet's record or block.
WriteHdr ==
    /\ wpc = "pkt"
    /\ PutBlock(Block(PktType, FALSE, Packet.pkt, Packet.len), "data", "ready")
    /\ UNCHANGED <<is_ng, use_spb, have_idb, asked, acked>>

\* The packet's octets.  When they cannot be written a record reports the
\* failure; the simple and the enhanced block return 0 all the same.
WriteData ==
    /\ wpc = "data"
    /\ PutData(Packet.len,
               IF ~is_ng THEN "ready" ELSE IF Padding(Packet) > 0 THEN "pad" ELSE "foot",
               "ready")
    /\ IF is_ng
       THEN IF sys_err' THEN Returned(0) ELSE UNCHANGED acked
       ELSE Returned(IF sys_err' THEN -1 ELSE 0)
    /\ UNCHANGED <<is_ng, use_spb, have_idb, asked>>

WritePad ==
    /\ wpc = "pad"
    /\ PutData(Padding(Packet), "foot", "ready")
    /\ UNCHANGED <<is_ng, use_spb, have_idb, asked, acked>>

WriteFooter ==
    /\ wpc = "foot"
    /\ PutData(FOOTER_LEN, "ready", "ready")
    /\ Returned(IF sys_err' THEN -1 ELSE 0)
    /\ UNCHANGED <<is_ng, use_spb, have_idb, asked>>

\* pcap_close; an fclose that fails loses what stdio still held.
Close ==
    /\ wpc = "ready"
    /\ \/ wpc' = "shut" /\ UNCHANGED file
       \/ wpc' = "lost" /\ \E n \in 0..FileLen(file) : file' = Cut(file, n)
    /\ UNCHANGED <<is_ng, use_spb, have_idb, sys_err, asked, acked>>

\* The process is killed; what stdio had not passed on is lost.
Crash ==
    /\ wpc \notin Ended
    /\ \E n \in 0..FileLen(file) : file' = Cut(file, n)
    /\ wpc' = "killed"
    /\ UNCHANGED <<is_ng, use_spb, have_idb, sys_err, asked, acked>>

Next ==
    \/ Open \/ ShbFooter \/ Write \/ WriteIdb \/ IdbFooter
    \/ WriteHdr \/ WriteData \/ WritePad \/ WriteFooter \/ Close \/ Crash

Spec == Init /\ [][Next]_wvars

----------------------------------------------------------------------------
\* The variables keep their types; blocks lie side by side.
TypeOK ==
    /\ is_ng \in BOOLEAN /\ use_spb \in BOOLEAN
    /\ have_idb \in BOOLEAN /\ sys_err \in BOOLEAN
    /\ wpc \in {"open", "shb_foot", "ready", "idb", "idb_foot", "pkt", "data",
                "pad", "foot"} \union Ended
    /\ \A k \in 1..Len(file) :
          /\ file[k].at = IF k = 1 THEN 0 ELSE file[k - 1].at + file[k - 1].size
          /\ file[k].size \in 0..file[k].tot
=============================================================================
