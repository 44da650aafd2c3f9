----------------------------- MODULE PcapReader -----------------------------
(***************************************************************************)
(* The reading side of pcap.c: pcap_open for reading (which detects the    *)
(* format) and pcap_read, called until it returns 0 as the loops of        *)
(* dns-insp do.  A block whose byte order is not the one in force is read  *)
(* as one of unknown type and enormous length.                             *)
(***************************************************************************)
EXTENDS PcapLayout

CONSTANTS
    Files,   \* capture files
    BufLen   \* size of the caller's buffer, 2048 in dns-insp

VARIABLES
    file,        \* the file, read only
    pos,         \* position of the stream
    must_swap,
    have_shb,
    have_idb,
    sys_err,
    have_eof,
    rpc,         \* "open", "ready", "rec", "xpb", "stop" once pcap_read gave 0
    got          \* the packets returned, with their lengths

flags == <<must_swap, have_shb, have_idb>>
rvars == <<file, pos, flags, sys_err, have_eof, rpc, got>>

Start ==
    /\ pos = 0
    /\ must_swap = FALSE
    /\ have_shb = FALSE
    /\ have_idb = FALSE
    /\ sys_err = FALSE
    /\ have_eof = FALSE
    /\ rpc = "open"
    /\ got = << >>

----------------------------------------------------------------------------
\* Plausible slips of the code, each substituted for the definition after it.

\* must_swap is set and never cleared
SwapAfterSectionSticky(b) == must_swap \/ b.swap
\* a short read counts
CanReadOnly(n) == pos < FileLen(file)
----------------------------------------------------------------------------

\* pcap_read_data: all n bytes are there.
CanRead(n) == pos + n <= FileLen(file)

\* The block at the position; the blocks of a file lie side by side and the
\* reader moves by whole ones, see TypeOK.
Here == CHOOSE k \in 1..Len(file) : file[k].at = pos
This == file[Here]
AtBlock == \E k \in 1..Len(file) : file[k].at = pos /\ file[k].size > 0

\* pcap_peek_block: the type as read in the byte order in force, returned as an
\* int, so that one with its top bit set is negative.  A section header's type
\* reads the same both ways.
TypeRead ==
    IF This.type \in {"SHB", "BOM"} THEN "SHB"
    ELSE IF This.swap # must_swap THEN "unknown"
    ELSE IF This.type = "LOC" THEN "negative" ELSE This.type

\* rec.incl_len > len; a negative length is a huge unsigned one.
TooBig(n) == n < 0 \/ n > BufLen

\* Behind the block, as tot_len says; a length read in the wrong order leads
\* beyond every file.
EndOfBlock(b) == b.at + b.tot
Beyond        == FileLen(file) + 1

\* pcap_read_shb: must_swap follows the section's byte-order magic, if it is one.
BadMagic(b)         == b.type = "BOM"
SwapAfterSection(b) == b.swap

\* pcap_read returns 0: nothing more is asked for, and where the stream is
\* then is not kept.
ReturnNothing == rpc' = "stop" /\ UNCHANGED got
ReturnPacket(b, n) ==
    IF n > 0 THEN rpc' = "ready" /\ got' = Append(got, [pkt |-> b.pkt, len |-> n])
             ELSE ReturnNothing

\* A read that comes up short: at the end of the file it is noted as such.
ShortRead(n) ==
    /\ ~CanRead(n)
    /\ have_eof' = (have_eof \/ pos >= FileLen(file))

----------------------------------------------------------------------------
\* pcap_detect_fmt and the first header; a file of neither format is refused.
Open ==
    /\ rpc = "open"
    /\ \/ /\ CanRead(4) /\ This.type = "HDR" /\ CanRead(24)
          /\ must_swap' = This.swap
          /\ pos' = EndOfBlock(This)
          /\ rpc' = "ready"
          /\ UNCHANGED <<have_shb, have_eof>>
       \/ /\ CanRead(4) /\ TypeRead = "SHB" /\ CanRead(24)
          /\ have_shb' = TRUE
          /\ must_swap' = IF BadMagic(This) THEN must_swap ELSE SwapAfterSection(This)
          /\ LET bad == BadMagic(This) \/ This.tot < 24 IN
                \/ bad /\ rpc' = "stop" /\ UNCHANGED pos
                \/ ~bad /\ rpc' = "ready" /\ pos' = EndOfBlock(This)
          /\ UNCHANGED have_eof
       \/ /\ ~(CanRead(24) /\ (This.type = "HDR" \/ TypeRead = "SHB"))
          /\ have_eof' = (FileLen(file) = 0)
          /\ rpc' = "stop"
          /\ UNCHANGED <<must_swap, have_shb, pos>>
    /\ UNCHANGED <<file, have_idb, sys_err, got>>

\* pcap_read is called.
Call ==
    /\ rpc = "ready"
    /\ rpc' = IF sys_err \/ have_eof THEN "stop"
              ELSE IF file[1].type = "HDR" THEN "rec" ELSE "xpb"
    /\ UNCHANGED <<file, pos, flags, sys_err, have_eof, got>>

\* fread reports an error of the device.
ReadError ==
    /\ rpc \in {"rec", "xpb"}
    /\ sys_err' = TRUE
    /\ ReturnNothing
    /\ UNCHANGED <<file, pos, flags, have_eof>>

\* pcap_read_rec
ReadRec ==
    /\ rpc = "rec"
    /\ \/ ShortRead(16) /\ ReturnNothing /\ UNCHANGED pos
       \/ CanRead(16) /\ TooBig(This.incl) /\ ReturnNothing /\ UNCHANGED <<pos, have_eof>>
       \/ /\ CanRead(16) /\ ~TooBig(This.incl) /\ ~CanRead(16 + This.incl)
          /\ ReturnNothing
          /\ have_eof' = (have_eof \/ pos + 16 = FileLen(file))
          /\ UNCHANGED pos
       \/ /\ CanRead(16) /\ ~TooBig(This.incl) /\ CanRead(16 + This.incl)
          /\ ReturnPacket(This, This.incl)
          /\ pos' = EndOfBlock(This)
          /\ UNCHANGED have_eof
    /\ UNCHANGED <<file, flags, sys_err>>

\* pcap_peek_block finds no further block, or one whose type is negative and
\* ends the loop like an error.
PeekEnd ==
    /\ rpc = "xpb"
    /\ \/ ShortRead(4)
       \/ CanRead(4) /\ TypeRead = "negative" /\ UNCHANGED have_eof
    /\ ReturnNothing
    /\ UNCHANGED <<file, pos, flags, sys_err>>

\* A header that is cut or whose length is below its own size.
BadBlock(n) == ~CanRead(n) \/ This.tot < n

\* The blocks that are read and passed over within one call.
ReadShb ==
    /\ rpc = "xpb" /\ CanRead(4) /\ TypeRead = "SHB"
    /\ have_shb' = (have_shb \/ CanRead(24))
    /\ must_swap' = IF CanRead(24) /\ ~BadMagic(This) THEN SwapAfterSection(This)
                    ELSE must_swap
    /\ LET bad == BadBlock(24) \/ BadMagic(This) IN
          \/ bad /\ ReturnNothing /\ UNCHANGED pos
          \/ ~bad /\ pos' = EndOfBlock(This) /\ UNCHANGED <<rpc, got>>
    /\ UNCHANGED <<file, have_idb, sys_err, have_eof>>

ReadIdb ==
    /\ rpc = "xpb" /\ CanRead(4) /\ TypeRead = "IDB"
    /\ have_idb' = (have_idb \/ CanRead(16))
    /\ \/ BadBlock(16) /\ ReturnNothing /\ UNCHANGED pos
       \/ ~BadBlock(16) /\ pos' = EndOfBlock(This) /\ UNCHANGED <<rpc, got>>
    /\ UNCHANGED <<file, must_swap, have_shb, sys_err, have_eof>>

SkipBlock ==
    /\ rpc = "xpb" /\ CanRead(4)
    /\ TypeRead \notin {"SHB", "IDB", "SPB", "EPB", "DSB", "negative"}
    /\ \/ BadBlock(8) /\ ReturnNothing /\ UNCHANGED pos
       \/ /\ ~BadBlock(8)
          /\ pos' = IF This.swap = must_swap THEN EndOfBlock(This) ELSE Beyond
          /\ UNCHANGED <<rpc, got>>
    /\ UNCHANGED <<file, flags, sys_err, have_eof>>

\* The blocks that end the call: the n octets behind a header of h, if the
\* block may appear here.  What is left of tot_len is skipped, unsigned.
PacketBlock(type, allowed, n) ==
    LET h    == HdrLen(type)
        fine == allowed /\ ~BadBlock(h) /\ ~TooBig(n)
    IN  /\ rpc = "xpb" /\ CanRead(4) /\ TypeRead = type
        /\ \/ /\ ~(fine /\ CanRead(h + n))
              /\ ReturnNothing
              /\ have_eof' = (have_eof \/ (fine /\ pos + h = FileLen(file)))
              /\ UNCHANGED pos
           \/ /\ fine /\ CanRead(h + n)
              /\ ReturnPacket(This, n)
              /\ pos' = IF This.tot >= h + n THEN EndOfBlock(This) ELSE Beyond
              /\ UNCHANGED have_eof
        /\ UNCHANGED <<file, flags, sys_err>>

\* A simple block is returned with its padding, all but the footer; the secrets
\* of a DSB come back like a packet.
ReadSpb == PacketBlock("SPB", have_idb, This.tot - (HdrLen("SPB") + FOOTER_LEN))
ReadEpb == PacketBlock("EPB", have_idb, This.incl)
ReadDsb == PacketBlock("DSB", have_shb, This.tot - (HdrLen("DSB") + FOOTER_LEN))

Next ==
    \/ Open \/ Call \/ ReadError \/ ReadRec
    \/ PeekEnd \/ ReadShb \/ ReadIdb \/ SkipBlock \/ ReadSpb \/ ReadEpb \/ ReadDsb

Init == file \in Files /\ Start

Spec == Init /\ [][Next]_rvars

----------------------------------------------------------------------------
Stopped == rpc = "stop"

\* Where the section of block k starts, in a pcapng file.
SectionOf(k) == CHOOSE j \in 1..k : /\ file[j].type = "SHB"
                                    /\ \A i \in (j + 1)..k : file[i].type # "SHB"

\* A packet the reader returns as it was captured: it fits the buffer, is not
\* empty, belongs to an interface and, in a simple block, needs no padding.
Plain(k) ==
    /\ file[k].incl \in 1..BufLen
    /\ file[k].type = "SPB" => PadLen(file[k].incl) = 0
    /\ file[k].type \in {"SPB", "EPB"} =>
          \E j \in SectionOf(k)..k : file[j].type = "IDB"

\* A file that any writer of the format may leave, cut or not, with packets
\* that are plain: no secrets, no header that contradicts its block or has no
\* byte-order magic.
Ordinary ==
    /\ \A k \in 1..Len(file) :
          /\ file[k].type \notin {"DSB", "BOM"}
          /\ file[k].tot >= HdrLen(file[k].type) + file[k].incl
          /\ CarriesPacket(file[k]) => Plain(k)

\* The variables keep their types, and between two calls the stream is at the
\* start of a block or at the end, so that packet octets are never taken for a
\* header, however blocks of known and unknown type, padded or with options,
\* follow one another (pcap.c:687-752).
TypeOK ==
    /\ pos \in Nat
    /\ must_swap \in BOOLEAN /\ have_shb \in BOOLEAN /\ have_idb \in BOOLEAN
    /\ sys_err \in BOOLEAN /\ have_eof \in BOOLEAN
    /\ rpc \in {"open", "ready", "rec", "xpb", "stop"}
    /\ \A k \in 1..Len(got) : got[k].len \in 1..BufLen
    /\ Ordinary /\ rpc \in {"ready", "rec", "xpb"} =>
          pos >= FileLen(file) \/ AtBlock

\* What was returned so far are the first packets of the file, in order and
\* each with its captured length, also across sections of either byte order.
InOrder ==
    Ordinary => /\ Len(got) <= Len(PacketsOf(file))
                /\ \A k \in 1..Len(got) : got[k] = PacketsOf(file)[k]

\* The file up to the first block for local use, where the reader stops.
Reached ==
    LET locals == {k \in 1..Len(file) : file[k].type = "LOC"}
    IN  IF locals = {} THEN file
        ELSE SubSeq(file, 1, (CHOOSE k \in locals : \A j \in locals : k <= j) - 1)

\* When pcap_read gives 0 and the device reported no error, every packet whose
\* octets are in the file in front of a block for local use has been returned,
\* also from a file cut anywhere.
NothingLeft ==
    Ordinary /\ Stopped /\ ~sys_err => Len(got) = Len(PacketsOf(Reached))

\* pcap.h:19 "buf has a raw ethernet packet with size pkt_len": the length
\* returned is the captured one.
ExactLength ==
    \A k \in 1..Len(got) : \A j \in 1..Len(file) :
        got[k].pkt = file[j].pkt => got[k].len = file[j].incl

\* pcap.c:734 "read packet data from either SPB or EPB": nothing else comes
\* back from a pcapng file.
OnlyPackets ==
    \A k \in 1..Len(got) : \A j \in 1..Len(file) :
        got[k].pkt = file[j].pkt => CarriesPacket(file[j])

\* pcap.c:543 "missing IDB": no packet is returned from a section without an
\* interface description.
SectionHasIdb ==
    \A k \in 1..Len(got) : \A j \in 1..Len(file) :
        got[k].pkt = file[j].pkt /\ file[j].type = "EPB" =>
            \E i \in SectionOf(j)..j : file[i].type = "IDB"
=============================================================================
