----------------------------- MODULE MCPcapTools -----------------------------
(***************************************************************************)
(* Instances of PcapTools for TLC: two packets to write; files of up to    *)
(* four blocks behind the first header, whole or cut at any byte, in both  *)
(* byte orders.                                                            *)
(***************************************************************************)
EXTENDS PcapTools, SequencesExt

SmallPackets == {[pkt |-> 21, len |-> 4], [pkt |-> 22, len |-> 5], [pkt |-> 23, len |-> 9]}

\* Packets are numbers here: the place in the file, or those above.
SmallKind(pkt) ==
    IF pkt % 3 = 0 THEN "other" ELSE IF pkt % 3 = 1 THEN "okay" ELSE "bad"

\* The blocks laid out side by side.
Lay(bs) == FoldLeft(LAMBDA f, b : AddBlock(f, b, b.size), << >>, bs)

\* Each block gets its number as the name of its packet.
Named(bs) == [k \in 1..Len(bs) |-> [bs[k] EXCEPT !.pkt = k]]

Short(b)      == [b EXCEPT !.tot = 4]
Options(b, n) == [b EXCEPT !.tot = @ + n, !.size = @ + n]

NgBlocks(swap) ==
    {Block("SHB", swap, NoPacket, 0), Block("IDB", swap, NoPacket, 0),
     Block("EPB", swap, NoPacket, 5), Options(Block("EPB", swap, NoPacket, 6), 8),
     Block("SPB", swap, NoPacket, 4), Block("NRB", swap, NoPacket, 8),
     Block("LOC", swap, NoPacket, 8)}

\* A section: its header and blocks of its byte order.
Sections(n) ==
    UNION {{<<Block("SHB", swap, NoPacket, 0)>> \o bs :
               bs \in UNION {[1..k -> NgBlocks(swap)] : k \in 0..n}} : swap \in BOOLEAN}

\* Sections of one byte order behind each other are already sequences of
\* blocks; what is left is a change of the byte order, either way.
TwoSections ==
    UNION {{s \o t : t \in {u \in Sections(2) : u[1].swap # s[1].swap}} : s \in Sections(2)}

Odd ==
    {<<Block("SHB", FALSE, NoPacket, 0), Block("IDB", FALSE, NoPacket, 0), b,
       Block("EPB", FALSE, NoPacket, 4)>> :
        b \in {Block("SPB", FALSE, NoPacket, 5), Block("EPB", FALSE, NoPacket, 0), Block("EPB", FALSE, NoPacket, 9),
               Short(Block("EPB", FALSE, NoPacket, 4)),
               Short(Block("SPB", FALSE, NoPacket, 4)),
               Short(Block("IDB", FALSE, NoPacket, 0)),
               Short(Block("SHB", FALSE, NoPacket, 0)),
               Block("BOM", FALSE, NoPacket, 0),
               Short(Block("NRB", FALSE, NoPacket, 8)),
               Block("DSB", FALSE, NoPacket, 4),
               Short(Block("DSB", FALSE, NoPacket, 4))}}
    \union {<<Short(Block("SHB", FALSE, NoPacket, 0))>>,
            <<Block("BOM", FALSE, NoPacket, 0)>>, <<Block("LOC", FALSE, NoPacket, 16)>>,
            <<Block("NRB", FALSE, NoPacket, 8)>>}

Legacy ==
    UNION {{<<Block("HDR", swap, NoPacket, 0)>> \o bs :
               bs \in UNION {[1..k -> {Block("REC", swap, NoPacket, n) : n \in {0, 3, 5, 9}}] :
                                k \in 0..3}} : swap \in BOOLEAN}

Whole == {Lay(Named(bs)) : bs \in Sections(3) \union TwoSections \union Odd \union Legacy}

\* Every cut of a few files that together hold each kind of block.
ToCut ==
    {Lay(Named(bs)) : bs \in
        {<<Block("SHB", FALSE, NoPacket, 0), Block("IDB", FALSE, NoPacket, 0)>>
            \o <<a, b>> : a, b \in NgBlocks(FALSE)}
        \union {<<Block("HDR", FALSE, NoPacket, 0), Block("REC", FALSE, NoPacket, 3),
                  Block("REC", FALSE, NoPacket, 5)>>}}
Truncated == UNION {{Cut(f, n) : n \in 0..FileLen(f)} : f \in ToCut}

SmallFiles == Whole \union Truncated
=============================================================================
