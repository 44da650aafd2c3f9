----------------------------- MODULE PcapLayout -----------------------------
(***************************************************************************)
(* How capture files are laid out (pcap.h): a sequence of blocks, each at  *)
(* a byte position and with as many bytes as reached the disk.  Legacy     *)
(* files hold one HDR and RECs, pcapng files sections of an SHB, IDBs and  *)
(* packet blocks.  What the octets of a packet are is left to its name.    *)
(***************************************************************************)
EXTENDS Integers, Sequences

NoPacket == "none"

\* sizeof of the headers as the compiler lays them out; a block of any other
\* type is read by its type and length only.  BOM is a section header with no
\* valid byte-order magic, LOC a block of a type for local use, whose top bit
\* is set.
HdrLen(type) ==
    CASE type = "HDR" -> 24 [] type = "REC" -> 16 [] type \in {"SHB", "BOM"} -> 24
      [] type = "IDB" -> 16 [] type = "SPB" -> 12 [] type = "EPB" -> 28
      [] type = "DSB" -> 16 [] OTHER -> 8

FOOTER_LEN == 4

\* calc_padlen
PadLen(n) == (4 - (n % 4)) % 4

\* The bytes a block takes when nothing is missing.
TotLen(type, n) ==
    CASE type = "HDR" -> HdrLen(type)
      [] type = "REC" -> HdrLen(type) + n
      [] OTHER        -> HdrLen(type) + n + PadLen(n) + FOOTER_LEN

\* swap: written in the other byte order.  tot, incl: what the header says.
Block(type, swap, pkt, n) ==
    [type |-> type, swap |-> swap, pkt |-> pkt, incl |-> n,
     tot |-> TotLen(type, n), at |-> 0, size |-> TotLen(type, n)]

FileLen(f) == IF f = << >> THEN 0 ELSE f[Len(f)].at + f[Len(f)].size

\* The block behind the last one, n bytes of it present.
AddBlock(f, b, n) == Append(f, [b EXCEPT !.at = FileLen(f), !.size = n])

\* n more bytes of the last block.
Grow(f, n) == [f EXCEPT ![Len(f)].size = @ + n]

\* The first n bytes of a file.
Cut(f, n) ==
    LET kept == SelectSeq(f, LAMBDA b : b.at < n)
    IN  IF kept = << >> THEN << >>
        ELSE [kept EXCEPT ![Len(kept)].size = IF @ < n - kept[Len(kept)].at THEN @
                                              ELSE n - kept[Len(kept)].at]

CarriesPacket(b) == b.type \in {"REC", "SPB", "EPB"}

\* All octets of the packet are there, whatever is missing behind them.
DataWhole(b)  == b.size >= HdrLen(b.type) + b.incl
BlockWhole(b) == b.size = b.tot

\* The packets a file holds, in order, each with its length.
PacketsOf(f) ==
    LET bs == SelectSeq(f, LAMBDA b : CarriesPacket(b) /\ DataWhole(b))
    IN  [k \in 1..Len(bs) |-> [pkt |-> bs[k].pkt, len |-> bs[k].incl]]
=============================================================================
