------------------------------ MODULE DnsName ------------------------------
(***************************************************************************)
(* decode_name (dns_proto.c): expands one domain name of a packet into a   *)
(* caller's buffer of nlen bytes, following compression pointers.          *)
(*                                                                         *)
(* One step is one iteration of the C loop, or the code after it.  The     *)
(* packet is a sequence of octets; the text written to the buffer is kept  *)
(* as the sequence of labels it was copied from plus the number of bytes   *)
(* written, which is what the C pointer "name" has advanced by.            *)
(***************************************************************************)
EXTENDS DnsContracts, Sequences

CONSTANTS
    Packets,      \* the packets handed to the decoder, sequences of octets
    Starts,       \* values of dec->offset when decode_name is called
    NameLens,     \* sizes of the caller's buffer
    DNS_MAX_JMP   \* limit on compression pointer jumps, 16 in dns_proto.h

Octets == 0..255

ASSUME PacketsAssumption == \A p \in Packets : p \in Seq(Octets)
ASSUME StartsAssumption == \A s \in Starts : s \in Nat
ASSUME NameLensAssumption == \A n \in NameLens : n \in Nat
ASSUME MaxJmpAssumption == DNS_MAX_JMP \in Nat

DNS_HDR_LEN  == 12
DNS_COMP_PTR == 192

\* The members of enum dns_dec_error that decode_name returns, negated.
DNS_EBADJMP  == 2
DNS_EMAXJMP  == 3
DNS_ENAMELEN == 4
DNS_EOUTLEN  == 5
DNS_ENONULL  == 6

VARIABLES
    pkt,      \* dec->pkt_buf, read only
    start,    \* dec->offset on entry
    nlen,     \* size of the caller's buffer
    offset,   \* dec->offset
    pkt_idx,  \* next octet to read
    out_len,  \* bytes left in the caller's buffer
    written,  \* bytes stored in the caller's buffer
    labels,   \* the labels copied so far: where in the packet, how long
    dots,     \* positions in labels after which a dot was stored
    njmp,     \* pointers followed
    len,      \* last length octet or jump target
    pc,       \* "loop", "end" (after the loop) or "done"
    rc        \* return value once pc = "done"

args  == <<pkt, start, nlen>>
outs  == <<out_len, written, labels, dots>>
vars  == <<pkt, start, nlen, offset, pkt_idx, out_len, written, labels, dots,
           njmp, len, pc, rc>>

pkt_len  == Len(pkt)
Octet(i) == pkt[i + 1]

Init ==
    /\ pkt \in Packets
    /\ start \in Starts
    /\ nlen \in NameLens
    /\ offset = start
    /\ pkt_idx = start
    /\ out_len = nlen
    /\ written = 0
    /\ labels = << >>
    /\ dots = {}
    /\ njmp = 0
    /\ len = -1
    /\ pc = "loop"
    /\ rc = 0

Return(val) ==
    /\ pc' = "done"
    /\ rc' = val

\* The top two bits mark a pointer: (len & DNS_COMP_PTR) == DNS_COMP_PTR.
IsPointer(octet) == octet >= DNS_COMP_PTR

\* ((len & 0x3F) << 8) | next octet
JumpTarget(octet, next) == (octet - DNS_COMP_PTR) * 256 + next

----------------------------------------------------------------------------
\* Plausible slips of the code, each substituted for the definition after it.

\* a jump back is taken for progress
JumpCountForward(n) ==
    IF n < 2 \/ JumpTarget(Octet(pkt_idx), Octet(pkt_idx + 1)) > pkt_idx THEN n + 1 ELSE n
\* the length octet is counted as part of the label
OverrunsPacketSlack(n) == n > pkt_len - pkt_idx
\* the room is not tested before the dot and the null
NoRoomForDot(out) == FALSE
\* labels behind a pointer move the caller's offset
LabelOffsetAlways(n) == offset + 1 + n
\* a dot behind the last label
DotAlways(i) == i < pkt_len
----------------------------------------------------------------------------

\* njmp++ > DNS_MAX_JMP: the test sees the count before the increment.
TooManyJumps(n) == n > DNS_MAX_JMP

JumpCount(n) == n + 1

\* A jump may not land in the header nor past the packet; landing exactly at
\* its end is let through and caught by the null check after the loop.
OutOfPacket(t) == t < DNS_HDR_LEN \/ t > pkt_len

\* The label does not fit between its length octet and the packet's end.
OverrunsPacket(n) == n > pkt_len - (pkt_idx + 1)

\* The caller resumes after the first pointer, whatever is jumped to later.
OffsetAfterJump(n) == IF n = 1 THEN offset + 2 ELSE offset

\* Only labels read in place move the caller's offset.
OffsetAfterLabel(n) == IF njmp = 0 THEN offset + 1 + n ELSE offset

\* A label filled the buffer: not even the null would fit.
NoRoom(out) == out = 0

\* A dot follows a label unless the next octet is the null.
DotFollows(i) == i < pkt_len /\ Octet(i) # 0

Pointer ==
    LET octet == Octet(pkt_idx)
        last  == pkt_idx + 1 = pkt_len
        t     == JumpTarget(octet, Octet(pkt_idx + 1))
    IN  /\ pc = "loop" /\ pkt_idx < pkt_len
        /\ IsPointer(octet)
        /\ \/ /\ last
              /\ Return(-DNS_EBADJMP)
              /\ len' = octet
              /\ pkt_idx' = pkt_idx + 1
              /\ UNCHANGED <<njmp, offset>>
           \/ /\ ~last
              /\ TooManyJumps(njmp)
              /\ Return(-DNS_EMAXJMP)
              /\ njmp' = JumpCount(njmp)
              /\ len' = octet
              /\ pkt_idx' = pkt_idx + 1
              /\ UNCHANGED offset
           \/ /\ ~last
              /\ ~TooManyJumps(njmp)
              /\ njmp' = JumpCount(njmp)
              /\ offset' = OffsetAfterJump(JumpCount(njmp))
              /\ len' = t
              /\ \/ OutOfPacket(t) /\ Return(-DNS_EBADJMP)
                                   /\ pkt_idx' = pkt_idx + 1
                 \/ ~OutOfPacket(t) /\ pkt_idx' = t /\ UNCHANGED <<pc, rc>>
        /\ UNCHANGED <<args, outs>>

Label ==
    LET n    == Octet(pkt_idx)
        next == pkt_idx + 1 + n
        out  == out_len - n
        dot  == DotFollows(next)
    IN  /\ pc = "loop" /\ pkt_idx < pkt_len
        /\ ~IsPointer(n)
        /\ len' = n
        /\ \/ /\ OverrunsPacket(n)
              /\ Return(-DNS_ENAMELEN)
              /\ pkt_idx' = pkt_idx + 1
              /\ UNCHANGED <<offset, outs>>
           \/ /\ ~OverrunsPacket(n) /\ n > out_len
              /\ Return(-DNS_EOUTLEN)
              /\ pkt_idx' = pkt_idx + 1
              /\ UNCHANGED <<offset, outs>>
           \/ /\ ~OverrunsPacket(n) /\ n <= out_len /\ n = 0
              /\ offset' = OffsetAfterLabel(n)
              /\ pkt_idx' = next
              /\ pc' = "end"
              /\ UNCHANGED <<outs, rc>>
           \/ /\ ~OverrunsPacket(n) /\ n <= out_len /\ n > 0
              /\ offset' = OffsetAfterLabel(n)
              /\ pkt_idx' = next
              /\ labels' = Append(labels, [at |-> pkt_idx + 1, n |-> n])
              /\ \/ /\ NoRoom(out)
                    /\ Return(-DNS_EOUTLEN)
                    /\ out_len' = out
                    /\ written' = written + n
                    /\ UNCHANGED dots
                 \/ /\ ~NoRoom(out)
                    /\ out_len' = IF dot THEN out - 1 ELSE out
                    /\ written' = written + n + (IF dot THEN 1 ELSE 0)
                    /\ dots' = IF dot THEN dots \union {Len(labels) + 1} ELSE dots
                    /\ UNCHANGED <<pc, rc>>
        /\ UNCHANGED <<args, njmp>>

\* while (pkt_idx < dec->pkt_len) fails.
PacketEnd ==
    /\ pc = "loop" /\ pkt_idx >= pkt_len
    /\ pc' = "end"
    /\ UNCHANGED <<args, outs, offset, pkt_idx, njmp, len, rc>>

Terminate ==
    /\ pc = "end"
    /\ \/ len # 0 /\ Return(-DNS_ENONULL) /\ UNCHANGED outs
       \/ len = 0 /\ NoRoom(out_len) /\ Return(-DNS_EOUTLEN) /\ UNCHANGED outs
       \/ /\ len = 0 /\ ~NoRoom(out_len)
          /\ written' = written + 1
          /\ out_len' = out_len - 1
          /\ Return(nlen - out_len')
          /\ UNCHANGED <<labels, dots>>
    /\ UNCHANGED <<args, offset, pkt_idx, njmp, len>>

Next == Pointer \/ Label \/ PacketEnd \/ Terminate

Spec == Init /\ [][Next]_vars

\* The loop is sequential code: it runs until it returns.
FairSpec == Spec /\ WF_vars(Next)

----------------------------------------------------------------------------
Succeeded == pc = "done" /\ rc > 0

\* The variables keep their types; the jump counter cannot pass the limit by
\* more than the two that the post-increment test lets through.
TypeOK ==
    /\ pkt \in Seq(Octets)
    /\ start \in Nat
    /\ nlen \in Nat
    /\ offset \in Nat
    /\ pkt_idx \in Nat
    /\ out_len \in Int
    /\ written \in Nat
    /\ labels \in Seq([at : Nat, n : Nat])
    /\ dots \subseteq Nat
    /\ njmp \in 0..(DNS_MAX_JMP + 2)
    /\ len \in Int
    /\ pc \in {"loop", "end", "done"}
    /\ rc \in Int

\* Every label handed to memcpy lies inside the packet, whatever the jumps
\* (dns_proto.c:378-387; pkt_len - pkt_idx is unsigned there, so a cursor past
\* the end would turn the length check off).
LabelsInPacket ==
    \A i \in 1..Len(labels) : labels[i].at + labels[i].n <= pkt_len

\* The bytes stored never exceed the caller's buffer: what is left and what is
\* written always add up to nlen, so out_len (a size_t) never wraps, and a
\* success reports exactly the bytes stored (dns_proto.c:379-413).
OutputFits ==
    /\ out_len >= 0
    /\ written + out_len = nlen
    /\ Succeeded => rc = written

\* After a success the caller's offset is inside the packet, past the name, and
\* right behind the octets that end it in place: the null if nothing was jumped,
\* the first pointer otherwise (dns_proto.c:367,380).
OffsetEndsName ==
    Succeeded =>
        /\ start < offset /\ offset <= pkt_len
        /\ IF njmp = 0 THEN Octet(offset - 1) = 0
                       ELSE IsPointer(Octet(offset - 2))

\* Success or failure, the offset handed back keeps the contract the record
\* and question decoders rely on: in particular a failure never leaves it
\* behind the start nor beyond the packet, where the section loop goes on.
KeepsContract ==
    pc = "done" => NameResult(pkt_len, start, offset, rc > 0)

\* Each iteration follows one more pointer, or moves forward, or leaves the
\* loop: with the jump limit this is why the loop ends (dns_proto.c:360-400).
Progress ==
    [][\/ njmp' = njmp + 1
       \/ njmp' = njmp /\ pkt_idx' > pkt_idx
       \/ pc' # pc]_vars

\* Every call returns, also on packets whose pointers form a loop.
Terminates == <>(pc = "done")
============================================================================
