----------------------------- MODULE DnsRecord -----------------------------
(***************************************************************************)
(* dns_rr_decode (dns_proto.c): decodes one resource record at dec->offset *)
(* and, when loading a message, fills the section's next slot.             *)
(*                                                                         *)
(* What the octets say (type, lengths, whether a name is well formed) is   *)
(* chosen freely; what is kept is how the decoder moves through them: the  *)
(* offset, the 16-bit end of the record data, and the storage used.  The   *)
(* name decoder stands in by its contract (DnsContracts).                  *)
(***************************************************************************)
EXTENDS DnsContracts

CONSTANTS
    PktLens,      \* lengths of packets
    Starts,       \* values of dec->offset on entry
    U16,          \* number of values of a uint16_t, 65536 in the code
    RdLens,       \* values of the record's length field
    StrLens,      \* lengths of the <character-string>s of HINFO and TXT
    TextLens,     \* strlen of a decoded name
    NamesUsed,    \* values of msg->names_len on entry
    NamesSize,    \* sizeof(msg->names), 2048 in the code
    OldNumStr,    \* values of rdata.txt.num_str an earlier use left in the slot
    MaxTxt,       \* DNS_MAX_TXT
    MaxRR         \* DNS_MAX_RR

ASSUME SizesAssumption ==
    /\ PktLens \subseteq Nat
    /\ Starts \subseteq Nat
    /\ U16 \in Nat \ {0}
    /\ RdLens \subseteq 0..(U16 - 1)
    /\ StrLens \subseteq Nat
    /\ TextLens \subseteq Nat
    /\ NamesSize \in Nat
    /\ NamesUsed \subseteq 0..NamesSize
    /\ OldNumStr \subseteq Nat
    /\ MaxTxt \in Nat
    /\ MaxRR \in Nat

DNS_NAME_MAXSTR == 253
RR_HDR_LEN      == 10    \* type, class, ttl, rdlen

\* DNS_AN, DNS_NS, DNS_AR
Sections == {"AN", "NS", "AR"}
Types == {"A", "NS", "CNAME", "SOA", "PTR", "HINFO", "MX", "TXT", "AAAA",
          "SRV", "OPT", "ANY", "other"}

VARIABLES
    pkt_len,     \* dec->pkt_len
    load_msg,    \* dec->load_msg: fill a slot; otherwise validate and describe
    sect_code,   \* section being decoded
    start,       \* dec->offset on entry
    offset,      \* dec->offset
    rr_type,
    rdlen,
    rdata,       \* where the record data starts
    rd_end,      \* where it ends, a uint16_t
    owner,       \* strlen of the record's name
    names_len,   \* bytes used of the message's name store
    num_str,     \* rdata.txt.num_str of the slot
    count,       \* records loaded into the section
    null_name,   \* a name pointer of the slot was set to NULL
    reach,       \* one past the last octet read here, names aside
    pc,
    result       \* how the call ended

pkt    == <<pkt_len, load_msg, sect_code, start>>
hdr    == <<rr_type, rdlen, rdata, rd_end>>
store  == <<owner, names_len, num_str, count, null_name>>
vars   == <<pkt, offset, hdr, store, reach, pc, result>>

Later(a, b) == IF a >= b THEN a ELSE b

\* An error pushed on the decoder's stack (dns_dec_err); a failure that is
\* only logged (no space); a record decoded.
Err     == pc' = "done" /\ result' = "error"
NoSpace == pc' = "done" /\ result' = "nospace"
GoTo(l) == pc' = l /\ UNCHANGED result

Init ==
    /\ pkt_len \in PktLens
    /\ load_msg \in BOOLEAN
    /\ sect_code \in Sections
    /\ start \in Starts
    /\ offset = start
    /\ rr_type = "other"
    /\ rdlen = 0 /\ rdata = 0 /\ rd_end = 0
    /\ owner = 0
    /\ names_len \in NamesUsed
    /\ IF load_msg THEN num_str \in OldNumStr /\ count \in 0..MaxRR
                   ELSE num_str = 0 /\ count = 0
    /\ null_name = FALSE
    /\ reach = 0
    /\ pc = "name"
    /\ result = "none"

----------------------------------------------------------------------------
\* Plausible slips of the code, each substituted for the definition after it.

CanStoreUnterminated(t) == t <= DNS_NAME_MAXSTR /\ names_len + t <= NamesSize
SrvTooShortLenient      == rdlen < 5
WrongEndPast            == offset > rd_end
OffsetAtOptStart        == start
----------------------------------------------------------------------------

\* uint16_t rd_end = dec->offset + rdlen
RdEnd(o, n) == (o + n) % U16

\* msg_store_str: the text and its null fit what is left of the store.
CanStore(t) == t <= DNS_NAME_MAXSTR /\ names_len + t + 1 <= NamesSize

SlotTaken == count >= MaxRR

StoreText(t, next) ==
    \/ ~load_msg /\ GoTo(next) /\ UNCHANGED names_len
    \/ load_msg /\ CanStore(t) /\ names_len' = names_len + t + 1 /\ GoTo(next)
    \/ load_msg /\ ~CanStore(t) /\ NoSpace /\ UNCHANGED names_len

\* decode_name at offset o, fix_label (which fails when the root's "." does not
\* fit behind the text already written) and msg_store_name.
DecodeNameAt(o, next) ==
    \E e \in o..Later(o, pkt_len) :
        /\ offset' = e
        /\ \/ NameResult(pkt_len, o, e, FALSE) /\ Err /\ UNCHANGED names_len
           \/ NameResult(pkt_len, o, e, TRUE) /\ NoSpace /\ UNCHANGED names_len
           \/ /\ NameResult(pkt_len, o, e, TRUE)
              /\ \E t \in TextLens : StoreText(t, next)

----------------------------------------------------------------------------
\* The slot check and the record's name.
Name ==
    /\ pc = "name"
    /\ \/ /\ load_msg /\ SlotTaken
          /\ NoSpace
          /\ UNCHANGED <<offset, owner, names_len>>
       \/ /\ ~(load_msg /\ SlotTaken)
          /\ \E e \in offset..Later(offset, pkt_len) :
                /\ offset' = e
                /\ \/ /\ NameResult(pkt_len, offset, e, FALSE)
                      /\ Err
                      /\ UNCHANGED <<owner, names_len>>
                   \/ /\ NameResult(pkt_len, offset, e, TRUE)
                      /\ \E t \in TextLens : owner' = t /\ StoreText(t, "hdr")
    /\ UNCHANGED <<pkt, hdr, num_str, count, null_name, reach>>

\* Type, class, ttl and rdlen, then the end of the record data.
Fields ==
    /\ pc = "hdr"
    /\ \/ /\ offset + RR_HDR_LEN > pkt_len
          /\ Err
          /\ UNCHANGED <<offset, hdr, reach>>
       \/ /\ offset + RR_HDR_LEN <= pkt_len
          /\ rr_type' \in Types
          /\ rdlen' \in RdLens
          /\ offset' = offset + RR_HDR_LEN
          /\ rdata' = offset + RR_HDR_LEN
          /\ rd_end' = RdEnd(offset + RR_HDR_LEN, rdlen')
          /\ reach' = offset + RR_HDR_LEN
          /\ \/ rd_end' > pkt_len /\ Err
             \/ rd_end' <= pkt_len /\ GoTo("rdata")
    /\ UNCHANGED <<pkt, store>>

\* A record data of fixed length n, read in one go.
FixedData(type, n) ==
    /\ pc = "rdata" /\ rr_type = type
    /\ \/ rdlen # n /\ Err /\ UNCHANGED <<offset, reach>>
       \/ rdlen = n /\ offset' = offset + n /\ reach' = offset + n /\ GoTo("check")
    /\ UNCHANGED <<pkt, hdr, store>>

RdataA    == FixedData("A", 4)
RdataAAAA == FixedData("AAAA", 16)

\* n octets of numbers followed by a name; below min octets it is an error.
NumbersThenName(type, n, short) ==
    /\ pc = "rdata" /\ rr_type = type
    /\ \/ short /\ Err /\ UNCHANGED <<offset, reach, names_len>>
       \/ ~short /\ reach' = Later(reach, offset + n) /\ DecodeNameAt(offset + n, "check")
    /\ UNCHANGED <<pkt, hdr, owner, num_str, count, null_name>>

SrvTooShort == rdlen < 7

RdataNS    == NumbersThenName("NS", 0, FALSE)
RdataCNAME == NumbersThenName("CNAME", 0, FALSE)
RdataPTR   == NumbersThenName("PTR", 0, FALSE)
RdataMX    == NumbersThenName("MX", 2, rdlen < 3)
RdataSRV   == NumbersThenName("SRV", 6, SrvTooShort)

\* SOA: the primary server's name.
RdataSoaMname ==
    /\ pc = "rdata" /\ rr_type = "SOA"
    /\ DecodeNameAt(offset, "rname")
    /\ UNCHANGED <<pkt, hdr, owner, num_str, count, null_name, reach>>

\* SOA: the mailbox.  The test after storing it looks at mname, so a store that
\* failed is not noticed and rname stays NULL.
RdataSoaRname ==
    /\ pc = "rname"
    /\ \E e \in offset..Later(offset, pkt_len) :
        /\ offset' = e
        /\ \/ /\ NameResult(pkt_len, offset, e, FALSE)
              /\ Err
              /\ UNCHANGED <<names_len, null_name>>
           \/ /\ NameResult(pkt_len, offset, e, TRUE)
              /\ NoSpace
              /\ UNCHANGED <<names_len, null_name>>
           \/ /\ NameResult(pkt_len, offset, e, TRUE)
              /\ GoTo("soa")
              /\ \E t \in TextLens :
                    IF load_msg /\ CanStore(t)
                    THEN names_len' = names_len + t + 1 /\ UNCHANGED null_name
                    ELSE null_name' = load_msg /\ UNCHANGED names_len
    /\ UNCHANGED <<pkt, hdr, owner, num_str, count, reach>>

\* SOA: five 32-bit numbers.
RdataSoaNumbers ==
    /\ pc = "soa"
    /\ \/ offset + 20 > rd_end /\ Err /\ UNCHANGED <<offset, reach>>
       \/ /\ offset + 20 <= rd_end
          /\ offset' = offset + 20
          /\ reach' = Later(reach, offset + 20)
          /\ GoTo("check")
    /\ UNCHANGED <<pkt, hdr, store>>

\* A length octet and that many octets, inside the record data.
CharString(next) ==
    \E n \in StrLens :
        \/ /\ offset + 1 + n > rd_end
           /\ Err
           /\ offset' = offset + 1
           /\ reach' = Later(reach, offset + 1)
           /\ UNCHANGED names_len
        \/ /\ offset + 1 + n <= rd_end
           /\ reach' = Later(reach, offset + 1 + n)
           /\ StoreText(n, next)
           /\ offset' = IF load_msg /\ ~CanStore(n) THEN offset + 1 ELSE offset + 1 + n

RdataHinfoCpu ==
    /\ pc = "rdata" /\ rr_type = "HINFO"
    /\ \/ rdlen < 2 /\ Err /\ UNCHANGED <<offset, reach, names_len>>
       \/ rdlen >= 2 /\ CharString("os")
    /\ UNCHANGED <<pkt, hdr, owner, num_str, count, null_name>>

RdataHinfoOs ==
    /\ pc = "os"
    /\ \/ offset >= rd_end /\ Err /\ UNCHANGED <<offset, reach, names_len>>
       \/ offset < rd_end /\ CharString("check")
    /\ UNCHANGED <<pkt, hdr, owner, num_str, count, null_name>>

\* One iteration of the loop over the strings of a TXT record; the slot's
\* num_str is the index the next string goes to.
RdataTxt ==
    /\ pc = "rdata" /\ rr_type = "TXT"
    /\ \/ /\ offset >= rd_end
          /\ GoTo("check")
          /\ UNCHANGED <<offset, reach, names_len, num_str>>
       \/ /\ offset < rd_end
          /\ load_msg => num_str < MaxTxt
          /\ CharString("rdata")
          /\ num_str' = IF load_msg /\ pc' = "rdata" THEN num_str + 1 ELSE num_str
       \/ /\ offset < rd_end /\ load_msg /\ num_str >= MaxTxt
          /\ offset' = offset + 1
          /\ \E n \in StrLens :
                \/ offset + 1 + n > rd_end /\ Err
                \/ offset + 1 + n <= rd_end /\ NoSpace
          /\ reach' = Later(reach, offset + 1)
          /\ UNCHANGED <<names_len, num_str>>
    /\ UNCHANGED <<pkt, hdr, owner, count, null_name>>

\* OPT: allowed among the additional records only; its options are skipped by
\* moving the offset to rd_end.  The name is stored a second time.
OffsetAtOpt == rd_end

RdataOPT ==
    /\ pc = "rdata" /\ rr_type = "OPT"
    /\ \/ sect_code # "AR" /\ Err /\ UNCHANGED <<offset, names_len>>
       \/ /\ sect_code = "AR"
          /\ StoreText(owner, "check")
          /\ offset' = IF pc' = "check" THEN OffsetAtOpt ELSE offset
    /\ UNCHANGED <<pkt, hdr, owner, num_str, count, null_name, reach>>

\* ANY and every type without a decoder: the data is skipped.
RdataSkipped ==
    /\ pc = "rdata" /\ rr_type \in {"ANY", "other"}
    /\ offset' = offset + rdlen
    /\ GoTo("check")
    /\ UNCHANGED <<pkt, hdr, store, reach>>

WrongEnd == offset # rd_end

\* The data must end where rdlen says; then the slot is taken, or the record
\* is described, which fails when the text does not fit the caller's buffer.
Check ==
    /\ pc = "check"
    /\ pc' = "done"
    /\ \/ WrongEnd /\ result' = "error" /\ UNCHANGED count
       \/ /\ ~WrongEnd
          /\ IF load_msg
             THEN count' = count + 1 /\ result' = "accept"
             ELSE result' \in {"accept", "nodesc"} /\ UNCHANGED count
    /\ UNCHANGED <<pkt, offset, hdr, owner, names_len, num_str, null_name, reach>>

Next ==
    \/ Name \/ Fields
    \/ RdataA \/ RdataAAAA \/ RdataNS \/ RdataCNAME \/ RdataPTR \/ RdataMX
    \/ RdataSRV \/ RdataSoaMname \/ RdataSoaRname \/ RdataSoaNumbers
    \/ RdataHinfoCpu \/ RdataHinfoOs \/ RdataTxt \/ RdataOPT \/ RdataSkipped
    \/ Check

Spec == Init /\ [][Next]_vars

----------------------------------------------------------------------------
Accepted == result \in {"accept", "nodesc"}

\* The record data, as the record's own length field bounds it, is longer than
\* a uint16_t can address from where it starts.
Wraps == rdata + rdlen >= U16

\* The variables keep their types.
TypeOK ==
    /\ pkt_len \in Nat
    /\ load_msg \in BOOLEAN
    /\ sect_code \in Sections
    /\ start \in Nat
    /\ offset \in Nat
    /\ rr_type \in Types
    /\ rdlen \in 0..(U16 - 1)
    /\ rdata \in Nat
    /\ rd_end \in Nat
    /\ owner \in Nat
    /\ names_len \in Nat
    /\ num_str \in Nat
    /\ count \in Nat
    /\ null_name \in BOOLEAN
    /\ reach \in Nat
    /\ pc \in {"name", "hdr", "rdata", "rname", "soa", "os", "check", "done"}
    /\ result \in {"none", "error", "nospace", "accept", "nodesc"}

\* An accepted record is consumed exactly: the next one starts right behind
\* the data its length field announces, inside the packet, although rd_end is
\* kept in 16 bits.  The option record is apart, see TruncationReported
\* (dns_proto.c:670-671, 993).
AcceptedExact ==
    Accepted /\ rr_type # "OPT" =>
        offset = rdata + rdlen /\ offset <= pkt_len

\* As long as the end of the data is not cut to 16 bits, every octet the
\* record decoder reads itself lies in the packet: the length tests of the
\* types cover what is read after them (dns_proto.c:654-916).
ReadsInPacket ==
    ~Wraps => reach <= pkt_len

\* The name store is never filled beyond its size and a slot is only taken
\* below the section's maximum, whatever the order of stores and failures
\* (dns_proto.c:587-604, 630-633, 882-887, 996).
StoreFits ==
    /\ names_len <= NamesSize
    /\ count <= MaxRR

\* The offset only moves forward, so a section is one pass over the packet;
\* only the option record, by its cut end, can be sent back (dns_proto.c:979).
ForwardOnly ==
    [][offset' >= offset \/ (rr_type = "OPT" /\ Wraps)]_vars

\* dns_proto.c:83 "Truncated packet": a record whose data reaches past the
\* packet is reported as truncated, never accepted.
TruncationReported == Accepted => rdata + rdlen <= pkt_len

\* dns_proto.c:754 "No space to store rname": a record whose names could not
\* all be stored is not handed out as loaded.
LoadedNamesStored == result = "accept" => ~null_name
============================================================================
