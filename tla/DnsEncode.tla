----------------------------- MODULE DnsEncode -----------------------------
(***************************************************************************)
(* dns_msg_encode (dns_proto.c) on the message DnsBuild has built.         *)
(*                                                                         *)
(* Space is reserved before it is written: for a name as much as the       *)
(* longest may take, and what it did not take is returned.  A name is      *)
(* written label by label, up to a suffix that an earlier name has left in *)
(* the table; each step of the loop is one step here.                      *)
(***************************************************************************)
EXTENDS DnsBuild, FiniteSetsExt

CONSTANTS
    PktMaxs,            \* sizes of the caller's buffer, 2048 in dns-gen
    DNS_NAME_MAXLEN,    \* 255 in dns_proto.h
    DNS_LABEL_MAXSTR,   \* 63 in dns_proto.h
    DNS_MAX_SUFFIX      \* 32 in dns_proto.h

DNS_HDR_LEN == 12

\* A name that can be stored has at most DNS_NAME_MAXLEN octets; a pointer holds
\* 14 bits of an offset.
ASSUME EncodeAssumption ==
    /\ PktMaxs \subseteq 0..16384
    /\ DNS_NAME_MAXLEN = DNS_NAME_MAXSTR + 2
    /\ DNS_LABEL_MAXSTR \in 1..63 /\ DNS_MAX_SUFFIX \in Nat

VARIABLES
    pkt_max, pkt_len, buf,   \* enc->pkt_max, pkt_len and pkt_buf
    suffix,   \* enc->suffix: names and where they start
    item,     \* the question or record to encode
    piece,    \* the part of its rdata to encode, 0 before
    name,     \* encode_name: what is left of the name,
    start,    \*   where it begins
    wptr,     \*   and where the next octet goes
    top,      \* end of all that was ever written
    rd,       \* where the record's rdata begins
    pc        \* "build", "item", "name", "fixed", "rdata", "done" or "failed"

space == <<pkt_max, pkt_len, buf, top>>
enc   == <<space, suffix, item, piece, name, start, wptr, rd, pc>>
vars  == <<build, enc>>

EncodeInit ==
    /\ Init
    /\ pkt_max \in PktMaxs /\ pkt_len = 0 /\ top = 0
    /\ buf = [o \in 0..(pkt_max + 20) |-> 0]
    /\ suffix = << >> /\ item = 1 /\ piece = 0
    /\ name = << >> /\ start = 0 /\ wptr = 0 /\ rd = 0
    /\ pc = "build"

----------------------------------------------------------------------------
\* Plausible slips of the code, each substituted for the definition after it.

\* a suffix is stored under the offset of the whole name
SuffixOffsetStart == start
\* the space a name did not take is not returned
UnusedNone(room, w) == 0
\* pkt_len is left out
HasRoomAlone(n) == n <= pkt_max
----------------------------------------------------------------------------

U16(n) == <<n \div 256, n % 256>>

Codes == [A |-> 1, NS |-> 2, CNAME |-> 5, SOA |-> 6, PTR |-> 12, HINFO |-> 13, MX |-> 15,
          TXT |-> 16, AAAA |-> 28, SRV |-> 33, OPT |-> 41, ANY |-> 255]

\* Numbers of a record: class, ttl and, by type, addresses and counters.
Class == <<0, 1>>
Ttl   == <<0, 0, 1, 44>>
Rank  == <<0, 10>>
Numbers(n) == [k \in 1..n |-> 200 + k]

\* strcasecmp
Lower(octet) == IF octet \in 65..90 THEN octet + 32 ELSE octet
Fold(t) == [k \in 1..Len(t) |-> [j \in 1..Len(t[k]) |-> Lower(t[k][j])]]

\* The characters of a text that is no name.
Chars(t) == IF t = << >> THEN << >> ELSE t[1]
Str(t)   == <<Len(Chars(t))>> \o Chars(t)

\* The parts of the rdata: a name, or octets for which room is reserved.
NamePart(t)         == [kind |-> "name", text |-> t, room |-> DNS_NAME_MAXLEN, octets |-> << >>]
Fields(room, octets) == [kind |-> "fields", text |-> << >>, room |-> room, octets |-> octets]

\* The octets of HINFO: the first string is copied to where the second goes.
HinfoOctets(cpu, os) ==
    <<Len(cpu)>> \o <<Len(os)>> \o os \o SubSeq(cpu, Len(os) + 2, Len(cpu))

Parts(rr) ==
    CASE rr.type \in {"NS", "CNAME", "PTR"} -> <<NamePart(rr.strs[1])>>
      [] rr.type = "SOA" ->
            <<NamePart(rr.strs[1]), NamePart(rr.strs[2]), Fields(20, Numbers(20))>>
      [] rr.type = "A"    -> <<Fields(4, Numbers(4))>>
      [] rr.type = "AAAA" -> <<Fields(16, Numbers(16))>>
      [] rr.type = "HINFO" ->
            LET cpu == Chars(rr.strs[1])
                os  == Chars(rr.strs[2])
            IN  <<Fields(2 + Len(cpu) + Len(os), HinfoOctets(cpu, os))>>
      [] rr.type = "TXT" ->
            [k \in 1..Len(rr.strs) |-> Fields(Len(Str(rr.strs[k])), Str(rr.strs[k]))]
      [] rr.type = "MX"  -> <<Fields(4, Rank), NamePart(rr.strs[1])>>
      [] rr.type = "SRV" -> <<Fields(2, Rank \o Numbers(4)), NamePart(rr.strs[1])>>
      [] OTHER -> << >>

\* The records of the three sections, behind the questions.
Live(sc) == SubSeq(slot[sc], 1, count[sc])
Items == [k \in 1..Len(qd) |-> [name |-> qd[k], type |-> "QD", strs |-> << >>]]
         \o Live("an") \o Live("ns") \o Live("ar")
Item  == Items[item]
Fixed == IF Item.type = "QD" THEN 4 ELSE 10

\* dns_enc_mkspace
HasRoom(n) == pkt_len + n <= pkt_max

\* What dns_enc_retspace is given: what of the room reserved at start is not
\* taken at w.  It is never negative, see WritesInSpace, so the call succeeds.
Unused(room, w) == room - (w - start)

Put(at, octets) ==
    /\ buf' = [o \in DOMAIN buf |->
                  IF o \in at..(at + Len(octets) - 1) THEN octets[o - at + 1] ELSE buf[o]]
    /\ top' = Max({top, at + Len(octets)})

Fail == pc' = "failed" /\ UNCHANGED <<space, suffix, item, piece, name, start, wptr, rd>>

----------------------------------------------------------------------------
\* dns_msg_encode and encode_hdr: id and flags, then the counts.
EncodeHdr ==
    /\ pc = "build" /\ ~wild
    /\ \/ ~HasRoom(DNS_HDR_LEN) /\ Fail
       \/ /\ HasRoom(DNS_HDR_LEN)
          /\ pkt_len' = DNS_HDR_LEN
          /\ Put(0, <<0, 0, 0, 0>> \o U16(Len(qd)) \o U16(count["an"])
                       \o U16(count["ns"]) \o U16(count["ar"]))
          /\ pc' = "item"
          /\ UNCHANGED <<pkt_max, suffix, item, piece, name, start, wptr, rd>>
    /\ UNCHANGED build

\* encode_name is called with the name t, with room octets reserved for it and
\* what follows.
StartName(t, room) ==
    \/ ~HasRoom(room) /\ Fail
    \/ /\ HasRoom(room)
       /\ pkt_len' = pkt_len + room
       /\ name' = t /\ start' = pkt_len /\ wptr' = pkt_len
       /\ pc' = "name"
       /\ UNCHANGED <<pkt_max, buf, top, suffix, item, piece, rd>>

\* dns_enc_quest and dns_rr_encode, up to the name.
EncodeItem ==
    /\ pc = "item"
    /\ \/ item <= Len(Items) /\ StartName(Item.name, DNS_NAME_MAXLEN + Fixed)
       \/ /\ item > Len(Items)
          /\ pc' = "done"
          /\ UNCHANGED <<space, suffix, item, piece, name, start, wptr, rd>>
    /\ UNCHANGED build

\* The suffixes of earlier names that spell the rest of this one.
Matches == {k \in 1..Len(suffix) :
               suffix[k].offset < start /\ Fold(suffix[k].name) = Fold(name)}

\* encode_name ends with the octets given.  The name of the rdata returns its
\* unused space at once, dns_enc_name; an owner's does so behind the fields that
\* follow it.
EndName(octets) ==
    LET w == wptr + Len(octets) IN
    /\ Put(wptr, octets)
    /\ wptr' = w /\ name' = << >>
    /\ IF piece = 0 THEN pc' = "fixed" /\ UNCHANGED <<pkt_len, piece>>
       ELSE pc' = "rdata" /\ piece' = piece + 1 /\ pkt_len' = pkt_len - Unused(DNS_NAME_MAXLEN, w)
    /\ UNCHANGED <<pkt_max, suffix, item, start, rd>>

Pointer ==
    /\ pc = "name" /\ name # << >> /\ Matches # {}
    /\ LET o == suffix[Min(Matches)].offset IN EndName(<<192 + o \div 256, o % 256>>)
    /\ UNCHANGED build

SuffixOffset == wptr

\* One label, after its suffix was put into the table, if there is room.
Label ==
    /\ pc = "name" /\ name # << >> /\ Matches = {}
    /\ IF Len(Head(name)) > DNS_LABEL_MAXSTR THEN Fail
       ELSE /\ suffix' = IF Len(suffix) < DNS_MAX_SUFFIX
                         THEN Append(suffix, [name |-> name, offset |-> SuffixOffset])
                         ELSE suffix
            /\ Put(wptr, <<Len(Head(name))>> \o Head(name))
            /\ wptr' = wptr + 1 + Len(Head(name))
            /\ name' = Tail(name)
            /\ UNCHANGED <<pkt_max, pkt_len, item, piece, start, rd, pc>>
    /\ UNCHANGED build

NullLabel ==
    /\ pc = "name" /\ name = << >>
    /\ EndName(<<0>>)
    /\ UNCHANGED build

\* What follows an owner's name: type and class, and for a record the ttl and
\* the length of the rdata, which is filled in later.
EncodeFixed ==
    /\ pc = "fixed"
    /\ LET code == IF Item.type = "QD" THEN 1 ELSE Codes[Item.type] IN
       Put(wptr, U16(code) \o Class \o (IF Item.type = "QD" THEN << >> ELSE Ttl \o U16(0)))
    /\ wptr' = wptr + Fixed
    /\ pkt_len' = pkt_len - Unused(DNS_NAME_MAXLEN + Fixed, wptr + Fixed)
    /\ IF Item.type = "QD" THEN pc' = "item" /\ item' = item + 1 /\ UNCHANGED <<piece, rd>>
       ELSE pc' = "rdata" /\ piece' = 1 /\ rd' = pkt_len' /\ UNCHANGED item
    /\ UNCHANGED <<pkt_max, suffix, name, start, build>>

\* A part of the rdata.  Octets go to where their room begins, be it more or less
\* than they take.
EncodePart ==
    /\ pc = "rdata" /\ piece <= Len(Parts(Item))
    /\ LET part == Parts(Item)[piece] IN
       \/ part.kind = "name" /\ StartName(part.text, part.room)
       \/ part.kind = "fields" /\ ~HasRoom(part.room) /\ Fail
       \/ /\ part.kind = "fields" /\ HasRoom(part.room)
          /\ Put(pkt_len, part.octets)
          /\ pkt_len' = pkt_len + part.room
          /\ piece' = piece + 1
          /\ UNCHANGED <<pkt_max, suffix, item, name, start, wptr, rd, pc>>
    /\ UNCHANGED build

\* The end of a record: the length of its rdata.  OPT puts the udp size into the
\* class and 16 bits of what the ttl should hold behind it.
EndRecord ==
    /\ pc = "rdata" /\ piece > Len(Parts(Item))
    /\ IF Item.type = "OPT" THEN Put(rd - 8, U16(1232) \o U16(32768) \o SubSeq(Ttl, 3, 4) \o U16(0))
                            ELSE Put(rd - 2, U16(pkt_len - rd))
    /\ item' = item + 1 /\ piece' = 0 /\ pc' = "item"
    /\ UNCHANGED <<pkt_max, pkt_len, suffix, name, start, wptr, rd, build>>

Build == pc = "build" /\ Next /\ UNCHANGED enc

EncodeNext ==
    \/ Build \/ EncodeHdr \/ EncodeItem \/ Pointer \/ Label \/ NullLabel
    \/ EncodeFixed \/ EncodePart \/ EndRecord

EncodeSpec == EncodeInit /\ [][EncodeNext]_vars

----------------------------------------------------------------------------
\* Reading the buffer back, by RFC 1035.  BadName is no name of a message.
BadName == << <<256>> >>

\* The name at an offset, and where it ends.  Each pointer leads further back.
Spelled[o \in Nat] ==
    IF o >= top THEN BadName
    ELSE IF buf[o] = 0 THEN << >>
    ELSE IF buf[o] < 64
    THEN <<[j \in 1..buf[o] |-> buf[o + j]]>> \o Spelled[o + 1 + buf[o]]
    ELSE LET to == (buf[o] - 192) * 256 + buf[o + 1]
         IN  IF to \in DNS_HDR_LEN..(o - 1) THEN Spelled[to] ELSE BadName

EndOfName[o \in Nat] ==
    IF o >= top \/ buf[o] = 0 THEN o + 1
    ELSE IF buf[o] < 64 THEN EndOfName[o + 1 + buf[o]]
    ELSE o + 2

Word(o)     == buf[o] * 256 + buf[o + 1]
Octets(o, n) == [j \in 1..n |-> buf[o + j - 1]]

\* Where each question and record begins, by the lengths in the packet.
IsQd(k) == k <= Len(qd)
Begin[k \in Nat] ==
    IF k = 1 THEN DNS_HDR_LEN
    ELSE LET e == EndOfName[Begin[k - 1]]
         IN  IF IsQd(k - 1) THEN e + 4 ELSE e + 10 + Word(e + 8)

\* The name of a message has no empty label; "." does.
Sound(t) == \A k \in 1..Len(t) : t[k] # << >>

SameName(o, t) == Fold(Spelled[o]) = Fold(t)

\* The rdata of record r, from d up to its end, says what the record holds.
Says(r, d, end) ==
    CASE r.type \in {"NS", "CNAME", "PTR"} -> SameName(d, r.strs[1]) /\ EndOfName[d] = end
      [] r.type = "SOA" ->
            LET e == EndOfName[d] IN
            /\ SameName(d, r.strs[1]) /\ SameName(e, r.strs[2])
            /\ EndOfName[e] + 20 = end /\ Octets(end - 20, 20) = Numbers(20)
      [] r.type = "A"    -> Octets(d, end - d) = Numbers(4)
      [] r.type = "AAAA" -> Octets(d, end - d) = Numbers(16)
      [] r.type = "TXT"  -> Octets(d, end - d) = FlattenSeq([k \in 1..Len(r.strs) |-> Str(r.strs[k])])
      [] OTHER -> TRUE

\* MX, SRV, HINFO and OPT are laid out wrongly; see README.
Texts(r) == {r.name} \union (IF r.type \in {"TXT", "HINFO"} THEN {} ELSE ToSet(r.strs))

\* A message that was encoded reads back as it was built: the walk over the
\* packet by names and lengths meets every question and record with its name, up
\* to case, and its type, whatever was compressed, and ends where the packet
\* does; and the rdata of A, NS, CNAME, SOA, PTR, TXT and AAAA is what was added
\* (dns_proto.c:1281-1545).
RoundTrip ==
    pc = "done" /\ (\A k \in 1..Len(Items) : \A t \in Texts(Items[k]) : Sound(t)) =>
        /\ <<Word(4), Word(6), Word(8), Word(10)>>
              = <<Len(qd), count["an"], count["ns"], count["ar"]>>
        /\ Begin[Len(Items) + 1] = pkt_len
        /\ \A k \in 1..Len(Items) :
              LET e == EndOfName[Begin[k]] IN
              /\ SameName(Begin[k], Items[k].name)
              /\ ~IsQd(k) => /\ Word(e) = Codes[Items[k].type]
                             /\ Says(Items[k], e + 10, Begin[k + 1])

\* Every suffix of the table that may be pointed to is spelled, up to case, by
\* the octets at its offset, at every moment: what is written later, fields that
\* rewind or overrun their room included, leaves them alone
\* (dns_proto.c:1288-1303).
SuffixesSpell ==
    /\ Len(suffix) <= DNS_MAX_SUFFIX
    /\ \A k \in 1..Len(suffix) :
          LET s == suffix[k] IN
          (s.offset < start \/ pc \notin {"name", "failed"}) /\ Sound(s.name) =>
              s.offset >= DNS_HDR_LEN /\ SameName(s.offset, s.name)

\* Nothing is written outside the space reserved, nor is more reserved than there
\* is, although names are written without looking at the space left; SRV, whose
\* fields take more than is reserved for them, is left out
\* (dns_proto.c:1328-1402).
WritesInSpace ==
    /\ pkt_len <= pkt_max
    /\ (\A k \in 1..Len(Items) : Items[k].type # "SRV") => top <= pkt_len
=============================================================================
