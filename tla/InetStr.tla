------------------------------- MODULE InetStr -------------------------------
(***************************************************************************)
(* Addresses as text (str_util.c): ip4_str_encode and ip6_str_encode, with  *)
(* which dns_rr_tostr shows a record and dns_rr_decode describes one, and   *)
(* ipstr_decode of dns-gen with ip4_str_decode and ip6_str_decode, which    *)
(* read the records to be made.                                             *)
(*                                                                         *)
(* A text is a sequence of character codes and an address one of octets.   *)
(* ip6_str_decode takes a step per character; it looks one character ahead *)
(* and goes back when it meets the first dot of an embedded IPv4 address.  *)
(***************************************************************************)
EXTENDS Integers, Sequences, SequencesExt

CONSTANTS
    Addrs,      \* addresses of 4 or 16 octets
    Lens,       \* room for the text
    Typed       \* other texts given to dns-gen

Dot    == 46
Colon  == 58
DstLen == 16
Junk   == -1        \* an octet that was not written
IP4_ADDR_STRLEN == 16
IP6_ADDR_STRLEN == 46

VARIABLES
    addr,       \* the address the text is to stand for, << >> if none
    text,
    origin,     \* of the text: "tostr", "describe" or "typed"
    dst,        \* tmp of add_sect: 16 octets and some behind them
    str_ptr, str_end, seg_ptr, dst_ptr,      \* offsets
    zero_ptr,   \* -1 if NULL
    num_hex, num_seg, acc,
    type, nread,       \* what ipstr_decode returns and the octets it read
    pc

locals == <<str_ptr, str_end, seg_ptr, dst_ptr, zero_ptr, num_hex, num_seg, acc>>
vars == <<addr, text, origin, dst, locals, type, nread, pc>>

Init ==
    /\ addr \in Addrs \union {<< >>} /\ text = << >> /\ origin = "none"
    /\ dst = [i \in 0..(DstLen + 7) |-> Junk]
    /\ str_ptr = 0 /\ str_end = 0 /\ seg_ptr = 0 /\ dst_ptr = 0
    /\ zero_ptr = -1 /\ num_hex = 0 /\ num_seg = 0 /\ acc = 0
    /\ type = "none" /\ nread = 0
    /\ pc = "text"

----------------------------------------------------------------------------
IsDigit(ch) == ch \in 48..57
IsHex(ch)   == IsDigit(ch) \/ ch \in 65..70 \/ ch \in 97..102
HexChar(n)  == IF n < 10 THEN n + 48 ELSE n + 87
hex_to_nibble(ch) == (ch % 16) + (ch \div 64) + (ch \div 64) * 8

Word(a, i) == a[i + 1] * 256 + a[i + 2]
enc_u16(v) == <<(v \div 256) % 256, v % 256>>

uint8_toa(v) ==
    LET d1  == IF v < 100 THEN (v * 205) \div 2048 ELSE (v * 164) \div 16384
        rem == v - d1 * 100
        d2  == (rem * 205) \div 2048
    IN  CASE v < 10   -> <<v + 48>>
          [] v \in 10..99 -> <<d1 + 48, v - d1 * 10 + 48>>
          [] OTHER    -> <<d1 + 48, d2 + 48, rem - d2 * 10 + 48>>

uint16_toax(v) ==
    (IF v >= 4096 THEN <<HexChar((v \div 4096) % 16)>> ELSE << >>)
      \o (IF v >= 256 THEN <<HexChar((v \div 256) % 16)>> ELSE << >>)
      \o (IF v >= 16 THEN <<HexChar((v \div 16) % 16)>> ELSE << >>)
      \o <<HexChar(v % 16)>>

----------------------------------------------------------------------------
\* Plausible slips of the code, each substituted for the definition after it.

\* a later run of the same length replaces the earlier one
LongerRunOrSame(r) == IF r.cur_len >= r.zero_len
                      THEN [r EXCEPT !.zero_pos = r.cur_pos, !.zero_len = r.cur_len] ELSE r
\* one segment too many before the last
TooManySegmentsLate == num_seg >= 8
\* the gap is left where the last octet was written
ZeroFilledInPlace(d) ==
    [i \in DOMAIN d |-> IF i \in dst_ptr..(DstLen - 1) THEN 0 ELSE d[i]]
----------------------------------------------------------------------------

\* ip4_str_encode, for the four octets behind the first n, into len characters.
ip4_str_encode(a, n, len) ==
    IF len < IP4_ADDR_STRLEN THEN << >>
    ELSE uint8_toa(a[n + 1]) \o <<Dot>> \o uint8_toa(a[n + 2]) \o <<Dot>>
           \o uint8_toa(a[n + 3]) \o <<Dot>> \o uint8_toa(a[n + 4])

\* ip6_str_encode: the longest run of zeros, the first if several are as long.
LongerRun(r) == IF r.cur_len > r.zero_len
                THEN [r EXCEPT !.zero_pos = r.cur_pos, !.zero_len = r.cur_len] ELSE r

ZeroRun(a) ==
    LET step(r, i) ==
            IF Word(a, i) = 0
            THEN [r EXCEPT !.cur_pos = IF @ = -1 THEN i ELSE @, !.cur_len = @ + 2]
            ELSE [LongerRun(r) EXCEPT !.cur_pos = -1, !.cur_len = 0]
        none == [cur_pos |-> -1, cur_len |-> 0, zero_pos |-> -1, zero_len |-> 0]
        run  == LongerRun(FoldLeft(step, none, <<0, 2, 4, 6, 8, 10, 12, 14>>))
    IN  [len |-> run.zero_len, pos |-> IF run.zero_len <= 2 THEN -1 ELSE run.zero_pos]

\* IPv4-mapped or IPv4-compatible
HasIp4(a, run) ==
    /\ run.pos = 0
    /\ \/ run.len = 10 /\ a[11] = 255 /\ a[12] = 255
       \/ run.len = 12

\* The words from octet i up to addr_len; behind the run of zeros one is written
\* wherever addr_len is.
RECURSIVE Words(_, _, _, _)
Words(a, i, addr_len, run) ==
    IF i >= addr_len THEN << >>
    ELSE IF i = run.pos THEN
        <<Colon, Colon>> \o
        (IF i + run.len >= 16 THEN << >>
         ELSE uint16_toax(Word(a, i + run.len)) \o Words(a, i + run.len + 2, addr_len, run))
    ELSE (IF i = 0 THEN << >> ELSE <<Colon>>)
           \o uint16_toax(Word(a, i)) \o Words(a, i + 2, addr_len, run)

ip6_str_encode(a, fl, len) ==
    LET brack == "ADDBRACK" \in fl
        run   == ZeroRun(a)
        ip4   == "NOIPV4" \notin fl /\ HasIp4(a, run)
        words == (IF brack THEN <<91>> ELSE << >>) \o Words(a, 0, IF ip4 THEN 12 ELSE 16, run)
        colon == IF ip4 /\ run.len = 10 THEN <<Colon>> ELSE << >>
        tail  == IF ip4 THEN ip4_str_encode(a, 12, len - Len(words \o colon)) ELSE << >>
    IN  CASE len < IP6_ADDR_STRLEN + (IF brack THEN 2 ELSE 0) -> << >>
          [] ip4 /\ "STRIPV4" \in fl -> ip4_str_encode(a, 12, len)
          [] OTHER -> words \o colon \o tail \o (IF brack THEN <<93>> ELSE << >>)

\* A record is shown by dns_rr_tostr, which gives no flags, or described by
\* dns_rr_decode, which takes any address for one of IPv4; the text is given to
\* dns-gen.
Unwritten == <<63, 63, 63>>      \* ???

Give(how, str) ==
    /\ str # << >> /\ text' = str /\ origin' = how
    /\ pc' = "ip4"
    /\ UNCHANGED <<addr, dst, locals, type, nread>>

ToStr ==
    /\ pc = "text" /\ addr # << >>
    /\ \E len \in Lens :
          Give("tostr", IF Len(addr) = 4 THEN ip4_str_encode(addr, 0, len)
                                         ELSE ip6_str_encode(addr, {}, len))

Describe ==
    /\ pc = "text" /\ addr # << >>
    /\ \E len \in Lens :
          LET str == ip4_str_encode(addr, 0, len)
          IN  Give("describe", IF str = << >> THEN Unwritten ELSE str)

\* Another text is given to dns-gen: without an address in mind or spelling the
\* address in another way.
HexWords(a, i, j) ==         \* from word i up to word j, counted from 0
    FlattenSeq([k \in 1..(j - i + 1) |->
        (IF k = 1 THEN << >> ELSE <<Colon>>) \o uint16_toax(Word(a, 2 * (i + k - 1)))])
ZeroWords(a, i, j) == i <= j /\ \A k \in i..j : Word(a, 2 * k) = 0
Compressed(a, i, j) == HexWords(a, 0, i - 1) \o <<Colon, Colon>> \o HexWords(a, j + 1, 7)
StandardTexts(a) ==
    {HexWords(a, 0, 7)} \union
    {Compressed(a, ij[1], ij[2]) : ij \in {p \in (0..7) \X (0..7) : ZeroWords(a, p[1], p[2])}}

Type ==
    /\ pc = "text" /\ Len(addr) # 4
    /\ \E str \in IF addr = << >> THEN Typed ELSE StandardTexts(addr) : Give("typed", str)

----------------------------------------------------------------------------
\* ip4_str_decode: the octets it writes, and what it returns, -1 (a size_t) for
\* more than three digits.
Ip4Char(s, ch) ==
    LET value == s.acc * 10 + (ch - 48)
    IN  CASE s.ret # "go" -> s
          [] s.ret = "go" /\ IsDigit(ch) ->
                [s EXCEPT !.n = @ + 1, !.digits = @ + 1, !.acc = value,
                          !.ret = IF s.digits = 3 THEN "minus"
                                  ELSE IF value > 255 THEN "zero" ELSE "go"]
          [] s.ret = "go" /\ ch = Dot ->
                IF s.digits = 0 \/ s.dots >= 3 THEN [s EXCEPT !.ret = "zero"]
                ELSE [s EXCEPT !.n = @ + 1, !.out = Append(@, s.acc), !.dots = @ + 1,
                               !.acc = 0, !.digits = 0]
          [] OTHER -> [s EXCEPT !.n = @ + 1, !.ret = "stop"]

ip4_str_decode(str) ==
    LET start == [n |-> 0, digits |-> 0, dots |-> 0, acc |-> 0, out |-> << >>, ret |-> "go"]
        s     == FoldLeft(Ip4Char, start, str)
    IN  CASE s.ret = "minus" -> [ret |-> -1, out |-> s.out]
          [] s.ret = "zero" \/ (s.ret # "minus" /\ (s.dots # 3 \/ s.digits = 0)) ->
                [ret |-> 0, out |-> s.out]
          [] OTHER -> [ret |-> s.n, out |-> Append(s.out, s.acc)]

Placed(d, at, octets) ==
    [i \in DOMAIN d |-> IF i \in at..(at + Len(octets) - 1) THEN octets[i - at + 1] ELSE d[i]]

\* ipstr_decode returns; a text that is no address is taken as a name.
Return(t, n) == type' = t /\ nread' = n /\ pc' = "done"
Reject == Return("CNAME", 0) /\ UNCHANGED <<dst, locals>>
Continue == UNCHANGED <<type, nread, pc>>

TryIp4 ==
    /\ pc = "ip4"
    /\ LET r == ip4_str_decode(text) IN
          /\ dst' = Placed(dst, 0, r.out)
          /\ IF r.ret # 0 THEN Return("A", r.ret) ELSE pc' = "ip6" /\ UNCHANGED <<type, nread>>
    /\ str_end' = Len(text)
    /\ UNCHANGED <<addr, text, origin, str_ptr, seg_ptr, dst_ptr, zero_ptr, num_hex, num_seg, acc>>

\* ip6_str_decode: one iteration.
More == pc = "ip6" /\ str_ptr < str_end
Char == text[str_ptr + 1]

HexDigit ==
    /\ More /\ IsHex(Char)
    /\ IF num_hex + 1 > 4 THEN Reject
       ELSE /\ num_hex' = num_hex + 1
            /\ acc' = acc * 16 + hex_to_nibble(Char)
            /\ str_ptr' = str_ptr + 1
            /\ Continue
            /\ UNCHANGED <<dst, str_end, seg_ptr, dst_ptr, zero_ptr, num_seg>>
    /\ UNCHANGED <<addr, text, origin>>

TooManySegments == num_seg >= 7

EndSegment ==
    /\ More /\ Char = Colon
    /\ LET next   == str_ptr + 1
           double == next < str_end /\ text[next + 1] = Colon
       IN  IF num_hex > 0 /\ TooManySegments THEN Reject
           ELSE /\ dst' = IF num_hex > 0 THEN Placed(dst, dst_ptr, enc_u16(acc)) ELSE dst
                /\ dst_ptr' = IF num_hex > 0 THEN dst_ptr + 2 ELSE dst_ptr
                /\ zero_ptr' = IF double THEN dst_ptr' ELSE zero_ptr
                /\ str_ptr' = IF double THEN next + 1 ELSE next
                /\ seg_ptr' = str_ptr' + 1
                /\ num_hex' = 0 /\ acc' = 0 /\ num_seg' = num_seg + 1
                /\ IF double /\ zero_ptr # -1 THEN Return("CNAME", 0) ELSE Continue
                /\ UNCHANGED str_end
    /\ UNCHANGED <<addr, text, origin>>

Ip4Tail ==
    /\ More /\ Char = Dot
    /\ LET r == ip4_str_decode(SubSeq(text, seg_ptr + 1, str_end)) IN
          IF num_seg > 6 \/ r.ret = 0
          THEN /\ Return("CNAME", 0)
               /\ dst' = IF num_seg > 6 THEN dst ELSE Placed(dst, dst_ptr, r.out)
               /\ UNCHANGED locals
          ELSE /\ dst' = Placed(dst, dst_ptr, r.out)
               /\ dst_ptr' = dst_ptr + 4 /\ num_seg' = num_seg + 2 /\ num_hex' = 0
               /\ str_ptr' = seg_ptr + r.ret /\ str_end' = 0
               /\ Continue /\ UNCHANGED <<seg_ptr, zero_ptr, acc>>
    /\ UNCHANGED <<addr, text, origin>>

OtherChar ==
    /\ More /\ ~IsHex(Char) /\ Char \notin {Colon, Dot}
    /\ str_ptr' = str_ptr + 1 /\ str_end' = 0
    /\ Continue
    /\ UNCHANGED <<addr, text, origin, dst, seg_ptr, dst_ptr, zero_ptr, num_hex, num_seg, acc>>

\* Behind the loop: the last segment, and the gap filled.
LastSegment ==
    /\ pc = "ip6" /\ str_ptr >= str_end /\ num_hex > 0
    /\ dst' = Placed(dst, dst_ptr, enc_u16(acc))
    /\ dst_ptr' = dst_ptr + 2 /\ num_seg' = num_seg + 1 /\ num_hex' = 0
    /\ Continue
    /\ UNCHANGED <<addr, text, origin, str_ptr, str_end, seg_ptr, zero_ptr, acc>>

ZeroFilled(d) ==
    LET moved == dst_ptr - zero_ptr
        gap   == DstLen - dst_ptr
    IN  [i \in DOMAIN d |->
            CASE i \in zero_ptr..(zero_ptr + gap - 1) -> 0
              [] i \in (DstLen - moved)..(DstLen - 1) -> d[zero_ptr + i - (DstLen - moved)]
              [] OTHER -> d[i]]

Finish ==
    /\ pc = "ip6" /\ str_ptr >= str_end /\ num_hex = 0
    /\ dst' = IF zero_ptr = -1 THEN dst ELSE ZeroFilled(dst)
    /\ IF zero_ptr # -1 \/ num_seg = 8 THEN Return("AAAA", str_ptr) ELSE Return("CNAME", 0)
    /\ UNCHANGED <<addr, text, origin, locals>>

Next ==
    \/ ToStr \/ Describe \/ Type \/ TryIp4
    \/ HexDigit \/ EndSegment \/ Ip4Tail \/ OtherChar \/ LastSegment \/ Finish

Spec == Init /\ [][Next]_vars

----------------------------------------------------------------------------
\* ip6_str_decode writes into the 16 octets of its result only, although the
\* tests before its writes are commented out and only segments are counted, some
\* of them empty (str_util.c:77-93, 98-119).
WritesInDst ==
    /\ dst_ptr <= DstLen
    /\ \A i \in DOMAIN dst : i >= DstLen => dst[i] = Junk

Spelled == addr # << >> /\ text # Unwritten /\ (Len(addr) = 4 \/ text \in StandardTexts(addr))

\* Four decimal digits in front, the first three an octet: ip4_str_decode gives
\* -1 at the fourth, which ipstr_decode takes for success.
FourDigits ==
    /\ Len(text) >= 4 /\ \A i \in 1..4 : IsDigit(text[i])
    /\ 100 * (text[1] - 48) + 10 * (text[2] - 48) + (text[3] - 48) <= 255

\* A text that spells an address in hexadecimal, with or without a gap, or in
\* dots is read to its end and to that address, the texts the encoders write
\* included, unless it starts with four decimal digits (str_util.c:18-228).
\* Those are the subject of Ip6Recognised.
StandardDecoded ==
    pc = "done" /\ Spelled /\ ~FourDigits =>
        /\ type = (IF Len(addr) = 4 THEN "A" ELSE "AAAA")
        /\ \A i \in 1..Len(addr) : dst[i - 1] = addr[i]
        /\ nread = Len(text)

\* RFC 5952, which str_util.c:188 cites: the longest run of two or more zero
\* words is left out, the first of several, and no single one.
Canonical(a) ==
    LET runs == {p \in (0..7) \X (0..7) : p[1] < p[2] /\ ZeroWords(a, p[1], p[2])}
        best == {p \in runs : \A q \in runs :
                    \/ q[2] - q[1] < p[2] - p[1]
                    \/ q[2] - q[1] = p[2] - p[1] /\ p[1] <= q[1]}
    IN  {Compressed(a, p[1], p[2]) : p \in best} \union
        {HexWords(a, 0, 7) : x \in IF runs = {} THEN {0} ELSE {}}

\* dns_rr_tostr writes an address without an IPv4 address in it in its one
\* canonical form (dns_proto.c:510-513, str_util.c:151-228).  How dns_rr_decode
\* describes a record is the subject of DescribedAsShown.
Rfc5952 ==
    pc = "ip4" /\ origin = "tostr" /\ Len(addr) = 16 /\ ~HasIp4(addr, ZeroRun(addr))
    => text \in Canonical(addr)

\* README.md:126 "Answer: example.com 286 IN AAAA 2606:4700::6812:1b78": the
\* description of an AAAA record, where one is written, is its IPv6 address.
DescribedAsShown ==
    origin = "describe" /\ Len(addr) = 16 /\ text # Unwritten =>
        text = ip6_str_encode(addr, {}, IP6_ADDR_STRLEN)

\* str_util.c:56 decodes "IPv6 addr-str - e.g "2001:db8::7"", and dns_gen.c:768
\* takes one for a record: a text of an IPv6 address makes an AAAA record.
Ip6Recognised == pc = "done" /\ Len(addr) = 16 /\ Spelled => type = "AAAA"

\* str_util.c:191 writes "IPv4-Mapped or IPv4-Compatible" addresses: their text
\* is read back as the address.
EmbeddedDecoded ==
    pc = "done" /\ origin = "tostr" /\ ~FourDigits => \A i \in 1..Len(addr) : dst[i - 1] = addr[i]

\* dns_gen.c:768 takes "ip4addr|ip6addr|regname": a text is an IPv4 address only
\* if it consists of digits and dots.
NamesStayNames == type = "A" => \A i \in 1..Len(text) : IsDigit(text[i]) \/ text[i] = Dot
=============================================================================
