----------------------------- MODULE DnsDecode -----------------------------
(***************************************************************************)
(* decode_msg (dns_proto.c) as dns_validate and dns_msg_decode call it:    *)
(* the header, the questions, the three record sections, the error stack   *)
(* and the value returned.                                                 *)
(*                                                                         *)
(* The packet behind the header is a sequence of elements, first the       *)
(* questions the header counts, then records, each well formed or not.  A  *)
(* decoder that fails inside an element, or reads a question as a record,  *)
(* is out of step (pos = 0): what it finds from there on is left open.     *)
(***************************************************************************)
EXTENDS Integers, Sequences

CONSTANTS
    Wires,          \* packets: for each element, whether it is well formed
    Headers,        \* what the header of a packet may say
    DNS_MAX_EMSG,   \* size of the error stack, 10 in the code
    EmsgLines,      \* lines of description the caller's buffer holds
    DNS_MAX_QD,     \* question slots of a message, 1
    DNS_MAX_RR      \* record slots of a section, 32

Sections == {"QD", "AN", "NS", "AR"}
Codes    == {"opcode", "rcode"}

\* A header: cut short, of a response (qr), codes out of range, the counts.
HeaderSays == [short : BOOLEAN, qr : BOOLEAN, bad : SUBSET Codes, count : [Sections -> Nat]]

\* The error stack has a place for each section of a message.
ASSUME BoundsAssumption ==
    /\ Wires \subseteq Seq(BOOLEAN) /\ Headers \subseteq HeaderSays
    /\ DNS_MAX_EMSG \in Nat /\ DNS_MAX_EMSG >= 4
    /\ EmsgLines \in Nat /\ DNS_MAX_QD \in Nat \ {0} /\ DNS_MAX_RR \in Nat

DEC_ERR == -1

VARIABLES
    load_msg,  \* dns_msg_decode; otherwise dns_validate
    wire,      \* the packet's elements
    header,    \* what the header says
    big,       \* the packet is longer than the UDP size in force
    count,     \* msg->hdr counts
    pos,       \* dec->offset: the next element, 0 when out of step
    sect,      \* section being decoded
    i,         \* row of the section's loop
    nerr,      \* errors on the stack
    room,      \* lines left in the caller's buffer
    loaded,    \* per section, which elements were loaded (0: out of step)
    refused,   \* where texts that could not be stored left dec->offset
    rc         \* value of decode_msg, then of the caller

input == <<load_msg, wire, header, big>>
vars  == <<input, count, pos, sect, i, nerr, room, loaded, refused, rc>>

None == [s \in Sections |-> 0]

Init ==
    /\ load_msg \in BOOLEAN
    /\ wire \in Wires
    /\ header \in Headers
    /\ big \in BOOLEAN
    /\ count = None
    /\ pos = 1
    /\ sect = "HDR"
    /\ i = 0
    /\ nerr = 0
    /\ room = EmsgLines
    /\ loaded = [s \in Sections |-> << >>]
    /\ refused = {}
    /\ rc = 0

----------------------------------------------------------------------------
\* Plausible slips of the code, each substituted for the definition after it.

LineFitsWithSpare(r) == r > 1
VerdictOfDecode(r)  == r
NextSectSwapped(s)  ==
    CASE s = "HDR" -> "QD" [] s = "QD" -> "AN" [] s = "AN" -> "AR"
      [] s = "AR" -> "NS" [] s = "NS" -> "END"
----------------------------------------------------------------------------

\* dns_dec_err: pushes an error and returns 0, or DEC_ERR when there is no room.
StackFull(n) == n >= DNS_MAX_EMSG
Pushed(n)    == IF StackFull(n) THEN n ELSE n + 1
PushRc(n)    == IF StackFull(n) THEN DEC_ERR ELSE 0

\* dns_wmsg: one more line of description.
LineFits(r) == r > 0

\* dns_validate: errors on the stack make the verdict, whatever was returned.
Verdict(r) == IF nerr > 0 /\ r = 0 THEN DEC_ERR ELSE r

NextSect(s) ==
    CASE s = "HDR" -> "QD" [] s = "QD" -> "AN" [] s = "AN" -> "NS"
      [] s = "NS" -> "AR" [] s = "AR" -> "END"

Max(s)  == IF s = "QD" THEN DNS_MAX_QD ELSE DNS_MAX_RR
Positions == 0..(Len(wire) + 1)
IsQuestion(k) == k <= header.count["QD"]

\* What decoding an element for section s can do: whether the element passes,
\* and where the offset is afterwards.
Outcomes(s) ==
    IF pos = Len(wire) + 1 THEN {[ok |-> FALSE, pos |-> pos]}
    ELSE IF pos > 0 /\ IsQuestion(pos) = (s = "QD")
         THEN IF wire[pos] THEN {[ok |-> TRUE, pos |-> pos + 1]}
                           ELSE {[ok |-> FALSE, pos |-> 0]}
         ELSE [ok : BOOLEAN, pos : Positions]

----------------------------------------------------------------------------
\* The code decode_hdr refuses a packet for: a query's opcode, a response's
\* rcode.  An unknown opcode in a response is described and nothing more.
CheckedCode == IF header.qr THEN "rcode" ELSE "opcode"

\* dns_msg_reset, decode_hdr.  A packet shorter than a header is an error on
\* the stack only: the sections are then decoded with the counts of the reset.
Header ==
    LET bad   == ~load_msg /\ CheckedCode \in header.bad
        errs  == IF header.short \/ bad THEN Pushed(nerr) ELSE nerr
        desc  == ~load_msg /\ ~header.short
        fails == IF header.short THEN PushRc(nerr) # 0 ELSE desc /\ ~LineFits(room)
    IN  /\ sect = "HDR"
        /\ nerr' = errs
        /\ count' = IF header.short THEN count ELSE header.count
        /\ room' = IF desc /\ LineFits(room) THEN room - 1 ELSE room
        /\ rc' = IF fails THEN DEC_ERR ELSE 0
        /\ sect' = IF fails THEN "RET" ELSE NextSect(sect)
        /\ UNCHANGED <<input, pos, i, loaded, refused>>

\* The row's decoder returned r with n errors on the stack.  Anything but 0,
\* also the positive value a loaded element gives, ends the section with one
\* more error, and the decoding only if the stack is full.
RowReturns(r, n) ==
    \/ /\ r = 0
       /\ nerr' = n
       /\ i' = i + 1
       /\ UNCHANGED <<sect, rc>>
    \/ /\ r # 0
       /\ nerr' = Pushed(n)
       /\ i' = 0
       /\ rc' = PushRc(n)
       /\ sect' = IF PushRc(n) = 0 THEN NextSect(sect) ELSE "RET"

\* dns_qd_decode or dns_rr_decode for the next row.  A record fails with an
\* error pushed or, when fix_label finds no room, without one.  A text to load
\* may be refused: by its length, for want of space or as one string of TXT too
\* many.  Which are is left open; a shorter text behind it may be stored again.
\* The offset is then behind the element, always so for a question, or inside.
Row ==
    /\ sect \in Sections /\ i < count[sect]
    /\ \/ /\ load_msg /\ Len(loaded[sect]) >= Max(sect)
          /\ RowReturns(-1, nerr)
          /\ UNCHANGED <<pos, room, loaded, refused>>
       \/ /\ load_msg => Len(loaded[sect]) < Max(sect)
          /\ \E o \in Outcomes(sect) :
              \/ /\ ~o.ok
                 /\ pos' = o.pos
                 /\ \/ RowReturns(PushRc(nerr), Pushed(nerr))
                    \/ sect # "QD" /\ RowReturns(-1, nerr)
                 /\ UNCHANGED <<room, loaded, refused>>
              \/ /\ o.ok /\ ~load_msg
                 /\ pos' = o.pos
                 /\ room' = IF LineFits(room) THEN room - 1 ELSE room
                 /\ RowReturns(IF LineFits(room) THEN 0 ELSE -1, nerr)
                 /\ UNCHANGED <<loaded, refused>>
              \/ /\ o.ok /\ load_msg
                 /\ pos' = o.pos
                 /\ loaded' = [loaded EXCEPT ![sect] = Append(@, pos)]
                 /\ RowReturns(1, nerr)
                 /\ UNCHANGED <<room, refused>>
              \/ /\ o.ok /\ load_msg
                 /\ \/ pos' = o.pos /\ refused' = refused \union {"behind"}
                    \/ sect # "QD" /\ pos' = 0 /\ refused' = refused \union {"inside"}
                 /\ RowReturns(-1, nerr)
                 /\ UNCHANGED <<room, loaded>>
    /\ UNCHANGED <<input, count>>

\* The section's loop is over.
SectionDone ==
    /\ sect \in Sections /\ i >= count[sect]
    /\ sect' = NextSect(sect)
    /\ i' = 0
    /\ UNCHANGED <<input, count, pos, nerr, room, loaded, refused, rc>>

\* The size check of decode_msg: a line of description, not an error.
SizeCheck ==
    /\ sect = "END"
    /\ sect' = "RET"
    /\ IF ~load_msg /\ big
       THEN /\ rc' = IF LineFits(room) THEN 0 ELSE -1
            /\ room' = IF LineFits(room) THEN room - 1 ELSE room
       ELSE UNCHANGED <<rc, room>>
    /\ UNCHANGED <<input, count, pos, i, nerr, loaded, refused>>

\* dns_validate looks at the stack, dns_msg_decode does not.
Return ==
    /\ sect = "RET"
    /\ sect' = "DONE"
    /\ rc' = IF load_msg THEN rc ELSE Verdict(rc)
    /\ UNCHANGED <<input, count, pos, i, nerr, room, loaded, refused>>

Next == Header \/ Row \/ SectionDone \/ SizeCheck \/ Return

Spec == Init /\ [][Next]_vars

----------------------------------------------------------------------------
Done == sect = "DONE"

Total == header.count["QD"] + header.count["AN"] + header.count["NS"]
            + header.count["AR"]

\* The packet holds a header and, in order, every question and record the
\* header counts.
Framed ==
    /\ ~header.short
    /\ Total <= Len(wire)
    /\ \A k \in 1..Total : wire[k]

\* And the header's codes are known; a query has no rcode.
WellFormed ==
    /\ Framed
    /\ "opcode" \notin header.bad /\ (header.qr => "rcode" \notin header.bad)

\* The variables keep their types and the error stack its size.
TypeOK ==
    /\ count \in [Sections -> Nat]
    /\ pos \in Positions
    /\ sect \in Sections \union {"HDR", "END", "RET", "DONE"}
    /\ i \in Nat
    /\ nerr \in 0..DNS_MAX_EMSG
    /\ room \in 0..EmsgLines
    /\ loaded \in [Sections -> Seq(Positions)]
    /\ refused \subseteq {"behind", "inside"}
    /\ rc \in {DEC_ERR, 0}

\* dns_validate says 0 only of a packet that holds all its header counts, well
\* formed, and whose code that decode_hdr checks is known, although every error
\* is pushed with a 0 returned and decoding goes on behind it, possibly out of
\* step and finding well-formed elements (dns_proto.c:273-286, 1067-1113,
\* 1227-1250).  Of the opcode of a response it says nothing: see OpcodeChecked.
VerdictSound ==
    Done /\ ~load_msg /\ rc = 0 => Framed /\ CheckedCode \notin header.bad

\* dns_proto.c:1161 "validate OPCODE range", in the branch of responses as in
\* that of queries: what dns_validate accepts has a known opcode.
OpcodeChecked == Done /\ ~load_msg /\ rc = 0 => "opcode" \notin header.bad

\* And it says 0 of every well-formed packet whose description fits the
\* caller's buffer: a line for the header, one per element, one on the size.
VerdictComplete ==
    /\ Done /\ ~load_msg /\ WellFormed
    /\ Total + 1 + (IF big THEN 1 ELSE 0) <= EmsgLines
    => rc = 0

\* What loading a packet of at most one question, all well formed, puts into the
\* sections are elements of the packet, in order, none of them twice and none
\* read out of step, and loading succeeds, also when texts are refused on the
\* way: unless a refused text leaves the offset inside its record, behind which
\* anything may be read (dns_proto.c:587-592, 884, 1202-1212).
LoadKeepsOrder ==
    LET all == loaded["QD"] \o loaded["AN"] \o loaded["NS"] \o loaded["AR"]
    IN  /\ Done /\ load_msg /\ Framed /\ header.count["QD"] <= 1
        /\ "inside" \notin refused
        => /\ rc = 0
           /\ \A k \in 1..Len(all) : all[k] > 0
           /\ \A k \in 1..(Len(all) - 1) : all[k] < all[k + 1]

\* dns_proto.h:45 "iterate over answers": after a successful dns_msg_decode of a
\* packet for which there are slots and space, the an_len records to iterate
\* over are the answers of the packet, and so for the other sections.
LoadsAll ==
    /\ Done /\ load_msg /\ Framed /\ rc = 0
    /\ refused = {} /\ \A s \in Sections : header.count[s] <= Max(s)
    => \A s \in Sections : Len(loaded[s]) = header.count[s]
============================================================================
