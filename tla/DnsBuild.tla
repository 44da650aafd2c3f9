----------------------------- MODULE DnsBuild -----------------------------
(***************************************************************************)
(* How a message to send is built: dns_msg_reset, dns_add_qdn and          *)
(* dns_add_rr (dns_proto.c), on struct dns_msg with its names store and    *)
(* its slots.                                                              *)
(*                                                                         *)
(* A text is the sequence of its labels, a label a sequence of octets.     *)
(* NULL reads like the empty text everywhere.  A record holds the texts of *)
(* its rdata in strs; its numbers and addresses follow from the type.      *)
(*                                                                         *)
(* A slot keeps what it held when it is used again, after a call that      *)
(* failed half-way or after a reset, and a TXT record goes on from the     *)
(* count it finds there.  Left by a record of another type, that count is  *)
(* a part of a pointer.                                                    *)
(***************************************************************************)
EXTENDS Integers, SequencesExt

CONSTANTS
    QNames, Records,   \* what callers add
    AddTo,             \* bound: sections callers add to
    MaxCalls,          \* bound: calls
    DNS_MAX_QD, DNS_MAX_RR, DNS_MAX_TXT,   \* 1, 32 and 32 in dns_proto.h
    DNS_NAME_MAXSTR,   \* 253 in dns_proto.h
    StoreMax           \* sizeof(msg->names), 2048 in the code

Sections == <<"an", "ns", "ar">>

ASSUME BuildAssumption ==
    /\ AddTo \subseteq ToSet(Sections) /\ MaxCalls \in Nat
    /\ DNS_MAX_QD \in Nat /\ DNS_MAX_RR \in Nat /\ DNS_MAX_TXT \in Nat
    /\ DNS_NAME_MAXSTR \in Nat /\ StoreMax \in Nat

VARIABLES
    names_len,   \* bytes of the names store in use
    qd,          \* the questions: their names
    count,       \* an_len, ns_len and ar_len
    slot,        \* the records of each section, in use or not
    wild,        \* a TXT record was added behind a count that is no count
    asked,       \* the records that were added, per section
    calls

msg   == <<names_len, qd, count, slot, wild>>
build == <<msg, asked, calls>>

Blank == [name |-> << >>, type |-> "none", strs |-> << >>]

Init ==
    /\ names_len = 0 /\ qd = << >> /\ wild = FALSE /\ calls = 0
    /\ count = [sc \in ToSet(Sections) |-> 0]
    /\ slot = [sc \in ToSet(Sections) |-> [n \in 1..DNS_MAX_RR |-> Blank]]
    /\ asked = [sc \in ToSet(Sections) |-> << >>]

----------------------------------------------------------------------------
\* Plausible slips of the code, each substituted for the definition after it.

\* the record is counted before its rdata is stored
CountedAlways(ok) == 1
----------------------------------------------------------------------------

\* strlen of a text: its labels and the dots between them.
TextLen(t) == FoldLeft(LAMBDA n, label : n + Len(label), 0, t) + (IF t = << >> THEN 0 ELSE Len(t) - 1)

\* msg_store_str: the text is short enough and there is space for it.
Fits(used, t) == TextLen(t) <= DNS_NAME_MAXSTR /\ used + TextLen(t) + 1 <= StoreMax

\* A text of the rdata that cannot be stored ends the call, except those of
\* HINFO, and the second of SOA, where the first is tested again.
Checked(type, n) == type # "HINFO" /\ ~(type = "SOA" /\ n = 1)

\* The texts are stored one by one, behind those the slot holds already.
Store(s, t, type) ==
    IF ~s.ok \/ (type = "TXT" /\ Len(s.strs) >= DNS_MAX_TXT) THEN [s EXCEPT !.ok = FALSE]
    ELSE IF Fits(s.used, t)
    THEN [s EXCEPT !.used = @ + TextLen(t) + 1, !.strs = Append(@, t)]
    ELSE IF Checked(type, Len(s.strs)) THEN [s EXCEPT !.ok = FALSE]
    ELSE [s EXCEPT !.strs = Append(@, << >>)]

StoreAll(rr, used, held) ==
    FoldLeft(LAMBDA s, t : Store(s, t, rr.type),
             [used |-> used, strs |-> held, ok |-> TRUE], rr.strs)

\* What a TXT record finds in its slot, whose type the caller's replaces.
Held(rr, old) ==
    IF rr.type # "TXT" THEN {<< >>}
    ELSE IF old.type \in {"TXT", "none"} THEN {old.strs}
    ELSE {[k \in 1..n |-> << >>] : n \in 0..DNS_MAX_TXT}

\* What is added to the section's count.
Counted(ok) == IF ok THEN 1 ELSE 0

----------------------------------------------------------------------------
\* dns_add_qdn
AddQd ==
    /\ calls < MaxCalls /\ calls' = calls + 1
    /\ \E name \in QNames :
          IF Len(qd) < DNS_MAX_QD /\ Fits(names_len, name)
          THEN qd' = Append(qd, name) /\ names_len' = names_len + TextLen(name) + 1
          ELSE UNCHANGED <<qd, names_len>>
    /\ UNCHANGED <<count, slot, wild, asked>>

\* dns_add_rr: the owner's name first, then the rdata.
AddRr ==
    /\ calls < MaxCalls /\ calls' = calls + 1
    /\ \E sc \in AddTo, rr \in Records :
          LET n   == count[sc] + 1
              old == slot[sc][n]
          IN  \/ count[sc] >= DNS_MAX_RR /\ UNCHANGED <<msg, asked>>
              \/ /\ count[sc] < DNS_MAX_RR /\ ~Fits(names_len, rr.name)
                 /\ slot' = [slot EXCEPT ![sc][n].name = << >>]
                 /\ UNCHANGED <<names_len, qd, count, wild, asked>>
              \/ /\ count[sc] < DNS_MAX_RR /\ Fits(names_len, rr.name)
                 /\ \E held \in Held(rr, old) :
                    LET s == StoreAll(rr, names_len + TextLen(rr.name) + 1, held) IN
                       /\ names_len' = s.used
                       /\ slot' = [slot EXCEPT ![sc][n] =
                                      [name |-> rr.name, type |-> rr.type, strs |-> s.strs]]
                       /\ count' = [count EXCEPT ![sc] = @ + Counted(s.ok)]
                       /\ asked' = IF s.ok THEN [asked EXCEPT ![sc] = Append(@, rr)] ELSE asked
                       /\ wild' = (wild \/ (held # << >> /\ old.type # "TXT"))
                 /\ UNCHANGED qd

\* dns_msg_reset: the slots keep what they hold.
Reset ==
    /\ calls < MaxCalls /\ calls' = calls + 1
    /\ names_len' = 0 /\ qd' = << >>
    /\ count' = [sc \in ToSet(Sections) |-> 0]
    /\ asked' = [sc \in ToSet(Sections) |-> << >>]
    /\ UNCHANGED <<slot, wild>>

Next == AddQd \/ AddRr \/ Reset

----------------------------------------------------------------------------
\* The record a caller added, as the slot holds it.  Of a second text that did
\* not fit nothing is left.  A TXT record may follow strings of an earlier one.
Holds(s, rr) ==
    /\ s.name = rr.name /\ s.type = rr.type
    /\ \/ s.strs = rr.strs
       \/ /\ rr.type \in {"SOA", "HINFO"} /\ Len(s.strs) = Len(rr.strs)
          /\ \A k \in 1..Len(rr.strs) : s.strs[k] \in {rr.strs[k], << >>}
       \/ rr.type = "TXT" /\ IsSuffix(rr.strs, s.strs)

\* The message holds the records whose calls returned 0, all of them and in
\* their order, whatever calls failed in between and wherever they did; and the
\* names of the message are within the store (dns_proto.c:587-603, 1654-1745).
HoldsAdded ==
    /\ names_len <= StoreMax
    /\ \A sc \in ToSet(Sections) :
          /\ count[sc] = Len(asked[sc]) /\ count[sc] <= DNS_MAX_RR
          /\ \A n \in 1..count[sc] : Holds(slot[sc][n], asked[sc][n])
=============================================================================
