----------------------------- MODULE MCDnsName -----------------------------
(***************************************************************************)
(* Instances of DnsName for TLC, and the meaning of a name as RFC 1035     *)
(* gives it, written as a recursive definition the loop is compared with.  *)
(***************************************************************************)
EXTENDS DnsName, SequencesExt, FiniteSets, TLC

\* Twelve header octets; decode_name reads them only if asked to start there.
Header == [i \in 1..DNS_HDR_LEN |-> 0]

\* Every body of up to five octets: nulls, labels of one and two octets, the
\* pointer octet, and low pointer octets that reach each place of the body,
\* its end and beyond it.
BodyOctets == {0, 1, 2, 12, 14, 17, 192}
Bodies(n)  == UNION {[1..k -> BodyOctets] : k \in 0..n}
SmallPackets == {Header \o b : b \in Bodies(5)}

\* n pointers, each to the next one, the last to a null.
Chain(n) ==
    Header \o FlattenSeq([i \in 1..n |-> <<192, DNS_HDR_LEN + 2 * i>>]) \o <<0>>

ManyPackets  == SmallPackets \union {Chain(n) : n \in {16, 17, 18}}

\* A record of unknown type whose length wraps leaves the offset of the next
\* one beyond the packet (18).
SmallStarts == DNS_HDR_LEN..15 \union {18}
Sizes       == {1, 3, 5}

\* The labels that the name at position i of packet p stands for, following at
\* most j pointers: a set of one sequence, empty if there is no such name.
RECURSIVE Expansion(_, _, _)
Expansion(p, i, j) ==
    IF i >= Len(p) THEN {}
    ELSE LET b == p[i + 1] IN
         IF b = 0 THEN {<< >>}
         ELSE IF b >= 192 THEN
            IF j = 0 \/ i + 1 >= Len(p) THEN {}
            ELSE LET t == (b % 64) * 256 + p[i + 2] IN
                 IF t \in 12..Len(p) THEN Expansion(p, t, j - 1) ELSE {}
         ELSE IF i + 1 + b > Len(p) THEN {}
         ELSE {<<[at |-> i + 1, n |-> b]>> \o rest :
                  rest \in Expansion(p, i + 1 + b, j)}

\* Bytes of the text: the labels, the dots and the null.
TextLen(ls) == FoldSeq(LAMBDA l, acc : acc + l.n, 0, ls)

\* A success yields exactly the labels the name stands for, one dot between two
\* labels, none before the first and none behind the last one if its null
\* follows in place; the bytes reported are those of the text.  A failure is
\* never spurious: the packet holds no name there that takes DNS_MAX_JMP pointers
\* or fewer, or its text (with the dot that a pointer to a null leaves behind its
\* last label) does not fit the buffer.  Compares the result of decode_name's
\* loop with the recursive meaning of the name (dns_proto.c:354-414), which a
\* name without a loop has within as many pointers as the packet has octets.
DecodesMeaning ==
    /\ Succeeded =>
          /\ Expansion(pkt, start, Len(pkt)) = {labels}
          /\ 1..(Len(labels) - 1) \subseteq dots
          /\ dots \subseteq 1..Len(labels)
          /\ Len(labels) \in dots =>
                LET last == labels[Len(labels)] IN Octet(last.at + last.n) # 0
          /\ rc = TextLen(labels) + Cardinality(dots) + 1
    /\ pc = "done" /\ rc < 0 =>
          \A ls \in Expansion(pkt, start, DNS_MAX_JMP) : nlen < TextLen(ls) + Len(ls) + 1

\* dns_proto.h:114 "max number of compression pointer jmps": a name is decoded
\* over at most DNS_MAX_JMP pointers.
JumpLimit == Succeeded => njmp <= DNS_MAX_JMP
============================================================================
