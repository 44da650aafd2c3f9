---------------------------- MODULE MCDnsEncode ----------------------------
(***************************************************************************)
(* Instances of DnsEncode for TLC: names over the labels a, b and c, in    *)
(* both cases, one that is too long a label, and the text ".".             *)
(***************************************************************************)
EXTENDS DnsEncode

La == <<97>>
Lb == <<98>>
Lc == <<99>>
UB == <<66>>

Root == << >>
A    == <<La>>
BA   == <<Lb, La>>
UBA  == <<UB, La>>
CBA  == <<Lc, Lb, La>>
Dot  == << << >> >>
Long == << <<97, 97, 97>> >>

Rr(owner, type, strs) == [name |-> owner, type |-> type, strs |-> strs]

SmallQNames == {UBA, CBA, Root, Dot, Long}
SmallRecords ==
    {Rr(A, "A", << >>), Rr(CBA, "AAAA", << >>), Rr(BA, "NS", <<CBA>>),
     Rr(BA, "CNAME", <<BA>>), Rr(Root, "PTR", <<UBA>>), Rr(A, "SOA", <<BA, CBA>>),
     Rr(A, "TXT", <<A>>), Rr(Root, "TXT", <<Long, A>>),
     Rr(Root, "HINFO", <<Long, A>>), Rr(BA, "MX", <<CBA>>), Rr(A, "SRV", <<BA>>),
     Rr(Root, "OPT", << >>), Rr(A, "ANY", << >>)}
=============================================================================
