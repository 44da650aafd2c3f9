---------------------------- MODULE MCDnsRecord ----------------------------
(***************************************************************************)
(* Instances of DnsRecord for TLC.  Sixteen-bit numbers are scaled to six  *)
(* bits, which keeps every fixed length of the record types below the      *)
(* wrap and lets an announced length both end in the packet, pass its end, *)
(* and wrap around to before, at and behind its start.                     *)
(***************************************************************************)
EXTENDS DnsRecord

SmallU16 == 64

\* One packet too short for an IPv6 address, one that holds a whole SOA.
SmallPktLens == {28, 46}
\* Behind the header, and beyond the packet.
SmallStarts  == {12, 48}
\* The fixed lengths, one less and one more, and lengths that wrap.
SmallRdLens  == {0, 1, 2, 3, 4, 5, 6, 7, 16, 22, 23, 50, 63}

============================================================================
