---------------------------- MODULE DnsContracts ----------------------------
(***************************************************************************)
(* What a caller may rely on when a decoder of dns_proto.c returns.  Each  *)
(* contract is shown of the component that gives it, and stands for that   *)
(* component in the modules of its callers.                                *)
(***************************************************************************)
EXTENDS Integers

\* decode_name called at offset s of a packet of p octets leaves the offset at
\* o.  A name takes at least one octet and lies inside the packet; a failure
\* leaves the offset untouched or somewhere between s and the packet's end.
NameResult(p, s, o, ok) ==
    IF ok THEN s < o /\ o <= p
          ELSE s <= o /\ (o <= p \/ o = s)
=============================================================================
