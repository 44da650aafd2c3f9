---------------------------- MODULE MCPktFilter ----------------------------
(***************************************************************************)
(* Instances of PktFilter for TLC: frames of either IP version and neither,*)
(* with up to two VLAN tags, with every field the programs look at right   *)
(* or wrong, cut around every length they check.                           *)
(***************************************************************************)
EXTENDS PktFilter

Ports == {<<53, 1024>>, <<1024, 53>>, <<1024, 1025>>}

Frame(tags, t, ver, ihl, frag, proto, ports, len) ==
    [tags |-> tags, type |-> t, ver |-> ver, ihl |-> ihl, tot |-> 0, frag |-> frag,
     ttl |-> 64, proto |-> proto, check |-> 0, sport |-> ports[1], dport |-> ports[2],
     len |-> len]

\* One below and at each length that is checked, with and without tags.
Lengths == {0, 13, 14, 17, 18, 33, 34, 37, 38, 41, 42, 45, 46, 49, 53, 54, 57, 58, 61, 62, 80}

Ip4Frames ==
    {Frame(tags, ETH_P_IP, ver, ihl, frag, proto, ports, len) :
        tags \in 0..2, ver \in {4, 6}, ihl \in 4..6, frag \in {0, \h2001, \h4000},
        proto \in {6, 17}, ports \in Ports, len \in Lengths}
Ip6Frames ==
    {Frame(tags, ETH_P_IPV6, ver, 5, 0, proto, ports, len) :
        tags \in 0..2, ver \in {4, 6}, proto \in {6, 17}, ports \in Ports, len \in Lengths}
OtherFrames ==
    {Frame(tags, \h0806, 4, 5, 0, 17, <<53, 53>>, len) : tags \in 0..2, len \in Lengths}

SmallArrivals ==
    {[frame |-> f, queue |-> 0] : f \in Ip4Frames \union Ip6Frames \union OtherFrames}
    \union {[frame |-> f, queue |-> 1] :
               f \in {g \in Ip4Frames \union Ip6Frames : g.len \in {42, 80}}}
=============================================================================
