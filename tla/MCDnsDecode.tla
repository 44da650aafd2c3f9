---------------------------- MODULE MCDnsDecode ----------------------------
(***************************************************************************)
(* Instances of DnsDecode for TLC: every packet of up to four elements     *)
(* under every query header of up to two questions, two answers, one       *)
(* authority and one additional record, so that a header can announce      *)
(* less, as much and more than the packet holds; under every combination   *)
(* of query or response and codes out of range with up to one element per  *)
(* section; and under a header cut short.                                  *)
(***************************************************************************)
EXTENDS DnsDecode

SmallWires == UNION {[1..n -> BOOLEAN] : n \in 0..4}
Counts     == {c \in [Sections -> 0..2] : c["NS"] <= 1 /\ c["AR"] <= 1}
SmallHeaders ==
    [short : {FALSE}, qr : {FALSE}, bad : {{}}, count : Counts]
        \union [short : {FALSE}, qr : BOOLEAN, bad : SUBSET Codes, count : [Sections -> 0..1]]
        \union [short : {TRUE}, qr : {FALSE}, bad : {{}}, count : {None}]
============================================================================
