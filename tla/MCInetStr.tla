----------------------------- MODULE MCInetStr -----------------------------
(***************************************************************************)
(* Instances of InetStr.                                                   *)
(***************************************************************************)
EXTENDS InetStr, FiniteSets

\* Every octet once, and every pattern of zero words, the others of one to four
\* digits, in front also four decimal ones that start like an octet (2001) or do
\* not (9999); the sixth may be that of a mapped address.
Word2(v) == {0, v}
MCAddrs ==
    {<<n, 255 - n, (7 * n) % 256, 10>> : n \in 0..255} \union
    {FlattenSeq([k \in 1..8 |-> enc_u16(w[k])]) :
        w \in {0, 1, \h2001, \h9999} \X Word2(32) \X Word2(768) \X Word2(16384)
              \X Word2(5) \X {0, 96, 65535} \X Word2(1792) \X Word2(32768)}

\* Up to nine segments, each with a digit or empty, the last also in dots, with a
\* letter behind it, or too long.
Segments(n) == {[k \in 1..n |-> IF k \in S THEN <<48 + k>> ELSE << >>] : S \in SUBSET (1..n)}
Tails == {<< >>, <<57>>, <<57, 120>>, <<57, 57, 57, 57, 57>>,
          <<49, 46, 50, 46, 51, 46, 52>>,                     \* 1.2.3.4
          <<49, 50, 46, 50, 46, 51, 46, 52>>,                 \* 12.2.3.4
          <<49, 46, 50, 46, 51>>,                             \* 1.2.3
          <<49, 51, 48, 48, 46, 50, 46, 51, 46, 52>>,         \* 1300.2.3.4
          <<51, 48, 48, 46, 50, 46, 51, 46, 52>>,             \* 300.2.3.4
          <<49, 50, 51, 52, 53, 46, 120>>,                    \* 12345.x
          <<49, 46, 50, 46, 51, 46, 52, 46, 53>>}             \* 1.2.3.4.5
MCTyped ==
    {FlattenSeq([k \in 1..Len(s) |-> s[k] \o <<Colon>>]) \o t :
        s \in UNION {Segments(n) : n \in 0..8}, t \in Tails} \ {<< >>}

MCLens == {15, 16, 45, 46}
============================================================================
