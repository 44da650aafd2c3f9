--------------------------- MODULE DnsNameProofs ---------------------------
(***************************************************************************)
(* Proofs about decode_name for every packet, every buffer size, every     *)
(* starting offset and every jump limit.                                   *)
(***************************************************************************)
EXTENDS DnsName, TLAPS

\* The inductive invariant.  While nothing has been jumped the caller's offset
\* is the read position, afterwards it stays behind the first pointer; a null
\* label is only ever the last one read.
NameInv ==
    /\ TypeOK
    /\ LabelsInPacket
    /\ out_len >= 0
    /\ written + out_len = nlen
    /\ start <= offset
    /\ offset <= pkt_len \/ offset = start
    /\ pc = "loop" => len # 0 /\ njmp <= DNS_MAX_JMP + 1
    /\ pc # "done" => rc = 0
    /\ pc = "loop" /\ njmp = 0 => offset = pkt_idx
    /\ njmp > 0 => /\ start + 2 <= offset
                   /\ offset <= pkt_len
                   /\ IsPointer(Octet(offset - 2))
    /\ pc = "end" /\ len = 0 /\ njmp = 0 =>
          /\ start < offset
          /\ offset <= pkt_len
          /\ Octet(offset - 1) = 0
    /\ Succeeded =>
          /\ rc = written
          /\ njmp = 0 => /\ start < offset
                         /\ offset <= pkt_len
                         /\ Octet(offset - 1) = 0

\* An octet of the packet is a number of eight bits (dns_proto.c:362,369).
LEMMA OctetType ==
    ASSUME TypeOK, NEW i \in Nat, i < pkt_len
    PROVE  /\ Octet(i) \in 0..255
           /\ pkt_len \in Nat
  <1>1. pkt \in Seq(Octets) /\ Len(pkt) \in Nat
    BY DEF TypeOK
  <1>2. i + 1 \in 1..Len(pkt)
    BY <1>1 DEF pkt_len
  <1>3. pkt[i + 1] \in Octets
    BY <1>1, <1>2
  <1>4. QED
    BY <1>1, <1>3 DEF pkt_len, Octet, Octets

\* A pointer's two octets give a natural number (dns_proto.c:369).
LEMMA TargetType ==
    ASSUME NEW octet \in 192..255, NEW next \in 0..255
    PROVE  JumpTarget(octet, next) \in Nat
  BY DEF JumpTarget, DNS_COMP_PTR

\* The invariant holds when decode_name is entered.
LEMMA NameInvInit == Init => NameInv
  <1> SUFFICES ASSUME Init PROVE NameInv
    OBVIOUS
  <1>1. /\ pkt \in Seq(Octets) /\ start \in Nat /\ nlen \in Nat
    BY PacketsAssumption, StartsAssumption, NameLensAssumption DEF Init
  <1>2. TypeOK
    BY <1>1, MaxJmpAssumption DEF Init, TypeOK
  <1>3. LabelsInPacket
    BY DEF Init, LabelsInPacket
  <1>4. QED
    BY <1>1, <1>2, <1>3, MaxJmpAssumption DEF Init, NameInv, Succeeded

\* Following a pointer, or refusing to, preserves the invariant.
LEMMA NameInvPointer ==
    ASSUME NameInv, Pointer PROVE NameInv'
  <1> DEFINE octet == Octet(pkt_idx)
             t     == JumpTarget(octet, Octet(pkt_idx + 1))
  <1>1. /\ pkt_idx \in Nat /\ offset \in Nat /\ start \in Nat /\ njmp \in Nat
        /\ pkt_len \in Nat /\ pkt_idx < pkt_len /\ pc = "loop" /\ rc = 0
        /\ octet \in 192..255
    <2>1. /\ pkt_idx \in Nat /\ offset \in Nat /\ start \in Nat /\ njmp \in Nat
          /\ pkt_idx < pkt_len /\ pc = "loop" /\ rc = 0 /\ octet >= 192
      BY DEF NameInv, TypeOK, Pointer, IsPointer, DNS_COMP_PTR
    <2>2. octet \in 0..255 /\ pkt_len \in Nat
      BY <2>1, OctetType DEF NameInv
    <2>3. QED
      BY <2>1, <2>2
  <1>2. pkt_len' = pkt_len /\ LabelsInPacket'
    BY DEF NameInv, Pointer, LabelsInPacket, pkt_len, args, outs
  <1>3. CASE pkt_idx + 1 = pkt_len
    <2>1. /\ pc' = "done" /\ rc' = -2 /\ len' = octet /\ pkt_idx' = pkt_idx + 1
          /\ UNCHANGED <<pkt, start, nlen, out_len, written, labels, dots, njmp, offset>>
      BY <1>3 DEF Pointer, Return, DNS_EBADJMP, args, outs
    <2>2. TypeOK'
      BY <1>1, <2>1, MaxJmpAssumption DEF NameInv, TypeOK
    <2>3. QED
      BY <1>1, <1>2, <2>1, <2>2 DEF NameInv, Succeeded, IsPointer, Octet
  <1>4. CASE pkt_idx + 1 # pkt_len /\ TooManyJumps(njmp)
    <2>1. /\ pc' = "done" /\ rc' = -3 /\ len' = octet /\ pkt_idx' = pkt_idx + 1
          /\ njmp' = njmp + 1
          /\ UNCHANGED <<pkt, start, nlen, out_len, written, labels, dots, offset>>
      BY <1>4 DEF Pointer, Return, JumpCount, DNS_EMAXJMP, args, outs
    <2>2. njmp' \in 0..(DNS_MAX_JMP + 2) /\ njmp > 0
      BY <1>1, <1>4, <2>1, MaxJmpAssumption DEF TooManyJumps, NameInv
    <2>3. TypeOK'
      BY <1>1, <2>1, <2>2, MaxJmpAssumption DEF NameInv, TypeOK
    <2>4. QED
      BY <1>1, <1>2, <2>1, <2>2, <2>3 DEF NameInv, Succeeded, IsPointer, Octet
  <1>5. CASE pkt_idx + 1 # pkt_len /\ ~TooManyJumps(njmp)
    <2>1. /\ njmp' = njmp + 1
          /\ offset' = OffsetAfterJump(njmp + 1)
          /\ len' = t
          /\ UNCHANGED <<pkt, start, nlen, out_len, written, labels, dots>>
          /\ \/ OutOfPacket(t) /\ pc' = "done" /\ rc' = -2 /\ pkt_idx' = pkt_idx + 1
             \/ ~OutOfPacket(t) /\ pkt_idx' = t /\ UNCHANGED <<pc, rc>>
      BY <1>5, SMTT(30) DEF Pointer, Return, JumpCount, DNS_EBADJMP, args, outs
    <2>2. t \in Nat
      <3>1. Octet(pkt_idx + 1) \in 0..255
        BY <1>1, <1>5, OctetType DEF NameInv
      <3>2. QED
        BY <1>1, <3>1, TargetType, Zenon
    <2>3. njmp' \in 1..(DNS_MAX_JMP + 1)
      BY <1>1, <1>5, <2>1, MaxJmpAssumption DEF TooManyJumps
    <2>4. /\ offset' \in Nat /\ start + 2 <= offset' /\ offset' <= pkt_len
          /\ Octet(offset' - 2) >= 192
      <3>1. CASE njmp = 0
        <4>1. offset = pkt_idx /\ offset' = pkt_idx + 2
          BY <1>1, <2>1, <3>1 DEF NameInv, OffsetAfterJump
        <4>2. offset' - 2 = pkt_idx
          BY <4>1, <1>1
        <4>3. QED
          BY <1>1, <1>5, <4>1, <4>2 DEF NameInv
      <3>2. CASE njmp # 0
        <4>1. offset' = offset /\ njmp > 0
          BY <1>1, <2>1, <3>2 DEF OffsetAfterJump
        <4>2. QED
          BY <1>1, <4>1 DEF NameInv, IsPointer, DNS_COMP_PTR
      <3>3. QED
        BY <3>1, <3>2
    <2>5. TypeOK' /\ pkt_idx' \in Nat
      BY <1>1, <2>1, <2>2, <2>3, <2>4, MaxJmpAssumption, SMTT(30) DEF NameInv, TypeOK
    <2>6. pc' = "loop" => t # 0
      BY <2>1, <2>2, <1>1 DEF OutOfPacket, DNS_HDR_LEN
    <2>7. /\ pc' \in {"loop", "done"} /\ rc' <= 0
          /\ pc' # "done" => rc' = 0
      BY <1>1, <2>1
    <2>8. IsPointer(Octet(offset - 2))'
      BY <2>1, <2>4 DEF IsPointer, Octet, DNS_COMP_PTR
    <2>9. QED
      BY <1>1, <1>2, <2>1, <2>3, <2>4, <2>5, <2>6, <2>7, <2>8
         DEF NameInv, Succeeded
  <1>6. QED
    BY <1>3, <1>4, <1>5

\* Copying a label, refusing one, or meeting the null preserves the invariant.
LEMMA NameInvLabel ==
    ASSUME NameInv, Label PROVE NameInv'
  <1> DEFINE n    == Octet(pkt_idx)
             next == pkt_idx + 1 + n
             out  == out_len - n
             dot  == DotFollows(next)
  <1>1. /\ pkt_idx \in Nat /\ offset \in Nat /\ start \in Nat /\ njmp \in Nat
        /\ nlen \in Nat /\ written \in Nat /\ out_len \in Nat
        /\ pkt_len \in Nat /\ pkt_idx < pkt_len /\ pc = "loop" /\ rc = 0
        /\ n \in 0..255
    BY OctetType DEF NameInv, TypeOK, Label, Octet
  <1>2. /\ len' = n /\ UNCHANGED <<pkt, start, nlen, njmp>>
        /\ pkt_len' = pkt_len /\ ~IsPointer(n)
    BY DEF Label, args, pkt_len
  <1>3. CASE OverrunsPacket(n) \/ ~(n <= out_len)
    <2>1. /\ pc' = "done" /\ rc' \in {-4, -5} /\ pkt_idx' = pkt_idx + 1
          /\ UNCHANGED <<offset, out_len, written, labels, dots>>
      BY <1>3 DEF Label, Return, outs, DNS_ENAMELEN, DNS_EOUTLEN
    <2>2. TypeOK'
      BY <1>1, <1>2, <2>1 DEF NameInv, TypeOK
    <2>3. LabelsInPacket'
      BY <1>2, <2>1 DEF NameInv, LabelsInPacket
    <2>4. QED
      BY <1>1, <1>2, <2>1, <2>2, <2>3 DEF NameInv, Succeeded, IsPointer, Octet
  <1>4. CASE ~OverrunsPacket(n) /\ n <= out_len
    <2>1. next <= pkt_len /\ next \in Nat
      BY <1>1, <1>4 DEF OverrunsPacket
    <2>2. /\ offset' = OffsetAfterLabel(n) /\ pkt_idx' = next
      <3>1. ~(n > out_len)
        BY <1>1, <1>4
      <3>2. QED
        BY <1>4, <3>1 DEF Label
    <2>3. /\ offset' \in Nat /\ start <= offset'
          /\ offset' <= pkt_len \/ offset' = start
          /\ njmp = 0 => offset' = next /\ start < offset'
          /\ njmp > 0 => offset' = offset
      BY <1>1, <2>1, <2>2 DEF NameInv, OffsetAfterLabel
    <2>4. njmp > 0 => /\ start + 2 <= offset'
                      /\ offset' <= pkt_len
                      /\ IsPointer(Octet(offset - 2))'
      BY <1>1, <1>2, <2>3 DEF NameInv, IsPointer, Octet
    <2>5. CASE n = 0
      <3>1. pc' = "end" /\ UNCHANGED <<out_len, written, labels, dots, rc>>
        BY <1>1, <1>4, <2>5 DEF Label, outs
      <3>2. TypeOK'
        <4>1. TypeOK /\ len' \in Int
          BY <1>1, <1>2 DEF NameInv
        <4>2. QED
          BY <1>2, <2>1, <2>2, <2>3, <3>1, <4>1, MaxJmpAssumption DEF TypeOK
      <3>3. LabelsInPacket'
        BY <1>2, <3>1 DEF NameInv, LabelsInPacket
      <3>4. njmp = 0 => Octet(offset - 1)' = 0
        <4>1. SUFFICES ASSUME njmp = 0 PROVE Octet(offset - 1)' = 0
          OBVIOUS
        <4>2. offset' - 1 = pkt_idx
          BY <1>1, <2>3, <2>5, <4>1
        <4>3. QED
          BY <1>2, <2>5, <4>2 DEF Octet
      <3>5. QED
        BY <1>1, <1>2, <2>1, <2>3, <2>4, <3>1, <3>2, <3>3, <3>4
           DEF NameInv, Succeeded
    <2>6. CASE n > 0
      <3>1. /\ labels' = Append(labels, [at |-> pkt_idx + 1, n |-> n])
            /\ \/ /\ out = 0 /\ pc' = "done" /\ rc' = -5
                  /\ out_len' = out /\ written' = written + n /\ dots' = dots
               \/ /\ out # 0 /\ pc' = pc /\ rc' = rc
                  /\ out_len' = (IF dot THEN out - 1 ELSE out)
                  /\ written' = written + n + (IF dot THEN 1 ELSE 0)
                  /\ dots' = IF dot THEN dots \union {Len(labels) + 1} ELSE dots
        <4>1. ~(n > out_len) /\ n # 0
          BY <1>1, <1>4, <2>6
        <4>2. QED
          BY <1>4, <4>1 DEF Label, Return, NoRoom, DNS_EOUTLEN
      <3>2. out \in Nat /\ out = out_len - n
        BY <1>1, <1>4
      <3>3. /\ out_len' \in Nat /\ written' \in Nat /\ written' + out_len' = nlen
        <4>1. \/ out_len' = out /\ written' = written + n
              \/ out # 0 /\ out_len' = out - 1 /\ written' = written + n + 1
          <5>1. CASE dot
            BY <3>1, <5>1
          <5>2. CASE ~dot
            <6>1. written + n + 0 = written + n
              BY <1>1
            <6>2. QED
              BY <3>1, <5>2, <6>1
          <5>3. QED
            BY <5>1, <5>2
        <4>2. QED
          BY <1>1, <3>2, <4>1 DEF NameInv
      <3>4. [at |-> pkt_idx + 1, n |-> n] \in [at : Nat, n : Nat]
        BY <1>1
      <3>5. labels' \in Seq([at : Nat, n : Nat]) /\ Len(labels) \in Nat
        BY <3>1, <3>4 DEF NameInv, TypeOK
      <3>6. dots' \subseteq Nat
        <4>1. dots \subseteq Nat /\ Len(labels) + 1 \in Nat
          BY <3>5 DEF NameInv, TypeOK
        <4>2. dots' = dots \/ dots' = dots \union {Len(labels) + 1}
          BY <3>1
        <4>3. QED
          BY <4>1, <4>2
      <3>7. TypeOK'
        <4>1. TypeOK /\ len' \in Int /\ pkt_idx' \in Nat
          BY <1>1, <1>2, <2>1, <2>2 DEF NameInv
        <4>2. pc' \in {"loop", "done"} /\ rc' \in Int
          <5>1. (pc' = "done" /\ rc' = -5) \/ (pc' = pc /\ rc' = rc)
            BY <3>1
          <5>2. QED
            BY <1>1, <5>1
        <4>3. QED
          BY <1>2, <2>3, <3>3, <3>5, <3>6, <4>1, <4>2, MaxJmpAssumption, SMTT(30) DEF TypeOK
      <3>8. LabelsInPacket'
        <4> SUFFICES ASSUME NEW i \in 1..Len(labels')
                     PROVE  labels'[i].at + labels'[i].n <= pkt_len
          BY <1>2 DEF LabelsInPacket
        <4>1. labels \in Seq([at : Nat, n : Nat])
          BY DEF NameInv, TypeOK
        <4>2. CASE i \in 1..Len(labels)
          <5>1. labels'[i] = labels[i]
            BY <3>1, <4>1, <4>2, <3>4
          <5>2. QED
            BY <4>2, <5>1 DEF NameInv, LabelsInPacket
        <4>3. CASE i = Len(labels) + 1
          <5>1. labels'[i] = [at |-> pkt_idx + 1, n |-> n]
            BY <3>1, <4>1, <4>3, <3>4
          <5>2. QED
            BY <1>1, <2>1, <5>1
        <4>4. QED
          BY <3>1, <3>4, <4>1, <4>2, <4>3
      <3>9. pc' \in {"loop", "done"} /\ rc' <= 0 /\ (pc' # "done" => rc' = 0)
        BY <1>1, <3>1
      <3>10. /\ ~Succeeded' /\ pc' # "end"
             /\ pc' = "loop" => len' # 0 /\ njmp' <= DNS_MAX_JMP + 1
             /\ pc' = "loop" /\ njmp' = 0 => offset' = pkt_idx'
        <4>1. rc' \in Int
          BY <3>7 DEF TypeOK
        <4>2. QED
          BY <1>1, <1>2, <2>2, <2>3, <2>6, <3>9, <4>1 DEF NameInv, Succeeded
      <3>11. QED
        BY <1>2, <2>3, <2>4, <3>3, <3>7, <3>8, <3>9, <3>10 DEF NameInv
    <2>7. QED
      BY <1>1, <2>5, <2>6
  <1>5. QED
    BY <1>1, <1>3, <1>4

\* Leaving the loop at the packet's end preserves the invariant.
LEMMA NameInvPacketEnd ==
    ASSUME NameInv, PacketEnd PROVE NameInv'
  <1>1. /\ UNCHANGED <<pkt, start, nlen, offset, pkt_idx, out_len, written,
                       labels, dots, njmp, len, rc>>
        /\ pc = "loop" /\ pc' = "end" /\ pkt_len' = pkt_len
    BY DEF PacketEnd, args, outs, pkt_len
  <1>2. TypeOK' /\ LabelsInPacket'
    BY <1>1 DEF NameInv, TypeOK, LabelsInPacket
  <1>3. QED
    BY <1>1, <1>2 DEF NameInv, Succeeded, IsPointer, Octet

\* Null-terminating the text, or refusing to, preserves the invariant.
LEMMA NameInvTerminate ==
    ASSUME NameInv, Terminate PROVE NameInv'
  <1>1. /\ UNCHANGED <<pkt, start, nlen, offset, pkt_idx, labels, dots, njmp, len>>
        /\ pc = "end" /\ pc' = "done" /\ pkt_len' = pkt_len /\ rc = 0
        /\ out_len \in Nat /\ written \in Nat /\ nlen \in Nat
        /\ written + out_len = nlen
    BY DEF Terminate, Return, args, outs, pkt_len, NameInv, TypeOK
  <1>2. \/ /\ rc' \in {-5, -6} /\ UNCHANGED <<out_len, written>>
        \/ /\ len = 0 /\ out_len # 0
           /\ written' = written + 1 /\ out_len' = out_len - 1
           /\ rc' = nlen - out_len'
    BY DEF Terminate, Return, outs, NoRoom, DNS_ENONULL, DNS_EOUTLEN
  <1>3. /\ out_len' \in Nat /\ written' \in Nat /\ rc' \in Int
        /\ written' + out_len' = nlen
        /\ rc' > 0 => rc' = written' /\ len = 0
    BY <1>1, <1>2
  <1>4. TypeOK' /\ LabelsInPacket'
    BY <1>1, <1>3 DEF NameInv, TypeOK, LabelsInPacket
  <1>5. /\ Octet(offset - 2)' = Octet(offset - 2)
        /\ Octet(offset - 1)' = Octet(offset - 1)
    BY <1>1 DEF Octet
  <1>6. Succeeded' => rc' = written' /\ len = 0
    BY <1>3 DEF Succeeded
  <1>7. out_len' >= 0 /\ written' + out_len' = nlen'
    <2>1. nlen' = nlen
      BY <1>1
    <2>2. out_len' >= 0
      BY <1>3
    <2>3. QED
      BY <1>3, <2>1, <2>2
  <1>8. njmp > 0 => /\ start + 2 <= offset'
                    /\ offset' <= pkt_len
                    /\ IsPointer(Octet(offset - 2))'
    BY <1>1, <1>5 DEF NameInv, IsPointer
  <1>9. Succeeded' /\ njmp = 0 => /\ start < offset'
                                  /\ offset' <= pkt_len
                                  /\ Octet(offset - 1)' = 0
    BY <1>1, <1>5, <1>6 DEF NameInv
  <1>10. /\ start' <= offset'
         /\ offset' <= pkt_len' \/ offset' = start'
    BY <1>1 DEF NameInv
  <1>11. QED
    BY <1>1, <1>4, <1>6, <1>7, <1>8, <1>9, <1>10 DEF NameInv

\* Every reachable state satisfies the inductive invariant.
THEOREM NameInvariant == Spec => []NameInv
  <1>1. NameInv /\ [Next]_vars => NameInv'
    <2> SUFFICES ASSUME NameInv, [Next]_vars PROVE NameInv'
      OBVIOUS
    <2>1. CASE UNCHANGED vars
      BY <2>1 DEF vars, NameInv, TypeOK, LabelsInPacket, Succeeded, IsPointer,
                  Octet, pkt_len
    <2>2. QED
      BY <2>1, NameInvPointer, NameInvLabel, NameInvPacketEnd, NameInvTerminate
         DEF Next
  <1>2. QED
    BY NameInvInit, <1>1, PTL DEF Spec

\* decode_name never copies from outside the packet (dns_proto.c:384-402), and a
\* success leaves the caller's offset right behind the name inside the packet
\* (dns_proto.c:367, 380).
THEOREM NameSafety == Spec => [](LabelsInPacket /\ OffsetEndsName)
  <1>1. NameInv => LabelsInPacket /\ OffsetEndsName
    BY DEF NameInv, OffsetEndsName, Succeeded, TypeOK
  <1>2. QED
    BY NameInvariant, <1>1, PTL

\* It never stores more than the caller's buffer holds, nor reports another
\* number than it stored (dns_proto.c:379-413).
THEOREM NameFits == Spec => []OutputFits
  <1>1. NameInv => OutputFits
    BY DEF NameInv, OutputFits
  <1>2. QED
    BY NameInvariant, <1>1, PTL

\* Whatever decode_name returns, the offset it leaves keeps the contract that
\* stands for decode_name in the record decoder (dns_proto.c:354-414).
THEOREM NameContract == Spec => []KeepsContract
  <1>1. NameInv => KeepsContract
    <2> SUFFICES ASSUME NameInv, pc = "done"
                 PROVE  NameResult(pkt_len, start, offset, rc > 0)
      BY DEF KeepsContract
    <2>1. CASE rc > 0
      BY <2>1 DEF NameInv, TypeOK, Succeeded, NameResult
    <2>2. CASE ~(rc > 0)
      BY <2>2 DEF NameInv, NameResult
    <2>3. QED
      BY <2>1, <2>2
  <1>2. QED
    BY NameInvariant, <1>1, PTL

\* Every iteration follows a pointer, moves forward or leaves the loop; as the
\* jump counter is bounded (TypeOK) no packet keeps the loop running.
THEOREM NameProgress == Spec => Progress
  <1>1. NameInv /\ [Next]_vars =>
          [\/ njmp' = njmp + 1
           \/ njmp' = njmp /\ pkt_idx' > pkt_idx
           \/ pc' # pc]_vars
    <2> SUFFICES ASSUME NameInv, Next
                 PROVE  \/ njmp' = njmp + 1
                        \/ njmp' = njmp /\ pkt_idx' > pkt_idx
                        \/ pc' # pc
      BY DEF vars
    <2>1. CASE Pointer
      BY <2>1 DEF Pointer, Return, JumpCount
    <2>2. CASE Label
      <3>1. pkt_idx \in Nat /\ Octet(pkt_idx) \in 0..255 /\ pc = "loop"
        BY <2>2, OctetType, Zenon DEF NameInv, TypeOK, Label
      <3>2. QED
        <4>1. \/ pc' # pc
              \/ njmp' = njmp /\ pkt_idx' = pkt_idx + 1 + Octet(pkt_idx)
          BY <2>2, <3>1 DEF Label, Return
        <4>2. QED
          BY <3>1, <4>1
    <2>3. CASE PacketEnd
      BY <2>3 DEF PacketEnd
    <2>4. CASE Terminate
      BY <2>4 DEF Terminate, Return
    <2>5. QED
      BY <2>1, <2>2, <2>3, <2>4 DEF Next
  <1>2. QED
    BY NameInvariant, <1>1, PTL DEF Spec, Progress
============================================================================
