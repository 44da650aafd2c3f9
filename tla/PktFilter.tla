----------------------------- MODULE PktFilter -----------------------------
(***************************************************************************)
(* Three programs decide whether an Ethernet frame carries DNS: the cBPF   *)
(* filter of the packet sockets (dns_filter), the eBPF program of the XDP  *)
(* socket (bpf_filter, checked in as machine code compiled from            *)
(* ebpf/filter.c), and insp_process_pkt, which looks for the message that  *)
(* dns_validate is given.  The two filters are run one instruction a step  *)
(* as the kernel would; then insp_process_pkt, one protocol layer a step.  *)
(***************************************************************************)
EXTENDS Integers, Sequences, Bitwise

CONSTANTS
    Arrivals,   \* frames, each with the receive queue it comes in on
    Messages    \* lengths of the messages dns-gen writes

ASSUME MessagesAssumption == Messages \subseteq Nat

VARIABLES
    frame, queue,
    engine,     \* "cbpf", "ebpf", a layer of insp_process_pkt or "done"
    pc,         \* of the filters, counted from 0
    acc, x,     \* cBPF registers
    reg,        \* eBPF registers
    ptr, type,  \* insp_process_pkt: offset into the frame, EtherType
    verdict     \* of each engine; msg: offset and length given to dns_validate

vars == <<frame, queue, engine, pc, acc, x, reg, ptr, type, verdict>>

----------------------------------------------------------------------------
\* The octets of a frame.

ETH_P_IP    == \h0800
ETH_P_IPV6  == \h86dd
IPPROTO_UDP == 17

Hi(w) == w \div 256
Lo(w) == w % 256

\* Two octets of the value w where offset k is that of the first.
Pair(w, k, first) == IF k = first THEN Hi(w) ELSE Lo(w)

L3(f) == 14 + 4 * f.tags
L4(f) == L3(f) + (IF f.type = ETH_P_IPV6 THEN 40 ELSE 4 * f.ihl)

IpOctet(f, o) ==
    IF f.type = ETH_P_IPV6
    THEN CASE o = 0 -> 16 * f.ver [] o = 6 -> f.proto [] OTHER -> 0
    ELSE CASE o = 0          -> 16 * f.ver + f.ihl
           [] o \in {2, 3}   -> Pair(f.tot, o, 2)
           [] o \in {6, 7}   -> Pair(f.frag, o, 6)
           [] o = 8          -> f.ttl
           [] o = 9          -> f.proto
           [] o \in {10, 11} -> Pair(f.check, o, 10)
           [] OTHER          -> 0

Octet(f, k) ==
    LET u == k - L4(f)
    IN  CASE k < 12           -> 0
          [] k \in 12..13 /\ f.tags > 0 -> Pair(IF f.tags = 1 THEN \h8100 ELSE \h88a8, k, 12)
          [] k \in 16..17 /\ f.tags > 1 -> Pair(\h8100, k, 16)
          [] k = L3(f) - 2    -> Hi(f.type)
          [] k = L3(f) - 1    -> Lo(f.type)
          [] k \in L3(f)..(L4(f) - 1) -> IpOctet(f, k - L3(f))
          [] u \in {0, 1}     -> Pair(f.sport, u, 0)
          [] u \in {2, 3}     -> Pair(f.dport, u, 2)
          [] OTHER            -> 0

\* u16_dec, and the other byte order.
Big(f, k)    == 256 * Octet(f, k) + Octet(f, k + 1)
Little(f, k) == Octet(f, k) + 256 * Octet(f, k + 1)

\* ip_checksum of the header, ten words in network order.
IpHdrSum(f) ==
    LET word == [i \in 0..9 |-> Big(f, 14 + 2 * i)]
        sum  == word[0] + word[1] + word[2] + word[3] + word[4]
                + word[5] + word[6] + word[7] + word[8] + word[9]
        once == (sum % 65536) + (sum \div 65536)
    IN  (once % 65536) + (once \div 65536)

----------------------------------------------------------------------------
\* Plausible slips of the code, each substituted for the definition after it.

\* the checksum goes in without htons
GenFrameUnswapped(n) ==
    LET f == [tags |-> 0, type |-> ETH_P_IP, ver |-> 4, ihl |-> 5, tot |-> n + 28,
              frag |-> 0, ttl |-> 255, proto |-> IPPROTO_UDP, check |-> 0,
              sport |-> 53, dport |-> 53, len |-> 42 + n]
        c == 65535 - IpHdrSum(f)
    IN  [f EXCEPT !.check = 256 * Lo(c) + Hi(c)]
----------------------------------------------------------------------------

\* pcap_start_pkt and pcap_end_pkt: the headers in front of n octets.
GenFrame(n) ==
    LET f == [tags |-> 0, type |-> ETH_P_IP, ver |-> 4, ihl |-> 5, tot |-> n + 28,
              frag |-> 0, ttl |-> 255, proto |-> IPPROTO_UDP, check |-> 0,
              sport |-> 53, dport |-> 53, len |-> 42 + n]
    IN  [f EXCEPT !.check = 65535 - IpHdrSum(f)]

Init ==
    /\ \E a \in Arrivals \union {[frame |-> GenFrame(n), queue |-> 0] : n \in Messages} :
          frame = a.frame /\ queue = a.queue
    /\ engine = "cbpf" /\ pc = 0
    /\ acc = 0 /\ x = 0
    /\ reg = [r \in 0..5 |-> 0]
    /\ ptr = 0 /\ type = 0
    /\ verdict = [cbpf |-> 0, ebpf |-> 0, msg |-> << >>]

----------------------------------------------------------------------------
\* cBPF: tcpdump -i any udp port 53 -dd.  Each instruction is <<code, jt, jf, k>>.

dns_filter == <<
    <<\h28,  0,  0, \h0c>>,   <<\h15,  0,  6, \h86dd>>, <<\h30,  0,  0, \h14>>,
    <<\h15,  0, 15, \h11>>,   <<\h28,  0,  0, \h36>>,   <<\h15, 12,  0, \h35>>,
    <<\h28,  0,  0, \h38>>,   <<\h15, 10, 11, \h35>>,   <<\h15,  0, 10, \h800>>,
    <<\h30,  0,  0, \h17>>,   <<\h15,  0,  8, \h11>>,   <<\h28,  0,  0, \h14>>,
    <<\h45,  6,  0, \h1fff>>, <<\hb1,  0,  0, \h0e>>,   <<\h48,  0,  0, \h0e>>,
    <<\h15,  2,  0, \h35>>,   <<\h48,  0,  0, \h10>>,   <<\h15,  0,  1, \h35>>,
    <<\h06,  0,  0, \h40000>>, <<\h06,  0,  0, 0>> >>

----------------------------------------------------------------------------
\* Plausible slips of the code, each substituted for the definition after it.

\* the test for fragments takes in the flags
InsnFlags == IF dns_filter[pc + 1][1] = \h45 THEN <<\h45, 6, 0, \hffff>>
             ELSE dns_filter[pc + 1]
----------------------------------------------------------------------------

Insn == dns_filter[pc + 1]
K    == Insn[4]

\* Control passes to the eBPF program: r1 is the context.
CTX  == \h100000   \* address of the context, and of the frame
DATA == \h10000
EndCbpf(val) ==
    /\ verdict' = [verdict EXCEPT !.cbpf = val]
    /\ engine' = "ebpf" /\ pc' = 0
    /\ reg' = [reg EXCEPT ![1] = CTX]
    /\ UNCHANGED <<acc, x>>

\* A load beyond the frame ends the program with 0.
Load(at, n, val) ==
    IF at + n > frame.len THEN EndCbpf(0)
    ELSE /\ acc' = val /\ pc' = pc + 1
         /\ UNCHANGED <<engine, x, reg, verdict>>

Jump(cond) ==
    /\ pc' = pc + 1 + (IF cond THEN Insn[2] ELSE Insn[3])
    /\ UNCHANGED <<engine, acc, x, reg, verdict>>

CbpfStep ==
    /\ engine = "cbpf"
    /\ \/ Insn[1] = \h28 /\ Load(K, 2, Big(frame, K))           \* ldh [k]
       \/ Insn[1] = \h30 /\ Load(K, 1, Octet(frame, K))         \* ldb [k]
       \/ Insn[1] = \h48 /\ Load(x + K, 2, Big(frame, x + K))   \* ldh [x + k]
       \/ Insn[1] = \h15 /\ Jump(acc = K)                       \* jeq
       \/ Insn[1] = \h45 /\ Jump((acc & K) # 0)                 \* jset
       \/ /\ Insn[1] = \hb1                                     \* ldxb 4*([k]&0xf)
          /\ IF K + 1 > frame.len THEN EndCbpf(0)
             ELSE /\ x' = 4 * (Octet(frame, K) & \h0f) /\ pc' = pc + 1
                  /\ UNCHANGED <<engine, acc, reg, verdict>>
       \/ Insn[1] = \h06 /\ EndCbpf(K)                          \* ret
    /\ UNCHANGED <<frame, queue, ptr, type>>

----------------------------------------------------------------------------
\* eBPF, as checked in.  Each slot is <<code, dst, src, off, imm>>.

bpf_filter == <<
    <<\h61, 3, 1,   4, 0>>,     <<\h61, 0, 1,   0, 0>>,     <<\hbf, 2, 0,   0, 0>>,
    <<\h07, 2, 0,   0, \h0e>>,  <<\had, 3, 2,   6, 0>>,     <<\h71, 5, 0,  13, 0>>,
    <<\h67, 5, 0,   0, 8>>,     <<\h71, 4, 0,  12, 0>>,     <<\h4f, 5, 4,   0, 0>>,
    <<\h16, 5, 0,   3, 8>>,     <<\h16, 5, 0,  30, \hdd86>>, <<\hb7, 0, 0,   0, 1>>,
    <<\h95, 0, 0,   0, 0>>,     <<\hbf, 2, 0,   0, 0>>,     <<\h07, 2, 0,   0, \h22>>,
    <<\had, 3, 2,  -5, 0>>,     <<\h61, 4, 0,  14, 0>>,     <<\h57, 4, 0,   0, \h0f>>,
    <<\hb6, 4, 0,  -8, 4>>,     <<\h67, 4, 0,   0, 2>>,     <<\h07, 4, 0,   0, \h0e>>,
    <<\hbf, 5, 0,   0, 0>>,     <<\h0f, 5, 4,   0, 0>>,     <<\had, 3, 5, -13, 0>>,
    <<\h71, 0, 0,  23, 0>>,     <<\h55, 0, 0, -15, \h11>>,  <<\hbf, 2, 5,   0, 0>>,
    <<\h07, 2, 0,   0, 8>>,     <<\had, 3, 2, -18, 0>>,     <<\h69, 3, 5,   2, 0>>,
    <<\h15, 3, 0,   2, \h3500>>, <<\h69, 5, 5,   0, 0>>,    <<\h55, 5, 0, -22, \h3500>>,
    <<\hb7, 3, 0,   0, 1>>,     <<\h61, 2, 1,  16, 0>>,     <<\h18, 1, 0,   0, 0>>,
    <<0, 0, 0, 0, 0>>,          <<\h85, 0, 0,   0, 51>>,    <<\h67, 0, 0,   0, 32>>,
    <<\hc7, 0, 0,   0, 32>>,    <<\h95, 0, 0,   0, 0>>,     <<\hbf, 5, 0,   0, 0>>,
    <<\h07, 5, 0,   0, \h36>>,  <<\had, 3, 5, -33, 0>>,     <<\h71, 0, 0,  20, 0>>,
    <<\h55, 0, 0, -35, \h11>>,  <<\h05, 0, 0, -21, 0>> >>

MapFd        == 7   \* some descriptor
XDP_DROP     == 1
XDP_REDIRECT == 4

\* setup_xdp puts the socket at queue 0 of a map of one entry.
XskMap == {0}

----------------------------------------------------------------------------
\* Plausible slips of the code, each substituted for the definition after it.

\* every instruction is taken for a lddw
PatchedEvery == [i \in DOMAIN bpf_filter |-> [bpf_filter[i] EXCEPT ![5] = MapFd]]
----------------------------------------------------------------------------

\* bpf_patch_map: lddw loads the map of the descriptor in place of a constant.
Patched == [i \in DOMAIN bpf_filter |->
               IF bpf_filter[i][1] = \h18
               THEN <<\h18, bpf_filter[i][2], 1, bpf_filter[i][4], MapFd>> ELSE bpf_filter[i]]

Slot == Patched[pc + 1]
Code == Slot[1]
Dst  == Slot[2]
Src  == Slot[3]
Off  == Slot[4]
Imm  == Slot[5]

\* The context of the program: data, data_end and rx_queue_index.
CtxField == [off \in {0, 4, 16} |->
                CASE off = 0 -> DATA [] off = 4 -> DATA + frame.len [] off = 16 -> queue]

\* Octets a load takes.
Width == CASE Code = \h71 -> 1 [] Code = \h69 -> 2 [] OTHER -> 4

Loads == Code \in {\h61, \h69, \h71}

\* Little-endian loads, of the context or of the frame.
Loaded ==
    LET at == reg[Src] + Off - DATA
    IN  IF reg[Src] = CTX THEN CtxField[Off]
        ELSE CASE Width = 1 -> Octet(frame, at)
               [] Width = 2 -> Little(frame, at)
               [] OTHER     -> Little(frame, at) + 65536 * Little(frame, at + 2)

\* bpf_redirect_map: the flags are the answer if the queue has no socket.
Redirected ==
    IF reg[1] # MapFd THEN -1
    ELSE IF reg[2] \in XskMap THEN XDP_REDIRECT ELSE reg[3]

\* A shift by 32 and its inverse keep the low half with its sign; in between
\* nothing reads the register.
ShiftedLeft(val, n) == IF n = 32 THEN val ELSE val * 2 ^ n

Set(val) ==
    /\ reg' = [reg EXCEPT ![Dst] = val]
    /\ pc' = pc + (IF Code = \h18 THEN 2 ELSE 1)
    /\ UNCHANGED <<engine, verdict>>

Branch(cond) ==
    /\ pc' = pc + 1 + (IF cond THEN Off ELSE 0)
    /\ UNCHANGED <<engine, reg, verdict>>

EbpfStep ==
    /\ engine = "ebpf"
    /\ \/ Loads /\ Set(Loaded)
       \/ Code = \hbf /\ Set(reg[Src])
       \/ Code \in {\hb7, \h18} /\ Set(Imm)
       \/ Code = \h07 /\ Set(reg[Dst] + Imm)
       \/ Code = \h0f /\ Set(reg[Dst] + reg[Src])
       \/ Code = \h4f /\ Set(reg[Dst] | reg[Src])
       \/ Code = \h57 /\ Set(reg[Dst] & Imm)
       \/ Code = \h67 /\ Set(ShiftedLeft(reg[Dst], Imm))
       \/ Code = \hc7 /\ Set(reg[Dst])
       \/ Code = \h85 /\ Set(Redirected)
       \/ Code = \had /\ Branch(reg[Dst] < reg[Src])
       \/ Code = \hb6 /\ Branch(reg[Dst] <= Imm)
       \/ Code \in {\h15, \h16} /\ Branch(reg[Dst] = Imm)
       \/ Code = \h55 /\ Branch(reg[Dst] # Imm)
       \/ Code = \h05 /\ Branch(TRUE)
       \/ /\ Code = \h95
          /\ verdict' = [verdict EXCEPT !.ebpf = reg[0]]
          /\ engine' = "eth" /\ pc' = 0
          /\ UNCHANGED reg
    /\ UNCHANGED <<frame, queue, acc, x, ptr, type>>

----------------------------------------------------------------------------
\* insp_process_pkt
Inside(n) == ptr + n <= frame.len

is_vlan(t) == t \in {\h8100, \h88a8, \h9100, \h9200, \h9300}

Version  == Octet(frame, ptr) \div 16
Ihl      == Octet(frame, ptr) % 16
Protocol == Octet(frame, ptr + 9)
NextHdr  == Octet(frame, ptr + 6)
IpLen    == 4 * Ihl

\* A layer that is not what it should be: the packet is no DNS and returns 0.
Leave == engine' = "done" /\ UNCHANGED <<ptr, type, verdict>>
Enter(layer, n) == engine' = layer /\ ptr' = ptr + n /\ UNCHANGED verdict

Eth ==
    /\ engine = "eth"
    /\ \/ ~Inside(14) /\ Leave
       \/ Inside(14) /\ type' = Big(frame, 12) /\ Enter("vlan", 14)

Vlan ==
    /\ engine = "vlan"
    /\ \/ is_vlan(type) /\ ~Inside(4) /\ Leave
       \/ is_vlan(type) /\ Inside(4) /\ type' = Big(frame, ptr + 2) /\ Enter("vlan", 4)
       \/ ~is_vlan(type) /\ Enter("ip", 0) /\ UNCHANGED type

Ip ==
    /\ engine = "ip" /\ type = ETH_P_IP
    /\ IF /\ Inside(20) /\ Version = 4 /\ Ihl >= 5 /\ Protocol = IPPROTO_UDP
          /\ Inside(IpLen)
       THEN Enter("udp", IpLen) /\ UNCHANGED type
       ELSE Leave

Ip6 ==
    /\ engine = "ip" /\ type = ETH_P_IPV6
    /\ IF Inside(40) /\ Version = 6 /\ NextHdr = IPPROTO_UDP
       THEN Enter("udp", 40) /\ UNCHANGED type
       ELSE Leave

UnknownType == engine = "ip" /\ type \notin {ETH_P_IP, ETH_P_IPV6} /\ Leave

Udp ==
    /\ engine = "udp"
    /\ \/ /\ Inside(8) /\ (Big(frame, ptr) = 53 \/ Big(frame, ptr + 2) = 53)
          /\ engine' = "done" /\ ptr' = ptr + 8
          /\ verdict' = [verdict EXCEPT !.msg = <<ptr', frame.len - ptr'>>]
          /\ UNCHANGED type
       \/ ~(Inside(8) /\ (Big(frame, ptr) = 53 \/ Big(frame, ptr + 2) = 53)) /\ Leave

InspStep ==
    /\ Eth \/ Vlan \/ Ip \/ Ip6 \/ UnknownType \/ Udp
    /\ UNCHANGED <<frame, queue, pc, acc, x, reg>>

Finished == engine = "done" /\ UNCHANGED vars

Next == CbpfStep \/ EbpfStep \/ InspStep \/ Finished

Spec == Init /\ [][Next]_vars

----------------------------------------------------------------------------
\* Plausible slips of the code, each substituted for the definition after it.

\* the source is changed to look behind the fixed header, the code is not
UdpAtFixed(f) ==
    IF f.len >= 34 /\ Big(f, 12) = ETH_P_IP /\ Octet(f, 23) = IPPROTO_UDP THEN 34
    ELSE IF f.len >= 54 /\ Big(f, 12) = ETH_P_IPV6 /\ Octet(f, 20) = IPPROTO_UDP THEN 54
    ELSE 0
----------------------------------------------------------------------------

\* ebpf/filter.c: where the UDP header is, 0 if there is none, and the answer.
UdpAt(f) ==
    CASE f.len < 14 -> 0
      [] Big(f, 12) = ETH_P_IP ->
            LET ihl == Octet(f, 14) % 16
            IN  IF f.len >= 34 /\ ihl >= 5 /\ 14 + 4 * ihl <= f.len
                   /\ Octet(f, 23) = IPPROTO_UDP
                THEN 14 + 4 * ihl ELSE 0
      [] Big(f, 12) = ETH_P_IPV6 ->
            IF f.len >= 54 /\ Octet(f, 20) = IPPROTO_UDP THEN 54 ELSE 0
      [] OTHER -> 0

dns_insp(f, q) ==
    LET udp == UdpAt(f)
    IN  IF udp # 0 /\ udp + 8 <= f.len /\ (Big(f, udp) = 53 \/ Big(f, udp + 2) = 53)
        THEN IF q \in XskMap THEN XDP_REDIRECT ELSE XDP_DROP
        ELSE XDP_DROP

----------------------------------------------------------------------------
Done  == engine = "done"
Found == verdict.msg # << >>

\* The program checked in as machine code gives for every frame and queue what
\* its source ebpf/filter.c says, which nothing compares when one of them is
\* edited (dns_insp.c:171-219).
EbpfIsSource == Done => verdict.ebpf = dns_insp(frame, queue)

\* Whatever the frame, the program loads no octet outside it and no field the
\* context lacks, and stays within its instructions: what the kernel's verifier
\* asks before it takes the program.
EbpfInBounds ==
    engine = "ebpf" =>
        /\ pc + 1 \in DOMAIN bpf_filter /\ pc # 36
        /\ Loads => IF reg[Src] = CTX THEN Off \in DOMAIN CtxField
                    ELSE /\ reg[Src] + Off >= DATA
                         /\ reg[Src] + Off + Width <= DATA + frame.len

\* The three agree: of frames without VLAN tags a filter passes those
\* insp_process_pkt finds a message in and no other but for the IP version,
\* which the filters leave unchecked; the cBPF filter also turns fragments away
\* and passes headers that are cut or too short.  A tagged frame passes neither.
FiltersAgree ==
    Done =>
        LET passed   == verdict.cbpf > 0
            redirect == verdict.ebpf = XDP_REDIRECT
            version  == frame.ver = IF frame.type = ETH_P_IPV6 THEN 6 ELSE 4
        IN  /\ frame.tags > 0 => ~passed /\ ~redirect
            /\ Found /\ frame.tags = 0 => /\ redirect <=> queue \in XskMap
                                          /\ passed <=> frame.frag % 8192 = 0
            /\ redirect => (Found <=> version)
            /\ passed /\ version /\ frame.ihl >= 5 /\ frame.len >= L4(frame) + 8 => Found

\* A frame whose IP payload reads as UDP from or to port 53, behind any VLAN
\* tags; it holds DNS if that is the start of a datagram and no later fragment.
LooksDns(f) ==
    /\ f.len >= L4(f) + 8 /\ f.proto = IPPROTO_UDP /\ 53 \in {f.sport, f.dport}
    /\ \/ f.type = ETH_P_IP /\ f.ver = 4 /\ f.ihl >= 5
       \/ f.type = ETH_P_IPV6 /\ f.ver = 6
LaterFragment(f) == f.type = ETH_P_IP /\ f.frag % 8192 # 0
HoldsDns(f) == LooksDns(f) /\ ~LaterFragment(f)

\* dns_validate is given the octets behind the UDP header of every frame that
\* holds DNS, whatever tags and options precede it, and of no other but a later
\* fragment whose first octets read as port 53, which is the subject of
\* OnlyDnsInspected; of a frame dns-gen wrote that is exactly its message, which
\* both filters let through, and its IP header carries the right checksum
\* (dns_insp.c:266-322, dns_gen.c:136-211).
MessageFound ==
    Done =>
        /\ HoldsDns(frame) => verdict.msg = <<L4(frame) + 8, frame.len - (L4(frame) + 8)>>
        /\ Found => HoldsDns(frame) \/ (LooksDns(frame) /\ LaterFragment(frame))
        /\ \A n \in Messages :
              frame = GenFrame(n) =>
                  /\ verdict = [cbpf |-> \h40000, ebpf |-> XDP_REDIRECT, msg |-> <<42, n>>]
                  /\ IpHdrSum(frame) = 65535

\* dns_insp.c:265 "locate and validate the DNS payload": dns_validate is given
\* nothing of a frame that is a later fragment of some datagram.
OnlyDnsInspected == Done /\ Found => HoldsDns(frame)
=============================================================================
