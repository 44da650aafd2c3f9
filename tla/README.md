# A TLA+ model of c-dns-pkt

This directory models the programs of the repository, `dns-insp` (inspects DNS
traffic) and `dns-gen` (generates it), and the libraries they share. TLC checks
the modules on small instances; TLAPS proves the main results about the three
decoders, the three captures and the two programs for every value of the
constants. `PROJECT.json` holds the same information for tools: which
definition models which lines, which run checks what, and the hazards behind
the properties.

To check: `tlc -config X.cfg M` with the pairs of the table of runs, and
`tlapm M.tla` for the eight modules whose names end in `Proofs`. `CaptureProofs`
takes a quarter of an hour, `XdpRingProofs` and `MmapRingProofs` up to ten
minutes, the others less. A leaf names its prover, or allows it more time, where
the default would be slow.

## 1. The system

| part | source | state | operations that change it |
|---|---|---|---|
| Name decoder | `dns_proto.c` `decode_name` | packet cursor, caller's offset, output left, jumps | one loop iteration: pointer, label, end |
| Record decoder | `dns_rr_decode`, `fix_label`, `msg_store_*` | offset, `rd_end`, name store, slots | slot, name, fields, data per type, end check |
| Message decoder | `decode_msg`, `dns_validate`, `dns_msg_decode`, `dns_dec_err` | error stack, sections, description buffer | header, row, section end, size check, return |
| Builder | `dns_add_qdn`, `dns_add_rr`, `dns_msg_reset` | sections' slots and counts, name store | add a question, add a record, reset |
| Encoder | `dns_msg_encode`, `encode_name`, `dns_rr_encode` | output, reserved space, suffix table | header, label or pointer, fields, data per type, end of a record |
| Capture files | `pcap.c` | stream, format, byte order, `have_idb`, `sys_err` | open, read, write, close |
| Raw capture | `dns_insp.c` `setup_raw`, `capture_raw` | socket, message batch, file, `sig.run` | set-up steps, recvmmsg, write, inspect |
| Mapped capture | `setup_mmap`, `capture_mmap` | ring of blocks, `bd_ptr` | poll, inspect, release, advance |
| XDP capture | `capture_xdp`, `xsk_ring_fill` | fill and rx ring, umem | poll, inspect and refill, submit |
| XDP set-up | `xdp_mirror_init`, `setup_xdp`, `insp_free` | veth pair, qdisc, eBPF program, descriptors | each command and call, clean-up |
| Inspection, filters | `insp_process_pkt`, `dns_filter`, `bpf_filter`, `ebpf/filter.c` | cursor, registers | one header or one instruction |
| `dns-insp` | `insp_parse_argv`, `insp_init`, `run_*`, `insp_free`, `main` | options, exit code, all of the above | each option, stage and clean-up |
| `dns-gen` | `dns_gen.c` | options, packet buffer, connection, file | each option, connect, encode, write, read, check |
| Signals, commands | `util.c` | `sig.run`, child processes | signal, run_cmd |
| Addresses | `str_util.c`, `dns_rr_tostr`, `dns_rr_decode`, `ipstr_decode` | cursors of `ip6_str_decode` | show, describe; one character, last segment, end |
| Strings, log | `str_util.h`, `log.c` | none | not modelled |

How they interact: `dns-insp` takes frames by one of three captures, writes
them to a capture file (raw capture only), finds DNS in them and hands it to
`dns_validate`; or it reads frames from a capture file. `dns-gen` builds and
encodes a message, sends it or puts headers in front of it and writes it to a
file, and decodes the answer. The modules are composed along these lines:
`Capture` selects one of the three captures over the state they share,
`PcapTools` reads with `dns-insp` what `pcap.c` and `dns-gen` wrote, `DnsEncode`
encodes what `DnsBuild` built, and `PktFilter` hands the frame `dns-gen` makes
to the filters and the inspection.

What makes it hard: the kernel works on the shared rings while the program
does; signals arrive between a test and the call it guards; set-up changes the
machine and may be killed half-way; capture files are cut; lengths in packets
are 8- and 16-bit numbers chosen by others; errors of the decoder are pushed on
a bounded stack and decoding goes on; answers are late, foreign, short or
missing. The list of hazards, each at its line, is in `PROJECT.json`.

## 2. Modules

| module | models | notes |
|---|---|---|
| `DnsContracts` | what `decode_name` promises about the offset | shown of `DnsName`, assumed by `DnsRecord` |
| `DnsName`, `MCDnsName` | `decode_name` on octets | one step is one iteration of the loop; the text is kept as the labels copied, the dots and a byte count |
| `DnsNameProofs` | proofs | |
| `DnsRecord`, `MCDnsRecord` | `dns_rr_decode` | what the octets say is chosen freely; names by their contract; `rd_end` wraps at `U16` |
| `DnsRecordProofs` | proofs | |
| `DnsDecode`, `MCDnsDecode` | `decode_msg` and its two callers | elements are well formed or not; behind a bad one the decoder is out of step and anything may be found; the store may refuse any text, and `refused` records where that leaves the offset |
| `DnsDecodeProofs` | proofs | |
| `PcapLayout` | blocks, lengths, padding, what is on disk | shared by writer and reader |
| `PcapWriter` | pcap.c writing | an action is one fwrite, which may fail after any number of bytes; a kill or a failing fclose loses any tail |
| `PcapReader` | pcap.c reading | an action is one block or record; a block in the wrong byte order reads as an unknown one of enormous length, a type for local use (top bit set) as a negative number |
| `PcapTools`, `MCPcapTools` | `dns-gen` or `pcap.c` writing a file, `dns-insp` reading it | composes writer and reader by INSTANCE with `gen_pcap_file`, `run_readpcap` and `run_tracepcap` |
| `DnsBuild` | the message builder | texts are sequences of labels with their lengths; slots keep what an earlier use left |
| `DnsEncode`, `MCDnsEncode` | `dns_msg_encode` on octets | one step is one label, pointer or field; `top` records the end of all that was ever written |
| `PktFilter`, `MCPktFilter` | both filters, `ebpf/filter.c`, `insp_process_pkt`, and the headers of `pcap_end_pkt` | frames are records of fields with a length, read octet by octet; the checked-in programs run instruction by instruction |
| `PacketFifo` | abstract: what a capture promises | accepted frames are inspected once each, in order |
| `CaptureBase` | frames and the bounds of the captures | extended by the four modules below |
| `RawCapture` | raw capture with its socket and file | an action is one system call or one frame |
| `MmapRing` | mapped capture and the TPACKET_V3 ring | with every step of `setup_mmap` |
| `MmapRingProofs` | proofs | |
| `XdpRing` | XDP capture and the AF_XDP rings | starts with what `setup_xdp` leaves |
| `XdpRingProofs` | proofs | |
| `Capture` | `run_capture` | composes the three; implements `PacketFifo` |
| `CaptureProofs` | proofs | about `RawCapture` and the composition |
| `DnsInsp` | `dns-insp` from `main` to exit over several starts | options, set-up of all three captures, clean-up; the machine's state outlives the process |
| `DnsInspProofs` | proofs | |
| `DnsGen` | `dns-gen` from `main` to exit | options; query, response and fuzz mode; UDP and TCP, with the network |
| `DnsGenProofs` | proofs | |
| `InetStr`, `MCInetStr` | address texts | the decoders character by character, the encoders as operators |

Variables and operators carry the names of the C code where there is one;
`pc` is where the code is. Actions named `Kernel...`, `Arrive`, `Datagram`,
`Answer`, `Segment`, `Closes`, `Crash` and `OrphanRuns` are the kernel, the network, the
server and the machine, modelled from how the code uses them. The section
"Plausible slips" of a module holds wrong variants of the definitions after it:
with any of them in place of the right one TLC refutes the property that
`PROJECT.json` names, so each property is known to depend on the code.

## 3. Runs

Ten runs pass:

| run | module | bounds | shows |
|---|---|---|---|
| `DnsName` | `MCDnsName` | every body of up to 5 octets over 7 octet values behind a header; pointer chains of 16, 17, 18; 5 starts; buffers of 1, 3, 5; the code's limit of 16 | Whatever is accepted is the name the octets stand for, compared with a recursive definition, and no name is refused that fits and takes at most 16 pointers (`DecodesMeaning`); labels come from inside the packet; the buffer is never overrun; the offset handed back keeps the contract; every call returns. |
| `DnsRecord` | `MCDnsRecord` | 16-bit numbers scaled to 64 values; packets of 28 and 46; lengths around each fixed size and lengths that wrap; store of 8 bytes, 1 slot, 2 strings | An accepted record is consumed exactly, except OPT; reads stay inside the packet when the end does not wrap; the store and the slots are respected; the offset never moves back, except by an OPT whose end wraps. |
| `DnsDecode` | `MCDnsDecode` | up to 4 elements, up to 2+2+1+1 counted; queries and responses with each code in or out of range; stack of 4, 5 lines, 2 slots, any text refused by the store | `dns_validate` returns 0 for exactly the messages that can be described, are well formed and pass the tests of the header that push errors (opcode of a query, rcode of a response); loading keeps order, takes nothing read out of step and succeeds, unless a refused text leaves the offset inside its record. |
| `DnsEncode` | `MCDnsEncode` | one question, up to 3 calls on the answer and additional sections, 2 slots each, 2 strings; names of up to 6 characters that share suffixes in either case; store of 18; buffers of 56 and 110; 3 suffixes | The message holds the records whose calls succeeded, in order, also after failures half-way and a reset; a packet that was encoded reads back as the message; each suffix of the table is spelled at its offset at every moment; writes stay in reserved space. |
| `PcapTools` | `MCPcapTools` | two writes, packets of 4, 5 and 9 bytes, buffer of 8; both formats and packet blocks; failure or kill at any byte; and files of other tools: up to three blocks after the first header, two sections of different byte order, every cut, blocks for local use, blocks that contradict themselves, a bad byte-order magic, files of neither format | Only the last block can be torn; the reader returns what is on disk, in order and, up to a block for local use and a device error, all of it; if there is no device error `readpcap` returns 0 only if all of that was inspected and none refused; a file that `dns-gen` reports as written holds the message. |
| `PktFilter` | `MCPktFilter` | 0 to 2 VLAN tags; every field that is tested right or wrong; frames cut at each length that is tested; messages of 0, 1, 12 and 1000 octets; both queues | The checked-in eBPF program does what `ebpf/filter.c` says and loads only octets of the frame; filters and inspection agree on untagged frames, and tagged frames pass no filter; the message is found behind any tags and options, in no frame that does not look like UDP port 53, and `dns-gen`'s frame passes everywhere with the right checksum. |
| `Capture` | `Capture` | raw: 4 frames, queue of 3, batches of 2; mapped: 3 blocks of 2 frames; XDP: rings of 4 entries, indices of 8 values, so that they wrap twice as often as the ring | One owner per chunk; the unchecked fill ring has room; program and kernel follow each other round the blocks; the file agrees with what is inspected; only frames from before the filter are strays; every capture implements `PacketFifo`; frames that wait are consumed. |
| `DnsInsp` | `DnsInsp` | two starts, options in any order, any step failing, interrupted or killed | What runs has its file, socket, memory and mirrors; an undisturbed process exits with nothing left, or the machine as it met it. |
| `DnsGen` | `DnsGen` | query of 6 octets, answers of 3, 6, 9, buffer of 8, two messages | An answer is shown only if it has the id, is a response and no error, once four octets of it were read; the exit code is 0 exactly if an answer was shown or the file written; with a timeout, or a file, the program ends. |
| `InetStr` | `MCInetStr` | 256 IPv4 addresses; every pattern of zero and other words of an IPv6 address, in front also 2001 and 9999, with IPv4 tails; texts of up to 9 segments with 11 endings; buffers around the lengths that are tested | Decoding never writes outside the 16 octets; every standard text that does not start with four decimal digits decodes to its address; `dns_rr_tostr` writes an address in the form of RFC 5952. |

Why the bounds are enough: each is at least one more than the case at stake
needs (a ring that is full, empty and wrapped; a batch that leaves a rest; a
stack, store, table or buffer that fills in the middle; a block behind a torn
one; a second start behind a killed one; a ninth segment). Scaled widths keep
their relations: `U32` is a multiple of the ring size, `U16` exceeds every fixed
length of the record types, the longest name that is stored fits the space that
is reserved for it. Deadlock is checked where the model never stops
(`PktFilter`); the other programs end. Each module but those on octets defines a
`TypeOK`; the runs check it where a property includes it (`TornOnlyLast`,
`ReadsInOrder`), and it can be added to any of the configurations.

Two runs are expected to fail; they show where the code departs from what the
repository says:

| run | property | what TLC finds |
|---|---|---|
| `DnsDecodeLoad` | `LoadsAll` | `dns_msg_decode` returns 0 after loading one of two answers, with slots for both and no text refused: `dns_rr_decode` returns a positive value (`dns_proto.c:1012`) and `dns_sect_decode` ends the section on anything but 0 (`dns_proto.c:1071`), while `dns_proto.h:45` shows how to "iterate over answers". |
| `RawCaptureSignal` | `SignalStops` | A signal between the test of `sig.run` and `recvmmsg` (`dns_insp.c:402-404`) leaves the program waiting for a frame, while `README.md:130` shows an interrupt ending it. |

### Fairness

- `DnsName`: the loop is sequential code, so weak fairness of the next step.
- `Capture`: weak fairness of the program's steps (it runs when it is not
  blocked), and of what the kernel owes it: for the mapped ring the retirement
  of blocks, which the ring's timer does, and thawing; for XDP the publishing at
  the end of a batch. Frames and signals need never come, and an error of poll
  or recvmmsg need never happen.
- `DnsGen`: weak fairness of the program, whose reads end when a timeout was
  set. Nothing is assumed of the network or the server.

### Statements that do not hold

These definitions state what a comment, a message or the README says. They are
kept with the modules and are not among the runs; as an INVARIANT in place of
those of the module's configuration (`PcapTools.cfg` and `R!...` for
`PcapReader`, `RawCaptureSignal.cfg` for `RawCapture`) TLC refutes each of them.

| module | statement | source | what happens |
|---|---|---|---|
| `MCDnsName` | `JumpLimit` | `dns_proto.h:114` | a name is decoded over 17 pointers, where 16 is the "max number of compression pointer jmps": the count is tested before it is incremented (`dns_proto.c:366`) |
| `DnsDecode` | `OpcodeChecked` | `dns_proto.c:1161` | `dns_validate` accepts a response whose opcode is out of range: under "validate OPCODE range" only a text is added, and no error pushed as for a query |
| `DnsRecord` | `TruncationReported` | `dns_proto.c:83` | an OPT record whose end wraps in 16 bits is accepted although its data reaches past the packet |
| `DnsRecord` | `LoadedNamesStored` | `dns_proto.c:754` | an SOA record is loaded with a NULL `rname`: the test looks at `mname` |
| `PcapReader` | `ExactLength` | `pcap.h:19` | a simple packet block comes back with its padding |
| `PcapReader` | `OnlyPackets` | `pcap.c:734` | the secrets of a DSB come back as a packet |
| `PcapReader` | `SectionHasIdb` | `pcap.c:543` | `have_idb` of an earlier section serves a later one without IDB |
| `PcapTools` | `StopsAtEnd` | `pcap.c:750` | a pcapng block of a type for local use ends the reading like "eof or error": `pcap_peek_block` returns the 32-bit type as an int (`pcap.c:731`), and the packets behind it are lost |
| `PcapTools` | `AllInspected` | `README.md:135` | `readpcap` ends at the first message that is refused |
| `PcapTools` | `AckedWritten` | `pcap.h:28` | a failed write of packet data returns 0 in pcapng files (`pcap.c:523,621`) |
| `PktFilter` | `OnlyDnsInspected` | `dns_insp.c:265` | a later IPv4 fragment whose first octets read as port 53 is validated as a message: the fragment offset is not tested (`dns_insp.c:287`) |
| `RawCapture` | `OnlyDnsWritten` | `README.md:93` | frames queued before the filter is attached are written |
| `RawCapture` | `OnlyThisDevice` | `README.md:60` | frames queued before bind are inspected |
| `DnsInsp` | `AttachedWhenActive` | `dns_insp.c:942` | the kernel's answer to the attach request is not read |
| `DnsGen` | `FailureTold` | `dns_gen.c:243-248` | `errno = EINTR` is an assignment, so no read error is reported |
| `DnsGen` | `AnswerWhole` | `dns_gen.c:237` | one read of a TCP message that arrives in pieces is taken for all of it |
| `DnsGen` | `RecordsNamed` | `dns_gen.c:902` | `--answer` in front of `--name` adds a record with an empty name |
| `InetStr` | `DescribedAsShown` | `README.md:126` | `dns-insp` describes an AAAA record by its first four octets in dots (`dns_proto.c:901`), as the expected outputs of the tests record (`tests/expect/dns.pcap.readpcap:14`) |
| `InetStr` | `Ip6Recognised` | `str_util.c:56` | a text like the example there, "2001:db8::7", becomes an A record: `ip4_str_decode` returns -1 at the fourth digit (`str_util.c:31`), which `ipstr_decode` takes for success (`dns_gen.c:761`) |
| `InetStr` | `EmbeddedDecoded` | `str_util.c:191` | an IPv6 text that ends in an IPv4 address is not read back as the address |
| `InetStr` | `NamesStayNames` | `dns_gen.c:768` | a host name may be taken for an IPv4 address |

Besides, the following is as modelled:

- `decode_name` enforces neither the 255 octets of a name nor the 63 of a label
  (`dns_proto.h:97,99`; the callers' buffers bound the name).
- The encoder lays out four record types differently from the decoder: MX
  reserves four octets and writes two (`dns_proto.c:1491-1498`); SRV reserves
  two, writes six and puts the name over weight and port (1513-1522); the second
  string of HINFO is written over the first (1480-1490); OPT writes 16 of the 32
  bits of its flags (1523-1534). `RoundTrip` compares the data of the other
  types, and of these four only where the record ends; `WritesInSpace` leaves
  SRV out. The name "." is encoded as two null octets.
- The builder tests neither the second name of an SOA record (1689) nor the
  strings of HINFO, and appends to the strings a TXT slot had before a reset
  (1713). `HoldsAdded` allows for exactly these.
- `dns-gen resp` ignores `--flags`; the case for a `--ttl` that would set the
  timeout (`dns_gen.c:879`) cannot be reached, as no such option is in
  `resp_opts`. The mapped and the XDP capture open the file named by
  `--file` and never write to it (`README.md:62,93`).

## 4. Proofs

Assumptions: those on the constants that the modules name. Packets are
sequences of octets or elements, sizes and limits are natural numbers, a length
field is below its width (`SizesAssumption`); a ring has at least one entry, and
its size divides the number of values of an index, as 64 divides 2^32
(`CaptureAssumption`); the error stack has a place for each of the four sections
(`BoundsAssumption`; it has ten). Nothing else bounds them. TLC evaluates each
assumption with the run of its module.

None of the properties is inductive as it stands. Each module of proofs defines
an inductive invariant, shows with one lemma per action, or per group of actions
that move the same things, that it is preserved, and derives the properties
from it. TLC finds each of these invariants true on the instances of the runs,
in a module that extends the module of the run and the module of proofs.

| theorem | says |
|---|---|
| `NameInvariant`, `NameSafety`, `NameFits`, `NameContract`, `NameProgress` | `[]NameInv`; `LabelsInPacket` and `OffsetEndsName` (a success leaves the offset behind a null or behind the first pointer); `OutputFits`; `KeepsContract`, which is what `DnsRecord` assumes of names; each step counts a pointer, moves forward or leaves the loop |
| `RecInvariant`, `RecordSafety`, `RecordReads`, `RecordStores`, `RecordForward` | `[]RecInv`; `AcceptedExact`; `ReadsInPacket`; `StoreFits`; `ForwardOnly` |
| `DecInvariant`, `VerdictIsSound`, `VerdictIsComplete`, `LoadingKeepsOrder` | `[]DecInv`; `VerdictSound`; `VerdictComplete`; `LoadKeepsOrder` |
| `GenInvariant`, `AnswerTrue`, `ExitTrue` | `[]GenInv`; `AnswerMatches`; `ExitTells` |
| `InspInvariant`, `ExitsClean`, `RunsReady` | `[]InspInv`; `CleanExit`; `ReadyToRun` |
| `XdpInvariant`, `MmapInvariant`, `CaptureInvariant` | `[]XdpInv`; `[]MmapInv`; the method that runs is in its invariant |
| `ChunksHaveOneOwner`, `FillRingHasRoom`, `BlocksInTurn`, `FileIsWhatWasSeen`, `StraysAreEarly` | `OneOwner`; `FillRingRoom`; `InTurn`; `FileAgrees`; `OnlyEarlyStrays` of `Capture` |
| `CaptureImplementsFifo` | `RefinesFifo`: `Capture` implements `PacketFifo` |

`DnsNameProofs`. `NameInv` adds what relates the two cursors: as long as nothing
was jumped the caller's offset is the reading position, and afterwards the
offset is right behind the first pointer; that output written and output left
add up to the buffer; and that the jump count in the loop is at most one above
the limit.

`DnsRecordProofs`. `RecInv` says that once the fields are read, `rd_end` is the
cut end of the data and inside the packet, and the offset is not in front of
the data unless the options were skipped. Together with the lemma `CutEnd`
(a cut end that is not in front of the start was not cut) this yields that an
offset equal to `rd_end` is the true end. `GoodStep` collects what every data
action does; one lemma per group of record types shows that its actions are
good steps, and `GoodStepInv` that good steps preserve the invariant.

`DnsDecodeProofs`. `DecInv` has a part for each caller. For `dns_validate`
(`Sound`): as long as the stack is empty, the offset is where the header's counts
put it, `Before(sect) + i + 1`, and every element in front of it is well formed;
errors never leave the stack, so what is found out of step no longer matters.
Conversely (`Complete`) a well-formed packet that fits keeps the stack empty and
uses up one line per element. For `dns_msg_decode` (`Loads`, `InTurn`): as
long as no refused text left the offset inside its record (`Straight`), each
section loads at most one element, pushes at most one error and stays in step;
what it loads lies behind what was loaded before. A text that is refused says
nothing about the next, which may be shorter and fit, so more may be loaded
behind it. Where the offset is left inside a record, as by a string of a TXT
record, anything may be read behind it, which is why `LoadKeepsOrder` excepts
that.

`DnsGenProofs`. `GenInv` says that the exit code and what is told are set
together, when `run` returns, and that whenever a read finds octets of the
stream, the message they belong to is known.

`DnsInspProofs`. `InspInv` says that at the n-th step of a setup exactly what the
steps in front of it acquire is held, that while nothing is interrupted only
the program changes the machine, and only once the mirror is its own to remove,
and what each step of the clean-up has undone.

`XdpRingProofs`. `OneOwner` compares sets of chunks in stretches of two rings whose
indices wrap. `XdpInv` names the stretches: the fill ring from what the kernel
took up to what the program wrote, the rx ring from what the program has not
read up to what the kernel wrote, and the kernel's pool. They share the chunks
out without overlap, and their lengths and the pool add up to the number of
chunks (`Shared`). The lemmas on `Dist`, `Succ` and `Slot` do the modular
arithmetic once, for every width that is a multiple of the ring; `SharedTakes`,
`SharedGives` and `SharedSwaps` say what moving one chunk does. The cardinality
in `OneOwner` is left to `CaptureProofs`, where `FiniteSetTheorems` gives it.

`MmapRingProofs`. `MmapInv` says that the blocks of the program are the n blocks
from where it looks next, for some n, and that the kernel's block comes next.
`Queue` strings together what is pending in the blocks, from there once round
the ring. That a frame read is the head, that one that arrives is appended,
and that releasing a block turns the order without changing the queue is shown by
induction on the number of blocks; since the induction theorems of the library
cannot be used, `NatInd` derives it for sets from the well-foundedness of the
natural numbers.

`CaptureProofs`. `RawInv` relates every frame the socket accepted (`Taken`: the
inspected ones, those in the batch and those in the receive queue) to the place
of the program: until the filter is attached nothing leaves the receive queue,
so everything beyond the first `RcvBuf` frames came through the filter. The
invariants of the other methods are carried over from their modules through
INSTANCE, with lemmas that the two copies of each definition agree. `CaptureInv`
has one part per method (`RawPart`, `MmapPart`, `XdpPart`). For the refinement,
each method's step leaves its queue, appends a frame or takes the first
(`Moves`), which is what `PacketFifo` allows.

Only model-checked:

- liveness, which is out of the prover's reach: `Terminates`, `Consumed`, `Ends`;
- what needs induction over packets, texts or files: `DecodesMeaning` of the name
  decoder, `HoldsAdded`, `RoundTrip`, `SuffixesSpell` and `WritesInSpace` of the
  builder and encoder, `StandardDecoded` and `Rfc5952` of the addresses, and
  `ReadsInOrder`, `ReadsAll`, `ZeroMeansClean` and `ToldWritten` of `PcapTools`,
  which compare with the packets selected from a file;
- `WritesInDst`: `InetStr` has a recursive operator, and the prover does without
  its arithmetic where one is in scope;
- `PktFilter`: its instructions use bitwise operators, with which the prover
  cannot work;
- `TornOnlyLast`, which has not been tried.

The proofs shaped four definitions, which say the same as before: `Queue` of
`MmapRing` is a recursive function, `Batch` and `FileAgrees` of `RawCapture` and
`PacketFifo` use no more than `Sequences`.

## 5. Not modelled

- Texts: descriptions, log lines, help, names of types and codes. Whether a
  description fits is a choice; the cursor in its buffer is not modelled.
- Timestamps and trace output of `pcap.c`; capabilities; the conversion of
  numbers given as options.
- Slices and formatted buffers of `str_util.h`: the other modules take texts as
  values.
- Which octets `gen_enc_badmsg` makes wrong: a fuzzed message is a message of
  some length. The flags and codes of a header that is encoded.
- Pointer chains of the encoder longer than three. The table holds 32 suffixes
  and each name may point to the one before, while the decoder follows 17
  pointers; an offset that does not fit 14 bits does not occur with the buffer
  of `dns-gen`, and `EncodeAssumption` says so.
- What a capture sees is whether a frame is DNS and of the device; the octets
  of frames are in `PktFilter`. The two BPF machines are modelled as far as the
  two programs use them.
- Memory ordering: the ring indices and block states are plain variables. The
  one pair of accesses a compiler is free to swap, the two stores that submit a
  batch (`dns_insp.c:827-828`), happens in either order in `XdpRing`; otherwise
  loads and stores are taken in program order, as on x86. Allocation failures
  outside the set-up steps and the options.
- Two instances of `dns-insp` on one machine, which would share the veth pair.

## 6. Plan

Proofs: `PcapWriter` (only the last block torn), for which `Cut`, the file that a
killed process leaves, should be restated by the number of blocks kept;
`DnsBuild` (the part of `HoldsAdded` on counts and slots).
