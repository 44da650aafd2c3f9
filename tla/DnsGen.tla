------------------------------- MODULE DnsGen -------------------------------
(***************************************************************************)
(* dns-gen from main to exit (dns_gen.c): the options, then a query or a   *)
(* malformed message sent to a server over UDP or TCP, with the server and *)
(* the network, or a response or a malformed message written to a file,    *)
(* and gen_free.                                                           *)
(*                                                                         *)
(* The answer is read into the buffer that holds the query, whose length   *)
(* is added to: what is decoded is the answer as far as it was read, and   *)
(* the octets of the query behind it.  What a record is made of is in      *)
(* DnsEncode, what the file holds in PcapTools.                            *)
(***************************************************************************)
EXTENDS Integers, Sequences, FiniteSetsExt

CONSTANTS
    QueryLen,     \* octets of the message sent, without a prefix
    AnswerLens,   \* octets of the messages that may arrive
    PktBuf,       \* sizeof(gen->pkt_buf), 2048 in the code
    MaxUnits      \* bound: datagrams that arrive

ASSUME LensAssumption ==
    /\ QueryLen \in Nat \ {0} /\ AnswerLens \subseteq Nat \ {0}
    /\ PktBuf \in Nat /\ MaxUnits \in Nat

\* A message that arrives: whether it has the transaction id sent, the QR bit, an
\* error code, and its length, all of which its counts ask for.
Messages == [own : BOOLEAN, qr : BOOLEAN, err : BOOLEAN, len : AnswerLens]
NoMessage == [own |-> FALSE, qr |-> FALSE, err |-> FALSE, len |-> 0]
PrefixLen == 2
ETHIPUDP_LEN == 42

VARIABLES
    mode,      \* "query", "resp" or "fuzz"
    given,     \* options required by some mode that were given
    use_tcp, timeout,   \* options; timeout: not 0
    owners,    \* names the records added so far have: of --name or empty
    held,      \* "sock", and the strings "server" and "output"
    pcap,      \* gen->pcap: "null" or "open"
    sent,      \* QR bit and error code of the message in the buffer
    pkt_len,
    units,     \* UDP: datagrams to read.  TCP: the message of the stream
    arrived,   \* UDP: datagrams so far.  TCP: octets of the stream to read
    closed,    \* TCP: the server closed the connection
    answer,    \* the message read from
    nr,        \* octets of it read
    run,       \* sig.run, which nothing looks at
    told,      \* what the user gets to see
    ec,        \* exit code
    pc

options == <<mode, given, use_tcp, timeout, owners>>
owned   == <<held, pcap>>
network == <<units, arrived, closed>>
exchange == <<sent, pkt_len, answer, nr>>
vars == <<options, owned, exchange, network, run, told, ec, pc>>

\* gen_create succeeded and gen_parse_argv has found the mode and that options
\* follow; otherwise it shows the usage and exits.
Init ==
    /\ mode \in {"query", "resp", "fuzz"} /\ given = {}
    /\ use_tcp = FALSE /\ timeout = FALSE /\ owners = {}
    /\ held = {} /\ pcap = "null"
    /\ sent = [qr |-> FALSE, err |-> FALSE] /\ pkt_len = 0
    /\ units = << >> /\ arrived = 0 /\ closed = FALSE
    /\ answer = NoMessage /\ nr = 0
    /\ run = FALSE /\ told = "nothing" /\ ec = 0
    /\ pc = "argv"

----------------------------------------------------------------------------
\* Plausible slips of the code, each substituted for the definition after it.

\* SO_RCVTIMEO is set with the wrong level
TimesOutNever == FALSE
\* the transaction id is not compared
CheckedIdless(hdr) ==
    CASE ~hdr.qr -> 1 [] hdr.qr /\ hdr.err -> 3 [] OTHER -> 0
\* only negative results of run count as failures
FailedNegative(r) == r < 0
----------------------------------------------------------------------------

Failed(r) == r # 0
EARGV == 2
ESIGNAL == 3
ERUN == 4

\* run returns to main, which frees everything.
Return(r, what) ==
    /\ pc' = "free" /\ told' = what
    /\ ec' = IF Failed(r) THEN ERUN ELSE ec

Fails(what) ==
    /\ Return(-1, what)
    /\ UNCHANGED <<options, owned, exchange, network, run>>

\* gen_io_err after a failed call: errno is assigned EINTR where it is meant to
\* be compared, so nothing is printed, whatever the error was.
IoErrno == Fails("nothing")

Goto(stage) == pc' = stage /\ UNCHANGED <<told, ec>>

----------------------------------------------------------------------------
\* gen_parse_argv: cmd_argv_next gives the next option of the mode.
Parsing(modes) ==
    /\ pc = "argv" /\ mode \in modes
    /\ UNCHANGED <<mode, pcap, exchange, network, run, told>>

\* set_dns_name; a name may be empty
SetName ==
    /\ Parsing({"query", "resp"})
    /\ given' \in {given \union {"name"}, given \ {"name"}}
    /\ UNCHANGED <<use_tcp, timeout, owners, held, ec, pc>>

\* set_type_str
SetType ==
    /\ Parsing({"query", "fuzz"})
    /\ given' = given \union {"type"}
    /\ UNCHANGED <<use_tcp, timeout, owners, held, ec, pc>>

\* opt_setstr
SetString(opt, modes) ==
    /\ Parsing(modes)
    /\ given' = given \union {opt} /\ held' = held \union {opt}
    /\ UNCHANGED <<use_tcp, timeout, owners, ec, pc>>

SetTcp ==
    /\ Parsing({"query"})
    /\ use_tcp' = TRUE
    /\ UNCHANGED <<given, timeout, owners, held, ec, pc>>

\* opt_setuint, for --timeout: 0 or more
SetTimeout ==
    /\ Parsing({"query"})
    /\ timeout' \in BOOLEAN
    /\ UNCHANGED <<given, use_tcp, owners, held, ec, pc>>

\* add_sect: the record takes the name given so far.
AddSect ==
    /\ Parsing({"resp"})
    /\ owners' = owners \union {IF "name" \in given THEN "name" ELSE "empty"}
    /\ UNCHANGED <<given, use_tcp, timeout, held, ec, pc>>

\* The option or its value is missing, or the value is refused; a string is
\* freed before it is set again.
BadOption ==
    /\ Parsing({"query", "resp", "fuzz"})
    /\ held' \in {held, held \ {"server"}, held \ {"output"}}
    /\ ec' = EARGV /\ pc' = "free"
    /\ UNCHANGED <<given, use_tcp, timeout, owners>>

Option ==
    \/ SetName \/ SetType \/ SetTcp \/ SetTimeout \/ AddSect \/ BadOption
    \/ SetString("server", {"query", "fuzz"})
    \/ SetString("output", {"resp", "fuzz"})

\* The final checks.
OptionsSuffice ==
    CASE mode = "query" -> {"name", "type", "server"} \subseteq given
      [] mode = "resp"  -> {"name", "output"} \subseteq given /\ owners # {}
      [] mode = "fuzz"  -> "type" \in given /\ given \intersect {"server", "output"} # {}

EndOfOptions ==
    /\ pc = "argv"
    /\ IF OptionsSuffice THEN pc' = "signals" /\ UNCHANGED ec ELSE pc' = "free" /\ ec' = EARGV
    /\ UNCHANGED <<options, owned, exchange, network, run, told>>

\* setup_signals, and main calls the mode's run.
SetupSignals ==
    /\ pc = "signals"
    /\ \/ /\ run' = TRUE /\ UNCHANGED ec
          /\ pc' = IF mode = "query" THEN "connect" ELSE "encode"
       \/ ec' = ESIGNAL /\ pc' = "free" /\ UNCHANGED run
    /\ UNCHANGED <<options, owned, exchange, network, told>>

ToFile == mode # "query" /\ "output" \in given

----------------------------------------------------------------------------
\* gen_con_server: the address, the socket, the connection and its timeouts.
Connect ==
    /\ pc = "connect"
    /\ \/ held' = held \union {"sock"} /\ Goto(IF mode = "fuzz" THEN "write" ELSE "encode")
       \/ held' \in {held, held \union {"sock"}} /\ Return(-1, "connect failed")
    /\ UNCHANGED <<options, pcap, exchange, network, run>>

\* gen_set_query and gen_enc_dnsmsg, run_resp's gen_enc_dnsmsg, or gen_enc_badmsg,
\* one of whose messages is a response with an unknown error code; for a file
\* between pcap_start_pkt and pcap_end_pkt.
Encode ==
    /\ pc = "encode"
    /\ \/ /\ pkt_len' = QueryLen + CASE use_tcp -> PrefixLen
                                   [] ~use_tcp -> IF ToFile THEN ETHIPUDP_LEN ELSE 0
          /\ sent' \in IF mode = "fuzz" THEN {[qr |-> q, err |-> q] : q \in BOOLEAN}
                       ELSE {[qr |-> mode = "resp", err |-> FALSE]}
          /\ Goto(IF ToFile THEN "create" ELSE IF mode = "fuzz" THEN "connect" ELSE "write")
          /\ UNCHANGED <<options, owned, network, answer, nr, run>>
       \/ mode # "fuzz" /\ Fails("encode failed")

\* gen_pcap_file
CreateFile ==
    /\ pc = "create"
    /\ \/ pcap' = "open" /\ Goto("write_file")
       \/ Return(-1, "open failed") /\ UNCHANGED pcap
    /\ UNCHANGED <<options, held, exchange, network, run>>

WriteFile ==
    /\ pc = "write_file"
    /\ \/ Goto("close_file") /\ UNCHANGED <<options, owned, exchange, network, run>>
       \/ Fails("write failed")

CloseFile ==
    /\ pc = "close_file"
    /\ pcap' = "null"
    /\ Return(0, "wrote") \/ Return(-1, "close failed")
    /\ UNCHANGED <<options, held, exchange, network, run>>

\* gen_snd_dnspkt
Write ==
    /\ pc = "write"
    /\ \/ /\ Goto(IF use_tcp THEN "prefix" ELSE "read")
          /\ UNCHANGED <<options, owned, exchange, network, run>>
       \/ Fails("write truncated")
       \/ IoErrno

\* The length after n more octets were received.
Received(n) == pkt_len + n

Waiting == pc \in {"prefix", "read"}
Readable == IF use_tcp THEN arrived > 0 \/ closed ELSE units # << >>
Timeouts == timeout

\* gen_rcv_dnspkt, TCP: the length prefix.
ReadPrefix ==
    /\ pc = "prefix" /\ Readable
    /\ LET n == Min({PrefixLen, arrived}) IN
          \/ n = 0 /\ Fails("read closed")
          \/ n \in 1..(PrefixLen - 1) /\ Fails("read truncated")
          \/ /\ n = PrefixLen
             /\ pkt_len' = Received(n)
             /\ arrived' = arrived - n
             /\ IF PrefixLen + Head(units).len > PktBuf
                THEN Return(-1, "nothing")
                ELSE Goto("read")
             /\ UNCHANGED <<options, owned, sent, units, closed, answer, nr, run>>

\* gen_rcv_dnspkt: one read for the message, however much of it is there.
ReadMessage ==
    /\ pc = "read" /\ Readable
    /\ LET n == Min({Head(units).len, IF use_tcp THEN arrived ELSE PktBuf}) IN
          \/ n = 0 /\ Fails("read closed")
          \/ /\ n > 0
             /\ answer' = Head(units)
             /\ nr' = n
             /\ pkt_len' = Received(n)
             /\ units' = Tail(units)
             /\ arrived' = IF use_tcp THEN arrived - n ELSE arrived
             /\ Goto("check")
             /\ UNCHANGED <<options, owned, sent, closed, run>>

\* A read that waits returns when the timeout expires.
Timeout ==
    /\ Waiting /\ ~Readable /\ Timeouts
    /\ IoErrno

\* A read fails for another reason.
ReadError ==
    /\ Waiting
    /\ IoErrno

\* SIGINT or SIGTERM: handle_signal clears run; a read that waits returns EINTR.
Signal ==
    /\ run /\ pc # "exit"
    /\ IF Waiting /\ ~Readable THEN Return(-1, "nothing") ELSE UNCHANGED <<pc, ec, told>>
    /\ run' = FALSE
    /\ UNCHANGED <<options, owned, exchange, network>>

\* The header dns_msg_decode finds: two octets of id, then QR in the third and
\* the error code in the fourth, from the query where the answer was not read.
Headers ==
    { [own |-> o,
       qr  |-> IF nr >= 3 THEN answer.qr ELSE sent.qr,
       err |-> IF nr >= 4 THEN answer.err ELSE sent.err]
      : o \in IF nr >= 2 THEN {answer.own} ELSE {answer.own, TRUE} }

\* gen_chk_dnsrsp
Checked(hdr) ==
    CASE ~hdr.qr -> 1
      [] hdr.qr /\ ~hdr.own -> 2
      [] hdr.qr /\ hdr.own /\ hdr.err -> 3
      [] OTHER -> 0
Report == <<"answer", "unexpected message", "id does not match", "error code">>

\* gen_dec_dnsmsg, gen_chk_dnsrsp and gen_log_answer.  Decoding to a message
\* fails only when the errors it meets do not fit the stack.
Check ==
    /\ pc = "check"
    /\ \/ Return(-1, "decode failed")
       \/ \E hdr \in Headers : Return(Checked(hdr), Report[Checked(hdr) + 1])
    /\ UNCHANGED <<options, owned, exchange, network, run>>

\* gen_free: the socket, the file's name, the file and the state; the server's
\* name is left to the end of the process.
Free ==
    /\ pc = "free"
    /\ held' = held \ {"sock", "output"}
    /\ pcap' = "null"
    /\ pc' = "exit"
    /\ UNCHANGED <<options, exchange, network, run, told, ec>>

----------------------------------------------------------------------------
\* The network: a datagram arrives, the server's or another, once or twice or
\* never; the stream of the server's answer grows by some octets or ends.
Datagram ==
    /\ ~use_tcp /\ pc \in {"write", "read"} /\ arrived < MaxUnits
    /\ \E m \in Messages : units' = Append(units, m)
    /\ arrived' = arrived + 1
    /\ UNCHANGED <<options, owned, exchange, closed, run, told, ec, pc>>

Answer ==
    /\ use_tcp /\ pc = "prefix" /\ units = << >> /\ ~closed
    /\ \E m \in Messages : units' = <<m>>
    /\ arrived' = 1
    /\ UNCHANGED <<options, owned, exchange, closed, run, told, ec, pc>>

Segment ==
    /\ use_tcp /\ units # << >> /\ ~closed
    /\ LET left == Head(units).len + (IF pc = "prefix" THEN PrefixLen ELSE 0)
       IN  arrived' \in (arrived + 1)..left
    /\ UNCHANGED <<options, owned, exchange, units, closed, run, told, ec, pc>>

Closes ==
    /\ use_tcp /\ Waiting /\ ~closed
    /\ closed' = TRUE
    /\ UNCHANGED <<options, owned, exchange, units, arrived, run, told, ec, pc>>

Program ==
    \/ EndOfOptions \/ SetupSignals \/ Connect \/ Encode \/ CreateFile \/ WriteFile
    \/ CloseFile \/ Write \/ ReadPrefix \/ ReadMessage \/ Timeout \/ Check \/ Free

Next == Program \/ Option \/ ReadError \/ Signal \/ Datagram \/ Answer \/ Segment \/ Closes

Spec == Init /\ [][Next]_vars

\* The program runs whenever it can and the options end; nothing is assumed of
\* the network.
FairSpec == Spec /\ WF_vars(Program)

----------------------------------------------------------------------------
\* The variables keep their types; the length is that of the message sent and of
\* what was received.
TypeOK ==
    /\ mode \in {"query", "resp", "fuzz"} /\ given \subseteq {"name", "type", "server", "output"}
    /\ use_tcp \in BOOLEAN /\ timeout \in BOOLEAN /\ owners \subseteq {"name", "empty"}
    /\ held \subseteq {"sock", "server", "output"} /\ pcap \in {"null", "open"}
    /\ pkt_len \in 0..(QueryLen + Max(AnswerLens \union {ETHIPUDP_LEN}) + 2 * PrefixLen)
    /\ units \in UNION {[1..n -> Messages] : n \in 0..MaxUnits}
    /\ arrived \in Nat /\ closed \in BOOLEAN
    /\ answer \in Messages \union {NoMessage}
    /\ nr \in 0..Max(AnswerLens)
    /\ run \in BOOLEAN /\ ec \in 0..ERUN
    /\ told \in {Report[n] : n \in 1..4} \union
                {"nothing", "connect failed", "encode failed", "write truncated",
                 "read truncated", "read closed", "decode failed", "open failed",
                 "write failed", "close failed", "wrote"}
    /\ pc \in {"argv", "signals", "connect", "encode", "create", "write_file", "close_file",
               "write", "prefix", "read", "check", "free", "exit"}

\* What is shown as the answer is a response with the id that was sent and no
\* error, as soon as the first four octets of it were read, whatever other
\* messages arrive and in which order (dns_gen.c:377-406).
AnswerMatches ==
    told = "answer" /\ nr >= 4 => answer.own /\ answer.qr /\ ~answer.err

\* Once it knows its options the program ends if it has a timeout or only writes
\* a file, whatever the network does (dns_gen.c:476-484).
Ends == pc # "argv" /\ (timeout \/ ToFile) ~> pc = "exit"

\* The exit code of a run that has its mode and options is 0 exactly if an
\* answer to the query was shown or the file written: a response that does not
\* match or reports an error is a failure to the shell as it is to the user
\* (dns_gen.c:377-406, 943-958).
ExitTells == pc = "exit" => (ec = 0 <=> told \in {"answer", "wrote"})

\* dns_gen.c:245 reports "timeout" when a call times out: a program that ends
\* without an answer has told the user why, unless it was interrupted.
FailureTold == pc = "exit" /\ ec = ERUN /\ run => told # "nothing"

\* dns_gen.c:237 reports "truncated" when less was read than announced: an
\* answer that is shown was read to its end.
AnswerWhole == told = "answer" => nr = answer.len

\* dns_gen.c:902 asks for a name when a response is written: its records have it.
RecordsNamed == told = "wrote" /\ mode = "resp" => owners = {"name"}
=============================================================================
