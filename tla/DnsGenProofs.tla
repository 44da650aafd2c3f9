---------------------------- MODULE DnsGenProofs ----------------------------
(***************************************************************************)
(* Proofs about dns-gen for every query, every set of answers, buffer size *)
(* and number of datagrams.                                                *)
(***************************************************************************)
EXTENDS DnsGen, TLAPS

\* The program has not returned from run: nothing is told yet.
Busy == {"argv", "signals", "connect", "encode", "create", "write_file", "close_file",
         "write", "prefix", "read", "check"}

\* Nothing is read before the message is sent.
Early == Busy \ {"write", "prefix", "read", "check"}

\* The types the arguments rest on.
GenTypes ==
    /\ pc \in Busy \union {"free", "exit"}
    /\ use_tcp \in BOOLEAN
    /\ units \in Seq(Messages)
    /\ arrived \in Nat
    /\ answer \in Messages \union {NoMessage}
    /\ nr \in Nat

\* Whenever a read finds octets of the stream, the message they are of is known.
StreamKnown ==
    /\ pc \in Early => arrived = 0 /\ units = << >>
    /\ use_tcp /\ pc = "write" => arrived = 0 /\ units = << >>
    /\ use_tcp /\ pc = "prefix" /\ arrived > 0 => units # << >>
    /\ use_tcp /\ pc = "read" => units # << >>

\* The exit code and what is told are set together, when run returns.
ToldWithCode ==
    /\ pc \in Busy => ec = 0 /\ told = "nothing"
    /\ pc \notin Busy => (ec = 0 <=> told \in {"answer", "wrote"})

\* The inductive invariant.
GenInv == GenTypes /\ StreamKnown /\ ToldWithCode /\ AnswerMatches

\* The smaller of two numbers, as a set of two.
LEMMA MinOfTwo ==
    ASSUME NEW a \in Nat, NEW b \in Nat
    PROVE  /\ Min({a, b}) \in {a, b}
           /\ Min({a, b}) <= a /\ Min({a, b}) <= b
  <1>1. \E x \in {a, b} : \A y \in {a, b} : x <= y
    <2>1. CASE a <= b
      BY <2>1
    <2>2. CASE b <= a
      BY <2>2
    <2>3. QED
      BY <2>1, <2>2
  <1>2. QED
    BY <1>1 DEF Min

\* dns-gen starts in the invariant.
LEMMA InitHolds == Init => GenInv
  <1> SUFFICES ASSUME Init PROVE GenInv
    OBVIOUS
  <1>1. GenTypes
    <2>1. units \in Seq(Messages)
      BY DEF Init
    <2>2. answer \in Messages \union {NoMessage} /\ nr \in Nat /\ arrived \in Nat
      BY DEF Init
    <2>3. pc \in Busy /\ use_tcp \in BOOLEAN
      BY DEF Init, Busy
    <2>4. QED
      BY <2>1, <2>2, <2>3 DEF GenTypes
  <1>2. StreamKnown
    BY DEF Init, StreamKnown
  <1>3. ToldWithCode
    BY DEF Init, ToldWithCode, Busy
  <1>4. AnswerMatches
    BY DEF Init, AnswerMatches
  <1>5. QED
    BY <1>1, <1>2, <1>3, <1>4 DEF GenInv

\* run returns with the exit code that goes with what it told.
LEMMA ReturnInv ==
    ASSUME GenInv, pc \in Busy, pc' = "free",
           ec' = 0 <=> told' \in {"answer", "wrote"}, AnswerMatches',
           UNCHANGED <<use_tcp, units, arrived, answer, nr>>
    PROVE  GenInv'
  <1>1. GenTypes' /\ StreamKnown'
    BY DEF GenInv, GenTypes, StreamKnown, Busy, Early
  <1>2. ToldWithCode'
    BY DEF ToldWithCode, Busy
  <1>3. QED
    BY <1>1, <1>2 DEF GenInv

\* A result other than 0, and a report that is not of a success.
LEMMA FailureInv ==
    ASSUME GenInv, pc \in Busy, NEW what, what \notin {"answer", "wrote"},
           Return(-1, what), UNCHANGED <<use_tcp, units, arrived, answer, nr>>
    PROVE  GenInv'
  <1>1. pc' = "free" /\ told' = what /\ ec' = ERUN
    BY DEF Return, Failed
  <1>2. QED
    BY <1>1, ReturnInv DEF AnswerMatches, ERUN

\* The same for a step that fails and changes nothing else.
LEMMA FailsInv ==
    ASSUME GenInv, pc \in Busy, NEW what, what \notin {"answer", "wrote"}, Fails(what)
    PROVE  GenInv'
  BY FailureInv DEF Fails, options, exchange, network

\* A step inside run that reads nothing.
LEMMA GotoInv ==
    ASSUME GenInv, pc \in Busy, NEW stage \in Busy, Goto(stage),
           UNCHANGED <<use_tcp, units, arrived, answer, nr>>,
           pc \in {"prefix", "read", "check"} => stage = "check",
           stage \in Early => pc \in Early,
           stage \in {"read", "check"} => ~use_tcp,
           stage = "prefix" => pc = "write"
    PROVE  GenInv'
  <1>1. GenTypes' 
    BY DEF GenInv, GenTypes, Goto
  <1>2. StreamKnown'
    BY DEF GenInv, GenTypes, StreamKnown, Goto, Early, Busy
  <1>3. ToldWithCode' /\ AnswerMatches'
    BY DEF GenInv, ToldWithCode, AnswerMatches, Goto
  <1>4. QED
    BY <1>1, <1>2, <1>3 DEF GenInv

\* The options set up nothing but themselves.
LEMMA OptionInv == ASSUME GenInv, Option \/ EndOfOptions PROVE GenInv'
  <1>1. pc = "argv" /\ UNCHANGED <<units, arrived, answer, nr, told>>
    BY DEF Option, EndOfOptions, SetName, SetType, SetTcp, SetTimeout, AddSect, BadOption,
           SetString, Parsing, exchange, network
  <1>2. use_tcp' \in BOOLEAN
    BY Zenon DEF GenInv, GenTypes, Option, EndOfOptions, SetName, SetType, SetTcp, SetTimeout,
           AddSect, BadOption, SetString, Parsing, options
  <1>3. \/ pc' \in {"argv", "signals"} /\ ec' = ec
        \/ pc' = "free" /\ ec' = EARGV
    BY <1>1 DEF Option, EndOfOptions, SetName, SetType, SetTcp, SetTimeout, AddSect,
           BadOption, SetString
  <1>4. GenTypes'
    BY <1>1, <1>2, <1>3 DEF GenInv, GenTypes, Busy
  <1>5. StreamKnown'
    BY <1>1, <1>3 DEF GenInv, StreamKnown, Busy, Early
  <1>6. ToldWithCode' /\ AnswerMatches'
    BY <1>1, <1>3 DEF GenInv, ToldWithCode, AnswerMatches, Busy, EARGV
  <1>7. QED
    BY <1>4, <1>5, <1>6 DEF GenInv

\* setup_signals.
LEMMA SetupInv == ASSUME GenInv, SetupSignals PROVE GenInv'
  <1>1. /\ pc = "signals" /\ UNCHANGED <<use_tcp, units, arrived, answer, nr, told>>
        /\ \/ pc' \in {"connect", "encode"} /\ ec' = ec
           \/ pc' = "free" /\ ec' = ESIGNAL
    BY DEF SetupSignals, options, exchange, network
  <1>2. GenTypes'
    BY <1>1 DEF GenInv, GenTypes, Busy
  <1>3. StreamKnown'
    BY <1>1 DEF GenInv, StreamKnown, Busy, Early
  <1>4. ToldWithCode' /\ AnswerMatches'
    BY <1>1 DEF GenInv, ToldWithCode, AnswerMatches, Busy, ESIGNAL
  <1>5. QED
    BY <1>2, <1>3, <1>4 DEF GenInv

\* The calls in front of the answer: none of them reads.
LEMMA ConnectInv == ASSUME GenInv, Connect PROVE GenInv'
  <1>1. pc = "connect" /\ UNCHANGED <<use_tcp, units, arrived, answer, nr>>
    BY DEF Connect, options, exchange, network
  <1>2. CASE Goto(IF mode = "fuzz" THEN "write" ELSE "encode")
    BY <1>1, <1>2, GotoInv DEF Busy, Early
  <1>3. CASE Return(-1, "connect failed")
    BY <1>1, <1>3, FailureInv DEF Busy
  <1>4. QED
    BY <1>2, <1>3 DEF Connect

\* dns_msg_encode.
LEMMA EncodeInv == ASSUME GenInv, Encode PROVE GenInv'
  <1>1. pc = "encode"
    BY DEF Encode
  <1>2. CASE Fails("encode failed")
    BY <1>1, <1>2, FailsInv DEF Busy
  <1>3. CASE /\ Goto(IF ToFile THEN "create" ELSE IF mode = "fuzz" THEN "connect" ELSE "write")
             /\ UNCHANGED <<options, owned, network, answer, nr, run>>
    BY <1>1, <1>3, GotoInv DEF Busy, Early, options, network
  <1>4. QED
    BY <1>2, <1>3 DEF Encode

\* The message goes to a file instead of a server.
LEMMA FileInv == ASSUME GenInv, CreateFile \/ WriteFile \/ CloseFile PROVE GenInv'
  <1>1. CASE CreateFile
    <2>1. pc = "create" /\ UNCHANGED <<use_tcp, units, arrived, answer, nr>>
      BY <1>1 DEF CreateFile, options, exchange, network
    <2>2. CASE Goto("write_file")
      BY <2>1, <2>2, GotoInv DEF Busy, Early
    <2>3. CASE Return(-1, "open failed")
      BY <2>1, <2>3, FailureInv DEF Busy
    <2>4. QED
      BY <1>1, <2>2, <2>3 DEF CreateFile
  <1>2. CASE WriteFile
    <2>1. pc = "write_file"
      BY <1>2 DEF WriteFile
    <2>2. QED
      BY <1>2, <2>1, GotoInv, FailsInv DEF WriteFile, Busy, Early, options, exchange, network
  <1>3. CASE CloseFile
    <2>1. pc = "close_file" /\ UNCHANGED <<use_tcp, units, arrived, answer, nr>>
      BY <1>3 DEF CloseFile, options, exchange, network
    <2>2. CASE Return(0, "wrote")
      <3>1. pc' = "free" /\ told' = "wrote" /\ ec' = 0
        BY <2>1, <2>2 DEF Return, Failed, GenInv, ToldWithCode, Busy
      <3>2. QED
        BY <2>1, <3>1, ReturnInv DEF AnswerMatches, Busy
    <2>3. CASE Return(-1, "close failed")
      BY <2>1, <2>3, FailureInv DEF Busy
    <2>4. QED
      BY <1>3, <2>2, <2>3 DEF CloseFile
  <1>4. QED
    BY <1>1, <1>2, <1>3

\* The message is sent, and nothing is read yet.
LEMMA WriteInv == ASSUME GenInv, Write PROVE GenInv'
  <1>1. pc = "write"
    BY DEF Write
  <1>2. CASE /\ Goto(IF use_tcp THEN "prefix" ELSE "read")
             /\ UNCHANGED <<options, owned, exchange, network, run>>
    BY <1>1, <1>2, GotoInv DEF Busy, Early, options, exchange, network
  <1>3. CASE Fails("write truncated") \/ IoErrno
    BY <1>1, <1>3, FailsInv DEF Busy, IoErrno
  <1>4. QED
    BY <1>2, <1>3 DEF Write

\* The answer, or the part of it that has come.
LEMMA PrefixInv == ASSUME GenInv, ReadPrefix PROVE GenInv'
  <1>1. pc = "prefix"
    BY DEF ReadPrefix
  <1> DEFINE n == Min({PrefixLen, arrived})
  <1>2. CASE Fails("read closed") \/ Fails("read truncated")
    BY <1>1, <1>2, FailsInv DEF Busy
  <1>3. CASE /\ n = PrefixLen
             /\ arrived' = arrived - n
             /\ Return(-1, "nothing") \/ Goto("read")
             /\ UNCHANGED <<options, owned, sent, units, closed, answer, nr, run>>
    <2>1. arrived \in Nat /\ n <= arrived /\ n = 2
      BY <1>3, MinOfTwo DEF GenInv, GenTypes, PrefixLen
    <2>2. arrived' \in Nat /\ UNCHANGED <<use_tcp, units, answer, nr>>
      BY <1>3, <2>1 DEF options
    <2>3. use_tcp => units # << >>
      BY <1>1, <2>1 DEF GenInv, StreamKnown
    <2>4. \/ pc' = "free" /\ ec' = ERUN /\ told' = "nothing"
          \/ pc' = "read" /\ ec' = ec /\ told' = told
      BY <1>3 DEF Return, Goto, Failed
    <2>5. GenTypes' /\ StreamKnown'
      BY <2>2, <2>3, <2>4 DEF GenInv, GenTypes, StreamKnown, Busy, Early
    <2>6. ToldWithCode' /\ AnswerMatches'
      BY <1>1, <2>2, <2>4 DEF GenInv, ToldWithCode, AnswerMatches, Busy, ERUN
    <2>7. QED
      BY <2>5, <2>6 DEF GenInv
  <1>4. QED
    BY <1>2, <1>3 DEF ReadPrefix

\* read_msg: what it takes is a part of the answer it waits for.
LEMMA MessageInv == ASSUME GenInv, ReadMessage PROVE GenInv'
  <1>1. pc = "read" /\ Readable
    BY DEF ReadMessage
  <1> DEFINE n == Min({Head(units).len, IF use_tcp THEN arrived ELSE PktBuf})
  <1>2. CASE Fails("read closed")
    BY <1>1, <1>2, FailsInv DEF Busy
  <1>3. CASE /\ n > 0
             /\ answer' = Head(units)
             /\ nr' = n
             /\ units' = Tail(units)
             /\ arrived' = IF use_tcp THEN arrived - n ELSE arrived
             /\ Goto("check")
             /\ UNCHANGED <<options, owned, sent, closed, run>>
    <2>1. units \in Seq(Messages) /\ units # << >> /\ use_tcp \in BOOLEAN /\ arrived \in Nat
      BY <1>1 DEF GenInv, GenTypes, StreamKnown, Readable
    <2>2. Head(units) \in Messages /\ units' \in Seq(Messages)
      BY <1>3, <2>1
    <2>3. Head(units).len \in Nat
      BY <2>2, LensAssumption, Zenon DEF Messages
    <2>4. n \in Nat /\ (use_tcp => n <= arrived)
      BY <2>1, <2>3, MinOfTwo, LensAssumption
    <2> HIDE DEF n
    <2>5. arrived' \in Nat /\ nr' \in Nat
      BY <1>3, <2>1, <2>4
    <2>6. GenTypes' /\ StreamKnown'
      BY <1>3, <2>1, <2>2, <2>5 DEF GenTypes, StreamKnown, Goto, Busy, Early, options
    <2>7. ToldWithCode' /\ AnswerMatches'
      BY <1>1, <1>3 DEF GenInv, ToldWithCode, AnswerMatches, Goto, Busy
    <2>8. QED
      BY <2>6, <2>7 DEF GenInv
  <1>4. QED
    BY <1>2, <1>3 DEF ReadMessage

\* poll ends without an answer.
LEMMA WaitInv == ASSUME GenInv, Timeout \/ ReadError PROVE GenInv'
  BY FailsInv DEF Timeout, ReadError, IoErrno, Waiting, Busy

\* The handler only clears run.
LEMMA SignalInv == ASSUME GenInv, Signal PROVE GenInv'
  <1>1. UNCHANGED <<use_tcp, units, arrived, answer, nr>>
    BY DEF Signal, options, exchange, network
  <1>2. CASE Waiting /\ Return(-1, "nothing")
    BY <1>1, <1>2, FailureInv DEF Waiting, Busy
  <1>3. CASE UNCHANGED <<pc, ec, told>>
    BY <1>1, <1>3 DEF GenInv, GenTypes, StreamKnown, ToldWithCode, AnswerMatches
  <1>4. QED
    BY <1>2, <1>3 DEF Signal

\* gen_chk_dnsrsp: a message is taken for the answer if its header says so; of
\* that the first four octets came from the message itself.
LEMMA CheckInv == ASSUME GenInv, Check PROVE GenInv'
  <1>1. pc = "check" /\ UNCHANGED <<use_tcp, units, arrived, answer, nr>>
    BY DEF Check, options, exchange, network
  <1>2. CASE Return(-1, "decode failed")
    BY <1>1, <1>2, FailureInv DEF Busy
  <1>3. ASSUME NEW hdr \in Headers, Return(Checked(hdr), Report[Checked(hdr) + 1])
        PROVE  GenInv'
    <2>1. /\ nr >= 4 => hdr.own = answer.own /\ hdr.qr = answer.qr /\ hdr.err = answer.err
          /\ nr \in Nat
      <3>1. nr \in Nat
        BY DEF GenInv, GenTypes
      <3>2. PICK o \in IF nr >= 2 THEN {answer.own} ELSE {answer.own, TRUE} :
              hdr = [own |-> o,
                     qr  |-> IF nr >= 3 THEN answer.qr ELSE sent.qr,
                     err |-> IF nr >= 4 THEN answer.err ELSE sent.err]
        BY <1>3 DEF Headers
      <3>3. ASSUME nr >= 4
            PROVE  hdr = [own |-> answer.own, qr |-> answer.qr, err |-> answer.err]
        <4>1. nr >= 2 /\ nr >= 3
          BY <3>1, <3>3
        <4>2. QED
          BY <3>2, <3>3, <4>1, Zenon
      <3>4. QED
        BY <3>1, <3>3
    <2>2. CASE Checked(hdr) = 0
      <3>1. hdr.qr /\ hdr.own /\ ~hdr.err
        BY <2>2 DEF Checked
      <3>2. told' = "answer" /\ pc' = "free" /\ ec' = 0
        BY <1>1, <1>3, <2>2 DEF Return, Report, Failed, GenInv, ToldWithCode, Busy
      <3>3. AnswerMatches'
        BY <1>1, <2>1, <3>1, Zenon DEF AnswerMatches
      <3>4. QED
        BY <1>1, <3>2, <3>3, ReturnInv DEF Busy
    <2>3. CASE Checked(hdr) \in 1..3
      <3>1. pc' = "free" /\ ec' = ERUN /\ told' \notin {"answer", "wrote"}
        <4>1. pc' = "free" /\ ec' = ERUN /\ told' = Report[Checked(hdr) + 1]
          BY <1>3, <2>3 DEF Return, Failed
        <4>2. Checked(hdr) + 1 \in {2, 3, 4}
          BY <2>3
        <4>3. \A k \in {2, 3, 4} : Report[k] \notin {"answer", "wrote"}
          <5>1. /\ Report[2] = "unexpected message" /\ Report[3] = "id does not match"
                /\ Report[4] = "error code"
            BY DEF Report
          <5>2. QED
            BY <5>1
        <4>4. QED
          BY <4>1, <4>2, <4>3
      <3>2. QED
        BY <1>1, <3>1, ReturnInv DEF AnswerMatches, Busy, ERUN
    <2>4. QED
      BY <2>2, <2>3 DEF Checked
  <1>4. QED
    BY <1>2, <1>3 DEF Check

\* gen_free, after which only the exit code is left.
LEMMA FreeInv == ASSUME GenInv, Free PROVE GenInv'
  BY DEF Free, options, exchange, network, GenInv, GenTypes, StreamKnown, ToldWithCode,
         AnswerMatches, Busy, Early

\* The network adds to what there is to read.
LEMMA NetworkInv ==
    ASSUME GenInv, Datagram \/ Answer \/ Segment \/ Closes PROVE GenInv'
  <1>1. UNCHANGED <<use_tcp, answer, nr, told, ec, pc>>
    BY DEF Datagram, Answer, Segment, Closes, options, exchange
  <1>2. units' \in Seq(Messages) /\ arrived' \in Nat
    <2>1. CASE Datagram \/ Answer
      <3>1. PICK m \in Messages : units' = Append(units, m) \/ units' = <<m>>
        BY <2>1 DEF Datagram, Answer
      <3>2. units \in Seq(Messages) /\ arrived \in Nat
        BY DEF GenInv, GenTypes
      <3>3. arrived' = arrived + 1 \/ arrived' = 1
        BY <2>1 DEF Datagram, Answer
      <3>4. Append(units, m) \in Seq(Messages) /\ <<m>> \in Seq(Messages)
        BY <3>1, <3>2
      <3>5. arrived' \in Nat
        BY <3>2, <3>3
      <3>6. units' \in Seq(Messages)
        BY <3>1, <3>4, Zenon
      <3>7. QED
        BY <3>5, <3>6
    <2>2. CASE Segment
      BY <2>2 DEF Segment, GenInv, GenTypes
    <2>3. CASE Closes
      BY <2>3 DEF Closes, GenInv, GenTypes
    <2>4. QED
      BY <2>1, <2>2, <2>3
  <1>3. StreamKnown'
    <2>1. CASE Datagram
      BY <1>1, <2>1 DEF Datagram, GenInv, GenTypes, StreamKnown, Early, Busy
    <2>2. CASE Answer
      BY <1>1, <2>2 DEF Answer, GenInv, StreamKnown, Early, Busy
    <2>3. CASE Segment \/ Closes
      BY <1>1, <2>3 DEF Segment, Closes, GenInv, StreamKnown, Early, Busy
    <2>4. QED
      BY <2>1, <2>2, <2>3
  <1>4. QED
    BY <1>1, <1>2, <1>3 DEF GenInv, GenTypes, ToldWithCode, AnswerMatches

\* The invariant holds in every state of dns-gen, whatever arrives and whenever a
\* call fails or a signal comes.
THEOREM GenInvariant == Spec => []GenInv
  <1>1. GenInv /\ [Next]_vars => GenInv'
    <2> SUFFICES ASSUME GenInv, [Next]_vars PROVE GenInv'
      OBVIOUS
    <2>1. CASE Program
      BY <2>1, OptionInv, SetupInv, ConnectInv, EncodeInv, FileInv, WriteInv, PrefixInv,
         MessageInv, WaitInv, CheckInv, FreeInv DEF Program
    <2>2. CASE Option \/ ReadError \/ Signal
      BY <2>2, OptionInv, WaitInv, SignalInv
    <2>3. CASE Datagram \/ Answer \/ Segment \/ Closes
      BY <2>3, NetworkInv
    <2>4. CASE UNCHANGED vars
      BY <2>4 DEF vars, options, exchange, network, GenInv, GenTypes, StreamKnown,
                  ToldWithCode, AnswerMatches
    <2>5. QED
      BY <2>1, <2>2, <2>3, <2>4 DEF Next
  <1>2. QED
    BY InitHolds, <1>1, PTL DEF Spec

\* What is shown as the answer has the id that was sent and is a response without
\* an error, for messages of any length in any order (dns_gen.c:377-406).
THEOREM AnswerTrue == Spec => []AnswerMatches
  <1>1. GenInv => AnswerMatches
    BY DEF GenInv
  <1>2. QED
    BY <1>1, GenInvariant, PTL

\* The shell is told 0 exactly when the user is told of an answer or a file
\* (dns_gen.c:943-958).
THEOREM ExitTrue == Spec => []ExitTells
  <1>1. GenInv => ExitTells
    BY DEF GenInv, ToldWithCode, ExitTells, Busy
  <1>2. QED
    BY <1>1, GenInvariant, PTL
=============================================================================
