--------------------------- MODULE CaptureProofs ---------------------------
(***************************************************************************)
(* Proofs about Capture: what its three methods promise, and that each     *)
(* implements PacketFifo.  The argument for capture_raw is made here, for  *)
(* the others in MmapRingProofs and XdpRingProofs, from where it is        *)
(* carried over to the program that chooses one of the methods.            *)
(***************************************************************************)
EXTENDS Capture, SequenceTheorems, TLAPS

\* What the kernel's filters let through is a frame, and one that is wanted.
LEMMA PassingIn ==
    /\ Passing \subseteq Frames /\ NoFrame \notin Frames
    /\ \A p \in Passing : Wanted(p)
<1>1. Passing \subseteq Frames
  BY DEF Passing, Frames
<1>2. NoFrame \notin Frames
  BY CaptureAssumption DEF NoFrame, Frames
<1>3. \A p \in Passing : Wanted(p)
  BY Zenon DEF Passing, Wanted
<1> QED
  BY <1>1, <1>2, <1>3

----------------------------------------------------------------------------
(***************************************************************************)
(* The program: one method runs.                                           *)
(***************************************************************************)

\* A step of the program is a step of the method that runs, and leaves what the
\* others keep.
LEMMA OneMethod ==
    ASSUME [Next]_vars
    PROVE  /\ type' = type
           /\ type = "raw"  => [Raw!Next]_(Raw!vars)
           /\ type = "mmap" => [Mmap!Next]_(Mmap!vars) /\ inspected' = inspected
           /\ type = "xdp"  => [Xdp!Next]_(Xdp!vars) /\ inspected' = inspected
<1>1. CASE RawStep
  BY <1>1 DEF RawStep
<1>2. CASE MmapStep
  BY <1>2 DEF MmapStep, raw
<1>3. CASE XdpStep
  BY <1>3 DEF XdpStep, raw
<1>4. CASE UNCHANGED vars
  BY <1>4 DEF vars, raw, mmap, xdp, Raw!vars, Raw!capture, Mmap!vars, Mmap!ring,
         Mmap!kernel, Mmap!insp, Xdp!vars, Xdp!fill, Xdp!rx, Xdp!kernel, Xdp!local
<1> QED
  BY <1>1, <1>2, <1>3, <1>4 DEF Next

\* What PacketFifo allows of the queue of a method, now q and then r: nothing
\* happens, a frame is accepted at its end, or its first frame is inspected.
Moves(q, r) ==
    \/ r = q /\ last' = last
    \/ (\E p \in Frames : r = Append(q, p)) /\ last' = last
    \/ q # << >> /\ last' = Head(q) /\ r = Tail(q)

\* A program whose method does only that implements PacketFifo.
LEMMA FifoMoves ==
    ASSUME type' = type,
           \/ type = "raw"  /\ Moves(Raw!Queue, Raw!Queue')
           \/ type = "mmap" /\ Moves(Mmap!Queue, Mmap!Queue')
           \/ type = "xdp"  /\ Moves(Xdp!Queue, Xdp!Queue')
    PROVE  [Fifo!Next]_(Fifo!vars)
<1>1. CASE type = "raw" /\ Moves(Raw!Queue, Raw!Queue')
  BY <1>1 DEF Moves, Fifo!Next, Fifo!Accept, Fifo!Inspect, Fifo!vars
<1>2. CASE type = "mmap" /\ Moves(Mmap!Queue, Mmap!Queue')
  BY <1>2 DEF Moves, Fifo!Next, Fifo!Accept, Fifo!Inspect, Fifo!vars
<1>3. CASE type = "xdp" /\ Moves(Xdp!Queue, Xdp!Queue')
  BY <1>3 DEF Moves, Fifo!Next, Fifo!Accept, Fifo!Inspect, Fifo!vars
<1> QED
  BY <1>1, <1>2, <1>3

\* Before anything is accepted, it is in the initial state of PacketFifo.
LEMMA FifoStarts ==
    ASSUME last = NoFrame,
           \/ type = "raw"  /\ Raw!Queue = << >>
           \/ type = "mmap" /\ Mmap!Queue = << >>
           \/ type = "xdp"  /\ Xdp!Queue = << >>
    PROVE  Fifo!Init
<1>1. last \notin Frames
  BY PassingIn
<1> QED
  BY <1>1 DEF Fifo!Init

----------------------------------------------------------------------------
(***************************************************************************)
(* Sequences.                                                              *)
(***************************************************************************)

\* Tail and Append inside a concatenation.
LEMMA TailOfConcat ==
    ASSUME NEW S, NEW a \in Seq(S), NEW b \in Seq(S), a # << >>
    PROVE  a \o b # << >> /\ Head(a \o b) = Head(a) /\ Tail(a \o b) = Tail(a) \o b
<1>1. /\ Len(a) \in Nat \ {0} /\ Len(b) \in Nat
  BY EmptySeq, LenProperties
<1>2. /\ a \o b \in Seq(S) /\ Len(a \o b) = Len(a) + Len(b)
      /\ \A k \in 1..(Len(a) + Len(b)) :
            (a \o b)[k] = IF k <= Len(a) THEN a[k] ELSE b[k - Len(a)]
  BY ConcatProperties
<1>3. a \o b # << >>
  BY <1>1, <1>2, EmptySeq
<1>4. /\ Tail(a) \in Seq(S) /\ Len(Tail(a)) = Len(a) - 1
      /\ \A k \in 1..(Len(a) - 1) : Tail(a)[k] = a[k + 1]
  BY HeadTailProperties
<1>5. /\ Tail(a \o b) \in Seq(S) /\ Len(Tail(a \o b)) = Len(a) + Len(b) - 1
      /\ \A k \in 1..(Len(a) + Len(b) - 1) : Tail(a \o b)[k] = (a \o b)[k + 1]
  BY <1>1, <1>2, <1>3, HeadTailProperties
<1>6. /\ Tail(a) \o b \in Seq(S) /\ Len(Tail(a) \o b) = Len(a) - 1 + Len(b)
      /\ \A k \in 1..(Len(a) - 1 + Len(b)) :
            (Tail(a) \o b)[k] = IF k <= Len(a) - 1 THEN Tail(a)[k] ELSE b[k - (Len(a) - 1)]
  BY <1>4, ConcatProperties
<1>7. ASSUME NEW k \in 1..(Len(a) + Len(b) - 1)
      PROVE  Tail(a \o b)[k] = (Tail(a) \o b)[k]
  <2>1. k + 1 \in 1..(Len(a) + Len(b)) /\ k \in 1..(Len(a) - 1 + Len(b))
    BY <1>1
  <2>2. CASE k <= Len(a) - 1
    <3>1. k + 1 <= Len(a) /\ k \in 1..(Len(a) - 1)
      BY <1>1, <2>2
    <3> QED
      BY <1>2, <1>4, <1>5, <1>6, <2>1, <2>2, <3>1
  <2>3. CASE ~(k <= Len(a) - 1)
    <3>1. ~(k + 1 <= Len(a)) /\ k + 1 - Len(a) = k - (Len(a) - 1)
      BY <1>1, <2>3
    <3> QED
      BY <1>2, <1>5, <1>6, <2>1, <2>3, <3>1
  <2> QED
    BY <2>2, <2>3
<1>8. Tail(a \o b) = Tail(a) \o b
  <2>1. Len(Tail(a \o b)) = Len(Tail(a) \o b)
    BY <1>1, <1>5, <1>6
  <2> QED
    BY <1>5, <1>6, <1>7, <2>1, SeqEqual
<1>9. Head(a \o b) = Head(a)
  <2>1. 1 \in 1..(Len(a) + Len(b)) /\ 1 <= Len(a)
    BY <1>1
  <2> QED
    BY <1>2, <2>1
<1> QED
  BY <1>3, <1>8, <1>9

\* Appending to the second of two sequences appends to both.
LEMMA ConcatAppend ==
    ASSUME NEW S, NEW a \in Seq(S), NEW b \in Seq(S), NEW p \in S
    PROVE  a \o Append(b, p) = Append(a \o b, p)
<1>1. <<p>> \in Seq(S)
  OBVIOUS
<1>2. a \o b \in Seq(S)
  BY ConcatProperties
<1>3. Append(b, p) = b \o <<p>>
  BY AppendIsConcat
<1>4. Append(a \o b, p) = (a \o b) \o <<p>>
  BY <1>2, AppendIsConcat
<1>5. (a \o b) \o <<p>> = a \o (b \o <<p>>)
  BY <1>1, ConcatAssociative
<1> QED
  BY <1>3, <1>4, <1>5

\* The first element of the second sequence may as well end the first.
LEMMA MoveHead ==
    ASSUME NEW S, NEW a \in Seq(S), NEW b \in Seq(S), b # << >>
    PROVE  Append(a, Head(b)) \o Tail(b) = a \o b
<1>1. Head(b) \in S /\ Tail(b) \in Seq(S) /\ Len(b) \in Nat \ {0} /\ Len(a) \in Nat
      /\ Len(Tail(b)) = Len(b) - 1
  BY HeadTailProperties, EmptySeq, LenProperties
<1>2. <<Head(b)>> \in Seq(S)
  BY <1>1
<1>3. Append(a, Head(b)) = a \o <<Head(b)>>
  BY <1>1, AppendIsConcat
<1>4. (a \o <<Head(b)>>) \o Tail(b) = a \o (<<Head(b)>> \o Tail(b))
  BY <1>1, <1>2, ConcatAssociative, SMTT(30)
<1>5. <<Head(b)>> \o Tail(b) = b
  <2>1. 1 \in 1..Len(b) /\ Len(b) \in 1..Len(b)
    BY <1>1
  <2>2. SubSeq(b, 1, Len(b)) = <<b[1]>> \o SubSeq(b, 1 + 1, Len(b))
    BY <2>1, SubSeqRecursiveFirst
  <2>3. SubSeq(b, 1, Len(b)) = b /\ Tail(b) = SubSeq(b, 2, Len(b))
    BY SubSeqFull, TailIsSubSeq
  <2>4. Head(b) = b[1]
    OBVIOUS
  <2> QED
    BY <2>2, <2>3, <2>4, 1 + 1 = 2
<1> QED
  BY <1>3, <1>4, <1>5, SMTT(30)

----------------------------------------------------------------------------
(***************************************************************************)
(* capture_raw.                                                            *)
(***************************************************************************)

\* Where the program is in its set-up, its loop and its batch, and what that
\* says of the socket and of the messages.
RawControl ==
    /\ pc = "inspect" => msgs # << >>
    /\ pc \notin {"write", "inspect"} => msgs = << >>
    /\ pc \in {"promisc", "loop", "enter", "blocked", "write", "inspect"} => sock = "filtered"
    /\ pc \in {"socket", "bind", "filter"} \/ sock \in {"none", "open", "bound"} =>
          inspected = << >> /\ msgs = << >>

\* Every frame accepted so far, in order.
Taken == inspected \o Raw!Queue

\* The inductive invariant of the raw capture: the frames beyond the first RcvBuf
\* that the socket accepted are DNS of the device, inspected or not.
RawInv ==
    /\ sockq \in Seq(Frames) /\ msgs \in Seq(Frames)
    /\ inspected \in Seq(Frames) /\ written \in Seq(Frames)
    /\ RawControl
    /\ Raw!FileAgrees
    /\ \A k \in 1..Len(Taken) : k > RcvBuf => Wanted(Taken[k])

\* The steps that move no frame.
RawQuiet ==
    \/ Raw!Socket \/ Raw!Bind \/ Raw!Attach \/ Raw!Promisc \/ Raw!LoopTest
    \/ Raw!EnterRecv \/ Raw!BatchDone \/ Raw!Free \/ Raw!RecvError \/ Raw!Signal

\* The program starts in it, with nothing accepted.
LEMMA RawInit ==
    ASSUME Raw!Idle, sock = "none", pc = "socket"
    PROVE  RawInv /\ Raw!Queue = << >>
<1>1. << >> \in Seq(Frames)
  OBVIOUS
<1>2. RawControl
  BY DEF RawControl, Raw!Idle
<1>3. Raw!FileAgrees
  <2>1. SubSeq(<< >>, 1, 0) = << >> /\ 0 \in 0..Len(<< >>)
    BY SubSeqEmpty
  <2> QED
    BY <2>1 DEF Raw!FileAgrees, Raw!Idle
<1>4. Taken = << >> /\ Raw!Queue = << >>
  <2>1. << >> \o << >> = << >>
    BY <1>1, ConcatEmptySeq
  <2> QED
    BY <2>1 DEF Taken, Raw!Queue, Raw!Idle
<1>5. \A k \in 1..Len(Taken) : k > RcvBuf => Wanted(Taken[k])
  BY <1>4
<1> QED
  BY <1>1, <1>2, <1>3, <1>4, <1>5 DEF RawInv, Raw!Idle

\* They leave the queues and what was seen alone.
LEMMA RawQuietStays ==
    ASSUME RawInv, RawQuiet
    PROVE  /\ sockq' = sockq /\ msgs' = msgs /\ written' = written
           /\ inspected' = inspected /\ last' = last
           /\ pc' = "inspect" <=> pc = "inspect"
           /\ file' = file \/ file' # "open"
           /\ RawControl'
<1> USE DEF RawInv, RawControl, Raw!capture
<1>1. CASE Raw!Socket \/ Raw!Bind
  BY <1>1 DEF Raw!Socket, Raw!Bind, Raw!SetupStep
<1>2. CASE Raw!Attach \/ Raw!Promisc
  BY <1>2 DEF Raw!Attach, Raw!Promisc, Raw!SetupStep
<1>3. CASE Raw!LoopTest \/ Raw!EnterRecv \/ Raw!BatchDone
  BY <1>3 DEF Raw!LoopTest, Raw!EnterRecv, Raw!BatchDone
<1>4. CASE Raw!Free
  BY <1>4 DEF Raw!Free
<1>5. CASE Raw!RecvError \/ Raw!Signal
  BY <1>5 DEF Raw!RecvError, Raw!Signal
<1> QED
  BY <1>1, <1>2, <1>3, <1>4, <1>5 DEF RawQuiet

\* So they keep the invariant.
LEMMA RawQuietInv ==
    ASSUME RawInv, RawQuiet
    PROVE  RawInv' /\ Raw!Queue' = Raw!Queue /\ last' = last
<1>1. /\ sockq' = sockq /\ msgs' = msgs /\ written' = written
      /\ inspected' = inspected /\ last' = last
      /\ pc' = "inspect" <=> pc = "inspect"
      /\ file' = file \/ file' # "open"
      /\ RawControl'
  BY RawQuietStays
<1>2. Raw!FileAgrees'
  BY <1>1 DEF RawInv, Raw!FileAgrees
<1>3. Raw!Queue' = Raw!Queue
  BY <1>1 DEF Raw!Queue
<1>4. Taken' = Taken
  BY <1>1, <1>3 DEF Taken
<1> QED
  BY <1>1, <1>2, <1>3, <1>4 DEF RawInv

\* A prefix of a sequence is one of what it is extended to.
LEMMA PrefixOfAppend ==
    ASSUME NEW S, NEW t \in Seq(S), NEW p \in S, NEW n \in 0..Len(t)
    PROVE  SubSeq(Append(t, p), 1, n) = SubSeq(t, 1, n)
<1>1. n \in Nat /\ Len(t) \in Nat /\ n <= Len(t)
  BY LenProperties
<1>2. /\ Append(t, p) \in Seq(S) /\ Len(Append(t, p)) = Len(t) + 1
      /\ \A k \in 1..Len(t) : Append(t, p)[k] = t[k]
  BY AppendProperties
<1>3. \A k \in 1..n : k \in 1..Len(t) /\ k \in 1..(Len(t) + 1)
  BY <1>1
<1>4. \A k \in 1..n : t[k] \in S /\ Append(t, p)[k] \in S
  BY <1>2, <1>3, ElementOfSeq
<1>5. /\ SubSeq(t, 1, n) \in Seq(S) /\ Len(SubSeq(t, 1, n)) = n
      /\ \A k \in 1..n : SubSeq(t, 1, n)[k] = t[k]
  BY <1>1, <1>4, SubSeqProperties
<1>6. /\ SubSeq(Append(t, p), 1, n) \in Seq(S)
      /\ Len(SubSeq(Append(t, p), 1, n)) = n
      /\ \A k \in 1..n : SubSeq(Append(t, p), 1, n)[k] = Append(t, p)[k]
  BY <1>1, <1>4, SubSeqProperties
<1>7. \A k \in 1..n : SubSeq(Append(t, p), 1, n)[k] = SubSeq(t, 1, n)[k]
  BY <1>2, <1>3, <1>5, <1>6
<1> QED
  BY <1>5, <1>6, <1>7, SeqEqual

\* The frame is written before it is inspected.
LEMMA WriteMsgInv ==
    ASSUME RawInv, Raw!WriteMsg
    PROVE  RawInv' /\ Raw!Queue' = Raw!Queue /\ last' = last
<1>1. /\ pc = "write" /\ pc' = "inspect" /\ msgs # << >> /\ sockq' = sockq /\ msgs' = msgs
      /\ inspected' = inspected /\ last' = last /\ sock' = sock
  BY DEF Raw!WriteMsg
<1>2. /\ sockq \in Seq(Frames) /\ msgs \in Seq(Frames) /\ inspected \in Seq(Frames)
      /\ written \in Seq(Frames) /\ Head(msgs) \in Frames
  BY <1>1, HeadTailProperties DEF RawInv
<1>3. RawControl'
  BY <1>1 DEF RawInv, RawControl
<1>4. /\ \E n \in 0..Len(inspected) : written = SubSeq(inspected, 1, n)
      /\ file = "open" => written = inspected
  BY <1>1 DEF RawInv, Raw!FileAgrees
<1> DEFINE seen == Append(inspected, Head(msgs))
<1>5. /\ seen \in Seq(Frames) /\ Len(seen) \in Nat /\ SubSeq(seen, 1, Len(seen)) = seen
      /\ \E n \in 0..Len(seen) : written = SubSeq(seen, 1, n)
  <2>1. PICK n \in 0..Len(inspected) : written = SubSeq(inspected, 1, n)
    BY <1>4
  <2>2. written = SubSeq(seen, 1, n)
    BY <1>2, <2>1, PrefixOfAppend
  <2>3. seen \in Seq(Frames) /\ Len(seen) = Len(inspected) + 1 /\ Len(inspected) \in Nat
    BY <1>2, AppendProperties, LenProperties
  <2> HIDE DEF seen
  <2>4. SubSeq(seen, 1, Len(seen)) = seen
    BY <2>3, SubSeqFull
  <2>5. n \in 0..Len(seen)
    BY <2>3
  <2> QED
    BY <2>2, <2>3, <2>4, <2>5
<1>6. /\ written' \in Seq(Frames)
      /\ \E n \in 0..Len(seen) : written' = SubSeq(seen, 1, n)
      /\ file' = "open" => written' = seen
  <2>1. CASE Raw!WritesFile /\ written' = Append(written, Head(msgs)) /\ file' = file
    <3>1. written' = seen
      BY <1>4, <2>1 DEF Raw!WritesFile
    <3> HIDE DEF seen
    <3>2. Len(seen) \in 0..Len(seen)
      BY <1>5, SMTT(30)
    <3> QED
      BY <1>5, <3>1, <3>2, Zenon
  <2>2. CASE written' = written /\ file' # "open"
    <3> HIDE DEF seen
    <3> QED
      BY <1>2, <1>5, <2>2, Zenon
  <2> QED
    BY <2>1, <2>2, SMTT(30) DEF Raw!WriteMsg, Raw!WritesFile
<1>7. Raw!FileAgrees'
  BY <1>1, <1>6 DEF Raw!FileAgrees
<1>8. Raw!Queue' = Raw!Queue /\ Taken' = Taken
  BY <1>1 DEF Raw!Queue, Taken
<1> QED
  BY <1>1, <1>2, <1>3, <1>6, <1>7, <1>8 DEF RawInv

\* recvmmsg moves the front of the receive queue into the messages.
LEMMA RecvInv ==
    ASSUME RawInv, Raw!Recv
    PROVE  RawInv' /\ Raw!Queue' = Raw!Queue /\ last' = last
<1> DEFINE n == Raw!Batch(sockq)
<1>1. /\ pc = "blocked" /\ pc' = "write" /\ sockq # << >> /\ sock' = sock
      /\ msgs' = SubSeq(sockq, 1, n) /\ sockq' = SubSeq(sockq, n + 1, Len(sockq))
      /\ inspected' = inspected /\ last' = last /\ written' = written /\ file' = file
  BY DEF Raw!Recv, Raw!Rest, Raw!capture
<1>2. msgs = << >> /\ sockq \in Seq(Frames) /\ Len(sockq) \in Nat /\ sock = "filtered"
  BY <1>1, LenProperties DEF RawInv, RawControl
<1>3. n \in 0..Len(sockq)
  BY <1>2, CaptureAssumption DEF Raw!Batch
<1> HIDE DEF n
<1>4. \A k \in 1..Len(sockq) : sockq[k] \in Frames
  BY <1>2, ElementOfSeq
<1>5. msgs' \in Seq(Frames)
  <2>1. \A k \in 1..n : sockq[k] \in Frames
    BY <1>2, <1>3, <1>4
  <2> QED
    BY <1>1, <1>3, <2>1, SubSeqProperties
<1>6. sockq' \in Seq(Frames)
  <2>1. \A k \in (n + 1)..Len(sockq) : sockq[k] \in Frames
    BY <1>2, <1>3, <1>4
  <2> QED
    BY <1>1, <1>2, <1>3, <2>1, SubSeqProperties
<1>7. Raw!Queue' = Raw!Queue
  <2>1. << >> \o sockq = sockq
    BY <1>2, ConcatEmptySeq
  <2>2. SubSeq(sockq, 1, n) \o SubSeq(sockq, n + 1, Len(sockq)) = SubSeq(sockq, 1, Len(sockq))
    <3>1. 1 \in 1..(Len(sockq) + 1) /\ n \in (1 - 1)..Len(sockq) /\ Len(sockq) \in n..Len(sockq)
      BY <1>2, <1>3
    <3> QED
      BY <1>2, <3>1, ConcatAdjacentSubSeq, Zenon
  <2>3. SubSeq(sockq, 1, Len(sockq)) = sockq
    BY <1>2, SubSeqFull
  <2> QED
    BY <1>1, <1>2, <2>1, <2>2, <2>3, Zenon DEF Raw!Queue
<1>8. Taken' = Taken
  BY <1>1, <1>7 DEF Taken
<1>9. Raw!FileAgrees'
  BY <1>1 DEF RawInv, Raw!FileAgrees
<1>10. RawControl'
  BY <1>1, <1>2 DEF RawControl
<1> QED
  BY <1>1, <1>5, <1>6, <1>7, <1>8, <1>9, <1>10, SMTT(30) DEF RawInv

\* insp_process_pkt takes the first frame of the queue.
LEMMA InspectMsgInv ==
    ASSUME RawInv, Raw!InspectMsg
    PROVE  RawInv' /\ Raw!Queue # << >> /\ last' = Head(Raw!Queue) /\ Raw!Queue' = Tail(Raw!Queue)
<1>1. /\ pc = "inspect" /\ pc' = "write" /\ sockq' = sockq /\ msgs' = Tail(msgs)
      /\ last' = Head(msgs) /\ inspected' = Append(inspected, Head(msgs))
      /\ written' = written /\ file' = file /\ sock' = sock
  BY DEF Raw!InspectMsg
<1>2. /\ sockq \in Seq(Frames) /\ msgs \in Seq(Frames) /\ inspected \in Seq(Frames)
      /\ written \in Seq(Frames) /\ msgs # << >> /\ sock = "filtered"
  BY <1>1 DEF RawInv, RawControl
<1>3. Head(msgs) \in Frames /\ Tail(msgs) \in Seq(Frames)
  BY <1>2, HeadTailProperties
<1>4. inspected' \in Seq(Frames)
  BY <1>1, <1>2, <1>3, AppendProperties
<1>5. Raw!Queue # << >> /\ Head(Raw!Queue) = Head(msgs) /\ Tail(Raw!Queue) = Tail(msgs) \o sockq
  BY <1>2, TailOfConcat DEF Raw!Queue
<1>6. Raw!Queue' = Tail(Raw!Queue)
  BY <1>1, <1>5, SMTT(30) DEF Raw!Queue
<1>7. Raw!Queue \in Seq(Frames)
  BY <1>2, ConcatProperties DEF Raw!Queue
<1>8. Taken' = Taken
  <2>1. Taken' = Append(inspected, Head(Raw!Queue)) \o Tail(Raw!Queue)
    BY <1>1, <1>5, <1>6, SMTT(30) DEF Taken
  <2> QED
    BY <1>2, <1>5, <1>7, <2>1, MoveHead, Zenon DEF Taken
<1>9. Raw!FileAgrees'
  BY <1>1, Zenon DEF RawInv, Raw!FileAgrees
<1>10. RawControl'
  BY <1>1, <1>2 DEF RawControl
<1>11. \A k \in 1..Len(Taken') : k > RcvBuf => Wanted(Taken'[k])
  BY <1>8 DEF RawInv
<1> QED
  BY <1>1, <1>2, <1>3, <1>4, <1>5, <1>6, <1>9, <1>10, <1>11, SMTT(30) DEF RawInv

\* A frame accepted after the first RcvBuf comes through the filter: until that
\* is attached, nothing is taken out of the receive buffer.
LEMMA ArriveInv ==
    ASSUME RawInv, Raw!Arrive
    PROVE  /\ RawInv' /\ last' = last
           /\ \/ Raw!Queue' = Raw!Queue
              \/ Raw!Queue \in Seq(Frames) /\ \E p \in Frames : Raw!Queue' = Append(Raw!Queue, p)
<1>1. /\ pc' = pc /\ sock' = sock /\ msgs' = msgs /\ last' = last /\ inspected' = inspected
      /\ written' = written /\ file' = file
  BY DEF Raw!Arrive, Raw!capture
<1>2. /\ sockq \in Seq(Frames) /\ msgs \in Seq(Frames) /\ inspected \in Seq(Frames)
      /\ written \in Seq(Frames)
  BY DEF RawInv
<1>3. RawControl' /\ Raw!FileAgrees'
  BY <1>1, SMTT(30) DEF RawInv, RawControl, Raw!FileAgrees
<1>4. CASE sockq' = sockq
  <2>1. Raw!Queue' = Raw!Queue /\ Taken' = Taken
    BY <1>1, <1>4 DEF Raw!Queue, Taken
  <2> QED
    BY <1>1, <1>2, <1>3, <1>4, <2>1 DEF RawInv
<1>5. CASE sockq' # sockq
  <2>1. PICK p \in Frames : /\ Raw!Accepts(sock, p) /\ Len(sockq) < RcvBuf
                           /\ sockq' = Append(sockq, p)
    BY <1>5 DEF Raw!Arrive, Raw!Frames, Frames
  <2>2. sockq' \in Seq(Frames)
    BY <1>2, <2>1, AppendProperties
  <2>3. Raw!Queue \in Seq(Frames)
    BY <1>2, ConcatProperties DEF Raw!Queue
  <2>4. Raw!Queue' = Append(Raw!Queue, p)
    <3>1. msgs \o Append(sockq, p) = Append(msgs \o sockq, p)
      BY <1>2, ConcatAppend
    <3> QED
      BY <1>1, <2>1, <3>1 DEF Raw!Queue
  <2>5. Taken \in Seq(Frames)
    BY <1>2, <2>3, ConcatProperties DEF Taken
  <2>6. Taken' = Append(Taken, p)
    <3>1. inspected \o Append(Raw!Queue, p) = Append(inspected \o Raw!Queue, p)
      BY <1>2, <2>3, ConcatAppend, SMTT(30)
    <3> QED
      BY <1>1, <2>4, <3>1 DEF Taken
  <2>7. Len(Taken) + 1 > RcvBuf => Wanted(p)
    <3>1. CASE sock = "filtered"
      BY <2>1, <3>1 DEF Raw!Accepts, Raw!Wanted, Wanted
    <3>2. CASE sock # "filtered"
      <4>1. inspected = << >> /\ msgs = << >>
        BY <2>1, <3>2 DEF Raw!Accepts, RawInv, RawControl
      <4>2. Taken = sockq
        BY <1>2, <4>1, ConcatEmptySeq DEF Taken, Raw!Queue
      <4> QED
        BY <1>2, <2>1, <4>2, CaptureAssumption, LenProperties
    <3> QED
      BY <3>1, <3>2
  <2>8. ASSUME NEW k \in 1..Len(Taken'), k > RcvBuf
        PROVE  Wanted(Taken'[k])
    <3>1. /\ Len(Append(Taken, p)) = Len(Taken) + 1 /\ Append(Taken, p)[Len(Taken) + 1] = p
          /\ \A j \in 1..Len(Taken) : Append(Taken, p)[j] = Taken[j]
          /\ Len(Taken) \in Nat
      BY <2>5, AppendProperties, LenProperties
    <3>2. k \in 1..(Len(Taken) + 1)
      BY <2>6, <3>1
    <3>3. CASE k = Len(Taken) + 1
      BY <2>6, <2>7, <2>8, <3>1, <3>3, SMTT(30)
    <3>4. CASE k # Len(Taken) + 1
      <4>1. k \in 1..Len(Taken)
        BY <3>1, <3>2, <3>4
      <4>2. Taken'[k] = Taken[k]
        BY <2>6, <3>1, <4>1
      <4> QED
        BY <2>8, <4>1, <4>2 DEF RawInv
    <3> QED
      BY <3>3, <3>4
  <2>9. RawInv'
    BY <1>1, <1>2, <1>3, <2>2, <2>8 DEF RawInv
  <2> QED
    BY <1>1, <2>3, <2>4, <2>9
<1> QED
  BY <1>4, <1>5

\* Each step keeps the invariant, and adds a frame at the end of the queue, or
\* inspects the first, or leaves both alone (dns_insp.c:398-425).
LEMMA RawStepInv ==
    ASSUME RawInv, [Raw!Next]_(Raw!vars)
    PROVE  RawInv' /\ Moves(Raw!Queue, Raw!Queue')
<1>1. CASE RawQuiet
  BY <1>1, RawQuietInv DEF Moves
<1>2. CASE Raw!WriteMsg
  BY <1>2, WriteMsgInv DEF Moves
<1>3. CASE Raw!Recv
  BY <1>3, RecvInv DEF Moves
<1>4. CASE Raw!InspectMsg
  BY <1>4, InspectMsgInv DEF Moves
<1>5. CASE Raw!Arrive
  BY <1>5, ArriveInv DEF Moves
<1>6. CASE UNCHANGED Raw!vars
  <2>1. /\ sockq' = sockq /\ msgs' = msgs /\ written' = written /\ inspected' = inspected
        /\ last' = last /\ pc' = pc /\ file' = file /\ sock' = sock
    BY <1>6 DEF Raw!vars, Raw!capture
  <2>2. Raw!Queue' = Raw!Queue
    BY <2>1 DEF Raw!Queue
  <2>3. Taken' = Taken
    BY <2>1, <2>2 DEF Taken
  <2>4. RawInv'
    BY <2>1, <2>3 DEF RawInv, RawControl, Raw!FileAgrees
  <2> QED
    BY <2>1, <2>2, <2>4 DEF Moves
<1> QED
  BY <1>1, <1>2, <1>3, <1>4, <1>5, <1>6 DEF Raw!Next, Raw!Program, RawQuiet

\* The two promises of the raw capture follow.
LEMMA RawSafe ==
    ASSUME RawInv
    PROVE  /\ Raw!FileAgrees
           /\ \A k \in 1..Len(inspected) : k > RcvBuf => Wanted(inspected[k])
<1>1. sockq \in Seq(Frames) /\ msgs \in Seq(Frames) /\ inspected \in Seq(Frames) /\ Raw!FileAgrees
  BY DEF RawInv
<1>2. Raw!Queue \in Seq(Frames)
  BY <1>1, ConcatProperties DEF Raw!Queue
<1>3. /\ Len(inspected) \in Nat /\ Len(Raw!Queue) \in Nat
      /\ Len(Taken) = Len(inspected) + Len(Raw!Queue)
      /\ \A k \in 1..(Len(inspected) + Len(Raw!Queue)) :
            Taken[k] = IF k <= Len(inspected) THEN inspected[k] ELSE Raw!Queue[k - Len(inspected)]
  BY <1>1, <1>2, ConcatProperties, LenProperties DEF Taken
<1>4. ASSUME NEW k \in 1..Len(inspected), k > RcvBuf
      PROVE  Wanted(inspected[k])
  <2>1. k \in 1..(Len(inspected) + Len(Raw!Queue)) /\ k <= Len(inspected)
    BY <1>3
  <2>2. Taken[k] = inspected[k] /\ k \in 1..Len(Taken)
    BY <1>3, <2>1
  <2> QED
    BY <1>4, <2>2 DEF RawInv
<1> QED
  BY <1>1, <1>4

\* The part of the program's invariant that is about capture_raw.
RawPart == type = "raw" => RawInv

\* The program starts with it, in the initial state of PacketFifo.
LEMMA RawBegins ==
    ASSUME Init, type = "raw"
    PROVE  RawInv /\ Fifo!Init
<1>1. Raw!Idle /\ sock = "none" /\ pc = "socket" /\ last = NoFrame
  BY DEF Init
<1>2. RawInv /\ Raw!Queue = << >>
  BY <1>1, RawInit
<1> QED
  BY <1>1, <1>2, FifoStarts

\* Every step keeps it, and is one that PacketFifo allows.
LEMMA RawGoesOn ==
    ASSUME type = "raw", RawPart, [Next]_vars
    PROVE  RawInv' /\ [Fifo!Next]_(Fifo!vars)
<1>1. RawInv' /\ Moves(Raw!Queue, Raw!Queue') /\ type' = type
  BY OneMethod, RawStepInv DEF RawPart
<1> QED
  BY <1>1, FifoMoves

\* So it holds in every behaviour of the program.
LEMMA RawRuns == Spec => []RawPart
<1>1. Init => RawPart
  BY RawBegins DEF RawPart
<1>2. RawPart /\ [Next]_vars => RawPart'
  <2> SUFFICES ASSUME RawPart, [Next]_vars, type' = "raw"
               PROVE  RawInv'
    BY DEF RawPart
  <2>1. type = "raw"
    BY OneMethod
  <2> QED
    BY <2>1, RawGoesOn
<1> QED
  BY <1>1, <1>2, PTL DEF Spec

\* What capture_raw has written to the capture file is what it has inspected, up
\* to the first write that fails (dns_insp.c:324-336).
THEOREM FileIsWhatWasSeen == Spec => []FileAgrees
<1>1. RawPart => FileAgrees
  BY RawSafe DEF RawPart, FileAgrees
<1> QED
  BY <1>1, RawRuns, PTL

----------------------------------------------------------------------------
(***************************************************************************)
(* The methods without a file.                                             *)
(***************************************************************************)

\* The other methods record nothing and see no frame the filters refuse.
Unstray == inspected = << >> /\ last \in Passing \union {NoFrame}

\* That is so when the program starts,
LEMMA UnstrayInit ==
    ASSUME Init
    PROVE  Unstray
  BY DEF Init, Raw!Idle, Unstray

\* and as long as they see only frames that pass.
LEMMA UnstrayStep ==
    ASSUME Unstray, inspected' = inspected,
           last' = last \/ last' \in Passing \union {NoFrame}
    PROVE  Unstray'
<1>1. Passing' = Passing /\ NoFrame' = NoFrame
  OBVIOUS
<1> QED
  BY <1>1 DEF Unstray

\* So only a raw capture inspects strays.
LEMMA StraysOf ==
    ASSUME (type = "raw" /\ RawInv) \/ Unstray
    PROVE  OnlyEarlyStrays
<1>1. CASE type = "raw" /\ RawInv
  BY <1>1, RawSafe DEF OnlyEarlyStrays
<1>2. CASE Unstray
  <2>1. last = NoFrame \/ Wanted(last)
    BY <1>2, PassingIn DEF Unstray
  <2>2. inspected = << >> /\ 1..Len(inspected) = {}
    BY <1>2 DEF Unstray
  <2> QED
    BY <2>1, <2>2 DEF OnlyEarlyStrays
<1> QED
  BY <1>1, <1>2

\* One of the three methods runs.
OneRuns == type \in {"raw", "mmap", "xdp"}

\* The method is chosen once (dns_insp.c:964).
LEMMA OneRunsOn == Spec => []OneRuns
<1>1. Init => OneRuns
  BY DEF Init, OneRuns
<1>2. OneRuns /\ [Next]_vars => OneRuns'
  BY OneMethod, SMTT(30) DEF OneRuns
<1> QED
  BY <1>1, <1>2, PTL DEF Spec

----------------------------------------------------------------------------
(***************************************************************************)
(* capture_mmap.                                                           *)
(***************************************************************************)
MmapP == INSTANCE MmapRingProofs

\* MmapRingProofs speaks of the MmapRing that Capture is made of.
LEMMA MmapNext == [Mmap!Next]_(Mmap!vars) => [MmapP!Next]_(MmapP!vars)
<1>1. Mmap!Next => MmapP!Next
  BY DEF Mmap!Next, MmapP!Next, Mmap!Program, MmapP!Program, Mmap!SetupStep,
         MmapP!SetupStep, Mmap!Socket, MmapP!Socket, Mmap!Bind, MmapP!Bind,
         Mmap!Attach, MmapP!Attach, Mmap!Version, MmapP!Version, Mmap!RxRing,
         MmapP!RxRing, Mmap!MapRing, MmapP!MapRing, Mmap!LoopTest,
         MmapP!LoopTest, Mmap!BlockReady, MmapP!BlockReady, Mmap!EnterPoll,
         MmapP!EnterPoll, Mmap!Readable, MmapP!Readable, Mmap!PollIn,
         MmapP!PollIn, Mmap!PollError, MmapP!PollError, Mmap!BlockDone,
         MmapP!BlockDone, Mmap!Handle, MmapP!Handle, Mmap!Released,
         MmapP!Released, Mmap!Release, MmapP!Release, Mmap!NextBlock,
         MmapP!NextBlock, Mmap!Advance, MmapP!Advance, Mmap!Free, MmapP!Free,
         Mmap!Signal, MmapP!Signal, Mmap!KernelReceive, MmapP!KernelReceive,
         Mmap!KernelRetire, MmapP!KernelRetire, Mmap!KernelThaw,
         MmapP!KernelThaw, Mmap!Passing, MmapP!Passing, Mmap!ring, MmapP!ring,
         Mmap!kernel, MmapP!kernel, Mmap!insp, MmapP!insp
<1>2. UNCHANGED Mmap!vars => UNCHANGED MmapP!vars
  BY DEF Mmap!vars, MmapP!vars, Mmap!ring, MmapP!ring, Mmap!kernel, MmapP!kernel,
         Mmap!insp, MmapP!insp
<1> QED
  BY <1>1, <1>2

\* And so do its states: the two modules define the same things.
LEMMA MmapState ==
    /\ Mmap!Idle => MmapP!Idle
    /\ Mmap!Queue = MmapP!Queue /\ Mmap!Queue' = MmapP!Queue' /\ MmapP!Passing = Passing
    /\ MmapP!InTurn => Mmap!InTurn
<1>1. Mmap!Idle => MmapP!Idle
  BY DEF Mmap!Idle, MmapP!Idle, Mmap!Blocks, MmapP!Blocks
<1>2. Mmap!Queue = MmapP!Queue /\ Mmap!Queue' = MmapP!Queue' /\ MmapP!Passing = Passing
  BY DEF Mmap!Queue, MmapP!Queue, Mmap!Pending, MmapP!Pending, Mmap!Open, MmapP!Open,
         Mmap!First, MmapP!First,
         MmapP!Passing, Passing
<1>3. MmapP!InTurn => Mmap!InTurn
  BY ZenonT(30) DEF Mmap!InTurn, MmapP!InTurn, Mmap!Open, MmapP!Open, Mmap!First, MmapP!First,
         Mmap!Blocks, MmapP!Blocks
<1> QED
  BY <1>1, <1>2, <1>3

\* What MmapRingProofs shows of one step.
LEMMA MmapKeeps ==
    ASSUME MmapP!MmapInv, [Mmap!Next]_(Mmap!vars)
    PROVE  /\ MmapP!MmapInv'
           /\ Moves(Mmap!Queue, Mmap!Queue')
           /\ last' = last \/ last' \in Passing \union {NoFrame}
<1>1. [MmapP!Next]_(MmapP!vars)
  BY MmapNext
<1>2. MmapP!MmapInv' /\ (last' = last \/ last' \in MmapP!Passing)
  BY <1>1, CaptureAssumption, MmapP!MmapStep, MmapP!MmapLast
<1>3. \/ MmapP!Queue' = MmapP!Queue /\ last' = last
      \/ (\E p \in MmapP!Passing : MmapP!Queue' = Append(MmapP!Queue, p)) /\ last' = last
      \/ /\ MmapP!Queue # << >> /\ last' = Head(MmapP!Queue)
         /\ MmapP!Queue' = Tail(MmapP!Queue)
  BY <1>1, <1>2, CaptureAssumption, MmapP!MmapQueueStep
<1> QED
  BY <1>2, <1>3, MmapState, PassingIn DEF Moves

\* And of one state.
LEMMA MmapHolds ==
    /\ Mmap!Idle /\ pc = "socket" => MmapP!MmapInv /\ Mmap!Queue = << >>
    /\ MmapP!MmapInv => Mmap!InTurn
<1>1. MmapP!Idle /\ pc = "socket" => MmapP!MmapInv
  BY CaptureAssumption, MmapP!MmapInit
<1>2. MmapP!Idle /\ pc = "socket" => MmapP!Queue = << >>
  BY CaptureAssumption, MmapP!MmapQueueInit
<1>3. MmapP!MmapInv => MmapP!InTurn
  BY CaptureAssumption, MmapP!MmapSafe
<1> QED
  BY <1>1, <1>2, <1>3, MmapState

\* The part of the program's invariant that is about capture_mmap.
MmapPart == type = "mmap" => MmapP!MmapInv /\ Unstray

\* The program starts with it, in the initial state of PacketFifo.
LEMMA MmapBegins ==
    ASSUME Init, type = "mmap"
    PROVE  MmapP!MmapInv /\ Unstray /\ Fifo!Init
<1>1. Mmap!Idle /\ Unstray /\ last = NoFrame /\ pc = "socket"
  BY UnstrayInit DEF Init
<1> QED
  BY <1>1, MmapHolds, FifoStarts

\* Every step keeps it, and is one that PacketFifo allows.
LEMMA MmapGoesOn ==
    ASSUME type = "mmap", MmapPart, [Next]_vars
    PROVE  MmapP!MmapInv' /\ Unstray' /\ [Fifo!Next]_(Fifo!vars)
<1>1. /\ MmapP!MmapInv' /\ Moves(Mmap!Queue, Mmap!Queue') /\ type' = type
      /\ inspected' = inspected /\ (last' = last \/ last' \in Passing \union {NoFrame})
  BY OneMethod, MmapKeeps DEF MmapPart
<1>2. Unstray'
  BY <1>1, UnstrayStep DEF MmapPart
<1> QED
  BY <1>1, <1>2, FifoMoves

\* So it holds in every behaviour of the program.
LEMMA MmapRuns == Spec => []MmapPart
<1>1. Init => MmapPart
  BY MmapBegins DEF MmapPart
<1>2. MmapPart /\ [Next]_vars => MmapPart'
  BY OneMethod, MmapGoesOn DEF MmapPart
<1> QED
  BY <1>1, <1>2, PTL DEF Spec

\* capture_mmap, which only looks at the block it expects next, meets the
\* blocks in the order the kernel retires them (dns_insp.c:500-539).
THEOREM BlocksInTurn == Spec => []InTurn
<1>1. MmapPart => InTurn
  BY MmapHolds DEF MmapPart, InTurn
<1> QED
  BY <1>1, MmapRuns, PTL

----------------------------------------------------------------------------
(***************************************************************************)
(* capture_xdp.                                                            *)
(***************************************************************************)
XdpP == INSTANCE XdpRingProofs

\* XdpRingProofs speaks of the XdpRing that Capture is made of.
LEMMA XdpNext == [Xdp!Next]_(Xdp!vars) => [XdpP!Next]_(XdpP!vars)
<1>1. Xdp!Next => XdpP!Next
  BY ZenonT(30) DEF Xdp!Next, XdpP!Next, Xdp!Program, XdpP!Program, Xdp!RingFill, XdpP!RingFill,
         Xdp!Publish, XdpP!Publish, Xdp!LoopTest, XdpP!LoopTest,
         Xdp!EnterPoll, XdpP!EnterPoll, Xdp!PollIn, XdpP!PollIn,
         Xdp!ReadIndices, XdpP!ReadIndices, Xdp!Handle, XdpP!Handle,
         Xdp!SubmitFill, XdpP!SubmitFill, Xdp!SubmitRx, XdpP!SubmitRx,
         Xdp!PollError, XdpP!PollError, Xdp!Signal, XdpP!Signal,
         Xdp!KernelReceive, XdpP!KernelReceive, Xdp!KernelFlush,
         XdpP!KernelFlush, Xdp!Store, XdpP!Store, Xdp!Filled, XdpP!Filled,
         Xdp!Frame, XdpP!Frame, Xdp!Available, XdpP!Available, Xdp!Refill,
         XdpP!Refill, Xdp!Slot, XdpP!Slot, Xdp!Succ, XdpP!Succ, Xdp!Dist,
         XdpP!Dist, Xdp!fill, XdpP!fill, Xdp!rx, XdpP!rx, Xdp!kernel,
         XdpP!kernel, Xdp!local, XdpP!local, Xdp!Passing, XdpP!Passing,
         Xdp!Slots, XdpP!Slots, Xdp!Index, XdpP!Index, Xdp!Chunks, XdpP!Chunks
<1>2. UNCHANGED Xdp!vars => UNCHANGED XdpP!vars
  BY DEF Xdp!vars, XdpP!vars, Xdp!fill, XdpP!fill, Xdp!rx, XdpP!rx, Xdp!kernel,
         XdpP!kernel, Xdp!local, XdpP!local
<1> QED
  BY <1>1, <1>2

\* And so do its states: the two modules define the same things.
LEMMA XdpState ==
    /\ Xdp!Idle /\ run = TRUE /\ pc = "fill" /\ last = NoFrame => XdpP!Init
    /\ Xdp!Queue = XdpP!Queue /\ Xdp!Queue' = XdpP!Queue'
    /\ XdpP!Passing = Passing /\ XdpP!NoFrame = NoFrame
    /\ XdpP!OneOwner => Xdp!OneOwner
    /\ XdpP!FillRingRoom => Xdp!FillRingRoom
<1>1. Xdp!Idle /\ run = TRUE /\ pc = "fill" /\ last = NoFrame => XdpP!Init
  BY DEF Xdp!Idle, XdpP!Idle, Xdp!Slots, XdpP!Slots, Xdp!Chunks, XdpP!Chunks,
         Xdp!NoFrame, XdpP!NoFrame,
         XdpP!Init, NoFrame
<1>2. Xdp!Queue = XdpP!Queue /\ Xdp!Queue' = XdpP!Queue'
  BY DEF Xdp!Queue, XdpP!Queue, Xdp!Dist, XdpP!Dist, Xdp!Unread, XdpP!Unread,
         Xdp!Frame, XdpP!Frame, Xdp!Slot, XdpP!Slot
<1>3. XdpP!Passing = Passing /\ XdpP!NoFrame = NoFrame
  BY DEF XdpP!Passing, Passing, XdpP!NoFrame, NoFrame
<1>4. XdpP!OneOwner => Xdp!OneOwner
  BY DEF Xdp!OneOwner, XdpP!OneOwner, Xdp!Dist, XdpP!Dist, Xdp!Unread, XdpP!Unread,
         Xdp!Written, XdpP!Written, Xdp!Offered, XdpP!Offered, Xdp!Received,
         XdpP!Received, Xdp!Slot, XdpP!Slot, Xdp!Chunks, XdpP!Chunks,
         Xdp!Cardinality, XdpP!Cardinality, Xdp!IsFiniteSet, XdpP!IsFiniteSet
<1>5. XdpP!FillRingRoom => Xdp!FillRingRoom
  BY DEF Xdp!FillRingRoom, XdpP!FillRingRoom, Xdp!Dist, XdpP!Dist, Xdp!Written,
         XdpP!Written
<1> QED
  BY <1>1, <1>2, <1>3, <1>4, <1>5

\* What XdpRingProofs shows of one step.
LEMMA XdpKeeps ==
    ASSUME XdpP!XdpInv, [Xdp!Next]_(Xdp!vars)
    PROVE  /\ XdpP!XdpInv'
           /\ Moves(Xdp!Queue, Xdp!Queue')
           /\ last' \in Passing \union {NoFrame}
<1>1. [XdpP!Next]_(XdpP!vars)
  BY XdpNext
<1>2. XdpP!XdpInv'
  BY <1>1, CaptureAssumption, XdpP!XdpStep
<1>3. \/ XdpP!Queue' = XdpP!Queue /\ last' = last
      \/ (\E p \in XdpP!Passing : XdpP!Queue' = Append(XdpP!Queue, p)) /\ last' = last
      \/ /\ XdpP!Queue # << >> /\ last' = Head(XdpP!Queue)
         /\ XdpP!Queue' = Tail(XdpP!Queue)
  BY <1>1, <1>2, CaptureAssumption, XdpP!XdpQueueStep
<1>4. last' \in XdpP!Passing \union {XdpP!NoFrame}
  BY <1>2, ZenonT(30) DEF XdpP!XdpInv, XdpP!TypeOK, XdpP!Passing, XdpP!NoFrame
<1> QED
  BY <1>2, <1>3, <1>4, XdpState, PassingIn DEF Moves

\* And of one state.
LEMMA XdpHolds ==
    /\ Xdp!Idle /\ run = TRUE /\ pc = "fill" /\ last = NoFrame
          => XdpP!XdpInv /\ Xdp!Queue = << >>
    /\ XdpP!XdpInv => (XdpP!Counts => Xdp!OneOwner) /\ Xdp!FillRingRoom
<1>1. XdpP!Init => XdpP!XdpInv
  BY CaptureAssumption, XdpP!XdpInit
<1>2. XdpP!Init => XdpP!Queue = << >>
  BY CaptureAssumption, XdpP!XdpQueueInit
<1>3. XdpP!XdpInv => (XdpP!Counts => XdpP!OneOwner) /\ XdpP!FillRingRoom
  BY CaptureAssumption, XdpP!XdpSafe
<1> QED
  BY <1>1, <1>2, <1>3, XdpState

\* The part of the program's invariant that is about capture_xdp.
XdpPart == type = "xdp" => XdpP!XdpInv /\ Unstray

\* The program starts with it, in the initial state of PacketFifo.
LEMMA XdpBegins ==
    ASSUME Init, type = "xdp"
    PROVE  XdpP!XdpInv /\ Unstray /\ Fifo!Init
<1>1. Xdp!Idle /\ Unstray /\ last = NoFrame /\ pc = "fill" /\ run = TRUE
  BY UnstrayInit DEF Init
<1> QED
  BY <1>1, XdpHolds, FifoStarts

\* Every step keeps it, and is one that PacketFifo allows.
LEMMA XdpGoesOn ==
    ASSUME type = "xdp", XdpPart, [Next]_vars
    PROVE  XdpP!XdpInv' /\ Unstray' /\ [Fifo!Next]_(Fifo!vars)
<1>1. /\ XdpP!XdpInv' /\ Moves(Xdp!Queue, Xdp!Queue') /\ type' = type
      /\ inspected' = inspected /\ (last' = last \/ last' \in Passing \union {NoFrame})
  BY OneMethod, XdpKeeps DEF XdpPart
<1>2. Unstray'
  BY <1>1, UnstrayStep DEF XdpPart
<1> QED
  BY <1>1, <1>2, FifoMoves

\* So it holds in every behaviour of the program.
LEMMA XdpRuns == Spec => []XdpPart
<1>1. Init => XdpPart
  BY XdpBegins DEF XdpPart
<1>2. XdpPart /\ [Next]_vars => XdpPart'
  BY OneMethod, XdpGoesOn DEF XdpPart
<1> QED
  BY <1>1, <1>2, PTL DEF Spec

\* capture_xdp never overruns the fill ring, although it never tests for room
\* (dns_insp.c:817-827).
THEOREM FillRingHasRoom == Spec => []FillRingRoom
<1>1. XdpPart => FillRingRoom
  BY XdpHolds DEF XdpPart, FillRingRoom
<1> QED
  BY <1>1, XdpRuns, PTL

----------------------------------------------------------------------------
(***************************************************************************)
(* The program: whichever method runs.                                     *)
(***************************************************************************)

\* The inductive invariant.
CaptureInv == OneRuns /\ RawPart /\ MmapPart /\ XdpPart

\* It holds in every behaviour of the program.
THEOREM CaptureInvariant == Spec => []CaptureInv
  BY OneRunsOn, RawRuns, MmapRuns, XdpRuns, PTL DEF CaptureInv

\* Only a raw capture inspects a frame its filter would refuse, and only among
\* as many frames as its receive buffer held when the filter was attached
\* (dns_insp.c:346-396).
THEOREM StraysAreEarly == Spec => []OnlyEarlyStrays
<1>1. CaptureInv => OnlyEarlyStrays
  BY StraysOf DEF CaptureInv, OneRuns, RawPart, MmapPart, XdpPart
<1> QED
  BY <1>1, CaptureInvariant, PTL

\* Whichever method is chosen, and however many frames, blocks and chunks there
\* are: a frame the kernel accepts is inspected once, unchanged and in its turn
\* (dns_insp.c:398-425, 491-542, 787-832).
THEOREM CaptureImplementsFifo == Spec => RefinesFifo
<1>1. Init => Fifo!Init
  BY RawBegins, MmapBegins, XdpBegins DEF Init
<1>2. CaptureInv /\ [Next]_vars => [Fifo!Next]_(Fifo!vars)
  BY RawGoesOn, MmapGoesOn, XdpGoesOn DEF CaptureInv, OneRuns
<1> QED
  BY <1>1, <1>2, CaptureInvariant, PTL DEF Spec, RefinesFifo, Fifo!Spec

----------------------------------------------------------------------------
(***************************************************************************)
(* The number of chunks of the XDP capture.                                *)
(***************************************************************************)
Finite == INSTANCE FiniteSetTheorems

\* FiniteSetTheorems speaks of the Cardinality that XdpRing uses.
LEMMA XdpCounts == XdpP!Counts
<1>1. Finite!Cardinality({}) = 0 /\ \A c : Finite!Cardinality({c}) = 1
  BY Finite!FS_EmptySet, Finite!FS_Singleton
<1> QED
  BY <1>1, ZenonT(30) DEF XdpP!Counts, XdpP!Cardinality, XdpP!IsFiniteSet,
         Finite!Cardinality, Finite!IsFiniteSet

\* capture_xdp never lets two rings, or the kernel and a ring, hold one chunk
\* of the shared memory, nor loses a chunk, whatever the order in which the
\* program and the kernel move the ring indices (dns_insp.c:808-828).
THEOREM ChunksHaveOneOwner == Spec => []OneOwner
<1>1. XdpPart => OneOwner
  BY XdpHolds, XdpCounts DEF XdpPart, OneOwner
<1> QED
  BY <1>1, XdpRuns, PTL
============================================================================
