-------------------------- MODULE DnsDecodeProofs --------------------------
(***************************************************************************)
(* Proofs about DnsDecode: that dns_validate's verdict is sound and, where *)
(* the description fits, complete, and that dns_msg_decode loads in order. *)
(***************************************************************************)
EXTENDS DnsDecode, TLAPS

\* What the program decodes while it is between the header and the size check.
Parts == Sections \union {"END"}

\* Elements the header counts in front of a section.
Before(s) ==
    CASE s = "QD" -> 0
      [] s = "AN" -> header.count["QD"]
      [] s = "NS" -> header.count["QD"] + header.count["AN"]
      [] s = "AR" -> header.count["QD"] + header.count["AN"] + header.count["NS"]
      [] OTHER    -> Total

\* Sections in front of a section.
Order(s) ==
    CASE s \in {"HDR", "QD"} -> 0 [] s = "AN" -> 1 [] s = "NS" -> 2 [] s = "AR" -> 3 [] OTHER -> 4

\* What decode_hdr finds nothing wrong with.
Accepted == ~header.short /\ CheckedCode \notin header.bad

\* dns_validate.  As long as the stack is empty, every element so far was found
\* well formed and in its place; so an empty stack at the end is a verdict.
\* The other way round, a well-formed packet leaves the stack empty and takes
\* one line per element.
Sound ==
    /\ sect \in Parts /\ nerr = 0 =>
          /\ Accepted
          /\ pos = Before(sect) + i + 1
          /\ sect \in Sections => i <= count[sect]
          /\ \A k \in 1..(pos - 1) : wire[k]
    /\ sect = "RET" /\ nerr = 0 /\ rc = 0 => Framed /\ Accepted
    /\ sect = "DONE" /\ rc = 0 => Framed /\ Accepted

Roomy == Total + 1 + (IF big THEN 1 ELSE 0) <= EmsgLines

Complete ==
    WellFormed /\ Roomy =>
        /\ nerr = 0 /\ rc = 0
        /\ sect \in Parts => room = EmsgLines - pos

\* dns_msg_decode of a packet that holds what its header counts.  As long as no
\* refused text left the offset inside its record, each section takes at most
\* one element, with one error, and stays in step; what is loaded lies behind
\* what was loaded before.
Straight ==
    load_msg /\ Framed /\ header.count["QD"] <= 1 /\ "inside" \notin refused

Loads ==
    /\ sect \in Parts =>
          /\ i = 0 /\ nerr <= Order(sect)
          /\ pos \in 1..(Before(sect) + 1)
          /\ sect # "QD" => pos > header.count["QD"]
    /\ rc = 0

InTurn ==
    /\ \A s \in Sections : Len(loaded[s]) <= 1
    /\ \A s \in Sections : Order(s) >= Order(sect) => loaded[s] = << >>
    /\ \A s \in Sections :
          loaded[s] # << >> => loaded[s][1] > 0 /\ loaded[s][1] < pos
    /\ \A s, t \in Sections :
          Order(s) < Order(t) /\ loaded[s] # << >> /\ loaded[t] # << >> =>
              loaded[s][1] < loaded[t][1]

DecTypes ==
    /\ TypeOK
    /\ load_msg \in BOOLEAN /\ wire \in Seq(BOOLEAN) /\ big \in BOOLEAN
    /\ header \in HeaderSays
    /\ sect = "HDR" => /\ pos = 1 /\ i = 0 /\ nerr = 0 /\ rc = 0 /\ room = EmsgLines
                       /\ count = None
    /\ sect \in Parts => rc = 0 /\ (header.short \/ count = header.count)
    /\ sect = "END" => i = 0

\* The inductive invariant.
DecInv ==
    /\ DecTypes
    /\ ~load_msg => Sound /\ Complete
    /\ Straight => Loads /\ InTurn

----------------------------------------------------------------------------
(***************************************************************************)
(* The operators of the model.                                             *)
(***************************************************************************)

\* What the types say of the packet and of the cursor.
LEMMA DecTyped ==
    ASSUME DecTypes
    PROVE  /\ i \in Nat /\ pos \in Positions /\ nerr \in 0..DNS_MAX_EMSG
           /\ loaded \in [Sections -> Seq(Positions)] /\ count \in [Sections -> Nat]
           /\ wire \in Seq(BOOLEAN) /\ Len(wire) \in Nat
           /\ header.count \in [Sections -> Nat]
           /\ header.count["QD"] \in Nat
<1>1. /\ i \in Nat /\ pos \in Positions /\ nerr \in 0..DNS_MAX_EMSG
      /\ loaded \in [Sections -> Seq(Positions)] /\ count \in [Sections -> Nat]
  BY DEF DecTypes, TypeOK
<1>2. wire \in Seq(BOOLEAN)
  BY DEF DecTypes
<1>3. Len(wire) \in Nat
  BY <1>2
<1>4. header.count \in [Sections -> Nat]
  BY DEF DecTypes, HeaderSays
<1>5. header.count["QD"] \in Nat
  <2>1. "QD" \in Sections
    BY DEF Sections
  <2> QED
    BY <1>4, <2>1
<1> QED
  BY <1>1, <1>2, <1>3, <1>4, <1>5

\* The section behind s starts where s ends, and no section reaches beyond what
\* the header counts.
LEMMA NextOf ==
    ASSUME DecTypes, NEW s \in Sections
    PROVE  /\ NextSect(s) \in Parts /\ NextSect(s) # "QD"
           /\ Order(s) \in 0..3 /\ Order(NextSect(s)) = Order(s) + 1
           /\ header.count[s] \in Nat /\ Before(s) \in Nat /\ Total \in Nat
           /\ Before(NextSect(s)) = Before(s) + header.count[s]
           /\ Before(s) + header.count[s] <= Total
           /\ s = "QD" => Before(s) = 0
           /\ s # "QD" => header.count["QD"] <= Before(s)
<1>1. /\ header.count["QD"] \in Nat /\ header.count["AN"] \in Nat
      /\ header.count["NS"] \in Nat /\ header.count["AR"] \in Nat
  BY DEF DecTypes, Sections, HeaderSays
<1>2. CASE s = "QD"
  BY <1>1, <1>2 DEF NextSect, Parts, Sections, Order, Before, Total
<1>3. CASE s = "AN"
  BY <1>1, <1>3 DEF NextSect, Parts, Sections, Order, Before, Total
<1>4. CASE s = "NS"
  BY <1>1, <1>4 DEF NextSect, Parts, Sections, Order, Before, Total
<1>5. CASE s = "AR"
  BY <1>1, <1>5 DEF NextSect, Parts, Sections, Order, Before, Total
<1> QED
  BY <1>2, <1>3, <1>4, <1>5 DEF Sections

\* What is derived from the packet stays as long as the packet does.
LEMMA InputStays ==
    ASSUME UNCHANGED input
    PROVE  /\ Before(sect)' = Before(sect') /\ Order(sect)' = Order(sect')
           /\ WellFormed' = WellFormed /\ Roomy' = Roomy /\ Positions' = Positions
           /\ Framed' = Framed /\ Accepted' = Accepted
           /\ header' = header /\ wire' = wire /\ load_msg' = load_msg /\ big' = big
<1>1. header' = header /\ wire' = wire /\ load_msg' = load_msg /\ big' = big
  BY DEF input
<1>2. Before(sect)' = Before(sect') /\ Order(sect)' = Order(sect')
  BY <1>1 DEF Before, Order, Total
<1>3. /\ WellFormed' = WellFormed /\ Roomy' = Roomy /\ Positions' = Positions
      /\ Framed' = Framed /\ Accepted' = Accepted
  BY <1>1 DEF WellFormed, Framed, Accepted, CheckedCode, Roomy, Positions, Total
<1> QED
  BY <1>1, <1>2, <1>3

\* A well-formed packet is one that decode_hdr accepts.
LEMMA WellFormedIs ==
    ASSUME WellFormed
    PROVE  Framed /\ Accepted /\ ~header.short
  BY DEF WellFormed, Framed, Accepted, CheckedCode

\* dns_dec_err: the stack takes the error, or is full.
LEMMA PushIs ==
    ASSUME NEW n \in 0..DNS_MAX_EMSG
    PROVE  \/ n < DNS_MAX_EMSG /\ Pushed(n) = n + 1 /\ PushRc(n) = 0
           \/ n = DNS_MAX_EMSG /\ Pushed(n) = n /\ PushRc(n) = DEC_ERR
  BY BoundsAssumption DEF Pushed, PushRc, StackFull

\* What a row's return does to the loop, case by case.
LEMMA Returns ==
    ASSUME NEW r \in Int, NEW n \in 0..DNS_MAX_EMSG, RowReturns(r, n)
    PROVE  \/ r = 0 /\ nerr' = n /\ i' = i + 1 /\ sect' = sect /\ rc' = rc
           \/ /\ r # 0 /\ n < DNS_MAX_EMSG /\ nerr' = n + 1 /\ i' = 0 /\ rc' = 0
              /\ sect' = NextSect(sect)
           \/ /\ r # 0 /\ n = DNS_MAX_EMSG /\ nerr' = n /\ i' = 0 /\ rc' = DEC_ERR
              /\ sect' = "RET"
<1>1. DEC_ERR # 0
  BY DEF DEC_ERR
<1> QED
  BY <1>1, PushIs DEF RowReturns

\* An element that is met in its place passes exactly if it is well formed.
LEMMA OutcomeIs ==
    ASSUME DecTypes, sect \in Sections, NEW o \in Outcomes(sect)
    PROVE  /\ o.pos \in Positions /\ o.ok \in BOOLEAN
           /\ pos = Len(wire) + 1 => ~o.ok
           /\ pos \in 1..Len(wire) /\ (IsQuestion(pos) <=> sect = "QD") =>
                 /\ o.ok <=> wire[pos]
                 /\ wire[pos] => o.pos = pos + 1
<1>1. wire \in Seq(BOOLEAN) /\ pos \in Positions /\ Len(wire) \in Nat
  BY DEF DecTypes, TypeOK
<1>2. CASE pos = Len(wire) + 1
  <2>1. o = [ok |-> FALSE, pos |-> pos]
    BY <1>2 DEF Outcomes
  <2> QED
    BY <1>1, <1>2, <2>1
<1>3. CASE pos # Len(wire) + 1 /\ pos > 0 /\ IsQuestion(pos) = (sect = "QD")
  <2>1. pos \in 1..Len(wire) /\ wire[pos] \in BOOLEAN /\ pos + 1 \in Positions /\ 0 \in Positions
    BY <1>1, <1>3 DEF Positions
  <2>2. CASE wire[pos]
    <3>1. o = [ok |-> TRUE, pos |-> pos + 1]
      BY <1>3, <2>2 DEF Outcomes
    <3> QED
      BY <1>1, <1>3, <2>1, <2>2, <3>1
  <2>3. CASE ~wire[pos]
    <3>1. o = [ok |-> FALSE, pos |-> 0]
      BY <1>3, <2>3 DEF Outcomes
    <3> QED
      BY <1>1, <1>3, <2>1, <2>3, <3>1
  <2> QED
    BY <2>2, <2>3
<1>4. CASE pos # Len(wire) + 1 /\ ~(pos > 0 /\ IsQuestion(pos) = (sect = "QD"))
  <2>1. o \in [ok : BOOLEAN, pos : Positions]
    BY <1>4 DEF Outcomes
  <2>2. ~(pos \in 1..Len(wire) /\ (IsQuestion(pos) <=> sect = "QD"))
    BY <1>1, <1>4 DEF IsQuestion
  <2> QED
    BY <1>4, <2>1, <2>2
<1> QED
  BY <1>2, <1>3, <1>4


----------------------------------------------------------------------------
(***************************************************************************)
(* One row of a section.                                                   *)
(***************************************************************************)

\* The ways dns_qd_decode and dns_rr_decode come back: the section is full, the
\* element fails, it is described, loaded, or one of its texts is refused.
RowFull ==
    /\ load_msg /\ Len(loaded[sect]) >= Max(sect)
    /\ RowReturns(-1, nerr) /\ UNCHANGED <<pos, room, loaded, refused>>
RowFails(o) ==
    /\ ~o.ok /\ pos' = o.pos
    /\ \/ RowReturns(PushRc(nerr), Pushed(nerr))
       \/ sect # "QD" /\ RowReturns(-1, nerr)
    /\ UNCHANGED <<room, loaded, refused>>
RowDescribed(o) ==
    /\ o.ok /\ ~load_msg /\ pos' = o.pos
    /\ room' = IF LineFits(room) THEN room - 1 ELSE room
    /\ RowReturns(IF LineFits(room) THEN 0 ELSE -1, nerr)
    /\ UNCHANGED <<loaded, refused>>
RowLoaded(o) ==
    /\ o.ok /\ load_msg /\ pos' = o.pos
    /\ loaded' = [loaded EXCEPT ![sect] = Append(@, pos)]
    /\ RowReturns(1, nerr) /\ UNCHANGED <<room, refused>>
RowNoSpace(o) ==
    /\ o.ok /\ load_msg
    /\ \/ pos' = o.pos /\ refused' = refused \union {"behind"}
       \/ sect # "QD" /\ pos' = 0 /\ refused' = refused \union {"inside"}
    /\ RowReturns(-1, nerr) /\ UNCHANGED <<room, loaded>>

\* These are all.
LEMMA RowWays ==
    ASSUME Row
    PROVE  /\ sect \in Sections /\ i < count[sect] /\ UNCHANGED input /\ count' = count
           /\ \/ RowFull
              \/ /\ load_msg => Len(loaded[sect]) < Max(sect)
                 /\ \E o \in Outcomes(sect) :
                       RowFails(o) \/ RowDescribed(o) \/ RowLoaded(o) \/ RowNoSpace(o)
  BY DEF Row, RowFull, RowFails, RowDescribed, RowLoaded, RowNoSpace

\* A row keeps the types, and the errors on the stack.
LEMMA RowTypes ==
    ASSUME DecTypes, Row
    PROVE  DecTypes' /\ nerr' >= nerr
<1>1. /\ sect \in Sections /\ i < count[sect] /\ UNCHANGED input /\ count' = count
  BY RowWays
<1>2. /\ TypeOK /\ wire \in Seq(BOOLEAN) /\ nerr \in 0..DNS_MAX_EMSG /\ i \in Nat
      /\ Pushed(nerr) \in 0..DNS_MAX_EMSG /\ Pushed(nerr) >= nerr
      /\ PushRc(nerr) \in Int /\ DEC_ERR = -1
      /\ pos \in Positions /\ 0 \in Positions /\ room \in 0..EmsgLines
      /\ refused \subseteq {"behind", "inside"} /\ loaded \in [Sections -> Seq(Positions)] /\ rc = 0
  <2>1. /\ TypeOK /\ wire \in Seq(BOOLEAN) /\ nerr \in 0..DNS_MAX_EMSG /\ i \in Nat
        /\ pos \in Positions /\ room \in 0..EmsgLines /\ refused \subseteq {"behind", "inside"}
        /\ loaded \in [Sections -> Seq(Positions)] /\ rc = 0
    BY <1>1 DEF DecTypes, TypeOK, Parts
  <2>2. DEC_ERR = -1 /\ 0 \in Positions
    BY <2>1 DEF DEC_ERR, Positions
  <2>3. Pushed(nerr) \in 0..DNS_MAX_EMSG /\ Pushed(nerr) >= nerr /\ PushRc(nerr) \in Int
    <3>1. nerr \in 0..DNS_MAX_EMSG /\ DNS_MAX_EMSG \in Nat
      BY <2>1, BoundsAssumption
    <3>2. \/ Pushed(nerr) = nerr + 1 /\ PushRc(nerr) = 0 /\ nerr < DNS_MAX_EMSG
          \/ Pushed(nerr) = nerr /\ PushRc(nerr) = -1
      BY <2>2, <3>1, PushIs
    <3> QED
      BY <3>1, <3>2
  <2> QED
    BY <2>1, <2>2, <2>3
<1>3. ASSUME NEW r \in Int, NEW n \in nerr..DNS_MAX_EMSG, RowReturns(r, n)
      PROVE  /\ nerr' \in nerr..DNS_MAX_EMSG /\ i' \in Nat /\ rc' \in {DEC_ERR, 0}
             /\ sect' \in Parts \union {"RET"} /\ (sect' \in Parts => rc' = 0)
             /\ sect' = "END" => i' = 0
  <2>1. n \in 0..DNS_MAX_EMSG /\ DNS_MAX_EMSG \in Nat
    BY <1>2, BoundsAssumption
  <2>2. sect \in Parts /\ sect # "END" /\ NextSect(sect) \in Parts /\ "RET" \notin Parts
    BY <1>1, NextOf DEF Parts, Sections
  <2> QED
    BY <1>2, <1>3, <2>1, <2>2, Returns, SMTT(30)
<1> DEFINE Kept ==
        /\ pos' \in Positions /\ room' \in 0..EmsgLines /\ refused' \subseteq {"behind", "inside"}
        /\ loaded' \in [Sections -> Seq(Positions)]
        /\ \E r \in Int, n \in nerr..DNS_MAX_EMSG : RowReturns(r, n)
<1>4. Kept
  <2>1. nerr \in nerr..DNS_MAX_EMSG /\ Pushed(nerr) \in nerr..DNS_MAX_EMSG
    BY <1>2, BoundsAssumption
  <2>2. CASE RowFull
    BY <1>2, <2>1, <2>2 DEF RowFull
  <2>3. ASSUME NEW o \in Outcomes(sect), RowFails(o)
        PROVE  Kept
    BY <1>1, <1>2, <2>1, <2>3, OutcomeIs DEF RowFails
  <2>4. ASSUME NEW o \in Outcomes(sect), RowDescribed(o)
        PROVE  Kept
    <3>1. room' \in 0..EmsgLines
      BY <1>2, <2>4, BoundsAssumption DEF RowDescribed, LineFits
    <3>2. (IF LineFits(room) THEN 0 ELSE -1) \in Int
      OBVIOUS
    <3> QED
      BY <1>1, <1>2, <2>1, <2>4, <3>1, <3>2, OutcomeIs DEF RowDescribed
  <2>5. ASSUME NEW o \in Outcomes(sect), RowLoaded(o)
        PROVE  Kept
    <3>1. loaded' \in [Sections -> Seq(Positions)]
      BY <1>1, <1>2, <2>5 DEF RowLoaded
    <3> QED
      BY <1>1, <1>2, <2>1, <2>5, <3>1, OutcomeIs DEF RowLoaded
  <2>6. ASSUME NEW o \in Outcomes(sect), RowNoSpace(o)
        PROVE  Kept
    <3>1. refused' \subseteq {"behind", "inside"}
      BY <1>2, <2>6 DEF RowNoSpace
    <3>2. pos' \in Positions
      BY <1>1, <1>2, <2>6, OutcomeIs DEF RowNoSpace
    <3> QED
      BY <1>2, <2>1, <2>6, <3>1, <3>2 DEF RowNoSpace
  <2> QED
    BY <2>2, <2>3, <2>4, <2>5, <2>6, RowWays
<1>5. /\ nerr' \in nerr..DNS_MAX_EMSG /\ i' \in Nat /\ rc' \in {DEC_ERR, 0}
      /\ sect' \in Parts \union {"RET"} /\ (sect' \in Parts => rc' = 0)
      /\ sect' = "END" => i' = 0
  BY <1>3, <1>4
<1>6. nerr' \in 0..DNS_MAX_EMSG /\ nerr' >= nerr
  BY <1>2, <1>5, BoundsAssumption
<1>7. TypeOK'
  BY <1>1, <1>2, <1>4, <1>5, <1>6, InputStays, Zenon DEF TypeOK, Parts
<1> QED
  BY <1>1, <1>5, <1>6, <1>7, InputStays DEF DecTypes, Parts, Sections

\* dns_validate: with an empty stack before and after, the row was an element
\* met in its place and found well formed.
LEMMA RowSound ==
    ASSUME DecTypes, Sound, ~load_msg, Row
    PROVE  Sound'
<1>1. /\ sect \in Sections /\ i < count[sect] /\ UNCHANGED input /\ count' = count
  BY RowWays
<1>2. DecTypes' /\ nerr' >= nerr /\ nerr \in 0..DNS_MAX_EMSG /\ nerr' \in 0..DNS_MAX_EMSG
  BY RowTypes, Zenon DEF DecTypes, TypeOK
<1>3. sect' \in Parts \union {"RET"} /\ (sect' = "RET" => rc' # 0)
  <2>1. \E r \in Int, n \in 0..DNS_MAX_EMSG : RowReturns(r, n)
    <3>1. Pushed(nerr) \in 0..DNS_MAX_EMSG /\ PushRc(nerr) \in Int
      BY <1>2, BoundsAssumption, PushIs DEF DEC_ERR
    <3>2. (IF LineFits(room) THEN 0 ELSE -1) \in Int
      OBVIOUS
    <3> QED
      BY <1>2, <3>1, <3>2, RowWays DEF RowFull, RowFails, RowDescribed, RowLoaded, RowNoSpace
  <2>2. NextSect(sect) \in Parts /\ sect \in Parts /\ "RET" \notin Parts /\ DEC_ERR # 0
    BY <1>1, NextOf DEF Parts, Sections, DEC_ERR
  <2> QED
    BY <2>1, <2>2, Returns
<1>4. SUFFICES ASSUME sect' \in Parts, nerr' = 0
               PROVE  /\ Accepted
                      /\ pos' = Before(sect') + i' + 1
                      /\ sect' \in Sections => i' <= count[sect']
                      /\ \A k \in 1..(pos' - 1) : wire[k]
  BY <1>1, <1>3, InputStays DEF Sound, Parts, Sections
<1>5. nerr = 0
  BY <1>2, <1>4
<1>6. /\ Accepted /\ count = header.count
      /\ pos = Before(sect) + i + 1 /\ \A k \in 1..(pos - 1) : wire[k]
  BY <1>1, <1>5 DEF Sound, Parts, DecTypes, Accepted
<1>7. /\ i \in Nat /\ wire \in Seq(BOOLEAN) /\ pos \in Positions /\ Len(wire) \in Nat
      /\ header.count["QD"] \in Nat
  BY DecTyped
<1>8. pos >= 1 /\ (IsQuestion(pos) <=> sect = "QD")
  BY <1>1, <1>6, <1>7, NextOf DEF IsQuestion
<1>9. PICK o \in Outcomes(sect) : RowFails(o) \/ RowDescribed(o)
  BY RowWays DEF RowFull, RowLoaded, RowNoSpace
<1>10. ~RowFails(o)
  <2> SUFFICES ASSUME RowFails(o)
               PROVE  FALSE
    OBVIOUS
  <2>1. Pushed(nerr) = 1 /\ PushRc(nerr) = 0
    BY <1>5, BoundsAssumption, PushIs
  <2>2. CASE RowReturns(0, 1)
    BY <1>4, <2>2, BoundsAssumption, Returns
  <2>3. CASE RowReturns(-1, nerr)
    BY <1>4, <1>5, <2>3, BoundsAssumption, Returns
  <2> QED
    BY <2>1, <2>2, <2>3 DEF RowFails
<1>11. o.ok /\ pos' = o.pos /\ RowReturns(0, nerr)
  <2>1. o.ok /\ pos' = o.pos /\ RowReturns(IF LineFits(room) THEN 0 ELSE -1, nerr)
    BY <1>9, <1>10 DEF RowDescribed
  <2>2. ~RowReturns(-1, nerr)
    BY <1>4, <1>5, BoundsAssumption, Returns
  <2> QED
    BY <2>1, <2>2
<1>12. i' = i + 1 /\ sect' = sect
  BY <1>5, <1>11, BoundsAssumption, Returns
<1>13. pos \in 1..Len(wire)
  BY <1>1, <1>7, <1>8, <1>11, OutcomeIs DEF Positions
<1>14. wire[pos] /\ pos' = pos + 1
  BY <1>1, <1>8, <1>11, <1>13, OutcomeIs
<1>15. pos' = Before(sect') + i' + 1
  BY <1>1, <1>6, <1>7, <1>12, <1>14, NextOf
<1>16. i' <= count[sect']
  BY <1>1, <1>7, <1>12 DEF DecTypes, TypeOK
<1>17. \A k \in 1..(pos' - 1) : wire[k]
  BY <1>6, <1>7, <1>14
<1> QED
  BY <1>6, <1>15, <1>16, <1>17

\* And the other way round: a well-formed element is described in one line and
\* leaves the stack empty.
LEMMA RowComplete ==
    ASSUME DecTypes, Sound, Complete, ~load_msg, Row
    PROVE  Complete'
<1>1. sect \in Sections /\ i < count[sect] /\ UNCHANGED input /\ count' = count
  BY RowWays
<1>2. SUFFICES ASSUME WellFormed, Roomy
               PROVE  nerr' = 0 /\ rc' = 0 /\ room' = EmsgLines - pos'
  BY <1>1, InputStays DEF Complete
<1>3. nerr = 0 /\ rc = 0 /\ room = EmsgLines - pos
  BY <1>1, <1>2 DEF Complete, Parts
<1>4. /\ i \in Nat /\ wire \in Seq(BOOLEAN) /\ pos \in Positions /\ Len(wire) \in Nat
      /\ header.count["QD"] \in Nat /\ Total \in Nat
  BY <1>1, DecTyped, NextOf
<1>5. count = header.count /\ pos = Before(sect) + i + 1
  BY <1>1, <1>2, <1>3, WellFormedIs DEF Sound, Parts, DecTypes
<1>6. pos \in 1..Total /\ pos \in 1..Len(wire) /\ wire[pos] /\ (IsQuestion(pos) <=> sect = "QD")
  <2>1. /\ Before(sect) \in Nat /\ header.count[sect] \in Nat
        /\ Before(sect) + header.count[sect] <= Total
        /\ sect = "QD" => Before(sect) = 0
        /\ sect # "QD" => header.count["QD"] <= Before(sect)
    BY <1>1, NextOf
  <2>2. pos \in 1..Total /\ (pos <= header.count["QD"] <=> sect = "QD")
    BY <1>1, <1>4, <1>5, <2>1, SMTT(30)
  <2> QED
    BY <1>2, <1>4, <2>2, WellFormedIs DEF IsQuestion, Framed
<1>7. PICK o \in Outcomes(sect) : RowFails(o) \/ RowDescribed(o)
  BY RowWays DEF RowFull, RowLoaded, RowNoSpace
<1>8. o.ok /\ o.pos = pos + 1
  BY <1>1, <1>6, OutcomeIs
<1>9. LineFits(room)
  BY <1>2, <1>3, <1>4, <1>6, BoundsAssumption DEF Roomy, LineFits
<1>10. pos' = pos + 1 /\ room' = room - 1 /\ RowReturns(0, nerr)
  BY <1>7, <1>8, <1>9 DEF RowFails, RowDescribed
<1>11. nerr' = 0 /\ rc' = 0
  BY <1>3, <1>10, BoundsAssumption, Returns
<1> QED
  BY <1>3, <1>4, <1>6, <1>10, <1>11, BoundsAssumption

\* dns_msg_decode: a row of a packet that holds what its header counts loads
\* the element it is at, skips it if a text is refused, or finds the section
\* full, with one error each way.
LEMMA RowInStep ==
    ASSUME DecTypes, Straight, Straight', Loads, InTurn, Row
    PROVE  /\ i' = 0 /\ nerr' = nerr + 1 /\ nerr <= Order(sect) /\ rc' = 0
           /\ sect' = NextSect(sect) /\ pos' \in 1..(Before(sect') + 1)
           /\ pos' > header.count["QD"]
           /\ \/ pos' \in {pos, pos + 1} /\ loaded' = loaded
              \/ /\ pos > 0 /\ pos' = pos + 1
                 /\ loaded' = [loaded EXCEPT ![sect] = << pos >>]
<1>1. sect \in Sections /\ i < count[sect] /\ UNCHANGED input /\ count' = count
  BY RowWays
<1>2. /\ i = 0 /\ nerr <= Order(sect) /\ pos \in 1..(Before(sect) + 1)
      /\ sect # "QD" => pos > header.count["QD"]
  BY <1>1 DEF Loads, Parts
<1>3. /\ wire \in Seq(BOOLEAN) /\ Len(wire) \in Nat /\ header.count["QD"] \in Nat
      /\ count = header.count /\ count[sect] \in Nat /\ nerr \in 0..DNS_MAX_EMSG
      /\ loaded \in [Sections -> Seq(Positions)]
  <2>1. count = header.count
    BY <1>1 DEF DecTypes, Parts, Straight, Framed
  <2> QED
    BY <1>1, <2>1, DecTyped
<1>4. /\ Before(sect) \in Nat /\ Total \in Nat /\ Before(sect) + header.count[sect] <= Total
      /\ Before(NextSect(sect)) = Before(sect) + header.count[sect]
      /\ sect = "QD" => Before(sect) = 0
      /\ Order(sect) \in 0..3
  BY <1>1, NextOf
<1>5. loaded[sect] = << >>
  BY <1>1, <1>4 DEF InTurn
<1>6. header.count[sect] >= 1 /\ (sect = "QD" => header.count["QD"] = 1 /\ pos = 1)
  BY <1>1, <1>2, <1>3, <1>4, SMTT(30) DEF Straight
<1>7. pos \in 1..Len(wire) /\ pos \in 1..Total
  BY <1>2, <1>3, <1>4, <1>6 DEF Straight, Framed
<1>8. wire[pos] /\ (IsQuestion(pos) <=> sect = "QD")
  BY <1>2, <1>3, <1>6, <1>7 DEF Straight, Framed, IsQuestion
<1>9. nerr < DNS_MAX_EMSG
  BY <1>2, <1>3, <1>4, BoundsAssumption, SMTT(30)
<1>10. ASSUME NEW r \in Int, r # 0, RowReturns(r, nerr)
       PROVE  i' = 0 /\ nerr' = nerr + 1 /\ rc' = 0 /\ sect' = NextSect(sect)
  BY <1>3, <1>9, <1>10, Returns
<1>11. CASE RowFull
  <2>1. sect # "QD"
    BY <1>5, <1>11, BoundsAssumption DEF RowFull, Max
  <2>2. pos' = pos /\ loaded' = loaded /\ RowReturns(-1, nerr)
    BY <1>11 DEF RowFull
  <2>3. pos' \in 1..(Before(NextSect(sect)) + 1)
    BY <1>2, <1>3, <1>4, <1>6, <2>2, SMTT(30)
  <2> QED
    BY <1>2, <1>10, <2>1, <2>2, <2>3
<1>12. ASSUME NEW o \in Outcomes(sect),
              RowFails(o) \/ RowDescribed(o) \/ RowLoaded(o) \/ RowNoSpace(o)
       PROVE  /\ pos' = pos + 1
              /\ \/ RowReturns(1, nerr) /\ loaded' = [loaded EXCEPT ![sect] = << pos >>]
                 \/ RowReturns(-1, nerr) /\ loaded' = loaded
  <2>1. o.ok /\ o.pos = pos + 1
    BY <1>1, <1>7, <1>8, OutcomeIs
  <2>2. RowLoaded(o) \/ RowNoSpace(o)
    BY <1>12, <2>1 DEF RowFails, RowDescribed, Straight
  <2>3. Append(loaded[sect], pos) = << pos >>
    BY <1>5
  <2> QED
    BY <1>1, <1>3, <2>1, <2>2, <2>3 DEF RowLoaded, RowNoSpace, Straight
<1>13. CASE ~RowFull
  <2>1. /\ pos' = pos + 1
        /\ \/ RowReturns(1, nerr) /\ loaded' = [loaded EXCEPT ![sect] = << pos >>]
           \/ RowReturns(-1, nerr) /\ loaded' = loaded
    BY <1>12, <1>13, RowWays
  <2>2. pos \in Nat /\ pos >= 1 /\ pos <= Before(sect) + 1 /\ pos' > header.count["QD"]
    BY <1>2, <1>3, <1>4, <1>6, <2>1, SMTT(30)
  <2>3. pos' \in 1..(Before(NextSect(sect)) + 1) /\ pos > 0
    BY <1>3, <1>4, <1>6, <2>1, <2>2, SMTT(30)
  <2> QED
    BY <1>2, <1>10, <2>1, <2>2, <2>3
<1> QED
  BY <1>11, <1>13

\* dns_msg_decode: so what a row loads lies behind what was loaded before.
LEMMA RowLoads ==
    ASSUME DecTypes, Straight, Straight', Loads, InTurn, Row
    PROVE  Loads' /\ InTurn'
<1>1. sect \in Sections /\ UNCHANGED input
  BY RowWays
<1>2. nerr \in Nat /\ pos \in Nat /\ loaded \in [Sections -> Seq(Positions)]
  BY BoundsAssumption DEF DecTypes, TypeOK, Positions
<1> QED
  <2>1. /\ i' = 0 /\ nerr' = nerr + 1 /\ nerr <= Order(sect) /\ rc' = 0
        /\ sect' = NextSect(sect) /\ pos' \in 1..(Before(sect') + 1)
        /\ pos' > header.count["QD"]
    BY RowInStep
  <2>2. Order(sect') = Order(sect) + 1 /\ Order(sect) \in 0..3
    BY <1>1, <2>1, NextOf
  <2>3. Loads'
    BY <1>1, <1>2, <2>1, <2>2, InputStays DEF Loads
  <2>4. \A s \in Sections : Order(s) \in 0..3
    BY NextOf
  <2>5. ASSUME NEW s \in Sections, Order(s) >= Order(sect')
        PROVE  s # sect /\ loaded[s] = << >>
    BY <1>1, <2>2, <2>4, <2>5 DEF InTurn
  <2>6. CASE pos' \in {pos, pos + 1} /\ loaded' = loaded
    <3>1. ASSUME NEW s \in Sections, loaded[s] # << >>
          PROVE  loaded[s][1] > 0 /\ loaded[s][1] < pos'
      <4>1. loaded[s][1] \in Positions
        BY <1>2, <3>1
      <4> QED
        BY <1>2, <2>6, <3>1, <4>1 DEF InTurn, Positions
    <3>2. InTurn'
      BY <1>1, <2>5, <2>6, <3>1, InputStays DEF InTurn, Order
    <3> QED
      BY <2>3, <3>2
  <2>7. CASE /\ pos > 0 /\ pos' = pos + 1
             /\ loaded' = [loaded EXCEPT ![sect] = << pos >>]
    <3>1. pos \in Nat
      BY DEF DecTypes, TypeOK, Positions
    <3>2. loaded'[sect] = << pos >> /\ Len(<< pos >>) = 1 /\ << pos >>[1] = pos
      BY <1>1, <1>2, <2>7
    <3>3. \A s \in Sections : s # sect => loaded'[s] = loaded[s]
      BY <1>2, <2>7
    <3>4. \A s \in Sections : Len(loaded'[s]) <= 1
      <4>1. ASSUME NEW s \in Sections
            PROVE  Len(loaded'[s]) <= 1
        <5>1. Len(loaded[s]) <= 1
          BY DEF InTurn
        <5>2. loaded'[sect] = << pos >> /\ Len(<< pos >>) <= 1
          BY <3>2
        <5>3. CASE s = sect
          BY <5>2, <5>3, Zenon
        <5>4. CASE s # sect
          BY <3>3, <5>1, <5>4
        <5> QED
          BY <5>3, <5>4
      <4> QED
        BY <4>1
    <3>5. \A s \in Sections : Order(s) >= Order(sect') => loaded'[s] = << >>
      BY <2>5, <3>3
    <3>6. \A s \in Sections : loaded[s] # << >> => loaded[s][1] > 0 /\ loaded[s][1] < pos
      BY DEF InTurn
    <3>7. \A s \in Sections : loaded[s] # << >> => loaded[s][1] \in Nat
      <4>1. ASSUME NEW s \in Sections, loaded[s] # << >>
            PROVE  loaded[s][1] \in Nat
        <5>1. loaded[s] \in Seq(Positions) /\ Len(loaded[s]) >= 1
          BY <1>2, <4>1
        <5>2. loaded[s][1] \in Positions
          BY <5>1
        <5> QED
          BY <5>2 DEF Positions
      <4> QED
        BY <4>1
    <3>8. \A s \in Sections : loaded'[s] # << >> => loaded'[s][1] > 0 /\ loaded'[s][1] < pos'
      BY <2>7, <3>1, <3>2, <3>3, <3>6, <3>7
    <3>9. ASSUME NEW s \in Sections, NEW t \in Sections,
                 Order(s) < Order(t), loaded'[s] # << >>, loaded'[t] # << >>
          PROVE  loaded'[s][1] < loaded'[t][1]
      <4>1. s # t
        BY <2>4, <3>9
      <4>2. CASE s = sect
        <5>1. loaded[t] = << >>
          BY <2>4, <3>9, <4>2 DEF InTurn
        <5> QED
          BY <3>3, <3>9, <4>1, <4>2, <5>1
      <4>3. CASE t = sect
        BY <3>2, <3>3, <3>6, <3>9, <4>1, <4>3
      <4>4. CASE s # sect /\ t # sect
        BY <3>3, <3>9, <4>4 DEF InTurn
      <4> QED
        BY <4>2, <4>3, <4>4
    <3>10. InTurn'
      BY <3>4, <3>5, <3>8, <3>9 DEF InTurn, Order
    <3> QED
      BY <2>3, <3>10
  <2> QED
    BY <2>6, <2>7, RowInStep

\* A row keeps the invariant.
LEMMA RowInv ==
    ASSUME DecInv, Row
    PROVE  DecInv'
<1>1. UNCHANGED input
  BY RowWays
<1>2. DecTypes' /\ DecTypes
  BY RowTypes DEF DecInv
<1>3. ~load_msg => Sound' /\ Complete'
  BY RowSound, RowComplete DEF DecInv
<1>4. Straight' => Straight
  <2>1. refused \subseteq refused'
    BY RowWays DEF RowFull, RowFails, RowDescribed, RowLoaded, RowNoSpace
  <2> QED
    BY <1>1, <2>1, InputStays DEF Straight
<1>5. Straight' => Loads' /\ InTurn'
  BY <1>4, RowLoads DEF DecInv
<1> QED
  BY <1>1, <1>2, <1>3, <1>5, InputStays DEF DecInv

----------------------------------------------------------------------------
(***************************************************************************)
(* The other steps of decode_msg.                                          *)
(***************************************************************************)

\* decode_hdr, case by case: a short packet, no line for the description, and
\* a header that is accepted, with an error for a code it does not know.
LEMMA HeaderIs ==
    ASSUME DecTypes, Header
    PROVE  /\ sect = "HDR" /\ pos = 1 /\ i = 0 /\ nerr = 0 /\ rc = 0 /\ room = EmsgLines
           /\ UNCHANGED <<input, pos, i, loaded, refused>>
           /\ nerr' \in {0, 1}
           /\ ~load_msg => (nerr' = 0 <=> Accepted)
           /\ load_msg => (nerr' = 0 <=> ~header.short)
           /\ \/ header.short /\ sect' = "QD" /\ count' = None /\ room' = room /\ rc' = 0
              \/ /\ ~header.short /\ ~load_msg /\ EmsgLines = 0 /\ sect' = "RET"
                 /\ count' = header.count /\ room' = room /\ rc' = DEC_ERR
              \/ /\ ~header.short /\ ~load_msg /\ EmsgLines > 0 /\ sect' = "QD"
                 /\ count' = header.count /\ room' = room - 1 /\ rc' = 0
              \/ /\ ~header.short /\ load_msg /\ sect' = "QD"
                 /\ count' = header.count /\ room' = room /\ rc' = 0
<1>1. /\ sect = "HDR" /\ pos = 1 /\ i = 0 /\ nerr = 0 /\ rc = 0 /\ room = EmsgLines
      /\ count = None /\ EmsgLines \in Nat
      /\ load_msg \in BOOLEAN /\ header.short \in BOOLEAN
  BY BoundsAssumption DEF DecTypes, Header, HeaderSays
<1>2. Pushed(nerr) = 1 /\ PushRc(nerr) = 0
  BY <1>1, BoundsAssumption, PushIs
<1>3. NextSect(sect) = "QD" /\ (LineFits(room) <=> EmsgLines > 0)
  BY <1>1 DEF NextSect, LineFits
<1>4. /\ UNCHANGED <<input, pos, i, loaded, refused>>
      /\ nerr' = IF header.short \/ (~load_msg /\ CheckedCode \in header.bad) THEN 1 ELSE 0
  BY <1>1, <1>2 DEF Header
<1>5. CASE header.short
  BY <1>1, <1>2, <1>3, <1>4, <1>5 DEF Header, Accepted
<1>6. CASE ~header.short
  BY <1>1, <1>2, <1>3, <1>4, <1>6, SMTT(30) DEF Header, Accepted
<1> QED
  BY <1>5, <1>6

\* decode_hdr starts the sections with the stack, the offset and the lines in
\* step.
LEMMA HeaderInv ==
    ASSUME DecInv, Header
    PROVE  DecInv'
<1>1. DecTypes /\ UNCHANGED <<input, pos, i, loaded, refused>>
  BY HeaderIs DEF DecInv
<1>2. DecTypes'
  <2>1. None \in [Sections -> Nat]
    BY DEF None
  <2>2. "QD" \in Sections /\ "RET" \notin Parts /\ 1 \in 0..DNS_MAX_EMSG /\ 0 \in 0..DNS_MAX_EMSG
    BY BoundsAssumption DEF Sections, Parts
  <2>3. /\ nerr' \in 0..DNS_MAX_EMSG /\ count' \in [Sections -> Nat]
        /\ sect' \in {"QD", "RET"} /\ room' \in 0..EmsgLines /\ rc' \in {DEC_ERR, 0}
        /\ sect' = "QD" => rc' = 0 /\ (header.short \/ count' = header.count)
    BY <1>1, <2>1, <2>2, HeaderIs, BoundsAssumption DEF DecTypes, HeaderSays
  <2>4. TypeOK'
    BY <1>1, <2>3, <2>2, InputStays, Zenon DEF DecTypes, TypeOK
  <2> QED
    BY <1>1, <2>2, <2>3, <2>4, InputStays DEF DecTypes, Parts
<1>3. Before("QD") = 0 /\ Order("QD") = 0 /\ header.count["QD"] \in Nat
  BY <1>1 DEF Before, Order, DecTypes, Sections, HeaderSays
<1>4. Before(sect') = Before("QD") \/ sect' = "RET"
  BY <1>1, HeaderIs
<1>5. ASSUME ~load_msg
      PROVE  Sound' /\ Complete'
  <2>1. Sound'
    <3>1. CASE nerr' # 0
      <4>1. sect' # "DONE"
        BY <1>1, HeaderIs
      <4> QED
        BY <3>1, <4>1 DEF Sound
    <3>2. CASE nerr' = 0 /\ sect' = "QD"
      <4>1. /\ Accepted /\ pos' = 1 /\ i' = 0
            /\ count' = header.count
        BY <1>1, <1>5, <3>2, HeaderIs DEF Accepted
      <4>2. Before(sect)' = 0
        BY <1>1, <1>3, <3>2, InputStays
      <4>3. pos' = Before(sect)' + i' + 1 /\ i' <= count'[sect']
        BY <1>3, <3>2, <4>1, <4>2
      <4>4. \A k \in 1..(pos' - 1) : wire'[k]
        BY <4>1
      <4> QED
        BY <1>1, <3>2, <4>1, <4>3, <4>4, InputStays DEF Sound
    <3>3. CASE sect' = "RET"
      <4>1. rc' # 0 /\ sect' \notin Parts
        BY <1>1, <3>3, HeaderIs DEF DEC_ERR, Parts, Sections
      <4> QED
        BY <3>3, <4>1 DEF Sound
    <3> QED
      BY <1>1, <3>1, <3>2, <3>3, HeaderIs
  <2>2. ASSUME WellFormed, Roomy
        PROVE  nerr' = 0 /\ rc' = 0 /\ room' = EmsgLines - pos'
    <3>1. Accepted /\ ~header.short
      BY <2>2, WellFormedIs
    <3>2. Total \in Nat /\ big \in BOOLEAN /\ EmsgLines \in Nat
      <4>1. "QD" \in Sections
        BY DEF Sections
      <4> QED
        BY <1>1, <4>1, NextOf, BoundsAssumption DEF DecTypes
    <3>3. EmsgLines > 0
      BY <2>2, <3>2 DEF Roomy
    <3> QED
      BY <1>1, <1>5, <3>1, <3>2, <3>3, HeaderIs
  <2> QED
    BY <1>1, <2>1, <2>2, InputStays DEF Complete
<1>6. ASSUME Straight, Loads, InTurn
      PROVE  Loads' /\ InTurn'
  <2>1. /\ sect' = "QD" /\ nerr' = 0 /\ rc' = 0 /\ pos' = 1 /\ i' = 0 /\ sect = "HDR"
        /\ pos = 1 /\ loaded' = loaded
    BY <1>1, <1>6, HeaderIs DEF Straight, Framed
  <2>2. Before(sect)' = 0 /\ Order(sect)' = 0 /\ Order(sect) = 0
    BY <1>1, <1>3, <2>1, InputStays DEF Order
  <2>3. Loads'
    BY <2>1, <2>2 DEF Loads
  <2>4. InTurn'
    BY <1>6, <2>1, <2>2 DEF InTurn, Order
  <2> QED
    BY <2>3, <2>4
<1> QED
  BY <1>1, <1>2, <1>5, <1>6, InputStays, SMTT(30) DEF DecInv, Straight

\* A section's loop that is over leaves the offset where the next one starts.
LEMMA SectionDoneInv ==
    ASSUME DecInv, SectionDone
    PROVE  DecInv'
<1>1. /\ DecTypes /\ sect \in Sections /\ i >= count[sect] /\ sect' = NextSect(sect) /\ i' = 0
      /\ UNCHANGED <<input, count, pos, nerr, room, loaded, refused, rc>>
  BY DEF DecInv, SectionDone
<1>2. /\ sect' \in Parts /\ sect' # "QD" /\ "HDR" \notin Parts /\ "RET" \notin Parts
      /\ "DONE" \notin Parts /\ sect \in Parts
  BY <1>1, NextOf DEF Parts, Sections
<1>3. DecTypes'
  BY <1>1, <1>2, InputStays DEF DecTypes, TypeOK, Parts
<1>4. /\ Before(sect') = Before(sect) + header.count[sect] /\ Before(sect) \in Nat
      /\ header.count[sect] \in Nat /\ Order(sect') = Order(sect) + 1 /\ Order(sect) \in 0..3
      /\ sect = "QD" => Before(sect) = 0
  BY <1>1, NextOf
<1>5. i \in Nat /\ count \in [Sections -> Nat] /\ count' = count
  BY <1>1 DEF DecTypes, TypeOK
<1>6. ASSUME ~load_msg, Sound, Complete
      PROVE  Sound' /\ Complete'
  <2>1. ASSUME nerr' = 0
        PROVE  /\ Accepted /\ pos' = Before(sect') + i' + 1
               /\ sect' \in Sections => i' <= count'[sect']
               /\ \A k \in 1..(pos' - 1) : wire[k]
    <3>1. /\ Accepted /\ pos = Before(sect) + i + 1 /\ i <= count[sect]
          /\ \A k \in 1..(pos - 1) : wire[k]
      BY <1>1, <1>2, <1>6, <2>1 DEF Sound
    <3>2. i = header.count[sect]
      BY <1>1, <1>2, <1>4, <1>5, <3>1 DEF DecTypes, Accepted
    <3>3. pos' = Before(sect') + i' + 1
      BY <1>1, <1>4, <3>1, <3>2
    <3>4. sect' \in Sections => i' <= count'[sect']
      BY <1>1, <1>5
    <3> QED
      BY <1>1, <3>1, <3>3, <3>4
  <2>2. Sound'
    BY <1>1, <1>2, <2>1, InputStays DEF Sound
  <2>3. Complete'
    BY <1>1, <1>2, <1>6, InputStays, Zenon DEF Complete
  <2> QED
    BY <2>2, <2>3
<1>7. ASSUME Straight, Loads, InTurn
      PROVE  Loads' /\ InTurn'
  <2>1. nerr \in Nat /\ pos \in Int /\ header.count["QD"] \in Nat
    BY <1>1, DecTyped DEF Positions
  <2>2. /\ nerr <= Order(sect') /\ pos \in 1..(Before(sect') + 1)
        /\ pos > header.count["QD"]
    <3>1. /\ i = 0 /\ nerr <= Order(sect) /\ pos \in 1..(Before(sect) + 1)
          /\ sect # "QD" => pos > header.count["QD"]
      BY <1>2, <1>7 DEF Loads
    <3>2. sect = "QD" => header.count["QD"] = 0
      BY <1>1, <1>2, <1>4, <1>7, <3>1 DEF DecTypes, Straight, Framed
    <3> QED
      BY <1>4, <2>1, <3>1, <3>2
  <2>3. Loads'
    BY <1>1, <1>2, <1>7, <2>2, InputStays DEF Loads
  <2>4. \A s \in Sections : Order(s) \in 0..3
    BY <1>1, NextOf
  <2>5. ASSUME NEW s \in Sections, Order(s) >= Order(sect')
        PROVE  loaded[s] = << >>
    BY <1>4, <1>7, <2>4, <2>5 DEF InTurn
  <2>6. InTurn'
    BY <1>1, <1>7, <2>5 DEF InTurn, Order
  <2> QED
    BY <2>3, <2>6
<1> QED
  BY <1>1, <1>3, <1>6, <1>7, InputStays DEF DecInv, Straight

\* All sections decoded without an error: the packet is well formed.
LEMMA SizeCheckInv ==
    ASSUME DecInv, SizeCheck
    PROVE  DecInv'
<1>1. /\ DecTypes /\ sect = "END" /\ sect' = "RET"
      /\ UNCHANGED <<input, count, pos, i, nerr, loaded, refused>>
      /\ i = 0 /\ rc = 0 /\ room \in 0..EmsgLines /\ EmsgLines \in Nat
  BY BoundsAssumption DEF DecInv, SizeCheck, DecTypes, TypeOK, Parts
<1>2. /\ "END" \in Parts /\ "RET" \notin Parts /\ "RET" \notin Sections /\ "QD" \in Sections
      /\ Before("END") = Total /\ Order("END") = 4 /\ Order("RET") = 4
  BY DEF Parts, Sections, Before, Order
<1>3. /\ ~load_msg /\ big /\ room = 0 => rc' = -1 /\ room' = room
      /\ ~load_msg /\ big /\ room > 0 => rc' = 0 /\ room' = room - 1
      /\ load_msg \/ ~big => rc' = 0 /\ room' = room
  BY <1>1 DEF SizeCheck, LineFits
<1>4. rc' \in {DEC_ERR, 0} /\ room' \in 0..EmsgLines
  BY <1>1, <1>3 DEF DEC_ERR
<1>5. DecTypes'
  BY <1>1, <1>2, <1>4, InputStays DEF DecTypes, TypeOK
<1>6. Total \in Nat /\ Len(wire) \in Nat /\ pos \in 0..(Len(wire) + 1) /\ big \in BOOLEAN
  BY <1>1, <1>2, NextOf DEF DecTypes, TypeOK, Positions
<1>7. ASSUME ~load_msg, Sound, Complete
      PROVE  Sound' /\ Complete'
  <2>1. ASSUME nerr' = 0
        PROVE  Framed /\ Accepted
    <3>1. /\ Accepted /\ pos = Total + 1
          /\ \A k \in 1..(pos - 1) : wire[k]
      BY <1>1, <1>2, <1>6, <1>7, <2>1 DEF Sound
    <3> QED
      BY <1>6, <3>1 DEF Framed, Accepted
  <2>2. Sound'
    BY <1>1, <1>2, <2>1, InputStays DEF Sound
  <2>3. ASSUME WellFormed, Roomy
        PROVE  nerr' = 0 /\ rc' = 0
    <3>1. nerr = 0 /\ room = EmsgLines - pos
      BY <1>1, <1>2, <1>7, <2>3 DEF Complete
    <3>2. pos = Total + 1
      BY <1>1, <1>2, <1>6, <1>7, <3>1 DEF Sound
    <3>3. big => room > 0
      BY <1>1, <1>6, <2>3, <3>1, <3>2 DEF Roomy
    <3> QED
      BY <1>1, <1>3, <1>6, <1>7, <3>1, <3>3
  <2>4. Complete'
    BY <1>1, <1>2, <2>3, InputStays, Zenon DEF Complete
  <2> QED
    BY <2>2, <2>4
<1>8. ASSUME Straight, Loads, InTurn
      PROVE  Loads' /\ InTurn'
  <2>1. Loads'
    BY <1>1, <1>2, <1>3, <1>8 DEF Loads, Straight
  <2>2. InTurn'
    BY <1>1, <1>2, <1>8 DEF InTurn, Order
  <2> QED
    BY <2>1, <2>2
<1> QED
  BY <1>1, <1>5, <1>7, <1>8, InputStays DEF DecInv, Straight

\* dns_validate's verdict looks at the stack; dns_msg_decode's value does not.
LEMMA ReturnInv ==
    ASSUME DecInv, Return
    PROVE  DecInv'
<1>1. /\ DecTypes /\ sect = "RET" /\ sect' = "DONE" /\ rc \in {DEC_ERR, 0} /\ nerr \in Nat
      /\ UNCHANGED <<input, count, pos, i, nerr, room, loaded, refused>>
      /\ rc' = IF load_msg THEN rc ELSE Verdict(rc)
  BY DEF DecInv, Return, DecTypes, TypeOK
<1>2. /\ "DONE" \notin Parts /\ "DONE" \notin Sections /\ DEC_ERR = -1
      /\ Order("DONE") = 4 /\ Order("RET") = 4
  BY DEF Parts, Sections, Order, DEC_ERR
<1>3. /\ rc' \in {DEC_ERR, 0} /\ (rc' = 0 /\ ~load_msg => rc = 0 /\ nerr = 0)
      /\ rc = 0 /\ nerr = 0 => rc' = 0
  BY <1>1, <1>2 DEF Verdict
<1>4. DecTypes'
  BY <1>1, <1>2, <1>3, InputStays DEF DecTypes, TypeOK
<1>5. ASSUME ~load_msg, Sound, Complete
      PROVE  Sound' /\ Complete'
  <2>1. Sound'
    BY <1>1, <1>2, <1>3, <1>5, InputStays DEF Sound
  <2>2. Complete'
    BY <1>1, <1>2, <1>3, <1>5, InputStays, Zenon DEF Complete
  <2> QED
    BY <2>1, <2>2
<1>6. ASSUME Straight, Loads, InTurn
      PROVE  Loads' /\ InTurn'
  <2>1. Loads'
    BY <1>1, <1>2, <1>6 DEF Loads, Straight
  <2>2. InTurn'
    BY <1>1, <1>2, <1>6 DEF InTurn, Order
  <2> QED
    BY <2>1, <2>2
<1> QED
  BY <1>1, <1>4, <1>5, <1>6, InputStays DEF DecInv, Straight

----------------------------------------------------------------------------
(***************************************************************************)
(* The invariant, and what follows from it.                                *)
(***************************************************************************)

\* A packet is handed to decode_msg: nothing is decoded or loaded yet.
LEMMA DecInit ==
    ASSUME Init
    PROVE  DecInv
<1>1. /\ load_msg \in BOOLEAN /\ wire \in Seq(BOOLEAN) /\ big \in BOOLEAN /\ sect = "HDR"
      /\ header \in HeaderSays
      /\ pos = 1 /\ i = 0 /\ nerr = 0 /\ room = EmsgLines /\ rc = 0 /\ count = None
      /\ refused = {} /\ loaded = [s \in Sections |-> << >>]
  BY BoundsAssumption DEF Init
<1>2. /\ "HDR" \notin Parts /\ Len(wire) \in Nat /\ None \in [Sections -> Nat]
      /\ \A s \in Sections : loaded[s] = << >> /\ Len(loaded[s]) = 0
  BY <1>1 DEF Parts, Sections, None
<1>3. TypeOK
  <2>1. loaded \in [Sections -> Seq(Positions)]
    BY <1>1
  <2> QED
    BY <1>1, <1>2, <2>1, BoundsAssumption DEF TypeOK, Positions
<1>4. DecTypes
  BY <1>1, <1>2, <1>3 DEF DecTypes
<1>5. Sound /\ Complete
  BY <1>1, <1>2 DEF Sound, Complete
<1>6. Loads
  BY <1>1, <1>2 DEF Loads
<1>7. InTurn
  BY <1>2 DEF InTurn
<1> QED
  BY <1>4, <1>5, <1>6, <1>7 DEF DecInv

\* Every step keeps the invariant.
LEMMA DecStep ==
    ASSUME DecInv, [Next]_vars
    PROVE  DecInv'
<1>1. CASE UNCHANGED vars
  BY <1>1 DEF vars, input, DecInv, DecTypes, TypeOK, Sound, Complete, Loads, InTurn, Roomy,
              WellFormed, Framed, Accepted, CheckedCode, Straight, Before, Order, Total, Positions
<1> QED
  BY <1>1, HeaderInv, RowInv, SectionDoneInv, SizeCheckInv, ReturnInv DEF Next

\* decode_msg, called by dns_validate or dns_msg_decode with any packet, any
\* buffer and any sizes: an empty error stack means everything so far was well
\* formed and in place, a well-formed packet that fits leaves the stack empty,
\* and loading stays in step until a refused text leaves it inside a record.
THEOREM DecInvariant == Spec => []DecInv
<1>1. Init => DecInv
  BY DecInit
<1>2. DecInv /\ [Next]_vars => DecInv'
  BY DecStep
<1> QED
  BY <1>1, <1>2, PTL DEF Spec

\* dns_validate returns 0 only for a packet that holds, well formed, all that
\* its header counts and whose checked code is known, although errors do not
\* end the decoding (dns_proto.c:1067-1113, 1227-1250).
THEOREM VerdictIsSound == Spec => []VerdictSound
<1>1. DecInv => VerdictSound
  BY DEF DecInv, Sound, Accepted, VerdictSound, Done
<1> QED
  BY <1>1, DecInvariant, PTL

\* dns_validate returns 0 for every well-formed packet whose description fits
\* the caller's buffer (dns_proto.c:1067-1113).
THEOREM VerdictIsComplete == Spec => []VerdictComplete
<1>1. DecInv => VerdictComplete
  BY DEF DecInv, Complete, Roomy, VerdictComplete, Done
<1> QED
  BY <1>1, DecInvariant, PTL

\* Positions that grow, and sequences of them one behind the other.
Rising(s)   == /\ \A k \in 1..Len(s) : s[k] > 0
               /\ \A k \in 1..(Len(s) - 1) : s[k] < s[k + 1]
Ahead(s, t) == \A k \in 1..Len(s), l \in 1..Len(t) : s[k] < t[l]

\* Rising sequences, the one ahead of the other, make a rising sequence.
LEMMA RisingJoin ==
    ASSUME NEW s \in Seq(Nat), NEW t \in Seq(Nat), Rising(s), Rising(t), Ahead(s, t)
    PROVE  s \o t \in Seq(Nat) /\ Rising(s \o t)
<1>1. /\ s \o t \in Seq(Nat) /\ Len(s \o t) = Len(s) + Len(t) /\ Len(s) \in Nat /\ Len(t) \in Nat
      /\ \A k \in 1..Len(s) : (s \o t)[k] = s[k]
      /\ \A k \in (Len(s) + 1)..(Len(s) + Len(t)) : (s \o t)[k] = t[k - Len(s)]
  OBVIOUS
<1>2. ASSUME NEW k \in 1..Len(s \o t)
      PROVE  (s \o t)[k] > 0
  BY <1>1, <1>2 DEF Rising
<1>3. ASSUME NEW k \in 1..(Len(s \o t) - 1)
      PROVE  (s \o t)[k] < (s \o t)[k + 1]
  <2>1. CASE k < Len(s)
    <3>1. k \in 1..(Len(s) - 1) /\ k \in 1..Len(s) /\ k + 1 \in 1..Len(s)
      BY <1>1, <2>1
    <3> QED
      BY <1>1, <3>1 DEF Rising
  <2>2. CASE k = Len(s)
    <3>1. k \in 1..Len(s) /\ 1 \in 1..Len(t) /\ k + 1 \in (Len(s) + 1)..(Len(s) + Len(t))
      BY <1>1, <2>2
    <3>2. (s \o t)[k] = s[k] /\ (s \o t)[k + 1] = t[1]
      BY <1>1, <2>2, <3>1
    <3> QED
      BY <3>1, <3>2 DEF Ahead
  <2>3. CASE k > Len(s)
    <3>1. /\ k - Len(s) \in 1..(Len(t) - 1) /\ k \in (Len(s) + 1)..(Len(s) + Len(t))
          /\ k + 1 \in (Len(s) + 1)..(Len(s) + Len(t))
          /\ (k + 1) - Len(s) = (k - Len(s)) + 1
      BY <1>1, <2>3
    <3>2. (s \o t)[k] = t[k - Len(s)] /\ (s \o t)[k + 1] = t[(k - Len(s)) + 1]
      BY <1>1, <3>1
    <3> QED
      BY <3>1, <3>2 DEF Rising
  <2> QED
    BY <1>1, <2>1, <2>2, <2>3
<1> QED
  BY <1>1, <1>2, <1>3, SMTT(30) DEF Rising

\* What is behind both is behind their concatenation.
LEMMA AheadJoin ==
    ASSUME NEW s \in Seq(Nat), NEW t \in Seq(Nat), NEW u \in Seq(Nat), Ahead(s, u), Ahead(t, u)
    PROVE  Ahead(s \o t, u)
<1> SUFFICES ASSUME NEW k \in 1..Len(s \o t), NEW l \in 1..Len(u)
             PROVE  (s \o t)[k] < u[l]
  BY DEF Ahead
<1>1. CASE k <= Len(s)
  <2>1. k \in 1..Len(s) /\ (s \o t)[k] = s[k]
    BY <1>1
  <2> QED
    BY <2>1 DEF Ahead
<1>2. CASE k > Len(s)
  <2>1. k - Len(s) \in 1..Len(t) /\ (s \o t)[k] = t[k - Len(s)]
    BY <1>2
  <2> QED
    BY <2>1, Zenon DEF Ahead
<1> QED
  BY <1>1, <1>2

\* dns_msg_decode of a packet of at most one question, all well formed, loads
\* elements of the packet in their order and never one read out of step, and
\* does not fail, unless a refused text leaves the offset inside its record
\* (dns_proto.c:587-592, 1202-1212).
THEOREM LoadingKeepsOrder == Spec => []LoadKeepsOrder
<1>1. ASSUME DecInv, Done, Straight
      PROVE  /\ rc = 0
             /\ Rising(loaded["QD"] \o loaded["AN"] \o loaded["NS"] \o loaded["AR"])
  <2>1. /\ Loads /\ InTurn /\ loaded \in [Sections -> Seq(Positions)]
        /\ \A n \in Positions : n \in Nat
    BY <1>1 DEF DecInv, DecTypes, TypeOK, Positions
  <2>2. ASSUME NEW s \in Sections
        PROVE  loaded[s] \in Seq(Nat) /\ Rising(loaded[s])
    <3>1. loaded[s] \in Seq(Positions) /\ Len(loaded[s]) \in Nat /\ Len(loaded[s]) <= 1
      BY <2>1 DEF InTurn
    <3>2. loaded[s] \in Seq(Nat)
      BY <2>1, <3>1
    <3>3. ASSUME NEW k \in 1..Len(loaded[s])
          PROVE  loaded[s][k] > 0
      <4>1. k = 1 /\ loaded[s] # << >>
        BY <3>1, <3>3
      <4> QED
        BY <2>1, <4>1 DEF InTurn
    <3>4. 1..(Len(loaded[s]) - 1) = {}
      BY <3>1
    <3> QED
      BY <3>2, <3>3, <3>4, Zenon DEF Rising
  <2>3. ASSUME NEW s \in Sections, NEW t \in Sections, Order(s) < Order(t)
        PROVE  Ahead(loaded[s], loaded[t])
    <3> SUFFICES ASSUME NEW k \in 1..Len(loaded[s]), NEW l \in 1..Len(loaded[t])
                 PROVE  loaded[s][k] < loaded[t][l]
      BY DEF Ahead
    <3>1. Len(loaded[s]) \in Nat /\ Len(loaded[s]) <= 1
          /\ Len(loaded[t]) \in Nat /\ Len(loaded[t]) <= 1
      BY <2>1 DEF InTurn
    <3>2. k = 1 /\ l = 1 /\ loaded[s] # << >> /\ loaded[t] # << >>
      BY <3>1
    <3> QED
      BY <2>1, <2>3, <3>2 DEF InTurn
  <2>4. /\ "QD" \in Sections /\ "AN" \in Sections /\ "NS" \in Sections /\ "AR" \in Sections
        /\ Order("QD") = 0 /\ Order("AN") = 1 /\ Order("NS") = 2 /\ Order("AR") = 3
    BY DEF Sections, Order
  <2>5. /\ Ahead(loaded["QD"], loaded["AN"]) /\ Ahead(loaded["QD"], loaded["NS"])
        /\ Ahead(loaded["QD"], loaded["AR"]) /\ Ahead(loaded["AN"], loaded["NS"])
        /\ Ahead(loaded["AN"], loaded["AR"]) /\ Ahead(loaded["NS"], loaded["AR"])
    BY <2>3, <2>4
  <2> DEFINE a == loaded["QD"]
             b == loaded["AN"]
             c == loaded["NS"]
             d == loaded["AR"]
  <2>6. /\ a \in Seq(Nat) /\ b \in Seq(Nat) /\ c \in Seq(Nat) /\ d \in Seq(Nat)
        /\ Rising(a) /\ Rising(b) /\ Rising(c) /\ Rising(d)
    BY <2>2, <2>4
  <2>7. /\ Ahead(a, b) /\ Ahead(a, c) /\ Ahead(a, d) /\ Ahead(b, c) /\ Ahead(b, d) /\ Ahead(c, d)
    BY <2>5
  <2> HIDE DEF a, b, c, d
  <2>8. a \o b \in Seq(Nat) /\ Rising(a \o b) /\ Ahead(a \o b, c) /\ Ahead(a \o b, d)
    BY <2>6, <2>7, RisingJoin, AheadJoin
  <2>9. a \o b \o c \in Seq(Nat) /\ Rising(a \o b \o c) /\ Ahead(a \o b \o c, d)
    BY <2>6, <2>7, <2>8, RisingJoin, AheadJoin
  <2>10. Rising(a \o b \o c \o d)
    BY <2>6, <2>9, RisingJoin, Zenon
  <2>11. rc = 0
    BY <2>1 DEF Loads
  <2> QED
    BY <2>10, <2>11 DEF a, b, c, d
<1>2. DecInv => LoadKeepsOrder
  BY <1>1 DEF LoadKeepsOrder, Straight, Rising
<1> QED
  BY <1>2, DecInvariant, PTL

============================================================================
