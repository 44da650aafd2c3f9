-------------------------- MODULE DnsRecordProofs --------------------------
(***************************************************************************)
(* Proofs about dns_rr_decode for every packet length, starting offset and *)
(* record, and for every width of the integer that holds rd_end.           *)
(***************************************************************************)
EXTENDS DnsRecord, TLAPS

\* The end of the record data, cut to U16 values, is the real end or lies in
\* front of where the data starts (dns_proto.c:670).
LEMMA CutEnd ==
    ASSUME NEW w \in Nat \ {0}, NEW a \in Nat, NEW n \in 0..(w - 1)
    PROVE  /\ (a + n) % w \in Nat
           /\ a + n < w => (a + n) % w = a + n
           /\ a <= (a + n) % w => (a + n) % w = a + n
  <1>1. (a + n) % w \in 0..(w - 1)
    BY Z3
  <1>2. a + n < w => (a + n) % w = a + n
    BY Z3
  <1>3. ASSUME a + n >= w PROVE (a + n) % w < a
    BY <1>1, <1>3
  <1>4. QED
    BY <1>1, <1>2, <1>3

\* Where the decoder stands once the record's length is known.
Data == {"rdata", "rname", "soa", "os", "check"}

\* The inductive invariant.  Before its length is known nothing of a record has
\* been read; from then on rd_end is the cut end of the data, inside the packet,
\* and the offset is not in front of the data, unless the options were skipped.
RecInv ==
    /\ TypeOK
    /\ names_len <= NamesSize
    /\ count <= MaxRR
    /\ load_msg /\ pc \notin {"name", "done"} => count < MaxRR
    /\ pc # "done" => result = "none"
    /\ pc \in {"name", "hdr"} => reach = 0 /\ rdata = 0 /\ rdlen = 0 /\ rr_type = "other"
    /\ pc \in Data =>
          /\ rd_end = (rdata + rdlen) % U16
          /\ rd_end <= pkt_len
          /\ rdata <= offset \/ (rr_type = "OPT" /\ pc = "check")
    /\ pc = "rdata" /\ rr_type # "TXT" => offset = rdata
    /\ ~Wraps => reach <= pkt_len
    /\ AcceptedExact

\* What every step between the record's fixed fields and its last check does.
GoodStep ==
    /\ UNCHANGED <<pkt_len, load_msg, sect_code, start, rr_type, rdlen, rdata,
                   rd_end, owner, count>>
    /\ offset' \in Nat
    /\ offset' >= offset \/ (rr_type = "OPT" /\ pc = "rdata" /\ pc' = "check")
    /\ names_len' \in Nat /\ names_len' <= NamesSize
    /\ num_str' \in Nat
    /\ null_name' \in BOOLEAN
    /\ reach' \in Nat
    /\ ~Wraps => reach' <= pkt_len
    /\ \/ /\ pc' \in Data /\ result' = result
          /\ pc' = "rdata" => rr_type = "TXT"
       \/ pc' = "done" /\ result' \in {"error", "nospace"}

\* Such a step preserves the invariant.
LEMMA GoodStepInv ==
    ASSUME RecInv, pc \in Data, pc # "check", GoodStep PROVE RecInv'
  <1>1. result = "none" /\ TypeOK
    BY DEF RecInv, Data
  <1>2. TypeOK'
    BY <1>1, SizesAssumption DEF GoodStep, TypeOK, Data
  <1>3. pc' # "done" => result' = "none"
    BY <1>1 DEF GoodStep
  <1>4. AcceptedExact'
    BY <1>1 DEF GoodStep, AcceptedExact, Accepted
  <1>5. pc' \in Data =>
          /\ rd_end' = (rdata' + rdlen') % U16
          /\ rd_end' <= pkt_len'
    BY DEF RecInv, GoodStep
  <1>6. pc' \in Data => rdata' <= offset' \/ (rr_type' = "OPT" /\ pc' = "check")
    BY <1>1 DEF RecInv, GoodStep, TypeOK
  <1>7. (~Wraps => reach <= pkt_len)'
    BY DEF GoodStep, Wraps
  <1>8. QED
    BY <1>2, <1>3, <1>4, <1>5, <1>6, <1>7 DEF RecInv, GoodStep, Data

\* Storing a text goes on or gives up, and stays inside the store.
LEMMA StoreStep ==
    ASSUME RecInv, NEW t \in Nat, NEW next, StoreText(t, next)
    PROVE  /\ names_len' \in Nat /\ names_len' <= NamesSize
           /\ \/ pc' = next /\ result' = result
              \/ pc' = "done" /\ result' \in {"error", "nospace"}
  <1>1. names_len \in Nat /\ names_len <= NamesSize /\ NamesSize \in Nat
    BY SizesAssumption DEF RecInv, TypeOK
  <1>2. QED
    BY <1>1 DEF StoreText, CanStore, GoTo, NoSpace

\* So does decoding a name, which moves forward.
LEMMA NameStep ==
    ASSUME RecInv, NEW o \in Nat, NEW next, DecodeNameAt(o, next)
    PROVE  /\ offset' \in Nat /\ offset' >= o
           /\ names_len' \in Nat /\ names_len' <= NamesSize
           /\ \/ pc' = next /\ result' = result
              \/ pc' = "done" /\ result' \in {"error", "nospace"}
  <1>1. pkt_len \in Nat /\ names_len \in Nat /\ names_len <= NamesSize
    BY DEF RecInv, TypeOK
  <1>2. offset' \in Nat /\ offset' >= o
    BY <1>1 DEF DecodeNameAt, Later
  <1>3. CASE \E t \in TextLens : StoreText(t, next)
    BY <1>2, <1>3, StoreStep, SizesAssumption
  <1>4. CASE (Err \/ NoSpace) /\ UNCHANGED names_len
    BY <1>1, <1>2, <1>4 DEF Err, NoSpace
  <1>5. QED
    BY <1>3, <1>4, Zenon DEF DecodeNameAt

\* A string inside the record data reads no further than the data's end, or
\* its own length octet.
LEMMA StringStep ==
    ASSUME RecInv, NEW next, CharString(next)
    PROVE  /\ offset' \in Nat /\ offset' >= offset
           /\ names_len' \in Nat /\ names_len' <= NamesSize
           /\ reach' \in Nat
           /\ reach' = reach \/ reach' <= rd_end \/ reach' = offset + 1
           /\ \/ pc' = next /\ result' = result
              \/ pc' = "done" /\ result' \in {"error", "nospace"}
  <1>1. /\ offset \in Nat /\ rd_end \in Nat /\ reach \in Nat
        /\ names_len \in Nat /\ names_len <= NamesSize
    BY DEF RecInv, TypeOK
  <1>2. PICK n \in StrLens :
            \/ /\ offset + 1 + n > rd_end
               /\ Err
               /\ offset' = offset + 1
               /\ reach' = Later(reach, offset + 1)
               /\ UNCHANGED names_len
            \/ /\ offset + 1 + n <= rd_end
               /\ reach' = Later(reach, offset + 1 + n)
               /\ StoreText(n, next)
               /\ offset' = IF load_msg /\ ~CanStore(n) THEN offset + 1
                                                        ELSE offset + 1 + n
    BY DEF CharString
  <1>3. n \in Nat
    BY SizesAssumption
  <1>4. CASE Err /\ offset' = offset + 1 /\ reach' = Later(reach, offset + 1)
             /\ UNCHANGED names_len
    BY <1>1, <1>4 DEF Err, Later
  <1>5. CASE /\ offset + 1 + n <= rd_end
             /\ reach' = Later(reach, offset + 1 + n)
             /\ StoreText(n, next)
             /\ offset' = IF load_msg /\ ~CanStore(n) THEN offset + 1
                                                      ELSE offset + 1 + n
    <2>1. offset' = offset + 1 \/ offset' = offset + 1 + n
      BY <1>5
    <2>2. offset' \in Nat /\ offset' >= offset
      BY <1>1, <1>3, <2>1
    <2>3. reach' \in Nat /\ (reach' = reach \/ reach' <= rd_end)
      BY <1>1, <1>3, <1>5 DEF Later
    <2>4. QED
      BY <1>3, <1>5, <2>2, <2>3, StoreStep
  <1>6. QED
    BY <1>2, <1>4, <1>5

\* The steps through the record data.
RdataStep ==
    \/ RdataA \/ RdataAAAA \/ RdataNS \/ RdataCNAME \/ RdataPTR \/ RdataMX
    \/ RdataSRV \/ RdataSoaMname \/ RdataSoaRname \/ RdataSoaNumbers
    \/ RdataHinfoCpu \/ RdataHinfoOs \/ RdataTxt \/ RdataOPT \/ RdataSkipped

\* The facts about the data that the steps through it start from.
LEMMA DataFacts ==
    ASSUME RecInv, pc \in Data
    PROVE  /\ offset \in Nat /\ rdata \in Nat /\ rdlen \in Nat /\ rd_end \in Nat
           /\ pkt_len \in Nat /\ reach \in Nat /\ rd_end <= pkt_len
           /\ ~Wraps => rd_end = rdata + rdlen /\ reach <= pkt_len
           /\ names_len \in Nat /\ names_len <= NamesSize
           /\ num_str \in Nat /\ null_name \in BOOLEAN
           /\ pc = "rdata" /\ rr_type # "TXT" => offset = rdata
  <1>1. /\ offset \in Nat /\ rdata \in Nat /\ rd_end \in Nat /\ pkt_len \in Nat
        /\ reach \in Nat /\ num_str \in Nat /\ null_name \in BOOLEAN
        /\ names_len \in Nat /\ names_len <= NamesSize /\ rdlen \in 0..(U16 - 1)
        /\ rd_end = (rdata + rdlen) % U16 /\ rd_end <= pkt_len
    BY DEF RecInv, TypeOK
  <1>2. U16 \in Nat \ {0}
    BY SizesAssumption
  <1>3. ~Wraps => rd_end = rdata + rdlen
    BY <1>1, <1>2, CutEnd DEF Wraps
  <1>4. QED
    BY <1>1, <1>2, <1>3 DEF RecInv

\* Data of a fixed length (dns_proto.c:678-692, 894-908).
LEMMA FixedDataGood ==
    ASSUME RecInv, NEW type, type # "TXT", NEW n \in Nat, FixedData(type, n)
    PROVE  GoodStep /\ pc = "rdata"
  <1>1. pc = "rdata" /\ pc \in Data /\ rr_type # "TXT"
    BY DEF FixedData, Data
  <1>2. UNCHANGED <<pkt_len, load_msg, sect_code, start, rr_type, rdlen, rdata, rd_end,
                    owner, names_len, num_str, count, null_name>>
    BY DEF FixedData, pkt, hdr, store
  <1>3. \/ pc' = "done" /\ result' = "error" /\ UNCHANGED <<offset, reach>>
        \/ /\ rdlen = n /\ offset' = offset + n /\ reach' = offset + n
           /\ pc' = "check" /\ result' = result
    BY DEF FixedData, Err, GoTo
  <1>4. /\ offset' \in Nat /\ offset' >= offset /\ reach' \in Nat
        /\ ~Wraps => reach' <= pkt_len
    BY <1>1, <1>3, DataFacts
  <1>5. QED
    BY <1>1, <1>2, <1>3, <1>4, DataFacts DEF GoodStep, Data

\* Numbers and a name; what is read before the name is covered by the test on
\* rdlen (dns_proto.c:693-720, 784-797, 841-866, 909-940).
LEMMA NumbersThenNameGood ==
    ASSUME RecInv, NEW type, type # "TXT", NEW n \in Nat, NEW short \in BOOLEAN,
           ~short => rdlen >= n, NumbersThenName(type, n, short)
    PROVE  GoodStep /\ pc = "rdata"
  <1>1. pc = "rdata" /\ pc \in Data /\ rr_type # "TXT"
    BY DEF NumbersThenName, Data
  <1>2. UNCHANGED <<pkt_len, load_msg, sect_code, start, rr_type, rdlen, rdata, rd_end,
                    owner, num_str, count, null_name>>
    BY DEF NumbersThenName, pkt, hdr
  <1>3. CASE short
    <2>1. Err /\ UNCHANGED <<offset, reach, names_len>>
      BY <1>3 DEF NumbersThenName
    <2>2. QED
      BY <1>1, <1>2, <2>1, DataFacts DEF GoodStep, Err
  <1>4. CASE ~short
    <2>1. reach' = Later(reach, offset + n) /\ DecodeNameAt(offset + n, "check")
      BY <1>4 DEF NumbersThenName
    <2>2. offset + n \in Nat
      BY <1>1, DataFacts
    <2>3. /\ offset' \in Nat /\ offset' >= offset + n
          /\ names_len' \in Nat /\ names_len' <= NamesSize
          /\ \/ pc' = "check" /\ result' = result
             \/ pc' = "done" /\ result' \in {"error", "nospace"}
      BY <2>1, <2>2, NameStep
    <2>4. reach' \in Nat /\ (~Wraps => reach' <= pkt_len)
      BY <1>1, <1>4, <2>1, DataFacts DEF Later
    <2>5. offset' >= offset
      BY <1>1, <2>3, DataFacts
    <2>6. QED
      BY <1>1, <1>2, <2>3, <2>4, <2>5, DataFacts DEF GoodStep, Data
  <1>5. QED
    BY <1>3, <1>4

\* The three parts of a SOA (dns_proto.c:722-783).
LEMMA SoaGood ==
    ASSUME RecInv, RdataSoaMname \/ RdataSoaRname \/ RdataSoaNumbers
    PROVE  GoodStep /\ pc \in {"rdata", "rname", "soa"}
  <1>1. CASE RdataSoaMname
    <2>1. /\ pc = "rdata" /\ pc \in Data /\ DecodeNameAt(offset, "rname")
          /\ UNCHANGED <<pkt_len, load_msg, sect_code, start, rr_type, rdlen, rdata,
                         rd_end, owner, num_str, count, null_name, reach>>
      BY <1>1 DEF RdataSoaMname, pkt, hdr, Data
    <2>2. /\ offset' \in Nat /\ offset' >= offset
          /\ names_len' \in Nat /\ names_len' <= NamesSize
          /\ \/ pc' = "rname" /\ result' = result
             \/ pc' = "done" /\ result' \in {"error", "nospace"}
      BY <2>1, NameStep, DataFacts
    <2>3. QED
      BY <2>1, <2>2, DataFacts DEF GoodStep, Data
  <1>2. CASE RdataSoaRname
    <2>1. /\ pc = "rname" /\ pc \in Data
          /\ UNCHANGED <<pkt_len, load_msg, sect_code, start, rr_type, rdlen, rdata,
                         rd_end, owner, num_str, count, reach>>
      BY <1>2 DEF RdataSoaRname, pkt, hdr, Data
    <2>2. offset' \in offset..Later(offset, pkt_len)
      BY <1>2 DEF RdataSoaRname
    <2>3. offset' \in Nat /\ offset' >= offset
      BY <2>1, <2>2, DataFacts DEF Later
    <2>4. \/ UNCHANGED <<names_len, null_name>>
          \/ \E t \in TextLens :
                IF load_msg /\ CanStore(t)
                THEN names_len' = names_len + t + 1 /\ UNCHANGED null_name
                ELSE null_name' = load_msg /\ UNCHANGED names_len
      BY <1>2, Zenon DEF RdataSoaRname
    <2>5. load_msg \in BOOLEAN
      BY DEF RecInv, TypeOK
    <2>6. null_name' \in BOOLEAN
      BY <2>1, <2>4, <2>5, DataFacts
    <2>7. names_len' \in Nat /\ names_len' <= NamesSize
      <3>1. ASSUME NEW t \in TextLens, CanStore(t), names_len' = names_len + t + 1
            PROVE  names_len' \in Nat /\ names_len' <= NamesSize
        BY <2>1, <3>1, DataFacts, SizesAssumption DEF CanStore
      <3>2. QED
        BY <2>1, <2>4, <3>1, DataFacts
    <2>8. \/ pc' = "soa" /\ result' = result
          \/ pc' = "done" /\ result' \in {"error", "nospace"}
      BY <1>2, Zenon DEF RdataSoaRname, Err, NoSpace, GoTo
    <2>9. QED
      BY <2>1, <2>3, <2>6, <2>7, <2>8, DataFacts DEF GoodStep, Data
  <1>3. CASE RdataSoaNumbers
    <2>1. /\ pc = "soa" /\ pc \in Data
          /\ UNCHANGED <<pkt_len, load_msg, sect_code, start, rr_type, rdlen, rdata,
                         rd_end, owner, names_len, num_str, count, null_name>>
      BY <1>3 DEF RdataSoaNumbers, pkt, hdr, store, Data
    <2>2. \/ pc' = "done" /\ result' = "error" /\ UNCHANGED <<offset, reach>>
          \/ /\ offset + 20 <= rd_end /\ offset' = offset + 20
             /\ reach' = Later(reach, offset + 20)
             /\ pc' = "check" /\ result' = result
      BY <1>3 DEF RdataSoaNumbers, Err, GoTo
    <2>3. /\ offset' \in Nat /\ offset' >= offset /\ reach' \in Nat
          /\ ~Wraps => reach' <= pkt_len
      BY <2>1, <2>2, DataFacts DEF Later
    <2>4. QED
      BY <2>1, <2>2, <2>3, DataFacts DEF GoodStep, Data
  <1>4. QED
    BY <1>1, <1>2, <1>3

\* The two strings of HINFO: rdlen covers the first length octet, the explicit
\* test the second (dns_proto.c:798-840).
LEMMA HinfoGood ==
    ASSUME RecInv, RdataHinfoCpu \/ RdataHinfoOs
    PROVE  GoodStep /\ pc \in {"rdata", "os"}
  <1>1. /\ pc \in {"rdata", "os"} /\ pc \in Data
        /\ UNCHANGED <<pkt_len, load_msg, sect_code, start, rr_type, rdlen, rdata,
                       rd_end, owner, num_str, count, null_name>>
        /\ pc = "rdata" => rr_type # "TXT"
    BY DEF RdataHinfoCpu, RdataHinfoOs, pkt, hdr, Data
  <1>2. CASE Err /\ UNCHANGED <<offset, reach, names_len>>
    BY <1>1, <1>2, DataFacts DEF GoodStep, Err
  <1>3. ASSUME NEW next \in {"os", "check"}, CharString(next),
               ~Wraps => offset + 1 <= rd_end
        PROVE  GoodStep
    <2>1. /\ offset' \in Nat /\ offset' >= offset
          /\ names_len' \in Nat /\ names_len' <= NamesSize
          /\ reach' \in Nat
          /\ reach' = reach \/ reach' <= rd_end \/ reach' = offset + 1
          /\ \/ pc' = next /\ result' = result
             \/ pc' = "done" /\ result' \in {"error", "nospace"}
      BY <1>3, StringStep
    <2>2. ~Wraps => reach' <= pkt_len
      BY <1>1, <1>3, <2>1, DataFacts
    <2>3. QED
      BY <1>1, <1>3, <2>1, <2>2, DataFacts DEF GoodStep, Data
  <1>4. CASE RdataHinfoCpu
    <2>1. CASE rdlen >= 2 /\ CharString("os")
      <3>1. ~Wraps => offset + 1 <= rd_end
        BY <1>1, <1>4, <2>1, DataFacts DEF RdataHinfoCpu
      <3>2. QED
        BY <1>1, <1>3, <2>1, <3>1
    <2>2. QED
      BY <1>1, <1>2, <1>4, <2>1 DEF RdataHinfoCpu
  <1>5. CASE RdataHinfoOs
    <2>1. CASE offset < rd_end /\ CharString("check")
      <3>1. offset + 1 <= rd_end
        BY <1>1, <2>1, DataFacts
      <3>2. QED
        BY <1>1, <1>3, <2>1, <3>1
    <2>2. QED
      BY <1>1, <1>2, <1>5, <2>1 DEF RdataHinfoOs
  <1>6. QED
    BY <1>4, <1>5

\* An iteration over the strings of TXT (dns_proto.c:867-893).
LEMMA TxtGood ==
    ASSUME RecInv, RdataTxt
    PROVE  GoodStep /\ pc = "rdata"
  <1>1. /\ pc = "rdata" /\ pc \in Data /\ rr_type = "TXT"
        /\ UNCHANGED <<pkt_len, load_msg, sect_code, start, rr_type, rdlen, rdata,
                       rd_end, owner, count, null_name>>
    BY DEF RdataTxt, pkt, hdr, Data
  <1>2. CASE GoTo("check") /\ UNCHANGED <<offset, reach, names_len, num_str>>
    BY <1>1, <1>2, DataFacts DEF GoodStep, GoTo, Data
  <1>3. CASE /\ offset < rd_end
             /\ CharString("rdata")
             /\ num_str' = IF load_msg /\ pc' = "rdata" THEN num_str + 1 ELSE num_str
    <2>1. /\ offset' \in Nat /\ offset' >= offset
          /\ names_len' \in Nat /\ names_len' <= NamesSize
          /\ reach' \in Nat
          /\ reach' = reach \/ reach' <= rd_end \/ reach' = offset + 1
          /\ \/ pc' = "rdata" /\ result' = result
             \/ pc' = "done" /\ result' \in {"error", "nospace"}
      BY <1>3, StringStep
    <2>2. ~Wraps => reach' <= pkt_len
      BY <1>1, <1>3, <2>1, DataFacts
    <2>3. num_str' \in Nat
      BY <1>1, <1>3, DataFacts
    <2>4. QED
      BY <1>1, <2>1, <2>2, <2>3, DataFacts DEF GoodStep
  <1>4. CASE /\ offset < rd_end
             /\ offset' = offset + 1
             /\ Err \/ NoSpace
             /\ reach' = Later(reach, offset + 1)
             /\ UNCHANGED <<names_len, num_str>>
    <2>1. /\ offset' \in Nat /\ offset' >= offset /\ reach' \in Nat
          /\ ~Wraps => reach' <= pkt_len
      BY <1>1, <1>4, DataFacts DEF Later
    <2>2. QED
      BY <1>1, <1>4, <2>1, DataFacts DEF GoodStep, Err, NoSpace
  <1>5. QED
    BY <1>1, <1>2, <1>3, <1>4 DEF RdataTxt

\* The option record (dns_proto.c:941-984).
LEMMA OptGood ==
    ASSUME RecInv, RdataOPT
    PROVE  GoodStep /\ pc = "rdata"
  <1>1. /\ pc = "rdata" /\ pc \in Data /\ rr_type = "OPT"
        /\ UNCHANGED <<pkt_len, load_msg, sect_code, start, rr_type, rdlen, rdata,
                       rd_end, owner, num_str, count, null_name, reach>>
    BY DEF RdataOPT, pkt, hdr, Data
  <1>2. CASE Err /\ UNCHANGED <<offset, names_len>>
    BY <1>1, <1>2, DataFacts DEF GoodStep, Err
  <1>3. CASE /\ StoreText(owner, "check")
             /\ offset' = IF pc' = "check" THEN OffsetAtOpt ELSE offset
    <2>1. owner \in Nat
      BY DEF RecInv, TypeOK
    <2>2. /\ names_len' \in Nat /\ names_len' <= NamesSize
          /\ \/ pc' = "check" /\ result' = result
             \/ pc' = "done" /\ result' \in {"error", "nospace"}
      BY <1>3, <2>1, StoreStep
    <2>3. offset' \in Nat /\ (pc' = "check" \/ offset' = offset)
      BY <1>1, <1>3, DataFacts DEF OffsetAtOpt
    <2>4. offset' >= offset \/ pc' = "check"
      BY <1>1, <2>3, DataFacts
    <2>5. QED
      BY <1>1, <2>2, <2>3, <2>4, DataFacts DEF GoodStep, Data
  <1>4. QED
    BY <1>2, <1>3 DEF RdataOPT

\* Skipping the data (dns_proto.c:985-990).
LEMMA SkippedGood ==
    ASSUME RecInv, RdataSkipped
    PROVE  GoodStep /\ pc = "rdata"
  <1>1. /\ pc = "rdata" /\ pc \in Data /\ pc' = "check" /\ result' = result
        /\ offset' = offset + rdlen
        /\ UNCHANGED <<pkt_len, load_msg, sect_code, start, rr_type, rdlen, rdata,
                       rd_end, owner, names_len, num_str, count, null_name, reach>>
    BY DEF RdataSkipped, GoTo, pkt, hdr, store, Data
  <1>2. offset' \in Nat /\ offset' >= offset
    BY <1>1, DataFacts
  <1>3. QED
    BY <1>1, <1>2, DataFacts DEF GoodStep, Data

\* Every step through the record data is of that kind.
LEMMA RdataGood ==
    ASSUME RecInv, RdataStep
    PROVE  GoodStep /\ pc \in Data /\ pc # "check"
  <1>1. rdlen \in Nat
    BY SizesAssumption DEF RecInv, TypeOK
  <1>2. CASE RdataA \/ RdataAAAA
    BY <1>2, FixedDataGood DEF RdataA, RdataAAAA, Data
  <1>3. CASE RdataNS \/ RdataCNAME \/ RdataPTR
    <2>1. rdlen >= 0
      BY <1>1
    <2>2. QED
      BY <1>3, <2>1, NumbersThenNameGood, Zenon DEF RdataNS, RdataCNAME, RdataPTR, Data
  <1>4. CASE RdataMX
    <2>1. (rdlen < 3) \in BOOLEAN /\ (~(rdlen < 3) => rdlen >= 2)
      BY <1>1
    <2>2. QED
      BY <1>4, <2>1, NumbersThenNameGood, Zenon DEF RdataMX, Data
  <1>5. CASE RdataSRV
    <2>1. SrvTooShort \in BOOLEAN /\ (~SrvTooShort => rdlen >= 6)
      BY <1>1 DEF SrvTooShort
    <2>2. QED
      BY <1>5, <2>1, NumbersThenNameGood DEF RdataSRV, Data
  <1>6. CASE RdataSoaMname \/ RdataSoaRname \/ RdataSoaNumbers
    BY <1>6, SoaGood DEF Data
  <1>7. CASE RdataHinfoCpu \/ RdataHinfoOs
    BY <1>7, HinfoGood DEF Data
  <1>8. CASE RdataTxt \/ RdataOPT \/ RdataSkipped
    BY <1>8, TxtGood, OptGood, SkippedGood DEF Data
  <1>9. QED
    BY <1>2, <1>3, <1>4, <1>5, <1>6, <1>7, <1>8 DEF RdataStep

\* The invariant holds on entry.
LEMMA RecInvInit == Init => RecInv
  <1> SUFFICES ASSUME Init PROVE RecInv
    OBVIOUS
  <1>1. TypeOK
    <2>1. /\ pkt_len \in Nat /\ start \in Nat /\ offset \in Nat /\ names_len \in Nat
          /\ 0 \in 0..(U16 - 1)
      BY SizesAssumption DEF Init
    <2>2. num_str \in Nat /\ count \in Nat
      <3>1. CASE load_msg
        <4>1. num_str \in OldNumStr /\ count \in 0..MaxRR
          BY <3>1 DEF Init
        <4>2. QED
          BY <4>1, SizesAssumption
      <3>2. CASE ~load_msg
        BY <3>2 DEF Init
      <3>3. QED
        BY <3>1, <3>2
    <2>3. QED
      BY <2>1, <2>2, Zenon DEF Init, TypeOK, Types
  <1>2. names_len <= NamesSize /\ count <= MaxRR
    <2>1. CASE load_msg
      BY <2>1, SizesAssumption DEF Init
    <2>2. CASE ~load_msg
      BY <2>2, SizesAssumption DEF Init
    <2>3. QED
      BY <2>1, <2>2
  <1>3. reach = 0 /\ pkt_len \in Nat
    BY <1>1 DEF Init, TypeOK
  <1>4. QED
    BY <1>1, <1>2, <1>3 DEF RecInv, Init, Data, AcceptedExact, Accepted

\* The slot check and the record's name preserve it (dns_proto.c:627-650).
LEMMA RecInvName ==
    ASSUME RecInv, Name PROVE RecInv' /\ offset' >= offset
  <1>1. /\ pc = "name" /\ result = "none" /\ offset \in Nat /\ pkt_len \in Nat
        /\ owner \in Nat /\ names_len \in Nat /\ names_len <= NamesSize
        /\ count \in Nat /\ count <= MaxRR
        /\ reach = 0 /\ rdata = 0 /\ rdlen = 0 /\ rr_type = "other"
    BY DEF RecInv, TypeOK, Name
  <1>2. UNCHANGED <<pkt_len, load_msg, sect_code, start, rr_type, rdlen, rdata, rd_end,
                    num_str, count, null_name, reach>>
    BY DEF Name, pkt, hdr
  <1>3. /\ offset' \in Nat /\ offset' >= offset
        /\ owner' \in Nat /\ names_len' \in Nat /\ names_len' <= NamesSize
        /\ \/ pc' = "hdr" /\ result' = result /\ ~(load_msg /\ SlotTaken)
           \/ pc' = "done" /\ result' \in {"error", "nospace"}
    <2>1. CASE load_msg /\ SlotTaken
      BY <1>1, <2>1 DEF Name, NoSpace
    <2>2. CASE ~(load_msg /\ SlotTaken)
      <3>1. offset' \in offset..Later(offset, pkt_len)
        BY <2>2, Zenon DEF Name
      <3>2. offset' \in Nat /\ offset' >= offset
        BY <1>1, <3>1 DEF Later
      <3>3. CASE Err /\ UNCHANGED <<owner, names_len>>
        BY <1>1, <3>2, <3>3 DEF Err
      <3>4. CASE \E t \in TextLens : owner' = t /\ StoreText(t, "hdr")
        BY <2>2, <3>2, <3>4, StoreStep, SizesAssumption
      <3>5. QED
        BY <2>2, <3>3, <3>4, Zenon DEF Name
    <2>3. QED
      BY <2>1, <2>2
  <1>4. TypeOK'
    BY <1>2, <1>3, SizesAssumption DEF RecInv, TypeOK
  <1>5. (load_msg /\ pc \notin {"name", "done"} => count < MaxRR)'
    BY <1>1, <1>2, <1>3, SizesAssumption DEF SlotTaken
  <1>6. AcceptedExact' /\ (~Wraps => reach <= pkt_len)'
    BY <1>1, <1>2, <1>3 DEF AcceptedExact, Accepted, Wraps
  <1>7. QED
    BY <1>1, <1>2, <1>3, <1>4, <1>5, <1>6 DEF RecInv, Data

\* So do the fixed fields (dns_proto.c:652-671).
LEMMA RecInvFields ==
    ASSUME RecInv, Fields PROVE RecInv' /\ offset' >= offset
  <1>1. /\ pc = "hdr" /\ result = "none" /\ offset \in Nat /\ pkt_len \in Nat
        /\ reach = 0 /\ TypeOK
        /\ U16 \in Nat \ {0}
    BY SizesAssumption DEF RecInv, TypeOK, Fields
  <1>2. UNCHANGED <<pkt_len, load_msg, sect_code, start, owner, names_len, num_str,
                    count, null_name>>
    BY DEF Fields, pkt, store
  <1>3. CASE offset + RR_HDR_LEN > pkt_len
    <2>1. pc' = "done" /\ result' = "error" /\ UNCHANGED <<offset, rr_type, rdlen, rdata,
                                                            rd_end, reach>>
      <3>1. ~(offset + RR_HDR_LEN <= pkt_len)
        BY <1>1, <1>3 DEF RR_HDR_LEN
      <3>2. QED
        BY <3>1 DEF Fields, Err, hdr
    <2>2. TypeOK'
      BY <1>1, <1>2, <2>1 DEF TypeOK
    <2>3. AcceptedExact' /\ (~Wraps => reach <= pkt_len)'
      BY <1>1, <1>2, <2>1 DEF AcceptedExact, Accepted, Wraps, RecInv
    <2>4. QED
      BY <1>1, <1>2, <2>1, <2>2, <2>3 DEF RecInv, Data
  <1>4. CASE offset + RR_HDR_LEN <= pkt_len
    <2>1. /\ rr_type' \in Types /\ rdlen' \in RdLens
          /\ offset' = offset + 10 /\ rdata' = offset + 10 /\ reach' = offset + 10
          /\ rd_end' = RdEnd(offset + 10, rdlen')
          /\ \/ pc' = "done" /\ result' = "error"
             \/ rd_end' <= pkt_len /\ pc' = "rdata" /\ result' = result
      BY <1>1, <1>4 DEF Fields, Err, GoTo, RR_HDR_LEN
    <2>2. rdlen' \in 0..(U16 - 1)
      BY <2>1, SizesAssumption
    <2>3. offset' \in Nat /\ offset' >= offset /\ offset' <= pkt_len
      BY <1>1, <1>4, <2>1 DEF RR_HDR_LEN
    <2>4. rd_end' \in Nat /\ rd_end' = (rdata' + rdlen') % U16
      BY <1>1, <2>1, <2>2, <2>3, CutEnd, Zenon DEF RdEnd
    <2>5. TypeOK'
      BY <1>1, <1>2, <2>1, <2>2, <2>3, <2>4 DEF TypeOK
    <2>6. AcceptedExact' /\ (~Wraps => reach <= pkt_len)'
      BY <1>1, <1>2, <2>1, <2>3 DEF AcceptedExact, Accepted
    <2>7. rdata' <= offset'
      BY <2>1, <2>3
    <2>8. pc' \in {"rdata", "done"} /\ (pc' # "done" => result' = "none")
      BY <1>1, <2>1
    <2>9. QED
      BY <1>1, <1>2, <2>1, <2>3, <2>4, <2>5, <2>6, <2>7, <2>8 DEF RecInv, Data
  <1>5. QED
    BY <1>1, <1>3, <1>4 DEF RR_HDR_LEN

\* And the last check, which accepts only where the cut end was the real one
\* (dns_proto.c:993-1012).
LEMMA RecInvCheck ==
    ASSUME RecInv, Check PROVE RecInv' /\ offset' >= offset
  <1>1. /\ pc = "check" /\ pc \in Data /\ TypeOK /\ U16 \in Nat \ {0}
    BY SizesAssumption DEF RecInv, Check, Data
  <1>2. /\ UNCHANGED <<pkt_len, load_msg, sect_code, start, offset, rr_type, rdlen,
                       rdata, rd_end, owner, names_len, num_str, null_name, reach>>
        /\ pc' = "done"
    BY DEF Check, pkt, hdr
  <1>3. \/ result' = "error" /\ count' = count
        \/ /\ offset = rd_end /\ result' \in {"accept", "nodesc"}
           /\ count' = count \/ (load_msg /\ count' = count + 1)
    <2>1. CASE WrongEnd
      BY <2>1 DEF Check
    <2>2. CASE ~WrongEnd
      <3>1. CASE load_msg
        BY <2>2, <3>1 DEF Check, WrongEnd
      <3>2. CASE ~load_msg
        BY <2>2, <3>2 DEF Check, WrongEnd
      <3>3. QED
        BY <3>1, <3>2
    <2>3. QED
      BY <2>1, <2>2
  <1>4. count' \in Nat /\ count' <= MaxRR
    BY <1>1, <1>3, SizesAssumption DEF RecInv, TypeOK
  <1>5. TypeOK'
    BY <1>1, <1>2, <1>3, <1>4 DEF TypeOK
  <1>6. AcceptedExact'
    <2>1. SUFFICES ASSUME Accepted', rr_type # "OPT"
                   PROVE  offset = rdata + rdlen /\ offset <= pkt_len
      BY <1>2 DEF AcceptedExact
    <2>2. offset = rd_end
      BY <1>3, <2>1 DEF Accepted
    <2>3. /\ rdata <= offset /\ rd_end = (rdata + rdlen) % U16 /\ rd_end <= pkt_len
          /\ rdata \in Nat /\ rdlen \in 0..(U16 - 1)
      BY <1>1, <2>1 DEF RecInv, TypeOK
    <2>4. QED
      BY <1>1, <2>2, <2>3, CutEnd
  <1>7. (~Wraps => reach <= pkt_len)'
    BY <1>2 DEF RecInv, Wraps
  <1>8. offset' >= offset
    BY <1>1, <1>2 DEF TypeOK
  <1>9. QED
    BY <1>1, <1>2, <1>4, <1>5, <1>6, <1>7, <1>8 DEF RecInv, Data

\* One step, from the invariant: it holds again, and the offset went forward
\* unless the data's end was cut.
LEMMA RecInvNext ==
    ASSUME RecInv, Next
    PROVE  RecInv' /\ (offset' >= offset \/ (rr_type = "OPT" /\ Wraps))
  <1>1. CASE Name
    BY <1>1, RecInvName
  <1>2. CASE Fields
    BY <1>2, RecInvFields
  <1>3. CASE Check
    BY <1>3, RecInvCheck
  <1>4. CASE RdataStep
    <2>1. GoodStep /\ pc \in Data /\ pc # "check"
      BY <1>4, RdataGood
    <2>2. RecInv'
      BY <2>1, GoodStepInv
    <2>3. CASE RdataOPT /\ ~Wraps
      <3>1. /\ pc = "rdata" /\ rr_type = "OPT"
            /\ offset' = rd_end \/ offset' = offset
        BY <2>3 DEF RdataOPT, OffsetAtOpt
      <3>2. offset = rdata
        BY <3>1, <2>1, DataFacts
      <3>3. QED
        BY <2>1, <2>2, <2>3, <3>1, <3>2, DataFacts
    <2>4. CASE rr_type # "OPT"
      BY <2>1, <2>2, <2>4 DEF GoodStep
    <2>5. CASE rr_type = "OPT" /\ ~RdataOPT
      <3>1. pc # "rdata"
        BY <1>4, <2>5, Zenon DEF RdataStep, RdataA, RdataAAAA, FixedData, RdataNS, RdataCNAME,
              RdataPTR, RdataMX, RdataSRV, NumbersThenName, RdataSoaMname,
              RdataSoaRname, RdataSoaNumbers, RdataHinfoCpu, RdataHinfoOs, RdataTxt,
              RdataSkipped
      <3>2. QED
        BY <2>1, <2>2, <3>1, SMTT(30) DEF GoodStep
    <2>6. QED
      BY <2>2, <2>3, <2>4, <2>5
  <1>5. QED
    BY <1>1, <1>2, <1>3, <1>4 DEF Next, RdataStep

\* Every reachable state satisfies the inductive invariant.
THEOREM RecInvariant == Spec => []RecInv
  <1>1. RecInv /\ [Next]_vars => RecInv'
    <2> SUFFICES ASSUME RecInv, [Next]_vars PROVE RecInv'
      OBVIOUS
    <2>1. CASE UNCHANGED vars
      BY <2>1 DEF vars, pkt, hdr, store, RecInv, TypeOK, AcceptedExact, Accepted, Wraps
    <2>2. QED
      BY <2>1, RecInvNext
  <1>2. QED
    BY RecInvInit, <1>1, PTL DEF Spec

\* A record accepted by dns_rr_decode is consumed to the octet its length field
\* announces, inside the packet, although the end is kept in 16 bits
\* (dns_proto.c:670, 985-992).
THEOREM RecordSafety == Spec => []AcceptedExact
  <1>1. RecInv => AcceptedExact
    BY DEF RecInv
  <1>2. QED
    BY RecInvariant, <1>1, PTL

\* Its reads stay in the packet while that end is not cut (dns_proto.c:654-916).
THEOREM RecordReads == Spec => []ReadsInPacket
  <1>1. RecInv => ReadsInPacket
    BY DEF RecInv, ReadsInPacket
  <1>2. QED
    BY RecInvariant, <1>1, PTL

\* The name store and the slots of the section are never overfilled
\* (dns_proto.c:587-604, 882-887, 996).
THEOREM RecordStores == Spec => []StoreFits
  <1>1. RecInv => StoreFits
    BY DEF RecInv, StoreFits
  <1>2. QED
    BY RecInvariant, <1>1, PTL

\* dns_rr_decode never moves the offset back, except to the cut end of an
\* option record's data.
THEOREM RecordForward == Spec => ForwardOnly
  <1>1. RecInv /\ [Next]_vars => [offset' >= offset \/ (rr_type = "OPT" /\ Wraps)]_vars
    BY RecInvNext
  <1>2. QED
    BY RecInvariant, <1>1, PTL DEF Spec, ForwardOnly
============================================================================
