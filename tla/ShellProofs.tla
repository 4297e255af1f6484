------------------------------ MODULE ShellProofs ------------------------------
(***************************************************************************)
(* For every set of packets, whatever their bytes, and all lines: the      *)
(* parsers stay within the packet, a well-formed report is read as sent,   *)
(* msgs finds what it has announced, and what reaches the kernel is what   *)
(* was typed.                                                              *)
(*                                                                         *)
(* ReaderInv strengthens InBounds to an inductive invariant: it remembers  *)
(* what kind of message the parser has committed itself to.  AsSent adds,  *)
(* for a well-formed report, how much of it has been read.  WalkInv is the *)
(* invariant of the walk over parameters and words, proved over its steps. *)
(***************************************************************************)
EXTENDS Shell, NatFacts

\* What is known of a packet on the way through the parsers.
ReaderInv ==
    LET p == Content[rx.packet] IN
    /\ rx.at # "recv" => rx.packet \in Packet
    /\ rx.at \in {"header", "igmp"} => rx.found = <<>>
    /\ rx.at = "igmp" => p.protocol = 2
    /\ rx.at = "records" =>
        /\ p.type = V3Report
        /\ rx.pos + rx.left = MessageSize(p)
        /\ \A i \in DOMAIN rx.found :
            /\ rx.found[i] \in 0..p.len
            /\ rx.found[i] + NextGrec(p.word[rx.found[i]]) <= MessageSize(p)
    /\ rx.at = "object" /\ p.protocol = 2 /\ p.type = Query /\ MessageSize(p) > IgmpSize =>
        QuerySize + AddressSize * p.count <= MessageSize(p)

\* There is room for the packet under way (Recv respects the bound).
RoomForPacket == rx.at # "recv" => Len(queue) < MaxQueue

Inv == TypeOK /\ ReaderInv /\ RoomForPacket /\ AnnouncedArePrinted

(***************************************************************************)
(* Facts about packets and numbers.                                        *)
(***************************************************************************)
\* The fields of a packet have the types the assumption gives them, and its
\* message is no longer than itself.
LEMMA PacketType ==
    ASSUME NEW packet \in Packet
    PROVE  LET p == Content[packet] IN
           /\ p.len \in Nat /\ p.len < SizeT /\ p.ihl \in Nat /\ p.type \in Nat
           /\ p.code \in 0..255 /\ p.count \in Nat
           /\ \A q \in 0..p.len : p.word[q].nsrcs \in Nat
           /\ MessageSize(p) \in Nat /\ MessageSize(p) <= p.len
    BY IgmpAssumption DEF MessageSize

\* A response time is a natural number: the exponent of a code from 128 is
\* never below the 3 that are taken from it.
LEMMA MaxRespTimeType == \A code \in 0..255 : MaxRespTime(code) \in Nat
<1> SUFFICES ASSUME NEW code \in 0..255 PROVE MaxRespTime(code) \in Nat
    OBVIOUS
<1>1. CASE code < 128
    BY <1>1 DEF MaxRespTime
<1>2. CASE code >= 128
    <2>1. Exponent(code) - 3 \in {1, 2, 3, 4}
        BY <1>2 DEF Exponent
    <2>2. 2 ^ 1 \in Nat /\ 2 ^ 2 \in Nat /\ 2 ^ 3 \in Nat /\ 2 ^ 4 \in Nat
        BY SMT
    <2>3. 2 ^ (Exponent(code) - 3) \in Nat
        BY <2>1, <2>2
    <2>4. Or16(Mantissa(code)) \in Nat
        BY DEF Or16, Mantissa
    <2>5. MaxRespTime(code) = Or16(Mantissa(code)) * 2 ^ (Exponent(code) - 3)
        BY <1>2 DEF MaxRespTime
    <2> QED BY <2>3, <2>4, <2>5
<1> QED BY <1>1, <1>2

(***************************************************************************)
(* The reader's steps.                                                     *)
(***************************************************************************)
Reads == RxType /\ ReaderInv

LEMMA ReceiveReads ==
    ASSUME Reads, NEW p \in Packet, Receive(p)
    PROVE  Reads'
<1>1. rx' = [at |-> "header", packet |-> p, pos |-> 0, left |-> 0, found |-> <<>>, time |-> 0]
    BY DEF Receive, Ready
<1>2. RxType'
    <2>1. 0 \in 0..(SizeT - 1)
        BY IgmpAssumption
    <2>2. <<>> \in Seq(Nat)
        OBVIOUS
    <2> QED BY <1>1, <2>1, <2>2 DEF RxType, RxPlaces
<1>3. ReaderInv'
    BY <1>1 DEF ReaderInv
<1> QED BY <1>2, <1>3 DEF Reads

\* Nothing is claimed of a packet refused or skipped.
LEMMA EndsReads ==
    ASSUME Reads, rx.packet \in Packet,
           NEW outcome \in {"raise", "nothing", "dead"}, Ends(outcome)
    PROVE  Reads'
<1>1. RxType'
    BY DEF Reads, RxType, RxPlaces, Ends
<1>2. rx'.at = outcome /\ rx'.packet = rx.packet
    BY DEF Reads, RxType, Ends
<1>3. ReaderInv'
    BY <1>2 DEF ReaderInv
<1> QED BY <1>1, <1>3 DEF Reads

LEMMA ParseHeaderReads ==
    ASSUME Reads, ParseHeader
    PROVE  Reads'
<1> DEFINE p == Content[rx.packet]
<1>1. rx.packet \in Packet
    BY DEF Reads, ReaderInv, ParseHeader
<1>2. CASE Ends("raise") \/ Ends("nothing")
    BY <1>1, <1>2, EndsReads
<1>3. ASSUME NEW place \in {"igmp", "object"}, Ends(place),
             place = "igmp" => p.protocol = 2, place = "object" => p.protocol = 0
      PROVE  Reads'
    <2>1. RxType'
        BY <1>3 DEF Reads, RxType, RxPlaces, Ends
    <2>2. rx'.at = place /\ rx'.packet = rx.packet
        BY <1>3 DEF Reads, RxType, Ends
    <2>3. ReaderInv'
        <3>1. rx'.found = rx.found /\ rx.found = <<>>
            BY <1>3 DEF Reads, RxType, ReaderInv, Ends, ParseHeader
        <3> QED BY <1>1, <1>3, <2>2, <3>1 DEF ReaderInv
    <2> QED BY <2>1, <2>3 DEF Reads
<1> QED BY <1>2, <1>3 DEF ParseHeader

LEMMA ParseReportReads ==
    ASSUME Reads, ParseReport
    PROVE  Reads'
<1> DEFINE p == Content[rx.packet]
<1>1. rx.packet \in Packet
    BY DEF Reads, ReaderInv, ParseReport
<1>2. CASE Ends("raise")
    BY <1>1, <1>2, EndsReads
<1>3. CASE rx' = [rx EXCEPT !.at = "records", !.pos = IgmpSize,
                            !.left = Difference(MessageSize(p), IgmpSize)]
    <2>1. Difference(MessageSize(p), IgmpSize) = MessageSize(p) - 8 /\ MessageSize(p) >= 8
        BY <1>1, PacketType DEF ParseReport, Difference, IgmpSize
    <2>2. MessageSize(p) \in Nat /\ MessageSize(p) < SizeT
        BY <1>1, PacketType, IgmpAssumption
    <2>3. rx' = [rx EXCEPT !.at = "records", !.pos = 8, !.left = MessageSize(p) - 8]
        BY <1>3, <2>1 DEF IgmpSize
    <2>4. MessageSize(p) - 8 \in 0..(SizeT - 1)
        BY <2>1, <2>2, IgmpAssumption
    <2>5. RxType'
        BY <2>3, <2>4 DEF Reads, RxType, RxPlaces
    <2>6. rx'.found = rx.found /\ rx'.packet = rx.packet /\ rx'.at = "records"
          /\ rx'.pos = 8 /\ rx'.left = MessageSize(p) - 8
        BY <2>3 DEF Reads, RxType
    <2>7. rx.found = <<>>
        BY DEF Reads, ReaderInv, ParseReport
    <2>8. ReaderInv'
        BY <1>1, <2>1, <2>2, <2>6, <2>7 DEF ReaderInv, ParseReport
    <2> QED BY <2>5, <2>8 DEF Reads
<1> QED BY <1>2, <1>3 DEF ParseReport

LEMMA ParseQueryReads ==
    ASSUME Reads, ParseQuery
    PROVE  Reads'
<1> DEFINE p == Content[rx.packet]
<1>1. rx.packet \in Packet
    BY DEF Reads, ReaderInv, ParseQuery
<1>2. CASE Ends("raise")
    BY <1>1, <1>2, EndsReads
<1>3. CASE /\ MessageSize(p) >= QuerySize
           /\ Difference(MessageSize(p), QuerySize) >= AddressSize * p.count
           /\ rx' = [rx EXCEPT !.at = "object", !.time = MaxRespTime(p.code)]
    <2>1. QuerySize + AddressSize * p.count <= MessageSize(p)
        BY <1>1, <1>3, PacketType DEF Difference, QuerySize, AddressSize
    <2>2. MaxRespTime(p.code) \in Nat
        BY <1>1, PacketType, MaxRespTimeType
    <2>3. RxType'
        BY <1>3, <2>2 DEF Reads, RxType, RxPlaces
    <2>4. rx'.packet = rx.packet /\ rx'.at = "object"
        BY <1>3 DEF Reads, RxType
    <2>5. ReaderInv'
        BY <1>1, <2>1, <2>4 DEF ReaderInv
    <2> QED BY <2>3, <2>5 DEF Reads
<1> QED BY <1>2, <1>3 DEF ParseQuery

LEMMA ParseOlderReads ==
    ASSUME Reads, ParseOlder
    PROVE  Reads'
<1> DEFINE p == Content[rx.packet]
<1>1. rx.packet \in Packet
    BY DEF Reads, ReaderInv, ParseOlder
<1>2. CASE Ends("raise")
    BY <1>1, <1>2, EndsReads
<1>3. CASE rx' = [rx EXCEPT !.at = "object", !.time = p.code]
    <2>1. RxType'
        <3>1. p.code \in Nat
            BY <1>1, PacketType
        <3> QED BY <1>3, <3>1 DEF Reads, RxType, RxPlaces
    <2>2. rx'.packet = rx.packet /\ rx'.at = "object"
        BY <1>3 DEF Reads, RxType
    <2>3. ~(p.type = Query /\ MessageSize(p) > IgmpSize)
        BY <1>1, PacketType DEF ParseOlder, IgmpSize
    <2>4. ReaderInv'
        BY <1>1, <2>2, <2>3 DEF ReaderInv
    <2> QED BY <2>1, <2>4 DEF Reads
<1> QED BY <1>2, <1>3 DEF ParseOlder

\* The heart of the matter: a record not too short lies within what is left,
\* so that neither subtraction wraps.
LEMMA ParseRecordReads ==
    ASSUME Reads, ParseRecord
    PROVE  Reads'
<1> DEFINE p == Content[rx.packet]
           h == p.word[rx.pos]
<1>1. rx.packet \in Packet /\ rx.at = "records"
    BY DEF Reads, ReaderInv, ParseRecord
<1>2. CASE Ends("raise")
    BY <1>1, <1>2, EndsReads
<1>3. CASE /\ ~TooShort(rx.left, h)
           /\ rx' = [rx EXCEPT !.found = Append(@, rx.pos),
                               !.pos = @ + NextGrec(h),
                               !.left = Difference(@, NextGrec(h))]
    <2>1. /\ rx.pos \in Nat /\ rx.left \in Nat /\ rx.left < SizeT
          /\ rx.found \in Seq(Nat) /\ p.type = V3Report
          /\ rx.pos + rx.left = MessageSize(p)
        BY <1>1, IgmpAssumption DEF Reads, RxType, ReaderInv
    <2>2. /\ p.len \in Nat /\ MessageSize(p) \in Nat /\ MessageSize(p) <= p.len
          /\ \A q \in 0..p.len : p.word[q].nsrcs \in Nat
        BY <1>1, PacketType
    <2>3. rx.pos \in 0..p.len
        BY <2>1, <2>2
    <2>4. h.nsrcs \in Nat
        BY <2>2, <2>3
    <2>5. NextGrec(h) \in Nat /\ NextGrec(h) <= rx.left
        <3>1. NextGrec(h) = 8 + 4 * h.nsrcs
            BY DEF NextGrec, GrecSize, AddressSize
        <3>2. rx.left >= 8 /\ ~(Difference(rx.left, 8) < 4 * h.nsrcs)
            BY <1>3, <2>1 DEF TooShort, GrecSize, AddressSize
        <3>3. Difference(rx.left, 8) = rx.left - 8
            BY <3>2 DEF Difference
        <3> HIDE DEF h
        <3>4. rx.left - 8 >= 4 * h.nsrcs
            BY <2>1, <2>4, <3>2, <3>3
        <3> QED BY <2>1, <2>4, <3>1, <3>4
    <2>6. Difference(rx.left, NextGrec(h)) = rx.left - NextGrec(h)
        BY <2>1, <2>5 DEF Difference
    <2>7. /\ rx'.at = "records" /\ rx'.packet = rx.packet
          /\ rx'.found = Append(rx.found, rx.pos)
          /\ rx'.pos = rx.pos + NextGrec(h)
          /\ rx'.left = rx.left - NextGrec(h)
        BY <1>1, <1>3, <2>6 DEF Reads, RxType
    <2>8. RxType'
        <3>1. rx.pos + NextGrec(h) \in Nat /\ rx.left - NextGrec(h) \in 0..(SizeT - 1)
            BY <2>1, <2>5, IgmpAssumption
        <3>2. Append(rx.found, rx.pos) \in Seq(Nat)
            BY <2>1
        <3> QED BY <1>3, <2>6, <3>1, <3>2 DEF Reads, RxType
    <2>9. \A i \in DOMAIN rx'.found :
            /\ rx'.found[i] \in 0..p.len
            /\ rx'.found[i] + NextGrec(p.word[rx'.found[i]]) <= MessageSize(p)
        <3> SUFFICES ASSUME NEW i \in DOMAIN rx'.found
                     PROVE  /\ rx'.found[i] \in 0..p.len
                            /\ rx'.found[i] + NextGrec(p.word[rx'.found[i]]) <= MessageSize(p)
            OBVIOUS
        <3>1. CASE i = Len(rx.found) + 1
            <4>1. rx'.found[i] = rx.pos
                BY <2>1, <2>7, <3>1
            <4>2. rx.pos + NextGrec(h) <= MessageSize(p)
                BY <2>1, <2>2, <2>5
            <4> QED BY <2>3, <4>1, <4>2
        <3>2. CASE i # Len(rx.found) + 1
            <4>1. i \in DOMAIN rx.found /\ rx'.found[i] = rx.found[i]
                BY <2>1, <2>7, <3>2
            <4> QED BY <1>1, <4>1 DEF Reads, ReaderInv
        <3> QED BY <3>1, <3>2
    <2>10. rx'.pos + rx'.left = MessageSize(p)
        BY <2>1, <2>2, <2>5, <2>7
    <2>11. ReaderInv'
        BY <1>1, <2>1, <2>7, <2>9, <2>10 DEF ReaderInv
    <2> QED BY <2>8, <2>11 DEF Reads
<1> QED BY <1>2, <1>3 DEF ParseRecord

LEMMA EndOfRecordsReads ==
    ASSUME Reads, EndOfRecords
    PROVE  Reads'
<1> DEFINE p == Content[rx.packet]
<1>1. rx.packet \in Packet /\ p.type = V3Report
    BY DEF Reads, ReaderInv, EndOfRecords
<1>2. CASE Ends("raise")
    BY <1>1, <1>2, EndsReads
<1>3. CASE Ends("object")
    <2>1. RxType'
        BY <1>3 DEF Reads, RxType, RxPlaces, Ends
    <2>2. rx'.at = "object" /\ rx'.packet = rx.packet
        BY <1>3 DEF Reads, RxType, Ends
    <2>3. ReaderInv'
        BY <1>1, <2>2 DEF ReaderInv, V3Report, Query
    <2> QED BY <2>1, <2>3 DEF Reads
<1> QED BY <1>2, <1>3 DEF EndOfRecords

LEMMA ParseReads ==
    ASSUME Reads, Parse
    PROVE  Reads'
BY ParseHeaderReads, ParseReportReads, ParseQueryReads, ParseOlderReads,
   ParseRecordReads, EndOfRecordsReads DEF Parse

(***************************************************************************)
(* The whole shell.                                                        *)
(***************************************************************************)
LEMMA InitInv == Init => Inv
<1> SUFFICES ASSUME Init PROVE Inv
    OBVIOUS
<1>1. RxType
    <2>1. 0 \in 0..(SizeT - 1)
        BY IgmpAssumption
    <2>2. <<>> \in Seq(Nat)
        OBVIOUS
    <2> QED BY <2>1, <2>2 DEF Init, Ready, RxType, RxPlaces
<1>2. queue \in Seq({"object", "nothing"}) /\ Len(queue) <= MaxQueue
    BY ShellAssumption DEF Init
<1> QED BY <1>1, <1>2 DEF Init, Ready, Inv, TypeOK, ReaderInv, AnnouncedArePrinted,
                         RoomForPacket

LEMMA NextInv == Inv /\ [Next]_vars => Inv'
<1> SUFFICES ASSUME Inv, [Next]_vars PROVE Inv'
    OBVIOUS
<1> USE DEF Inv, TypeOK, AnnouncedArePrinted, RoomForPacket
<1>0. Reads /\ Len(queue) \in Nat
    BY DEF Reads
<1>1. ASSUME NEW line \in Line, Usage(line) PROVE Inv'
    BY <1>1 DEF Usage, RxType, ReaderInv
<1>2. ASSUME NEW line \in Line, NEW c \in Commands, Run(line, c) PROVE Inv'
    <2>1. rx' = rx /\ queue' = queue /\ main' \in {"prompt", "msgs", "exited"}
          /\ owed' \in {Len(queue), 0}
        BY <1>2 DEF Run
    <2>2. owed' <= Len(queue') /\ owed' \in Nat
        BY <1>0, <2>1
    <2> QED BY <2>1, <2>2 DEF RxType, ReaderInv
<1>3. CASE PrintMessage
    <2>1. rx' = rx /\ main' = main /\ queue # <<>> /\ queue' = Tail(queue)
        BY <1>3 DEF PrintMessage
    <2>2. queue' \in Seq({"object", "nothing"}) /\ Len(queue') = Len(queue) - 1
        BY <2>1
    <2>3. owed' \in Nat /\ (main = "msgs" => owed' <= Len(queue'))
        BY <1>0, <1>3, <2>2 DEF PrintMessage
    <2>4. Len(queue') < MaxQueue /\ Len(queue') <= MaxQueue
        BY <1>0, <2>2, ShellAssumption
    <2> QED BY <2>1, <2>2, <2>3, <2>4 DEF RxType, ReaderInv
<1>4. CASE EndOfMsgs
    BY <1>4 DEF EndOfMsgs, RxType, ReaderInv
<1>5. CASE Exit
    BY <1>5 DEF Exit, RxType, ReaderInv
<1>6. ASSUME NEW p \in Packet, Recv(p) PROVE Inv'
    <2>1. Reads'
        BY <1>0, <1>6, ReceiveReads DEF Recv
    <2> QED BY <1>6, <2>1 DEF Recv, Reads
<1>7. CASE Filter
    <2>1. Reads'
        BY <1>0, <1>7, ParseReads DEF Filter
    <2>2. rx.at # "recv"
        BY <1>7 DEF Filter, Parse, ParseHeader, ParseReport, ParseQuery, ParseOlder,
                    ParseRecord, EndOfRecords
    <2> QED BY <1>7, <2>1, <2>2 DEF Filter, Reads
<1>8. CASE Put
    <2>1. rx' = Ready /\ queue' = Append(queue, rx.at) /\ rx.at \in {"object", "nothing"}
          /\ main' = main /\ owed' = owed
        BY <1>8 DEF Put
    <2>2. queue' \in Seq({"object", "nothing"}) /\ Len(queue') = Len(queue) + 1
        BY <2>1
    <2>3. Len(queue') <= MaxQueue /\ (main' = "msgs" => owed' <= Len(queue'))
        BY <1>0, <2>1, <2>2, ShellAssumption
    <2>4. Reads'
        <3>1. 0 \in 0..(SizeT - 1) /\ <<>> \in Seq(Nat)
            BY IgmpAssumption
        <3> QED BY <2>1, <3>1 DEF Reads, RxType, RxPlaces, ReaderInv, Ready
    <2>5. rx'.at = "recv"
        BY <2>1 DEF Ready
    <2> QED BY <2>1, <2>2, <2>3, <2>4, <2>5 DEF Reads
<1>9. CASE Die
    <2>1. rx.packet \in Packet
        BY <1>9 DEF Die, ReaderInv
    <2>2. Reads'
        BY <1>0, <1>9, <2>1, EndsReads DEF Die
    <2> QED BY <1>9, <2>2 DEF Die, Reads
<1>10. CASE UNCHANGED vars
    BY <1>10 DEF vars, RxType, ReaderInv
<1> QED
    BY <1>1, <1>2, <1>3, <1>4, <1>5, <1>6, <1>7, <1>8, <1>9, <1>10 DEF Next, Msgs, Reader

LEMMA InvAlways == Spec => []Inv
    BY InitInv, NextInv, PTL DEF Spec

\* The shell's state stays well typed, whatever packets come and lines are typed:
\* in particular the count of what is left of a report never leaves the range of
\* a size_t, and msgs never counts below nothing.
THEOREM TypeCorrect == Spec => []TypeOK
<1>1. Inv => TypeOK
    BY DEF Inv
<1> QED BY InvAlways, <1>1, PTL

\* parse_igmpv3_grec_list and parse_query_src_list read within the message, for
\* every packet: their unsigned subtractions never wrap.
THEOREM InBoundsAlways == Spec => []InBounds
<1>1. Inv => InBounds
    BY DEF Inv, ReaderInv, InBounds
<1> QED BY InvAlways, <1>1, PTL

\* msgs finds every message it has announced, however the reader's puts fall.
THEOREM AnnouncedArePrintedAlways == Spec => []AnnouncedArePrinted
<1>1. Inv => AnnouncedArePrinted
    BY DEF Inv
<1> QED BY InvAlways, <1>1, PTL

(***************************************************************************)
(* A well-formed report is read as it was sent.  Its records begin where   *)
(* Sent says, each 8 bytes at least after the one before, and the last     *)
(* ends with the message: the loop of parse_igmpv3_grec_list, which goes   *)
(* by what is left and not by the announced number, meets exactly them.    *)
(***************************************************************************)
After(p, q) == q + GrecSize + AddressSize * (Word(p, q).nsrcs + Word(p, q).auxwords)

\* The records found so far are the first that were sent.
ReadSoFar ==
    LET p == Content[rx.packet] IN
    /\ Len(rx.found) <= p.count
    /\ rx.pos = Sent(p)[Len(rx.found) + 1]
    /\ \A i \in 1..Len(rx.found) : rx.found[i] = Sent(p)[i]

AsSent ==
    LET p == Content[rx.packet] IN
    rx.at # "recv" /\ WellFormed(p) =>
        /\ rx.at \in {"header", "igmp", "records", "object"}
        /\ rx.at = "records" => ReadSoFar
        /\ rx.at = "object" => rx.found = SubSeq(Sent(p), 1, p.count)

\* The recursion of Sent has a solution up to every n.
LEMMA SentExists ==
    ASSUME NEW p, NEW m \in Nat
    PROVE  \E f : f = [i \in 1..m |-> IF i = 1 THEN IgmpSize ELSE After(p, f[i - 1])]
<1> DEFINE Solves(f, n) ==
              f = [i \in 1..n |-> IF i = 1 THEN IgmpSize ELSE After(p, f[i - 1])]
           Unsolved == {n \in Nat : ~\E f : Solves(f, n)}
<1> SUFFICES ASSUME Unsolved # {} PROVE FALSE
    OBVIOUS
<1>1. PICK n \in Unsolved : \A k \in Unsolved : n <= k
    <2>1. Unsolved \subseteq Nat
        OBVIOUS
    <2> HIDE DEF Unsolved
    <2> QED BY <2>1, LeastElement
<1>2. n # 0
    <2> SUFFICES \E f : Solves(f, 0)
        OBVIOUS
    <2>1. Solves([i \in 1..0 |-> 0], 0)
        BY SMT
    <2> QED BY <2>1
<1>3. n - 1 \in Nat /\ n - 1 \notin Unsolved
    <2>1. n \in Nat
        BY <1>1
    <2>2. n - 1 \in Nat /\ ~(n <= n - 1)
        BY <1>2, <2>1
    <2> HIDE DEF Unsolved
    <2> QED BY <1>1, <2>2
<1>4. PICK f : Solves(f, n - 1)
    BY <1>3
<1> DEFINE g == [i \in 1..n |-> IF i < n THEN f[i]
                                ELSE IF n = 1 THEN IgmpSize ELSE After(p, f[n - 1])]
<1>5. ASSUME NEW i \in 1..n PROVE g[i] = IF i = 1 THEN IgmpSize ELSE After(p, g[i - 1])
    <2>1. CASE i = n
        <3>1. n # 1 => n - 1 \in 1..n /\ n - 1 < n
            BY <1>2
        <3> QED BY <2>1, <3>1
    <2>2. CASE i < n
        <3>1. i \in 1..(n - 1) /\ (i # 1 => i - 1 \in 1..n /\ i - 1 < n)
            BY <1>3, <2>2
        <3>2. f[i] = IF i = 1 THEN IgmpSize ELSE After(p, f[i - 1])
            BY <1>4, <3>1
        <3> QED BY <2>2, <3>1, <3>2
    <2> QED BY <2>1, <2>2
<1>6. Solves(g, n)
    <2>1. DOMAIN g = 1..n /\ g = [i \in 1..n |-> g[i]]
        OBVIOUS
    <2> HIDE DEF g
    <2> QED BY <1>5, <2>1
<1> HIDE DEF g
<1> QED BY <1>1, <1>6

LEMMA SentUnfolds ==
    ASSUME NEW p, p.count \in Nat
    PROVE  /\ DOMAIN Sent(p) = 1..(p.count + 1)
           /\ Sent(p) = [i \in 1..(p.count + 1) |->
                            IF i = 1 THEN IgmpSize ELSE After(p, Sent(p)[i - 1])]
<1> DEFINE Solves(f) == f = [i \in 1..(p.count + 1) |->
                                IF i = 1 THEN IgmpSize ELSE After(p, f[i - 1])]
<1>1. \E f : Solves(f)
    <2>1. p.count + 1 \in Nat
        OBVIOUS
    <2> QED BY <2>1, SentExists
<1>2. Sent(p) = CHOOSE f : Solves(f)
    BY DEF Sent, After
<1>3. Solves(Sent(p))
    <2> HIDE DEF Solves
    <2> QED BY <1>1, <1>2
<1> QED BY <1>3

LEMMA SentSteps ==
    ASSUME NEW p, p.count \in Nat
    PROVE  /\ Sent(p)[1] = IgmpSize
           /\ \A i \in 1..p.count : Sent(p)[i + 1] = After(p, Sent(p)[i])
<1>1. Sent(p)[1] = IgmpSize
    BY SentUnfolds
<1>2. ASSUME NEW i \in 1..p.count PROVE Sent(p)[i + 1] = After(p, Sent(p)[i])
    <2>1. i + 1 \in 1..(p.count + 1) /\ i + 1 # 1 /\ (i + 1) - 1 = i
        OBVIOUS
    <2>2. Sent(p)[i + 1] = IF i + 1 = 1 THEN IgmpSize ELSE After(p, Sent(p)[(i + 1) - 1])
        BY <2>1, SentUnfolds
    <2> QED BY <2>1, <2>2
<1> QED BY <1>1, <1>2

\* What a header amounts to, at any offset.
LEMMA WordType ==
    ASSUME NEW packet \in Packet, NEW q
    PROVE  LET h == Word(Content[packet], q) IN
           /\ h.nsrcs \in Nat /\ h.auxwords \in Nat
           /\ q \in 0..Content[packet].len => h = Content[packet].word[q]
<1> DEFINE word == Content[packet].word
           h == Word(Content[packet], q)
<1>1. word \in [0..Content[packet].len -> [type : Nat, auxwords : Nat, nsrcs : Nat]]
    BY IgmpAssumption
<1>2. DOMAIN word = 0..Content[packet].len
    BY <1>1
<1>3. CASE q \in 0..Content[packet].len
    <2>1. h = word[q]
        BY <1>2, <1>3 DEF Word
    <2>2. word[q] \in [type : Nat, auxwords : Nat, nsrcs : Nat]
        BY <1>1, <1>3
    <2> QED BY <2>1, <2>2
<1>4. CASE q \notin 0..Content[packet].len
    <2>1. h = [type |-> 0, auxwords |-> 0, nsrcs |-> 0]
        BY <1>2, <1>4 DEF Word
    <2> QED BY <1>4, <2>1
<1> QED BY <1>3, <1>4

\* The records are sent at increasing offsets, 8 bytes apart at least.
LEMMA SentGrows ==
    ASSUME NEW packet \in Packet
    PROVE  LET p == Content[packet] IN
           /\ \A i \in 1..(p.count + 1) : Sent(p)[i] \in Nat /\ Sent(p)[i] >= 8 * i
           /\ \A i \in 1..p.count : Sent(p)[i + 1] >= Sent(p)[i] + 8
<1> DEFINE p == Content[packet]
           Good(i) == Sent(p)[i] \in Nat /\ Sent(p)[i] >= 8 * i
           Bad == {i \in 1..(p.count + 1) : ~Good(i)}
<1>1. p.count \in Nat
    BY PacketType
<1>2. ASSUME NEW i \in 1..p.count, Sent(p)[i] \in Nat
      PROVE  Sent(p)[i + 1] \in Nat /\ Sent(p)[i + 1] >= Sent(p)[i] + 8
    <2> DEFINE h == Word(p, Sent(p)[i])
    <2>1. Sent(p)[i + 1] = Sent(p)[i] + 8 + 4 * (h.nsrcs + h.auxwords)
        BY <1>1, SentSteps DEF After, GrecSize, AddressSize
    <2>2. h.nsrcs \in Nat /\ h.auxwords \in Nat
        BY WordType
    <2> HIDE DEF h, p
    <2> QED BY <1>2, <2>1, <2>2
<1>3. Bad = {}
    <2> SUFFICES ASSUME Bad # {} PROVE FALSE
        OBVIOUS
    <2>1. PICK i \in Bad : \A k \in Bad : i <= k
        <3>1. Bad \subseteq Nat
            OBVIOUS
        <3> HIDE DEF Bad
        <3> QED BY <3>1, LeastElement
    <2>2. i \in 1..(p.count + 1) /\ i \in Nat /\ ~Good(i)
        BY <2>1
    <2>3. i # 1
        <3>1. Good(1)
            BY <1>1, SentSteps DEF IgmpSize
        <3> HIDE DEF Good
        <3> QED BY <2>2, <3>1
    <2>4. i - 1 \in 1..p.count /\ i - 1 \in 1..(p.count + 1) /\ ~(i <= i - 1)
          /\ (i - 1) + 1 = i
        BY <1>1, <2>2, <2>3
    <2>5. Good(i - 1)
        <3>1. i - 1 \notin Bad
            <4> HIDE DEF Bad
            <4> QED BY <2>1, <2>4
        <3> QED BY <2>4, <3>1
    <2>6. Sent(p)[i] \in Nat /\ Sent(p)[i] >= Sent(p)[i - 1] + 8
        BY <1>2, <2>4, <2>5
    <2>7. Good(i)
        <3> HIDE DEF p
        <3> QED BY <2>2, <2>5, <2>6
    <2> QED BY <2>2, <2>7
<1>4. ASSUME NEW i \in 1..(p.count + 1) PROVE Good(i)
    BY <1>3
<1>5. ASSUME NEW i \in 1..p.count PROVE Sent(p)[i + 1] >= Sent(p)[i] + 8
    <2>1. i \in 1..(p.count + 1)
        BY <1>1
    <2> QED BY <1>2, <1>4, <2>1
<1> QED BY <1>4, <1>5

\* The records of a well-formed report begin and end within the message.
LEMMA SentWithin ==
    ASSUME NEW packet \in Packet, WellFormed(Content[packet])
    PROVE  LET p == Content[packet] IN
           /\ MessageSize(p) >= 8 + 8 * p.count
           /\ \A i \in 1..p.count :
                /\ Sent(p)[i] \in 0..p.len /\ p.word[Sent(p)[i]].type \in RecordTypes
                /\ Sent(p)[i + 1] = Sent(p)[i] + NextGrec(p.word[Sent(p)[i]])
                /\ Sent(p)[i + 1] <= MessageSize(p)
<1> DEFINE p == Content[packet]
           Bad == {d \in 0..p.count : ~(Sent(p)[p.count + 1 - d] <= MessageSize(p))}
<1>1. /\ p.count \in Nat /\ p.count > 0 /\ Sent(p)[p.count + 1] = MessageSize(p)
      /\ p.len \in Nat /\ MessageSize(p) \in Nat /\ MessageSize(p) <= p.len
    BY PacketType DEF WellFormed
<1>2. MessageSize(p) >= 8 + 8 * p.count
    <2>1. p.count + 1 \in 1..(p.count + 1)
        BY <1>1
    <2>2. Sent(p)[p.count + 1] >= 8 * (p.count + 1)
        BY <2>1, SentGrows
    <2> HIDE DEF p
    <2> QED BY <1>1, <2>2
<1>3. Bad = {}
    <2> SUFFICES ASSUME Bad # {} PROVE FALSE
        OBVIOUS
    <2>1. PICK d \in Bad : \A k \in Bad : d <= k
        <3>1. Bad \subseteq Nat
            OBVIOUS
        <3> HIDE DEF Bad
        <3> QED BY <3>1, LeastElement
    <2>2. d \in 0..p.count /\ ~(Sent(p)[p.count + 1 - d] <= MessageSize(p))
        BY <2>1
    <2>3. d # 0
        BY <1>1, <2>2
    <2>4. d - 1 \in 0..p.count /\ ~(d <= d - 1)
        BY <1>1, <2>2, <2>3
    <2>5. d - 1 \notin Bad
        <3> HIDE DEF Bad
        <3> QED BY <2>1, <2>4
    <2>6. PICK i \in 1..p.count : i = p.count + 1 - d /\ i + 1 = p.count + 1 - (d - 1)
        BY <1>1, <2>2, <2>3
    <2>7. Sent(p)[i + 1] <= MessageSize(p)
        BY <2>4, <2>5, <2>6
    <2>8. i \in 1..(p.count + 1) /\ i + 1 \in 1..(p.count + 1)
        BY <1>1
    <2>9. Sent(p)[i] \in Nat /\ Sent(p)[i + 1] \in Nat /\ Sent(p)[i + 1] >= Sent(p)[i] + 8
        BY <2>8, SentGrows
    <2>10. Sent(p)[i] <= MessageSize(p)
        <3> HIDE DEF p
        <3> QED BY <1>1, <2>7, <2>9
    <2> QED BY <2>2, <2>6, <2>10
<1>4. ASSUME NEW i \in 1..(p.count + 1) PROVE Sent(p)[i] <= MessageSize(p)
    <2>1. p.count + 1 - i \in 0..p.count /\ p.count + 1 - (p.count + 1 - i) = i
        BY <1>1
    <2>2. p.count + 1 - i \notin Bad
        BY <1>3
    <2> QED BY <2>1, <2>2
<1>5. ASSUME NEW i \in 1..p.count
      PROVE  /\ Sent(p)[i] \in 0..p.len /\ p.word[Sent(p)[i]].type \in RecordTypes
             /\ Sent(p)[i + 1] = Sent(p)[i] + NextGrec(p.word[Sent(p)[i]])
             /\ Sent(p)[i + 1] <= MessageSize(p)
    <2>1. i \in 1..(p.count + 1) /\ i + 1 \in 1..(p.count + 1)
        BY <1>1
    <2>2. Sent(p)[i] \in Nat /\ Sent(p)[i] <= MessageSize(p) /\ Sent(p)[i + 1] <= MessageSize(p)
        BY <1>4, <2>1, SentGrows
    <2>3. Sent(p)[i] \in 0..p.len
        <3> HIDE DEF p
        <3> QED BY <1>1, <2>2
    <2>4. Word(p, Sent(p)[i]) = p.word[Sent(p)[i]]
        BY <2>3, WordType
    <2>5. p.word[Sent(p)[i]].type \in RecordTypes /\ p.word[Sent(p)[i]].auxwords = 0
        BY <2>4 DEF WellFormed
    <2>6. Sent(p)[i + 1] = Sent(p)[i] + GrecSize + AddressSize * (p.word[Sent(p)[i]].nsrcs + 0)
        BY <1>1, <2>4, <2>5, SentSteps DEF After
    <2>7. p.word[Sent(p)[i]].nsrcs \in Nat
        BY <2>4, WordType
    <2>8. Sent(p)[i + 1] = Sent(p)[i] + NextGrec(p.word[Sent(p)[i]])
        <3> HIDE DEF p
        <3> QED BY <2>2, <2>6, <2>7 DEF NextGrec, GrecSize, AddressSize
    <2> QED BY <2>2, <2>3, <2>5, <2>8
<1> QED BY <1>2, <1>5

(***************************************************************************)
(* The reader's steps on a well-formed report.                             *)
(***************************************************************************)
LEMMA ReportStays ==
    ASSUME Reads, AsSent, rx.at # "recv", WellFormed(Content[rx.packet]), Parse
    PROVE  rx'.packet = rx.packet /\ rx'.at \in {"igmp", "records", "object"}
           /\ (rx'.at = "records" => ReadSoFar')
           /\ (rx'.at = "object" => rx'.found = SubSeq(Sent(Content[rx.packet]), 1,
                                                      Content[rx.packet].count))
<1> DEFINE p == Content[rx.packet]
           n == Len(rx.found)
           q == Sent(p)[n + 1]
           h == p.word[rx.pos]
<1>1. /\ rx.packet \in Packet /\ RxType /\ rx.found \in Seq(Nat) /\ n \in Nat
      /\ rx.pos \in Nat /\ rx.left \in Nat /\ rx.left < SizeT
    BY IgmpAssumption DEF Reads, ReaderInv, RxType
<1>2. /\ p.type = V3Report /\ p.protocol = 2 /\ HeaderParses(p) /\ p.count \in Nat
      /\ p.count > 0 /\ Sent(p)[p.count + 1] = MessageSize(p)
      /\ MessageSize(p) \in Nat /\ MessageSize(p) >= 8 + 8 * p.count
    BY <1>1, PacketType, SentWithin DEF WellFormed
<1>3. CASE ParseHeader
    <2>1. Ends("igmp")
        BY <1>2, <1>3 DEF ParseHeader
    <2> QED BY <1>1, <2>1 DEF Ends, RxType
<1>4. CASE ParseReport
    <2>1. rx' = [rx EXCEPT !.at = "records", !.pos = IgmpSize,
                           !.left = Difference(MessageSize(p), IgmpSize)]
        BY <1>2, <1>4 DEF ParseReport, IgmpSize, GrecSize
    <2>2. rx'.packet = rx.packet /\ rx'.at = "records" /\ rx'.pos = IgmpSize
          /\ rx'.found = <<>>
        BY <1>1, <1>4, <2>1 DEF RxType, Reads, ReaderInv, ParseReport
    <2>3. Sent(p)[1] = IgmpSize
        BY <1>2, SentSteps
    <2>4. ReadSoFar'
        BY <1>2, <2>2, <2>3 DEF ReadSoFar
    <2> QED BY <2>2, <2>4
<1>5. ASSUME ParseQuery \/ ParseOlder PROVE FALSE
    BY <1>2, <1>5 DEF ParseQuery, ParseOlder, V3Report, Query, IgmpSize
<1>6. ASSUME ParseRecord \/ EndOfRecords
      PROVE  /\ rx.at = "records" /\ n <= p.count /\ rx.pos = q
             /\ \A i \in 1..n : rx.found[i] = Sent(p)[i]
             /\ rx.pos + rx.left = MessageSize(p)
    BY <1>6 DEF AsSent, ReadSoFar, Reads, ReaderInv, ParseRecord, EndOfRecords
<1>7. CASE ParseRecord
    <2>1. rx.left > 0 /\ n # p.count
        BY <1>1, <1>2, <1>6, <1>7 DEF ParseRecord
    <2>2. n + 1 \in 1..p.count
        BY <1>1, <1>2, <1>6, <1>7, <2>1
    <2>3. /\ q \in 0..p.len /\ Sent(p)[n + 2] = q + NextGrec(h)
          /\ Sent(p)[n + 2] <= MessageSize(p)
        <3>1. (n + 1) + 1 = n + 2
            BY <1>1
        <3> QED BY <1>1, <1>6, <1>7, <2>2, <3>1, SentWithin
    <2>4. h.nsrcs \in Nat
        BY <1>1, <1>6, <1>7, <2>3, PacketType
    <2>5. NextGrec(h) = 8 + 4 * h.nsrcs
        BY DEF NextGrec, GrecSize, AddressSize
    <2>6. rx.left >= 8 + 4 * h.nsrcs
        <3>1. rx.pos + NextGrec(h) <= rx.pos + rx.left
            BY <1>6, <1>7, <2>3
        <3> HIDE DEF p, q, h
        <3> QED BY <1>1, <2>4, <2>5, <3>1
    <2>7. Difference(rx.left, 8) = rx.left - 8 /\ ~TooShort(rx.left, h)
        <3> HIDE DEF p, q, h
        <3>1. Difference(rx.left, 8) = rx.left - 8
            BY <1>1, <2>4, <2>6 DEF Difference
        <3>2. ~(rx.left < 8) /\ ~(rx.left - 8 < 4 * h.nsrcs)
            BY <1>1, <2>4, <2>6
        <3> QED BY <3>1, <3>2 DEF TooShort, GrecSize, AddressSize
    <2>8. rx' = [rx EXCEPT !.found = Append(@, rx.pos),
                           !.pos = @ + NextGrec(h),
                           !.left = Difference(@, NextGrec(h))]
        BY <1>7, <2>7 DEF ParseRecord
    <2>9. /\ rx'.packet = rx.packet /\ rx'.at = "records"
          /\ rx'.found = Append(rx.found, rx.pos) /\ rx'.pos = rx.pos + NextGrec(h)
        BY <1>1, <1>6, <1>7, <2>8 DEF RxType
    <2>10. Len(rx'.found) = n + 1 /\ (n + 1) + 1 = n + 2
        BY <1>1, <2>9
    <2>11. ASSUME NEW i \in 1..(n + 1) PROVE rx'.found[i] = Sent(p)[i]
        <3>1. CASE i = n + 1
            BY <1>1, <1>6, <1>7, <2>9, <3>1
        <3>2. CASE i # n + 1
            <4>1. i \in 1..n /\ rx'.found[i] = rx.found[i]
                BY <1>1, <2>9, <3>2
            <4> QED BY <1>6, <1>7, <4>1
        <3> QED BY <3>1, <3>2
    <2>12. rx'.pos = Sent(p)[n + 2] /\ n + 1 <= p.count
        BY <1>1, <1>2, <1>6, <1>7, <2>2, <2>3, <2>9
    <2>13. ReadSoFar'
        BY <2>9, <2>10, <2>11, <2>12 DEF ReadSoFar
    <2> QED BY <2>9, <2>13
<1>8. CASE EndOfRecords
    <2>1. rx.left = 0
        BY <1>8 DEF EndOfRecords
    <2>2. n = p.count
        <3> SUFFICES ASSUME n # p.count PROVE FALSE
            OBVIOUS
        <3>1. n + 1 \in 1..p.count /\ n + 1 \in 1..(p.count + 1)
              /\ (n + 1) + 1 \in 1..(p.count + 1)
            <4>1. n \in Nat /\ p.count \in Nat /\ n <= p.count
                BY <1>1, <1>2, <1>6, <1>8
            <4>2. \A m, c \in Nat : m <= c /\ m # c =>
                      m + 1 \in 1..c /\ m + 1 \in 1..(c + 1) /\ (m + 1) + 1 \in 1..(c + 1)
                OBVIOUS
            <4> HIDE DEF n, p
            <4> QED BY <4>1, <4>2
        <3>2. /\ Sent(p)[(n + 1) + 1] \in Nat /\ Sent(p)[(n + 1) + 1] >= q + 8
              /\ Sent(p)[(n + 1) + 1] <= MessageSize(p)
            BY <1>1, <3>1, SentGrows, SentWithin
        <3> HIDE DEF p, q
        <3> QED BY <1>1, <1>2, <1>6, <1>8, <2>1, <3>2
    <2>3. \A i \in DOMAIN rx.found : p.word[rx.found[i]].type \in RecordTypes
        <3>1. DOMAIN rx.found = 1..n
            BY <1>1
        <3> QED BY <1>1, <1>6, <1>8, <2>2, <3>1, SentWithin
    <2>4. Ends("object")
        BY <1>8, <2>3 DEF EndOfRecords
    <2>5. rx'.packet = rx.packet /\ rx'.at = "object" /\ rx'.found = rx.found
        BY <1>1, <2>4 DEF Ends, RxType
    <2>6. rx.found = SubSeq(Sent(p), 1, p.count)
        <3> DEFINE all == Sent(p)
                   sent == SubSeq(all, 1, n)
        <3>1. all \in Seq(Nat) /\ Len(all) = n + 1
            <4>1. all = [i \in 1..(n + 1) |-> all[i]]
                BY <1>2, <2>2, SentUnfolds
            <4>2. \A i \in 1..(n + 1) : all[i] \in Nat
                BY <1>1, <2>2, SentGrows
            <4> HIDE DEF all
            <4> QED BY <1>1, <4>1, <4>2
        <3>2. sent \in Seq(Nat) /\ Len(sent) = n /\ \A i \in 1..n : sent[i] = all[i]
            <4> HIDE DEF all
            <4> QED BY <1>1, <3>1
        <3>3. \A i \in 1..n : rx.found[i] = sent[i]
            BY <1>6, <1>8, <3>2
        <3>4. rx.found = sent
            <4> HIDE DEF sent
            <4>1. sent = [i \in 1..n |-> sent[i]]
                BY <3>2
            <4>2. rx.found = [i \in 1..n |-> rx.found[i]]
                BY <1>1
            <4> QED BY <3>3, <4>1, <4>2
        <3> QED BY <2>2, <3>4
    <2> QED BY <2>5, <2>6
<1> QED BY <1>3, <1>4, <1>5, <1>7, <1>8 DEF Parse

LEMMA NextAsSent == Inv /\ AsSent /\ [Next]_vars => AsSent'
<1> SUFFICES ASSUME Inv, AsSent, [Next]_vars, rx'.at # "recv", WellFormed(Content[rx'.packet])
             PROVE  /\ rx'.at \in {"header", "igmp", "records", "object"}
                    /\ (rx'.at = "records" => ReadSoFar')
                    /\ (rx'.at = "object" => rx'.found = SubSeq(Sent(Content[rx'.packet]), 1,
                                                                Content[rx'.packet].count))
    BY DEF AsSent
<1>1. Reads
    BY DEF Inv, TypeOK, Reads
<1>2. CASE rx' = rx
    BY <1>2 DEF AsSent, ReadSoFar
<1>3. ASSUME NEW packet \in Packet, Recv(packet)
      PROVE  rx'.at = "header"
    BY <1>3 DEF Recv, Receive, Ready
<1>4. CASE Filter
    <2>1. Parse /\ rx.at # "recv"
        BY <1>4 DEF Filter, Parse, ParseHeader, ParseReport, ParseQuery, ParseOlder,
                    ParseRecord, EndOfRecords
    <2>2. rx'.packet = rx.packet
        BY <1>1, <2>1 DEF Reads, RxType, Parse, ParseHeader, ParseReport, ParseQuery, ParseOlder,
                    ParseRecord, EndOfRecords, Ends
    <2> QED BY <1>1, <2>1, <2>2, ReportStays
<1>5. CASE Put
    <2>1. rx'.at = "recv"
        BY <1>5 DEF Put, Ready
    <2> QED BY <2>1
<1>6. CASE Die
    <2>1. rx.at = "raise" /\ rx'.packet = rx.packet
        BY <1>1, <1>6 DEF Die, Ends, Reads, RxType
    <2> QED BY <2>1 DEF AsSent
<1>7. CASE \/ \E line \in Line : Usage(line) \/ \E c \in Commands : Run(line, c)
           \/ PrintMessage \/ EndOfMsgs \/ Exit \/ UNCHANGED vars
    <2>1. rx' = rx
        BY <1>7 DEF Usage, Run, PrintMessage, EndOfMsgs, Exit, vars
    <2> QED BY <1>2, <2>1
<1> QED BY <1>3, <1>4, <1>5, <1>6, <1>7 DEF Next, Msgs, Reader

LEMMA AsSentAlways == Spec => []AsSent
<1>1. Init => AsSent
    BY DEF Init, Ready, AsSent
<1> QED BY <1>1, InvAlways, NextAsSent, PTL DEF Spec

\* Every well-formed report without auxiliary data, of any number of records and
\* sources, passes parse_igmp and parse_membership_report without an exception,
\* and each record is read where its sender put it.
THEOREM ReportAsSentAlways == Spec => []ReportAsSent
<1>1. Inv /\ AsSent => ReportAsSent
    <2> SUFFICES ASSUME Inv, AsSent, rx.packet # NoPacket, WellFormed(Content[rx.packet])
                 PROVE  /\ rx.at \notin {"raise", "dead"}
                        /\ rx.at = "object" => rx.found = SubSeq(Sent(Content[rx.packet]), 1,
                                                                 Content[rx.packet].count)
        BY DEF ReportAsSent
    <2> QED BY DEF AsSent
<1> QED BY <1>1, InvAlways, AsSentAlways, PTL

(***************************************************************************)
(* What reaches the kernel is what was typed.  The walk over parameters    *)
(* and words has, as long as it goes on, one positional argument for each  *)
(* required parameter passed and one keyword for each other; it stops      *)
(* without an error at the end of the words or at an empty one.            *)
(***************************************************************************)
Words == Seq(STRING)

\* The parameters of a command: required ones first, with or without others.
Signature(params, r) ==
    /\ Len(params) \in Nat /\ DOMAIN params = 1..Len(params)
    /\ r \in 0..Len(params)
    /\ \A i \in DOMAIN params : params[i].required <=> i <= r

WalkType(w) == w \in [at : {"loop", "break", "error"}, args : Seq(Words), kwargs : Seq(Words)]

\* The first k words are in w, at the first k parameters.
Taken(w, params, words, r, k) ==
    /\ k \in 0..Len(params) /\ k <= Len(words)
    /\ Len(w.args) = IF k <= r THEN k ELSE r
    /\ Len(w.kwargs) = IF k <= r THEN 0 ELSE k - r
    /\ \A j \in 1..Len(w.args) : w.args[j] = words[j]
    /\ \A j \in 1..Len(w.kwargs) :
        w.kwargs[j] = words[r + j] /\ IsKeyword(words[r + j]) /\ words[r + j][1] \in Names(params)

Stopped(w, params, words, r) ==
    \E k \in r..Len(params) :
        /\ Taken(w, params, words, r, k)
        /\ k = Len(words) \/ (k + 1 \in DOMAIN words /\ words[k + 1] = Empty)

WalkInv(w, params, words, r, i) ==
    /\ WalkType(w)
    /\ w.at = "loop" => Taken(w, params, words, r, i)
    /\ w.at = "break" => Stopped(w, params, words, r)

LEMMA StepWalks ==
    ASSUME NEW params, NEW words \in Seq(Words), NEW r, Signature(params, r),
           NEW i \in Nat \ {0}, NEW w, WalkInv(w, params, words, r, i - 1)
    PROVE  WalkInv(Step(w, params, words, i), params, words, r, i)
<1> DEFINE next == Step(w, params, words, i)
<1>1. /\ WalkType(w) /\ Len(params) \in Nat /\ Len(words) \in Nat /\ r \in Nat
      /\ r <= Len(params) /\ DOMAIN params = 1..Len(params) /\ DOMAIN words = 1..Len(words)
    BY DEF Signature, WalkInv
<1>2. CASE w.at # "loop"
    <2>1. next = w
        BY <1>2 DEF Step
    <2> QED BY <1>2, <2>1 DEF WalkInv
<1> SUFFICES ASSUME w.at = "loop" PROVE WalkInv(next, params, words, r, i)
    BY <1>2
<1>3. /\ Taken(w, params, words, r, i - 1) /\ i - 1 \in Nat /\ (i - 1) + 1 = i
      /\ i - 1 <= Len(params) /\ i - 1 <= Len(words)
    BY <1>1 DEF WalkInv, Taken
<1>4. ASSUME next = [w EXCEPT !.at = "error"] PROVE WalkInv(next, params, words, r, i)
    <2>1. WalkType(next) /\ next.at = "error"
        BY <1>1, <1>4 DEF WalkType
    <2> HIDE DEF next
    <2> QED BY <2>1 DEF WalkInv
<1>5. ASSUME next = [w EXCEPT !.at = "break"], r <= i - 1,
             i - 1 = Len(words) \/ (i \in DOMAIN words /\ words[i] = Empty)
      PROVE  WalkInv(next, params, words, r, i)
    <2>1. WalkType(next) /\ next.at = "break" /\ next.args = w.args /\ next.kwargs = w.kwargs
        BY <1>1, <1>5 DEF WalkType
    <2> HIDE DEF next
    <2>2. Taken(next, params, words, r, i - 1)
        BY <1>3, <2>1 DEF Taken
    <2>3. i - 1 \in r..Len(params)
        BY <1>1, <1>3, <1>5
    <2>4. Stopped(next, params, words, r)
        BY <1>3, <1>5, <2>2, <2>3 DEF Stopped
    <2> QED BY <2>1, <2>4 DEF WalkInv
<1>6. CASE i > Len(params)
    <2>1. i - 1 = Len(params)
        BY <1>1, <1>3, <1>6
    <2>2. next = [w EXCEPT !.at = IF words[i] = Empty THEN "break" ELSE "error"]
        BY <1>6 DEF Step
    <2>3. CASE words[i] # Empty
        BY <1>4, <2>2, <2>3
    <2>4. CASE words[i] = Empty /\ i \in DOMAIN words
        BY <1>1, <1>5, <2>1, <2>2, <2>4
    <2>5. CASE i \notin DOMAIN words
        <3>1. i - 1 = Len(words)
            BY <1>1, <1>3, <2>5
        <3> QED BY <1>1, <1>5, <2>1, <2>2, <2>3, <3>1
    <2> QED BY <2>3, <2>4, <2>5
<1>7. CASE i <= Len(params) /\ i > Len(words)
    <2>1. i \in DOMAIN params /\ i - 1 = Len(words)
        BY <1>1, <1>3, <1>7
    <2>2. next = [w EXCEPT !.at = IF params[i].required THEN "error" ELSE "break"]
        BY <1>1, <1>7 DEF Step
    <2>3. CASE params[i].required
        BY <1>4, <2>2, <2>3
    <2>4. CASE ~params[i].required
        <3>1. ~(i <= r)
            BY <2>1, <2>4 DEF Signature
        <3>2. r <= i - 1
            BY <1>1, <1>3, <3>1
        <3> QED BY <1>5, <2>1, <2>2, <2>4, <3>2
    <2> QED BY <2>3, <2>4
<1>8. CASE i <= Len(params) /\ i <= Len(words) /\ params[i].required
    <2>1. i \in DOMAIN params /\ i \in DOMAIN words /\ i \in 0..Len(params)
        BY <1>1, <1>8
    <2>2. i <= r
        BY <1>8, <2>1 DEF Signature
    <2>3. next = [w EXCEPT !.args = Append(@, words[i])]
        BY <1>1, <1>8 DEF Step
    <2>4. /\ WalkType(next) /\ next.at = "loop" /\ next.kwargs = w.kwargs
          /\ next.args = Append(w.args, words[i])
        <3>1. words[i] \in Words /\ w.args \in Seq(Words)
            BY <1>1, <2>1 DEF WalkType
        <3>2. Append(w.args, words[i]) \in Seq(Words)
            BY <3>1
        <3> HIDE DEF next
        <3> QED BY <1>1, <2>3, <3>2 DEF WalkType
    <2>5. Len(w.args) = i - 1 /\ Len(w.kwargs) = 0 /\ w.args \in Seq(Words)
        BY <1>1, <1>3, <2>2 DEF Taken, WalkType
    <2>6. Len(next.args) = i /\ \A j \in 1..i : next.args[j] = words[j]
        <3> HIDE DEF next
        <3>1. ASSUME NEW j \in 1..i PROVE next.args[j] = words[j]
            <4>1. CASE j = i
                BY <1>3, <2>4, <2>5, <4>1
            <4>2. CASE j # i
                <5>1. j \in 1..Len(w.args) /\ next.args[j] = w.args[j]
                    BY <1>3, <2>4, <2>5, <4>2
                <5> QED BY <1>3, <5>1 DEF Taken
            <4> QED BY <4>1, <4>2
        <3> QED BY <1>3, <2>4, <2>5, <3>1
    <2> HIDE DEF next
    <2>7. Taken(next, params, words, r, i)
        BY <1>1, <1>8, <2>1, <2>2, <2>4, <2>5, <2>6 DEF Taken
    <2> QED BY <2>4, <2>7 DEF WalkInv
<1>9. CASE i <= Len(params) /\ i <= Len(words) /\ ~params[i].required
    <2>1. i \in DOMAIN params /\ i \in DOMAIN words /\ i \in 0..Len(params)
        BY <1>1, <1>9
    <2>2. ~(i <= r)
        BY <1>9, <2>1 DEF Signature
    <2>3. CASE ~(IsKeyword(words[i]) /\ words[i][1] \in Names(params))
        <3>1. next = [w EXCEPT !.at = "error"]
            BY <1>1, <1>9, <2>3 DEF Step
        <3> QED BY <1>4, <3>1
    <2>4. CASE IsKeyword(words[i]) /\ words[i][1] \in Names(params)
        <3>1. next = [w EXCEPT !.kwargs = Append(@, words[i])]
            BY <1>1, <1>9, <2>4 DEF Step
        <3>2. /\ WalkType(next) /\ next.at = "loop" /\ next.args = w.args
              /\ next.kwargs = Append(w.kwargs, words[i])
            <4>1. words[i] \in Words /\ w.kwargs \in Seq(Words)
                BY <1>1, <2>1 DEF WalkType
            <4>2. Append(w.kwargs, words[i]) \in Seq(Words)
                BY <4>1
            <4> HIDE DEF next
            <4> QED BY <1>1, <3>1, <4>2 DEF WalkType
        <3>3. w.kwargs \in Seq(Words) /\ Len(w.kwargs) = i - 1 - r /\ Len(w.args) = r
            BY <1>1, <1>3, <2>2 DEF Taken, WalkType
        <3> HIDE DEF next
        <3>4. Len(next.kwargs) = i - r
            BY <1>1, <1>3, <3>2, <3>3
        <3>5. ASSUME NEW j \in 1..Len(next.kwargs)
              PROVE  /\ next.kwargs[j] = words[r + j]
                     /\ IsKeyword(words[r + j]) /\ words[r + j][1] \in Names(params)
            <4>1. CASE j = i - r
                <5>1. r + j = i /\ next.kwargs[j] = words[i]
                    BY <1>1, <1>3, <3>2, <3>3, <4>1
                <5> QED BY <2>4, <5>1
            <4>2. CASE j # i - r
                <5>1. j \in 1..Len(w.kwargs) /\ next.kwargs[j] = w.kwargs[j]
                    BY <1>1, <1>3, <2>2, <3>2, <3>3, <3>4, <4>2
                <5> QED BY <1>3, <5>1 DEF Taken
            <4> QED BY <4>1, <4>2
        <3>6. \A j \in 1..Len(next.args) : next.args[j] = words[j]
            BY <1>3, <3>2 DEF Taken
        <3>7. Taken(next, params, words, r, i)
            BY <1>1, <1>9, <2>1, <2>2, <3>2, <3>3, <3>4, <3>5, <3>6 DEF Taken
        <3> QED BY <3>2, <3>7 DEF WalkInv
    <2> QED BY <2>3, <2>4
<1> QED BY <1>1, <1>6, <1>7, <1>8, <1>9

Walks(f, params, words, m) ==
    f = [i \in 0..m |-> IF i = 0 THEN Walk("loop", <<>>, <<>>)
                        ELSE Step(f[i - 1], params, words, i)]

LEMMA WalkExists ==
    ASSUME NEW params, NEW words, NEW m \in Nat
    PROVE  \E f : Walks(f, params, words, m)
<1> DEFINE start == Walk("loop", <<>>, <<>>)
           Solves(f, n) == f = [i \in 0..n |-> IF i = 0 THEN start
                                               ELSE Step(f[i - 1], params, words, i)]
           Unsolved == {n \in Nat : ~\E f : Solves(f, n)}
<1> HIDE DEF start
<1> SUFFICES ASSUME Unsolved # {} PROVE FALSE
    BY DEF start, Walks
<1>1. PICK n \in Unsolved : \A k \in Unsolved : n <= k
    <2>1. Unsolved \subseteq Nat
        OBVIOUS
    <2> HIDE DEF Unsolved
    <2> QED BY <2>1, LeastElement
<1>2. n # 0
    <2> SUFFICES \E f : Solves(f, 0)
        OBVIOUS
    <2>1. Solves([i \in 0..0 |-> start], 0)
        OBVIOUS
    <2> QED BY <2>1
<1>3. n - 1 \in Nat /\ n - 1 \notin Unsolved
    <2>1. n \in Nat
        BY <1>1
    <2>2. n - 1 \in Nat /\ ~(n <= n - 1)
        BY <1>2, <2>1
    <2> HIDE DEF Unsolved
    <2> QED BY <1>1, <2>2
<1>4. PICK f : Solves(f, n - 1)
    BY <1>3
<1> DEFINE g == [i \in 0..n |-> IF i < n THEN f[i] ELSE Step(f[n - 1], params, words, n)]
<1>5. ASSUME NEW i \in 0..n
      PROVE  g[i] = IF i = 0 THEN start ELSE Step(g[i - 1], params, words, i)
    <2>1. CASE i = n
        <3>1. n - 1 \in 0..n /\ n - 1 < n
            BY <1>3
        <3> QED BY <1>2, <2>1, <3>1
    <2>2. CASE i < n
        <3>1. i \in 0..(n - 1) /\ (i # 0 => i - 1 \in 0..n /\ i - 1 < n)
            BY <1>3, <2>2
        <3>2. f[i] = IF i = 0 THEN start ELSE Step(f[i - 1], params, words, i)
            BY <1>4, <3>1
        <3> QED BY <2>2, <3>1, <3>2
    <2> QED BY <2>1, <2>2
<1>6. Solves(g, n)
    <2>1. DOMAIN g = 0..n /\ g = [i \in 0..n |-> g[i]]
        OBVIOUS
    <2> HIDE DEF g
    <2> QED BY <1>5, <2>1
<1> HIDE DEF g
<1> QED BY <1>1, <1>6

\* At the end of the walk all words are taken, or those before an empty one.
LEMMA ParseStops ==
    ASSUME NEW params, NEW words \in Seq(Words), NEW r, Signature(params, r),
           ParseArguments(params, words).at # "error"
    PROVE  /\ WalkType(ParseArguments(params, words))
           /\ Stopped(ParseArguments(params, words), params, words, r)
<1> DEFINE n == IF Len(params) > Len(words) THEN Len(params) ELSE Len(words)
           walk == CHOOSE f : Walks(f, params, words, n)
           Bad == {i \in 0..n : ~WalkInv(walk[i], params, words, r, i)}
<1>1. /\ Len(params) \in Nat /\ Len(words) \in Nat /\ n \in Nat /\ r \in 0..Len(params)
      /\ n >= Len(params) /\ n >= Len(words)
    BY DEF Signature
<1>2. ParseArguments(params, words) = walk[n]
    BY DEF ParseArguments, Walks
<1> HIDE DEF n
<1>3. Walks(walk, params, words, n)
    <2>1. \E f : Walks(f, params, words, n)
        BY <1>1, WalkExists
    <2> QED BY <2>1
<1> HIDE DEF walk
<1>4. walk[0] = Walk("loop", <<>>, <<>>)
    BY <1>1, <1>3 DEF Walks
<1>5. WalkInv(walk[0], params, words, r, 0)
    <2>1. /\ walk[0] = [at |-> "loop", args |-> <<>>, kwargs |-> <<>>]
          /\ <<>> \in Seq(Words)
        BY <1>4 DEF Walk
    <2>2. WalkType(walk[0]) /\ walk[0].at = "loop"
          /\ walk[0].args = <<>> /\ walk[0].kwargs = <<>>
        BY <2>1 DEF WalkType
    <2>3. Taken(walk[0], params, words, r, 0)
        BY <1>1, <2>2 DEF Taken
    <2> QED BY <2>2, <2>3 DEF WalkInv
<1>6. Bad = {}
    <2> SUFFICES ASSUME Bad # {} PROVE FALSE
        OBVIOUS
    <2>1. PICK i \in Bad : \A k \in Bad : i <= k
        <3>1. Bad \subseteq Nat
            BY <1>1
        <3> HIDE DEF Bad
        <3> QED BY <3>1, LeastElement
    <2>2. i \in 0..n /\ i # 0
        BY <1>5, <2>1
    <2>3. i \in Nat \ {0} /\ i - 1 \in 0..n /\ ~(i <= i - 1)
        BY <1>1, <2>2
    <2>4. WalkInv(walk[i - 1], params, words, r, i - 1)
        <3>1. i - 1 \notin Bad
            <4> HIDE DEF Bad
            <4> QED BY <2>1, <2>3
        <3> QED BY <2>3, <3>1
    <2>5. walk[i] = Step(walk[i - 1], params, words, i)
        BY <1>3, <2>2 DEF Walks
    <2>6. WalkInv(walk[i], params, words, r, i)
        BY <2>3, <2>4, <2>5, StepWalks
    <2> QED BY <2>1, <2>6
<1>7. WalkInv(walk[n], params, words, r, n)
    BY <1>1, <1>6
<1>8. CASE walk[n].at = "loop"
    <2>1. Taken(walk[n], params, words, r, n)
        BY <1>7, <1>8 DEF WalkInv
    <2>2. n \in r..Len(params) /\ n = Len(words)
        BY <1>1, <2>1 DEF Taken
    <2> QED BY <1>2, <1>7, <2>1, <2>2 DEF Stopped, WalkInv
<1>9. CASE walk[n].at = "break"
    BY <1>2, <1>7, <1>9 DEF WalkInv
<1>10. walk[n].at \in {"loop", "break"}
    BY <1>2, <1>7 DEF WalkInv, WalkType
<1> QED BY <1>8, <1>9, <1>10

\* The required parameters of the commands that call the kernel are numbers and
\* addresses, and come first.
Converted == {"int", "address", "int or address"}

Shaped(params) ==
    \E r \in 0..Len(params) :
        Signature(params, r) /\ \A i \in 1..r : params[i].kind \in Converted

LEMMA ShapedFour ==
    ASSUME NEW params, Len(params) = 4, DOMAIN params = 1..4, NEW r \in {2, 3},
           params[1].required = TRUE, params[1].kind \in Converted,
           params[2].required = TRUE, params[2].kind \in Converted,
           r = 3 => params[3].required = TRUE /\ params[3].kind \in Converted,
           r = 2 => params[3].required = FALSE,
           params[4].required = FALSE
    PROVE  Shaped(params)
<1>1. ASSUME NEW i \in 1..4 PROVE params[i].required <=> i <= r
    <2>1. CASE i = 1 \/ i = 2
        BY <2>1
    <2>2. CASE i = 3
        <3>1. CASE r = 3
            BY <2>2, <3>1
        <3>2. CASE r = 2
            BY <2>2, <3>2
        <3> QED BY <3>1, <3>2
    <2>3. CASE i = 4
        BY <2>3
    <2> QED BY <2>1, <2>2, <2>3
<1>2. ASSUME NEW i \in 1..r PROVE params[i].kind \in Converted
    <2>1. i = 1 \/ i = 2 \/ (i = 3 /\ r = 3)
        OBVIOUS
    <2> QED BY <2>1
<1>3. r \in 0..Len(params) /\ Signature(params, r)
    BY <1>1 DEF Signature
<1> QED BY <1>2, <1>3 DEF Shaped

LEMMA RequiredFields ==
    \A name, kind : Required(name, kind).required = TRUE /\ Required(name, kind).kind = kind
    BY DEF Required

LEMMA OptionalFields ==
    \A name, kind, default : Optional(name, kind, default).required = FALSE
    BY DEF Optional

LEMMA TupleOfFour ==
    ASSUME NEW s, NEW a, NEW b, NEW c, NEW d, s = <<a, b, c, d>>
    PROVE  /\ Len(s) = 4 /\ DOMAIN s = 1..4
           /\ s[1] = a /\ s[2] = b /\ s[3] = c /\ s[4] = d
    OBVIOUS

LEMMA AddVifShaped ==
    ASSUME NEW x, NEW y
    PROVE  Shaped(<<Required("vif_index", "int"),
                    Required("interface_addr_or_indx", "int or address"),
                    Optional("remote_addr", "address", x),
                    Optional("ttl_threshold", "int", y)>>)
<1> SUFFICES ASSUME NEW s,
                    s = <<Required("vif_index", "int"),
                          Required("interface_addr_or_indx", "int or address"),
                          Optional("remote_addr", "address", x),
                          Optional("ttl_threshold", "int", y)>>
             PROVE  Shaped(s)
    OBVIOUS
<1>1. /\ Len(s) = 4 /\ DOMAIN s = 1..4
      /\ s[1] = Required("vif_index", "int")
      /\ s[2] = Required("interface_addr_or_indx", "int or address")
      /\ s[3] = Optional("remote_addr", "address", x)
      /\ s[4] = Optional("ttl_threshold", "int", y)
    BY TupleOfFour
<1>2. s[1].required = TRUE /\ s[1].kind = "int"
    BY <1>1, RequiredFields
<1>3. s[2].required = TRUE /\ s[2].kind = "int or address"
    BY <1>1, RequiredFields
<1>4. s[3].required = FALSE /\ s[4].required = FALSE
    BY <1>1, OptionalFields
<1>5. "int" \in Converted /\ "int or address" \in Converted
    BY DEF Converted
<1> QED BY <1>1, <1>2, <1>3, <1>4, <1>5, ShapedFour

LEMMA KernelCommands ==
    ASSUME NEW c \in Commands, c.effect = "kernel"
    PROVE  Shaped(c.params)
<1> DEFINE AddVif == <<Required("vif_index", "int"),
                       Required("interface_addr_or_indx", "int or address"),
                       Optional("remote_addr", "address", <<"0.0.0.0">>),
                       Optional("ttl_threshold", "int", <<"1">>)>>
           AddMfc == Append(Route, Optional("ttls", "ints", Empty))
<1>1. "int" \in Converted /\ "address" \in Converted /\ "int or address" \in Converted
    BY DEF Converted
<1>2. Shaped(<<>>)
    <2>1. Signature(<<>>, 0) /\ 0 \in 0..Len(<<>>)
        BY DEF Signature
    <2> QED BY <2>1 DEF Shaped
<1>3. Shaped(Membership)
    <2>1. /\ Len(Membership) = 2 /\ DOMAIN Membership = 1..2
          /\ Membership[1] = Required("multiaddr", "address")
          /\ Membership[2] = Required("interface", "address")
        BY DEF Membership
    <2>2. \A i \in 1..2 : Membership[i].required = TRUE /\ Membership[i].kind = "address"
        <3> TAKE i \in 1..2
        <3>1. i = 1 \/ i = 2
            OBVIOUS
        <3> QED BY <2>1, <3>1, RequiredFields
    <2>3. Signature(Membership, 2) /\ 2 \in 0..Len(Membership)
        BY <2>1, <2>2 DEF Signature
    <2> QED BY <1>1, <2>2, <2>3 DEF Shaped
<1>4. Shaped(AddVif)
    BY AddVifShaped
<1>5. Shaped(AddMfc)
    <2> DEFINE ttls == Optional("ttls", "ints", Empty)
    <2>1. /\ Len(Route) = 3 /\ Route \in Seq({Route[1], Route[2], Route[3], ttls})
          /\ Route[1] = Required("origin", "address")
          /\ Route[2] = Required("mcastgroup", "address")
          /\ Route[3] = Required("parent", "int")
        BY DEF Route
    <2> HIDE DEF ttls
    <2>2. /\ Len(AddMfc) = 4 /\ DOMAIN AddMfc = 1..4
          /\ AddMfc[1] = Route[1] /\ AddMfc[2] = Route[2] /\ AddMfc[3] = Route[3]
          /\ AddMfc[4] = ttls
        <3> DEFINE S == {Route[1], Route[2], Route[3], ttls}
        <3>1. Route \in Seq(S) /\ ttls \in S /\ Len(Route) = 3
            BY <2>1
        <3>2. AddMfc = Append(Route, ttls)
            BY DEF ttls
        <3> HIDE DEF S, AddMfc
        <3>3. \A s \in Seq(S) : Append(s, ttls) \in Seq(S) /\ Len(Append(s, ttls)) = Len(s) + 1
            BY <3>1
        <3>4. Append(Route, ttls) \in Seq(S) /\ Len(Append(Route, ttls)) = 3 + 1
            BY <3>1, <3>3, Zenon
        <3>5. AddMfc \in Seq(S) /\ Len(AddMfc) = 4
            <4>1. 3 + 1 = 4
                OBVIOUS
            <4> QED BY <3>2, <3>4, <4>1, Zenon
        <3> QED BY <3>1, <3>2, <3>5
    <2> HIDE DEF AddMfc
    <2>3. /\ AddMfc[1].required = TRUE /\ AddMfc[1].kind = "address"
          /\ AddMfc[2].required = TRUE /\ AddMfc[2].kind = "address"
          /\ AddMfc[3].required = TRUE /\ AddMfc[3].kind = "int"
          /\ AddMfc[4].required = FALSE
        BY <2>1, <2>2, RequiredFields, OptionalFields DEF ttls
    <2> QED BY <1>1, <2>2, <2>3, ShapedFour
<1>6. c.params \in {<<>>, Membership, AddVif, AddMfc}
    <2>1. \A name, params :
            /\ c # Command(name, params, "exit") /\ c # Command(name, params, "print")
            /\ c # Command(name, params, "msgs") /\ c # Command(name, params, "raise")
            /\ c = Command(name, params, "kernel") => c.params = params
        BY DEF Command
    <2> HIDE DEF AddMfc, AddVif
    <2>2. \E name \in {<<"flush">>, <<"add", "vif">>, <<"add", "mfc">>,
                       <<"add", "membership">>, <<"drop", "membership">>},
             params \in {<<>>, Membership, AddVif, AddMfc} :
             c = Command(name, params, "kernel")
        BY <2>1 DEF Commands, AddVif, AddMfc
    <2> QED BY <2>1, <2>2
<1> HIDE DEF AddVif, AddMfc
<1> QED BY <1>2, <1>3, <1>4, <1>5, <1>6

LEMMA EmptyWord ==
    /\ Len(Empty) = 1 /\ Empty[1] = ""
    /\ \A kind \in Converted : ~Converts(kind, Empty)
<1>1. Len(Empty) = 1 /\ Empty[1] = ""
    BY DEF Empty
<1>2. "" \notin Number /\ "" \notin Address
    BY TextAssumption
<1> QED BY <1>1, <1>2 DEF Converts, Converted

\* A call, and the command its line names (the body of CallsAsTyped).
CallAsTyped(call, c) ==
    LET words == Arguments(call.line)
        read == {j \in DOMAIN words : \A k \in 1..j : words[k] # Empty}
        given(i) == {words[j][2] : j \in {k \in read :
                        IsKeyword(words[k]) /\ words[k][1] = c.params[i].name}} IN
    /\ c.name = call.name
    /\ c.name = Name(call.line)
    /\ \A i \in DOMAIN c.params :
        IF c.params[i].required THEN i \in read /\ call.bound[i] = words[i]
        ELSE \/ call.bound[i][1] \in given(i)
             \/ given(i) = {} /\ call.bound[i] = c.params[i].default
    /\ \A j \in read : \E i \in DOMAIN c.params :
        \/ c.params[i].required /\ i = j
        \/ IsKeyword(words[j]) /\ words[j][1] = c.params[i].name

LEMMA LastIn ==
    ASSUME NEW n \in Nat, NEW G, G \subseteq 1..n, G # {}
    PROVE  (CHOOSE j \in G : \A k \in G : k <= j) \in G
<1> DEFINE Heights == {n - j : j \in G}
<1>1. Heights \subseteq Nat /\ Heights # {}
    <2>1. \A j \in G : j \in 1..n /\ n - j \in Nat
        OBVIOUS
    <2>2. PICK j \in G : TRUE
        OBVIOUS
    <2>3. n - j \in Heights
        OBVIOUS
    <2> QED BY <2>1, <2>3
<1>2. PICK h \in Heights : \A g \in Heights : h <= g
    <2> HIDE DEF Heights
    <2> QED BY <1>1, LeastElement
<1>3. PICK j \in G : h = n - j
    BY <1>2
<1>4. ASSUME NEW k \in G PROVE k <= j
    <2>1. n - j <= n - k
        BY <1>2, <1>3
    <2>2. j \in 1..n /\ k \in 1..n
        OBVIOUS
    <2> QED BY <2>1, <2>2
<1> QED BY <1>3, <1>4

LEMMA PositionsBound ==
    ASSUME NEW params, NEW words \in Seq(Words), NEW r, Signature(params, r), NEW w,
           NEW k \in r..Len(params), Taken(w, params, words, r, k), NEW i \in 1..r
    PROVE  i \in DOMAIN words /\ i \in DOMAIN params /\ Bound(params, w)[i] = words[i]
<1>1. /\ Len(params) \in Nat /\ Len(words) \in Nat /\ r \in 0..Len(params)
      /\ DOMAIN params = 1..Len(params) /\ DOMAIN words = 1..Len(words)
    BY DEF Signature
<1>2. Len(w.args) = r /\ k <= Len(words) /\ w.args[i] = words[i]
    BY <1>1 DEF Taken
<1>3. i \in DOMAIN params /\ i <= Len(w.args) /\ i \in DOMAIN words
    BY <1>1, <1>2
<1> QED BY <1>2, <1>3 DEF Bound

\* The values words r + 1 to k give for parameter i.
KeyValues(params, words, r, k, i) ==
    {words[j][2] : j \in {l \in (r + 1)..k : words[l][1] = params[i].name}}

LEMMA KeywordsBound ==
    ASSUME NEW params, NEW words \in Seq(Words), NEW r, Signature(params, r), NEW w,
           WalkType(w), NEW k \in r..Len(params), Taken(w, params, words, r, k),
           NEW i \in DOMAIN params, ~params[i].required
    PROVE  \/ Bound(params, w)[i][1] \in KeyValues(params, words, r, k, i)
           \/ /\ KeyValues(params, words, r, k, i) = {}
              /\ Bound(params, w)[i] = params[i].default
<1> DEFINE marks == {j \in DOMAIN w.kwargs : w.kwargs[j][1] = params[i].name}
           last == CHOOSE j \in marks : \A l \in marks : l <= j
<1>1. /\ Len(params) \in Nat /\ r \in 0..Len(params) /\ k \in Nat /\ r <= k
      /\ DOMAIN params = 1..Len(params)
    BY DEF Signature
<1>2. /\ Len(w.args) = r /\ DOMAIN w.kwargs = 1..(k - r)
      /\ \A j \in 1..(k - r) : w.kwargs[j] = words[r + j]
    <2>1. /\ Len(w.args) = r /\ Len(w.kwargs) = k - r
          /\ \A j \in 1..Len(w.kwargs) : w.kwargs[j] = words[r + j]
        BY <1>1 DEF Taken
    <2>2. DOMAIN w.kwargs = 1..Len(w.kwargs)
        BY DEF WalkType
    <2> QED BY <2>1, <2>2
<1>3. ~(i <= Len(w.args))
    BY <1>1, <1>2 DEF Signature
<1>4. Bound(params, w)[i] = IF marks = {} THEN params[i].default
                            ELSE <<w.kwargs[last][2]>>
    BY <1>3 DEF Bound
<1>5. CASE marks = {}
    <2>1. ASSUME NEW l \in (r + 1)..k PROVE words[l][1] # params[i].name
        <3>1. l - r \in 1..(k - r) /\ r + (l - r) = l
            BY <1>1
        <3> QED BY <1>2, <1>5, <3>1
    <2>2. KeyValues(params, words, r, k, i) = {}
        BY <2>1 DEF KeyValues
    <2> QED BY <1>4, <1>5, <2>2
<1>6. CASE marks # {}
    <2>1. marks \subseteq 1..(k - r) /\ k - r \in Nat
        BY <1>1, <1>2
    <2>2. last \in marks
        <3> HIDE DEF marks
        <3> QED BY <1>6, <2>1, LastIn
    <2> HIDE DEF last
    <2>3. last \in 1..(k - r) /\ w.kwargs[last] = words[r + last]
        BY <1>2, <2>2
    <2>4. r + last \in (r + 1)..k /\ words[r + last][1] = params[i].name
        BY <1>1, <2>2, <2>3
    <2>5. words[r + last][2] \in KeyValues(params, words, r, k, i)
        BY <2>4 DEF KeyValues
    <2>6. Bound(params, w)[i][1] = words[r + last][2]
        BY <1>4, <1>6, <2>3
    <2> QED BY <2>5, <2>6
<1> QED BY <1>5, <1>6

LEMMA KeywordNotEmpty ==
    ASSUME NEW word, IsKeyword(word)
    PROVE  word # Empty
<1>1. Len(word) = 2
    BY DEF IsKeyword
<1>2. Len(Empty) = 1
    BY EmptyWord
<1> QED BY <1>1, <1>2

LEMMA KeywordsTaken ==
    ASSUME NEW params, NEW words \in Seq(Words), NEW r, Signature(params, r), NEW w,
           NEW k \in r..Len(params), Taken(w, params, words, r, k), NEW i \in (r + 1)..k
    PROVE  IsKeyword(words[i]) /\ words[i] # Empty /\ words[i][1] \in Names(params)
<1>1. Len(params) \in Nat /\ r \in 0..Len(params)
    BY DEF Signature
<1>2. Len(w.kwargs) = k - r
    BY <1>1 DEF Taken
<1>3. i - r \in 1..Len(w.kwargs) /\ r + (i - r) = i
    BY <1>1, <1>2
<1>4. IsKeyword(words[i]) /\ words[i][1] \in Names(params)
    BY <1>3 DEF Taken
<1> QED BY <1>4, KeywordNotEmpty

LEMMA ReadUpTo ==
    ASSUME NEW words \in Seq(Words), NEW k \in Nat, k <= Len(words),
           k = Len(words) \/ (k + 1 \in DOMAIN words /\ words[k + 1] = Empty),
           \A j \in 1..k : words[j] # Empty,
           NEW read, read = {j \in DOMAIN words : \A l \in 1..j : words[l] # Empty}
    PROVE  read = 1..k
<1>1. Len(words) \in Nat /\ DOMAIN words = 1..Len(words)
    OBVIOUS
<1>2. ASSUME NEW j \in 1..k PROVE j \in read
    <2>1. j \in 1..Len(words)
        <3>1. \A n \in Nat : k <= n => j \in 1..n
            OBVIOUS
        <3> QED BY <1>1, <3>1
    <2>2. \A l \in 1..j : l \in 1..k
        OBVIOUS
    <2> QED BY <1>1, <2>1, <2>2
<1>3. ASSUME NEW j \in read PROVE j \in 1..k
    <2>1. j \in 1..Len(words) /\ \A l \in 1..j : words[l] # Empty
        BY <1>1
    <2>2. k = Len(words) \/ ~(k + 1 \in 1..j)
        BY <2>1
    <2>3. \A n \in Nat : j \in 1..n /\ (k = n \/ ~(k + 1 \in 1..j)) => j \in 1..k
        OBVIOUS
    <2> QED BY <1>1, <2>1, <2>2, <2>3
<1> QED BY <1>2, <1>3

LEMMA BoundAsTyped ==
    ASSUME NEW line \in Line, NEW c \in Commands, c.effect = "kernel", Calls(line, c),
           NEW w, w = ParseArguments(c.params, Arguments(line)), Binds(c.params, w),
           NEW call, call.line = line, call.name = c.name, call.bound = Bound(c.params, w),
           \A i \in DOMAIN c.params : Converts(c.params[i].kind, call.bound[i])
    PROVE  CallAsTyped(call, c)
<1> DEFINE params == c.params
           words == Arguments(call.line)
           read == {j \in DOMAIN words : \A k \in 1..j : words[k] # Empty}
           given(i) == {words[j][2] : j \in {k \in read :
                           IsKeyword(words[k]) /\ words[k][1] = params[i].name}}
<1>1. words \in Seq(Words)
    <2>1. line \in Seq(Words) /\ Len(line) \in Nat
        BY LineAssumption DEF Words
    <2>2. NameLength(line) \in {1, 2}
        BY DEF NameLength
    <2>3. \A i \in (NameLength(line) + 1)..Len(line) : i \in 1..Len(line)
        BY <2>1, <2>2
    <2> QED BY <2>1, <2>2, <2>3 DEF Arguments
<1> HIDE DEF words
<1>2. PICK r \in 0..Len(params) :
          Signature(params, r) /\ \A i \in 1..r : params[i].kind \in Converted
    BY KernelCommands DEF Shaped
<1> HIDE DEF params
<1>3. WalkType(w) /\ Stopped(w, params, words, r)
    BY <1>1, <1>2, ParseStops DEF Binds, params, words
<1>4. PICK k \in r..Len(params) :
          /\ Taken(w, params, words, r, k)
          /\ k = Len(words) \/ (k + 1 \in DOMAIN words /\ words[k + 1] = Empty)
    BY <1>3 DEF Stopped
<1>5. /\ Len(params) \in Nat /\ Len(words) \in Nat /\ r \in Nat /\ k \in Nat
      /\ r <= k /\ k <= Len(params) /\ k <= Len(words)
      /\ DOMAIN params = 1..Len(params) /\ DOMAIN words = 1..Len(words)
    BY <1>1, <1>2, <1>4 DEF Signature, Taken
<1>6. ASSUME NEW i \in 1..r
      PROVE  /\ call.bound[i] = words[i] /\ i \in DOMAIN words
             /\ ~IsKeyword(words[i]) /\ words[i] # Empty
    <2>1. i \in DOMAIN words /\ i \in DOMAIN params /\ call.bound[i] = words[i]
        BY <1>1, <1>2, <1>4, PositionsBound DEF params
    <2>2. Converts(params[i].kind, words[i]) /\ params[i].kind \in Converted
        BY <1>2, <2>1 DEF params
    <2>3. ~IsKeyword(words[i])
        BY <2>2 DEF Converts, Converted
    <2>4. words[i] # Empty
        BY <2>2, EmptyWord
    <2> QED BY <2>1, <2>3, <2>4
<1>7. ASSUME NEW i \in (r + 1)..k
      PROVE  IsKeyword(words[i]) /\ words[i] # Empty /\ words[i][1] \in Names(params)
    BY <1>1, <1>2, <1>4, KeywordsTaken
<1>8. read = 1..k
    <2>1. \A j \in 1..k : words[j] # Empty
        <3>1. \A j \in 1..k : j \in 1..r \/ j \in (r + 1)..k
            BY <1>5
        <3> QED BY <1>6, <1>7, <3>1
    <2> QED BY <1>1, <1>4, <1>5, <2>1, ReadUpTo
<1> HIDE DEF read
<1>9. ASSUME NEW i \in DOMAIN params, params[i].required
      PROVE  i \in read /\ call.bound[i] = words[i]
    <2>1. i \in 1..r
        BY <1>2, <1>5, <1>9 DEF Signature
    <2> QED BY <1>5, <1>6, <1>8, <2>1
<1>10. ASSUME NEW i \in DOMAIN params, ~params[i].required
       PROVE  \/ call.bound[i][1] \in given(i)
              \/ given(i) = {} /\ call.bound[i] = params[i].default
    <2>1. {l \in read : IsKeyword(words[l]) /\ words[l][1] = params[i].name}
            = {l \in (r + 1)..k : words[l][1] = params[i].name}
        <3>1. \A l \in 1..k : l \in 1..r \/ l \in (r + 1)..k
            BY <1>5
        <3>2. \A l \in (r + 1)..k : l \in 1..k
            BY <1>5
        <3> QED BY <1>6, <1>7, <1>8, <3>1, <3>2
    <2>2. given(i) = KeyValues(params, words, r, k, i)
        BY <2>1 DEF KeyValues
    <2>3. call.bound[i] = Bound(params, w)[i]
        BY DEF params
    <2> HIDE DEF given
    <2>4. r \in 0..Len(params) /\ Signature(params, r) /\ Taken(w, params, words, r, k)
        BY <1>2, <1>4
    <2>5. \/ Bound(params, w)[i][1] \in KeyValues(params, words, r, k, i)
          \/ /\ KeyValues(params, words, r, k, i) = {}
             /\ Bound(params, w)[i] = params[i].default
        BY <1>1, <1>3, <1>10, <2>4, KeywordsBound
    <2> QED BY <2>2, <2>3, <2>5
<1>11. ASSUME NEW j \in read
       PROVE  \E i \in DOMAIN params : \/ params[i].required /\ i = j
                                       \/ IsKeyword(words[j]) /\ words[j][1] = params[i].name
    <2>1. j \in 1..r \/ j \in (r + 1)..k
        BY <1>5, <1>8
    <2>2. CASE j \in 1..r
        <3>1. j \in DOMAIN params /\ params[j].required
            BY <1>2, <1>5, <2>2 DEF Signature
        <3> QED BY <3>1
    <2>3. CASE j \in (r + 1)..k
        BY <1>7, <2>3 DEF Names
    <2> QED BY <2>1, <2>2, <2>3
<1>12. c.name = call.name /\ c.name = Name(call.line)
    BY DEF Calls
<1> QED BY <1>9, <1>10, <1>11, <1>12 DEF CallAsTyped, params, words, read

LEMMA NextCalls == CallsAsTyped /\ [Next]_vars => CallsAsTyped'
<1> SUFFICES ASSUME CallsAsTyped, [Next]_vars PROVE CallsAsTyped'
    OBVIOUS
<1>1. CASE request' = request
    <2>1. CallsAsTyped <=> (request # NoRequest =>
                               \E c \in Commands : CallAsTyped(request, c))
        BY DEF CallsAsTyped, CallAsTyped
    <2>2. CallsAsTyped' <=> (request' # NoRequest =>
                                \E c \in Commands : CallAsTyped(request', c))
        BY DEF CallsAsTyped, CallAsTyped
    <2> QED BY <1>1, <2>1, <2>2, Zenon
<1>2. CASE request' = NoRequest
    BY <1>2 DEF CallsAsTyped
<1>3. ASSUME NEW line \in Line, NEW c \in Commands, Run(line, c), request' # NoRequest
      PROVE  CallsAsTyped'
    <2> DEFINE w == ParseArguments(c.params, Arguments(line))
               bound == Bound(c.params, w)
    <2>1. /\ c.effect = "kernel" /\ Calls(line, c) /\ Binds(c.params, w)
          /\ request' = [line |-> line, name |-> c.name, bound |-> bound]
          /\ \A i \in DOMAIN c.params : Converts(c.params[i].kind, bound[i])
        BY <1>3 DEF Run
    <2> HIDE DEF w
    <2>2. request'.line = line /\ request'.name = c.name /\ request'.bound = bound
        BY <2>1
    <2> HIDE DEF bound
    <2>3. CallAsTyped(request', c)
        BY <2>1, <2>2, BoundAsTyped DEF w, bound
    <2> QED BY <2>3 DEF CallsAsTyped, CallAsTyped
<1>4. \/ request' \in {request, NoRequest}
      \/ \E line \in Line, c \in Commands : Run(line, c)
    <2>1. CASE UNCHANGED vars
        BY <2>1 DEF vars
    <2>2. CASE Next
        BY <2>2 DEF Next, Usage, Msgs, PrintMessage, EndOfMsgs, Exit, Recv, Reader, Filter,
                    Put, Die
    <2> QED BY <2>1, <2>2
<1> QED BY <1>1, <1>2, <1>3, <1>4

\* What _parse_raw_arguments and signature.bind make of a line: each parameter of
\* the call of kernel.py has the word at its position, a value the line gives for
\* its name or its default, and no word before an empty one is passed over;
\* whatever the lines, of any number of words.
THEOREM CallsAsTypedAlways == Spec => []CallsAsTyped
<1>1. Init => CallsAsTyped
    BY DEF Init, CallsAsTyped
<1> QED BY <1>1, NextCalls, PTL DEF Spec
===============================================================================
