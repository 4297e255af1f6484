--------------------------------- MODULE Igmp ---------------------------------
(***************************************************************************)
(* The packet parsers of _kernel.c and the data classes of data.py, on the *)
(* way a packet takes through _filter_ip, in the daemon's listener and in  *)
(* the shell's reader thread alike.  A module that uses it says what       *)
(* happens to the outcome: an object, nothing, or an exception.            *)
(*                                                                         *)
(* A packet is what the parsers look at: lengths, type fields, counts, and *)
(* the record header that the bytes at each offset of the IGMP message     *)
(* amount to.  Addresses and checksums are copied and left out.            *)
(***************************************************************************)
EXTENDS Integers, Sequences

CONSTANTS
    Packet,     \* the packets recvfrom() may return
    Content,    \* what the parsers look at in each of them
    NoPacket,   \* no packet is being parsed
    SizeT       \* number of values of a size_t

ASSUME IgmpAssumption ==
    /\ SizeT \in Nat \ {0}
    /\ NoPacket \notin Packet
    /\ \A packet \in Packet :
        LET p == Content[packet] IN
        /\ p.len \in 0..(SizeT - 1)     \* bytes in the buffer
        /\ p.ihl \in Nat /\ p.type \in Nat /\ p.code \in 0..255 /\ p.count \in Nat
        /\ p.word \in [0..p.len -> [type : Nat, auxwords : Nat, nsrcs : Nat]]

VARIABLE rx     \* the thread that reads the routing socket

\* struct iphdr, igmphdr and igmpv3_report, igmpv3_query, igmpv3_grec, in bytes.
IpHeaderSize == 20
IgmpSize == 8
QuerySize == 12
GrecSize == 8
AddressSize == 4

V3Report == 34      \* 0x22
Query == 17         \* 0x11
OlderTypes == {17, 18, 22, 23}
RecordTypes == 1..6

Ready == [at |-> "recv", packet |-> NoPacket, pos |-> 0, left |-> 0, found |-> <<>>,
          time |-> 0]

\* A difference of two size_t.
Difference(a, b) == IF a >= b THEN a - b ELSE a - b + SizeT

\* buffer[ihl * 4:]
MessageSize(p) == IF 4 * p.ihl < p.len THEN p.len - 4 * p.ihl ELSE 0

Ends(outcome) == rx' = [rx EXCEPT !.at = outcome]

Receive(packet) ==
    /\ rx.at = "recv"
    /\ rx' = [Ready EXCEPT !.at = "header", !.packet = packet]

\* parse_ip_header, the enumerations of IPHeader, and _filter_ip.  The control
\* message has the size of the header just checked; its type is an enumeration.
HeaderParses(p) ==
    p.len >= IpHeaderSize /\ p.version \in {4, 6} /\ p.protocol \in {0, 2, 103}

ParseHeader ==
    LET p == Content[rx.packet] IN
    /\ rx.at = "header"
    /\ \/ ~HeaderParses(p) /\ Ends("raise")
       \/ HeaderParses(p) /\ p.protocol = 2 /\ Ends("igmp")
       \/ HeaderParses(p) /\ p.protocol = 0 /\ p.msgtype \in 1..4 /\ Ends("object")
       \/ HeaderParses(p) /\ p.protocol = 0 /\ p.msgtype \notin 1..4 /\ Ends("raise")
       \/ HeaderParses(p) /\ p.protocol = 103 /\ Ends("nothing")

\* A report of no records has grec_list None, which IGMPv3MembershipReport
\* cannot iterate over.
ParseReport ==
    LET p == Content[rx.packet] IN
    /\ rx.at = "igmp"
    /\ MessageSize(p) >= IgmpSize /\ p.type = V3Report
    /\ \/ /\ p.count = 0 \/ MessageSize(p) < IgmpSize + GrecSize * p.count
          /\ Ends("raise")
       \/ /\ p.count > 0 /\ MessageSize(p) >= IgmpSize + GrecSize * p.count
          /\ rx' = [rx EXCEPT !.at = "records", !.pos = IgmpSize,
                              !.left = Difference(MessageSize(p), IgmpSize)]

\* Above 127 the code is a mantissa, of its five low bits, and an exponent.
Exponent(code) == code \div 32
Mantissa(code) == code % 32
Or16(m) == IF (m \div 16) % 2 = 1 THEN m ELSE m + 16
MaxRespTime(code) ==
    IF code < 128 THEN code ELSE Or16(Mantissa(code)) * 2 ^ (Exponent(code) - 3)

ParseQuery ==
    LET p == Content[rx.packet] IN
    /\ rx.at = "igmp"
    /\ MessageSize(p) > IgmpSize /\ p.type = Query
    /\ \/ /\ \/ MessageSize(p) < QuerySize
             \/ Difference(MessageSize(p), QuerySize) < AddressSize * p.count
          /\ Ends("raise")
       \/ /\ MessageSize(p) >= QuerySize
          /\ Difference(MessageSize(p), QuerySize) >= AddressSize * p.count
          /\ rx' = [rx EXCEPT !.at = "object", !.time = MaxRespTime(p.code)]

\* Versions 1 and 2; IGMPType refuses any other type.
ParseOlder ==
    LET p == Content[rx.packet]
        short == MessageSize(p) < IgmpSize IN
    /\ rx.at = "igmp"
    /\ short \/ (p.type # V3Report /\ (MessageSize(p) = IgmpSize \/ p.type # Query))
    /\ \/ (short \/ p.type \notin OlderTypes) /\ Ends("raise")
       \/ /\ ~short /\ p.type \in OlderTypes
          /\ rx' = [rx EXCEPT !.at = "object", !.time = p.code]

(***************************************************************************)
(* The group records of a report: to the end of the message, whatever      *)
(* their announced number, and without their auxiliary words.              *)
(***************************************************************************)
\* Mutated form of NextGrec: the size of the sources only.
NextGrec_SourcesOnly(h) == AddressSize * h.nsrcs

NextGrec(h) == GrecSize + AddressSize * h.nsrcs

\* Mutated form of TooShort: the source list is not checked.
TooShort_Unchecked(left, h) == left < GrecSize

TooShort(left, h) ==
    left < GrecSize \/ Difference(left, GrecSize) < AddressSize * h.nsrcs

ParseRecord ==
    LET h == Content[rx.packet].word[rx.pos] IN
    /\ rx.at = "records" /\ rx.left > 0
    /\ \/ TooShort(rx.left, h) /\ Ends("raise")
       \/ /\ ~TooShort(rx.left, h)
          /\ rx' = [rx EXCEPT !.found = Append(@, rx.pos),
                              !.pos = @ + NextGrec(h),
                              !.left = Difference(@, NextGrec(h))]

EndOfRecords ==
    /\ rx.at = "records" /\ rx.left = 0
    /\ IF \A i \in DOMAIN rx.found : Content[rx.packet].word[rx.found[i]].type \in RecordTypes
       THEN Ends("object") ELSE Ends("raise")

Parse ==
    ParseHeader \/ ParseReport \/ ParseQuery \/ ParseOlder \/ ParseRecord \/ EndOfRecords

(***************************************************************************)
(* Properties                                                              *)
(***************************************************************************)
RxPlaces == {"recv", "header", "igmp", "records", "object", "nothing", "raise", "dead"}
RxType ==
    rx \in [at : RxPlaces, packet : Packet \cup {NoPacket}, pos : Nat, left : 0..(SizeT - 1),
           found : Seq(Nat), time : Nat]

\* The record loop keeps to the message: the unsigned count of what is left
\* never wraps, and every record and source list read ends within the message.
\* So does the source list of a query.
InBounds ==
    LET p == Content[rx.packet] IN
    /\ rx.at = "records" =>
        /\ rx.pos + rx.left = MessageSize(p)
        /\ \A i \in DOMAIN rx.found :
            rx.found[i] + NextGrec(p.word[rx.found[i]]) <= MessageSize(p)
    /\ rx.at = "object" /\ p.protocol = 2 /\ p.type = Query /\ MessageSize(p) > IgmpSize =>
        QuerySize + AddressSize * p.count <= MessageSize(p)

\* Where the records of a report begin for its sender, who writes p.count of
\* them one after another, each with its sources and its auxiliary words.
Word(p, q) ==
    IF q \in DOMAIN p.word THEN p.word[q] ELSE [type |-> 0, auxwords |-> 0, nsrcs |-> 0]

Sent(p) ==
    LET start[i \in 1..(p.count + 1)] ==
            IF i = 1 THEN IgmpSize
            ELSE LET h == Word(p, start[i - 1])
                 IN  start[i - 1] + GrecSize + AddressSize * (h.nsrcs + h.auxwords)
    IN  start

WellFormed(p) ==
    /\ HeaderParses(p) /\ p.protocol = 2 /\ p.type = V3Report
    /\ p.count > 0 /\ Sent(p)[p.count + 1] = MessageSize(p)
    /\ \A i \in 1..p.count : LET h == Word(p, Sent(p)[i])
                             IN  h.type \in RecordTypes /\ h.auxwords = 0

\* A well-formed report without auxiliary data ("should always be 0",
\* _kernel.c:422) is parsed, and its records are read where its sender put them.
ReportAsSent ==
    LET p == Content[rx.packet] IN
    rx.packet # NoPacket /\ WellFormed(p) =>
        /\ rx.at \notin {"raise", "dead"}
        /\ rx.at = "object" => rx.found = SubSeq(Sent(p), 1, p.count)

\* "IGMPv3 Max Resp Time = (mant | 0x10) << (exp + 3)", _kernel.c:324, with the
\* exponent and mantissa the code itself extracts.
RespTimeAsCommented ==
    LET p == Content[rx.packet] IN
    rx.at = "object" /\ p.protocol = 2 /\ p.type = Query /\ MessageSize(p) > IgmpSize
            /\ p.code >= 128 =>
        rx.time = Or16(Mantissa(p.code)) * 2 ^ (Exponent(p.code) + 3)
===============================================================================
