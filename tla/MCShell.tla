-------------------------------- MODULE MCShell --------------------------------
(* Shell, with the parsers of Igmp, for TLC. *)
EXTENDS Shell, TLC

\* Record headers: no source, one source, auxiliary data, an unknown type.
H(type, auxwords, nsrcs) == [type |-> type, auxwords |-> auxwords, nsrcs |-> nsrcs]
Headers == <<H(1, 0, 0), H(4, 0, 1), H(6, 1, 0), H(9, 0, 0)>>

\* A packet is named by its length, header length, protocol, type, code or
\* announced number, and the record headers its body starts with.
Packets(len, ihl, protocol, type, code, count, body) ==
    {<<l, i, p, t, c, n, b>> : l \in len, i \in ihl, p \in protocol, t \in type, c \in code,
                              n \in count, b \in body}

\* Reports of up to four words at their full length, and two of five with a
\* source between or after the records; some with IP options, bytes left over or
\* an unknown record type.
ThePackets ==
    UNION {Packets({28 + 4 * k}, {5}, {2}, {34}, {0}, 1..2, [1..k -> 1..3]) : k \in 2..3}
    \cup Packets({44}, {5}, {2}, {34}, {0}, 1..2, [1..4 -> 1..2])
    \cup Packets({48}, {5}, {2}, {34}, {0}, {2}, {<<2, 1, 1, 1, 1>>, <<1, 1, 2, 1, 1>>})
    \cup Packets({27, 28, 37}, {5}, {2}, {34}, {0}, 0..1, {<<1>>, <<4>>})
    \cup Packets({40}, {6}, {2}, {34}, {0}, 0..1, {<<1>>, <<4>>})
    \cup Packets({28, 30, 32, 36}, {5}, {2}, {17}, {9, 200}, 0..1, {<<>>})
    \cup Packets({28}, {5}, {0, 2}, {22, 99}, {1, 9}, {0}, {<<>>})
    \cup Packets({28}, {5}, {17, 103}, {22}, {1}, {0}, {<<>>})

ContentOf(packets) == <<>> @@
    [packet \in packets |->
        [len |-> packet[1], version |-> 4, ihl |-> packet[2], protocol |-> packet[3],
         type |-> packet[4], code |-> packet[5], msgtype |-> packet[5], count |-> packet[6],
         word |-> <<>> @@ [q \in 0..packet[1] |->
                      LET k == (q - 8) \div 4 + 1
                      IN  IF q % 4 = 0 /\ k \in DOMAIN packet[7] THEN Headers[packet[7][k]]
                          ELSE H(0, 0, 0)]]]
TheContent == ContentOf(ThePackets)

MCNumber == {"1", "7"}
MCAddress == {"0.0.0.0", "10.0.0.1", "239.0.0.1"}
W(text) == <<text>>
Keywords == {<<>>, <<<<"ttl_threshold", "7">>>>, <<<<"remote_addr", "10.0.0.1">>>>,
             <<<<"ttl_threshold", "7">>, <<"remote_addr", "10.0.0.1">>>>,
             <<<<"ttl_threshold", "1">>, <<"ttl_threshold", "7">>>>,
             <<<<"ttl_threshold", "1">>, <<"ttl_threshold", "7">>, Empty,
               <<"remote_addr", "10.0.0.1">>>>}
Wrong == {<<<<"vif_index", "7">>>>, <<<<"ttl_threshold", "x">>>>, <<Empty, W("7")>>, <<W("7")>>}
TheLines ==
    {<<W("add"), W("vif"), W("1")>> \o args : args \in {<<>>, <<W("x")>>}}
    \cup {<<W("add"), W("vif"), W("1"), W("7")>> \o args : args \in Keywords \cup Wrong}
    \cup {<<W("add"), W("vif"), W("1"), W("10.0.0.1")>> \o args :
            args \in {<<>>, <<<<"ttl_threshold", "7">>>>}}
    \cup {<<W("add"), W("mfc"), W("10.0.0.1"), W("239.0.0.1"), W("1")>> \o more :
            more \in {<<>>, <<<<"ttls", "1">>>>, <<<<"ttls", "">>>>, <<<<"ttl", "1">>>>}}
    \cup {<<Empty>>, <<W("bye")>>, <<W("add")>>, <<W("list"), W("mfc")>>, <<W("msgs")>>,
          <<W("flush")>>, <<W("flush"), Empty, W("1")>>, <<W("flush"), W("1")>>,
          <<W("del"), W("vif"), W("1")>>, <<W("help"), W("add"), W("vif")>>,
          <<W("help"), W("add"), <<"subcommand", "vif">>>>,
          <<W("drop"), W("membership"), W("239.0.0.1"), W("10.0.0.1")>>}

\* TLC evaluates a definition once, but not one put in a constant's place.
MCPacket == ThePackets
MCContent == TheContent
MCLine == TheLines

\* A report without records, and nothing else.
EmptyReport == Packets({28}, {5}, {2}, {34}, {0}, {0}, {<<>>})
EmptyContent == ContentOf(EmptyReport)
===============================================================================
