----------------------------- MODULE MCLifecycle -----------------------------
(* Lifecycle for TLC. *)
EXTENDS Lifecycle
CONSTANTS d1, d2, lo, p1, p2, sh, s1, g1, prefix

To(name, ttl) == [name |-> name, ttl |-> ttl]
RouteOf(from, source, group, to) == [from |-> from, source |-> source, group |-> group, to |-> to]
FileOf(names, routes) == [names |-> names, routes |-> routes]

\* Two devices, the first with two addresses, and one without multicast.
MCHost == <<[name |-> d1, address |-> TRUE, multicast |-> TRUE],
            [name |-> lo, address |-> TRUE, multicast |-> FALSE],
            [name |-> d2, address |-> TRUE, multicast |-> TRUE],
            [name |-> d1, address |-> FALSE, multicast |-> TRUE]>>

Static(from, to) == RouteOf(from, s1, g1, to)
Waiting(from, to) == RouteOf(from, AnyAddr, g1, to)

TheFiles == {
    \* starts, with a route of each kind
    FileOf(<<d2, d1>>, <<Static(d2, <<To(d1, 2)>>), Waiting(d1, <<To(d2, NotDigits)>>)>>),
    \* starts; a later pair and a later route replace earlier ones; 256 is 0
    FileOf(<<d1, d2>>, <<Static(d1, <<To(d2, 256)>>),
                         Static(d2, <<To(d1, 9), To(d2, NotDigits), To(d1, 3)>>)>>),
    \* starts, with a name twice
    FileOf(<<d1, d1>>, <<>>),
    \* more names than the table takes
    FileOf(<<d1, d2, d1>>, <<>>),
    \* a route from, or to, an interface that is not configured
    FileOf(<<d2>>, <<Static(d1, <<To(d2, 1)>>)>>),
    FileOf(<<d2>>, <<Static(d2, <<To(d1, 1)>>)>>),
    \* two different routes without a source on an interface
    FileOf(<<d1>>, <<Waiting(d1, <<To(d1, 1)>>), Waiting(d1, <<To(d1, 2)>>)>>),
    \* starts: two sections that yield equal routes without a source
    FileOf(<<d1>>, <<Waiting(d1, <<To(d1, 1)>>), Waiting(d1, <<To(d1, NotDigits)>>)>>),
    \* no multicast; no [phyints]; an empty name in a pair; a group with a prefix
    FileOf(<<lo>>, <<>>),
    FileOf(<<"">>, <<>>),
    FileOf(<<d1>>, <<Static(d1, <<To("", 1)>>)>>),
    FileOf(<<d1>>, <<RouteOf(d1, AnyAddr, prefix, <<To(d1, 1)>>)>>) }

MCFile == TheFiles
===============================================================================
