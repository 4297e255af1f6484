------------------------------ MODULE MfcManager ------------------------------
(***************************************************************************)
(* daemons/simple.py: class MfcManager, the POST and DELETE endpoints on   *)
(* /mfc, and the listener thread that answers the kernel's upcalls.        *)
(*                                                                         *)
(* The VIFs are those of VifRegistry, which VifManager implements while    *)
(* interfaces are only appended.  A route with a source is installed in    *)
(* the kernel's forwarding cache (MFC) at once; a route without one is     *)
(* kept in a dictionary of lists, by VIF, for the listener to match.       *)
(* Worker threads and the listener share both without a lock; every        *)
(* access to the dictionary and to the name list is a step of its own.     *)
(*                                                                         *)
(* A route's TTL thresholds are taken to lie in 1..254, so that `to' is    *)
(* the set of interfaces it forwards to.                                   *)
(***************************************************************************)
EXTENDS Naturals, Sequences, FiniteSets

CONSTANTS
    Dev,        \* network interfaces
    MaxVifs,    \* size of the kernel's VIF table
    Thread,     \* worker threads that serve /mfc
    Route,      \* the routes requested: from, source, group and to
    AnyAddr,        \* the source 0.0.0.0 of a route without a source
    Sender,     \* source addresses of packets
    Group,      \* multicast groups
    Packet,     \* the packets that arrive, as the kernel would report them
    MaxQueue    \* messages the socket's receive buffer holds

ASSUME MfcManagerAssumption ==
    /\ MaxVifs \in Nat
    /\ MaxQueue \in Nat
    /\ Route \subseteq [from : Dev, source : Sender \cup {AnyAddr}, group : Group,
                        to : SUBSET Dev]
    /\ Route # {}           \* an idle thread carries some route
    /\ Packet \subseteq [kind : {"nocache"}, vif : 0..(MaxVifs - 1),
                         source : Sender \cup {AnyAddr}, group : Group]

VARIABLES
    log, known, \* the VIF registry
    dynamic,    \* _dynamic_mroutes: VIF index -> list of routes
    mfc,        \* the kernel's MFC: <<source, group>> -> entry
    job,        \* per worker thread: the request it serves
    queue,      \* messages in the routing socket
    stale       \* history: threads about to update a VIF's list which
                \* another thread has changed since they looked at it

vars == <<log, known, dynamic, mfc, job, queue, stale>>

Registry == INSTANCE VifRegistry

Vif == 0..(MaxVifs - 1)
NoVif == MaxVifs

Key(r) == <<r.source, r.group>>
Dynamic(r) == r.source = AnyAddr

Ops == {"none", "add", "remove"}
Places == {"free", "parent", "get", "replace", "put", "take", "test", "drop",
           "size", "oifs", "syscall"}

Starting(op, r) == [op |-> op, at |-> "parent", route |-> r, vif |-> NoVif,
                    size |-> 0, todo |-> {}, oifs |-> {}]
Idle == [op |-> "none", at |-> "free", route |-> CHOOSE r \in Route : TRUE,
         vif |-> NoVif, size |-> 0, todo |-> {}, oifs |-> {}]

\* What the kernel may put on the socket: an upcall for a packet without an
\* MFC entry, a message that parses and that the listener has no use for (another
\* control message, an IGMP packet), or one on which the parser raises.
Message == Packet \cup [kind : {"other", "malformed"}]

\* An MFC entry; `route' is a history field, the route it was made for.
Entry == [parent : Vif, oifs : SUBSET Vif, route : Route]

TypeOK ==
    /\ log \in Seq(Dev) /\ Len(log) <= MaxVifs
    /\ known \in 0..Len(log)
    /\ \E D \in SUBSET Vif : dynamic \in [D -> Seq(Route)]
    /\ \E K \in SUBSET (Sender \X Group) : mfc \in [K -> Entry]
    /\ job \in [Thread -> [op : Ops, at : Places, route : Route, vif : Vif \cup {NoVif},
                           size : 0..MaxVifs, todo : SUBSET Dev, oifs : SUBSET Vif]]
    /\ queue \in Seq(Message) /\ Len(queue) <= MaxQueue
    /\ stale \subseteq Thread

\* The daemon starts with the configured interfaces and no [mroute_*] section.
Init ==
    /\ Registry!Init
    /\ dynamic = <<>>
    /\ mfc = <<>>
    /\ job = [t \in Thread |-> Idle]
    /\ queue = <<>>
    /\ stale = {}

\* VifManager at work.
Interfaces ==
    /\ Registry!Next
    /\ UNCHANGED <<dynamic, mfc, job, queue, stale>>

(***************************************************************************)
(* Requests.                                                               *)
(***************************************************************************)
\* _vif_name_list, and the position of a name in it.
NameList == SubSeq(log, 1, known)
Listed(d) == \E p \in DOMAIN NameList : NameList[p] = d

\* Mutated form of Vifi: counted from one.
Vifi_FromOne(d) == CHOOSE p \in DOMAIN NameList : NameList[p] = d

Vifi(d) == (CHOOSE p \in DOMAIN NameList : NameList[p] = d) - 1

\* dict.get(v) is true of a list that is there and not empty.
Truthy(v) == v \in DOMAIN dynamic /\ dynamic[v] # <<>>
Lists(v, r) == v \in DOMAIN dynamic /\ \E p \in DOMAIN dynamic[v] : dynamic[v][p] = r

At(t, op, place) == job[t].op = op /\ job[t].at = place
Goto(t, place) == job' = [job EXCEPT ![t].at = place]
\* The request ends, with an answer or with an exception.
Finish(t) == job' = [job EXCEPT ![t] = Idle]

Begin(t, op, r) ==
    /\ job[t].at = "free"
    /\ job' = [job EXCEPT ![t] = Starting(op, r)]
    /\ UNCHANGED <<log, known, dynamic, mfc, queue, stale>>

\* vifi(mroute.from_), then the branch on the source.
Parent(t) ==
    LET r == job[t].route IN
    /\ job[t].at = "parent"
    /\ Listed(r.from)
    /\ job' = [job EXCEPT
                 ![t].vif = Vifi(r.from),
                 ![t].at = IF Dynamic(r) THEN "get"
                           ELSE IF job[t].op = "add" THEN "size" ELSE "syscall"]
    /\ UNCHANGED <<log, known, dynamic, mfc, queue, stale>>

NoParent(t) ==
    /\ job[t].at = "parent"
    /\ ~Listed(job[t].route.from)
    /\ Finish(t)
    /\ UNCHANGED <<log, known, dynamic, mfc, queue, stale>>

(***************************************************************************)
(* Routes without a source: the dictionary.                                *)
(***************************************************************************)
\* t changes the list of its VIF.
Overtakes(t) ==
    stale' = {u \in Thread \ {t} :
                \/ u \in stale
                \/ job[u].at \in {"put", "drop"} /\ job[u].vif = job[t].vif}

Get(t) ==
    /\ job[t].at = "get"
    /\ IF Truthy(job[t].vif)
       THEN Goto(t, IF job[t].op = "add" THEN "replace" ELSE "take")
       ELSE IF job[t].op = "add" THEN Goto(t, "put")
                                 ELSE Finish(t)  \* "does not exist"
    /\ UNCHANGED <<log, known, dynamic, mfc, queue, stale>>

Put(t) ==
    LET v == job[t].vif IN
    /\ At(t, "add", "put")
    /\ dynamic' = [w \in DOMAIN dynamic \cup {v} |->
                      IF w = v THEN <<job[t].route>> ELSE dynamic[w]]
    /\ Finish(t)
    /\ Overtakes(t)
    /\ UNCHANGED <<log, known, mfc, queue>>

\* Mutated form of Replace: the new route takes the place of the list.
Replace_Overwrites(t) ==
    /\ At(t, "add", "replace")
    /\ dynamic' = [w \in DOMAIN dynamic \cup {job[t].vif} |->
                      IF w = job[t].vif THEN <<job[t].route>> ELSE dynamic[w]]
    /\ Finish(t)
    /\ Overtakes(t)
    /\ UNCHANGED <<log, known, mfc, queue>>

\* An equal route is replaced by its equal; a second route on the VIF makes
\* list.index raise.
Replace(t) ==
    /\ At(t, "add", "replace")
    /\ Finish(t)
    /\ UNCHANGED <<log, known, dynamic, mfc, queue, stale>>

\* list.remove, then the test whether the list is empty now.
RemoveFirst(s, r) ==
    LET p == CHOOSE q \in DOMAIN s : s[q] = r /\ \A o \in 1..(q - 1) : s[o] # r
    IN  SubSeq(s, 1, p - 1) \o SubSeq(s, p + 1, Len(s))

TakeOut(t) ==
    LET v == job[t].vif IN
    /\ At(t, "remove", "take")
    /\ Lists(v, job[t].route)
    /\ dynamic' = [dynamic EXCEPT ![v] = RemoveFirst(@, job[t].route)]
    /\ Goto(t, "test")
    /\ Overtakes(t)
    /\ UNCHANGED <<log, known, mfc, queue>>

NothingToTake(t) ==
    /\ At(t, "remove", "take")
    /\ ~Lists(job[t].vif, job[t].route)
    /\ Finish(t)
    /\ UNCHANGED <<log, known, dynamic, mfc, queue, stale>>

\* Mutated form of TestEmpty: the list emptied is kept.
TestEmpty_Kept(t) ==
    /\ At(t, "remove", "test")
    /\ Finish(t)
    /\ UNCHANGED <<log, known, dynamic, mfc, queue, stale>>

TestEmpty(t) ==
    LET v == job[t].vif IN
    /\ At(t, "remove", "test")
    /\ IF v \in DOMAIN dynamic /\ dynamic[v] = <<>> THEN Goto(t, "drop") ELSE Finish(t)
    /\ UNCHANGED <<log, known, dynamic, mfc, queue, stale>>

\* del self._dynamic_mroutes[parent]: whatever the list holds by now.
Drop(t) ==
    /\ At(t, "remove", "drop")
    /\ dynamic' = [w \in DOMAIN dynamic \ {job[t].vif} |-> dynamic[w]]
    /\ Finish(t)
    /\ Overtakes(t)
    /\ UNCHANGED <<log, known, mfc, queue>>

(***************************************************************************)
(* Routes with a source: the kernel.                                       *)
(***************************************************************************)
\* make_ttls_list: a list as long as the name list is now ...
Size(t) ==
    /\ At(t, "add", "size")
    /\ job' = [job EXCEPT ![t].size = known, ![t].todo = job[t].route.to, ![t].at = "oifs"]
    /\ UNCHANGED <<log, known, dynamic, mfc, queue, stale>>

\* Mutated form of Oif: the thresholds are filled in from the front.
Oif_FromFront(t, d) ==
    /\ At(t, "add", "oifs")
    /\ d \in job[t].todo
    /\ IF Listed(d) /\ Vifi(d) < job[t].size
       THEN job' = [job EXCEPT ![t].todo = @ \ {d}, ![t].oifs = @ \cup {Cardinality(@)}]
       ELSE Finish(t)
    /\ UNCHANGED <<log, known, dynamic, mfc, queue, stale>>

\* ... and one lookup after another; a name not listed, or listed beyond the
\* end of that list, raises.
Oif(t, d) ==
    /\ At(t, "add", "oifs")
    /\ d \in job[t].todo
    /\ IF Listed(d) /\ Vifi(d) < job[t].size
       THEN job' = [job EXCEPT ![t].todo = @ \ {d}, ![t].oifs = @ \cup {Vifi(d)}]
       ELSE Finish(t)
    /\ UNCHANGED <<log, known, dynamic, mfc, queue, stale>>

\* MRT_ADD_MFC creates the entry of <<source, group>>, or overwrites it
\* whatever its parent.
AddMfc(t) ==
    LET r == job[t].route
        e == [parent |-> job[t].vif, oifs |-> job[t].oifs, route |-> r] IN
    /\ At(t, "add", "oifs")
    /\ job[t].todo = {}
    /\ mfc' = [k \in DOMAIN mfc \cup {Key(r)} |-> IF k = Key(r) THEN e ELSE mfc[k]]
    /\ Finish(t)
    /\ UNCHANGED <<log, known, dynamic, queue, stale>>

\* MRT_DEL_MFC looks for <<source, group>> only; ENOENT when there is none.
DelMfc(t) ==
    /\ At(t, "remove", "syscall")
    /\ mfc' = [k \in DOMAIN mfc \ {Key(job[t].route)} |-> mfc[k]]
    /\ Finish(t)
    /\ UNCHANGED <<log, known, dynamic, queue, stale>>

(***************************************************************************)
(* The routing socket and the listener thread.                             *)
(***************************************************************************)
\* The kernel reports a packet for which it has no entry.
NoCache(m) ==
    /\ m.vif < Len(log)
    /\ <<m.source, m.group>> \notin DOMAIN mfc
    /\ Len(queue) < MaxQueue
    /\ queue' = Append(queue, m)
    /\ UNCHANGED <<log, known, dynamic, mfc, job, stale>>

OtherMessage(kind) ==
    /\ Len(queue) < MaxQueue
    /\ queue' = Append(queue, [kind |-> kind])
    /\ UNCHANGED <<log, known, dynamic, mfc, job, stale>>

\* match(): for a packet from 0.0.0.0 a route of the dictionary, for any other
\* an MFC entry, by comparing a str with an IPv4Address: never equal.
StrIsAddress(str, address) == FALSE

MatchDynamic(m) ==
    {r \in Route : m.source = AnyAddr /\ Lists(m.vif, r) /\ r.group = m.group}

MatchStatic(m) ==
    {k \in DOMAIN mfc : /\ m.source # AnyAddr
                        /\ mfc[k].parent = m.vif
                        /\ k[2] = m.group
                        /\ StrIsAddress(k[1], m.source)}

\* process_control_message.  An MFC entry matched is installed for the packet's
\* addresses; a route of the dictionary has no attribute `oifs' and raises; and
\* the last statement raises in every case.
Answered(m) ==
    IF m.kind = "nocache" /\ MatchDynamic(m) = {} /\ MatchStatic(m) # {}
    THEN LET k == CHOOSE k \in MatchStatic(m) : TRUE
             new == <<m.source, m.group>>
         IN  [l \in DOMAIN mfc \cup {new} |-> IF l = new THEN mfc[k] ELSE mfc[l]]
    ELSE mfc

\* Mutated form of Listen: the loop is left when a packet does not parse.
Listen_Dies ==
    /\ queue # <<>>
    /\ Head(queue).kind # "malformed"
    /\ queue' = Tail(queue)
    /\ mfc' = Answered(Head(queue))
    /\ UNCHANGED <<log, known, dynamic, job, stale>>

\* _daemon_listener takes one message.  Whatever raises, in the parser or in
\* the handler, is logged and the loop goes on.
Listen ==
    /\ queue # <<>>
    /\ queue' = Tail(queue)
    /\ mfc' = Answered(Head(queue))
    /\ UNCHANGED <<log, known, dynamic, job, stale>>

Work(t) ==
    \/ Parent(t) \/ NoParent(t)
    \/ Get(t) \/ Put(t) \/ Replace(t)
    \/ TakeOut(t) \/ NothingToTake(t) \/ TestEmpty(t) \/ Drop(t)
    \/ Size(t) \/ (\E d \in Dev : Oif(t, d)) \/ AddMfc(t) \/ DelMfc(t)

Next ==
    \/ Interfaces
    \/ \E t \in Thread : Work(t) \/ \E r \in Route, op \in {"add", "remove"} : Begin(t, op, r)
    \/ \E m \in Packet : NoCache(m)
    \/ \E kind \in {"other", "malformed"} : OtherMessage(kind)
    \/ Listen

\* The listener is a thread that blocks only in recvfrom, and a worker blocks
\* nowhere: each goes on as long as it can.
Spec == Init /\ [][Next]_vars /\ WF_vars(Listen) /\ \A t \in Thread : WF_vars(Work(t))

(***************************************************************************)
(* Properties                                                              *)
(***************************************************************************)
\* Name lookups of one request read the name list at different moments, while
\* VifManager replaces it by longer and shorter ones; all the same every MFC
\* entry made forwards from the very interface its route names to exactly the
\* interfaces it names, and a route waits under the VIF of its interface.
RoutesFollowInterfaces ==
    /\ \A k \in DOMAIN mfc :
        LET e == mfc[k] IN
        /\ log[e.parent + 1] = e.route.from
        /\ {log[i + 1] : i \in e.oifs} = e.route.to
    /\ \A v \in DOMAIN dynamic : \A p \in DOMAIN dynamic[v] :
        log[v + 1] = dynamic[v][p].from

\* Between requests no VIF is left with an empty list (dynamic_mfc() would show
\* a VIF without routes), however removals of the same route interleave.
NoEmptyList ==
    (\A t \in Thread : job[t].at = "free") =>
        \A v \in DOMAIN dynamic : dynamic[v] # <<>>

\* A route leaves the dictionary only by its own removal, or because of a race:
\* a thread that looked at the VIF's list deletes it or puts a new one in its
\* place after another thread has changed it.  No request that found the list
\* as it still is ever costs another request's route.
LostOnlyToRaces ==
    \A v \in Vif, r \in Route :
        Lists(v, r) /\ ~Lists(v, r)' =>
            \E t \in Thread :
                /\ job[t].vif = v /\ job'[t] # job[t]
                /\ (job[t].op = "remove" /\ job[t].route = r) \/ t \in stale

LossesAreRaces == [][LostOnlyToRaces]_vars

\* The listener survives every message: the socket's buffer never stays full.
ListenerKeepsUp == []<>(Len(queue) < MaxQueue)

\* "I'd like route all incoming multicast for groups ... on the eth device to
\* the bridge", configured by a route without a source: when the kernel reports
\* a packet of such a group on that device, the listener installs an entry.
ServesRoute ==
    Len(queue') < Len(queue) /\ Head(queue).kind = "nocache" =>
        LET m == Head(queue) IN
        (\E r \in Route : Dynamic(r) /\ r.group = m.group /\ Lists(m.vif, r)) =>
            <<m.source, m.group>> \in DOMAIN mfc'

DynamicRouteServed == [][ServesRoute]_vars
===============================================================================
