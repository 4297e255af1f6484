------------------------------ MODULE VifManager ------------------------------
(***************************************************************************)
(* daemons/simple.py: class VifManager and the REST endpoints on /vifs.    *)
(*                                                                         *)
(* FastAPI runs the endpoints on a pool of threads and the listener is     *)
(* one more thread; nothing locks the manager.  A request is a sequence of *)
(* steps: calls of vifs(), each a whole file_cache call on                 *)
(* /proc/net/ip_mr_vif, one system call, and the assignment of             *)
(* _vif_name_list.  The manager starts in the state its constructor leaves *)
(* after main() has flushed the kernel tables.                             *)
(***************************************************************************)
EXTENDS FileCache, VifTable

CONSTANTS
    Configs,    \* the phyint lists a configuration file may name
    Operation,  \* the operations requested, see Operations
    Index,      \* the explicit VIF indices requested
    NoIndex,    \* an add that gives no index (mcast_index=None)
    MaxPkts     \* bound on the changes of the traffic counters listed

Operations == {"add", "removeIndex", "removeName", "list"}

ASSUME VifManagerAssumption ==
    /\ \A c \in Configs : c \in Seq(Dev) /\ Len(c) <= MaxVifs
    /\ Operation \subseteq Operations
    /\ Index \subseteq Nat
    /\ NoIndex \notin Nat
    /\ MaxPkts \in Nat
    /\ Malformed = {}       \* the kernel prints no line the reader rejects

VARIABLES
    names,      \* _vif_name_list
    req,        \* per thread: the request it serves
    appendOnly  \* history: every VIF so far was appended without an index,
                \* from a configuration that names no interface twice

vars == <<file, cache, call, names, req, appendOnly>>

Places == {"free", "lookup", "syscall", "refresh", "assign", "respond"}

\* A request that holds no listing yet.
Asking(op, at, d, i) ==
    [op |-> op, at |-> at, dev |-> d, idx |-> i, table |-> EmptyTable]

NoReq == Asking("none", "free", NoDev, NoIndex)

\* What /proc/net/ip_mr_vif prints.
Listing == [rows : Table, pkts : 0..MaxPkts]

Call == [at : Steps, seen : Listing \cup {None}, parsed : Listing \cup {None}]

Request == [op : Operations \cup {"none"}, at : Places, dev : Dev \cup {NoDev},
            idx : Index \cup {NoIndex}, table : Table]

TypeOK ==
    /\ file \in Listing
    /\ cache \in [last_hash : Listing, result : Listing]
    /\ call \in [Thread -> Call]
    /\ names \in Seq(Dev)
    /\ req \in [Thread -> Request]
    /\ appendOnly \in BOOLEAN

\* __init__ adds phyint[i] at index i (index 0 takes the un-indexed path,
\* which finds the flushed table empty) and lists the table after each.
Configured(c) == [i \in Slot |-> IF i < Len(c) THEN c[i + 1] ELSE NoDev]

Init ==
    \E c \in Configs :
        /\ file = [rows |-> Configured(c), pkts |-> 0]
        /\ cache = [last_hash |-> file, result |-> file]
        /\ call = [t \in Thread |-> NoCall]
        /\ names = NameList(file.rows)
        /\ req = [t \in Thread |-> NoReq]
        /\ appendOnly = \A i, j \in DOMAIN c : c[i] = c[j] => i = j

(***************************************************************************)
(* A thread takes a request.                                               *)
(***************************************************************************)
Take(t, op, at, d, i) ==
    /\ req[t].at = "free"
    /\ op \in Operation
    /\ req' = [req EXCEPT ![t] = Asking(op, at, d, i)]
    /\ UNCHANGED <<file, cache, call, names, appendOnly>>

\* `if not mcast_index' holds of None and of 0.
Unindexed(i) == i = NoIndex \/ i = 0

Add(t, d, i) ==
    /\ Unindexed(i)
    /\ Take(t, "add", "lookup", d, i)

AddAt(t, d, i) ==
    /\ ~Unindexed(i)
    /\ Take(t, "add", "syscall", d, i)

RemoveByIndex(t, i) == Take(t, "removeIndex", "syscall", NoDev, i)

RemoveByName(t, d) == Take(t, "removeName", "lookup", d, NoIndex)

\* GET /vifs and GET /vifs/{interface_name}.
List(t) == Take(t, "list", "respond", NoDev, NoIndex)

(***************************************************************************)
(* vifs(): a call of the cached reader.                                    *)
(***************************************************************************)
BeginVifs(t) ==
    /\ req[t].at \in {"lookup", "refresh", "respond"}
    /\ ReadFile(t)
    /\ UNCHANGED <<names, req, appendOnly>>

ContinueVifs(t) ==
    /\ CallStep(t)
    /\ UNCHANGED <<names, req, appendOnly>>

\* The caller keeps the table returned and goes on.
VifsReturns(t, here, next) ==
    /\ req[t].at = here
    /\ Return(t)
    /\ req' = [req EXCEPT ![t] = [@ EXCEPT !.at = next, !.table = cache.result.rows]]
    /\ UNCHANGED <<names, appendOnly>>

LookupReturns(t) == VifsReturns(t, "lookup", "syscall")
RefreshReturns(t) == VifsReturns(t, "refresh", "assign")

\* The last listing of a request is its answer (or a KeyError).
Respond(t) ==
    /\ req[t].at = "respond"
    /\ Return(t)
    /\ req' = [req EXCEPT ![t] = NoReq]
    /\ UNCHANGED <<names, appendOnly>>

(***************************************************************************)
(* The local decision and the system call that follow a lookup.            *)
(***************************************************************************)
\* A request fails with an exception and has changed nothing.
Fail(t) ==
    /\ req' = [req EXCEPT ![t] = NoReq]
    /\ UNCHANGED <<file, cache, call, names, appendOnly>>

\* Mutated form of InUse: the name is not checked.
InUse_Unchecked(r) == FALSE

InUse(r) == Unindexed(r.idx) /\ r.dev \in Names(r.table)

\* Mutated form of McastIndex: one past the end.
McastIndex_PastEnd(r) ==
    IF Unindexed(r.idx) THEN Cardinality(Names(r.table)) + 1 ELSE r.idx

\* Mutated form of McastIndex: the last index in use.
McastIndex_Last(r) ==
    IF Unindexed(r.idx) THEN Cardinality(Names(r.table)) - 1 ELSE r.idx

McastIndex(r) == IF Unindexed(r.idx) THEN Cardinality(Names(r.table)) ELSE r.idx

\* Mutated form of AddVif: an occupied slot is replaced.
AddVif_Replaces(t) ==
    LET r == req[t] IN
    /\ r.op = "add" /\ r.at = "syscall" /\ ~InUse(r)
    /\ file' = [file EXCEPT !.rows = Added(file.rows, McastIndex(r), r.dev)]
    /\ req' = [req EXCEPT ![t] = [@ EXCEPT !.at = "refresh", !.table = EmptyTable]]
    /\ appendOnly' = (appendOnly /\ Unindexed(r.idx))
    /\ UNCHANGED <<cache, call, names>>

\* Mutated form of AddVif: the name list is not refreshed.
AddVif_NoRefresh(t) ==
    LET r == req[t] IN
    /\ r.op = "add" /\ r.at = "syscall" /\ ~InUse(r)
    /\ CanAdd(file.rows, McastIndex(r))
    /\ file' = [file EXCEPT !.rows = Added(file.rows, McastIndex(r), r.dev)]
    /\ req' = [req EXCEPT ![t] = [@ EXCEPT !.at = "respond"]]
    /\ appendOnly' = (appendOnly /\ Unindexed(r.idx))
    /\ UNCHANGED <<cache, call, names>>

AddVif(t) ==
    LET r == req[t] IN
    /\ r.op = "add" /\ r.at = "syscall" /\ ~InUse(r)
    /\ CanAdd(file.rows, McastIndex(r))
    /\ file' = [file EXCEPT !.rows = Added(file.rows, McastIndex(r), r.dev)]
    /\ req' = [req EXCEPT ![t] = [@ EXCEPT !.at = "refresh", !.table = EmptyTable]]
    /\ appendOnly' = (appendOnly /\ Unindexed(r.idx))
    /\ UNCHANGED <<cache, call, names>>

\* "Interface already exists", or the kernel refuses the slot.
AddFails(t) ==
    LET r == req[t] IN
    /\ r.op = "add" /\ r.at = "syscall"
    /\ InUse(r) \/ ~CanAdd(file.rows, McastIndex(r))
    /\ Fail(t)

DelVifByIndex(t) ==
    LET r == req[t] IN
    /\ r.op = "removeIndex" /\ r.at = "syscall"
    /\ CanDelete(file.rows, r.idx)
    /\ file' = [file EXCEPT !.rows = Deleted(file.rows, r.idx)]
    /\ req' = [req EXCEPT ![t] = [@ EXCEPT !.at = "refresh"]]
    /\ appendOnly' = FALSE
    /\ UNCHANGED <<cache, call, names>>

Listed(r) == r.dev \in Names(r.table)

\* remove_by_name does not refresh _vif_name_list.
DelVifByName(t) ==
    LET r == req[t]
        i == IndexOf(r.table, r.dev) IN
    /\ r.op = "removeName" /\ r.at = "syscall" /\ Listed(r)
    /\ CanDelete(file.rows, i)
    /\ file' = [file EXCEPT !.rows = Deleted(file.rows, i)]
    /\ req' = [req EXCEPT ![t] = NoReq]
    /\ appendOnly' = FALSE
    /\ UNCHANGED <<cache, call, names>>

\* "Interface does not exist", or the kernel has no such VIF any more.
RemoveFails(t) ==
    LET r == req[t] IN
    /\ r.at = "syscall"
    /\ \/ r.op = "removeIndex" /\ ~CanDelete(file.rows, r.idx)
       \/ r.op = "removeName" /\ ~Listed(r)
       \/ /\ r.op = "removeName" /\ Listed(r)
          /\ ~CanDelete(file.rows, IndexOf(r.table, r.dev))
    /\ Fail(t)

\* Mutated form of AssignNames: free slots are listed too.
AssignNames_WholeTable(t) ==
    /\ req[t].at = "assign"
    /\ names' = [p \in 1..MaxVifs |-> req[t].table[p - 1]]
    /\ req' = [req EXCEPT ![t] = [@ EXCEPT !.at = "respond", !.table = EmptyTable]]
    /\ UNCHANGED <<file, cache, call, appendOnly>>

\* self._vif_name_list = list(self.vifs().keys())
AssignNames(t) ==
    /\ req[t].at = "assign"
    /\ names' = NameList(req[t].table)
    /\ req' = [req EXCEPT ![t] = IF req[t].op = "add"
                                 THEN [@ EXCEPT !.at = "respond", !.table = EmptyTable]
                                 ELSE NoReq]
    /\ UNCHANGED <<file, cache, call, appendOnly>>

\* The counters the listing prints grow with the traffic.
Traffic ==
    /\ Occupied(file.rows) # {}
    /\ file.pkts < MaxPkts
    /\ file' = [file EXCEPT !.pkts = @ + 1]
    /\ UNCHANGED <<cache, call, names, req, appendOnly>>

Accept(t) ==
    \/ \E d \in Dev, i \in Index \cup {NoIndex} : Add(t, d, i) \/ AddAt(t, d, i)
    \/ \E i \in Index : RemoveByIndex(t, i)
    \/ \E d \in Dev : RemoveByName(t, d)
    \/ List(t)

Vifs(t) ==
    \/ BeginVifs(t) \/ ContinueVifs(t)
    \/ LookupReturns(t) \/ RefreshReturns(t) \/ Respond(t)

Act(t) ==
    \/ AddVif(t) \/ AddFails(t)
    \/ DelVifByIndex(t) \/ DelVifByName(t) \/ RemoveFails(t)
    \/ AssignNames(t)

Next == Traffic \/ \E t \in Thread : Accept(t) \/ Vifs(t) \/ Act(t)

Spec == Init /\ [][Next]_vars

(***************************************************************************)
(* Properties                                                              *)
(***************************************************************************)
Alone(t) == \A u \in Thread \ {t} : req[u].at = "free"
Quiet == \A t \in Thread : req[t].at = "free"

\* Concurrent un-indexed adds pick their index from listings that may be
\* stale, check the name against them and hold no lock; all the same the VIFs
\* stay without holes and no interface is registered twice.
AppendOnlyRegular == appendOnly => Dense(file.rows) /\ Distinct(file.rows)

\* vifi(name): the position of the name in _vif_name_list.
NameKnown(d) == \E p \in DOMAIN names : names[p] = d
Vifi(d) == (CHOOSE p \in DOMAIN names :
                /\ names[p] = d
                /\ \A q \in DOMAIN names : names[q] = d => p <= q) - 1

\* "Returns the multicast VIF index for the given interface."
VifiIsKernelIndex ==
    \A d \in Dev : NameKnown(d) => Vifi(d) \in Slot /\ file.rows[Vifi(d)] = d

\* The same, asked of a manager that serves no request at the moment.
SettledVifi == Quiet => VifiIsKernelIndex

\* A name list assigned out of order may lack an interface, but while VIFs are
\* only appended it never gives an interface another one's index: no route is
\* installed on a wrong interface.
AppendOnlyVifi == appendOnly => VifiIsKernelIndex

\* The entry a GET or an acknowledged POST answers with names the slot the
\* interface really has, although the answer may come from an old listing.
AnswersTrue ==
    appendOnly => \A t \in Thread :
        req[t].at = "respond" /\ call[t].at = "return" =>
            \A d \in Names(cache.result.rows) :
                file.rows[IndexOf(cache.result.rows, d)] = d

\* "Returns a dictionary of the virtual multicast interfaces registered in the
\* kernel": a call that read the current listing, with no other request under
\* way, returns the VIFs the kernel has.
AloneSeesKernel ==
    \A t \in Thread :
        call[t].at = "return" /\ call[t].seen = file /\ Alone(t) =>
            cache.result.rows = file.rows

\* Between requests, every interface the kernel has can be named in a route.
RegisteredIsListed ==
    Quiet => \A d \in Names(file.rows) : NameKnown(d)

\* On a table without holes and repetitions, whatever was added, removed or put
\* at an explicit index before, adding an interface that is not registered fails
\* only because the table is full: len(vifs) is the first free slot.
AppendFailsOnlyWhenFull ==
    \A t \in Thread :
        LET r == req[t] IN
        /\ Dense(file.rows) /\ Distinct(file.rows)
        /\ r.op = "add" /\ r.at = "syscall"
        /\ Unindexed(r.idx) /\ ~InUse(r) /\ ~CanAdd(file.rows, McastIndex(r))
        => Occupied(file.rows) = Slot

\* vifi(name) is the kernel's index for every interface that has no hole and no
\* repetition at or below its slot, after any additions and removals: the
\* positions that are off start at the first irregularity, and a name list that
\* remove_by_name has not refreshed, nor its later refreshments, move no other.
VifiTrueBelowHoles ==
    Quiet => \A i \in Slot : RegularUpTo(file.rows, i) =>
                NameKnown(file.rows[i]) /\ Vifi(file.rows[i]) = i

\* An un-indexed add makes no table irregular, nor more irregular than it is: it
\* takes len(vifs), which counts names and not slots, and still never jumps over
\* a free slot at the end, and it never gives an interface a second slot.  Holes
\* come from removals and explicit indices only, whatever the table is like.
AddsInOrder ==
    \A t \in Thread :
        /\ req[t].op = "add" /\ req[t].at = "syscall" /\ Unindexed(req[t].idx)
        /\ req'[t].at = "refresh"
        => /\ Holes(file'.rows) \subseteq Holes(file.rows)
           /\ req[t].dev \notin Names(file.rows)

AddsMakeNoHole == [][AddsInOrder]_vars

\* "Removes a virtual multicast interface from the kernel by name": the slot
\* emptied is one of the interface named.
RemovesNamed ==
    \A t \in Thread :
        req[t].op = "removeName" /\ req[t].at = "syscall" /\ req'[t].at = "free" =>
            \A i \in Slot : file'.rows[i] # file.rows[i] => file.rows[i] = req[t].dev

RemovalHitsNamed == [][RemovesNamed]_vars

(***************************************************************************)
(* Refinement: while VIFs are only appended, the manager implements the    *)
(* registry of VifRegistry.                                                *)
(***************************************************************************)
Log == [p \in 1..Cardinality(Occupied(file.rows)) |-> file.rows[p - 1]]

Registry == INSTANCE VifRegistry WITH log <- Log, known <- Len(names)

\* To be checked where Operation and Configs only append: every step of every
\* thread is a registration, a publication of a prefix, or invisible.
ImplementsRegistry == Registry!Spec
===============================================================================
