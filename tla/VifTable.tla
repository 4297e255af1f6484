------------------------------- MODULE VifTable -------------------------------
(***************************************************************************)
(* The kernel's table of virtual multicast interfaces (VIFs), as the       *)
(* package sees it through setsockopt and /proc/net/ip_mr_vif, and the two *)
(* views the daemon takes of a listing of it.  External: modelled from how *)
(* src/ uses it.  The table outlives no socket; see the modules that use   *)
(* it for who adds, deletes and flushes.                                   *)
(***************************************************************************)
EXTENDS Naturals, FiniteSets, Sequences

CONSTANTS
    Dev,        \* network devices; a VIF is listed under its device's name
    NoDev,      \* marks a free slot
    MaxVifs     \* slots of the table (MAXVIFS, 32 in Linux)

\* vifc_vifi is an unsigned short: the C int the daemon passes is truncated.
VifiSpan == 65536

ASSUME VifTableAssumption ==
    /\ NoDev \notin Dev
    /\ MaxVifs \in 1..(VifiSpan - 1)

Slot == 0..(MaxVifs - 1)
Table == [Slot -> Dev \cup {NoDev}]
EmptyTable == [i \in Slot |-> NoDev]

Occupied(tbl) == {i \in Slot : tbl[i] # NoDev}
Names(tbl) == {tbl[i] : i \in Occupied(tbl)}

Truncated(i) == i % VifiSpan

\* MRT_ADD_VIF: ENFILE beyond the table, EADDRINUSE on an occupied slot.  The
\* same device may well get a second slot.
CanAdd(tbl, i) == Truncated(i) \in Slot /\ tbl[Truncated(i)] = NoDev
Added(tbl, i, d) == [tbl EXCEPT ![Truncated(i)] = d]

\* MRT_DEL_VIF: EADDRNOTAVAIL unless the slot is occupied.  The slots keep
\* their numbers.
CanDelete(tbl, i) == Truncated(i) \in Slot /\ tbl[Truncated(i)] # NoDev
Deleted(tbl, i) == [tbl EXCEPT ![Truncated(i)] = NoDev]

\* The listing shows the occupied slots in order.  A dictionary keyed by name
\* keeps a name where it came first ...
FirstRows(tbl) ==
    {i \in Occupied(tbl) : \A j \in Occupied(tbl) : j < i => tbl[j] # tbl[i]}

Before(tbl, i) == {j \in FirstRows(tbl) : j < i}

NameCount(tbl) == Cardinality(FirstRows(tbl))

\* Mutated form of NameList: a name that comes again moves to the end.
NameList_Reinserted(tbl) ==
    LET last == {i \in Occupied(tbl) : \A j \in Occupied(tbl) : i < j => tbl[j] # tbl[i]} IN
    [p \in 1..Cardinality(last) |->
        tbl[CHOOSE i \in last : Cardinality({j \in last : j < i}) = p - 1]]

\* ... so list(vifs().keys()) is this sequence ...
NameList(tbl) ==
    [p \in 1..NameCount(tbl) |->
        tbl[CHOOSE i \in FirstRows(tbl) : Cardinality(Before(tbl, i)) = p - 1]]

\* Mutated form of IndexOf: the position in the name list.
IndexOf_ByPosition(tbl, d) ==
    CHOOSE p \in 0..(NameCount(tbl) - 1) : NameList(tbl)[p + 1] = d

\* ... and keeps the entry that came last: vifs()[d].index.
IndexOf(tbl, d) ==
    CHOOSE i \in Occupied(tbl) :
        /\ tbl[i] = d
        /\ \A j \in Occupied(tbl) : tbl[j] = d => j <= i

\* No free slot below an occupied one; no device in two slots.
Dense(tbl) == \A i \in Occupied(tbl) : \A j \in Slot : j < i => tbl[j] # NoDev
Distinct(tbl) == \A i, j \in Occupied(tbl) : tbl[i] = tbl[j] => i = j

\* The free slots below an occupied one; a table regular up to slot i.
Holes(tbl) == {j \in Slot \ Occupied(tbl) : \E i \in Occupied(tbl) : j < i}
RegularUpTo(tbl, i) ==
    /\ 0..i \subseteq Occupied(tbl)
    /\ \A j, k \in 0..i : tbl[j] = tbl[k] => j = k
===============================================================================
