-------------------------- MODULE VifSequentialProofs --------------------------
(***************************************************************************)
(* Proofs about VifManager when one thread serves its requests, one after  *)
(* the other, for every set of devices, requests and configurations and    *)
(* every size of the kernel's table.  Removals and explicit indices are    *)
(* allowed, so the table may have holes and may repeat a device; only the  *)
(* traffic counters change behind the manager's back.                      *)
(***************************************************************************)
EXTENDS VifManagerProofs

OneThread == \A t, u \in Thread : t = u

\* The table the kernel holds, and the listings' tables.
Now == file.rows

\* A call of the cached reader runs only where a request lists the table, and
\* there nobody changes the table: whatever the call has read or parsed since,
\* and what it has stored in the cache, is the table as it is.
CallCurrent(t) ==
    /\ call[t].at # "idle" => /\ req[t].at \in {"lookup", "refresh", "respond"}
                              /\ call[t].seen.rows = Now
    /\ call[t].at = "store" => call[t].parsed.rows = Now
    /\ call[t].at \in {"stamp", "return"} => cache.result.rows = Now
    /\ call[t].at # "stamp" => cache.last_hash.rows = cache.result.rows

\* The table a request decides by is the table as it is.
RequestCurrent(t) ==
    /\ req[t].at = "syscall" => \/ req[t].op = "add" /\ ~Unindexed(req[t].idx)
                                \/ req[t].op = "removeIndex"
                                \/ req[t].table = Now
    /\ req[t].at = "assign" => req[t].table = Now

AllKnown == \A d \in Names(Now) : NameKnown(d)

PrefixKnown ==
    \A i \in Slot : RegularUpTo(Now, i) => i + 1 \in DOMAIN names /\ names[i + 1] = Now[i]

\* What the name list is good for, whatever remove_by_name has left in it.
NamesGood == AllKnown /\ PrefixKnown

\* It lacks that only between a system call and the assignment that follows.
NamesCurrent == (\A t \in Thread : req[t].at \notin {"refresh", "assign"}) => NamesGood

SInv ==
    /\ \A t \in Thread : CallCurrent(t) /\ RequestCurrent(t)
    /\ NamesCurrent

\* A list of names read from the table is good.
LEMMA ListedGood == ASSUME Now \in Table, names = NameList(Now) PROVE NamesGood
BY NameListComplete, PrefixListing DEF NamesGood, AllKnown, NameKnown, PrefixKnown

\* ... and so is one that a step reads from it.
LEMMA ListedGoodNext == ASSUME Now' \in Table, names' = NameList(Now') PROVE NamesGood'
BY NameListComplete, PrefixListing DEF NamesGood, AllKnown, NameKnown, PrefixKnown

\* A step that leaves the name list alone and changes the table by deletions only
\* leaves it good.
LEMMA DeletedGood ==
    ASSUME NamesGood, Now \in Table, names' = names,
           \A i \in Slot : Now'[i] \in {Now[i], NoDev}
    PROVE  NamesGood'
<1>1. Occupied(Now') \subseteq Occupied(Now) /\ \A i \in Occupied(Now') : Now'[i] = Now[i]
  BY DEF Occupied
<1>2. AllKnown'
  BY <1>1 DEF NamesGood, AllKnown, NameKnown, Names
<1>3. ASSUME NEW i \in Slot, RegularUpTo(Now', i)
      PROVE  i + 1 \in DOMAIN names' /\ names'[i + 1] = Now'[i]
  <2>1. i \in Nat /\ i \in 0..i
    BY SlotType
  <2>2. \A j \in 0..i : j \in Occupied(Now') /\ Now'[j] = Now[j]
    BY <1>1, <1>3 DEF RegularUpTo
  <2>3. RegularUpTo(Now, i)
    BY <1>1, <1>3, <2>2 DEF RegularUpTo
  <2> QED BY <2>1, <2>2, <2>3 DEF NamesGood, PrefixKnown
<1> QED BY <1>2, <1>3 DEF NamesGood, PrefixKnown

LEMMA SInvInit == Init => SInv
<1> SUFFICES ASSUME NEW c \in Configs,
                    file = [rows |-> Configured(c), pkts |-> 0],
                    cache = [last_hash |-> file, result |-> file],
                    call = [t \in Thread |-> NoCall],
                    names = NameList(file.rows),
                    req = [t \in Thread |-> NoReq]
             PROVE  SInv
  BY DEF Init
<1>1. Now \in Table
  BY ConfiguredType DEF Now
<1>2. NamesGood
  BY <1>1, ListedGood DEF Now
<1>3. \A t \in Thread : CallCurrent(t) /\ RequestCurrent(t)
  BY DEF CallCurrent, RequestCurrent, NoCall, NoReq, Asking
<1> QED BY <1>2, <1>3 DEF SInv, NamesCurrent

\* What a step of the only thread has to establish.
LEMMA OnlyThread ==
    ASSUME OneThread, NEW t \in Thread, CallCurrent(t)', RequestCurrent(t)',
           req'[t].at \notin {"refresh", "assign"} => NamesGood'
    PROVE  SInv'
BY DEF OneThread, SInv, NamesCurrent

\* ... and what it may rely on.
LEMMA OnlyThreadHas ==
    ASSUME OneThread, SInv, NEW t \in Thread
    PROVE  /\ CallCurrent(t) /\ RequestCurrent(t)
           /\ req[t].at \notin {"refresh", "assign"} => NamesGood
BY DEF OneThread, SInv, NamesCurrent

\* A step that replaces the request of t, while t is not calling the reader.
LEMMA SInvRequest ==
    ASSUME OneThread, TInv, SInv, NEW t \in Thread, NEW r, req' = [req EXCEPT ![t] = r],
           req[t].at \notin {"lookup", "refresh", "respond"},
           UNCHANGED <<cache, call>>,
           r.at = "syscall" => \/ r.op = "add" /\ ~Unindexed(r.idx)
                               \/ r.op = "removeIndex",
           r.at # "assign",
           r.at # "refresh" => NamesGood'
    PROVE  SInv'
<1>1. req'[t] = r
  BY DEF TInv, TypeOK
<1>2. CallCurrent(t)'
  BY OnlyThreadHas DEF CallCurrent
<1>3. RequestCurrent(t)'
  BY <1>1 DEF RequestCurrent
<1> QED BY <1>1, <1>2, <1>3, OnlyThread

LEMMA SInvAccept == ASSUME OneThread, TInv, SInv, NEW t \in Thread, Accept(t) PROVE SInv'
<1>1. PICK op, a, d, i :
            /\ Take(t, op, a, d, i)
            /\ a \in {"lookup", "syscall", "respond"}
            /\ a = "syscall" => (op = "add" /\ ~Unindexed(i)) \/ op = "removeIndex"
  BY DEF Accept, Add, AddAt, RemoveByIndex, RemoveByName, List
<1>2. /\ Asking(op, a, d, i).at = a /\ Asking(op, a, d, i).op = op
      /\ Asking(op, a, d, i).idx = i
  BY DEF Asking
<1>3. NamesGood'
  <2>1. NamesGood
    BY <1>1, OnlyThreadHas DEF Take
  <2> QED BY <1>1, <2>1 DEF Take, NamesGood, AllKnown, NameKnown, PrefixKnown, Now
<1> QED BY <1>1, <1>2, <1>3, SInvRequest DEF Take

LEMMA SInvListing == ASSUME OneThread, TInv, SInv, NEW t \in Thread, Vifs(t) PROVE SInv'
<1> DEFINE here == req[t].at
<1>1. /\ file' = file /\ names' = names
      /\ call \in [Thread -> Call] /\ req \in [Thread -> Request] /\ req[t] \in Request
      /\ cache \in [last_hash : Listing, result : Listing]
  <2>1. (ReadFile(t) \/ CallStep(t) \/ Return(t)) /\ names' = names
    BY DEF Vifs, BeginVifs, ContinueVifs, LookupReturns, RefreshReturns, VifsReturns, Respond
  <2> QED BY <2>1, TInvVifs DEF TInv, TypeOK
<1>2. CallCurrent(t) /\ RequestCurrent(t) /\ (here \notin {"refresh", "assign"} => NamesGood)
  BY OnlyThreadHas
<1>3. NamesGood => NamesGood'
  BY <1>1 DEF NamesGood, AllKnown, NameKnown, PrefixKnown, Now
<1>4. CASE BeginVifs(t)
  <2>1. /\ call'[t] = [at |-> "compare", seen |-> file, parsed |-> None]
        /\ cache' = cache /\ req' = req /\ call[t].at = "idle"
        /\ here \in {"lookup", "refresh", "respond"}
    BY <1>1, <1>4 DEF BeginVifs, ReadFile
  <2>2. CallCurrent(t)'
    BY <1>1, <1>2, <2>1 DEF CallCurrent, Now
  <2>3. RequestCurrent(t)'
    BY <2>1 DEF RequestCurrent
  <2> QED BY <1>2, <1>3, <2>1, <2>2, <2>3, OnlyThread
<1>5. CASE ContinueVifs(t)
  <2>1. CallStep(t) /\ req' = req
    BY <1>5 DEF ContinueVifs
  <2>2. CallCurrent(t)'
    <3>1. CASE Hit(t) \/ Miss(t)
      <4>1. /\ cache' = cache /\ call[t].at = "compare"
            /\ call'[t].at = IF call[t].seen = cache.last_hash THEN "return" ELSE "parse"
            /\ call'[t].seen = call[t].seen
        BY <1>1, <3>1 DEF Hit, Miss, Call
      <4> QED BY <1>1, <1>2, <2>1, <4>1 DEF CallCurrent, Now
    <3>2. CASE Parse(t)
      <4>1. /\ cache' = cache /\ call[t].at = "parse" /\ call'[t].at = "store"
            /\ call'[t].seen = call[t].seen /\ call'[t].parsed = file
        BY <1>1, <3>2 DEF Parse, Call
      <4> QED BY <1>1, <1>2, <2>1, <4>1 DEF CallCurrent, Now
    <3>3. CASE ParseRaises(t)
      BY <3>3, VifManagerAssumption DEF ParseRaises
    <3>4. CASE StoreResult(t)
      <4>1. /\ call[t].at = "store" /\ call'[t].at = "stamp"
            /\ call'[t].seen = call[t].seen /\ cache'.result = call[t].parsed
        BY <1>1, <3>4 DEF StoreResult, Call
      <4> QED BY <1>1, <1>2, <2>1, <4>1 DEF CallCurrent, Now
    <3>5. CASE StampHash(t)
      <4>1. /\ call[t].at = "stamp" /\ call'[t].at = "return"
            /\ call'[t].seen = call[t].seen
            /\ cache'.result = cache.result /\ cache'.last_hash = call[t].seen
        BY <1>1, <3>5 DEF StampHash, Call
      <4> QED BY <1>1, <1>2, <2>1, <4>1 DEF CallCurrent, Now
    <3> QED BY <2>1, <3>1, <3>2, <3>3, <3>4, <3>5 DEF CallStep
  <2>3. RequestCurrent(t)'
    BY <1>1, <1>2, <2>1 DEF RequestCurrent, Now
  <2> QED BY <1>2, <1>3, <2>1, <2>2, <2>3, OnlyThread
<1>6. CASE LookupReturns(t) \/ RefreshReturns(t)
  <2>1. PICK to \in {"syscall", "assign"} :
            /\ Return(t)
            /\ here = "lookup" => to = "syscall"
            /\ here \in {"lookup", "refresh"}
            /\ here = "refresh" => to = "assign"
            /\ req' = [req EXCEPT ![t] = [req[t] EXCEPT !.at = to, !.table = cache.result.rows]]
    BY <1>6 DEF LookupReturns, RefreshReturns, VifsReturns
  <2>2. /\ call'[t].at = "idle" /\ cache' = cache /\ call[t].at = "return"
        /\ req'[t].at = to /\ req'[t].table = cache.result.rows
    BY <1>1, <2>1 DEF Return, NoCall, Request
  <2>3. cache.result.rows = Now
    BY <1>2, <2>2 DEF CallCurrent
  <2>4. CallCurrent(t)'
    BY <1>2, <2>2 DEF CallCurrent
  <2>5. RequestCurrent(t)'
    BY <1>1, <2>2, <2>3 DEF RequestCurrent, Now
  <2> QED BY <1>2, <1>3, <2>1, <2>2, <2>4, <2>5, OnlyThread
<1>7. CASE Respond(t)
  <2>1. /\ call'[t].at = "idle" /\ cache' = cache /\ call[t].at = "return"
        /\ req'[t].at = "free" /\ here = "respond"
    BY <1>1, <1>7 DEF Respond, Return, NoCall, NoReq, Asking
  <2>2. CallCurrent(t)'
    BY <1>2, <2>1 DEF CallCurrent
  <2>3. RequestCurrent(t)'
    BY <2>1 DEF RequestCurrent
  <2> QED BY <1>2, <1>3, <2>1, <2>2, <2>3, OnlyThread
<1> QED BY <1>4, <1>5, <1>6, <1>7 DEF Vifs

LEMMA SInvAct == ASSUME OneThread, TInv, SInv, NEW t \in Thread, Act(t) PROVE SInv'
<1>1. /\ req[t] \in Request /\ req \in [Thread -> Request] /\ file \in Listing
      /\ Now \in Table /\ NoReq.at = "free"
  BY DEF TInv, TypeOK, Now, Listing, NoReq, Asking
<1>2. RequestCurrent(t) /\ (req[t].at \notin {"refresh", "assign"} => NamesGood)
  BY OnlyThreadHas
<1>3. CASE AddVif(t)
  <2>1. /\ req' = [req EXCEPT ![t] = [req[t] EXCEPT !.at = "refresh", !.table = EmptyTable]]
        /\ req[t].at = "syscall" /\ UNCHANGED <<cache, call>>
    BY <1>3 DEF AddVif
  <2>2. [req[t] EXCEPT !.at = "refresh", !.table = EmptyTable].at = "refresh"
    BY <1>1 DEF Request
  <2> QED BY <2>1, <2>2, SInvRequest
<1>4. CASE AddFails(t) \/ RemoveFails(t)
  <2>1. Fail(t) /\ req[t].at = "syscall"
    BY <1>4 DEF AddFails, RemoveFails
  <2>2. NamesGood'
    BY <1>2, <2>1 DEF Fail, NamesGood, AllKnown, NameKnown, PrefixKnown, Now
  <2> QED BY <1>1, <2>1, <2>2, SInvRequest DEF Fail
<1>5. CASE DelVifByIndex(t)
  <2>1. /\ req' = [req EXCEPT ![t] = [req[t] EXCEPT !.at = "refresh"]]
        /\ req[t].at = "syscall" /\ UNCHANGED <<cache, call>>
    BY <1>5 DEF DelVifByIndex
  <2>2. [req[t] EXCEPT !.at = "refresh"].at = "refresh"
    BY <1>1 DEF Request
  <2> QED BY <2>1, <2>2, SInvRequest
<1>6. CASE DelVifByName(t)
  <2>1. /\ req' = [req EXCEPT ![t] = NoReq] /\ names' = names
        /\ file'.rows = Deleted(Now, IndexOf(req[t].table, req[t].dev))
        /\ req[t].at = "syscall" /\ UNCHANGED <<cache, call>>
    BY <1>1, <1>6 DEF DelVifByName, Listing, Now
  <2>2. \A i \in Slot : Now'[i] \in {Now[i], NoDev}
    BY <1>1, <2>1 DEF Deleted, Table, Now
  <2>3. NamesGood'
    BY <1>1, <1>2, <2>1, <2>2, DeletedGood
  <2> QED BY <1>1, <2>1, <2>3, SInvRequest
<1>7. CASE AssignNames(t)
  <2>1. /\ names' = NameList(Now) /\ file' = file /\ req[t].at = "assign"
        /\ UNCHANGED <<cache, call>>
    BY <1>2, <1>7 DEF AssignNames, RequestCurrent
  <2>2. NamesGood'
    <3>1. Now' = Now /\ Now' \in Table
      BY <1>1, <2>1 DEF Now
    <3> QED BY <2>1, <3>1, ListedGoodNext
  <2>3. PICK r : req' = [req EXCEPT ![t] = r] /\ r.at \in {"respond", "free"}
    <3>1. [req[t] EXCEPT !.at = "respond", !.table = EmptyTable].at = "respond"
      BY <1>1 DEF Request
    <3> QED BY <1>1, <1>7, <3>1 DEF AssignNames
  <2> QED BY <2>1, <2>2, <2>3, SInvRequest
<1> QED BY <1>3, <1>4, <1>5, <1>6, <1>7 DEF Act

LEMMA SInvNext == OneThread /\ TInv /\ SInv /\ [Next]_vars => SInv'
<1> SUFFICES ASSUME OneThread, TInv, SInv, [Next]_vars PROVE SInv'
  OBVIOUS
<1>1. CASE Traffic \/ UNCHANGED vars
  <2>1. file'.rows = file.rows /\ UNCHANGED <<cache, call, names, req>>
    BY <1>1 DEF Traffic, vars, TInv, TypeOK, Listing
  <2> QED BY <2>1 DEF SInv, CallCurrent, RequestCurrent, NamesCurrent, NamesGood, AllKnown,
                 NameKnown, PrefixKnown, Now
<1> QED BY <1>1, SInvAccept, SInvListing, SInvAct DEF Next

LEMMA SInvAlways == ASSUME OneThread PROVE Spec => [](TInv /\ AInv /\ SInv)
<1>1. Init => SInv
  BY SInvInit
<1>2. TInv /\ SInv /\ [Next]_vars => SInv'
  BY SInvNext
<1> QED BY <1>1, <1>2, AInvAlways, PTL DEF Spec

(***************************************************************************)
(* The theorems.                                                           *)
(***************************************************************************)
\* vifs() shows the kernel's VIFs whenever its only caller asks, although the
\* cached reader hashes one read of the file and parses another, and remembers
\* the hash of the first with the result of the second.
THEOREM AloneSeesKernelAlways == ASSUME OneThread PROVE Spec => []AloneSeesKernel
<1>1. SInv => AloneSeesKernel
  BY DEF SInv, CallCurrent, Now, AloneSeesKernel
<1> QED BY <1>1, SInvAlways, PTL

\* Once a request is answered every interface the kernel has is in the name
\* list, although remove_by_name does not refresh it.
THEOREM RegisteredIsListedAlways == ASSUME OneThread PROVE Spec => []RegisteredIsListed
<1>1. SInv => RegisteredIsListed
  BY DEF SInv, NamesCurrent, NamesGood, AllKnown, Now, Quiet, RegisteredIsListed
<1> QED BY <1>1, SInvAlways, PTL

\* Up to the first hole or repetition of the table, vifi() gives the kernel's
\* index, although remove_by_name leaves the name list alone.
THEOREM VifiTrueBelowHolesAlways == ASSUME OneThread PROVE Spec => []VifiTrueBelowHoles
<1>1. TInv /\ SInv => VifiTrueBelowHoles
  <2> SUFFICES ASSUME TInv, SInv, Quiet, NEW i \in Slot, RegularUpTo(Now, i)
               PROVE  NameKnown(Now[i]) /\ Vifi(Now[i]) = i
    BY DEF VifiTrueBelowHoles, Now
  <2>1. PrefixKnown
    BY DEF SInv, NamesCurrent, NamesGood, Quiet
  <2>2. i \in Nat /\ names \in Seq(Dev) /\ \A j \in Slot : j \in Nat
    BY SlotType DEF TInv, TypeOK
  <2>3. i + 1 \in DOMAIN names /\ names[i + 1] = Now[i]
    BY <2>1 DEF PrefixKnown
  <2>4. ASSUME NEW q \in DOMAIN names, q < i + 1 PROVE names[q] # Now[i]
    <3>1. q \in Nat /\ q # 0 /\ q - 1 \in 0..i /\ q - 1 # i /\ (q - 1) + 1 = q
      BY <2>2, <2>4
    <3>2. q - 1 \in Slot /\ RegularUpTo(Now, q - 1)
      <4>1. q - 1 \in Slot
        BY <3>1 DEF RegularUpTo, Occupied
      <4>2. 0..(q - 1) \subseteq 0..i
        BY <2>2, <3>1
      <4> QED BY <4>1, <4>2 DEF RegularUpTo
    <3>3. names[q] = Now[q - 1]
      BY <2>1, <3>1, <3>2 DEF PrefixKnown
    <3>4. Now[q - 1] # Now[i]
      BY <2>2, <3>1 DEF RegularUpTo
    <3> QED BY <3>3, <3>4
  <2> DEFINE First(p) == /\ names[p] = Now[i]
                         /\ \A q \in DOMAIN names : names[q] = Now[i] => p <= q
             first == CHOOSE p \in DOMAIN names : First(p)
  <2>5. First(i + 1)
    <3>1. \A q \in DOMAIN names : q \in Nat
      BY <2>2
    <3> QED BY <2>2, <2>3, <2>4, <3>1
  <2>6. \A p \in DOMAIN names : First(p) => p = i + 1
    <3> SUFFICES ASSUME NEW p \in DOMAIN names, First(p) PROVE p = i + 1
      OBVIOUS
    <3>1. p <= i + 1 /\ ~(p < i + 1) /\ p \in Nat
      BY <2>2, <2>3, <2>4
    <3> QED BY <2>2, <3>1
  <2>7. first = i + 1
    <3> HIDE DEF First
    <3> QED BY <2>3, <2>5, <2>6
  <2>8. Vifi(Now[i]) = first - 1
    BY DEF Vifi
  <2> HIDE DEF first
  <2> QED BY <2>2, <2>3, <2>7, <2>8 DEF NameKnown
<1> QED BY <1>1, SInvAlways, PTL

\* On a regular table the index an un-indexed add computes is that of the first
\* free slot: the add fails only when there is none.
THEOREM AppendFailsOnlyWhenFullAlways ==
    ASSUME OneThread PROVE Spec => []AppendFailsOnlyWhenFull
<1>1. TInv /\ SInv => AppendFailsOnlyWhenFull
  <2> SUFFICES ASSUME TInv, SInv, NEW t \in Thread, Dense(Now), Distinct(Now),
                      req[t].op = "add", req[t].at = "syscall", Unindexed(req[t].idx),
                      ~CanAdd(Now, McastIndex(req[t]))
               PROVE  Occupied(Now) = Slot
    BY DEF AppendFailsOnlyWhenFull, Now
  <2>1. Now \in Table
    BY DEF TInv, TypeOK, Listing, Now
  <2>2. req[t].table = Now
    BY DEF SInv, RequestCurrent
  <2> HIDE DEF Now
  <2>3. PICK n \in 0..MaxVifs : Occupied(Now) = 0..(n - 1)
    BY <2>1, DenseSize
  <2>4. McastIndex(req[t]) = n
    BY <2>1, <2>2, <2>3, RegularListing DEF McastIndex
  <2>5. MaxVifs \in Nat /\ n \in Nat /\ n <= MaxVifs
    BY MaxVifsType
  <2>6. Truncated(n) = n
    BY NotTruncated
  <2>7. n \notin Slot
    <3>1. n \in Slot => Now[n] = NoDev
      BY <2>3, <2>5 DEF Occupied
    <3> QED BY <2>4, <2>6, <3>1 DEF CanAdd
  <2>8. n = MaxVifs
    BY <2>5, <2>7 DEF Slot
  <2> QED BY <2>3, <2>8 DEF Slot
<1> QED BY <1>1, SInvAlways, PTL

\* An un-indexed add makes no hole and gives no interface a second slot, whatever
\* holes and repetitions the table has: it takes the number of names, of which
\* there are no more than slots up to the last one in use.
THEOREM AddsMakeNoHoleAlways == ASSUME OneThread PROVE Spec => AddsMakeNoHole
<1>1. ASSUME TInv, SInv, [Next]_vars PROVE AddsInOrder
  <2> SUFFICES ASSUME NEW t \in Thread, req[t].op = "add", req[t].at = "syscall",
                      Unindexed(req[t].idx), req'[t].at = "refresh"
               PROVE  /\ \A h \in Holes(Now') : h \in Holes(Now)
                      /\ req[t].dev \notin Names(Now)
    BY DEF AddsInOrder, Now
  <2>1. /\ req \in [Thread -> Request] /\ file \in Listing /\ Now \in Table
        /\ req[t].table = Now
    <3>1. RequestCurrent(t)
      BY <1>1 DEF SInv
    <3> QED BY <1>1, <3>1 DEF TInv, TypeOK, Listing, Now, RequestCurrent
  <2>2. AddVif(t)
    <3>1. CASE Traffic \/ UNCHANGED vars
      BY <2>1, <3>1 DEF Traffic, vars
    <3>2. ASSUME NEW u \in Thread, Accept(u) \/ Vifs(u) \/ Act(u) PROVE AddVif(t)
      <4>1. u = t
        BY OneThread DEF OneThread
      <4>2. ~Accept(u) /\ ~Vifs(u)
        <5>1. call[t].at = "idle" /\ call[t] \in Call
          BY <1>1 DEF SInv, CallCurrent, TInv, TypeOK
        <5> QED BY <4>1, <5>1 DEF Accept, Add, AddAt, RemoveByIndex, RemoveByName, List, Take,
                    Vifs, BeginVifs, ContinueVifs, CallStep, Hit, Miss, Parse, ParseRaises,
                    StoreResult, StampHash, LookupReturns, RefreshReturns, VifsReturns, Respond,
                    Return
      <4>3. ~DelVifByIndex(u) /\ ~DelVifByName(u) /\ ~RemoveFails(u) /\ ~AssignNames(u)
        BY <4>1 DEF DelVifByIndex, DelVifByName, RemoveFails, AssignNames
      <4>4. ~AddFails(u)
        BY <2>1, <4>1 DEF AddFails, Fail, NoReq, Asking
      <4> QED BY <3>2, <4>1, <4>2, <4>3, <4>4 DEF Act
    <3> QED BY <1>1, <3>1, <3>2 DEF Next
  <2> DEFINE k == Cardinality(Names(Now))
             n == Truncated(k)
  <2>3. /\ req[t].dev \notin Names(Now) /\ n \in Slot /\ Now[n] = NoDev
        /\ Now' = [Now EXCEPT ![n] = req[t].dev]
    BY <2>1, <2>2 DEF AddVif, InUse, McastIndex, CanAdd, Added, Listing, Now
  <2>4. ASSUME NEW h \in Holes(Now') PROVE h \in Holes(Now)
    <3>1. PICK j \in Slot : j \in Occupied(Now') /\ h < j /\ h \in Slot /\ Now'[h] = NoDev
      BY <2>4 DEF Holes, Occupied
    <3>2. h \in Nat /\ j \in Nat /\ \A i \in Occupied(Now) : i \in Nat
      BY <3>1, SlotType DEF Occupied
    <3>3. Now[h] = NoDev
      <4> HIDE DEF n, Now
      <4>1. CASE h = n
        BY <2>3, <4>1
      <4>2. CASE h # n
        BY <2>1, <2>3, <3>1, <4>2 DEF Table
      <4> QED BY <4>1, <4>2
    <3>4. CASE j # n
      <4>1. j \in Occupied(Now)
        <5> HIDE DEF n, Now
        <5> QED BY <2>1, <2>3, <3>1, <3>4 DEF Table, Occupied
      <4> QED BY <3>1, <3>3, <4>1 DEF Holes, Occupied
    <3>5. CASE j = n
      <4>1. PICK i \in Occupied(Now) : ~(i < h)
        <5> SUFFICES ASSUME \A i \in Occupied(Now) : i < h PROVE FALSE
          OBVIOUS
        <5>1. k \in 0..h
          BY <2>1, <3>1, NamesBelow
        <5>2. k \in 0..MaxVifs
          <6>1. h \in 0..MaxVifs /\ MaxVifs \in Nat
            BY <3>1, MaxVifsType DEF Slot
          <6> HIDE DEF k
          <6> QED BY <3>2, <5>1, <6>1
        <5>3. n = k
          BY <5>2, NotTruncated
        <5> HIDE DEF n, k
        <5> QED BY <3>1, <3>2, <3>5, <5>1, <5>3
      <4>2. i # h /\ h < i
        BY <3>2, <3>3, <4>1 DEF Occupied
      <4> QED BY <3>1, <3>3, <4>1, <4>2 DEF Holes, Occupied
    <3> QED BY <3>4, <3>5
  <2> QED BY <2>3, <2>4
<1>2. TInv /\ AInv /\ SInv /\ [Next]_vars => AddsInOrder
  BY <1>1
<1> QED BY <1>2, SInvAlways, PTL DEF Spec, AddsMakeNoHole

\* Removing by name empties a slot of the interface named, whatever holes the
\* table has and however often it lists the interface.
THEOREM RemovalHitsNamedAlways == ASSUME OneThread PROVE Spec => RemovalHitsNamed
<1>1. ASSUME TInv, SInv, [Next]_vars PROVE RemovesNamed
  <2> SUFFICES ASSUME NEW t \in Thread, req[t].op = "removeName", req[t].at = "syscall",
                      req'[t].at = "free", NEW i \in Slot, file'.rows[i] # Now[i]
               PROVE  Now[i] = req[t].dev
    BY DEF RemovesNamed, Now
  <2>1. /\ req \in [Thread -> Request] /\ file \in Listing /\ Now \in Table
        /\ req[t].table = Now
    <3>1. RequestCurrent(t)
      BY <1>1 DEF SInv
    <3> QED BY <1>1, <3>1 DEF TInv, TypeOK, Listing, Now, RequestCurrent
  <2>2. CASE DelVifByName(t)
    <3> DEFINE k == IndexOf(Now, req[t].dev)
    <3>1. req[t].dev \in Names(Now) /\ file'.rows = Deleted(Now, k)
      BY <2>1, <2>2 DEF DelVifByName, Listed, Listing, Now
    <3>2. k \in Occupied(Now) /\ Now[k] = req[t].dev
      BY <2>1, <3>1, IndexOfNamed
    <3> HIDE DEF k
    <3>3. k \in Nat /\ k \in Slot /\ k \in 0..MaxVifs
      BY <3>2, MaxVifsType DEF Occupied, Slot
    <3>4. Truncated(k) = k
      BY <3>3, NotTruncated
    <3>5. \A j \in Slot : j # k => file'.rows[j] = Now[j]
      BY <2>1, <3>1, <3>3, <3>4 DEF Deleted, Table
    <3> QED BY <3>2, <3>5
  <2>3. CASE Traffic \/ UNCHANGED vars
    BY <2>1, <2>3 DEF Traffic, vars, Listing, Now
  <2>4. ASSUME NEW u \in Thread, Accept(u) \/ Vifs(u) \/ Act(u), ~DelVifByName(t)
        PROVE  FALSE
    <3>1. u = t
      BY OneThread DEF OneThread
    <3>2. ~Accept(u) /\ ~Vifs(u)
      <4>1. call[t].at = "idle" /\ call[t] \in Call
        BY <1>1 DEF SInv, CallCurrent, TInv, TypeOK
      <4> QED BY <3>1, <4>1 DEF Accept, Add, AddAt, RemoveByIndex, RemoveByName, List, Take, Vifs,
                  BeginVifs, ContinueVifs, CallStep, Hit, Miss, Parse, ParseRaises, StoreResult,
                  StampHash, LookupReturns, RefreshReturns, VifsReturns, Respond, Return
    <3>3. ~AddVif(u) /\ ~AddFails(u) /\ ~DelVifByIndex(u) /\ ~AssignNames(u)
      BY <3>1 DEF AddVif, AddFails, DelVifByIndex, AssignNames
    <3>4. ~RemoveFails(u)
      BY <3>1 DEF RemoveFails, Fail, Now
    <3> QED BY <2>4, <3>1, <3>2, <3>3, <3>4 DEF Act
  <2> QED BY <1>1, <2>2, <2>3, <2>4 DEF Next
<1>2. TInv /\ AInv /\ SInv /\ [Next]_vars => RemovesNamed
  BY <1>1
<1> QED BY <1>2, SInvAlways, PTL DEF Spec, RemovalHitsNamed
===============================================================================
