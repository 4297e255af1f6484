--------------------------- MODULE VifManagerProofs ---------------------------
(***************************************************************************)
(* Proofs about VifManager, for every set of devices, threads, requests    *)
(* and configurations and every size of the kernel's table.                *)
(***************************************************************************)
EXTENDS VifManager, VifTableProofs

(***************************************************************************)
(* Types.                                                                  *)
(***************************************************************************)
\* Within a call the first read is a listing, and so is a parse not stored yet;
\* a request to add names a device.
Typed(t) ==
    /\ call[t].at # "idle" => call[t].seen \in Listing
    /\ call[t].at = "store" => call[t].parsed \in Listing
    /\ req[t].op = "add" => req[t].dev \in Dev

TInv == TypeOK /\ \A t \in Thread : Typed(t)

LEMMA EmptyTableType == EmptyTable \in Table
BY DEF EmptyTable, Table

LEMMA NoReqType == NoReq \in Request
BY EmptyTableType DEF NoReq, Asking, Request, Places

LEMMA NoCallType == NoCall \in Call
BY DEF NoCall, Call, Steps

LEMMA AddedType ==
    ASSUME NEW tbl \in Table, NEW i, CanAdd(tbl, i), NEW d \in Dev
    PROVE  Added(tbl, i, d) \in Table
BY DEF Table, Added, CanAdd

LEMMA DeletedType ==
    ASSUME NEW tbl \in Table, NEW i
    PROVE  Deleted(tbl, i) \in Table
BY DEF Table, Deleted

LEMMA ConfiguredType ==
    ASSUME NEW c \in Configs
    PROVE  Configured(c) \in Table
<1>1. c \in Seq(Dev) /\ Len(c) \in Nat
  BY VifManagerAssumption
<1>2. ASSUME NEW i \in Slot, i < Len(c) PROVE c[i + 1] \in Dev
  BY <1>1, <1>2, SlotType
<1> QED BY <1>2 DEF Configured, Table

LEMMA TInvInit == Init => TInv
<1> SUFFICES ASSUME NEW c \in Configs,
                    file = [rows |-> Configured(c), pkts |-> 0],
                    cache = [last_hash |-> file, result |-> file],
                    call = [t \in Thread |-> NoCall],
                    names = NameList(file.rows),
                    req = [t \in Thread |-> NoReq],
                    appendOnly = \A i, j \in DOMAIN c : c[i] = c[j] => i = j
             PROVE  TInv
  BY DEF Init
<1>1. file \in Listing
  BY ConfiguredType, VifManagerAssumption DEF Listing
<1>2. file.rows \in Table
  BY ConfiguredType
<1>3. names \in Seq(Dev)
  BY <1>2, NameListType
<1>4. TypeOK
  BY <1>1, <1>3, NoReqType, NoCallType DEF TypeOK
<1>5. \A t \in Thread : Typed(t)
  BY DEF Typed, NoCall, NoReq, Asking
<1> QED BY <1>4, <1>5 DEF TInv

\* What a step of a thread's call of the cached reader does to the types.
LEMMA TInvVifs ==
    ASSUME TInv, NEW t \in Thread, ReadFile(t) \/ CallStep(t) \/ Return(t)
    PROVE  /\ file' = file
           /\ cache' \in [last_hash : Listing, result : Listing]
           /\ call' \in [Thread -> Call]
           /\ \A u \in Thread : /\ call'[u].at # "idle" => call'[u].seen \in Listing
                                /\ call'[u].at = "store" => call'[u].parsed \in Listing
<1> DEFINE c == call[t]
<1> DEFINE Good(x) == /\ x \in Call
                      /\ x.at # "idle" => x.seen \in Listing
                      /\ x.at = "store" => x.parsed \in Listing
<1>1. call \in [Thread -> Call] /\ \A u \in Thread : Good(call[u])
  BY DEF TInv, TypeOK, Typed
<1>2. SUFFICES /\ file' = file
               /\ cache' \in [last_hash : Listing, result : Listing]
               /\ \E x : Good(x) /\ call' = [call EXCEPT ![t] = x]
  <2>1. PICK x : Good(x) /\ call' = [call EXCEPT ![t] = x]
    OBVIOUS
  <2>2. \A u \in Thread : Good(call'[u])
    <3> HIDE DEF Good
    <3> QED BY <1>1, <2>1
  <2>3. call' \in [Thread -> Call]
    BY <1>1, <2>1
  <2> QED BY <2>2, <2>3
<1>3. cache \in [last_hash : Listing, result : Listing] /\ file \in Listing
  BY DEF TInv, TypeOK
<1>4. CASE ReadFile(t)
  <2>1. Good([at |-> "compare", seen |-> file, parsed |-> None])
    BY <1>3 DEF Call, Steps
  <2> HIDE DEF Good
  <2> QED BY <1>3, <1>4, <2>1 DEF ReadFile
<1>5. CASE Hit(t) \/ Miss(t)
  <2>1. PICK a \in {"return", "parse"} :
            call' = [call EXCEPT ![t] = [call[t] EXCEPT !.at = a]]
    BY <1>5 DEF Hit, Miss
  <2>2. call[t].at = "compare"
    BY <1>5 DEF Hit, Miss
  <2>3. Good([call[t] EXCEPT !.at = a])
    BY <1>1, <2>2 DEF Call, Steps
  <2> HIDE DEF Good
  <2> QED BY <1>3, <1>5, <2>1, <2>3 DEF Hit, Miss
<1>6. CASE Parse(t)
  <2>1. Good([call[t] EXCEPT !.at = "store", !.parsed = file])
    BY <1>1, <1>3, <1>6 DEF Call, Steps, Parse
  <2> HIDE DEF Good
  <2> QED BY <1>3, <1>6, <2>1 DEF Parse
<1>7. CASE ParseRaises(t)
  <2>1. Good(NoCall)
    BY NoCallType DEF NoCall
  <2> HIDE DEF Good
  <2> QED BY <1>3, <1>7, <2>1 DEF ParseRaises
<1>8. CASE StoreResult(t)
  <2>1. Good([call[t] EXCEPT !.at = "stamp"])
    BY <1>1, <1>8 DEF Call, Steps, StoreResult
  <2>2. cache' \in [last_hash : Listing, result : Listing]
    BY <1>1, <1>3, <1>8 DEF StoreResult
  <2> HIDE DEF Good
  <2> QED BY <1>3, <1>8, <2>1, <2>2 DEF StoreResult
<1>9. CASE StampHash(t)
  <2>1. Good([call[t] EXCEPT !.at = "return"])
    BY <1>1, <1>9 DEF Call, Steps, StampHash
  <2>2. cache' \in [last_hash : Listing, result : Listing]
    BY <1>1, <1>3, <1>9 DEF StampHash
  <2> HIDE DEF Good
  <2> QED BY <1>3, <1>9, <2>1, <2>2 DEF StampHash
<1>10. CASE Return(t)
  <2>1. Good(NoCall)
    BY NoCallType DEF NoCall
  <2> HIDE DEF Good
  <2> QED BY <1>3, <1>10, <2>1 DEF Return
<1> QED BY <1>4, <1>5, <1>6, <1>7, <1>8, <1>9, <1>10 DEF CallStep

\* A request the thread t may serve.
Fine(r) == r \in Request /\ (r.op = "add" => r.dev \in Dev)

\* A step that replaces the request of t and leaves the cached reader alone.
LEMMA TInvRequest ==
    ASSUME TInv, NEW t \in Thread, NEW r, Fine(r), req' = [req EXCEPT ![t] = r],
           UNCHANGED <<cache, call>>, file' \in Listing, names' \in Seq(Dev),
           appendOnly' \in BOOLEAN
    PROVE  TInv'
<1>1. req' \in [Thread -> Request]
  BY DEF TInv, TypeOK, Fine
<1>2. TypeOK'
  BY <1>1 DEF TInv, TypeOK
<1>3. ASSUME NEW u \in Thread PROVE Typed(u)'
  <2>1. req'[u] = IF u = t THEN r ELSE req[u]
    BY DEF TInv, TypeOK
  <2> QED BY <2>1 DEF TInv, Typed, Fine
<1> QED BY <1>2, <1>3 DEF TInv

LEMMA FineRequests ==
    ASSUME TInv, NEW t \in Thread
    PROVE  /\ Fine(NoReq)
           /\ \A a \in Places, tbl \in Table : Fine([req[t] EXCEPT !.at = a, !.table = tbl])
           /\ \A a \in Places : Fine([req[t] EXCEPT !.at = a])
           /\ \A op \in Operations, a \in Places, d \in Dev, i \in Index \cup {NoIndex} :
                Fine(Asking(op, a, d, i))
<1>1. req[t] \in Request /\ (req[t].op = "add" => req[t].dev \in Dev)
  BY DEF TInv, TypeOK, Typed
<1>2. Fine(NoReq)
  BY NoReqType DEF Fine, NoReq, Asking
<1>3. ASSUME NEW a \in Places, NEW tbl \in Table
      PROVE  Fine([req[t] EXCEPT !.at = a, !.table = tbl])
  BY <1>1 DEF Fine, Request
<1>4. ASSUME NEW a \in Places PROVE Fine([req[t] EXCEPT !.at = a])
  BY <1>1 DEF Fine, Request
<1>5. ASSUME NEW op \in Operations, NEW a \in Places, NEW d \in Dev,
             NEW i \in Index \cup {NoIndex}
      PROVE  Fine(Asking(op, a, d, i))
  BY EmptyTableType DEF Fine, Request, Asking
<1> QED BY <1>2, <1>3, <1>4, <1>5

LEMMA TInvAccept == ASSUME TInv, NEW t \in Thread, Accept(t) PROVE TInv'
<1>0. /\ file \in Listing /\ names \in Seq(Dev) /\ appendOnly \in BOOLEAN
      /\ {"lookup", "syscall", "respond"} \subseteq Places
  BY DEF TInv, TypeOK, Places
<1>1. ASSUME NEW op, NEW a, NEW d, NEW i, Fine(Asking(op, a, d, i)), Take(t, op, a, d, i)
      PROVE  TInv'
  BY <1>0, <1>1, TInvRequest DEF Take
<1>2. ASSUME NEW d \in Dev, NEW i \in Index \cup {NoIndex}, Add(t, d, i) \/ AddAt(t, d, i)
      PROVE  TInv'
  BY <1>0, <1>1, <1>2, FineRequests DEF Add, AddAt, Operations
<1>3. ASSUME NEW i \in Index, RemoveByIndex(t, i) PROVE TInv'
  <2>1. Fine(Asking("removeIndex", "syscall", NoDev, i))
    BY <1>0, EmptyTableType DEF Fine, Request, Operations, Asking
  <2> QED BY <1>1, <1>3, <2>1 DEF RemoveByIndex
<1>4. ASSUME NEW d \in Dev, RemoveByName(t, d) PROVE TInv'
  <2>1. Fine(Asking("removeName", "lookup", d, NoIndex))
    BY <1>0, FineRequests DEF Operations
  <2> QED BY <1>1, <1>4, <2>1 DEF RemoveByName
<1>5. CASE List(t)
  <2>1. Fine(Asking("list", "respond", NoDev, NoIndex))
    BY <1>0, EmptyTableType DEF Fine, Request, Operations, Asking
  <2> QED BY <1>1, <1>5, <2>1 DEF List
<1> QED BY <1>2, <1>3, <1>4, <1>5 DEF Accept

LEMMA TInvListing == ASSUME TInv, NEW t \in Thread, Vifs(t) PROVE TInv'
<1>1. ASSUME ReadFile(t) \/ CallStep(t) \/ Return(t), UNCHANGED <<names, appendOnly>>,
             NEW r, Fine(r), req' = [req EXCEPT ![t] = r]
      PROVE  TInv'
  <2>1. /\ file' = file
        /\ cache' \in [last_hash : Listing, result : Listing]
        /\ call' \in [Thread -> Call]
        /\ \A u \in Thread : /\ call'[u].at # "idle" => call'[u].seen \in Listing
                             /\ call'[u].at = "store" => call'[u].parsed \in Listing
    BY <1>1, TInvVifs
  <2>2. req' \in [Thread -> Request]
    BY <1>1 DEF TInv, TypeOK, Fine
  <2>3. TypeOK'
    BY <1>1, <2>1, <2>2 DEF TInv, TypeOK
  <2>4. ASSUME NEW u \in Thread PROVE Typed(u)'
    <3>1. req'[u] = IF u = t THEN r ELSE req[u]
      BY <1>1 DEF TInv, TypeOK
    <3> QED BY <1>1, <2>1, <3>1 DEF TInv, Typed, Fine
  <2> QED BY <2>3, <2>4 DEF TInv
<1>2. req = [req EXCEPT ![t] = req[t]] /\ Fine(req[t])
  BY DEF TInv, TypeOK, Typed, Fine
<1>3. CASE BeginVifs(t) \/ ContinueVifs(t)
  BY <1>1, <1>2, <1>3 DEF BeginVifs, ContinueVifs
<1>4. CASE LookupReturns(t) \/ RefreshReturns(t)
  <2>1. PICK next \in {"syscall", "assign"}, here \in Places : VifsReturns(t, here, next)
    BY <1>4 DEF LookupReturns, RefreshReturns, Places
  <2>2. Fine([req[t] EXCEPT !.at = next, !.table = cache.result.rows])
    BY FineRequests DEF TInv, TypeOK, Listing, Places
  <2> QED BY <1>1, <2>1, <2>2 DEF VifsReturns
<1>5. CASE Respond(t)
  BY <1>1, <1>5, FineRequests DEF Respond
<1> QED BY <1>3, <1>4, <1>5 DEF Vifs

LEMMA TInvAct == ASSUME TInv, NEW t \in Thread, Act(t) PROVE TInv'
<1>0. /\ file \in Listing /\ names \in Seq(Dev) /\ appendOnly \in BOOLEAN
      /\ {"refresh", "respond"} \subseteq Places
      /\ req[t].table \in Table
      /\ file.rows \in Table
  BY DEF TInv, TypeOK, Places, Request, Listing
<1>1. CASE AddVif(t)
  <2>1. req[t].dev \in Dev
    BY <1>1 DEF AddVif, TInv, Typed
  <2>2. Added(file.rows, McastIndex(req[t]), req[t].dev) \in Table
    BY <1>0, <1>1, <2>1, AddedType DEF AddVif
  <2>3. file' \in Listing
    BY <1>0, <1>1, <2>2 DEF AddVif, Listing
  <2>4. Fine([req[t] EXCEPT !.at = "refresh", !.table = EmptyTable])
    BY <1>0, FineRequests, EmptyTableType
  <2> QED BY <1>0, <1>1, <2>3, <2>4, TInvRequest DEF AddVif
<1>2. CASE AddFails(t) \/ RemoveFails(t)
  <2>1. Fail(t)
    BY <1>2 DEF AddFails, RemoveFails
  <2> QED BY <1>0, <2>1, FineRequests, TInvRequest DEF Fail
<1>3. CASE DelVifByIndex(t)
  <2>1. file' \in Listing
    BY <1>0, <1>3, DeletedType DEF DelVifByIndex, Listing
  <2>2. Fine([req[t] EXCEPT !.at = "refresh"])
    BY <1>0, FineRequests
  <2> QED BY <1>0, <1>3, <2>1, <2>2, TInvRequest DEF DelVifByIndex
<1>4. CASE DelVifByName(t)
  <2>1. file' \in Listing
    BY <1>0, <1>4, DeletedType DEF DelVifByName, Listing
  <2> QED BY <1>0, <1>4, <2>1, FineRequests, TInvRequest DEF DelVifByName
<1>5. CASE AssignNames(t)
  <2>1. names' \in Seq(Dev)
    BY <1>0, <1>5, NameListType DEF AssignNames
  <2>2. /\ Fine([req[t] EXCEPT !.at = "respond", !.table = EmptyTable])
        /\ Fine(NoReq)
    BY <1>0, FineRequests, EmptyTableType
  <2>3. PICK r : Fine(r) /\ req' = [req EXCEPT ![t] = r]
    BY <1>5, <2>2 DEF AssignNames
  <2> QED BY <1>0, <1>5, <2>1, <2>3, TInvRequest DEF AssignNames
<1> QED BY <1>1, <1>2, <1>3, <1>4, <1>5 DEF Act

LEMMA TInvNext == TInv /\ [Next]_vars => TInv'
<1> SUFFICES ASSUME TInv, [Next]_vars PROVE TInv'
  OBVIOUS
<1>1. CASE Traffic
  <2>1. file' \in Listing
    BY <1>1, VifManagerAssumption DEF Traffic, TInv, TypeOK, Listing
  <2> QED BY <1>1, <2>1 DEF Traffic, TInv, TypeOK, Typed
<1>2. CASE UNCHANGED vars
  BY <1>2 DEF vars, TInv, TypeOK, Typed
<1> QED BY <1>1, <1>2, TInvAccept, TInvListing, TInvAct DEF Next

LEMMA TInvAlways == Spec => []TInv
BY TInvInit, TInvNext, PTL DEF Spec

\* Every reachable state of the manager is well formed; in particular the name
\* list only ever holds devices, whatever holes the table has.
THEOREM TypeCorrect == Spec => []TypeOK
<1>1. TInv => TypeOK
  BY DEF TInv
<1> QED BY TInvAlways, <1>1, PTL

(***************************************************************************)
(* While VIFs are only appended, the kernel's table is dense and distinct, *)
(* and every listing that anyone still holds is an older view of it: the   *)
(* cached result, a parse not stored yet, the table a request remembers.   *)
(* That is what makes the unlocked check-then-add safe: an index taken     *)
(* from an older view is free only if the view is not older after all.     *)
(***************************************************************************)
Older(old, tbl) == Dense(old) /\ \A i \in Occupied(old) : old[i] = tbl[i]

Views(t) ==
    /\ call[t].at = "store" => Older(call[t].parsed.rows, file.rows)
    /\ Older(req[t].table, file.rows)

NamesInPlace == \A p \in DOMAIN names : p - 1 \in Slot /\ names[p] = file.rows[p - 1]

AInv ==
    appendOnly =>
        /\ Dense(file.rows) /\ Distinct(file.rows)
        /\ Older(cache.result.rows, file.rows)
        /\ \A t \in Thread : Views(t)
        /\ NamesInPlace

LEMMA OlderDistinct ==
    ASSUME NEW tbl, Distinct(tbl), NEW old, Older(old, tbl)
    PROVE  Distinct(old)
BY DEF Distinct, Older, Occupied

LEMMA EmptyOlder == ASSUME NEW tbl PROVE Older(EmptyTable, tbl)
BY DEF Older, Dense, EmptyTable, Occupied

LEMMA OlderSelf == ASSUME NEW tbl, Dense(tbl) PROVE Older(tbl, tbl)
BY DEF Older

\* The heart of the argument: an add that passed its checks against an older
\* view, and whose slot the kernel finds free, appends.
LEMMA CheckedAddAppends ==
    ASSUME NEW tbl \in Table, Dense(tbl), Distinct(tbl),
           NEW old \in Table, Older(old, tbl),
           NEW d \in Dev, d \notin Names(old),
           CanAdd(tbl, Cardinality(Names(old)))
    PROVE  \E n \in Slot :
              /\ Occupied(tbl) = 0..(n - 1)
              /\ tbl[n] = NoDev
              /\ d \notin Names(tbl)
              /\ Added(tbl, Cardinality(Names(old)), d) = [tbl EXCEPT ![n] = d]
<1>1. PICK n \in 0..MaxVifs : Occupied(tbl) = 0..(n - 1)
  BY DenseSize
<1>2. PICK m \in 0..MaxVifs : Occupied(old) = 0..(m - 1)
  BY DenseSize DEF Older
<1>3. Cardinality(Names(old)) = m
  BY <1>2, OlderDistinct, RegularListing
<1>4. MaxVifs \in Nat /\ m \in Nat /\ n \in Nat
  BY MaxVifsType
<1>5. Truncated(m) = m
  BY NotTruncated
<1>6. m \in Slot /\ tbl[m] = NoDev
  BY <1>3, <1>5 DEF CanAdd
<1>7. m >= n
  <2>1. m \notin Occupied(tbl)
    BY <1>6 DEF Occupied
  <2> QED BY <1>1, <1>4, <2>1
<1>8. m <= n
  <2> SUFFICES ASSUME m > n PROVE FALSE
    BY <1>4
  <2>1. m - 1 \in Occupied(old) /\ m - 1 \notin Occupied(tbl)
    BY <1>1, <1>2, <1>4
  <2> QED BY <2>1 DEF Older, Occupied
<1>9. m = n
  BY <1>4, <1>7, <1>8
<1>10. d \notin Names(tbl)
  <2>1. \A i \in Occupied(tbl) : tbl[i] = old[i] /\ i \in Occupied(old)
    BY <1>1, <1>2, <1>9 DEF Older
  <2> QED BY <2>1 DEF Names
<1>11. Added(tbl, Cardinality(Names(old)), d) = [tbl EXCEPT ![n] = d]
  BY <1>3, <1>5, <1>9 DEF Added
<1> QED BY <1>1, <1>6, <1>9, <1>10, <1>11

\* Appending keeps the table dense and distinct, and every older view one.
LEMMA AppendKeeps ==
    ASSUME NEW tbl \in Table, Distinct(tbl), NEW n \in Slot,
           Occupied(tbl) = 0..(n - 1), tbl[n] = NoDev,
           NEW d \in Dev, d \notin Names(tbl),
           NEW new, new = [tbl EXCEPT ![n] = d]
    PROVE  /\ Dense(new) /\ Distinct(new)
           /\ \A i \in Occupied(tbl) : new[i] = tbl[i]
           /\ \A old : Older(old, tbl) => Older(old, new)
<1>1. \A i \in Slot : new[i] = IF i = n THEN d ELSE tbl[i]
  BY DEF Table
<1>2. d # NoDev /\ n \in Nat
  BY VifTableAssumption, SlotType
<1>3. \A i \in Slot : i \in Occupied(new) <=> i \in Occupied(tbl) \/ i = n
  BY <1>1, <1>2 DEF Occupied
<1>4. Dense(new)
  <2> SUFFICES ASSUME NEW i \in Occupied(new), NEW j \in Slot, j < i
               PROVE  new[j] # NoDev
    BY DEF Dense
  <2>1. i \in Slot /\ i \in Nat /\ j \in Nat
    BY SlotType DEF Occupied
  <2>2. i <= n
    <3>1. i \in 0..(n - 1) \/ i = n
      BY <1>3, <2>1
    <3> QED BY <1>2, <2>1, <3>1
  <2>3. j \in Occupied(tbl)
    BY <1>2, <2>1, <2>2
  <2> QED BY <1>3, <2>3 DEF Occupied
<1>5. Distinct(new)
  BY <1>1, <1>3 DEF Distinct, Occupied, Names
<1>6. \A i \in Occupied(tbl) : new[i] = tbl[i]
  BY <1>1 DEF Occupied
<1>7. ASSUME NEW old, Older(old, tbl) PROVE Older(old, new)
  <2>1. \A i \in Occupied(old) : i \in Occupied(tbl)
    BY <1>7 DEF Older, Occupied
  <2> QED BY <1>6, <1>7, <2>1 DEF Older
<1> QED BY <1>4, <1>5, <1>6, <1>7

\* The name list of an older view has every name in its place.
LEMMA OlderNames ==
    ASSUME NEW tbl \in Table, Distinct(tbl), NEW old \in Table, Older(old, tbl),
           NEW p \in DOMAIN NameList(old)
    PROVE  p - 1 \in Slot /\ NameList(old)[p] = tbl[p - 1]
<1>1. PICK m \in 0..MaxVifs : Occupied(old) = 0..(m - 1)
  BY DenseSize DEF Older
<1>2. NameList(old) = [q \in 1..m |-> old[q - 1]]
  BY <1>1, OlderDistinct, RegularListing
<1>3. p \in 1..m /\ p - 1 \in 0..(m - 1)
  BY <1>2
<1>4. p - 1 \in Occupied(old)
  BY <1>1, <1>3
<1> QED BY <1>2, <1>3, <1>4 DEF Older, Occupied

LEMMA AInvInit == Init => AInv
<1> SUFFICES ASSUME NEW c \in Configs,
                    file = [rows |-> Configured(c), pkts |-> 0],
                    cache = [last_hash |-> file, result |-> file],
                    call = [t \in Thread |-> NoCall],
                    names = NameList(file.rows),
                    req = [t \in Thread |-> NoReq],
                    \A i, j \in DOMAIN c : c[i] = c[j] => i = j
             PROVE  AInv
  BY DEF Init, AInv
<1> DEFINE tbl == Configured(c)
<1>1. c \in Seq(Dev) /\ Len(c) \in Nat /\ Len(c) <= MaxVifs /\ DOMAIN c = 1..Len(c)
  BY VifManagerAssumption
<1>2. tbl \in Table /\ file.rows = tbl /\ cache.result.rows = tbl
  BY ConfiguredType
<1>3. ASSUME NEW i \in Slot
      PROVE  /\ i \in Nat
             /\ i < Len(c) => tbl[i] = c[i + 1] /\ tbl[i] # NoDev /\ i + 1 \in DOMAIN c
             /\ i >= Len(c) => tbl[i] = NoDev
  <2>1. i \in Nat
    BY SlotType
  <2>2. i < Len(c) => tbl[i] = c[i + 1] /\ i + 1 \in DOMAIN c
    BY <1>1, <2>1 DEF Configured
  <2>3. i < Len(c) => c[i + 1] \in Dev
    BY <1>1, <2>1
  <2>4. i >= Len(c) => tbl[i] = NoDev
    BY <1>1, <2>1 DEF Configured
  <2> QED BY <2>1, <2>2, <2>3, <2>4, VifTableAssumption
<1>4. Dense(tbl)
  <2> SUFFICES ASSUME NEW i \in Occupied(tbl), NEW j \in Slot, j < i PROVE tbl[j] # NoDev
    BY DEF Dense
  <2>1. i \in Slot /\ i \in Nat /\ j \in Nat /\ i < Len(c)
    BY <1>1, <1>3 DEF Occupied
  <2>2. j < Len(c)
    BY <1>1, <2>1
  <2> QED BY <1>3, <2>2
<1>5. Distinct(tbl)
  <2> SUFFICES ASSUME NEW i \in Occupied(tbl), NEW j \in Occupied(tbl), tbl[i] = tbl[j]
               PROVE  i = j
    BY DEF Distinct
  <2>1. i \in Slot /\ j \in Slot /\ i \in Nat /\ j \in Nat /\ i < Len(c) /\ j < Len(c)
    BY <1>1, <1>3 DEF Occupied
  <2>2. i + 1 = j + 1
    BY <1>3, <2>1
  <2> QED BY <2>1, <2>2
<1>6. NamesInPlace
  <2>1. Older(tbl, tbl) /\ names = NameList(tbl)
    BY <1>2, <1>4, OlderSelf
  <2> HIDE DEF tbl
  <2> QED BY <1>2, <1>5, <2>1, OlderNames DEF NamesInPlace
<1>7. \A t \in Thread : Views(t)
  BY EmptyOlder DEF Views, NoCall, NoReq, Asking
<1> QED BY <1>2, <1>4, <1>5, <1>6, <1>7, OlderSelf DEF AInv

\* A step that changes neither the table nor the name list, and after which
\* every listing held is an older view, keeps the invariant.
LEMMA AInvSameRows ==
    ASSUME TInv, AInv, appendOnly' => appendOnly, file'.rows = file.rows, names' = names,
           Older(cache.result.rows, file.rows) => Older(cache'.result.rows, file.rows),
           appendOnly => \A t \in Thread : Views(t)'
    PROVE  AInv'
BY DEF AInv, NamesInPlace

LEMMA AInvAccept == ASSUME TInv, AInv, NEW t \in Thread, Accept(t) PROVE AInv'
<1>1. PICK op, a, d, i : Take(t, op, a, d, i)
  BY DEF Accept, Add, AddAt, RemoveByIndex, RemoveByName, List
<1>2. req \in [Thread -> Request]
  BY DEF TInv, TypeOK
<1>3. \A u \in Thread : req'[u].table = IF u = t THEN EmptyTable ELSE req[u].table
  BY <1>1, <1>2 DEF Take, Asking
<1>4. appendOnly => \A u \in Thread : Views(u)'
  BY <1>1, <1>3, EmptyOlder DEF AInv, Views, Take
<1> QED BY <1>1, <1>4, AInvSameRows DEF Take

LEMMA AInvListing == ASSUME TInv, AInv, NEW t \in Thread, Vifs(t) PROVE AInv'
<1> DEFINE tbl == file.rows
<1>0. /\ call \in [Thread -> Call] /\ req \in [Thread -> Request]
      /\ file' = file /\ UNCHANGED <<names, appendOnly>>
  <2>1. file' = file
    BY TInvVifs DEF Vifs, BeginVifs, ContinueVifs, LookupReturns, RefreshReturns,
                    VifsReturns, Respond
  <2> QED BY <2>1 DEF TInv, TypeOK, Vifs, BeginVifs, ContinueVifs, LookupReturns,
                      RefreshReturns, VifsReturns, Respond
<1> SUFFICES ASSUME appendOnly
             PROVE  /\ Older(cache'.result.rows, tbl)
                    /\ \A u \in Thread : Views(u)'
  BY <1>0, AInvSameRows DEF AInv
<1>1. /\ Dense(tbl) /\ Older(tbl, tbl) /\ Older(cache.result.rows, tbl)
      /\ \A u \in Thread : Views(u)
  BY OlderSelf DEF AInv
\* What the step does to the views held in the cached reader.
<1>2. ASSUME ReadFile(t) \/ CallStep(t) \/ Return(t)
      PROVE  /\ Older(cache'.result.rows, tbl)
             /\ \A u \in Thread : call'[u].at = "store" => Older(call'[u].parsed.rows, tbl)
  <2>0. \A u \in Thread : call[u].at = "store" => Older(call[u].parsed.rows, tbl)
    BY <1>1 DEF Views
  <2>1. CASE Parse(t)
    <3>1. /\ call'[t].parsed = file
          /\ \A u \in Thread \ {t} : call'[u] = call[u]
          /\ cache' = cache
      BY <1>0, <2>1 DEF Parse, Call
    <3> QED BY <1>1, <2>0, <3>1
  <2>2. CASE StoreResult(t)
    <3>1. /\ cache'.result = call[t].parsed /\ call[t].at = "store"
          /\ call'[t].at = "stamp"
          /\ \A u \in Thread \ {t} : call'[u] = call[u]
      BY <1>0, <2>2 DEF StoreResult, Call, TInv, TypeOK
    <3> QED BY <2>0, <3>1
  <2>3. CASE ReadFile(t) \/ Hit(t) \/ Miss(t) \/ ParseRaises(t) \/ StampHash(t) \/ Return(t)
    <3>1. /\ cache'.result = cache.result
          /\ call'[t].at # "store"
          /\ \A u \in Thread \ {t} : call'[u] = call[u]
      BY <1>0, <2>3 DEF ReadFile, Hit, Miss, ParseRaises, StampHash, Return, NoCall, Call,
                        TInv, TypeOK
    <3> QED BY <1>1, <2>0, <3>1
  <2> QED BY <1>2, <2>1, <2>2, <2>3 DEF CallStep
<1>3. ReadFile(t) \/ CallStep(t) \/ Return(t)
  BY DEF Vifs, BeginVifs, ContinueVifs, LookupReturns, RefreshReturns, VifsReturns, Respond
\* What it does to the tables that requests remember.
<1>4. \A u \in Thread : Older(req'[u].table, tbl)
  <2>0. \A u \in Thread : Older(req[u].table, tbl)
    BY <1>1 DEF Views
  <2>1. CASE BeginVifs(t) \/ ContinueVifs(t)
    BY <2>0, <2>1 DEF BeginVifs, ContinueVifs
  <2>2. CASE LookupReturns(t) \/ RefreshReturns(t)
    <3>1. PICK next : req' = [req EXCEPT ![t] = [@ EXCEPT !.at = next,
                                                          !.table = cache.result.rows]]
      BY <2>2 DEF LookupReturns, RefreshReturns, VifsReturns
    <3>2. /\ req'[t].table = cache.result.rows
          /\ \A u \in Thread \ {t} : req'[u] = req[u]
      BY <1>0, <3>1 DEF Request
    <3> QED BY <1>1, <2>0, <3>2
  <2>3. CASE Respond(t)
    <3>1. /\ req'[t].table = EmptyTable
          /\ \A u \in Thread \ {t} : req'[u] = req[u]
      BY <1>0, <2>3 DEF Respond, NoReq, Asking
    <3> QED BY <2>0, <3>1, EmptyOlder
  <2> QED BY <2>1, <2>2, <2>3 DEF Vifs
<1> QED BY <1>0, <1>2, <1>3, <1>4 DEF Views

LEMMA AInvAct == ASSUME TInv, AInv, NEW t \in Thread, Act(t) PROVE AInv'
<1> DEFINE tbl == file.rows
<1> DEFINE r == req[t]
<1>0. /\ req \in [Thread -> Request] /\ r \in Request /\ tbl \in Table /\ file \in Listing
      /\ r.table \in Table
  BY DEF TInv, TypeOK, Request, Listing
<1>1. CASE AddVif(t)
  <2> SUFFICES ASSUME appendOnly, Unindexed(r.idx) PROVE AInv'
    BY <1>1 DEF AInv, AddVif
  <2>1. /\ Dense(tbl) /\ Distinct(tbl) /\ Older(r.table, tbl)
        /\ Older(cache.result.rows, tbl) /\ NamesInPlace
        /\ \A u \in Thread : Views(u)
    BY DEF AInv, Views
  <2>2. r.dev \in Dev /\ r.dev \notin Names(r.table) /\ CanAdd(tbl, Cardinality(Names(r.table)))
    BY <1>1 DEF AddVif, InUse, McastIndex, TInv, Typed
  <2>3. PICK n \in Slot : /\ Occupied(tbl) = 0..(n - 1)
                          /\ tbl[n] = NoDev
                          /\ r.dev \notin Names(tbl)
                          /\ Added(tbl, Cardinality(Names(r.table)), r.dev)
                                = [tbl EXCEPT ![n] = r.dev]
    <3> DEFINE old == r.table  d == r.dev
    <3>1. /\ tbl \in Table /\ Dense(tbl) /\ Distinct(tbl)
          /\ old \in Table /\ Older(old, tbl)
          /\ d \in Dev /\ d \notin Names(old)
          /\ CanAdd(tbl, Cardinality(Names(old)))
      BY <1>0, <2>1, <2>2
    <3> HIDE DEF tbl, r, old, d
    <3>2. \E n \in Slot : /\ Occupied(tbl) = 0..(n - 1)
                          /\ tbl[n] = NoDev
                          /\ d \notin Names(tbl)
                          /\ Added(tbl, Cardinality(Names(old)), d) = [tbl EXCEPT ![n] = d]
      BY <3>1, CheckedAddAppends
    <3> QED BY <3>2 DEF old, d
  <2>4. file'.rows = [tbl EXCEPT ![n] = r.dev]
    BY <1>0, <1>1, <2>3 DEF AddVif, McastIndex, Listing
  <2>5. /\ Dense(file'.rows) /\ Distinct(file'.rows)
        /\ \A i \in Occupied(tbl) : file'.rows[i] = tbl[i]
        /\ \A old : Older(old, tbl) => Older(old, file'.rows)
    BY <1>0, <2>1, <2>2, <2>3, <2>4, AppendKeeps
  <2>6. \A u \in Thread : Views(u)'
    <3>1. /\ req'[t].table = EmptyTable
          /\ \A u \in Thread \ {t} : req'[u] = req[u]
          /\ call' = call
      BY <1>0, <1>1 DEF AddVif, Request
    <3> QED BY <2>1, <2>5, <3>1, EmptyOlder DEF Views
  <2>7. NamesInPlace'
    <3>1. names' = names
      BY <1>1 DEF AddVif
    <3>2. \A p \in DOMAIN names : p - 1 \in Occupied(tbl)
      <4>1. \A p \in DOMAIN names : names[p] \in Dev
        BY DEF TInv, TypeOK
      <4> QED BY <2>1, <4>1, VifTableAssumption DEF NamesInPlace, Occupied
    <3> QED BY <2>1, <2>5, <3>1, <3>2 DEF NamesInPlace
  <2>8. cache' = cache
    BY <1>1 DEF AddVif
  <2> QED BY <2>1, <2>5, <2>6, <2>7, <2>8 DEF AInv
<1>2. CASE AddFails(t) \/ RemoveFails(t)
  <2>1. Fail(t)
    BY <1>2 DEF AddFails, RemoveFails
  <2>2. /\ req'[t].table = EmptyTable
        /\ \A u \in Thread \ {t} : req'[u] = req[u]
    BY <1>0, <2>1 DEF Fail, NoReq, Asking
  <2>3. appendOnly => \A u \in Thread : Views(u)'
    BY <2>1, <2>2, EmptyOlder DEF AInv, Views, Fail
  <2> QED BY <2>1, <2>3, AInvSameRows DEF Fail
<1>3. CASE DelVifByIndex(t) \/ DelVifByName(t)
  BY <1>3 DEF AInv, DelVifByIndex, DelVifByName
<1>4. CASE AssignNames(t)
  <2> SUFFICES ASSUME appendOnly PROVE AInv'
    BY <1>4 DEF AInv, AssignNames
  <2>1. /\ Dense(tbl) /\ Distinct(tbl) /\ Older(r.table, tbl)
        /\ Older(cache.result.rows, tbl)
        /\ \A u \in Thread : Views(u)
    BY DEF AInv, Views
  <2>2. NamesInPlace'
    <3>1. names' = NameList(r.table) /\ file' = file
      BY <1>4 DEF AssignNames
    <3> QED BY <1>0, <2>1, <3>1, OlderNames DEF NamesInPlace
  <2>3. /\ \A u \in Thread \ {t} : req'[u] = req[u]
        /\ req'[t].table = EmptyTable
    BY <1>0, <1>4 DEF AssignNames, NoReq, Asking, Request
  <2>4. \A u \in Thread : Views(u)'
    BY <1>4, <2>1, <2>3, EmptyOlder DEF Views, AssignNames
  <2> QED BY <1>4, <2>1, <2>2, <2>4 DEF AInv, AssignNames
<1> QED BY <1>1, <1>2, <1>3, <1>4 DEF Act

LEMMA AInvNext == TInv /\ AInv /\ [Next]_vars => AInv'
<1> SUFFICES ASSUME TInv, AInv, [Next]_vars PROVE AInv'
  OBVIOUS
<1>1. CASE Traffic
  <2>1. file'.rows = file.rows
    BY <1>1 DEF Traffic, TInv, TypeOK, Listing
  <2> QED BY <1>1, <2>1 DEF Traffic, AInv, Views, NamesInPlace
<1>2. CASE UNCHANGED vars
  BY <1>2 DEF vars, AInv, Views, NamesInPlace
<1> QED BY <1>1, <1>2, AInvAccept, AInvListing, AInvAct DEF Next

LEMMA AInvAlways == Spec => [](TInv /\ AInv)
<1>1. TInv /\ AInv /\ [Next]_vars => (TInv /\ AInv)'
  BY TInvNext, AInvNext
<1>2. Init => TInv /\ AInv
  BY TInvInit, AInvInit
<1> QED BY <1>1, <1>2, PTL DEF Spec

(***************************************************************************)
(* The theorems.                                                           *)
(***************************************************************************)
\* With any number of unlocked concurrent requests and arbitrarily stale
\* listings, un-indexed adds leave no hole and register no interface twice.
THEOREM AppendOnlyRegularAlways == Spec => []AppendOnlyRegular
<1>1. AInv => AppendOnlyRegular
  BY DEF AInv, AppendOnlyRegular
<1> QED BY AInvAlways, <1>1, PTL

\* ... and vifi(), however stale the name list, never answers another
\* interface's VIF.
THEOREM AppendOnlyVifiAlways == Spec => []AppendOnlyVifi
<1>1. TInv /\ AInv => AppendOnlyVifi
  <2> SUFFICES ASSUME TInv, NamesInPlace, NEW d \in Dev, NameKnown(d)
               PROVE  Vifi(d) \in Slot /\ file.rows[Vifi(d)] = d
    BY DEF AInv, AppendOnlyVifi, VifiIsKernelIndex
  <2> DEFINE At == {p \in DOMAIN names : names[p] = d}
  <2>1. At \subseteq Nat /\ At # {}
    BY DEF TInv, TypeOK, NameKnown
  <2>2. \E p \in At : \A q \in At : p <= q
    <3> HIDE DEF At
    <3> QED BY <2>1, LeastElement
  <2> DEFINE First(p) == names[p] = d /\ \A q \in DOMAIN names : names[q] = d => p <= q
  <2>3. \E p \in DOMAIN names : First(p)
    BY <2>2
  <2> DEFINE first == CHOOSE p \in DOMAIN names : First(p)
  <2>4. first \in DOMAIN names /\ First(first)
    <3> HIDE DEF First
    <3> QED BY <2>3
  <2>5. Vifi(d) = first - 1
    BY DEF Vifi
  <2>6. names[first] = d
    BY <2>4
  <2> HIDE DEF first
  <2> QED BY <2>4, <2>5, <2>6 DEF NamesInPlace
<1> QED BY AInvAlways, <1>1, PTL

\* ... and every index a GET or an acknowledged POST answers with is right.
THEOREM AnswersTrueAlways == Spec => []AnswersTrue
<1>1. TInv /\ AInv => AnswersTrue
  <2> SUFFICES ASSUME TInv, AInv, appendOnly, NEW d \in Names(cache.result.rows)
               PROVE  file.rows[IndexOf(cache.result.rows, d)] = d
    BY DEF AnswersTrue
  <2> DEFINE old == cache.result.rows
  <2>1. old \in Table /\ Older(old, file.rows) /\ Distinct(old)
    BY OlderDistinct DEF TInv, TypeOK, Listing, AInv
  <2>2. PICK i \in Occupied(old) : old[i] = d
    BY DEF Names
  <2>3. IndexOf(old, d) = i
    BY <2>1, <2>2, DistinctIndex
  <2> QED BY <2>1, <2>2, <2>3 DEF Older
<1> QED BY AInvAlways, <1>1, PTL

(***************************************************************************)
(* Refinement: while VIFs are only appended the manager implements the     *)
(* registry.  The log is the occupied part of the table, and how far it is *)
(* published is the length of the name list, which is that of an older     *)
(* view.                                                                   *)
(***************************************************************************)
LEMMA LogIs ==
    ASSUME NEW tbl \in Table, tbl = file.rows, NEW n \in 0..MaxVifs, Occupied(tbl) = 0..(n - 1)
    PROVE  /\ Log = [p \in 1..n |-> tbl[p - 1]]
           /\ Log \in Seq(Dev) /\ Len(Log) = n
<1>1. n \in Nat /\ \A p \in 1..n : p - 1 \in 0..(n - 1)
  BY MaxVifsType
<1>2. Cardinality(0..(n - 1)) = n
  <2>1. 0 \in Int /\ n - 1 \in Int
    BY <1>1
  <2>2. Cardinality(0..(n - 1)) = IF 0 > n - 1 THEN 0 ELSE n - 1 - 0 + 1
    BY <2>1, FS_Interval
  <2> QED BY <1>1, <2>2
<1>3. Log = [p \in 1..n |-> tbl[p - 1]]
  BY <1>2 DEF Log
<1>4. \A p \in 1..n : tbl[p - 1] \in Dev
  BY <1>1 DEF Occupied, Table
<1> QED BY <1>1, <1>3, <1>4

\* A step that leaves the table and the name list alone is invisible.
LEMMA InvisibleStep ==
    ASSUME file'.rows = file.rows, names' = names
    PROVE  UNCHANGED <<Log, Len(names)>>
BY DEF Log

LEMMA RegistersNext ==
    ASSUME TInv, AInv, appendOnly, NEW t \in Thread, AddVif(t), appendOnly'
    PROVE  \E d \in Dev : Registry!Register(d)
<1> DEFINE tbl == file.rows
           r == req[t]
           new == file'.rows
<1>1. /\ r \in Request /\ tbl \in Table /\ file \in Listing /\ r.table \in Table
      /\ r.dev \in Dev /\ Unindexed(r.idx)
  BY DEF TInv, TypeOK, Typed, Request, Listing, AddVif
<1>2. Dense(tbl) /\ Distinct(tbl) /\ Older(r.table, tbl)
  BY DEF AInv, Views
<1>3. r.dev \notin Names(r.table) /\ CanAdd(tbl, Cardinality(Names(r.table)))
  BY <1>1 DEF AddVif, InUse, McastIndex
<1>4. PICK n \in Slot : /\ Occupied(tbl) = 0..(n - 1)
                        /\ tbl[n] = NoDev
                        /\ r.dev \notin Names(tbl)
                        /\ Added(tbl, Cardinality(Names(r.table)), r.dev)
                              = [tbl EXCEPT ![n] = r.dev]
  <2> DEFINE old == r.table  d == r.dev
  <2>1. /\ tbl \in Table /\ Dense(tbl) /\ Distinct(tbl)
        /\ old \in Table /\ Older(old, tbl)
        /\ d \in Dev /\ d \notin Names(old)
        /\ CanAdd(tbl, Cardinality(Names(old)))
    BY <1>1, <1>2, <1>3
  <2> HIDE DEF tbl, r, old, d
  <2>2. \E n \in Slot : /\ Occupied(tbl) = 0..(n - 1)
                        /\ tbl[n] = NoDev
                        /\ d \notin Names(tbl)
                        /\ Added(tbl, Cardinality(Names(old)), d) = [tbl EXCEPT ![n] = d]
    BY <2>1, CheckedAddAppends
  <2> QED BY <2>2 DEF old, d
<1>5. new = [tbl EXCEPT ![n] = r.dev] /\ names' = names
  BY <1>1, <1>4 DEF AddVif, McastIndex, Listing
<1>6. n \in Nat /\ n < MaxVifs /\ MaxVifs \in Nat /\ n \in 0..MaxVifs /\ n + 1 \in 0..MaxVifs
  BY MaxVifsType DEF Slot
<1>7. new \in Table /\ r.dev # NoDev
  BY <1>1, <1>5, VifTableAssumption DEF Table
<1>8. Occupied(new) = 0..(n + 1 - 1)
  <2>1. \A i \in Slot : i \in Occupied(new) <=> i \in 0..(n - 1) \/ i = n
    BY <1>1, <1>4, <1>5, <1>7 DEF Occupied, Table
  <2>2. \A i : i \in 0..n <=> i \in Slot /\ (i \in 0..(n - 1) \/ i = n)
    BY <1>6 DEF Slot
  <2>3. Occupied(new) = 0..n
    BY <2>1, <2>2 DEF Occupied
  <2> QED BY <1>6, <2>3
<1>9. Log = [p \in 1..n |-> tbl[p - 1]] /\ Log \in Seq(Dev) /\ Len(Log) = n
  BY <1>1, <1>4, <1>6, LogIs
<1>10. Log' = [p \in 1..(n + 1) |-> new[p - 1]]
  <2>1. 0 \in Int /\ n \in Int
    BY <1>6
  <2>2. Cardinality(0..n) = IF 0 > n THEN 0 ELSE n - 0 + 1
    BY <2>1, FS_Interval
  <2>3. Cardinality(Occupied(new)) = n + 1
    BY <1>6, <1>8, <2>2
  <2> QED BY <2>3 DEF Log
<1>11. \A p \in 1..(n + 1) : new[p - 1] = IF p <= n THEN tbl[p - 1] ELSE r.dev
  <2> SUFFICES ASSUME NEW p \in 1..(n + 1)
               PROVE  new[p - 1] = IF p <= n THEN tbl[p - 1] ELSE r.dev
    OBVIOUS
  <2>1. p - 1 \in Slot /\ (p <= n <=> p - 1 # n)
    BY <1>6 DEF Slot
  <2> QED BY <1>1, <1>5, <2>1 DEF Table
<1>12. Log' = Append(Log, r.dev)
  <2>1. Append(Log, r.dev) = [p \in 1..(n + 1) |-> IF p <= n THEN tbl[p - 1] ELSE r.dev]
    BY <1>1, <1>6, <1>9
  <2> QED BY <1>10, <1>11, <2>1
<1>13. \A p \in DOMAIN Log : Log[p] # r.dev
  <2>1. \A p \in 1..n : p - 1 \in Occupied(tbl)
    BY <1>4, <1>6
  <2> QED BY <1>4, <1>9, <2>1 DEF Names
<1>14. Len(Log) < MaxVifs /\ UNCHANGED Len(names)
  BY <1>5, <1>6, <1>9
<1> QED BY <1>1, <1>12, <1>13, <1>14 DEF Registry!Register

LEMMA PublishesNext ==
    ASSUME TInv, AInv, appendOnly, NEW t \in Thread, AssignNames(t)
    PROVE  \E n \in 0..Len(Log) : Registry!Publish(n)
<1> DEFINE tbl == file.rows
           old == req[t].table
<1>1. tbl \in Table /\ old \in Table /\ Dense(tbl) /\ Distinct(tbl) /\ Older(old, tbl)
  BY DEF TInv, TypeOK, Request, Listing, AInv, Views
<1>2. names' = NameList(old) /\ file' = file
  BY DEF AssignNames
<1> HIDE DEF tbl, old
<1>3. PICK n \in 0..MaxVifs : Occupied(tbl) = 0..(n - 1)
  BY <1>1, DenseSize
<1>4. PICK m \in 0..MaxVifs : Occupied(old) = 0..(m - 1)
  BY <1>1, DenseSize DEF Older
<1>5. n \in Nat /\ m \in Nat
  BY MaxVifsType
<1>6. Len(Log) = n
  BY <1>1, <1>3, LogIs DEF tbl
<1>7. NameList(old) = [p \in 1..m |-> old[p - 1]]
  BY <1>1, <1>4, OlderDistinct, RegularListing
<1>8. Len(names') = m
  BY <1>2, <1>5, <1>7
<1>9. m <= n
  <2> SUFFICES ASSUME m > n PROVE FALSE
    BY <1>5
  <2>1. n \in Occupied(old) /\ n \notin Occupied(tbl)
    BY <1>3, <1>4, <1>5
  <2> QED BY <1>1, <2>1 DEF Older, Occupied
<1>10. UNCHANGED Log
  BY <1>2 DEF Log
<1> QED BY <1>5, <1>6, <1>8, <1>9, <1>10 DEF Registry!Publish

LEMMA RegistryInit == ASSUME Init, appendOnly PROVE Registry!Init
<1>1. PICK c \in Configs :
            /\ file = [rows |-> Configured(c), pkts |-> 0]
            /\ names = NameList(file.rows)
  BY DEF Init
<1> DEFINE tbl == file.rows
<1>2. tbl \in Table
  BY <1>1, ConfiguredType
<1>3. Dense(tbl) /\ Distinct(tbl)
  BY AInvInit DEF AInv
<1> HIDE DEF tbl
<1>4. PICK n \in 0..MaxVifs : Occupied(tbl) = 0..(n - 1)
  BY <1>2, <1>3, DenseSize
<1>5. Log = [p \in 1..n |-> tbl[p - 1]] /\ Log \in Seq(Dev) /\ Len(Log) = n
  BY <1>2, <1>4, LogIs DEF tbl
<1>6. NameList(tbl) = [p \in 1..n |-> tbl[p - 1]]
  BY <1>2, <1>3, <1>4, RegularListing
<1>7. n \in Nat
  BY MaxVifsType
<1>8. Log \in [1..n -> Dev]
  BY <1>5
<1>9. Len(names) = Len(Log)
  BY <1>1, <1>5, <1>6 DEF tbl
<1>10. ASSUME NEW i \in DOMAIN Log, NEW j \in DOMAIN Log, Log[i] = Log[j] PROVE i = j
  <2>1. i \in 1..n /\ j \in 1..n
    BY <1>5
  <2>2. i - 1 \in Occupied(tbl) /\ j - 1 \in Occupied(tbl) /\ tbl[i - 1] = tbl[j - 1]
    BY <1>4, <1>5, <1>7, <1>10, <2>1
  <2>3. i - 1 = j - 1
    BY <1>3, <2>2 DEF Distinct
  <2> QED BY <1>7, <2>1, <2>3
<1> QED BY <1>8, <1>9, <1>10 DEF Registry!Init

LEMMA RegistryNext ==
    ASSUME TInv, AInv, appendOnly, [Next]_vars, appendOnly'
    PROVE  [Registry!Next]_<<Log, Len(names)>>
<1>1. CASE \E t \in Thread : AddVif(t)
  BY <1>1, RegistersNext DEF Registry!Next
<1>2. CASE \E t \in Thread : AssignNames(t)
  BY <1>2, PublishesNext DEF Registry!Next
<1>3. CASE \E t \in Thread : DelVifByIndex(t) \/ DelVifByName(t)
  BY <1>3 DEF DelVifByIndex, DelVifByName
<1>4. CASE Traffic
  <2>1. file'.rows = file.rows /\ names' = names
    BY <1>4 DEF Traffic, TInv, TypeOK, Listing
  <2> QED BY <2>1, InvisibleStep
<1>5. CASE UNCHANGED vars
  BY <1>5, InvisibleStep DEF vars
<1>6. CASE \E t \in Thread : Accept(t) \/ Vifs(t) \/ AddFails(t) \/ RemoveFails(t)
  <2>1. PICK t \in Thread : Accept(t) \/ Vifs(t) \/ AddFails(t) \/ RemoveFails(t)
    BY <1>6
  <2>2. file' = file /\ names' = names
    <3>1. CASE Accept(t)
      BY <3>1 DEF Accept, Add, AddAt, RemoveByIndex, RemoveByName, List, Take
    <3>2. CASE Vifs(t)
      <4>1. (ReadFile(t) \/ CallStep(t) \/ Return(t)) /\ names' = names
        BY <3>2 DEF Vifs, BeginVifs, ContinueVifs, LookupReturns, RefreshReturns,
                    VifsReturns, Respond
      <4> QED BY <4>1, TInvVifs
    <3>3. CASE AddFails(t) \/ RemoveFails(t)
      BY <3>3 DEF AddFails, RemoveFails, Fail
    <3> QED BY <2>1, <3>1, <3>2, <3>3
  <2> QED BY <2>2, InvisibleStep
<1> QED BY <1>1, <1>2, <1>3, <1>4, <1>5, <1>6 DEF Next, Act

\* As long as every VIF has been appended, every step of every thread registers
\* an interface, publishes a prefix of the log, or is invisible.
THEOREM AppendingImplementsRegistry == Spec /\ []appendOnly => ImplementsRegistry
<1>1. Init /\ appendOnly => Registry!Init
  BY RegistryInit
<1>2. TInv /\ AInv /\ appendOnly /\ [Next]_vars /\ appendOnly'
         => [Registry!Next]_<<Log, Len(names)>>
  BY RegistryNext
<1> QED BY <1>1, <1>2, AInvAlways, PTL DEF Spec, ImplementsRegistry, Registry!Spec

\* Where no operation asked for removes an interface or gives an index, and no
\* configuration repeats a name, every VIF is appended ...
OnlyAppends ==
    /\ Operation \subseteq {"add", "list"}
    /\ Index \subseteq {0}
    /\ \A c \in Configs : \A i, j \in DOMAIN c : c[i] = c[j] => i = j

LEMMA AppendOnlyNext ==
    ASSUME OnlyAppends, TInv, appendOnly,
           \A t \in Thread : req[t].op \in {"none", "add", "list"}, [Next]_vars
    PROVE  appendOnly' /\ \A t \in Thread : req'[t].op \in {"none", "add", "list"}
<1>1. req \in [Thread -> Request]
  BY DEF TInv, TypeOK
<1>2. CASE Traffic \/ UNCHANGED vars
  BY <1>2 DEF Traffic, vars
<1>3. ASSUME NEW t \in Thread, NEW r, r.op \in {"none", "add", "list"},
             req' = [req EXCEPT ![t] = r], appendOnly'
      PROVE  appendOnly' /\ \A u \in Thread : req'[u].op \in {"none", "add", "list"}
  BY <1>1, <1>3
<1>4. ASSUME NEW t \in Thread
      PROVE  /\ NoReq.op \in {"none", "add", "list"}
             /\ \A a, tbl : [req[t] EXCEPT !.at = a, !.table = tbl].op \in {"none", "add", "list"}
  BY <1>1 DEF NoReq, Asking, Request
<1>5. ASSUME NEW t \in Thread, Accept(t)
      PROVE  appendOnly' /\ \A u \in Thread : req'[u].op \in {"none", "add", "list"}
  <2>1. PICK op, a, d, i : Take(t, op, a, d, i)
    BY <1>5 DEF Accept, Add, AddAt, RemoveByIndex, RemoveByName, List
  <2>2. Asking(op, a, d, i).op \in {"none", "add", "list"}
    BY <2>1 DEF OnlyAppends, Asking, Take
  <2> QED BY <1>3, <2>1, <2>2 DEF Take
<1>6. ASSUME NEW t \in Thread, Vifs(t)
      PROVE  appendOnly' /\ \A u \in Thread : req'[u].op \in {"none", "add", "list"}
  <2>1. CASE BeginVifs(t) \/ ContinueVifs(t)
    BY <2>1 DEF BeginVifs, ContinueVifs
  <2>2. CASE LookupReturns(t) \/ RefreshReturns(t)
    <3>1. PICK next : /\ req' = [req EXCEPT ![t] = [req[t] EXCEPT !.at = next,
                                                      !.table = cache.result.rows]]
                      /\ appendOnly' = appendOnly
      BY <2>2 DEF LookupReturns, RefreshReturns, VifsReturns
    <3> QED BY <1>3, <1>4, <3>1
  <2>3. CASE Respond(t)
    BY <1>3, <1>4, <2>3 DEF Respond
  <2> QED BY <1>6, <2>1, <2>2, <2>3 DEF Vifs
<1>7. ASSUME NEW t \in Thread, Act(t)
      PROVE  appendOnly' /\ \A u \in Thread : req'[u].op \in {"none", "add", "list"}
  <2>1. Unindexed(req[t].idx)
    BY <1>1 DEF OnlyAppends, Request, Unindexed
  <2>2. ~DelVifByIndex(t) /\ ~DelVifByName(t)
    BY DEF DelVifByIndex, DelVifByName
  <2>3. CASE AddVif(t)
    <3>1. /\ req' = [req EXCEPT ![t] = [req[t] EXCEPT !.at = "refresh", !.table = EmptyTable]]
          /\ appendOnly'
      BY <2>1, <2>3 DEF AddVif
    <3> QED BY <1>3, <1>4, <3>1
  <2>4. CASE AddFails(t) \/ RemoveFails(t)
    <3>1. req' = [req EXCEPT ![t] = NoReq] /\ appendOnly'
      BY <2>4 DEF AddFails, RemoveFails, Fail
    <3> QED BY <1>3, <1>4, <3>1
  <2>5. CASE AssignNames(t)
    BY <1>3, <1>4, <2>5 DEF AssignNames
  <2> QED BY <1>7, <2>2, <2>3, <2>4, <2>5 DEF Act
<1> QED BY <1>2, <1>5, <1>6, <1>7 DEF Next

\* ... so the manager implements the registry outright: what the run of the
\* concurrent manager checks for one small instance.
THEOREM ImplementsRegistryAlways == ASSUME OnlyAppends PROVE Spec => ImplementsRegistry
<1> DEFINE Appending == appendOnly /\ \A t \in Thread : req[t].op \in {"none", "add", "list"}
<1>1. Init => Appending
  BY DEF OnlyAppends, Init, NoReq, Asking
<1>2. TInv /\ Appending /\ [Next]_vars => Appending'
  BY AppendOnlyNext
<1>3. Appending => appendOnly
  OBVIOUS
<1> HIDE DEF Appending
<1>4. Spec => []appendOnly
  BY <1>1, <1>2, <1>3, TInvAlways, PTL DEF Spec
<1> QED BY <1>4, AppendingImplementsRegistry, PTL
===============================================================================
