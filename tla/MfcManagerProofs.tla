---------------------------- MODULE MfcManagerProofs ----------------------------
(***************************************************************************)
(* Proofs about MfcManager, for every set of interfaces, threads, routes   *)
(* and packets, and every size of the VIF table and of the socket's queue. *)
(***************************************************************************)
EXTENDS MfcManager, NatFacts, SequenceTheorems

\* Interface d is registered under VIF v.  The registry only appends, so what
\* is registered stays registered.
Under(v, d) == v + 1 \in DOMAIN log /\ log[v + 1] = d

\* The VIFs in `vs' are registered, and their interfaces are those in `ds'.
Resolve(vs, ds) == (\A v \in vs : v + 1 \in DOMAIN log) /\ {log[v + 1] : v \in vs} = ds

Job == [op : Ops, at : Places, route : Route, vif : Vif \cup {NoVif},
        size : 0..MaxVifs, todo : SUBSET Dev, oifs : SUBSET Vif]

(***************************************************************************)
(* Where a request stands.  Once vifi() has answered, the VIF the request  *)
(* holds is its interface's; a route without a source goes to the          *)
(* dictionary, one with a source to the kernel; while the thresholds are   *)
(* filled in, those set and those still to set are the route's `to'.       *)
(* No threshold is set before.                                             *)
(***************************************************************************)
InDictionary == {"get", "replace", "put", "take", "test", "drop"}
InKernel == {"size", "oifs", "syscall"}

Placed(j) ==
    /\ j.at \in InDictionary \cup InKernel => Under(j.vif, j.route.from)
    /\ j.at \in InKernel => ~Dynamic(j.route)
    /\ j.at # "oifs" => j.oifs = {}
    /\ j.at = "oifs" => j.todo \subseteq j.route.to /\ Resolve(j.oifs, j.route.to \ j.todo)

\* What a thread found in the dictionary holds until another thread changes
\* the same list.
Looked(t) ==
    t \notin stale =>
        /\ job[t].at = "put" => ~Truthy(job[t].vif)
        /\ job[t].at = "drop" => ~Truthy(job[t].vif)

EntriesFollow ==
    \A k \in DOMAIN mfc :
        /\ Under(mfc[k].parent, mfc[k].route.from)
        /\ Resolve(mfc[k].oifs, mfc[k].route.to)

ListsFollow ==
    \A v \in DOMAIN dynamic : \A p \in DOMAIN dynamic[v] : Under(v, dynamic[v][p].from)

\* An empty list has a thread on its way to delete it.
Swept ==
    \A v \in DOMAIN dynamic : dynamic[v] = <<>> =>
        \E t \in Thread : job[t].at \in {"test", "drop"} /\ job[t].vif = v

IInv ==
    /\ TypeOK
    /\ \A t \in Thread : Placed(job[t]) /\ Looked(t)
    /\ EntriesFollow
    /\ ListsFollow
    /\ Swept

(***************************************************************************)
(* The operators the actions are built from.                               *)
(***************************************************************************)
LEMMA VifType == Vif \subseteq Nat /\ (\A v \in Vif : v < MaxVifs) /\ NoVif \notin Vif
BY MfcManagerAssumption DEF Vif, NoVif

LEMMA IdleJob == Idle \in Job /\ Placed(Idle) /\ Idle.at = "free"
<1>1. (CHOOSE r \in Route : TRUE) \in Route
  BY MfcManagerAssumption
<1> DEFINE route == CHOOSE r \in Route : TRUE
<1>2. Idle = [op |-> "none", at |-> "free", route |-> route, vif |-> NoVif,
              size |-> 0, todo |-> {}, oifs |-> {}]
  BY DEF Idle
<1> HIDE DEF route
<1>3. route \in Route
  BY <1>1 DEF route
<1> QED BY <1>2, <1>3, MfcManagerAssumption
        DEF Job, Placed, Ops, Places, InDictionary, InKernel

\* vifi() answers with the VIF of the interface asked for.
LEMMA VifiUnder ==
    ASSUME TypeOK, NEW d, Listed(d)
    PROVE  Vifi(d) \in Vif /\ Under(Vifi(d), d)
<1>1. log \in Seq(Dev) /\ Len(log) \in Nat /\ Len(log) <= MaxVifs /\ known \in 0..Len(log)
  BY DEF TypeOK
<1>2. \A i \in 1..known : log[i] \in Dev
  BY <1>1
<1>3. /\ DOMAIN NameList = 1..known
      /\ \A p \in 1..known : NameList[p] = log[p]
  <2>1. 1 \in Int /\ known \in Int
    BY <1>1
  <2>2. /\ NameList \in Seq(Dev)
        /\ Len(NameList) = IF 1 <= known THEN known - 1 + 1 ELSE 0
        /\ \A p \in 1..(known - 1 + 1) : NameList[p] = log[1 + p - 1]
    BY <1>2, <2>1, SubSeqProperties DEF NameList
  <2> QED BY <1>1, <2>2
<1> DEFINE at == CHOOSE p \in DOMAIN NameList : NameList[p] = d
<1>4. at \in 1..known /\ log[at] = d
  BY <1>3 DEF Listed
<1>5. Vifi(d) = at - 1
  BY DEF Vifi
<1> HIDE DEF at
<1>6. at \in Nat /\ at - 1 \in 0..(MaxVifs - 1) /\ at - 1 + 1 = at /\ at \in DOMAIN log
  BY <1>1, <1>4, MfcManagerAssumption
<1> QED BY <1>4, <1>5, <1>6 DEF Vif, Under

\* list.remove takes out the one element given and keeps every other.
LEMMA RemoveFirstKeeps ==
    ASSUME NEW s \in Seq(Route), NEW r, \E p \in DOMAIN s : s[p] = r
    PROVE  /\ RemoveFirst(s, r) \in Seq(Route)
           /\ \A p \in DOMAIN RemoveFirst(s, r) :
                \E q \in DOMAIN s : RemoveFirst(s, r)[p] = s[q]
           /\ \A q \in DOMAIN s : s[q] # r =>
                \E p \in DOMAIN RemoveFirst(s, r) : RemoveFirst(s, r)[p] = s[q]
<1> DEFINE Found == {q \in DOMAIN s : s[q] = r}
<1>1. Found \subseteq Nat /\ Found # {}
  OBVIOUS
<1>2. \E q \in Found : \A o \in Found : q <= o
  <2> HIDE DEF Found
  <2> QED BY <1>1, LeastElement
<1> DEFINE First(q) == s[q] = r /\ \A o \in 1..(q - 1) : s[o] # r
<1>3. \E q \in DOMAIN s : First(q)
  BY <1>2
<1> DEFINE p == CHOOSE q \in DOMAIN s : First(q)
<1>4. p \in DOMAIN s /\ s[p] = r
  <2>1. p \in DOMAIN s /\ First(p)
    <3> HIDE DEF First
    <3> QED BY <1>3
  <2> QED BY <2>1
<1> DEFINE front == SubSeq(s, 1, p - 1)
           back == SubSeq(s, p + 1, Len(s))
<1>5. RemoveFirst(s, r) = front \o back
  BY DEF RemoveFirst
<1> HIDE DEF p
<1>6. p \in 1..Len(s) /\ Len(s) \in Nat
  BY <1>4
<1>7. /\ front \in Seq(Route) /\ Len(front) = p - 1
      /\ \A i \in 1..(p - 1) : front[i] = s[i]
  <2>1. 1 \in Int /\ p - 1 \in Int /\ \A i \in 1..(p - 1) : s[i] \in Route
    BY <1>6
  <2>2. /\ front \in Seq(Route)
        /\ Len(front) = IF 1 <= p - 1 THEN p - 1 - 1 + 1 ELSE 0
        /\ \A i \in 1..(p - 1 - 1 + 1) : front[i] = s[1 + i - 1]
    BY <2>1, SubSeqProperties
  <2> QED BY <1>6, <2>2
<1>8. /\ back \in Seq(Route) /\ Len(back) = Len(s) - p
      /\ \A i \in 1..(Len(s) - p) : back[i] = s[p + i]
  <2>1. p + 1 \in Int /\ Len(s) \in Int /\ \A i \in (p + 1)..Len(s) : s[i] \in Route
    BY <1>6
  <2>2. /\ back \in Seq(Route)
        /\ Len(back) = IF p + 1 <= Len(s) THEN Len(s) - (p + 1) + 1 ELSE 0
        /\ \A i \in 1..(Len(s) - (p + 1) + 1) : back[i] = s[(p + 1) + i - 1]
    BY <2>1, SubSeqProperties
  <2> QED BY <1>6, <2>2
<1> HIDE DEF front, back
<1>9. /\ front \o back \in Seq(Route)
      /\ Len(front \o back) = Len(s) - 1
      /\ \A i \in 1..(Len(s) - 1) :
            (front \o back)[i] = IF i <= p - 1 THEN s[i] ELSE s[i + 1]
  <2>1. /\ front \o back \in Seq(Route)
        /\ Len(front \o back) = Len(front) + Len(back)
        /\ \A i \in 1..(Len(front) + Len(back)) :
            (front \o back)[i] = IF i <= Len(front) THEN front[i] ELSE back[i - Len(front)]
    BY <1>7, <1>8, ConcatProperties
  <2> QED BY <1>6, <1>7, <1>8, <2>1
<1>10. DOMAIN (front \o back) = 1..(Len(s) - 1) /\ DOMAIN s = 1..Len(s)
  BY <1>9
<1>11. ASSUME NEW i \in 1..(Len(s) - 1)
       PROVE  \E q \in 1..Len(s) : (front \o back)[i] = s[q]
  <2>1. i \in 1..Len(s) /\ i + 1 \in 1..Len(s)
    BY <1>6
  <2> QED BY <1>9, <2>1
<1>12. ASSUME NEW q \in 1..Len(s), s[q] # r
       PROVE  \E i \in 1..(Len(s) - 1) : (front \o back)[i] = s[q]
  <2>1. q # p
    BY <1>4, <1>12
  <2>2. CASE q < p
    <3>1. q \in 1..(Len(s) - 1) /\ q <= p - 1
      BY <1>6, <2>2
    <3> QED BY <1>9, <3>1
  <2>3. CASE q > p
    <3>1. q - 1 \in 1..(Len(s) - 1) /\ ~(q - 1 <= p - 1) /\ q - 1 + 1 = q
      BY <1>6, <2>3
    <3> QED BY <1>9, <3>1
  <2>4. q < p \/ q > p
    BY <1>6, <2>1
  <2> QED BY <2>2, <2>3, <2>4
<1> QED BY <1>5, <1>9, <1>10, <1>11, <1>12

(***************************************************************************)
(* The invariant holds.                                                    *)
(***************************************************************************)
\* The parts of the type invariant as the proofs below use them.
LEMMA Types ==
    ASSUME TypeOK
    PROVE  /\ log \in Seq(Dev) /\ Len(log) <= MaxVifs /\ known \in 0..Len(log)
           /\ DOMAIN dynamic \subseteq Vif /\ dynamic \in [DOMAIN dynamic -> Seq(Route)]
           /\ DOMAIN mfc \subseteq Sender \X Group /\ mfc \in [DOMAIN mfc -> Entry]
           /\ job \in [Thread -> Job]
           /\ queue \in Seq(Message) /\ Len(queue) <= MaxQueue
           /\ stale \subseteq Thread
BY DEF TypeOK, Job

LEMMA TypesSuffice ==
    ASSUME /\ log \in Seq(Dev) /\ Len(log) <= MaxVifs /\ known \in 0..Len(log)
           /\ \E D \in SUBSET Vif : dynamic \in [D -> Seq(Route)]
           /\ \E K \in SUBSET (Sender \X Group) : mfc \in [K -> Entry]
           /\ job \in [Thread -> Job]
           /\ queue \in Seq(Message) /\ Len(queue) <= MaxQueue
           /\ stale \subseteq Thread
    PROVE  TypeOK
BY DEF TypeOK, Job

LEMMA InitInv == Init => IInv
<1> SUFFICES ASSUME Init PROVE IInv
  OBVIOUS
<1>1. PICK n \in 0..MaxVifs : log \in [1..n -> Dev] /\ known = Len(log)
  BY DEF Init, Registry!Init
<1>2. log \in Seq(Dev) /\ Len(log) = n /\ known \in 0..Len(log)
  BY <1>1, MfcManagerAssumption
<1>3. dynamic = <<>> /\ mfc = <<>> /\ DOMAIN dynamic = {} /\ DOMAIN mfc = {}
  BY DEF Init
<1>4. dynamic \in [{} -> Seq(Route)] /\ mfc \in [{} -> Entry]
  BY <1>3
<1>5. job = [t \in Thread |-> Idle] /\ queue = <<>> /\ stale = {}
  BY DEF Init
<1>6. TypeOK
  <2>1. job \in [Thread -> Job]
    BY <1>5, IdleJob
  <2>2. queue \in Seq(Message) /\ Len(queue) <= MaxQueue
    BY <1>5, MfcManagerAssumption
  <2>3. /\ \E D \in SUBSET Vif : dynamic \in [D -> Seq(Route)]
        /\ \E K \in SUBSET (Sender \X Group) : mfc \in [K -> Entry]
    BY <1>4
  <2> QED BY <1>1, <1>2, <1>5, <2>1, <2>2, <2>3, TypesSuffice
<1>7. \A t \in Thread : Placed(job[t]) /\ Looked(t)
  BY <1>5, IdleJob DEF Looked
<1> QED BY <1>3, <1>6, <1>7 DEF IInv, EntriesFollow, ListsFollow, Swept

\* VifManager at work disturbs nobody: what is registered stays registered.
LEMMA InterfacesInv == ASSUME IInv, Interfaces PROVE IInv'
<1>1. UNCHANGED <<dynamic, mfc, job, queue, stale>>
  BY DEF Interfaces
<1>2. log \in Seq(Dev) /\ Len(log) \in Nat /\ Len(log) <= MaxVifs /\ known \in 0..Len(log)
  BY DEF IInv, TypeOK
<1>3. /\ log' \in Seq(Dev) /\ Len(log') <= MaxVifs /\ known' \in 0..Len(log')
      /\ \A i \in DOMAIN log : i \in DOMAIN log' /\ log'[i] = log[i]
  <2>1. CASE \E d \in Dev : Registry!Register(d)
    <3>1. PICK d \in Dev : Registry!Register(d)
      BY <2>1
    <3>2. log' = Append(log, d) /\ Len(log) < MaxVifs /\ known' = known
      BY <3>1 DEF Registry!Register
    <3>3. /\ log' \in Seq(Dev) /\ Len(log') = Len(log) + 1
          /\ \A i \in 1..Len(log) : log'[i] = log[i]
      BY <1>2, <3>2
    <3> QED BY <1>2, <3>2, <3>3, MfcManagerAssumption
  <2>2. CASE \E n \in 0..Len(log) : Registry!Publish(n)
    BY <1>2, <2>2 DEF Registry!Publish
  <2> QED BY <2>1, <2>2 DEF Interfaces, Registry!Next
<1>4. /\ \A v, d : Under(v, d) => Under(v, d)'
      /\ \A vs, ds : Resolve(vs, ds) => Resolve(vs, ds)'
  BY <1>3 DEF Under, Resolve
<1>5. TypeOK'
  BY <1>1, <1>3 DEF IInv, TypeOK
<1>6. ASSUME NEW t \in Thread PROVE Placed(job[t])' /\ Looked(t)'
  BY <1>1, <1>4 DEF IInv, Placed, Looked, Truthy, Dynamic
<1>7. EntriesFollow' /\ ListsFollow' /\ Swept'
  BY <1>1, <1>4 DEF IInv, EntriesFollow, ListsFollow, Swept
<1> QED BY <1>5, <1>6, <1>7 DEF IInv

\* A step of thread t that touches neither the registry nor the dictionary.
LEMMA RequestInv ==
    ASSUME IInv, NEW t \in Thread, NEW j \in Job, job' = [job EXCEPT ![t] = j],
           UNCHANGED <<log, known, dynamic, queue, stale>>,
           \E K \in SUBSET (Sender \X Group) : mfc' \in [K -> Entry], EntriesFollow',
           Placed(j),
           j.at \in {"put", "drop"} => ~Truthy(j.vif) \/ t \in stale,
           \/ job[t].at \notin {"test", "drop"}
           \/ j.at = "drop" /\ j.vif = job[t].vif
           \/ ~(job[t].vif \in DOMAIN dynamic /\ dynamic[job[t].vif] = <<>>)
    PROVE  IInv'
<1>1. job \in [Thread -> Job] /\ \A u \in Thread : job'[u] = IF u = t THEN j ELSE job[u]
  BY Types DEF IInv
<1>2. TypeOK'
  <2>1. job' \in [Thread -> Job]
    BY <1>1
  <2> QED BY <2>1 DEF IInv, TypeOK, Job
<1>4. \A u \in Thread : Placed(job[u])'
  <2>1. ASSUME NEW u \in Thread PROVE Placed(job'[u])
    BY <1>1 DEF IInv
  <2>2. ASSUME NEW u \in Thread PROVE Placed(job[u])' <=> Placed(job'[u])
    BY DEF Placed, Under, Resolve, Dynamic
  <2> QED BY <2>1, <2>2
<1>5. \A u \in Thread : Looked(u)'
  BY <1>1 DEF IInv, Looked, Truthy
<1>6. ListsFollow'
  BY DEF IInv, ListsFollow, Under
<1>7. Swept'
  <2> SUFFICES ASSUME NEW v \in DOMAIN dynamic, dynamic[v] = <<>>
               PROVE  \E u \in Thread : job'[u].at \in {"test", "drop"} /\ job'[u].vif = v
    BY DEF Swept
  <2>1. PICK u \in Thread : job[u].at \in {"test", "drop"} /\ job[u].vif = v
    BY DEF IInv, Swept
  <2> QED BY <1>1, <2>1
<1> QED BY <1>2, <1>4, <1>5, <1>6, <1>7 DEF IInv

\* The same where the kernel's entries stay too.
LEMMA RequestOnlyInv ==
    ASSUME IInv, NEW t \in Thread, NEW j \in Job, job' = [job EXCEPT ![t] = j],
           UNCHANGED <<log, known, dynamic, mfc, queue, stale>>,
           Placed(j),
           j.at \in {"put", "drop"} => ~Truthy(j.vif) \/ t \in stale,
           \/ job[t].at \notin {"test", "drop"}
           \/ j.at = "drop" /\ j.vif = job[t].vif
           \/ ~(job[t].vif \in DOMAIN dynamic /\ dynamic[job[t].vif] = <<>>)
    PROVE  IInv'
<1>1. \E K \in SUBSET (Sender \X Group) : mfc' \in [K -> Entry]
  BY Types DEF IInv
<1>2. EntriesFollow'
  BY DEF IInv, EntriesFollow, Under, Resolve
<1> QED BY <1>1, <1>2, RequestInv

\* The request of t ends and nothing else happens.
LEMMA FinishInv ==
    ASSUME IInv, NEW t \in Thread, Finish(t),
           UNCHANGED <<log, known, dynamic, mfc, queue, stale>>,
           job[t].at \in {"test", "drop"} =>
              ~(job[t].vif \in DOMAIN dynamic /\ dynamic[job[t].vif] = <<>>)
    PROVE  IInv'
BY IdleJob, RequestOnlyInv DEF Finish

\* Its request as it goes on to another place.
LEMMA GotoJob ==
    ASSUME TypeOK, NEW t \in Thread, NEW a \in Places, Goto(t, a)
    PROVE  \E j \in Job : /\ job' = [job EXCEPT ![t] = j]
                          /\ j.at = a /\ j.vif = job[t].vif /\ j.route = job[t].route
                          /\ j.oifs = job[t].oifs
<1>1. job[t] \in Job
  BY Types
<1>2. [job[t] EXCEPT !.at = a] \in Job
  BY <1>1 DEF Job
<1>3. job' = [job EXCEPT ![t] = [job[t] EXCEPT !.at = a]]
  BY DEF Goto
<1> QED BY <1>1, <1>2, <1>3 DEF Job

LEMMA BeginInv ==
    ASSUME IInv, NEW t \in Thread, NEW op \in {"add", "remove"}, NEW r \in Route,
           Begin(t, op, r)
    PROVE  IInv'
<1>1. Starting(op, r) \in Job
  BY MfcManagerAssumption DEF Starting, Job, Ops, Places
<1>2. Placed(Starting(op, r)) /\ Starting(op, r).at = "parent"
  BY DEF Starting, Placed, InDictionary, InKernel
<1> QED BY <1>1, <1>2, RequestOnlyInv DEF Begin

LEMMA ParentInv == ASSUME IInv, NEW t \in Thread, Parent(t) \/ NoParent(t) PROVE IInv'
<1>1. CASE Parent(t)
  <2> DEFINE r == job[t].route
             a == IF Dynamic(r) THEN "get" ELSE IF job[t].op = "add" THEN "size" ELSE "syscall"
             j == [job[t] EXCEPT !.vif = Vifi(r.from), !.at = a]
  <2>1. job[t] \in Job
    BY Types DEF IInv
  <2>2. Vifi(r.from) \in Vif /\ Under(Vifi(r.from), r.from)
    BY <1>1, VifiUnder DEF IInv, Parent
  <2>3. j \in Job
    BY <2>1, <2>2 DEF Job, Places
  <2>4. job' = [job EXCEPT ![t] = j]
    BY <1>1 DEF Parent
  <2>5. /\ j.at = a /\ j.vif = Vifi(r.from) /\ j.route = r /\ j.oifs = job[t].oifs
        /\ a \in {"get", "size", "syscall"} /\ (a # "get" => ~Dynamic(r))
    BY <2>1 DEF Job
  <2> HIDE DEF j, a
  <2>6. job[t].at = "parent" /\ UNCHANGED <<log, known, dynamic, mfc, queue, stale>>
    BY <1>1 DEF Parent
  <2>7. Placed(j)
    BY <2>2, <2>5, <2>6 DEF IInv, Placed, InDictionary, InKernel
  <2> QED BY <2>3, <2>4, <2>5, <2>6, <2>7, RequestOnlyInv
<1>2. CASE NoParent(t)
  BY <1>2, FinishInv DEF NoParent
<1> QED BY <1>1, <1>2

(***************************************************************************)
(* Requests at the dictionary.                                             *)
(***************************************************************************)
LEMMA GetInv == ASSUME IInv, NEW t \in Thread, Get(t) PROVE IInv'
<1>1. UNCHANGED <<log, known, dynamic, mfc, queue, stale>> /\ job[t].at = "get"
  BY DEF Get
<1>2. ASSUME NEW a \in {"replace", "take", "put"}, Goto(t, a),
             a = "put" => ~Truthy(job[t].vif)
      PROVE  IInv'
  <2>1. a \in Places
    BY DEF Places
  <2>2. PICK j \in Job : /\ job' = [job EXCEPT ![t] = j]
                         /\ j.at = a /\ j.vif = job[t].vif /\ j.route = job[t].route
                         /\ j.oifs = job[t].oifs
    BY <1>2, <2>1, GotoJob DEF IInv
  <2>3. Placed(j)
    BY <1>1, <2>2 DEF IInv, Placed, InDictionary, InKernel
  <2> QED BY <1>1, <1>2, <2>2, <2>3, RequestOnlyInv
<1>3. \/ Finish(t) \/ Goto(t, "replace") \/ Goto(t, "take")
      \/ Goto(t, "put") /\ ~Truthy(job[t].vif)
  BY DEF Get
<1> QED BY <1>1, <1>2, <1>3, FinishInv

LEMMA TestEmptyInv == ASSUME IInv, NEW t \in Thread, TestEmpty(t) PROVE IInv'
<1> DEFINE empty == job[t].vif \in DOMAIN dynamic /\ dynamic[job[t].vif] = <<>>
<1>1. UNCHANGED <<log, known, dynamic, mfc, queue, stale>> /\ job[t].at = "test"
  BY DEF TestEmpty, At
<1>2. CASE empty
  <2>1. Goto(t, "drop") /\ "drop" \in Places
    BY <1>2 DEF TestEmpty, Places
  <2>2. PICK j \in Job : /\ job' = [job EXCEPT ![t] = j]
                         /\ j.at = "drop" /\ j.vif = job[t].vif /\ j.route = job[t].route
                         /\ j.oifs = job[t].oifs
    BY <2>1, GotoJob DEF IInv
  <2>3. Placed(j)
    BY <1>1, <2>2 DEF IInv, Placed, InDictionary, InKernel
  <2>4. ~Truthy(j.vif)
    BY <1>2, <2>2 DEF Truthy
  <2> QED BY <1>1, <2>2, <2>3, <2>4, RequestOnlyInv
<1>3. CASE ~empty
  BY <1>1, <1>3, FinishInv DEF TestEmpty
<1> QED BY <1>2, <1>3

\* A step of thread t that changes the list of its VIF v and overtakes the
\* threads that have looked at it.
LEMMA ListInv ==
    ASSUME IInv, NEW t \in Thread, NEW j \in Job, job' = [job EXCEPT ![t] = j],
           UNCHANGED <<log, known, mfc, queue>>, Overtakes(t), Placed(j),
           j.at \notin {"put", "drop"},
           NEW v, v = job[t].vif,
           DOMAIN dynamic' \subseteq Vif, dynamic' \in [DOMAIN dynamic' -> Seq(Route)],
           \A w : w # v => /\ w \in DOMAIN dynamic' <=> w \in DOMAIN dynamic
                           /\ w \in DOMAIN dynamic => dynamic'[w] = dynamic[w],
           v \in DOMAIN dynamic' =>
              /\ \A p \in DOMAIN dynamic'[v] : Under(v, dynamic'[v][p].from)
              /\ dynamic'[v] = <<>> => j.at = "test" /\ j.vif = v
    PROVE  IInv'
<1>1. /\ job \in [Thread -> Job]
      /\ \A u \in Thread : job'[u] = IF u = t THEN j ELSE job[u]
  BY Types DEF IInv
<1>2. TypeOK'
  <2>1. job' \in [Thread -> Job]
    BY <1>1
  <2>2. \E D \in SUBSET Vif : dynamic' \in [D -> Seq(Route)]
    OBVIOUS
  <2>3. stale' \subseteq Thread
    BY DEF Overtakes
  <2> QED BY <2>1, <2>2, <2>3 DEF IInv, TypeOK, Job
<1>3. \A u \in Thread : Placed(job[u])'
  <2>1. ASSUME NEW u \in Thread PROVE Placed(job'[u])
    BY <1>1 DEF IInv
  <2>2. ASSUME NEW u \in Thread PROVE Placed(job[u])' <=> Placed(job'[u])
    BY DEF Placed, Under, Resolve, Dynamic
  <2> QED BY <2>1, <2>2
<1>4. ASSUME NEW u \in Thread PROVE Looked(u)'
  <2>1. CASE u = t
    BY <1>1, <2>1 DEF Looked
  <2>2. CASE u # t
    <3> SUFFICES ASSUME u \notin stale', job[u].at \in {"put", "drop"}
                 PROVE  ~Truthy(job[u].vif)'
      BY <1>1, <2>2 DEF Looked, Truthy
    <3>1. u \notin stale /\ job[u].vif # v
      BY <2>2 DEF Overtakes
    <3>2. ~Truthy(job[u].vif)
      BY <3>1 DEF IInv, Looked
    <3> QED BY <1>1, <2>2, <3>1, <3>2 DEF Truthy
  <2> QED BY <2>1, <2>2
<1>5. EntriesFollow'
  BY DEF IInv, EntriesFollow, Under, Resolve
<1>6. ListsFollow'
  <2> SUFFICES ASSUME NEW w \in DOMAIN dynamic', NEW p \in DOMAIN dynamic'[w]
               PROVE  Under(w, dynamic'[w][p].from)
    BY DEF ListsFollow, Under
  <2>1. CASE w = v
    BY <2>1
  <2>2. CASE w # v
    BY <2>2 DEF IInv, ListsFollow
  <2> QED BY <2>1, <2>2
<1>7. Swept'
  <2> SUFFICES ASSUME NEW w \in DOMAIN dynamic', dynamic'[w] = <<>>
               PROVE  \E u \in Thread : job'[u].at \in {"test", "drop"} /\ job'[u].vif = w
    BY DEF Swept
  <2>1. CASE w = v
    BY <1>1, <2>1
  <2>2. CASE w # v
    <3>1. PICK u \in Thread : job[u].at \in {"test", "drop"} /\ job[u].vif = w
      BY <2>2 DEF IInv, Swept
    <3> QED BY <1>1, <2>2, <3>1
  <2> QED BY <2>1, <2>2
<1> QED BY <1>2, <1>3, <1>4, <1>5, <1>6, <1>7 DEF IInv

LEMMA PutInv == ASSUME IInv, NEW t \in Thread, Put(t) PROVE IInv'
<1> DEFINE v == job[t].vif
<1>1. /\ job' = [job EXCEPT ![t] = Idle] /\ Overtakes(t) /\ UNCHANGED <<log, known, mfc, queue>>
      /\ dynamic' = [w \in DOMAIN dynamic \cup {v} |->
                        IF w = v THEN <<job[t].route>> ELSE dynamic[w]]
      /\ job[t].at = "put"
  BY DEF Put, Finish, At
<1>2. job[t].route \in Route /\ v \in Vif /\ Under(v, job[t].route.from)
  <2>1. Under(v, job[t].route.from) /\ job[t] \in Job
    BY <1>1, Types DEF IInv, Placed, InDictionary
  <2>2. v # NoVif
    <3>1. v + 1 \in 1..Len(log) /\ Len(log) <= MaxVifs /\ Len(log) \in Nat
      BY <2>1, Types DEF IInv, Under
    <3> QED BY <3>1, MfcManagerAssumption DEF NoVif
  <2> QED BY <2>1, <2>2 DEF Job
<1>3. <<job[t].route>> \in Seq(Route) /\ <<job[t].route>> # <<>>
  BY <1>2
<1>4. DOMAIN dynamic \subseteq Vif /\ dynamic \in [DOMAIN dynamic -> Seq(Route)]
  BY Types DEF IInv
<1>5. DOMAIN dynamic' \subseteq Vif /\ dynamic' \in [DOMAIN dynamic' -> Seq(Route)]
  BY <1>1, <1>2, <1>3, <1>4
<1>6. dynamic'[v] = <<job[t].route>>
  BY <1>1
<1>7. \A p \in DOMAIN dynamic'[v] : dynamic'[v][p] = job[t].route
  BY <1>6
<1>8. \A w : w # v => /\ w \in DOMAIN dynamic' <=> w \in DOMAIN dynamic
                      /\ w \in DOMAIN dynamic => dynamic'[w] = dynamic[w]
  BY <1>1
<1> QED BY <1>1, <1>2, <1>3, <1>5, <1>6, <1>7, <1>8, IdleJob, ListInv

LEMMA DropInv == ASSUME IInv, NEW t \in Thread, Drop(t) PROVE IInv'
<1> DEFINE v == job[t].vif
<1>1. /\ job' = [job EXCEPT ![t] = Idle] /\ Overtakes(t) /\ UNCHANGED <<log, known, mfc, queue>>
      /\ dynamic' = [w \in DOMAIN dynamic \ {v} |-> dynamic[w]]
  BY DEF Drop, Finish
<1>2. DOMAIN dynamic \subseteq Vif /\ dynamic \in [DOMAIN dynamic -> Seq(Route)]
  BY Types DEF IInv
<1>3. DOMAIN dynamic' \subseteq Vif /\ dynamic' \in [DOMAIN dynamic' -> Seq(Route)]
  BY <1>1, <1>2
<1>4. v \notin DOMAIN dynamic'
  BY <1>1
<1>5. \A w : w # v => /\ w \in DOMAIN dynamic' <=> w \in DOMAIN dynamic
                      /\ w \in DOMAIN dynamic => dynamic'[w] = dynamic[w]
  BY <1>1
<1> QED BY <1>1, <1>3, <1>4, <1>5, IdleJob, ListInv

LEMMA TakeOutInv == ASSUME IInv, NEW t \in Thread, TakeOut(t) PROVE IInv'
<1> DEFINE v == job[t].vif
           r == job[t].route
           s == dynamic[v]
<1>1. /\ Goto(t, "test") /\ Overtakes(t) /\ UNCHANGED <<log, known, mfc, queue>>
      /\ Lists(v, r) /\ dynamic' = [dynamic EXCEPT ![v] = RemoveFirst(s, r)]
      /\ job[t].at = "take" /\ "test" \in Places
  BY DEF TakeOut, At, Places
<1>2. PICK j \in Job : /\ job' = [job EXCEPT ![t] = j]
                       /\ j.at = "test" /\ j.vif = v /\ j.route = r
                       /\ j.oifs = job[t].oifs
  BY <1>1, GotoJob DEF IInv
<1>3. Placed(j)
  BY <1>1, <1>2 DEF IInv, Placed, InDictionary, InKernel
<1>4. DOMAIN dynamic \subseteq Vif /\ dynamic \in [DOMAIN dynamic -> Seq(Route)]
  BY Types DEF IInv
<1>5. v \in DOMAIN dynamic /\ s \in Seq(Route) /\ \E p \in DOMAIN s : s[p] = r
  BY <1>1, <1>4 DEF Lists
<1>6. /\ RemoveFirst(s, r) \in Seq(Route)
      /\ \A p \in DOMAIN RemoveFirst(s, r) :
            \E q \in DOMAIN s : RemoveFirst(s, r)[p] = s[q]
  BY <1>5, RemoveFirstKeeps
<1>7. dynamic'[v] = RemoveFirst(s, r)
  BY <1>1, <1>4, <1>5
<1>8. DOMAIN dynamic' \subseteq Vif /\ dynamic' \in [DOMAIN dynamic' -> Seq(Route)]
  BY <1>1, <1>4, <1>6
<1>9. ASSUME NEW p \in DOMAIN dynamic'[v] PROVE Under(v, dynamic'[v][p].from)
  <2>1. PICK q \in DOMAIN s : dynamic'[v][p] = s[q]
    BY <1>6, <1>7
  <2> QED BY <1>5, <2>1 DEF IInv, ListsFollow
<1>10. \A w : w # v => /\ w \in DOMAIN dynamic' <=> w \in DOMAIN dynamic
                       /\ w \in DOMAIN dynamic => dynamic'[w] = dynamic[w]
  BY <1>1, <1>4
<1>11. /\ Overtakes(t) /\ UNCHANGED <<log, known, mfc, queue>>
       /\ j.at \notin {"put", "drop"} /\ j \in Job
       /\ dynamic'[v] = <<>> => j.at = "test" /\ j.vif = v
       /\ v = job[t].vif
  BY <1>1, <1>2
<1> HIDE DEF v, r, s
<1>12. /\ job' = [job EXCEPT ![t] = j]
       /\ v \in DOMAIN dynamic' =>
            /\ \A p \in DOMAIN dynamic'[v] : Under(v, dynamic'[v][p].from)
            /\ dynamic'[v] = <<>> => j.at = "test" /\ j.vif = v
  BY <1>2, <1>9, <1>11
<1> QED BY ZenonT(40), <1>3, <1>8, <1>10, <1>11, <1>12, ListInv

(***************************************************************************)
(* Requests at the kernel, and the listener.                               *)
(***************************************************************************)
LEMMA SizeInv == ASSUME IInv, NEW t \in Thread, Size(t) PROVE IInv'
<1> DEFINE j == [job[t] EXCEPT !.size = known, !.todo = job[t].route.to, !.at = "oifs"]
<1>1. /\ job[t] \in Job /\ known \in 0..MaxVifs
      /\ job[t].route.to \subseteq Dev
  BY Types, MfcManagerAssumption DEF IInv, Job
<1>2. job' = [job EXCEPT ![t] = j]
  BY DEF Size
<1>3. j \in Job
  BY <1>1 DEF Job, Places
<1>4. job[t].at = "size" /\ UNCHANGED <<log, known, dynamic, mfc, queue, stale>>
  BY DEF Size, At
<1>5. Placed(j)
  <2>1. Under(job[t].vif, job[t].route.from) /\ ~Dynamic(job[t].route) /\ job[t].oifs = {}
    BY <1>4 DEF IInv, Placed, InKernel
  <2>2. /\ j.at = "oifs" /\ j.vif = job[t].vif /\ j.route = job[t].route
        /\ j.oifs = {} /\ j.todo = j.route.to
    BY <1>1, <2>1 DEF Job
  <2>3. Resolve({}, j.route.to \ j.todo)
    BY <2>2 DEF Resolve
  <2> HIDE DEF j
  <2> QED BY <2>1, <2>2, <2>3 DEF Placed
<1>6. j.at = "oifs"
  BY <1>1 DEF Job
<1> HIDE DEF j
<1> QED BY <1>2, <1>3, <1>4, <1>5, <1>6, RequestOnlyInv

LEMMA OifInv == ASSUME IInv, NEW t \in Thread, NEW d \in Dev, Oif(t, d) PROVE IInv'
<1>1. job[t].at = "oifs" /\ UNCHANGED <<log, known, dynamic, mfc, queue, stale>>
      /\ d \in job[t].todo
  BY DEF Oif, At
<1>2. CASE Finish(t)
  BY <1>1, <1>2, FinishInv
<1>3. CASE Listed(d) /\ ~Finish(t)
  <2> DEFINE j == [job[t] EXCEPT !.todo = @ \ {d}, !.oifs = @ \cup {Vifi(d)}]
  <2>1. job[t] \in Job
    BY Types DEF IInv
  <2>2. Vifi(d) \in Vif /\ Under(Vifi(d), d)
    BY <1>3, VifiUnder DEF IInv
  <2>3. job' = [job EXCEPT ![t] = j]
    BY <1>3 DEF Oif
  <2>4. j \in Job
    BY <2>1, <2>2 DEF Job
  <2>5. /\ j.at = "oifs" /\ j.vif = job[t].vif /\ j.route = job[t].route
        /\ j.todo = job[t].todo \ {d} /\ j.oifs = job[t].oifs \cup {Vifi(d)}
    BY <1>1, <2>1 DEF Job
  <2> HIDE DEF j
  <2>6. /\ Under(job[t].vif, job[t].route.from) /\ ~Dynamic(job[t].route)
        /\ job[t].todo \subseteq job[t].route.to
        /\ Resolve(job[t].oifs, job[t].route.to \ job[t].todo)
    BY <1>1 DEF IInv, Placed, InKernel
  <2>7. Resolve(j.oifs, j.route.to \ j.todo)
    <3> DEFINE done == job[t].route.to \ job[t].todo
    <3>1. j.route.to \ j.todo = done \cup {d}
      BY <1>1, <2>5, <2>6
    <3>2. {log[v + 1] : v \in job[t].oifs} = done
      BY <2>6 DEF Resolve
    <3>3. {log[v + 1] : v \in j.oifs} = {log[v + 1] : v \in job[t].oifs} \cup {log[Vifi(d) + 1]}
      BY <2>5
    <3>4. log[Vifi(d) + 1] = d
      BY <2>2 DEF Under
    <3>5. \A v \in j.oifs : v + 1 \in DOMAIN log
      BY <2>2, <2>5, <2>6 DEF Resolve, Under
    <3> QED BY <3>1, <3>2, <3>3, <3>4, <3>5 DEF Resolve
  <2>8. Placed(j)
    BY <2>5, <2>6, <2>7 DEF Placed
  <2> QED BY <1>1, <2>3, <2>4, <2>5, <2>8, RequestOnlyInv
<1> QED BY <1>2, <1>3 DEF Oif

LEMMA AddMfcInv == ASSUME IInv, NEW t \in Thread, AddMfc(t) PROVE IInv'
<1> DEFINE r == job[t].route
           e == [parent |-> job[t].vif, oifs |-> job[t].oifs, route |-> r]
           new == [k \in DOMAIN mfc \cup {Key(r)} |-> IF k = Key(r) THEN e ELSE mfc[k]]
<1>1. /\ job[t].at = "oifs" /\ job[t].todo = {} /\ Finish(t) /\ mfc' = new
      /\ UNCHANGED <<log, known, dynamic, queue, stale>>
  BY DEF AddMfc, At
<1>2. /\ Under(job[t].vif, r.from) /\ r.source # AnyAddr /\ Resolve(job[t].oifs, r.to)
  <2>1. r.to \ {} = r.to
    OBVIOUS
  <2> QED BY <1>1, <2>1 DEF IInv, Placed, InKernel, Dynamic
<1>3. job[t] \in Job /\ r \in Route
  BY Types DEF IInv, Job
<1>4. e \in Entry /\ Key(r) \in Sender \X Group
  <2>1. job[t].vif # NoVif
    <3>1. job[t].vif + 1 \in 1..Len(log) /\ Len(log) <= MaxVifs /\ Len(log) \in Nat
      BY <1>2, Types DEF IInv, Under
    <3> QED BY <3>1, MfcManagerAssumption DEF NoVif
  <2>2. job[t].vif \in Vif /\ job[t].oifs \in SUBSET Vif
    BY <1>3, <2>1 DEF Job
  <2>3. r.source \in Sender /\ r.group \in Group
    BY <1>2, <1>3, MfcManagerAssumption
  <2> QED BY <1>3, <2>2, <2>3 DEF Entry, Key
<1>5. DOMAIN mfc \subseteq Sender \X Group /\ mfc \in [DOMAIN mfc -> Entry]
  BY Types DEF IInv
<1>6. \E K \in SUBSET (Sender \X Group) : mfc' \in [K -> Entry]
  <2>1. DOMAIN mfc \cup {Key(r)} \in SUBSET (Sender \X Group)
    BY <1>4, <1>5
  <2>2. mfc' \in [DOMAIN mfc \cup {Key(r)} -> Entry]
    <3> HIDE DEF e, r
    <3> QED BY <1>1, <1>4, <1>5
  <2> QED BY <2>1, <2>2
<1>7. EntriesFollow'
  <2>0. log' = log
    BY <1>1
  <2> SUFFICES ASSUME NEW k \in DOMAIN mfc'
               PROVE  /\ Under(mfc'[k].parent, mfc'[k].route.from)
                      /\ Resolve(mfc'[k].oifs, mfc'[k].route.to)
    BY <2>0 DEF EntriesFollow, Under, Resolve
  <2>1. CASE k = Key(r)
    <3>1. mfc'[k] = e
      BY <1>1, <2>1
    <3>2. e.parent = job[t].vif /\ e.oifs = job[t].oifs /\ e.route = r
      OBVIOUS
    <3> QED BY <1>2, <3>1, <3>2
  <2>2. CASE k # Key(r)
    <3>1. k \in DOMAIN mfc /\ mfc'[k] = mfc[k]
      BY <1>1, <2>2
    <3> QED BY <3>1 DEF IInv, EntriesFollow
  <2> QED BY <2>1, <2>2
<1> HIDE DEF new
<1> QED BY <1>1, <1>6, <1>7, IdleJob, RequestInv DEF Finish

LEMMA DelMfcInv == ASSUME IInv, NEW t \in Thread, DelMfc(t) PROVE IInv'
<1>1. /\ job[t].at = "syscall" /\ Finish(t)
      /\ mfc' = [k \in DOMAIN mfc \ {Key(job[t].route)} |-> mfc[k]]
      /\ UNCHANGED <<log, known, dynamic, queue, stale>>
  BY DEF DelMfc, At
<1>2. DOMAIN mfc \subseteq Sender \X Group /\ mfc \in [DOMAIN mfc -> Entry]
  BY Types DEF IInv
<1>3. \E K \in SUBSET (Sender \X Group) : mfc' \in [K -> Entry]
  <2>1. mfc' \in [DOMAIN mfc \ {Key(job[t].route)} -> Entry]
    BY <1>1, <1>2
  <2> QED BY <1>2, <2>1
<1>4. EntriesFollow'
  BY <1>1 DEF IInv, EntriesFollow, Under, Resolve
<1> QED BY <1>1, <1>3, <1>4, IdleJob, RequestInv DEF Finish

\* The listener and the packets it is told of touch nothing but the queue:
\* match() never finds an MFC entry.
LEMMA AnsweredSame == ASSUME NEW m PROVE Answered(m) = mfc
BY DEF Answered, MatchStatic, StrIsAddress

LEMMA QueueInv ==
    ASSUME IInv, UNCHANGED <<log, known, dynamic, mfc, job, stale>>,
           queue' \in Seq(Message), Len(queue') <= MaxQueue
    PROVE  IInv'
<1>1. TypeOK'
  BY DEF IInv, TypeOK
<1>2. \A t \in Thread : Placed(job[t])' /\ Looked(t)'
  BY DEF IInv, Placed, Under, Resolve, Looked, Truthy, Dynamic
<1>3. EntriesFollow' /\ ListsFollow' /\ Swept'
  BY DEF IInv, EntriesFollow, ListsFollow, Swept, Under, Resolve
<1> QED BY <1>1, <1>2, <1>3 DEF IInv

LEMMA SocketInv ==
    ASSUME IInv,
           \/ \E m \in Packet : NoCache(m)
           \/ \E kind \in {"other", "malformed"} : OtherMessage(kind)
           \/ Listen
    PROVE  IInv'
<1>1. queue \in Seq(Message) /\ Len(queue) \in Nat /\ Len(queue) <= MaxQueue
  BY Types DEF IInv
<1>2. ASSUME NEW m \in Message, Len(queue) < MaxQueue, queue' = Append(queue, m),
             UNCHANGED <<log, known, dynamic, mfc, job, stale>>
      PROVE  IInv'
  <2>1. queue' \in Seq(Message) /\ Len(queue') <= MaxQueue
    BY <1>1, <1>2, MfcManagerAssumption
  <2> QED BY <1>2, <2>1, QueueInv
<1>3. ASSUME NEW m \in Packet, NoCache(m) PROVE IInv'
  BY <1>2, <1>3 DEF NoCache, Message
<1>4. ASSUME NEW kind \in {"other", "malformed"}, OtherMessage(kind) PROVE IInv'
  <2>1. [kind |-> kind] \in Message
    BY DEF Message
  <2> QED BY <1>2, <1>4, <2>1 DEF OtherMessage
<1>5. CASE Listen
  <2>1. queue # <<>> /\ queue' = Tail(queue) /\ UNCHANGED <<log, known, dynamic, job, stale>>
        /\ mfc' = mfc
    BY <1>5, AnsweredSame DEF Listen
  <2>2. queue' \in Seq(Message) /\ Len(queue') <= MaxQueue
    BY <1>1, <2>1, MfcManagerAssumption
  <2> QED BY <2>1, <2>2, QueueInv
<1> QED BY <1>3, <1>4, <1>5

LEMMA NextInv == IInv /\ [Next]_vars => IInv'
<1> SUFFICES ASSUME IInv, [Next]_vars PROVE IInv'
  OBVIOUS
<1>1. ASSUME NEW t \in Thread, Work(t) PROVE IInv'
  <2>1. CASE Replace(t)
    BY <2>1, FinishInv DEF Replace, At
  <2>2. CASE NothingToTake(t)
    BY <2>2, FinishInv DEF NothingToTake, At
  <2> QED BY <1>1, <2>1, <2>2, ParentInv, GetInv, PutInv, TakeOutInv, TestEmptyInv, DropInv,
             SizeInv, OifInv, AddMfcInv, DelMfcInv DEF Work
<1>2. CASE UNCHANGED vars
  <2>1. UNCHANGED <<log, known, dynamic, mfc, job, queue, stale>>
    BY <1>2 DEF vars
  <2>2. queue' \in Seq(Message) /\ Len(queue') <= MaxQueue
    BY <2>1, Types DEF IInv
  <2> QED BY <2>1, <2>2, QueueInv
<1> QED BY <1>1, <1>2, InterfacesInv, BeginInv, SocketInv DEF Next

LEMMA InvAlways == Spec => []IInv
BY InitInv, NextInv, PTL DEF Spec

(***************************************************************************)
(* The theorems.                                                           *)
(***************************************************************************)
\* Every reachable state of the manager is well formed; in particular the keys of
\* the kernel's cache are pairs of a sender and a group, never a route without a source.
THEOREM TypeCorrect == Spec => []TypeOK
<1>1. IInv => TypeOK
  BY DEF IInv
<1> QED BY InvAlways, <1>1, PTL

\* However a request's name lookups interleave with VifManager's replacing the
\* name list, every MFC entry forwards from the interface its route names to
\* exactly the interfaces it names, and a route waits under its interface's VIF.
THEOREM RoutesFollowInterfacesAlways == Spec => []RoutesFollowInterfaces
<1>1. IInv => RoutesFollowInterfaces
  BY DEF IInv, EntriesFollow, ListsFollow, Under, Resolve, RoutesFollowInterfaces
<1> QED BY InvAlways, <1>1, PTL

\* However many threads remove the same route, no VIF is left with an empty
\* list once all of them have answered.
THEOREM NoEmptyListAlways == Spec => []NoEmptyList
<1>1. IInv => NoEmptyList
  BY DEF IInv, Swept, NoEmptyList
<1> QED BY InvAlways, <1>1, PTL

\* A step that leaves the dictionary as it is loses no route.
LEMMA SameLists == dynamic' = dynamic => LostOnlyToRaces
BY DEF LostOnlyToRaces, Lists

\* A route leaves the dictionary by its own removal, or because a thread acts
\* on what it saw of the list before another thread changed it.
THEOREM LossesAreRacesAlways == Spec => LossesAreRaces
<1>1. ASSUME IInv, [Next]_vars PROVE LostOnlyToRaces
  <2>1. ASSUME NEW t \in Thread, Put(t) \/ Drop(t) PROVE LostOnlyToRaces
    <3> SUFFICES ASSUME NEW v \in Vif, NEW r \in Route, Lists(v, r), ~Lists(v, r)'
                 PROVE  job[t].vif = v /\ job'[t] # job[t] /\ t \in stale
      BY DEF LostOnlyToRaces
    <3>1. job[t].at \in {"put", "drop"} /\ job'[t] = Idle
      BY <2>1, <1>1, Types DEF IInv, Put, Drop, At, Finish
    <3>2. job'[t] # job[t]
      BY <3>1, IdleJob
    <3>3. job[t].vif = v
      <4> SUFFICES ASSUME job[t].vif # v PROVE Lists(v, r)'
        OBVIOUS
      <4>1. v \in DOMAIN dynamic' /\ dynamic'[v] = dynamic[v]
        BY <2>1 DEF Put, Drop, Lists
      <4> QED BY <4>1 DEF Lists
    <3>4. Truthy(v)
      BY DEF Lists, Truthy
    <3> QED BY <1>1, <3>1, <3>2, <3>3, <3>4 DEF IInv, Looked
  <2>2. ASSUME NEW t \in Thread, TakeOut(t) PROVE LostOnlyToRaces
    <3> SUFFICES ASSUME NEW v \in Vif, NEW r \in Route, Lists(v, r), ~Lists(v, r)'
                 PROVE  /\ job[t].vif = v /\ job'[t] # job[t]
                        /\ job[t].op = "remove" /\ job[t].route = r
      BY DEF LostOnlyToRaces
    <3> DEFINE s == dynamic[job[t].vif]
    <3>1. /\ job[t].op = "remove" /\ job[t].at = "take" /\ Goto(t, "test")
          /\ Lists(job[t].vif, job[t].route)
          /\ dynamic' = [dynamic EXCEPT ![job[t].vif] = RemoveFirst(s, job[t].route)]
      BY <2>2 DEF TakeOut, At
    <3>2. dynamic \in [DOMAIN dynamic -> Seq(Route)] /\ job \in [Thread -> Job]
      BY <1>1, Types DEF IInv
    <3>3. job'[t].at = "test"
      BY <3>1, <3>2 DEF Goto, Job
    <3>4. job[t].vif = v
      BY <3>1, <3>2 DEF Lists
    <3>5. dynamic'[v] = RemoveFirst(s, job[t].route) /\ v \in DOMAIN dynamic'
      BY <3>1, <3>2, <3>4 DEF Lists
    <3>6. s \in Seq(Route) /\ \E p \in DOMAIN s : s[p] = job[t].route
      BY <3>1, <3>2 DEF Lists
    <3>7. \A q \in DOMAIN s : s[q] # job[t].route =>
             \E p \in DOMAIN RemoveFirst(s, job[t].route) :
                RemoveFirst(s, job[t].route)[p] = s[q]
      <4> DEFINE x == job[t].route
      <4>1. s \in Seq(Route) /\ \E p \in DOMAIN s : s[p] = x
        BY <3>6
      <4> HIDE DEF s, x
      <4>2. \A q \in DOMAIN s : s[q] # x =>
               \E p \in DOMAIN RemoveFirst(s, x) : RemoveFirst(s, x)[p] = s[q]
        BY <4>1, RemoveFirstKeeps
      <4> QED BY <4>2 DEF x
    <3>8. job[t].route = r
      <4> SUFFICES ASSUME job[t].route # r PROVE Lists(v, r)'
        OBVIOUS
      <4>1. PICK q \in DOMAIN s : s[q] = r
        BY <3>4 DEF Lists
      <4>2. PICK p \in DOMAIN dynamic'[v] : dynamic'[v][p] = r
        BY <3>5, <3>7, <4>1
      <4> QED BY <3>5, <4>2 DEF Lists
    <3> QED BY <3>1, <3>3, <3>4, <3>8
  <2>3. \/ dynamic' = dynamic
        \/ \E t \in Thread : Put(t) \/ Drop(t) \/ TakeOut(t)
    BY <1>1 DEF Next, vars, Interfaces, Begin, NoCache, OtherMessage, Listen, Work, Parent,
                NoParent, Get, Replace, NothingToTake, TestEmpty, Size, Oif, AddMfc, DelMfc
  <2> QED BY <2>1, <2>2, <2>3, SameLists
<1>2. Init => IInv
  BY InitInv
<1>3. IInv /\ [Next]_vars => IInv' /\ LostOnlyToRaces
  BY NextInv, <1>1
<1> QED BY <1>2, <1>3, PTL DEF Spec, LossesAreRaces
===============================================================================
