---------------------------- MODULE LifecycleProofs ----------------------------
(***************************************************************************)
(* For any number of processes, any host and any files: the state is well  *)
(* typed, the kernel's tables belong to one process and do not outlive it, *)
(* only their owner or a daemon that starts changes them, and a daemon     *)
(* that starts undisturbed serves what its file says.                      *)
(*                                                                         *)
(* Inv adds to these what a process knows at each step of its start: a     *)
(* daemon past load_config has a file that loads, its counter points into  *)
(* the names, and a shell between enable_mrt and flush already owns empty  *)
(* tables.  CInv adds what an undisturbed daemon has set up so far.        *)
(***************************************************************************)
EXTENDS Lifecycle, VifTableProofs

\* A daemon's file and counter, and a shell's places.
Progress(p) ==
    /\ p \in ShellProcess => proc[p].at \in {"off", "enable", "flush", "serving"}
    /\ p \in Daemon /\ proc[p].at # "off" => proc[p].file \in File
    /\ p \in Daemon /\ proc[p].at \notin {"off", "load"} => Loads(proc[p].file)
    /\ proc[p].at \in {"load", "flush", "enable"} => proc[p].next = 0
    /\ proc[p].at = "off" => proc[p] = Off
    /\ proc[p].at \in {"vifs", "list"} => proc[p].next < Len(proc[p].file.names)

\* A shell that has enabled multicast routing and not flushed yet.
Settled(p) ==
    p \in ShellProcess /\ proc[p].at = "flush" =>
        owner = p /\ vifs = EmptyTable /\ mfc = <<>>

Inv ==
    /\ TypeOK
    /\ NothingOutlivesItsOwner
    /\ \A p \in Process : Progress(p) /\ Settled(p)

(***************************************************************************)
(* What an assignment to one process's record does.                        *)
(***************************************************************************)
LEMMA GotoMoves ==
    ASSUME TypeOK, NEW p \in Process, NEW place, Goto(p, place)
    PROVE  /\ DOMAIN proc' = Process
           /\ \A q \in Process \ {p} : proc'[q] = proc[q]
           /\ DOMAIN proc'[p] = DOMAIN Off
           /\ proc'[p].at = place
           /\ proc'[p].file = proc[p].file
           /\ proc'[p].next = proc[p].next
           /\ proc'[p].names = proc[p].names
    BY DEF TypeOK, Goto, Off

LEMMA OffType ==
    /\ DOMAIN [at |-> "off", file |-> NoFile, next |-> 0, names |-> <<>>, dynamic |-> <<>>]
         = DOMAIN Off
    /\ Off.at = "off" /\ Off.file = NoFile /\ Off.next = 0 /\ Off.names = <<>>
    /\ <<>> \in Seq(Dev)
    BY DEF Off

LEMMA TableType ==
    EmptyTable \in Table
    BY DEF EmptyTable, Table

LEMMA AddedType ==
    ASSUME NEW tbl \in Table, NEW i, NEW d \in Dev, CanAdd(tbl, i)
    PROVE  Added(tbl, i, d) \in Table
    BY DEF Table, Added, CanAdd

LEMMA DeletedType ==
    ASSUME NEW tbl \in Table, NEW i, CanDelete(tbl, i)
    PROVE  Deleted(tbl, i) \in Table
    BY DEF Table, Deleted, CanDelete

(***************************************************************************)
(* A step of process p preserves the invariant if p's record stays in      *)
(* order, if the socket passes only between p and nobody, and if the       *)
(* tables change only in p's hands or to nothing.                          *)
(***************************************************************************)
RecordType(r) ==
    /\ DOMAIN r = DOMAIN Off
    /\ r.at \in Starting \cup {"off", "serving"}
    /\ r.file \in File \cup {NoFile}
    /\ r.next \in Nat
    /\ r.names \in Seq(Dev)

Owns(r, p) == r.at \in Owning \/ (p \in ShellProcess /\ r.at = "flush")

LEMMA StepInv ==
    ASSUME Inv, NEW p \in Process,
           DOMAIN proc' = Process, \A q \in Process \ {p} : proc'[q] = proc[q],
           RecordType(proc'[p]), Progress(p)', Settled(p)',
           owner' = owner \/ (owner \in {p, NoProcess} /\ owner' \in {p, NoProcess}),
           Owns(proc'[p], p) => owner' = p,
           owner' = NoProcess => vifs' = EmptyTable /\ mfc' = <<>>,
           \/ vifs' = vifs /\ mfc' = mfc
           \/ owner' = p /\ vifs' \in Table
           \/ vifs' = EmptyTable /\ mfc' = <<>>,
           disturbed' \subseteq Process
    PROVE  Inv'
<1>1. TypeOK'
    <2>1. owner' \in Process \cup {NoProcess} /\ vifs' \in Table
        BY TableType DEF Inv, TypeOK
    <2>2. \A q \in Process : RecordType(proc'[q])
        BY DEF Inv, TypeOK, RecordType
    <2> QED BY <2>1, <2>2 DEF TypeOK, RecordType
<1>2. NothingOutlivesItsOwner'
    <2>1. ASSUME NEW q \in Process, proc'[q].at \in Owning PROVE owner' = q
        <3>1. CASE q = p
            BY <2>1, <3>1 DEF Owns
        <3>2. CASE q # p
            <4>1. proc[q].at \in Owning
                BY <2>1, <3>2
            <4>2. owner = q
                BY <4>1 DEF Inv, NothingOutlivesItsOwner
            <4> QED BY <4>2, <3>2, LifecycleAssumption
        <3> QED BY <3>1, <3>2
    <2> QED BY <2>1 DEF NothingOutlivesItsOwner
<1>3. ASSUME NEW q \in Process \ {p} PROVE Progress(q)' /\ Settled(q)'
    BY LifecycleAssumption DEF Inv, Progress, Settled
<1> QED BY <1>1, <1>2, <1>3 DEF Inv

(***************************************************************************)
(* The steps.                                                              *)
(***************************************************************************)
LEMMA OffRecord == RecordType(Off)
<1>1. DOMAIN Off = DOMAIN Off /\ Off.at \in Starting \cup {"off", "serving"}
    BY DEF Off
<1>2. Off.file \in File \cup {NoFile} /\ Off.next \in Nat /\ Off.names \in Seq(Dev)
    BY OffType
<1> QED BY <1>1, <1>2 DEF RecordType

LEMMA InitInv == Init => Inv
<1> SUFFICES ASSUME Init PROVE Inv
    OBVIOUS
<1>1. \A p \in Process : proc[p] = Off /\ RecordType(proc[p])
    BY OffRecord DEF Init
<1>2. TypeOK
    BY <1>1, TableType DEF Init, TypeOK, RecordType
<1>3. NothingOutlivesItsOwner
    BY <1>1, OffType DEF Init, NothingOutlivesItsOwner, Owning
<1>4. \A p \in Process : Progress(p) /\ Settled(p)
    BY <1>1, OffType DEF Progress, Settled
<1> QED BY <1>2, <1>3, <1>4 DEF Inv

LEMMA EndsInv ==
    ASSUME Inv, NEW p \in Process, Ends(p)
    PROVE  Inv'
<1>1. DOMAIN proc' = Process /\ proc'[p] = Off /\ \A q \in Process \ {p} : proc'[q] = proc[q]
    BY DEF Inv, TypeOK, Ends
<1>2. RecordType(proc'[p])
    BY <1>1, OffRecord
<1>3. Progress(p)' /\ Settled(p)' /\ ~Owns(proc'[p], p)
    BY <1>1, OffType DEF Progress, Settled, Owns, Owning
<1>4. \/ owner = p /\ owner' = NoProcess /\ vifs' = EmptyTable /\ mfc' = <<>>
      \/ owner' = owner /\ vifs' = vifs /\ mfc' = mfc
    BY DEF Ends
<1>5. owner' = NoProcess => vifs' = EmptyTable /\ mfc' = <<>>
    BY <1>4 DEF Inv, NothingOutlivesItsOwner
<1>6. disturbed' \subseteq Process
    BY DEF Inv, TypeOK, Ends
<1> QED BY <1>1, <1>2, <1>3, <1>4, <1>5, <1>6, StepInv

LEMMA StartInv ==
    ASSUME Inv, NEW p \in Process,
           StartShell(p) \/ \E file \in File : StartDaemon(p, file)
    PROVE  Inv'
<1>1. proc[p] = Off /\ UNCHANGED <<owner, vifs, mfc, disturbed>>
    BY DEF Inv, Progress, At, StartShell, StartDaemon
<1>2. owner' = NoProcess => vifs' = EmptyTable /\ mfc' = <<>>
    BY <1>1 DEF Inv, NothingOutlivesItsOwner
<1>3. CASE StartShell(p)
    <2>1. p \in ShellProcess /\ p \notin Daemon /\ Goto(p, "enable")
        BY <1>3, LifecycleAssumption DEF StartShell
    <2>2. /\ DOMAIN proc' = Process /\ \A q \in Process \ {p} : proc'[q] = proc[q]
          /\ DOMAIN proc'[p] = DOMAIN Off /\ proc'[p].at = "enable"
          /\ proc'[p].file = NoFile /\ proc'[p].next = 0 /\ proc'[p].names = <<>>
        BY <1>1, <2>1, GotoMoves, OffType DEF Inv
    <2>3. RecordType(proc'[p])
        BY <2>2 DEF RecordType, Starting
    <2>4. Progress(p)' /\ Settled(p)' /\ ~Owns(proc'[p], p)
        BY <2>1, <2>2 DEF Progress, Settled, Owns, Owning
    <2> QED BY <1>1, <1>2, <2>2, <2>3, <2>4, StepInv DEF Inv, TypeOK
<1>4. ASSUME NEW file \in File, StartDaemon(p, file) PROVE Inv'
    <2>1. p \in Daemon /\ p \notin ShellProcess
        BY <1>4, LifecycleAssumption DEF StartDaemon
    <2>2. /\ DOMAIN proc' = Process /\ \A q \in Process \ {p} : proc'[q] = proc[q]
          /\ DOMAIN proc'[p] = DOMAIN Off /\ proc'[p].at = "load"
          /\ proc'[p].file = file /\ proc'[p].next = 0 /\ proc'[p].names = <<>>
        BY <1>1, <1>4, OffType DEF Inv, TypeOK, StartDaemon, Off
    <2>3. RecordType(proc'[p])
        BY <2>2 DEF RecordType, Starting
    <2>4. Progress(p)' /\ Settled(p)' /\ ~Owns(proc'[p], p)
        BY <2>1, <2>2 DEF Progress, Settled, Owns, Owning
    <2> QED BY <1>1, <1>2, <2>2, <2>3, <2>4, StepInv DEF Inv, TypeOK
<1> QED BY <1>3, <1>4

\* A step that only moves p on, its file and names as they were.
LEMMA MoveInv ==
    ASSUME Inv, NEW p \in Process, NEW place \in Starting \cup {"serving"}, Goto(p, place),
           Progress(p)', Settled(p)',
           owner' = owner \/ (owner \in {p, NoProcess} /\ owner' \in {p, NoProcess}),
           place \in Owning \/ (p \in ShellProcess /\ place = "flush") => owner' = p,
           owner' = NoProcess => vifs' = EmptyTable /\ mfc' = <<>>,
           \/ vifs' = vifs /\ mfc' = mfc
           \/ owner' = p /\ vifs' \in Table
           \/ vifs' = EmptyTable /\ mfc' = <<>>,
           disturbed' \subseteq Process
    PROVE  Inv'
<1>1. /\ DOMAIN proc' = Process /\ \A q \in Process \ {p} : proc'[q] = proc[q]
      /\ DOMAIN proc'[p] = DOMAIN Off /\ proc'[p].at = place
      /\ proc'[p].file = proc[p].file /\ proc'[p].next = proc[p].next
      /\ proc'[p].names = proc[p].names
    BY GotoMoves DEF Inv
<1>2. RecordType(proc'[p])
    BY <1>1 DEF Inv, TypeOK, RecordType
<1>3. Owns(proc'[p], p) => owner' = p
    BY <1>1 DEF Owns
<1> QED BY <1>1, <1>2, <1>3, StepInv

\* What a process at a given place knows.
LEMMA Facts ==
    ASSUME Inv, NEW p \in Process
    PROVE  /\ TypeOK /\ Progress(p) /\ Settled(p)
           /\ proc[p].at \in Owning => owner = p
           /\ p # NoProcess
           /\ owner = NoProcess => vifs = EmptyTable /\ mfc = <<>>
    BY LifecycleAssumption DEF Inv, NothingOutlivesItsOwner

LEMMA LoadInv ==
    ASSUME Inv, NEW p \in Process, Load(p)
    PROVE  Inv'
<1>1. p \in Daemon /\ p \notin ShellProcess /\ proc[p].at = "load" /\ proc[p].file \in File
    BY Facts, LifecycleAssumption DEF Load, At, Progress, Process
<1>2. Goto(p, "flush") /\ UNCHANGED <<owner, vifs, mfc, disturbed>> /\ Loads(proc[p].file)
    BY DEF Load
<1>3. /\ DOMAIN proc'[p] = DOMAIN Off /\ proc'[p].at = "flush"
      /\ proc'[p].file = proc[p].file /\ proc'[p].next = proc[p].next
    BY <1>2, Facts, GotoMoves
<1>4. Loads(proc'[p].file)
    BY <1>2, <1>3
<1>5. Progress(p)' /\ Settled(p)'
    BY <1>1, <1>3, <1>4, Facts DEF Progress, Settled
<1> QED BY <1>1, <1>2, <1>5, Facts, MoveInv DEF Starting, Owning, TypeOK

LEMMA FlushInv ==
    ASSUME Inv, NEW p \in Process, Flush(p)
    PROVE  Inv'
<1> DEFINE place == IF p \in Daemon THEN "enable" ELSE "serving"
<1>1. /\ proc[p].at = "flush" /\ Goto(p, place)
      /\ owner' = owner /\ vifs' = EmptyTable /\ mfc' = <<>>
    BY DEF Flush, At
<1>2. /\ proc'[p].at = place
      /\ proc'[p].file = proc[p].file /\ proc'[p].next = proc[p].next
    BY <1>1, Facts, GotoMoves
<1>3. p \notin Daemon => p \in ShellProcess /\ owner = p
    BY <1>1, Facts DEF Settled, Process
<1>4. p \in Daemon => p \notin ShellProcess /\ proc[p].file \in File /\ Loads(proc[p].file)
    BY <1>1, Facts, LifecycleAssumption DEF Progress
<1>5. Progress(p)' /\ Settled(p)'
    BY <1>1, <1>2, <1>3, <1>4, Facts DEF Progress, Settled
<1>6. disturbed' \subseteq Process
    BY Facts DEF Flush, TypeOK
<1>7. place \in Owning \/ (p \in ShellProcess /\ place = "flush") => owner' = p
    BY <1>1, <1>3 DEF Owning
<1>8. place \in Starting \cup {"serving"}
    BY DEF Starting
<1> HIDE DEF place
<1> QED BY <1>1, <1>5, <1>6, <1>7, <1>8, MoveInv

LEMMA EnableInv ==
    ASSUME Inv, NEW p \in Process, Enable(p)
    PROVE  Inv'
<1> DEFINE place == IF p \in Daemon THEN "vifs" ELSE "flush"
<1>1. /\ proc[p].at = "enable" /\ Goto(p, place) /\ owner = NoProcess /\ owner' = p
      /\ vifs' = EmptyTable /\ mfc' = <<>> /\ disturbed' = disturbed
    BY Facts DEF Enable, At
<1>2. /\ proc'[p].at = place
      /\ proc'[p].file = proc[p].file /\ proc'[p].next = proc[p].next
    BY <1>1, Facts, GotoMoves
<1>3. p \notin Daemon => p \in ShellProcess
    BY DEF Process
<1>4. p \in Daemon =>
        /\ p \notin ShellProcess /\ proc[p].file \in File /\ Loads(proc[p].file)
        /\ proc[p].next < Len(proc[p].file.names)
    <2>1. ASSUME NEW file \in File PROVE 0 < Len(file.names)
        BY LifecycleAssumption
    <2> QED BY <1>1, <2>1, Facts, LifecycleAssumption DEF Progress
<1>5. Progress(p)' /\ Settled(p)'
    BY <1>1, <1>2, <1>3, <1>4, Facts DEF Progress, Settled
<1>6. disturbed' \subseteq Process
    BY <1>1, Facts DEF TypeOK
<1>7. place \in Starting \cup {"serving"}
    BY DEF Starting
<1>8. owner' # NoProcess
    BY <1>1, Facts
<1> HIDE DEF place
<1> QED BY <1>1, <1>5, <1>6, <1>7, <1>8, MoveInv

LEMMA AddVifInv ==
    ASSUME Inv, NEW p \in Process, AddVif(p)
    PROVE  Inv'
<1>1. /\ proc[p].at = "vifs" /\ Goto(p, "list") /\ CanAdd(vifs, McastIndex(p))
      /\ vifs' = Added(vifs, McastIndex(p), Wanted(p))
      /\ owner' = owner /\ mfc' = mfc /\ disturbed' = disturbed
    BY DEF AddVif, At, Refused
<1>2. owner = p /\ p \in Daemon /\ p \notin ShellProcess
    BY <1>1, Facts, LifecycleAssumption DEF Owning, Progress, Process
<1>3. /\ proc[p].file \in File /\ Loads(proc[p].file)
      /\ proc[p].next \in Nat /\ proc[p].next < Len(proc[p].file.names)
    BY <1>1, <1>2, Facts DEF Progress, TypeOK
<1>4. Wanted(p) \in Dev
    <2>1. proc[p].next + 1 \in DOMAIN proc[p].file.names
        BY <1>3, LifecycleAssumption
    <2>2. Rows(Wanted(p)) # {}
        BY <1>3, <2>1 DEF Loads, GetsInterface, Wanted
    <2> QED BY <2>2, LifecycleAssumption DEF Rows
<1>5. vifs' \in Table
    BY <1>1, <1>4, AddedType, Facts DEF TypeOK
<1>6. /\ proc'[p].at = "list"
      /\ proc'[p].file = proc[p].file /\ proc'[p].next = proc[p].next
    BY <1>1, Facts, GotoMoves
<1>7. Loads(proc'[p].file)
    BY <1>3, <1>6
<1>8. Progress(p)' /\ Settled(p)'
    BY <1>2, <1>3, <1>6, <1>7 DEF Progress, Settled
<1>9. disturbed' \subseteq Process
    BY <1>1, Facts DEF TypeOK
<1>10. "list" \in Starting
    BY DEF Starting
<1> QED BY <1>1, <1>2, <1>5, <1>8, <1>9, <1>10, Facts, MoveInv

\* A step of the owning daemon p that changes only the forwarding cache and p's
\* own counter, names and waiting routes.
LEMMA OwnerInv ==
    ASSUME Inv, NEW p \in Daemon, owner = p, owner' = p, vifs' = vifs, disturbed' = disturbed,
           DOMAIN proc' = Process, \A q \in Process \ {p} : proc'[q] = proc[q],
           RecordType(proc'[p]), proc'[p].file = proc[p].file,
           proc[p].at \in {"list", "routes"}, proc'[p].at \in {"vifs", "routes"},
           proc'[p].at = "vifs" => proc'[p].next < Len(proc[p].file.names)
    PROVE  Inv'
<1>1. p \in Process /\ p \notin ShellProcess
    BY LifecycleAssumption DEF Process
<1>2. Loads(proc[p].file) /\ proc[p].file \in File
    BY <1>1, Facts DEF Progress
<1>3. Progress(p)' /\ Settled(p)'
    BY <1>1, <1>2 DEF Progress, Settled
<1>4. vifs' \in Table /\ disturbed' \subseteq Process /\ owner' # NoProcess
    BY <1>1, Facts DEF TypeOK
<1> QED BY <1>1, <1>3, <1>4, StepInv

LEMMA ReadNamesInv ==
    ASSUME Inv, NEW p \in Process, ReadNames(p)
    PROVE  Inv'
<1> DEFINE last == proc[p].next + 1 = Len(proc[p].file.names)
<1>1. /\ proc[p].at = "list" /\ owner' = owner /\ vifs' = vifs /\ disturbed' = disturbed
      /\ proc' = [proc EXCEPT ![p].names = NameList(vifs),
                              ![p].next = IF last THEN 1 ELSE @ + 1,
                              ![p].at = IF last THEN "routes" ELSE "vifs"]
    BY DEF ReadNames, At
<1>2. owner = p /\ p \in Daemon /\ p \notin ShellProcess
    BY <1>1, Facts, LifecycleAssumption DEF Owning, Progress, Process
<1>3. /\ proc[p].file \in File
      /\ proc[p].next \in Nat /\ proc[p].next < Len(proc[p].file.names)
    BY <1>1, <1>2, Facts DEF Progress, TypeOK
<1>4. NameList(vifs) \in Seq(Dev)
    BY NameListType, Facts DEF TypeOK
<1>5. /\ DOMAIN proc' = Process /\ \A q \in Process \ {p} : proc'[q] = proc[q]
      /\ DOMAIN proc'[p] = DOMAIN Off /\ proc'[p].file = proc[p].file
      /\ proc'[p].names = NameList(vifs)
      /\ proc'[p].next = IF last THEN 1 ELSE proc[p].next + 1
      /\ proc'[p].at = IF last THEN "routes" ELSE "vifs"
    BY <1>1, Facts DEF TypeOK, Off
<1>6. ~last => proc[p].next + 1 < Len(proc[p].file.names)
    BY <1>3, LifecycleAssumption
<1>7. RecordType(proc'[p])
    BY <1>3, <1>4, <1>5 DEF RecordType, Starting
<1> HIDE DEF last
<1> QED BY <1>1, <1>2, <1>5, <1>6, <1>7, OwnerInv

LEMMA AddRouteInv ==
    ASSUME Inv, NEW p \in Process, AddDynamic(p) \/ AddStatic(p)
    PROVE  Inv'
<1>1. /\ proc[p].at = "routes" /\ owner' = owner /\ vifs' = vifs /\ disturbed' = disturbed
    BY DEF AddDynamic, AddStatic, RoutesLeft, At
<1>2. owner = p /\ p \in Daemon
    BY <1>1, Facts DEF Owning, Progress, Process
<1>3. /\ DOMAIN proc' = Process /\ \A q \in Process \ {p} : proc'[q] = proc[q]
      /\ DOMAIN proc'[p] = DOMAIN Off /\ proc'[p].file = proc[p].file
      /\ proc'[p].names = proc[p].names /\ proc'[p].at = proc[p].at
      /\ proc'[p].next = proc[p].next + 1
    <2>1. CASE AddDynamic(p)
        <3> DEFINE more == [w \in DOMAIN proc[p].dynamic \cup {Vifi(p, Route(p).from)} |->
                              IF w = Vifi(p, Route(p).from) THEN Route(p)
                              ELSE proc[p].dynamic[w]]
        <3>1. proc' = [proc EXCEPT ![p].next = @ + 1, ![p].dynamic = more]
            BY <2>1, Facts DEF AddDynamic, TypeOK, Off
        <3> HIDE DEF more
        <3> QED BY <3>1, Facts DEF TypeOK, Off
    <2>2. CASE AddStatic(p)
        <3>1. proc' = [proc EXCEPT ![p].next = @ + 1]
            BY <2>2 DEF AddStatic
        <3> QED BY <3>1, Facts DEF TypeOK, Off
    <2> QED BY <2>1, <2>2
<1>4. RecordType(proc'[p])
    BY <1>1, <1>3, Facts DEF RecordType, TypeOK, Starting
<1> QED BY <1>1, <1>2, <1>3, <1>4, OwnerInv

LEMMA ServeInv ==
    ASSUME Inv, NEW p \in Process, Serve(p)
    PROVE  Inv'
<1>1. /\ proc[p].at = "routes" /\ Goto(p, "serving")
      /\ UNCHANGED <<owner, vifs, mfc, disturbed>>
    BY DEF Serve, At
<1>2. owner = p /\ p \in Daemon /\ p \notin ShellProcess
    BY <1>1, Facts, LifecycleAssumption DEF Owning, Progress, Process
<1>3. /\ proc[p].file \in File /\ Loads(proc[p].file)
    BY <1>1, <1>2, Facts DEF Progress
<1>4. proc'[p].at = "serving" /\ proc'[p].file = proc[p].file
    BY <1>1, Facts, GotoMoves
<1>5. Progress(p)' /\ Settled(p)'
    BY <1>2, <1>3, <1>4 DEF Progress, Settled
<1>6. disturbed' \subseteq Process /\ owner' = p /\ owner' # NoProcess
    BY <1>1, <1>2, Facts DEF TypeOK
<1> QED BY <1>1, <1>5, <1>6, MoveInv

\* Requests and commands change the tables of their process.
LEMMA RequestInv ==
    ASSUME Inv, NEW p \in Process, ChangeVif(p) \/ FlushCommand(p)
    PROVE  Inv'
<1>1. proc[p].at = "serving" /\ UNCHANGED <<owner, proc, disturbed>>
    BY DEF ChangeVif, FlushCommand, At
<1>2. owner = p
    BY <1>1, Facts DEF Owning
<1>3. vifs' \in Table
    <2>1. vifs \in Table
        BY Facts DEF TypeOK
    <2>2. CASE ChangeVif(p)
        BY <2>1, <2>2, AddedType, DeletedType DEF ChangeVif
    <2>3. CASE FlushCommand(p)
        BY <2>3, TableType DEF FlushCommand
    <2> QED BY <2>2, <2>3
<1>4. RecordType(proc'[p]) /\ DOMAIN proc' = Process /\ disturbed' \subseteq Process
    BY <1>1, Facts DEF RecordType, TypeOK
<1>5. Progress(p)' /\ Settled(p)'
    BY <1>1, Facts DEF Progress, Settled
<1>6. owner' = p /\ owner' # NoProcess
    BY <1>1, <1>2, Facts
<1> QED BY <1>1, <1>2, <1>3, <1>4, <1>5, <1>6, StepInv

LEMMA NextInv == Inv /\ [Next]_vars => Inv'
<1> SUFFICES ASSUME Inv, [Next]_vars PROVE Inv'
    OBVIOUS
<1>1. CASE UNCHANGED vars
    BY <1>1 DEF vars, Inv, TypeOK, NothingOutlivesItsOwner, Progress, Settled
<1>2. ASSUME NEW p \in Process,
             StartShell(p) \/ \E file \in File : StartDaemon(p, file)
      PROVE  Inv'
    BY <1>2, StartInv
<1>3. ASSUME NEW p \in Process, Advance(p) PROVE Inv'
    <2>1. CASE LoadFails(p) \/ EnableFails(p) \/ AddVifFails(p) \/ AddRouteFails(p)
        <3>1. Ends(p)
            BY <2>1 DEF LoadFails, EnableFails, AddVifFails, AddRouteFails
        <3> QED BY <3>1, EndsInv
    <2> QED BY <1>3, <2>1, LoadInv, FlushInv, EnableInv, AddVifInv, ReadNamesInv, AddRouteInv,
               ServeInv DEF Advance
<1>4. ASSUME NEW p \in Process, Killed(p) PROVE Inv'
    BY <1>4, EndsInv DEF Killed
<1>5. ASSUME NEW p \in Process, ChangeVif(p) \/ FlushCommand(p) PROVE Inv'
    BY <1>5, RequestInv
<1> QED BY <1>1, <1>2, <1>3, <1>4, <1>5 DEF Next

LEMMA InvAlways == Spec => []Inv
    BY InitInv, NextInv, PTL DEF Spec

\* The state of the kernel and of every process is well typed, whatever the
\* files say and whoever flushes: main() in daemons/simple.py and interactive.py.
THEOREM TypeCorrect == Spec => []TypeOK
<1>1. Inv => TypeOK
    BY DEF Inv
<1> QED BY <1>1, InvAlways, PTL

\* MRT_INIT keeps a second process out, and the end of a process takes its
\* tables along: no failure in main() of daemons/simple.py leaves any behind.
THEOREM NothingOutlivesItsOwnerAlways == Spec => []NothingOutlivesItsOwner
<1>1. Inv => NothingOutlivesItsOwner
    BY DEF Inv
<1> QED BY <1>1, InvAlways, PTL

(***************************************************************************)
(* Who changes the tables.                                                 *)
(***************************************************************************)
LEMMA SameTables == vifs' = vifs /\ mfc' = mfc => ~Gains /\ ~Loses
    BY DEF Gains, Loses

LEMMA EmptiedTables == vifs' = EmptyTable /\ mfc' = <<>> => ~Gains
    BY DEF Gains, EmptyTable

LEMMA AdditionOnlyGains ==
    ASSUME Inv, NEW n, NEW d, CanAdd(vifs, n), vifs' = Added(vifs, n, d), mfc' = mfc
    PROVE  ~Loses
<1>1. \A i \in Slot : vifs[i] # NoDev => vifs'[i] = vifs[i]
    BY DEF Inv, TypeOK, Table, Added, CanAdd
<1> QED BY <1>1 DEF Loses

LEMMA NextFills == Inv /\ [Next]_vars => OwnerFillsTables
<1> SUFFICES ASSUME Inv, [Next]_vars PROVE OwnerFillsTables
    OBVIOUS
<1>1. CASE vifs' = vifs /\ mfc' = mfc
    BY <1>1, SameTables DEF OwnerFillsTables
<1>2. ASSUME NEW p \in Process, Ends(p) PROVE OwnerFillsTables
    <2>1. CASE owner = p
        BY <1>2, <2>1, EmptiedTables, Facts DEF Ends, OwnerFillsTables
    <2>2. CASE owner # p
        BY <1>2, <2>2, <1>1 DEF Ends
    <2> QED BY <2>1, <2>2
<1>3. ASSUME NEW p \in Process, Flush(p) PROVE OwnerFillsTables
    <2>1. proc[p].at = "flush" /\ vifs' = EmptyTable /\ mfc' = <<>>
        BY <1>3 DEF Flush, At
    <2>2. CASE p \in Daemon
        <3>1. Goto(p, "enable")
            BY <1>3, <2>2 DEF Flush
        <3>2. proc'[p].at = "enable"
            BY <3>1, Facts, GotoMoves
        <3>3. Loads(proc[p].file)
            BY <2>1, <2>2, Facts DEF Progress
        <3> QED BY <2>1, <2>2, <3>2, <3>3, EmptiedTables DEF OwnerFillsTables, At
    <2>3. CASE p \notin Daemon
        BY <2>1, <2>3, <1>1, Facts DEF Settled, Process
    <2> QED BY <2>2, <2>3
<1>4. ASSUME NEW p \in Process, AddVif(p) PROVE OwnerFillsTables
    <2>1. owner = p /\ owner' = owner
        BY <1>4, Facts DEF AddVif, At, Owning
    <2>2. ~Loses
        BY <1>4, AdditionOnlyGains DEF AddVif, Refused
    <2> QED BY <2>1, <2>2, Facts DEF OwnerFillsTables
<1>5. ASSUME NEW p \in Process, AddStatic(p) PROVE OwnerFillsTables
    <2>1. owner = p /\ owner' = owner
        BY <1>5, Facts DEF AddStatic, RoutesLeft, At, Owning
    <2>2. vifs' = vifs /\ DOMAIN mfc \subseteq DOMAIN mfc'
        BY <1>5 DEF AddStatic
    <2>3. ~Loses
        BY <2>2 DEF Loses
    <2> QED BY <2>1, <2>3, Facts DEF OwnerFillsTables
<1>6. ASSUME NEW p \in Process, ChangeVif(p) \/ FlushCommand(p) PROVE OwnerFillsTables
    <2>1. proc[p].at = "serving" /\ UNCHANGED <<owner, proc>>
        BY <1>6 DEF ChangeVif, FlushCommand, At
    <2>2. owner = p
        BY <2>1, Facts DEF Owning
    <2> QED BY <2>1, <2>2, Facts DEF OwnerFillsTables
<1>7. CASE UNCHANGED vars
    BY <1>1, <1>7 DEF vars
<1>8. ASSUME NEW p \in Process, Advance(p) PROVE OwnerFillsTables
    <2>1. CASE LoadFails(p) \/ EnableFails(p) \/ AddVifFails(p) \/ AddRouteFails(p)
        BY <1>2, <2>1 DEF LoadFails, EnableFails, AddVifFails, AddRouteFails
    <2>2. CASE Load(p) \/ Enable(p) \/ ReadNames(p) \/ AddDynamic(p) \/ Serve(p)
        BY <1>1, <2>2 DEF Load, Enable, ReadNames, AddDynamic, Serve
    <2> QED BY <1>3, <1>4, <1>5, <1>8, <2>1, <2>2 DEF Advance
<1>9. ASSUME NEW p \in Process, StartShell(p) \/ \E file \in File : StartDaemon(p, file)
      PROVE  OwnerFillsTables
    BY <1>1, <1>9 DEF StartShell, StartDaemon
<1> QED BY <1>2, <1>6, <1>7, <1>8, <1>9 DEF Next, Killed

\* Only the owner of the routing socket fills the tables, and only its end, its
\* own requests or a daemon that starts with a file that loads empties them: the
\* order of flush and enable_mrt in main() of daemons/simple.py and of
\* daemons/interactive.py.
THEOREM TablesBelongToOwnerAlways == Spec => TablesBelongToOwner
<1>1. Inv /\ [Next]_vars => OwnerFillsTables
    BY NextFills
<1> QED BY <1>1, InvAlways, PTL DEF Spec, TablesBelongToOwner

(***************************************************************************)
(* What an undisturbed daemon has set up at each step of its start.  The   *)
(* kernel's table holds the first names of the file in their order, since  *)
(* only the owner fills it and any flush by another is recorded; hence the *)
(* list of names read back last is the file's own, and vifi() gives the    *)
(* position of an interface in the file.                                   *)
(***************************************************************************)
Holds(p, n) ==
    /\ n \in 0..MaxVifs
    /\ \A i \in Slot : vifs[i] = IF i < n THEN proc[p].file.names[i + 1] ELSE NoDev

Named(p) ==
    /\ DOMAIN proc[p].names = DOMAIN proc[p].file.names
    /\ \A i \in DOMAIN proc[p].names : proc[p].names[i] = proc[p].file.names[i]

Position(file, d) == (CHOOSE i \in DOMAIN file.names : file.names[i] = d) - 1
Key(r) == <<r.source, r.group>>

\* The route is in place, or a later one of those before n has taken its key.
Installed(p, r, j, n) ==
    LET file == proc[p].file IN
    IF r.source = AnyAddr
    THEN /\ Position(file, r.from) \in DOMAIN proc[p].dynamic
         /\ proc[p].dynamic[Position(file, r.from)] = r
    ELSE \/ \E k \in DOMAIN file.routes : j < k /\ k < n /\ Key(file.routes[k]) = Key(r)
         \/ \E name \in DOMAIN r.to : r.to[name] \notin 1..254
         \/ /\ Key(r) \in DOMAIN mfc
            /\ mfc[Key(r)].parent = Position(file, r.from)
            /\ mfc[Key(r)].oifs = {<<Position(file, name), r.to[name]>> : name \in DOMAIN r.to}

RoutesInstalled(p) ==
    \A j \in DOMAIN proc[p].file.routes :
        j < proc[p].next => Installed(p, MRoute(proc[p].file.routes[j]), j, proc[p].next)

Configured(p) ==
    /\ proc[p].at = "vifs" => Holds(p, proc[p].next)
    /\ proc[p].at = "list" => Holds(p, proc[p].next + 1)
    /\ proc[p].at = "routes" =>
        Holds(p, Len(proc[p].file.names)) /\ Named(p) /\ RoutesInstalled(p)

Configuring(p) ==
    /\ proc[p].at \in {"vifs", "list", "routes"}
    /\ p \notin disturbed
    /\ NamesDistinct(proc[p].file)

CInv == \A p \in Daemon : Configuring(p) => Configured(p)

\* What p's step needs to know, and what follows when nothing of it changes.
LEMMA ConfiguredOf ==
    ASSUME CInv, NEW p \in Daemon, Configuring(p)
    PROVE  Configured(p)
    BY DEF CInv

LEMMA SameConfigured ==
    ASSUME NEW p, Configuring(p) => Configured(p), proc'[p] = proc[p],
           p \in disturbed => p \in disturbed',
           vifs' = vifs /\ mfc' = mfc
    PROVE  Configuring(p)' => Configured(p)'
<1>1. Configuring(p)' => Configuring(p)
    BY DEF Configuring
<1>2. Configured(p) => Configured(p)'
    <2>1. Holds(p, proc[p].next)' = Holds(p, proc[p].next)
        BY DEF Holds
    <2>2. Holds(p, proc[p].next + 1)' = Holds(p, proc[p].next + 1)
        BY DEF Holds
    <2>3. Holds(p, Len(proc[p].file.names))' = Holds(p, Len(proc[p].file.names))
        BY DEF Holds
    <2>4. Named(p)' = Named(p) /\ RoutesInstalled(p)' = RoutesInstalled(p)
        BY DEF Named, RoutesInstalled, Installed
    <2> QED BY <2>1, <2>2, <2>3, <2>4 DEF Configured
<1> QED BY <1>1, <1>2

\* No step of another process changes the tables of a daemon that is starting,
\* except a flush, which is recorded.
LEMMA OtherStep ==
    ASSUME Inv, NEW p \in Daemon, NEW q \in Process, q # p,
           \/ StartShell(q) \/ \E file \in File : StartDaemon(q, file)
           \/ Advance(q) \/ Killed(q) \/ ChangeVif(q) \/ FlushCommand(q)
    PROVE  /\ proc'[p] = proc[p]
           /\ p \in disturbed => p \in disturbed'
           /\ owner = p => p \in disturbed' \/ (vifs' = vifs /\ mfc' = mfc)
<1> DEFINE Goal == /\ proc'[p] = proc[p]
                   /\ p \in disturbed => p \in disturbed'
                   /\ owner = p => p \in disturbed' \/ (vifs' = vifs /\ mfc' = mfc)
<1>1. p \in Process /\ p # NoProcess
    BY LifecycleAssumption DEF Process
<1>2. CASE Ends(q)
    BY <1>1, <1>2, Facts DEF Ends, TypeOK
<1>3. ASSUME NEW place, Goto(q, place) PROVE proc'[p] = proc[p]
    BY <1>1, <1>3, Facts, GotoMoves
<1>4. CASE StartShell(q)
    BY <1>3, <1>4 DEF StartShell
<1>5. ASSUME NEW file \in File, StartDaemon(q, file) PROVE Goal
    BY <1>1, <1>5, Facts DEF StartDaemon, TypeOK
<1>6. CASE Flush(q)
    BY <1>1, <1>3, <1>6 DEF Flush
<1>7. CASE Load(q) \/ Enable(q) \/ Serve(q)
    BY <1>3, <1>7 DEF Load, Enable, Serve
<1>8. CASE AddVif(q)
    <2>1. owner = q
        BY <1>8, Facts DEF AddVif, At, Owning
    <2> QED BY <1>3, <1>8, <2>1 DEF AddVif
<1>9. CASE ReadNames(q) \/ AddDynamic(q)
    BY <1>1, <1>9, Facts DEF ReadNames, AddDynamic, TypeOK
<1>10. CASE AddStatic(q)
    <2>1. owner = q
        BY <1>10, Facts DEF AddStatic, RoutesLeft, At, Owning
    <2> QED BY <1>1, <1>10, <2>1, Facts DEF AddStatic, TypeOK
<1>11. CASE ChangeVif(q) \/ FlushCommand(q)
    <2>1. owner = q
        BY <1>11, Facts DEF ChangeVif, FlushCommand, At, Owning
    <2> QED BY <1>11, <2>1 DEF ChangeVif, FlushCommand
<1>12. CASE Advance(q)
    BY <1>2, <1>6, <1>7, <1>8, <1>9, <1>10, <1>12
       DEF Advance, LoadFails, EnableFails, AddVifFails, AddRouteFails
<1>13. CASE Killed(q)
    BY <1>2, <1>13 DEF Killed
<1> QED BY <1>4, <1>5, <1>11, <1>12, <1>13

(***************************************************************************)
(* The steps of the start itself.                                          *)
(***************************************************************************)
LEMMA SlotBound == MaxVifs \in Nat /\ Slot = 0..(MaxVifs - 1)
    BY MaxVifsType DEF Slot

\* The names of a file that loads are devices, and its lists are sequences.
LEMMA LoadedFile ==
    ASSUME Inv, NEW p \in Daemon, proc[p].at \in {"vifs", "list", "routes"}
    PROVE  /\ p \in Process /\ owner = p /\ proc[p].next \in Nat
           /\ Len(proc[p].file.names) \in Nat
           /\ DOMAIN proc[p].file.names = 1..Len(proc[p].file.names)
           /\ \A i \in DOMAIN proc[p].file.names : proc[p].file.names[i] \in Dev
           /\ Len(proc[p].file.routes) \in Nat
           /\ DOMAIN proc[p].file.routes = 1..Len(proc[p].file.routes)
<1>1. p \in Process /\ owner = p /\ proc[p].next \in Nat
    BY Facts DEF Process, Owning, TypeOK
<1>2. proc[p].file \in File /\ Loads(proc[p].file)
    BY <1>1, Facts DEF Progress
<1>3. ASSUME NEW i \in DOMAIN proc[p].file.names PROVE proc[p].file.names[i] \in Dev
    <2>1. Rows(proc[p].file.names[i]) # {}
        BY <1>2 DEF Loads, GetsInterface
    <2> QED BY <2>1, LifecycleAssumption DEF Rows
<1> QED BY <1>1, <1>2, <1>3, LifecycleAssumption

\* MRT_INIT succeeds on empty tables.
LEMMA EnableConfigured ==
    ASSUME Inv, NEW p \in Daemon, Enable(p)
    PROVE  Configured(p)'
<1>1. p \in Process
    BY DEF Process
<1>2. proc'[p].at = "vifs" /\ proc'[p].next = 0 /\ vifs' = EmptyTable
    BY <1>1, Facts, GotoMoves DEF Enable, At, Progress
<1>3. MaxVifs \in Nat /\ \A i \in Slot : i \in Nat
    BY SlotBound
<1>4. Holds(p, 0)'
    BY <1>2, <1>3 DEF Holds, EmptyTable
<1> QED BY <1>2, <1>4 DEF Configured

\* An interface goes into the slot of its position or nowhere.
LEMMA AddVifConfigured ==
    ASSUME Inv, NEW p \in Daemon, AddVif(p), Holds(p, proc[p].next)
    PROVE  Configured(p)'
<1> DEFINE n == proc[p].next
<1>1. /\ proc[p].at = "vifs" /\ Goto(p, "list") /\ CanAdd(vifs, McastIndex(p))
      /\ vifs' = Added(vifs, McastIndex(p), Wanted(p))
    BY DEF AddVif, At, Refused
<1>2. p \in Process /\ n \in Nat
    BY <1>1, LoadedFile
<1>3. /\ proc'[p].at = "list" /\ proc'[p].file = proc[p].file /\ proc'[p].next = n
    BY <1>1, <1>2, Facts, GotoMoves
<1>4. /\ MaxVifs \in Nat /\ Slot = 0..(MaxVifs - 1)
      /\ vifs \in Table /\ n <= MaxVifs
    <2>1. vifs \in Table
        BY <1>2, Facts DEF TypeOK
    <2>2. n <= MaxVifs
        BY SlotBound DEF Holds
    <2> QED BY <2>1, <2>2, SlotBound
<1>5. McastIndex(p) = n
    <2>1. CASE n = 0
        <3>1. Occupied(vifs) = {}
            BY <1>4, <2>1 DEF Holds, Occupied
        <3>2. FirstRows(vifs) = {}
            BY <3>1 DEF FirstRows
        <3>3. NameCount(vifs) = 0
            BY <3>2, FS_EmptySet DEF NameCount
        <3> QED BY <2>1, <3>3 DEF McastIndex
    <2>2. CASE n # 0
        BY <2>2 DEF McastIndex
    <2> QED BY <2>1, <2>2
<1>6. Truncated(n) = n
    BY <1>2, <1>4, NotTruncated
<1>7. n \in Slot /\ vifs' = [vifs EXCEPT ![n] = proc[p].file.names[n + 1]]
    BY <1>1, <1>5, <1>6 DEF CanAdd, Added, Wanted
<1>8. n + 1 \in 0..MaxVifs
    BY <1>2, <1>4, <1>7
<1>9. ASSUME NEW i \in Slot
      PROVE  vifs'[i] = IF i < n + 1 THEN proc[p].file.names[i + 1] ELSE NoDev
    BY <1>2, <1>4, <1>7 DEF Holds, Table
<1>10. Holds(p, n + 1)'
    BY <1>3, <1>8, <1>9 DEF Holds
<1> QED BY <1>3, <1>10 DEF Configured

\* The list of names read back is that of the file.
LEMMA ListingNamed ==
    ASSUME NEW names, NEW n \in 0..MaxVifs, vifs \in Table,
           DOMAIN names = 1..n, \A i \in 1..n : names[i] \in Dev,
           \A i, j \in 1..n : names[i] = names[j] => i = j,
           \A i \in Slot : vifs[i] = IF i < n THEN names[i + 1] ELSE NoDev
    PROVE  /\ DOMAIN NameList(vifs) = DOMAIN names
           /\ \A i \in 1..n : NameList(vifs)[i] = names[i]
<1>1. /\ MaxVifs \in Nat /\ n \in Nat /\ Slot = 0..(MaxVifs - 1) /\ n <= MaxVifs
      /\ NoDev \notin Dev
    <2>1. n \in Nat /\ n <= MaxVifs
        BY SlotBound
    <2> QED BY <2>1, SlotBound, VifTableAssumption
<1>2. ASSUME NEW i \in Slot PROVE i \in Nat /\ (i < n => i + 1 \in 1..n)
    BY <1>1
<1>3. Occupied(vifs) = 0..(n - 1)
    <2>1. ASSUME NEW i \in Slot PROVE vifs[i] # NoDev <=> i < n
        BY <1>1, <1>2
    <2>2. ASSUME NEW i PROVE i \in 0..(n - 1) <=> i \in Slot /\ i < n
        BY <1>1
    <2> QED BY <2>1, <2>2 DEF Occupied
<1>4. Distinct(vifs)
    <2> SUFFICES ASSUME NEW i \in 0..(n - 1), NEW j \in 0..(n - 1), vifs[i] = vifs[j]
                 PROVE  i = j
        BY <1>3 DEF Distinct
    <2>1. /\ i \in Slot /\ j \in Slot /\ i < n /\ j < n /\ i \in Nat /\ j \in Nat
          /\ i + 1 \in 1..n /\ j + 1 \in 1..n
        BY <1>1
    <2>2. names[i + 1] = names[j + 1]
        BY <2>1
    <2>3. i + 1 = j + 1
        BY <2>1, <2>2
    <2> QED BY <2>1, <2>3
<1>5. NameList(vifs) = [i \in 1..n |-> vifs[i - 1]]
    BY <1>3, <1>4, RegularListing
<1>6. ASSUME NEW i \in 1..n PROVE vifs[i - 1] = names[i]
    <2>1. i - 1 \in Slot /\ i - 1 < n /\ (i - 1) + 1 = i
        BY <1>1
    <2> QED BY <2>1
<1> QED BY <1>5, <1>6

LEMMA ReadNamesConfigured ==
    ASSUME Inv, NEW p \in Daemon, ReadNames(p), NamesDistinct(proc[p].file),
           Holds(p, proc[p].next + 1)
    PROVE  Configured(p)'
<1> DEFINE file == proc[p].file
           next == proc[p].next
           last == next + 1 = Len(file.names)
<1>1. /\ proc[p].at = "list" /\ vifs' = vifs
      /\ proc' = [proc EXCEPT ![p].names = NameList(vifs),
                              ![p].next = IF last THEN 1 ELSE @ + 1,
                              ![p].at = IF last THEN "routes" ELSE "vifs"]
    BY DEF ReadNames, At
<1>2. /\ p \in Process /\ next \in Nat /\ Len(file.names) \in Nat
      /\ DOMAIN file.names = 1..Len(file.names)
      /\ \A i \in DOMAIN file.names : file.names[i] \in Dev
      /\ DOMAIN file.routes = 1..Len(file.routes) /\ Len(file.routes) \in Nat
    BY <1>1, LoadedFile
<1>3. /\ proc'[p].file = file /\ proc'[p].names = NameList(vifs)
      /\ proc'[p].next = IF last THEN 1 ELSE next + 1
      /\ proc'[p].at = IF last THEN "routes" ELSE "vifs"
    BY <1>1, <1>2, Facts DEF TypeOK, Off
<1>4. CASE ~last
    <2>1. proc'[p].next = next + 1 /\ proc'[p].at = "vifs"
        BY <1>3, <1>4
    <2>2. Holds(p, proc[p].next)'
        BY <1>1, <1>3, <2>1 DEF Holds
    <2> QED BY <2>1, <2>2 DEF Configured
<1>5. CASE last
    <2>1. Holds(p, Len(file.names))
        BY <1>5
    <2>2. Holds(p, Len(file.names))'
        BY <1>1, <1>3, <2>1 DEF Holds
    <2>3. /\ DOMAIN NameList(vifs) = DOMAIN file.names
          /\ \A i \in 1..Len(file.names) : NameList(vifs)[i] = file.names[i]
        <3>1. Len(file.names) \in 0..MaxVifs /\ vifs \in Table
            BY <1>2, <2>1, Facts DEF Holds, TypeOK
        <3>2. \A i \in Slot : vifs[i] = IF i < Len(file.names) THEN file.names[i + 1] ELSE NoDev
            BY <2>1 DEF Holds
        <3>3. \A i, j \in 1..Len(file.names) : file.names[i] = file.names[j] => i = j
            BY <1>2 DEF NamesDistinct
        <3> HIDE DEF file
        <3> QED BY <1>2, <3>1, <3>2, <3>3, ListingNamed
    <2>4. Named(p)'
        BY <1>2, <1>3, <2>3 DEF Named
    <2>5. RoutesInstalled(p)'
        <3>1. proc'[p].next = 1
            BY <1>3, <1>5
        <3>2. \A j \in DOMAIN file.routes : ~(j < 1)
            BY <1>2
        <3> QED BY <1>3, <3>1, <3>2 DEF RoutesInstalled
    <2>6. proc'[p].at = "routes"
        BY <1>3, <1>5
    <2>7. Holds(p, Len(proc[p].file.names))'
        BY <1>3, <2>2
    <2> QED BY <2>4, <2>5, <2>6, <2>7 DEF Configured
<1> QED BY <1>4, <1>5

(***************************************************************************)
(* The routes.                                                             *)
(***************************************************************************)
\* vifi() of a listed interface is its position in the file, and its slot.
LEMMA VifiIsPosition ==
    ASSUME Inv, NEW p \in Daemon, proc[p].at = "routes", NamesDistinct(proc[p].file),
           Holds(p, Len(proc[p].file.names)), Named(p), NEW d, Listed(p, d)
    PROVE  /\ Vifi(p, d) = Position(proc[p].file, d)
           /\ vifs[Vifi(p, d)] # NoDev
<1> DEFINE names == proc[p].file.names
<1>1. /\ Len(names) \in Nat /\ DOMAIN names = 1..Len(names)
      /\ \A i \in DOMAIN names : names[i] \in Dev
    BY LoadedFile
<1>2. PICK n \in DOMAIN names : proc[p].names[n] = d /\ names[n] = d
    BY DEF Listed, Named
<1>3. \A i \in DOMAIN names : names[i] = d => i = n
    BY <1>2 DEF NamesDistinct
<1>4. \A i \in DOMAIN proc[p].names : proc[p].names[i] = d => i = n
    BY <1>3 DEF Named
<1>5. DOMAIN proc[p].names = DOMAIN names
    BY DEF Named
<1>6. (CHOOSE i \in DOMAIN proc[p].names : proc[p].names[i] = d) = n
    BY <1>2, <1>4, <1>5
<1>7. (CHOOSE i \in DOMAIN names : names[i] = d) = n
    BY <1>2, <1>3
<1>8. Vifi(p, d) = n - 1 /\ Position(proc[p].file, d) = n - 1
    BY <1>6, <1>7 DEF Vifi, Position
<1>9. n - 1 \in Slot /\ n - 1 < Len(names) /\ (n - 1) + 1 = n
    <2>1. Len(names) \in 0..MaxVifs
        BY DEF Holds
    <2>2. n \in Nat /\ n >= 1 /\ n <= MaxVifs /\ n <= Len(names)
        BY <1>1, <2>1, SlotBound
    <2> QED BY <2>1, <2>2, SlotBound
<1>10. vifs[n - 1] = names[n] /\ names[n] # NoDev
    BY <1>1, <1>2, <1>9, VifTableAssumption DEF Holds
<1> QED BY <1>8, <1>10


\* What the addition of a route does to the process and to the cache.
LEMMA AddRouteMoves ==
    ASSUME Inv, NEW p \in Daemon, AddDynamic(p) \/ AddStatic(p)
    PROVE  /\ proc[p].at = "routes" /\ proc[p].next <= Len(proc[p].file.routes)
           /\ vifs' = vifs
           /\ proc'[p].next = proc[p].next + 1 /\ proc'[p].file = proc[p].file
           /\ proc'[p].names = proc[p].names /\ proc'[p].at = "routes"
           /\ AddDynamic(p) =>
                /\ mfc' = mfc
                /\ proc'[p].dynamic =
                    [w \in DOMAIN proc[p].dynamic \cup {Vifi(p, Route(p).from)} |->
                        IF w = Vifi(p, Route(p).from) THEN Route(p) ELSE proc[p].dynamic[w]]
           /\ AddStatic(p) => proc'[p].dynamic = proc[p].dynamic
<1>1. p \in Process
    BY DEF Process
<1>2. CASE AddDynamic(p)
    <2> DEFINE more == [w \in DOMAIN proc[p].dynamic \cup {Vifi(p, Route(p).from)} |->
                          IF w = Vifi(p, Route(p).from) THEN Route(p)
                          ELSE proc[p].dynamic[w]]
    <2>1. /\ proc' = [proc EXCEPT ![p].next = @ + 1, ![p].dynamic = more]
          /\ vifs' = vifs /\ mfc' = mfc
        BY <1>1, <1>2, Facts DEF AddDynamic, TypeOK, Off
    <2>2. /\ proc[p].at = "routes" /\ proc[p].next <= Len(proc[p].file.routes)
          /\ ~AddStatic(p)
        BY <1>2 DEF AddDynamic, AddStatic, RoutesLeft, At
    <2>3. /\ proc'[p].next = proc[p].next + 1 /\ proc'[p].file = proc[p].file
          /\ proc'[p].names = proc[p].names /\ proc'[p].at = proc[p].at
          /\ proc'[p].dynamic = more
        <3> HIDE DEF more
        <3> QED BY <1>1, <2>1, Facts DEF TypeOK, Off
    <2> QED BY <2>1, <2>2, <2>3
<1>3. CASE AddStatic(p)
    <2>1. /\ proc' = [proc EXCEPT ![p].next = @ + 1] /\ vifs' = vifs
          /\ proc[p].at = "routes" /\ proc[p].next <= Len(proc[p].file.routes)
          /\ ~AddDynamic(p)
        BY <1>3 DEF AddDynamic, AddStatic, RoutesLeft, At
    <2>2. /\ proc'[p].next = proc[p].next + 1 /\ proc'[p].file = proc[p].file
          /\ proc'[p].names = proc[p].names /\ proc'[p].at = proc[p].at
          /\ proc'[p].dynamic = proc[p].dynamic
        BY <1>1, <2>1, Facts DEF TypeOK, Off
    <2> QED BY <2>1, <2>2
<1> QED BY <1>2, <1>3

\* The routes in place stay in place, but for one whose key is taken.
LEMMA InstalledKept ==
    ASSUME Inv, NEW p \in Daemon, AddDynamic(p) \/ AddStatic(p),
           NEW n \in Nat, proc[p].next = n, NEW j \in DOMAIN proc[p].file.routes, j < n,
           NEW r, Installed(p, r, j, n)
    PROVE  Installed(p, r, j, n + 1)'
<1> DEFINE routes == proc[p].file.routes
           position(d) == Position(proc[p].file, d)
<1>1. proc'[p].file = proc[p].file
    BY AddRouteMoves
<1>2. CASE r.source = AnyAddr
    <2>1. /\ position(r.from) \in DOMAIN proc[p].dynamic
          /\ proc[p].dynamic[position(r.from)] = r
        BY <1>2 DEF Installed
    <2>2. /\ position(r.from) \in DOMAIN proc'[p].dynamic
          /\ proc'[p].dynamic[position(r.from)] = r
        <3> HIDE DEF position
        <3>1. CASE AddDynamic(p)
            <4>1. Vifi(p, Route(p).from) \in DOMAIN proc[p].dynamic =>
                    proc[p].dynamic[Vifi(p, Route(p).from)] = Route(p)
                BY <3>1 DEF AddDynamic
            <4> QED BY <2>1, <3>1, <4>1, AddRouteMoves
        <3>2. CASE AddStatic(p)
            BY <2>1, <3>2, AddRouteMoves
        <3> QED BY <3>1, <3>2
    <2> QED BY <1>1, <1>2, <2>2 DEF Installed
<1>3. CASE r.source # AnyAddr
    <2>1. /\ DOMAIN routes = 1..Len(routes) /\ Len(routes) \in Nat
          /\ n <= Len(routes)
        BY AddRouteMoves, LoadedFile
    <2>2. j \in Nat /\ n \in DOMAIN routes
        BY <2>1
    <2>3. CASE \E k \in DOMAIN routes : j < k /\ k < n /\ Key(routes[k]) = Key(r)
        <3>1. \E k \in DOMAIN routes : j < k /\ k < n + 1 /\ Key(routes[k]) = Key(r)
            BY <2>1, <2>3
        <3> QED BY <1>1, <1>3, <3>1 DEF Installed
    <2>4. CASE \E name \in DOMAIN r.to : r.to[name] \notin 1..254
        BY <1>1, <1>3, <2>4 DEF Installed
    <2>5. CASE AddStatic(p) /\ Key(routes[n]) = Key(r)
        <3>1. \E k \in DOMAIN routes : j < k /\ k < n + 1 /\ Key(routes[k]) = Key(r)
            BY <2>2, <2>5
        <3> QED BY <1>1, <1>3, <3>1 DEF Installed
    <2>6. CASE ~(AddStatic(p) /\ Key(routes[n]) = Key(r))
        <3>1. ASSUME Key(r) \in DOMAIN mfc
              PROVE  Key(r) \in DOMAIN mfc' /\ mfc'[Key(r)] = mfc[Key(r)]
            <4>1. CASE AddDynamic(p)
                BY <3>1, <4>1, AddRouteMoves
            <4>2. CASE AddStatic(p) /\ Key(routes[n]) # Key(r)
                BY <3>1, <4>2 DEF AddStatic, Route, MRoute, Key
            <4> QED BY <2>6, <4>1, <4>2
        <3>2. CASE /\ Key(r) \in DOMAIN mfc
                   /\ mfc[Key(r)].parent = position(r.from)
                   /\ mfc[Key(r)].oifs = {<<position(name), r.to[name]>> : name \in DOMAIN r.to}
            BY <1>1, <1>3, <3>1, <3>2 DEF Installed
        <3> QED BY <1>3, <2>3, <2>4, <3>2 DEF Installed
    <2> QED BY <2>5, <2>6
<1> QED BY <1>2, <1>3

\* The route that is added is in place then.
LEMMA RouteInstalled ==
    ASSUME Inv, NEW p \in Daemon, AddDynamic(p) \/ AddStatic(p),
           NamesDistinct(proc[p].file), Holds(p, Len(proc[p].file.names)), Named(p),
           NEW n \in Nat, NEW r, r = Route(p)
    PROVE  Installed(p, r, n, n + 1)'
<1> DEFINE to == r.to
           position(d) == Position(proc[p].file, d)
<1>1. proc'[p].file = proc[p].file /\ proc[p].at = "routes"
    BY AddRouteMoves
<1>2. \A d : Listed(p, d) => Vifi(p, d) = position(d) /\ vifs[Vifi(p, d)] # NoDev
    BY <1>1, VifiIsPosition
<1>3. CASE AddDynamic(p)
    <2>1. r.source = AnyAddr /\ Listed(p, r.from)
        BY <1>3 DEF AddDynamic
    <2>2. /\ Vifi(p, r.from) \in DOMAIN proc'[p].dynamic
          /\ proc'[p].dynamic[Vifi(p, r.from)] = r
        BY <1>3, AddRouteMoves
    <2> QED BY <1>1, <1>2, <2>1, <2>2 DEF Installed
<1>4. CASE AddStatic(p)
    <2>1. /\ r.source # AnyAddr /\ Listed(p, r.from)
          /\ \A name \in DOMAIN to : Listed(p, name)
        BY <1>4 DEF AddStatic
    <2>2. /\ Key(r) \in DOMAIN mfc'
          /\ mfc'[Key(r)] = [parent |-> Vifi(p, r.from), oifs |-> Oifs(p, to)]
        BY <1>4 DEF AddStatic, Key
    <2>3. ASSUME \A name \in DOMAIN to : to[name] \in 1..254
          PROVE  Oifs(p, to) = {<<position(name), to[name]>> : name \in DOMAIN to}
        <3>1. \A name \in DOMAIN to : to[name] % 256 = to[name]
            <4>1. \A x \in 1..254 : x % 256 = x
                OBVIOUS
            <4> HIDE DEF to
            <4> QED BY <2>3, <4>1
        <3>2. {name \in DOMAIN to : to[name] % 256 \in 1..254 /\ vifs[Vifi(p, name)] # NoDev}
                = DOMAIN to
            <4> HIDE DEF to, position
            <4> QED BY <1>2, <2>1, <2>3, <3>1
        <3>3. \A name \in DOMAIN to :
                <<Vifi(p, name), to[name] % 256>> = <<position(name), to[name]>>
            <4> HIDE DEF to, position
            <4> QED BY <1>2, <2>1, <3>1
        <3> DEFINE used ==
                {name \in DOMAIN to : to[name] % 256 \in 1..254 /\ vifs[Vifi(p, name)] # NoDev}
        <3>4. Oifs(p, to) = {<<Vifi(p, name), to[name] % 256>> : name \in used}
            BY DEF Oifs
        <3> HIDE DEF to, position, used
        <3>5. used = DOMAIN to
            BY <3>2 DEF used
        <3> QED BY <3>3, <3>4, <3>5
    <2>4. Vifi(p, r.from) = position(r.from)
        BY <1>2, <2>1
    <2> HIDE DEF to, position
    <2>5. CASE \A name \in DOMAIN to : to[name] \in 1..254
        <3>1. /\ mfc'[Key(r)].parent = position(r.from)
              /\ mfc'[Key(r)].oifs = {<<position(name), to[name]>> : name \in DOMAIN to}
            BY <2>2, <2>3, <2>4, <2>5
        <3> QED BY <1>1, <2>1, <2>2, <3>1 DEF Installed, to, position
    <2>6. CASE \E name \in DOMAIN to : to[name] \notin 1..254
        BY <1>1, <2>1, <2>6 DEF Installed, to
    <2> QED BY <2>5, <2>6
<1> QED BY <1>3, <1>4

LEMMA AddRouteConfigured ==
    ASSUME Inv, NEW p \in Daemon, AddDynamic(p) \/ AddStatic(p),
           NamesDistinct(proc[p].file), Configured(p)
    PROVE  Configured(p)'
<1> DEFINE routes == proc[p].file.routes
<1>1. /\ proc[p].at = "routes" /\ vifs' = vifs
      /\ proc'[p].next = proc[p].next + 1 /\ proc'[p].file = proc[p].file
      /\ proc'[p].names = proc[p].names /\ proc'[p].at = "routes"
    BY AddRouteMoves
<1>2. /\ Holds(p, Len(proc[p].file.names)) /\ Named(p) /\ RoutesInstalled(p)
    BY <1>1 DEF Configured
<1>3. PICK n \in Nat : proc[p].next = n
    BY <1>1, LoadedFile
<1>4. DOMAIN routes = 1..Len(routes) /\ Len(routes) \in Nat
    BY <1>1, LoadedFile
<1>5. ASSUME NEW j \in DOMAIN routes, j < n + 1, NEW r, r = MRoute(routes[j])
      PROVE  Installed(p, r, j, n + 1)'
    <2>1. CASE j < n
        <3>1. Installed(p, r, j, n)
            BY <1>2, <1>3, <1>5, <2>1 DEF RoutesInstalled
        <3> QED BY <1>3, <2>1, <3>1, InstalledKept
    <2>2. CASE j = n
        <3>1. r = Route(p)
            BY <1>3, <1>5, <2>2 DEF Route
        <3> QED BY <1>2, <1>3, <2>2, <3>1, RouteInstalled
    <2> QED BY <1>3, <1>4, <1>5, <2>1, <2>2
<1>6. RoutesInstalled(p)'
    BY <1>1, <1>3, <1>5 DEF RoutesInstalled
<1>7. Holds(p, Len(proc[p].file.names))' /\ Named(p)'
    BY <1>1, <1>2 DEF Holds, Named
<1> QED BY <1>1, <1>6, <1>7 DEF Configured

\* The steps of a daemon that leave it elsewhere than among its additions.
LEMMA ElsewhereConfigured ==
    ASSUME Inv, NEW p \in Daemon,
           \/ StartShell(p) \/ \E file \in File : StartDaemon(p, file)
           \/ Load(p) \/ Flush(p) \/ Ends(p) \/ Serve(p) \/ ChangeVif(p) \/ FlushCommand(p)
    PROVE  ~Configuring(p)'
<1>1. p \in Process
    BY DEF Process
<1>2. ASSUME NEW place, Goto(p, place), place \notin {"vifs", "list", "routes"}
      PROVE  ~Configuring(p)'
    BY <1>1, <1>2, Facts, GotoMoves DEF Configuring
<1>3. ASSUME NEW file \in File, StartDaemon(p, file) PROVE ~Configuring(p)'
    <2>1. proc'[p].at = "load"
        BY <1>1, <1>3, Facts DEF StartDaemon, TypeOK, Off
    <2> QED BY <2>1 DEF Configuring
<1>4. CASE Ends(p)
    BY <1>1, <1>4, Facts, OffType DEF Ends, TypeOK, Configuring
<1>5. CASE ChangeVif(p) \/ FlushCommand(p)
    BY <1>5 DEF ChangeVif, FlushCommand, At, Configuring
<1>6. CASE StartShell(p) \/ Load(p) \/ Flush(p) \/ Serve(p)
    BY <1>2, <1>6 DEF StartShell, Load, Flush, Serve
<1> QED BY <1>3, <1>4, <1>5, <1>6

LEMMA NextConfigured == Inv /\ CInv /\ [Next]_vars => CInv'
<1> SUFFICES ASSUME Inv, CInv, [Next]_vars, NEW p \in Daemon
             PROVE  Configuring(p)' => Configured(p)'
    BY DEF CInv
<1>1. Configuring(p) => Configured(p)
    BY DEF CInv
<1>2. CASE UNCHANGED vars
    BY <1>1, <1>2, SameConfigured DEF vars
<1>3. ASSUME NEW q \in Process, q # p,
             \/ StartShell(q) \/ \E file \in File : StartDaemon(q, file)
             \/ Advance(q) \/ Killed(q) \/ ChangeVif(q) \/ FlushCommand(q)
      PROVE  Configuring(p)' => Configured(p)'
    <2>1. /\ proc'[p] = proc[p] /\ (p \in disturbed => p \in disturbed')
          /\ owner = p => p \in disturbed' \/ (vifs' = vifs /\ mfc' = mfc)
        BY <1>3, OtherStep
    <2>2. CASE Configuring(p)'
        <3>1. proc[p].at \in {"vifs", "list", "routes"} /\ p \notin disturbed'
            BY <2>1, <2>2 DEF Configuring
        <3>2. vifs' = vifs /\ mfc' = mfc
            BY <2>1, <3>1, LoadedFile
        <3> QED BY <1>1, <2>1, <3>2, SameConfigured
    <2> QED BY <2>2
<1>4. ASSUME \/ StartShell(p) \/ \E file \in File : StartDaemon(p, file)
             \/ Load(p) \/ Flush(p) \/ Ends(p) \/ Serve(p) \/ ChangeVif(p) \/ FlushCommand(p)
      PROVE  ~Configuring(p)'
    BY <1>4, ElsewhereConfigured
<1>5. CASE Enable(p)
    BY <1>5, EnableConfigured
<1>6. ASSUME AddVif(p) \/ ReadNames(p) \/ AddDynamic(p) \/ AddStatic(p), Configuring(p)'
      PROVE  Configured(p)'
    <2>1. /\ p \in Process /\ disturbed' = disturbed
          /\ proc[p].at \in {"vifs", "list", "routes"}
        BY <1>6 DEF Process, AddVif, ReadNames, AddDynamic, AddStatic, RoutesLeft, At
    <2>2. proc'[p].file = proc[p].file
        <3>1. CASE AddVif(p)
            BY <2>1, <3>1, Facts, GotoMoves DEF AddVif
        <3>2. CASE ReadNames(p)
            BY <2>1, <3>2, Facts DEF ReadNames, TypeOK, Off
        <3>3. CASE AddDynamic(p) \/ AddStatic(p)
            BY <3>3, AddRouteMoves
        <3> QED BY <1>6, <3>1, <3>2, <3>3
    <2>3. NamesDistinct(proc[p].file) /\ Configured(p)
        BY <1>1, <1>6, <2>1, <2>2 DEF Configuring
    <2>4. CASE AddVif(p)
        BY <2>3, <2>4, AddVifConfigured DEF Configured, AddVif, At
    <2>5. CASE ReadNames(p)
        BY <2>3, <2>5, ReadNamesConfigured DEF Configured, ReadNames, At
    <2>6. CASE AddDynamic(p) \/ AddStatic(p)
        BY <2>3, <2>6, AddRouteConfigured
    <2> QED BY <1>6, <2>4, <2>5, <2>6
<1>7. ASSUME Advance(p), Configuring(p)' PROVE Configured(p)'
    BY <1>4, <1>5, <1>6, <1>7
       DEF Advance, LoadFails, EnableFails, AddVifFails, AddRouteFails
<1>8. ASSUME Killed(p) PROVE ~Configuring(p)'
    BY <1>4, <1>8 DEF Killed
<1> QED BY <1>2, <1>3, <1>4, <1>7, <1>8 DEF Next

LEMMA CInvAlways == Spec => []CInv
<1>1. Init => CInv
    <2> SUFFICES ASSUME Init, NEW p \in Daemon PROVE ~Configuring(p)
        BY DEF CInv
    <2> QED BY OffType DEF Init, Process, Configuring
<1> QED BY <1>1, InvAlways, NextConfigured, PTL DEF Spec

\* Only Serve brings a daemon from its routes to serving.
LEMMA ServesBy ==
    ASSUME Inv, Next, NEW p \in Daemon, proc[p].at = "routes", proc'[p].at = "serving"
    PROVE  Serve(p)
<1>1. p \in Process
    BY DEF Process
<1>2. ASSUME NEW q \in Process, q # p,
             \/ StartShell(q) \/ \E file \in File : StartDaemon(q, file)
             \/ Advance(q) \/ Killed(q) \/ ChangeVif(q) \/ FlushCommand(q)
      PROVE  FALSE
    <2>1. proc'[p] = proc[p]
        BY <1>2, OtherStep
    <2> QED BY <2>1
<1>3. ~Ends(p)
    BY <1>1, Facts, OffType DEF Ends, TypeOK
<1>4. ~(AddDynamic(p) \/ AddStatic(p))
    BY AddRouteMoves
<1>5. \/ StartShell(p) \/ \E file \in File : StartDaemon(p, file)
      \/ Advance(p) \/ Killed(p) \/ ChangeVif(p) \/ FlushCommand(p)
    BY <1>2 DEF Next
<1> QED BY <1>3, <1>4, <1>5
        DEF Advance, Killed, LoadFails, EnableFails, AddVifFails, AddRouteFails, StartShell,
            StartDaemon, Load, Flush, Enable, AddVif, ReadNames, ChangeVif, FlushCommand, At

LEMMA ConfiguredServes ==
    ASSUME Inv, NEW p \in Daemon, Serve(p), Configured(p)
    PROVE  AsConfigured(p)
<1> DEFINE file == proc[p].file
<1>1. proc[p].at = "routes" /\ ~(proc[p].next <= Len(file.routes))
    BY DEF Serve, RoutesLeft, At
<1>2. /\ DOMAIN file.names = 1..Len(file.names) /\ Len(file.names) \in Nat
      /\ DOMAIN file.routes = 1..Len(file.routes) /\ Len(file.routes) \in Nat
      /\ proc[p].next \in Nat
    BY <1>1, LoadedFile
<1>3. Holds(p, Len(file.names)) /\ RoutesInstalled(p)
    BY <1>1 DEF Configured
<1>4. ASSUME NEW i \in Slot
      PROVE  vifs[i] = IF i + 1 \in DOMAIN file.names THEN file.names[i + 1] ELSE NoDev
    <2>1. i < Len(file.names) <=> i + 1 \in DOMAIN file.names
        BY <1>2, SlotBound
    <2> QED BY <1>3, <2>1 DEF Holds
<1>5. ASSUME NEW j \in DOMAIN file.routes
      PROVE  Installed(p, MRoute(file.routes[j]), j, proc[p].next)
    BY <1>1, <1>2, <1>3 DEF RoutesInstalled
<1>6. ASSUME NEW k \in DOMAIN file.routes, NEW j \in DOMAIN file.routes, j < k
      PROVE  k > j
    BY <1>2, <1>6
<1> QED BY <1>4, <1>5, <1>6 DEF AsConfigured, Installed, Position, Key, MRoute

\* A daemon that starts undisturbed serves what its file says: load_config,
\* VifManager.__init__ and MfcManager.__init__ of daemons/simple.py agree on the
\* index of every interface, whatever the file and whatever else runs.
THEOREM StartedAsConfiguredAlways == Spec => StartedAsConfigured
<1> DEFINE Starts == \A p \in Daemon :
                        /\ At(p, "routes") /\ proc'[p].at = "serving"
                        /\ p \notin disturbed /\ NamesDistinct(proc[p].file)
                        => AsConfigured(p)
<1>1. Inv /\ CInv /\ [Next]_vars => Starts
    <2> SUFFICES ASSUME Inv, CInv, [Next]_vars, NEW p \in Daemon,
                        proc[p].at = "routes", proc'[p].at = "serving",
                        p \notin disturbed, NamesDistinct(proc[p].file)
                 PROVE  AsConfigured(p)
        BY DEF At
    <2>1. Next
        BY DEF vars
    <2>2. Serve(p)
        BY <2>1, ServesBy
    <2>3. Configured(p)
        BY DEF CInv, Configuring
    <2> QED BY <2>2, <2>3, ConfiguredServes
<1>2. Inv /\ CInv /\ [Next]_vars => [Starts]_vars
    BY <1>1
<1> HIDE DEF Starts
<1>3. StartedAsConfigured <=> [][Starts]_vars
    BY PTL DEF StartedAsConfigured, Starts
<1> QED BY <1>2, <1>3, InvAlways, CInvAlways, PTL DEF Spec
===============================================================================
