------------------------------- MODULE Lifecycle -------------------------------
(***************************************************************************)
(* From the start of a process to its end: __main__.py and main() of       *)
(* daemons/simple.py with the configuration of daemons/config.py, and      *)
(* main() of daemons/interactive.py.  Every system call is a step; the     *)
(* processes share the kernel's tables, and one of them owns the multicast *)
(* routing socket (MRT_INIT).  A process may end at any step, by an        *)
(* exception or killed, and may be started again.                          *)
(*                                                                         *)
(* Requests to a running daemon are VifManager's and MfcManager's subject; *)
(* here they only change VIFs.  PIM is switched off on the way and nothing *)
(* in the package switches it on: it is left out.                          *)
(***************************************************************************)
EXTENDS VifTable, Integers

CONSTANTS
    Daemon,     \* processes that run the simple daemon
    ShellProcess, \* processes that run the interactive shell
    NoProcess,  \* the routing socket is nobody's
    File,       \* configuration files
    NoFile,
    Host,       \* what getifaddrs lists: rows of name, address (yes or no), multicast
    Address,    \* texts ip_address() accepts; the multicast ones; 0.0.0.0
    Multicast,
    AnyAddr

Process == Daemon \cup ShellProcess

ASSUME LifecycleAssumption ==
    /\ NoProcess \notin Process
    /\ Daemon \cap ShellProcess = {}
    /\ \A row \in DOMAIN Host : Host[row].name \in Dev
    /\ NoFile \notin File
    \* A list of names or pairs has one at least: splitting "" gives one empty name.
    /\ \A file \in File :
        /\ Len(file.names) \in Nat \ {0} /\ DOMAIN file.names = 1..Len(file.names)
        /\ Len(file.routes) \in Nat /\ DOMAIN file.routes = 1..Len(file.routes)
        /\ \A j \in DOMAIN file.routes : Len(file.routes[j].to) \in Nat \ {0}

VARIABLES
    owner,      \* the process that has enabled multicast routing
    vifs,       \* the kernel's VIF table
    mfc,        \* the kernel's forwarding cache: <<source, group>> -> entry
    proc,       \* per process: where it is and what it has set up
    disturbed   \* history: starting or serving processes whose tables another has flushed

vars == <<owner, vifs, mfc, proc, disturbed>>

(***************************************************************************)
(* load_config.  A file has a sequence of names and one of routes; a       *)
(* missing [phyints] section is the list of one empty name.                *)
(***************************************************************************)
Rows(name) == {row \in DOMAIN Host : Host[row].name = name}

\* network_interfaces: one entry per name, with the flags of its first row.
HasAddress(name) == \E row \in Rows(name) : Host[row].address
CanMulticast(name) ==
    \E row \in Rows(name) : Host[row].multicast /\ \A other \in Rows(name) : row <= other

GetsInterface(name) == Rows(name) # {} /\ HasAddress(name) /\ CanMulticast(name)

\* A threshold that is not made of digits counts as none, and none as 1; of two
\* pairs for a name the later counts.
NotDigits == -1
Threshold(pair) == IF pair.ttl = NotDigits THEN 1 ELSE pair.ttl
OutgoingMap(to) ==
    [name \in {to[i].name : i \in DOMAIN to} |->
        Threshold(to[CHOOSE i \in DOMAIN to :
                        /\ to[i].name = name
                        /\ \A j \in DOMAIN to : to[j].name = name => j <= i])]

\* The MRoute made of a section.
MRoute(r) == [from |-> r.from, source |-> r.source, group |-> r.group, to |-> OutgoingMap(r.to)]

RouteParses(r) ==
    /\ \A i \in DOMAIN r.to : r.to[i].name # ""
    /\ r.group \in Multicast
    /\ r.source \in Address

Loads(file) ==
    /\ \A i \in DOMAIN file.names : GetsInterface(file.names[i])
    /\ \A j \in DOMAIN file.routes : RouteParses(file.routes[j])

(***************************************************************************)
(* Processes.                                                              *)
(***************************************************************************)
Off == [at |-> "off", file |-> NoFile, next |-> 0, names |-> <<>>, dynamic |-> <<>>]
Starting == {"load", "flush", "enable", "vifs", "list", "routes"}
Owning == {"vifs", "list", "routes", "serving"}

Init ==
    /\ owner = NoProcess
    /\ vifs = EmptyTable
    /\ mfc = <<>>
    /\ proc = [p \in Process |-> Off]
    /\ disturbed = {}

At(p, place) == proc[p].at = place
Goto(p, place) == proc' = [proc EXCEPT ![p].at = place]

\* The process ends and its socket is closed, by the with statement or by the
\* kernel.  With the routing socket go the tables.
Ends(p) ==
    /\ proc' = [proc EXCEPT ![p] = Off]
    /\ disturbed' = disturbed \ {p}
    /\ IF owner = p
       THEN owner' = NoProcess /\ vifs' = EmptyTable /\ mfc' = <<>>
       ELSE UNCHANGED <<owner, vifs, mfc>>

Killed(p) == ~At(p, "off") /\ Ends(p)

StartShell(p) ==
    /\ p \in ShellProcess /\ At(p, "off")
    /\ Goto(p, "enable")
    /\ UNCHANGED <<owner, vifs, mfc, disturbed>>

StartDaemon(p, file) ==
    /\ p \in Daemon /\ At(p, "off")
    /\ proc' = [proc EXCEPT ![p].at = "load", ![p].file = file]
    /\ UNCHANGED <<owner, vifs, mfc, disturbed>>

Load(p) ==
    /\ At(p, "load") /\ Loads(proc[p].file)
    /\ Goto(p, "flush")
    /\ UNCHANGED <<owner, vifs, mfc, disturbed>>

LoadFails(p) == At(p, "load") /\ ~Loads(proc[p].file) /\ Ends(p)

\* MRT_FLUSH, which needs no ownership.  The daemon's comes before it enables,
\* the shell's after.
Flush(p) ==
    /\ At(p, "flush")
    /\ vifs' = EmptyTable
    /\ mfc' = <<>>
    /\ disturbed' = disturbed \cup ({owner} \ {p, NoProcess})
    /\ Goto(p, IF p \in Daemon THEN "enable" ELSE "serving")
    /\ UNCHANGED owner

\* Mutated form of Enable: the error is taken for "already enabled".
Enable_Shared(p) ==
    /\ At(p, "enable")
    /\ owner' = p
    /\ Goto(p, IF p \in Daemon THEN "vifs" ELSE "flush")
    /\ UNCHANGED <<vifs, mfc, disturbed>>

\* MRT_INIT.
Enable(p) ==
    /\ At(p, "enable") /\ owner = NoProcess
    /\ owner' = p
    /\ Goto(p, IF p \in Daemon THEN "vifs" ELSE "flush")
    /\ UNCHANGED <<vifs, mfc, disturbed>>

\* Mutated form of EnableFails: the process waits for the socket.
EnableFails_Waits(p) == FALSE

\* Mutated form of EnableFails: the process cleans up before it goes.
EnableFails_CleansUp(p) ==
    /\ At(p, "enable") /\ owner # NoProcess
    /\ proc' = [proc EXCEPT ![p] = Off]
    /\ vifs' = EmptyTable /\ mfc' = <<>>
    /\ UNCHANGED <<owner, disturbed>>

\* "The MRT socket is already enabled."
EnableFails(p) == At(p, "enable") /\ owner # NoProcess /\ Ends(p)

(***************************************************************************)
(* VifManager.__init__: add(interf, i) for each configured interface.      *)
(* Index 0 counts as none: the interface is looked up in the listing and   *)
(* appended.                                                               *)
(***************************************************************************)
Wanted(p) == proc[p].file.names[proc[p].next + 1]

McastIndex(p) == IF proc[p].next = 0 THEN NameCount(vifs) ELSE proc[p].next

Refused(p) ==
    \/ proc[p].next = 0 /\ Wanted(p) \in Names(vifs)
    \/ ~CanAdd(vifs, McastIndex(p))

AddVif(p) ==
    /\ At(p, "vifs") /\ ~Refused(p)
    /\ vifs' = Added(vifs, McastIndex(p), Wanted(p))
    /\ Goto(p, "list")
    /\ UNCHANGED <<owner, mfc, disturbed>>

AddVifFails(p) == At(p, "vifs") /\ Refused(p) /\ Ends(p)

\* Mutated form of ReadNames: free slots are listed too.
ReadNames_WholeTable(p) ==
    LET last == proc[p].next + 1 = Len(proc[p].file.names) IN
    /\ At(p, "list")
    /\ proc' = [proc EXCEPT ![p].names = [i \in 1..MaxVifs |-> vifs[i - 1]],
                            ![p].next = IF last THEN 1 ELSE @ + 1,
                            ![p].at = IF last THEN "routes" ELSE "vifs"]
    /\ UNCHANGED <<owner, vifs, mfc, disturbed>>

\* _vif_name_list is read back after each addition.
ReadNames(p) ==
    LET last == proc[p].next + 1 = Len(proc[p].file.names) IN
    /\ At(p, "list")
    /\ proc' = [proc EXCEPT ![p].names = NameList(vifs),
                            ![p].next = IF last THEN 1 ELSE @ + 1,
                            ![p].at = IF last THEN "routes" ELSE "vifs"]
    /\ UNCHANGED <<owner, vifs, mfc, disturbed>>

(***************************************************************************)
(* MfcManager.__init__: add(mroute) for each configured route.             *)
(***************************************************************************)
Route(p) == MRoute(proc[p].file.routes[proc[p].next])
RoutesLeft(p) == At(p, "routes") /\ proc[p].next <= Len(proc[p].file.routes)

Listed(p, d) == \E i \in DOMAIN proc[p].names : proc[p].names[i] = d
Vifi(p, d) == (CHOOSE i \in DOMAIN proc[p].names : proc[p].names[i] = d) - 1

\* A route without a source is kept in the process; one that differs from the
\* one its VIF has makes list.index raise.
AddDynamic(p) ==
    LET r == Route(p)
        v == Vifi(p, r.from) IN
    /\ RoutesLeft(p) /\ r.source = AnyAddr /\ Listed(p, r.from)
    /\ v \in DOMAIN proc[p].dynamic => proc[p].dynamic[v] = r
    /\ proc' = [proc EXCEPT ![p].next = @ + 1,
                            ![p].dynamic = [w \in DOMAIN @ \cup {v} |->
                                               IF w = v THEN r ELSE @[w]]]
    /\ UNCHANGED <<owner, vifs, mfc, disturbed>>

\* Mutated form of Oifs: the thresholds are filled in from the front.
Oifs_FromFront(p, to) ==
    {<<0, to[name] % 256>> :
        name \in {n \in DOMAIN to : to[n] % 256 \in 1..254 /\ vifs[Vifi(p, n)] # NoDev}}

\* mfcc_ttls is an array of unsigned char; the kernel forwards on a VIF whose
\* threshold is neither 0 nor 255.
Oifs(p, to) ==
    {<<Vifi(p, name), to[name] % 256>> :
        name \in {n \in DOMAIN to : to[n] % 256 \in 1..254 /\ vifs[Vifi(p, n)] # NoDev}}

AddStatic(p) ==
    LET r == Route(p)
        key == <<r.source, r.group>>
        entry == [parent |-> Vifi(p, r.from), oifs |-> Oifs(p, r.to)] IN
    /\ RoutesLeft(p) /\ r.source # AnyAddr
    /\ Listed(p, r.from) /\ \A name \in DOMAIN r.to : Listed(p, name)
    /\ mfc' = [k \in DOMAIN mfc \cup {key} |-> IF k = key THEN entry ELSE mfc[k]]
    /\ proc' = [proc EXCEPT ![p].next = @ + 1]
    /\ UNCHANGED <<owner, vifs, disturbed>>

AddRouteFails(p) ==
    LET r == Route(p) IN
    /\ RoutesLeft(p)
    /\ \/ ~Listed(p, r.from)
       \/ r.source # AnyAddr /\ \E name \in DOMAIN r.to : ~Listed(p, name)
       \/ /\ r.source = AnyAddr
          /\ \E v \in DOMAIN proc[p].dynamic : v = Vifi(p, r.from) /\ proc[p].dynamic[v] # r
    /\ Ends(p)

\* The listener is started and uvicorn runs.
Serve(p) ==
    /\ At(p, "routes") /\ ~RoutesLeft(p)
    /\ Goto(p, "serving")
    /\ UNCHANGED <<owner, vifs, mfc, disturbed>>

\* A request, or a command of the shell.
ChangeVif(p) ==
    /\ At(p, "serving")
    /\ \E i \in Slot :
        \/ \E d \in Dev : CanAdd(vifs, i) /\ vifs' = Added(vifs, i, d)
        \/ CanDelete(vifs, i) /\ vifs' = Deleted(vifs, i)
    /\ UNCHANGED <<owner, mfc, proc, disturbed>>

FlushCommand(p) ==
    /\ p \in ShellProcess /\ At(p, "serving")
    /\ vifs' = EmptyTable /\ mfc' = <<>>
    /\ UNCHANGED <<owner, proc, disturbed>>

Advance(p) ==
    \/ Load(p) \/ LoadFails(p) \/ Flush(p) \/ Enable(p) \/ EnableFails(p)
    \/ AddVif(p) \/ AddVifFails(p) \/ ReadNames(p)
    \/ AddDynamic(p) \/ AddStatic(p) \/ AddRouteFails(p) \/ Serve(p)

Next == \E p \in Process :
    \/ StartShell(p) \/ \E file \in File : StartDaemon(p, file)
    \/ Advance(p)
    \/ Killed(p)
    \/ ChangeVif(p) \/ FlushCommand(p)

\* The start is sequential code without a blocking call.  Nothing is assumed of
\* who starts and kills processes, and of requests.
Spec == Init /\ [][Next]_vars /\ \A p \in Process : WF_vars(Advance(p))

(***************************************************************************)
(* Properties                                                              *)
(***************************************************************************)
TypeOK ==
    /\ owner \in Process \cup {NoProcess}
    /\ vifs \in Table
    /\ DOMAIN proc = Process
    /\ \A p \in Process :
        /\ DOMAIN proc[p] = DOMAIN Off
        /\ proc[p].at \in Starting \cup {"off", "serving"}
        /\ proc[p].file \in File \cup {NoFile}
        /\ proc[p].next \in Nat
        /\ proc[p].names \in Seq(Dev)
    /\ disturbed \subseteq Process

\* At most one process is past enable_mrt, it is the socket's owner, and what
\* is in the kernel's tables does not outlive it: whatever fails or crashes half way, and
\* although igmp_socket has no finally, nothing is left behind.
NothingOutlivesItsOwner ==
    /\ \A p \in Process : proc[p].at \in Owning => owner = p
    /\ owner = NoProcess => vifs = EmptyTable /\ mfc = <<>>

\* The tables are filled by their owner only, and emptied by its end, by its own
\* requests, or by a daemon that starts although another process is running
\* (which flushes before it can know).  A shell that starts does no such thing.
Gains == \/ \E i \in Slot : vifs'[i] \notin {vifs[i], NoDev}
         \/ DOMAIN mfc' \ DOMAIN mfc # {}
Loses == \/ \E i \in Slot : vifs[i] # NoDev /\ vifs'[i] # vifs[i]
         \/ DOMAIN mfc \ DOMAIN mfc' # {}

OwnerFillsTables ==
    /\ Gains => owner # NoProcess /\ owner' = owner
    /\ Loses => \/ owner # NoProcess /\ owner' = NoProcess
                \/ proc' = proc /\ owner # NoProcess /\ proc[owner].at = "serving"
                \/ \E d \in Daemon : /\ At(d, "flush") /\ proc'[d].at = "enable"
                                     /\ Loads(proc[d].file)

TablesBelongToOwner == [][OwnerFillsTables]_vars

\* A daemon that starts undisturbed serves what its file says: the VIFs are the
\* names in their order, an interface's index is its position, a route without a
\* source waits there, and the forwarding entry of any other, unless a later
\* route has the same key, names exactly the interfaces and thresholds of the
\* file.  (A name given twice, and thresholds the kernel does not
\* take, 0 and from 255, are the exceptions.)
AsConfigured(p) ==
    LET file == proc[p].file
        index(d) == (CHOOSE i \in DOMAIN file.names : file.names[i] = d) - 1 IN
    /\ \A i \in Slot : vifs[i] = IF i + 1 \in DOMAIN file.names THEN file.names[i + 1] ELSE NoDev
    /\ \A j \in DOMAIN file.routes :
        LET r == MRoute(file.routes[j])
            key == <<r.source, r.group>> IN
        IF r.source = AnyAddr THEN proc[p].dynamic[index(r.from)] = r
        ELSE \/ \E k \in DOMAIN file.routes :
                    k > j /\ <<file.routes[k].source, file.routes[k].group>> = key
             \/ \E name \in DOMAIN r.to : r.to[name] \notin 1..254
             \/ /\ mfc[key].parent = index(r.from)
                /\ mfc[key].oifs = {<<index(name), r.to[name]>> : name \in DOMAIN r.to}

NamesDistinct(file) ==
    \A i, j \in DOMAIN file.names : file.names[i] = file.names[j] => i = j

StartedAsConfigured ==
    [][\A p \in Daemon :
        /\ At(p, "routes") /\ proc'[p].at = "serving"
        /\ p \notin disturbed /\ NamesDistinct(proc[p].file)
        => AsConfigured(p)]_vars

\* Every start comes to an end: the process serves, or it is gone.
StartsSettle ==
    \A p \in Process : (proc[p].at \in Starting) ~> (proc[p].at \in {"off", "serving"})
===============================================================================
