# A verification project for pygmp

pygmp is a Python interface to multicast routing in Linux (a C extension,
dataclasses, wrappers of system calls and of `/proc/net` files) and a small
daemon, `pygmp simple`, which keeps the kernel's tables according to a
configuration file and a REST API. This directory holds TLA+ models of its
stateful parts, the TLC runs that check them and proofs of the results that
matter most.

To repeat a check, in this directory: `tlc -config VifConcurrent.cfg MCVifManager`
and `tlapm VifManagerProofs.tla`. `PROJECT.json` lists every run with its
module, every definition with the lines it models, and the mutated definitions
(named `X_Something`, just above the `X` they are a wrong version of) with the
property that refutes each. No specification uses a mutated definition.

## The system

| component | source | state | operations |
|---|---|---|---|
| file cache | `utils.py` `file_cache` | one dictionary per decorated reader: `last_hash`, `result` | a call: read and hash, compare, parse, store, stamp, return |
| VIF manager | `daemons/simple.py` `VifManager` | `_vif_name_list` | `__init__`, `add`, `remove_by_index`, `remove_by_name`, `vifs`, `vifi`, `make_ttls_list` |
| MFC manager | `daemons/simple.py` `MfcManager` | `_dynamic_mroutes` | `add`, `remove`, `match`, `static_mfc`, `dynamic_mfc` |
| control message handler and listener | `daemons/simple.py` | none of its own | one message after another from the routing socket |
| REST endpoints | `daemons/simple.py` `setup_app` | none of their own | GET, POST and DELETE on `/vifs` and the route tables |
| kernel tables (external) | through `kernel.py`, `_kernel.c` | VIF table, forwarding cache (MFC), the MRT flag of a socket, receive buffer | MRT_ADD_VIF, MRT_DEL_VIF, MRT_ADD_MFC, MRT_DEL_MFC, MRT_FLUSH, MRT_INIT, upcalls |
| start-up and shutdown | `simple.main`, `__main__.py`, `igmp_socket`, `interactive.main` | the socket, the order of the steps | load, flush, enable MRT, configure, serve; the shell: enable, flush, prompt |
| configuration | `daemons/config.py` | none | `load_config` and its helpers |
| packet parsers | `_kernel.c`, `data.py`, `kernel.py` `_filter_ip` | none | parse an IP header, IGMP versions 1 to 3, a control message |
| interactive shell | `daemons/interactive.py` | a queue, a reader thread | parse a line, bind its arguments, run a command; `msgs` |
| network interfaces | `kernel.py`, `_kernel.c` | none | merge the rows of `getifaddrs` by name |
| daemon context, socket options | `daemons/utils.py`, `kernel.py`, `_kernel.c` | none | not used by the daemons, or single system calls |

**How they interact.** FastAPI runs the endpoints, which are plain functions,
on a pool of threads. They share one `VifManager` and one `MfcManager`, and
these share one file cache per `/proc` file. The listener is one more thread;
it calls into both managers. There is no lock anywhere. The managers keep almost no
state: the truth is in the kernel, which they change by system calls and read
back through the cached `/proc` listings. Only `_vif_name_list` (the
name-to-index mapping) and `_dynamic_mroutes` are their own.

The daemon and the shell are separate processes that change the same kernel
tables. `__main__.py` has no subcommand for the shell (`simple` is the only one), so
`python -m pygmp` does not reach it; its `main`, which opens a socket of its own, is
modelled as it stands. MRT_INIT lets one process at a time own them, MRT_FLUSH asks for no
ownership, and closing the owner's socket empties them. The shell and the
daemon's listener read packets from the same kind of socket through the same
parsers; the shell has one thread for that, which talks to the prompt through
a queue.

**What is hard.** Every operation is a sequence of read, decide, call, read
back, during which the other threads go on; the listing it reads may be stale
because the cache has races of its own; indices are derived in three different
ways (position in a list, length of a listing, the kernel's slot number) that
agree only as long as nothing is removed; and exceptions end requests half way.
The correctness properties that follow from this:

- *file cache*: a call returns a table that was in the file; and a current one
  if calls do not overlap.
- *VIF manager*: an interface has one slot; the name list never maps a name
  to another interface's slot; removal by name removes what it names;
  adding fails only when there is no room.
- *MFC manager*: an entry is tied to the interfaces its route names; a route
  waits until it is removed; an update loses nobody else's route.
- *listener*: no message stops it; an upcall a route covers is answered.
- *start-up*: one process owns the tables and a crash leaves nothing in them; a
  process that cannot run harms no other; an undisturbed start yields what the
  file says; every start ends.
- *parsers*: nothing is read beyond the packet, and the records and times
  parsed are those of the packet.
- *shell*: an unparsable packet does not end the reader; `msgs` does not wait
  for messages that are gone; what is sent to the kernel is what was typed.

`PROJECT.json` lists each hazard at the line where it bites, with the
properties that would catch it. Several hazards have none: what goes wrong there is what
the code does and no statement of the repository denies it, or a property
excepts it. Their notes say so, and name the properties that bound the damage:

- additions that fail although slots are free, after a removal (`simple.py:152`), and
  an explicit index beyond 65535, which reaches another slot (`_kernel.c:582`);
- the shorter name list put back by the slower of two additions (`simple.py:154`), and the
  name that keeps its index after `remove_by_name` (`169`);
- POST /vifs raising KeyError over a stale listing after an addition that happened (`97`),
  and MRT_DEL_MFC removing another interface's entry (`224`);
- routes without a source lost to a racing request (`210`, `219`): `LossesAreRaces` bounds
  who can lose them;
- upcalls dropped by a full buffer (`289`);
- the flush of a second daemon and what the first then serves (`43`, `154`):
  `TablesBelongToOwner` shows that nothing else does such harm;
- thresholds that do not fit an unsigned char (`_kernel.c:637`) and auxiliary words of a
  group record (`434`).

POST /mfc (`simple.py:111`) raises KeyError after every route it installs, as it looks an
interface name up in a dictionary keyed by VIF index. The answer changes no state, so it is
not among the hazards; a client that retries meets the duplicate branch of line 208.

## Modules

| module | what it is |
|---|---|
| `FileCache` | a call of a cached reader, step by step; no next-state relation: the users of the cache supply it |
| `CachedFile` | the cache with a file anybody may rewrite |
| `VifTable` | the kernel's VIF table and the views the daemon takes of its listing |
| `VifManager` | `VifManager` and the `/vifs` endpoints, on top of `FileCache` and `VifTable` |
| `VifRegistry` | the abstract specification: a log of interfaces and the prefix of it that is known |
| `MfcManager` | routes, the endpoints on `/mfc`, the handler and the listener, over `VifRegistry` |
| `Lifecycle` | processes from start to end, with the configuration they load, over `VifTable` |
| `Igmp` | the parsers and data classes, on the way of one packet; no next-state relation |
| `Shell` | the interactive shell: reader thread, queue, command line, on top of `Igmp` |
| `MCCachedFile`, `MCVifManager`, `MCMfcManager`, `MCLifecycle`, `MCShell` | the constants of the runs |
| `NatFacts` | the least element of a set of numbers, on which every induction of the proofs rests |
| `CachedFileProofs`, `VifTableProofs`, `VifManagerProofs`, `VifSequentialProofs`, `MfcManagerProofs`, `LifecycleProofs`, `ShellProofs` | theorems |

`MfcManager` does not repeat `VifManager`: it is composed with `VifRegistry`,
which `VifManager` is proved to implement (`ImplementsRegistryAlways`), as long as
interfaces are only appended.

### State and code

- `FileCache`: `file` is the content of the file, represented by the table it
  prints (parsing it keeps every field; MD5 is taken as injective); `cache` is
  the closure's dictionary; `call[t]` is the position of thread `t` in
  `wrapper` with its locals `new_hash` (`seen`) and the value `func()` returned
  (`parsed`). Every access to the file or to `cache` is an action.
- `VifManager`: `file` is `/proc/net/ip_mr_vif`, and so the kernel's VIF table
  (`rows`) with a traffic counter (`pkts`) which makes two listings of the same
  table differ; `names` is `_vif_name_list`; `req[t]` is the request a thread
  serves, the place it has reached (before the lookup, before the system call, before
  the second listing, before the assignment, before the answer) and the table it
  holds. `appendOnly` is a history variable: no explicit index and no removal
  so far, and a configuration that names no interface twice. The manager starts
  as its constructor leaves it after `main` has flushed the tables.
- `MfcManager`: `dynamic` is `_dynamic_mroutes`, `mfc` the kernel's forwarding
  cache (an entry remembers, as history, the route it was made for), `job[t]` a
  worker's request, `queue` the receive buffer of the routing socket.
  `stale` is a history variable: the threads about to write a list that another
  thread has changed since they looked at it. Thresholds are taken to lie in
  1..254, so that a route's `to` is a set of interfaces (`Lifecycle` has the
  others).
- `Lifecycle`: `owner` is the process whose socket has MRT_INIT, `vifs` and `mfc`
  are the kernel's tables, `proc[p]` is where process `p` is in its `main`, with
  the file it has loaded, the position it has reached in it, its
  `_vif_name_list` and `_dynamic_mroutes`. `disturbed` is a history variable:
  the processes whose tables another one has flushed since they started. One
  system call is one step: `load_config`, MRT_FLUSH, MRT_INIT, then for each
  interface MRT_ADD_VIF and the listing read back, then for each route either
  an entry of the dictionary or MRT_ADD_MFC. Each step may fail (`LoadFails`,
  `EnableFails`, `AddVifFails`, `AddRouteFails`), which ends the process, and
  `Killed` ends it anywhere; `StartDaemon` and `StartShell` may start it
  again. A file is a record of its interface names and routes; `Loads` says
  which files `load_config` accepts on a given `Host`, and `MRoute` what a route
  section yields, with the dictionary of thresholds in place of its text: two
  sections that differ in their text only are the same route.
- `Igmp`: a packet is an identifier, `Content` says what the parsers look at in
  it: lengths, types, counts, and the record header that the bytes at each offset
  amount to. `rx` is the reading thread: where in the parsers it is, the offset and
  the unsigned count of bytes left (`% SizeT`), the offsets of the records found,
  and the response time. `ParseRecord` is one turn of the loop.
- `Shell`: `queue` is `Commands.queue`; `main` is the main thread (at the prompt, in
  `msgs`, gone); `owed` is the number of messages `msgs` has announced and not yet
  printed; `request` is a history variable, the last line whose command called
  the kernel with the values its parameters were bound to. A line is a sequence
  of words, a word one text or a key and a text. `ParseArguments` is the loop over
  parameters and words, with one `Step` per turn.

A statement that reads or writes shared state once is one action. Statements
in between are part of the action before or after. Two system calls are never
one action. Answers, log messages and conversions to JSON are left out;
the listing a request answers from is not.

## What the runs check

| run | constants | properties |
|---|---|---|
| `cached_file` | 2 threads, 3 contents, one of them malformed | `TypeOK`, `ReturnsWhatFileHeld`, `LoneCallsCurrent` |
| `vif_concurrent` | 2 threads, 3 devices, 2 slots, 1 change of the counters; add and list; start with no or one interface | `TypeOK`, `AppendOnlyRegular`, `AppendOnlyVifi`, `AnswersTrue`, `ImplementsRegistry` |
| `vif_sequential` | 1 thread, 3 devices, 3 slots; all operations, indices 0..3 and 65537; start lists of up to two interfaces, one of them with a repetition | `AloneSeesKernel`, `RegisteredIsListed`, `AppendFailsOnlyWhenFull`, `VifiTrueBelowHoles`, `AddsMakeNoHole`, `RemovalHitsNamed` |
| `mfc_manager` | 2 workers and the listener, 2 devices, 4 routes (two without a source on one interface, two with the same source and group on different ones), 2 upcalls, other and malformed messages, a buffer of 1 | `TypeOK`, `RoutesFollowInterfaces`, `NoEmptyList`, `LossesAreRaces`, `ListenerKeepsUp` |
| `shell` | 148 packets: reports of up to five words, whole, cut short, with bytes left over, with auxiliary words, IP options or an unknown record type; queries, older and control messages; 30 lines; a queue of 2 | `TypeOK`, `InBounds`, `ReportAsSent`, `AnnouncedArePrinted`, `CallsAsTyped`, `PacketsSettle` |
| `lifecycle` | 2 daemons and a shell, 3 devices, 2 slots, 12 files, four of which start | `TypeOK`, `NothingOutlivesItsOwner`, `TablesBelongToOwner`, `StartedAsConfigured`, `StartsSettle` |

These properties carry most of the weight:

- `AppendOnlyRegular`, `AppendOnlyVifi`: the adds race, with stale listings and stale
  name lists, and yet the table stays regular and no name ever gets another interface's
  index. The reason is that an index taken from a stale listing of an
  append-only table is the index of a slot in use by now, which the kernel refuses.
- `AnswersTrue`: a request may answer from a table older than its own effect,
  but what it says of an interface is true.
- `VifiTrueBelowHoles`, `AddsMakeNoHole`, `AppendFailsOnlyWhenFull`: what is left of these
  results, for one request at a time, once interfaces are removed, put at explicit
  indices or named twice. `vifi` is right for every interface below the first hole or
  repetition, although `remove_by_name` leaves the name list as it was; `len(vifs)`, which
  counts names, never makes a hole of its own and never gives an interface a second
  slot; and an addition fails in vain only on a table that has a hole or a repetition.
- `RoutesFollowInterfaces`: a route is built from several lookups in name
  lists that grow and shrink in between; every entry made forwards from and to the
  interfaces its route names.
- `LossesAreRaces`: the exact conditions under which the dictionary loses a
  route that was accepted: only to a thread that writes a VIF's list on the
  strength of a look another thread has overtaken.
- `ListenerKeepsUp`: whatever a message is, the loop goes on.
- `NothingOutlivesItsOwner`: `igmp_socket` has no `finally`, and no failure in
  `main` removes anything, yet nothing is left behind, because whatever a process
  put in the tables it put there as the owner of the socket that dies with it.
- `TablesBelongToOwner`: the daemon flushes before it enables, so that a second
  one wipes the tables of the first and then fails. The property bounds the
  damage: a file that does not load comes first and does no harm, a shell enables
  before it flushes and does none, and nothing else empties another's tables.
- `StartedAsConfigured`: the interface's index is its position in the file (index 0
  by way of the length of a listing that has to be empty), the name list
  agrees with the kernel when the routes look it up, and every route ends up
  where its source says, with the thresholds of the file.
- `InBounds`, `PacketsSettle`: a record's size comes from the packet, and the
  count of what is left is unsigned; it never wraps, and the loop ends.
- `ReportAsSent`: the record loop ignores the announced number of records and
  the auxiliary words; on reports without those, it finds every record where
  its sender put it.
- `CallsAsTyped`: parameters and words are walked side by side, with defaults,
  keywords and two ways out; no value changes its parameter and no word before
  an empty one is dropped. An earlier form of the property excepted only one empty surplus word at the
  end; an attempt to prove it turned up `add vif 1 7 ttl_threshold=1
  ttl_threshold=7 "" remote_addr=10.0.0.1`, which loses its last word without
  an error. That line is now among those of the run.

**Findings.** Six runs end in a counterexample to what a comment, a document or a message says:

| run | the code | the text |
|---|---|---|
| `vif_stale_listing` | overlapping cache calls leave an old table under the current hash | `simple.py:133` "a dictionary of the virtual multicast interfaces registered in the kernel" |
| `vif_index_after_removal` | `vifi` returns a position in the name list, which is not the index once a lower VIF is gone | `simple.py:138` "the multicast VIF index for the given interface" |
| `vif_remove_race` | the slot looked up may hold another interface when it is deleted | `simple.py:163` "Removes ... by name" |
| `mfc_upcall_unserved` | no upcall with a real source address matches a configured route | `README.md:22` "route all incoming multicast for groups ..." |
| `shell_reader_dies` | a report without records raises, and the handler is outside the loop | `interactive.py:296` "Error in read_from_socket thread.  This will be ignored." |
| `igmp_response_time` | a code of 200 gives 192; the formula gives 12288 | `_kernel.c:324` "(mant \| 0x10) << (exp + 3)" |

`vif_index_after_removal` uses `remove_by_index`, a method of the class: the
DELETE endpoint passes every argument on as a string and so only reaches
`remove_by_name`.

Other things met while modelling, which are in the models and refute no
property of a run:

- An explicit index 0 counts as none (`simple.py:148`), against `simple.py:146`
  "If index is provided, it is used".
- With three bits of exponent and four of mantissa, as the message format has
  them, code 200 would stand for 3072.
- In the shell, `del vif` and `del mfc` always raise TypeError
  (`interactive.py:184`, `197`); an empty surplus word drops the words after
  it (`258`); `help add vif` is refused unless written `subcommand=vif` (`122`);
  the end of the input ends the shell with a RuntimeError.
- The group `239.1.0.1/24` of the README's example configuration does not parse
  (`config.py:80`).
- A daemon that is flushed by another during its start goes on and may serve
  names at positions that are not their indices.
- Thresholds of 0, and of 255 and more, do not mean what the file says: the
  array holds unsigned chars, and the kernel does not forward at 0 and 255.

**Bounds and why they are enough.** The races found or excluded involve two
requests; a third thread adds interleavings of the same pairs, and the theorems
about the append-only manager hold for any number. Two slots and three devices
let the table fill up and an addition be refused; three slots let a hole be
followed by a used slot. One change of the counters is enough to make two
contents of one table. Two daemons and a shell give each process both
kinds of rival; more processes are covered by the theorems. Two interfaces in a
file are the least for which a position, an order and a threshold can go to the
wrong one; a file of three does not fit the table. Five words after the
report's header hold two records with a source between them, the least for
which the second can be looked for in the wrong place. 65536 values
of a `size_t` are more than any length in the run, and a difference that
wraps is recognised all the same. `MaxPkts`, `MaxQueue` and the sets of devices, routes,
indices, files, packets and lines are the only bounds; each is a constant.
Deadlock is checked in every run but those of the shell, which ends with `bye`.
A constant of a run is written `MCX == TheX` where TLC would otherwise
evaluate the definition again at every use.

**Fairness.** `MfcManager`: weak fairness of the listener, a thread that blocks
in `recvfrom` only, and of each worker's request, which blocks nowhere.
`Lifecycle`: weak fairness of each process's start, which is sequential code
without a blocking call; none of starting or killing. `Shell`: weak fairness of
the reader once it has a packet and of `msgs` while it prints. Nothing is
assumed about clients, users, interfaces, the traffic or the kernel's upcalls.

## What is proved

Every invariant and every action property of a passing run is a theorem, and so
is the refinement; liveness is not. The theorems hold for every number of
threads, processes, devices and slots, every configuration, packet and line,
under the assumptions named in the modules that declare the constants. Three
sets of theorems have a hypothesis:

- `VifSequentialProofs`: `OneThread`, all threads are the same. These properties are about
  one request at a time; with two threads the runs `vif_stale_listing` and
  `vif_remove_race` refute two of them.
- `AppendingImplementsRegistry` speaks of the behaviours in which `appendOnly`
  holds throughout, `ImplementsRegistryAlways` of the constants under which that is so
  (`OnlyAppends`: un-indexed additions and listings, configurations
  without a repetition), as in the run.
- `CallsAsTyped` rests on `TextAssumption` (the empty text is neither a number nor
  an address) and `LineAssumption` (a line is a non-empty sequence of words of one
  or two texts, which is what splitting a line yields).

Induction over an arbitrary predicate is not available, so every induction goes
by a least counterexample: `LeastElement` in `NatFacts`, from the
well-foundedness of `<`. A recursive function is first shown to exist up to
every bound (`SentExists`, `WalkExists`) and then unfolded step by step.

- `CachedFileProofs`: `TypeCorrect`, `NeverInvents`
  (`[]ReturnsWhatFileHeld`) and `LoneCallsCurrentAlways`. The first property is not
  inductive: a hit returns the cached result because the hash matched, so `IInv`
  adds that a hash is remembered only when a result is there, that a stored
  or parsed table was held and parses, and that a thread past the parse holds one.
  `LInv` is about calls that never overlap on a file that never returns to an
  old content: there the hash stored is at most as new as the result stored with it, and a hash that
  is still the file's vouches for the result, except between the two stores of the call in progress.
- `VifTableProofs`: facts about the listing. `NameList` chooses the row of each
  rank; that there is one (`RankExists`) and that no name is left out
  (`NameListComplete`, from `RankGrows` by `RowListed`) hold with holes and repetitions.
  `PrefixListing` gives the name list up to the first of these, and `NamesBelow`
  bounds the number of names by the slots up to the last one in use.
  `RegularListing` gives the name list of a regular table, `DistinctIndex` and
  `IndexOfNamed` the index found in a table without and with repetitions.
- `VifManagerProofs`: `TypeCorrect`, `AppendOnlyRegularAlways`,
  `AppendOnlyVifiAlways`, `AnswersTrueAlways`, and the refinement. The inductive
  invariant is `TInv`, the types, and `AInv`, which says that while `appendOnly` holds the
  table is regular and every listing held anywhere (the cache's result, what a call has
  seen or parsed, what a request keeps) is an older version of it: regular and
  agreeing with it wherever it shows a VIF; and that the name list is that of an older
  table. From it, an addition can only succeed with the current length: an older table
  has at most as many VIFs, and a smaller number is the index of a slot in use.
  The name is new because the table is then the same one that was checked.
  The same facts make a successful addition an append to the registry's
  log and an assignment of the name list the publication of a prefix of it
  (`RegistryNext`, one step per action); everything else leaves both alone.
- `VifSequentialProofs`: `AloneSeesKernelAlways`, `RegisteredIsListedAlways`,
  `AppendFailsOnlyWhenFullAlways`, `VifiTrueBelowHolesAlways`, `AddsMakeNoHoleAlways` and
  `RemovalHitsNamedAlways`. `SInv` says where one thread
  may be inside the cached reader (only where nobody changes the table) and that what it has
  read, stored or decided by is the table as it is, up to counters; and that the name list is
  `NamesGood` except between a system call and the assignment that follows: it has every
  interface, and those below the first hole or repetition at their slots' positions.
  A deletion keeps that without a refreshment (`DeletedGood`), since it makes a hole and
  moves nothing.
- `MfcManagerProofs`: `TypeCorrect`, `RoutesFollowInterfacesAlways`,
  `NoEmptyListAlways` and `LossesAreRacesAlways`. `IInv` places each request
  (`Placed`: the index it holds is its interface's in the log, which only grows; of the
  thresholds of its route, those set so far and those still to do make up `to`), says that a
  look at a list holds until another thread changes it (`Looked`: only then is
  the thread in `stale`), and that an empty list has a thread on its way to delete it
  (`Swept`). It uses that there is some route (`Route # {}`), because an idle
  thread's record holds one.
- `LifecycleProofs`: `TypeCorrect`, `NothingOutlivesItsOwnerAlways`,
  `TablesBelongToOwnerAlways` and `StartedAsConfiguredAlways`. `Inv` adds to the
  first two properties what a process knows at each place (`Progress`: a daemon past
  `load_config` has a file that loads, and its counter is within the names, without
  which `Wanted(p)` would be no device) and that a shell between `enable_mrt` and
  `flush` owns empty tables (`Settled`), without which its flush would seem to empty
  somebody's. `StepInv` says once what a step of one process may do to the shared state.
  `CInv` adds, for a daemon no other has flushed, what it has set up so far: the
  kernel's table is the first names of the file in their order (`Holds`), the list read
  back last is the file's (`Named`, by `RegularListing`), and each route before the counter
  is in place or a later one has taken its key (`RoutesInstalled`).
- `ShellProofs`: `TypeCorrect`, `InBoundsAlways`, `AnnouncedArePrintedAlways`,
  `ReportAsSentAlways` and `CallsAsTypedAlways`. `ReaderInv` adds to `InBounds` that
  offset and count add up to the message's size at every turn of the record loop, that the
  records found so far end within it, and what kind of message the parser has committed
  itself to. The size a record announces is checked against the count before the
  count is lowered, so the differences of unsigned numbers are true ones.
  `RoomForPacket` ties the queue's bound to the reader. `AsSent` adds that
  the records found in a well-formed report are the first ones sent and that the
  loop stands at the next one; since what was sent fills the message (`SentWithin`),
  the loop ends with the last. `WalkInv` is the invariant of the walk over
  parameters and words: as long as it goes on, required parameters have the
  words at their positions and the others one keyword word each; it stops
  without an error only at the last word or at an empty one (`ParseStops`). That what is bound
  converts excludes keywords and empty words at the required positions.

**Only model-checked**: liveness (`ListenerKeepsUp`, `StartsSettle`,
`PacketsSettle`), which needs ENABLED and is out of the prover's reach; and the
findings, which are counterexamples on small instances.

## What is not modelled

- The daemon context (double fork, signal handlers): nothing in the package uses
  it. Logging: pure I/O.
- Socket options (`ttl`, `loop`, `interface`, `mrt_version`, the counters ioctls,
  PIM): single system calls without state of the package's own, which no daemon
  and no command but `status` uses. PIM is switched off during the start and never on.
- Packet and byte counters, addresses and checksums: copied, never compared.
- The walk over the C list of `getifaddrs`; `Lifecycle` is given its rows.
- The cached listing behind `static_mfc` (it is `FileCache` again, and no entry
  ever matches); interfaces removed while routes refer to them.
- The raw socket's own choice of packets: an IGMP socket yields protocols 0 and 2
  only, but the filter has branches for PIM and others, which the run exercises.

## Plan

Done, in this order: `FileCache` and `CachedFile`; `VifTable`, `VifManager` and
its proofs; `VifRegistry` and the refinement; `MfcManager`; `Igmp` and `Shell`
with proofs; `Lifecycle` with proofs; proofs of the refinement, of
`MfcManager`, of the sequential properties and of what the recursive functions
of the shell and the parsers compute.

Next:

1. `MfcManager`: removal of interfaces under routes, over an abstract registry
   that can shrink.
2. The merge of `getifaddrs` rows in `network_interfaces`, as far as a reference
   definition of it can differ from the code.
3. Proofs of what a stale listing can and cannot do once interfaces are
   removed concurrently: which of the append-only
   results survive for interfaces that are left alone.
