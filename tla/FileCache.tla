------------------------------ MODULE FileCache ------------------------------
(***************************************************************************)
(* The decorator utils.file_cache.  A decorated reader (kernel.ip_mr_vif,  *)
(* kernel.ip_mr_cache) keeps one dictionary, `cache', shared by every      *)
(* thread that calls it and protected by no lock.  A call reads the file   *)
(* and hashes it; when the hash differs from the remembered one it runs    *)
(* the reader, which opens the file a second time, stores the reader's     *)
(* result, then stores the hash of the FIRST read; it returns whatever     *)
(* `cache' holds by then.  Each bytecode that touches the file or `cache'  *)
(* is one action, so calls of several threads interleave between them.     *)
(*                                                                         *)
(* A file content is represented by the table it prints: parsing it yields *)
(* the same value (the reader keeps every field) or raises.  MD5 is taken  *)
(* to be injective, so the hash of a content is the content.               *)
(*                                                                         *)
(* This module has no Next: the modules that use the cache say who writes  *)
(* the file and what a caller does with the result.                        *)
(***************************************************************************)
CONSTANTS
    Thread,     \* the threads that may call the decorated reader
    Malformed,  \* the contents on which the reader raises
    None        \* Python's None, what an empty cache holds

VARIABLES
    file,       \* the content of the file now
    cache,      \* the closure's dictionary: last_hash and result
    call        \* per thread: where its call stands and the call's locals

Steps == {"idle", "compare", "parse", "store", "stamp", "return"}

NoCall == [at |-> "idle", seen |-> None, parsed |-> None]

EmptyCache == [last_hash |-> None, result |-> None]

\* Open, read and hash the file.
ReadFile(t) ==
    /\ call[t].at = "idle"
    /\ call' = [call EXCEPT ![t] = [at |-> "compare", seen |-> file, parsed |-> None]]
    /\ UNCHANGED <<file, cache>>

\* Mutated form of Hit: any remembered hash will do.
Hit_AnyHash(t) ==
    /\ call[t].at = "compare"
    /\ cache.last_hash # None
    /\ call' = [call EXCEPT ![t].at = "return"]
    /\ UNCHANGED <<file, cache>>

\* The file has the hash remembered: the cached result is returned.
Hit(t) ==
    /\ call[t].at = "compare"
    /\ call[t].seen = cache.last_hash
    /\ call' = [call EXCEPT ![t].at = "return"]
    /\ UNCHANGED <<file, cache>>

Miss(t) ==
    /\ call[t].at = "compare"
    /\ call[t].seen # cache.last_hash
    /\ call' = [call EXCEPT ![t].at = "parse"]
    /\ UNCHANGED <<file, cache>>

\* The decorated reader opens the file again and parses it.
Parse(t) ==
    /\ call[t].at = "parse"
    /\ file \notin Malformed
    /\ call' = [call EXCEPT ![t] = [@ EXCEPT !.at = "store", !.parsed = file]]
    /\ UNCHANGED <<file, cache>>

\* Mutated form of ParseRaises: the exception is not propagated.
ParseRaises_Swallowed(t) ==
    /\ call[t].at = "parse"
    /\ file \in Malformed
    /\ call' = [call EXCEPT ![t].at = "raised"]
    /\ UNCHANGED <<file, cache>>

\* The reader raises: the exception leaves the call, `cache' is untouched.
ParseRaises(t) ==
    /\ call[t].at = "parse"
    /\ file \in Malformed
    /\ call' = [call EXCEPT ![t] = NoCall]
    /\ UNCHANGED <<file, cache>>

StoreResult(t) ==
    /\ call[t].at = "store"
    /\ cache' = [cache EXCEPT !.result = call[t].parsed]
    /\ call' = [call EXCEPT ![t].at = "stamp"]
    /\ UNCHANGED file

StampHash(t) ==
    /\ call[t].at = "stamp"
    /\ cache' = [cache EXCEPT !.last_hash = call[t].seen]
    /\ call' = [call EXCEPT ![t].at = "return"]
    /\ UNCHANGED file

\* Return cache['result'], which another thread may have replaced meanwhile.
Return(t) ==
    /\ call[t].at = "return"
    /\ call' = [call EXCEPT ![t] = NoCall]
    /\ UNCHANGED <<file, cache>>

\* Mutated form of CallStep: the hash is stored before the result.
CallStep_HashFirst(t) ==
    \/ Hit(t) \/ Miss(t) \/ Parse(t) \/ ParseRaises(t)
    \/ /\ call[t].at = "store"
       /\ cache' = [cache EXCEPT !.last_hash = call[t].seen]
       /\ call' = [call EXCEPT ![t].at = "stamp"]
       /\ UNCHANGED file
    \/ /\ call[t].at = "stamp"
       /\ cache' = [cache EXCEPT !.result = call[t].parsed]
       /\ call' = [call EXCEPT ![t].at = "return"]
       /\ UNCHANGED file

\* The steps inside a call, between its first read and its return.
CallStep(t) ==
    \/ Hit(t)
    \/ Miss(t)
    \/ Parse(t)
    \/ ParseRaises(t)
    \/ StoreResult(t)
    \/ StampHash(t)
==============================================================================
