------------------------------ MODULE CachedFile ------------------------------
(***************************************************************************)
(* utils.file_cache in an arbitrary environment: any thread calls the      *)
(* decorated reader at any time, and the file is rewritten at any time by  *)
(* somebody else (the kernel, for the /proc files this package reads).     *)
(* The history variables record what a call may honestly return.           *)
(***************************************************************************)
EXTENDS FileCache

CONSTANT Content    \* the contents the file takes

ASSUME CachedFileAssumption ==
    /\ Malformed \subseteq Content
    /\ None \notin Content

VARIABLES
    held,       \* history: the contents the file has ever held
    during,     \* history: per thread, the contents held since its call began
    overlapped, \* history: two calls have been in progress at once
    repeated    \* history: a content has come back after it was replaced

history == <<held, during, overlapped, repeated>>
vars == <<file, cache, call, held, during, overlapped, repeated>>

TypeOK ==
    /\ file \in Content
    /\ cache \in [last_hash : Content \cup {None}, result : Content \cup {None}]
    /\ call \in [Thread -> [at : Steps, seen : Content \cup {None},
                            parsed : Content \cup {None}]]
    /\ held \subseteq Content
    /\ during \in [Thread -> SUBSET Content]
    /\ overlapped \in BOOLEAN
    /\ repeated \in BOOLEAN

Init ==
    /\ file \in Content
    /\ cache = EmptyCache
    /\ call = [t \in Thread |-> NoCall]
    /\ held = {file}
    /\ during = [t \in Thread |-> {}]
    /\ overlapped = FALSE
    /\ repeated = FALSE

BeginCall(t) ==
    /\ ReadFile(t)
    /\ during' = [during EXCEPT ![t] = {file}]
    /\ overlapped' = (overlapped \/ \E u \in Thread : call[u].at # "idle")
    /\ UNCHANGED <<held, repeated>>

ContinueCall(t) ==
    /\ CallStep(t)
    /\ UNCHANGED history

EndCall(t) ==
    /\ Return(t)
    /\ UNCHANGED history

\* Somebody rewrites the file.
Rewrite(c) ==
    /\ c # file
    /\ file' = c
    /\ held' = held \cup {c}
    /\ during' = [t \in Thread |-> IF call[t].at = "idle" THEN during[t]
                                                          ELSE during[t] \cup {c}]
    /\ repeated' = (repeated \/ c \in held)
    /\ UNCHANGED <<cache, call, overlapped>>

Next ==
    \/ \E t \in Thread : BeginCall(t) \/ ContinueCall(t) \/ EndCall(t)
    \/ \E c \in Content : Rewrite(c)

Spec == Init /\ [][Next]_vars

(***************************************************************************)
(* Properties                                                              *)
(***************************************************************************)

\* Whatever the interleaving, a call about to return finds in the cache a
\* table the file really held at some time and that parses: never None, never
\* the result of a parse that failed.  (utils.file_cache stores the result
\* before the hash; a hit can only follow a stamp.)
ReturnsWhatFileHeld ==
    \A t \in Thread : call[t].at = "return" => cache.result \in held \ Malformed

\* While calls never overlap and no content ever comes back, a call returns a
\* table the file held during that very call: re-reading the file in the
\* decorated reader and stamping the older hash costs a parse, not freshness.
LoneCallsCurrent ==
    ~overlapped /\ ~repeated =>
        \A t \in Thread : call[t].at = "return" => cache.result \in during[t]

==============================================================================
