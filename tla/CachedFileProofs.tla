--------------------------- MODULE CachedFileProofs ---------------------------
(***************************************************************************)
(* Proofs about utils.file_cache in an arbitrary environment.              *)
(***************************************************************************)
EXTENDS CachedFile, TLAPS

\* A call that has parsed carries a table the file held; a call that has
\* stored its result, or that found the hash remembered, leaves such a table
\* in the cache; and a remembered hash means that a result is there.
Honest == held \ Malformed

CallInv(t) ==
    /\ call[t].at = "store" => call[t].parsed \in Honest
    /\ call[t].at \in {"stamp", "return"} => cache.result \in Honest
    /\ call[t].at # "idle" => call[t].seen # None

IInv ==
    /\ TypeOK
    /\ file \in held
    /\ cache.result \in Honest \cup {None}
    /\ cache.last_hash # None => cache.result \in Honest
    /\ \A t \in Thread : CallInv(t)

LEMMA IInvInit == Init => IInv
<1> SUFFICES ASSUME Init PROVE IInv
  OBVIOUS
<1> USE DEF Init, EmptyCache, NoCall
<1>1. TypeOK
  BY DEF TypeOK, Steps
<1>2. file \in held /\ cache.result = None /\ cache.last_hash = None
  OBVIOUS
<1>3. \A t \in Thread : CallInv(t)
  BY DEF CallInv
<1> QED BY <1>1, <1>2, <1>3 DEF IInv

LEMMA IInvNext == IInv /\ [Next]_vars => IInv'
<1> SUFFICES ASSUME IInv, [Next]_vars PROVE IInv'
  OBVIOUS
<1> USE CachedFileAssumption DEF IInv, TypeOK, Honest, CallInv, Steps
<1>1. ASSUME NEW t \in Thread, BeginCall(t) PROVE IInv'
  <2> USE <1>1 DEF BeginCall, ReadFile
  <2>1. TypeOK'
    OBVIOUS
  <2>2. \A u \in Thread : CallInv(u)'
    OBVIOUS
  <2> QED BY <2>1, <2>2
<1>2. ASSUME NEW t \in Thread, ContinueCall(t) PROVE IInv'
  <2> USE <1>2 DEF history
  <2>1. CASE Hit(t)
    BY <2>1 DEF ContinueCall, Hit
  <2>2. CASE Miss(t)
    BY <2>2 DEF ContinueCall, Miss
  <2>3. CASE Parse(t)
    <3> USE <2>3 DEF ContinueCall, Parse
    <3>1. TypeOK'
      <4> DEFINE parsing == [call[t] EXCEPT !.at = "store", !.parsed = file]
      <4>1. parsing \in [at : Steps, seen : Content \cup {None}, parsed : Content \cup {None}]
        OBVIOUS
      <4>2. call' = [call EXCEPT ![t] = parsing]
        OBVIOUS
      <4> HIDE DEF parsing
      <4> QED BY <4>1, <4>2
    <3>2. \A u \in Thread : CallInv(u)'
      OBVIOUS
    <3> QED BY <3>1, <3>2
  <2>4. CASE ParseRaises(t)
    BY <2>4 DEF ContinueCall, ParseRaises, NoCall
  <2>5. CASE StoreResult(t)
    BY <2>5 DEF ContinueCall, StoreResult
  <2>6. CASE StampHash(t)
    BY <2>6 DEF ContinueCall, StampHash
  <2> QED BY <2>1, <2>2, <2>3, <2>4, <2>5, <2>6 DEF ContinueCall, CallStep
<1>3. ASSUME NEW t \in Thread, EndCall(t) PROVE IInv'
  BY <1>3 DEF EndCall, Return, NoCall, history
<1>4. ASSUME NEW c \in Content, Rewrite(c) PROVE IInv'
  BY <1>4 DEF Rewrite
<1>5. CASE UNCHANGED vars
  BY <1>5 DEF vars
<1> QED BY <1>1, <1>2, <1>3, <1>4, <1>5 DEF Next

LEMMA IInvAlways == Spec => []IInv
BY IInvInit, IInvNext, PTL DEF Spec

\* Every reachable state of the cache is well formed, for any threads and
\* contents.
THEOREM TypeCorrect == Spec => []TypeOK
<1>1. IInv => TypeOK
  BY DEF IInv
<1> QED BY IInvAlways, <1>1, PTL

\* However many threads share the unprotected cache, no call of the decorated
\* reader returns None or anything but a parsed content the file really had.
THEOREM NeverInvents == Spec => []ReturnsWhatFileHeld
<1>1. IInv => ReturnsWhatFileHeld
  BY DEF IInv, ReturnsWhatFileHeld, CallInv, Honest
<1> QED BY IInvAlways, <1>1, PTL

(***************************************************************************)
(* Freshness, while calls never overlap and no content comes back.  What   *)
(* makes it work: the hash stored last is that of a content at most as new *)
(* as the result stored with it, and a content that is not the file's any  *)
(* more never is again; so a hash that is still the file's vouches for the *)
(* result, except between the two stores of the one call in progress.      *)
(***************************************************************************)
Read ==
    /\ cache.last_hash \in held \cup {None}
    /\ \A t \in Thread : call[t].at # "idle" => call[t].seen \in held

Vouches == cache.last_hash = file => cache.result = file

Fresh(t) ==
    /\ call[t].at # "idle" => file \in during[t]
    /\ call[t].at = "compare" => /\ call[t].seen \in during[t]
                                 /\ call[t].seen = cache.last_hash => cache.result = call[t].seen
    /\ call[t].at = "store" => /\ call[t].parsed \in during[t]
                               /\ call[t].seen = file => call[t].parsed = file
    /\ call[t].at = "stamp" => /\ cache.result \in during[t]
                               /\ call[t].seen = file => cache.result = file
    /\ call[t].at = "return" => cache.result \in during[t]

AtMostOne ==
    \A t, u \in Thread : call[t].at # "idle" /\ call[u].at # "idle" => t = u

\* At most one call is in progress, and what it holds is current.
LInv ==
    /\ Read
    /\ ~overlapped /\ ~repeated =>
        /\ AtMostOne
        /\ \A t \in Thread : Fresh(t)
        /\ (\A t \in Thread : call[t].at # "stamp") => Vouches

LEMMA LInvInit == Init => LInv
BY CachedFileAssumption DEF Init, LInv, Read, AtMostOne, Fresh, Vouches, NoCall, EmptyCache

\* A step inside the call of t, the only one in progress, while the file stays.
LEMMA LInvCall ==
    ASSUME IInv, LInv, NEW t \in Thread, ContinueCall(t) \/ EndCall(t)
    PROVE  LInv'
<1>1. /\ call \in [Thread -> [at : Steps, seen : Content \cup {None}, parsed : Content \cup {None}]]
      /\ cache \in [last_hash : Content \cup {None}, result : Content \cup {None}]
      /\ file' = file /\ UNCHANGED history
  BY DEF IInv, TypeOK, ContinueCall, EndCall, CallStep, Hit, Miss, Parse, ParseRaises,
         StoreResult, StampHash, Return
<1>2. /\ call[t].at # "idle"
      /\ \A u \in Thread : u # t => call'[u] = call[u]
      /\ call'[t].at # "idle" => call'[t].seen = call[t].seen
  <2>1. call[t].at # "idle"
    BY DEF ContinueCall, EndCall, CallStep, Hit, Miss, Parse, ParseRaises, StoreResult,
           StampHash, Return
  <2>2. CASE ParseRaises(t) \/ EndCall(t)
    BY <1>1, <2>1, <2>2 DEF ParseRaises, EndCall, Return, NoCall
  <2>3. CASE Parse(t)
    BY <1>1, <2>1, <2>3 DEF Parse
  <2>4. CASE Hit(t) \/ Miss(t) \/ StoreResult(t) \/ StampHash(t)
    <3>1. PICK a : call' = [call EXCEPT ![t] = [call[t] EXCEPT !.at = a]]
      BY <2>4 DEF Hit, Miss, StoreResult, StampHash
    <3> QED BY <1>1, <2>1, <3>1
  <2> QED BY <2>2, <2>3, <2>4 DEF ContinueCall, CallStep
<1>3. Read'
  <2>1. cache'.last_hash = cache.last_hash \/ cache'.last_hash = call[t].seen
    BY <1>1 DEF ContinueCall, EndCall, CallStep, Hit, Miss, Parse, ParseRaises,
                StoreResult, StampHash, Return
  <2> QED BY <1>1, <1>2, <2>1 DEF LInv, Read, history
<1> SUFFICES ASSUME ~overlapped, ~repeated
             PROVE  /\ AtMostOne'
                    /\ \A u \in Thread : Fresh(u)'
                    /\ (\A u \in Thread : call'[u].at # "stamp") => Vouches'
  BY <1>1, <1>3 DEF LInv, history
<1>4. AtMostOne /\ Fresh(t) /\ ((\A u \in Thread : call[u].at # "stamp") => Vouches)
  BY DEF LInv
<1>5. \A u \in Thread : u # t => call[u].at = "idle" /\ call'[u].at = "idle"
  BY <1>2, <1>4 DEF AtMostOne
<1>6. AtMostOne'
  BY <1>5 DEF AtMostOne
<1>7. \A u \in Thread : u # t => Fresh(u)'
  BY <1>5 DEF Fresh
<1>8. call[t].at # "stamp" => Vouches
  BY <1>4, <1>5
<1>9. SUFFICES Fresh(t)' /\ (call'[t].at # "stamp" => Vouches')
  BY <1>6, <1>7
<1>10. CASE Hit(t)
  <2>1. call[t].at = "compare" /\ call'[t].at = "return" /\ cache' = cache
        /\ call[t].seen = cache.last_hash
    BY <1>1, <1>10 DEF Hit
  <2> QED BY <1>1, <1>4, <1>8, <2>1 DEF Fresh, Vouches, history
<1>11. CASE Miss(t)
  <2>1. call[t].at = "compare" /\ call'[t].at = "parse" /\ cache' = cache
    BY <1>1, <1>11 DEF Miss
  <2> QED BY <1>1, <1>4, <1>8, <2>1 DEF Fresh, Vouches, history
<1>12. CASE Parse(t)
  <2>1. call[t].at = "parse" /\ call'[t].at = "store" /\ cache' = cache /\ call'[t].parsed = file
    BY <1>1, <1>12 DEF Parse
  <2> QED BY <1>1, <1>4, <1>8, <2>1 DEF Fresh, Vouches, history
<1>13. CASE ParseRaises(t) \/ EndCall(t)
  <2>1. call[t].at # "stamp" /\ call'[t].at = "idle" /\ cache' = cache
    BY <1>1, <1>13 DEF ParseRaises, EndCall, Return, NoCall
  <2> QED BY <1>1, <1>4, <1>8, <2>1 DEF Fresh, Vouches, history
<1>14. CASE StoreResult(t)
  <2>1. call[t].at = "store" /\ call'[t].at = "stamp" /\ cache'.result = call[t].parsed
        /\ call'[t].seen = call[t].seen
    BY <1>1, <1>14 DEF StoreResult
  <2> QED BY <1>1, <1>4, <2>1 DEF Fresh, history
<1>15. CASE StampHash(t)
  <2>1. call[t].at = "stamp" /\ call'[t].at = "return" /\ cache'.result = cache.result
        /\ cache'.last_hash = call[t].seen
    BY <1>1, <1>15 DEF StampHash
  <2> QED BY <1>1, <1>4, <2>1 DEF Fresh, Vouches, history
<1> QED BY <1>10, <1>11, <1>12, <1>13, <1>14, <1>15 DEF ContinueCall, CallStep

LEMMA LInvBegin == ASSUME IInv, LInv, NEW t \in Thread, BeginCall(t) PROVE LInv'
<1>1. /\ call' = [call EXCEPT ![t] = [at |-> "compare", seen |-> file, parsed |-> None]]
      /\ call[t].at = "idle" /\ cache' = cache /\ file' = file /\ held' = held
      /\ during' = [during EXCEPT ![t] = {file}] /\ repeated' = repeated
      /\ overlapped' = (overlapped \/ \E u \in Thread : call[u].at # "idle")
      /\ file \in held
  BY DEF BeginCall, ReadFile, IInv
<1>2. /\ call'[t] = [at |-> "compare", seen |-> file, parsed |-> None]
      /\ during'[t] = {file}
      /\ \A u \in Thread : u # t => call'[u] = call[u] /\ during'[u] = during[u]
  BY <1>1 DEF IInv, TypeOK
<1>3. Read'
  BY <1>1, <1>2 DEF LInv, Read
<1> SUFFICES ASSUME ~overlapped', ~repeated'
             PROVE  /\ AtMostOne'
                    /\ \A u \in Thread : Fresh(u)'
                    /\ (\A u \in Thread : call'[u].at # "stamp") => Vouches'
  BY <1>3 DEF LInv
<1>4. ~overlapped /\ ~repeated /\ \A u \in Thread : call[u].at = "idle"
  BY <1>1 DEF IInv, TypeOK
<1>5. Vouches
  BY <1>4 DEF LInv
<1>6. AtMostOne' /\ Vouches'
  BY <1>1, <1>2, <1>4, <1>5 DEF AtMostOne, Vouches
<1>7. \A u \in Thread : u # t => Fresh(u)'
  BY <1>2, <1>4 DEF Fresh
<1>8. Fresh(t)'
  BY <1>1, <1>2, <1>5 DEF Fresh, Vouches
<1> QED BY <1>6, <1>7, <1>8

\* A content that has never been held changes nothing of what is remembered.
LEMMA LInvRewrite == ASSUME IInv, LInv, NEW c \in Content, Rewrite(c) PROVE LInv'
<1>1. /\ file' = c /\ held' = held \cup {c} /\ UNCHANGED <<cache, call, overlapped>>
      /\ \A t \in Thread : during[t] \subseteq during'[t]
      /\ \A t \in Thread : call[t].at # "idle" => c \in during'[t]
      /\ repeated' = (repeated \/ c \in held)
  BY DEF Rewrite
<1>2. Read'
  BY <1>1 DEF LInv, Read
<1> SUFFICES ASSUME ~overlapped, ~repeated, c \notin held
             PROVE  /\ AtMostOne'
                    /\ \A u \in Thread : Fresh(u)'
                    /\ (\A u \in Thread : call'[u].at # "stamp") => Vouches'
  BY <1>1, <1>2 DEF LInv, IInv, TypeOK
<1>3. cache.last_hash # c /\ \A t \in Thread : call[t].at # "idle" => call[t].seen # c
  BY CachedFileAssumption DEF LInv, Read
<1>4. Vouches' /\ AtMostOne'
  BY <1>1, <1>3 DEF LInv, AtMostOne, Vouches
<1>5. ASSUME NEW t \in Thread PROVE Fresh(t)'
  BY <1>1, <1>3 DEF LInv, Fresh
<1> QED BY <1>4, <1>5

LEMMA LInvNext == IInv /\ LInv /\ [Next]_vars => LInv'
<1> SUFFICES ASSUME IInv, LInv, [Next]_vars PROVE LInv'
  OBVIOUS
<1>1. CASE UNCHANGED vars
  BY <1>1 DEF vars, LInv, Read, AtMostOne, Fresh, Vouches
<1> QED BY <1>1, LInvCall, LInvBegin, LInvRewrite DEF Next

\* A caller that is never overtaken gets a table the file held during its call,
\* although the result stored may be newer than the hash stored with it.
THEOREM LoneCallsCurrentAlways == Spec => []LoneCallsCurrent
<1>1. LInv => LoneCallsCurrent
  BY DEF LInv, Fresh, LoneCallsCurrent
<1> QED BY LInvInit, LInvNext, IInvAlways, <1>1, PTL DEF Spec
==============================================================================
