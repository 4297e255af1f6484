------------------------------ MODULE VifRegistry ------------------------------
(***************************************************************************)
(* What VifManager promises as long as interfaces are only ever appended:  *)
(* the VIFs are a log in which no interface appears twice, an interface's  *)
(* index is its position in the log, and the name list through which       *)
(* routes find that index is some prefix of the log.                       *)
(***************************************************************************)
EXTENDS Naturals, Sequences

CONSTANTS Dev, MaxVifs

VARIABLES
    log,        \* the interfaces in the order of their VIF indices
    known       \* how many of them the name list shows

Init ==
    /\ log \in UNION {[1..n -> Dev] : n \in 0..MaxVifs}
    /\ \A i, j \in DOMAIN log : log[i] = log[j] => i = j
    /\ known = Len(log)

Register(d) ==
    /\ Len(log) < MaxVifs
    /\ \A i \in DOMAIN log : log[i] # d
    /\ log' = Append(log, d)
    /\ UNCHANGED known

\* Slow requests may publish an older listing over a newer one.
Publish(n) ==
    /\ known' = n
    /\ UNCHANGED log

Next ==
    \/ \E d \in Dev : Register(d)
    \/ \E n \in 0..Len(log) : Publish(n)

Spec == Init /\ [][Next]_<<log, known>>
===============================================================================
