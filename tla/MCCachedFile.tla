----------------------------- MODULE MCCachedFile -----------------------------
(* CachedFile for TLC: two threads, three contents, one of them malformed. *)
EXTENDS CachedFile, TLC
CONSTANTS c1, c2, c3, t1, t2
MCContent == {c1, c2, c3}
MCMalformed == {c3}
MCThread == {t1, t2}
\* The threads are interchangeable, and so are the two contents that parse.
Symmetry == Permutations(MCThread) \cup Permutations({c1, c2})
==============================================================================
