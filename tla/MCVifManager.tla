----------------------------- MODULE MCVifManager -----------------------------
(* VifManager for TLC. *)
EXTENDS VifManager, TLC
CONSTANTS d1, d2, d3, t1, t2
MCSymmetry == Permutations(Thread)
\* Start with nothing configured, or with one interface.
StartConfigs == {<<>>, <<d1>>}
NoConfigs == {<<>>}
\* ... and, among the requests of one thread, with a list that repeats a name.
SoloConfigs == {<<>>, <<d1>>, <<d1, d1>>}
AppendOperations == {"add", "list"}
===============================================================================
