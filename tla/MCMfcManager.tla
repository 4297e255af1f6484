----------------------------- MODULE MCMfcManager -----------------------------
(* MfcManager for TLC. *)
EXTENDS MfcManager
CONSTANTS d1, d2, s1, g1, g2, t1, t2
OnD1 == [from |-> d1, source |-> AnyAddr, group |-> g1, to |-> {d2}]
AlsoOnD1 == [from |-> d1, source |-> AnyAddr, group |-> g2, to |-> {d2}]
Static1 == [from |-> d1, source |-> s1, group |-> g1, to |-> {d1, d2}]
Static2 == [from |-> d2, source |-> s1, group |-> g1, to |-> {d1}]
MCRoute == {OnD1, AlsoOnD1, Static1, Static2}
Arrives(vif, source, group) == [kind |-> "nocache", vif |-> vif, source |-> source, group |-> group]
MCPacket == {Arrives(0, s1, g1), Arrives(0, AnyAddr, g2)}
===============================================================================
