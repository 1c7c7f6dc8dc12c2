-------------------------- MODULE MCMessageRouting ---------------------------
(* MessageRouting for TLC: two connections of a client, one computation.    *)
EXTENDS MessageRouting, TLC

CONSTANTS c1, c2, p1

MCConns == {c1, c2}
MCComps == {p1}
MCMaxMsgs == (c1 :> 1) @@ (c2 :> 1) @@ (p1 :> 2) @@ (Service :> 1)
Symmetry == Permutations(MCConns)
=============================================================================
