----------------------------- MODULE MCSession ------------------------------
(* Session for TLC: two HTTP threads, two computations.                    *)
EXTENDS Session, TLC

CONSTANTS c1, c2, r1, r2

MCComps == {c1, c2}
MCReqs == {r1, r2}
Symmetry == Permutations(MCComps)
=============================================================================
