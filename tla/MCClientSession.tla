--------------------------- MODULE MCClientSession ---------------------------
(* ClientSession for TLC: a session created once and changed once, and two  *)
(* client connections.                                                     *)
EXTENDS ClientSession, TLC

CONSTANTS h1, d1, c1, c2

MCCreators == {h1}
MCChangers == {d1}
MCConns == {c1, c2}
Symmetry == Permutations(MCConns)
=============================================================================
