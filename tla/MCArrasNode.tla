----------------------------- MODULE MCArrasNode -----------------------------
(* ArrasNode for TLC: one session, an HTTP thread that creates, deletes and  *)
(* stops, and one that modifies.  Signals, the monitor and the loss of the   *)
(* router are there to interrupt them.                                     *)
EXTENDS ArrasNode, TLC

CONSTANTS r1, m1, s1

MCReqs == {r1}
MCModifiers == {m1}
MCSessions == {s1}
=============================================================================
