----------------------------- MODULE MCInbound -----------------------------
(* Instances of Inbound for TLC: every message belongs to one busy chat.   *)
EXTENDS Inbound, TLC

CONSTANTS c1

MCOneChat == [m \in Msgs |-> c1]
MCSymmetry == Permutations(Requests)
=============================================================================
