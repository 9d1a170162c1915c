----------------------------- MODULE MCCampaign -----------------------------
(* Instances of Campaign for TLC. *)
EXTENDS Campaign

CONSTANTS p1, p2, p3
=============================================================================
