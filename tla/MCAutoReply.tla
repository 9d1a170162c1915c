---------------------------- MODULE MCAutoReply ----------------------------
(* Instances of AutoReply for TLC: message ids are small numbers.          *)
EXTENDS AutoReply

MCTwoMsgs == 1..2
=============================================================================
