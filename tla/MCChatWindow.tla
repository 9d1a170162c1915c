---------------------------- MODULE MCChatWindow ----------------------------
(* Instances of ChatWindow for TLC. *)
EXTENDS ChatWindow

CONSTANTS c1, c2

\* One chat has two pages, the other one.
MCOld == [x \in {c1, c2} |-> IF x = c1 THEN 2 ELSE 1]
=============================================================================
