----------------------------- MODULE ReplyOnce -----------------------------
(***************************************************************************)
(* What the auto-reply dispatch promises for each inbound message: it is   *)
(* flagged once, the flag is taken once, for good, and it is answered at   *)
(* most once, after the flag was taken.  A taken flag may stay unanswered  *)
(* (the rules have nothing to say, their run meets an error, the process   *)
(* dies): a reply may be missed, it is never repeated.                     *)
(***************************************************************************)
EXTENDS Naturals

CONSTANT Msgs

VARIABLES
  status,    \* [Msgs -> {"new", "flagged", "claimed", "replied"}]
  replies    \* [Msgs -> Nat], how often the rules replied to the message

vars == <<status, replies>>

Init ==
  /\ status = [m \in Msgs |-> "new"]
  /\ replies = [m \in Msgs |-> 0]

Becomes(m, from, to) ==
  /\ status[m] = from
  /\ status' = [status EXCEPT ![m] = to]

Flag(m)  == Becomes(m, "new", "flagged") /\ UNCHANGED replies
Claim(m) == Becomes(m, "flagged", "claimed") /\ UNCHANGED replies
Reply(m) == Becomes(m, "claimed", "replied")
              /\ replies' = [replies EXCEPT ![m] = @ + 1]

Next == \E m \in Msgs : Flag(m) \/ Claim(m) \/ Reply(m)

Spec == Init /\ [][Next]_vars
=============================================================================
