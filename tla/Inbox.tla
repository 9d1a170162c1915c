------------------------------- MODULE Inbox -------------------------------
(***************************************************************************)
(* What the inbound webhook promises the shared inbox.  A message is stored *)
(* at most once; it is handled at most once, whether it was stored by its   *)
(* own webhook or beforehand by a history import; and handling it, in one   *)
(* step, creates its conversation if need be, counts it as unread exactly   *)
(* once when it is incoming, and queues exactly one auto-reply job for it.  *)
(***************************************************************************)
EXTENDS Naturals

CONSTANTS Msgs, Incoming, Chats, ChatOf

VARIABLES
  state,    \* [Msgs -> {"absent", "stored", "handled"}]
  jobs,     \* [Msgs -> Nat], auto-reply jobs queued for the message
  known,    \* chats that have a conversation
  unread    \* [Chats -> Nat]

vars == <<state, jobs, known, unread>>

Init ==
  /\ state = [m \in Msgs |-> "absent"]
  /\ jobs = [m \in Msgs |-> 0]
  /\ known \in SUBSET Chats
  /\ unread = [c \in Chats |-> 0]

(* A history import creates the conversation of a chat, if need be, and    *)
(* stores any of its messages, all at once and without their side effects. *)
Import(c, S) ==
  /\ \A m \in S : ChatOf[m] = c /\ state[m] = "absent"
  /\ state' = [m \in Msgs |-> IF m \in S THEN "stored" ELSE state[m]]
  /\ known' = known \cup {c}
  /\ UNCHANGED <<jobs, unread>>

Handle(m) ==
  /\ state[m] # "handled"
  /\ state' = [state EXCEPT ![m] = "handled"]
  /\ known' = known \cup {ChatOf[m]}
  /\ IF m \in Incoming
     THEN /\ jobs' = [jobs EXCEPT ![m] = @ + 1]
          /\ unread' = [unread EXCEPT ![ChatOf[m]] = @ + 1]
     ELSE UNCHANGED <<jobs, unread>>

Read(c) ==
  /\ c \in known
  /\ unread' = [unread EXCEPT ![c] = 0]
  /\ UNCHANGED <<state, jobs, known>>

Next ==
  \/ \E m \in Msgs : Handle(m)
  \/ \E c \in Chats : Read(c) \/ \E S \in SUBSET Msgs : Import(c, S)

Spec == Init /\ [][Next]_vars
=============================================================================
