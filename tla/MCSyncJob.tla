------------------------------ MODULE MCSyncJob ------------------------------
(* Instances of SyncJob for TLC. *)
EXTENDS SyncJob

CONSTANTS s

MCSessionOf == <<s, s>>
MCWantsContacts == <<TRUE, FALSE>>
MCWantsMessages == <<TRUE, TRUE>>
MCChatsPerRun == <<2, 0>>
MCChatCount == [x \in {s} |-> 3]
=============================================================================
