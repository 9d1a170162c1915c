----------------------------- MODULE MCContacts -----------------------------
(* Instances of Contacts for TLC. *)
EXTENDS Contacts

CONSTANT p

\* A contact that the phone has under both its addresses.
MCBook == {[who |-> p, by |-> "phone"], [who |-> p, by |-> "lid"]}
=============================================================================
