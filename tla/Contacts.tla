------------------------------ MODULE Contacts ------------------------------
(***************************************************************************)
(* Contacts: which partner a webhook or a phone sync finds for a WhatsApp  *)
(* contact, the ones they create, and whose names a sync may change.       *)
(*                                                                         *)
(* Each webhook, and each page of a sync, is a transaction: it sees the    *)
(* partners as they were when it began (PostgreSQL, REPEATABLE READ), and  *)
(* calls WAHA in between.  A number is the digits a contact is known by:   *)
(* of its phone, or of its LID, WhatsApp's other address for it.           *)
(***************************************************************************)
EXTENDS Naturals

CONSTANTS
    People, None,
    Names,
    Book,           \* the phone's contacts: records of who, and the address it is under
    OnlyNamed,      \* only_named of the sync
    PageSize,       \* contacts per page of the sync
    MaxPartners,    \* bound: partners there may be
    MaxHooks,       \* bound: webhooks
    MaxSyncs,       \* bound: syncs
    MaxEdits        \* bound: names changed, by users or on the phone

Addresses == {"phone", "lid", "group"}

ASSUME ContactsAssumption ==
    /\ None \notin Names \cup People /\ Names # {}
    /\ Book \subseteq [who : People, by : {"phone", "lid"}]
    /\ OnlyNamed \in BOOLEAN /\ PageSize \in Nat \ {0}
    /\ {MaxPartners, MaxHooks, MaxSyncs, MaxEdits} \subseteq Nat

VARIABLES
    partners,   \* committed
    created,    \* ids given, to partners that are not committed too
    hooks,      \* webhooks under way, each with the partners it sees
    sync,       \* the sync under way: contacts to come, those read of the page, the
                \* phone's names, the partners when the page began, and with its writes
    saved,      \* name of each contact on the phone, None for none
    raced,      \* history: numbers created by a transaction that did not see the partner
    handled, syncs, edits

vars == <<partners, created, hooks, sync, saved, raced, handled, syncs, edits>>

Number(who, by) == [who |-> who, by |-> by]

\* How a number is written in a partner's phone field: with its plus, without, or in
\* some national way, and whether Odoo could make phone_sanitized of that.
Writings == {"plus", "bare", "national"}
Partner(n, name, synced) ==
    [id |-> created + 1, number |-> n, writing |-> "plus", sanitized |-> TRUE,
     name |-> name, waha_synced_name |-> synced, typed |-> None, agreed |-> FALSE]

Init ==
    /\ \/ partners = {} /\ created = 0
       \/ \E who \in People, w \in Writings, name \in Names : created = 1 /\
            partners = {[id |-> 1, number |-> Number(who, "phone"), writing |-> w,
                         sanitized |-> w = "plus", name |-> name,
                         waha_synced_name |-> None,
                         typed |-> name, agreed |-> FALSE]}
    /\ hooks = {} /\ sync = None
    /\ saved \in [People -> {None, CHOOSE n \in Names : TRUE}]
    /\ raced = {} /\ handled = 0 /\ syncs = 0 /\ edits = 0

-----------------------------------------------------------------------------
(* The number of a contact, and the partner it finds.                      *)

\* WAHA may know the phone of a LID.
_resolve_lid_to_phone(who) == {Number(who, "phone"), None}

\* A webhook knows the phone by the contact's record or its address; of a LID only if
\* WAHA resolves it, or the message says it.  "The contact info 'number' field just
\* echoes the LID numeric part, not a real phone."  No group id passes for a phone.
Phones(who, by) ==
    CASE by = "phone" -> {Number(who, "phone")}
      [] by = "lid"   -> _resolve_lid_to_phone(who)
      [] by = "group" -> {None}

\* _sync_sanitize drops the suffix: the digits of a LID are as good as a phone's.
SyncNumber(contact) == Number(contact.who, contact.by)

Sanitized(seen, n) == {x \in seen : x.number = n /\ (x.sanitized \/ x.writing = "plus")}
Bare(seen, n) == {x \in seen : x.number = n /\ x.writing = "bare"}

\* Mutant: what is not in E.164 form is not looked for.
FoundPlus(seen, n) == Sanitized(seen, n)

\* With the plus first, then without: what a webhook looks for.  (limit=1: any one.)
Found(seen, n) == IF Sanitized(seen, n) # {} THEN Sanitized(seen, n) ELSE Bare(seen, n)

_find_partner_by_phone(seen, n) == Sanitized(seen, n) \cup Bare(seen, n)

Recognised(x) == x.sanitized \/ x.writing \in {"plus", "bare"}

NextId == created < MaxPartners /\ created' = created + 1

\* A partner that somebody else created meanwhile is not seen.
Missed(seen, n) == \E x \in partners : x.number = n /\ \A y \in seen : y.id # x.id

-----------------------------------------------------------------------------
(* Webhooks.                                                               *)

HookBegins(who, by) ==
    /\ handled < MaxHooks /\ handled' = handled + 1
    /\ hooks' = hooks \cup {[id |-> handled, who |-> who, by |-> by, seen |-> partners]}
    /\ UNCHANGED <<partners, created, sync, saved, raced, syncs, edits>>

\* The name on the phone, else the one the contact goes by.
NameOf(who, names) == IF names[who] = None THEN CHOOSE n \in Names : TRUE ELSE names[who]

_find_or_create_partner(h) ==
    /\ h \in hooks
    /\ \E n \in Phones(h.who, h.by) :
         IF n = None \/ Found(h.seen, n) # {}
         THEN UNCHANGED <<partners, created, raced>>
         ELSE /\ NextId
              /\ partners' = partners \cup {Partner(n, NameOf(h.who, saved), None)}
              /\ raced' = IF Missed(h.seen, n) THEN raced \cup {n} ELSE raced
    /\ hooks' = hooks \ {h}
    /\ UNCHANGED <<sync, saved, handled, syncs, edits>>

-----------------------------------------------------------------------------
(* sync_contacts.                                                          *)

\* A page begins with the partners and the phone's names of that moment.
Page(left, seen) == [left |-> left, read |-> 0, names |-> saved, begun |-> seen, seen |-> seen]

SyncBegins ==
    /\ sync = None /\ syncs < MaxSyncs /\ syncs' = syncs + 1
    /\ sync' = Page(Book, partners)
    /\ UNCHANGED <<partners, created, hooks, saved, raced, handled, edits>>

\* Mutant: the name is compared with the phone's, and not with the one of the last sync.
SyncedAlways(x, new) ==
    [x EXCEPT !.name = new, !.waha_synced_name = new, !.agreed = @ \/ x.typed = new]

\* The name follows the phone's while it is still the one of the last sync.
Synced(x, new) ==
    [x EXCEPT !.name = IF x.name = x.waha_synced_name THEN new ELSE @,
              !.waha_synced_name = new,
              !.agreed = @ \/ x.typed \in {new, x.waha_synced_name}]

\* What the page has written and not committed, and whose row it holds.
Written == IF sync = None THEN {} ELSE sync.seen \ sync.begun
Held(x) == \E y \in Written : y.id = x.id

Reads(c, seen) ==
    sync' = [sync EXCEPT !.left = @ \ {c}, !.read = @ + 1, !.seen = seen]

\* A partner that was written since the page began refuses the write, and the sync
\* fails.
UpdateName(x, c) ==
    LET name == sync.names[c.who]
        new  == IF name = None THEN x ELSE Synced(x, name)
    IN  /\ UNCHANGED created
        /\ IF new # x /\ x \in sync.begun \ partners
           THEN sync' = None
           ELSE Reads(c, (sync.seen \ {x}) \cup {new})

SyncContact(c) ==
    /\ sync # None /\ c \in sync.left /\ sync.read < PageSize
    /\ LET found == _find_partner_by_phone(sync.seen, SyncNumber(c))
           name  == NameOf(c.who, sync.names)
       IN  IF OnlyNamed /\ sync.names[c.who] = None
           THEN Reads(c, sync.seen) /\ UNCHANGED created
           ELSE \/ \E x \in found : UpdateName(x, c)
                \/ /\ found = {} /\ NextId
                   /\ Reads(c, sync.seen \cup {Partner(SyncNumber(c), name, name)})
    /\ UNCHANGED <<partners, hooks, saved, raced, handled, syncs, edits>>

\* The page is committed: what was created in it races with what others created
\* since it began.
SyncCommits ==
    /\ sync # None /\ (sync.left = {} \/ sync.read = PageSize)
    /\ partners' = {x \in partners : ~Held(x)} \cup Written
    /\ raced' = raced \cup {y.number : y \in {z \in Written :
                   /\ \A x \in sync.begun : x.id # z.id
                   /\ Missed(sync.begun, z.number)}}
    /\ sync' = IF sync.left = {} THEN None ELSE Page(sync.left, partners')
    /\ UNCHANGED <<created, hooks, saved, handled, syncs, edits>>

-----------------------------------------------------------------------------
(* Users.                                                                  *)

Edits == edits < MaxEdits /\ edits' = edits + 1

\* It waits for a page that holds the row, and starts again.
Rename(x, name) ==
    /\ Edits /\ x \in partners /\ name # x.name /\ ~Held(x)
    /\ partners' = (partners \ {x}) \cup
                     {[x EXCEPT !.name = name, !.typed = name,
                                !.agreed = name = x.waha_synced_name]}
    /\ UNCHANGED <<created, hooks, sync, saved, raced, handled, syncs>>

PhoneRenames(who, name) ==
    /\ Edits /\ saved[who] # name
    /\ saved' = [saved EXCEPT ![who] = name]
    /\ UNCHANGED <<partners, created, hooks, sync, raced, handled, syncs>>

Next ==
    \/ SyncBegins \/ SyncCommits
    \/ \E c \in Book : SyncContact(c)
    \/ \E who \in People, by \in Addresses : HookBegins(who, by)
    \/ \E h \in hooks : _find_or_create_partner(h)
    \/ \E name \in Names : \/ \E x \in partners : Rename(x, name)
                           \/ \E who \in People : PhoneRenames(who, name)

Spec == Init /\ [][Next]_vars

-----------------------------------------------------------------------------
(* Properties.                                                             *)

Partners == [id : Nat, number : [who : People, by : {"phone", "lid"}],
             writing : Writings, sanitized : BOOLEAN, name : Names,
             waha_synced_name : Names \cup {None},
             typed : Names \cup {None}, agreed : BOOLEAN]
TypeOK ==
    /\ partners \subseteq Partners
    /\ saved \in [People -> Names \cup {None}]
    /\ hooks \subseteq [id : Nat, who : People, by : Addresses, seen : SUBSET Partners]
    /\ sync \in {None} \cup [left : SUBSET Book, read : Nat, names : [People -> Names \cup {None}],
                            begun : SUBSET Partners, seen : SUBSET Partners]
    /\ {created, handled, syncs, edits} \subseteq Nat

\* Two partners have one number only when the second was created by a webhook or a
\* sync that ran while the first was: nothing in the database keeps the two webhooks
\* of a message from doing so - or when the first is written so that no search finds it.
OnePartner ==
    \A x, y \in partners :
      x # y /\ x.number = y.number /\ Recognised(x) /\ Recognised(y) => x.number \in raced

\* "Hand-edited names are always preserved": a name typed in Odoo stays, whatever
\* the phone calls the contact - unless the phone's name was, at some sync, that
\* very name: it then counts as not edited, and the next change overwrites it.
NamesKept ==
    \A x \in partners : x.typed # None => x.name = x.typed \/ x.agreed
=============================================================================
