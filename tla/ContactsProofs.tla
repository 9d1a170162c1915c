---------------------------- MODULE ContactsProofs ----------------------------
(***************************************************************************)
(* Proofs about Contacts, for every set of people and names, every book of *)
(* the phone and size of its pages, and any number of webhooks, syncs and  *)
(* edits.                                                                  *)
(***************************************************************************)
EXTENDS Contacts, TLAPS

(* What is never written again once a partner is created. *)
Same(x, y) ==
    x.id = y.id /\ x.number = y.number /\ x.writing = y.writing /\ x.sanitized = y.sanitized

(* Partners are not deleted: a transaction that saw one sees it still,     *)
(* but for its names.                                                      *)
Seen(seen, set) == \A y \in seen : \E x \in set : Same(x, y)

(* What holds of the committed partners, and of those that a page sees: an *)
(* id is given once, and the two properties.                               *)
Ids(set, last) ==
    /\ \A x \in set : x.id <= last
    /\ \A x, y \in set : x.id = y.id => x = y
One(set) ==
    \A x, y \in set :
      x # y /\ x.number = y.number /\ Recognised(x) /\ Recognised(y) => x.number \in raced
Kept(x) == x.typed # None => x.name = x.typed \/ x.agreed
Sound(set) ==
    /\ set \subseteq Partners /\ Ids(set, created) /\ One(set)
    /\ \A x \in set : Kept(x)

(* What a page writes is a new partner, or one that nobody else writes.    *)
New(y, set) == \A x \in set : x.id # y.id
Own(y) == \E z \in sync.begun : z \in partners /\ Same(y, z)
SyncInv ==
    sync # None =>
      /\ Sound(sync.seen)
      /\ Seen(sync.begun, partners) /\ Seen(sync.begun, sync.seen)
      /\ \A y \in sync.seen \ sync.begun : Own(y) \/ New(y, partners \cup sync.begun)

IInv ==
    /\ TypeOK /\ Sound(partners)
    /\ \A h \in hooks : Seen(h.seen, partners)
    /\ SyncInv

-------------------------------------------------------------------------------
(* A step writes the names of a partner, creates one, or does neither. *)
Renamed(x, y) ==
    /\ x \in partners /\ y \in Partners /\ Same(y, x) /\ Kept(y)
    /\ partners' = (partners \ {x}) \cup {y}
    /\ UNCHANGED <<created, raced>>

LEMMA RenamedSound ==
  ASSUME Sound(partners), NEW x, NEW y, Renamed(x, y)
  PROVE  /\ Sound(partners)'
         /\ \A s : Seen(s, partners) => Seen(s, partners')
<1> USE DEF Sound, Renamed
<1>1. \A z \in partners' : z \in Partners /\ \E w \in partners : Same(z, w)
  BY DEF Same
<1>2. \A z \in partners : \E w \in partners' : Same(w, z)
  BY DEF Same
<1>3. Ids(partners, created)' BY DEF Ids, Same
<1>4. One(partners)'
  <2> SUFFICES ASSUME NEW z \in partners', NEW w \in partners', z # w, z.number = w.number,
                      Recognised(z), Recognised(w)
               PROVE  z.number \in raced
    BY DEF One, Recognised
  <2>1. PICK a \in partners, b \in partners : Same(z, a) /\ Same(w, b)
    BY <1>1
  <2>2. a # b
    BY <1>3, <2>1 DEF Ids, Same
  <2>3. a.number = b.number /\ Recognised(a) /\ Recognised(b) /\ a.number = z.number
    BY <2>1 DEF Same, Recognised
  <2> QED BY <2>2, <2>3 DEF One
<1>5. \A z \in partners' : Kept(z)'
  BY DEF Kept
<1>6. \A s : Seen(s, partners) => Seen(s, partners')
  <2> SUFFICES ASSUME NEW s, Seen(s, partners), NEW z \in s
               PROVE  \E w \in partners' : Same(w, z)
    BY DEF Seen
  <2>1. PICK a \in partners : Same(a, z) BY DEF Seen
  <2>2. PICK w \in partners' : Same(w, a) BY <1>2
  <2> QED BY <2>1, <2>2 DEF Same
<1> QED BY <1>1, <1>3, <1>4, <1>5, <1>6

-------------------------------------------------------------------------------
LEMMA SomeName == (CHOOSE n \in Names : TRUE) \in Names
BY ContactsAssumption

LEMMA NameType ==
  ASSUME NEW names \in [People -> Names \cup {None}], NEW who \in People
  PROVE  NameOf(who, names) \in Names /\ (names[who] # None => names[who] \in Names)
BY SomeName DEF NameOf

Numbers == [who : People, by : {"phone", "lid"}]

LEMMA NewPartner ==
  ASSUME TypeOK, NEW n \in Numbers, NEW name \in Names, NEW synced \in Names \cup {None}
  PROVE  LET z == Partner(n, name, synced)
         IN  /\ z \in Partners /\ z.id = created + 1 /\ z.number = n
             /\ z.typed = None /\ Recognised(z) /\ Kept(z)
BY DEF TypeOK, Partner, Partners, Writings, Numbers, Recognised, Kept

LEMMA InitInv == Init => IInv
<1> SUFFICES ASSUME Init PROVE IInv OBVIOUS
<1>1. saved \in [People -> Names \cup {None}] BY SomeName DEF Init
<1>2. created \in Nat /\ Sound(partners)
  <2>1. CASE partners = {} /\ created = 0
    BY <2>1 DEF Sound, Ids, One
  <2>2. CASE \E who \in People, w \in Writings, name \in Names : created = 1 /\
               partners = {[id |-> 1, number |-> Number(who, "phone"), writing |-> w,
                            sanitized |-> w = "plus", name |-> name,
                            waha_synced_name |-> None, typed |-> name, agreed |-> FALSE]}
    <3>1. PICK who \in People, w \in Writings, name \in Names : created = 1 /\
            partners = {[id |-> 1, number |-> Number(who, "phone"), writing |-> w,
                         sanitized |-> w = "plus", name |-> name,
                         waha_synced_name |-> None, typed |-> name, agreed |-> FALSE]}
      BY <2>2
    <3> DEFINE x == [id |-> 1, number |-> Number(who, "phone"), writing |-> w,
                     sanitized |-> w = "plus", name |-> name,
                     waha_synced_name |-> None, typed |-> name, agreed |-> FALSE]
    <3>2. x \in Partners /\ x.id = 1 /\ x.name = x.typed BY DEF Partners, Number
    <3>3. partners = {x} /\ created = 1 BY <3>1
    <3> HIDE DEF x
    <3> QED BY <3>2, <3>3 DEF Sound, Ids, One, Kept
  <2> QED BY <2>1, <2>2 DEF Init
<1> QED BY <1>1, <1>2 DEF Init, IInv, TypeOK, SyncInv, Sound

(* A sync follows the phone's name only where no hand has typed another. *)
LEMMA SyncedName ==
  ASSUME NEW x \in Partners, Kept(x), NEW new \in Names
  PROVE  Synced(x, new) \in Partners /\ Same(Synced(x, new), x) /\ Kept(Synced(x, new))
BY DEF Synced, Partners, Same, Kept

(* What a page sees stays sound while others commit. *)
LEMMA SyncStays ==
  ASSUME SyncInv, UNCHANGED sync, raced \subseteq raced',
         created \in Nat, created' \in Nat, created <= created',
         sync # None => sync.seen \subseteq Partners,
         Seen(sync.begun, partners) => Seen(sync.begun, partners'),
         \A y \in Written : /\ Own(y) => Own(y)'
                            /\ New(y, partners) /\ y.id <= created => New(y, partners')
  PROVE  SyncInv'
<1> SUFFICES ASSUME sync # None PROVE SyncInv' BY DEF SyncInv
<1>1. Sound(sync.seen)'
  <2>1. Sound(sync.seen) BY DEF SyncInv
  <2>2. Ids(sync.seen, created)'
    <3>1. \A x \in sync.seen : x.id \in Nat BY DEF Partners
    <3> QED BY <2>1, <3>1 DEF Sound, Ids
  <2>3. One(sync.seen)' BY <2>1 DEF Sound, One
  <2> QED BY <2>1, <2>2, <2>3 DEF Sound, Kept
<1>2. Seen(sync.begun, partners)' /\ Seen(sync.begun, sync.seen)' BY DEF SyncInv, Seen
<1>3. ASSUME NEW y \in sync.seen \ sync.begun
      PROVE  Own(y)' \/ New(y, partners \cup sync.begun)'
  <2>1. y.id <= created BY DEF SyncInv, Sound, Ids
  <2>2. y \in Written BY DEF Written
  <2>3. Own(y) \/ New(y, partners \cup sync.begun) BY DEF SyncInv
  <2> QED BY <2>1, <2>2, <2>3 DEF New
<1> QED BY <1>1, <1>2, <1>3 DEF SyncInv

(* A partner with the number of an older one that a search would find is   *)
(* created only if that was not there when the transaction began.          *)
LEMMA HookStep ==
  ASSUME IInv, NEW h \in hooks, _find_or_create_partner(h)
  PROVE  IInv'
<1> USE DEF IInv
<1>1. h.who \in People /\ h.by \in Addresses /\ Seen(h.seen, partners)
  BY DEF TypeOK
<1>2. PICK n \in Phones(h.who, h.by) :
        IF n = None \/ Found(h.seen, n) # {}
        THEN UNCHANGED <<partners, created, raced>>
        ELSE /\ NextId
             /\ partners' = partners \cup {Partner(n, NameOf(h.who, saved), None)}
             /\ raced' = IF Missed(h.seen, n) THEN raced \cup {n} ELSE raced
  BY DEF _find_or_create_partner
<1>3. UNCHANGED <<sync, saved, handled, syncs, edits>> /\ hooks' = hooks \ {h}
  BY DEF _find_or_create_partner
<1>4. CASE UNCHANGED <<partners, created, raced>>
  <2>1. Sound(partners)' BY <1>4 DEF Sound, Ids, One, Kept
  <2>2. SyncInv' BY <1>3, <1>4 DEF SyncInv, Sound, Ids, One, Kept, Seen, Own, New
  <2> QED BY <1>3, <1>4, <2>1, <2>2 DEF TypeOK
<1>5. CASE ~UNCHANGED <<partners, created, raced>>
  <2> DEFINE z == Partner(n, NameOf(h.who, saved), None)
  <2>1. n # None /\ Found(h.seen, n) = {} /\ NextId /\ partners' = partners \cup {z}
        /\ raced' = IF Missed(h.seen, n) THEN raced \cup {n} ELSE raced
    BY <1>2, <1>5
  <2>2. n \in Numbers
    BY <1>1, <2>1 DEF Phones, Number, _resolve_lid_to_phone, Addresses, Numbers
  <2>3. NameOf(h.who, saved) \in Names BY <1>1, NameType DEF TypeOK
  <2>4. z \in Partners /\ z.id = created + 1 /\ z.number = n /\ Kept(z)
    BY <2>2, <2>3, NewPartner
  <2>5. created \in Nat /\ created' = created + 1 BY <2>1 DEF NextId, TypeOK
  <2> HIDE DEF z
  <2>6. \A x \in partners : x \in Partners /\ x.id \in Nat /\ x.id <= created
    BY DEF Sound, Ids, Partners
  <2>7. Ids(partners, created)'
    <3>1. \A x \in partners' : x.id <= created + 1 BY <2>1, <2>4, <2>5, <2>6
    <3>2. \A x, y \in partners' : x.id = y.id => x = y
      BY <2>1, <2>4, <2>5, <2>6 DEF Sound, Ids
    <3> QED BY <2>5, <3>1, <3>2 DEF Ids
  <2>8. ASSUME NEW x \in partners, x.number = n, Recognised(x)
        PROVE  n \in raced'
    <3>1. \A y \in h.seen : y.id # x.id
      <4> SUFFICES ASSUME NEW y \in h.seen, y.id = x.id PROVE FALSE
        OBVIOUS
      <4>1. PICK w \in partners : Same(w, y) BY <1>1 DEF Seen
      <4>2. w = x BY <4>1 DEF Same, Sound, Ids
      <4>3. y.number = n /\ Recognised(y) BY <2>8, <4>1, <4>2 DEF Same, Recognised
      <4> QED BY <2>1, <4>3 DEF Recognised, Sanitized, Bare, Found
    <3> QED BY <2>1, <2>8, <3>1 DEF Missed
  <2>9. One(partners)'
    <3> SUFFICES ASSUME NEW x \in partners', NEW y \in partners', x # y, x.number = y.number,
                        Recognised(x), Recognised(y)
                 PROVE  x.number \in raced'
      BY DEF One, Recognised
    <3>1. CASE x \in partners /\ y \in partners BY <2>1, <3>1 DEF Sound, One
    <3>2. CASE x = z BY <2>1, <2>4, <2>8, <3>2
    <3>3. CASE y = z BY <2>1, <2>4, <2>8, <3>3
    <3> QED BY <2>1, <3>1, <3>2, <3>3
  <2>10. Sound(partners)' BY <2>1, <2>4, <2>7, <2>9 DEF Sound, Kept
  <2>11. \A s : Seen(s, partners) => Seen(s, partners') BY <2>1 DEF Seen
  <2>12. SyncInv'
    <3>1. sync # None => sync.seen \subseteq Partners BY DEF TypeOK
    <3>2. ASSUME NEW y \in Written
          PROVE  /\ Own(y) => Own(y)'
                 /\ New(y, partners) /\ y.id <= created => New(y, partners')
      <4>1. y.id \in Nat BY <3>1 DEF Written, Partners
      <4> QED BY <1>3, <2>1, <2>4, <2>5, <4>1 DEF Own, New
    <3> QED BY <1>3, <2>1, <2>5, <2>11, <3>1, <3>2, SyncStays
  <2> QED BY <1>3, <2>5, <2>10, <2>11, <2>12 DEF TypeOK, Sound
<1> QED BY <1>4, <1>5

-------------------------------------------------------------------------------
LEMMA ContactStep ==
  ASSUME IInv, NEW c \in Book, SyncContact(c)
  PROVE  IInv'
<1> USE DEF IInv
<1>1. sync # None /\ UNCHANGED <<partners, hooks, saved, raced, handled, syncs, edits>>
  BY DEF SyncContact
<1>2. /\ sync \in [left : SUBSET Book, read : Nat, names : [People -> Names \cup {None}],
                   begun : SUBSET Partners, seen : SUBSET Partners]
      /\ c.who \in People /\ SyncNumber(c) \in Numbers /\ created \in Nat
  BY <1>1, ContactsAssumption DEF TypeOK, SyncNumber, Number, Numbers
<1>3. /\ Sound(sync.seen) /\ Seen(sync.begun, partners) /\ Seen(sync.begun, sync.seen)
      /\ \A y \in sync.seen \ sync.begun : Own(y) \/ New(y, partners \cup sync.begun)
  BY <1>1 DEF SyncInv
<1>4. ASSUME created' \in Nat, created <= created', SyncInv',
             sync' \in {None} \cup
                [left : SUBSET Book, read : Nat, names : [People -> Names \cup {None}],
                 begun : SUBSET Partners, seen : SUBSET Partners]
      PROVE  IInv'
  <2>1. Sound(partners)'
    <3>1. \A x \in partners : x.id \in Nat BY DEF Sound, Partners
    <3> QED BY <1>1, <1>2, <1>4, <3>1 DEF Sound, Ids, One, Kept
  <2> QED BY <1>1, <1>4, <2>1 DEF TypeOK, Seen
<1>5. ASSUME NEW seen, Reads(c, seen), created' \in Nat, created <= created',
             seen \subseteq Partners, Ids(seen, created'), One(seen), \A x \in seen : Kept(x),
             Seen(sync.begun, seen),
             \A y \in seen \ sync.begun : Own(y) \/ New(y, partners \cup sync.begun)
      PROVE  IInv'
  <2>1. sync'.seen = seen /\ sync'.begun = sync.begun
        /\ sync' \in [left : SUBSET Book, read : Nat, names : [People -> Names \cup {None}],
                      begun : SUBSET Partners, seen : SUBSET Partners]
    <3>1. sync' = [sync EXCEPT !.left = @ \ {c}, !.read = @ + 1, !.seen = seen]
      BY <1>5 DEF Reads
    <3>2. sync.left \ {c} \in SUBSET Book /\ sync.read + 1 \in Nat BY <1>2
    <3>3. sync' = [left |-> sync.left \ {c}, read |-> sync.read + 1, names |-> sync.names,
                   begun |-> sync.begun, seen |-> seen]
      BY <1>2, <3>1
    <3>4. seen \in SUBSET Partners BY <1>5
    <3>5. sync.names \in [People -> Names \cup {None}] /\ sync.begun \in SUBSET Partners BY <1>2
    <3> QED BY <3>2, <3>3, <3>4, <3>5
  <2>2. SyncInv'
    <3>1. Sound(sync.seen)' BY <1>1, <1>5, <2>1 DEF Sound, Ids, One, Kept
    <3>2. Seen(sync.begun, partners)' /\ Seen(sync.begun, sync.seen)'
      BY <1>1, <1>3, <1>5, <2>1
    <3>3. \A y \in sync'.seen \ sync'.begun : Own(y)' \/ New(y, partners \cup sync.begun)'
      BY <1>1, <1>5, <2>1 DEF Own, New
    <3> QED BY <3>1, <3>2, <3>3 DEF SyncInv
  <2> QED BY <1>4, <1>5, <2>1, <2>2
<1>6. ASSUME UNCHANGED created, Reads(c, sync.seen) PROVE IInv'
  <2>1. Ids(sync.seen, created') BY <1>3, <1>6, <1>2 DEF Sound, Ids
  <2> QED BY <1>2, <1>3, <1>5, <1>6, <2>1 DEF Sound
<1>7. ASSUME NEW x \in _find_partner_by_phone(sync.seen, SyncNumber(c)), UpdateName(x, c)
      PROVE  IInv'
  <2>1. x \in sync.seen /\ x \in Partners /\ Kept(x) /\ UNCHANGED created
    BY <1>2, <1>3, <1>7 DEF _find_partner_by_phone, Sanitized, Bare, UpdateName, Sound
  <2> DEFINE name == sync.names[c.who]
             new  == IF name = None THEN x ELSE Synced(x, name)
  <2>2. name # None => name \in Names BY <1>2
  <2>3. new \in Partners /\ Same(new, x) /\ Kept(new)
    <3>1. Same(x, x) BY DEF Same
    <3> QED BY <2>1, <2>2, <3>1, SyncedName
  <2>4. \/ sync' = None
        \/ /\ (new = x \/ ~(x \in sync.begun \ partners))
           /\ Reads(c, (sync.seen \ {x}) \cup {new})
    BY <1>7 DEF UpdateName
  <2> HIDE DEF new
  <2>5. CASE sync' = None
    BY <1>2, <1>4, <2>1, <2>5 DEF SyncInv
  <2>6. CASE new = x /\ Reads(c, (sync.seen \ {x}) \cup {new})
    <3>1. (sync.seen \ {x}) \cup {new} = sync.seen BY <2>1, <2>6
    <3> QED BY <1>6, <2>1, <2>6, <3>1
  <2>7. CASE new # x /\ ~(x \in sync.begun \ partners) /\ Reads(c, (sync.seen \ {x}) \cup {new})
    <3> DEFINE seen == (sync.seen \ {x}) \cup {new}
    <3>1. \A z \in seen : z \in Partners /\ Kept(z) /\ \E w \in sync.seen : Same(z, w)
      BY <1>2, <1>3, <2>1, <2>3 DEF Sound, Same
    <3>2. Ids(seen, created') BY <1>3, <2>1, <2>3 DEF Sound, Ids, Same
    <3>3. One(seen)
      <4> SUFFICES ASSUME NEW z \in seen, NEW w \in seen, z # w, z.number = w.number,
                          Recognised(z), Recognised(w)
                   PROVE  z.number \in raced
        BY DEF One
      <4>1. PICK a \in sync.seen, b \in sync.seen : Same(z, a) /\ Same(w, b) BY <3>1
      <4>2. a # b BY <2>1, <3>2, <4>1 DEF Ids, Same
      <4>3. a.number = b.number /\ Recognised(a) /\ Recognised(b) /\ a.number = z.number
        BY <4>1 DEF Same, Recognised
      <4> QED BY <1>3, <4>2, <4>3 DEF Sound, One
    <3>4. Seen(sync.begun, seen)
      <4> SUFFICES ASSUME NEW z \in sync.begun PROVE \E w \in seen : Same(w, z) BY DEF Seen
      <4>1. PICK a \in sync.seen : Same(a, z) BY <1>3 DEF Seen
      <4>2. CASE a = x BY <2>3, <4>1, <4>2 DEF Same
      <4>3. CASE a # x BY <4>1, <4>3
      <4> QED BY <4>2, <4>3
    <3>5. ASSUME NEW y \in seen \ sync.begun PROVE Own(y) \/ New(y, partners \cup sync.begun)
      <4>1. CASE y \in sync.seen BY <1>3, <3>5, <4>1
      <4>2. CASE y = new
        <5>1. CASE x \in sync.begun
          <6>1. x \in partners BY <2>7, <5>1
          <6> QED BY <2>3, <4>2, <5>1, <6>1 DEF Own
        <5>2. CASE x \notin sync.begun
          <6>1. Own(x) \/ New(x, partners \cup sync.begun) BY <1>3, <2>1, <5>2
          <6> QED BY <2>3, <4>2, <6>1 DEF Own, New, Same
        <5> QED BY <5>1, <5>2
      <4> QED BY <3>5, <4>1, <4>2
    <3> HIDE DEF seen
    <3>6. Reads(c, seen) BY <2>7 DEF seen
    <3>7. created' \in Nat /\ created <= created' BY <1>2, <2>1
    <3>8. seen \subseteq Partners /\ \A z \in seen : Kept(z) BY <3>1
    <3> QED BY <1>5, <3>2, <3>3, <3>4, <3>5, <3>6, <3>7, <3>8
  <2> QED BY <2>4, <2>5, <2>6, <2>7
<1>8. ASSUME _find_partner_by_phone(sync.seen, SyncNumber(c)) = {}, NextId,
             NEW name, name = NameOf(c.who, sync.names),
             Reads(c, sync.seen \cup {Partner(SyncNumber(c), name, name)})
      PROVE  IInv'
  <2> DEFINE n == SyncNumber(c)
             z == Partner(n, name, name)
             seen == sync.seen \cup {z}
  <2>1. name \in Names BY <1>2, <1>8, NameType
  <2>2. z \in Partners /\ z.id = created + 1 /\ z.number = n /\ Kept(z)
    BY <1>2, <2>1, NewPartner
  <2>3. created' = created + 1 BY <1>8 DEF NextId
  <2> HIDE DEF z
  <2>4. \A x \in sync.seen \cup partners : x.id \in Nat /\ x.id <= created
    BY <1>3 DEF Sound, Ids, Partners
  <2>5. \A x \in sync.begun : x.id \in Nat /\ x.id <= created
    <3> SUFFICES ASSUME NEW x \in sync.begun PROVE x.id \in Nat /\ x.id <= created OBVIOUS
    <3>1. PICK a \in partners : Same(a, x) BY <1>3 DEF Seen
    <3> QED BY <2>4, <3>1 DEF Same
  <2>6. Ids(seen, created')
    <3>1. \A x \in seen : x.id <= created + 1 BY <1>2, <2>2, <2>4
    <3>2. \A x, y \in seen : x.id = y.id => x = y
      BY <1>2, <1>3, <2>2, <2>4 DEF Sound, Ids
    <3> QED BY <2>3, <3>1, <3>2 DEF Ids
  <2>7. \A x \in sync.seen : ~(x.number = n /\ Recognised(x))
    BY <1>8 DEF _find_partner_by_phone, Sanitized, Bare, Recognised
  <2>8. One(seen) BY <1>3, <2>2, <2>7 DEF Sound, One
  <2>9. Seen(sync.begun, seen) BY <1>3 DEF Seen
  <2>10. ASSUME NEW y \in seen \ sync.begun PROVE Own(y) \/ New(y, partners \cup sync.begun)
    <3>1. CASE y \in sync.seen BY <1>3, <2>10, <3>1
    <3>2. CASE y = z
      <4>1. \A x \in partners \cup sync.begun : x.id # created + 1 BY <1>2, <2>4, <2>5
      <4> QED BY <2>2, <3>2, <4>1 DEF New
    <3> QED BY <2>10, <3>1, <3>2
  <2>11. seen \subseteq Partners /\ \A x \in seen : Kept(x) BY <1>2, <1>3, <2>2 DEF Sound
  <2>12. Reads(c, seen) BY <1>8 DEF z
  <2> HIDE DEF seen
  <2>13. created' \in Nat /\ created <= created' BY <1>2, <2>3
  <2> QED BY <1>5, <2>6, <2>8, <2>9, <2>10, <2>11, <2>12, <2>13
<1> QED BY <1>6, <1>7, <1>8 DEF SyncContact

(* The page replaces the partners it holds and adds those it created: what *)
(* they have in common with others is what the page did not see.           *)
LEMMA CommitStep ==
  ASSUME IInv, SyncCommits
  PROVE  IInv'
<1> USE DEF IInv
<1>1. sync # None /\ UNCHANGED <<created, hooks, saved, handled, syncs, edits>>
  BY DEF SyncCommits
<1>2. sync \in [left : SUBSET Book, read : Nat, names : [People -> Names \cup {None}],
                begun : SUBSET Partners, seen : SUBSET Partners]
  BY <1>1 DEF TypeOK
<1>3. /\ Sound(sync.seen) /\ Seen(sync.begun, partners) /\ Seen(sync.begun, sync.seen)
      /\ \A y \in sync.seen \ sync.begun : Own(y) \/ New(y, partners \cup sync.begun)
  BY <1>1 DEF SyncInv
<1>4. /\ partners' = {x \in partners : ~Held(x)} \cup Written
      /\ Written = sync.seen \ sync.begun
      /\ raced \subseteq raced'
      /\ \A z \in Written : (\A x \in sync.begun : x.id # z.id) /\ Missed(sync.begun, z.number)
                              => z.number \in raced'
      /\ sync' = IF sync.left = {} THEN None
                 ELSE [left |-> sync.left, read |-> 0, names |-> saved,
                       begun |-> partners', seen |-> partners']
  BY <1>1 DEF SyncCommits, Written, Page
<1>5. \A x \in partners' : (x \in partners /\ ~Held(x)) \/ x \in Written
  BY <1>4
<1>6. Ids(partners, created)'
  <2>1. \A x \in partners' : x.id <= created BY <1>3, <1>4 DEF Sound, Ids
  <2>2. \A x, y \in partners' : x.id = y.id => x = y
    BY <1>3, <1>4, <1>5 DEF Sound, Ids, Held
  <2> QED BY <1>1, <2>1, <2>2 DEF Ids
<1>7. ASSUME NEW x \in partners, NEW y \in Written, ~Held(x), x.number = y.number,
             Recognised(x), Recognised(y)
      PROVE  x.number \in raced'
  <2>1. CASE \E z \in sync.begun : z.id = x.id
    <3>1. PICK z \in sync.begun : z.id = x.id BY <2>1
    <3>2. PICK a \in partners : Same(a, z) BY <1>3 DEF Seen
    <3>3. a = x BY <3>1, <3>2 DEF Same, Sound, Ids
    <3>4. PICK w \in sync.seen : Same(w, z) BY <1>3 DEF Seen
    <3>5. w.id = x.id /\ w.number = x.number /\ Recognised(w)
      BY <1>7, <3>2, <3>3, <3>4 DEF Same, Recognised
    <3>6. w # y BY <1>7, <3>5 DEF Held
    <3> QED BY <1>3, <1>4, <1>7, <3>5, <3>6 DEF Sound, One
  <2>2. CASE ~\E z \in sync.begun : z.id = x.id
    <3>1. Missed(sync.begun, y.number) BY <1>7, <2>2 DEF Missed
    <3>2. CASE \A z \in sync.begun : z.id # y.id BY <1>4, <1>7, <3>1, <3>2
    <3>3. CASE \E z \in sync.begun : z.id = y.id
      <4>1. PICK a \in partners : a.id = y.id /\ a.number = y.number /\ Recognised(a)
        <5>1. y \in sync.seen \ sync.begun BY <1>4
        <5>2. Own(y) BY <1>3, <3>3, <5>1 DEF New
        <5> QED BY <1>7, <5>2 DEF Own, Same, Recognised
      <4>2. a # x BY <1>7, <4>1 DEF Held
      <4> QED BY <1>4, <1>7, <4>1, <4>2 DEF Sound, One
    <3> QED BY <3>2, <3>3
  <2> QED BY <2>1, <2>2
<1>8. One(partners)'
  <2> SUFFICES ASSUME NEW x \in partners', NEW y \in partners', x # y, x.number = y.number,
                      Recognised(x), Recognised(y)
               PROVE  x.number \in raced'
    BY DEF One, Recognised
  <2>1. CASE x \in partners /\ y \in partners BY <1>4, <2>1 DEF Sound, One
  <2>2. CASE x \in Written /\ y \in Written BY <1>3, <1>4, <2>2 DEF Sound, One
  <2> QED BY <1>5, <1>7, <2>1, <2>2
<1>9. Sound(partners)'
  <2>1. \A x \in partners' : x \in Partners /\ Kept(x) BY <1>3, <1>4 DEF Sound
  <2> QED BY <1>6, <1>8, <2>1 DEF Sound, Kept
<1>10. \A s : Seen(s, partners) => Seen(s, partners')
  <2> SUFFICES ASSUME NEW s, Seen(s, partners), NEW v \in s
               PROVE  \E w \in partners' : Same(w, v)
    BY DEF Seen
  <2>1. PICK x \in partners : Same(x, v) BY DEF Seen
  <2>2. CASE ~Held(x) BY <1>4, <2>1, <2>2
  <2>3. CASE Held(x)
    <3>1. PICK y \in Written : y.id = x.id BY <2>3 DEF Held
    <3>2. Own(y) BY <1>3, <1>4, <3>1 DEF New
    <3>3. Same(y, x) BY <3>1, <3>2 DEF Own, Same, Sound, Ids
    <3> QED BY <1>4, <2>1, <3>1, <3>3 DEF Same
  <2> QED BY <2>2, <2>3
<1>11. SyncInv' /\ sync' \in {None} \cup
          [left : SUBSET Book, read : Nat, names : [People -> Names \cup {None}],
           begun : SUBSET Partners, seen : SUBSET Partners]
  <2>1. CASE sync.left = {}
    <3>1. sync' = None BY <1>4, <2>1
    <3> QED BY <3>1 DEF SyncInv
  <2>2. CASE sync.left # {}
    <3>1. PICK left \in SUBSET Book : left = sync.left BY <1>2
    <3>2. sync' = [left |-> left, read |-> 0, names |-> saved, begun |-> partners',
                   seen |-> partners']
      BY <1>4, <2>2, <3>1
    <3>3. saved \in [People -> Names \cup {None}] BY DEF TypeOK
    <3>4. sync'.seen = partners' /\ sync'.begun = partners' BY <3>2
    <3>5. Seen(partners', partners') BY DEF Seen, Same
    <3>6. SyncInv' BY <1>9, <3>4, <3>5 DEF SyncInv
    <3> QED BY <1>9, <3>2, <3>3, <3>6 DEF Sound
  <2> QED BY <2>1, <2>2
<1> QED BY <1>1, <1>9, <1>10, <1>11 DEF TypeOK, Sound

LEMMA NextInv == IInv /\ [Next]_vars => IInv'
<1> SUFFICES ASSUME IInv, [Next]_vars PROVE IInv' OBVIOUS
<1> USE DEF IInv
<1>1. ASSUME UNCHANGED <<partners, created, raced>> PROVE Sound(partners)'
  BY <1>1 DEF Sound, Ids, One, Kept
<1>2. ASSUME UNCHANGED <<partners, created, raced, sync>> PROVE SyncInv'
  BY <1>2 DEF SyncInv, Sound, Ids, One, Kept, Seen, Own, New
<1>3. CASE UNCHANGED vars
  BY <1>1, <1>2, <1>3 DEF vars, TypeOK, Seen
<1>4. CASE SyncBegins
  <2>1. Sound(partners)' BY <1>1, <1>4 DEF SyncBegins
  <2>2. sync' = [left |-> Book, read |-> 0, names |-> saved, begun |-> partners,
                 seen |-> partners]
        /\ UNCHANGED <<partners, saved>>
    BY <1>4 DEF SyncBegins, Page
  <2>3. Seen(partners, partners) BY DEF Seen, Same
  <2>4. sync'.seen = partners /\ sync'.begun = partners BY <2>2
  <2>5. SyncInv' BY <2>1, <2>2, <2>3, <2>4 DEF SyncInv
  <2> QED BY <1>4, <2>1, <2>2, <2>5 DEF SyncBegins, TypeOK, Sound
<1>5. ASSUME NEW who \in People, NEW by \in Addresses, HookBegins(who, by) PROVE IInv'
  <2>1. Seen(partners, partners) BY DEF Seen, Same
  <2>2. Sound(partners)' /\ SyncInv' BY <1>1, <1>2, <1>5 DEF HookBegins
  <2> QED BY <1>5, <2>1, <2>2 DEF HookBegins, TypeOK, Sound
<1>6. ASSUME NEW x \in partners, NEW name \in Names, Rename(x, name) PROVE IInv'
  <2> DEFINE y == [x EXCEPT !.name = name, !.typed = name,
                            !.agreed = name = x.waha_synced_name]
  <2>1. y \in Partners /\ Same(y, x) /\ Kept(y)
    <3>1. x \in Partners BY DEF Sound
    <3> QED BY <3>1 DEF Partners, Same, Kept
  <2>2. partners' = (partners \ {x}) \cup {y} BY <1>6 DEF Rename
  <2>3. UNCHANGED <<created, raced, hooks, sync, saved, handled, syncs>> /\ edits' = edits + 1
        /\ ~Held(x)
    BY <1>6 DEF Rename, Edits
  <2> HIDE DEF y
  <2>4. Renamed(x, y) BY <2>1, <2>2, <2>3 DEF Renamed
  <2>5. Sound(partners)' /\ (\A s : Seen(s, partners) => Seen(s, partners'))
    BY <2>4, RenamedSound
  <2>6. SyncInv'
    <3>1. sync # None => sync.seen \subseteq Partners BY DEF TypeOK
    <3>2. ASSUME NEW z \in Written
          PROVE  /\ Own(z) => Own(z)'
                 /\ New(z, partners) /\ z.id <= created => New(z, partners')
      <4>1. z.id # x.id BY <2>3 DEF Held
      <4> QED BY <2>1, <2>2, <2>3, <4>1 DEF Own, New, Same
    <3>3. created \in Nat BY DEF TypeOK
    <3> QED BY <2>3, <2>5, <3>1, <3>2, <3>3, SyncStays
  <2> QED BY <2>3, <2>5, <2>6 DEF TypeOK, Sound
<1>7. ASSUME NEW who \in People, NEW name \in Names, PhoneRenames(who, name) PROVE IInv'
  <2>1. Sound(partners)' /\ SyncInv' BY <1>1, <1>2, <1>7 DEF PhoneRenames
  <2> QED BY <1>7, <2>1 DEF PhoneRenames, Edits, TypeOK, Seen
<1> QED BY <1>3, <1>4, <1>5, <1>6, <1>7, HookStep, ContactStep, CommitStep DEF Next

LEMMA Invariant == Spec => []IInv
BY InitInv, NextInv, PTL DEF Spec

-------------------------------------------------------------------------------
(* The variables keep their types in every reachable state.                *)
THEOREM TypeCorrect == Spec => []TypeOK
<1>1. IInv => TypeOK BY DEF IInv
<1> QED BY <1>1, Invariant, PTL

(* Webhooks and syncs make two partners of one number only when neither    *)
(* saw the other's, or when no search finds the first: whatever the size   *)
(* of the pages, and whatever a page that fails takes back.                *)
THEOREM OneEach == Spec => []OnePartner
<1>1. IInv => OnePartner BY DEF IInv, Sound, One, OnePartner
<1> QED BY <1>1, Invariant, PTL

(* No sync overwrites a name that was typed and that the phone never had.  *)
THEOREM TypedNamesKept == Spec => []NamesKept
<1>1. IInv => NamesKept BY DEF IInv, Sound, Kept, NamesKept
<1> QED BY <1>1, Invariant, PTL
===============================================================================
