--------------------------- MODULE ChatWindowProofs ---------------------------
(***************************************************************************)
(* Proofs about ChatWindow, for every set of chats, size of pages and      *)
(* number of messages, sends, opened chats and failing calls.              *)
(***************************************************************************)
EXTENDS ChatWindow, SequenceTheorems, WellFoundedInduction, TLAPS

USE DEF whatsapp, thread, counters

Requests == [chat : Chats, offset : Nat, read : BOOLEAN, batch : Seq(Entries)]
Sends == [id : Nat, chat : Chats, m : Msgs \cup {None},
          answer : {"none", "send", "alias", "nameless"}]
Payloads == [kind : {"new", "ack"}, m : Msgs, status : 1..4]
Sources == {"page", "bus", "send", "alias", "nameless"}

-------------------------------------------------------------------------------
(* Sequences.                                                              *)

LEMMA FunctionSeq ==
  ASSUME NEW S, NEW n \in Nat, NEW f \in [1..n -> S]
  PROVE  f \in Seq(S) /\ Len(f) = n
<1>1. f \in Seq(S) BY SeqDef
<1>2. Len(f) \in Nat /\ DOMAIN f = 1..Len(f) BY <1>1, LenProperties
<1> QED BY <1>1, <1>2

LEMMA Appending ==
  ASSUME NEW S, NEW s \in Seq(S), NEW e \in S
  PROVE  /\ Append(s, e) \in Seq(S) /\ Len(Append(s, e)) = Len(s) + 1
         /\ Append(s, e)[Len(s) + 1] = e
         /\ \A i \in 1..Len(s) : Append(s, e)[i] = s[i]
BY AppendProperties

LEMMA Joining ==
  ASSUME NEW S, NEW a \in Seq(S), NEW b \in Seq(S)
  PROVE  /\ a \o b \in Seq(S) /\ Len(a \o b) = Len(a) + Len(b)
         /\ \A i \in 1..Len(a) : (a \o b)[i] = a[i]
         /\ \A i \in 1..Len(b) : (a \o b)[Len(a) + i] = b[i]
         /\ \A i \in 1..Len(a \o b) : i \in 1..Len(a) \/ i - Len(a) \in 1..Len(b)
<1>1. Len(a) \in Nat /\ Len(b) \in Nat BY LenProperties
<1> QED BY <1>1, ConcatProperties

LEMMA Popping ==
  ASSUME NEW S, NEW s \in Seq(S), s # <<>>
  PROVE  /\ Head(s) \in S /\ Head(s) = s[1]
         /\ Tail(s) \in Seq(S) /\ Len(s) \in Nat /\ Len(Tail(s)) = Len(s) - 1
         /\ \A i \in 1..Len(Tail(s)) : Tail(s)[i] = s[i + 1]
BY HeadTailProperties, EmptySeq, LenProperties

(* A set of numbers has a least one: the less-than relation is well-founded. *)
LEMMA LeastNumber ==
  ASSUME NEW T \in SUBSET Nat, T # {}
  PROVE  \E x \in T : \A y \in T : x <= y
<1> DEFINE R == OpToRel(<, Nat)
<1>1. IsWellFoundedOn(R, Nat) BY NatLessThanWellFounded
<1>2. \A x, y \in Nat : y < x => <<y, x>> \in R BY DEF OpToRel
<1>3. \E x \in T : \A y \in T : ~(<<y, x>> \in R)
  <2> HIDE DEF R
  <2> QED BY <1>1, WFMin
<1>4. PICK Q : Q = R OBVIOUS
<1>5. PICK x \in T : \A y \in T : ~(<<y, x>> \in Q) BY <1>3, <1>4
<1>6. \A y \in T : ~(y < x) BY <1>2, <1>4, <1>5
<1> QED BY <1>6

-------------------------------------------------------------------------------
(* Types.                                                                  *)

LEMMA Constants ==
  /\ None \notin Chats /\ MaxLen \in Nat /\ Limit \in Nat /\ Limit > 0
  /\ Old \in [Chats -> 0..MaxLen] /\ MaxNew \in Nat
<1>1. MaxOld \in Nat /\ MaxNew \in Nat /\ Old \in [Chats -> 0..MaxOld] /\ MaxLen = MaxOld + MaxNew
  BY ChatWindowAssumption DEF MaxLen
<1>2. MaxLen \in Nat /\ 0..MaxOld \subseteq 0..MaxLen BY <1>1
<1> QED BY <1>1, <1>2, ChatWindowAssumption

LEMMA Entered ==
  ASSUME NEW m \in Msgs, NEW s \in 0..4, NEW from \in Sources
  PROVE  /\ Entry(m, s, from) \in Entries
         /\ Entry(m, s, from).m = m /\ Entry(m, s, from).from = from
         /\ Entry(m, s, from).status = s
BY DEF Entry, Entries, Sources

(* What is on screen of a message, as the bus finds it. *)
Compared(m) == \E i \in 1..Len(shown) : SameId(shown[i], m)
Hashed(m) == \E i \in 1..Len(shown) : SameHash(shown[i], m)

LEMMA Found ==
  ASSUME NEW m
  PROVE  (Compared(m) => Hashed(m)) /\ (Hashed(m) => Shows(m))
BY DEF Compared, Hashed, Shows, SameId, SameHash

(* How a step changes what is on screen. *)
Relabelled ==
    /\ Len(shown') = Len(shown)
    /\ \A i \in 1..Len(shown) : shown'[i].m = shown[i].m /\ shown'[i].from = shown[i].from
Bubble(e) ==
    /\ shown' = Append(shown, e) /\ e \in Entries
    /\ \/ e.from \notin {"page", "bus"}
       \/ e.from = "bus" /\ ~Compared(e.m) /\ ChatOf(e.m) = active
Screen ==
    /\ shown' \in Seq(Entries)
    /\ Relabelled \/ \E e : Bubble(e)

LEMMA Unchanged ==
  ASSUME TypeOK, UNCHANGED shown
  PROVE  Screen
BY DEF TypeOK, Screen, Relabelled

LEMMA InitType == Init => TypeOK
<1> SUFFICES ASSUME Init PROVE TypeOK OBVIOUS
<1>1. <<>> \in Seq([kind : {"new", "ack"}, m : Msgs, status : 1..4]) /\ <<>> \in Seq(Entries)
  BY EmptySeq
<1>2. len \in [Chats -> 0..MaxLen] BY Constants DEF Init
<1>4. /\ real \in [Msgs -> 0..4] /\ status \in [Msgs -> 0..4] /\ hooks \in [Msgs -> 0..2]
  BY DEF Init
<1>5. /\ acks \subseteq Msgs \X (1..4) /\ astray \subseteq Msgs /\ silent \subseteq Msgs
      /\ bus \in Seq([kind : {"new", "ack"}, m : Msgs, status : 1..4]) /\ shown \in Seq(Entries)
      /\ active \in Chats \cup {None} /\ offset \in Nat /\ hasMore \in BOOLEAN
      /\ request = None /\ refused \in BOOLEAN
      /\ sends \subseteq [id : Nat, chat : Chats, m : Msgs \cup {None},
                          answer : {"none", "send", "alias", "nameless"}]
  BY <1>1 DEF Init
<1>6. {added, opens, faults} \subseteq Nat BY DEF Init
<1> QED BY <1>2, <1>4, <1>5, <1>6 DEF TypeOK

(* A send that is answered has its message. *)
Answered == \A s \in sends : s.answer # "none" => s.m # None

LEMMA LoadType ==
  ASSUME TypeOK, NEW c \in Chats, NEW off \in Nat, NEW more, Load(c, off, more)
  PROVE  request' = None \/ request' \in Requests
<1>1. <<>> \in Seq(Entries) BY EmptySeq
<1> QED BY <1>1 DEF Load, TypeOK, Requests

LEMMA PageType ==
  ASSUME TypeOK, ReadPage
  PROVE  /\ request' \in Requests /\ request'.read
         /\ request'.chat = request.chat /\ request'.offset = request.offset
         /\ LET k == len[request.chat] - request.offset
                n == Len(request'.batch)
            IN  /\ request'.batch # <<>> => n > 0 /\ n <= k /\ n <= Limit
                /\ n = Limit \/ n = 0 \/ n = k
                /\ \A i \in 1..n : /\ request'.batch[i].m = <<request.chat, k - n + i>>
                                   /\ request'.batch[i].status =
                                        PageStatus(real[<<request.chat, k - n + i>>])
                                   /\ request'.batch[i].from = "page"
<1> DEFINE c == request.chat
           last == len[c] - request.offset
           size == IF last <= 0 THEN 0 ELSE Least(last, Limit)
           f == [i \in 1..size |-> LET m == <<c, last - size + i>> IN Entry(m, PageStatus(real[m]), "page")]
<1>1. request \in Requests /\ c \in Chats /\ request.offset \in Nat
  BY DEF TypeOK, ReadPage, Requests
<1>2. len[c] \in 0..MaxLen /\ last \in Int /\ last <= len[c]
  BY <1>1, Constants DEF TypeOK
<1>3. size \in Nat /\ size <= Limit /\ (size > 0 => size <= last)
      /\ (size = Limit \/ size = 0 \/ size = last)
  BY <1>2, Constants DEF Least
<1>4. request' = [request EXCEPT !.read = TRUE, !.batch = f]
  BY DEF ReadPage
<1> HIDE DEF size
<1>5. ASSUME NEW i \in 1..size
      PROVE  /\ f[i] \in Entries
             /\ f[i].m = <<c, last - size + i>> /\ f[i].from = "page"
             /\ f[i].status = PageStatus(real[<<c, last - size + i>>])
  <2>1. last - size + i \in 1..MaxLen BY <1>2, <1>3, Constants
  <2>2. <<c, last - size + i>> \in Msgs BY <1>1, <2>1 DEF Msgs
  <2>3. PageStatus(real[<<c, last - size + i>>]) \in 0..4 BY <2>2 DEF TypeOK, PageStatus
  <2> QED BY <2>2, <2>3, Entered DEF Sources
<1>6. f \in [1..size -> Entries] BY <1>5
<1> HIDE DEF f
<1>7. f \in Seq(Entries) /\ Len(f) = size BY <1>3, <1>6, FunctionSeq
<1>8. /\ request' \in Requests /\ request'.read /\ request'.batch = f
      /\ request'.chat = c /\ request'.offset = request.offset
  BY <1>1, <1>4, <1>7 DEF Requests
<1>9. f # <<>> => size > 0 BY <1>3, <1>7, EmptySeq
<1> QED BY <1>2, <1>3, <1>5, <1>7, <1>8, <1>9, Constants

LEMMA WindowType ==
  ASSUME TypeOK, Answered,
         \/ \E c \in Chats : OpenChat(c)
         \/ Scroll \/ ReadPage \/ ReadFails \/ Loaded \/ LoadFails
  PROVE  TypeOK' /\ Answered'
<1> USE DEF TypeOK
<1>1. ASSUME NEW c \in Chats, OpenChat(c) PROVE TypeOK' /\ Answered'
  <2>1. request' = None \/ request' \in Requests BY <1>1, LoadType DEF OpenChat
  <2>2. <<>> \in Seq(Entries) BY EmptySeq
  <2>3. (request # None) \in BOOLEAN /\ opens + 1 \in Nat OBVIOUS
  <2> QED BY <1>1, <2>1, <2>2, <2>3 DEF OpenChat, Requests, Answered
<1>2. CASE Scroll
  <2>1. request' = None \/ request' \in Requests BY <1>2, LoadType DEF Scroll
  <2> QED BY <1>2, <2>1 DEF Scroll, Requests, Answered
<1>3. CASE ReadPage
  BY <1>3, PageType DEF ReadPage, Requests, Answered
<1>4. CASE ReadFails
  <2>1. request' \in Requests BY <1>4 DEF ReadFails, Requests
  <2>2. faults' \in Nat /\ UNCHANGED <<added, opens>> BY <1>4 DEF ReadFails, Fault
  <2>3. {added, opens, faults}' \subseteq Nat BY <2>2
  <2> QED BY <1>4, <2>1, <2>3 DEF ReadFails, Requests, Answered
<1>5. CASE Loaded
  <2>1. request.batch \o shown \in Seq(Entries)
    BY <1>5, Joining DEF Loaded
  <2>2. offset + Limit \in Nat /\ (Len(request.batch) = Limit) \in BOOLEAN BY Constants
  <2> QED BY <1>5, <2>1, <2>2 DEF Loaded, Answered
<1>6. CASE LoadFails
  <2>1. faults' \in Nat /\ UNCHANGED <<added, opens>> BY <1>6 DEF LoadFails, Fault
  <2>2. {added, opens, faults}' \subseteq Nat BY <2>1
  <2> QED BY <1>6, <2>2 DEF LoadFails, Answered
<1> QED BY <1>1, <1>2, <1>3, <1>4, <1>5, <1>6

(* A message that WhatsApp has. *)
Known(m) == m[2] <= len[ChatOf(m)]

(* What is on screen, under way or stored is about messages WhatsApp has.  *)
Existing ==
    /\ \A m \in Msgs : status[m] # 0 \/ hooks[m] > 0 \/ real[m] # 0 => Known(m)
    /\ \A p \in acks : Known(p[1])
    /\ \A i \in 1..Len(bus) : Known(bus[i].m)
    /\ \A i \in 1..Len(shown) : Known(shown[i].m)
    /\ request # None => \A i \in 1..Len(request.batch) : Known(request.batch[i].m)
    /\ \A s \in sends : s.m # None => Known(s.m) /\ real[s.m] >= 1

-------------------------------------------------------------------------------
(* What happens around the window while it stays as it is: sends, messages *)
(* and ticks.                                                              *)
MessageStep ==
    \/ Send \/ Deliver
    \/ \E c \in Chats : Arrive(c)
    \/ \E s \in sends : Accept(s) \/ Store(s) \/ Sent(s) \/ SendFails(s)
    \/ \E m \in Msgs : \/ Progress(m) \/ Hook(m) \/ HookUnseen(m) \/ Import(m)
                       \/ \E k \in 1..4 : AckHook(m, k)

(* What brings a message to the window: a webhook that will store it, a    *)
(* push, the answer of the send that stored it - or nothing ever will.     *)
Coming(m) ==
    \/ hooks[m] > 0 /\ status[m] = 0
    \/ \E i \in 1..Len(bus) : bus[i].m = m /\ bus[i].kind = "new"
    \/ \E s \in sends : s.m = m /\ s.answer = "send"
    \/ m \in silent
Covered(n) == Shows(<<active, n>>) \/ Coming(<<active, n>>)

LEMMA ComesOrNever == \A m : Coming(m) => ToCome(m) \/ m \in silent
BY DEF Coming, ToCome

(* What the bus brings keeps every bubble, and shows the message pushed.   *)
LEMMA DeliverEffect ==
  ASSUME TypeOK, Deliver
  PROVE  /\ Screen /\ astray' \subseteq Msgs
         /\ bus' \in Seq([kind : {"new", "ack"}, m : Msgs, status : 1..4])
         /\ \A m : Coming(m) => Coming(m)' \/ (ChatOf(m) = active => Shows(m)')
<1> DEFINE P == [kind : {"new", "ack"}, m : Msgs, status : 1..4]
           h == Head(bus)
<1>1. bus \in Seq(P) /\ bus # <<>> /\ bus' = Tail(bus) BY DEF TypeOK, Deliver
<1>2. h \in P /\ h = bus[1] /\ Tail(bus) \in Seq(P) /\ Len(Tail(bus)) = Len(bus) - 1
      /\ Len(bus) \in Nat /\ \A i \in 1..Len(Tail(bus)) : Tail(bus)[i] = bus[i + 1]
  BY <1>1, Popping
<1>3. h.m \in Msgs /\ h.status \in 1..4 /\ h.kind \in {"new", "ack"} BY <1>2
<1>4. shown \in Seq(Entries) /\ Len(shown) \in Nat
      /\ \A i \in 1..Len(shown) : shown[i] \in Entries
  BY LenProperties, ElementOfSeq DEF TypeOK
<1>5. ASSUME h.kind = "new" /\ ChatOf(h.m) = active /\ ~Compared(h.m)
      PROVE  Screen /\ astray' \subseteq Msgs
  <2> DEFINE e == Entry(h.m, h.status, "bus")
  <2>1. shown' = Append(shown, e) /\ UNCHANGED astray
    BY <1>5 DEF Deliver, OnBusNewMessage, Compared
  <2>2. e \in Entries /\ e.m = h.m /\ e.from = "bus" BY <1>3, Entered DEF Sources
  <2> HIDE DEF e
  <2>3. shown' \in Seq(Entries) /\ Len(shown') = Len(shown) + 1 /\ shown'[Len(shown) + 1] = e
    BY <1>4, <2>1, <2>2, Appending
  <2>4. Screen BY <1>5, <2>1, <2>2, <2>3 DEF Screen, Bubble
  <2> QED BY <2>1, <2>4 DEF TypeOK
<1>6. ASSUME h.kind = "new" /\ ~(ChatOf(h.m) = active /\ ~Compared(h.m))
      PROVE  Screen /\ astray' \subseteq Msgs
  <2>1. UNCHANGED <<shown, astray>> BY <1>6 DEF Deliver, OnBusNewMessage, Compared
  <2>2. Screen BY <2>1, Unchanged
  <2> QED BY <2>1, <2>2 DEF TypeOK
<1>7. ASSUME h.kind = "ack"
      PROVE  Screen /\ astray' \subseteq Msgs
  <2> DEFINE f == [i \in 1..Len(shown) |->
                     IF SameHash(shown[i], h.m) /\ \A k \in 1..(i - 1) : ~SameHash(shown[k], h.m)
                     THEN [shown[i] EXCEPT !.status = h.status] ELSE shown[i]]
  <2>1. shown' = f /\ astray' = IF Hashed(h.m) THEN astray ELSE astray \cup {h.m}
    BY <1>7 DEF Deliver, OnBusAck, Hashed
  <2>2. ASSUME NEW i \in 1..Len(shown)
        PROVE  f[i] \in Entries /\ f[i].m = shown[i].m /\ f[i].from = shown[i].from
    <3>1. f[i] = shown[i] \/ f[i] = [shown[i] EXCEPT !.status = h.status] OBVIOUS
    <3>2. shown[i] \in Entries BY <1>4
    <3> HIDE DEF f
    <3> QED BY <1>3, <3>1, <3>2 DEF Entries
  <2>3. f \in [1..Len(shown) -> Entries] BY <2>2
  <2> HIDE DEF f
  <2>4. f \in Seq(Entries) /\ Len(f) = Len(shown) BY <1>4, <2>3, FunctionSeq
  <2>5. Screen BY <2>1, <2>2, <2>4 DEF Screen, Relabelled
  <2> QED BY <1>3, <2>1, <2>5 DEF TypeOK
<1> HIDE DEF h
<1>8. ASSUME NEW m, Coming(m)
      PROVE  Coming(m)' \/ (h.kind = "new" /\ h.m = m)
  <2>1. UNCHANGED <<hooks, status, sends, silent>> BY DEF Deliver
  <2>2. ASSUME NEW i \in 1..Len(bus), bus[i].m = m, bus[i].kind = "new", i # 1
        PROVE  Coming(m)'
    <3>1. i - 1 \in 1..Len(Tail(bus)) BY <1>2, <2>2
    <3>2. Tail(bus)[i - 1] = bus[i]
      <4>1. Tail(bus)[i - 1] = bus[(i - 1) + 1] BY <1>2, <3>1
      <4>2. i \in Int /\ (i - 1) + 1 = i BY <1>2
      <4> QED BY <4>1, <4>2
    <3>3. i - 1 \in 1..Len(bus') /\ bus'[i - 1].m = m /\ bus'[i - 1].kind = "new"
      BY <1>1, <2>2, <3>1, <3>2
    <3> QED BY <3>3 DEF Coming
  <2>3. CASE \E i \in 1..Len(bus) : bus[i].m = m /\ bus[i].kind = "new"
    <3>1. PICK i \in 1..Len(bus) : bus[i].m = m /\ bus[i].kind = "new" BY <2>3
    <3>2. CASE i = 1 BY <1>2, <3>1, <3>2
    <3>3. CASE i # 1 BY <2>2, <3>1, <3>3
    <3> QED BY <3>2, <3>3
  <2>4. CASE ~\E i \in 1..Len(bus) : bus[i].m = m /\ bus[i].kind = "new"
    BY <1>8, <2>1, <2>4 DEF Coming
  <2> QED BY <2>3, <2>4
<1>9. ASSUME NEW m, m = h.m, h.kind = "new", ChatOf(m) = active PROVE Shows(m)'
  <2>1. CASE Compared(m)
    <3>1. UNCHANGED shown BY <1>9, <2>1 DEF Deliver, OnBusNewMessage, h, Compared
    <3>2. Shows(m) BY <2>1, Found
    <3> QED BY <3>1, <3>2 DEF Shows
  <2>2. CASE ~Compared(m)
    <3> DEFINE e == Entry(m, h.status, "bus")
    <3>1. shown' = Append(shown, e)
      BY <1>9, <2>2 DEF Deliver, OnBusNewMessage, h, Compared
    <3>2. e \in Entries /\ e.m = m BY <1>3, <1>9, Entered DEF Sources
    <3> HIDE DEF e
    <3>3. Len(shown') = Len(shown) + 1 /\ shown'[Len(shown) + 1] = e
      BY <1>4, <3>1, <3>2, Appending
    <3>4. Len(shown) + 1 \in 1..Len(shown') BY <1>4, <3>3
    <3> QED BY <3>2, <3>3, <3>4 DEF Shows
  <2> QED BY <2>1, <2>2
<1>10. Screen /\ astray' \subseteq Msgs BY <1>3, <1>5, <1>6, <1>7
<1> QED BY <1>1, <1>2, <1>8, <1>9, <1>10

(* The first occurrence of a payload that is appended.                     *)
LEMMA Pushed ==
  ASSUME TypeOK, NEW e \in Payloads, bus' = Append(bus, e), UNCHANGED <<sends, silent>>
  PROVE  /\ bus' \in Seq(Payloads)
         /\ \A m \in Msgs : e.kind = "new" /\ e.m = m => Coming(m)'
         /\ \A m \in Msgs : Coming(m) /\ (hooks[m] > 0 /\ status[m] = 0
                                            => hooks'[m] > 0 /\ status'[m] = 0) => Coming(m)'
<1>1. bus \in Seq(Payloads) /\ Len(bus) \in Nat BY LenProperties DEF TypeOK, Payloads
<1>2. bus' \in Seq(Payloads) /\ Len(bus') = Len(bus) + 1 /\ bus'[Len(bus) + 1] = e
      /\ \A i \in 1..Len(bus) : bus'[i] = bus[i]
  BY <1>1, Appending
<1>3. Len(bus) + 1 \in 1..Len(bus') /\ \A i \in 1..Len(bus) : i \in 1..Len(bus')
  BY <1>1, <1>2
<1>4. ASSUME NEW m \in Msgs, e.kind = "new", e.m = m PROVE Coming(m)'
  BY <1>2, <1>3, <1>4 DEF Coming
<1>5. ASSUME NEW m \in Msgs, Coming(m),
             hooks[m] > 0 /\ status[m] = 0 => hooks'[m] > 0 /\ status'[m] = 0
      PROVE  Coming(m)'
  <2>1. CASE \E i \in 1..Len(bus) : bus[i].m = m /\ bus[i].kind = "new"
    <3>1. PICK i \in 1..Len(bus) : bus[i].m = m /\ bus[i].kind = "new" BY <2>1
    <3> QED BY <1>2, <1>3, <3>1 DEF Coming
  <2>2. CASE ~\E i \in 1..Len(bus) : bus[i].m = m /\ bus[i].kind = "new"
    BY <1>5, <2>2 DEF Coming
  <2> QED BY <2>1, <2>2
<1> QED BY <1>2, <1>4, <1>5

Steady ==
    /\ UNCHANGED <<active, offset, hasMore, request, refused>>
    /\ \A c \in Chats : len'[c] >= len[c]
    /\ \A m \in Msgs : Coming(m) => Coming(m)' \/ (ChatOf(m) = active => Shows(m)')
    /\ \A c \in Chats : \A n \in (len[c] + 1)..len'[c] : Coming(<<c, n>>)'

LEMMA Calm ==
  ASSUME TypeOK, UNCHANGED <<active, offset, hasMore, request, refused, len>>,
         \A m \in Msgs : Coming(m) => Coming(m)' \/ (ChatOf(m) = active => Shows(m)')
  PROVE  Steady
<1>1. \A c \in Chats : len[c] \in Nat BY Constants DEF TypeOK
<1>2. \A c \in Chats : len'[c] >= len[c] /\ (len[c] + 1)..len'[c] = {} BY <1>1
<1> QED BY <1>2 DEF Steady

(* A chat grows by a message of which a webhook is to come.                *)
LEMMA Grows ==
  ASSUME TypeOK, Existing, NEW c \in Chats, len[c] < MaxLen, NEW k \in {1, 2},
         len' = [len EXCEPT ![c] = @ + 1],
         hooks' = [hooks EXCEPT ![<<c, len[c] + 1>>] = k],
         UNCHANGED <<active, offset, hasMore, request, refused, bus, status, silent>>,
         \A s \in sends : s.answer = "send" => s \in sends'
  PROVE  /\ Steady /\ <<c, len[c] + 1>> \in Msgs
         /\ len' \in [Chats -> 0..MaxLen] /\ hooks' \in [Msgs -> 0..2]
<1>1. \A d \in Chats : len[d] \in 0..MaxLen BY DEF TypeOK
<1>2. len[c] + 1 \in 1..MaxLen BY <1>1, Constants
<1>3. <<c, len[c] + 1>> \in Msgs BY <1>2 DEF Msgs
<1>4. len' \in [Chats -> 0..MaxLen] /\ hooks' \in [Msgs -> 0..2]
  <2>1. len[c] + 1 \in 0..MaxLen BY <1>2, Constants
  <2>2. len' \in [Chats -> 0..MaxLen] BY <2>1 DEF TypeOK
  <2>3. k \in 0..2 OBVIOUS
  <2>4. hooks' \in [Msgs -> 0..2] BY <2>3 DEF TypeOK
  <2> QED BY <2>2, <2>4
<1>5. \A d \in Chats : len'[d] = IF d = c THEN len[d] + 1 ELSE len[d]
  BY DEF TypeOK
<1>6. \A m \in Msgs : hooks'[m] = IF m = <<c, len[c] + 1>> THEN k ELSE hooks[m]
  BY DEF TypeOK
<1>7. \A m \in Msgs : Coming(m) => Coming(m)' BY <1>6 DEF Coming
<1>8. status[<<c, len[c] + 1>>] = 0
  <2>1. PICK n : n = <<c, len[c] + 1>> OBVIOUS
  <2>2. n \in Msgs /\ ~(n[2] <= len[n[1]]) BY <1>1, <1>2, <1>3, <2>1, Constants
  <2> QED BY <2>1, <2>2 DEF Existing, Known, ChatOf
<1>9. \A d \in Chats : len'[d] >= len[d] BY <1>1, <1>5
<1>10. ASSUME NEW d \in Chats, NEW n \in (len[d] + 1)..len'[d] PROVE d = c /\ n = len[c] + 1
  BY <1>1, <1>5
<1>11. ASSUME NEW d \in Chats, NEW n \in (len[d] + 1)..len'[d] PROVE Coming(<<d, n>>)'
  <2>1. d = c /\ n = len[c] + 1 BY <1>10
  <2>2. hooks'[<<d, n>>] = k /\ status'[<<d, n>>] = 0 BY <1>3, <1>6, <1>8, <2>1
  <2> QED BY <2>2 DEF Coming
<1> QED BY <1>3, <1>4, <1>7, <1>9, <1>11 DEF Steady

LEMMA MessageEffect ==
  ASSUME TypeOK, Answered, Existing, MessageStep
  PROVE  TypeOK' /\ Answered' /\ Screen /\ Steady
<1> USE DEF TypeOK, Answered
<1>1. CASE Send
  <2>1. active \in Chats /\ added + 1 \in Nat BY <1>1 DEF Send
  <2>2. sends' \subseteq Sends /\ Answered' /\ sends \subseteq sends'
    <3> DEFINE e == [id |-> added, chat |-> active, m |-> None, answer |-> "none"]
    <3>1. e \in Sends /\ e.answer = "none" BY <2>1 DEF Sends
    <3>2. sends' = sends \cup {e} BY <1>1 DEF Send
    <3> HIDE DEF e
    <3> QED BY <3>1, <3>2 DEF Sends
  <2>3. \A m \in Msgs : Coming(m) => Coming(m)' BY <1>1, <2>2 DEF Send, Coming
  <2>4. Screen /\ Steady BY <1>1, <2>3, Unchanged, Calm DEF Send
  <2> QED BY <1>1, <2>1, <2>2, <2>4 DEF Send, Sends
<1>2. CASE Deliver
  <2>1. /\ Screen /\ astray' \subseteq Msgs
        /\ bus' \in Seq([kind : {"new", "ack"}, m : Msgs, status : 1..4])
        /\ \A m : Coming(m) => Coming(m)' \/ (ChatOf(m) = active => Shows(m)')
    BY <1>2, DeliverEffect
  <2>2. shown' \in Seq(Entries) BY <2>1 DEF Screen
  <2>3. UNCHANGED <<len, real, acks, hooks, status, active, offset, hasMore, request, sends,
                    refused, silent, added, opens, faults>>
    BY <1>2 DEF Deliver
  <2>4. Steady BY <2>1, <2>3, Calm
  <2> QED BY <2>1, <2>2, <2>3, <2>4
<1>3. ASSUME NEW c \in Chats, Arrive(c) PROVE TypeOK' /\ Answered' /\ Screen /\ Steady
  <2>1. Steady /\ len' \in [Chats -> 0..MaxLen] /\ hooks' \in [Msgs -> 0..2]
    BY <1>3, Grows DEF Arrive
  <2>2. Screen BY <1>3, Unchanged DEF Arrive
  <2>3. added' \in Nat BY <1>3 DEF Arrive
  <2> QED BY <1>3, <2>1, <2>2, <2>3 DEF Arrive
<1>4. ASSUME NEW s \in sends, Accept(s) PROVE TypeOK' /\ Answered' /\ Screen /\ Steady
  <2> DEFINE m == <<s.chat, len[s.chat] + 1>>
  <2>1. s \in Sends /\ s.chat \in Chats /\ s.m = None /\ s.answer = "none"
    BY <1>4 DEF Accept, Sends
  <2>2. /\ real' = [real EXCEPT ![m] = 1] /\ acks' = acks \cup {<<m, 1>>}
        /\ sends' = (sends \ {s}) \cup {[s EXCEPT !.m = m]}
    BY <1>4 DEF Accept
  <2>3. \A t \in sends : t.answer = "send" => t \in sends' BY <2>1, <2>2
  <2>4. Steady /\ m \in Msgs /\ len' \in [Chats -> 0..MaxLen] /\ hooks' \in [Msgs -> 0..2]
    <3>1. 1 \in {1, 2} OBVIOUS
    <3> QED BY <1>4, <2>1, <2>3, <3>1, Grows DEF Accept
  <2> HIDE DEF m
  <2>5. real' \in [Msgs -> 0..4] /\ acks' \subseteq Msgs \X (1..4) BY <2>2, <2>4
  <2>6. sends' \subseteq Sends BY <2>1, <2>2, <2>4 DEF Sends
  <2>7. Answered' BY <2>1, <2>2 DEF Sends
  <2>8. Screen BY <1>4, Unchanged DEF Accept
  <2> QED BY <1>4, <2>4, <2>5, <2>6, <2>7, <2>8 DEF Accept, Sends
<1>5. ASSUME NEW s \in sends, Store(s) PROVE TypeOK' /\ Answered' /\ Screen /\ Steady
  <2>1. s \in Sends /\ s.m \in Msgs /\ s.answer = "none" BY <1>5 DEF Store, Sends
  <2>2. PICK own \in BOOLEAN : own = (s.chat \notin Aliased /\ status[s.m] = 0) OBVIOUS
  <2>3. PICK a \in {"send", "alias", "nameless"} :
          a = IF own THEN "send" ELSE IF s.chat \in Aliased THEN "alias" ELSE "nameless"
    OBVIOUS
  <2>4. PICK t : t = [s EXCEPT !.answer = a] OBVIOUS
  <2>5. /\ status' = [status EXCEPT ![s.m] = IF own THEN 1 ELSE @]
        /\ sends' = (sends \ {s}) \cup {t}
    BY <1>5, <2>2, <2>3, <2>4 DEF Store
  <2>6. t \in Sends /\ t.m = s.m /\ t.answer = a BY <2>1, <2>3, <2>4 DEF Sends
  <2>7. status' \in [Msgs -> 0..4] BY <2>1, <2>5
  <2>8. sends' \subseteq Sends BY <2>5, <2>6 DEF Sends
  <2>9. Answered' BY <1>5, <2>5, <2>6 DEF Store
  <2>10. ASSUME NEW m \in Msgs, Coming(m) PROVE Coming(m)'
    <3>1. UNCHANGED <<hooks, bus, silent>> BY <1>5 DEF Store
    <3>2. \A u \in sends : u.answer = "send" => u \in sends' BY <2>1, <2>5
    <3>3. CASE own /\ m = s.m
      <4>1. t \in sends' /\ t.m = m /\ t.answer = "send" BY <2>3, <2>5, <2>6, <3>3
      <4> QED BY <4>1 DEF Coming
    <3>4. CASE ~(own /\ m = s.m)
      <4>1. status'[m] = status[m] BY <2>1, <2>5, <3>4
      <4> QED BY <2>10, <3>1, <3>2, <4>1 DEF Coming
    <3> QED BY <3>3, <3>4
  <2>11. Screen /\ Steady BY <1>5, <2>10, Unchanged, Calm DEF Store
  <2> QED BY <1>5, <2>7, <2>8, <2>9, <2>11 DEF Store, Sends
<1>6. ASSUME NEW s \in sends, Sent(s) PROVE TypeOK' /\ Answered' /\ Screen /\ Steady
  <2> DEFINE e == Entry(s.m, 1, s.answer)
  <2>1. s \in Sends /\ s.m \in Msgs /\ s.answer \in {"send", "alias", "nameless"}
    BY <1>6 DEF Sent, Sends
  <2>2. e \in Entries /\ e.from \notin {"page", "bus"} /\ e.m = s.m BY <2>1, Entered DEF Sources
  <2>3. shown' = Append(shown, e) BY <1>6 DEF Sent
  <2>4. astray' \subseteq Msgs /\ sends' = sends \ {s} BY <1>6, <2>1 DEF Sent
  <2> HIDE DEF e
  <2>5. /\ shown' \in Seq(Entries) /\ Len(shown') = Len(shown) + 1 /\ Len(shown) \in Nat
        /\ shown'[Len(shown) + 1] = e
    BY <2>2, <2>3, Appending, LenProperties
  <2>6. Screen BY <2>2, <2>3, <2>5 DEF Screen, Bubble
  <2>7. ASSUME NEW m \in Msgs, Coming(m) PROVE Coming(m)' \/ Shows(m)'
    <3>1. UNCHANGED <<hooks, status, bus, silent>> BY <1>6 DEF Sent
    <3>2. CASE m = s.m
      <4>1. Len(shown) + 1 \in 1..Len(shown') BY <2>5
      <4> QED BY <2>2, <2>5, <3>2, <4>1 DEF Shows
    <3>3. CASE m # s.m BY <2>4, <2>7, <3>1, <3>3 DEF Coming
    <3> QED BY <3>2, <3>3
  <2>8. Steady BY <1>6, <2>7, Calm DEF Sent
  <2> QED BY <1>6, <2>4, <2>5, <2>6, <2>8 DEF Sent
<1>7. ASSUME NEW s \in sends, SendFails(s) PROVE TypeOK' /\ Answered' /\ Screen /\ Steady
  <2>1. sends' = sends \ {s} /\ faults' \in Nat BY <1>7 DEF SendFails, Fault
  <2>2. s \in Sends /\ silent' = IF s.answer = "send" THEN silent \cup {s.m} ELSE silent
    BY <1>7 DEF SendFails, Sends
  <2>3. silent' \subseteq Msgs BY <1>7, <2>2 DEF Sends
  <2>4. \A m \in Msgs : Coming(m) => Coming(m)' BY <1>7, <2>1, <2>2 DEF SendFails, Coming
  <2>5. Screen /\ Steady BY <1>7, <2>4, Unchanged, Calm DEF SendFails
  <2> QED BY <1>7, <2>1, <2>3, <2>5 DEF SendFails
<1>8. ASSUME NEW m \in Msgs, Progress(m) PROVE TypeOK' /\ Answered' /\ Screen /\ Steady
  <2>1. PICK k \in Reports : real' = [real EXCEPT ![m] = k] /\ acks' = acks \cup {<<m, k>>}
    BY <1>8 DEF Progress
  <2>2. k \in 1..4 BY ChatWindowAssumption
  <2>3. real' \in [Msgs -> 0..4] /\ acks' \subseteq Msgs \X (1..4)
    BY <2>1, <2>2
  <2>4. \A n \in Msgs : Coming(n) => Coming(n)' BY <1>8 DEF Progress, Coming
  <2>5. Screen /\ Steady BY <1>8, <2>4, Unchanged, Calm DEF Progress
  <2> QED BY <1>8, <2>3, <2>5 DEF Progress
<1>9. ASSUME NEW m \in Msgs, Hook(m) PROVE TypeOK' /\ Answered' /\ Screen /\ Steady
  <2> DEFINE e == Payload("new", m, status'[m])
  <2>1. PICK v \in 1..2 : v = IF real[m] = 0 THEN 2 ELSE 1 OBVIOUS
  <2>2. status' = [status EXCEPT ![m] = IF @ # 0 THEN @ ELSE v] BY <1>9, <2>1 DEF Hook
  <2>3. status' \in [Msgs -> 0..4] /\ status'[m] \in 1..4 BY <2>2
  <2>4. e \in Payloads /\ e.kind = "new" /\ e.m = m BY <2>3 DEF Payload, Payloads
  <2>5. bus' = Append(bus, e) /\ hooks' = [hooks EXCEPT ![m] = @ - 1] /\ hooks[m] > 0
        /\ UNCHANGED <<active, offset, hasMore, request, refused, len, shown, sends, silent>>
    BY <1>9 DEF Hook
  <2> HIDE DEF e
  <2>6. \A k \in Msgs : /\ hooks[k] \in 0..2 /\ hooks'[k] = IF k = m THEN hooks[k] - 1 ELSE hooks[k]
                        /\ k # m => status'[k] = status[k]
    BY <2>2, <2>5
  <2>7. /\ bus' \in Seq(Payloads)
        /\ \A k \in Msgs : e.m = k => Coming(k)'
        /\ \A k \in Msgs : Coming(k) /\ k # m => Coming(k)'
    BY <2>4, <2>5, <2>6, Pushed
  <2>8. hooks' \in [Msgs -> 0..2]
    <3>1. hooks[m] - 1 \in 0..2 BY <2>5, <2>6
    <3> QED BY <2>5, <3>1
  <2>9. \A k \in Msgs : Coming(k) => Coming(k)' BY <2>4, <2>7
  <2>10. Screen /\ Steady BY <2>5, <2>9, Unchanged, Calm
  <2> QED BY <1>9, <2>3, <2>7, <2>8, <2>10 DEF Hook, Payloads
<1>10. ASSUME NEW m \in Msgs, HookUnseen(m) PROVE TypeOK' /\ Answered' /\ Screen /\ Steady
  <2>1. hooks' = [hooks EXCEPT ![m] = @ - 1] /\ hooks[m] > 0 /\ status[m] # 0
    BY <1>10 DEF HookUnseen
  <2>2. hooks' \in [Msgs -> 0..2] /\ \A k \in Msgs : k # m => hooks'[k] = hooks[k]
    <3>1. hooks[m] - 1 \in 0..2 BY <2>1
    <3> QED BY <2>1, <3>1
  <2>3. \A k \in Msgs : Coming(k) => Coming(k)' BY <1>10, <2>1, <2>2 DEF HookUnseen, Coming
  <2>4. Screen /\ Steady BY <1>10, <2>3, Unchanged, Calm DEF HookUnseen
  <2> QED BY <1>10, <2>2, <2>4 DEF HookUnseen
<1>11. ASSUME NEW m \in Msgs, Import(m) PROVE TypeOK' /\ Answered' /\ Screen /\ Steady
  <2>1. PICK k \in 1..3 : status' = [status EXCEPT ![m] = k] BY <1>11 DEF Import
  <2>2. silent' = silent \cup {m} /\ faults' \in Nat BY <1>11 DEF Import, Fault
  <2>3. status' \in [Msgs -> 0..4] /\ \A n \in Msgs : n # m => status'[n] = status[n]
    BY <2>1
  <2>4. \A n \in Msgs : Coming(n) => Coming(n)' BY <1>11, <2>2, <2>3 DEF Import, Coming
  <2>5. Screen /\ Steady BY <1>11, <2>4, Unchanged, Calm DEF Import
  <2> QED BY <1>11, <2>2, <2>3, <2>5 DEF Import
<1>12. ASSUME NEW m \in Msgs, NEW k \in 1..4, AckHook(m, k)
       PROVE TypeOK' /\ Answered' /\ Screen /\ Steady
  <2> DEFINE e == Payload("ack", m, k)
  <2>1. /\ acks' \subseteq acks /\ astray' \subseteq Msgs /\ faults' \in Nat
        /\ status' = [status EXCEPT ![m] = Advanced(@, k)] /\ bus' = Append(bus, e)
        /\ UNCHANGED <<len, real, hooks, active, shown, offset, hasMore, request, sends, refused,
                       silent, added, opens>>
    BY <1>12 DEF AckHook, Tick, Fault
  <2>2. Advanced(status[m], k) \in 0..4 /\ (status[m] = 0 => Advanced(status[m], k) = 0)
    BY DEF Advanced
  <2>3. status' \in [Msgs -> 0..4] /\ \A n \in Msgs : status[n] = 0 => status'[n] = 0
    BY <2>1, <2>2
  <2>4. e \in Payloads BY DEF Payload, Payloads
  <2> HIDE DEF e
  <2>5. bus' \in Seq(Payloads) /\ \A n \in Msgs : Coming(n) => Coming(n)'
    BY <2>1, <2>3, <2>4, Pushed
  <2>6. Screen /\ Steady BY <2>1, <2>5, Unchanged, Calm
  <2> QED BY <2>1, <2>3, <2>5, <2>6 DEF Payloads
<1> QED BY <1>1, <1>2, <1>3, <1>4, <1>5, <1>6, <1>7, <1>8, <1>9, <1>10, <1>11, <1>12
        DEF MessageStep


-------------------------------------------------------------------------------
(* What exists.                                                            *)

(* Messages of WhatsApp are never lost. *)
LEMMA KnownStays ==
  ASSUME TypeOK, TypeOK', \A c \in Chats : len'[c] >= len[c]
  PROVE  \A m \in Msgs : Known(m) => Known(m)'
<1> SUFFICES ASSUME NEW m \in Msgs, m[2] <= len[ChatOf(m)] PROVE m[2] <= len'[ChatOf(m)]
  BY DEF Known
<1>1. ChatOf(m) \in Chats /\ m[2] \in 1..MaxLen BY DEF Msgs, ChatOf
<1>2. len[ChatOf(m)] \in Nat /\ len'[ChatOf(m)] \in Nat BY <1>1, Constants DEF TypeOK
<1> QED BY <1>1, <1>2, Constants

LEMMA Typed ==
  ASSUME TypeOK
  PROVE  /\ shown \in Seq(Entries) /\ Len(shown) \in Nat
         /\ \A i \in 1..Len(shown) : shown[i] \in Entries /\ shown[i].m \in Msgs
                                     /\ shown[i].status \in 0..4
         /\ bus \in Seq(Payloads) /\ Len(bus) \in Nat
         /\ \A i \in 1..Len(bus) : bus[i] \in Payloads /\ bus[i].m \in Msgs
                                   /\ bus[i].status \in 1..4
         /\ request # None => /\ request.batch \in Seq(Entries) /\ Len(request.batch) \in Nat
                              /\ \A i \in 1..Len(request.batch) : request.batch[i].m \in Msgs
         /\ \A s \in sends : s \in Sends /\ (s.m # None => s.m \in Msgs) /\ s.chat \in Chats
<1>1. shown \in Seq(Entries) /\ bus \in Seq(Payloads) /\ sends \subseteq Sends
      /\ (request # None => request.batch \in Seq(Entries))
  BY DEF TypeOK, Payloads, Sends
<1>2. /\ Len(shown) \in Nat /\ Len(bus) \in Nat
      /\ \A i \in 1..Len(shown) : shown[i] \in Entries
      /\ \A i \in 1..Len(bus) : bus[i] \in Payloads
  BY <1>1, LenProperties, ElementOfSeq
<1>3. request # None => /\ Len(request.batch) \in Nat
                        /\ \A i \in 1..Len(request.batch) : request.batch[i] \in Entries
  BY <1>1, LenProperties, ElementOfSeq
<1> QED BY <1>1, <1>2, <1>3 DEF Entries, Payloads, Sends

(* What the window gets on screen is shown already, under way or sent.     *)
LEMMA OnScreen ==
  ASSUME TypeOK, Existing, Screen,
         \A e : Bubble(e) => Known(e.m)
  PROVE  \A i \in 1..Len(shown') : Known(shown'[i].m)
<1>1. CASE Relabelled BY <1>1, Typed DEF Relabelled, Existing
<1>2. ASSUME NEW e, Bubble(e) PROVE \A i \in 1..Len(shown') : Known(shown'[i].m)
  <2>1. /\ Len(shown') = Len(shown) + 1 /\ shown'[Len(shown) + 1] = e
        /\ \A i \in 1..Len(shown) : shown'[i] = shown[i]
    BY <1>2, Typed, Appending DEF Bubble
  <2>2. \A i \in 1..Len(shown') : i \in 1..Len(shown) \/ i = Len(shown) + 1
    BY <2>1, Typed
  <2> QED BY <1>2, <2>1, <2>2 DEF Existing
<1> QED BY <1>1, <1>2 DEF Screen
LEMMA StillExisting ==
  ASSUME TypeOK, TypeOK', Existing, \A c \in Chats : len'[c] >= len[c],
         \A m \in Msgs : status'[m] # 0 \/ hooks'[m] > 0 \/ real'[m] # 0 => Known(m) \/ Known(m)',
         \A p \in acks' : Known(p[1]) \/ Known(p[1])',
         \A i \in 1..Len(bus') : Known(bus'[i].m),
         \A i \in 1..Len(shown') : Known(shown'[i].m),
         request' # None => \A i \in 1..Len(request'.batch) : Known(request'.batch[i].m),
         \A s \in sends' : s.m # None => (Known(s.m) \/ Known(s.m)') /\ real'[s.m] >= 1
  PROVE  Existing'
<1>1. \A m \in Msgs : Known(m) => Known(m)' BY KnownStays
<1>2. \A p \in acks' : p[1] \in Msgs BY DEF TypeOK
<1>3. /\ \A i \in 1..Len(bus') : bus'[i].m \in Msgs
      /\ \A i \in 1..Len(shown') : shown'[i].m \in Msgs
      /\ request' # None => \A i \in 1..Len(request'.batch) : request'.batch[i].m \in Msgs
      /\ \A s \in sends' : s.m # None => s.m \in Msgs
  <2>1. shown' \in Seq(Entries) /\ bus' \in Seq(Payloads) /\ sends' \subseteq Sends
        /\ (request' # None => request'.batch \in Seq(Entries))
    BY DEF TypeOK, Payloads, Sends
  <2>2. /\ \A i \in 1..Len(shown') : shown'[i] \in Entries
        /\ \A i \in 1..Len(bus') : bus'[i] \in Payloads
    BY <2>1, ElementOfSeq
  <2>3. request' # None => \A i \in 1..Len(request'.batch) : request'.batch[i] \in Entries
    BY <2>1, ElementOfSeq
  <2> QED BY <2>1, <2>2, <2>3 DEF Entries, Payloads, Sends
<1>4. \A m \in Msgs : status'[m] # 0 \/ hooks'[m] > 0 \/ real'[m] # 0 => Known(m)'
  BY <1>1
<1>5. \A p \in acks' : Known(p[1])'
  <2> SUFFICES ASSUME NEW p \in acks' PROVE Known(p[1])' OBVIOUS
  <2>1. PICK m \in Msgs : m = p[1] BY <1>2
  <2>2. Known(m)' BY <1>1, <2>1
  <2> QED BY <2>1, <2>2
<1>6. ASSUME NEW i \in 1..Len(bus') PROVE Known(bus[i].m)'
  <2>1. PICK m \in Msgs : m = bus'[i].m BY <1>3
  <2>2. Known(m)' BY <1>1, <2>1
  <2> QED BY <2>1, <2>2 DEF Known
<1>7. ASSUME NEW i \in 1..Len(shown') PROVE Known(shown[i].m)'
  <2>1. PICK m \in Msgs : m = shown'[i].m BY <1>3
  <2>2. Known(m)' BY <1>1, <2>1
  <2> QED BY <2>1, <2>2 DEF Known
<1>8. ASSUME request' # None, NEW i \in 1..Len(request'.batch) PROVE Known(request.batch[i].m)'
  <2>1. PICK m \in Msgs : m = request'.batch[i].m BY <1>3, <1>8
  <2>2. Known(m)' BY <1>1, <1>8, <2>1
  <2> QED BY <2>1, <2>2 DEF Known
<1>9. \A s \in sends' : s.m # None => Known(s.m)' /\ real'[s.m] >= 1
  BY <1>1, <1>3
<1> QED BY <1>4, <1>5, <1>6, <1>7, <1>8, <1>9 DEF Existing

LEMMA WindowExisting ==
  ASSUME TypeOK, TypeOK', Existing,
         \/ \E c \in Chats : OpenChat(c)
         \/ Scroll \/ ReadPage \/ ReadFails \/ Loaded \/ LoadFails \/ UNCHANGED vars
  PROVE  Existing'
<1> USE DEF Existing
<1>1. UNCHANGED <<len, real, acks, hooks, status, bus, sends>>
  BY DEF OpenChat, Scroll, ReadPage, ReadFails, Loaded, LoadFails, vars
<1>2. TypeOK OBVIOUS
<1>3. \A c \in Chats : len'[c] >= len[c]
  <2>1. \A c \in Chats : len[c] \in Nat BY <1>2, Constants DEF TypeOK
  <2> QED BY <1>1, <2>1
<1> DEFINE A == \A i \in 1..Len(shown') : Known(shown'[i].m)
           B == request' # None => \A i \in 1..Len(request'.batch) : Known(request'.batch[i].m)
<1>4. ASSUME NEW c, Load(c, 0, TRUE) \/ Load(c, offset, hasMore) PROVE B
  <2>1. request' = request \/ 1..Len(request'.batch) = {} BY <1>4 DEF Load
  <2> QED BY <2>1
<1>5. ASSUME NEW c \in Chats, OpenChat(c) PROVE A /\ B
  <2>1. 1..Len(shown') = {} BY <1>5 DEF OpenChat
  <2> QED BY <1>4, <1>5, <2>1 DEF OpenChat
<1>6. ASSUME Scroll PROVE A /\ B BY <1>4, <1>6 DEF Scroll
<1>7. ASSUME ReadPage PROVE A /\ B
  <2>1. shown' = shown BY <1>7 DEF ReadPage
  <2> DEFINE k == len[request.chat] - request.offset
             n == Len(request'.batch)
  <2>2. /\ request' \in Requests /\ (request'.batch # <<>> => n <= k)
        /\ \A i \in 1..n : request'.batch[i].m = <<request.chat, k - n + i>>
    BY <1>2, <1>7, PageType
  <2>3. request \in Requests /\ request.chat \in Chats /\ request.offset \in Nat
    BY <1>2, <1>7 DEF TypeOK, ReadPage, Requests
  <2>4. n \in Nat /\ len[request.chat] \in Nat
    BY <1>2, <2>2, <2>3, LenProperties, Constants DEF TypeOK, Requests
  <2>5. ASSUME NEW i \in 1..n PROVE Known(request'.batch[i].m)
    <3>1. request'.batch # <<>> BY <2>4
    <3>2. k - n + i <= len[request.chat]
      BY <2>2, <2>3, <2>4, <3>1
    <3>3. request'.batch[i].m = <<request.chat, k - n + i>> BY <2>2
    <3> QED BY <3>2, <3>3 DEF Known, ChatOf
  <2> QED BY <2>1, <2>5
<1>8. ASSUME ReadFails PROVE A /\ B
  <2>1. shown' = shown /\ request' = [request EXCEPT !.read = TRUE] /\ request # None
    BY <1>8 DEF ReadFails
  <2>2. request'.batch = request.batch BY <1>2, <2>1 DEF TypeOK
  <2> QED BY <2>1, <2>2
<1>9. ASSUME Loaded PROVE A /\ B
  <2>1. request # None /\ request' = None /\ (shown' = request.batch \o shown \/ shown' = shown)
    BY <1>9 DEF Loaded
  <2>2. CASE shown' = request.batch \o shown
    <3>1. \A i \in 1..Len(shown') :
            \/ i \in 1..Len(request.batch) /\ shown'[i] = request.batch[i]
            \/ i - Len(request.batch) \in 1..Len(shown)
               /\ shown'[i] = shown[i - Len(request.batch)]
      <4>1. /\ \A i \in 1..Len(request.batch) : shown'[i] = request.batch[i]
            /\ \A i \in 1..Len(shown) : shown'[Len(request.batch) + i] = shown[i]
            /\ \A i \in 1..Len(shown') :
                 i \in 1..Len(request.batch) \/ i - Len(request.batch) \in 1..Len(shown)
        BY <1>2, <2>1, <2>2, Typed, Joining
      <4>2. \A i \in 1..Len(shown') : Len(request.batch) + (i - Len(request.batch)) = i
        BY <1>2, <2>1, Typed
      <4> QED BY <4>1, <4>2
    <3> QED BY <2>1, <3>1
  <2> QED BY <2>1, <2>2
<1>10. ASSUME LoadFails PROVE A /\ B BY <1>10 DEF LoadFails
<1>11. ASSUME UNCHANGED vars PROVE A /\ B BY <1>11 DEF vars
<1>12. A /\ B BY <1>5, <1>6, <1>7, <1>8, <1>9, <1>10, <1>11
<1>13. /\ \A m \in Msgs : status'[m] # 0 \/ hooks'[m] > 0 \/ real'[m] # 0 => Known(m)
       /\ \A p \in acks' : Known(p[1])
       /\ \A i \in 1..Len(bus') : Known(bus'[i].m)
       /\ \A s \in sends' : s.m # None => Known(s.m) /\ real'[s.m] >= 1
  BY <1>1
<1> HIDE DEF Existing
<1> QED BY <1>2, <1>3, <1>12, <1>13, StillExisting
LEMMA MessageExisting ==
  ASSUME TypeOK, Answered, Existing, MessageStep
  PROVE  Existing'
<1>1. TypeOK /\ Answered OBVIOUS
<1>2. TypeOK' /\ Screen /\ Steady BY <1>1, MessageEffect
<1>3. (\A c \in Chats : len'[c] >= len[c]) /\ UNCHANGED request BY <1>2 DEF Steady
<1> DEFINE Rows == \A m \in Msgs :
                     status'[m] # 0 \/ hooks'[m] > 0 \/ real'[m] # 0 => Known(m) \/ Known(m)'
           Acks == \A p \in acks' : Known(p[1]) \/ Known(p[1])'
           Bus == \A i \in 1..Len(bus') : Known(bus'[i].m)
           Bubbles == \A e : Bubble(e) => Known(e.m)
           Mine == \A s \in sends' : s.m # None =>
                     (Known(s.m) \/ Known(s.m)') /\ real'[s.m] >= 1
<1>4. UNCHANGED shown => Bubbles
  <2> SUFFICES ASSUME UNCHANGED shown, NEW e, Bubble(e) PROVE FALSE OBVIOUS
  <2>1. shown \in Seq(Entries) /\ Len(shown) \in Nat /\ e \in Entries /\ shown' = Append(shown, e)
    BY <1>1, Typed DEF Bubble
  <2>2. Len(shown) = Len(shown) + 1 BY <2>1, Appending
  <2> QED BY <2>1, <2>2
<1>5. /\ \A m \in Msgs : status[m] # 0 \/ hooks[m] > 0 \/ real[m] # 0 => Known(m)
      /\ UNCHANGED acks => Acks
      /\ UNCHANGED bus => Bus
      /\ sends' \subseteq sends /\ UNCHANGED real => Mine
  BY DEF Existing
<1>6. ASSUME NEW e \in Payloads, bus' = Append(bus, e), Known(e.m) PROVE Bus
  <2>1. /\ Len(bus') = Len(bus) + 1 /\ bus'[Len(bus) + 1] = e
        /\ \A i \in 1..Len(bus) : bus'[i] = bus[i]
    BY <1>1, <1>6, Typed, Appending
  <2>2. \A i \in 1..Len(bus') : i \in 1..Len(bus) \/ i = Len(bus) + 1 BY <1>1, <2>1, Typed
  <2> QED BY <1>6, <2>1, <2>2 DEF Existing
<1> DEFINE Goal == Rows /\ Acks /\ Bus /\ Bubbles /\ Mine
<1>7. ASSUME Send PROVE Goal
  <2>1. UNCHANGED <<len, real, acks, hooks, status, bus, shown>> BY <1>7 DEF Send
  <2>2. Mine BY <1>7, <2>1 DEF Send, Existing
  <2>3. Goal BY <1>4, <1>5, <2>1, <2>2
  <2> QED BY <2>3
<1>8. ASSUME Deliver PROVE Goal
  <2>1. UNCHANGED <<len, real, acks, hooks, status, sends>> BY <1>8 DEF Deliver
  <2>2. bus' = Tail(bus) /\ bus # <<>> BY <1>8 DEF Deliver
  <2>3. /\ Head(bus) = bus[1] /\ Len(bus') = Len(bus) - 1 /\ Len(bus) \in Nat /\ Len(bus) > 0
        /\ \A i \in 1..Len(bus') : bus'[i] = bus[i + 1]
    BY <1>1, <2>2, Typed, Popping, EmptySeq
  <2>4. \A i \in 1..Len(bus') : i + 1 \in 1..Len(bus) BY <2>3
  <2>5. Bus BY <2>3, <2>4 DEF Existing
  <2>6. 1 \in 1..Len(bus) BY <2>3
  <2>7. Known(Head(bus).m) BY <2>3, <2>6 DEF Existing
  <2>8. ASSUME NEW e, Bubble(e) PROVE Known(e.m)
    <3>1. shown \in Seq(Entries) /\ Len(shown) \in Nat /\ e \in Entries /\ shown' = Append(shown, e)
      BY <1>1, <2>8, Typed DEF Bubble
    <3>2. Len(shown') = Len(shown) + 1 /\ shown'[Len(shown) + 1] = e BY <3>1, Appending
    <3>3. CASE Head(bus).kind = "new"
      <4> DEFINE f == Entry(Head(bus).m, Head(bus).status, "bus")
      <4>1. shown' # shown BY <3>1, <3>2
      <4>2. shown' = Append(shown, f) BY <1>8, <3>3, <4>1 DEF Deliver, OnBusNewMessage
      <4>3. f \in Entries /\ f.m = Head(bus).m
        <5>1. Head(bus) \in Payloads BY <1>1, <2>2, Typed, Popping
        <5> QED BY <5>1, Entered DEF Payloads, Sources
      <4> HIDE DEF f
      <4>4. shown'[Len(shown) + 1] = f BY <3>1, <4>2, <4>3, Appending
      <4> QED BY <2>7, <3>2, <4>3, <4>4
    <3>4. CASE Head(bus).kind # "new"
      <4>1. DOMAIN shown' = 1..Len(shown)
        BY <1>8, <3>4 DEF Deliver, OnBusAck
      <4>2. DOMAIN shown' = 1..Len(shown')
        BY <1>2, LenProperties DEF Screen
      <4> QED BY <3>1, <3>2, <4>1, <4>2
    <3> QED BY <3>3, <3>4
  <2>9. Goal BY <1>5, <2>1, <2>5, <2>8
  <2> QED BY <2>9
<1>9. ASSUME NEW c \in Chats, Arrive(c) PROVE Goal
  <2>1. UNCHANGED <<real, acks, status, bus, shown, sends>> BY <1>9 DEF Arrive
  <2>2. PICK n : n = <<c, len[c] + 1>> OBVIOUS
  <2>3. hooks' = [hooks EXCEPT ![n] = 2] /\ len' = [len EXCEPT ![c] = @ + 1]
    BY <1>9, <2>2 DEF Arrive
  <2>4. \A m \in Msgs : m # n => hooks'[m] = hooks[m] BY <1>1, <2>3 DEF TypeOK
  <2>5. n[1] = c /\ n[2] = len[c] + 1 BY <2>2
  <2>6. n[2] <= len'[n[1]]
    <3>1. len'[c] = len[c] + 1 /\ len[c] \in Nat BY <1>1, <2>3, Constants DEF TypeOK
    <3> QED BY <2>5, <3>1
  <2>7. Known(n)' BY <2>6 DEF Known, ChatOf
  <2>8. Rows BY <1>5, <2>1, <2>4, <2>7
  <2> QED BY <1>4, <1>5, <2>1, <2>8
<1>10. ASSUME NEW s \in sends, Accept(s) PROVE Goal
  <2>1. UNCHANGED <<status, bus, shown>> BY <1>10 DEF Accept
  <2>2. PICK n : n = <<s.chat, len[s.chat] + 1>> OBVIOUS
  <2>3. /\ hooks' = [hooks EXCEPT ![n] = 1] /\ len' = [len EXCEPT ![s.chat] = @ + 1]
        /\ real' = [real EXCEPT ![n] = 1] /\ acks' = acks \cup {<<n, 1>>}
        /\ sends' = (sends \ {s}) \cup {[s EXCEPT !.m = n]}
    BY <1>10, <2>2 DEF Accept
  <2>4. s \in Sends /\ s.chat \in Chats /\ n \in Msgs
    <3>1. 1 \in {1, 2} /\ s.chat \in Chats /\ s \in Sends /\ len[s.chat] < MaxLen
      BY <1>1, <1>10, Typed DEF Accept
    <3>2. len[s.chat] + 1 \in 1..MaxLen BY <1>1, <3>1, Constants DEF TypeOK
    <3> QED BY <2>2, <3>1, <3>2 DEF Msgs
  <2>5. \A m \in Msgs : m # n => hooks'[m] = hooks[m] /\ real'[m] = real[m]
    BY <1>1, <2>3 DEF TypeOK
  <2>6. Known(n)'
    <3>1. len'[s.chat] = len[s.chat] + 1 BY <1>1, <2>3, <2>4 DEF TypeOK
    <3>2. n[1] = s.chat /\ n[2] = len[s.chat] + 1 BY <2>2
    <3>3. n[2] <= len'[s.chat]
      <4>1. len[s.chat] \in Nat BY <1>1, <2>4, Constants DEF TypeOK
      <4> QED BY <3>1, <3>2, <4>1
    <3>4. len'[n[1]] = len'[s.chat] BY <3>2
    <3> QED BY <3>3, <3>4 DEF Known, ChatOf
  <2>7. real'[n] = 1 BY <1>1, <2>3, <2>4 DEF TypeOK
  <2>8. Rows BY <1>5, <2>1, <2>5, <2>6
  <2>9. ASSUME NEW t \in sends', t.m # None
        PROVE  (Known(t.m) \/ Known(t.m)') /\ real'[t.m] >= 1
    <3>1. CASE t \in sends
      <4>1. Known(t.m) /\ real[t.m] >= 1 /\ t.m \in Msgs
        BY <1>1, <2>9, <3>1, Typed DEF Existing
      <4> QED BY <2>5, <2>7, <4>1
    <3>2. CASE t \notin sends
      <4>1. t = [s EXCEPT !.m = n] BY <2>3, <3>2
      <4>2. t.m = n BY <2>4, <4>1 DEF Sends
      <4> QED BY <2>6, <2>7, <4>2 DEF Known
    <3> QED BY <3>1, <3>2
  <2>10. Mine BY <2>9
  <2>11. \A p \in acks' : Known(p[1]) \/ Known(p[1])'
    <3> SUFFICES ASSUME NEW p \in acks' PROVE Known(p[1]) \/ Known(p[1])' OBVIOUS
    <3>1. CASE p \in acks BY <3>1 DEF Existing
    <3>2. CASE p \notin acks
      <4>1. p[1] = n BY <2>3, <3>2
      <4> QED BY <2>6, <4>1 DEF Known
    <3> QED BY <3>1, <3>2
  <2> QED BY <1>4, <1>5, <2>1, <2>8, <2>10, <2>11
<1>11. ASSUME NEW s \in sends, Store(s) PROVE Goal
  <2>1. UNCHANGED <<len, real, acks, hooks, bus, shown>> /\ s.m # None
        /\ \E v : status' = [status EXCEPT ![s.m] = v]
        /\ \E a : sends' = (sends \ {s}) \cup {[s EXCEPT !.answer = a]}
    BY <1>11 DEF Store
  <2>2. s \in Sends /\ Known(s.m) /\ real[s.m] >= 1 BY <1>1, <2>1, Typed DEF Existing
  <2>3. \A m \in Msgs : m # s.m => status'[m] = status[m] BY <1>1, <2>1 DEF TypeOK
  <2>4. Rows BY <1>5, <2>1, <2>2, <2>3
  <2>5. \A a : [s EXCEPT !.answer = a].m = s.m BY <2>2 DEF Sends
  <2>6. Mine BY <2>1, <2>2, <2>5 DEF Existing
  <2> QED BY <1>4, <1>5, <2>1, <2>4, <2>6
<1>12. ASSUME NEW s \in sends, Sent(s) PROVE Goal
  <2>1. UNCHANGED <<len, real, acks, hooks, status, bus>> /\ sends' \subseteq sends /\ s.m # None
    BY <1>1, <1>12 DEF Sent, Answered
  <2>2. Known(s.m) BY <2>1 DEF Existing
  <2>3. ASSUME NEW e, Bubble(e) PROVE Known(e.m)
    <3> DEFINE f == Entry(s.m, 1, s.answer)
    <3>1. shown \in Seq(Entries) /\ e \in Entries /\ shown' = Append(shown, e)
      BY <1>1, <2>3, Typed DEF Bubble
    <3>2. shown'[Len(shown) + 1] = e BY <3>1, Appending
    <3>3. shown' = Append(shown, f) BY <1>12 DEF Sent
    <3>4. f \in Entries /\ f.m = s.m
      <4>1. s.m \in Msgs /\ s.answer \in Sources
        BY <1>1, <1>12, <2>1, Typed DEF Sends, Sent, Sources
      <4> QED BY <4>1, Entered
    <3> HIDE DEF f
    <3>5. shown'[Len(shown) + 1] = f BY <3>1, <3>3, <3>4, Appending
    <3> QED BY <2>2, <3>2, <3>4, <3>5
  <2> QED BY <1>5, <2>1, <2>3
<1>13. ASSUME NEW s \in sends, SendFails(s) PROVE Goal
  <2>1. UNCHANGED <<len, real, acks, hooks, status, bus, shown>> /\ sends' \subseteq sends
    BY <1>13 DEF SendFails
  <2> QED BY <1>4, <1>5, <2>1
<1>14. ASSUME NEW m \in Msgs, Progress(m) PROVE Goal
  <2>1. PICK k \in Reports : /\ UNCHANGED <<len, hooks, status, bus, shown, sends>>
                             /\ real[m] \in 1..(IF k = 4 THEN 1 ELSE k - 1)
                             /\ real' = [real EXCEPT ![m] = k] /\ acks' = acks \cup {<<m, k>>}
    BY <1>14 DEF Progress
  <2>2. k \in 2..4 /\ real[m] # 0 BY <2>1, ChatWindowAssumption
  <2>3. Known(m) BY <1>5, <2>2
  <2>4. \A n \in Msgs : real'[n] = IF n = m THEN k ELSE real[n]
    BY <1>1, <2>1 DEF TypeOK
  <2>5. Rows BY <1>5, <2>1, <2>3, <2>4
  <2>6. Acks BY <2>1, <2>3 DEF Existing
  <2>7. \A s \in sends : s.m # None => s.m \in Msgs BY <1>1, Typed
  <2>8. Mine
    <3>1. \A n \in Msgs : real[n] >= 1 => real'[n] >= 1 BY <2>2, <2>4
    <3> QED BY <2>1, <2>7, <3>1 DEF Existing
  <2> QED BY <1>4, <1>5, <2>1, <2>5, <2>6, <2>8
<1>15. ASSUME NEW m \in Msgs, Hook(m) \/ HookUnseen(m) \/ Import(m) PROVE Goal
  <2>1. UNCHANGED <<len, real, acks, shown, sends>> /\ hooks[m] > 0
        /\ (hooks' = hooks \/ hooks' = [hooks EXCEPT ![m] = @ - 1])
        /\ (status' = status \/ \E v : status' = [status EXCEPT ![m] = v])
    BY <1>15 DEF Hook, HookUnseen, Import
  <2>2. Known(m) BY <1>5, <2>1
  <2>3. Bus
    <3>1. CASE UNCHANGED bus BY <1>5, <3>1
    <3>2. CASE Hook(m)
      <4> DEFINE e == Payload("new", m, status'[m])
      <4>1. bus' = Append(bus, e) BY <3>2 DEF Hook
      <4>2. e \in Payloads /\ e.m = m
        <5>1. status'[m] # 0
          <6>1. status' = [status EXCEPT ![m] =
                             IF @ # 0 THEN @ ELSE IF real[m] = 0 THEN 2 ELSE 1]
            BY <3>2 DEF Hook
          <6> QED BY <1>1, <6>1 DEF TypeOK
        <5>2. status'[m] \in 0..4 BY <1>2 DEF TypeOK
        <5> QED BY <5>1, <5>2 DEF Payload, Payloads
      <4> HIDE DEF e
      <4> QED BY <1>6, <2>2, <4>1, <4>2
    <3> QED BY <1>15, <3>1, <3>2 DEF HookUnseen, Import
  <2>4. \A n \in Msgs : n # m => hooks'[n] = hooks[n] /\ status'[n] = status[n]
    BY <1>1, <2>1 DEF TypeOK
  <2>5. Rows BY <1>5, <2>1, <2>2, <2>4
  <2> QED BY <1>4, <1>5, <2>1, <2>3, <2>5
<1>16. ASSUME NEW m \in Msgs, NEW k \in 1..4, AckHook(m, k) PROVE Goal
  <2> DEFINE e == Payload("ack", m, k)
  <2>1. UNCHANGED <<len, real, hooks, shown, sends>> /\ bus' = Append(bus, e)
        /\ <<m, k>> \in acks /\ acks' \subseteq acks
        /\ \E v : status' = [status EXCEPT ![m] = v]
    BY <1>16 DEF AckHook, Tick
  <2>2. Known(m) BY <2>1 DEF Existing
  <2>3. e \in Payloads /\ e.m = m BY DEF Payload, Payloads
  <2> HIDE DEF e
  <2>4. Bus BY <1>6, <2>1, <2>2, <2>3
  <2>5. \A n \in Msgs : n # m => status'[n] = status[n] BY <1>1, <2>1 DEF TypeOK
  <2>6. Rows BY <1>5, <2>1, <2>2, <2>5
  <2>7. Acks BY <2>1 DEF Existing
  <2> QED BY <1>4, <1>5, <2>1, <2>4, <2>6, <2>7
<1>17. Goal
  BY <1>7, <1>8, <1>9, <1>10, <1>11, <1>12, <1>13, <1>14, <1>15, <1>16 DEF MessageStep
<1>18. \A i \in 1..Len(shown') : Known(shown'[i].m) BY <1>1, <1>2, <1>17, OnScreen
<1>19. request' # None => \A i \in 1..Len(request'.batch) : Known(request'.batch[i].m)
  BY <1>3 DEF Existing
<1> QED BY <1>1, <1>2, <1>3, <1>17, <1>18, <1>19, StillExisting

-------------------------------------------------------------------------------
(* The invariant.                                                          *)

(* What was read is a run of messages of the chat it was read for.         *)
BatchIsRun ==
    request # None =>
      /\ ~request.read => request.batch = <<>>
      /\ \A i \in 1..Len(request.batch) :
           /\ request.batch[i].from = "page"
           /\ request.batch[i].m = <<request.chat, request.batch[1].m[2] + i - 1>>

(* No page is on screen before the first is loaded.                        *)
NoPageYet == offset = 0 => \A i \in 1..Len(shown) : shown[i].from # "page"

(* What is newer than a page that is shown is covered.                     *)
Gapless ==
    ~refused =>
      \A i \in 1..Len(shown) : shown[i].from = "page" =>
        \A n \in (shown[i].m[2] + 1)..len[active] : Covered(n)

(* As long as there is more to load, the newest offset messages are on     *)
(* screen or still to be pushed.                                           *)
Reached ==
    ~refused /\ active \in Chats /\ hasMore =>
      \A n \in 1..len[active] : n > len[active] - offset => Covered(n)

(* The load under way for the open chat continues where the window ends.   *)
Continues ==
    ~refused /\ request # None /\ request.chat = active =>
      /\ hasMore /\ request.offset = offset
      /\ request.batch # <<>> =>
           LET last == request.batch[Len(request.batch)].m[2]
           IN  /\ last <= len[active] - offset
               /\ \A n \in 1..len[active] : n > last => Covered(n)

IInv == /\ TypeOK /\ Answered /\ OwnMessagesOnly /\ EchoShownOnce /\ Gapless
        /\ BatchIsRun /\ NoPageYet /\ Reached /\ Continues


LEMMA InvInit == Init => IInv
<1> SUFFICES ASSUME Init PROVE IInv OBVIOUS
<1>1. TypeOK BY InitType
<1>2. shown = <<>> /\ request = None /\ sends = {} /\ offset = 0 /\ active = None
  BY DEF Init
<1>3. 1..Len(shown) = {} BY <1>2
<1>4. OwnMessagesOnly /\ EchoShownOnce /\ Gapless /\ NoPageYet
  BY <1>3 DEF OwnMessagesOnly, EchoShownOnce, Gapless, NoPageYet
<1>5. Answered /\ BatchIsRun /\ Continues BY <1>2 DEF Answered, BatchIsRun, Continues
<1>6. Reached BY <1>2, Constants DEF Reached
<1> QED BY <1>1, <1>4, <1>5, <1>6 DEF IInv

(* What a step that relabels bubbles or adds one keeps.                    *)
LEMMA ScreenKeeps ==
  ASSUME TypeOK, Screen, UNCHANGED active
  PROVE  /\ \A m : Shows(m) => Shows(m)'
         /\ OwnMessagesOnly => OwnMessagesOnly'
         /\ EchoShownOnce => EchoShownOnce'
         /\ \A i \in 1..Len(shown') : shown'[i].from = "page" =>
              i \in 1..Len(shown) /\ shown[i].from = "page" /\ shown'[i].m = shown[i].m
<1>1. shown \in Seq(Entries) /\ Len(shown) \in Nat BY LenProperties DEF TypeOK
<1>2. CASE Relabelled
  <2>1. Len(shown') = Len(shown)
        /\ \A i \in 1..Len(shown) : shown'[i].m = shown[i].m /\ shown'[i].from = shown[i].from
    BY <1>2 DEF Relabelled
  <2>2. \A m : Shows(m) => Shows(m)' BY <2>1 DEF Shows
  <2>3. OwnMessagesOnly => OwnMessagesOnly' BY <2>1 DEF OwnMessagesOnly
  <2>4. EchoShownOnce => EchoShownOnce' BY <2>1 DEF EchoShownOnce
  <2> QED BY <2>1, <2>2, <2>3, <2>4
<1>3. ASSUME NEW e, Bubble(e)
      PROVE  /\ \A m : Shows(m) => Shows(m)'
             /\ OwnMessagesOnly => OwnMessagesOnly'
             /\ EchoShownOnce => EchoShownOnce'
             /\ \A i \in 1..Len(shown') : shown'[i].from = "page" =>
                  i \in 1..Len(shown) /\ shown[i].from = "page" /\ shown'[i].m = shown[i].m
  <2>1. /\ Len(shown') = Len(shown) + 1 /\ shown'[Len(shown) + 1] = e
        /\ \A i \in 1..Len(shown) : shown'[i] = shown[i]
    BY <1>1, <1>3, Appending DEF Bubble
  <2>2. \A i \in 1..Len(shown') : i \in 1..Len(shown) \/ i = Len(shown) + 1
    BY <1>1, <2>1
  <2>3. e.from \notin {"page", "bus"} \/ (e.from = "bus" /\ ~Compared(e.m) /\ ChatOf(e.m) = active)
    BY <1>3 DEF Bubble
  <2>4. \A i \in 1..Len(shown) : i \in 1..Len(shown') BY <1>1, <2>1
  <2>5. \A m : Shows(m) => Shows(m)' BY <2>1, <2>4 DEF Shows
  <2>6. OwnMessagesOnly => OwnMessagesOnly' BY <2>1, <2>2, <2>3 DEF OwnMessagesOnly
  <2>7. ASSUME EchoShownOnce, NEW i \in 1..Len(shown'), NEW j \in 1..Len(shown'),
               i < j, shown'[i].from \in {"bus", "send"}, shown'[j].from = "bus"
        PROVE  shown'[i].m # shown'[j].m
    <3>1. i \in 1..Len(shown) BY <1>1, <2>1, <2>7
    <3>2. CASE j \in 1..Len(shown) BY <2>1, <2>7, <3>1, <3>2 DEF EchoShownOnce
    <3>3. CASE j = Len(shown) + 1
      <4>1. e.from = "bus" /\ ~Compared(e.m) BY <2>1, <2>3, <2>7, <3>3
      <4> QED BY <2>1, <2>7, <3>1, <3>3, <4>1 DEF Compared, SameId
    <3> QED BY <2>2, <3>2, <3>3
  <2>8. EchoShownOnce => EchoShownOnce' BY <2>7 DEF EchoShownOnce
  <2>9. ASSUME NEW i \in 1..Len(shown'), shown'[i].from = "page"
        PROVE  i \in 1..Len(shown) /\ shown[i].from = "page" /\ shown'[i].m = shown[i].m
    <3>1. i # Len(shown) + 1 BY <2>1, <2>3, <2>9
    <3> QED BY <2>1, <2>2, <2>9, <3>1
  <2> QED BY <2>5, <2>6, <2>8, <2>9
<1> QED BY <1>2, <1>3 DEF Screen

(* Messages stay covered while the window stays, and new ones are covered. *)
LEMMA StaysCovered ==
  ASSUME TypeOK, TypeOK', Screen, Steady, active \in Chats, NEW n \in 1..len'[active],
         n <= len[active] => Covered(n)
  PROVE  Covered(n)'
<1>1. len[active] \in 0..MaxLen /\ len'[active] \in 0..MaxLen /\ active' = active
  BY DEF TypeOK, Steady
<1>2. CASE n <= len[active]
  <2>1. n \in 1..MaxLen BY <1>1, Constants
  <2>2. <<active, n>> \in Msgs BY <2>1 DEF Msgs
  <2>3. PICK m : m = <<active, n>> OBVIOUS
  <2>4. m \in Msgs /\ ChatOf(m) = active BY <2>2, <2>3 DEF ChatOf
  <2>5. Shows(m) \/ Coming(m) BY <1>2, <2>3 DEF Covered
  <2>6. Shows(m)' \/ Coming(m)' BY <1>1, <2>4, <2>5, ScreenKeeps DEF Steady
  <2>7. m = <<active', n>> BY <1>1, <2>3
  <2> QED BY <2>6, <2>7 DEF Covered
<1>3. CASE ~(n <= len[active])
  <2>1. n \in (len[active] + 1)..len'[active] BY <1>1, <1>3, Constants
  <2>2. PICK c \in Chats : c = active OBVIOUS
  <2>3. Coming(<<c, n>>)' BY <2>1, <2>2 DEF Steady
  <2>4. c = active' BY <1>1, <2>2
  <2> QED BY <2>3, <2>4 DEF Covered
<1> QED BY <1>2, <1>3


LEMMA MessageKeeps ==
  ASSUME IInv, Existing, MessageStep
  PROVE  IInv'
<1>1. TypeOK /\ Answered BY DEF IInv
<1>2. TypeOK' /\ Answered' /\ Screen /\ Steady BY <1>1, MessageEffect
<1>3. UNCHANGED <<active, offset, hasMore, request, refused>> BY <1>2 DEF Steady
<1>4. /\ OwnMessagesOnly' /\ EchoShownOnce'
      /\ \A i \in 1..Len(shown') : shown'[i].from = "page" =>
           i \in 1..Len(shown) /\ shown[i].from = "page" /\ shown'[i].m = shown[i].m
  BY <1>1, <1>2, <1>3, ScreenKeeps DEF IInv
<1>5. NoPageYet' BY <1>3, <1>4 DEF IInv, NoPageYet
<1>6. BatchIsRun' BY <1>3 DEF IInv, BatchIsRun
<1>7. active \in Chats =>
        len[active] \in Nat /\ len'[active] \in Nat /\ len'[active] >= len[active]
  BY <1>1, <1>2, Constants DEF TypeOK, Steady
<1>8. offset \in Nat BY <1>1 DEF TypeOK
<1>9. Reached'
  <2> SUFFICES ASSUME ~refused, active \in Chats, hasMore,
                      NEW n \in 1..len'[active], n > len'[active] - offset
               PROVE  Covered(n)'
    BY <1>3 DEF Reached
  <2>1. n <= len[active] => n \in 1..len[active] /\ n > len[active] - offset
    BY <1>7, <1>8
  <2>2. n <= len[active] => Covered(n) BY <2>1 DEF IInv, Reached
  <2> QED BY <1>1, <1>2, <2>2, StaysCovered
<1>10. Continues'
  <2> SUFFICES ASSUME ~refused, request # None, request.chat = active
               PROVE  /\ hasMore /\ request.offset = offset
                      /\ request.batch # <<>> =>
                           LET last == request.batch[Len(request.batch)].m[2]
                           IN  /\ last <= len'[active] - offset
                               /\ \A n \in 1..len'[active] : n > last => Covered(n)'
    BY <1>3 DEF Continues
  <2>1. active \in Chats BY <1>1 DEF TypeOK
  <2>2. hasMore /\ request.offset = offset BY DEF IInv, Continues
  <2>3. ASSUME request.batch # <<>>
        PROVE  /\ request.batch[Len(request.batch)].m[2] <= len'[active] - offset
               /\ \A n \in 1..len'[active] :
                    n > request.batch[Len(request.batch)].m[2] => Covered(n)'
    <3> DEFINE last == request.batch[Len(request.batch)].m[2]
    <3>1. last <= len[active] - offset /\ \A n \in 1..len[active] : n > last => Covered(n)
      BY <2>3 DEF IInv, Continues
    <3>2. last \in Nat
      <4>1. request.batch \in Seq(Entries) BY <1>1 DEF TypeOK
      <4>2. Len(request.batch) \in 1..Len(request.batch)
        BY <2>3, <4>1, EmptySeq, LenProperties
      <4>3. request.batch[Len(request.batch)] \in Entries BY <4>1, <4>2, ElementOfSeq
      <4> QED BY <4>3, Constants DEF Entries, Msgs
    <3> HIDE DEF last
    <3>3. last <= len'[active] - offset BY <1>7, <1>8, <2>1, <3>1, <3>2
    <3>4. ASSUME NEW n \in 1..len'[active], n > last PROVE Covered(n)'
      <4>1. n <= len[active] => n \in 1..len[active] BY <1>7, <2>1
      <4>2. n <= len[active] => Covered(n) BY <3>1, <3>4, <4>1
      <4> QED BY <1>1, <1>2, <2>1, <4>2, StaysCovered
    <3> QED BY <3>3, <3>4 DEF last
  <2> QED BY <2>2, <2>3
<1>11. Gapless'
  <2> SUFFICES ASSUME ~refused, NEW i \in 1..Len(shown'), shown'[i].from = "page",
                      NEW n \in (shown'[i].m[2] + 1)..len'[active]
               PROVE  Covered(n)'
    BY <1>3 DEF Gapless, Covered
  <2>1. i \in 1..Len(shown) /\ shown[i].from = "page" /\ shown'[i].m = shown[i].m
    BY <1>4
  <2>2. shown[i] \in Entries BY <1>1, <2>1, ElementOfSeq DEF TypeOK
  <2>3. shown[i].m[2] \in Nat /\ ChatOf(shown[i].m) \in Chats
    BY <2>2, Constants DEF Entries, Msgs, ChatOf
  <2>4. active \in Chats BY <2>1, <2>3 DEF IInv, OwnMessagesOnly
  <2>5. n \in 1..len'[active] BY <1>7, <2>1, <2>3, <2>4
  <2>6. n <= len[active] => n \in (shown[i].m[2] + 1)..len[active]
    BY <1>7, <2>1, <2>3, <2>4
  <2>7. n <= len[active] => Covered(n) BY <2>1, <2>6 DEF IInv, Gapless, Covered
  <2> QED BY <1>1, <1>2, <2>4, <2>5, <2>7, StaysCovered
<1> QED BY <1>2, <1>4, <1>5, <1>6, <1>9, <1>10, <1>11 DEF IInv


LEMMA OpenKeeps ==
  ASSUME IInv, NEW c \in Chats, OpenChat(c)
  PROVE  IInv'
<1>1. TypeOK' /\ Answered' BY WindowType DEF IInv
<1>2. active' = c /\ shown' = <<>> /\ offset' = 0 /\ hasMore' = TRUE
      /\ refused' = (request # None) /\ UNCHANGED <<len, hooks, status, bus, sends, silent>>
  BY DEF OpenChat
<1>3. 1..Len(shown') = {} BY <1>2
<1>4. OwnMessagesOnly' /\ EchoShownOnce' /\ Gapless' /\ NoPageYet'
  BY <1>3 DEF OwnMessagesOnly, EchoShownOnce, Gapless, NoPageYet
<1>5. IF request = None
      THEN request' = [chat |-> c, offset |-> 0, read |-> FALSE, batch |-> <<>>]
      ELSE request' = request
  BY DEF OpenChat, Load
<1>6. BatchIsRun'
  <2>1. CASE request = None
    <3>1. 1..Len(request'.batch) = {} /\ request'.batch = <<>> BY <1>5, <2>1
    <3> QED BY <3>1 DEF BatchIsRun
  <2>2. CASE request # None BY <1>5, <2>2 DEF IInv, BatchIsRun
  <2> QED BY <2>1, <2>2
<1>7. Continues'
  <2>1. CASE request = None BY <1>2, <1>5, <2>1 DEF Continues
  <2>2. CASE request # None BY <1>2, <2>2 DEF Continues
  <2> QED BY <2>1, <2>2
<1>8. Reached'
  <2>1. \A d \in Chats : len'[d] \in Nat BY <1>1, Constants DEF TypeOK
  <2>2. \A n \in 1..len'[active'] : ~(n > len'[active'] - offset') BY <1>2, <2>1
  <2> QED BY <2>2 DEF Reached
<1> QED BY <1>1, <1>4, <1>6, <1>7, <1>8 DEF IInv

LEMMA ScrollKeeps ==
  ASSUME IInv, Scroll
  PROVE  IInv'
<1>1. TypeOK' /\ Answered' BY WindowType DEF IInv
<1>2. active # None /\ request = None /\ hasMore /\ refused' = (refused /\ offset # 0)
      /\ request' = [chat |-> active, offset |-> offset, read |-> FALSE, batch |-> <<>>]
      /\ UNCHANGED <<len, hooks, status, bus, sends, silent, active, shown, offset, hasMore>>
  BY DEF Scroll, Load
<1>3. OwnMessagesOnly' /\ EchoShownOnce' /\ NoPageYet'
  BY <1>2 DEF IInv, OwnMessagesOnly, EchoShownOnce, NoPageYet
<1>4. request'.batch = <<>> /\ 1..Len(request'.batch) = {} BY <1>2
<1>5. BatchIsRun' BY <1>4 DEF BatchIsRun
<1>6. Continues' BY <1>2 DEF Continues
<1>7. \A n : Covered(n) => Covered(n)' BY <1>2 DEF Covered, Shows, Coming
<1>8. CASE offset = 0
  <2>1. Gapless' BY <1>2, <1>8 DEF IInv, NoPageYet, Gapless
  <2>2. \A d \in Chats : len'[d] \in Nat BY <1>1, Constants DEF TypeOK
  <2>3. active' \in Chats => \A n \in 1..len'[active'] : ~(n > len'[active'] - offset')
    BY <1>2, <1>8, <2>2
  <2>4. Reached' BY <2>3 DEF Reached
  <2> QED BY <1>1, <1>3, <1>5, <1>6, <2>1, <2>4 DEF IInv
<1>9. CASE offset # 0
  <2>1. refused' = refused BY <1>1, <1>2, <1>9 DEF IInv, TypeOK
  <2>2. Gapless' BY <1>2, <1>7, <2>1 DEF IInv, Gapless, Covered
  <2>3. Reached' BY <1>2, <1>7, <2>1 DEF IInv, Reached
  <2> QED BY <1>1, <1>3, <1>5, <1>6, <2>2, <2>3 DEF IInv
<1> QED BY <1>8, <1>9

(* Steps that leave the window, and what it is to get, as they are.        *)
LEMMA StillKeeps ==
  ASSUME IInv, TypeOK', UNCHANGED <<len, hooks, status, bus, sends, silent, active, shown, offset, refused>>,
         hasMore' => hasMore
  PROVE  /\ OwnMessagesOnly' /\ EchoShownOnce' /\ Gapless' /\ NoPageYet' /\ Reached'
         /\ \A n : Covered(n) => Covered(n)'
<1>1. \A n : Covered(n) => Covered(n)' BY DEF Covered, Shows, Coming
<1>2. OwnMessagesOnly' /\ EchoShownOnce' /\ NoPageYet'
  BY DEF IInv, OwnMessagesOnly, EchoShownOnce, NoPageYet
<1>3. Gapless' /\ Reached' BY <1>1 DEF IInv, Gapless, Reached, Covered
<1> QED BY <1>1, <1>2, <1>3

LEMMA ReadKeeps ==
  ASSUME IInv, ReadPage
  PROVE  IInv'
<1>1. TypeOK' /\ Answered' BY WindowType DEF IInv
<1>2. UNCHANGED <<len, hooks, status, bus, sends, silent, active, shown, offset, hasMore, refused>> /\ request # None
  BY DEF ReadPage
<1>3. /\ OwnMessagesOnly' /\ EchoShownOnce' /\ Gapless' /\ NoPageYet' /\ Reached'
      /\ \A n : Covered(n) => Covered(n)'
  BY <1>1, <1>2, StillKeeps
<1> DEFINE b == request'.batch
           k == len[request.chat] - request.offset
<1>4. /\ request' \in Requests /\ request'.read
      /\ request'.chat = request.chat /\ request'.offset = request.offset
      /\ b # <<>> => Len(b) > 0 /\ Len(b) <= k
      /\ \A i \in 1..Len(b) : b[i].m = <<request.chat, k - Len(b) + i>> /\ b[i].from = "page"
  BY PageType DEF IInv
<1>5. Len(b) \in Nat /\ k \in Int /\ request.chat \in Chats
  <2>1. request \in Requests BY <1>2 DEF IInv, TypeOK, Requests
  <2>2. request.chat \in Chats /\ request.offset \in Nat BY <2>1 DEF Requests
  <2>3. len[request.chat] \in Nat BY <2>2, Constants DEF IInv, TypeOK
  <2> QED BY <1>4, <2>2, <2>3, LenProperties DEF Requests
<1> HIDE DEF b, k
<1>6. \A i \in 1..Len(b) : b[i].m = <<request.chat, b[1].m[2] + i - 1>>
  <2> SUFFICES ASSUME NEW i \in 1..Len(b) PROVE b[i].m = <<request.chat, b[1].m[2] + i - 1>>
    OBVIOUS
  <2>1. 1 \in 1..Len(b) BY <1>5
  <2>2. b[1].m[2] = k - Len(b) + 1 BY <1>4, <2>1
  <2>3. b[1].m[2] + i - 1 = k - Len(b) + i BY <1>5, <2>2
  <2> QED BY <1>4, <2>3
<1>7. BatchIsRun' BY <1>4, <1>6 DEF BatchIsRun, b
<1>8. Continues'
  <2> SUFFICES ASSUME ~refused, request.chat = active
               PROVE  /\ hasMore /\ request.offset = offset
                      /\ b # <<>> => /\ b[Len(b)].m[2] <= len[active] - offset
                                     /\ \A n \in 1..len[active] : n > b[Len(b)].m[2] => Covered(n)'
    BY <1>2, <1>4 DEF Continues, b
  <2>1. hasMore /\ request.offset = offset BY <1>2 DEF IInv, Continues
  <2>2. ASSUME b # <<>>
        PROVE  /\ b[Len(b)].m[2] <= len[active] - offset
               /\ \A n \in 1..len[active] : n > b[Len(b)].m[2] => Covered(n)'
    <3>1. Len(b) \in 1..Len(b) BY <1>4, <1>5, <2>2
    <3>2. b[Len(b)].m[2] = k - Len(b) + Len(b) BY <1>4, <3>1
    <3>3. b[Len(b)].m[2] = len[active] - offset /\ k = len[active] - offset
      BY <1>5, <2>1, <3>2 DEF k
    <3>4. \A n \in 1..len[active] : n > len[active] - offset => Covered(n)
      BY <1>5, <2>1 DEF IInv, Reached
    <3> QED BY <1>3, <1>5, <3>3, <3>4
  <2> QED BY <2>1, <2>2
<1> QED BY <1>1, <1>3, <1>7, <1>8 DEF IInv

LEMMA ReadFailsKeeps ==
  ASSUME IInv, ReadFails
  PROVE  IInv'
<1>1. TypeOK' /\ Answered' BY WindowType DEF IInv
<1>2. UNCHANGED <<len, hooks, status, bus, sends, silent, active, shown, offset, hasMore, refused>>
      /\ request # None /\ ~request.read /\ request' = [request EXCEPT !.read = TRUE]
  BY DEF ReadFails
<1>3. /\ OwnMessagesOnly' /\ EchoShownOnce' /\ Gapless' /\ NoPageYet' /\ Reached'
      /\ \A n : Covered(n) => Covered(n)'
  BY <1>1, <1>2, StillKeeps
<1>4. request \in Requests BY <1>2 DEF IInv, TypeOK, Requests
<1>5. request'.chat = request.chat /\ request'.offset = request.offset
      /\ request'.batch = request.batch /\ request'.read
  BY <1>2, <1>4 DEF Requests
<1>6. request.batch = <<>> BY <1>2 DEF IInv, BatchIsRun
<1>7. 1..Len(request'.batch) = {} BY <1>5, <1>6
<1>8. BatchIsRun' BY <1>5, <1>7 DEF BatchIsRun
<1>9. Continues' BY <1>2, <1>5, <1>6 DEF IInv, Continues
<1> QED BY <1>1, <1>3, <1>8, <1>9 DEF IInv

LEMMA LoadFailsKeeps ==
  ASSUME IInv, LoadFails
  PROVE  IInv'
<1>1. TypeOK' /\ Answered' BY WindowType DEF IInv
<1>2. UNCHANGED <<len, hooks, status, bus, sends, silent, active, shown, offset, refused>> /\ ~hasMore'
      /\ request' = None
  BY DEF LoadFails
<1>3. OwnMessagesOnly' /\ EchoShownOnce' /\ Gapless' /\ NoPageYet' /\ Reached'
  BY <1>1, <1>2, StillKeeps
<1>4. BatchIsRun' /\ Continues' BY <1>2 DEF BatchIsRun, Continues
<1> QED BY <1>1, <1>3, <1>4 DEF IInv


(* An answer for the chat that is open goes in front of what is shown.     *)
LEMMA PageKeeps ==
  ASSUME IInv, Loaded, request.chat = active
  PROVE  IInv'
<1> DEFINE b == request.batch
<1>1. TypeOK' /\ Answered' BY WindowType DEF IInv
<1>2. /\ shown' = b \o shown /\ offset' = offset + Limit /\ hasMore' = (Len(b) = Limit)
      /\ request # None /\ request' = None /\ UNCHANGED <<len, hooks, status, bus, sends, silent, active, refused>>
  BY DEF Loaded
<1>3. request \in Requests /\ b \in Seq(Entries) /\ Len(b) \in Nat /\ active \in Chats
      /\ shown \in Seq(Entries) /\ Len(shown) \in Nat /\ offset \in Nat
  <2>1. request \in Requests /\ shown \in Seq(Entries) /\ offset \in Nat
    BY <1>2 DEF IInv, TypeOK, Requests
  <2>2. b \in Seq(Entries) /\ active \in Chats BY <2>1 DEF Requests
  <2> QED BY <2>1, <2>2, LenProperties
<1>4. \A i \in 1..Len(b) : b[i].from = "page" /\ b[i].m = <<active, b[1].m[2] + i - 1>>
  BY <1>2 DEF IInv, BatchIsRun
<1> HIDE DEF b
<1>5. /\ Len(shown') = Len(b) + Len(shown)
      /\ \A i \in 1..Len(b) : shown'[i] = b[i]
      /\ \A i \in 1..Len(shown) : shown'[Len(b) + i] = shown[i]
      /\ \A i \in 1..Len(shown') : i \in 1..Len(b) \/ i - Len(b) \in 1..Len(shown)
  BY <1>2, <1>3, Joining
<1>6. /\ \A i \in 1..Len(b) : i \in 1..Len(shown')
      /\ \A i \in 1..Len(shown) : Len(b) + i \in 1..Len(shown')
      /\ \A i \in 1..Len(shown') : i - Len(b) \in 1..Len(shown) =>
           shown'[i] = shown[i - Len(b)]
  <2>1. /\ \A i \in 1..Len(b) : i \in 1..Len(shown')
        /\ \A i \in 1..Len(shown) : Len(b) + i \in 1..Len(shown')
    <3>1. Len(shown') = Len(b) + Len(shown) BY <1>5
    <3> QED BY <1>3, <3>1
  <2>2. ASSUME NEW i \in 1..Len(shown'), i - Len(b) \in 1..Len(shown)
        PROVE  shown'[i] = shown[i - Len(b)]
    <3>1. shown'[Len(b) + (i - Len(b))] = shown[i - Len(b)] BY <1>5, <2>2
    <3>2. i \in Int /\ Len(b) + (i - Len(b)) = i BY <1>3
    <3> QED BY <3>1, <3>2
  <2> QED BY <2>1, <2>2
<1>7. \A m : Shows(m) => Shows(m)' BY <1>5, <1>6 DEF Shows
<1>8. \A n : Covered(n) => Covered(n)' BY <1>2, <1>7 DEF Covered, Coming
<1>9. OwnMessagesOnly'
  <2> SUFFICES ASSUME NEW i \in 1..Len(shown'), shown'[i].from \in {"page", "bus"}
               PROVE  ChatOf(shown'[i].m) = active
    BY <1>2 DEF OwnMessagesOnly
  <2>1. CASE i \in 1..Len(b) BY <1>4, <1>5, <2>1 DEF ChatOf
  <2>2. CASE i - Len(b) \in 1..Len(shown)
    <3>1. shown'[i] = shown[i - Len(b)] BY <1>6, <2>2
    <3> QED BY <2>2, <3>1 DEF IInv, OwnMessagesOnly
  <2> QED BY <1>5, <2>1, <2>2
<1>10. EchoShownOnce'
  <2> SUFFICES ASSUME NEW i \in 1..Len(shown'), NEW j \in 1..Len(shown'), i < j,
                      shown'[i].from \in {"bus", "send"}, shown'[j].from = "bus"
               PROVE  shown'[i].m # shown'[j].m
    BY DEF EchoShownOnce
  <2>1. i \notin 1..Len(b) /\ j \notin 1..Len(b) BY <1>4, <1>5
  <2>2. i - Len(b) \in 1..Len(shown) /\ j - Len(b) \in 1..Len(shown)
        /\ shown'[i] = shown[i - Len(b)] /\ shown'[j] = shown[j - Len(b)]
    BY <1>5, <1>6, <2>1
  <2>3. i - Len(b) < j - Len(b) BY <1>3, <1>5
  <2> QED BY <2>2, <2>3 DEF IInv, EchoShownOnce
<1>11. NoPageYet' BY <1>2, <1>3, Constants DEF NoPageYet
<1>12. BatchIsRun' /\ Continues' BY <1>2 DEF BatchIsRun, Continues
<1>13. Len(b) > 0 =>
         /\ b[1].m[2] \in Nat
         /\ \A i \in 1..Len(b) : b[i].m[2] = b[1].m[2] + i - 1
         /\ ~refused => /\ b[1].m[2] + Len(b) - 1 <= len[active] - offset
                        /\ \A n \in 1..len[active] :
                             n > b[1].m[2] + Len(b) - 1 => Covered(n)
  <2> SUFFICES ASSUME Len(b) > 0
               PROVE  /\ b[1].m[2] \in Nat
                      /\ \A i \in 1..Len(b) : b[i].m[2] = b[1].m[2] + i - 1
                      /\ ~refused => /\ b[1].m[2] + Len(b) - 1 <= len[active] - offset
                                     /\ \A n \in 1..len[active] :
                                          n > b[1].m[2] + Len(b) - 1 => Covered(n)
    OBVIOUS
  <2>1. 1 \in 1..Len(b) /\ Len(b) \in 1..Len(b) /\ b # <<>> BY <1>3
  <2>2. b[1] \in Entries BY <1>3, <2>1, ElementOfSeq
  <2>3. b[1].m[2] \in Nat BY <2>2, Constants DEF Entries, Msgs
  <2>4. \A i \in 1..Len(b) : b[i].m[2] = b[1].m[2] + i - 1 BY <1>4
  <2>5. ~refused => /\ b[Len(b)].m[2] <= len[active] - offset
                   /\ \A n \in 1..len[active] : n > b[Len(b)].m[2] => Covered(n)
    BY <1>2, <2>1 DEF IInv, Continues, b
  <2> QED BY <2>1, <2>3, <2>4, <2>5
<1>14. \A n : ~refused /\ Len(b) > 0 /\ n \in 1..len[active] /\ n >= b[1].m[2] => Covered(n)'
  <2> SUFFICES ASSUME ~refused, Len(b) > 0, NEW n \in 1..len[active], n >= b[1].m[2]
               PROVE  Covered(n)'
    OBVIOUS
  <2>1. len[active] \in Nat BY <1>3, Constants DEF IInv, TypeOK
  <2>2. CASE n > b[1].m[2] + Len(b) - 1 BY <1>8, <1>13, <2>2
  <2>3. CASE ~(n > b[1].m[2] + Len(b) - 1)
    <3> DEFINE i == n - b[1].m[2] + 1
    <3>1. i \in 1..Len(b) /\ b[1].m[2] + i - 1 = n BY <1>3, <1>13, <2>1, <2>3
    <3> HIDE DEF i
    <3>2. b[i].m = <<active, n>> BY <1>4, <3>1
    <3>3. i \in 1..Len(shown') /\ shown'[i].m = <<active', n>>
      BY <1>2, <1>5, <1>6, <3>1, <3>2
    <3> QED BY <3>3 DEF Covered, Shows
  <2> QED BY <2>2, <2>3
<1>15. len[active] \in Nat BY <1>3, Constants DEF IInv, TypeOK
<1>16. Reached'
  <2> SUFFICES ASSUME ~refused, Len(b) = Limit, NEW n \in 1..len[active],
                      n > len[active] - (offset + Limit)
               PROVE  Covered(n)'
    BY <1>2 DEF Reached
  <2>1. Len(b) > 0 BY Constants
  <2>2. PICK x \in Nat : x = b[1].m[2] BY <1>13, <2>1
  <2>3. x + Limit - 1 <= len[active] - offset BY <1>13, <2>1, <2>2
  <2>4. offset \in Nat /\ Limit \in Nat /\ n \in Nat BY <1>3, <1>15, Constants
  <2>5. n >= x BY <1>15, <2>3, <2>4
  <2>6. n >= b[1].m[2] BY <2>2, <2>5
  <2> QED BY <1>14, <2>1, <2>6
<1>17. Gapless'
  <2> SUFFICES ASSUME ~refused, NEW i \in 1..Len(shown'), shown'[i].from = "page",
                      NEW n \in (shown'[i].m[2] + 1)..len[active]
               PROVE  Covered(n)'
    BY <1>2 DEF Gapless, Covered
  <2>1. CASE i \in 1..Len(b)
    <3>1. Len(b) > 0 /\ shown'[i].m[2] = b[1].m[2] + i - 1 BY <1>3, <1>4, <1>5, <2>1
    <3>2. PICK x \in Nat : x = b[1].m[2] BY <1>13, <3>1
    <3>3. shown'[i].m[2] = x + i - 1 /\ i \in Nat /\ i >= 1 BY <1>3, <2>1, <3>1, <3>2
    <3>4. n \in 1..len[active] /\ n >= x BY <1>15, <3>2, <3>3
    <3> QED BY <1>14, <3>1, <3>2, <3>4
  <2>2. CASE i - Len(b) \in 1..Len(shown)
    <3>1. shown'[i] = shown[i - Len(b)] BY <1>6, <2>2
    <3>2. Covered(n) BY <2>2, <3>1 DEF IInv, Gapless, Covered
    <3> QED BY <1>8, <3>2
  <2> QED BY <1>5, <2>1, <2>2
<1> QED BY <1>1, <1>9, <1>10, <1>11, <1>12, <1>16, <1>17 DEF IInv

LEMMA LoadedKeeps ==
  ASSUME IInv, Loaded
  PROVE  IInv'
<1>1. CASE request.chat = active BY <1>1, PageKeeps
<1>2. CASE request.chat # active
  <2>1. TypeOK' /\ Answered' BY WindowType DEF IInv
  <2>2. UNCHANGED <<len, hooks, status, bus, sends, silent, active, shown, offset, hasMore, refused>> /\ request' = None
    BY <1>2 DEF Loaded
  <2>3. OwnMessagesOnly' /\ EchoShownOnce' /\ Gapless' /\ NoPageYet' /\ Reached'
    BY <2>1, <2>2, StillKeeps
  <2>4. BatchIsRun' /\ Continues' BY <2>2 DEF BatchIsRun, Continues
  <2> QED BY <2>1, <2>3, <2>4 DEF IInv
<1> QED BY <1>1, <1>2

LEMMA StutterKeeps ==
  ASSUME IInv, UNCHANGED vars
  PROVE  IInv'
<1>1. TypeOK' /\ Answered' BY DEF IInv, TypeOK, Answered, vars
<1>2. OwnMessagesOnly' /\ EchoShownOnce' /\ Gapless' /\ NoPageYet' /\ Reached'
      /\ \A n : Covered(n) => Covered(n)'
  BY <1>1, StillKeeps DEF vars
<1>3. BatchIsRun' BY DEF IInv, BatchIsRun, vars
<1>4. Continues' BY <1>2 DEF IInv, Continues, vars
<1> QED BY <1>1, <1>2, <1>3, <1>4 DEF IInv

LEMMA Invariant == Spec => [](IInv /\ Existing)
<1>1. Init => IInv /\ Existing
  <2> SUFFICES ASSUME Init PROVE IInv /\ Existing OBVIOUS
  <2>1. shown = <<>> /\ bus = <<>> /\ request = None /\ sends = {} /\ acks = {}
        /\ \A m \in Msgs : status[m] = 0 /\ hooks[m] = 0 /\ real[m] = 0
    BY DEF Init
  <2>2. 1..Len(shown) = {} /\ 1..Len(bus) = {} BY <2>1
  <2> QED BY <2>1, <2>2, InvInit DEF Existing
<1>2. IInv /\ Existing /\ [Next]_vars => (IInv /\ Existing)'
  <2> SUFFICES ASSUME IInv, Existing, [Next]_vars PROVE IInv' /\ Existing' OBVIOUS
  <2> DEFINE Window == \/ \E c \in Chats : OpenChat(c)
                       \/ Scroll \/ ReadPage \/ ReadFails \/ Loaded \/ LoadFails
                       \/ UNCHANGED vars
  <2>1. CASE Window
    <3>1. ASSUME NEW c \in Chats, OpenChat(c) PROVE IInv' BY <3>1, OpenKeeps
    <3>2. IInv'
      BY <2>1, <3>1, ScrollKeeps, ReadKeeps, ReadFailsKeeps, LoadedKeeps, LoadFailsKeeps,
         StutterKeeps
    <3>3. TypeOK /\ TypeOK' BY <3>2 DEF IInv
    <3> QED BY <2>1, <3>2, <3>3, WindowExisting
  <2>2. CASE MessageStep
    <3>1. TypeOK /\ Answered BY DEF IInv
    <3> QED BY <2>2, <3>1, MessageKeeps, MessageExisting
  <2> QED BY <2>1, <2>2 DEF Next, MessageStep
<1> QED BY <1>1, <1>2, PTL DEF Spec

-------------------------------------------------------------------------------
(* The ticks.                                                              *)

(* Acknowledgements of m still to come as webhooks, on the bus behind its  *)
(* i-th push, and both.                                                    *)
Due(m) == {k \in 1..4 : <<m, k>> \in acks}
Behind(m, i) == {k \in 1..4 : \E j \in (i + 1)..Len(bus) : bus[j] = Payload("ack", m, k)}
After(m, i) == Due(m) \cup Behind(m, i)

(* What WhatsApp last said of m is still to come as a webhook, or in the   *)
(* row; and behind every push of m it is still to come, or in that push.   *)
Ordered(m) ==
    /\ \A k \in Due(m) : k <= real[m]
    /\ real[m] # 0 /\ m \notin astray =>
         /\ real[m] \in Due(m) \cup {status[m]}
         /\ \A i \in 1..Len(bus) : bus[i].m = m => real[m] \in After(m, i) \cup {bus[i].status}
InOrder == \A m \in Msgs : Ordered(m)

Quiet(m) == real[m] # 0 /\ m \notin astray /\ AcksToCome(m) = {}
Ticks(e, m) ==
    /\ SameHash(e, m)
    /\ e.status = real[m] \/ (e.from = "page" /\ e.status = PageStatus(real[m]))
Ticked(m) == \E j \in 1..Len(shown) : Ticks(shown[j], m)

(* TicksSettle, and before the first page whatever was refused. *)
Settled == ~refused \/ offset = 0 => \A m \in Msgs : Hashed(m) /\ Quiet(m) => Ticked(m)

(* The page under way settles too: an acknowledgement that it is too old   *)
(* to show has ticked a bubble on screen.                                  *)
Loading ==
    ~refused /\ request # None /\ request.chat = active =>
      \A i \in 1..Len(request.batch) : \A m \in Msgs :
        m = request.batch[i].m /\ Quiet(m)
          => request.batch[i].status = PageStatus(real[m]) \/ Ticked(m)

TInv == InOrder /\ Settled /\ Loading

-------------------------------------------------------------------------------
LEMMA ComeAfter == \A m : AcksToCome(m) = After(m, 0)
BY DEF AcksToCome, After, Due, Behind

LEMMA PushBehind ==
  ASSUME TypeOK, NEW e \in Payloads, bus' = Append(bus, e)
  PROVE  /\ \A m : \A i \in 0..Len(bus) :
              Behind(m, i)' = Behind(m, i) \cup {k \in 1..4 : e = Payload("ack", m, k)}
         /\ Len(bus') = Len(bus) + 1 /\ bus'[Len(bus) + 1] = e
         /\ \A i \in 1..Len(bus') : (i \in 1..Len(bus) /\ bus'[i] = bus[i]) \/ i = Len(bus) + 1
<1>1. /\ bus \in Seq(Payloads) /\ Len(bus) \in Nat
      /\ Len(bus') = Len(bus) + 1 /\ bus'[Len(bus) + 1] = e
      /\ \A i \in 1..Len(bus) : bus'[i] = bus[i]
  BY Typed, Appending
<1>2. ASSUME NEW m, NEW i \in 0..Len(bus)
      PROVE  Behind(m, i)' = Behind(m, i) \cup {k \in 1..4 : e = Payload("ack", m, k)}
  <2>1. ASSUME NEW k \in 1..4
        PROVE  (\E j \in (i + 1)..Len(bus') : bus'[j] = Payload("ack", m, k))
               <=> \/ \E j \in (i + 1)..Len(bus) : bus[j] = Payload("ack", m, k)
                   \/ e = Payload("ack", m, k)
    <3>1. (i + 1)..Len(bus') = ((i + 1)..Len(bus)) \cup {Len(bus) + 1} BY <1>1
    <3>2. (i + 1)..Len(bus) \subseteq 1..Len(bus) BY <1>1
    <3> QED BY <1>1, <3>1, <3>2
  <2> QED BY <2>1 DEF Behind, Payload
<1> QED BY <1>1, <1>2

LEMMA PopBehind ==
  ASSUME TypeOK, bus # <<>>, bus' = Tail(bus)
  PROVE  /\ \A m : \A i \in 0..Len(bus') : Behind(m, i)' = Behind(m, i + 1)
         /\ \A m : Behind(m, 0) =
              Behind(m, 1) \cup {k \in 1..4 : Head(bus) = Payload("ack", m, k)}
         /\ Head(bus) = bus[1] /\ 1 \in 1..Len(bus) /\ Head(bus) \in Payloads
         /\ \A i \in 1..Len(bus') : i + 1 \in 1..Len(bus) /\ bus'[i] = bus[i + 1]
<1>1. /\ bus \in Seq(Payloads) /\ Len(bus) \in Nat /\ Len(bus) > 0
      /\ Len(bus') = Len(bus) - 1 /\ Head(bus) = bus[1] /\ Head(bus) \in Payloads
      /\ \A i \in 1..Len(bus') : bus'[i] = bus[i + 1]
  BY Typed, Popping, EmptySeq
<1>2. ASSUME NEW m, NEW i \in 0..Len(bus') PROVE Behind(m, i)' = Behind(m, i + 1)
  <2>1. ASSUME NEW k \in 1..4
        PROVE  (\E j \in (i + 1)..Len(bus') : bus'[j] = Payload("ack", m, k))
               <=> (\E j \in (i + 2)..Len(bus) : bus[j] = Payload("ack", m, k))
    <3>1. \A j \in (i + 1)..Len(bus') : j + 1 \in (i + 2)..Len(bus) /\ bus'[j] = bus[j + 1]
      BY <1>1
    <3>2. ASSUME NEW j \in (i + 2)..Len(bus), bus[j] = Payload("ack", m, k)
          PROVE  \E h \in (i + 1)..Len(bus') : bus'[h] = Payload("ack", m, k)
      <4>1. j - 1 \in (i + 1)..Len(bus') /\ (j - 1) + 1 = j BY <1>1
      <4>2. bus'[j - 1] = bus[(j - 1) + 1] BY <1>1, <4>1
      <4> QED BY <3>2, <4>1, <4>2
    <3> QED BY <3>1, <3>2
  <2>2. i + 1 + 1 = i + 2 BY <1>1
  <2> QED BY <2>1, <2>2 DEF Behind, Payload
<1>3. ASSUME NEW m
      PROVE  Behind(m, 0) = Behind(m, 1) \cup {k \in 1..4 : Head(bus) = Payload("ack", m, k)}
  <2>1. (0 + 1)..Len(bus) = ((1 + 1)..Len(bus)) \cup {1} BY <1>1
  <2> QED BY <1>1, <2>1 DEF Behind
<1>4. 1 \in 1..Len(bus) /\ \A i \in 1..Len(bus') : i + 1 \in 1..Len(bus) BY <1>1
<1> QED BY <1>1, <1>2, <1>3, <1>4

LEMMA SameOrder ==
  ASSUME NEW m \in Msgs, Ordered(m), real'[m] = real[m],
         status'[m] = status[m] \/ status[m] = 0,
         m \in astray => m \in astray', UNCHANGED bus, Due(m)' = Due(m)
  PROVE  Ordered(m)'
<1>1. \A i : After(m, i)' = After(m, i) BY DEF After, Behind
<1> QED BY <1>1 DEF Ordered

(* One push, in which what WhatsApp last said of m is, or behind which it  *)
(* comes.                                                                  *)
LEMMA PushedInOrder ==
  ASSUME TypeOK, NEW m \in Msgs, Ordered(m),
         NEW e \in Payloads, bus' = Append(bus, e), real'[m] = real[m],
         \A k \in Due(m)' : k <= real[m],
         real[m] # 0 /\ m \notin astray' =>
           /\ m \notin astray
           /\ real[m] \in Due(m)' \cup {status'[m]}
           /\ Due(m) \subseteq Due(m)' \cup {k \in 1..4 : e = Payload("ack", m, k)}
           /\ e.m = m => real[m] \in Due(m)' \cup {e.status}
  PROVE  Ordered(m)'
<1>1. Len(bus) \in Nat BY Typed
<1> SUFFICES ASSUME real[m] # 0, m \notin astray',
                    NEW i \in 1..Len(bus'), bus'[i].m = m
             PROVE  real[m] \in After(m, i)' \cup {bus'[i].status}
  BY DEF Ordered
<1>2. CASE i \in 1..Len(bus) /\ bus'[i] = bus[i]
  <2>1. i \in 0..Len(bus) BY <1>1, <1>2
  <2>2. Behind(m, i)' = Behind(m, i) \cup {k \in 1..4 : e = Payload("ack", m, k)}
    BY <2>1, PushBehind
  <2>3. After(m, i) \subseteq After(m, i)' BY <2>2 DEF After
  <2>4. real[m] \in After(m, i) \cup {bus[i].status} BY <1>2 DEF Ordered
  <2> QED BY <1>2, <2>3, <2>4
<1>3. CASE i = Len(bus) + 1
  <2>1. bus'[i] = e BY <1>3, PushBehind
  <2> QED BY <2>1 DEF After
<1> QED BY <1>2, <1>3, PushBehind

LEMMA WindowInOrder ==
  ASSUME InOrder,
         \/ \E c \in Chats : OpenChat(c)
         \/ Scroll \/ ReadPage \/ ReadFails \/ Loaded \/ LoadFails \/ UNCHANGED vars
  PROVE  InOrder'
<1>1. UNCHANGED <<real, acks, status, bus, astray>>
  BY DEF OpenChat, Scroll, ReadPage, ReadFails, Loaded, LoadFails, vars
<1>2. \A m \in Msgs : Ordered(m)'
  <2> SUFFICES ASSUME NEW m \in Msgs PROVE Ordered(m)' OBVIOUS
  <2>1. Due(m)' = Due(m) BY <1>1 DEF Due
  <2> QED BY <1>1, <2>1, SameOrder DEF InOrder
<1> QED BY <1>2 DEF InOrder

LEMMA DeliverInOrder ==
  ASSUME TypeOK, InOrder, Deliver
  PROVE  InOrder'
<1>1. UNCHANGED <<real, acks, status>> /\ bus' = Tail(bus) /\ bus # <<>> /\ astray \subseteq astray'
  BY DEF Deliver, OnBusNewMessage, OnBusAck
<1>2. ASSUME NEW m \in Msgs PROVE Ordered(m)'
  <2>1. Ordered(m) /\ Due(m)' = Due(m) BY <1>1 DEF InOrder, Due
  <2>2. ASSUME real[m] # 0, m \notin astray, NEW i \in 1..Len(bus'), bus'[i].m = m
        PROVE  real[m] \in After(m, i)' \cup {bus'[i].status}
    <3>1. i + 1 \in 1..Len(bus) /\ bus'[i] = bus[i + 1] BY <1>1, PopBehind
    <3>2. i \in 0..Len(bus')
      <4>1. Len(bus') \in Nat BY <1>1, Typed, Popping
      <4> QED BY <4>1
    <3>3. After(m, i)' = After(m, i + 1) BY <1>1, <2>1, <3>2, PopBehind DEF After
    <3> QED BY <2>1, <2>2, <3>1, <3>3 DEF Ordered
  <2> QED BY <1>1, <2>1, <2>2 DEF Ordered
<1> QED BY <1>2 DEF InOrder

LEMMA ProgressInOrder ==
  ASSUME TypeOK, InOrder, NEW m \in Msgs, Progress(m)
  PROVE  InOrder'
<1>1. PICK k \in Reports : /\ real[m] \in 1..(IF k = 4 THEN 1 ELSE k - 1)
                           /\ real' = [real EXCEPT ![m] = k]
                           /\ acks' = acks \cup {<<m, k>>}
  BY DEF Progress
<1>2. UNCHANGED <<status, bus, astray>> BY DEF Progress
<1>3. k \in 1..4 /\ real[m] \in 0..4 /\ real[m] <= k
  BY <1>1, ChatWindowAssumption DEF TypeOK
<1>4. \A n \in Msgs : real'[n] = IF n = m THEN k ELSE real[n] BY <1>1 DEF TypeOK
<1>5. ASSUME NEW n \in Msgs, n # m PROVE Ordered(n)'
  <2>1. Due(n)' = Due(n) BY <1>1, <1>5 DEF Due
  <2> QED BY <1>2, <1>4, <1>5, <2>1, SameOrder DEF InOrder
<1>6. Ordered(m)'
  <2>1. Due(m)' = Due(m) \cup {k} BY <1>1, <1>3 DEF Due
  <2>2. \A d \in Due(m) : d <= k
    <3>1. \A d \in Due(m) : d \in 1..4 /\ d <= real[m] BY DEF InOrder, Ordered, Due
    <3> QED BY <1>3, <3>1
  <2>3. \A i : k \in After(m, i)' BY <2>1 DEF After
  <2> QED BY <1>3, <1>4, <2>1, <2>2, <2>3 DEF Ordered
<1> QED BY <1>5, <1>6 DEF InOrder

LEMMA HookInOrder ==
  ASSUME TypeOK, TypeOK', InOrder, NEW m \in Msgs, Hook(m)
  PROVE  InOrder'
<1> DEFINE e == Payload("new", m, status'[m])
<1>1. UNCHANGED <<real, acks, astray>> /\ bus' = Append(bus, e)
      /\ status' = [status EXCEPT ![m] = IF @ # 0 THEN @ ELSE IF real[m] = 0 THEN 2 ELSE 1]
  BY DEF Hook
<1>2. status'[m] \in 1..4
  <2>1. status[m] \in 0..4 BY DEF TypeOK
  <2>2. status'[m] = IF status[m] # 0 THEN status[m] ELSE IF real[m] = 0 THEN 2 ELSE 1
    BY <1>1 DEF TypeOK
  <2> QED BY <2>1, <2>2
<1>3. e \in Payloads /\ e.m = m /\ e.status = status'[m]
  BY <1>2 DEF Payload, Payloads
<1> HIDE DEF e
<1>4. \A n \in Msgs : status'[n] = status[n] \/ (n = m /\ status[n] = 0)
  BY <1>1 DEF TypeOK
<1>5. ASSUME NEW n \in Msgs PROVE Ordered(n)'
  <2>1. Ordered(n) /\ Due(n)' = Due(n) BY <1>1 DEF InOrder, Due
  <2>2. real[n] # 0 /\ n \notin astray => real[n] \in Due(n) \cup {status'[n]}
    BY <1>4, <2>1 DEF Ordered
  <2>3. \A k \in Due(n) : k <= real[n] BY <2>1 DEF Ordered
  <2> QED BY <1>1, <1>3, <2>1, <2>2, <2>3, PushedInOrder
<1> QED BY <1>5 DEF InOrder

LEMMA AckInOrder ==
  ASSUME TypeOK, InOrder, NEW m \in Msgs, NEW k \in 1..4, AckHook(m, k)
  PROVE  InOrder'
<1> DEFINE e == Payload("ack", m, k)
<1>1. UNCHANGED real /\ bus' = Append(bus, e) /\ <<m, k>> \in acks
      /\ (acks' = acks \ {<<m, k>>} \/ acks' = acks)
      /\ status' = [status EXCEPT ![m] = Advanced(@, k)]
      /\ astray' = IF status[m] \in 1..k THEN astray ELSE astray \cup {m}
  BY DEF AckHook, Tick
<1>2. e \in Payloads /\ e.m = m /\ e.status = k BY DEF Payload, Payloads
<1>3. \A n \in Msgs : {l \in 1..4 : e = Payload("ack", n, l)} = IF n = m THEN {k} ELSE {}
  BY DEF Payload
<1> HIDE DEF e
<1>4. ASSUME NEW n \in Msgs PROVE Ordered(n)'
  <2>1. Ordered(n) BY DEF InOrder
  <2>2. Due(n)' \subseteq Due(n) BY <1>1 DEF Due
  <2>3. \A l \in Due(n)' : l <= real[n] BY <2>1, <2>2 DEF Ordered
  <2>4. CASE n # m
    <3>1. status'[n] = status[n] BY <1>1, <2>4 DEF TypeOK
    <3>2. Due(n)' = Due(n) BY <1>1, <2>4 DEF Due
    <3>3. n \in astray' <=> n \in astray BY <1>1, <2>4
    <3>4. real[n] # 0 /\ n \notin astray => real[n] \in Due(n) \cup {status[n]}
      BY <2>1 DEF Ordered
    <3> QED BY <1>1, <1>2, <2>1, <2>3, <2>4, <3>1, <3>2, <3>3, <3>4, PushedInOrder
  <2>5. CASE n = m
    <3>1. ASSUME real[m] # 0, m \notin astray'
          PROVE  /\ m \notin astray
                 /\ real[m] \in Due(m)' \cup {status'[m]}
                 /\ Due(m) \subseteq Due(m)' \cup {k}
                 /\ real[m] \in Due(m)' \cup {k}
      <4>1. m \notin astray /\ status[m] \in 1..k BY <1>1, <3>1
      <4>2. Due(m) \subseteq Due(m)' \cup {k} /\ k \in Due(m) BY <1>1 DEF Due
      <4>3. status'[m] = k
        <5>1. status'[m] = Advanced(status[m], k) BY <1>1 DEF TypeOK
        <5> QED BY <4>1, <5>1 DEF Advanced
      <4>4. real[m] \in Due(m) \cup {status[m]} /\ k <= real[m]
        BY <2>1, <2>5, <3>1, <4>1, <4>2 DEF Ordered
      <4>5. real[m] \in Due(m)' \cup {k}
        <5>1. CASE real[m] \in Due(m) BY <4>2, <5>1
        <5>2. CASE real[m] = status[m]
          <6>1. real[m] \in 1..k BY <4>1, <5>2
          <6>2. real[m] = k BY <4>4, <6>1
          <6> QED BY <6>2
        <5> QED BY <4>4, <5>1, <5>2
      <4> QED BY <4>1, <4>2, <4>3, <4>5
    <3>2. {l \in 1..4 : e = Payload("ack", m, l)} = {k} BY <1>3
    <3> QED BY <1>1, <1>2, <2>1, <2>3, <2>5, <3>1, <3>2, PushedInOrder
  <2> QED BY <2>4, <2>5
<1> QED BY <1>4 DEF InOrder

LEMMA MessageInOrder ==
  ASSUME IInv, Existing, InOrder, MessageStep
  PROVE  InOrder'
<1>1. TypeOK /\ Answered BY DEF IInv
<1>2. TypeOK' BY <1>1, MessageEffect
<1>3. ASSUME UNCHANGED <<real, acks, bus>>, astray \subseteq astray',
             \A m \in Msgs : status'[m] = status[m] \/ status[m] = 0
      PROVE  InOrder'
  <2>1. \A m \in Msgs : Ordered(m)'
    <3> SUFFICES ASSUME NEW m \in Msgs PROVE Ordered(m)' OBVIOUS
    <3>1. Due(m)' = Due(m) BY <1>3 DEF Due
    <3> QED BY <1>3, <3>1, SameOrder DEF InOrder
  <2> QED BY <2>1 DEF InOrder
<1>4. ASSUME Send PROVE InOrder' BY <1>3, <1>4 DEF Send
<1>5. ASSUME NEW c \in Chats, Arrive(c) PROVE InOrder' BY <1>3, <1>5 DEF Arrive
<1>6. ASSUME NEW s \in sends, SendFails(s) PROVE InOrder' BY <1>3, <1>6 DEF SendFails
<1>7. ASSUME NEW s \in sends, Sent(s) PROVE InOrder' BY <1>3, <1>7 DEF Sent
<1>8. ASSUME NEW s \in sends, Accept(s) PROVE InOrder'
  <2>1. PICK n : n = <<s.chat, len[s.chat] + 1>> OBVIOUS
  <2>2. UNCHANGED <<status, bus, astray>> /\ real' = [real EXCEPT ![n] = 1]
        /\ acks' = acks \cup {<<n, 1>>}
        /\ len[s.chat] < MaxLen /\ s.chat \in Chats
    BY <1>1, <1>8, <2>1, Typed DEF Accept
  <2>3. n \in Msgs /\ ~Known(n)
    <3>1. len[s.chat] \in 0..MaxLen BY <1>1, <2>2 DEF TypeOK
    <3>2. len[s.chat] + 1 \in 1..MaxLen /\ ~(len[s.chat] + 1 <= len[s.chat])
      BY <2>2, <3>1, Constants
    <3> QED BY <2>1, <2>2, <3>2 DEF Msgs, Known, ChatOf
  <2>4. \A m \in Msgs : real'[m] = IF m = n THEN 1 ELSE real[m] BY <1>1, <2>2 DEF TypeOK
  <2>5. ASSUME NEW m \in Msgs, m # n PROVE Ordered(m)'
    <3>1. Due(m)' = Due(m) BY <2>2, <2>5 DEF Due
    <3> QED BY <2>2, <2>4, <2>5, <3>1, SameOrder DEF InOrder
  <2>6. Ordered(n)'
    <3>1. \A k : <<n, k>> \notin acks
      <4> SUFFICES ASSUME NEW k, <<n, k>> \in acks PROVE FALSE OBVIOUS
      <4>1. Known(<<n, k>>[1]) BY DEF Existing
      <4> QED BY <2>3, <4>1 DEF Known
    <3>2. Due(n)' = {1} BY <2>2, <3>1 DEF Due
    <3>3. \A i : 1 \in After(n, i)' BY <3>2 DEF After
    <3> QED BY <2>3, <2>4, <3>2, <3>3 DEF Ordered
  <2> QED BY <2>5, <2>6 DEF InOrder
<1>9. ASSUME NEW s \in sends, Store(s) PROVE InOrder'
  <2>1. UNCHANGED <<real, acks, bus, astray>>
        /\ \A m \in Msgs : status'[m] = status[m] \/ status[m] = 0
    BY <1>1, <1>9 DEF Store, TypeOK
  <2> QED BY <1>3, <2>1
<1>10. ASSUME NEW m \in Msgs, HookUnseen(m) PROVE InOrder' BY <1>3, <1>10 DEF HookUnseen
<1>11. ASSUME NEW m \in Msgs, Import(m) PROVE InOrder'
  <2>1. UNCHANGED <<real, acks, bus, astray>>
        /\ \A n \in Msgs : status'[n] = status[n] \/ status[n] = 0
    BY <1>1, <1>11 DEF Import, TypeOK
  <2> QED BY <1>3, <2>1
<1> QED BY <1>1, <1>2, <1>4, <1>5, <1>6, <1>7, <1>8, <1>9, <1>10, <1>11, DeliverInOrder,
          ProgressInOrder, HookInOrder, AckInOrder DEF MessageStep

-------------------------------------------------------------------------------
(* Nothing comes on screen, and no message becomes quiet.                  *)
LEMMA CalmSettles ==
  ASSUME TypeOK, Existing, Settled, Loading,
         UNCHANGED <<shown, request, active, refused, offset>>,
         \A m \in Msgs : Known(m) /\ Quiet(m)' => Quiet(m) /\ real'[m] = real[m]
  PROVE  Settled' /\ Loading'
<1>1. \A m \in Msgs : Known(m) /\ Quiet(m)' => (Ticked(m) => Ticked(m)')
  BY DEF Ticked, Ticks
<1>2. ASSUME NEW m \in Msgs, Hashed(m)' PROVE Known(m) /\ Hashed(m)
  BY <1>2 DEF Hashed, SameHash, Existing
<1>3. Settled' BY <1>1, <1>2 DEF Settled
<1>4. Loading'
  <2> SUFFICES ASSUME ~refused, request # None, request.chat = active,
                      NEW i \in 1..Len(request.batch), NEW m \in Msgs,
                      m = request.batch[i].m, Quiet(m)'
               PROVE  request.batch[i].status = PageStatus(real'[m]) \/ Ticked(m)'
    BY DEF Loading
  <2>1. Known(m) BY DEF Existing
  <2>2. Quiet(m) /\ real'[m] = real[m] BY <2>1
  <2>3. request.batch[i].status = PageStatus(real[m]) \/ Ticked(m) BY <2>2 DEF Loading
  <2> QED BY <1>1, <2>1, <2>2, <2>3
<1> QED BY <1>3, <1>4

(* What is behind the bus and the acknowledgements stays as it is.         *)
LEMMA CalmQuiet ==
  ASSUME UNCHANGED <<real, acks, bus>>, astray \subseteq astray'
  PROVE  \A m : Quiet(m)' => Quiet(m) /\ real'[m] = real[m]
BY DEF Quiet, AcksToCome

LEMMA WindowSettles ==
  ASSUME IInv, Existing, Settled, Loading,
         \/ \E c \in Chats : OpenChat(c)
         \/ Scroll \/ ReadPage \/ ReadFails \/ Loaded \/ LoadFails \/ UNCHANGED vars
  PROVE  Settled' /\ Loading'
<1>1. UNCHANGED <<real, acks, bus, astray>>
  BY DEF OpenChat, Scroll, ReadPage, ReadFails, Loaded, LoadFails, vars
<1>2. \A m : Quiet(m)' => Quiet(m) /\ real'[m] = real[m] BY <1>1, CalmQuiet
<1>3. TypeOK BY DEF IInv
<1>4. ASSUME NEW c \in Chats, OpenChat(c) PROVE Settled' /\ Loading'
  <2>1. 1..Len(shown') = {} BY <1>4 DEF OpenChat
  <2>2. Settled' BY <2>1 DEF Settled, Hashed
  <2>3. refused' \/ 1..Len(request'.batch) = {}
    <3>1. refused' = (request # None) /\ Load(c, 0, TRUE) BY <1>4 DEF OpenChat
    <3>2. CASE request = None
      <4>1. request'.batch = <<>> BY <3>1, <3>2 DEF Load
      <4> QED BY <4>1
    <3> QED BY <3>1, <3>2
  <2>4. refused' \in BOOLEAN BY <1>4 DEF OpenChat
  <2>5. Loading' BY <2>3, <2>4 DEF Loading
  <2> QED BY <2>2, <2>5
<1>5. ASSUME UNCHANGED shown PROVE \A m \in Msgs :
        /\ Hashed(m)' => Hashed(m)
        /\ Quiet(m)' /\ Ticked(m) => Ticked(m)'
  BY <1>1, <1>5 DEF Hashed, Ticked, Ticks
<1>6. CASE Scroll
  <2>1. UNCHANGED <<shown, offset>> /\ refused' = (refused /\ offset # 0)
        /\ 1..Len(request'.batch) = {}
    BY <1>6 DEF Scroll, Load
  <2>2. Settled' BY <1>2, <1>5, <2>1 DEF Settled
  <2>3. Loading' BY <2>1 DEF Loading
  <2> QED BY <2>2, <2>3
<1>7. CASE ReadPage
  <2>1. UNCHANGED <<shown, offset, refused>> BY <1>7 DEF ReadPage
  <2>2. Settled' BY <1>2, <1>5, <2>1 DEF Settled
  <2>3. \A i \in 1..Len(request'.batch) :
          request'.batch[i].status = PageStatus(real[request'.batch[i].m])
    <3> DEFINE k == len[request.chat] - request.offset
               n == Len(request'.batch)
    <3>1. \A i \in 1..n : /\ request'.batch[i].m = <<request.chat, k - n + i>>
                          /\ request'.batch[i].status =
                               PageStatus(real[<<request.chat, k - n + i>>])
      BY <1>3, <1>7, PageType
    <3> QED BY <3>1
  <2>4. Loading' BY <1>1, <2>3 DEF Loading
  <2> QED BY <2>2, <2>4
<1>8. CASE ReadFails
  <2>1. UNCHANGED <<shown, offset, refused, active>> /\ request # None
        /\ request' = [request EXCEPT !.read = TRUE]
    BY <1>8 DEF ReadFails
  <2>2. Settled' BY <1>2, <1>5, <2>1 DEF Settled
  <2>3. request'.batch = request.batch /\ request'.chat = request.chat
    BY <1>3, <2>1 DEF TypeOK
  <2>4. Loading'
    <3> SUFFICES ASSUME ~refused, request.chat = active,
                        NEW i \in 1..Len(request.batch), NEW m \in Msgs,
                        m = request.batch[i].m, Quiet(m)'
                 PROVE  request.batch[i].status = PageStatus(real'[m]) \/ Ticked(m)'
      BY <2>1, <2>3 DEF Loading
    <3>1. request.batch[i].status = PageStatus(real[m]) \/ Ticked(m)
      BY <1>2, <2>1 DEF Loading
    <3> QED BY <1>1, <1>5, <2>1, <3>1
  <2> QED BY <2>2, <2>4
<1>9. CASE Loaded
  <2>1. request # None /\ request' = None /\ refused' = refused
        /\ IF request.chat = active
           THEN shown' = request.batch \o shown /\ offset' = offset + Limit
           ELSE UNCHANGED <<shown, offset>>
    BY <1>9 DEF Loaded
  <2>2. Loading' BY <2>1 DEF Loading
  <2>3. CASE request.chat # active BY <1>2, <1>5, <2>1, <2>2, <2>3 DEF Settled
  <2>4. CASE request.chat = active
    <3> DEFINE b == request.batch
    <3>1. /\ Len(shown') = Len(b) + Len(shown) /\ Len(b) \in Nat /\ Len(shown) \in Nat
          /\ \A i \in 1..Len(b) : shown'[i] = b[i]
          /\ \A i \in 1..Len(shown) : shown'[Len(b) + i] = shown[i]
          /\ \A i \in 1..Len(shown') : i \in 1..Len(b) \/ i - Len(b) \in 1..Len(shown)
      BY <1>3, <2>1, <2>4, Typed, Joining
    <3>2. \A i \in 1..Len(b) : b[i].from = "page" BY <2>1 DEF IInv, BatchIsRun
    <3> HIDE DEF b
    <3>3. /\ \A i \in 1..Len(b) : i \in 1..Len(shown')
          /\ \A i \in 1..Len(shown) : Len(b) + i \in 1..Len(shown')
          /\ \A i \in 1..Len(shown') : Len(b) + (i - Len(b)) = i
      BY <3>1
    <3>4. \A m \in Msgs : Ticked(m) => Ticked(m)' BY <1>1, <3>1, <3>3 DEF Ticked, Ticks
    <3>5. offset' # 0
      <4>1. offset \in Nat BY <1>3 DEF TypeOK
      <4> QED BY <2>1, <2>4, <4>1, Constants
    <3>6. Settled'
      <4> SUFFICES ASSUME ~refused, NEW m \in Msgs, Hashed(m)', Quiet(m)'
                   PROVE  Ticked(m)'
        BY <2>1, <3>5 DEF Settled
      <4>1. PICK i \in 1..Len(shown') : SameHash(shown'[i], m) BY DEF Hashed
      <4>2. Quiet(m) BY <1>2
      <4>3. CASE i \in 1..Len(b)
        <5>1. shown'[i] = b[i] /\ b[i].m = m BY <3>1, <4>1, <4>3 DEF SameHash
        <5>2. b[i].status = PageStatus(real[m]) \/ Ticked(m)
          BY <2>1, <2>4, <4>2, <4>3, <5>1 DEF Loading, b
        <5>3. ASSUME b[i].status = PageStatus(real[m]) PROVE Ticked(m)'
          <6>1. Ticks(shown[i], m)' BY <1>1, <3>2, <4>1, <4>3, <5>1, <5>3 DEF Ticks
          <6> QED BY <6>1 DEF Ticked
        <5> QED BY <3>4, <5>2, <5>3
      <4>4. CASE i - Len(b) \in 1..Len(shown)
        <5>1. shown'[i] = shown[i - Len(b)]
          <6>1. shown'[Len(b) + (i - Len(b))] = shown[i - Len(b)] BY <3>1, <4>4
          <6> QED BY <3>3, <6>1
        <5>2. Hashed(m) BY <4>1, <4>4, <5>1 DEF Hashed
        <5> QED BY <3>4, <4>2, <5>2 DEF Settled
      <4> QED BY <3>1, <4>3, <4>4
    <3> QED BY <2>2, <3>6
  <2> QED BY <2>3, <2>4
<1>10. CASE LoadFails
  <2>1. UNCHANGED <<shown, offset, refused>> /\ request' = None BY <1>10 DEF LoadFails
  <2>2. Settled' BY <1>2, <1>5, <2>1 DEF Settled
  <2>3. Loading' BY <2>1 DEF Loading
  <2> QED BY <2>2, <2>3
<1>11. CASE UNCHANGED vars
  BY <1>2, <1>3, <1>11, CalmSettles DEF vars
<1> QED BY <1>4, <1>6, <1>7, <1>8, <1>9, <1>10, <1>11

(* A bubble comes on screen, with the right tick if its message is quiet.  *)
LEMMA BubbleSettles ==
  ASSUME TypeOK, Settled, Loading, UNCHANGED <<real, request, active, refused, offset>>,
         NEW e \in Entries, shown' = Append(shown, e),
         \A m \in Msgs : Quiet(m)' => Quiet(m),
         Quiet(e.m)' => e.status = real[e.m]
  PROVE  Settled' /\ Loading'
<1>1. /\ Len(shown) \in Nat /\ Len(shown') = Len(shown) + 1 /\ shown'[Len(shown) + 1] = e
      /\ \A i \in 1..Len(shown) : shown'[i] = shown[i]
  BY Typed, Appending
<1>2. /\ \A i \in 1..Len(shown) : i \in 1..Len(shown')
      /\ Len(shown) + 1 \in 1..Len(shown')
      /\ \A i \in 1..Len(shown') : i \in 1..Len(shown) \/ i = Len(shown) + 1
  BY <1>1
<1>3. \A m \in Msgs : Ticked(m) => Ticked(m)' BY <1>1, <1>2 DEF Ticked, Ticks
<1>4. Settled'
  <2> SUFFICES ASSUME ~refused \/ offset = 0, NEW m \in Msgs, Hashed(m)', Quiet(m)'
               PROVE  Ticked(m)'
    BY DEF Settled
  <2>1. PICK i \in 1..Len(shown') : SameHash(shown'[i], m) BY DEF Hashed
  <2>2. CASE i \in 1..Len(shown)
    <3>1. Hashed(m) BY <1>1, <2>1, <2>2 DEF Hashed
    <3> QED BY <1>3, <3>1 DEF Settled
  <2>3. CASE i = Len(shown) + 1
    <3>1. e.m = m /\ SameHash(e, m) /\ shown'[i] = e BY <1>1, <2>1, <2>3 DEF SameHash
    <3>2. Ticks(shown[i], m)' BY <3>1 DEF Ticks
    <3> QED BY <3>2 DEF Ticked
  <2> QED BY <1>2, <2>2, <2>3
<1>5. Loading'
  <2> SUFFICES ASSUME ~refused, request # None, request.chat = active,
                      NEW i \in 1..Len(request.batch), NEW m \in Msgs,
                      m = request.batch[i].m, Quiet(m)'
               PROVE  request.batch[i].status = PageStatus(real[m]) \/ Ticked(m)'
    BY DEF Loading
  <2> QED BY <1>3 DEF Loading
<1> QED BY <1>4, <1>5

LEMMA FirstBubble ==
  ASSUME TypeOK, NEW m, Hashed(m)
  PROVE  \E i \in 1..Len(shown) :
           SameHash(shown[i], m) /\ \A h \in 1..(i - 1) : ~SameHash(shown[h], m)
<1> DEFINE T == {i \in 1..Len(shown) : SameHash(shown[i], m)}
<1>1. T \in SUBSET Nat /\ T # {} /\ Len(shown) \in Nat BY Typed DEF Hashed
<1>2. PICK i \in T : \A j \in T : i <= j
  <2> HIDE DEF T
  <2> QED BY <1>1, LeastNumber
<1>3. ASSUME NEW h \in 1..(i - 1) PROVE ~SameHash(shown[h], m)
  <2>1. h \in 1..Len(shown) /\ ~(i <= h) BY <1>1
  <2> QED BY <1>2, <2>1
<1> QED BY <1>2, <1>3

(* What the bus has behind its head. *)
LEMMA PopQuiet ==
  ASSUME TypeOK, bus # <<>>, bus' = Tail(bus), UNCHANGED acks, NEW m
  PROVE  /\ AcksToCome(m)' = After(m, 1)
         /\ AcksToCome(m) = After(m, 1) \cup {k \in 1..4 : Head(bus) = Payload("ack", m, k)}
<1>1. 0 \in 0..Len(bus') /\ 0 + 1 = 1
  <2>1. Len(bus') \in Nat BY Typed, Popping
  <2> QED BY <2>1
<1>2. Behind(m, 0)' = Behind(m, 1) BY <1>1, PopBehind
<1>3. Behind(m, 0) = Behind(m, 1) \cup {k \in 1..4 : Head(bus) = Payload("ack", m, k)}
  BY PopBehind
<1>4. AcksToCome(m) = Due(m) \cup Behind(m, 0) BY ComeAfter DEF After
<1>5. AcksToCome(m)' = Due(m)' \cup Behind(m, 0)' BY DEF AcksToCome, Due, Behind
<1>6. Due(m)' = Due(m) BY DEF Due
<1> QED BY <1>2, <1>3, <1>4, <1>5, <1>6 DEF After

(* The bus brings a message: the status it was pushed with is the real one *)
(* if no acknowledgement is behind it.                                     *)
LEMMA NewSettles ==
  ASSUME TypeOK, InOrder, Settled, Loading, Existing, Deliver, Head(bus).kind = "new"
  PROVE  Settled' /\ Loading'
<1>1. PICK h : h = Head(bus) OBVIOUS
<1>2. UNCHANGED <<real, acks, request, active, refused, offset, astray>> /\ bus # <<>>
      /\ bus' = Tail(bus)
      /\ shown' = IF ChatOf(h.m) = active /\ ~Compared(h.m)
                  THEN Append(shown, Entry(h.m, h.status, "bus")) ELSE shown
  BY <1>1 DEF Deliver, OnBusNewMessage, Compared
<1>3. h \in Payloads /\ h = bus[1] /\ 1 \in 1..Len(bus) /\ h.m \in Msgs /\ h.status \in 0..4
  BY <1>1, <1>2, PopBehind DEF Payloads
<1>4. ASSUME NEW m PROVE AcksToCome(m)' = After(m, 1) /\ AcksToCome(m) = After(m, 1)
  <2>1. {k \in 1..4 : h = Payload("ack", m, k)} = {} BY <1>1 DEF Payload
  <2> QED BY <1>1, <1>2, <2>1, PopQuiet
<1>5. \A m : Quiet(m)' => Quiet(m) /\ real'[m] = real[m] BY <1>2, <1>4 DEF Quiet
<1>6. CASE ~(ChatOf(h.m) = active /\ ~Compared(h.m)) BY <1>2, <1>5, <1>6, CalmSettles
<1>7. CASE ChatOf(h.m) = active /\ ~Compared(h.m)
  <2>1. PICK e : e = Entry(h.m, h.status, "bus") OBVIOUS
  <2>2. shown' = Append(shown, e) BY <1>2, <1>7, <2>1
  <2>3. e \in Entries /\ e.m = h.m /\ e.status = h.status
    BY <1>3, <2>1, Entered DEF Sources
  <2>4. Quiet(e.m)' => e.status = real[e.m]
    <3> SUFFICES ASSUME Quiet(h.m) PROVE h.status = real[h.m] BY <1>5, <2>3
    <3>1. Ordered(h.m) /\ real[h.m] # 0 /\ h.m \notin astray /\ After(h.m, 1) = {}
      BY <1>3, <1>4 DEF Quiet, InOrder
    <3> QED BY <1>3, <3>1 DEF Ordered
  <2> QED BY <1>2, <1>5, <2>2, <2>3, <2>4, BubbleSettles
<1> QED BY <1>6, <1>7

(* The bus brings an acknowledgement: if none is behind it, it is the last *)
(* that WhatsApp reported.                                                 *)
LEMMA AckSettles ==
  ASSUME TypeOK, InOrder, Settled, Loading, Existing, Deliver, Head(bus).kind = "ack"
  PROVE  Settled' /\ Loading'
<1>1. PICK h : h = Head(bus) OBVIOUS
<1>2. UNCHANGED <<real, acks, request, active, refused, offset>> /\ bus # <<>>
      /\ bus' = Tail(bus)
      /\ astray' = (IF Hashed(h.m) THEN astray ELSE astray \cup {h.m})
      /\ shown' = [i \in 1..Len(shown) |->
                     IF SameHash(shown[i], h.m) /\ \A j \in 1..(i - 1) : ~SameHash(shown[j], h.m)
                     THEN [shown[i] EXCEPT !.status = h.status] ELSE shown[i]]
  BY <1>1 DEF Deliver, OnBusAck, Hashed
<1>3. h \in Payloads /\ h = bus[1] /\ 1 \in 1..Len(bus) /\ h.m \in Msgs /\ h.status \in 0..4
  BY <1>1, <1>2, PopBehind DEF Payloads
<1>4. /\ Len(shown') = Len(shown) /\ Len(shown) \in Nat
      /\ \A i \in 1..Len(shown) :
           /\ shown'[i].m = shown[i].m /\ shown'[i].from = shown[i].from
           /\ shown[i].m # h.m => shown'[i] = shown[i]
           /\ SameHash(shown[i], h.m) /\ (\A j \in 1..(i - 1) : ~SameHash(shown[j], h.m))
                => shown'[i].status = h.status
  <2>1. shown' \in Seq(Entries) BY DeliverEffect DEF Screen
  <2>2. DOMAIN shown' = 1..Len(shown') /\ Len(shown') \in Nat BY <2>1, LenProperties
  <2>3. DOMAIN shown' = 1..Len(shown) /\ Len(shown) \in Nat BY <1>2, Typed
  <2>4. Len(shown') = Len(shown) BY <2>2, <2>3
  <2>5. ASSUME NEW i \in 1..Len(shown)
        PROVE  /\ shown'[i].m = shown[i].m /\ shown'[i].from = shown[i].from
               /\ shown[i].m # h.m => shown'[i] = shown[i]
               /\ SameHash(shown[i], h.m) /\ (\A j \in 1..(i - 1) : ~SameHash(shown[j], h.m))
                    => shown'[i].status = h.status
    <3>1. shown[i] \in Entries BY Typed
    <3>2. shown'[i] = IF SameHash(shown[i], h.m) /\ \A j \in 1..(i - 1) : ~SameHash(shown[j], h.m)
                      THEN [shown[i] EXCEPT !.status = h.status] ELSE shown[i]
      BY <1>2
    <3>3. [shown[i] EXCEPT !.status = h.status].m = shown[i].m
          /\ [shown[i] EXCEPT !.status = h.status].from = shown[i].from
          /\ [shown[i] EXCEPT !.status = h.status].status = h.status
      BY <3>1 DEF Entries
    <3>4. SameHash(shown[i], h.m) => shown[i].m = h.m BY DEF SameHash
    <3> QED BY <3>2, <3>3, <3>4
  <2> QED BY <2>3, <2>4, <2>5
<1>5. ASSUME NEW m
      PROVE  AcksToCome(m)' = After(m, 1)
             /\ AcksToCome(m) = After(m, 1) \cup {k \in 1..4 : h = Payload("ack", m, k)}
  BY <1>1, <1>2, PopQuiet
<1>6. \A m \in Msgs : Hashed(m)' => Hashed(m) BY <1>4 DEF Hashed, SameHash
<1>7. ASSUME NEW m \in Msgs, m # h.m
      PROVE  (Quiet(m)' => Quiet(m)) /\ (Ticked(m) => Ticked(m)')
  <2>1. {k \in 1..4 : h = Payload("ack", m, k)} = {} BY <1>7 DEF Payload
  <2>2. Quiet(m)' => Quiet(m) BY <1>2, <1>5, <2>1 DEF Quiet
  <2>3. Ticked(m) => Ticked(m)'
    <3> SUFFICES ASSUME NEW j \in 1..Len(shown), Ticks(shown[j], m) PROVE Ticked(m)'
      BY DEF Ticked
    <3>1. shown'[j] = shown[j] BY <1>4, <1>7 DEF Ticks, SameHash
    <3>2. Ticks(shown[j], m)' BY <1>2, <3>1 DEF Ticks
    <3> QED BY <1>4, <3>2 DEF Ticked
  <2> QED BY <2>2, <2>3
<1>8. \A m \in Msgs : m = h.m /\ Quiet(m)' => Ticked(m)'
  <2> SUFFICES ASSUME NEW m \in Msgs, m = h.m, Quiet(m)' PROVE Ticked(m)' OBVIOUS
  <2>1. real[m] # 0 /\ m \notin astray' /\ After(m, 1) = {} BY <1>2, <1>5 DEF Quiet
  <2>2. Hashed(m) /\ m \notin astray BY <1>2, <2>1
  <2>3. h.status = real[m] BY <1>3, <2>1, <2>2 DEF InOrder, Ordered
  <2>4. PICK i \in 1..Len(shown) :
          SameHash(shown[i], m) /\ \A j \in 1..(i - 1) : ~SameHash(shown[j], m)
    BY <2>2, FirstBubble
  <2>5. i \in 1..Len(shown') /\ SameHash(shown'[i], m) /\ shown'[i].status = real'[m]
    BY <1>2, <1>4, <2>3, <2>4 DEF SameHash
  <2>6. Ticks(shown[i], m)' BY <2>5 DEF Ticks
  <2> QED BY <2>5, <2>6 DEF Ticked
<1>9. Settled' BY <1>2, <1>6, <1>7, <1>8 DEF Settled
<1>10. Loading'
  <2> SUFFICES ASSUME ~refused, request # None, request.chat = active,
                      NEW i \in 1..Len(request.batch), NEW m \in Msgs,
                      m = request.batch[i].m, Quiet(m)'
               PROVE  request.batch[i].status = PageStatus(real[m]) \/ Ticked(m)'
    BY <1>2 DEF Loading
  <2>1. CASE m = h.m BY <1>8, <2>1
  <2>2. CASE m # h.m BY <1>7, <2>2 DEF Loading
  <2> QED BY <2>1, <2>2
<1> QED BY <1>9, <1>10

LEMMA SentSettles ==
  ASSUME TypeOK, Answered, Existing, Settled, Loading, NEW s \in sends, Sent(s)
  PROVE  Settled' /\ Loading'
<1>1. PICK m : m = s.m OBVIOUS
<1>2. UNCHANGED <<real, acks, bus, request, active, refused, offset>>
      /\ shown' = Append(shown, Entry(m, 1, s.answer))
      /\ astray' = (IF real[m] \in {1} \cup AcksToCome(m) THEN astray ELSE astray \cup {m})
      /\ m # None /\ s.answer # "none"
  BY <1>1 DEF Sent, Answered
<1>3. m \in Msgs BY <1>1, <1>2, Typed
<1>4. PICK e : e = Entry(m, 1, s.answer) OBVIOUS
<1>5. s.answer \in Sources
  <2>1. s \in Sends BY Typed
  <2> QED BY <1>2, <2>1 DEF Sends, Sources
<1>6. e \in Entries /\ e.m = m /\ e.status = 1 BY <1>3, <1>4, <1>5, Entered
<1>7. \A n : Quiet(n)' => Quiet(n) /\ real'[n] = real[n] BY <1>2, CalmQuiet
<1>8. Quiet(m)' => real[m] = 1
  <2> SUFFICES ASSUME Quiet(m)' PROVE real[m] = 1 OBVIOUS
  <2>1. AcksToCome(m) = {} /\ m \notin astray' BY <1>7 DEF Quiet
  <2> QED BY <1>2, <2>1
<1> QED BY <1>2, <1>4, <1>6, <1>7, <1>8, BubbleSettles

LEMMA MessageSettles ==
  ASSUME IInv, Existing, TInv, MessageStep
  PROVE  Settled' /\ Loading'
<1> USE DEF TInv
<1>1. TypeOK /\ Answered BY DEF IInv
<1>2. TypeOK' BY <1>1, MessageEffect
<1> DEFINE Same == UNCHANGED <<shown, request, active, refused, offset>>
           Still == \A m \in Msgs : Known(m) /\ Quiet(m)' => Quiet(m) /\ real'[m] = real[m]
<1>3. Same /\ Still => Settled' /\ Loading' BY <1>1, CalmSettles
<1>4. ASSUME UNCHANGED <<real, acks, bus, astray>> PROVE Still BY <1>4, CalmQuiet
<1>5. ASSUME Send PROVE Same /\ Still BY <1>4, <1>5 DEF Send
<1>6. ASSUME NEW c \in Chats, Arrive(c) PROVE Same /\ Still BY <1>4, <1>6 DEF Arrive
<1>7. ASSUME NEW s \in sends, Store(s) \/ SendFails(s) PROVE Same /\ Still
  BY <1>4, <1>7 DEF Store, SendFails
<1>8. ASSUME NEW s \in sends, Accept(s) PROVE Same /\ Still
  <2>1. PICK n : n = <<s.chat, len[s.chat] + 1>> OBVIOUS
  <2>2. UNCHANGED <<bus, astray>> /\ real' = [real EXCEPT ![n] = 1] /\ Same
        /\ acks' = acks \cup {<<n, 1>>}
    BY <1>8, <2>1 DEF Accept
  <2>3. ~Known(n)
    <3>1. s.chat \in Chats /\ len[s.chat] < MaxLen BY <1>1, <1>8, Typed DEF Accept
    <3>2. len[s.chat] \in 0..MaxLen BY <1>1, <3>1 DEF TypeOK
    <3>3. ~(len[s.chat] + 1 <= len[s.chat]) BY <3>2, Constants
    <3> QED BY <2>1, <3>3 DEF Known, ChatOf
  <2>4. \A m \in Msgs : Known(m) => real'[m] = real[m] BY <1>1, <2>2, <2>3 DEF TypeOK
  <2>5. \A m \in Msgs : Known(m) => AcksToCome(m)' = AcksToCome(m)
    <3> SUFFICES ASSUME NEW m \in Msgs, m # n PROVE AcksToCome(m)' = AcksToCome(m)
      BY <2>3
    <3> QED BY <2>2 DEF AcksToCome
  <2> QED BY <2>2, <2>4, <2>5 DEF Quiet
<1>9. ASSUME NEW m \in Msgs, Progress(m) PROVE Same /\ Still
  <2>1. PICK k \in Reports : /\ real' = [real EXCEPT ![m] = k]
                             /\ acks' = acks \cup {<<m, k>>}
    BY <1>9 DEF Progress
  <2>2. UNCHANGED <<bus, astray>> /\ Same BY <1>9 DEF Progress
  <2>3. k \in AcksToCome(m)' BY <2>1, ChatWindowAssumption DEF AcksToCome
  <2>4. ~Quiet(m)' BY <2>3 DEF Quiet
  <2>5. \A n \in Msgs : n # m => AcksToCome(n)' = AcksToCome(n) /\ real'[n] = real[n]
    BY <1>1, <2>1, <2>2 DEF AcksToCome, TypeOK
  <2> QED BY <2>2, <2>4, <2>5 DEF Quiet
<1>10. ASSUME NEW e \in Payloads, bus' = Append(bus, e)
       PROVE  \A m : AcksToCome(m) = Due(m) \cup Behind(m, 0)
                     /\ AcksToCome(m)' = Due(m)' \cup Behind(m, 0)
                                         \cup {k \in 1..4 : e = Payload("ack", m, k)}
  <2>1. 0 \in 0..Len(bus) BY <1>1, Typed
  <2>2. \A m : Behind(m, 0)' = Behind(m, 0) \cup {k \in 1..4 : e = Payload("ack", m, k)}
    BY <1>1, <1>10, <2>1, PushBehind
  <2>3. \A m : AcksToCome(m)' = Due(m)' \cup Behind(m, 0)' BY DEF AcksToCome, Due, Behind
  <2>4. \A m : AcksToCome(m) = Due(m) \cup Behind(m, 0) BY ComeAfter DEF After
  <2> QED BY <2>2, <2>3, <2>4
<1>11. ASSUME NEW m \in Msgs, Hook(m) PROVE Same /\ Still
  <2> DEFINE e == Payload("new", m, status'[m])
  <2>1. UNCHANGED <<real, acks, astray>> /\ Same /\ bus' = Append(bus, e)
    BY <1>11 DEF Hook
  <2>2. status'[m] \in 1..4
    <3>1. status[m] \in 0..4 BY <1>1 DEF TypeOK
    <3>2. status'[m] = IF status[m] # 0 THEN status[m] ELSE IF real[m] = 0 THEN 2 ELSE 1
      BY <1>1, <1>11 DEF Hook, TypeOK
    <3> QED BY <3>1, <3>2
  <2>3. e \in Payloads /\ \A n : {k \in 1..4 : e = Payload("ack", n, k)} = {}
    BY <2>2 DEF Payload, Payloads
  <2> HIDE DEF e
  <2>4. \A n : Due(n)' = Due(n) BY <2>1 DEF Due
  <2>5. \A n : AcksToCome(n)' = AcksToCome(n) BY <1>10, <2>1, <2>3, <2>4
  <2> QED BY <2>1, <2>5 DEF Quiet
<1>12. ASSUME NEW m \in Msgs, NEW k \in 1..4, AckHook(m, k) PROVE Same /\ Still
  <2> DEFINE e == Payload("ack", m, k)
  <2>1. UNCHANGED real /\ Same /\ bus' = Append(bus, e)
        /\ (acks' = acks \ {<<m, k>>} \/ acks' = acks) /\ astray \subseteq astray'
    BY <1>12 DEF AckHook, Tick
  <2>2. e \in Payloads /\ \A n : {l \in 1..4 : e = Payload("ack", n, l)} = IF n = m THEN {k} ELSE {}
    BY DEF Payload, Payloads
  <2> HIDE DEF e
  <2>3. \A n : Due(n) \subseteq Due(n)' \cup (IF n = m THEN {k} ELSE {}) BY <2>1 DEF Due
  <2>4. \A n : AcksToCome(n) \subseteq AcksToCome(n)'
    <3> SUFFICES ASSUME NEW n PROVE AcksToCome(n) \subseteq AcksToCome(n)' OBVIOUS
    <3>1. {l \in 1..4 : e = Payload("ack", n, l)} = IF n = m THEN {k} ELSE {} BY <2>2
    <3>2. AcksToCome(n) = Due(n) \cup Behind(n, 0)
          /\ AcksToCome(n)' = Due(n)' \cup Behind(n, 0) \cup (IF n = m THEN {k} ELSE {})
      BY <1>10, <2>1, <2>2, <3>1
    <3> QED BY <2>3, <3>2
  <2> QED BY <2>1, <2>4 DEF Quiet
<1>13. ASSUME Deliver PROVE Settled' /\ Loading'
  <2>1. Head(bus).kind \in {"new", "ack"}
    <3>1. Head(bus) \in Payloads BY <1>1, <1>13, Typed, Popping DEF Deliver
    <3> QED BY <3>1 DEF Payloads
  <2> QED BY <1>1, <1>13, <2>1, NewSettles, AckSettles
<1>14. ASSUME NEW s \in sends, Sent(s) PROVE Settled' /\ Loading' BY <1>1, <1>14, SentSettles
<1>15. ASSUME NEW m \in Msgs, HookUnseen(m) \/ Import(m) PROVE Same /\ Still
  BY <1>4, <1>15 DEF HookUnseen, Import
<1> QED BY <1>3, <1>5, <1>6, <1>7, <1>8, <1>9, <1>11, <1>12, <1>13, <1>14, <1>15
        DEF MessageStep

LEMMA TicksInvariant == Spec => []TInv
<1>1. Init => TInv
  <2> SUFFICES ASSUME Init PROVE TInv OBVIOUS
  <2>1. shown = <<>> /\ bus = <<>> /\ request = None /\ acks = {}
        /\ \A m \in Msgs : real[m] = 0
    BY DEF Init
  <2>2. 1..Len(shown) = {} /\ 1..Len(bus) = {} BY <2>1
  <2>3. InOrder BY <2>1 DEF InOrder, Ordered, Due
  <2>4. Settled /\ Loading BY <2>1, <2>2 DEF Settled, Loading, Hashed
  <2> QED BY <2>3, <2>4 DEF TInv
<1>2. (IInv /\ Existing) /\ TInv /\ [Next]_vars => TInv'
  <2> SUFFICES ASSUME IInv, Existing, TInv, [Next]_vars PROVE TInv' OBVIOUS
  <2> DEFINE Window == \/ \E c \in Chats : OpenChat(c)
                       \/ Scroll \/ ReadPage \/ ReadFails \/ Loaded \/ LoadFails
                       \/ UNCHANGED vars
  <2>1. CASE Window BY <2>1, WindowInOrder, WindowSettles DEF TInv
  <2>2. CASE MessageStep BY <2>2, MessageInOrder, MessageSettles DEF TInv
  <2> QED BY <2>1, <2>2 DEF Next, MessageStep
<1> QED BY <1>1, <1>2, Invariant, PTL DEF Spec

-------------------------------------------------------------------------------
(* Theorems.                                                               *)

(* Every variable keeps its type: pages, bubbles and pushes carry messages *)
(* of WhatsApp, however long the bus and the thread grow.                  *)
THEOREM TypeCorrect == Spec => []TypeOK
<1>1. IInv => TypeOK BY DEF IInv
<1> QED BY <1>1, Invariant, PTL

(* An answer or a push never brings a message of another chat on screen    *)
(* (the checks of the active chat in loadMessages and _onBusNewMessage).   *)
THEOREM ChatsAreNotMixed == Spec => []OwnMessagesOnly
<1>1. IInv => OwnMessagesOnly BY DEF IInv
<1> QED BY <1>1, Invariant, PTL

(* What the bus brings twice, or after a bubble that has its id, appears   *)
(* once, whoever stores the row first and whatever the answers say (the    *)
(* comparison in _onBusNewMessage).                                        *)
THEOREM EchoesAreCompared == Spec => []EchoShownOnce
<1>1. IInv => EchoShownOnce BY DEF IInv
<1> QED BY <1>1, Invariant, PTL

(* Paging by an offset from the newest message skips none but those whose  *)
(* row an import stored, or a send that failed after its commit: whatever  *)
(* the size of a page, and however many messages arrive while it loads.    *)
THEOREM PagesLeaveNoGap == Spec => []NoGaps
<1>1. IInv => NoGaps
  <2> SUFFICES ASSUME IInv, ~refused, NEW i \in 1..Len(shown), shown[i].from = "page",
                      NEW n \in (shown[i].m[2] + 1)..len[active]
               PROVE  \/ Shows(<<active, n>>) \/ ToCome(<<active, n>>)
                      \/ <<active, n>> \in silent
    BY DEF NoGaps
  <2>1. Covered(n) BY DEF IInv, Gapless
  <2> QED BY <2>1, ComesOrNever DEF Covered
<1> QED BY <1>1, Invariant, PTL

(* Once no acknowledgement of a message is under way, some bubble that has *)
(* its hash shows what WhatsApp last said of it, unless one was handled    *)
(* out of order or found no bubble: for every size of page, whatever ticks *)
(* are repeated, and whatever answers have no id.                          *)
THEOREM TicksSettled == Spec => []TicksSettle
<1>1. IInv /\ TInv => TicksSettle
  <2> SUFFICES ASSUME IInv, TInv, ~refused, NEW i \in 1..Len(shown),
                      NEW m, m = shown[i].m, shown[i].from # "nameless", Quiet(m)
               PROVE  \E j \in 1..Len(shown) :
                        /\ SameHash(shown[j], m)
                        /\ \/ shown[j].status = real[m]
                           \/ shown[j].from = "page" /\ shown[j].status = PageStatus(real[m])
    BY DEF TicksSettle, Quiet
  <2>1. m \in Msgs BY Typed DEF IInv
  <2>2. Hashed(m) BY DEF Hashed, SameHash
  <2>3. Ticked(m) BY <2>1, <2>2 DEF TInv, Settled
  <2> QED BY <2>3 DEF Ticked, Ticks
<1> QED BY <1>1, Invariant, TicksInvariant, PTL

===============================================================================
