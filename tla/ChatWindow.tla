------------------------------ MODULE ChatWindow ------------------------------
(***************************************************************************)
(* The chat window of one session (waha_chat_action.js), the controllers   *)
(* it calls, and the bus that carries new messages and ticks to it.        *)
(*                                                                         *)
(* A message is its chat and its number in it, as WhatsApp has them.  A    *)
(* function with an await is split there: loads and sends are answered     *)
(* while the user does other things.  The window handles what the bus      *)
(* carries in order; the webhooks that feed the bus run in any order.      *)
(* Pages, webhooks and acknowledgements give a message one id; the answer  *)
(* of a send gives another form of it where the chat is Aliased (@lid and  *)
(* @c.us), and none when the webhook stored the row first.                 *)
(***************************************************************************)
EXTENDS Integers, Sequences, FiniteSets

CONSTANTS
    Chats, None,
    MaxOld, Old,  \* the messages each chat has at first, and a bound on them
    Limit,        \* messages per page
    Aliased,      \* chats of which a send's answer has another form of the id
    Reports,      \* what WhatsApp reports of an own message after 1, of 2, 3 and 4 below
    MaxNew,       \* bound: messages that contacts or the user send
    MaxOpens,     \* bound: chats the user opens
    MaxFaults,    \* bound: calls that fail, acks repeated, imports that come first
    MaxBus        \* bound: pushes under way

ASSUME ChatWindowAssumption ==
    /\ None \notin Chats
    /\ MaxOld \in Nat /\ Old \in [Chats -> 0..MaxOld]
    /\ Limit \in Nat \ {0}
    /\ Aliased \subseteq Chats /\ Reports \subseteq 2..4
    /\ {MaxNew, MaxOpens, MaxFaults, MaxBus} \subseteq Nat

VARIABLES
    len,        \* WhatsApp: the number of messages of each chat
    real,       \* WhatsApp: 1 sent, 2 delivered, 3 read, 4 failed; 0 for another's
    hooks,      \* webhooks of each message still to come
    acks,       \* webhooks of acknowledgements still to come
    status,     \* Odoo: the status of the row that has the webhook's id, 0 for none
    bus,        \* pushed to the browser
    active, shown, offset, hasMore,
    request,    \* the load under way, of which there is at most one
    sends,      \* sends under way
    refused,    \* history: the chat was opened during a load, and not loaded since
    astray,     \* history: messages of which an ack was out of order, or found no bubble
    silent,     \* history: messages whose row an import stored, or a send unanswered
    added, opens, faults

whatsapp == <<len, real, acks>>
thread == <<active, shown, offset, hasMore>>
counters == <<added, opens, faults>>
vars == <<len, real, hooks, acks, status, bus, active, shown, offset, hasMore,
          request, sends, refused, astray, silent, added, opens, faults>>

MaxLen == MaxOld + MaxNew
Msgs == Chats \X (1..MaxLen)
ChatOf(m) == m[1]

Init ==
    /\ len = Old
    /\ real = [m \in Msgs |-> 0]
    /\ hooks = [m \in Msgs |-> 0]
    /\ acks = {}
    /\ status = [m \in Msgs |-> 0]
    /\ bus = <<>>
    /\ active = None /\ shown = <<>> /\ offset = 0 /\ hasMore = TRUE
    /\ request = None /\ sends = {}
    /\ refused = FALSE /\ astray = {} /\ silent = {}
    /\ added = 0 /\ opens = 0 /\ faults = 0

-----------------------------------------------------------------------------
(* Loading messages.                                                       *)

\* loadMessages: refused while one is under way, whichever chat that is for.
Load(c, off, more) ==
    request' = IF request = None /\ more
               THEN [chat |-> c, offset |-> off, read |-> FALSE, batch |-> <<>>]
               ELSE request

\* Mutant: the offset of the chat that was open stays.
OpenChatKeepsOffset(c) ==
    /\ active # c /\ opens < MaxOpens
    /\ active' = c /\ shown' = <<>> /\ hasMore' = TRUE
    /\ Load(c, offset, TRUE)
    /\ refused' = (request # None)
    /\ opens' = opens + 1
    /\ UNCHANGED <<whatsapp, hooks, status, bus, offset, sends, astray, silent, added, faults>>

\* Mutant: the gate that the chat open before closed stays closed.
OpenChatKeepsGate(c) ==
    /\ active # c /\ opens < MaxOpens
    /\ active' = c /\ shown' = <<>> /\ offset' = 0
    /\ Load(c, 0, hasMore)
    /\ refused' = (request # None)
    /\ opens' = opens + 1
    /\ UNCHANGED <<whatsapp, hooks, status, bus, hasMore, sends, astray, silent, added, faults>>

OpenChat(c) ==
    /\ active # c /\ opens < MaxOpens
    /\ active' = c /\ shown' = <<>> /\ offset' = 0 /\ hasMore' = TRUE
    /\ Load(c, 0, TRUE)
    /\ refused' = (request # None)
    /\ opens' = opens + 1
    /\ UNCHANGED <<whatsapp, hooks, status, bus, sends, astray, silent, added, faults>>

\* Older messages load when the user scrolls to the top.
Scroll ==
    /\ active # None /\ request = None /\ hasMore
    /\ Load(active, offset, hasMore)
    /\ refused' = (refused /\ offset # 0)
    /\ UNCHANGED <<whatsapp, hooks, status, bus, thread, sends, astray, silent, counters>>

Entry(m, s, from) == [m |-> m, status |-> s, from |-> from]
Least(a, b) == IF a < b THEN a ELSE b

\* A failed message is 'sent' in a page.
PageStatus(k) == IF k = 4 THEN 1 ELSE k

\* get_live_chat_messages: the page that ends offset messages before the newest.
ReadPage ==
    /\ request # None /\ ~request.read
    /\ LET c    == request.chat
           last == len[c] - request.offset
           size == IF last <= 0 THEN 0 ELSE Least(last, Limit)
       IN  request' = [request EXCEPT !.read = TRUE, !.batch =
                         [i \in 1..size |->
                            LET m == <<c, last - size + i>>
                            IN  Entry(m, PageStatus(real[m]), "page")]]
    /\ UNCHANGED <<whatsapp, hooks, status, bus, thread, sends, refused, astray, silent, counters>>

Fault == faults < MaxFaults /\ faults' = faults + 1

\* WAHA cannot be reached: an answer without messages.
ReadFails ==
    /\ Fault /\ request # None /\ ~request.read
    /\ request' = [request EXCEPT !.read = TRUE]
    /\ UNCHANGED <<whatsapp, hooks, status, bus, thread, sends, refused, astray, silent,
                   added, opens>>

\* Mutant: the answer is shown whichever chat is open by now.
LoadedUnchecked ==
    /\ request # None /\ request.read
    /\ request' = None
    /\ shown' = request.batch \o shown
    /\ offset' = offset + Limit
    /\ hasMore' = (Len(request.batch) = Limit)
    /\ UNCHANGED <<whatsapp, hooks, status, bus, active, sends, refused, astray, silent,
                   counters>>

Loaded ==
    /\ request # None /\ request.read
    /\ request' = None
    /\ IF request.chat = active
       THEN /\ shown' = request.batch \o shown
            /\ offset' = offset + Limit
            /\ hasMore' = (Len(request.batch) = Limit)
       ELSE UNCHANGED <<shown, offset, hasMore>>
    /\ UNCHANGED <<whatsapp, hooks, status, bus, active, sends, refused, astray, silent,
                   counters>>

\* A load that throws closes the gate of whichever chat is open now.
LoadFails ==
    /\ Fault /\ request # None
    /\ request' = None
    /\ hasMore' = FALSE
    /\ UNCHANGED <<whatsapp, hooks, status, bus, active, shown, offset, sends, refused,
                   astray, silent, added, opens>>

-----------------------------------------------------------------------------
(* Sending.                                                                *)

Payload(kind, m, s) == [kind |-> kind, m |-> m, status |-> s]

Send ==
    /\ active # None /\ added < MaxNew
    /\ added' = added + 1
    /\ sends' = sends \cup {[id |-> added, chat |-> active, m |-> None, answer |-> "none"]}
    /\ UNCHANGED <<whatsapp, hooks, status, bus, thread, request, refused, astray, silent,
                   opens, faults>>

\* The call to WAHA: the message exists from now on, and webhooks will say so.
Accept(s) ==
    /\ s \in sends /\ s.m = None /\ len[s.chat] < MaxLen
    /\ LET m == <<s.chat, len[s.chat] + 1>>
       IN  /\ len' = [len EXCEPT ![s.chat] = @ + 1]
           /\ real' = [real EXCEPT ![m] = 1]
           /\ hooks' = [hooks EXCEPT ![m] = 1]
           /\ acks' = acks \cup {<<m, 1>>}
           /\ sends' = (sends \ {s}) \cup {[s EXCEPT !.m = m]}
    /\ UNCHANGED <<status, bus, thread, request, refused, astray, silent, counters>>

\* The row and the answer.  The transaction began before the call to WAHA: it does
\* not see a row that the webhook stored, create() returns none, and the answer has
\* no id.  A row with another form of the id is one more.
Store(s) ==
    /\ s \in sends /\ s.m # None /\ s.answer = "none"
    /\ LET own == s.chat \notin Aliased /\ status[s.m] = 0
       IN  /\ status' = [status EXCEPT ![s.m] = IF own THEN 1 ELSE @]
           /\ sends' = (sends \ {s}) \cup
                {[s EXCEPT !.answer = IF own THEN "send"
                                      ELSE IF s.chat \in Aliased THEN "alias" ELSE "nameless"]}
    /\ UNCHANGED <<whatsapp, hooks, bus, thread, request, refused, astray, silent, counters>>

\* Acknowledgements of m that have not reached the window.
AcksToCome(m) ==
    {k \in 1..4 : <<m, k>> \in acks \/ \E i \in 1..Len(bus) : bus[i] = Payload("ack", m, k)}

\* The bubble goes to the window, whichever chat is open.
Sent(s) ==
    /\ s \in sends /\ s.answer # "none"
    /\ shown' = Append(shown, Entry(s.m, 1, s.answer))
    /\ sends' = sends \ {s}
    /\ astray' = IF real[s.m] \in {1} \cup AcksToCome(s.m) THEN astray
                                                            ELSE astray \cup {s.m}
    /\ UNCHANGED <<whatsapp, hooks, status, bus, active, offset, hasMore, request,
                   refused, silent, counters>>

\* An error, or an answer that never comes, at whatever point.
SendFails(s) ==
    /\ Fault /\ s \in sends
    /\ sends' = sends \ {s}
    /\ silent' = IF s.answer = "send" THEN silent \cup {s.m} ELSE silent
    /\ UNCHANGED <<whatsapp, hooks, status, bus, thread, request, refused, astray,
                   added, opens>>

-----------------------------------------------------------------------------
(* What WhatsApp reports.                                                  *)

\* A contact's message is reported by two webhooks, 'message' and 'message.any'.
Arrive(c) ==
    /\ added < MaxNew /\ len[c] < MaxLen
    /\ added' = added + 1
    /\ len' = [len EXCEPT ![c] = @ + 1]
    /\ hooks' = [hooks EXCEPT ![<<c, len[c] + 1>>] = 2]
    /\ UNCHANGED <<real, acks, status, bus, thread, request, sends, refused, astray,
                   silent, opens, faults>>

\* An own message is delivered, then read, or fails.
Progress(m) ==
    /\ \E k \in Reports :
         /\ real[m] \in 1..(IF k = 4 THEN 1 ELSE k - 1)
         /\ real' = [real EXCEPT ![m] = k]
         /\ acks' = acks \cup {<<m, k>>}
    /\ UNCHANGED <<len, hooks, status, bus, thread, request, sends, refused, astray,
                   silent, counters>>

\* A webhook that stores the message, or sees its row, pushes it: before it knows
\* whether it is the first.
Hook(m) ==
    /\ hooks[m] > 0 /\ Len(bus) < MaxBus
    /\ hooks' = [hooks EXCEPT ![m] = @ - 1]
    /\ status' = [status EXCEPT ![m] = IF @ # 0 THEN @ ELSE IF real[m] = 0 THEN 2 ELSE 1]
    /\ bus' = Append(bus, Payload("new", m, status'[m]))
    /\ UNCHANGED <<whatsapp, thread, request, sends, refused, astray, silent, counters>>

\* One that began before the row was committed gets no record from create(), and
\* pushes nothing.
HookUnseen(m) ==
    /\ hooks[m] > 0 /\ status[m] # 0
    /\ hooks' = [hooks EXCEPT ![m] = @ - 1]
    /\ UNCHANGED <<whatsapp, status, bus, thread, request, sends, refused, astray, silent,
                   counters>>

\* An import stores a message before its webhook, with the status a page would show:
\* it pushes nothing.
Import(m) ==
    /\ Fault /\ hooks[m] > 0 /\ status[m] = 0
    /\ \E k \in 1..3 : /\ k = 1 \/ k <= PageStatus(real[m])
                       /\ status' = [status EXCEPT ![m] = k]
    /\ silent' = silent \cup {m}
    /\ UNCHANGED <<whatsapp, hooks, bus, thread, request, sends, refused, astray, added, opens>>

\* The status is written if it advances, or to or from 'failed', and pushed in any
\* case.  WAHA may repeat the acknowledgement.
Advanced(s, k) == IF s # 0 /\ (k > s \/ s = 4) THEN k ELSE s
Tick(m, k, s) ==
    /\ <<m, k>> \in acks /\ Len(bus) < MaxBus
    /\ \/ acks' = acks \ {<<m, k>>} /\ UNCHANGED faults
       \/ acks' = acks /\ Fault
    /\ status' = [status EXCEPT ![m] = Advanced(@, k)]
    /\ bus' = Append(bus, Payload("ack", m, s))
    /\ astray' = IF status[m] \in 1..k THEN astray ELSE astray \cup {m}
    /\ UNCHANGED <<len, real, hooks, thread, request, sends, refused, silent, added, opens>>

\* Mutant: the status that is pushed was read before it is written.
AckHookStale(m, k) == Tick(m, k, status[m])

AckHook(m, k) == Tick(m, k, k)

-----------------------------------------------------------------------------
(* What the bus brings.                                                    *)

\* A bubble from a page, the bus or an answer has the id that is pushed, and one
\* from an answer with an alias has its hash.
SameId(e, m) == e.m = m /\ e.from \notin {"alias", "nameless"}
SameHash(e, m) == e.m = m /\ e.from # "nameless"

\* Mutant: what is on screen is not compared with what is pushed.
OnBusNewMessageTwice(m, s) ==
    /\ shown' = IF ChatOf(m) = active THEN Append(shown, Entry(m, s, "bus")) ELSE shown
    /\ UNCHANGED astray

OnBusNewMessage(m, s) ==
    /\ shown' = IF ChatOf(m) = active /\ ~\E i \in 1..Len(shown) : SameId(shown[i], m)
                THEN Append(shown, Entry(m, s, "bus")) ELSE shown
    /\ UNCHANGED astray

\* The first bubble of the message gets the status that was pushed.
OnBusAck(m, k) ==
    /\ shown' = [i \in 1..Len(shown) |->
                   IF SameHash(shown[i], m) /\ \A h \in 1..(i - 1) : ~SameHash(shown[h], m)
                   THEN [shown[i] EXCEPT !.status = k] ELSE shown[i]]
    /\ astray' = IF \E i \in 1..Len(shown) : SameHash(shown[i], m) THEN astray
                                                                   ELSE astray \cup {m}

Deliver ==
    /\ bus # <<>>
    /\ bus' = Tail(bus)
    /\ IF Head(bus).kind = "new" THEN OnBusNewMessage(Head(bus).m, Head(bus).status)
                                 ELSE OnBusAck(Head(bus).m, Head(bus).status)
    /\ UNCHANGED <<whatsapp, hooks, status, active, offset, hasMore, request, sends,
                   refused, silent, counters>>

-----------------------------------------------------------------------------
Next ==
    \/ Scroll \/ ReadPage \/ ReadFails \/ Loaded \/ LoadFails \/ Send \/ Deliver
    \/ \E c \in Chats : OpenChat(c) \/ Arrive(c)
    \/ \E s \in sends : Accept(s) \/ Store(s) \/ Sent(s) \/ SendFails(s)
    \/ \E m \in Msgs : \/ Progress(m) \/ Hook(m) \/ HookUnseen(m) \/ Import(m)
                       \/ \E k \in 1..4 : AckHook(m, k)

Spec == Init /\ [][Next]_vars

\* Requests are answered or fail, by their timeouts if by nothing else.
FairSpec == Spec /\ WF_vars(ReadPage) /\ WF_vars(Loaded)

-----------------------------------------------------------------------------
(* Properties.                                                             *)

Entries == [m : Msgs, status : 0..4, from : {"page", "bus", "send", "alias", "nameless"}]
TypeOK ==
    /\ len \in [Chats -> 0..MaxLen] /\ real \in [Msgs -> 0..4] /\ status \in [Msgs -> 0..4]
    /\ hooks \in [Msgs -> 0..2] /\ acks \subseteq Msgs \X (1..4)
    /\ bus \in Seq([kind : {"new", "ack"}, m : Msgs, status : 1..4])
    /\ active \in Chats \cup {None} /\ shown \in Seq(Entries)
    /\ offset \in Nat /\ hasMore \in BOOLEAN
    /\ request = None \/ request \in [chat : Chats, offset : Nat, read : BOOLEAN, batch : Seq(Entries)]
    /\ sends \subseteq [id : Nat, chat : Chats, m : Msgs \cup {None},
                        answer : {"none", "send", "alias", "nameless"}]
    /\ refused \in BOOLEAN /\ astray \subseteq Msgs /\ silent \subseteq Msgs
    /\ {added, opens, faults} \subseteq Nat

\* "user switched chats mid-flight": whatever is loaded or pushed while the user
\* goes from chat to chat, only messages of the open chat are on screen - but for
\* the bubble of a send, which appears in the chat that is open when it is answered.
OwnMessagesOnly ==
    \A i \in 1..Len(shown) :
      shown[i].from \in {"page", "bus"} => ChatOf(shown[i].m) = active

\* However new messages shift the pages, and whoever stores them first, whatever is
\* newer than a message that was loaded is on screen too, or still to be pushed or
\* answered - unless an import stored it or its send failed after its row was
\* committed, or the chat was opened during the load of another and its own refused.
Shows(m) == \E i \in 1..Len(shown) : shown[i].m = m
ToCome(m) ==
    \/ hooks[m] > 0
    \/ \E i \in 1..Len(bus) : bus[i].m = m /\ bus[i].kind = "new"
    \/ \E s \in sends : s.m = m
NoGaps ==
    ~refused =>
      \A i \in 1..Len(shown) : shown[i].from = "page" =>
        \A n \in (shown[i].m[2] + 1)..len[active] :
          LET m == <<active, n>> IN Shows(m) \/ ToCome(m) \/ m \in silent

\* "Avoid duplicating an optimistic outgoing echo": what is pushed twice, or pushed
\* after a bubble that has its id, appears once.  (A page, a bubble after its echo,
\* and one whose answer had no id or another form of it, are not compared.)
EchoShownOnce ==
    \A i, j \in 1..Len(shown) :
      i < j /\ shown[i].from \in {"bus", "send"} /\ shown[j].from = "bus"
        => shown[i].m # shown[j].m

\* "bus will reconcile ack/status": when no acknowledgement of it is under way, some
\* bubble that has the hash of a message shows what WhatsApp last said of it - a page,
\* what it calls that - unless one was handled out of order or before there was a row,
\* or came when no such bubble was on screen, or the chat was refused its load.
TicksSettle ==
    ~refused => \A i \in 1..Len(shown) :
      LET m == shown[i].m
      IN  /\ shown[i].from # "nameless"
          /\ real[m] # 0 /\ m \notin astray /\ AcksToCome(m) = {}
          => \E j \in 1..Len(shown) :
               /\ SameHash(shown[j], m)
               /\ \/ shown[j].status = real[m]
                  \/ shown[j].from = "page" /\ shown[j].status = PageStatus(real[m])

\* A chat that is opened while nothing loads gets its first page, if no call fails.
FirstPage ==
    \A c \in Chats :
      active = c /\ ~refused ~> (offset > 0 \/ active # c \/ refused \/ faults > 0)
=============================================================================
