------------------------------ MODULE Inbound ------------------------------
(***************************************************************************)
(* The inbound side of waha_whatsapp_suite: webhook requests (WAHA fires   *)
(* 'message' and 'message.any' for one message, on several workers at      *)
(* once), history imports of the same messages, and users working on the   *)
(* conversations.  A webhook request is one transaction at REPEATABLE      *)
(* READ, and so is the import of one chat: its snapshot is taken at its    *)
(* first query, long before it stores anything (contact, picture, media    *)
(* and history are fetched from WAHA in between), and writing a row that   *)
(* another transaction changed since is an error.  What a transaction      *)
(* locks it keeps until its end; transactions that wait for one another in *)
(* a circle are found by PostgreSQL, which aborts one of them.             *)
(***************************************************************************)
EXTENDS Naturals, FiniteSets

CONSTANTS
  LastMsg,    \* the newest message
  Incoming,   \* the messages that are not our own (fromMe = false)
  Chats,      \* chats of the session
  ChatOf,     \* the chat of a message
  Requests,   \* webhook requests
  Imports,    \* history imports, each of one chat
  None,       \* no lock holder
  MaxTries,   \* attempts Odoo gives a request that meets a conflict (5)
  MaxUser     \* bound: user operations on conversations

(* The messages, numbered by age: WAHA lists the newest first. *)
Msgs == 1 .. LastMsg

ASSUME InboundAssumption ==
  /\ LastMsg \in Nat
  /\ Incoming \subseteq Msgs
  /\ ChatOf \in [Msgs -> Chats]
  /\ Requests \cap Imports = {}
  /\ None \notin Requests \cup Imports
  /\ MaxTries \in Nat \ {0}
  /\ MaxUser \in Nat

VARIABLES
  row,         \* committed waha_whatsapp_message row, by waha_message_id
  jobs,        \* committed auto-reply jobs of the message
  thread,      \* committed waha_whatsapp_chat_thread row of the chat
  keyLock,     \* holder of pg_advisory_xact_lock(hashtext(waha_message_id))
  threadLock,  \* holder of the row lock (or of the key being inserted)
  req,         \* the webhook requests
  imp,         \* the imports
  missed,      \* transactions whose snapshot of the thread row is out of date
  userOps      \* counter of the bound

vars == <<row, jobs, thread, keyLock, threadLock, req, imp, missed, userOps>>

Stages == {"open", "pending", "resolved"}
Row    == [there : BOOLEAN, handled : BOOLEAN]
Thread == [there : BOOLEAN, unread : Nat, stage : Stages]
Open   == {"open", "locked", "stored", "claimed", "touched", "flushed"}
Pcs    == {"new"} \cup Open \cup {"ok", "error"}

NoRow    == [there |-> FALSE, handled |-> FALSE]
NoThread == [there |-> FALSE, unread |-> 0, stage |-> "open"]

Request == [pc : Pcs, msg : Msgs, row : Row, thread : Thread, tries : 0 .. MaxTries]

(* todo: the messages the import has still to store.  stored: those it     *)
(* inserted.  knows: its snapshot has the conversation.  link: it is to    *)
(* write the chat's contact on that conversation, and has not yet.         *)
ImportOpen == {"open", "messages", "locked"}
Import     == [pc : {"new"} \cup ImportOpen \cup {"ok", "error"}, chat : Chats,
               todo : SUBSET Msgs, stored : SUBSET Msgs,
               knows : BOOLEAN, link : BOOLEAN]

Procs == Requests \cup Imports

TypeOK ==
  /\ row \in [Msgs -> Row]
  /\ jobs \in [Msgs -> Nat]
  /\ thread \in [Chats -> Thread]
  /\ keyLock \in [Msgs -> Procs \cup {None}]
  /\ threadLock \in [Chats -> Procs \cup {None}]
  /\ req \in [Requests -> Request]
  /\ imp \in [Imports -> Import]
  /\ missed \subseteq Procs
  /\ userOps \in 0 .. MaxUser

Init ==
  /\ row = [m \in Msgs |-> NoRow]
  /\ jobs = [m \in Msgs |-> 0]
  /\ thread \in [Chats -> {NoThread, [NoThread EXCEPT !.there = TRUE]}]
  /\ keyLock = [m \in Msgs |-> None]
  /\ threadLock = [c \in Chats |-> None]
  /\ req \in [Requests -> [pc : {"new"}, msg : Msgs, row : {NoRow},
                           thread : {NoThread}, tries : {0}]]
  /\ imp \in [Imports -> [pc : {"new"}, chat : Chats, todo : {{}}, stored : {{}},
                          knows : {FALSE}, link : {FALSE}]]
  /\ missed = {}
  /\ userOps = 0

-----------------------------------------------------------------------------
Msg(r)  == req[r].msg
Chat(r) == ChatOf[Msg(r)]
Goto(r, pc) == req' = [req EXCEPT ![r].pc = pc]
At(r, pc) == req[r].pc = pc

InOpen(p) == IF p \in Requests THEN req[p].pc \in Open ELSE imp[p].pc \in ImportOpen

(* Open transactions that read the thread row of c. *)
Readers(c) ==
  {p \in Procs : InOpen(p) /\ (IF p \in Requests THEN Chat(p) ELSE imp[p].chat) = c}

(* Mutant: session-level advisory locks, which outlive the transaction. *)
ReleaseRows(p) ==
  /\ keyLock' = keyLock
  /\ threadLock' =
       [c \in Chats |-> IF threadLock[c] = p THEN None ELSE threadLock[c]]

(* The end of p's transaction releases what it locked. *)
Release(p) ==
  /\ keyLock' = [m \in Msgs |-> IF keyLock[m] = p THEN None ELSE keyLock[m]]
  /\ threadLock' =
       [c \in Chats |-> IF threadLock[c] = p THEN None ELSE threadLock[c]]

(* r's transaction ends without having written anything. *)
EndWith(r, pc) ==
  /\ Goto(r, pc)
  /\ Release(r)
  /\ UNCHANGED <<row, jobs, thread, imp, missed, userOps>>

-----------------------------------------------------------------------------
(* Who waits for whom: a message's advisory lock, or the row (or the key   *)
(* being inserted) of a conversation.                                      *)

(* _import_history_message goes through the messages newest first. *)
IsNext(i, m) == m \in imp[i].todo /\ \A n \in imp[i].todo : n <= m

AwaitsKey(p, m) ==
  IF p \in Requests THEN At(p, "open") /\ Msg(p) = m
                    ELSE imp[p].pc = "messages" /\ IsNext(p, m)

(* An import writes the contact on the conversation when it next inserts a *)
(* message (the savepoint flushes), or at its end.                         *)
Links(i) ==
  imp[i].link /\ (imp[i].pc = "locked" \/ (imp[i].pc = "messages" /\ imp[i].todo = {}))

AwaitsThread(p, c) ==
  IF p \in Requests
  THEN Chat(p) = c /\ (At(p, "touched") \/ (At(p, "claimed") /\ ~req[p].thread.there))
  ELSE imp[p].chat = c /\ (Links(p) \/ (imp[p].pc = "open" /\ ~imp[p].knows))

WaitsFor(p, q) ==
  /\ q \in Procs \ {p}
  /\ \/ \E m \in Msgs : AwaitsKey(p, m) /\ keyLock[m] = q
     \/ \E c \in Chats : AwaitsThread(p, c) /\ threadLock[c] = q

(* PostgreSQL's deadlock detector. *)
Circle(S) ==
  /\ S # {}
  /\ \A p \in S : \E q \in S : WaitsFor(p, q)
  /\ \A q \in S : \E p \in S : WaitsFor(p, q)

Deadlocked(p) == \E S \in SUBSET Procs : p \in S /\ Circle(S)

-----------------------------------------------------------------------------
(* Session lookup: the first query of the transaction, its snapshot.  Also *)
(* the second and later attempts of a request that met a conflict.         *)
Begin(r) ==
  /\ req' = [req EXCEPT ![r].pc = "open", ![r].row = row[Msg(r)],
                        ![r].thread = thread[Chat(r)], ![r].tries = @ + 1]
  /\ missed' = missed \ {r}

Receive(r) ==
  /\ At(r, "new")
  /\ Begin(r)
  /\ UNCHANGED <<row, jobs, thread, keyLock, threadLock, imp, userOps>>

(* create(): duplicates of one message queue on the advisory lock. *)
TakeKeyLock(r) ==
  /\ At(r, "open")
  /\ keyLock[Msg(r)] = None
  /\ keyLock' = [keyLock EXCEPT ![Msg(r)] = r]
  /\ Goto(r, "locked")
  /\ UNCHANGED <<row, jobs, thread, threadLock, imp, missed, userOps>>

(* Mutant: the row is committed at once, before its side effects. *)
StoreCommits(r) ==
  /\ At(r, "locked")
  /\ req[r].row.there \/ ~row[Msg(r)].there
  /\ row' = [row EXCEPT ![Msg(r)].there = TRUE]
  /\ Goto(r, "stored")
  /\ UNCHANGED <<jobs, thread, keyLock, threadLock, imp, missed, userOps>>

(* create() finds the row in its snapshot, or inserts it. *)
Store(r) ==
  /\ At(r, "locked")
  /\ req[r].row.there \/ ~row[Msg(r)].there
  /\ Goto(r, "stored")
  /\ UNCHANGED <<row, jobs, thread, keyLock, threadLock, imp, missed, userOps>>

(* The row was committed after the snapshot: INSERT ... ON CONFLICT fails  *)
(* and is swallowed, the search does not see the row, and create() returns *)
(* an empty record.  The webhook does nothing more and answers success.    *)
StoreUnseen(r) ==
  /\ At(r, "locked")
  /\ ~req[r].row.there /\ row[Msg(r)].there
  /\ EndWith(r, "ok")

-----------------------------------------------------------------------------
(* _claim_inbound_processing: an UPDATE on the row just stored or found.   *)

(* Mutant: side effects run without the claim. *)
ClaimUnguarded(r) ==
  /\ At(r, "stored")
  /\ Goto(r, "claimed")
  /\ UNCHANGED <<row, jobs, thread, keyLock, threadLock, imp, missed, userOps>>

ClaimWon(r) ==
  /\ At(r, "stored")
  /\ ~req[r].row.handled
  /\ req[r].row.there => ~row[Msg(r)].handled
  /\ Goto(r, "claimed")
  /\ UNCHANGED <<row, jobs, thread, keyLock, threadLock, imp, missed, userOps>>

ClaimLost(r) ==
  /\ At(r, "stored")
  /\ req[r].row.handled
  /\ EndWith(r, "ok")

(* Claimed by a transaction committed after the snapshot: the error is     *)
(* swallowed, but the transaction is dead and the request fails when the   *)
(* pending notifications are flushed.                                      *)
ClaimConflict(r) ==
  /\ At(r, "stored")
  /\ req[r].row.there /\ ~req[r].row.handled /\ row[Msg(r)].handled
  /\ EndWith(r, "error")

-----------------------------------------------------------------------------
(* _touch_from_message, then needs_autoreply and the queue job.            *)

(* The conversation is in the snapshot: the update stays in the ORM cache. *)
TouchKnown(r) ==
  /\ At(r, "claimed") /\ req[r].thread.there
  /\ Goto(r, "touched")
  /\ UNCHANGED <<row, jobs, thread, keyLock, threadLock, imp, missed, userOps>>

(* It is not: INSERT, which waits for an insert of the same key.           *)
TouchNew(r) ==
  /\ At(r, "claimed") /\ ~req[r].thread.there
  /\ threadLock[Chat(r)] = None /\ ~thread[Chat(r)].there
  /\ threadLock' = [threadLock EXCEPT ![Chat(r)] = r]
  /\ Goto(r, "touched")
  /\ UNCHANGED <<row, jobs, thread, keyLock, imp, missed, userOps>>

(* Another transaction created it meanwhile, or waits for r itself: unique *)
(* violation or deadlock.  It is logged, the transaction is dead, delaying *)
(* the job fails too (logged), and the final flush of needs_autoreply      *)
(* fails the request: nothing is stored.                                   *)
TouchRaced(r) ==
  /\ At(r, "claimed") /\ ~req[r].thread.there
  /\ \/ threadLock[Chat(r)] = None /\ thread[Chat(r)].there
     \/ Deadlocked(r)
  /\ EndWith(r, "error")

(* Mutant: READ COMMITTED, where the update does not fail on a row that    *)
(* changed after it was read.                                              *)
FlushBlind(r) ==
  /\ At(r, "touched")
  /\ threadLock[Chat(r)] \in {None, r}
  /\ threadLock' = [threadLock EXCEPT ![Chat(r)] = r]
  /\ Goto(r, "flushed")
  /\ UNCHANGED <<row, jobs, thread, keyLock, imp, missed, userOps>>

(* The request's final flush updates the thread row. *)
Flush(r) ==
  /\ At(r, "touched")
  /\ threadLock[Chat(r)] \in {None, r}
  /\ r \notin missed
  /\ threadLock' = [threadLock EXCEPT ![Chat(r)] = r]
  /\ Goto(r, "flushed")
  /\ UNCHANGED <<row, jobs, thread, keyLock, imp, missed, userOps>>

FlushConflict(r) ==
  /\ At(r, "touched")
  /\ \/ threadLock[Chat(r)] = None /\ r \in missed
     \/ Deadlocked(r)

(* Serialization failure or deadlock: Odoo rolls back and runs the request *)
(* again...                                                                *)
Retry(r) ==
  /\ FlushConflict(r) /\ req[r].tries < MaxTries
  /\ Begin(r)
  /\ Release(r)
  /\ UNCHANGED <<row, jobs, thread, imp, userOps>>

(* ... until its attempts are used up. *)
GiveUp(r) ==
  /\ FlushConflict(r) /\ req[r].tries = MaxTries
  /\ EndWith(r, "error")

(* What r writes: columns computed from the values of its snapshot.  The   *)
(* stage is one of them only when it reads a resolved conversation.        *)
Touched(r) ==
  LET was == req[r].thread
      now == [thread[Chat(r)] EXCEPT !.there = TRUE]
  IN  IF Msg(r) \in Incoming
      THEN [now EXCEPT !.unread = was.unread + 1,
                       !.stage = IF was.stage = "resolved" THEN "open" ELSE @]
      ELSE now

CommitWebhook(r) ==
  /\ At(r, "flushed")
  /\ row' = [row EXCEPT ![Msg(r)] = [there |-> TRUE, handled |-> TRUE]]
  /\ jobs' = [jobs EXCEPT ![Msg(r)] = IF Msg(r) \in Incoming THEN @ + 1 ELSE @]
  /\ thread' = [thread EXCEPT ![Chat(r)] = Touched(r)]
  /\ missed' = missed \cup Readers(Chat(r))
  /\ Goto(r, "ok")
  /\ Release(r)
  /\ UNCHANGED <<imp, userOps>>

(* The worker running r dies: its transaction is rolled back.              *)
Crash(r) ==
  /\ req[r].pc \in Open
  /\ EndWith(r, "error")

-----------------------------------------------------------------------------
(* _sync_chat_messages: the import of one chat, up to the commit the       *)
(* caller makes after each chat.                                           *)

ImportEnds(i, pc) ==
  /\ imp' = [imp EXCEPT ![i].pc = pc, ![i].todo = {}]
  /\ Release(i)

(* An error: whoever imports drops the transaction with all it stored.     *)
ImportAborts(i) ==
  /\ ImportEnds(i, "error")
  /\ UNCHANGED <<row, jobs, thread, req, missed, userOps>>

(* The snapshot.  WAHA lists any part of the chat (none of it when the     *)
(* fetch fails); the messages the snapshot has are counted and skipped.    *)
ImportBegins(i) ==
  /\ imp[i].pc = "new"
  /\ \E S \in SUBSET {m \in Msgs : ChatOf[m] = imp[i].chat /\ ~row[m].there} :
       imp' = [imp EXCEPT ![i].pc = "open", ![i].todo = S,
                          ![i].knows = thread[imp[i].chat].there]
  /\ UNCHANGED <<row, jobs, thread, keyLock, threadLock, req, missed, userOps>>

(* _get_or_create, first of all: the conversation is in the snapshot, and  *)
(* the chat's contact may still have to be written on it...                *)
ImportFinds(i) ==
  /\ imp[i].pc = "open" /\ imp[i].knows
  /\ \E l \in BOOLEAN : imp' = [imp EXCEPT ![i].pc = "messages", ![i].link = l]
  /\ UNCHANGED <<row, jobs, thread, keyLock, threadLock, req, missed, userOps>>

(* ... or it is inserted, which waits for an insert of the same key...     *)
ImportCreates(i) ==
  /\ imp[i].pc = "open" /\ ~imp[i].knows
  /\ threadLock[imp[i].chat] = None /\ ~thread[imp[i].chat].there
  /\ threadLock' = [threadLock EXCEPT ![imp[i].chat] = i]
  /\ imp' = [imp EXCEPT ![i].pc = "messages"]
  /\ UNCHANGED <<row, jobs, thread, keyLock, req, missed, userOps>>

(* ... and fails when another transaction has committed one.               *)
ImportRaced(i) ==
  /\ imp[i].pc = "open" /\ ~imp[i].knows
  /\ threadLock[imp[i].chat] = None /\ thread[imp[i].chat].there
  /\ ImportAborts(i)

(* create(), message after message: each advisory lock is kept. *)
ImportLocks(i, m) ==
  /\ AwaitsKey(i, m) /\ keyLock[m] = None
  /\ keyLock' = [keyLock EXCEPT ![m] = i]
  /\ imp' = [imp EXCEPT ![i].pc = "locked"]
  /\ UNCHANGED <<row, jobs, thread, threadLock, req, missed, userOps>>

(* The contact's write goes out, unless the row changed since. *)
LinkWritten(i) ==
  IF Links(i)
  THEN /\ threadLock[imp[i].chat] = None /\ i \notin missed
       /\ threadLock' = [threadLock EXCEPT ![imp[i].chat] = i]
  ELSE UNCHANGED threadLock

(* The message is inserted, or skipped when a row was committed after the  *)
(* snapshot: the insert fails, is swallowed, and create() returns nothing. *)
ImportStores(i, m) ==
  /\ imp[i].pc = "locked" /\ IsNext(i, m)
  /\ LinkWritten(i)
  /\ imp' = [imp EXCEPT ![i].pc = "messages", ![i].link = FALSE, ![i].todo = @ \ {m},
                        ![i].stored = IF row[m].there THEN @ ELSE @ \cup {m}]
  /\ UNCHANGED <<row, jobs, thread, keyLock, req, missed, userOps>>

(* The contact cannot be written: the transaction is dead.                 *)
ImportConflict(i) ==
  /\ Links(i) /\ threadLock[imp[i].chat] = None /\ i \in missed
  /\ ImportAborts(i)

ImportDeadlock(i) ==
  /\ Deadlocked(i)
  /\ ImportAborts(i)

(* One commit for the conversation and all the messages of the chat. *)
CommitImport(i) ==
  LET c == imp[i].chat IN
  /\ imp[i].pc = "messages" /\ imp[i].todo = {}
  /\ imp[i].link => threadLock[c] = None /\ i \notin missed
  /\ row' = [m \in Msgs |-> IF m \in imp[i].stored
                            THEN [there |-> TRUE, handled |-> FALSE] ELSE row[m]]
  /\ thread' = [thread EXCEPT ![c].there = TRUE]
  /\ missed' = IF imp[i].link \/ threadLock[c] = i THEN missed \cup Readers(c) ELSE missed
  /\ ImportEnds(i, "ok")
  /\ UNCHANGED <<jobs, req, userOps>>

ImportCrash(i) ==
  /\ imp[i].pc \in ImportOpen
  /\ ImportAborts(i)

-----------------------------------------------------------------------------
(* Users.  Their requests are short: one atomic step, which waits for the  *)
(* row lock.                                                               *)
UserWrites(c, values) ==
  /\ userOps < MaxUser
  /\ thread[c].there /\ threadLock[c] = None
  /\ thread' = [thread EXCEPT ![c] = values]
  /\ missed' = missed \cup Readers(c)
  /\ userOps' = userOps + 1
  /\ UNCHANGED <<row, jobs, keyLock, threadLock, req, imp>>

(* Mutant: opening a conversation marks one message read, not all. *)
OpenOne(c)      == UserWrites(c, [thread[c] EXCEPT !.unread = @ - 1])
OpenChat(c)     == UserWrites(c, [thread[c] EXCEPT !.unread = 0])
AssignToMe(c)   == UserWrites(c, thread[c])
MarkResolved(c) == UserWrites(c, [thread[c] EXCEPT !.stage = "resolved"])
MarkOpen(c)     == UserWrites(c, [thread[c] EXCEPT !.stage = "open", !.unread = 0])

-----------------------------------------------------------------------------
Serve(r) ==
  \/ TakeKeyLock(r) \/ Store(r) \/ StoreUnseen(r)
  \/ ClaimWon(r) \/ ClaimLost(r) \/ ClaimConflict(r)
  \/ TouchKnown(r) \/ TouchNew(r) \/ TouchRaced(r)
  \/ Flush(r) \/ Retry(r) \/ GiveUp(r) \/ CommitWebhook(r)

DoImport(i) ==
  \/ ImportFinds(i) \/ ImportCreates(i) \/ ImportRaced(i)
  \/ \E m \in Msgs : ImportLocks(i, m) \/ ImportStores(i, m)
  \/ ImportConflict(i) \/ ImportDeadlock(i) \/ CommitImport(i)

Next ==
  \/ \E r \in Requests : Receive(r) \/ Serve(r) \/ Crash(r)
  \/ \E i \in Imports : ImportBegins(i) \/ DoImport(i) \/ ImportCrash(i)
  \/ \E c \in Chats : OpenChat(c) \/ AssignToMe(c) \/ MarkResolved(c) \/ MarkOpen(c)

Spec == Init /\ [][Next]_vars

-----------------------------------------------------------------------------
(* Properties.                                                             *)

(* webhook_controller: "Post-create side-effects run exactly once (WAHA    *)
(* fires 'message' and 'message.any' for the same message)".  Whatever the *)
(* overlap of the requests of one message, of the requests of one chat,    *)
(* imports and users, the committed rows move as Inbox allows: no unread   *)
(* message is counted twice or lost by a concurrent write.                 *)
InboxView == INSTANCE Inbox WITH
  state  <- [m \in Msgs |-> IF row[m].handled THEN "handled"
                            ELSE IF row[m].there THEN "stored" ELSE "absent"],
  known  <- {c \in Chats : thread[c].there},
  unread <- [c \in Chats |-> thread[c].unread]

ImplementsInbox == InboxView!Spec

(* _touch_from_message reopens a resolved conversation.  It decides from   *)
(* its snapshot, yet a new unread message never leaves the conversation    *)
(* resolved, even when a user resolves it while the webhook is running.    *)
UnreadReopens ==
  [][\A c \in Chats : thread'[c].unread > thread[c].unread
                        => thread'[c].stage # "resolved"]_vars

(* Dispatch answers {'status': 'success'}: the message of a webhook that   *)
(* was answered so has been handled, by this request or another.           *)
SuccessMeansHandled == \A r \in Requests : At(r, "ok") => row[Msg(r)].handled

(* The same while history is imported: only a message that an import has   *)
(* stored meanwhile can be answered so and not be handled.                 *)
Imported(m) == \E i \in Imports : imp[i].pc = "ok" /\ m \in imp[i].stored

SuccessUnlessImported ==
  \A r \in Requests : At(r, "ok") => row[Msg(r)].handled \/ Imported(Msg(r))

(* Webhooks take the lock of their message before the conversation's row;  *)
(* an import has the row first when it inserts or links the conversation.  *)
(* In every circle there is such an import, waiting for a message, and a   *)
(* transaction that has a message of the same chat and waits for the       *)
(* import: webhooks alone never deadlock, nor do imports that leave the    *)
(* conversation as it is, however many messages they have.                 *)
CircleNeedsAnImport ==
  \A S \in SUBSET Procs : Circle(S) =>
    \E i \in S \cap Imports, p \in S :
      /\ threadLock[imp[i].chat] = i /\ imp[i].pc = "messages"
      /\ AwaitsThread(p, imp[i].chat)
      /\ \E m \in Msgs : ChatOf[m] = imp[i].chat /\ keyLock[m] = p

(* What p needs for its next step is there. *)
Ready(p) ==
  IF p \in Requests
  THEN \/ At(p, "open") /\ keyLock[Msg(p)] = None
       \/ req[p].pc \in {"locked", "stored", "flushed"}
       \/ At(p, "claimed") /\ (req[p].thread.there \/ threadLock[Chat(p)] = None)
       \/ /\ At(p, "touched")
          /\ threadLock[Chat(p)] \in (IF p \in missed THEN {None} ELSE {None, p})
  ELSE LET free == threadLock[imp[p].chat] = None IN
       \/ imp[p].pc = "open" /\ (imp[p].knows \/ free)
       \/ imp[p].pc = "messages" /\ imp[p].todo = {} /\ (~imp[p].link \/ free)
       \/ imp[p].pc = "locked" /\ (~imp[p].link \/ free)
       \/ \E m \in Msgs : AwaitsKey(p, m) /\ keyLock[m] = None

(* An open transaction can go on or waits for one that is open too: none   *)
(* leaves a lock behind, and none is held up by its own.                   *)
OpenGoesOn ==
  /\ \A p \in Procs : InOpen(p) => Ready(p) \/ \E q \in Procs : WaitsFor(p, q)
  /\ \A p, q \in Procs : WaitsFor(p, q) => InOpen(q)

(* The advisory locks of the messages, the unique key of the conversation  *)
(* and its row lock never leave a request unanswered: an open transaction  *)
(* can go on, or waits for an open one; and what PostgreSQL has to break   *)
(* are only the circles through an import described above.                 *)
Step(p) == IF p \in Requests THEN Serve(p) ELSE DoImport(p)

NobodyStuck ==
  /\ OpenGoesOn
  /\ CircleNeedsAnImport
  /\ \A p \in Procs : (Ready(p) \/ Deadlocked(p)) <=> ENABLED Step(p)
=============================================================================
