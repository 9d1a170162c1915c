---------------------------- MODULE InboundProofs ----------------------------
(***************************************************************************)
(* Proofs about Inbound, for every set of messages, chats and requests,    *)
(* any number of attempts and of users' operations.                        *)
(***************************************************************************)
EXTENDS Inbound, WellFoundedInduction, TLAPS

Locked == {"locked", "stored", "claimed", "touched", "flushed"}

(* r has updated or inserted its chat's row and has not ended. *)
HoldsThread(r) == At(r, "flushed") \/ (At(r, "touched") /\ ~req[r].thread.there)

(* Who holds a lock is decided by where it stands. *)
Locks ==
  /\ \A m \in Msgs, r \in Requests :
       keyLock[m] = r <=> Msg(r) = m /\ req[r].pc \in Locked
  /\ \A c \in Chats, r \in Requests :
       threadLock[c] = r <=> Chat(r) = c /\ HoldsThread(r)

(* Of the snapshots: what r read of its message stays true, what it did    *)
(* not find stays absent once it holds the key and has looked again; its   *)
(* conversation is as it read it unless a write is among those it missed.  *)
Snapshots(r) ==
  /\ req[r].row.there => row[Msg(r)].there
  /\ req[r].row.handled => row[Msg(r)].handled
  /\ At(r, "new") => req[r].tries = 0
  /\ req[r].pc \in {"claimed", "touched", "flushed"} => ~row[Msg(r)].handled
  /\ req[r].pc \in Locked \ {"locked"} /\ ~req[r].row.there => ~row[Msg(r)].there
  /\ req[r].pc \in Open /\ r \notin missed => req[r].thread = thread[Chat(r)]
  /\ At(r, "flushed") => r \notin missed

(* An import holds messages of its chat only, newer ones than it has still *)
(* to store, and among them those it inserted, which nobody else can       *)
(* commit; it holds the conversation if that was not in its snapshot, and  *)
(* else once the contact is written.                                       *)
Busy == {"messages", "locked"}

ImportKeys(i) ==
  /\ \A m \in Msgs : keyLock[m] = i =>
       /\ ChatOf[m] = imp[i].chat /\ imp[i].pc \in Busy
       /\ \A n \in imp[i].todo : n <= m
       /\ m \in imp[i].todo => imp[i].pc = "locked"
  /\ imp[i].pc = "locked" => \A m \in Msgs : IsNext(i, m) => keyLock[m] = i
  /\ \A m \in imp[i].todo : ChatOf[m] = imp[i].chat
  /\ \A m \in imp[i].stored :
       /\ ChatOf[m] = imp[i].chat
       /\ imp[i].pc \in ImportOpen => keyLock[m] = i /\ ~row[m].there
  /\ imp[i].pc \in {"new", "open"} => imp[i].stored = {}

ImportThread(i) ==
  /\ \A c \in Chats : threadLock[c] = i =>
       c = imp[i].chat /\ imp[i].pc \in Busy /\ ~imp[i].link
  /\ imp[i].pc \in ImportOpen /\ imp[i].knows => thread[imp[i].chat].there
  /\ imp[i].pc \in Busy /\ ~imp[i].knows => threadLock[imp[i].chat] = i
  /\ imp[i].pc \in {"new", "open"} => ~imp[i].link

ImpOk(i) == ImportKeys(i) /\ ImportThread(i)

(* A stored message was handled, or stored by an import that is over. *)
Stored ==
  \A m \in Msgs : /\ row[m].handled => row[m].there
                  /\ row[m].there => row[m].handled \/ Imported(m)

IInv ==
  /\ TypeOK
  /\ Locks
  /\ \A r \in Requests : Snapshots(r)
  /\ \A i \in Imports : ImpOk(i)
  /\ Stored
  /\ SuccessUnlessImported

-------------------------------------------------------------------------------
(* Lemmas about the operators that change the requests and the locks.      *)

(* Goto moves one request and leaves what it knows alone. *)
LEMMA Moves ==
  ASSUME TypeOK, NEW r \in Requests, NEW p \in Pcs, Goto(r, p)
  PROVE  /\ req' \in [Requests -> Request]
         /\ req'[r].pc = p
         /\ \A q \in Requests : /\ q # r => req'[q].pc = req[q].pc
                                /\ req'[q].msg = req[q].msg
                                /\ req'[q].row = req[q].row
                                /\ req'[q].thread = req[q].thread
                                /\ req'[q].tries = req[q].tries
<1>1. req[r] \in Request BY DEF TypeOK
<1>2. [req[r] EXCEPT !.pc = p] \in Request BY <1>1 DEF Request
<1> QED BY <1>1, <1>2 DEF TypeOK, Goto, Request

(* Begin takes a new snapshot and counts an attempt. *)
LEMMA Begins ==
  ASSUME TypeOK, NEW r \in Requests, Begin(r), req[r].tries < MaxTries
  PROVE  /\ req' \in [Requests -> Request]
         /\ req'[r].pc = "open" /\ req'[r].row = row[Msg(r)]
         /\ req'[r].thread = thread[Chat(r)]
         /\ req'[r].msg = req[r].msg
         /\ \A q \in Requests : q # r => req'[q] = req[q]
         /\ missed' = missed \ {r}
<1>1. req[r] \in Request /\ row[Msg(r)] \in Row /\ thread[Chat(r)] \in Thread
  BY InboundAssumption DEF TypeOK, Msg, Chat, Request
<1>2. req[r].tries + 1 \in 0 .. MaxTries BY <1>1, InboundAssumption DEF Request
<1>3. [req[r] EXCEPT !.pc = "open", !.row = row[Msg(r)], !.thread = thread[Chat(r)],
                     !.tries = @ + 1] \in Request
  BY <1>1, <1>2 DEF Request, Pcs, Open
<1> QED BY <1>1, <1>3 DEF TypeOK, Begin, Request

LEMMA Releases ==
  ASSUME TypeOK, NEW p \in Procs, Release(p)
  PROVE  /\ keyLock' \in [Msgs -> Procs \cup {None}]
         /\ threadLock' \in [Chats -> Procs \cup {None}]
         /\ \A m \in Msgs : \A q \in Procs : keyLock'[m] = q <=> keyLock[m] = q /\ q # p
         /\ \A c \in Chats : \A q \in Procs :
              threadLock'[c] = q <=> threadLock[c] = q /\ q # p
BY InboundAssumption DEF TypeOK, Release, Procs

LEMMA Types ==
  ASSUME TypeOK, NEW r \in Requests
  PROVE  /\ Msg(r) \in Msgs /\ Chat(r) \in Chats
         /\ row[Msg(r)] \in Row /\ req[r].row \in Row
         /\ thread[Chat(r)] \in Thread /\ req[r].thread \in Thread
         /\ req[r].pc \in Pcs
         /\ req[r].tries \in 0 .. MaxTries
BY InboundAssumption DEF TypeOK, Msg, Chat, Request

-------------------------------------------------------------------------------
LEMMA InitInv == Init => IInv
<1> SUFFICES ASSUME Init PROVE IInv OBVIOUS
<1>1. TypeOK
  <2>1. NoRow \in Row BY DEF NoRow, Row
  <2>2. NoThread \in Thread /\ [NoThread EXCEPT !.there = TRUE] \in Thread
    BY DEF NoThread, Thread, Stages
  <2>3. req \in [Requests -> Request]
    BY <2>1, <2>2, InboundAssumption DEF Init, Request, Pcs
  <2>4. imp \in [Imports -> Import] BY DEF Init, Import
  <2>5. thread \in [Chats -> Thread] BY <2>2 DEF Init
  <2>6. row \in [Msgs -> Row] /\ jobs \in [Msgs -> Nat] BY <2>1 DEF Init
  <2>7. userOps \in 0 .. MaxUser BY InboundAssumption DEF Init
  <2> QED BY <2>3, <2>4, <2>5, <2>6, <2>7 DEF Init, TypeOK
<1>2. \A r \in Requests : /\ req[r].pc = "new" /\ req[r].row = NoRow /\ req[r].tries = 0
  BY DEF Init
<1>3. \A i \in Imports : /\ imp[i].pc = "new" /\ imp[i].todo = {} /\ imp[i].stored = {}
                         /\ imp[i].link = FALSE
  BY DEF Init
<1>4. Locks BY <1>1, <1>2, InboundAssumption
  DEF Init, Locks, Locked, HoldsThread, At, TypeOK, Chat, Msg, Procs
<1>5. \A r \in Requests : Snapshots(r) BY <1>2 DEF Snapshots, At, NoRow, Locked, Open
<1>6. ASSUME NEW i \in Imports PROVE ImpOk(i)
  BY <1>3, InboundAssumption DEF Init, ImpOk, ImportKeys, ImportThread, Busy, ImportOpen, Procs
<1>7. Stored BY DEF Init, Stored, NoRow
<1>8. SuccessUnlessImported BY <1>2 DEF SuccessUnlessImported, At
<1> QED BY <1>1, <1>4, <1>5, <1>6, <1>7, <1>8 DEF IInv

(* A step that takes nothing from an import, commits none of the messages  *)
(* it holds and removes no conversation leaves its part of the invariant.  *)
LEMMA ImpFrame ==
  ASSUME NEW i \in Imports, imp'[i] = imp[i], ImpOk(i), TypeOK,
         \A m \in Msgs : keyLock'[m] = i <=> keyLock[m] = i,
         \A c \in Chats : threadLock'[c] = i <=> threadLock[c] = i,
         \A m \in Msgs : keyLock[m] = i => row'[m] = row[m],
         \A c \in Chats : thread[c].there => thread'[c].there
  PROVE  ImpOk(i)'
<1>1. imp[i].chat \in Chats /\ imp[i].todo \subseteq Msgs /\ imp[i].stored \subseteq Msgs
  BY DEF TypeOK, Import
<1>2. ImportKeys(i)' BY <1>1 DEF ImpOk, ImportKeys, IsNext
<1>3. ImportThread(i)' BY <1>1 DEF ImpOk, ImportThread
<1> QED BY <1>2, <1>3 DEF ImpOk

(* The locks of all but p are as they were. *)
SameLocks(p) ==
  /\ keyLock' \in [Msgs -> Procs \cup {None}]
  /\ threadLock' \in [Chats -> Procs \cup {None}]
  /\ \A m \in Msgs : \A q \in Procs \ {p} : keyLock'[m] = q <=> keyLock[m] = q
  /\ \A c \in Chats : \A q \in Procs \ {p} : threadLock'[c] = q <=> threadLock[c] = q

LEMMA Disjoint ==
  /\ \A r \in Requests : r \in Procs /\ r \notin Imports /\ r # None
  /\ \A i \in Imports : i \in Procs /\ i \notin Requests /\ i # None
BY InboundAssumption DEF Procs

(* Taking a free lock, releasing one's own. *)
LEMMA TakesKey ==
  ASSUME TypeOK, NEW p \in Procs, NEW m \in Msgs, keyLock[m] = None,
         keyLock' = [keyLock EXCEPT ![m] = p], threadLock' = threadLock
  PROVE  SameLocks(p) /\ \A n \in Msgs : keyLock'[n] = p <=> n = m \/ keyLock[n] = p
BY InboundAssumption DEF TypeOK, SameLocks, Procs

LEMMA TakesThread ==
  ASSUME TypeOK, NEW p \in Procs, NEW c \in Chats, threadLock[c] \in {None, p},
         threadLock' = [threadLock EXCEPT ![c] = p], keyLock' = keyLock
  PROVE  SameLocks(p) /\ \A d \in Chats : threadLock'[d] = p <=> d = c \/ threadLock[d] = p
BY InboundAssumption DEF TypeOK, SameLocks, Procs

LEMMA ReleaseSame ==
  ASSUME TypeOK, NEW p \in Procs, Release(p)
  PROVE  SameLocks(p) /\ (\A m \in Msgs : keyLock'[m] # p) /\ (\A c \in Chats : threadLock'[c] # p)
<1> HIDE DEF Release
<1> QED BY Releases DEF SameLocks

LEMMA NoLocks ==
  ASSUME TypeOK, NEW p \in Procs, UNCHANGED <<keyLock, threadLock>>
  PROVE  SameLocks(p)
BY DEF TypeOK, SameLocks

(* A step of r's transaction that commits nothing: what remains to show is *)
(* about the locks and about r itself.                                     *)
LEMMA WithinInv ==
  ASSUME IInv, NEW r \in Requests, NEW p \in Pcs, Goto(r, p),
         UNCHANGED <<row, jobs, thread, imp, missed, userOps>>,
         SameLocks(r), Locks', Snapshots(r)', req[r].pc # "ok",
         p = "ok" => row[Msg(r)].handled \/ Imported(Msg(r))
  PROVE  IInv'
<1>1. TypeOK BY DEF IInv
<1> USE Moves, <1>1
<1>2. TypeOK' BY DEF TypeOK, SameLocks
<1>3. ASSUME NEW q \in Requests PROVE Snapshots(q)'
  <2>1. CASE q = r BY <2>1
  <2>2. CASE q # r BY <2>2 DEF IInv, Snapshots, At, Msg, Chat
  <2> QED BY <2>1, <2>2
<1>4. ASSUME NEW i \in Imports PROVE ImpOk(i)'
  <2>1. i \in Procs \ {r} BY Disjoint
  <2> QED BY <2>1, ImpFrame DEF IInv, SameLocks
<1>5. Stored' BY DEF IInv, Stored, Imported
<1>6. ASSUME NEW q \in Requests, At(q, "ok")'
      PROVE  (row[Msg(q)].handled \/ Imported(Msg(q)))'
  <2>1. Msg(q)' = Msg(q) BY DEF Msg
  <2>2. row[Msg(q)].handled \/ Imported(Msg(q))
    BY <1>6 DEF IInv, SuccessUnlessImported, At
  <2> QED BY <2>1, <2>2 DEF Imported
<1>7. SuccessUnlessImported' BY <1>6 DEF SuccessUnlessImported
<1> QED BY <1>2, <1>3, <1>4, <1>5, <1>7 DEF IInv

LEMMA EndInv ==
  ASSUME IInv, NEW r \in Requests, NEW p \in {"ok", "error"}, EndWith(r, p),
         req[r].pc \in Open,
         p = "ok" => row[Msg(r)].handled \/ Imported(Msg(r))
  PROVE  IInv'
<1>1. TypeOK /\ p \in Pcs /\ Goto(r, p) /\ Release(r) /\ req[r].pc # "ok" /\ r \in Procs
      /\ UNCHANGED <<row, jobs, thread, imp, missed, userOps>>
  BY DEF IInv, EndWith, Pcs, Open, Procs
<1>2. Locks'
  BY <1>1, Moves, Releases DEF IInv, Locks, HoldsThread, At, Msg, Chat, Locked, Procs
<1>3. Snapshots(r)'
  BY <1>1, Moves DEF IInv, Snapshots, At, Msg, Chat, Locked, Open
<1> QED BY <1>1, <1>2, <1>3, ReleaseSame, WithinInv

-------------------------------------------------------------------------------
(* The steps of a request, one lemma for each that changes locks or rows.  *)

(* Beginning, for the first time or again. *)
LEMMA BeginInv ==
  ASSUME IInv, NEW r \in Requests, Begin(r), req[r].tries < MaxTries,
         UNCHANGED <<row, jobs, thread, imp, userOps>>,
         SameLocks(r), \A m \in Msgs : keyLock'[m] # r, \A c \in Chats : threadLock'[c] # r
  PROVE  IInv'
<1>1. TypeOK BY DEF IInv
<1> USE Begins, <1>1
<1>3. TypeOK' BY DEF TypeOK, SameLocks
<1>4. Locks' BY DEF IInv, Locks, HoldsThread, At, Msg, Chat, Locked, SameLocks, Procs
<1>5. ASSUME NEW q \in Requests PROVE Snapshots(q)'
  <2>1. CASE q = r BY <2>1 DEF Snapshots, At, Msg, Chat, Locked
  <2>2. CASE q # r BY <2>2 DEF IInv, Snapshots, At, Msg, Chat
  <2> QED BY <2>1, <2>2
<1>6. ASSUME NEW i \in Imports PROVE ImpOk(i)'
  <2>1. i \in Procs \ {r} BY Disjoint
  <2> QED BY <2>1, ImpFrame DEF IInv, SameLocks
<1>7. Stored' BY DEF IInv, Stored, Imported
<1>8. SuccessUnlessImported' BY DEF IInv, SuccessUnlessImported, At, Msg, Imported
<1> QED BY <1>3, <1>4, <1>5, <1>6, <1>7, <1>8 DEF IInv

LEMMA ReceiveInv ==
  ASSUME IInv, NEW r \in Requests, Receive(r)
  PROVE  IInv'
<1>1. TypeOK /\ Begin(r) /\ req[r].pc = "new" /\ r \in Procs
      /\ UNCHANGED <<row, jobs, thread, imp, userOps, keyLock, threadLock>>
  BY DEF IInv, Receive, At, Procs
<1>2. req[r].tries < MaxTries BY <1>1, InboundAssumption DEF IInv, Snapshots, At
<1>3. (\A m \in Msgs : keyLock[m] # r) /\ (\A c \in Chats : threadLock[c] # r)
  BY <1>1 DEF IInv, Locks, Locked, HoldsThread, At
<1> HIDE DEF Begin
<1> QED BY <1>1, <1>2, <1>3, NoLocks, BeginInv

LEMMA RetryInv ==
  ASSUME IInv, NEW r \in Requests, Retry(r)
  PROVE  IInv'
<1>1. TypeOK /\ Begin(r) /\ Release(r) /\ req[r].tries < MaxTries /\ r \in Procs
      /\ UNCHANGED <<row, jobs, thread, imp, userOps>>
  BY DEF IInv, Retry, Procs
<1> QED BY <1>1, ReleaseSame, BeginInv

LEMMA TakeKeyLockInv ==
  ASSUME IInv, NEW r \in Requests, TakeKeyLock(r)
  PROVE  IInv'
<1>1. TypeOK /\ "locked" \in Pcs /\ Goto(r, "locked") /\ req[r].pc = "open" /\ r \in Procs
      /\ keyLock[Msg(r)] = None /\ keyLock' = [keyLock EXCEPT ![Msg(r)] = r]
      /\ UNCHANGED <<row, jobs, thread, threadLock, imp, missed, userOps>>
  BY DEF IInv, TakeKeyLock, Pcs, Open, At, Procs
<1> USE Moves, <1>1
<1>2. Msg(r) \in Msgs BY Types
<1>3. SameLocks(r) /\ \A n \in Msgs : keyLock'[n] = r <=> n = Msg(r) \/ keyLock[n] = r
  BY <1>2, InboundAssumption DEF TypeOK, SameLocks, Procs
<1>4. Locks'
  BY <1>2, <1>3 DEF IInv, Locks, HoldsThread, At, Msg, Chat, Locked, SameLocks, Procs
<1>5. Snapshots(r)' BY DEF IInv, Snapshots, At, Msg, Chat, Locked, Open
<1> QED BY <1>3, <1>4, <1>5, WithinInv

LEMMA StoreInv ==
  ASSUME IInv, NEW r \in Requests, Store(r)
  PROVE  IInv'
<1>1. TypeOK /\ "stored" \in Pcs /\ Goto(r, "stored") /\ req[r].pc = "locked" /\ r \in Procs
      /\ (req[r].row.there \/ ~row[Msg(r)].there)
      /\ UNCHANGED <<row, jobs, thread, keyLock, threadLock, imp, missed, userOps>>
  BY DEF IInv, Store, Pcs, Open, At, Procs
<1> USE Moves, <1>1
<1>3. Locks' BY DEF IInv, Locks, HoldsThread, At, Msg, Chat, Locked
<1>4. Snapshots(r)' BY DEF IInv, Snapshots, At, Msg, Chat, Locked, Open
<1> QED BY <1>3, <1>4, NoLocks, WithinInv

LEMMA ClaimWonInv ==
  ASSUME IInv, NEW r \in Requests, ClaimWon(r)
  PROVE  IInv'
<1>1. TypeOK /\ "claimed" \in Pcs /\ Goto(r, "claimed") /\ req[r].pc = "stored" /\ r \in Procs
      /\ (req[r].row.there => ~row[Msg(r)].handled)
      /\ UNCHANGED <<row, jobs, thread, keyLock, threadLock, imp, missed, userOps>>
  BY DEF IInv, ClaimWon, Pcs, Open, At, Procs
<1> USE Moves, Types, <1>1
<1>2. ~row[Msg(r)].handled BY DEF IInv, Snapshots, Stored, Locked
<1>3. Locks' BY DEF IInv, Locks, HoldsThread, At, Msg, Chat, Locked
<1>4. Snapshots(r)' BY <1>2 DEF IInv, Snapshots, At, Msg, Chat, Locked, Open
<1> QED BY <1>3, <1>4, NoLocks, WithinInv

LEMMA TouchInv ==
  ASSUME IInv, NEW r \in Requests, TouchKnown(r) \/ TouchNew(r)
  PROVE  IInv'
<1>1. TypeOK /\ "touched" \in Pcs /\ Goto(r, "touched") /\ req[r].pc = "claimed" /\ r \in Procs
      /\ UNCHANGED <<row, jobs, thread, keyLock, imp, missed, userOps>>
  BY DEF IInv, TouchKnown, TouchNew, Pcs, Open, At, Procs
<1> USE Moves, <1>1
<1>2. Chat(r) \in Chats BY Types
<1>3. Snapshots(r)' BY DEF IInv, Snapshots, At, Msg, Chat, Locked, Open
<1>4. CASE TouchKnown(r)
  <2>1. Locks'
    BY <1>4 DEF IInv, Locks, HoldsThread, At, Msg, Chat, Locked, TouchKnown
  <2> QED BY <1>3, <1>4, <2>1, NoLocks, WithinInv DEF TouchKnown
<1>5. CASE TouchNew(r)
  <2>1. SameLocks(r) /\ \A d \in Chats : threadLock'[d] = r <=> d = Chat(r) \/ threadLock[d] = r
    BY <1>2, <1>5, InboundAssumption DEF TouchNew, TypeOK, SameLocks, Procs
  <2>2. Locks'
    BY <1>2, <1>5, <2>1
    DEF IInv, Locks, HoldsThread, At, Msg, Chat, Locked, TouchNew, SameLocks, Procs
  <2> QED BY <1>3, <2>1, <2>2, WithinInv
<1> QED BY <1>4, <1>5

LEMMA FlushInv ==
  ASSUME IInv, NEW r \in Requests, Flush(r)
  PROVE  IInv'
<1>1. TypeOK /\ "flushed" \in Pcs /\ Goto(r, "flushed") /\ req[r].pc = "touched" /\ r \in Procs
      /\ r \notin missed /\ threadLock[Chat(r)] \in {None, r}
      /\ threadLock' = [threadLock EXCEPT ![Chat(r)] = r]
      /\ UNCHANGED <<row, jobs, thread, keyLock, imp, missed, userOps>>
  BY DEF IInv, Flush, Pcs, Open, At, Procs
<1> USE Moves, <1>1
<1>2. Chat(r) \in Chats BY Types
<1>3. SameLocks(r) /\ \A d \in Chats : threadLock'[d] = r <=> d = Chat(r) \/ threadLock[d] = r
  BY <1>2, InboundAssumption DEF TypeOK, SameLocks, Procs
<1>4. Locks'
  BY <1>2, <1>3 DEF IInv, Locks, HoldsThread, At, Msg, Chat, Locked, SameLocks, Procs
<1>5. Snapshots(r)' BY DEF IInv, Snapshots, At, Msg, Chat, Locked, Open
<1> QED BY <1>3, <1>4, <1>5, WithinInv

(* What a request that holds the row of its conversation writes: its       *)
(* snapshot is the committed row, so nothing is lost by overwriting it.    *)
LEMMA Writes ==
  ASSUME IInv, NEW r \in Requests, At(r, "flushed")
  PROVE  /\ ~row[Msg(r)].handled /\ req[r].thread = thread[Chat(r)]
         /\ Touched(r) \in Thread /\ Touched(r).there
         /\ Msg(r) \in Incoming =>
              /\ Touched(r).unread = thread[Chat(r)].unread + 1
              /\ Touched(r).stage # "resolved"
         /\ Msg(r) \notin Incoming =>
              /\ Touched(r).unread = thread[Chat(r)].unread
<1>1. ~row[Msg(r)].handled /\ req[r].thread = thread[Chat(r)]
  BY DEF IInv, Snapshots, At, Open
<1>2. thread[Chat(r)] \in Thread BY Types DEF IInv
<1>3. PICK t \in Thread : t = thread[Chat(r)] BY <1>2
<1> DEFINE now == [t EXCEPT !.there = TRUE]
<1>4. now \in Thread /\ now.there /\ now.unread = t.unread /\ now.stage = t.stage
      /\ t.unread \in Nat /\ t.stage \in Stages
  BY DEF Thread
<1>5. CASE Msg(r) \in Incoming
  <2>1. Touched(r) = [now EXCEPT !.unread = t.unread + 1,
                                 !.stage = IF t.stage = "resolved" THEN "open" ELSE @]
    BY <1>1, <1>3, <1>5 DEF Touched
  <2> HIDE DEF now
  <2>2. t.unread + 1 \in Nat BY <1>4
  <2>3. Touched(r) \in Thread /\ Touched(r).there /\ Touched(r).unread = t.unread + 1
        /\ Touched(r).stage # "resolved"
    BY <1>4, <2>1, <2>2 DEF Thread, Stages
  <2> QED BY <1>1, <1>3, <1>5, <2>3
<1>6. CASE Msg(r) \notin Incoming
  <2>1. Touched(r) = now BY <1>3, <1>6 DEF Touched
  <2> QED BY <1>1, <1>3, <1>4, <1>6, <2>1
<1> QED BY <1>5, <1>6

LEMMA CommitWebhookInv ==
  ASSUME IInv, NEW r \in Requests, CommitWebhook(r)
  PROVE  IInv'
<1> DEFINE new == [there |-> TRUE, handled |-> TRUE]
<1>1. /\ TypeOK /\ "ok" \in Pcs /\ Goto(r, "ok") /\ Release(r) /\ req[r].pc = "flushed"
      /\ At(r, "flushed") /\ r \in Procs
      /\ row' = [row EXCEPT ![Msg(r)] = new]
      /\ thread' = [thread EXCEPT ![Chat(r)] = Touched(r)]
      /\ missed' = missed \cup Readers(Chat(r)) /\ UNCHANGED <<imp, userOps>>
  BY DEF IInv, CommitWebhook, Pcs, At, Procs
<1>2. Msg(r) \in Msgs /\ Chat(r) \in Chats BY <1>1, Types
<1> USE Moves, Releases, Writes, <1>1, <1>2
<1>3. TypeOK'
  <2>1. new \in Row BY DEF Row
  <2>2. row' \in [Msgs -> Row] BY <2>1 DEF TypeOK
  <2>3. thread' \in [Chats -> Thread] BY DEF TypeOK
  <2>4. jobs' \in [Msgs -> Nat] BY DEF TypeOK, CommitWebhook
  <2>5. missed' \subseteq Procs BY DEF TypeOK, Readers
  <2> QED BY <2>2, <2>3, <2>4, <2>5 DEF TypeOK
<1>4. Locks' BY DEF IInv, Locks, HoldsThread, At, Msg, Chat, Locked, Procs
<1>5. /\ row'[Msg(r)].there /\ row'[Msg(r)].handled
      /\ \A m \in Msgs \ {Msg(r)} : row'[m] = row[m]
  BY DEF TypeOK
<1>6. ASSUME NEW q \in Requests PROVE Snapshots(q)'
  <2>1. CASE q = r BY <2>1, <1>5 DEF IInv, Snapshots, At, Msg, Chat, Locked, Open
  <2>2. CASE q # r
    <3>1. /\ req'[q].pc = req[q].pc /\ req'[q].msg = req[q].msg
          /\ req'[q].row = req[q].row
          /\ req'[q].thread = req[q].thread /\ req'[q].tries = req[q].tries
      BY <2>2
    <3>2. Msg(q) \in Msgs /\ Chat(q) \in Chats BY Types
    <3>3. Msg(q) = Msg(r) => req[q].pc \notin Locked
      BY <2>2 DEF IInv, Locks, Locked
    <3>4. Chat(q) = Chat(r) => ~At(q, "flushed")
      BY <2>2 DEF IInv, Locks, HoldsThread
    <3>5. req[q].pc \in Open /\ Chat(q) = Chat(r) => q \in missed'
      BY DEF Readers, InOpen, Procs
    <3>6. Chat(q) # Chat(r) => thread'[Chat(q)] = thread[Chat(q)]
                               /\ (q \in missed' <=> q \in missed)
      BY <3>2 DEF Readers, TypeOK
    <3>7. q \in missed => q \in missed' OBVIOUS
    <3>8. Snapshots(q) BY DEF IInv
    <3>9. Msg(q)' = Msg(q) /\ Chat(q)' = Chat(q) BY <3>1 DEF Msg, Chat
    <3>10. (/\ req[q].row.there => row[Msg(q)].there
            /\ req[q].row.handled => row[Msg(q)].handled
            /\ req[q].pc \in Locked \ {"locked"} /\ ~req[q].row.there => ~row[Msg(q)].there
            /\ req[q].pc \in {"claimed", "touched", "flushed"} => ~row[Msg(q)].handled)'
      BY <3>1, <3>2, <3>3, <3>8, <3>9, <1>5 DEF Snapshots, Locked
    <3>11. (/\ req[q].pc \in Open /\ q \notin missed => req[q].thread = thread[Chat(q)]
            /\ At(q, "flushed") => q \notin missed)'
      BY <3>1, <3>2, <3>4, <3>5, <3>6, <3>7, <3>8, <3>9 DEF Snapshots, At, Open
    <3> QED BY <3>1, <3>8, <3>10, <3>11 DEF Snapshots, At, Locked
  <2> QED BY <2>1, <2>2
<1>7. ASSUME NEW i \in Imports PROVE ImpOk(i)'
  <2>1. i \in Procs \ {r} BY Disjoint
  <2>2. keyLock[Msg(r)] = r BY DEF IInv, Locks, Locked
  <2>3. \A m \in Msgs : keyLock[m] = i => row'[m] = row[m] BY <2>1, <2>2, <1>5
  <2>4. \A c \in Chats : thread[c].there => thread'[c].there BY DEF TypeOK
  <2>5. ImpOk(i) /\ imp' = imp BY DEF IInv
  <2>6. /\ \A m \in Msgs : keyLock'[m] = i <=> keyLock[m] = i
        /\ \A c \in Chats : threadLock'[c] = i <=> threadLock[c] = i
    BY <2>1
  <2> QED BY <2>3, <2>4, <2>5, <2>6, ImpFrame
<1>8. Stored' BY <1>5 DEF IInv, Stored, Imported
<1>9. SuccessUnlessImported'
  BY <1>5, Types DEF IInv, SuccessUnlessImported, At, Msg, Imported
<1> QED BY <1>3, <1>4, <1>6, <1>7, <1>8, <1>9 DEF IInv

LEMMA UserInv ==
  ASSUME IInv, NEW c \in Chats, NEW values \in Thread, UserWrites(c, values), values.there
  PROVE  IInv'
<1>1. TypeOK /\ thread' = [thread EXCEPT ![c] = values] /\ missed' = missed \cup Readers(c)
      /\ threadLock[c] = None /\ UNCHANGED <<row, jobs, keyLock, threadLock, req, imp>>
  BY DEF IInv, UserWrites
<1>2. userOps' \in 0 .. MaxUser BY InboundAssumption DEF IInv, TypeOK, UserWrites
<1>3. TypeOK' BY <1>1, <1>2 DEF TypeOK, Readers
<1>4. Locks' BY <1>1 DEF IInv, Locks, HoldsThread, At, Msg, Chat
<1>5. ASSUME NEW q \in Requests PROVE Snapshots(q)'
  <2>1. Chat(q) \in Chats /\ Snapshots(q) BY Types DEF IInv
  <2>2. Chat(q) = c => ~At(q, "flushed")
    BY <1>1, <2>1, InboundAssumption DEF IInv, Locks, HoldsThread, Procs
  <2>3. Chat(q) # c => thread'[Chat(q)] = thread[Chat(q)] /\ (q \in missed' <=> q \in missed)
    BY <1>1, <2>1 DEF Readers, TypeOK
  <2>4. Chat(q) = c /\ req[q].pc \in Open => q \in missed'
    BY <1>1 DEF Readers, InOpen, Procs
  <2>5. q \in missed => q \in missed' BY <1>1
  <2> QED BY <1>1, <2>1, <2>2, <2>3, <2>4, <2>5 DEF Snapshots, At, Msg, Chat
<1>6. ASSUME NEW i \in Imports PROVE ImpOk(i)'
  <2>1. \A d \in Chats : thread[d].there => thread'[d].there BY <1>1 DEF TypeOK
  <2> QED BY <1>1, <2>1, ImpFrame DEF IInv
<1>7. Stored' BY <1>1 DEF IInv, Stored, Imported
<1>8. SuccessUnlessImported' BY <1>1 DEF IInv, SuccessUnlessImported, At, Msg, Imported
<1> QED BY <1>3, <1>4, <1>5, <1>6, <1>7, <1>8 DEF IInv

LEMMA UserValues ==
  ASSUME TypeOK, NEW c \in Chats, OpenChat(c) \/ AssignToMe(c) \/ MarkResolved(c) \/ MarkOpen(c)
  PROVE  \E values \in Thread :
           /\ UserWrites(c, values)
           /\ values.there = thread[c].there
           /\ values.unread \in {0, thread[c].unread}
<1>1. thread[c] \in Thread BY DEF TypeOK
<1>2. CASE OpenChat(c) BY <1>1, <1>2 DEF OpenChat, Thread
<1>3. CASE AssignToMe(c) BY <1>1, <1>3 DEF AssignToMe, Thread
<1>4. CASE MarkResolved(c) BY <1>1, <1>4 DEF MarkResolved, Thread, Stages
<1>5. CASE MarkOpen(c)
  <2> DEFINE new == [thread[c] EXCEPT !.stage = "open", !.unread = 0]
  <2>1. new \in Thread /\ new.there = thread[c].there /\ new.unread = 0
    BY <1>1 DEF Thread, Stages
  <2>2. UserWrites(c, new) BY <1>5 DEF MarkOpen
  <2> QED BY <2>1, <2>2
<1> QED BY <1>2, <1>3, <1>4, <1>5

-------------------------------------------------------------------------------
(* The steps of an import.                                                 *)

LEMMA ImportTypes ==
  ASSUME TypeOK, NEW i \in Imports
  PROVE  /\ imp[i] \in Import /\ imp[i].chat \in Chats
         /\ imp[i].todo \subseteq Msgs /\ imp[i].stored \subseteq Msgs
         /\ imp[i].knows \in BOOLEAN /\ imp[i].link \in BOOLEAN
BY DEF TypeOK, Import

(* The requests do not see an import that has not committed. *)
LEMMA ReqFrame ==
  ASSUME IInv, NEW i \in Imports, UNCHANGED <<req>>, SameLocks(i)
  PROVE  Locks'
<1>1. \A r \in Requests : r \in Procs \ {i} BY Disjoint
<1> QED BY <1>1 DEF IInv, Locks, HoldsThread, At, Msg, Chat, SameLocks

(* A step of i's transaction that commits nothing: what remains to show is *)
(* about the locks and about i itself.                                     *)
LEMMA ImportWithin ==
  ASSUME IInv, NEW i \in Imports, imp[i].pc # "ok", NEW new \in Import,
         imp' = [imp EXCEPT ![i] = new],
         UNCHANGED <<row, jobs, thread, req, missed, userOps>>,
         SameLocks(i), ImpOk(i)'
  PROVE  IInv'
<1>1. TypeOK' BY DEF IInv, TypeOK, SameLocks
<1>2. Locks' BY ReqFrame
<1>3. \A q \in Requests : Snapshots(q)' BY DEF IInv, Snapshots, At, Msg, Chat
<1>4. ASSUME NEW j \in Imports PROVE ImpOk(j)'
  <2>1. CASE j = i BY <2>1
  <2>2. CASE j # i
    <3>1. j \in Procs \ {i} /\ imp'[j] = imp[j] BY <2>2, Disjoint DEF IInv, TypeOK
    <3> QED BY <3>1, ImpFrame DEF IInv, SameLocks
  <2> QED BY <2>1, <2>2
<1>5. \A m \in Msgs : Imported(m) => Imported(m)' BY DEF IInv, TypeOK, Imported
<1>6. Stored' BY <1>5 DEF IInv, Stored
<1>7. ASSUME NEW q \in Requests, At(q, "ok")'
      PROVE  (row[Msg(q)].handled \/ Imported(Msg(q)))'
  <2>1. Msg(q)' = Msg(q) /\ Msg(q) \in Msgs BY Types DEF Msg, IInv
  <2>2. row[Msg(q)].handled \/ Imported(Msg(q))
    BY <1>7 DEF IInv, SuccessUnlessImported, At
  <2>3. PICK m \in Msgs : m = Msg(q) BY <2>1
  <2>4. (row[m].handled \/ Imported(m))' BY <1>5, <2>2, <2>3
  <2> QED BY <2>1, <2>3, <2>4 DEF Imported
<1>8. SuccessUnlessImported' BY <1>7 DEF SuccessUnlessImported
<1> QED BY <1>1, <1>2, <1>3, <1>4, <1>6, <1>8 DEF IInv

LEMMA ImportAbortsInv ==
  ASSUME IInv, NEW i \in Imports, ImportAborts(i), imp[i].pc \in ImportOpen
  PROVE  IInv'
<1> DEFINE new == [imp[i] EXCEPT !.pc = "error", !.todo = {}]
<1>1. imp' = [imp EXCEPT ![i] = new] /\ Release(i) /\ i \in Procs
      /\ UNCHANGED <<row, jobs, thread, req, missed, userOps>> /\ TypeOK
  BY DEF ImportAborts, ImportEnds, Procs, IInv
<1>2. new \in Import /\ new.stored = imp[i].stored /\ new.chat = imp[i].chat
      /\ new.pc = "error" /\ new.todo = {}
  BY <1>1, ImportTypes DEF Import
<1>3. SameLocks(i) /\ (\A m \in Msgs : keyLock'[m] # i) /\ (\A c \in Chats : threadLock'[c] # i)
  BY <1>1, ReleaseSame
<1>4. imp'[i] = new BY <1>1 DEF TypeOK
<1>5. ImpOk(i)'
  <2> HIDE DEF new
  <2> QED BY <1>2, <1>3, <1>4
      DEF IInv, ImpOk, ImportKeys, ImportThread, Busy, ImportOpen
<1>6. imp[i].pc # "ok" BY DEF ImportOpen
<1> HIDE DEF new
<1> QED BY <1>1, <1>2, <1>3, <1>5, <1>6, ImportWithin

LEMMA ImportBeginsInv ==
  ASSUME IInv, NEW i \in Imports, ImportBegins(i)
  PROVE  IInv'
<1>1. PICK S \in SUBSET {m \in Msgs : ChatOf[m] = imp[i].chat /\ ~row[m].there} :
        imp' = [imp EXCEPT ![i].pc = "open", ![i].todo = S,
                           ![i].knows = thread[imp[i].chat].there]
  BY DEF ImportBegins
<1> DEFINE new == [imp[i] EXCEPT !.pc = "open", !.todo = S,
                                 !.knows = thread[imp[i].chat].there]
<1>2. TypeOK /\ imp[i].pc = "new" /\ i \in Procs /\ imp' = [imp EXCEPT ![i] = new]
      /\ UNCHANGED <<row, jobs, thread, keyLock, threadLock, req, missed, userOps>>
  BY <1>1 DEF IInv, ImportBegins, Procs
<1>3. thread[imp[i].chat].there \in BOOLEAN BY <1>2, ImportTypes DEF TypeOK, Thread
<1>4. new \in Import /\ new.stored = imp[i].stored /\ new.chat = imp[i].chat
      /\ new.pc = "open" /\ new.todo = S /\ new.knows = thread[imp[i].chat].there
      /\ new.link = imp[i].link
  BY <1>1, <1>2, <1>3, ImportTypes DEF Import, ImportOpen
<1>5. imp'[i] = new BY <1>2 DEF TypeOK
<1>6. (\A m \in Msgs : keyLock[m] # i) /\ (\A c \in Chats : threadLock[c] # i)
  BY <1>2 DEF IInv, ImpOk, ImportKeys, ImportThread, Busy
<1>7. ImpOk(i)'
  <2> HIDE DEF new
  <2>1. \A m \in S : ChatOf[m] = imp[i].chat BY <1>1
  <2> QED BY <1>2, <1>4, <1>5, <1>6, <2>1
      DEF IInv, ImpOk, ImportKeys, ImportThread, Busy, ImportOpen
<1> HIDE DEF new
<1> QED BY <1>2, <1>4, <1>7, NoLocks, ImportWithin

LEMMA ImportFindsInv ==
  ASSUME IInv, NEW i \in Imports, ImportFinds(i)
  PROVE  IInv'
<1>1. PICK l \in BOOLEAN : imp' = [imp EXCEPT ![i].pc = "messages", ![i].link = l]
  BY DEF ImportFinds
<1> DEFINE new == [imp[i] EXCEPT !.pc = "messages", !.link = l]
<1>2. TypeOK /\ imp[i].pc = "open" /\ imp[i].knows /\ i \in Procs
      /\ imp' = [imp EXCEPT ![i] = new]
      /\ UNCHANGED <<row, jobs, thread, keyLock, threadLock, req, missed, userOps>>
  BY <1>1 DEF IInv, ImportFinds, Procs
<1>3. new \in Import /\ new.stored = imp[i].stored /\ new.chat = imp[i].chat
      /\ new.pc = "messages" /\ new.todo = imp[i].todo /\ new.knows = imp[i].knows
  BY <1>1, <1>2, ImportTypes DEF Import, ImportOpen
<1>4. imp'[i] = new BY <1>2 DEF TypeOK
<1>5. (\A m \in Msgs : keyLock[m] # i) /\ (\A c \in Chats : threadLock[c] # i)
  BY <1>2 DEF IInv, ImpOk, ImportKeys, ImportThread, Busy
<1>6. ImpOk(i)'
  <2> HIDE DEF new
  <2>1. ImportKeys(i)'
    BY <1>2, <1>3, <1>4, <1>5 DEF IInv, ImpOk, ImportKeys, Busy, ImportOpen
  <2>2. ImportThread(i)'
    BY <1>2, <1>3, <1>4, <1>5 DEF IInv, ImpOk, ImportThread, Busy, ImportOpen
  <2> QED BY <2>1, <2>2 DEF ImpOk
<1> HIDE DEF new
<1> QED BY <1>2, <1>3, <1>6, NoLocks, ImportWithin

LEMMA ImportCreatesInv ==
  ASSUME IInv, NEW i \in Imports, ImportCreates(i)
  PROVE  IInv'
<1> DEFINE new == [imp[i] EXCEPT !.pc = "messages"]
<1>1. TypeOK /\ imp[i].pc = "open" /\ ~imp[i].knows /\ i \in Procs
      /\ threadLock[imp[i].chat] = None
      /\ threadLock' = [threadLock EXCEPT ![imp[i].chat] = i]
      /\ imp' = [imp EXCEPT ![i] = new]
      /\ UNCHANGED <<row, jobs, thread, keyLock, req, missed, userOps>>
  BY DEF IInv, ImportCreates, Procs
<1>2. new \in Import /\ new.stored = imp[i].stored /\ new.chat = imp[i].chat
      /\ new.pc = "messages" /\ new.todo = imp[i].todo /\ new.knows = imp[i].knows
      /\ new.link = imp[i].link
  BY <1>1, ImportTypes DEF Import, ImportOpen
<1>3. imp'[i] = new BY <1>1 DEF TypeOK
<1>4. (\A m \in Msgs : keyLock[m] # i) /\ (\A c \in Chats : threadLock[c] # i)
  BY <1>1 DEF IInv, ImpOk, ImportKeys, ImportThread, Busy
<1>5. SameLocks(i) /\ \A d \in Chats : threadLock'[d] = i <=> d = imp[i].chat \/ threadLock[d] = i
  BY <1>1, ImportTypes, InboundAssumption DEF TypeOK, SameLocks, Procs
<1>6. ImpOk(i)'
  <2> HIDE DEF new
  <2> QED BY <1>1, <1>2, <1>3, <1>4, <1>5, ImportTypes
      DEF IInv, ImpOk, ImportKeys, ImportThread, Busy, ImportOpen
<1> HIDE DEF new
<1> QED BY <1>1, <1>2, <1>5, <1>6, ImportWithin

LEMMA ImportLocksInv ==
  ASSUME IInv, NEW i \in Imports, NEW m \in Msgs, ImportLocks(i, m)
  PROVE  IInv'
<1> DEFINE new == [imp[i] EXCEPT !.pc = "locked"]
<1>1. TypeOK /\ imp[i].pc = "messages" /\ IsNext(i, m) /\ i \in Procs
      /\ keyLock[m] = None /\ keyLock' = [keyLock EXCEPT ![m] = i]
      /\ imp' = [imp EXCEPT ![i] = new]
      /\ UNCHANGED <<row, jobs, thread, threadLock, req, missed, userOps>>
  BY Disjoint DEF IInv, ImportLocks, AwaitsKey, Procs
<1>2. new \in Import /\ new.stored = imp[i].stored /\ new.chat = imp[i].chat
      /\ new.pc = "locked" /\ new.todo = imp[i].todo /\ new.knows = imp[i].knows
      /\ new.link = imp[i].link
  BY <1>1, ImportTypes DEF Import, ImportOpen
<1>3. imp'[i] = new BY <1>1 DEF TypeOK
<1>4. SameLocks(i) /\ \A n \in Msgs : keyLock'[n] = i <=> n = m \/ keyLock[n] = i
  BY <1>1, TakesKey
<1>5. \A n \in Msgs : IsNext(i, n) => n = m
  BY <1>1, ImportTypes DEF IsNext, Msgs
<1>6. ImpOk(i)'
  <2> HIDE DEF new
  <2>1. \A n \in Msgs : IsNext(i, n)' => n = m BY <1>2, <1>3, <1>5 DEF IsNext
  <2> QED BY <1>1, <1>2, <1>3, <1>4, <2>1, ImportTypes
      DEF IInv, ImpOk, ImportKeys, ImportThread, Busy, ImportOpen, IsNext
<1> HIDE DEF new
<1> QED BY <1>1, <1>2, <1>4, <1>6, ImportWithin

LEMMA ImportStoresInv ==
  ASSUME IInv, NEW i \in Imports, NEW m \in Msgs, ImportStores(i, m)
  PROVE  IInv'
<1> DEFINE new == [imp[i] EXCEPT !.pc = "messages", !.link = FALSE, !.todo = @ \ {m},
                     !.stored = IF row[m].there THEN @ ELSE @ \cup {m}]
<1>1. TypeOK /\ imp[i].pc = "locked" /\ IsNext(i, m) /\ i \in Procs
      /\ LinkWritten(i) /\ imp' = [imp EXCEPT ![i] = new]
      /\ UNCHANGED <<row, jobs, thread, keyLock, req, missed, userOps>>
  BY DEF IInv, ImportStores, Procs
<1>2. new \in Import /\ new.chat = imp[i].chat
      /\ new.stored \subseteq imp[i].stored \cup {m}
      /\ (row[m].there => new.stored \subseteq imp[i].stored)
      /\ new.pc = "messages" /\ new.todo = imp[i].todo \ {m} /\ new.knows = imp[i].knows
      /\ new.link = FALSE
  BY <1>1, ImportTypes DEF Import, ImportOpen
<1>3. imp'[i] = new BY <1>1 DEF TypeOK
<1>4. imp[i].chat \in Chats /\ imp[i].todo \subseteq Msgs BY <1>1, ImportTypes
<1>5. SameLocks(i) /\ \A d \in Chats :
        threadLock'[d] = i => d = imp[i].chat
  <2>1. CASE Links(i)
    BY <1>1, <1>4, <2>1, TakesThread DEF LinkWritten, IInv, ImpOk, ImportThread
  <2>2. CASE ~Links(i)
    BY <1>1, <1>4, <2>2, NoLocks DEF LinkWritten, IInv, ImpOk, ImportThread
  <2> QED BY <2>1, <2>2
<1>6. ~imp[i].knows => threadLock'[imp[i].chat] = i
  BY <1>1, <1>4 DEF LinkWritten, IInv, TypeOK, ImpOk, ImportThread, Busy
<1>7. keyLock[m] = i BY <1>1 DEF IInv, ImpOk, ImportKeys
<1>8. ImpOk(i)'
  <2> HIDE DEF new
  <2>1. ImportThread(i)'
    BY <1>1, <1>2, <1>3, <1>4, <1>5, <1>6 DEF IInv, ImpOk, ImportThread, Busy, ImportOpen
  <2>2. ASSUME NEW n \in Msgs, keyLock[n] = i
        PROVE  /\ ChatOf[n] = imp[i].chat /\ n \notin new.todo
               /\ \A k \in new.todo : k <= n
    BY <1>1, <1>2, <1>4, <2>2 DEF IInv, ImpOk, ImportKeys, IsNext, Msgs
  <2>3. ImportKeys(i)'
    BY <1>1, <1>2, <1>3, <1>4, <1>7, <2>2 DEF IInv, ImpOk, ImportKeys, Busy, ImportOpen
  <2> QED BY <2>1, <2>3 DEF ImpOk
<1> HIDE DEF new
<1> QED BY <1>1, <1>2, <1>5, <1>8, ImportWithin

(* What an import commits was not there, and is of its chat: it held the   *)
(* messages' locks.                                                        *)
LEMMA Commits ==
  ASSUME IInv, NEW i \in Imports, CommitImport(i)
  PROVE  \A m \in imp[i].stored : /\ m \in Msgs /\ ChatOf[m] = imp[i].chat /\ keyLock[m] = i
                                 /\ ~row[m].there /\ ~row[m].handled
<1>1. imp[i].pc \in ImportOpen /\ imp[i].stored \subseteq Msgs
  BY ImportTypes DEF IInv, CommitImport, ImportOpen
<1> QED BY <1>1 DEF IInv, ImpOk, ImportKeys, Stored

LEMMA CommitImportInv ==
  ASSUME IInv, NEW i \in Imports, CommitImport(i)
  PROVE  IInv'
<1> DEFINE c == imp[i].chat
           new == [imp[i] EXCEPT !.pc = "ok", !.todo = {}]
           row1 == [there |-> TRUE, handled |-> FALSE]
<1>1. /\ TypeOK /\ imp[i].pc = "messages" /\ imp[i].todo = {} /\ i \in Procs /\ Release(i)
      /\ imp' = [imp EXCEPT ![i] = new]
      /\ row' = [m \in Msgs |-> IF m \in imp[i].stored THEN row1 ELSE row[m]]
      /\ thread' = [thread EXCEPT ![c].there = TRUE]
      /\ missed' = IF imp[i].link \/ threadLock[c] = i THEN missed \cup Readers(c) ELSE missed
      /\ imp[i].link => threadLock[c] = None
      /\ UNCHANGED <<jobs, req, userOps>>
  BY DEF IInv, CommitImport, ImportEnds, Procs
<1>2. new \in Import /\ new.stored = imp[i].stored /\ new.chat = imp[i].chat
      /\ new.pc = "ok" /\ new.todo = {}
  BY <1>1, ImportTypes DEF Import
<1>3. imp'[i] = new /\ \A j \in Imports \ {i} : imp'[j] = imp[j] BY <1>1 DEF TypeOK
<1>4. SameLocks(i) /\ (\A m \in Msgs : keyLock'[m] # i) /\ (\A d \in Chats : threadLock'[d] # i)
  BY <1>1, ReleaseSame
<1>5. c \in Chats /\ thread[c] \in Thread BY <1>1, ImportTypes DEF TypeOK
<1>6. /\ thread' \in [Chats -> Thread] /\ thread'[c].there
      /\ \A d \in Chats \ {c} : thread'[d] = thread[d]
      /\ thread[c].there => thread'[c] = thread[c]
  <2>1. [thread[c] EXCEPT !.there = TRUE] \in Thread BY <1>5 DEF Thread
  <2>2. thread[c].there => [thread[c] EXCEPT !.there = TRUE] = thread[c] BY <1>5 DEF Thread
  <2>3. PICK new1 : new1 = [thread[c] EXCEPT !.there = TRUE] OBVIOUS
  <2>4. new1 \in Thread /\ new1.there /\ (thread[c].there => new1 = thread[c])
    BY <1>5, <2>1, <2>2, <2>3 DEF Thread
  <2>5. thread' = [thread EXCEPT ![c] = new1] BY <1>1, <2>3
  <2> QED BY <1>1, <1>5, <2>4, <2>5 DEF TypeOK
<1>7. ~(imp[i].link \/ threadLock[c] = i) => thread[c].there
  BY <1>1 DEF IInv, ImpOk, ImportThread, Busy, ImportOpen
<1>8. /\ row' \in [Msgs -> Row] /\ \A m \in Msgs : row[m].there => row'[m] = row[m]
      /\ \A m \in Msgs : row'[m].handled <=> row[m].handled
      /\ \A m \in Msgs : row'[m].there <=> row[m].there \/ m \in imp[i].stored
      /\ \A m \in Msgs : keyLock[m] # i => row'[m] = row[m]
  BY <1>1, Commits DEF TypeOK, Row
<1> HIDE DEF new, row1
<1>9. TypeOK'
  <2>1. missed' \subseteq Procs BY <1>1 DEF TypeOK, Readers
  <2> QED BY <1>1, <1>2, <1>4, <1>6, <1>8, <2>1 DEF TypeOK, SameLocks
<1>10. Locks' BY <1>1, <1>4, ReqFrame
<1>11. ASSUME NEW q \in Requests PROVE Snapshots(q)'
  <2>1. Msg(q) \in Msgs /\ Chat(q) \in Chats /\ Snapshots(q) /\ q # i /\ q \in Procs /\ q # None
    BY <1>1, Types, Disjoint DEF IInv
  <2>2. req'[q] = req[q] /\ Msg(q)' = Msg(q) /\ Chat(q)' = Chat(q) BY <1>1 DEF Msg, Chat
  <2>3. req[q].pc \in Locked => row'[Msg(q)] = row[Msg(q)]
    BY <1>8, <2>1 DEF IInv, Locks
  <2>4. row[Msg(q)].there => row'[Msg(q)] = row[Msg(q)] BY <1>8, <2>1
  <2>5. row[Msg(q)].handled => row'[Msg(q)].handled BY <1>8, <2>1
  <2>6. req[q].pc \in Open /\ q \notin missed' =>
          q \notin missed /\ thread'[Chat(q)] = thread[Chat(q)]
    <3>1. CASE Chat(q) # c BY <1>1, <1>6, <2>1, <3>1
    <3>2. CASE Chat(q) = c /\ (imp[i].link \/ threadLock[c] = i)
      BY <1>1, <2>1, <3>2 DEF Readers, InOpen
    <3>3. CASE Chat(q) = c /\ ~(imp[i].link \/ threadLock[c] = i)
      BY <1>1, <1>6, <1>7, <3>3
    <3> QED BY <3>1, <3>2, <3>3
  <2>7. At(q, "flushed") => q \notin missed'
    <3>1. At(q, "flushed") => threadLock[Chat(q)] = q /\ q \notin missed
      BY <2>1 DEF IInv, Locks, HoldsThread, Snapshots
    <3>2. Chat(q) # c => (q \in missed' <=> q \in missed)
      BY <1>1, <2>1 DEF Readers
    <3> QED BY <1>1, <2>1, <3>1, <3>2
  <2> QED BY <2>1, <2>2, <2>3, <2>4, <2>5, <2>6, <2>7 DEF Snapshots, At, Locked, Open
<1>12. ASSUME NEW j \in Imports PROVE ImpOk(j)'
  <2>1. CASE j = i
    BY <1>1, <1>2, <1>3, <1>4, <2>1
    DEF IInv, ImpOk, ImportKeys, ImportThread, Busy, ImportOpen
  <2>2. CASE j # i
    <3>1. j \in Procs \ {i} /\ imp'[j] = imp[j] /\ ImpOk(j) BY <1>3, <2>2, Disjoint DEF IInv
    <3>2. \A m \in Msgs : keyLock[m] = j => row'[m] = row[m] BY <1>8, <2>2
    <3>3. \A d \in Chats : thread[d].there => thread'[d].there BY <1>6
    <3>4. /\ \A m \in Msgs : keyLock'[m] = j <=> keyLock[m] = j
          /\ \A d \in Chats : threadLock'[d] = j <=> threadLock[d] = j
      BY <1>4, <3>1 DEF SameLocks
    <3> QED BY <1>1, <3>1, <3>2, <3>3, <3>4, ImpFrame
  <2> QED BY <2>1, <2>2
<1>13. \A m \in Msgs : Imported(m) \/ m \in imp[i].stored => Imported(m)'
  BY <1>2, <1>3, <1>1 DEF Imported
<1>14. Stored' BY <1>8, <1>13 DEF IInv, Stored
<1>15. ASSUME NEW q \in Requests, At(q, "ok")'
       PROVE  (row[Msg(q)].handled \/ Imported(Msg(q)))'
  <2>1. Msg(q)' = Msg(q) /\ Msg(q) \in Msgs BY <1>1, Types DEF Msg
  <2>2. row[Msg(q)].handled \/ Imported(Msg(q))
    BY <1>1, <1>15 DEF IInv, SuccessUnlessImported, At
  <2>3. PICK m \in Msgs : m = Msg(q) BY <2>1
  <2>4. (row[m].handled \/ Imported(m))' BY <1>8, <1>13, <2>2, <2>3
  <2> QED BY <2>1, <2>3, <2>4 DEF Imported
<1>16. SuccessUnlessImported' BY <1>15 DEF SuccessUnlessImported
<1> QED BY <1>9, <1>10, <1>11, <1>12, <1>14, <1>16 DEF IInv

-------------------------------------------------------------------------------
LEMMA ServeInv ==
  ASSUME IInv, NEW r \in Requests, Serve(r)
  PROVE  IInv'
<1>2. CASE TakeKeyLock(r) BY <1>2, TakeKeyLockInv
<1>3. CASE Store(r) BY <1>3, StoreInv
<1>4. CASE StoreUnseen(r)
  <2>1. row[Msg(r)].handled \/ Imported(Msg(r))
    BY <1>4, Types DEF IInv, Stored, StoreUnseen
  <2> QED BY <1>4, <2>1, EndInv DEF StoreUnseen, At, Open
<1>5. CASE ClaimWon(r) BY <1>5, ClaimWonInv
<1>6. CASE ClaimLost(r)
  <2>1. row[Msg(r)].handled BY <1>6 DEF IInv, Snapshots, ClaimLost
  <2> QED BY <1>6, <2>1, EndInv DEF ClaimLost, At, Open
<1>7. CASE ClaimConflict(r) BY <1>7, EndInv DEF ClaimConflict, At, Open
<1>8. CASE TouchKnown(r) \/ TouchNew(r) BY <1>8, TouchInv
<1>9. CASE TouchRaced(r) BY <1>9, EndInv DEF TouchRaced, At, Open
<1>10. CASE Flush(r) BY <1>10, FlushInv
<1>11. CASE Retry(r) BY <1>11, RetryInv
<1>12. CASE GiveUp(r) BY <1>12, EndInv DEF GiveUp, FlushConflict, At, Open
<1>13. CASE CommitWebhook(r) BY <1>13, CommitWebhookInv
<1> QED
  BY <1>2, <1>3, <1>4, <1>5, <1>6, <1>7, <1>8, <1>9, <1>10, <1>11, <1>12, <1>13
  DEF Serve

(* Only an open import waits. *)
LEMMA WaiterOpen ==
  ASSUME NEW i \in Imports, NEW q, WaitsFor(i, q)
  PROVE  imp[i].pc \in ImportOpen
BY Disjoint DEF WaitsFor, AwaitsKey, AwaitsThread, Links, ImportOpen

LEMMA DoImportInv ==
  ASSUME IInv, NEW i \in Imports, DoImport(i)
  PROVE  IInv'
<1>1. CASE ImportFinds(i) BY <1>1, ImportFindsInv
<1>2. CASE ImportCreates(i) BY <1>2, ImportCreatesInv
<1>3. CASE ImportRaced(i) BY <1>3, ImportAbortsInv DEF ImportRaced, ImportOpen
<1>4. ASSUME NEW m \in Msgs, ImportLocks(i, m) PROVE IInv' BY <1>4, ImportLocksInv
<1>5. ASSUME NEW m \in Msgs, ImportStores(i, m) PROVE IInv' BY <1>5, ImportStoresInv
<1>6. CASE ImportConflict(i) BY <1>6, ImportAbortsInv DEF ImportConflict, Links, ImportOpen
<1>7. CASE ImportDeadlock(i)
  <2>1. PICK S \in SUBSET Procs : i \in S /\ Circle(S) BY <1>7 DEF ImportDeadlock, Deadlocked
  <2>2. PICK q \in S : WaitsFor(i, q) BY <2>1 DEF Circle
  <2> QED BY <1>7, <2>2, WaiterOpen, ImportAbortsInv DEF ImportDeadlock
<1>8. CASE CommitImport(i) BY <1>8, CommitImportInv
<1> QED BY <1>1, <1>2, <1>3, <1>4, <1>5, <1>6, <1>7, <1>8 DEF DoImport

LEMMA StutterInv ==
  ASSUME IInv, UNCHANGED vars
  PROVE  IInv'
<1> USE DEF vars, IInv
<1>1. TypeOK' BY DEF TypeOK
<1>2. Locks' BY DEF Locks, HoldsThread, At, Msg, Chat
<1>3. \A r \in Requests : Snapshots(r)' BY DEF Snapshots, At, Msg, Chat
<1>4. \A i \in Imports : ImpOk(i)' BY DEF ImpOk, ImportKeys, ImportThread, IsNext
<1>5. Stored' BY DEF Stored, Imported
<1>6. SuccessUnlessImported' BY DEF SuccessUnlessImported, At, Msg, Imported
<1> QED BY <1>1, <1>2, <1>3, <1>4, <1>5, <1>6

LEMMA StepInv ==
  ASSUME IInv, [Next]_vars
  PROVE  IInv'
<1>1. ASSUME NEW r \in Requests, Receive(r) PROVE IInv' BY <1>1, ReceiveInv
<1>2. ASSUME NEW r \in Requests, Serve(r) PROVE IInv' BY <1>2, ServeInv
<1>3. ASSUME NEW r \in Requests, Crash(r) PROVE IInv' BY <1>3, EndInv DEF Crash
<1>4. ASSUME NEW i \in Imports, ImportBegins(i) PROVE IInv' BY <1>4, ImportBeginsInv
<1>5. ASSUME NEW i \in Imports, DoImport(i) PROVE IInv' BY <1>5, DoImportInv
<1>6. ASSUME NEW i \in Imports, ImportCrash(i) PROVE IInv'
  BY <1>6, ImportAbortsInv DEF ImportCrash
<1>7. ASSUME NEW c \in Chats,
             OpenChat(c) \/ AssignToMe(c) \/ MarkResolved(c) \/ MarkOpen(c)
      PROVE  IInv'
  <2>1. PICK values \in Thread : UserWrites(c, values) /\ values.there = thread[c].there
    BY <1>7, UserValues DEF IInv
  <2> QED BY <2>1, UserInv DEF UserWrites
<1> QED BY <1>1, <1>2, <1>3, <1>4, <1>5, <1>6, <1>7, StutterInv DEF Next

(* In every reachable state the lock table says where each transaction     *)
(* stands, and a snapshot is out of date only where "missed" says so.      *)
THEOREM Invariance == Spec => []IInv
BY InitInv, StepInv, PTL DEF Spec

(* Type correctness: requests stay within their attempts (the workers'     *)
(* MAX_TRIES_ON_CONCURRENCY_FAILURE), and locks are held by transactions.  *)
THEOREM TypeCorrect == Spec => []TypeOK
BY Invariance, PTL DEF IInv

(* A webhook that was answered {'status': 'success'} had its message       *)
(* handled, unless an import stored the message meanwhile.                 *)
THEOREM Answered == Spec => []SuccessUnlessImported
BY Invariance, PTL DEF IInv

-------------------------------------------------------------------------------
(* Nobody is stuck.  A request that inserted its conversation holds a lock *)
(* others wait for; it could not go on if a write had gone unseen by it    *)
(* before, but then it would have met that conversation and inserted none. *)
Later(r) ==
  /\ req[r].pc \in Open /\ ~req[r].thread.there /\ r \in missed => thread[Chat(r)].there
  /\ At(r, "touched") /\ ~req[r].thread.there => r \notin missed

LEMMA SameLater ==
  ASSUME NEW r \in Requests, req'[r] = req[r], r \in missed' <=> r \in missed,
         thread'[Chat(r)] = thread[Chat(r)], Later(r)
  PROVE  Later(r)'
<1>1. Chat(r)' = Chat(r) BY DEF Chat, Msg
<1> QED BY <1>1 DEF Later, At

(* A step of r's transaction, its end included, that neither commits a     *)
(* conversation nor takes a new snapshot.                                  *)
LEMMA WithinLater ==
  ASSUME TypeOK, NEW r \in Requests, NEW p \in Pcs, Goto(r, p), UNCHANGED <<thread, missed>>,
         \A q \in Requests : Later(q), req[r].pc \in Open,
         p = "touched" /\ ~req[r].thread.there => ~thread[Chat(r)].there
  PROVE  \A q \in Requests : Later(q)'
<1>1. /\ req'[r].pc = p /\ req'[r].msg = req[r].msg /\ req'[r].thread = req[r].thread
      /\ \A q \in Requests : q # r => req'[q] = req[q]
  BY Moves DEF Goto, TypeOK
<1>2. Later(r)'
  <2>1. Chat(r)' = Chat(r) BY <1>1 DEF Chat, Msg
  <2> QED BY <1>1, <2>1 DEF Later, At
<1>3. ASSUME NEW q \in Requests \ {r} PROVE Later(q)'
  <2>1. thread'[Chat(q)] = thread[Chat(q)] OBVIOUS
  <2> QED BY <1>1, <2>1, SameLater
<1> QED BY <1>2, <1>3

LEMMA BeginLater ==
  ASSUME TypeOK, NEW r \in Requests, Begin(r), thread' = thread, \A q \in Requests : Later(q)
  PROVE  \A q \in Requests : Later(q)'
<1>1. missed' = missed \ {r} /\ \A q \in Requests : q # r => req'[q] = req[q]
  BY DEF Begin, TypeOK
<1>2. Later(r)' BY <1>1 DEF Later
<1>3. ASSUME NEW q \in Requests \ {r} PROVE Later(q)'
  BY <1>1, SameLater
<1> QED BY <1>2, <1>3

(* A conversation is written by one who holds it, or when nobody does.  An *)
(* import that leaves it as it is counts for nobody as a write.            *)
LEMMA WriteLater ==
  ASSUME IInv, NEW c \in Chats, NEW q \in Requests, Later(q), req'[q] = req[q],
         missed' \in {missed, missed \cup Readers(c)}, thread'[c].there,
         \A d \in Chats \ {c} : thread'[d] = thread[d],
         threadLock[c] # q \/ missed' = missed
  PROVE  Later(q)'
<1>1. Chat(q) \in Chats /\ Chat(q)' = Chat(q) BY Types DEF IInv, Chat, Msg
<1>2. CASE Chat(q) # c
  <2>1. q \in missed' <=> q \in missed BY <1>2 DEF Readers
  <2> QED BY <1>1, <1>2, <2>1, SameLater
<1>3. CASE Chat(q) = c
  <2>1. threadLock[c] # q => ~HoldsThread(q) BY <1>3 DEF IInv, Locks
  <2> QED BY <1>1, <1>3, <2>1 DEF Later, At, HoldsThread
<1> QED BY <1>2, <1>3

LEMMA ServeLater ==
  ASSUME IInv, NEW r \in Requests, Serve(r), \A q \in Requests : Later(q)
  PROVE  \A q \in Requests : Later(q)'
<1>0. TypeOK BY DEF IInv
<1>1. CASE Retry(r) BY <1>0, <1>1, BeginLater DEF Retry
<1>2. CASE CommitWebhook(r)
  <2>1. /\ Goto(r, "ok") /\ "ok" \in Pcs /\ missed' = missed \cup Readers(Chat(r))
        /\ thread' = [thread EXCEPT ![Chat(r)] = Touched(r)] /\ At(r, "flushed")
    BY <1>2 DEF CommitWebhook, Pcs
  <2>2. PICK c \in Chats : c = Chat(r) BY <1>0, Types
  <2>3. /\ thread'[c].there
        /\ \A d \in Chats \ {c} : thread'[d] = thread[d]
    BY <1>0, <2>1, <2>2, Writes DEF TypeOK
  <2>4. threadLock[c] = r BY <2>1, <2>2 DEF IInv, Locks, HoldsThread
  <2>5. req'[r].pc = "ok" /\ \A q \in Requests : q # r => req'[q] = req[q]
    BY <1>0, <2>1, Moves DEF Goto, TypeOK
  <2>6. Later(r)' BY <2>5 DEF Later, At, Open
  <2>7. ASSUME NEW q \in Requests \ {r} PROVE Later(q)'
    BY <2>1, <2>2, <2>3, <2>4, <2>5, WriteLater
  <2> QED BY <2>6, <2>7
<1>3. CASE TouchKnown(r) \/ TouchNew(r)
  <2>1. /\ Goto(r, "touched") /\ "touched" \in Pcs /\ UNCHANGED <<thread, missed>>
        /\ req[r].pc \in Open /\ (req[r].thread.there \/ ~thread[Chat(r)].there)
    BY <1>3 DEF TouchKnown, TouchNew, Pcs, Open, At
  <2> QED BY <1>0, <2>1, WithinLater
<1>4. CASE \/ TakeKeyLock(r) \/ Store(r) \/ StoreUnseen(r) \/ ClaimWon(r)
           \/ ClaimLost(r) \/ ClaimConflict(r) \/ TouchRaced(r) \/ Flush(r) \/ GiveUp(r)
  <2>1. PICK p \in Pcs : /\ Goto(r, p) /\ p # "touched" /\ UNCHANGED <<thread, missed>>
                         /\ req[r].pc \in Open
    BY <1>4
    DEF TakeKeyLock, Store, StoreUnseen, ClaimWon, ClaimLost, ClaimConflict,
        TouchRaced, Flush, GiveUp, FlushConflict, EndWith, Pcs, Open, At
  <2> QED BY <1>0, <2>1, WithinLater
<1> QED BY <1>1, <1>2, <1>3, <1>4 DEF Serve

LEMMA DoImportLater ==
  ASSUME IInv, NEW i \in Imports, DoImport(i), \A q \in Requests : Later(q)
  PROVE  \A q \in Requests : Later(q)'
<1>1. CASE CommitImport(i)
  <2>1. PICK c \in Chats : c = imp[i].chat BY ImportTypes DEF IInv
  <2>2. /\ missed' = IF imp[i].link \/ threadLock[c] = i THEN missed \cup Readers(c) ELSE missed
        /\ imp[i].link => threadLock[c] = None
        /\ thread' = [thread EXCEPT ![c].there = TRUE] /\ req' = req
    BY <1>1, <2>1 DEF CommitImport
  <2>3. thread'[c].there /\ \A d \in Chats \ {c} : thread'[d] = thread[d]
    BY <2>2 DEF IInv, TypeOK, Thread
  <2>4. \A q \in Requests : threadLock[c] # q \/ missed' = missed
    BY <2>2, Disjoint
  <2> QED BY <2>2, <2>3, <2>4, WriteLater
<1>2. CASE ~CommitImport(i)
  <2>1. UNCHANGED <<req, thread, missed>>
    BY <1>2 DEF DoImport, ImportFinds, ImportCreates, ImportRaced, ImportLocks, ImportStores,
                ImportConflict, ImportDeadlock, ImportAborts
  <2> QED BY <2>1, SameLater
<1> QED BY <1>1, <1>2

LEMMA StepLater ==
  ASSUME IInv, [Next]_vars, \A q \in Requests : Later(q)
  PROVE  \A q \in Requests : Later(q)'
<1>0. TypeOK BY DEF IInv
<1>1. ASSUME NEW r \in Requests, Receive(r) PROVE \A q \in Requests : Later(q)'
  BY <1>0, <1>1, BeginLater DEF Receive
<1>2. ASSUME NEW r \in Requests, Crash(r) PROVE \A q \in Requests : Later(q)'
  <2>1. /\ Goto(r, "error") /\ "error" \in Pcs /\ UNCHANGED <<thread, missed>>
        /\ req[r].pc \in Open
    BY <1>2 DEF Crash, EndWith, Pcs
  <2> QED BY <1>0, <2>1, WithinLater
<1>3. ASSUME NEW c \in Chats,
             OpenChat(c) \/ AssignToMe(c) \/ MarkResolved(c) \/ MarkOpen(c)
      PROVE  \A q \in Requests : Later(q)'
  <2>1. PICK values \in Thread : UserWrites(c, values) /\ values.there = thread[c].there
    BY <1>0, <1>3, UserValues
  <2>2. /\ missed' = missed \cup Readers(c) /\ thread'[c].there /\ req' = req
        /\ \A d \in Chats \ {c} : thread'[d] = thread[d]
        /\ threadLock[c] = None
    BY <1>0, <2>1 DEF UserWrites, TypeOK
  <2>3. \A q \in Requests : threadLock[c] # q BY <2>2, InboundAssumption
  <2> QED BY <2>2, <2>3, WriteLater
<1>4. CASE \/ UNCHANGED vars \/ \E i \in Imports : ImportBegins(i) \/ ImportCrash(i)
  <2>1. UNCHANGED <<req, thread, missed>>
    BY <1>4 DEF vars, ImportBegins, ImportCrash, ImportAborts
  <2> QED BY <2>1, SameLater
<1> QED BY <1>1, <1>2, <1>3, <1>4, ServeLater, DoImportLater DEF Next

(* A set of numbers has a least one: the less-than relation is well-founded. *)
LEMMA LeastNumber ==
  ASSUME NEW T \in SUBSET Nat, T # {}
  PROVE  \E x \in T : \A y \in T : x <= y
<1> DEFINE R == OpToRel(<, Nat)
<1>1. IsWellFoundedOn(R, Nat) BY NatLessThanWellFounded
<1>2. \A x, y \in Nat : y < x => <<y, x>> \in R BY DEF OpToRel
<1>3. \E x \in T : \A y \in T : ~(<<y, x>> \in R)
  <2> HIDE DEF R
  <2> QED BY <1>1, WFMin
<1>4. PICK Q : Q = R OBVIOUS
<1>5. PICK x \in T : \A y \in T : ~(<<y, x>> \in Q) BY <1>3, <1>4
<1>6. \A y \in T : ~(y < x) BY <1>2, <1>4, <1>5
<1> QED BY <1>6

(* An import that has messages left has a newest one. *)
LEMMA Newest ==
  ASSUME TypeOK, NEW i \in Imports, imp[i].todo # {}
  PROVE  \E m \in Msgs : IsNext(i, m)
<1> DEFINE T == {LastMsg - m : m \in imp[i].todo}
<1>1. imp[i].todo \subseteq Msgs BY ImportTypes
<1>2. T \in SUBSET Nat /\ T # {} BY <1>1, InboundAssumption DEF Msgs
<1>3. PICK x \in T : \A y \in T : x <= y BY <1>2, LeastNumber
<1>4. PICK m \in imp[i].todo : x = LastMsg - m BY <1>3
<1>5. \A n \in imp[i].todo : LastMsg - m <= LastMsg - n BY <1>3, <1>4
<1>6. \A n \in imp[i].todo : n <= m BY <1>1, <1>5, InboundAssumption DEF Msgs
<1> QED BY <1>1, <1>6 DEF IsNext

(* Who holds a lock is open, and a process of its own. *)
LEMMA HoldersAreOpen ==
  ASSUME IInv, NEW p \in Procs, NEW q \in Procs, WaitsFor(p, q)
  PROVE  InOpen(q)
<1>1. \/ \E m \in Msgs : keyLock[m] = q
      \/ \E c \in Chats : threadLock[c] = q
  BY DEF WaitsFor
<1>2. CASE q \in Requests
  BY <1>1, <1>2 DEF IInv, Locks, Locked, HoldsThread, At, InOpen, Open
<1>3. CASE q \in Imports
  BY <1>1, <1>3, Disjoint DEF IInv, ImpOk, ImportKeys, ImportThread, Busy, InOpen, ImportOpen
<1> QED BY <1>2, <1>3 DEF Procs

LEMMA RequestGoesOn ==
  ASSUME IInv, NEW r \in Requests, Later(r), req[r].pc \in Open
  PROVE  Ready(r) \/ \E q \in Procs : WaitsFor(r, q)
<1>1. Msg(r) \in Msgs /\ Chat(r) \in Chats /\ r \in Procs BY Types, Disjoint DEF IInv
<1>2. keyLock[Msg(r)] \in Procs \cup {None} /\ threadLock[Chat(r)] \in Procs \cup {None}
  BY <1>1 DEF IInv, TypeOK
<1>3. CASE At(r, "open")
  <2>1. keyLock[Msg(r)] # r BY <1>1, <1>3 DEF IInv, Locks, Locked, At
  <2>2. AwaitsKey(r, Msg(r)) BY <1>3 DEF AwaitsKey
  <2> QED BY <1>1, <1>2, <1>3, <2>1, <2>2 DEF Ready, WaitsFor
<1>4. CASE At(r, "claimed")
  <2>1. threadLock[Chat(r)] # r BY <1>1, <1>4 DEF IInv, Locks, HoldsThread, At
  <2>2. ~req[r].thread.there => AwaitsThread(r, Chat(r)) BY <1>4 DEF AwaitsThread
  <2> QED BY <1>1, <1>2, <1>4, <2>1, <2>2 DEF Ready, WaitsFor
<1>5. CASE At(r, "touched")
  <2>1. threadLock[Chat(r)] = r => r \notin missed
    BY <1>1, <1>5 DEF IInv, Locks, HoldsThread, Later, At
  <2>2. AwaitsThread(r, Chat(r)) BY <1>5 DEF AwaitsThread
  <2> QED BY <1>1, <1>2, <1>5, <2>1, <2>2 DEF Ready, WaitsFor
<1>6. CASE req[r].pc \in {"locked", "stored", "flushed"} BY <1>6 DEF Ready
<1> QED BY <1>3, <1>4, <1>5, <1>6 DEF Open, At

LEMMA ImportGoesOn ==
  ASSUME IInv, NEW i \in Imports, imp[i].pc \in ImportOpen
  PROVE  Ready(i) \/ \E q \in Procs : WaitsFor(i, q)
<1> DEFINE c == imp[i].chat
<1>1. TypeOK /\ ImpOk(i) /\ c \in Chats /\ i \in Procs /\ i \notin Requests
  BY ImportTypes, Disjoint DEF IInv
<1>2. threadLock[c] \in Procs \cup {None} BY <1>1 DEF TypeOK
<1>3. CASE imp[i].pc = "open"
  <2>1. threadLock[c] # i BY <1>1, <1>3 DEF ImpOk, ImportThread, Busy
  <2>2. ~imp[i].knows => AwaitsThread(i, c) BY <1>1, <1>3 DEF AwaitsThread
  <2> QED BY <1>1, <1>2, <1>3, <2>1, <2>2 DEF Ready, WaitsFor
<1>4. CASE imp[i].pc = "locked" \/ (imp[i].pc = "messages" /\ imp[i].todo = {})
  <2>1. imp[i].link => threadLock[c] # i /\ AwaitsThread(i, c)
    BY <1>1, <1>4 DEF ImpOk, ImportThread, AwaitsThread, Links
  <2> QED BY <1>1, <1>2, <1>4, <2>1 DEF Ready, WaitsFor
<1>5. CASE imp[i].pc = "messages" /\ imp[i].todo # {}
  <2>1. PICK m \in Msgs : IsNext(i, m) BY <1>1, <1>5, Newest
  <2>2. keyLock[m] \in Procs \cup {None} BY <1>1 DEF TypeOK
  <2>3. keyLock[m] # i BY <1>1, <1>5, <2>1 DEF ImpOk, ImportKeys, IsNext
  <2>4. AwaitsKey(i, m) BY <1>1, <1>5, <2>1 DEF AwaitsKey
  <2> QED BY <1>1, <2>2, <2>3, <2>4 DEF Ready, WaitsFor
<1> QED BY <1>3, <1>4, <1>5 DEF ImportOpen

(* In a circle, who holds the conversation waits too.  A webhook that has  *)
(* it waits for nothing more; so it is an import, and waits for a message. *)
LEMMA ThreadHolder ==
  ASSUME IInv, NEW S \in SUBSET Procs, Circle(S), NEW c \in Chats, threadLock[c] \in S
  PROVE  \E i \in S \cap Imports :
           /\ threadLock[c] = i /\ imp[i].chat = c /\ imp[i].pc = "messages"
           /\ \E m \in Msgs : AwaitsKey(i, m) /\ keyLock[m] \in S
<1>1. PICK q \in S : q = threadLock[c] /\ q \in Procs OBVIOUS
<1>2. PICK h \in S : WaitsFor(q, h) BY DEF Circle
<1>3. CASE q \in Requests
  <2>1. HoldsThread(q) /\ Chat(q) = c BY <1>1, <1>3 DEF IInv, Locks
  <2>2. ~\E m \in Msgs : AwaitsKey(q, m) BY <1>3, <2>1 DEF HoldsThread, AwaitsKey, At
  <2>3. \A d \in Chats : AwaitsThread(q, d) => d = c BY <1>3, <2>1 DEF AwaitsThread
  <2> QED BY <1>1, <1>2, <2>2, <2>3 DEF WaitsFor
<1>4. CASE q \in Imports
  <2>1. c = imp[q].chat /\ imp[q].pc \in Busy /\ ~imp[q].link /\ q \notin Requests
    BY <1>1, <1>4, Disjoint DEF IInv, ImpOk, ImportThread
  <2>2. ~\E d \in Chats : AwaitsThread(q, d) BY <2>1 DEF AwaitsThread, Links, Busy
  <2>3. PICK m \in Msgs : AwaitsKey(q, m) /\ keyLock[m] = h BY <1>2, <2>2 DEF WaitsFor
  <2>4. imp[q].pc = "messages" BY <2>1, <2>3 DEF AwaitsKey
  <2> QED BY <1>1, <1>4, <2>1, <2>3, <2>4
<1> QED BY <1>1, <1>3, <1>4 DEF Procs

(* Of the messages waited for in a circle, take the oldest.  The import    *)
(* that has it would wait for an older one; so its holder waits for the    *)
(* conversation.                                                           *)
LEMMA CircleThroughImport ==
  ASSUME IInv, NEW S \in SUBSET Procs, Circle(S)
  PROVE  \E i \in S \cap Imports, p \in S :
           /\ threadLock[imp[i].chat] = i /\ imp[i].pc = "messages"
           /\ AwaitsThread(p, imp[i].chat)
           /\ \E m \in Msgs : ChatOf[m] = imp[i].chat /\ keyLock[m] = p
<1> DEFINE T == {m \in Msgs : keyLock[m] \in S /\ \E p \in S : AwaitsKey(p, m)}
<1>1. T \in SUBSET Nat BY DEF Msgs
<1>2. T # {}
  <2>1. PICK p \in S, h \in S : WaitsFor(p, h) BY DEF Circle
  <2>2. CASE \E m \in Msgs : AwaitsKey(p, m) /\ keyLock[m] = h BY <2>2
  <2>3. CASE \E c \in Chats : AwaitsThread(p, c) /\ threadLock[c] = h
    BY <2>3, ThreadHolder
  <2> QED BY <2>1, <2>2, <2>3 DEF WaitsFor
<1>3. PICK m \in T : \A n \in T : m <= n BY <1>1, <1>2, LeastNumber
<1>4. PICK h \in S : h = keyLock[m] BY <1>3
<1>5. PICK g \in S : WaitsFor(h, g) BY DEF Circle
<1>6. m \in Msgs /\ m \in Nat BY <1>1, <1>3
<1>7. CASE h \in Requests
  <2>1. Msg(h) = m /\ req[h].pc \in Locked BY <1>4, <1>6, <1>7 DEF IInv, Locks
  <2>2. ~\E n \in Msgs : AwaitsKey(h, n) BY <1>7, <2>1 DEF AwaitsKey, At, Locked
  <2>3. PICK c \in Chats : AwaitsThread(h, c) /\ threadLock[c] = g BY <1>5, <2>2 DEF WaitsFor
  <2>4. c = ChatOf[m] BY <1>7, <2>1, <2>3 DEF AwaitsThread, Chat
  <2> QED BY <1>4, <1>6, <2>3, <2>4, ThreadHolder
<1>8. CASE h \in Imports
  <2>1. /\ ChatOf[m] = imp[h].chat /\ h \notin Requests
        /\ \A n \in imp[h].todo : n <= m
        /\ m \in imp[h].todo => imp[h].pc = "locked"
    BY <1>4, <1>6, <1>8, Disjoint DEF IInv, ImpOk, ImportKeys
  <2>2. ASSUME NEW n \in Msgs, AwaitsKey(h, n), keyLock[n] = g PROVE FALSE
    <3>1. imp[h].pc = "messages" /\ n \in imp[h].todo BY <2>1, <2>2 DEF AwaitsKey, IsNext
    <3>2. n <= m /\ n # m /\ n \in Nat BY <2>1, <3>1 DEF Msgs
    <3>3. n \in T BY <2>2
    <3>4. m <= n BY <1>3, <3>3
    <3> QED BY <1>6, <3>2, <3>4
  <2>3. PICK c \in Chats : AwaitsThread(h, c) /\ threadLock[c] = g BY <1>5, <2>2 DEF WaitsFor
  <2>4. c = ChatOf[m] BY <2>1, <2>3 DEF AwaitsThread
  <2> QED BY <1>4, <1>6, <2>3, <2>4, ThreadHolder
<1> QED BY <1>4, <1>7, <1>8 DEF Procs

(* A message's lock, the key of a conversation and its row: whoever is     *)
(* open can go on or waits for one that is open too, and every circle goes *)
(* through an import that has the conversation and waits for a message,    *)
(* however many requests, imports, messages and conversations there are.   *)
(* Webhooks among themselves never deadlock.                               *)
THEOREM NoDeadlock == Spec => [](OpenGoesOn /\ CircleNeedsAnImport)
<1> DEFINE Laters == \A r \in Requests : Later(r)
<1>1. Init => IInv /\ Laters
  <2>1. Init => Laters BY DEF Init, Later, At, Open
  <2> QED BY <2>1, InitInv
<1>2. IInv /\ Laters /\ [Next]_vars => IInv' /\ Laters'
  BY StepInv, StepLater
<1>3. IInv /\ Laters => OpenGoesOn /\ CircleNeedsAnImport
  <2> SUFFICES ASSUME IInv, Laters PROVE OpenGoesOn /\ CircleNeedsAnImport OBVIOUS
  <2>1. ASSUME NEW p \in Procs, InOpen(p)
        PROVE  Ready(p) \/ \E q \in Procs : WaitsFor(p, q)
    BY <2>1, Disjoint, RequestGoesOn, ImportGoesOn DEF InOpen, Procs
  <2>2. OpenGoesOn BY <2>1, HoldersAreOpen DEF OpenGoesOn
  <2>3. CircleNeedsAnImport BY CircleThroughImport DEF CircleNeedsAnImport
  <2> QED BY <2>2, <2>3
<1> HIDE DEF Laters
<1> QED BY <1>1, <1>2, <1>3, PTL DEF Spec

-------------------------------------------------------------------------------
(* A step changes committed rows only when it commits: the steps below are *)
(* all that another transaction can see.                                   *)
Visible ==
  \/ \E r \in Requests : CommitWebhook(r)
  \/ \E i \in Imports : CommitImport(i)
  \/ \E c \in Chats : OpenChat(c) \/ AssignToMe(c) \/ MarkResolved(c) \/ MarkOpen(c)

LEMMA Invisible ==
  ASSUME [Next]_vars
  PROVE  Visible \/ UNCHANGED <<row, jobs, thread>>
<1>1. ASSUME NEW r \in Requests, Serve(r)
      PROVE  Visible \/ UNCHANGED <<row, jobs, thread>>
  BY <1>1
  DEF Visible, Serve, TakeKeyLock, Store, StoreUnseen, ClaimWon, ClaimLost,
      ClaimConflict, TouchKnown, TouchNew, TouchRaced, Flush, Retry, GiveUp, EndWith
<1>2. ASSUME NEW i \in Imports, DoImport(i)
      PROVE  Visible \/ UNCHANGED <<row, jobs, thread>>
  BY <1>2
  DEF Visible, DoImport, ImportFinds, ImportCreates, ImportRaced, ImportLocks, ImportStores,
      ImportConflict, ImportDeadlock, ImportAborts
<1> QED
  BY <1>1, <1>2
  DEF Visible, Next, vars, Receive, Crash, EndWith, ImportBegins, ImportCrash, ImportAborts

(* _touch_from_message: a new unread message leaves no conversation        *)
(* resolved, whatever users do while the webhook is running.               *)
LEMMA ReopensStep ==
  ASSUME IInv, [Next]_vars, NEW c \in Chats, thread'[c].unread > thread[c].unread
  PROVE  thread'[c].stage # "resolved"
<1>1. thread[c] \in Thread /\ thread[c].unread \in Nat BY DEF IInv, TypeOK, Thread
<1>2. ~(thread'[c].unread \in {0, thread[c].unread}) BY <1>1
<1>3. ASSUME NEW d \in Chats,
             OpenChat(d) \/ AssignToMe(d) \/ MarkResolved(d) \/ MarkOpen(d)
      PROVE  FALSE
  <2>1. PICK values \in Thread : UserWrites(d, values)
                                 /\ values.unread \in {0, thread[d].unread}
    BY <1>3, UserValues DEF IInv
  <2>2. thread' = [thread EXCEPT ![d] = values] BY <2>1 DEF UserWrites
  <2> QED BY <1>2, <2>1, <2>2 DEF IInv, TypeOK
<1>4. ASSUME NEW r \in Requests, CommitWebhook(r)
      PROVE  thread'[c].stage # "resolved"
  <2>1. thread' = [thread EXCEPT ![Chat(r)] = Touched(r)] /\ At(r, "flushed")
    BY <1>4 DEF CommitWebhook
  <2>2. thread \in [Chats -> Thread] BY DEF IInv, TypeOK
  <2>3. c = Chat(r) /\ thread'[c] = Touched(r) BY <1>2, <2>1, <2>2
  <2> QED BY <1>2, <2>1, <2>3, Writes
<1>5. ASSUME NEW i \in Imports, CommitImport(i) PROVE FALSE
  <2>1. thread' = [thread EXCEPT ![imp[i].chat].there = TRUE] BY <1>5 DEF CommitImport
  <2>2. thread'[c].unread = thread[c].unread BY <1>1, <2>1 DEF IInv, TypeOK, Thread
  <2> QED BY <1>2, <2>2
<1> QED BY <1>2, <1>3, <1>4, <1>5, Invisible DEF Visible

(* _touch_from_message reopens what it counts: see ReopensStep for why its *)
(* snapshot of the stage is the one it writes over.                        *)
THEOREM Reopens == Spec => UnreadReopens
<1>1. IInv /\ [Next]_vars =>
        [\A c \in Chats : thread'[c].unread > thread[c].unread
                            => thread'[c].stage # "resolved"]_vars
  BY ReopensStep
<1> QED BY <1>1, Invariance, PTL DEF Spec, UnreadReopens

-------------------------------------------------------------------------------
(* Inbound implements Inbox.                                               *)

StateOf == [m \in Msgs |-> IF row[m].handled THEN "handled"
                           ELSE IF row[m].there THEN "stored" ELSE "absent"]

LEMMA AbstractInit == Init => InboxView!Init
BY DEF Init, InboxView!Init, NoRow, NoThread

LEMMA AbstractHandle ==
  ASSUME IInv, NEW r \in Requests, CommitWebhook(r), NEW m \in Msgs, m = Msg(r)
  PROVE  InboxView!Handle(m)
<1>1. /\ At(r, "flushed") /\ Msg(r) \in Msgs /\ Chat(r) \in Chats /\ Chat(r) = ChatOf[Msg(r)]
      /\ row' = [row EXCEPT ![Msg(r)] = [there |-> TRUE, handled |-> TRUE]]
      /\ thread' = [thread EXCEPT ![Chat(r)] = Touched(r)]
      /\ jobs' = [jobs EXCEPT ![Msg(r)] = IF Msg(r) \in Incoming THEN @ + 1 ELSE @]
  BY Types DEF IInv, CommitWebhook, Chat
<1>2. row \in [Msgs -> Row] /\ thread \in [Chats -> Thread] /\ jobs \in [Msgs -> Nat]
  BY DEF IInv, TypeOK
<1>3. StateOf[Msg(r)] # "handled" BY <1>1, Writes DEF StateOf
<1>4. StateOf' = [StateOf EXCEPT ![Msg(r)] = "handled"] BY <1>1, <1>2 DEF StateOf
<1>5. {c \in Chats : thread[c].there}' = {c \in Chats : thread[c].there} \cup {Chat(r)}
  BY <1>1, <1>2, Writes
<1> DEFINE unread == [c \in Chats |-> thread[c].unread]
<1>6. CASE Msg(r) \in Incoming
  <2>1. unread' = [unread EXCEPT ![Chat(r)] = @ + 1] BY <1>1, <1>2, <1>6, Writes
  <2>2. jobs' = [jobs EXCEPT ![Msg(r)] = @ + 1] BY <1>1, <1>6
  <2> QED BY <1>1, <1>3, <1>4, <1>5, <1>6, <2>1, <2>2 DEF InboxView!Handle, StateOf
<1>7. CASE Msg(r) \notin Incoming
  <2>1. unread' = unread BY <1>1, <1>2, <1>7, Writes
  <2>2. jobs' = jobs BY <1>1, <1>2, <1>7
  <2> QED BY <1>1, <1>3, <1>4, <1>5, <1>7, <2>1, <2>2 DEF InboxView!Handle, StateOf
<1> QED BY <1>6, <1>7

LEMMA AbstractImport ==
  ASSUME IInv, NEW i \in Imports, CommitImport(i),
         NEW c \in Chats, c = imp[i].chat, NEW S \in SUBSET Msgs, S = imp[i].stored
  PROVE  InboxView!Import(c, S)
<1>1. /\ row' = [m \in Msgs |-> IF m \in S THEN [there |-> TRUE, handled |-> FALSE]
                                           ELSE row[m]]
      /\ thread' = [thread EXCEPT ![c].there = TRUE] /\ jobs' = jobs
  BY DEF CommitImport
<1>2. row \in [Msgs -> Row] /\ thread \in [Chats -> Thread] BY DEF IInv, TypeOK
<1>3. \A m \in S : ChatOf[m] = c /\ StateOf[m] = "absent" BY Commits DEF StateOf
<1>4. StateOf' = [m \in Msgs |-> IF m \in S THEN "stored" ELSE StateOf[m]]
  BY <1>1, <1>2 DEF StateOf
<1>5. thread'[c].there /\ \A d \in Chats : /\ d # c => thread'[d] = thread[d]
                                          /\ thread'[d].unread = thread[d].unread
  BY <1>1, <1>2 DEF Thread
<1>6. {d \in Chats : thread[d].there}' = {d \in Chats : thread[d].there} \cup {c}
  BY <1>5
<1> DEFINE unread == [d \in Chats |-> thread[d].unread]
<1>7. unread' = unread BY <1>5
<1> QED BY <1>1, <1>3, <1>4, <1>6, <1>7 DEF InboxView!Import, StateOf

LEMMA AbstractUser ==
  ASSUME IInv, NEW c \in Chats,
         OpenChat(c) \/ AssignToMe(c) \/ MarkResolved(c) \/ MarkOpen(c)
  PROVE  InboxView!Read(c) \/ UNCHANGED InboxView!vars
<1>1. PICK values \in Thread : /\ UserWrites(c, values)
                               /\ values.there = thread[c].there
                               /\ values.unread \in {0, thread[c].unread}
  BY UserValues DEF IInv
<1>2. /\ thread[c].there /\ thread' = [thread EXCEPT ![c] = values]
      /\ UNCHANGED <<row, jobs>>
  BY <1>1 DEF UserWrites
<1>3. thread \in [Chats -> Thread] BY DEF IInv, TypeOK
<1>4. {d \in Chats : thread[d].there}' = {d \in Chats : thread[d].there}
  BY <1>1, <1>2, <1>3
<1>5. StateOf' = StateOf BY <1>2 DEF StateOf
<1> DEFINE unread == [d \in Chats |-> thread[d].unread]
<1>6. CASE values.unread = 0
  <2>1. unread' = [unread EXCEPT ![c] = 0] BY <1>2, <1>3, <1>6
  <2>2. c \in {d \in Chats : thread[d].there} BY <1>2
  <2> QED BY <1>2, <1>4, <1>5, <2>1, <2>2 DEF InboxView!Read, StateOf
<1>7. CASE values.unread = thread[c].unread
  <2>1. unread' = unread BY <1>2, <1>3, <1>7
  <2> QED BY <1>2, <1>4, <1>5, <2>1 DEF InboxView!vars, StateOf
<1> QED BY <1>1, <1>6, <1>7

LEMMA AbstractStep ==
  ASSUME IInv, [Next]_vars
  PROVE  [InboxView!Next]_InboxView!vars
<1>1. CASE UNCHANGED <<row, jobs, thread>> BY <1>1 DEF InboxView!vars
<1>2. ASSUME NEW r \in Requests, CommitWebhook(r) PROVE InboxView!Next
  <2>1. PICK m \in Msgs : m = Msg(r) BY Types DEF IInv
  <2>2. InboxView!Handle(m) BY <1>2, <2>1, AbstractHandle
  <2> QED BY <2>2 DEF InboxView!Next
<1>3. ASSUME NEW i \in Imports, CommitImport(i) PROVE InboxView!Next
  <2>1. PICK c \in Chats, S \in SUBSET Msgs : c = imp[i].chat /\ S = imp[i].stored
    BY ImportTypes DEF IInv
  <2>2. InboxView!Import(c, S) BY <1>3, <2>1, AbstractImport
  <2> QED BY <2>2 DEF InboxView!Next
<1>4. ASSUME NEW c \in Chats,
             OpenChat(c) \/ AssignToMe(c) \/ MarkResolved(c) \/ MarkOpen(c)
      PROVE  [InboxView!Next]_InboxView!vars
  BY <1>4, AbstractUser DEF InboxView!Next
<1> QED BY <1>1, <1>2, <1>3, <1>4, Invisible DEF Visible

(* "Post-create side-effects run exactly once": whatever the overlap of    *)
(* duplicate webhooks, retries, crashes, imports and users, committed rows *)
(* move as Inbox allows.  A message is handled once, counted as unread     *)
(* once and answered by one auto-reply job, and no count is lost.  What an *)
(* import commits, a conversation and many messages at once, is none of    *)
(* what others have stored or handled before.                              *)
THEOREM Implementation == Spec => ImplementsInbox
<1>1. Init => InboxView!Init BY AbstractInit
<1>2. IInv /\ [Next]_vars => [InboxView!Next]_InboxView!vars BY AbstractStep
<1> QED BY <1>1, <1>2, Invariance, PTL DEF Spec, ImplementsInbox, InboxView!Spec
=============================================================================
