---------------------------- MODULE SyncJobProofs ----------------------------
(***************************************************************************)
(* Proofs about SyncJob, for every set of sessions and jobs, numbers of    *)
(* chats and sizes of batches, and any number of users' actions, faults    *)
(* and changes at WAHA.                                                    *)
(***************************************************************************)
EXTENDS SyncJob, TLAPS

USE DEF sessionVars, jobs, vars

Bounded ==
    /\ \A j \in Jobs : total_chats[j] <= Chats(j)
    /\ tick # None /\ tick.pc = "chat" => tick.at < tick.end /\ tick.end <= Chats(tick.job)

(* A tick that no user interfered with finds the row as it left it. *)
Undisturbed(j) ==
    /\ cursor[j] <= total_chats[j]
    /\ visited[j] \cap passed[j] = {} /\ visited[j] \cup passed[j] = 1..cursor[j]
    /\ state[j] = "done" /\ WantsMessages[j] => cursor[j] = Chats(j)
    /\ state[j] = "running" => total_chats[j] = Chats(j)
    /\ InTick(j) =>
         /\ state[j] \in Active
         /\ tick.pc \in {"chat", "finish"} => state[j] = "running"
         /\ tick.pc = "chat" => tick.at = cursor[j] /\ tick.end <= total_chats[j]

IInv == TypeOK /\ Bounded /\ \A j \in Jobs \ mixed : Undisturbed(j)

LEMMA NoneVisited == \A n : n = 0 => 1..n = {} /\ n <= n
OBVIOUS

LEMMA Constants ==
    /\ Jobs \subseteq Nat
    /\ \A j \in Jobs : /\ SessionOf[j] \in Sessions /\ Chats(j) \in Nat
                       /\ WantsMessages[j] \in BOOLEAN /\ WantsContacts[j] \in BOOLEAN
                       /\ BatchSize(j) \in Nat
BY SyncJobAssumption DEF Chats, BatchSize

-------------------------------------------------------------------------------
(* The session's part.                                                     *)

LEMMA SessionType ==
  ASSUME SessionTypeOK, SessionNext
  PROVE  SessionTypeOK'
<1> USE DEF SessionTypeOK
<1>1. ASSUME NEW s \in Sessions, NEW rest \in SUBSET ops
      PROVE  Outdate(s, rest) \subseteq [kind : {"start", "stop", "refresh"}, s : Sessions,
                                         got : Statuses, outdated : BOOLEAN]
  <2>1. \A o \in rest : [o EXCEPT !.outdated = @ \/ o.s = s] \in
                          [kind : {"start", "stop", "refresh"}, s : Sessions,
                           got : Statuses, outdated : BOOLEAN]
    OBVIOUS
  <2> QED BY <2>1 DEF Outdate
<1>2. ASSUME NEW s \in Sessions, NEW new \in Statuses \cup {"absent"}, RemoteIs(s, new)
      PROVE  /\ remote' \in [Sessions -> Statuses \cup {"absent"}]
             /\ reports' \subseteq Sessions \X Statuses
  <2>1. CASE new = "absent"
    <3>1. <<s, "stopped">> \in Sessions \X Statuses BY DEF Statuses
    <3> QED BY <1>2, <2>1, <3>1 DEF RemoteIs
  <2>2. CASE new # "absent"
    <3>1. <<s, new>> \in Sessions \X Statuses BY <2>2
    <3> QED BY <1>2, <2>2, <3>1 DEF RemoteIs
  <2> QED BY <2>1, <2>2
<1>3. ASSUME NEW s \in Sessions, NEW rest \in SUBSET ops, UNCHANGED status,
             CallStart(s, rest) \/ CallStop(s, rest)
      PROVE  SessionTypeOK'
  <2>1. {Op("start", s, "starting"), Op("stop", s, "stopped")} \subseteq
          [kind : {"start", "stop", "refresh"}, s : Sessions, got : Statuses,
           outdated : BOOLEAN]
    BY DEF Op, Statuses
  <2>2. ops' \subseteq [kind : {"start", "stop", "refresh"}, s : Sessions, got : Statuses,
                        outdated : BOOLEAN]
    BY <1>3, <2>1 DEF CallStart, CallStop
  <2>3. UNCHANGED <<remote, reports>> \/ RemoteIs(s, "starting") \/ RemoteIs(s, "absent")
    BY <1>3 DEF CallStart, CallStop
  <2>4. /\ remote' \in [Sessions -> Statuses \cup {"absent"}]
        /\ reports' \subseteq Sessions \X Statuses
    BY <1>2, <2>3 DEF Statuses
  <2> QED BY <1>3, <2>2, <2>4
<1>4. ASSUME NEW s \in Sessions, action_start_session(s) \/ action_stop_session(s)
      PROVE  SessionTypeOK'
  BY <1>3, <1>4 DEF action_start_session, action_stop_session, AskedByUser
<1>5. ASSUME NEW s \in Sessions, action_refresh_status(s)
      PROVE  SessionTypeOK'
  <2>1. CASE remote[s] = "absent" BY <1>1, <1>5, <2>1 DEF action_refresh_status, CallRefresh
  <2>2. CASE remote[s] # "absent"
    <3>1. Op("refresh", s, remote[s]) \in
            [kind : {"start", "stop", "refresh"}, s : Sessions, got : Statuses,
             outdated : BOOLEAN]
      BY <2>2 DEF Op
    <3> QED BY <1>5, <2>2, <3>1 DEF action_refresh_status, CallRefresh
  <2> QED BY <2>1, <2>2
<1>6. ASSUME NEW s \in Sessions, NEW new \in {"working", "failed"}, WahaChanges(s, new)
      PROVE  SessionTypeOK'
  BY <1>2, <1>6 DEF WahaChanges, Statuses
<1>7. ASSUME NEW s \in Sessions, NEW new \in Statuses, _process_session_status(s, new)
      PROVE  SessionTypeOK'
  BY <1>1, <1>7 DEF _process_session_status, Write
<1>8. ASSUME NEW o \in ops, Commit(o) PROVE SessionTypeOK'
  BY <1>1, <1>8 DEF Commit, Write
<1>9. ASSUME NEW o \in ops, Refused(o) PROVE SessionTypeOK'
  BY <1>3, <1>9 DEF Refused
<1> QED BY <1>4, <1>5, <1>6, <1>7, <1>8, <1>9 DEF SessionNext

LEMMA FinishSession ==
  ASSUME SessionTypeOK, NEW s \in Sessions, ops' = Outdate(s, ops) \/ UNCHANGED ops,
         UNCHANGED <<remote, status, reports>>
  PROVE  SessionTypeOK'
<1>1. \A o \in ops : [o EXCEPT !.outdated = @ \/ o.s = s] \in
                       [kind : {"start", "stop", "refresh"}, s : Sessions,
                        got : Statuses, outdated : BOOLEAN]
  BY DEF SessionTypeOK
<1> QED BY <1>1 DEF SessionTypeOK, Outdate

-------------------------------------------------------------------------------
LEMMA InitInv == Init => IInv
<1> SUFFICES ASSUME Init PROVE IInv OBVIOUS
<1>1. SessionTypeOK BY DEF Init, SessionInit, SessionTypeOK, Statuses
<1>2. TypeOK BY <1>1 DEF Init, TypeOK, States
<1>3. Bounded BY Constants DEF Init, Bounded
<1>4. \A j \in Jobs : Undisturbed(j) BY DEF Init, Undisturbed, InTick
<1> QED BY <1>2, <1>3, <1>4 DEF IInv

LEMMA SessionStepInv ==
  ASSUME IInv, SessionStep
  PROVE  IInv'
<1>1. SessionTypeOK' BY SessionType DEF IInv, TypeOK, SessionStep
<1> QED BY <1>1 DEF IInv, TypeOK, SessionStep, Bounded, Undisturbed, InTick

LEMMA SyncInv ==
  ASSUME IInv, NEW j \in Jobs, action_sync(j)
  PROVE  IInv'
<1>1. state[j] = "none" BY Constants DEF action_sync
<1>2. TypeOK' BY DEF IInv, TypeOK, action_sync, States, SessionTypeOK
<1>3. Bounded' BY DEF IInv, Bounded, action_sync
<1>4. ASSUME NEW i \in Jobs \ mixed PROVE Undisturbed(i)'
  BY <1>1 DEF IInv, TypeOK, Undisturbed, InTick, action_sync, Active
<1> QED BY <1>2, <1>3, <1>4 DEF IInv, action_sync

(* A user's write: the job counts as disturbed if it is in the tick. *)
LEMMA EditTick ==
  ASSUME TypeOK, NEW j \in Jobs, NEW new \in States, Edit(j, new)
  PROVE  /\ state' = [state EXCEPT ![j] = new] /\ UNCHANGED sessionVars
         /\ InTick(j) => j \in mixed'
         /\ ~InTick(j) => UNCHANGED tick
         /\ mixed' \subseteq Jobs /\ mixed \ {j} \subseteq mixed'
         /\ tick' # None <=> tick # None
         /\ tick # None => /\ tick' \in Ticks
                           /\ tick'.job = tick.job /\ tick'.pc = tick.pc
                           /\ tick'.at = tick.at /\ tick'.end = tick.end
         /\ j \in mixed /\ j \notin mixed' => new = "queued"
         /\ edits' \in Nat /\ UNCHANGED faults
<1>1. edits' \in Nat BY DEF TypeOK, Edit
<1>2. CASE InTick(j)
  <2>1. PICK o \in {TRUE} \cup (IF tick.first THEN {} ELSE {tick.outdated}) :
          tick' = [tick EXCEPT !.outdated = o]
    BY <1>2 DEF Edit
  <2>2. tick \in Ticks BY <1>2 DEF TypeOK, InTick
  <2>3. o \in BOOLEAN BY <2>2 DEF Ticks
  <2>4. tick' \in Ticks /\ tick'.job = tick.job /\ tick'.pc = tick.pc
        /\ tick'.at = tick.at /\ tick'.end = tick.end
    BY <2>1, <2>2, <2>3 DEF Ticks
  <2>5. tick # None /\ tick' # None BY <1>2, <2>4, SyncJobAssumption DEF InTick
  <2>6. mixed' = mixed \cup {j} /\ state' = [state EXCEPT ![j] = new]
        /\ UNCHANGED sessionVars /\ UNCHANGED faults
    BY <1>2 DEF Edit
  <2> QED BY <1>1, <1>2, <2>4, <2>5, <2>6 DEF TypeOK
<1>3. CASE ~InTick(j) BY <1>1, <1>3 DEF Edit, TypeOK
<1> QED BY <1>2, <1>3

LEMMA CancelInv ==
  ASSUME IInv, NEW j \in Jobs, action_cancel(j)
  PROVE  IInv'
<1>1. Edit(j, "cancelled") /\ UNCHANGED <<cursor, total_chats, contacts_done, visited, passed>>
  BY DEF action_cancel
<1>2. "cancelled" \in States BY DEF States
<1>3. TypeOK BY DEF IInv
<1> USE EditTick, <1>1, <1>2, <1>3
<1>4. TypeOK'
  BY DEF TypeOK, SessionTypeOK
<1>5. Bounded' BY DEF IInv, Bounded
<1>6. ASSUME NEW i \in Jobs \ mixed' PROVE Undisturbed(i)'
  <2>1. CASE i = j
    <3>1. ~InTick(i) /\ ~InTick(i)' /\ state'[i] = "cancelled" BY <2>1 DEF InTick, TypeOK
    <3>2. i \notin mixed BY <2>1
    <3> QED BY <3>1, <3>2 DEF IInv, Undisturbed
  <2>2. CASE i # j
    <3>1. i \notin mixed /\ state'[i] = state[i] /\ (InTick(i)' <=> InTick(i))
      BY <2>2 DEF InTick, TypeOK
    <3> QED BY <3>1 DEF IInv, Undisturbed, InTick
  <2> QED BY <2>1, <2>2
<1> QED BY <1>4, <1>5, <1>6 DEF IInv

LEMMA RequeueInv ==
  ASSUME IInv, NEW j \in Jobs, action_requeue(j)
  PROVE  IInv'
<1>1. /\ Edit(j, "queued")
      /\ cursor' = [cursor EXCEPT ![j] = 0]
      /\ total_chats' = [total_chats EXCEPT ![j] = 0]
      /\ contacts_done' = [contacts_done EXCEPT ![j] = FALSE]
      /\ visited' = [visited EXCEPT ![j] = {}]
      /\ passed' = [passed EXCEPT ![j] = {}]
  BY DEF action_requeue
<1>2. "queued" \in States BY DEF States
<1>3. TypeOK BY DEF IInv
<1> USE EditTick, <1>1, <1>2, <1>3
<1>4. TypeOK'
  <2>1. \A i \in Jobs : visited'[i] \cup passed'[i] \subseteq 1..Chats(i)
    BY DEF TypeOK
  <2>2. SessionTypeOK' BY DEF TypeOK, SessionTypeOK
  <2> QED BY <2>1, <2>2 DEF TypeOK
<1>5. Bounded'
  BY Constants DEF IInv, Bounded, TypeOK
<1>6. ASSUME NEW i \in Jobs \ mixed' PROVE Undisturbed(i)'
  <2>1. CASE i = j
    <3>1. ~InTick(i) /\ ~InTick(i)' /\ state'[i] = "queued" BY <2>1 DEF InTick, TypeOK
    <3>2. cursor'[i] = 0 /\ total_chats'[i] = 0 /\ visited'[i] = {} /\ passed'[i] = {}
      BY <2>1 DEF TypeOK
    <3>3. visited'[i] \cup passed'[i] = 1..cursor'[i] /\ cursor'[i] <= total_chats'[i]
      BY <3>2, NoneVisited
    <3> QED BY <3>1, <3>2, <3>3 DEF Undisturbed
  <2>2. CASE i # j
    <3>1. i \notin mixed /\ state'[i] = state[i] /\ (InTick(i)' <=> InTick(i))
      BY <2>2 DEF InTick, TypeOK
    <3>2. /\ cursor'[i] = cursor[i] /\ total_chats'[i] = total_chats[i]
          /\ visited'[i] = visited[i] /\ passed'[i] = passed[i]
      BY <2>2 DEF TypeOK
    <3> QED BY <3>1, <3>2 DEF IInv, Undisturbed, InTick
  <2> QED BY <2>1, <2>2
<1> QED BY <1>4, <1>5, <1>6 DEF IInv

-------------------------------------------------------------------------------
(* The scheduled action. *)

LEMMA StartInv ==
  ASSUME IInv, NEW j \in Jobs, TickStarts(j)
  PROVE  IInv'
<1> USE DEF IInv
<1>1. tick' = NewTick(j) /\ state[j] \in Active /\ tick = None
      /\ UNCHANGED <<sessionVars, jobs, edits, faults>>
  BY DEF TickStarts, Picked
<1>2. /\ cursor[j] \in Nat /\ total_chats[j] \in Nat /\ total_chats[j] <= Chats(j)
      /\ BatchEnd(j) \in Nat /\ BatchEnd(j) <= total_chats[j]
  BY Constants DEF TypeOK, Bounded, BatchEnd, Least
<1>3. /\ NewTick(j).job = j /\ NewTick(j).at = cursor[j] /\ NewTick(j).end = BatchEnd(j)
      /\ NewTick(j).pc \in {"chat", "finish"} => state[j] = "running"
      /\ NewTick(j).pc = "chat" => cursor[j] < BatchEnd(j)
      /\ NewTick(j) \in Ticks
  BY <1>1, <1>2 DEF NewTick, Ticks, Active
<1>4. TypeOK' BY <1>1, <1>3 DEF TypeOK, SessionTypeOK
<1>5. Bounded' BY <1>1, <1>2, <1>3, Constants DEF Bounded, Chats
<1>6. ASSUME NEW i \in Jobs \ mixed' PROVE Undisturbed(i)'
  BY <1>1, <1>2, <1>3 DEF Undisturbed, InTick
<1> QED BY <1>4, <1>5, <1>6

(* A step that ends the tick, or leaves its job where it was. *)
LEMMA TickInv ==
  ASSUME IInv, TickStep \/ Crash
  PROVE  IInv'
<1> USE DEF IInv
<1>1. tick # None /\ tick \in Ticks /\ tick.job \in Jobs
  BY DEF TickStep, Contacts, Dequeue, Collect, ImportChat, ChatFails, Finish, TickFails, Crash,
         At, TypeOK, Ticks
<1> DEFINE j == tick.job
<1>2. \A i \in Jobs : InTick(i) <=> i = j BY <1>1 DEF InTick
<1>3. CASE Contacts
  <2>1. tick' \in Ticks /\ tick'.job = j /\ tick'.pc = "queued"
    BY <1>1, <1>3 DEF Contacts, Ticks
  <2>2. SessionTypeOK'
    BY <1>1, <1>3, FinishSession, Constants DEF Contacts, TypeOK
  <2>5. TypeOK' BY <1>1, <1>3, <2>1, <2>2 DEF Contacts, TypeOK
  <2>3. Bounded' BY <1>3, <2>1 DEF Contacts, Bounded
  <2>4. ASSUME NEW i \in Jobs \ mixed' PROVE Undisturbed(i)'
    BY <1>2, <1>3, <2>1 DEF Contacts, Undisturbed, InTick
  <2> QED BY <2>3, <2>4, <2>5
<1>4. CASE Dequeue
  <2>1. state' \in [Jobs -> States] /\ tick' = None
        /\ state'[j] # "running" /\ (state'[j] = "done" => ~WantsMessages[j])
        /\ \A i \in Jobs \ {j} : state'[i] = state[i]
    BY <1>1, <1>4, Constants DEF Dequeue, TypeOK, States
  <2>2. TypeOK' BY <1>4, <2>1 DEF Dequeue, TypeOK, SessionTypeOK
  <2>3. Bounded' BY <1>4, <2>1 DEF Dequeue, Bounded
  <2>4. ASSUME NEW i \in Jobs \ mixed' PROVE Undisturbed(i)'
    BY <1>4, <2>1 DEF Dequeue, Undisturbed, InTick
  <2> QED BY <2>2, <2>3, <2>4
<1>5. CASE Collect
  <2> HIDE DEF IInv
  <2>0. TypeOK /\ Bounded /\ \A i \in Jobs \ mixed : Undisturbed(i) BY DEF IInv
  <2>1. /\ total_chats' = [total_chats EXCEPT ![j] = Chats(j)]
        /\ cursor' = [cursor EXCEPT ![j] = 0]
        /\ state' = [state EXCEPT ![j] = IF Chats(j) = 0 THEN "done" ELSE "running"]
        /\ visited' = [visited EXCEPT ![j] = {}]
        /\ passed' = [passed EXCEPT ![j] = {}]
        /\ ops' = Outdate(SessionOf[j], ops) \/ UNCHANGED ops
        /\ tick' = None /\ UNCHANGED <<remote, status, reports, contacts_done, mixed, edits, faults>>
    BY <1>5 DEF Collect
  <2>2. TypeOK'
    <3>1. SessionTypeOK' BY <1>1, <2>0, <2>1, FinishSession, Constants DEF TypeOK
    <3>2. \A i \in Jobs : visited'[i] \cup passed'[i] \subseteq 1..Chats(i)
      BY <1>1, <2>0, <2>1 DEF TypeOK
    <3> QED BY <1>1, <2>0, <2>1, <3>1, <3>2, Constants DEF TypeOK, States
  <2>3. Bounded' BY <1>1, <2>0, <2>1, Constants DEF Bounded, TypeOK
  <2>4. ASSUME NEW i \in Jobs \ mixed' PROVE Undisturbed(i)'
    <3>1. CASE i = j
      <4>1. cursor'[i] = 0 /\ visited'[i] = {} /\ passed'[i] = {} /\ total_chats'[i] = Chats(i)
            /\ Chats(i) \in Nat /\ (state'[i] = "done" => Chats(i) = 0)
        BY <1>1, <2>0, <2>1, <3>1, Constants DEF TypeOK
      <4>2. visited'[i] \cup passed'[i] = 1..cursor'[i] /\ cursor'[i] <= total_chats'[i]
        BY <4>1, NoneVisited
      <4>3. ~InTick(i)' BY <2>1 DEF InTick
      <4> QED BY <2>1, <4>1, <4>2, <4>3 DEF Undisturbed, Chats
    <3>2. CASE i # j
      BY <2>0, <2>1, <3>2 DEF TypeOK, Undisturbed, InTick
    <3> QED BY <3>1, <3>2
  <2> QED BY <2>2, <2>3, <2>4 DEF IInv
<1>6. CASE ImportChat \/ ChatFails
  <2> HIDE DEF IInv
  <2>0. TypeOK /\ Bounded /\ \A i \in Jobs \ mixed : Undisturbed(i) BY DEF IInv
  <2>1. /\ tick.pc = "chat"
        /\ \/ /\ visited' = [visited EXCEPT ![j] = @ \cup {tick.at + 1}]
              /\ passed' = passed
           \/ /\ passed' = [passed EXCEPT ![j] = @ \cup {tick.at + 1}]
              /\ visited' = visited
        /\ cursor' = [cursor EXCEPT ![j] = tick.at + 1]
        /\ tick' = [tick EXCEPT !.at = @ + 1, !.first = FALSE,
                                !.pc = IF tick.at + 1 < tick.end THEN "chat" ELSE "finish"]
        /\ UNCHANGED <<sessionVars, state, total_chats, contacts_done, mixed, edits>>
    BY <1>6 DEF ImportChat, ChatFails, NextChat, At
  <2>2. /\ tick.at \in Nat /\ tick.end \in Nat /\ tick.at < tick.end /\ tick.end <= Chats(j)
        /\ Chats(j) \in Nat
    BY <1>1, <2>0, <2>1, Constants DEF Ticks, Bounded
  <2>3. /\ tick' \in Ticks /\ tick'.job = j /\ tick'.at = tick.at + 1 /\ tick'.end = tick.end
        /\ tick'.pc = IF tick.at + 1 < tick.end THEN "chat" ELSE "finish"
    <3> DEFINE pc == IF tick.at + 1 < tick.end THEN "chat" ELSE "finish"
    <3>1. pc \in {"chat", "finish"} /\ tick.at + 1 \in Nat BY <2>2
    <3>2. tick' = [tick EXCEPT !.at = @ + 1, !.first = FALSE, !.pc = pc] BY <2>1
    <3> HIDE DEF pc
    <3>3. tick' \in Ticks /\ tick'.job = j /\ tick'.at = tick.at + 1 /\ tick'.end = tick.end
          /\ tick'.pc = pc
      BY <1>1, <3>1, <3>2 DEF Ticks
    <3> QED BY <3>3 DEF pc
  <2>4. /\ {visited', passed'} \subseteq [Jobs -> SUBSET Nat]
        /\ visited'[j] \cup passed'[j] = visited[j] \cup passed[j] \cup {tick.at + 1}
        /\ tick.at + 1 \notin visited[j] \cup passed[j] =>
             (visited[j] \cap passed[j] = {} => visited'[j] \cap passed'[j] = {})
        /\ \A i \in Jobs \ {j} : visited'[i] = visited[i] /\ passed'[i] = passed[i]
    BY <1>1, <2>0, <2>1, <2>2 DEF TypeOK
  <2>5. TypeOK'
    <3>1. SessionTypeOK' BY <2>0, <2>1 DEF TypeOK, SessionTypeOK
    <3>2. \A i \in Jobs : visited'[i] \cup passed'[i] \subseteq 1..Chats(i)
      BY <2>0, <2>2, <2>4 DEF TypeOK
    <3>3. cursor' \in [Jobs -> Nat] BY <1>1, <2>0, <2>1, <2>2 DEF TypeOK
    <3>4. faults' \in Nat BY <1>6, <2>0 DEF TypeOK, ImportChat, ChatFails, Fault
    <3> QED BY <2>0, <2>1, <2>3, <2>4, <3>1, <3>2, <3>3, <3>4 DEF TypeOK
  <2>6. Bounded' BY <2>0, <2>1, <2>2, <2>3 DEF Bounded, Chats
  <2>7. ASSUME NEW i \in Jobs \ mixed' PROVE Undisturbed(i)'
    <3>1. CASE i = j
      <4>1. Undisturbed(j) /\ InTick(j) BY <1>2, <1>1, <2>0, <2>1, <3>1
      <4>2. /\ tick.at = cursor[j] /\ tick.end <= total_chats[j]
            /\ visited[j] \cap passed[j] = {} /\ visited[j] \cup passed[j] = 1..tick.at
            /\ state[j] = "running" /\ total_chats[j] \in Nat /\ total_chats[j] = Chats(j)
        BY <1>1, <2>0, <2>1, <4>1 DEF Undisturbed, TypeOK
      <4>3. cursor'[i] = tick.at + 1 /\ total_chats'[i] = total_chats[j] /\ state'[i] = "running"
        BY <1>1, <2>0, <2>1, <3>1, <4>2 DEF TypeOK
      <4>4. tick.at + 1 \notin 1..tick.at /\ (1..tick.at) \cup {tick.at + 1} = 1..(tick.at + 1)
        BY <2>2
      <4>5. visited'[i] \cap passed'[i] = {} /\ visited'[i] \cup passed'[i] = 1..cursor'[i]
        BY <2>4, <3>1, <4>2, <4>3, <4>4
      <4> QED BY <2>2, <2>3, <3>1, <4>2, <4>3, <4>5 DEF Undisturbed, InTick, Active, Chats
    <3>2. CASE i # j
      BY <1>2, <2>0, <2>1, <2>3, <2>4, <3>2 DEF TypeOK, Undisturbed, InTick
    <3> QED BY <3>1, <3>2
  <2> QED BY <2>5, <2>6, <2>7 DEF IInv
<1>7. CASE Finish
  <2>1. tick' = None /\ UNCHANGED <<cursor, total_chats, contacts_done, visited, passed, mixed,
                                 edits, faults>>
    BY <1>7 DEF Finish
  <2>2. \/ UNCHANGED state
        \/ cursor[j] >= total_chats[j] /\ state' = [state EXCEPT ![j] = "done"]
    BY <1>7 DEF Finish
  <2>3. SessionTypeOK'
    BY <1>1, <1>7, FinishSession, Constants DEF Finish, TypeOK
  <2>4. state' \in [Jobs -> States] BY <2>2 DEF TypeOK, States
  <2>5. TypeOK' BY <2>1, <2>3, <2>4 DEF TypeOK
  <2>6. Bounded' BY <2>1 DEF Bounded
  <2>7. ASSUME NEW i \in Jobs \ mixed' PROVE Undisturbed(i)'
    <3>1. CASE i = j
      <4>1. Undisturbed(j) /\ InTick(j) /\ tick.pc = "finish"
        BY <1>1, <1>2, <1>7, <2>1, <3>1 DEF Finish, At
      <4>2. state[j] = "running" /\ total_chats[j] = Chats(j) /\ cursor[j] <= total_chats[j]
            /\ cursor[j] \in Nat /\ total_chats[j] \in Nat
        BY <1>1, <4>1 DEF Undisturbed, TypeOK
      <4>3. state'[j] = "running" \/ cursor[j] = Chats(j) BY <2>2, <4>2
      <4> QED BY <2>1, <3>1, <4>1, <4>2, <4>3 DEF Undisturbed, InTick
    <3>2. CASE i # j
      <4>1. state'[i] = state[i] BY <2>2, <3>2 DEF TypeOK
      <4> QED BY <2>1, <4>1 DEF Undisturbed, InTick
    <3> QED BY <3>1, <3>2
  <2> QED BY <2>5, <2>6, <2>7
<1>8. CASE TickFails
  <2>1. state' \in [Jobs -> States] /\ tick' = None /\ state'[j] = "failed"
        /\ \A i \in Jobs \ {j} : state'[i] = state[i]
    BY <1>1, <1>8 DEF TickFails, TypeOK, States
  <2>2. faults' \in Nat BY <1>8 DEF TickFails, Fault, TypeOK
  <2>3. TypeOK' BY <1>8, <2>1, <2>2 DEF TickFails, TypeOK, SessionTypeOK
  <2>4. Bounded' BY <1>8, <2>1 DEF TickFails, Bounded
  <2>5. ASSUME NEW i \in Jobs \ mixed' PROVE Undisturbed(i)'
    BY <1>8, <2>1 DEF TickFails, Undisturbed, InTick
  <2> QED BY <2>3, <2>4, <2>5
<1>9. CASE Crash
  BY <1>9 DEF Crash, Fault, TypeOK, SessionTypeOK, Bounded, Undisturbed, InTick
<1> QED BY <1>3, <1>4, <1>5, <1>6, <1>7, <1>8, <1>9 DEF TickStep

LEMMA NextInv == IInv /\ [Next]_vars => IInv'
<1> SUFFICES ASSUME IInv, [Next]_vars PROVE IInv' OBVIOUS
<1>1. CASE UNCHANGED vars
  BY <1>1 DEF IInv, TypeOK, SessionTypeOK, Bounded, Undisturbed, InTick
<1> QED BY <1>1, SessionStepInv, SyncInv, CancelInv, RequeueInv, StartInv, TickInv DEF Next

LEMMA Invariant == Spec => []IInv
BY InitInv, NextInv, PTL DEF Spec

-------------------------------------------------------------------------------
(* The variables keep their types in every reachable state.                *)
THEOREM TypeCorrect == Spec => []TypeOK
<1>1. IInv => TypeOK BY DEF IInv
<1> QED BY <1>1, Invariant, PTL

(* Crashes, failing calls and the edge of a batch never make the cursor    *)
(* pass over a chat whose own import did not fail, nor a job end before it *)
(* has gone through its last one.                                          *)
THEOREM ChatsAreResumed == Spec => []Resumable
<1>1. IInv => Resumable BY DEF IInv, Resumable, Undisturbed
<1> QED BY <1>1, Invariant, PTL

(* Only the tick that was under way when a job was cancelled, and only its *)
(* last write, can take a job out of that state; or a user who re-runs it. *)
THEOREM CancellationHolds == Spec => CancelHolds
<1>1. ASSUME IInv, [Next]_vars, NEW j \in Jobs, state[j] = "cancelled", state'[j] # "cancelled"
      PROVE  \/ InTick(j) /\ j \in mixed /\ (tick' = None \/ state'[j] = "queued")
             \/ edits' = edits + 1 /\ state'[j] = "queued"
  <2>1. state \in [Jobs -> States] BY <1>1 DEF IInv, TypeOK
  <2>2. InTick(j) => j \in mixed BY <1>1 DEF IInv, Undisturbed, Active
  <2>3. ASSUME NEW i \in Jobs, action_sync(i) PROVE state[i] = "none"
    BY <2>3, Constants DEF action_sync
  <2>4. CASE TickStep \/ Crash
    <3>1. tick' = None /\ InTick(j)
      BY <1>1, <2>1, <2>4 DEF TickStep, Contacts, Dequeue, Collect, ImportChat, ChatFails, Finish,
                             TickFails, Crash, InTick, At
    <3> QED BY <2>2, <3>1
  <2>5. ASSUME NEW i \in Jobs, action_cancel(i) \/ action_requeue(i) \/ action_sync(i)
        PROVE  edits' = edits + 1 /\ state'[j] = "queued"
    BY <1>1, <2>1, <2>3, <2>5 DEF action_cancel, action_requeue, action_sync, Edit
  <2> QED BY <1>1, <2>4, <2>5 DEF Next, SessionStep, TickStarts
<1>2. IInv /\ [Next]_vars =>
        [\A j \in Jobs :
           state[j] = "cancelled" /\ state'[j] # "cancelled" =>
             \/ InTick(j) /\ j \in mixed /\ (tick' = None \/ state'[j] = "queued")
             \/ edits' = edits + 1 /\ state'[j] = "queued"]_vars
  BY <1>1
<1> QED BY <1>2, Invariant, PTL DEF Spec, CancelHolds
===============================================================================
