------------------------------- MODULE SyncJob -------------------------------
(***************************************************************************)
(* Sync jobs: the contacts and chats of a phone, imported a few chats per  *)
(* run of a scheduled action (waha_sync_job.py), composed with the status  *)
(* of the sessions they need.                                              *)
(*                                                                         *)
(* A tick is one run.  It calls WAHA, writes the job's row and commits,    *)
(* step by step; a user's write that is committed during a step makes the  *)
(* tick's own a serialization failure.                                     *)
(***************************************************************************)
EXTENDS WahaSession

CONSTANTS
    None,
    Jobs,            \* numbered in the order they are created
    SessionOf, WantsContacts, WantsMessages, ChatsPerRun,   \* of each job
    ChatCount,       \* chats of each session
    MaxEdits,        \* bound: cancellations and requeues by users
    MaxFaults        \* bound: crashes of the worker, and calls that fail

Ticks == [job : Jobs, first : BOOLEAN, outdated : BOOLEAN, at : Nat, end : Nat,
          pc : {"contacts", "queued", "collecting", "chat", "finish"}]

ASSUME SyncJobAssumption ==
    /\ None \notin Ticks
    /\ Jobs \subseteq Nat
    /\ SessionOf \in [Jobs -> Sessions] /\ ChatCount \in [Sessions -> Nat]
    /\ {WantsContacts, WantsMessages} \subseteq [Jobs -> BOOLEAN]
    /\ ChatsPerRun \in [Jobs -> Nat]
    /\ {MaxEdits, MaxFaults} \subseteq Nat

VARIABLES
    state, cursor, total_chats, contacts_done,
    tick,       \* the run of the scheduled action that is under way
    visited,    \* history: the chats imported since the job was queued
    passed,     \* history: those that failed, and were passed over
    mixed,      \* history: jobs a user changed during a tick of theirs
    edits, faults

jobs == <<state, cursor, total_chats, contacts_done, visited, passed, mixed>>
vars == <<sessionVars, jobs, tick, edits, faults>>

States == {"none", "queued", "collecting", "running", "done", "failed", "cancelled"}
Active == {"queued", "collecting", "running"}

Init ==
    /\ SessionInit
    /\ state = [j \in Jobs |-> "none"]
    /\ cursor = [j \in Jobs |-> 0] /\ total_chats = cursor
    /\ contacts_done = [j \in Jobs |-> FALSE]
    /\ visited = [j \in Jobs |-> {}] /\ passed = visited
    /\ tick = None /\ mixed = {}
    /\ edits = 0 /\ faults = 0

-----------------------------------------------------------------------------
(* Users.                                                                  *)

action_sync(j) ==
    /\ \A i \in Jobs : (state[i] = "none") <=> (i >= j)
    /\ status[SessionOf[j]] = "working"
    /\ state' = [state EXCEPT ![j] = "queued"]
    /\ UNCHANGED <<sessionVars, cursor, total_chats, contacts_done, visited, passed, mixed,
                   tick, edits, faults>>

InTick(j) == tick # None /\ tick.job = j

\* A user's write is committed after the transaction of the tick has read the row, or
\* before; the first transaction has read it when it found the job.
Edit(j, new) ==
    /\ edits < MaxEdits /\ edits' = edits + 1
    /\ state' = [state EXCEPT ![j] = new]
    /\ IF InTick(j)
       THEN /\ \E o \in {TRUE} \cup (IF tick.first THEN {} ELSE {tick.outdated}) :
                 tick' = [tick EXCEPT !.outdated = o]
            /\ mixed' = mixed \cup {j}
       ELSE /\ mixed' = IF new = "queued" THEN mixed \ {j} ELSE mixed
            /\ UNCHANGED tick
    /\ UNCHANGED <<sessionVars, faults>>

action_cancel(j) ==
    /\ state[j] \in Active
    /\ Edit(j, "cancelled")
    /\ UNCHANGED <<cursor, total_chats, contacts_done, visited, passed>>

\* The form offers it for a job that ended.
action_requeue(j) ==
    /\ state[j] \in {"done", "failed", "cancelled"}
    /\ Edit(j, "queued")
    /\ cursor' = [cursor EXCEPT ![j] = 0]
    /\ total_chats' = [total_chats EXCEPT ![j] = 0]
    /\ contacts_done' = [contacts_done EXCEPT ![j] = FALSE]
    /\ visited' = [visited EXCEPT ![j] = {}]
    /\ passed' = [passed EXCEPT ![j] = {}]

-----------------------------------------------------------------------------
(* The scheduled action.                                                   *)

Chats(j) == ChatCount[SessionOf[j]]
Least(a, b) == IF a < b THEN a ELSE b

\* Mutant: the number of chats per run is taken as it was entered.
BatchSizeEntered(j) == ChatsPerRun[j]
BatchSize(j) == IF ChatsPerRun[j] = 0 THEN 1 ELSE ChatsPerRun[j]

\* The oldest active job, whether its session is connected or not.
Picked(j) == state[j] \in Active /\ \A i \in Jobs : state[i] \in Active => j <= i

\* Mutant: the last batch is not cut short.
BatchEndUncut(j) == cursor[j] + BatchSize(j)
BatchEnd(j) == Least(cursor[j] + BatchSize(j), total_chats[j])

NewTick(j) ==
    LET end == BatchEnd(j)
    IN  [job |-> j, first |-> TRUE, outdated |-> FALSE, at |-> cursor[j], end |-> end,
         pc |-> CASE state[j] = "queued" /\ WantsContacts[j] /\ ~contacts_done[j] -> "contacts"
                  [] state[j] = "running" -> IF cursor[j] < end THEN "chat" ELSE "finish"
                  [] OTHER -> state[j]]

\* Nothing happens when the session is not connected.
TickStarts(j) ==
    /\ tick = None /\ Picked(j) /\ status[SessionOf[j]] = "working"
    /\ tick' = NewTick(j)
    /\ UNCHANGED <<sessionVars, jobs, edits, faults>>

At(pc) == tick # None /\ tick.pc = pc /\ ~tick.outdated

\* sync_contacts commits page by page; the rows of the job and of its session are
\* written after the last.
Contacts ==
    /\ tick # None /\ tick.pc = "contacts"
    /\ contacts_done' = [contacts_done EXCEPT ![tick.job] = TRUE]
    /\ tick' = [tick EXCEPT !.pc = "queued", !.first = FALSE, !.outdated = FALSE]
    /\ ops' = Outdate(SessionOf[tick.job], ops)
    /\ UNCHANGED <<remote, status, reports, asked, changes, state, cursor, total_chats,
                   visited, passed, mixed, edits, faults>>

\* Mutant: the tick goes on to collect, without another look at the job.
DequeueOn ==
    /\ At("queued")
    /\ state' = [state EXCEPT ![tick.job] = IF WantsMessages[tick.job] THEN "collecting" ELSE "done"]
    /\ tick' = IF WantsMessages[tick.job] THEN [tick EXCEPT !.pc = "collecting"] ELSE None
    /\ UNCHANGED <<sessionVars, cursor, total_chats, contacts_done, visited, passed, mixed,
                   edits, faults>>

Dequeue ==
    /\ At("queued")
    /\ state' = [state EXCEPT ![tick.job] = IF WantsMessages[tick.job] THEN "collecting" ELSE "done"]
    /\ tick' = None
    /\ UNCHANGED <<sessionVars, cursor, total_chats, contacts_done, visited, passed, mixed,
                   edits, faults>>

\* The list of chats; without any, the job ends and the session's row is written too.
Collect ==
    /\ At("collecting")
    /\ LET j == tick.job
       IN  /\ total_chats' = [total_chats EXCEPT ![j] = Chats(j)]
           /\ cursor' = [cursor EXCEPT ![j] = 0]
           /\ state' = [state EXCEPT ![j] = IF Chats(j) = 0 THEN "done" ELSE "running"]
           /\ visited' = [visited EXCEPT ![j] = {}]
           /\ passed' = [passed EXCEPT ![j] = {}]
           /\ ops' = IF Chats(j) = 0 THEN Outdate(SessionOf[j], ops) ELSE ops
    /\ tick' = None
    /\ UNCHANGED <<remote, status, reports, asked, changes, contacts_done, mixed, edits, faults>>

NextChat ==
    tick' = [tick EXCEPT !.at = @ + 1, !.first = FALSE,
                         !.pc = IF tick.at + 1 < tick.end THEN "chat" ELSE "finish"]

\* Mutant: the cursor is moved past the whole batch before its chats are imported.
ImportChatAhead ==
    /\ At("chat")
    /\ visited' = [visited EXCEPT ![tick.job] = @ \cup {tick.at + 1}]
    /\ cursor' = [cursor EXCEPT ![tick.job] = tick.end]
    /\ NextChat
    /\ UNCHANGED <<sessionVars, state, total_chats, contacts_done, passed, mixed, edits, faults>>

\* The messages of a chat and the cursor past it, in one transaction.
ImportChat ==
    /\ At("chat")
    /\ visited' = [visited EXCEPT ![tick.job] = @ \cup {tick.at + 1}]
    /\ cursor' = [cursor EXCEPT ![tick.job] = tick.at + 1]
    /\ NextChat
    /\ UNCHANGED <<sessionVars, state, total_chats, contacts_done, passed, mixed, edits, faults>>

Fault == faults < MaxFaults /\ faults' = faults + 1

\* WAHA does not list the chat's messages, or one of them cannot be stored: that is
\* logged, and the cursor moves on all the same.
ChatFails ==
    /\ At("chat") /\ Fault
    /\ passed' = [passed EXCEPT ![tick.job] = @ \cup {tick.at + 1}]
    /\ cursor' = [cursor EXCEPT ![tick.job] = tick.at + 1]
    /\ NextChat
    /\ UNCHANGED <<sessionVars, state, total_chats, contacts_done, visited, mixed, edits>>

\* The last batch; when the job ends the session's row is written too.
Finish ==
    /\ At("finish")
    /\ tick' = None
    /\ IF cursor[tick.job] >= total_chats[tick.job]
       THEN /\ state' = [state EXCEPT ![tick.job] = "done"]
            /\ ops' = Outdate(SessionOf[tick.job], ops)
       ELSE UNCHANGED <<state, ops>>
    /\ UNCHANGED <<remote, status, reports, asked, changes, cursor, total_chats, contacts_done,
                   visited, passed, mixed, edits, faults>>

\* A write of the job's row that is refused (not after a page of contacts was committed),
\* one of the session's row, an error of the database in a chat, which also keeps the
\* cursor from being written, or a call that fails: whatever the row says by now.
TickFails ==
    /\ tick # None
    /\ (tick.outdated /\ UNCHANGED faults) \/ Fault
    /\ state' = [state EXCEPT ![tick.job] = "failed"]
    /\ tick' = None
    /\ UNCHANGED <<sessionVars, cursor, total_chats, contacts_done, visited, passed, mixed, edits>>

\* The process of the scheduled action dies.
Crash ==
    /\ Fault /\ tick # None
    /\ tick' = None
    /\ UNCHANGED <<sessionVars, jobs, edits>>

TickStep == Contacts \/ Dequeue \/ Collect \/ ImportChat \/ ChatFails \/ Finish \/ TickFails

SessionStep == SessionNext /\ UNCHANGED <<jobs, tick, edits, faults>>

Next ==
    \/ SessionStep \/ TickStep \/ Crash
    \/ \E j \in Jobs : action_sync(j) \/ action_cancel(j) \/ action_requeue(j) \/ TickStarts(j)

Spec == Init /\ [][Next]_vars

FairSpec ==
    /\ Spec /\ SessionFairness
    /\ WF_vars(TickStep) /\ WF_vars(\E j \in Jobs : TickStarts(j))

-----------------------------------------------------------------------------
(* Properties.                                                             *)

TypeOK ==
    /\ SessionTypeOK
    /\ state \in [Jobs -> States]
    /\ cursor \in [Jobs -> Nat] /\ total_chats \in [Jobs -> Nat]
    /\ contacts_done \in [Jobs -> BOOLEAN]
    /\ {visited, passed} \subseteq [Jobs -> SUBSET Nat]
    /\ \A j \in Jobs : visited[j] \cup passed[j] \subseteq 1..Chats(j)
    /\ mixed \subseteq Jobs
    /\ tick \in Ticks \cup {None}
    /\ {edits, faults} \subseteq Nat

\* "A resumable, cron-driven job": whatever crashes or fails, the chats before the
\* cursor are those that were imported and those whose own import failed; none is passed
\* over because of another or of the end of a run, and a job that is done has gone
\* through all of them - unless a user cancelled and re-ran it during a tick.
Resumable ==
    \A j \in Jobs \ mixed :
      /\ cursor[j] <= total_chats[j]
      /\ visited[j] \cap passed[j] = {} /\ visited[j] \cup passed[j] = 1..cursor[j]
      /\ state[j] = "done" /\ WantsMessages[j] => cursor[j] = Chats(j)

\* A cancelled job stays cancelled until a user re-runs it: only the tick that was
\* under way when it was cancelled may still write it, once at most to another state.
CancelHolds ==
    [][\A j \in Jobs :
         state[j] = "cancelled" /\ state'[j] # "cancelled" =>
           \/ InTick(j) /\ j \in mixed /\ (tick' = None \/ state'[j] = "queued")
           \/ edits' = edits + 1 /\ state'[j] = "queued"]_vars

\* With every session connected from some point on, every job ends: none is passed
\* over for ever, and none keeps the others waiting for ever.
JobsEnd ==
    <>[](\A s \in Sessions : remote[s] = "working")
      => <>[](\A j \in Jobs : state[j] \notin Active)
=============================================================================
