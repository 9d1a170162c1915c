------------------------------- MODULE Channels -------------------------------
(***************************************************************************)
(* queue_job: the tree of channels through which the runner lets jobs run. *)
(*                                                                         *)
(* A channel takes jobs from its queue while it has capacity, counts them  *)
(* as running and passes them to the queue of its parent; what the root    *)
(* takes is marked enqueued in the database.  The manager learns what      *)
(* happens to the jobs from notifications, and reads the row as it is when *)
(* it gets to the notification.                                            *)
(*                                                                         *)
(* A priority queue is the set of its jobs, of which the least is popped.  *)
(* A job's priority, creation time and sequence number are one number, the *)
(* job itself: the smaller goes first.  Time does not pass during a round. *)
(***************************************************************************)
EXTENDS Integers, FiniteSets, Sequences

CONSTANTS
    Jobs,         \* numbers: their order is the sorting key, the eta aside
    Channels, Root,
    Up,           \* each channel with the channels downstream of it
    Visits,       \* all channels, in the order in which a round visits them
    ChannelOf,    \* the channel of each job
    Capacity,     \* 0 is unlimited
    Sequential,   \* the sequential channels
    Throttle,     \* seconds between two jobs of a channel, 0 is none
    DependsOn,    \* the jobs each job waits for
    Delayed,      \* jobs created with an eta
    MaxNow,       \* bound: time at which jobs are postponed
    MaxUser,      \* bound: buttons and deletions
    MaxFault      \* bound: failures, dead jobs and restarts of the runner

Chain(c) == Up[c] \ {c}

ASSUME ChannelsAssumption ==
    /\ Jobs \subseteq Nat /\ IsFiniteSet(Jobs)
    /\ Root \in Channels
    /\ Up \in [Channels -> SUBSET Channels]
    /\ Up[Root] = {Root}
    /\ \A c \in Channels : c \in Up[c] /\ Root \in Up[c]
    /\ \A c \in Channels \ {Root} : \E p \in Chain(c) : Up[p] = Chain(c)
    /\ \A c, d \in Channels : d \in Up[c] => Up[d] \subseteq Up[c]
    /\ \A b, c, d \in Channels : c \in Up[b] /\ d \in Up[b] => c \in Up[d] \/ d \in Up[c]
    /\ \A c, d \in Channels : d \in Up[c] /\ c \in Up[d] => c = d
    /\ ChannelOf \in [Jobs -> Channels]
    /\ Capacity \in [Channels -> Nat]
    /\ Throttle \in [Channels -> Nat]
    /\ DependsOn \in [Jobs -> SUBSET Jobs]
    /\ MaxNow \in Nat /\ MaxUser \in Nat /\ MaxFault \in Nat

ASSUME ConfigurationAssumption ==
    /\ Sequential \subseteq Channels /\ \A c \in Sequential : Capacity[c] = 1
    /\ Visits \in Seq(Channels)
    /\ \A c \in Channels : \E i \in 1..Len(Visits) :
         /\ Visits[i] = c
         /\ \A k \in 1..Len(Visits) : /\ Visits[k] = c => k = i
                                      /\ Visits[k] \in Chain(c) => i < k

VARIABLES
    db, eta,      \* the row of each job: state and eta, 0 is none
    notes,        \* jobs with a notification to read
    queue, running, failed,   \* of each channel
    wait,         \* the eta of the manager's job, 0 once it is past due
    pause,        \* until when a channel is paused
    turn,         \* 0: reading notifications; a channel of Visits; or asleep
    now, userOps, faults

row == <<db, eta>>
manager == <<queue, running, failed, wait, pause>>
counters == <<userOps, faults>>
vars == <<db, eta, notes, queue, running, failed, wait, pause, turn, now,
          userOps, faults>>

States == {"wait_dependencies", "pending", "enqueued", "started", "done",
           "failed", "cancelled", "deleted"}
Asleep == Len(Visits) + 1
Path(j) == Up[ChannelOf[j]]

\* Any parent that is not done makes a job wait.
Queueable(j) == IF \A p \in DependsOn[j] : db[p] = "done"
                THEN "pending" ELSE "wait_dependencies"

Init ==
    /\ db = [j \in Jobs |-> IF DependsOn[j] = {} THEN "pending"
                                                 ELSE "wait_dependencies"]
    /\ eta = [j \in Jobs |-> IF j \in Delayed THEN 1 ELSE 0]
    /\ notes = Jobs
    /\ queue = [c \in Channels |-> {}]
    /\ running = [c \in Channels |-> {}]
    /\ failed = [c \in Channels |-> {}]
    /\ wait = [j \in Jobs |-> 0]
    /\ pause = [c \in Channels |-> 0]
    /\ turn = 0
    /\ now = 0
    /\ userOps = 0
    /\ faults = 0

-----------------------------------------------------------------------------
(* Notifications.                                                          *)

Without(places, j) == [c \in Channels |-> places[c] \ {j}]
Known(j) == \E c \in Channels : j \in queue[c] \cup running[c] \cup failed[c]

\* Mutant: the job is removed from its own channel alone.
RemoveHere(j) ==
    LET Here(places) == [places EXCEPT ![ChannelOf[j]] = @ \ {j}]
    IN  /\ queue' = Here(queue) /\ running' = Here(running) /\ failed' = Here(failed)
        /\ wait' = [wait EXCEPT ![j] = 0]

\* Removing a job from its channel removes it from all those downstream.
Remove(j) ==
    /\ queue' = Without(queue, j)
    /\ running' = Without(running, j)
    /\ failed' = Without(failed, j)
    /\ wait' = [wait EXCEPT ![j] = 0]

\* In each of these, "kept" tells whether the manager keeps its job, or makes a
\* new one that no channel knows.
SetPending(j, kept) ==
    IF kept /\ j \in queue[ChannelOf[j]]
    THEN UNCHANGED <<queue, running, failed, wait>>
    ELSE /\ queue' = [Without(queue, j) EXCEPT ![ChannelOf[j]] = @ \cup {j}]
         /\ running' = Without(running, j)
         /\ failed' = Without(failed, j)
         /\ wait' = IF kept THEN wait ELSE [wait EXCEPT ![j] = eta[j]]

\* The channels that set_running reaches: it goes downstream until it meets one
\* where the job is running already.
Reached(j, kept) ==
    {c \in Path(j) : ~kept \/ \A d \in Path(j) : c \in Up[d] => j \notin running[d]}

SetRunning(j, kept) ==
    LET reached == Reached(j, kept)
    IN  /\ queue' = [c \in Channels |-> IF c \in reached \/ ~kept
                                        THEN queue[c] \ {j} ELSE queue[c]]
        /\ running' = [c \in Channels |-> IF c \in reached
                                          THEN running[c] \cup {j} ELSE running[c]]
        /\ failed' = [c \in Channels |-> IF c \in reached \/ ~kept
                                         THEN failed[c] \ {j} ELSE failed[c]]
        /\ wait' = IF kept THEN wait ELSE [wait EXCEPT ![j] = eta[j]]

SetFailed(j, kept) ==
    IF kept /\ j \in failed[ChannelOf[j]]
    THEN UNCHANGED <<queue, running, failed, wait>>
    ELSE /\ queue' = Without(queue, j)
         /\ running' = Without(running, j)
         /\ failed' = [Without(failed, j) EXCEPT ![ChannelOf[j]] = @ \cup {j}]
         /\ wait' = IF kept THEN wait ELSE [wait EXCEPT ![j] = eta[j]]

\* A job that waits for its parents keeps its place, unless its eta changed.
SetWaiting(j, kept) ==
    IF kept THEN UNCHANGED <<queue, running, failed, wait>> ELSE Remove(j)

\* The runner reads the row, or finds it deleted.  When the eta is not the one
\* the manager has, the manager's job is removed and made anew.
Notify(j) ==
    /\ turn = 0 /\ j \in notes
    /\ notes' = notes \ {j}
    /\ LET kept == Known(j) /\ wait[j] = eta[j]
       IN  CASE db[j] \in {"done", "cancelled", "deleted"} -> Remove(j)
             [] db[j] = "pending"                          -> SetPending(j, kept)
             [] db[j] \in {"enqueued", "started"}          -> SetRunning(j, kept)
             [] db[j] = "failed"                           -> SetFailed(j, kept)
             [] db[j] = "wait_dependencies"                -> SetWaiting(j, kept)
    /\ UNCHANGED <<row, pause, turn, now, counters>>

-----------------------------------------------------------------------------
(* A round: get_jobs_to_run visits the children before the channel.        *)

\* Mutant: one job too many.
HasCapacityOneMore(c) ==
    /\ ~(c \in Sequential /\ failed[c] # {})
    /\ Capacity[c] = 0 \/ Cardinality(running[c]) <= Capacity[c]

\* Mutant: a sequential channel does not look at its failed jobs.
HasCapacityFailed(c) == Capacity[c] = 0 \/ Cardinality(running[c]) < Capacity[c]

HasCapacity(c) ==
    /\ ~(c \in Sequential /\ failed[c] # {})
    /\ Capacity[c] = 0 \/ Cardinality(running[c]) < Capacity[c]

Paused(c) == Throttle[c] > 0 /\ now < pause[c]
Late(c) == {j \in queue[c] : wait[j] > now}       \* in the eta queue after a pop
Ready(c) == queue[c] \ Late(c)
Before(j, k) == wait[j] < wait[k] \/ (wait[j] = wait[k] /\ j <= k)

\* A sequential channel waits for the first job with an eta to come, if its
\* priority is higher.
HeldBack(c) ==
    /\ c \in Sequential
    /\ \E f \in Late(c) : /\ \A j \in Late(c) : Before(f, j)
                         /\ \A j \in Ready(c) : f < j

CanPop(c) == ~Paused(c) /\ HasCapacity(c) /\ Ready(c) # {} /\ ~HeldBack(c)
Popping(c) == ~Paused(c) /\ HasCapacity(c)
\* Popping makes the jobs whose eta is past due compete with the others.
Competing(c) == [j \in Jobs |-> IF Popping(c) /\ j \in Ready(c) THEN 0 ELSE wait[j]]
Visiting(c) == turn \in 1..Len(Visits) /\ Visits[turn] = c

StartRound ==
    /\ turn = 0
    /\ turn' = 1
    /\ UNCHANGED <<row, notes, manager, now, counters>>

IsParent(p, c) == p \in Chain(c) /\ Up[p] = Chain(c)

\* What the root yields is marked enqueued, by its uuid alone, whatever the row
\* has become meanwhile.
Enqueue(j) ==
    /\ db' = [db EXCEPT ![j] = IF @ = "deleted" THEN @ ELSE "enqueued"]
    /\ notes' = notes \cup {j}

\* The least job leaves the queue for the parent's.  A throttled channel is
\* left after one job.
Pop(c) ==
    /\ Visiting(c) /\ CanPop(c)
    /\ wait' = Competing(c)
    /\ pause' = [pause EXCEPT ![c] = IF Throttle[c] > 0 THEN now + Throttle[c] ELSE @]
    /\ turn' = IF Throttle[c] > 0 THEN turn + 1 ELSE turn
    /\ \E j \in Ready(c) :
         /\ \A k \in Ready(c) : j <= k
         /\ queue' = [d \in Channels |-> IF d = c THEN queue[d] \ {j}
                                         ELSE IF IsParent(d, c) THEN queue[d] \cup {j}
                                         ELSE queue[d]]
         /\ running' = [running EXCEPT ![c] = @ \cup {j}]
         /\ IF c = Root THEN Enqueue(j) ELSE UNCHANGED <<db, notes>>
    /\ UNCHANGED <<failed, eta, now, counters>>

Leave(c) ==
    /\ Visiting(c) /\ ~CanPop(c)
    /\ wait' = Competing(c)
    /\ pause' = [pause EXCEPT ![c] = IF Paused(c) THEN @ ELSE 0]
    /\ turn' = turn + 1
    /\ UNCHANGED <<row, notes, queue, running, failed, now, counters>>

\* get_wakeup_time: pauses and etas of the channels from which a job could run,
\* if it were for the time alone.
\* Mutant: the end of a channel's own pause is not asked for.
OpenUnpaused(c) == \A d \in Up[c] : HasCapacity(d) /\ pause[d] = 0
Open(c) == \A d \in Up[c] : HasCapacity(d) /\ (d # c => pause[d] = 0)
\* Mutant: the end of a pause wakes nobody.
WakeupTimesOfEtas ==
    UNION {{wait[j] : j \in queue[c]} \ {0} : c \in {c \in Channels : Open(c) /\ pause[c] = 0}}

WakeupTimes ==
    UNION {IF pause[c] # 0 THEN {pause[c]} ELSE {wait[j] : j \in queue[c]} \ {0} :
             c \in {c \in Channels : Open(c)}}

\* The runner sleeps until a notification or its wakeup time.  (In the code it
\* also wakes up every minute, "just to be safe".)
Wake ==
    /\ turn = Asleep
    /\ notes # {} \/ \E t \in WakeupTimes : t <= now
    /\ turn' = 0
    /\ UNCHANGED <<row, notes, manager, now, counters>>

\* The runner starts again and reads all jobs that are not done; a channel may
\* survive with its pause.
Restart ==
    /\ faults < MaxFault
    /\ queue' = [c \in Channels |-> {j \in Jobs : ChannelOf[j] = c /\ db[j] = "pending"}]
    /\ running' = [c \in Channels |-> {j \in Jobs : c \in Path(j) /\ db[j] \in {"enqueued", "started"}}]
    /\ failed' = [c \in Channels |-> {j \in Jobs : ChannelOf[j] = c /\ db[j] = "failed"}]
    /\ wait' = [j \in Jobs |-> IF db[j] \in {"pending", "enqueued", "started", "failed"}
                               THEN eta[j] ELSE 0]
    /\ pause' \in {pause, [c \in Channels |-> 0]}
    /\ notes' = {}
    /\ turn' = 0
    /\ faults' = faults + 1
    /\ UNCHANGED <<row, now, userOps>>

-----------------------------------------------------------------------------
(* What happens to the rows: workers, users, time.                         *)

\* The waiting jobs that j releases, by reaching state s as their last parent.
Released(j, s) ==
    {k \in Jobs : /\ j \in DependsOn[k] /\ db[k] = "wait_dependencies"
                  /\ \A p \in DependsOn[k] \ {j} : db[p] = s}

\* j is in state s and the jobs of others in state t; all of it is notified.
Moves(j, s, others, t) ==
    /\ db' = [k \in Jobs |-> IF k = j THEN s ELSE IF k \in others THEN t ELSE db[k]]
    /\ notes' = notes \cup {j} \cup others
    /\ UNCHANGED <<manager, turn, now>>

Start(j) ==
    /\ db[j] = "enqueued"
    /\ Moves(j, "started", {}, "")
    /\ UNCHANGED <<eta, counters>>

Finish(j) ==
    /\ db[j] = "started"
    /\ Moves(j, "done", Released(j, "done"), "pending")
    /\ UNCHANGED <<eta, counters>>

Postpone(j) ==
    /\ db[j] = "started" /\ now < MaxNow
    /\ eta' = [eta EXCEPT ![j] = now + 1]
    /\ Moves(j, "pending", {}, "")
    /\ UNCHANGED counters

Fault == faults < MaxFault /\ faults' = faults + 1 /\ UNCHANGED userOps

Fail(j) ==
    /\ Fault /\ db[j] = "started"
    /\ Moves(j, "failed", {}, "")
    /\ UNCHANGED eta

\* A job found dead is queued again, or fails when it was retried too often.
Dead(j) ==
    /\ Fault /\ db[j] \in {"enqueued", "started"}
    /\ \E s \in {"pending", "failed"} : Moves(j, s, {}, "")
    /\ UNCHANGED eta

UserActs == userOps < MaxUser /\ userOps' = userOps + 1 /\ UNCHANGED <<faults, eta>>
NotStarted == {"wait_dependencies", "pending", "enqueued", "failed"}

ButtonDone(j) ==
    UserActs /\ db[j] \in NotStarted /\ Moves(j, "done", Released(j, "done"), "pending")

ButtonCancelled(j) ==
    /\ UserActs /\ db[j] \in NotStarted
    /\ Moves(j, "cancelled", Released(j, "cancelled"), "cancelled")

Requeue(j) ==
    UserActs /\ db[j] \in {"failed", "done", "cancelled"} /\ Moves(j, Queueable(j), {}, "")

\* The trigger does not notify the deletion of a job that is done.
Delete(j) ==
    /\ UserActs /\ db[j] # "deleted"
    /\ db' = [db EXCEPT ![j] = "deleted"]
    /\ notes' = IF db[j] = "done" THEN notes ELSE notes \cup {j}
    /\ UNCHANGED <<manager, turn, now>>

\* Time passes between rounds, up to the bound and what is waited for then.
Tick ==
    /\ turn \in {0, Asleep}
    /\ now < MaxNow \/ \E c \in Channels : now < pause[c]
    /\ now' = now + 1
    /\ UNCHANGED <<row, notes, manager, turn, counters>>

-----------------------------------------------------------------------------
Round == StartRound \/ Wake \/ \E c \in Channels : Pop(c) \/ Leave(c)
Works(j) == Start(j) \/ Finish(j)

Next ==
    \/ Round \/ Restart \/ Tick
    \/ \E j \in Jobs :
         \/ Notify(j) \/ Works(j) \/ Postpone(j) \/ Fail(j) \/ Dead(j)
         \/ ButtonDone(j) \/ ButtonCancelled(j) \/ Requeue(j) \/ Delete(j)

Spec == Init /\ [][Next]_vars

\* The runner goes on with its rounds and reads notifications, some worker ends
\* what it was given, time passes.
FairSpec ==
    /\ Spec
    /\ WF_vars(Round) /\ WF_vars(Tick)
    /\ SF_vars(\E j \in Jobs : Notify(j)) /\ WF_vars(\E j \in Jobs : Works(j))

-----------------------------------------------------------------------------
(* Properties.                                                             *)

TypeOK ==
    /\ db \in [Jobs -> States] /\ eta \in [Jobs -> Nat]
    /\ notes \subseteq Jobs
    /\ queue \in [Channels -> SUBSET Jobs]
    /\ running \in [Channels -> SUBSET Jobs]
    /\ failed \in [Channels -> SUBSET Jobs]
    /\ wait \in [Jobs -> Nat] /\ pause \in [Channels -> Nat]
    /\ turn \in 0..Asleep /\ now \in Nat
    /\ userOps \in 0..MaxUser /\ faults \in 0..MaxFault

\* "It is possible to dedicate a channel with a limited capacity ... without
\* risking to overflow the system": the jobs that are enqueued or performed in a
\* channel and its subchannels never exceed its capacity, however late the
\* notifications are, and across restarts.
Busy(c) == {j \in Jobs : c \in Path(j) /\ db[j] \in {"enqueued", "started"}}
CapacityKept ==
    \A c \in Channels : Capacity[c] # 0 => Cardinality(Busy(c)) <= Capacity[c]

\* "A sequential queue blocks on failed jobs": no job of the channel is handed
\* out while another one has failed and not been dealt with, or is under way.
SequentialBlocks ==
    [][\A j \in Jobs : db'[j] = "enqueued" /\ db[j] # "enqueued" =>
         \A k \in Jobs \ {j} :
           ChannelOf[k] = ChannelOf[j] /\ ChannelOf[j] \in Sequential
             => db[k] \notin {"failed", "enqueued", "started"}]_vars

\* The manager's picture of a job for which no notification is under way is that
\* of the row, across restarts, deletions and jobs it has to make anew: a pending
\* job has a place in the queue of its channel or of one it was passed to, one
\* under way counts in all channels of its path, what has ended counts nowhere.
\* (A job that waits for its parents keeps the place it had.)
ManagerAgrees ==
    \A j \in Jobs \ notes :
      CASE db[j] = "pending" ->
             \E c \in Path(j) : /\ j \in queue[c]
                              /\ \A d \in Path(j) \ {c} : j \in running[d] <=> c \in Up[d]
        [] db[j] \in {"enqueued", "started"} ->
             \A c \in Channels : j \in running[c] <=> c \in Path(j)
        [] db[j] = "failed" -> \A c \in Channels : j \in failed[c] <=> c = ChannelOf[j]
        [] db[j] = "wait_dependencies" -> TRUE
        [] OTHER -> ~Known(j)

\* "This channel is full, do not request timed wakeup, as a notification will wakeup the
\* runner when a job finishes": the runner does not sleep while a job could go on from
\* the channel where it waits, nor for ever while a pending one is held up by time alone.
\* If nothing will wake it but a notification, then another job holds up each pending
\* one, and that job's row is one which workers, users or its parents are to change.
HoldsUp(k, j) ==
    \E d \in Path(j) \cap Path(k) :
      /\ k \in running[d] \cup failed[d]
      /\ db[k] \in {"enqueued", "started", "failed", "wait_dependencies"}
SleepsWell ==
    turn = Asleep /\ notes = {} =>
      /\ (\A t \in WakeupTimes : now < t) =>
           \A c \in Channels : Ready(c) # {} /\ ~HeldBack(c) =>
             \E d \in Up[c] : Paused(d) \/ ~HasCapacity(d)
      /\ WakeupTimes = {} =>
           \A j \in Jobs : db[j] = "pending" => \E k \in Jobs \ {j} : HoldsUp(k, j)

\* A pending job is handed out, or its state changes, without the timeout of the
\* runner's select - unless a channel on its path holds a failed job and is
\* sequential, or a job that waits for its parents has kept a place in it.
Blocked(j) ==
    \E c \in Path(j) :
      \/ c \in Sequential /\ failed[c] # {}
      \/ \E k \in running[c] : db[k] = "wait_dependencies"
PendingMovesOn == \A j \in Jobs : db[j] = "pending" ~> (db[j] # "pending" \/ Blocked(j))
=============================================================================
