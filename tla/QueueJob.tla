------------------------------- MODULE QueueJob -------------------------------
(***************************************************************************)
(* queue_job: jobs, the runner that hands them out, the workers that       *)
(* perform them, and the users who press buttons on them.                  *)
(*                                                                         *)
(* The runner acts on its own view of the jobs, which it refreshes one     *)
(* notification at a time.  It marks a job enqueued and asks a worker, by  *)
(* an HTTP request it does not wait for, to run it.  The worker marks the  *)
(* job started, commits, and then locks the job's row in queue_job_lock    *)
(* until it is done: what is enqueued or started but not locked for ten    *)
(* seconds is taken for dead and queued again.                             *)
(*                                                                         *)
(* A statement is one step, and so is a button's transaction.  Channels,   *)
(* priorities and times are left out: one channel with a capacity, jobs    *)
(* taken in any order.  A crash of the runner between the update and the   *)
(* request is a lost request and a restart.                                *)
(***************************************************************************)
EXTENDS Naturals, FiniteSets

CONSTANTS
    Jobs,
    Parents,      \* the jobs each job depends on
    Workers,
    None,
    Capacity,     \* of the channel, 0 is unlimited
    MaxRetries,   \* of a job, 0 is infinite
    MaxCalls,     \* bound: requests on their way for one job, further ones are lost
    MaxUser,      \* bound: buttons and edits
    MaxFault      \* bound: crashes, restarts, lost requests, slow ones, conflicts of jobs

ASSUME QueueJobAssumption ==
    /\ IsFiniteSet(Jobs)
    /\ Parents \in [Jobs -> SUBSET Jobs]
    /\ None \notin Workers
    /\ Capacity \in Nat /\ MaxRetries \in Nat
    /\ MaxCalls \in Nat /\ MaxUser \in Nat /\ MaxFault \in Nat

VARIABLES
    state, retry,     \* the row of each job
    lock,             \* the worker that holds its row of queue_job_lock
    view,             \* where the runner has it: none, queued or running
    notes,            \* jobs with a notification the runner has not read
    moved,            \* of those, the ones whose eta or priority changed
    calls,            \* requests to run it, on their way
    worker,           \* what each worker is doing
    stale,            \* workers whose job's row changed since their snapshot
    done,             \* history: executions committed since last asked for
    finished,         \* history: jobs that were done at some time
    userOps, faults

row == <<state, retry>>
runner == <<view, moved>>
history == <<done, finished>>
counters == <<userOps, faults>>
vars == <<state, retry, lock, view, notes, moved, calls, worker, stale,
          done, finished, userOps, faults>>

States == {"wait_dependencies", "pending", "enqueued", "started", "done",
           "cancelled", "failed"}
Idle == [pc |-> "idle", job |-> None, retry |-> 0, waits |-> FALSE]
Pcs == {"acquired", "run", "postpone", "fail", "release", "dependents"}

\* Any not-done parent makes a job wait, when it is created or set to pending.
Waits(j) == \E p \in Parents[j] : state[p] # "done"
Queueable(j, waits) == IF waits THEN "wait_dependencies" ELSE "pending"
Children(j) == {c \in Jobs : j \in Parents[c]}

\* The common dependent jobs query: the waiting children of j, all the parents
\* of which are in state s once j is.
Released(j, s) ==
    {c \in Children(j) : /\ state[c] = "wait_dependencies"
                         /\ \A p \in Parents[c] \ {j} : state[p] = s}

At(w, pc) == worker[w].pc = pc
JobOf(w) == worker[w].job
Goto(w, pc) == worker' = [worker EXCEPT ![w].pc = pc]

Init ==
    /\ state = [j \in Jobs |-> Queueable(j, Parents[j] # {})]
    /\ retry = [j \in Jobs |-> 0]
    /\ lock = [j \in Jobs |-> None]
    /\ view = [j \in Jobs |-> "none"]
    /\ notes = Jobs
    /\ moved = {}
    /\ calls = [j \in Jobs |-> 0]
    /\ worker = [w \in Workers |-> Idle]
    /\ stale = {}
    /\ done = [j \in Jobs |-> 0]
    /\ finished = {}
    /\ userOps = 0
    /\ faults = 0

(***************************************************************************)
(* The runner                                                              *)
(***************************************************************************)
\* Mutant: a waiting job is queued like a pending one.
PlacedWaiting(j, s, v) ==
    CASE s \in {"pending", "wait_dependencies"} -> "queued"
      [] s \in {"enqueued", "started"} -> "running"
      [] OTHER                         -> "none"

\* Mutant: a job that is done keeps its slot.
PlacedDone(j, s, v) ==
    CASE s = "pending"                 -> "queued"
      [] s \in {"enqueued", "started"} -> "running"
      [] s = "wait_dependencies"       -> IF j \in moved THEN "none" ELSE v
      [] s = "done"                    -> v
      [] OTHER                         -> "none"

\* Where a notification puts a job whose row is in state s.  A waiting job
\* stays where it is, unless its eta or priority changed: then it is removed
\* first.  (Failed jobs matter to sequential channels alone.)
Placed(j, s, v) ==
    CASE s = "pending"                 -> "queued"
      [] s \in {"enqueued", "started"} -> "running"
      [] s = "wait_dependencies"       -> IF j \in moved THEN "none" ELSE v
      [] OTHER                         -> "none"

\* The runner reads the row as it is now, whatever was notified.
Notify(j) ==
    /\ j \in notes
    /\ notes' = notes \ {j}
    /\ moved' = moved \ {j}
    /\ view' = [view EXCEPT ![j] = Placed(j, state[j], @)]
    /\ UNCHANGED <<row, lock, calls, worker, stale, history, counters>>

\* Mutant: one more than the capacity.
HasCapacityOneMore == Capacity = 0 \/ Cardinality({j \in Jobs : view[j] = "running"}) <= Capacity

HasCapacity == Capacity = 0 \/ Cardinality({j \in Jobs : view[j] = "running"}) < Capacity

\* The row is updated by its uuid alone, whatever its state has become.
Enqueue(j) ==
    /\ view[j] = "queued" /\ HasCapacity
    /\ view' = [view EXCEPT ![j] = "running"]
    /\ state' = [state EXCEPT ![j] = "enqueued"]
    /\ calls' = [calls EXCEPT ![j] = IF @ < MaxCalls THEN @ + 1 ELSE @]
    /\ notes' = notes \union {j}
    /\ UNCHANGED <<retry, lock, moved, worker, stale, history, counters>>

\* Mutant: the lock is not tested.
UnlockedNever(j) == TRUE

Unlocked(j) == lock[j] = None

\* Some request or worker may still take the job.
Underway(j) == calls[j] > 0 \/ \E w \in Workers : At(w, "acquired") /\ JobOf(w) = j

Requeued(j) ==
    /\ state[j] \in {"enqueued", "started"} /\ Unlocked(j)
    /\ state' = [state EXCEPT ![j] =
            IF MaxRetries # 0 /\ retry[j] > MaxRetries THEN "failed" ELSE "pending"]
    /\ retry' = [retry EXCEPT ![j] = IF state[j] = "started" THEN @ + 1 ELSE @]
    /\ notes' = notes \union {j}
    /\ UNCHANGED <<lock, runner, calls, worker, stale, history, userOps>>

\* Mutant: only jobs that were started can be dead.
RequeueDeadStarted(j) == state[j] = "started" /\ ~Underway(j) /\ Requeued(j) /\ UNCHANGED faults

\* A dead job is found ten seconds later.
RequeueDead(j) == ~Underway(j) /\ Requeued(j) /\ UNCHANGED faults

\* A request or a worker was slower than ten seconds.
RequeueSlow(j) ==
    /\ faults < MaxFault /\ faults' = faults + 1
    /\ Underway(j) /\ Requeued(j)

\* The runner forgets its view and reads every job that is not done.
RunnerRestart ==
    /\ faults < MaxFault /\ faults' = faults + 1
    /\ view' = [j \in Jobs |-> Placed(j, state[j], "none")]
    /\ notes' = {}
    /\ moved' = {}
    /\ UNCHANGED <<row, lock, calls, worker, stale, history, userOps>>

LoseCall(j) ==
    /\ faults < MaxFault /\ faults' = faults + 1
    /\ calls[j] > 0
    /\ calls' = [calls EXCEPT ![j] = @ - 1]
    /\ UNCHANGED <<row, lock, runner, notes, worker, stale, history, userOps>>

(***************************************************************************)
(* A worker                                                                *)
(***************************************************************************)
\* The first transaction marks the job started.  The job keeps what it loaded:
\* its retries and, read once, the states of its parents.
Acquire(w, j) ==
    /\ At(w, "idle") /\ calls[j] > 0 /\ state[j] = "enqueued"
    /\ calls' = [calls EXCEPT ![j] = @ - 1]
    /\ state' = [state EXCEPT ![j] = "started"]
    /\ worker' = [worker EXCEPT ![w] =
            [pc |-> "acquired", job |-> j, retry |-> retry[j], waits |-> Waits(j)]]
    /\ notes' = notes \union {j}
    /\ UNCHANGED <<retry, lock, runner, stale, history, counters>>

CallRefused(w, j) ==
    /\ At(w, "idle") /\ calls[j] > 0 /\ state[j] # "enqueued"
    /\ calls' = [calls EXCEPT ![j] = @ - 1]
    /\ UNCHANGED <<row, lock, runner, notes, worker, stale, history, counters>>

CanLock(j) == state[j] = "started" /\ Unlocked(j)

\* The second transaction, with its own snapshot, begins with the lock.
Lock(w) ==
    /\ At(w, "acquired") /\ CanLock(JobOf(w))
    /\ lock' = [lock EXCEPT ![JobOf(w)] = w]
    /\ Goto(w, "run")
    /\ UNCHANGED <<row, runner, notes, calls, stale, history, counters>>

LockRefused(w) ==
    /\ At(w, "acquired") /\ ~CanLock(JobOf(w))
    /\ worker' = [worker EXCEPT ![w] = Idle]
    /\ UNCHANGED <<row, lock, runner, notes, calls, stale, history, counters>>

\* The job returns.  Its effects and its state are committed together, which
\* ends the lock, unless its row changed meanwhile.
CommitDone(w) ==
    LET j == JobOf(w) IN
    /\ At(w, "run") /\ w \notin stale
    /\ state' = [state EXCEPT ![j] = "done"]
    /\ retry' = [retry EXCEPT ![j] = worker[w].retry + 1]
    /\ lock' = [lock EXCEPT ![j] = None]
    /\ done' = [done EXCEPT ![j] = @ + 1]
    /\ finished' = finished \union {j}
    /\ notes' = notes \union {j}
    /\ IF Children(j) = {} THEN worker' = [worker EXCEPT ![w] = Idle]
                           ELSE Goto(w, "dependents")
    /\ UNCHANGED <<runner, calls, stale, counters>>

\* A serialization failure is retried, whatever max_retries says.
Conflicts(w) ==
    /\ At(w, "run")
    /\ worker' = [worker EXCEPT ![w].pc = "postpone", ![w].retry = @ + 1]
    /\ UNCHANGED <<row, lock, runner, notes, calls, stale, finished, userOps>>

\* Mutant: the effects are committed before the state, not with it.
CommitConflictKeeps(w) ==
    /\ w \in stale /\ Conflicts(w)
    /\ done' = [done EXCEPT ![JobOf(w)] = @ + 1]
    /\ UNCHANGED faults

\* The job's own row was edited since the snapshot.
CommitConflict(w) == w \in stale /\ Conflicts(w) /\ UNCHANGED <<done, faults>>

\* A row the job itself writes was changed by someone else.
JobConflict(w) ==
    /\ faults < MaxFault /\ faults' = faults + 1
    /\ Conflicts(w)
    /\ UNCHANGED done

\* The job asks to be retried, and fails at the last of its retries.
RaisesRetryable(w) ==
    LET tries == worker[w].retry + 1 IN
    /\ At(w, "run")
    /\ worker' = [worker EXCEPT
            ![w].pc = IF MaxRetries # 0 /\ tries >= MaxRetries THEN "fail" ELSE "postpone",
            ![w].retry = tries]
    /\ UNCHANGED <<row, lock, runner, notes, calls, stale, history, counters>>

\* With ignore_retry the try is not counted.
RaisesIgnored(w) ==
    /\ At(w, "run")
    /\ Goto(w, "postpone")
    /\ UNCHANGED <<row, lock, runner, notes, calls, stale, history, counters>>

RaisesOther(w) ==
    /\ At(w, "run")
    /\ worker' = [worker EXCEPT ![w].pc = "fail", ![w].retry = @ + 1]
    /\ UNCHANGED <<row, lock, runner, notes, calls, stale, history, counters>>

\* Written by a transaction of its own while the lock is still held.
Stored(w, s) ==
    /\ state' = [state EXCEPT ![JobOf(w)] = s]
    /\ retry' = [retry EXCEPT ![JobOf(w)] = worker[w].retry]
    /\ notes' = notes \union {JobOf(w)}
    /\ Goto(w, "release")
    /\ UNCHANGED <<lock, view, calls, stale, history, counters>>

\* A new eta comes with it.
Postpone(w) ==
    /\ At(w, "postpone")
    /\ Stored(w, Queueable(JobOf(w), worker[w].waits))
    /\ moved' = moved \union {JobOf(w)}

Fail(w) == At(w, "fail") /\ Stored(w, "failed") /\ UNCHANGED moved

Ends(w) ==
    /\ worker' = [worker EXCEPT ![w] = Idle]
    /\ stale' = stale \ {w}

Release(w) ==
    /\ At(w, "release")
    /\ lock' = [lock EXCEPT ![JobOf(w)] = None]
    /\ Ends(w)
    /\ UNCHANGED <<row, runner, notes, calls, history, counters>>

Became(set, s) == state' = [j \in Jobs |-> IF j \in set THEN s ELSE state[j]]

\* A transaction after the commit queues the children that need not wait.
Dependents(w) ==
    LET ready == IF state[JobOf(w)] = "done" THEN Released(JobOf(w), "done") ELSE {} IN
    /\ At(w, "dependents")
    /\ Became(ready, "pending")
    /\ notes' = notes \union ready
    /\ worker' = [worker EXCEPT ![w] = Idle]
    /\ UNCHANGED <<retry, lock, runner, calls, stale, history, counters>>

\* The worker dies, and the database rolls back and unlocks.  A conflict on a
\* child's row ends Dependents in the same way: its retries keep the snapshot.
WorkerCrash(w) ==
    /\ faults < MaxFault /\ faults' = faults + 1
    /\ ~At(w, "idle")
    /\ lock' = [j \in Jobs |-> IF lock[j] = w THEN None ELSE lock[j]]
    /\ Ends(w)
    /\ UNCHANGED <<row, runner, notes, calls, history, userOps>>

(***************************************************************************)
(* The users                                                               *)
(***************************************************************************)
UserActs == userOps < MaxUser /\ userOps' = userOps + 1
Open == {"wait_dependencies", "pending", "enqueued", "failed"}

UserDone(j) ==
    LET ready == Released(j, "done") IN
    /\ UserActs /\ state[j] \in Open
    /\ state' = [c \in Jobs |-> IF c = j THEN "done" ELSE IF c \in ready THEN "pending" ELSE state[c]]
    /\ notes' = notes \union ready \union {j}
    /\ finished' = finished \union {j}
    /\ UNCHANGED <<retry, lock, runner, calls, worker, stale, done, faults>>

\* Waiting children are cancelled with the last of their parents, but not theirs.
UserCancel(j) ==
    LET off == Released(j, "cancelled") \union {j} IN
    /\ UserActs /\ state[j] \in Open
    /\ Became(off, "cancelled")
    /\ notes' = notes \union off
    /\ UNCHANGED <<retry, lock, runner, calls, worker, stale, history, faults>>

UserRequeue(j) ==
    /\ UserActs /\ state[j] \in {"failed", "done", "cancelled"}
    /\ state' = [state EXCEPT ![j] = Queueable(j, Waits(j))]
    /\ retry' = [retry EXCEPT ![j] = 0]
    /\ notes' = notes \union {j}
    /\ done' = [done EXCEPT ![j] = 0]
    /\ UNCHANGED <<lock, runner, calls, worker, stale, finished, faults>>

\* A new priority or eta, given in the form.
UserEdit(j) ==
    /\ UserActs
    /\ notes' = notes \union {j}
    /\ moved' = moved \union {j}
    /\ stale' = stale \union {w \in Workers : At(w, "run") /\ JobOf(w) = j}
    /\ UNCHANGED <<row, lock, view, calls, worker, history, faults>>

-------------------------------------------------------------------------------
RunnerStep(j) == Notify(j) \/ Enqueue(j) \/ RequeueDead(j)
Answer(j) == \E w \in Workers : Acquire(w, j) \/ CallRefused(w, j)
WorkerStep(w) ==
    \/ Lock(w) \/ LockRefused(w)
    \/ CommitDone(w) \/ CommitConflict(w)
    \/ RaisesRetryable(w) \/ RaisesIgnored(w) \/ RaisesOther(w)
    \/ Postpone(w) \/ Fail(w) \/ Release(w) \/ Dependents(w)
Fault ==
    \/ RunnerRestart
    \/ \E j \in Jobs : RequeueSlow(j) \/ LoseCall(j)
    \/ \E w \in Workers : JobConflict(w) \/ WorkerCrash(w)
User == \E j \in Jobs : UserDone(j) \/ UserCancel(j) \/ UserRequeue(j) \/ UserEdit(j)

Next ==
    \/ \E j \in Jobs : RunnerStep(j) \/ Answer(j)
    \/ \E w \in Workers : WorkerStep(w)
    \/ Fault \/ User

Spec == Init /\ [][Next]_vars

\* The runner loops, requests that were sent arrive, workers go on.  A postponed
\* job waits for its eta while the others have the slot it left: no job that is
\* queued is passed over for ever.
FairSpec ==
    /\ Spec
    /\ \A j \in Jobs : /\ WF_vars(Notify(j)) /\ SF_vars(Enqueue(j))
                       /\ WF_vars(RequeueDead(j)) /\ WF_vars(Answer(j))
    /\ \A w \in Workers : WF_vars(WorkerStep(w))

-------------------------------------------------------------------------------
(***************************************************************************)
(* Properties                                                              *)
(***************************************************************************)
\* Every variable has a value the code can give it.
TypeOK ==
    /\ state \in [Jobs -> States]
    /\ retry \in [Jobs -> Nat]
    /\ lock \in [Jobs -> Workers \union {None}]
    /\ view \in [Jobs -> {"none", "queued", "running"}]
    /\ notes \subseteq Jobs /\ moved \subseteq notes
    /\ calls \in [Jobs -> Nat]
    /\ \A j \in Jobs : calls[j] <= MaxCalls
    /\ worker \in [Workers -> [pc : Pcs, job : Jobs, retry : Nat, waits : BOOLEAN]
                              \union {Idle}]
    /\ stale \subseteq Workers
    /\ done \in [Jobs -> Nat]
    /\ finished \subseteq Jobs
    /\ userOps \in 0..MaxUser /\ faults \in 0..MaxFault

Performs(w, j) == At(w, "run") /\ JobOf(w) = j

\* While a worker performs a job no other does, and the row says started: slow
\* requests, dead-job requeues and restarts never put it back in the queue
\* (the start, commit, lock of _acquire_job against requeue_dead_jobs).
MutualExclusion ==
    \A w \in Workers, j \in Jobs :
        Performs(w, j) => /\ state[j] = "started"
                          /\ \A other \in Workers \ {w} : ~Performs(other, j)

\* However often a job is requeued as dead, called twice or postponed, its
\* effects are committed once, until a user asks for it again.
EffectsOnce == \A j \in Jobs : done[j] <= 1

\* The workers never perform more jobs at once than the capacity allows, though
\* the runner counts in a view that is stale and may be rebuilt
\* (Channel.has_capacity).
CapacityRespected ==
    Capacity # 0 => Cardinality({j \in Jobs : \E w \in Workers : Performs(w, j)}) <= Capacity

\* Effects are committed only of a job all the parents of which were done at
\* some time, by a worker or by a user (wait_dependencies, enqueue_waiting).
ParentsFirst ==
    [][\A j \in Jobs : done'[j] > done[j] => Parents[j] \subseteq finished]_vars

\* A step is due for job j: a notification to read, a free slot, an unlocked row
\* to requeue, a request to answer, or a worker that holds the job or is to lock it.
InHand(w, j) ==
    JobOf(w) = j /\ worker[w].pc \in {"acquired", "run", "postpone", "fail", "release"}
Moves(j) ==
    \/ j \in notes \/ calls[j] > 0
    \/ view[j] = "queued" /\ HasCapacity
    \/ state[j] \in {"enqueued", "started"} /\ Unlocked(j) /\ ~Underway(j)
    \/ \E w \in Workers : InHand(w, j)

\* A notification leaves a waiting job its slot: it was started when the runner
\* last read its row, and ended and was requeued since.
KeepsSlot(j) == view[j] = "running" /\ state[j] = "wait_dependencies"

\* Wherever requests are lost, workers die and users press buttons, a job that is
\* queued, asked for or started is always somebody's to take up, or waits for slots
\* whose jobs are - but for the slots of waiting jobs ("When a job is killed, it
\* releases the lock": requeue_dead_jobs; the notifications of the trigger; notify).
NotStranded ==
    \A j \in Jobs : state[j] \in {"pending", "enqueued", "started"} =>
        \/ Moves(j)
        \/ /\ state[j] = "pending" /\ ~HasCapacity
           /\ \A k \in Jobs : view[k] = "running" => Moves(k) \/ KeepsSlot(k)

\* A job that is pending or enqueued is eventually performed, or leaves the
\* queue: lost requests, crashes, restarts and refusals do not strand it, unless
\* a waiting job has kept a slot.
JobRuns ==
    \A j \in Jobs :
        state[j] \in {"pending", "enqueued"} ~>
            \/ state[j] \notin {"pending", "enqueued", "started"}
            \/ \E w \in Workers : Performs(w, j)
            \/ \E k \in Jobs \ notes : KeepsSlot(k)

\* A job that waits for nothing any more is eventually queued, or taken away
\* ("the dependency is resolved and the graph will continue to be processed").
ReadyJobsStart ==
    \A j \in Jobs :
        state[j] = "wait_dependencies" /\ ~Waits(j) ~>
            state[j] # "wait_dependencies" \/ Waits(j)
===============================================================================
