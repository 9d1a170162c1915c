----------------------------- MODULE AutoReply -----------------------------
(***************************************************************************)
(* Dispatch of automatic replies (waha_whatsapp_suite).  The webhook only  *)
(* flags an inbound message (needs_autoreply) and delays a queue job for   *)
(* it; the reply is sent later, either by that job or by a scheduled       *)
(* action that scans the flagged messages once a minute.  Both claim the   *)
(* message with one UPDATE ... WHERE needs_autoreply = TRUE and mean to    *)
(* commit the claim before the WhatsApp send, which nothing can undo.      *)
(*                                                                         *)
(* Transactions run at PostgreSQL's REPEATABLE READ, the level Odoo uses:  *)
(* a statement reads the snapshot its transaction took at its first        *)
(* query, an UPDATE waits for the row lock of an uncommitted UPDATE, and   *)
(* it fails ("could not serialize access") when the row was changed by a   *)
(* transaction that committed after the snapshot.                          *)
(***************************************************************************)
EXTENDS Naturals, FiniteSets

CONSTANTS
  Msgs,         \* database ids of the inbound messages
  AllowCommit,  \* settings of the job function's "Allow Commit" box that
                \* occur: {FALSE} as shipped
  CronEnabled,  \* whether the scheduled action is active
  Limit,        \* messages one run of the scheduled action loads (200)
  MaxCrash,     \* bound: crashes of a worker or of the scheduled action
  MaxRequeue    \* bound: times a user presses Requeue on a job

ASSUME AutoReplyAssumption ==
  /\ Msgs \subseteq Nat
  /\ AllowCommit \subseteq BOOLEAN
  /\ CronEnabled \in BOOLEAN
  /\ Limit \in Nat \ {0}
  /\ MaxCrash \in Nat
  /\ MaxRequeue \in Nat

VARIABLES
  arrived,   \* messages whose webhook transaction has committed
  pending,   \* committed needs_autoreply column
  lock,      \* row lock of an uncommitted claim: "none", "job" or "cron"
  job,       \* committed state of the message's queue job
  worker,    \* what the worker running the message's job does
  jobSnap,   \* needs_autoreply in the snapshot of that worker's transaction
  cron,      \* what the scheduled action does
  cur,       \* the message its loop is at (meaningful when past the claim)
  batch,     \* the messages its loop has still to visit
  cronSnap,  \* needs_autoreply in its snapshot
  snapOpen,  \* whether its current transaction has taken a snapshot yet
  replies,   \* how often a run of the rules replied to the message
  silent,    \* history: messages whose run of the rules had nothing to send
  erred,     \* history: messages whose run met an error before any reply
  crashes, requeues   \* counters of the bounds

rowVars  == <<arrived, pending, lock>>
jobVars  == <<job, worker, jobSnap>>
cronVars == <<cron, cur, batch, cronSnap, snapOpen>>
outcomes == <<replies, silent, erred>>
vars == <<rowVars, jobVars, cronVars, outcomes, crashes, requeues>>

JobStates  == {"none", "pending", "started", "done", "failed"}
WorkerPcs  == {"idle", "run", "claimed", "send", "sent"}
CronPcs    == {"idle", "loop", "claimed", "send", "sent"}

TypeOK ==
  /\ arrived \subseteq Msgs
  /\ pending \in [Msgs -> BOOLEAN]
  /\ lock \in [Msgs -> {"none", "job", "cron"}]
  /\ job \in [Msgs -> JobStates]
  /\ worker \in [Msgs -> WorkerPcs]
  /\ jobSnap \in [Msgs -> BOOLEAN]
  /\ cron \in CronPcs
  /\ cur \in Msgs
  /\ batch \subseteq Msgs
  /\ cronSnap \in [Msgs -> BOOLEAN]
  /\ snapOpen \in BOOLEAN
  /\ replies \in [Msgs -> Nat]
  /\ silent \subseteq Msgs
  /\ erred \subseteq Msgs
  /\ crashes \in Nat
  /\ requeues \in Nat

Init ==
  /\ arrived = {}
  /\ pending = [m \in Msgs |-> FALSE]
  /\ lock = [m \in Msgs |-> "none"]
  /\ job = [m \in Msgs |-> "none"]
  /\ worker = [m \in Msgs |-> "idle"]
  /\ jobSnap = [m \in Msgs |-> FALSE]
  /\ cron = "idle"
  /\ cur \in Msgs
  /\ batch = {}
  /\ cronSnap = [m \in Msgs |-> FALSE]
  /\ snapOpen = FALSE
  /\ replies = [m \in Msgs |-> 0]
  /\ silent = {}
  /\ erred = {}
  /\ crashes = 0
  /\ requeues = 0

-----------------------------------------------------------------------------
(* The webhook transaction that won the inbound claim commits: the flag,   *)
(* and the job unless delaying it raised (the exception is only logged).   *)
Flag(m) ==
  /\ m \notin arrived
  /\ arrived' = arrived \cup {m}
  /\ pending' = [pending EXCEPT ![m] = TRUE]
  /\ \E s \in {"none", "pending"} : job' = [job EXCEPT ![m] = s]
  /\ UNCHANGED <<lock, worker, jobSnap, cronVars, outcomes, crashes, requeues>>

-----------------------------------------------------------------------------
(* _run_for_message, for a message whose claim is committed.  It replies;  *)
(* or it has nothing to send (no rule matches, the rule has no reply); or  *)
(* an error ends it before any reply: a rule's exception is swallowed, the *)
(* session is not working, the send fails and is swallowed, or the run     *)
(* itself raises and is logged (and, in the scheduled action, rolled back).*)
RulesRun(m) ==
  \/ /\ replies' = [replies EXCEPT ![m] = @ + 1]
     /\ UNCHANGED <<silent, erred>>
  \/ /\ silent' = silent \cup {m}
     /\ UNCHANGED <<replies, erred>>
  \/ /\ erred' = erred \cup {m}
     /\ UNCHANGED <<replies, silent>>

-----------------------------------------------------------------------------
(* The queue job.                                                          *)

(* The job runner hands the job to a worker, which marks it started; its   *)
(* transaction takes its snapshot before the claim is evaluated.           *)
JobStart(m) ==
  /\ job[m] = "pending" /\ worker[m] = "idle"
  /\ job' = [job EXCEPT ![m] = "started"]
  /\ worker' = [worker EXCEPT ![m] = "run"]
  /\ jobSnap' = [jobSnap EXCEPT ![m] = pending[m]]
  /\ UNCHANGED <<rowVars, cronVars, outcomes, crashes, requeues>>

(* Mutant: the two columns are swapped. *)
JobEndsSwapped(m, state) ==
  /\ worker' = [worker EXCEPT ![m] = state]
  /\ job' = [job EXCEPT ![m] = "done"]

JobEnds(m, state) ==
  /\ worker' = [worker EXCEPT ![m] = "idle"]
  /\ job' = [job EXCEPT ![m] = state]

(* The claim finds no pending row: the message is already taken.           *)
JobClaimLost(m) ==
  /\ worker[m] = "run" /\ ~jobSnap[m]
  /\ JobEnds(m, "done")
  /\ UNCHANGED <<rowVars, jobSnap, cronVars, outcomes, crashes, requeues>>

(* The row is pending in the snapshot but another claim has committed:     *)
(* serialization failure, and the job is postponed.                        *)
JobClaimConflict(m) ==
  /\ worker[m] = "run" /\ jobSnap[m] /\ lock[m] = "none" /\ ~pending[m]
  /\ JobEnds(m, "pending")
  /\ UNCHANGED <<rowVars, jobSnap, cronVars, outcomes, crashes, requeues>>

(* Mutant: the flag is read first and set afterwards, without its test. *)
JobClaimUntested(m) ==
  /\ worker[m] = "run" /\ jobSnap[m] /\ lock[m] = "none"
  /\ lock' = [lock EXCEPT ![m] = "job"]
  /\ worker' = [worker EXCEPT ![m] = "claimed"]
  /\ UNCHANGED <<arrived, pending, job, jobSnap, cronVars, outcomes, crashes,
                 requeues>>

JobClaimWon(m) ==
  /\ worker[m] = "run" /\ jobSnap[m] /\ lock[m] = "none" /\ pending[m]
  /\ lock' = [lock EXCEPT ![m] = "job"]
  /\ worker' = [worker EXCEPT ![m] = "claimed"]
  /\ UNCHANGED <<arrived, pending, job, jobSnap, cronVars, outcomes, crashes,
                 requeues>>

(* Mutant: no commit between the claim and the send. *)
JobCommitsLater(m) ==
  /\ worker[m] = "claimed" /\ TRUE \in AllowCommit
  /\ lock' = [lock EXCEPT ![m] = "none"]
  /\ worker' = [worker EXCEPT ![m] = "send"]
  /\ UNCHANGED <<arrived, pending, job, jobSnap, cronVars, outcomes, crashes,
                 requeues>>

(* cr.commit() inside the job, when the job function allows commits...     *)
JobCommit(m) ==
  /\ worker[m] = "claimed" /\ TRUE \in AllowCommit
  /\ lock' = [lock EXCEPT ![m] = "none"]
  /\ pending' = [pending EXCEPT ![m] = FALSE]
  /\ worker' = [worker EXCEPT ![m] = "send"]
  /\ UNCHANGED <<arrived, job, jobSnap, cronVars, outcomes, crashes, requeues>>

(* ... and when it does not: the commit raises, the job fails, its claim   *)
(* is rolled back.                                                         *)
JobCommitRefused(m) ==
  /\ worker[m] = "claimed" /\ FALSE \in AllowCommit
  /\ lock' = [lock EXCEPT ![m] = "none"]
  /\ JobEnds(m, "failed")
  /\ UNCHANGED <<arrived, pending, jobSnap, cronVars, outcomes, crashes, requeues>>

(* From here on a reply may have reached WhatsApp.                         *)
JobSend(m) ==
  /\ worker[m] = "send"
  /\ RulesRun(m)
  /\ worker' = [worker EXCEPT ![m] = "sent"]
  /\ UNCHANGED <<rowVars, job, jobSnap, cronVars, crashes, requeues>>

(* The job ends: done, postponed when writing back the rules' counters     *)
(* meets a serialization failure, failed on any other exception.           *)
JobFinish(m) ==
  /\ worker[m] = "sent"
  /\ \E s \in {"done", "pending", "failed"} : JobEnds(m, s)
  /\ UNCHANGED <<rowVars, jobSnap, cronVars, outcomes, crashes, requeues>>

(* The worker process dies: its transaction is rolled back, the job stays  *)
(* started.                                                                *)
JobCrash(m) ==
  /\ crashes < MaxCrash
  /\ worker[m] # "idle"
  /\ worker' = [worker EXCEPT ![m] = "idle"]
  /\ lock' = [lock EXCEPT ![m] = IF @ = "job" THEN "none" ELSE @]
  /\ crashes' = crashes + 1
  /\ UNCHANGED <<arrived, pending, job, jobSnap, cronVars, outcomes, requeues>>

(* The runner finds a started job nobody holds: pending again, or failed   *)
(* when its retries are used up.                                           *)
JobFoundDead(m) ==
  /\ job[m] = "started" /\ worker[m] = "idle"
  /\ \E s \in {"pending", "failed"} : job' = [job EXCEPT ![m] = s]
  /\ UNCHANGED <<rowVars, worker, jobSnap, cronVars, outcomes, crashes, requeues>>

(* A user requeues a finished job.                                         *)
JobRequeue(m) ==
  /\ requeues < MaxRequeue
  /\ job[m] \in {"failed", "done"}
  /\ job' = [job EXCEPT ![m] = "pending"]
  /\ requeues' = requeues + 1
  /\ UNCHANGED <<rowVars, worker, jobSnap, cronVars, outcomes, crashes>>

JobStep(m) ==
  \/ JobStart(m) \/ JobClaimLost(m) \/ JobClaimConflict(m) \/ JobClaimWon(m)
  \/ JobCommit(m) \/ JobCommitRefused(m) \/ JobSend(m) \/ JobFinish(m)
  \/ JobFoundDead(m)

-----------------------------------------------------------------------------
(* The scheduled action.  cron_run_autoreplies runs single-threaded.       *)

Pending == {m \in Msgs : pending[m]}

(* Mutant: the scan waits for a full batch. *)
FullBatch(B) ==
  /\ B \subseteq Pending
  /\ \A m \in B, n \in Pending \ B : m < n
  /\ Cardinality(B) = Limit

(* order='id', limit: the first messages by id, at most Limit of them.     *)
FirstPending(B) ==
  /\ B \subseteq Pending
  /\ \A m \in B, n \in Pending \ B : m < n
  /\ B = Pending \/ Cardinality(B) = Limit
  /\ Cardinality(B) <= Limit

CronStart ==
  /\ CronEnabled /\ cron = "idle"
  /\ \E B \in SUBSET Pending : FirstPending(B) /\ B # {} /\ batch' = B
  /\ cron' = "loop"
  /\ cronSnap' = pending /\ snapOpen' = TRUE
  /\ UNCHANGED <<rowVars, jobVars, cur, outcomes, crashes, requeues>>

IsNext(m) == m \in batch /\ \A n \in batch : m <= n

(* After a commit the next UPDATE opens a new transaction; its snapshot is *)
(* taken when the statement starts, before it waits for any row lock.      *)
CronSnapshot ==
  /\ cron = "loop" /\ batch # {} /\ ~snapOpen
  /\ cronSnap' = pending /\ snapOpen' = TRUE
  /\ UNCHANGED <<rowVars, jobVars, cron, cur, batch, outcomes, crashes, requeues>>

CronClaimLost(m) ==
  /\ cron = "loop" /\ IsNext(m) /\ snapOpen /\ ~cronSnap[m]
  /\ batch' = batch \ {m}
  /\ UNCHANGED <<rowVars, jobVars, cron, cur, cronSnap, snapOpen, outcomes,
                 crashes, requeues>>

(* The claim is outside the try: a serialization failure ends the run.     *)
CronClaimConflict(m) ==
  /\ cron = "loop" /\ IsNext(m) /\ snapOpen /\ cronSnap[m]
  /\ lock[m] = "none" /\ ~pending[m]
  /\ cron' = "idle" /\ batch' = {} /\ snapOpen' = FALSE
  /\ UNCHANGED <<rowVars, jobVars, cur, cronSnap, outcomes, crashes, requeues>>

CronClaimWon(m) ==
  /\ cron = "loop" /\ IsNext(m) /\ snapOpen /\ cronSnap[m]
  /\ lock[m] = "none" /\ pending[m]
  /\ lock' = [lock EXCEPT ![m] = "cron"]
  /\ cron' = "claimed" /\ cur' = m
  /\ UNCHANGED <<arrived, pending, jobVars, batch, cronSnap, snapOpen, outcomes,
                 crashes, requeues>>

(* Mutant: one UPDATE claims the whole batch. *)
CronCommitAll ==
  /\ cron = "claimed"
  /\ pending' = [m \in Msgs |-> pending[m] /\ m \notin batch]
  /\ lock' = [lock EXCEPT ![cur] = "none"]
  /\ cron' = "send" /\ snapOpen' = FALSE
  /\ UNCHANGED <<arrived, jobVars, cur, batch, cronSnap, outcomes, crashes,
                 requeues>>

(* Commit of the claim, before the send.                                   *)
CronCommit ==
  /\ cron = "claimed"
  /\ pending' = [pending EXCEPT ![cur] = FALSE]
  /\ lock' = [lock EXCEPT ![cur] = "none"]
  /\ cron' = "send" /\ snapOpen' = FALSE
  /\ UNCHANGED <<arrived, jobVars, cur, batch, cronSnap, outcomes, crashes,
                 requeues>>

CronSend ==
  /\ cron = "send"
  /\ RulesRun(cur)
  /\ cron' = "sent"
  /\ UNCHANGED <<rowVars, jobVars, cur, batch, cronSnap, snapOpen, crashes,
                 requeues>>

(* Commit after the message, its exceptions logged and rolled back.  The   *)
(* commit flushes the rules' counters and, outside the try, may itself     *)
(* fail: then the run ends.                                                *)
CronNextMsg ==
  /\ cron = "sent"
  /\ snapOpen' = FALSE
  /\ \/ cron' = "loop" /\ batch' = batch \ {cur}
     \/ cron' = "idle" /\ batch' = {}
  /\ UNCHANGED <<rowVars, jobVars, cur, cronSnap, outcomes, crashes, requeues>>

CronEnd ==
  /\ cron = "loop" /\ batch = {}
  /\ cron' = "idle" /\ snapOpen' = FALSE
  /\ UNCHANGED <<rowVars, jobVars, cur, batch, cronSnap, outcomes, crashes,
                 requeues>>

CronCrash ==
  /\ crashes < MaxCrash
  /\ cron # "idle"
  /\ cron' = "idle" /\ batch' = {} /\ snapOpen' = FALSE
  /\ lock' = [lock EXCEPT ![cur] = IF @ = "cron" THEN "none" ELSE @]
  /\ crashes' = crashes + 1
  /\ UNCHANGED <<arrived, pending, jobVars, cur, cronSnap, outcomes, requeues>>

CronStep ==
  \/ CronStart \/ CronSnapshot
  \/ \E m \in Msgs : CronClaimLost(m) \/ CronClaimConflict(m) \/ CronClaimWon(m)
  \/ CronCommit \/ CronSend \/ CronNextMsg \/ CronEnd

-----------------------------------------------------------------------------
Next ==
  \/ \E m \in Msgs : Flag(m) \/ JobStep(m) \/ JobCrash(m) \/ JobRequeue(m)
  \/ CronStep \/ CronCrash

Spec == Init /\ [][Next]_vars

(* The runner and its workers run as long as there is a job, the scheduled *)
(* action is triggered every minute; nothing obliges a message to arrive,  *)
(* a process to crash or a user to act.                                    *)
Fairness == WF_vars(CronStep) /\ \A m \in Msgs : WF_vars(JobStep(m))

FairSpec == Spec /\ Fairness

-----------------------------------------------------------------------------
(* Properties.                                                             *)

(* README: "an atomic claim guarantees exactly one reply whether the job   *)
(* or the cron sends it".  Whatever the interleaving of the job, its       *)
(* retries, requeues by the runner or a user, and the scheduled action,    *)
(* and wherever a process dies, a message is answered at most once.  (That *)
(* it is answered at all is the matter of the next property: the run may   *)
(* have nothing to say, or meet an error.)                                 *)
AtMostOneReply == \A m \in Msgs : replies[m] <= 1

(* cron_run_autoreplies: "at worst a single reply is missed on error".     *)
(* Messages whose flag is gone, which nobody is answering, which were      *)
(* never answered, and for which the rules did not find nothing to say:    *)
Missed ==
  {m \in arrived : /\ ~pending[m] /\ replies[m] = 0 /\ m \notin silent
                   /\ worker[m] # "send"
                   /\ ~(cron = "send" /\ cur = m)}

(* An error or a crash costs the reply of one message only, the one being  *)
(* answered: every missed reply is explained by an error of the rules' run *)
(* for that very message or by a crash of its own.  No serialization       *)
(* failure, lost claim, aborted run, requeue, nor another message's error  *)
(* ever drops a message.                                                   *)
OneMissedPerError == Cardinality(Missed \ erred) <= crashes

(* The claim protocol implements ReplyOnce.                                *)
status ==
  [m \in Msgs |-> CASE m \notin arrived -> "new"
                    [] m \in arrived /\ pending[m] -> "flagged"
                    [] m \in arrived /\ ~pending[m] /\ replies[m] = 0 -> "claimed"
                    [] OTHER -> "replied"]

Promise == INSTANCE ReplyOnce WITH status <- status, replies <- replies

ImplementsReplyOnce == Promise!Spec

(* Every flagged message is eventually taken, with or without a working    *)
(* job runner: the scheduled action is the fallback.                       *)
FlagIsTaken == \A m \in Msgs : pending[m] ~> ~pending[m]

(* README: "each inbound message dispatches an immediate background job    *)
(* for near-instant replies": once the job is queued, the job by itself    *)
(* gets the rules run for the message, whatever their outcome.             *)
RulesRan(m) == replies[m] > 0 \/ m \in silent \/ m \in erred

JobReplies == \A m \in Msgs : (job[m] = "pending") ~> RulesRan(m)
=============================================================================
