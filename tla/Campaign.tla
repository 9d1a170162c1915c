------------------------------ MODULE Campaign ------------------------------
(***************************************************************************)
(* A WhatsApp campaign of waha_whatsapp_suite: the scheduled action that   *)
(* sends it, batch by batch; WAHA's webhooks about the messages it sends;  *)
(* users who launch, cancel, reset and refresh it.  The scheduled action   *)
(* runs in REPEATABLE READ transactions, one per recipient, each with a    *)
(* WhatsApp send nothing can undo.  Every transaction that changes the     *)
(* numbers of recipients per state also updates the campaign row, where    *)
(* the statistics are stored, so it conflicts with any other that did      *)
(* after its snapshot.                                                     *)
(***************************************************************************)
EXTENDS Naturals, FiniteSets

CONSTANTS
  Partners,   \* contacts the campaign may target
  NoNumber,   \* those without a WhatsApp number
  Limit,      \* throttle_per_minute: recipients one batch may hold
  MaxUser,    \* bound: user operations
  MaxHook,    \* bound: webhooks that write something
  MaxCrash    \* bound: crashes of the scheduled action

ASSUME CampaignAssumption ==
  /\ IsFiniteSet(Partners)
  /\ NoNumber \subseteq Partners
  /\ Limit \in Nat \ {0}
  /\ MaxUser \in Nat /\ MaxHook \in Nat /\ MaxCrash \in Nat

VARIABLES
  camp,      \* committed campaign state
  rec,       \* committed recipient state of the contact, "none" without a row
  stats,     \* committed statistics of the campaign row
  msg,       \* committed status of the recipient's message WhatsApp accepted
  optOut,    \* contacts flagged "WhatsApp Opt-out"
  accepted,  \* how often WhatsApp accepted a message for the contact
  cron,      \* where the scheduled action is
  cur,       \* the recipient it is at
  batch,     \* recipients it has still to visit
  gone,      \* recipients of the batch deleted since it was built
  snapped,   \* whether its current transaction has a snapshot
  snap,      \* that snapshot: recipients and opt-outs
  stale,     \* rows (recipients, "camp") others committed since the snapshot
  staged,    \* recipient states it has written but not committed
  linked,    \* staged recipients whose message WhatsApp accepted
  holds,     \* it holds the lock on the campaign row, which it promoted
  echoed,    \* a webhook has stored the message it has just sent
  late,      \* sends since the campaign was cancelled (history)
  userOps, hooks, crashes   \* counters of the bounds

dbVars   == <<camp, rec, stats, msg>>
runVars  == <<cron, cur, batch>>
txVars   == <<snapped, snap, staged, linked, holds>>
counters == <<userOps, hooks, crashes>>
vars == <<dbVars, optOut, accepted, runVars, gone, txVars, stale, echoed, late,
          counters>>

CampStates == {"draft", "scheduled", "running", "done", "cancelled"}
Reached    == {"sent", "delivered", "read"}
RecStates  == {"none", "queued", "failed", "skipped", "opted_out"} \cup Reached
Columns    == {"queued", "failed", "skipped"} \cup Reached
Staged     == {"none", "opted_out", "sent", "failed"}

(* _compute_stats: opted-out recipients are counted as skipped. *)
Column(s) == IF s = "opted_out" THEN "skipped" ELSE s
Stats(r)  == [k \in Columns |-> Cardinality({p \in Partners : Column(r[p]) = k})]

Nobody == [p \in Partners |-> "none"]

TypeOK ==
  /\ camp \in CampStates
  /\ rec \in [Partners -> RecStates]
  /\ stats \in [Columns -> Nat]
  /\ msg \in [Partners -> Reached \cup {"none", "failed"}]
  /\ optOut \subseteq Partners
  /\ accepted \in [Partners -> Nat]
  /\ cron \in {"idle", "loop", "send", "commit", "end"}
  /\ cur \in Partners
  /\ batch \subseteq Partners
  /\ gone \subseteq Partners
  /\ snapped \in BOOLEAN
  /\ snap \in [rec : [Partners -> RecStates], optOut : SUBSET Partners]
  /\ stale \subseteq Partners \cup {"camp"}
  /\ staged \in [Partners -> Staged]
  /\ linked \subseteq Partners
  /\ holds \in BOOLEAN
  /\ echoed \in BOOLEAN
  /\ late \in Nat
  /\ userOps \in 0 .. MaxUser
  /\ hooks \in 0 .. MaxHook
  /\ crashes \in 0 .. MaxCrash

Init ==
  /\ camp = "draft"
  /\ rec = Nobody /\ stats = Stats(Nobody) /\ msg = Nobody
  /\ optOut \in SUBSET Partners
  /\ accepted = [p \in Partners |-> 0]
  /\ cron = "idle" /\ cur \in Partners /\ batch = {} /\ gone = {}
  /\ snapped = FALSE /\ snap = [rec |-> Nobody, optOut |-> {}]
  /\ stale = {} /\ staged = Nobody /\ linked = {}
  /\ holds = FALSE /\ echoed = FALSE
  /\ late = 0 /\ userOps = 0 /\ hooks = 0 /\ crashes = 0

-----------------------------------------------------------------------------
(* Users and webhooks: short transactions, which Odoo retries when they    *)
(* meet a conflict, hence one atomic step.  One that updates the campaign  *)
(* row waits while the scheduled action holds it.                          *)

(* Commit of the recipients and the campaign's state.  The stored          *)
(* statistics are written when a number changes.                           *)
Write(newCamp, newRec, deleted) ==
  LET touched == newCamp # camp \/ Stats(newRec) # stats
  IN  /\ touched => ~holds
      /\ camp' = newCamp
      /\ rec' = newRec
      /\ stats' = Stats(newRec)
      /\ stale' = stale \cup deleted \cup {p \in Partners : newRec[p] # rec[p]}
                        \cup (IF touched THEN {"camp"} ELSE {})

UserAct == userOps < MaxUser /\ userOps' = userOps + 1
HookAct == hooks < MaxHook /\ hooks' = hooks + 1

(* action_build_recipients: a recipient that was used is kept, the queued  *)
(* ones are deleted, and every target without a row gets a new one.        *)
Built(p, targets) ==
  IF rec[p] \notin {"none", "queued"} THEN rec[p]
  ELSE IF p \notin targets THEN "none"
  ELSE IF p \in optOut THEN "opted_out"
  ELSE IF p \in NoNumber THEN "skipped"
  ELSE "queued"

(* The row of a recipient whose message is being sent is referenced by the *)
(* uncommitted message row: its deletion waits.                            *)
Queued(r) == {p \in Partners : r[p] = "queued"}
Deletable == cron \in {"send", "commit"} => rec[cur] # "queued"

(* The targets are the contacts selected by then, or found by the filter.  *)
Rebuild(newCamp) ==
  /\ Deletable
  /\ \E targets \in SUBSET Partners :
       Write(newCamp, [p \in Partners |-> Built(p, targets)], Queued(rec))
  /\ gone' = gone \cup (Queued(rec) \cap batch)
  /\ UNCHANGED <<msg, optOut, accepted, runVars, txVars, echoed, hooks, crashes>>

(* Send Now, or Schedule / Launch, which waits for the date if it has one. *)
Launch ==
  /\ UserAct /\ camp = "draft"
  /\ \E s \in {"running", "scheduled"} : Rebuild(s)
  /\ late' = 0

(* Refresh Recipients. *)
Refresh ==
  /\ UserAct /\ camp \in {"draft", "scheduled", "running"}
  /\ Rebuild(camp)
  /\ UNCHANGED late

SetState(s) ==
  /\ Write(s, rec, {})
  /\ UNCHANGED <<msg, optOut, accepted, runVars, gone, txVars, echoed, hooks,
                 crashes>>

Cancel ==
  /\ UserAct /\ camp \notin {"done", "cancelled"}
  /\ SetState("cancelled")
  /\ late' = 0

ResetToDraft ==
  /\ UserAct /\ camp \in {"done", "cancelled"}
  /\ SetState("draft")
  /\ UNCHANGED late

(* A contact is flagged "WhatsApp Opt-out", or the flag is removed. *)
ToggleOptOut(p) ==
  /\ UserAct
  /\ optOut' = IF p \in optOut THEN optOut \ {p} ELSE optOut \cup {p}
  /\ UNCHANGED <<dbVars, accepted, runVars, gone, txVars, stale, echoed, late,
                 hooks, crashes>>

MsgRank(s) == CASE s = "failed" -> 0 [] s = "sent" -> 1
                [] s = "delivered" -> 2 [] s = "read" -> 3

(* _sync_from_messages ranks what it does not know 0. *)
RecRank(s) == IF s \in Reached THEN MsgRank(s) ELSE 0

(* Mutant: the recipient takes the status of its message. *)
SyncedBlind(p, s) == IF s \in Reached THEN s ELSE rec[p]

Synced(p, s) ==
  IF s \in Reached /\ MsgRank(s) > RecRank(rec[p]) THEN s ELSE rec[p]

(* message.ack, in any order and any number of times: the status advances, *)
(* or is an error, and the recipient follows its message.                  *)
Ack(p, s) ==
  /\ HookAct
  /\ msg[p] # "none" /\ s # msg[p]
  /\ s = "failed" \/ MsgRank(s) > MsgRank(msg[p])
  /\ msg' = [msg EXCEPT ![p] = s]
  /\ Write(camp, [rec EXCEPT ![p] = Synced(p, s)], {})
  /\ UNCHANGED <<optOut, accepted, runVars, gone, txVars, echoed, late, userOps,
                 crashes>>

(* message.any reports the message just sent before its row is committed:  *)
(* the webhook stores a row of its own under the same WhatsApp id.         *)
Echo ==
  /\ HookAct
  /\ cron = "commit" /\ cur \in linked /\ ~echoed
  /\ echoed' = TRUE
  /\ UNCHANGED <<dbVars, optOut, accepted, runVars, gone, txVars, stale, late,
                 userOps, crashes>>

-----------------------------------------------------------------------------
(* The scheduled action.                                                   *)

noTx == snapped' = FALSE /\ staged' = Nobody /\ linked' = {} /\ holds' = FALSE
          /\ stale' = {} /\ echoed' = FALSE /\ snap' = [rec |-> Nobody, optOut |-> {}]

(* Its transaction is rolled back and the run is over. *)
RunEnds == noTx /\ cron' = "idle" /\ batch' = {} /\ gone' = {}

BatchOf(B) == B \subseteq Queued(rec)
                /\ (B = Queued(rec) \/ Cardinality(B) = Limit) /\ Cardinality(B) <= Limit

(* Mutant: the state of the campaign is not tested. *)
CronStartsAny ==
  /\ cron = "idle"
  /\ holds' = (camp = "scheduled")
  /\ snapped' = TRUE /\ snap' = [rec |-> rec, optOut |-> optOut] /\ stale' = {}
  /\ \E B \in SUBSET Queued(rec) : BatchOf(B) /\ batch' = B
  /\ cron' = "loop"
  /\ UNCHANGED <<dbVars, optOut, accepted, cur, gone, staged, linked, echoed, late,
                 counters>>

(* cron_process_campaigns promotes the campaign when it is due and builds  *)
(* the batch of a running one.                                             *)
CronStart ==
  /\ cron = "idle" /\ camp \in {"scheduled", "running"}
  /\ holds' = (camp = "scheduled")
  /\ snapped' = TRUE /\ snap' = [rec |-> rec, optOut |-> optOut] /\ stale' = {}
  /\ \E B \in SUBSET Queued(rec) : BatchOf(B) /\ batch' = B
  /\ cron' = "loop"
  /\ UNCHANGED <<dbVars, optOut, accepted, cur, gone, staged, linked, echoed, late,
                 counters>>

(* The session is not working: the promotion is all that is committed.     *)
CronWaits ==
  /\ cron = "idle" /\ camp = "scheduled"
  /\ camp' = "running"
  /\ UNCHANGED <<rec, stats, msg, optOut, accepted, runVars, gone, txVars, stale,
                 echoed, late, counters>>

(* The first read after a commit. *)
CronSnapshot ==
  /\ cron = "loop" /\ ~snapped
  /\ snapped' = TRUE /\ snap' = [rec |-> rec, optOut |-> optOut] /\ stale' = {}
  /\ UNCHANGED <<dbVars, optOut, accepted, runVars, gone, staged, linked, holds,
                 echoed, late, counters>>

(* Mutant: a recipient that was visited stays in the batch. *)
VisitAgain(p) == cron = "loop" /\ snapped /\ p \in batch /\ batch' = batch

Visit(p) == cron = "loop" /\ snapped /\ p \in batch /\ batch' = batch \ {p}

(* The recipient was deleted: reading it fails when the snapshot is newer, *)
(* referencing it from the message row fails when it is older.             *)
CronMissing(p) ==
  /\ cron = "loop" /\ snapped /\ p \in batch /\ p \in gone
  /\ p \in stale => p \notin snap.optOut
  /\ RunEnds
  /\ UNCHANGED <<dbVars, optOut, accepted, cur, late, counters>>

(* Mutant: the state of a contact without a number is used. *)
CronSkipsOther(p) ==
  /\ Visit(p) /\ p \in snap.optOut
  /\ p \in gone => p \in stale
  /\ staged' = [staged EXCEPT ![p] = "skipped"]
  /\ UNCHANGED <<dbVars, optOut, accepted, cron, cur, gone, snapped, snap, linked,
                 holds, stale, echoed, late, counters>>

CronSkips(p) ==
  /\ Visit(p) /\ p \in snap.optOut
  /\ p \in gone => p \in stale
  /\ staged' = [staged EXCEPT ![p] = "opted_out"]
  /\ UNCHANGED <<dbVars, optOut, accepted, cron, cur, gone, snapped, snap, linked,
                 holds, stale, echoed, late, counters>>

CronPicks(p) ==
  /\ Visit(p) /\ p \notin snap.optOut /\ p \notin gone
  /\ cron' = "send" /\ cur' = p
  /\ UNCHANGED <<dbVars, optOut, accepted, gone, txVars, stale, echoed, late,
                 counters>>

(* create_and_send: accepted by WhatsApp; refused, or failing before the   *)
(* request; or accepted but the answer is lost (timeout).                  *)
CronSend ==
  /\ cron = "send" /\ cron' = "commit"
  /\ \E took \in BOOLEAN, answered \in BOOLEAN :
       /\ accepted' = [accepted EXCEPT ![cur] = IF took THEN @ + 1 ELSE @]
       /\ late' = IF took /\ camp = "cancelled" THEN late + 1 ELSE late
       /\ staged' = [staged EXCEPT ![cur] = IF took /\ answered THEN "sent" ELSE "failed"]
       /\ linked' = IF took /\ answered THEN linked \cup {cur} ELSE linked
  /\ UNCHANGED <<dbVars, optOut, cur, batch, gone, snapped, snap, holds, stale,
                 echoed, counters>>

(* Mutant: READ COMMITTED, where only the WhatsApp id can conflict. *)
ConflictOnId == echoed

(* A row it writes was changed after its snapshot, or the WhatsApp id of   *)
(* its message is taken.                                                   *)
Written  == {p \in Partners : staged[p] # "none"}
Conflict == Written \cap stale # {} \/ (Written # {} /\ "camp" \in stale) \/ echoed

(* What its transaction makes of the recipients it read. *)
Mine(p) == IF p \in Written THEN staged[p] ELSE snap.rec[p]

Publish(newCamp) ==
  /\ camp' = newCamp
  /\ rec' = [p \in Partners |-> IF p \in Written THEN staged[p] ELSE rec[p]]
  /\ stats' = IF Written = {} THEN stats ELSE Stats([p \in Partners |-> Mine(p)])
  /\ msg' = [p \in Partners |-> IF p \in linked THEN "sent" ELSE msg[p]]
  /\ noTx

CronCommit ==
  /\ cron = "commit" /\ ~Conflict
  /\ Publish(IF holds THEN "running" ELSE camp)
  /\ cron' = "loop"
  /\ UNCHANGED <<optOut, accepted, cur, batch, gone, late, counters>>

CronCommitFails ==
  /\ cron = "commit" /\ Conflict
  /\ RunEnds
  /\ UNCHANGED <<dbVars, optOut, accepted, cur, late, counters>>

CronLeaves ==
  /\ cron = "loop" /\ snapped /\ batch = {}
  /\ cron' = "end"
  /\ UNCHANGED <<dbVars, optOut, accepted, cur, batch, gone, txVars, stale, echoed,
                 late, counters>>

(* Mutant: failed recipients keep the campaign open. *)
FinishedAllSent == \A p \in Partners : Mine(p) \notin {"queued", "failed"}

(* Nothing queued is left in the snapshot: the campaign is done. *)
Finished == \A p \in Partners : Mine(p) # "queued"

(* Mutant: the final state is written over whatever was committed. *)
CronEndBlind ==
  /\ cron = "end"
  /\ Publish(IF Finished THEN "done" ELSE IF holds THEN "running" ELSE camp)
  /\ cron' = "idle" /\ batch' = {} /\ gone' = {}
  /\ UNCHANGED <<optOut, accepted, cur, late, counters>>

CronEnd ==
  /\ cron = "end" /\ ~Conflict
  /\ Finished => "camp" \notin stale
  /\ Publish(IF Finished THEN "done" ELSE IF holds THEN "running" ELSE camp)
  /\ cron' = "idle" /\ batch' = {} /\ gone' = {}
  /\ UNCHANGED <<optOut, accepted, cur, late, counters>>

CronEndFails ==
  /\ cron = "end" /\ (Conflict \/ (Finished /\ "camp" \in stale))
  /\ RunEnds
  /\ UNCHANGED <<dbVars, optOut, accepted, cur, late, counters>>

CronCrash ==
  /\ cron # "idle" /\ crashes < MaxCrash
  /\ crashes' = crashes + 1
  /\ RunEnds
  /\ UNCHANGED <<dbVars, optOut, accepted, cur, late, userOps, hooks>>

CronStep ==
  \/ CronStart \/ CronSnapshot
  \/ \E p \in Partners : CronMissing(p) \/ CronSkips(p) \/ CronPicks(p)
  \/ CronSend \/ CronCommit \/ CronCommitFails
  \/ CronLeaves \/ CronEnd \/ CronEndFails

-----------------------------------------------------------------------------
User ==
  \/ Launch \/ Refresh \/ Cancel \/ ResetToDraft
  \/ \E p \in Partners : ToggleOptOut(p)

Hook ==
  \/ \E p \in Partners, s \in Reached \cup {"failed"} : Ack(p, s)
  \/ Echo

Next == User \/ Hook \/ CronStep \/ CronWaits \/ CronCrash

Spec == Init /\ [][Next]_vars

(* The scheduled action is triggered every minute, and runs. *)
FairSpec == Spec /\ WF_vars(CronStep)

-----------------------------------------------------------------------------
(* Properties.                                                             *)

(* _compute_stats: the statistics are stored, and the scheduled action     *)
(* computes them from its snapshot; they are exact all the same, whatever  *)
(* acknowledgements and refreshes commit meanwhile.                        *)
StatsExact == stats = Stats(rec)

(* _process_batch: "Commit per message so a later crash doesn't re-send    *)
(* earlier ones".  The batch and the snapshot are old when a message is    *)
(* sent, yet it only ever goes to a contact whose committed recipient is   *)
(* still queued: one that reached a contact, failed or was opted out and   *)
(* committed so is never sent again, in this run or after a reset.         *)
OnlyQueuedIsSent ==
  [][\A p \in Partners : accepted'[p] > accepted[p] => rec[p] = "queued"]_vars

(* A recipient never loses what it reached, whatever the order of the      *)
(* acknowledgements, of errors among them, and of rebuilds and resets; and *)
(* it is never behind its message.                                         *)
ProgressIsKept ==
  [][\A p \in Partners : /\ RecRank(rec'[p]) >= RecRank(rec[p])
                         /\ RecRank(rec'[p]) >= RecRank(msg'[p])]_vars

(* The scheduled action decides from its snapshot that a campaign is done, *)
(* yet no recipient is left queued, even one a user added meanwhile.       *)
DoneMeansDone == camp = "done" => Queued(rec) = {}

(* Cancel does not reach a batch under way, but it sends at most that one. *)
CancelStops == late <= Limit

(* A running campaign ends: no conflict, deleted recipient or crash makes  *)
(* the scheduled action lose its way.                                      *)
RunningEnds == camp = "running" ~> camp \in {"done", "cancelled"}

(* README: "each recipient's state (queued -> sent -> delivered -> read /  *)
(* failed) is tracked": when the scheduled action has finished, a contact  *)
(* that was sent a message is not queued any more.                         *)
SentIsTracked ==
  cron = "idle" => \A p \in Partners : accepted[p] > 0 => rec[p] # "queued"
=============================================================================
