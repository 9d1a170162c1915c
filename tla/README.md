# Formal model of the WAHA WhatsApp suite

TLA+ specifications of the Odoo modules in this repository
(`waha_whatsapp_suite`, `waha_whatsapp_helpdesk` and the bundled `queue_job`),
the TLC configurations that check them on small instances, and proofs checked
by TLAPS. Paths below are relative to `src/`.

## 1. The system

The suite connects Odoo with a WAHA server, which speaks WhatsApp. WAHA posts
webhooks to Odoo; Odoo sends through WAHA's HTTP API; users work in a chat
window, in inbox conversations and in forms; scheduled actions and queue jobs
do the rest. Everything shares one PostgreSQL database, at the isolation level
Odoo uses, REPEATABLE READ. Most of what is hard follows from three facts:

* a transaction computes from a snapshot that may be seconds old (contact, media
  and picture are fetched over HTTP in the middle of it), and a write of a row
  that changed since the snapshot fails;
* a WhatsApp send cannot be undone, while the transaction around it can be
  rolled back, and may even be run again;
* several modules swallow exceptions of a statement and go on, but the
  transaction of a failed statement is dead: everything after it fails too.

| component | state | operations | interacts with |
|---|---|---|---|
| Auto-reply dispatch (`models/whatsapp_message.py`, `models/waha_autoreply.py`) | `needs_autoreply` of the message, the queue job | flag, claim, commit, run rules, scheduled scan | webhook, queue_job, sends |
| Auto-reply rules (`models/waha_autoreply.py`) | rule counters, cooldown, what actions write | match, reply, tag, assign, lead, ticket, opt out | conversations, contacts |
| Inbound webhook (`controllers/webhook_controller.py`, `webhook_bus.py`) | message row and `inbound_processed` | store once, claim side effects once, push to chats | conversations, dispatch, bus |
| Shared inbox (`models/waha_chat_thread.py`) | unread counter, stage, assignee | touch, open, assign, resolve, reopen | webhook, rules |
| History import (`models/waha_session.py`) | message and conversation rows | import one chat | webhooks of the same messages, users |
| Campaigns (`models/waha_campaign.py`, add-to-campaign wizard) | state, recipients, stored statistics | launch, schedule, refresh, cancel, reset, batch | acknowledgements, sends |
| Delivery acknowledgements (`webhook_bus.py`) | message status, recipient state | advance, fail | campaigns, chat window |
| Sync jobs (`models/waha_sync_job.py`, sync wizard) | job state, cursor, counters | tick, cancel, retry | session, import |
| Session lifecycle (`models/waha_session.py`, `qr_controller.py`) | status | start, stop, refresh, webhook | everything that sends |
| Chat window (`static/src/js/`) and its controllers | selected chat, loaded messages, flags | open, load, send, bus events | bus, sends |
| queue_job: execution (`queue_job/controllers/main.py`, `job.py`, `models/queue_job.py`) | job row, lock row | acquire, perform, store, postpone, fail | runner |
| queue_job: runner (`jobrunner/runner.py`) | its view of the jobs | notify, enqueue, requeue dead | channels, workers |
| queue_job: channels (`jobrunner/channels.py`) | queued, running, failed, per channel | notify, pick the next jobs | runner |
| queue_job: graphs (`delay.py`) | dependencies | chain, group, wait, enqueue, cancel | execution |
| Contacts and phone numbers (`models/res_partner.py`, parts of the webhook and of the session) | partners, the name of the last sync | find or create, sync the phone's book, rename | webhook, session |
| Templates, canned replies, wizards, chatter | form records | render, send | sends |

What makes each of them correct:

* dispatch: one reply at most per message, none lost but by an error or a crash
  of its own, none waiting for ever;
* webhook and inbox: a message is stored and handled once, counted as unread
  once, reopens its conversation, and a request answered with success has
  been handled;
* campaigns: a contact is sent at most one message per queued recipient, the
  statistics are those of the recipients, done means that nobody is left,
  acknowledgements never set a recipient back, a running campaign ends;
* queue_job: one worker at a time performs a job, only a job that is started is
  committed, a pending job is run, capacities are respected;
* queue_job's channels and graphs: no channel holds more jobs than its capacity,
  a sequential one keeps its order, the runner's books agree with the rows, a
  job waits for the jobs it was declared to follow and for no others;
* sync jobs and sessions: no chat is passed over but one that failed itself, a cancelled job stays
  cancelled, every job ends, the stored status follows the WAHA server's;
* chat window: what is shown belongs to the chat that is open, has no gaps, no
  repeated echoes and the right ticks;
* contacts: a number has one partner, and a name a user typed is kept.

PROJECT.json lists every place where one of these could go wrong ("hazards"),
with the properties that cover it, or why none does yet.

## 2. The modules

| module | models | checked by |
|---|---|---|
| `ReplyOnce` | abstract: a flag is taken once, answered at most once | refined by `AutoReply` |
| `AutoReply` | dispatch of auto-replies | `AutoReplySafety`, `AutoReplyJobShipped`, `AutoReplyProofs` |
| `Inbox` | abstract: stored once, handled once, counted once | refined by `Inbound` |
| `Inbound` | webhooks, imports and users on messages and conversations | `InboundSafety`, `InboundImportRace`, `InboundProofs` |
| `Campaign` | a campaign, its acknowledgements and its users | `CampaignSafety`, `CampaignSent`, `CampaignProofs` |
| `QueueJob` | jobs, runner, workers and buttons of queue_job | `QueueJobSafety`, `QueueJobOrphan`, `QueueJobProofs` |
| `Channels` | the tree of channels of the runner, its rounds and its sleep | `ChannelsSafety`, `ChannelsProofs` |
| `ChannelNames` | names and configuration of channels: functions | assumption `NamesAreRight`, in `ChannelsSafety`; `ChannelsProofs` |
| `ChannelQueues` | the heaps a channel's queue is made of: functions | assumption `QueuesAreSets`, in `ChannelsSafety`; `ChannelsProofs` |
| `JobGraph` | chains, groups and their dependencies: functions | assumption `GraphsAreRight`, in both runs of `QueueJob` |
| `JobOrder` | what is done with a graph of jobs: storing, direct execution, batches: functions | the same assumption; `QueueJobProofs` |
| `WahaSession` | status of a session, at WAHA and on its row | composed into `SyncJob` |
| `SyncJob` | sync jobs, composed with `WahaSession` | `SyncJob`, `SyncJobProofs` |
| `ChatWindow` | the browser's chat window, its controllers, WhatsApp's webhooks and the bus | `ChatWindow`, `ChatWindowProofs` |
| `Contacts` | partners found, created and renamed by webhooks, syncs and users | `Contacts`, `ContactsProofs` |
| `MC...` | values for TLC; `MCQueueJob` takes its dependencies from `JobGraph`, `MCChannels` its tree from `ChannelNames` | |

Definitions whose comment begins with "Mutant:" are not part of the model. Each
is a plausible wrong version of the definition after it; with it in place, the
property named in PROJECT.json fails.

### AutoReply

For each message: the committed flag `pending`, the row lock of an uncommitted
claim, the job, and what its worker is doing. The worker and the scheduled
action each have a snapshot of the flag (`jobSnap`, `cronSnap`). The claim,
one `UPDATE ... WHERE needs_autoreply = TRUE RETURNING id`, has three outcomes
in each of them: lost (the snapshot shows it taken), conflict (taken by a
transaction committed after the snapshot) and won; while another transaction
holds the row uncommitted it waits, which is a step that is not enabled. The
commit comes next, then the send, then the end.

`AllowCommit` says which settings of the job function may be met: queue_job
replaces `cr.commit` by a function that raises (`JobCommitRefused`) unless the
job function allows commits (`JobCommit`). The module ships no record that
does, so the shipped value is `{FALSE}`. The scheduled action
loads at most `Limit` messages in id order, claims each, commits, sends,
commits; a conflict outside its `try` ends the run.

`RulesRun` is what a run of the rules comes to. It replies; or no reply is due,
and the message is in `silent`; or it is in `erred`: the code swallows the
exception of a rule, skips a session that is not working, swallows a failed send,
and the scheduled action logs and rolls back whatever else is raised. All of it
happens after the claim was committed, so the reply is missed for good.

Choices left open on purpose: delaying the job may fail (the exception is
logged); what ends a job after its send (done, postponed after a serialization
failure, failed); whether a dead job has retries left.

### Inbound

A webhook request is one transaction: `pc` says how far it is, `row` and `thread`
are the snapshot of its message and conversation, `missed` says that the
conversation changed since. Row locks of uncommitted writes are `keyLock` (the
advisory lock of the message id, which also covers the message row) and
`threadLock` (the conversation row, or its unique key while it is inserted).
The ORM keeps an update in its cache until a flush, so a known conversation is
written at the end of the request (`Flush`), a new one at once (`TouchNew`).

Each failure is followed to its end: the swallowed `INSERT ... ON CONFLICT`
(`StoreUnseen`: an empty record, and success), the swallowed claim
(`ClaimConflict`) and the swallowed unique violation (`TouchRaced`), after
which the transaction is dead and the request is answered with an error; and
the serialization failure of the flush, which Odoo retries (`Retry`, `GiveUp`).
What a webhook writes is computed from its snapshot (`Touched`) - that the
committed rows still behave as `Inbox` says is the theorem to check, not an
assumption.

An import is one transaction too, of a whole chat (`_sync_chat_messages` and the
commit after it). It finds the conversation (`ImportFinds`), and may have the
chat's contact to write on it (`link`), or inserts it and holds its key from then
on (`ImportCreates`). Then it goes through the messages, newest first, takes the
advisory lock of each (`ImportLocks`) and keeps it until `CommitImport`. A
webhook that holds the lock of one of them may wait for the conversation: that is
a circle. `WaitsFor` says who waits for whom, and PostgreSQL aborts a transaction
that is in a circle (`Deadlocked`): a webhook that was updating the conversation
is run again, one that was creating it is answered with an error, an import ends
(`ImportDeadlock`). A chat that fails is dropped with all it stored
(`ImportAborts`).

### Campaign

One campaign, its recipients by contact, the message WhatsApp accepted for each
of them and the stored statistics. The scheduled action's transaction has a
snapshot, the recipient states it has written (`staged`), the set of rows that
others committed since (`stale`), and whether it holds the campaign row, which
it locks when it promotes a scheduled campaign. A commit fails when a row it
writes is stale, and the campaign row is one of them whenever the statistics
change; or when a webhook took the WhatsApp id of the message just sent
(`Echo`). The send has four outcomes: accepted or not, answered or not; an
answer that is lost is recorded as failed.

Users' and webhooks' transactions are atomic steps: they are short, and Odoo
runs them again on conflict. A refresh deletes the queued recipients and
creates new ones: `gone` holds those of the batch, which the scheduled action
finds missing. `accepted` and `late` are history variables.

### QueueJob

The rows of the jobs (`state`, `retry`), the row locks that tell the requeuer a
job is alive (`lock`), the runner's view (`view`), the notifications it has not
read (`notes`), the requests on their way (`calls`), and what each worker is
doing. A notification names a job, and the runner reads its row as it is then;
`moved` are the jobs whose eta or priority changed, which the runner removes
before it places them again. `Enqueue` updates the row by uuid, without looking
at its state. `Acquire` is the worker's first transaction, `Lock` begins the
second; what it finds started, locked or cancelled by then makes it give up
(`LockRefused`). `RequeueDead` takes a job that nobody can take any more,
`RequeueSlow` one whose request or worker took more than ten seconds.
`CommitDone` commits the effects and the state; a job whose row was edited
meanwhile, or that meets a conflict of its own, is postponed. A postponed or
failed job is stored through a cursor of its own, unconditionally, while the
lock is still held (`Postpone`, `Fail`, then `Release`). Children are queued by
a transaction after the commit (`Dependents`).

`job.lock()` is one statement, whose snapshot and lock the model takes in one
step. It excludes that a dead-job requeue, and a whole second execution, happen
inside that statement. Users' transactions are atomic too. The states of the
parents are read once, at the acquisition, as `Job.depends_on` does (`waits`).
`done` counts the executions committed since a user last asked for the job, and
`finished` are the jobs that were done at some time: history variables.

### Channels, ChannelNames, ChannelQueues

`db` and `eta` are the rows; `queue`, `running` and `failed` the books of each
channel; `wait` the eta under which the manager sorted a job, `pause` the end of
a channel's throttling, and `turn` the channel a round (`get_jobs_to_run`) is
at. `Notify` is `ChannelManager.notify`: it reads the row as it is when it gets
to the notification, makes the job anew when it does not know it or when its
channel, eta or priority changed, and passes it to the operation of its state in
every channel of its path. `Pop` is one `get_jobs_to_run` of a channel: the
least job that may run leaves the queue, counts as running, and goes on to the
queue of the parent channel, or is enqueued if this is the root. A sequential
channel first looks at its failed and running jobs; a throttled one closes for a
while. `StartRound`, `Wake` and `Asleep` are the runner's select with its
timeout: `SleepsWell` says that it never sleeps on a job it could hand out, and
`PendingMovesOn` that it never sleeps past an eta or the end of a pause. `Restart` empties the books and reads the rows again.

A queue is a set of jobs, of which the least is popped. That this is what two
heaps with lazy removal do is `ChannelQueues`: for every short sequence of
additions, removals and pops, before and after an eta, the heaps hold and pop
what the set does (`QueuesAreSets`), and for queues of any size it is proved
(section 4). What a configuration string and a job's
channel name make of the tree is `ChannelNames`, whose results are the tree of
the run; its three checks over small configurations are theorems for all of them.

### JobGraph, JobOrder

A delayable is a job, a chain or a group, with those that follow it. `Borders`,
`Links` and `GraphEdges` follow `delay.py` from nested delayables to the
dependencies between jobs. `JobOrder` takes the graph from there: `ToStore` is
which jobs are not stored because one with the same identity exists,
`topological_sort` the direct execution, `split` the batches; it has no recursive
operator, so that it can be proved about. `OrderKept`, `NoCycle`, `NothingLost`, `DirectOrder` and
`SplitCovers` compare them with reference definitions, over all delayables of
four jobs and two levels of nesting.

### WahaSession and SyncJob

`remote` is the session at WAHA, `status` the row. Whoever calls WAHA first and
writes then (`action_start_session`, `action_stop_session`,
`action_refresh_status`) leaves an operation in `ops` between the two; a write
committed meanwhile makes it `outdated`, and refused. Webhooks carry `reports`,
in any order. `SyncJob` extends the module: a job starts, and a tick works, only
while the row of its session says working.

`tick` is one run of the scheduled action, with the place it is at and whether a
user changed the row since its last commit. Each commit of the code is a step:
after the contacts, after the chats are collected, after every chat. A chat may
fail alone (`ChatFails`: WAHA does not list its messages, or a message raises
before the database is asked); then the cursor moves past it, and `passed`
remembers it. An error of the database in a chat kills the transaction, so that
the write of the cursor fails as well and the tick with it (`TickFails`). A user may
cancel or requeue between any two; the tick's next write is then refused, and
its error path (`TickFails`) writes `failed` over whatever the row says.

### ChatWindow

A message is its chat and its number in it. `active`, `shown`, `offset` and
`hasMore` are the window's state, `request` the load under way (the code has one
flag for all chats), `sends` the sends that were not answered. Every `await` of
`waha_chat_action.js` splits a function: `OpenChat` or `Scroll`, then `ReadPage`
in the controller, then `Loaded`; `Send`, then `Accept`, `Store`, then `Sent`.
WhatsApp's webhooks (`Hook`, `AckHook`) run in any order and push to `bus`,
which the window handles in order (`Deliver`).

Who stores the row of a message decides what the browser learns. A webhook that
stores the row or has it in its snapshot pushes it (`Hook`); one whose snapshot is
older than the row gets no record from `create()` and pushes nothing
(`HookUnseen`); an import stores without a push (`Import`). A send that finds the
row taken answers with no id (`"nameless"`), and where WAHA knows the chat under
another address than its events use (`Aliased`: @lid, @c.us) with another form of
the id (`"alias"`), and stores a row of its own. A nameless bubble is found by
nothing, an alias by acknowledgements alone, which compare the hash (`SameHash`),
and not by the echo, which compares the id (`SameId`). A send may fail at any
point, its row already committed or not (`SendFails`). Acknowledgements are 1 to
3 and -1 (4 in the model), come in any order and repeatedly, and are pushed
whether the status guard took them or not (`Tick`); a page shows a failed message
as sent (`PageStatus`).

`shown` remembers where each bubble came from, for the properties and the ids;
`refused`, `astray` and `silent` are history. The ids of pages, pushes and
acknowledgements are taken to have one form.

### Contacts

A number is the digits a contact is known by, of its phone or of its LID. Every
transaction works on the partners it saw when it began (`seen`): a webhook
(`HookBegins`, `_find_or_create_partner`), a page of a sync. A page is the
contacts WAHA lists at once (`PageSize`, 500 in the code): it reads the phone's
names and the partners when it begins (`Page`), sees its own writes (`seen`),
holds the rows it wrote (`Held`), fails on a row that changed since it began
(`UpdateName`), and is committed as a whole (`SyncCommits`). How a number is written in the partner's phone field decides
whether a search finds it (`Found`, `_find_partner_by_phone`). `raced` and the
fields `typed` and `agreed` are history.

## 3. What the runs check

| run | instance | shows |
|---|---|---|
| `AutoReplySafety` | two messages, batches of two, job and scheduled action, commits allowed or refused, two crashes, two requeues, fairness | at most one reply (`AtMostOneReply`); every reply missed had an error of its own, or has a crash of its own (`OneMissedPerError`); refinement of `ReplyOnce`; every flag is taken (`FlagIsTaken`) |
| `AutoReplyJobShipped` | commits refused, no scheduled action | finding 1: `JobReplies` fails |
| `InboundSafety` | two webhooks and an import, two messages of one chat, two user operations, two attempts | refinement of `Inbox`: once stored, once handled, counted exactly once, however requests overlap; `UnreadReopens`; `SuccessUnlessImported`; `NobodyStuck`: nobody waits for what nobody will release, and webhooks deadlock only with an import |
| `InboundImportRace` | a webhook and an import | finding 2: `SuccessMeansHandled` fails |
| `CampaignSafety` | two contacts, batches of two, two user operations, three webhooks, a crash, fairness | `StatsExact`, `DoneMeansDone`, `CancelStops`, `OnlyQueuedIsSent`, `ProgressIsKept`; a running campaign ends (`RunningEnds`) |
| `CampaignSent` | three contacts, no crash | finding 3: `SentIsTracked` fails |
| `QueueJobSafety` | a chain of two jobs, two workers, one slot, one retry, two requests at once, a fault, a user action, fairness | `MutualExclusion`, `EffectsOnce`, `CapacityRespected`, `ParentsFirst`; `NotStranded`: a job that is to run always has a step due, or waits for slots of such jobs; `JobRuns`: it is performed in the end |
| `QueueJobOrphan` | the same chain and user action with two slots, two retries and no fault | finding 4: `ReadyJobsStart` fails |
| `ChannelsSafety` | three jobs, two of them in a sequential, throttled channel below the root and one, which waits for a parent, in the root; a user action, a failure or restart, time up to the end of what is waited for, fairness | `CapacityKept` (by the rows), `ManagerAgrees`, `SequentialBlocks`; `SleepsWell`: asleep with nothing to read and no wake-up due, no job could be handed out, and without a wake-up every pending job is held up by another; `PendingMovesOn`: no wake-up is missed |
| `SyncJob` | two jobs of one session with three chats, batches of two and of the default, two user edits, a crash or failing call, a start or stop and a change at WAHA, fairness | `Resumable`, `CancelHolds`; `StatusConverges`; `JobsEnd` |
| `ChatWindow` | two chats of two and one messages, one of them known to WAHA under two addresses, pages of one, one message sent or received, which is delivered or fails, three chats opened, one failing call, repeated acknowledgement or import, one push under way, fairness | `OwnMessagesOnly`, `NoGaps`, `EchoShownOnce`, `TicksSettle`; `FirstPage` |
| `Contacts` | one contact with a phone and a LID, two webhooks, two syncs of one page each, three renames | `OnePartner`, `NamesKept` |

Bounds. Nothing in the dispatch couples more than two messages but the order and
the size of a batch: two messages give an earlier and a later one of a batch, and
batches that leave messages out are covered by the proofs, which hold for every
limit. Webhooks of one message interact through its advisory lock and its row, of
two messages through the conversation; two of them and an import give every
overlap of two with a third that commits in between, which is what a conflict
takes, and, with two messages, the circle of an import and a webhook. Three webhooks
at once and circles of more than two are left to the proofs. Two contacts with
batches of two give an earlier and a later recipient of one run; three webhooks
are what it takes to set a recipient back after it advanced. A chain of two jobs
has a parent that runs, is done again or is cancelled before or while its child
runs; two workers are what a duplicated request takes, one slot makes the two
jobs compete; several faults or user actions in one behaviour are left to the
proofs. A waiting job keeps a slot (`KeepsSlot`) only after two user actions, so
the run, where `JobRuns` is checked, does not meet that exception; `NotStranded`
is proved for any number.
Three jobs in two channels give an earlier and a later job of a sequential
channel and one that competes with both for the root's only place. Two chats are
what a switch takes; with pages of one message, a thread of two has a first and a
next page; two messages at once, larger pages and longer threads are left to the
proofs, and so are messages that are read: the run takes delivered (2) and failed
(4), the two that a message just sent may come to.
Two overlapping webhooks and a sync make every pair of transactions that do not
see each other; the contact's two addresses fit one page (`PageSize` = 2), and the
second sync is what a second page would be. The proofs hold for pages of any size.

Crashes, requeues, user operations and webhooks are bounded by counters that
only their actions test, so that every behaviour up to the bound is covered.
Deadlock checking is off because each of these systems may stop: everything is
answered, sent or bounded.

Fairness. A worker goes on with a request it received, the job runner and its
workers run, scheduled actions are triggered every minute.

* `AutoReply`, `Campaign`: weak fairness of the job's and of the scheduled
  action's steps. Nothing obliges a message to arrive, a user to act or a process
  to crash; webhooks and users are bounded in number, so that conflicts end.
* `QueueJob`: weak fairness of the runner's and workers' steps, strong for
  `Enqueue`, because a postponed job waits for its eta and leaves its slot to the
  jobs that are queued.
* `Channels`: the runner goes on with its rounds, time passes, workers end what
  they were given; notifications are read between rounds, when the runner is not
  in the middle of one, hence the strong fairness of `Notify`.
* `WahaSession`: the scheduled refresh comes again and again, transactions under
  way end, some webhook of those under way is delivered.
* `SyncJob`: the tick goes on, and a next one begins.
* `ChatWindow`: a load is answered, by its timeout if by nothing else.

`NobodyStuck` is a state property in place of a liveness one. An open transaction
has what it waits for (`Ready`, which names the locks), or waits for one that is
open too (`OpenGoesOn`); a circle of waiting ones contains an import that holds the
conversation and waits for a message, which another member of it holds
(`CircleNeedsAnImport`), and PostgreSQL breaks it; and a transaction is ready, or
in such a circle, exactly when it can take a step. The last part uses ENABLED and
only TLC can check it; the rest is also proved.

### Findings

1. The auto-reply job never replies as shipped: its `cr.commit()` raises inside
   queue_job, and only the scheduled action sends.
2. A history import that commits a message while its webhook runs makes the
   webhook succeed without any of its side effects.
3. A commit after a campaign send fails when an acknowledgement, a refresh or
   the webhook of the message itself commits during the send; the contact is
   sent the message again a minute later.
4. A job that is retried looks at the states its parents had when it started.
   When a parent was done meanwhile, the job is put back to wait for it, and
   nothing queues it again. (A crash between a job's commit and the update that
   queues its children has the same end.)

### What the properties except

Some properties hold only with an exception, which is written into them. Each is
a behaviour of the code that a reader of its comments may not expect.

* `ManagerAgrees`, `PendingMovesOn`, and `NotStranded`, `JobRuns` of `QueueJob`: a
  job that is requeued while its parents are
  not done, before the notification of its end was read, becomes
  `wait_dependencies` and keeps its running place in the channels
  (`queue_job/jobrunner/channels.py:1057`). With one slot, a parent that was
  requeued before it then waits for that slot until the runner starts again;
  after a failure it goes on blocking
  its sequential channel.
* `CancelHolds`, `Resumable`: the tick that was under way when a user cancelled
  the job may write `failed`, `collecting` or `done` over it
  (`models/waha_sync_job.py:161`); a job cancelled and requeued during a tick may
  be done early. An exception in one chat is swallowed and the cursor moves past
  the chat (`models/waha_sync_job.py:132`), which no later tick looks at again.
* `OneMissedPerError`: an error of the rules after the claim was committed loses
  the reply (`models/waha_autoreply.py:122`); a crash there loses one.
* `NobodyStuck`: an import that creates a conversation, or writes the contact on
  it, and a webhook of a message it has still to store deadlock
  (`models/waha_session.py:999`). The webhook is run again or answered with an
  error, or the chat fails.
* `JobsEnd`: the scheduled action looks at the oldest active job only; while its
  session is not connected, every other job waits.
* `StatusConverges`: a refresh of a session that WAHA does not have fails and
  leaves the status, so a late webhook stays on the row. A stop that is refused
  is run again, gets an error for the session it deleted before, and leaves the
  row as it was.
* `NoGaps`, `TicksSettle`, `FirstPage`: a chat that is opened while another loads
  is not loaded, because one flag guards all loads; the answer to a chat that was
  left and opened again is accepted; a load that fails closes the gate of the
  chat open now.
* `NoGaps`: a message stored by an import before its webhook, or by a send whose
  answer is lost after the commit, while the webhook's snapshot is older, is
  pushed by nobody and appears with the next page (`controllers/webhook_bus.py:143`).
* `OwnMessagesOnly`, `EchoShownOnce`: a bubble is pushed into the chat that is
  open when its send is answered, even if its echo is on screen already. When the
  webhook stored the row first, the answer has no id
  (`controllers/chat_controller.py:298`), and when WAHA answers with another form
  of the address, another id: the echo then appears beside the bubble. A page is
  put before what is on screen without a comparison, so a message may be in both.
* `TicksSettle`: a bubble without an id never ticks; an acknowledgement that the
  status guard refused is pushed all the same, so ticks may go back; one that
  arrives before its bubble, or before there is a row, is lost; after a page that
  calls a failed message sent, nothing corrects it.
* `OnePartner`: two webhooks of a new contact make two partners; so does a sync
  beside a webhook. A contact known by its LID gets a partner of the LID's digits.
* `NamesKept`: once the phone had the typed name at some sync, the name counts
  as not edited, and the phone's next change overwrites it.
* `OrderKept`: a chain that begins or ends with a chain is linked by the wrong
  jobs when it is a part of another delayable (`queue_job/delay.py:330`);
  `NothingLost`: in a graph of which only some jobs have an identity key, those
  without are dropped when all with one exist. Only the first job that exists
  already is replaced in the graph (`queue_job/delay.py:286`).
* `NamesAreRight`: the channel of a name that repeats the name of its parent
  (`root.sub.sub`) is another one at the second lookup.

## 4. What is proved

`AutoReplyProofs` proves, for all sets of message ids, limits and bounds, with
or without the scheduled action, commits allowed or not:

* `TypeCorrect`: `Spec => []TypeOK`;
* `ReplyAtMostOnce`: `Spec => []AtMostOneReply`;
* `ErrorsAndCrashesExplainMissed`: `Spec => []OneMissedPerError`;
* `Implementation`: `Spec => ImplementsReplyOnce`.

The only assumption is `AutoReplyAssumption`, which says what kind of value each
constant has. `AtMostOneReply` is not inductive: it does not say who may send.
The invariant `IInv` adds `Claims`: whoever is about to send a message has
taken its flag and nobody has replied; job and scheduled action are never both
about to send the same message; a lock belongs to the one whose claim it is; a
message that is still flagged has no reply. Each action is a lemma-sized step of
the induction, and the refinement proof maps every step to `Flag`, `Claim`,
`Reply` or a stutter, from the same invariant. `OneMissedPerError` compares the
number of messages that were missed without an error of their own rules with the
number of crashes. It is inductive beside `IInv` once one knows that these messages
are finitely many and that whoever ended a run of the rules has recorded what it
came to (`Accounted`): only a crash of the one who claimed adds a message, and it
adds one.

`InboundProofs` proves, for any number of messages, any sets of chats, requests and
imports, whichever messages are incoming, any number of attempts and of users' operations:

* `TypeCorrect`: `Spec => []TypeOK`; `Answered`: `Spec => []SuccessUnlessImported`;
* `Reopens`: `Spec => UnreadReopens`;
* `NoDeadlock`: `Spec => [](OpenGoesOn /\ CircleNeedsAnImport)`;
* `Implementation`: `Spec => ImplementsInbox`.

The assumption is `InboundAssumption`. Under snapshot isolation a request acts on what it read, so the invariant says how
far that can be trusted. `Locks`: who holds the key of a message or the row of a
conversation is decided by where each request stands. `Snapshots`: a row that was
read there, or handled, still is; a request past `create()` that found no row is
the only one that can insert it, because it holds the key; the conversation it
read is the committed one unless the request is in `missed`, and a request that
flushed is not. From this `Writes`: what is committed over the conversation is
computed from the committed values, hence nothing is counted twice or lost, and
each commit maps to `Import`, `Handle` or `Read` of `Inbox`, or to a stutter.
Of an import `ImpOk` says that it holds the lock of every message it has gone
through and the conversation it created or linked, and that what it is to insert
is not there: its commit is `Import(c, S)` with the messages it stored. `NoDeadlock` needs
one fact more, `Later`: a request that inserted its conversation missed no write
to it. Then a webhook that holds a conversation waits for nothing. Of the
messages waited for in a circle take the oldest: who holds it waits for the
conversation, because an import only holds newer messages than it waits for; and
who holds the conversation is an import that waits for a message.

`CampaignProofs` proves, for any finite set of contacts, any limit per run, and
any number of users' operations, webhooks and crashes:

* `TypeCorrect`: `Spec => []TypeOK`; `Exact`: `Spec => []StatsExact`;
* `NobodyForgotten`: `Spec => []DoneMeansDone`; `CancelBounds`: `Spec => []CancelStops`;
* `NeverSentAgain`: `Spec => OnlyQueuedIsSent`; `ProgressKept`: `Spec => ProgressIsKept`.

None is inductive: the scheduled action writes statistics it computed from a
snapshot, and sends to a batch it read earlier. `Snapshot` says that the snapshot
differs from the database only in rows that are in `stale` (so that writing them
fails), and that as long as the campaign row is not among them, the numbers of
the snapshot are those of the database. `StillQueued` says the same of the batch:
who is still to be sent to is queued, unless changed since. `Bounded` counts the
sends the run may still make with those made after the cancellation. Three lemmas
about `Stats` carry the arithmetic: changing the same recipients in the same way
changes the numbers of two tables in the same way (`StatsMerge`).

`QueueJobProofs` proves, for every finite set of jobs, every dependency relation,
any number of workers, every capacity and retry limit, and any number of faults
and user actions:

* `TypeCorrect`: `Spec => []TypeOK`, which is not among the run's properties;
* `Exclusion`: `Spec => []MutualExclusion`;
* `CommittedOnce`: `Spec => []EffectsOnce`;
* `CapacityKept`: `Spec => []CapacityRespected`;
* `NoneStranded`: `Spec => []NotStranded`, the part of `JobRuns` that is not about
  fairness;
* `GraphOrder`: `Spec => ParentsFirst`.

Three theorems are about the functions of `JobOrder`, for every finite graph and
every size of batches: `NoneBeforeItsDependencies` (a job is run directly once at
most, after what it depends on, in any graph), `AllInOrder` (in a graph without
cycles, all of them) and `SplitKeepsAll`. What the sort has yielded and its
queue, one after the other, form a line (`Sorting`): every job once, each after
its dependencies, which were all yielded, and every job whose dependencies were
yielded is in the line. A turn makes the line longer at its end (`LineGrows`), and
after as many turns as there are jobs the queue is empty, because no job is in
the line twice (`SortEnds`). That `JobGraph` makes graphs without cycles is
`NoCycle`, for TLC.

For the queue itself, the only assumption is `QueueJobAssumption`: the jobs are finitely many, the
parents of a job are jobs, and what kind of value each constant has. None of the
properties is inductive alone. `IInv` links the three views of a job: what is
enqueued or started in the database is running for the runner (`Viewed`), which
is why the runner's blind update never hits a job that is being performed; a
worker that performs a job, or is about to store how it ended, holds its lock,
and the row says started (`Holds`), which is what keeps the requeuer away; a
job whose effects are committed is done and queued nowhere (`Once`). The
capacity follows from counting the runner's view, which only `Enqueue` extends
(`CountedGrows`, and the cardinality of a subset); the order of the graph from
`Graph`: whatever is queued, enqueued or started has parents that were all done.
`NoneStranded` takes `Watched`: a job without a notification to be read is where
the runner has it, but for waiting jobs (`Agreed`), because every change of a row
is notified; and whoever holds the lock of a job has that job in hand and is to
end it (`Locked`). So an enqueued or started job is in hand, asked for or to be
requeued (`BusyMoves`); a pending one is queued for the runner, and when there is
no slot for it, what is running there is such a job or a waiting one.

`ChannelsProofs` proves, for every tree of channels that satisfies
`ChannelsAssumption` (the channels downstream of a channel form a chain to the
root) and `ConfigurationAssumption` (a sequential channel has capacity 1, and a
round visits every channel once, before those downstream of it, as the
recursion of `get_jobs_to_run` does), any finite set of jobs, capacities,
throttles and parents:

* `TypeCorrect`: `Spec => []TypeOK`, which is not among the run's properties;
* `CapacityIsKept`: `Spec => []CapacityKept`;
* `SequentialOrder`: `Spec => SequentialBlocks`;
* `PictureAgrees`: `Spec => []ManagerAgrees`;
* `SleepsInTime`: `Spec => []SleepsWell`.

The second and third are about the rows, while a round looks only at the books. The invariant
says that whatever the rows show under way is counted as running in every channel
of its path, that the books of a channel never hold more than its capacity, and
that a job in the queue of a channel counts in the channels upstream of it;
notifications only ever take away what the row no longer shows.

`ManagerAgrees` speaks of jobs without a notification under way; to prove it one
must know what the tree can hold of the others, since the next notification is
applied to that. `AInv` says of every job that it is in one of four shapes
(`Shaped`): in the queue of one channel and counted by exactly those it came
through; counted by exactly its path; failed in its own channel; or nowhere. A
row that is enqueued or started always has the second. One lemma shows that
each of the manager's answers ends in the shape its row calls for, one that a job
passed on stays in shape, which is where the tree is used (`PassedOn`), and one
that whatever changes a row is notified, save a deletion nobody has to know of
(`RowStepNotes`).

`SleepsWell` is the part of `PendingMovesOn` that is not about fairness. A
channel is `Exhausted` when it is paused by its throttle, or has no capacity, or
every job in its queue has an eta, or it is sequential and a job with an eta
comes first. `WInv` adds to `AInv` that every channel whose turn of the round is
over is exhausted, and that a channel without a throttle is never paused. It is
inductive because nothing is put into a queue behind the round: what a channel
passes on goes to one whose turn is still to come, which is where the order of
the visits is needed (`VisitKeeps`, `LeaveExhausts`), and a notification, which may
fill any queue, is only applied between two rounds. Asleep means that all turns are over. From there, with no wake-up due, a job that could be popped
would be due to a wake-up that is past; and with no wake-up at all, a pending job
waits in a full or sequential channel, whose places `AInv` gives to jobs that are
enqueued, started, failed or waiting (`FullHolds`). A later step may only take
away what was ready, or send a notification (`RowStepKeeps`).

Four more theorems of `ChannelsProofs` are about the queue of a channel as it is
built, two heaps in which removed jobs linger, for any finite set of jobs and any
etas. `QueuesOf` says what such a queue is: in each heap what is removed is known,
and no heap mixes jobs with and without an eta.

* `AddsAndRemovesOne`: adding and removing a job yields such a queue, with that
  job more or less;
* `PopsTheLeastOne`: a pop yields what `PopOfSet` takes out of the set of jobs,
  such a queue without that job, and etas of which those past due are none;
* `WakesForTheFirstOne`: the wakeup time is the least eta of the jobs;
* `PopIsTheQueues`: in any state of `Channels`, if a queue holds the jobs
  of a channel with the etas the manager knows, it pops a job exactly when
  `CanPop` says so, the job that `Pop` takes, and is then again the queue of the
  next state.

The first loop of `pop` hands jobs from one heap to the other. That it terminates
with nothing left to hand over is an argument on numbers: each handing over leaves
one job less that is due, and there are no more than the heap has (`HandedOne`,
`AllAreHanded`). That the sequence of queues it goes through exists, and that a
set of jobs has a first one, is again the least-number principle (`LeastNumber`),
applied to definite sets instead of the induction theorems. 0, with which
`ChannelQueues` says that nothing was popped, must not be a job.

Three are about `ChannelNames`, for any set of segments and any names:

* `LastEntryCounts`: after a configuration of any length the last entry for each
  channel counts, the others have no limit, the root aside, and the manager is a
  tree (`KnownTree`);
* `UnderItsLimits`: a job is under every channel that is known above its name;
* `ChannelIsKept`: a job whose name repeats no segment has its channel for as long
  as the manager lives, whatever it hears of in between.

The last is an invariant of `Heard` (`HasChannel`). A channel that is made for
another name can lie between a job's name and the nearest channel above it only
if some segment comes twice in that name (`NothingBetween`): below the fallback
the code adds the whole name again, whose second segment is then the one after
the fallback's.

`ContactsProofs` proves, for any people, names, book of the phone and size of a page:

* `TypeCorrect`: `Spec => []TypeOK`; `OneEach`: `Spec => []OnePartner`;
* `TypedNamesKept`: `Spec => []NamesKept`.

What every transaction saw is bound to what is there now: a partner it saw is
still there under its id, with the number and the writing it had. What a page has
written is bound to the same partners as long as nobody else wrote them, and
nobody can while it holds their rows.

`SyncJobProofs` proves, for any jobs, sessions, chats and sizes of batches:

* `TypeCorrect`: `Spec => []TypeOK`;
* `ChatsAreResumed`: `Spec => []Resumable`;
* `CancellationHolds`: `Spec => CancelHolds`.

The invariant ties the place a tick is at to the cursor of its job and the chats
it imported or that failed, unless a user changed the job during the tick.

`ChatWindowProofs` proves, for any chats, lengths of threads, sizes of pages and
numbers of arrivals, sends and failing calls:

* `TypeCorrect`: `Spec => []TypeOK`;
* `ChatsAreNotMixed`: `Spec => []OwnMessagesOnly`;
* `EchoesAreCompared`: `Spec => []EchoShownOnce`;
* `PagesLeaveNoGap`: `Spec => []NoGaps`;
* `TicksSettled`: `Spec => []TicksSettle`.

`NoGaps` rests on three facts: what was read is a run of consecutive messages of
the request's chat (`BatchIsRun`); as long as there is more to load, the newest
`offset` messages are on screen, still to be pushed or `silent`, even as new ones
arrive (`Reached`); and a load for the open chat ends where the window begins, with all
that is newer covered (`Continues`). Steps around the window are proved once to
be `Steady`: they only relabel or append bubbles, and what was to come is still
to come or on screen.

`TicksSettle` compares a bubble with the last status WhatsApp gave, through the
row, the acknowledgements to come and the pushes on the bus, for the bubbles that
have its hash. `InOrder` says that for a
message none of whose acknowledgements was handled out of order these three are
one ascending run, so that the last push carries the last status; `Loading` that
a page under way, which may carry an older status, is either up to date or meets
a bubble that was ticked since; `Existing` that none of this concerns a message
that was not sent. Merging a page chooses the first bubble of a message: that
there is a first is the least-number principle, which the prover gets from the
library's theorems on well-founded relations (`LeastNumber`).

The assumption of each module, named `...Assumption`, says what kind of value its
constants have; no proof rests on anything else but facts of the library about
sequences, functions and finite sets.

Model-checked only: liveness (`FlagIsTaken`, `RunningEnds`, `JobRuns`,
`PendingMovesOn`, `StatusConverges`, `JobsEnd`, `FirstPage`) and the half of
`NobodyStuck` that speaks of ENABLED, both out of the prover's reach. Every other
property of a passing run is a theorem. What `JobGraph` makes of nested
delayables (`OrderKept`, `NoCycle`) is checked by TLC on bounded inputs, as an
assumption: it is computed by recursive operators over data, for which the prover
has neither a backend nor an induction. `simple_configure` and `topological_sort`
are recursive functions on numbers, which it can take: that they exist, and what
holds after n steps, follow from the least-number principle. `AllFound`, that
the bounded check of `ChannelQueues` met every queue of three jobs, is TLC's too. The
theorems on `AutoReply`, `Campaign` and `Channels` are about `Spec`, so they hold
with or without the fairness the runs add.

## 5. External behaviour the models assume

* PostgreSQL at REPEATABLE READ: a snapshot at the first query, "could not
  serialize access" on a row changed since, waits for uncommitted writers,
  unique violations on rows the snapshot does not show, `ON CONFLICT DO
  NOTHING` included; a transaction is dead after an error.
* Odoo: requests are run again, at most five times, after a serialization
  failure that reaches the dispatcher; a scheduled action runs in one process
  at a time; a stored computed field is written when its value changes, while
  `write()` always updates the row.
* WhatsApp and WAHA: a send may be accepted, refused, or accepted without an
  answer; webhooks come repeated, late and in any order.

## 6. Not modelled

* Rendering, translations, views and form logic; access rights; the wording of
  messages, media and reactions. The chatter, templates, server actions and the
  send wizard work within one transaction and leave no state of their own.
* Auto-reply rules: which rule matches, business hours and what its actions
  write (`models/waha_autoreply.py`). One transaction of text and calendar
  arithmetic; `AutoReply` takes it as a step that replies, has no reply to send, or
  fails to.
* Sessions: the registration of the webhook's URL (when the request for the
  present list fails, it is written anew, without the webhooks of others:
  `models/waha_session.py:660`), screenshots and QR images, profile and phone
  number. The scheduled refresh runs all sessions in one transaction; the model
  commits each alone, which is the same for one session.
* The browser: `whatsapp_chat_dialog.js` with its refresh every five seconds, the
  list of chats and its badges, marking as seen, the floating button, the
  fallback to stored messages, messages sent from other devices, reactions, a
  webhook that fails before its push, and the older `message.status` event.
  Subscriptions to the bus are never removed, which
  shows only as work done twice for closed windows.
* Campaigns: test sends, several campaigns in one run of the scheduled action,
  the older `message.status` event.
* queue_job: several databases and the election of a master runner, autovacuum
  (any job may be deleted in `Channels`), subscriptions, wizards (which call the
  methods that are modelled), fields, migrations and the graph widget.
* Contacts: national ways of writing a number are one value that no search
  finds.

## 7. Plan

1. `Rules`: matching and cooldown of auto-reply rules as operators, against
   reference definitions over bounded inputs.
2. The list of chats and the dialog: unread badges against the bus and markSeen.
