# A verification project for the assistant daemon

The repository is a personal assistant: a daemon (`assistant/`) that holds
conversations, runs an agent loop over tools and channels, keeps schedules and a
memory; a gateway (`gateway/`) in front of it; a credential executor
(`credential-executor/`); and web, desktop and mobile clients. The core logic
that is hard to get right lives in the daemon: one JavaScript thread, an SQLite
database written synchronously, and much asynchronous work in between. The
modules here model that logic; paths below are relative to `assistant/src/`
unless they begin with another top-level directory.

One fact shapes every module: the code between two `await`s runs alone. An
action of a model is such a stretch of code, with every write it makes; what
happens between two awaits of one handler is left to all the other handlers.

## 1. The system

Components, the state each keeps and what makes it correct. `PROJECT.json` lists
the same components with their files and the hazards with their lines.

| Component | State | Operations and interactions | What is hard | What makes it correct |
|---|---|---|---|---|
| Conversation turns (`daemon/conversation-*.ts`, `runtime/routes/conversation-routes.ts`) | processing flag, abort controller, current request, message queue with a byte budget, messages in memory and rows in the database | POST a message, start a turn, queue behind it, drain the queue one by one or in batches, slash commands, cancel, steer, delete | a continuation resumes in a world others have changed; writes fail or are deduplicated; a drain starts the next turn while the last one ends | one turn at a time; the flag always has someone to clear it; every accepted message gets one outcome; memory agrees with the database; order of arrival |
| Schedules (`schedule/*.ts`, `runtime/routes/schedule-routes.ts`) | `cron_jobs`, `cron_runs`, claims held by a pass | claim what is due, run it in one of four modes, retry with back-off, give up, recover at start-up, run by hand, toggle, cancel, delete | a tick and a platform wake overlap; claims are snapshots; the process dies with claims in hand; late results meet rows the user has changed | fire once, not early, not lost; as many retries as configured; every `firing` row has someone at work on it |
| Memory jobs (`memory/jobs-*.ts`, `memory/qdrant-circuit-breaker.ts`) | `memory_jobs` rows, lanes of a tick, circuit breaker | enqueue and coalesce, claim per lane, complete, retry, defer, fail stalled, reset at start-up, cancel with a wiped conversation | a coalesced job and a retried one meet; handlers end after their row was cancelled or put back; one lane holds the others | no trigger is swallowed; one handler per group; runs bounded; what is completed stays so |
| Inbound delivery (`memory/delivery-*.ts`, `runtime/channel-retry-sweep.ts`, `runtime/channel-reply-delivery.ts`) | inbound rows, attempts, segments delivered | record, process, deliver, retry, dead-letter, replay, acknowledge | redelivery during processing; segments lost or unheard of; lists read before awaits | one answer per message, segments in order, none that was counted shown again |
| Pending interactions (`permissions/*prompter.ts`, `runtime/pending-interactions.ts`) | registered prompts, timers | ask, answer, time out, abort, supersede | three events race to settle one promise; two registries of the same prompt | settled exactly once, never left waiting |
| Guardian requests and grants (`memory/canonical-guardian-store.ts`, `memory/scoped-approval-grants.ts`, `tools/tool-approval-handler.ts`) | request rows, inline waits, grants | decide from any channel, expire, wait inline, mint and use grants | two channels decide at once; expiry races with use; a row is filed behind its prompt | one decision; a grant used once; no run after a denial |
| Event hub and stream (`runtime/assistant-event-hub.ts`, `runtime/assistant-stream-state.ts`, `runtime/routes/events-routes.ts`) | subscribers, sequence counter and its reservation, ring buffer, position of the rows | publish, subscribe, replay, shed | replay joined with live events; restarts; a queue that is full | an unbroken run above the client's cursor |
| Web client streaming (`apps/web/src/lib/streaming/`, `apps/web/src/domains/chat/`) | cursor, frontier of the conversation, the page, requests for rows | read, reconnect, notice gaps, reconcile with rows | rows behind or ahead of the stream; reconciles that outlive their connection | the cursor goes over no content unnoticed; what was missed is fetched |
| Heartbeat (`heartbeat/*.ts`) | heartbeat runs, timer | beat, skip, overlap, recover | restart between pending and running | each run ends in one final state |
| Calls and live voice (`calls/*.ts`, `live-voice/*.ts`) | call sessions, callback claims | provider callbacks, recovery | duplicated and late callbacks | finished calls stay finished |
| Wakes, subagents, ACP, sequences, watchers, backups, tokens, evictor, credential grants, gateway | see `PROJECT.json` | | | later sections of the plan |

Clients other than the web client, the command line, packages, prompts and skills
are presentation or I/O and are not modelled.

How the modelled parts meet: the tick of the schedules starts turns in
conversations (through `processMessage` or an agent wake); a turn's end drains
the queue of its conversation; a platform wake runs the same schedule pass as
the tick; an inbound message starts a turn and its reply is delivered when the
turn has ended; a turn's tool calls wait for prompts and grants; every turn
writes rows and sends events. Each module takes the other side as an
environment: in `Schedules` the work of a job succeeds, fails, times out or never
ends; in `ConversationTurn` messages arrive at any time; in `ChannelDelivery` a
turn ends well or fails; in `Approvals` a turn is aborted at any time; in
`EventStream` content comes whenever it likes. Two compositions are modelled in
full, because their hazards lie between the parts: prompts with guardian requests
and grants (`Approvals`), and the daemon's stream with its reader (`EventStream`).

## 2. Modules

### ConversationTurn

State: `shape` (kind, sender and size of each message), `queue` and
`queueBytes` (the `MessageQueue`), `processing`, `controller` and
`currentRequestId` (the flag, abort controller and request of the conversation),
`aborted`, `steerRepair`, `promoted`, `history` (messages in memory) and `rows`
(in the database), and, for each chain of continuations, where it waits (`pc`),
which messages it has taken (`work`, `done`) and the controller and request its
loop captured (`ctl`, `reqId`).

A chain starts with a POST that finds the conversation idle: it resolves slash
commands, opens the turn, writes the row, runs the loop, ends it, drains the
queue and so goes on with the next turn. The action of each step is named after
what it does in the code: `Post`, `ResolveText`, `RaiseFlag`, `PersistOk`,
`PersistFails`, `ResolveTail`, `TailOk`, `TailFails` (the batch), `LoopEnds` and
`TurnFinally` (the `finally` block of `runAgentLoopImpl`), `DrainQueue`,
`DrainShift`, `ExchangeWritten`, `ExchangeEnds` (queued slash commands),
`SlashWritten`, `SlashReplies`, `SlashFails` (posted ones), and the user's
`Cancel`, `Steer` and `Delete`.

Continuations of settled promises run before any I/O: `MayRun` gives them that
priority (`Soon`). Which `resolveSlash` calls wait for I/O is the constant
`SlashIO`; how a write may end is `PostOutcomes` and `DrainOutcomes`.

Left out: the other code that takes the flag (`processMessage` for background
callers, the canned first greeting, the scheduled branch of the POST route, agent
wakes), undo, regenerate and surface actions, and everything inside the agent
loop, which is one interruptible step here.

### Schedules

State: `row` (a record per job: is it there, enabled, its status, whether its
time has come, its retry count), `open` (run rows in `running`), `todo` and
`cur` (the claims of each pass and the one under way, each a snapshot of the
row's retry count), `manual` (manual runs under way), `up` (serving, down,
recovering), `over` (recurrences with no run to come). `came`, `owed` and
`fails` are history variables for the properties.

`ClaimDue` is `claimDueSchedules`; `Start` begins the next claim of a pass in the
same stretch of code (`Quiet` lets nothing else run in between); `Succeed`,
`Fail`, `Throw`, `WakeTimesOut` and `WakeNotInvoked` end it, with the retry policy
(`AfterFailure`) and the one-shot transitions in the same action. `RunNow` and
`RunNowEnds`, `Toggle`, `Cancel` and `Delete` are the routes. `Crash` falls on
an await or between a claim and its run; `CrashMidway` between
`completeScheduleRun` and what follows it. `RecoverRun` and `RecoverFiring` are
the two halves of `recoverStaleSchedules`.

Modes: `execute` stands for script, `run_task` and message jobs, which insert
their run row before the work; `notify` and `wake` insert it afterwards; `blank`
is a script job whose script is missing.

The database has foreign keys on: a run cannot be inserted for a deleted
schedule. `Start` and `Throw` model that exception, which ends the pass.

Left out: edits of a schedule other than its enabled flag, the arithmetic of
cadences and back-off (a time is past, to come, or a retry's), the watchers and
sequences run by the same tick, several drains at once, the disk-pressure gate.

### MemoryJobs

State: `job` (the rows, in the order of insertion), `stage` (where the tick under
way has each row: held in its group, in its handler, in the handler's Qdrant
operation), `breaker` and `queries` (the circuit breaker and the operations of
others that it counts), `up`; `asked` is a history variable: the triggers that no
handler has started after.

`Enqueue` and the `Trigger…` actions are the upserts of `jobs-store.ts`; `Tick` is
`runMemoryJobsOnce`: stalled rows, maintenance, and the claims of the three lanes
in one stretch of code. A row of a group that is held starts when the one before
it has ended. `Handler` steps are what a handler does with its result
(`completeMemoryJob`, `failMemoryJob`, `deferMemoryJob`, with the classification of
the error); `Elapse` lets a delay or a time-out pass; `Cool`, `Query…` and `QueryDone`
move the breaker; `Wipe` cancels the jobs of a conversation; `Crash` and `Restart`
with `resetRunningJobsToPending`.

Left out: payloads, the work of the handlers, back-off arithmetic, the
disk-pressure gate, job types that only differ in what they do.

### Approvals and OneTimeUse

`Approvals` composes the registry of pending interactions, the four prompters that
register there, the inline wait of gated tool calls, the guardian's rows and the
one-time grants. State: `call` (what each call has come to), `pending` (the
registry), `owned` (the prompters' own sets), `importing` and `row` (the guardian's
requests), `asks`, `stopped`, `stamped`, `noticing` (the inline waits and who is told
of their end), `grant`, `up`, `crashes`.

Actions: a prompt is asked, answered, timed out, aborted, superseded by a message
(`removeByConversation`); a row is filed behind its prompt, decided by
compare-and-set, expires and is swept; a gated call uses a grant, joins or files a
request, polls, gives up; a decision's resolver looks at the stamp, mints the
grant and tells the requester in a later step; crash and restart.

`OneTimeUse` says what all of this is for: a call settles once, an approval is
given once and used once. `Approvals` instantiates it as `Promise` with
`outcome`, `given` and `unspent` mapped from `call`, `row` and `grant`; the property
`KeepsPromise` is its specification. The call's state is the same in both; that an
approval is a grant in the database, minted by one writer and used by another
after awaits of both, is what the refinement is about.

### ChannelDelivery

State: the columns of `channel_inbound_events` (`processing`, `delivery`,
`attempts`, `sends`, `retryAfter`, `stored`, `count`), the reply of the row's turn
(`reply`), where each worker is (`at`, `next`: a dispatch per message and the one
sweep), the sweep's lists as it read them (`toRetry`, `toResend`, `current`);
`posted`, `answered` and `lost` are histories of what the channel has shown, which
turns ended well and which messages a crash has left.

Actions: `Receive`, `Duplicate`, `Block`, `Consume`, `Dispatch` are the inbound
handler; `Busy`, `Begin`, `TurnFails`, `TurnEnds`, `Post`, `Shown`, `Heard`, `SendFails`,
`AllSent` a dispatch or a retry; `SweepStarts`, `Take`, `SweepRetries`, `SweepBlocks`,
`SweepResends` the sweep; `Acknowledge`, `Replay` the routes; `Elapse` a back-off;
`Crash` cuts off whoever is at work.

Left out: the limit of 20 rows per sweep, attachments (sent again with the last
segment), the row taken back after a failed invite, live replies of Slack direct
messages, edits and reactions, branches for a missing payload (which `Replayable`
shows to be dead), kills between two synchronous writes.

### EventStream

An event is named by its position in `log`; the ring holds those after `evicted`.
State of the daemon: `log`, `booted` (events of earlier processes), `disk` (the
reservation), `evicted`, `writing`, `rows` and `saved` (the content written and its
position), `subscribed` and `pipe` (the connection and what it has not passed on).
State of the page: `link`, `cursor`, `latestGap`, `localSeq`, `shown`, `fetch` (requests
for rows: the history, a gap's reconcile, a reopen's). `taken`, `base`, `lost` and
`told` are history variables.

`Broadcast` stamps an event, puts it into the ring and publishes it; every
subscriber of the hub returns at once, so the chain of publications runs to its
end before the daemon turns to a request or a timer. `Delta`, `Flush`, `Signal`,
`Evict`, `HeartbeatSheds`, `Attach`, `Crash` are the daemon; `ReadNext`, `ReadGap`,
`Ended`, `Break`, `Reopen` the connection at the client's end; `Answer` is the
`/messages` route, which runs without an await; `HistoryShown`, `HistoryAnchors`,
`GapClosed`, `GapOutdated`, `GapFails`, `Reconciled` what the page does with rows.

Left out: heartbeats and the watchdog's clock (the connection may break at any
time), parsing, the age and size of the ring's entries (the oldest may go at any
time), a second subscriber, a switch of conversation, optimistic messages, the
refetch of the history query beside a reopen's reconcile (the same merge once
more), the client's
branch for a counter that went back (dead while reservations can be written, by
`NeverBackwards`), a transport that gives up after five failed attempts. An event
meant for another client is `hidden`: it takes a number, so a client sees a jump
where nothing is missing.

### Proof modules and MC modules

`ConversationTurnProofs`, `SchedulesProofs`, `MemoryJobsProofs`, `ApprovalsProofs`,
`ChannelDeliveryProofs` and `EventStreamProofs` extend their modules;
`EventStreamLossProofs` extends the last of these, and `ConversationOrderProofs` extends
`ConversationTurnProofs`. The modules whose names begin with `MC`
define the sets and functions the `.cfg` files choose from. In all specifications, a
definition that stands before another under a name such as `RemoveFromKeeps` or is
marked "broken" is that definition with a plausible bug; `PROJECT.json` pairs each
with the property that detects it.

## 3. Runs

| Run | Bounds | Shows |
|---|---|---|
| `turn_general` | 3 messages of text, info and compact, 2 bytes of queue, every outcome of every write, cancel, steer, delete, every `resolveSlash` slow | a flag always has its holder (`FlagHasHolder`), the queue is exact (`QueueAccounted`), `SettledOnce` |
| `turn_single` | 3 messages of every shape and two senders, `SlashIO = {}` | `TurnOwnsConversation`: one turn at a time, it holds the flag, stop reaches it |
| `turn_text` | 4 texts from two senders, POST writes succeed, drain writes end in any way, steers and deletes, fair continuations | `MemoryMatchesRows`, `NeverBusy`, `InArrivalOrder`, `NothingForgotten`, `EveryoneSettles` |
| `sched_general` | a one-shot and an expiring recurring wake, all user operations, one manual run, one crash anywhere | `ClaimedOnce`, `RunsAccountedFor`, `DoneStaysDone` |
| `sched_backed` | two one-shots (one a wake) and a recurring job, cancels, one crash, fair daemon | `FiringIsBacked`, `NothingDropped`, `NotEarly`, `ExactlyMaxRetries`, `OneShotEnds` |
| `jobs_general` | one conversation, every kind of job, two rows at a time in all, caps 2, 1 and 2, wipes, one Qdrant operation of others, one crash, fair worker | `TriggersCovered`, `Serial`, `RunsCounted`, `HalfOpenHasProbe`, `CompletedForGood`, `JobsEnd` |
| `approvals_general` | three calls made together, of every kind, gated calls in pairs, one crash, fair timers | `ConfirmationsReachable`, `OneRequest`, `NeverAfterDenial`, `KeepsPromise` (the refinement of `OneTimeUse`), `CallsEnd`, `RowsResolved` |
| `delivery_general` | two messages of a conversation, one with a reply address, replies of up to two segments, three attempts, one replay, one crash, fair workers | `OneAnswer`, `InOrder`, `NotShownAgain`, `DeliveredIsShown`, `EventsEnd` |
| `stream_general` | two pieces of content, one event of another conversation, a ring of one, a queue of one, numbers reserved two by two, one row (and one more after a restart), one fault, fair client | `Contiguous`, `NeverBackwards`, `NoSilentLoss`, `NothingSkipped`, `CatchesUp` |

The type invariants of five modules and five simpler invariants (`EnabledHasTime`,
`OnePrune`, `StampTellsWait`, `OneWorker`, `Replayable`) are proved for all values of
the constants, and no run repeats them; that of `EventStream` is checked as well.

Why the bounds are enough to be of interest. Three messages are a turn, one
queued behind it and one that overtakes; four are a turn, a batch of two or
three, and a late arrival, and the batch may have a failed head, tail or both.
A queue of two or three bytes fills up and rejects. One crash reaches every
state of recovery and what follows it; `MaxRetries = 1` gives a retry and an
exhaustion, `WakeMaxRetries = 1` the same for time-outs. Two jobs let one wait
behind the other in a pass; three let a recurring one be claimed by both passes.
Two rows of jobs are one that runs, is retried or put back and a newer one beside
it, of the same group or of two lanes; operations of others reach Qdrant only
before the first crash. A mix of three calls pairs the kinds that meet in the
code: a confirmation with its row, a route's approval and a question; a
confirmation and two gated calls that may share a request and a grant. Two messages of a
conversation refuse each other as busy, and a reply of two segments can stop
between them; three attempts (eight in the code) are a failure, a retry and a dead
letter. Both messages with a reply address and two attempts pass as well (1.5
million states). A ring and a queue of one entry overflow at once; two pieces and
an event between or beside them are enough for a gap in any place. The event of
another conversation may be replaced by one meant for another client (`hidden`)
or a signal of the conversation: these pass too.

Three more runs end in a violation, each of a sentence the repository states:

| Run | Disagreement |
|---|---|
| `turn_stranded` | a deduplicated (or failed) POST write clears the flag without a drain: a message queued meanwhile has nobody to start it |
| `jobs_cancelled` | a job that was cancelled with its conversation while its handler ran is queued again when the handler fails or is deferred |
| `approvals_orphaned` | a message that supersedes a confirmation takes the questions and secrets of the conversation out of the registry and stops their timers: nobody can answer them and they do not time out |

They also say why the passing runs are restricted: `turn_text` to POST writes
that succeed; `jobs_general` states `CompletedForGood` and not `FailedForGood`;
`CallsEnd` speaks of calls that were not orphaned.

Other restrictions come from behaviours the models show when the constants are
widened (change them in the `.cfg` named to see the trace):

* `turn_single` with `SlashIO` not empty: `/model` and `/models` wait for I/O between
  the check and the setting of the flag, and later clear the flag of a turn
  started meanwhile (`TurnOwnsConversation`).
* `turn_general` with `NothingForgotten`: a steer during the writes of a batch
  drops the rest of the batch, which is in the queue no longer and has no row.
* `turn_text` with `/compact` among the shapes (`TextAndCompact`): a queued
  `/compact` runs with the flag clear, a POST starts a turn meanwhile, and queued
  messages are then refused as busy (`NeverBusy`); a failed write pops the wrong
  message (`MemoryMatchesRows`).
* `sched_backed` with `Expiring` not empty: the retry of the last run of an expired
  recurrence is put on a row the claim has disabled, so it never runs and no alert
  is sent, although `schedule-store.ts:440-441` promises that no due run is silently
  dropped; and a crash loses such a last run that waits behind another job
  (`NothingDropped`).
* `sched_backed` with `Wedging` not empty: a recurring schedule that reuses its
  conversation is awaited without a timeout and holds every later tick
  (`OneShotEnds`).
* `sched_backed` with `"runNow"`: a failed manual run uses up a retry
  (`ExactlyMaxRetries`), and a crash during one moves a one-shot to its back-off
  time, so that it fires early (`NotEarly`).
* `sched_backed` with `"toggle"`: a one-shot disabled while firing is not
  recovered after a crash; with `"delete"`: deleting a claimed schedule ends the
  pass, and its other one-shots stay in `firing` (`FiringIsBacked`).
* a one-shot of mode `blank` is claimed, skipped and stays in `firing`
  (`OneShotEnds`).

What the properties leave open on purpose, because the code does so:

* Memory jobs: a slow handler that hangs blocks every lane, since the tick waits for
  all of them, contrary to `jobs-worker.ts:329-333`; fairness assumes that
  handlers return. A retried row can stand beside a newer pending one of the same
  key; `TriggersCovered` and `Serial` hold nevertheless. Each crash allows one more
  run than attempts are counted (`RunsCounted` says exactly how many).
* Approvals: the guardian's row of a confirmation is filed without being awaited
  (`assistant-event-hub.ts:693`) and may appear as pending after the prompt was answered;
  a later decision on it succeeds and resolves nobody. A gated call may join a
  request that is past its time and not swept yet, and so wait on one nobody can
  approve. Of two calls that wait on one request one gets the grant, the other
  waits until its time is over. An abort or a crash after the approval leaves a grant
  nobody was told of, until its time is over; `expireScopedApprovalGrants` is never
  called. `StampTellsWait` is about processes that have not crashed.
* Inbound delivery: a message whose turn finds the conversation busy
  (`process-message.ts:159`) is classified as fatal by default
  (`job-utils.ts:106-107`) and becomes a dead letter at once; only a manual replay
  runs it. A crash leaves rows pending, nothing recovers them, and a redelivery
  is taken for a duplicate: `EventsEnd` excludes these (`lost`). A crash during the
  sweep's retry counts no attempt. An acknowledgement during a failing send is
  overwritten by `recordDeliveryFailure`, and the segment is sent again; nothing in the
  repository calls that route, and the model lets a channel acknowledge only a
  reply that was shown to its end.
* Event stream. `NoSilentLoss` does not claim that missed content stays on the page,
  only that the page has had it or has looked for it in the rows, for good reasons.
  (a) `local-seq.ts:2-4` says that the page reflects every event up to its position: on
  the first load, rows replace the page (`use-conversation-history.ts`, fresh switch) although
  newer deltas were shown, while the position and the cursor stay where
  those deltas put them. (b) A gap's reconcile whose rows are behind the page's
  position, which is usual as writes are debounced by a second and the event that
  showed the gap has been applied, keeps the page's row; the cursor jumps
  nevertheless, so the hole stays until a later fetch. (c) Rows without a position
  (nothing written since a restart) are authoritative and may take the live tail off
  the page. (d) A replay whose start has left the ring is empty, and the client
  learns of it with the next event only; the same holds for a failed gap reconcile, and
  for events stamped between the last poll and the attachment when they have left
  the ring. `CatchesUp` excludes what waits for such an event (`Waits`, `Unanswered`).
  Content that a crash took before it was written is nowhere (`Survives`).

Deadlock is not checked: a conversation in which every message has its outcome,
schedules, jobs, calls and messages that have all ended, and a page that has read
everything rightly have nothing left to do.

Fairness. `ConversationTurn`: weak fairness of every chain, since promises settle
(the agent loop has timeouts, writes return); none of the user's actions.
`Schedules`: strong fairness of the tick's claim and of the end of work, because
the event loop serves its queue in order although any one moment may find it
busy; weak fairness of the clock, of a restart and of the recovery; none of the
user, of the platform's wake, of crashes, nor of the work of jobs in `Wedging`.
`MemoryJobs`: weak fairness of the worker's timer, of handlers, of time and of a
restart; nobody has to trigger, query or wipe. `Approvals`: weak fairness of timers,
of the last poll of an inline wait, of the filing of rows, of notices, of expiry and
its sweep, and of a restart; nobody has to answer. `ChannelDelivery`: handlers go on,
turns end, requests to a channel end or time out (30 seconds), back-offs pass, the
sweep's timer fires. `EventStream`: a connection is attached, read to its end and
opened again, and the requests of gap and reopen reconciles are answered; nobody
has to send events, and the history's request may stay unanswered. A reconnect that
fails is a fault, and faults are bounded: the transport gives up after five
attempts without data.

## 4. Proofs

`ConversationTurnProofs` proves, for any number of messages, any shapes, budget,
outcomes and controls:

* `TypeCorrect`: `Spec => []TypeOK`;
* `FlagAlwaysHeld`: `Spec => []FlagHasHolder`. Whenever the processing flag is
  set, a continuation that will clear it is pending;
* `QueueExact`: `Spec => []QueueAccounted`. The byte count of the queue is what its
  messages cost;
* `ToldOnce`: `Spec => SettledOnce`. A client is told one outcome of each message.

`FlagHasHolder` is not inductive. A turn whose `runAgentLoop` finds no abort
controller returns without touching the flag; that this cannot strand the flag
needs to know who else holds it. The controller is cleared only together with
the flag, and the one holder that sets the flag without a controller is a slash
command of the POST path, so `SlashBacksFlag` (a flag without a controller is
that of a running slash command) closes the argument. `HandsFull` (a chain that
has a current message has one in hand) makes the steps well typed. The inductive
invariant is `IInv == TypeOK /\ HandsFull /\ FlagHasHolder /\ SlashBacksFlag`; one
lemma per action shows that it is preserved. The proofs assume only the
assumptions of the module on its constants (`NAssumption` and its companions).

`SettledOnce` needs to know where every message is. `PInv` says that the queue holds open
messages, each once (`QueuePlaced`); that a chain has in hand only what it works on, each
once, and that what it has in hand is open until its turn is over (`ChainPlaced`); that no
message is queued and in hand, or in two hands (`Apart`); and that what was not posted has
neither outcome nor chain (`NewOnes`). Each lemma on an action proves `PInv'` together with
`Answered`, that the step changes no outcome. `QueueAccounted` is inductive with the types,
given what `BytesOf` does to appended, promoted, removed and split sequences. `BytesOf` is
a recursive function, and the induction theorems of the library are out of the prover's
reach; the lemmas on it look instead at the least length at which a claim would fail
(`LeastNat`, from the well-foundedness of `Nat`), which contradicts the equation of the
recursive definition. `AccountInv` is `IInv`, `PInv` and `BytesAccounted` together.

`ConversationOrderProofs` proves, for any number of messages, any budget, controls and
outcomes of writes, what holds of some conversations only. Each hypothesis is about what
the conversation gets, and section 3 names the behaviour that makes it necessary.

| Theorem | Property | Hypothesis |
| --- | --- | --- |
| `TurnOwns` | `TurnOwnsConversation` | `SlashSync`: commands that answer or compact do not wait for I/O |
| `NobodyForgotten` | `NothingForgotten` | `SlashSync` |
| `TextNeverBusy` | `NeverBusy` | `TextSync`: plain text only, resolved without waiting |
| `MemoryIsRows` | `MemoryMatchesRows` | `TextSync` |
| `ArrivalOrder` | `InArrivalOrder` | `TextSync`, and writes of the POST path succeed (a turn whose first write fails ends without draining, and what is queued behind it waits for a later one) |

The invariants, each relative to those before it:

* `OInv`: at most one chain is about to look at the flag (`OneSoon`), a command that a POST
  resolves found the conversation free (`SlashFindsFree`), a turn in progress has a
  controller (`TurnControlled`). One lemma, `OwnerKept`, covers the steps of a chain: a
  step that neither takes the conversation from another chain nor leaves it without
  its flag and controller keeps the owner.
* `FInv`: a command is never one of a batch, and an open message is queued or in the
  hands of a chain that goes on, as long as no turn was aborted.
* `CInv`: there is one chain at most, it runs no command, and it is about to take the
  conversation only while that is free.
* `MInv`: while a chain writes, its message is the last in memory and those before it
  are what has rows; otherwise memory is what has rows; what waits has no row. A step of
  a chain has one of four shapes (`Opens`, `Ends`, `Takes`, `Rests`), which the last two
  theorems share.
* `RInv`: memory precedes what is in hand, and this what is queued, where a message may
  stand before an older one only if the user steered to it; and nothing is queued unless
  somebody is going to drain.

`SchedulesProofs` proves, for any set of jobs, any modes and limits, and any number
of manual runs and crashes, with a crash allowed between the two writes that close
a run:

* `TypeCorrect`: `Spec => []TypeOK`;
* `OneShotsClaimedOnce`: `Spec => []ClaimedOnce`;
* `RunsAlwaysAccountedFor`: `Spec => []RunsAccountedFor`;
* `EnabledIsTimed`: `Spec => []EnabledHasTime`;
* `EndedForGood`: `Spec => DoneStaysDone`;

and four more for the daemons and users that do not meet the behaviours listed in section 3.
The hypotheses are weaker than the constants of `sched_backed`:

| Theorem | Property | Hypothesis |
| --- | --- | --- |
| `NeverEarly` | `NotEarly` | nothing is run by hand |
| `NoRunDropped` | `NothingDropped` | nothing is deleted, no recurrence runs out |
| `FiringAlwaysBacked` | `FiringIsBacked` | nothing is deleted or switched off and on, no one-shot has lost its script |
| `RetriesExact` | `ExactlyMaxRetries` | nothing is run by hand, a crash falls on an await |

Type correctness is not inductive here: a run that ends takes one from `open`, which
stays a natural number only because the run was counted. `RunsKept` says so in the
states in which the daemon serves, and that deleted schedules have no run in all
states; a crash breaks the equation, and `Recovered`, which waits until no row is
stale, restores it. `OneShotHasTime` is needed for `EnabledHasTime`, because
enabling a one-shot recomputes nothing. `ClaimedOnce` is inductive relative to the
types: only active one-shots are claimed, and a held one-shot whose row exists is
firing. The invariant is `IInv == TypeOK /\ RunsKept /\ HasTime /\ ClaimedOnce`. What
the ends of work, manual runs and the recovery do to a row is one relation,
`Settles` (a row keeps its time or gets a retry, is never enabled, and changes status
only from `firing`); each operation of the store is shown to settle the row once,
and `DoneStaysDone` and the preservation of times follow from the relation. The
assumption is `SchedulesAssumption`.

`NotEarly` looks at the moment of the claim; `TimeCame` says of all that can lead to a
retry (a time left behind, a claim, an open run row) that the appointed time has come. For
`NothingDropped`, `Kept` says that what is owed is enabled and, if a one-shot, active or in
the hands of a pass, or in `firing` while the daemon is down: being enabled is what makes the
recovery see it. `FiringIsBacked` needs only that no row is gone, since a pass that meets
the run of a deleted schedule gives up its other claims. For `ExactlyMaxRetries`, `Tally`
says that a row, the failures so far and the claim a pass took agree on the count, and
`OneOpen` that what a dead daemon leaves of a one-shot is one run row and a row in `firing`,
so that the recovery counts the attempt that died exactly once.

`MemoryJobsProofs` proves, for any conversations, caps, attempts, deferrals, threshold
and number of rows and crashes: `TypeCorrect`, `AlwaysCovered` (`TriggersCovered`),
`NeverSideBySide` (`Serial`), `OnePruneOnly` (`OnePrune`), `RunsAlwaysCounted`
(`RunsCounted`), `HalfOpenProbed` (`HalfOpenHasProbe`) and `CompletedStays`
(`CompletedForGood`). The invariant is `IInv == TypeOK /\ RowsOK /\ Covered /\ Serial
/\ PruneApart /\ HalfOpenHasProbe /\ QueriesOK`. `RowsOK` relates a row to what the tick
does with it: a claimed row is running unless it was cancelled, a row that
waits or was cut off has been started at most as often as its attempts, deferrals
and the crashes allow, a running one once more. `Covered` is `TriggersCovered`
strengthened to the states in which the worker is down, where the rows a crash cut off
stand for their triggers. `Serial` is inductive because a row of a group starts only
when the one before it has ended, and the claims of a tick take one first of each
group. That a half-open breaker has a probe needs that every result of an operation
takes it out of that state, and a Qdrant operation of a job is one such.

`ApprovalsProofs` proves, for any calls of any kinds and any number of crashes:
`TypeCorrect`, `AlwaysReachable` (`ConfirmationsReachable`), `OneRequestAlways`
(`OneRequest`), `StampIsTrue` (`StampTellsWait`), `DeniedNeverRuns`
(`NeverAfterDenial`) and `Refinement` (`Spec => KeepsPromise`): every step of the
prompts, rows and grants is a step of `OneTimeUse` or leaves its variables alone. The
invariant adds to the properties what ties the registries together: which calls have
an entry, which a prompter owns, that a gated call which is open asks for one
request, and that a grant belongs to an approved row. Two calls use one grant only if
both find it active, and use is one compare-and-set; an approval is given twice only
if a row leaves and comes back to pending, which no step does.

`ChannelDeliveryProofs` proves, for any messages, segments, attempts, replays and
crashes: `TypeCorrect`, `AnsweredOnce` (`OneAnswer`), `OneWorkerAlways` (`OneWorker`),
`ShownInOrder` (`InOrder`), `NeverShownAgain` (`NotShownAgain`), `DeliveredWasShown`
(`DeliveredIsShown`) and `AlwaysReplayable` (`Replayable`). The invariant relates the
columns of a row to each other (`RowOK`), a dispatch and the sweep to the rows they
work on (`DispatchOK`, `WorkerOK`), the sweep's lists to the rows they name, however
long ago they were read (`SweepOK`, `ListsOK`), and the count in the row to what the
channel has shown (`CountOK`, `OrderOK`). The argument for the order: nothing is shown
beyond the first segment that is not counted, so that a reply that is resent from its
count goes on where it stopped, and the acknowledgement of the last segment implies
that all were shown. A frame lemma (`StepAtInv`) covers the steps that touch one
message only.

`EventStreamProofs` proves, for any kinds of events, any ring, block and queue, and any
number of faults: `TypeCorrect`, `SentWithoutHole` (`Contiguous`) and `OnlyAboveCursor`
(`NeverBackwards`). The invariant is `IInv`: numbers rise along the log and stay at or below
the ceiling on disk (`Rises`, `Reserved`), which is why a restart that goes on above the
ceiling repeats none; every position the client or the database holds is that of an event
or below one (`PositionsOK`), so a new event is above all of them; what is on its way is in
order (`Ordered`), which `Contiguous` does not say across its ends; nothing is on its way
while the link is not up (`LinkOK`); and a gap's reconcile that is not outdated is about
the connection being read, all of which is above the event it will jump to (`GapOK`).

`EventStreamLossProofs` proves `NoLossUnseen` (`NoSilentLoss`) and `OnlyRepeatsDropped`
(`NothingSkipped`) from a second invariant on top, `PInv`. It says, of the database and of rows
fetched, that their position claims no more than they hold (`SavedOK`, `FetchedOK`); and
of the page that content at or below its own position, or behind the connection (`Known`),
has been shown wherever a later step relies on it: before the cursor stands (`ColdOK`), from
the next event to read on (`Following`), in what a complete replay would send (`RingOK`),
above the event a gap's reconcile will jump to (`GapFollow`), and between that
reconcile's answer and the jump (`GapAnswered`). Most steps are `Calm`: they bring no content
back, forget nothing that was shown, and raise the page's position only over content that
was shown; one lemma per part covers them all. The steps that read, attach, close a gap,
set the first cursor and stamp an event have arguments of their own. The jump over a gap is
the heart of it: what lies below the answered rows was looked for in them, and
what was stamped later has been shown, because it was read on the connection on which the gap
was seen. That an outdated reconcile must not move the cursor is what `GapOK` needs.

Model-checked only: the liveness properties (`EveryoneSettles`, `OneShotEnds` and those of
the other runs under a fair specification), since fairness and ENABLED are outside the
prover's reach, and the three runs that look for a violation.

## 5. Plan

In this order.

1. `Schedules`: prove that a one-shot implements an abstract reminder (pending, firing,
   fired or given up).
2. `MemoryJobs` and `ChannelDelivery`: abstract specifications of a job (queued, running,
   ended) and of a delivery, refined by the detailed ones.
3. `Heartbeat`, callbacks of calls, the gateway's deduplication, refreshing tokens,
   temporary grants of the credential executor.
4. Agent wakes and subagents, on top of the turn.

Not modelled, and why. The heartbeat, the calls, the gateway's caches and the
tokens are within reach and come later, since what they risk is smaller or is the
claim-and-settle pattern the modules above have already covered. Agent wakes,
subagents and ACP sessions need the inside of the agent loop, which is one step in
`ConversationTurn`. Backups, migrations, importers, embeddings, prompts, skills, the
browser tools, user interfaces and the command line are I/O, data or presentation
without interleavings of their own. A large part of the repository is of that
kind, so the models stand for a small share of its lines.
