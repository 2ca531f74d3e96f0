# 1Helm, verified: the Resident, its turns, tools, cards, schedules and money

1Helm runs an agent ("helper") for a person in channels. Each channel is one Cloudflare Durable
Object, the *Resident* (`src/src/resident.js` and the modules mixed into it): a single-threaded
event loop with its own SQLite. A deploy resets the object with no warning; SQL survives, memory
does not. This directory is a TLA+ development of that program. It models

- the life of a chat turn: queue, steers, steps, commit, history, journal, resets, resumes, Stop;
- the tool calls of a turn: the effect journal, resumeClose, the confirm hold, Stop;
- the cards a person answers before a tool may act: holds, late answers, tokens, one-use grants;
- scheduled work: recurring jobs, gates, follow-ups, app events, and the one alarm they share;
- the money: reservations of concurrent calls at the account's Ledger, from reserve to settle.

TLC checks each on a small instance; TLAPS proves their inductive invariants and every safety
property that the runs check, that the tool calls implement an abstract promise, and that the
Ledger implements an abstract purse.

## 1. Inventory

### Chat turns and their queue (`resident.js`, `tracker.js`, `pi-engine.js`) — partly modelled: ResidentTurns
- **State.** SQL: `cards` (status), `card_events` (messages on a card; `consumed` = read), `msgs`
  (the saved transcript), `turns` (history rows). Memory: `active`, `queuedTc`, `sessQ` (a promise
  chain per task), `inputs` (the card of a task that takes steers), `tc` (the turn's own context).
- **Operations.** `steerOrOpen` (a message joins the working card or opens one), `runTurn` (queue,
  start, finally), `runTurnInner` (classic) and `runTurnPi` (pi): the loop over model steps and
  tool calls, the promise check, late answers after the loop, the step-limit report, `commitTurn`,
  `commitCard`, `INSERT INTO turns`.
- **Hard.** Every `await` lets other messages, Stops, resumes and parks in. The queue is a promise
  chain that a reset destroys. Messages are marked read, saved and answered in different blocks.
- **Correct when.** One turn per task at a time; turns in card order; every message read or told
  apart; every card ends exactly once, with its ending in the history.

### Resumable turns (`resume.js`) — partly modelled: ResidentTurns, ToolEffects
- **State.** `turn_runs` (one row per journaled turn: status, phase, step, resumes, heartbeat) and
  `turn_effects` (one row per tool call).
- **Operations.** `journalStep`, `parkForResume`, `recoverTurns` (fresh object), `resumeDue` and
  `resumeTurn` (alarm), `abandonTurn`, `resumeClose`, `armBeat`/`armBackstop`.
- **Hard.** A reset at any await; a resume that is itself reset; a reset of *another* object under a
  call; the heartbeat check against two in-memory sets.
- **Correct when.** Every open card is resumed or ends; resumes are bounded; nothing acts twice.

### Tool effects and the confirm hold (`resident.js`, `pi-engine.js`, `resume.js`, `confirm.js`) — partly modelled: ToolEffects
- **State.** `turn_effects`, the saved tool messages, `helpers.spawn_call_id`, `approvals` rows.
- **Operations.** `effectStart`, `runTool`, `effectDone`, save; `confirmGate` (hold), `decideConfirm`;
  `untilStopped`; `resumeClose` by class of the call.
- **Hard.** A tool may have acted when the reset came; the tap, the end of the hold, the Stop and the
  reset race for one card; a Stop lets go of a tool that runs on.
- **Correct when.** Nothing but reads acts twice, results are true, sends need their own Confirm.

### Stop (`stop.js`) — partly modelled: ResidentTurns, ToolEffects
`hardStop` (flag, abort of the model call, drop of unread steers), `stopJournaled`, `stopRuns` with
an await (`nativeCancel`) between them. Stopping the helpers of a task is not modelled.

### Cards a person answers (`confirm.js`, `perms.js`, `front-door.js`, `resident.js`) — partly modelled: Approvals
- **State.** SQL: `approvals` (one row per question), `grants` (one-use grants of a late "Allow
  once"), what is always allowed. Memory: the sets of cards a call is holding on (`_confirmHeld`,
  `_permHeld`, `_egressHeld`).
- **Operations.** `confirmGate`, `permGate`, `askPerson`, `egressDecision` (the gates);
  `decideApproval` with `decideConfirm` and `decidePerm` (the answers); `cardHandoff` (the note).
- **Hard.** A hold, a tap, the card's clock, a second call for the same payload and a reset meet in
  any order; whether a note is sent is read from a set in memory that two holds share.
- **Correct when.** One yes lets one call through; no answer is dropped; the first answer stands.

### Scheduled work and the alarm (`resident.js`, `ee/app-events.js`) — partly modelled: Workflows
- **State.** SQL: `workflows` (status, `next_run`, `lease_until`, `run_count`, `fails`,
  `gate_pending`), `app_events`, `turn_runs`. The object's one alarm, its registry row in D1, which
  the cron's watchdog reads. Memory: the chain of `arm()` calls.
- **Operations.** `alarmInner` (`resumeDue`, `appEventsDue`, the due workflow), `runWorkflow`,
  `runEventWorkflow`, `workflowFinish`, `eventFinish`, `armNow`, `setWorkflowStatus`, `appEvent`,
  `triggerGone`, `triggerDisabled`.
- **Hard.** A lease runs out while its run waits for a resume; a pause lands in the middle of a run;
  an `armNow` acts on tables it read before an await; a reset falls between a change and its `arm()`.
- **Correct when.** One run of a workflow at a time; news of a gate and events are neither lost nor
  handled twice; what is due is run.

### The account's money (`ee/ledger.js`, `resident.js`) — partly modelled: Ledger
- **State.** Ledger: `grants`, `res` (holds), `spend`, `res_events`, running sums kept by triggers.
  Resident: `res_open` (the calls it has reserved and not closed).
- **Operations.** `reserve`, `settle`, `expire`, `state`, `grant`, `grantIncluded`,
  `byokPlanToCredits`, `dayInfo`; in the Resident `reserve`, `settle`, `resOpen`, `resClose`,
  `resOpenRelease`, `chargeExtra`.
- **Hard.** Every request may be late, lost, or done with its answer lost; a reset kills the call
  between reserve and settle; a hold expires under a call that still runs; a renewal takes unused
  usage back under open holds.
- **Correct when.** Calls never take the balance below zero or a day past its limit; a charge is what
  the call cost, or the event rows say why not; no hold is forgotten.

### Components that are not modelled yet
| Component | State and operations | What makes it hard | What would make it correct |
|---|---|---|---|
| Helpers and plans (`helpers.js`, `plans.js`) | `helpers`, rounds, messages, requests; start, pause, approve, deadline, hand-back | deadline against report; Stop against hand-back; limits under concurrency | each helper hands back exactly once; at most three run per task |
| Channel computer (`channel-computer.js`, `snap-agent.js`) | layers, `computer_busy`; start, exec, save, sleep, reattach, cancel | save during exec; a lost container; a run id found again | a saved layer is complete; a command runs once |
| Deletion (`deletion.js`, `deletion-do.js`) | `deletion_jobs`, `hs_forget`; steps safe to repeat, 5-minute cron | a turn that still writes; retain that lands after a delete | what is deleted stays deleted; every job ends |
| Scheduled sends, texts (`send-later.js`, `text-*.js`) | `later`, `outbox`, `text_batch` | a reset between sending and marking | a message is sent at most once or shown as failed |
| User input (`user-input.js`) | `user_questions`, receipts | a late or repeated answer | one answer per question |
| Memory, Hindsight (`hindsight-*.js`, `mem0.js`) | outbox, rebuild cursor | writers during a rebuild | no item lost, cursor never skips |
| Sidecar (`sidecar.js`) | prep jobs per file version | two arrivals of the same bytes | one job per version |
| Storage, backup (`storage.js`, `sqlite-snapshot.js`) | snapshot pages, manifest | writes during a snapshot | a restore is one point in time |
| Spend guard of a turn, self-hosted usage (`spendguard.js`, `usage-ledger.js`) | a turn's spending and its pauses | two turns that pass one limit together | a pause is asked for once |
| Native transport (`native-network.js`, `native-transport/`) | grants, sessions, broker | expiry against use | no use after revoke |
| Live notes, Bee sync, browser tasks (`ee/`) | claims, cursors, leases, queues | a chunk restarted from its cursor | no line lost or doubled |

Not modelled and not planned: worker routes, web client, prompts and context text, model providers,
design tools, speech and codecs, vault text scrubbing: text, wire formats or pure I/O with little
state of their own. Their influence on a turn is a nondeterministic answer in the models.

### How the parts interact
A message reaches `steerOrOpen`; the turn calls models (nondeterministic) and tools; a tool may call
another Durable Object (the computer, the Ledger), which may be reset under it (`Park`,
`CalleeReset`). The alarm calls `resumeDue`; the constructor calls `recoverTurns` and
`recoverCards`. Stop comes over HTTP. A gated call opens an `approvals` row and holds; a tap decides
the row and, when no call holds, a note carries the task on. The alarm takes one app event and one
due workflow and starts a turn for each, which is journaled like a chat turn and ends in
`eventFinish` or `workflowFinish`. Every paid call of a turn reserves at the Ledger, another object,
and settles after it; what a reset left in `res_open` is released by the fresh object. Everything is
one event loop per channel, so **one action is the code between two awaits**, and a reset may fall
between any two actions.

## 2. Modules

| Module | What it is |
|---|---|
| `ResidentTurns` | cards, queue, steers, loop, commit, journal, reset, resume, Stop; parameters for the bounds, `Routing` and `Engine` |
| `MCResidentTurns` | message symmetry, and properties one could expect that the code does not keep |
| `ResidentTurnsProofs` | inductive invariant and ten theorems |
| `ResidentMessagesProofs` | five more: messages, history rows, the order of turns |
| `ToolEffects` | the calls of one answer: journal, tool, confirm hold, resumeClose, Stop, resets |
| `ToolPromise` | abstract: what results promise the model |
| `MCToolEffects` | one call of each interesting kind |
| `ToolEffectsProofs` | inductive invariant, five theorems, refinement of `ToolPromise` |
| `Approvals` | cards, calls that wait for them, answers, tokens, grants, clocks, resets; all four gates |
| `MCApprovals` | symmetry of calls and payloads, and `ReadsAfterYes`, which the code does not keep |
| `ApprovalsProofs` | inductive invariant, five properties |
| `Workflows` | schedules, gates, follow-ups, app events, leases, the handler, alarm, registry, watchdog, resets |
| `MCWorkflows` | one workflow with a schedule, one on an event |
| `WorkflowsProofs` | inductive invariant, seven theorems |
| `Ledger` | an account's grants, holds, charges and sums, and the calls of its Residents over a network that loses and reorders |
| `Purse` | abstract: what an account promises the person who pays into it |
| `Sums` | the sum of what a function gives the members of a finite set |
| `MCLedger` | calls, prices and invoices |
| `SumsProofs` | how such a sum changes when its set or its amounts do |
| `LedgerProofs` | inductive invariant, six properties, refinement of `Purse` |

**ResidentTurns.** `status`, `home`, `read`, `saved`, `journal`, `phase`, `jstep`, `resumes`, `open` and
`row` are SQL; `pc`, `before`, `pend`, `taken`, `abort`, `outcome`, `lates` and `stopping` are memory.
`pc[c]` names the await the turn of card `c` is at; `before[c]` is the part of the promise chain it
waits for. `Open` is `steerOrOpen` and `runTurn` up to its first await; `NextModelStep` is `journalStep`
and `takeSteers`; `CommitAnswer` is `commitTurn`, `HandOn` the commit that a delegation or a question
forces (classic engine); `CloseCard` and `WriteRow` are the two writes at the end; `Reset(loops)` is
`recoverTurns` and `recoverCards` in the fresh object, where `loops` are the turns that look like a
crash loop; `ResumeDue(s, D)` is the alarm; `Park` is `parkForResume`. `stopReq`, `dropped`, `starts`,
`resets` and `parks` are history.

**ToolEffects.** `effect` is `turn_effects`, `result` the saved tool message, `made` the helper row a
call left, `card` and `used` the `approvals` row; `tool[c]` is where `runTool` stands and `acts[c]`
counts what reached the outside. The tool is its own process: a Stop lets go of it (`LetGo`) and it
still moves. A command is let go of at once in both engines and in `resumeClose` (`execComputerTool`),
another call by the loop of either engine (`LeavesTool`). `mode` is "calls" in the loop and "close" in
`resumeClose`, where calls are closed in order: a finished journal row gives its result (`CloseDone`), a
call that may run again runs (`Rerun`), another gets a text (`CloseStarted`, `CloseText`). The two
engines differ in when the message is saved (`RecordAs`, `SaveMessage`) and in what a Stop blocks. A
turn that was abandoned is `StopGone`, like one that was stopped while it waited.

`ToolPromise` has two variables: how often a call acted, and what was told of it. A call acts once
unless it is a read; "done" and "nothing" are told only when true, and nothing acts after them. The
mapping (`Told`) folds answers and "already started" into done, "waiting for confirm", "cancelled"
and "skipped" into nothing, and errors, "stopped" and "may or may not" into unknown.

**Approvals.** `row` is `approvals`, `grants` the unused one-use grants, `allowed` what is always
allowed; `kind`, chosen once, is the gate all calls of a behaviour go through. `call[c].pc` is where a
gated call stands: the card goes out by text (`texting`), it looks at the row every half second
(`holding`), it went ahead (`ran`, and `how`). `held` is the set a hold adds its card to and
removes it from. `tap[x]` is an answer: a Confirm that nobody holds hashes its token first, an Always
allow saves first, so both wait with the row still pending (`TapWaits`, `ConfirmWritten`,
`AlwaysWritten`). `GateToken`, `GateGrant`, `GateAllowed` and `Ask` are the ways through a gate,
`ReadAnswer` the end of a hold with an answer, `HoldEnds` without one. `reached` and `missed` are
history: answers that came to a call or a note, and those of the three cases that have neither.

**Workflows.** `job` is `workflows`, `row` is `app_events`, `turn` the journal rows of workflow
turns; `alarm` is the stored alarm, `reg` the registry row, `armq` and `arming` the chain of `arm()`
and the `armNow` in progress. `hand` is the handler, `hand.pc` its await: `Fire`, `Woke` (backstop and
`resumeDue`), `AppEventsDue`, `EventLease`, `EventRun`, `TimedDue`, `Access`, `Gate`, `RunTurn`,
`HandlerEnds`. Times are what they make true: `due`, `lease` free, held or lapsed, a resume that has
come. A turn is live, closed, parked or due; its inside is ResidentTurns. `CardCloses` is `commitCard`, after
which awaits follow (the computer's save, the history row, `askAfterTurn`) until `TurnEnds`: the journal
row goes and the run is booked, with no await between. A reset leaves a live turn cut and a closed one
shut; `RecoverTurns` deletes the row of a shut one and nobody books its run. `ask` is a status change
that waits for Composio. `wish`, `owed`, `done`, `forgot` and `stranded` are history: what the person asked
for, news no finished run was told, ends of an event's runs and how many of them a reset hit before they
were booked, work that nothing stored comes back to.

**Ledger.** `grants`, `held`, `old`, `spend`, `today`, `tot`, `events` and `pauses` are the Ledger's;
`open` is `res_open`, `call[c]` a call in its Resident's memory (`gone`: that instance was reset),
`release` the pass of the fresh object over its rows, `net` the requests on their way. The Ledger
handles a request in one go (`Reserved`, `Settled`), after its stale holds expired (`HeldThen`,
`SpendThen`, `TotThen`, `EventsThen`). For each request there is an action where the answer arrives
and one where the request or its answer is lost.

`Purse` has three variables: what was put in, which calls have a hold, and what was paid for each.
A call gets a hold once and only when the money is there; a hold ends with one payment within it;
what was put in is taken back only as far as no call has used it. The mapping reads the first from
`tot.granted` and the other two from the rows of the calls, so the rest of the Ledger's sums have to
agree with the rows for a step of one to be a step of the other. A Resident, its resets and the
network are not seen: a request that is lost, repeated or late maps to a stutter.

Definitions that begin with "Variant:" are plausible mistakes, one definition each; the runs notice
all of them when they are put in the place of the real definition.

## 3. Runs

| Run | Instance | What it shows |
|---|---|---|
| `resident_resets` | 3 messages, 3 cards, 1 step, 1 reset | type, `OneTurnPerTask`, `NoLostTask`, `LiveIsWorking`, `ReadIsSaved`, `ResumedKeepsSteers`, `RowMatchesCard`, `ClosedStaysClosed` |
| `resident_quiet` | 4 messages, 3 cards, 2 steps, 2 calls, pi, routing, no reset | `SteersReach`, `EndedHasRow`, `InOrder`, `StopIsFinal`, `NoToolAfterStop` |
| `resident_live` | 2 messages, 2 cards, 1 reset, 1 park, fair | `EveryCardEnds`, `ResumesBounded` |
| `effects` | a send, a command, a start_helper and a read; 2 resets; fair | `ActsOnce`, `ResultsTrue`, `ConfirmedFirst`, `KeepsPromise`, `CallsEnd` |
| `approvals` | 2 calls, 2 payloads, 2 cards, 2 answers, 1 reset, each of the four gates | type, `OneYesOneRun`, `AnswerReaches`, `OnceIsSpent`, `FirstAnswerStands` |
| `workflows` | a workflow with a schedule (of each kind), one on an event, 1 event, 2 journal rows, limit of 2 runs; of 2 faults, 1 status change and 2 times a `next_run` any 3; fair | type, `RunAlone`, `NewsKept`, `PauseStays`, `EventOnce`, `WorkWatched`, `DueRuns` |
| `ledger` | 2 calls, one listed in `res_open`; a renewal, a top-up, a smaller renewal; a day's limit; 1 reset | type, `ChargesAreTrue`, `NoHoldForgotten`, `TotalsTrue`, `NoOverspend`, `DayLimit`, `KeepsPurse` |
| `reply_lost`, `read_unsaved`, `queued_steers_lost`, `stop_lost`, `reset_swallowed` | small, with a reset | each violates one property: section 6 |

**Why these bounds.** Three cards give a running turn, a waiting one and one behind both: the queue
distinguishes nothing further. `MaxInputs = 2` makes the full card reachable with three messages. One
model step reaches the step limit, late answers and the report; a second reaches the commit that
turns into one more step. One reset reaches every crash point; `ResumeMax = 1` and one more reset or
park reach the give-up. In `effects`, two resets let a resume be reset itself, and four calls put
every kind of closing before and after each other. In `approvals`, two calls share a card or
hold on one each, and two answers race for one card or reach the retry of an answered one; a third
call adds no new pair. In `workflows`, two journal rows are one more than a workflow may have, a limit
of 2 runs makes a run the last one or not, one failure turns a workflow off (`FailPause = 1`), two
tries let an event be tried again and two faults let it be given up. A fault is a reset, a parked turn, a
thrown error, a skipped run or a failed D1 write, anywhere; `MaxUpsets` bounds faults, status changes and
`next_run`s together, so that any three of them occur in any order (806,909 states). In `ledger`, the two calls reserve 3
together, more than the day's limit of 2 and, with the smaller plan, more than the balance; the costs 1
and 3 lie below and above the listed call's hold of 2. The proofs cover the other values.

`CHECK_DEADLOCK FALSE`: when every message is sent, every card has ended or is answered, every bound on
times and requests is reached, the system rests.

**Fairness.** `WF` on the steps of a live turn and of its tools: the event loop runs what is ready,
model calls and tools have time limits, and a hold ends after two minutes. `WF` on `ResumeDue` and
`Resume`: an alarm is armed whenever a journal row waits (`armBeat` at each step, `armBackstop`
inside the alarm, `recoverTurns` in the constructor). `WF` on `StopJournaled`: `nativeCancel` settles
(its rejection is caught). No fairness for messages, taps, Stops, resets, parks or heartbeats.
In Workflows, `WF(System)`: the event loop runs the handler and the arm chain to their next await, a
stored alarm fires, Composio's call settles, the cron runs the watchdog, and an object with an alarm or
a registry row comes back after a reset. `WF(TurnsAndTime)`: turns end (step and time limits) and
leases and resume delays pass. None for the person, apps, webhooks or faults; and none for an object
that has neither an alarm nor a registry row, so `DueRuns` excepts `stranded`.

## 4. Proofs

Assumptions: only the types of the constants (`BoundsAssumption`, `ModeAssumption`;
`CallsAssumption`, `KindAssumption`, `ModeAssumption`; `BoundsAssumption`; `KindsAssumption`,
`NumbersAssumption`; `LedgerAssumption`). All bounds are arbitrary naturals, and
`Calls`, `Call`, `Payload`, `Timed`, `Event`, `Turn` and the like arbitrary sets.

**ResidentTurnsProofs.** `Inv = TypeInv /\ QueueInv /\ LifeInv` is inductive.
- `OneTurnPerTask` alone is not: it needs that of two live turns of a task one is in the other's
  `before`, and that a running turn waits for none (`QueueInv`). The promise chain is exactly that.
- `NoLostTask`, `LiveIsWorking` and `RowMatchesCard` need where a turn's code is to say what its card
  shows (`StatusInv`) and journal rows without a turn to belong to open cards (`JournalOpen`).
- `ResumesBounded` needs `resumes` to count the starts of an open card (`ResumesCounted`).
- `StopEndsModelCalls` and `StopEndsTools` hold when `MaxResets = 0` and `MaxParks = 0` (stated in
  the theorems); `StopInv` says a stopped live turn keeps its flag. `stop_lost` shows why not more.

**ResidentMessagesProofs** builds on `Inv` and states each restriction in its theorem.
- `ResumedKeepsSteers` holds for all parameters. It rests on `TakerInv`: the card that takes a
  task's messages is an opened card of that task, and a message is read only after it was put on one.
- `SteersReach` without resets (`MaxResets = 0`). `SteerInv` adds the cards that do not take their
  task's messages now, queued or parked: such an open card has none left to read, except what a Stop
  dropped. `queued_steers_lost` shows that a reset breaks it.
- `EndedHasRow` without resets (`RowInv`: a closed card has a row or a turn that is about to write
  it); `reply_lost` shows the reset in between.
- `ReadIsSaved` without routing, through any resets: then `read \subseteq saved` is inductive.
  `read_unsaved` shows the two blocks with routing.
- `InOrder` without resets and parks (`OrderInv`: a queued turn waits for every live earlier card of
  its task). A park leaves the chain, which `QueuedInOrder` in section 6 is about.

**ToolEffectsProofs.** `EffectInv` is inductive. `ActsOnce` alone is not: a call about to act must
not have acted before (`NotYet`), which after a reset rests on the journal being written ahead of the
tool (`WriteAhead`) and on the rows that tell afterwards what happened (`Traces`: `spawn_call_id`,
the card's status). `Says` ties what the tool returned, the journal and the message to what happened
outside. A step of one call touches only that call (`OneCall`), so each action has one obligation
about its own call. `Implements` maps `ActNow` to `Act`, the steps that save a result to `Tell`, and
every other step to a stutter.

**ApprovalsProofs.** `ApprovalInv` is inductive. `OneYesOneRun` needs that a call which ran on a grant
or a token used it up, and that a confirm card that let a call through is marked used (`RanInv`).
`AnswerReaches` needs that a held card has a call that holds on it (`HeldHasHolder`): the set in memory
only forgets, so whoever reads "held" may leave the answer to the hold. `OnceIsSpent` needs that
grants are those of approved cards (`CardsInv`).

**WorkflowsProofs.** `Ind` is `TypeOK`, `WorkflowInv` and the properties together. `RunAlone` carries
itself: a run is picked only when no journal row of its workflow exists, and the handler is the only
one that picks; a lease that lapsed is no danger because the journal is asked too. `NewsKept` needs
that a run not told of the news belongs to a workflow that owes none (`NewsInv`). `EventOnce` needs
which event rows a run may carry (`RowsInv`) and how ended runs, forgotten runs and tries compare
(`CountsInv`): before the card of an event's run closes, every run of it that ended was forgotten in a
reset; one more has ended while that turn is not booked, and only it carries the event then; once it is
booked, the row is out of the queue and no run can carry it again.
`WorkWatched` goes through every action that makes work or lets go of an alarm.

**SumsProofs.** The sum is a fold of the community modules, defined with a recursive function, and the
library's induction theorems cannot be used here. So facts about all finite sets are proved by a
smallest counterexample (`MinimalSet`): that the recursion has a solution, that it does not matter
which member is added first, and from these what one member more or less (`SumAdd`, `SumRemove`), a
union, equal or larger amounts do to a sum.

**LedgerProofs.** `Ind` (there) is `TypeOK`, `GrantInv` and, for each call, the parts of `LedgerInv`
and of the two invariants. An id is held or charged, never both (`CallInv`), a request belongs to the
call that waits for it (`RequestInv`), and a renewal's take-back comes with its grant (`GrantInv`).
`Calls` may be infinite, so that there are only finitely many rows to sum is an invariant too
(`RowsFinite`).
- `NoOverspend` is an action property: each action is shown to keep the sums level or to lower the
  balance only where `reserve` has checked it.
- `DayLimit` likewise: only `reserve` makes the day grow, and it has checked the cap. A hold that
  ends, in a settle or an expiry, moves an amount from the holds to the charges and adds nothing.
- `TotalsTrue` is inductive together with `CreditInv` (the two rows that move usage to credits are
  written together, so neither `INSERT` is ever ignored alone).
- `KeepsPurse`: the initial states map to initial states, and each step to `Settle`, `Hold`, `Give` or
  a stutter. `TotalsTrue` turns the checks that the code makes on its sums into what `Purse` says of
  its rows; a renewal takes back at most what is unused because included usage is part of all that
  was put in (`IncludedIsPart`).

| Theorem | States |
|---|---|
| `TypeCorrect`, `Invariant`, `OneTurn`, `NoTaskLost`, `WorkingShown`, `OneEnding`, `BoundedResumes`, `ClosedStays`, `StopEndsModelCalls`, `StopEndsTools` | the properties of ResidentTurns |
| `ResumedReadsAll`, `NoMessageLeftBehind`, `EndingReachesHistory`, `ReadIsKept`, `TurnsInOrder` | its properties about messages, history rows and order |
| `EffectsTyped`, `Journaled`, `NothingTwice`, `NoSendUnconfirmed`, `TruthTold`, `Implements` | the properties of ToolEffects and its refinement |
| `Approved`, `ApprovalsTyped`, `OneYes`, `NoAnswerLost`, `OnceSpent`, `FirstStands` | the properties of Approvals |
| `WorkflowsInvariant`, `WorkflowsTyped`, `OneRun`, `NewsNotLost`, `PausesStay`, `EventsOnce`, `AlwaysWatched`, `PartsAgree` | the safety properties of Workflows |
| `LedgerInvariant`, `LedgerIsTyped`, `TrueCharges`, `HoldsListed`, `NeverOverspent`, `DayIsLimited`, `TotalsAreTrue`, `ImplementsPurse` | the properties of Ledger and its refinement |

**Only model-checked.** `EveryCardEnds`, `CallsEnd` and `DueRuns`: liveness under fairness is outside
what TLAPS proves here. Every other property of a passing run is a theorem. Where a theorem restricts
a parameter (`MaxResets`, `MaxParks`, `Routing`, `Engine`), the property does not hold without it:
TLC finds a counterexample in `resident_quiet` or `resident_resets` once the parameter is changed; the
runs of section 6 show four of them.

## 5. Abstractions and what is left out

Texts, files, charges and labels are left out. "complete" stands for complete and paused. One promise
check and one resend stand for every nudge that asks for one more step. Helper and scheduled turns,
`deferWork` and chooser cards are left out of ResidentTurns. In ToolEffects, batched `app_run` reads
run one after the other, helper reviews (`HELPER_REVIEW`) are left out, schedules are taken like
`start_helper`, and a token from a later tap belongs to a later answer. `reattach` is an oracle: it
finds the output of a command that was launched, or nothing. Reads through the computer count
as any other read. A request that left counts as an act
whatever becomes of it outside.

*Approvals.* What one turn remembers of an answer (`permOk`, `permNo`, `permExpired`) is left out, so
each call is the first of its kind in its turn. Which calls need an answer at all
(`approval-scope.js`, `ask-first.js`) and SSH requests are left out. "In this conversation" counts as
"always". The gates share one module because they share the table; a behaviour uses one of them.

*Workflows.* Any due workflow may go first (the code takes the oldest of five), and any event. Left
out: hourly limits, the webhook's signature and duplicate check, the trigger's state at Composio beyond
a refused resume, `rearmFloor` and the slack of the registry's time, the platform's retry of a
handler that threw (the backstop alarm stands for it), a gate changed under a run, run now,
rescheduling and cron arithmetic (`schedule.js`), and the alarm's other work.

*Ledger.* The daily cap is a constant and one clock makes a hold old, one makes the day end. A request
is handled and its answer arrives in one step, or it is lost, or its answer is; requests overtake each
other. A call whose instance was reset may still finish and settle, unless its row was released
first: then nobody is left to settle it (`unheard`). Left out: backup keys of the person (`byok`
fallback; the move of plan usage to credits is in), meters and notices, and the other callers (ambient,
live notes, preparation, dictation), which reserve and settle the same way.

## 6. Where the code and its words differ

Found while modelling; each with a run that shows it:
1. `reply_lost` — the card closes (`resident.js:4537`) before the row is written (`:4557`); a reset in
   between leaves a complete card without a row.
2. `read_unsaved` — with the routing model asked, steers are marked read (`:4641`) before they are
   saved (`:4261`).
3. `queued_steers_lost` — the unread messages of a card that was only queued do not come back into the
   list its turn reads after a reset (`resume.js:252`).
4. `stop_lost` — a Stop is in memory only (`stop.js:44`); the resumed turn calls the model again.
5. `reset_swallowed` — `resumeClose` saves a callee's reset as the tool's error (`resume.js:418`), where
   the loop parks the turn (`resident.js:1879`).

Stated in the MC modules, not kept by the code, without a run of their own:
- `QueuedInOrder`: a parked turn leaves the chain (`resident.js:3889`), so the next one overtakes it.
- `StoppedCloses`: a Stop in the set-up, in a late answer or in the report closes the card as failed
  or complete (`:3880`, `:4497`, `:4509`).
- `ResumingIsNotLive`: the heartbeat check looks at `active` only, so a resumed turn that waits in
  `queuedTc` is marked as dead (`resume.js:283`); nothing worse follows (`OneTurnPerTask` holds).
- `RepliedReadAll`: a message during the step-limit report, or after five late answers, stays unread
  (`:4486`–`:4530`).
- `EachEventOnce`: `schedule_event_workflow` promises "each event once" (`app-events.js:100`). A reset
  after the card of the run closed (`resident.js:4537`) and before the run is booked (`app-events.js:160`)
  makes `recoverTurns` delete the journal row and nothing else (`resume.js:249`): the event stays
  `started` and, once the lease is over, is run in full again. `EventOnce` says that this is the only way
  a run is repeated. A scheduled run is repeated in the same way: its `next_run` and `run_count` are as
  before, and saved gate news is told once more.
- `NoBeginAfterStop`: the classic engine starts later calls after a Stop and lets go of them at once,
  and `resumeClose` of either engine starts calls after one (`resume.js:418`); it lets go of commands
  and waits for the others.
- `ReadsAfterYes`: a front-door call that still holds when another hold closes the shared card reads
  "expired", which `askPerson` takes for a yes (`perms.js:241`–`244`), although `front-door.js:5` says it
  "reads nothing before the person answers".

Met while modelling, allowed by the models, told by no property:
- *Approvals.* An answer in the last half second of a hold is read by nobody and makes no note
  (`confirm.js:106`, `missed`), although `confirm.js:54` says "If they tap Confirm, you'll be told".
- *Workflows.* A parked event run counts as failed at once and again when its resume ends, with its
  lease freed in between (`app-events.js:159`). Gate news is lost when a reset falls into the gate's
  command. Runs that are given up or throw never count as failed, so `FAIL_PAUSE` does not see them. A
  skipped last run keeps its old `next_run`, so the alarm comes back at once until `rearmFloor` slows
  it. Two deliveries of one webhook event may both pass the duplicate check during `await limitsFor`
  (`app-events.js:113`). A pause and a resume that overlap at Composio may arrive there in either order.
- *Workflows.* `armNow` deletes the alarm by tables it read before it waited for D1
  (`resident.js:2175`); a turn journaled meanwhile set that alarm. And a reset between an INSERT into
  `workflows` and the end of its `arm()` leaves neither alarm nor registry row. Both are `stranded`:
  the work waits for whatever next wakes the object.
- *Ledger.* A reserve whose answer is lost, or that arrives after its release, holds until it expires,
  and is then charged in full for a call that never ran (`resident.js:1245`). A call that runs
  longer than ten minutes is charged in full; its real settle is not written (`res_events` says so).
  A release that failed waits for the next start.
- *Ledger.* `unusedIncluded` subtracts all spending from all included usage (`ledger.js:74`): spending
  of earlier top-ups eats into it, so part of unused usage outlives the renewal, where
  `spendguard-ledger.js:33` and `docs/1helm.md:62` say it does not. The daily limit holds only while
  pauses are on (`ledger.js:111`). A renewal at a smaller plan takes unused usage back under open
  holds, and their charges may then leave the balance below zero (`Renewing` in `NoOverspend`).

## 7. Plan

Done: ResidentTurns, ToolEffects, ToolPromise, Approvals, Workflows, Ledger, Purse, their runs and proofs.
Next, in this order:

| # | Module | Composes | Abstract specification | Properties and runs | Worth proving |
|---|---|---|---|---|---|
| 1 | `TaskLog` | refined by ResidentTurns | a task is a log of messages, each answered, dropped or interrupted once | ResidentTurns without resets implements it; with resets up to findings 1 to 3 | the step mapping, from `Inv` |
| 2 | `Helpers` | ResidentTurns as the parent's turn | a helper hands back once | deadline, Stop, approve, pause, resume, limits | one hand-back, the running limit |
| 3 | `ChannelComputer` | exec calls of ToolEffects | layers form one history | save during exec, sleep, lost container, reattach by run id | a saved layer is complete |
| 4 | `DeletionJobs`, `SendLater`, `UserInput`, `FilePrep` | small modules of their own | | crash between two steps; at most once; one answer per question | the crash invariants |
| 5 | `SpendGuard` | Ledger | a turn pauses before it passes its limit | pauses of two turns, the self-hosted ledger | one pause per limit |

The runs of a finished component are folded together where one instance answers several questions,
so that later components find room.
