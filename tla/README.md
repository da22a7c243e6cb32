# Cerebro, specified

TLA+ models of the Cerebro agent (`src/api/src/cerebro`): a Slack bot that
investigates payments. A message in Slack becomes an event row, then a run, then an
investigation by a language model, then an output row, then a reply. Each arrow is
a commit in PostgreSQL followed by a job in a Procrastinate queue, and each can be
interrupted. Three modules are about these arrows, and a fourth about what they give
together. Three more are about what happens inside an investigation, about the memory
that concurrent investigations share, and about the script that replaces the whole
machine while they run.

## 1. The system

Processes (`docs/architecture.md`): `slack` (Socket Mode listener), `control-worker`
(queue `control`, two slots), `agent-worker` (queue `agent`, two slots), `web`
(readiness), `db`. They share nothing but the database. A job may carry a
*queueing lock* (unique among waiting jobs) and a *lock* (one such job at a time,
oldest first). A job whose task raises is not retried. A worker reports a
heartbeat; a job in progress whose worker has been silent for 60 s is *stalled*.

| Component | State it keeps | Operations | Hard behaviour | What makes it correct |
| --- | --- | --- | --- | --- |
| Event ingestion `slack/socket.py`, `slack/service.py`, `slack/events.py` | `slack_event`, `conversation`, `message`, `agent_run`, `feedback` rows | acknowledge, store, enqueue, mark, process message or reaction | no lock between listener and control job; concurrent slots; loss after the acknowledgement | every stored event is settled; its effects are not repeated; feedback follows the reactions |
| Run execution `slack/pipeline.py` `execute_run` | `agent_run`, `conversation.state`, `slack_output` | start, prepare, investigate, recheck, commit, fail | death anywhere, late workers, newer messages meanwhile | one investigation, one outcome, one output, and every run ends |
| Outbox delivery `slack/pipeline.py` `deliver_output`, `slack/gateway.py` | `slack_output`, outbound `message` | check, post, record | two systems without a common commit | settled once, mirrored in the transcript, bounded repetition |
| Queue and recovery `jobs/` | Procrastinate's jobs | enqueue, find stalled, finalize, release, resubmit | works from lists read earlier; overlaps itself | closes every gap and interrupts only the dead |
| Workers `worker.py` | cached mode, slots | run, die, restart | modes differ between processes | the `off` gate never breaks a run |
| Heartbeats, readiness `ops/runtime.py`, `ops/readiness.py` | `runtime_heartbeat` row | touch, stop, report | old and new instance write one row | a running component is not shown as stopped |
| Specialist turns `agent/turns.py`, `agent/openai_runner.py` | turn counter, route, audit | route, ask, use a tool, correct the route, answer | budget shared across a correction; every kind of failure | at most the budget, the last turn answers, every call is audited |
| Evidence ledger `agent/openai_runner.py`, `replica/investigation.py` | signals, verified candidates, search counts | search, verify, register, map the output | contradictions nobody cites, equal candidates, a replica that changes | no claim the ledger does not support |
| Shared memory `agent/shared_memory.py`, `memory_client.py` | cached brief, token | load, remember, recall, mint | concurrent coroutines, no lock, outages | no brief too old, no refused or dying token |
| Images `slack/images.py` | run directory | download, validate, sweep | nested timeouts, redirects | nothing is left behind |
| Replica `replica/` | pool, catalog | query, retry, reload | stale catalog, lost connections | read-only, bounded |
| Deployment `deploy/cerebro-agent-update.sh` | containers, local image | pull, drain, count, stop, start, replace | jobs that start while it counts, failures between any two commands | no counted job is cancelled, what was stopped comes back unless a stop or the script itself fails |

The remaining parts (rendering, prompts, configuration, reports, evaluations, web,
Terraform) keep no state of their own that changes while the service runs.

## 2. Modules

| Module | Models |
| --- | --- |
| `Runs` | messages, threads, statuses and outputs that the run modules share; `Newer` is the staleness query |
| `RunContract` | what the agent promises about one run (abstract specification) |
| `RunLifecycle` | control worker, queue, `execute_run` and recovery, in detail; implements `RunContract` |
| `DeliveryContract` | what the agent promises about one output (abstract specification) |
| `Outbox` | `deliver_output` on concurrent slots, and the recovery of outputs; implements `DeliveryContract` |
| `Workflow` | the two contracts composed: from a stored message to its reply in Slack |
| `SlackIngest` | listener, `process_stored_event`, and the recovery of events |
| `Evidence` | pure: the signals of a replica row, their confidence and their precedence |
| `Investigation` | one run of the agent over `Evidence`: routes, turns, tools, ledger, result |
| `SharedMemory` | brief cache and bearer token of one agent process |
| `Deployment` | processes, heartbeat rows, readiness and the update script |
| `...Proofs` | theorems about the module of that name |
| `MC...` | small instances for TLC |

### RunLifecycle

One step is one transaction, or one call between two transactions that another
process can observe. `run`, `error`, `conversation` and `outputs` are rows; `todo`,
`doing` and `fetched` are the queue, where the *n*-th job of a run is `<<run, n>>` so
that an old job is told apart from its successor; `tick`, `stalled`, `releasing` and
`pendingRuns` are the local variables of a recovery tick in progress; `pc`, `job` and
`mode` are those of an agent slot. `investigated` counts the calls of the runner.

| Action | Code |
| --- | --- |
| `StoreTrigger`, `HandOff` | `_process_message` with its commit; `enqueue_agent_run` |
| `Start` | the first transaction of `execute_run`: not queued, off, superseded, or started |
| `Prepare` | images, snapshot, first `_cancel_if_stale`, then the runner is called |
| `Recheck` | second `_cancel_if_stale`, after the runner returned |
| `Commit`, `Fail`, `Raise` | the success transaction, the failure handler, an exception between them; the success commit may be applied and still raise |
| `Escape` | an exception or a cancellation that `execute_run` does not catch |
| `Submit` | `enqueue_slack_output` after either |
| `FindStalled`, `Finalize`, `Release` | the three parts of `recover_interrupted_jobs`; `Release` raises for a job that has ended, and the tick ends with it |
| `FindPending`, `ResubmitRun`, `ResubmitOutputs` | the rest of `recover_pending_work` |
| `Crash`, `ControlCrash`, `Lapse`, `Resume` | what happens to processes and heartbeats |
| `Fetch`, `FinishJob`, `Healthy` | Procrastinate, as the code uses it |

A run that has no usable evidence is answered without the runner; the model counts
that as an investigation too, for it takes the same path. The off mode cached by a
process changes only when it restarts (`get_config` is cached). Each slot dies,
lapses and restarts on its own, as if it had a process to itself; two slots of one
process that die together are two deaths of the model.

`Escape` is what the `try` of `execute_run` (`pipeline.py:351`) does not cover, at any point of
the job: an opening transaction that raises before its commit or after it (`:322`; the
run is `running` then), the runner's construction (`:333`), a handler's transaction that
raises (`:520-565`), and the cancellation of a job that outlives the graceful shutdown
(`worker.py:34`), for `CancelledError` is no `Exception` (`:509`). The job ends and
releases its lock, the rows stay as they are. `escaped` remembers the runs that were left
running by it; the properties name them where they are the exception.

**Refinement.** In `RunContract` a run is stored, begins, is investigated at most once,
and ends with its outcome and its output in one step. `Contract == INSTANCE RunContract WITH
run <- run, error <- error, outputs <- outputs, investigated <- investigated`: the rows
are visible to both, and queue, slots and recovery are hidden. `ImplementsContract` says
that whatever these do, the rows move only as the contract allows.

### Outbox

`Check` is the first transaction of `deliver_output` with its counted attempt, `Post`
the Slack call with its two answers, `PostUnanswered` a call that Slack accepted and
the caller saw fail, `RecordSent` and `RecordFailure` the two last transactions.
`Create` stands for all places that insert an output, with or without the enqueue
call that follows; `Supersede` for a later message of the thread, at any moment, also
between a run's last look at the thread and its commit. `posted` counts what Slack
accepted and `allowed` the attempts counted before the output was superseded. Slack may
drop a post whose `client_msg_id` it knows; the model does not rely on it.

**Refinement.** In `DeliveryContract` an output is created, attempted, accepted by Slack,
and settled as sent, given up or withdrawn. An attempt needs a pending output that no newer
message has overtaken, and failures to pay for it beyond the maximum; a post needs an
attempt of its own, and only posts that Slack accepted can be recorded. `Contract ==
INSTANCE DeliveryContract WITH failures <- Failures, late <- lapses > 0`: rows and posts
are visible to both; queue, slots, recovery and the kinds of failure are hidden.
`late`, which a lapse sets for good, is all that the contract knows about workers that were
taken for dead: while it is false, whatever happens to an output happens while it is
pending.

### Workflow

| Action | What becomes one step |
| --- | --- |
| `StoreTrigger` | a run is stored, and the older replies of its thread (`Older`) are out of date |
| `Answer`, `Report` | a run ends and its output is pending: one transaction of `execute_run`, or of the recovery |
| `Proceed`, `Deliver`, `Failure` | steps of one contract that the other does not see |

It is written over the contracts, not over `RunLifecycle` and `Outbox`: these implement the
contracts, so what is proved of the composition holds of whatever a detailed module does to
the rows. `StaleIsNewer` ties together what the detailed modules leave to chance: a reply
is out of date exactly when a newer message of its thread is stored.

### SlackIngest

The listener handles each event in a task of its own (`at`), with the row's insert,
the enqueue, the unlocked read and the late write as separate steps. A control job
locks the event's row, so its transaction is one step (`Process`), followed by the
enqueue call. `ProcessMessage` and `ProcessReaction` are the two branches. `handled`
counts the transactions that applied an event. The kinds of events are those that
`normalize_event` lets through; the rest is stored as ignored and has no further step.

### Evidence and Investigation

Names, addresses and amounts are abstracted to how a row relates to the clues of the
deposit (`Profile`): an address matches exactly, partly or not; a name is the
customer's, a signee's, a fragment or none; and so on. From there on nothing is
abstracted: `CandidateKinds` and `IdentityKinds` try the relations in the order of
`_candidate` and `_identity_candidate`; `Confidence` and `Rank` are `_confidence` and
`_rank`. `ReceivableFoundBy` and `IdentityFoundBy` are the conditions of the two searches.
Equal amounts and contained digits are the same in SQL and in Python; texts are not: the
SQL cuts tokens, delimiters and punctuation in its own way, so that it finds rows which the
classification rejects and misses others it would accept. A profile therefore has a part
of its own, `like`, for the texts the SQL finds, and nothing relates the two.

| Action or operator of `Investigation` | Code |
| --- | --- |
| `RouteTo`, `Clarify`, `RouterRaises` | `_route` and its uses in `run` |
| `Turn` | `TurnLimitedModel._prepare`: one model call of either specialist |
| `AskTool`, `UseTool` | a tool call of the model; `Search`, `Verify`, `Vambe`, `RunSql`, `Remember` or `Uninformative`, each with `_register_observation` and `invoke`'s audit |
| `AskNothing`, `GiveUp`, `Exhausted`, `ProviderRaises` | the ways `_run_general` and `_run_payment` end or go on without an answer |
| `AnswerGeneral`, `AnswerPayment` | a structured output, mapped by `MapOutput` |
| `Conclude` | the loop of `run` with its single route correction |
| `Accepted`, `Alternatives`, `Competes`, `Resolve`, `Cites` | the conditions of `_map_output` and its helpers |
| `Return` | the last lines of `run`, and `AgentRunFailure` with its audit |
| `ReplicaMoves` | between two calls the replica becomes any other one: receivables and customers come, go and change |

The model (the language model) may do anything at any turn. What it cites is any single
signal, or all signals of a candidate, its own or another's; a proof needs no such bound.
Calls of one turn run one after another: a signal carries the number of its call, and the
ledger is a set, so their order does not matter to any property.

### SharedMemory

A brief is the memory clock of the store it shows. `pc`, `op`, `snapshot`, `bearer`,
`reply` and `deadline` are the locals of each coroutine; `brief` and `token` are what
they share. Every `await` ends a step: `Load` and `Ask` run to the first await (`Send`),
`ReceiveToken`, `ReceiveNoToken` and `Receive` go on from there (`Resume`), with
`FinishLoad` and `FinishRemember` the code after the await. `Handle`, `Break`,
`StoreChanges` and `Revoke` are the servers, external to the code. `static` says whether
the client is configured with a token of its own, which `Send` then uses whatever became of
it. Time is explicit: `Tick` does not pass the `deadline` of an exchange.

### Deployment

| Action | Code |
| --- | --- |
| `Beat`, `Boot`, `Exit`, `Kill`, `Land` | `touch_heartbeat`, the start of the loop, `mark_stopped`, SIGKILL, and a dead instance's last statement that commits late |
| `Crash`, `Lapse`, `Recover`, `Age` | a process dies and is restarted by Docker; heartbeats lapse, resume, grow old |
| `Fetch`, `Finish`, `Expire` | jobs, as the script can see them |
| `Ready`, `Health` | `ops/readiness.py` over the rows |
| `Pull`, `Compare`, `StopIngress`, `Drain`, `Count`, `Restart`, `StopWorkers`, `Recount`, `Resume`, `Up`, `AwaitReady` | the script, one action per command or test |
| `Stop`, `Launch` | `compose stop`, which signals one service after another and then waits; `compose start`, which leaves alone what has not stopped yet |
| `Trapped`, `ScriptEnds` | the ERR trap; a failure outside it, or a kill |

`counted` is history: workers whose job the last count of the script had to see.
`stopped` is what this run of the script stopped. `Ingress` holds `slack` and, where the
deployment has a public ingress, `caddy`, which the script stops and starts as well but
which has neither a heartbeat nor an image of the project (`Component` are the others);
`left` is history: such services that a script which died left stopped. A stop that fails
after some of its services is `ScriptEnds` at `stop_ingress`, where no trap is set yet
(`:82` comes before `:90`), and `Trapped` at `stop_workers`.

### How the modules meet

`SlackIngest.SubmitRun` is where `RunLifecycle.StoreTrigger` and `HandOff` come from;
`RunLifecycle.Submit` is one of the ways `Outbox.Create` happens, with or without its
job; `Outbox.Supersede` is another `SlackIngest` message of the thread;
`SlackIngest.RecordAnswer` is `Outbox.RecordSent`. Each of these modules leaves the other's
step to chance, which allows more than the composition does; `Workflow` joins the steps of
runs and outputs at the level of their contracts. `Investigation` is one `Prepare` to
`Recheck` of `RunLifecycle`. The jobs of `Deployment` are runs and deliveries; a job that
dies there is a `Crash` here.

## 3. Runs

Every run finishes within five minutes on two cores, the longest in less than three.

| Run | Bounds | Shows |
| --- | --- | --- |
| `run_crash` | 2 messages of 1 thread, 2 slots, both modes, 1 recovery, 1 death, 1 escape | the contract, ownership, serialization and precise recovery |
| `run_zombie` | 1 message, 2 slots, 1 death, 1 lapse, 1 escape | late workers overwrite nothing; runs end, and outputs are handed to delivery |
| `run_stuck` | 1 message, 2 slots, 1 lapse, 1 death | **violated**: a run that stays running (section 6) |
| `run_overlap` | 1 message, 1 slot, 2 recoveries, 1 death | **violated**: a healthy run interrupted |
| `outbox` | 1 answer, 2 slots, both modes, 2 attempts, any 2 failures | the delivery contract; settled once and for all, mirrored, stale answers withheld, bounded repetition |
| `ingest` | 2 slots, both modes; a mention and a follow-up with 1 death, or a plug added and removed with 1 fault | repetition is bounded and submits nothing; stored events are settled, stored mentions have runs |
| `ingest_removed` | a plug added and removed, 2 slots, nothing fails | **violated**: removed feedback stays active |
| `investigation` | 2 orders, 4 replicas, 3 sets of clues, 3 turns, 1 change of the replica | budget, grounding, uniqueness, audit, and an end |
| `memory` | 2 coroutines, 3 calls, 5 units of time, a static token or 2 minted ones, 1 revoked, 2 changes of the store | recent briefs, visible notes, sound tokens |
| `note_hidden` | 2 coroutines, 2 calls, 2 units of time, 1 token | **violated**: a stored note is missing from the cached brief |
| `deployment` | slack, caddy and two workers, 1 image published, 1 job, any 2 failures | counted jobs survive, services return, the machine settles |
| `update_lost` | the same, nothing fails | **violated**: a postponed update is never done |

Why these bounds: a conflict about a run needs one slot that holds it, one that
takes it over and one recovery; staleness needs two messages of a thread. A second
death or lapse repeats the first one's effect from a state already reached, except
for the counters of `Outbox`, whose bounds have one term per failure and which are
therefore checked with two failures of any kind. Three turns hold a search, a
verification and an answer, or an answer in each route with the correction between them;
with four turns the same properties hold (531,695 states). Two orders suffice for a
competitor, and the four replicas are: a clear payer beside a neighbour, two equal
neighbours, a payer whose address of mail the SQL overlooks beside a contradictory
namesake, and an empty one; any may turn into any other between two calls. In `memory`, an exchange
takes one unit, a brief lives for one and is served stale for two, a token lives for
four, two of which are the margin; five units are enough for a token to die and a brief
to be refused. In `ingest` the messages come with a process that may die and come back in
another mode, and the reactions with a transaction or an enqueue that may raise: `MCInit`
leaves out the other events and spends the other bound from the start, for with all four
events and both failures the graph is too large. In `deployment` one job is enough to abort
an update at either count, and two failures to end a script and to start the next one on
what it left. The limits are constants of the modules, and every theorem of section 4
holds for all their values.

Slots and coroutines are symmetric; symmetry is not used in runs that check liveness.
Deadlock is checked except where a behaviour has an end: `investigation` (the run has
returned), `memory` and `note_hidden` (time and calls are used up).

### Fairness and timing

- Workflow (`run_zombie`, `outbox`, `ingest`): weak fairness for the steps of a slot
  whose worker reports a heartbeat, for fetching by an idle slot, for the periodic
  recovery and for the listener's tasks. `ingest` asks for less, fairness of all tasks of the
  listener together and of all slots together: a task may be overtaken while others
  have something to do. The event loop and the worker's polling justify
  the first two (`worker.py:28-35`), the cron schedule `* * * * *` of
  `recover_pending_work` the third. A silent worker resumes unless it dies. Nothing
  obliges a message to arrive, a process to die or a call to fail, and enqueue calls may
  be lost every time: the recovery alone must suffice. The runner is assumed to return.
- `investigation`: the run is one coroutine and each provider call has a timeout, so it
  proceeds. The replica need not move.
- `deployment`: the timer starts the script and the script goes on; processes boot, beat
  and stop; a job ends. Nobody must publish, fetch or fail. The 240 seconds of the drain
  are longer than the 60 after which a dead worker's jobs are no longer counted, and
  processes have booted when the timer's next run asks for `/ready`. `MachineSettles`
  needs the pilot profile: under `foundation`, readiness does not look at heartbeats, so
  a script that died halfway is not repaired.
- `memory` has no liveness. An exchange ends within `Latency`, and the margin covers two.
  That is an assumption about the network: the client's timeout (`memory_client.py:291`) is
  httpx's and counts for each phase of a request (connection, write, each read), so a
  server that trickles its answer is given longer. `ServedBriefIsRecent` and
  `NoTokenExpiresInFlight` are as good as this assumption; `OnlyAnOverlappingFetchHidesANote`
  needs it only for the number in it, `RefusedTokenIsNotOffered` not at all.

## 4. Proofs

All theorems are checked by TLAPS for every value of the constants under the named
assumptions: every number of messages, threads, slots, coroutines, orders, replicas,
turns, images and failures.

| Module | Theorems |
| --- | --- |
| `RunLifecycleProofs` | `TypeCorrect`, `OutboxCorrect`, `Refinement`, `RunningRunsOwned`, `RunsSerialized`, `RecoveryIsPrecise` |
| `OutboxProofs` | `TypeCorrect`, `AttemptsPaid`, `RepetitionsPaid`, `StaleAnswersWithheld`, `TranscriptFollows`, `SettledStays`, `Refinement` |
| `WorkflowProofs` | `AtMostOneReply`, `OutcomesTold`, `OvertakenStays`, `NobodyWaitsInVain`, `InsertsHappen` |
| `SlackIngestProofs` | `TypeCorrect`, `SubmittedOnce`, `HandledBounded` |
| `EvidenceProofs` | `PrecedenceIsTotalOrder`, `CitingLessGainsNothing`, `ContradictionsNeverHelp` |
| `InvestigationProofs` | `TypeCorrect`, `BudgetKept`, `Grounding`, `Uniqueness`, `NobodyHidden`, `AuditKept` |
| `SharedMemoryProofs` | `TypeCorrect`, `BriefRecent`, `NoteVisible`, `TokenOutlivesRequest`, `RefusedTokenDropped` |
| `DeploymentProofs` | `TypeCorrect`, `JobsSurvive`, `ServicesReturn` |

Each module about a state machine states an inductive invariant `IInv`, one lemma per action
or group of actions, and derives its theorems; `EvidenceProofs` is about operators.

**`RunLifecycle`.** `OutputMatchesOutcome` and the contract's "at most once" are not
inductive: nothing in them says that a slot about to call the runner has not called it
before. The strengthening says that a slot between `Start` and `Commit` (*engaged*) works
on a run that left `queued` and never returns to it (`EngagedRunIsStarted`), that no two
slots are engaged with the same run (`EngagedAlone`: only a queued run is started, and
starting it ends that), and that the count of investigations follows the place of the
slot (`InvestigatedInOrder`). `OutputMatchesOutcome` then holds because every
transaction that inserts an output finds the run `running` and makes it terminal.
`InvariantStep` proves that each action preserves `IInv` and is a step of the contract
or a stutter.

Recovery finds a running run only through a job in progress. While no heartbeat of a living
worker has lapsed, `OwnInv` says that a busy slot's job is in progress and is its own
(`HeldJobsInProgress`), that a conversation has one such job (`OneJobPerConversation`, the
queue's lock), that jobs on a recovery's list are held by nobody and their numbers are
never given again (`StalledAreDead`, `JobIds`), and that a slot past its commit works on a
run that is no longer running, unless it escaped (`DetachedRunIsNotRunning`). An escape is
the one step that ends a job and leaves its run `running`; `RunningRunsOwned` and
`RunsSerialized` hold for any number of escapes, and name the runs they left
behind. `RecoveryIsPrecise` is unconditional about escapes, and assumes that no
living worker lapses and that recovery ticks do not overlap. `run_stuck` and
`run_overlap` show that both assumptions are needed.

**`Outbox`.** A slot is *doomed* once its worker is silent, its job is on the recovery's
list or the job is released. It takes a lapse to doom a slot (`DoomIsPaid`). Apart from
doomed slots an output has one delivery in progress, so each attempt beyond the maximum
and each post beyond the first is charged either to a doomed slot, and so to a lapse, or
to the crash or fault that ended an attempt before it was recorded (`AttemptsArePaid`,
`PostsArePaid`). `Undisturbed` describes the state while no heartbeat has lapsed: whoever
counted an attempt finds the output as it was.

`Refinement` maps each step of slots, queue and recovery to a step of `DeliveryContract` or
to a stutter. It needs that a post is preceded by its own counted attempt and that the
timestamp a slot is about to record was returned by Slack for this very output
(`AnswersAreAccepted`), that only outputs with a row have jobs (`JobsHaveRows`), and
`Undisturbed` for the steps of a slot while nobody is late.

**`Workflow`.** What neither contract says alone: a row of `status` exists exactly for the
outputs in `outputs` (`RowsAgree`), and an output tells the outcome of its run
(`OutputTellsOutcome`). A run ends once, so a message has one kind of output; what Slack
shows was attempted, and what was attempted has a row (`Shown`). `NobodyWaitsInVain` follows
what may end a run or an output without a reply (`EndedForCause`, `GivenUpForCause`), where
an excuse once given stays, since threads only grow (`ThreadsGrow`, `ThreadsKept`).
`InsertsHappen` says that the contract of delivery never holds up that of runs. That each
step of the composition is a step or a stutter of both contracts is how `Next` is written,
and no theorem.

**`SlackIngest`.** An event can be processed while its row is open, its listener may
still write the late mark, or a handler may still write `FAILED`. `HandlingIsPaid` adds
these up: each transaction uses one, and only a raised transaction gives one back.

**`Investigation`.** What is proved says more than the runs: the citations are arbitrary
sets of signals, and so are the replicas. `Resulting` says that until the end there is no
result, and that the end has one that the ledger supports; `FoundIsKept` that a search
which showed somebody is not forgotten; `ConclusiveIsBacked` that behind the conclusion is a
search for a precise clue that met no row. `searched` keeps, for each search, what met its
conditions and what it showed at its moment: the replica may be any other one by the
time the run ends, and nothing is said of it then. Nor is it proved that a search finds
what the classification would accept: between texts in SQL and texts in Python the code
gives no such promise. `Uniqueness` rests on precedence being a total
order on the ranks: lexicographic, eight places, all of them integers. That no citation
makes a customer look better than everything seen of them does (`Grounding`) rests on
`CitingLessGainsNothing`.

**`SharedMemory`.** A brief was written during the exchange that fetched it (`Dated`), a
load waits for at most two exchanges (`Loading`), the client's idea of a token's life is
late by at most one exchange (`Known`), and only answers given before the last note was
stored are behind it (`Answered`). Assumed: `2 * Latency <= Margin`, `2 * Latency <
Lifetime`, `0 < Ttl <= MaxStale`. What is proved of tokens is about minted ones.

**`Deployment`.** `CountedAreBusy` says that a counted job is one a reporting worker is
running, and that the script stops the workers only after it has counted none.
`StoppedSoFar` says at each label which services the script has stopped and which are
down: by the time the trap is set the ingress is, so that whatever ends the script from
there on starts it again; the workers are so only after their stop has succeeded.

Only model-checked: the liveness properties (`EveryRunEnds`, `EveryOutputIsSubmitted`,
`EveryOutputSettles`, `EveryEventSettles`, `EveryMentionRuns`, `EveryInvestigationEnds`,
`MachineSettles`): liveness under fairness is out of the prover's reach. Every safety
property of a passing run is a theorem. `Workflow` has theorems and no run: its state is that
of the two contracts, which `run_crash`, `run_zombie` and `outbox` compare with the detailed
modules. Its invariant was first explored with TLC over two messages of a thread, both
modes, one attempt and one failure (40,275 states).

## 5. Needs of single properties

`SettledIsFinal` and `TranscriptMirrorsSent` hold while no heartbeat of a living worker
has lapsed, and say so; `ImplementsDelivery` says with `late` what is left afterwards. With a lapse two slots deliver the
same output; `RecordFailure` does not look at the status again, so a late rejection can
turn a sent output into a failed one, whose reply stays in the transcript.
`AttemptsAreBounded` allows one attempt beyond the maximum per failure: the maximum is
compared only after a rejected post. `SupersededIsNotPosted` allows the attempts counted
before the newer message was stored.

`RunningRunIsOwned` and `OneRunningPerConversation` hold while no living worker has lapsed and
for runs that nothing escaped from (`Escape`). An escape costs what they say: the run stays
`running` with no job in progress, recovery does not see it, and the conversation's
lock is free for the next one.

`EveryRunEnds` leaves out runs that are `Abandoned`: running, with no job in progress and
no slot at work, after an escape or after a death and a lapse together.
`run_stuck` is that second case. `EveryMentionRuns` leaves out mentions that the off mode
ignored and those that a raised transaction marked `failed`, which are not recovered.

An event may be handled twice although nothing fails: the listener writes `queued` over
`processed` (`service.py:58-62`) and recovery has the event processed again.
`RepetitionsAreBounded` gives the bound and `RepetitionsSubmitNothing` says why it is
harmless for runs and flavor replies.

`OnlyAnOverlappingFetchHidesANote` says how far a note can be hidden: a fetch under way when
the write returns caches the older brief afterwards, for one exchange and one `Ttl`.
`note_hidden` is the case itself (section 6).

`RefusedTokenIsNotOffered` and `NoTokenExpiresInFlight` are about minted tokens. A static one
(`memory_client.py:370-371`) is offered again after a 401, since `_bearer` returns it before it
looks at anything else, and the client does not know when it expires.

`NobodyWasFound` is about the searches of the run, each at its moment: none showed a
candidate, and one for a precise clue met no row, neither shown nor cut off.

`AuditIsComplete` relates the audit of the result to the tools that ran; calls are
appended with each tool, so what the runs test are the ends of an investigation.

`CountedJobsAreNotCancelled` is about jobs the last count had to see. A job fetched
between that count and SIGTERM is not among them: it has the 240 seconds of grace, and is
cancelled if it takes longer. The script accepts this, and no property forbids it.

`ServicesComeBack` has one exception. A stop of the workers that fails halfway (`:118`) lets the
trap start the services while a worker is still stopping; `compose start` finds its
container running and leaves it alone, and it goes down afterwards. A later run of the
timer finds `/ready` failing and repairs it, which is `MachineSettles`. A script that is
killed, or fails where no trap is set, starts nothing: what has a heartbeat is repaired in
the same way, but `caddy` has none, and stays down until a later run has another reason to
act (`left`).

## 6. Where code and documents disagree

- `run_stuck`: `docs/architecture.md:57`, "An interrupted running investigation becomes
  `failed/worker_interrupted`". A worker goes silent before its first transaction;
  recovery releases its job and leaves the queued run; the worker resumes, starts the
  run, and dies. No job in progress names the run any more, so it stays running. An escape
  (section 2) strands a run in the same way, without a lapse.
- `run_overlap`: `jobs/tasks.py:46`, "Queue locks make this safe to repeat." Two ticks
  hold the same stalled job of a queued run; the first releases it and another worker
  starts the run; the second fails it.
- `ingest_removed`: `docs/evaluations.md:72`, "removed reactions become inactive". A
  removal processed before its addition finds no row.
- `note_hidden`: `agent/shared_memory.py:48`, "Nothing waits five minutes for what Cerebro
  itself just learned: a successful write drops the entry." (likewise `:169-171`, and the
  test of `test_shared_memory.py:208-220`, which runs the three calls one after another).
  A brief is read by the platform before the note and arrives after `forget()`: it is
  cached, and the next run is served it.
- `update_lost`: `docs/operations.md:85`, "longer healthy investigations can therefore
  postpone an update". An aborted run of the script has already pulled the image; the next
  one sees no difference before and after its own pull and a ready machine, and exits. The
  update is not postponed but lost, until another image is published or it is forced.

Without a run of its own: `test_repository_contracts.py:107` has every source of new work
come back "on every abort path". That holds from the trap on (`ServicesReturn`); a stop of the
ingress that fails (`:82`) ends the script before the trap is set (`:90`), as does a kill, and
starts nothing (section 5).

## 7. Not modelled

- Image ingestion (`slack/images.py`): a sequence of checks on one download at a time
  under nested timeouts. Its state is a directory of its own run, removed in `finally`
  and swept at the start; no other coroutine sees it.
- Replica access: SQL text, the connection pool with its one retry, role checks and the
  reload of the catalog are I/O on an external database. What a query finds is modelled.
- SQL policy and reply rendering: pure functions over the trees of an external parser, and
  over text.
- What a language model answers (it may answer anything), prompts and usage figures.
- Configuration (its values are constants of the modules), operational reports and the
  watchdog (they count and log), evaluations, the web application, Terraform.
- Deployment: bootstrap, backup, and a forced deployment without changes.
- Graceful shutdown inside the queue library: a slot goes on, is cancelled (`Escape`) or
  dies. Slack's thinking status, which is best-effort.
- A follow-up that is processed before the mention that opens its thread is ignored, and
  an event whose insert raises after its acknowledgement is lost. Both are deliberate, and
  no document promises otherwise, so no property forbids them.

Liveness of runs is checked with one message: with two, the state graph is too large for
the time allowed. The wait of a second run for the first one's lock ends when the first
run's job does, which is what `EveryRunEnds` and `FinishJob` give.

## 8. Plan

1. Done: `RunLifecycle` with its contract, `Outbox` with its contract, their composition
   `Workflow`, `SlackIngest`, `Investigation` over `Evidence`, `SharedMemory`,
   `Deployment`; all safety properties proved.
2. Ingestion in `Workflow`: an `IngestContract` (an event is stored, applied, settled),
   implemented by `SlackIngest` and composed so that `StoreTrigger` is its step. The first
   theorem: at most one reply per Slack event, whatever is delivered twice.
3. A cache contract for `SharedMemory` that hides coroutines and exchanges.
4. `ImageIngestion` (timeouts, sweep) and the pool's bounded retry, if they come to share
   state with other coroutines.
