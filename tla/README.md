# Verification of AKA (Atrex Kernel Agent)

TLA+ specifications, TLC runs and TLAPS proofs for the controller that lives in
`src/src/aka`. AKA runs a *campaign*: a long loop of *Episodes* in which an agent
edits a GPU kernel in a scratch worktree, measures it on remote GPUs and hands in
a report; the controller judges the candidate, commits it to the incumbent branch
if it is better, counts the Episode and goes on, for days, across process deaths.

Paths below are relative to `src/src/aka` unless they start with `docs/`
(`src/docs/`).

## 1. Inventory

| Component | State it keeps | Operations | What is hard |
|---|---|---|---|
| **Episode lifecycle** `light/workflow/{episode,store,models}.py`, `light/workspace/{git,state,versions}.py`, `light/acceptance/{promotion_audit,audit_recovery}.py` | `state.json`, `active_episode.json`, the stall file, `promotions/*.json` audits, acknowledgement receipts, the incumbent Git branch and its checkout, the Episode worktree | plan, materialize, explore, assess, capture, audit, squash, screen, record, commit, count, save, remove, clear; recover; repair | a death between any two durable effects; failing Git commands; lost audits; somebody else's commits; a late report |
| **Recoverable Gateway job** `light/execution/gateway_jobs.py`, `run_direct_job` and `run_agate_with_cancel_retry` of `light/evaluation/gateway.py` | `state.json` of one job identity; the Gateway's jobs | submit, poll, replace after infrastructure or device failure, replace after a wait window, recover a saved checkpoint | lost answers, late requests, forgotten jobs, death after POST, deadlines, budgets across restarts |
| **Measurement records** `light/experiment/{store,records}.py`, `light/execution/process.py` | per task a lock, a marker and records, each with jobs per repetition; the active calls in memory; executor processes | reserve, refuse, reuse, resume, dispatch, collect, record, mark, close, abandon | concurrent callers, death while holding a lock, record and marker out of step, a series resumed half way, an executor that outlives its Supervisor |
| **ABBA checkpoints** `light/experiment/abba_checkpoints.py` | one file per batch of a series | save, resume, discard | death between batches, a changed series |
| **Plugin framework** `core/{fiber,registry,effects,scope,context,events,invariants}.py` | a tree of fibers, the services they provide, their effects, a queue of pending refreshes | mount, restart, dispose, provide, settle | provider changes during settling, failures and aborts half way through a load or a batch, teardown order |
| **Composition** `core/{composition,declaration,loader,lock,boot}.py` | profile files and a lock file | read, merge, pin, reconcile, boot | a boot that fails half way; the rest is a pure pipeline |
| **Pooled search** `light/workflow/{search,search_driver,search_git}.py` | `search/state.json` with the jobs of an Epoch, `epochs/`, `publications/`, a clone of the Campaign per trajectory | plan an Epoch, broadcast its seed, run jobs, select, publish, advance | write-ahead jobs, failing siblings, a death anywhere in a Git publication, commits by others |
| **Runtime server** `light/runtime/server.py`, `light/workflow/{journal_service,journal_projection}.py` | sessions and capabilities, request locks, the Episode journal | register, request, report, revoke, close | requests in flight at revocation, resubmitted reports |
| **Agent clock** `light/agent/execution_clock.py`, `light/agent/runtime/process.py` | pending requests, stopped or running process tree, active time | attach, request, poll, close, kill | overlapping requests, late completions after cancellation, signals that fail |
| **Coding session** `light/workflow/session.py` | the turns of one Episode, its resumes, recoveries and throttled turns | launch, resume, retry, judge, cancel | a time out, an output limit, throttling and a published handoff at once |
| **Infrastructure retry** `light/execution/retry.py` | a saved deadline | run, wait, give up | restart within a backoff |
| **Bootstrap** `light/workflow/{bootstrap,baseline_progress,sol_seed}.py` | the files of a new workspace | prepare step by step | resuming half-prepared workspaces |
| **Acceptance gates** `light/acceptance/*.py` | none | judge | arithmetic; no control |
| **Source workspaces, agent sessions, profiling, wiki, dashboard, legacy** | files of other programs | read, convert, show | I/O and data conversion |

How they interact. The *controller* (one thread) runs the Episode lifecycle. For
each Episode it starts an *agent process*, which calls the *runtime server*
(request threads of the controller process) over HTTP with a capability. A
measurement request takes the task's *measurement record* under a file lock, which
calls a *recoverable Gateway job*, which talks to the Gateway. The last request of
an agent is its *report*: the server seals a candidate commit, writes the handoff
and the journal. The controller revokes the capability, waits for requests in
flight, reads the handoff, runs the *acceptance gates* and *promotes*. Everything
the controller must remember is on disk, because the operator kills and restarts
it. The *plugin framework* builds all these objects at start and disposes of them
at the end.

What makes each component correct:

* Episode lifecycle: only verified improvements reach the incumbent branch; each
  commit is counted exactly once, whatever dies when; a rollback never drops a
  commit; every promotion has its audit; every Episode ends.
* Gateway job: the number of GPU jobs is bounded over the life of a checkpoint;
  none is left running without the checkpoint knowing it; a replacement is made
  only for the reason the code states; a saved verdict is never revised; every
  call returns.
* Measurement records: one measurement per task at a time; a completed record is
  reused, not repeated; a death loses at most the attempt in progress.
* Plugin framework: when settled, each active plugin runs against the providers
  that exist; no service outlives the load that made it; consumers stop before
  their providers.
* Pooled search: each job runs to one recorded result; a winner is the best of a
  complete Epoch, published once to everybody; a publication can be replayed from any
  death.
* Runtime server, agent clock and coding session: no effect after revocation; the
  agent is stopped exactly while a request is pending and charged exactly what it ran; a
  finished turn leaves no process and no token; a handoff that was published is read;
  each launch is charged to one allowance, and throttling to no resume.

## 2. Modules

| Module | Models | Kind |
|---|---|---|
| `EpisodeLedger` | what a campaign promises: a log of kernels that only improves, each entry counted some day | abstract specification |
| `EpisodeLifecycle` | the controller, its files and its Git repository, effect by effect | detailed specification |
| `MCEpisodeLifecycle` | kernels, latencies and policy for TLC | instance |
| `EpisodeLifecycleProofs` | theorems about the history of `EpisodeLifecycle` | proofs |
| `EpisodeAccountingProofs` | theorems about its bookkeeping, and the refinement of `EpisodeLedger` | proofs |
| `GatewayJobs` | `execute_job`, its checkpoint, both transports and the Gateway | specification, checked directly |
| `GatewayJobsProofs` | theorems about `GatewayJobs` | proofs |
| `MeasurementStore` | one measurement task: requests, lock, marker, records, executors | specification, checked directly |
| `MeasurementStoreProofs` | theorems about `MeasurementStore` | proofs |
| `SearchLedger` | what a pooled search promises: a tournament in Epochs that do not overlap | abstract specification |
| `PooledSearch` | the coordinator of Epochs, its pool and its Git publication | detailed specification |
| `MCPooledSearch` | kernels and latencies for TLC | instance |
| `PooledSearchProofs` | theorems about `PooledSearch`, and the refinement of `SearchLedger` | proofs |
| `PluginTree` | the plugin tree: loading, settling, restarting, disposing | specification |
| `MCPluginTree` | six compositions of three fibers for TLC | instance |
| `PluginTreeProofs` | theorems about the currency and ownership of `PluginTree` | proofs |
| `PluginDisposalProofs` | the theorems about its order of disposal and the rounds of a settle | proofs |
| `AgentSession` | one coding session: runner, launches, clock, Runtime and its request handlers | specification |
| `MCAgentSession` | allowances for TLC | instance |
| `AgentSessionProofs` | theorems about `AgentSession` | proofs |

### EpisodeLifecycle

`pc` is the statement the controller is about to execute; each action between two
values of `pc` is one durable effect, so `Crash` (enabled everywhere) stops the
process between any two of them. Durable variables: `history`, `staged` and
`record` (the incumbent branch, its index and the version record file), `audits`,
`receipts`, `active` (`active_episode.json`), `saved` (`state.json`), `stall`,
`worktree`, `report`, `handoff`. Volatile: `pc`, `st`, `verdict`, `request`;
a crash forgets them. `Exploration` is the main loop of `LongHorizonCampaign.run`
up to the verdict, `Recording` is `_record_terminal_episode` with
`promote_candidate` and `record_episode_outcome`, `Recovery` is
`_recover_interrupted`, `World` is what happens to the controller: its death, lost
audits, an operator's repair, commits by others. The agent's report is a small
process of its own (`SealCandidate`, `SubmitPlain`, `SaveReport`, `PublishReport`,
`ResubmitReport`), because it runs on a request thread while the controller waits.

Abstractions. A kernel is a model value with a latency and a policy bit; the
verdict is a function of candidate and base (measured results are recorded and
reused). What `_completion_check` makes of a published handoff, at the end of a session
(`EndSession`) and in recovery (`RecoverHandoff` or `ResumeExploring`), is a choice: it
looks at the worktree and the journal, which are data here. Commits are named by position, branches by Episode. An absent audit is
`None`, a damaged one is evidence that binds nothing. The stop conditions by token
budget, utilisation and version limit, the conversion to Gluon and goal mode
are left out. A crash in the middle of the in-place write of the stall file leaves
it empty. Others commit only while a session runs or the controller is down.

### GatewayJobs

One identity: its checkpoint `disk`; the call in progress (`pc`, `mem`, `waits`,
`probe`, `expired`, `reply`); the Gateway's `jobs` and the requests `late` on the
wire, numbered so that two of one key are told apart. `Call` is the entry of
`execute_job` with its two kinds of checkpoint,
`Submission` and `Collection` are the halves of its loop, `Environment` is the
Gateway, the network, the clock and process death. `Idempotent` chooses the
transport: direct HTTP with a wire key the Gateway deduplicates, or the Agate CLI
without one.

Abstractions. A wire key is its derivation (what was hashed, not the digest). Time
is one bit, `expired`; a call enters its loop with the whole window, so the bit
cannot rise in the instructions at the top of the loop. Verdicts against the
candidate and cancellations are both `final`, and a permanent error may answer any poll
(`CollectFails`). The submission counter only names evidence files, `max_retries` is None
in both callers, and a checkpoint is never saved as "submitting" together with a
rejection, so those parts are left out. Calls
for one identity do not overlap: its checkpoint lies in the record of a task, and
`MeasurementStore` shows that a task has one executor (`OneExecutor`), unless a
Supervisor was killed alone and left its executor behind.

### MeasurementStore

One task (the digest of a request). `lock`, `marker`, `verdict` (of each
`record.json`) and `jobs` (of each record and repetition) are files; the lock goes
with its process. `active` is the entry that `check_running` reads. `executors` are
the processes `run_gateway` starts, each in a session of its own with the
checkpoint it loaded as memory. `pc` and `at`, `repetition`, `cacheable`, `pending`
are a request inside `execute`. `Reservation` is the entry of `reserve`,
`Measurement` the loop of `execute` with `finish`, `Execution` the executor: what
`GatewayJobs` models in detail is here one evidence per repetition. `Abandon` is
every exception on the way; `Crash` takes the executors along, `Killed` does not.

Abstractions. Evidence is what `cacheable_job` and the phases in `state.json` make
of a repetition's jobs together; after a rejection no repetition follows. The marker and the
active entry of a new request are written in one step (`MarkRunning`): whoever reads the
marker holds the lock, and a death in between leaves what a death after both leaves. An answer
without a result (`unread`) is one of an executor that failed itself or whose
output was truncated. A record that is complete and still not to be reused (custom
launcher values, a sealed response that is no evaluation) is a choice in
`WriteRecord`. Left out: damaged records and markers, the deadline text in the lock
file (advice to callers), the reuse of correctness evidence across tasks, and the
batch checkpoints that let a new record skip finished Shapes.

### PooledSearch

`saved` is the coordinator's checkpoint (phase, Epoch, seed, winner, the jobs with
their status and result, stalls). Of each *controller workspace*, the Campaign's (0)
and the trajectories', there are the commits of its branch, the state of its tracked
files (`head`, `mixed`, `next` to a pending publication) and of its index, the plan
that pins the version and the sealed receipt. `pc` and `target` are the coordinator,
which writes one file at a time; `threads` are the futures under way with the place
in `run_episode` of each. `Coordination` is `_run` with `_run_jobs`,
`Publication` is `_publish` with `commit_files`, `Run` is a thread. `Crash`
forgets `pc` and `threads`; `Interrupt` lets the pool drain with no one to collect.

Abstractions. An Episode, the subject of `EpisodeLifecycle`, opens, ends (archived,
committed and counted in one step) and closes, and costs no token or one. Jobs are
dispatched in any order where the code takes the first that may go. The commit of a
receipt is a record of kernel and version; the checks of its bytes, the references
that keep foreign kernels reachable and the frozen configuration are left out, as is
the stop at a target utilization. Others commit, with a clean tree, in the Campaign's
workspace only, while Episodes run or the coordinator is stopped.

`ImplementsLedger` maps the archives to the outcomes of `SearchLedger` and the broadcast
commits of a workspace to what it was given. Of all the steps of the coordinator, its
threads and the faults, just two kinds are seen there: an Episode ends, and a ref moves to
a broadcast. The ledger lets an Episode end only when every trajectory has the seed, once,
and in order; and it lets the Campaign have a winner only when all Episodes of its Epoch
have ended, none of the next before. A replay that publishes a second time would
add the same pair again and is not seen: that is `PublishedOnce`.

### PluginTree

`tree` is one value: the state, epoch and restart request of each fiber, who owns each
registration (`owner`), which of them an effect will undo (`held`), the pending
refreshes (`queue`, and the `batch` that a round of `settle` is working through) and the
order of activation (`after`). The helpers are operators from tree to tree, as the
methods of `Fiber` and `Realm` are from object to object: `Withdraw` is the disposer of a
registration with `_service_changed`, `Discard` all the disposers of a load, `Unload`,
`Provide`, `Mount`, `Activate` what their names say. A refresh is one step
(`RefreshOnly`, `RefreshLoads`, `RefreshFails`, `RefreshAborts`, the ways `apply()` and
the disposers may end, or `RefreshGone` of a fiber disposed of since); so is a round
(`NextRound`), the end of a settle (`Settled`, `Diverge`) and the disposal of one fiber
(`DisposeNext`). Between refreshes the host or another plugin may restart a fiber, withdraw
or publish a service, unmount a child (`HostStep`). `phase` is where the call of the host
is: boot, up, disposal, closed.

A child that is unmounted within a settle, or whose services nobody uses, is gone in one
step. Otherwise (`Unmount`, second case) it is in `unmounting` until `dispose` returns, and
each service it withdraws (`UnmountNext`) is a settle of its own. In such a settle fibers
load with what the child has yet to withdraw, and the child itself may be refreshed; what
it publishes then is undone like the rest, except that an effect filed while its stack is
being unwound runs at once, so that a load inside the settle fails (`Doomed`). `unwinding`
holds the child until its own refresh, if any, has emptied the stack that was being
unwound. `ContributionsEndWithLoad` excepts its services just so long, and says that this
ends with the call: once `UnmountEnd` has forgotten the child no service may be its.

Abstractions. The code is one thread, so nothing happens inside a refresh; the
composition is fixed and says what each fiber injects, may inject and provides. The
serials in an epoch are named by what became of the registration, `live` or `gone`, which
is all that the comparison of two epochs tells apart. An exception is ordinary (the
fiber fails) or an abort, a `BaseException` or `EnvironmentUnavailable`, that leaves
`settle` and `boot`. A disposer that raises does not stop the others (effects.py), so
`Discard` is complete even then. The services of a child are withdrawn in any order,
where the code takes the last filed first. `orphans` and `aborted` are history:
registrations whose effect could not be filed in time and fibers whose own refresh was
cut short. Left out: events, configuration, isolation realms, reconciliation of the
composition.

### AgentSession

`phase` is where the runner's thread is, from `top` (the loop of `_run`) through
`granting` (session is registered), `spawning`, `attaching`, `running`, `drained` (the
pipes are closed), `leaving` (the clock is closed, the budget charged), `revoked` (before
the draft is published) to `judging`. `handler` is where each request's thread is, with
the locks it holds: `queued` on the capability, `slot_wait`, `executing`, `journal_wait`
and `writing`, `publishing` under the Journal's lock. `control` is the turn's
`SessionControl`, its readings counted from the present: `since` is the time since the
start less all pauses ended, `paused` that of the pause under way. `runner` holds the
locals of `_run`. The Agent itself is `tree` (running, stopped by a signal, dead) and may
send requests, exit or be killed at any time.

Abstractions. Requests are of two kinds, reports and Gateway executions, as they differ
in the locks they take; the other operations of the Journal hold the same lock for less,
and wiki requests take none. What `completion_check` makes of a handoff is a choice, as is
the kind of a turn's failure. Tokens are one bit, `broke`: the account is exhausted, or
not. `pause_agent_during_requests` is on, its default, and a request is denied once the
Runtime drops its capability. Time is ticks; the supervisor polls every 50 ms, so no tick
passes a limit. The turns a provider throttles are bounded by `Allowances`: in the code
they are not, by design. A throttled turn that reached its time limit too is judged by the
limit (session.py:244, 278), as in the code: it takes a resume, or is returned as the
Episode's outcome, and nothing here says that throttling never is one. A Provider without
resumption is a runner that never finds one possible (`Continue`).

## 3. Runs

States are TLC's distinct states.

| Run | Bounds | States | Shows |
|---|---|---|---|
| `episode_safety` | 3 Episodes, 2 deaths or failing Git commands, 1 lost or damaged audit, 1 commit by somebody else | 4 095 341 | only verified improvements are committed; each attempt is counted once, under a version of its own, with its audit or an acknowledgement; nobody's commit is dropped or promoted over |
| `episode_live` | 2 Episodes, 1 death, stall limit 1, fairness | 11 911 | the campaign stops; the lifecycle implements `EpisodeLedger` |
| `episode_stall_exact` | 1 Episode, 1 death | violation | finding 1 |
| `episode_stale_base` | 1 Episode, 1 foreign commit, fairness | violation | finding 2 |
| `gateway_direct` | direct HTTP, 2 calls, 1 death, 1 late request, every budget 1 | 4 362 806 | jobs bounded and accounted for; verdicts final |
| `gateway_cli` | no wire key, 2 calls, 1 death, 1 forgotten job, every budget 1, fairness | 195 078 | the bound holds without deduplication; every call returns |
| `measurement` | 2 callers, 3 requests, 2 repetitions, 1 lost answer, 2 deaths of the Supervisor, fairness | 237 385 | one executor, no open job left behind, verdicts rest on evidence and are final, every request ends |
| `measurement_unread` | the same without deaths | violation | finding 3 |
| `pooled_search` | 2 Epochs, 2 trajectories, 1 step, 3 kernels, 2 accepted Episodes, 2 tokens, stall limit 2, 1 death, 1 exception or interrupt, 1 commit by somebody else, fairness | 1 397 596 | the winner is the best of a complete Epoch, published once; every Episode starts from what was broadcast; stalls are exact; the search ends, and implements `SearchLedger` |
| `plugin_tree` | 6 compositions of 2 rows, a child and 2 services, 9 rounds, 1 exception, 1 abort, 2 calls by the host, fairness | 110 674 | a settled tree is current, nothing outlives its load but a child's services while the host disposes of it, disposal goes consumers first and leaves nothing, only fights diverge, every call ends |
| `plugin_leak` | the same composition with an abort | violation | finding 4 |
| `agent_session` | 2 requests (a report, an execution), 1 slot, one resume with one throttled turn or one recovery, 2 ticks of active time, 1 of each launch and pause, fairness | 788 472 | the clock is exact, the Agent frozen just while it is served, no write behind a publication, a turn ends clean, handoffs are read, launches paid for once, the session ends |

Why the bounds are enough. The durable state of an Episode is cleared at its end
except for the history and the counters; three Episodes allow a promotion, its
successor and the one that recovery confuses with either, and two deaths allow one
in the ordinary run and one inside the recovery from it. A Gateway checkpoint
remembers one job and one key; two calls with budgets of one reach every pair of
consecutive replacements (each kind after each kind), and the death falls into any of
them; the second call is the recovery from it. Three requests of a task are the one that
fails, the one that resumes it and the one that finds the result; two callers are
enough for one to be refused, two repetitions for one to be complete while the
other is not, and two deaths for one in the resumed request. Two Epochs make the
winner of one the seed of the next and publish to every workspace twice; two
trajectories let one job fail or be interrupted while its sibling runs or has ended;
two tokens may be used up between the Epochs, or when one job of the second Epoch has
ended and the other has not begun; a
stall limit of two is reached at the end only.
With one step per trajectory, the order of jobs within a trajectory is exercised
across Epochs and not within one. Three fibers and two services make a chain through two
consumers, a fight of two rows, a service that two fibers provide, a child that provides what a row
uses, one that provides two such services (so that one is left while the other is
withdrawn) and one that fights a row, the six `MCCompositions`; with two calls of the host one withdraws what
the other published, and the abort falls into any refresh of the boot, of the settle, or
of the settle a call started. Nine rounds are a round for each of the three fibers and
each of the three changes (the boot and two calls): with fewer, a chain mounted consumers
first would diverge without a fight. Two requests overlap in every way and wait for each
other's slot and locks; two ticks of active time with launches of one make a second launch
start with what the first left and a third find nothing; a pause of one tick tells an
accounted pause from one counted twice.

The type invariants of the modules with proofs are proved for every instance, and repeated
by a run only where the run needs them to stay within its types (`plugin_tree`,
`pooled_search`).

Fairness. The controller is sequential code that never waits for an event without
a timeout, and an operator restarts it: weak fairness of its step. A request thread
runs to its end: weak fairness of the two halves of a report. `EndSession` is
strongly fair: the Episode timeout closes the session, which revokes the capability
before it waits for a request in flight, so new requests cannot hold it up. For a
Gateway call: weak fairness of the process, strong fairness of `Expire`, because
every backoff sleeps at least five seconds of the window. A request that holds a
reservation goes on (weak fairness of `Progress`): `run_gateway` polls its executor
and kills it at the deadline, so `Collect` needs no help from the executor. The pooled
coordinator and each of its threads are sequential code that ends (weak fairness of
`Coordination` and of each `RunJob`), where starting the search again is the
operator's part of `Coordination`. `settle` and `Root.dispose` are loops of the calling
thread in which nothing waits, and so is the unwinding of a child's effects (weak fairness
of `SettleStep`, `DisposeStep` and `ChildStep`); `CallsEnd` excepts the disposal of a child
whose settles run out of rounds again and again, which the code does not end; the host
need not call anything. In a session each handler, the runner, the clock and the closing
of the Runtime go on (weak fairness of each): handlers wait with a deadline
(`GiveUp`), the runner polls. Nothing is assumed of the
agent, its executors or the Gateway. `CHECK_DEADLOCK FALSE` appears where the campaign has
stopped or the calls of the bound are used up, where the system really rests.

### Findings

1. `episode_stall_exact`: `light/workspace/state.py:146` promises that a restart
   resumes the exact stall value. After a death between the outcome commit and
   `save_state`, the restored value already counts the Episode and recovery adds it
   again: the campaign may stop early.
2. `episode_stale_base`: the comment at `light/workflow/episode.py:1560` says an
   Episode with a stale base is superseded. Recovery asks for a committed version
   record first, which this Episode never wrote, and raises at every start.
3. `measurement_unread`: `docs/measurement-records.md:80` promises
   that an accepted job is polled again. `execute` computes `pending` from the
   repetitions it went through; when a resumed record stops at an early repetition
   whose executor gave no answer, the record is closed over the job still running in
   a later one. It takes a lost answer: `NothingAbandoned` holds without.
4. `plugin_leak`: `core/fiber.py:343` and `core/effects.py:4` say a service is owned by
   the load that published it and every contribution is filed as an effect. `provide`
   notifies the users before it files the effect; outside a settle the notification is a
   settle, and if that raises (an abort in a consumer) the registration stays in the
   Realm when its fiber unloads, and nobody can publish the service again.

Read in the code and not stated as a property:

* `docs/measurement-records.md:80` also says failures of collection do not authorise a
  duplicate submission, where `retry_wait` of `light/execution/gateway_jobs.py` submits
  one, as its docstring describes; `docs/design.md:206` asks for reconciliation of an
  uncertain CLI submission, where the next call resubmits it once. `JobsBounded` counts
  these jobs.
* `core/fiber.py:580` says a consumer's disposers still see the services it loaded with.
  After a settle that was aborted, a consumer may wait in the queue with an epoch that no
  longer holds when the disposal begins; `ConsumersStopFirst` is stated for a tree that
  was settled (`orderly`).
* The comment at `core/fiber.py:192` rules out a fiber left in LOADING; a load that fails
  and whose disposer aborts leaves one there. It is not queued, so only a new restart or a
  change of its services brings it back: the reason for `aborted` in `SettledIsCurrent`.
* The files of an interrupted outcome (a staged version record) make the next accepted
  promotion fail once and then heal; an Episode promoted before a foreign commit on top is
  recorded as interrupted.
* `core/fiber.py:480` says a plugin never observes a half-loaded neighbour, of what is
  disposed of inside an `apply`. When the host disposes of a child of an idle tree, a
  consumer does observe one: the notification of the first service withdrawn settles the
  tree, and the consumer loads with the second while the child is UNLOADING. If the child
  fights a consumer the call may not return: each settle runs out of rounds, the exception
  is collected, and the child has published its service again before the next disposer.

## 4. Proofs

TLAPS proves the following for every number of Episodes, calls, deaths, requests,
fibers, services and budgets, from the assumptions named in the modules
(`EpisodeAssumption` and its siblings, `GatewayAssumption`, `MeasurementAssumption`,
`SearchAssumption`, `SessionAssumption`, `TreeAssumption`).

* `EpisodeLifecycleProofs`: `TypeCorrect`, `HistoryIsVerified`, `IncumbentImproves`,
  `HistoryOnlyGrows`. `TypeOK` is not inductive: what a step writes into a commit comes
  from `verdict`, `report` and `active`, which are absent at some program points.
  `TypeInv` adds `UnderWay` (where an Episode is active), `Reported` (what a handoff
  implies) and `Staging` (what is in the index between squash and commit).
  `HistoryInv` adds to it that the verdict in hand was reached against the base, that the
  audit about to be written binds it, and that the base is a commit of the branch, so that
  the `git reset --hard` of a failed promotion cannot go below it.
* `EpisodeAccountingProofs`: `CheckoutIsClean`, `AuditsAreWritten`, `CountingNeedsAudit`,
  `EpisodesCountOnce` and `LedgerIsImplemented`, on four invariants, each holding the one
  before. `CheckoutInv` is `HistoryInv` with where a checkout may be staged and whose
  squash and version record it then is. `AccountInv` adds how `active`, `st` and
  `saved` are related at each program point and that the audit of the Episode under way
  is written before anything is promoted on it. `TallyInv` adds what the verdict in hand
  says and `Tallied`: the counters are the recorded outcomes, so that recovery,
  whatever it finds on disk, counts an Episode just if it was not. For a campaign in
  whose repository nobody else commits (`AloneInv`), `BookInv` adds that every commit is an
  Episode's own, that versions rise along the history, and `Booked`: every attempt
  that is counted is the commit of its Episode, with its version and its status. The refinement follows step by
  step: a commit is a `Promote` or `Decline` of the ledger, `Persist` and `SaveRecovered`
  are its `Count`, and every other step stutters. It assumes `MaxForeign = 0`, because
  the ledger has no action for the commits of others; the other theorems hold for any
  `MaxForeign` (`ExactlyOnce` itself speaks of the states before the first such commit).
* `GatewayJobsProofs`: `TypeCorrect`, `ReplacementsAreJustified`, `VerdictIsFinal`,
  `NoJobIsLost`, `JobsStayBounded`. The invariant `IInv` is `TypeOK`, `Tracked` (what the checkpoint and the memory of the
  call claim of a job is what the Gateway knows), `KeysKnown` (every wire key, in use,
  saved or on the wire, names a job that ended as the key says) and `TerminalHeld` (a
  call that found a verdict is on its way out).
  `NoJobIsLost` needs `Held`: what the call holds is what the checkpoint says, but for a
  key not announced yet; and `Wire`: a key finds one job, and a request still under way
  carries a key that has its job, is the checkpoint's, or gave way to one of a later wait
  window (`Supersedes`). It is stated for `Idempotent`, as the run checks it: without a
  wire key a job whose answer was lost cannot be found again.
  `JobsStayBounded` holds for both transports by a charge: each step that makes a new
  request possible spends a unit of a budget (`Charge`), and what was spent never exceeds
  the budgets (`Charged`). With a wire key, every job has a key in `Seen`, and each new key
  is charged for; without one, `Unused` is what was charged for and is not a request yet.
* `MeasurementStoreProofs`: `TypeCorrect`, `RunningSeen`, `ExecutorsExclusive`,
  `PublishedForGood`, `VerdictsRestOnEvidence`, `JobsAreFollowed`. `MeasurementInv` is the type invariant with `Named` (a marker with
  a status and a request at work name a record), `Held` (the lock is that of the one
  request under way), `Announced` (the marker names the published record; nobody who
  is about to dispatch or record works beside one; the marker names what a request
  works on) and `Alone` (the executor of a living Supervisor is waited for, and there
  is no other). `ReservationKinds` reduces every step to five kinds of change of the
  lock and the places, which is all that `Held` depends on. The last two theorems rest on `EvidenceInv`: an executor works for the repetition of its
  request, from the checkpoint on disk (`Bound`); repetitions are measured in order
  (`InOrder`); what a request is about to write was concluded from the jobs on disk
  (`Conclusive`, `Judged`); the marker says running until it is written (`Statuses`); a job that
  may still run belongs to a record that will be resumed (`Followed`). All of it is claimed
  until a Supervisor dies over its executor (`orphaned`), `Followed` also until an answer
  is lost (`unread`, finding 3), as the two properties are.

* `PooledSearchProofs`: `TypeCorrect`, `BestReachesCampaign`, `PublishesOnce`,
  `EpisodesStartFromBroadcast`, `StallsAreExact`, `SearchImplementsLedger`. `SearchInv` is the
  type invariant with `Stages` and `Pinned` (what the checkpoint and the plan of the
  publication under way say at each statement), `Begun` and `Running` (which jobs may run
  in which Epoch, and which threads there are for them), `Chain` (the seed of an Epoch is
  the winner of the one before), `Results` (a completed job has what its archive says),
  `Winners` (what is published is the best of its complete Epoch), `Sealing` (receipts are
  of what was planned), `Progressing` (the workspaces behind `target` have the broadcast),
  `Awarded` (the Campaign was given the winner of each Epoch that is over, and promised
  nothing of one that is not) and `StallsExact`. The receipt is what makes a
  replayed publication harmless: the commit that an Epoch broadcast is the one after the
  base in its receipt, whoever committed since, so a restart finds it instead of committing
  again. The refinement needs no more: the end of an Episode is `EndEpisode` of the ledger
  (`EndsInLedger`, with `FoundInLedger` for the numbering), a moved ref is `BroadcastSeed`
  or `Decide` (`GivesInLedger`, with `NotGiven`: a target on its base has no broadcast
  of the Epoch), and `GivenStep` shows that nothing else is seen. It has no assumption
  beyond `SearchAssumption`: commits of others are not of the ledger.

* `AgentSessionProofs`: `TypeCorrect`, `ClockIsExact`, `FrozenExactly`,
  `WritesPrecedePublication`, `SessionsEndClean`, `ReportsAreSeen`, `LaunchesPaidOnce`,
  `ClosedIsNeverResumed`, which is all the safety the run checks. The invariant is
  `TypeOK` with `Stages` (which turn is published and whose token is live at each stage:
  a request is of a turn already granted), `Writers` (a request under the Journal's lock is
  of a turn not yet published, since `Publish` takes that lock), `Frozen` (stopped exactly
  while one of the turn's requests is pending), `Trees` (what is left of the tree at each
  stage; a Runtime that closes kills what is attached later too, because the control it
  closed is refused), `Clock` (the reading is the ticks the Agent ran; until it is charged
  it is not in `used`), `Outcome` (what the runner has seen at the top of its loop) and
  `Paid` (only there, or when the run is over, is a launch owed).

* `PluginTreeProofs`: `TypeCorrect`, `SettledStaysCurrent`, `ContributionsEnd`,
  `DisposalIsComplete`. A refresh composes half a dozen operators on the tree, so the
  invariant is a predicate on any tree, `Good`: a mounted child has an active parent
  (`Kids`), only mounted fibers are queued (`Queued`), a registration is held by an active
  fiber (`OwnedUp`), a fiber has an epoch exactly when it is active (`Consistent`), and one
  whose epoch is not that of the registrations is queued (`Fresh`). A child the host disposes of may hold services without being active, and
  is exempt from `Consistent` (`Unmounts`: whoever is unwinding is being unmounted, is no row,
  and only while the tree is up). Each operator has a
  lemma that it keeps `Good` for all fibers but the one under refresh, which is exempt until
  `CloseGood`: in between it is off the queue and out of date. The heart is
  `WithdrawEpoch` and `LoadGood`: whoever a change of the registrations makes outdated is a
  user of them, and users are queued. `Control` adds what is under way in each phase.

* `PluginDisposalProofs`: `ConsumersAreStoppedFirst`, `DivergenceNeedsAFight`. The invariant
  of the first is again a predicate
  on any tree, `Ordered`: an active fiber has a place in the order of activation and a
  child's is behind its parent's (`Placed`), a live registration has an owner that
  declares the service (`Registrations`), and an active fiber stands behind the active
  owner of whatever it loaded with (`Behind`). Each operator keeps it with the fiber under
  refresh exempt. The heart is `NobodyBehind`: disposal takes the last of the order, so
  no user of what it owns is left. `Standing` adds that from the beginning of an orderly
  disposal on there are no orphans and every active epoch is current, which is what
  `orderly` in the property is for.

  `DivergenceNeedsAFight` proves `DivergenceIsAFight` from one hypothesis, `SettleRounds >=
  Fibers * (MaxChanges + 1)`: a round for every fiber, for the boot and again for each call
  by the host that lands in the same settle. Without a fight nothing has to be ranked. The
  invariant `RoundsPaid` says that there is a set of fibers the settle is done with
  (`Quiet`: not queued, and all they depend on is in the set and refreshed in this round)
  with at least as many members as rounds taken, less `Fibers` for each call. A refresh
  wakes only what depends on the fiber or its children (`RefreshWakes`, from what `Discard`,
  `Provide` and `Mount` queue and from `Registrations`), so it wakes none of them
  (`QuietKept`); a new round adds one, since among the rest some fiber depends on none of
  the rest (`QuietGrows`); a call by the host may wake all, and pays, for the settles that the disposal of a
  child starts too. While a fiber is
  queued the set is not all of them, so the rounds cannot be used up. `settle()` says that
  exhausting its budget "means two rows are fighting" (`core/fiber.py:482`): with the default
  of 64 rounds that is so up to 64 fibers, if no plugin changes the tree while it settles.
  The hypothesis cannot be dropped: a chain of consumers listed before their providers
  takes a round for each.

Two of the theorems made the models easier to reason about: the commits of the campaign are
`Tail(history)` and need no filter, and requests on the wire are numbered, so that a set of
them can be counted without a bag.

Every safety invariant and action property of the passing runs is stated by a theorem. Only
model-checked is everything temporal: `CampaignStops`, `InvocationsEnd`, `CallsEnd` of both
modules, `SearchEnds`, `SessionEnds`, and the fairness part of `EpisodeLifecycle`'s
`ImplementsLedger`, whose safety part is `LedgerIsImplemented`. Liveness under fairness and
`ENABLED` are beyond the prover.

The properties of the four runs that find a violation are false and have no theorem.

## 5. Plan

1. `RetryInfrastructure`: a backoff whose deadline survives a restart.
2. ABBA checkpoints: `MeasurementStore` with batches that outlive a record, as
   `light/experiment/abba_checkpoints.py` keeps them for `run_batch`.
3. An abstract specification of a measurement (asked, at most one verdict, answered)
   that `MeasurementStore` implements.
4. Theorems: the stall counter exact in a campaign that does not die (finding 1 is the only
   way it is not); the refinement of item 3.
5. Reconciliation of a composition with its lock (`core/lock.py`) as an algorithm checked
   over small inputs.

## 6. Not modelled

See the table of components in section 1 and their notes in `PROJECT.json`. Most of the
repository by lines is data conversion (profilers, transcripts, results, wiki records),
judging of numbers and source text, construction of requests and command lines, reading of
profiles, the dashboard, and the legacy workflow that `light/` supersedes, with skills and
scripts for other machines: their control is sequential, their state is their files, and
what could go wrong in them is in the data that a state machine leaves out. The control
that is left, Bootstrap and Infrastructure retry, is one thread that prepares or waits.
