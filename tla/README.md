# Verification of the factory

TLA+ models of this repository's run control service (`factory/control/`) and
of its file backlog (`factory/backlog/`), TLC configurations that check them on
small instances, and TLAPS proofs of the properties that matter most. The
reference is the code; where a document or a comment disagrees with it, the
model follows the code and the disagreement is listed in section 5.

1. [The system](#1-the-system): parts, state, operations, hard behaviours
2. [The models](#2-the-models): which module stands for which code
3. [The properties](#3-the-properties)
4. [The runs](#4-the-runs): what TLC checks, bounds, fairness
5. [Findings and disagreements](#5-findings-and-disagreements)
6. [The proofs](#6-the-proofs)
7. [What is not modelled](#7-what-is-not-modelled)
8. [Plan](#8-plan)

Run everything from this directory: `tlc -config conversation.cfg MCConversation`,
`tlapm ConversationProofs.tla`.

## 1. The system

One Python process serves HTTP, owns a SQLite database and runs coding agents
in worktrees. A *run* is one delivery: requirement analysis (for some sources),
planning, execution, review, landing, publication. A second, older part of the
program (the *backlog loop*) is driven by directories instead of a database.

| Component | State it keeps | Operations | Correct when |
|---|---|---|---|
| **Run lifecycle** (`service.py`, `run_lifecycle.py`, `run_execution.py`, `recovery.py`, `requirement_analysis.py`, `budget_resume.py`, `run_routes.py`) | run documents and events in SQLite; `active_jobs`, `cancels`, thread pool, lock in memory | create, analyse, confirm, plan, approve, clarify, follow up, continue, execute, land, publish, cancel, discard, recover | one round per run; nothing the service owes is lost; cancelled and discarded runs stay so; supplements are given to a round once, with a receipt |
| **Durable queue** (`autonomy.py`) | table `control_jobs`: one row per run and phase, with generation | enqueue, claim, finish, reset | a round accepted is claimed once; an old worker cannot retire a newer round |
| **Backlog queue and loop** (`backlog/store.py`, `loop.py`) | task files in inbox, running, done, needs-human, blocked; claim files | claim, finish, park, revive, recover, deadlock detection; limits of a loop | a task is worked on by one worker, ends in exactly one directory, and is never lost |
| **Dispatcher rounds and supervisors** (`dispatcher.py`, `supervisors/`) | attempt counters, verdicts of one task | attempt, check, review, escalate | bounded attempts; success only after the checks passed |
| **Billing, budgets, quota** (`run_billing.py`, `budget.py`, `governance.py`) | durable usage, holds for calls without a price, reservations | allow, hold, record, settle | the budget is not exceeded, an interrupted call is not forgotten |
| **Agents, feedback, conversations** (`agents.py`, `agent_routes.py`) | messages with a feedback mark, the conversation's run, predecessor and retry links of runs | send a message (answer, queue, open a run), adopt feedback, retry, start a successor | no acknowledged message is lost; a run has one successor; queued feedback is adopted and started |
| **Publication** (`github_publication.py`, `github.py`) | durable receipt of each run, the project's repository and revision; repositories, branches and pull requests at the host | choose or create a repository, bind the project, push, open or find the pull request, synchronise the baseline, observe the merge | nothing is created twice although answers get lost; a failed request can be repeated; a request uploads to the repository its receipt names |
| **Deploy and remote targets** | target state | collect, deploy | artifacts keep what was delivered |
| **Execution of a task graph** (`execution.py`) | worktrees, an integration branch, futures of a pool, usage, saved tasks in the artifacts | start, retry, integrate, check, repair, pause, restore | work builds on what it needs, nothing is overspent, only the whole plan is delivered, verified work survives |
| **Continuous coding and verification** (`continuous.py`, `run_execution.py`, `evidence_identity.py`, `provider_activity.py`) | one worktree, its commit, check results, checkpoint, process record | code, reconnect, check, commit, review, repair, re-enter | what is reviewed passed every check; one process writes; the review is funded |
| **Inspections** | timer, inspection runs | start, finish | at most one at a time per project |
| **Maintenance** (`maintenance_subsystem.py`, `issue_maintenance.py`, `issue_maintenance_webuddy.py`) | requirements with idempotency keys, tasks with predecessor, successor, revision and execution, a link from a run to the delivery it continues, the plugin's state | submit, dispatch, claim, build and queue a run, bind it, give feedback, cancel, drain the plugin | one task, one successor, one execution each; interrupted requests converge on it; a revision keeps what was delivered |
| **Skill ingestion, knowledge, planning, providers, administration, CLI, front end** | see `PROJECT.json` | | mostly sequential or external I/O |

**How they interact.** HTTP handlers and the dispatcher share `Service.lock`.
Status changes are compare-and-set transactions (`Store.update(expected=...)`),
queue rows are separate transactions. `_submit` inserts a row under the lock;
the dispatcher claims rows, registers the run in `active_jobs`, replaces the
run's cancellation token and hands a worker to the pool. The worker moves the
run's status by transactions of its own and, in `_job`'s `finally`, finishes
the row, releases the slot and looks for unread supplements. The round itself
runs a plan as a graph of tasks or as one continuous coding session, under the
budget of the run, and leaves artifacts from which a later round goes on.
Conversations sit on top: a message becomes an answer, pending feedback or a
run, and the dispatcher turns feedback into successors. Maintenance is another
source of runs: a requirement becomes a task, a task a run, by requests of the
service and of command line processes, with a transaction for each step. After a crash,
`recover` decides by status what to do with each run. The backlog loop shares
nothing with all this but the dispatcher of a single task: its workers are
processes that meet only in directories.

**What makes it hard.**

- a user may answer, cancel, discard or publish between any two steps of a
  worker, in particular between its last status write and its `finally`;
- the status, the queue row and the receipts are written by different
  transactions, and the process may die between them;
- a resume pays for an analysis without the lock and commits on what it read
  before;
- two continuation paths (a person's and the automatic one) may be analysing
  the same run at once;
- the cancellation token is fetched under the lock and set outside it;
- publication is reachable by a worker and by a user, with and without the
  lock, and the host may have done what it never answered;
- threads of one round share a budget, a branch and a cancellation event, and
  end in any order, by a result, an exception or the deadline;
- money is spent before anyone knows how much, and a restart cuts calls off;
- evidence (checks, commits, saved work) outlives the round that made it;
- two processes import, dispatch or give feedback on the same requirement, and
  either may die between the claim, the run, its queueing and its binding;
- backlog workers on several machines coordinate by hard links, and a kill may
  fall between any two system calls.

## 2. The models

```
DurableQueue <- RunStore <- RunLifecycle <- RunProperties <- MCRun, RunLifecycleProofs <- StatusProofs

Conversation <- ConversationProperties <- MCConversation, ConversationProofs
TaskGraph    <- TaskGraphProperties    <- MCTaskGraph, TaskGraphProofs
                       |
                       v
                  PlanDelivery (abstract)
Continuous   <- ContinuousProperties   <- MCContinuous, ContinuousProofs
Publication  <- PublicationProperties  <- MCPublication, PublicationProofs
Maintenance  <- MaintenanceProperties  <- MCMaintenance, MaintenanceProofs
Backlog      <- BacklogProperties      <- MCBacklog, BacklogProofs
```

`X <- Y` says that `Y` EXTENDS `X`; `TaskGraphProperties` instantiates
`PlanDelivery` under a refinement mapping. The models meet at interfaces:
`RunLifecycle` knows an execution only by its outcome (`Executed`, `RunError`,
the checkpoint that makes a run resumable), which `TaskGraph` and `Continuous`
unfold; `Conversation` knows a round only as a worker that is claimed, busy and
ending, which `RunLifecycle` unfolds; `Publication` unfolds the step from
`publishing` to its outcome; and `Maintenance` sees a run from outside, by its
status and by who handed it to the queue.

### 2.1 Run lifecycle

`DurableQueue` has no variables: each operation of the class is one
transaction, so it is an operator from the old row to the new one. A row is
`[state, gen]`; `Enqueued`, `Claimed`, `Finished`, `ResetRows` are `enqueue`,
`claim`, `finish`, `reset`.

`RunStore` holds what the database says of a run: `status`, `revision`
(plan or draft revision), `resumes` (`resume_count`), and what the code derives
from the rest of the document: `plan` (a plan is stored), `site` (artifacts
name a base and tasks, so the execution can be resumed), `confirmed`, `merged`
(supplements whose words are part of an accepted request or resume answer) and
`pr`. Events matter only as receipts: `registered`, `applied`, `expired`
(`followup.pending`, `.applied`, `.expired`). The kinds of runs (`SpecRuns`,
`Autonomous`, `Continuous`, `Verified`, `AutoPublish`, `Release`, `Resumable`)
are constants because the code freezes them when the run is created.

`RunLifecycle` variables and the code they stand for:

| Variable | Code |
|---|---|
| `runs`, `notes`, `jobs` | tables `runs`, `events`, `control_jobs`; survive a crash |
| `mode`, `torecover` | process up, in `recover()` (runs not visited yet), or down |
| `lock` | `Service.lock`: what its holder still has to do between two transactions (`mark`: receipts, `confirm`: automatic confirmation, `submit`: queue insertion) |
| `active`, `token` | `Service.active_jobs`, `Service.cancels` |
| `workers` | pool threads in `_job`: run, phase, generation, program counter, and the agreement the round is judged by |
| `starting` | threads between `create_run` (or an automatic resume's commit) and the lock of `_submit` |
| `resumers` | threads inside `continue_run` or `_auto_resume_with_followups` |
| `cancelling`, `publishing` | cancel and publish requests in flight |

A step is a transaction, or a stretch of code under the lock with at most one
transaction. Where the code holds the lock over several transactions, the
holder is a member of `lock`, everybody else waits, and a crash can fall
between them. `Update` is `Store.update`; the guard of the action is the
`expected` of the call.

Actions by group (the `map` of `PROJECT.json` gives the lines of each):

- *opening and queueing*: `NewRun`, `StartPlan`, `MarkApplied`, `Submit`,
  `Dispatch`, `FinishJob`, `WorkerFail`;
- *analysis round*: `AnalyzeStart`, `AnalyzeError`, `FinishAnalysis`, `AutoConfirm`;
- *planning round*: `PlanStart`, `PlanDone`, `PlanError`, `AutoApprove`, `PlanConflict`;
- *execution round*: `RunStart`, `BeginFinalization`, `Executed`, `RunError`,
  `Land`, `CollectRelease`, `AfterLanding`, `WorkerPublished`, `RunConflict`,
  `RunErrorHandler`;
- *users*: `Confirm`, `Approve`, `Clarify`, `ResumeAnalysis`, `FollowUp`,
  `Discard`, `ContinueBegin`, `CancelBegin`, `TryCancel`, `CancelCommit`,
  `PublishBegin`, `PublishEnd`;
- *resumes*: `AutoResumeBegin`, `ResumeCommit`, `ResumeRefused`;
- *crash and restart*: `Crash`, `Restart`, `RecoverRun`, `RecoverDone`.

Abstractions, all of them choices of this model:

- what a provider, a reviewer, git or the repository host answers is a
  nondeterministic outcome of the action that waits for it; budgets and
  timeouts are error outcomes; the repair loop of a review is part of the
  review;
- the revision of an agreement is represented by the set of supplements
  applied to it (`judged`);
- a supplement is an element of `Followups`, sent at most once;
- `recover` resets a run's rows and updates the run in two transactions; they
  are one step here, because a second recovery repeats both. The queue
  insertion that follows is a step of its own. The loop at the end of
  `recover` that resumes paused runs is modelled by resumer threads;
- a run has at most one human resume, one cancel request and one publish
  request in flight;
- what a resume tests again before it commits (`ResumeStillValid`) depends on
  who resumes: a person's repeats all of `_resume_preconditions`, the automatic
  one status, revision, `resume_count` and active jobs (`run_lifecycle.py:346`).
  A round that starts without a plan fails at once (`Entered`);
- `Approve` is a person's approval and also that of `_apply_waiting_policy_locked`;
- the dispatcher picks any pending row; the code goes through them in order
  of insertion. Its `LIMIT 16` never hides a claimable row in these instances;
- the graceful shutdown of the process is not modelled, only its death.

### 2.2 Conversation

One conversation, its messages `1..MaxMessages` in the order they are sent, and
the runs it opens, numbered in the order of creation.

| Variable | Code |
|---|---|
| `msgs`, `acked` | `messages.feedback_status` and `feedback_run_id`; which requests got a success answer |
| `current` | `conversations.run_id` |
| `run` | run documents: status, whether the document names the conversation, `feedback_predecessor_id`, `source.retry_of`, the messages in request and history (`words`), `feedback_applied_ids` |
| `row`, `worker` | pending queue rows; pool threads |
| `cs` | the thread that holds `service.lock`: how many of its transactions are done, the message and run it deals with |

The message route (`agent_routes.py`, `process_message` and its helpers) holds
the lock from reading the run to starting the new one, over up to six
transactions; each is an action (`ReadRun`, `AppendMessage`, then `Clarify`,
`ContinueRun`, `ReplyQueued` or `CreateRun`, `FreezeVersion`, `AttachRun`,
`SettleAll`, `StartCreated`). Others come in between only where the code takes
no lock: `WorkerStart`, a worker's question (`WorkerReport`), `PublishBegin`,
`PublishEnd`, and a crash. `AdoptFeedback` is one transaction in the code and one
action here; `StartSuccessor` is what follows it or a later scan.

Abstractions: text is the set of messages it contains; the limits of 50 000
characters on a feedback batch and 90 000 on a clarification are numbers of messages; "awaiting_approval" is folded into
"needs_clarification", the stages of a round into "running"; a plan that cannot
be started raises, which is a fault; what users do on the run page is bounded
by `MaxClicks`.

### 2.3 Task graph

`execute_plan` with its threads, the rounds that call it, the budget and the
resume of a paused run. A worktree, a commit and a branch are the set of tasks
whose commits they contain.

| Variable | Code |
|---|---|
| `pc`, `harvest`, `by_id`, `stop`, `ended` | the scheduler loop of `execute_plan` and its locals; between rounds the state of the run |
| `lane`, `tries`, `base`, `unpriced` | per task (and for the repair, lane 0): what its thread is at, its attempt, the tree its worktree was made from, `cost_unknown` |
| `tree`, `verdict` | integration branch; the tree the last complete final check passed on |
| `dispatch`, `allowance`, `observed`, `unknown`, `ceiling`, `price` | `provider_dispatch_lock`, `remaining_call_budget` and the usage of the round; `price` is what the call under way will turn out to have cost |
| `ledger`, `spent` | durable usage with holds; what the calls really cost |
| `saved`, `site` | verified tasks in the artifacts; whether they carry an execution site |

Actions follow the loop: `Begin` (restore saved work), `Start`, `Wait`,
`Harvest`, the threads' `Dispatch`, `CallEnds`, `ChecksEnd`, `ThreadRaises`,
then `Drain`, `FinalPass`, `FinalFail`, `StartRepair`, `RepairEnds`, and `Cancel`, `Resume`,
`Crash`. The code learns what a call cost when it ends: with a budget a call may
cost anything up to its ceiling (the providers are assumed to respect
`max_budget_usd`), and may end without a price. The model draws the amount when
the call is made and counts it as spent at once, because the money is gone
whether or not anyone is there to hear the price; only `CallEnds` shows it to
the round.

`PlanDelivery` is the abstract promise, without threads, money and Git: a
delivery is built task by task on what each needs, work kept when an attempt is
given up stays kept and can be put back, and only the whole plan is delivered.
The mapping (`TaskGraphProperties!Delivery`) takes `built` from the integration
branch, `kept` from the artifacts and the phase from `pc`.

### 2.4 Continuous coding

`execute_continuous` in the round that calls it, with the independent review.
The content of the worktree is a number, `head` the content last committed;
money is in quarter dollars, so that the rounding of the review's reserve is
visible.

| Variable | Code |
|---|---|
| `pc`, `stage`, `reconnects`, `repairs`, `reviews` | the worker thread, `resume_stage`, and the counters of this invocation |
| `art`, `point`, `stored` | the artifacts in memory, in the last `execution.checkpoint` event, and in the run's document: commit, check results with the identity they were made for, finalization signature, guard, review verdict |
| `code`, `head`, `writers`, `record`, `caller` | the worktree, and the process groups that may write it |
| `allowance`, `ceiling`, `ledger`, `spent` | `run_billing.py` |
| `rev`, `env` | what a check result is bound to besides the content: the agreement and the tools |

A check result carries what it was run on (`ran`), which only the properties
read; the code decides by identity alone (`Reusable`).

Abstractions: the review is a bounded number of calls and a verdict; how a
check is executed and how the worktree is guarded against foreign changes are
left out. `Lingers` says whether a descendant of the coding process may outlive
it; the runs set it to FALSE (see section 5).

### 2.5 Backlog

The directories are the state. Every system call another worker may come
between is an action: `claim` is `ClaimLink`, `ClaimUnlink`, `ClaimWrite`;
`_park` is `ParkLink`, `ParkUnlink`, `ParkUnclaim`; the search for deadlocks
reads three directories in three steps (`NothingToClaim`, `ScanRunning`,
`ScanInbox`), and of the entries of one task (`T`, `T.2`) it looks at one, as the
code keys them by the stripped name. People do not share the workers' loop:
`add` and `revive` look whether the name is free in inbox (`Add`, `Revive`), and
later rename onto it, which replaces whatever is there by then (`Put`), or end
without doing so (`GiveUp`).

| Variable | Code |
|---|---|
| `fs` | names in inbox, running, done, needs_human and blocked, each an inode, because a hard link gives a file two names and one modification time |
| `claims` | the claim files in running: host and process |
| `old` | inodes not touched for `stale_after_s` |
| `files`, `asked`, `begun` | the task behind each inode; how often a person asked for it and a dispatch of it began |
| `puts` | people between the look at the name and the rename: the name, the file, and for a revival where it comes from |
| `w` | each worker: program counter, listed entries, report totals |

Left out: result files, the journal, the fallback of a file system without
hard links.

### 2.6 Publication

The delivery of one project's runs to repositories at a host that may carry out
a call or not, and may lose its answer in both cases. Everything that goes
wrong or is changed from outside (a lost answer, a crash, a worker that raises
after the landing, changed settings, a person at the host) counts as a trouble and is bounded by `MaxTroubles`.

| Variable | Code |
|---|---|
| `status`, `active` | run documents; `Service.active_jobs` |
| `raised` | workers on their way into the failure handler of `_run` |
| `project` | `projects`: bound repository, whether its id is recorded, revision |
| `receipts` | `github_publication_requests`: state, target, mode, expected and bound revision, whether the repository is known |
| `local` | the project's own base branch, which the first upload may move |
| `web` | the request inside `GitHubPublication.publish`, which holds `service.lock`: which call it is at, for which run, repository and revision |
| `pub` | for each run, the thread inside `publish`: its call, who began it, the repository it goes to; `calm` (which only `LostAnswersHeal` reads) is lost when anything disturbs it |
| `host` | per repository: its creator, what the base branch holds, what is merged, branches, open pull requests |

A request goes through `Request`, then `CreateRepository` or
`LookupRepository`, `Bind`, `Acknowledge`, `UploadByRequest`, the upload, and
`EndRequest`; each is one call to the host or one transaction. An upload is
`ReadRefs`, then `PushInitial`, `ObserveInitial`, `SyncBaseline` into an empty
repository, or `PushBranch`, `FindPullRequest`, `OpenPullRequest`; `EndUpload`
is the compare-and-set after it. `UploadPlainly` is the publish route and the
worker of a project that publishes by itself, neither of which holds the lock.
A worker that is not done after its landing may raise (`WorkerRaises`); its
handler then reads a status other than `ready_for_review` and, once it has the
lock, moves the run to `needs_human` from whatever it is (`WorkerFails`: `_fail`
expects no status). If an upload of the run is under way it goes on, its
compare-and-set finds another status and changes nothing, and a request answers
that it failed.

Abstractions: a run has one commit on one branch; a base branch keeps its name;
a run is not continued while an upload of it that lost its status goes on (a
bound: the next round would bring a second commit);
mode "bound" is mode "existing" with the repository the page showed;
the host account's check before the lock (`account()`) changes nothing and is
left out; so is `bind_github_repository`, which binds without publishing and
has no caller.

### 2.7 Maintenance

One project whose base branch has commits `1..MaxHead`; `MaxHead + t` is the
commit that task `t` delivered. The content of a requirement is given by its
key, that of a revision by its predecessor and the words of the feedback.

| Variable | Code |
|---|---|
| `reqs` | `maintenance_requirements`, one row per idempotency key: received, and the task it was dispatched to |
| `tasks` | `maintenance_tasks`: predecessor, content, base commit, revision, successor, execution (`execution_id`) |
| `runs` | the runs created for tasks: status as seen from outside, whether the predecessor's delivery is linked, who queued it, the commit it was planned on |
| `op` | each request: the transaction it is at and what it read so far |
| `head`, `plugin` | the base branch; whether the plugin takes work, is draining, or is disabled |

A request goes `Read` (the branch), `Claim`, `Create`, `Link` (a revision of a
delivered task only), `Dispatch`, `Bind`, `Answer`; each is one transaction or
one call, requests of several threads and processes interleave between them,
and each may end there (`Abort`, `Restart`). Feedback enters at `Claim` with a
predecessor. `Claim` decides key, content, base and predecessor at once, as
`claim` does: a repeated claim for another commit is a conflict, for the same
commit it continues with what the first did not do (`Unbound`). Around them the
runs are planned, carried out, replanned by anybody's words, cancelled and
recovered.

Abstractions: the fields of a requirement that are for display (its dispatch
status and message) are left out; failed, cancelled and discarded runs are
"closed", a run without a plan that waits for a person is "stopped"; every
trouble (a request cut off, a refusal while stopping, a restart) counts against
`MaxTroubles`.

## 3. The properties

Each is defined in the properties module of its model, with a comment naming
its code. Each has a mutant: a plausible mistake in one mapped definition for
which TLC finds the property violated.

**Run lifecycle** (`RunProperties`)

- **Rounds.** `OneRoundPerRun`: slot, worker and queue row of a run belong
  together and there is one of each. `SlotsBounded` (proved, no run): no more
  workers than threads. `ActiveHasOwner`: a run in a status in which the service is to act
  always has something that will act. `RecoveryLeavesNoOrphan`: a run recovery
  has visited waits for a person or is really queued.
- **Supplements.** `ReceiptMeansMerged`, `MergedHasReceipt`: receipts and
  merged words agree in both directions. `AppliedOnce`: concurrent resumes do
  not consume the same supplement twice, where a run that is resumed by itself
  still has its plan; `QueuedHasPlan` says that it has. `LandingSettles`: landing accounts for
  every supplement in the same transaction, and a verified run lands with
  none unread. `PublishedHasNoOpenFollowup`, `ExpiredNeverMerged`: what the
  docstring of `_expire_unconsumed_followups` promises.
- **Cancellation and delivery.** `CancelSticks`, `DiscardedFinal`,
  `FinalizationExcludesCancel`, `DeliveredNotFailed`.
- **Liveness.** `ActiveSettles`: the service delivers what it owes.

**Conversation** (`ConversationProperties`)

- `SupplementKept`: a message whose request succeeded waits as feedback or is
  in a run, and an adopted one is in the run it names, across the route's
  transactions, crashes and status changes under it.
- `OneSuccessor`: a run is followed by one retry or one feedback successor.
- `FeedbackMoves`: feedback at a delivered run is adopted; a successor is started.

**Task graph** (`TaskGraphProperties`)

- *Money*: `SpendWithinBudget` over parallel threads, retries, rounds and
  restarts.
- *Work*: `BuiltOnDependencies` (proved, no run), `CleanIntegration` (a verified
  commit applies, in whatever order tasks end), `SavedWorkKept` (never forgotten
  or paid for again).
- `RoundEnds`; and `ImplementsDelivery`, the refinement of `PlanDelivery`.

**Continuous coding** (`ContinuousProperties`)

- `CommitCovered`: what is reviewed passed every configured check, under this
  agreement and with these tools, although results are reused.
- `SpendWithinBudget`, `ReviewFunded`, `SoleWriter`, `RoundEnds`.

**Backlog** (`BacklogProperties`)

- `DispatchedOncePerRequest`, `NothingLost`, and `Drains`.

**Publication** (`PublicationProperties`)

- `CreatedOnce`: however often the answer to a creation is lost, one run creates
  one repository. `LostAnswersHeal`: an attempt that nothing disturbs succeeds,
  whatever earlier attempts left at the host. `RetryAdmitted`: a failed request
  sent again unchanged is admitted, also after a crash between the binding and
  its acknowledgement. `UploadsWhereAsked`: what a request uploads goes to the
  repository its receipt names, which is still the project's, although the
  repository is read from the project when the upload begins, long after the
  receipt was written.

**Maintenance** (`MaintenanceProperties`)

- `OneChain`: a requirement has one first task, a task one successor and one
  execution, however many requests claim, repeat and die.
- `BoundIsQueued`: a task that names an execution names one that was handed to
  the queue, whoever built it and whoever died since.
- `KeepsDelivered`: a revision its request dispatched is planned and carried out
  on what was delivered, whoever else queues, restarts or replans the run.
- `Converges`: interrupted dispatches end with one execution.

Some definitions are checked by no run because the code does not satisfy them:
`MergedHasReceipt`, `PublishedHasNoOpenFollowup`, `ExpiredNeverMerged`,
`FinalizationExcludesCancel`, `DiscardedFinal`, `DeliveredNotFailed`,
`QueuedHasPlan`, `OneActiveRun`, `NotAskedTwice`, `BillingBlocksPublication`,
`PausedCanContinue`, `FreshWhenClaimed`, `LoopSurvives`, `NoSuccessorGivenUp`,
`OneTarget`, `OtherNamePossible`, `UploadsSettled`, `PinnedBase`. They state what a document or comment says; section 5 tells how each is violated.

## 4. The runs

| Run | Instance | Distinct states | Shows |
|---|---|---|---|
| `lifecycle` | 1 run, 1 supplement, 2 rounds per phase, no crash; fair | 23 k | `TypeOK`, `ActiveHasOwner`, `ActiveSettles` |
| `restart` | 1 run of every kind (specification, autonomous, continuous, verified, publishing by itself, release, resumable), 1 supplement, 2 rounds per phase, 2 crashes | 1.3 M | `RecoveryLeavesNoOrphan`, `OneRoundPerRun`, `ReceiptMeansMerged`, `CancelSticks`, `AppliedOnce`, `LandingSettles` |
| `conversation` | 3 messages, 3 runs, 1 crash or failed start, 1 click on the run page; fair | 304 k | `TypeOK`, `SupplementKept`, `OneSuccessor`, `FeedbackMoves` |
| `taskgraph` | 3 tasks (one dependency, one path conflict), 2 threads, 2 attempts, budget 1, 3 rounds, 1 restart, no failing restore, both cost policies | 1.65 M | `TypeOK`, `SpendWithinBudget`, `CleanIntegration`, `SavedWorkKept`, `ImplementsDelivery` |
| `taskgraph_open` | the same tasks without a budget, 2 rounds, 1 failing restore; fair | 326 k | `RoundEnds` |
| `continuous` | 2 checks, 2 rounds by the user, 1 restart, 1 change of the tools | 3.5 M | `TypeOK`, `CommitCovered`, `SpendWithinBudget`, `SoleWriter` |
| `continuous_ends` | 1 round with a reconnection, a repair, a review call, 1 restart; fair | 407 k | `ReviewFunded`, `RoundEnds` |
| `backlog` | 1 worker, chain of 3 tasks, 3 additions and 1 revival by one person at a time, no limits, 1 kill or signal; fair | 1.13 M | `TypeOK`, `DispatchedOncePerRequest`, `Drains` |
| `backlog_pair` | 2 workers on 2 machines, 2 independent tasks, 2 additions and 1 revival by one person at a time, a budget of one dispatch, 1 kill or signal | 2.1 M | `NothingLost` |
| `publication` | 2 runs, 2 repositories that do not exist yet or hold the project's history, 1 trouble, 3 revisions of the project | 1.15 M | `TypeOK`, `CreatedOnce`, `UploadsWhereAsked`, `LostAnswersHeal`, `RetryAdmitted` |
| `maintenance` | 1 requirement, 2 requests at once, 2 words of feedback, 2 commits of the branch, 2 revisions, 1 trouble; fair | 841 k | `TypeOK`, `OneChain`, `BoundIsQueued`, `KeepsDelivered`, `Converges` |
| `commit_strands` | 1 round, 1 restart | violated | the finding of section 5 |

**Bounds.** *Run lifecycle*: one run is enough for everything but the
competition for slots: runs share only the lock, the pool and the dispatcher;
the proofs cover any number. Two rounds per phase let a round meet the round
before it, which is the case in which generations matter. `lifecycle` has a run of no kind, `restart` one of every kind, and the proofs
cover any mixture. One supplement can be collected by a person's resume and by
an automatic one; two of them, without crashes, were checked as well and
show nothing more. Two crashes let the second fall into the recovery from the
first. *Conversation*: with a batch
and an answer limit of one message, three messages give one that is taken, one
that is left and one that arrives meanwhile; three runs give a successor, its
retry or its successor. *Task graph*: three tasks suffice for a task ready at
once, one that waits and one that conflicts; three rounds for a pause, a
restart and a continuation; a budget of one unit makes two threads compete for
the same money. *Continuous*: two contents tell checked from unchecked, two
checks a partial result, and a change of tools an obsolete one. *Backlog*: a
chain of three is the shortest in which a hopeless entry is hopeless through
another; one interrupt at any system call; three additions allow the same name
twice. One person puts at a time (`MaxProducers = 1`), since two lose files
(section 5), but workers claim, park and die between the look and the rename. The
two limits of a loop stop it at the same place; `backlog_pair` sets one. *Publication*: two runs, so that a request for one meets an upload of
the other; two repositories, to be bound to the wrong one; one trouble at any
step (a lost answer, a crash, a worker that raises, a person's change), after
which every attempt can be repeated. With workers that raise at no cost of a
trouble the instance has 6.7 M states; it was checked, takes too long to be kept,
and the proofs cover any number of troubles. The repositories do not exist at first, which
is where a creation can go wrong, or hold the project's history (`Bases`).
*Maintenance*: two requests meet at every step; two words, so that the second
feedback differs from the first; two commits, so that the branch moves between
a dispatch that failed and its repetition; a first task and its revision, as
the next revision stands to it as it stands to the first.

Deadlock is not checked (`CHECK_DEADLOCK FALSE`), since a behaviour may stop:
everything has ended or waits for its user and the bounds on users are used up.
Symmetry is used for supplements, and for the runs and the repositories of
publication, which are all alike; never with liveness.

`ActiveHasOwner` is checked without crashes, analysis and approval by policy because
with each of them the code violates it (section 5). `SavedWorkKept` and `ImplementsDelivery`
are checked where restoring saved work does not fail, for the same reason. `backlog` has
one worker because several over dependent files may park an entry twice and give
up a successor early (section 5); `backlog_pair` has two, and therefore
independent files and workers that start over an empty `running`
(`LateStarts = FALSE`).

**Fairness.** Users, faults and crashes are under none.
*Run lifecycle*: weak for recovery, the lock holder's remaining transactions
and a publish request, threads that nothing disables; strong for workers,
resumers, cancel requests, `StartPlan` and `Dispatch`, which wait for a lock
that is taken and released over and over: Python's lock lets each waiting
thread in eventually, every provider call ends by its timeout, and the
dispatcher scans rows in order of insertion. *Conversation*: weak throughout,
because users take the lock only finitely often here. *Task graph* and
*continuous coding*: weak for the scheduler and each thread, as calls and
checks have timeouts and the deadline sets the cancellation event. *Backlog*:
weak for each worker's steps, and a loop that has ended is started again.
*Maintenance*: weak for the steps of a request, each a transaction, a Git call
with a timeout or a call into the service; strong for `Redispatch`, a person who
dispatches a requirement again as long as it is not dispatched. The service
lets them (`dispatch` of the API and of the command line); the page offers it
only for requirements that were left to a person (`IntakePage.tsx:283`).

## 5. Findings and disagreements

**Finding** (`commit_strands`, `continuous.py:387`). The commit of a round is
durable before the checkpoint that names it. After a restart in between, the
saved Git metadata are not those of the site; every later round refuses it, and
the run waits for a person although its work is committed.

The following were met while modelling. The first group are properties that are
defined here and that the code violates; the trace is the shortest found.

*Run lifecycle*

- `ActiveHasOwner` with an analysis: the analysis fails, the user answers before the
  worker's `finally`; `_submit` inserts continuations only for plans, the row is
  still running, the insertion is refused, and the run stays `received` with nothing queued.
- `MergedHasReceipt` with a crash: a crash between `clarify`'s update and its
  receipts; the words are merged and will be offered again.
- `DiscardedFinal`: a worker, or the route that starts a new run's planning,
  fails after the run was cancelled and discarded; `_fail` spares only
  cancelled runs, so it is back at `needs_human`.
- `FinalizationExcludesCancel`: a cancel fetches the token of one round, the
  dispatcher installs that of the next, whose worker enters the commit gate;
  the cancel sets the old token and reports the run cancelled while it commits.
- `PublishedHasNoOpenFollowup`: a supplement accepted while the run is
  publishing is neither applied nor expired once it is published.
- `DeliveredNotFailed`: the worker's publication fails, the user publishes
  again, and the worker's handler reads `publishing` and fails the run.
- `QueuedHasPlan` ("同一补充不重复生效", `STATUS.md:109`: one supplement does not
  take effect twice): an automatic resume analyses a supplement; meanwhile the
  user answers, which merges and receipts it and drops the plan; the new
  planning fails, so the run is `needs_human` again with the counters the resume
  read; and the resume commits. Its words are applied a second time and a run
  without a plan is queued, whose round fails at once. The automatic resume does
  not use `_resume_preconditions`, whose docstring says that "a re-check that
  only repeats some of the guards is a hole exactly where the timing window is"
  (`run_lifecycle.py:213`). The trace needs no crash (1 run, 1 supplement,
  approval by policy, 3 rounds).
- `ExpiredNeverMerged`: a supplement expired by the landing is still collected:
  crash during publication, restart, automatic resume, and it is merged.

*Conversation*

- `OneActiveRun` ("A conversation has at most one active run",
  `agent_routes.py:435`): after a crash between the creation of a run and its
  attachment, a resent message opens a second one, and a recovery that resumes starts
  both. Likewise a predecessor that is answered from its run page after a retry.
- `NotAskedTwice` ("never consumed feedback without its run or two runs",
  docstring of `adopt_feedback`): after a crash between attachment and
  settlement, or when a pending message was too long to be settled by the
  answer that included it, words a run has are adopted again by its successor.

*Task graph*

- `BillingBlocksPublication`: a round with a call of unknown cost is marked as
  blocked for automatic publication, and `run_execution.py:438` drops the mark
  (`docs/rewrite/WORKBENCH-CONTRACT.md:49`).
- `PausedCanContinue`: a deadline sets the cancellation event, and the next
  continuation in the same process reads it as the user's cancellation.
- `SavedWorkKept` and `ImplementsDelivery` with `MaxRestoreFaults > 0`: the
  artifacts of an error raised while saved work is restored (`RestoreFails`) hold
  the task list made before it, and `_fail` stores them over the saved one: the
  verified work is forgotten, done again and paid for again ("preserving ...
  saved task evidence", `WORKBENCH-CONTRACT.md:49`).

*Backlog*

- `FreshWhenClaimed` (`loop.py:335`): the age is that of the file, which a hard
  link keeps; a file that waited for six hours is stale to another machine
  until its first heartbeat, and may be parked under its worker.
- `NoSuccessorGivenUp` with two workers: the scan reads done before running, and
  an entry that moves from running to done in between is seen in neither. Its
  successor is parked as hopeless.
- `NothingLost` with `MaxProducers = 2` ("直接覆盖会让先排的那个静默消失",
  `store.py:262`: overwriting directly would make the one queued first vanish
  silently): two people who add, or an addition and a revival, both find the
  name free; the second rename replaces the first one's file. If a worker has
  linked the first file meanwhile, its unlink removes the second one's name.
- `NothingLost` with two workers and dependent files: two of them park the same
  entry while a file of the same name is added.
- `NothingLost` with two workers and two revivals, files independent: parking
  first links the entry to a free name (`T.2` in needs_human) and then removes
  the old one. If the entry is revived from its new name in between and another
  worker parks a namesake there, `target.samefile(task_path)` is false, and the
  first worker's `os.replace` (`store.py:743-748`) overwrites the namesake,
  although the name is said to be exclusively its own from the link on
  (`store.py:711-712`). Three additions, two workers on one host and no kill
  are enough; `backlog_pair` has one revival, with which it does not happen.
- `LoopSurvives` with dependent files, or with a worker that starts late:
  `finish` and `park_deadlocked` let the `FileNotFoundError` of an entry that
  another worker moved end the loop; a worker that starts between another's
  link and its claim file takes the entry for abandoned.

*Publication*

- `OneTarget` ("本次成果已有另一仓库发布记录", `github_publication.py:124`: the
  result has a record of publication to another repository): the plain publish
  route and the worker of a project that publishes by itself do not read the
  receipt. A run whose request failed after it named one repository is uploaded
  to another one the project was bound to since.
- `UploadsSettled` ("项目还有进行中或待交付任务，暂时不能更换 GitHub 仓库",
  `github_publication.py:62`: runs are in progress, the repository cannot be
  changed now): a run is uploaded by the publish route while its worker is still
  collecting; the worker raises, and its handler takes the run from `publishing`
  to `needs_human` (`run_execution.py:463`, `run_lifecycle.py:656`) with the
  upload under way. Nothing blocks a request for another run any more; it binds
  the project to its own repository while the first upload goes on to the old one.
- `OtherNamePossible` ("请选择已有仓库", `github.py:182`: choose an existing
  repository): the receipt says "creating" before the name is known to be in
  use, and a receipt is for one repository; the advice is refused with 409.

*Maintenance*

- `PinnedBase` ("The executor refuses to run if the branch has moved off this
  commit", `issue_maintenance_webuddy.py:164`): planning takes the branch as it
  is then, and execution compares the branch with that commit only
  (`run_execution.py:331`). A task whose branch moved between its claim and its
  planning, or whose revision recovery or a person queued before it was linked,
  is carried out on another base. It can be delivered, but never exported:
  `issue_maintenance.py:673` compares the two, and refuses.

The second group has no definition here:

- *Requirements that never converge.* A dispatch that failed after the claim is
  repeated on the branch as it is by then; if it moved, the content fingerprint
  differs and every repetition is a conflict, although the docstring of
  `_bind_execution` says that all interrupted windows converge. (`Moved` in
  `Converges`.)
- *Tasks nobody can finish.* Feedback cut off between the claim of the successor
  and its binding is refused when repeated, because the task has a successor.
  Such a task, and one whose dispatch was given up, counts as live, so the
  plugin drains for ever. Cancelling it only notes the wish.
- *A late loser.* Of two dispatches of a requirement the one that fails last
  writes `dispatch_failed` over the other's `dispatched`.
- *The plugin as a gate.* Its state is read once, before the claim; runs that
  exist already are answered and approved through the routes of every run
  (`run_routes.py:163`), which do not ask for it. While a run is `publishing`,
  a status `EXECUTION_STATES` does not know, the views of its task are refused.

- *A merged delivery that cannot be recorded.* If the answer to opening a pull
  request is lost and the pull request is merged before the next attempt, that
  attempt finds no open one, and the host refuses a new one without changes:
  the run cannot become `published`. If it was merged as a new commit, or
  closed, a second pull request is opened. (`LostAnswersHeal` excepts the first.)

- *Two more ways to lose a round.* `Dispatch` of an old row resets all rows of
  the run (`service.py:138`): the policy approves a plan, finds the baseline
  moved, a person approves before the worker's `_fail`, the owner answers before
  its `finally`. And recovery skips a run that `_fail` already moved to
  `needs_human` (`recovery.py:97`) without retiring its row; the next resume is
  refused by `enqueue`.
- *A pull request forgotten.* A release stores the artifacts its round ended
  with after deploying (`run_execution.py:449`); a user who published in
  between loses the pull request, and `sync_merge` then says there is none.
- *A refused landing that cannot be resumed.* `_land_verified` refuses with a
  `Conflict` that carries no artifacts (`run_execution.py:456`).
- *A run nobody starts.* `start_plan` raising at `agent_routes.py:486` or in
  `retry` leaves a received run with nothing queued.
- *Publishing a predecessor* while its feedback successor starts fails the
  successor: `CheckoutReady` wants it delivered.
- *Saved work in another order.* Saved commits are restored in plan order, not
  in the order they were integrated; two tasks on the same paths verified in
  reverse order conflict on every later resume (`RestoreConflict`).
- *A second writer.* A descendant that outlives its worker writes under the next
  round: the result of `retire()` is not looked at. With `Lingers = TRUE`,
  `SoleWriter` fails.
- *Words without code.* A continuation with new words stopped before its first
  call, then continued with none, finalizes without coding the words.

## 6. The proofs

| Theorem | Statement | Argument |
|---|---|---|
| `RunLifecycleProofs!TypeCorrect` | `Spec => []TypeOK` | inductive as it stands; one lemma per operator that builds a row, a document, receipts or a worker, then one step per action |
| `RunLifecycleProofs!OneRound` | `Spec => []OneRoundPerRun` | invariant `RoundInv` |
| `RunLifecycleProofs!SlotsAreBounded` | `Spec => []SlotsBounded` | `OneRoundPerRun` gives one slot per worker; the dispatcher's limit bounds the slots |
| `RunLifecycleProofs!RecoveryIsComplete` | `Spec => []RecoveryLeavesNoOrphan` | invariant `RecoveryInv` |
| `RunLifecycleProofs!EveryRunIsOwned` | `Plainly`: `Spec => []ActiveHasOwner` | invariant `OwnerInv`, with `RoundInv` |
| `StatusProofs!CancellationSticks` | `Spec => CancelSticks` | every step *advances* every document (`Advances`): a cancelled run can only be discarded, and merged words stay merged |
| `StatusProofs!ReceiptsAreHonest` | `Spec => []ReceiptMeansMerged` | invariant `ReceiptInv`, with `Advances` |
| `StatusProofs!ConsumedOnce` | `Spec => AppliedOnce` (a person's resume, or an automatic one of a run that has its plan) | invariant `Reads`, with `Advances` |
| `StatusProofs!LandingsSettle` | `Spec => LandingSettles` | no step but `Land` takes a run from `running` to `ready_for_review`; `Land` expires exactly what it leaves unconsumed, and refuses a verified run with unread supplements |
| `ConversationProofs!TypeCorrect` | `Spec => []TypeOK` | with the invariant below |
| `ConversationProofs!SupplementsAreKept` | `Spec => []SupplementKept` | invariant `Inv` |
| `ConversationProofs!OneSuccessorEach` | `Spec => []OneSuccessor` | invariant `Inv` |
| `PublicationProofs!TypeCorrect` | `Spec => []TypeOK` | with the invariant below, and so are the next three |
| `PublicationProofs!CreatedAtMostOnce` | `Spec => []CreatedOnce` | part `Created` |
| `PublicationProofs!AnswersHeal` | `Spec => []LostAnswersHeal` | part `Calm` |
| `PublicationProofs!RetriesAdmitted` | `Spec => []RetryAdmitted` | part `Ordered` |
| `PublicationProofs!UploadsGoWhereAsked` | `Spec => []UploadsWhereAsked` | invariant `Asked`, with `Inv` |
| `TaskGraphProofs!TypeCorrect` | `Spec => []TypeOK` | inductive as it stands |
| `TaskGraphProofs!BudgetHolds` | `Spec => []SpendWithinBudget` | part `Money` |
| `TaskGraphProofs!CommitsApply` | `Spec => []CleanIntegration` | parts `Threads` and `Branch` |
| `TaskGraphProofs!InOrder` | `Spec => []BuiltOnDependencies` | part `Branch` |
| `TaskGraphProofs!SavedUnlessRestoreFails` | every step keeps saved work and starts no call for it, except `RestoreFails` | with the parts above |
| `TaskGraphProofs!SavedStays` | `MaxRestoreFaults = 0`: `Spec => SavedWorkKept` | there is no `RestoreFails` |
| `TaskGraphProofs!DeliversThePlan` | `MaxRestoreFaults = 0`: `Spec => ImplementsDelivery` | every step is one of `PlanDelivery` or stutters |
| `ContinuousProofs!TypeCorrect` | `Spec => []TypeOK` | with part `Alive` |
| `ContinuousProofs!BudgetHolds` | `Spec => []SpendWithinBudget` | part `Funds` |
| `ContinuousProofs!ReviewIsFunded` | `Spec => []ReviewFunded` | part `Funds` |
| `ContinuousProofs!OneWriter` | `Lingers = FALSE`: `Spec => []SoleWriter` | part `Writes` |
| `ContinuousProofs!CommitIsCovered` | `Lingers = FALSE`: `Spec => []CommitCovered` | part `Evidence` |
| `MaintenanceProofs!TypeCorrect` | `Spec => []TypeOK` | with the invariant below, and so are the next three |
| `MaintenanceProofs!ChainIsOne` | `Spec => []OneChain` | |
| `MaintenanceProofs!BoundRunsAreQueued` | `Spec => []BoundIsQueued` | |
| `MaintenanceProofs!DeliveriesAreKept` | `Spec => []KeepsDelivered` | |
| `BacklogProofs!TypeCorrect` | `Spec => []TypeOK` | invariant `Shape` |
| `BacklogProofs!OnceRequested` | `Alone \/ Separate`: `Spec => []DispatchedOncePerRequest` | invariants `Owned` and `Granted` |
| `BacklogProofs!NothingIsLost` | `Alone \/ (Separate /\ MaxRevives = 0)`: `Spec /\ []OneEach => []NothingLost` | invariant `Kept` |
| `BacklogProofs!OnePersonLosesNothing` | the same and `MaxProducers <= 1`: `Spec => []NothingLost` | corollary |

They hold for every set of runs, supplements, messages, repositories,
requirements and task files, every plan, every assignment of kinds, every limit
and every number of crashes. The hypotheses exclude behaviours of the code that
do violate the property (section 5): `MaxRestoreFaults = 0` an error while saved
work is restored, `Lingers = FALSE` a process that outlives its leader, `Plainly`
the analysis, the approval by policy and the crash, each of which can lose a round in
a way of its own (section 5: the refused continuation, the old row, the row that
recovery skips), and those of the backlog several workers that disturb each other. `Alone` says that there
is one worker; `Separate` allows any number that share files without
dependencies and start over an empty `running` (no `LateStarts`): a worker that
starts while another has linked an entry and not yet written its claim takes it
for abandoned (section 5).
`MaxRevives = 0` excludes the overwritten namesake of section 5, and `OneEach`
two people who put the same name into inbox at once, which one person never does
(`OnePersonLosesNothing`); `OnceRequested` needs neither. A hypothesis is
stated in its theorem and not in an assumption of a module. The only
assumptions are the kinds of the constants: `RunConfigAssumption` (the kinds of
runs are sets of runs) and the `LimitsAssumption`, `SizesAssumption`,
`BoundsAssumption`, `TaskGraphAssumption` or `ContinuousAssumption` of each model
(limits are natural numbers, a plan names its own tasks, an attempt count is
at most three and a reconnection or repair count at most two, as the code
checks or clamps them), and `NamesAssumption` of `Publication` (no run is called like a
content of a base branch that is not its own).

*`RoundInv`* adds to `OneRoundPerRun` that a process which is not up has no
worker. Without it the step fails at `RecoverRun`, which retires all rows of a
run without looking at who works on it. The rest rests on *ownership* of a
row: it is running under the worker's generation or pending under a later one.
`Enqueued` keeps every owner, `Claimed` makes one, and `Finished` and
`ResetRows` are only reached when the worker leaves or there is none.

*`ReceiptInv`* adds that a lock holder which still has to write receipts
(`clarify`) has merged the words they are for. That, with words never being
unmerged, carries the property over the two transactions of `clarify` and over
a crash between them; a resume merges and receipts in one step.

*`Reads`* says of every thread that analyses a resume what makes its commit
safe: nothing it read has a receipt, or the run has *overtaken* it. That is, the run
has been resumed or replanned since, or has no plan. The first two every commit
tests again. The third only a person's does, which is why `AppliedOnce` speaks of
an automatic resume only where the run has its plan: the other case is
`QueuedHasPlan` of section 5. Being overtaken lasts, because the two
counters of a run only grow and a run without a plan gets one only with a
higher revision (`Later`, a part of `Advances`). A resume that commits overtakes
all others of its run by counting itself; an answer does by giving up the plan, in the
transaction before the one that writes its receipts, and the lock holder
between the two carries that fact (the second part of `Reads`).

*`RecoveryInv`* adds to `RecoveryLeavesNoOrphan` what is true while it cannot be
stated yet: between the reset of a run's rows and its insertion (one holder of
the lock, the run already visited, no row waiting or running, which is why `enqueue`
cannot refuse it), while the process is down (the lock is free), and at any time the process
is not up: no worker, resume, publication, planning route or cancel is left
that could touch a run between its visit and the end of the recovery. The last
part is what a second crash during recovery would break if it left a thread behind.

*`OwnerInv`* says in which ways a round may be coming (`Way`): its starter is
still a thread (`starting`), a holder of the lock is about to insert it, its row
waits, or its worker has not begun. At most one is at any time (`OneWay`), and while
one is, the run has the status the round expects, or has been cancelled or discarded,
and no other worker of it is doing anything (`Expected`). `Placed` gives each worker
the statuses its run may have where it is: a worker whose run a user took away
meanwhile is one whose next compare-and-set fails. `Served` is then the property,
with the worker anywhere before its `finally`. It is inductive because
a request opens a round only in a status in which none is coming and the only
worker the run can have is past its last write (`RoundOpens`), and because
`enqueue` refuses only a running row of a round that is no continuation: when an execution is
inserted, the one worker that may be left is that of the plan (`RoundQueued`). TLC checked `OwnerInv` as well for a
run that is continuous, verified, resumable, published and released, with three rounds.

*`Inv` of `ConversationProofs`* is `TypeOK` and four parts. `Contiguous`: runs
are opened in the order of their numbers, so a new run is new. `Kept`: the
property, and that what an answer took is in the run it was given to, which is
why a later adoption may skip it. `Chain`: the run at hand is followed by none
and every other by at most one; a retry and an adoption both follow the run at
hand and take its place, so no test for an existing successor is needed beyond
the comparison with `current`. `HolderKnows`: what the thread that holds the
lock established at an earlier transaction and relies on later, e.g. that a
message it will report as queued is pending. It is needed because no action
under the lock has these facts in its own guard. The proof sorts the actions
into those that open no run and take no words away (`Grows`), whose effect on
each part is a lemma, and those that open one (`Opens`). The delicate step is
`StatusStep`: a thread without the lock may change the status a route has read, and
the invariant survives because such a change never makes a run "in hand"
that was not.

*`Inv` of `PublicationProofs`* is `TypeOK` and four parts. `Placed`: an upload
"by web" is that of the request at hand, and there is a repository to go to,
which no rebinding takes away. `Created`: who created a repository has named it
in a receipt that never changes its target; the receipt is written before the
call, so a lost answer and a crash leave it behind. `Calm`: what an undisturbed
upload has read is still so at its next call (`Knows`), because every change of
the host by anyone else takes the calm away. `Ordered`: revisions get into a
receipt in order, and a known repository is not still to be created, which is
why a repeated request either shows the revision of its page or is recognised
by `Healed`. The steps fall into three kinds, with one lemma each: a call of an
upload (`CallOf`), a step of a request without an upload (`Follows`), and steps
that touch neither. *`Asked`* follows a request to its upload: from the receipt
on it goes to the repository the receipt names, which no repetition changes
(`Named`); from the binding on that is the project's, since nobody else binds
while the request holds the lock; and its upload has read it there (`Reached`).
That a worker fails the run under the upload changes none of this, which is why
the property is about a request's upload and not about its run's status.

*The invariant of `TaskGraphProofs`* is `TypeOK` and four parts. `Threads`: outside
the loop nothing is active, and two tasks whose paths clash are never active
together. `Branch`: a task under way has all it needs in the tree it started
from, and this tree is in the integration branch; what is on the branch is
verified, what is verified has its dependencies there, and saved work is
closed under dependencies and in the tree of every round. From these two,
`CleanIntegration` is preserved: only `Harvest` adds to the branch, what it adds
was active, and so clashes with nothing that is. `Money`: with a budget at most
one call is in flight, that of the holder of `dispatch`; ledger plus allowance
is the budget plus what the round has observed; a call of unknown cost or one
cut off leaves at least the whole budget in the ledger. For the refinement each
action is mapped to one of `PlanDelivery` or to a stuttering step; `Branch` is
what its guards ask for.

*The invariant of `ContinuousProofs`* is `TypeOK` and four parts. `Alive`: there
is a site in memory exactly while the round is in one, and which stages may be
where. `Funds`: ledger plus ceiling is within the budget, and as long as there
is code to write, ledger plus allowance plus the reserve of the review is.
`Writes`: what writes is what the record names, and nothing writes while the
round checks, commits or reviews. `Evidence` has three parts: every set of
results, in memory or saved, is about one content and one identity, and that
identity was taken from the content it names (`Sound`); from the finalization
on there is a full set of results about the content, agreement and tools as they
are `Now`; and a round that returns for the verification alone has a verified
site. This is what makes reuse by identity right, because `Reusable` never
looks at the content.

*`Inv` of `MaintenanceProofs`* is `TypeOK`, `OneChain`, `BoundIsQueued` and two
parts. `Requests` says of every request what it relies on where it is
(`Holds`): the task it claimed or found, that its run is for this task, that a
revision's run is linked before it is dispatched, and was handed to the queue
before it is bound. `Continued`: a base that is not the branch is the
predecessor's delivery, and a run dispatched for one keeps to it (`Keeps`).
Tasks and runs only grow in what requests rely on (`Grows`), so a step of one
request, of a run or of a restart takes nothing away from another.

*The invariants of `BacklogProofs`* build on each other. `Shape`: every name is
one of its inode's task, and what a worker remembers fits where it is. `Owned`:
no two workers hold the same entry, an entry in hand is there, and between link
and unlink it has both names. This is where the hard link is the claim:
`ClaimLink` succeeds only where the name is free, so it makes one owner, and
nobody but the owner takes the name away. Only a lone worker recovers, scans or
parks what it did not dispatch; with several, `running` is empty when they start
and nothing waits. `Granted` counts: what was begun of a file, its names in the
inbox and the hands that will dispatch it (`Taken`) are together at most what was
asked for, so a claim moves one request from a name to a hand and no other
action makes one. A worker that has linked an entry whose name in inbox another
file has taken since counts as such a hand, because a person's rename may fall
between the link and the unlink. `Kept`: while a worker is between the two system
calls of a parking, the name it has reserved stands for the inode it moves
(`Reserved`), so the unlink removes one name of two; what a worker has just
linked still has its name in inbox (`Paired`); and a name that somebody is about
to put into inbox is still free there (`Unused`), for which `OneEach` is needed
and enough: claims and parkings only take names out of inbox.

**Only model-checked:** of the backlog `NothingLost` for several workers with
revivals (`backlog_pair` has one); and every liveness property
(`ActiveSettles`, `FeedbackMoves`, `RoundEnds` twice, `Drains`, `Converges`),
which is beyond this prover.

## 7. What is not modelled

`PROJECT.json` lists every component with its status. In the modelled ones:

- *run lifecycle*: the graceful stop (`close()`, after which `_submit` raises
  and `_fail` moves an approved run to `needs_human`), the observation of
  merges, rounds of inspections and of skill ingestion, the policy store, and
  the idempotency keys of requests;
- *conversation*: daily chat without a project, maintenance conversations,
  drafts, versions and skills of an agent;
- *task graph*: an exception while events are written in the middle of a call
  (which loses the usage record), the content of prompts and checks;
- *continuous coding*: how a check is run and how a worktree is guarded;
- *backlog*: result files, journal, file systems without hard links;
- *billing*: token quotas and user credits. `Governance.reserve` and `settle`
  have no caller under `src/`, so there is no protocol to model yet;
- *publication*: the observation of merges (`observe_merge`, `sync_merge`), and
  several commits or branches of one run;
- *maintenance*: tasks that are created directly, exports and receipts, tokens
  and probes, and the generic retry of a run that belongs to a task.

Not modelled at all: inspections, deploy and remote
targets, dispatcher rounds, planning, skill ingestion, knowledge,
providers, administration, the command line and the front end. The first three
and skill ingestion have control worth a model (section 8); the others are
external I/O, text construction, single transactions or sequential tools, and
appear as outcomes.

## 8. Plan

1. *Done*: the seven models above, their runs, the refinement of `PlanDelivery`,
   and the proofs of section 6.
2. Proofs: of the backlog, which condition on several workers and revivals
   `NothingLost` needs, and on several workers `NoSuccessorGivenUp`;
   of the run lifecycle, which crashes and approvals `ActiveHasOwner` survives.
3. The observation of merges in `Publication`.
4. `DispatcherRounds` (attempts, escalation of one backlog task) and the durable
   claims of background turns.
5. Graceful stop, inspections and skill ingestion as further worker paths of
   `RunLifecycle`.

Modules to be proved about use recursive functions or folds, never recursive
operators.
