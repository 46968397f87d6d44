# mergetrain in TLA+

Specifications of the merge queue of this repository, the TLC runs that check
them on small instances, and machine-checked proofs of their central
invariants. Paths below are relative to the repository; the package is
`src/mergetrain/`.

## 1. The system

mergetrain is a merge queue on one machine. Agents enqueue task branches into a
SQLite table; one *runner* at a time takes queued jobs, merges them onto the
integration ref in FIFO order, gates the result and, after an approval, pushes
it atomically to the configured refs. There is no server: the queue is what the
processes that open the database do to it, so every component is a transaction
script and every hard problem is one of interleaving, crash or lost reply.

| Component | State | Operations | Properties that make it correct | Modelled |
|---|---|---|---|---|
| Queue store (`persistence/jobs.py`, `claims.py`, `schema.py`, `transactions.py`, `models.py`) | `deploy_queue` rows: status, claim token, cancel request, pending-deploy marker, train | enqueue, claims, `mark_job`, cancel, dismiss, retry, supersede, train and head queries | `OneWholeTrain`, `OrderedLanding`, `CancelHonoured`, `RunsOnce`, `ReplacesRetired`, `AutoGranted`, `LandsInOrder` | `Store` and its callers; `TrainQueue` |
| Runner lease (`persistence/leases.py`) | one `locks` row, and what the owner's PID says | acquire with takeover, renew, release, orphan split, force-clear | `OneClaim` | `Lease` |
| Push (`atomic_push.py`, `push_liveness.py`, `persistence/recovery.py`) | write-ahead marker, push lock inherited by `git push` | record, hold lock, pulse, push, judge, clear | `PushIsOnRecord`, `OnePush`, `DeployedLanded` | `Runner`, `Remote` |
| Train runner (`git_runner.py`) | stack of `process_batch` frames | assemble, gate, isolate, record train, push, finish | all of the above | `Runner` |
| Failure isolation (`git_runner.py`) | probe cache, blamed jobs, conflict sets | gate a train, bisect, minimise, remove, rerun, fall back to one-job trains | `BlameIsJust`, `TrainEnds` | `Bisect` |
| Gate runner (`gate_runner.py`) | completed gates, a wave of gate threads, its stop event | start a wave, run, watch, collect | `PlanGoesOn`, `PlanIsHonest` | `GatePlan` |
| One gate command (`command_runner.py`, `mcp_server.py`) | a process group, the CLI that runs it, the server that runs the CLI; their grace periods | run, pulse, time out, TERM, KILL, cancel, SIGINT, exit | `GateIsStopped`, `StopCompletes` | `CommandRun` |
| Validation reuse (`validation_reuse.py`, `reuse.py`, `worktree_manager.py`) | a validated train's identity (base, heads, policy, toolchain, age, commit), the workspace's cache marker | gate, record, decide, rerun, push | `LandedGated`, `ReuseIsSound` | `Reuse` |
| Deploy plan and approvals (`deploy_plan.py`, `claims.py`, `daemon.py`, `mcp_server.py`) | the plan a human saw, the `--auto` of a row | ask, agree, claim, check again, push | `ShippedAsApproved` | `Approval` |
| Post-push verification (`git_runner.py`, `commands/recovery.py`) | `verify_status`, `deployment_id`, the hooks' policy of a row | inline verify, `mergetrain verify`, `--ack`, reconcile | `VerifiedByItsHooks`, `SettledForGood` | `Verify` |
| Reconcile and unlock (`recovery.py`) | rows read before the remote is asked | ask, probe the push locks, read ref by ref, apply; unlock with a heartbeat watch | `VerdictAfterPush` | `Reconcile`, `Lease` |
| Garbage collection, recovery pins (`git_ops.py`, `recovery.py`, `commands/recovery.py`) | worktrees, branches, `refs/mergetrain/pending/*` | `gc --apply --delete-branches`, one read or removal at a time | `NothingTaken` | `Gc` |
| Daemon (`daemon.py`) | none between ticks but a lease it could not release | pause, clear own lease, recover orphans, claim | `ClaimEnds`, `AutoWorkStarts` | `Runner` |
| Hub (`registry.py`, `hub_daemon.py`, `commands/hub.py`) | `repos.json` and its lock; a sweep's pool | add, remove, sweep, stop | `SweepFollowsRoster`, `HealthyServed` | `Hub` |
| Notifications (`notify.py`) | last outcomes, undelivered events, the state file | sweep, send, save, restart | `DeliveredOnce`, `KeptIsSent` | `Notify` |
| Event stream (`commands/inspection.py`, `persistence/events.py`) | a follower's cursor and what it last saw | poll (five reads), print, sleep, end | `StreamIsComplete`, `StreamEnds` | `Stream` |
| Operator commands (`commands/`) | none | validate, deploy, enqueue, retry, supersede, cancel, dismiss, verify, reconcile, unlock, gc | | with the component they act on |
| Git remote (external) | refs, audit refs, pushes under way | land, refuse, drop, land late; others' pushes and rewrites | `LandingsKept` | `Remote` |
| Configuration, evidence, snapshots, metrics, argument parsing, MCP transport, demo, platform support | | | | no: section 9 |

How they interact. Every write is one `BEGIN IMMEDIATE` transaction
(`transactions.py`), so one transaction is one step of the model and anything
may happen between two. A claim acquires the lease and takes its rows in one
transaction; its token fences each later write of the run
(`expected_claim_token`). Acquiring a dead runner's lease *splits* its rows by
what they carry: a marker parks the row for reconcile, a cancel request cancels
it, otherwise it is requeued. A push is announced by the marker, protected by an
OS lock that the `git push` process inherits and keeps past the runner's death,
and judged by the exit of the client; whatever that cannot decide is parked for
`mergetrain reconcile`, which reads the remote.

What is hard here: runners that die at any instruction and leave a `git push`
alive; leases that expire under a sleeping owner; PIDs that are reused; a cancel
racing the marker; replies that are lost; verdicts applied after the state they
were made from; a train whose rows are written one at a time. Around the queue,
the difficulty is the time between a look and an act: an agent reads Git and
then enqueues, a human approves a plan and a runner ships it minutes later, gc
finds a worktree free and then removes it, a follower reads rows and then
events. Nothing holds a lock across these, so each must be decided again where
it is acted on. The "hazards" of `PROJECT.json` list all of this with the line
where it bites.

## 2. The modules

    Store     the table and every write of a row; which rows a claim takes
      Lease     the locks row, takeover, split, release, unlock   (extends Store)
      Remote    the Git remote and the pushes under way to it     (extends Store)
        Runner    a process from claim to release                 (Lease, Remote)
          Reconcile   mergetrain reconcile --apply                (extends Runner)
            Mergetrain  operator, crashes, everything; properties (Reconcile)
              MCMergetrain  symmetry
    Ledger      the abstract specification, implemented by Mergetrain
    TrainQueue  how rows come and go: enqueue, retry, supersede
    Approval    what was approved and what is shipped
    Reuse       when a validated commit is pushed without its gates
    Verify      what becomes of a deployment after its push
    Gc          what gc may remove beside everything else
    Bisect      how a train that fails its gates is taken apart
    GatePlan    how the gates of one worktree are run
    CommandRun  how one gate command is stopped
    Hub         roster and sweeps;  Notify  messages;  Stream  events --follow
      MCEnds, MCDeploys, MCCommands   instances of these for TLC
    MergetrainProofs; TrainQueueProofs, ApprovalProofs, GcProofs, StreamProofs;
    DeploysProofs, CommandsProofs, EndsProofs                        theorems

**Store.** `job[j]` is the row of submission `j`, whose number is its FIFO rank.
`Marked(r, to)` is the `UPDATE` of `mark_job`: each status clears or keeps the
token, the cancel request, the marker and the train columns as that SQL does.
`Orphaned` is `_requeue_orphans`. `ValidatePick`, `ManualPick`, `AutoPick` and
`TrainPick` are the four claims as functions of the rows *after* the lock was
taken, with the refusals the code makes there. `ReadyTrains` is
`validated_train_summaries`' `deploy_eligible`; `IsHead` is `ordered_head`.

**Lease.** `lock` is the `locks` row with its TTL abstracted to one `expired`
bit; `life[p]` is what `kill(pid, 0)` finds. `Takeover` is `lock_takeover`:
free, split, clear or refuse. `watch` is the lease `unlock --force` has looked
at once and will clear in its last transaction if it was not renewed.

**Remote.** `commit[s]` says which jobs deploy sha `s` contains and on what it
was built; `wire[s]` is the local `git push` of it. A push moves all refs and
the audit ref, or none, and only by fast-forward. `Faults` switches what the
environment may do (refuse, drop, late, foreign, rewrite), so that each run
names its adversary.

**Runner.** `run[p]` is a `process_batch` frame and the isolation loop around
it. Its `pc` follows the order of the code: `assembling`, `gated`, `marked`
(marker durable), `locked` (push lock held), `pulsed` (last lease check done),
`pushing`, `rejected`, `refused`, `finishing` (one status write per step),
`leaving`, `raising` (the two `finally` paths). `plan` holds the writes still to
be made, which are separate transactions in the code; `rest` the one-job trains of
an isolation that are to come, and `stops` whether what its frames recorded so far
ends it, as `_process_isolated_jobs` judges by their results and not by the table.

**Reconcile.** `ReconcileStart`, `Ask` (the rows), `ProbeLock` (one push lock per step;
refuses while a process of that push is alive), `ReadRef` (one push ref per step, while
others move them), `ReadRemote` (the audit refs, then a `Verdict` for each job, or
`Unclear` for any of them), `Apply` (a compare-and-swap on the status alone, as in the
code), `ReconcileEnds`. `asked` holds all it has learned so far.

**Mergetrain.** Cancel, dismiss, retry; lease expiry, crash, PID reuse,
respawn; the whole next-state relation; and the properties.

**Ledger.** What the queue promises, without rows, leases or runners: a
submission's work goes live only under a durable *intent*, with all work of that
intent; an intent is closed as done only after it landed, and given up only
while it did not; done is final. `Mergetrain!KeepsLedger` instantiates it with
the marker as intent and the audit refs as what is live.

**Bisect.** One train from its first gate run until each job has a verdict. The
recursion of `_bisect_failed_train` (`descend`, `minimize_joint_failure`) is
`calls`, the stack of its open calls; a step makes at most one probe, and
`cache` is `probe_cache`. A gate is an oracle. When `steady`, it fails exactly on
the sets that contain one of the combinations `broken`, and the initial states
are all ways to choose them; otherwise each gate run passes or fails as it
likes, and a subset may fail to merge.

**GatePlan.** `run_configured_plan` and its threads: `StartWave` chooses the gates
that are ready, share a group and fit under the worker ceiling; `GateEnds` is a
worker, stopped or not; `Watch` is the monitoring thread, which meets a deadline,
a lost lease (a failed pulse) or a signal; `Collect` joins the wave. The initial
states are all configurations that `config.py` accepts, and in each at most one
gate that was settled before the plan ran.

**TrainQueue.** Rows by id, many for a task. Each agent's command is two steps:
what it reads outside a transaction (`EnqueueReads`, `RetryReads`,
`SupersedeReads`: the branch's head, the destination and policy of the config)
and the transaction (`EnqueueWrites`, `RetryWrites`, `SupersedeWrites`), which
decides again or refuses. Beside them: `Commit`, `EditConfig`, `Drop` (dismiss
and cancel), and a runner reduced to claim, `Record` (one row at a time),
`Outcome`, `Die` and `RecoverOrphans`. `root` in a row is its task, so `RunsOnce`
says that no task is run twice through any chain of retries.

**Approval.** `disk` is what config file and Git config say now, `row` the queue
with the approval each `--auto` left, `run[p]` a process from showing a plan to the
push, `agreed` the plans a human said yes to and `pushed` what reached a remote. A
daemon, a terminal and an MCP client differ in where they resolve the
destination; each re-check (claim, before the marker, before the push) is a step
at its place, and every edit may come between.

**Reuse.** One train from `Validate` through its gates, `Record`, and a later deploy
that decides (`validation_reuse.decide`, in its order of checks) whether to push
the validated commit, and which gates to run again. `ran` records which gate
passed on what; `cache` whom the persistent directories hold output of, beside
the `marker` file that should say so. A workspace that is gone is made anew, its marker
removed first (`Fetch`); caches of another identity are emptied directory by directory
(`EmptyCache`), and only then the marker is replaced (`WriteMarker`).

**Verify.** A runner from its push on (rows recorded one by one, hooks, result), and
`mergetrain verify` commands: pick a deployment, check its policy, run hooks
under no lock, look at the rows again and write the result to all of them.

**Gc.** `apply_gc` as the sequence of its reads and removals (`gc` is its position),
with a runner, a verifier, a reconcile and an agent beside it, and crashes.

**CommandRun.** `run_command`'s wait loop and `_stop_process` (`cli`, `why`, `timer`),
the gate as a set of processes of which some ignore SIGTERM and one may not be
signalled, and the MCP server's `_stop_and_drain` and exit. Time passes in ticks
of one grace period.

**Hub, Notify.** `repos.json` edited under its lock by commands that read, change
and replace it; a sweep that reads it once, then what each entry's config says, one after
another while configs are edited (`ReadKeys`), drops opted-out queues and duplicates
(`KeysRead`), and runs turns in a pool. A pass of `deliver_notifications`: messages in order,
what is kept for a failing webhook, its bound, and the state file.

**Stream.** A poll of `cmd_events` is its reads, in order (each job's row, the claim tokens,
the events, the lease); the runner commits between any two. `cursor`, `terminalSeen` and `batch` are the locals of that loop.

These are specifications of their own. What they share with `Mergetrain` (a claim
happens; a push lands) they keep as small as their questions allow; `Bisect`,
`GatePlan` and `CommandRun` are inside one step of `Runner`, which leaves as a
choice what they decide.

**MCEnds, MCDeploys, MCCommands.** Each checks several of these specifications in
one run: the variable `part` says which of them a behaviour is about, that one's
variables start in its `Init` and move by its `Next`, and the others' rest. The
state space is the disjoint union of theirs, and no property is weakened:
a property of a part is its own formula under `part = ...`. They are grouped by
question: what must end, what a deploy goes through, which commands overlap. Where a
run has two instances of one specification (an approval asked for and one taken by
the daemon, a queue and an ordered one, one claim and two), the differences are its
substitutions. Their `ASSUME`s are the assumptions of all parts, which TLC evaluates.

## 3. Abstractions

- *Commits* are numbers; `MayName` says when a merge gives a new commit, the
  tip itself (everything merged already), or the sha of an earlier train (a
  fast-forward merge). Merging onto a foreign tip is taken to give a fresh sha.
- *Fetch, assemble, gate* is one step: it touches no shared state but a private
  worktree. What it decides (which jobs pass, which conflict) is a choice. In
  validate mode the commit built is thrown away, so none is named.
- *Bisection* is, in `Runner`, the choice of rejected jobs (`RejectJob`) and of the
  fallback to one-job trains (`Isolate`); `Bisect` shows how they are chosen. In
  `Bisect` a gate run has two results: a lost lease or a deadline in a probe leaves
  the frame by the paths that are in `Runner`.
- *A train* is named by the claim token of the run that validated it; a run
  validates at most one.
- *Retry* puts a fresh row at the same position (`preserve_order` in the code).
- *Time* is the `expired` bit: a heartbeat clears it, `Expire` sets it. The
  owner liveness UNKNOWN takes the branches of alive and is not distinguished.
- *Daemon PIDs* form a pool: `Respawn` starts a process under a PID no lease names.
- *The reads before a claim* (`has_work` and the like) are not guards: they may be
  out of date when the claim runs, so the model allows the claim either way.
  The two that pause a daemon are guards of the steps that follow them within a
  tick (`Paused`) and are not of its claim.
- *Reconcile* treats one target (one remote and its refs) per call, and reads the audit
  refs of its jobs in one step, after the push refs: an audit ref is written once, and
  no push of a job that passed the lock probe is left to write it (but a late landing).
- `"force"` (dismiss or retry of a reconcile conflict by an operator with
  recovery authority) is in the model and in no run: it waives exactly the
  promises checked here.

- *Identities* (destination, policy, toolchain, plan) are model values: a hash equals
  another exactly when what was hashed is equal.
- *TrainQueue* names a train by a counter and reduces `deployed` to a row that had an
  approval or was validated, on a branch that did not move; what a push is, and
  what a dead runner's marker does to its rows, is `Mergetrain`'s.
- *Gc* leaves out whether a worktree has the branch checked out (Git refuses to
  delete it then) and links that lead out of a worktree. A directory named after a PID
  (a verifier's) is that process's: the reuse of a dead verifier's PID is not in `Gc`.
- *Hub*: a turn is begun and ended; what it does to its queue is `Mergetrain`'s. A
  healthy path that is a duplicate of an earlier, broken one is passed over with
  it, as in the code.
- *Stream* has scoped streams only; heartbeats and polls that find nothing to read
  change nothing that is modelled.

Bounds. `Mergetrain`: `MaxToken` (claims made; `CanAcquire`), `MaxSha` (commits
built), `MaxMoves` (moves of the branch by others). The others name theirs in
`CONSTANTS`: rows, edits, commands, deaths, runs, sweeps, reports, crashes,
clock. When they are used up the system stops, so the runs do not check for
deadlock: a queue in which everything is settled is a legal end.

## 4. The runs

`PROJECT.json` lists the runs with their properties, and for each property a
mutant: a change of one definition, of the kind a bug in that code would be,
that the run finds. Where a property is a conjunction, the modules hold further
definitions marked `Mutant:`, which break its other conjuncts.

### The composition

Each run of `MCMergetrain` has two submissions, because every train property needs two and FIFO
has two ranks; two processes, because each race below is between two; and a set
of faults. What one run leaves out another has. Two jobs, two processes and
three claims already reach: a dead runner with its push alive, a takeover by
another process, a reconcile, and a second deploy of the same job.

| Run | Instance | Faults | Checks |
|---|---|---|---|
| Crash | 2 commands, 4 tokens | crash, expire, reuse, drop | `TypeOK`, `OneClaim`, `PushIsOnRecord`, `OnePush`, `VerdictAfterPush`, `KeepsLedger` |
| Operator | 2 commands, 5 tokens | cancel, dismiss, retry, stop, busy, refuse, drop, timeout | `OneWholeTrain`, `CancelHonoured`, `KeepsLedger` |
| Remote | 2 commands, 2 refs, 5 tokens, 2 moves of the branches by others | crash, drop, timeout, refuse, unclear, offline, foreign, rewrite | `LandingsKept`, `KeepsLedger` |
| Daemon | 1 command, 1 auto-deploy daemon, 3 tokens | crash, cancel, stop, busy, stale, drop, refuse | `HealedClaims`, `VerdictAfterPush`, `CancelHonoured` |
| Ordered | ordered processing, 1 command, 1 validating daemon, 4 tokens | crash, cancel, dismiss, retry, stop, drop, late, error | `DeployedLanded`, `OrderedLanding` |
| Progress | 1 command, 2 auto-deploy daemons, 2 tokens, fairness | crash, drop, timeout, busy, cancel | `ClaimEnds`, `AutoWorkStarts` |
| AliveOwner | 2 commands | expire | `AliveOwnerKeepsLease`, violated |
| StaleVerdict | 1 job, 2 commands, 1 daemon | expire, stall, crash, drop | `NoStaleDecision`, violated |
| PushError | 2 commands | error | `AmbiguousNeverFailed`, violated |

`OneWholeTrain` is `SingleReady` and `TrainWhole`; `LandingsKept` is
`DeployedLanded` and `PushIsOnRecord`; `HealedClaims` is `OneClaim`, `PushIsOnRecord`,
`OnePush` and `PushAwaited`.

What the passing runs show, in words:

- `OneClaim`: the rows in progress belong to one claim, and to the lease while
  there is one, although a command leaves rows behind when it raises, a daemon
  may keep its lease, and a lease may be stolen.
- `PushIsOnRecord`: every job of a push under way or landed carries that push's
  marker or is recorded deployed. This is the write-ahead promise; it holds at
  every crash point, cancel, steal and reconcile of the runs.
- `VerdictAfterPush`: nothing gives up a marker while its push could still land.
  It is the reason reconcile looks for the push's processes before it reads the
  refs, and the reason the runner checks its lease *under* the push lock.
- `PushAwaited`: while a push is under way each of its jobs is in progress or parked,
  with its marker; nothing records one failed, blocked, canceled or queued meanwhile.
- `OnePush`, `DeployedLanded`, `TrainWhole`, `SingleReady`, `OrderedLanding`,
  `CancelHonoured`: as named.
- `KeepsLedger`: the composition, refined.
- `ClaimEnds`, `AutoWorkStarts`: no claim is stranded and no approved job starved,
  except that both wait, visibly, for a pending reconcile: a daemon never judges
  a push by itself.

Gaps the runs keep open on purpose. *Late landings* (`"late"`) are in the Ordered
run only: `docs/failure-modes.md` names the gap (a server may apply a push after
reconcile has read the remote), and `PushIsOnRecord`, `VerdictAfterPush` and
`KeepsLedger` do not hold with it; `DeployedLanded` and `OrderedLanding` do.
A *reconcile that outlives its lease* (`"stall"`) is in StaleVerdict only; the
other runs assume that a reconcile ends within one TTL. An *unexpected
exception in the push* (`"error"`) is in PushError and Ordered.

### The parts

The initial states of a run choose the part. A part's properties are checked in
its states alone, and every action of every part happens in its run.

| Run | Part | Instance | Checks |
|---|---|---|---|
| Ends | `Bisect` | 4 jobs, all 168 choices of failing combinations or flaky gates, deploy or validate | `BlameIsJust`, `TrainEnds` |
| | `CommandRun` | a gate of 3 processes: two ignore SIGTERM, one may not be signalled; a CLI that may wedge, a server | `GateIsStopped`, `StopCompletes` |
| | `Notify` | 2 repositories, one whose webhook never answers; 2 kept events, 3 reports | `KeptIsSent` |
| | `Stream` | 2 jobs of one claim with 4 events kept; 1 job claimed twice with polls of 2 events | `StreamIsComplete`, `StreamEnds` |
| | `Hub` | 3 paths, 2 queues, one worker, a config that breaks, 2 sweeps | `HealthyServed` |
| Deploys | `Approval` | a daemon, a terminal, an MCP client and 1 job, 2 edits; a daemon and a train of two `--auto` jobs, 3 edits | `ShippedAsApproved` |
| | `Reuse` | 3 gates (always rerun, scoped by paths, plain), rerun and fail modes, 2 moves, 2 runs | `LandedGated`, `ReuseIsSound` |
| | `Verify` | 2 jobs, 2 verify commands, 2 policies and none, 2 edits | `VerifiedByItsHooks`, `SettledForGood` |
| | `GatePlan` | 3 gates, 1 group, 2 workers, every accepted configuration | `PlanGoesOn`, `PlanIsHonest` |
| Commands | `TrainQueue` | 2 agents, 2 branches, 2 approvals, 3 rows, 3 commands, 1 edit; the same ordered with 1 death | `RunsOnce`, `ReplacesRetired`, `AutoGranted`, `LandsInOrder` |
| | `Gc` | 1 branch, 2 rows, 2 commits, 2 runs, a reconcile; the same with a verify | `NothingTaken` |
| | `Hub` | 3 paths that share a state root or only a database, 2 commands, 2 workers | `SweepFollowsRoster` |
| | `Notify` | 2 repositories, webhooks, configs and saves that fail, 1 crash | `DeliveredOnce` |

What they show:

- `BlameIsJust`, `TrainEnds`: bisection blames on evidence, even when gates change
  their mind between two runs; when they do not, its verdicts are exactly those
  of the definition of a minimal failing combination. Four jobs are the fewest
  for which it probes by halves (up to three it probes job by job) and for which
  a failing combination can lie across the halves, and be one of two that overlap.
- `PlanGoesOn`, `PlanIsHonest`: the two scheduler errors in `gate_runner.py` are
  unreachable from an accepted configuration, and no order of worker exits and
  troubles lets a plan pass with a gate that did not, or reports a cancellation
  in place of its cause. Three gates are enough for a group beside a gate alone,
  before or after it, and for a group that needs two waves.
- `GateIsStopped`, `StopCompletes`: whatever deadline, cancellation, lost lease or server
  exit meet, and with one SIGINT at most, no gate process that could be signalled
  outlives a CLI that had to stop it, except when the interrupt comes together with a
  lost lease (the run CommandTwice shows what happens then); the verdict belongs to
  what happened, the server's patience outlasts the
  CLI's own escalation, and a stop ends even when the CLI is wedged. Three
  processes, because the leader, a child that outlives it and one that cannot be
  signalled each take another branch of `_stop_process`.
- `ShippedAsApproved`: with every edit at every step, also one that is undone, what
  reaches a remote is the destination, policy and commits of an approval.
- `LandedGated`, `ReuseIsSound`: what lands was gated as it lands, whether its gates
  ran again or not; a declined reuse in fail mode lands nothing; the workspace's
  caches are never taken for another identity's, at any crash. Two runs suffice
  for a validation, its deploy, and a drift of anything between them.
- `VerifiedByItsHooks`, `SettledForGood`: a deployment of two rows is settled as one
  and only once both are recorded, by the hooks it was pushed with or by a person,
  and what is verified is not taken back by a slower command.
- `RunsOnce`, `ReplacesRetired`, `AutoGranted`, `LandsInOrder`: two agents and three
  commands are enough for two overlapping enqueues, retries or supersedes of one
  task with another row beside them.
- `NothingTaken`: between any two reads and removals of gc, a run or verify may start
  and die, an agent commit, a reconcile settle a row: the worktree in use, the
  commit that did not land and the pin that may be needed stay.
- `SweepFollowsRoster`, `HealthyServed`: overlapping edits of the roster lose no opt-out,
  an opted-out queue gets no turn by another path, no queue two turns, a signal's
  sweep is the last, and a failing repository costs the others nothing.
- `DeliveredOnce`, `KeptIsSent`: a message is received once and in order, or kept, or
  lost to a named cause (the limit, a crash before the save, a failed save, a
  config that does not load); one kept for a webhook that answers again does not stay
  kept: it goes out, or the limit drops it for newer ones.
- `StreamIsComplete`, `StreamEnds`: a follower prints every event of its jobs once and
  in order although its reads are of different snapshots, and ends when they do.

## 5. Fairness

`FairSpec` assumes weak fairness of the steps of a started run or reconcile (a
process that is not stopped keeps executing), of a daemon's claims and of
`Respawn` of a daemon (`docs/daemon.md` asks for cron, launchd, systemd or a
supervisor). Nothing is assumed of operators, of crashes, of failures, of the
remote or of lease expiry; commands are never obliged to start. A `git push`
that never answers is covered: the timeout is enabled while the push runs.

In `Ends` each part has the fairness of its own specification and no more:
`Bisect` `WF(Next)`, since the whole of it is one thread and each command of a
probe ends within its timeout; `CommandRun` weak fairness of time, of the CLI's and
the server's own steps, and of the exit of a process that SIGKILL or SIGTERM must
end (never of a gate that is merely running); `Stream` of the follower's reads and of
the event that follows a committed status; `Hub` of the loop and of the end of each
turn, which `daemon_tick`'s timeouts bound; `Notify` of the pass and the restart, and
strong fairness of a successful `Send` to a repository in `Answers`, which is what
"its webhook answers when tried again and again" means.

## 6. Findings

1. `AliveOwner`. `docs/design.md` says an alive owner is never stolen, even past
   its TTL. `lock_takeover` clears an expired lease of an alive owner when no row
   is in progress, which is the lease a sleeping `reconcile` holds. The document
   overstates; what the code needs, that no *claim* is stolen, is `OneClaim`.
2. `StaleVerdict`. The comment in `recovery.py` `_apply` promises that a stale
   decision never overwrites newer state. The write compares the status only. A
   reconcile that stalls past its lease can meet the same status again on a
   later attempt with another marker, and write the old verdict over it.
3. `PushError`. `docs/failure-modes.md` says that a push error after the marker is
   durable is never made terminal `failed`. An exception that is not a
   `CommandFailed` reaches the last `except` of the frame and does so; the row
   keeps its marker but is not a reconcile conflict, so retry and dismiss need
   no `--force`.

### Further disagreements

Each of these was met while modelling. The configuration named checks one
property, stating what the document or comment says, and TLC finds it violated
(`tlc -config StreamEarly.cfg Stream`).

| Config, module | What is said | What the code does |
|---|---|---|
| NotifySave, `Notify` | `notify.py:322`: a failed save "only risks one extra notification" | the same file holds kept events: save fails, daemon dies, the event is lost |
| NotifyConfig, `Notify` | `notify.py:229`: a failed message is kept "until it is delivered" | a config that does not load at the next sweep makes `deliver` return (`hub_daemon.py:235`), which counts as delivered |
| HubQueue, `Hub` | `docs/hub.md:104`: the opt-out "follows the repo's queue rather than the registered path" | if the opted-out path's config does not load, a queue moved by `state.db` is not recognised by another path (`hub_daemon.py:77`) |
| CommandServer, `CommandRun` | `docs/mcp.md:255`: stopping the server "stops any CLI still running first" | a CLI a request is already stopping is forgotten when that task is cancelled (`mcp_server.py:349`) |
| CommandTwice, `CommandRun` | `docs/mcp.md:251`: "the gate process is not left running invisibly" | a SIGINT during `_stop_process` ends the escalation before SIGKILL (`command_runner.py:422`) |
| StreamEarly, `Stream` | `commands/inspection.py:512`: the stream reads the events once more after the final status, "and only then ends" | after a full poll that next read follows without the interval that gives the runner time (`inspection.py:518`) |
| StreamLost, `Stream` | `docs/failure-modes.md:330`: `lost_lease` is an abandoned run | a run that finishes between the read of the rows and of the lease, twice, looks like one |
| StreamGap, `Stream` | `docs/contract.md:272`: the scoped stream has the phases as they are recorded | a claim between the read of the tokens and of the events moves the cursor past its train-level event (`persistence/events.py:121`) |
| VerifyAll, `Verify` | `commands/recovery.py:300`: every deployment that `--job` would accept | one whose policy changed ends the command before the rest (`commands/recovery.py:323`) |
| ApprovalRace, `Approval` | `docs/daemon.md:16`: the destination must match inside the claim transaction | the daemon resolves it before (`daemon.py:237`), so a job is blocked that fits; none is shipped that does not |
| ReuseDrift, `Reuse` | `docs/design.md:428`: only the unchanged case reuses | the toolchain is fingerprinted after the gates ran (`git_runner.py:1377`) |
| GcLate, `Gc` | `commands/recovery.py:92`: a runner that took the lock after the snapshot "must still be spared" | the second look and the removal are two steps (`git_ops.py:621`); needs a gc that read a config with the persistent workspace off |

## 7. The proofs

Eight modules prove, for every value of the constants that satisfies the modules'
assumptions, what the runs show on small instances: any finite set of jobs, any
processes, daemons, refs, faults and bounds; any agents, branches, gates, paths,
repositories, cardinalities and limits. Every safety property of the passing runs, the
action properties and the refinement among them, is the conclusion of a theorem;
liveness is not.

    MergetrainProofs      Mergetrain: TypeOK, OneClaim; what a deployed row is evidence of;
                          what a marker promises; the refinement; FIFO and whole trains
    TrainQueueProofs, GcProofs
      CommandsProofs      the run Commands; Hub, Notify
    ApprovalProofs
      DeploysProofs       the run Deploys; Verify, Reuse, GatePlan
    StreamProofs
      EndsProofs          the run Ends; Bisect, CommandRun

| Theorem | Statement | Hypothesis |
|---|---|---|
| `TypeCorrect`, `OneClaimHolds` | `Spec => []TypeOK`, `Spec => []OneClaim` of `Mergetrain` | |
| `DeployedLandedHolds` | `Spec => []DeployedLanded` | |
| `OrderedLandingHolds` | `Spec => OrderedLanding` (an action property) | |
| `PushIsOnRecordHolds`, `OnePushHolds` | `Spec => []PushIsOnRecord`, `Spec => []OnePush` | `Recoverable` |
| `LandingsKeptHolds`, `HealedClaimsHolds` | `Spec => []LandingsKept`, `Spec => []HealedClaims` | `Recoverable` |
| `VerdictAfterPushHolds`, `CancelHonouredHolds` | `Spec => VerdictAfterPush`, `Spec => CancelHonoured` (action properties) | `Recoverable` |
| `NeverFailedUnresolved` | `Spec => [](AmbiguousNeverFailed /\ PushAwaited)`: a failed row has no marker, the promise that the run PushError refutes when its fault is there; and while a push is under way each of its jobs is in progress or parked, with its marker | `Recoverable` |
| `OneWholeTrainHolds` | `Spec => []OneWholeTrain` | `Recoverable` |
| `KeepsLedgerHolds` | `Spec => KeepsLedger`: `Mergetrain` implements `Ledger` | `Recoverable` |
| `QueueRunsOnce`, `QueueAutoGranted`, `QueueReplacesRetired` | `Spec => []RunsOnce` and so on, of `TrainQueue` and of `MCCommands` | |
| `QueueLandsFirst`, `QueueLandsInOrder` | `Spec => [][LandsFirst]_vars` of `TrainQueue`, `Spec => LandsInOrder` of `MCCommands` | `Ordered` for the first |
| `GcKeepsCommits`, `GcKeepsPins`, `GcSparesWorktrees` | `Spec => []CommitsKept`, `[](TypeOK /\ PinnedUntilKnown)`, `[]WorktreeSpared` of `Gc` | `~MayTurnOff` for the last |
| `GcTakesNothing` | `Spec => []NothingTaken` of `MCCommands` | |
| `SweepsFollowRoster`, `NotifiesOnce` | `Spec => []SweepFollowsRoster`, `Spec => []DeliveredOnce` of `MCCommands` | |
| `ApprovalTypeCorrect`, `ApprovalShipped`, `ShipsAsApproved` | `Spec => []TypeOK`, `Spec => []ShippedAsApproved` of `Approval`, the latter also of `MCDeploys` | |
| `LandsGated`, `ReusesSoundly` | `Spec => []LandedGated`, `Spec => []ReuseIsSound` of `MCDeploys` | |
| `VerifiesByItsHooks`, `SettlesForGood` | `Spec => []VerifiedByItsHooks`, `Spec => SettledForGood` of `MCDeploys` | |
| `PlanAlwaysGoesOn`, `PlanAlwaysHonest` | `Spec => []PlanGoesOn`, `Spec => []PlanIsHonest` of `MCDeploys` | |
| `BisectBlamesJustly`, `GateStopsWhole` | `Spec => []BlameIsJust`, `Spec => []GateIsStopped` of `MCEnds` | |
| `StreamSkipsNothing` | `Spec => [](InOrder /\ NoJobEventSkipped)` of `Stream` | |
| `StreamEndsInTime`, `StreamTellsAll` | `Spec => [](EndsAfterAnnounced /\ LostIsLost)` of `Stream`, `Spec => []StreamIsComplete` of `MCEnds` | `OneClaim` of `StreamProofs` |

The assumptions on the constants are those declared with them, and `DeploysAssumption`,
`CommandsAssumption` and `EndsAssumption` are their conjunctions for the parts of a run. In
`Mergetrain`, jobs are a finite set of numbers, `AutoJob` a subset of them, daemons
processes, `Main` a ref, the bounds natural numbers. `Approval` has a URL, refs, a policy
and a commit; in `Verify` a deployment's number is not 0 and some policy has hooks; the
gates of `Reuse` include those that always run and those selected by paths; those of
`GatePlan` are a finite set of positive numbers, in the order they are declared. `Bisect`
has a finite set of jobs, `CommandRun` a group with a leader that may be signalled,
`Notify` a finite set of repositories, `Stream` a finite set of jobs and a scope among
them. In `Hub` the relations "same directory", "same state root" and "same database"
are partitions of the paths, and the pool has a worker.

`Recoverable` says that four of the faults are not among `Faults`. All others may be,
in any combination: crashes, PID reuse, expiry, lost replies, timeouts, refusals, foreign pushes
and rewrites, cancels, dismissals, retries, stops, an offline remote. Each of the four really breaks one or
more of these promises, so the hypothesis cannot be dropped:

- `"late"`: the server applies a push after its client died and the reconcile has read
  the refs. `docs/failure-modes.md` names this gap; no write-ahead record closes it.
- `"error"`: an unexpected exception after the marker is durable ends as `failed`
  (finding 3; the run PushError is the counterexample).
- `"stall"`: a reconcile outlives its lease and writes an old verdict (finding 2; the
  run StaleVerdict).
- `"force"`: an operator dismisses or retries a reconcile conflict by force, which
  waives the promise by definition.

`DeployedLanded` and `OrderedLanding` survive all four and are proved with them. The other
hypotheses are as necessary: GcLate shows a worktree lost where configs may turn the
persistent workspace off, StreamEarly and StreamLost what a stream does when a poll
can be full or follows too soon.

### The composition

`TypeOK` is inductive by itself. `OneClaim` is inductive with it:
the rows in progress change only in four ways, and there is a lemma for
each. (a) A claim: `Takeover` refuses when rows are in progress under a live
lease, so the rows it starts from, split or not, have none in progress, and the
new ones carry the new lease's token (`AcquireClears`, then `ClaimTaken`). (b) A split leaves
no row in progress (`SplitClears`). (c) A write of an outcome takes rows
out of `in_progress` and touches no other token (`ClaimsOnlyEnd`). (d) Releasing a lease only
weakens the second conjunct. The step proof has one step per action, and the
actions that change neither rows nor lease fall under one lemma (`LocalStep`).

`DeployedLanded` alone is not inductive: a row becomes deployed because a push
succeeded, or because all refs contain its marker, and neither says that the
commit pushed, or the marker, has to do with that row. `LandingInv` says so, at
each place a commit is named: the commit a run pushes contains every job of its
frame, a marker is a commit that contains its row's job (`Traced`; or the job had
landed before, when merging it again gave the tip), so is the marker in a row
that a reconcile has read, however old, and a planned `deployed` is a job that
landed. With it: the push refs and the tip contain only landed commits, and only
commits that were built are pushed. Commits keep their jobs and audit refs stay
(`Grows`), so evidence once true remains so, and a step has to be looked at only
where it writes some.

`PushIsOnRecord` needs to know who may write to a row whose push is unresolved.
`RecordInv` answers by following the lease. A process owns rows only while it holds
the lease (`OwnerHolds`). The commit a frame carries has exactly the frame's jobs,
and from the marker on each of its rows names that commit (`FrameOK`, `MarkersOK`). A
push comes under way (`Flight`) only by the last lease check under the push lock; so
whoever holds the lease before that point knows that no push is under way at all
(`LeaseOK`). A reconcile that has asked holds an unexpired lease and no row is in progress, so the
rows it has read are still what is in the table when it writes, and a push that is under
way while it probes belongs to a job it has yet to probe (`AskOK`); past the probes there
is none, so no ref it read can come to contain one of its commits. Then a push under
way has its rows in progress or parked (`FlightOnRecord`, which is `PushAwaited` and, with
the marker cleared from failed rows, `NeverFailedUnresolved`), and a push under way or
landed has every one of its jobs deployed or marked with it (`OnRecord`, of which
`PushIsOnRecord` is a part). Most steps of the proof do not look at the
invariant at all: they show that each row moves as in `Careful` (a push under
way keeps its row, a marker is given up only for a deployment or after its push
failed for good, a cancel request is never dropped), and what the
step leaves alone of the processes. `VerdictAfterPush` and `CancelHonoured` are then read off
`Careful`, and `OnePush` is a conjunct (`OneFlight`).

The refinement is proved step by step. A write to the rows is one of four kinds, and a
lemma maps each to the ledger: it keeps every marker (a stutter, or a withdrawal); it
writes one row (which withdraws, settles or gives up); it is `record_pending_push` (opens
an intent with all jobs of the frame); or it takes back the markers of a refused push
(gives the intent up, which `RecordInv` allows because that push did not land). The
remote's landing is the ledger's, since what is landing is on record.

`OrderedLanding` follows a job from its claim to its commit (`FifoInv`): when it is
claimed, every earlier row is deployed or canceled; those statuses are final; a frame
only loses jobs and a commit is built of its frame. What a reconcile is about to write over was
unresolved when it asked, so no verdict takes a final row back, not even a late one.

`OneWholeTrain` is about rows written one at a time that must be found together later
(`TrainInv`). A run that validates does so beside no Ready train but its own
(`ValidatesAlone`); beside a validated row, nothing of its train is under way or deployed
(`TrainWaits`); only a deploy of a train holds rows that are in one (`OutOfTrains`), and it
holds all of it, as many as were validated (`WholeClaim`); so a commit that is under way
or landed carries its trains whole (`WholeTrain`). The steps fall into a few kinds:
rows leave a train only for the queue (`Loosens`, `Fades`), validated rows leave together
(`Together`), a run goes on with the rows it has or has none (`GoesOn`, `HasNoRows`), and no
push comes under way (`NoneSent`); the steps that do more, a claim, a recording, a push,
have lemmas of their own.

### TrainQueue

`RunsOnce` and `AutoGranted` are inductive together with the types of rows and
commands (`Types`), and with `RootsOld`: a task's root is no younger than its rows,
so a new id is a new task. Every transaction of `TrainQueue` leaves the rows it finds,
or takes some out of the running (`Quieter`: branch, task, place and approval stay, a
canceled row is final, no row comes back to life, and one joins a train only when a
runner records it), and appends rows that collide with nothing alive and with
each other (`Fits`). `Extended` proves the three invariants from these two; the
rest is to show them of each action. For enqueue the check in the transaction
gives `Fits` (`EnqueueInv`); for retry the row it retries is blocked, so by `RunsOnce`
it was the only one of its task, and it is canceled in the same step (`RetryInv`); for
supersede the whole train is canceled, and the replacements are an injective
sequence over the branches (`SetToSeqIsInjective`, `RowsFit`, `SupersedeInv`). An
approval that a retry inherits names the same branch, destination and policy, so it
was granted already. The runner's steps append nothing (`Updated`). What a command
has read is assumed to be nothing but well typed: the theorem does not need that it
is still true.

That every step has this shape (`Shaped`) carries the other two without another look at
the actions. `ReplacesRetired` needs `History`: a train that was replaced has a number
that no recording can use again, because a supersede is refused while there is a claim,
and a claim that begins later records under a later number. `LandsFirst` needs `InOrder`:
in ordered processing a row's place is that of its task, and the claimed rows stay the heads
of the queue, since new tasks come after them and a retry keeps its place.

### Approval

`ShippedAsApproved` compares a push with what a human said, long before. The invariant
follows the approval from one to the other. What was asked is the plan that was shown,
and what is executed was agreed to (`AskedOK`). A run of `--auto` jobs has rows of its
own policy from the claim on, and of its own destination from the check before the
marker on (`ByAuto`); a run of a plan pushes that plan or nothing (`ByPlan`). Only one
process works, on the rows in progress (`Leased`), so no other changes a row that it
compared; a row in progress or deployed keeps its approval and its commit. What was pushed stands
in rows that are final, or in a plan that was agreed to (`ShippedOK`).

### gc

gc acts on what it read a while ago, so its invariant says of each thing read that it
stays true or is looked at again. A row that has ended stays ended, a commit that landed
stays landed (`GcOK`); a branch is deleted by its old value, so a commit that an agent
makes meanwhile survives; the directory that gc is to remove is nobody's, since that of
a runner is in the lock it looks into first and those of later runs are new (`Gone`,
`SparesOK`). A push that may be on its way has its marker and its pin
(`SentOK`), because only the holder of the lock settles a row (`LockOK`, `RunOK`).

### The hub

Whoever has read the roster holds its lock, so what it writes back is an edit of what is
there (`HubLockOK`); `OptOutKept` follows from what an edit does to the entries of one
directory. A sweep is judged by the roster it read (`HubSweepOK`): whatever of a config could be read,
an entry's keys have its state root (`HubKnown`), and whose turn is excluded
or skipped is decided from the whole list before the first turn, so of the entries of a
queue only the first may have one. That the pool is never over its size is a cardinality
argument (`HubRunningOK`), that a removal keeps the order of the rest another (`HubRank`).

### Notifications

`DeliveredOnce` says of a list of messages that it is without repetition and in order,
while a pass works on three such lists at once, a restart brings back a fourth, and the
named causes (`Excused`) excuse some. So the invariant has one relation between
messages, `NotifyAfter`, and says which lists are sorted by it and which precede which at each
point of the pass (`NotifySavedOrderOK`, `NotifyPassOrderOK`, `NotifyStateOrderOK`). A new
report gets a later number than all there are (`NotifyIdsOK`). What must be known beyond that
is about transitions, which are not sent while they last: the spell a repository is in has
a message of its own or was settled before the restart (`NotifySpellIds`, `NotifySpellKnown`,
`NotifySpellNewest`), and one that is not settled was neither sent nor kept (`NotifyKeysOK`,
`NotifySavedKeysOK`), else it would be sent twice. `NotifyUnsavedOK` names what a crash would
lose; `NotifyEventsOK` is `NothingLost`, with the messages at hand in each point of the pass.

### Verify

A verify command runs hooks for minutes under no lock, on a policy it compared before.
The invariant says what of that stays true meanwhile: one push gave a deployment all its
rows and one policy (`VerifyDeployments`), a deployed row stays deployed with its policy, so
the row a command works on still has the policy whose hooks it runs (`VerifyCmdOK`), and the
runner records its rows under the policy they carry (`VerifyRunOK`). The second look before the
write then finds the deployment whole, and all its rows have that policy. A verified
deployment has no open row, so that look refuses to settle it again
(`VerifyNothingTakenBack`).

### Reuse

`LandedGated` is about a commit that was gated by an earlier run. Commits of different
runs differ (`ReuseNumbered`), so what passed on a train's commit passed in its validation,
under its policy, or in the deploy that is under way (`ReuseTrainGated`). A run knows what it
has gated (`ReuseRunGated`) and, when it reuses, that base, heads and policy are the train's
(`ReuseRunShape`), which leaves for it exactly the gates that must always run.
`SameToolchain` and `CacheIsOurs` hold until the toolchain changes under a run, so their
invariants are conditional on that (`ReuseUndrifted`, `ReuseCacheOK`). A crash while caches are
emptied leaves the old marker beside what is left of the old identity's output, so the
next run empties them again; a run that comes to write its marker has emptied all.

### The gate plan

Two facts need an induction: that the greedy choice of a wave exists (`PlanGreedyExists`), and
that a plan that is not done has a gate that is ready (`PlanLeastPendingReady`), which
rests on what `config.py` accepts: needs point backwards and a group is contiguous.
Both come from a smallest element, see below. For honesty the invariant is what a wave
is at any moment (`PlanWaveStarted`, `PlanRunningInWave`) and that a stop has its
cause (`PlanStopHasCause`).

### Bisection

The stack of open calls is where the argument lives: each frame says what its call has shown
so far (`BisectGood`). In a `shrink` frame, each job already passed over was needed: without it
a superset of what is left of the others passed (`BisectNeeds`); in a `members` frame the
jobs asked so far passed or failed alone. The probe cache only grows (`BisectGrows`), so
frames below the top stay good. For steady gates a probe's answer is the
oracle's (`BisectCacheOK`), and the verdicts of removed jobs stay exact however the rest of the
train fares (`BisectOutcomeOK`).

### A gate command

`GateStopOK` says at each step of the escalation who has been signalled, `GateKillOK` who
is gone after it, `GateVerdictOK` that a verdict is of what happened to the leader.
`LeaseReleased` is arithmetic of grace periods (`GateTimeOK`): at each place of the CLI's
own escalation the server has at least as much left as the CLI needs to come to its end.

### Streams

`StreamSkipsNothing` holds for any claims and limits: the ids of a poll come after the
cursor, in order, and none of the scope's is left out among them (`BatchOK`), so passing the
cursor over them skips none (`PrintOK`), whatever the runner commits between the reads.
The end of a stream needs `OneClaim`. With one claim the events that will ever be
written are counted (`RunOK`), so no poll is full; a status once read as final is final, and a
claim that is seen to be gone is gone (`SeenOK`); and after a terminal poll the next one
begins when the last event is there (`TerminalOK`). Without it, `EndsAfterAnnounced` and
`LostIsLost` are false, and the configurations StreamEarly and StreamLost show how.

### Induction over finite sets

The provers cannot instantiate the library's induction theorems. What several proofs need
of finite sets is had from one of them that has no such parameter: the strict subsets of a
finite set are a well-founded order (`FS_StrictSubsetOrderingWellFounded`), so a family of
subsets has a smallest member (`SmallestSubset`). The least number of a set
(`LeastOf`), the i-th of a set in order, the greedy wave, the minimal failing combination and
the greatest id of a batch follow from it, each by the family of sets that refutes it.

### How steps are written

tlapm 1.4.5 treats two forms of `EXCEPT` wrongly, so no module uses them: two updates at the same
bracketed index in one `EXCEPT` (given to SMT as if they were of different places), and an
`@` of an inner `EXCEPT` inside one of an outer (expanded against the wrong base). A step
that changes several fields of `run[p]` has one update at `p`, and where a new value needs the
old one, the inner record is named: `[run EXCEPT ![p] = [run[p] EXCEPT !.rest = @ \ {j}]]`.

### What stays with TLC

- Liveness: `ClaimEnds`, `AutoWorkStarts`, `TrainEnds`, `StopCompletes`, `StreamEnds`,
  `HealthyServed`, `KeptIsSent`, under the fairness of section 5. It is out of the prover's
  reach, and so is `ENABLED`.
- The violations, which are counterexamples: the three runs and the configurations of
  section 6.
- The mutants of section 4, which say that a property depends on the code it is about.

## 8. Plan

Done: all modules of section 2, their runs, and a theorem for each safety property of the
passing runs. What could be added is not proof but breadth: the worktree keep
and release columns of a row, unscoped event streams, and `deploy --train-id` among several
Ready trains of an old database.

## 9. Not modelled

- *Platform support* (`windows_job.py`, `runtime.py`, `persistence/connection.py`):
  operating-system and SQLite plumbing. That an IMMEDIATE transaction is one step is
  the assumption all modules rest on.
- *Configuration*: parsing and validation keep no state; what their result is used
  for is in `Reuse`, `Hub`, `GatePlan` and `Approval`.
- *Snapshots, evidence, metrics, `status` commands, MCP read tools, the demo*: they
  project the state that is modelled, and no decision of the queue reads them.
- *The content of merges*, diff-check and gate fingerprints: outcomes of a step,
  chosen freely.
- *Schema migrations* and `deploy --train-id` among several Ready trains, which only
  an old database can hold.
- *Windows* process handling, and unscoped event streams.
- `PulseSchedule` (`command_runner.py:27`) compares a monotonic clock with a wall clock
  to notice that the machine slept. The models have no two clocks: `Mergetrain` lets
  a lease expire at any step, slept or not.

## 10. Running

    tlc -workers 2 -config Crash.cfg MCMergetrain     # and the other .cfg files
    tlc -workers 2 -config Ends.cfg MCEnds            # Deploys, Commands likewise
    tlapm MergetrainProofs.tla                        # and the other *Proofs.tla

The slowest run takes about three minutes on two workers; the longest proofs, those of
`MergetrainProofs` and `CommandsProofs`, about ten minutes each.
