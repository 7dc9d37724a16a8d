# Vardo in TLA+

Vardo deploys applications with Docker Compose on one or more servers. This
directory holds models of the parts of it whose correctness depends on the order
in which processes act, the model-checking runs over them, and proofs about them.
Paths are relative to the repository's root (`src/` in `PROJECT.json`).

Five parts are modelled:

- the **deploy side**: the queue in Postgres, the executors that claim from it, the
  crash rule, cancels, slots, rollbacks and Vardo's own swap;
- the **background loops**: the lease that lets one process run a loop, the fence its
  passes check, and the handoff of web's loops to a worker and back;
- the **slot swap**: what deploys, rollbacks, the rollback watch and the sweeps do to
  the blue and green containers of one app environment, and where traffic goes;
- the **build gate**: the Redis scripts that admit builds into a server's BuildKit or
  onto a build target;
- the **backups**: an organization's nightly run across consoles that stop, with its
  leases, claims, reaper and reruns.

## 1. The system

A Vardo server runs two kinds of process: the *console* (Next.js, `web`) and the
*worker*. Each exists once per blue/green slot, and Vardo replaces itself by the
same swap it uses for apps, so for a while processes of both slots are up. They
share a Postgres database, a Redis and the Docker daemon; there are no direct
calls between them.

| Component | State it keeps | Operations | What is hard | What makes it correct |
| --- | --- | --- | --- | --- |
| Deploy queue `lib/deploy/queue.ts`, `bump.ts` | `deployment` rows | enqueue, hold and release, claim, renew, cancel, slot moves, stage, fence, exclusive hold | statements of many processes in any order | one running deploy per app environment, capacity, cancels that stick, ended deploys stay ended |
| Executor `lib/deploy/executor.ts`, `claim-loop.ts` | `state.jobs`: an abort controller and a stage per deploy | claim pass, renewal pass, cancels, close | a run outlives its claim; answers used after an await; two runs of one deploy in one process | a run that lost its claim changes nothing |
| Swap gate `lib/deploy/swap-gate.ts` | the row's `exclusive_requested_at` | hold claims, wait, fence | the swap replaces the processes that would release the hold | Vardo's swap is alone, and claims resume |
| Deploy run `lib/docker/deploy.ts`, `deploy-steps/` | containers of two slots | clone, build, swap, health check, cut over, commit | errors and aborts at any await | the old slot serves until the new one is committed |
| Sweeper `lib/deploy/sweeper.ts` | none | crash rule, queue limits, standby slots, group jobs | acts on rows read earlier | reruns at most once, never past the swap |
| Rollbacks `lib/docker/instant-rollback.ts`, `rollback-monitor.ts`, `lib/deploy/rollback-watch.ts` | running rows of their own | flip to the standby slot, record | run outside the queue | never beside a deploy of the same environment |
| Build gate `lib/docker/build-gate.ts` | Redis lists, sets and a hold | admit, renew, release, bump | dead waiters, lapsed leases, several targets | no more builds than slots, fair order |
| Loop leases `lib/worker/lease.ts`, `interval-loop.ts`, `fence.ts` | `leader_lease` rows: holder, epoch, expiry | acquire, renew, release, check | passes that outlive their lease, lost answers | one holder per epoch; a fenced pass stops |
| Handoff `lib/worker/handoff.ts`, `presence.ts` | presence rows, a flag per process | defer, resume | stale or unreadable presence | somebody runs the loops |
| Group deploys `lib/deploy/group-job.ts`, `lib/docker/deploy-group.ts` | `worker_job` rows | enqueue, claim, run tiers, finish | executor death between tiers | one group job per project and environment |
| Backups and restore `lib/backups`, `lib/restore` | backup and run rows, Redis leases, archives | run, reap, requeue, delete, restore | leases that lapse under a live run | one run of a job at a time, one outcome per backup, one rerun, every job reports |
| Self-update `lib/self-update` | update record, peer rollout | decide, start, record | the process that updates is replaced | an update is recorded once |
| Uptime, incidents, notifications, probe guard, mesh, status reconcile | their own tables | probes, opens and closes, deliveries, bans, heartbeats | repeated and late results | no flapping, at-least-once delivery |

The components interact through the database: clients (the API, webhooks, the
poller, the CLI) insert queued rows; each executor's claim loop turns them into
running rows and starts a run; the run writes its stages, passes the fence, swaps
containers and writes how it ended; the sweeper moves rows whose lease lapsed;
rollbacks insert running rows directly; the next claim starts what waits.

`PROJECT.json` lists the components with what is modelled of each, and under
`hazards` the places in this code that a test would hardly reach.

## 2. The modules

| Module | What it is |
| --- | --- |
| `DeployLifecycle` | What the queue promises: the life of a deploy as an abstract specification. |
| `DeployQueue` | The `deployment` table and each statement on it as one action. Callers are unconstrained. |
| `DeployExecutor` | The processes: claims, runs with their control flow, renewal, cancels, crash and boot. |
| `DeploySystem` | Clients, clocks and the sweeper with its read and its later writes, composed with the executors. Fairness and the properties of the whole. |
| `MCDeploySystem` | Values for the constants the configurations use. |
| `DeployQueueProofs` | The types of `DeployQueue`, its safety properties and the refinement of `DeployLifecycle`, proved. |
| `DeployQueueCapacity` | Its slots: capacity, reruns, the line of waiters and the slot of Vardo's own deploys, proved. |
| `DeploySystemProofs` | `DeploySystem` implements `DeployQueue`, so what is proved of the queue holds of the whole; and what a step of the system is to one deploy; proved. |
| `DeploySystemSafety` | What is about runs: swaps apart, on record and not rerun, the hold of Vardo's own swap, who gives way; proved. |
| `FencedLease` | What a fenced lease promises, as an abstract specification: epochs are granted once, a pass runs under an epoch of its own process, and fenced work starts under the newest epoch only. |
| `LoopLease` | One singleton loop in any number of processes: passes, keepalives, the lease row, the fence, failing statements and stalls. |
| `WorkerLoops` | `LoopLease` with the processes around it: workers that boot, drain and die, presence rows, web's handoff. |
| `MCWorkerLoops` | Values for the constants of `WorkerLoops`. |
| `WorkerLoopsProofs` | Of `LoopLease`: types, the invariants of the lease and its refinement of `FencedLease`. `WorkerLoops` implements `LoopLease`, so they hold of the composition; proved. |
| `SlotSwap` | The two slots of an environment under deploys, instant rollbacks, the rollback watch and the sweeps. |
| `SlotSwapProofs` | Its types, and with runs that wait for the last one: the newest success serves, the only healthy slot stays, and one serves through every swap; proved. |
| `MCSlotSwap` | The module `Swap.cfg` and `Hold.cfg` check. |
| `BuildGate` | The gate's scripts and the builds, here and of linked instances, that call them. |
| `MCBuildGate` | The module `Builds.cfg` checks. |
| `BuildGateProofs` | Who sweeps is alone, who has a slot or an entry, builds start clean, the limits of the gate and whose memory peaks are recorded; proved. |
| `BackupRuns` | A nightly backup run: the tick, claims, slots, rows and leases, the reaper, both requeues and the finish pass, on several consoles. |
| `MCBackupRuns` | Values for the constants of `BackupRuns`. |
| `BackupRunsProofs` | Its types, one run of a job at a time, outcomes that stay and one rerun of a job; proved. |

`DeploySystem` extends `DeployExecutor`, which extends `DeployQueue`; every action
of the system that writes a row does so through an action of `DeployQueue`.
`WorkerLoops` extends `LoopLease`. `SlotSwap` takes from the queue only that a scope
has one running row at a time (the theorem `OneDeployPerScope`), and that a row may
end elsewhere; a run of it is one activation of `runDeployment`,
`instantRollback` or the auto-rollback of the watch. `BuildGate` stands alone: a
deploy waits in it during its build and asks the queue nothing. So does `BackupRuns`,
whose processes share Redis and Postgres with the rest but no row or key.

### How state corresponds

`row[d]` is the deployment row `d`:

| Field | Column |
| --- | --- |
| `status` | `status`, with `absent` before the insert and `deleted` for a rollback's deleted row |
| `kind` | `trigger` with the request's `gitSha`, `pinIntent` and `rollback`: a push, a branch-head deploy, a pinned one, an in-process rollback |
| `scope`, `held` | `scope_key`; a held row's is null in the code, and nothing here reads `scope` of one that is `held` |
| `seq` | `started_at` |
| `by`, `live` | `claimed_by`; whether `lease_expires_at > now()` |
| `stage` | `stage`: null, up to the build, or from the swap on |
| `attempts`, `cancel`, `successor`, `bumped` | `attempts`, `cancel_reason` (with `cancel_requested_at`), `superseded_by`, `bumped_at` |
| `hold` | `exclusive_requested_at`: null, fresh, or past `EXCLUSIVE_MAX_AGE_MS` |
| `claimSlot`, `waiting` | `claim_slot`; `waiting_since` of a row whose `wait_reason` is `deploy-slot` |
| `home` | `slot`, kept for Vardo's own deploys only |

`run[<<d, n>>]` is the nth run of deploy `d`: an activation of `runDeployment`
under `startClaimed`, with its place in the code (`pc`), `job.stage`, the abort
signal, the answer of `newestQueuedIn` it has not acted on, and stage writes in
flight (`onStage` is not awaited). `job[e][d]` is `state.jobs` of process `e`: it
names the run the process can still renew and stop. `swept` is what a sweeper pass
has read and not yet acted on; `asked` holds cancels between the two statements of
`requestCancel`.

A run's `pc` follows the code: `starting` (the ownership read in
`runDeployment`), `building` (prepare, compose and build), `requeueing`
(`NeedsLocalDeploySlotError`), `holding` and `waiting` (`requestExclusive`),
`fence` and `fenced` (`beforeSwap` and the last free `checkAbort`), `swapping`
(compose up to the second `checkAbort`), `checking` (health, then the row's
status), `committing` (`postDeploy`'s update), `stopping` (the catch block's
terminal writes), `leaving` (closed elsewhere), `finishing` and `won`
(`startClaimed`'s `finally`).

**Loops** (`LoopLease`, `WorkerLoops`). `life[p]` is a process's lifetime; a restart
has a new holder id and is another `p`. `grants` and `live` are the `leader_lease` row:
the epoch is the length of `grants`, the holder its last entry, and `live` says whether
`expires_at` is ahead. `loop[p]` is the interval loop's closure: started or stopping,
the epoch it believes it holds, `leaseLost`, and the epoch `stop` has to give back.
`pass[p]` and `renewal[p]` are the two activations that may be in an `await`: each
statement is sent, lands and is answered, or fails on either side of landing. `stage`
and `beat` are a worker and its presence row, `deferred` and `gone` the flags of
`handoff.ts`, `web` its place in the code, and `pending` the starts that wait on a boot
step (`after`).

**Slots** (`SlotSwap`). `slots[s]` says of the containers of a slot whether they are
up, stopped or removed, passed their health check, are restarted by Docker
(`restart` policy), and whose version they are. `current` is the symlink, `pin` the
slot named by Traefik's hold or cutover file, `row` the run whose row holds the scope,
`record` the newest row of status `success`, `sweep` the slot the standby sweep has
read and is about to stop. `run[o]` is an activation: its kind, its place between two
Docker commands, and the `activeSlot` and `newSlot` it read.

**Gate** (`BuildGate`). A token is one activation of `withBuildSlot`; `pc` is its place
and `may` which places it was given. `queue`, `quiet` and `wants` are the list, its
entries whose `seen` score is too old, and what the `remote` set says of each; `held`,
`lapsed` and `there` are the running set before and after expiry and the target's;
`hold` is the sweep key. `alone` is the admission count `recordPeak` compares. The rest
is history: `met`, `peaks`, `leftover` (builds that are gone while BuildKit still runs
their steps) and `missed` (those whose mark on the gate something erased).

**Backups** (`BackupRuns`). A *console* is a process that runs the backup loops. `tick[c]`
are the jobs its tick opened the run for and has yet to start; `task[<<c, j, line>>]` what
it is doing for a job, either in its `queued` set (scheduled, requeued, first snapshot) or
by hand: waiting for the claim, for a slot, with a row, with the row's lease, with its
outcome written, or about to let go. `sweep[c]` is a pass of `sweepInterruptedBackups`
with the lists it read. `rows` is the `backups` table, one row per start: `status` is
`finished` for whatever outcome the backup wrote itself, `note` what the reaper and the
requeue appended to its log. `run` is the nightly run: `plan`, `done` (`jobs_done`), `late`
(its deadline passed without progress) and how many rows there were before it. `rowLease`,
`jobLease`, `claim` and `lock` are the Redis keys; a key whose holder stopped stays until
its TTL.

### Granularity

One SQL statement or transaction is one step. Claims, bumps, slot moves and the
exclusive flag take the claim lock in the code, enqueues a lock per scope; the
other statements are single updates whose WHERE clause Postgres evaluates again on
the current row. Between statements everything may happen: that is where a run's
steps, the sweeper's and the cancel's are split.

Time is abstract. A lease of a process that is up and knows the job lapses only as
a *stall*, counted by `MaxStalls`; any other lease may lapse at any time. The
queue's limits (24 hours, 15 minutes held) may pass at any time. The 30-minute age
of a hold passes only after its deploy stopped running, since it outlasts the
exclusive wait (15 minutes) plus the swap.

In `LoopLease` a statement is three steps, so that an answer may be lost or late. In
`SlotSwap` a step is one Docker command with what the code does until the next one. In
`BuildGate` a Redis script is one step, since Redis runs it alone, and a build's steps
lie between two scripts. In `BackupRuns` a start with the checks before it is one step, as
are the checks of one job in a sweep: the claim and the requeue's lock are what decides
among consoles. What a sweep lists, and what it then does row by row and job by job, are
steps of their own; so are a row's insert, its lease, its outcome and the job's report.

What goes wrong is counted, so that a run can say how much of it: `MaxTroubles` bounds
the stalls and failed statements of `LoopLease`, and in `SlotSwap` and `BuildGate` the
*kinds* of trouble that may happen in one behaviour, each at most once. In `SlotSwap`
they are a failing Docker command, write or read, a stall, a death and a restart of the
Docker daemon, with a crashing version on top, which uses up nothing of the bound; in `BuildGate` a death, a stall, a sweep that
outlasts its hold or cannot stop what it finds, a target that refuses, and a broken
builder. `Mixes` of `BackupRuns` are the allowed numbers of stops, lapses (a live
console misses its beats), backups by hand, first snapshots and jobs switched off.

`BackupRuns` relies on two times of the code: a row gets its lease, and a run's jobs
theirs, within the minute (`LEASE_GRACE_MS`) for which a sweep spares them.

## 3. Properties and runs

Bounds of the deploy side, beyond the numbers of deploys, scopes and executors:
`MaxClaims` claims per deploy, `MaxStalls` stalls, `MaxPlaces` for the numbers that
order bumps and local waits (0 leaves bumps out). Of the loops: `NumWorkers` worker
lifetimes, `MaxUp` of them at once. Of the slots: `NumRuns` deploys and rollbacks;
`Prompt` says that a run reads the slots once the last one has let go of them.

| Run | Instance | Checks |
| --- | --- | --- |
| `scope` | 2 deploys (push, head, rollback) in 1 environment, 2 executors that may die, user cancels, 2 claims per deploy | `TypeOK`, `OneRunningPerScope`, `OwnedWhileRunning`, `AtMostOneRerun`, `OneSwapPerScope`, `OnlyPushesGiveWay`, `SwapIsOnRecord`, `CancelSticks` |
| `stall` | 2 pushes, 1 executor, one stall | `ImplementsLifecycle`, `SwapNeverRequeued` |
| `self_swap` | Vardo and one app, worker and console and the next slot's console, capacity 1, one target slot, bumps | `SelfSwapsAlone`, `NewSlotResumes`, `WithinCapacity`, `SelfKeepsItsSlot`, `HoldEnds`, `WaiterKeepsItsSlot` |
| `recovery` | 2 deploys (push, head, held head), 2 executors of which one may die, 3 claims | `EveryDeployEnds` |
| `loops` | web and 1 worker lifetime, 1 stall or failed statement | `HandoffTypeOK`, `EpochsAreOwn`, `ActivePassHolds`, `OnePassAtATime`, `ImplementsFence`, `LoopKeepsRunning` |
| `swap` | 3 deploys, rollbacks or auto-rollbacks, 1 kind of trouble besides a crash, prompt | `SlotTypeOK`, `AlwaysServing`, `RecordServes`, `OnlyHealthyStays`, `TrafficConverges`, `Rescued` |
| `builds` | 2 builds of this server and 1 of a linked instance, limits 1 or 2 here and 1 on the target, 1 kind of trouble | `GateTypeOK`, `SweepsAlone`, `WithinLimits`, `PeaksAreOwn`, `StartsClean`, `EveryBuildEnds` |
| `backups` | 1 job, 2 consoles with 1 slot each; 2 stops, or 1 with a backup by hand, a first snapshot or the job switched off, or 1 lapse | `BackupTypeOK`, `OneRunOfAJob`, `RequeuedOnce`, `OutcomeSticks`, `EveryJobReports` |
| `hold` | as `swap` | `NoHoldOnStopped` is violated |
| `cancel_race` | 1 push, 2 executors, one may die | `CancelFindsActive` is violated |
| `reclaim` | 1 push, 1 executor, one stall | `FenceHoldsClaim` is violated |
| `lost_renewal` | 2 environments, capacity 1, one target slot | `ClaimsRenewed` is violated |

Why the bounds are enough to be interesting: the rules of the queue relate a deploy
to one other of its scope (what runs, what replaces, what waits before it), so two
deploys meet each of them; two claims cover a first run, its rerun or its return
for a local slot, and a second death; the third claim of `recovery` covers a death
before the first stage followed by one in the build, after which the crash rule
fails the deploy, and with one executor that may die and one that may not the bound
is never reached. Two executors are a claim's owner and whoever takes over. What
these bounds leave out is three deploys in one line and three claims with a stall;
the proofs below cover any number for the queue's own properties.

`loops` has one worker lifetime: web and a worker are the two holders the lease tells
apart, and the worker's death and drain give the loop back to web. Two worker lifetimes
without trouble, and one with two troubles, pass too but take longer than a run should;
the safety properties are proved for any numbers. `swap` has three runs: one that puts
a version up, one that replaces it, and one that acts on what the second left behind,
each a deploy or a rollback; the trouble may follow a crash, so that the rollback watch
fails too. `builds` has two builds of this server, so that one waits,
joins or sweeps beside the other, and a peer that takes the place between them; every
kind of trouble alone is in it. Two kinds of trouble pass as well, and so do three
builds without peers or trouble. `backups` has one job, since claims, leases, locks and
rows are per job and jobs meet in the slots and in the run's end only; two jobs are out of
reach. The second stop is that of the console that reruns the job. Two consoles are the
one that stops and the one that sweeps.

`self_swap` has the slots of a server and of one target, which two deploys compete for;
the proofs below cover other numbers.

What the properties of these runs say, where their names do not:

- `ActivePassHolds`: a pass that the fence would let through runs under the lease its
  process holds now. `OnePassAtATime` is what that buys while nothing stalls or fails.
- `LoopKeepsRunning`: however workers come and go, again and again some process runs
  the loop's passes.
- `AlwaysServing`: with slots that may overlap, a healthy slot is up through each swap
  and rollback, and a deploy that moves traffic moves it to a slot that is up.
- `RecordServes`: at rest, the newest success says what serves. It is checked where
  nothing failed, and only of runs that wait for the last one (`Prompt`); see below.
- `OnlyHealthyStays`: failing writes and reads never lead to the removal of the only
  healthy slot, for apps whose slots cannot overlap too.
- `TrafficConverges`: in the end one slot is up.
- `Rescued`: a deployed version that crashes while `current` names it and a standby is
  there is replaced or put back, and the scope is free again, also if the command that
  starts the standby fails. The rollback's own row does not count for that, only a slot
  that is up. Three things excuse the watch: a deploy or an instant rollback that takes
  over, the death or stall of the process that rolls back, and a restart of Docker. Where
  `current` does not name the version the watch may leave it: if the write of the symlink
  failed, it names the old slot, and with both down `detectActiveSlot` believes it, so the
  watch takes the deploy for one that no longer serves. TLC shows this if the condition is
  dropped.
- `SweepsAlone`: who stops steps in BuildKit, or sizes it, is the only build there.
- `WithinLimits`: what really runs, and not what the sets say, is within the limits; a
  process that stalled past its lease adds one.
- `PeaksAreOwn`: a recorded memory peak is of a build that was alone throughout, so
  that a later estimate is not another build's.
- `StartsClean`: a build that starts finds no leftover steps of builds that are gone,
  but for the cases listed under *Where the code and its comments part*.

- `OneRunOfAJob`: across consoles one run of a job is past its claim, unless a live
  console missed its beats.
- `OutcomeSticks`: the reaper never overwrites a backup's own outcome; a backup that was
  reaped alive, after missed beats, may overwrite the reaper's.
- `RequeuedOnce`: while its run is open a job is rerun once, for whichever of the two
  reasons and by whichever console.
- `EveryJobReports`: a console may stop at any point, and the run still hears of each job
  before its deadline.

Symmetry is used where only invariants and step properties are checked and the
instance does not tell the permuted values apart; never in a run with liveness.

`CHECK_DEADLOCK FALSE` everywhere: when every deploy has ended nothing is left to do.

### Fairness

`FairSpec` assumes weak fairness of: the claim pass (with the clearing of holds it
begins with) and the renewal of executors that never stop (timers that run every 1
and 3 seconds), the boot of a process the new slot starts, the progress of each run
whose process is up (awaited code with time limits), the sweeper's pass (its read or
one of its pending writes), and the lapse of a lease nobody renews. Nothing is assumed of clients, crashes, cancels, or
of the queue's own time limits, so `EveryDeployEnds` and `HoldEnds` hold without the
24-hour and 30-minute limits ever applying. A build that never ends is not covered:
in the code it meets the deploy time limit, which is a cancel.

`WorkerLoops` assumes that timers fire, statements are answered or fail, boot steps end,
passes end, a running worker beats, and that a lease nobody renews and the row of a dead
worker age. Nothing makes a worker boot, drain or die.

`SlotSwap` assumes that a run whose process is up goes on (each command has a time
limit), that the row of a dead one is closed by the sweeper, and that the watch and the
standby sweep come round. Deploys and rollbacks are never made to start.

`BuildGate` assumes that waiting builds poll, admitted ones end (a build has a time
limit), slots of linked instances end, and that the leases, polls and hold of a dead
process lapse. `EveryBuildEnds` also assumes that bumps stop: each one may pass a
waiting build over.

`BackupRuns` assumes that a console's loops come round, that a task goes on while its
console is up, that a stopped console comes back and that a key nobody renews runs out.
A pass of the sweep reaps, then requeues, before it looks for orphans, so these two are
strongly fair; the deadline never has to pass.

### Where the code and its comments part

- **`cancel_race`**. `requestCancel` updates a queued row, then a running one. A
  deploy that is requeued between the two is reported as inactive (the API answers
  409) and runs later although its user cancelled it.
- **`reclaim`**. `claimed_by` names a process. After a stall, a process can claim a
  deploy again whose older run it still executes; that run's fence is satisfied by
  the newer claim, and nothing can stop it because its job was overwritten.
- **`lost_renewal`**. A run closes its job by deployment id. When the deploy was
  given back for a local slot and claimed again by the same process first, the newer
  run loses its job: it is not renewed, so the crash rule takes a healthy deploy.
- **`hold`**. A swap keeps Traefik on the old slot with a file only its own process
  removes. A process that dies between its commit and the cutover leaves it; the row is
  a success, so no crash rule runs, and the standby sweep later stops the old slot
  although `traefik-cutover.ts` says never to leave a hold on a slot about to stop. The
  next deploy or rollback clears it.

Found while modelling or reading, and not checked by a run of their own.

Queue: a supersede whose stage check passed
can abort a run that has opened its swap since (`executor.ts` 71-77, stopped at the
next boundary); a push may hand over to a pinned deploy that does not replace pushes
(`queue.ts` 762); an aborted run whose step fails for another reason records a
cancel without the cleanup a failure gets (`deploy.ts` 636-726); a renewal pass
looks jobs up after its statement (`executor.ts` 119).

Slots: a success frees the scope before `pointCurrentAt` (`post-deploy.ts` 436), so the
next deploy may read the old `current` (`RecordServes` is violated with `Prompt` off and
no trouble at all). A deploy that was taken from its process clears the new slot
(`swap.ts` 473) before it reaches the fence, beside the one that took over
(`docs/worker.md` 24 says a lost claim stops with the old slot serving; `AlwaysServing` is
violated with `Prompt` off and one stall). A stop-first instant rollback whose lease
lapses may find its standby composed down by the standby sweep, and `compose start`
cannot make it again (`OnlyHealthyStays` excludes stalls). A first deploy that dies
leaves an unproven slot up that a later one takes for the serving one when a write after
its commit fails, too (two troubles). A failed instant rollback leaves the standby's
restart policy on (`instant-rollback.ts` 244, 276-288). The rollback watch never clears
a stale pin.

Loops: a renewal in flight at `stop` lands after the release and takes the lease for
another TTL (`interval-loop.ts` 111-124 and 284-297; `docs/worker.md` 139). An entry that
waits on `after` is not in `started`, so `stopLoops` misses it. A renewal answered after
a stop and a restart drops the newer lease. `ensureLease`'s error path does not look at
`stopping`. `startWebLoops` takes a failed presence read for "no worker". All but the last
are steps of `LoopLease` and `WorkerLoops`; the properties hold beside them, since a
lease that is held for nothing only delays the next holder.

Gate: `claimSlotForPeer` ends the sweep hold without a sweep (`build-gate.ts` 1009), which
erases the mark of a lapsed build, and `LUA_CLAIM_SWEEP` removes lapsed leases without
marking; the next build then starts beside leftover steps (line 40, `docs/worker.md` 102).
`missed` is these two in `StartsClean`. A failed build's steps are left before its release
marks the gate; `StartsClean` excepts builds that still hold a slot. `endSweep` deletes
the hold whoever has it, so a sweep of more than two minutes ends another's. `LUA_RENEW`
adds a lapsed lease back, which exceeds the limit by one (`WithinLimits`). `waitForFifoSlot`
never sees "absent", which `place` does not return. A build refused by a target's own gate
joins again at the tail with a new deadline.

Backups: `requeueInterruptedBackups` does not look at `runRequeuedJob`'s answer that the
job is queued in its process already (`requeue.ts` 158), for a first snapshot for instance.
The rows are noted and the lock is taken by then, so that job's rerun never comes and the
run waits out its deadline; the orphan pass handles the same answer by giving its lock back
(line 209). `EveryJobReports` leaves first snapshots out for this. A backup writes its
outcome by the row's id alone (`engine.ts` 1235, 1308), over what the reaper wrote, the
note included: `OutcomeSticks`, `OneRunOfAJob` and `RequeuedOnce` say what holds unless a
live console missed its beats. The orphan pass goes by `jobs_done` as it was at its start
and looks at leases later, so a job that reports in between is run again
(`requeue.ts` 182-186).

## 4. Proofs

Nothing below depends on an instance: each theorem holds for every value of the
constants that its module's `ASSUME` admits. TLC evaluates each of those assumptions in
the runs, and checked each inductive invariant before it was proved.

### The queue

`DeployQueueProofs` and `DeployQueueCapacity` prove, for every
number of deploys, scopes and executors and every capacity, about `DeployQueue!Spec`, in
which each statement may be issued by anyone at any time. The only assumption is
`QueueAssumption`: the set of deploys is finite (enqueue times count rows), the
sentinels are not members of the sets they stand outside of, and the other constants
have their types.

| Theorem | States |
| --- | --- |
| `TypeCorrect` | `Spec => []TypeOK` |
| `OneDeployPerScope` | `Spec => []OneRunningPerScope` |
| `OwnerCorrect` | `Spec => []OwnedWhileRunning` |
| `CancelStays` | `Spec => CancelSticks` |
| `QueueImplementsLifecycle` | `Spec => ImplementsLifecycle` |
| `CapacityHolds` | `Spec => []WithinCapacity` |
| `RerunsAreFew` | `Spec => []AtMostOneRerun` |
| `WaitersKeepTheirSlot` | `Spec => WaiterKeepsItsSlot` |
| `SelfSlotStays` | `Spec => SelfKeepsItsSlot` |

The argument. `TypeCorrect` is by the shape of each write; the only write that needs
a fact about the rest of the table is the enqueue, whose time counts the rows.

For the others, one relation says how a single row may move in one step
(`RowStep`): it stays, is asked for, starts, goes back to the queue, or ends, and
each case says what happens to owner, lease, stage and cancel. One lemma per action
shows that every row moves along it, and that every action except the claim and the
rollback's insert is *quiet*: it starts nothing (`QuietStep`). Then
`OneRunningPerScope` is inductive on its own: a quiet step only shrinks the set of
running rows; a claim takes heads of lines of idle scopes, and a scope has one head
because the claim order is total on enqueue times or, where two rows tie, neither is
a head; a rollback's insert needs an idle scope. `OwnedWhileRunning` and
`CancelSticks` follow from `RowStep`, the latter with the invariant that a row nobody
asked for carries no cancel. The refinement needs one strengthening, `RollbackRuns`
(an in-process rollback is never queued), since only then does the sweeper's requeue
map to a step of the abstract specification; the condition that nothing starts
beside another deploy is `OneRunningPerScope` in the next state.

For the slots a second relation says which rows keep theirs (`KeepsSlot`). All statements
keep or free slots but four: a claim, a rollback's insert, a build's move to this server
and its joining the line of waiters; a rerun, which frees one, is counted apart.
`WithinCapacity` is inductive: a claim takes at most `LocalFree` here and at most the free
slots of targets there, a move needs a free slot, and rollbacks are not counted.
`WaiterKeepsItsSlot` needs that waiters stand in one line (`OneLine`: no two have one
place) and that nobody joins it but at its end. Then a step that takes a slot of this
server is a claim, which leaves one for every waiter, or the move of a deploy that was
ahead in the line, or of one that was behind it or not in it and found room beyond the
line's; in each case the waiter's slot is still free afterwards.

`SelfSlotStays` compares two claims of one table, the one that happened and the one an
executor of Vardo's own deploys could make. It rests on `ClaimPicksFrom`, what a claim of
*k* rows is: a prefix of the candidates in the claim order, which exists because rows that
were asked for have distinct numbers (`Numbered`) and a finite set of numbers has a least.
Vardo's deploy is then the first candidate of either claim, and an executor that must leave
it takes one slot fewer than are free.

### The whole deploy system

| Theorem | States |
| --- | --- |
| `SystemImplementsQueue` | `SysSpec => Spec`: the composition takes steps of the queue only |
| `SystemKeepsPromises` | `SysSpec` implies each of the queue's properties above |

`DeploySystemProofs` closes the gap between the queue, where callers are unconstrained but
for what `ExecutorWrite`, `Sweep` and `Rollback` allow, and the processes that call it. The
queue allows a run's writes only of rows that are no rollback's, only named outcomes, and
a rerun only of a row with the count the crash rule looks at; the system has to show that
its runs and its sweeper, which act on what they read earlier, stay within that. The
invariant `SysInv` says: a run that may still write (its control state, a stage write in
flight, an answer not acted on) works for a deploy that came through the queue
(`RunsFit`), a job is known only for such a deploy (`JobsFit`), and the count the sweeper
read is still the row's, since nobody else counts (`SweptFits`). It was checked with TLC in
the instances of the runs `reclaim`, `recovery` and `self_swap` first.

`DeploySystemSafety` is about what the queue does not see: the runs.

| Theorem | States |
| --- | --- |
| `SwapsApart` | `SysSpec /\ [][LeasesKept]_vars => []OneSwapPerScope` |
| `LeasesAreKept` | with `MaxStalls = 0`, no live process loses the lease of a `Steady` deploy |
| `SwapsApartOnOneServer` | with `MaxStalls = 0` and `TargetSlots = 0`, `SysSpec => []OneSwapPerScope` |
| `SwapsOnRecord` | with `InOrder` and `TargetSlots = 0`, `SysSpec /\ [][LeasesKept]_vars => []SwapIsOnRecord` |
| `SwapsOnRecordOnOneServer` | with `MaxStalls = 0` as well, `SysSpec => []SwapIsOnRecord` |
| `SelfSwapsApart` | `SysSpec /\ [][SteadyKept]_vars => []SelfSwapsAlone` |
| `SelfSwapsApartWithoutStalls` | with `MaxStalls = 0`, `SysSpec => []SelfSwapsAlone` |
| `HoldsHandOver` | `SysSpec /\ [][SteadyKept]_vars => []NewSlotResumes` |
| `HoldsHandOverWithoutStalls` | with `MaxStalls = 0`, `SysSpec => []NewSlotResumes` |
| `SwapsAreNotRerun` | with `TargetSlots = 0`, `SysSpec => SwapNeverRequeued` |
| `PushesGiveWay` | `SysSpec => []OnlyPushesGiveWay` |

The hypotheses. `LeasesKept` says that no step takes the lease of a row from a process that
is up. It is what the properties really depend on: the run `reclaim` shows an older run and
a newer one beside each other after a stall, and `lost_renewal` that a deploy given back from
a target may lose its lease without one. `LeasesAreKept` shows that nothing else does:
without a stall the lease of a deploy that can't be given back (`Steady`: Vardo's own, or any
where there are no targets) is renewed until its row is closed. So a behaviour without stalls
on one server satisfies the hypothesis, and the second theorem of each pair has none. The
runs `scope` and `self_swap` are instances of the second theorems. `SteadyKept` asks it of
steady deploys only: what happens to the leases of other deploys is no danger to a swap of
Vardo. `SwapsAreNotRerun` and `PushesGiveWay` need none of this and hold with any stalls.

The argument. `StepOf` says what a step of the system is to one deploy: beside it (`Aside`),
a claim of it, a step of one of its runs, or something that happens to its process. One lemma
per kind of step then shows what may become of a run and its row together, and each
invariant is a conjunction over deploys, kept by all of these.

- `HoldsRow`: a run that still works has the row, running and live under its own process, and
  alone of the deploy's runs. What takes the row comes when the run is done with containers;
  a rerun or a sweep needs a lapsed lease. With `OneRunningPerScope` of the queue this gives
  `OneSwapPerScope`.
- `Closes`: a run that is not over is the job its process knows, and its end closes the row.
  So a running row of a live process is renewed (`LeasesAreKept`).
- `Marked`: which stage writes of a run may still be under way at each place in the code, and
  that the fence's is the last. With a target, a stage write of a claim given back could land
  on the same process's next claim.
- `Alone`: from the moment Vardo's deploy asks for the hold until its run ends the flag is up,
  no claim gets past it, and a run that found nothing else running finds nothing else later but
  a rollback.
- `Handover`: the flag of a success is dropped by a process of the new slot, or once one is up.
- `SwapsAreNotRerun` compares the stage a sweep read with the row's: the rerun checks it again.
- `WayGiven`: a superseded row is a push with another deploy of its scope that was asked for as
  its successor (`GaveWay`), only runs of pushes are told to give way (`OnlyPushesTold`), and
  what a run takes for its heir before it tears down is such a deploy (`Heirs`).

### The loops

`LeaseAssumption` and `HandoffAssumption` only give the constants their types.

| Theorem | States |
| --- | --- |
| `LeaseTypeCorrect` | `LeaseSpec => []LeaseTypeOK`, with what a stopped loop may not hold |
| `EpochsStayOwn` | no epoch is believed in by two processes |
| `ActivePassesHold` | a pass the fence lets through runs under the lease its process holds |
| `PassesExclude` | without trouble, no two processes run a pass at once |
| `LeaseImplementsFence` | `LoopLease` implements `FencedLease` |
| `HandoffImplementsLease` | `WorkerLoops` implements `LoopLease` |
| `HandoffTypeCorrect` | `HandoffSpec => []HandoffTypeOK` |
| `LoopsOwnEpochs`, `LoopsHold`, `LoopsExclude`, `LoopsImplementFence` | the above for the composition |

The argument. Everything rests on `grants`, which only grows: an epoch a process
believes in, passes under, or is about to be told of, is one that `grants` says is its
own. That is inductive because a statement that lands answers the length of `grants` with
the process itself as the last entry, and no later step changes an entry. Two processes
that believe in one epoch are then the same. `ActivePassesHold` adds that a pass's epoch is
the one its loop holds, as long as the loop is neither lost nor stopped, which each of the
steps that drop or replace a held epoch has to show. For `PassesExclude` a pass without
trouble runs under a live lease whose holder is its process. The refinement maps `under` to
a pass's epoch and `working` to the passes that are mutating; its one hard step is the
fence, which must let through the newest epoch only. The composition's theorems need no
second argument: every step of `WorkerLoops` is a step of `LoopLease` or leaves it alone.

### The slots

`SlotAssumption` only gives the constants their types.

| Theorem | States |
| --- | --- |
| `SlotTypeCorrect` | `Spec => []SlotTypeOK` |
| `RecordedServes` | with `Prompt`, `Spec => []RecordServes` |
| `HealthyStays` | with `Prompt`, `Spec => []OnlyHealthyStays` |
| `ServesThroughout` | with `Prompt` and `MaxTroubles <= 1`, `Spec => []AlwaysServing` |

The hypotheses are those of the run `swap`, and needed. Without `Prompt` a run may read the
slots while the last one still changes them, and the first and the last property fail (see
*Where the code and its comments part*). With two kinds of trouble `AlwaysServing` fails: TLC
finds a failing write and a death that leave no healthy slot up. A crash does not count
towards the bound, and `AlwaysServing` is about what comes before one. One of any kind, any number
of runs and either sort of app are covered; `RecordedServes` and `HealthyStays` need no bound
on the troubles, since their properties name the ones they bear.

The argument. `SlotBase` is typing: a run is in a phase of its kind (`Shaped`), has its two
slots from the moment it picked them, and only a death leaves one dead. `Prompt` gives
`OneHolder`: one run has the slots, and none while the standby sweep is about to stop one.
Each property is then an invariant that says what the holder finds in each of its phases, and
what is there when nobody holds them:

- `Clean`, with nothing wrong: the slot of the newest success is up, proven, restarted by
  Docker and pointed at, and the other one down (`CleanRest`); a run in its swap has left the
  old slot as it was or, where the two cannot overlap, stopped it in the way that brings it
  back (`CleanOld`), and once it committed the record names its own. It needs `Owns`, that a
  claimed run has the row, so that a commit which is refused means trouble.
- `Kept`, with failing writes and reads: a slot that is up is proven, and one is up, except
  between the stop of the old slot and the proof of the new one.
- `On`, with one trouble of any kind and no crash: where the slots may overlap, the active slot
  is up, so no sweep or closed row removes it, and the old one of a swap stays up until the
  new one is proven. That every slot that is up is proven, which `Kept` has, holds here until a
  death, a restart of Docker or a failed command may leave one up that is not (`Dirty`). The
  step that needs most is a death or a restart of Docker in the middle of a swap: `FirmHolds`
  derives from `Clean` (nothing had failed before) that what Docker would bring back serves,
  and `FirmLasts` that it does afterwards.

There is one lemma per action, which shows its part of all three. While any of them applies
the rollback watch has nothing to do (`WatchLookKeeps`): a deployed slot is down only after a
crash, or a second trouble. `Clean`, `Kept` and `On` were checked with TLC first, for four
runs with one kind of trouble and (but for `On`) three runs with all seven.

### The build gate

`GateAssumption`: builds and peers are finite and disjoint, limits are positive, and the
marks of the hold are not tokens. They hold for any number of builds, peers and
kinds of trouble.

| Theorem | States |
| --- | --- |
| `GateTypeCorrect` | `Spec => []GateTypeOK` |
| `SweepersAreAlone` | `Spec => []SweepsAlone` |
| `BuildsStartClean` | `Spec => StartsClean` |
| `LimitsHold` | `Spec => []WithinLimits` |
| `PeaksStayOwn` | `Spec => []PeaksAreOwn` |

The argument. `SweepsAlone` is not inductive: it speaks of what runs, while the scripts
look at the sets. `GateInv` relates the two: who is in BuildKit has a slot in `held` unless
the process stalled; who sweeps has the hold, and no other slot is in `held` or `lapsed`
while somebody does; and leftover steps are announced by a slot of theirs, by the hold, or
are `missed`. From the last one a build that is admitted without a sweep starts clean. For
the limits, `CapInv` bounds the slots and the at most one token that runs without one
together, since the limits of two attempts may differ; for the peaks, a build that is
`alone` is the only one running and none has met another.

`GateTypeOK` needs what the line holds. `Kept`, which filters it, is a recursive function
rather than the library's `SelectSeq`, so that a proof can unfold it: `WalkExists` shows, by
the least counterexample, that there is such a function, and `KeptLine` that what it keeps is
a line of entries that were there and were not to go. `TypeInv` then says at which places a
build has a slot here, on the target, or an entry.

### The backups

`BackupAssumption`: consoles and jobs are finite and there is a slot. The theorems hold for
any number of both and any mix of troubles.

| Theorem | States |
| --- | --- |
| `BackupTypeCorrect` | `BackupSpec => []BackupTypeOK` |
| `OneRunHolds` | `BackupSpec => []OneRunOfAJob` |
| `OutcomeHolds` | `BackupSpec => OutcomeSticks` |
| `RequeuedOnceHolds` | `BackupSpec => []RequeuedOnce` |

The argument. Types need a little more than themselves (`TypeInv`): a job that is started,
reported on or listed by a sweep is one of the run's, and a task at work has a row. For
`OneRunOfAJob`, `ClaimInv` says that whoever works on a job has its claim. A claim is taken
only when it is free; its holder's end removes it only while it is its own; and one whose
console stopped is nobody's work. What breaks it is a lapse: the claim of a live console
goes, and another may take it before the next beat. `OutcomeSticks` needs `RowInv`: a row
that a task works on is that task's alone, and without a lapse it runs, has its lease from
the moment the task says so, and before that is on no sweep's list, because a sweep spares
rows as young as their insert. So the reaper, which asks for the lease of a row it listed
before, never fails one that will write its outcome.

`RequeuedOnce` is not inductive, and the lock alone does not make it so: what counts is
what a job's nightly run may still do when the rerun begins. `OnceInv` follows each job of
the open run (`JobInv`). `OneNight`: its nightly run is on one tick's list, then one task's,
then one row's. `NightAlone`: as long as it may still work or report its run-job lease is
held, so neither requeue looks at it, and the lock is free with no rerun about.
`OneAgain`: a rerun is one task or one row, behind the lock. `Plans`: what a sweep plans
was cut off and noted by that sweep alone, and a plan whose rerun would not report to the
run, so that would not ask for the lock, is made only where the lock was taken and no rerun
has come of it. The lemmas go action by action; most take a step to do nothing for the job
(`Frame`), the rest are the start, the claim, the row, its outcome, the reaper and the two
requeues. `Unopened` says that nothing of a run is about before it opens, and a run opens
once (`RunMoves`).

### Only model-checked

Every invariant and action property of the passing runs is a theorem. What is left is
liveness (`EveryDeployEnds`, `HoldEnds`, `LoopKeepsRunning`, `TrafficConverges`,
`Rescued`, `EveryBuildEnds`, `EveryJobReports`), which the prover cannot do.

## 5. What the models leave out

- Rows from before the queue existed, and the keys kept for older releases.
- The drain: a process that stops claiming and later stops is one that happens not
  to claim before it crashes.
- Isolated environments of Vardo's own app (they take no hold).
- `SKIP LOCKED` and conflicts: statements are serialised, so a claim never skips a
  row mid-write nor fails on the index; the code's next pass makes up for both.
- `recordWait`'s unguarded write of the wait columns.
- A stage write that lands after its run's fence was asked for (`InOrder`).
- More than one pending answer of `newestQueuedIn` per run.
- A rollback that outlives its lease.
- With a stall, an old run and a new one may both change containers for a while
  (`reclaim`); so `OneSwapPerScope` is checked without stalls.
- In `SlotSwap`: Vardo's own app, local environments and shared services; the decision
  to stop the old slot first when memory is short (`overlap` is fixed per environment);
  a requeued deploy is a new run; the grace period is longer than a run needs. A second
  failing command in one behaviour, so also a crashed slot whose put-back fails and a
  teardown that fails after a failed or refused commit; a teardown of leftovers that fails
  before a swap; a standby whose files lie outside the app's directory, which the watch
  refuses before it starts anything.
- In `LoopLease` and `WorkerLoops`: `overlap: true` loops, whose passes share one
  `leaseLost`; back-off after failures; `VARDO_LEASES=off` and the modes `always` and
  `never` of `VARDO_LOOPS_IN_WEB`; pruning of old presence rows.
- In `BuildGate`: the in-process queue used when Redis is down, and failing Redis calls;
  how the limit and a build's memory are computed (the limit of an attempt is any of
  `Limits`); several targets and their health checks; the wait estimates. A `dirty` hold
  is taken to last until the builds before it ended.
- In `BackupRuns`: jobs of several volumes, summaries and their items, `job` and restore
  runs, the drain of a console (one that starts nothing new), slot weights and the line for
  slots, failing statements, `requeueWindowMs`, drills, and everything a backup archives.
  The finish pass reads and closes in one step; `MAX_RUN_MS`, which a rerun does not push
  out, is not told apart from the deadline. A stop between a run's close and its summary
  loses the summary.
- In the run `stall`, target slots: with one, the older run of a deploy its process
  reclaimed may return the newer claim to the queue (as in `reclaim`).
- Parts not modelled at all, with the reason for each, are in `PROJECT.json`: mostly
  components whose state is one table written by one loop, which `LoopLease` makes
  exclusive, and pure I/O.

## 6. Plan

In order of weight:

1. *(done)* `DeployQueue`, `DeployExecutor`, `DeploySystem`, the abstract
   `DeployLifecycle`; runs `scope` to `recovery`; type correctness, the scope
   invariant, cancels and the refinement proved.
2. *(done)* `LoopLease`, its abstract `FencedLease` and the handoff `WorkerLoops`; run
   `loops`; types, the lease's invariants and both refinements proved.
3. *(done)* `SlotSwap`; runs `swap` and `hold`; types and the three invariants proved.
4. *(done)* `BuildGate`; run `builds`; sweeps, clean starts, limits and peaks proved.
5. `GroupJobs`: group jobs over the deploy lifecycle as their environment (composed with
   `DeployLifecycle`, not with the full queue).
6. *(done)* `BackupRuns`; run `backups`; types, one run of a job, outcomes and one rerun proved.
7. The renewal pass split at its await, which `DeployExecutor` takes in one step.
8. *(done)* Proofs: capacity, reruns and waiters for any capacity; `SysSpec` implements
   `DeployQueue!Spec`, which carries the theorems over to the system.
