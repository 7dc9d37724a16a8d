------------------------------ MODULE DeployQueue ------------------------------
(***************************************************************************)
(* The deploy queue: the `deployment` table and the statements that change *)
(* it, one action per SQL statement or transaction (lib/deploy/queue.ts,   *)
(* the updates of sweeper.ts, bump.ts, the terminal writes of              *)
(* runDeployment, and the rollbacks that write `running` rows themselves). *)
(*                                                                         *)
(* Callers are unconstrained here: whoever may issue a statement may issue *)
(* it at any time.  DeploySystem composes the processes that issue them.   *)
(*                                                                         *)
(* Time is abstract.  A lease is live or lapsed, an exclusive hold fresh   *)
(* or stale, and the 24-hour and 15-minute queue limits may have passed at *)
(* any moment.  Rows written before the queue existed are left out.        *)
(***************************************************************************)
EXTENDS Integers, FiniteSets

CONSTANTS
  Deploys,      \* deployment ids
  Scopes,       \* scope keys: one per app environment
  SelfScope,    \* the scope of Vardo's own app, or a value outside Scopes
  Executors,    \* executor ids; a restarted process is a new one
  ClaimScope,   \* what each executor claims: "all", "self", "others" or "none"
  SlotOf,       \* the slot of Vardo each executor's process belongs to
  Kinds,        \* the kinds of deploy asked for
  HeldKinds,    \* those that may be enqueued on hold
  Capacity,     \* this server's deploy slots
  TargetSlots,  \* build target slots
  MaxPlaces,    \* bound on the numbers that order bumps and local waits
  NoScope, NoExec, NoDeploy

\* "push": webhook, relay or poll.  "head": asked for, builds the branch head.
\* "pin": asked for at a commit or a rollback target.  "rollback": an instant
\* or automatic rollback, which runs in its own process outside the queue.
AllKinds == {"push", "head", "pin", "rollback"}

ASSUME QueueAssumption ==
  /\ IsFiniteSet(Deploys)
  /\ NoDeploy \notin Deploys
  /\ NoExec \notin Executors
  /\ NoScope \notin Scopes
  /\ ClaimScope \in [Executors -> {"all", "self", "others", "none"}]
  /\ SlotOf \in [Executors -> {"blue", "green"}]
  /\ Kinds \subseteq AllKinds
  /\ HeldKinds \subseteq Kinds \ {"rollback"}
  /\ Capacity \in Nat
  /\ TargetSlots \in Nat
  /\ MaxPlaces \in Nat

VARIABLE row    \* the deployment table

Terminal == {"success", "failed", "cancelled", "rolled_back", "superseded"}
Statuses == {"absent", "queued", "running", "deleted"} \cup Terminal

\* "none" is a null stage, "build" any of clone, compose and build, "deploy"
\* every stage from the swap on.
Stages  == {"none", "build", "deploy"}
Cancels == {"none", "user", "timeout", "supersede"}
Holds   == {"off", "fresh", "stale"}

Row == [status: Statuses, kind: Kinds \cup {"none"}, scope: Scopes \cup {NoScope},
        held: BOOLEAN,                         \* scope_key null, request.held
        seq: Nat,                              \* started_at: the enqueue time
        by: Executors \cup {NoExec},           \* claimed_by
        live: BOOLEAN,                         \* lease_expires_at > now()
        stage: Stages, attempts: Nat, cancel: Cancels,
        successor: Deploys \cup {NoDeploy},    \* superseded_by
        bumped: Nat,                           \* bumped_at, 0 for null
        hold: Holds,                           \* exclusive_requested_at
        claimSlot: {"none", "local", "target"},
        waiting: Nat,         \* waiting_since of a deploy-slot wait, 0 for none
        home: {"none", "blue", "green"}]       \* deployment.slot

NoRow == [status |-> "absent", kind |-> "none", scope |-> NoScope, held |-> FALSE,
          seq |-> 0, by |-> NoExec, live |-> FALSE, stage |-> "none", attempts |-> 0,
          cancel |-> "none", successor |-> NoDeploy, bumped |-> 0, hold |-> "off",
          claimSlot |-> "none", waiting |-> 0, home |-> "none"]

Init == row = [d \in Deploys |-> NoRow]

-------------------------------------------------------------------------------
(* What the statements read.                                               *)

\* Mutant: an explicit deploy counts as automatic.
BugAutomatic(k) == k \in {"push", "head"}

Automatic(k)  == k = "push"
TracksHead(k) == k \in {"push", "head"}

Queued  == {d \in Deploys : row[d].status = "queued"}
Running == {d \in Deploys : row[d].status = "running"}

\* Mutant: the status is not checked, so a closed row is still its claimer's.
BugOwned(e, d) == row[d].by = e

Owned(e, d) == row[d].status = "running" /\ row[d].by = e

ScopeBusy(s) == \E d \in Running : row[d].scope = s

RunningExcept(d) == Running \ {d}

OnTarget      == {d \in Running : row[d].claimSlot = "target"}
OnServer      == Running \ OnTarget
AwaitingLocal == {d \in OnTarget : row[d].waiting > 0}

\* Mutant: a hold counts only once its swap began.
BugHoldFresh == \E d \in Deploys : row[d].hold = "fresh" /\ row[d].stage = "deploy"

HoldFresh == \E d \in Deploys : row[d].hold = "fresh"

\* The number a line of places hands out next.
NextPlace(used) == {n \in 1 .. MaxPlaces : n - 1 \in used /\ \A m \in used : m < n}

NewestQueuedIn(s) ==
  LET waiting == {d \in Queued : row[d].scope = s /\ ~row[d].held}
  IN IF waiting = {} THEN NoDeploy
     ELSE CHOOSE d \in waiting : \A x \in waiting : row[x].seq <= row[d].seq

\* An update of one row.
Write(d, new) == row' = [row EXCEPT ![d] = new]

-------------------------------------------------------------------------------
(* Enqueue.                                                                *)

Replaced(x, d) == [x EXCEPT !.status = "superseded", !.successor = d]
ToldToStop(x)  == [x EXCEPT !.cancel = "supersede"]

\* applySupersede on table r, for deploy d that is now queued in its scope.
ApplySupersede(r, d) ==
  LET replaced(x) ==
        /\ x # d /\ r[x].status = "queued" /\ Automatic(r[x].kind)
        /\ r[x].scope = r[d].scope /\ ~r[x].held
        /\ TracksHead(r[d].kind)
      stopped(x) ==
        /\ r[x].status = "running" /\ Automatic(r[x].kind)
        /\ r[x].scope = r[d].scope
        /\ r[x].cancel = "none" /\ r[x].stage \in {"none", "build"}
        /\ Automatic(r[d].kind)
  IN [x \in Deploys |->
        IF replaced(x) THEN Replaced(r[x], d)
        ELSE IF stopped(x) THEN ToldToStop(r[x])
        ELSE r[x]]

NewRow(s, k) ==
  [NoRow EXCEPT !.status = "queued", !.kind = k, !.scope = s,
                !.seq = Cardinality({x \in Deploys : row[x].status # "absent"}) + 1]

EnqueueDeploy(d, s, k) ==
  /\ row[d].status = "absent"
  /\ k # "rollback"
  /\ row' = ApplySupersede([row EXCEPT ![d] = NewRow(s, k)], d)

\* A held row has no scope key, so nothing claims it and it replaces nothing.
EnqueueHeld(d, s, k) ==
  /\ row[d].status = "absent"
  /\ k \in HeldKinds
  /\ Write(d, [NewRow(s, k) EXCEPT !.held = TRUE])

ReleaseHeldDeploy(d) ==
  /\ row[d].status = "queued" /\ row[d].held
  /\ row' = ApplySupersede([row EXCEPT ![d].held = FALSE], d)

\* The statement takes the claim lock, as does the claim below.
BumpDeploy(d) ==
  /\ row[d].status = "queued"
  /\ \E n \in NextPlace({row[x].bumped : x \in Deploys}) :
       Write(d, [row[d] EXCEPT !.bumped = n])

-------------------------------------------------------------------------------
(* Claim: one transaction under the claim lock.                            *)

\* Mutant: the claim forgets what runs in the scope.
BugClaimable == {d \in Queued : ~row[d].held}

Claimable == {d \in Queued : ~row[d].held /\ ~ScopeBusy(row[d].scope)}

IsSelf(d) == row[d].scope = SelfScope

\* The line inside one scope, and across scopes within one class.
InLine(a, b) ==
  \/ row[a].bumped > row[b].bumped
  \/ /\ row[a].bumped = row[b].bumped
     /\ \/ ~Automatic(row[a].kind) /\ Automatic(row[b].kind)
        \/ /\ Automatic(row[a].kind) = Automatic(row[b].kind)
           /\ row[a].seq < row[b].seq

ClaimsBefore(a, b) ==
  \/ IsSelf(a) /\ ~IsSelf(b)
  \/ IsSelf(a) = IsSelf(b) /\ InLine(a, b)

\* Whether executor e's claim filter lets it take d.
Takes(e, d) == \/ ClaimScope[e] = "all"
               \/ ClaimScope[e] = "self" /\ IsSelf(d)
               \/ ClaimScope[e] = "others" /\ ~IsSelf(d)

\* The head of each idle scope's line.
Heads(e) == {d \in Claimable :
               /\ Takes(e, d)
               /\ \A x \in Claimable \ {d} : row[x].scope = row[d].scope => InLine(d, x)}

\* The first n of S in claim order, or all of S when it has fewer.
FirstOf(n, S) ==
  {T \in SUBSET S :
     /\ \A t \in T, u \in S \ T : ClaimsBefore(t, u)
     /\ T = S \/ Cardinality(T) >= n
     /\ T = {} \/ Cardinality(T) <= n}

\* Mutant: no slot is kept for Vardo's own deploys.
BugSelfReady(e) == 0

\* A claimer that leaves Vardo's own deploys to another keeps a slot for them.
SelfReady(e) == IF ClaimScope[e] = "others" /\ \E d \in Claimable : IsSelf(d) THEN 1 ELSE 0

\* Mutant: deploys waiting on a target for a slot of this server are not counted.
BugLocalFree(e) == Capacity - Cardinality(OnServer) - SelfReady(e)

LocalFree(e) ==
  Capacity - Cardinality(OnServer) - Cardinality(AwaitingLocal) - SelfReady(e)

\* Target slots a claim may use.  Builds of deploys claimed on this server can
\* hold any number of them, so fewer may be free than this queue knows of.
TargetFree(e) ==
  IF ClaimScope[e] = "self" THEN {0}
  ELSE {n \in 0 .. TargetSlots : n = 0 \/ n + Cardinality(OnTarget) <= TargetSlots}

Claimed(d, e, slot) ==
  [row[d] EXCEPT !.status = "running", !.by = e, !.live = TRUE, !.stage = "none",
                 !.bumped = 0, !.claimSlot = slot, !.waiting = 0]

\* The table after e claims the heads `here` on this server's slots and the
\* heads `there` on a build target's.
AfterClaim(e, here, there) ==
  [d \in Deploys |-> IF d \in here THEN Claimed(d, e, "none")
                     ELSE IF d \in there THEN Claimed(d, e, "target")
                     ELSE row[d]]

ClaimPicks(e) ==
  UNION {UNION {{<<here, there>> : there \in
            FirstOf(free, {d \in Heads(e) \ here : ~IsSelf(d) /\ row[d].claimSlot # "local"})}
          : here \in FirstOf(LocalFree(e), Heads(e))} : free \in TargetFree(e)}

ClaimDeploys(e, here, there) ==
  /\ ClaimScope[e] # "none"
  /\ ~HoldFresh
  /\ <<here, there>> \in ClaimPicks(e)
  /\ here \cup there # {}
  /\ row' = AfterClaim(e, here, there)

-------------------------------------------------------------------------------
(* A running deploy's slots.                                               *)

\* Deploys already waiting for this server's slot before d.
Owed(d) == {x \in AwaitingLocal \ {d} :
              row[d].waiting = 0 \/ row[x].waiting < row[d].waiting}

\* Mutant: off by one.
BugLocalSlotFree(d) == Cardinality(OnServer) + Cardinality(Owed(d)) <= Capacity

LocalSlotFree(d) == Cardinality(OnServer) + Cardinality(Owed(d)) < Capacity

TakeLocalSlot(e, d) ==
  /\ Owned(e, d) /\ LocalSlotFree(d)
  /\ Write(d, [row[d] EXCEPT !.claimSlot = "none"])

AwaitLocalSlot(e, d) ==
  /\ row[d].by = e
  /\ row[d].waiting = 0
  /\ \E n \in NextPlace({0} \cup {row[x].waiting : x \in AwaitingLocal}) :
       Write(d, [row[d] EXCEPT !.waiting = n])

EndLocalWait(d) ==
  /\ row[d].waiting > 0
  /\ Write(d, [row[d] EXCEPT !.waiting = 0])

\* Back to the queue for this server's slot: the cancel fields stay.
RequeueForLocalSlot(e, d) ==
  /\ Owned(e, d)
  /\ Write(d, [row[d] EXCEPT !.status = "queued", !.by = NoExec, !.live = FALSE,
                           !.stage = "none", !.claimSlot = "local", !.waiting = 0])

-------------------------------------------------------------------------------
(* Leases, stages and the fence.                                           *)

\* One update for every row the executor still holds.  It revives a lapsed
\* lease nobody has swept.
RenewLeases(e, ids) ==
  row' = [d \in Deploys |-> IF d \in ids /\ Owned(e, d) THEN [row[d] EXCEPT !.live = TRUE]
                            ELSE row[d]]

MarkStage(e, d, s) ==
  /\ Owned(e, d)
  /\ Write(d, [row[d] EXCEPT !.stage = s])

\* The swap's fence.
MayEnterSwap(e, d) == Owned(e, d) /\ row[d].live

\* Mutant: the stage is left to the write that follows.
BugEnterSwap(e, d) ==
  /\ MayEnterSwap(e, d)
  /\ Write(d, [row[d] EXCEPT !.live = TRUE])

EnterSwap(e, d) ==
  /\ MayEnterSwap(e, d)
  /\ Write(d, [row[d] EXCEPT !.stage = "deploy", !.live = TRUE])

\* Forty-five seconds without a renewal.
LapseLease(d) ==
  /\ row[d].status = "running" /\ row[d].live
  /\ Write(d, [row[d] EXCEPT !.live = FALSE])

-------------------------------------------------------------------------------
(* Cancels.  requestCancel is two statements.                              *)

CancelQueued(d, reason) ==
  /\ row[d].status = "queued"
  /\ Write(d, [row[d] EXCEPT !.status = "cancelled", !.cancel = reason])

\* A user or timeout reason replaces a supersede, and the first of them stays.
FlagRunning(d, reason) ==
  /\ row[d].status = "running"
  /\ Write(d, [row[d] EXCEPT !.cancel = IF @ \in {"none", "supersede"} THEN reason ELSE @])

\* Mutant: whatever reason the row carries is cleared.
BugDropSupersede(d) == Write(d, [row[d] EXCEPT !.cancel = "none"])

DropSupersede(d) ==
  Write(d, [row[d] EXCEPT !.cancel = IF @ = "supersede" THEN "none" ELSE @])

-------------------------------------------------------------------------------
(* The exclusive hold of Vardo's own swap.                                 *)

\* requestExclusive's first statement, under the claim lock.  An older mark stays.
SetExclusive(d) ==
  /\ row[d].status = "running"
  /\ Write(d, [row[d] EXCEPT !.hold = IF @ = "off" THEN "fresh" ELSE @])

ReleaseExclusive(d) == Write(d, [row[d] EXCEPT !.hold = "off"])

\* Mutants: a success's flag is anyone's to clear, or nobody's.
BugLeftOverAny(d, e) ==
  row[d].hold # "off" /\ row[d].status \notin {"running", "queued"}
BugLeftOverNone(d, e) ==
  /\ row[d].hold # "off"
  /\ row[d].status \notin {"running", "queued"}
  /\ row[d].status # "success" \/ row[d].home = "none"

\* The flag of a deploy that succeeded is for a claimer in the new slot to clear.
LeftOver(d, e) ==
  /\ row[d].hold # "off"
  /\ row[d].status \notin {"running", "queued"}
  /\ \/ row[d].status # "success"
     \/ row[d].home = "none"
     \/ row[d].home = SlotOf[e]

ClearFinishedExclusive(e) ==
  row' = [d \in Deploys |-> IF LeftOver(d, e) THEN [row[d] EXCEPT !.hold = "off"] ELSE row[d]]

\* Thirty minutes after it was set.
AgeExclusive(d) ==
  /\ row[d].hold = "fresh"
  /\ Write(d, [row[d] EXCEPT !.hold = "stale"])

-------------------------------------------------------------------------------
(* Terminal writes.                                                        *)

Outcomes == {"success", "failed", "cancelled", "superseded"}

OtherSlot(s) == IF s = "blue" THEN "green" ELSE "blue"

\* Every terminal write of a run is guarded by ownedRow.  A success records the
\* slot it left serving; only Vardo's own matters to the queue.
Finish(e, d, outcome, successor) ==
  /\ Owned(e, d)
  /\ Write(d, [row[d] EXCEPT !.status = outcome,
                           !.successor = IF outcome = "superseded" THEN successor ELSE @,
                           !.home = IF outcome = "success" /\ IsSelf(d) THEN OtherSlot(SlotOf[e]) ELSE @])

-------------------------------------------------------------------------------
(* The sweeper's writes, each guarded against what changed since its read. *)

\* Mutant: a deploy that died before its first stage is not seen.
BugExpired(d) == row[d].status = "running" /\ ~row[d].live /\ row[d].stage # "none"

Expired(d) == row[d].status = "running" /\ ~row[d].live

\* Mutants: the stage read is not checked again, the claim stays on the row, and
\* the count of reruns goes the wrong way.
BugSweepAnyStage(d, stage) ==
  /\ Expired(d)
  /\ Write(d, [row[d] EXCEPT !.status = "queued", !.by = NoExec, !.live = FALSE, !.stage = "none"])
BugSweepKeepsClaim(d, stage) ==
  /\ Expired(d) /\ row[d].stage = stage
  /\ Write(d, [row[d] EXCEPT !.status = "queued", !.stage = "none"])
BugSweepCounts(d, stage) ==
  /\ Expired(d) /\ row[d].stage = stage
  /\ Write(d, [row[d] EXCEPT !.status = "queued", !.by = NoExec, !.live = FALSE, !.stage = "none",
                           !.attempts = @ - 1])

\* `stage` and `attempts` are what the sweeper read.  A rerun is counted unless
\* the deploy never reached its first stage.
SweepRequeue(d, stage) ==
  /\ Expired(d) /\ row[d].stage = stage
  /\ Write(d, [row[d] EXCEPT !.status = "queued", !.by = NoExec, !.live = FALSE, !.stage = "none",
                           !.attempts = IF stage = "none" THEN @ ELSE @ + 1, !.hold = "off"])

FailDeadDeploy(d) ==
  /\ Expired(d)
  /\ Write(d, [row[d] EXCEPT !.status = "failed", !.hold = "off"])

\* A push queued for a day, or a held deploy nobody released.
ExpireQueued(d) ==
  /\ row[d].status = "queued"
  /\ Automatic(row[d].kind) \/ row[d].held
  /\ Write(d, [row[d] EXCEPT !.status = "cancelled"])

-------------------------------------------------------------------------------
(* Instant and automatic rollbacks insert a running row of their own; the  *)
(* index on running scopes is their only guard.                            *)

InsertRollback(e, d, s) ==
  /\ "rollback" \in Kinds
  /\ row[d].status = "absent"
  /\ ~ScopeBusy(s)
  /\ Write(d, [NewRow(s, "rollback") EXCEPT !.status = "running", !.by = e, !.live = TRUE])

\* Their last write names the row alone: whatever it became, it is overwritten.
FinishRollback(d, outcome) ==
  /\ row[d].kind = "rollback" /\ row[d].status # "deleted"
  /\ outcome \in {"success", "failed", "deleted"}
  /\ Write(d, [row[d] EXCEPT !.status = outcome])

\* The deploy a rollback rescued.
MarkRolledBack(d) ==
  /\ row[d].status = "success"
  /\ \E r \in Deploys : row[r].kind = "rollback" /\ row[r].scope = row[d].scope
  /\ Write(d, [row[d] EXCEPT !.status = "rolled_back"])

-------------------------------------------------------------------------------
Request(d) ==
  \/ \E s \in Scopes, k \in Kinds : EnqueueDeploy(d, s, k) \/ EnqueueHeld(d, s, k)
  \/ ReleaseHeldDeploy(d)
  \/ BumpDeploy(d)
  \/ \E reason \in {"user", "timeout"} : CancelQueued(d, reason) \/ FlagRunning(d, reason)

\* Runs write the rows they claimed, and a rollback's is never queued to be claimed.
ExecutorWrite(e, d) ==
  /\ row[d].kind # "rollback"
  /\ \/ TakeLocalSlot(e, d) \/ AwaitLocalSlot(e, d) \/ EndLocalWait(d) \/ RequeueForLocalSlot(e, d)
     \/ \E s \in Stages \ {"none"} : MarkStage(e, d, s)
     \/ EnterSwap(e, d)
     \/ DropSupersede(d)
     \/ SetExclusive(d) \/ ReleaseExclusive(d)
     \/ \E o \in Outcomes, t \in Deploys \cup {NoDeploy} : Finish(e, d, o, t)

\* A rollback's row names no target, so it is failed and never requeued.
Sweep(d) ==
  \/ /\ row[d].kind # "rollback"
     /\ (row[d].attempts = 0 /\ SweepRequeue(d, "build")) \/ SweepRequeue(d, "none")
  \/ FailDeadDeploy(d)
  \/ ExpireQueued(d)

Rollback(d) ==
  \/ \E e \in Executors, s \in Scopes : InsertRollback(e, d, s)
  \/ \E o \in Outcomes \cup {"deleted"} : FinishRollback(d, o)
  \/ MarkRolledBack(d)

Next ==
  \/ \E d \in Deploys : Request(d) \/ Sweep(d) \/ Rollback(d) \/ LapseLease(d) \/ AgeExclusive(d)
  \/ \E e \in Executors, d \in Deploys : ExecutorWrite(e, d)
  \/ \E e \in Executors : \E picks \in ClaimPicks(e) : ClaimDeploys(e, picks[1], picks[2])
  \/ \E e \in Executors : ClearFinishedExclusive(e)
  \/ \E e \in Executors, ids \in SUBSET Deploys : RenewLeases(e, ids)

Spec == Init /\ [][Next]_row

-------------------------------------------------------------------------------
TypeOK == row \in [Deploys -> Row]

\* One deploy at a time in an app environment, rollbacks included, whatever the
\* claims, sweeps, requeues and direct inserts interleave to (queue.ts's
\* NOT EXISTS, the conflict handling, and the slot moves between them).
OneRunningPerScope ==
  \A a, b \in Running : row[a].scope = row[b].scope => a = b

\* A running row has an owner whose lease the sweeper can watch, and a queued
\* one carries nothing of an earlier claim: no owner, no lease, no stage.
OwnedWhileRunning ==
  \A d \in Deploys :
    /\ d \in Running => row[d].by # NoExec
    /\ d \in Queued  => row[d].by = NoExec /\ ~row[d].live /\ row[d].stage = "none"

\* Claims, moves from a target's slot and requeues together never run more
\* queued deploys on this server than its deploy concurrency setting, nor more
\* on build targets than those have slots.  Rollbacks are not queued and can
\* come on top.
WithinCapacity ==
  /\ Cardinality({d \in OnServer : row[d].kind # "rollback"}) <= Capacity
  /\ Cardinality(OnTarget) <= TargetSlots

\* The crash rule reruns a deploy that got past its first stage once at most.
AtMostOneRerun == \A d \in Deploys : row[d].attempts <= 1

\* The queue implements DeployLifecycle: a deploy that ended is never reopened
\* or rewritten by a late write of an executor, a sweep or a cancel, and nothing
\* starts in an app environment where something runs.
Lifecycle == INSTANCE DeployLifecycle WITH
  phase <- [d \in Deploys |-> row[d].status],
  kind  <- [d \in Deploys |-> row[d].kind],
  place <- [d \in Deploys |-> row[d].scope]
ImplementsLifecycle == Lifecycle!LifecycleSpec

\* A user's or the time limit's request to stop survives requeues, claims and
\* dropped supersedes until the deploy ends.
CancelSticks ==
  [][\A d \in Deploys :
       row[d].cancel \in {"user", "timeout"} => row'[d].cancel \in {"user", "timeout"}]_row

\* A deploy on a build target that waits for a slot of this server and has one
\* coming never loses it: no claim, no later waiter and no build that turns back
\* takes it first.  Only a rollback, which asks nobody, may come in between.
WaiterKeepsItsSlot ==
  [][\A d \in AwaitingLocal :
       /\ LocalSlotFree(d) /\ d \in AwaitingLocal'
       /\ ~\E x \in Deploys : row[x].status = "absent" /\ row'[x].kind = "rollback"
       => LocalSlotFree(d)']_row

\* A slot of this server that a deploy of Vardo itself could take next is not
\* taken by another app's deploy first, whoever claims.
SelfKeepsItsSlot ==
  [][\A d, x \in Queued :
       /\ IsSelf(d) /\ d \in Claimable /\ d \in Claimable'
       /\ ~IsSelf(x) /\ x \in Running'
       /\ Cardinality(OnServer) + Cardinality(AwaitingLocal) < Capacity
       => Cardinality(OnServer') + Cardinality(AwaitingLocal') < Capacity]_row

===============================================================================
