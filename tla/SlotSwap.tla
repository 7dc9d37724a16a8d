------------------------------- MODULE SlotSwap -------------------------------
(***************************************************************************)
(* The blue and green slot of one app environment: the containers a deploy *)
(* (swap.ts, post-deploy.ts, deploy.ts), an instant rollback               *)
(* (instant-rollback.ts), the rollback watch (rollback-monitor.ts) and the *)
(* sweeps (sweeper.ts) start, route to, stop and remove.                   *)
(*                                                                         *)
(* The row that holds the environment's scope is the lock of DeployQueue.  *)
(* A step is one Docker command with what the code does until the next.    *)
(***************************************************************************)
EXTENDS Integers, FiniteSets

CONSTANTS
  NumRuns,     \* deploys and rollbacks, numbered in the order they start
  MaxTroubles, \* bound on the kinds of trouble in one behaviour, besides a crash; each at most once
  Prompt       \* a run looks at the slots once the last has let go of them

ASSUME SlotAssumption == NumRuns \in Nat /\ MaxTroubles \in Nat /\ Prompt \in BOOLEAN

VARIABLES
  overlap,   \* both slots may run at once: no host port, no shared volume, not stop-first
  slots,     \* per slot: its containers, proven healthy, restarted by Docker, whose version
  current,   \* the slot the `current` symlink names
  pin,       \* the slot Traefik's hold or cutover file names
  row,       \* the run whose row holds the scope, or 0
  run,       \* per run: its kind, where it is, the slot that serves and the one it starts
  aborted,   \* runs whose signal is aborted: cancelled, superseded or lost
  record,    \* the newest row of status success: its run, kind, slot and version
  rows,      \* runs with a row
  sweep,     \* the slot the standby sweep is about to stop
  troubles   \* what has gone wrong so far

vars == <<overlap, slots, current, pin, row, run, aborted, record, rows, sweep, troubles>>

Slots == {"blue", "green"}
None  == "none"
Runs  == 1..NumRuns
Kinds == {"deploy", "instant", "watch"}

Other(s) == IF s = "blue" THEN "green" ELSE "blue"

NoContainers == [state |-> "gone", ok |-> FALSE, keep |-> FALSE, by |-> 0]

Init ==
  /\ overlap \in BOOLEAN
  /\ slots = [s \in Slots |-> NoContainers]
  /\ current = None /\ pin = None /\ row = 0
  /\ run = [o \in Runs |-> [kind |-> None, at |-> "new", old |-> None, new |-> None, stopped |-> FALSE]]
  /\ aborted = {}
  /\ record = [op |-> 0, kind |-> None, slot |-> None, by |-> 0] /\ rows = {}
  /\ sweep = None /\ troubles = {}

\* A Docker command, a write or a read fails, a process stalls or dies, Docker restarts,
\* a version crashes.
TroubleKinds == {"docker", "write", "read", "stall", "death", "daemon", "crash"}

Trouble(kind) ==
  /\ kind \notin troubles
  /\ kind = "crash" \/ Cardinality(troubles \ {"crash"}) < MaxTroubles
  /\ troubles' = troubles \cup {kind}

Fine    == UNCHANGED troubles

Up(s)  == slots[s].state = "up"
Active == {o \in Runs : run[o].at \notin {"new", "over", "dead"}}

\* Runs that have picked their slots.
Holders == {o \in Active : run[o].new # None}
Free    == Prompt => Holders = {} /\ sweep = None

-------------------------------------------------------------------------------
(* What a command does to a slot.                                          *)

With(s, x)  == slots' = [slots EXCEPT ![s] = x]

\* Mutant: the version is taken for the next one.
BugFresh(o) == [state |-> "up", ok |-> FALSE, keep |-> TRUE, by |-> o + 1]

Fresh(o)    == [state |-> "up", ok |-> FALSE, keep |-> TRUE, by |-> o]
Started(s)  == [slots[s] EXCEPT !.state = "up", !.keep = TRUE]
Halted(s)   == [slots[s] EXCEPT !.state = IF @ = "up" THEN "down" ELSE @]
Pinned(s)   == [slots[s] EXCEPT !.keep = FALSE]
Removed(s)  == [slots[s] EXCEPT !.state = "gone", !.keep = FALSE]

\* Mutant: the policy changes but the slot runs on.
BugDemoted(s) == Pinned(s)

\* restart: no, and stopped.
Demoted(s)  == [Halted(s) EXCEPT !.keep = FALSE]

\* Mutant: the symlink is believed even when its slot is down and the other one up.
BugActiveSlot ==
  IF current # None THEN current
  ELSE IF Up("blue") THEN "blue" ELSE IF Up("green") THEN "green" ELSE None

\* Mutant: a symlink whose slot is down is overruled whatever the other one does.
BugOverruled ==
  IF current # None THEN IF ~Up(current) THEN Other(current) ELSE current
  ELSE IF Up("blue") THEN "blue" ELSE IF Up("green") THEN "green" ELSE None

\* detectActiveSlot.
ActiveSlot ==
  IF current # None THEN IF ~Up(current) /\ Up(Other(current)) THEN Other(current) ELSE current
  ELSE IF Up("blue") THEN "blue" ELSE IF Up("green") THEN "green" ELSE None

-------------------------------------------------------------------------------
(* A run.                                                                  *)

Go(o, at) == run' = [run EXCEPT ![o].at = at]

\* The row leaves the scope; a row closed elsewhere is left as it is.
FreeRow(o) == row' = IF row = o THEN 0 ELSE row

Succeed(o, s) ==
  /\ FreeRow(o) /\ UNCHANGED rows
  /\ record' = [op |-> o, kind |-> run[o].kind, slot |-> s, by |-> slots[s].by]

Same == UNCHANGED <<overlap, sweep>>
Unrecorded == UNCHANGED <<record, rows>>

\* A claim or an insert of a running row.
Takes(o, kind) ==
  /\ run[o].at = "new" /\ \A q \in Runs : q < o => run[q].at # "new"
  /\ row = 0 /\ row' = o /\ rows' = rows \cup {o}
  /\ run' = [run EXCEPT ![o].kind = kind, ![o].at = "claimed"]
  /\ UNCHANGED <<overlap, slots, current, pin, aborted, record, sweep, troubles>>

StartDeploy(o)   == Takes(o, "deploy")
StartRollback(o) == Takes(o, "instant")

\* A cancel, a supersede or the loss of the claim reaches the run.
Abort(o) ==
  /\ o \in Active \ aborted /\ run[o].kind = "deploy"
  /\ aborted' = aborted \cup {o}
  /\ UNCHANGED <<overlap, slots, current, pin, row, run, record, rows, sweep, troubles>>

\* The lease of a dead or stalled run lapses and the sweeper requeues or fails its row.
\* An active slot that is down goes too, if the run failed, the scope is still free and
\* Docker answers.
CloseElsewhere(o) ==
  LET s == ActiveSlot
  IN /\ row = o /\ row' = 0
     /\ \/ run[o].at = "dead" /\ Fine
        \/ o \in Active /\ Trouble("stall")
     /\ \/ UNCHANGED slots
        \/ s # None /\ ~Up(s) /\ With(s, Removed(s))
     /\ UNCHANGED <<overlap, current, pin, run, aborted, record, rows, sweep>>

\* A run's process dies.
Die(o) ==
  /\ o \in Active
  /\ Go(o, "dead") /\ Trouble("death")
  /\ UNCHANGED <<overlap, slots, current, pin, row, aborted, record, rows, sweep>>

-------------------------------------------------------------------------------
(* A deploy.                                                               *)

At(o, kind, at) == run[o].kind = kind /\ run[o].at = at
Deploys(o, at)  == At(o, "deploy", at)

\* The build step picks the slot to deploy to.
PickSlot(o) ==
  /\ Deploys(o, "claimed") /\ Free
  /\ run' = [run EXCEPT ![o].at = "picked", ![o].old = ActiveSlot, ![o].new = Other(ActiveSlot)]
  /\ UNCHANGED <<slots, current, pin, row, aborted, troubles>> /\ Same /\ Unrecorded

\* The swap begins: a pin and leftovers of an earlier deploy go.
ClearNewSlot(o) ==
  /\ Deploys(o, "picked")
  /\ pin' = None /\ With(run[o].new, NoContainers)
  /\ Go(o, "cleared")
  /\ UNCHANGED <<current, row, aborted, troubles>> /\ Same /\ Unrecorded

\* An error, a cancel or a lost claim before the fence.
LeaveEarly(o) ==
  /\ \E at \in {"claimed", "picked", "cleared"} : Deploys(o, at)
  /\ Go(o, "over") /\ FreeRow(o)
  /\ UNCHANGED <<slots, current, pin, aborted, troubles>> /\ Same /\ Unrecorded

\* beforeSwap and the last free cancel.
PassFence(o) ==
  /\ Deploys(o, "cleared") /\ row = o /\ o \notin aborted
  /\ Go(o, "fenced")
  /\ UNCHANGED <<slots, current, pin, row, aborted, troubles>> /\ Same /\ Unrecorded

\* The old slot keeps serving, held by Traefik if it can, or stops to make way.
\* A stop that fails leaves it running, demoted.
MakeWay(o) ==
  LET old == run[o].old
      stops(x) == With(old, x) /\ run' = [run EXCEPT ![o].at = "clear", ![o].stopped = TRUE]
  IN /\ Deploys(o, "fenced")
     /\ \/ /\ overlap \/ old = None
           /\ pin' \in {old, None}
           /\ Go(o, "clear") /\ Fine /\ UNCHANGED slots
        \/ /\ ~overlap /\ old # None /\ UNCHANGED pin
           /\ \/ stops(Demoted(old)) /\ Fine
              \/ stops(Pinned(old)) /\ Trouble("docker")
     /\ UNCHANGED <<current, row, aborted>> /\ Same /\ Unrecorded

ComposeUp(o) ==
  /\ Deploys(o, "clear")
  /\ With(run[o].new, Fresh(o)) /\ Go(o, "started")
  /\ UNCHANGED <<current, pin, row, aborted, troubles>> /\ Same /\ Unrecorded

CheckAbort(o) ==
  /\ Deploys(o, "started") /\ o \notin aborted
  /\ Go(o, "probing")
  /\ UNCHANGED <<slots, current, pin, row, aborted, troubles>> /\ Same /\ Unrecorded

\* restoreOldSlot; it does nothing to a slot the run has not touched.
Restored(o) == IF run[o].stopped THEN Started(run[o].old) ELSE slots[run[o].old]

\* The slot does not come up, is cancelled, is not healthy, or its row was closed:
\* it is torn down, the old one restored and its hold released.  Either may fail.
GiveUp(o) ==
  LET old == run[o].old
      torn == [slots EXCEPT ![run[o].new] = NoContainers]
      restored(x) == IF old = None THEN x ELSE [x EXCEPT ![old] = Restored(o)]
  IN /\ \E at \in {"clear", "started", "probing"} : Deploys(o, at) /\ (at = "started" => o \in aborted)
     /\ \/ slots' = restored(torn) /\ Fine
        \/ slots' = restored(slots) /\ Trouble("docker")
        \/ slots' = torn /\ run[o].stopped /\ Trouble("docker")
     /\ pin' = None /\ Go(o, "over") /\ FreeRow(o)
     /\ UNCHANGED <<current, aborted>> /\ Same /\ Unrecorded

\* Healthy, and the row is still running as far as the database can say.
BecomeHealthy(o) ==
  /\ Deploys(o, "probing") /\ Up(run[o].new)
  /\ \/ row = o /\ Fine
     \/ row # o /\ Trouble("read")
  /\ With(run[o].new, [slots[run[o].new] EXCEPT !.ok = TRUE])
  /\ Go(o, "healthy")
  /\ UNCHANGED <<current, pin, row, aborted>> /\ Same /\ Unrecorded

\* The old slot is to be stopped once the deploy commits.
StopsLater(o) == overlap /\ run[o].old # None

\* Mutant: a proven slot is removed whatever still serves.
BugKeepsProven(o) == FALSE

\* keepProvenSlot.
KeepsProven(o) == ~(StopsLater(o) /\ Up(run[o].old))

\* A write fails before the commit.  An aborted run cleans nothing up; another
\* removes its slot, unless nothing else serves.
FailBeforeCommit(o) ==
  LET new == run[o].new
  IN /\ Deploys(o, "healthy") /\ Trouble("write")
     /\ \/ o \in aborted /\ UNCHANGED <<slots, current>>
        \/ o \notin aborted /\ KeepsProven(o) /\ current' = new /\ UNCHANGED slots
        \/ o \notin aborted /\ ~KeepsProven(o) /\ With(new, NoContainers) /\ UNCHANGED current
     /\ pin' = None /\ Go(o, "over") /\ FreeRow(o)
     /\ UNCHANGED aborted /\ Same /\ Unrecorded

\* Whether the success write finds the row.
Commits(o) == row = o

Commit(o) ==
  /\ Deploys(o, "healthy") /\ Commits(o)
  /\ Succeed(o, run[o].new) /\ Go(o, "committed")
  /\ UNCHANGED <<slots, current, pin, aborted, troubles>> /\ Same

\* The row was closed elsewhere.  With an old slot to return to the new one goes;
\* otherwise it serves under that record.
CommitRefused(o) ==
  /\ Deploys(o, "healthy") /\ ~Commits(o)
  /\ \/ /\ StopsLater(o)
        /\ With(run[o].new, NoContainers) /\ pin' = None /\ Go(o, "over")
     \/ /\ ~StopsLater(o)
        /\ Go(o, "committed") /\ UNCHANGED <<slots, pin>>
  /\ UNCHANGED <<current, row, aborted, troubles>> /\ Same /\ Unrecorded

\* Mutant: `current` stays where it was.
BugPoints(s) == current

Points(s) == s

PointCurrent(o) ==
  /\ Deploys(o, "committed")
  /\ \/ current' = Points(run[o].new) /\ Fine
     \/ UNCHANGED current /\ Trouble("write")
  /\ Go(o, IF StopsLater(o) THEN "pointed" ELSE "over")
  /\ UNCHANGED <<slots, pin, row, aborted>> /\ Same /\ Unrecorded

\* A write after the commit fails: what serves stays as it is.
FailAfterCommit(o) ==
  /\ \E at \in {"committed", "pointed"} : Deploys(o, at)
  /\ pin' = None /\ Go(o, "over") /\ Trouble("write")
  /\ UNCHANGED <<slots, current, row, aborted>> /\ Same /\ Unrecorded

\* guardCutover: Traefik goes to the new slot alone, or the hold just ends.
PinNewSlot(o) ==
  /\ Deploys(o, "pointed")
  /\ pin' \in {run[o].new, None} /\ Go(o, "pinned")
  /\ UNCHANGED <<slots, current, row, aborted, troubles>> /\ Same /\ Unrecorded

StopOldSlot(o) ==
  LET old == run[o].old
  IN /\ Deploys(o, "pinned")
     /\ \/ With(old, Demoted(old)) /\ Fine
        \/ With(old, Pinned(old)) /\ Trouble("docker")
     /\ Go(o, "stopped")
     /\ UNCHANGED <<current, pin, row, aborted>> /\ Same /\ Unrecorded

Unpin(o) ==
  /\ Deploys(o, "stopped")
  /\ pin' = None /\ Go(o, "over")
  /\ UNCHANGED <<slots, current, row, aborted, troubles>> /\ Same /\ Unrecorded

-------------------------------------------------------------------------------
(* An instant rollback.                                                    *)

Flips(o, at) == At(o, "instant", at)

\* Its row is deleted unless it swapped.
Quit(o) == Go(o, "over") /\ FreeRow(o) /\ rows' = rows \ {o}

RollbackPick(o) ==
  LET old == ActiveSlot
      can == old # None /\ slots[Other(old)].state # "gone"
  IN /\ Flips(o, "claimed") /\ Free
     /\ \/ /\ can /\ pin' = None
           /\ run' = [run EXCEPT ![o].at = "flip", ![o].old = old, ![o].new = Other(old)]
           /\ UNCHANGED <<row, rows>>
        \/ ~can /\ Quit(o) /\ UNCHANGED pin
     /\ UNCHANGED <<slots, current, aborted, troubles>> /\ Same /\ UNCHANGED record

\* The active slot is left running, or stops first because the two cannot overlap.
RollbackMakeWay(o) ==
  /\ Flips(o, "flip")
  /\ \/ overlap /\ Go(o, "clear") /\ Fine /\ UNCHANGED <<slots, row, rows>>
     \/ ~overlap /\ With(run[o].old, Halted(run[o].old)) /\ Go(o, "clear") /\ Fine /\ UNCHANGED <<row, rows>>
     \/ ~overlap /\ Trouble("docker") /\ Quit(o) /\ UNCHANGED slots
  /\ UNCHANGED <<current, pin, aborted>> /\ Same /\ UNCHANGED record

\* restartActive.
Restarted(o, x) ==
  IF overlap THEN x ELSE [x EXCEPT ![run[o].old].state = IF @ = "down" THEN "up" ELSE @]

\* The standby starts.  A failing start, or one whose restart policy cannot be set, may
\* leave it running.
RollbackStart(o) ==
  LET new == run[o].new
  IN /\ Flips(o, "clear")
     /\ \/ With(new, Started(new)) /\ Go(o, "probing") /\ Fine /\ UNCHANGED <<row, rows>>
        \/ /\ slots' \in {Restarted(o, slots), Restarted(o, [slots EXCEPT ![new].state = "up"])}
           /\ Quit(o) /\ Trouble("docker")
     /\ UNCHANGED <<current, pin, aborted>> /\ Same /\ UNCHANGED record

\* The standby runs, or stops again, its restart policy as it was when it served.
RollbackProbe(o) ==
  LET new == run[o].new
  IN /\ Flips(o, "probing")
     /\ \/ Up(new) /\ With(new, [slots[new] EXCEPT !.ok = TRUE]) /\ Go(o, "healthy") /\ UNCHANGED <<row, rows>>
        \/ slots' = Restarted(o, [slots EXCEPT ![new] = [Halted(new) EXCEPT !.ok = FALSE]]) /\ Quit(o)
     /\ UNCHANGED <<current, pin, aborted, troubles>> /\ Same /\ UNCHANGED record

\* A stop that fails skips the restart policy too; the rollback goes on.
RollbackStop(o) ==
  LET old == run[o].old
  IN /\ Flips(o, "healthy")
     /\ \/ With(old, Demoted(old)) /\ Fine
        \/ Up(old) /\ Trouble("docker") /\ UNCHANGED slots
     /\ Go(o, "stopped")
     /\ UNCHANGED <<current, pin, row, aborted>> /\ Same /\ Unrecorded

RollbackPoint(o) ==
  /\ Flips(o, "stopped")
  /\ \/ current' = Points(run[o].new) /\ Fine
     \/ UNCHANGED current /\ Trouble("write")
  /\ Go(o, "pointed")
  /\ UNCHANGED <<slots, pin, row, aborted>> /\ Same /\ Unrecorded

\* Success is written by id, whoever closed the row since.
RollbackDone(o) ==
  /\ Flips(o, "pointed")
  /\ Go(o, "over") /\ UNCHANGED slots /\ Succeed(o, run[o].new)
  /\ UNCHANGED <<current, pin, aborted, troubles>> /\ Same

-------------------------------------------------------------------------------
(* The rollback watch.                                                     *)

Watches(o, at) == At(o, "watch", at)

\* A deploy no later row follows is down in its grace period and left a standby.
Crashed ==
  /\ record.kind = "deploy" /\ \A q \in rows : q <= record.op
  /\ ActiveSlot = record.slot /\ slots[record.slot].state = "down"
  /\ slots[Other(record.slot)].state # "gone"

\* One attempt per deploy.
Untried == \A q \in Runs : run[q].kind = "watch" => q < record.op

WatchLook(o) ==
  /\ run[o].at = "new" /\ \A q \in Runs : q < o => run[q].at # "new"
  /\ Crashed /\ Untried /\ Free
  /\ run' = [run EXCEPT ![o] = [kind |-> "watch", at |-> "seen", old |-> record.slot,
                               new |-> Other(record.slot), stopped |-> FALSE]]
  /\ UNCHANGED <<slots, current, pin, row, aborted, troubles>> /\ Same /\ Unrecorded

\* The rollback's row takes the scope, or a deploy holds it.
WatchTake(o) ==
  /\ Watches(o, "seen")
  /\ \/ /\ row = 0 /\ row' = o /\ rows' = rows \cup {o}
        /\ With(run[o].old, Halted(run[o].old)) /\ Go(o, "taken")
     \/ row # 0 /\ Go(o, "over") /\ UNCHANGED <<row, rows, slots>>
  /\ UNCHANGED <<current, pin, aborted, troubles, record>> /\ Same

\* Mutant: what could not be replaced is not put back.
BugPutBack(s) == slots[s]

\* `up` on the crashed slot, its restart policy as it was.
PutBack(s) == [slots[s] EXCEPT !.state = "up"]

\* The previous slot starts, or the crashed one is put back; the failed start may leave
\* the previous one running.
WatchRestore(o) ==
  LET old == run[o].old
      new == run[o].new
      back == [slots EXCEPT ![old] = PutBack(old)]
  IN /\ Watches(o, "taken")
     /\ \/ With(new, Started(new)) /\ Go(o, "started") /\ Fine /\ UNCHANGED row
        \/ /\ slots' \in {back, [back EXCEPT ![new].state = "up"]}
           /\ Go(o, "over") /\ FreeRow(o) /\ Trouble("docker")
     /\ UNCHANGED <<current, pin, aborted>> /\ Same /\ Unrecorded

WatchPoint(o) ==
  /\ Watches(o, "started")
  /\ \/ current' = Points(run[o].new) /\ Fine
     \/ UNCHANGED current /\ Trouble("write")
  /\ With(run[o].old, Pinned(run[o].old)) /\ Go(o, "pointed")
  /\ UNCHANGED <<pin, row, aborted>> /\ Same /\ Unrecorded

\* The crashed deploy is a success no more.
RolledBack ==
  /\ record' = [record EXCEPT !.kind = IF @ = "deploy" THEN None ELSE @]
  /\ UNCHANGED rows

\* The restored slot is looked at once more.
WatchVerify(o) ==
  /\ Watches(o, "pointed") /\ Go(o, "over") /\ UNCHANGED slots
  /\ IF Up(run[o].new) THEN Succeed(o, run[o].new) ELSE FreeRow(o) /\ RolledBack
  /\ UNCHANGED <<current, pin, aborted, troubles>> /\ Same

-------------------------------------------------------------------------------
(* The standby sweep, and what happens to containers on their own.         *)

\* Half an hour after the last run, both slots are up.
SweepLook ==
  /\ Active = {} /\ row = 0 /\ sweep = None
  /\ current # None /\ \A s \in Slots : Up(s)
  /\ sweep' = Other(current)
  /\ UNCHANGED <<overlap, slots, current, pin, row, run, aborted, record, rows, troubles>>

SweepStop ==
  /\ sweep # None /\ sweep' = None
  /\ \/ With(sweep, Demoted(sweep)) /\ Fine
     \/ With(sweep, Pinned(sweep)) /\ Trouble("docker")
  /\ UNCHANGED <<overlap, current, pin, row, run, aborted, record, rows>>

\* What Docker makes of a slot when it starts again: a stopped one that keeps its
\* policy may come back.
AfterRestart(s) ==
  CASE slots[s].state = "up"   -> {IF slots[s].keep THEN slots[s] ELSE Halted(s)}
    [] slots[s].state = "down" -> {slots[s]} \cup (IF slots[s].keep THEN {Started(s)} ELSE {})
    [] slots[s].state = "gone" -> {slots[s]}

\* The host's Docker restarts, and Vardo with it.
DaemonRestart ==
  /\ Trouble("daemon")
  /\ \E b \in AfterRestart("blue"), g \in AfterRestart("green") :
       slots' = [s \in Slots |-> IF s = "blue" THEN b ELSE g]
  /\ run' = [o \in Runs |-> IF o \in Active THEN [run[o] EXCEPT !.at = "dead"] ELSE run[o]]
  /\ sweep' = None
  /\ UNCHANGED <<overlap, current, pin, row, aborted, record, rows>>

\* The version that serves crashes at rest.
Fall ==
  /\ Active = {} /\ record.op # 0 /\ Up(record.slot) /\ Trouble("crash")
  /\ With(record.slot, [Halted(record.slot) EXCEPT !.ok = FALSE])
  /\ UNCHANGED <<overlap, current, pin, row, run, aborted, record, rows, sweep>>

-------------------------------------------------------------------------------
DeployStep(o) ==
  \/ PickSlot(o) \/ ClearNewSlot(o) \/ LeaveEarly(o) \/ PassFence(o) \/ MakeWay(o)
  \/ ComposeUp(o) \/ CheckAbort(o) \/ GiveUp(o) \/ BecomeHealthy(o) \/ FailBeforeCommit(o)
  \/ Commit(o) \/ CommitRefused(o) \/ PointCurrent(o) \/ FailAfterCommit(o)
  \/ PinNewSlot(o) \/ StopOldSlot(o) \/ Unpin(o)

RollbackStep(o) ==
  \/ RollbackPick(o) \/ RollbackMakeWay(o) \/ RollbackStart(o) \/ RollbackProbe(o)
  \/ RollbackStop(o) \/ RollbackPoint(o) \/ RollbackDone(o)

WatchStep(o) == WatchTake(o) \/ WatchRestore(o) \/ WatchPoint(o) \/ WatchVerify(o)

Next ==
  \/ \E o \in Runs :
       \/ StartDeploy(o) \/ StartRollback(o) \/ WatchLook(o)
       \/ DeployStep(o) \/ RollbackStep(o) \/ WatchStep(o)
       \/ Abort(o) \/ CloseElsewhere(o) \/ Die(o)
  \/ SweepLook \/ SweepStop \/ DaemonRestart \/ Fall

\* Runs go on, and the sweeps come round.
Fairness ==
  /\ \A o \in Runs : /\ WF_vars(DeployStep(o) \/ RollbackStep(o) \/ WatchStep(o))
                     /\ WF_vars(CloseElsewhere(o) /\ run[o].at = "dead")
                     /\ WF_vars(WatchLook(o))
  /\ WF_vars(SweepLook) /\ WF_vars(SweepStop)

Spec == Init /\ [][Next]_vars /\ Fairness

-------------------------------------------------------------------------------
Serves(s) == Up(s) /\ slots[s].ok

AtRest == Active = {} /\ row = 0 /\ sweep = None

Swapping(o) == o \in Active /\ run[o].kind = "deploy" /\ run[o].at \notin {"claimed", "picked", "cleared"}

\* Every variable is typed, and the row and the holders name runs that started.
SlotTypeOK ==
  /\ overlap \in BOOLEAN
  /\ slots \in [Slots -> [state : {"up", "down", "gone"}, ok : BOOLEAN, keep : BOOLEAN, by : 0..NumRuns]]
  /\ {current, pin, sweep} \subseteq Slots \cup {None}
  /\ row \in 0..NumRuns /\ rows \subseteq Runs /\ troubles \subseteq TroubleKinds
  /\ record \in [op : 0..NumRuns, kind : Kinds \cup {None}, slot : Slots \cup {None}, by : 0..NumRuns]
  /\ aborted \subseteq Runs
  /\ \A o \in Runs : (row = o \/ o \in aborted \/ o \in Holders) => run[o].at # "new"

\* Once an app that can run both slots has deployed, a healthy slot is up through
\* every later swap, failure, cancel, rollback and sweep until a version crashes by
\* itself, and while a deploy moves traffic it goes to a slot that is up.
AlwaysServing ==
  overlap /\ record.op # 0 /\ "crash" \notin troubles =>
    /\ \E s \in Slots : Serves(s)
    /\ (\E o \in Runs : Swapping(o)) => pin = None \/ Up(pin)

\* At rest, with nothing having failed, the newest success says what serves: its
\* version, in its slot, which `current` names and Docker restarts, and nothing else.
RecordServes ==
  AtRest /\ record.op # 0 /\ troubles = {} =>
    LET s == record.slot
    IN /\ current = s /\ Serves(s) /\ slots[s].keep /\ slots[s].by = record.by
       /\ ~Up(Other(s)) /\ pin = None

\* The only healthy slot is never removed: at rest a slot serves, whatever writes and
\* reads failed, for an app whose slots cannot overlap too.
OnlyHealthyStays ==
  AtRest /\ record.op # 0 /\ troubles \subseteq {"write", "read"} => \E s \in Slots : Serves(s)

\* In the end, once `current` says which one serves, one slot is up: two versions do
\* not share the traffic for good.
TrafficConverges == <>[](current # None => \E s \in Slots : ~Up(s))

\* A deployed version that crashes while `current` names it and a standby is there is
\* replaced or put back, and the scope is free again, even if one of the watch's Docker
\* commands or writes fails: unless a deploy or a rollback takes over, or the process that
\* watches dies or stalls.
Rescued == \A o \in Runs :
  (/\ record.op = o /\ record.kind = "deploy" /\ \A q \in rows : q <= o
   /\ current = record.slot
   /\ slots[record.slot].state = "down" /\ slots[Other(record.slot)].state # "gone"
   /\ \A q \in Runs : run[q].kind = "watch" => q < o
   /\ run[NumRuns].at = "new")
    ~> \/ \E q \in rows : q > o /\ run[q].kind # "watch"
       \/ troubles \cap {"death", "stall", "daemon"} # {}
       \/ AtRest /\ \E s \in Slots : Up(s)

\* A pin names a slot that is up: Traefik is never left on a stopped one.
NoHoldOnStopped == pin # None /\ AtRest /\ "crash" \notin troubles => Up(pin)
===============================================================================
