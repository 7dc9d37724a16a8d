---------------------------- MODULE DeployExecutor ----------------------------
(***************************************************************************)
(* The processes that run deploys: executor.ts (claims, lease renewal,     *)
(* cancels), swap-gate.ts (exclusive hold and fence) and the control flow  *)
(* of runDeployment, swap and postDeploy as far as it decides what is      *)
(* written to the queue and when containers are touched.                   *)
(*                                                                         *)
(* Every claim starts a run of its own.  A run outlives its claim when the *)
(* sweeper takes the row away from a process that is still alive, so runs  *)
(* are numbered per deploy and several of one deploy can be in flight, in  *)
(* different processes or in the same one.                                 *)
(***************************************************************************)
EXTENDS DeployQueue

CONSTANTS
  MaxClaims,    \* bound on the claims of one deploy
  InOrder       \* stage writes land before their run's fence is asked for

ASSUME ExecutorAssumption == MaxClaims \in Nat \ {0} /\ InOrder \in BOOLEAN

VARIABLES
  proc,   \* each executor's process: "unborn", "up" or "gone"
  run,    \* the runs of each deploy, in order of their claims
  job     \* state.jobs of each executor: the run it knows for a deploy, 0 for none

executorVars == <<proc, run, job>>

Runs == Deploys \X (1 .. MaxClaims)

\* Where a run is.  From "swapping" to "committing" it changes containers; so
\* do "stopping" and "leaving" after the swap began, which tear its slot down.
Steps == {"idle", "starting", "building", "requeueing", "holding", "waiting", "fence",
          "fenced", "swapping", "checking", "committing", "stopping", "leaving",
          "finishing", "won", "rolling", "ended"}

Run == [exec: Executors \cup {NoExec}, pc: Steps,
        stage: Stages,                      \* job.stage
        abort: {"none", "lost", "user", "timeout", "supersede"},   \* the abort signal
        to: Deploys \cup {NoDeploy},        \* what a supersede hands over to
        ask: {"none", "drop", "abort"},     \* answer of newestQueuedIn not acted on yet
        marks: SUBSET Stages,               \* stage writes in flight
        onTarget: BOOLEAN,
        alone: BOOLEAN]                     \* the exclusive wait ended with nothing running

NoRun == [exec |-> NoExec, pc |-> "idle", stage |-> "none", abort |-> "none", to |-> NoDeploy,
          ask |-> "none", marks |-> {}, onTarget |-> FALSE, alone |-> FALSE]

EndedRun == [NoRun EXCEPT !.pc = "ended"]

ExecutorInit(started) ==
  /\ proc = [e \in Executors |-> IF e \in started THEN "up" ELSE "unborn"]
  /\ run = [r \in Runs |-> NoRun]
  /\ job = [e \in Executors |-> [d \in Deploys |-> 0]]

Live(r) == run[r].pc \notin {"idle", "ended"}

\* Stages where a cancel costs nothing.
Safe(r) == run[r].stage # "deploy"

Set(r, new) == run' = [run EXCEPT ![r] = new]
GoTo(r, pc) == Set(r, [run[r] EXCEPT !.pc = pc])

-------------------------------------------------------------------------------
(* Claims.                                                                 *)

Idle(d) == {n \in 1 .. MaxClaims : run[<<d, n>>].pc = "idle"}
NextRun(d) == CHOOSE n \in Idle(d) : \A m \in Idle(d) : n <= m

NewRun(e, pc, onTarget) == [NoRun EXCEPT !.exec = e, !.pc = pc, !.onTarget = onTarget]

\* A claim pass, and startClaimed for each deploy it claimed.
Claim(e) ==
  /\ proc[e] = "up"
  /\ \E picks \in ClaimPicks(e) :
       LET taken == picks[1] \cup picks[2] IN
       /\ \A d \in taken : Idle(d) # {}
       /\ ClaimDeploys(e, picks[1], picks[2])
       /\ run' = [r \in Runs |->
                    IF r[1] \in taken /\ r[2] = NextRun(r[1])
                    THEN NewRun(e, "starting", r[1] \in picks[2]) ELSE run[r]]
       /\ job' = [job EXCEPT ![e] = [d \in Deploys |-> IF d \in taken THEN NextRun(d) ELSE @[d]]]
  /\ UNCHANGED proc

\* The first statement of a claim pass.
ClearHold(e) ==
  /\ proc[e] = "up"
  /\ \E d \in Deploys : LeftOver(d, e)
  /\ ClearFinishedExclusive(e)
  /\ UNCHANGED executorVars

-------------------------------------------------------------------------------
(* Cancels and lost claims.                                                *)

\* applyCancel on a row read with `cancel` set.  A supersede looks up what it
\* hands over to and acts on the answer in a later step.
Stopped(r, cancel, atBoundary) ==
  IF run[r].abort # "none" THEN run[r]
  ELSE IF cancel = "supersede" THEN
    IF ~Safe(r) THEN run[r]
    ELSE LET by == NewestQueuedIn(row[r[1]].scope) IN
         IF by = NoDeploy THEN [run[r] EXCEPT !.ask = "drop"]
         ELSE [run[r] EXCEPT !.ask = "abort", !.to = by]
  ELSE IF atBoundary \/ Safe(r) THEN [run[r] EXCEPT !.abort = cancel]
  ELSE run[r]

Lost(r) == IF run[r].abort = "none" /\ Safe(r) THEN [run[r] EXCEPT !.abort = "lost"] ELSE run[r]

\* One renewal pass over the jobs the process knows.
Renew(e) ==
  LET ids == {d \in Deploys : job[e][d] # 0}
      after(r) == IF ~Owned(e, r[1]) THEN Lost(r)
                  ELSE IF row[r[1]].cancel # "none" THEN Stopped(r, row[r[1]].cancel, FALSE)
                  ELSE run[r]
  IN /\ proc[e] = "up"
     /\ ids # {}
     /\ \A d \in ids : run[<<d, job[e][d]>>].ask = "none"
     /\ RenewLeases(e, ids)
     /\ run' = [r \in Runs |-> IF r[1] \in ids /\ r[2] = job[e][r[1]] THEN after(r) ELSE run[r]]
     /\ UNCHANGED <<proc, job>>

\* The rest of applyCancel once newestQueuedIn has answered.
ActOnAnswer(r) ==
  LET d == r[1] IN
  \/ /\ run[r].ask = "drop"
     /\ DropSupersede(d)
     /\ Set(r, [run[r] EXCEPT !.ask = "none"])
     /\ UNCHANGED <<proc, job>>
  \/ /\ run[r].ask = "abort"
     /\ Set(r, [run[r] EXCEPT !.ask = "none", !.abort = IF @ = "none" THEN "supersede" ELSE @])
     /\ UNCHANGED <<row, proc, job>>

\* A stage write lands.  Nothing awaits it, so it can land late.
LandMark(r) ==
  LET d == r[1]
      e == run[r].exec
  IN \E s \in run[r].marks :
       /\ IF Owned(e, d)
          THEN /\ MarkStage(e, d, s)
               /\ Set(r, [(IF row[d].cancel # "none" THEN Stopped(r, row[d].cancel, TRUE) ELSE run[r])
                            EXCEPT !.marks = @ \ {s}])
          ELSE /\ UNCHANGED row
               /\ Set(r, [Lost(r) EXCEPT !.marks = @ \ {s}])
       /\ UNCHANGED <<proc, job>>

-------------------------------------------------------------------------------
(* A run, up to its swap.                                                  *)

Only(r, pc, step) ==
  /\ run[r].pc = pc
  /\ step
  /\ UNCHANGED <<proc, job>>

\* runDeployment reads its row back, then opens its first stage.
Start(r) == Only(r, "starting",
  /\ IF Owned(run[r].exec, r[1])
     THEN Set(r, [run[r] EXCEPT !.pc = "building", !.stage = "build", !.marks = @ \cup {"build"}])
     ELSE GoTo(r, "finishing")
  /\ UNCHANGED row)

\* A build that needs this server takes a free slot of it or waits for one ...
TakeLocal(r) == Only(r, "building",
  /\ run[r].onTarget
  /\ TakeLocalSlot(run[r].exec, r[1])
  /\ Set(r, [run[r] EXCEPT !.onTarget = FALSE]))

AwaitLocal(r) == Only(r, "building",
  /\ run[r].onTarget
  /\ AwaitLocalSlot(run[r].exec, r[1])
  /\ UNCHANGED run)

EndWait(r) == Only(r, "building",
  /\ ~run[r].onTarget
  /\ EndLocalWait(r[1])
  /\ UNCHANGED run)

\* ... or, when no target can build it at all, gives its claim back.
NeedLocal(r) == Only(r, "building",
  /\ run[r].onTarget /\ run[r].abort = "none"
  /\ ~(Owned(run[r].exec, r[1]) /\ LocalSlotFree(r[1]))
  /\ GoTo(r, "requeueing")
  /\ UNCHANGED row)

Requeue(r) == Only(r, "requeueing",
  IF run[r].abort = "none" /\ Owned(run[r].exec, r[1])
  THEN RequeueForLocalSlot(run[r].exec, r[1]) /\ GoTo(r, "finishing")
  ELSE UNCHANGED row /\ GoTo(r, "stopping"))

\* Vardo's own deploy takes the exclusive hold before the fence.
Build(r) == Only(r, "building",
  /\ InOrder => run[r].marks = {}
  /\ GoTo(r, IF IsSelf(r[1]) THEN "holding" ELSE "fence")
  /\ UNCHANGED row)

Hold(r) == Only(r, "holding",
  IF row[r[1]].status = "running"
  THEN SetExclusive(r[1]) /\ GoTo(r, "waiting")
  ELSE UNCHANGED row /\ GoTo(r, "stopping"))

\* Until nothing else runs or the wait times out; an abort or an error drops the hold.
WaitAlone(r) == Only(r, "waiting",
  \/ /\ Set(r, [run[r] EXCEPT !.pc = "fence", !.alone = RunningExcept(r[1]) = {}])
     /\ UNCHANGED row
  \/ /\ ReleaseExclusive(r[1])
     /\ GoTo(r, "stopping"))

Fence(r) == Only(r, "fence",
  IF MayEnterSwap(run[r].exec, r[1])
  THEN EnterSwap(run[r].exec, r[1]) /\ GoTo(r, "fenced")
  ELSE UNCHANGED row /\ GoTo(r, "finishing"))

\* The last point at which a cancel is free.
BeginSwap(r) == Only(r, "fenced",
  /\ IF run[r].abort = "none"
     THEN Set(r, [run[r] EXCEPT !.pc = "swapping", !.stage = "deploy", !.marks = @ \cup {"deploy"}])
     ELSE GoTo(r, "stopping")
  /\ UNCHANGED row)

-------------------------------------------------------------------------------
(* The swap and the commit.                                                *)

\* The new slot is up; a cancel here drops it again.
StartSlot(r) == Only(r, "swapping",
  /\ GoTo(r, IF run[r].abort = "none" THEN "checking" ELSE "stopping")
  /\ UNCHANGED row)

\* The new slot is healthy.  A row closed meanwhile doesn't cut over; whose
\* claim the row runs under is not looked at.
CheckOpen(r) == Only(r, "checking",
  /\ GoTo(r, IF row[r[1]].status = "running" THEN "committing" ELSE "leaving")
  /\ UNCHANGED row)

\* A run whose row was closed first drops its new slot, unless there is no old
\* slot to return to: then it serves under the record it found.
Commit(r) == Only(r, "committing",
  IF Owned(run[r].exec, r[1])
  THEN Finish(run[r].exec, r[1], "success", NoDeploy) /\ GoTo(r, "won")
  ELSE UNCHANGED row /\ \E pc \in {"leaving", "won"} : GoTo(r, pc))

\* Anything may throw before the commit.
Throw(r) ==
  /\ run[r].pc \in {"starting", "building", "holding", "fence", "fenced",
                    "swapping", "checking", "committing"}
  /\ GoTo(r, "stopping")
  /\ UNCHANGED <<row, proc, job>>

\* The outcome a stopped run records, after its new slot is torn down.
Outcome(r) == CASE run[r].abort = "supersede"             -> "superseded"
                [] run[r].abort \in {"user", "timeout"}   -> "cancelled"
                [] OTHER                                  -> "failed"

\* Mutant: the outcome is recorded before the new slot is torn down.
BugSettle(r) == Only(r, "stopping",
  IF run[r].abort # "lost" /\ Owned(run[r].exec, r[1])
  THEN Finish(run[r].exec, r[1], Outcome(r), run[r].to) /\ UNCHANGED run
  ELSE UNCHANGED row /\ GoTo(r, "finishing"))

Settle(r) == Only(r, "stopping",
  /\ GoTo(r, "finishing")
  /\ IF run[r].abort # "lost" /\ Owned(run[r].exec, r[1])
     THEN Finish(run[r].exec, r[1], Outcome(r), run[r].to)
     ELSE UNCHANGED row)

\* Closed elsewhere: the new slot goes and nothing is recorded.
Leave(r) == Only(r, "leaving", GoTo(r, "finishing") /\ UNCHANGED row)

\* startClaimed's end.  It drops the hold and the job by deployment id alone.
Close(r) ==
  LET d == r[1]
      keeps == run[r].pc = "won" /\ IsSelf(d) /\ row[d].home # "none"
  IN /\ run[r].pc \in {"finishing", "won"}
     /\ IF keeps THEN UNCHANGED row ELSE ReleaseExclusive(d)
     /\ Set(r, EndedRun)
     /\ job' = [job EXCEPT ![run[r].exec][d] = 0]
     /\ UNCHANGED proc

\* What a run may do, stage writes and late answers aside.
RunStep(r) ==
  \/ Start(r) \/ TakeLocal(r) \/ AwaitLocal(r) \/ EndWait(r) \/ NeedLocal(r) \/ Requeue(r)
  \/ Build(r) \/ Hold(r) \/ WaitAlone(r) \/ Fence(r) \/ BeginSwap(r)
  \/ StartSlot(r) \/ CheckOpen(r) \/ Commit(r)
  \/ Throw(r) \/ Settle(r) \/ Leave(r) \/ Close(r)

-------------------------------------------------------------------------------
(* Rollbacks run in a process of their own, without a job.                 *)

StartRollback(e, d, s) ==
  /\ proc[e] = "up"
  /\ InsertRollback(e, d, s)
  /\ Set(<<d, 1>>, NewRun(e, "rolling", FALSE))
  /\ UNCHANGED <<proc, job>>

Rescue(r, d) == Only(r, "rolling",
  /\ row[d].scope = row[r[1]].scope
  /\ MarkRolledBack(d)
  /\ UNCHANGED run)

EndRollback(r) == Only(r, "rolling",
  /\ \E o \in {"success", "failed", "deleted"} : FinishRollback(r[1], o)
  /\ Set(r, EndedRun))

-------------------------------------------------------------------------------
(* Processes stop, and those of the slot a self-deploy started take over.  *)

Crash(e) ==
  /\ proc[e] = "up"
  /\ proc' = [proc EXCEPT ![e] = "gone"]
  /\ run' = [r \in Runs |-> IF run[r].exec = e THEN EndedRun ELSE run[r]]
  /\ job' = [job EXCEPT ![e] = [d \in Deploys |-> 0]]
  /\ UNCHANGED row

Boot(e) ==
  /\ proc[e] = "unborn"
  /\ \/ \E r \in Runs : /\ run[r].pc \in {"checking", "committing"} /\ IsSelf(r[1])
                       /\ SlotOf[e] = OtherSlot(SlotOf[run[r].exec])
     \/ \E d \in Deploys : row[d].status = "success" /\ row[d].home = SlotOf[e]
  /\ proc' = [proc EXCEPT ![e] = "up"]
  /\ UNCHANGED <<row, run, job>>

===============================================================================
