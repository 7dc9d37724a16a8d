-------------------------- MODULE DeploySystemProofs --------------------------
(***************************************************************************)
(* The whole deploy system writes the table as DeployQueue allows, for any *)
(* number of deploys, executors, stalls and crashes, so what is proved of  *)
(* the queue holds of the system.  Then: what a step of the system does to *)
(* one deploy, its runs and its row, for DeploySystemSafety.               *)
(***************************************************************************)
EXTENDS DeploySystem, DeployQueueCapacity

\* A deploy that came through the queue.
Worked(d) == row[d].status # "absent" /\ row[d].kind # "rollback"

\* A run that may still write works for a queued deploy, in a process; no null stage is
\* ever written.
Fits(x, d) ==
  /\ x.pc \notin {"idle", "ended"} => x.exec \in Executors
  /\ x.pc \notin {"idle", "ended", "rolling"} \/ x.marks # {} \/ x.ask # "none" => Worked(d)
  /\ "none" \notin x.marks

RunsFit == run \in [Runs -> Run] /\ \A r \in Runs : Fits(run[r], r[1])

JobsFit ==
  /\ job \in [Executors -> [Deploys -> 0 .. MaxClaims]]
  /\ \A e \in Executors, d \in Deploys : job[e][d] # 0 => Worked(d)

\* The sweeper alone counts reruns, so the number it read is the one the row has.
SweptFits ==
  /\ swept \in [Deploys -> [seen: BOOLEAN, stage: Stages, attempts: Nat, cancelled: BOOLEAN]]
  /\ \A d \in Deploys : swept[d].seen => /\ row[d].status # "absent"
                                         /\ swept[d].attempts = row[d].attempts

SysInv == TypeOK /\ RollbackRuns /\ RunsFit /\ JobsFit /\ SweptFits

-------------------------------------------------------------------------------
(* The newest deploy of a set.                                             *)

\* newestQueuedIn finds a deploy that is queued in the scope, or none.
LEMMA NewestIsQueued ==
  ASSUME QueueAssumption, TypeOK, NEW s
  PROVE  \/ NewestQueuedIn(s) = NoDeploy
         \/ /\ NewestQueuedIn(s) \in Deploys /\ row[NewestQueuedIn(s)].status = "queued"
            /\ row[NewestQueuedIn(s)].scope = s
<1> DEFINE W == {d \in Queued : row[d].scope = s /\ ~row[d].held}
           Newer(d) == {x \in W : row[x].seq > row[d].seq}
<1>1. W \in SUBSET Deploys /\ \A d \in W : row[d].seq \in Nat
  BY RowType DEF Queued, Row
<1>2. ASSUME W # {} PROVE \E d \in W : \A x \in W : row[x].seq <= row[d].seq
  <2>1. \A d \in W : IsFiniteSet(Newer(d)) /\ Cardinality(Newer(d)) \in Nat
    BY <1>1, DeploysFinite
  <2> DEFINE Sizes == {Cardinality(Newer(d)) : d \in W}
  <2>2. PICK n \in Sizes : \A m \in Sizes : n <= m
    <3>1. ASSUME NEW z \in Sizes PROVE z \in Nat
      <4>1. PICK d \in W : z = Cardinality(Newer(d))
        BY Zenon
      <4> QED
        BY <2>1, <4>1, Zenon
    <3>2. Sizes # {}
      <4>1. PICK d \in W : TRUE
        BY <1>2
      <4>2. Cardinality(Newer(d)) \in Sizes
        BY Zenon
      <4> QED
        BY <4>2, Zenon
    <3> HIDE DEF Sizes
    <3> QED
      BY <3>1, <3>2, Least
  <2>3. PICK d \in W : n = Cardinality(Newer(d))
    OBVIOUS
  <2>4. ASSUME NEW y \in W, ~(row[y].seq <= row[d].seq) PROVE FALSE
    <3>1. Newer(y) \subseteq Newer(d) /\ y \in Newer(d) /\ y \notin Newer(y)
      BY <1>1, <2>4
    <3>2. n <= Cardinality(Newer(y)) /\ IsFiniteSet(Newer(d)) /\ Cardinality(Newer(y)) \in Nat
      <4>1. Cardinality(Newer(y)) \in Sizes
        BY Zenon
      <4> HIDE DEF Sizes, Newer, W
      <4> QED
        BY <2>1, <2>2, <4>1
    <3> HIDE DEF Newer, Sizes, W
    <3>3. Newer(y) # Newer(d)
      BY <3>1
    <3>4. Cardinality(Newer(y)) < Cardinality(Newer(d))
      BY <3>1, <3>2, <3>3, <2>1, FS_Subset
    <3> QED
      BY <2>1, <2>3, <3>2, <3>4
  <2> QED
    BY <2>4
<1>3. CASE W = {}
  BY <1>3 DEF NewestQueuedIn
<1>4. CASE W # {}
  <2>1. NewestQueuedIn(s) = CHOOSE d \in W : \A x \in W : row[x].seq <= row[d].seq
    BY <1>4 DEF NewestQueuedIn
  <2>2. NewestQueuedIn(s) \in W
    BY <1>2, <1>4, <2>1
  <2>3. \A d \in W : d \in Deploys /\ row[d].status = "queued" /\ row[d].scope = s
    BY DEF Queued
  <2> QED
    BY <2>2, <2>3
<1> QED
  BY <1>3, <1>4

LEMMA NewestType ==
  ASSUME QueueAssumption, TypeOK, NEW s
  PROVE  NewestQueuedIn(s) \in Deploys \cup {NoDeploy}
BY NewestIsQueued

-------------------------------------------------------------------------------
(* What runs write of the table.                                           *)

\* A run that still may write works for a deploy that is no rollback's.
LEMMA RunFits ==
  ASSUME RunsFit, NEW r \in Runs
  PROVE  run[r] \in Run /\ r[1] \in Deploys /\ Fits(run[r], r[1])
BY DEF RunsFit, Runs

\* A step of a run leaves the table or is a run's write of it.
LEMMA RunStepWrites ==
  ASSUME RunsFit, NEW r \in Runs, RunStep(r)
  PROVE  /\ Worked(r[1]) /\ run[r].exec \in Executors
         /\ UNCHANGED row \/ ExecutorWrite(run[r].exec, r[1])
<1>1. run[r].pc \notin {"idle", "ended", "rolling"}
  BY DEF RunStep, Only, Start, TakeLocal, AwaitLocal, EndWait, NeedLocal, Requeue, Build, Hold,
         WaitAlone, Fence, BeginSwap, StartSlot, CheckOpen, Commit, Throw, Settle, Leave, Close
<1>2. Worked(r[1]) /\ run[r].exec \in Executors /\ run[r] \in Run
  BY <1>1, RunFits DEF Fits
<1>3. row[r[1]].kind # "rollback"
  BY <1>2 DEF Worked
<1>4. CASE TakeLocal(r) \/ AwaitLocal(r) \/ EndWait(r)
  BY <1>2, <1>3, <1>4 DEF Only, TakeLocal, AwaitLocal, EndWait, ExecutorWrite
<1>5. CASE Requeue(r)
  BY <1>2, <1>3, <1>5 DEF Only, Requeue, ExecutorWrite
<1>6. CASE Hold(r) \/ WaitAlone(r) \/ Close(r)
  BY <1>2, <1>3, <1>6 DEF Only, Hold, WaitAlone, Close, ExecutorWrite
<1>7. CASE Fence(r)
  BY <1>2, <1>3, <1>7 DEF Only, Fence, ExecutorWrite
<1>8. CASE Commit(r)
  <2>1. "success" \in Outcomes /\ NoDeploy \in Deploys \cup {NoDeploy}
    BY DEF Outcomes
  <2> QED
    BY <1>2, <1>3, <1>8, <2>1 DEF Only, Commit, ExecutorWrite
<1>9. CASE Settle(r)
  <2>1. Outcome(r) \in Outcomes /\ run[r].to \in Deploys \cup {NoDeploy}
    BY <1>2 DEF Outcome, Outcomes, Run
  <2> QED
    BY <1>2, <1>3, <1>9, <2>1 DEF Only, Settle, ExecutorWrite
<1>10. CASE \/ Start(r) \/ NeedLocal(r) \/ Build(r) \/ BeginSwap(r) \/ StartSlot(r)
            \/ CheckOpen(r) \/ Throw(r) \/ Leave(r)
  BY <1>2, <1>10 DEF Only, Start, NeedLocal, Build, BeginSwap, StartSlot, CheckOpen, Throw, Leave
<1> QED
  BY <1>2, <1>4, <1>5, <1>6, <1>7, <1>8, <1>9, <1>10 DEF RunStep

\* So is a stage write that lands, and an answer acted on late.
LEMMA LateWrites ==
  ASSUME RunsFit, NEW r \in Runs, Live(r), LandMark(r) \/ ActOnAnswer(r)
  PROVE  UNCHANGED row \/ \E e \in Executors : ExecutorWrite(e, r[1])
<1> DEFINE d == r[1]
           e == run[r].exec
<1>1. run[r] \in Run /\ e \in Executors /\ Fits(run[r], d)
  BY RunFits DEF Live, Fits
<1>2. CASE LandMark(r)
  <2>1. PICK s \in run[r].marks : UNCHANGED row \/ MarkStage(e, d, s)
    BY <1>2, Zenon DEF LandMark
  <2>2. s \in Stages \ {"none"} /\ row[d].kind # "rollback"
    BY <1>1 DEF Fits, Worked, Run
  <2> QED
    BY <1>1, <2>1, <2>2, Zenon DEF ExecutorWrite
<1>3. CASE ActOnAnswer(r)
  <2>1. UNCHANGED row \/ (run[r].ask = "drop" /\ DropSupersede(d))
    BY <1>3, Zenon DEF ActOnAnswer
  <2>2. run[r].ask = "drop" => row[d].kind # "rollback"
    BY <1>1 DEF Fits, Worked
  <2> QED
    BY <1>1, <2>1, <2>2, Zenon DEF ExecutorWrite
<1> QED
  BY <1>2, <1>3

-------------------------------------------------------------------------------
(* What the system's steps write of the table.                             *)

\* Clients and clocks issue the queue's own statements.
LEMMA ClientWrites ==
  ASSUME SystemAssumption, NEW d \in Deploys,
         \/ Client(d) \/ Lapse(d) \/ Age(d) \/ Expire(d)
         \/ \E reason \in CancelReasons : RequestCancel(d, reason) \/ FinishCancel(d, reason)
  PROVE  [Counts]_row
<1>1. ASSUME Request(d) \/ ExpireQueued(d) \/ LapseLease(d) \/ AgeExclusive(d) PROVE Counts
  BY <1>1, Zenon DEF Counts
<1>2. CASE Client(d)
  BY <1>1, <1>2, Zenon DEF Client, Request
<1>3. CASE Lapse(d) \/ Age(d) \/ Expire(d)
  BY <1>1, <1>3, Zenon DEF Lapse, Age, Expire
<1>4. ASSUME NEW reason \in CancelReasons, RequestCancel(d, reason) \/ FinishCancel(d, reason)
      PROVE  [Counts]_row
  <2>1. reason \in {"user", "timeout"}
    BY DEF SystemAssumption
  <2>2. UNCHANGED row \/ CancelQueued(d, reason) \/ FlagRunning(d, reason)
    BY <1>4, Zenon DEF RequestCancel, FinishCancel
  <2> QED
    BY <1>1, <2>1, <2>2, Zenon DEF Request
<1> QED
  BY <1>2, <1>3, <1>4, Zenon

\* A claim, a renewal, a rollback and a run's step are the queue's; a crash and a boot
\* leave the table.
LEMMA ExecutingWrites ==
  ASSUME RunsFit, Executing
  PROVE  [Counts]_row
<1>1. ASSUME NEW e \in Executors, NEW d \in Deploys, ExecutorWrite(e, d) PROVE Counts
  BY <1>1, Zenon DEF Counts
<1>2. ASSUME NEW d \in Deploys, Rollback(d) PROVE Counts
  BY <1>2, Zenon DEF Counts
<1>3. ASSUME NEW e \in Executors, Claim(e) PROVE Counts
  BY <1>3, Zenon DEF Claim, Counts
<1>4. ASSUME NEW e \in Executors, ClearHold(e) PROVE Counts
  BY <1>4, Zenon DEF ClearHold, Counts
<1>5. ASSUME NEW e \in Executors, Renew(e) PROVE Counts
  <2>1. {d \in Deploys : job[e][d] # 0} \in SUBSET Deploys
    OBVIOUS
  <2> QED
    BY <1>5, <2>1, Zenon DEF Renew, Counts
<1>6. ASSUME NEW e \in Executors, Crash(e) \/ Boot(e) PROVE UNCHANGED row
  BY <1>6, Zenon DEF Crash, Boot
<1>7. ASSUME NEW e \in Executors, NEW d \in Deploys, NEW s \in Scopes, StartRollback(e, d, s)
      PROVE  Counts
  BY <1>2, <1>7, Zenon DEF StartRollback, Rollback
<1>8. ASSUME NEW r \in Runs, NEW d \in Deploys, Rescue(r, d) PROVE Counts
  BY <1>2, <1>8, Zenon DEF Rescue, Only, Rollback
<1>9. ASSUME NEW r \in Runs, GoesOn(r) PROVE [Counts]_row
  <2>1. r[1] \in Deploys
    BY RunFits
  <2>2. CASE EndRollback(r)
    <3>1. PICK o \in {"success", "failed", "deleted"} : FinishRollback(r[1], o)
      BY <2>2, Zenon DEF EndRollback, Only
    <3>2. o \in Outcomes \cup {"deleted"}
      BY DEF Outcomes
    <3> QED
      BY <1>2, <2>1, <3>1, <3>2, Zenon DEF Rollback
  <2>3. CASE RunStep(r)
    BY <1>1, <2>1, <2>3, RunStepWrites, Zenon
  <2>4. CASE LandMark(r) \/ ActOnAnswer(r)
    BY <1>1, <1>9, <2>1, <2>4, LateWrites, Zenon DEF GoesOn
  <2> QED
    BY <1>9, <2>2, <2>3, <2>4, Zenon DEF GoesOn
<1> QED
  BY <1>3, <1>4, <1>5, <1>6, <1>7, <1>8, <1>9, Zenon DEF Executing

\* The sweeper reruns a deploy under the crash rule, as the row it read still is.
LEMMA SweepWrites ==
  ASSUME SweptFits, NEW d \in Deploys, SweepAct(d)
  PROVE  [Counts]_row \/ RerunOf(d)
<1> DEFINE seen == swept[d]
<1>1. seen.seen /\ seen.attempts = row[d].attempts
  BY DEF SweepAct, SweptFits
<1>2. CASE UNCHANGED row \/ FailDeadDeploy(d)
  BY <1>2, Zenon DEF Counts
<1>3. CASE Reruns(seen) /\ row[d].kind # "rollback" /\ SweepRequeue(d, seen.stage)
  BY <1>1, <1>3 DEF Reruns, RerunOf
<1> QED
  BY <1>2, <1>3, Zenon DEF SweepAct

\* So every step of the system is one of the queue.
LEMMA SystemStep ==
  ASSUME SystemAssumption, RunsFit, SweptFits, [SysNext]_vars
  PROVE  [Counts]_row \/ \E d \in Deploys : RerunOf(d) /\ SweepAct(d)
<1>1. CASE UNCHANGED vars
  BY <1>1 DEF vars
<1>2. CASE SweepRead
  BY <1>2 DEF SweepRead
<1>3. ASSUME NEW d \in Deploys, SweepAct(d) PROVE [Counts]_row \/ (RerunOf(d) /\ SweepAct(d))
  BY <1>3, SweepWrites
<1> QED
  BY <1>1, <1>2, <1>3, ClientWrites, ExecutingWrites, Zenon DEF SysNext

LEMMA SystemStepIsNext ==
  ASSUME SystemAssumption, RunsFit, SweptFits, [SysNext]_vars
  PROVE  [Next]_row
BY SystemStep, NextIsRerunOrNot

-------------------------------------------------------------------------------
(* What the system's steps make of its runs.                               *)

\* A deploy that came through the queue stays one.
LEMMA WorkedStays ==
  ASSUME QueueAssumption, TypeOK, [Next]_row, NEW d \in Deploys, Worked(d)
  PROVE  Worked(d)'
BY NextStep DEF RowsStep, RowStep, QuietStep, Asked, Inserted, Keeps, Stays, Starts, Returns, Ends,
                Outcomes, Worked

\* The runs after a step, for the deploys as they were before it.
RunsMove == /\ run' = [r \in Runs |-> run'[r]]
            /\ \A r \in Runs : run'[r] \in Run /\ Fits(run'[r], r[1])

LEMMA SameRuns ==
  ASSUME RunsFit, UNCHANGED run
  PROVE  RunsMove
BY DEF RunsFit, RunsMove

LEMMA SetMoves ==
  ASSUME RunsFit, NEW r \in Runs, NEW new \in Run, Set(r, new), Fits(new, r[1])
  PROVE  RunsMove
BY DEF RunsFit, RunsMove, Set

\* New and ended runs owe nothing.
LEMMA IdleFits ==
  ASSUME NEW d, NEW x \in {NoRun, EndedRun}
  PROVE  x \in Run /\ Fits(x, d)
<1>1. NoRun \in Run /\ Fits(NoRun, d)
  BY DEF NoRun, Run, Steps, Stages, Fits
<1>2. EndedRun \in Run /\ Fits(EndedRun, d)
  BY DEF EndedRun, NoRun, Run, Steps, Stages, Fits
<1> QED
  BY <1>1, <1>2

LEMMA NewRunFits ==
  ASSUME NEW d, NEW e \in Executors, NEW pc \in {"starting", "rolling"}, NEW t \in BOOLEAN,
         pc = "rolling" \/ Worked(d)
  PROVE  NewRun(e, pc, t) \in Run /\ Fits(NewRun(e, pc, t), d)
BY DEF NewRun, NoRun, Run, Steps, Stages, Fits

\* A run that is under way goes on as one.
Advances(x, y) ==
  /\ y \in Run /\ y.exec = x.exec
  /\ "none" \notin x.marks => "none" \notin y.marks

LEMMA AdvancesFits ==
  ASSUME NEW d, NEW x \in Run, Fits(x, d), Worked(d), x.exec \in Executors,
         NEW y, Advances(x, y)
  PROVE  Fits(y, d)
BY DEF Fits, Advances

LEMMA GoToAdvances ==
  ASSUME NEW x \in Run, NEW pc \in Steps
  PROVE  Advances(x, [x EXCEPT !.pc = pc])
BY DEF Run, Advances

LEMMA RunStepMoves ==
  ASSUME RunsFit, NEW r \in Runs, RunStep(r)
  PROVE  RunsMove
<1>1. run[r] \in Run /\ Fits(run[r], r[1]) /\ Worked(r[1]) /\ run[r].exec \in Executors
  BY RunFits, RunStepWrites
<1>2. ASSUME NEW y, Set(r, y), Advances(run[r], y) PROVE RunsMove
  BY <1>1, <1>2, AdvancesFits, SetMoves DEF Advances
<1>3. ASSUME NEW pc \in Steps, GoTo(r, pc) PROVE RunsMove
  BY <1>1, <1>2, <1>3, GoToAdvances DEF GoTo
<1>4. CASE Start(r)
  <2>1. Advances(run[r], [run[r] EXCEPT !.pc = "building", !.stage = "build", !.marks = @ \cup {"build"}])
    BY <1>1 DEF Advances, Run, Steps, Stages
  <2>2. "finishing" \in Steps
    BY DEF Steps
  <2> QED
    BY <1>2, <1>3, <1>4, <2>1, <2>2, Zenon DEF Start, Only
<1>5. CASE TakeLocal(r)
  <2>1. Advances(run[r], [run[r] EXCEPT !.onTarget = FALSE])
    BY <1>1 DEF Advances, Run
  <2> QED
    BY <1>2, <1>5, <2>1, Zenon DEF TakeLocal, Only
<1>6. CASE AwaitLocal(r) \/ EndWait(r)
  BY <1>6, SameRuns, Zenon DEF AwaitLocal, EndWait, Only
<1>7. CASE BeginSwap(r)
  <2>1. Advances(run[r], [run[r] EXCEPT !.pc = "swapping", !.stage = "deploy", !.marks = @ \cup {"deploy"}])
    BY <1>1 DEF Advances, Run, Steps, Stages
  <2>2. "stopping" \in Steps
    BY DEF Steps
  <2> QED
    BY <1>2, <1>3, <1>7, <2>1, <2>2, Zenon DEF BeginSwap, Only
<1>8. CASE WaitAlone(r)
  <2>1. \A b \in BOOLEAN : Advances(run[r], [run[r] EXCEPT !.pc = "fence", !.alone = b])
    BY <1>1 DEF Advances, Run, Steps
  <2>2. "stopping" \in Steps /\ (RunningExcept(r[1]) = {}) \in BOOLEAN
    BY DEF Steps
  <2> QED
    BY <1>2, <1>3, <1>8, <2>1, <2>2, Zenon DEF WaitAlone, Only
<1>9. CASE Close(r)
  BY <1>9, IdleFits, SetMoves DEF Close
<1>10. CASE \/ NeedLocal(r) \/ Requeue(r) \/ Build(r) \/ Hold(r) \/ Fence(r) \/ StartSlot(r)
            \/ CheckOpen(r) \/ Commit(r) \/ Throw(r) \/ Settle(r) \/ Leave(r)
  <2>1. \E pc \in Steps : GoTo(r, pc)
    BY <1>10 DEF NeedLocal, Requeue, Build, Hold, Fence, StartSlot, CheckOpen, Commit, Throw,
                 Settle, Leave, Only, Steps
  <2> QED
    BY <1>3, <2>1
<1> QED
  BY <1>4, <1>5, <1>6, <1>7, <1>8, <1>9, <1>10 DEF RunStep

-------------------------------------------------------------------------------
\* A cancel found on a worked deploy's row, or a lost claim, marks its run.
LEMMA StoppedFits ==
  ASSUME QueueAssumption, TypeOK, NEW r \in Runs, run[r] \in Run, Fits(run[r], r[1]), Worked(r[1]),
         NEW cancel \in Cancels \ {"none"}, NEW atBoundary \in BOOLEAN
  PROVE  /\ Stopped(r, cancel, atBoundary) \in Run /\ Fits(Stopped(r, cancel, atBoundary), r[1])
         /\ Stopped(r, cancel, atBoundary).marks = run[r].marks
<1> DEFINE x == run[r]
           by == NewestQueuedIn(row[r[1]].scope)
           Marked(y) == y \in Run /\ Fits(y, r[1]) /\ y.marks = x.marks
<1>1. by \in Deploys \cup {NoDeploy}
  BY NewestType
<1>2. cancel \in {"user", "timeout", "supersede"}
  BY DEF Cancels
<1> HIDE DEF by
<1>3. Marked(x)
  OBVIOUS
<1>4. Marked([x EXCEPT !.ask = "drop"])
  BY DEF Run, Fits
<1>5. Marked([x EXCEPT !.ask = "abort", !.to = by])
  BY <1>1 DEF Run, Fits
<1>6. Marked([x EXCEPT !.abort = cancel])
  BY <1>2 DEF Run, Fits
<1>7. Stopped(r, cancel, atBoundary) \in {x, [x EXCEPT !.ask = "drop"],
        [x EXCEPT !.ask = "abort", !.to = by], [x EXCEPT !.abort = cancel]}
  BY Zenon DEF Stopped, by
<1> HIDE DEF Marked
<1>8. Marked(Stopped(r, cancel, atBoundary))
  BY <1>3, <1>4, <1>5, <1>6, <1>7
<1> QED
  BY <1>8 DEF Marked

LEMMA LostFits ==
  ASSUME NEW r \in Runs, run[r] \in Run, Fits(run[r], r[1])
  PROVE  Lost(r) \in Run /\ Fits(Lost(r), r[1]) /\ Lost(r).marks = run[r].marks
BY DEF Lost, Run, Fits

LEMMA LateMoves ==
  ASSUME QueueAssumption, TypeOK, RunsFit, NEW r \in Runs, Live(r), LandMark(r) \/ ActOnAnswer(r)
  PROVE  RunsMove
<1>1. run[r] \in Run /\ r[1] \in Deploys /\ Fits(run[r], r[1])
  BY RunFits
<1>2. ASSUME NEW x \in Run, Fits(x, r[1]), NEW s, Set(r, [x EXCEPT !.marks = @ \ {s}])
      PROVE  RunsMove
  <2>1. [x EXCEPT !.marks = @ \ {s}] \in Run /\ Fits([x EXCEPT !.marks = @ \ {s}], r[1])
    BY <1>2 DEF Run, Fits
  <2> QED
    BY <1>2, <2>1, SetMoves
<1>3. CASE LandMark(r)
  <2>1. PICK s \in run[r].marks :
          \/ Set(r, [run[r] EXCEPT !.marks = @ \ {s}])
          \/ /\ row[r[1]].cancel # "none"
             /\ Set(r, [Stopped(r, row[r[1]].cancel, TRUE) EXCEPT !.marks = @ \ {s}])
          \/ Set(r, [Lost(r) EXCEPT !.marks = @ \ {s}])
    BY <1>3, Zenon DEF LandMark
  <2>2. row[r[1]].cancel # "none" => /\ Stopped(r, row[r[1]].cancel, TRUE) \in Run
                                     /\ Fits(Stopped(r, row[r[1]].cancel, TRUE), r[1])
    <3>1. Worked(r[1])
      BY <1>1, <2>1 DEF Fits
    <3>2. row[r[1]].cancel \in Cancels
      BY <1>1, RowType DEF Row
    <3> QED
      BY <1>1, <3>1, <3>2, StoppedFits
  <2>3. Lost(r) \in Run /\ Fits(Lost(r), r[1])
    BY <1>1, LostFits
  <2> QED
    BY <1>1, <1>2, <2>1, <2>2, <2>3, Zenon
<1>4. CASE ActOnAnswer(r)
  <2>1. \A a : a \in {run[r].abort, "supersede"} =>
          /\ [run[r] EXCEPT !.ask = "none", !.abort = a] \in Run
          /\ Fits([run[r] EXCEPT !.ask = "none", !.abort = a], r[1])
    BY <1>1 DEF Run, Fits
  <2>2. /\ [run[r] EXCEPT !.ask = "none"] \in Run
        /\ Fits([run[r] EXCEPT !.ask = "none"], r[1])
    BY <1>1 DEF Run, Fits
  <2>3. \/ Set(r, [run[r] EXCEPT !.ask = "none"])
        \/ \E a \in {run[r].abort, "supersede"} : Set(r, [run[r] EXCEPT !.ask = "none", !.abort = a])
    BY <1>4 DEF ActOnAnswer
  <2> QED
    BY <2>1, <2>2, <2>3, SetMoves
<1> QED
  BY <1>3, <1>4

\* One pass of renewals marks runs of deploys its process knows.
LEMMA RenewMoves ==
  ASSUME QueueAssumption, TypeOK, RunsFit, JobsFit, NEW e \in Executors, Renew(e)
  PROVE  RunsMove
<1> SUFFICES ASSUME NEW r \in Runs PROVE run'[r] \in Run /\ Fits(run'[r], r[1])
  BY DEF Renew, RunsMove
<1>1. run[r] \in Run /\ r[1] \in Deploys /\ Fits(run[r], r[1])
  BY RunFits
<1>2. \/ run'[r] = run[r]
      \/ run'[r] = Lost(r)
      \/ /\ job[e][r[1]] # 0 /\ row[r[1]].cancel # "none"
         /\ run'[r] = Stopped(r, row[r[1]].cancel, FALSE)
  BY DEF Renew
<1>3. job[e][r[1]] # 0 /\ row[r[1]].cancel # "none" =>
        /\ Stopped(r, row[r[1]].cancel, FALSE) \in Run
        /\ Fits(Stopped(r, row[r[1]].cancel, FALSE), r[1])
  <2>1. row[r[1]].cancel \in Cancels
    BY <1>1, RowType DEF Row
  <2> QED
    BY <1>1, <2>1, StoppedFits DEF JobsFit
<1> QED
  BY <1>1, <1>2, <1>3, LostFits, Zenon

-------------------------------------------------------------------------------
\* A claim starts its deploys' next runs, and those deploys came through the queue.
LEMMA NextRunType ==
  ASSUME ExecutorAssumption, NEW d, Idle(d) # {}
  PROVE  NextRun(d) \in 1 .. MaxClaims
<1>1. Idle(d) \in SUBSET Nat
  BY DEF Idle, ExecutorAssumption
<1>2. PICK n \in Idle(d) : \A m \in Idle(d) : n <= m
  BY <1>1, Least
<1>3. NextRun(d) \in Idle(d)
  BY <1>2 DEF NextRun
<1> QED
  BY <1>3 DEF Idle

LEMMA ClaimedWork ==
  ASSUME RollbackRuns, NEW e \in Executors, NEW here, NEW there, ClaimDeploys(e, here, there),
         NEW d \in here \cup there
  PROVE  d \in Deploys /\ Worked(d)
<1>1. d \in Heads(e)
  BY PicksAreHeads
<1> QED
  BY <1>1 DEF Heads, Claimable, Queued, RollbackRuns, Worked

JobsMove == /\ job' \in [Executors -> [Deploys -> 0 .. MaxClaims]]
            /\ \A e \in Executors, d \in Deploys : job'[e][d] # 0 => Worked(d)

LEMMA ClaimRuns ==
  ASSUME ExecutorAssumption, RollbackRuns, RunsFit, JobsFit, NEW e \in Executors, Claim(e)
  PROVE  RunsMove /\ JobsMove
<1>1. PICK picks \in ClaimPicks(e) :
        LET taken == picks[1] \cup picks[2] IN
        /\ \A d \in taken : Idle(d) # {}
        /\ ClaimDeploys(e, picks[1], picks[2])
        /\ run' = [r \in Runs |->
                     IF r[1] \in taken /\ r[2] = NextRun(r[1])
                     THEN NewRun(e, "starting", r[1] \in picks[2]) ELSE run[r]]
        /\ job' = [job EXCEPT ![e] = [d \in Deploys |-> IF d \in taken THEN NextRun(d) ELSE @[d]]]
  BY Zenon DEF Claim
<1> DEFINE taken == picks[1] \cup picks[2]
<1>2. ASSUME NEW d \in taken PROVE Worked(d) /\ NextRun(d) \in 1 .. MaxClaims
  BY <1>1, ClaimedWork, NextRunType
<1> HIDE DEF taken
<1>3. ASSUME NEW r \in Runs PROVE run'[r] \in Run /\ Fits(run'[r], r[1])
  <2>1. CASE run'[r] = run[r]
    BY <2>1, RunFits
  <2>2. CASE r[1] \in taken /\ run'[r] = NewRun(e, "starting", r[1] \in picks[2])
    <3>1. Worked(r[1]) /\ (r[1] \in picks[2]) \in BOOLEAN
      BY <1>2, <2>2
    <3> QED
      BY <2>2, <3>1, NewRunFits
  <2> QED
    BY <1>1, <2>1, <2>2, Zenon DEF taken
<1>4. JobsMove
  <2>1. job' = [job EXCEPT ![e] = [d \in Deploys |-> IF d \in taken THEN NextRun(d) ELSE @[d]]]
    BY <1>1 DEF taken
  <2>2. 1 .. MaxClaims \subseteq 0 .. MaxClaims
    BY DEF ExecutorAssumption
  <2>3. job' \in [Executors -> [Deploys -> 0 .. MaxClaims]]
    BY <1>2, <2>1, <2>2 DEF JobsFit
  <2>4. \A x \in Executors, d \in Deploys : job'[x][d] # 0 => Worked(d)
    BY <1>2, <2>1 DEF JobsFit
  <2> QED
    BY <2>3, <2>4 DEF JobsMove
<1> QED
  BY <1>1, <1>3, <1>4 DEF RunsMove

\* Runs end, processes stop and rollbacks start, and no one is left with more to write.
LEMMA OtherRuns ==
  ASSUME RunsFit,
         \/ \E r \in Runs : EndRollback(r) \/ \E d \in Deploys : Rescue(r, d)
         \/ \E e \in Executors : Crash(e) \/ Boot(e) \/ ClearHold(e)
         \/ \E e \in Executors, d \in Deploys, s \in Scopes :
              ExecutorAssumption /\ StartRollback(e, d, s)
  PROVE  RunsMove
<1>1. ASSUME NEW r \in Runs, EndRollback(r) PROVE RunsMove
  BY <1>1, IdleFits, SetMoves DEF EndRollback, Only
<1>2. ASSUME NEW r \in Runs, NEW d \in Deploys, Rescue(r, d) PROVE RunsMove
  BY <1>2, SameRuns, Zenon DEF Rescue, Only
<1>3. ASSUME NEW e \in Executors, Crash(e) PROVE RunsMove
  BY <1>3, IdleFits, RunFits DEF Crash, RunsMove
<1>4. ASSUME NEW e \in Executors, Boot(e) \/ ClearHold(e) PROVE RunsMove
  BY <1>4, SameRuns, Zenon DEF Boot, ClearHold, executorVars
<1>5. ASSUME ExecutorAssumption, NEW e \in Executors, NEW d \in Deploys, NEW s \in Scopes,
             StartRollback(e, d, s)
      PROVE  RunsMove
  <2>1. <<d, 1>> \in Runs
    BY <1>5 DEF Runs, ExecutorAssumption
  <2>2. NewRun(e, "rolling", FALSE) \in Run /\ Fits(NewRun(e, "rolling", FALSE), d)
    BY NewRunFits
  <2> QED
    BY <1>5, <2>1, <2>2, SetMoves DEF StartRollback
<1> QED
  BY <1>1, <1>2, <1>3, <1>4, <1>5, Zenon

LEMMA OtherJobs ==
  ASSUME ExecutorAssumption, JobsFit,
         UNCHANGED job \/ \E e \in Executors :
           \/ job' = [job EXCEPT ![e] = [d \in Deploys |-> 0]]
           \/ \E d \in Deploys : job' = [job EXCEPT ![e][d] = 0]
  PROVE  JobsMove
BY DEF JobsFit, JobsMove, ExecutorAssumption

LEMMA ExecutingMoves ==
  ASSUME QueueAssumption, ExecutorAssumption, SysInv, Executing
  PROVE  RunsMove /\ JobsMove
<1>0. TypeOK /\ RollbackRuns /\ RunsFit /\ JobsFit
  BY DEF SysInv
<1>1. ASSUME NEW e \in Executors, Claim(e) PROVE RunsMove /\ JobsMove
  BY <1>0, <1>1, ClaimRuns
<1>2. ASSUME NEW e \in Executors, Renew(e) PROVE RunsMove /\ JobsMove
  BY <1>0, <1>2, RenewMoves, OtherJobs, Zenon DEF Renew
<1>3. ASSUME NEW e \in Executors, Crash(e) PROVE RunsMove /\ JobsMove
  BY <1>0, <1>3, OtherRuns, OtherJobs, Zenon DEF Crash
<1>4. ASSUME NEW e \in Executors, Boot(e) \/ ClearHold(e) PROVE RunsMove /\ JobsMove
  BY <1>0, <1>4, OtherRuns, OtherJobs, Zenon DEF Boot, ClearHold, executorVars
<1>5. ASSUME NEW e \in Executors, NEW d \in Deploys, NEW s \in Scopes, StartRollback(e, d, s)
      PROVE  RunsMove /\ JobsMove
  BY <1>0, <1>5, OtherRuns, OtherJobs, Zenon DEF StartRollback
<1>6. ASSUME NEW r \in Runs, NEW d \in Deploys, Rescue(r, d) PROVE RunsMove /\ JobsMove
  BY <1>0, <1>6, OtherRuns, OtherJobs, Zenon DEF Rescue, Only
<1>7. ASSUME NEW r \in Runs, GoesOn(r) PROVE RunsMove /\ JobsMove
  <2>1. CASE EndRollback(r)
    BY <1>0, <2>1, OtherRuns, OtherJobs, Zenon DEF EndRollback, Only
  <2>2. CASE RunStep(r)
    <3>1. RunsMove /\ run[r].exec \in Executors /\ r[1] \in Deploys
      BY <1>0, <2>2, RunStepMoves, RunStepWrites, RunFits
    <3>2. UNCHANGED job \/ job' = [job EXCEPT ![run[r].exec][r[1]] = 0]
      BY <2>2, Zenon DEF RunStep, Only, Start, TakeLocal, AwaitLocal, EndWait, NeedLocal, Requeue,
                         Build, Hold, WaitAlone, Fence, BeginSwap, StartSlot, CheckOpen, Commit,
                         Throw, Settle, Leave, Close
    <3> QED
      BY <1>0, <3>1, <3>2, OtherJobs, Zenon
  <2>3. CASE LandMark(r) \/ ActOnAnswer(r)
    <3>1. RunsMove
      BY <1>0, <1>7, <2>3, LateMoves DEF GoesOn
    <3>2. UNCHANGED job
      BY <2>3, Zenon DEF LandMark, ActOnAnswer
    <3> QED
      BY <1>0, <3>1, <3>2, OtherJobs
  <2> QED
    BY <1>7, <2>1, <2>2, <2>3, Zenon DEF GoesOn
<1> QED
  BY <1>1, <1>2, <1>3, <1>4, <1>5, <1>6, <1>7, Zenon DEF Executing

\* Only the crash rule counts reruns, and it forgets the row it read.
LEMMA SweptStays ==
  ASSUME QueueAssumption, SystemAssumption, SysInv, [SysNext]_vars
  PROVE  SweptFits'
<1>0. TypeOK /\ RunsFit /\ SweptFits
  BY DEF SysInv
<1>1. [Next]_row
  BY <1>0, SystemStepIsNext
<1>2. ASSUME NEW d \in Deploys, row[d].status # "absent" PROVE row'[d].status # "absent"
  BY <1>0, <1>1, <1>2, NextStep
  DEF RowsStep, RowStep, QuietStep, Asked, Inserted, Keeps, Stays, Starts, Returns, Ends, Outcomes
<1>3. ASSUME [Counts]_row, UNCHANGED swept PROVE SweptFits'
  <2>1. \A d \in Deploys : row[d].status # "absent" => row'[d].attempts = row[d].attempts
    BY <1>0, <1>3, OthersCountAsBefore DEF RowsCountAsBefore, SameCount
  <2> QED
    BY <1>0, <1>2, <1>3, <2>1 DEF SweptFits
<1>4. NotSwept \in [seen: BOOLEAN, stage: Stages, attempts: Nat, cancelled: BOOLEAN] /\ ~NotSwept.seen
  BY DEF NotSwept, Stages
<1>5. CASE SweepRead
  <2>1. \A d \in Deploys : row[d].stage \in Stages /\ row[d].attempts \in Nat
    BY <1>0, RowType DEF Row
  <2>2. \A d \in Deploys : swept'[d] = NotSwept \/
          /\ Expired(d)
          /\ swept'[d] = [seen |-> TRUE, stage |-> row[d].stage, attempts |-> row[d].attempts,
                          cancelled |-> row[d].cancel # "none"]
    BY <1>5 DEF SweepRead
  <2>3. \A d \in Deploys : Expired(d) => row[d].status # "absent"
    BY DEF Expired
  <2>4. UNCHANGED row /\ swept' = [d \in Deploys |-> swept'[d]]
    BY <1>5 DEF SweepRead
  <2>5. ASSUME NEW d \in Deploys
        PROVE  /\ swept'[d] \in [seen: BOOLEAN, stage: Stages, attempts: Nat, cancelled: BOOLEAN]
               /\ swept'[d].seen => Expired(d) /\ swept'[d].attempts = row[d].attempts
    <3> DEFINE c == row[d].cancel # "none"
    <3>1. c \in BOOLEAN
      OBVIOUS
    <3>2. swept'[d] = NotSwept \/
            /\ Expired(d)
            /\ swept'[d] = [seen |-> TRUE, stage |-> row[d].stage, attempts |-> row[d].attempts,
                            cancelled |-> c]
      BY <2>2
    <3> HIDE DEF c
    <3>3. CASE swept'[d] = NotSwept
      BY <1>4, <3>3
    <3>4. CASE /\ Expired(d)
               /\ swept'[d] = [seen |-> TRUE, stage |-> row[d].stage,
                               attempts |-> row[d].attempts, cancelled |-> c]
      <4> HIDE DEF Expired
      <4>1. swept'[d] \in [seen: BOOLEAN, stage: Stages, attempts: Nat, cancelled: BOOLEAN]
        BY <2>1, <3>1, <3>4, SMT
      <4>2. swept'[d].attempts = row[d].attempts
        BY <3>4
      <4> QED
        BY <3>4, <4>1, <4>2
    <3> QED
      BY <3>2, <3>3, <3>4, Zenon
  <2> QED
    BY <2>3, <2>4, <2>5 DEF SweptFits
<1>6. ASSUME NEW d \in Deploys, SweepAct(d) PROVE SweptFits'
  <2>1. swept' = [swept EXCEPT ![d] = NotSwept]
    BY <1>6, Zenon DEF SweepAct
  <2>2. \A x \in Deploys \ {d} : row[x].status # "absent" => row'[x].attempts = row[x].attempts
    <3>1. CASE [Counts]_row
      BY <1>0, <3>1, OthersCountAsBefore DEF RowsCountAsBefore, SameCount
    <3>2. CASE RerunOf(d)
      BY <1>0, <3>2 DEF RerunOf, SweepRequeue, Write, TypeOK
    <3> QED
      BY <1>0, <1>6, <3>1, <3>2, SweepWrites
  <2> QED
    BY <1>0, <1>2, <1>4, <2>1, <2>2 DEF SweptFits
<1>7. CASE UNCHANGED swept /\ ~\E d \in Deploys : SweepAct(d)
  BY <1>0, <1>3, <1>7, SystemStep
<1>8. UNCHANGED swept \/ SweepRead \/ \E d \in Deploys : SweepAct(d)
  BY Zenon DEF SysNext, vars, systemVars, Client, Lapse, Age, Expire, RequestCancel, FinishCancel,
               Executing
<1> QED
  BY <1>5, <1>6, <1>7, <1>8

LEMMA SystemInductive ==
  ASSUME QueueAssumption, ExecutorAssumption, SystemAssumption, SysInv, [SysNext]_vars
  PROVE  SysInv'
<1>0. TypeOK /\ RollbackRuns /\ RunsFit /\ JobsFit /\ SweptFits
  BY DEF SysInv
<1>1. [Next]_row
  BY <1>0, SystemStepIsNext
<1>2. TypeOK' /\ RollbackRuns'
  BY <1>0, <1>1, TypeStep, RollbackRunsStep
<1>3. RunsMove /\ JobsMove
  <2>1. CASE Executing
    BY <2>1, ExecutingMoves
  <2>2. CASE UNCHANGED executorVars
    BY <1>0, <2>2, SameRuns, OtherJobs DEF executorVars
  <2> QED
    BY <2>1, <2>2, Zenon DEF SysNext, vars, executorVars, Client, Lapse, Age, Expire, RequestCancel,
                             FinishCancel, SweepRead, SweepAct
<1>4. \A d \in Deploys : Worked(d) => Worked(d)'
  BY <1>0, <1>1, WorkedStays
<1>5. RunsFit'
  BY <1>3, <1>4 DEF RunsMove, RunsFit, Fits, Runs
<1>6. JobsFit'
  BY <1>3, <1>4 DEF JobsMove, JobsFit
<1> QED
  BY <1>2, <1>5, <1>6, SweptStays DEF SysInv

\* Nothing is claimed, run or read at the start.
LEMMA SystemStarts ==
  ASSUME QueueAssumption, ExecutorAssumption, SysInit
  PROVE  SysInv
<1>1. row = [d \in Deploys |-> NoRow] /\ TypeOK /\ RollbackRuns
  BY DEF SysInit, Init, TypeOK, RollbackRuns, NoRow, Row, Statuses, Stages, Cancels, Holds
<1>2. RunsFit
  BY IdleFits DEF SysInit, ExecutorInit, RunsFit
<1>3. JobsFit
  BY DEF SysInit, ExecutorInit, JobsFit, ExecutorAssumption
<1>4. SweptFits
  BY DEF SysInit, SweptFits, NotSwept, Stages
<1> QED
  BY <1>1, <1>2, <1>3, <1>4 DEF SysInv

-------------------------------------------------------------------------------
(* Theorems.                                                               *)

\* The executors, the sweeper, the clients and the rollbacks together write the table
\* only as the queue's statements do, over stalls, crashes and boots: late stage writes,
\* late answers and runs of a claim that was taken away included.
THEOREM SystemImplementsQueue ==
  ASSUME QueueAssumption, ExecutorAssumption, SystemAssumption
  PROVE  SysSpec => Spec
<1>1. SysInit => Init /\ SysInv
  BY SystemStarts DEF SysInit
<1>2. SysInv /\ [SysNext]_vars => SysInv'
  BY SystemInductive
<1>3. SysInv /\ [SysNext]_vars => [Next]_row
  BY SystemStepIsNext DEF SysInv
<1> QED
  BY <1>1, <1>2, <1>3, PTL DEF SysSpec, Spec

\* So what the queue promises holds of the whole system: one deploy at a time in an app
\* environment, owned while it runs and rerun once at most, within the slots there are;
\* requests to stop stay, a waiter keeps its slot, a slot Vardo's own deploys could take is
\* not taken first, and every deploy's life is the one DeployLifecycle allows.
THEOREM SystemKeepsPromises ==
  ASSUME QueueAssumption, ExecutorAssumption, SystemAssumption
  PROVE  SysSpec => /\ [](OneRunningPerScope /\ OwnedWhileRunning /\ WithinCapacity /\ AtMostOneRerun)
                    /\ CancelSticks /\ WaiterKeepsItsSlot /\ SelfKeepsItsSlot /\ ImplementsLifecycle
BY SystemImplementsQueue, OneDeployPerScope, OwnerCorrect, CapacityHolds, RerunsAreFew,
   CancelStays, WaitersKeepTheirSlot, SelfSlotStays, QueueImplementsLifecycle, PTL

-------------------------------------------------------------------------------
(* What the other statements do to a row a run works for.                  *)

RunsOf(d) == {d} \X (1 .. MaxClaims)

\* What a deploy's row may become by steps that are not about its runs.
Life(x, y) ==
  \/ /\ y.status = x.status /\ y.home = x.home
     /\ x.status = "running" => y.by = x.by /\ y.live = x.live /\ y.stage = x.stage /\ y.hold = x.hold
     /\ x.hold = "off" => y.hold = "off"
  \/ x.status = "absent" /\ y.status = "queued" /\ y.hold = "off" /\ y.home = "none"
  \/ /\ y.home = x.home
     /\ \/ x.status = "queued" /\ y.status \in {"cancelled", "superseded"}
        \/ x.status = "success" /\ y.status = "rolled_back"

\* Such a step drops the hold of a success only in a process of its new slot.
DropsHold(d) ==
  /\ row[d].status = "success" /\ row[d].home # "none" /\ row[d].hold # "off"
  /\ row'[d].status = "success" /\ row'[d].hold = "off"

Aside(d) ==
  /\ Life(row[d], row'[d])
  /\ DropsHold(d) => \E e \in Executors : SlotOf[e] = row[d].home /\ proc[e] = "up"

RunsStay(d) ==
  /\ \A r \in RunsOf(d) : run'[r] = run[r]
  /\ \A e \in Executors : job'[e][d] = job[e][d]

\* Executor e claims d.
ClaimsIt(e, d) ==
  /\ proc[e] = "up" /\ row[d].status = "queued" /\ Idle(d) # {} /\ ~HoldFresh
  /\ \E slot \in {"none", "target"} : row'[d] = Claimed(d, e, slot)
  /\ \E t \in BOOLEAN :
       /\ t => TargetSlots > 0 /\ ~IsSelf(d)
       /\ \A r \in RunsOf(d) :
            run'[r] = IF r[2] = NextRun(d) THEN NewRun(e, "starting", t) ELSE run[r]
  /\ \A x \in Executors : job'[x][d] = IF x = e THEN NextRun(d) ELSE job[x][d]

-----------------------------------------------------------------------------
LEMMA LifeSame == ASSUME NEW x PROVE Life(x, x)
BY DEF Life

LEMMA SameAside ==
  ASSUME NEW d, row'[d] = row[d]
  PROVE  Aside(d)
BY LifeSame DEF Aside, DropsHold

\* A write that lets no hold of a success go.
LEMMA WriteAside ==
  ASSUME TypeOK, NEW x \in Deploys, NEW new, Write(x, new), Life(row[x], new),
         new.hold = "off" => row[x].hold = "off" \/ row[x].status # "success",
         NEW d \in Deploys
  PROVE  Aside(d)
<1>1. CASE d # x
  BY <1>1, SameAside DEF Write, TypeOK
<1>2. CASE d = x
  BY <1>2 DEF Write, TypeOK, Aside, DropsHold
<1> QED
  BY <1>1, <1>2

LEMMA SupersedeAside ==
  ASSUME NEW r \in [Deploys -> Row], NEW x \in Deploys, row' = ApplySupersede(r, x),
         NEW d \in Deploys, TypeOK,
         r[d] = row[d]
  PROVE  Aside(d)
<1>0. r[d] \in Row
  OBVIOUS
<1>1. CASE row'[d] = r[d]
  BY <1>1, SameAside
<1>2. ASSUME NEW z \in Row, z.status = "queued"
      PROVE  Life(z, Replaced(z, x)) /\ Replaced(z, x).status # "success"
  BY <1>2 DEF Replaced, Life, Row
<1>3. ASSUME NEW z \in Row, z.status = "running", z.cancel = "none"
      PROVE  Life(z, ToldToStop(z)) /\ ToldToStop(z).status # "success"
  BY <1>3 DEF ToldToStop, Life, Row
<1>4. CASE r[d].status = "queued" /\ row'[d] = Replaced(r[d], x)
  BY <1>0, <1>2, <1>4 DEF Aside, DropsHold
<1>5. CASE r[d].status = "running" /\ r[d].cancel = "none" /\ row'[d] = ToldToStop(r[d])
  BY <1>0, <1>3, <1>5 DEF Aside, DropsHold
<1> QED
  BY <1>1, <1>4, <1>5, SupersedeEffect

LEMMA EnqueueAside ==
  ASSUME QueueAssumption, TypeOK, NEW x \in Deploys, NEW s \in Scopes, NEW k \in Kinds,
         EnqueueDeploy(x, s, k), NEW d \in Deploys
  PROVE  Aside(d)
<1> DEFINE r == [row EXCEPT ![x] = NewRow(s, k)]
<1>1. r \in [Deploys -> Row] /\ row' = ApplySupersede(r, x)
  BY NewRowType DEF EnqueueDeploy, TypeOK
<1>2. r[x] = NewRow(s, k) /\ \A z \in Deploys \ {x} : r[z] = row[z]
  BY DEF TypeOK
<1> HIDE DEF r
<1>3. CASE d # x
  BY <1>1, <1>2, <1>3, SupersedeAside
<1>4. CASE d = x
  <2>1. /\ NewRow(s, k).status = "queued" /\ NewRow(s, k).hold = "off" /\ NewRow(s, k).home = "none"
    BY DEF NewRow, NoRow
  <2>2. row'[d] = NewRow(s, k)
    BY <1>1, <1>2, <1>4, <2>1, SupersedeEffect
  <2> QED
    BY <1>4, <2>1, <2>2 DEF EnqueueDeploy, Aside, Life, DropsHold
<1> QED
  BY <1>3, <1>4

LEMMA ReleaseAside ==
  ASSUME TypeOK, NEW x \in Deploys, ReleaseHeldDeploy(x), NEW d \in Deploys
  PROVE  Aside(d)
<1> DEFINE r == [row EXCEPT ![x].held = FALSE]
<1>0. [row[x] EXCEPT !.held = FALSE] \in Row
  BY RowType, HeldType
<1>1. r \in [Deploys -> Row] /\ row' = ApplySupersede(r, x)
  BY <1>0 DEF ReleaseHeldDeploy, TypeOK
<1>2. r[x] = [row[x] EXCEPT !.held = FALSE] /\ \A z \in Deploys \ {x} : r[z] = row[z]
  BY DEF TypeOK
<1> HIDE DEF r
<1>3. CASE d # x
  BY <1>1, <1>2, <1>3, SupersedeAside
<1>4. CASE d = x
  <2>1. \A z \in Row : z.status = "queued" =>
          /\ [z EXCEPT !.held = FALSE].status = "queued" /\ Life(z, [z EXCEPT !.held = FALSE])
    BY DEF Row, Life
  <2>2. row[x].status = "queued" /\ row[x] \in Row
    BY RowType DEF ReleaseHeldDeploy
  <2>3. row'[d] = [row[x] EXCEPT !.held = FALSE]
    <3>1. r[x].status = "queued"
      BY <1>2, <2>1, <2>2
    <3>2. ApplySupersede(r, x)[x] = r[x]
      BY <3>1, SupersedeEffect
    <3> QED
      BY <1>1, <1>2, <1>4, <3>2
  <2> QED
    BY <1>4, <2>1, <2>2, <2>3 DEF Aside, DropsHold
<1> QED
  BY <1>3, <1>4

LEMMA ClientAside ==
  ASSUME QueueAssumption, SystemAssumption, TypeOK, NEW x \in Deploys, NEW d \in Deploys,
         \/ Client(x) \/ Age(x) \/ Expire(x)
         \/ \E reason \in CancelReasons : RequestCancel(x, reason) \/ FinishCancel(x, reason)
  PROVE  Aside(d)
<1>0. row[x] \in Row
  BY RowType
<1>1. ASSUME NEW s \in Scopes, NEW k \in Kinds, EnqueueHeld(x, s, k) PROVE Aside(d)
  <2>1. /\ [NewRow(s, k) EXCEPT !.held = TRUE].status = "queued"
        /\ [NewRow(s, k) EXCEPT !.held = TRUE].hold = "off"
        /\ [NewRow(s, k) EXCEPT !.held = TRUE].home = "none"
    BY DEF NewRow, NoRow
  <2>2. Life(row[x], [NewRow(s, k) EXCEPT !.held = TRUE])
    BY <1>1, <2>1, Zenon DEF EnqueueHeld, Life
  <2>3. row[x].status # "success"
    BY <1>1 DEF EnqueueHeld
  <2> QED
    BY <1>1, <2>1, <2>2, <2>3, WriteAside, Zenon DEF EnqueueHeld
<1>2. ASSUME BumpDeploy(x) PROVE Aside(d)
  <2>1. PICK n : Write(x, [row[x] EXCEPT !.bumped = n])
    BY <1>2 DEF BumpDeploy
  <2>2. \A z \in Row : Life(z, [z EXCEPT !.bumped = n]) /\ [z EXCEPT !.bumped = n].hold = z.hold
    BY DEF Life, Row
  <2> QED
    BY <1>0, <2>1, <2>2, WriteAside, Zenon
<1>3. ASSUME NEW c, CancelQueued(x, c) PROVE Aside(d)
  <2>1. \A z \in Row : z.status = "queued" =>
          /\ Life(z, [z EXCEPT !.status = "cancelled", !.cancel = c])
          /\ [z EXCEPT !.status = "cancelled", !.cancel = c].hold = z.hold
    BY DEF Life, Row
  <2> QED
    BY <1>0, <1>3, <2>1, WriteAside, Zenon DEF CancelQueued
<1>4. ASSUME NEW c, FlagRunning(x, c) PROVE Aside(d)
  <2> DEFINE to == IF row[x].cancel \in {"none", "supersede"} THEN c ELSE row[x].cancel
  <2>1. \A z \in Row : \A t : Life(z, [z EXCEPT !.cancel = t]) /\ [z EXCEPT !.cancel = t].hold = z.hold
    BY DEF Life, Row
  <2>2. Write(x, [row[x] EXCEPT !.cancel = to])
    BY <1>4 DEF FlagRunning
  <2> QED
    BY <1>0, <2>1, <2>2, WriteAside, Zenon
<1>5. CASE Age(x)
  <2>1. \A z \in Row : z.hold = "fresh" /\ z.status # "running" =>
          Life(z, [z EXCEPT !.hold = "stale"]) /\ [z EXCEPT !.hold = "stale"].hold = "stale"
    BY DEF Life, Row
  <2>2. "stale" # "off"
    OBVIOUS
  <2> QED
    BY <1>0, <1>5, <2>1, <2>2, WriteAside, Zenon DEF Age, AgeExclusive
<1>6. CASE Expire(x)
  <2>1. \A z \in Row : z.status = "queued" =>
          /\ Life(z, [z EXCEPT !.status = "cancelled"])
          /\ [z EXCEPT !.status = "cancelled"].hold = z.hold
    BY DEF Life, Row
  <2> QED
    BY <1>0, <1>6, <2>1, WriteAside, Zenon DEF Expire, ExpireQueued
<1>7. CASE Client(x)
  BY <1>1, <1>2, <1>7, EnqueueAside, ReleaseAside, Zenon DEF Client
<1>8. ASSUME NEW reason \in CancelReasons, RequestCancel(x, reason) \/ FinishCancel(x, reason)
      PROVE  Aside(d)
  <2>1. UNCHANGED row \/ CancelQueued(x, reason) \/ FlagRunning(x, reason)
    BY <1>8, Zenon DEF RequestCancel, FinishCancel
  <2> QED
    BY <1>3, <1>4, <2>1, SameAside
<1> QED
  BY <1>5, <1>6, <1>7, <1>8

\* A run's and the sweeper's writes name one deploy, and clearing left-over holds
\* spares those of other slots' successes.
LEMMA OthersAside ==
  ASSUME SysInv, NEW d \in Deploys,
         \/ \E r \in Runs \ RunsOf(d) : GoesOn(r)
         \/ \E x \in Deploys \ {d} : \/ SweepAct(x) \/ Lapse(x)
                                     \/ \E e \in Executors, s \in Scopes : StartRollback(e, x, s)
  PROVE  row'[d] = row[d]
<1>0. TypeOK /\ RunsFit
  BY DEF SysInv
<1>1. ASSUME NEW x \in Deploys \ {d}, NEW new, Write(x, new) PROVE row'[d] = row[d]
  BY <1>0, <1>1 DEF Write, TypeOK
<1>2. ASSUME NEW r \in Runs \ RunsOf(d), GoesOn(r) PROVE row'[d] = row[d]
  <2>1. r[1] \in Deploys \ {d}
    BY DEF Runs, RunsOf
  <2>2. UNCHANGED row \/ \E new : Write(r[1], new)
    <3>1. CASE RunStep(r)
      <4>1. UNCHANGED row \/ ExecutorWrite(run[r].exec, r[1])
        BY <1>0, <3>1, RunStepWrites
      <4> QED
        BY <4>1 DEF ExecutorWrite, TakeLocalSlot, AwaitLocalSlot, EndLocalWait, RequeueForLocalSlot,
           MarkStage, EnterSwap, DropSupersede, SetExclusive, ReleaseExclusive, Finish
    <3>2. CASE LandMark(r) \/ ActOnAnswer(r)
      BY <3>2 DEF LandMark, ActOnAnswer, MarkStage, DropSupersede
    <3>3. CASE EndRollback(r)
      BY <3>3 DEF EndRollback, Only, FinishRollback
    <3> QED
      BY <1>2, <3>1, <3>2, <3>3 DEF GoesOn
  <2> QED
    BY <1>1, <2>1, <2>2
<1>3. ASSUME NEW x \in Deploys \ {d}, SweepAct(x) \/ Lapse(x) PROVE row'[d] = row[d]
  <2>1. UNCHANGED row \/ \E new : Write(x, new)
    BY <1>3 DEF SweepAct, Lapse, SweepRequeue, FailDeadDeploy, LapseLease
  <2> QED
    BY <1>1, <2>1
<1>4. ASSUME NEW x \in Deploys \ {d}, NEW e \in Executors, NEW s \in Scopes, StartRollback(e, x, s)
      PROVE  row'[d] = row[d]
  BY <1>1, <1>4 DEF StartRollback, InsertRollback
<1> QED
  BY <1>2, <1>3, <1>4, Zenon

LEMMA RescueAside ==
  ASSUME TypeOK, NEW x \in Deploys, MarkRolledBack(x), NEW d \in Deploys
  PROVE  Aside(d)
<1>1. \A z \in Row : z.status = "success" =>
        /\ Life(z, [z EXCEPT !.status = "rolled_back"])
        /\ [z EXCEPT !.status = "rolled_back"].hold = z.hold
  BY DEF Life, Row
<1> QED
  BY <1>1, RowType, WriteAside, Zenon DEF MarkRolledBack

LEMMA ClearAside ==
  ASSUME TypeOK, NEW e \in Executors, ClearHold(e), NEW d \in Deploys
  PROVE  Aside(d)
<1>1. CASE row'[d] = row[d]
  BY <1>1, SameAside
<1>2. CASE LeftOver(d, e) /\ row'[d] = [row[d] EXCEPT !.hold = "off"]
  <2>1. \A z \in Row : z.status # "running" => Life(z, [z EXCEPT !.hold = "off"])
    BY DEF Life, Row
  <2>2. row[d] \in Row /\ row[d].status # "running"
    BY <1>2, RowType DEF LeftOver
  <2> QED
    BY <1>2, <2>1, <2>2 DEF Aside, DropsHold, LeftOver, ClearHold
<1> QED
  BY <1>1, <1>2 DEF ClearHold, ClearFinishedExclusive

LEMMA RunTypes ==
  ASSUME NEW d \in Deploys
  PROVE  \A r \in RunsOf(d) : r \in Runs /\ r[1] = d /\ r[2] \in 1 .. MaxClaims /\ r = <<d, r[2]>>
BY DEF RunsOf, Runs

\* A claim that takes d, or leaves it.
LEMMA ClaimEffect ==
  ASSUME QueueAssumption, ExecutorAssumption, SysInv, NEW e \in Executors, Claim(e), NEW d \in Deploys
  PROVE  \/ ClaimsIt(e, d) /\ UNCHANGED proc
         \/ row'[d] = row[d] /\ RunsStay(d) /\ UNCHANGED proc
<1>1. PICK picks \in ClaimPicks(e) :
        LET taken == picks[1] \cup picks[2] IN
        /\ \A x \in taken : Idle(x) # {}
        /\ ClaimDeploys(e, picks[1], picks[2])
        /\ run' = [r \in Runs |->
                     IF r[1] \in taken /\ r[2] = NextRun(r[1])
                     THEN NewRun(e, "starting", r[1] \in picks[2]) ELSE run[r]]
        /\ job' = [job EXCEPT ![e] = [x \in Deploys |-> IF x \in taken THEN NextRun(x) ELSE @[x]]]
  BY Zenon DEF Claim
<1> DEFINE taken == picks[1] \cup picks[2]
<1>2. UNCHANGED proc /\ proc[e] = "up"
  BY DEF Claim
<1>3. job' = [job EXCEPT ![e] = [x \in Deploys |-> IF x \in taken THEN NextRun(x) ELSE @[x]]]
  BY <1>1
<1>4. \A x \in Executors : job'[x][d] = IF x = e /\ d \in taken THEN NextRun(d) ELSE job[x][d]
  <2> HIDE DEF taken
  <2> QED
    BY <1>3 DEF SysInv, JobsFit
<1>5. CASE d \notin taken
  <2>1. row'[d] = row[d]
    BY <1>1, <1>5 DEF ClaimDeploys, AfterClaim
  <2>2. \A r \in RunsOf(d) : run'[r] = run[r]
    BY <1>1, <1>5, RunTypes
  <2> QED
    BY <1>2, <1>4, <1>5, <2>1, <2>2 DEF RunsStay
<1>6. CASE d \in taken
  <2>1. row[d].status = "queued" /\ Idle(d) # {} /\ ~HoldFresh
    BY <1>1, <1>6, PicksAreHeads DEF Heads, Claimable, Queued, ClaimDeploys
  <2>2. \E slot \in {"none", "target"} : row'[d] = Claimed(d, e, slot)
    BY <1>1, <1>6 DEF ClaimDeploys, AfterClaim
  <2> DEFINE t == d \in picks[2]
  <2>3. t => TargetSlots > 0 /\ ~IsSelf(d)
    <3> SUFFICES ASSUME d \in picks[2] PROVE TargetSlots > 0 /\ ~IsSelf(d)
      OBVIOUS
    <3>1. ~IsSelf(d)
      BY <1>1, ClaimPicksFrom DEF FirstOf
    <3>2. /\ picks[2] # {} /\ picks[2] \in SUBSET Deploys
          /\ Cardinality(OnTarget) + Cardinality(picks[2]) <= TargetSlots
      BY <1>1, ClaimTakes
    <3>3. Cardinality(OnTarget) \in Nat /\ OnTarget \in SUBSET Deploys
      <4>1. OnTarget \in SUBSET Deploys
        BY DEF OnTarget, Running
      <4> QED
        BY <4>1, DeploysFinite
    <3>4. Cardinality(picks[2]) \in Nat /\ Cardinality(picks[2]) # 0
      BY <3>2, DeploysFinite, FS_EmptySet
    <3> QED
      BY <3>1, <3>2, <3>3, <3>4 DEF QueueAssumption
  <2>4. \A r \in RunsOf(d) :
          run'[r] = IF r[2] = NextRun(d) THEN NewRun(e, "starting", t) ELSE run[r]
    BY <1>1, <1>6, RunTypes
  <2>5. t \in BOOLEAN
    OBVIOUS
  <2> HIDE DEF t
  <2>6. \E u \in BOOLEAN :
          /\ u => TargetSlots > 0 /\ ~IsSelf(d)
          /\ \A r \in RunsOf(d) :
               run'[r] = IF r[2] = NextRun(d) THEN NewRun(e, "starting", u) ELSE run[r]
    BY <2>3, <2>4, <2>5, Zenon
  <2>7. \A x \in Executors : job'[x][d] = IF x = e THEN NextRun(d) ELSE job[x][d]
    BY <1>4, <1>6
  <2> QED
    BY <1>2, <2>1, <2>2, <2>6, <2>7, Zenon DEF ClaimsIt
<1> QED
  BY <1>5, <1>6

-------------------------------------------------------------------------------
(* What a step of the system is for one deploy.                            *)

\* A step of a run writes that run, and at its end the job of its deploy.
LEMMA RunWrites ==
  ASSUME NEW r \in Runs, GoesOn(r)
  PROVE  /\ UNCHANGED run \/ \E new : Set(r, new)
         /\ UNCHANGED job \/ job' = [job EXCEPT ![run[r].exec][r[1]] = 0]
         /\ UNCHANGED proc
<1>1. CASE RunStep(r)
  <2>1. UNCHANGED run \/ \E new : Set(r, new)
    BY <1>1, Zenon DEF RunStep, Only, GoTo, Start, TakeLocal, AwaitLocal, EndWait, NeedLocal, Requeue,
       Build, Hold, WaitAlone, Fence, BeginSwap, StartSlot, CheckOpen, Commit, Throw, Settle, Leave, Close
  <2>2. UNCHANGED proc /\ (UNCHANGED job \/ job' = [job EXCEPT ![run[r].exec][r[1]] = 0])
    BY <1>1, Zenon DEF RunStep, Only, Start, TakeLocal, AwaitLocal, EndWait, NeedLocal, Requeue,
       Build, Hold, WaitAlone, Fence, BeginSwap, StartSlot, CheckOpen, Commit, Throw, Settle, Leave, Close
  <2> QED
    BY <2>1, <2>2
<1>2. CASE LandMark(r) \/ ActOnAnswer(r)
  BY <1>2, Zenon DEF LandMark, ActOnAnswer
<1>3. CASE EndRollback(r)
  BY <1>3, Zenon DEF EndRollback, Only
<1> QED
  BY <1>1, <1>2, <1>3, Zenon DEF GoesOn

LEMMA OthersRunsStay ==
  ASSUME SysInv, NEW d \in Deploys, NEW r \in Runs \ RunsOf(d), GoesOn(r)
  PROVE  RunsStay(d) /\ UNCHANGED proc
<1>1. r[1] # d /\ \A q \in RunsOf(d) : q \in Runs /\ q # r
  BY RunTypes DEF Runs, RunsOf
<1>2. \A q \in RunsOf(d) : run'[q] = run[q]
  BY <1>1, RunWrites DEF Set, SysInv, RunsFit
<1>3. \A e \in Executors : job'[e][d] = job[e][d]
  <2>1. UNCHANGED job \/ job' = [job EXCEPT ![run[r].exec][r[1]] = 0]
    BY RunWrites
  <2>2. job \in [Executors -> [Deploys -> 0 .. MaxClaims]]
    BY DEF SysInv, JobsFit
  <2> QED
    BY <1>1, <2>1, <2>2
<1> QED
  BY <1>2, <1>3, RunWrites DEF RunsStay

LEMMA SameRunsStay ==
  ASSUME NEW d \in Deploys, UNCHANGED run, UNCHANGED job
  PROVE  RunsStay(d)
BY DEF RunsStay

Assumptions == QueueAssumption /\ ExecutorAssumption /\ SystemAssumption

\* What a step of the system is to one deploy.
StepOf(d) ==
  \/ Aside(d) /\ RunsStay(d) /\ UNCHANGED proc
  \/ \E e \in Executors : \/ ClaimsIt(e, d) /\ UNCHANGED proc
                          \/ Renew(e) \/ Crash(e) \/ Boot(e)
                          \/ \E s \in Scopes : StartRollback(e, d, s)
  \/ \E r \in RunsOf(d) : GoesOn(r)
  \/ SweepAct(d) \/ Lapse(d)

LEMMA StepFor ==
  ASSUME Assumptions, SysInv, [SysNext]_vars, NEW d \in Deploys
  PROVE  StepOf(d)
<1>0. TypeOK /\ RunsFit /\ QueueAssumption /\ ExecutorAssumption /\ SystemAssumption
  BY DEF SysInv, Assumptions
<1>1. ASSUME Aside(d), UNCHANGED executorVars PROVE StepOf(d)
  BY <1>1, SameRunsStay, Zenon DEF executorVars, StepOf
<1>2. ASSUME row'[d] = row[d], RunsStay(d), UNCHANGED proc PROVE StepOf(d)
  BY <1>2, SameAside, Zenon DEF StepOf
<1>3. CASE UNCHANGED vars \/ SweepRead
  <2>1. UNCHANGED row /\ UNCHANGED executorVars
    BY <1>3 DEF vars, executorVars, SweepRead
  <2> QED
    BY <1>1, <2>1, SameAside
<1>4. ASSUME NEW x \in Deploys,
             \/ Client(x) \/ Age(x) \/ Expire(x)
             \/ \E reason \in CancelReasons : RequestCancel(x, reason) \/ FinishCancel(x, reason)
      PROVE  StepOf(d)
  <2>1. UNCHANGED executorVars
    BY <1>4, Zenon DEF Client, Age, Expire, RequestCancel, FinishCancel
  <2>2. Aside(d)
    BY <1>0, <1>4, ClientAside, Zenon
  <2> QED
    BY <1>1, <2>1, <2>2
<1>5. ASSUME NEW x \in Deploys, Lapse(x) \/ SweepAct(x) PROVE StepOf(d)
  <2>1. UNCHANGED executorVars
    BY <1>5, Zenon DEF Lapse, SweepAct
  <2>2. CASE x # d
    <3>1. row'[d] = row[d]
      BY <1>5, <2>2, OthersAside, Zenon
    <3> QED
      BY <1>1, <2>1, <3>1, SameAside
  <2> QED
    BY <1>5, <2>2, Zenon DEF StepOf
<1>6. ASSUME NEW e \in Executors, Claim(e) PROVE StepOf(d)
  BY <1>0, <1>2, <1>6, ClaimEffect, Zenon DEF StepOf
<1>7. ASSUME NEW e \in Executors, ClearHold(e) PROVE StepOf(d)
  <2>1. UNCHANGED executorVars
    BY <1>7 DEF ClearHold
  <2> QED
    BY <1>0, <1>1, <1>7, <2>1, ClearAside
<1>8. ASSUME NEW e \in Executors, NEW x \in Deploys, NEW s \in Scopes, StartRollback(e, x, s) PROVE StepOf(d)
  <2>1. CASE x # d
    <3>1. row'[d] = row[d]
      BY <1>8, <2>1, OthersAside, Zenon
    <3>2. \A q \in RunsOf(d) : run'[q] = run[q]
      <4>1. \A q \in RunsOf(d) : q \in Runs /\ q # <<x, 1>>
        BY <2>1, RunTypes
      <4>2. \E new : Set(<<x, 1>>, new)
        BY <1>8 DEF StartRollback
      <4> QED
        BY <1>0, <4>1, <4>2 DEF Set, RunsFit
    <3>3. UNCHANGED job /\ UNCHANGED proc
      BY <1>8 DEF StartRollback
    <3> QED
      BY <1>2, <3>1, <3>2, <3>3, Zenon DEF RunsStay
  <2> QED
    BY <1>8, <2>1, Zenon DEF StepOf
<1>9. ASSUME NEW r \in Runs, NEW x \in Deploys, Rescue(r, x) PROVE StepOf(d)
  <2>1. MarkRolledBack(x) /\ UNCHANGED executorVars
    BY <1>9 DEF Rescue, Only, executorVars
  <2> QED
    BY <1>0, <1>1, <2>1, RescueAside
<1>10. ASSUME NEW r \in Runs, GoesOn(r) PROVE StepOf(d)
  <2>1. CASE r \notin RunsOf(d)
    <3>1. row'[d] = row[d]
      BY <1>10, <2>1, OthersAside, Zenon
    <3> QED
      BY <1>2, <1>10, <2>1, <3>1, OthersRunsStay
  <2> QED
    BY <1>10, <2>1, Zenon DEF StepOf
<1>11. ASSUME NEW e \in Executors, Renew(e) \/ Crash(e) \/ Boot(e) PROVE StepOf(d)
  BY <1>11, Zenon DEF StepOf
<1>12. CASE Executing
  BY <1>6, <1>7, <1>8, <1>9, <1>10, <1>11, <1>12, Zenon DEF Executing
<1> QED
  BY <1>3, <1>4, <1>5, <1>12, Zenon DEF SysNext

-------------------------------------------------------------------------------
(* What the step of a run does to it and to its row.                       *)

\* A run that has still something to do for the deploy it was claimed with.
Works(r) == run[r].pc \notin {"idle", "ended", "rolling", "finishing", "won"}

\* What a run's row keeps while the run goes on.
Still(a, b) == b.status = a.status /\ b.by = a.by /\ b.live = a.live /\ b.home = a.home
Same(a, b)  == Still(a, b) /\ b.stage = a.stage /\ b.hold = a.hold

\* The steps of a run x of d that holds its claim, to y, with d's row from a to b.
WorkStep(d, x, y, a, b) ==
  \/ /\ Same(a, b)
     /\ \/ x.pc = "starting"
           /\ y = [x EXCEPT !.pc = "building", !.stage = "build", !.marks = @ \cup {"build"}]
        \/ x.pc = "building" /\ y = x
        \/ x.pc = "building" /\ y = [x EXCEPT !.onTarget = FALSE]
        \/ x.pc = "building" /\ x.onTarget /\ y = [x EXCEPT !.pc = "requeueing"]
        \/ /\ x.pc = "building"
           /\ InOrder => x.marks = {}
           /\ y = [x EXCEPT !.pc = IF IsSelf(d) THEN "holding" ELSE "fence"]
        \/ x.pc = "waiting" /\ y = [x EXCEPT !.pc = "fence", !.alone = RunningExcept(d) = {}]
        \/ x.pc = "fenced"
           /\ y = [x EXCEPT !.pc = "swapping", !.stage = "deploy", !.marks = @ \cup {"deploy"}]
        \/ x.pc = "swapping" /\ y = [x EXCEPT !.pc = "checking"]
        \/ x.pc = "checking" /\ y = [x EXCEPT !.pc = "committing"]
        \/ x.pc # "waiting" /\ y = [x EXCEPT !.pc = "stopping"]
  \/ /\ x.pc = "holding" /\ y = [x EXCEPT !.pc = "waiting"]
     /\ Still(a, b) /\ b.stage = a.stage /\ b.hold = IF a.hold = "off" THEN "fresh" ELSE a.hold
  \/ /\ x.pc = "waiting" /\ y = [x EXCEPT !.pc = "stopping"]
     /\ Still(a, b) /\ b.stage = a.stage /\ b.hold = "off"
  \/ /\ x.pc = "fence" /\ y = [x EXCEPT !.pc = "fenced"]
     /\ Still(a, b) /\ b.stage = "deploy" /\ b.hold = a.hold
  \/ /\ x.pc = "requeueing" /\ x.onTarget /\ y = [x EXCEPT !.pc = "finishing"]
     /\ b.status = "queued" /\ b.home = a.home /\ b.hold = a.hold
  \/ /\ x.pc = "committing" /\ y = [x EXCEPT !.pc = "won"]
     /\ b.status = "success" /\ b.hold = a.hold
     /\ b.home = IF IsSelf(d) THEN OtherSlot(SlotOf[x.exec]) ELSE a.home
  \/ /\ x.pc = "stopping" /\ y = [x EXCEPT !.pc = "finishing"]
     /\ b.status \in {"failed", "cancelled", "superseded"} /\ b.hold = a.hold /\ b.home = a.home

\* The step of what a run left unawaited, or of a renewal of its claim.
LateStep(x, y, a, b) ==
  /\ y.pc = x.pc /\ y.exec = x.exec /\ y.stage = x.stage /\ y.alone = x.alone
  /\ y.onTarget = x.onTarget /\ y.marks \subseteq x.marks
  /\ y.abort = "lost" => x.abort = "lost"
  /\ Still(a, b) /\ b.hold = a.hold
  /\ b.stage = a.stage \/ b.stage \in x.marks

LEMMA WorkSteps ==
  ASSUME Assumptions, SysInv, NEW r \in Runs, Works(r), RunStep(r),
         Owned(run[r].exec, r[1]), row[r[1]].live, run[r].abort # "lost", run[r].pc # "leaving",
         run[r].pc = "requeueing" => run[r].onTarget
  PROVE  WorkStep(r[1], run[r], run'[r], row[r[1]], row'[r[1]])
<1> DEFINE d == r[1]
<1>0. /\ run[r] \in Run /\ d \in Deploys /\ row[d] \in Row /\ row[d].status = "running"
      /\ run \in [Runs -> Run] /\ row \in [Deploys -> Row]
  BY RunFits, RowType DEF SysInv, Owned, RunsFit, TypeOK
<1>1. ASSUME NEW new, Set(r, new) PROVE run'[r] = new
  BY <1>0, <1>1 DEF Set
<1>2. ASSUME NEW new, Write(d, new) PROVE row'[d] = new
  BY <1>0, <1>2 DEF Write
<1>3. ASSUME UNCHANGED row PROVE Same(row[d], row'[d])
  BY <1>3 DEF Same, Still
<1>4. ASSUME UNCHANGED run PROVE run'[r] = run[r]
  BY <1>4
<1> HIDE DEF d
<1>5. CASE Start(r)
  BY <1>1, <1>3, <1>5 DEF Start, Only, WorkStep, d
<1>6. CASE TakeLocal(r)
  <2>1. \A z \in Row : Same(z, [z EXCEPT !.claimSlot = "none"])
    BY DEF Row, Same, Still
  <2> QED
    BY <1>0, <1>1, <1>2, <1>6, <2>1 DEF TakeLocal, Only, TakeLocalSlot, WorkStep, d
<1>7. CASE AwaitLocal(r) \/ EndWait(r)
  <2>1. \A z \in Row : \A n : Same(z, [z EXCEPT !.waiting = n])
    BY DEF Row, Same, Still
  <2>2. PICK n : Write(d, [row[d] EXCEPT !.waiting = n])
    BY <1>7 DEF AwaitLocal, EndWait, Only, AwaitLocalSlot, EndLocalWait, d
  <2>3. Same(row[d], row'[d])
    <3>1. row'[d] = [row[d] EXCEPT !.waiting = n]
      BY <1>2, <2>2
    <3> QED
      BY <1>0, <2>1, <3>1
  <2>4. run[r].pc = "building" /\ run'[r] = run[r]
    BY <1>4, <1>7 DEF AwaitLocal, EndWait, Only
  <2> QED
    BY <2>3, <2>4, Zenon DEF WorkStep, d
<1>8. CASE NeedLocal(r)
  BY <1>1, <1>3, <1>8 DEF NeedLocal, Only, GoTo, WorkStep, d
<1>9. CASE Requeue(r)
  <2>1. CASE run[r].abort = "none"
    <3>1. \A z \in Row : LET n == [z EXCEPT !.status = "queued", !.by = NoExec, !.live = FALSE,
                           !.stage = "none", !.claimSlot = "local", !.waiting = 0]
                         IN n.status = "queued" /\ n.home = z.home /\ n.hold = z.hold
      BY DEF Row
    <3>2. /\ run[r].pc = "requeueing" /\ GoTo(r, "finishing") /\ RequeueForLocalSlot(run[r].exec, d)
      BY <1>0, <1>9, <2>1 DEF Requeue, Only, d
    <3>3. row'[d].status = "queued" /\ row'[d].home = row[d].home /\ row'[d].hold = row[d].hold
      BY <1>0, <1>2, <3>1, <3>2, Zenon DEF RequeueForLocalSlot
    <3>4. run'[r] = [run[r] EXCEPT !.pc = "finishing"]
      BY <1>1, <3>2, Zenon DEF GoTo
    <3> QED
      BY <3>2, <3>3, <3>4, Zenon DEF WorkStep, d
  <2>2. CASE run[r].abort # "none"
    BY <1>1, <1>3, <1>9, <2>2 DEF Requeue, Only, GoTo, WorkStep, d
  <2> QED
    BY <2>1, <2>2
<1>10. CASE Build(r)
  BY <1>1, <1>3, <1>10 DEF Build, Only, GoTo, WorkStep, d
<1>11. CASE Hold(r)
  <2>1. \A z \in Row : \A h : LET n == [z EXCEPT !.hold = h]
                              IN Still(z, n) /\ n.stage = z.stage /\ n.hold = h
    BY DEF Row, Still
  <2> DEFINE h == IF row[d].hold = "off" THEN "fresh" ELSE row[d].hold
  <2>2. Write(d, [row[d] EXCEPT !.hold = h]) /\ GoTo(r, "waiting") /\ run[r].pc = "holding"
    BY <1>0, <1>11 DEF Hold, Only, SetExclusive, d
  <2>3. row'[d].hold = h /\ Still(row[d], row'[d]) /\ row'[d].stage = row[d].stage
    <3> HIDE DEF h
    <3>1. row'[d] = [row[d] EXCEPT !.hold = h]
      BY <1>2, <2>2
    <3> QED
      BY <1>0, <2>1, <3>1
  <2> QED
    BY <1>1, <2>2, <2>3 DEF GoTo, WorkStep, d
<1>12. CASE WaitAlone(r)
  <2>1. \A z \in Row : LET n == [z EXCEPT !.hold = "off"]
                       IN Still(z, n) /\ n.stage = z.stage /\ n.hold = "off"
    BY DEF Row, Still
  <2>2. CASE UNCHANGED row /\ Set(r, [run[r] EXCEPT !.pc = "fence", !.alone = RunningExcept(r[1]) = {}])
    BY <1>1, <1>3, <1>12, <2>2, Zenon DEF WaitAlone, Only, WorkStep, d
  <2>3. CASE ReleaseExclusive(r[1]) /\ GoTo(r, "stopping")
    BY <1>0, <1>1, <1>2, <1>12, <2>1, <2>3 DEF WaitAlone, Only, GoTo, ReleaseExclusive, WorkStep, d
  <2> QED
    BY <1>12, <2>2, <2>3, Zenon DEF WaitAlone, Only
<1>13. CASE Fence(r)
  <2>1. \A z \in Row : z.live => LET n == [z EXCEPT !.stage = "deploy", !.live = TRUE]
                       IN Still(z, n) /\ n.stage = "deploy" /\ n.hold = z.hold
    BY DEF Row, Still
  <2> QED
    BY <1>0, <1>1, <1>2, <1>13, <2>1 DEF Fence, Only, GoTo, EnterSwap, MayEnterSwap, WorkStep, d
<1>14. CASE BeginSwap(r)
  BY <1>1, <1>3, <1>14 DEF BeginSwap, Only, GoTo, WorkStep, d
<1>15. CASE StartSlot(r)
  BY <1>1, <1>3, <1>15 DEF StartSlot, Only, GoTo, WorkStep, d
<1>16. CASE CheckOpen(r)
  BY <1>0, <1>1, <1>3, <1>16 DEF CheckOpen, Only, GoTo, WorkStep, d
<1>17. CASE Commit(r)
  <2>1. \A z \in Row : \A h, t : LET n == [z EXCEPT !.status = "success", !.successor = t, !.home = h]
                                 IN n.status = "success" /\ n.hold = z.hold /\ n.home = h
    BY DEF Row
  <2>2. PICK t : Write(d, [row[d] EXCEPT !.status = "success", !.successor = t,
                     !.home = IF IsSelf(d) THEN OtherSlot(SlotOf[run[r].exec]) ELSE row[d].home])
    BY <1>0, <1>17 DEF Commit, Only, Finish, d
  <2>3. run[r].pc = "committing" /\ GoTo(r, "won")
    BY <1>0, <1>17 DEF Commit, Only, d
  <2>4. /\ row'[d].status = "success" /\ row'[d].hold = row[d].hold
        /\ row'[d].home = IF IsSelf(d) THEN OtherSlot(SlotOf[run[r].exec]) ELSE row[d].home
    <3> DEFINE h == IF IsSelf(d) THEN OtherSlot(SlotOf[run[r].exec]) ELSE row[d].home
    <3>1. row'[d] = [row[d] EXCEPT !.status = "success", !.successor = t, !.home = h]
      BY <1>2, <2>2
    <3> HIDE DEF h
    <3>2. row'[d].status = "success" /\ row'[d].hold = row[d].hold /\ row'[d].home = h
      BY <1>0, <2>1, <3>1
    <3> QED
      BY <3>2 DEF h
  <2>5. run'[r] = [run[r] EXCEPT !.pc = "won"]
    BY <1>1, <2>3, Zenon DEF GoTo
  <2> QED
    BY <2>3, <2>4, <2>5, Zenon DEF WorkStep, d
<1>18. CASE Throw(r)
  BY <1>1, <1>3, <1>18 DEF Throw, GoTo, WorkStep, d
<1>19. CASE Settle(r)
  <2>1. \A z \in Row : \A o, t : LET n == [z EXCEPT !.status = o, !.successor = t, !.home = z.home]
                                 IN n.status = o /\ n.hold = z.hold /\ n.home = z.home
    BY DEF Row
  <2>2. Outcome(r) \in {"failed", "cancelled", "superseded"}
    BY DEF Outcome
  <2>3. PICK t : Write(d, [row[d] EXCEPT !.status = Outcome(r), !.successor = t, !.home = row[d].home])
    BY <1>0, <1>19, <2>2 DEF Settle, Only, Finish, d
  <2>4. run[r].pc = "stopping" /\ GoTo(r, "finishing")
    BY <1>19 DEF Settle, Only
  <2>5. /\ row'[d].status = Outcome(r) /\ row'[d].hold = row[d].hold /\ row'[d].home = row[d].home
    <3>1. row'[d] = [row[d] EXCEPT !.status = Outcome(r), !.successor = t, !.home = row[d].home]
      BY <1>2, <2>3
    <3> QED
      BY <1>0, <2>1, <3>1
  <2>6. run'[r] = [run[r] EXCEPT !.pc = "finishing"]
    BY <1>1, <2>4, Zenon DEF GoTo
  <2> QED
    BY <2>2, <2>4, <2>5, <2>6, Zenon DEF WorkStep, d
<1>20. CASE Leave(r) \/ Close(r)
  BY <1>20 DEF Leave, Close, Only, Works
<1> QED
  BY <1>5, <1>6, <1>7, <1>8, <1>9, <1>10, <1>11, <1>12, <1>13, <1>14, <1>15, <1>16, <1>17, <1>18,
     <1>19, <1>20 DEF RunStep

-------------------------------------------------------------------------------
(* Writes and answers that come late.                                      *)

\* What a run keeps through late answers and renewals.
Mild(x, y) ==
  /\ y.pc = x.pc /\ y.exec = x.exec /\ y.stage = x.stage /\ y.alone = x.alone
  /\ y.onTarget = x.onTarget /\ y.marks \subseteq x.marks

LEMMA StoppedIsMild ==
  ASSUME QueueAssumption, TypeOK, NEW r \in Runs, run[r] \in Run, NEW c \in Cancels \ {"none"}, NEW b
  PROVE  /\ Stopped(r, c, b) \in Run /\ Mild(run[r], Stopped(r, c, b))
         /\ Stopped(r, c, b).abort = "lost" => run[r].abort = "lost"
         /\ Lost(r) \in Run /\ Mild(run[r], Lost(r))
<1> DEFINE by == NewestQueuedIn(row[r[1]].scope)
<1>1. by \in Deploys \cup {NoDeploy}
  BY NewestType
<1>2. Stopped(r, c, b) \in {run[r], [run[r] EXCEPT !.ask = "drop"], [run[r] EXCEPT !.ask = "abort", !.to = by],
                            [run[r] EXCEPT !.abort = c]}
  BY DEF Stopped
<1>3. Lost(r) \in {run[r], [run[r] EXCEPT !.abort = "lost"]}
  BY DEF Lost
<1> HIDE DEF by
<1>4. \A x \in Run : \A z \in {x, [x EXCEPT !.ask = "drop"], [x EXCEPT !.ask = "abort", !.to = by],
                            [x EXCEPT !.abort = c]} :
         z \in Run /\ Mild(x, z) /\ (z.abort = "lost" => x.abort = "lost")
  <2>1. \A x \in Run : x \in Run /\ Mild(x, x)
    BY DEF Mild
  <2>2. \A x \in Run : LET z == [x EXCEPT !.ask = "drop"] IN z \in Run /\ Mild(x, z) /\ z.abort = x.abort
    BY DEF Run, Mild
  <2>3. \A x \in Run : LET z == [x EXCEPT !.ask = "abort", !.to = by]
                       IN z \in Run /\ Mild(x, z) /\ z.abort = x.abort
    BY <1>1 DEF Run, Mild
  <2>4. \A x \in Run : LET z == [x EXCEPT !.abort = c] IN z \in Run /\ Mild(x, z) /\ z.abort # "lost"
    BY DEF Run, Mild, Cancels
  <2> QED
    BY <2>1, <2>2, <2>3, <2>4
<1>5. \A x \in Run : \A z \in {x, [x EXCEPT !.abort = "lost"]} : z \in Run /\ Mild(x, z)
  BY DEF Run, Mild
<1> QED
  BY <1>2, <1>3, <1>4, <1>5

\* A stage write or a late answer of a run.
LEMMA LateSteps ==
  ASSUME Assumptions, SysInv, NEW d \in Deploys, NEW r \in RunsOf(d), LandMark(r) \/ ActOnAnswer(r)
  PROVE  /\ Mild(run[r], run'[r]) /\ UNCHANGED job
         /\ Still(row[d], row'[d]) /\ row'[d].hold = row[d].hold
         /\ \/ row'[d].stage = row[d].stage
            \/ row'[d].stage \in run[r].marks /\ Owned(run[r].exec, d)
         /\ Owned(run[r].exec, d) => (run'[r].abort = "lost" => run[r].abort = "lost")
<1>0. /\ r \in Runs /\ r[1] = d /\ run[r] \in Run /\ row[d] \in Row
      /\ run \in [Runs -> Run] /\ row \in [Deploys -> Row] /\ QueueAssumption /\ TypeOK
  BY RunTypes, RunFits, RowType DEF SysInv, RunsFit, TypeOK, Assumptions
<1>1. ASSUME NEW new, Set(r, new) PROVE run'[r] = new
  BY <1>0, <1>1 DEF Set
<1>2. ASSUME NEW new, Write(d, new) PROVE row'[d] = new
  BY <1>0, <1>2 DEF Write
<1>3. ASSUME UNCHANGED row PROVE Same(row[d], row'[d])
  BY <1>3 DEF Same, Still
<1>4. \A z \in Run : Mild(z, z)
  BY DEF Mild
<1>5. CASE LandMark(r)
  <2>1. PICK s \in run[r].marks :
        /\ IF Owned(run[r].exec, d)
           THEN /\ MarkStage(run[r].exec, d, s)
                /\ Set(r, [(IF row[d].cancel # "none" THEN Stopped(r, row[d].cancel, TRUE) ELSE run[r])
                             EXCEPT !.marks = @ \ {s}])
           ELSE /\ UNCHANGED row
                /\ Set(r, [Lost(r) EXCEPT !.marks = @ \ {s}])
        /\ UNCHANGED job
    BY <1>0, <1>5 DEF LandMark
  <2>2. \A x, y \in Run : Mild(x, y) => LET z == [y EXCEPT !.marks = @ \ {s}]
                                        IN Mild(x, z) /\ z.abort = y.abort
    BY DEF Run, Mild
  <2>3. CASE Owned(run[r].exec, d)
    <3> DEFINE y == IF row[d].cancel # "none" THEN Stopped(r, row[d].cancel, TRUE) ELSE run[r]
    <3>1. y \in Run /\ Mild(run[r], y) /\ (y.abort = "lost" => run[r].abort = "lost")
      <4>1. row[d].cancel \in Cancels
        BY <1>0 DEF Row
      <4>2. CASE row[d].cancel # "none"
        <5>1. y = Stopped(r, row[d].cancel, TRUE)
          BY <4>2
        <5>2. row[d].cancel \in Cancels \ {"none"}
          BY <4>1, <4>2
        <5> HIDE DEF y
        <5> QED
          BY <1>0, <5>1, <5>2, StoppedIsMild, Zenon
      <4>3. CASE row[d].cancel = "none"
        BY <1>0, <1>4, <4>3
      <4> QED
        BY <4>2, <4>3
    <3>2. Set(r, [y EXCEPT !.marks = @ \ {s}])
      BY <2>1, <2>3
    <3> HIDE DEF y
    <3>3. run'[r] = [y EXCEPT !.marks = @ \ {s}]
      BY <1>1, <3>2
    <3>4. Mild(run[r], run'[r]) /\ (run'[r].abort = "lost" => run[r].abort = "lost")
      BY <1>0, <2>2, <3>1, <3>3
    <3>5. row'[d] = [row[d] EXCEPT !.stage = s]
      BY <1>2, <2>1, <2>3 DEF MarkStage
    <3>6. \A z \in Row : LET n == [z EXCEPT !.stage = s] IN Still(z, n) /\ n.hold = z.hold /\ n.stage = s
      BY DEF Row, Still
    <3>7. Still(row[d], row'[d]) /\ row'[d].hold = row[d].hold /\ row'[d].stage = s
      BY <1>0, <3>5, <3>6
    <3> QED
      BY <2>1, <2>3, <3>4, <3>7
  <2>4. CASE ~Owned(run[r].exec, d)
    <3>1. Lost(r) \in Run /\ Mild(run[r], Lost(r))
      <4>1. "user" \in Cancels \ {"none"}
        BY DEF Cancels
      <4> QED
        BY <1>0, <4>1, StoppedIsMild
    <3>2. run'[r] = [Lost(r) EXCEPT !.marks = @ \ {s}]
      BY <1>1, <2>1, <2>4
    <3>3. Mild(run[r], run'[r])
      BY <1>0, <2>2, <3>1, <3>2
    <3>4. UNCHANGED row /\ UNCHANGED job
      BY <2>1, <2>4
    <3> QED
      BY <1>3, <2>4, <3>3, <3>4, Zenon DEF Same
  <2> QED
    BY <2>3, <2>4
<1>6. CASE ActOnAnswer(r)
  <2>1. \A x \in Run : LET z == [x EXCEPT !.ask = "none"]
                       IN Mild(x, z) /\ z.abort = x.abort
    BY DEF Run, Mild
  <2>3. CASE /\ DropSupersede(d) /\ Set(r, [run[r] EXCEPT !.ask = "none"]) /\ UNCHANGED job
    <3> DEFINE c == IF row[d].cancel = "supersede" THEN "none" ELSE row[d].cancel
    <3>1. row'[d] = [row[d] EXCEPT !.cancel = c]
      BY <1>2, <2>3 DEF DropSupersede
    <3> HIDE DEF c
    <3>2. \A z \in Row : LET n == [z EXCEPT !.cancel = c] IN Still(z, n) /\ n.hold = z.hold /\ n.stage = z.stage
      BY DEF Row, Still
    <3>3. Still(row[d], row'[d]) /\ row'[d].hold = row[d].hold /\ row'[d].stage = row[d].stage
      BY <1>0, <3>1, <3>2
    <3>4. run'[r] = [run[r] EXCEPT !.ask = "none"]
      BY <1>1, <2>3
    <3>5. Mild(run[r], run'[r]) /\ run'[r].abort = run[r].abort
      BY <1>0, <2>1, <3>4
    <3> QED
      BY <2>3, <3>3, <3>5
  <2>4. CASE /\ Set(r, [run[r] EXCEPT !.ask = "none", !.abort = IF @ = "none" THEN "supersede" ELSE @])
             /\ UNCHANGED <<row, job>>
    <3> DEFINE a == IF run[r].abort = "none" THEN "supersede" ELSE run[r].abort
    <3>1. run'[r] = [run[r] EXCEPT !.ask = "none", !.abort = a]
      BY <1>1, <2>4
    <3>2. a = "lost" => run[r].abort = "lost"
      OBVIOUS
    <3> HIDE DEF a
    <3>3. Mild(run[r], run'[r]) /\ run'[r].abort = a
      <4>1. \A x \in Run : LET z == [x EXCEPT !.ask = "none", !.abort = a]
                           IN Mild(x, z) /\ z.abort = a
        BY DEF Run, Mild
      <4>2. LET z == [run[r] EXCEPT !.ask = "none", !.abort = a] IN Mild(run[r], z) /\ z.abort = a
        BY <1>0, <4>1, Zenon
      <4> QED
        BY <3>1, <4>2
    <3>4. UNCHANGED row /\ UNCHANGED job
      BY <2>4
    <3> QED
      BY <1>3, <3>2, <3>3, <3>4, Zenon DEF Same
  <2> QED
    BY <1>0, <1>6, <2>3, <2>4 DEF ActOnAnswer
<1> QED
  BY <1>5, <1>6

\* A renewal, for the runs of one deploy.
LEMMA RenewSteps ==
  ASSUME Assumptions, SysInv, NEW e \in Executors, Renew(e), NEW d \in Deploys
  PROVE  /\ UNCHANGED <<proc, job>>
         /\ \A r \in RunsOf(d) : run'[r] = run[r] \/ (r[2] = job[e][d] /\ job[e][d] # 0)
         /\ \A r \in RunsOf(d) :
              /\ Mild(run[r], run'[r])
              /\ Owned(e, d) => (run'[r].abort = "lost" => run[r].abort = "lost")
         /\ row'[d] = row[d] \/ (Owned(e, d) /\ row'[d] = [row[d] EXCEPT !.live = TRUE])
<1>0. QueueAssumption /\ TypeOK /\ RunsFit /\ row[d] \in Row
  BY RowType DEF SysInv, Assumptions
<1>1. UNCHANGED <<proc, job>> /\ (row'[d] = row[d] \/ (Owned(e, d) /\ row'[d] = [row[d] EXCEPT !.live = TRUE]))
  <2>1. UNCHANGED <<proc, job>> /\ \E ids : RenewLeases(e, ids)
    BY Zenon DEF Renew
  <2>2. PICK ids : RenewLeases(e, ids)
    BY <2>1
  <2>3. row'[d] = IF d \in ids /\ Owned(e, d) THEN [row[d] EXCEPT !.live = TRUE] ELSE row[d]
    BY <2>2 DEF RenewLeases
  <2> QED
    BY <2>1, <2>3
<1>2. ASSUME NEW r \in RunsOf(d)
      PROVE  /\ run'[r] = run[r] \/ (r[2] = job[e][d] /\ job[e][d] # 0)
             /\ Mild(run[r], run'[r])
             /\ Owned(e, d) => (run'[r].abort = "lost" => run[r].abort = "lost")
  <2>1. r \in Runs /\ r[1] = d /\ run[r] \in Run /\ Mild(run[r], run[r])
    BY <1>0, RunTypes, RunFits DEF Mild
  <2>2. /\ run'[r] \in {run[r], Lost(r), Stopped(r, row[d].cancel, FALSE)}
        /\ run'[r] = run[r] \/ (r[2] = job[e][d] /\ job[e][d] # 0)
        /\ \/ run'[r] = run[r]
           \/ run'[r] = Lost(r) /\ ~Owned(e, d)
           \/ run'[r] = Stopped(r, row[d].cancel, FALSE) /\ row[d].cancel # "none"
    <3> DEFINE ids == {x \in Deploys : job[e][x] # 0}
               after(q) == IF ~Owned(e, q[1]) THEN Lost(q)
                           ELSE IF row[q[1]].cancel # "none" THEN Stopped(q, row[q[1]].cancel, FALSE)
                           ELSE run[q]
    <3>1. run' = [q \in Runs |-> IF q[1] \in ids /\ q[2] = job[e][q[1]] THEN after(q) ELSE run[q]]
      BY Zenon DEF Renew
    <3>2. run'[r] = IF d \in ids /\ r[2] = job[e][d] THEN after(r) ELSE run[r]
      BY <2>1, <3>1
    <3>3. after(r) = IF ~Owned(e, d) THEN Lost(r)
                     ELSE IF row[d].cancel # "none" THEN Stopped(r, row[d].cancel, FALSE) ELSE run[r]
      BY <2>1
    <3>4. d \in ids <=> job[e][d] # 0
      OBVIOUS
    <3> HIDE DEF after, ids
    <3> QED
      BY <3>2, <3>3, <3>4
  <2>3. row[d].cancel \in Cancels
    BY <1>0 DEF Row
  <2>4. Mild(run[r], Lost(r))
    <3>1. "user" \in Cancels \ {"none"}
      BY DEF Cancels
    <3> QED
      BY <1>0, <2>1, <3>1, StoppedIsMild
  <2>5. CASE row[d].cancel # "none"
    <3>1. /\ Mild(run[r], Stopped(r, row[d].cancel, FALSE))
          /\ Stopped(r, row[d].cancel, FALSE).abort = "lost" => run[r].abort = "lost"
      BY <1>0, <2>1, <2>3, <2>5, StoppedIsMild
    <3> QED
      BY <2>1, <2>2, <2>4, <3>1
  <2> QED
    BY <2>1, <2>2, <2>4, <2>5
<1> QED
  BY <1>1, <1>2

-------------------------------------------------------------------------------
(* Which claim a run works for, and where the row is.                      *)

\* Where the runs and jobs of d are.
Placed(d) ==
  /\ \A r \in RunsOf(d) :
       /\ run[r].pc = "idle" => run[r] = NoRun
       /\ run[r].pc = "ended" => run[r] = EndedRun
       /\ Live(r) => proc[run[r].exec] = "up"
       /\ run[r].pc = "rolling" => r[2] = 1 /\ row[d].kind = "rollback" /\ row[d].status # "absent"
       /\ run[r].onTarget => TargetSlots > 0 /\ ~IsSelf(d)
       /\ run[r].pc = "requeueing" => run[r].onTarget
  /\ \A e \in Executors :
       job[e][d] # 0 => <<d, job[e][d]>> \in RunsOf(d) /\ run[<<d, job[e][d]>>].exec = e
  /\ d \in Running => proc[row[d].by] # "unborn"

\* What a row keeps through every step of the system.
LEMMA RowFacts ==
  ASSUME Assumptions, SysInv, [SysNext]_vars, NEW d \in Deploys
  PROVE  /\ SysInv'
         /\ row[d].status # "absent" =>
              /\ row'[d].status # "absent" /\ row'[d].kind = row[d].kind
              /\ row'[d].scope = row[d].scope
              /\ d \in Running' => row[d].status \in {"queued", "running"}
         /\ d \in Running /\ d \in Running' => row'[d].by = row[d].by
<1>1. SysInv'
  BY SystemInductive DEF Assumptions
<1>2. RowStep(row[d], row'[d])
  <2>1. [Next]_row
    BY SystemStepIsNext DEF SysInv, Assumptions
  <2> QED
    BY <2>1, NextStep DEF SysInv, Assumptions, RowsStep
<1> QED
  BY <1>1, <1>2 DEF RowStep, QuietStep, Asked, Inserted, Keeps, Stays, Starts, Returns, Ends,
                    Outcomes, Running

\* A step of a run ends it or goes on.
Proceeds(x, y) ==
  /\ y.exec = x.exec
  /\ {x.pc, y.pc} \cap {"idle", "ended", "rolling"} = {}
  /\ y.onTarget => x.onTarget
  /\ y.pc = "requeueing" => y.onTarget

LEMMA RunStepProceeds ==
  ASSUME SysInv, NEW r \in Runs, RunStep(r)
  PROVE  Close(r) \/ (Proceeds(run[r], run'[r]) /\ UNCHANGED job)
<1>0. run[r] \in Run /\ run \in [Runs -> Run]
  BY RunFits DEF SysInv, RunsFit
<1>1. ASSUME NEW new, Set(r, new) PROVE run'[r] = new
  BY <1>0, <1>1 DEF Set
<1>2. \A x \in Run : x.pc \notin {"idle", "ended", "rolling", "requeueing"} => Proceeds(x, x)
  BY DEF Proceeds
<1>3. \A x \in Run, pc \in Steps \ {"idle", "ended", "rolling", "requeueing"} :
        x.pc \notin {"idle", "ended", "rolling"} => Proceeds(x, [x EXCEPT !.pc = pc])
  BY DEF Proceeds, Run
<1>4. ASSUME NEW pc \in Steps \ {"idle", "ended", "rolling", "requeueing"}, GoTo(r, pc),
             run[r].pc \notin {"idle", "ended", "rolling"}
      PROVE  Proceeds(run[r], run'[r])
  BY <1>0, <1>1, <1>3, <1>4, Zenon DEF GoTo
<1>5. CASE Start(r)
  <2>1. \A x \in Run : x.pc = "starting" =>
          Proceeds(x, [x EXCEPT !.pc = "building", !.stage = "build", !.marks = @ \cup {"build"}])
    BY DEF Proceeds, Run
  <2>2. UNCHANGED job /\ run[r].pc = "starting"
    BY <1>5 DEF Start, Only
  <2>3. CASE Set(r, [run[r] EXCEPT !.pc = "building", !.stage = "build", !.marks = @ \cup {"build"}])
    BY <1>0, <1>1, <2>1, <2>2, <2>3
  <2>4. CASE GoTo(r, "finishing")
    BY <1>4, <2>2, <2>4 DEF Steps
  <2> QED
    BY <1>5, <2>3, <2>4 DEF Start, Only
<1>6. CASE TakeLocal(r) \/ AwaitLocal(r) \/ EndWait(r)
  <2>1. \A x \in Run : x.pc = "building" => Proceeds(x, [x EXCEPT !.onTarget = FALSE])
    BY DEF Proceeds, Run
  <2>2. UNCHANGED job /\ run[r].pc = "building"
    BY <1>6 DEF TakeLocal, AwaitLocal, EndWait, Only
  <2>3. CASE UNCHANGED run
    BY <1>0, <1>2, <2>2, <2>3
  <2>4. CASE Set(r, [run[r] EXCEPT !.onTarget = FALSE])
    BY <1>0, <1>1, <2>1, <2>2, <2>4
  <2> QED
    BY <1>6, <2>3, <2>4 DEF TakeLocal, AwaitLocal, EndWait, Only
<1>7. CASE NeedLocal(r)
  <2>1. \A x \in Run : x.pc = "building" /\ x.onTarget => Proceeds(x, [x EXCEPT !.pc = "requeueing"])
    BY DEF Proceeds, Run
  <2> QED
    BY <1>0, <1>1, <1>7, <2>1 DEF NeedLocal, Only, GoTo
<1>8. CASE WaitAlone(r)
  <2>1. \A x \in Run : \A b : x.pc = "waiting" => Proceeds(x, [x EXCEPT !.pc = "fence", !.alone = b])
    BY DEF Proceeds, Run
  <2>2. UNCHANGED job /\ run[r].pc = "waiting"
    BY <1>8 DEF WaitAlone, Only
  <2> DEFINE b == RunningExcept(r[1]) = {}
  <2>3. CASE Set(r, [run[r] EXCEPT !.pc = "fence", !.alone = b])
    <3> HIDE DEF b
    <3>1. run'[r] = [run[r] EXCEPT !.pc = "fence", !.alone = b]
      BY <1>1, <2>3
    <3>2. Proceeds(run[r], [run[r] EXCEPT !.pc = "fence", !.alone = b])
      BY <1>0, <2>1, <2>2, Zenon
    <3> QED
      BY <2>2, <3>1, <3>2
  <2>4. CASE GoTo(r, "stopping")
    BY <1>4, <2>2, <2>4 DEF Steps
  <2> QED
    BY <1>8, <2>3, <2>4 DEF WaitAlone, Only
<1>9. CASE BeginSwap(r)
  <2>1. \A x \in Run : x.pc = "fenced" =>
          Proceeds(x, [x EXCEPT !.pc = "swapping", !.stage = "deploy", !.marks = @ \cup {"deploy"}])
    BY DEF Proceeds, Run
  <2>2. UNCHANGED job /\ run[r].pc = "fenced"
    BY <1>9 DEF BeginSwap, Only
  <2>3. CASE Set(r, [run[r] EXCEPT !.pc = "swapping", !.stage = "deploy", !.marks = @ \cup {"deploy"}])
    BY <1>0, <1>1, <2>1, <2>2, <2>3
  <2>4. CASE GoTo(r, "stopping")
    BY <1>4, <2>2, <2>4 DEF Steps
  <2> QED
    BY <1>9, <2>3, <2>4 DEF BeginSwap, Only
<1>10. CASE \/ Requeue(r) \/ Build(r) \/ Hold(r) \/ Fence(r) \/ StartSlot(r) \/ CheckOpen(r) \/ Commit(r)
            \/ Throw(r) \/ Settle(r) \/ Leave(r)
  <2>1. /\ UNCHANGED job
        /\ run[r].pc \notin {"idle", "ended", "rolling"}
        /\ \E pc \in {"finishing", "stopping", "holding", "fence", "waiting", "fenced", "checking",
                      "committing", "leaving", "won"} : GoTo(r, pc)
    BY <1>10 DEF Requeue, Build, Hold, Fence, StartSlot, CheckOpen, Commit, Throw, Settle, Leave, Only
  <2> QED
    BY <1>4, <2>1 DEF Steps
<1> QED
  BY <1>5, <1>6, <1>7, <1>8, <1>9, <1>10 DEF RunStep

\* The parts of Placed.
PlacedRun(d, x, n, p, a) ==
  /\ x.pc = "idle" => x = NoRun
  /\ x.pc = "ended" => x = EndedRun
  /\ x.pc \notin {"idle", "ended"} => p[x.exec] = "up"
  /\ x.pc = "rolling" => n = 1 /\ a.kind = "rollback" /\ a.status # "absent"
  /\ x.onTarget => TargetSlots > 0 /\ a.scope # SelfScope
  /\ x.pc = "requeueing" => x.onTarget

LEMMA PlacedParts ==
  ASSUME NEW d \in Deploys
  PROVE  Placed(d) <=>
           /\ \A r \in RunsOf(d) : PlacedRun(d, run[r], r[2], proc, row[d])
           /\ \A e \in Executors :
                job[e][d] # 0 => <<d, job[e][d]>> \in RunsOf(d) /\ run[<<d, job[e][d]>>].exec = e
           /\ d \in Running => proc[row[d].by] # "unborn"
BY Zenon DEF Placed, PlacedRun, Live, IsSelf

\* Before a deploy is asked for, it has neither runs nor jobs.
LEMMA AbsentIdle ==
  ASSUME SysInv, NEW d \in Deploys, Placed(d), row[d].status = "absent"
  PROVE  /\ \A r \in RunsOf(d) : ~Live(r) /\ ~Works(r) /\ run[r].pc # "rolling"
         /\ \A e \in Executors : job[e][d] = 0
<1>1. ASSUME NEW r \in RunsOf(d) PROVE ~Live(r) /\ ~Works(r) /\ run[r].pc # "rolling"
  <2>1. Fits(run[r], d) /\ run[r].pc # "rolling"
    BY RunTypes, RunFits DEF SysInv, Placed
  <2> QED
    BY <2>1 DEF Fits, Worked, Live, Works
<1> QED
  BY <1>1 DEF SysInv, JobsFit, Worked

\* A run that works is a queued deploy's.
LEMMA WorksWorked ==
  ASSUME SysInv, NEW d \in Deploys, NEW r \in RunsOf(d), Works(r)
  PROVE  row[d].kind # "rollback" /\ row[d].status # "absent" /\ run[r].exec \in Executors
BY RunTypes, RunFits DEF SysInv, Fits, Worked, Works

\* The other runs of a deploy stay.
LEMMA OtherRunsStay ==
  ASSUME SysInv, NEW d \in Deploys, NEW r \in RunsOf(d), GoesOn(r)
  PROVE  /\ \A q \in RunsOf(d) \ {r} : run'[q] = run[q]
         /\ UNCHANGED proc
<1>1. r \in Runs /\ \A q \in RunsOf(d) : q \in Runs
  BY RunTypes
<1>2. UNCHANGED run \/ \E new : Set(r, new)
  BY <1>1, RunWrites
<1> QED
  BY <1>1, <1>2, RunWrites DEF Set, SysInv, RunsFit

\* What goes on with one run, whoever owns the row.
LEMMA GoesOnKeeps ==
  ASSUME Assumptions, SysInv, NEW d \in Deploys, NEW r \in RunsOf(d), GoesOn(r)
  PROVE  \/ (Proceeds(run[r], run'[r]) \/ Mild(run[r], run'[r])) /\ UNCHANGED job
         \/ run'[r] = EndedRun /\ run[r].pc \in {"finishing", "won"} /\ Close(r)
              /\ job' = [job EXCEPT ![run[r].exec][d] = 0]
         \/ run'[r] = EndedRun /\ run[r].pc = "rolling" /\ EndRollback(r) /\ UNCHANGED job
<1>0. r \in Runs /\ r[1] = d /\ run \in [Runs -> Run]
  BY RunTypes DEF SysInv, RunsFit
<1>1. CASE RunStep(r)
  <2>1. CASE Close(r)
    BY <1>0, <2>1 DEF Close, Set
  <2> QED
    BY <1>0, <1>1, <2>1, RunStepProceeds
<1>2. CASE LandMark(r) \/ ActOnAnswer(r)
  BY <1>0, <1>2, LateSteps
<1>3. CASE EndRollback(r)
  BY <1>0, <1>3 DEF EndRollback, Only, Set
<1> QED
  BY <1>1, <1>2, <1>3 DEF GoesOn

LEMMA NextRunIs ==
  ASSUME Assumptions, NEW d \in Deploys, Idle(d) # {}
  PROVE  /\ NextRun(d) \in 1 .. MaxClaims /\ NextRun(d) # 0
         /\ <<d, NextRun(d)>> \in RunsOf(d) /\ run[<<d, NextRun(d)>>].pc = "idle"
         /\ \A r \in RunsOf(d) : r[2] = NextRun(d) => r = <<d, NextRun(d)>>
<1>1. NextRun(d) \in Idle(d)
  <2>1. \E n \in Idle(d) : \A m \in Idle(d) : n <= m
    <3>1. Idle(d) \in SUBSET Nat
      BY DEF Idle
    <3> QED
      BY <3>1, Least
  <2> QED
    BY <2>1 DEF NextRun
<1>2. NextRun(d) \in 1 .. MaxClaims /\ run[<<d, NextRun(d)>>].pc = "idle"
  BY <1>1 DEF Idle
<1>3. NextRun(d) # 0
  BY <1>2
<1>4. <<d, NextRun(d)>> \in RunsOf(d)
  BY <1>2 DEF RunsOf
<1> QED
  BY <1>2, <1>3, <1>4, RunTypes

\* A claim of d: one idle run starts.
LEMMA ClaimOf ==
  ASSUME Assumptions, SysInv, NEW d \in Deploys, NEW e \in Executors, ClaimsIt(e, d)
  PROVE  \E n \in 1 .. MaxClaims : \E t \in BOOLEAN :
           LET r == <<d, n>> IN
           /\ n # 0 /\ r \in RunsOf(d) /\ run[r].pc = "idle"
           /\ t => TargetSlots > 0 /\ ~IsSelf(d)
           /\ run'[r] = NewRun(e, "starting", t)
           /\ \A q \in RunsOf(d) \ {r} : run'[q] = run[q]
           /\ \A x \in Executors : job'[x][d] = IF x = e THEN n ELSE job[x][d]
<1> DEFINE n == NextRun(d)
<1>1. Idle(d) # {} /\ \A x \in Executors : job'[x][d] = IF x = e THEN n ELSE job[x][d]
  BY Zenon DEF ClaimsIt
<1>2. PICK t \in BOOLEAN :
         /\ t => TargetSlots > 0 /\ ~IsSelf(d)
         /\ \A r \in RunsOf(d) : run'[r] = IF r[2] = n THEN NewRun(e, "starting", t) ELSE run[r]
  BY Zenon DEF ClaimsIt
<1>3. /\ n \in 1 .. MaxClaims /\ n # 0 /\ <<d, n>> \in RunsOf(d) /\ run[<<d, n>>].pc = "idle"
      /\ \A r \in RunsOf(d) : r[2] = n => r = <<d, n>>
  BY <1>1, NextRunIs
<1> HIDE DEF n
<1>4. run'[<<d, n>>] = NewRun(e, "starting", t) /\ \A q \in RunsOf(d) \ {<<d, n>>} : run'[q] = run[q]
  BY <1>2, <1>3
<1> QED
  BY <1>1, <1>2, <1>3, <1>4, Zenon

ProcFits == proc \in [Executors -> {"unborn", "up", "gone"}]

LEMMA ProcStep ==
  ASSUME ProcFits, SysInv, [SysNext]_vars
  PROVE  ProcFits'
<1>1. CASE UNCHANGED proc
  BY <1>1 DEF ProcFits
<1>2. ASSUME NEW e \in Executors, Crash(e) \/ Boot(e) PROVE ProcFits'
  BY <1>2 DEF ProcFits, Crash, Boot
<1>3. ASSUME NEW e \in Executors,
             \/ Claim(e) \/ ClearHold(e) \/ Renew(e)
             \/ \E d \in Deploys, s \in Scopes : StartRollback(e, d, s)
      PROVE  UNCHANGED proc
  BY <1>3, Zenon DEF Claim, ClearHold, Renew, StartRollback, executorVars
<1>4. ASSUME NEW r \in Runs, GoesOn(r) \/ \E d \in Deploys : Rescue(r, d) PROVE UNCHANGED proc
  BY <1>4, RunWrites, Zenon DEF Rescue, Only
<1>5. CASE Executing
  BY <1>1, <1>2, <1>3, <1>4, <1>5, Zenon DEF Executing
<1> QED
  BY <1>1, <1>5, Zenon DEF SysNext, vars, executorVars, Client, Lapse, Age, Expire, RequestCancel,
                         FinishCancel, SweepRead, SweepAct

\* Neither a run nor the sweeper starts a deploy.
LEMMA StartsNothing ==
  ASSUME Assumptions, SysInv, NEW d \in Deploys, d \notin Running,
         \/ \E r \in RunsOf(d) : GoesOn(r)
         \/ SweepAct(d) \/ Lapse(d)
  PROVE  d \notin Running'
<1>0. row[d] \in Row /\ row \in [Deploys -> Row] /\ row[d].status # "running"
  BY RowType DEF SysInv, TypeOK, Running
<1>1. CASE SweepAct(d) \/ Lapse(d)
  BY <1>0, <1>1 DEF SweepAct, Lapse, SweepRequeue, FailDeadDeploy, Expired, LapseLease, Running
<1>2. ASSUME NEW r \in RunsOf(d), GoesOn(r) PROVE row'[d].status # "running"
  <2>0. r \in Runs /\ r[1] = d
    BY RunTypes
  <2>1. CASE UNCHANGED row
    BY <1>0, <2>1
  <2>2. CASE RowsQuiet
    BY <1>0, <2>2 DEF RowsQuiet, QuietStep, Asked, Keeps, Stays, Returns, Ends, Outcomes
  <2>3. CASE RunStep(r)
    BY <2>0, <2>1, <2>2, <2>3, RunStepWrites, ExecutorStep DEF SysInv, Assumptions
  <2>4. CASE LandMark(r) \/ ActOnAnswer(r)
    BY <2>0, <2>1, <2>2, <2>4, <1>2, LateWrites, ExecutorStep DEF SysInv, Assumptions, GoesOn
  <2>5. CASE EndRollback(r)
    BY <2>0, <2>2, <2>5, RollbackStep DEF SysInv, EndRollback, Only, Outcomes
  <2> QED
    BY <1>2, <2>3, <2>4, <2>5 DEF GoesOn
<1> QED
  BY <1>1, <1>2 DEF Running

LEMMA PlacedStep ==
  ASSUME Assumptions, SysInv, [SysNext]_vars, ProcFits, NEW d \in Deploys, Placed(d)
  PROVE  Placed(d)'
<1> DEFINE Jobs == \A e \in Executors :
              job[e][d] # 0 => <<d, job[e][d]>> \in RunsOf(d) /\ run[<<d, job[e][d]>>].exec = e
<1>0. /\ \A r \in RunsOf(d) : PlacedRun(d, run[r], r[2], proc, row[d])
      /\ Jobs
      /\ d \in Running => proc[row[d].by] # "unborn"
  BY PlacedParts
<1>1. /\ row[d].status # "absent" =>
            row'[d].status # "absent" /\ row'[d].kind = row[d].kind /\ row'[d].scope = row[d].scope
      /\ d \in Running /\ d \in Running' => row'[d].by = row[d].by
      /\ d \in Running' => d \in Running \/ row[d].status \in {"absent", "queued"}
  BY RowFacts DEF Running
<1>2. ASSUME NEW r \in RunsOf(d), PlacedRun(d, run[r], r[2], proc, row[d])
      PROVE  PlacedRun(d, run[r], r[2], proc, row'[d])
  <2>1. CASE row[d].status = "absent"
    <3>1. run[r] \in {NoRun, EndedRun}
      BY <2>1, AbsentIdle DEF Live, Placed
    <3> QED
      BY <1>2, <3>1 DEF PlacedRun, NoRun, EndedRun
  <2>2. CASE row[d].status # "absent"
    BY <1>1, <1>2, <2>2 DEF PlacedRun
  <2> QED
    BY <2>1, <2>2
<1>3. ASSUME \A r \in RunsOf(d) : PlacedRun(d, run'[r], r[2], proc', row'[d]),
             Jobs',
             d \in Running' => proc'[row'[d].by] # "unborn"
      PROVE  Placed(d)'
  <2>1. RunsOf(d)' = RunsOf(d)
    BY DEF RunsOf
  <2> QED
    BY <1>3, <2>1, Zenon DEF Placed, PlacedRun, Live, IsSelf
<1>4. ASSUME UNCHANGED proc, d \notin Running => d \notin Running' PROVE d \in Running' => proc'[row'[d].by] # "unborn"
  BY <1>0, <1>1, <1>4
<1>5. CASE Aside(d) /\ RunsStay(d) /\ UNCHANGED proc
  <2>1. d \notin Running => d \notin Running'
    BY <1>5 DEF Aside, Life, Running
  <2> QED
    BY <1>0, <1>2, <1>3, <1>4, <1>5, <2>1 DEF RunsStay
<1>6. ASSUME NEW e \in Executors, ClaimsIt(e, d), UNCHANGED proc PROVE Placed(d)'
  <2>1. PICK n \in 1 .. MaxClaims : \E t \in BOOLEAN :
           LET r == <<d, n>> IN
           /\ n # 0 /\ r \in RunsOf(d) /\ run[r].pc = "idle"
           /\ t => TargetSlots > 0 /\ ~IsSelf(d)
           /\ run'[r] = NewRun(e, "starting", t)
           /\ \A q \in RunsOf(d) \ {r} : run'[q] = run[q]
           /\ \A x \in Executors : job'[x][d] = IF x = e THEN n ELSE job[x][d]
    BY <1>6, ClaimOf
  <2>2. PICK t \in BOOLEAN :
           LET r == <<d, n>> IN
           /\ n # 0 /\ r \in RunsOf(d) /\ run[r].pc = "idle"
           /\ t => TargetSlots > 0 /\ ~IsSelf(d)
           /\ run'[r] = NewRun(e, "starting", t)
           /\ \A q \in RunsOf(d) \ {r} : run'[q] = run[q]
           /\ \A x \in Executors : job'[x][d] = IF x = e THEN n ELSE job[x][d]
    BY <2>1
  <2>3. proc[e] = "up" /\ row[d].status = "queued" /\ row'[d].by = e /\ row[d] \in Row
    <3>1. \A z \in Row : \A slot \in {"none", "target"} :
            [z EXCEPT !.status = "running", !.by = e, !.live = TRUE, !.stage = "none",
                 !.bumped = 0, !.claimSlot = slot, !.waiting = 0].by = e
      BY DEF Row
    <3>2. row[d] \in Row
      BY RowType DEF SysInv
    <3> QED
      BY <1>6, <3>1, <3>2 DEF ClaimsIt, Claimed
  <2>4. NewRun(e, "starting", t).pc = "starting" /\ NewRun(e, "starting", t).exec = e
          /\ NewRun(e, "starting", t).onTarget = t
    BY DEF NewRun, NoRun
  <2>5. PlacedRun(d, NewRun(e, "starting", t), n, proc', row'[d])
    <3>1. row'[d].scope = row[d].scope
      BY <1>1, <2>3
    <3> QED
      BY <1>6, <2>2, <2>3, <2>4, <3>1 DEF PlacedRun, IsSelf
  <2>6. \A r \in RunsOf(d) : PlacedRun(d, run'[r], r[2], proc', row'[d])
    <3> SUFFICES ASSUME NEW r \in RunsOf(d) PROVE PlacedRun(d, run'[r], r[2], proc', row'[d])
      OBVIOUS
    <3>1. CASE r = <<d, n>>
      BY <2>2, <2>5, <3>1
    <3>2. CASE r # <<d, n>>
      BY <1>0, <1>2, <1>6, <2>2, <3>2
    <3> QED
      BY <3>1, <3>2
  <2>7. Jobs'
    <3>1. RunsOf(d)' = RunsOf(d)
      BY DEF RunsOf
    <3>2. ASSUME NEW x \in Executors, job'[x][d] # 0
          PROVE  <<d, job'[x][d]>> \in RunsOf(d) /\ run'[<<d, job'[x][d]>>].exec = x
      <4>1. CASE x = e
        BY <2>2, <2>4, <4>1
      <4>2. CASE x # e
        <5>1. job'[x][d] = job[x][d] /\ job[x][d] # 0
          BY <2>2, <3>2, <4>2
        <5>2. <<d, job[x][d]>> \in RunsOf(d) /\ run[<<d, job[x][d]>>].exec = x
          BY <1>0, <5>1
        <5>3. NoRun.exec = NoExec /\ x # NoExec
          BY DEF NoRun, Assumptions, QueueAssumption
        <5>4. <<d, job[x][d]>> # <<d, n>>
          BY <1>0, <2>2, <5>2, <5>3 DEF PlacedRun
        <5> QED
          BY <2>2, <5>1, <5>2, <5>4
      <4> QED
        BY <4>1, <4>2
    <3> QED
      BY <3>1, <3>2
  <2>8. proc'[row'[d].by] # "unborn"
    BY <1>6, <2>3
  <2> HIDE DEF Jobs
  <2> QED
    BY <1>3, <2>6, <2>7, <2>8
<1>7. ASSUME NEW e \in Executors, Renew(e) PROVE Placed(d)'
  <2>1. /\ UNCHANGED <<proc, job>>
        /\ \A r \in RunsOf(d) : run'[r] = run[r] \/ (r[2] = job[e][d] /\ job[e][d] # 0)
        /\ \A r \in RunsOf(d) : Mild(run[r], run'[r])
        /\ row'[d] = row[d] \/ (Owned(e, d) /\ row'[d] = [row[d] EXCEPT !.live = TRUE])
    BY <1>7, RenewSteps
  <2>2. \A r \in RunsOf(d) : PlacedRun(d, run'[r], r[2], proc', row'[d])
    <3> SUFFICES ASSUME NEW r \in RunsOf(d) PROVE PlacedRun(d, run'[r], r[2], proc', row'[d])
      OBVIOUS
    <3>1. PlacedRun(d, run[r], r[2], proc, row'[d])
      BY <1>0, <1>2
    <3>2. CASE run'[r] = run[r]
      BY <2>1, <3>1, <3>2
    <3>3. CASE r[2] = job[e][d] /\ job[e][d] # 0
      <4>1. run[r].exec = e
        BY <1>0, <3>3, RunTypes
      <4>2. NoRun.exec = NoExec /\ EndedRun.exec = NoExec /\ e # NoExec
        BY DEF NoRun, EndedRun, Assumptions, QueueAssumption
      <4>3. run[r].pc \notin {"idle", "ended"}
        BY <3>1, <4>1, <4>2 DEF PlacedRun
      <4> QED
        BY <2>1, <3>1, <4>3 DEF PlacedRun, Mild
    <3> QED
      BY <2>1, <3>2, <3>3
  <2>3. Jobs'
    BY <1>0, <2>1 DEF Mild, RunsOf
  <2>4. d \notin Running => d \notin Running'
    <3>1. \A z \in Row : [z EXCEPT !.live = TRUE].status = z.status
      BY DEF Row
    <3>2. row[d] \in Row
      BY RowType DEF SysInv
    <3> QED
      BY <2>1, <3>1, <3>2 DEF Running
  <2> HIDE DEF Jobs
  <2> QED
    BY <1>3, <1>4, <2>1, <2>2, <2>3, <2>4
<1>8. ASSUME NEW e \in Executors, Crash(e) PROVE Placed(d)'
  <2>1. /\ UNCHANGED row /\ proc' = [proc EXCEPT ![e] = "gone"]
        /\ run' = [r \in Runs |-> IF run[r].exec = e THEN EndedRun ELSE run[r]]
        /\ job' = [job EXCEPT ![e] = [x \in Deploys |-> 0]]
    BY <1>8 DEF Crash
  <2>2. EndedRun.pc = "ended" /\ EndedRun.onTarget = FALSE
    BY DEF EndedRun, NoRun
  <2>3. ASSUME NEW r \in RunsOf(d) PROVE PlacedRun(d, run'[r], r[2], proc', row'[d])
    <3>1. PlacedRun(d, run[r], r[2], proc, row'[d]) /\ r \in Runs /\ Fits(run[r], r[1])
      BY <1>0, <1>2, RunTypes, RunFits DEF SysInv
    <3>2. run'[r] = IF run[r].exec = e THEN EndedRun ELSE run[r]
      BY <2>1, <3>1
    <3>3. run[r].exec # e /\ run[r].exec \in Executors => proc'[run[r].exec] = proc[run[r].exec]
      BY <2>1 DEF ProcFits
    <3> QED
      BY <2>2, <3>1, <3>2, <3>3 DEF PlacedRun, Fits
  <2>4. Jobs'
    <3>1. ASSUME NEW x \in Executors PROVE job'[x][d] = IF x = e THEN 0 ELSE job[x][d]
      BY <2>1 DEF SysInv, JobsFit
    <3>2. ASSUME NEW x \in Executors, job'[x][d] # 0
          PROVE  <<d, job'[x][d]>> \in RunsOf(d) /\ run'[<<d, job'[x][d]>>].exec = x
      <4>1. x # e /\ job'[x][d] = job[x][d]
        BY <3>1, <3>2
      <4>2. <<d, job[x][d]>> \in RunsOf(d) /\ run[<<d, job[x][d]>>].exec = x
        BY <1>0, <3>2, <4>1
      <4> QED
        BY <2>1, <4>1, <4>2, RunTypes
    <3> QED
      BY <3>2 DEF RunsOf
  <2>5. d \in Running' => proc'[row'[d].by] # "unborn"
    BY <1>0, <2>1 DEF ProcFits, Running
  <2> HIDE DEF Jobs
  <2> QED
    BY <1>3, <2>3, <2>4, <2>5
<1>9. ASSUME NEW e \in Executors, Boot(e) PROVE Placed(d)'
  <2>1. UNCHANGED row /\ UNCHANGED run /\ UNCHANGED job /\ proc' = [proc EXCEPT ![e] = "up"]
    BY <1>9 DEF Boot
  <2>2. ASSUME NEW r \in RunsOf(d) PROVE PlacedRun(d, run'[r], r[2], proc', row'[d])
    <3>1. PlacedRun(d, run[r], r[2], proc, row'[d]) /\ r \in Runs /\ Fits(run[r], r[1])
      BY <1>0, <1>2, RunTypes, RunFits DEF SysInv
    <3>2. run[r].exec \in Executors /\ proc[run[r].exec] = "up" => proc'[run[r].exec] = "up"
      BY <2>1 DEF ProcFits
    <3> QED
      BY <2>1, <3>1, <3>2 DEF PlacedRun, Fits
  <2>3. Jobs'
    BY <1>0, <2>1 DEF RunsOf
  <2>4. d \in Running' => proc'[row'[d].by] # "unborn"
    BY <1>0, <2>1 DEF ProcFits, Running
  <2> HIDE DEF Jobs
  <2> QED
    BY <1>3, <2>2, <2>3, <2>4
<1>10. ASSUME NEW e \in Executors, NEW s \in Scopes, StartRollback(e, d, s) PROVE Placed(d)'
  <2>1. /\ proc[e] = "up" /\ row[d].status = "absent" /\ UNCHANGED proc /\ UNCHANGED job
        /\ Set(<<d, 1>>, NewRun(e, "rolling", FALSE))
        /\ Write(d, [NewRow(s, "rollback") EXCEPT !.status = "running", !.by = e, !.live = TRUE])
    BY <1>10 DEF StartRollback, InsertRollback
  <2>2. row'[d].by = e /\ row'[d].kind = "rollback" /\ row'[d].status = "running"
    BY <2>1 DEF Write, SysInv, TypeOK, NewRow, NoRow
  <2>3. \A r \in RunsOf(d) : r \in Runs /\ run[r] \in {NoRun, EndedRun} /\ (r = <<d, 1>> => r[2] = 1)
    BY <2>1, AbsentIdle, RunTypes DEF Live, Placed
  <2>4. \A r \in RunsOf(d) : run'[r] = IF r = <<d, 1>> THEN NewRun(e, "rolling", FALSE) ELSE run[r]
    BY <2>1, <2>3 DEF Set, SysInv, RunsFit
  <2>5. \A r \in RunsOf(d) : PlacedRun(d, run'[r], r[2], proc', row'[d])
    <3>1. PlacedRun(d, NewRun(e, "rolling", FALSE), 1, proc', row'[d])
      BY <2>1, <2>2 DEF PlacedRun, NewRun, NoRun
    <3>2. \A x \in {NoRun, EndedRun} : \A n : PlacedRun(d, x, n, proc', row'[d])
      <4>1. NoRun.pc = "idle" /\ NoRun.onTarget = FALSE /\ EndedRun.pc = "ended" /\ EndedRun.onTarget = FALSE
        BY DEF NoRun, EndedRun
      <4> QED
        BY <4>1 DEF PlacedRun
    <3> SUFFICES ASSUME NEW r \in RunsOf(d) PROVE PlacedRun(d, run'[r], r[2], proc', row'[d])
      OBVIOUS
    <3>3. CASE r = <<d, 1>>
      <4>1. r[2] = 1 /\ run'[r] = NewRun(e, "rolling", FALSE)
        BY <2>3, <2>4, <3>3
      <4> QED
        BY <3>1, <4>1
    <3>4. CASE r # <<d, 1>>
      <4>1. run'[r] \in {NoRun, EndedRun}
        BY <2>3, <2>4, <3>4
      <4> QED
        BY <3>2, <4>1, Zenon
    <3> QED
      BY <3>3, <3>4
  <2>6. Jobs'
    BY <2>1, AbsentIdle
  <2>7. proc'[row'[d].by] # "unborn"
    BY <2>1, <2>2
  <2> HIDE DEF Jobs
  <2> QED
    BY <1>3, <2>5, <2>6, <2>7
<1>11. ASSUME NEW r \in RunsOf(d), GoesOn(r) PROVE Placed(d)'
  <2>0. /\ \A q \in RunsOf(d) \ {r} : run'[q] = run[q]
        /\ UNCHANGED proc /\ Live(r) /\ r \in Runs /\ r = <<d, r[2]>>
    BY <1>11, OtherRunsStay, RunTypes DEF GoesOn
  <2>1. PlacedRun(d, run[r], r[2], proc, row'[d]) /\ \A q \in RunsOf(d) : PlacedRun(d, run[q], q[2], proc, row'[d])
    BY <1>0, <1>2
  <2>2. d \notin Running => d \notin Running'
    BY <1>11, StartsNothing
  <2>3. CASE (Proceeds(run[r], run'[r]) \/ Mild(run[r], run'[r])) /\ UNCHANGED job
    <3>1. PlacedRun(d, run'[r], r[2], proc', row'[d]) /\ run'[r].exec = run[r].exec
      BY <2>0, <2>1, <2>3 DEF PlacedRun, Proceeds, Mild, Live
    <3>2. \A q \in RunsOf(d) : PlacedRun(d, run'[q], q[2], proc', row'[d])
      BY <2>0, <2>1, <3>1
    <3>3. Jobs'
      <4>1. \A q \in RunsOf(d) : run'[q].exec = run[q].exec
        BY <2>0, <3>1
      <4> QED
        BY <1>0, <2>3, <4>1 DEF RunsOf
    <3> HIDE DEF Jobs
    <3> QED
      BY <1>3, <1>4, <2>0, <2>2, <3>2, <3>3
  <2>4. EndedRun.pc = "ended" /\ EndedRun.onTarget = FALSE
    BY DEF EndedRun, NoRun
  <2>5. ASSUME run'[r] = EndedRun PROVE \A q \in RunsOf(d) : PlacedRun(d, run'[q], q[2], proc', row'[d])
    BY <2>0, <2>1, <2>4, <2>5 DEF PlacedRun
  <2>6. CASE run'[r] = EndedRun /\ job' = [job EXCEPT ![run[r].exec][d] = 0] /\ run[r].exec \in Executors
    <3>1. ASSUME NEW x \in Executors PROVE job'[x][d] = IF x = run[r].exec THEN 0 ELSE job[x][d]
      BY <2>6 DEF SysInv, JobsFit
    <3>2. ASSUME NEW x \in Executors, job'[x][d] # 0
          PROVE  <<d, job'[x][d]>> \in RunsOf(d) /\ run'[<<d, job'[x][d]>>].exec = x
      <4>1. x # run[r].exec /\ job'[x][d] = job[x][d]
        BY <3>1, <3>2
      <4>2. <<d, job[x][d]>> \in RunsOf(d) /\ run[<<d, job[x][d]>>].exec = x
        BY <1>0, <3>2, <4>1
      <4> QED
        BY <2>0, <4>1, <4>2
    <3>3. Jobs'
      BY <3>2 DEF RunsOf
    <3> HIDE DEF Jobs
    <3> QED
      BY <1>3, <1>4, <2>0, <2>2, <2>5, <2>6, <3>3
  <2>7. CASE run'[r] = EndedRun /\ run[r].pc = "rolling" /\ UNCHANGED job
    <3>1. \A x \in Executors : job[x][d] = 0
      <4>1. row[d].kind = "rollback"
        BY <1>0, <2>7 DEF PlacedRun
      <4> QED
        BY <4>1 DEF SysInv, JobsFit, Worked
    <3>2. Jobs'
      BY <2>7, <3>1
    <3> HIDE DEF Jobs
    <3> QED
      BY <1>3, <1>4, <2>0, <2>2, <2>5, <2>7, <3>2
  <2>8. run[r].exec \in Executors
    BY <2>0, RunFits DEF SysInv, Fits, Live
  <2> QED
    BY <1>11, <2>3, <2>6, <2>7, <2>8, GoesOnKeeps
<1>12. CASE SweepAct(d) \/ Lapse(d)
  <2>1. UNCHANGED executorVars
    BY <1>12, Zenon DEF Lapse, SweepAct
  <2>2. RunsStay(d) /\ UNCHANGED proc
    BY <2>1, SameRunsStay DEF executorVars
  <2>3. d \notin Running => d \notin Running'
    BY <1>12, StartsNothing
  <2> QED
    BY <1>0, <1>2, <1>3, <1>4, <2>2, <2>3 DEF RunsStay
<1> QED
  BY <1>5, <1>6, <1>7, <1>8, <1>9, <1>10, <1>11, <1>12, StepFor, Zenon DEF StepOf

-------------------------------------------------------------------------------
(* The lease a run works under.                                            *)

\* The lease of d lapses while its owner's process is up.
LosesLease(d) ==
  /\ d \in Running /\ row[d].live /\ proc[row[d].by] = "up"
  /\ d \in Running' /\ ~row'[d].live

\* Live executors keep their leases.
LeasesKept == \A d \in Deploys : ~LosesLease(d)

\* A run x that still works for a deploy, or rolls one back, has its row a.
Has(x, a) == a.status = "running" /\ a.by = x.exec /\ a.live

HoldsRun(x, a) ==
  /\ x.pc \notin {"idle", "ended", "rolling", "finishing", "won"}
       => Has(x, a) /\ x.abort # "lost" /\ x.pc # "leaving"
  /\ x.pc = "rolling" => Has(x, a)

HoldsRow(d) ==
  /\ \A r \in RunsOf(d) : HoldsRun(run[r], row[d])
  /\ \A p, q \in RunsOf(d) : Works(p) /\ Works(q) => p = q

\* The runs but r leave the row.
OthersDone(d, r) == \A q \in RunsOf(d) \ {r} : ~Works(q) /\ run[q].pc # "rolling"

LEMMA WorksAlone ==
  ASSUME SysInv, NEW d \in Deploys, Placed(d), HoldsRow(d), NEW r \in RunsOf(d),
         Works(r) \/ run[r].pc = "rolling"
  PROVE  OthersDone(d, r)
<1>1. CASE Works(r)
  <2>1. row[d].kind # "rollback"
    BY <1>1, WorksWorked
  <2> QED
    BY <1>1, <2>1 DEF OthersDone, HoldsRow, Placed
<1>2. CASE run[r].pc = "rolling"
  <2>1. row[d].kind = "rollback" /\ r[2] = 1
    BY <1>2 DEF Placed
  <2>2. \A q \in RunsOf(d) : ~Works(q)
    BY <2>1, WorksWorked
  <2>3. \A q \in RunsOf(d) : run[q].pc = "rolling" => q = r
    BY <2>1, RunTypes DEF Placed
  <2> QED
    BY <2>2, <2>3 DEF OthersDone
<1> QED
  BY <1>1, <1>2

\* When the other runs are done, only run r matters.
LEMMA HoldsFromOne ==
  ASSUME NEW d \in Deploys, NEW r \in RunsOf(d), OthersDone(d, r),
         \A q \in RunsOf(d) \ {r} : run'[q] = run[q],
         HoldsRun(run'[r], row'[d])
  PROVE  HoldsRow(d)'
<1>1. RunsOf(d)' = RunsOf(d)
  BY DEF RunsOf
<1>2. \A q \in RunsOf(d) \ {r} : HoldsRun(run'[q], row'[d]) /\ ~Works(q)'
  BY DEF OthersDone, HoldsRun, Works
<1> QED
  BY <1>1, <1>2 DEF HoldsRow

\* A row that stays put keeps its runs.
LEMMA HoldsStill ==
  ASSUME NEW d \in Deploys, HoldsRow(d), Still(row[d], row'[d]) \/ row[d].status # "running",
         \A q \in RunsOf(d) : \/ run'[q] = run[q]
                              \/ run'[q].pc \in {"idle", "ended"}
                              \/ Mild(run[q], run'[q]) /\ (run[q].exec = row[d].by /\ row[d].status = "running"
                                                            => (run'[q].abort = "lost" => run[q].abort = "lost"))
  PROVE  HoldsRow(d)'
<1>1. RunsOf(d)' = RunsOf(d)
  BY DEF RunsOf
<1>2. \A q \in RunsOf(d) : HoldsRun(run'[q], row'[d]) /\ (Works(q)' => Works(q))
  BY DEF HoldsRow, HoldsRun, Has, Still, Mild, Works
<1> QED
  BY <1>1, <1>2 DEF HoldsRow

\* A run that holds its row goes on with it or is done with it.
LEMMA WorkHolds ==
  ASSUME NEW d, NEW x \in Run, NEW y, NEW a, NEW b, WorkStep(d, x, y, a, b),
         HoldsRun(x, a), x.pc \notin {"idle", "ended", "rolling", "finishing", "won"}
  PROVE  HoldsRun(y, b)
<1>1. y.exec = x.exec /\ y.abort = x.abort /\ y.pc \notin {"leaving", "rolling"}
  BY DEF WorkStep, HoldsRun, Run
<1>2. Still(a, b) \/ y.pc \in {"finishing", "won"}
  BY DEF WorkStep, Same, Run
<1>3. a.status = "running" /\ a.by = x.exec /\ a.live /\ x.abort # "lost"
  BY DEF HoldsRun, Has
<1> QED
  BY <1>1, <1>2, <1>3 DEF HoldsRun, Has, Still

LEMMA HoldsStep ==
  ASSUME Assumptions, SysInv, [SysNext]_vars, NEW d \in Deploys, Placed(d), HoldsRow(d), ~LosesLease(d)
  PROVE  HoldsRow(d)'
<1>0. row[d] \in Row /\ row \in [Deploys -> Row] /\ \A r \in RunsOf(d) : r \in Runs /\ r[1] = d /\ run[r] \in Run
  BY RowType, RunTypes, RunFits DEF SysInv, TypeOK
<1>1. CASE Aside(d) /\ RunsStay(d) /\ UNCHANGED proc
  <2>1. Still(row[d], row'[d]) \/ row[d].status # "running"
    BY <1>1 DEF Aside, Life, Still
  <2> QED
    BY <1>1, <2>1, HoldsStill, Zenon DEF RunsStay
<1>2. ASSUME NEW e \in Executors, ClaimsIt(e, d) PROVE HoldsRow(d)'
  <2> DEFINE Claims(n, t) ==
           LET r == <<d, n>> IN
           /\ n # 0 /\ r \in RunsOf(d) /\ run[r].pc = "idle"
           /\ t => TargetSlots > 0 /\ ~IsSelf(d)
           /\ run'[r] = NewRun(e, "starting", t)
           /\ \A q \in RunsOf(d) \ {r} : run'[q] = run[q]
           /\ \A x \in Executors : job'[x][d] = IF x = e THEN n ELSE job[x][d]
  <2>1. PICK n \in 1 .. MaxClaims : \E t \in BOOLEAN : Claims(n, t)
    BY <1>2, ClaimOf, Zenon
  <2>2. PICK t \in BOOLEAN : Claims(n, t)
    BY <2>1, Zenon
  <2> DEFINE r == <<d, n>>
  <2>3. /\ run'[r] = NewRun(e, "starting", t)
        /\ r \in RunsOf(d) /\ \A q \in RunsOf(d) \ {r} : run'[q] = run[q]
    BY <2>2
  <2>4. row[d].status = "queued" /\ row'[d].status = "running" /\ row'[d].by = e /\ row'[d].live
    <3>1. \A z \in Row : \A slot \in {"none", "target"} :
            Has(NewRun(e, "starting", t), [z EXCEPT !.status = "running", !.by = e, !.live = TRUE, !.stage = "none",
                 !.bumped = 0, !.claimSlot = slot, !.waiting = 0])
      BY DEF Row, Has, NewRun, NoRun
    <3>2. Has(NewRun(e, "starting", t), row'[d]) /\ row[d].status = "queued"
      <4>1. PICK slot \in {"none", "target"} : row'[d] = Claimed(d, e, slot)
        BY <1>2, Zenon DEF ClaimsIt
      <4>2. Has(NewRun(e, "starting", t), Claimed(d, e, slot))
        BY <1>0, <3>1, Zenon DEF Claimed
      <4> QED
        BY <1>2, <4>1, <4>2 DEF ClaimsIt
    <3>3. NewRun(e, "starting", t).exec = e
      BY DEF NewRun, NoRun
    <3> QED
      BY <3>2, <3>3 DEF Has
  <2>5. OthersDone(d, r)
    BY <2>4 DEF OthersDone, HoldsRow, HoldsRun, Has, Works
  <2>6. HoldsRun(run'[r], row'[d])
    BY <2>3, <2>4 DEF HoldsRun, Has, NewRun, NoRun
  <2> HIDE DEF r
  <2> QED
    BY <2>3, <2>5, <2>6, HoldsFromOne
<1>3. ASSUME NEW e \in Executors, Renew(e) PROVE HoldsRow(d)'
  <2>1. /\ \A q \in RunsOf(d) : run'[q] = run[q] \/ (q[2] = job[e][d] /\ job[e][d] # 0)
        /\ \A q \in RunsOf(d) : /\ Mild(run[q], run'[q])
                                /\ Owned(e, d) => (run'[q].abort = "lost" => run[q].abort = "lost")
        /\ row'[d] = row[d] \/ row'[d] = [row[d] EXCEPT !.live = TRUE]
    BY <1>3, RenewSteps
  <2>2. \A q \in RunsOf(d) : q[2] = job[e][d] /\ job[e][d] # 0 => run[q].exec = e
    BY RunTypes DEF Placed
  <2>3. CASE row'[d] = row[d]
    <3>1. Still(row[d], row'[d])
      BY <2>3 DEF Still
    <3> QED
      BY <2>1, <2>2, <3>1, HoldsStill DEF Owned
  <2>4. CASE row'[d] = [row[d] EXCEPT !.live = TRUE] /\ ~row[d].live
    <3>1. \A q \in RunsOf(d) : ~Works(q) /\ run[q].pc # "rolling"
      BY <2>4 DEF HoldsRow, HoldsRun, Has, Works
    <3>2. \A q \in RunsOf(d) : ~Works(q)' /\ run'[q].pc # "rolling"
      BY <2>1, <3>1 DEF Mild, Works
    <3> QED
      BY <3>2 DEF HoldsRow, HoldsRun, Works, RunsOf
  <2>5. row[d].live /\ row'[d] = [row[d] EXCEPT !.live = TRUE] => row'[d] = row[d]
    <3>1. \A z \in Row : z.live => [z EXCEPT !.live = TRUE] = z
      BY DEF Row
    <3> QED
      BY <1>0, <3>1
  <2> QED
    BY <2>1, <2>3, <2>4, <2>5
<1>4. ASSUME NEW e \in Executors, Crash(e) PROVE HoldsRow(d)'
  <2>1. UNCHANGED row /\ \A q \in RunsOf(d) : run'[q] = run[q] \/ run'[q] = EndedRun
    BY <1>0, <1>4 DEF Crash
  <2>2. EndedRun.pc = "ended" /\ Still(row[d], row'[d])
    BY <2>1 DEF EndedRun, NoRun, Still
  <2> QED
    BY <2>1, <2>2, HoldsStill
<1>5. ASSUME NEW e \in Executors, Boot(e) PROVE HoldsRow(d)'
  BY <1>5, HoldsStill DEF Boot, Still
<1>6. ASSUME NEW e \in Executors, NEW s \in Scopes, StartRollback(e, d, s) PROVE HoldsRow(d)'
  <2>1. /\ row[d].status = "absent"
        /\ Set(<<d, 1>>, NewRun(e, "rolling", FALSE))
        /\ Write(d, [NewRow(s, "rollback") EXCEPT !.status = "running", !.by = e, !.live = TRUE])
    BY <1>6 DEF StartRollback, InsertRollback
  <2>2. row'[d].by = e /\ row'[d].live /\ row'[d].status = "running"
    BY <1>0, <2>1 DEF Write, NewRow, NoRow
  <2>3. <<d, 1>> \in RunsOf(d) /\ <<d, 1>> \in Runs
    BY DEF RunsOf, Runs, Assumptions, ExecutorAssumption
  <2>4. OthersDone(d, <<d, 1>>)
    BY <2>1, AbsentIdle DEF OthersDone
  <2>5. run'[<<d, 1>>] = NewRun(e, "rolling", FALSE) /\ \A q \in RunsOf(d) \ {<<d, 1>>} : run'[q] = run[q]
    BY <1>0, <2>1, <2>3 DEF Set, SysInv, RunsFit
  <2>6. HoldsRun(run'[<<d, 1>>], row'[d])
    BY <2>2, <2>5 DEF HoldsRun, Has, NewRun, NoRun
  <2> QED
    BY <2>3, <2>4, <2>5, <2>6, HoldsFromOne
<1>7. ASSUME NEW r \in RunsOf(d), GoesOn(r) PROVE HoldsRow(d)'
  <2>0. /\ \A q \in RunsOf(d) \ {r} : run'[q] = run[q]
        /\ HoldsRun(run[r], row[d])
    BY <1>7, OtherRunsStay DEF HoldsRow
  <2>1. CASE Works(r) /\ RunStep(r)
    <3>1. WorkStep(d, run[r], run'[r], row[d], row'[d])
      BY <1>0, <2>0, <2>1, WorkSteps DEF HoldsRun, Has, Works, Owned, Placed
    <3>2. HoldsRun(run'[r], row'[d])
      BY <1>0, <2>0, <2>1, <3>1, WorkHolds DEF Works
    <3> QED
      BY <2>0, <2>1, <3>2, WorksAlone, HoldsFromOne
  <2>2. CASE LandMark(r) \/ ActOnAnswer(r)
    <3>1. /\ Mild(run[r], run'[r]) /\ Still(row[d], row'[d])
          /\ Owned(run[r].exec, d) => (run'[r].abort = "lost" => run[r].abort = "lost")
      BY <2>2, LateSteps
    <3> QED
      BY <2>0, <3>1, HoldsStill DEF Owned
  <2>3. CASE ~Works(r) /\ RunStep(r)
    <3>1. Close(r)
      <4>1. run[r].pc \in {"idle", "ended", "rolling", "finishing", "won"}
        BY <2>3 DEF Works
      <4> QED
        BY <2>3, <4>1 DEF RunStep, Only, Start, TakeLocal, AwaitLocal, EndWait, NeedLocal, Requeue, Build, Hold,
         WaitAlone, Fence, BeginSwap, StartSlot, CheckOpen, Commit, Throw, Settle, Leave
    <3>2. run'[r].pc = "ended"
      BY <1>0, <3>1 DEF Close, Set, SysInv, RunsFit, EndedRun, NoRun
    <3>3. Still(row[d], row'[d])
      <4>1. \A z \in Row : Still(z, z) /\ Still(z, [z EXCEPT !.hold = "off"])
        BY DEF Row, Still
      <4>2. UNCHANGED row \/ Write(d, [row[d] EXCEPT !.hold = "off"])
        BY <1>0, <3>1 DEF Close, ReleaseExclusive
      <4>3. row'[d] = row[d] \/ row'[d] = [row[d] EXCEPT !.hold = "off"]
        BY <1>0, <4>2 DEF Write
      <4> QED
        BY <1>0, <4>1, <4>3
    <3> QED
      BY <2>0, <3>2, <3>3, HoldsStill
  <2>4. CASE EndRollback(r)
    <3>1. run[r].pc = "rolling" /\ run'[r].pc = "ended"
      BY <1>0, <2>4 DEF EndRollback, Only, Set, SysInv, RunsFit, EndedRun, NoRun
    <3>2. OthersDone(d, r)
      BY <3>1, WorksAlone
    <3> QED
      BY <2>0, <3>1, <3>2, HoldsFromOne DEF HoldsRun
  <2> QED
    BY <1>7, <2>1, <2>2, <2>3, <2>4 DEF GoesOn
<1>8. CASE SweepAct(d) \/ Lapse(d)
  <2>1. UNCHANGED executorVars
    BY <1>8, Zenon DEF Lapse, SweepAct
  <2>2. \A q \in RunsOf(d) : run'[q] = run[q]
    BY <2>1 DEF executorVars
  <2>3. ASSUME NEW q \in RunsOf(d), Works(q) \/ run[q].pc = "rolling" PROVE UNCHANGED row
    <3>1. Has(run[q], row[d]) /\ proc[run[q].exec] = "up"
      BY <2>3 DEF HoldsRow, HoldsRun, Works, Placed, Live
    <3>2. CASE SweepAct(d)
      BY <3>1, <3>2 DEF SweepAct, SweepRequeue, FailDeadDeploy, Expired, Has
    <3>3. CASE Lapse(d)
      <4>1. row'[d] = [row[d] EXCEPT !.live = FALSE]
        BY <1>0, <3>3 DEF Lapse, LapseLease, Write
      <4>2. \A z \in Row : [z EXCEPT !.live = FALSE].live = FALSE /\ [z EXCEPT !.live = FALSE].status = z.status
        BY DEF Row
      <4>3. row'[d].live = FALSE /\ row'[d].status = "running"
        BY <1>0, <3>1, <4>1, <4>2 DEF Has
      <4> QED
        BY <3>1, <4>3 DEF LosesLease, Running, Has
    <3> QED
      BY <1>8, <3>2, <3>3
  <2>4. CASE UNCHANGED row
    BY <2>2, <2>4, HoldsStill DEF Still
  <2>5. CASE \A q \in RunsOf(d) : ~Works(q) /\ run[q].pc # "rolling"
    BY <2>2, <2>5 DEF HoldsRow, HoldsRun, Works, RunsOf
  <2> QED
    BY <2>3, <2>4, <2>5
<1> QED
  BY <1>1, <1>2, <1>3, <1>4, <1>5, <1>6, <1>7, <1>8, StepFor, Zenon DEF StepOf

-------------------------------------------------------------------------------
(* A run whose row is closed knows, or will.                               *)

\* Deploys whose claims no run gives back.
Steady(d) == IsSelf(d) \/ TargetSlots = 0

ClosesRun(x, n, a, j) ==
  /\ x.pc \notin {"idle", "ended", "rolling", "finishing", "won"} => j[x.exec] = n
  /\ x.pc = "finishing" => a.status \in {"failed", "cancelled", "superseded"}
  /\ x.pc = "won" => a.status \in {"success", "rolled_back"}

\* The jobs of d in each process.
JobsOf(d) == [e \in Executors |-> job[e][d]]

\* Runs stay known until their deploy has ended, and what runs has a run.
Closes(d) ==
  /\ \A r \in RunsOf(d) : ClosesRun(run[r], r[2], row[d], JobsOf(d))
  /\ d \in Running /\ proc[row[d].by] = "up"
       => \E r \in RunsOf(d) : (Works(r) \/ run[r].pc = "rolling") /\ run[r].exec = row[d].by

\* A deploy that ended stays so.
LEMMA EndedStays ==
  ASSUME Assumptions, SysInv, [SysNext]_vars, NEW d \in Deploys, Worked(d)
  PROVE  /\ row[d].status \in {"failed", "cancelled", "superseded"}
              => row'[d].status \in {"failed", "cancelled", "superseded"}
         /\ row[d].status \in {"success", "rolled_back"} => row'[d].status \in {"success", "rolled_back"}
<1>1. RowStep(row[d], row'[d])
  <2>1. [Next]_row
    BY SystemStepIsNext DEF SysInv, Assumptions
  <2> QED
    BY <2>1, NextStep DEF SysInv, Assumptions, RowsStep
<1> QED
  BY <1>1 DEF RowStep, QuietStep, Asked, Inserted, Keeps, Stays, Starts, Returns, Ends, Outcomes, Worked

LEMMA AbsentHolds ==
  ASSUME SysInv, NEW d \in Deploys, Placed(d), row[d].status = "absent"
  PROVE  HoldsRow(d) /\ Closes(d)
<1>1. \A r \in RunsOf(d) : run[r].pc \in {"idle", "ended"}
  BY AbsentIdle DEF Live
<1>2. HoldsRow(d)
  BY <1>1 DEF HoldsRow, HoldsRun, Works
<1>3. Closes(d)
  BY <1>1 DEF Closes, ClosesRun, Running
<1> QED
  BY <1>2, <1>3

\* Runs that neither work nor end, of a deploy that does not run.
LEMMA ClosesQuiet ==
  ASSUME NEW d \in Deploys, \A r \in RunsOf(d) : run'[r].pc \in {"idle", "ended"}, d \notin Running'
  PROVE  Closes(d)'
BY DEF Closes, ClosesRun, RunsOf

\* A run on this server goes on with its row, or leaves it closed.
LEMMA WorkCloses ==
  ASSUME NEW d, NEW x \in Run, NEW y, NEW a, NEW b, WorkStep(d, x, y, a, b),
         HoldsRun(x, a), x.pc \notin {"idle", "ended", "rolling", "finishing", "won"}, ~x.onTarget
  PROVE  \/ /\ y.pc \notin {"idle", "ended", "rolling", "finishing", "won"}
            /\ y.exec = x.exec /\ b.by = a.by
         \/ /\ y.pc = "finishing"
            /\ b.status \in {"failed", "cancelled", "superseded"}
         \/ y.pc = "won" /\ b.status = "success"
BY DEF WorkStep, Same, Still, Run, HoldsRun

LEMMA ClosesStep ==
  ASSUME Assumptions, SysInv, [SysNext]_vars, ProcFits, NEW d \in Deploys, Placed(d), HoldsRow(d),
         Closes(d), Steady(d) \/ row[d].status = "absent"
  PROVE  Closes(d)'
<1>0. /\ row[d] \in Row /\ row \in [Deploys -> Row] /\ run \in [Runs -> Run]
      /\ \A r \in RunsOf(d) : r \in Runs /\ r[1] = d /\ run[r] \in Run /\ Fits(run[r], d)
      /\ RunsOf(d)' = RunsOf(d)
  BY RowType, RunTypes, RunFits DEF SysInv, TypeOK, RunsFit, RunsOf
<1>1. ASSUME JobsOf(d)' = JobsOf(d), UNCHANGED proc,
             d \in Running' => d \in Running /\ row'[d].by = row[d].by,
             \A r \in RunsOf(d) : run'[r].pc = run[r].pc /\ run'[r].exec = run[r].exec
      PROVE  Closes(d)'
  <2>1. ASSUME NEW r \in RunsOf(d) PROVE ClosesRun(run'[r], r[2], row'[d], JobsOf(d)')
    <3>1. run[r].pc \in {"finishing", "won"} => Worked(d)
      BY <1>0 DEF Fits
    <3>2. ClosesRun(run[r], r[2], row[d], JobsOf(d))
      BY DEF Closes
    <3> QED
      BY <1>1, <3>1, <3>2, EndedStays DEF ClosesRun
  <2>2. ASSUME d \in Running', proc'[row'[d].by] = "up"
        PROVE  \E r \in RunsOf(d) : (Works(r)' \/ run'[r].pc = "rolling") /\ run'[r].exec = row'[d].by
    <3>1. PICK r \in RunsOf(d) : (Works(r) \/ run[r].pc = "rolling") /\ run[r].exec = row[d].by
      BY <1>1, <2>2 DEF Closes
    <3> QED
      BY <1>1, <2>2, <3>1 DEF Works
  <2> QED
    BY <1>0, <2>1, <2>2, Zenon DEF Closes
<1>2. CASE Aside(d) /\ RunsStay(d) /\ UNCHANGED proc
  <2>1. d \in Running' => d \in Running /\ row'[d].by = row[d].by
    BY <1>2 DEF Aside, Life, Running
  <2>2. JobsOf(d)' = JobsOf(d)
    BY <1>2 DEF RunsStay, JobsOf
  <2> QED
    BY <1>1, <1>2, <2>1, <2>2 DEF RunsStay
<1>3. ASSUME NEW e \in Executors, ClaimsIt(e, d) PROVE Closes(d)'
  <2> DEFINE Claims(n, t) ==
           LET r == <<d, n>> IN
           /\ n # 0 /\ r \in RunsOf(d) /\ run[r].pc = "idle"
           /\ t => TargetSlots > 0 /\ ~IsSelf(d)
           /\ run'[r] = NewRun(e, "starting", t)
           /\ \A q \in RunsOf(d) \ {r} : run'[q] = run[q]
           /\ \A x \in Executors : job'[x][d] = IF x = e THEN n ELSE job[x][d]
  <2>1. PICK n \in 1 .. MaxClaims : \E t \in BOOLEAN : Claims(n, t)
    BY <1>3, ClaimOf, Zenon
  <2>2. PICK t \in BOOLEAN : Claims(n, t)
    BY <2>1, Zenon
  <2> DEFINE r == <<d, n>>
  <2>3. /\ run'[r] = NewRun(e, "starting", t) /\ r[2] = n
        /\ r \in RunsOf(d) /\ \A q \in RunsOf(d) \ {r} : run'[q] = run[q]
        /\ job'[e][d] = n
    BY <2>2
  <2>4. row[d].status = "queued" /\ row'[d].by = e
    <3>1. \A z \in Row : \A slot \in {"none", "target"} :
            [z EXCEPT !.status = "running", !.by = e, !.live = TRUE, !.stage = "none",
                 !.bumped = 0, !.claimSlot = slot, !.waiting = 0].by = e
      BY DEF Row
    <3>2. PICK slot \in {"none", "target"} : row'[d] = Claimed(d, e, slot)
      BY <1>3, Zenon DEF ClaimsIt
    <3> QED
      BY <1>0, <1>3, <3>1, <3>2 DEF ClaimsIt, Claimed
  <2>5. \A q \in RunsOf(d) : run[q].pc \in {"idle", "ended"}
    BY <2>4 DEF Closes, ClosesRun, HoldsRow, HoldsRun, Has
  <2>6. run'[r].pc = "starting" /\ run'[r].exec = e
    BY <2>3 DEF NewRun, NoRun
  <2> HIDE DEF Claims, r
  <2>7. \A q \in RunsOf(d) : ClosesRun(run'[q], q[2], row'[d], JobsOf(d)')
    BY <2>3, <2>5, <2>6 DEF ClosesRun, JobsOf
  <2>8. Works(r)' /\ run'[r].exec = row'[d].by
    BY <2>4, <2>6 DEF Works
  <2> QED
    BY <1>0, <2>3, <2>7, <2>8, Zenon DEF Closes
<1>4. ASSUME NEW e \in Executors, Renew(e) PROVE Closes(d)'
  <2>1. /\ UNCHANGED <<proc, job>>
        /\ \A q \in RunsOf(d) : Mild(run[q], run'[q])
        /\ row'[d] = row[d] \/ row'[d] = [row[d] EXCEPT !.live = TRUE]
    BY <1>4, RenewSteps
  <2>2. row'[d].status = row[d].status /\ row'[d].by = row[d].by
    <3>1. \A z \in Row : [z EXCEPT !.live = TRUE].status = z.status /\ [z EXCEPT !.live = TRUE].by = z.by
      BY DEF Row
    <3> QED
      BY <1>0, <2>1, <3>1
  <2> QED
    BY <1>1, <2>1, <2>2 DEF Mild, JobsOf, Running
<1>5. ASSUME NEW e \in Executors, Crash(e) PROVE Closes(d)'
  <2>1. /\ UNCHANGED row /\ \A q \in RunsOf(d) : run'[q] = IF run[q].exec = e THEN EndedRun ELSE run[q]
        /\ proc' = [proc EXCEPT ![e] = "gone"]
        /\ job' = [job EXCEPT ![e] = [x \in Deploys |-> 0]]
    BY <1>0, <1>5 DEF Crash
  <2>2. \A x \in Executors : x # e => JobsOf(d)'[x] = JobsOf(d)[x] /\ proc'[x] = proc[x]
    BY <2>1 DEF JobsOf, SysInv, JobsFit, ProcFits
  <2>3. EndedRun.pc = "ended"
    BY DEF EndedRun, NoRun
  <2>4. ASSUME NEW r \in RunsOf(d) PROVE ClosesRun(run'[r], r[2], row'[d], JobsOf(d)')
    <3>1. ClosesRun(run[r], r[2], row[d], JobsOf(d)) /\ Fits(run[r], d)
      BY <1>0 DEF Closes
    <3> QED
      BY <2>1, <2>2, <2>3, <3>1 DEF ClosesRun, Fits
  <2>5. ASSUME d \in Running', proc'[row'[d].by] = "up"
        PROVE  \E r \in RunsOf(d) : (Works(r)' \/ run'[r].pc = "rolling") /\ run'[r].exec = row'[d].by
    <3>1. row[d].by # e
      BY <2>1, <2>5 DEF ProcFits
    <3>2. proc[row[d].by] = "up"
      BY <2>1, <2>5, <3>1 DEF ProcFits
    <3>3. PICK r \in RunsOf(d) : (Works(r) \/ run[r].pc = "rolling") /\ run[r].exec = row[d].by
      BY <2>1, <2>5, <3>2 DEF Closes, Running
    <3> QED
      BY <2>1, <3>1, <3>3 DEF Works
  <2> QED
    BY <1>0, <2>4, <2>5, Zenon DEF Closes
<1>6. ASSUME NEW e \in Executors, Boot(e) PROVE Closes(d)'
  <2>1. UNCHANGED row /\ UNCHANGED run /\ UNCHANGED job /\ proc[e] = "unborn" /\ proc' = [proc EXCEPT ![e] = "up"]
    BY <1>6 DEF Boot
  <2>2. d \in Running => proc'[row[d].by] = proc[row[d].by]
    BY <2>1 DEF Placed, ProcFits
  <2> QED
    BY <1>0, <2>1, <2>2, Zenon DEF Closes, Running, Works, JobsOf
<1>7. ASSUME NEW e \in Executors, NEW s \in Scopes, StartRollback(e, d, s) PROVE Closes(d)'
  <2>1. /\ row[d].status = "absent"
        /\ Set(<<d, 1>>, NewRun(e, "rolling", FALSE))
        /\ Write(d, [NewRow(s, "rollback") EXCEPT !.status = "running", !.by = e, !.live = TRUE])
    BY <1>7 DEF StartRollback, InsertRollback
  <2>2. row'[d].by = e
    BY <1>0, <2>1 DEF Write, NewRow, NoRow
  <2>3. <<d, 1>> \in RunsOf(d) /\ <<d, 1>> \in Runs
    BY DEF RunsOf, Runs, Assumptions, ExecutorAssumption
  <2>4. \A q \in RunsOf(d) : run[q].pc \in {"idle", "ended"}
    BY <2>1, AbsentIdle DEF Live
  <2>5. run'[<<d, 1>>] = NewRun(e, "rolling", FALSE) /\ \A q \in RunsOf(d) \ {<<d, 1>>} : run'[q] = run[q]
    BY <1>0, <2>1, <2>3 DEF Set
  <2>6. run'[<<d, 1>>].pc = "rolling" /\ run'[<<d, 1>>].exec = e
    BY <2>5 DEF NewRun, NoRun
  <2>7. \A q \in RunsOf(d) : ClosesRun(run'[q], q[2], row'[d], JobsOf(d)')
    BY <2>4, <2>5, <2>6 DEF ClosesRun
  <2> QED
    BY <1>0, <2>2, <2>3, <2>6, <2>7, Zenon DEF Closes
<1>8. ASSUME NEW r \in RunsOf(d), GoesOn(r) PROVE Closes(d)'
  <2>0. /\ \A q \in RunsOf(d) \ {r} : run'[q] = run[q]
        /\ UNCHANGED proc
        /\ HoldsRun(run[r], row[d]) /\ ClosesRun(run[r], r[2], row[d], JobsOf(d))
    BY <1>8, OtherRunsStay DEF HoldsRow, Closes
  <2>1. CASE Works(r) /\ RunStep(r)
    <3>1. WorkStep(d, run[r], run'[r], row[d], row'[d])
      BY <1>0, <2>0, <2>1, WorkSteps DEF HoldsRun, Has, Works, Owned, Placed
    <3>2. ~run[r].onTarget
      <4>1. Steady(d)
        BY <2>1, WorksWorked
      <4> QED
        BY <4>1 DEF Steady, Placed, Assumptions, QueueAssumption
    <3>3. UNCHANGED job
      BY <1>0, <2>1, RunStepProceeds DEF Close, Works
    <3>4. JobsOf(d)' = JobsOf(d)
      BY <3>3 DEF JobsOf
    <3>5. \/ /\ Works(r)' /\ run'[r].exec = run[r].exec /\ row'[d].by = row[d].by
          \/ /\ run'[r].pc = "finishing"
             /\ row'[d].status \in {"failed", "cancelled", "superseded"}
          \/ run'[r].pc = "won" /\ row'[d].status = "success"
      BY <1>0, <2>0, <2>1, <3>1, <3>2, WorkCloses DEF Works
    <3>6. \A q \in RunsOf(d) \ {r} : run[q].pc \in {"idle", "ended"}
      <4>1. OthersDone(d, r) /\ row[d].status = "running"
        BY <2>0, <2>1, WorksAlone DEF HoldsRun, Has, Works
      <4> QED
        BY <4>1 DEF OthersDone, Closes, ClosesRun, Works
    <3>7. ASSUME NEW q \in RunsOf(d) PROVE ClosesRun(run'[q], q[2], row'[d], JobsOf(d)')
      <4>1. CASE q = r
        BY <2>0, <2>1, <3>4, <3>5, <4>1 DEF ClosesRun, Works
      <4>2. CASE q # r
        BY <2>0, <3>6, <4>2 DEF ClosesRun
      <4> QED
        BY <4>1, <4>2
    <3>8. d \in Running' => Works(r)' /\ run'[r].exec = row'[d].by
      BY <2>0, <2>1, <3>5 DEF Running, HoldsRun, Has, Works
    <3> QED
      BY <1>0, <3>7, <3>8, Zenon DEF Closes
  <2>2. CASE LandMark(r) \/ ActOnAnswer(r)
    <3>1. Mild(run[r], run'[r]) /\ Still(row[d], row'[d]) /\ UNCHANGED job
      BY <2>2, LateSteps
    <3>2. \A q \in RunsOf(d) : run'[q].pc = run[q].pc /\ run'[q].exec = run[q].exec
      BY <2>0, <3>1 DEF Mild
    <3>3. JobsOf(d)' = JobsOf(d) /\ (d \in Running' => d \in Running /\ row'[d].by = row[d].by)
      BY <3>1 DEF JobsOf, Still, Running
    <3> QED
      BY <1>1, <2>0, <3>2, <3>3
  <2>3. CASE ~Works(r) /\ RunStep(r)
    <3>1. Close(r) /\ run[r].pc \in {"finishing", "won"}
      <4>1. run[r].pc \in {"idle", "ended", "rolling", "finishing", "won"}
        BY <2>3 DEF Works
      <4>2. Close(r)
        BY <2>3, <4>1 DEF RunStep, Only, Start, TakeLocal, AwaitLocal, EndWait, NeedLocal, Requeue, Build, Hold,
         WaitAlone, Fence, BeginSwap, StartSlot, CheckOpen, Commit, Throw, Settle, Leave
      <4> QED
        BY <4>2 DEF Close
    <3>2. run'[r].pc = "ended"
      BY <1>0, <3>1 DEF Close, Set, EndedRun, NoRun
    <3>3. Worked(d) /\ row[d].status \in {"failed", "cancelled", "superseded", "success", "rolled_back"}
      BY <1>0, <2>0, <3>1 DEF ClosesRun, Fits
    <3>4. d \notin Running'
      BY <3>3, EndedStays DEF Running
    <3>5. ASSUME NEW q \in RunsOf(d) PROVE ClosesRun(run'[q], q[2], row'[d], JobsOf(d)')
      <4>1. CASE q = r
        BY <3>2, <4>1 DEF ClosesRun
      <4>2. CASE q # r
        <5>1. ~Works(q)
          BY <3>3 DEF HoldsRow, HoldsRun, Has, Works
        <5>2. ClosesRun(run[q], q[2], row[d], JobsOf(d)) /\ run'[q] = run[q]
          BY <2>0, <4>2 DEF Closes
        <5> QED
          BY <3>3, <5>1, <5>2, EndedStays DEF ClosesRun, Works
      <4> QED
        BY <4>1, <4>2
    <3> QED
      BY <1>0, <3>4, <3>5, Zenon DEF Closes
  <2>4. CASE EndRollback(r)
    <3>1. run[r].pc = "rolling" /\ run'[r].pc = "ended"
      BY <1>0, <2>4 DEF EndRollback, Only, Set, EndedRun, NoRun
    <3>2. OthersDone(d, r) /\ row[d].status = "running"
      BY <2>0, <3>1, WorksAlone DEF HoldsRun, Has
    <3>3. \A q \in RunsOf(d) \ {r} : run[q].pc \in {"idle", "ended"}
      BY <3>2 DEF OthersDone, Closes, ClosesRun, Works
    <3>4. d \notin Running'
      <4>1. PICK o \in {"success", "failed", "deleted"} : Write(d, [row[d] EXCEPT !.status = o])
        BY <1>0, <2>4 DEF EndRollback, Only, FinishRollback
      <4> QED
        BY <1>0, <4>1 DEF Write, Running
    <3> QED
      BY <2>0, <3>1, <3>3, <3>4, ClosesQuiet
  <2> QED
    BY <1>8, <2>1, <2>2, <2>3, <2>4 DEF GoesOn
<1>9. CASE SweepAct(d) \/ Lapse(d)
  <2>1. UNCHANGED executorVars
    BY <1>9, Zenon DEF Lapse, SweepAct
  <2>2. UNCHANGED run /\ UNCHANGED proc /\ JobsOf(d)' = JobsOf(d)
    BY <2>1 DEF executorVars, JobsOf
  <2>3. CASE d \in Running' => d \in Running /\ row'[d].by = row[d].by
    BY <1>1, <2>2, <2>3
  <2>4. d \in Running' => d \in Running
    BY <1>9, StartsNothing
  <2> QED
    BY <2>3, <2>4, RowFacts
<1> QED
  BY <1>2, <1>3, <1>4, <1>5, <1>6, <1>7, <1>8, <1>9, StepFor, Zenon DEF StepOf

===============================================================================
