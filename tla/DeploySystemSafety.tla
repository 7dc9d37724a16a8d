--------------------------- MODULE DeploySystemSafety ---------------------------
(***************************************************************************)
(* The safety properties of the deploy system that are about its runs: a   *)
(* deploy's swaps, what its row says meanwhile, the hold around a swap of  *)
(* Vardo itself, and how a deploy gives way to a newer one; for any number *)
(* of deploys, executors and crashes.                                      *)
(***************************************************************************)
EXTENDS DeploySystemProofs


-------------------------------------------------------------------------------
(* At most one swap in an app environment.                                 *)

\* Only the clock takes a live lease from a deploy that goes on running.
LEMMA OnlyLapses ==
  ASSUME Assumptions, SysInv, [SysNext]_vars, NEW d \in Deploys, Placed(d), HoldsRow(d), LosesLease(d)
  PROVE  Lapse(d)
<1>0. /\ row[d] \in Row /\ row \in [Deploys -> Row]
      /\ \A r \in RunsOf(d) : r \in Runs /\ r[1] = d /\ run[r] \in Run
      /\ row[d].status = "running" /\ row[d].live /\ row'[d].status = "running" /\ ~row'[d].live
  BY RowType, RunTypes, RunFits DEF SysInv, TypeOK, LosesLease, Running
<1>1. ~(Aside(d) /\ RunsStay(d) /\ UNCHANGED proc)
  BY <1>0 DEF Aside, Life
<1>2. ASSUME NEW e \in Executors, ClaimsIt(e, d) PROVE FALSE
  BY <1>0, <1>2 DEF ClaimsIt
<1>3. ASSUME NEW e \in Executors, Renew(e) PROVE FALSE
  <2>1. row'[d] = row[d] \/ row'[d] = [row[d] EXCEPT !.live = TRUE]
    BY <1>3, RenewSteps
  <2>2. \A z \in Row : [z EXCEPT !.live = TRUE].live = TRUE
    BY DEF Row
  <2> QED
    BY <1>0, <2>1, <2>2
<1>4. ASSUME NEW e \in Executors, Crash(e) \/ Boot(e) PROVE FALSE
  BY <1>0, <1>4 DEF Crash, Boot
<1>5. ASSUME NEW e \in Executors, NEW s \in Scopes, StartRollback(e, d, s) PROVE FALSE
  BY <1>0, <1>5 DEF StartRollback, InsertRollback
<1>6. ASSUME NEW r \in RunsOf(d), GoesOn(r) PROVE FALSE
  <2>0. HoldsRun(run[r], row[d])
    BY DEF HoldsRow
  <2>1. CASE Works(r) /\ RunStep(r)
    <3>1. WorkStep(d, run[r], run'[r], row[d], row'[d])
      BY <1>0, <2>0, <2>1, WorkSteps DEF HoldsRun, Has, Works, Owned, Placed
    <3> QED
      BY <1>0, <3>1 DEF WorkStep, Same, Still
  <2>2. CASE LandMark(r) \/ ActOnAnswer(r)
    <3>1. Still(row[d], row'[d])
      BY <2>2, LateSteps
    <3> QED
      BY <1>0, <3>1 DEF Still
  <2>3. CASE ~Works(r) /\ RunStep(r)
    <3>1. Close(r)
      <4>1. run[r].pc \in {"idle", "ended", "rolling", "finishing", "won"}
        BY <2>3 DEF Works
      <4> QED
        BY <2>3, <4>1 DEF RunStep, Only, Start, TakeLocal, AwaitLocal, EndWait, NeedLocal, Requeue, Build, Hold,
         WaitAlone, Fence, BeginSwap, StartSlot, CheckOpen, Commit, Throw, Settle, Leave
    <3>2. \A z \in Row : [z EXCEPT !.hold = "off"].live = z.live
      BY DEF Row
    <3>3. row'[d] = row[d] \/ row'[d] = [row[d] EXCEPT !.hold = "off"]
      BY <1>0, <3>1 DEF Close, ReleaseExclusive, Write
    <3> QED
      BY <1>0, <3>2, <3>3
  <2>4. CASE EndRollback(r)
    <3>1. PICK o \in {"success", "failed", "deleted"} : Write(d, [row[d] EXCEPT !.status = o])
      BY <1>0, <2>4 DEF EndRollback, Only, FinishRollback
    <3> QED
      BY <1>0, <3>1 DEF Write
  <2> QED
    BY <1>6, <2>1, <2>2, <2>3, <2>4 DEF GoesOn
<1>7. CASE SweepAct(d)
  BY <1>0, <1>7 DEF SweepAct, SweepRequeue, FailDeadDeploy, Expired
<1> QED
  BY <1>1, <1>2, <1>3, <1>4, <1>5, <1>6, <1>7, StepFor, Zenon DEF StepOf

Unstalled == stalls = 0

LEMMA NoLapse ==
  ASSUME Assumptions, MaxStalls = 0, SysInv, Unstalled, [SysNext]_vars, NEW d \in Deploys,
         Placed(d), HoldsRow(d), Closes(d)
  PROVE  ~LosesLease(d)
<1> SUFFICES ASSUME LosesLease(d) PROVE FALSE
  OBVIOUS
<1>1. Lapse(d)
  BY OnlyLapses
<1>2. PICK r \in RunsOf(d) : (Works(r) \/ run[r].pc = "rolling") /\ run[r].exec = row[d].by
  BY DEF LosesLease, Closes
<1>3. CASE Works(r)
  <2>1. row[d].by \in Executors
    BY <1>2, <1>3, WorksWorked
  <2>2. job[row[d].by][d] = r[2]
    BY <1>2, <1>3, <2>1 DEF Closes, ClosesRun, JobsOf, Works
  <2>3. r[2] # 0
    BY RunTypes
  <2> QED
    BY <1>1, <2>2, <2>3 DEF Lapse, Kept, LosesLease, Unstalled
<1>4. CASE run[r].pc = "rolling"
  <2>1. r = <<d, 1>>
    BY <1>4, RunTypes DEF Placed
  <2> QED
    BY <1>1, <1>4, <2>1 DEF Lapse, Kept, LosesLease, Unstalled
<1> QED
  BY <1>2, <1>3, <1>4

LEMMA UnstalledStep ==
  ASSUME MaxStalls = 0, Unstalled, [SysNext]_vars
  PROVE  Unstalled'
<1>1. UNCHANGED stalls \/ stalls < 0
  BY Zenon DEF Unstalled, SysNext, vars, Client, Lapse, Age, Expire, RequestCancel, FinishCancel, SweepRead, SweepAct, Executing, systemVars
<1> QED
  BY <1>1 DEF Unstalled

\* Everything a deploy keeps through every step, whatever stalls.
Base == SysInv /\ ProcFits /\ \A d \in Deploys : Placed(d)

LEMMA BaseStarts ==
  ASSUME Assumptions, SysInit
  PROVE  Base /\ Unstalled /\ \A d \in Deploys : row[d].status = "absent" /\ HoldsRow(d) /\ Closes(d)
<1>1. SysInv
  BY SystemStarts DEF Assumptions
<1>2. ProcFits
  BY DEF SysInit, ExecutorInit, ProcFits
<1>3. \A d \in Deploys : row[d] = NoRow /\ row[d].status = "absent"
  BY DEF SysInit, Init, NoRow
<1>4. ASSUME NEW d \in Deploys PROVE Placed(d)
  <2>1. \A r \in RunsOf(d) : run[r] = NoRun
    BY RunTypes DEF SysInit, ExecutorInit
  <2>2. NoRun.pc = "idle" /\ ~NoRun.onTarget
    BY DEF NoRun
  <2>3. \A e \in Executors : job[e][d] = 0
    BY DEF SysInit, ExecutorInit
  <2> QED
    BY <1>3, <2>1, <2>2, <2>3 DEF Placed, Live, Running
<1>5. ASSUME NEW d \in Deploys PROVE HoldsRow(d) /\ Closes(d)
  BY <1>1, <1>3, <1>4, AbsentHolds
<1> QED
  BY <1>1, <1>2, <1>3, <1>4, <1>5 DEF Base, SysInit, Unstalled

LEMMA BaseStep ==
  ASSUME Assumptions, Base, [SysNext]_vars
  PROVE  Base'
<1>1. SysInv' /\ ProcFits'
  BY SystemInductive, ProcStep DEF Base, Assumptions
<1>2. \A d \in Deploys : Placed(d)'
  BY PlacedStep DEF Base
<1> QED
  BY <1>1, <1>2 DEF Base

\* Deploys whose runs give no claim back keep their leases, as does one not asked for yet.
SteadyHolds == \A d \in Deploys : Steady(d) \/ row[d].status = "absent" => HoldsRow(d) /\ Closes(d)

LEMMA SteadyStep ==
  ASSUME Assumptions, MaxStalls = 0, Base, Unstalled, SteadyHolds, [SysNext]_vars
  PROVE  /\ SteadyHolds'
         /\ \A d \in Deploys : Steady(d) => ~LosesLease(d)
<1>1. ASSUME NEW d \in Deploys, Steady(d) \/ row[d].status = "absent"
      PROVE  ~LosesLease(d) /\ HoldsRow(d)' /\ Closes(d)'
  <2>1. HoldsRow(d) /\ Closes(d) /\ Placed(d) /\ SysInv /\ ProcFits
    BY <1>1 DEF SteadyHolds, Base
  <2>2. ~LosesLease(d)
    BY <2>1, NoLapse
  <2> QED
    BY <1>1, <2>1, <2>2, HoldsStep, ClosesStep
<1>2. ASSUME NEW d \in Deploys, Steady(d)' \/ row'[d].status = "absent"
      PROVE  Steady(d) \/ row[d].status = "absent"
  BY <1>2, RowFacts DEF Base, Steady, IsSelf
<1> QED
  BY <1>1, <1>2 DEF SteadyHolds

AllHold == \A d \in Deploys : HoldsRow(d)

LEMMA AllHoldStep ==
  ASSUME Assumptions, Base, AllHold, [SysNext]_vars, LeasesKept
  PROVE  AllHold'
BY HoldsStep DEF Base, AllHold, LeasesKept

\* Runs that change containers hold their rows, and one row runs in a scope.
LEMMA HoldingIsOne ==
  ASSUME Assumptions, Base, AllHold, OneRunningPerScope
  PROVE  OneSwapPerScope
<1> SUFFICES ASSUME NEW a \in Touching, NEW b \in Touching, row[a[1]].scope = row[b[1]].scope
             PROVE  a = b
  BY DEF OneSwapPerScope
<1>1. ASSUME NEW r \in Touching
      PROVE  /\ r[1] \in Deploys /\ r \in RunsOf(r[1]) /\ (Works(r) \/ run[r].pc = "rolling")
             /\ r[1] \in Running
  <2>1. r \in Runs /\ (Works(r) \/ run[r].pc = "rolling")
    BY DEF Touching, Works
  <2>2. r[1] \in Deploys /\ r \in RunsOf(r[1])
    BY <2>1 DEF Runs, RunsOf
  <2> QED
    BY <2>1, <2>2 DEF AllHold, HoldsRow, HoldsRun, Has, Works, Running
<1>2. a[1] = b[1]
  BY <1>1 DEF OneRunningPerScope
<1>3. OthersDone(a[1], a)
  BY <1>1, WorksAlone DEF Base, AllHold
<1> QED
  BY <1>1, <1>2, <1>3 DEF OthersDone

-----------------------------------------------------------------------------
\* While every live process keeps its leases, two runs never change the containers of one
\* app environment at once.  Over crashes, reruns, cancels, supersedes, slot moves and
\* rollbacks a run that still works for its deploy holds the row, alone of the deploy's
\* claims (HoldsRow): what takes the row away (a requeue, a sweep, a terminal write) comes
\* after the run is done with containers, and the queue runs one deploy per scope.
THEOREM SwapsApart ==
  ASSUME QueueAssumption, ExecutorAssumption, SystemAssumption
  PROVE  SysSpec /\ [][LeasesKept]_vars => []OneSwapPerScope
<1>0. Assumptions
  BY DEF Assumptions
<1>1. SysInit => Base /\ AllHold
  BY <1>0, BaseStarts DEF AllHold
<1>2. Base /\ AllHold /\ [SysNext]_vars /\ [LeasesKept]_vars => (Base /\ AllHold)'
  <2>1. CASE UNCHANGED vars
    <3>1. ASSUME AllHold PROVE AllHold'
      BY <2>1, <3>1 DEF vars, AllHold, HoldsRow, Works, RunsOf
    <3> QED
      BY <1>0, <2>1, <3>1, BaseStep
  <2>2. ASSUME Base, AllHold, [SysNext]_vars, LeasesKept PROVE (Base /\ AllHold)'
    BY <1>0, <2>2, BaseStep, AllHoldStep
  <2> QED
    BY <2>1, <2>2
<1>3. Base /\ AllHold /\ OneRunningPerScope => OneSwapPerScope
  BY <1>0, HoldingIsOne
<1>4. SysSpec => []OneRunningPerScope
  BY SystemKeepsPromises, PTL
<1> QED
  BY <1>1, <1>2, <1>3, <1>4, PTL DEF SysSpec

\* Nothing but a stall makes a live process lose the lease of a deploy that can't be given
\* back: while nothing stalls, the renewals of a run that is known to its executor arrive,
\* and a run stays known until its row is closed (Closes).  A deploy given back to the queue
\* for a slot of this server is another matter, see ClaimsRenewed.
THEOREM LeasesAreKept ==
  ASSUME QueueAssumption, ExecutorAssumption, SystemAssumption, MaxStalls = 0
  PROVE  SysSpec => [][\A d \in Deploys : Steady(d) => ~LosesLease(d)]_vars
<1>0. Assumptions
  BY DEF Assumptions
<1>1. SysInit => Base /\ Unstalled /\ SteadyHolds
  BY <1>0, BaseStarts DEF SteadyHolds
<1>2. Base /\ Unstalled /\ SteadyHolds /\ [SysNext]_vars => (Base /\ Unstalled /\ SteadyHolds)'
  BY <1>0, BaseStep, UnstalledStep, SteadyStep
<1>3. Base /\ Unstalled /\ SteadyHolds /\ [SysNext]_vars => [\A d \in Deploys : Steady(d) => ~LosesLease(d)]_vars
  BY <1>0, SteadyStep
<1> QED
  BY <1>1, <1>2, <1>3, PTL DEF SysSpec

\* So with no build targets, swaps stay apart whatever crashes, as long as nothing stalls.
THEOREM SwapsApartOnOneServer ==
  ASSUME QueueAssumption, ExecutorAssumption, SystemAssumption, MaxStalls = 0, TargetSlots = 0
  PROVE  SysSpec => []OneSwapPerScope
<1>1. (\A d \in Deploys : Steady(d) => ~LosesLease(d)) => LeasesKept
  BY DEF LeasesKept, Steady
<1>2. [\A d \in Deploys : Steady(d) => ~LosesLease(d)]_vars => [LeasesKept]_vars
  BY <1>1
<1>3. SysSpec => [][LeasesKept]_vars
  BY <1>2, LeasesAreKept, PTL
<1> QED
  BY <1>3, SwapsApart, PTL

-------------------------------------------------------------------------------
(* What a swap leaves on record.                                           *)

SteadyKept == \A d \in Deploys : Steady(d) => ~LosesLease(d)

\* What a step makes of a run x that works after it, and of its row.
Moves(d, x, y, a, b) ==
  \/ /\ x.pc \notin {"idle", "ended", "rolling", "finishing", "won"}
     /\ Mild(x, y) /\ Still([a EXCEPT !.live = TRUE], [b EXCEPT !.live = TRUE]) /\ b.hold = a.hold
     /\ b.stage = a.stage \/ b.stage \in x.marks
  \/ /\ x.pc \notin {"idle", "ended", "rolling", "finishing", "won"}
     /\ WorkStep(d, x, y, a, b)
  \/ /\ \E e \in Executors, t \in BOOLEAN : y = NewRun(e, "starting", t)
     /\ a.status = "queued" /\ b.hold = a.hold

LEMMA WorkMoves ==
  ASSUME Assumptions, SysInv, [SysNext]_vars, ProcFits, NEW d \in Deploys, Placed(d), HoldsRow(d),
         Closes(d), Steady(d) \/ row[d].status = "absent", ~LosesLease(d),
         NEW r \in RunsOf(d), Works(r)'
  PROVE  Moves(d, run[r], run'[r], row[d], row'[d])
<1>0. /\ row[d] \in Row /\ row \in [Deploys -> Row] /\ run \in [Runs -> Run]
      /\ \A q \in RunsOf(d) : q \in Runs /\ q[1] = d /\ run[q] \in Run
      /\ row'[d] \in Row
  <2>1. SysInv'
    BY RowFacts
  <2> QED
    BY <2>1, RowType, RunTypes, RunFits DEF SysInv, TypeOK, RunsFit
<1>1. ASSUME Works(r), Mild(run[r], run'[r]), row'[d].status = row[d].status, row'[d].by = row[d].by,
             row'[d].home = row[d].home, row'[d].hold = row[d].hold,
             row'[d].stage = row[d].stage \/ row'[d].stage \in run[r].marks
      PROVE  Moves(d, run[r], run'[r], row[d], row'[d])
  <2>1. \A z \in Row : LET l == [z EXCEPT !.live = TRUE]
                       IN l.status = z.status /\ l.by = z.by /\ l.home = z.home /\ l.live = TRUE
    BY DEF Row
  <2>2. Still([row[d] EXCEPT !.live = TRUE], [row'[d] EXCEPT !.live = TRUE])
    BY <1>0, <1>1, <2>1 DEF Still
  <2> QED
    BY <1>1, <2>2, Zenon DEF Moves, Works
<1>2. Mild(run[r], run[r])
  BY DEF Mild
<1>3. CASE Aside(d) /\ RunsStay(d) /\ UNCHANGED proc
  <2>1. run'[r] = run[r]
    BY <1>3 DEF RunsStay
  <2>2. Works(r)
    BY <2>1 DEF Works
  <2>3. row[d].status = "running" /\ row'[d].status = "running"
    <3>1. Has(run[r], row[d])
      BY <2>2 DEF HoldsRow, HoldsRun, Works
    <3> QED
      BY <1>3, <3>1 DEF Aside, Life, Has
  <2>4. row'[d].by = row[d].by /\ row'[d].home = row[d].home /\ row'[d].hold = row[d].hold /\ row'[d].stage = row[d].stage
    BY <1>3, <2>3 DEF Aside, Life
  <2> QED
    BY <1>1, <1>2, <2>1, <2>2, <2>3, <2>4
<1>4. ASSUME NEW e \in Executors, ClaimsIt(e, d) PROVE Moves(d, run[r], run'[r], row[d], row'[d])
  <2> DEFINE Claims(n, t) ==
           LET q == <<d, n>> IN
           /\ n # 0 /\ q \in RunsOf(d) /\ run[q].pc = "idle"
           /\ t => TargetSlots > 0 /\ ~IsSelf(d)
           /\ run'[q] = NewRun(e, "starting", t)
           /\ \A p \in RunsOf(d) \ {q} : run'[p] = run[p]
           /\ \A x \in Executors : job'[x][d] = IF x = e THEN n ELSE job[x][d]
  <2>1. PICK n \in 1 .. MaxClaims : \E t \in BOOLEAN : Claims(n, t)
    BY <1>4, ClaimOf, Zenon
  <2>2. PICK t \in BOOLEAN : Claims(n, t)
    BY <2>1, Zenon
  <2>3. run'[<<d, n>>] = NewRun(e, "starting", t) /\ \A p \in RunsOf(d) \ {<<d, n>>} : run'[p] = run[p]
    BY <2>2
  <2>4. row[d].status = "queued" /\ row'[d].hold = row[d].hold
    <3>1. \A z \in Row : \A slot \in {"none", "target"} :
            [z EXCEPT !.status = "running", !.by = e, !.live = TRUE, !.stage = "none",
                 !.bumped = 0, !.claimSlot = slot, !.waiting = 0].hold = z.hold
      BY DEF Row
    <3>2. PICK slot \in {"none", "target"} : row'[d] = Claimed(d, e, slot)
      BY <1>4, Zenon DEF ClaimsIt
    <3> QED
      BY <1>0, <1>4, <3>1, <3>2 DEF ClaimsIt, Claimed
  <2>5. r = <<d, n>>
    <3>1. ~Works(r)
      BY <2>4 DEF HoldsRow, HoldsRun, Has, Works
    <3> QED
      BY <2>3, <3>1 DEF Works
  <2> QED
    BY <2>3, <2>4, <2>5, Zenon DEF Moves
<1>5. ASSUME NEW e \in Executors, Renew(e) PROVE Moves(d, run[r], run'[r], row[d], row'[d])
  <2>1. /\ Mild(run[r], run'[r])
        /\ row'[d] = row[d] \/ row'[d] = [row[d] EXCEPT !.live = TRUE]
    BY <1>5, RenewSteps
  <2>2. \A z \in Row : LET l == [z EXCEPT !.live = TRUE]
                       IN l.status = z.status /\ l.by = z.by /\ l.home = z.home /\ l.hold = z.hold /\ l.stage = z.stage
    BY DEF Row
  <2> QED
    BY <1>0, <1>1, <2>1, <2>2 DEF Mild, Works
<1>6. ASSUME NEW e \in Executors, Crash(e) PROVE Moves(d, run[r], run'[r], row[d], row'[d])
  <2>1. UNCHANGED row /\ run'[r] = IF run[r].exec = e THEN EndedRun ELSE run[r]
    BY <1>0, <1>6 DEF Crash
  <2>2. EndedRun.pc = "ended"
    BY DEF EndedRun, NoRun
  <2>3. run'[r] = run[r] /\ Works(r)
    BY <2>1, <2>2 DEF Works
  <2> QED
    BY <1>1, <1>2, <2>1, <2>3
<1>7. ASSUME NEW e \in Executors, Boot(e) PROVE Moves(d, run[r], run'[r], row[d], row'[d])
  BY <1>1, <1>2, <1>7 DEF Boot, Works
<1>8. ASSUME NEW e \in Executors, NEW s \in Scopes, StartRollback(e, d, s) PROVE FALSE
  <2>1. /\ row[d].status = "absent" /\ Set(<<d, 1>>, NewRun(e, "rolling", FALSE))
    BY <1>8 DEF StartRollback, InsertRollback
  <2>2. run[r].pc \in {"idle", "ended"}
    BY <2>1, AbsentIdle DEF Live
  <2>3. run'[r] = run[r] \/ run'[r].pc = "rolling"
    BY <1>0, <2>1 DEF Set, NewRun, NoRun
  <2> QED
    BY <2>2, <2>3 DEF Works
<1>9. ASSUME NEW q \in RunsOf(d), GoesOn(q) PROVE Moves(d, run[r], run'[r], row[d], row'[d])
  <2>0. /\ \A p \in RunsOf(d) \ {q} : run'[p] = run[p]
        /\ HoldsRun(run[q], row[d]) /\ ClosesRun(run[q], q[2], row[d], JobsOf(d))
    BY <1>9, OtherRunsStay DEF HoldsRow, Closes
  <2>1. CASE Works(q) /\ RunStep(q)
    <3>1. WorkStep(d, run[q], run'[q], row[d], row'[d])
      BY <1>0, <2>0, <2>1, WorkSteps DEF HoldsRun, Has, Works, Owned, Placed
    <3>2. q = r
      BY <2>0, <2>1, WorksAlone DEF OthersDone, Works
    <3> QED
      BY <2>1, <3>1, <3>2 DEF Moves, Works
  <2>2. CASE LandMark(q) \/ ActOnAnswer(q)
    <3>1. /\ Mild(run[q], run'[q]) /\ Still(row[d], row'[d]) /\ row'[d].hold = row[d].hold
          /\ row'[d].stage = row[d].stage \/ row'[d].stage \in run[q].marks
      BY <2>2, LateSteps
    <3>2. q = r
      <4>1. Works(r)
        BY <2>0, <3>1 DEF Mild, Works
      <4>2. OthersDone(d, r) /\ row[d].status = "running"
        BY <4>1, WorksAlone DEF HoldsRow, HoldsRun, Has, Works
      <4>3. ASSUME q # r PROVE FALSE
        <5>1. run[q].pc \in {"idle", "ended"}
          BY <2>0, <4>2, <4>3 DEF OthersDone, ClosesRun, Works
        <5> QED
          BY <1>9, <5>1 DEF GoesOn, Live
      <4> QED
        BY <4>3
    <3> QED
      BY <1>1, <3>1, <3>2 DEF Mild, Works, Still
  <2>3. CASE ~Works(q) /\ RunStep(q)
    <3>1. Close(q) /\ run[q].pc \in {"finishing", "won"}
      <4>1. run[q].pc \in {"idle", "ended", "rolling", "finishing", "won"}
        BY <2>3 DEF Works
      <4>2. Close(q)
        BY <2>3, <4>1 DEF RunStep, Only, Start, TakeLocal, AwaitLocal, EndWait, NeedLocal, Requeue, Build, Hold,
         WaitAlone, Fence, BeginSwap, StartSlot, CheckOpen, Commit, Throw, Settle, Leave
      <4> QED
        BY <4>2 DEF Close
    <3>2. run'[q].pc = "ended"
      BY <1>0, <3>1 DEF Close, Set, EndedRun, NoRun
    <3>3. Works(r)
      BY <2>0, <3>2 DEF Works
    <3>4. row[d].status = "running"
      BY <3>3 DEF HoldsRow, HoldsRun, Has, Works
    <3> QED
      BY <2>0, <3>1, <3>4 DEF ClosesRun
  <2>4. CASE EndRollback(q)
    <3>1. run[q].pc = "rolling" /\ run'[q].pc = "ended"
      BY <1>0, <2>4 DEF EndRollback, Only, Set, EndedRun, NoRun
    <3>2. OthersDone(d, q)
      BY <3>1, WorksAlone
    <3> QED
      BY <2>0, <3>1, <3>2 DEF OthersDone, Works
  <2> QED
    BY <1>9, <2>1, <2>2, <2>3, <2>4 DEF GoesOn
<1>10. CASE SweepAct(d) \/ Lapse(d)
  <2>1. UNCHANGED executorVars
    BY <1>10, Zenon DEF Lapse, SweepAct
  <2>2. run'[r] = run[r] /\ Works(r)
    BY <2>1 DEF executorVars, Works
  <2>3. Has(run[r], row[d])
    BY <2>2 DEF HoldsRow, HoldsRun, Works
  <2>4. CASE SweepAct(d)
    <3>1. UNCHANGED row
      BY <2>3, <2>4 DEF SweepAct, SweepRequeue, FailDeadDeploy, Expired, Has
    <3> QED
      BY <1>1, <1>2, <2>2, <3>1
  <2>5. CASE Lapse(d)
    <3>1. row'[d] = [row[d] EXCEPT !.live = FALSE]
      BY <1>0, <2>5 DEF Lapse, LapseLease, Write
    <3>2. \A z \in Row : LET l == [z EXCEPT !.live = FALSE]
                         IN l.status = z.status /\ l.by = z.by /\ l.home = z.home /\ l.hold = z.hold /\ l.stage = z.stage
      BY DEF Row
    <3> QED
      BY <1>0, <1>1, <1>2, <2>2, <3>1, <3>2
  <2> QED
    BY <1>10, <2>4, <2>5
<1> QED
  BY <1>3, <1>4, <1>5, <1>6, <1>7, <1>8, <1>9, <1>10, StepFor, Zenon DEF StepOf

\* What a run x that works for its row a has written, and has still to write.
MarkedRun(x, a) ==
  /\ x.pc \in {"starting", "holding", "waiting", "fence", "fenced"} => x.marks = {}
  /\ x.pc \in {"swapping", "checking", "committing"} => x.stage = "deploy"
  /\ x.pc \in {"starting", "building", "requeueing", "holding", "waiting", "fence", "fenced"}
       => x.stage # "deploy"
  /\ x.stage = "deploy" => x.marks \subseteq {"deploy"}
  /\ x.pc = "fenced" \/ x.stage = "deploy" => a.stage = "deploy"

Marked(d) == \A r \in RunsOf(d) : Works(r) => MarkedRun(run[r], row[d])

SteadyMarks == \A d \in Deploys : Steady(d) \/ row[d].status = "absent" => Marked(d)

LEMMA MildMarks ==
  ASSUME NEW x \in Run, NEW y, NEW a, NEW b, Mild(x, y), MarkedRun(x, a),
         b.stage = a.stage \/ b.stage \in x.marks
  PROVE  MarkedRun(y, b)
BY DEF Mild, MarkedRun

LEMMA WorkMarks ==
  ASSUME NEW d, NEW x \in Run, NEW y, NEW a, NEW b, InOrder, WorkStep(d, x, y, a, b),
         MarkedRun(x, a), y.pc \notin {"idle", "ended", "rolling", "finishing", "won"},
         x.pc \notin {"idle", "ended", "rolling", "finishing", "won"}, x.pc # "leaving",
         x.abort # "lost"
  PROVE  MarkedRun(y, b)
<1>1. ASSUME b.stage = a.stage,
             \/ x.pc = "starting" /\ y = [x EXCEPT !.pc = "building", !.stage = "build", !.marks = @ \cup {"build"}]
             \/ x.pc = "building" /\ y \in {x, [x EXCEPT !.onTarget = FALSE], [x EXCEPT !.pc = "requeueing"]}
             \/ x.pc = "building" /\ x.marks = {} /\ y = [x EXCEPT !.pc = IF IsSelf(d) THEN "holding" ELSE "fence"]
      PROVE  MarkedRun(y, b)
  BY <1>1 DEF MarkedRun, Run
<1>2. ASSUME b.stage = a.stage, x.pc = "waiting", y = [x EXCEPT !.pc = "fence", !.alone = RunningExcept(d) = {}]
      PROVE  MarkedRun(y, b)
  <2>1. \A v : LET z == [x EXCEPT !.pc = "fence", !.alone = v]
               IN z.pc = "fence" /\ z.stage = x.stage /\ z.marks = x.marks
    BY DEF Run
  <2>2. y.pc = "fence" /\ y.stage = x.stage /\ y.marks = x.marks
    BY <1>2, <2>1
  <2> QED
    BY <1>2, <2>2 DEF MarkedRun
<1>3. ASSUME b.stage = a.stage, x.pc = "fenced",
             y = [x EXCEPT !.pc = "swapping", !.stage = "deploy", !.marks = @ \cup {"deploy"}]
      PROVE  MarkedRun(y, b)
  <2>1. y.pc = "swapping" /\ y.stage = "deploy" /\ y.marks = x.marks \cup {"deploy"}
    BY <1>3 DEF Run
  <2> QED
    BY <1>3, <2>1 DEF MarkedRun
<1>7. ASSUME b.stage = a.stage,
             \/ x.pc = "swapping" /\ y = [x EXCEPT !.pc = "checking"]
             \/ x.pc = "checking" /\ y = [x EXCEPT !.pc = "committing"]
             \/ x.pc = "holding" /\ y = [x EXCEPT !.pc = "waiting"]
             \/ y = [x EXCEPT !.pc = "stopping"]
      PROVE  MarkedRun(y, b)
  <2>1. y.pc \in {"checking", "committing", "waiting", "stopping"} /\ y.stage = x.stage /\ y.marks = x.marks
    BY <1>7 DEF Run
  <2>2. \/ y.pc \in {"checking", "committing"} /\ x.pc \in {"swapping", "checking"}
        \/ y.pc = "waiting" /\ x.pc = "holding"
        \/ y.pc = "stopping"
    BY <1>7 DEF Run
  <2> QED
    BY <1>7, <2>1, <2>2 DEF MarkedRun
<1>4. ASSUME x.pc = "fence", y = [x EXCEPT !.pc = "fenced"], b.stage = "deploy"
      PROVE  MarkedRun(y, b)
  BY <1>4 DEF MarkedRun, Run
<1>5. ASSUME \/ x.pc = "requeueing" /\ y = [x EXCEPT !.pc = "finishing"]
             \/ x.pc = "committing" /\ y = [x EXCEPT !.pc = "won"]
             \/ x.pc = "stopping" /\ y = [x EXCEPT !.pc = "finishing"]
      PROVE  FALSE
  BY <1>5 DEF Run
<1>6. Same(a, b) => b.stage = a.stage
  BY DEF Same
<1> QED
  BY <1>1, <1>2, <1>3, <1>4, <1>5, <1>6, <1>7, SMTT(60) DEF WorkStep

LEMMA NewRunMarks ==
  ASSUME NEW e, NEW t, NEW a
  PROVE  MarkedRun(NewRun(e, "starting", t), a)
BY DEF MarkedRun, NewRun, NoRun

LEMMA MarksStep ==
  ASSUME Assumptions, InOrder, SysInv, [SysNext]_vars, ProcFits, NEW d \in Deploys, Placed(d),
         HoldsRow(d), Closes(d), Marked(d), Steady(d) \/ row[d].status = "absent", ~LosesLease(d)
  PROVE  Marked(d)'
<1>1. RunsOf(d)' = RunsOf(d)
  BY DEF RunsOf
<1>2. ASSUME NEW r \in RunsOf(d), Works(r)' PROVE MarkedRun(run'[r], row'[d])
  <2>0. run[r] \in Run
    BY RunTypes, RunFits DEF SysInv, RunsFit
  <2>1. Moves(d, run[r], run'[r], row[d], row'[d])
    BY <1>2, WorkMoves
  <2>2. Works(r) => MarkedRun(run[r], row[d])
    BY DEF Marked
  <2>3. CASE /\ Works(r) /\ Mild(run[r], run'[r])
             /\ row'[d].stage = row[d].stage \/ row'[d].stage \in run[r].marks
    BY <2>0, <2>2, <2>3, MildMarks
  <2>4. CASE Works(r) /\ WorkStep(d, run[r], run'[r], row[d], row'[d])
    <3>1. run[r].pc # "leaving" /\ run[r].abort # "lost"
      BY <2>4 DEF HoldsRow, HoldsRun, Works
    <3> QED
      BY <1>2, <2>0, <2>2, <2>4, <3>1, WorkMarks DEF Works
  <2>5. CASE \E e \in Executors, t \in BOOLEAN : run'[r] = NewRun(e, "starting", t)
    BY <2>5, NewRunMarks
  <2> QED
    BY <2>1, <2>3, <2>4, <2>5, Zenon DEF Moves, Works
<1> QED
  BY <1>1, <1>2 DEF Marked

\* While live executors keep their leases.
LEMMA SteadyHoldsStep ==
  ASSUME Assumptions, Base, SteadyHolds, SteadyKept, [SysNext]_vars
  PROVE  SteadyHolds'
<1>1. ASSUME NEW d \in Deploys, Steady(d) \/ row[d].status = "absent"
      PROVE  HoldsRow(d)' /\ Closes(d)'
  <2>1. HoldsRow(d) /\ Closes(d) /\ Placed(d) /\ SysInv /\ ProcFits
    BY <1>1 DEF SteadyHolds, Base
  <2>2. ~LosesLease(d)
    BY <1>1 DEF SteadyKept, LosesLease, Running
  <2> QED
    BY <1>1, <2>1, <2>2, HoldsStep, ClosesStep
<1>2. ASSUME NEW d \in Deploys, Steady(d)' \/ row'[d].status = "absent"
      PROVE  Steady(d) \/ row[d].status = "absent"
  BY <1>2, RowFacts DEF Base, Steady, IsSelf
<1> QED
  BY <1>1, <1>2 DEF SteadyHolds

LEMMA SteadyMarksStep ==
  ASSUME Assumptions, InOrder, Base, SteadyHolds, SteadyMarks, SteadyKept, [SysNext]_vars
  PROVE  SteadyMarks'
<1>1. ASSUME NEW d \in Deploys, Steady(d) \/ row[d].status = "absent" PROVE Marked(d)'
  <2>1. HoldsRow(d) /\ Closes(d) /\ Placed(d) /\ SysInv /\ ProcFits /\ Marked(d)
    BY <1>1 DEF SteadyHolds, SteadyMarks, Base
  <2>2. ~LosesLease(d)
    BY <1>1 DEF SteadyKept, LosesLease, Running
  <2> QED
    BY <1>1, <2>1, <2>2, MarksStep
<1>2. ASSUME NEW d \in Deploys, Steady(d)' \/ row'[d].status = "absent"
      PROVE  Steady(d) \/ row[d].status = "absent"
  BY <1>2, RowFacts DEF Base, Steady, IsSelf
<1> QED
  BY <1>1, <1>2 DEF SteadyMarks

LEMMA SteadyStarts ==
  ASSUME Assumptions, SysInit
  PROVE  Base /\ SteadyHolds /\ SteadyMarks
<1>1. Base /\ \A d \in Deploys : row[d].status = "absent" /\ HoldsRow(d) /\ Closes(d)
  BY BaseStarts
<1>2. \A d \in Deploys : \A r \in RunsOf(d) : ~Works(r)
  BY <1>1, AbsentIdle DEF Base
<1> QED
  BY <1>1, <1>2 DEF SteadyHolds, SteadyMarks, Marked

-----------------------------------------------------------------------------
\* With the database taking each process's statements in the order they are sent, no run
\* that changes containers under its own claim finds its row at a stage the crash rule would
\* rerun: the fence has written `deploy`, and no earlier stage write is still under way.
\* With build targets a stage write of a claim that was given back could land on the row of
\* the deploy's next claim by the same process.
THEOREM SwapsOnRecord ==
  ASSUME QueueAssumption, ExecutorAssumption, SystemAssumption, InOrder, TargetSlots = 0
  PROVE  SysSpec /\ [][LeasesKept]_vars => []SwapIsOnRecord
<1>0. Assumptions
  BY DEF Assumptions
<1> DEFINE I == Base /\ SteadyHolds /\ SteadyMarks
<1>1. SysInit => I
  BY <1>0, SteadyStarts
<1>2. I /\ [SysNext]_vars /\ [LeasesKept]_vars => I'
  <2>1. ASSUME UNCHANGED vars PROVE SteadyKept
    BY <2>1 DEF vars, SteadyKept, LosesLease, Running
  <2>2. LeasesKept => SteadyKept
    BY DEF LeasesKept, SteadyKept
  <2> QED
    BY <1>0, <2>1, <2>2, BaseStep, SteadyHoldsStep, SteadyMarksStep
<1>3. I => SwapIsOnRecord
  <2> SUFFICES ASSUME I, NEW r \in Touching, run[r].pc # "rolling" PROVE row[r[1]].stage = "deploy"
    BY DEF SwapIsOnRecord
  <2>1. r[1] \in Deploys /\ r \in RunsOf(r[1]) /\ Works(r)
    BY DEF Touching, Runs, RunsOf, Works
  <2>2. MarkedRun(run[r], row[r[1]])
    BY <2>1 DEF SteadyMarks, Steady, Marked
  <2> QED
    BY <2>2 DEF MarkedRun, Touching
<1> HIDE DEF I
<1> QED
  BY <1>1, <1>2, <1>3, PTL DEF SysSpec

\* The same with nothing stalling, where the leases are kept.
THEOREM SwapsOnRecordOnOneServer ==
  ASSUME QueueAssumption, ExecutorAssumption, SystemAssumption, InOrder, MaxStalls = 0, TargetSlots = 0
  PROVE  SysSpec => []SwapIsOnRecord
<1>1. (\A d \in Deploys : Steady(d) => ~LosesLease(d)) => LeasesKept
  BY DEF LeasesKept, Steady
<1>2. [\A d \in Deploys : Steady(d) => ~LosesLease(d)]_vars => [LeasesKept]_vars
  BY <1>1
<1>3. SysSpec => [][LeasesKept]_vars
  BY <1>2, LeasesAreKept, PTL
<1> QED
  BY <1>3, SwapsOnRecord, PTL

-------------------------------------------------------------------------------
(* A swap of Vardo itself is alone.                                        *)

\* The hold of Vardo's own deploy, as its row a and a run x that works for it have it.
HeldRow(a) ==
  /\ a.status = "queued" => a.hold = "off"
  /\ a.status = "running" => a.hold # "stale"

Waited(x, a) ==
  /\ x.pc \in {"waiting", "fence", "fenced", "swapping", "checking", "committing"} => a.hold = "fresh"
  /\ x.alone => /\ x.pc \notin {"starting", "building", "requeueing", "holding", "waiting"}
                /\ a.hold = "fresh"

OnlyRollbacksBeside(d) == \A x \in RunningExcept(d) : row[x].kind = "rollback"

Alone(d) ==
  /\ HeldRow(row[d])
  /\ \A r \in RunsOf(d) : Works(r) => /\ Waited(run[r], row[d])
                                      /\ run[r].alone => OnlyRollbacksBeside(d)

\* A run that rolls back waited for nothing.
RollsAlong(d) == \A r \in RunsOf(d) : run[r].pc = "rolling" => ~run[r].alone

-----------------------------------------------------------------------------
LEMMA StartsOf ==
  ASSUME Assumptions, SysInv, [SysNext]_vars, NEW x \in Deploys, x \notin Running, x \in Running'
  PROVE  \/ ~HoldFresh
         \/ row'[x].kind = "rollback"
<1>1. CASE Aside(x)
  BY <1>1 DEF Aside, Life, Running
<1>2. CASE \E e \in Executors : ClaimsIt(e, x)
  BY <1>2 DEF ClaimsIt
<1>3. ASSUME NEW e \in Executors, Renew(e) PROVE FALSE
  <2>1. row'[x] = row[x] \/ Owned(e, x)
    BY <1>3, RenewSteps
  <2> QED
    BY <2>1 DEF Owned, Running
<1>4. ASSUME NEW e \in Executors, Crash(e) \/ Boot(e) PROVE FALSE
  BY <1>4 DEF Crash, Boot, Running
<1>5. ASSUME NEW e \in Executors, NEW s \in Scopes, StartRollback(e, x, s) PROVE row'[x].kind = "rollback"
  <2>1. [NewRow(s, "rollback") EXCEPT !.status = "running", !.by = e, !.live = TRUE].kind = "rollback"
    BY DEF NewRow, NoRow
  <2>2. Write(x, [NewRow(s, "rollback") EXCEPT !.status = "running", !.by = e, !.live = TRUE])
    BY <1>5 DEF StartRollback, InsertRollback
  <2> QED
    BY <2>1, <2>2 DEF Write, SysInv, TypeOK
<1>6. ~((\E r \in RunsOf(x) : GoesOn(r)) \/ SweepAct(x) \/ Lapse(x))
  BY StartsNothing
<1> QED
  BY <1>1, <1>2, <1>3, <1>4, <1>5, <1>6, StepFor, Zenon DEF StepOf

\* While d holds claims, what starts beside it is a rollback.
LEMMA BesideStays ==
  ASSUME Assumptions, SysInv, [SysNext]_vars, NEW d \in Deploys, row[d].hold = "fresh", OnlyRollbacksBeside(d)
  PROVE  OnlyRollbacksBeside(d)'
<1>1. HoldFresh
  BY DEF HoldFresh
<1>2. ASSUME NEW x \in RunningExcept(d)' PROVE row'[x].kind = "rollback"
  <2>1. x \in Deploys /\ x # d /\ x \in Running'
    BY DEF RunningExcept, Running
  <2>2. CASE x \in Running
    <3>1. row[x].kind = "rollback" /\ row[x].status # "absent"
      BY <2>1, <2>2 DEF OnlyRollbacksBeside, RunningExcept, Running
    <3> QED
      BY <2>1, <3>1, RowFacts
  <2>3. CASE x \notin Running
    BY <1>1, <2>1, <2>3, StartsOf
  <2> QED
    BY <2>2, <2>3
<1> QED
  BY <1>2 DEF OnlyRollbacksBeside

\* The sweeper acts on what runs: it requeues it or fails it, and frees the claims it held.
LEMMA SweepSteps ==
  ASSUME SysInv, NEW d \in Deploys, SweepAct(d)
  PROVE  \/ UNCHANGED row
         \/ /\ row[d].status = "running" /\ row'[d].status \in {"queued", "failed"}
            /\ row'[d].hold = "off" /\ row'[d].home = row[d].home
<1>0. row[d] \in Row /\ row \in [Deploys -> Row]
  BY RowType DEF SysInv, TypeOK
<1>1. ASSUME NEW stage, SweepRequeue(d, stage)
      PROVE  row'[d].status = "queued" /\ row'[d].hold = "off" /\ row'[d].home = row[d].home
  <2> DEFINE n == IF stage = "none" THEN row[d].attempts ELSE row[d].attempts + 1
  <2>1. row'[d] = [row[d] EXCEPT !.status = "queued", !.by = NoExec, !.live = FALSE, !.stage = "none",
                                 !.attempts = n, !.hold = "off"]
    BY <1>0, <1>1 DEF SweepRequeue, Write
  <2>2. \A z \in Row : \A v :
          LET q == [z EXCEPT !.status = "queued", !.by = NoExec, !.live = FALSE, !.stage = "none",
                             !.attempts = v, !.hold = "off"]
          IN q.status = "queued" /\ q.hold = "off" /\ q.home = z.home
    BY DEF Row
  <2> HIDE DEF n
  <2> QED
    BY <1>0, <2>1, <2>2
<1>2. ASSUME FailDeadDeploy(d)
      PROVE  row'[d].status = "failed" /\ row'[d].hold = "off" /\ row'[d].home = row[d].home
  <2>1. row'[d] = [row[d] EXCEPT !.status = "failed", !.hold = "off"]
    BY <1>0, <1>2 DEF FailDeadDeploy, Write
  <2>2. \A z \in Row : LET f == [z EXCEPT !.status = "failed", !.hold = "off"]
                       IN f.status = "failed" /\ f.hold = "off" /\ f.home = z.home
    BY DEF Row
  <2> QED
    BY <1>0, <2>1, <2>2
<1>3. UNCHANGED row \/ SweepRequeue(d, swept[d].stage) \/ FailDeadDeploy(d)
  BY Zenon DEF SweepAct
<1> QED
  BY <1>1, <1>2, <1>3 DEF SweepRequeue, FailDeadDeploy, Expired

LEMMA HeldRowStep ==
  ASSUME Assumptions, SysInv, [SysNext]_vars, NEW d \in Deploys, Placed(d), HoldsRow(d), Closes(d),
         HeldRow(row[d]), IsSelf(d) \/ row[d].status = "absent"
  PROVE  HeldRow(row'[d])
<1>0. row[d] \in Row /\ row \in [Deploys -> Row]
  BY RowType DEF SysInv, TypeOK
<1>1. CASE Aside(d)
  BY <1>1 DEF Aside, Life, HeldRow
<1>2. ASSUME NEW e \in Executors, ClaimsIt(e, d) PROVE HeldRow(row'[d])
  <2>1. \A z \in Row : \A slot \in {"none", "target"} :
          LET c == [z EXCEPT !.status = "running", !.by = e, !.live = TRUE, !.stage = "none",
               !.bumped = 0, !.claimSlot = slot, !.waiting = 0]
          IN c.hold = z.hold /\ c.status = "running"
    BY DEF Row
  <2>2. PICK slot \in {"none", "target"} : row'[d] = Claimed(d, e, slot)
    BY <1>2, Zenon DEF ClaimsIt
  <2>3. row'[d].hold = row[d].hold /\ row'[d].status = "running"
    BY <1>0, <2>1, <2>2 DEF Claimed
  <2> QED
    BY <1>2, <2>3 DEF ClaimsIt, HeldRow
<1>3. \A z \in Row, l \in BOOLEAN : LET n == [z EXCEPT !.live = l] IN n.status = z.status /\ n.hold = z.hold
  BY DEF Row
<1>4. ASSUME NEW e \in Executors, Renew(e) PROVE HeldRow(row'[d])
  <2>1. row'[d] = row[d] \/ row'[d] = [row[d] EXCEPT !.live = TRUE]
    BY <1>4, RenewSteps
  <2> QED
    BY <1>0, <1>3, <2>1 DEF HeldRow
<1>5. ASSUME NEW e \in Executors, Crash(e) \/ Boot(e) PROVE HeldRow(row'[d])
  BY <1>5 DEF Crash, Boot
<1>6. ASSUME NEW e \in Executors, NEW s \in Scopes, StartRollback(e, d, s) PROVE HeldRow(row'[d])
  <2>1. LET n == [NewRow(s, "rollback") EXCEPT !.status = "running", !.by = e, !.live = TRUE]
        IN n.status = "running" /\ n.hold = "off"
    BY DEF NewRow, NoRow
  <2>2. Write(d, [NewRow(s, "rollback") EXCEPT !.status = "running", !.by = e, !.live = TRUE])
    BY <1>6 DEF StartRollback, InsertRollback
  <2>3. row'[d].status = "running" /\ row'[d].hold = "off"
    BY <1>0, <2>1, <2>2 DEF Write
  <2> QED
    BY <2>3 DEF HeldRow
<1>7. ASSUME NEW r \in RunsOf(d), GoesOn(r) PROVE HeldRow(row'[d])
  <2>0. /\ HoldsRun(run[r], row[d]) /\ r \in Runs /\ r[1] = d /\ run[r] \in Run
        /\ run[r].pc = "requeueing" => run[r].onTarget
        /\ run[r].onTarget => ~IsSelf(d)
    BY RunTypes, RunFits DEF HoldsRow, Placed, SysInv
  <2>1. CASE Works(r) /\ RunStep(r)
    <3>1. WorkStep(d, run[r], run'[r], row[d], row'[d])
      BY <2>0, <2>1, WorkSteps DEF HoldsRun, Has, Works, Owned
    <3>2. row[d].status = "running" /\ ~run[r].onTarget
      BY <2>0, <2>1 DEF HoldsRun, Has, Works
    <3> QED
      BY <3>1, <3>2 DEF WorkStep, Same, Still, HeldRow
  <2>2. CASE LandMark(r) \/ ActOnAnswer(r)
    <3>1. Still(row[d], row'[d]) /\ row'[d].hold = row[d].hold
      BY <2>2, LateSteps
    <3> QED
      BY <3>1 DEF Still, HeldRow
  <2>3. CASE ~Works(r) /\ RunStep(r)
    <3>1. Close(r)
      <4>1. run[r].pc \in {"idle", "ended", "rolling", "finishing", "won"}
        BY <2>3 DEF Works
      <4> QED
        BY <2>3, <4>1 DEF RunStep, Only, Start, TakeLocal, AwaitLocal, EndWait, NeedLocal, Requeue, Build, Hold,
         WaitAlone, Fence, BeginSwap, StartSlot, CheckOpen, Commit, Throw, Settle, Leave
    <3>2. \A z \in Row : LET n == [z EXCEPT !.hold = "off"] IN n.status = z.status /\ n.hold = "off"
      BY DEF Row
    <3>3. row'[d] = row[d] \/ row'[d] = [row[d] EXCEPT !.hold = "off"]
      BY <1>0, <2>0, <3>1 DEF Close, ReleaseExclusive, Write
    <3> QED
      BY <1>0, <3>2, <3>3 DEF HeldRow
  <2>4. CASE EndRollback(r)
    <3>1. PICK o \in {"success", "failed", "deleted"} : Write(d, [row[d] EXCEPT !.status = o])
      BY <2>0, <2>4 DEF EndRollback, Only, FinishRollback
    <3>2. row'[d].status \notin {"queued", "running"}
      BY <1>0, <3>1 DEF Write
    <3> QED
      BY <3>2 DEF HeldRow
  <2> QED
    BY <1>7, <2>1, <2>2, <2>3, <2>4 DEF GoesOn
<1>8. CASE SweepAct(d)
  BY <1>8, SweepSteps DEF HeldRow
<1>9. CASE Lapse(d)
  <2>1. row'[d] = [row[d] EXCEPT !.live = FALSE]
    BY <1>0, <1>9 DEF Lapse, LapseLease, Write
  <2> QED
    BY <1>0, <1>3, <2>1 DEF HeldRow
<1> QED
  BY <1>1, <1>2, <1>4, <1>5, <1>6, <1>7, <1>8, <1>9, StepFor, Zenon DEF StepOf

LEMMA MildWaited ==
  ASSUME NEW x, NEW y, NEW a, NEW b, Mild(x, y), Waited(x, a), b.hold = a.hold
  PROVE  Waited(y, b)
BY DEF Mild, Waited

\* A run of Vardo's own that goes on holds claims from its wait on, and knows that it
\* was alone only from a wait that ended with nothing else running.
LEMMA WorkWaited ==
  ASSUME NEW d, NEW x \in Run, NEW y, NEW a, NEW b, WorkStep(d, x, y, a, b), IsSelf(d),
         Waited(x, a), HeldRow(a), a.status = "running", a.hold \in Holds,
         y.pc \notin {"idle", "ended", "rolling", "finishing", "won"},
         x.pc \notin {"idle", "ended", "rolling", "finishing", "won"}, x.pc # "leaving"
  PROVE  /\ Waited(y, b)
         /\ y.alone => a.hold = "fresh" /\ (x.alone \/ RunningExcept(d) = {})
<1> DEFINE alone == RunningExcept(d) = {}
<1>1. CASE x.pc = "waiting" /\ y = [x EXCEPT !.pc = "fence", !.alone = alone] /\ b.hold = a.hold
  <2>1. \A v : LET z == [x EXCEPT !.pc = "fence", !.alone = v] IN z.pc = "fence" /\ z.alone = v
    BY DEF Run
  <2>2. y.pc = "fence" /\ y.alone = alone
    BY <1>1, <2>1
  <2> QED
    BY <1>1, <2>2 DEF Waited
<1>2. ASSUME y.alone = x.alone, b.hold = a.hold, x.pc # "waiting", x.pc # "holding",
             y.pc \in {"building", "requeueing", "starting", "holding"} => x.pc \in {"starting", "building"},
             y.pc \in {"fence", "fenced", "swapping", "checking", "committing"}
               => x.pc \in {"fence", "fenced", "swapping", "checking", "committing"},
             y.pc # "waiting"
      PROVE  Waited(y, b) /\ (y.alone => a.hold = "fresh" /\ (x.alone \/ alone))
  BY <1>2 DEF Waited
<1>3. CASE x.pc = "holding" /\ y = [x EXCEPT !.pc = "waiting"] /\ b.hold = IF a.hold = "off" THEN "fresh" ELSE a.hold
  <2>1. y.pc = "waiting" /\ y.alone = x.alone /\ b.hold = "fresh"
    BY <1>3 DEF Run, HeldRow, Holds
  <2> QED
    BY <1>3, <2>1 DEF Waited
<1>4. CASE x.pc = "waiting" /\ y = [x EXCEPT !.pc = "stopping"]
  <2>1. y.pc = "stopping" /\ y.alone = x.alone
    BY <1>4 DEF Run
  <2> QED
    BY <1>4, <2>1 DEF Waited
<1>5. CASE x.pc # "waiting" /\ y = [x EXCEPT !.pc = "stopping"] /\ b.hold = a.hold
  <2>1. y.pc = "stopping" /\ y.alone = x.alone
    BY <1>5 DEF Run
  <2> QED
    BY <1>5, <2>1 DEF Waited
<1>6. ASSUME b.hold = a.hold,
             \/ x.pc = "starting"
                /\ y = [x EXCEPT !.pc = "building", !.stage = "build", !.marks = @ \cup {"build"}]
             \/ x.pc = "building" /\ y = x
             \/ x.pc = "building" /\ y = [x EXCEPT !.onTarget = FALSE]
             \/ x.pc = "building" /\ x.onTarget /\ y = [x EXCEPT !.pc = "requeueing"]
             \/ x.pc = "building" /\ y = [x EXCEPT !.pc = IF IsSelf(d) THEN "holding" ELSE "fence"]
      PROVE  Waited(y, b) /\ (y.alone => a.hold = "fresh" /\ (x.alone \/ alone))
  <2>1. y.alone = x.alone /\ y.pc \in {"building", "requeueing", "holding"} /\ x.pc \in {"starting", "building"}
    BY <1>6 DEF Run
  <2> QED
    BY <1>2, <1>6, <2>1
<1>7. ASSUME b.hold = a.hold,
             \/ x.pc = "fenced"
                /\ y = [x EXCEPT !.pc = "swapping", !.stage = "deploy", !.marks = @ \cup {"deploy"}]
             \/ x.pc = "swapping" /\ y = [x EXCEPT !.pc = "checking"]
             \/ x.pc = "checking" /\ y = [x EXCEPT !.pc = "committing"]
             \/ x.pc = "fence" /\ y = [x EXCEPT !.pc = "fenced"]
      PROVE  Waited(y, b) /\ (y.alone => a.hold = "fresh" /\ (x.alone \/ alone))
  <2>1. /\ y.alone = x.alone
        /\ y.pc \in {"fenced", "swapping", "checking", "committing"}
        /\ x.pc \in {"fence", "fenced", "swapping", "checking", "committing"}
    BY <1>7 DEF Run
  <2> QED
    BY <1>2, <1>7, <2>1
<1>8. ASSUME \/ x.pc = "requeueing" /\ y = [x EXCEPT !.pc = "finishing"]
             \/ x.pc = "committing" /\ y = [x EXCEPT !.pc = "won"]
             \/ x.pc = "stopping" /\ y = [x EXCEPT !.pc = "finishing"]
      PROVE  FALSE
  BY <1>8 DEF Run
<1>9. Same(a, b) => b.hold = a.hold
  BY DEF Same
<1> QED
  BY <1>1, <1>3, <1>4, <1>5, <1>6, <1>7, <1>8, <1>9, SMTT(60) DEF WorkStep

LEMMA AloneStep ==
  ASSUME Assumptions, SysInv, [SysNext]_vars, ProcFits, NEW d \in Deploys, Placed(d), HoldsRow(d),
         Closes(d), Alone(d), IsSelf(d) \/ row[d].status = "absent", ~LosesLease(d)
  PROVE  Alone(d)'
<1>1. RunsOf(d)' = RunsOf(d)
  BY DEF RunsOf
<1>2. HeldRow(row'[d])
  BY HeldRowStep DEF Alone
<1>3. ASSUME NEW r \in RunsOf(d), Works(r)'
      PROVE  Waited(run'[r], row'[d]) /\ (run'[r].alone => OnlyRollbacksBeside(d)')
  <2>0. run[r] \in Run /\ row[d] \in Row /\ row[d].hold \in Holds
    <3>1. row[d] \in Row
      BY RowType DEF SysInv
    <3> QED
      BY <3>1, RunTypes, RunFits DEF SysInv, RunsFit, Row
  <2>1. Moves(d, run[r], run'[r], row[d], row'[d])
    BY <1>3, WorkMoves DEF Steady
  <2>2. Works(r) => /\ Waited(run[r], row[d]) /\ (run[r].alone => OnlyRollbacksBeside(d))
                    /\ row[d].status = "running" /\ run[r].pc # "leaving" /\ IsSelf(d)
    BY DEF Alone, HoldsRow, HoldsRun, Has, Works
  <2>3. CASE Works(r) /\ Mild(run[r], run'[r]) /\ row'[d].hold = row[d].hold
    <3>1. Waited(run'[r], row'[d])
      BY <2>2, <2>3, MildWaited
    <3>2. run'[r].alone => run[r].alone /\ row[d].hold = "fresh"
      BY <2>2, <2>3 DEF Mild, Waited
    <3> QED
      BY <2>2, <2>3, <3>1, <3>2, BesideStays
  <2>4. CASE Works(r) /\ WorkStep(d, run[r], run'[r], row[d], row'[d])
    <3>1. /\ Waited(run'[r], row'[d])
          /\ run'[r].alone => row[d].hold = "fresh" /\ (run[r].alone \/ RunningExcept(d) = {})
      <4>1. HeldRow(row[d])
        BY DEF Alone
      <4> QED
        BY <1>3, <2>0, <2>2, <2>4, <4>1, WorkWaited DEF Works
    <3>2. RunningExcept(d) = {} => OnlyRollbacksBeside(d)
      BY DEF OnlyRollbacksBeside
    <3> QED
      BY <2>2, <2>4, <3>1, <3>2, BesideStays
  <2>5. CASE \E e \in Executors, t \in BOOLEAN : run'[r] = NewRun(e, "starting", t)
    <3>1. run'[r].pc = "starting" /\ run'[r].alone = FALSE
      BY <2>5 DEF NewRun, NoRun
    <3> QED
      BY <3>1 DEF Waited
  <2> QED
    BY <2>1, <2>3, <2>4, <2>5, Zenon DEF Moves, Works
<1> QED
  BY <1>1, <1>2, <1>3, Zenon DEF Alone

LEMMA RollsStep ==
  ASSUME Assumptions, SysInv, [SysNext]_vars, NEW d \in Deploys, Placed(d), RollsAlong(d)
  PROVE  RollsAlong(d)'
<1>0. /\ RunsOf(d)' = RunsOf(d) /\ run \in [Runs -> Run]
      /\ \A r \in RunsOf(d) : r \in Runs /\ r[1] = d
  BY RunTypes DEF RunsOf, SysInv, RunsFit
<1> SUFFICES ASSUME NEW r \in RunsOf(d), run'[r].pc = "rolling" PROVE ~run'[r].alone
  BY <1>0 DEF RollsAlong
<1>1. ASSUME Mild(run[r], run'[r]) PROVE ~run'[r].alone
  BY <1>1 DEF Mild, RollsAlong
<1>2. CASE run'[r] = run[r]
  BY <1>2 DEF RollsAlong
<1>3. ASSUME NEW e \in Executors, ClaimsIt(e, d) PROVE ~run'[r].alone
  BY <1>2, <1>3 DEF ClaimsIt, NewRun, NoRun
<1>4. ASSUME NEW e \in Executors, Renew(e) PROVE ~run'[r].alone
  BY <1>1, <1>4, RenewSteps
<1>5. ASSUME NEW e \in Executors, Crash(e) PROVE ~run'[r].alone
  BY <1>0, <1>2, <1>5 DEF Crash, EndedRun, NoRun
<1>6. ASSUME NEW e \in Executors, NEW s \in Scopes, StartRollback(e, d, s) PROVE ~run'[r].alone
  BY <1>0, <1>2, <1>6 DEF StartRollback, Set, NewRun, NoRun
<1>7. ASSUME NEW q \in RunsOf(d), GoesOn(q) PROVE ~run'[r].alone
  <2>1. CASE r # q
    BY <1>2, <1>7, <2>1, OtherRunsStay
  <2>2. CASE r = q
    BY <1>1, <1>7, <2>2, GoesOnKeeps DEF Proceeds, EndedRun, NoRun
  <2> QED
    BY <2>1, <2>2
<1>8. CASE SweepAct(d) \/ Lapse(d)
  BY <1>2, <1>8 DEF SweepAct, Lapse, executorVars
<1>9. CASE RunsStay(d)
  BY <1>2, <1>9 DEF RunsStay
<1>10. ASSUME NEW e \in Executors, Boot(e) PROVE ~run'[r].alone
  BY <1>2, <1>10 DEF Boot
<1> QED
  BY <1>3, <1>4, <1>5, <1>6, <1>7, <1>8, <1>9, <1>10, StepFor, Zenon DEF StepOf

SelfAlone == \A d \in Deploys : /\ RollsAlong(d)
                                /\ IsSelf(d) \/ row[d].status = "absent" => Alone(d)

LEMMA SelfAloneStep ==
  ASSUME Assumptions, Base, SteadyHolds, SelfAlone, SteadyKept, [SysNext]_vars
  PROVE  SelfAlone'
<1>1. ASSUME NEW d \in Deploys, IsSelf(d) \/ row[d].status = "absent" PROVE Alone(d)'
  <2>1. HoldsRow(d) /\ Closes(d) /\ Placed(d) /\ SysInv /\ ProcFits /\ Alone(d)
    BY <1>1 DEF SteadyHolds, SelfAlone, Base, Steady
  <2>2. ~LosesLease(d)
    BY <1>1 DEF SteadyKept, LosesLease, Running, Steady
  <2> QED
    BY <1>1, <2>1, <2>2, AloneStep
<1>2. ASSUME NEW d \in Deploys, IsSelf(d)' \/ row'[d].status = "absent"
      PROVE  IsSelf(d) \/ row[d].status = "absent"
  BY <1>2, RowFacts DEF Base, IsSelf
<1>3. \A d \in Deploys : RollsAlong(d)'
  BY RollsStep DEF Base, SelfAlone
<1> QED
  BY <1>1, <1>2, <1>3 DEF SelfAlone

LEMMA SelfAloneStarts ==
  ASSUME Assumptions, SysInit
  PROVE  SelfAlone
<1>1. Base /\ \A d \in Deploys : row[d].status = "absent"
  BY BaseStarts
<1>2. \A d \in Deploys : \A r \in RunsOf(d) : ~Works(r) /\ run[r].pc # "rolling"
  BY <1>1, AbsentIdle DEF Base
<1> QED
  BY <1>1, <1>2 DEF SelfAlone, Alone, RollsAlong, HeldRow

-----------------------------------------------------------------------------
\* A swap of Vardo's own app that waited until nothing else ran stays alone to its end,
\* whatever happens to other deploys' leases: the hold is up from before the wait to the end
\* of the run, no claim gets past it, and nothing but a rollback runs without a claim.
THEOREM SelfSwapsApart ==
  ASSUME QueueAssumption, ExecutorAssumption, SystemAssumption
  PROVE  SysSpec /\ [][SteadyKept]_vars => []SelfSwapsAlone
<1>0. Assumptions
  BY DEF Assumptions
<1> DEFINE I == Base /\ SteadyHolds /\ SelfAlone
<1>1. SysInit => I
  BY <1>0, SteadyStarts, SelfAloneStarts
<1>2. I /\ [SysNext]_vars /\ [SteadyKept]_vars => I'
  <2>1. ASSUME UNCHANGED vars PROVE SteadyKept
    BY <2>1 DEF vars, SteadyKept, LosesLease, Running
  <2> QED
    BY <1>0, <2>1, BaseStep, SteadyHoldsStep, SelfAloneStep
<1>3. I => SelfSwapsAlone
  <2> SUFFICES ASSUME I, NEW r \in Touching, IsSelf(r[1]), run[r].alone
               PROVE  \A d \in RunningExcept(r[1]) : row[d].kind = "rollback"
    BY DEF SelfSwapsAlone
  <2>1. r[1] \in Deploys /\ r \in RunsOf(r[1]) /\ (Works(r) \/ run[r].pc = "rolling")
    BY DEF Touching, Runs, RunsOf, Works
  <2>2. OnlyRollbacksBeside(r[1])
    BY <2>1 DEF SelfAlone, Alone, RollsAlong
  <2> QED
    BY <2>2 DEF OnlyRollbacksBeside
<1> HIDE DEF I
<1> QED
  BY <1>1, <1>2, <1>3, PTL DEF SysSpec

\* So it does as long as nothing stalls, with any number of build targets.
THEOREM SelfSwapsApartWithoutStalls ==
  ASSUME QueueAssumption, ExecutorAssumption, SystemAssumption, MaxStalls = 0
  PROVE  SysSpec => []SelfSwapsAlone
<1>1. SysSpec => [][SteadyKept]_vars
  BY LeasesAreKept DEF SteadyKept
<1> QED
  BY <1>1, SelfSwapsApart, PTL

-------------------------------------------------------------------------------
(* The hold is handed over to the new slot.                                *)

\* Only a success of Vardo's own deploy has a slot on record.
Homed(d) ==
  row[d].home # "none" => /\ row[d].status \in {"success", "rolled_back"}
                          /\ row[d].kind # "rollback" /\ IsSelf(d)

\* Its hold goes once a process of that slot is there.
Resumed(d) ==
  row[d].status = "success" /\ row[d].home # "none" /\ row[d].hold = "off"
    => \E e \in Executors : SlotOf[e] = row[d].home /\ proc[e] # "unborn"

LEMMA BornStays ==
  ASSUME ProcFits, SysInv, [SysNext]_vars, NEW e \in Executors, proc[e] # "unborn"
  PROVE  proc'[e] # "unborn"
<1>1. CASE UNCHANGED proc
  BY <1>1
<1>2. ASSUME NEW x \in Executors, Crash(x) \/ Boot(x) PROVE proc'[e] # "unborn"
  BY <1>2 DEF Crash, Boot, ProcFits
<1>3. CASE Executing
  <2>1. ASSUME NEW r \in Runs, GoesOn(r) PROVE UNCHANGED proc
    BY <2>1, RunWrites
  <2>2. ASSUME NEW x \in Executors,
               \/ Claim(x) \/ ClearHold(x) \/ Renew(x)
               \/ \E d \in Deploys, s \in Scopes : StartRollback(x, d, s)
        PROVE  UNCHANGED proc
    BY <2>2, Zenon DEF Claim, ClearHold, Renew, StartRollback, executorVars
  <2>3. ASSUME NEW r \in Runs, NEW d \in Deploys, Rescue(r, d) PROVE UNCHANGED proc
    BY <2>3 DEF Rescue, Only
  <2> QED
    BY <1>1, <1>2, <1>3, <2>1, <2>2, <2>3, Zenon DEF Executing
<1>4. CASE UNCHANGED executorVars
  BY <1>4 DEF executorVars
<1> QED
  BY <1>1, <1>3, <1>4, Zenon DEF SysNext, vars, Client, Lapse, Age, Expire, RequestCancel, FinishCancel,
     SweepRead, SweepAct

\* What a run's write leaves on record.
LEMMA RunHomes ==
  ASSUME Assumptions, SysInv, NEW d \in Deploys, NEW r \in RunsOf(d), GoesOn(r), run[r].pc # "rolling"
  PROVE  \/ row'[d].home = row[d].home /\ (row'[d].status = row[d].status \/ row[d].status = "running")
         \/ row'[d].status = "success" /\ row[d].status = "running" /\ IsSelf(d)
<1>0. row[d] \in Row /\ row \in [Deploys -> Row] /\ RunsFit /\ r \in Runs /\ r[1] = d
  BY RowType, RunTypes DEF SysInv, TypeOK
<1>1. CASE RunStep(r)
  <2>1. UNCHANGED row \/ ExecutorWrite(run[r].exec, d)
    BY <1>0, <1>1, RunStepWrites
  <2> DEFINE e == run[r].exec
  <2>2. ASSUME NEW new, Write(d, new) PROVE row'[d] = new
    BY <1>0, <2>2 DEF Write
  <2>3. CASE TakeLocalSlot(e, d)
    <3>1. \A z \in Row : LET n == [z EXCEPT !.claimSlot = "none"] IN n.home = z.home /\ n.status = z.status
      BY DEF Row
    <3> QED
      BY <1>0, <2>2, <2>3, <3>1 DEF TakeLocalSlot
  <2>4. CASE AwaitLocalSlot(e, d) \/ EndLocalWait(d)
    <3>1. \A z \in Row : \A v : LET n == [z EXCEPT !.waiting = v] IN n.home = z.home /\ n.status = z.status
      BY DEF Row
    <3>2. PICK v : Write(d, [row[d] EXCEPT !.waiting = v])
      BY <2>4 DEF AwaitLocalSlot, EndLocalWait
    <3>3. row'[d] = [row[d] EXCEPT !.waiting = v]
      BY <2>2, <3>2
    <3> QED
      BY <1>0, <3>1, <3>3
  <2>5. CASE RequeueForLocalSlot(e, d)
    <3>1. \A z \in Row : [z EXCEPT !.status = "queued", !.by = NoExec, !.live = FALSE,
                           !.stage = "none", !.claimSlot = "local", !.waiting = 0].home = z.home
      BY DEF Row
    <3>2. row'[d] = [row[d] EXCEPT !.status = "queued", !.by = NoExec, !.live = FALSE,
                           !.stage = "none", !.claimSlot = "local", !.waiting = 0]
      BY <2>2, <2>5 DEF RequeueForLocalSlot
    <3>3. row[d].status = "running"
      BY <2>5 DEF RequeueForLocalSlot, Owned
    <3> QED
      BY <1>0, <3>1, <3>2, <3>3
  <2>6. ASSUME NEW s, MarkStage(e, d, s) PROVE row'[d].home = row[d].home /\ row'[d].status = row[d].status
    <3>1. \A z \in Row : LET n == [z EXCEPT !.stage = s] IN n.home = z.home /\ n.status = z.status
      BY DEF Row
    <3>2. row'[d] = [row[d] EXCEPT !.stage = s]
      BY <2>2, <2>6 DEF MarkStage
    <3> QED
      BY <1>0, <3>1, <3>2
  <2>7. CASE EnterSwap(e, d)
    <3>1. \A z \in Row : LET n == [z EXCEPT !.stage = "deploy", !.live = TRUE]
                         IN n.home = z.home /\ n.status = z.status
      BY DEF Row
    <3>2. row'[d] = [row[d] EXCEPT !.stage = "deploy", !.live = TRUE]
      BY <2>2, <2>7 DEF EnterSwap
    <3> QED
      BY <1>0, <3>1, <3>2
  <2>8. CASE DropSupersede(d)
    <3>1. \A z \in Row : \A c : LET n == [z EXCEPT !.cancel = c] IN n.home = z.home /\ n.status = z.status
      BY DEF Row
    <3> DEFINE c == IF row[d].cancel = "supersede" THEN "none" ELSE row[d].cancel
    <3>2. row'[d] = [row[d] EXCEPT !.cancel = c]
      BY <2>2, <2>8 DEF DropSupersede
    <3> HIDE DEF c
    <3> QED
      BY <1>0, <3>1, <3>2
  <2>9. CASE SetExclusive(d) \/ ReleaseExclusive(d)
    <3>1. \A z \in Row : \A h : LET n == [z EXCEPT !.hold = h] IN n.home = z.home /\ n.status = z.status
      BY DEF Row
    <3>2. PICK h : Write(d, [row[d] EXCEPT !.hold = h])
      BY <2>9 DEF SetExclusive, ReleaseExclusive
    <3>3. row'[d] = [row[d] EXCEPT !.hold = h]
      BY <2>2, <3>2
    <3> QED
      BY <1>0, <3>1, <3>3
  <2>10. ASSUME NEW o \in Outcomes, NEW t, Finish(e, d, o, t)
         PROVE  \/ row'[d].home = row[d].home /\ row[d].status = "running"
                \/ row'[d].status = "success" /\ row[d].status = "running" /\ IsSelf(d)
    <3> DEFINE h == IF o = "success" /\ IsSelf(d) THEN OtherSlot(SlotOf[e]) ELSE row[d].home
               k == IF o = "superseded" THEN t ELSE row[d].successor
    <3>1. row'[d] = [row[d] EXCEPT !.status = o, !.successor = k, !.home = h] /\ row[d].status = "running"
      BY <2>2, <2>10 DEF Finish, Owned
    <3>2. \A z \in Row : \A v, w : LET n == [z EXCEPT !.status = o, !.successor = v, !.home = w]
                                   IN n.status = o /\ n.home = w
      BY DEF Row
    <3>3. h = row[d].home \/ (o = "success" /\ IsSelf(d))
      OBVIOUS
    <3> HIDE DEF h, k
    <3> QED
      BY <1>0, <3>1, <3>2, <3>3
  <2> HIDE DEF e
  <2> QED
    BY <2>1, <2>3, <2>4, <2>5, <2>6, <2>7, <2>8, <2>9, <2>10 DEF ExecutorWrite, e
<1>2. CASE LandMark(r) \/ ActOnAnswer(r)
  <2>1. Still(row[d], row'[d])
    BY <1>2, LateSteps
  <2> QED
    BY <2>1 DEF Still
<1>3. ~EndRollback(r)
  BY DEF EndRollback, Only
<1> QED
  BY <1>1, <1>2, <1>3 DEF GoesOn

LEMMA HomedStep ==
  ASSUME Assumptions, SysInv, [SysNext]_vars, NEW d \in Deploys, Placed(d), Homed(d)
  PROVE  Homed(d)'
<1>0. row[d] \in Row /\ row \in [Deploys -> Row]
  BY RowType DEF SysInv, TypeOK
<1>1. row[d].status # "absent" =>
        /\ row'[d].kind = row[d].kind /\ (IsSelf(d)' <=> IsSelf(d))
  BY RowFacts DEF IsSelf
<1>2. ASSUME row'[d].home = row[d].home, row'[d].status = row[d].status PROVE Homed(d)'
  BY <1>1, <1>2 DEF Homed
<1>3. ASSUME row'[d].home = row[d].home, row[d].home = "none" PROVE Homed(d)'
  BY <1>3 DEF Homed
<1>4. CASE Aside(d)
  BY <1>1, <1>4 DEF Aside, Life, Homed
<1>5. ASSUME NEW e \in Executors, ClaimsIt(e, d) PROVE Homed(d)'
  <2>1. \A z \in Row : \A slot \in {"none", "target"} :
          [z EXCEPT !.status = "running", !.by = e, !.live = TRUE, !.stage = "none",
               !.bumped = 0, !.claimSlot = slot, !.waiting = 0].home = z.home
    BY DEF Row
  <2>2. PICK slot \in {"none", "target"} : row'[d] = Claimed(d, e, slot)
    BY <1>5, Zenon DEF ClaimsIt
  <2>3. row'[d].home = row[d].home
    BY <1>0, <2>1, <2>2 DEF Claimed
  <2> QED
    BY <1>3, <1>5, <2>3 DEF ClaimsIt, Homed
<1>6. \A z \in Row, l \in BOOLEAN : LET n == [z EXCEPT !.live = l] IN n.status = z.status /\ n.home = z.home
  BY DEF Row
<1>7. ASSUME NEW e \in Executors, Renew(e) PROVE Homed(d)'
  <2>1. row'[d] = row[d] \/ row'[d] = [row[d] EXCEPT !.live = TRUE]
    BY <1>7, RenewSteps
  <2> QED
    BY <1>0, <1>2, <1>6, <2>1
<1>8. ASSUME NEW e \in Executors, Crash(e) \/ Boot(e) PROVE Homed(d)'
  BY <1>2, <1>8 DEF Crash, Boot
<1>9. ASSUME NEW e \in Executors, NEW s \in Scopes, StartRollback(e, d, s) PROVE Homed(d)'
  <2>1. [NewRow(s, "rollback") EXCEPT !.status = "running", !.by = e, !.live = TRUE].home = "none"
    BY DEF NewRow, NoRow
  <2>2. Write(d, [NewRow(s, "rollback") EXCEPT !.status = "running", !.by = e, !.live = TRUE])
    BY <1>9 DEF StartRollback, InsertRollback
  <2>3. row'[d].home = "none"
    BY <1>0, <2>1, <2>2 DEF Write
  <2> QED
    BY <2>3 DEF Homed
<1>10. ASSUME NEW r \in RunsOf(d), GoesOn(r) PROVE Homed(d)'
  <2>1. CASE run[r].pc # "rolling"
    <3>1. row[d].kind # "rollback" /\ row[d].status # "absent"
      <4>1. Fits(run[r], d) /\ Live(r)
        BY <1>10, RunTypes, RunFits DEF SysInv, GoesOn
      <4> QED
        BY <2>1, <4>1 DEF Fits, Live, Worked
    <3>2. \/ row'[d].home = row[d].home /\ (row'[d].status = row[d].status \/ row[d].status = "running")
          \/ row'[d].status = "success" /\ row[d].status = "running" /\ IsSelf(d)
      BY <1>10, <2>1, RunHomes
    <3> QED
      BY <1>1, <3>1, <3>2 DEF Homed
  <2>2. CASE run[r].pc = "rolling"
    <3>1. row[d].kind = "rollback"
      BY <2>2 DEF Placed
    <3>2. row'[d].home = row[d].home
      <4>1. CASE EndRollback(r)
        <5>1. PICK o \in {"success", "failed", "deleted"} : Write(d, [row[d] EXCEPT !.status = o])
          BY <4>1, RunTypes DEF EndRollback, Only, FinishRollback
        <5>2. row'[d] = [row[d] EXCEPT !.status = o]
          BY <1>0, <5>1 DEF Write
        <5> QED
          BY <1>0, <5>2 DEF Row
      <4>2. CASE LandMark(r) \/ ActOnAnswer(r)
        BY <4>2, LateSteps DEF Still
      <4>3. ~RunStep(r)
        BY <2>2 DEF RunStep, Only, Start, TakeLocal, AwaitLocal, EndWait, NeedLocal, Requeue, Build, Hold,
         WaitAlone, Fence, BeginSwap, StartSlot, CheckOpen, Commit, Throw, Settle, Leave, Close
      <4> QED
        BY <1>10, <4>1, <4>2, <4>3 DEF GoesOn
    <3> QED
      BY <1>3, <3>1, <3>2 DEF Homed
  <2> QED
    BY <2>1, <2>2
<1>11. CASE SweepAct(d)
  BY <1>2, <1>3, <1>11, SweepSteps DEF Homed
<1>12. CASE Lapse(d)
  <2>1. row'[d] = [row[d] EXCEPT !.live = FALSE]
    BY <1>0, <1>12 DEF Lapse, LapseLease, Write
  <2> QED
    BY <1>0, <1>2, <1>6, <2>1
<1> QED
  BY <1>4, <1>5, <1>7, <1>8, <1>9, <1>10, <1>11, <1>12, StepFor, Zenon DEF StepOf

\* The step after which a success of Vardo's own has no hold.
LEMMA ResumedStep ==
  ASSUME Assumptions, SysInv, [SysNext]_vars, ProcFits, NEW d \in Deploys, Placed(d),
         Homed(d), Homed(d)', Resumed(d),
         IsSelf(d) => HoldsRow(d) /\ Closes(d) /\ Alone(d)
  PROVE  Resumed(d)'
<1> SUFFICES ASSUME row'[d].status = "success", row'[d].home # "none", row'[d].hold = "off"
             PROVE  \E e \in Executors : SlotOf[e] = row'[d].home /\ proc'[e] # "unborn"
  BY DEF Resumed
<1>0. row[d] \in Row /\ row \in [Deploys -> Row] /\ row'[d].kind # "rollback" /\ IsSelf(d)'
  BY RowType DEF SysInv, TypeOK, Homed
<1>1. row[d].status # "absent" => row'[d].kind = row[d].kind /\ IsSelf(d)
  BY <1>0, RowFacts DEF IsSelf
<1>2. ASSUME row[d].status = "success", row[d].home = row'[d].home, row[d].hold = "off"
      PROVE  \E e \in Executors : SlotOf[e] = row'[d].home /\ proc'[e] # "unborn"
  BY <1>2, BornStays DEF Resumed
<1>3. CASE Aside(d)
  <2>1. row[d].status = "success" /\ row'[d].home = row[d].home
    BY <1>3 DEF Aside, Life
  <2>2. CASE row[d].hold = "off"
    BY <1>2, <2>1, <2>2
  <2>3. CASE row[d].hold # "off"
    <3>1. PICK e \in Executors : SlotOf[e] = row[d].home /\ proc[e] = "up"
      BY <1>3, <2>1, <2>3 DEF Aside, DropsHold
    <3>2. proc'[e] # "unborn"
      BY <3>1, BornStays
    <3> QED
      BY <2>1, <3>1, <3>2
  <2> QED
    BY <2>2, <2>3
<1>4. \A z \in Row, l \in BOOLEAN : LET n == [z EXCEPT !.live = l]
                                    IN n.status = z.status /\ n.home = z.home /\ n.hold = z.hold
  BY DEF Row
<1>5. ASSUME NEW e \in Executors, ClaimsIt(e, d) PROVE FALSE
  <2>1. \A z \in Row : \A slot \in {"none", "target"} :
          [z EXCEPT !.status = "running", !.by = e, !.live = TRUE, !.stage = "none",
               !.bumped = 0, !.claimSlot = slot, !.waiting = 0].status = "running"
    BY DEF Row
  <2>2. PICK slot \in {"none", "target"} : row'[d] = Claimed(d, e, slot)
    BY <1>5, Zenon DEF ClaimsIt
  <2> QED
    BY <1>0, <2>1, <2>2 DEF Claimed
<1>6. CASE row'[d] = row[d] \/ \E l \in BOOLEAN : row'[d] = [row[d] EXCEPT !.live = l]
  <2>1. row'[d].status = row[d].status /\ row'[d].home = row[d].home /\ row'[d].hold = row[d].hold
    <3>1. ASSUME NEW l \in BOOLEAN, row'[d] = [row[d] EXCEPT !.live = l]
          PROVE  row'[d].status = row[d].status /\ row'[d].home = row[d].home /\ row'[d].hold = row[d].hold
      <4>1. LET n == [row[d] EXCEPT !.live = l]
            IN n.status = row[d].status /\ n.home = row[d].home /\ n.hold = row[d].hold
        BY <1>0, <1>4, Zenon
      <4> QED
        BY <3>1, <4>1
    <3> QED
      BY <1>6, <3>1
  <2> QED
    BY <1>2, <2>1
<1>7. ASSUME NEW e \in Executors, Renew(e)
      PROVE  row'[d] = row[d] \/ \E l \in BOOLEAN : row'[d] = [row[d] EXCEPT !.live = l]
  BY <1>7, RenewSteps
<1>8. ASSUME NEW e \in Executors, Crash(e) \/ Boot(e) PROVE row'[d] = row[d]
  BY <1>8 DEF Crash, Boot
<1>9. ASSUME NEW e \in Executors, NEW s \in Scopes, StartRollback(e, d, s) PROVE FALSE
  <2>1. [NewRow(s, "rollback") EXCEPT !.status = "running", !.by = e, !.live = TRUE].status = "running"
    BY DEF NewRow, NoRow
  <2>2. Write(d, [NewRow(s, "rollback") EXCEPT !.status = "running", !.by = e, !.live = TRUE])
    BY <1>9 DEF StartRollback, InsertRollback
  <2> QED
    BY <1>0, <2>1, <2>2 DEF Write
<1>10. ASSUME NEW r \in RunsOf(d), GoesOn(r)
       PROVE  \E e \in Executors : SlotOf[e] = row'[d].home /\ proc'[e] # "unborn"
  <2>0. /\ run[r].pc # "rolling" /\ row[d].status # "absent" /\ IsSelf(d)
        /\ HoldsRun(run[r], row[d]) /\ ClosesRun(run[r], r[2], row[d], JobsOf(d))
        /\ r \in Runs /\ r[1] = d /\ run[r] \in Run
        /\ run[r].pc = "requeueing" => run[r].onTarget
    <3>1. Fits(run[r], d) /\ Live(r) /\ r \in Runs /\ r[1] = d /\ run[r] \in Run
      BY <1>10, RunTypes, RunFits DEF SysInv, GoesOn
    <3>2. row[d].status # "absent"
      BY <3>1 DEF Fits, Live, Worked, Placed
    <3>3. run[r].pc # "rolling"
      BY <1>0, <1>1, <3>2 DEF Placed
    <3> QED
      BY <1>1, <3>1, <3>2, <3>3 DEF HoldsRow, Closes, Placed
  <2>1. CASE Works(r) /\ RunStep(r)
    <3>1. WorkStep(d, run[r], run'[r], row[d], row'[d])
      BY <2>0, <2>1, WorkSteps DEF HoldsRun, Has, Works, Owned
    <3>2. row[d].status = "running" /\ Waited(run[r], row[d]) /\ row[d].home = "none"
      BY <2>0, <2>1 DEF HoldsRun, Has, Works, Alone, Homed
    <3> QED
      BY <3>1, <3>2 DEF WorkStep, Same, Still, Waited
  <2>2. CASE LandMark(r) \/ ActOnAnswer(r)
    <3>1. Still(row[d], row'[d]) /\ row'[d].hold = row[d].hold
      BY <2>2, LateSteps
    <3> QED
      BY <1>2, <3>1 DEF Still
  <2>3. CASE ~Works(r) /\ RunStep(r)
    <3>1. Close(r)
      <4>1. run[r].pc \in {"idle", "ended", "rolling", "finishing", "won"}
        BY <2>3 DEF Works
      <4> QED
        BY <2>3, <4>1 DEF RunStep, Only, Start, TakeLocal, AwaitLocal, EndWait, NeedLocal, Requeue, Build, Hold,
         WaitAlone, Fence, BeginSwap, StartSlot, CheckOpen, Commit, Throw, Settle, Leave
    <3>2. \A z \in Row : LET n == [z EXCEPT !.hold = "off"] IN n.status = z.status /\ n.home = z.home
      BY DEF Row
    <3>3. /\ row'[d] = row[d] \/ row'[d] = [row[d] EXCEPT !.hold = "off"]
          /\ run[r].pc = "won" /\ row[d].home # "none" => row'[d] = row[d]
          /\ run[r].pc \in {"finishing", "won"}
      BY <1>0, <2>0, <3>1 DEF Close, ReleaseExclusive, Write
    <3>4. row[d].status = "success" /\ row[d].home = row'[d].home
      BY <1>0, <3>2, <3>3
    <3>5. run[r].pc = "won"
      BY <2>0, <3>3, <3>4 DEF ClosesRun
    <3> QED
      BY <1>2, <3>3, <3>4, <3>5
  <2>4. ~EndRollback(r)
    BY <2>0 DEF EndRollback, Only
  <2> QED
    BY <1>10, <2>1, <2>2, <2>3, <2>4 DEF GoesOn
<1>11. CASE SweepAct(d)
  <2>1. row'[d] = row[d]
    BY <1>11, SweepSteps
  <2> QED
    BY <1>6, <2>1
<1>12. CASE Lapse(d)
  <2>1. row'[d] = [row[d] EXCEPT !.live = FALSE]
    BY <1>0, <1>12 DEF Lapse, LapseLease, Write
  <2> QED
    BY <1>6, <2>1
<1> QED
  BY <1>3, <1>5, <1>6, <1>7, <1>8, <1>9, <1>10, <1>11, <1>12, StepFor, Zenon DEF StepOf

Handover == \A d \in Deploys : Homed(d) /\ Resumed(d)

LEMMA HandoverStep ==
  ASSUME Assumptions, Base, SteadyHolds, SelfAlone, Handover, [SysNext]_vars
  PROVE  Handover'
<1>1. \A d \in Deploys : Homed(d)'
  BY HomedStep DEF Base, Handover
<1>2. ASSUME NEW d \in Deploys PROVE Resumed(d)'
  <2>1. IsSelf(d) => HoldsRow(d) /\ Closes(d) /\ Alone(d)
    BY DEF SteadyHolds, SelfAlone, Steady
  <2> QED
    BY <1>1, <2>1, ResumedStep DEF Base, Handover
<1> QED
  BY <1>1, <1>2 DEF Handover

-----------------------------------------------------------------------------
\* After Vardo replaced itself the hold is dropped by a claimer of the new slot, or once one
\* is up: the old console's process leaves the flag of a success alone
\* (clearFinishedExclusive), and no run that knows its deploy succeeded drops it.
THEOREM HoldsHandOver ==
  ASSUME QueueAssumption, ExecutorAssumption, SystemAssumption
  PROVE  SysSpec /\ [][SteadyKept]_vars => []NewSlotResumes
<1>0. Assumptions
  BY DEF Assumptions
<1> DEFINE I == Base /\ SteadyHolds /\ SelfAlone /\ Handover
<1>1. SysInit => I
  <2>1. SysInit => Handover
    BY DEF SysInit, Init, NoRow, Handover, Homed, Resumed
  <2> QED
    BY <1>0, <2>1, SteadyStarts, SelfAloneStarts
<1>2. I /\ [SysNext]_vars /\ [SteadyKept]_vars => I'
  <2>1. ASSUME UNCHANGED vars PROVE SteadyKept
    BY <2>1 DEF vars, SteadyKept, LosesLease, Running
  <2> QED
    BY <1>0, <2>1, BaseStep, SteadyHoldsStep, SelfAloneStep, HandoverStep
<1>3. I => NewSlotResumes
  BY DEF Handover, Resumed, NewSlotResumes
<1> HIDE DEF I
<1> QED
  BY <1>1, <1>2, <1>3, PTL DEF SysSpec

\* So it is as long as nothing stalls.
THEOREM HoldsHandOverWithoutStalls ==
  ASSUME QueueAssumption, ExecutorAssumption, SystemAssumption, MaxStalls = 0
  PROVE  SysSpec => []NewSlotResumes
<1>1. SysSpec => [][SteadyKept]_vars
  BY LeasesAreKept DEF SteadyKept
<1> QED
  BY <1>1, HoldsHandOver, PTL

-------------------------------------------------------------------------------
(* A swap is not run again.                                                *)

\* Of a run's steps, only giving its claim back puts its deploy in the queue again.
LEMMA OnlyRequeues ==
  ASSUME Assumptions, SysInv, NEW d \in Deploys, NEW r \in RunsOf(d), GoesOn(r),
         row[d].status = "running", row'[d].status = "queued"
  PROVE  Requeue(r)
<1>0. row[d] \in Row /\ row \in [Deploys -> Row] /\ r \in Runs /\ r[1] = d
  BY RowType, RunTypes DEF SysInv, TypeOK
<1>1. ASSUME NEW new, Write(d, new) PROVE row'[d] = new
  BY <1>0, <1>1 DEF Write
<1>2. ~UNCHANGED row
  OBVIOUS
<1>3. ~(TakeLocal(r) \/ AwaitLocal(r) \/ EndWait(r))
  <2>1. \A z \in Row : [z EXCEPT !.claimSlot = "none"].status = z.status
    BY DEF Row
  <2>2. \A z \in Row : \A n : [z EXCEPT !.waiting = n].status = z.status
    BY DEF Row
  <2>3. ~TakeLocal(r)
    BY <1>0, <1>1, <2>1 DEF TakeLocal, Only, TakeLocalSlot
  <2>4. ASSUME NEW n, Write(d, [row[d] EXCEPT !.waiting = n]) PROVE FALSE
    <3>1. row'[d] = [row[d] EXCEPT !.waiting = n]
      BY <1>1, <2>4
    <3> QED
      BY <1>0, <2>2, <3>1
  <2>5. ~(AwaitLocal(r) \/ EndWait(r))
    BY <1>0, <2>4 DEF AwaitLocal, EndWait, Only, AwaitLocalSlot, EndLocalWait
  <2> QED
    BY <2>3, <2>5
<1>4. ASSUME NEW h, Write(d, [row[d] EXCEPT !.hold = h]) PROVE FALSE
  <2>1. row'[d] = [row[d] EXCEPT !.hold = h]
    BY <1>1, <1>4
  <2>2. \A z \in Row : [z EXCEPT !.hold = h].status = z.status
    BY DEF Row
  <2> QED
    BY <1>0, <2>1, <2>2
<1>5. ~(Hold(r) \/ WaitAlone(r) \/ Close(r))
  BY <1>0, <1>2, <1>4 DEF Hold, WaitAlone, Close, Only, SetExclusive, ReleaseExclusive
<1>6. ~Fence(r)
  <2>1. \A z \in Row : [z EXCEPT !.stage = "deploy", !.live = TRUE].status = z.status
    BY DEF Row
  <2> QED
    BY <1>0, <1>1, <1>2, <2>1 DEF Fence, Only, EnterSwap
<1>7. ASSUME NEW e, NEW o \in Outcomes, NEW t, Finish(e, d, o, t) PROVE FALSE
  <2> DEFINE h == IF o = "success" /\ IsSelf(d) THEN OtherSlot(SlotOf[e]) ELSE row[d].home
             k == IF o = "superseded" THEN t ELSE row[d].successor
  <2>1. row'[d] = [row[d] EXCEPT !.status = o, !.successor = k, !.home = h]
    BY <1>1, <1>7 DEF Finish
  <2>2. \A z \in Row : \A v, w : [z EXCEPT !.status = o, !.successor = v, !.home = w].status = o
    BY DEF Row
  <2> HIDE DEF h, k
  <2> QED
    BY <1>0, <2>1, <2>2 DEF Outcomes
<1>8. ~(Commit(r) \/ Settle(r))
  <2>1. Outcome(r) \in Outcomes /\ "success" \in Outcomes
    BY DEF Outcome, Outcomes
  <2> QED
    BY <1>0, <1>2, <1>7, <2>1 DEF Commit, Settle, Only
<1>9. ~(Start(r) \/ NeedLocal(r) \/ Build(r) \/ BeginSwap(r) \/ StartSlot(r) \/ CheckOpen(r)
        \/ Throw(r) \/ Leave(r))
  BY <1>2 DEF Start, NeedLocal, Build, BeginSwap, StartSlot, CheckOpen, Throw, Leave, Only
<1>10. ~(LandMark(r) \/ ActOnAnswer(r))
  BY LateSteps DEF Still
<1>11. ~EndRollback(r)
  <2>1. ASSUME NEW o \in {"success", "failed", "deleted"}, Write(d, [row[d] EXCEPT !.status = o]) PROVE FALSE
    <3>1. row'[d] = [row[d] EXCEPT !.status = o]
      BY <1>1, <2>1
    <3>2. \A z \in Row : [z EXCEPT !.status = o].status = o
      BY DEF Row
    <3> QED
      BY <1>0, <3>1, <3>2
  <2> QED
    BY <1>0, <2>1 DEF EndRollback, Only, FinishRollback
<1> QED
  BY <1>3, <1>5, <1>6, <1>8, <1>9, <1>10, <1>11 DEF GoesOn, RunStep

\* A deploy on this server past its fence does not return to the queue.
LEMMA SwapStays ==
  ASSUME Assumptions, SysInv, [SysNext]_vars, NEW d \in Deploys, Placed(d), Steady(d),
         row[d].status = "running", row[d].stage = "deploy"
  PROVE  row'[d].status # "queued"
<1> SUFFICES ASSUME row'[d].status = "queued" PROVE FALSE
  OBVIOUS
<1>0. row[d] \in Row /\ row \in [Deploys -> Row]
  BY RowType DEF SysInv, TypeOK
<1>1. ~Aside(d)
  BY DEF Aside, Life
<1>2. ~\E e \in Executors : ClaimsIt(e, d)
  BY DEF ClaimsIt
<1>3. \A z \in Row, l \in BOOLEAN : [z EXCEPT !.live = l].status = z.status
  BY DEF Row
<1>4. ASSUME NEW e \in Executors, Renew(e) PROVE FALSE
  <2>1. row'[d] = row[d] \/ row'[d] = [row[d] EXCEPT !.live = TRUE]
    BY <1>4, RenewSteps
  <2> QED
    BY <1>0, <1>3, <2>1
<1>5. ASSUME NEW e \in Executors, Crash(e) \/ Boot(e) PROVE FALSE
  BY <1>5 DEF Crash, Boot
<1>6. ASSUME NEW e \in Executors, NEW s \in Scopes, StartRollback(e, d, s) PROVE FALSE
  BY <1>6 DEF StartRollback, InsertRollback
<1>7. ASSUME NEW r \in RunsOf(d), GoesOn(r) PROVE FALSE
  <2>1. run[r].pc = "requeueing"
    BY <1>7, OnlyRequeues DEF Requeue, Only
  <2> QED
    BY <2>1, SystemAssumption DEF Placed, Steady, Assumptions, QueueAssumption
<1>8. ~SweepAct(d)
  <2>1. ~FailDeadDeploy(d)
    <3>1. \A z \in Row : [z EXCEPT !.status = "failed", !.hold = "off"].status = "failed"
      BY DEF Row
    <3> QED
      BY <1>0, <3>1 DEF FailDeadDeploy, Write
  <2> QED
    BY <2>1 DEF SweepAct, SweepRequeue, Reruns
<1>9. ~Lapse(d)
  BY <1>0, <1>3 DEF Lapse, LapseLease, Write
<1> QED
  BY <1>1, <1>2, <1>4, <1>5, <1>6, <1>7, <1>8, <1>9, StepFor, Zenon DEF StepOf

-----------------------------------------------------------------------------
\* A deploy past its fence is never put back in the queue, with any stalls: not by the sweep,
\* which checks the stage it read against the row, nor by a run, which gives its claim back
\* only from a build target's slot.
THEOREM SwapsAreNotRerun ==
  ASSUME QueueAssumption, ExecutorAssumption, SystemAssumption, TargetSlots = 0
  PROVE  SysSpec => SwapNeverRequeued
<1>0. Assumptions
  BY DEF Assumptions
<1>1. SysInit => Base
  BY <1>0, BaseStarts
<1>2. Base /\ [SysNext]_vars => Base'
  BY <1>0, BaseStep
<1>3. Base /\ [SysNext]_vars
        => [\A d \in Deploys :
              row[d].status = "running" /\ row[d].stage = "deploy" => row'[d].status # "queued"]_row
  BY <1>0, SwapStays DEF Base, Steady
<1> QED
  BY <1>1, <1>2, <1>3, PTL DEF SysSpec, SwapNeverRequeued

-------------------------------------------------------------------------------
(* Who gives way.                                                          *)

\* What a superseded deploy has on record.
GaveWay(d) ==
  row[d].status = "superseded" =>
    /\ row[d].kind = "push" /\ row[d].successor \in Deploys \ {d}
    /\ row[row[d].successor].status # "absent" /\ row[row[d].successor].scope = row[d].scope

\* Only a push is told to stop for a newer one.
OnlyPushesTold(d) == row[d].cancel = "supersede" => row[d].status # "absent" /\ row[d].kind = "push"

\* What a run stopped for a newer deploy hands over to.
HandsOver(x) == x.ask = "abort" \/ x.abort = "supersede"
Heir(d, t) == /\ row[d].status # "absent" /\ row[d].kind = "push"
              /\ t \in Deploys \ {d} /\ row[t].status # "absent" /\ row[t].scope = row[d].scope
Heirs(d) == \A r \in RunsOf(d) : HandsOver(run[r]) => Heir(d, run[r].to)

\* A step that hands over to nothing new.
NoNewHeir(x, y) == HandsOver(y) => HandsOver(x) /\ y.to = x.to

\* Of a run's steps, only recording the outcome of one stopped for a newer deploy ends
\* its deploy as superseded.
LEMMA OnlySettles ==
  ASSUME Assumptions, SysInv, NEW d \in Deploys, NEW r \in RunsOf(d), GoesOn(r),
         row[d].status = "running", row'[d].status = "superseded"
  PROVE  run[r].abort = "supersede" /\ row'[d].successor = run[r].to
<1>0. row[d] \in Row /\ row \in [Deploys -> Row] /\ r \in Runs /\ r[1] = d /\ RunsFit
  BY RowType, RunTypes DEF SysInv, TypeOK
<1>1. ASSUME NEW new, Write(d, new) PROVE row'[d] = new
  BY <1>0, <1>1 DEF Write
<1>2. ~UNCHANGED row
  OBVIOUS
<1>3. ASSUME NEW e, NEW o \in Outcomes, NEW t, Finish(e, d, o, t)
      PROVE  o = "superseded" /\ row'[d].successor = t
  <2> DEFINE h == IF o = "success" /\ IsSelf(d) THEN OtherSlot(SlotOf[e]) ELSE row[d].home
             k == IF o = "superseded" THEN t ELSE row[d].successor
  <2>1. row'[d] = [row[d] EXCEPT !.status = o, !.successor = k, !.home = h]
    BY <1>1, <1>3 DEF Finish
  <2>2. \A z \in Row : \A v, w : LET y == [z EXCEPT !.status = o, !.successor = v, !.home = w]
                                 IN y.status = o /\ y.successor = v
    BY DEF Row
  <2>3. o = "superseded" => k = t
    OBVIOUS
  <2> HIDE DEF h, k
  <2>4. row'[d].status = o /\ row'[d].successor = k
    BY <1>0, <2>1, <2>2
  <2> QED
    BY <2>3, <2>4
<1>4. CASE Settle(r)
  <2>1. Outcome(r) \in Outcomes
    BY DEF Outcome, Outcomes
  <2>2. Finish(run[r].exec, d, Outcome(r), run[r].to)
    BY <1>0, <1>2, <1>4 DEF Settle, Only
  <2>3. Outcome(r) = "superseded" /\ row'[d].successor = run[r].to
    BY <1>3, <2>1, <2>2
  <2> QED
    BY <2>3 DEF Outcome
<1>5. ~Commit(r)
  <2>1. "success" \in Outcomes /\ "success" # "superseded"
    BY DEF Outcomes
  <2> QED
    BY <1>0, <1>2, <1>3, <2>1 DEF Commit, Only
<1>6. \A z \in Row : \A s, h, n :
        /\ [z EXCEPT !.stage = s, !.live = TRUE].status = z.status
        /\ [z EXCEPT !.hold = h].status = z.status
        /\ [z EXCEPT !.waiting = n].status = z.status
        /\ [z EXCEPT !.claimSlot = "none"].status = z.status
        /\ [z EXCEPT !.status = "queued", !.by = NoExec, !.live = FALSE,
                     !.stage = "none", !.claimSlot = "local", !.waiting = 0].status = "queued"
        /\ [z EXCEPT !.status = s].status = s
  BY DEF Row
<1>7. ~(TakeLocal(r) \/ AwaitLocal(r) \/ EndWait(r))
  <2>1. ASSUME NEW n, Write(d, [row[d] EXCEPT !.waiting = n]) PROVE FALSE
    <3>1. row'[d] = [row[d] EXCEPT !.waiting = n]
      BY <1>1, <2>1
    <3> QED
      BY <1>0, <1>6, <3>1
  <2>2. ASSUME Write(d, [row[d] EXCEPT !.claimSlot = "none"]) PROVE FALSE
    <3>1. row'[d] = [row[d] EXCEPT !.claimSlot = "none"]
      BY <1>1, <2>2
    <3> QED
      BY <1>0, <1>6, <3>1
  <2> QED
    BY <1>0, <2>1, <2>2 DEF TakeLocal, AwaitLocal, EndWait, Only, TakeLocalSlot, AwaitLocalSlot, EndLocalWait
<1>8. ~(Hold(r) \/ WaitAlone(r) \/ Close(r))
  <2>1. ASSUME NEW h, Write(d, [row[d] EXCEPT !.hold = h]) PROVE FALSE
    <3>1. row'[d] = [row[d] EXCEPT !.hold = h]
      BY <1>1, <2>1
    <3> QED
      BY <1>0, <1>6, <3>1
  <2> QED
    BY <1>0, <1>2, <2>1 DEF Hold, WaitAlone, Close, Only, SetExclusive, ReleaseExclusive
<1>9. ~Fence(r)
  <2>1. ASSUME Write(d, [row[d] EXCEPT !.stage = "deploy", !.live = TRUE]) PROVE FALSE
    <3>1. row'[d] = [row[d] EXCEPT !.stage = "deploy", !.live = TRUE]
      BY <1>1, <2>1
    <3> QED
      BY <1>0, <1>6, <3>1
  <2> QED
    BY <1>0, <1>2, <2>1 DEF Fence, Only, EnterSwap
<1>10. ~Requeue(r)
  <2>1. ~RequeueForLocalSlot(run[r].exec, d)
    <3>1. ASSUME RequeueForLocalSlot(run[r].exec, d) PROVE row'[d].status = "queued"
      BY <1>0, <1>1, <1>6, <3>1, Zenon DEF RequeueForLocalSlot
    <3> QED
      BY <3>1
  <2> QED
    BY <1>0, <1>2, <2>1 DEF Requeue, Only
<1>11. ~(Start(r) \/ NeedLocal(r) \/ Build(r) \/ BeginSwap(r) \/ StartSlot(r) \/ CheckOpen(r)
        \/ Throw(r) \/ Leave(r))
  BY <1>2 DEF Start, NeedLocal, Build, BeginSwap, StartSlot, CheckOpen, Throw, Leave, Only
<1>12. ~(LandMark(r) \/ ActOnAnswer(r))
  BY LateSteps DEF Still
<1>13. ~EndRollback(r)
  <2>1. ASSUME NEW o \in {"success", "failed", "deleted"}, Write(d, [row[d] EXCEPT !.status = o]) PROVE FALSE
    <3>1. row'[d] = [row[d] EXCEPT !.status = o]
      BY <1>1, <2>1
    <3> QED
      BY <1>0, <1>6, <2>1, <3>1
  <2> QED
    BY <1>0, <2>1 DEF EndRollback, Only, FinishRollback
<1> QED
  BY <1>4, <1>5, <1>7, <1>8, <1>9, <1>10, <1>11, <1>12, <1>13 DEF GoesOn, RunStep

\* So a running deploy that ends as superseded handed over to what its run was told.
LEMMA EndsForHeir ==
  ASSUME Assumptions, SysInv, [SysNext]_vars, NEW d \in Deploys, Heirs(d),
         row[d].status = "running", row'[d].status = "superseded"
  PROVE  Heir(d, row'[d].successor)
<1>0. row[d] \in Row /\ row \in [Deploys -> Row]
  BY RowType DEF SysInv, TypeOK
<1>1. ~Aside(d)
  BY DEF Aside, Life
<1>2. ~\E e \in Executors : ClaimsIt(e, d)
  BY DEF ClaimsIt
<1>3. \A z \in Row, l \in BOOLEAN : [z EXCEPT !.live = l].status = z.status
  BY DEF Row
<1>4. ASSUME NEW e \in Executors, Renew(e) PROVE FALSE
  <2>1. row'[d] = row[d] \/ row'[d] = [row[d] EXCEPT !.live = TRUE]
    BY <1>4, RenewSteps
  <2> QED
    BY <1>0, <1>3, <2>1
<1>5. ASSUME NEW e \in Executors, Crash(e) \/ Boot(e) PROVE FALSE
  BY <1>5 DEF Crash, Boot
<1>6. ASSUME NEW e \in Executors, NEW s \in Scopes, StartRollback(e, d, s) PROVE FALSE
  BY <1>6 DEF StartRollback, InsertRollback
<1>7. ASSUME NEW r \in RunsOf(d), GoesOn(r) PROVE Heir(d, row'[d].successor)
  BY <1>7, OnlySettles DEF Heirs, HandsOver
<1>8. ~SweepAct(d)
  BY SweepSteps
<1>9. ~Lapse(d)
  BY <1>0, <1>3 DEF Lapse, LapseLease, Write
<1> QED
  BY <1>1, <1>2, <1>4, <1>5, <1>6, <1>7, <1>8, <1>9, StepFor, Zenon DEF StepOf

\* What applyCancel makes a run hand over to.
LEMMA StoppedHands ==
  ASSUME Assumptions, SysInv, NEW d \in Deploys, NEW r \in RunsOf(d), OnlyPushesTold(d),
         row[d].status = "running", row[d].cancel # "none", NEW b
  PROVE  LET y == Stopped(r, row[d].cancel, b) IN y \in Run /\ (NoNewHeir(run[r], y) \/ Heir(d, y.to))
<1> DEFINE by == NewestQueuedIn(row[d].scope)
           y == Stopped(r, row[d].cancel, b)
<1>0. r \in Runs /\ r[1] = d /\ run[r] \in Run /\ row[d].cancel \in Cancels \ {"none"}
      /\ QueueAssumption /\ TypeOK
  BY RunTypes, RunFits, RowType DEF SysInv, Assumptions, Row
<1>1. by = NoDeploy \/ (by \in Deploys /\ row[by].status = "queued" /\ row[by].scope = row[d].scope)
  BY <1>0, NewestIsQueued
<1>2. \/ y = run[r]
      \/ y = [run[r] EXCEPT !.ask = "drop"]
      \/ y = [run[r] EXCEPT !.ask = "abort", !.to = by] /\ by # NoDeploy /\ row[d].cancel = "supersede"
      \/ y = [run[r] EXCEPT !.abort = row[d].cancel] /\ row[d].cancel # "supersede"
  BY <1>0 DEF Stopped
<1>3. y \in Run
  BY <1>0, StoppedIsMild
<1> HIDE DEF by, y
<1>4. \A x \in Run : [x EXCEPT !.ask = "abort", !.to = by].to = by
  BY DEF Run
<1>5. CASE y = [run[r] EXCEPT !.ask = "abort", !.to = by] /\ by # NoDeploy /\ row[d].cancel = "supersede"
  <2>1. y.to = by
    BY <1>0, <1>4, <1>5
  <2>2. Heir(d, by)
    BY <1>1, <1>5 DEF OnlyPushesTold, Heir
  <2> QED
    BY <1>3, <2>1, <2>2 DEF y
<1>6. CASE \/ y = run[r] \/ y = [run[r] EXCEPT !.ask = "drop"]
           \/ y = [run[r] EXCEPT !.abort = row[d].cancel] /\ row[d].cancel # "supersede"
  <2>1. NoNewHeir(run[r], y)
    BY <1>0, <1>6 DEF NoNewHeir, HandsOver, Run
  <2> QED
    BY <1>3, <2>1 DEF y
<1> QED
  BY <1>2, <1>5, <1>6

LEMMA LostHands ==
  ASSUME SysInv, NEW r \in Runs
  PROVE  Lost(r) \in Run /\ NoNewHeir(run[r], Lost(r))
<1>1. run[r] \in Run
  BY RunFits DEF SysInv
<1>2. \A x \in Run : LET y == [x EXCEPT !.abort = "lost"] IN y \in Run /\ NoNewHeir(x, x) /\ NoNewHeir(x, y)
  BY DEF NoNewHeir, HandsOver, Run
<1> QED
  BY <1>1, <1>2 DEF Lost

\* A run's step hands over to nothing the run did not hand over to before, or to an heir.
LEMMA RunHands ==
  ASSUME Assumptions, SysInv, NEW d \in Deploys, NEW r \in RunsOf(d), OnlyPushesTold(d), GoesOn(r)
  PROVE  NoNewHeir(run[r], run'[r]) \/ Heir(d, run'[r].to)
<1>0. r \in Runs /\ r[1] = d /\ run[r] \in Run /\ run \in [Runs -> Run]
  BY RunTypes, RunFits DEF SysInv, RunsFit
<1>1. ASSUME NEW new, Set(r, new) PROVE run'[r] = new
  BY <1>0, <1>1 DEF Set
<1>2. ASSUME NEW y, NEW p, NEW s, NEW m,
             \/ y = run[r] \/ y = [run[r] EXCEPT !.pc = p] \/ y = [run[r] EXCEPT !.onTarget = p]
             \/ y = [run[r] EXCEPT !.pc = p, !.stage = s, !.marks = m]
      PROVE  NoNewHeir(run[r], y)
  BY <1>0, <1>2 DEF NoNewHeir, HandsOver, Run
<1>3. ASSUME NEW v \in BOOLEAN PROVE NoNewHeir(run[r], [run[r] EXCEPT !.pc = "fence", !.alone = v])
  BY <1>0 DEF NoNewHeir, HandsOver, Run
<1>4. NoNewHeir(run[r], EndedRun)
  BY DEF NoNewHeir, HandsOver, EndedRun, NoRun
<1>5. ASSUME NEW p, GoTo(r, p) PROVE NoNewHeir(run[r], run'[r])
  <2>1. run'[r] = [run[r] EXCEPT !.pc = p]
    BY <1>1, <1>5 DEF GoTo
  <2> QED
    BY <1>2, <2>1, Zenon
<1>6. CASE UNCHANGED run
  BY <1>0, <1>2, <1>6, Zenon
<1>7. CASE RunStep(r)
  <2>1. CASE Start(r)
    <3>1. ASSUME Set(r, [run[r] EXCEPT !.pc = "building", !.stage = "build", !.marks = @ \cup {"build"}])
          PROVE  NoNewHeir(run[r], run'[r])
      <4>1. run'[r] = [run[r] EXCEPT !.pc = "building", !.stage = "build", !.marks = run[r].marks \cup {"build"}]
        BY <1>1, <3>1
      <4> QED
        BY <1>2, <4>1, Zenon
    <3> QED
      BY <1>5, <2>1, <3>1 DEF Start, Only
  <2>2. CASE TakeLocal(r)
    <3>1. run'[r] = [run[r] EXCEPT !.onTarget = FALSE]
      BY <1>1, <2>2 DEF TakeLocal, Only
    <3> QED
      BY <1>2, <3>1, Zenon
  <2>3. CASE BeginSwap(r)
    <3>1. ASSUME Set(r, [run[r] EXCEPT !.pc = "swapping", !.stage = "deploy", !.marks = @ \cup {"deploy"}])
          PROVE  NoNewHeir(run[r], run'[r])
      <4>1. run'[r] = [run[r] EXCEPT !.pc = "swapping", !.stage = "deploy", !.marks = run[r].marks \cup {"deploy"}]
        BY <1>1, <3>1
      <4> QED
        BY <1>2, <4>1, Zenon
    <3> QED
      BY <1>5, <2>3, <3>1 DEF BeginSwap, Only
  <2>4. CASE WaitAlone(r)
    <3> DEFINE v == RunningExcept(d) = {}
    <3>1. ASSUME Set(r, [run[r] EXCEPT !.pc = "fence", !.alone = v]) PROVE NoNewHeir(run[r], run'[r])
      <4>1. run'[r] = [run[r] EXCEPT !.pc = "fence", !.alone = v]
        BY <1>1, <3>1
      <4>2. v \in BOOLEAN
        OBVIOUS
      <4> HIDE DEF v
      <4> QED
        BY <1>3, <4>1, <4>2
    <3> QED
      BY <1>0, <1>5, <2>4, <3>1 DEF WaitAlone, Only
  <2>5. CASE Close(r)
    <3>1. run'[r] = EndedRun
      BY <1>1, <2>5 DEF Close
    <3> QED
      BY <1>4, <3>1
  <2>6. CASE AwaitLocal(r) \/ EndWait(r)
    BY <1>6, <2>6 DEF AwaitLocal, EndWait, Only
  <2>7. CASE \/ NeedLocal(r) \/ Requeue(r) \/ Build(r) \/ Hold(r) \/ Fence(r) \/ StartSlot(r)
             \/ CheckOpen(r) \/ Commit(r) \/ Throw(r) \/ Settle(r) \/ Leave(r)
    BY <1>5, <2>7, Zenon
    DEF NeedLocal, Requeue, Build, Hold, Fence, StartSlot, CheckOpen, Commit, Throw, Settle, Leave, Only
  <2> QED
    BY <1>7, <2>1, <2>2, <2>3, <2>4, <2>5, <2>6, <2>7 DEF RunStep
<1>8. CASE LandMark(r)
  <2>1. PICK s \in run[r].marks :
        IF Owned(run[r].exec, d)
        THEN Set(r, [(IF row[d].cancel # "none" THEN Stopped(r, row[d].cancel, TRUE) ELSE run[r])
                       EXCEPT !.marks = @ \ {s}])
        ELSE Set(r, [Lost(r) EXCEPT !.marks = @ \ {s}])
    BY <1>0, <1>8 DEF LandMark
  <2>2. \A y \in Run : LET z == [y EXCEPT !.marks = @ \ {s}]
                       IN z.to = y.to /\ z.ask = y.ask /\ z.abort = y.abort
    BY DEF Run
  <2>3. ASSUME NEW y \in Run, NoNewHeir(run[r], y) \/ Heir(d, y.to), Set(r, [y EXCEPT !.marks = @ \ {s}])
        PROVE  NoNewHeir(run[r], run'[r]) \/ Heir(d, run'[r].to)
    <3>1. run'[r] = [y EXCEPT !.marks = @ \ {s}]
      BY <1>1, <2>3
    <3>2. run'[r].to = y.to /\ run'[r].ask = y.ask /\ run'[r].abort = y.abort
      BY <2>2, <2>3, <3>1
    <3> QED
      BY <2>3, <3>2 DEF NoNewHeir, HandsOver
  <2>4. CASE Owned(run[r].exec, d)
    <3> DEFINE y == IF row[d].cancel # "none" THEN Stopped(r, row[d].cancel, TRUE) ELSE run[r]
    <3>1. y \in Run /\ (NoNewHeir(run[r], y) \/ Heir(d, y.to))
      <4>1. CASE row[d].cancel # "none"
        <5>1. y = Stopped(r, row[d].cancel, TRUE) /\ row[d].status = "running"
          BY <2>4, <4>1 DEF Owned
        <5> HIDE DEF y
        <5> QED
          BY <4>1, <5>1, StoppedHands
      <4>2. CASE row[d].cancel = "none"
        <5>1. y = run[r]
          BY <4>2
        <5> HIDE DEF y
        <5> QED
          BY <1>0, <1>2, <5>1
      <4> QED
        BY <4>1, <4>2
    <3>2. Set(r, [y EXCEPT !.marks = @ \ {s}])
      BY <2>1, <2>4
    <3> HIDE DEF y
    <3> QED
      BY <2>3, <3>1, <3>2
  <2>5. CASE ~Owned(run[r].exec, d)
    BY <1>0, <2>1, <2>3, <2>5, LostHands
  <2> QED
    BY <2>4, <2>5
<1>9. CASE ActOnAnswer(r)
  <2>1. CASE Set(r, [run[r] EXCEPT !.ask = "none"])
    <3>1. run'[r] = [run[r] EXCEPT !.ask = "none"]
      BY <1>1, <2>1
    <3>2. \A x \in Run : NoNewHeir(x, [x EXCEPT !.ask = "none"])
      BY DEF NoNewHeir, HandsOver, Run
    <3> QED
      BY <1>0, <3>1, <3>2
  <2>2. CASE /\ run[r].ask = "abort"
             /\ Set(r, [run[r] EXCEPT !.ask = "none", !.abort = IF @ = "none" THEN "supersede" ELSE @])
    <3> DEFINE a == IF run[r].abort = "none" THEN "supersede" ELSE run[r].abort
    <3>1. run'[r] = [run[r] EXCEPT !.ask = "none", !.abort = a]
      BY <1>1, <2>2
    <3> HIDE DEF a
    <3>2. \A x \in Run : x.ask = "abort" => NoNewHeir(x, [x EXCEPT !.ask = "none", !.abort = a])
      BY DEF NoNewHeir, HandsOver, Run
    <3> QED
      BY <1>0, <2>2, <3>1, <3>2
  <2> QED
    BY <1>9, <2>1, <2>2 DEF ActOnAnswer
<1>10. CASE EndRollback(r)
  BY <1>1, <1>4, <1>10 DEF EndRollback, Only
<1> QED
  BY <1>7, <1>8, <1>9, <1>10 DEF GoesOn

LEMMA HeirStays ==
  ASSUME Assumptions, SysInv, [SysNext]_vars, NEW d \in Deploys, NEW t, Heir(d, t)
  PROVE  Heir(d, t)'
BY RowFacts DEF Heir

\* What the runs of a deploy hand over to stays, or was looked up just now.
LEMMA HeirsStep ==
  ASSUME Assumptions, SysInv, [SysNext]_vars, NEW d \in Deploys, Heirs(d), OnlyPushesTold(d)
  PROVE  Heirs(d)'
<1> SUFFICES ASSUME NEW r \in RunsOf(d) PROVE NoNewHeir(run[r], run'[r]) \/ Heir(d, run'[r].to)
  BY HeirStays DEF Heirs, NoNewHeir, RunsOf
<1>0. r \in Runs /\ r[1] = d /\ run[r] \in Run /\ run \in [Runs -> Run]
  BY RunTypes, RunFits DEF SysInv, RunsFit
<1>1. NoNewHeir(run[r], run[r]) /\ NoNewHeir(run[r], EndedRun)
  BY DEF NoNewHeir, HandsOver, EndedRun, NoRun
<1>2. \A e, pc, t : NoNewHeir(run[r], NewRun(e, pc, t))
  BY DEF NoNewHeir, HandsOver, NewRun, NoRun
<1>3. CASE run'[r] = run[r]
  BY <1>1, <1>3
<1>4. CASE RunsStay(d)
  BY <1>3, <1>4 DEF RunsStay
<1>5. ASSUME NEW e \in Executors, ClaimsIt(e, d) PROVE NoNewHeir(run[r], run'[r])
  <2>1. PICK t \in BOOLEAN : run'[r] = IF r[2] = NextRun(d) THEN NewRun(e, "starting", t) ELSE run[r]
    BY <1>5, Zenon DEF ClaimsIt
  <2> QED
    BY <1>1, <1>2, <2>1
<1>6. ASSUME NEW e \in Executors, Renew(e) PROVE NoNewHeir(run[r], run'[r]) \/ Heir(d, run'[r].to)
  <2>1. \/ run'[r] = run[r]
        \/ run'[r] = Lost(r)
        \/ /\ run'[r] = Stopped(r, row[d].cancel, FALSE)
           /\ Owned(e, d) /\ row[d].cancel # "none"
    <3> DEFINE ids == {x \in Deploys : job[e][x] # 0}
               after(q) == IF ~Owned(e, q[1]) THEN Lost(q)
                           ELSE IF row[q[1]].cancel # "none" THEN Stopped(q, row[q[1]].cancel, FALSE)
                           ELSE run[q]
    <3>1. run' = [q \in Runs |-> IF q[1] \in ids /\ q[2] = job[e][q[1]] THEN after(q) ELSE run[q]]
      BY <1>6, Zenon DEF Renew
    <3>2. run'[r] = after(r) \/ run'[r] = run[r]
      BY <1>0, <3>1
    <3>3. after(r) = IF ~Owned(e, d) THEN Lost(r)
                     ELSE IF row[d].cancel # "none" THEN Stopped(r, row[d].cancel, FALSE) ELSE run[r]
      BY <1>0
    <3> HIDE DEF after, ids
    <3> QED
      BY <3>2, <3>3
  <2>2. CASE /\ run'[r] = Stopped(r, row[d].cancel, FALSE)
             /\ Owned(e, d) /\ row[d].cancel # "none"
    BY <2>2, StoppedHands DEF Owned
  <2> QED
    BY <1>0, <1>1, <2>1, <2>2, LostHands
<1>7. ASSUME NEW e \in Executors, Crash(e) \/ Boot(e) PROVE NoNewHeir(run[r], run'[r])
  BY <1>0, <1>1, <1>7 DEF Crash, Boot
<1>8. ASSUME NEW e \in Executors, NEW s \in Scopes, StartRollback(e, d, s)
      PROVE  NoNewHeir(run[r], run'[r])
  <2>1. run'[r] = run[r] \/ run'[r] = NewRun(e, "rolling", FALSE)
    BY <1>0, <1>8 DEF StartRollback, Set
  <2> QED
    BY <1>1, <1>2, <2>1
<1>9. ASSUME NEW q \in RunsOf(d), GoesOn(q) PROVE NoNewHeir(run[r], run'[r]) \/ Heir(d, run'[r].to)
  BY <1>3, <1>9, OtherRunsStay, RunHands
<1>10. CASE SweepAct(d) \/ Lapse(d)
  BY <1>3, <1>10 DEF SweepAct, Lapse, executorVars
<1> QED
  BY <1>4, <1>5, <1>6, <1>7, <1>8, <1>9, <1>10, StepFor, Zenon DEF StepOf

WayGiven == \A d \in Deploys : GaveWay(d) /\ OnlyPushesTold(d) /\ Heirs(d)

LEMMA WayGivenStarts ==
  ASSUME Assumptions, SysInit
  PROVE  WayGiven
<1>1. \A d \in Deploys : row[d].status = "absent" /\ row[d].cancel = "none"
  BY DEF SysInit, Init, NoRow
<1>2. \A d \in Deploys : \A r \in RunsOf(d) : run[r] = NoRun
  BY RunTypes DEF SysInit, ExecutorInit
<1> QED
  BY <1>1, <1>2 DEF WayGiven, GaveWay, OnlyPushesTold, Heirs, HandsOver, NoRun

LEMMA WayGivenStep ==
  ASSUME Assumptions, SysInv, [SysNext]_vars, WayGiven
  PROVE  WayGiven'
<1>1. ASSUME NEW d \in Deploys PROVE IsNew(d) \/ OldWay(d)
  BY SystemStepIsNext, NextWay DEF SysInv, Assumptions, WaySteps
<1>2. ASSUME NEW d \in Deploys PROVE Heirs(d)'
  BY HeirsStep DEF WayGiven
<1>3. ASSUME NEW d \in Deploys PROVE OnlyPushesTold(d)'
  <2>1. OnlyPushesTold(d) /\ (IsNew(d) \/ OldWay(d))
    BY <1>1 DEF WayGiven
  <2>2. row[d].status # "absent" =>
          row'[d].status # "absent" /\ row'[d].kind = row[d].kind
    BY RowFacts
  <2> QED
    BY <2>1, <2>2 DEF OnlyPushesTold, IsNew, OldWay, Meek, GivesUp, IsReplaced, IsWarned
<1>4. ASSUME NEW d \in Deploys PROVE GaveWay(d)'
  <2>0. GaveWay(d) /\ Heirs(d)
    BY DEF WayGiven
  <2>1. ASSUME row'[d].status = "superseded", Heir(d, row'[d].successor) PROVE GaveWay(d)'
    <3> DEFINE t == row'[d].successor
    <3>1. /\ row'[d].kind = "push" /\ t \in Deploys \ {d}
          /\ row'[t].status # "absent" /\ row'[t].scope = row'[d].scope
      BY <2>1, RowFacts DEF Heir
    <3> QED
      BY <3>1 DEF GaveWay
  <2>2. CASE row'[d].status # "superseded"
    BY <2>2 DEF GaveWay
  <2>3. CASE row'[d].status = "superseded" /\ Meek(row[d], row'[d])
    BY <2>0, <2>1, <2>3 DEF Meek, GaveWay, Heir
  <2>4. CASE row'[d].status = "superseded" /\ GivesUp(row[d], row'[d])
    BY <2>0, <2>1, <2>4, EndsForHeir DEF GivesUp
  <2>5. CASE IsReplaced(d)
    <3>1. row'[d].kind = row[d].kind /\ row'[d].scope = row[d].scope
      BY <2>5, RowFacts DEF IsReplaced
    <3> QED
      BY <2>5, <3>1 DEF IsReplaced, GaveWay
  <2>6. ~(row'[d].status = "superseded" /\ (IsWarned(d) \/ IsNew(d)))
    BY DEF IsWarned, IsNew
  <2> QED
    BY <1>1, <2>2, <2>3, <2>4, <2>5, <2>6 DEF OldWay
<1> QED
  BY <1>2, <1>3, <1>4 DEF WayGiven

\* Whatever stalls and crashes, only pushes end as superseded, and their row names another
\* deploy of the same app environment that was asked for: an enqueue replaces queued pushes
\* and warns running ones only, and a run that is told to stop takes the newest deploy queued
\* in its scope as its heir before it tears anything down (NewestQueuedIn).
THEOREM PushesGiveWay ==
  ASSUME QueueAssumption, ExecutorAssumption, SystemAssumption
  PROVE  SysSpec => []OnlyPushesGiveWay
<1>0. Assumptions
  BY DEF Assumptions
<1>1. SysInit => SysInv /\ WayGiven
  BY <1>0, SystemStarts, WayGivenStarts
<1>2. SysInv /\ WayGiven /\ [SysNext]_vars => SysInv' /\ WayGiven'
  BY <1>0, SystemInductive, WayGivenStep
<1>3. WayGiven => OnlyPushesGiveWay
  BY DEF WayGiven, GaveWay, OnlyPushesGiveWay
<1> QED
  BY <1>1, <1>2, <1>3, PTL DEF SysSpec

===============================================================================
