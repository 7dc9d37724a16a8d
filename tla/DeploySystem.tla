----------------------------- MODULE DeploySystem -----------------------------
(***************************************************************************)
(* The whole deploy subsystem: clients that enqueue, release, bump and     *)
(* cancel, executors that claim and run, processes that stop or stall, and *)
(* the sweeper (sweeper.ts), whose pass reads the expired rows first and   *)
(* writes them one at a time later.                                        *)
(***************************************************************************)
EXTENDS DeployExecutor

CONSTANTS
  Started,        \* executors running at the start
  Survivors,      \* executors that never stop
  CancelReasons,  \* who asks for cancels: subset of {"user", "timeout"}
  MaxStalls       \* bound on leases that lapse under a live process

ASSUME SystemAssumption ==
  /\ Started \subseteq Executors
  /\ Survivors \subseteq Executors
  /\ CancelReasons \subseteq {"user", "timeout"}
  /\ MaxStalls \in Nat

VARIABLES
  swept,    \* what the sweeper's pass read of each row it has still to act on
  asked,    \* cancels whose first statement found no queued row
  stalls    \* leases lapsed so far under a live process

systemVars == <<swept, asked, stalls>>
vars == <<row, proc, run, job, swept, asked, stalls>>

NotSwept == [seen |-> FALSE, stage |-> "none", attempts |-> 0, cancelled |-> FALSE]

SysInit ==
  /\ Init
  /\ ExecutorInit(Started)
  /\ swept = [d \in Deploys |-> NotSwept]
  /\ asked = {}
  /\ stalls = 0

-------------------------------------------------------------------------------
(* requestCancel: one statement for a queued row, then one for a running   *)
(* one.  A row neither finds is reported inactive.                         *)

\* The cancel route refuses an in-process rollback.
RequestCancel(d, reason) ==
  /\ row[d].status \in {"queued", "running"} /\ row[d].kind # "rollback"
  /\ <<d, reason>> \notin asked
  /\ IF row[d].status = "queued"
     THEN CancelQueued(d, reason) /\ UNCHANGED asked
     ELSE UNCHANGED row /\ asked' = asked \cup {<<d, reason>>}
  /\ UNCHANGED <<executorVars, swept, stalls>>

FinishCancel(d, reason) ==
  /\ <<d, reason>> \in asked
  /\ asked' = asked \ {<<d, reason>>}
  /\ IF row[d].status = "running" THEN FlagRunning(d, reason) ELSE UNCHANGED row
  /\ UNCHANGED <<executorVars, swept, stalls>>

-------------------------------------------------------------------------------
(* sweepExpiredLeases.                                                     *)

SweepRead ==
  /\ \A d \in Deploys : ~swept[d].seen
  /\ \E d \in Deploys : Expired(d)
  /\ swept' = [d \in Deploys |->
       IF Expired(d) THEN [seen |-> TRUE, stage |-> row[d].stage, attempts |-> row[d].attempts,
                           cancelled |-> row[d].cancel # "none"]
       ELSE NotSwept]
  /\ UNCHANGED <<row, executorVars, asked, stalls>>

\* Mutant: every death in the build reruns.
BugReruns(seen) == ~seen.cancelled /\ seen.stage \in {"none", "build"}

\* Whether the crash rule reruns the deploy the sweeper read.
Reruns(seen) == /\ ~seen.cancelled
                /\ seen.stage = "none" \/ (seen.stage = "build" /\ seen.attempts = 0)

SweepAct(d) ==
  LET seen == swept[d]
      reruns == Reruns(seen) /\ row[d].kind # "rollback"
  IN /\ seen.seen
     /\ swept' = [swept EXCEPT ![d] = NotSwept]
     /\ \/ reruns /\ SweepRequeue(d, seen.stage)
        \/ reruns /\ ~(Expired(d) /\ row[d].stage = seen.stage) /\ UNCHANGED row
        \/ ~reruns /\ FailDeadDeploy(d)
        \/ ~reruns /\ ~Expired(d) /\ UNCHANGED row
     /\ UNCHANGED <<executorVars, asked, stalls>>

-------------------------------------------------------------------------------
(* Clocks.                                                                 *)

\* A live process renews the leases of the jobs it knows; a rollback's lease
\* outlasts the rollback.
Kept(d) ==
  LET e == row[d].by IN
  /\ proc[e] = "up"
  /\ job[e][d] # 0 \/ run[<<d, 1>>].pc = "rolling"

Lapse(d) ==
  /\ LapseLease(d)
  /\ IF Kept(d) THEN stalls < MaxStalls /\ stalls' = stalls + 1 ELSE UNCHANGED stalls
  /\ UNCHANGED <<executorVars, swept, asked>>

\* Thirty minutes outlast the exclusive wait and the swap, so a hold ages only
\* once its deploy no longer runs.
Age(d) ==
  /\ row[d].status # "running"
  /\ AgeExclusive(d)
  /\ UNCHANGED <<executorVars, systemVars>>

Expire(d) == ExpireQueued(d) /\ UNCHANGED <<executorVars, systemVars>>

Client(d) ==
  /\ \/ \E s \in Scopes, k \in Kinds : EnqueueDeploy(d, s, k) \/ EnqueueHeld(d, s, k)
     \/ ReleaseHeldDeploy(d)
     \/ BumpDeploy(d)
  /\ UNCHANGED <<executorVars, systemVars>>

-------------------------------------------------------------------------------
\* A step of a run, of what it left unawaited, or of a rollback.
GoesOn(r) ==
  /\ Live(r)
  /\ RunStep(r) \/ LandMark(r) \/ ActOnAnswer(r) \/ EndRollback(r)

Executing ==
  /\ \/ \E e \in Executors :
          \/ Claim(e) \/ ClearHold(e) \/ Renew(e)
          \/ e \notin Survivors /\ Crash(e)
          \/ Boot(e)
          \/ \E d \in Deploys, s \in Scopes : StartRollback(e, d, s)
     \/ \E r \in Runs : GoesOn(r) \/ \E d \in Deploys : Rescue(r, d)
  /\ UNCHANGED systemVars

SysNext ==
  \/ \E d \in Deploys :
       \/ Client(d) \/ Lapse(d) \/ Age(d) \/ Expire(d) \/ SweepAct(d)
       \/ \E reason \in CancelReasons : RequestCancel(d, reason) \/ FinishCancel(d, reason)
  \/ SweepRead
  \/ Executing

SysSpec == SysInit /\ [][SysNext]_vars

-------------------------------------------------------------------------------
(* Fairness: executors that never stop keep their loops going, a started   *)
(* run goes on as long as its process is up, the sweeper passes every few  *)
(* seconds, and a lease nobody renews lapses.  Nothing is assumed of       *)
(* clients, of crashes, of the 30-minute limit on holds or of the queue's  *)
(* own time limits.                                                        *)
ClaimPass(e) == ClearHold(e) \/ Claim(e)
SweepPass    == SweepRead \/ \E d \in Deploys : SweepAct(d)

Fairness ==
  /\ \A e \in Survivors :
       /\ WF_vars(ClaimPass(e) /\ UNCHANGED systemVars)
       /\ WF_vars(Renew(e) /\ UNCHANGED systemVars)
       /\ WF_vars(Boot(e) /\ UNCHANGED systemVars)
  /\ \A r \in Runs : WF_vars(GoesOn(r) /\ UNCHANGED systemVars)
  /\ \A d \in Deploys : WF_vars(Lapse(d) /\ ~Kept(d))
  /\ WF_vars(SweepPass)

FairSpec == SysSpec /\ Fairness

-------------------------------------------------------------------------------
(* Properties of the whole system.                                         *)

\* The runs that change containers now.  A run that began its swap still does
\* while it tears its new slot down.
Touching ==
  {r \in Runs : \/ run[r].pc \in {"swapping", "checking", "committing", "rolling"}
                \/ run[r].pc \in {"stopping", "leaving"} /\ run[r].stage = "deploy"}

\* As long as live executors keep their leases, two runs never change one app
\* environment's containers at once, over crashes, reruns, cancels, slot moves
\* and rollbacks (the fence, the terminal writes after teardown, the index).
OneSwapPerScope ==
  \A a, b \in Touching : row[a[1]].scope = row[b[1]].scope => a = b

\* A deploy past its fence never reruns, not even when its lease lapses under a
\* live executor and the sweeper acts on a row it read before the fence ("A fence
\* that recorded the swap since the read keeps it from rerunning").
SwapNeverRequeued ==
  [][\A d \in Deploys :
       row[d].status = "running" /\ row[d].stage = "deploy" => row'[d].status # "queued"]_row

\* So a run never changes containers while its row still shows a stage the crash
\* rule would rerun: dying at any point of the swap fails the deploy.
SwapIsOnRecord ==
  \A r \in Touching :
    run[r].pc # "rolling" /\ Owned(run[r].exec, r[1]) => row[r[1]].stage = "deploy"

\* Only pushes are stopped or replaced for a newer deploy, and one that was is
\* recorded with a different deploy of its own app environment that took over.
OnlyPushesGiveWay ==
  \A d \in Deploys :
    row[d].status = "superseded" =>
      /\ row[d].kind = "push"
      /\ row[d].successor \in Deploys \ {d}
      /\ row[row[d].successor].scope = row[d].scope

\* Vardo's own swap that waited until nothing else ran stays alone to its end:
\* no claim slips in between the wait and the commit.
SelfSwapsAlone ==
  \A r \in Touching :
    IsSelf(r[1]) /\ run[r].alone => \A d \in RunningExcept(r[1]) : row[d].kind = "rollback"

\* After Vardo replaced itself, claims resume only once a process of the new slot
\* is up to make them (clearFinishedExclusive: "so the old slot never claims in
\* between").
NewSlotResumes ==
  \A d \in Deploys :
    row[d].status = "success" /\ row[d].home # "none" /\ row[d].hold = "off"
      => \E e \in Executors : SlotOf[e] = row[d].home /\ proc[e] # "unborn"

\* Every deploy asked for ends, over crashes of other executors, reruns, requeues
\* and supersedes, with nobody's time limit to help it.
EveryDeployEnds ==
  \A d \in Deploys :
    (row[d].status = "queued" /\ ~row[d].held) ~> (row[d].status \in Terminal)

\* Claims held up for Vardo's own swap resume, without waiting out the 30 minutes
\* after which a hold is ignored.
HoldEnds == HoldFresh ~> ~HoldFresh

-------------------------------------------------------------------------------
(* What comments and docs claim and the code does not keep.                *)

\* requestCancel: "Cancels a queued row outright or flags a running one."  So it
\* finds nothing to do only for a deploy that has ended.
CancelFindsActive ==
  [][\A d \in Deploys, reason \in CancelReasons :
       <<d, reason>> \in asked /\ <<d, reason>> \notin asked'
         => row[d].status \in Terminal \cup {"running"}]_vars

\* worker.md: "Before the swap touches containers, the deploy checks it still
\* holds its claim."  So the run that passes the fence is its deploy's last one.
FenceHoldsClaim ==
  \A r \in Runs : run[r].pc = "fenced" /\ Owned(run[r].exec, r[1])
                     => \A n \in 1 .. MaxClaims : n > r[2] => run[<<r[1], n>>].pc = "idle"

\* worker.md: "The executor renews each claim every 3 seconds."  So a live process
\* knows every deploy it has claimed and that still runs.
ClaimsRenewed ==
  \A d \in Running :
    row[d].kind # "rollback" /\ proc[row[d].by] = "up" => job[row[d].by][d] # 0

===============================================================================
