----------------------------- MODULE WorkerLoops -----------------------------
(***************************************************************************)
(* Who runs a deferrable loop: web hands it to a worker that is present    *)
(* (handoff.ts, presence.ts) and takes it back when none is, workers boot, *)
(* drain and die (worker/index.ts), and the loop's lease (LoopLease) keeps *)
(* the two apart while both have it started.                               *)
(*                                                                         *)
(* VARDO_LOOPS_IN_WEB is "auto", the setting of a production install.  Web *)
(* stays up; workers come and go.                                          *)
(***************************************************************************)
EXTENDS LoopLease, FiniteSets

CONSTANTS
  NumWorkers,  \* worker lifetimes, numbered in the order they boot
  MaxUp        \* bound on workers up at once

ASSUME HandoffAssumption == NumWorkers \in Nat /\ MaxUp \in Nat /\ Proc = 0..NumWorkers

Web == 0
Workers == Proc \ {Web}

VARIABLES
  stage,     \* what each worker is up to
  beat,      \* its row says it is there: "absent" or "present"
  web,       \* web's handoff loop: "booting", "idle" or "resuming"
  deferred,  \* web has handed its loops over
  gone,      \* web saw no present worker for WEB_RESUME_AFTER_MS
  pending    \* processes whose start of the loop waits on a boot step

handoffVars == <<stage, beat, web, deferred, gone, pending>>
vars == <<leaseVars, handoffVars>>

HandoffInit ==
  /\ LeaseInit
  /\ stage = [w \in Workers |-> "down"]
  /\ beat = [w \in Workers |-> "absent"]
  /\ web = "booting" /\ deferred = FALSE /\ gone = FALSE
  /\ pending = {}

-------------------------------------------------------------------------------
(* A worker.                                                               *)

\* registerWorker; the loops are started next.
BootWorker(w) ==
  /\ \A v \in Workers : v < w => life[v] # "unborn"
  /\ Cardinality({v \in Workers : life[v] = "up"}) < MaxUp
  /\ Boot(w) /\ UNCHANGED troubles
  /\ stage' = [stage EXCEPT ![w] = "booting"]
  /\ pending' = pending \cup {w}
  /\ UNCHANGED <<beat, web, deferred, gone>>

\* startEntry, once the boot step it waits on is over.
StartEntry(p) ==
  /\ p \in pending
  /\ pending' = pending \ {p}
  /\ IF loop[p].phase = "off" THEN StartLoop(p) ELSE UNCHANGED leaseVars
  /\ web' = IF p = Web THEN "idle" ELSE web
  /\ UNCHANGED <<stage, beat, deferred, gone>>

\* startLoops has returned.
MarkBooted(w) ==
  /\ stage[w] = "booting" /\ w \notin pending
  /\ stage' = [stage EXCEPT ![w] = "ready"]
  /\ UNCHANGED <<leaseVars, beat, web, deferred, gone, pending>>

\* Mutant: a draining worker still counts.
BugBeatSays(w) == IF stage[w] \in {"ready", "draining"} THEN "present" ELSE "absent"

\* isPresent, of a row as recent as this beat: booted and not draining.
BeatSays(w) == IF stage[w] = "ready" THEN "present" ELSE "absent"

Beat(w) ==
  /\ life[w] = "up" /\ beat[w] # BeatSays(w)
  /\ beat' = [beat EXCEPT ![w] = BeatSays(w)]
  /\ UNCHANGED <<leaseVars, stage, web, deferred, gone, pending>>

\* stopLoops stops what is started; a start still waiting it does not see.
StopStarted(p) ==
  IF loop[p].phase = "on" THEN StopLoop(p) ELSE UNCHANGED leaseVars

\* SIGTERM or a requested drain.  A drain that was asked for leaves the process up.
Drain(w) ==
  /\ stage[w] \in {"booting", "ready"}
  /\ stage' = [stage EXCEPT ![w] = "draining"]
  /\ StopStarted(w)
  /\ UNCHANGED <<beat, web, deferred, gone, pending>>

\* A crash, or the exit of a drain that is over or out of budget.
WorkerDies(w) ==
  /\ Die(w)
  /\ stage' = [stage EXCEPT ![w] = "down"]
  /\ pending' = pending \ {w}
  /\ UNCHANGED <<beat, web, deferred, gone>>

\* WORKER_FRESH_MS since the last beat: nine beats of a live worker are missing.
BeatAges(w) ==
  /\ beat[w] = "present"
  /\ beat' = [beat EXCEPT ![w] = "absent"]
  /\ IF life[w] = "up" THEN TroubleElsewhere ELSE UNCHANGED leaseVars
  /\ UNCHANGED <<stage, web, deferred, gone, pending>>

-------------------------------------------------------------------------------
(* Web.                                                                    *)

Present == \E w \in Workers : beat[w] = "present"

\* startWebLoops: a failed read counts as no worker.
StartWebLoops ==
  /\ web = "booting" /\ web' = "idle"
  /\ Boot(Web)
  /\ deferred' = (Present /\ troubles' = troubles)
  /\ pending' = IF deferred' THEN pending ELSE pending \cup {Web}
  /\ UNCHANGED <<stage, beat, gone>>

\* The handoff loop is at leave to check: its last pass waits neither for
\* stopLoops nor for startLoops.
Checks == web = "idle" /\ loop[Web].phase \in {"off", "on"}

\* handoffPass, apply("defer").
Defer ==
  /\ Checks /\ Present /\ ~deferred
  /\ deferred' = TRUE /\ gone' = FALSE
  /\ StopStarted(Web)
  /\ UNCHANGED <<stage, beat, web, pending>>

\* handoffPass, "stay" with a worker present: lastPresentAt moves.
SeePresent ==
  /\ Checks /\ Present /\ deferred /\ gone
  /\ gone' = FALSE
  /\ UNCHANGED <<leaseVars, stage, beat, web, deferred, pending>>

\* WEB_RESUME_AFTER_MS since lastPresentAt.  With a worker present it takes
\* checks that failed that long.
AbsenceLasts ==
  /\ web # "booting" /\ deferred /\ ~gone
  /\ gone' = TRUE
  /\ IF Present THEN TroubleElsewhere ELSE UNCHANGED leaseVars
  /\ UNCHANGED <<stage, beat, web, deferred, pending>>

\* handoffPass, apply("resume").
Resume ==
  /\ Checks /\ ~Present /\ deferred /\ gone
  /\ deferred' = FALSE /\ gone' = FALSE
  /\ pending' = pending \cup {Web} /\ web' = "resuming"
  /\ UNCHANGED <<leaseVars, stage, beat>>

-------------------------------------------------------------------------------
HandoffNext ==
  \/ Lapse /\ UNCHANGED handoffVars
  \/ \E p \in Proc : LoopStep(p) /\ UNCHANGED handoffVars
  \/ \E p \in Proc : StartEntry(p)
  \/ \E w \in Workers :
       BootWorker(w) \/ MarkBooted(w) \/ Beat(w) \/ Drain(w) \/ WorkerDies(w) \/ BeatAges(w)
  \/ StartWebLoops \/ Defer \/ SeePresent \/ AbsenceLasts \/ Resume

\* Timers fire, statements are answered, boot steps and passes end, beats are
\* written, and time passes: a lease nobody keeps lapses, the beat of a dead
\* worker ages, an absence lasts.  Nothing makes a worker boot, drain or die.
Fairness ==
  /\ WF_vars(StartWebLoops) /\ WF_vars(Defer) /\ WF_vars(SeePresent)
  /\ WF_vars(AbsenceLasts /\ ~Present) /\ WF_vars(Resume)
  /\ WF_vars(Lapse /\ ~Kept /\ UNCHANGED handoffVars)
  /\ \A w \in Workers : WF_vars(Beat(w)) /\ WF_vars(BeatAges(w) /\ life[w] # "up")
  /\ \A p \in Proc :
       /\ WF_vars(StartEntry(p))
       /\ WF_vars((PassSettled(p) \/ ReleaseLease(p)) /\ UNCHANGED handoffVars)
       /\ WF_vars((Tick(p) \/ AcquireLands(p) \/ AcquireAnswered(p)) /\ UNCHANGED handoffVars)
       /\ WF_vars(PassEnds(p) /\ UNCHANGED handoffVars)
       /\ WF_vars((RenewalLands(p) \/ RenewalAnswered(p)) /\ UNCHANGED handoffVars)

HandoffSpec == HandoffInit /\ [][HandoffNext]_vars /\ Fairness

-------------------------------------------------------------------------------
(* Properties.                                                             *)

\* Every variable of the composition has its type (presence.ts:66-69,
\* handoff.ts:12-17).
HandoffTypeOK ==
  /\ LeaseTypeOK
  /\ stage \in [Workers -> {"down", "booting", "ready", "draining"}]
  /\ beat \in [Workers -> {"absent", "present"}]
  /\ web \in {"booting", "idle", "resuming"}
  /\ deferred \in BOOLEAN /\ gone \in BOOLEAN /\ pending \subseteq Proc

\* However workers boot, drain and die, the loop never stays without a process
\* that runs its passes (handoff.ts:78-86, interval-loop.ts:150-154).
LoopKeepsRunning == []<>(\E p \in Proc : Runs(p))
===============================================================================
