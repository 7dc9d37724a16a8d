----------------------------- MODULE BackupRuns -----------------------------
(***************************************************************************)
(* One organization's nightly backup run, across consoles that stop and    *)
(* come back (src/lib/backups: runs.ts, tick.ts, requeue.ts, reap.ts,      *)
(* job-claim.ts, run-lease.ts, and the row of engine.ts's runBackup).      *)
(*                                                                         *)
(* A tick opens the run and starts its jobs; a job waits for the job's     *)
(* claim and for a slot, inserts a row, leases it, writes its outcome and  *)
(* reports to the run.  A sweep fails the rows whose lease is gone and     *)
(* runs their jobs again, once; it also runs the jobs an open run waits on *)
(* that nobody holds.  A finish pass closes the run.                       *)
(*                                                                         *)
(* Rows and the run are in Postgres.  Leases, claims and the requeue lock  *)
(* are Redis keys: those of a stopped console go when their TTL runs out   *)
(* (Expire), those of a live one may lapse (Lapse), and each beat sets     *)
(* them again (Beat).                                                      *)
(***************************************************************************)
EXTENDS Integers, FiniteSets, Sequences

CONSTANTS
  Consoles,    \* the processes that run the backup loops
  Jobs,        \* the organization's nightly jobs, one volume each
  SlotLimit,   \* backupSlotLimit(), per console
  Mixes        \* bound: the mixes of troubles a behaviour may have, each
               \* how often a console stops, a live one's keys lapse, a backup
               \* is started by hand, a first snapshot is due, a job goes off

Troubles == {"stop", "lapse", "manual", "first", "off"}

ASSUME BackupAssumption ==
  /\ IsFiniteSet(Consoles) /\ IsFiniteSet(Jobs)
  /\ SlotLimit \in Nat \ {0} /\ \A m \in Mixes : m \in [Troubles -> Nat]

\* A scheduled or requeued run and a first snapshot of a job share the
\* console's `queued` set; a run started by hand is beside it.
Lines == {"queued", "manual"}
Tasks == Consoles \X Jobs \X Lines
Kinds == {"nightly", "requeue", "initial", "manual"}
\* Where a task is: claiming waits for the claim, slot for a slot, and the rest
\* is named for what is done.
Places == {"none", "claiming", "slot", "row", "leased", "written", "ending"}
Idle  == [at |-> "none", kind |-> "nightly", inRun |-> FALSE, row |-> 0]

VARIABLES
  up,       \* the consoles that are up
  tick,     \* the jobs a console's tick has yet to start
  task,     \* what a console is doing for a job
  sweep,    \* where a console's sweep is: the rows and jobs it listed and has
            \* yet to look at, the job whose cut-off rows it has noted
  rows,     \* the backups table, by start
  rowLease, \* the rows under a lease
  jobLease, \* the jobs whose run-job lease is held
  claim,    \* each job's claim: its holder and what for
  lock,     \* the jobs whose one requeue into the run is taken
  run,      \* the run: its state, jobs, jobsDone, whether it is late, and the
            \* rows that were there before it
  byHand,   \* the jobs with a finished run by hand in the nightly's window
  off,      \* the jobs switched off
  troubles  \* how many of each trouble there were

redis   == <<rowLease, jobLease, claim, lock>>
outside == <<byHand, off, troubles>>
vars    == <<up, tick, task, sweep, rows, redis, run, outside>>

Nobody     == [by |-> "nobody", of |-> <<>>]
Mine(t)    == [by |-> task[t].kind, of |-> t]
Scheduled  == {"nightly", "requeue"}     \* the claimer "scheduled"
NoSweep    == [rows |-> {}, jobs |-> {}, plan |-> {}, inRun |-> FALSE]

\* claimJob's SET NX.  BugFree heeds scheduled runs only.
BugFree(j) == claim[j].by \notin Scheduled
Free(j)    == claim[j] = Nobody

\* Who renews a key: the console at work on what the key stands for.
Up(c)       == c \in up
HoldsRow(r) == \E t \in Tasks : task[t].at = "leased" /\ task[t].row = r
HoldsJob(j) == \E c \in Consoles :
                 j \in tick[c] \/ task[<<c, j, "queued">>].inRun
Claimed(t)  == task[t].at \notin {"none", "claiming"}

RowsOf(j)    == {r \in DOMAIN rows : rows[r].job = j}
IsRunning(r) == rows[r].status = "running"     \* no row is inserted "pending"
Running(j)   == \E r \in RowsOf(j) : IsRunning(r)
InSlot(c)    == {t \in {c} \X Jobs \X Lines :
                   task[t].at \in {"row", "leased", "written"}}

Trouble(kind) ==
  /\ troubles' = [troubles EXCEPT ![kind] = @ + 1]
  /\ \E m \in Mixes : \A k \in Troubles : troubles'[k] <= m[k]

Init ==
  /\ up = Consoles
  /\ tick = [c \in Consoles |-> {}]
  /\ task = [t \in Tasks |-> Idle]
  /\ sweep = [c \in Consoles |-> NoSweep]
  /\ rows = <<>>
  /\ rowLease = {} /\ jobLease = {} /\ lock = {}
  /\ claim = [j \in Jobs |-> Nobody]
  /\ run = [state |-> "none", plan |-> {}, done |-> {}, late |-> FALSE,
            since |-> 0]
  /\ byHand = {} /\ off = {}
  /\ troubles = [k \in Troubles |-> 0]
-----------------------------------------------------------------------------
(* The run's row.  Every write of it asks for a run not yet finished. *)

Open == run.state = "open"
AllDone == run.plan \subseteq run.done

\* markJobDone, and the mark adoptManualRun makes
DoneWith(j) == IF Open THEN [run EXCEPT !.done = @ \cup {j}] ELSE run

\* extendDeadline; MAX_RUN_MS is not pushed out
Extended == IF Open THEN [run EXCEPT !.late = FALSE] ELSE run
-----------------------------------------------------------------------------
(* A task's start, shared by its callers. *)

Begin(t, kind, inRun, at) ==
  task' = [task EXCEPT ![t] =
             [at |-> at, kind |-> kind, inRun |-> inRun, row |-> 0]]

\* claimJob for a free claim.  adoptManualRun then takes a run by hand as the
\* job's result in the nightly run, or the job waits for a slot.
Claim(t, kind, inRun) ==
  LET taken == inRun /\ t[2] \in byHand
  IN  /\ claim' = [claim EXCEPT ![t[2]] = [by |-> kind, of |-> t]]
      /\ Begin(t, kind, inRun, IF taken THEN "ending" ELSE "slot")
      /\ run' = IF taken THEN DoneWith(t[2]) ELSE run
-----------------------------------------------------------------------------
(* The tick.  startNightlyRuns opens the run once per key; the console that *)
(* did leases its jobs before the run is old enough for a sweep.            *)

OpenRun(c) ==
  /\ Up(c) /\ run.state = "none"
  /\ run' = [run EXCEPT !.state = "open", !.plan = Jobs \ off,
                        !.since = Len(rows)]
  /\ tick' = [tick EXCEPT ![c] = Jobs \ off]
  /\ jobLease' = Jobs \ off
  /\ UNCHANGED <<up, task, sweep, rows, rowLease, claim, lock, outside>>

\* The job is queued here, held by another scheduled run, or has a running
\* row: skipInRun reports it done.
MustSkip(c, j) ==
  \/ task[<<c, j, "queued">>].at # "none"
  \/ claim[j].by \in Scheduled
  \/ Free(j) /\ Running(j)

SkipInRun(c, j) ==
  /\ j \in tick[c] /\ MustSkip(c, j)
  /\ tick' = [tick EXCEPT ![c] = @ \ {j}]
  /\ run' = DoneWith(j)
  /\ jobLease' = jobLease \ {j}
  /\ UNCHANGED <<up, task, sweep, rows, rowLease, claim, lock, outside>>

\* With the claim, or to wait for it: a nightly job starts beside a run by
\* hand.
StartNightly(c, j) ==
  LET t == <<c, j, "queued">>
  IN  /\ j \in tick[c] /\ ~MustSkip(c, j)
      /\ tick' = [tick EXCEPT ![c] = @ \ {j}]
      /\ IF Free(j)
           THEN Claim(t, "nightly", TRUE)
           ELSE /\ Begin(t, "nightly", TRUE, "claiming")
                /\ UNCHANGED <<claim, run>>
      /\ UNCHANGED <<up, sweep, rows, rowLease, jobLease, lock, outside>>

\* startManualBackup with the claim; by force, it asks nothing else.
StartManual(c, j) ==
  LET t == <<c, j, "manual">>
  IN  /\ Up(c) /\ task[t].at = "none"
      /\ Trouble("manual")
      /\ Free(j)
      /\ Claim(t, "manual", FALSE)
      /\ UNCHANGED <<up, tick, sweep, rows, rowLease, jobLease, lock, byHand,
                     off>>

\* startDueInitialBackups: not beside a running row of the job
StartFirst(c, j) ==
  LET t == <<c, j, "queued">>
  IN  /\ Up(c) /\ task[t].at = "none"
      /\ Trouble("first")
      /\ Free(j) /\ ~Running(j)
      /\ Claim(t, "initial", FALSE)
      /\ UNCHANGED <<up, tick, sweep, rows, rowLease, jobLease, lock, byHand,
                     off>>
-----------------------------------------------------------------------------
(* A task, from the claim to its report. *)

Step(t, at) == task' = [task EXCEPT ![t].at = at]

\* claimJobWhenFree
TakeClaim(t) ==
  /\ task[t].at = "claiming" /\ Free(t[2])
  /\ Claim(t, task[t].kind, task[t].inRun)
  /\ UNCHANGED <<up, tick, sweep, rows, rowLease, jobLease, lock, outside>>

\* withBackupSlot, then runBackup inserts the row
InsertRow(t) ==
  /\ task[t].at = "slot" /\ Cardinality(InSlot(t[1])) < SlotLimit
  /\ rows' = Append(rows, [job |-> t[2], trigger |-> task[t].kind,
                           status |-> "running", note |-> "none"])
  /\ task' = [task EXCEPT ![t].at = "row", ![t].row = Len(rows) + 1]
  /\ UNCHANGED <<up, tick, sweep, redis, run, outside>>

\* holdBackupLease, within LEASE_GRACE_MS of the insert
LeaseRow(t) ==
  /\ task[t].at = "row"
  /\ rowLease' = rowLease \cup {task[t].row}
  /\ Step(t, "leased")
  /\ UNCHANGED <<up, tick, sweep, rows, jobLease, claim, lock, run, outside>>

\* The outcome, good or bad ("finished"), is written by the row's id alone, its
\* log over whatever the row's log said; then the lease is released.
WriteOutcome(t) ==
  /\ task[t].at = "leased"
  /\ rows' = [rows EXCEPT ![task[t].row].status = "finished",
                          ![task[t].row].note = "none"]
  /\ rowLease' = rowLease \ {task[t].row}
  /\ Step(t, "written")
  /\ UNCHANGED <<up, tick, sweep, jobLease, claim, lock, run, outside>>

\* markJobDone in the run the task reports to
Report(t) ==
  /\ task[t].at = "written"
  /\ run' = IF task[t].inRun THEN DoneWith(t[2]) ELSE run
  /\ byHand' = IF task[t].kind = "manual" THEN byHand \cup {t[2]} ELSE byHand
  /\ Step(t, "ending")
  /\ UNCHANGED <<up, tick, sweep, rows, redis, off, troubles>>

\* Releases the claim while it is its own, the run-job lease whoever set it.
End(t) ==
  /\ task[t].at = "ending"
  /\ task' = [task EXCEPT ![t] = Idle]
  /\ claim' = [claim EXCEPT ![t[2]] = IF @ = Mine(t) THEN Nobody ELSE @]
  /\ jobLease' = IF task[t].inRun THEN jobLease \ {t[2]} ELSE jobLease
  /\ UNCHANGED <<up, tick, sweep, rows, rowLease, lock, run, outside>>

TaskStep(t) ==
  \/ TakeClaim(t) \/ InsertRow(t) \/ LeaseRow(t)
  \/ WriteOutcome(t) \/ Report(t) \/ End(t)
-----------------------------------------------------------------------------
(* The sweep: reap, requeue the cut-off rows, requeue the orphaned jobs. *)

\* A row as young as its insert is spared.
Old(r) == ~ \E t \in Tasks : task[t].at = "row" /\ task[t].row = r

SweepStart(c) ==
  /\ Up(c) /\ sweep[c] = NoSweep
  /\ LET listed == {r \in DOMAIN rows : IsRunning(r) /\ Old(r)}
     IN  /\ listed # {}
         /\ sweep' = [sweep EXCEPT ![c].rows = listed]
  /\ UNCHANGED <<up, tick, task, rows, redis, run, outside>>

\* Reads the lease of a row listed before; the update asks again for a row
\* that has not finished, BugMayReap does not.
BugMayReap(r) == r \notin rowLease
MayReap(r)    == r \notin rowLease /\ IsRunning(r)

Reap(c, r) ==
  /\ r \in sweep[c].rows
  /\ sweep' = [sweep EXCEPT ![c].rows = @ \ {r}]
  /\ rows' = IF MayReap(r)
               THEN [rows EXCEPT ![r].status = "failed", ![r].note = "cut"]
               ELSE rows
  /\ UNCHANGED <<up, tick, task, redis, run, outside>>

\* Cut-off rows of scheduled runs nobody has noted.  First snapshots, runs
\* by hand and requeued runs carry a trigger.  BugCutOff asks only for that.
BugCutOff(j) ==
  {r \in RowsOf(j) : rows[r].trigger = "nightly" /\ rows[r].note # "requeued"}
CutOff(j) ==
  {r \in RowsOf(j) : /\ rows[r].status = "failed" /\ rows[r].note = "cut"
                     /\ rows[r].trigger = "nightly"}

\* A later row of the job that is no first snapshot.
Superseded(j) ==
  \E r \in RowsOf(j) : /\ \A q \in CutOff(j) : q < r
                       /\ rows[r].trigger # "initial"

\* claimRows and runAwaiting: notes the job's rows, finds the open run that
\* waits for it and pushes its deadline out; a job off or superseded is
\* reported done instead.
PlanRequeue(c, j) ==
  LET skip    == j \in off \/ Superseded(j)
      awaited == Open /\ j \in run.plan \ run.done
  IN  /\ Up(c) /\ sweep[c] = NoSweep /\ CutOff(j) # {}
      /\ rows' = [r \in DOMAIN rows |->
                    IF r \in CutOff(j) THEN [rows[r] EXCEPT !.note = "requeued"]
                                       ELSE rows[r]]
      /\ run' = CASE ~awaited -> run
                  [] awaited /\ skip -> [Extended EXCEPT !.done = @ \cup {j}]
                  [] OTHER -> Extended
      /\ sweep' = IF skip THEN sweep
                  ELSE [sweep EXCEPT ![c].plan = {j}, ![c].inRun = awaited]
      /\ UNCHANGED <<up, tick, task, redis, outside>>

\* claimRunJob.  BugLockFree lets go of it with the job's lease.
BugLockFree(j) == j \notin lock \/ j \notin jobLease
LockFree(j)    == j \notin lock

\* claimRunJob and runRequeuedJob, whose answer that the job is queued here
\* already is not looked at.
Requeue(c, j) ==
  LET inRun == sweep[c].inRun
      mine  == inRun => LockFree(j)
      runs  == mine /\ task[<<c, j, "queued">>].at = "none"
  IN  /\ sweep[c].plan = {j}
      /\ sweep' = [sweep EXCEPT ![c].plan = {}, ![c].inRun = FALSE]
      /\ lock' = IF inRun THEN lock \cup {j} ELSE lock
      /\ IF runs THEN Begin(<<c, j, "queued">>, "requeue", inRun, "claiming")
                 ELSE UNCHANGED task
      /\ jobLease' = IF runs /\ inRun THEN jobLease \cup {j} ELSE jobLease
      /\ UNCHANGED <<up, tick, rows, rowLease, claim, run, outside>>

\* Lists the jobs the open run waits on: a pass that found nothing to reap or
\* to requeue starts here.
SweepOrphans(c) ==
  /\ Up(c) /\ sweep[c] = NoSweep
  /\ Open /\ ~AllDone
  /\ sweep' = [sweep EXCEPT ![c].jobs = run.plan \ run.done]
  /\ UNCHANGED <<up, tick, task, rows, redis, run, outside>>

\* Nobody holds the job, and it has no running row since the run began; for
\* BugLost, no row at all.
RunRows(j) == {r \in RowsOf(j) : r > run.since}
BugLost(j) == j \notin jobLease /\ RunRows(j) = {}
Lost(j)    == j \notin jobLease /\ ~ \E r \in RunRows(j) : IsRunning(r)

\* Looks at a job listed before.  One queued here gives the lock back, for a
\* later sweep.
Orphan(c, j) ==
  LET runs == /\ Lost(j) /\ j \notin off /\ LockFree(j)
              /\ task[<<c, j, "queued">>].at = "none"
  IN  /\ j \in sweep[c].jobs
      /\ sweep' = [sweep EXCEPT ![c].jobs = @ \ {j}]
      /\ lock' = IF runs THEN lock \cup {j} ELSE lock
      /\ IF runs THEN Begin(<<c, j, "queued">>, "requeue", TRUE, "claiming")
                 ELSE UNCHANGED task
      /\ jobLease' = IF runs THEN jobLease \cup {j} ELSE jobLease
      /\ run' = CASE runs -> Extended
                  [] Lost(j) /\ j \in off -> DoneWith(j)
                  [] OTHER -> run
      /\ UNCHANGED <<up, tick, rows, rowLease, claim, outside>>

SweepStep(c) ==
  \/ SweepStart(c) \/ SweepOrphans(c)
  \/ \E r \in DOMAIN rows : Reap(c, r)
  \/ \E j \in Jobs : PlanRequeue(c, j) \/ Requeue(c, j) \/ Orphan(c, j)
-----------------------------------------------------------------------------
(* The finish pass. *)

\* Every job reported, or the run is late.
FinishRun(c) ==
  /\ Up(c) /\ Open /\ (AllDone \/ run.late)
  /\ run' = [run EXCEPT !.state = "closed"]
  /\ UNCHANGED <<up, tick, task, sweep, rows, redis, outside>>
-----------------------------------------------------------------------------
(* Time, stops and Redis. *)

\* The deadline passes without progress for RUN_PROGRESS_MS, or MAX_RUN_MS.
Later ==
  /\ Open /\ ~run.late
  /\ run' = [run EXCEPT !.late = TRUE]
  /\ UNCHANGED <<up, tick, task, sweep, rows, redis, outside>>

SwitchOff(j) ==
  /\ j \notin off /\ Trouble("off")
  /\ off' = off \cup {j}
  /\ UNCHANGED <<up, tick, task, sweep, rows, redis, run, byHand>>

\* What it was doing is gone; its keys wait for their TTL.
Stop(c) ==
  /\ Up(c) /\ Trouble("stop")
  /\ up' = up \ {c}
  /\ tick' = [tick EXCEPT ![c] = {}]
  /\ task' = [t \in Tasks |-> IF t[1] = c THEN Idle ELSE task[t]]
  /\ sweep' = [sweep EXCEPT ![c] = NoSweep]
  /\ claim' = [j \in Jobs |->
                 IF claim[j].of # <<>> /\ claim[j].of[1] = c
                   THEN [claim[j] EXCEPT !.of = <<>>] ELSE claim[j]]
  /\ UNCHANGED <<rows, rowLease, jobLease, lock, run, byHand, off>>

\* instrumentation.ts reaps at boot, which is a sweep that goes no further
Restart(c) ==
  /\ ~Up(c)
  /\ up' = up \cup {c}
  /\ UNCHANGED <<tick, task, sweep, rows, redis, run, outside>>

ExpireRow(r) ==
  /\ r \in rowLease /\ ~HoldsRow(r)
  /\ rowLease' = rowLease \ {r}
  /\ UNCHANGED <<up, tick, task, sweep, rows, jobLease, claim, lock, run,
                 outside>>

ExpireJob(j) ==
  /\ j \in jobLease /\ ~HoldsJob(j)
  /\ jobLease' = jobLease \ {j}
  /\ UNCHANGED <<up, tick, task, sweep, rows, rowLease, claim, lock, run,
                 outside>>

ExpireClaim(j) ==
  /\ ~Free(j) /\ claim[j].of = <<>>
  /\ claim' = [claim EXCEPT ![j] = Nobody]
  /\ UNCHANGED <<up, tick, task, sweep, rows, rowLease, jobLease, lock, run,
                 outside>>

\* Missed beats: every key of a live console goes.
Lapse(c) ==
  /\ Up(c) /\ Trouble("lapse")
  /\ rowLease' = rowLease \ {task[t].row : t \in {t \in Tasks : t[1] = c}}
  /\ jobLease' =
       {j \in jobLease : j \notin tick[c] /\ ~task[<<c, j, "queued">>].inRun}
  /\ claim' = [j \in Jobs |-> IF claim[j].of # <<>> /\ claim[j].of[1] = c
                                THEN Nobody ELSE claim[j]]
  /\ UNCHANGED <<up, tick, task, sweep, rows, lock, run, byHand, off>>

\* The next beat sets a lease again, a claim only while nobody has it.
Beat ==
  \/ \E t \in Tasks :
       /\ task[t].at = "leased" /\ task[t].row \notin rowLease
       /\ rowLease' = rowLease \cup {task[t].row}
       /\ UNCHANGED <<jobLease, claim, lock>>
  \/ \E j \in Jobs \ jobLease :
       /\ HoldsJob(j)
       /\ jobLease' = jobLease \cup {j}
       /\ UNCHANGED <<rowLease, claim, lock>>
  \/ \E t \in Tasks :
       /\ Claimed(t) /\ Free(t[2])
       /\ claim' = [claim EXCEPT ![t[2]] = Mine(t)]
       /\ UNCHANGED <<rowLease, jobLease, lock>>
BeatStep == Beat /\ UNCHANGED <<up, tick, task, sweep, rows, run, outside>>
-----------------------------------------------------------------------------
TickStep(c) ==
  OpenRun(c) \/ \E j \in Jobs : SkipInRun(c, j) \/ StartNightly(c, j)
Expire == \/ \E r \in DOMAIN rows : ExpireRow(r)
          \/ \E j \in Jobs : ExpireJob(j) \/ ExpireClaim(j)

Next ==
  \/ \E c \in Consoles :
       \/ TickStep(c) \/ SweepStep(c) \/ FinishRun(c)
       \/ Stop(c) \/ Restart(c) \/ Lapse(c)
       \/ \E j \in Jobs : StartManual(c, j) \/ StartFirst(c, j)
  \/ \E t \in Tasks : TaskStep(t)
  \/ \E j \in Jobs : SwitchOff(j)
  \/ Later \/ Expire \/ BeatStep

BackupSpec == Init /\ [][Next]_vars

\* The loops run again and again, a task goes on until its console stops, a
\* stopped console is restarted; a pass of the sweep reaps, then requeues,
\* before it looks for orphans.
FairBackups ==
  /\ BackupSpec
  /\ WF_vars(Expire)
  /\ \A c \in Consoles :
       /\ WF_vars(TickStep(c) \/ FinishRun(c) \/ Restart(c))
       /\ WF_vars(\E t \in Tasks : t[1] = c /\ TaskStep(t))
       /\ WF_vars(SweepStep(c))
       /\ SF_vars(SweepStart(c)) /\ SF_vars(\E j \in Jobs : PlanRequeue(c, j))
-----------------------------------------------------------------------------
\* Types.  A console that is down does nothing, a claim is its job's, and only
\* a failed row has a note: an outcome written late takes the note with it.
BackupTypeOK ==
  /\ up \subseteq Consoles
  /\ tick \in [Consoles -> SUBSET Jobs]
  /\ task \in [Tasks -> [at : Places, kind : Kinds, inRun : BOOLEAN,
                        row : 0 .. Len(rows)]]
  /\ sweep \in [Consoles -> [rows : SUBSET (DOMAIN rows), jobs : SUBSET Jobs,
                             plan : SUBSET Jobs, inRun : BOOLEAN]]
  /\ rows \in Seq([job : Jobs, trigger : Kinds,
                   status : {"running", "finished", "failed"},
                   note : {"none", "cut", "requeued"}])
  /\ rowLease \subseteq DOMAIN rows
  /\ jobLease \subseteq Jobs /\ lock \subseteq Jobs
  /\ claim \in [Jobs -> [by : Kinds \cup {"nobody"}, of : Tasks \cup {<<>>}]]
  /\ run \in [state : {"none", "open", "closed"}, plan : SUBSET Jobs,
              done : SUBSET Jobs, late : BOOLEAN, since : 0 .. Len(rows)]
  /\ byHand \subseteq Jobs /\ off \subseteq Jobs
  /\ troubles \in [Troubles -> Nat]
  /\ run.done \subseteq run.plan
  /\ \A c \in Consoles : Up(c) \/ (tick[c] = {} /\ sweep[c] = NoSweep)
  /\ \A r \in DOMAIN rows : rows[r].note # "none" => rows[r].status = "failed"
  /\ \A j \in Jobs : claim[j].of = <<>> \/ claim[j].of[2] = j

\* One run of a job at a time across consoles, while no live console's keys
\* lapse (job-claim.ts:1).
OneRunOfAJob ==
  troubles.lapse = 0 =>
    \A s, t \in Tasks : s[2] = t[2] /\ Claimed(s) /\ Claimed(t) => s = t

\* A backup that finished keeps its outcome (reap.ts:41).  The reaper's verdict
\* stands too, unless a live console's keys lapsed: then a backup that was
\* still at work may write its own over it.
OutcomeSticks ==
  [][\A r \in DOMAIN rows : rows[r].status # "running" =>
       \/ rows'[r].status = rows[r].status
       \/ troubles.lapse > 0 /\ rows'[r].status = "finished"]_vars

\* A job is rerun at most once while its run is open, by whichever console and
\* for whichever reason, while no live console's keys lapse (requeue.ts:20).
RequeuedOnce ==
  Open /\ troubles.lapse = 0 => \A j \in Jobs :
    Cardinality({r \in RowsOf(j) : rows[r].trigger = "requeue"}) <= 1

Calm == /\ troubles.stop <= 1 /\ troubles.lapse = 0 /\ troubles.first = 0
        /\ ~run.late

\* Every job of the run reports without its deadline's help, although a console
\* stops: a job waiting for its claim or slot, one whose backup was cut off and
\* one that had yet to report are run again or given up (requeue.ts:1).  While
\* no live console's keys lapse, and no first snapshot is about.
EveryJobReports == []Calm => (Open ~> AllDone)
=============================================================================
