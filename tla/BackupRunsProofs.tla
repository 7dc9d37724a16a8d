--------------------------- MODULE BackupRunsProofs ---------------------------
(***************************************************************************)
(* What a nightly backup run keeps for any number of consoles and jobs,    *)
(* any slot limit and any mix of troubles: the types of its state, one run *)
(* of a job at a time, outcomes that stay, and one rerun of a job.         *)
(*                                                                         *)
(* They rest on what ties a task to Redis while no live console's keys     *)
(* lapse: its job's claim is its own (ClaimInv), and its row runs, under   *)
(* its lease from the moment a sweep may list it (RowInv).  That a job is  *)
(* rerun once needs more (OnceInv): a job's nightly run is over before its *)
(* rerun is planned, and the lock is taken before the rerun begins.        *)
(***************************************************************************)
EXTENDS BackupRuns, FiniteSetTheorems, TLAPS

(* Types. *)

LEMMA TaskParts ==
  ASSUME NEW t \in Tasks
  PROVE  /\ t[1] \in Consoles /\ t[2] \in Jobs /\ t[3] \in Lines
         /\ t = <<t[1], t[2], t[3]>> /\ t # <<>>
BY DEF Tasks

LEMMA TaskOf ==
  ASSUME NEW c \in Consoles, NEW j \in Jobs
  PROVE  /\ <<c, j, "queued">> \in Tasks /\ <<c, j, "manual">> \in Tasks
         /\ \A l \in Lines : <<c, j, l>>[1] = c /\ <<c, j, l>>[2] = j
BY DEF Tasks, Lines

\* BackupTypeOK, part by part, with what makes it inductive: a job that is started,
\* reported on or listed is one of the run's, and a task at work has a row.
TickOK ==
  /\ up \subseteq Consoles
  /\ tick \in [Consoles -> SUBSET Jobs]
  /\ \A c \in Consoles : tick[c] \subseteq run.plan /\ (Up(c) \/ tick[c] = {})

TaskOK ==
  /\ task \in [Tasks -> [at : Places, kind : Kinds, inRun : BOOLEAN, row : 0 .. Len(rows)]]
  /\ \A t \in Tasks :
       /\ task[t].inRun => t[2] \in run.plan
       /\ task[t].at \in {"row", "leased"} => task[t].row \in DOMAIN rows

SweepRec == [rows : SUBSET (DOMAIN rows), jobs : SUBSET Jobs, plan : SUBSET Jobs,
             inRun : BOOLEAN]
SweepOK ==
  /\ sweep \in [Consoles -> SweepRec]
  /\ \A c \in Consoles :
       /\ sweep[c].jobs \subseteq run.plan
       /\ sweep[c].inRun => sweep[c].plan \subseteq run.plan
       /\ Up(c) \/ sweep[c] = NoSweep

RowRec == [job : Jobs, trigger : Kinds, status : {"running", "finished", "failed"},
           note : {"none", "cut", "requeued"}]
RowsOK ==
  /\ rows \in Seq(RowRec) /\ rowLease \subseteq DOMAIN rows
  /\ \A r \in DOMAIN rows : rows[r].note # "none" => rows[r].status = "failed"

KeysOK ==
  /\ jobLease \subseteq Jobs /\ lock \subseteq Jobs
  /\ claim \in [Jobs -> [by : Kinds \cup {"nobody"}, of : Tasks \cup {<<>>}]]
  /\ \A j \in Jobs : claim[j].of = <<>> \/ claim[j].of[2] = j

RunOK ==
  /\ run \in [state : {"none", "open", "closed"}, plan : SUBSET Jobs,
              done : SUBSET Jobs, late : BOOLEAN, since : 0 .. Len(rows)]
  /\ run.done \subseteq run.plan
  /\ run.state = "none" => run.plan = {}

RestOK ==
  byHand \subseteq Jobs /\ off \subseteq Jobs /\ troubles \in [Troubles -> Nat]

TypeInv == TickOK /\ TaskOK /\ SweepOK /\ RowsOK /\ KeysOK /\ RunOK /\ RestOK

LEMMA TypesHold == TypeInv => BackupTypeOK
BY DEF TypeInv, TickOK, TaskOK, SweepOK, SweepRec, RowsOK, RowRec, KeysOK, RunOK, RestOK,
   BackupTypeOK

\* What one write does to a record.
LEMMA RowSet ==
  ASSUME NEW R, NEW s \in Seq(R), NEW r \in DOMAIN s, NEW v \in R
  PROVE  /\ [s EXCEPT ![r] = v] \in Seq(R)
         /\ DOMAIN [s EXCEPT ![r] = v] = DOMAIN s
         /\ Len([s EXCEPT ![r] = v]) = Len(s)
OBVIOUS

LEMMA RowMarked ==
  ASSUME NEW x \in RowRec, NEW st \in {"running", "finished", "failed"},
         NEW n \in {"none", "cut", "requeued"}
  PROVE  /\ [x EXCEPT !.note = n] \in RowRec
         /\ [x EXCEPT !.status = st, !.note = n] \in RowRec
         /\ [x EXCEPT !.status = st, !.note = n].status = st
         /\ [x EXCEPT !.status = st, !.note = n].note = n
BY DEF RowRec

LEMMA RowsSet ==
  ASSUME RowsOK, NEW r \in DOMAIN rows, NEW v \in RowRec, rows' = [rows EXCEPT ![r] = v],
         v.note # "none" => v.status = "failed", rowLease' \subseteq DOMAIN rows
  PROVE  RowsOK' /\ DOMAIN rows' = DOMAIN rows /\ Len(rows') = Len(rows)
BY RowSet DEF RowsOK

LEMMA SweepParts ==
  ASSUME NEW x \in SweepRec, NEW r
  PROVE  /\ [x EXCEPT !.plan = {}, !.inRun = FALSE] \in SweepRec
         /\ [x EXCEPT !.plan = {}, !.inRun = FALSE].jobs = x.jobs
         /\ ~[x EXCEPT !.plan = {}, !.inRun = FALSE].inRun
         /\ [x EXCEPT !.jobs = @ \ {r}] \in SweepRec
         /\ [x EXCEPT !.jobs = @ \ {r}].jobs \subseteq x.jobs
         /\ [x EXCEPT !.jobs = @ \ {r}].plan = x.plan
         /\ [x EXCEPT !.jobs = @ \ {r}].inRun = x.inRun
BY DEF SweepRec

\* The writes of the run's row.
LEMMA ExtendedOK ==
  ASSUME RunOK, Len(rows') = Len(rows), run' = Extended
  PROVE  RunOK' /\ run'.plan = run.plan
<1>1. CASE Open
  BY <1>1 DEF RunOK, Extended
<1>2. CASE ~Open
  BY <1>2 DEF RunOK, Extended
<1> QED BY <1>1, <1>2

LEMMA DoneOK ==
  ASSUME RunOK, NEW j \in run.plan, rows' = rows, run' = DoneWith(j)
  PROVE  RunOK' /\ run'.plan = run.plan
<1>1. CASE Open
  BY <1>1 DEF RunOK, DoneWith
<1>2. CASE ~Open
  BY <1>2 DEF RunOK, DoneWith
<1> QED BY <1>1, <1>2

\* The writes of a sweep's state.
LEMMA SweepSet ==
  ASSUME SweepOK, DOMAIN rows' = DOMAIN rows, run'.plan = run.plan, up' = up,
         NEW c \in Consoles, Up(c), NEW v \in SweepRec,
         v.jobs \subseteq run.plan, v.inRun => v.plan \subseteq run.plan,
         sweep' = [sweep EXCEPT ![c] = v]
  PROVE  SweepOK'
BY DEF SweepOK, SweepRec, Up

LEMMA Sweeping ==
  ASSUME SweepOK, NEW c \in Consoles,
         sweep[c].rows # {} \/ sweep[c].jobs # {} \/ sweep[c].plan # {}
  PROVE  Up(c)
BY DEF SweepOK, NoSweep

\* The writes of a task.
LEMMA BeginOK ==
  ASSUME TaskOK, rows' = rows, run'.plan = run.plan, RowsOK,
         NEW t \in Tasks, NEW kind \in Kinds, NEW inRun \in BOOLEAN, inRun => t[2] \in run.plan,
         NEW at \in Places \ {"row", "leased"}, Begin(t, kind, inRun, at)
  PROVE  TaskOK'
BY DEF TaskOK, RowsOK, Begin, Places

LEMMA StepOK ==
  ASSUME TaskOK, rows' = rows, run'.plan = run.plan,
         NEW t \in Tasks, NEW at \in Places, at = "row" => FALSE,
         at = "leased" => task[t].at = "row", Step(t, at)
  PROVE  TaskOK'
BY DEF TaskOK, Step, Places

LEMMA ClaimOK ==
  ASSUME TypeInv, rows' = rows, UNCHANGED <<jobLease, lock>>,
         NEW t \in Tasks, NEW kind \in Kinds, NEW inRun \in BOOLEAN, inRun => t[2] \in run.plan,
         Claim(t, kind, inRun)
  PROVE  TaskOK' /\ KeysOK' /\ RunOK' /\ run'.plan = run.plan
<1>1. run' = run \/ (t[2] \in run.plan /\ run' = DoneWith(t[2]))
  BY DEF Claim
<1>2. RunOK' /\ run'.plan = run.plan
  <2>1. CASE run' = run
    BY <2>1 DEF TypeInv, RunOK
  <2>2. CASE run' # run
    BY <1>1, <2>2, DoneOK DEF TypeInv
  <2> QED BY <2>1, <2>2
<1>3. TaskOK'
  BY <1>2, BeginOK DEF Claim, TypeInv, Places
<1>4. KeysOK'
  BY TaskParts DEF Claim, TypeInv, KeysOK
<1> QED BY <1>2, <1>3, <1>4

LEMMA RunOpened ==
  ASSUME RunOK, run.plan = {}, Len(rows) \in Nat, rows' = rows, NEW P \in SUBSET Jobs,
         run' = [run EXCEPT !.state = "open", !.plan = P, !.since = Len(rows)]
  PROVE  RunOK' /\ run'.plan = P
<1>1. /\ DOMAIN run' = {"state", "plan", "done", "late", "since"}
      /\ run'.state = "open" /\ run'.plan = P /\ run'.since = Len(rows)
      /\ run'.done = run.done /\ run'.late = run.late
  BY DEF RunOK
<1>2. run' = [state |-> "open", plan |-> P, done |-> run.done, late |-> run.late,
              since |-> Len(rows)]
  BY <1>1 DEF RunOK
<1>3. run.done \in SUBSET Jobs /\ run.late \in BOOLEAN /\ run.done = {}
  BY DEF RunOK
<1> QED BY <1>1, <1>2, <1>3 DEF RunOK

RunSet(N) == [state : {"none", "open", "closed"}, plan : SUBSET Jobs,
              done : SUBSET Jobs, late : BOOLEAN, since : N]

LEMMA DoneAdded ==
  ASSUME NEW N, NEW x \in RunSet(N), NEW j \in Jobs, NEW y, y = [x EXCEPT !.done = @ \cup {j}]
  PROVE  /\ y \in RunSet(N) /\ y.done = x.done \cup {j}
         /\ y.plan = x.plan /\ y.state = x.state
BY DEF RunSet

LEMMA GivenUp ==
  ASSUME RunOK, Open, NEW j \in run.plan, Len(rows') = Len(rows),
         run' = [Extended EXCEPT !.done = @ \cup {j}]
  PROVE  RunOK' /\ run'.plan = run.plan
<1>1. /\ Extended \in RunSet(0 .. Len(rows)) /\ j \in Jobs
      /\ Extended.done = run.done /\ Extended.plan = run.plan /\ Extended.state = run.state
  BY DEF RunOK, Extended, RunSet
<1>2. /\ run' \in RunSet(0 .. Len(rows)) /\ run'.done = run.done \cup {j}
      /\ run'.plan = run.plan /\ run'.state = run.state
  BY <1>1, DoneAdded
<1>3. run.done \subseteq run.plan /\ (run.state = "none" => run.plan = {})
  BY DEF RunOK
<1> QED BY <1>2, <1>3 DEF RunOK, RunSet

LEMMA RowAt ==
  ASSUME RowsOK, NEW r \in DOMAIN rows
  PROVE  rows[r] \in RowRec /\ r \in Nat
BY DEF RowsOK

LEMMA StepAway ==
  ASSUME TaskOK, Len(rows') = Len(rows), DOMAIN rows' = DOMAIN rows, run'.plan = run.plan,
         NEW t \in Tasks, NEW at \in Places \ {"row", "leased"}, Step(t, at)
  PROVE  TaskOK'
BY DEF TaskOK, Step, Places

\* One step per action.
LEMMA TypeStep ==
  ASSUME TypeInv, [Next]_vars PROVE TypeInv'
<1> USE TaskOf DEF redis, outside
<1>1. ASSUME NEW c \in Consoles, OpenRun(c) PROVE TypeInv'
  <2> USE <1>1 DEF OpenRun
  <2>1. RunOK' /\ run.plan = {} /\ run'.plan = Jobs \ off
    <3>1. Len(rows) \in Nat /\ rows' = rows /\ RunOK
      BY DEF TypeInv, RowsOK
    <3>2. run.plan = {} /\ (Jobs \ off) \in SUBSET Jobs
      BY <3>1 DEF RunOK
    <3> HIDE <1>1
    <3>3. run' = [run EXCEPT !.state = "open", !.plan = Jobs \ off, !.since = Len(rows)]
      BY <1>1
    <3> QED BY <3>1, <3>2, <3>3, RunOpened
  <2>2. TickOK'
    BY <2>1 DEF TypeInv, TickOK, Up
  <2>3. TaskOK' /\ SweepOK' /\ RowsOK' /\ KeysOK' /\ RestOK'
    BY <2>1 DEF TypeInv, TaskOK, SweepOK, SweepRec, RowsOK, KeysOK, RestOK, Up
  <2> QED BY <2>1, <2>2, <2>3 DEF TypeInv
<1>2. ASSUME NEW c \in Consoles, NEW j \in Jobs, SkipInRun(c, j) PROVE TypeInv'
  <2> USE <1>2 DEF SkipInRun
  <2>1. j \in run.plan
    BY DEF TypeInv, TickOK
  <2>2. RunOK' /\ run'.plan = run.plan
    BY <2>1, DoneOK DEF TypeInv
  <2>3. TickOK'
    BY <2>2 DEF TypeInv, TickOK, Up
  <2>4. TaskOK' /\ SweepOK' /\ RowsOK' /\ KeysOK' /\ RestOK'
    BY <2>2 DEF TypeInv, TaskOK, SweepOK, SweepRec, RowsOK, KeysOK, RestOK, Up
  <2> QED BY <2>1, <2>2, <2>3, <2>4 DEF TypeInv
<1>3. ASSUME NEW c \in Consoles, NEW j \in Jobs, StartNightly(c, j) PROVE TypeInv'
  <2> USE <1>3 DEF StartNightly
  <2>1. j \in run.plan
    BY DEF TypeInv, TickOK
  <2> DEFINE t == <<c, j, "queued">>
  <2>2. t \in Tasks /\ t[2] = j
    BY DEF Lines
  <2>3. TaskOK' /\ KeysOK' /\ RunOK' /\ run'.plan = run.plan
    <3> HIDE DEF t
    <3>1. CASE Free(j)
      <4>1. Claim(t, "nightly", TRUE)
        BY <2>2, <3>1 DEF t
      <4> QED BY <2>1, <2>2, <4>1, ClaimOK DEF Kinds
    <3>2. CASE ~Free(j)
      <4>1. Begin(t, "nightly", TRUE, "claiming") /\ UNCHANGED <<claim, run>>
        BY <2>2, <3>2 DEF t
      <4> QED BY <2>1, <2>2, <4>1, BeginOK DEF TypeInv, KeysOK, RunOK, Kinds, Places
    <3> QED BY <3>1, <3>2
  <2>4. TickOK'
    BY <2>3 DEF TypeInv, TickOK, Up
  <2>5. SweepOK' /\ RowsOK' /\ RestOK'
    BY <2>3 DEF TypeInv, SweepOK, SweepRec, RowsOK, RestOK, Up
  <2> QED BY <2>3, <2>4, <2>5 DEF TypeInv
<1>4. ASSUME NEW c \in Consoles, NEW j \in Jobs, StartManual(c, j) PROVE TypeInv'
  <2> USE <1>4 DEF StartManual
  <2>1. TaskOK' /\ KeysOK' /\ RunOK' /\ run'.plan = run.plan
    BY ClaimOK DEF Kinds
  <2>2. TickOK' /\ SweepOK' /\ RowsOK'
    BY <2>1 DEF TypeInv, TickOK, SweepOK, SweepRec, RowsOK, Up
  <2>3. RestOK'
    BY DEF TypeInv, RestOK, Trouble, Troubles
  <2> QED BY <2>1, <2>2, <2>3 DEF TypeInv
<1>5. ASSUME NEW c \in Consoles, NEW j \in Jobs, StartFirst(c, j) PROVE TypeInv'
  <2> USE <1>5 DEF StartFirst
  <2>1. TaskOK' /\ KeysOK' /\ RunOK' /\ run'.plan = run.plan
    BY ClaimOK DEF Kinds
  <2>2. TickOK' /\ SweepOK' /\ RowsOK'
    BY <2>1 DEF TypeInv, TickOK, SweepOK, SweepRec, RowsOK, Up
  <2>3. RestOK'
    BY DEF TypeInv, RestOK, Trouble, Troubles
  <2> QED BY <2>1, <2>2, <2>3 DEF TypeInv
<1>6. ASSUME NEW t \in Tasks, TakeClaim(t) PROVE TypeInv'
  <2> USE <1>6 DEF TakeClaim
  <2>1. task[t].kind \in Kinds /\ task[t].inRun \in BOOLEAN /\ (task[t].inRun => t[2] \in run.plan)
    BY DEF TypeInv, TaskOK
  <2>2. TaskOK' /\ KeysOK' /\ RunOK' /\ run'.plan = run.plan
    BY <2>1, ClaimOK
  <2>3. TickOK' /\ SweepOK' /\ RowsOK' /\ RestOK'
    BY <2>2 DEF TypeInv, TickOK, SweepOK, SweepRec, RowsOK, RestOK, Up
  <2> QED BY <2>1, <2>2, <2>3 DEF TypeInv
<1>7. ASSUME NEW t \in Tasks, InsertRow(t) PROVE TypeInv'
  <2> DEFINE v == [job |-> t[2], trigger |-> task[t].kind, status |-> "running", note |-> "none"]
  <2>1. v \in RowRec /\ v.note = "none"
    BY TaskParts DEF TypeInv, TaskOK, RowRec
  <2>2. rows' = Append(rows, v) /\ rows \in Seq(RowRec)
    BY <1>7 DEF InsertRow, TypeInv, RowsOK
  <2> HIDE DEF v
  <2>3. /\ rows' \in Seq(RowRec) /\ Len(rows') = Len(rows) + 1 /\ Len(rows) \in Nat
        /\ DOMAIN rows = 1 .. Len(rows) /\ DOMAIN rows' = 1 .. Len(rows) + 1
        /\ rows'[Len(rows) + 1] = v /\ \A r \in DOMAIN rows : rows'[r] = rows[r]
    BY <2>1, <2>2
  <2>4. RowsOK'
    BY <1>7, <2>1, <2>3 DEF InsertRow, TypeInv, RowsOK
  <2>5. TaskOK'
    BY <1>7, <2>3 DEF InsertRow, TypeInv, TaskOK, Places
  <2>6. SweepOK' /\ RunOK'
    BY <1>7, <2>3 DEF InsertRow, TypeInv, SweepOK, SweepRec, RunOK, Up
  <2>7. TickOK' /\ KeysOK' /\ RestOK'
    BY <1>7 DEF InsertRow, TypeInv, TickOK, KeysOK, RestOK, Up
  <2> QED BY <2>4, <2>5, <2>6, <2>7 DEF TypeInv
<1>8. ASSUME NEW t \in Tasks, LeaseRow(t) PROVE TypeInv'
  <2> USE <1>8 DEF LeaseRow
  <2>1. TaskOK'
    BY StepOK DEF TypeInv, Places
  <2>2. RowsOK'
    BY DEF TypeInv, RowsOK, TaskOK
  <2>3. TickOK' /\ SweepOK' /\ KeysOK' /\ RunOK' /\ RestOK'
    BY <2>1 DEF TypeInv, TickOK, SweepOK, SweepRec, KeysOK, RunOK, RestOK, Up
  <2> QED BY <2>1, <2>2, <2>3 DEF TypeInv
<1>9. ASSUME NEW t \in Tasks, WriteOutcome(t) PROVE TypeInv'
  <2> DEFINE r == task[t].row
             v == [rows[r] EXCEPT !.status = "finished", !.note = "none"]
  <2>1. r \in DOMAIN rows /\ rowLease' \subseteq DOMAIN rows
    BY <1>9 DEF WriteOutcome, TypeInv, RowsOK, TaskOK
  <2>2. v \in RowRec /\ v.note = "none"
    <3> HIDE DEF r
    <3>1. rows[r] \in RowRec
      BY <2>1, RowAt DEF TypeInv
    <3> QED BY <3>1, RowMarked
  <2>3. rows' = [rows EXCEPT ![r] = v]
    BY <1>9 DEF WriteOutcome
  <2>4. RowsOK' /\ DOMAIN rows' = DOMAIN rows /\ Len(rows') = Len(rows)
    <3> HIDE DEF r, v
    <3> QED BY <2>1, <2>2, <2>3, RowsSet DEF TypeInv
  <2>5. TaskOK'
    <3>1. Step(t, "written") /\ run' = run
      BY <1>9 DEF WriteOutcome
    <3> QED BY <2>4, <3>1, StepAway DEF TypeInv, Places
  <2>6. TickOK' /\ SweepOK' /\ KeysOK' /\ RunOK' /\ RestOK'
    BY <1>9, <2>4 DEF WriteOutcome, TypeInv, TickOK, SweepOK, SweepRec, KeysOK, RunOK, RestOK, Up
  <2> QED BY <2>4, <2>5, <2>6 DEF TypeInv
<1>10. ASSUME NEW t \in Tasks, Report(t) PROVE TypeInv'
  <2> USE <1>10 DEF Report
  <2>1. RunOK' /\ run'.plan = run.plan
    BY DoneOK DEF TypeInv, RunOK, TaskOK
  <2>2. TaskOK'
    BY <2>1, StepOK DEF TypeInv, Places
  <2>3. TickOK' /\ SweepOK' /\ RowsOK' /\ KeysOK'
    BY <2>1 DEF TypeInv, TickOK, SweepOK, SweepRec, RowsOK, KeysOK, Up
  <2>4. RestOK'
    BY TaskParts DEF TypeInv, RestOK
  <2> QED BY <2>1, <2>2, <2>3, <2>4 DEF TypeInv
<1>11. ASSUME NEW t \in Tasks, End(t) PROVE TypeInv'
  <2> USE <1>11 DEF End
  <2>1. TaskOK'
    BY DEF TypeInv, TaskOK, Idle, Places, Kinds
  <2>2. KeysOK'
    BY TaskParts DEF TypeInv, KeysOK, Nobody
  <2>3. TickOK' /\ SweepOK' /\ RowsOK' /\ RunOK' /\ RestOK'
    BY <2>1 DEF TypeInv, TickOK, SweepOK, SweepRec, RowsOK, RunOK, RestOK, Up
  <2> QED BY <2>1, <2>2, <2>3 DEF TypeInv
<1>12. ASSUME NEW c \in Consoles, SweepStart(c) PROVE TypeInv'
  <2> USE <1>12 DEF SweepStart
  <2>1. SweepOK'
    BY DEF TypeInv, SweepOK, SweepRec, NoSweep, Up
  <2>2. TickOK' /\ TaskOK' /\ RowsOK' /\ KeysOK' /\ RunOK' /\ RestOK'
    BY <2>1 DEF TypeInv, TickOK, TaskOK, RowsOK, KeysOK, RunOK, RestOK, Up
  <2> QED BY <2>1, <2>2 DEF TypeInv
<1>13. ASSUME NEW c \in Consoles, NEW r \in DOMAIN rows, Reap(c, r) PROVE TypeInv'
  <2>1. RowsOK' /\ DOMAIN rows' = DOMAIN rows /\ Len(rows') = Len(rows)
    <3> DEFINE v == [rows[r] EXCEPT !.status = "failed", !.note = "cut"]
    <3>1. v \in RowRec /\ v.status = "failed"
      BY RowAt, RowMarked DEF TypeInv
    <3>2. CASE rows' = rows
      BY <1>13, <3>2 DEF Reap, TypeInv, RowsOK
    <3>3. CASE rows' = [rows EXCEPT ![r] = v]
      <4>1. rowLease' \subseteq DOMAIN rows
        BY <1>13 DEF Reap, TypeInv, RowsOK
      <4> HIDE DEF v
      <4> QED BY <3>1, <3>3, <4>1, RowsSet DEF TypeInv
    <3> QED BY <1>13, <3>2, <3>3 DEF Reap
  <2>2. SweepOK'
    <3> DEFINE v == [sweep[c] EXCEPT !.rows = @ \ {r}]
    <3>1. Up(c)
      BY <1>13, Sweeping DEF Reap, TypeInv
    <3>2. v \in SweepRec /\ v.jobs = sweep[c].jobs /\ v.plan = sweep[c].plan /\ v.inRun = sweep[c].inRun
      BY DEF TypeInv, SweepOK, SweepRec
    <3>3. sweep' = [sweep EXCEPT ![c] = v] /\ up' = up /\ run' = run
      BY <1>13 DEF Reap
    <3> HIDE DEF v
    <3> QED BY <2>1, <3>1, <3>2, <3>3, SweepSet DEF TypeInv, SweepOK
  <2>4. TickOK' /\ TaskOK' /\ KeysOK' /\ RunOK' /\ RestOK'
    BY <1>13, <2>1 DEF Reap, TypeInv, TickOK, TaskOK, KeysOK, RunOK, RestOK, Up
  <2> QED BY <2>1, <2>2, <2>4 DEF TypeInv
<1>14. ASSUME NEW c \in Consoles, NEW j \in Jobs, PlanRequeue(c, j) PROVE TypeInv'
  <2> USE <1>14 DEF PlanRequeue
  <2>1. rows' \in Seq(RowRec) /\ DOMAIN rows' = DOMAIN rows /\ Len(rows') = Len(rows)
    <3>1. DOMAIN rows = 1 .. Len(rows) /\ Len(rows) \in Nat
      BY DEF TypeInv, RowsOK
    <3>2. \A r \in DOMAIN rows : rows'[r] \in RowRec
      <4>1. ASSUME NEW r \in DOMAIN rows
            PROVE  rows[r] \in RowRec /\ [rows[r] EXCEPT !.note = "requeued"] \in RowRec
        BY RowAt, RowMarked DEF TypeInv
      <4> QED BY <4>1
    <3>3. rows' = [r \in 1 .. Len(rows) |-> rows'[r]]
      BY <3>1
    <3>4. rows' \in Seq(RowRec) /\ Len(rows') = Len(rows)
      BY <3>1, <3>2, <3>3
    <3> QED BY <3>1, <3>3, <3>4
  <2>2. RunOK' /\ run'.plan = run.plan
    <3>1. Len(rows') = Len(rows) /\ RunOK
      BY <2>1 DEF TypeInv
    <3>2. CASE run' = run
      BY <3>1, <3>2 DEF RunOK
    <3>3. CASE run' = Extended
      BY <3>1, <3>3, ExtendedOK
    <3>4. CASE Open /\ j \in run.plan /\ run' = [Extended EXCEPT !.done = @ \cup {j}]
      BY <3>1, <3>4, GivenUp
    <3> QED BY <3>2, <3>3, <3>4
  <2>3. SweepOK'
    BY <2>1, <2>2 DEF TypeInv, SweepOK, SweepRec, NoSweep, Up
  <2>4. RowsOK'
    BY <2>1 DEF TypeInv, RowsOK, CutOff
  <2>5. TickOK' /\ TaskOK' /\ KeysOK' /\ RestOK'
    BY <2>1, <2>2 DEF TypeInv, TickOK, TaskOK, KeysOK, RestOK, Up
  <2> QED BY <2>2, <2>3, <2>4, <2>5 DEF TypeInv
<1>15. ASSUME NEW c \in Consoles, NEW j \in Jobs, Requeue(c, j) PROVE TypeInv'
  <2> DEFINE t == <<c, j, "queued">>
  <2>1. /\ t \in Tasks /\ t[2] = j /\ Up(c)
        /\ sweep[c].inRun \in BOOLEAN /\ (sweep[c].inRun => j \in run.plan)
    <3>1. Up(c)
      BY <1>15, Sweeping DEF Requeue, TypeInv
    <3>2. sweep[c].inRun \in BOOLEAN /\ (sweep[c].inRun => j \in run.plan)
      BY <1>15 DEF Requeue, TypeInv, SweepOK, SweepRec
    <3> QED BY <3>1, <3>2 DEF Lines
  <2>2. SweepOK'
    <3> DEFINE v == [sweep[c] EXCEPT !.plan = {}, !.inRun = FALSE]
    <3>1. v \in SweepRec /\ v.jobs = sweep[c].jobs /\ ~v.inRun
      BY SweepParts DEF TypeInv, SweepOK
    <3>2. sweep' = [sweep EXCEPT ![c] = v] /\ up' = up /\ rows' = rows /\ run' = run
      <4> DEFINE s1 == [sweep EXCEPT ![c].plan = {}]
      <4>1. sweep' = [s1 EXCEPT ![c].inRun = FALSE]
        BY <1>15 DEF Requeue
      <4>2. s1 \in [Consoles -> SweepRec] /\ s1[c] = [sweep[c] EXCEPT !.plan = {}]
        BY DEF TypeInv, SweepOK, SweepRec
      <4>3. \A d \in Consoles : d # c => s1[d] = sweep[d]
        BY DEF TypeInv, SweepOK
      <4>4. v = [s1[c] EXCEPT !.inRun = FALSE]
        BY <4>2
      <4> HIDE DEF s1, v
      <4> QED BY <1>15, <4>1, <4>2, <4>3, <4>4 DEF Requeue, TypeInv, SweepOK
    <3> HIDE DEF v
    <3> QED BY <2>1, <3>1, <3>2, SweepSet DEF TypeInv, SweepOK
  <2>3. TaskOK'
    <3> HIDE DEF t
    <3>1. UNCHANGED task \/ Begin(t, "requeue", sweep[c].inRun, "claiming")
      BY <1>15 DEF Requeue, t
    <3>2. rows' = rows /\ run' = run
      BY <1>15 DEF Requeue
    <3> QED BY <2>1, <3>1, <3>2, BeginOK DEF TypeInv, TaskOK, Kinds, Places
  <2>4. TickOK' /\ RowsOK' /\ KeysOK' /\ RunOK' /\ RestOK'
    BY <1>15 DEF Requeue, TypeInv, TickOK, RowsOK, KeysOK, RunOK, RestOK, Up
  <2> QED BY <2>2, <2>3, <2>4 DEF TypeInv
<1>16. ASSUME NEW c \in Consoles, SweepOrphans(c) PROVE TypeInv'
  <2> USE <1>16 DEF SweepOrphans
  <2>1. SweepOK'
    BY DEF TypeInv, SweepOK, SweepRec, NoSweep, Up, RunOK
  <2>2. TickOK' /\ TaskOK' /\ RowsOK' /\ KeysOK' /\ RunOK' /\ RestOK'
    BY <2>1 DEF TypeInv, TickOK, TaskOK, RowsOK, KeysOK, RunOK, RestOK, Up
  <2> QED BY <2>1, <2>2 DEF TypeInv
<1>17. ASSUME NEW c \in Consoles, NEW j \in Jobs, Orphan(c, j) PROVE TypeInv'
  <2> DEFINE t == <<c, j, "queued">>
  <2>1. t \in Tasks /\ t[2] = j /\ Up(c) /\ j \in run.plan
    <3>1. Up(c)
      BY <1>17, Sweeping DEF Orphan, TypeInv
    <3>2. j \in run.plan
      BY <1>17 DEF Orphan, TypeInv, SweepOK, SweepRec
    <3> QED BY <3>1, <3>2 DEF Lines
  <2>2. RunOK' /\ run'.plan = run.plan
    BY <1>17, <2>1, DoneOK, ExtendedOK DEF Orphan, TypeInv, RunOK
  <2>3. SweepOK'
    <3> DEFINE v == [sweep[c] EXCEPT !.jobs = @ \ {j}]
    <3>1. /\ v \in SweepRec /\ v.jobs \subseteq sweep[c].jobs
          /\ v.plan = sweep[c].plan /\ v.inRun = sweep[c].inRun
      BY SweepParts DEF TypeInv, SweepOK
    <3>2. sweep' = [sweep EXCEPT ![c] = v] /\ up' = up /\ rows' = rows
      BY <1>17 DEF Orphan
    <3> HIDE DEF v
    <3> QED BY <2>1, <2>2, <3>1, <3>2, SweepSet DEF TypeInv, SweepOK
  <2>4. TaskOK'
    <3> HIDE DEF t
    <3>1. UNCHANGED task \/ Begin(t, "requeue", TRUE, "claiming")
      BY <1>17 DEF Orphan, t
    <3>2. rows' = rows
      BY <1>17 DEF Orphan
    <3> QED BY <2>1, <2>2, <3>1, <3>2, BeginOK DEF TypeInv, TaskOK, Kinds, Places
  <2>5. TickOK' /\ RowsOK' /\ KeysOK' /\ RestOK'
    BY <1>17, <2>2 DEF Orphan, TypeInv, TickOK, RowsOK, KeysOK, RestOK, Up
  <2> QED BY <2>2, <2>3, <2>4, <2>5 DEF TypeInv
<1>18. ASSUME NEW c \in Consoles, FinishRun(c) PROVE TypeInv'
  BY <1>18 DEF FinishRun, TypeInv, TickOK, TaskOK, SweepOK, SweepRec, RowsOK, KeysOK, RunOK,
       RestOK, Up, Open
<1>19. ASSUME Later PROVE TypeInv'
  BY <1>19 DEF Later, TypeInv, TickOK, TaskOK, SweepOK, SweepRec, RowsOK, KeysOK, RunOK, RestOK,
       Up, Open
<1>20. ASSUME NEW j \in Jobs, SwitchOff(j) PROVE TypeInv'
  BY <1>20 DEF SwitchOff, TypeInv, TickOK, TaskOK, SweepOK, SweepRec, RowsOK, KeysOK, RunOK,
       RestOK, Up, Trouble, Troubles
<1>21. ASSUME NEW c \in Consoles, Stop(c) PROVE TypeInv'
  <2> USE <1>21 DEF Stop
  <2>1. TickOK'
    BY DEF TypeInv, TickOK, Up
  <2>2. TaskOK'
    BY DEF TypeInv, TaskOK, Idle, Places, Kinds
  <2>3. SweepOK'
    BY DEF TypeInv, SweepOK, SweepRec, NoSweep, Up
  <2>4. KeysOK'
    BY DEF TypeInv, KeysOK
  <2>5. RestOK'
    BY DEF TypeInv, RestOK, Trouble, Troubles
  <2>6. RowsOK' /\ RunOK'
    BY <2>1 DEF TypeInv, RowsOK, RunOK, Up
  <2> QED BY <2>1, <2>2, <2>3, <2>4, <2>5, <2>6 DEF TypeInv
<1>22. ASSUME NEW c \in Consoles, Restart(c) PROVE TypeInv'
  BY <1>22 DEF Restart, TypeInv, TickOK, TaskOK, SweepOK, SweepRec, RowsOK, KeysOK, RunOK,
       RestOK, Up
<1>23. ASSUME NEW r \in DOMAIN rows, ExpireRow(r) PROVE TypeInv'
  BY <1>23 DEF ExpireRow, TypeInv, TickOK, TaskOK, SweepOK, SweepRec, RowsOK, KeysOK, RunOK,
       RestOK, Up
<1>24. ASSUME NEW j \in Jobs, ExpireJob(j) PROVE TypeInv'
  BY <1>24 DEF ExpireJob, TypeInv, TickOK, TaskOK, SweepOK, SweepRec, RowsOK, KeysOK, RunOK,
       RestOK, Up
<1>25. ASSUME NEW j \in Jobs, ExpireClaim(j) PROVE TypeInv'
  BY <1>25 DEF ExpireClaim, TypeInv, TickOK, TaskOK, SweepOK, SweepRec, RowsOK, KeysOK, RunOK,
       RestOK, Up, Nobody
<1>26. ASSUME NEW c \in Consoles, Lapse(c) PROVE TypeInv'
  <2> USE <1>26 DEF Lapse
  <2>1. RestOK'
    BY DEF TypeInv, RestOK, Trouble, Troubles
  <2>2. KeysOK'
    BY DEF TypeInv, KeysOK, Nobody
  <2>3. TickOK' /\ TaskOK' /\ SweepOK' /\ RowsOK' /\ RunOK'
    BY <2>1 DEF TypeInv, TickOK, TaskOK, SweepOK, SweepRec, RowsOK, RunOK, Up
  <2> QED BY <2>1, <2>2, <2>3 DEF TypeInv
<1>27. ASSUME BeatStep PROVE TypeInv'
  <2> USE <1>27 DEF BeatStep
  <2>1. RowsOK'
    BY DEF TypeInv, RowsOK, TaskOK, Beat
  <2>2. KeysOK'
    <3>1. /\ lock' = lock
          /\ claim' = claim \/ \E t \in Tasks : claim' = [claim EXCEPT ![t[2]] = Mine(t)]
          /\ jobLease' \subseteq Jobs
      BY DEF Beat, TypeInv, KeysOK
    <3>2. \A t \in Tasks : Mine(t).by \in Kinds /\ Mine(t).of = t
                             /\ Mine(t) \in [by : Kinds \cup {"nobody"}, of : Tasks \cup {<<>>}]
      BY DEF Mine, TypeInv, TaskOK
    <3> QED BY <3>1, <3>2, TaskParts DEF TypeInv, KeysOK
  <2>3. TickOK' /\ TaskOK' /\ SweepOK' /\ RunOK' /\ RestOK'
    BY <2>1 DEF TypeInv, TickOK, TaskOK, SweepOK, SweepRec, RunOK, RestOK, Up
  <2> QED BY <2>1, <2>2, <2>3 DEF TypeInv
<1>28. CASE UNCHANGED vars
  BY <1>28 DEF vars, TypeInv, TickOK, TaskOK, SweepOK, SweepRec, RowsOK, KeysOK, RunOK, RestOK, Up
<1> QED
  BY <1>1, <1>2, <1>3, <1>4, <1>5, <1>6, <1>7, <1>8, <1>9, <1>10, <1>11, <1>12, <1>13, <1>14,
       <1>15, <1>16, <1>17, <1>18, <1>19, <1>20, <1>21, <1>22, <1>23, <1>24, <1>25, <1>26, <1>27,
       <1>28 DEF Next, TickStep, TaskStep, SweepStep, Expire

-------------------------------------------------------------------------------
(* The claim of a job is its task's. *)

\* Whoever works on a job has its claim, unless keys of a live console lapsed.
ClaimInv ==
  troubles.lapse = 0 => \A t \in Tasks : Claimed(t) => claim[t[2]] = Mine(t)

\* The types the two arguments need, with rows of any number.
TaskRec == [at : Places, kind : Kinds, inRun : BOOLEAN, row : Nat]
Claims  == [by : Kinds \cup {"nobody"}, of : Tasks \cup {<<>>}]
FewTypes ==
  /\ task \in [Tasks -> TaskRec]
  /\ claim \in [Jobs -> Claims]
  /\ troubles \in [Troubles -> Nat]

LEMMA FewTypesHold == ASSUME TypeInv PROVE FewTypes /\ Len(rows) \in Nat
<1>1. Len(rows) \in Nat
  BY DEF TypeInv, RowsOK
<1>2. task \in [Tasks -> TaskRec]
  BY <1>1 DEF TypeInv, TaskOK, TaskRec
<1> QED BY <1>1, <1>2 DEF TypeInv, KeysOK, RestOK, FewTypes, Claims

\* Only Lapse counts as a lapse.
LEMMA OtherTrouble ==
  ASSUME TypeInv, NEW k \in Troubles, Trouble(k)
  PROVE  /\ k # "lapse" => troubles'.lapse = troubles.lapse
         /\ k = "lapse" => troubles'.lapse # 0
BY DEF TypeInv, RestOK, Trouble, Troubles

\* A step that begins no work and touches no claim keeps them.
LEMMA Kept ==
  ASSUME ClaimInv, claim' = claim, troubles'.lapse = troubles.lapse,
         \A s \in Tasks : Claimed(s)' => Claimed(s) /\ Mine(s)' = Mine(s)
  PROVE  ClaimInv'
BY DEF ClaimInv

LEMMA StepKeeps ==
  ASSUME FewTypes, NEW t \in Tasks, NEW at \in Places, Claimed(t), Step(t, at)
  PROVE  \A s \in Tasks : Claimed(s)' => Claimed(s) /\ Mine(s)' = Mine(s)
<1>1. \A s \in Tasks : task'[s].kind = task[s].kind
  BY DEF FewTypes, Step, TaskRec
<1>2. \A s \in Tasks : s # t => task'[s].at = task[s].at
  BY DEF FewTypes, Step, TaskRec
<1> QED
  BY <1>1, <1>2 DEF Claimed, Mine

LEMMA Begun ==
  ASSUME FewTypes, NEW t \in Tasks, NEW kind, NEW inRun, Begin(t, kind, inRun, "claiming")
  PROVE  \A s \in Tasks : Claimed(s)' => Claimed(s) /\ Mine(s)' = Mine(s)
BY DEF FewTypes, Begin, Claimed, Mine

\* A free claim is nobody's: taking it disturbs no other task.
LEMMA Taken ==
  ASSUME FewTypes, ClaimInv, troubles'.lapse = troubles.lapse,
         NEW t \in Tasks, NEW kind, NEW inRun,
         Free(t[2]), Claim(t, kind, inRun)
  PROVE  ClaimInv'
<1>1. \A s \in Tasks : s # t => task'[s] = task[s]
  BY DEF Claim, Begin, FewTypes
<1>2. task'[t].kind = kind
  BY DEF Claim, Begin, FewTypes
<1>3. claim'[t[2]] = [by |-> kind, of |-> t] /\ \A j \in Jobs : j # t[2] => claim'[j] = claim[j]
  BY TaskParts DEF Claim, FewTypes
<1>4. claim'[t[2]] = Mine(t)'
  BY <1>2, <1>3 DEF Mine
<1>5. ASSUME NEW s \in Tasks, s # t, Claimed(s)', troubles'.lapse = 0
      PROVE  claim'[s[2]] = Mine(s)'
  <2>1. Claimed(s) /\ Mine(s)' = Mine(s)
    BY <1>1, <1>5 DEF Claimed, Mine
  <2>2. claim[s[2]] = Mine(s)
    BY <2>1, <1>5 DEF ClaimInv
  <2>3. s[2] # t[2]
    <3>1. Mine(s) # Nobody
      BY TaskParts DEF Mine, Nobody
    <3> QED BY <2>2, <3>1 DEF Free
  <2> QED BY <1>3, <2>1, <2>2, <2>3, TaskParts
<1> QED
  BY <1>4, <1>5 DEF ClaimInv

LEMMA ClaimStep ==
  ASSUME TypeInv, ClaimInv, [Next]_vars PROVE ClaimInv'
<1> USE FewTypesHold DEF redis, outside
<1>1. CASE UNCHANGED <<task, claim, troubles>>
  BY <1>1, Kept DEF Claimed, Mine
<1>2. ASSUME NEW c \in Consoles, NEW j \in Jobs, StartNightly(c, j) PROVE ClaimInv'
  <2> DEFINE t == <<c, j, "queued">>
  <2>1. t \in Tasks /\ t[2] = j /\ troubles' = troubles
    BY <1>2, TaskOf DEF StartNightly, Lines
  <2>2. \/ Free(j) /\ Claim(t, "nightly", TRUE)
        \/ Begin(t, "nightly", TRUE, "claiming") /\ UNCHANGED claim
    BY <1>2 DEF StartNightly
  <2> HIDE DEF t
  <2> QED BY <2>1, <2>2, Taken, Begun, Kept
<1>3. ASSUME NEW c \in Consoles, NEW j \in Jobs, StartManual(c, j) \/ StartFirst(c, j)
      PROVE ClaimInv'
  <2>1. troubles'.lapse = troubles.lapse
    BY <1>3, OtherTrouble DEF StartManual, StartFirst, Troubles
  <2>2. PICK t \in Tasks, kind \in Kinds : t[2] = j /\ Free(t[2]) /\ Claim(t, kind, FALSE)
    <3>1. CASE StartManual(c, j)
      BY <3>1, TaskOf DEF StartManual, Lines, Kinds
    <3>2. CASE StartFirst(c, j)
      BY <3>2, TaskOf DEF StartFirst, Lines, Kinds
    <3> QED BY <1>3, <3>1, <3>2
  <2> QED BY <2>1, <2>2, Taken
<1>4. ASSUME NEW t \in Tasks, TakeClaim(t) PROVE ClaimInv'
  BY <1>4, Taken DEF TakeClaim
<1>5. ASSUME NEW t \in Tasks, InsertRow(t) PROVE ClaimInv'
  <2>1. \A s \in Tasks : task'[s].kind = task[s].kind /\ (s # t => task'[s].at = task[s].at)
    BY <1>5 DEF InsertRow, FewTypes, TaskRec
  <2>2. \A s \in Tasks : Claimed(s)' => Claimed(s) /\ Mine(s)' = Mine(s)
    BY <1>5, <2>1 DEF InsertRow, Claimed, Mine
  <2> QED BY <1>5, <2>2, Kept DEF InsertRow
<1>6. ASSUME NEW t \in Tasks, LeaseRow(t) \/ WriteOutcome(t) \/ Report(t) PROVE ClaimInv'
  <2>1. /\ Claimed(t) /\ UNCHANGED <<claim, troubles>>
        /\ Step(t, "leased") \/ Step(t, "written") \/ Step(t, "ending")
    BY <1>6 DEF LeaseRow, WriteOutcome, Report, Claimed
  <2> QED BY <2>1, StepKeeps, Kept DEF Places
<1>7. ASSUME NEW t \in Tasks, End(t) PROVE ClaimInv'
  <2>1. \A s \in Tasks : s # t => task'[s] = task[s]
    BY <1>7 DEF End, FewTypes
  <2>2. ~Claimed(t)'
    BY <1>7 DEF End, FewTypes, Claimed, Idle
  <2>3. ASSUME NEW s \in Tasks, Claimed(s)', troubles'.lapse = 0 PROVE claim'[s[2]] = Mine(s)'
    <3>1. s # t /\ Claimed(s) /\ Mine(s)' = Mine(s) /\ claim[s[2]] = Mine(s)
      BY <1>7, <2>1, <2>2, <2>3 DEF End, Claimed, Mine, ClaimInv
    <3>2. Mine(s) # Mine(t)
      BY <3>1 DEF Mine
    <3> QED BY <1>7, <3>1, <3>2, TaskParts DEF End, FewTypes
  <2> QED BY <2>3 DEF ClaimInv
<1>8. ASSUME NEW c \in Consoles, NEW j \in Jobs, Requeue(c, j) \/ Orphan(c, j) PROVE ClaimInv'
  <2> DEFINE t == <<c, j, "queued">>
  <2>1. /\ t \in Tasks /\ UNCHANGED <<claim, troubles>>
        /\ UNCHANGED task \/ \E inRun : Begin(t, "requeue", inRun, "claiming")
    BY <1>8, TaskOf DEF Requeue, Orphan, Lines
  <2> HIDE DEF t
  <2>2. \A s \in Tasks : Claimed(s)' => Claimed(s) /\ Mine(s)' = Mine(s)
    <3>1. CASE UNCHANGED task
      BY <3>1 DEF Claimed, Mine
    <3> QED BY <2>1, <3>1, Begun
  <2> QED BY <2>1, <2>2, Kept
<1>9. ASSUME NEW j \in Jobs, SwitchOff(j) PROVE ClaimInv'
  BY <1>9, OtherTrouble, Kept DEF SwitchOff, Troubles, Claimed, Mine
<1>10. ASSUME NEW c \in Consoles, Stop(c) PROVE ClaimInv'
  <2>1. \A s \in Tasks : task'[s] = IF s[1] = c THEN Idle ELSE task[s]
    BY <1>10 DEF Stop
  <2>2. troubles'.lapse = troubles.lapse
    BY <1>10, OtherTrouble DEF Stop, Troubles
  <2>3. ASSUME NEW s \in Tasks, Claimed(s)', troubles'.lapse = 0 PROVE claim'[s[2]] = Mine(s)'
    <3>1. s[1] # c /\ Claimed(s) /\ Mine(s)' = Mine(s)
      BY <2>1, <2>3 DEF Claimed, Idle, Mine
    <3>2. claim[s[2]] = Mine(s) /\ claim[s[2]].of = s
      BY <2>2, <2>3, <3>1 DEF ClaimInv, Mine
    <3> QED BY <1>10, <3>1, <3>2, TaskParts DEF Stop
  <2> QED BY <2>3 DEF ClaimInv
<1>11. ASSUME NEW j \in Jobs, ExpireClaim(j) PROVE ClaimInv'
  <2>1. ASSUME NEW s \in Tasks, Claimed(s)', troubles'.lapse = 0 PROVE claim'[s[2]] = Mine(s)'
    <3>1. Claimed(s) /\ Mine(s)' = Mine(s) /\ claim[s[2]] = Mine(s)
      BY <1>11, <2>1 DEF ExpireClaim, Claimed, Mine, ClaimInv
    <3>2. s[2] # j
      BY <1>11, <3>1, TaskParts DEF ExpireClaim, Mine
    <3> QED BY <1>11, <3>1, <3>2, TaskParts DEF ExpireClaim, FewTypes
  <2> QED BY <2>1 DEF ClaimInv
<1>12. ASSUME NEW c \in Consoles, Lapse(c) PROVE ClaimInv'
  BY <1>12, OtherTrouble DEF Lapse, Troubles, ClaimInv
<1>13. ASSUME BeatStep PROVE ClaimInv'
  <2>1. UNCHANGED <<task, troubles>>
    BY <1>13 DEF BeatStep
  <2>2. CASE claim' = claim
    BY <1>1, <2>1, <2>2
  <2>3. CASE claim' # claim
    <3>1. PICK t \in Tasks : Claimed(t) /\ Free(t[2])
      BY <1>13, <2>3 DEF BeatStep, Beat
    <3>2. Mine(t) # Nobody
      BY TaskParts DEF Mine, Nobody
    <3>3. troubles'.lapse # 0
      BY <2>1, <3>1, <3>2 DEF ClaimInv, Free
    <3> QED BY <3>3 DEF ClaimInv
  <2> QED BY <2>2, <2>3
<1>14. ASSUME NEW c \in Consoles, TickStep(c) PROVE ClaimInv'
  BY <1>1, <1>2, <1>14 DEF TickStep, OpenRun, SkipInRun
<1>15. ASSUME NEW c \in Consoles, SweepStep(c) PROVE ClaimInv'
  BY <1>1, <1>8, <1>15 DEF SweepStep, SweepStart, SweepOrphans, Reap, PlanRequeue
<1>16. ASSUME NEW t \in Tasks, TaskStep(t) PROVE ClaimInv'
  BY <1>4, <1>5, <1>6, <1>7, <1>16 DEF TaskStep
<1>17. ASSUME Expire PROVE ClaimInv'
  BY <1>1, <1>11, <1>17 DEF Expire, ExpireRow, ExpireJob
<1>18. ASSUME NEW c \in Consoles, FinishRun(c) \/ Restart(c) \/ Later PROVE ClaimInv'
  BY <1>1, <1>18 DEF FinishRun, Restart, Later
<1>19. CASE Later
  BY <1>1, <1>19 DEF Later
<1>20. CASE UNCHANGED vars
  BY <1>1, <1>20 DEF vars
<1> QED
  BY <1>3, <1>9, <1>10, <1>12, <1>13, <1>14, <1>15, <1>16, <1>17, <1>18, <1>19, <1>20 DEF Next

-------------------------------------------------------------------------------
(* A row runs while its task works on it. *)

Works(t) == task[t].at \in {"row", "leased"}

\* A row is the work of one task.  Unless keys of a live console lapsed, it runs, it is
\* leased once its task says so, and until then no sweep has listed it.
RowInv ==
  /\ \A s, t \in Tasks : Works(s) /\ Works(t) /\ task[s].row = task[t].row => s = t
  /\ troubles.lapse = 0 => \A t \in Tasks :
       /\ Works(t) => IsRunning(task[t].row)
       /\ task[t].at = "leased" => task[t].row \in rowLease
       /\ task[t].at = "row" => \A c \in Consoles : task[t].row \notin sweep[c].rows

LEMMA WorkRow ==
  ASSUME TypeInv, NEW t \in Tasks, Works(t)
  PROVE  task[t].row \in DOMAIN rows /\ task[t].row \in 1 .. Len(rows)
BY DEF TypeInv, TaskOK, RowsOK, Works

\* A step that begins no work, fails no row of a task and ends no lease of one keeps it.
LEMMA RowsKept ==
  ASSUME RowInv, troubles'.lapse = 0 => troubles.lapse = 0,
         \A s \in Tasks : Works(s)' =>
           /\ task'[s].at = task[s].at /\ task'[s].row = task[s].row
           /\ troubles'.lapse = 0 /\ IsRunning(task[s].row) => IsRunning(task[s].row)'
           /\ task[s].at = "leased" /\ task[s].row \in rowLease => task[s].row \in rowLease',
         \A c \in Consoles : sweep'[c].rows \subseteq sweep[c].rows
  PROVE  RowInv'
<1>1. \A s \in Tasks : Works(s)' => Works(s) /\ task'[s].row = task[s].row
  BY DEF Works
<1>2. \A s, t \in Tasks : Works(s)' /\ Works(t)' /\ task'[s].row = task'[t].row => s = t
  BY <1>1 DEF RowInv
<1>3. ASSUME NEW t \in Tasks, troubles'.lapse = 0
      PROVE  /\ Works(t)' => IsRunning(task[t].row)' /\ task'[t].row = task[t].row
             /\ task'[t].at = "leased" => task'[t].row \in rowLease'
             /\ task'[t].at = "row" => \A c \in Consoles : task'[t].row \notin sweep'[c].rows
  BY <1>1, <1>3 DEF RowInv, Works
<1>4. ASSUME NEW t \in Tasks, troubles'.lapse = 0, Works(t)' PROVE IsRunning(task[t].row)'
  BY <1>3, <1>4
<1> QED
  BY <1>2, <1>3, <1>4 DEF RowInv, IsRunning

LEMMA BegunWorks ==
  ASSUME FewTypes, NEW t \in Tasks, NEW kind, NEW inRun, NEW at \in Places \ {"row", "leased"},
         Begin(t, kind, inRun, at)
  PROVE  \A s \in Tasks : Works(s)' => task'[s] = task[s]
BY DEF FewTypes, Begin, Works

LEMMA Unworked ==
  ASSUME RowInv, troubles'.lapse = 0 => troubles.lapse = 0, UNCHANGED <<rows, rowLease>>,
         \A s \in Tasks : Works(s)' => task'[s] = task[s],
         \A c \in Consoles : sweep'[c].rows \subseteq sweep[c].rows
  PROVE  RowInv'
BY RowsKept DEF IsRunning

LEMMA RowStep ==
  ASSUME TypeInv, RowInv, [Next]_vars PROVE RowInv'
<1> USE FewTypesHold DEF redis, outside
<1>1. CASE UNCHANGED <<task, rows, rowLease, sweep, troubles>>
  BY <1>1, Unworked
<1>2. ASSUME NEW c \in Consoles, NEW j \in Jobs, StartNightly(c, j) PROVE RowInv'
  <2> DEFINE t == <<c, j, "queued">>
  <2>1. /\ t \in Tasks /\ UNCHANGED <<troubles, rows, rowLease, sweep>>
        /\ \E at \in Places \ {"row", "leased"} : Begin(t, "nightly", TRUE, at)
    BY <1>2, TaskOf DEF StartNightly, Lines, Claim, Places
  <2> HIDE DEF t
  <2> QED BY <2>1, BegunWorks, Unworked
<1>3. ASSUME NEW c \in Consoles, NEW j \in Jobs, StartManual(c, j) \/ StartFirst(c, j)
      PROVE RowInv'
  <2>1. troubles'.lapse = troubles.lapse /\ UNCHANGED <<rows, rowLease, sweep>>
    BY <1>3, OtherTrouble DEF StartManual, StartFirst, Troubles
  <2>2. PICK t \in Tasks, kind \in Kinds, at \in Places \ {"row", "leased"} : Begin(t, kind, FALSE, at)
    <3>1. CASE StartManual(c, j)
      BY <3>1, TaskOf DEF StartManual, Lines, Kinds, Claim, Places
    <3>2. CASE StartFirst(c, j)
      BY <3>2, TaskOf DEF StartFirst, Lines, Kinds, Claim, Places
    <3> QED BY <1>3, <3>1, <3>2
  <2> QED BY <2>1, <2>2, BegunWorks, Unworked
<1>4. ASSUME NEW t \in Tasks, TakeClaim(t) PROVE RowInv'
  <2>1. \E at \in Places \ {"row", "leased"} : Begin(t, task[t].kind, task[t].inRun, at)
    BY <1>4 DEF TakeClaim, Claim, Places
  <2> QED BY <1>4, <2>1, BegunWorks, Unworked DEF TakeClaim
<1>5. ASSUME NEW t \in Tasks, InsertRow(t) PROVE RowInv'
  <2>1. /\ rows' = Append(rows, [job |-> t[2], trigger |-> task[t].kind,
                                 status |-> "running", note |-> "none"])
        /\ UNCHANGED <<rowLease, sweep, troubles>>
    BY <1>5 DEF InsertRow
  <2>2. /\ task'[t].at = "row" /\ task'[t].row = Len(rows) + 1
        /\ \A s \in Tasks : s # t => task'[s] = task[s]
    BY <1>5 DEF InsertRow, FewTypes, TaskRec
  <2>3. rows'[Len(rows) + 1].status = "running" /\ \A r \in DOMAIN rows : rows'[r] = rows[r]
    BY <2>1 DEF TypeInv, RowsOK
  <2>4. \A s \in Tasks : s # t /\ Works(s)' => Works(s) /\ task[s].row \in 1 .. Len(rows)
                                               /\ rows'[task[s].row] = rows[task[s].row]
    BY <2>2, <2>3, WorkRow DEF Works
  <2>5. \A c \in Consoles : Len(rows) + 1 \notin sweep'[c].rows
    BY <2>1 DEF TypeInv, SweepOK, SweepRec, RowsOK
  <2>6. \A s, u \in Tasks : Works(s)' /\ Works(u)' /\ task'[s].row = task'[u].row => s = u
    BY <2>2, <2>4 DEF RowInv
  <2>7. ASSUME NEW s \in Tasks, troubles'.lapse = 0
        PROVE  /\ Works(s)' => rows'[task'[s].row].status = "running"
               /\ task'[s].at = "leased" => task'[s].row \in rowLease'
               /\ task'[s].at = "row" => \A c \in Consoles : task'[s].row \notin sweep'[c].rows
    <3>1. CASE s = t
      BY <2>2, <2>3, <2>5, <3>1
    <3>2. CASE s # t
      BY <2>1, <2>2, <2>4, <2>7, <3>2 DEF RowInv, IsRunning, Works
    <3> QED BY <3>1, <3>2
  <2> QED BY <2>6, <2>7 DEF RowInv, IsRunning
<1>6. ASSUME NEW t \in Tasks, LeaseRow(t) PROVE RowInv'
  <2>1. /\ task[t].at = "row" /\ rowLease' = rowLease \cup {task[t].row}
        /\ UNCHANGED <<sweep, rows, troubles>>
    BY <1>6 DEF LeaseRow
  <2>2. /\ task'[t].at = "leased" /\ task'[t].row = task[t].row
        /\ \A s \in Tasks : s # t => task'[s] = task[s]
    BY <1>6 DEF LeaseRow, Step, FewTypes, TaskRec
  <2>3. \A s \in Tasks : Works(s)' => Works(s) /\ task'[s].row = task[s].row
    BY <2>1, <2>2 DEF Works
  <2>4. \A s, u \in Tasks : Works(s)' /\ Works(u)' /\ task'[s].row = task'[u].row => s = u
    BY <2>3 DEF RowInv
  <2>5. ASSUME NEW s \in Tasks, troubles'.lapse = 0
        PROVE  /\ Works(s)' => rows'[task'[s].row].status = "running"
               /\ task'[s].at = "leased" => task'[s].row \in rowLease'
               /\ task'[s].at = "row" => \A c \in Consoles : task'[s].row \notin sweep'[c].rows
    BY <2>1, <2>2, <2>3, <2>5 DEF RowInv, IsRunning
  <2> QED BY <2>4, <2>5 DEF RowInv, IsRunning
<1>7. ASSUME NEW t \in Tasks, WriteOutcome(t) PROVE RowInv'
  <2>1. task[t].at = "leased" /\ rowLease' = rowLease \ {task[t].row} /\ UNCHANGED <<sweep, troubles>>
    BY <1>7 DEF WriteOutcome
  <2>2. /\ task'[t].at = "written" /\ \A s \in Tasks : s # t => task'[s] = task[s]
    BY <1>7 DEF WriteOutcome, Step, FewTypes, TaskRec
  <2>3. \A r \in DOMAIN rows : r # task[t].row => rows'[r] = rows[r]
    BY <1>7 DEF WriteOutcome
  <2>4. ASSUME NEW s \in Tasks, Works(s)'
        PROVE  /\ task'[s] = task[s] /\ task[s].row # task[t].row
               /\ rows'[task[s].row] = rows[task[s].row]
    <3>1. s # t /\ task'[s] = task[s] /\ Works(s) /\ Works(t)
      BY <2>1, <2>2, <2>4 DEF Works
    <3>2. task[s].row # task[t].row /\ task[s].row \in DOMAIN rows
      BY <3>1, WorkRow DEF RowInv
    <3> QED BY <2>3, <3>1, <3>2
  <2> QED BY <2>1, <2>4, RowsKept DEF IsRunning
<1>8. ASSUME NEW t \in Tasks, Report(t) PROVE RowInv'
  <2>1. \A s \in Tasks : Works(s)' => task'[s] = task[s]
    BY <1>8 DEF Report, Step, FewTypes, TaskRec, Works
  <2> QED BY <1>8, <2>1, Unworked DEF Report
<1>9. ASSUME NEW t \in Tasks, End(t) PROVE RowInv'
  <2>1. \A s \in Tasks : Works(s)' => task'[s] = task[s]
    BY <1>9 DEF End, FewTypes, Works, Idle
  <2> QED BY <1>9, <2>1, Unworked DEF End
<1>10. ASSUME NEW c \in Consoles, SweepStart(c) PROVE RowInv'
  <2>1. UNCHANGED <<task, rows, rowLease, troubles>>
    BY <1>10 DEF SweepStart
  <2>2. \A d \in Consoles : \A r \in sweep'[d].rows : r \in sweep[d].rows \/ Old(r)
    BY <1>10 DEF SweepStart, TypeInv, SweepOK, SweepRec
  <2>3. ASSUME NEW s \in Tasks, troubles.lapse = 0, task[s].at = "row", NEW d \in Consoles
        PROVE  task[s].row \notin sweep'[d].rows
    BY <2>2, <2>3 DEF RowInv, Old
  <2> QED BY <2>1, <2>3 DEF RowInv, Works, IsRunning
<1>11. ASSUME NEW c \in Consoles, NEW r \in DOMAIN rows, Reap(c, r) PROVE RowInv'
  <2>1. /\ r \in sweep[c].rows /\ UNCHANGED <<task, rowLease, troubles>>
        /\ rows' = rows \/ (r \notin rowLease /\ \A q \in DOMAIN rows : q # r => rows'[q] = rows[q])
    BY <1>11 DEF Reap, MayReap
  <2>2. \A d \in Consoles : sweep'[d].rows \subseteq sweep[d].rows
    BY <1>11 DEF Reap, TypeInv, SweepOK, SweepRec
  <2>3. ASSUME NEW s \in Tasks, Works(s), troubles.lapse = 0, IsRunning(task[s].row)
        PROVE  IsRunning(task[s].row)'
    <3>1. task[s].row # r \/ r \in rowLease
      BY <2>1, <2>3 DEF RowInv, Works
    <3>2. task[s].row \in DOMAIN rows
      BY <2>3, WorkRow
    <3> QED BY <2>1, <2>3, <3>1, <3>2 DEF IsRunning
  <2> QED BY <2>1, <2>2, <2>3, RowsKept DEF Works
<1>12. ASSUME NEW c \in Consoles, NEW j \in Jobs, PlanRequeue(c, j) PROVE RowInv'
  <2>1. UNCHANGED <<task, rowLease, troubles>>
    BY <1>12 DEF PlanRequeue
  <2>2. \A q \in DOMAIN rows : rows'[q].status = rows[q].status
    <3>1. ASSUME NEW q \in DOMAIN rows PROVE [rows[q] EXCEPT !.note = "requeued"].status = rows[q].status
      BY RowAt DEF TypeInv, RowRec
    <3> QED BY <1>12, <3>1 DEF PlanRequeue
  <2>3. \A d \in Consoles : sweep'[d].rows \subseteq sweep[d].rows
    BY <1>12 DEF PlanRequeue, TypeInv, SweepOK, SweepRec
  <2>4. \A s \in Tasks : Works(s) => task[s].row \in DOMAIN rows
    BY WorkRow
  <2> QED BY <2>1, <2>2, <2>3, <2>4, RowsKept DEF Works, IsRunning
<1>13. ASSUME NEW c \in Consoles, NEW j \in Jobs, Requeue(c, j) \/ Orphan(c, j) PROVE RowInv'
  <2> DEFINE t == <<c, j, "queued">>
  <2>1. /\ t \in Tasks /\ UNCHANGED <<rows, rowLease, troubles>>
        /\ UNCHANGED task \/ \E inRun : Begin(t, "requeue", inRun, "claiming")
    BY <1>13, TaskOf DEF Requeue, Orphan, Lines
  <2>2. \A d \in Consoles : sweep'[d].rows \subseteq sweep[d].rows
    <3>1. CASE Requeue(c, j)
      <4> DEFINE s1 == [sweep EXCEPT ![c].plan = {}]
      <4>1. \A d \in Consoles : s1[d].rows = sweep[d].rows /\ DOMAIN s1[d] = DOMAIN sweep[d]
        BY DEF TypeInv, SweepOK, SweepRec
      <4>2. DOMAIN s1 = Consoles /\ "rows" \in DOMAIN sweep[c]
        BY DEF TypeInv, SweepOK, SweepRec
      <4>3. sweep' = [s1 EXCEPT ![c].inRun = FALSE]
        BY <3>1 DEF Requeue
      <4> HIDE DEF s1
      <4>4. \A d \in Consoles : sweep'[d].rows = s1[d].rows
        BY <4>1, <4>2, <4>3
      <4> QED BY <4>1, <4>4
    <3>2. CASE Orphan(c, j)
      BY <3>2 DEF Orphan, TypeInv, SweepOK, SweepRec
    <3> QED BY <1>13, <3>1, <3>2
  <2> HIDE DEF t
  <2>3. \A s \in Tasks : Works(s)' => task'[s] = task[s]
    BY <2>1, BegunWorks DEF Places
  <2> QED BY <2>1, <2>2, <2>3, Unworked
<1>14. ASSUME NEW c \in Consoles, SweepOrphans(c) PROVE RowInv'
  <2>1. \A d \in Consoles : sweep'[d].rows \subseteq sweep[d].rows
    BY <1>14 DEF SweepOrphans, TypeInv, SweepOK, SweepRec
  <2> QED BY <1>14, <2>1, Unworked DEF SweepOrphans
<1>15. ASSUME NEW j \in Jobs, SwitchOff(j) PROVE RowInv'
  BY <1>15, OtherTrouble, Unworked DEF SwitchOff, Troubles
<1>16. ASSUME NEW c \in Consoles, Stop(c) PROVE RowInv'
  <2>1. \A s \in Tasks : Works(s)' => task'[s] = task[s]
    BY <1>16 DEF Stop, Works, Idle
  <2>2. \A d \in Consoles : sweep'[d].rows \subseteq sweep[d].rows
    BY <1>16 DEF Stop, TypeInv, SweepOK, SweepRec, NoSweep
  <2> QED BY <1>16, <2>1, <2>2, OtherTrouble, Unworked DEF Stop, Troubles
<1>17. ASSUME NEW c \in Consoles, Lapse(c) PROVE RowInv'
  <2>1. troubles'.lapse # 0 /\ task' = task
    BY <1>17, OtherTrouble DEF Lapse, Troubles
  <2> QED BY <2>1 DEF RowInv, Works
<1>18. ASSUME NEW r \in DOMAIN rows, ExpireRow(r) PROVE RowInv'
  BY <1>18, RowsKept DEF ExpireRow, HoldsRow, IsRunning
<1>19. ASSUME BeatStep PROVE RowInv'
  <2>1. UNCHANGED <<task, sweep, rows, troubles>> /\ rowLease \subseteq rowLease'
    BY <1>19 DEF BeatStep, Beat
  <2> QED BY <2>1, RowsKept DEF IsRunning
<1>20. ASSUME NEW c \in Consoles, TickStep(c) PROVE RowInv'
  BY <1>1, <1>2, <1>20 DEF TickStep, OpenRun, SkipInRun
<1>21. ASSUME NEW c \in Consoles, SweepStep(c) PROVE RowInv'
  BY <1>10, <1>11, <1>12, <1>13, <1>14, <1>21 DEF SweepStep
<1>22. ASSUME NEW t \in Tasks, TaskStep(t) PROVE RowInv'
  BY <1>4, <1>5, <1>6, <1>7, <1>8, <1>9, <1>22 DEF TaskStep
<1>23. ASSUME Expire PROVE RowInv'
  BY <1>1, <1>18, <1>23 DEF Expire, ExpireClaim, ExpireJob
<1>24. ASSUME NEW c \in Consoles, FinishRun(c) \/ Restart(c) PROVE RowInv'
  BY <1>1, <1>24 DEF FinishRun, Restart
<1>25. CASE Later \/ UNCHANGED vars
  BY <1>1, <1>25 DEF Later, vars
<1> QED
  BY <1>3, <1>15, <1>16, <1>17, <1>19, <1>20, <1>21, <1>22, <1>23, <1>24, <1>25 DEF Next

\* Only a backup's own outcome is written over another status, and only after a lapse.
LEMMA TheOutcome ==
  ASSUME TypeInv, RowInv, [Next]_vars, NEW r \in DOMAIN rows, rows[r].status # "running"
  PROVE  \/ rows'[r].status = rows[r].status
         \/ troubles.lapse > 0 /\ rows'[r].status = "finished"
<1> USE FewTypesHold DEF redis, outside
<1>1. CASE UNCHANGED rows
  BY <1>1
<1>2. ASSUME NEW t \in Tasks, InsertRow(t) PROVE rows'[r].status = rows[r].status
  BY <1>2 DEF InsertRow, TypeInv, RowsOK
<1>3. ASSUME NEW t \in Tasks, WriteOutcome(t)
      PROVE  \/ rows'[r].status = rows[r].status
             \/ troubles.lapse > 0 /\ rows'[r].status = "finished"
  <2>1. CASE r # task[t].row
    BY <1>3, <2>1 DEF WriteOutcome
  <2>2. CASE r = task[t].row
    <3>1. rows'[r].status = "finished"
      BY <1>3, <2>2, RowAt DEF WriteOutcome, TypeInv, RowRec
    <3>2. troubles.lapse # 0
      BY <1>3, <2>2 DEF WriteOutcome, RowInv, Works, IsRunning
    <3>3. troubles.lapse \in Nat
      BY DEF TypeInv, RestOK, Troubles
    <3> QED BY <3>1, <3>2, <3>3
  <2> QED BY <2>1, <2>2
<1>4. ASSUME NEW c \in Consoles, NEW q \in DOMAIN rows, Reap(c, q) PROVE rows'[r].status = rows[r].status
  BY <1>4 DEF Reap, MayReap, IsRunning
<1>5. ASSUME NEW c \in Consoles, NEW j \in Jobs, PlanRequeue(c, j) PROVE rows'[r].status = rows[r].status
  <2>1. [rows[r] EXCEPT !.note = "requeued"].status = rows[r].status
    BY RowAt DEF TypeInv, RowRec
  <2> QED BY <1>5, <2>1 DEF PlanRequeue
<1>6. ASSUME NEW c \in Consoles, SweepStep(c) PROVE rows'[r].status = rows[r].status
  BY <1>1, <1>4, <1>5, <1>6 DEF SweepStep, SweepStart, SweepOrphans, Requeue, Orphan
<1>7. ASSUME NEW c \in Consoles, TickStep(c) PROVE UNCHANGED rows
  BY <1>7 DEF TickStep, OpenRun, SkipInRun, StartNightly
<1>8. ASSUME NEW t \in Tasks, TaskStep(t)
      PROVE  \/ rows'[r].status = rows[r].status
             \/ troubles.lapse > 0 /\ rows'[r].status = "finished"
  BY <1>2, <1>3, <1>8 DEF TaskStep, TakeClaim, LeaseRow, Report, End
<1>9. CASE Later \/ Expire \/ BeatStep \/ UNCHANGED vars
  BY <1>1, <1>9 DEF Later, Expire, ExpireRow, ExpireJob, ExpireClaim, BeatStep, vars
<1>10. ASSUME NEW c \in Consoles, NEW j \in Jobs, StartManual(c, j) \/ StartFirst(c, j) \/ SwitchOff(j)
       PROVE UNCHANGED rows
  BY <1>10 DEF StartManual, StartFirst, SwitchOff
<1>11. ASSUME NEW c \in Consoles, FinishRun(c) \/ Stop(c) \/ Restart(c) \/ Lapse(c) PROVE UNCHANGED rows
  BY <1>11 DEF FinishRun, Stop, Restart, Lapse
<1>12. ASSUME NEW j \in Jobs, SwitchOff(j) PROVE UNCHANGED rows
  BY <1>12 DEF SwitchOff
<1> QED
  BY <1>1, <1>6, <1>7, <1>8, <1>9, <1>10, <1>11, <1>12 DEF Next

-------------------------------------------------------------------------------
(* One rerun of a job.  Named, and of a job while its run is open: the tasks and
   rows of its nightly run and of its rerun, and whose turn it is. *)

\* Tasks and rows of job j: those of its nightly run, alive while it may yet work or report,
\* early while no row of it has ended; and those of its rerun.
Night(t)     == task[t].at # "none" /\ task[t].kind = "nightly"
AgainTask(t) == task[t].at # "none" /\ task[t].kind = "requeue"
Pending(t)   == task[t].at \in {"claiming", "slot"} /\ task[t].kind = "requeue"
NightRows(j) == {r \in RowsOf(j) : rows[r].trigger = "nightly"}
Again(j)     == {r \in RowsOf(j) : rows[r].trigger = "requeue"}
TasksOf(j)   == {t \in Tasks : t[2] = j}
OnTick(j)    == \E c \in Consoles : j \in tick[c]
Alive(j)     == OnTick(j) \/ \E t \in TasksOf(j) : Night(t)
RunsFirst(j) == \E r \in NightRows(j) : IsRunning(r)
Early(j)     == \/ OnTick(j) \/ RunsFirst(j)
                \/ \E t \in TasksOf(j) : Night(t) /\ task[t].at \in {"claiming", "slot"}

\* Before the run, nothing of it is about.
Unopened ==
  /\ \A t \in Tasks : ~Night(t) /\ ~AgainTask(t)
  /\ \A r \in DOMAIN rows : rows[r].trigger \notin {"nightly", "requeue"}
  /\ lock = {} /\ run.done = {}
  /\ \A c \in Consoles : tick[c] = {} /\ sweep[c].plan = {} /\ sweep[c].jobs = {}

\* The nightly run of a job: on one console's list, then one task's, then one row's, which
\* is the task's while it has not reported.
OneNight(j) ==
  /\ \A c, d \in Consoles : j \in tick[c] /\ j \in tick[d] => c = d
  /\ OnTick(j) => NightRows(j) = {} /\ \A t \in TasksOf(j) : ~Night(t)
  /\ \A s, t \in TasksOf(j) : Night(s) /\ Night(t) => s = t
  /\ \A r, q \in NightRows(j) : r = q
  /\ NightRows(j) # {} => j \in run.plan
  /\ \A r \in NightRows(j) : r > run.since
  /\ \A t \in TasksOf(j) : Night(t) =>
       /\ task[t].inRun /\ t[3] = "queued"
       /\ task[t].at \in {"claiming", "slot"} => NightRows(j) = {}
       /\ task[t].at \in {"written", "ending"} =>
            \A r \in NightRows(j) : rows[r].status = "finished"

\* While it is alive, its lease is held; while it is alive or its row runs, no rerun is about
\* or planned; while it is early, the job is not reported done.
NightAlone(j) ==
  /\ Alive(j) => j \in jobLease
  /\ Alive(j) \/ RunsFirst(j) =>
       /\ j \notin lock /\ Again(j) = {}
       /\ \A t \in TasksOf(j) : ~AgainTask(t)
       /\ \A c \in Consoles : j \notin sweep[c].plan
  /\ Early(j) => j \notin run.done

\* The rerun: one task that has no row yet, or one row, and the lock is taken.
OneAgain(j) ==
  /\ \A r, q \in Again(j) : r = q
  /\ \A s, t \in TasksOf(j) : Pending(s) /\ Pending(t) => s = t
  /\ \A t \in TasksOf(j) : Pending(t) => Again(j) = {} /\ j \in lock
  /\ Again(j) # {} => j \in lock
  /\ \A r \in NightRows(j), q \in Again(j) : r < q

\* What a sweep plans is cut off and noted, one console's; it is planned outside the run only
\* if the lock was taken and the rerun came to no row.  A job that is reported done although
\* its row says it was cut off had its lock taken, unless it is switched off.
Plans(j) ==
  /\ \A c, d \in Consoles : j \in sweep[c].plan /\ j \in sweep[d].plan => c = d
  /\ \A c \in Consoles : j \in sweep[c].plan =>
       /\ NightRows(j) # {} /\ \A r \in NightRows(j) : rows[r].note = "requeued"
       /\ ~sweep[c].inRun => /\ j \in lock /\ Again(j) = {}
                             /\ \A t \in TasksOf(j) : ~Pending(t)
  /\ j \in run.done \ off /\ (\E r \in NightRows(j) : rows[r].note = "cut") =>
       j \in lock /\ \A t \in TasksOf(j) : ~Pending(t)

JobInv(j) == OneNight(j) /\ NightAlone(j) /\ OneAgain(j) /\ Plans(j)

OnceInv ==
  /\ run.state = "none" => Unopened
  /\ troubles.lapse = 0 /\ Open => \A j \in Jobs : JobInv(j)

\* A task's row is its own job's, and only a nightly run or a rerun reports to the run.
Named == \A t \in Tasks :
  /\ task[t].at \in {"row", "leased", "written"} =>
       /\ task[t].row \in DOMAIN rows
       /\ rows[task[t].row].job = t[2] /\ rows[task[t].row].trigger = task[t].kind
  /\ task[t].inRun => Night(t) \/ AgainTask(t)

\* A step that starts nothing for job j.
Frame(j) ==
  /\ \A t \in TasksOf(j) :
       /\ Night(t)' =>
            /\ Night(t) /\ task'[t].inRun = task[t].inRun
            /\ task'[t].at \in {"claiming", "slot"} => task[t].at \in {"claiming", "slot"}
            /\ task'[t].at \in {"written", "ending"} =>
                 \/ task[t].at \in {"written", "ending"}
                 \/ \A r \in NightRows(j) : rows'[r].status = "finished"
       /\ AgainTask(t)' => AgainTask(t)
       /\ Pending(t)' => Pending(t)
  /\ \A c \in Consoles : j \in tick'[c] => j \in tick[c]
  /\ NightRows(j)' = NightRows(j) /\ Again(j)' = Again(j)
  /\ \A r \in NightRows(j) :
       /\ rows[r].status = "finished" => rows'[r].status = "finished"
       /\ rows'[r].status = "running" => rows[r].status = "running"
       /\ rows[r].note = "requeued" => rows'[r].note = "requeued"
  /\ run'.plan = run.plan /\ run'.since = run.since
  /\ j \in lock' <=> j \in lock
  /\ \A c \in Consoles :
       j \in sweep'[c].plan => j \in sweep[c].plan /\ sweep'[c].inRun = sweep[c].inRun
  /\ Alive(j)' => j \in jobLease'

\* What a job that is reported done must be.
Settled(j) ==
  j \in run.done =>
    /\ ~Early(j)
    /\ j \notin off /\ (\E r \in NightRows(j) : rows[r].note = "cut") =>
         j \in lock /\ \A t \in TasksOf(j) : ~Pending(t)

LEMMA FrameOf ==
  ASSUME NEW j \in Jobs, JobInv(j), Frame(j)
  PROVE  /\ TasksOf(j)' = TasksOf(j)
         /\ OnTick(j)' => OnTick(j)
         /\ Alive(j)' => Alive(j)
         /\ RunsFirst(j)' => RunsFirst(j)
         /\ Early(j)' => Early(j)
<1>1. TasksOf(j)' = TasksOf(j)
  BY DEF TasksOf
<1> QED BY <1>1 DEF Frame, OnTick, Alive, RunsFirst, Early, IsRunning

LEMMA FrameKeeps ==
  ASSUME NEW j \in Jobs, JobInv(j), Frame(j), Settled(j)'
  PROVE  JobInv(j)'
<1> USE FrameOf
<1>1. OneNight(j)'
  BY DEF JobInv, OneNight, Frame
<1>2. NightAlone(j)'
  BY DEF JobInv, NightAlone, Frame, Settled
<1>3. OneAgain(j)'
  BY DEF JobInv, OneAgain, Frame
<1>4. Plans(j)'
  BY DEF JobInv, Plans, Frame, Settled
<1> QED BY <1>1, <1>2, <1>3, <1>4 DEF JobInv

LEMMA FrameSettled ==
  ASSUME NEW j \in Jobs, JobInv(j), Frame(j), j \in run'.done => j \in run.done,
         \A r \in NightRows(j) : rows'[r].note = "cut" => rows[r].note = "cut" \/ j \notin run.done,
         j \in off => j \in off'
  PROVE  JobInv(j)'
<1>1. Settled(j)'
  BY FrameOf DEF JobInv, NightAlone, Plans, Frame, Settled
<1> QED BY <1>1, FrameKeeps

LEMMA SameRows ==
  ASSUME NEW j \in Jobs, DOMAIN rows' = DOMAIN rows,
         \A r \in DOMAIN rows : rows'[r].job = rows[r].job /\ rows'[r].trigger = rows[r].trigger
  PROVE  NightRows(j)' = NightRows(j) /\ Again(j)' = Again(j)
BY DEF NightRows, Again, RowsOf

LEMMA RowIn ==
  ASSUME NEW j \in Jobs, NEW r
  PROVE  /\ r \in NightRows(j) <=> r \in DOMAIN rows /\ rows[r].job = j /\ rows[r].trigger = "nightly"
         /\ r \in Again(j) <=> r \in DOMAIN rows /\ rows[r].job = j /\ rows[r].trigger = "requeue"
BY DEF NightRows, Again, RowsOf

\* Named, one step per action.
LEMMA NamedStep ==
  ASSUME TypeInv, RowInv, Named, [Next]_vars PROVE Named'
<1> USE FewTypesHold DEF redis, outside
<1> DEFINE Busy == {"row", "leased", "written"}
<1>1. ASSUME \A r \in DOMAIN rows : /\ r \in DOMAIN rows' /\ rows'[r].job = rows[r].job
                                    /\ rows'[r].trigger = rows[r].trigger,
             \A t \in Tasks : task'[t].at \in Busy =>
               task[t].at \in Busy /\ task'[t].row = task[t].row /\ task'[t].kind = task[t].kind,
             \A t \in Tasks : task'[t].inRun => Night(t)' \/ AgainTask(t)'
      PROVE  Named'
  BY <1>1 DEF Named
<1>2. ASSUME \A t \in Tasks : task'[t] = task[t] \/ task'[t] = Idle
      PROVE  /\ \A t \in Tasks : task'[t].at \in Busy =>
                  task[t].at \in Busy /\ task'[t].row = task[t].row /\ task'[t].kind = task[t].kind
             /\ \A t \in Tasks : task'[t].inRun => Night(t)' \/ AgainTask(t)'
  BY <1>2 DEF Named, Idle, Night, AgainTask
<1>3. ASSUME NEW t \in Tasks, NEW kind \in Kinds, NEW inRun \in BOOLEAN,
             inRun => kind \in {"nightly", "requeue"},
             NEW at \in Places \ {"none", "row", "leased", "written"}, Begin(t, kind, inRun, at)
      PROVE  /\ \A s \in Tasks : task'[s].at \in Busy =>
                  task[s].at \in Busy /\ task'[s].row = task[s].row /\ task'[s].kind = task[s].kind
             /\ \A s \in Tasks : task'[s].inRun => Night(s)' \/ AgainTask(s)'
  <2>1. /\ task'[t] = [at |-> at, kind |-> kind, inRun |-> inRun, row |-> 0]
        /\ \A s \in Tasks : s # t => task'[s] = task[s]
    BY <1>3 DEF Begin, FewTypes
  <2> QED BY <1>3, <2>1 DEF Named, Night, AgainTask
<1>4. ASSUME NEW t \in Tasks, NEW at \in Places \ {"none", "row"}, Step(t, at), task[t].at # "none",
             at \in Busy => task[t].at \in Busy
      PROVE  /\ \A s \in Tasks : task'[s].at \in Busy =>
                  task[s].at \in Busy /\ task'[s].row = task[s].row /\ task'[s].kind = task[s].kind
             /\ \A s \in Tasks : task'[s].inRun => Night(s)' \/ AgainTask(s)'
  <2>1. /\ task'[t].at = at /\ task'[t].kind = task[t].kind /\ task'[t].row = task[t].row
        /\ task'[t].inRun = task[t].inRun
        /\ \A s \in Tasks : s # t => task'[s] = task[s]
    BY <1>4 DEF Step, FewTypes, TaskRec
  <2> QED BY <1>4, <2>1 DEF Named, Night, AgainTask
<1>5. ASSUME UNCHANGED rows
      PROVE  \A r \in DOMAIN rows : /\ r \in DOMAIN rows' /\ rows'[r].job = rows[r].job
                                    /\ rows'[r].trigger = rows[r].trigger
  BY <1>5
<1> HIDE DEF Busy
<1>6. ASSUME NEW c \in Consoles, NEW j \in Jobs, StartNightly(c, j) PROVE Named'
  <2> DEFINE t == <<c, j, "queued">>
  <2>1. t \in Tasks /\ UNCHANGED rows
        /\ \E at \in Places \ {"none", "row", "leased", "written"} : Begin(t, "nightly", TRUE, at)
    BY <1>6, TaskOf DEF StartNightly, Claim, Places
  <2> HIDE DEF t
  <2> QED BY <1>1, <1>3, <1>5, <2>1 DEF Kinds
<1>7. ASSUME NEW c \in Consoles, NEW j \in Jobs, StartManual(c, j) \/ StartFirst(c, j) PROVE Named'
  <2>1. PICK t \in Tasks, kind \in Kinds, at \in Places \ {"none", "row", "leased", "written"} :
          Begin(t, kind, FALSE, at) /\ UNCHANGED rows
    <3>1. CASE StartManual(c, j)
      BY <3>1, TaskOf DEF StartManual, Kinds, Claim, Places
    <3>2. CASE StartFirst(c, j)
      BY <3>2, TaskOf DEF StartFirst, Kinds, Claim, Places
    <3> QED BY <1>7, <3>1, <3>2
  <2> QED BY <1>1, <1>3, <1>5, <2>1
<1>8. ASSUME NEW t \in Tasks, TakeClaim(t) PROVE Named'
  <2>1. \E at \in Places \ {"none", "row", "leased", "written"} :
          Begin(t, task[t].kind, task[t].inRun, at)
    BY <1>8 DEF TakeClaim, Claim, Places
  <2>2. task[t].kind \in Kinds /\ task[t].inRun \in BOOLEAN
        /\ (task[t].inRun => task[t].kind \in {"nightly", "requeue"}) /\ UNCHANGED rows
    BY <1>8 DEF TakeClaim, FewTypes, TaskRec, Named, Night, AgainTask
  <2> QED BY <1>1, <1>3, <1>5, <2>1, <2>2
<1>9. ASSUME NEW t \in Tasks, InsertRow(t) PROVE Named'
  <2> DEFINE v == [job |-> t[2], trigger |-> task[t].kind, status |-> "running", note |-> "none"]
             n == Len(rows) + 1
  <2>1. rows' = Append(rows, v) /\ rows \in Seq(RowRec)
    BY <1>9 DEF InsertRow, TypeInv, RowsOK
  <2>2. v.job = t[2] /\ v.trigger = task[t].kind
    OBVIOUS
  <2>3. /\ task'[t].at = "row" /\ task'[t].row = n /\ task'[t].kind = task[t].kind
        /\ task'[t].inRun = task[t].inRun /\ task[t].at # "none"
        /\ \A s \in Tasks : s # t => task'[s] = task[s]
    BY <1>9 DEF InsertRow, FewTypes, TaskRec
  <2> HIDE DEF v
  <2>4. /\ n \in DOMAIN rows' /\ rows'[n] = v
        /\ \A r \in DOMAIN rows : r \in DOMAIN rows' /\ rows'[r] = rows[r]
    BY <2>1
  <2> HIDE DEF n
  <2> QED BY <2>2, <2>3, <2>4 DEF Named, Night, AgainTask
<1>10. ASSUME NEW t \in Tasks, LeaseRow(t) \/ Report(t) PROVE Named'
  <2>1. UNCHANGED rows /\ task[t].at # "none"
        /\ \E at \in Places \ {"none", "row"} : Step(t, at) /\ (at \in Busy => task[t].at \in Busy)
    BY <1>10 DEF LeaseRow, Report, Places, Busy
  <2> QED BY <1>1, <1>4, <1>5, <2>1
<1>11. ASSUME NEW t \in Tasks, WriteOutcome(t) PROVE Named'
  <2>1. /\ task[t].at # "none" /\ Step(t, "written") /\ task[t].at \in Busy
        /\ task[t].row \in DOMAIN rows /\ rows \in Seq(RowRec)
    BY <1>11 DEF WriteOutcome, Busy, Named, TypeInv, RowsOK
  <2>2. \A r \in DOMAIN rows : /\ r \in DOMAIN rows' /\ rows'[r].job = rows[r].job
                               /\ rows'[r].trigger = rows[r].trigger
    BY <1>11, <2>1, RowAt DEF WriteOutcome, TypeInv, RowRec
  <2> QED BY <1>1, <1>4, <2>1, <2>2 DEF Places
<1>12. ASSUME NEW t \in Tasks, End(t) PROVE Named'
  BY <1>1, <1>2, <1>5, <1>12 DEF End, FewTypes
<1>13. ASSUME NEW c \in Consoles, NEW r \in DOMAIN rows, Reap(c, r) PROVE Named'
  <2>1. \A q \in DOMAIN rows : /\ q \in DOMAIN rows' /\ rows'[q].job = rows[q].job
                               /\ rows'[q].trigger = rows[q].trigger
    BY <1>13, RowAt DEF Reap, TypeInv, RowRec
  <2> QED BY <1>1, <1>2, <1>13, <2>1 DEF Reap
<1>14. ASSUME NEW c \in Consoles, NEW j \in Jobs, PlanRequeue(c, j) PROVE Named'
  <2>1. \A q \in DOMAIN rows : /\ q \in DOMAIN rows' /\ rows'[q].job = rows[q].job
                               /\ rows'[q].trigger = rows[q].trigger
    <3>1. ASSUME NEW q \in DOMAIN rows
          PROVE  /\ [rows[q] EXCEPT !.note = "requeued"].job = rows[q].job
                 /\ [rows[q] EXCEPT !.note = "requeued"].trigger = rows[q].trigger
      BY RowAt DEF TypeInv, RowRec
    <3> QED BY <1>14, <3>1 DEF PlanRequeue
  <2> QED BY <1>1, <1>2, <1>14, <2>1 DEF PlanRequeue
<1>15. ASSUME NEW c \in Consoles, NEW j \in Jobs, Requeue(c, j) \/ Orphan(c, j) PROVE Named'
  <2> DEFINE t == <<c, j, "queued">>
  <2>1. /\ t \in Tasks /\ UNCHANGED rows
        /\ UNCHANGED task \/ \E inRun \in BOOLEAN : Begin(t, "requeue", inRun, "claiming")
    <3>1. sweep[c].inRun \in BOOLEAN
      BY DEF TypeInv, SweepOK, SweepRec
    <3> QED BY <1>15, <3>1, TaskOf DEF Requeue, Orphan
  <2> HIDE DEF t
  <2> QED BY <1>1, <1>2, <1>3, <1>5, <2>1 DEF Kinds, Places
<1>16. ASSUME NEW c \in Consoles, Stop(c) PROVE Named'
  BY <1>1, <1>2, <1>5, <1>16 DEF Stop
<1>17. CASE UNCHANGED <<task, rows>>
  BY <1>1, <1>2, <1>5, <1>17
<1>18. ASSUME NEW c \in Consoles, TickStep(c) PROVE Named'
  BY <1>6, <1>17, <1>18 DEF TickStep, OpenRun, SkipInRun
<1>19. ASSUME NEW c \in Consoles, SweepStep(c) PROVE Named'
  BY <1>13, <1>14, <1>15, <1>17, <1>19 DEF SweepStep, SweepStart, SweepOrphans
<1>20. ASSUME NEW t \in Tasks, TaskStep(t) PROVE Named'
  BY <1>8, <1>9, <1>10, <1>11, <1>12, <1>20 DEF TaskStep
<1>21. ASSUME NEW c \in Consoles, FinishRun(c) \/ Restart(c) \/ Lapse(c) PROVE Named'
  BY <1>17, <1>21 DEF FinishRun, Restart, Lapse
<1>22. CASE Later \/ Expire \/ BeatStep \/ UNCHANGED vars
  BY <1>17, <1>22 DEF Later, Expire, ExpireRow, ExpireJob, ExpireClaim, BeatStep, vars
<1>23. ASSUME NEW j \in Jobs, SwitchOff(j) PROVE Named'
  BY <1>17, <1>23 DEF SwitchOff
<1> QED
  BY <1>7, <1>16, <1>18, <1>19, <1>20, <1>21, <1>22, <1>23 DEF Next

-------------------------------------------------------------------------------
(* JobInv, one lemma per action: first the tools, then the tick and the runs
   started by hand. *)

LEMMA RunDone ==
  ASSUME TypeInv, Open, NEW i \in Jobs, run' = DoneWith(i)
  PROVE  /\ run'.done = run.done \cup {i} /\ run'.plan = run.plan /\ run'.since = run.since
         /\ run'.state = run.state
BY DEF TypeInv, RunOK, DoneWith

LEMMA RunExtended ==
  ASSUME TypeInv, Open, run' = Extended
  PROVE  /\ run'.done = run.done /\ run'.plan = run.plan /\ run'.since = run.since
         /\ run'.state = run.state
BY DEF TypeInv, RunOK, Extended

LEMMA RunGivenUp ==
  ASSUME TypeInv, Open, NEW i \in Jobs, run' = [Extended EXCEPT !.done = @ \cup {i}]
  PROVE  /\ run'.done = run.done \cup {i} /\ run'.plan = run.plan /\ run'.since = run.since
         /\ run'.state = run.state
<1>1. /\ Extended \in RunSet(0 .. Len(rows))
      /\ Extended.done = run.done /\ Extended.plan = run.plan /\ Extended.state = run.state
      /\ Extended.since = run.since
  BY DEF TypeInv, RunOK, Extended, RunSet
<1>2. run'.since = Extended.since /\ run'.done = Extended.done \cup {i}
      /\ run'.plan = Extended.plan /\ run'.state = Extended.state
  BY <1>1 DEF RunSet
<1> QED BY <1>1, <1>2

\* What a task does for another job, nothing of job j sees.
LEMMA TasksFrame ==
  ASSUME NEW j \in Jobs, \A t \in TasksOf(j) : task'[t] = task[t] \/ task'[t] = Idle
                                               \/ task'[t].kind \in {"manual", "initial"}
  PROVE  \A t \in TasksOf(j) :
           /\ Night(t)' =>
            /\ Night(t) /\ task'[t].inRun = task[t].inRun
            /\ task'[t].at \in {"claiming", "slot"} => task[t].at \in {"claiming", "slot"}
            /\ task'[t].at \in {"written", "ending"} =>
                 \/ task[t].at \in {"written", "ending"}
                 \/ \A r \in NightRows(j) : rows'[r].status = "finished"
           /\ AgainTask(t)' => AgainTask(t)
           /\ Pending(t)' => Pending(t)
BY DEF Night, AgainTask, Pending, Idle

\* A step that leaves the rows, the run, the lock and the plans of job j alone.
LEMMA QuietFrame ==
  ASSUME NEW j \in Jobs, JobInv(j), UNCHANGED rows,
         \A t \in TasksOf(j) : task'[t] = task[t] \/ task'[t] = Idle
                               \/ task'[t].kind \in {"manual", "initial"},
         \A c \in Consoles : j \in tick'[c] => j \in tick[c],
         run'.plan = run.plan, run'.since = run.since, j \in run'.done => j \in run.done,
         j \in off => j \in off', j \in lock' <=> j \in lock,
         \A c \in Consoles :
           j \in sweep'[c].plan => j \in sweep[c].plan /\ sweep'[c].inRun = sweep[c].inRun,
         Alive(j)' => j \in jobLease'
  PROVE  JobInv(j)'
<1>1. NightRows(j)' = NightRows(j) /\ Again(j)' = Again(j)
  BY SameRows
<1>2. \A r \in NightRows(j) : rows'[r] = rows[r]
  OBVIOUS
<1>3. Frame(j)
  BY <1>1, <1>2, TasksFrame DEF Frame
<1> QED BY <1>2, <1>3, FrameSettled

\* A live nightly run has its lease: what of it goes, goes with it.
LEMMA AliveKeeps ==
  ASSUME NEW j \in Jobs, JobInv(j), j \in jobLease => j \in jobLease',
         \A t \in TasksOf(j) : Night(t)' => Night(t),
         \A c \in Consoles : j \in tick'[c] => j \in tick[c]
  PROVE  Alive(j)' => j \in jobLease'
<1>1. TasksOf(j)' = TasksOf(j)
  BY DEF TasksOf
<1> QED BY <1>1 DEF JobInv, NightAlone, Alive, OnTick

\* A step that begins a task by hand or for a first snapshot, ends one, or moves other jobs'.
LEMMA Aside ==
  ASSUME NEW j \in Jobs, JobInv(j), UNCHANGED <<rows, tick, sweep>>, j \in lock' <=> j \in lock,
         \A t \in TasksOf(j) : task'[t] = task[t] \/ task'[t] = Idle
                               \/ task'[t].kind \in {"manual", "initial"},
         run'.plan = run.plan, run'.since = run.since, j \in run'.done => j \in run.done,
         j \in off => j \in off',
         j \in jobLease => j \in jobLease'
  PROVE  JobInv(j)'
<1>1. \A t \in TasksOf(j) : Night(t)' => Night(t)
  BY DEF Night, Idle
<1> QED BY <1>1, AliveKeeps, QuietFrame

LEMMA JobSkip ==
  ASSUME TypeInv, Open, NEW j \in Jobs, JobInv(j), NEW c \in Consoles, NEW i \in Jobs, SkipInRun(c, i)
  PROVE  JobInv(j)'
<1> USE DEF outside
<1>1. /\ UNCHANGED <<task, sweep, rows, lock, off>> /\ i \in tick[c]
      /\ jobLease' = jobLease \ {i} /\ tick' = [tick EXCEPT ![c] = @ \ {i}]
  BY DEF SkipInRun
<1>2. /\ run'.done = run.done \cup {i} /\ run'.plan = run.plan /\ run'.since = run.since
  BY RunDone DEF SkipInRun
<1>3. /\ tick'[c] = tick[c] \ {i} /\ \A d \in Consoles : d # c => tick'[d] = tick[d]
  BY <1>1 DEF TypeInv, TickOK
<1>4. CASE i # j
  <2>1. \A t \in TasksOf(j) : (Night(t)' => Night(t)) /\ task'[t] = task[t]
    BY <1>1 DEF Night
  <2>2. j \in jobLease => j \in jobLease'
    BY <1>1, <1>4
  <2>3. Alive(j)' => j \in jobLease'
    BY <1>3, <2>1, <2>2, AliveKeeps
  <2> QED BY <1>1, <1>2, <1>3, <1>4, <2>1, <2>3, QuietFrame
<1>5. CASE i = j
  <2>1. ~OnTick(j)' /\ NightRows(j) = {} /\ \A t \in TasksOf(j) : ~Night(t)
    BY <1>1, <1>3, <1>5 DEF JobInv, OneNight, OnTick
  <2>2. NightRows(j)' = NightRows(j) /\ Again(j)' = Again(j) /\ TasksOf(j)' = TasksOf(j)
    BY <1>1, SameRows DEF TasksOf
  <2>3. \A t \in TasksOf(j) : ~Night(t)' /\ (AgainTask(t)' => AgainTask(t)) /\ (Pending(t)' => Pending(t))
    BY <1>1, <2>1 DEF Night, AgainTask, Pending
  <2>4. ~Alive(j)' /\ ~Early(j)'
    BY <2>1, <2>2, <2>3 DEF Alive, Early, RunsFirst
  <2>5. Frame(j)
    BY <1>1, <1>2, <1>3, <2>1, <2>2, <2>3, <2>4 DEF Frame
  <2>6. Settled(j)'
    BY <2>1, <2>2, <2>4 DEF Settled
  <2> QED BY <2>5, <2>6, FrameKeeps
<1> QED BY <1>4, <1>5

\* A claim taken by a task of another job, by hand, or for a first snapshot.
LEMMA JobStartNightly ==
  ASSUME TypeInv, Open, NEW j \in Jobs, JobInv(j), NEW c \in Consoles, NEW i \in Jobs,
         StartNightly(c, i)
  PROVE  JobInv(j)'
<1> USE DEF outside
<1> DEFINE t == <<c, i, "queued">>
<1>1. /\ UNCHANGED <<sweep, rows, lock, off, jobLease>> /\ i \in tick[c]
      /\ tick' = [tick EXCEPT ![c] = @ \ {i}]
  BY DEF StartNightly
<1>2. t \in Tasks /\ t[2] = i /\ t[3] = "queued"
  BY TaskOf
<1>3. \E at \in {"slot", "ending", "claiming"} :
        /\ Begin(t, "nightly", TRUE, at)
        /\ (run' = DoneWith(i) /\ at = "ending") \/ (run' = run /\ at # "ending")
  <2>1. CASE Free(i)
    <3>1. Claim(t, "nightly", TRUE)
      BY <2>1 DEF StartNightly
    <3> HIDE DEF t
    <3>2. CASE i \in byHand
      BY <1>2, <3>1, <3>2 DEF Claim
    <3>3. CASE i \notin byHand
      BY <1>2, <3>1, <3>3 DEF Claim
    <3> QED BY <3>2, <3>3
  <2>2. CASE ~Free(i)
    BY <2>2 DEF StartNightly
  <2> QED BY <2>1, <2>2
<1>4. /\ tick'[c] = tick[c] \ {i} /\ \A d \in Consoles : d # c => tick'[d] = tick[d]
  BY <1>1 DEF TypeInv, TickOK
<1> HIDE DEF t
<1>5. /\ task'[t].at \in {"slot", "ending", "claiming"} /\ task'[t].kind = "nightly" /\ task'[t].inRun
      /\ \A s \in Tasks : s # t => task'[s] = task[s]
      /\ run'.plan = run.plan /\ run'.since = run.since
      /\ (run'.done = run.done \cup {i} /\ task'[t].at = "ending") \/ run'.done = run.done
  <2>1. PICK at \in {"slot", "ending", "claiming"} :
          /\ Begin(t, "nightly", TRUE, at)
          /\ (run' = DoneWith(i) /\ at = "ending") \/ (run' = run /\ at # "ending")
    BY <1>3
  <2>2. /\ task'[t] = [at |-> at, kind |-> "nightly", inRun |-> TRUE, row |-> 0]
        /\ \A s \in Tasks : s # t => task'[s] = task[s]
    BY <1>2, <2>1, FewTypesHold DEF Begin, FewTypes
  <2> QED BY <2>1, <2>2, RunDone
<1>6. CASE i # j
  <2>1. \A s \in TasksOf(j) : task'[s] = task[s]
    BY <1>2, <1>5, <1>6 DEF TasksOf
  <2>2. \A s \in TasksOf(j) : Night(s)' => Night(s)
    BY <2>1 DEF Night
  <2> QED BY <1>1, <1>4, <1>5, <1>6, <2>1, <2>2, AliveKeeps, QuietFrame
<1>7. CASE i = j
  <2>1. ~OnTick(j)' /\ NightRows(j) = {} /\ \A s \in TasksOf(j) : ~Night(s)
    BY <1>1, <1>4, <1>7 DEF JobInv, OneNight, OnTick
  <2>2. NightRows(j)' = NightRows(j) /\ Again(j)' = Again(j) /\ TasksOf(j)' = TasksOf(j)
    BY <1>1, SameRows DEF TasksOf
  <2>3. /\ j \in jobLease /\ j \notin lock /\ Again(j) = {} /\ j \notin run.done
        /\ \A s \in TasksOf(j) : ~AgainTask(s)
        /\ \A d \in Consoles : j \notin sweep[d].plan
    BY <1>1, <1>7 DEF JobInv, NightAlone, Alive, Early, OnTick
  <2>4. \A s \in TasksOf(j) : /\ Night(s)' => s = t
                              /\ ~AgainTask(s)' /\ ~Pending(s)'
    BY <1>5, <2>1, <2>3 DEF Night, AgainTask, Pending, TasksOf
  <2>5. OneNight(j)'
    BY <1>2, <1>5, <2>1, <2>2, <2>4 DEF OneNight, OnTick
  <2>6. NightAlone(j)'
    <3>1. Early(j)' => task'[t].at \in {"claiming", "slot"}
      BY <2>1, <2>2, <2>4 DEF Early, RunsFirst
    <3> QED BY <1>1, <1>5, <1>7, <2>2, <2>3, <2>4, <3>1 DEF NightAlone
  <2>7. OneAgain(j)' /\ Plans(j)'
    BY <1>1, <2>1, <2>2, <2>3, <2>4 DEF OneAgain, Plans
  <2> QED BY <2>5, <2>6, <2>7 DEF JobInv
<1> QED BY <1>6, <1>7

LEMMA JobByHand ==
  ASSUME TypeInv, Open, NEW j \in Jobs, JobInv(j), NEW c \in Consoles, NEW i \in Jobs,
         StartManual(c, i) \/ StartFirst(c, i)
  PROVE  JobInv(j)'
<1>1. PICK t \in Tasks, kind \in {"manual", "initial"} : Claim(t, kind, FALSE)
  <2>1. CASE StartManual(c, i)
    BY <2>1, TaskOf DEF StartManual
  <2>2. CASE StartFirst(c, i)
    BY <2>2, TaskOf DEF StartFirst
  <2> QED BY <2>1, <2>2
<1>2. UNCHANGED <<tick, sweep, rows, lock, jobLease, off>>
  BY DEF StartManual, StartFirst
<1>3. UNCHANGED run /\ \A s \in Tasks : task'[s] = task[s] \/ task'[s].kind \in {"manual", "initial"}
  BY <1>1, FewTypesHold DEF Claim, Begin, FewTypes
<1> QED BY <1>2, <1>3, Aside DEF TasksOf

-------------------------------------------------------------------------------
(* JobInv: the steps of a task. *)

LEMMA JobTakeClaim ==
  ASSUME TypeInv, Named, Open, NEW j \in Jobs, JobInv(j), NEW t \in Tasks, TakeClaim(t)
  PROVE  JobInv(j)'
<1> USE DEF outside
<1>1. /\ UNCHANGED <<tick, sweep, rows, lock, off, jobLease>> /\ task[t].at = "claiming"
      /\ task[t].inRun \in BOOLEAN /\ t[2] \in Jobs
  BY FewTypesHold, TaskParts DEF TakeClaim, FewTypes, TaskRec
<1>2. \E at \in {"slot", "ending"} :
        /\ Begin(t, task[t].kind, task[t].inRun, at)
        /\ (run' = DoneWith(t[2]) /\ at = "ending" /\ task[t].inRun) \/ (run' = run /\ at # "ending")
  <2>1. Claim(t, task[t].kind, task[t].inRun)
    BY DEF TakeClaim
  <2>2. CASE task[t].inRun /\ t[2] \in byHand
    BY <2>1, <2>2 DEF Claim
  <2>3. CASE ~(task[t].inRun /\ t[2] \in byHand)
    BY <2>1, <2>3 DEF Claim
  <2> QED BY <2>2, <2>3
<1>3. /\ task'[t].at \in {"slot", "ending"} /\ task'[t].kind = task[t].kind
      /\ task'[t].inRun = task[t].inRun
      /\ \A s \in Tasks : s # t => task'[s] = task[s]
      /\ run'.plan = run.plan /\ run'.since = run.since
      /\ \/ run'.done = run.done \cup {t[2]} /\ task'[t].at = "ending" /\ task[t].inRun
         \/ run'.done = run.done
  <2>1. PICK at \in {"slot", "ending"} :
        /\ Begin(t, task[t].kind, task[t].inRun, at)
        /\ (run' = DoneWith(t[2]) /\ at = "ending" /\ task[t].inRun) \/ (run' = run /\ at # "ending")
    BY <1>2
  <2>2. /\ task'[t] = [at |-> at, kind |-> task[t].kind, inRun |-> task[t].inRun, row |-> 0]
        /\ \A s \in Tasks : s # t => task'[s] = task[s]
    BY <2>1, FewTypesHold DEF Begin, FewTypes
  <2> QED BY <1>1, <2>1, <2>2, RunDone
<1>4. CASE t[2] # j
  BY <1>1, <1>3, <1>4, Aside DEF TasksOf
<1>5. CASE t[2] = j
  <2>1. t \in TasksOf(j) /\ TasksOf(j)' = TasksOf(j) /\ \A s \in TasksOf(j) : s \in Tasks
    BY <1>5 DEF TasksOf
  <2>2. NightRows(j)' = NightRows(j) /\ Again(j)' = Again(j) /\ \A r \in NightRows(j) : rows'[r] = rows[r]
    BY <1>1, SameRows
  <2>3. \A s \in TasksOf(j) : /\ Night(s)' => Night(s)
                              /\ AgainTask(s)' => AgainTask(s)
                              /\ Pending(s)' => Pending(s)
    BY <1>1, <1>3, <2>1 DEF Night, AgainTask, Pending
  <2>4. Night(t) => NightRows(j) = {} /\ ~OnTick(j) /\ \A s \in TasksOf(j) : Night(s) => s = t
    BY <1>1, <2>1 DEF JobInv, OneNight
  <2>5. Frame(j)
    <3>1. Alive(j)' => j \in jobLease'
      BY <1>1, <2>3, AliveKeeps
    <3> QED BY <1>1, <1>3, <2>1, <2>2, <2>3, <2>4, <3>1 DEF Frame, Night
  <2>6. CASE run'.done = run.done
    BY <1>1, <2>2, <2>5, <2>6, FrameSettled
  <2>7. CASE task'[t].at = "ending" /\ task[t].inRun
    <3>1. CASE Night(t)
      <4>1. ~Early(j)'
        BY <1>1, <2>1, <2>2, <2>3, <2>4, <2>7, <3>1 DEF Early, OnTick, RunsFirst
      <4> QED BY <2>2, <2>4, <2>5, <3>1, <4>1, FrameKeeps DEF Settled
    <3>2. CASE AgainTask(t)
      <4>1. ~Early(j)'
        BY <1>1, <2>1, <2>5, <3>2, FrameOf DEF JobInv, NightAlone, Early, Alive
      <4>2. Pending(t)
        BY <1>1, <3>2 DEF Pending, AgainTask
      <4>3. j \in lock /\ \A s \in TasksOf(j) : Pending(s) => s = t
        BY <2>1, <4>2 DEF JobInv, OneAgain
      <4>4. \A s \in TasksOf(j) : ~Pending(s)'
        BY <2>3, <2>7, <4>3 DEF Pending
      <4> QED BY <1>1, <2>1, <2>5, <4>1, <4>3, <4>4, FrameKeeps DEF Settled
    <3> QED BY <2>7, <3>1, <3>2 DEF Named
  <2> QED BY <1>3, <2>6, <2>7
<1> QED BY <1>4, <1>5

LEMMA JobInsertRow ==
  ASSUME TypeInv, Named, Open, NEW j \in Jobs, JobInv(j), NEW t \in Tasks, InsertRow(t)
  PROVE  JobInv(j)'
<1> USE DEF outside, redis
<1> DEFINE v == [job |-> t[2], trigger |-> task[t].kind, status |-> "running", note |-> "none"]
           n == Len(rows) + 1
<1>1. /\ UNCHANGED <<tick, sweep, run, lock, off, jobLease>> /\ task[t].at = "slot"
      /\ rows' = Append(rows, v) /\ rows \in Seq(RowRec)
      /\ v.job = t[2] /\ v.trigger = task[t].kind /\ v.status = "running" /\ v.note = "none"
  BY DEF InsertRow, TypeInv, RowsOK
<1> HIDE DEF v
<1>2. /\ DOMAIN rows' = DOMAIN rows \cup {n} /\ rows'[n] = v /\ n \notin DOMAIN rows
      /\ \A r \in DOMAIN rows : rows'[r] = rows[r] /\ r < n
      /\ run.since < n
  BY <1>1 DEF TypeInv, RunOK
<1> HIDE DEF n
<1>3. /\ task'[t].at = "row" /\ task'[t].kind = task[t].kind /\ task'[t].inRun = task[t].inRun
      /\ \A s \in Tasks : s # t => task'[s] = task[s]
  BY FewTypesHold DEF InsertRow, FewTypes, TaskRec
<1>4. /\ NightRows(j)' = NightRows(j) \cup {r \in {n} : t[2] = j /\ task[t].kind = "nightly"}
      /\ Again(j)' = Again(j) \cup {r \in {n} : t[2] = j /\ task[t].kind = "requeue"}
  BY <1>1, <1>2 DEF NightRows, Again, RowsOf
<1>5. /\ TasksOf(j)' = TasksOf(j) /\ \A s \in TasksOf(j) : s \in Tasks
      /\ \A s \in TasksOf(j) : /\ Night(s)' => Night(s)
                               /\ AgainTask(s)' => AgainTask(s)
                               /\ Pending(s)' => Pending(s) /\ s # t
  BY <1>1, <1>3 DEF Night, AgainTask, Pending, TasksOf
<1>6. \A r \in NightRows(j) : r \in DOMAIN rows /\ rows'[r] = rows[r]
  BY <1>2, RowIn
<1>7. CASE t[2] # j \/ task[t].kind \notin {"nightly", "requeue"}
  <2>1. NightRows(j)' = NightRows(j) /\ Again(j)' = Again(j)
    BY <1>4, <1>7
  <2>2. Alive(j)' => j \in jobLease'
    BY <1>1, <1>5, AliveKeeps
  <2>3. Frame(j)
    BY <1>1, <1>3, <1>5, <1>6, <1>7, <2>1, <2>2 DEF Frame, Night, TasksOf
  <2> QED BY <1>1, <1>6, <2>3, FrameSettled
<1>8. CASE t[2] = j /\ task[t].kind = "nightly"
  <2>1. Night(t) /\ t \in TasksOf(j)
    BY <1>1, <1>8 DEF Night, TasksOf
  <2>2. NightRows(j) = {} /\ ~OnTick(j) /\ task[t].inRun /\ t[3] = "queued"
        /\ \A s \in TasksOf(j) : Night(s) => s = t
    BY <1>1, <2>1 DEF JobInv, OneNight
  <2>3. NightRows(j)' = {n} /\ Again(j)' = Again(j)
    BY <1>4, <1>8, <2>2
  <2>4. /\ j \in jobLease /\ j \notin lock /\ Again(j) = {} /\ j \notin run.done
        /\ \A s \in TasksOf(j) : ~AgainTask(s)
        /\ \A d \in Consoles : j \notin sweep[d].plan
    BY <1>1, <2>1 DEF JobInv, NightAlone, Alive, Early
  <2>5. j \in run.plan
    BY <1>8, <2>2 DEF TypeInv, TaskOK
  <2>6. ~OnTick(j)'
    BY <1>1, <2>2 DEF OnTick
  <2>7. OneNight(j)'
    BY <1>1, <1>2, <1>3, <1>5, <2>2, <2>3, <2>5, <2>6 DEF OneNight, OnTick
  <2>8. NightAlone(j)'
    BY <1>1, <1>5, <2>3, <2>4 DEF NightAlone
  <2>9. OneAgain(j)' /\ Plans(j)'
    BY <1>1, <1>5, <2>3, <2>4 DEF OneAgain, Plans, Pending, AgainTask
  <2> QED BY <2>7, <2>8, <2>9 DEF JobInv
<1>9. CASE t[2] = j /\ task[t].kind = "requeue"
  <2>1. Pending(t) /\ AgainTask(t) /\ t \in TasksOf(j)
    BY <1>1, <1>9 DEF Pending, AgainTask, TasksOf
  <2>2. Again(j) = {} /\ j \in lock /\ \A s \in TasksOf(j) : Pending(s) => s = t
    BY <2>1 DEF JobInv, OneAgain
  <2>3. NightRows(j)' = NightRows(j) /\ Again(j)' = {n}
    BY <1>4, <1>9, <2>2
  <2>4. ~Alive(j) /\ ~RunsFirst(j)
    BY <2>1 DEF JobInv, NightAlone
  <2>5. /\ ~Alive(j)' /\ ~RunsFirst(j)' /\ ~OnTick(j)' /\ \A s \in TasksOf(j) : ~Night(s)'
    BY <1>1, <1>5, <1>6, <2>3, <2>4 DEF Alive, OnTick, RunsFirst, IsRunning
  <2>6. OneNight(j)'
    BY <1>1, <1>5, <1>6, <2>3, <2>5 DEF JobInv, OneNight, OnTick
  <2>7. NightAlone(j)'
    BY <1>5, <2>5 DEF NightAlone, Early, Alive
  <2>8. \A s \in TasksOf(j) : ~Pending(s)'
    BY <1>5, <2>2
  <2>9. OneAgain(j)'
    BY <1>1, <1>2, <1>5, <1>6, <2>2, <2>3, <2>8 DEF OneAgain
  <2>10. Plans(j)'
    BY <1>1, <1>5, <1>6, <2>1, <2>2, <2>3, <2>8 DEF JobInv, Plans
  <2> QED BY <2>6, <2>7, <2>9, <2>10 DEF JobInv
<1> QED BY <1>7, <1>8, <1>9

LEMMA JobLeaseRow ==
  ASSUME TypeInv, Named, Open, NEW j \in Jobs, JobInv(j), NEW t \in Tasks, LeaseRow(t)
  PROVE  JobInv(j)'
<1>1. /\ UNCHANGED <<tick, sweep, rows, run, lock, off, jobLease>> /\ task[t].at = "row"
  BY DEF LeaseRow, outside
<1>2. /\ task'[t].at = "leased" /\ task'[t].kind = task[t].kind /\ task'[t].inRun = task[t].inRun
      /\ \A s \in Tasks : s # t => task'[s] = task[s]
  BY FewTypesHold DEF LeaseRow, Step, FewTypes, TaskRec
<1>3. \A s \in TasksOf(j) : /\ s \in Tasks /\ (Night(s)' => Night(s))
                            /\ AgainTask(s)' => AgainTask(s)
                            /\ Pending(s)' => Pending(s)
  BY <1>1, <1>2 DEF Night, AgainTask, Pending, TasksOf
<1>4. NightRows(j)' = NightRows(j) /\ Again(j)' = Again(j) /\ \A r \in NightRows(j) : rows'[r] = rows[r]
  BY <1>1, SameRows
<1>5. Alive(j)' => j \in jobLease'
  BY <1>1, <1>3, AliveKeeps
<1>6. Frame(j)
  BY <1>1, <1>2, <1>3, <1>4, <1>5 DEF Frame
<1> QED BY <1>1, <1>4, <1>6, FrameSettled

LEMMA JobWriteOutcome ==
  ASSUME TypeInv, RowInv, Named, Open, NEW j \in Jobs, JobInv(j), troubles.lapse = 0,
         NEW t \in Tasks, WriteOutcome(t)
  PROVE  JobInv(j)'
<1> DEFINE n == task[t].row
<1>1. /\ UNCHANGED <<tick, sweep, run, lock, off, jobLease>> /\ task[t].at = "leased"
      /\ n \in DOMAIN rows /\ rows[n].job = t[2] /\ rows[n].trigger = task[t].kind
      /\ rows[n] \in RowRec /\ rows[n].status = "running" /\ rows[n].note = "none"
  <2>1. task[t].at = "leased" /\ UNCHANGED <<tick, sweep, run, lock, off, jobLease>>
    BY DEF WriteOutcome, outside
  <2>2. n \in DOMAIN rows /\ rows[n].job = t[2] /\ rows[n].trigger = task[t].kind
    BY <2>1 DEF Named
  <2>3. rows[n].status = "running"
    BY <2>1 DEF RowInv, Works, IsRunning
  <2>4. rows[n].note = "none"
    BY <2>2, <2>3 DEF TypeInv, RowsOK
  <2> QED BY <2>1, <2>2, <2>3, <2>4, RowAt DEF TypeInv
<1>2. /\ task'[t].at = "written" /\ task'[t].kind = task[t].kind /\ task'[t].inRun = task[t].inRun
      /\ \A s \in Tasks : s # t => task'[s] = task[s]
  BY FewTypesHold DEF WriteOutcome, Step, FewTypes, TaskRec
<1>3. /\ DOMAIN rows' = DOMAIN rows /\ \A r \in DOMAIN rows : r # n => rows'[r] = rows[r]
      /\ rows'[n].status = "finished" /\ rows'[n].note = "none"
      /\ rows'[n].job = rows[n].job /\ rows'[n].trigger = rows[n].trigger
  BY <1>1 DEF WriteOutcome, RowRec
<1> HIDE DEF n
<1>4. NightRows(j)' = NightRows(j) /\ Again(j)' = Again(j)
  BY <1>3, SameRows
<1>5. \A r \in NightRows(j) : /\ r # n => rows'[r] = rows[r]
                              /\ r \in DOMAIN rows
  BY <1>3, RowIn
<1>6. \A s \in TasksOf(j) : /\ s \in Tasks /\ (Night(s)' => Night(s))
                            /\ AgainTask(s)' => AgainTask(s)
                            /\ Pending(s)' => Pending(s)
  BY <1>1, <1>2 DEF Night, AgainTask, Pending, TasksOf
<1>7. Alive(j)' => j \in jobLease'
  BY <1>1, <1>6, AliveKeeps
<1>8. t \in TasksOf(j) /\ Night(t) => \A r \in NightRows(j) : rows'[r].status = "finished"
  <2>1. t \in TasksOf(j) /\ Night(t) => n \in NightRows(j)
    BY <1>1, RowIn DEF TasksOf, Night
  <2> QED BY <1>3, <2>1 DEF JobInv, OneNight
<1>9. Frame(j)
  BY <1>1, <1>2, <1>3, <1>4, <1>5, <1>6, <1>7, <1>8 DEF Frame
<1> QED BY <1>1, <1>3, <1>5, <1>9, FrameSettled

LEMMA JobReport ==
  ASSUME TypeInv, Named, Open, NEW j \in Jobs, JobInv(j), NEW t \in Tasks, Report(t)
  PROVE  JobInv(j)'
<1>1. /\ UNCHANGED <<tick, sweep, rows, lock, off, jobLease>> /\ task[t].at = "written" /\ t[2] \in Jobs
  BY TaskParts DEF Report, redis
<1>2. /\ task'[t].at = "ending" /\ task'[t].kind = task[t].kind /\ task'[t].inRun = task[t].inRun
      /\ \A s \in Tasks : s # t => task'[s] = task[s]
  BY FewTypesHold DEF Report, Step, FewTypes, TaskRec
<1>3. /\ run'.plan = run.plan /\ run'.since = run.since
      /\ \/ task[t].inRun /\ run'.done = run.done \cup {t[2]}
         \/ run'.done = run.done
  BY <1>1, RunDone DEF Report
<1>4. \A s \in TasksOf(j) : /\ s \in Tasks /\ (Night(s)' => Night(s))
                            /\ AgainTask(s)' => AgainTask(s)
                            /\ Pending(s)' => Pending(s)
  BY <1>1, <1>2 DEF Night, AgainTask, Pending, TasksOf
<1>5. /\ NightRows(j)' = NightRows(j) /\ Again(j)' = Again(j) /\ TasksOf(j)' = TasksOf(j)
      /\ \A r \in NightRows(j) : rows'[r] = rows[r]
  BY <1>1, SameRows DEF TasksOf
<1>6. Alive(j)' => j \in jobLease'
  BY <1>1, <1>4, AliveKeeps
<1>7. Frame(j)
  BY <1>1, <1>2, <1>3, <1>4, <1>5, <1>6 DEF Frame
<1>8. CASE j \in run'.done => j \in run.done
  BY <1>1, <1>5, <1>7, <1>8, FrameSettled
<1>9. CASE t[2] = j /\ task[t].inRun
  <2>1. t \in TasksOf(j)
    BY <1>9 DEF TasksOf
  <2>2. CASE Night(t)
    <3>1. /\ ~OnTick(j) /\ \A s \in TasksOf(j) : Night(s) => s = t
          /\ \A r \in NightRows(j) : rows[r].status = "finished"
      BY <1>1, <2>1, <2>2 DEF JobInv, OneNight
    <3>2. ~Early(j)'
      BY <1>1, <1>2, <1>4, <1>5, <3>1 DEF Early, OnTick, RunsFirst, IsRunning
    <3>3. \A r \in NightRows(j) : rows[r].note # "cut"
      BY <3>1, RowIn DEF TypeInv, RowsOK
    <3> QED BY <1>5, <1>7, <3>2, <3>3, FrameKeeps DEF Settled
  <2>3. CASE AgainTask(t)
    <3>1. ~Early(j)'
      BY <1>1, <1>7, <2>1, <2>3, FrameOf DEF JobInv, NightAlone, Early, Alive
    <3>2. task[t].row \in Again(j)
      BY <1>1, <1>9, <2>3, RowIn DEF Named, AgainTask
    <3>3. j \in lock /\ \A s \in TasksOf(j) : ~Pending(s)
      BY <3>2 DEF JobInv, OneAgain
    <3> QED BY <1>1, <1>4, <1>5, <1>7, <3>1, <3>3, FrameKeeps DEF Settled
  <2> QED BY <1>9, <2>2, <2>3 DEF Named
<1> QED BY <1>3, <1>8, <1>9

LEMMA JobEnd ==
  ASSUME TypeInv, Named, Open, NEW j \in Jobs, JobInv(j), NEW t \in Tasks, End(t)
  PROVE  JobInv(j)'
<1>1. /\ UNCHANGED <<tick, sweep, rows, run, lock, off>> /\ task[t].at = "ending"
      /\ jobLease' = IF task[t].inRun THEN jobLease \ {t[2]} ELSE jobLease
  BY DEF End, outside
<1>2. task'[t] = Idle /\ \A s \in Tasks : s # t => task'[s] = task[s]
  BY FewTypesHold DEF End, FewTypes
<1>3. CASE t[2] # j \/ ~task[t].inRun
  BY <1>1, <1>2, <1>3, Aside DEF TasksOf
<1>4. CASE t[2] = j /\ task[t].inRun
  <2>1. t \in TasksOf(j) /\ TasksOf(j)' = TasksOf(j) /\ \A s \in TasksOf(j) : s \in Tasks
    BY <1>4 DEF TasksOf
  <2>2. \A s \in TasksOf(j) : Night(s)' => Night(s) /\ s # t
    BY <1>2, <2>1 DEF Night, Idle
  <2>3. ~Alive(j)'
    <3>1. CASE Night(t)
      <4>1. ~OnTick(j) /\ \A s \in TasksOf(j) : Night(s) => s = t
        BY <2>1, <3>1 DEF JobInv, OneNight
      <4> QED BY <1>1, <2>1, <2>2, <4>1 DEF Alive, OnTick
    <3>2. CASE AgainTask(t)
      <4>1. ~Alive(j)
        BY <2>1, <3>2 DEF JobInv, NightAlone
      <4> QED BY <1>1, <2>1, <2>2, <4>1 DEF Alive, OnTick
    <3> QED BY <1>4, <3>1, <3>2 DEF Named
  <2> QED BY <1>1, <1>2, <2>1, <2>3, QuietFrame
<1> QED BY <1>3, <1>4

-------------------------------------------------------------------------------
(* JobInv: the sweep. *)

LEMMA JobReap ==
  ASSUME TypeInv, Open, NEW j \in Jobs, JobInv(j), NEW c \in Consoles, NEW q \in DOMAIN rows,
         Reap(c, q)
  PROVE  JobInv(j)'
<1> USE DEF redis, outside
<1>1. /\ UNCHANGED <<task, tick, run, lock, off, jobLease>>
      /\ \A d \in Consoles : sweep'[d].plan = sweep[d].plan /\ sweep'[d].inRun = sweep[d].inRun
  BY DEF Reap, TypeInv, SweepOK, SweepRec
<1>2. rows[q] \in RowRec /\ (MayReap(q) => rows[q].status = "running" /\ rows[q].note = "none")
  BY RowAt DEF MayReap, IsRunning, TypeInv, RowsOK
<1>3. /\ DOMAIN rows' = DOMAIN rows /\ \A r \in DOMAIN rows : r # q => rows'[r] = rows[r]
      /\ rows'[q].job = rows[q].job /\ rows'[q].trigger = rows[q].trigger
      /\ \/ rows'[q] = rows[q]
         \/ /\ rows[q].status = "running" /\ rows[q].note = "none"
            /\ rows'[q].status = "failed"
  BY <1>2 DEF Reap, RowRec
<1>4. NightRows(j)' = NightRows(j) /\ Again(j)' = Again(j)
  BY <1>3, SameRows
<1>5. \A s \in TasksOf(j) : /\ Night(s)' <=> Night(s)
                            /\ AgainTask(s)' <=> AgainTask(s)
                            /\ Pending(s)' <=> Pending(s)
  BY <1>1 DEF Night, AgainTask, Pending
<1>6. Alive(j)' => j \in jobLease'
  BY <1>1, <1>5, AliveKeeps
<1>7. \A r \in NightRows(j) : r \in DOMAIN rows
  BY RowIn
<1>8. Frame(j)
  BY <1>1, <1>3, <1>4, <1>5, <1>6, <1>7 DEF Frame
<1>9. q \in NightRows(j) /\ rows[q].status = "running" => j \notin run.done
  BY DEF JobInv, NightAlone, Early, RunsFirst, IsRunning
<1> QED BY <1>1, <1>3, <1>7, <1>8, <1>9, FrameSettled

\* A night row that was cut off ends its night: nothing of it is left.
LEMMA CutOver ==
  ASSUME TypeInv, RowInv, Named, troubles.lapse = 0, Open, NEW j \in Jobs, JobInv(j),
         NEW r \in NightRows(j), rows[r].note # "none"
  PROVE  ~Alive(j) /\ ~RunsFirst(j) /\ j \in run.plan /\ \A q \in NightRows(j) : q = r
<1>1. r \in DOMAIN rows /\ rows[r].status = "failed"
  BY RowIn DEF TypeInv, RowsOK
<1>2. ~OnTick(j) /\ j \in run.plan /\ \A q \in NightRows(j) : q = r
  BY DEF JobInv, OneNight
<1>3. ~RunsFirst(j)
  BY <1>1, <1>2 DEF RunsFirst, IsRunning
<1>4. ASSUME NEW t \in TasksOf(j), Night(t) PROVE FALSE
  <2>1. task[t].at \in {"row", "leased"}
    <3>1. task[t].at \in Places /\ t \in Tasks
      BY FewTypesHold DEF FewTypes, TaskRec, TasksOf
    <3>2. task[t].at \notin {"claiming", "slot", "written", "ending", "none"}
      BY <1>1, <1>4 DEF JobInv, OneNight, Night
    <3> QED BY <3>1, <3>2 DEF Places
  <2>2. /\ task[t].row \in NightRows(j) /\ rows[task[t].row].status = "running"
    BY <1>4, <2>1, RowIn DEF Named, Night, TasksOf, RowInv, Works, IsRunning
  <2> QED BY <1>1, <1>2, <2>2
<1> QED BY <1>2, <1>3, <1>4 DEF Alive

LEMMA JobPlan ==
  ASSUME TypeInv, RowInv, Named, troubles.lapse = 0, Open, NEW j \in Jobs, JobInv(j),
         NEW c \in Consoles, NEW i \in Jobs, PlanRequeue(c, i)
  PROVE  JobInv(j)'
<1> USE DEF redis, outside
<1>1. /\ UNCHANGED <<task, tick, lock, off, jobLease>>
      /\ CutOff(i) # {} /\ sweep[c] = NoSweep
  BY DEF PlanRequeue
<1>2. /\ DOMAIN rows' = DOMAIN rows
      /\ \A r \in DOMAIN rows : /\ rows'[r].job = rows[r].job /\ rows'[r].trigger = rows[r].trigger
                                /\ rows'[r].status = rows[r].status
                                /\ rows'[r].note = IF r \in CutOff(i) THEN "requeued" ELSE rows[r].note
  <2>1. ASSUME NEW r \in DOMAIN rows
        PROVE  /\ [rows[r] EXCEPT !.note = "requeued"].job = rows[r].job
               /\ [rows[r] EXCEPT !.note = "requeued"].trigger = rows[r].trigger
               /\ [rows[r] EXCEPT !.note = "requeued"].status = rows[r].status
               /\ [rows[r] EXCEPT !.note = "requeued"].note = "requeued"
    BY RowAt DEF TypeInv, RowRec
  <2> QED BY <2>1 DEF PlanRequeue
<1>3. NightRows(j)' = NightRows(j) /\ Again(j)' = Again(j) /\ \A r \in NightRows(j) : r \in DOMAIN rows
  BY <1>2, SameRows, RowIn
<1>4. /\ run'.plan = run.plan /\ run'.since = run.since
      /\ run'.done = run.done \/ run'.done = run.done \cup {i}
      /\ run'.done # run.done => i \in off \/ Superseded(i)
  BY RunExtended, RunGivenUp DEF PlanRequeue
<1>5. /\ \A d \in Consoles : d # c => sweep'[d] = sweep[d]
      /\ \/ sweep'[c] = sweep[c] /\ (i \in off \/ Superseded(i))
         \/ /\ i \notin off /\ ~Superseded(i) /\ sweep'[c].plan = {i}
            /\ sweep'[c].inRun = (i \in run.plan \ run.done)
  <2>1. CASE i \in off \/ Superseded(i)
    BY <2>1 DEF PlanRequeue
  <2>2. CASE ~(i \in off \/ Superseded(i))
    <3> DEFINE s1 == [sweep EXCEPT ![c].plan = {i}]
               awaited == Open /\ i \in run.plan \ run.done
    <3>1. sweep' = [s1 EXCEPT ![c].inRun = awaited]
      BY <2>2 DEF PlanRequeue
    <3>2. /\ s1 \in [Consoles -> SweepRec] /\ s1[c].plan = {i}
          /\ \A d \in Consoles : d # c => s1[d] = sweep[d]
      BY DEF TypeInv, SweepOK, SweepRec
    <3>3. awaited = (i \in run.plan \ run.done)
      OBVIOUS
    <3> HIDE DEF s1, awaited
    <3>4. /\ \A d \in Consoles : d # c => sweep'[d] = s1[d]
          /\ sweep'[c].plan = s1[c].plan /\ sweep'[c].inRun = awaited
      BY <3>1, <3>2 DEF SweepRec
    <3> QED BY <2>2, <3>2, <3>3, <3>4
  <2> QED BY <2>1, <2>2
<1>6. \A r \in DOMAIN rows : r \in CutOff(i) <=>
        r \in NightRows(i) /\ rows[r].status = "failed" /\ rows[r].note = "cut"
  BY RowIn DEF CutOff, RowsOf, NightRows
<1>7. sweep[c].plan = {}
  BY <1>1 DEF NoSweep
<1>8. \A s \in TasksOf(j) : /\ Night(s)' <=> Night(s)
                            /\ AgainTask(s)' <=> AgainTask(s)
                            /\ Pending(s)' <=> Pending(s)
  BY <1>1 DEF Night, AgainTask, Pending
<1>9. Alive(j)' => j \in jobLease'
  BY <1>1, <1>8, AliveKeeps
<1>10. CASE i # j
  <2>1. \A r \in NightRows(j) : r \notin CutOff(i)
    BY <1>10 DEF CutOff, RowsOf, NightRows
  <2>2. \A d \in Consoles : j \in sweep'[d].plan =>
           j \in sweep[d].plan /\ sweep'[d].inRun = sweep[d].inRun
    BY <1>5, <1>10
  <2>3. Frame(j)
    BY <1>1, <1>2, <1>3, <1>4, <1>8, <1>9, <2>1, <2>2 DEF Frame
  <2> QED BY <1>1, <1>2, <1>3, <1>4, <1>10, <2>1, <2>3, FrameSettled
<1>11. CASE i = j
  <2>1. PICK r \in NightRows(j) : rows[r].note = "cut" /\ rows[r].status = "failed"
    <3>1. CutOff(j) \subseteq DOMAIN rows
      BY DEF CutOff, RowsOf
    <3> QED BY <1>1, <1>6, <1>11, <3>1
  <2>2. ~Alive(j) /\ ~RunsFirst(j) /\ j \in run.plan /\ \A q \in NightRows(j) : q = r
    BY <2>1, CutOver
  <2>3. \A d \in Consoles : j \notin sweep[d].plan
    BY <2>1 DEF JobInv, Plans
  <2>4. r \in DOMAIN rows /\ rows'[r].status = "failed" /\ rows'[r].note = "requeued"
    BY <1>2, <1>3, <1>6, <1>11, <2>1
  <2>5. TasksOf(j)' = TasksOf(j)
    BY DEF TasksOf
  <2>6. ~Alive(j)' /\ ~RunsFirst(j)' /\ ~Early(j)'
    BY <1>1, <1>3, <1>8, <2>2, <2>4, <2>5 DEF Alive, OnTick, RunsFirst, IsRunning, Early
  <2>7. OneNight(j)'
    BY <1>1, <1>3, <1>4, <1>8, <2>2, <2>5, <2>6 DEF JobInv, OneNight, Alive, OnTick
  <2>8. NightAlone(j)'
    BY <2>6 DEF NightAlone
  <2>9. OneAgain(j)'
    BY <1>1, <1>3, <1>8, <2>5 DEF JobInv, OneAgain
  <2>10. ASSUME i \notin off, ~Superseded(i), j \in run.done
         PROVE  j \in lock /\ Again(j) = {} /\ \A t \in TasksOf(j) : ~Pending(t)
    <3>1. j \in lock /\ \A t \in TasksOf(j) : ~Pending(t)
      BY <1>11, <2>1, <2>10 DEF JobInv, Plans
    <3>2. ASSUME NEW q \in Again(j) PROVE FALSE
      <4>1. q \in RowsOf(j) /\ rows[q].trigger # "initial"
        BY <3>2 DEF Again
      <4>2. \A p \in CutOff(j) : p < q
        <5>1. \A p \in CutOff(j) : p \in NightRows(j)
          BY DEF CutOff, NightRows
        <5> QED BY <3>2, <5>1 DEF JobInv, OneAgain
      <4> QED BY <1>11, <2>10, <4>1, <4>2 DEF Superseded
    <3> QED BY <3>1, <3>2
  <2>11. Plans(j)'
    BY <1>1, <1>3, <1>5, <1>7, <1>8, <1>11, <2>2, <2>3, <2>4, <2>5, <2>10 DEF Plans
  <2> QED BY <2>7, <2>8, <2>9, <2>11 DEF JobInv
<1> QED BY <1>10, <1>11

LEMMA BeginsAgain ==
  ASSUME TypeInv, NEW i \in Jobs, NEW c \in Consoles, NEW inRun,
         Begin(<<c, i, "queued">>, "requeue", inRun, "claiming")
  PROVE  \A s \in Tasks : s # <<c, i, "queued">> => task'[s] = task[s]
BY TaskOf, FewTypesHold DEF Begin, FewTypes

\* A rerun begins while no other is about, and under the lock.
LEMMA RerunBegins ==
  ASSUME TypeInv, NEW j \in Jobs, JobInv(j), NEW c \in Consoles, NEW inRun,
         Begin(<<c, j, "queued">>, "requeue", inRun, "claiming"),
         task[<<c, j, "queued">>].at = "none",
         UNCHANGED <<rows, tick, off>>,
         run'.plan = run.plan, run'.since = run.since, run'.done = run.done,
         ~Alive(j), ~RunsFirst(j), Again(j) = {}, \A s \in TasksOf(j) : ~Pending(s),
         j \in lock',
         \A r \in NightRows(j) : rows[r].note = "cut" => j \notin run.done \/ j \in off,
         \A d \in Consoles : j \in sweep'[d].plan =>
           j \in sweep[d].plan /\ sweep'[d].inRun = sweep[d].inRun /\ sweep[d].inRun
  PROVE  JobInv(j)'
<1> DEFINE t == <<c, j, "queued">>
<1>1. /\ t \in Tasks /\ t \in TasksOf(j) /\ task'[t].at = "claiming" /\ task'[t].kind = "requeue"
      /\ \A s \in Tasks : s # t => task'[s] = task[s]
  BY TaskOf, FewTypesHold DEF Begin, FewTypes, TasksOf
<1> HIDE DEF t
<1>2. TasksOf(j)' = TasksOf(j) /\ \A s \in TasksOf(j) : s \in Tasks
  BY DEF TasksOf
<1>3. /\ \A s \in TasksOf(j) : ~Night(s) /\ ~Night(s)'
      /\ \A s \in TasksOf(j) : Pending(s)' => s = t
      /\ ~OnTick(j) /\ ~OnTick(j)'
  BY <1>1, <1>2 DEF Alive, OnTick, Night, Pending
<1>4. NightRows(j)' = NightRows(j) /\ Again(j)' = Again(j)
  BY SameRows
<1>5. ~Alive(j)' /\ ~RunsFirst(j)' /\ ~Early(j)'
  BY <1>2, <1>3, <1>4 DEF Alive, RunsFirst, IsRunning, Early
<1>6. OneNight(j)'
  BY <1>2, <1>3, <1>4 DEF JobInv, OneNight, OnTick
<1>7. NightAlone(j)'
  BY <1>5 DEF NightAlone
<1>8. OneAgain(j)'
  BY <1>2, <1>3, <1>4 DEF OneAgain
<1>9. Plans(j)'
  BY <1>2, <1>3, <1>4 DEF JobInv, Plans
<1> QED BY <1>6, <1>7, <1>8, <1>9 DEF JobInv

LEMMA JobRequeue ==
  ASSUME TypeInv, RowInv, Named, troubles.lapse = 0, Open, NEW j \in Jobs, JobInv(j),
         NEW c \in Consoles, NEW i \in Jobs, Requeue(c, i)
  PROVE  JobInv(j)'
<1> USE DEF outside
<1> DEFINE t == <<c, i, "queued">>
<1>1. /\ UNCHANGED <<tick, rows, run, off>> /\ sweep[c].plan = {i}
      /\ lock' = IF sweep[c].inRun THEN lock \cup {i} ELSE lock
      /\ jobLease \subseteq jobLease'
  BY DEF Requeue
<1>2. /\ sweep'[c].plan = {} /\ \A d \in Consoles : d # c => sweep'[d] = sweep[d]
  <2> DEFINE s1 == [sweep EXCEPT ![c].plan = {}]
  <2>1. sweep' = [s1 EXCEPT ![c].inRun = FALSE]
    BY DEF Requeue
  <2>2. /\ s1 \in [Consoles -> SweepRec] /\ s1[c].plan = {}
        /\ \A d \in Consoles : d # c => s1[d] = sweep[d]
    BY DEF TypeInv, SweepOK, SweepRec
  <2> HIDE DEF s1
  <2>3. sweep'[c].plan = s1[c].plan /\ \A d \in Consoles : d # c => sweep'[d] = s1[d]
    BY <2>1, <2>2 DEF SweepRec
  <2> QED BY <2>2, <2>3
<1>3. \/ UNCHANGED task
      \/ /\ Begin(t, "requeue", sweep[c].inRun, "claiming") /\ task[t].at = "none"
         /\ sweep[c].inRun => i \notin lock
  BY DEF Requeue, LockFree
<1>4. CASE i # j
  <2>1. \A s \in TasksOf(j) : task'[s] = task[s]
    BY <1>3, <1>4, BeginsAgain DEF TasksOf
  <2>2. \A s \in TasksOf(j) : Night(s)' => Night(s)
    BY <2>1 DEF Night
  <2>3. Alive(j)' => j \in jobLease'
    BY <1>1, <2>2, AliveKeeps
  <2> QED BY <1>1, <1>2, <1>4, <2>1, <2>3, QuietFrame
<1>5. CASE i = j
  <2>1. /\ NightRows(j) # {} /\ \A r \in NightRows(j) : rows[r].note = "requeued"
        /\ \A d \in Consoles : j \in sweep[d].plan => d = c
        /\ ~sweep[c].inRun => j \in lock /\ Again(j) = {} /\ \A s \in TasksOf(j) : ~Pending(s)
    BY <1>1, <1>5 DEF JobInv, Plans
  <2>2. ~Alive(j) /\ ~RunsFirst(j)
    BY <2>1, CutOver
  <2>3. \A d \in Consoles : j \notin sweep'[d].plan
    BY <1>2, <2>1
  <2>4. CASE UNCHANGED task
    <3>1. /\ NightRows(j)' = NightRows(j) /\ Again(j)' = Again(j) /\ TasksOf(j)' = TasksOf(j)
      BY <1>1, SameRows DEF TasksOf
    <3>2. \A s \in TasksOf(j) : /\ Night(s)' <=> Night(s)
                                /\ Pending(s)' <=> Pending(s)
      BY <2>4 DEF Night, Pending
    <3>3. ~Alive(j)' /\ ~RunsFirst(j)' /\ ~Early(j)'
      BY <1>1, <2>2, <3>1, <3>2 DEF Alive, OnTick, RunsFirst, IsRunning, Early
    <3>4. OneNight(j)'
      BY <1>1, <2>4, <3>1, <3>2 DEF JobInv, OneNight, OnTick
    <3>5. NightAlone(j)'
      BY <3>3 DEF NightAlone
    <3>6. OneAgain(j)'
      BY <1>1, <3>1, <3>2 DEF JobInv, OneAgain
    <3>7. Plans(j)'
      BY <1>1, <2>1, <2>3, <3>1 DEF Plans
    <3> QED BY <3>4, <3>5, <3>6, <3>7 DEF JobInv
  <2>5. CASE ~UNCHANGED task
    <3>1. /\ Begin(t, "requeue", sweep[c].inRun, "claiming") /\ task[t].at = "none"
          /\ sweep[c].inRun => i \notin lock
      BY <1>3, <2>5
    <3>2. Again(j) = {} /\ \A s \in TasksOf(j) : ~Pending(s)
      BY <1>5, <2>1, <3>1 DEF JobInv, OneAgain
    <3>3. j \in lock'
      BY <1>1, <1>5, <2>1
    <3> QED BY <1>1, <1>5, <2>1, <2>2, <2>3, <3>1, <3>2, <3>3, RerunBegins
  <2> QED BY <2>4, <2>5
<1> QED BY <1>4, <1>5

LEMMA JobOrphan ==
  ASSUME TypeInv, Open, NEW j \in Jobs, JobInv(j), NEW c \in Consoles, NEW i \in Jobs, Orphan(c, i)
  PROVE  JobInv(j)'
<1> USE DEF outside
<1> DEFINE t == <<c, i, "queued">>
           runs == Lost(i) /\ i \notin off /\ LockFree(i) /\ task[t].at = "none"
<1>1. /\ UNCHANGED <<tick, rows, off>>
      /\ lock' = IF runs THEN lock \cup {i} ELSE lock
      /\ jobLease' = IF runs THEN jobLease \cup {i} ELSE jobLease
      /\ \A d \in Consoles : sweep'[d].plan = sweep[d].plan /\ sweep'[d].inRun = sweep[d].inRun
  BY DEF Orphan, TypeInv, SweepOK, SweepRec
<1>2. IF runs THEN Begin(t, "requeue", TRUE, "claiming") ELSE UNCHANGED task
  BY DEF Orphan
<1>3. /\ run'.plan = run.plan /\ run'.since = run.since
      /\ \/ run'.done = run.done
         \/ ~runs /\ Lost(i) /\ i \in off /\ run'.done = run.done \cup {i}
      /\ runs => run'.done = run.done
  <2>1. CASE runs
    <3>1. run' = Extended
      BY <2>1 DEF Orphan
    <3> QED BY <3>1, RunExtended
  <2>2. CASE ~runs /\ Lost(i) /\ i \in off
    <3>1. run' = DoneWith(i)
      BY <2>2 DEF Orphan
    <3> HIDE DEF runs
    <3> QED BY <2>2, <3>1, RunDone
  <2>3. CASE ~runs /\ ~(Lost(i) /\ i \in off)
    <3>1. run' = run
      BY <2>3 DEF Orphan
    <3> QED BY <2>3, <3>1
  <2> QED BY <2>1, <2>2, <2>3
<1>4. runs => Lost(i) /\ i \notin off /\ i \notin lock /\ task[t].at = "none"
  BY DEF LockFree
<1> HIDE DEF runs
<1>5. Lost(j) => ~Alive(j) /\ ~RunsFirst(j) /\ ~Early(j)
  <2>1. \A r \in NightRows(j) : r \in RunRows(j)
    BY DEF JobInv, OneNight, RunRows, NightRows
  <2>2. Lost(j) => ~Alive(j) /\ ~RunsFirst(j)
    BY <2>1 DEF Lost, JobInv, NightAlone, RunsFirst
  <2> QED BY <2>2 DEF Early, Alive
<1>6. CASE i # j \/ (~runs /\ run'.done = run.done)
  <2>1. \A s \in TasksOf(j) : task'[s] = task[s]
    <3>1. CASE runs
      <4>1. i # j /\ \A s \in Tasks : s # t => task'[s] = task[s]
        BY <1>2, <1>6, <3>1, BeginsAgain
      <4> QED BY <4>1 DEF TasksOf
    <3>2. CASE ~runs
      BY <1>2, <3>2
    <3> QED BY <3>1, <3>2
  <2>2. \A s \in TasksOf(j) : Night(s)' => Night(s)
    BY <2>1 DEF Night
  <2>3. Alive(j)' => j \in jobLease'
    BY <1>1, <2>2, AliveKeeps
  <2> QED BY <1>1, <1>3, <1>6, <2>1, <2>3, QuietFrame
<1>7. CASE i = j /\ runs
  <2>1. ~Alive(j) /\ ~RunsFirst(j)
    BY <1>4, <1>5, <1>7
  <2>2. Again(j) = {} /\ \A s \in TasksOf(j) : ~Pending(s)
    BY <1>4, <1>7 DEF JobInv, OneAgain
  <2>3. \A r \in NightRows(j) : rows[r].note = "cut" => j \notin run.done \/ j \in off
    BY <1>4, <1>7 DEF JobInv, Plans
  <2>4. \A d \in Consoles : j \in sweep'[d].plan =>
           j \in sweep[d].plan /\ sweep'[d].inRun = sweep[d].inRun /\ sweep[d].inRun
    BY <1>1, <1>4, <1>7 DEF JobInv, Plans
  <2>5. j \in lock' /\ Begin(t, "requeue", TRUE, "claiming") /\ task[t].at = "none"
    BY <1>1, <1>2, <1>4, <1>7
  <2> QED BY <1>1, <1>3, <1>7, <2>1, <2>2, <2>3, <2>4, <2>5, RerunBegins
<1>8. CASE i = j /\ ~runs /\ Lost(i) /\ i \in off
  <2>1. UNCHANGED <<task, rows, tick, lock, jobLease>>
    BY <1>1, <1>2, <1>8
  <2>2. /\ NightRows(j)' = NightRows(j) /\ Again(j)' = Again(j)
        /\ \A r \in NightRows(j) : rows'[r] = rows[r]
    BY <2>1, SameRows
  <2>3. \A s \in TasksOf(j) : /\ task'[s] = task[s] /\ (Night(s)' <=> Night(s))
                              /\ AgainTask(s)' <=> AgainTask(s)
                              /\ Pending(s)' <=> Pending(s)
    BY <2>1 DEF Night, AgainTask, Pending
  <2>4. Alive(j)' => j \in jobLease'
    BY <2>1, <2>3, AliveKeeps
  <2>5. Frame(j)
    BY <1>1, <1>3, <2>1, <2>2, <2>3, <2>4 DEF Frame
  <2>6. Settled(j)'
    BY <1>1, <1>5, <1>8, <2>5, FrameOf DEF Settled
  <2> QED BY <2>5, <2>6, FrameKeeps
<1> QED BY <1>3, <1>6, <1>7, <1>8

LEMMA JobStop ==
  ASSUME TypeInv, Open, NEW j \in Jobs, JobInv(j), NEW c \in Consoles, Stop(c)
  PROVE  JobInv(j)'
<1>1. /\ UNCHANGED <<rows, run, jobLease, lock, off>>
      /\ \A s \in TasksOf(j) : task'[s] = task[s] \/ task'[s] = Idle
      /\ \A d \in Consoles : j \in tick'[d] => j \in tick[d]
      /\ \A d \in Consoles : j \in sweep'[d].plan => j \in sweep[d].plan /\ sweep'[d].inRun = sweep[d].inRun
  BY DEF Stop, TypeInv, TickOK, SweepOK, SweepRec, NoSweep, TasksOf
<1>2. \A s \in TasksOf(j) : Night(s)' => Night(s)
  BY <1>1 DEF Night, Idle
<1> QED BY <1>1, <1>2, AliveKeeps, QuietFrame

LEMMA JobExpire ==
  ASSUME TypeInv, Open, NEW j \in Jobs, JobInv(j), NEW i \in Jobs, ExpireJob(i)
  PROVE  JobInv(j)'
<1>1. /\ UNCHANGED <<task, tick, sweep, rows, run, lock, off>>
      /\ jobLease' = jobLease \ {i} /\ ~HoldsJob(i)
  BY DEF ExpireJob, outside
<1>2. Alive(j)' => j \in jobLease'
  <2>1. TasksOf(j)' = TasksOf(j) /\ \A s \in TasksOf(j) : Night(s)' => Night(s)
    BY <1>1 DEF TasksOf, Night
  <2>2. Alive(j) => HoldsJob(j)
    <3>1. CASE OnTick(j)
      BY <3>1 DEF OnTick, HoldsJob
    <3>2. ASSUME NEW s \in TasksOf(j), Night(s) PROVE HoldsJob(j)
      <4>1. task[s].inRun /\ s = <<s[1], j, "queued">> /\ s[1] \in Consoles
        BY <3>2, TaskParts DEF JobInv, OneNight, TasksOf
      <4> QED BY <4>1 DEF HoldsJob
    <3> QED BY <3>1, <3>2 DEF Alive
  <2>3. Alive(j)' => Alive(j)
    BY <1>1, <2>1 DEF Alive, OnTick
  <2>4. Alive(j) => j \in jobLease
    BY DEF JobInv, NightAlone
  <2> QED BY <1>1, <2>2, <2>3, <2>4
<1> QED BY <1>1, <1>2, QuietFrame

-------------------------------------------------------------------------------
(* JobInv: every step of an open run, and the step that opens it. *)

\* A step that starts nothing and reports nothing.
LEMMA JobQuiet ==
  ASSUME NEW j \in Jobs, JobInv(j), UNCHANGED <<task, tick, rows, lock>>,
         run'.plan = run.plan, run'.since = run.since, run'.done = run.done,
         off \subseteq off', jobLease \subseteq jobLease',
         \A c \in Consoles : sweep'[c].plan = sweep[c].plan /\ sweep'[c].inRun = sweep[c].inRun
  PROVE  JobInv(j)'
<1>1. \A t \in TasksOf(j) : Night(t)' => Night(t)
  BY DEF Night
<1>2. Alive(j)' => j \in jobLease'
  BY <1>1, AliveKeeps
<1> QED BY <1>2, QuietFrame

\* One step per action.
LEMMA JobStep ==
  ASSUME TypeInv, RowInv, Named, troubles.lapse = 0, Open, NEW j \in Jobs, JobInv(j),
         [Next]_vars, run'.state = "open", troubles'.lapse = 0
  PROVE  JobInv(j)'
<1> USE DEF redis, outside
<1>1. ASSUME NEW c \in Consoles, TickStep(c) PROVE JobInv(j)'
  <2>1. ~OpenRun(c)
    BY DEF OpenRun, Open
  <2> QED BY <1>1, <2>1, JobSkip, JobStartNightly DEF TickStep
<1>2. ASSUME NEW c \in Consoles, SweepStart(c) \/ SweepOrphans(c) PROVE JobInv(j)'
  <2>1. UNCHANGED <<task, tick, rows, lock, run, off, jobLease>>
    BY <1>2 DEF SweepStart, SweepOrphans
  <2>2. \A d \in Consoles : sweep'[d].plan = sweep[d].plan /\ sweep'[d].inRun = sweep[d].inRun
    <3>1. CASE SweepStart(c)
      BY <3>1 DEF SweepStart, TypeInv, SweepOK, SweepRec
    <3>2. CASE SweepOrphans(c)
      BY <3>2 DEF SweepOrphans, TypeInv, SweepOK, SweepRec
    <3> QED BY <1>2, <3>1, <3>2
  <2> QED BY <2>1, <2>2, JobQuiet
<1>3. ASSUME NEW c \in Consoles, SweepStep(c) PROVE JobInv(j)'
  BY <1>2, <1>3, JobReap, JobPlan, JobRequeue, JobOrphan DEF SweepStep
<1>4. ASSUME NEW t \in Tasks, TaskStep(t) PROVE JobInv(j)'
  BY <1>4, JobTakeClaim, JobInsertRow, JobLeaseRow, JobWriteOutcome, JobReport, JobEnd
     DEF TaskStep
<1>5. ASSUME NEW c \in Consoles, NEW i \in Jobs, StartManual(c, i) \/ StartFirst(c, i)
      PROVE JobInv(j)'
  BY <1>5, JobByHand
<1>6. ASSUME NEW c \in Consoles, Stop(c) PROVE JobInv(j)'
  BY <1>6, JobStop
<1>7. ASSUME NEW c \in Consoles, Lapse(c) PROVE FALSE
  BY <1>7, OtherTrouble DEF Lapse, Troubles
<1>8. ASSUME NEW c \in Consoles, FinishRun(c) PROVE FALSE
  BY <1>8 DEF FinishRun, TypeInv, RunOK
<1>9. ASSUME NEW c \in Consoles, Restart(c) PROVE JobInv(j)'
  BY <1>9, JobQuiet DEF Restart
<1>10. ASSUME NEW i \in Jobs, SwitchOff(i) PROVE JobInv(j)'
  BY <1>10, JobQuiet DEF SwitchOff
<1>11. CASE Later
  <2>1. run'.plan = run.plan /\ run'.since = run.since /\ run'.done = run.done
    BY <1>11 DEF Later, TypeInv, RunOK
  <2> QED BY <1>11, <2>1, JobQuiet DEF Later
<1>12. CASE Expire
  <2>1. ASSUME NEW r \in DOMAIN rows, ExpireRow(r) PROVE JobInv(j)'
    BY <2>1, JobQuiet DEF ExpireRow
  <2>2. ASSUME NEW i \in Jobs, ExpireClaim(i) PROVE JobInv(j)'
    BY <2>2, JobQuiet DEF ExpireClaim
  <2> QED BY <1>12, <2>1, <2>2, JobExpire DEF Expire
<1>13. CASE BeatStep
  <2>1. UNCHANGED <<task, tick, rows, lock, run, off, sweep>> /\ jobLease \subseteq jobLease'
    BY <1>13 DEF BeatStep, Beat
  <2> QED BY <2>1, JobQuiet
<1>14. CASE UNCHANGED vars
  BY <1>14, JobQuiet DEF vars
<1> QED
  BY <1>1, <1>3, <1>4, <1>5, <1>6, <1>7, <1>8, <1>9, <1>10, <1>11, <1>12, <1>13, <1>14 DEF Next

\* The run is opened on a clean slate.
LEMMA JobOpened ==
  ASSUME TypeInv, Unopened, NEW c \in Consoles, OpenRun(c), NEW j \in Jobs
  PROVE  JobInv(j)'
<1> USE DEF outside
<1>1. UNCHANGED <<task, sweep, rows, lock>>
  BY DEF OpenRun
<1>2. /\ NightRows(j)' = {} /\ Again(j)' = {}
      /\ \A t \in Tasks : ~Night(t)' /\ ~AgainTask(t)' /\ ~Pending(t)'
      /\ \A d \in Consoles : j \notin sweep'[d].plan
      /\ j \notin lock'
  BY <1>1 DEF Unopened, NightRows, Again, RowsOf, Night, AgainTask, Pending
<1>3. run'.plan = Jobs \ off /\ run'.done = {}
  BY RunOpened DEF OpenRun, Unopened, TypeInv, RunOK
<1>4. /\ \A d \in Consoles : j \in tick'[d] => d = c /\ j \in jobLease'
  BY DEF OpenRun, Unopened, TypeInv, TickOK
<1>5. /\ TasksOf(j)' \subseteq Tasks
  BY DEF TasksOf
<1>6. ~RunsFirst(j)' /\ (Alive(j)' => j \in jobLease')
  BY <1>2, <1>4, <1>5 DEF RunsFirst, Alive, OnTick
<1>7. OneNight(j)'
  BY <1>2, <1>4, <1>5 DEF OneNight, OnTick
<1>8. NightAlone(j)'
  BY <1>2, <1>3, <1>5, <1>6 DEF NightAlone
<1>9. OneAgain(j)'
  BY <1>2, <1>5 DEF OneAgain
<1>10. Plans(j)'
  BY <1>2, <1>3 DEF Plans
<1> QED BY <1>7, <1>8, <1>9, <1>10 DEF JobInv

-------------------------------------------------------------------------------
(* Before and after the run is open. *)

\* The run is opened once and never again.
LEMMA RunMoves ==
  ASSUME TypeInv, [Next]_vars
  PROVE  \/ run'.state = run.state
         \/ \E c \in Consoles : OpenRun(c)
         \/ run'.state = "closed"
<1> USE DEF outside
<1> DEFINE Same == run'.state = run.state
<1>1. ASSUME NEW j \in Jobs, run' = DoneWith(j) PROVE Same
  BY <1>1 DEF DoneWith, TypeInv, RunOK
<1>2. ASSUME run' = Extended PROVE Same
  BY <1>2 DEF Extended, TypeInv, RunOK
<1>3. ASSUME run' = run PROVE Same
  BY <1>3
<1>4. ASSUME NEW t \in Tasks, NEW kind, NEW inRun, Claim(t, kind, inRun) PROVE Same
  <2>1. t[2] \in Jobs
    BY TaskParts
  <2>2. run' = run \/ run' = DoneWith(t[2])
    BY <1>4 DEF Claim
  <2> QED BY <1>1, <1>3, <2>1, <2>2
<1> HIDE DEF Same
<1>5. ASSUME NEW c \in Consoles, NEW j \in Jobs, SkipInRun(c, j) PROVE Same
  BY <1>1, <1>5 DEF SkipInRun
<1>6. ASSUME NEW c \in Consoles, NEW j \in Jobs,
             StartNightly(c, j) \/ StartManual(c, j) \/ StartFirst(c, j)
      PROVE  Same
  <2>1. <<c, j, "queued">> \in Tasks /\ <<c, j, "manual">> \in Tasks
    BY TaskOf
  <2>2. CASE StartNightly(c, j)
    <3>1. CASE Free(j)
      BY <1>4, <2>1, <2>2, <3>1 DEF StartNightly
    <3>2. CASE ~Free(j)
      BY <1>3, <2>2, <3>2 DEF StartNightly
    <3> QED BY <3>1, <3>2
  <2>3. CASE StartManual(c, j)
    BY <1>4, <2>1, <2>3 DEF StartManual
  <2>4. CASE StartFirst(c, j)
    BY <1>4, <2>1, <2>4 DEF StartFirst
  <2> QED BY <1>6, <2>2, <2>3, <2>4
<1>7. ASSUME NEW t \in Tasks, TaskStep(t) PROVE Same
  <2>1. CASE TakeClaim(t)
    BY <1>4, <2>1 DEF TakeClaim
  <2>2. CASE Report(t)
    <3>1. t[2] \in Jobs
      BY TaskParts
    <3>2. run' = run \/ run' = DoneWith(t[2])
      BY <2>2 DEF Report
    <3> QED BY <1>1, <1>3, <3>1, <3>2
  <2>3. CASE InsertRow(t) \/ LeaseRow(t) \/ WriteOutcome(t) \/ End(t)
    BY <1>3, <2>3 DEF InsertRow, LeaseRow, WriteOutcome, End
  <2> QED BY <1>7, <2>1, <2>2, <2>3 DEF TaskStep
<1>8. ASSUME NEW c \in Consoles, NEW j \in Jobs, PlanRequeue(c, j) PROVE Same
  <2>1. CASE Open /\ run' = [Extended EXCEPT !.done = @ \cup {j}]
    BY <2>1, RunGivenUp DEF Same
  <2>2. CASE run' = run \/ run' = Extended
    BY <1>2, <1>3, <2>2
  <2> QED BY <1>8, <2>1, <2>2 DEF PlanRequeue
<1>9. ASSUME NEW c \in Consoles, NEW j \in Jobs, Orphan(c, j) PROVE Same
  <2>1. run' = run \/ run' = Extended \/ run' = DoneWith(j)
    BY <1>9 DEF Orphan
  <2> QED BY <1>1, <1>2, <1>3, <2>1
<1>10. ASSUME NEW c \in Consoles, SweepStep(c) PROVE Same
  BY <1>3, <1>8, <1>9, <1>10 DEF SweepStep, SweepStart, SweepOrphans, Reap, Requeue
<1>11. CASE Later
  BY <1>11 DEF Later, TypeInv, RunOK
<1>12. ASSUME NEW c \in Consoles, FinishRun(c) PROVE run'.state = "closed"
  BY <1>12 DEF FinishRun, TypeInv, RunOK
<1>13. ASSUME NEW c \in Consoles, Stop(c) \/ Restart(c) \/ Lapse(c) PROVE Same
  BY <1>3, <1>13 DEF Stop, Restart, Lapse
<1>14. CASE Expire \/ BeatStep \/ UNCHANGED vars
  BY <1>14 DEF Expire, ExpireRow, ExpireJob, ExpireClaim, BeatStep, vars
<1>15. ASSUME NEW j \in Jobs, SwitchOff(j) PROVE Same
  BY <1>3, <1>15 DEF SwitchOff
<1> QED
  BY <1>5, <1>6, <1>7, <1>10, <1>11, <1>12, <1>13, <1>14, <1>15 DEF Next, TickStep, Same

\* Only Lapse counts as a lapse, and it is never taken back.
LEMMA LapseStays ==
  ASSUME TypeInv, [Next]_vars, troubles'.lapse = 0 PROVE troubles.lapse = 0
<1> USE DEF outside, Troubles
<1>1. ASSUME NEW k \in Troubles, Trouble(k) PROVE troubles.lapse = 0
  BY <1>1, OtherTrouble
<1>2. ASSUME NEW c \in Consoles, TickStep(c) PROVE UNCHANGED troubles
  BY <1>2 DEF TickStep, OpenRun, SkipInRun, StartNightly
<1>3. ASSUME NEW c \in Consoles, SweepStep(c) PROVE UNCHANGED troubles
  BY <1>3 DEF SweepStep, SweepStart, SweepOrphans, Reap, PlanRequeue, Requeue, Orphan
<1>4. ASSUME NEW t \in Tasks, TaskStep(t) PROVE UNCHANGED troubles
  BY <1>4 DEF TaskStep, TakeClaim, InsertRow, LeaseRow, WriteOutcome, Report, End
<1>5. CASE Later \/ Expire \/ BeatStep \/ UNCHANGED vars
  BY <1>5 DEF Later, Expire, ExpireRow, ExpireJob, ExpireClaim, BeatStep, vars
<1>6. ASSUME NEW c \in Consoles, FinishRun(c) \/ Restart(c) PROVE UNCHANGED troubles
  BY <1>6 DEF FinishRun, Restart
<1>7. ASSUME NEW c \in Consoles, Stop(c) \/ Lapse(c) PROVE troubles.lapse = 0
  BY <1>1, <1>7 DEF Stop, Lapse
<1>8. ASSUME NEW c \in Consoles, NEW j \in Jobs,
             StartManual(c, j) \/ StartFirst(c, j) \/ SwitchOff(j)
      PROVE troubles.lapse = 0
  BY <1>1, <1>8 DEF StartManual, StartFirst, SwitchOff
<1>9. ASSUME NEW j \in Jobs, SwitchOff(j) PROVE troubles.lapse = 0
  BY <1>1, <1>9 DEF SwitchOff
<1> QED BY <1>2, <1>3, <1>4, <1>5, <1>6, <1>7, <1>8, <1>9 DEF Next

\* Before the run is open, nothing of it is about.
LEMMA UnopenedStep ==
  ASSUME TypeInv, Unopened, run.state = "none", [Next]_vars, run'.state = "none"
  PROVE  Unopened'
<1> USE FewTypesHold DEF outside
<1> DEFINE Plain(t) == task'[t] = task[t] \/ task'[t] = Idle
                       \/ task'[t].kind \in {"manual", "initial"}
<1>1. ASSUME \A t \in Tasks : Plain(t)
      PROVE  \A t \in Tasks : ~Night(t)' /\ ~AgainTask(t)'
  BY <1>1 DEF Unopened, Night, AgainTask, Idle
<1>2. ~Open
  BY DEF Open
<1>3. ASSUME \A t \in Tasks : Plain(t), UNCHANGED <<rows, lock, run, tick>>,
             \A d \in Consoles : sweep'[d].plan = {} /\ sweep'[d].jobs = {}
      PROVE  Unopened'
  BY <1>1, <1>3 DEF Unopened
<1>4. ASSUME NEW t \in Tasks, NEW kind, NEW inRun, Claim(t, kind, inRun),
             kind \in {"manual", "initial"} \/ (task[t].at # "none" /\ kind = task[t].kind)
      PROVE  (\A s \in Tasks : Plain(s)) /\ run' = run
  <2>1. kind \in Kinds => kind \in {"manual", "initial"}
    BY <1>4 DEF Unopened, Night, AgainTask, Kinds
  <2>2. task[t].kind \in Kinds
    BY DEF FewTypes, TaskRec
  <2> QED BY <1>2, <1>4, <2>1, <2>2 DEF Claim, Begin, DoneWith, FewTypes
<1>5. ASSUME UNCHANGED sweep PROVE \A d \in Consoles : sweep'[d].plan = {} /\ sweep'[d].jobs = {}
  BY <1>5 DEF Unopened
<1>6. ASSUME NEW c \in Consoles, TickStep(c) PROVE FALSE
  <2>1. ~OpenRun(c)
    BY DEF OpenRun, TypeInv, RunOK
  <2> QED BY <1>6, <2>1 DEF TickStep, SkipInRun, StartNightly, Unopened
<1>7. ASSUME NEW c \in Consoles, NEW j \in Jobs, StartManual(c, j) \/ StartFirst(c, j)
      PROVE  Unopened'
  <2>1. UNCHANGED <<rows, lock, tick, sweep>> /\ run' = run
    <3>1. UNCHANGED <<rows, lock, tick, sweep>>
      BY <1>7 DEF StartManual, StartFirst
    <3>2. run' = run
      BY <1>2, <1>7 DEF StartManual, StartFirst, Claim, DoneWith
    <3> QED BY <3>1, <3>2
  <2>2. \A s \in Tasks : Plain(s)
    <3>1. <<c, j, "queued">> \in Tasks /\ <<c, j, "manual">> \in Tasks
      BY TaskOf
    <3>2. CASE StartManual(c, j)
      <4> DEFINE t == <<c, j, "manual">>
      <4>1. Claim(t, "manual", FALSE)
        BY <3>2 DEF StartManual
      <4>2. t \in Tasks
        BY <3>1
      <4> HIDE DEF t
      <4>3. /\ task'[t].kind \in {"manual", "initial"}
            /\ \A s \in Tasks : s # t => task'[s] = task[s]
        BY <4>1, <4>2 DEF Claim, Begin, FewTypes
      <4> QED BY <4>3
    <3>3. CASE StartFirst(c, j)
      <4> DEFINE t == <<c, j, "queued">>
      <4>1. Claim(t, "initial", FALSE)
        BY <3>3 DEF StartFirst
      <4>2. t \in Tasks
        BY <3>1
      <4> HIDE DEF t
      <4>3. /\ task'[t].kind \in {"manual", "initial"}
            /\ \A s \in Tasks : s # t => task'[s] = task[s]
        BY <4>1, <4>2 DEF Claim, Begin, FewTypes
      <4> QED BY <4>3
    <3> QED BY <1>7, <3>2, <3>3
  <2> HIDE DEF Plain
  <2> QED BY <1>3, <1>5, <2>1, <2>2
<1>8. ASSUME NEW t \in Tasks, TaskStep(t) PROVE Unopened'
  <2>1. CASE TakeClaim(t)
    BY <1>3, <1>4, <1>5, <2>1 DEF TakeClaim
  <2>2. CASE InsertRow(t)
    <3> DEFINE v == [job |-> t[2], trigger |-> task[t].kind, status |-> "running", note |-> "none"]
    <3>1. /\ UNCHANGED <<tick, sweep, lock, run>> /\ rows \in Seq(RowRec) /\ rows' = Append(rows, v)
          /\ task[t].at # "none"
      BY <2>2 DEF InsertRow, redis, TypeInv, RowsOK
    <3>2. task'[t].kind = task[t].kind /\ \A s \in Tasks : s # t => task'[s] = task[s]
      BY <2>2 DEF InsertRow, FewTypes, TaskRec
    <3>3. v.trigger = task[t].kind /\ task[t].kind \notin {"nightly", "requeue"}
      BY <3>1 DEF Unopened, Night, AgainTask
    <3> HIDE DEF v
    <3>4. \A r \in DOMAIN rows' : (r \in DOMAIN rows /\ rows'[r] = rows[r]) \/ rows'[r] = v
      BY <3>1
    <3> QED BY <3>1, <3>2, <3>3, <3>4 DEF Unopened, Night, AgainTask
  <2>3. CASE LeaseRow(t) \/ Report(t)
    <3>1. UNCHANGED <<rows, lock, tick, sweep>> /\ task[t].at # "none"
      BY <2>3 DEF LeaseRow, Report, redis
    <3>2. run' = run
      BY <1>2, <2>3 DEF LeaseRow, Report, DoneWith
    <3>3. /\ task'[t].kind = task[t].kind
          /\ \A s \in Tasks : s # t => task'[s] = task[s]
      BY <2>3 DEF LeaseRow, Report, Step, FewTypes, TaskRec
    <3> QED BY <3>1, <3>2, <3>3 DEF Unopened, Night, AgainTask
  <2>4. CASE WriteOutcome(t)
    <3>1. UNCHANGED <<lock, tick, sweep, run>> /\ task[t].at # "none"
      BY <2>4 DEF WriteOutcome
    <3>2. /\ task'[t].kind = task[t].kind
          /\ \A s \in Tasks : s # t => task'[s] = task[s]
      BY <2>4 DEF WriteOutcome, Step, FewTypes, TaskRec
    <3>3. /\ task[t].row \in DOMAIN rows /\ rows \in Seq(RowRec)
      BY <2>4 DEF WriteOutcome, TypeInv, TaskOK, RowsOK
    <3>4. \A r \in DOMAIN rows' : r \in DOMAIN rows /\ rows'[r].trigger = rows[r].trigger
      BY <2>4, <3>3, RowAt DEF WriteOutcome, TypeInv, RowRec
    <3> QED BY <3>1, <3>2, <3>4 DEF Unopened, Night, AgainTask
  <2>5. CASE End(t)
    BY <1>3, <1>5, <2>5 DEF End, FewTypes
  <2> QED BY <1>8, <2>1, <2>2, <2>3, <2>4, <2>5 DEF TaskStep
<1>9. ASSUME NEW c \in Consoles, NEW r \in DOMAIN rows, Reap(c, r) PROVE Unopened'
  <2>1. UNCHANGED <<task, lock, tick, run>>
    BY <1>9 DEF Reap, redis
  <2>2. \A d \in Consoles : sweep'[d].plan = sweep[d].plan /\ sweep'[d].jobs = sweep[d].jobs
    BY <1>9 DEF Reap, TypeInv, SweepOK, SweepRec
  <2>3. \A q \in DOMAIN rows' : q \in DOMAIN rows /\ rows'[q].trigger = rows[q].trigger
    BY <1>9, RowAt DEF Reap, TypeInv, RowRec
  <2> QED BY <2>1, <2>2, <2>3 DEF Unopened, Night, AgainTask
<1>10. ASSUME NEW c \in Consoles, NEW j \in Jobs, PlanRequeue(c, j) \/ Requeue(c, j) \/ Orphan(c, j)
       PROVE FALSE
  <2>1. CutOff(j) = {}
    BY DEF CutOff, RowsOf, Unopened
  <2> QED BY <1>10, <2>1 DEF PlanRequeue, Requeue, Orphan, Unopened
<1>11. ASSUME NEW c \in Consoles, SweepStart(c) PROVE Unopened'
  <2>1. UNCHANGED <<task, rows, lock, tick, run>>
    BY <1>11 DEF SweepStart, redis
  <2>2. \A d \in Consoles : sweep'[d].plan = sweep[d].plan /\ sweep'[d].jobs = sweep[d].jobs
    BY <1>11 DEF SweepStart, TypeInv, SweepOK, SweepRec
  <2> QED BY <2>1, <2>2 DEF Unopened, Night, AgainTask
<1>12. ASSUME NEW c \in Consoles, SweepStep(c) PROVE Unopened'
  BY <1>2, <1>9, <1>10, <1>11, <1>12 DEF SweepStep, SweepOrphans
<1>13. ASSUME NEW c \in Consoles, Stop(c) PROVE Unopened'
  <2>1. UNCHANGED <<rows, lock, run>> /\ \A t \in Tasks : Plain(t)
    BY <1>13 DEF Stop
  <2>2. \A d \in Consoles : sweep'[d].plan = {} /\ sweep'[d].jobs = {} /\ tick'[d] = {}
    BY <1>13 DEF Stop, TypeInv, SweepOK, TickOK, NoSweep, Unopened
  <2> QED BY <1>1, <2>1, <2>2 DEF Unopened
<1>14. ASSUME NEW c \in Consoles, FinishRun(c) PROVE FALSE
  BY <1>2, <1>14 DEF FinishRun
<1>15. ASSUME UNCHANGED <<task, tick, sweep, rows, lock, run>> PROVE Unopened'
  BY <1>3, <1>5, <1>15
<1>16. ASSUME NEW c \in Consoles, Restart(c) \/ Lapse(c) PROVE Unopened'
  BY <1>15, <1>16 DEF Restart, Lapse, redis
<1>17. ASSUME NEW j \in Jobs, SwitchOff(j) PROVE Unopened'
  BY <1>15, <1>17 DEF SwitchOff, redis
<1>18. CASE Expire \/ UNCHANGED vars
  BY <1>15, <1>18 DEF Expire, ExpireRow, ExpireJob, ExpireClaim, redis, vars
<1>19. CASE BeatStep
  BY <1>15, <1>19 DEF BeatStep, Beat
<1>20. CASE Later
  BY <1>2, <1>20 DEF Later
<1> QED
  BY <1>6, <1>7, <1>8, <1>12, <1>13, <1>14, <1>16, <1>17, <1>18, <1>19, <1>20 DEF Next

LEMMA OnceStep ==
  ASSUME TypeInv, RowInv, Named, OnceInv, [Next]_vars PROVE OnceInv'
<1>1. ASSUME run'.state = "none" PROVE Unopened'
  <2>1. run.state = "none"
    BY <1>1, RunMoves DEF OpenRun, TypeInv, RunOK
  <2> QED BY <1>1, <2>1, UnopenedStep DEF OnceInv
<1>2. ASSUME troubles'.lapse = 0, run'.state = "open", NEW j \in Jobs PROVE JobInv(j)'
  <2>1. troubles.lapse = 0
    BY <1>2, LapseStays
  <2>2. CASE Open
    BY <1>2, <2>1, <2>2, JobStep DEF OnceInv
  <2>3. CASE ~Open
    <3>1. PICK c \in Consoles : OpenRun(c)
      BY <1>2, <2>3, RunMoves DEF Open
    <3> QED BY <1>2, <3>1, JobOpened DEF OnceInv, OpenRun
  <2> QED BY <2>2, <2>3
<1> QED BY <1>1, <1>2 DEF OnceInv, Open

LEMMA OnceInit == Init => OnceInv /\ Named
BY DEF Init, OnceInv, Named, Unopened, Open, Idle, NoSweep, Night, AgainTask

LEMMA OnceHolds == OnceInv => RequeuedOnce
<1> SUFFICES ASSUME OnceInv, Open, troubles.lapse = 0, NEW j \in Jobs
             PROVE  Cardinality({r \in RowsOf(j) : rows[r].trigger = "requeue"}) <= 1
  BY DEF RequeuedOnce
<1>1. Again(j) = {r \in RowsOf(j) : rows[r].trigger = "requeue"}
  BY DEF Again
<1>2. \A r, q \in Again(j) : r = q
  BY DEF OnceInv, JobInv, OneAgain
<1>3. CASE Again(j) = {}
  <2>1. Cardinality({}) = 0
    BY FS_EmptySet
  <2>2. Cardinality(Again(j)) = 0
    BY <1>3, <2>1
  <2> QED BY <1>1, <2>2
<1>4. ASSUME NEW r \in Again(j) PROVE Cardinality(Again(j)) <= 1
  <2>1. Again(j) = {r}
    BY <1>2, <1>4
  <2> QED BY <2>1, FS_Singleton
<1> QED BY <1>1, <1>3, <1>4

-------------------------------------------------------------------------------
(* The theorems. *)

Inv == TypeInv /\ ClaimInv /\ RowInv

LEMMA InvInit == Init => Inv
<1> SUFFICES ASSUME Init PROVE Inv
  OBVIOUS
<1>1. \A t \in Tasks : task[t] = Idle
  BY DEF Init
<1>2. ClaimInv /\ RowInv
  BY <1>1 DEF ClaimInv, RowInv, Claimed, Works, Idle
<1>3. TickOK /\ TaskOK /\ RowsOK /\ KeysOK
  BY <1>1 DEF Init, TickOK, TaskOK, RowsOK, KeysOK, Up, Idle, Nobody, Places, Kinds
<1>4. SweepOK /\ RunOK
  BY DEF Init, SweepOK, SweepRec, NoSweep, RunOK, Up
<1>5. RestOK
  BY DEF Init, RestOK
<1> QED BY <1>2, <1>3, <1>4, <1>5 DEF Inv, TypeInv

LEMMA InvStep == Inv /\ [Next]_vars => Inv'
BY TypeStep, ClaimStep, RowStep DEF Inv

\* The state of a run has its types: a console that is down does nothing, a claim is its
\* job's, and only failed rows carry the reaper's note (tick.ts, reap.ts, requeue.ts).
THEOREM BackupTypeCorrect == BackupSpec => []BackupTypeOK
<1>1. Inv => BackupTypeOK
  BY TypesHold DEF Inv
<1> QED BY <1>1, InvInit, InvStep, PTL DEF BackupSpec

\* Two tasks are never at work on one job, whatever consoles stop and keys expire, while no
\* live console's keys lapse (job-claim.ts:1).
THEOREM OneRunHolds == BackupSpec => []OneRunOfAJob
<1>1. Inv => OneRunOfAJob
  <2> SUFFICES ASSUME Inv, troubles.lapse = 0, NEW s \in Tasks, NEW t \in Tasks,
                      s[2] = t[2], Claimed(s), Claimed(t)
               PROVE  s = t
    BY DEF OneRunOfAJob
  <2>1. Mine(s) = Mine(t)
    BY DEF Inv, ClaimInv
  <2>2. Mine(s).of = s /\ Mine(t).of = t
    BY DEF Mine
  <2> QED BY <2>1, <2>2
<1> QED BY <1>1, InvInit, InvStep, PTL DEF BackupSpec

\* A backup's outcome, once written, stays, and so does the reaper's verdict unless a live
\* console's keys lapsed (reap.ts:41).
THEOREM OutcomeHolds == BackupSpec => OutcomeSticks
<1>1. Inv /\ [Next]_vars =>
        [\A r \in DOMAIN rows : rows[r].status # "running" =>
           \/ rows'[r].status = rows[r].status
           \/ troubles.lapse > 0 /\ rows'[r].status = "finished"]_vars
  BY TheOutcome DEF Inv
<1> QED BY <1>1, InvInit, InvStep, PTL DEF BackupSpec, OutcomeSticks

\* A job is rerun at most once while its run is open, whichever console does it and why,
\* while no live console's keys lapse (requeue.ts:20).
THEOREM RequeuedOnceHolds == BackupSpec => []RequeuedOnce
<1>1. Init => Inv /\ Named /\ OnceInv
  BY InvInit, OnceInit
<1>2. Inv /\ Named /\ OnceInv /\ [Next]_vars => Inv' /\ Named' /\ OnceInv'
  BY InvStep, NamedStep, OnceStep DEF Inv
<1> QED BY <1>1, <1>2, OnceHolds, PTL DEF BackupSpec
===============================================================================
