--------------------------- MODULE DeployQueueProofs ---------------------------
(***************************************************************************)
(* Proofs about the deploy queue, for any number of deploys, scopes,       *)
(* executors and slots: its types, what a step can make of a row, and the  *)
(* safety properties that follow.                                          *)
(***************************************************************************)
EXTENDS DeployQueue, FiniteSetTheorems, TLAPS

\* Enqueue times are numbers: the rows already written are finitely many.
LEMMA NewRowType ==
  ASSUME QueueAssumption, NEW s \in Scopes, NEW k \in Kinds
  PROVE  NewRow(s, k) \in Row
<1> DEFINE written == {x \in Deploys : row[x].status # "absent"}
<1>1. Cardinality(written) \in Nat
  <2>1. written \subseteq Deploys /\ IsFiniteSet(Deploys)
    BY DEF QueueAssumption
  <2> HIDE DEF written
  <2>2. IsFiniteSet(written)
    BY <2>1, FS_Subset
  <2> QED BY <2>2, FS_CardinalityType
<1>2. Cardinality(written) + 1 \in Nat
  BY <1>1
<1> QED
  BY <1>2 DEF NewRow, NoRow, Row, Statuses, Stages, Cancels, Holds

\* applySupersede leaves a row as it is, replaces a queued push, or asks a
\* running push to stop.
LEMMA SupersedeEffect ==
  ASSUME NEW r, NEW d, NEW x \in Deploys
  PROVE  \/ ApplySupersede(r, d)[x] = r[x]
         \/ /\ r[x].status = "queued" /\ x # d
            /\ ApplySupersede(r, d)[x] = Replaced(r[x], d)
         \/ /\ r[x].status = "running" /\ r[x].cancel = "none"
            /\ ApplySupersede(r, d)[x] = ToldToStop(r[x])
BY Zenon DEF ApplySupersede

\* So an enqueue or a release leaves rows in the table.
LEMMA SupersedeType ==
  ASSUME NEW r \in [Deploys -> Row], NEW d \in Deploys
  PROVE  ApplySupersede(r, d) \in [Deploys -> Row]
<1>1. \A x \in Deploys : ApplySupersede(r, d)[x] \in Row
  <2> TAKE x \in Deploys
  <2>1. r[x] \in Row
    OBVIOUS
  <2>2. Replaced(r[x], d) \in Row
    BY <2>1 DEF Replaced, Row, Statuses, Terminal
  <2>3. ToldToStop(r[x]) \in Row
    BY <2>1 DEF ToldToStop, Row, Cancels
  <2> QED
    BY <2>1, <2>2, <2>3, SupersedeEffect, Zenon
<1>2. ApplySupersede(r, d) = [x \in Deploys |-> ApplySupersede(r, d)[x]]
  BY DEF ApplySupersede
<1> QED
  BY <1>1, <1>2

-------------------------------------------------------------------------------
(* Type correctness.  Each statement writes rows of type Row; most write   *)
(* one.                                                                    *)

\* An update of one row by a row keeps the table typed.
LEMMA WriteType ==
  ASSUME TypeOK, NEW d \in Deploys, NEW new \in Row, Write(d, new)
  PROVE  TypeOK'
BY DEF TypeOK, Write

\* A typed table holds rows.
LEMMA RowType ==
  ASSUME TypeOK, NEW d \in Deploys
  PROVE  row[d] \in Row
BY DEF TypeOK

\* Fields set on their own or together keep a row's type.
LEMMA StatusType ==
  ASSUME NEW x \in Row, NEW s \in Statuses
  PROVE  [x EXCEPT !.status = s] \in Row
BY DEF Row

\* A stage written (markStage, enterSwap).
LEMMA StageType ==
  ASSUME NEW x \in Row, NEW s \in Stages
  PROVE  [x EXCEPT !.stage = s] \in Row
BY DEF Row

\* A cancel reason written (requestCancel, dropSupersede, applySupersede).
LEMMA CancelType ==
  ASSUME NEW x \in Row, NEW c \in Cancels
  PROVE  [x EXCEPT !.cancel = c] \in Row
BY DEF Row

\* The exclusive mark written.
LEMMA HoldType ==
  ASSUME NEW x \in Row, NEW h \in Holds
  PROVE  [x EXCEPT !.hold = h] \in Row
BY DEF Row

\* The hold of an enqueued deploy taken or released.
LEMMA HeldType ==
  ASSUME NEW x \in Row, NEW h \in BOOLEAN
  PROVE  [x EXCEPT !.held = h] \in Row
BY DEF Row

\* A lease renewed or lapsed.
LEMMA LiveType ==
  ASSUME NEW x \in Row, NEW l \in BOOLEAN
  PROVE  [x EXCEPT !.live = l] \in Row
BY DEF Row

\* A deploy-slot wait recorded or ended.
LEMMA WaitingType ==
  ASSUME NEW x \in Row, NEW n \in Nat
  PROVE  [x EXCEPT !.waiting = n] \in Row
BY DEF Row

\* A queued row cancelled with its reason.
LEMMA CancelledType ==
  ASSUME NEW x \in Row, NEW s \in Statuses, NEW c \in Cancels
  PROVE  [x EXCEPT !.status = s, !.cancel = c] \in Row
BY DEF Row

\* A row failed after its executor died.
LEMMA DeadType ==
  ASSUME NEW x \in Row, NEW s \in Statuses, NEW h \in Holds
  PROVE  [x EXCEPT !.status = s, !.hold = h] \in Row
BY DEF Row

\* A row returned to the queue for a slot of this server.
LEMMA ReturnedType ==
  ASSUME NEW x \in Row
  PROVE  [x EXCEPT !.status = "queued", !.by = NoExec, !.live = FALSE,
                   !.stage = "none", !.claimSlot = "local", !.waiting = 0] \in Row
BY DEF Row, Statuses, Stages

\* A row requeued by the crash rule.
LEMMA RerunType ==
  ASSUME NEW x \in Row, NEW n \in Nat
  PROVE  [x EXCEPT !.status = "queued", !.by = NoExec, !.live = FALSE, !.stage = "none",
                   !.attempts = n, !.hold = "off"] \in Row
BY DEF Row, Statuses, Stages, Holds

\* A row ended by its run.
LEMMA FinishedType ==
  ASSUME NEW x \in Row, NEW s \in Statuses, NEW t \in Deploys \cup {NoDeploy},
         NEW h \in {"none", "blue", "green"}
  PROVE  [x EXCEPT !.status = s, !.successor = t, !.home = h] \in Row
BY DEF Row

\* What a client's request writes is a row.
LEMMA RequestType ==
  ASSUME QueueAssumption, TypeOK, NEW d \in Deploys, Request(d)
  PROVE  TypeOK'
<1>0. row[d] \in Row
  BY RowType
<1>1. ASSUME NEW s \in Scopes, NEW k \in Kinds, EnqueueDeploy(d, s, k)
      PROVE  TypeOK'
  <2>1. [row EXCEPT ![d] = NewRow(s, k)] \in [Deploys -> Row]
    BY NewRowType DEF TypeOK
  <2> QED
    BY <1>1, <2>1, SupersedeType DEF EnqueueDeploy, TypeOK
<1>2. ASSUME NEW s \in Scopes, NEW k \in Kinds, EnqueueHeld(d, s, k)
      PROVE  TypeOK'
  <2>1. [NewRow(s, k) EXCEPT !.held = TRUE] \in Row
    BY NewRowType, HeldType
  <2> QED
    BY <1>2, <2>1, WriteType, Zenon DEF EnqueueHeld
<1>3. ASSUME ReleaseHeldDeploy(d) PROVE TypeOK'
  <2>1. [row[d] EXCEPT !.held = FALSE] \in Row
    BY <1>0, HeldType
  <2>2. [row EXCEPT ![d].held = FALSE] \in [Deploys -> Row]
    BY <2>1 DEF TypeOK
  <2> QED
    BY <1>3, <2>2, SupersedeType DEF ReleaseHeldDeploy, TypeOK
<1>4. ASSUME BumpDeploy(d) PROVE TypeOK'
  <2>1. PICK n \in 1 .. MaxPlaces : Write(d, [row[d] EXCEPT !.bumped = n])
    BY <1>4 DEF BumpDeploy, NextPlace
  <2>2. n \in Nat
    BY DEF QueueAssumption
  <2>3. \A x \in Row, p \in Nat : [x EXCEPT !.bumped = p] \in Row
    BY DEF Row
  <2> QED
    BY <1>0, <2>1, <2>2, <2>3, WriteType, Zenon
<1>5. ASSUME NEW reason \in {"user", "timeout"}, CancelQueued(d, reason)
      PROVE  TypeOK'
  <2>1. [row[d] EXCEPT !.status = "cancelled", !.cancel = reason] \in Row
    BY <1>0, CancelledType DEF Statuses, Terminal, Cancels
  <2> QED
    BY <1>5, <2>1, WriteType, Zenon DEF CancelQueued
<1>6. ASSUME NEW reason \in {"user", "timeout"}, FlagRunning(d, reason)
      PROVE  TypeOK'
  <2>1. \A x \in Row :
          [x EXCEPT !.cancel = IF @ \in {"none", "supersede"} THEN reason ELSE @] \in Row
    BY DEF Row, Cancels
  <2> QED
    BY <1>0, <1>6, <2>1, WriteType, Zenon DEF FlagRunning
<1> QED
  BY <1>1, <1>2, <1>3, <1>4, <1>5, <1>6 DEF Request

\* What an executor writes of a deploy it runs is a row.
LEMMA ExecutorType ==
  ASSUME QueueAssumption, TypeOK, NEW e \in Executors, NEW d \in Deploys, ExecutorWrite(e, d)
  PROVE  TypeOK'
<1>0. row[d] \in Row
  BY RowType
<1>1. ASSUME TakeLocalSlot(e, d) PROVE TypeOK'
  <2>1. \A x \in Row : [x EXCEPT !.claimSlot = "none"] \in Row
    BY DEF Row
  <2> QED
    BY <1>0, <1>1, <2>1, WriteType, Zenon DEF TakeLocalSlot
<1>2. ASSUME AwaitLocalSlot(e, d) PROVE TypeOK'
  <2>1. PICK n \in 1 .. MaxPlaces : Write(d, [row[d] EXCEPT !.waiting = n])
    BY <1>2 DEF AwaitLocalSlot, NextPlace
  <2>2. n \in Nat
    BY DEF QueueAssumption
  <2> QED
    BY <1>0, <2>1, <2>2, WaitingType, WriteType, Zenon
<1>3. ASSUME EndLocalWait(d) PROVE TypeOK'
  <2>1. [row[d] EXCEPT !.waiting = 0] \in Row
    BY <1>0, WaitingType
  <2> QED
    BY <1>3, <2>1, WriteType, Zenon DEF EndLocalWait
<1>4. ASSUME RequeueForLocalSlot(e, d) PROVE TypeOK'
  BY <1>0, <1>4, ReturnedType, WriteType, Zenon DEF RequeueForLocalSlot
<1>5. ASSUME NEW s \in Stages \ {"none"}, MarkStage(e, d, s) PROVE TypeOK'
  BY <1>0, <1>5, StageType, WriteType, Zenon DEF MarkStage
<1>6. ASSUME EnterSwap(e, d) PROVE TypeOK'
  <2>1. \A x \in Row : [x EXCEPT !.stage = "deploy", !.live = TRUE] \in Row
    BY DEF Row, Stages
  <2> QED
    BY <1>0, <1>6, <2>1, WriteType, Zenon DEF EnterSwap
<1>7. ASSUME DropSupersede(d) PROVE TypeOK'
  <2>1. \A x \in Row :
          [x EXCEPT !.cancel = IF @ = "supersede" THEN "none" ELSE @] \in Row
    BY DEF Row, Cancels
  <2> QED
    BY <1>0, <1>7, <2>1, WriteType, Zenon DEF DropSupersede
<1>8. ASSUME SetExclusive(d) PROVE TypeOK'
  <2>1. \A x \in Row : [x EXCEPT !.hold = IF @ = "off" THEN "fresh" ELSE @] \in Row
    BY DEF Row, Holds
  <2> QED
    BY <1>0, <1>8, <2>1, WriteType, Zenon DEF SetExclusive
<1>9. ASSUME ReleaseExclusive(d) PROVE TypeOK'
  <2>1. [row[d] EXCEPT !.hold = "off"] \in Row
    BY <1>0, HoldType DEF Holds
  <2> QED
    BY <1>9, <2>1, WriteType, Zenon DEF ReleaseExclusive
<1>10. ASSUME NEW o \in Outcomes, NEW t \in Deploys \cup {NoDeploy}, Finish(e, d, o, t)
       PROVE  TypeOK'
  <2> DEFINE successor == IF o = "superseded" THEN t ELSE row[d].successor
             home == IF o = "success" /\ IsSelf(d) THEN OtherSlot(SlotOf[e]) ELSE row[d].home
  <2>1. o \in Statuses
    BY DEF Statuses, Terminal, Outcomes
  <2>2. successor \in Deploys \cup {NoDeploy} /\ home \in {"none", "blue", "green"}
    BY <1>0 DEF Row, OtherSlot
  <2>3. Write(d, [row[d] EXCEPT !.status = o, !.successor = successor, !.home = home])
    BY <1>10 DEF Finish
  <2> QED
    BY <1>0, <2>1, <2>2, <2>3, FinishedType, WriteType, Zenon
<1> QED
  BY <1>1, <1>2, <1>3, <1>4, <1>5, <1>6, <1>7, <1>8, <1>9, <1>10 DEF ExecutorWrite

\* So is what the sweeper writes.
LEMMA SweepType ==
  ASSUME TypeOK, NEW d \in Deploys, Sweep(d)
  PROVE  TypeOK'
<1>0. row[d] \in Row
  BY RowType
<1>1. ASSUME NEW stage \in {"none", "build"}, SweepRequeue(d, stage) PROVE TypeOK'
  <2> DEFINE attempts == IF stage = "none" THEN row[d].attempts ELSE row[d].attempts + 1
  <2>1. attempts \in Nat
    BY <1>0 DEF Row
  <2>2. Write(d, [row[d] EXCEPT !.status = "queued", !.by = NoExec, !.live = FALSE,
                                !.stage = "none", !.attempts = attempts, !.hold = "off"])
    BY <1>1 DEF SweepRequeue
  <2> QED
    BY <1>0, <2>1, <2>2, RerunType, WriteType, Zenon
<1>2. ASSUME FailDeadDeploy(d) PROVE TypeOK'
  <2>1. [row[d] EXCEPT !.status = "failed", !.hold = "off"] \in Row
    BY <1>0, DeadType DEF Statuses, Terminal, Holds
  <2> QED
    BY <1>2, <2>1, WriteType, Zenon DEF FailDeadDeploy
<1>3. ASSUME ExpireQueued(d) PROVE TypeOK'
  <2>1. [row[d] EXCEPT !.status = "cancelled"] \in Row
    BY <1>0, StatusType DEF Statuses, Terminal
  <2> QED
    BY <1>3, <2>1, WriteType, Zenon DEF ExpireQueued
<1> QED
  BY <1>1, <1>2, <1>3 DEF Sweep

\* And what a rollback writes.
LEMMA RollbackType ==
  ASSUME QueueAssumption, TypeOK, NEW d \in Deploys, Rollback(d)
  PROVE  TypeOK'
<1>0. row[d] \in Row
  BY RowType
<1>1. ASSUME NEW e \in Executors, NEW s \in Scopes, InsertRollback(e, d, s) PROVE TypeOK'
  <2>1. NewRow(s, "rollback") \in Row
    BY <1>1, NewRowType DEF InsertRollback
  <2>2. \A x \in Row : [x EXCEPT !.status = "running", !.by = e, !.live = TRUE] \in Row
    BY DEF Row, Statuses
  <2> QED
    BY <1>1, <2>1, <2>2, WriteType, Zenon DEF InsertRollback
<1>2. ASSUME NEW o \in Outcomes \cup {"deleted"}, FinishRollback(d, o) PROVE TypeOK'
  <2>1. [row[d] EXCEPT !.status = o] \in Row
    BY <1>0, StatusType DEF Statuses, Terminal, Outcomes
  <2> QED
    BY <1>2, <2>1, WriteType, Zenon DEF FinishRollback
<1>3. ASSUME MarkRolledBack(d) PROVE TypeOK'
  <2>1. [row[d] EXCEPT !.status = "rolled_back"] \in Row
    BY <1>0, StatusType DEF Statuses, Terminal
  <2> QED
    BY <1>3, <2>1, WriteType, Zenon DEF MarkRolledBack
<1> QED
  BY <1>1, <1>2, <1>3 DEF Rollback

\* A claim's update of many rows.
LEMMA ClaimType ==
  ASSUME QueueAssumption, TypeOK, NEW e \in Executors, NEW here, NEW there,
         ClaimDeploys(e, here, there)
  PROVE  TypeOK'
<1>1. \A x \in Row, slot \in {"none", "target"} :
        [x EXCEPT !.status = "running", !.by = e, !.live = TRUE, !.stage = "none",
                  !.bumped = 0, !.claimSlot = slot, !.waiting = 0] \in Row
  BY DEF Row, Statuses, Stages
<1>2. \A d \in Deploys, slot \in {"none", "target"} : Claimed(d, e, slot) \in Row
  BY <1>1, RowType, Zenon DEF Claimed
<1>3. AfterClaim(e, here, there) \in [Deploys -> Row]
  BY <1>2, RowType DEF AfterClaim
<1> QED
  BY <1>3 DEF ClaimDeploys, TypeOK

\* A renewal pass's update of many rows.
LEMMA RenewType ==
  ASSUME TypeOK, NEW e \in Executors, NEW ids \in SUBSET Deploys, RenewLeases(e, ids)
  PROVE  TypeOK'
<1>1. \A d \in Deploys : [row[d] EXCEPT !.live = TRUE] \in Row
  BY RowType, LiveType
<1> QED
  BY <1>1, RowType DEF RenewLeases, TypeOK

\* The release of holds left over by finished deploys.
LEMMA ClearType ==
  ASSUME TypeOK, NEW e \in Executors, ClearFinishedExclusive(e)
  PROVE  TypeOK'
<1>1. \A d \in Deploys : [row[d] EXCEPT !.hold = "off"] \in Row
  BY RowType, HoldType DEF Holds
<1> QED
  BY <1>1, RowType DEF ClearFinishedExclusive, TypeOK

\* The two clocks.
LEMMA ClockType ==
  ASSUME TypeOK, NEW d \in Deploys, LapseLease(d) \/ AgeExclusive(d)
  PROVE  TypeOK'
<1>1. [row[d] EXCEPT !.live = FALSE] \in Row
  BY RowType, LiveType
<1>2. [row[d] EXCEPT !.hold = "stale"] \in Row
  BY RowType, HoldType DEF Holds
<1> QED
  BY <1>1, <1>2, WriteType, Zenon DEF LapseLease, AgeExclusive

\* Any step of the queue keeps rows their type.
LEMMA TypeStep ==
  ASSUME QueueAssumption, TypeOK, [Next]_row
  PROVE  TypeOK'
<1>1. CASE UNCHANGED row
  BY <1>1 DEF TypeOK
<1>2. CASE Next
  BY <1>2, RequestType, ExecutorType, SweepType, RollbackType, ClaimType, RenewType,
     ClearType, ClockType, Zenon DEF Next
<1> QED
  BY <1>1, <1>2

\* Every row the queue ever holds has the type of the deployment table, whatever
\* is called in whatever order.
THEOREM TypeCorrect == ASSUME QueueAssumption PROVE Spec => []TypeOK
<1>1. Init => TypeOK
  BY DEF Init, TypeOK, NoRow, Row, Statuses, Stages, Cancels, Holds
<1>2. TypeOK /\ [Next]_row => TypeOK'
  BY TypeStep
<1> QED
  BY <1>1, <1>2, PTL DEF Spec

-------------------------------------------------------------------------------
(* What a step of the queue can make of a row.                             *)

\* Deploys are asked for, and rollbacks start at once.
Asked(x, y) ==
  /\ x.status = "absent" /\ y.cancel = "none"
  /\ y.status = "queued" /\ y.kind # "rollback"
  /\ y.by = NoExec /\ ~y.live /\ y.stage = "none"

Inserted(x, y) ==
  /\ x.status = "absent" /\ y.cancel = "none"
  /\ y.status = "running" /\ y.kind = "rollback" /\ y.by \in Executors

\* What no write changes later: whose deploy it is, and a standing request to stop.
Keeps(x, y) ==
  /\ y.kind = x.kind /\ y.scope = x.scope
  /\ x.cancel \in {"user", "timeout"} => y.cancel \in {"user", "timeout"}
  /\ x.status = "absent" /\ x.cancel = "none" => y.cancel = "none"

Stays(x, y) ==
  /\ y.status = x.status /\ y.by = x.by
  /\ x.status = "queued" => y.live = x.live /\ y.stage = x.stage

Starts(x, y) == x.status = "queued" /\ y.status = "running" /\ y.by \in Executors

Returns(x, y) ==
  /\ x.status = "running" /\ x.kind # "rollback"
  /\ y.status = "queued" /\ y.by = NoExec /\ ~y.live /\ y.stage = "none"

Ends(x, y) ==
  \/ x.status = "queued"  /\ y.status \in {"cancelled", "superseded"}
  \/ x.status = "running" /\ y.status \in Outcomes
  \/ x.status = "success" /\ y.status = "rolled_back"
  \/ /\ x.kind = "rollback" /\ x.status # "deleted"
     /\ y.status \in {"success", "failed", "deleted"}

\* Quiet steps start nothing.
QuietStep(x, y) ==
  \/ Asked(x, y)
  \/ Keeps(x, y) /\ (Stays(x, y) \/ Returns(x, y) \/ Ends(x, y))

RowStep(x, y) == QuietStep(x, y) \/ Inserted(x, y) \/ (Keeps(x, y) /\ Starts(x, y))

RowsQuiet == \A x \in Deploys : QuietStep(row[x], row'[x])
RowsStep  == \A x \in Deploys : RowStep(row[x], row'[x])

-------------------------------------------------------------------------------
(* Which statements start nothing.                                         *)

\* An unchanged row moves along QuietStep.
LEMMA SameRow ==
  ASSUME NEW x
  PROVE  QuietStep(x, x)
BY DEF QuietStep, Keeps, Stays

\* An update of one row along QuietStep moves every row along it.
LEMMA WriteStep ==
  ASSUME TypeOK, NEW d \in Deploys, NEW new, Write(d, new), QuietStep(row[d], new)
  PROVE  RowsQuiet
BY SameRow DEF RowsQuiet, TypeOK, Write

\* An update of fields outside the row's life.
LEMMA AsideStep ==
  ASSUME NEW x \in Row, NEW y \in Row,
         y.status = x.status, y.by = x.by, y.kind = x.kind, y.scope = x.scope,
         x.status = "queued" => y.live = x.live /\ y.stage = x.stage,
         x.cancel \in {"user", "timeout"} => y.cancel \in {"user", "timeout"},
         x.status = "absent" /\ x.cancel = "none" => y.cancel = "none"
  PROVE  QuietStep(x, y)
BY DEF QuietStep, Keeps, Stays

\* A freshly queued row comes from an absent one.
LEMMA NewQuietStep ==
  ASSUME QueueAssumption, NEW s \in Scopes, NEW k \in Kinds, k # "rollback",
         NEW d \in Deploys, row[d].status = "absent"
  PROVE  /\ QuietStep(row[d], NewRow(s, k))
         /\ QuietStep(row[d], [NewRow(s, k) EXCEPT !.held = TRUE])
<1>1. Asked(row[d], NewRow(s, k))
  BY DEF NewRow, NoRow, Asked
<1>2. Asked(row[d], [NewRow(s, k) EXCEPT !.held = TRUE])
  BY DEF NewRow, NoRow, Asked
<1> QED
  BY <1>1, <1>2, Zenon DEF QuietStep

\* applySupersede moves a row along QuietStep, a row that was just queued too.
LEMMA SupersedeStep ==
  ASSUME NEW r \in [Deploys -> Row], NEW d \in Deploys, NEW x \in Deploys
  PROVE  QuietStep(r[x], ApplySupersede(r, d)[x])
<1>0. r[x] \in Row
  OBVIOUS
<1>1. CASE ApplySupersede(r, d)[x] = r[x]
  BY <1>1, SameRow
<1>2. ASSUME NEW z \in Row, z.status = "queued" PROVE QuietStep(z, Replaced(z, d))
  BY <1>2 DEF Replaced, QuietStep, Keeps, Ends, Row
<1>3. ASSUME NEW z \in Row, z.status = "running", z.cancel = "none"
      PROVE  QuietStep(z, ToldToStop(z))
  BY <1>3 DEF ToldToStop, QuietStep, Keeps, Stays, Row
<1>4. CASE r[x].status = "queued" /\ ApplySupersede(r, d)[x] = Replaced(r[x], d)
  BY <1>0, <1>2, <1>4
<1>5. CASE /\ r[x].status = "running" /\ r[x].cancel = "none"
           /\ ApplySupersede(r, d)[x] = ToldToStop(r[x])
  BY <1>0, <1>3, <1>5
<1> QED
  BY <1>1, <1>4, <1>5, SupersedeEffect

-------------------------------------------------------------------------------
\* Enqueueing, held or not, starts nothing.
LEMMA EnqueueStep ==
  ASSUME QueueAssumption, TypeOK, NEW d \in Deploys, NEW s \in Scopes, NEW k \in Kinds,
         EnqueueDeploy(d, s, k)
  PROVE  RowsQuiet
<1> DEFINE r == [row EXCEPT ![d] = NewRow(s, k)]
<1>1. r \in [Deploys -> Row] /\ row' = ApplySupersede(r, d)
  BY NewRowType DEF EnqueueDeploy, TypeOK
<1>2. r[d] = NewRow(s, k) /\ \A x \in Deploys \ {d} : r[x] = row[x]
  BY DEF TypeOK
<1> HIDE DEF r
<1>3. ApplySupersede(r, d)[d] = r[d]
  <2>1. NewRow(s, k).status = "queued"
    BY DEF NewRow, NoRow
  <2> QED
    BY <1>2, <2>1, SupersedeEffect
<1>4. QuietStep(row[d], row'[d])
  <2>1. QuietStep(row[d], NewRow(s, k))
    BY NewQuietStep DEF EnqueueDeploy
  <2> QED
    BY <1>1, <1>2, <1>3, <2>1
<1>5. \A x \in Deploys \ {d} : QuietStep(row[x], row'[x])
  BY <1>1, <1>2, SupersedeStep
<1> QED
  BY <1>4, <1>5 DEF RowsQuiet

\* Nor does releasing a held deploy.
LEMMA ReleaseStep ==
  ASSUME TypeOK, NEW d \in Deploys, ReleaseHeldDeploy(d)
  PROVE  RowsQuiet
<1> DEFINE r == [row EXCEPT ![d].held = FALSE]
<1>0. [row[d] EXCEPT !.held = FALSE] \in Row
  BY RowType, HeldType
<1>1. r \in [Deploys -> Row] /\ row' = ApplySupersede(r, d)
  BY <1>0 DEF ReleaseHeldDeploy, TypeOK
<1>2. r[d] = [row[d] EXCEPT !.held = FALSE] /\ \A x \in Deploys \ {d} : r[x] = row[x]
  BY DEF TypeOK
<1>3. ApplySupersede(r, d)[d] = r[d]
  <2>1. r[d].status = "queued"
    BY <1>2, RowType DEF ReleaseHeldDeploy, Row
  <2> QED
    BY <2>1, SupersedeEffect
<1>4. QuietStep(row[d], r[d])
  <2>1. \A x \in Row : QuietStep(x, [x EXCEPT !.held = FALSE])
    BY HeldType DEF QuietStep, Keeps, Stays, Row
  <2> QED
    BY <1>2, <2>1, RowType
<1>5. \A x \in Deploys \ {d} : QuietStep(row[x], row'[x])
  BY <1>1, <1>2, SupersedeStep
<1> QED
  BY <1>1, <1>3, <1>4, <1>5 DEF RowsQuiet

\* So no request of a client starts a deploy or reopens one.
LEMMA RequestStep ==
  ASSUME QueueAssumption, TypeOK, NEW d \in Deploys, Request(d)
  PROVE  RowsQuiet
<1>0. row[d] \in Row
  BY RowType
<1>1. ASSUME NEW s \in Scopes, NEW k \in Kinds, EnqueueHeld(d, s, k) PROVE RowsQuiet
  <2>1. k \in Kinds /\ k # "rollback"
    BY <1>1 DEF EnqueueHeld, QueueAssumption
  <2>2. QuietStep(row[d], [NewRow(s, k) EXCEPT !.held = TRUE])
    BY <1>1, <2>1, NewQuietStep DEF EnqueueHeld
  <2> QED
    BY <1>1, <2>2, WriteStep, Zenon DEF EnqueueHeld
<1>2. ASSUME BumpDeploy(d) PROVE RowsQuiet
  <2>1. PICK n : Write(d, [row[d] EXCEPT !.bumped = n])
    BY <1>2 DEF BumpDeploy
  <2>2. \A x \in Row : QuietStep(x, [x EXCEPT !.bumped = n])
    BY DEF QuietStep, Keeps, Stays, Row
  <2> QED
    BY <1>0, <2>1, <2>2, WriteStep, Zenon
<1>3. ASSUME NEW reason \in {"user", "timeout"}, CancelQueued(d, reason) PROVE RowsQuiet
  <2>1. \A x \in Row : x.status = "queued" =>
          QuietStep(x, [x EXCEPT !.status = "cancelled", !.cancel = reason])
    BY DEF QuietStep, Keeps, Ends, Row
  <2> QED
    BY <1>0, <1>3, <2>1, WriteStep, Zenon DEF CancelQueued
<1>4. ASSUME NEW reason \in {"user", "timeout"}, FlagRunning(d, reason) PROVE RowsQuiet
  <2>1. \A x \in Row : x.status = "running" =>
          QuietStep(x, [x EXCEPT !.cancel = IF @ \in {"none", "supersede"} THEN reason ELSE @])
    BY DEF QuietStep, Keeps, Stays, Row, Cancels
  <2> QED
    BY <1>0, <1>4, <2>1, WriteStep, Zenon DEF FlagRunning
<1> QED
  BY <1>1, <1>2, <1>3, <1>4, EnqueueStep, ReleaseStep DEF Request

\* The sweeper returns, fails or cancels; it starts nothing.
LEMMA SweepStep ==
  ASSUME TypeOK, NEW d \in Deploys, Sweep(d)
  PROVE  RowsQuiet
<1>0. row[d] \in Row
  BY RowType
<1>1. ASSUME NEW stage, row[d].kind # "rollback", SweepRequeue(d, stage) PROVE RowsQuiet
  <2> DEFINE attempts == IF stage = "none" THEN row[d].attempts ELSE row[d].attempts + 1
  <2>1. \A x \in Row : \A n : x.status = "running" /\ x.kind # "rollback" =>
          QuietStep(x, [x EXCEPT !.status = "queued", !.by = NoExec, !.live = FALSE,
                               !.stage = "none", !.attempts = n, !.hold = "off"])
    BY DEF QuietStep, Keeps, Returns, Row
  <2>2. Write(d, [row[d] EXCEPT !.status = "queued", !.by = NoExec, !.live = FALSE,
                                !.stage = "none", !.attempts = attempts, !.hold = "off"])
    BY <1>1 DEF SweepRequeue
  <2>3. row[d].status = "running"
    BY <1>1 DEF SweepRequeue, Expired
  <2> QED
    BY <1>0, <1>1, <2>1, <2>2, <2>3, WriteStep, Zenon
<1>2. ASSUME FailDeadDeploy(d) PROVE RowsQuiet
  <2>1. \A x \in Row : x.status = "running" =>
          QuietStep(x, [x EXCEPT !.status = "failed", !.hold = "off"])
    BY DEF QuietStep, Keeps, Ends, Row, Outcomes
  <2> QED
    BY <1>0, <1>2, <2>1, WriteStep, Zenon DEF FailDeadDeploy, Expired
<1>3. ASSUME ExpireQueued(d) PROVE RowsQuiet
  <2>1. \A x \in Row : x.status = "queued" => QuietStep(x, [x EXCEPT !.status = "cancelled"])
    BY DEF QuietStep, Keeps, Ends, Row
  <2> QED
    BY <1>0, <1>3, <2>1, WriteStep, Zenon DEF ExpireQueued
<1> QED
  BY <1>1, <1>2, <1>3 DEF Sweep

\* A rollback past its insert starts nothing.
LEMMA RollbackStep ==
  ASSUME TypeOK, NEW d \in Deploys,
         MarkRolledBack(d) \/ \E o \in Outcomes \cup {"deleted"} : FinishRollback(d, o)
  PROVE  RowsQuiet
<1>0. row[d] \in Row
  BY RowType
<1>2. ASSUME NEW o, FinishRollback(d, o) PROVE RowsQuiet
  <2>1. \A x \in Row :
          x.kind = "rollback" /\ x.status # "deleted" /\ o \in {"success", "failed", "deleted"}
            => QuietStep(x, [x EXCEPT !.status = o])
    BY DEF QuietStep, Keeps, Ends, Row
  <2> QED
    BY <1>0, <1>2, <2>1, WriteStep, Zenon DEF FinishRollback
<1>3. ASSUME MarkRolledBack(d) PROVE RowsQuiet
  <2>1. \A x \in Row : x.status = "success" => QuietStep(x, [x EXCEPT !.status = "rolled_back"])
    BY DEF QuietStep, Keeps, Ends, Row
  <2> QED
    BY <1>0, <1>3, <2>1, WriteStep, Zenon DEF MarkRolledBack
<1> QED
  BY <1>2, <1>3

\* What a run writes of its deploy returns or ends it, never starts it.
LEMMA ExecutorStep ==
  ASSUME QueueAssumption, TypeOK, NEW e \in Executors, NEW d \in Deploys, ExecutorWrite(e, d)
  PROVE  RowsQuiet
<1>0. row[d] \in Row /\ row[d].kind # "rollback"
  BY RowType DEF ExecutorWrite
<1>1. ASSUME TakeLocalSlot(e, d) PROVE RowsQuiet
  <2>1. \A x \in Row : QuietStep(x, [x EXCEPT !.claimSlot = "none"])
    BY DEF QuietStep, Keeps, Stays, Row
  <2> QED
    BY <1>0, <1>1, <2>1, WriteStep, Zenon DEF TakeLocalSlot
<1>2. ASSUME NEW n, Write(d, [row[d] EXCEPT !.waiting = n]) PROVE RowsQuiet
  <2>1. \A x \in Row : QuietStep(x, [x EXCEPT !.waiting = n])
    BY DEF QuietStep, Keeps, Stays, Row
  <2> QED
    BY <1>0, <1>2, <2>1, WriteStep, Zenon
<1>3. ASSUME RequeueForLocalSlot(e, d) PROVE RowsQuiet
  <2>1. \A x \in Row : x.status = "running" /\ x.kind # "rollback" =>
          QuietStep(x, [x EXCEPT !.status = "queued", !.by = NoExec, !.live = FALSE,
                               !.stage = "none", !.claimSlot = "local", !.waiting = 0])
    BY DEF QuietStep, Keeps, Returns, Row
  <2> QED
    BY <1>0, <1>3, <2>1, WriteStep, Zenon DEF RequeueForLocalSlot, Owned
<1>4. ASSUME NEW s, MarkStage(e, d, s) PROVE RowsQuiet
  <2>1. \A x \in Row : x.status = "running" => QuietStep(x, [x EXCEPT !.stage = s])
    BY DEF QuietStep, Keeps, Stays, Row
  <2> QED
    BY <1>0, <1>4, <2>1, WriteStep, Zenon DEF MarkStage, Owned
<1>5. ASSUME EnterSwap(e, d) PROVE RowsQuiet
  <2>1. \A x \in Row : x.status = "running" =>
          QuietStep(x, [x EXCEPT !.stage = "deploy", !.live = TRUE])
    BY DEF QuietStep, Keeps, Stays, Row
  <2> QED
    BY <1>0, <1>5, <2>1, WriteStep, Zenon DEF EnterSwap, MayEnterSwap, Owned
<1>6. ASSUME DropSupersede(d) PROVE RowsQuiet
  <2>1. \A x \in Row : QuietStep(x, [x EXCEPT !.cancel = IF @ = "supersede" THEN "none" ELSE @])
    BY DEF QuietStep, Keeps, Stays, Row
  <2> QED
    BY <1>0, <1>6, <2>1, WriteStep, Zenon DEF DropSupersede
<1>7. ASSUME NEW h, Write(d, [row[d] EXCEPT !.hold = h]) PROVE RowsQuiet
  <2>1. \A x \in Row : QuietStep(x, [x EXCEPT !.hold = h])
    BY DEF QuietStep, Keeps, Stays, Row
  <2> QED
    BY <1>0, <1>7, <2>1, WriteStep, Zenon
<1>8. ASSUME NEW o \in Outcomes, NEW t, Finish(e, d, o, t) PROVE RowsQuiet
  <2> DEFINE successor == IF o = "superseded" THEN t ELSE row[d].successor
             home == IF o = "success" /\ IsSelf(d) THEN OtherSlot(SlotOf[e]) ELSE row[d].home
  <2>1. \A x \in Row : \A u, h : x.status = "running" =>
          QuietStep(x, [x EXCEPT !.status = o, !.successor = u, !.home = h])
    BY DEF QuietStep, Keeps, Ends, Row
  <2>2. Write(d, [row[d] EXCEPT !.status = o, !.successor = successor, !.home = home])
    BY <1>8 DEF Finish
  <2> QED
    BY <1>0, <1>8, <2>1, <2>2, WriteStep, Zenon DEF Finish, Owned
<1>9. CASE AwaitLocalSlot(e, d) \/ EndLocalWait(d)
  BY <1>2, <1>9 DEF AwaitLocalSlot, EndLocalWait
<1>10. CASE SetExclusive(d) \/ ReleaseExclusive(d)
  BY <1>7, <1>10 DEF SetExclusive, ReleaseExclusive
<1> QED
  BY <1>1, <1>3, <1>4, <1>5, <1>6, <1>8, <1>9, <1>10 DEF ExecutorWrite

\* A renewal leaves the life of every row alone.
LEMMA RenewStep ==
  ASSUME TypeOK, NEW e, NEW ids, RenewLeases(e, ids)
  PROVE  RowsQuiet
<1>1. \A x \in Row : x.status = "running" => QuietStep(x, [x EXCEPT !.live = TRUE])
  BY DEF QuietStep, Keeps, Stays, Row
<1>2. \A d \in Deploys : \/ row'[d] = row[d]
                         \/ row[d].status = "running" /\ row'[d] = [row[d] EXCEPT !.live = TRUE]
  BY DEF RenewLeases, Owned
<1>3. \A d \in Deploys : row[d].status = "running" => QuietStep(row[d], [row[d] EXCEPT !.live = TRUE])
  BY <1>1, RowType, Zenon
<1> QED
  BY <1>2, <1>3, SameRow, Zenon DEF RowsQuiet

\* So does clearing left-over holds.
LEMMA ClearStep ==
  ASSUME TypeOK, NEW e, ClearFinishedExclusive(e)
  PROVE  RowsQuiet
<1>1. \A x \in Row : QuietStep(x, [x EXCEPT !.hold = "off"])
  BY DEF QuietStep, Keeps, Stays, Row
<1>2. \A d \in Deploys : row'[d] = row[d] \/ row'[d] = [row[d] EXCEPT !.hold = "off"]
  BY DEF ClearFinishedExclusive
<1> QED
  BY <1>1, <1>2, RowType, SameRow DEF RowsQuiet

\* And time passing.
LEMMA ClockStep ==
  ASSUME TypeOK, NEW d \in Deploys, LapseLease(d) \/ AgeExclusive(d)
  PROVE  RowsQuiet
<1>1. \A x \in Row : x.status = "running" => QuietStep(x, [x EXCEPT !.live = FALSE])
  BY DEF QuietStep, Keeps, Stays, Row
<1>2. \A x \in Row : QuietStep(x, [x EXCEPT !.hold = "stale"])
  BY DEF QuietStep, Keeps, Stays, Row
<1>3. CASE LapseLease(d)
  BY <1>1, <1>3, RowType, WriteStep, Zenon DEF LapseLease
<1>4. CASE AgeExclusive(d)
  BY <1>2, <1>4, RowType, WriteStep, Zenon DEF AgeExclusive
<1> QED
  BY <1>3, <1>4

-------------------------------------------------------------------------------
(* Claims and rollbacks start deploys.                                     *)

\* A claim takes heads of idle scopes' lines only.
LEMMA PicksAreHeads ==
  ASSUME NEW e, NEW here, NEW there, ClaimDeploys(e, here, there)
  PROVE  here \subseteq Heads(e) /\ there \subseteq Heads(e)
BY DEF ClaimDeploys, ClaimPicks, FirstOf

\* A claim starts the queued rows it takes and no other.
LEMMA ClaimStep ==
  ASSUME TypeOK, NEW e \in Executors, NEW here, NEW there, ClaimDeploys(e, here, there),
         NEW d \in Deploys
  PROVE  \/ row'[d] = row[d]
         \/ d \in Heads(e) /\ Keeps(row[d], row'[d]) /\ Starts(row[d], row'[d])
<1>1. here \subseteq Heads(e) /\ there \subseteq Heads(e)
  BY PicksAreHeads
<1>2. d \in Heads(e) => row[d].status = "queued"
  BY DEF Heads, Claimable, Queued
<1>3. \A x \in Row : \A slot : x.status = "queued" =>
        LET y == [x EXCEPT !.status = "running", !.by = e, !.live = TRUE, !.stage = "none",
                           !.bumped = 0, !.claimSlot = slot, !.waiting = 0]
        IN Keeps(x, y) /\ Starts(x, y)
  BY DEF Keeps, Starts, Row
<1>4. d \in Heads(e) => \A slot : /\ Keeps(row[d], Claimed(d, e, slot))
                                  /\ Starts(row[d], Claimed(d, e, slot))
  BY <1>2, <1>3, RowType, Zenon DEF Claimed
<1>5. \/ row'[d] = row[d]
      \/ d \in here \cup there /\ row'[d] = Claimed(d, e, "none")
      \/ d \in here \cup there /\ row'[d] = Claimed(d, e, "target")
  BY Zenon DEF ClaimDeploys, AfterClaim
<1> QED
  BY <1>1, <1>4, <1>5

\* Two deploys of one app environment can't both head its line.
LEMMA OneHeadPerScope ==
  ASSUME TypeOK, NEW e, NEW a \in Heads(e), NEW b \in Heads(e), row[a].scope = row[b].scope
  PROVE  a = b
<1> SUFFICES ASSUME a # b PROVE FALSE
  OBVIOUS
<1>1. a \in Deploys /\ b \in Deploys /\ InLine(a, b) /\ InLine(b, a)
  BY DEF Heads, Claimable, Queued
<1>2. /\ row[a].bumped \in Nat /\ row[b].bumped \in Nat
      /\ row[a].seq \in Nat /\ row[b].seq \in Nat
  BY <1>1, RowType DEF Row
<1> QED
  BY <1>1, <1>2 DEF InLine

\* A rollback starts from an absent row.
LEMMA InsertStep ==
  ASSUME TypeOK, NEW e \in Executors, NEW s, NEW d \in Deploys, InsertRollback(e, d, s)
  PROVE  /\ Inserted(row[d], row'[d]) /\ row'[d].scope = s
         /\ \A x \in Deploys \ {d} : row'[x] = row[x]
<1> DEFINE new == [NewRow(s, "rollback") EXCEPT !.status = "running", !.by = e, !.live = TRUE]
<1>1. Inserted(row[d], new) /\ new.scope = s
  BY DEF InsertRollback, Inserted, NewRow, NoRow
<1>2. Write(d, new)
  BY DEF InsertRollback
<1> QED
  BY <1>1, <1>2 DEF Write, TypeOK

\* A step of the queue starts nothing, or is a claim, or starts one rollback.
LEMMA StepKinds ==
  ASSUME QueueAssumption, TypeOK, [Next]_row
  PROVE  \/ RowsQuiet
         \/ \E e \in Executors : \E picks : ClaimDeploys(e, picks[1], picks[2])
         \/ \E e \in Executors, s \in Scopes, d \in Deploys : InsertRollback(e, d, s)
<1>1. CASE UNCHANGED row
  BY <1>1, SameRow DEF RowsQuiet
<1>2. CASE Next
  BY <1>2, RequestStep, ExecutorStep, SweepStep, RollbackStep, RenewStep, ClearStep,
     ClockStep, Zenon DEF Next, Rollback
<1> QED
  BY <1>1, <1>2

\* So every row moves along RowStep.
LEMMA NextStep ==
  ASSUME QueueAssumption, TypeOK, [Next]_row
  PROVE  RowsStep
<1>0. \A x, y : QuietStep(x, y) \/ Inserted(x, y) \/ (Keeps(x, y) /\ Starts(x, y)) => RowStep(x, y)
  BY Zenon DEF RowStep
<1>1. CASE RowsQuiet
  BY <1>0, <1>1, Zenon DEF RowsQuiet, RowsStep
<1>2. ASSUME NEW e \in Executors, NEW picks, ClaimDeploys(e, picks[1], picks[2]) PROVE RowsStep
  <2> SUFFICES ASSUME NEW x \in Deploys PROVE RowStep(row[x], row'[x])
    BY DEF RowsStep
  <2>1. CASE row'[x] = row[x]
    BY <1>0, <2>1, SameRow
  <2>2. CASE Keeps(row[x], row'[x]) /\ Starts(row[x], row'[x])
    BY <1>0, <2>2, Zenon
  <2> QED
    BY <1>2, <2>1, <2>2, ClaimStep, Zenon
<1>3. ASSUME NEW e \in Executors, NEW s \in Scopes, NEW d \in Deploys, InsertRollback(e, d, s)
      PROVE  RowsStep
  <2> SUFFICES ASSUME NEW x \in Deploys PROVE RowStep(row[x], row'[x])
    BY DEF RowsStep
  <2>1. CASE x = d
    BY <1>0, <1>3, <2>1, InsertStep, Zenon
  <2>2. CASE x # d
    BY <1>0, <1>3, <2>2, InsertStep, SameRow
  <2> QED
    BY <2>1, <2>2
<1> QED
  BY <1>1, <1>2, <1>3, StepKinds, Zenon

-------------------------------------------------------------------------------
(* Theorems.                                                               *)

\* A step that starts nothing keeps app environments apart.
LEMMA QuietKeepsApart ==
  ASSUME OneRunningPerScope, RowsQuiet
  PROVE  OneRunningPerScope'
<1>1. \A x \in Deploys : row'[x].status = "running" =>
        row[x].status = "running" /\ row'[x].scope = row[x].scope
  BY DEF RowsQuiet, QuietStep, Asked, Keeps, Stays, Returns, Ends, Outcomes
<1> QED
  BY <1>1 DEF OneRunningPerScope, Running

\* A claim takes one deploy of an app environment where nothing runs.
LEMMA ClaimKeepsApart ==
  ASSUME TypeOK, OneRunningPerScope, NEW e \in Executors, NEW here, NEW there,
         ClaimDeploys(e, here, there)
  PROVE  OneRunningPerScope'
<1>1. \A x \in Deploys : row'[x].scope = row[x].scope
  BY ClaimStep DEF Keeps
<1>2. \A x \in Deploys : row'[x].status = "running" => x \in Running \/ x \in Heads(e)
  BY ClaimStep DEF Running
<1>3. \A x \in Heads(e) : ~ScopeBusy(row[x].scope)
  BY DEF Heads, Claimable
<1>4. \A x \in Heads(e), y \in Running : row[x].scope # row[y].scope
  BY <1>3 DEF ScopeBusy
<1> QED
  BY <1>1, <1>2, <1>4, OneHeadPerScope DEF OneRunningPerScope, Running

\* A rollback starts where nothing runs.
LEMMA InsertKeepsApart ==
  ASSUME TypeOK, OneRunningPerScope, NEW e \in Executors, NEW s \in Scopes, NEW d \in Deploys,
         InsertRollback(e, d, s)
  PROVE  OneRunningPerScope'
<1>1. row'[d].scope = s /\ \A x \in Deploys \ {d} : row'[x] = row[x]
  BY InsertStep
<1>2. \A x \in Running : row[x].scope # s
  BY DEF InsertRollback, ScopeBusy
<1> QED
  BY <1>1, <1>2 DEF OneRunningPerScope, Running

\* One deploy at a time in an app environment: claims, sweeps, requeues, slot moves
\* and rollbacks never leave two running, in any order and for any number of them.
THEOREM OneDeployPerScope == ASSUME QueueAssumption PROVE Spec => []OneRunningPerScope
<1>1. Init => OneRunningPerScope
  BY DEF Init, NoRow, OneRunningPerScope, Running
<1>2. TypeOK /\ OneRunningPerScope /\ [Next]_row => OneRunningPerScope'
  BY StepKinds, QuietKeepsApart, ClaimKeepsApart, InsertKeepsApart, Zenon
<1> QED
  BY <1>1, <1>2, TypeCorrect, PTL DEF Spec

\* A running row has an owner, and a queued one keeps nothing of an earlier claim,
\* so that the next claim starts afresh and an old owner's writes find no row.
THEOREM OwnerCorrect == ASSUME QueueAssumption PROVE Spec => []OwnedWhileRunning
<1>1. Init => OwnedWhileRunning
  BY DEF Init, NoRow, OwnedWhileRunning, Running, Queued
<1>2. TypeOK /\ OwnedWhileRunning /\ [Next]_row => OwnedWhileRunning'
  <2> SUFFICES ASSUME TypeOK, OwnedWhileRunning, [Next]_row, NEW d \in Deploys
               PROVE  /\ row'[d].status = "running" => row'[d].by # NoExec
                      /\ row'[d].status = "queued" =>
                           row'[d].by = NoExec /\ ~row'[d].live /\ row'[d].stage = "none"
    BY DEF OwnedWhileRunning, Running, Queued
  <2>1. RowStep(row[d], row'[d])
    BY NextStep DEF RowsStep
  <2>2. /\ row[d].status = "running" => row[d].by # NoExec
        /\ row[d].status = "queued" => row[d].by = NoExec /\ ~row[d].live /\ row[d].stage = "none"
    BY DEF OwnedWhileRunning, Running, Queued
  <2> QED
    BY <2>1, <2>2 DEF RowStep, QuietStep, Asked, Inserted, Keeps, Stays, Starts, Returns, Ends,
                      Outcomes, QueueAssumption
<1> QED
  BY <1>1, <1>2, TypeCorrect, PTL DEF Spec

\* Nobody stops a deploy that was not asked for.
AbsentUncancelled == \A d \in Deploys : row[d].status = "absent" => row[d].cancel = "none"

\* A row nobody asked for carries no cancel, so an enqueue overwrites none.
LEMMA Uncancelled == ASSUME QueueAssumption PROVE Spec => []AbsentUncancelled
<1>1. Init => AbsentUncancelled
  BY DEF Init, NoRow, AbsentUncancelled
<1>2. TypeOK /\ AbsentUncancelled /\ [Next]_row => AbsentUncancelled'
  BY NextStep DEF AbsentUncancelled, RowsStep, RowStep, QuietStep, Asked, Inserted, Keeps, Stays,
                  Starts, Returns, Ends, Outcomes
<1> QED
  BY <1>1, <1>2, TypeCorrect, PTL DEF Spec

\* A user's or the time limit's request to stop stays on its deploy over requeues,
\* claims and dropped supersedes.
THEOREM CancelStays == ASSUME QueueAssumption PROVE Spec => CancelSticks
<1>1. TypeOK /\ AbsentUncancelled /\ [Next]_row =>
        [\A d \in Deploys :
           row[d].cancel \in {"user", "timeout"} => row'[d].cancel \in {"user", "timeout"}]_row
  BY NextStep DEF AbsentUncancelled, RowsStep, RowStep, QuietStep, Asked, Inserted, Keeps
<1> QED
  BY <1>1, TypeCorrect, Uncancelled, PTL DEF Spec, CancelSticks

\* A rollback's row is never waiting to be claimed.
RollbackRuns ==
  \A d \in Deploys : row[d].kind = "rollback" => row[d].status \notin {"absent", "queued"}

\* No step queues a rollback.
LEMMA RollbackRunsStep ==
  ASSUME QueueAssumption, TypeOK, RollbackRuns, [Next]_row
  PROVE  RollbackRuns'
BY NextStep DEF RollbackRuns, RowsStep, RowStep, QuietStep, Asked, Inserted, Keeps, Stays,
                Starts, Returns, Ends, Outcomes

\* A rollback is never queued, so nothing requeues or claims one.
LEMMA RollbacksRun == ASSUME QueueAssumption PROVE Spec => []RollbackRuns
<1>1. Init => RollbackRuns
  BY DEF Init, NoRow, RollbackRuns
<1>2. TypeOK /\ RollbackRuns /\ [Next]_row => RollbackRuns'
  BY RollbackRunsStep
<1> QED
  BY <1>1, <1>2, TypeCorrect, PTL DEF Spec

\* A row's step is a step of its deploy's life.
LEMMA RowStepIsLife ==
  ASSUME RollbackRuns, NEW d \in Deploys, RowStep(row[d], row'[d])
  PROVE  \/ Lifecycle!Stays(d)
         \/ Lifecycle!Asked(d)
         \/ Lifecycle!Moves(d) /\ row'[d].kind = row[d].kind /\ row'[d].scope = row[d].scope
<1>1. CASE Asked(row[d], row'[d]) \/ Inserted(row[d], row'[d])
  BY <1>1 DEF Asked, Inserted, Lifecycle!Asked
<1>2. CASE Keeps(row[d], row'[d]) /\ Stays(row[d], row'[d])
  BY <1>2 DEF Keeps, Stays, Lifecycle!Stays
<1>3. CASE Keeps(row[d], row'[d]) /\ (Starts(row[d], row'[d]) \/ Returns(row[d], row'[d]))
  BY <1>3 DEF Keeps, Starts, Returns, Lifecycle!Moves
<1>4. CASE Keeps(row[d], row'[d]) /\ Ends(row[d], row'[d])
  BY <1>4 DEF Keeps, Ends, Outcomes, RollbackRuns, Lifecycle!Moves
<1> QED
  BY <1>1, <1>2, <1>3, <1>4 DEF RowStep, QuietStep

\* The queue implements DeployLifecycle, whatever is called in whatever order: every
\* statement moves each deploy along its life or leaves it, and none reopens a deploy
\* that ended or starts one beside another of its app environment.
THEOREM QueueImplementsLifecycle == ASSUME QueueAssumption PROVE Spec => ImplementsLifecycle
<1>1. Init => Lifecycle!LifecycleInit
  BY DEF Init, NoRow, Lifecycle!LifecycleInit
<1>2. TypeOK /\ RollbackRuns /\ OneRunningPerScope' /\ [Next]_row
        => [Lifecycle!LifecycleNext]_(Lifecycle!lifecycleVars)
  <2> SUFFICES ASSUME TypeOK, RollbackRuns, OneRunningPerScope', [Next]_row
               PROVE  Lifecycle!LifecycleNext
    OBVIOUS
  <2>1. \A d \in Deploys : RowStep(row[d], row'[d])
    BY NextStep DEF RowsStep
  <2>2. Lifecycle!Quiet'
    BY DEF OneRunningPerScope, Running, Lifecycle!Quiet
  <2> QED
    BY <2>1, <2>2, RowStepIsLife DEF Lifecycle!LifecycleNext
<1> QED
  BY <1>1, <1>2, TypeCorrect, RollbacksRun, OneDeployPerScope, PTL
  DEF Spec, ImplementsLifecycle, Lifecycle!LifecycleSpec

-------------------------------------------------------------------------------
(* How a deploy gives way to a newer one, and how rows are numbered.       *)

\* What every row keeps: whether it is there, and its number.
Old(x, y) == y.seq = x.seq /\ (y.status = "absent" <=> x.status = "absent")

\* A row that is neither replaced nor told to stop for a newer deploy.
Meek(x, y) ==
  /\ Old(x, y)
  /\ y.status = "superseded" => x.status = "superseded" /\ y.successor = x.successor
  /\ y.cancel = "supersede" => x.cancel = "supersede"

\* A running deploy ends as superseded.
GivesUp(x, y) == Old(x, y) /\ x.status = "running" /\ y.status = "superseded" /\ y.cancel = x.cancel

\* A queued push is replaced.
IsReplaced(d) ==
  /\ Old(row[d], row'[d])
  /\ row[d].status = "queued" /\ row[d].kind = "push"
  /\ row'[d].status = "superseded" /\ row'[d].cancel = row[d].cancel
  /\ row'[d].successor \in Deploys \ {d}
  /\ row'[row'[d].successor].status = "queued" /\ row'[row'[d].successor].scope = row[d].scope

\* A running push is told to stop.
IsWarned(d) ==
  /\ Old(row[d], row'[d])
  /\ row[d].status = "running" /\ row[d].kind = "push" /\ row'[d].status = "running"

OldWay(d) == Meek(row[d], row'[d]) \/ GivesUp(row[d], row'[d]) \/ IsReplaced(d) \/ IsWarned(d)

Written == {d \in Deploys : row[d].status # "absent"}

\* The row an enqueue or a rollback adds, with the next number.
IsNew(d) ==
  /\ row[d].status = "absent" /\ row'[d].status \in {"queued", "running"}
  /\ row'[d].cancel = "none" /\ row'[d].seq = Cardinality(Written) + 1

WaySteps == \/ \A d \in Deploys : OldWay(d)
            \/ \E d \in Deploys : IsNew(d) /\ \A x \in Deploys \ {d} : OldWay(x)

LEMMA SameMeek == \A x : Meek(x, x)
BY DEF Meek, Old

LEMMA WriteMeek ==
  ASSUME TypeOK, NEW d \in Deploys, NEW new, Write(d, new), Meek(row[d], new)
  PROVE  WaySteps
<1>1. ASSUME NEW x \in Deploys PROVE Meek(row[x], row'[x])
  BY SameMeek DEF Write, TypeOK
<1> QED
  BY <1>1 DEF WaySteps, OldWay

\* An insert of one row.
LEMMA InsertIsNew ==
  ASSUME TypeOK, NEW d \in Deploys, NEW s, NEW k, NEW new, Write(d, new), row[d].status = "absent",
         new.status \in {"queued", "running"}, new.cancel = "none", new.seq = NewRow(s, k).seq
  PROVE  WaySteps
<1>1. ASSUME NEW x \in Deploys \ {d} PROVE Meek(row[x], row'[x])
  BY SameMeek DEF Write, TypeOK
<1>2. row'[d] = new /\ NewRow(s, k).seq = Cardinality(Written) + 1
  BY DEF Write, TypeOK, NewRow, NoRow, Written
<1> QED
  BY <1>1, <1>2 DEF WaySteps, OldWay, IsNew

\* Who replaces and stops what.
LEMMA SupersedesPushes ==
  ASSUME NEW r, NEW d, NEW x \in Deploys
  PROVE  \/ ApplySupersede(r, d)[x] = r[x]
         \/ /\ r[x].status = "queued" /\ x # d /\ r[x].kind = "push" /\ r[x].scope = r[d].scope
            /\ ApplySupersede(r, d)[x] = Replaced(r[x], d)
         \/ /\ r[x].status = "running" /\ r[x].kind = "push"
            /\ ApplySupersede(r, d)[x] = ToldToStop(r[x])
BY Zenon DEF ApplySupersede, Automatic

\* applySupersede, for a deploy that is queued by the same statement.
LEMMA SupersedeWay ==
  ASSUME TypeOK, NEW r \in [Deploys -> Row], NEW d \in Deploys, row' = ApplySupersede(r, d),
         \A x \in Deploys \ {d} : r[x] = row[x],
         r[d].status = "queued"
  PROVE  row'[d] = r[d] /\ \A x \in Deploys \ {d} : OldWay(x)
<1>1. row'[d] = r[d]
  BY SupersedeEffect
<1>2. ASSUME NEW x \in Deploys \ {d} PROVE OldWay(x)
  <2>0. row[x] \in Row /\ r[x] = row[x]
    OBVIOUS
  <2>1. CASE row'[x] = row[x]
    BY <2>1, SameMeek DEF OldWay
  <2>2. ASSUME NEW z \in Row
        PROVE  /\ Replaced(z, d).status = "superseded" /\ Replaced(z, d).successor = d
               /\ Replaced(z, d).cancel = z.cancel /\ Replaced(z, d).seq = z.seq
               /\ ToldToStop(z).status = z.status /\ ToldToStop(z).seq = z.seq
    BY DEF Replaced, ToldToStop, Row
  <2>3. CASE /\ row[x].status = "queued" /\ row[x].kind = "push" /\ row[x].scope = r[d].scope
             /\ row'[x] = Replaced(row[x], d)
    <3>1. /\ row'[x].status = "superseded" /\ row'[x].successor = d /\ row'[x].cancel = row[x].cancel
          /\ row'[x].seq = row[x].seq
      BY <2>0, <2>2, <2>3
    <3>2. row'[d].status = "queued" /\ row'[d].scope = row[x].scope
      BY <1>1, <2>3
    <3> QED
      BY <2>3, <3>1, <3>2 DEF OldWay, IsReplaced, Old
  <2>4. CASE row[x].status = "running" /\ row[x].kind = "push" /\ row'[x] = ToldToStop(row[x])
    <3>1. row'[x].status = "running" /\ row'[x].seq = row[x].seq
      BY <2>0, <2>2, <2>4
    <3> QED
      BY <2>4, <3>1 DEF OldWay, IsWarned, Old
  <2> QED
    BY <2>0, <2>1, <2>3, <2>4, SupersedesPushes
<1> QED
  BY <1>1, <1>2

\* Every statement of the queue makes rows give way only so.
LEMMA RequestWay ==
  ASSUME QueueAssumption, TypeOK, NEW d \in Deploys, Request(d)
  PROVE  WaySteps
<1>0. row[d] \in Row
  BY RowType
<1>1. \A s, k : /\ NewRow(s, k).status = "queued" /\ NewRow(s, k).cancel = "none"
                /\ [NewRow(s, k) EXCEPT !.held = TRUE].status = "queued"
                /\ [NewRow(s, k) EXCEPT !.held = TRUE].cancel = "none"
  BY DEF NewRow, NoRow
<1>2. ASSUME NEW s \in Scopes, NEW k \in Kinds, EnqueueDeploy(d, s, k) PROVE WaySteps
  <2> DEFINE r == [row EXCEPT ![d] = NewRow(s, k)]
  <2>1. r \in [Deploys -> Row] /\ row' = ApplySupersede(r, d)
    BY <1>2, NewRowType DEF EnqueueDeploy, TypeOK
  <2>2. r[d] = NewRow(s, k) /\ \A x \in Deploys \ {d} : r[x] = row[x]
    BY DEF TypeOK
  <2> HIDE DEF r
  <2>3. r[d].status = "queued"
    BY <1>1, <2>2
  <2>4. row'[d] = NewRow(s, k) /\ \A x \in Deploys \ {d} : OldWay(x)
    BY <2>1, <2>2, <2>3, SupersedeWay
  <2>5. IsNew(d)
    <3>1. NewRow(s, k).seq = Cardinality(Written) + 1
      BY DEF NewRow, NoRow, Written
    <3> QED
      BY <1>1, <1>2, <2>4, <3>1 DEF IsNew, EnqueueDeploy
  <2> QED
    BY <2>4, <2>5 DEF WaySteps
<1>3. ASSUME NEW s \in Scopes, NEW k \in Kinds, EnqueueHeld(d, s, k) PROVE WaySteps
  <2> DEFINE new == [NewRow(s, k) EXCEPT !.held = TRUE]
  <2>1. new.seq = NewRow(s, k).seq
    BY DEF NewRow, NoRow
  <2>2. Write(d, new) /\ row[d].status = "absent" /\ new.status = "queued" /\ new.cancel = "none"
    BY <1>1, <1>3 DEF EnqueueHeld
  <2> HIDE DEF new
  <2> QED
    BY <2>1, <2>2, InsertIsNew
<1>4. CASE ReleaseHeldDeploy(d)
  <2> DEFINE r == [row EXCEPT ![d].held = FALSE]
  <2>1. \A z \in Row : LET y == [z EXCEPT !.held = FALSE] IN Meek(z, y) /\ y.status = z.status
    BY DEF Row, Meek, Old
  <2>2. r \in [Deploys -> Row] /\ row' = ApplySupersede(r, d)
    BY <1>0, <1>4, HeldType DEF ReleaseHeldDeploy, TypeOK
  <2>3. r[d] = [row[d] EXCEPT !.held = FALSE] /\ \A x \in Deploys \ {d} : r[x] = row[x]
    BY DEF TypeOK
  <2> HIDE DEF r
  <2>4. r[d].status = "queued" /\ Meek(row[d], r[d])
    BY <1>0, <1>4, <2>1, <2>3 DEF ReleaseHeldDeploy
  <2>5. row'[d] = r[d] /\ \A x \in Deploys \ {d} : OldWay(x)
    BY <2>2, <2>3, <2>4, SupersedeWay
  <2>6. OldWay(d)
    BY <2>4, <2>5 DEF OldWay
  <2> QED
    BY <2>5, <2>6 DEF WaySteps
<1>5. CASE BumpDeploy(d)
  <2>1. PICK n : Write(d, [row[d] EXCEPT !.bumped = n])
    BY <1>5 DEF BumpDeploy
  <2>2. \A z \in Row : Meek(z, [z EXCEPT !.bumped = n])
    BY DEF Row, Meek, Old
  <2> QED
    BY <1>0, <2>1, <2>2, WriteMeek
<1>6. ASSUME NEW reason \in {"user", "timeout"}, CancelQueued(d, reason) \/ FlagRunning(d, reason)
      PROVE  WaySteps
  <2>1. \A z \in Row : /\ z.status # "absent" => Meek(z, [z EXCEPT !.status = "cancelled", !.cancel = reason])
                       /\ Meek(z, [z EXCEPT !.cancel = reason])
                       /\ Meek(z, [z EXCEPT !.cancel = z.cancel])
    BY DEF Row, Meek, Old
  <2>2. CASE CancelQueued(d, reason)
    <3>1. row[d].status # "absent" /\ Write(d, [row[d] EXCEPT !.status = "cancelled", !.cancel = reason])
      BY <2>2 DEF CancelQueued
    <3> QED
      BY <1>0, <2>1, <3>1, WriteMeek, Zenon
  <2>3. CASE FlagRunning(d, reason)
    <3>1. Write(d, [row[d] EXCEPT !.cancel = reason]) \/ Write(d, [row[d] EXCEPT !.cancel = row[d].cancel])
      BY <2>3 DEF FlagRunning
    <3> QED
      BY <1>0, <2>1, <3>1, WriteMeek, Zenon
  <2> QED
    BY <1>6, <2>2, <2>3
<1> QED
  BY <1>2, <1>3, <1>4, <1>5, <1>6 DEF Request

LEMMA EndsWay ==
  ASSUME TypeOK, RollbackRuns, NEW d \in Deploys,
         \/ Sweep(d) \/ LapseLease(d) \/ AgeExclusive(d) \/ Rollback(d)
  PROVE  WaySteps
<1>0. row[d] \in Row
  BY RowType
<1>1. \A z \in Row : \A o, n :
        /\ z.status # "absent" /\ o # "absent" /\ o # "superseded" => Meek(z, [z EXCEPT !.status = o])
        /\ z.status # "absent" => Meek(z, [z EXCEPT !.status = "failed", !.hold = "off"])
        /\ Meek(z, [z EXCEPT !.live = FALSE])
        /\ Meek(z, [z EXCEPT !.hold = "stale"])
        /\ z.status # "absent" =>
             Meek(z, [z EXCEPT !.status = "queued", !.by = NoExec, !.live = FALSE, !.stage = "none",
                               !.attempts = n, !.hold = "off"])
  BY DEF Meek, Old, Row
<1>2. ASSUME NEW o, row[d].status # "absent", o # "absent", o # "superseded",
             Write(d, [row[d] EXCEPT !.status = o])
      PROVE  WaySteps
  BY <1>0, <1>1, <1>2, WriteMeek, Zenon
<1>3. CASE ExpireQueued(d) \/ MarkRolledBack(d)
  <2>1. "cancelled" # "superseded" /\ "rolled_back" # "superseded" /\ "cancelled" # "absent" /\ "rolled_back" # "absent"
    OBVIOUS
  <2>2. row[d].status # "absent"
    BY <1>3 DEF ExpireQueued, MarkRolledBack
  <2> QED
    BY <1>2, <1>3, <2>1, <2>2, Zenon DEF ExpireQueued, MarkRolledBack
<1>4. CASE FailDeadDeploy(d)
  <2>1. row[d].status # "absent" /\ Write(d, [row[d] EXCEPT !.status = "failed", !.hold = "off"])
    BY <1>4 DEF FailDeadDeploy, Expired
  <2> QED
    BY <1>0, <1>1, <2>1, WriteMeek, Zenon
<1>5. CASE LapseLease(d) \/ AgeExclusive(d)
  BY <1>0, <1>1, <1>5, WriteMeek, Zenon DEF LapseLease, AgeExclusive
<1>6. ASSUME NEW o, FinishRollback(d, o) PROVE WaySteps
  <2>1. o # "superseded" /\ o # "absent" /\ row[d].status # "absent" /\ Write(d, [row[d] EXCEPT !.status = o])
    BY <1>6 DEF FinishRollback, RollbackRuns
  <2> QED
    BY <1>2, <2>1
<1>7. ASSUME NEW s, SweepRequeue(d, s) PROVE WaySteps
  <2> DEFINE n == IF s = "none" THEN row[d].attempts ELSE row[d].attempts + 1
  <2>1. /\ row[d].status # "absent"
        /\ Write(d, [row[d] EXCEPT !.status = "queued", !.by = NoExec, !.live = FALSE, !.stage = "none",
                                   !.attempts = n, !.hold = "off"])
    BY <1>7 DEF SweepRequeue, Expired
  <2> HIDE DEF n
  <2> QED
    BY <1>0, <1>1, <2>1, WriteMeek, Zenon
<1>8. ASSUME NEW e, NEW s, InsertRollback(e, d, s) PROVE WaySteps
  <2> DEFINE new == [NewRow(s, "rollback") EXCEPT !.status = "running", !.by = e, !.live = TRUE]
  <2>1. new.status = "running" /\ new.cancel = "none" /\ new.seq = NewRow(s, "rollback").seq
    BY DEF NewRow, NoRow
  <2>2. Write(d, new) /\ row[d].status = "absent"
    BY <1>8 DEF InsertRollback
  <2> HIDE DEF new
  <2> QED
    BY <2>1, <2>2, InsertIsNew
<1> QED
  BY <1>3, <1>4, <1>5, <1>6, <1>7, <1>8 DEF Sweep, Rollback

LEMMA RunWay ==
  ASSUME TypeOK, NEW e \in Executors, NEW d \in Deploys, ExecutorWrite(e, d)
  PROVE  WaySteps
<1>0. row[d] \in Row
  BY RowType
<1>1. \A z \in Row : \A s, h, n :
        /\ Meek(z, [z EXCEPT !.stage = s])
        /\ Meek(z, [z EXCEPT !.stage = s, !.live = TRUE])
        /\ Meek(z, [z EXCEPT !.cancel = "none"])
        /\ Meek(z, [z EXCEPT !.cancel = z.cancel])
        /\ Meek(z, [z EXCEPT !.hold = h])
        /\ Meek(z, [z EXCEPT !.waiting = n])
        /\ Meek(z, [z EXCEPT !.claimSlot = "none"])
        /\ z.status # "absent" =>
             Meek(z, [z EXCEPT !.status = "queued", !.by = NoExec, !.live = FALSE,
                               !.stage = "none", !.claimSlot = "local", !.waiting = 0])
  BY DEF Meek, Old, Row
<1>2. ASSUME NEW o \in Outcomes, NEW t, Finish(e, d, o, t) PROVE WaySteps
  <2> DEFINE k == IF o = "superseded" THEN t ELSE row[d].successor
             h == IF o = "success" /\ IsSelf(d) THEN OtherSlot(SlotOf[e]) ELSE row[d].home
  <2>1. row[d].status = "running" /\ Write(d, [row[d] EXCEPT !.status = o, !.successor = k, !.home = h])
    BY <1>2 DEF Finish, Owned
  <2>2. \A z \in Row : \A v, w : LET y == [z EXCEPT !.status = o, !.successor = v, !.home = w] IN
          /\ y.status = o /\ y.cancel = z.cancel /\ y.seq = z.seq
          /\ o # "superseded" /\ o # "absent" /\ z.status # "absent" => Meek(z, y)
    BY DEF Row, Meek, Old
  <2> HIDE DEF k, h
  <2>3. CASE o # "superseded"
    <3>1. Meek(row[d], [row[d] EXCEPT !.status = o, !.successor = k, !.home = h])
      <4>1. o # "absent" /\ row[d].status # "absent"
        BY <2>1 DEF Outcomes
      <4> QED
        BY <1>0, <2>2, <2>3, <4>1, Zenon
    <3> QED
      BY <2>1, <3>1, WriteMeek
  <2>4. CASE o = "superseded"
    <3>1. row'[d] = [row[d] EXCEPT !.status = o, !.successor = k, !.home = h]
      BY <2>1 DEF Write, TypeOK
    <3>2. GivesUp(row[d], row'[d])
      BY <1>0, <2>1, <2>2, <2>4, <3>1 DEF GivesUp, Old
    <3>3. \A x \in Deploys \ {d} : Meek(row[x], row'[x])
      BY <2>1, SameMeek DEF Write, TypeOK
    <3> QED
      BY <3>2, <3>3 DEF WaySteps, OldWay
  <2> QED
    BY <2>3, <2>4
<1>3. ASSUME NEW s, MarkStage(e, d, s) PROVE WaySteps
  BY <1>0, <1>1, <1>3, WriteMeek, Zenon DEF MarkStage
<1>4. ASSUME EndLocalWait(d) PROVE WaySteps
  BY <1>0, <1>1, <1>4, WriteMeek, Zenon DEF EndLocalWait
<1>9. ASSUME RequeueForLocalSlot(e, d) PROVE WaySteps
  <2>1. /\ row[d].status # "absent"
        /\ Write(d, [row[d] EXCEPT !.status = "queued", !.by = NoExec, !.live = FALSE,
                                   !.stage = "none", !.claimSlot = "local", !.waiting = 0])
    BY <1>9 DEF RequeueForLocalSlot, Owned
  <2> QED
    BY <1>0, <1>1, <2>1, WriteMeek, Zenon
<1>5. ASSUME TakeLocalSlot(e, d) \/ AwaitLocalSlot(e, d) PROVE WaySteps
  BY <1>0, <1>1, <1>5, WriteMeek, Zenon DEF TakeLocalSlot, AwaitLocalSlot
<1>6. ASSUME EnterSwap(e, d) PROVE WaySteps
  BY <1>0, <1>1, <1>6, WriteMeek, Zenon DEF EnterSwap
<1>7. ASSUME DropSupersede(d) PROVE WaySteps
  <2>1. Write(d, [row[d] EXCEPT !.cancel = "none"]) \/ Write(d, [row[d] EXCEPT !.cancel = row[d].cancel])
    BY <1>7 DEF DropSupersede
  <2> QED
    BY <1>0, <1>1, <2>1, WriteMeek, Zenon
<1>8. ASSUME SetExclusive(d) \/ ReleaseExclusive(d) PROVE WaySteps
  BY <1>0, <1>1, <1>8, WriteMeek, Zenon DEF SetExclusive, ReleaseExclusive
<1> QED
  BY <1>2, <1>3, <1>4, <1>5, <1>6, <1>7, <1>8, <1>9 DEF ExecutorWrite

LEMMA ClaimWay ==
  ASSUME TypeOK, NEW e, NEW here, NEW there, ClaimDeploys(e, here, there)
  PROVE  WaySteps
<1>1. \A z \in Row : \A slot : z.status = "queued" =>
        Meek(z, [z EXCEPT !.status = "running", !.by = e, !.live = TRUE, !.stage = "none",
                 !.bumped = 0, !.claimSlot = slot, !.waiting = 0])
  BY DEF Meek, Old, Row
<1>2. ASSUME NEW x \in Deploys PROVE Meek(row[x], row'[x])
  <2>1. \/ row'[x] = row[x]
        \/ x \in here \cup there /\ \E slot : row'[x] = Claimed(x, e, slot)
    BY DEF ClaimDeploys, AfterClaim
  <2>2. x \in here \cup there => row[x].status = "queued"
    BY PicksAreHeads DEF Heads, Claimable, Queued
  <2>3. ASSUME x \in here \cup there, NEW slot, row'[x] = Claimed(x, e, slot) PROVE Meek(row[x], row'[x])
    <3>1. row[x] \in Row /\ row[x].status = "queued"
      BY <2>2, <2>3, RowType
    <3>2. Meek(row[x], Claimed(x, e, slot))
      BY <1>1, <3>1, Zenon DEF Claimed
    <3> QED
      BY <2>3, <3>2
  <2> QED
    BY <2>1, <2>3, SameMeek
<1> QED
  BY <1>2 DEF WaySteps, OldWay

LEMMA AllRowsWay ==
  ASSUME TypeOK, NEW e, NEW ids, RenewLeases(e, ids) \/ ClearFinishedExclusive(e)
  PROVE  WaySteps
<1>1. \A x \in Row : Meek(x, [x EXCEPT !.live = TRUE]) /\ Meek(x, [x EXCEPT !.hold = "off"])
  BY DEF Meek, Old, Row
<1>2. \A d \in Deploys : Meek(row[d], [row[d] EXCEPT !.live = TRUE]) /\ Meek(row[d], [row[d] EXCEPT !.hold = "off"])
  BY <1>1, RowType, Zenon
<1>3. \A d \in Deploys : \/ row'[d] = row[d]
                         \/ row'[d] = [row[d] EXCEPT !.live = TRUE]
                         \/ row'[d] = [row[d] EXCEPT !.hold = "off"]
  BY Zenon DEF RenewLeases, ClearFinishedExclusive
<1> QED
  BY <1>2, <1>3, SameMeek, Zenon DEF WaySteps, OldWay

LEMMA NextWay ==
  ASSUME QueueAssumption, TypeOK, RollbackRuns, [Next]_row
  PROVE  WaySteps
<1>1. CASE UNCHANGED row
  BY <1>1, SameMeek DEF WaySteps, OldWay
<1> QED
  BY <1>1, RequestWay, EndsWay, RunWay, ClaimWay, AllRowsWay, Zenon DEF Next

===============================================================================
