------------------------- MODULE DeployQueueCapacity -------------------------
(***************************************************************************)
(* The slots of the deploy queue: what each statement does to them, that   *)
(* they are never given out beyond their number, that a waiter whose slot  *)
(* has come keeps it, and that Vardo's own deploys find theirs; for any    *)
(* number of deploys and slots.                                            *)
(***************************************************************************)
EXTENDS DeployQueueProofs, WellFoundedInduction

\* The reruns of a deploy are counted as before, from none.
SameCount(x, y) == y.attempts = x.attempts \/ (x.status = "absent" /\ y.attempts = 0)

\* A row that runs after a step ran before it, in the same slot, and waits as it did
\* or no longer.
KeepsSlot(x, y) ==
  /\ y.status = "running" =>
       /\ x.status = "running" /\ y.claimSlot = x.claimSlot /\ y.kind = x.kind
       /\ y.waiting \in {x.waiting, 0}
  /\ SameCount(x, y)

RowsCountAsBefore == \A x \in Deploys : SameCount(row[x], row'[x])

RowsKeepSlots == \A x \in Deploys : KeepsSlot(row[x], row'[x])

-------------------------------------------------------------------------------
(* Which statements leave the slots as they are.                           *)

\* An unchanged row keeps its slot.
LEMMA SameSlot ==
  ASSUME NEW x
  PROVE  KeepsSlot(x, x)
BY DEF KeepsSlot, SameCount

\* An update of one row that keeps its slot.
LEMMA WriteSlot ==
  ASSUME TypeOK, NEW d \in Deploys, NEW new, Write(d, new), KeepsSlot(row[d], new)
  PROVE  RowsKeepSlots
BY SameSlot DEF RowsKeepSlots, TypeOK, Write

\* applySupersede, of a table whose rows kept their slots.
LEMMA SupersedeSlot ==
  ASSUME TypeOK, NEW r \in [Deploys -> Row], NEW d \in Deploys, row' = ApplySupersede(r, d),
         \A x \in Deploys : KeepsSlot(row[x], r[x])
  PROVE  RowsKeepSlots
<1> SUFFICES ASSUME NEW x \in Deploys PROVE KeepsSlot(row[x], row'[x])
  BY DEF RowsKeepSlots
<1>1. r[x] \in Row
  OBVIOUS
<1>2. \A z \in Row : Replaced(z, d).status # "running" /\ Replaced(z, d).attempts = z.attempts
  BY DEF Replaced, Row
<1>3. \A z \in Row : /\ ToldToStop(z).attempts = z.attempts /\ ToldToStop(z).status = z.status /\ ToldToStop(z).claimSlot = z.claimSlot
                     /\ ToldToStop(z).kind = z.kind /\ ToldToStop(z).waiting = z.waiting
  BY DEF ToldToStop, Row
<1> QED
  BY <1>1, <1>2, <1>3, SupersedeEffect DEF KeepsSlot, SameCount

\* What clients ask for leaves the slots alone.
LEMMA RequestKeepsSlots ==
  ASSUME QueueAssumption, TypeOK, NEW d \in Deploys, Request(d)
  PROVE  RowsKeepSlots
<1>0. row[d] \in Row
  BY RowType
<1>1. \A s, k : /\ NewRow(s, k).status = "queued" /\ NewRow(s, k).attempts = 0
                /\ [NewRow(s, k) EXCEPT !.held = TRUE].status = "queued"
                /\ [NewRow(s, k) EXCEPT !.held = TRUE].attempts = 0
  BY DEF NewRow, NoRow
<1>2. ASSUME NEW s \in Scopes, NEW k \in Kinds, EnqueueDeploy(d, s, k) PROVE RowsKeepSlots
  <2> DEFINE r == [row EXCEPT ![d] = NewRow(s, k)]
  <2>1. r \in [Deploys -> Row] /\ row' = ApplySupersede(r, d)
    BY <1>2, NewRowType DEF EnqueueDeploy, TypeOK
  <2>2. \A x \in Deploys : KeepsSlot(row[x], r[x])
    BY <1>1, <1>2, SameSlot DEF TypeOK, KeepsSlot, SameCount, EnqueueDeploy
  <2> QED
    BY <2>1, <2>2, SupersedeSlot
<1>3. ASSUME NEW s \in Scopes, NEW k \in Kinds, EnqueueHeld(d, s, k) PROVE RowsKeepSlots
  BY <1>1, <1>3, WriteSlot DEF EnqueueHeld, KeepsSlot, SameCount
<1>4. CASE ReleaseHeldDeploy(d)
  <2> DEFINE r == [row EXCEPT ![d].held = FALSE]
  <2>1. [row[d] EXCEPT !.held = FALSE] \in Row /\ KeepsSlot(row[d], [row[d] EXCEPT !.held = FALSE])
    BY <1>0 DEF Row, KeepsSlot, SameCount
  <2>2. r \in [Deploys -> Row] /\ row' = ApplySupersede(r, d)
    BY <1>4, <2>1 DEF ReleaseHeldDeploy, TypeOK
  <2>3. \A x \in Deploys : KeepsSlot(row[x], r[x])
    BY <2>1, SameSlot DEF TypeOK
  <2> QED
    BY <2>2, <2>3, SupersedeSlot
<1>5. CASE BumpDeploy(d)
  <2>1. PICK n : Write(d, [row[d] EXCEPT !.bumped = n])
    BY <1>5 DEF BumpDeploy
  <2>2. KeepsSlot(row[d], [row[d] EXCEPT !.bumped = n])
    BY <1>0 DEF KeepsSlot, SameCount, Row
  <2> QED
    BY <2>1, <2>2, WriteSlot
<1>6. ASSUME NEW reason \in {"user", "timeout"}, CancelQueued(d, reason) \/ FlagRunning(d, reason)
      PROVE  RowsKeepSlots
  <2>1. \A c : /\ KeepsSlot(row[d], [row[d] EXCEPT !.cancel = c])
               /\ KeepsSlot(row[d], [row[d] EXCEPT !.status = "cancelled", !.cancel = c])
    BY <1>0 DEF KeepsSlot, SameCount, Row
  <2> QED
    BY <1>6, <2>1, WriteSlot, Zenon DEF CancelQueued, FlagRunning
<1> QED
  BY <1>2, <1>3, <1>4, <1>5, <1>6 DEF Request

\* The clocks and what ends a row without its run free slots at most.
LEMMA EndsKeepSlots ==
  ASSUME TypeOK, NEW d \in Deploys,
         \/ FailDeadDeploy(d) \/ ExpireQueued(d) \/ LapseLease(d) \/ AgeExclusive(d) \/ MarkRolledBack(d)
         \/ \E o \in Outcomes \cup {"deleted"} : FinishRollback(d, o)
  PROVE  RowsKeepSlots
<1>0. row[d] \in Row
  BY RowType
<1>2. /\ \A o : o # "running" => KeepsSlot(row[d], [row[d] EXCEPT !.status = o])
      /\ KeepsSlot(row[d], [row[d] EXCEPT !.status = "failed", !.hold = "off"])
      /\ KeepsSlot(row[d], [row[d] EXCEPT !.live = FALSE])
      /\ KeepsSlot(row[d], [row[d] EXCEPT !.hold = "stale"])
  BY <1>0 DEF KeepsSlot, SameCount, Row
<1>3. ASSUME NEW o, FinishRollback(d, o) PROVE RowsKeepSlots
  <2>1. o # "running"
    BY <1>3 DEF FinishRollback
  <2> QED
    BY <1>2, <1>3, <2>1, WriteSlot, Zenon DEF FinishRollback
<1>4. CASE \/ FailDeadDeploy(d) \/ ExpireQueued(d) \/ LapseLease(d) \/ AgeExclusive(d)
           \/ MarkRolledBack(d)
  <2>1. "cancelled" # "running" /\ "rolled_back" # "running"
    OBVIOUS
  <2> QED
    BY <1>2, <1>4, <2>1, WriteSlot, Zenon
    DEF FailDeadDeploy, ExpireQueued, LapseLease, AgeExclusive, MarkRolledBack
<1> QED
  BY <1>3, <1>4

\* Of what a run writes, only the moves between a target's slot and this server's
\* concern slots it goes on with.
LEMMA RunKeepsSlots ==
  ASSUME TypeOK, NEW e \in Executors, NEW d \in Deploys, ExecutorWrite(e, d),
         ~TakeLocalSlot(e, d), ~AwaitLocalSlot(e, d)
  PROVE  RowsKeepSlots
<1>0. row[d] \in Row
  BY RowType
<1>1. \A s, c, h, n :
        /\ KeepsSlot(row[d], [row[d] EXCEPT !.stage = s])
        /\ KeepsSlot(row[d], [row[d] EXCEPT !.stage = s, !.live = TRUE])
        /\ KeepsSlot(row[d], [row[d] EXCEPT !.cancel = c])
        /\ KeepsSlot(row[d], [row[d] EXCEPT !.hold = h])
        /\ KeepsSlot(row[d], [row[d] EXCEPT !.waiting = 0])
        /\ KeepsSlot(row[d], [row[d] EXCEPT !.status = "queued", !.by = NoExec, !.live = FALSE,
                                            !.stage = "none", !.claimSlot = "local", !.waiting = 0])
  BY <1>0 DEF KeepsSlot, SameCount, Row
<1>2. ASSUME NEW o \in Outcomes, NEW t, Finish(e, d, o, t) PROVE RowsKeepSlots
  <2>1. \A u, h : KeepsSlot(row[d], [row[d] EXCEPT !.status = o, !.successor = u, !.home = h])
    BY <1>0 DEF KeepsSlot, SameCount, Row, Outcomes
  <2> DEFINE successor == IF o = "superseded" THEN t ELSE row[d].successor
             home == IF o = "success" /\ IsSelf(d) THEN OtherSlot(SlotOf[e]) ELSE row[d].home
  <2>2. Write(d, [row[d] EXCEPT !.status = o, !.successor = successor, !.home = home])
    BY <1>2 DEF Finish
  <2> QED
    BY <2>1, <2>2, WriteSlot, Zenon
<1>3. ASSUME NEW s, MarkStage(e, d, s) PROVE RowsKeepSlots
  BY <1>1, <1>3, WriteSlot, Zenon DEF MarkStage
<1>4. ASSUME EndLocalWait(d) \/ RequeueForLocalSlot(e, d) PROVE RowsKeepSlots
  BY <1>1, <1>4, WriteSlot, Zenon DEF EndLocalWait, RequeueForLocalSlot
<1>5. ASSUME EnterSwap(e, d) \/ DropSupersede(d) PROVE RowsKeepSlots
  BY <1>1, <1>5, WriteSlot, Zenon DEF EnterSwap, DropSupersede
<1>6. ASSUME SetExclusive(d) \/ ReleaseExclusive(d) PROVE RowsKeepSlots
  BY <1>1, <1>6, WriteSlot, Zenon DEF SetExclusive, ReleaseExclusive
<1> QED
  BY <1>2, <1>3, <1>4, <1>5, <1>6 DEF ExecutorWrite

\* Renewals and the clearing of holds leave slots alone.
LEMMA AllRowsKeepSlots ==
  ASSUME TypeOK, NEW e, NEW ids, RenewLeases(e, ids) \/ ClearFinishedExclusive(e)
  PROVE  RowsKeepSlots
<1>1. \A x \in Row : /\ KeepsSlot(x, [x EXCEPT !.live = TRUE])
                     /\ KeepsSlot(x, [x EXCEPT !.hold = "off"])
  BY DEF KeepsSlot, SameCount, Row
<1>2. \A d \in Deploys : /\ KeepsSlot(row[d], [row[d] EXCEPT !.live = TRUE])
                         /\ KeepsSlot(row[d], [row[d] EXCEPT !.hold = "off"])
  BY <1>1, RowType, Zenon
<1>3. \A d \in Deploys : \/ row'[d] = row[d]
                         \/ row'[d] = [row[d] EXCEPT !.live = TRUE]
                         \/ row'[d] = [row[d] EXCEPT !.hold = "off"]
  BY Zenon DEF RenewLeases, ClearFinishedExclusive
<1> QED
  BY <1>2, <1>3, SameSlot, Zenon DEF RowsKeepSlots

\* The crash rule's requeue, and every other step of the queue.
RerunOf(d) ==
  /\ row[d].kind # "rollback"
  /\ (row[d].attempts = 0 /\ SweepRequeue(d, "build")) \/ SweepRequeue(d, "none")

Counts ==
  \/ \E d \in Deploys : \/ Request(d) \/ FailDeadDeploy(d) \/ ExpireQueued(d) \/ Rollback(d)
                         \/ LapseLease(d) \/ AgeExclusive(d)
  \/ \E e \in Executors, d \in Deploys : ExecutorWrite(e, d)
  \/ \E e \in Executors : \E picks \in ClaimPicks(e) : ClaimDeploys(e, picks[1], picks[2])
  \/ \E e \in Executors : ClearFinishedExclusive(e)
  \/ \E e \in Executors, ids \in SUBSET Deploys : RenewLeases(e, ids)

LEMMA NextIsRerunOrNot == Next <=> Counts \/ \E d \in Deploys : RerunOf(d)
BY Zenon DEF Next, Counts, Sweep, RerunOf

\* A step that is no rerun leaves slots alone or frees some, or it claims, inserts a
\* rollback, or moves a build towards this server.
LEMMA SlotSteps ==
  ASSUME QueueAssumption, TypeOK, [Counts]_row
  PROVE  \/ RowsKeepSlots
         \/ \E e \in Executors : \E picks : ClaimDeploys(e, picks[1], picks[2])
         \/ \E e \in Executors, s \in Scopes, d \in Deploys : InsertRollback(e, d, s)
         \/ \E e \in Executors, d \in Deploys : TakeLocalSlot(e, d)
         \/ \E e \in Executors, d \in Deploys : AwaitLocalSlot(e, d)
<1>1. CASE UNCHANGED row
  BY <1>1, SameSlot DEF RowsKeepSlots
<1>2. CASE Counts
  BY <1>2, RequestKeepsSlots, EndsKeepSlots, RunKeepsSlots, AllRowsKeepSlots, Zenon
  DEF Counts, Rollback
<1> QED
  BY <1>1, <1>2

-------------------------------------------------------------------------------
(* Capacity.                                                               *)

\* The deploys that count against this server's slots.
Counted == {d \in OnServer : row[d].kind # "rollback"}

\* Sets of deploys are finite.
LEMMA DeploysFinite ==
  ASSUME QueueAssumption, NEW S \in SUBSET Deploys
  PROVE  IsFiniteSet(S) /\ Cardinality(S) \in Nat
BY FS_Subset, FS_CardinalityType DEF QueueAssumption

\* A set that grew by part of G at most has that many more members at most.
LEMMA GrowsBy ==
  ASSUME QueueAssumption, NEW S \in SUBSET Deploys, NEW G \in SUBSET Deploys,
         NEW T, T \subseteq S \cup G
  PROVE  /\ Cardinality(T) \in Nat
         /\ Cardinality(T) <= Cardinality(S) + Cardinality(G)
<1>1. IsFiniteSet(S) /\ IsFiniteSet(G) /\ Cardinality(S) \in Nat /\ Cardinality(G) \in Nat
  BY DeploysFinite
<1>2. /\ IsFiniteSet(S \cup G)
      /\ Cardinality(S \cup G) = Cardinality(S) + Cardinality(G) - Cardinality(S \cap G)
  BY <1>1, FS_Union
<1>3. Cardinality(S \cap G) \in Nat
  BY DeploysFinite
<1>4. Cardinality(T) <= Cardinality(S \cup G)
  BY <1>2, FS_Subset
<1>5. Cardinality(T) \in Nat
  BY DeploysFinite
<1> QED
  BY <1>1, <1>2, <1>3, <1>4, <1>5

\* A smaller set of deploys has no more members.
LEMMA Shrinks ==
  ASSUME QueueAssumption, NEW S \in SUBSET Deploys, NEW T, T \subseteq S
  PROVE  Cardinality(T) \in Nat /\ Cardinality(S) \in Nat /\ Cardinality(T) <= Cardinality(S)
BY DeploysFinite, FS_Subset

\* What a claim may take: heads for this server's slots first, then others for a target's.
LEMMA ClaimPicksFrom ==
  ASSUME NEW e, NEW here, NEW there, ClaimDeploys(e, here, there)
  PROVE  \E free \in TargetFree(e) :
           /\ here \in FirstOf(LocalFree(e), Heads(e))
           /\ there \in FirstOf(free, {d \in Heads(e) \ here : ~IsSelf(d) /\ row[d].claimSlot # "local"})
<1> DEFINE There(free, h) ==
             FirstOf(free, {d \in Heads(e) \ h : ~IsSelf(d) /\ row[d].claimSlot # "local"})
           Pairs(free, h) == {<<h, t>> : t \in There(free, h)}
           Picks(free) == UNION {Pairs(free, h) : h \in FirstOf(LocalFree(e), Heads(e))}
<1>1. <<here, there>> \in UNION {Picks(free) : free \in TargetFree(e)}
  BY Zenon DEF ClaimDeploys, ClaimPicks
<1> HIDE DEF Picks
<1>2. PICK free \in TargetFree(e) : <<here, there>> \in Picks(free)
  BY <1>1, Zenon
<1> HIDE DEF Pairs
<1>3. PICK h \in FirstOf(LocalFree(e), Heads(e)) : <<here, there>> \in Pairs(free, h)
  BY <1>2, Zenon DEF Picks
<1> HIDE DEF There
<1>4. PICK t \in There(free, h) : <<here, there>> = <<h, t>>
  BY <1>3, Zenon DEF Pairs
<1>5. here = h /\ there = t
  BY <1>4
<1>6. here \in FirstOf(LocalFree(e), Heads(e)) /\ there \in There(free, here)
  BY <1>3, <1>4, <1>5
<1> QED
  BY <1>6, Zenon DEF There

\* A claim takes this server's deploys within the free slots that nobody waits for, and
\* a target's within what its slots leave.
LEMMA ClaimTakes ==
  ASSUME QueueAssumption, NEW e \in Executors, NEW here, NEW there, ClaimDeploys(e, here, there)
  PROVE  /\ here \in SUBSET Deploys /\ there \in SUBSET Deploys
         /\ here \cap there = {}
         /\ \/ here = {}
            \/ Cardinality(OnServer) + Cardinality(AwaitingLocal) + Cardinality(here) <= Capacity
         /\ there = {} \/ Cardinality(OnTarget) + Cardinality(there) <= TargetSlots
<1>1. PICK free \in TargetFree(e) :
        /\ here \in FirstOf(LocalFree(e), Heads(e))
        /\ there \in FirstOf(free, {d \in Heads(e) \ here : ~IsSelf(d) /\ row[d].claimSlot # "local"})
  BY ClaimPicksFrom, Zenon
<1>2. Heads(e) \subseteq Deploys
  BY DEF Heads, Claimable, Queued
<1>3. /\ here \subseteq Heads(e) /\ there \subseteq Heads(e) \ here
      /\ here = {} \/ Cardinality(here) <= LocalFree(e)
      /\ there = {} \/ Cardinality(there) <= free
  BY <1>1 DEF FirstOf
<1>4. here \in SUBSET Deploys /\ there \in SUBSET Deploys /\ here \cap there = {}
  BY <1>2, <1>3
<1>5. /\ Cardinality(here) \in Nat /\ Cardinality(there) \in Nat
      /\ Cardinality(OnServer) \in Nat /\ Cardinality(OnTarget) \in Nat
      /\ Cardinality(AwaitingLocal) \in Nat
  <2>1. OnServer \subseteq Deploys /\ OnTarget \subseteq Deploys /\ AwaitingLocal \subseteq Deploys
    BY DEF OnServer, OnTarget, AwaitingLocal, Running
  <2> QED
    BY <1>4, <2>1, DeploysFinite
<1>6. here = {} \/ Cardinality(OnServer) + Cardinality(AwaitingLocal) + Cardinality(here) <= Capacity
  <2>1. SelfReady(e) \in {0, 1}
    BY DEF SelfReady
  <2>2. Capacity \in Nat
    BY DEF QueueAssumption
  <2> QED
    BY <1>3, <1>5, <2>1, <2>2 DEF LocalFree
<1>7. there = {} \/ Cardinality(OnTarget) + Cardinality(there) <= TargetSlots
  <2>1. free = 0 \/ (free \in Nat /\ free + Cardinality(OnTarget) <= TargetSlots)
    BY <1>1 DEF TargetFree, QueueAssumption
  <2>2. CASE free = 0
    <3>1. there = {} \/ Cardinality(there) = 0
      BY <1>3, <1>5, <2>2
    <3> QED
      BY <1>4, <3>1, DeploysFinite, FS_EmptySet
  <2>3. CASE free \in Nat /\ free + Cardinality(OnTarget) <= TargetSlots
    <3>1. TargetSlots \in Nat
      BY DEF QueueAssumption
    <3> QED
      BY <1>3, <1>5, <2>3, <3>1
  <2> QED
    BY <2>1, <2>2, <2>3
<1> QED
  BY <1>4, <1>6, <1>7

\* What a claim makes of the sets of running deploys.
LEMMA ClaimMoves ==
  ASSUME QueueAssumption, TypeOK, NEW e \in Executors, NEW here, NEW there,
         ClaimDeploys(e, here, there)
  PROVE  /\ OnServer' \subseteq OnServer \cup here /\ Counted' \subseteq Counted \cup here
         /\ OnTarget' \subseteq OnTarget \cup there /\ AwaitingLocal' \subseteq AwaitingLocal
         /\ \A d \in AwaitingLocal' : row'[d] = row[d]
         /\ RowsCountAsBefore
<1>1. here \cap there = {}
  BY ClaimTakes
<1>2. \A x \in Row : \A slot :
        LET y == [x EXCEPT !.status = "running", !.by = e, !.live = TRUE, !.stage = "none",
                           !.bumped = 0, !.claimSlot = slot, !.waiting = 0]
        IN y.claimSlot = slot /\ y.waiting = 0 /\ y.attempts = x.attempts
  BY DEF Row
<1>3. \A d \in Deploys, slot \in {"none", "target"} :
        /\ Claimed(d, e, slot).claimSlot = slot /\ Claimed(d, e, slot).waiting = 0
        /\ Claimed(d, e, slot).attempts = row[d].attempts
  BY <1>2, RowType, Zenon DEF Claimed
<1>4. \A d \in Deploys : /\ d \in here => row'[d] = Claimed(d, e, "none")
                         /\ d \in there => row'[d] = Claimed(d, e, "target")
                         /\ d \notin here \cup there => row'[d] = row[d]
  BY <1>1 DEF ClaimDeploys, AfterClaim
<1>5. \A d \in Deploys : /\ d \in here => row'[d].claimSlot = "none" /\ row'[d].waiting = 0
                         /\ d \in there => row'[d].claimSlot = "target" /\ row'[d].waiting = 0
                         /\ d \notin here \cup there => row'[d] = row[d]
                         /\ row'[d].attempts = row[d].attempts
  BY <1>3, <1>4
<1>6. AwaitingLocal' \subseteq Deploys \ (here \cup there)
  BY <1>5 DEF AwaitingLocal, OnTarget, Running
<1> QED
  BY <1>5, <1>6 DEF OnServer, Counted, OnTarget, AwaitingLocal, Running, RowsCountAsBefore, SameCount

\* A build that takes a slot of this server leaves the target's; nothing else moves.
LEMMA TakeMoves ==
  ASSUME TypeOK, NEW e, NEW d \in Deploys, TakeLocalSlot(e, d)
  PROVE  /\ OnServer' \subseteq OnServer \cup {d} /\ Counted' \subseteq Counted \cup {d}
         /\ OnTarget' \subseteq OnTarget \ {d} /\ AwaitingLocal' \subseteq AwaitingLocal \ {d}
         /\ \A x \in Deploys \ {d} : row'[x] = row[x]
         /\ RowsCountAsBefore
<1>1. \A x \in Row : /\ [x EXCEPT !.claimSlot = "none"].claimSlot = "none"
                     /\ [x EXCEPT !.claimSlot = "none"].attempts = x.attempts
                     /\ [x EXCEPT !.claimSlot = "none"].status = x.status
  BY DEF Row
<1>2. /\ row'[d].claimSlot = "none" /\ row'[d].status = row[d].status
      /\ row'[d].attempts = row[d].attempts
      /\ \A x \in Deploys \ {d} : row'[x] = row[x]
  BY <1>1, RowType DEF TakeLocalSlot, Write, TypeOK
<1> QED
  BY <1>2 DEF OnServer, Counted, OnTarget, AwaitingLocal, Running, RowsCountAsBefore, SameCount

\* A build that starts to wait stays where it is, behind everybody who waits.
LEMMA AwaitMoves ==
  ASSUME TypeOK, NEW e, NEW d \in Deploys, AwaitLocalSlot(e, d)
  PROVE  /\ OnServer' = OnServer /\ Counted' = Counted /\ OnTarget' = OnTarget
         /\ AwaitingLocal' \subseteq AwaitingLocal \cup {d} /\ d \notin AwaitingLocal
         /\ \A x \in Deploys \ {d} : row'[x] = row[x]
         /\ \A x \in AwaitingLocal : row[x].waiting < row'[d].waiting
         /\ RowsCountAsBefore
<1>1. PICK n \in NextPlace({0} \cup {row[x].waiting : x \in AwaitingLocal}) :
        Write(d, [row[d] EXCEPT !.waiting = n])
  BY DEF AwaitLocalSlot
<1>2. \A x \in AwaitingLocal : row[x].waiting < n
  BY <1>1 DEF NextPlace
<1>3. \A x \in Row : LET y == [x EXCEPT !.waiting = n]
                     IN y.waiting = n /\ y.status = x.status /\ y.claimSlot = x.claimSlot /\ y.kind = x.kind
                        /\ y.attempts = x.attempts
  BY DEF Row
<1>4. /\ row'[d].waiting = n /\ row'[d].status = row[d].status
      /\ row'[d].attempts = row[d].attempts
      /\ row'[d].claimSlot = row[d].claimSlot /\ row'[d].kind = row[d].kind
      /\ \A x \in Deploys \ {d} : row'[x] = row[x]
  BY <1>1, <1>3, RowType DEF Write, TypeOK
<1>5. d \notin AwaitingLocal
  BY DEF AwaitLocalSlot, AwaitingLocal
<1> QED
  BY <1>2, <1>4, <1>5
  DEF OnServer, Counted, OnTarget, AwaitingLocal, Running, RowsCountAsBefore, SameCount

\* A rollback runs on this server, uncounted.
LEMMA InsertMoves ==
  ASSUME TypeOK, NEW e \in Executors, NEW s, NEW d \in Deploys, InsertRollback(e, d, s)
  PROVE  /\ Counted' \subseteq Counted /\ OnTarget' \subseteq OnTarget
         /\ AwaitingLocal' \subseteq AwaitingLocal
         /\ \A x \in Deploys \ {d} : row'[x] = row[x]
         /\ row[d].status = "absent" /\ row'[d].kind = "rollback"
         /\ RowsCountAsBefore
<1> DEFINE new == [NewRow(s, "rollback") EXCEPT !.status = "running", !.by = e, !.live = TRUE]
<1>1. new.claimSlot = "none" /\ new.kind = "rollback" /\ new.attempts = 0
  BY DEF NewRow, NoRow
<1>2. row'[d] = new /\ row[d].status = "absent" /\ \A x \in Deploys \ {d} : row'[x] = row[x]
  BY DEF InsertRollback, Write, TypeOK
<1>3. /\ row'[d].claimSlot = "none" /\ row'[d].kind = "rollback" /\ row[d].status = "absent"
      /\ row'[d].attempts = 0
      /\ \A x \in Deploys \ {d} : row'[x] = row[x]
  BY <1>1, <1>2
<1> QED
  BY <1>3 DEF OnServer, Counted, OnTarget, AwaitingLocal, Running, RowsCountAsBefore, SameCount

\* Rows that keep their slots leave sets of running deploys no larger.
LEMMA KeptMoves ==
  ASSUME TypeOK, RowsKeepSlots
  PROVE  /\ OnServer' \subseteq OnServer /\ Counted' \subseteq Counted
         /\ OnTarget' \subseteq OnTarget /\ AwaitingLocal' \subseteq AwaitingLocal
         /\ \A d \in AwaitingLocal' : row'[d].waiting = row[d].waiting
         /\ RowsCountAsBefore
<1>1. \A d \in Deploys : row[d].waiting \in Nat
  BY RowType DEF Row
<1> QED
  BY <1>1 DEF RowsKeepSlots, RowsCountAsBefore, KeepsSlot, OnServer, Counted, OnTarget, AwaitingLocal, Running

\* A rerun gives its slot back.
LEMMA RerunMoves ==
  ASSUME TypeOK, NEW d \in Deploys, RerunOf(d)
  PROVE  /\ OnServer' \subseteq OnServer /\ Counted' \subseteq Counted
         /\ OnTarget' \subseteq OnTarget /\ AwaitingLocal' \subseteq AwaitingLocal
         /\ \A x \in Deploys \ {d} : row'[x] = row[x]
         /\ row'[d].status = "queued"
         /\ row'[d].attempts \in {row[d].attempts, 1}
<1>1. PICK n \in {row[d].attempts, 1} :
        Write(d, [row[d] EXCEPT !.status = "queued", !.by = NoExec, !.live = FALSE, !.stage = "none",
                                !.attempts = n, !.hold = "off"])
  <2>1. CASE SweepRequeue(d, "none")
    BY <2>1 DEF SweepRequeue
  <2>2. CASE row[d].attempts = 0 /\ SweepRequeue(d, "build")
    BY <2>2 DEF SweepRequeue
  <2> QED
    BY <2>1, <2>2 DEF RerunOf
<1>2. \A x \in Row : \A n_1 :
        LET y == [x EXCEPT !.status = "queued", !.by = NoExec, !.live = FALSE, !.stage = "none",
                           !.attempts = n_1, !.hold = "off"]
        IN y.status = "queued" /\ y.attempts = n_1
  BY DEF Row
<1>3. /\ row'[d].status = "queued" /\ row'[d].attempts = n
      /\ \A x \in Deploys \ {d} : row'[x] = row[x]
  BY <1>1, <1>2, RowType DEF Write, TypeOK
<1> QED
  BY <1>3 DEF OnServer, Counted, OnTarget, AwaitingLocal, Running

\* Claims, moves from a target's slot to this server's and requeues together never run
\* more queued deploys than there are slots, here and on targets (claimDeploys,
\* takeLocalSlot, requeueForLocalSlot).
THEOREM CapacityHolds == ASSUME QueueAssumption PROVE Spec => []WithinCapacity
<1>1. Init => WithinCapacity
  <2> SUFFICES ASSUME Init PROVE WithinCapacity
    OBVIOUS
  <2>1. Running = {}
    BY DEF Init, NoRow, Running
  <2>2. Counted = {} /\ OnTarget = {}
    BY <2>1 DEF Counted, OnServer, OnTarget
  <2>3. Cardinality({}) = 0 /\ Capacity \in Nat /\ TargetSlots \in Nat
    BY FS_EmptySet DEF QueueAssumption
  <2>4. Cardinality(Counted) <= Capacity /\ Cardinality(OnTarget) <= TargetSlots
    BY <2>2, <2>3
  <2> QED
    BY <2>4, Zenon DEF WithinCapacity, Counted
<1>2. TypeOK /\ WithinCapacity /\ [Next]_row => WithinCapacity'
  <2> SUFFICES ASSUME TypeOK, WithinCapacity, [Next]_row PROVE WithinCapacity'
    OBVIOUS
  <2> DEFINE Full(S, T) == Cardinality(S) <= Capacity /\ Cardinality(T) <= TargetSlots
  <2>1. WithinCapacity = Full(Counted, OnTarget) /\ WithinCapacity' = Full(Counted', OnTarget')
    BY DEF WithinCapacity, Counted
  <2>2. /\ Counted \in SUBSET Deploys /\ OnTarget \in SUBSET Deploys /\ OnServer \in SUBSET Deploys
        /\ Counted \subseteq OnServer /\ Capacity \in Nat /\ TargetSlots \in Nat
    BY DEF Counted, OnServer, OnTarget, Running, QueueAssumption
  <2>3. /\ Cardinality(Counted) \in Nat /\ Cardinality(OnTarget) \in Nat
        /\ Cardinality(OnServer) \in Nat /\ Cardinality(Counted) <= Cardinality(OnServer)
    BY <2>2, Shrinks
  <2>4. Full(Counted, OnTarget)
    BY <2>1
  <2>5. ASSUME Counted' \subseteq Counted, OnTarget' \subseteq OnTarget PROVE WithinCapacity'
    <3>1. /\ Cardinality(Counted') \in Nat /\ Cardinality(OnTarget') \in Nat
          /\ Cardinality(Counted') <= Cardinality(Counted)
          /\ Cardinality(OnTarget') <= Cardinality(OnTarget)
      BY <2>2, <2>5, Shrinks
    <3> QED
      BY <2>1, <2>2, <2>3, <2>4, <3>1
  <2>6. ASSUME NEW e \in Executors, NEW picks, ClaimDeploys(e, picks[1], picks[2])
        PROVE  WithinCapacity'
    <3> DEFINE here == picks[1]
               there == picks[2]
    <3>1. /\ here \in SUBSET Deploys /\ there \in SUBSET Deploys
          /\ \/ here = {}
             \/ Cardinality(OnServer) + Cardinality(AwaitingLocal) + Cardinality(here) <= Capacity
          /\ there = {} \/ Cardinality(OnTarget) + Cardinality(there) <= TargetSlots
      BY <2>6, ClaimTakes
    <3>2. Counted' \subseteq Counted \cup here /\ OnTarget' \subseteq OnTarget \cup there
      BY <2>6, ClaimMoves
    <3> HIDE DEF here, there
    <3>3. /\ Cardinality(Counted') \in Nat /\ Cardinality(OnTarget') \in Nat
          /\ Cardinality(Counted') <= Cardinality(Counted) + Cardinality(here)
          /\ Cardinality(OnTarget') <= Cardinality(OnTarget) + Cardinality(there)
      BY <2>2, <3>1, <3>2, GrowsBy
    <3>4. /\ Cardinality(here) \in Nat /\ Cardinality(there) \in Nat
          /\ Cardinality(AwaitingLocal) \in Nat
      <4>1. AwaitingLocal \in SUBSET Deploys
        BY DEF AwaitingLocal, OnTarget, Running
      <4> QED
        BY <3>1, <4>1, DeploysFinite
    <3>5. /\ here = {} => Cardinality(here) = 0
          /\ there = {} => Cardinality(there) = 0
      BY FS_EmptySet
    <3> QED
      BY <2>1, <2>2, <2>3, <2>4, <3>1, <3>3, <3>4, <3>5
  <2>7. ASSUME NEW e \in Executors, NEW d \in Deploys, TakeLocalSlot(e, d) PROVE WithinCapacity'
    <3>1. Counted' \subseteq Counted \cup {d} /\ OnTarget' \subseteq OnTarget
      BY <2>7, TakeMoves
    <3>2. Cardinality(OnServer) < Capacity
      <4>1. Cardinality(OnServer) + Cardinality(Owed(d)) < Capacity
        BY <2>7 DEF TakeLocalSlot, LocalSlotFree
      <4>2. Cardinality(Owed(d)) \in Nat
        <5>1. Owed(d) \in SUBSET Deploys
          BY DEF Owed, AwaitingLocal, OnTarget, Running
        <5> QED
          BY <5>1, DeploysFinite
      <4> QED
        BY <2>2, <2>3, <4>1, <4>2
    <3>3. Cardinality({d}) = 1
      BY FS_Singleton
    <3>4. Cardinality(Counted') \in Nat /\ Cardinality(Counted') <= Cardinality(Counted) + Cardinality({d})
      BY <2>2, <3>1, GrowsBy
    <3>5. Cardinality(OnTarget') \in Nat /\ Cardinality(OnTarget') <= Cardinality(OnTarget)
      BY <2>2, <3>1, Shrinks
    <3> QED
      BY <2>1, <2>2, <2>3, <2>4, <3>2, <3>3, <3>4, <3>5
  <2>8. CASE RowsKeepSlots
    BY <2>5, <2>8, KeptMoves
  <2>9. ASSUME NEW e \in Executors, NEW s \in Scopes, NEW d \in Deploys, InsertRollback(e, d, s)
        PROVE  WithinCapacity'
    BY <2>5, <2>9, InsertMoves
  <2>10. ASSUME NEW e \in Executors, NEW d \in Deploys, AwaitLocalSlot(e, d) PROVE WithinCapacity'
    BY <2>5, <2>10, AwaitMoves
  <2>11. ASSUME NEW d \in Deploys, RerunOf(d) PROVE WithinCapacity'
    BY <2>5, <2>11, RerunMoves
  <2>12. [Counts]_row \/ \E d \in Deploys : RerunOf(d)
    BY NextIsRerunOrNot
  <2> QED
    BY <2>6, <2>7, <2>8, <2>9, <2>10, <2>11, <2>12, SlotSteps, Zenon
<1> QED
  BY <1>1, <1>2, TypeCorrect, PTL DEF Spec

-------------------------------------------------------------------------------
(* Reruns.                                                                 *)

\* Only the crash rule's requeue counts a rerun.
LEMMA OthersCountAsBefore ==
  ASSUME QueueAssumption, TypeOK, [Counts]_row
  PROVE  RowsCountAsBefore
<1>1. ASSUME NEW e \in Executors, NEW picks, ClaimDeploys(e, picks[1], picks[2])
      PROVE  RowsCountAsBefore
  BY <1>1, ClaimMoves
<1> QED
  BY <1>1, KeptMoves, InsertMoves, TakeMoves, AwaitMoves, SlotSteps, Zenon

\* The crash rule reruns a deploy that got past its first stage once at most, as long as
\* the sweeper acts on the number of reruns the row has (sweepExpiredLeases).
THEOREM RerunsAreFew == ASSUME QueueAssumption PROVE Spec => []AtMostOneRerun
<1>1. Init => AtMostOneRerun
  BY DEF Init, NoRow, AtMostOneRerun
<1>2. TypeOK /\ AtMostOneRerun /\ [Next]_row => AtMostOneRerun'
  <2> SUFFICES ASSUME TypeOK, AtMostOneRerun, [Next]_row PROVE AtMostOneRerun'
    OBVIOUS
  <2>1. CASE [Counts]_row
    BY <2>1, OthersCountAsBefore DEF RowsCountAsBefore, SameCount, AtMostOneRerun
  <2>2. ASSUME NEW d \in Deploys, RerunOf(d) PROVE AtMostOneRerun'
    BY <2>2, RerunMoves DEF AtMostOneRerun
  <2> QED
    BY <2>1, <2>2, NextIsRerunOrNot
<1> QED
  BY <1>1, <1>2, TypeCorrect, PTL DEF Spec

-------------------------------------------------------------------------------
(* Waiters.                                                                *)

\* Builds on targets wait for this server's slots in one line.
OneLine == \A a, b \in AwaitingLocal : row[a].waiting = row[b].waiting => a = b

\* Nobody joins the line of waiters but at its end.
JoinsLast ==
  /\ \A d \in AwaitingLocal' : d \in AwaitingLocal => row'[d].waiting = row[d].waiting
  /\ \A x, d \in AwaitingLocal' :
       x \notin AwaitingLocal /\ d # x => d \in AwaitingLocal /\ row'[d].waiting < row'[x].waiting

\* Places are never negative, nor handed out twice.
LEMMA LineMoves ==
  ASSUME QueueAssumption, TypeOK, [Next]_row
  PROVE  JoinsLast
<1>1. ASSUME NEW e \in Executors, NEW picks, ClaimDeploys(e, picks[1], picks[2]) PROVE JoinsLast
  BY <1>1, ClaimMoves DEF JoinsLast
<1>2. ASSUME NEW e \in Executors, NEW s \in Scopes, NEW x \in Deploys, InsertRollback(e, x, s)
      PROVE  JoinsLast
  <2>1. x \notin AwaitingLocal
    BY <1>2, InsertMoves DEF AwaitingLocal, OnTarget, Running
  <2> QED
    BY <1>2, <2>1, InsertMoves DEF JoinsLast, AwaitingLocal, OnTarget, Running
<1>3. ASSUME NEW e \in Executors, NEW x \in Deploys, TakeLocalSlot(e, x) PROVE JoinsLast
  BY <1>3, TakeMoves DEF JoinsLast, AwaitingLocal, OnTarget, Running
<1>4. ASSUME NEW e \in Executors, NEW x \in Deploys, AwaitLocalSlot(e, x) PROVE JoinsLast
  BY <1>4, AwaitMoves DEF JoinsLast, AwaitingLocal, OnTarget, Running
<1>5. CASE RowsKeepSlots
  BY <1>5, KeptMoves DEF JoinsLast
<1>6. ASSUME NEW x \in Deploys, RerunOf(x) PROVE JoinsLast
  BY <1>6, RerunMoves DEF JoinsLast, AwaitingLocal, OnTarget, Running
<1>7. [Counts]_row \/ \E x \in Deploys : RerunOf(x)
  BY NextIsRerunOrNot
<1> QED
  BY <1>1, <1>2, <1>3, <1>4, <1>5, <1>6, <1>7, SlotSteps, Zenon

\* So two waiters never have one place.
LEMMA LineKept == ASSUME QueueAssumption PROVE Spec => []OneLine
<1>1. Init => OneLine
  BY DEF Init, NoRow, OneLine, AwaitingLocal, OnTarget, Running
<1>2. TypeOK /\ TypeOK' /\ OneLine /\ [Next]_row => OneLine'
  <2> SUFFICES ASSUME TypeOK, TypeOK', OneLine, [Next]_row,
                      NEW a \in AwaitingLocal', NEW b \in AwaitingLocal',
                      row'[a].waiting = row'[b].waiting
               PROVE  a = b
    BY DEF OneLine
  <2>1. JoinsLast
    BY LineMoves
  <2>2. row'[a].waiting \in Nat /\ row'[b].waiting \in Nat
    <3>1. a \in Deploys /\ b \in Deploys
      BY DEF AwaitingLocal, OnTarget, Running
    <3> QED
      BY <3>1 DEF TypeOK, Row
  <2>3. CASE a \in AwaitingLocal /\ b \in AwaitingLocal
    BY <2>1, <2>3 DEF JoinsLast, OneLine
  <2>4. CASE a \notin AwaitingLocal \/ b \notin AwaitingLocal
    BY <2>1, <2>2, <2>4 DEF JoinsLast
  <2> QED
    BY <2>3, <2>4
<1> QED
  BY <1>1, <1>2, TypeCorrect, PTL DEF Spec

\* Those ahead of a waiter only leave.
LEMMA OwedShrinks ==
  ASSUME TypeOK, TypeOK', JoinsLast, NEW d \in AwaitingLocal, d \in AwaitingLocal'
  PROVE  Owed(d)' \subseteq Owed(d) /\ Owed(d)' \subseteq AwaitingLocal'
<1>1. row[d].waiting \in Nat \ {0} /\ row'[d].waiting = row[d].waiting
  <2>1. d \in Deploys /\ row[d].waiting > 0
    BY DEF AwaitingLocal, OnTarget, Running
  <2>2. row[d].waiting \in Nat
    BY <2>1, RowType DEF Row
  <2> QED
    BY <2>1, <2>2 DEF JoinsLast
<1> SUFFICES ASSUME NEW x \in Owed(d)' PROVE x \in Owed(d)
  BY DEF Owed
<1>2. x \in AwaitingLocal' /\ x # d /\ row'[x].waiting < row'[d].waiting
  BY <1>1 DEF Owed
<1>3. x \in AwaitingLocal
  <2> SUFFICES ASSUME x \notin AwaitingLocal PROVE FALSE
    OBVIOUS
  <2>1. row'[d].waiting < row'[x].waiting
    BY <1>2 DEF JoinsLast
  <2>2. x \in Deploys
    BY <1>2 DEF AwaitingLocal, OnTarget, Running
  <2>3. row'[x].waiting \in Nat
    BY <2>2 DEF TypeOK, Row
  <2> QED
    BY <1>1, <1>2, <2>1, <2>3
<1> QED
  BY <1>1, <1>2, <1>3 DEF Owed, JoinsLast

\* A build that takes a slot is ahead of a waiter whose slot has come, or leaves one.
LEMMA TakeLeavesSlot ==
  ASSUME QueueAssumption, TypeOK, TypeOK', OneLine, JoinsLast, NEW e \in Executors, NEW x \in Deploys,
         TakeLocalSlot(e, x), NEW d \in AwaitingLocal, LocalSlotFree(d), d \in AwaitingLocal'
  PROVE  LocalSlotFree(d)'
<1>1. /\ OnServer' \subseteq OnServer \cup {x} /\ Owed(d)' \subseteq Owed(d)
      /\ x \notin Owed(d)' /\ x # d
  BY TakeMoves, OwedShrinks
<1>2. /\ Owed(d) \in SUBSET Deploys /\ Owed(x) \in SUBSET Deploys
      /\ OnServer \in SUBSET Deploys /\ OnServer' \in SUBSET Deploys
      /\ Owed(d)' \in SUBSET Deploys
  BY <1>1 DEF Owed, AwaitingLocal, OnTarget, OnServer, Running
<1>3. /\ Cardinality(Owed(d)) \in Nat /\ Cardinality(Owed(x)) \in Nat
      /\ Cardinality(OnServer) \in Nat /\ Cardinality(OnServer') \in Nat
      /\ Cardinality(Owed(d)') \in Nat /\ Capacity \in Nat
  BY <1>2, DeploysFinite DEF QueueAssumption
<1>4. /\ Cardinality(OnServer) + Cardinality(Owed(d)) < Capacity
      /\ Cardinality(OnServer) + Cardinality(Owed(x)) < Capacity
  BY DEF LocalSlotFree, TakeLocalSlot
<1>5. Cardinality(OnServer') <= Cardinality(OnServer) + 1
  <2>1. Cardinality({x}) = 1 /\ {x} \in SUBSET Deploys
    BY FS_Singleton
  <2>2. Cardinality(OnServer') <= Cardinality(OnServer) + Cardinality({x})
    BY <1>1, <1>2, <2>1, GrowsBy
  <2> QED
    BY <2>1, <2>2
<1>6. Cardinality(Owed(d)') <= Cardinality(Owed(d))
  BY <1>1, <1>2, Shrinks
<1>7. CASE x \in OnServer
  <2>1. Cardinality(OnServer') <= Cardinality(OnServer)
    BY <1>1, <1>2, <1>7, Shrinks
  <2> QED
    BY <1>3, <1>4, <1>6, <2>1 DEF LocalSlotFree
<1>8. CASE x \in Owed(d)
  <2>1. Owed(d)' \subseteq Owed(d) \ {x}
    BY <1>1
  <2>2. IsFiniteSet(Owed(d)) /\ Owed(d) \ {x} \in SUBSET Deploys
    BY <1>2, DeploysFinite
  <2>3. Cardinality(Owed(d) \ {x}) = Cardinality(Owed(d)) - 1
    BY <1>8, <2>2, FS_RemoveElement
  <2>4. Cardinality(Owed(d)') <= Cardinality(Owed(d) \ {x})
    BY <2>1, <2>2, Shrinks
  <2> QED
    BY <1>3, <1>4, <1>5, <2>3, <2>4 DEF LocalSlotFree
<1>9. CASE x \notin OnServer /\ x \notin Owed(d)
  <2>1. x \in OnTarget
    BY <1>9 DEF TakeLocalSlot, Owned, OnServer, OnTarget, Running
  <2>2. Owed(d) \subseteq Owed(x) /\ d \in Owed(x) /\ d \notin Owed(d)
    <3>1. /\ d \in Deploys /\ row[d].waiting > 0 /\ row[d].waiting \in Nat /\ row[x].waiting \in Nat
          /\ \A y \in AwaitingLocal : row[y].waiting \in Nat
      BY RowType DEF AwaitingLocal, OnTarget, Running, Row
    <3>2. row[x].waiting = 0 \/ row[d].waiting < row[x].waiting
      BY <1>1, <1>9, <2>1, <3>1 DEF Owed, AwaitingLocal, OneLine
    <3> QED
      BY <1>9, <1>1, <3>1, <3>2 DEF Owed
  <2>3. /\ IsFiniteSet(Owed(d))
        /\ Cardinality(Owed(d) \cup {d}) = Cardinality(Owed(d)) + 1
    BY <1>2, <2>2, DeploysFinite, FS_AddElement
  <2>4. Cardinality(Owed(d) \cup {d}) <= Cardinality(Owed(x))
    BY <1>2, <2>2, Shrinks
  <2> QED
    BY <1>3, <1>4, <1>5, <1>6, <2>3, <2>4 DEF LocalSlotFree
<1> QED
  BY <1>7, <1>8, <1>9

\* A deploy on a build target that waits for a slot of this server and has one coming
\* keeps it, whoever claims, joins the line or turns back (localSlotFree's line and the
\* claim's account of it); a rollback aside, which asks nobody.
THEOREM WaitersKeepTheirSlot == ASSUME QueueAssumption PROVE Spec => WaiterKeepsItsSlot
<1> DEFINE Kept ==
      \A d \in AwaitingLocal :
        /\ LocalSlotFree(d) /\ d \in AwaitingLocal'
        /\ ~\E x \in Deploys : row[x].status = "absent" /\ row'[x].kind = "rollback"
        => LocalSlotFree(d)'
<1>1. TypeOK /\ TypeOK' /\ OneLine /\ [Next]_row => [Kept]_row
  <2> SUFFICES ASSUME TypeOK, TypeOK', OneLine, [Next]_row, NEW d \in AwaitingLocal, LocalSlotFree(d),
                      d \in AwaitingLocal',
                      ~\E x \in Deploys : row[x].status = "absent" /\ row'[x].kind = "rollback"
               PROVE  LocalSlotFree(d)'
    OBVIOUS
  <2>1. JoinsLast
    BY LineMoves
  <2>2. Owed(d)' \subseteq Owed(d) /\ Owed(d)' \subseteq AwaitingLocal'
    BY <2>1, OwedShrinks
  <2>3. /\ OnServer \in SUBSET Deploys /\ OnServer' \in SUBSET Deploys /\ Owed(d) \in SUBSET Deploys
        /\ AwaitingLocal \in SUBSET Deploys /\ Owed(d)' \in SUBSET Deploys
    BY <2>2 DEF Owed, AwaitingLocal, OnTarget, OnServer, Running
  <2>4. /\ Cardinality(Owed(d)) \in Nat /\ Cardinality(OnServer) \in Nat
        /\ Cardinality(OnServer') \in Nat /\ Cardinality(Owed(d)') \in Nat
        /\ Cardinality(AwaitingLocal) \in Nat /\ IsFiniteSet(AwaitingLocal) /\ Capacity \in Nat
    BY <2>3, DeploysFinite DEF QueueAssumption
  <2>5. Cardinality(OnServer) + Cardinality(Owed(d)) < Capacity
    BY DEF LocalSlotFree
  <2>6. Cardinality(Owed(d)') <= Cardinality(Owed(d))
    BY <2>2, <2>3, Shrinks
  <2>7. ASSUME OnServer' \subseteq OnServer PROVE LocalSlotFree(d)'
    <3>1. Cardinality(OnServer') <= Cardinality(OnServer)
      BY <2>3, <2>7, Shrinks
    <3> QED
      BY <2>4, <2>5, <2>6, <3>1 DEF LocalSlotFree
  <2>8. ASSUME NEW e \in Executors, NEW picks, ClaimDeploys(e, picks[1], picks[2])
        PROVE  LocalSlotFree(d)'
    <3> DEFINE here == picks[1]
    <3>1. /\ here \in SUBSET Deploys /\ OnServer' \subseteq OnServer \cup here
          /\ AwaitingLocal' \subseteq AwaitingLocal
          /\ \/ here = {}
             \/ Cardinality(OnServer) + Cardinality(AwaitingLocal) + Cardinality(here) <= Capacity
      BY <2>8, ClaimTakes, ClaimMoves
    <3> HIDE DEF here
    <3>2. CASE here = {}
      BY <2>7, <3>1, <3>2
    <3>3. CASE Cardinality(OnServer) + Cardinality(AwaitingLocal) + Cardinality(here) <= Capacity
      <4>1. Owed(d)' \subseteq AwaitingLocal \ {d}
        BY <2>2, <3>1 DEF Owed
      <4>2. Cardinality(AwaitingLocal \ {d}) = Cardinality(AwaitingLocal) - 1
        BY <2>4, FS_RemoveElement
      <4>3. Cardinality(Owed(d)') <= Cardinality(AwaitingLocal \ {d})
        BY <2>3, <4>1, Shrinks
      <4>4. /\ Cardinality(OnServer') <= Cardinality(OnServer) + Cardinality(here)
            /\ Cardinality(here) \in Nat
        BY <2>3, <3>1, GrowsBy, DeploysFinite
      <4> QED
        BY <2>4, <3>3, <4>2, <4>3, <4>4 DEF LocalSlotFree
    <3> QED
      BY <3>1, <3>2, <3>3
  <2>9. ASSUME NEW e \in Executors, NEW x \in Deploys, TakeLocalSlot(e, x) PROVE LocalSlotFree(d)'
    BY <2>1, <2>9, TakeLeavesSlot
  <2>10. ASSUME NEW e \in Executors, NEW s \in Scopes, NEW x \in Deploys, InsertRollback(e, x, s)
         PROVE  FALSE
    BY <2>10, InsertMoves
  <2>11. ASSUME NEW e \in Executors, NEW x \in Deploys, AwaitLocalSlot(e, x) PROVE LocalSlotFree(d)'
    BY <2>7, <2>11, AwaitMoves
  <2>12. CASE RowsKeepSlots
    BY <2>7, <2>12, KeptMoves
  <2>13. ASSUME NEW x \in Deploys, RerunOf(x) PROVE LocalSlotFree(d)'
    BY <2>7, <2>13, RerunMoves
  <2>14. [Counts]_row \/ \E x \in Deploys : RerunOf(x)
    BY NextIsRerunOrNot
  <2> QED
    BY <2>8, <2>9, <2>10, <2>11, <2>12, <2>13, <2>14, SlotSteps, Zenon
<1> QED
  BY <1>1, TypeCorrect, LineKept, PTL DEF Spec, WaiterKeepsItsSlot

-------------------------------------------------------------------------------
(* The slot of Vardo's own deploys.                                        *)

Less == {p \in Nat \X Nat : p[1] < p[2]}

\* A set of numbers has a least one.
LEMMA Least ==
  ASSUME NEW S \in SUBSET Nat, S # {}
  PROVE  \E n \in S : \A m \in S : n <= m
<1>1. IsWellFoundedOn(Less, Nat)
  BY NatLessThanWellFounded, Zenon DEF OpToRel, Less
<1>2. PICK n \in S : \A m \in S : ~(<<m, n>> \in Less)
  BY <1>1, WFMin
<1>3. ASSUME NEW m \in S PROVE n <= m
  <2>1. ~(m < n)
    BY <1>2 DEF Less
  <2> QED
    BY <2>1
<1> QED
  BY <1>3

\* Rows are numbered in the order they were written.
Numbered ==
  /\ \A a \in Written : row[a].seq <= Cardinality(Written)
  /\ \A a, b \in Written : row[a].seq = row[b].seq => a = b

LEMMA NumberedStep ==
  ASSUME QueueAssumption, TypeOK, RollbackRuns, Numbered, [Next]_row
  PROVE  Numbered'
<1>0. /\ Written \in SUBSET Deploys /\ Cardinality(Written) \in Nat /\ IsFiniteSet(Written)
      /\ \A a \in Written : row[a].seq \in Nat
  BY DeploysFinite, RowType DEF Written, Row
<1>1. ASSUME NEW a \in Deploys, OldWay(a)
      PROVE  row'[a].seq = row[a].seq /\ (row'[a].status = "absent" <=> row[a].status = "absent")
  BY <1>1 DEF OldWay, Meek, GivesUp, IsReplaced, IsWarned, Old
<1>2. CASE \A a \in Deploys : OldWay(a)
  <2>1. Written' = Written /\ \A a \in Written : row'[a].seq = row[a].seq
    BY <1>1, <1>2 DEF Written
  <2> QED
    BY <2>1 DEF Numbered
<1>3. ASSUME NEW d \in Deploys, IsNew(d), \A x \in Deploys \ {d} : OldWay(x) PROVE Numbered'
  <2>1. d \notin Written /\ row'[d].seq = Cardinality(Written) + 1
    BY <1>3 DEF IsNew, Written
  <2>2. Written' = Written \cup {d}
    BY <1>1, <1>3 DEF Written, IsNew
  <2>3. \A a \in Written : row'[a].seq = row[a].seq
    BY <1>0, <1>1, <1>3, <2>1
  <2>4. Cardinality(Written \cup {d}) = Cardinality(Written) + 1
    BY <1>0, <2>1, FS_AddElement
  <2>5. Cardinality(Written') = Cardinality(Written) + 1
    BY <2>2, <2>4
  <2>6. \A a \in Written : row[a].seq <= Cardinality(Written)
    BY DEF Numbered
  <2>7. ASSUME NEW a \in Written' PROVE row'[a].seq <= Cardinality(Written')
    BY <1>0, <2>1, <2>2, <2>3, <2>5, <2>6, <2>7
  <2>8. ASSUME NEW a \in Written', NEW b \in Written', row'[a].seq = row'[b].seq PROVE a = b
    <3>1. CASE a \in Written /\ b \in Written
      BY <2>3, <2>8, <3>1 DEF Numbered
    <3>2. CASE a = d /\ b = d
      BY <3>2
    <3>3. CASE (a = d /\ b \in Written) \/ (b = d /\ a \in Written)
      BY <1>0, <2>1, <2>3, <2>6, <2>8, <3>3
    <3> QED
      BY <2>2, <2>8, <3>1, <3>2, <3>3
  <2> QED
    BY <2>7, <2>8 DEF Numbered
<1> QED
  BY <1>2, <1>3, NextWay DEF WaySteps

LEMMA RowsNumbered == ASSUME QueueAssumption PROVE Spec => []Numbered
<1>1. Init => Numbered
  BY DEF Init, NoRow, Numbered, Written
<1>2. TypeOK /\ RollbackRuns /\ Numbered /\ [Next]_row => Numbered'
  BY NumberedStep
<1> QED
  BY <1>1, <1>2, TypeCorrect, RollbacksRun, PTL DEF Spec

\* If a deploy of Vardo itself can be claimed, one heads their line.
LEMMA SelfHead ==
  ASSUME QueueAssumption, TypeOK, Numbered, NEW e \in Executors, ClaimScope[e] = "all",
         NEW d \in Claimable, IsSelf(d)
  PROVE  \E h \in Heads(e) : IsSelf(h)
<1> DEFINE S == {x \in Claimable : IsSelf(x)}
           Ahead(a) == {x \in S : InLine(x, a)}
           Sizes == {Cardinality(Ahead(a)) : a \in S}
<1>1. S \in SUBSET Deploys /\ d \in S /\ S \subseteq Written
  BY DEF Claimable, Queued, Written
<1>2. \A a \in S : row[a].bumped \in Nat /\ row[a].seq \in Nat
  BY <1>1, RowType DEF Row
<1>3. \A a, b \in S : a # b => row[a].seq # row[b].seq
  BY <1>1 DEF Numbered
<1>4. \A a, b \in S : a # b => InLine(a, b) \/ InLine(b, a)
  <2> HIDE DEF S
  <2> QED
    BY <1>2, <1>3 DEF InLine, Automatic
<1>5. \A a, b, c \in S : InLine(a, b) /\ InLine(b, c) => InLine(a, c)
  <2> HIDE DEF S
  <2> QED
    BY <1>2 DEF InLine, Automatic
<1>6. \A a \in S : ~InLine(a, a)
  <2> HIDE DEF S
  <2> QED
    BY <1>2 DEF InLine
<1>7. \A a \in S : IsFiniteSet(Ahead(a)) /\ Cardinality(Ahead(a)) \in Nat
  BY <1>1, DeploysFinite
<1>8. \A z \in Sizes : z \in Nat
  <2> SUFFICES ASSUME NEW z \in Sizes PROVE z \in Nat
    OBVIOUS
  <2>1. PICK a \in S : z = Cardinality(Ahead(a))
    BY Zenon
  <2> QED
    BY <1>7, <2>1, Zenon
<1>9. ASSUME NEW a \in S PROVE Cardinality(Ahead(a)) \in Sizes
  OBVIOUS
<1>10. PICK n \in Sizes : \A m \in Sizes : n <= m
  <2>1. Sizes \in SUBSET Nat /\ Sizes # {}
    BY <1>1, <1>8, <1>9
  <2> HIDE DEF Sizes
  <2> QED
    BY <2>1, Least
<1>11. PICK h \in S : n = Cardinality(Ahead(h))
  BY Zenon
<1>12. ASSUME NEW b \in S \ {h}, ~InLine(h, b) PROVE FALSE
  <2>1. InLine(b, h)
    BY <1>4, <1>12
  <2>2. Ahead(b) \subseteq Ahead(h) /\ b \in Ahead(h) /\ b \notin Ahead(b)
    BY <1>5, <1>6, <1>12, <2>1
  <2>3. IsFiniteSet(Ahead(h)) /\ Cardinality(Ahead(b)) \in Sizes
    BY <1>7, <1>9
  <2> HIDE DEF Ahead, Sizes
  <2>4. ASSUME NEW P, NEW Q, IsFiniteSet(Q), P \subseteq Q, P # Q PROVE Cardinality(P) < Cardinality(Q)
    BY <2>4, FS_Subset, FS_CardinalityType
  <2>5. Ahead(b) # Ahead(h)
    BY <2>2
  <2>6. Cardinality(Ahead(b)) < Cardinality(Ahead(h))
    BY <2>2, <2>3, <2>4, <2>5
  <2> QED
    BY <1>7, <1>8, <1>10, <1>11, <2>3, <2>6
<1>13. h \in Heads(e)
  <2>1. \A x \in Claimable \ {h} : row[x].scope = row[h].scope => x \in S \ {h}
    BY DEF IsSelf
  <2> QED
    BY <1>12, <2>1 DEF Heads, Takes
<1> QED
  BY <1>13

\* A claim by an executor that takes every deploy takes one of Vardo's own whenever it takes
\* any for this server and one of Vardo's own could be claimed.
LEMMA SelfGoesFirst ==
  ASSUME QueueAssumption, TypeOK, Numbered, NEW e \in Executors, NEW here, NEW there,
         ClaimDeploys(e, here, there), ClaimScope[e] = "all",
         NEW d \in Claimable, IsSelf(d), here # {}
  PROVE  \E t \in here : IsSelf(t)
<1>1. PICK h \in Heads(e) : IsSelf(h)
  BY SelfHead
<1>2. here \in FirstOf(LocalFree(e), Heads(e))
  BY ClaimPicksFrom, Zenon
<1>3. \A t \in here, u \in Heads(e) \ here : ClaimsBefore(t, u)
  BY <1>2 DEF FirstOf
<1>4. CASE h \in here
  BY <1>1, <1>4
<1>5. CASE h \notin here
  <2>1. PICK t \in here : TRUE
    OBVIOUS
  <2>2. ClaimsBefore(t, h)
    BY <1>3, <1>5, <2>1
  <2>3. IsSelf(t)
    BY <1>1, <2>2 DEF ClaimsBefore, IsSelf
  <2> QED
    BY <2>1, <2>3
<1> QED
  BY <1>4, <1>5

\* A claimed row runs, in the scope it was asked for.
LEMMA TakenRuns ==
  ASSUME QueueAssumption, TypeOK, NEW e \in Executors, NEW here, NEW there,
         ClaimDeploys(e, here, there), NEW t \in here
  PROVE  t \in Deploys /\ row'[t].status = "running" /\ row'[t].scope = row[t].scope
<1>1. t \in Deploys
  BY ClaimTakes
<1>2. \A x \in Row : \A slot :
        LET y == [x EXCEPT !.status = "running", !.by = e, !.live = TRUE, !.stage = "none",
                           !.bumped = 0, !.claimSlot = slot, !.waiting = 0]
        IN y.status = "running" /\ y.scope = x.scope
  BY DEF Row
<1>3. Claimed(t, e, "none").status = "running" /\ Claimed(t, e, "none").scope = row[t].scope
  BY <1>1, <1>2, RowType, Zenon DEF Claimed
<1>4. row'[t] = Claimed(t, e, "none")
  BY <1>1 DEF ClaimDeploys, AfterClaim
<1> QED
  BY <1>1, <1>3, <1>4

\* A claim that takes nothing for this server leaves its slots as they were, or freer.
LEMMA NothingHere ==
  ASSUME QueueAssumption, TypeOK, NEW e \in Executors, NEW there, ClaimDeploys(e, {}, there),
         Cardinality(OnServer) + Cardinality(AwaitingLocal) < Capacity
  PROVE  Cardinality(OnServer') + Cardinality(AwaitingLocal') < Capacity
<1>1. OnServer' \subseteq OnServer /\ AwaitingLocal' \subseteq AwaitingLocal
  BY ClaimMoves
<1>2. OnServer \in SUBSET Deploys /\ AwaitingLocal \in SUBSET Deploys
  BY DEF OnServer, OnTarget, AwaitingLocal, Running
<1>3. /\ Cardinality(OnServer') \in Nat /\ Cardinality(OnServer) \in Nat
      /\ Cardinality(OnServer') <= Cardinality(OnServer)
  BY <1>1, <1>2, Shrinks
<1>4. /\ Cardinality(AwaitingLocal') \in Nat /\ Cardinality(AwaitingLocal) \in Nat
      /\ Cardinality(AwaitingLocal') <= Cardinality(AwaitingLocal)
  BY <1>1, <1>2, Shrinks
<1> QED
  BY <1>3, <1>4 DEF QueueAssumption

\* A claimer that leaves Vardo's own deploys to another leaves them a slot.
LEMMA OthersLeaveOne ==
  ASSUME QueueAssumption, TypeOK, NEW e \in Executors, NEW here, NEW there,
         ClaimDeploys(e, here, there), ClaimScope[e] = "others", NEW d \in Claimable, IsSelf(d),
         here # {}
  PROVE  Cardinality(OnServer') + Cardinality(AwaitingLocal') < Capacity
<1>1. SelfReady(e) = 1
  BY DEF SelfReady
<1>2. here \in FirstOf(LocalFree(e), Heads(e)) /\ here \in SUBSET Deploys
  BY ClaimPicksFrom, ClaimTakes, Zenon
<1>3. Cardinality(here) <= Capacity - Cardinality(OnServer) - Cardinality(AwaitingLocal) - 1
  BY <1>1, <1>2 DEF FirstOf, LocalFree
<1>4. OnServer' \subseteq OnServer \cup here /\ AwaitingLocal' \subseteq AwaitingLocal
  BY ClaimMoves
<1>5. OnServer \in SUBSET Deploys /\ AwaitingLocal \in SUBSET Deploys
  BY DEF OnServer, OnTarget, AwaitingLocal, Running
<1>6. /\ Cardinality(OnServer') \in Nat
      /\ Cardinality(OnServer') <= Cardinality(OnServer) + Cardinality(here)
  BY <1>2, <1>4, <1>5, GrowsBy
<1>7. /\ Cardinality(AwaitingLocal') \in Nat /\ Cardinality(AwaitingLocal) \in Nat
      /\ Cardinality(AwaitingLocal') <= Cardinality(AwaitingLocal)
  BY <1>4, <1>5, Shrinks
<1>8. Cardinality(here) \in Nat /\ Cardinality(OnServer) \in Nat /\ Capacity \in Nat
  BY <1>2, <1>5, DeploysFinite DEF QueueAssumption
<1> QED
  BY <1>3, <1>6, <1>7, <1>8

SlotStays ==
  \A d, x \in Queued :
     /\ IsSelf(d) /\ d \in Claimable /\ d \in Claimable'
     /\ ~IsSelf(x) /\ x \in Running'
     /\ Cardinality(OnServer) + Cardinality(AwaitingLocal) < Capacity
     => Cardinality(OnServer') + Cardinality(AwaitingLocal') < Capacity

LEMMA SlotStaysStep ==
  ASSUME QueueAssumption, TypeOK, Numbered, [Next]_row
  PROVE  SlotStays
<1> SUFFICES ASSUME NEW d \in Queued, NEW x \in Queued,
                    IsSelf(d), d \in Claimable, d \in Claimable', ~IsSelf(x), x \in Running',
                    Cardinality(OnServer) + Cardinality(AwaitingLocal) < Capacity
             PROVE  Cardinality(OnServer') + Cardinality(AwaitingLocal') < Capacity
  BY DEF SlotStays
<1>0. /\ x \in Deploys /\ row[x].status = "queued" /\ row'[x].status = "running"
      /\ d \in Deploys /\ row[d].scope = SelfScope /\ ~ScopeBusy(row[d].scope)'
  BY DEF Queued, Running, IsSelf, Claimable
<1>1. ~RowsQuiet
  <2>1. \A y : row'[x] = y /\ QuietStep(row[x], y) => y.status # "running"
    BY <1>0 DEF QuietStep, Asked, Stays, Returns, Ends, Outcomes
  <2> QED
    BY <1>0, <2>1, Zenon DEF RowsQuiet
<1>2. ASSUME NEW e \in Executors, NEW s \in Scopes, NEW r \in Deploys, InsertRollback(e, r, s) PROVE FALSE
  BY <1>0, <1>2, InsertStep DEF Inserted
<1>3. ASSUME NEW e \in Executors, NEW here, NEW there, ClaimDeploys(e, here, there)
      PROVE  Cardinality(OnServer') + Cardinality(AwaitingLocal') < Capacity
  <2>1. CASE here = {}
    BY <1>3, <2>1, NothingHere
  <2>2. CASE here # {} /\ ClaimScope[e] = "others"
    BY <1>3, <2>2, OthersLeaveOne
  <2>3. ASSUME here # {}, ClaimScope[e] = "all" PROVE FALSE
    <3>1. PICK t \in here : IsSelf(t)
      BY <1>3, <2>3, SelfGoesFirst
    <3>2. t \in Deploys /\ row'[t].status = "running" /\ row'[t].scope = row[t].scope
      BY <1>3, TakenRuns
    <3>3. row'[d].scope = row[d].scope
      <4>1. \/ row'[d] = row[d]
            \/ d \in Heads(e) /\ Keeps(row[d], row'[d]) /\ Starts(row[d], row'[d])
        BY <1>0, <1>3, ClaimStep
      <4> QED
        BY <4>1 DEF Keeps
    <3> QED
      BY <1>0, <3>1, <3>2, <3>3 DEF IsSelf, ScopeBusy, Running, Claimable
  <2>4. ASSUME ClaimScope[e] = "self" PROVE FALSE
    <3>1. x \in Heads(e)
      BY <1>0, <1>3, ClaimStep
    <3> QED
      BY <2>4, <3>1 DEF Heads, Takes
  <2>5. ClaimScope[e] # "none"
    BY <1>3 DEF ClaimDeploys
  <2>6. ClaimScope[e] \in {"all", "self", "others", "none"}
    BY DEF QueueAssumption
  <2> QED
    BY <2>1, <2>2, <2>3, <2>4, <2>5, <2>6
<1> QED
  BY <1>1, <1>2, <1>3, StepKinds

\* A slot of this server that a deploy of Vardo's own app could take next is not taken by
\* another app's deploy first: whoever claims, with whatever filter, in whatever order the
\* claims of the two processes of a handoff come (claimDeploys' order, and the slot an
\* executor that leaves Vardo alone keeps back).
THEOREM SelfSlotStays == ASSUME QueueAssumption PROVE Spec => SelfKeepsItsSlot
<1>1. TypeOK /\ Numbered /\ [Next]_row => [SlotStays]_row
  BY SlotStaysStep
<1>2. SelfKeepsItsSlot <=> [][SlotStays]_row
  BY PTL DEF SelfKeepsItsSlot, SlotStays
<1> QED
  BY <1>1, <1>2, TypeCorrect, RowsNumbered, PTL DEF Spec

===============================================================================
