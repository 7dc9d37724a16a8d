------------------------------ MODULE LoopLease ------------------------------
(***************************************************************************)
(* One singleton background loop (interval-loop.ts) in the processes that  *)
(* may run it, the Postgres lease that lets one of them (lease.ts), and the *)
(* fence a pass checks before it touches Docker (fence.ts).                *)
(*                                                                         *)
(* A process is one lifetime: a restart is another holder id.  A statement *)
(* is sent, lands, and is answered in three steps; it may fail before or   *)
(* after it landed.  Time is abstract: a lease lapses freely once nobody   *)
(* renews it, and otherwise only by a counted stall.                       *)
(***************************************************************************)
EXTENDS Integers, Sequences

CONSTANTS
  Proc,        \* process lifetimes
  MaxTroubles  \* bound on stalls and failed statements together

ASSUME LeaseAssumption == MaxTroubles \in Nat

VARIABLES
  life,      \* "unborn", "up" or "dead"
  grants,    \* the lease row: its epoch is the length, its holder the last entry
  live,      \* the row's expires_at is ahead
  loop,      \* the loop of each process: phase, held epoch, lost, epoch to hand back
  pass,      \* its pass: where it is, its epoch, the answer on its way
  renewal,   \* its keepalive's statement
  troubles   \* stalls and failed statements so far

leaseVars == <<life, grants, live, loop, pass, renewal, troubles>>

\* The answer of a statement that failed, next to null (0) and an epoch.
Failed == -1

Phases == {"off", "on", "stopping", "releasing"}
Steps  == {"idle", "asking", "answered", "running", "mutating"}

NoLoop    == [phase |-> "off", held |-> 0, lost |-> FALSE, back |-> 0]
NoPass    == [at |-> "idle", epoch |-> 0, answer |-> 0]
NoRenewal == [at |-> "idle", epoch |-> 0, answer |-> 0]

LeaseInit ==
  /\ life = [p \in Proc |-> "unborn"]
  /\ grants = <<>> /\ live = FALSE
  /\ loop = [p \in Proc |-> NoLoop]
  /\ pass = [p \in Proc |-> NoPass]
  /\ renewal = [p \in Proc |-> NoRenewal]
  /\ troubles = 0

\* A process that stalls past a TTL, or a statement that fails.
Trouble == troubles < MaxTroubles /\ troubles' = troubles + 1

-------------------------------------------------------------------------------
(* lease.ts.                                                               *)

Epoch == Len(grants)

HolderIs(p) == grants # <<>> /\ grants[Epoch] = p

\* Mutant: a live lease is taken over.
BugMayAcquire(p) == TRUE

\* The WHERE of the upsert; a missing row is inserted.
MayAcquire(p) == HolderIs(p) \/ ~live

\* Mutant: a new holder keeps the old one's epoch.
BugGrantsAfter(p) ==
  IF grants = <<>> THEN <<p>> ELSE [grants EXCEPT ![Epoch] = p]

\* A renewal keeps the epoch, a new holder takes the next one.
GrantsAfter(p) == IF HolderIs(p) THEN grants ELSE Append(grants, p)

Answer(p) == IF MayAcquire(p) THEN Len(GrantsAfter(p)) ELSE 0

AcquireLease(p) ==
  IF MayAcquire(p) THEN live' = TRUE /\ grants' = GrantsAfter(p)
  ELSE UNCHANGED <<grants, live>>

IsLease(p, e) == HolderIs(p) /\ Epoch = e /\ live

\* Mutant: the fence asks for the holder and not for the epoch.
BugFenceHolds(p, e) == HolderIs(p) /\ live

\* checkFence.
FenceHolds(p, e) == IsLease(p, e)

\* Its holder keeps the lease, or is about to hear that it has it.
Kept ==
  \E p \in Proc :
    /\ HolderIs(p) /\ life[p] = "up"
    /\ \/ loop[p].held = Epoch
       \/ pass[p].at = "answered" /\ pass[p].answer = Epoch

Lapse ==
  /\ live
  /\ live' = FALSE
  /\ IF Kept THEN Trouble ELSE UNCHANGED troubles
  /\ UNCHANGED <<life, grants, loop, pass, renewal>>

-------------------------------------------------------------------------------
(* A process and the start and stop of its loop.                           *)

\* What a process reads as it boots may fail.
Boot(p) ==
  /\ life[p] = "unborn"
  /\ life' = [life EXCEPT ![p] = "up"]
  /\ UNCHANGED troubles \/ Trouble
  /\ UNCHANGED <<grants, live, loop, pass, renewal>>

\* A stall or a failure that is not this lease's.
TroubleElsewhere ==
  /\ Trouble
  /\ UNCHANGED <<life, grants, live, loop, pass, renewal>>

\* What a process knew goes with it; the row stays.
Die(p) ==
  /\ life[p] = "up"
  /\ life' = [life EXCEPT ![p] = "dead"]
  /\ loop' = [loop EXCEPT ![p] = NoLoop]
  /\ pass' = [pass EXCEPT ![p] = NoPass]
  /\ renewal' = [renewal EXCEPT ![p] = NoRenewal]
  /\ UNCHANGED <<grants, live, troubles>>

\* A loop stopped before starts again after a handoff check: a renewal sent before
\* the stop and still unanswered is a stall.
StartLoop(p) ==
  /\ life[p] = "up" /\ loop[p].phase = "off"
  /\ loop' = [loop EXCEPT ![p].phase = "on"]
  /\ IF renewal[p].at = "idle" THEN UNCHANGED troubles ELSE Trouble
  /\ UNCHANGED <<life, grants, live, pass, renewal>>

\* stop(): no more ticks; the pass in flight runs on.
StopLoop(p) ==
  /\ loop[p].phase = "on"
  /\ loop' = [loop EXCEPT ![p].phase = "stopping"]
  /\ UNCHANGED <<life, grants, live, pass, renewal, troubles>>

\* Mutant: the lease goes back without waiting for the pass in flight.
BugSettled(p) == TRUE

\* stop() waits for the pass in flight.
Settled(p) == pass[p].at = "idle"

HandsBack(l) ==
  [l EXCEPT !.phase = IF l.held = 0 THEN "off" ELSE "releasing", !.held = 0, !.back = l.held]

\* The pass is over: the lease is forgotten, then handed back.
PassSettled(p) ==
  /\ loop[p].phase = "stopping" /\ Settled(p)
  /\ loop' = [loop EXCEPT ![p] = HandsBack(@)]
  /\ UNCHANGED <<life, grants, live, pass, renewal, troubles>>

\* releaseLease; its failure is ignored.
ReleaseLease(p) ==
  /\ loop[p].phase = "releasing"
  /\ loop' = [loop EXCEPT ![p] = [@ EXCEPT !.phase = "off", !.back = 0]]
  /\ \/ live' = (live /\ ~IsLease(p, loop[p].back)) /\ UNCHANGED troubles
     \/ Trouble /\ UNCHANGED live
  /\ UNCHANGED <<life, grants, pass, renewal>>

-------------------------------------------------------------------------------
(* A pass.                                                                 *)

\* Mutant: the flag a pass checks is left as it was.
BugDropped(l) == [l EXCEPT !.held = 0]

\* dropLease.
Dropped(l) == [l EXCEPT !.held = 0, !.lost = @ \/ l.held # 0]

\* A scheduled tick: the statement of ensureLease is sent.
Tick(p) ==
  /\ life[p] = "up" /\ loop[p].phase = "on" /\ pass[p].at = "idle"
  /\ pass' = [pass EXCEPT ![p].at = "asking"]
  /\ UNCHANGED <<life, grants, live, loop, renewal, troubles>>

\* A null answer to a process that holds nothing changes nothing: the pass is over.
AcquireLands(p) ==
  /\ pass[p].at = "asking"
  /\ AcquireLease(p)
  /\ pass' = [pass EXCEPT ![p] = IF Answer(p) = 0 /\ loop[p].held = 0 THEN NoPass
                                 ELSE [@ EXCEPT !.at = "answered", !.answer = Answer(p)]]
  /\ UNCHANGED <<life, loop, renewal, troubles>>

AcquireFails(p) ==
  /\ pass[p].at = "asking"
  /\ AcquireLease(p) \/ UNCHANGED <<grants, live>>
  /\ pass' = [pass EXCEPT ![p] = [@ EXCEPT !.at = "answered", !.answer = Failed]]
  /\ Trouble
  /\ UNCHANGED <<life, loop, renewal>>

Under(e) == [at |-> "running", epoch |-> e, answer |-> 0]

\* The rest of ensureLease and the start of the pass.  After a failure the lease
\* is dropped if a TTL passed since the last renewal, and otherwise the pass runs
\* under the lease held, without another look at stopping.
AcquireAnswered(p) ==
  LET a == pass[p].answer
      go(x) == pass' = [pass EXCEPT ![p] = x]
  IN /\ pass[p].at = "answered"
     /\ \/ /\ a \in {0, Failed}
           /\ loop' = [loop EXCEPT ![p] = Dropped(@)] /\ go(NoPass)
        \/ /\ a > 0
           /\ loop' = [loop EXCEPT ![p] = [@ EXCEPT !.held = a, !.lost = FALSE]]
           /\ go(IF loop[p].phase = "on" THEN Under(a) ELSE NoPass)
        \/ /\ a = Failed /\ loop[p].held # 0
           /\ UNCHANGED loop /\ go(Under(loop[p].held))
     /\ UNCHANGED <<life, grants, live, renewal, troubles>>

\* holdsFence said yes: the pass calls Docker.  One such call of a pass shows as
\* much as several.
PassesFence(p) ==
  /\ pass[p].at = "running" /\ FenceHolds(p, pass[p].epoch)
  /\ pass' = [pass EXCEPT ![p].at = "mutating"]
  /\ UNCHANGED <<life, grants, live, loop, renewal, troubles>>

PassEnds(p) ==
  /\ pass[p].at \in {"running", "mutating"}
  /\ pass' = [pass EXCEPT ![p] = NoPass]
  /\ UNCHANGED <<life, grants, live, loop, renewal, troubles>>

-------------------------------------------------------------------------------
(* The keepalive, every third of a TTL while the lease is held.            *)

SendRenewal(p) ==
  /\ loop[p].held # 0 /\ renewal[p].at = "idle"
  /\ renewal' = [renewal EXCEPT ![p] = [@ EXCEPT !.at = "asking", !.epoch = loop[p].held]]
  /\ UNCHANGED <<life, grants, live, loop, pass, troubles>>

\* Only the epoch that was held counts as renewed, and then nothing changes.
RenewalLands(p) ==
  /\ renewal[p].at = "asking"
  /\ AcquireLease(p)
  /\ renewal' = [renewal EXCEPT ![p] = IF Answer(p) = @.epoch THEN NoRenewal
                                       ELSE [@ EXCEPT !.at = "answered", !.answer = Answer(p)]]
  /\ UNCHANGED <<life, loop, pass, troubles>>

RenewalFails(p) ==
  /\ renewal[p].at = "asking"
  /\ AcquireLease(p) \/ UNCHANGED <<grants, live>>
  /\ renewal' = [renewal EXCEPT ![p] = [@ EXCEPT !.at = "answered", !.answer = Failed]]
  /\ Trouble
  /\ UNCHANGED <<life, loop, pass>>

\* The lease is lost, or the renewal failed and a TTL may have passed since the
\* last one that did not.
RenewalAnswered(p) ==
  /\ renewal[p].at = "answered"
  /\ renewal' = [renewal EXCEPT ![p] = NoRenewal]
  /\ \/ loop' = [loop EXCEPT ![p] = Dropped(@)]
     \/ renewal[p].answer = Failed /\ UNCHANGED loop
  /\ UNCHANGED <<life, grants, live, pass, troubles>>

-------------------------------------------------------------------------------
\* The steps a process takes once its loop is started.
LoopStep(p) ==
  \/ PassSettled(p) \/ ReleaseLease(p)
  \/ Tick(p) \/ AcquireLands(p) \/ AcquireFails(p) \/ AcquireAnswered(p)
  \/ PassesFence(p) \/ PassEnds(p)
  \/ SendRenewal(p) \/ RenewalLands(p) \/ RenewalFails(p) \/ RenewalAnswered(p)

LeaseNext ==
  \/ Lapse \/ TroubleElsewhere
  \/ \E p \in Proc : LoopStep(p) \/ Boot(p) \/ Die(p) \/ StartLoop(p) \/ StopLoop(p)

LeaseSpec == LeaseInit /\ [][LeaseNext]_leaseVars

-------------------------------------------------------------------------------
(* Properties.                                                             *)

LoopType == [phase : Phases, held : Nat, lost : BOOLEAN, back : Nat]
PassType == [at : Steps, epoch : Nat, answer : Nat \cup {Failed}]
RenewalType ==
  [at : {"idle", "asking", "answered"}, epoch : Nat, answer : Nat \cup {Failed}]

LeaseTyped ==
  /\ life \in [Proc -> {"unborn", "up", "dead"}]
  /\ grants \in Seq(Proc) /\ live \in BOOLEAN
  /\ loop \in [Proc -> LoopType]
  /\ pass \in [Proc -> PassType]
  /\ renewal \in [Proc -> RenewalType]
  /\ troubles \in 0..MaxTroubles

\* What is off is idle.
Quiet(p) ==
  /\ loop[p].phase \in {"off", "releasing"} => loop[p].held = 0 /\ pass[p].at = "idle"
  /\ life[p] # "up" => loop[p].phase = "off" /\ renewal[p].at = "idle"
  /\ pass[p].at = "idle" => pass[p].epoch = 0 /\ pass[p].answer = 0

\* Every variable of the lease and the loops has its type, and a loop that is off
\* holds no lease and runs no pass (interval-loop.ts:60-80, 118-121; lease.ts:11).
LeaseTypeOK == LeaseTyped /\ \A p \in Proc : Quiet(p)

Runs(p) == pass[p].at \in {"running", "mutating"}

Granted(p, e) == e \in DOMAIN grants /\ grants[e] = p

\* A process believes in, runs under, or is about to hand back only epochs that
\* were granted to it, so no two processes ever share one
\* (lease.ts:18-32, interval-loop.ts:249-297).
EpochsAreOwn ==
  \A p \in Proc :
    \A e \in {loop[p].held, loop[p].back, pass[p].epoch, renewal[p].epoch} :
      e # 0 => Granted(p, e)

\* A pass that is told it is active runs under the lease its process holds now,
\* never under one that was lost and taken again
\* (interval-loop.ts:19, 226, 260, 302).
ActivePassHolds ==
  \A p \in Proc :
    Runs(p) /\ loop[p].phase = "on" /\ ~loop[p].lost => loop[p].held = pass[p].epoch

\* With every statement answered and no process stalled past a TTL, at most
\* one process is inside a pass, across handoffs, drains and crashes
\* (interval-loop.ts:111-124, 249-271; start.ts:62-76).
OnePassAtATime ==
  troubles = 0 => \A p, q \in Proc : Runs(p) /\ Runs(q) => p = q

\* Passes and their fenced work implement FencedLease: work is let through
\* under the newest epoch only and never returns to an older one (fence.ts:17-25).
Fenced == INSTANCE FencedLease WITH
  under <- [p \in Proc |-> IF Runs(p) THEN pass[p].epoch ELSE 0],
  working <- {p \in Proc : pass[p].at = "mutating"}

ImplementsFence == Fenced!Spec
===============================================================================
