------------------------------- MODULE BuildGate -------------------------------
(***************************************************************************)
(* The build gate (build-gate.ts): Redis scripts that admit builds into    *)
(* this server's BuildKit or onto a build target, and the builds, here and *)
(* of linked instances, that wait at it, sweep, build and give their slot  *)
(* back.                                                                   *)
(*                                                                         *)
(* A Redis script is one step.  A build is one activation of withBuildSlot *)
(* under one token; a build that joins the line again does so at its end,  *)
(* as the new token of the code does.                                      *)
(***************************************************************************)
EXTENDS Integers, Sequences, FiniteSets

CONSTANTS
  Builds,      \* builds of this server's deploys
  Peers,       \* builds of linked instances that ask for a slot here
  Limits,      \* what the limit may be on an attempt: memory and its pressure change
  TargetLimit, \* slots on the build target
  MaxTroubles, \* bound on the kinds of trouble in one behaviour, each at most once
  None         \* no hold

Tokens == Builds \cup Peers

ASSUME GateAssumption ==
  /\ IsFiniteSet(Builds) /\ IsFiniteSet(Peers) /\ Builds \cap Peers = {}
  /\ Limits \subseteq Nat \ {0} /\ TargetLimit \in Nat \ {0} /\ MaxTroubles \in Nat
  /\ {None, "dirty"} \cap Tokens = {} /\ None # "dirty"

VARIABLES
  pc,       \* where each build is
  may,      \* where it may build: here, either, or away on the target only
  queue,    \* the line
  quiet,    \* entries whose last poll is too old
  wants,    \* per token: what its entry says of the target
  held,     \* tokens with a live lease here
  lapsed,   \* tokens whose lease here ran out and was not yet removed
  there,    \* tokens with a live lease on the target
  hold,     \* None, "dirty", or the token that sweeps
  alone,    \* the build admitted alone, until another one is admitted
  met,      \* builds that ran here beside another
  peaks,    \* builds whose rise of BuildKit's memory was recorded
  leftover, \* builds that are gone and whose steps BuildKit still runs
  missed,   \* those of them whose mark on the gate was erased and not swept for
  troubles  \* what has gone wrong so far

line  == <<queue, quiet, wants>>
slots == <<held, lapsed, there, hold, alone>>
vars  == <<pc, may, line, slots, met, peaks, leftover, missed, troubles>>

Places == {"here", "either", "away"}

\* A process dies or stalls, a sweep outlasts its hold or cannot stop what it finds,
\* the target's own gate is full, its builder breaks.
TroubleKinds == {"death", "stall", "slow", "unswept", "refused", "broken"}

Trouble(kind) ==
  /\ kind \notin troubles /\ Cardinality(troubles) < MaxTroubles
  /\ troubles' = troubles \cup {kind}

Fine == UNCHANGED troubles

Go(t, at)   == pc' = [pc EXCEPT ![t] = at]
In(t)       == \E i \in 1..Len(queue) : queue[i] = t
Ahead(q, t) == {q[i] : i \in {j \in 1..Len(q) : \E k \in j + 1..Len(q) : q[k] = t}}

\* The entries of q that are not in S, in their order.
Kept(q, S) ==
  LET kept[n \in 0..Len(q)] ==
        IF n = 0 THEN <<>> ELSE IF q[n] \in S THEN kept[n - 1] ELSE Append(kept[n - 1], q[n])
  IN kept[Len(q)]

Without(S) == Kept(queue, S)

-------------------------------------------------------------------------------
(* LUA_TRY.                                                                *)

\* Leases that ran out go, and with them the trust in BuildKit.
HoldNow == IF lapsed # {} /\ hold = None THEN "dirty" ELSE hold

\* The line once the caller is in it, and the entries that do not poll.
Line(t) == IF In(t) THEN queue ELSE Append(queue, t)
Gone(t) == quiet \ {t}

\* No live entry that may build here is ahead.
FirstHere(t, said) ==
  said # "away" /\ \A e \in Ahead(Line(t), t) : e \in Gone(t) \/ wants[e] = "away"

\* No live entry that may build on the target is ahead.
FirstAway(t) == \A e \in Ahead(Line(t), t) : e \in Gone(t) \/ wants[e] = "here"

\* Mutant: the slot the caller would take is not counted.
BugRoom(limit) == held # {} => HoldNow = None /\ Cardinality(held) <= limit

\* Mutant: a hold keeps builds out of an empty BuildKit too.
BugHoldStays(limit) == HoldNow = None /\ Cardinality(held) < limit

\* A slot is free and no hold set, or nothing runs.
Room(limit) == held # {} => HoldNow = None /\ Cardinality(held) < limit

\* Mutant: a build joins the one that sweeps.
BugSweeps(h) == FALSE

\* The hold of a sweep.
Sweeps(h) == h \in Tokens

MayJoin(t, said, limit) == FirstHere(t, said) /\ ~Sweeps(HoldNow) /\ Room(limit)

MayLeave(t, said) == said # "here" /\ FirstAway(t) /\ Cardinality(there) < TargetLimit

\* Dead entries the script comes across on its way to the caller.
DeadHere(t, said) ==
  {e \in Gone(t) \cap Ahead(Line(t), t) :
     \A f \in Ahead(Line(t), e) : f \in Gone(t) \/ (said # "away" /\ wants[f] = "away")}

DeadAway(t, said) ==
  {e \in Gone(t) \cap Ahead(Line(t), t) :
     said # "here" /\ wants[e] # "here" /\ \A f \in Ahead(Line(t), e) : f \in Gone(t) \/ wants[f] = "here"}

Cleared(t, said, S) ==
  /\ queue' = Kept(Line(t), S) /\ quiet' = Gone(t) \ S
  /\ wants' = [x \in Tokens |-> IF x \in S THEN "here" ELSE IF x = t THEN said ELSE wants[x]]

\* Mutant: a build that joins another leaves the count of admissions as it was.
BugLone(t) == IF held = {} THEN {t} ELSE alone

\* The build admitted alone and nobody since.
Lone(t) == IF held = {} THEN {t} ELSE {}

AdmitHere(t, said, limit) ==
  /\ MayJoin(t, said, limit)
  /\ Cleared(t, said, DeadHere(t, said) \cup {t})
  /\ held' = held \cup {t} /\ lapsed' = {} /\ alone' = Lone(t)
  /\ hold' = IF held = {} THEN t ELSE HoldNow
  /\ Go(t, IF held = {} THEN "sweeping" ELSE "building") /\ UNCHANGED there

AdmitAway(t, said, limit) ==
  /\ ~MayJoin(t, said, limit) /\ MayLeave(t, said)
  /\ Cleared(t, said, DeadHere(t, said) \cup DeadAway(t, said) \cup {t})
  /\ there' = there \cup {t} /\ lapsed' = {} /\ hold' = HoldNow
  /\ Go(t, "asking") /\ UNCHANGED <<held, alone>>

StayInLine(t, said, limit, at) ==
  /\ ~MayJoin(t, said, limit) /\ ~MayLeave(t, said)
  /\ Cleared(t, said, DeadHere(t, said) \cup DeadAway(t, said))
  /\ lapsed' = {} /\ hold' = HoldNow
  /\ Go(t, at) /\ UNCHANGED <<held, there, alone>>

Still == UNCHANGED <<peaks, leftover, missed>>
Rest  == Still /\ UNCHANGED <<may, troubles>>

-------------------------------------------------------------------------------
(* A build of this server.                                                 *)

Arrive(b, place) ==
  /\ pc[b] = "new" /\ Go(b, "joining") /\ may' = [may EXCEPT ![b] = place]
  /\ UNCHANGED <<line, slots, troubles>> /\ Still

\* A build that may run here asks for this server's slot first, before any target is looked at.
Offers(b) ==
  CASE may[b] = "here"   -> {"here"}
    [] may[b] = "either" -> IF pc[b] = "joining" THEN {"here"} ELSE {"here", "either"}
    [] may[b] = "away"   -> {"away"}

Poll(b) ==
  /\ pc[b] \in {"joining", "waiting"}
  /\ \E said \in Offers(b), limit \in Limits :
       AdmitHere(b, said, limit) \/ AdmitAway(b, said, limit) \/ StayInLine(b, said, limit, "waiting")
  /\ Rest

LeftLine(t) ==
  /\ queue' = Without({t}) /\ quiet' = quiet \ {t} /\ wants' = [wants EXCEPT ![t] = "here"]

\* No target is ready: with a deploy slot of this server, the build asks again.
NoTarget(b) ==
  /\ pc[b] \in {"joining", "waiting"} /\ may[b] = "away"
  /\ LeftLine(b) /\ Go(b, "joining") /\ may' = [may EXCEPT ![b] = "either"]
  /\ UNCHANGED <<slots, troubles>> /\ Still

\* An abort or the time limit.
GiveUpWait(b) ==
  /\ pc[b] \in {"joining", "waiting"} /\ LeftLine(b) /\ Go(b, "done")
  /\ UNCHANGED slots /\ Rest

\* LUA_BUMP.
BumpBuild(b) ==
  /\ In(b) /\ queue[1] # b /\ queue' = <<b>> \o Without({b})
  /\ UNCHANGED <<pc, quiet, wants, slots>> /\ Rest

\* What is found in BuildKit is stopped, if it can be.
Stopped ==
  \/ leftover' = {} /\ Fine
  \/ UNCHANGED leftover /\ leftover # {} /\ Trouble("unswept")

\* The first build in an empty BuildKit sweeps it, sizes it and ends the hold.
Sweep(b) ==
  /\ pc[b] = "sweeping" /\ Stopped
  /\ hold' = None /\ Go(b, "building")
  /\ UNCHANGED <<may, line, held, lapsed, there, alone, peaks, missed>>

\* Mutant: the lease stays until it runs out.
BugReleased(t) == UNCHANGED <<held, lapsed>>

Released(t) == held' = held \ {t} /\ lapsed' = lapsed \ {t}

\* A good end.  The peak is recorded when the build was alone throughout.
Finish(b) ==
  /\ pc[b] = "building" /\ Released(b) /\ Go(b, "done")
  /\ peaks' \in IF b \in alone THEN {peaks, peaks \cup {b}} ELSE {peaks}
  /\ UNCHANGED <<may, line, there, hold, alone, leftover, missed, troubles>>

\* A bad end may leave steps running.
Fail(b) ==
  /\ pc[b] = "building" /\ Go(b, "failed") /\ leftover' \in {leftover, leftover \cup {b}}
  /\ UNCHANGED <<may, line, slots, peaks, missed, troubles>>

\* Mutant: a bad end leaves no mark.
BugMarked == hold

\* Nothing joins until BuildKit empties.
Marked == IF Sweeps(hold) THEN hold ELSE "dirty"

\* LUA_RELEASE, dirty.
ReleaseDirty(b) ==
  /\ pc[b] = "failed" /\ Released(b) /\ Go(b, "released")
  /\ hold' = Marked
  /\ UNCHANGED <<line, there, alone>> /\ Rest

\* Mutant: whoever else runs is not looked at.
BugIdle == ~Sweeps(hold)

Idle == held = {} /\ ~Sweeps(hold)

\* LUA_CLAIM_SWEEP.  Leases that ran out go without a mark.
ClaimSweep(b) ==
  /\ pc[b] = "released" /\ lapsed' = {}
  /\ \/ Idle /\ hold' = b /\ Go(b, "clearing") /\ UNCHANGED missed
     \/ /\ ~Idle /\ UNCHANGED hold /\ Go(b, "done")
        /\ missed' = IF hold = None THEN missed \cup (leftover \cap lapsed) ELSE missed
  /\ UNCHANGED <<may, line, held, there, alone, peaks, leftover, troubles>>

ClearSteps(b) ==
  /\ pc[b] = "clearing" /\ Stopped
  /\ hold' = None /\ Go(b, "done")
  /\ UNCHANGED <<may, line, held, lapsed, there, alone, peaks, missed>>

-------------------------------------------------------------------------------
(* A build on the target.                                                  *)

\* The target's own gate has room, or does not answer.
GoAway(b) ==
  /\ pc[b] = "asking" /\ Go(b, "away")
  /\ UNCHANGED <<line, slots>> /\ Rest

FreeThere(b) == there' = there \ {b} /\ UNCHANGED <<line, held, lapsed, hold, alone>> /\ Still

\* It is full: the build starts over.
Refused(b) ==
  /\ pc[b] = "asking" /\ Trouble("refused") /\ Go(b, "joining")
  /\ FreeThere(b) /\ UNCHANGED may

FinishAway(b) ==
  /\ pc[b] = "away" /\ Go(b, "done")
  /\ FreeThere(b) /\ UNCHANGED <<may, troubles>>

\* The target fails for reasons of its own: the build runs again here.
Broken(b) ==
  /\ pc[b] = "away" /\ Trouble("broken") /\ Go(b, "joining") /\ may' = [may EXCEPT ![b] = "here"]
  /\ FreeThere(b)

-------------------------------------------------------------------------------
(* A slot for a linked instance, whose build runs in a builder of its own. *)

\* Refused for memory, or tried for at once.
ClaimForPeer(p) ==
  /\ pc[p] = "new"
  /\ \/ Go(p, "done") /\ UNCHANGED <<line, slots>>
     \/ \E limit \in Limits : AdmitHere(p, "here", limit) \/ StayInLine(p, "here", limit, "refused")
  /\ Rest

RemovePeer(p) ==
  /\ pc[p] = "refused" /\ LeftLine(p) /\ Go(p, "done")
  /\ UNCHANGED slots /\ Rest

\* Its builder is another one: the hold ends and nothing is swept.
EndPeerSweep(p) ==
  /\ pc[p] = "sweeping" /\ hold' = None /\ Go(p, "building") /\ missed' = missed \cup leftover
  /\ UNCHANGED <<may, line, held, lapsed, there, alone, peaks, leftover, troubles>>

ReleasePeer(p) ==
  /\ pc[p] = "building" /\ Released(p) /\ Go(p, "done")
  /\ UNCHANGED <<line, there, hold, alone>> /\ Rest

-------------------------------------------------------------------------------
(* Deaths, leases and time.                                                *)

Works == {"joining", "waiting", "sweeping", "building", "failed", "released", "clearing", "asking", "away", "refused"}

Die(t) ==
  /\ pc[t] \in Works /\ Go(t, "dead") /\ Trouble("death")
  /\ leftover' \in IF t \in Builds /\ pc[t] = "building" THEN {leftover, leftover \cup {t}} ELSE {leftover}
  /\ UNCHANGED <<may, line, slots, peaks, missed>>

\* The process that should renew is dead, or stalls for once.
Silent(t) == (pc[t] = "dead" /\ Fine) \/ (pc[t] # "dead" /\ Trouble("stall"))

LapseHere(t) ==
  /\ t \in held /\ held' = held \ {t} /\ lapsed' = lapsed \cup {t} /\ Silent(t)
  /\ UNCHANGED <<pc, may, line, there, hold, alone>> /\ Still

LapseThere(t) ==
  /\ t \in there /\ there' = there \ {t} /\ Silent(t)
  /\ UNCHANGED <<pc, may, line, held, lapsed, hold, alone>> /\ Still

LapsePoll(t) ==
  /\ In(t) /\ t \notin quiet /\ quiet' = quiet \cup {t} /\ Silent(t)
  /\ UNCHANGED <<pc, may, queue, wants, slots>> /\ Still

\* The hold of a sweep outlasts the sweeper's lease, unless the sweep is slow; the
\* other one outlasts the builds it waits for.
LapseHold ==
  /\ \/ Sweeps(hold) /\ pc[hold] = "dead" /\ hold \notin held /\ Fine
     \/ Sweeps(hold) /\ pc[hold] # "dead" /\ Trouble("slow")
     \/ hold = "dirty" /\ held = {} /\ Fine
  /\ hold' = None
  /\ UNCHANGED <<pc, may, line, held, lapsed, there, alone>> /\ Still

\* LUA_RENEW takes back a lease that ran out, and its slot with it.
Renew(b) ==
  /\ \/ /\ pc[b] \in {"sweeping", "building"} /\ b \notin held
        /\ held' = held \cup {b} /\ lapsed' = lapsed \ {b} /\ UNCHANGED there
     \/ /\ pc[b] = "away" /\ b \notin there
        /\ there' = there \cup {b} /\ UNCHANGED <<held, lapsed>>
  /\ UNCHANGED <<pc, line, hold, alone>> /\ Rest

-------------------------------------------------------------------------------
BuildStep(b) ==
  \/ Poll(b) \/ NoTarget(b) \/ Sweep(b) \/ Finish(b) \/ Fail(b)
  \/ ReleaseDirty(b) \/ ClaimSweep(b) \/ ClearSteps(b)
  \/ GoAway(b) \/ Refused(b) \/ FinishAway(b) \/ Broken(b)

PeerStep(p) == RemovePeer(p) \/ EndPeerSweep(p) \/ ReleasePeer(p)

\* History: builds that ran here beside another.
Meets == met' = met \cup {b \in Builds : pc'[b] = "building" /\ \E c \in Builds \ {b} : pc'[c] = "building"}

Next ==
  /\ \/ \E b \in Builds :
          \/ \E place \in Places : Arrive(b, place)
          \/ BuildStep(b) \/ GiveUpWait(b) \/ BumpBuild(b) \/ Renew(b)
     \/ \E p \in Peers : ClaimForPeer(p) \/ PeerStep(p)
     \/ \E t \in Tokens : Die(t) \/ LapseHere(t) \/ LapseThere(t) \/ LapsePoll(t)
     \/ LapseHold
  /\ Meets

Init ==
  /\ pc = [t \in Tokens |-> "new"] /\ may = [t \in Tokens |-> "here"]
  /\ queue = <<>> /\ quiet = {} /\ wants = [t \in Tokens |-> "here"]
  /\ held = {} /\ lapsed = {} /\ there = {}
  /\ hold = None /\ alone = {} /\ met = {} /\ peaks = {} /\ leftover = {} /\ missed = {} /\ troubles = {}

\* Builds poll and end, and leases nobody renews run out.
Fairness ==
  /\ \A b \in Builds : WF_vars(BuildStep(b) /\ Meets)
  /\ \A p \in Peers : WF_vars(PeerStep(p) /\ Meets)
  /\ \A t \in Tokens :
       /\ WF_vars(LapseHere(t) /\ pc[t] = "dead" /\ Meets)
       /\ WF_vars(LapseThere(t) /\ pc[t] = "dead" /\ Meets)
       /\ WF_vars(LapsePoll(t) /\ pc[t] = "dead" /\ Meets)
  /\ WF_vars(LapseHold /\ Sweeps(hold) /\ pc[hold] = "dead" /\ Meets)

Spec == Init /\ [][Next]_vars /\ Fairness

-------------------------------------------------------------------------------
Sweeping(t) == pc[t] \in {"sweeping", "clearing"}
InBuildKit  == {b \in Builds : pc[b] \in {"sweeping", "building", "clearing"}}
RunsHere    == {t \in Tokens : pc[t] \in {"sweeping", "building"}}
RunsThere   == {b \in Builds : pc[b] \in {"asking", "away"}}
Late        == IF "stall" \in troubles THEN 1 ELSE 0

\* Every variable is typed; a slot belongs to a build that was admitted and has not
\* ended, an entry in the line to one that waits.
GateTypeOK ==
  /\ pc \in [Tokens -> Works \cup {"new", "done", "dead"}] /\ may \in [Tokens -> Places]
  /\ queue \in Seq(Tokens) /\ quiet \subseteq Tokens /\ wants \in [Tokens -> Places]
  /\ {held, lapsed, there, alone, met, peaks} \subseteq SUBSET Tokens
  /\ hold \in Tokens \cup {None, "dirty"}
  /\ {leftover, missed} \subseteq SUBSET Builds /\ troubles \subseteq TroubleKinds
  /\ \A t \in held \cup there : pc[t] \notin {"new", "joining", "waiting", "done"}
  /\ \A t \in Tokens : In(t) => pc[t] \in {"waiting", "refused", "dead"}

\* Whoever stops what runs in BuildKit, or sizes it, is the only build there: steps of a
\* live build are never swept away, while no process stalls and no sweep outlasts its hold.
SweepsAlone ==
  troubles \cap {"stall", "slow"} = {} =>
    \A b \in InBuildKit : Sweeping(b) => InBuildKit = {b}

\* No more builds run at once than the largest limit, here and on the target, and a
\* stalled process adds one at most.
WithinLimits ==
  \A limit \in Limits :
    (\A l \in Limits : l <= limit) =>
      Cardinality(RunsHere) <= limit + Late /\ Cardinality(RunsThere) <= TargetLimit + Late

\* A recorded peak is of a build that had BuildKit to itself from its start to its end.
PeaksAreOwn == "stall" \notin troubles => peaks \cap met = {}

\* A build that starts finds in BuildKit no steps of builds that are gone, except of one
\* whose slot has not been given back yet and of those whose mark a linked instance's slot
\* or a failed build's claim erased, while no process stalls and every sweep is in time and
\* stops what it finds.
StartsClean == [][
  troubles' \cap {"stall", "slow", "unswept"} = {} =>
    \A b \in Builds : pc[b] # "building" /\ pc'[b] = "building" =>
      leftover' \subseteq held' \cup lapsed' \cup missed']_vars

\* Every build that asks for a slot ends, unless builds are bumped forever.
EveryBuildEnds ==
  <>[][\A b \in Builds : ~BumpBuild(b)]_vars =>
    \A b \in Builds : pc[b] = "joining" ~> pc[b] \in {"done", "dead"}
===============================================================================
