--------------------------- MODULE WorkerLoopsProofs ---------------------------
(***************************************************************************)
(* Theorems of LoopLease, for any number of processes and any number of    *)
(* stalls and failed statements: its type invariant, that epochs are never *)
(* shared, that an active pass holds its lease, that at most one pass runs *)
(* while nothing fails, and that it implements FencedLease.                *)
(*                                                                         *)
(* Then of WorkerLoops: the handoff between web and its workers only ever  *)
(* does to a loop what LoopLease allows, so all of that holds across every *)
(* handoff, drain and crash.                                               *)
(***************************************************************************)
EXTENDS WorkerLoops, SequenceTheorems, TLAPS

\* What the row looks like after the upsert, and what the upsert answers.
LEMMA AcquireGrants ==
  ASSUME NEW p \in Proc, grants \in Seq(Proc), AcquireLease(p)
  PROVE  /\ grants' \in Seq(Proc)
         /\ Len(grants) \in Nat /\ Len(grants') \in Nat
         /\ \A e \in DOMAIN grants : e \in DOMAIN grants' /\ grants'[e] = grants[e]
         /\ Answer(p) \in Nat
         /\ Answer(p) # 0 => /\ Answer(p) = Len(grants') /\ Answer(p) \in DOMAIN grants'
                             /\ grants'[Answer(p)] = p /\ live' = TRUE
         /\ Answer(p) = 0 => UNCHANGED <<grants, live>> /\ ~HolderIs(p)
<1>1. CASE HolderIs(p)
  <2>1. grants' = grants /\ live' = TRUE /\ Answer(p) = Len(grants)
    BY <1>1 DEF AcquireLease, MayAcquire, GrantsAfter, Answer
  <2>2. /\ Len(grants) \in Nat /\ Len(grants) # 0
        /\ Len(grants) \in DOMAIN grants /\ grants[Len(grants)] = p
    BY <1>1 DEF HolderIs, Epoch
  <2> QED BY <2>1, <2>2
<1>2. CASE ~HolderIs(p) /\ ~live
  <2> DEFINE g == Append(grants, p)
  <2>1. grants' = g /\ live' = TRUE
    BY <1>2 DEF AcquireLease, MayAcquire, GrantsAfter
  <2>2. Answer(p) = Len(g)
    BY <1>2 DEF MayAcquire, GrantsAfter, Answer
  <2>3. /\ g \in Seq(Proc)
        /\ Len(g) = Len(grants) + 1
        /\ \A e \in 1..Len(grants) : g[e] = grants[e]
        /\ g[Len(grants) + 1] = p
    BY AppendProperties
  <2>4. /\ DOMAIN g = 1..Len(g) /\ DOMAIN grants = 1..Len(grants)
        /\ Len(grants) \in Nat /\ Len(g) \in Nat
    BY <2>3
  <2> HIDE DEF g
  <2>5. Len(g) # 0 /\ Len(g) \in DOMAIN g /\ g[Len(g)] = p
    BY <2>3, <2>4
  <2>6. \A e \in DOMAIN grants : e \in DOMAIN g /\ g[e] = grants[e]
    BY <2>3, <2>4
  <2> QED BY <2>1, <2>2, <2>3, <2>4, <2>5, <2>6
<1>3. CASE ~HolderIs(p) /\ live
  <2>1. UNCHANGED <<grants, live>> /\ Answer(p) = 0
    BY <1>3 DEF AcquireLease, Answer, MayAcquire
  <2>2. Len(grants) \in Nat
    OBVIOUS
  <2> QED BY <1>3, <2>1, <2>2
<1> QED BY <1>1, <1>2, <1>3

-------------------------------------------------------------------------------
(* The type invariant.                                                     *)

LEMMA TroubleTyped ==
  ASSUME troubles \in 0..MaxTroubles, Trouble \/ UNCHANGED troubles
  PROVE  troubles' \in 0..MaxTroubles
BY LeaseAssumption DEF Trouble

LEMMA RecordsTyped ==
  /\ NoLoop \in LoopType /\ NoPass \in PassType /\ NoRenewal \in RenewalType
  /\ \A l \in LoopType : Dropped(l) \in LoopType /\ HandsBack(l) \in LoopType
                          /\ [l EXCEPT !.phase = "off", !.back = 0] \in LoopType
  /\ \A l \in LoopType, e \in Nat : [l EXCEPT !.held = e, !.lost = FALSE] \in LoopType
  /\ \A x \in PassType, n \in Nat \cup {Failed} :
       [x EXCEPT !.at = "answered", !.answer = n] \in PassType
  /\ \A x \in RenewalType, n \in Nat \cup {Failed} :
       [x EXCEPT !.at = "answered", !.answer = n] \in RenewalType
  /\ \A e \in Nat : Under(e) \in PassType
BY DEF NoLoop, NoPass, NoRenewal, LoopType, PassType, RenewalType, Phases, Steps, Failed, Dropped,
       HandsBack, Under

LEMMA TypedStep == LeaseTyped /\ [LeaseNext]_leaseVars => LeaseTyped'
<1> SUFFICES ASSUME LeaseTyped, [LeaseNext]_leaseVars PROVE LeaseTyped'
  OBVIOUS
<1> USE DEF LeaseTyped
<1>1. CASE Lapse
  <2>1. troubles' \in 0..MaxTroubles
    BY <1>1, TroubleTyped DEF Lapse
  <2> QED BY <1>1, <2>1 DEF Lapse
<1>2. CASE TroubleElsewhere
  <2>1. troubles' \in 0..MaxTroubles
    BY <1>2, TroubleTyped DEF TroubleElsewhere
  <2> QED BY <1>2, <2>1 DEF TroubleElsewhere
<1>3. ASSUME NEW p \in Proc, PassSettled(p) PROVE LeaseTyped'
  BY <1>3, RecordsTyped DEF PassSettled
<1>4. ASSUME NEW p \in Proc, ReleaseLease(p) PROVE LeaseTyped'
  <2>1. troubles' \in 0..MaxTroubles
    BY <1>4, TroubleTyped DEF ReleaseLease
  <2>2. live' \in BOOLEAN
    <3>1. (live /\ ~IsLease(p, loop[p].back)) \in BOOLEAN
      OBVIOUS
    <3> QED BY <1>4, <3>1 DEF ReleaseLease
  <2>3. loop' \in [Proc -> LoopType]
    BY <1>4, RecordsTyped DEF ReleaseLease
  <2> QED BY <1>4, <2>1, <2>2, <2>3 DEF ReleaseLease
<1>5. ASSUME NEW p \in Proc, Tick(p) PROVE LeaseTyped'
  BY <1>5 DEF Tick, PassType, Steps
<1>6. ASSUME NEW p \in Proc, AcquireLands(p) PROVE LeaseTyped'
  <2>1. /\ grants' \in Seq(Proc) /\ live' \in BOOLEAN /\ Answer(p) \in Nat
    BY <1>6, AcquireGrants DEF AcquireLands, AcquireLease
  <2>2. pass' \in [Proc -> PassType]
    BY <1>6, <2>1, RecordsTyped DEF AcquireLands
  <2> QED BY <1>6, <2>1, <2>2 DEF AcquireLands
<1>7. ASSUME NEW p \in Proc, AcquireFails(p) PROVE LeaseTyped'
  <2>1. grants' \in Seq(Proc) /\ live' \in BOOLEAN
    BY <1>7, AcquireGrants DEF AcquireFails, AcquireLease
  <2>2. pass' \in [Proc -> PassType]
    BY <1>7 DEF AcquireFails, PassType, Steps
  <2>3. troubles' \in 0..MaxTroubles
    BY <1>7, TroubleTyped DEF AcquireFails
  <2> QED BY <1>7, <2>1, <2>2, <2>3 DEF AcquireFails
<1>8. ASSUME NEW p \in Proc, AcquireAnswered(p) PROVE LeaseTyped'
  <2>1. loop[p] \in LoopType /\ loop[p].held \in Nat /\ pass[p].answer \in Nat \cup {Failed}
    BY DEF LoopType, PassType
  <2>2. loop' \in [Proc -> LoopType] /\ pass' \in [Proc -> PassType]
    <3>1. CASE pass[p].answer \in {0, Failed} /\ loop' = [loop EXCEPT ![p] = Dropped(@)]
               /\ pass' = [pass EXCEPT ![p] = NoPass]
      BY <2>1, <3>1, RecordsTyped
    <3>2. CASE pass[p].answer > 0 /\ loop' = [loop EXCEPT ![p] = [@ EXCEPT !.held = pass[p].answer, !.lost = FALSE]]
               /\ pass' = [pass EXCEPT ![p] = IF loop[p].phase = "on" THEN Under(pass[p].answer) ELSE NoPass]
      <4>1. pass[p].answer \in Nat
        BY <2>1, <3>2 DEF Failed
      <4> QED BY <2>1, <3>2, <4>1, RecordsTyped DEF LoopType
    <3>3. CASE UNCHANGED loop /\ pass' = [pass EXCEPT ![p] = Under(loop[p].held)]
      BY <2>1, <3>3, RecordsTyped
    <3> QED BY <1>8, <3>1, <3>2, <3>3 DEF AcquireAnswered
  <2> QED BY <1>8, <2>2 DEF AcquireAnswered
<1>9. ASSUME NEW p \in Proc, PassesFence(p) PROVE LeaseTyped'
  BY <1>9 DEF PassesFence, PassType, Steps
<1>10. ASSUME NEW p \in Proc, PassEnds(p) PROVE LeaseTyped'
  BY <1>10, RecordsTyped DEF PassEnds
<1>11. ASSUME NEW p \in Proc, SendRenewal(p) PROVE LeaseTyped'
  BY <1>11 DEF SendRenewal, LoopType, RenewalType
<1>12. ASSUME NEW p \in Proc, RenewalLands(p) PROVE LeaseTyped'
  <2>1. grants' \in Seq(Proc) /\ live' \in BOOLEAN /\ Answer(p) \in Nat
    BY <1>12, AcquireGrants DEF RenewalLands, AcquireLease
  <2>2. renewal' \in [Proc -> RenewalType]
    BY <1>12, <2>1, RecordsTyped DEF RenewalLands
  <2> QED BY <1>12, <2>1, <2>2 DEF RenewalLands
<1>13. ASSUME NEW p \in Proc, RenewalFails(p) PROVE LeaseTyped'
  <2>1. grants' \in Seq(Proc) /\ live' \in BOOLEAN
    BY <1>13, AcquireGrants DEF RenewalFails, AcquireLease
  <2>2. renewal' \in [Proc -> RenewalType]
    BY <1>13 DEF RenewalFails, RenewalType
  <2>3. troubles' \in 0..MaxTroubles
    BY <1>13, TroubleTyped DEF RenewalFails
  <2> QED BY <1>13, <2>1, <2>2, <2>3 DEF RenewalFails
<1>14. ASSUME NEW p \in Proc, RenewalAnswered(p) PROVE LeaseTyped'
  BY <1>14, RecordsTyped DEF RenewalAnswered
<1>15. ASSUME NEW p \in Proc, Boot(p) PROVE LeaseTyped'
  <2>1. troubles' \in 0..MaxTroubles
    BY <1>15, TroubleTyped DEF Boot
  <2> QED BY <1>15, <2>1 DEF Boot
<1>16. ASSUME NEW p \in Proc, Die(p) PROVE LeaseTyped'
  BY <1>16, RecordsTyped DEF Die
<1>17. ASSUME NEW p \in Proc, StartLoop(p) PROVE LeaseTyped'
  <2>1. troubles' \in 0..MaxTroubles
    BY <1>17, TroubleTyped DEF StartLoop
  <2>2. loop' \in [Proc -> LoopType]
    BY <1>17 DEF StartLoop, LoopType, Phases
  <2> QED BY <1>17, <2>1, <2>2 DEF StartLoop
<1>18. ASSUME NEW p \in Proc, StopLoop(p) PROVE LeaseTyped'
  BY <1>18 DEF StopLoop, LoopType, Phases
<1>19. CASE UNCHANGED leaseVars
  BY <1>19 DEF leaseVars
<1> QED
  BY <1>1, <1>2, <1>3, <1>4, <1>5, <1>6, <1>7, <1>8, <1>9, <1>10, <1>11, <1>12, <1>13, <1>14, <1>15,
     <1>16, <1>17, <1>18, <1>19 DEF LeaseNext, LoopStep

-------------------------------------------------------------------------------
(* The inductive invariant.  What a process believes was granted to it; an *)
(* active pass runs under the lease held; and as long as nothing stalled   *)
(* or failed, what a process believes is what the row says, and it leaves a *)
(* renewal behind only when it hands its lease back.                       *)

Own(p) ==
  /\ \A e \in {loop[p].held, loop[p].back, pass[p].epoch, renewal[p].epoch} :
       e # 0 => Granted(p, e)
  /\ pass[p].answer \notin {0, Failed} =>
       pass[p].at = "answered" /\ Granted(p, pass[p].answer)

Current(p) ==
  Runs(p) => /\ pass[p].epoch # 0
             /\ loop[p].phase = "on" /\ ~loop[p].lost => loop[p].held = pass[p].epoch

Alone(p) ==
  troubles = 0 =>
    /\ loop[p].held # 0 => IsLease(p, loop[p].held)
    /\ pass[p].at = "answered" =>
         /\ pass[p].answer # Failed
         /\ pass[p].answer # 0 => IsLease(p, pass[p].answer)
         /\ pass[p].answer = 0 => loop[p].held = 0
    /\ Runs(p) => loop[p].held # 0
    /\ renewal[p].at # "idle" =>
         \/ loop[p].held = 0 /\ loop[p].phase \in {"off", "releasing"}
         \/ renewal[p].at = "asking" /\ loop[p].held # 0 /\ loop[p].held = renewal[p].epoch

Good(p) == Quiet(p) /\ Own(p) /\ Current(p) /\ Alone(p)

LeaseInv == LeaseTyped /\ \A p \in Proc : Good(p)

\* The row after a step, as far as process p can tell.
RowKept(p) ==
  /\ \A e : Granted(p, e) => Granted(p, e)'
  /\ troubles' = 0 =>
       /\ troubles = 0
       /\ \A e \in {loop[p].held, pass[p].answer} : e # 0 /\ IsLease(p, e) => IsLease(p, e)'

\* A step that leaves a process alone leaves what holds of it.
LEMMA LeftAlone ==
  ASSUME NEW p \in Proc, Good(p), RowKept(p),
         life'[p] = life[p], loop'[p] = loop[p], pass'[p] = pass[p], renewal'[p] = renewal[p]
  PROVE  Good(p)'
<1>1. Quiet(p)'
  BY DEF Good, Quiet
<1>2. Own(p)'
  BY DEF Good, Quiet, Own, RowKept
<1>3. Current(p)'
  BY DEF Good, Current, Runs
<1>4. Alone(p)'
  BY DEF Good, Alone, RowKept, Runs
<1> QED BY <1>1, <1>2, <1>3, <1>4 DEF Good

\* The upsert takes nothing from a process whose lease is live.
LEMMA AcquireKeeps ==
  ASSUME grants \in Seq(Proc), NEW p \in Proc, NEW q \in Proc, AcquireLease(q)
  PROVE  /\ \A e : Granted(p, e) => Granted(p, e)'
         /\ \A e : IsLease(p, e) => IsLease(p, e)'
<1>1. \A e : Granted(p, e) => Granted(p, e)'
  BY AcquireGrants DEF Granted
<1>2. ASSUME NEW e, IsLease(p, e) PROVE IsLease(p, e)'
  <2>1. CASE HolderIs(q)
    <3>1. grants' = grants /\ live' = TRUE
      BY <2>1 DEF AcquireLease, MayAcquire, GrantsAfter
    <3> QED BY <3>1, <1>2 DEF IsLease, HolderIs, Epoch
  <2>2. CASE ~HolderIs(q)
    <3>1. UNCHANGED <<grants, live>>
      BY <2>2, <1>2 DEF AcquireLease, MayAcquire, IsLease
    <3> QED BY <3>1, <1>2 DEF IsLease, HolderIs, Epoch
  <2> QED BY <2>1, <2>2
<1> QED BY <1>1, <1>2

LEMMA RowSame ==
  ASSUME UNCHANGED <<grants, live>>, UNCHANGED troubles \/ Trouble, troubles \in Nat
  PROVE  \A q \in Proc : RowKept(q)
<1>1. troubles' = 0 => troubles = 0
  BY DEF Trouble
<1> QED BY <1>1 DEF RowKept, Granted, IsLease, HolderIs, Epoch

LEMMA TickGood ==
  ASSUME LeaseInv, LeaseTyped', NEW p \in Proc, Tick(p)
  PROVE  \A q \in Proc : Good(q)'
<1>1. \A q \in Proc : RowKept(q)
  BY RowSame DEF Tick, LeaseInv, LeaseTyped
<1>2. ASSUME NEW q \in Proc, q # p PROVE Good(q)'
  <2>1. life'[q] = life[q] /\ loop'[q] = loop[q] /\ pass'[q] = pass[q] /\ renewal'[q] = renewal[q]
    BY <1>2 DEF Tick, LeaseInv, LeaseTyped
  <2>2. Good(q)
    BY DEF LeaseInv
  <2> QED BY <1>1, <2>1, <2>2, LeftAlone
<1>3. Good(p)'
  <2>1. Good(p) /\ RowKept(p)
    BY <1>1 DEF LeaseInv
  <2> USE DEF Tick, LeaseInv, LeaseTyped, LoopType, PassType, RenewalType
  <2>2. Quiet(p)'
    BY <2>1 DEF Good, Quiet
  <2>3. Own(p)'
    BY <2>1 DEF Good, Quiet, Own, RowKept
  <2>4. Current(p)'
    BY <2>1 DEF Good, Quiet, Current, Runs
  <2>5. Alone(p)'
    BY <2>1 DEF Good, Quiet, Alone, Runs, RowKept
  <2> QED BY <2>2, <2>3, <2>4, <2>5 DEF Good
<1> QED BY <1>2, <1>3

LEMMA PassesFenceGood ==
  ASSUME LeaseInv, LeaseTyped', NEW p \in Proc, PassesFence(p)
  PROVE  \A q \in Proc : Good(q)'
<1>1. \A q \in Proc : RowKept(q)
  BY RowSame DEF PassesFence, LeaseInv, LeaseTyped
<1>2. ASSUME NEW q \in Proc, q # p PROVE Good(q)'
  <2>1. life'[q] = life[q] /\ loop'[q] = loop[q] /\ pass'[q] = pass[q] /\ renewal'[q] = renewal[q]
    BY <1>2 DEF PassesFence, LeaseInv, LeaseTyped
  <2>2. Good(q)
    BY DEF LeaseInv
  <2> QED BY <1>1, <2>1, <2>2, LeftAlone
<1>3. Good(p)'
  <2>1. Good(p) /\ RowKept(p)
    BY <1>1 DEF LeaseInv
  <2> USE DEF PassesFence, LeaseInv, LeaseTyped, LoopType, PassType, RenewalType
  <2>2. Quiet(p)'
    BY <2>1 DEF Good, Quiet
  <2>3. Own(p)'
    BY <2>1 DEF Good, Quiet, Own, RowKept
  <2>4. Current(p)'
    BY <2>1 DEF Good, Quiet, Current, Runs
  <2>5. Alone(p)'
    BY <2>1 DEF Good, Quiet, Alone, Runs, RowKept
  <2> QED BY <2>2, <2>3, <2>4, <2>5 DEF Good
<1> QED BY <1>2, <1>3

LEMMA PassEndsGood ==
  ASSUME LeaseInv, LeaseTyped', NEW p \in Proc, PassEnds(p)
  PROVE  \A q \in Proc : Good(q)'
<1>1. \A q \in Proc : RowKept(q)
  BY RowSame DEF PassEnds, LeaseInv, LeaseTyped
<1>2. ASSUME NEW q \in Proc, q # p PROVE Good(q)'
  <2>1. life'[q] = life[q] /\ loop'[q] = loop[q] /\ pass'[q] = pass[q] /\ renewal'[q] = renewal[q]
    BY <1>2 DEF PassEnds, LeaseInv, LeaseTyped
  <2>2. Good(q)
    BY DEF LeaseInv
  <2> QED BY <1>1, <2>1, <2>2, LeftAlone
<1>3. Good(p)'
  <2>1. Good(p) /\ RowKept(p)
    BY <1>1 DEF LeaseInv
  <2> USE DEF PassEnds, NoPass, LeaseInv, LeaseTyped, LoopType, PassType, RenewalType
  <2>2. Quiet(p)'
    BY <2>1 DEF Good, Quiet
  <2>3. Own(p)'
    BY <2>1 DEF Good, Quiet, Own, RowKept
  <2>4. Current(p)'
    BY <2>1 DEF Good, Quiet, Current, Runs
  <2>5. Alone(p)'
    BY <2>1 DEF Good, Quiet, Alone, Runs, RowKept
  <2> QED BY <2>2, <2>3, <2>4, <2>5 DEF Good
<1> QED BY <1>2, <1>3

LEMMA SendRenewalGood ==
  ASSUME LeaseInv, LeaseTyped', NEW p \in Proc, SendRenewal(p)
  PROVE  \A q \in Proc : Good(q)'
<1>1. \A q \in Proc : RowKept(q)
  BY RowSame DEF SendRenewal, LeaseInv, LeaseTyped
<1>2. ASSUME NEW q \in Proc, q # p PROVE Good(q)'
  <2>1. life'[q] = life[q] /\ loop'[q] = loop[q] /\ pass'[q] = pass[q] /\ renewal'[q] = renewal[q]
    BY <1>2 DEF SendRenewal, LeaseInv, LeaseTyped
  <2>2. Good(q)
    BY DEF LeaseInv
  <2> QED BY <1>1, <2>1, <2>2, LeftAlone
<1>3. Good(p)'
  <2>1. Good(p) /\ RowKept(p)
    BY <1>1 DEF LeaseInv
  <2> USE DEF SendRenewal, LeaseInv, LeaseTyped, LoopType, PassType, RenewalType
  <2>2. Quiet(p)'
    BY <2>1 DEF Good, Quiet
  <2>3. Own(p)'
    BY <2>1 DEF Good, Quiet, Own, RowKept
  <2>4. Current(p)'
    BY <2>1 DEF Good, Quiet, Current, Runs
  <2>5. Alone(p)'
    BY <2>1 DEF Good, Quiet, Alone, Runs, RowKept
  <2> QED BY <2>2, <2>3, <2>4, <2>5 DEF Good
<1> QED BY <1>2, <1>3

LEMMA StopLoopGood ==
  ASSUME LeaseInv, LeaseTyped', NEW p \in Proc, StopLoop(p)
  PROVE  \A q \in Proc : Good(q)'
<1>1. \A q \in Proc : RowKept(q)
  BY RowSame DEF StopLoop, LeaseInv, LeaseTyped
<1>2. ASSUME NEW q \in Proc, q # p PROVE Good(q)'
  <2>1. life'[q] = life[q] /\ loop'[q] = loop[q] /\ pass'[q] = pass[q] /\ renewal'[q] = renewal[q]
    BY <1>2 DEF StopLoop, LeaseInv, LeaseTyped
  <2>2. Good(q)
    BY DEF LeaseInv
  <2> QED BY <1>1, <2>1, <2>2, LeftAlone
<1>3. Good(p)'
  <2>1. Good(p) /\ RowKept(p)
    BY <1>1 DEF LeaseInv
  <2> USE DEF StopLoop, LeaseInv, LeaseTyped, LoopType, PassType, RenewalType
  <2>2. Quiet(p)'
    BY <2>1 DEF Good, Quiet
  <2>3. Own(p)'
    BY <2>1 DEF Good, Quiet, Own, RowKept
  <2>4. Current(p)'
    BY <2>1 DEF Good, Quiet, Current, Runs
  <2>5. Alone(p)'
    BY <2>1 DEF Good, Quiet, Alone, Runs, RowKept
  <2> QED BY <2>2, <2>3, <2>4, <2>5 DEF Good
<1> QED BY <1>2, <1>3

LEMMA PassSettledGood ==
  ASSUME LeaseInv, LeaseTyped', NEW p \in Proc, PassSettled(p)
  PROVE  \A q \in Proc : Good(q)'
<1>1. \A q \in Proc : RowKept(q)
  BY RowSame DEF PassSettled, LeaseInv, LeaseTyped
<1>2. ASSUME NEW q \in Proc, q # p PROVE Good(q)'
  <2>1. life'[q] = life[q] /\ loop'[q] = loop[q] /\ pass'[q] = pass[q] /\ renewal'[q] = renewal[q]
    BY <1>2 DEF PassSettled, LeaseInv, LeaseTyped
  <2>2. Good(q)
    BY DEF LeaseInv
  <2> QED BY <1>1, <2>1, <2>2, LeftAlone
<1>3. Good(p)'
  <2>1. Good(p) /\ RowKept(p)
    BY <1>1 DEF LeaseInv
  <2> USE DEF PassSettled, HandsBack, Settled, LeaseInv, LeaseTyped, LoopType, PassType, RenewalType
  <2>2. Quiet(p)'
    BY <2>1 DEF Good, Quiet
  <2>3. Own(p)'
    BY <2>1 DEF Good, Quiet, Own, RowKept
  <2>4. Current(p)'
    BY <2>1 DEF Good, Quiet, Current, Runs
  <2>5. Alone(p)'
    BY <2>1 DEF Good, Quiet, Alone, Runs, RowKept
  <2> QED BY <2>2, <2>3, <2>4, <2>5 DEF Good
<1> QED BY <1>2, <1>3

LEMMA ReleaseLeaseGood ==
  ASSUME LeaseInv, LeaseTyped', NEW p \in Proc, ReleaseLease(p)
  PROVE  \A q \in Proc : Good(q)'
<1>1. \A q \in Proc : RowKept(q)
  <2>1. grants' = grants /\ (troubles' = 0 => troubles = 0)
    BY DEF ReleaseLease, Trouble, LeaseInv, LeaseTyped
  <2>2. ASSUME NEW q \in Proc, NEW e \in {loop[q].held, pass[q].answer}, e # 0, IsLease(q, e),
               troubles' = 0
        PROVE  IsLease(q, e)'
    <3>1. CASE UNCHANGED live
      BY <2>1, <2>2, <3>1 DEF IsLease, HolderIs, Epoch
    <3>2. CASE live' = (live /\ ~IsLease(p, loop[p].back))
      <4>1. q # p
        BY <2>2 DEF ReleaseLease, LeaseInv, Good, Quiet
      <4>2. ~HolderIs(p)
        BY <2>2, <4>1 DEF IsLease, HolderIs
      <4> QED BY <2>1, <2>2, <3>2, <4>2 DEF IsLease, HolderIs, Epoch
    <3> QED BY <3>1, <3>2 DEF ReleaseLease
  <2> QED BY <2>1, <2>2 DEF RowKept, Granted
<1>2. ASSUME NEW q \in Proc, q # p PROVE Good(q)'
  <2>1. life'[q] = life[q] /\ loop'[q] = loop[q] /\ pass'[q] = pass[q] /\ renewal'[q] = renewal[q]
    BY <1>2 DEF ReleaseLease, LeaseInv, LeaseTyped
  <2>2. Good(q)
    BY DEF LeaseInv
  <2> QED BY <1>1, <2>1, <2>2, LeftAlone
<1>3. Good(p)'
  <2>1. Good(p) /\ RowKept(p)
    BY <1>1 DEF LeaseInv
  <2> USE DEF ReleaseLease, LeaseInv, LeaseTyped, LoopType, PassType, RenewalType
  <2>2. Quiet(p)'
    BY <2>1 DEF Good, Quiet
  <2>3. Own(p)'
    BY <2>1 DEF Good, Quiet, Own, RowKept
  <2>4. Current(p)'
    BY <2>1 DEF Good, Quiet, Current, Runs
  <2>5. Alone(p)'
    BY <2>1 DEF Good, Quiet, Alone, Runs, RowKept
  <2> QED BY <2>2, <2>3, <2>4, <2>5 DEF Good
<1> QED BY <1>2, <1>3

LEMMA AcquireLandsGood ==
  ASSUME LeaseInv, LeaseTyped', NEW p \in Proc, AcquireLands(p)
  PROVE  \A q \in Proc : Good(q)'
<1>1. \A q \in Proc : RowKept(q)
  BY AcquireKeeps DEF AcquireLands, LeaseInv, LeaseTyped, RowKept
<1>2. ASSUME NEW q \in Proc, q # p PROVE Good(q)'
  <2>1. life'[q] = life[q] /\ loop'[q] = loop[q] /\ pass'[q] = pass[q] /\ renewal'[q] = renewal[q]
    BY <1>2 DEF AcquireLands, LeaseInv, LeaseTyped
  <2>2. Good(q)
    BY DEF LeaseInv
  <2> QED BY <1>1, <2>1, <2>2, LeftAlone
<1>3. Good(p)'
  <2>1. Good(p) /\ RowKept(p)
    BY <1>1 DEF LeaseInv
  <2> USE DEF AcquireLands, NoPass, LeaseInv, LeaseTyped, LoopType, PassType, RenewalType
  <2>0. /\ Answer(p) \in Nat
        /\ \A e : e = Answer(p) /\ e # 0 => Granted(p, e)' /\ IsLease(p, e)'
        /\ Answer(p) = 0 => ~HolderIs(p)
    BY AcquireGrants DEF Granted, IsLease, HolderIs, Epoch
  <2>2. Quiet(p)'
    BY <2>0, <2>1 DEF Good, Quiet
  <2>3. Own(p)'
    BY <2>0, <2>1 DEF Good, Quiet, Own, RowKept
  <2>4. Current(p)'
    BY <2>0, <2>1 DEF Good, Quiet, Current, Runs
  <2>5. Alone(p)'
    BY <2>0, <2>1 DEF Good, Quiet, Alone, Runs, RowKept, IsLease, Failed
  <2> QED BY <2>2, <2>3, <2>4, <2>5 DEF Good
<1> QED BY <1>2, <1>3

LEMMA AcquireFailsGood ==
  ASSUME LeaseInv, LeaseTyped', NEW p \in Proc, AcquireFails(p)
  PROVE  \A q \in Proc : Good(q)'
<1>1. \A q \in Proc : RowKept(q)
  <2>1. troubles' # 0
    BY DEF AcquireFails, Trouble, LeaseInv, LeaseTyped
  <2>2. \A q \in Proc : \A e : Granted(q, e) => Granted(q, e)'
    BY AcquireKeeps DEF AcquireFails, LeaseInv, LeaseTyped, Granted
  <2> QED BY <2>1, <2>2 DEF RowKept
<1>2. ASSUME NEW q \in Proc, q # p PROVE Good(q)'
  <2>1. life'[q] = life[q] /\ loop'[q] = loop[q] /\ pass'[q] = pass[q] /\ renewal'[q] = renewal[q]
    BY <1>2 DEF AcquireFails, LeaseInv, LeaseTyped
  <2>2. Good(q)
    BY DEF LeaseInv
  <2> QED BY <1>1, <2>1, <2>2, LeftAlone
<1>3. Good(p)'
  <2>1. Good(p) /\ RowKept(p)
    BY <1>1 DEF LeaseInv
  <2> USE DEF AcquireFails, LeaseInv, LeaseTyped, LoopType, PassType, RenewalType
  <2>0. troubles' # 0
    BY DEF Trouble
  <2>2. Quiet(p)'
    BY <2>1 DEF Good, Quiet
  <2>3. Own(p)'
    BY <2>1 DEF Good, Quiet, Own, RowKept
  <2>4. Current(p)'
    BY <2>1 DEF Good, Quiet, Current, Runs
  <2>5. Alone(p)'
    BY <2>0 DEF Alone, Good, Quiet, Runs, RowKept
  <2> QED BY <2>2, <2>3, <2>4, <2>5 DEF Good
<1> QED BY <1>2, <1>3

LEMMA RenewalFailsGood ==
  ASSUME LeaseInv, LeaseTyped', NEW p \in Proc, RenewalFails(p)
  PROVE  \A q \in Proc : Good(q)'
<1>1. \A q \in Proc : RowKept(q)
  <2>1. troubles' # 0
    BY DEF RenewalFails, Trouble, LeaseInv, LeaseTyped
  <2>2. \A q \in Proc : \A e : Granted(q, e) => Granted(q, e)'
    BY AcquireKeeps DEF RenewalFails, LeaseInv, LeaseTyped, Granted
  <2> QED BY <2>1, <2>2 DEF RowKept
<1>2. ASSUME NEW q \in Proc, q # p PROVE Good(q)'
  <2>1. life'[q] = life[q] /\ loop'[q] = loop[q] /\ pass'[q] = pass[q] /\ renewal'[q] = renewal[q]
    BY <1>2 DEF RenewalFails, LeaseInv, LeaseTyped
  <2>2. Good(q)
    BY DEF LeaseInv
  <2> QED BY <1>1, <2>1, <2>2, LeftAlone
<1>3. Good(p)'
  <2>1. Good(p) /\ RowKept(p)
    BY <1>1 DEF LeaseInv
  <2> USE DEF RenewalFails, LeaseInv, LeaseTyped, LoopType, PassType, RenewalType
  <2>0. troubles' # 0
    BY DEF Trouble
  <2>2. Quiet(p)'
    BY <2>1 DEF Good, Quiet
  <2>3. Own(p)'
    BY <2>1 DEF Good, Quiet, Own, RowKept
  <2>4. Current(p)'
    BY <2>1 DEF Good, Quiet, Current, Runs
  <2>5. Alone(p)'
    BY <2>0 DEF Alone, Good, Quiet, Runs, RowKept
  <2> QED BY <2>2, <2>3, <2>4, <2>5 DEF Good
<1> QED BY <1>2, <1>3

LEMMA RenewalLandsGood ==
  ASSUME LeaseInv, LeaseTyped', NEW p \in Proc, RenewalLands(p)
  PROVE  \A q \in Proc : Good(q)'
<1>1. \A q \in Proc : RowKept(q)
  BY AcquireKeeps DEF RenewalLands, LeaseInv, LeaseTyped, RowKept
<1>2. ASSUME NEW q \in Proc, q # p PROVE Good(q)'
  <2>1. life'[q] = life[q] /\ loop'[q] = loop[q] /\ pass'[q] = pass[q] /\ renewal'[q] = renewal[q]
    BY <1>2 DEF RenewalLands, LeaseInv, LeaseTyped
  <2>2. Good(q)
    BY DEF LeaseInv
  <2> QED BY <1>1, <2>1, <2>2, LeftAlone
<1>3. Good(p)'
  <2>1. Good(p) /\ RowKept(p)
    BY <1>1 DEF LeaseInv
  <2> USE DEF RenewalLands, NoRenewal, LeaseInv, LeaseTyped, LoopType, PassType, RenewalType
  <2>0. HolderIs(p) => Answer(p) = Epoch /\ Epoch # 0
    BY DEF Answer, MayAcquire, GrantsAfter, HolderIs, Epoch
  <2>2. Quiet(p)'
    BY <2>1 DEF Good, Quiet
  <2>3. Own(p)'
    BY <2>1 DEF Good, Quiet, Own, RowKept
  <2>4. Current(p)'
    BY <2>1 DEF Good, Quiet, Current, Runs
  <2>5. Alone(p)'
    BY <2>0, <2>1 DEF IsLease, Good, Quiet, Alone, Runs, RowKept
  <2> QED BY <2>2, <2>3, <2>4, <2>5 DEF Good
<1> QED BY <1>2, <1>3

LEMMA RenewalAnsweredGood ==
  ASSUME LeaseInv, LeaseTyped', NEW p \in Proc, RenewalAnswered(p)
  PROVE  \A q \in Proc : Good(q)'
<1>1. \A q \in Proc : RowKept(q)
  BY RowSame DEF RenewalAnswered, LeaseInv, LeaseTyped
<1>2. ASSUME NEW q \in Proc, q # p PROVE Good(q)'
  <2>1. life'[q] = life[q] /\ loop'[q] = loop[q] /\ pass'[q] = pass[q] /\ renewal'[q] = renewal[q]
    BY <1>2 DEF RenewalAnswered, LeaseInv, LeaseTyped
  <2>2. Good(q)
    BY DEF LeaseInv
  <2> QED BY <1>1, <2>1, <2>2, LeftAlone
<1>3. Good(p)'
  <2> DEFINE l == loop[p]
             k == loop'[p]
  <2>1. Good(p) /\ RowKept(p)
    BY <1>1 DEF LeaseInv
  <2>2. /\ k.phase = l.phase /\ k.back = l.back
        /\ \/ k.held = l.held /\ k.lost = l.lost
           \/ k.held = 0 /\ ((l.held = 0 /\ k.lost = l.lost) \/ k.lost = TRUE)
    <3>1. l \in LoopType
      BY DEF LeaseInv, LeaseTyped
    <3>2. CASE k = l
      BY <3>2
    <3>3. CASE k = Dropped(l)
      <4>1. k.phase = l.phase /\ k.back = l.back /\ k.held = 0 /\ k.lost = (l.lost \/ l.held # 0)
        BY <3>1, <3>3 DEF Dropped, LoopType
      <4> QED BY <3>1, <4>1 DEF LoopType
    <3> QED BY <3>2, <3>3 DEF RenewalAnswered, LeaseInv, LeaseTyped
  <2>3. /\ renewal'[p].at = "idle" /\ renewal'[p].epoch = 0 /\ renewal[p].at = "answered"
        /\ UNCHANGED <<life, grants, live, pass, troubles>>
    BY DEF RenewalAnswered, NoRenewal, LeaseInv, LeaseTyped
  <2>4. troubles = 0 => l.held = 0 /\ ~Runs(p)
    BY <2>1, <2>3 DEF Good, Alone
  <2> HIDE DEF l, k
  <2>5. Quiet(p)'
    BY <2>1, <2>2, <2>3 DEF Good, Quiet, l, k
  <2>6. Own(p)'
    BY <2>1, <2>2, <2>3 DEF Good, Quiet, Own, Granted, l, k
  <2>7. Current(p)'
    BY <2>1, <2>2, <2>3 DEF Good, Current, Runs, l, k
  <2>8. Alone(p)'
    BY <2>1, <2>2, <2>3, <2>4 DEF Good, Alone, RowKept, Runs, l, k
  <2> QED BY <2>5, <2>6, <2>7, <2>8 DEF Good
<1> QED BY <1>2, <1>3

LEMMA BootGood ==
  ASSUME LeaseInv, LeaseTyped', NEW p \in Proc, Boot(p)
  PROVE  \A q \in Proc : Good(q)'
<1>1. \A q \in Proc : RowKept(q)
  BY RowSame DEF Boot, LeaseInv, LeaseTyped
<1>2. ASSUME NEW q \in Proc, q # p PROVE Good(q)'
  <2>1. life'[q] = life[q] /\ loop'[q] = loop[q] /\ pass'[q] = pass[q] /\ renewal'[q] = renewal[q]
    BY <1>2 DEF Boot, LeaseInv, LeaseTyped
  <2>2. Good(q)
    BY DEF LeaseInv
  <2> QED BY <1>1, <2>1, <2>2, LeftAlone
<1>3. Good(p)'
  <2>1. Good(p) /\ RowKept(p)
    BY <1>1 DEF LeaseInv
  <2> USE DEF Boot, Trouble, LeaseInv, LeaseTyped, LoopType, PassType, RenewalType
  <2>2. Quiet(p)'
    BY <2>1 DEF Good, Quiet
  <2>3. Own(p)'
    BY <2>1 DEF Good, Quiet, Own, RowKept
  <2>4. Current(p)'
    BY <2>1 DEF Good, Quiet, Current, Runs
  <2>5. Alone(p)'
    BY <2>1 DEF Good, Quiet, Alone, Runs, RowKept
  <2> QED BY <2>2, <2>3, <2>4, <2>5 DEF Good
<1> QED BY <1>2, <1>3

LEMMA DieGood ==
  ASSUME LeaseInv, LeaseTyped', NEW p \in Proc, Die(p)
  PROVE  \A q \in Proc : Good(q)'
<1>1. \A q \in Proc : RowKept(q)
  BY RowSame DEF Die, LeaseInv, LeaseTyped
<1>2. ASSUME NEW q \in Proc, q # p PROVE Good(q)'
  <2>1. life'[q] = life[q] /\ loop'[q] = loop[q] /\ pass'[q] = pass[q] /\ renewal'[q] = renewal[q]
    BY <1>2 DEF Die, LeaseInv, LeaseTyped
  <2>2. Good(q)
    BY DEF LeaseInv
  <2> QED BY <1>1, <2>1, <2>2, LeftAlone
<1>3. Good(p)'
  <2>1. Good(p) /\ RowKept(p)
    BY <1>1 DEF LeaseInv
  <2> USE DEF Die, NoLoop, NoPass, NoRenewal, LeaseInv, LeaseTyped, LoopType, PassType, RenewalType
  <2>2. Quiet(p)'
    BY <2>1 DEF Good, Quiet
  <2>3. Own(p)'
    BY <2>1 DEF Good, Quiet, Own, RowKept
  <2>4. Current(p)'
    BY <2>1 DEF Good, Quiet, Current, Runs
  <2>5. Alone(p)'
    BY <2>1 DEF Good, Quiet, Alone, Runs, RowKept
  <2> QED BY <2>2, <2>3, <2>4, <2>5 DEF Good
<1> QED BY <1>2, <1>3

LEMMA StartLoopGood ==
  ASSUME LeaseInv, LeaseTyped', NEW p \in Proc, StartLoop(p)
  PROVE  \A q \in Proc : Good(q)'
<1>1. \A q \in Proc : RowKept(q)
  BY RowSame DEF StartLoop, LeaseInv, LeaseTyped
<1>2. ASSUME NEW q \in Proc, q # p PROVE Good(q)'
  <2>1. life'[q] = life[q] /\ loop'[q] = loop[q] /\ pass'[q] = pass[q] /\ renewal'[q] = renewal[q]
    BY <1>2 DEF StartLoop, LeaseInv, LeaseTyped
  <2>2. Good(q)
    BY DEF LeaseInv
  <2> QED BY <1>1, <2>1, <2>2, LeftAlone
<1>3. Good(p)'
  <2>1. Good(p) /\ RowKept(p)
    BY <1>1 DEF LeaseInv
  <2> USE DEF StartLoop, Trouble, LeaseInv, LeaseTyped, LoopType, PassType, RenewalType
  <2>2. Quiet(p)'
    BY <2>1 DEF Good, Quiet
  <2>3. Own(p)'
    BY <2>1 DEF Good, Quiet, Own, RowKept
  <2>4. Current(p)'
    BY <2>1 DEF Good, Quiet, Current, Runs
  <2>5. Alone(p)'
    BY <2>1 DEF Good, Quiet, Alone, Runs, RowKept
  <2> QED BY <2>2, <2>3, <2>4, <2>5 DEF Good
<1> QED BY <1>2, <1>3

LEMMA AcquireAnsweredGood ==
  ASSUME LeaseInv, LeaseTyped', NEW p \in Proc, AcquireAnswered(p)
  PROVE  \A q \in Proc : Good(q)'
<1>1. \A q \in Proc : RowKept(q)
  BY RowSame DEF AcquireAnswered, LeaseInv, LeaseTyped
<1>2. ASSUME NEW q \in Proc, q # p PROVE Good(q)'
  <2>1. life'[q] = life[q] /\ loop'[q] = loop[q] /\ pass'[q] = pass[q] /\ renewal'[q] = renewal[q]
    BY <1>2 DEF AcquireAnswered, LeaseInv, LeaseTyped
  <2>2. Good(q)
    BY DEF LeaseInv
  <2> QED BY <1>1, <2>1, <2>2, LeftAlone
<1>3. Good(p)'
  <2> DEFINE l == loop[p]
             k == loop'[p]
             a == pass[p].answer
  <2>1. Good(p) /\ RowKept(p)
    BY <1>1 DEF LeaseInv
  <2>2. /\ pass[p].at = "answered" /\ UNCHANGED <<life, grants, live, renewal, troubles>>
        /\ l \in LoopType /\ a \in Nat \cup {Failed} /\ ~(l.phase \in {"off", "releasing"}) /\ life[p] = "up"
    BY <2>1 DEF AcquireAnswered, LeaseInv, LeaseTyped, PassType, Good, Quiet
  <2>3. CASE a \in {0, Failed} /\ k = Dropped(l) /\ pass'[p] = NoPass
    <3>1. /\ k.phase = l.phase /\ k.back = l.back /\ k.held = 0
          /\ pass'[p].at = "idle" /\ pass'[p].epoch = 0 /\ pass'[p].answer = 0
      BY <2>2, <2>3 DEF Dropped, LoopType, NoPass
    <3>2. troubles = 0 => l.held = 0
      BY <2>1, <2>2, <2>3 DEF Good, Alone
    <3> HIDE DEF l, k, a
    <3>3. Quiet(p)'
      BY <2>1, <2>2, <3>1 DEF Good, Quiet, l, k
    <3>4. Own(p)'
      BY <2>1, <2>2, <3>1 DEF Good, Quiet, Own, Granted, Failed, l, k
    <3>5. Current(p)'
      BY <3>1 DEF Current, Runs
    <3>6. Alone(p)'
      BY <2>1, <2>2, <3>1, <3>2 DEF Good, Alone, Runs, l, k
    <3> QED BY <3>3, <3>4, <3>5, <3>6 DEF Good
  <2>4. CASE /\ a > 0 /\ k = [l EXCEPT !.held = a, !.lost = FALSE]
             /\ pass'[p] = IF l.phase = "on" THEN Under(a) ELSE NoPass
    <3>1. /\ k.phase = l.phase /\ k.back = l.back /\ k.held = a /\ a # 0 /\ a # Failed
      BY <2>2, <2>4 DEF LoopType, Failed
    <3>2. /\ pass'[p].answer = 0
          /\ \/ pass'[p].at = "running" /\ pass'[p].epoch = a
             \/ pass'[p].at = "idle" /\ pass'[p].epoch = 0
      BY <2>4 DEF Under, NoPass
    <3>3. troubles = 0 /\ renewal[p].at # "idle" => renewal[p].at = "asking" /\ renewal[p].epoch = a
      BY <2>1, <2>2, <3>1 DEF Good, Alone, IsLease
    <3>4. troubles = 0 => IsLease(p, loop[p].held)'
      BY <2>1, <2>2, <3>1 DEF Good, Alone, IsLease, HolderIs, Epoch
    <3>5. Granted(p, loop[p].held)'
      BY <2>1, <2>2, <3>1 DEF Good, Quiet, Own, Granted
    <3> HIDE DEF l, k, a
    <3>6. Quiet(p)'
      BY <2>1, <2>2, <3>1, <3>2 DEF Good, Quiet, l, k
    <3>7. Own(p)'
      BY <2>1, <2>2, <3>1, <3>2, <3>5 DEF Good, Quiet, Own, Granted, l, k
    <3>8. Current(p)'
      BY <3>1, <3>2 DEF Current, Runs, k
    <3>9. Alone(p)'
      BY <2>2, <3>1, <3>2, <3>3, <3>4 DEF Alone, Runs, k
    <3> QED BY <3>6, <3>7, <3>8, <3>9 DEF Good
  <2>5. CASE a = Failed /\ l.held # 0 /\ k = l /\ pass'[p] = Under(l.held)
    <3>1. pass'[p].at = "running" /\ pass'[p].epoch = l.held /\ pass'[p].answer = 0
      BY <2>5 DEF Under
    <3>2. troubles # 0
      BY <2>1, <2>2, <2>5 DEF Good, Alone
    <3> HIDE DEF l, k, a
    <3>3. Quiet(p)'
      BY <2>1, <2>2, <2>5, <3>1 DEF Good, Quiet, l, k
    <3>4. Own(p)'
      BY <2>1, <2>2, <2>5, <3>1 DEF Good, Quiet, Own, Granted, l, k
    <3>5. Current(p)'
      BY <2>5, <3>1 DEF Current, Runs, l, k
    <3>6. Alone(p)'
      BY <2>2, <3>2 DEF Alone
    <3> QED BY <3>3, <3>4, <3>5, <3>6 DEF Good
  <2> QED BY <2>3, <2>4, <2>5 DEF AcquireAnswered, LeaseInv, LeaseTyped
<1> QED BY <1>2, <1>3

\* A lease somebody believes in lapses only by a counted stall.
LEMMA LapseGood ==
  ASSUME LeaseInv, LeaseTyped', Lapse
  PROVE  \A q \in Proc : Good(q)'
<1>1. ASSUME NEW q \in Proc PROVE RowKept(q)
  <2>1. grants' = grants /\ (troubles' = 0 => troubles = 0)
    BY DEF Lapse, Trouble, LeaseInv, LeaseTyped
  <2>2. ASSUME troubles' = 0, NEW e \in {loop[q].held, pass[q].answer}, e # 0, IsLease(q, e)
        PROVE  FALSE
    <3>1. ~Kept /\ troubles = 0
      BY <2>1, <2>2 DEF Lapse, Trouble, LeaseInv, LeaseTyped
    <3>2. HolderIs(q) /\ Epoch = e
      BY <2>2 DEF IsLease
    <3>3. Good(q)
      BY DEF LeaseInv
    <3>4. life[q] = "up" => loop[q].held # Epoch /\ ~(pass[q].at = "answered" /\ pass[q].answer = Epoch)
      BY <3>1, <3>2 DEF Kept
    <3>5. CASE e = loop[q].held
      <4>1. life[q] = "up"
        BY <2>2, <3>3, <3>5 DEF Good, Quiet
      <4> QED BY <3>2, <3>4, <3>5, <4>1
    <3>6. CASE e = pass[q].answer
      <4>1. pass[q].at = "answered"
        <5>1. e # Failed
          BY <2>2, <3>2 DEF Failed, Epoch, LeaseInv, LeaseTyped
        <5> QED BY <2>2, <3>3, <3>6, <5>1 DEF Good, Quiet, Own
      <4>2. life[q] = "up"
        BY <3>3, <4>1 DEF Good, Quiet
      <4> QED BY <3>2, <3>4, <3>6, <4>1, <4>2
    <3> QED BY <2>2, <3>5, <3>6
  <2> QED BY <2>1, <2>2 DEF RowKept, Granted
<1>2. ASSUME NEW q \in Proc PROVE Good(q)'
  BY <1>1, LeftAlone DEF Lapse, LeaseInv
<1> QED BY <1>2

LEMMA LeaseInvInit == LeaseInit => LeaseInv
<1> SUFFICES ASSUME LeaseInit PROVE LeaseInv
  OBVIOUS
<1>1. grants \in Seq(Proc)
  BY DEF LeaseInit
<1>2. LeaseTyped
  <2>1. 0 \in 0..MaxTroubles
    BY LeaseAssumption
  <2>2. loop \in [Proc -> LoopType] /\ pass \in [Proc -> PassType] /\ renewal \in [Proc -> RenewalType]
    BY RecordsTyped DEF LeaseInit
  <2>3. life \in [Proc -> {"unborn", "up", "dead"}] /\ live \in BOOLEAN /\ troubles = 0
    BY DEF LeaseInit
  <2> QED BY <1>1, <2>1, <2>2, <2>3 DEF LeaseTyped
<1>3. ASSUME NEW p \in Proc PROVE Good(p)
  BY DEF LeaseInit, Good, Quiet, Own, Current, Alone, Runs, NoLoop, NoPass, NoRenewal, Failed
<1> QED BY <1>2, <1>3 DEF LeaseInv

LEMMA LeaseInvStep == LeaseInv /\ [LeaseNext]_leaseVars => LeaseInv'
<1> SUFFICES ASSUME LeaseInv, [LeaseNext]_leaseVars PROVE LeaseInv'
  OBVIOUS
<1>1. LeaseTyped'
  BY TypedStep DEF LeaseInv
<1>2. \A q \in Proc : Good(q)'
  <2>1. CASE Lapse
    BY <1>1, <2>1, LapseGood
  <2>2. CASE TroubleElsewhere
    <3>1. \A q \in Proc : RowKept(q)
      BY <2>2, RowSame DEF TroubleElsewhere, LeaseInv, LeaseTyped
    <3> QED BY <2>2, <3>1, LeftAlone DEF TroubleElsewhere, LeaseInv
  <2>3. ASSUME NEW p \in Proc, PassSettled(p) PROVE \A q \in Proc : Good(q)'
    BY <1>1, <2>3, PassSettledGood
  <2>4. ASSUME NEW p \in Proc, ReleaseLease(p) PROVE \A q \in Proc : Good(q)'
    BY <1>1, <2>4, ReleaseLeaseGood
  <2>5. ASSUME NEW p \in Proc, Tick(p) PROVE \A q \in Proc : Good(q)'
    BY <1>1, <2>5, TickGood
  <2>6. ASSUME NEW p \in Proc, AcquireLands(p) PROVE \A q \in Proc : Good(q)'
    BY <1>1, <2>6, AcquireLandsGood
  <2>7. ASSUME NEW p \in Proc, AcquireFails(p) PROVE \A q \in Proc : Good(q)'
    BY <1>1, <2>7, AcquireFailsGood
  <2>8. ASSUME NEW p \in Proc, AcquireAnswered(p) PROVE \A q \in Proc : Good(q)'
    BY <1>1, <2>8, AcquireAnsweredGood
  <2>9. ASSUME NEW p \in Proc, PassesFence(p) PROVE \A q \in Proc : Good(q)'
    BY <1>1, <2>9, PassesFenceGood
  <2>10. ASSUME NEW p \in Proc, PassEnds(p) PROVE \A q \in Proc : Good(q)'
    BY <1>1, <2>10, PassEndsGood
  <2>11. ASSUME NEW p \in Proc, SendRenewal(p) PROVE \A q \in Proc : Good(q)'
    BY <1>1, <2>11, SendRenewalGood
  <2>12. ASSUME NEW p \in Proc, RenewalLands(p) PROVE \A q \in Proc : Good(q)'
    BY <1>1, <2>12, RenewalLandsGood
  <2>13. ASSUME NEW p \in Proc, RenewalFails(p) PROVE \A q \in Proc : Good(q)'
    BY <1>1, <2>13, RenewalFailsGood
  <2>14. ASSUME NEW p \in Proc, RenewalAnswered(p) PROVE \A q \in Proc : Good(q)'
    BY <1>1, <2>14, RenewalAnsweredGood
  <2>15. ASSUME NEW p \in Proc, Boot(p) PROVE \A q \in Proc : Good(q)'
    BY <1>1, <2>15, BootGood
  <2>16. ASSUME NEW p \in Proc, Die(p) PROVE \A q \in Proc : Good(q)'
    BY <1>1, <2>16, DieGood
  <2>17. ASSUME NEW p \in Proc, StartLoop(p) PROVE \A q \in Proc : Good(q)'
    BY <1>1, <2>17, StartLoopGood
  <2>18. ASSUME NEW p \in Proc, StopLoop(p) PROVE \A q \in Proc : Good(q)'
    BY <1>1, <2>18, StopLoopGood
  <2>19. CASE UNCHANGED leaseVars
    <3>1. \A q \in Proc : RowKept(q)
      BY <2>19, RowSame DEF leaseVars, LeaseInv, LeaseTyped
    <3> QED BY <2>19, <3>1, LeftAlone DEF leaseVars, LeaseInv
  <2> QED
    BY <2>1, <2>2, <2>3, <2>4, <2>5, <2>6, <2>7, <2>8, <2>9, <2>10, <2>11, <2>12,
       <2>13, <2>14, <2>15, <2>16, <2>17, <2>18, <2>19
    DEF LeaseNext, LoopStep
<1> QED BY <1>1, <1>2 DEF LeaseInv

LEMMA LeaseInvAlways == LeaseSpec => []LeaseInv
BY LeaseInvInit, LeaseInvStep, PTL DEF LeaseSpec

-------------------------------------------------------------------------------
(* The theorems.                                                           *)

\* Every variable keeps its type, and a loop that is off holds no lease and runs
\* no pass.
THEOREM LeaseTypeCorrect == LeaseSpec => []LeaseTypeOK
<1>1. LeaseInv => LeaseTypeOK
  BY DEF LeaseInv, LeaseTypeOK, Good
<1> QED BY <1>1, LeaseInvAlways, PTL

\* No process ever believes in an epoch that was granted to another.
THEOREM EpochsStayOwn == LeaseSpec => []EpochsAreOwn
<1>1. LeaseInv => EpochsAreOwn
  BY DEF LeaseInv, EpochsAreOwn, Good, Own
<1> QED BY <1>1, LeaseInvAlways, PTL

\* An active pass runs under the lease its process holds.
THEOREM ActivePassesHold == LeaseSpec => []ActivePassHolds
<1>1. LeaseInv => ActivePassHolds
  BY DEF LeaseInv, ActivePassHolds, Good, Current
<1> QED BY <1>1, LeaseInvAlways, PTL

\* Without stalls and failed statements one process at a time runs a pass.
THEOREM PassesExclude == LeaseSpec => []OnePassAtATime
<1>1. ASSUME LeaseInv PROVE OnePassAtATime
  <2> SUFFICES ASSUME troubles = 0, NEW p \in Proc, NEW q \in Proc, Runs(p), Runs(q) PROVE p = q
    BY DEF OnePassAtATime
  <2>1. Good(p) /\ Good(q)
    BY <1>1 DEF LeaseInv
  <2>2. HolderIs(p) /\ HolderIs(q)
    BY <2>1 DEF Good, Alone, IsLease
  <2> QED BY <2>2 DEF HolderIs
<1> QED BY <1>1, LeaseInvAlways, PTL

-------------------------------------------------------------------------------
(* LoopLease implements FencedLease.                                       *)

Under0   == [p \in Proc |-> IF Runs(p) THEN pass[p].epoch ELSE 0]
Working0 == {p \in Proc : pass[p].at = "mutating"}

\* A step in which no pass begins, ends or goes to its work.
LEMMA SameUnder ==
  ASSUME \A q \in Proc : \/ pass'[q] = pass[q]
                         \/ ~Runs(q) /\ ~Runs(q)'
  PROVE  Under0' = Under0 /\ Working0' = Working0
<1>1. \A q \in Proc :
        /\ IF Runs(q)' THEN Runs(q) /\ pass'[q].epoch = pass[q].epoch ELSE ~Runs(q)
        /\ pass'[q].at = "mutating" <=> pass[q].at = "mutating"
  BY DEF Runs
<1>2. Under0' = Under0
  BY <1>1 DEF Under0, Runs
<1>3. Working0' = Working0
  BY <1>1 DEF Working0
<1> QED BY <1>2, <1>3

\* The upsert grants the next epoch or leaves the grants as they are.
LEMMA AcquireAbstract ==
  ASSUME NEW p \in Proc, AcquireLease(p) \/ UNCHANGED <<grants, live>>,
         Under0' = Under0, Working0' = Working0
  PROVE  [Fenced!Next]_Fenced!vars
<1>1. grants' = grants \/ grants' = Append(grants, p)
  BY DEF AcquireLease, GrantsAfter
<1> QED BY <1>1 DEF Fenced!Next, Fenced!Grant, Fenced!vars, Under0, Working0

LEMMA FencedStep == LeaseInv /\ LeaseInv' /\ [LeaseNext]_leaseVars => [Fenced!Next]_Fenced!vars
<1> SUFFICES ASSUME LeaseInv, LeaseInv', [LeaseNext]_leaseVars PROVE [Fenced!Next]_Fenced!vars
  OBVIOUS
<1> USE DEF LeaseInv, LeaseTyped
<1>1. CASE UNCHANGED <<grants, pass>>
  <2>1. Under0' = Under0 /\ Working0' = Working0
    BY <1>1, SameUnder
  <2> QED BY <1>1, <2>1 DEF Fenced!vars, Under0, Working0
<1>2. ASSUME NEW p \in Proc, AcquireLands(p) PROVE [Fenced!Next]_Fenced!vars
  <2>1. Under0' = Under0 /\ Working0' = Working0
    BY <1>2, SameUnder DEF AcquireLands, Runs, NoPass
  <2> QED BY <1>2, <2>1, AcquireAbstract DEF AcquireLands
<1>3. ASSUME NEW p \in Proc, AcquireFails(p) PROVE [Fenced!Next]_Fenced!vars
  <2>1. Under0' = Under0 /\ Working0' = Working0
    BY <1>3, SameUnder DEF AcquireFails, Runs, NoPass
  <2> QED BY <1>3, <2>1, AcquireAbstract DEF AcquireFails
<1>4. ASSUME NEW p \in Proc, RenewalLands(p) PROVE [Fenced!Next]_Fenced!vars
  <2>1. Under0' = Under0 /\ Working0' = Working0
    BY <1>4, SameUnder DEF RenewalLands, Runs, NoPass
  <2> QED BY <1>4, <2>1, AcquireAbstract DEF RenewalLands
<1>5. ASSUME NEW p \in Proc, RenewalFails(p) PROVE [Fenced!Next]_Fenced!vars
  <2>1. Under0' = Under0 /\ Working0' = Working0
    BY <1>5, SameUnder DEF RenewalFails, Runs, NoPass
  <2> QED BY <1>5, <2>1, AcquireAbstract DEF RenewalFails
<1>6. ASSUME NEW p \in Proc, AcquireAnswered(p) PROVE [Fenced!Next]_Fenced!vars
  <2>1. grants' = grants /\ ~Runs(p) /\ \A q \in Proc \ {p} : pass'[q] = pass[q]
    BY <1>6 DEF AcquireAnswered, Runs
  <2>2. CASE ~Runs(p)'
    <3>1. Under0' = Under0 /\ Working0' = Working0
      BY <2>1, <2>2, SameUnder
    <3> QED BY <2>1, <3>1 DEF Fenced!vars, Under0, Working0
  <2>3. CASE Runs(p)'
    <3>1. pass'[p].at = "running"
      BY <1>6, <2>3 DEF AcquireAnswered, Runs, Under, NoPass
    <3>2. pass'[p].epoch # 0 /\ pass'[p].epoch \in DOMAIN grants /\ grants[pass'[p].epoch] = p
      BY <2>1, <2>3 DEF Good, Own, Current, Granted
    <3>3. Working0' = Working0
      BY <2>1, <3>1 DEF Working0, Runs
    <3>4. Under0[p] = 0 /\ Under0' = [Under0 EXCEPT ![p] = pass'[p].epoch]
      BY <2>1, <2>3 DEF Under0, Runs
    <3> QED BY <2>1, <3>2, <3>3, <3>4 DEF Fenced!Next, Fenced!Begin, Under0, Working0
  <2> QED BY <2>2, <2>3
<1>7. ASSUME NEW p \in Proc, PassesFence(p) PROVE [Fenced!Next]_Fenced!vars
  <2>1. /\ grants' = grants /\ Runs(p) /\ pass[p].epoch # 0 /\ pass[p].epoch = Len(grants)
        /\ pass'[p].at = "mutating" /\ pass'[p].epoch = pass[p].epoch
        /\ \A q \in Proc \ {p} : pass'[q] = pass[q]
    BY <1>7 DEF PassesFence, FenceHolds, IsLease, Epoch, Good, Current, Runs, PassType
  <2>2. Under0' = Under0 /\ Under0[p] = Len(grants)
    BY <2>1 DEF Under0, Runs
  <2>3. Working0' = Working0 \cup {p}
    BY <2>1 DEF Working0
  <2> QED BY <2>1, <2>2, <2>3 DEF Fenced!Next, Fenced!LetThrough, Under0, Working0
<1>8. ASSUME NEW p \in Proc, PassEnds(p) \/ Die(p) PROVE [Fenced!Next]_Fenced!vars
  <2>1. /\ grants' = grants /\ pass'[p].at = "idle" /\ \A q \in Proc \ {p} : pass'[q] = pass[q]
    BY <1>8 DEF PassEnds, Die, NoPass
  <2>2. Under0' = [Under0 EXCEPT ![p] = 0] /\ Working0' = Working0 \ {p}
    BY <2>1 DEF Under0, Working0, Runs
  <2> QED BY <2>1, <2>2 DEF Fenced!Next, Fenced!End, Under0, Working0
<1>9. ASSUME NEW p \in Proc, Tick(p) PROVE [Fenced!Next]_Fenced!vars
  <2>1. Under0' = Under0 /\ Working0' = Working0
    BY <1>9, SameUnder DEF Tick, Runs
  <2> QED BY <1>9, <2>1 DEF Tick, Fenced!vars, Under0, Working0
<1> QED
  BY <1>1, <1>2, <1>3, <1>4, <1>5, <1>6, <1>7, <1>8, <1>9
  DEF LeaseNext, LoopStep, leaseVars, Lapse, TroubleElsewhere, PassSettled, ReleaseLease, SendRenewal,
      RenewalAnswered, Boot, StartLoop, StopLoop

\* Passes and the fenced work they do implement the abstract lease.
THEOREM LeaseImplementsFence == LeaseSpec => ImplementsFence
<1>1. LeaseInit => Fenced!Init
  BY DEF LeaseInit, Fenced!Init, NoPass, Runs
<1> QED BY <1>1, FencedStep, LeaseInvAlways, PTL DEF LeaseSpec, ImplementsFence, Fenced!Spec

-------------------------------------------------------------------------------
(* The handoff.                                                            *)

LEMMA WebIsProc == Web \in Proc /\ Workers \subseteq Proc
BY HandoffAssumption DEF Web, Workers

LEMMA HandoffStep == [HandoffNext]_vars => [LeaseNext]_leaseVars
<1> SUFFICES ASSUME [HandoffNext]_vars PROVE [LeaseNext]_leaseVars
  OBVIOUS
<1>1. ASSUME NEW p \in Proc, StartEntry(p) PROVE [LeaseNext]_leaseVars
  BY <1>1 DEF StartEntry, LeaseNext
<1>2. ASSUME NEW w \in Workers,
             BootWorker(w) \/ MarkBooted(w) \/ Beat(w) \/ Drain(w) \/ WorkerDies(w) \/ BeatAges(w)
      PROVE  [LeaseNext]_leaseVars
  BY <1>2, WebIsProc DEF BootWorker, MarkBooted, Beat, Drain, StopStarted, WorkerDies, BeatAges, LeaseNext
<1>3. CASE StartWebLoops \/ Defer \/ SeePresent \/ AbsenceLasts \/ Resume
  BY <1>3, WebIsProc DEF StartWebLoops, Defer, StopStarted, SeePresent, AbsenceLasts, Resume, LeaseNext
<1>4. ASSUME NEW p \in Proc, LoopStep(p) PROVE [LeaseNext]_leaseVars
  BY <1>4 DEF LeaseNext
<1>5. CASE Lapse
  BY <1>5 DEF LeaseNext
<1>6. CASE UNCHANGED vars
  BY <1>6 DEF vars
<1> QED BY <1>1, <1>2, <1>3, <1>4, <1>5, <1>6 DEF HandoffNext

\* The composition implements the lease protocol.
THEOREM HandoffImplementsLease == HandoffSpec => LeaseSpec
<1>1. HandoffInit => LeaseInit
  BY DEF HandoffInit
<1> QED BY <1>1, HandoffStep, PTL DEF HandoffSpec, LeaseSpec

\* Across handoffs, drains and crashes no two processes run a pass at once while
\* nothing stalls or fails.
THEOREM LoopsExclude == HandoffSpec => []OnePassAtATime
BY HandoffImplementsLease, PassesExclude, PTL

\* No two processes of the composition ever share an epoch.
THEOREM LoopsOwnEpochs == HandoffSpec => []EpochsAreOwn
BY HandoffImplementsLease, EpochsStayOwn, PTL

\* Web's pass, or a worker's, that is told it is active holds its lease.
THEOREM LoopsHold == HandoffSpec => []ActivePassHolds
BY HandoffImplementsLease, ActivePassesHold, PTL

\* The fence lets work of web or of a worker through under the newest epoch only.
THEOREM LoopsImplementFence == HandoffSpec => ImplementsFence
BY HandoffImplementsLease, LeaseImplementsFence, PTL

HandoffTyped ==
  /\ stage \in [Workers -> {"down", "booting", "ready", "draining"}]
  /\ beat \in [Workers -> {"absent", "present"}]
  /\ web \in {"booting", "idle", "resuming"}
  /\ deferred \in BOOLEAN /\ gone \in BOOLEAN /\ pending \subseteq Proc

LEMMA HandoffKeepsTypes == HandoffTyped /\ [HandoffNext]_vars => HandoffTyped'
<1> SUFFICES ASSUME HandoffTyped, [HandoffNext]_vars PROVE HandoffTyped'
  OBVIOUS
<1> USE DEF HandoffTyped
<1>1. ASSUME NEW p \in Proc, StartEntry(p) PROVE HandoffTyped'
  BY <1>1 DEF StartEntry
<1>2. ASSUME NEW w \in Workers,
             BootWorker(w) \/ MarkBooted(w) \/ Drain(w) \/ WorkerDies(w)
      PROVE  HandoffTyped'
  BY <1>2, WebIsProc DEF BootWorker, MarkBooted, Drain, WorkerDies
<1>3. ASSUME NEW w \in Workers, Beat(w) \/ BeatAges(w) PROVE HandoffTyped'
  BY <1>3 DEF Beat, BeatSays, BeatAges
<1>4. CASE StartWebLoops
  <2>1. deferred' \in BOOLEAN
    BY <1>4 DEF StartWebLoops
  <2>2. pending' \subseteq Proc
    BY <1>4, WebIsProc DEF StartWebLoops
  <2> QED BY <1>4, <2>1, <2>2 DEF StartWebLoops
<1>5. CASE Defer \/ SeePresent \/ AbsenceLasts \/ Resume
  BY <1>5, WebIsProc DEF Defer, SeePresent, AbsenceLasts, Resume
<1>6. CASE UNCHANGED handoffVars
  BY <1>6 DEF handoffVars
<1> QED BY <1>1, <1>2, <1>3, <1>4, <1>5, <1>6 DEF HandoffNext, vars

\* Every variable of the composition keeps its type, and a loop that is off holds
\* no lease and runs no pass.
THEOREM HandoffTypeCorrect == HandoffSpec => []HandoffTypeOK
<1>1. HandoffInit => HandoffTyped
  BY DEF HandoffInit, HandoffTyped
<1>2. HandoffSpec => []HandoffTyped
  BY <1>1, HandoffKeepsTypes, PTL DEF HandoffSpec
<1>3. HandoffTyped /\ LeaseTypeOK => HandoffTypeOK
  BY DEF HandoffTyped, HandoffTypeOK
<1> QED BY <1>2, <1>3, HandoffImplementsLease, LeaseTypeCorrect, PTL
===============================================================================
