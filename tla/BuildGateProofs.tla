---------------------------- MODULE BuildGateProofs ----------------------------
(***************************************************************************)
(* What the build gate keeps for any number of builds, linked instances    *)
(* and limits: sweeps are alone in BuildKit, builds start in a clean one,  *)
(* the limits hold, and recorded peaks are of builds that were alone.      *)
(* Only the types depend on the line, and then on what is in it, not on    *)
(* its order; the other proofs look at an admission only through           *)
(* AdmitHere, AdmitAway and StayInLine.  The invariant of the limits       *)
(* counts the slots together with those whose build stalled and lost its   *)
(* lease: such a build goes on, and may take its slot back.                *)
(***************************************************************************)
EXTENDS BuildGate, FiniteSetTheorems, SequenceTheorems, WellFoundedInduction, TLAPS

-------------------------------------------------------------------------------
(* The line, and the types.                                                *)

Less == {p \in Nat \X Nat : p[1] < p[2]}

\* A set of numbers that is not empty has a least one.
LEMMA Least ==
  ASSUME NEW S \in SUBSET Nat, S # {}
  PROVE  \E n \in S : \A m \in S : n <= m
<1>1. IsWellFoundedOn(Less, Nat)
  BY NatLessThanWellFounded, Zenon DEF OpToRel, Less
<1>2. PICK n \in S : \A m \in S : ~(<<m, n>> \in Less)
  BY <1>1, WFMin
<1>3. ASSUME NEW m \in S PROVE n <= m
  <2>1. ~(m < n)
    BY <1>2 DEF Less
  <2> QED
    BY <2>1
<1> QED
  BY <1>3

\* f walks down q as Kept does, as far as n.
Walks(q, S, f, n) ==
  f = [i \in 0..n |-> IF i = 0 THEN <<>> ELSE IF q[i] \in S THEN f[i - 1] ELSE Append(f[i - 1], q[i])]

\* There is such a walk of every line: no place is the first one it cannot reach.
LEMMA WalkExists ==
  ASSUME NEW q \in Seq(Tokens), NEW S
  PROVE  \E f : Walks(q, S, f, Len(q))
<1> DEFINE Bad == {n \in 0..Len(q) : ~\E f : Walks(q, S, f, n)}
<1>0. Len(q) \in Nat
  OBVIOUS
<1>1. ASSUME Bad # {} PROVE FALSE
  <2>0. Bad \in SUBSET Nat
    BY <1>0
  <2>1. PICK n \in Bad : \A m \in Bad : n <= m
    <3> HIDE DEF Bad
    <3> QED
      BY <2>0, <1>1, Least
  <2>2. n \in 0..Len(q) /\ ~\E f : Walks(q, S, f, n)
    OBVIOUS
  <2>3. CASE n = 0
    <3> DEFINE f0 == [i \in 0..0 |-> <<>>]
    <3>0. \A i \in 0..0 : i = 0 /\ f0[i] = <<>>
      OBVIOUS
    <3>1. f0 = [i \in 0..0 |-> f0[i]]
      OBVIOUS
    <3> HIDE DEF f0
    <3>2. Walks(q, S, f0, 0)
      BY <3>0, <3>1, Zenon DEF Walks
    <3> QED
      BY <2>2, <2>3, <3>2
  <2>4. CASE n # 0
    <3>1. n - 1 \in 0..Len(q) /\ ~(n <= n - 1)
      BY <1>0, <2>2, <2>4
    <3>2. PICK f : Walks(q, S, f, n - 1)
      BY <2>1, <3>1
    <3> DEFINE g == [i \in 0..n |-> IF i # n THEN f[i] ELSE IF q[i] \in S THEN f[i - 1] ELSE Append(f[i - 1], q[i])]
    <3>3. ASSUME NEW i \in 0..n
          PROVE  g[i] = IF i = 0 THEN <<>> ELSE IF q[i] \in S THEN g[i - 1] ELSE Append(g[i - 1], q[i])
      <4>1. CASE i = n
        BY <1>0, <2>2, <2>4, <4>1
      <4>2. CASE i # n
        <5>1. i \in 0..n - 1 /\ g[i] = f[i] /\ (i # 0 => g[i - 1] = f[i - 1])
          BY <1>0, <2>2, <2>4, <4>2
        <5>2. f[i] = IF i = 0 THEN <<>> ELSE IF q[i] \in S THEN f[i - 1] ELSE Append(f[i - 1], q[i])
          BY <3>2, <5>1 DEF Walks
        <5> HIDE DEF g
        <5> QED
          BY <5>1, <5>2
      <4> QED
        BY <4>1, <4>2
    <3>4. g = [i \in 0..n |-> g[i]]
      OBVIOUS
    <3> HIDE DEF g
    <3>5. Walks(q, S, g, n)
      BY <3>3, <3>4, Zenon DEF Walks
    <3> QED
      BY <2>2, <3>5
  <2> QED
    BY <2>3, <2>4
<1> QED
  BY <1>0, <1>1

\* What is kept of a line is a line, of its entries that are not in S.
LEMMA KeptLine ==
  ASSUME NEW q \in Seq(Tokens), NEW S
  PROVE  /\ Kept(q, S) \in Seq(Tokens)
         /\ \A i \in 1..Len(Kept(q, S)) : Kept(q, S)[i] \notin S /\ \E j \in 1..Len(q) : Kept(q, S)[i] = q[j]
<1> DEFINE F == CHOOSE f : Walks(q, S, f, Len(q))
           Good(r) == /\ r \in Seq(Tokens)
                      /\ \A i \in 1..Len(r) : r[i] \notin S /\ \E j \in 1..Len(q) : r[i] = q[j]
           Bad == {n \in 0..Len(q) : ~Good(F[n])}
<1>0. Len(q) \in Nat
  OBVIOUS
<1>1. Walks(q, S, F, Len(q))
  BY WalkExists
<1>2. Kept(q, S) = F[Len(q)]
  BY DEF Kept, Walks
<1> HIDE DEF F
<1>3. \A n \in 0..Len(q) : F[n] = IF n = 0 THEN <<>> ELSE IF q[n] \in S THEN F[n - 1] ELSE Append(F[n - 1], q[n])
  BY <1>1 DEF Walks
<1>4. Good(<<>>)
  OBVIOUS
<1>5. ASSUME NEW r, Good(r), NEW n \in 1..Len(q), q[n] \notin S PROVE Good(Append(r, q[n]))
  <2>1. q[n] \in Tokens /\ r \in Seq(Tokens)
    BY <1>5
  <2>2. Append(r, q[n]) \in Seq(Tokens) /\ Len(Append(r, q[n])) = Len(r) + 1 /\ Len(r) \in Nat
    BY <2>1
  <2>3. \A i \in 1..Len(r) + 1 : Append(r, q[n])[i] = IF i = Len(r) + 1 THEN q[n] ELSE r[i]
    BY <2>1
  <2>4. \A i \in 1..Len(r) + 1 : i = Len(r) + 1 \/ i \in 1..Len(r)
    BY <2>2
  <2> QED
    BY <1>5, <2>2, <2>3, <2>4
<1> HIDE DEF Good
<1>6. ASSUME NEW n \in Bad, \A m \in Bad : n <= m PROVE FALSE
  <2>2. n \in 0..Len(q) /\ ~Good(F[n])
    OBVIOUS
  <2>3. n # 0
    BY <1>3, <1>4, <2>2
  <2>4. n - 1 \in 0..Len(q) /\ ~(n <= n - 1) /\ n \in 1..Len(q)
    BY <1>0, <2>2, <2>3
  <2>5. Good(F[n - 1])
    BY <1>6, <2>4
  <2>6. F[n] = IF q[n] \in S THEN F[n - 1] ELSE Append(F[n - 1], q[n])
    BY <1>3, <2>2, <2>3
  <2> QED
    BY <1>5, <2>2, <2>4, <2>5, <2>6
<1>7. Bad \in SUBSET Nat
  BY <1>0
<1>8. Bad = {}
  BY <1>6, <1>7, Least
<1>9. Good(F[Len(q)])
  BY <1>0, <1>8
<1> QED
  BY <1>2, <1>9 DEF Good

-------------------------------------------------------------------------------
\* A slot is held by a build that was admitted and has not given it back; an entry in the
\* line is of one that waits, or of a dead one.
SlotsOwned ==
  /\ \A t \in held : pc[t] \in {"sweeping", "building", "failed", "dead"}
  /\ \A t \in there : pc[t] \in {"asking", "away", "dead"}
LineOwned  == \A t \in Tokens : In(t) => pc[t] \in {"waiting", "refused", "dead"}
LineTyped  == queue \in Seq(Tokens) /\ quiet \subseteq Tokens /\ wants \in [Tokens -> Places]
SlotsTyped ==
  /\ held \subseteq Tokens /\ lapsed \subseteq Tokens /\ there \subseteq Tokens /\ alone \subseteq Tokens
  /\ hold \in Tokens \cup {None, "dirty"}
BuildsTyped ==
  /\ pc \in [Tokens -> Works \cup {"new", "done", "dead"}] /\ may \in [Tokens -> Places]
  /\ met \subseteq Tokens /\ peaks \subseteq Tokens
  /\ leftover \subseteq Builds /\ missed \subseteq Builds /\ troubles \subseteq TroubleKinds

TypeInv == LineTyped /\ SlotsTyped /\ BuildsTyped /\ SlotsOwned /\ LineOwned

\* The line with the caller in it.
LEMMA JoinedLine ==
  ASSUME LineTyped, NEW t \in Tokens
  PROVE  /\ Line(t) \in Seq(Tokens)
         /\ \A i \in 1..Len(Line(t)) : Line(t)[i] = t \/ In(Line(t)[i])
<1>1. CASE In(t)
  BY <1>1 DEF Line, In, LineTyped
<1>2. CASE ~In(t)
  <2>1. Line(t) = Append(queue, t) /\ queue \in Seq(Tokens)
    BY <1>2 DEF Line, LineTyped
  <2>2. Append(queue, t) \in Seq(Tokens) /\ Len(Append(queue, t)) = Len(queue) + 1 /\ Len(queue) \in Nat
    BY <2>1
  <2>3. \A i \in 1..Len(queue) + 1 : Append(queue, t)[i] = IF i = Len(queue) + 1 THEN t ELSE queue[i]
    BY <2>1
  <2>4. \A i \in 1..Len(queue) + 1 : i = Len(queue) + 1 \/ i \in 1..Len(queue)
    BY <2>2
  <2> QED
    BY <2>1, <2>2, <2>3, <2>4 DEF In
<1> QED
  BY <1>1, <1>2

\* A look at the line adds the caller at most, and what it clears is gone.
LEMMA ClearedKeeps ==
  ASSUME LineTyped, NEW t \in Tokens, NEW said \in Places, NEW S, Cleared(t, said, S)
  PROVE  LineTyped' /\ \A x : In(x)' => x \notin S /\ (x = t \/ In(x))
<1>1. Line(t) \in Seq(Tokens) /\ \A i \in 1..Len(Line(t)) : Line(t)[i] = t \/ In(Line(t)[i])
  BY JoinedLine
<1> DEFINE q == Line(t)
<1>2. queue' = Kept(q, S)
  BY DEF Cleared
<1>3. q \in Seq(Tokens) /\ \A i \in 1..Len(q) : q[i] = t \/ In(q[i])
  BY <1>1
<1> HIDE DEF q
<1>4. /\ Kept(q, S) \in Seq(Tokens)
      /\ \A i \in 1..Len(Kept(q, S)) : Kept(q, S)[i] \notin S /\ \E j \in 1..Len(q) : Kept(q, S)[i] = q[j]
  BY <1>3, KeptLine
<1>5. ASSUME NEW x, In(x)' PROVE x \notin S /\ (x = t \/ In(x))
  <2>1. PICK i \in 1..Len(Kept(q, S)) : Kept(q, S)[i] = x
    BY <1>2, <1>5 DEF In
  <2>2. x \notin S /\ \E j \in 1..Len(q) : x = q[j]
    BY <1>4, <2>1
  <2> QED
    BY <1>3, <2>2
<1>6. quiet' \subseteq Tokens /\ wants' \in [Tokens -> Places]
  BY DEF Cleared, Gone, LineTyped, Places
<1> QED
  BY <1>2, <1>4, <1>5, <1>6 DEF LineTyped

\* What leaves the line is gone from it, and the others were in it.
LEMMA WithoutKeeps ==
  ASSUME LineTyped, NEW t \in Tokens
  PROVE  /\ Without({t}) \in Seq(Tokens)
         /\ \A i \in 1..Len(Without({t})) : Without({t})[i] # t /\ In(Without({t})[i])
<1>1. queue \in Seq(Tokens)
  BY DEF LineTyped
<1> DEFINE S == {t}
           r == Kept(queue, S)
<1>2. r = Without({t}) /\ \A x : x \notin S => x # t
  BY DEF Without
<1> HIDE DEF S
<1>3. /\ r \in Seq(Tokens)
      /\ \A i \in 1..Len(r) : r[i] \notin S /\ \E j \in 1..Len(queue) : r[i] = queue[j]
  BY <1>1, KeptLine
<1> HIDE DEF r
<1>4. \A i \in 1..Len(r) : r[i] # t /\ In(r[i])
  BY <1>2, <1>3 DEF In
<1> QED
  BY <1>2, <1>3, <1>4

\* Leaving takes the caller out of the line and adds nobody.
LEMMA LeftLineKeeps ==
  ASSUME LineTyped, NEW t \in Tokens, LeftLine(t)
  PROVE  LineTyped' /\ \A x : In(x)' => x # t /\ In(x)
<1>1. queue' = Without({t}) /\ quiet' \subseteq Tokens /\ wants' \in [Tokens -> Places]
  BY DEF LeftLine, LineTyped, Places
<1> QED
  BY <1>1, WithoutKeeps DEF LineTyped, In

\* An entry moved to the front.
LEMMA FrontLine ==
  ASSUME NEW t \in Tokens, NEW r \in Seq(Tokens)
  PROVE  /\ <<t>> \o r \in Seq(Tokens)
         /\ \A i \in 1..Len(<<t>> \o r) : (<<t>> \o r)[i] = t \/ \E j \in 1..Len(r) : (<<t>> \o r)[i] = r[j]
<1> DEFINE first == <<t>>
           q == first \o r
<1>1. first \in Seq(Tokens) /\ Len(first) = 1 /\ first[1] = t
  OBVIOUS
<1> HIDE DEF first
<1>2. /\ q \in Seq(Tokens) /\ Len(q) = Len(first) + Len(r)
      /\ \A i \in 1..Len(first) + Len(r) : q[i] = IF i <= Len(first) THEN first[i] ELSE r[i - Len(first)]
  BY <1>1, ConcatProperties
<1> HIDE DEF q
<1>3. Len(r) \in Nat /\ Len(q) = 1 + Len(r)
  BY <1>1, <1>2
<1>4. ASSUME NEW i \in 1..Len(q) PROVE q[i] = t \/ \E j \in 1..Len(r) : q[i] = r[j]
  <2>1. CASE i = 1
    BY <1>1, <1>2, <1>3, <2>1
  <2>2. CASE i # 1
    <3>1. i - 1 \in 1..Len(r) /\ q[i] = r[i - 1]
      BY <1>1, <1>2, <1>3, <2>2
    <3> QED
      BY <3>1
  <2> QED
    BY <2>1, <2>2
<1> QED
  BY <1>2, <1>4 DEF q, first

\* A bump changes the order of the line alone.
LEMMA BumpKeeps ==
  ASSUME LineTyped, NEW b \in Tokens, In(b), queue' = <<b>> \o Without({b}), UNCHANGED <<quiet, wants>>
  PROVE  LineTyped' /\ \A x : In(x)' => In(x)
<1> DEFINE r == Without({b})
<1>1. r \in Seq(Tokens) /\ \A i \in 1..Len(r) : In(r[i])
  BY WithoutKeeps
<1> HIDE DEF r
<1>2. queue' = <<b>> \o r
  BY DEF r
<1>3. queue' \in Seq(Tokens) /\ \A i \in 1..Len(queue') : queue'[i] = b \/ \E j \in 1..Len(r) : queue'[i] = r[j]
  <2> DEFINE q == <<b>> \o r
  <2>1. q \in Seq(Tokens) /\ \A i \in 1..Len(q) : q[i] = b \/ \E j \in 1..Len(r) : q[i] = r[j]
    BY <1>1, FrontLine, Zenon
  <2>2. queue' = q
    BY <1>2
  <2> HIDE DEF q
  <2> QED
    BY <2>1, <2>2
<1>4. ASSUME NEW x, In(x)' PROVE In(x)
  <2>1. PICK i \in 1..Len(queue') : queue'[i] = x
    BY <1>4 DEF In
  <2> QED
    BY <1>1, <1>3, <2>1
<1> QED
  BY <1>3, <1>4 DEF LineTyped

\* When one build's place changes and the line only shrinks, its own entry aside.
LEMMA LineOwnedKept ==
  ASSUME LineOwned, BuildsTyped, NEW t \in Tokens, NEW at, Go(t, at),
         \A x \in Tokens : In(x)' => x = t \/ In(x),
         In(t)' => at \in {"waiting", "refused", "dead"}
  PROVE  LineOwned'
BY DEF LineOwned, BuildsTyped, Go

\* A step that leaves the line alone leaves entries to those who wait.
LEMMA SameLineKept ==
  ASSUME TypeInv, NEW t \in Tokens, NEW at, Go(t, at), UNCHANGED line,
         In(t) => at \in {"waiting", "refused", "dead"}
  PROVE  LineTyped' /\ LineOwned'
<1>1. LineTyped' /\ \A x : In(x)' <=> In(x)
  BY DEF TypeInv, LineTyped, line, In
<1> QED
  BY <1>1, LineOwnedKept DEF TypeInv

-------------------------------------------------------------------------------
\* Who met another is a build.
LEMMA MeetsTyped ==
  ASSUME Meets, met \subseteq Tokens
  PROVE  met' \subseteq Tokens
BY DEF Meets, Tokens

\* An admission here takes the caller out of the line, and its slot is its own.
LEMMA AdmitHereTyped ==
  ASSUME TypeInv, NEW t \in Tokens, NEW said \in Places, NEW limit, AdmitHere(t, said, limit),
         pc[t] \in {"new", "joining", "waiting"}, Rest, Meets
  PROVE  TypeInv'
<1>1. LineTyped' /\ \A x : In(x)' => x # t /\ In(x)
  BY ClearedKeeps DEF AdmitHere, TypeInv
<1>2. PICK at \in {"sweeping", "building"} : Go(t, at)
  BY DEF AdmitHere
<1>3. LineOwned'
  BY <1>1, <1>2, LineOwnedKept DEF TypeInv
<1>4. SlotsTyped' /\ SlotsOwned'
  BY <1>2 DEF AdmitHere, TypeInv, SlotsTyped, SlotsOwned, BuildsTyped, Go, HoldNow, Lone
<1>5. BuildsTyped'
  BY <1>2, MeetsTyped DEF TypeInv, BuildsTyped, Go, Rest, Still, Works
<1> QED
  BY <1>1, <1>3, <1>4, <1>5 DEF TypeInv

\* So does one on the target.
LEMMA AdmitAwayTyped ==
  ASSUME TypeInv, NEW t \in Tokens, NEW said \in Places, NEW limit, AdmitAway(t, said, limit),
         pc[t] \in {"joining", "waiting"}, Rest, Meets
  PROVE  TypeInv'
<1>1. LineTyped' /\ \A x : In(x)' => x # t /\ In(x)
  BY ClearedKeeps DEF AdmitAway, TypeInv
<1>2. Go(t, "asking")
  BY DEF AdmitAway
<1>3. LineOwned'
  BY <1>1, <1>2, LineOwnedKept DEF TypeInv
<1>4. SlotsTyped' /\ SlotsOwned'
  BY <1>2 DEF AdmitAway, TypeInv, SlotsTyped, SlotsOwned, BuildsTyped, Go, HoldNow
<1>5. BuildsTyped'
  BY <1>2, MeetsTyped DEF TypeInv, BuildsTyped, Go, Rest, Still, Works
<1> QED
  BY <1>1, <1>3, <1>4, <1>5 DEF TypeInv

\* Who is not admitted is in the line and waits.
LEMMA StayTyped ==
  ASSUME TypeInv, NEW t \in Tokens, NEW said \in Places, NEW limit, NEW at \in {"waiting", "refused"},
         StayInLine(t, said, limit, at), pc[t] \in {"new", "joining", "waiting"}, Rest, Meets
  PROVE  TypeInv'
<1>1. LineTyped' /\ \A x : In(x)' => x = t \/ In(x)
  BY ClearedKeeps DEF StayInLine, TypeInv
<1>2. Go(t, at)
  BY DEF StayInLine
<1>3. LineOwned'
  BY <1>1, <1>2, LineOwnedKept DEF TypeInv
<1>4. SlotsTyped' /\ SlotsOwned'
  BY <1>2 DEF StayInLine, TypeInv, SlotsTyped, SlotsOwned, BuildsTyped, Go, HoldNow
<1>5. BuildsTyped'
  BY <1>2, MeetsTyped DEF TypeInv, BuildsTyped, Go, Rest, Still, Works
<1> QED
  BY <1>1, <1>3, <1>4, <1>5 DEF TypeInv

\* Each attempt of a build of this server keeps the types.
LEMMA PollTyped ==
  ASSUME TypeInv, NEW b \in Builds, Poll(b), Meets
  PROVE  TypeInv'
<1>1. b \in Tokens /\ may[b] \in Places
  BY DEF TypeInv, BuildsTyped, Tokens
<1>2. PICK said \in Offers(b), limit \in Limits :
        AdmitHere(b, said, limit) \/ AdmitAway(b, said, limit) \/ StayInLine(b, said, limit, "waiting")
  BY DEF Poll
<1>3. said \in Places
  BY <1>1, <1>2 DEF Offers, Places
<1>4. pc[b] \in {"joining", "waiting"} /\ Rest
  BY DEF Poll
<1> QED
  BY <1>1, <1>2, <1>3, <1>4, AdmitHereTyped, AdmitAwayTyped, StayTyped

\* So does the one attempt for a linked instance.
LEMMA ClaimForPeerTyped ==
  ASSUME TypeInv, NEW p \in Peers, ClaimForPeer(p), Meets
  PROVE  TypeInv'
<1>1. p \in Tokens /\ pc[p] = "new" /\ Rest /\ "here" \in Places
  BY DEF ClaimForPeer, Tokens, Places
<1>2. CASE Go(p, "done") /\ UNCHANGED <<line, slots>>
  <2>1. ~In(p)
    BY <1>1 DEF TypeInv, LineOwned
  <2>2. LineTyped' /\ LineOwned'
    BY <1>1, <1>2, <2>1, SameLineKept
  <2>3. SlotsTyped' /\ SlotsOwned'
    BY <1>1, <1>2 DEF TypeInv, SlotsTyped, SlotsOwned, BuildsTyped, Go, slots
  <2>4. BuildsTyped'
    BY <1>1, <1>2, MeetsTyped DEF TypeInv, BuildsTyped, Go, Rest, Still, Works
  <2> QED
    BY <2>2, <2>3, <2>4 DEF TypeInv
<1>3. CASE \E limit \in Limits : AdmitHere(p, "here", limit) \/ StayInLine(p, "here", limit, "refused")
  BY <1>1, <1>3, AdmitHereTyped, StayTyped
<1> QED
  BY <1>2, <1>3 DEF ClaimForPeer

\* The steps that change the place of one build that is out of the line: the line stays.
LEMMA PlaceTyped ==
  ASSUME TypeInv, NEW t \in Tokens, NEW at \in Works \cup {"done", "dead"}, Go(t, at), UNCHANGED line,
         pc[t] \notin {"waiting", "refused", "dead"} \/ at = "dead",
         SlotsTyped', Meets,
         \A x \in held' \ {t} : x \in held, t \in held' => at \in {"sweeping", "building", "failed", "dead"},
         \A x \in there' \ {t} : x \in there, t \in there' => at \in {"asking", "away", "dead"},
         may' \in [Tokens -> Places], peaks' \subseteq Tokens,
         leftover' \subseteq Builds, missed' \subseteq Builds, troubles' \subseteq TroubleKinds
  PROVE  TypeInv'
<1>1. In(t) => at \in {"waiting", "refused", "dead"}
  BY DEF TypeInv, LineOwned
<1>2. LineTyped' /\ LineOwned'
  BY <1>1, SameLineKept
<1>3. SlotsOwned'
  BY DEF TypeInv, SlotsTyped, SlotsOwned, BuildsTyped, Go
<1>4. BuildsTyped'
  BY MeetsTyped DEF TypeInv, BuildsTyped, Go
<1> QED
  BY <1>2, <1>3, <1>4 DEF TypeInv

\* Troubles are of the kinds there are.
LEMMA TroubleTyped ==
  ASSUME troubles \subseteq TroubleKinds, NEW kind \in TroubleKinds, Trouble(kind)
  PROVE  troubles' \subseteq TroubleKinds
BY DEF Trouble

\* Sweeping leaves steps of builds, or none.
LEMMA StoppedTyped ==
  ASSUME TypeInv, Stopped
  PROVE  leftover' \subseteq Builds /\ troubles' \subseteq TroubleKinds
BY TroubleTyped DEF Stopped, Fine, TypeInv, BuildsTyped, TroubleKinds

USE DEF TypeInv, SlotsTyped, BuildsTyped, SlotsOwned

\* The steps of a build of this server.
LEMMA BuildStepTyped ==
  ASSUME TypeInv, NEW b \in Builds, BuildStep(b), Meets
  PROVE  TypeInv'
<1>0. b \in Tokens
  BY DEF Tokens
<1>1. CASE Poll(b)
  BY <1>1, PollTyped
<1>2. CASE NoTarget(b)
  <2>1. LineTyped' /\ \A x : In(x)' => x # b /\ In(x)
    BY <1>0, <1>2, LeftLineKeeps DEF NoTarget
  <2>2. LineOwned'
    BY <1>0, <1>2, <2>1, LineOwnedKept DEF NoTarget
  <2>3. SlotsTyped' /\ SlotsOwned'
    BY <1>0, <1>2 DEF NoTarget, slots, Go
  <2>4. BuildsTyped'
    BY <1>0, <1>2, MeetsTyped DEF NoTarget, Go, Works, Places, Still
  <2> QED
    BY <2>1, <2>2, <2>3, <2>4
<1>3. CASE Sweep(b)
  BY <1>0, <1>3, PlaceTyped, StoppedTyped DEF Sweep, line, Works
<1>4. CASE Finish(b)
  BY <1>0, <1>4, PlaceTyped DEF Finish, Released, line, Works
<1>5. CASE Fail(b)
  BY <1>0, <1>5, PlaceTyped DEF Fail, line, slots, Works
<1>6. CASE ReleaseDirty(b)
  BY <1>0, <1>6, PlaceTyped DEF ReleaseDirty, Released, Marked, Sweeps, Rest, Still, line, Works
<1>7. CASE ClaimSweep(b)
  BY <1>0, <1>7, PlaceTyped DEF ClaimSweep, line, Works
<1>8. CASE ClearSteps(b)
  BY <1>0, <1>8, PlaceTyped, StoppedTyped DEF ClearSteps, line, Works
<1>9. CASE GoAway(b)
  BY <1>0, <1>9, PlaceTyped DEF GoAway, Rest, Still, line, slots, Works
<1>10. CASE Refused(b)
  BY <1>0, <1>10, PlaceTyped, TroubleTyped DEF Refused, FreeThere, Still, line, Works, TroubleKinds
<1>11. CASE FinishAway(b)
  BY <1>0, <1>11, PlaceTyped DEF FinishAway, FreeThere, Still, line, Works
<1>12. CASE Broken(b)
  BY <1>0, <1>12, PlaceTyped, TroubleTyped DEF Broken, FreeThere, Still, line, Works, TroubleKinds, Places
<1> QED
  BY <1>1, <1>2, <1>3, <1>4, <1>5, <1>6, <1>7, <1>8, <1>9, <1>10, <1>11, <1>12 DEF BuildStep

\* The steps of a linked instance's slot.
LEMMA PeerStepTyped ==
  ASSUME TypeInv, NEW p \in Peers, PeerStep(p), Meets
  PROVE  TypeInv'
<1>0. p \in Tokens
  BY DEF Tokens
<1>1. CASE RemovePeer(p)
  <2>1. LineTyped' /\ \A x : In(x)' => x # p /\ In(x)
    BY <1>0, <1>1, LeftLineKeeps DEF RemovePeer
  <2>2. LineOwned'
    BY <1>0, <1>1, <2>1, LineOwnedKept DEF RemovePeer
  <2>3. SlotsTyped' /\ SlotsOwned'
    BY <1>0, <1>1 DEF RemovePeer, slots, Go
  <2>4. BuildsTyped'
    BY <1>0, <1>1, MeetsTyped DEF RemovePeer, Go, Works, Rest, Still
  <2> QED
    BY <2>1, <2>2, <2>3, <2>4
<1>2. CASE EndPeerSweep(p)
  BY <1>0, <1>2, PlaceTyped DEF EndPeerSweep, line, Works
<1>3. CASE ReleasePeer(p)
  BY <1>0, <1>3, PlaceTyped DEF ReleasePeer, Released, Rest, Still, line, Works
<1> QED
  BY <1>1, <1>2, <1>3 DEF PeerStep

\* A wait given up, a bump, a lease taken back.
LEMMA OtherStepTyped ==
  ASSUME TypeInv, NEW b \in Builds, Meets,
         (\E place \in Places : Arrive(b, place)) \/ GiveUpWait(b) \/ BumpBuild(b) \/ Renew(b)
  PROVE  TypeInv'
<1>0. b \in Tokens
  BY DEF Tokens
<1>1. ASSUME NEW place \in Places, Arrive(b, place) PROVE TypeInv'
  BY <1>0, <1>1, PlaceTyped DEF Arrive, Still, line, slots, Works
<1>2. CASE GiveUpWait(b)
  <2>1. LineTyped' /\ \A x : In(x)' => x # b /\ In(x)
    BY <1>0, <1>2, LeftLineKeeps DEF GiveUpWait
  <2>2. LineOwned'
    BY <1>0, <1>2, <2>1, LineOwnedKept DEF GiveUpWait
  <2>3. SlotsTyped' /\ SlotsOwned'
    BY <1>0, <1>2 DEF GiveUpWait, slots, Go
  <2>4. BuildsTyped'
    BY <1>0, <1>2, MeetsTyped DEF GiveUpWait, Go, Works, Rest, Still
  <2> QED
    BY <2>1, <2>2, <2>3, <2>4
<1>3. CASE BumpBuild(b)
  <2>1. LineTyped' /\ \A x : In(x)' => In(x)
    BY <1>0, <1>3, BumpKeeps DEF BumpBuild
  <2>2. LineOwned'
    BY <1>3, <2>1 DEF BumpBuild, LineOwned
  <2> QED
    BY <1>3, <2>1, <2>2, MeetsTyped DEF BumpBuild, slots, Rest, Still
<1>4. CASE Renew(b)
  <2>1. LineTyped' /\ LineOwned'
    BY <1>4 DEF Renew, line, LineTyped, LineOwned, In
  <2>2. SlotsTyped' /\ SlotsOwned'
    BY <1>0, <1>4 DEF Renew
  <2>3. BuildsTyped'
    BY <1>4, MeetsTyped DEF Renew, Rest, Still
  <2> QED
    BY <2>1, <2>2, <2>3
<1> QED
  BY <1>1, <1>2, <1>3, <1>4

\* Deaths, leases and time.
LEMMA TimeTyped ==
  ASSUME TypeInv, Meets,
         (\E t \in Tokens : Die(t) \/ LapseHere(t) \/ LapseThere(t) \/ LapsePoll(t)) \/ LapseHold
  PROVE  TypeInv'
<1>1. ASSUME NEW t \in Tokens, Die(t) PROVE TypeInv'
  BY <1>1, PlaceTyped, TroubleTyped DEF Die, line, slots, TroubleKinds
<1>2. ASSUME UNCHANGED <<pc, queue>> PROVE LineOwned'
  BY <1>2 DEF LineOwned, In
<1>3. ASSUME NEW t \in Tokens, LapseHere(t) PROVE TypeInv'
  <2>1. troubles' \subseteq TroubleKinds
    BY <1>3, TroubleTyped DEF LapseHere, Silent, Fine, TroubleKinds
  <2> QED
    BY <1>2, <1>3, <2>1, MeetsTyped DEF LapseHere, line, LineTyped, Still
<1>4. ASSUME NEW t \in Tokens, LapseThere(t) PROVE TypeInv'
  <2>1. troubles' \subseteq TroubleKinds
    BY <1>4, TroubleTyped DEF LapseThere, Silent, Fine, TroubleKinds
  <2> QED
    BY <1>2, <1>4, <2>1, MeetsTyped DEF LapseThere, line, LineTyped, Still
<1>5. ASSUME NEW t \in Tokens, LapsePoll(t) PROVE TypeInv'
  <2>1. troubles' \subseteq TroubleKinds
    BY <1>5, TroubleTyped DEF LapsePoll, Silent, Fine, TroubleKinds
  <2> QED
    BY <1>2, <1>5, <2>1, MeetsTyped DEF LapsePoll, slots, LineTyped, Still
<1>6. ASSUME LapseHold PROVE TypeInv'
  <2>1. troubles' \subseteq TroubleKinds
    BY <1>6, TroubleTyped DEF LapseHold, Fine, TroubleKinds
  <2> QED
    BY <1>2, <1>6, <2>1, MeetsTyped DEF LapseHold, line, LineTyped, Still
<1> QED
  BY <1>1, <1>3, <1>4, <1>5, <1>6

\* TypeInv is inductive.
LEMMA TypeInvStep ==
  ASSUME TypeInv, [Next]_vars
  PROVE  TypeInv'
<1>1. CASE Next
  BY <1>1, BuildStepTyped, OtherStepTyped, ClaimForPeerTyped, PeerStepTyped, TimeTyped DEF Next
<1>2. CASE UNCHANGED vars
  BY <1>2 DEF vars, line, slots, LineTyped, LineOwned, In
<1> QED
  BY <1>1, <1>2

\* The state is typed; a slot is held by a build that was admitted and has not ended, and an
\* entry of the line is of a build that waits or died.
THEOREM GateTypeCorrect == Spec => []GateTypeOK
<1>1. Init => TypeInv
  BY DEF Init, LineTyped, LineOwned, In, Places
<1>2. TypeInv => GateTypeOK
  BY DEF GateTypeOK, LineTyped, LineOwned
<1> QED
  BY <1>1, <1>2, TypeInvStep, PTL DEF Spec

HIDE DEF TypeInv, SlotsTyped, BuildsTyped, SlotsOwned

-------------------------------------------------------------------------------
(* Sweeps, limits and peaks.                                               *)

\* No process stalled and no sweep outlasted its hold; and every sweep stopped what it found.
InTime  == troubles \cap {"stall", "slow"} = {}
AllWell == troubles \cap {"stall", "slow", "unswept"} = {}

GateTyped ==
  /\ pc \in [Tokens -> Works \cup {"new", "done", "dead"}]
  /\ held \subseteq Tokens /\ lapsed \subseteq Tokens /\ leftover \subseteq Builds
  /\ hold \in Tokens \cup {None, "dirty"}

\* A build in BuildKit has its slot, a sweep the hold, and while there is a sweep's hold
\* nobody else has a slot.
HoldsSlot  == \A t \in Tokens : pc[t] \in {"sweeping", "building"} => t \in held
HoldsSweep == \A t \in Tokens : pc[t] \in {"sweeping", "clearing"} => hold = t
SweepOnly  == hold \in Tokens => held \subseteq {hold}
ClearsIdle == \A t \in Tokens : pc[t] = "clearing" => held = {}

\* Steps are left by builds that are past building.
LeftByEnded == \A b \in leftover : pc[b] \in {"failed", "released", "clearing", "done", "dead"}

\* While a build could join another, what is left is on the gate or was missed.
Marks == held = {} \/ hold # None \/ leftover \subseteq held \cup lapsed \cup missed

GateInv ==
  /\ GateTyped /\ LeftByEnded
  /\ InTime => HoldsSlot /\ HoldsSweep /\ SweepOnly /\ ClearsIdle
  /\ AllWell => Marks

-------------------------------------------------------------------------------
USE DEF GateInv, GateTyped, HoldsSlot, HoldsSweep, SweepOnly, ClearsIdle, LeftByEnded, Marks,
        InTime, AllWell, Works, Tokens, Sweeps

\* Every admission starts where no sweep's hold is set.
LEMMA JoinsNoSweep ==
  ASSUME GateInv, NEW t \in Tokens, NEW said, NEW limit, MayJoin(t, said, limit)
  PROVE  /\ hold \notin Tokens
         /\ held # {} => hold = None /\ lapsed = {}
BY GateAssumption DEF MayJoin, Room, HoldNow

LEMMA AdmitHereKeeps ==
  ASSUME GateInv, NEW t \in Tokens, NEW said, NEW limit, AdmitHere(t, said, limit),
         pc[t] \in {"new", "joining", "waiting"}, Still, Fine
  PROVE  GateInv'
<1>1. hold \notin Tokens /\ (held # {} => hold = None /\ lapsed = {})
  BY JoinsNoSweep DEF AdmitHere
<1>2. GateTyped' /\ LeftByEnded'
  BY GateAssumption DEF AdmitHere, Go, Still, Fine, HoldNow
<1>3. CASE held = {}
  <2>1. InTime => HoldsSlot' /\ HoldsSweep' /\ SweepOnly' /\ ClearsIdle'
    BY <1>1, <1>3 DEF AdmitHere, Go
  <2>2. Marks'
    BY <1>3, GateAssumption DEF AdmitHere
  <2> QED BY <1>2, <2>1, <2>2 DEF Fine
<1>4. CASE held # {}
  <2>1. hold' = None /\ lapsed' = {} /\ held' = held \cup {t} /\ pc' = [pc EXCEPT ![t] = "building"]
    BY <1>1, <1>4 DEF AdmitHere, Go, HoldNow
  <2>2. InTime => HoldsSlot' /\ HoldsSweep' /\ SweepOnly' /\ ClearsIdle'
    BY <1>1, <2>1, <1>4, GateAssumption
  <2>3. Marks => Marks'
    BY <1>1, <2>1, <1>4 DEF Still
  <2> QED BY <1>2, <2>2, <2>3 DEF Fine
<1> QED BY <1>3, <1>4

\* A look at the line that takes no slot here keeps what matters: what lapsed is marked.
LEMMA LookKeeps ==
  ASSUME GateInv, NEW t \in Tokens, pc[t] \in {"new", "joining", "waiting"},
         NEW at \in {"waiting", "refused", "asking"}, Go(t, at),
         lapsed' = {}, hold' = HoldNow, held' = held, Still, Fine
  PROVE  GateInv'
<1>1. GateTyped' /\ LeftByEnded'
  BY GateAssumption DEF Go, Still, HoldNow
<1>2. hold \in Tokens \cup {"dirty"} => hold' = hold
  BY GateAssumption DEF HoldNow
<1>3. hold = None => (hold' = None /\ lapsed = {}) \/ hold' = "dirty"
  BY DEF HoldNow
<1>4. InTime => HoldsSlot' /\ HoldsSweep' /\ SweepOnly' /\ ClearsIdle'
  BY <1>2, <1>3, GateAssumption DEF Go
<1>5. Marks => Marks'
  BY <1>2, <1>3, GateAssumption DEF Still
<1> QED BY <1>1, <1>4, <1>5 DEF Fine

LEMMA PollKeeps ==
  ASSUME GateInv, NEW b \in Builds, Poll(b)
  PROVE  GateInv'
<1>1. PICK said \in Offers(b), limit \in Limits :
        AdmitHere(b, said, limit) \/ AdmitAway(b, said, limit) \/ StayInLine(b, said, limit, "waiting")
  BY DEF Poll
<1>2. pc[b] \in {"joining", "waiting"} /\ Still /\ Fine
  BY DEF Poll, Rest, Fine
<1>3. CASE AdmitHere(b, said, limit)
  BY <1>2, <1>3, AdmitHereKeeps
<1>4. CASE AdmitAway(b, said, limit)
  BY <1>2, <1>4, LookKeeps DEF AdmitAway
<1>5. CASE StayInLine(b, said, limit, "waiting")
  BY <1>2, <1>5, LookKeeps DEF StayInLine
<1> QED BY <1>1, <1>3, <1>4, <1>5

LEMMA ClaimForPeerKeeps ==
  ASSUME GateInv, NEW p \in Peers, ClaimForPeer(p)
  PROVE  GateInv'
<1>1. pc[p] = "new" /\ Still /\ Fine
  BY DEF ClaimForPeer, Rest, Fine
<1>2. CASE Go(p, "done") /\ UNCHANGED <<line, slots>>
  BY <1>1, <1>2, GateAssumption DEF Go, slots, Still, Fine
<1>3. ASSUME NEW limit \in Limits, AdmitHere(p, "here", limit)
      PROVE  GateInv'
  BY <1>1, <1>3, AdmitHereKeeps
<1>4. ASSUME NEW limit \in Limits, StayInLine(p, "here", limit, "refused")
      PROVE  GateInv'
  BY <1>1, <1>4, LookKeeps DEF StayInLine
<1> QED BY <1>2, <1>3, <1>4 DEF ClaimForPeer

\* Steps that touch neither slots nor holds.
LEMMA WaitKeeps ==
  ASSUME GateInv, NEW t \in Tokens, NEW at \in {"joining", "done", "away"}, Go(t, at),
         pc[t] \in {"new", "joining", "waiting", "asking", "away", "refused"},
         UNCHANGED <<held, lapsed, hold>>, Still, troubles \subseteq troubles'
  PROVE  GateInv'
BY DEF Go, Still

LEMMA SweepKeeps ==
  ASSUME GateInv, NEW b \in Builds, Sweep(b) \/ ClearSteps(b)
  PROVE  GateInv'
<1>1. /\ \/ pc[b] = "sweeping" /\ pc' = [pc EXCEPT ![b] = "building"]
         \/ pc[b] = "clearing" /\ pc' = [pc EXCEPT ![b] = "done"]
      /\ hold' = None /\ UNCHANGED <<held, lapsed, missed>>
      /\ leftover' \subseteq leftover /\ troubles \subseteq troubles'
      /\ leftover' = {} \/ "unswept" \in troubles'
  BY DEF Sweep, ClearSteps, Stopped, Trouble, Fine, Go
<1>2. GateTyped' /\ LeftByEnded'
  BY <1>1
<1>3. InTime' => HoldsSlot' /\ HoldsSweep' /\ SweepOnly' /\ ClearsIdle'
  BY <1>1, GateAssumption
<1>4. AllWell' => Marks'
  BY <1>1
<1> QED BY <1>2, <1>3, <1>4

LEMMA FinishKeeps ==
  ASSUME GateInv, NEW b \in Builds, Finish(b)
  PROVE  GateInv'
BY DEF Finish, Released, Go

LEMMA FailKeeps ==
  ASSUME GateInv, NEW b \in Builds, Fail(b)
  PROVE  GateInv'
BY DEF Fail, Go, slots

LEMMA ReleaseDirtyKeeps ==
  ASSUME GateInv, NEW b \in Builds, ReleaseDirty(b)
  PROVE  GateInv'
BY GateAssumption DEF ReleaseDirty, Released, Marked, Rest, Still, Go

LEMMA ClaimSweepKeeps ==
  ASSUME GateInv, NEW b \in Builds, ClaimSweep(b)
  PROVE  GateInv'
<1>1. CASE Idle /\ hold' = b /\ Go(b, "clearing")
  BY <1>1, GateAssumption DEF ClaimSweep, Idle, Go
<1>2. CASE /\ ~Idle /\ UNCHANGED hold /\ Go(b, "done")
           /\ missed' = IF hold = None THEN missed \cup (leftover \cap lapsed) ELSE missed
  BY <1>2, GateAssumption DEF ClaimSweep, Idle, Go
<1> QED BY <1>1, <1>2 DEF ClaimSweep

LEMMA PeerKeeps ==
  ASSUME GateInv, NEW p \in Peers, PeerStep(p)
  PROVE  GateInv'
<1>1. CASE RemovePeer(p)
  BY <1>1, WaitKeeps DEF RemovePeer, slots, Rest
<1>2. CASE EndPeerSweep(p)
  BY <1>2, GateAssumption DEF EndPeerSweep, Go
<1>3. CASE ReleasePeer(p)
  BY <1>3, GateAssumption DEF ReleasePeer, Released, Rest, Still, Go
<1> QED BY <1>1, <1>2, <1>3 DEF PeerStep

LEMMA DieKeeps ==
  ASSUME GateInv, NEW t \in Tokens, Die(t)
  PROVE  GateInv'
BY GateAssumption DEF Die, Trouble, Go, slots

LEMMA LapseHereKeeps ==
  ASSUME GateInv, NEW t \in Tokens, LapseHere(t)
  PROVE  GateInv'
<1>1. troubles \subseteq troubles' /\ (InTime' => pc[t] = "dead")
  BY DEF LapseHere, Silent, Fine, Trouble
<1> QED BY <1>1 DEF LapseHere, Still

LEMMA LapseHoldKeeps ==
  ASSUME GateInv, LapseHold
  PROVE  GateInv'
<1>1. troubles \subseteq troubles' /\ (InTime' => held = {} /\ (hold \in Tokens => pc[hold] = "dead"))
  BY GateAssumption DEF LapseHold, Fine, Trouble
<1> QED BY <1>1, GateAssumption DEF LapseHold, Still

LEMMA RenewKeeps ==
  ASSUME GateInv, NEW b \in Builds, Renew(b)
  PROVE  GateInv'
BY DEF Renew, Rest, Still

-------------------------------------------------------------------------------
LEMMA BuildStepKeeps ==
  ASSUME GateInv, NEW b \in Builds, BuildStep(b)
  PROVE  GateInv'
<1>1. CASE NoTarget(b)
  BY <1>1, WaitKeeps DEF NoTarget, slots
<1>2. CASE GoAway(b)
  BY <1>2, WaitKeeps DEF GoAway, slots, Rest
<1>3. CASE Refused(b) \/ FinishAway(b) \/ Broken(b)
  BY <1>3, WaitKeeps DEF Refused, FinishAway, Broken, FreeThere, Trouble
<1> QED
  BY <1>1, <1>2, <1>3, PollKeeps, SweepKeeps, FinishKeeps, FailKeeps, ReleaseDirtyKeeps, ClaimSweepKeeps
  DEF BuildStep

LEMMA GateStep == GateInv /\ [Next]_vars => GateInv'
<1> SUFFICES ASSUME GateInv, [Next]_vars PROVE GateInv'
  OBVIOUS
<1>1. ASSUME NEW b \in Builds, NEW place \in Places, Arrive(b, place)
      PROVE  GateInv'
  BY <1>1, WaitKeeps DEF Arrive, slots
<1>2. ASSUME NEW b \in Builds, BuildStep(b) \/ Renew(b)
      PROVE  GateInv'
  BY <1>2, BuildStepKeeps, RenewKeeps
<1>3. ASSUME NEW b \in Builds, GiveUpWait(b)
      PROVE  GateInv'
  BY <1>3, WaitKeeps DEF GiveUpWait, slots, Rest
<1>4. ASSUME NEW b \in Builds, BumpBuild(b)
      PROVE  GateInv'
  BY <1>4 DEF BumpBuild, slots, Rest, Still
<1>5. ASSUME NEW p \in Peers, ClaimForPeer(p) \/ PeerStep(p)
      PROVE  GateInv'
  BY <1>5, ClaimForPeerKeeps, PeerKeeps
<1>6. ASSUME NEW t \in Tokens, Die(t) \/ LapseHere(t)
      PROVE  GateInv'
  BY <1>6, DieKeeps, LapseHereKeeps
<1>7. ASSUME NEW t \in Tokens, LapseThere(t) \/ LapsePoll(t)
      PROVE  GateInv'
  <2>1. troubles \subseteq troubles' /\ Still /\ UNCHANGED <<pc, held, lapsed, hold>>
    BY <1>7 DEF LapseThere, LapsePoll, Silent, Fine, Trouble, slots
  <2> QED BY <2>1 DEF Still
<1>8. CASE LapseHold
  BY <1>8, LapseHoldKeeps
<1>9. CASE UNCHANGED vars
  BY <1>9 DEF vars, slots
<1> QED BY <1>1, <1>2, <1>3, <1>4, <1>5, <1>6, <1>7, <1>8, <1>9 DEF Next

LEMMA GateAlways == Spec => []GateInv
<1>1. Init => GateInv
  BY GateAssumption DEF Init
<1> QED BY <1>1, GateStep, PTL DEF Spec

\* Whoever sweeps or sizes BuildKit is the only build there, for any number of builds,
\* linked instances and limits: a sweep holds the gate, and nobody with a slot is beside it.
THEOREM SweepersAreAlone == Spec => []SweepsAlone
<1>1. GateInv => SweepsAlone
  BY DEF SweepsAlone, InBuildKit, Sweeping
<1> QED BY <1>1, GateAlways, PTL

\* Every build starts in a BuildKit without other builds' leftover steps, but for the
\* exceptions StartsClean names.
THEOREM BuildsStartClean == Spec => StartsClean
<1> DEFINE Clean ==
      troubles' \cap {"stall", "slow", "unswept"} = {} =>
        \A b \in Builds : pc[b] # "building" /\ pc'[b] = "building" =>
          leftover' \subseteq held' \cup lapsed' \cup missed'
<1>1. GateInv /\ [Next]_vars => [Clean]_vars
  <2> SUFFICES ASSUME GateInv, Next, AllWell', NEW b \in Builds, pc[b] # "building", pc'[b] = "building"
               PROVE  leftover' \subseteq held' \cup lapsed' \cup missed'
    BY DEF Clean
  <2>1. GateInv'
    BY GateStep
  <2>2. CASE Sweep(b)
    BY <2>2 DEF Sweep, Stopped, Trouble
  <2>3. CASE Poll(b)
    <3>0. PICK said \in Offers(b), limit \in Limits :
            AdmitHere(b, said, limit) \/ AdmitAway(b, said, limit) \/ StayInLine(b, said, limit, "waiting")
      BY <2>3 DEF Poll
    <3>1. AdmitHere(b, said, limit) /\ Still /\ Fine
      BY <2>3, <3>0 DEF Poll, AdmitAway, StayInLine, Go, Rest, Fine
    <3>2. held # {} /\ held' = held \cup {b}
      BY <3>1 DEF AdmitHere, Go
    <3>3. hold = None /\ lapsed = {}
      BY <3>1, <3>2, JoinsNoSweep DEF AdmitHere
    <3> QED BY <3>1, <3>2, <3>3 DEF Still, Fine
  <2>4. Sweep(b) \/ Poll(b)
    <3>1. ASSUME NEW c \in Builds,
                 (\E place \in Places : Arrive(c, place)) \/ GiveUpWait(c) \/ BumpBuild(c) \/ Renew(c)
          PROVE  FALSE
      BY <3>1 DEF Arrive, GiveUpWait, BumpBuild, Renew, Go, Rest
    <3>2. ASSUME NEW c \in Builds, BuildStep(c), ~Sweep(c), ~Poll(c)
          PROVE  FALSE
      BY <3>2 DEF BuildStep, NoTarget, Finish, Fail, ReleaseDirty, ClaimSweep, ClearSteps,
                  GoAway, Refused, FinishAway, Broken, Go
    <3>3. ASSUME NEW c \in Builds, c # b, Sweep(c) \/ Poll(c)
          PROVE  FALSE
      BY <3>3 DEF Sweep, Poll, AdmitHere, AdmitAway, StayInLine, Go
    <3>4. ASSUME NEW p \in Peers, ClaimForPeer(p) \/ PeerStep(p)
          PROVE  FALSE
      BY <3>4, GateAssumption DEF ClaimForPeer, PeerStep, RemovePeer, EndPeerSweep, ReleasePeer,
                                  AdmitHere, StayInLine, Go
    <3>5. ASSUME NEW t \in Tokens, Die(t) \/ LapseHere(t) \/ LapseThere(t) \/ LapsePoll(t)
          PROVE  FALSE
      BY <3>5 DEF Die, LapseHere, LapseThere, LapsePoll, Go
    <3>6. ~LapseHold
      BY DEF LapseHold
    <3> QED BY <3>1, <3>2, <3>3, <3>4, <3>5, <3>6 DEF Next
  <2> QED BY <2>2, <2>3, <2>4
<1> QED BY <1>1, GateAlways, PTL DEF Spec, StartsClean
-------------------------------------------------------------------------------
(* The limits and the peaks. *)
HIDE DEF GateInv, GateTyped, HoldsSlot, HoldsSweep, SweepOnly, ClearsIdle, LeftByEnded, Marks,
        InTime, AllWell, Works, Tokens, Sweeps


Largest(limit) == \A l \in Limits : l <= limit

\* S are the tokens whose process stalled and lost its lease.
Caps(S) ==
  /\ S \subseteq Tokens /\ Cardinality(S) <= Late /\ there \subseteq Tokens
  /\ RunsHere \subseteq held \cup S /\ RunsThere \subseteq there \cup S
  /\ \A limit \in Limits : Largest(limit) => Cardinality(held \cup S) <= limit + Late
  /\ Cardinality(there \cup S) <= TargetLimit + Late

CapInv == \E S \in SUBSET Tokens : Caps(S)

-------------------------------------------------------------------------------
LEMMA TokensFinite ==
  /\ IsFiniteSet(Tokens)
  /\ \A T \in SUBSET Tokens : IsFiniteSet(T) /\ Cardinality(T) \in Nat
<1>1. IsFiniteSet(Tokens)
  BY GateAssumption, FS_Union DEF Tokens
<1> QED BY <1>1, FS_Subset, FS_CardinalityType

LEMMA AddOne ==
  ASSUME NEW H \in SUBSET Tokens, NEW t \in Tokens
  PROVE  /\ Cardinality(H \cup {t}) <= Cardinality(H) + 1
         /\ Cardinality(H) \in Nat /\ Cardinality(H \cup {t}) \in Nat
<1>1. IsFiniteSet(H) /\ Cardinality(H) \in Nat /\ Cardinality(H \cup {t}) \in Nat
  BY TokensFinite
<1>2. CASE t \in H
  <2>1. H \cup {t} = H
    BY <1>2
  <2>2. Cardinality(H \cup {t}) = Cardinality(H)
    BY <2>1
  <2> QED BY <1>1, <2>2
<1>3. CASE t \notin H
  <2>1. Cardinality(H \cup {t}) = Cardinality(H) + 1
    BY <1>1, <1>3, FS_AddElement, Zenon
  <2> QED BY <1>1, <2>1
<1> QED BY <1>2, <1>3

\* One more slot counts one more at most.
LEMMA OneMore ==
  ASSUME NEW H \in SUBSET Tokens, NEW S \in SUBSET Tokens, NEW t \in Tokens
  PROVE  /\ Cardinality(H \cup S) <= Cardinality(H) + Cardinality(S)
         /\ Cardinality((H \cup {t}) \cup S) <= Cardinality(H) + 1 + Cardinality(S)
         /\ {Cardinality(H), Cardinality(S), Cardinality(H \cup S), Cardinality((H \cup {t}) \cup S)} \subseteq Nat
<1>1. /\ IsFiniteSet(H) /\ IsFiniteSet(S) /\ IsFiniteSet(H \cup {t})
      /\ Cardinality(H) \in Nat /\ Cardinality(S) \in Nat /\ Cardinality(H \cup {t}) \in Nat
      /\ Cardinality(H \cup S) \in Nat /\ Cardinality((H \cup {t}) \cup S) \in Nat
      /\ Cardinality(H \cap S) \in Nat /\ Cardinality((H \cup {t}) \cap S) \in Nat
  BY TokensFinite
<1>2. Cardinality(H \cup S) = Cardinality(H) + Cardinality(S) - Cardinality(H \cap S)
  BY <1>1, FS_Union
<1>3. Cardinality((H \cup {t}) \cup S) = Cardinality(H \cup {t}) + Cardinality(S) - Cardinality((H \cup {t}) \cap S)
  BY <1>1, FS_Union
<1>4. Cardinality(H \cup {t}) <= Cardinality(H) + 1
  BY AddOne
<1> QED BY <1>1, <1>2, <1>3, <1>4

LEMMA FewerFit ==
  ASSUME NEW A \in SUBSET Tokens, NEW B \in SUBSET A
  PROVE  Cardinality(B) <= Cardinality(A) /\ Cardinality(A) \in Nat /\ Cardinality(B) \in Nat
BY TokensFinite, FS_Subset

LEMMA LateGrows ==
  ASSUME troubles \subseteq troubles'
  PROVE  Late \in {0, 1} /\ Late' \in {0, 1} /\ Late <= Late'
BY DEF Late

\* A step that gives no slot to anyone new keeps the caps.
LEMMA CapsKept ==
  ASSUME GateInv, NEW S \in SUBSET Tokens, Caps(S), troubles \subseteq troubles',
         held' \subseteq held \cup S, there' \subseteq there \cup S,
         RunsHere' \subseteq held' \cup S, RunsThere' \subseteq there' \cup S
  PROVE  CapInv'
<1>1. held \subseteq Tokens /\ there \subseteq Tokens /\ held' \subseteq Tokens /\ there' \subseteq Tokens
  BY DEF GateInv, GateTyped, Caps
<1>2. /\ Cardinality(held' \cup S) <= Cardinality(held \cup S) /\ Cardinality(held' \cup S) \in Nat
      /\ Cardinality(held \cup S) \in Nat
  <2> DEFINE A == held \cup S
             B == held' \cup S
  <2>1. A \in SUBSET Tokens /\ B \in SUBSET A
    BY <1>1
  <2> HIDE DEF A, B
  <2>2. Cardinality(B) <= Cardinality(A) /\ Cardinality(A) \in Nat /\ Cardinality(B) \in Nat
    BY <2>1, FewerFit
  <2> QED BY <2>2 DEF A, B
<1>3. /\ Cardinality(there' \cup S) <= Cardinality(there \cup S) /\ Cardinality(there' \cup S) \in Nat
      /\ Cardinality(there \cup S) \in Nat
  <2> DEFINE A == there \cup S
             B == there' \cup S
  <2>1. A \in SUBSET Tokens /\ B \in SUBSET A
    BY <1>1
  <2> HIDE DEF A, B
  <2>2. Cardinality(B) <= Cardinality(A) /\ Cardinality(A) \in Nat /\ Cardinality(B) \in Nat
    BY <2>1, FewerFit
  <2> QED BY <2>2 DEF A, B
<1>4. Late \in Nat /\ Late' \in Nat /\ Late <= Late' /\ Cardinality(S) \in Nat
  BY LateGrows, TokensFinite
<1>5. \A limit \in Limits : Largest(limit) => Cardinality(held' \cup S) <= limit + Late'
  BY <1>2, <1>4, GateAssumption DEF Caps
<1>6. Cardinality(there' \cup S) <= TargetLimit + Late'
  BY <1>3, <1>4, GateAssumption DEF Caps
<1>7. Caps(S)'
  BY <1>1, <1>4, <1>5, <1>6 DEF Caps, Largest
<1> QED BY <1>7 DEF CapInv

-------------------------------------------------------------------------------
\* Where each step may leave a token.
Busy == {"sweeping", "building", "asking", "away"}

\* A step that moves one token to where it needs no slot, and takes none.
LEMMA CapsMoved ==
  ASSUME GateInv, NEW S \in SUBSET Tokens, Caps(S), troubles \subseteq troubles',
         NEW t \in Tokens, NEW at, pc' = [pc EXCEPT ![t] = at], at \notin Busy,
         held' \in {held, held \ {t}}, there' \in {there, there \ {t}}
  PROVE  CapInv'
<1>1. RunsHere' \subseteq held' \cup S /\ RunsThere' \subseteq there' \cup S
  BY DEF GateInv, GateTyped, Caps, RunsHere, RunsThere, Busy, Tokens
<1> QED BY <1>1, CapsKept

\* A step of a token with a slot that leaves it where it needs that slot.
LEMMA CapsStay ==
  ASSUME GateInv, NEW S \in SUBSET Tokens, Caps(S), troubles \subseteq troubles',
         NEW t \in Tokens, NEW at, pc' = [pc EXCEPT ![t] = at], UNCHANGED <<held, there>>,
         \/ pc[t] = "sweeping" /\ at = "building"
         \/ pc[t] = "asking" /\ at = "away"
  PROVE  CapInv'
<1>1. RunsHere' \subseteq held' \cup S /\ RunsThere' \subseteq there' \cup S
  BY DEF GateInv, GateTyped, Caps, RunsHere, RunsThere
<1> QED BY <1>1, CapsKept

LEMMA CapsAdmitHere ==
  ASSUME GateInv, NEW S \in SUBSET Tokens, Caps(S), Fine,
         NEW t \in Tokens, NEW said, NEW limit \in Limits, AdmitHere(t, said, limit)
  PROVE  CapInv'
<1>1. held' = held \cup {t} /\ there' = there /\ Late' = Late /\ Room(limit)
  BY DEF AdmitHere, MayJoin, Fine, Late
<1>2. held \in SUBSET Tokens /\ there \in SUBSET Tokens
  BY DEF GateInv, GateTyped, Caps
<1>3. /\ Cardinality(held' \cup S) <= Cardinality(held) + 1 + Cardinality(S)
      /\ {Cardinality(held), Cardinality(S), Cardinality(held' \cup S)} \subseteq Nat
  BY <1>1, <1>2, OneMore
<1>4. Cardinality(held) + 1 <= limit
  <2>1. CASE held = {}
    BY <2>1, FS_EmptySet, GateAssumption
  <2>2. CASE held # {}
    BY <2>2, <1>1, <1>3, GateAssumption DEF Room
  <2> QED BY <2>1, <2>2
<1>5. Late \in {0, 1} /\ Cardinality(S) <= Late
  BY DEF Late, Caps
<1>6. \A l \in Limits : Largest(l) => Cardinality(held' \cup S) <= l + Late'
  BY <1>1, <1>3, <1>4, <1>5, GateAssumption DEF Largest
<1>7. RunsHere' \subseteq held' \cup S /\ RunsThere' \subseteq there' \cup S
  BY <1>1 DEF AdmitHere, Go, GateInv, GateTyped, Caps, RunsHere, RunsThere
<1>8. Caps(S)'
  BY <1>1, <1>2, <1>6, <1>7 DEF Caps, Largest
<1> QED BY <1>8 DEF CapInv

LEMMA CapsAdmitAway ==
  ASSUME GateInv, NEW S \in SUBSET Tokens, Caps(S), Fine,
         NEW t \in Tokens, NEW said, NEW limit, AdmitAway(t, said, limit)
  PROVE  CapInv'
<1>1. held' = held /\ there' = there \cup {t} /\ Late' = Late /\ Cardinality(there) < TargetLimit
  BY DEF AdmitAway, MayLeave, Fine, Late
<1>2. held \in SUBSET Tokens /\ there \in SUBSET Tokens
  BY DEF GateInv, GateTyped, Caps
<1>3. /\ Cardinality(there' \cup S) <= Cardinality(there) + 1 + Cardinality(S)
      /\ {Cardinality(there), Cardinality(S), Cardinality(there' \cup S)} \subseteq Nat
  BY <1>1, <1>2, OneMore
<1>4. Late \in {0, 1} /\ Cardinality(S) <= Late
  BY DEF Late, Caps
<1>5. Cardinality(there' \cup S) <= TargetLimit + Late'
  BY <1>1, <1>3, <1>4, GateAssumption
<1>6. RunsHere' \subseteq held' \cup S /\ RunsThere' \subseteq there' \cup S
  BY <1>1 DEF AdmitAway, Go, GateInv, GateTyped, Caps, RunsHere, RunsThere
<1>7. Caps(S)'
  BY <1>1, <1>2, <1>5, <1>6 DEF Caps, Largest
<1> QED BY <1>7 DEF CapInv

LEMMA CapsPoll ==
  ASSUME GateInv, NEW S \in SUBSET Tokens, Caps(S), Fine, NEW t \in Tokens, NEW said,
         NEW limit \in Limits, NEW at, at \notin Busy,
         AdmitHere(t, said, limit) \/ AdmitAway(t, said, limit) \/ StayInLine(t, said, limit, at)
  PROVE  CapInv'
<1>1. CASE StayInLine(t, said, limit, at)
  BY <1>1, CapsMoved DEF StayInLine, Go, Fine
<1> QED BY <1>1, CapsAdmitHere, CapsAdmitAway

\* The one token whose process stalls: its slot still counts.
LEMMA CapsLapse ==
  ASSUME GateInv, CapInv, NEW t \in Tokens, LapseHere(t) \/ LapseThere(t) \/ LapsePoll(t)
  PROVE  CapInv'
<1> PICK S \in SUBSET Tokens : Caps(S)
  BY DEF CapInv
<1>1. pc' = pc /\ held' \in {held, held \ {t}} /\ there' \in {there, there \ {t}} /\ Silent(t)
  BY DEF LapseHere, LapseThere, LapsePoll, slots
<1>2. CASE pc[t] = "dead" /\ Fine
  <2>1. RunsHere' \subseteq held' \cup S /\ RunsThere' \subseteq there' \cup S
    BY <1>1, <1>2 DEF Caps, RunsHere, RunsThere
  <2> QED BY <1>1, <1>2, <2>1, CapsKept DEF Fine
<1>3. CASE Trouble("stall")
  <2>1. Late = 0 /\ Late' = 1
    BY <1>3 DEF Late, Trouble
  <2>2. S = {}
    BY <2>1, TokensFinite, FS_EmptySet DEF Caps
  <2>3. /\ held \in SUBSET Tokens /\ there \in SUBSET Tokens
        /\ Cardinality(held \cup {t}) <= Cardinality(held) + 1
        /\ Cardinality(there \cup {t}) <= Cardinality(there) + 1
        /\ {Cardinality(held), Cardinality(there), Cardinality(held \cup {t}), Cardinality(there \cup {t})} \subseteq Nat
    <3>1. held \in SUBSET Tokens /\ there \in SUBSET Tokens
      BY DEF GateInv, GateTyped, Caps
    <3> QED BY <3>1, AddOne
  <2>4. held' \cup {t} = held \cup {t} /\ there' \cup {t} = there \cup {t}
    BY <1>1
  <2>5. \A limit \in Limits : Largest(limit) => Cardinality(held' \cup {t}) <= limit + Late'
    <3>1. \A limit \in Limits : Largest(limit) => Cardinality(held) <= limit
      BY <2>1, <2>2, <2>3, GateAssumption DEF Caps
    <3>2. Cardinality(held' \cup {t}) = Cardinality(held \cup {t})
      BY <2>4
    <3> QED BY <3>1, <3>2, <2>1, <2>3, GateAssumption
  <2>6. Cardinality(there' \cup {t}) <= TargetLimit + Late'
    <3>1. Cardinality(there) <= TargetLimit
      BY <2>1, <2>2, <2>3, GateAssumption DEF Caps
    <3>2. Cardinality(there' \cup {t}) = Cardinality(there \cup {t})
      BY <2>4
    <3> QED BY <3>1, <3>2, <2>1, <2>3, GateAssumption
  <2>7. RunsHere' \subseteq held' \cup {t} /\ RunsThere' \subseteq there' \cup {t}
    BY <1>1, <2>2 DEF Caps, RunsHere, RunsThere
  <2>8. Cardinality({t}) <= Late'
    BY <2>1, FS_Singleton
  <2>9. there' \subseteq Tokens
    BY <1>1, <2>3
  <2>10. Caps({t})'
    BY <2>5, <2>6, <2>7, <2>8, <2>9 DEF Caps, Largest
  <2> QED BY <2>10 DEF CapInv
<1> QED BY <1>1, <1>2, <1>3 DEF Silent

-------------------------------------------------------------------------------
LEMMA CapsTaken ==
  ASSUME GateInv, CapInv, NEW b \in Builds, Renew(b)
  PROVE  CapInv'
<1> PICK S \in SUBSET Tokens : Caps(S)
  BY DEF CapInv
<1>1. held' \subseteq held \cup S /\ there' \subseteq there \cup S
  BY DEF Renew, Caps, RunsHere, RunsThere, Tokens
<1>2. RunsHere' \subseteq held' \cup S /\ RunsThere' \subseteq there' \cup S
  BY DEF Renew, Caps, RunsHere, RunsThere
<1> QED BY <1>1, <1>2, CapsKept DEF Renew, Rest

LEMMA CapsBuildStep ==
  ASSUME GateInv, CapInv, NEW b \in Builds, BuildStep(b)
  PROVE  CapInv'
<1> PICK S \in SUBSET Tokens : Caps(S)
  BY DEF CapInv
<1> b \in Tokens
  BY DEF Tokens
<1>1. CASE Poll(b)
  <2>1. PICK said \in Offers(b), limit \in Limits :
          AdmitHere(b, said, limit) \/ AdmitAway(b, said, limit) \/ StayInLine(b, said, limit, "waiting")
    BY <1>1 DEF Poll
  <2>2. Fine /\ "waiting" \notin Busy
    BY <1>1 DEF Poll, Rest, Fine, Busy
  <2> QED BY <2>1, <2>2, CapsPoll
<1>2. CASE NoTarget(b)
  BY <1>2, CapsMoved DEF NoTarget, slots, Go, Busy
<1>3. CASE Sweep(b)
  BY <1>3, CapsStay DEF Sweep, Stopped, Fine, Trouble, Go
<1>4. CASE Finish(b) \/ Fail(b) \/ ReleaseDirty(b)
  BY <1>4, CapsMoved DEF Finish, Fail, ReleaseDirty, Released, Rest, slots, Go, Busy
<1>5. CASE ClaimSweep(b)
  BY <1>5, CapsMoved DEF ClaimSweep, Go, Busy
<1>6. CASE ClearSteps(b)
  BY <1>6, CapsMoved DEF ClearSteps, Stopped, Fine, Trouble, Go, Busy
<1>7. CASE GoAway(b)
  BY <1>7, CapsStay DEF GoAway, slots, Rest, Go
<1>8. CASE Refused(b) \/ FinishAway(b) \/ Broken(b)
  BY <1>8, CapsMoved DEF Refused, FinishAway, Broken, FreeThere, Trouble, Go, Busy
<1> QED BY <1>1, <1>2, <1>3, <1>4, <1>5, <1>6, <1>7, <1>8 DEF BuildStep

LEMMA CapsPeer ==
  ASSUME GateInv, CapInv, NEW p \in Peers, ClaimForPeer(p) \/ PeerStep(p)
  PROVE  CapInv'
<1> PICK S \in SUBSET Tokens : Caps(S)
  BY DEF CapInv
<1> p \in Tokens
  BY DEF Tokens
<1>1. CASE ClaimForPeer(p)
  <2>1. Fine /\ "refused" \notin Busy /\ "done" \notin Busy
    BY <1>1 DEF ClaimForPeer, Rest, Fine, Busy
  <2>2. CASE Go(p, "done") /\ UNCHANGED <<line, slots>>
    BY <2>1, <2>2, CapsMoved DEF slots, Go, Fine
  <2>3. ASSUME NEW limit \in Limits, AdmitHere(p, "here", limit) \/ StayInLine(p, "here", limit, "refused")
        PROVE  CapInv'
    BY <2>1, <2>3, CapsPoll
  <2> QED BY <1>1, <2>2, <2>3 DEF ClaimForPeer
<1>2. CASE RemovePeer(p)
  BY <1>2, CapsMoved DEF RemovePeer, slots, Rest, Go, Busy
<1>3. CASE EndPeerSweep(p)
  BY <1>3, CapsStay DEF EndPeerSweep, Go
<1>4. CASE ReleasePeer(p)
  BY <1>4, CapsMoved DEF ReleasePeer, Released, Rest, Go, Busy
<1> QED BY <1>1, <1>2, <1>3, <1>4 DEF PeerStep

LEMMA CapStep == GateInv /\ CapInv /\ [Next]_vars => CapInv'
<1> SUFFICES ASSUME GateInv, CapInv, [Next]_vars PROVE CapInv'
  OBVIOUS
<1> PICK S \in SUBSET Tokens : Caps(S)
  BY DEF CapInv
<1>1. ASSUME NEW b \in Builds, (\E place \in Places : Arrive(b, place)) \/ GiveUpWait(b)
      PROVE  CapInv'
  BY <1>1, CapsMoved DEF Arrive, GiveUpWait, slots, Rest, Go, Busy, Tokens
<1>2. ASSUME NEW b \in Builds, BuildStep(b) \/ Renew(b)
      PROVE  CapInv'
  BY <1>2, CapsBuildStep, CapsTaken
<1>3. ASSUME NEW p \in Peers, ClaimForPeer(p) \/ PeerStep(p)
      PROVE  CapInv'
  BY <1>3, CapsPeer
<1>4. ASSUME NEW t \in Tokens, Die(t)
      PROVE  CapInv'
  BY <1>4, CapsMoved DEF Die, Trouble, slots, Go, Busy
<1>5. ASSUME NEW t \in Tokens, LapseHere(t) \/ LapseThere(t) \/ LapsePoll(t)
      PROVE  CapInv'
  BY <1>5, CapsLapse
<1>6. ASSUME UNCHANGED <<pc, held, there>>, troubles \subseteq troubles'
      PROVE  CapInv'
  <2>1. RunsHere' \subseteq held' \cup S /\ RunsThere' \subseteq there' \cup S
    BY <1>6 DEF Caps, RunsHere, RunsThere
  <2> QED BY <1>6, <2>1, CapsKept
<1>7. ASSUME NEW b \in Builds, BumpBuild(b)
      PROVE  CapInv'
  BY <1>6, <1>7 DEF BumpBuild, slots, Rest
<1>8. CASE LapseHold
  BY <1>6, <1>8 DEF LapseHold, Fine, Trouble
<1>9. CASE UNCHANGED vars
  BY <1>6, <1>9 DEF vars, slots
<1> QED BY <1>1, <1>2, <1>3, <1>4, <1>5, <1>7, <1>8, <1>9 DEF Next

LEMMA CapAlways == Spec => []CapInv
<1>1. Init => CapInv
  <2> SUFFICES ASSUME Init PROVE CapInv
    OBVIOUS
  <2>1. RunsHere = {} /\ RunsThere = {} /\ held = {} /\ there = {} /\ Late = 0
    BY DEF Init, RunsHere, RunsThere, Late, Tokens
  <2>2. Caps({})
    BY <2>1, FS_EmptySet, GateAssumption DEF Caps
  <2> QED BY <2>2 DEF CapInv
<1> QED BY <1>1, CapStep, GateAlways, PTL DEF Spec

\* No more builds run here and on the target than the largest limit allows, and a stalled
\* process adds one at most, for any number of builds, linked instances and limits.
THEOREM LimitsHold == Spec => []WithinLimits
<1>1. GateInv /\ CapInv => WithinLimits
  <2> SUFFICES ASSUME GateInv, NEW S \in SUBSET Tokens, Caps(S) PROVE WithinLimits
    BY DEF CapInv
  <2>1. held \in SUBSET Tokens /\ there \in SUBSET Tokens
    BY DEF GateInv, GateTyped, Caps
  <2>2. Cardinality(RunsHere) <= Cardinality(held \cup S) /\ {Cardinality(RunsHere), Cardinality(held \cup S)} \subseteq Nat
    BY <2>1, FewerFit DEF Caps
  <2>3. Cardinality(RunsThere) <= Cardinality(there \cup S) /\ {Cardinality(RunsThere), Cardinality(there \cup S)} \subseteq Nat
    BY <2>1, FewerFit DEF Caps
  <2>4. Late \in {0, 1}
    BY DEF Late
  <2> QED BY <2>2, <2>3, <2>4, GateAssumption DEF Caps, WithinLimits, Largest
<1> QED BY <1>1, CapAlways, GateAlways, PTL

-------------------------------------------------------------------------------
\* While nothing stalls, a build admitted alone and not joined since is the only one that
\* runs here; builds met each other here only after they were admitted.
Before  == {"new", "joining", "waiting", "asking", "away", "refused"}
Apart   == \A b \in alone \cap RunsHere : RunsHere = {b} /\ b \notin met
PeakInv ==
  /\ met \subseteq Builds /\ peaks \subseteq Builds
  /\ \A b \in met : pc[b] \notin Before
  /\ \A b \in peaks : pc[b] = "done"
  /\ "stall" \notin troubles => Apart /\ peaks \cap met = {}

\* What a build met in a step, it met in BuildKit.
LEMMA MetWhileBuilding ==
  ASSUME Meets, PeakInv
  PROVE  /\ met \subseteq met' /\ met' \subseteq Builds
         /\ \A b \in met' \ met : /\ pc'[b] = "building"
                                  /\ \E c \in Builds \ {b} : pc'[c] = "building"
BY DEF Meets, PeakInv

\* A step that admits nobody here.
LEMMA PeaksKept ==
  ASSUME GateInv, PeakInv, troubles \subseteq troubles', Meets, RunsHere' \subseteq RunsHere, alone' = alone,
         \A b \in Builds : pc[b] \notin Before => pc'[b] \notin Before,
         \A b \in Builds : pc[b] = "done" => pc'[b] = "done",
         peaks \subseteq peaks', peaks' \subseteq Builds,
         \A b \in peaks' \ peaks : b \in alone /\ pc[b] = "building" /\ pc'[b] = "done"
  PROVE  PeakInv'
<1>1. met' \subseteq Builds /\ \A b \in met' : pc'[b] \notin Before
  BY MetWhileBuilding DEF PeakInv, Before
<1>2. \A b \in peaks' : pc'[b] = "done"
  BY DEF PeakInv
<1>3. ASSUME "stall" \notin troubles'
      PROVE  Apart' /\ peaks' \cap met' = {}
  <2>1. Apart /\ peaks \cap met = {}
    BY <1>3 DEF PeakInv
  <2>2. ASSUME NEW b \in alone' \cap RunsHere'
        PROVE  RunsHere' = {b} /\ b \notin met'
    <3>1. RunsHere = {b} /\ b \notin met
      BY <2>1, <2>2 DEF Apart
    <3>2. RunsHere' = {b}
      BY <2>2, <3>1
    <3>3. \A c \in Builds : pc'[c] = "building" => c = b
      BY <3>2 DEF RunsHere, Tokens
    <3> QED BY <3>1, <3>2, <3>3, MetWhileBuilding
  <2>3. ASSUME NEW b \in peaks', b \in met'
        PROVE  FALSE
    <3>1. b \in met
      BY <1>2, <2>3, MetWhileBuilding
    <3>2. b \in alone /\ pc[b] = "building"
      BY <2>1, <2>3, <3>1
    <3>3. b \in alone \cap RunsHere
      BY <3>1, <3>2 DEF RunsHere, Tokens, PeakInv
    <3> QED BY <2>1, <3>1, <3>3 DEF Apart
  <2> QED BY <2>2, <2>3 DEF Apart
<1> QED BY <1>1, <1>2, <1>3 DEF PeakInv

\* An admission here: alone, or one after which nobody is.
LEMMA PeaksAdmit ==
  ASSUME GateInv, CapInv, PeakInv, Meets, Fine, UNCHANGED peaks,
         NEW t \in Tokens, NEW said, NEW limit, AdmitHere(t, said, limit), pc[t] \in {"new", "joining", "waiting"}
  PROVE  PeakInv'
<1>1. /\ pc' = [pc EXCEPT ![t] = IF held = {} THEN "sweeping" ELSE "building"]
      /\ pc \in [Tokens -> Works \cup {"new", "done", "dead"}]
      /\ alone' = Lone(t)
  BY DEF AdmitHere, Go, GateInv, GateTyped
<1>2. met' \subseteq Builds /\ \A b \in met' : pc'[b] \notin Before
  BY <1>1, MetWhileBuilding DEF PeakInv, Before, Tokens
<1>3. \A b \in peaks' : pc'[b] = "done"
  BY <1>1 DEF PeakInv, Tokens
<1>4. peaks' \cap met' = peaks \cap met
  BY <1>3, MetWhileBuilding
<1>5. ASSUME "stall" \notin troubles', NEW b \in alone' \cap RunsHere'
      PROVE  RunsHere' = {b} /\ b \notin met'
  <2>1. held = {} /\ b = t
    BY <1>1, <1>5 DEF Lone
  <2>2. RunsHere = {}
    <3>1. PICK S \in SUBSET Tokens : Caps(S)
      BY DEF CapInv
    <3>2. S = {}
      BY <1>5, <3>1, TokensFinite, FS_EmptySet DEF Caps, Late, Fine
    <3> QED BY <2>1, <3>1, <3>2 DEF Caps
  <2>3. RunsHere' = {t}
    BY <1>1, <2>1, <2>2 DEF RunsHere
  <2>4. t \notin met /\ pc'[t] = "sweeping"
    BY <1>1, <2>1 DEF PeakInv, Before
  <2> QED BY <2>1, <2>3, <2>4, MetWhileBuilding
<1> QED BY <1>2, <1>3, <1>4, <1>5 DEF PeakInv, Apart, Fine

\* A token moves on, and is not admitted.
LEMMA PeaksMoved ==
  ASSUME GateInv, PeakInv, troubles \subseteq troubles', Meets, UNCHANGED <<alone, peaks>>,
         NEW t \in Tokens, NEW at, pc' = [pc EXCEPT ![t] = at], pc[t] # "done",
         pc[t] \notin Before => at \notin Before,
         at \in {"sweeping", "building"} => pc[t] = "sweeping"
  PROVE  PeakInv'
<1>1. pc \in [Tokens -> Works \cup {"new", "done", "dead"}]
  BY DEF GateInv, GateTyped
<1>2. RunsHere' \subseteq RunsHere
  BY <1>1 DEF RunsHere
<1>3. \A b \in Builds : (pc[b] \notin Before => pc'[b] \notin Before) /\ (pc[b] = "done" => pc'[b] = "done")
  BY <1>1 DEF Tokens
<1>4. peaks \subseteq Builds
  BY DEF PeakInv
<1> QED BY <1>2, <1>3, <1>4, PeaksKept

LEMMA PeaksStill ==
  ASSUME GateInv, PeakInv, troubles \subseteq troubles', Meets, UNCHANGED <<pc, alone, peaks>>
  PROVE  PeakInv'
<1>1. peaks \subseteq Builds /\ RunsHere' = RunsHere
  BY DEF PeakInv, RunsHere
<1> QED BY <1>1, PeaksKept

LEMMA PeaksPoll ==
  ASSUME GateInv, CapInv, PeakInv, Meets, Still, Fine, NEW t \in Tokens, NEW said,
         NEW limit \in Limits, NEW at \in {"waiting", "refused"}, pc[t] \in {"new", "joining", "waiting"},
         AdmitHere(t, said, limit) \/ AdmitAway(t, said, limit) \/ StayInLine(t, said, limit, at)
  PROVE  PeakInv'
<1>1. CASE AdmitHere(t, said, limit)
  BY <1>1, PeaksAdmit DEF Still
<1>2. CASE AdmitAway(t, said, limit)
  BY <1>2, PeaksMoved DEF AdmitAway, Go, Still, Fine, Before
<1>3. CASE StayInLine(t, said, limit, at)
  BY <1>3, PeaksMoved DEF StayInLine, Go, Still, Fine, Before
<1> QED BY <1>1, <1>2, <1>3

LEMMA PeaksFinish ==
  ASSUME GateInv, PeakInv, Meets, NEW b \in Builds, Finish(b)
  PROVE  PeakInv'
<1>1. /\ pc \in [Tokens -> Works \cup {"new", "done", "dead"}] /\ peaks \subseteq Builds
      /\ pc[b] = "building" /\ pc' = [pc EXCEPT ![b] = "done"] /\ alone' = alone /\ troubles' = troubles
      /\ peaks' = peaks \/ (b \in alone /\ peaks' = peaks \cup {b})
  BY DEF GateInv, GateTyped, PeakInv, Finish, Go
<1>2. RunsHere' \subseteq RunsHere
  BY <1>1 DEF RunsHere
<1>3. \A c \in Builds : (pc[c] \notin Before => pc'[c] \notin Before) /\ (pc[c] = "done" => pc'[c] = "done")
  BY <1>1 DEF Before, Tokens
<1>4. \A c \in peaks' \ peaks : c \in alone /\ pc[c] = "building" /\ pc'[c] = "done"
  BY <1>1 DEF Tokens
<1> QED BY <1>1, <1>2, <1>3, <1>4, PeaksKept

LEMMA PeakStep == GateInv /\ CapInv /\ PeakInv /\ [Next]_vars => PeakInv'
<1> SUFFICES ASSUME GateInv, CapInv, PeakInv, [Next]_vars PROVE PeakInv'
  OBVIOUS
<1>1. CASE UNCHANGED vars
  BY <1>1 DEF vars, slots, PeakInv, Apart, RunsHere
<1> SUFFICES ASSUME Meets, Next PROVE PeakInv'
  BY <1>1 DEF Next
<1>2. ASSUME NEW b \in Builds, (\E place \in Places : Arrive(b, place)) \/ GiveUpWait(b) \/ NoTarget(b) \/ GoAway(b)
      PROVE  PeakInv'
  BY <1>2, PeaksMoved DEF Arrive, GiveUpWait, NoTarget, GoAway, slots, Rest, Still, Go, Before, Tokens
<1>3. ASSUME NEW b \in Builds, Refused(b) \/ FinishAway(b) \/ Broken(b)
      PROVE  PeakInv'
  BY <1>3, PeaksMoved DEF Refused, FinishAway, Broken, FreeThere, Trouble, Still, Go, Before, Tokens
<1>4. ASSUME NEW b \in Builds, Sweep(b) \/ ClearSteps(b)
      PROVE  PeakInv'
  BY <1>4, PeaksMoved DEF Sweep, ClearSteps, Stopped, Fine, Trouble, Go, Before, Tokens
<1>5. ASSUME NEW b \in Builds, Fail(b) \/ ReleaseDirty(b) \/ ClaimSweep(b)
      PROVE  PeakInv'
  BY <1>5, PeaksMoved DEF Fail, ReleaseDirty, ClaimSweep, slots, Rest, Still, Go, Before, Tokens
<1>6. ASSUME NEW b \in Builds, Poll(b)
      PROVE  PeakInv'
  <2>1. PICK said \in Offers(b), limit \in Limits :
          AdmitHere(b, said, limit) \/ AdmitAway(b, said, limit) \/ StayInLine(b, said, limit, "waiting")
    BY <1>6 DEF Poll
  <2>2. Still /\ Fine /\ b \in Tokens /\ pc[b] \in {"joining", "waiting"}
    BY <1>6 DEF Poll, Rest, Fine, Tokens
  <2> QED BY <2>1, <2>2, PeaksPoll
<1>7. ASSUME NEW p \in Peers, ClaimForPeer(p)
      PROVE  PeakInv'
  <2>1. Still /\ Fine /\ p \in Tokens /\ pc[p] = "new"
    BY <1>7 DEF ClaimForPeer, Rest, Fine, Tokens
  <2>2. CASE Go(p, "done") /\ UNCHANGED <<line, slots>>
    BY <2>1, <2>2, PeaksMoved DEF Still, Fine, slots, Go, Before
  <2>3. ASSUME NEW limit \in Limits, AdmitHere(p, "here", limit) \/ StayInLine(p, "here", limit, "refused")
        PROVE  PeakInv'
    BY <2>1, <2>3, PeaksPoll
  <2> QED BY <1>7, <2>2, <2>3 DEF ClaimForPeer
<1>8. ASSUME NEW p \in Peers, PeerStep(p)
      PROVE  PeakInv'
  BY <1>8, PeaksMoved DEF PeerStep, RemovePeer, EndPeerSweep, ReleasePeer, slots, Rest, Still, Go, Before, Tokens
<1>9. ASSUME NEW t \in Tokens, Die(t)
      PROVE  PeakInv'
  BY <1>9, PeaksMoved DEF Die, Trouble, slots, Go, Works, Before
<1>10. ASSUME NEW t \in Tokens, LapseHere(t) \/ LapseThere(t) \/ LapsePoll(t)
       PROVE  PeakInv'
  BY <1>10, PeaksStill DEF LapseHere, LapseThere, LapsePoll, Silent, Fine, Trouble, slots, Still
<1>11. ASSUME NEW b \in Builds, BumpBuild(b) \/ Renew(b)
       PROVE  PeakInv'
  BY <1>11, PeaksStill DEF BumpBuild, Renew, slots, Rest, Still
<1>12. CASE LapseHold
  BY <1>12, PeaksStill DEF LapseHold, Fine, Trouble, Still
<1> QED
  BY <1>2, <1>3, <1>4, <1>5, <1>6, <1>7, <1>8, <1>9, <1>10, <1>11, <1>12, PeaksFinish
  DEF Next, BuildStep

\* A recorded peak is of a build that was alone in BuildKit from its start to its end, for
\* any number of builds and linked instances, while nothing stalls.
THEOREM PeaksStayOwn == Spec => []PeaksAreOwn
<1>1. Init => PeakInv
  BY DEF Init, PeakInv, Apart
<1>2. PeakInv => PeaksAreOwn
  BY DEF PeakInv, PeaksAreOwn
<1> QED BY <1>1, <1>2, PeakStep, CapAlways, GateAlways, PTL DEF Spec
===============================================================================
