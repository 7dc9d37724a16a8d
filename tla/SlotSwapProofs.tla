----------------------------- MODULE SlotSwapProofs -----------------------------
(***************************************************************************)
(* The slots of an environment, for any number of deploys and rollbacks:   *)
(* their types; and, when a run looks at the slots once the last has let   *)
(* go of them (Prompt), that the newest success says what serves, that the *)
(* only healthy slot stays, and that one serves through every swap.        *)
(*                                                                         *)
(* One run has the slots at a time (OneHolder).  Three invariants say what *)
(* it, or nobody, may find there: with nothing wrong (Clean), with failing *)
(* writes and reads (Kept), and with one trouble of any kind that is no    *)
(* crash (On).  Each says it phase by phase.                               *)
(***************************************************************************)
EXTENDS SlotSwap, FiniteSetTheorems, TLAPS

-------------------------------------------------------------------------------
(* The invariant.                                                          *)

Ats == {"new", "claimed", "picked", "cleared", "fenced", "clear", "started", "probing", "healthy",
        "committed", "pointed", "pinned", "stopped", "flip", "seen", "taken", "over", "dead"}

RunRow == [kind : Kinds \cup {None}, at : Ats, old : Slots \cup {None}, new : Slots \cup {None},
           stopped : BOOLEAN]

DeployAts   == {"claimed", "picked", "cleared", "fenced", "clear", "started", "probing", "healthy",
                "committed", "pointed", "pinned", "stopped"}
RollbackAts == {"claimed", "flip", "clear", "probing", "healthy", "stopped", "pointed"}
WatchAts    == {"seen", "taken", "started", "pointed"}

\* A run goes through the phases of its kind, and has its two slots once it picked them.
Shaped(x) ==
  /\ x.at = "new" => x.kind = None
  /\ x.at \notin {"new", "over", "dead"} =>
       /\ \/ x.kind = "deploy"  /\ x.at \in DeployAts
          \/ x.kind = "instant" /\ x.at \in RollbackAts
          \/ x.kind = "watch"   /\ x.at \in WatchAts
       /\ IF x.at = "claimed" THEN x.new = None
          ELSE x.new \in Slots /\ x.new = Other(x.old)
       /\ x.kind # "deploy" /\ x.at # "claimed" => x.old \in Slots
  /\ x.at = "new" => x.new = None
  /\ x.at \in {"new", "claimed", "picked", "cleared", "fenced"} => ~x.stopped
  /\ x.stopped => x.old \in Slots

SlotTyped ==
  /\ overlap \in BOOLEAN
  /\ slots \in [Slots -> [state : {"up", "down", "gone"}, ok : BOOLEAN, keep : BOOLEAN, by : 0..NumRuns]]
  /\ current \in Slots \cup {None} /\ pin \in Slots \cup {None} /\ sweep \in Slots \cup {None}
  /\ row \in 0..NumRuns /\ rows \subseteq Runs /\ troubles \subseteq TroubleKinds
  /\ record \in [op : 0..NumRuns, kind : Kinds \cup {None}, slot : Slots \cup {None}, by : 0..NumRuns]
  /\ aborted \subseteq Runs
  /\ run \in [Runs -> RunRow]

NewRunsFree == \A o \in Runs : run[o].at = "new" => row # o /\ o \notin aborted

\* What holds of every run and every mix of troubles.
SlotBase ==
  /\ SlotTyped /\ NewRunsFree
  /\ \A o \in Runs : Shaped(run[o]) /\ (run[o].stopped => ~overlap)
  /\ record.op = 0 => record.kind = None
  /\ record.op # 0 => record.slot \in Slots
  /\ \A o \in Runs : run[o].at = "dead" => troubles \cap {"death", "daemon"} # {}

\* One run has the slots, and none while the sweep is about to stop one.
OneHolder ==
  /\ \A p, q \in Holders : p = q
  /\ sweep # None => Holders = {}

-------------------------------------------------------------------------------
\* With nothing wrong: the slot of the newest success serves and is restarted by Docker.
Stands(s) == s \in Slots /\ Serves(s) /\ slots[s].keep /\ slots[s].by = record.by

CleanRest ==
  /\ pin = None
  /\ IF record.op = 0 THEN current = None /\ \A s \in Slots : slots[s].state = "gone"
     ELSE Stands(record.slot) /\ current = record.slot /\ ~Up(Other(record.slot))

OldRuns(x) == IF x.kind = "deploy" THEN ~x.stopped ELSE overlap \/ x.at = "flip"

\* The slot that served, while run x has not replaced it.
CleanOld(x) ==
  /\ IF record.op = 0 THEN x.old = None /\ slots[Other(x.new)].state = "gone" ELSE x.old = record.slot
  /\ current = x.old
  /\ x.old # None => /\ slots[x.old].ok /\ slots[x.old].by = record.by
                     /\ IF OldRuns(x)
                        THEN Up(x.old) /\ slots[x.old].keep
                        ELSE slots[x.old].state = "down"

CleanDeploy(o, x) ==
  /\ x.at \in {"picked", "cleared", "fenced", "clear", "started", "probing", "healthy"} =>
       /\ row = o /\ CleanOld(x)
       /\ x.stopped <=> (x.at \notin {"picked", "cleared", "fenced"} /\ ~overlap /\ x.old # None)
  /\ x.at = "picked" => IF record.op = 0 THEN slots[x.new].state = "gone" ELSE ~Up(x.new)
  /\ x.at \in {"cleared", "fenced", "clear"} => slots[x.new].state = "gone"
  /\ x.at \in {"started", "probing", "healthy"} => Up(x.new) /\ slots[x.new].keep /\ slots[x.new].by = o
  /\ x.at = "healthy" => slots[x.new].ok
  /\ x.at \in {"committed", "pointed", "pinned", "stopped"} =>
       /\ record.op # 0 /\ record.slot = x.new /\ Stands(x.new)
       /\ IF overlap /\ x.old # None THEN x.at \in {"committed", "pointed", "pinned"} => Serves(x.old) /\ slots[x.old].keep
          ELSE x.at = "committed" /\ ~Up(Other(x.new))
  /\ x.at = "committed" => current = x.old /\ (x.old = None => slots[Other(x.new)].state = "gone")
  /\ x.at \in {"pointed", "pinned", "stopped"} => current = x.new
  /\ x.at = "stopped" => ~Up(x.old)
  /\ x.at \in {"picked", "cleared", "fenced"} => pin = None
  /\ x.at \in {"clear", "started", "probing", "healthy", "committed", "pointed"} =>
       pin = None \/ (overlap /\ x.old # None /\ pin = x.old)

CleanRollback(o, x) ==
  /\ pin = None
  /\ x.at \in {"flip", "clear", "probing", "healthy"} => CleanOld(x) /\ row = o /\ record.op # 0
  /\ x.at = "clear" /\ ~overlap => slots[x.old].keep
  /\ x.at = "probing" /\ ~overlap => slots[x.old].keep
  /\ x.at \in {"flip", "clear"} => ~Up(x.new)
  /\ x.at \in {"probing", "healthy", "stopped", "pointed"} => Up(x.new) /\ slots[x.new].keep
  /\ x.at \in {"healthy", "stopped", "pointed"} => slots[x.new].ok
  /\ x.at = "stopped" => slots[x.old].ok
  /\ x.at \in {"stopped", "pointed"} => ~Up(x.old) /\ current = (IF x.at = "stopped" THEN x.old ELSE x.new)

\* Nothing has gone wrong so far.
Clean ==
  troubles = {} =>
    /\ Holders = {} => CleanRest
    /\ sweep = None
    /\ \A o \in Holders : \/ run[o].kind = "deploy"  /\ CleanDeploy(o, run[o])
                          \/ run[o].kind = "instant" /\ CleanRollback(o, run[o])

-------------------------------------------------------------------------------
\* With failing writes and reads: a slot that runs has passed its health check.
Sound == \A s \in Slots : Up(s) => slots[s].ok

KeptRest == Sound /\ ((\E s \in Slots : Up(s)) \/ (current = None /\ record.op = 0))

\* What the run started from serves, or was stopped to make way and can serve again.
KeptOld(x, away) ==
  /\ x.old = None => current = None /\ record.op = 0 /\ ~Up(Other(x.new))
  /\ x.old # None => slots[x.old].ok /\ (IF away THEN ~Up(x.old) ELSE Up(x.old))

KeptDeploy(o, x) ==
  /\ x.at = "picked" => KeptRest
  /\ x.at \in {"picked", "cleared", "fenced", "clear", "started", "probing", "healthy"} =>
       row = o /\ KeptOld(x, x.stopped)
  /\ x.at \in {"cleared", "fenced", "clear"} => slots[x.new].state = "gone"
  /\ x.at \in {"healthy", "committed", "pointed", "pinned", "stopped"} => Serves(x.new) /\ Sound

KeptRollback(o, x) ==
  /\ x.at \in {"flip", "clear", "probing"} => KeptOld(x, x.at # "flip" /\ ~overlap)
  /\ x.at \in {"clear", "probing"} /\ ~overlap => slots[x.old].state = "down"
  /\ x.at \in {"flip", "clear"} => (Up(x.new) => slots[x.new].ok)
  /\ x.at \in {"healthy", "stopped", "pointed"} => Serves(x.new) /\ Sound

\* Only writes and reads have failed.
Kept ==
  troubles \subseteq {"write", "read"} =>
    /\ Holders = {} => KeptRest
    /\ sweep # None => current # None /\ sweep = Other(current) /\ Up(current)
    /\ \A o \in Holders : \/ run[o].kind = "deploy"  /\ KeptDeploy(o, run[o])
                          \/ run[o].kind = "instant" /\ KeptRollback(o, run[o])

-------------------------------------------------------------------------------
Died == troubles \cap {"death", "daemon"} # {}

\* A slot may be up that was never proven: what started it died, or could not remove it.
Dirty == troubles \cap {"death", "daemon", "docker"} # {}

\* With one trouble that is no crash, if both slots may run: the active slot is up, and
\* is healthy once the app has been deployed.
OnRest ==
  /\ ActiveSlot # None => Up(ActiveSlot)
  /\ record.op # 0 => ActiveSlot # None /\ slots[ActiveSlot].ok
  /\ ~Dirty => Sound

OnOld(x) ==
  /\ x.old = None => current = None /\ ~Up(Other(x.new))
  /\ x.old # None => Up(x.old)
  /\ record.op # 0 => x.old # None /\ slots[x.old].ok
  /\ ~Dirty /\ x.old # None => slots[x.old].ok

OnNew(x) == Serves(x.new) /\ (~Dirty => Sound)

OnDeploy(o, x) ==
  /\ x.at \in {"picked", "cleared", "fenced", "clear", "started", "probing", "healthy"} => OnOld(x)
  /\ x.at = "picked" => OnRest
  /\ x.at \in {"cleared", "fenced", "clear"} => slots[x.new].state = "gone"
  /\ x.at \in {"healthy", "committed", "pointed", "pinned", "stopped"} => OnNew(x)
  /\ x.at \in {"cleared", "fenced"} => pin = None
  /\ x.at \in {"clear", "started", "probing", "healthy", "committed", "pointed"} =>
       pin = None \/ (pin = x.old /\ Up(x.old))
  /\ x.at \in {"pinned", "stopped"} => pin \in {x.new, None}
  /\ x.at \in {"pointed", "pinned", "stopped"} => current = x.new \/ ~Dirty

OnRollback(o, x) ==
  /\ x.at \in {"flip", "clear", "probing", "healthy"} => OnOld(x)
  /\ x.at \in {"flip", "clear"} => OnRest
  /\ x.at \in {"healthy", "stopped", "pointed"} => OnNew(x)
  /\ x.at = "pointed" => current = x.new \/ ~Dirty

\* At most one kind of trouble, and no version has crashed.
On ==
  overlap /\ MaxTroubles <= 1 /\ "crash" \notin troubles =>
    /\ Holders = {} => OnRest
    /\ sweep # None => current # None /\ sweep = Other(current) /\ Up(current)
    /\ \A o \in Holders : \/ run[o].kind = "deploy"  /\ OnDeploy(o, run[o])
                          \/ run[o].kind = "instant" /\ OnRollback(o, run[o])

-------------------------------------------------------------------------------
(* Slots, and what a command makes of them.                                *)

SlotRow == [state : {"up", "down", "gone"}, ok : BOOLEAN, keep : BOOLEAN, by : 0..NumRuns]

LEMMA OtherSlot ==
  /\ None \notin Slots
  /\ \A s : Other(s) \in Slots
  /\ \A s \in Slots : Other(s) # s /\ Other(Other(s)) = s
BY DEF None, Slots, Other

LEMMA TwoSlots == ASSUME NEW s \in Slots PROVE \A t \in Slots : t = s \/ t = Other(s)
BY DEF Slots, Other

\* What a command makes of a slot is one.
LEMMA SlotForms ==
  ASSUME SlotTyped, NEW s \in Slots
  PROVE  /\ slots[s] \in SlotRow
         /\ Started(s) \in SlotRow /\ Started(s).state = "up" /\ Started(s).keep
         /\ Started(s).ok = slots[s].ok /\ Started(s).by = slots[s].by
         /\ Halted(s) \in SlotRow /\ Halted(s).state # "up" /\ Halted(s).ok = slots[s].ok
         /\ Halted(s).keep = slots[s].keep /\ Halted(s).by = slots[s].by
         /\ (Halted(s).state = "gone") = (slots[s].state = "gone")
         /\ slots[s].state = "up" => Halted(s).state = "down" /\ Demoted(s).state = "down"
         /\ Pinned(s) \in SlotRow /\ Pinned(s).state = slots[s].state /\ Pinned(s).ok = slots[s].ok
         /\ Pinned(s).by = slots[s].by
         /\ Demoted(s) \in SlotRow /\ Demoted(s).state # "up" /\ Demoted(s).ok = slots[s].ok
         /\ Demoted(s).by = slots[s].by /\ ~Demoted(s).keep
         /\ Removed(s) \in SlotRow /\ Removed(s).state = "gone"
<1>1. slots[s] \in SlotRow
  BY DEF SlotTyped, SlotRow
<1>2. /\ Halted(s) \in SlotRow /\ Halted(s).state # "up" /\ Halted(s).ok = slots[s].ok
      /\ Halted(s).keep = slots[s].keep /\ Halted(s).by = slots[s].by
      /\ (Halted(s).state = "gone") = (slots[s].state = "gone")
      /\ slots[s].state = "up" => Halted(s).state = "down"
  BY <1>1 DEF Halted, SlotRow
<1>3. /\ Started(s) \in SlotRow /\ Started(s).state = "up" /\ Started(s).keep
      /\ Started(s).ok = slots[s].ok /\ Started(s).by = slots[s].by
  BY <1>1 DEF Started, SlotRow
<1>4. /\ Pinned(s) \in SlotRow /\ Pinned(s).state = slots[s].state /\ Pinned(s).ok = slots[s].ok
         /\ Pinned(s).by = slots[s].by /\ Removed(s) \in SlotRow /\ Removed(s).state = "gone"
  BY <1>1 DEF Pinned, SlotRow, Removed
<1>5. /\ Demoted(s) \in SlotRow /\ Demoted(s).state # "up" /\ Demoted(s).ok = slots[s].ok
      /\ Demoted(s).by = slots[s].by /\ ~Demoted(s).keep
      /\ slots[s].state = "up" => Demoted(s).state = "down"
  BY <1>2 DEF Demoted, SlotRow
<1> QED
  BY <1>1, <1>2, <1>3, <1>4, <1>5

\* A command changes the slot it names.
LEMMA WithEffect ==
  ASSUME SlotTyped, NEW s \in Slots, NEW x \in SlotRow, With(s, x)
  PROVE  slots' \in [Slots -> SlotRow] /\ slots'[s] = x /\ slots'[Other(s)] = slots[Other(s)]
BY OtherSlot DEF SlotTyped, With, SlotRow

LEMMA FreshForms ==
  ASSUME SlotAssumption, NEW o \in Runs
  PROVE  /\ Fresh(o) \in SlotRow /\ Fresh(o).state = "up" /\ ~Fresh(o).ok /\ Fresh(o).keep /\ Fresh(o).by = o
         /\ NoContainers \in SlotRow /\ NoContainers.state = "gone" /\ ~NoContainers.ok
BY DEF SlotAssumption, Fresh, NoContainers, SlotRow, Runs

Moved(o, at) ==
  /\ run' \in [Runs -> RunRow]
  /\ run'[o].at = at /\ run'[o].kind = run[o].kind /\ run'[o].old = run[o].old
  /\ run'[o].new = run[o].new /\ run'[o].stopped = run[o].stopped
  /\ \A p \in Runs \ {o} : run'[p] = run[p]

\* A step of run o to the next phase.
LEMMA GoEffect ==
  ASSUME SlotTyped, NEW o \in Runs, NEW at \in Ats, Go(o, at)
  PROVE  Moved(o, at)
<1>1. run[o] \in RunRow /\ run \in [Runs -> RunRow]
  BY DEF SlotTyped
<1>2. run' = [run EXCEPT ![o] = [run[o] EXCEPT !.at = at]]
  BY DEF Go
<1>3. /\ [run[o] EXCEPT !.at = at] \in RunRow /\ [run[o] EXCEPT !.at = at].at = at
      /\ [run[o] EXCEPT !.at = at].kind = run[o].kind /\ [run[o] EXCEPT !.at = at].old = run[o].old
      /\ [run[o] EXCEPT !.at = at].new = run[o].new /\ [run[o] EXCEPT !.at = at].stopped = run[o].stopped
  BY <1>1 DEF RunRow
<1> QED
  BY <1>1, <1>2, <1>3 DEF Moved

-------------------------------------------------------------------------------
(* What every step leaves typed.                                           *)

RecordRow == [op : 0..NumRuns, kind : Kinds \cup {None}, slot : Slots \cup {None}, by : 0..NumRuns]

\* What a step of one run leaves of the rest.
Framed ==
  /\ overlap' = overlap /\ slots' \in [Slots -> SlotRow]
  /\ current' \in Slots \cup {None} /\ pin' \in Slots \cup {None} /\ sweep' = sweep
  /\ row' = row \/ row' = 0
  /\ rows' \subseteq Runs /\ aborted' = aborted
  /\ troubles \subseteq troubles' /\ troubles' \subseteq TroubleKinds
  /\ \/ record' = record
     \/ record' \in RecordRow /\ record'.op # 0 /\ record'.slot \in Slots

\* A run that goes on keeps its shape.
LEMMA StepTyped ==
  ASSUME SlotAssumption, SlotBase, NEW o \in Runs, run' \in [Runs -> RunRow], run[o].at # "new",
         run'[o].at # "new", Shaped(run'[o]), run'[o].stopped => ~overlap,
         run'[o].at = "dead" => Died', \A p \in Runs \ {o} : run'[p] = run[p], Framed
  PROVE  SlotBase'
<1>1. SlotTyped'
  BY DEF SlotBase, SlotTyped, Framed, SlotRow, RecordRow, SlotAssumption
<1>2. NewRunsFree'
  BY DEF SlotBase, NewRunsFree, Framed, Runs
<1>3. \A p \in Runs : Shaped(run'[p]) /\ (run'[p].stopped => ~overlap')
  BY DEF SlotBase, Framed
<1>4. (record'.op = 0 => record'.kind = None) /\ (record'.op # 0 => record'.slot \in Slots)
  BY DEF SlotBase, Framed
<1>5. \A p \in Runs : run'[p].at = "dead" => troubles' \cap {"death", "daemon"} # {}
  BY DEF SlotBase, Framed, Died
<1> QED
  BY <1>1, <1>2, <1>3, <1>4, <1>5 DEF SlotBase

\* What a run may do to the row and the record.
LEMMA FreeRowFramed ==
  ASSUME NEW o \in Runs, FreeRow(o)
  PROVE  row' = row \/ row' = 0
BY DEF FreeRow

LEMMA TroubleFramed ==
  ASSUME SlotTyped, Fine \/ (\E k \in TroubleKinds : Trouble(k))
  PROVE  troubles \subseteq troubles' /\ troubles' \subseteq TroubleKinds
BY DEF Fine, Trouble, SlotTyped

LEMMA SucceedFramed ==
  ASSUME SlotBase, NEW o \in Runs, run[o].kind # None, NEW s \in Slots, Succeed(o, s), rows' = rows
  PROVE  record' \in RecordRow /\ record'.op = o /\ record'.kind = run[o].kind /\ record'.slot = s
         /\ record'.by = slots[s].by /\ record'.op # 0
<1>1. record' = [op |-> o, kind |-> run[o].kind, slot |-> s, by |-> slots[s].by]
  BY DEF Succeed
<1>2. o \in 0..NumRuns /\ o # 0 /\ run[o].kind \in Kinds \cup {None} /\ slots[s].by \in 0..NumRuns
  BY DEF SlotBase, SlotTyped, RunRow, Runs
<1> QED
  BY <1>1, <1>2 DEF RecordRow

\* A run that moves on without a change of its other fields.
LEMMA MovedTyped ==
  ASSUME SlotAssumption, SlotBase, NEW o \in Runs, NEW at \in Ats, Moved(o, at), run[o].at # "new",
         at # "new", at = "dead" => Died', Framed,
         \/ at \in {"over", "dead"}
         \/ run[o].kind = "deploy" /\ at \in DeployAts \ {"claimed"} /\ run[o].new \in Slots
            /\ run[o].new = Other(run[o].old) /\ (run[o].stopped => at \notin {"picked", "cleared", "fenced"})
         \/ run[o].kind = "instant" /\ at \in RollbackAts \ {"claimed"} /\ run[o].new \in Slots
            /\ run[o].new = Other(run[o].old) /\ run[o].old \in Slots
         \/ run[o].kind = "watch" /\ at \in WatchAts /\ run[o].new \in Slots
            /\ run[o].new = Other(run[o].old) /\ run[o].old \in Slots
  PROVE  SlotBase'
<1>1. Shaped(run[o]) /\ (run[o].stopped => ~overlap)
  BY DEF SlotBase
<1>2. Shaped(run'[o]) /\ (run'[o].stopped => ~overlap)
  BY <1>1 DEF Shaped, Moved, DeployAts, RollbackAts, WatchAts, Kinds, None
<1> QED
  BY <1>2, StepTyped DEF Moved

-------------------------------------------------------------------------------
(* The types: a deploy.                                                    *)

\* A run that is under way.
LEMMA TypesOf ==
  ASSUME SlotBase, NEW o \in Runs
  PROVE  /\ run[o] \in RunRow /\ Shaped(run[o])
         /\ slots \in [Slots -> SlotRow] /\ overlap \in BOOLEAN
         /\ current \in Slots \cup {None} /\ pin \in Slots \cup {None}
         /\ rows \subseteq Runs
BY DEF SlotBase, SlotTyped, SlotRow

LEMMA ActiveSlotType == ASSUME SlotBase PROVE ActiveSlot \in Slots \cup {None}
BY OtherSlot DEF ActiveSlot, SlotBase, SlotTyped, Slots

LEMMA WithFramed ==
  ASSUME SlotBase, NEW s \in Slots, NEW x \in SlotRow, With(s, x)
  PROVE  slots' \in [Slots -> SlotRow]
BY WithEffect DEF SlotBase

\* A deploy's phase, and the slots it has from the build on.
LEMMA DeployHas ==
  ASSUME SlotBase, NEW o \in Runs, NEW at, Deploys(o, at), at \notin {"new", "over", "dead", "claimed"}
  PROVE  /\ run[o].kind = "deploy" /\ run[o].at = at /\ run[o].new \in Slots
         /\ run[o].new = Other(run[o].old)
BY TypesOf DEF Deploys, At, Shaped

LEMMA DeployTyped ==
  ASSUME SlotAssumption, SlotBase, NEW o \in Runs, DeployStep(o)
  PROVE  SlotBase'
<1>0. /\ run[o] \in RunRow /\ Shaped(run[o]) /\ slots \in [Slots -> SlotRow] /\ rows \subseteq Runs
      /\ current \in Slots \cup {None} /\ pin \in Slots \cup {None} /\ SlotTyped
      /\ run \in [Runs -> RunRow] /\ troubles \subseteq TroubleKinds
  BY TypesOf DEF SlotBase, SlotTyped
<1>1. CASE PickSlot(o)
  <2>1. run'[o] = [run[o] EXCEPT !.at = "picked", !.old = ActiveSlot, !.new = Other(ActiveSlot)]
    BY <1>0, <1>1 DEF PickSlot
  <2>2. /\ run' \in [Runs -> RunRow] /\ \A p \in Runs \ {o} : run'[p] = run[p]
        /\ run'[o].at = "picked" /\ run'[o].kind = "deploy" /\ ~run'[o].stopped
        /\ run'[o].old = ActiveSlot /\ run'[o].new = Other(ActiveSlot)
    BY <1>0, <1>1, <2>1, ActiveSlotType, OtherSlot DEF PickSlot, Deploys, At, Shaped, RunRow, Ats
  <2>3. Shaped(run'[o])
    BY <2>2, OtherSlot DEF Shaped, DeployAts
  <2>4. Framed /\ run[o].at # "new"
    BY <1>0, <1>1 DEF PickSlot, Same, Unrecorded, Framed, Deploys, At
  <2> QED
    BY <2>2, <2>3, <2>4, StepTyped
<1>2. CASE ClearNewSlot(o)
  <2>1. Moved(o, "cleared") /\ run[o].kind = "deploy" /\ run[o].at = "picked" /\ run[o].new \in Slots
        /\ run[o].new = Other(run[o].old)
    BY <1>0, <1>2, GoEffect, DeployHas DEF ClearNewSlot, Ats
  <2>2. slots' \in [Slots -> SlotRow]
    BY <1>2, <2>1, WithFramed, FreshForms DEF ClearNewSlot
  <2>3. Framed
    BY <1>0, <1>2, <2>2 DEF ClearNewSlot, Same, Unrecorded, Framed
  <2> QED
    BY <1>0, <2>1, <2>3, MovedTyped DEF DeployAts, Ats, Shaped
<1>3. CASE LeaveEarly(o)
  <2>1. Moved(o, "over") /\ run[o].at # "new"
    BY <1>0, <1>3, GoEffect DEF LeaveEarly, Ats, Deploys, At
  <2>2. Framed
    BY <1>0, <1>3, FreeRowFramed DEF LeaveEarly, Same, Unrecorded, Framed
  <2> QED
    BY <2>1, <2>2, MovedTyped DEF Ats
<1>4. CASE PassFence(o)
  <2>1. Moved(o, "fenced") /\ run[o].kind = "deploy" /\ run[o].at = "cleared" /\ run[o].new \in Slots
        /\ run[o].new = Other(run[o].old)
    BY <1>0, <1>4, GoEffect, DeployHas DEF PassFence, Ats
  <2>2. Framed
    BY <1>0, <1>4 DEF PassFence, Same, Unrecorded, Framed
  <2> QED
    BY <1>0, <2>1, <2>2, MovedTyped DEF DeployAts, Ats, Shaped
<1>5. CASE MakeWay(o)
  <2>1. run[o].kind = "deploy" /\ run[o].at = "fenced" /\ run[o].new \in Slots
        /\ run[o].new = Other(run[o].old) /\ run[o].old \in Slots \cup {None}
    BY <1>0, <1>5, DeployHas DEF MakeWay, RunRow
  <2>2. CASE Go(o, "clear") /\ pin' \in {run[o].old, None} /\ Fine /\ UNCHANGED slots
    <3>1. Moved(o, "clear")
      BY <1>0, <2>2, GoEffect DEF Ats
    <3>2. Framed
      BY <1>0, <1>5, <2>1, <2>2 DEF MakeWay, Same, Unrecorded, Framed, Fine
    <3> QED
      BY <1>0, <2>1, <3>1, <3>2, MovedTyped DEF DeployAts, Ats, Shaped
  <2>3. CASE /\ ~overlap /\ run[o].old # None /\ UNCHANGED pin
             /\ run' = [run EXCEPT ![o].at = "clear", ![o].stopped = TRUE]
             /\ With(run[o].old, Demoted(run[o].old)) \/ With(run[o].old, Pinned(run[o].old))
             /\ Fine \/ Trouble("docker")
    <3>1. run'[o] = [run[o] EXCEPT !.at = "clear", !.stopped = TRUE]
      BY <1>0, <2>3
    <3>2. /\ run' \in [Runs -> RunRow] /\ \A p \in Runs \ {o} : run'[p] = run[p]
          /\ run'[o].at = "clear" /\ run'[o].kind = "deploy" /\ run'[o].old = run[o].old
          /\ run'[o].new = run[o].new
      BY <1>0, <2>1, <2>3, <3>1 DEF RunRow, Ats
    <3>3. Shaped(run'[o])
      BY <2>1, <2>3, <3>2 DEF Shaped, DeployAts
    <3>4. slots' \in [Slots -> SlotRow]
      BY <1>0, <2>1, <2>3, WithFramed, SlotForms
    <3>5. troubles \subseteq troubles' /\ troubles' \subseteq TroubleKinds
      BY <1>0, <2>3, TroubleFramed DEF TroubleKinds
    <3>6. Framed
      BY <1>0, <1>5, <2>3, <3>4, <3>5 DEF MakeWay, Same, Unrecorded, Framed
    <3> QED
      BY <2>1, <2>3, <3>2, <3>3, <3>6, StepTyped
  <2> QED
    BY <1>5, <2>2, <2>3 DEF MakeWay
<1>6. CASE ComposeUp(o)
  <2>1. Moved(o, "started") /\ run[o].kind = "deploy" /\ run[o].at = "clear" /\ run[o].new \in Slots
        /\ run[o].new = Other(run[o].old)
    BY <1>0, <1>6, GoEffect, DeployHas DEF ComposeUp, Ats
  <2>2. slots' \in [Slots -> SlotRow]
    BY <1>6, <2>1, WithFramed, FreshForms DEF ComposeUp
  <2>3. Framed
    BY <1>0, <1>6, <2>2 DEF ComposeUp, Same, Unrecorded, Framed
  <2> QED
    BY <1>0, <2>1, <2>3, MovedTyped DEF DeployAts, Ats, Shaped
<1>7. CASE CheckAbort(o)
  <2>1. Moved(o, "probing") /\ run[o].kind = "deploy" /\ run[o].at = "started" /\ run[o].new \in Slots
        /\ run[o].new = Other(run[o].old)
    BY <1>0, <1>7, GoEffect, DeployHas DEF CheckAbort, Ats
  <2>2. Framed
    BY <1>0, <1>7 DEF CheckAbort, Same, Unrecorded, Framed
  <2> QED
    BY <1>0, <2>1, <2>2, MovedTyped DEF DeployAts, Ats, Shaped
<1>8. CASE GiveUp(o)
  <2>1. Moved(o, "over") /\ run[o].at # "new" /\ run[o].new \in Slots /\ run[o].old \in Slots \cup {None}
    BY <1>0, <1>8, GoEffect, DeployHas DEF GiveUp, Ats, RunRow, Deploys, At
  <2>2. slots' \in [Slots -> SlotRow]
    <3> DEFINE torn == [slots EXCEPT ![run[o].new] = NoContainers]
    <3>1. torn \in [Slots -> SlotRow]
      BY <1>0, FreshForms
    <3>2. run[o].old # None => Restored(o) \in SlotRow
      BY <1>0, <2>1, SlotForms DEF Restored
    <3>3. \A x \in [Slots -> SlotRow] : [x EXCEPT ![run[o].old] = Restored(o)] \in [Slots -> SlotRow]
                                          \/ run[o].old = None
      BY <2>1, <3>2
    <3> HIDE DEF torn
    <3> QED
      BY <1>0, <1>8, <2>1, <3>1, <3>3 DEF GiveUp, torn
  <2>3. Framed
    <3>1. troubles \subseteq troubles' /\ troubles' \subseteq TroubleKinds
      BY <1>0, <1>8, TroubleFramed DEF GiveUp, TroubleKinds
    <3> QED
      BY <1>0, <1>8, <2>2, <3>1, FreeRowFramed DEF GiveUp, Same, Unrecorded, Framed
  <2> QED
    BY <2>1, <2>3, MovedTyped DEF Ats
<1>9. CASE BecomeHealthy(o)
  <2>1. Moved(o, "healthy") /\ run[o].kind = "deploy" /\ run[o].at = "probing" /\ run[o].new \in Slots
        /\ run[o].new = Other(run[o].old)
    BY <1>0, <1>9, GoEffect, DeployHas DEF BecomeHealthy, Ats
  <2>2. [slots[run[o].new] EXCEPT !.ok = TRUE] \in SlotRow
    BY <1>0, <2>1 DEF SlotRow
  <2>3. slots' \in [Slots -> SlotRow]
    BY <1>9, <2>1, <2>2, WithFramed DEF BecomeHealthy
  <2>4. troubles \subseteq troubles' /\ troubles' \subseteq TroubleKinds
    BY <1>0, <1>9, TroubleFramed DEF BecomeHealthy, TroubleKinds
  <2>5. Framed
    BY <1>0, <1>9, <2>3, <2>4 DEF BecomeHealthy, Same, Unrecorded, Framed
  <2> QED
    BY <1>0, <2>1, <2>5, MovedTyped DEF DeployAts, Ats, Shaped
<1>10. CASE FailBeforeCommit(o)
  <2>1. Moved(o, "over") /\ run[o].at # "new" /\ run[o].new \in Slots
    BY <1>0, <1>10, GoEffect, DeployHas DEF FailBeforeCommit, Ats
  <2>2. slots' \in [Slots -> SlotRow] /\ current' \in Slots \cup {None}
    BY <1>0, <1>10, <2>1, WithFramed, FreshForms DEF FailBeforeCommit
  <2>3. troubles \subseteq troubles' /\ troubles' \subseteq TroubleKinds
    BY <1>0, <1>10, TroubleFramed DEF FailBeforeCommit, TroubleKinds
  <2>4. Framed
    BY <1>0, <1>10, <2>2, <2>3, FreeRowFramed DEF FailBeforeCommit, Same, Unrecorded, Framed
  <2> QED
    BY <2>1, <2>4, MovedTyped DEF Ats
<1>11. CASE Commit(o)
  <2>1. Moved(o, "committed") /\ run[o].kind = "deploy" /\ run[o].at = "healthy" /\ run[o].new \in Slots
        /\ run[o].new = Other(run[o].old)
    BY <1>0, <1>11, GoEffect, DeployHas DEF Commit, Ats
  <2>2. record' \in RecordRow /\ record'.op # 0 /\ record'.kind # None /\ record'.slot \in Slots /\ rows' = rows
    BY <1>11, <2>1, SucceedFramed DEF Commit, Succeed, None
  <2>3. Framed
    BY <1>0, <1>11, <2>2, FreeRowFramed DEF Commit, Succeed, Same, Framed
  <2> QED
    BY <1>0, <2>1, <2>3, MovedTyped DEF DeployAts, Ats, Shaped
<1>12. CASE CommitRefused(o)
  <2>1. run[o].kind = "deploy" /\ run[o].at = "healthy" /\ run[o].new \in Slots
        /\ run[o].new = Other(run[o].old)
    BY <1>0, <1>12, DeployHas DEF CommitRefused, Ats
  <2>2. slots' \in [Slots -> SlotRow]
    BY <1>0, <1>12, <2>1, WithFramed, FreshForms DEF CommitRefused
  <2>3. Framed
    BY <1>0, <1>12, <2>2 DEF CommitRefused, Same, Unrecorded, Framed
  <2>4. Moved(o, "over") \/ Moved(o, "committed")
    BY <1>0, <1>12, GoEffect DEF CommitRefused, Ats
  <2> QED
    BY <1>0, <2>1, <2>3, <2>4, MovedTyped DEF DeployAts, Ats, Shaped
<1>13. CASE PointCurrent(o)
  <2>1. run[o].kind = "deploy" /\ run[o].at = "committed" /\ run[o].new \in Slots
        /\ run[o].new = Other(run[o].old)
    BY <1>0, <1>13, DeployHas DEF PointCurrent, Ats
  <2>2. troubles \subseteq troubles' /\ troubles' \subseteq TroubleKinds
    BY <1>0, <1>13, TroubleFramed DEF PointCurrent, TroubleKinds
  <2>3. Framed
    BY <1>0, <1>13, <2>1, <2>2 DEF PointCurrent, Points, Same, Unrecorded, Framed
  <2>4. Moved(o, "over") \/ Moved(o, "pointed")
    BY <1>0, <1>13, GoEffect DEF PointCurrent, Ats
  <2> QED
    BY <1>0, <2>1, <2>3, <2>4, MovedTyped DEF DeployAts, Ats, Shaped
<1>14. CASE FailAfterCommit(o)
  <2>1. Moved(o, "over") /\ run[o].at # "new"
    BY <1>0, <1>14, GoEffect DEF FailAfterCommit, Ats, Deploys, At
  <2>2. troubles \subseteq troubles' /\ troubles' \subseteq TroubleKinds
    BY <1>0, <1>14, TroubleFramed DEF FailAfterCommit, TroubleKinds
  <2>3. Framed
    BY <1>0, <1>14, <2>2 DEF FailAfterCommit, Same, Unrecorded, Framed
  <2> QED
    BY <2>1, <2>3, MovedTyped DEF Ats
<1>15. CASE PinNewSlot(o)
  <2>1. Moved(o, "pinned") /\ run[o].kind = "deploy" /\ run[o].at = "pointed" /\ run[o].new \in Slots
        /\ run[o].new = Other(run[o].old)
    BY <1>0, <1>15, GoEffect, DeployHas DEF PinNewSlot, Ats
  <2>2. Framed
    BY <1>0, <1>15, <2>1 DEF PinNewSlot, Same, Unrecorded, Framed
  <2> QED
    BY <1>0, <2>1, <2>2, MovedTyped DEF DeployAts, Ats, Shaped
<1>16. CASE StopOldSlot(o)
  <2>1. Moved(o, "stopped") /\ run[o].kind = "deploy" /\ run[o].at = "pinned" /\ run[o].new \in Slots
        /\ run[o].new = Other(run[o].old) /\ run[o].old \in Slots \cup {None}
    BY <1>0, <1>16, GoEffect, DeployHas DEF StopOldSlot, Ats, RunRow
  <2>2. slots' \in [Slots -> SlotRow]
    <3>1. CASE run[o].old = None
      BY <1>0, <1>16, <3>1, OtherSlot DEF StopOldSlot, With
    <3>2. CASE run[o].old \in Slots
      BY <1>0, <1>16, <3>2, WithFramed, SlotForms DEF StopOldSlot
    <3> QED
      BY <2>1, <3>1, <3>2
  <2>3. troubles \subseteq troubles' /\ troubles' \subseteq TroubleKinds
    BY <1>0, <1>16, TroubleFramed DEF StopOldSlot, TroubleKinds
  <2>4. Framed
    BY <1>0, <1>16, <2>2, <2>3 DEF StopOldSlot, Same, Unrecorded, Framed
  <2> QED
    BY <1>0, <2>1, <2>4, MovedTyped DEF DeployAts, Ats, Shaped
<1>17. CASE Unpin(o)
  <2>1. Moved(o, "over") /\ run[o].at # "new"
    BY <1>0, <1>17, GoEffect DEF Unpin, Ats, Deploys, At
  <2>2. Framed
    BY <1>0, <1>17 DEF Unpin, Same, Unrecorded, Framed
  <2> QED
    BY <2>1, <2>2, MovedTyped DEF Ats
<1> QED
  BY <1>1, <1>2, <1>3, <1>4, <1>5, <1>6, <1>7, <1>8, <1>9, <1>10, <1>11, <1>12, <1>13, <1>14, <1>15,
     <1>16, <1>17 DEF DeployStep

-------------------------------------------------------------------------------
(* The types: rollbacks and the watch.                                     *)

LEMMA RollbackHas ==
  ASSUME SlotBase, NEW o \in Runs, NEW at, Flips(o, at), at \notin {"new", "over", "dead", "claimed"}
  PROVE  /\ run[o].kind = "instant" /\ run[o].at = at /\ run[o].new \in Slots /\ run[o].old \in Slots
         /\ run[o].new = Other(run[o].old)
BY TypesOf DEF Flips, At, Shaped

LEMMA WatchHas ==
  ASSUME SlotBase, NEW o \in Runs, NEW at, Watches(o, at), at \notin {"new", "over", "dead", "claimed"}
  PROVE  /\ run[o].kind = "watch" /\ run[o].at = at /\ run[o].new \in Slots /\ run[o].old \in Slots
         /\ run[o].new = Other(run[o].old)
BY TypesOf DEF Watches, At, Shaped

\* What restartActive makes of the slots.
LEMMA RestartedType ==
  ASSUME SlotTyped, NEW o \in Runs, NEW x \in [Slots -> SlotRow], run[o].old \in Slots
  PROVE  /\ Restarted(o, x) \in [Slots -> SlotRow]
         /\ Restarted(o, x)[Other(run[o].old)] = x[Other(run[o].old)]
         /\ overlap => Restarted(o, x) = x
         /\ LET a == x[run[o].old]
                b == Restarted(o, x)[run[o].old]
            IN /\ b.ok = a.ok /\ b.keep = a.keep /\ b.by = a.by
               /\ ~overlap => b.state = (IF a.state = "down" THEN "up" ELSE a.state)
<1>1. \A a \in SlotRow : LET b == [a EXCEPT !.state = IF a.state = "down" THEN "up" ELSE a.state]
                         IN /\ b \in SlotRow /\ b.ok = a.ok /\ b.keep = a.keep /\ b.by = a.by
                            /\ b.state = (IF a.state = "down" THEN "up" ELSE a.state)
  BY DEF SlotRow
<1>2. CASE overlap
  BY <1>2 DEF Restarted
<1>3. CASE ~overlap
  <2> DEFINE old == run[o].old
             b == [x[old] EXCEPT !.state = IF x[old].state = "down" THEN "up" ELSE x[old].state]
  <2>1. Restarted(o, x) = [x EXCEPT ![old] = b]
    BY <1>3 DEF Restarted
  <2>2. b \in SlotRow /\ b.ok = x[old].ok /\ b.keep = x[old].keep /\ b.by = x[old].by
        /\ b.state = (IF x[old].state = "down" THEN "up" ELSE x[old].state)
    BY <1>1
  <2> HIDE DEF b
  <2> QED
    BY <1>3, <2>1, <2>2, OtherSlot
<1> QED
  BY <1>2, <1>3

LEMMA QuitTyped ==
  ASSUME SlotBase, NEW o \in Runs, Quit(o)
  PROVE  Moved(o, "over") /\ (row' = row \/ row' = 0) /\ rows' \subseteq Runs
BY GoEffect, FreeRowFramed DEF SlotBase, SlotTyped, Quit, Ats

LEMMA RollbackTyped ==
  ASSUME SlotAssumption, SlotBase, NEW o \in Runs, RollbackStep(o)
  PROVE  SlotBase'
<1>0. /\ run[o] \in RunRow /\ Shaped(run[o]) /\ slots \in [Slots -> SlotRow] /\ rows \subseteq Runs
      /\ current \in Slots \cup {None} /\ pin \in Slots \cup {None} /\ SlotTyped
      /\ run \in [Runs -> RunRow] /\ troubles \subseteq TroubleKinds
  BY TypesOf DEF SlotBase, SlotTyped
<1>1. CASE RollbackPick(o)
  <2>1. run[o].at = "claimed" /\ run[o].kind = "instant"
    BY <1>1 DEF RollbackPick, Flips, At
  <2>2. CASE Quit(o) /\ UNCHANGED pin
    <3>0. Moved(o, "over") /\ (row' = row \/ row' = 0) /\ rows' \subseteq Runs
      BY <2>2, QuitTyped
    <3>1. Framed
      BY <1>0, <1>1, <2>2, <3>0 DEF RollbackPick, Same, Framed
    <3> QED
      BY <2>1, <3>0, <3>1, MovedTyped DEF Ats
  <2>3. CASE /\ ActiveSlot # None /\ pin' = None /\ UNCHANGED <<row, rows>>
             /\ run' = [run EXCEPT ![o].at = "flip", ![o].old = ActiveSlot, ![o].new = Other(ActiveSlot)]
    <3> DEFINE a == ActiveSlot
    <3>0. run' = [run EXCEPT ![o] = [run[o] EXCEPT !.at = "flip", !.old = a, !.new = Other(a)]]
      BY <1>0, <2>3
    <3> HIDE DEF a
    <3>1. run'[o] = [run[o] EXCEPT !.at = "flip", !.old = a, !.new = Other(a)]
          /\ \A p \in Runs \ {o} : run'[p] = run[p]
      BY <1>0, <3>0
    <3> USE DEF a
    <3>2. /\ run' \in [Runs -> RunRow] /\ \A p \in Runs \ {o} : run'[p] = run[p]
          /\ run'[o].at = "flip" /\ run'[o].kind = "instant" /\ ~run'[o].stopped
          /\ run'[o].old = ActiveSlot /\ run'[o].new = Other(ActiveSlot)
      BY <1>0, <2>1, <2>3, <3>1, ActiveSlotType, OtherSlot DEF Shaped, RunRow, Ats
    <3>3. Shaped(run'[o])
      BY <2>3, <3>2, OtherSlot, ActiveSlotType DEF Shaped, RollbackAts
    <3>4. Framed
      BY <1>0, <1>1, <2>3 DEF RollbackPick, Same, Framed
    <3> QED
      BY <2>1, <3>2, <3>3, <3>4, StepTyped
  <2> QED
    BY <1>1, <2>2, <2>3 DEF RollbackPick
<1>2. CASE RollbackMakeWay(o)
  <2>1. /\ run[o].kind = "instant" /\ run[o].at = "flip" /\ run[o].new \in Slots /\ run[o].old \in Slots
        /\ run[o].new = Other(run[o].old)
    BY <1>2, RollbackHas DEF RollbackMakeWay
  <2>2. slots' \in [Slots -> SlotRow]
    BY <1>0, <1>2, <2>1, WithFramed, SlotForms DEF RollbackMakeWay
  <2>3. troubles \subseteq troubles' /\ troubles' \subseteq TroubleKinds
    BY <1>0, <1>2, TroubleFramed DEF RollbackMakeWay, TroubleKinds
  <2>a. Quit(o) \/ (Go(o, "clear") /\ UNCHANGED <<row, rows>>)
    BY <1>2 DEF RollbackMakeWay
  <2>5. (Moved(o, "clear") \/ Moved(o, "over")) /\ (row' = row \/ row' = 0) /\ rows' \subseteq Runs
    BY <1>0, <2>a, QuitTyped, GoEffect DEF Ats
  <2>4. Framed
    BY <1>0, <1>2, <2>2, <2>3, <2>5 DEF RollbackMakeWay, Same, Framed
  <2> QED
    BY <2>1, <2>4, <2>5, MovedTyped DEF RollbackAts, Ats
<1>3. CASE RollbackStart(o)
  <2>1. /\ run[o].kind = "instant" /\ run[o].at = "clear" /\ run[o].new \in Slots /\ run[o].old \in Slots
        /\ run[o].new = Other(run[o].old)
    BY <1>3, RollbackHas DEF RollbackStart
  <2>2. slots' \in [Slots -> SlotRow]
    <3> DEFINE x == [slots EXCEPT ![run[o].new].state = "up"]
    <3>1. x \in [Slots -> SlotRow]
      BY <1>0, <2>1 DEF SlotRow
    <3>2. Restarted(o, slots) \in [Slots -> SlotRow] /\ Restarted(o, x) \in [Slots -> SlotRow]
      BY <1>0, <2>1, <3>1, RestartedType
    <3>3. Started(run[o].new) \in SlotRow
      BY <1>0, <2>1, SlotForms
    <3>4. With(run[o].new, Started(run[o].new)) => slots' \in [Slots -> SlotRow]
      BY <1>0, <2>1, <3>3, WithFramed
    <3> QED
      BY <1>3, <3>2, <3>4 DEF RollbackStart
  <2>3. troubles \subseteq troubles' /\ troubles' \subseteq TroubleKinds
    BY <1>0, <1>3, TroubleFramed DEF RollbackStart, TroubleKinds
  <2>a. Quit(o) \/ (Go(o, "probing") /\ UNCHANGED <<row, rows>>)
    BY <1>3 DEF RollbackStart
  <2>5. (Moved(o, "probing") \/ Moved(o, "over")) /\ (row' = row \/ row' = 0) /\ rows' \subseteq Runs
    BY <1>0, <2>a, QuitTyped, GoEffect DEF Ats
  <2>4. Framed
    BY <1>0, <1>3, <2>2, <2>3, <2>5 DEF RollbackStart, Same, Framed
  <2> QED
    BY <2>1, <2>4, <2>5, MovedTyped DEF RollbackAts, Ats
<1>4. CASE RollbackProbe(o)
  <2>1. /\ run[o].kind = "instant" /\ run[o].at = "probing" /\ run[o].new \in Slots /\ run[o].old \in Slots
        /\ run[o].new = Other(run[o].old)
    BY <1>4, RollbackHas DEF RollbackProbe
  <2>2. /\ [slots[run[o].new] EXCEPT !.ok = TRUE] \in SlotRow
        /\ [Halted(run[o].new) EXCEPT !.ok = FALSE] \in SlotRow
    <3>1. \A z \in SlotRow : [z EXCEPT !.ok = TRUE] \in SlotRow /\ [z EXCEPT !.ok = FALSE] \in SlotRow
      BY DEF SlotRow
    <3>2. Halted(run[o].new) \in SlotRow /\ slots[run[o].new] \in SlotRow
      BY <1>0, <2>1, SlotForms
    <3> QED
      BY <3>1, <3>2
  <2>3. [slots EXCEPT ![run[o].new] = [Halted(run[o].new) EXCEPT !.ok = FALSE]] \in [Slots -> SlotRow]
    BY <1>0, <2>1, <2>2
  <2>4. slots' \in [Slots -> SlotRow]
    <3> DEFINE x == [slots EXCEPT ![run[o].new] = [Halted(run[o].new) EXCEPT !.ok = FALSE]]
    <3>1. Restarted(o, x) \in [Slots -> SlotRow]
      <4> HIDE DEF x
      <4> QED
        BY <1>0, <2>1, <2>3, RestartedType DEF x
    <3>2. slots' = Restarted(o, x) \/ With(run[o].new, [slots[run[o].new] EXCEPT !.ok = TRUE])
      BY <1>4 DEF RollbackProbe
    <3> HIDE DEF x
    <3> QED
      BY <2>1, <2>2, <3>1, <3>2, WithFramed
  <2>a. Quit(o) \/ (Go(o, "healthy") /\ UNCHANGED <<row, rows>>)
    BY <1>4 DEF RollbackProbe
  <2>6. (Moved(o, "healthy") \/ Moved(o, "over")) /\ (row' = row \/ row' = 0) /\ rows' \subseteq Runs
    BY <1>0, <2>a, QuitTyped, GoEffect DEF Ats
  <2>5. Framed
    BY <1>0, <1>4, <2>4, <2>6 DEF RollbackProbe, Same, Framed
  <2> QED
    BY <2>1, <2>5, <2>6, MovedTyped DEF RollbackAts, Ats
<1>5. CASE RollbackStop(o)
  <2>1. /\ run[o].kind = "instant" /\ run[o].at = "healthy" /\ run[o].new \in Slots /\ run[o].old \in Slots
        /\ run[o].new = Other(run[o].old)
    BY <1>5, RollbackHas DEF RollbackStop
  <2>2. slots' \in [Slots -> SlotRow]
    BY <1>0, <1>5, <2>1, WithFramed, SlotForms DEF RollbackStop
  <2>3. troubles \subseteq troubles' /\ troubles' \subseteq TroubleKinds
    BY <1>0, <1>5, TroubleFramed DEF RollbackStop, TroubleKinds
  <2>4. Framed /\ Moved(o, "stopped")
    BY <1>0, <1>5, <2>2, <2>3, GoEffect DEF RollbackStop, Same, Unrecorded, Framed, Ats
  <2> QED
    BY <2>1, <2>4, MovedTyped DEF RollbackAts, Ats
<1>6. CASE RollbackPoint(o)
  <2>1. /\ run[o].kind = "instant" /\ run[o].at = "stopped" /\ run[o].new \in Slots /\ run[o].old \in Slots
        /\ run[o].new = Other(run[o].old)
    BY <1>6, RollbackHas DEF RollbackPoint
  <2>2. troubles \subseteq troubles' /\ troubles' \subseteq TroubleKinds
    BY <1>0, <1>6, TroubleFramed DEF RollbackPoint, TroubleKinds
  <2>3. Framed /\ Moved(o, "pointed")
    BY <1>0, <1>6, <2>1, <2>2, GoEffect DEF RollbackPoint, Points, Same, Unrecorded, Framed, Ats
  <2> QED
    BY <2>1, <2>3, MovedTyped DEF RollbackAts, Ats
<1>7. CASE RollbackDone(o)
  <2>1. /\ run[o].kind = "instant" /\ run[o].at = "pointed" /\ run[o].new \in Slots
    BY <1>7, RollbackHas DEF RollbackDone
  <2>2. record' \in RecordRow /\ record'.op # 0 /\ record'.kind # None /\ record'.slot \in Slots
    BY <1>7, <2>1, SucceedFramed DEF RollbackDone, Succeed, None
  <2>a. Go(o, "over") /\ FreeRow(o) /\ UNCHANGED rows
    BY <1>7 DEF RollbackDone, Succeed
  <2>b. Moved(o, "over") /\ (row' = row \/ row' = 0)
    BY <1>0, <2>a, FreeRowFramed, GoEffect DEF Ats
  <2>3. Framed /\ Moved(o, "over")
    BY <1>0, <1>7, <2>2, <2>a, <2>b DEF RollbackDone, Same, Framed
  <2> QED
    BY <2>1, <2>3, MovedTyped DEF Ats
<1> QED
  BY <1>1, <1>2, <1>3, <1>4, <1>5, <1>6, <1>7 DEF RollbackStep

LEMMA WatchTyped ==
  ASSUME SlotAssumption, SlotBase, NEW o \in Runs, WatchRestore(o) \/ WatchPoint(o) \/ WatchVerify(o)
  PROVE  SlotBase'
<1>0. /\ run[o] \in RunRow /\ Shaped(run[o]) /\ slots \in [Slots -> SlotRow] /\ rows \subseteq Runs
      /\ current \in Slots \cup {None} /\ pin \in Slots \cup {None} /\ SlotTyped
      /\ run \in [Runs -> RunRow] /\ troubles \subseteq TroubleKinds
  BY TypesOf DEF SlotBase, SlotTyped
<1>1. CASE WatchRestore(o)
  <2>1. /\ run[o].kind = "watch" /\ run[o].at = "taken" /\ run[o].new \in Slots /\ run[o].old \in Slots
        /\ run[o].new = Other(run[o].old)
    BY <1>1, WatchHas DEF WatchRestore
  <2>2. PutBack(run[o].old) \in SlotRow
    BY <1>0, <2>1 DEF PutBack, SlotRow
  <2>3. slots' \in [Slots -> SlotRow]
    <3> DEFINE back == [slots EXCEPT ![run[o].old] = PutBack(run[o].old)]
    <3>1. back \in [Slots -> SlotRow]
      BY <1>0, <2>2
    <3> HIDE DEF back
    <3>2. [back EXCEPT ![run[o].new].state = "up"] \in [Slots -> SlotRow]
      BY <2>1, <3>1 DEF SlotRow
    <3>3. With(run[o].new, Started(run[o].new)) => slots' \in [Slots -> SlotRow]
      BY <1>0, <2>1, WithFramed, SlotForms
    <3> QED
      BY <1>1, <3>1, <3>2, <3>3 DEF WatchRestore, back
  <2>4. troubles \subseteq troubles' /\ troubles' \subseteq TroubleKinds
    BY <1>0, <1>1, TroubleFramed DEF WatchRestore, TroubleKinds
  <2>5. Framed
    BY <1>0, <1>1, <2>3, <2>4, FreeRowFramed DEF WatchRestore, Same, Unrecorded, Framed
  <2>6. Moved(o, "started") \/ Moved(o, "over")
    BY <1>0, <1>1, GoEffect DEF WatchRestore, Ats
  <2> QED
    BY <2>1, <2>5, <2>6, MovedTyped DEF WatchAts, Ats
<1>2. CASE WatchPoint(o)
  <2>1. /\ run[o].kind = "watch" /\ run[o].at = "started" /\ run[o].new \in Slots /\ run[o].old \in Slots
        /\ run[o].new = Other(run[o].old)
    BY <1>2, WatchHas DEF WatchPoint
  <2>2. slots' \in [Slots -> SlotRow]
    BY <1>0, <1>2, <2>1, WithFramed, SlotForms DEF WatchPoint
  <2>3. troubles \subseteq troubles' /\ troubles' \subseteq TroubleKinds
    BY <1>0, <1>2, TroubleFramed DEF WatchPoint, TroubleKinds
  <2>4. Framed /\ Moved(o, "pointed")
    BY <1>0, <1>2, <2>1, <2>2, <2>3, GoEffect DEF WatchPoint, Points, Same, Unrecorded, Framed, Ats
  <2> QED
    BY <2>1, <2>4, MovedTyped DEF WatchAts, Ats
<1>3. CASE WatchVerify(o)
  <2>1. /\ run[o].kind = "watch" /\ run[o].at = "pointed" /\ run[o].new \in Slots
    BY <1>3, WatchHas DEF WatchVerify
  <2>2. CASE Succeed(o, run[o].new)
    <3>1. record' \in RecordRow /\ record'.op # 0 /\ record'.kind # None /\ record'.slot \in Slots
      BY <2>1, <2>2, SucceedFramed DEF Succeed, None
    <3>2. Framed /\ Moved(o, "over")
      BY <1>0, <1>3, <2>2, <3>1, FreeRowFramed, GoEffect DEF WatchVerify, Succeed, Same, Framed, Ats
    <3> QED
      BY <2>1, <3>2, MovedTyped DEF Ats
  <2>3. CASE FreeRow(o) /\ RolledBack
    <3>1. record' = record \/ (record' \in RecordRow /\ record'.op # 0 /\ record'.slot \in Slots)
      BY <2>3 DEF RolledBack, SlotBase, SlotTyped, RecordRow, None
    <3>2. Framed /\ Moved(o, "over")
      BY <1>0, <1>3, <2>3, <3>1, FreeRowFramed, GoEffect DEF WatchVerify, RolledBack, Same, Framed, Ats
    <3> QED
      BY <2>1, <3>2, MovedTyped DEF Ats
  <2> QED
    BY <1>3, <2>2, <2>3 DEF WatchVerify
<1> QED
  BY <1>1, <1>2, <1>3

-------------------------------------------------------------------------------
(* The types: what happens outside a run.                                  *)

\* What a step that starts no run leaves of it.
LEMMA RestTyped ==
  ASSUME SlotAssumption, SlotBase, run' = run, overlap' = overlap, slots' \in [Slots -> SlotRow],
         current' = current, pin' = pin, sweep' \in Slots \cup {None},
         row' = row \/ row' = 0, rows' = rows, record' = record,
         aborted' \subseteq Runs, \A o \in Runs : o \in aborted' => o \in aborted \/ run[o].at # "new",
         troubles \subseteq troubles', troubles' \subseteq TroubleKinds
  PROVE  SlotBase'
<1>1. SlotTyped'
  BY DEF SlotBase, SlotTyped, SlotRow, SlotAssumption
<1>2. NewRunsFree'
  BY DEF SlotBase, NewRunsFree, Runs
<1>3. \A p \in Runs : Shaped(run'[p]) /\ (run'[p].stopped => ~overlap')
  BY DEF SlotBase
<1>4. \A p \in Runs : run'[p].at = "dead" => troubles' \cap {"death", "daemon"} # {}
  BY DEF SlotBase
<1> QED
  BY <1>1, <1>2, <1>3, <1>4 DEF SlotBase

LEMMA OtherTyped ==
  ASSUME SlotAssumption, SlotBase, NEW o \in Runs, Abort(o) \/ CloseElsewhere(o)
  PROVE  SlotBase'
<1>0. /\ slots \in [Slots -> SlotRow] /\ rows \subseteq Runs /\ aborted \subseteq Runs /\ SlotTyped
      /\ troubles \subseteq TroubleKinds /\ sweep \in Slots \cup {None} /\ current \in Slots \cup {None}
  BY TypesOf DEF SlotBase, SlotTyped
<1>1. CASE Abort(o)
  BY <1>0, <1>1, RestTyped DEF Abort, Active
<1>2. CASE CloseElsewhere(o)
  <2>1. troubles \subseteq troubles' /\ troubles' \subseteq TroubleKinds
    BY <1>0, <1>2, TroubleFramed DEF CloseElsewhere, TroubleKinds
  <2>2. slots' \in [Slots -> SlotRow]
    <3>1. CASE UNCHANGED slots
      BY <1>0, <3>1
    <3>2. CASE ActiveSlot # None /\ With(ActiveSlot, Removed(ActiveSlot))
      BY <1>0, <3>2, ActiveSlotType, WithFramed, SlotForms
    <3> QED
      BY <1>2, <3>1, <3>2 DEF CloseElsewhere
  <2> QED
    BY <1>0, <1>2, <2>1, <2>2, RestTyped DEF CloseElsewhere
<1> QED
  BY <1>1, <1>2

LEMMA SweepTyped ==
  ASSUME SlotAssumption, SlotBase, SweepLook \/ SweepStop \/ Fall
  PROVE  SlotBase'
<1>0. /\ slots \in [Slots -> SlotRow] /\ rows \subseteq Runs /\ aborted \subseteq Runs /\ SlotTyped
      /\ troubles \subseteq TroubleKinds /\ sweep \in Slots \cup {None} /\ current \in Slots \cup {None}
  BY DEF SlotBase, SlotTyped, SlotRow
<1>3. CASE SweepLook
  BY <1>0, <1>3, OtherSlot, RestTyped DEF SweepLook
<1>4. CASE SweepStop
  <2>1. troubles \subseteq troubles' /\ troubles' \subseteq TroubleKinds
    BY <1>0, <1>4, TroubleFramed DEF SweepStop, TroubleKinds
  <2>2. slots' \in [Slots -> SlotRow]
    BY <1>0, <1>4, WithFramed, SlotForms DEF SweepStop
  <2> QED
    BY <1>0, <1>4, <2>1, <2>2, RestTyped DEF SweepStop
<1>5. CASE Fall
  <2>1. troubles \subseteq troubles' /\ troubles' \subseteq TroubleKinds
    BY <1>0, <1>5, TroubleFramed DEF Fall, TroubleKinds
  <2>2. \A z \in SlotRow : [z EXCEPT !.ok = FALSE] \in SlotRow
    BY DEF SlotRow
  <2>3. record.slot \in Slots
    BY <1>5 DEF Fall, SlotBase
  <2>4. slots' \in [Slots -> SlotRow]
    BY <1>0, <1>5, <2>2, <2>3, WithFramed, SlotForms DEF Fall
  <2> QED
    BY <1>0, <1>5, <2>1, <2>4, RestTyped DEF Fall
<1> QED
  BY <1>3, <1>4, <1>5

\* A run starts.
LEMMA StartTyped ==
  ASSUME SlotAssumption, SlotBase, NEW o \in Runs, StartDeploy(o) \/ StartRollback(o) \/ WatchLook(o)
  PROVE  SlotBase'
<1>0. /\ run[o] \in RunRow /\ Shaped(run[o]) /\ slots \in [Slots -> SlotRow] /\ rows \subseteq Runs
      /\ SlotTyped /\ run \in [Runs -> RunRow] /\ run[o].at = "new" /\ ~run[o].stopped /\ run[o].new = None
      /\ row # o /\ o \notin aborted /\ row \in 0 .. NumRuns
  <2>1. run[o].at = "new" /\ NewRunsFree
    BY DEF StartDeploy, StartRollback, Takes, WatchLook, SlotBase
  <2> QED
    BY <2>1, TypesOf DEF SlotBase, SlotTyped, NewRunsFree, Shaped
<1>1. ASSUME NEW kind \in {"deploy", "instant"}, Takes(o, kind) PROVE SlotBase'
  <2>1. run' = [run EXCEPT ![o] = [run[o] EXCEPT !.kind = kind, !.at = "claimed"]]
    BY <1>0, <1>1 DEF Takes
  <2>2. \A z \in RunRow : LET y == [z EXCEPT !.kind = kind, !.at = "claimed"]
                          IN y \in RunRow /\ y.kind = kind /\ y.at = "claimed" /\ y.old = z.old
                             /\ y.new = z.new /\ y.stopped = z.stopped
    BY <1>1 DEF RunRow, Kinds, Ats
  <2>3. /\ run' \in [Runs -> RunRow] /\ run'[o].kind = kind /\ run'[o].at = "claimed"
        /\ run'[o].new = None /\ ~run'[o].stopped /\ \A p \in Runs \ {o} : run'[p] = run[p]
    <3> DEFINE y == [run[o] EXCEPT !.kind = kind, !.at = "claimed"]
    <3>1. y \in RunRow /\ y.kind = kind /\ y.at = "claimed" /\ y.new = None /\ ~y.stopped
      BY <1>0, <2>2
    <3>2. run' = [run EXCEPT ![o] = y]
      BY <2>1
    <3> HIDE DEF y
    <3> QED
      BY <1>0, <3>1, <3>2
  <2>4. Shaped(run'[o])
    BY <1>1, <2>3 DEF Shaped, DeployAts, RollbackAts
  <2>5. SlotTyped'
    BY <1>0, <1>1, <2>3 DEF Takes, SlotTyped, Runs, SlotAssumption
  <2>6. NewRunsFree'
    BY <1>1, <2>3 DEF Takes, NewRunsFree, SlotBase
  <2>7. \A p \in Runs : Shaped(run'[p]) /\ (run'[p].stopped => ~overlap')
    BY <1>1, <2>3, <2>4 DEF Takes, SlotBase
  <2>8. (record'.op = 0 => record'.kind = None) /\ (record'.op # 0 => record'.slot \in Slots)
    BY <1>1 DEF Takes, SlotBase
  <2>9. \A p \in Runs : run'[p].at = "dead" => troubles' \cap {"death", "daemon"} # {}
    BY <1>1, <2>3 DEF Takes, SlotBase
  <2> QED
    BY <2>5, <2>6, <2>7, <2>8, <2>9 DEF SlotBase
<1>2. CASE WatchLook(o)
  <2>1. record.slot \in Slots
    BY <1>2 DEF WatchLook, Crashed, SlotBase, None
  <2> DEFINE y == [kind |-> "watch", at |-> "seen", old |-> record.slot, new |-> Other(record.slot), stopped |-> FALSE]
  <2>2. y \in RunRow /\ y.at = "seen" /\ y.kind = "watch" /\ ~y.stopped /\ y.old = record.slot /\ y.new = Other(y.old)
    BY <2>1, OtherSlot DEF RunRow, Kinds, Ats
  <2>3. run' = [run EXCEPT ![o] = y]
    BY <1>2 DEF WatchLook
  <2> HIDE DEF y
  <2>4. run' \in [Runs -> RunRow] /\ run'[o] = y /\ \A p \in Runs \ {o} : run'[p] = run[p]
    BY <1>0, <2>2, <2>3
  <2>5. Shaped(y)
    BY <2>1, <2>2, OtherSlot DEF Shaped, WatchAts, None, Slots
  <2>6. SlotTyped'
    BY <1>0, <1>2, <2>4 DEF WatchLook, SlotTyped, Same, Unrecorded
  <2>7. NewRunsFree'
    BY <1>2, <2>2, <2>4 DEF WatchLook, NewRunsFree, SlotBase
  <2>8. \A p \in Runs : Shaped(run'[p]) /\ (run'[p].stopped => ~overlap')
    BY <1>2, <2>2, <2>4, <2>5 DEF WatchLook, Same, SlotBase
  <2>9. (record'.op = 0 => record'.kind = None) /\ (record'.op # 0 => record'.slot \in Slots)
    BY <1>2 DEF WatchLook, Unrecorded, SlotBase
  <2>10. \A p \in Runs : run'[p].at = "dead" => troubles' \cap {"death", "daemon"} # {}
    BY <1>2, <2>2, <2>4 DEF WatchLook, SlotBase
  <2> QED
    BY <2>6, <2>7, <2>8, <2>9, <2>10 DEF SlotBase
<1> QED
  BY <1>1, <1>2 DEF StartDeploy, StartRollback

LEMMA TakeTyped ==
  ASSUME SlotAssumption, SlotBase, NEW o \in Runs, WatchTake(o)
  PROVE  SlotBase'
<1>0. /\ run[o] \in RunRow /\ Shaped(run[o]) /\ slots \in [Slots -> SlotRow] /\ rows \subseteq Runs
      /\ SlotTyped /\ run \in [Runs -> RunRow]
  BY TypesOf DEF SlotBase, SlotTyped
<1>1. /\ run[o].kind = "watch" /\ run[o].at = "seen" /\ run[o].new \in Slots /\ run[o].old \in Slots
      /\ run[o].new = Other(run[o].old)
  BY WatchHas DEF WatchTake
<1>2. CASE row # 0 /\ Go(o, "over") /\ UNCHANGED <<row, rows, slots>>
  <2>1. Moved(o, "over")
    BY <1>0, <1>2, GoEffect DEF Ats
  <2>2. Framed
    BY <1>0, <1>2 DEF WatchTake, Same, Framed, SlotBase, SlotTyped
  <2> QED
    BY <1>1, <2>1, <2>2, MovedTyped DEF Ats
<1>3. CASE /\ row = 0 /\ row' = o /\ rows' = rows \cup {o}
           /\ With(run[o].old, Halted(run[o].old)) /\ Go(o, "taken")
  <2>1. Moved(o, "taken")
    BY <1>0, <1>3, GoEffect DEF Ats
  <2>2. slots' \in [Slots -> SlotRow]
    BY <1>0, <1>1, <1>3, WithFramed, SlotForms
  <2>3. SlotTyped'
    BY <1>0, <1>3, <2>1, <2>2 DEF WatchTake, Same, SlotTyped, Moved, SlotRow, Runs, SlotAssumption
  <2>4. NewRunsFree'
    BY <1>1, <1>3, <2>1 DEF WatchTake, NewRunsFree, SlotBase, Moved
  <2>5. Shaped(run'[o])
    BY <1>1, <2>1, <1>0 DEF Shaped, Moved, WatchAts
  <2>6. \A p \in Runs : Shaped(run'[p]) /\ (run'[p].stopped => ~overlap')
    BY <2>1, <2>5 DEF WatchTake, Same, SlotBase, Moved
  <2>7. (record'.op = 0 => record'.kind = None) /\ (record'.op # 0 => record'.slot \in Slots)
    BY DEF WatchTake, SlotBase
  <2>8. \A p \in Runs : run'[p].at = "dead" => troubles' \cap {"death", "daemon"} # {}
    BY <2>1 DEF WatchTake, SlotBase, Moved
  <2> QED
    BY <2>3, <2>4, <2>6, <2>7, <2>8 DEF SlotBase
<1> QED
  BY <1>2, <1>3 DEF WatchTake

LEMMA DieTyped ==
  ASSUME SlotAssumption, SlotBase, NEW o \in Runs, Die(o)
  PROVE  SlotBase'
<1>1. Moved(o, "dead") /\ run[o].at # "new"
  BY GoEffect DEF Die, Active, Ats, SlotBase
<1>2. "death" \in troubles' /\ troubles \subseteq troubles' /\ troubles' \subseteq TroubleKinds
  BY DEF Die, Trouble, TroubleKinds, SlotBase, SlotTyped
<1>3. Framed /\ Died'
  BY <1>2 DEF Die, Framed, Died, SlotBase, SlotTyped, SlotRow
<1> QED
  BY <1>1, <1>3, MovedTyped DEF Ats

\* Docker starts again with what it would restart.
LEMMA AfterRestartForms ==
  ASSUME SlotTyped, NEW s \in Slots, NEW x \in AfterRestart(s)
  PROVE  /\ x \in SlotRow /\ x.ok = slots[s].ok /\ x.by = slots[s].by /\ x.keep = slots[s].keep
         /\ (x.state = "gone") = (slots[s].state = "gone")
         /\ slots[s].state = "up" /\ slots[s].keep => x.state = "up"
<1>0. slots[s] \in SlotRow
  BY SlotForms
<1>1. slots[s].state \in {"up", "down", "gone"}
  BY <1>0 DEF SlotRow
<1>2. CASE slots[s].state = "up"
  BY <1>2, SlotForms DEF AfterRestart
<1>3. CASE slots[s].state = "down"
  BY <1>3, SlotForms DEF AfterRestart
<1>4. CASE slots[s].state = "gone"
  BY <1>4, SlotForms DEF AfterRestart
<1> QED
  BY <1>1, <1>2, <1>3, <1>4

LEMMA RestartEffect ==
  ASSUME SlotBase, DaemonRestart
  PROVE  /\ \A s \in Slots : slots'[s] \in AfterRestart(s)
         /\ slots' \in [Slots -> SlotRow]
         /\ run' \in [Runs -> RunRow] /\ Active' = {} /\ Died'
         /\ \A p \in Runs : /\ run'[p].kind = run[p].kind /\ run'[p].new = run[p].new /\ run'[p].old = run[p].old
                            /\ run'[p].stopped = run[p].stopped
                            /\ run'[p].at = IF p \in Active THEN "dead" ELSE run[p].at
<1>1. /\ \A s \in Slots : slots'[s] \in AfterRestart(s)
      /\ slots' = [s \in Slots |-> slots'[s]]
  BY DEF DaemonRestart, Slots
<1>2. slots' \in [Slots -> SlotRow]
  <2>1. \A s \in Slots : slots'[s] \in SlotRow
    BY <1>1, AfterRestartForms DEF SlotBase
  <2> QED
    BY <1>1, <2>1 DEF Slots
<1>3. \A z \in RunRow : LET y == [z EXCEPT !.at = "dead"]
                        IN y \in RunRow /\ y.at = "dead" /\ y.kind = z.kind /\ y.old = z.old
                           /\ y.new = z.new /\ y.stopped = z.stopped
  BY DEF RunRow, Ats
<1>4. \A p \in Runs : run'[p] = IF p \in Active THEN [run[p] EXCEPT !.at = "dead"] ELSE run[p]
  BY DEF DaemonRestart
<1>5. \A p \in Runs : /\ run'[p] \in RunRow
                      /\ run'[p].kind = run[p].kind /\ run'[p].new = run[p].new /\ run'[p].old = run[p].old
                      /\ run'[p].stopped = run[p].stopped
                      /\ run'[p].at = IF p \in Active THEN "dead" ELSE run[p].at
  <2> SUFFICES ASSUME NEW p \in Runs
               PROVE  /\ run'[p] \in RunRow
                      /\ run'[p].kind = run[p].kind /\ run'[p].new = run[p].new /\ run'[p].old = run[p].old
                      /\ run'[p].stopped = run[p].stopped
                      /\ run'[p].at = IF p \in Active THEN "dead" ELSE run[p].at
    OBVIOUS
  <2> DEFINE y == [run[p] EXCEPT !.at = "dead"]
  <2>1. run[p] \in RunRow
    BY DEF SlotBase, SlotTyped
  <2>2. /\ y \in RunRow /\ y.at = "dead" /\ y.kind = run[p].kind /\ y.old = run[p].old
        /\ y.new = run[p].new /\ y.stopped = run[p].stopped
    BY <1>3, <2>1
  <2>3. run'[p] = IF p \in Active THEN y ELSE run[p]
    BY <1>4
  <2> HIDE DEF y
  <2> QED
    BY <2>1, <2>2, <2>3
<1>6. run' \in [Runs -> RunRow]
  BY <1>5 DEF DaemonRestart
<1>7. Active' = {}
  BY <1>5 DEF Active
<1>8. Died'
  BY DEF DaemonRestart, Trouble, Died
<1> QED
  BY <1>1, <1>2, <1>5, <1>6, <1>7, <1>8

LEMMA RestartTyped ==
  ASSUME SlotAssumption, SlotBase, DaemonRestart
  PROVE  SlotBase'
<1>1. troubles' \subseteq TroubleKinds /\ Died'
  BY RestartEffect DEF DaemonRestart, Trouble, TroubleKinds, SlotBase, SlotTyped
<1>2. SlotTyped'
  BY <1>1, RestartEffect DEF DaemonRestart, SlotBase, SlotTyped, SlotRow
<1>3. NewRunsFree'
  BY RestartEffect DEF DaemonRestart, SlotBase, NewRunsFree, Active
<1>4. ASSUME NEW p \in Runs PROVE Shaped(run'[p]) /\ (run'[p].stopped => ~overlap')
  <2>1. Shaped(run[p]) /\ (run[p].stopped => ~overlap)
    BY DEF SlotBase
  <2>2. overlap' = overlap
    BY DEF DaemonRestart
  <2> QED
    BY <2>1, <2>2, RestartEffect DEF Shaped, Active
<1>5. (record'.op = 0 => record'.kind = None) /\ (record'.op # 0 => record'.slot \in Slots)
  BY DEF DaemonRestart, SlotBase
<1> QED
  BY <1>1, <1>2, <1>3, <1>4, <1>5 DEF SlotBase, Died

LEMMA SlotBaseStarts == ASSUME SlotAssumption, Init PROVE SlotBase
<1>1. SlotTyped
  BY DEF Init, SlotTyped, Slots, None, NoContainers, SlotAssumption, RunRow, Ats, TroubleKinds
<1>2. NewRunsFree
  BY DEF Init, NewRunsFree, Runs
<1>3. \A p \in Runs : Shaped(run[p]) /\ (run[p].stopped => ~overlap)
  BY DEF Init, Shaped
<1> QED
  BY <1>1, <1>2, <1>3 DEF Init, SlotBase

LEMMA SlotBaseStep ==
  ASSUME SlotAssumption, SlotBase, [Next]_vars
  PROVE  SlotBase'
<1>1. CASE UNCHANGED vars
  BY <1>1 DEF vars, SlotBase, SlotTyped, NewRunsFree
<1>2. ASSUME NEW o \in Runs, WatchStep(o) PROVE SlotBase'
  BY <1>2, TakeTyped, WatchTyped DEF WatchStep
<1>3. CASE Next
  <2>1. ASSUME NEW o \in Runs, StartDeploy(o) \/ StartRollback(o) \/ WatchLook(o) PROVE SlotBase'
    BY <2>1, StartTyped
  <2>2. ASSUME NEW o \in Runs, DeployStep(o) \/ RollbackStep(o) PROVE SlotBase'
    BY <2>2, DeployTyped, RollbackTyped
  <2>3. ASSUME NEW o \in Runs, Abort(o) \/ CloseElsewhere(o) \/ Die(o) PROVE SlotBase'
    BY <2>3, OtherTyped, DieTyped
  <2>4. ASSUME SweepLook \/ SweepStop \/ Fall \/ DaemonRestart PROVE SlotBase'
    BY <2>4, SweepTyped, RestartTyped
  <2> QED
    BY <1>2, <1>3, <2>1, <2>2, <2>3, <2>4, Zenon DEF Next
<1> QED
  BY <1>1, <1>3

LEMMA SlotBaseIsTyped == ASSUME SlotAssumption, SlotBase PROVE SlotTypeOK
<1>1. \A o \in Runs : o \in Holders => run[o].at # "new"
  BY DEF Holders, Active
<1> QED
  BY <1>1 DEF SlotBase, SlotTyped, NewRunsFree, SlotTypeOK

\* Every variable has its type, and the row, the aborts and the slots belong to runs that
\* started: SlotTypeOK, of swap.ts, instant-rollback.ts, rollback-monitor.ts and sweeper.ts.
THEOREM SlotTypeCorrect ==
  ASSUME SlotAssumption
  PROVE  Spec => []SlotTypeOK
<1>1. Init => SlotBase
  BY SlotBaseStarts
<1>2. SlotBase /\ [Next]_vars => SlotBase'
  BY SlotBaseStep
<1>3. SlotBase => SlotTypeOK
  BY SlotBaseIsTyped
<1> QED
  BY <1>1, <1>2, <1>3, PTL DEF Spec

-------------------------------------------------------------------------------
(* A run that has the slots.                                               *)

SlotInv == OneHolder /\ Clean /\ Kept /\ On

OnHolds == overlap /\ MaxTroubles <= 1 /\ "crash" \notin troubles

\* What is known of the slots and of the run that has them.
Holding(o) ==
  /\ Holders = {o} /\ sweep = None
  /\ run[o] \in RunRow /\ slots \in [Slots -> SlotRow] /\ overlap \in BOOLEAN
  /\ run[o].new \in Slots /\ run[o].old \in Slots \cup {None}
  /\ run[o].new = Other(run[o].old) /\ run[o].old # run[o].new
  /\ run[o].old \in Slots => run[o].old = Other(run[o].new)
  /\ current \in Slots \cup {None}
  /\ record.op # 0 => record.slot \in Slots
  /\ run[o].stopped => ~overlap /\ run[o].old \in Slots

LEMMA Hold ==
  ASSUME SlotBase, OneHolder, NEW o \in Holders
  PROVE  Holding(o)
<1>1. o \in Runs /\ run[o].at \notin {"new", "over", "dead"} /\ run[o].new # None
  BY DEF Holders, Active
<1>2. Holders = {o} /\ sweep = None
  BY DEF OneHolder
<1>3. run[o] \in RunRow /\ Shaped(run[o]) /\ (run[o].stopped => ~overlap)
  BY <1>1 DEF SlotBase, SlotTyped
<1>4. run[o].new \in Slots /\ run[o].new = Other(run[o].old) /\ run[o].old \in Slots \cup {None}
  BY <1>1, <1>3 DEF Shaped, RunRow
<1>5. run[o].old # run[o].new /\ (run[o].old \in Slots => run[o].old = Other(run[o].new))
  BY <1>4, OtherSlot DEF None, Slots
<1>6. run[o].stopped => run[o].old \in Slots
  BY <1>3 DEF Shaped
<1> QED
  BY <1>2, <1>3, <1>4, <1>5, <1>6 DEF Holding, SlotBase, SlotTyped, SlotRow

LEMMA DeployHold ==
  ASSUME SlotBase, SlotInv, NEW o \in Runs, NEW at, Deploys(o, at), at \notin {"new", "over", "dead", "claimed"}
  PROVE  /\ o \in Holders /\ Holding(o) /\ run[o].kind = "deploy" /\ run[o].at = at
         /\ troubles = {} => CleanDeploy(o, run[o])
         /\ troubles \subseteq {"write", "read"} => KeptDeploy(o, run[o])
         /\ OnHolds => OnDeploy(o, run[o])
<1>1. run[o].kind = "deploy" /\ run[o].at = at /\ run[o].new \in Slots
  BY DeployHas
<1>2. o \in Holders
  BY <1>1, OtherSlot DEF Holders, Active
<1> QED
  BY <1>1, <1>2, Hold DEF SlotInv, Clean, Kept, On, OnHolds

LEMMA RollbackHold ==
  ASSUME SlotBase, SlotInv, NEW o \in Runs, NEW at, Flips(o, at), at \notin {"new", "over", "dead", "claimed"}
  PROVE  /\ o \in Holders /\ Holding(o) /\ run[o].kind = "instant" /\ run[o].at = at /\ run[o].old \in Slots
         /\ troubles = {} => CleanRollback(o, run[o])
         /\ troubles \subseteq {"write", "read"} => KeptRollback(o, run[o])
         /\ OnHolds => OnRollback(o, run[o])
<1>1. run[o].kind = "instant" /\ run[o].at = at /\ run[o].new \in Slots /\ run[o].old \in Slots
  BY RollbackHas
<1>2. o \in Holders
  BY <1>1, OtherSlot DEF Holders, Active
<1> QED
  BY <1>1, <1>2, Hold DEF SlotInv, Clean, Kept, On, OnHolds

\* The run that has the slots goes on with them.
GoesOn(o) ==
  /\ run'[o].kind = run[o].kind /\ run'[o].new # None /\ run'[o].at \notin {"new", "over", "dead"}
  /\ \A p \in Runs \ {o} : run'[p] = run[p]
  /\ sweep' = sweep

LEMMA DeployGoesOn ==
  ASSUME OneHolder, NEW o \in Holders, GoesOn(o), run[o].kind = "deploy",
         troubles' = {} => CleanDeploy(o, run[o])',
         troubles' \subseteq {"write", "read"} => KeptDeploy(o, run[o])',
         OnHolds' => OnDeploy(o, run[o])'
  PROVE  SlotInv'
<1>1. Holders = {o} /\ sweep = None /\ o \in Runs
  BY DEF OneHolder, Holders, Active
<1>2. Holders' = {o} /\ sweep' = None
  BY <1>1 DEF GoesOn, Holders, Active
<1>3. run'[o].kind = "deploy"
  BY DEF GoesOn
<1> QED
  BY <1>2, <1>3 DEF SlotInv, OneHolder, Clean, Kept, On, OnHolds

LEMMA RollbackGoesOn ==
  ASSUME OneHolder, NEW o \in Holders, GoesOn(o), run[o].kind = "instant",
         troubles' = {} => CleanRollback(o, run[o])',
         troubles' \subseteq {"write", "read"} => KeptRollback(o, run[o])',
         OnHolds' => OnRollback(o, run[o])'
  PROVE  SlotInv'
<1>1. Holders = {o} /\ sweep = None /\ o \in Runs
  BY DEF OneHolder, Holders, Active
<1>2. Holders' = {o} /\ sweep' = None
  BY <1>1 DEF GoesOn, Holders, Active
<1>3. run'[o].kind = "instant"
  BY DEF GoesOn
<1> QED
  BY <1>2, <1>3 DEF SlotInv, OneHolder, Clean, Kept, On, OnHolds

\* It ends.
LEMMA HoldEnds ==
  ASSUME OneHolder, NEW o \in Holders, NEW at \in {"over", "dead"}, Moved(o, at), sweep' = sweep,
         troubles' = {} => CleanRest', troubles' \subseteq {"write", "read"} => KeptRest', OnHolds' => OnRest'
  PROVE  SlotInv'
<1>1. Holders = {o} /\ sweep = None /\ o \in Runs
  BY DEF OneHolder, Holders, Active
<1>2. Holders' = {} /\ sweep' = None
  BY <1>1 DEF Moved, Holders, Active
<1> QED
  BY <1>2 DEF SlotInv, OneHolder, Clean, Kept, On, OnHolds

\* Without a crash the first trouble is the only one, if there may be one.
LEMMA FirstTrouble ==
  ASSUME SlotAssumption, SlotBase, NEW kind, Trouble(kind)
  PROVE  /\ troubles' = troubles \cup {kind} /\ troubles' # {}
         /\ MaxTroubles <= 1 /\ "crash" \notin troubles' => troubles = {} /\ troubles' = {kind}
<1>1. IsFiniteSet(TroubleKinds)
  <2>1. IsFiniteSet({})
    BY FS_EmptySet
  <2>2. TroubleKinds = {} \cup {"docker"} \cup {"write"} \cup {"read"} \cup {"stall"} \cup {"death"} \cup {"daemon"} \cup {"crash"}
    BY DEF TroubleKinds
  <2> QED
    BY <2>1, <2>2, FS_AddElement
<1> DEFINE others == troubles \ {"crash"}
<1>2. IsFiniteSet(others)
  BY <1>1, FS_Subset DEF SlotBase, SlotTyped
<1>3. Cardinality(others) \in Nat /\ (Cardinality(others) = 0 <=> others = {})
  BY <1>2, FS_CardinalityType, FS_EmptySet
<1>4. troubles' = troubles \cup {kind} /\ (kind # "crash" => Cardinality(others) < MaxTroubles)
  BY DEF Trouble
<1>5. ASSUME MaxTroubles <= 1, "crash" \notin troubles'
      PROVE  troubles = {}
  <2> HIDE DEF others
  <2>1. others = {}
    BY <1>3, <1>4, <1>5 DEF SlotAssumption
  <2> QED
    BY <1>4, <1>5, <2>1 DEF others
<1> QED
  BY <1>4, <1>5

-------------------------------------------------------------------------------
(* Whose row holds the scope.                                              *)

\* A claimed run has the row as long as nothing stalls.
Owns == "stall" \notin troubles => \A o \in Runs : run[o].at = "claimed" => row = o

\* A step of a run that was claimed leaves the rows of others alone.
Steps(o) ==
  /\ \A p \in Runs \ {o} : run'[p] = run[p]
  /\ run'[o].at # "claimed" /\ (row' = row \/ row = o \/ row = 0) /\ troubles \subseteq troubles'

LEMMA StepsOwn ==
  ASSUME SlotBase, Owns, NEW o \in Runs, Steps(o)
  PROVE  Owns'
BY DEF SlotBase, SlotTyped, Owns, Steps, Runs

LEMMA SetAt ==
  ASSUME SlotBase, NEW o \in Runs, NEW at \in Ats, at # "claimed", Go(o, at), FreeRow(o) \/ row' = row \/ row = 0,
         troubles \subseteq troubles'
  PROVE  Steps(o)
BY GoEffect DEF SlotBase, Steps, FreeRow, Moved

LEMMA DeploySteps ==
  ASSUME SlotBase, NEW o \in Runs, DeployStep(o)
  PROVE  Steps(o)
<1>1. CASE PickSlot(o)
  BY <1>1 DEF PickSlot, Steps, Quit, Go, FreeRow, SlotBase, SlotTyped, RunRow
<1>2. CASE ClearNewSlot(o)
  BY <1>2, SetAt DEF ClearNewSlot, Ats, Quit, Succeed, Fine, Trouble
<1>3. CASE LeaveEarly(o)
  BY <1>3, SetAt DEF LeaveEarly, Ats, Quit, Succeed, Fine, Trouble
<1>4. CASE PassFence(o)
  BY <1>4, SetAt DEF PassFence, Ats, Quit, Succeed, Fine, Trouble
<1>5. CASE MakeWay(o)
  BY <1>5 DEF MakeWay, Steps, Go, SlotBase, SlotTyped, RunRow, Fine, Trouble
<1>6. CASE ComposeUp(o)
  BY <1>6, SetAt DEF ComposeUp, Ats, Quit, Succeed, Fine, Trouble
<1>7. CASE CheckAbort(o)
  BY <1>7, SetAt DEF CheckAbort, Ats, Quit, Succeed, Fine, Trouble
<1>8. CASE GiveUp(o)
  BY <1>8, SetAt DEF GiveUp, Ats, Quit, Succeed, Fine, Trouble
<1>9. CASE BecomeHealthy(o)
  BY <1>9, SetAt DEF BecomeHealthy, Ats, Quit, Succeed, Fine, Trouble
<1>10. CASE FailBeforeCommit(o)
  BY <1>10, SetAt DEF FailBeforeCommit, Ats, Quit, Succeed, Fine, Trouble
<1>11. CASE Commit(o)
  BY <1>11, SetAt DEF Commit, Ats, Quit, Succeed, Fine, Trouble
<1>12. CASE CommitRefused(o)
  BY <1>12, SetAt DEF CommitRefused, Ats, Quit, Succeed, Fine, Trouble
<1>13. CASE PointCurrent(o)
  BY <1>13, SetAt DEF PointCurrent, Ats, Quit, Succeed, Fine, Trouble
<1>14. CASE FailAfterCommit(o)
  BY <1>14, SetAt DEF FailAfterCommit, Ats, Quit, Succeed, Fine, Trouble
<1>15. CASE PinNewSlot(o)
  BY <1>15, SetAt DEF PinNewSlot, Ats, Quit, Succeed, Fine, Trouble
<1>16. CASE StopOldSlot(o)
  BY <1>16, SetAt DEF StopOldSlot, Ats, Quit, Succeed, Fine, Trouble
<1>17. CASE Unpin(o)
  BY <1>17, SetAt DEF Unpin, Ats, Quit, Succeed, Fine, Trouble
<1> QED
  BY <1>1, <1>2, <1>3, <1>4, <1>5, <1>6, <1>7, <1>8, <1>9, <1>10, <1>11, <1>12, <1>13, <1>14, <1>15, <1>16, <1>17 DEF DeployStep

LEMMA RollbackSteps ==
  ASSUME SlotBase, NEW o \in Runs, RollbackStep(o)
  PROVE  Steps(o)
<1>1. CASE RollbackPick(o)
  BY <1>1 DEF RollbackPick, Steps, Quit, Go, FreeRow, SlotBase, SlotTyped, RunRow
<1>2. CASE RollbackMakeWay(o)
  BY <1>2, SetAt DEF RollbackMakeWay, Ats, Quit, Succeed, Fine, Trouble
<1>3. CASE RollbackStart(o)
  BY <1>3, SetAt DEF RollbackStart, Ats, Quit, Succeed, Fine, Trouble
<1>4. CASE RollbackProbe(o)
  BY <1>4, SetAt DEF RollbackProbe, Ats, Quit, Succeed, Fine, Trouble
<1>5. CASE RollbackStop(o)
  BY <1>5, SetAt DEF RollbackStop, Ats, Quit, Succeed, Fine, Trouble
<1>6. CASE RollbackPoint(o)
  BY <1>6, SetAt DEF RollbackPoint, Ats, Quit, Succeed, Fine, Trouble
<1>7. CASE RollbackDone(o)
  BY <1>7, SetAt DEF RollbackDone, Ats, Quit, Succeed, Fine, Trouble
<1> QED
  BY <1>1, <1>2, <1>3, <1>4, <1>5, <1>6, <1>7 DEF RollbackStep

LEMMA WatchSteps ==
  ASSUME SlotBase, NEW o \in Runs, WatchTake(o) \/ WatchRestore(o) \/ WatchPoint(o) \/ WatchVerify(o)
  PROVE  Steps(o)
<1>1. CASE WatchTake(o)
  BY <1>1, SetAt DEF WatchTake, Ats, Quit, Succeed, Fine, Trouble
<1>2. CASE WatchRestore(o)
  BY <1>2, SetAt DEF WatchRestore, Ats, Quit, Succeed, Fine, Trouble
<1>3. CASE WatchPoint(o)
  BY <1>3, SetAt DEF WatchPoint, Ats, Quit, Succeed, Fine, Trouble
<1>4. CASE WatchVerify(o)
  BY <1>4, SetAt DEF WatchVerify, Ats, Quit, Succeed, Fine, Trouble
<1> QED
  BY <1>1, <1>2, <1>3, <1>4

LEMMA OwnsStep ==
  ASSUME SlotBase, Owns, [Next]_vars
  PROVE  Owns'
<1>1. CASE UNCHANGED vars
  BY <1>1 DEF vars, Owns
<1>2. ASSUME NEW o \in Runs, DeployStep(o) \/ RollbackStep(o) \/ WatchStep(o) PROVE Owns'
  BY <1>2, DeploySteps, RollbackSteps, WatchSteps, StepsOwn DEF WatchStep
<1>3. ASSUME NEW o \in Runs, NEW kind, Takes(o, kind) PROVE Owns'
  BY <1>3 DEF Takes, Owns, SlotBase, SlotTyped, Runs, RunRow
<1>4. ASSUME NEW o \in Runs, WatchLook(o) PROVE Owns'
  BY <1>4 DEF WatchLook, Owns, SlotBase, SlotTyped
<1>5. ASSUME NEW o \in Runs, Abort(o) PROVE Owns'
  BY <1>5 DEF Abort, Owns
<1>6. ASSUME NEW o \in Runs, CloseElsewhere(o) PROVE Owns'
  BY <1>6 DEF CloseElsewhere, Owns, Trouble, Fine
<1>7. ASSUME NEW o \in Runs, Die(o) PROVE Owns'
  <2>1. Steps(o)
    BY <1>7, SetAt DEF Die, Ats, Trouble
  <2> QED
    BY <2>1, StepsOwn
<1>8. CASE SweepLook \/ SweepStop \/ Fall
  BY <1>8 DEF SweepLook, SweepStop, Fall, Owns, Fine, Trouble
<1>9. CASE DaemonRestart
  BY <1>9, RestartEffect DEF DaemonRestart, Owns, Trouble, Active
<1> QED
  BY <1>1, <1>2, <1>3, <1>4, <1>5, <1>6, <1>7, <1>8, <1>9, Zenon DEF Next, StartDeploy, StartRollback

-------------------------------------------------------------------------------
(* A deploy picks its slots.                                               *)

\* A run takes the slots.
LEMMA TakesSlots ==
  ASSUME Holders = {}, sweep = None, NEW o \in Runs, sweep' = sweep,
         \A p \in Runs \ {o} : run'[p] = run[p],
         troubles' = {} => \/ run'[o].kind = "deploy"  /\ CleanDeploy(o, run[o])'
                           \/ run'[o].kind = "instant" /\ CleanRollback(o, run[o])',
         troubles' \subseteq {"write", "read"} => \/ run'[o].kind = "deploy"  /\ KeptDeploy(o, run[o])'
                                                  \/ run'[o].kind = "instant" /\ KeptRollback(o, run[o])',
         OnHolds' => \/ run'[o].kind = "deploy"  /\ OnDeploy(o, run[o])'
                     \/ run'[o].kind = "instant" /\ OnRollback(o, run[o])',
         run'[o].new # None, run'[o].at \notin {"new", "over", "dead"}
  PROVE  SlotInv'
<1>1. Holders' = {o} /\ sweep' = None
  BY DEF Holders, Active
<1> QED
  BY <1>1 DEF SlotInv, OneHolder, Clean, Kept, On, OnHolds

LEMMA PickSlotKeeps ==
  ASSUME SlotAssumption, Prompt, SlotBase, SlotInv, Owns, NEW o \in Runs, PickSlot(o)
  PROVE  SlotInv'
<1> DEFINE a == ActiveSlot
<1>1. /\ Holders = {} /\ sweep = None /\ sweep' = sweep /\ run[o].at = "claimed" /\ run[o].kind = "deploy"
      /\ slots' = slots /\ overlap' = overlap /\ current' = current /\ pin' = pin /\ row' = row
      /\ troubles' = troubles /\ record' = record
  BY DEF PickSlot, Free, Same, Unrecorded, Deploys, At
<1>2. a \in Slots \cup {None} /\ Other(a) \in Slots /\ a # Other(a)
  BY ActiveSlotType, OtherSlot
<1>3. run[o] \in RunRow /\ run \in [Runs -> RunRow] /\ ~run[o].stopped /\ run[o].new = None
  BY <1>1, TypesOf DEF SlotBase, SlotTyped, Shaped
<1>4. run' = [run EXCEPT ![o] = [run[o] EXCEPT !.at = "picked", !.old = a, !.new = Other(a)]]
  BY <1>3 DEF PickSlot
<1>5. a = IF current # None THEN IF ~Up(current) /\ Up(Other(current)) THEN Other(current) ELSE current
          ELSE IF Up("blue") THEN "blue" ELSE IF Up("green") THEN "green" ELSE None
  BY DEF ActiveSlot
<1> HIDE DEF a
<1>6. /\ run'[o].at = "picked" /\ run'[o].kind = "deploy" /\ ~run'[o].stopped
      /\ run'[o].old = a /\ run'[o].new = Other(a) /\ \A p \in Runs \ {o} : run'[p] = run[p]
  BY <1>1, <1>2, <1>3, <1>4 DEF RunRow
<1>7. slots \in [Slots -> SlotRow] /\ current \in Slots \cup {None} /\ (record.op # 0 => record.slot \in Slots)
  BY TypesOf DEF SlotBase
<1>8. ASSUME troubles = {} PROVE CleanDeploy(o, run[o])'
  <2>1. CleanRest /\ row = o
    BY <1>1, <1>8 DEF SlotInv, Clean, Owns
  <2>2. IF record.op = 0 THEN a = None /\ ~Up(Other(a)) ELSE a = record.slot
    BY <1>5, <1>2, <2>1, <1>7 DEF CleanRest, Stands, Serves, Up, Slots, None, Other
  <2> QED
    BY <1>1, <1>2, <1>6, <1>7, <2>1, <2>2, OtherSlot DEF CleanDeploy, CleanOld, OldRuns, CleanRest, Stands, Serves, Up
<1>9. ASSUME troubles \subseteq {"write", "read"} PROVE KeptDeploy(o, run[o])'
  <2>1. KeptRest /\ row = o
    BY <1>1, <1>9 DEF SlotInv, Kept, Owns
  <2>2. (a = None => current = None /\ record.op = 0 /\ ~Up("blue") /\ ~Up("green")) /\ (a # None => Up(a))
    BY <1>5, <1>2, <2>1, <1>7 DEF KeptRest, Up, Slots, None, Other
  <2>3. (\A s \in Slots : ~Up(s)) \/ a # None
    BY <2>2 DEF Slots
  <2>4. KeptOld(run[o], run[o].stopped)'
    BY <1>1, <1>2, <1>6, <1>7, <2>1, <2>2, <2>3, OtherSlot DEF KeptOld, KeptRest, Sound, Up
  <2>5. KeptRest'
    BY <1>1, <2>1 DEF KeptRest, Sound, Up
  <2> QED
    BY <1>1, <1>6, <2>1, <2>4, <2>5 DEF KeptDeploy
<1>10. ASSUME OnHolds PROVE OnDeploy(o, run[o])'
  <2>1. OnRest
    BY <1>1, <1>10 DEF SlotInv, On, OnHolds
  <2>2. OnRest'
    BY <1>1, <2>1 DEF OnRest, Sound, Up, ActiveSlot, Dirty
  <2>3. a = None => current = None /\ ~Up("blue") /\ ~Up("green")
    BY <1>5, OtherSlot, <1>7 DEF Slots, None
  <2>4. OnOld(run[o])'
    BY <1>1, <1>2, <1>6, <2>1, <2>3, OtherSlot DEF OnOld, OnRest, Sound, Up, Dirty, a, Slots
  <2> QED
    BY <1>6, <2>2, <2>4 DEF OnDeploy
<1> QED
  BY <1>1, <1>6, <1>8, <1>9, <1>10, <1>2, OtherSlot, TakesSlots DEF OnHolds

-------------------------------------------------------------------------------
(* A deploy up to its fence.                                               *)

LEMMA ClearNewSlotKeeps ==
  ASSUME SlotAssumption, SlotBase, SlotInv, NEW o \in Runs, ClearNewSlot(o)
  PROVE  SlotInv'
<1>1. /\ o \in Holders /\ Holding(o) /\ run[o].kind = "deploy" /\ run[o].at = "picked"
      /\ troubles = {} => CleanDeploy(o, run[o])
      /\ troubles \subseteq {"write", "read"} => KeptDeploy(o, run[o])
      /\ OnHolds => OnDeploy(o, run[o])
  BY DeployHold DEF ClearNewSlot
<1>2. /\ Moved(o, "cleared") /\ sweep' = sweep /\ overlap' = overlap /\ current' = current /\ pin' = None
      /\ row' = row /\ troubles' = troubles /\ record' = record
  BY GoEffect DEF ClearNewSlot, Same, Unrecorded, Ats, SlotBase
<1>3. /\ slots' \in [Slots -> SlotRow] /\ slots'[run[o].new] = NoContainers
      /\ slots'[Other(run[o].new)] = slots[Other(run[o].new)]
  BY <1>1, WithEffect, FreshForms DEF ClearNewSlot, Holding, SlotBase
<1>4. ASSUME troubles = {} PROVE CleanDeploy(o, run[o])'
  BY <1>1, <1>2, <1>3, <1>4, FreshForms DEF CleanDeploy, CleanOld, OldRuns, Stands, Serves, Up, Holding, Moved
<1>5. ASSUME troubles \subseteq {"write", "read"} PROVE KeptDeploy(o, run[o])'
  BY <1>1, <1>2, <1>3, <1>5, FreshForms DEF KeptDeploy, KeptOld, Up, Holding, Moved
<1>6. ASSUME OnHolds PROVE OnDeploy(o, run[o])'
  BY <1>1, <1>2, <1>3, <1>6, FreshForms DEF OnDeploy, OnOld, Dirty, Up, Holding, Moved
<1> QED
  BY <1>1, <1>2, <1>4, <1>5, <1>6, OtherSlot, DeployGoesOn DEF OnHolds, SlotInv, GoesOn, Moved, Holding

LEMMA PassFenceKeeps ==
  ASSUME SlotAssumption, SlotBase, SlotInv, NEW o \in Runs, PassFence(o)
  PROVE  SlotInv'
<1>1. /\ o \in Holders /\ Holding(o) /\ run[o].kind = "deploy" /\ run[o].at = "cleared"
      /\ troubles = {} => CleanDeploy(o, run[o])
      /\ troubles \subseteq {"write", "read"} => KeptDeploy(o, run[o])
      /\ OnHolds => OnDeploy(o, run[o])
  BY DeployHold DEF PassFence
<1>2. /\ Moved(o, "fenced") /\ sweep' = sweep /\ overlap' = overlap /\ current' = current /\ pin' = pin
      /\ row' = row /\ troubles' = troubles /\ record' = record /\ slots' = slots
  BY GoEffect DEF PassFence, Same, Unrecorded, Ats, SlotBase
<1>4. ASSUME troubles = {} PROVE CleanDeploy(o, run[o])'
  BY <1>1, <1>2, <1>4 DEF CleanDeploy, CleanOld, OldRuns, Stands, Serves, Up, Holding, Moved
<1>5. ASSUME troubles \subseteq {"write", "read"} PROVE KeptDeploy(o, run[o])'
  BY <1>1, <1>2, <1>5 DEF KeptDeploy, KeptOld, Up, Holding, Moved
<1>6. ASSUME OnHolds PROVE OnDeploy(o, run[o])'
  BY <1>1, <1>2, <1>6 DEF OnDeploy, OnOld, Dirty, Up, Holding, Moved
<1> QED
  BY <1>1, <1>2, <1>4, <1>5, <1>6, OtherSlot, DeployGoesOn DEF OnHolds, SlotInv, GoesOn, Moved, Holding

-------------------------------------------------------------------------------
(* A deploy up to its health check.                                        *)

LEMMA MakeWayKeeps ==
  ASSUME SlotAssumption, SlotBase, SlotInv, NEW o \in Runs, MakeWay(o)
  PROVE  SlotInv'
<1> DEFINE old == run[o].old
<1>1. /\ o \in Holders /\ Holding(o) /\ run[o].kind = "deploy" /\ run[o].at = "fenced"
      /\ troubles = {} => CleanDeploy(o, run[o])
      /\ troubles \subseteq {"write", "read"} => KeptDeploy(o, run[o])
      /\ OnHolds => OnDeploy(o, run[o])
  BY DeployHold DEF MakeWay
<1>2. /\ sweep' = sweep /\ overlap' = overlap /\ current' = current /\ row' = row /\ record' = record
  BY DEF MakeWay, Same, Unrecorded
<1>3. CASE overlap \/ old = None
  <2>1. Moved(o, "clear") /\ troubles' = troubles /\ slots' = slots /\ pin' \in {old, None}
    BY <1>3, GoEffect DEF MakeWay, Ats, SlotBase, Fine
  <2>2. ASSUME troubles = {} PROVE CleanDeploy(o, run[o])'
    BY <1>1, <1>2, <1>3, <2>1, <2>2 DEF CleanDeploy, CleanOld, OldRuns, Stands, Serves, Up, Holding, Moved
  <2>3. ASSUME troubles \subseteq {"write", "read"} PROVE KeptDeploy(o, run[o])'
    BY <1>1, <1>2, <2>1, <2>3 DEF KeptDeploy, KeptOld, Up, Holding, Moved
  <2>4. ASSUME OnHolds PROVE OnDeploy(o, run[o])'
    BY <1>1, <1>2, <2>1, <2>4 DEF OnDeploy, OnOld, Dirty, Up, Holding, Moved
  <2> QED
    BY <1>1, <1>2, <2>1, <2>2, <2>3, <2>4, OtherSlot, DeployGoesOn DEF OnHolds, SlotInv, GoesOn, Moved, Holding
<1>4. CASE ~(overlap \/ old = None)
  <2>1. /\ run' = [run EXCEPT ![o].at = "clear", ![o].stopped = TRUE] /\ pin' = pin
        /\ \/ With(old, Demoted(old)) /\ Fine
           \/ With(old, Pinned(old)) /\ Trouble("docker")
    BY <1>4 DEF MakeWay
  <2>2. /\ run'[o].at = "clear" /\ run'[o].kind = "deploy" /\ run'[o].old = old /\ run'[o].new = run[o].new
        /\ run'[o].stopped /\ \A p \in Runs \ {o} : run'[p] = run[p]
    <3>1. run' = [run EXCEPT ![o] = [run[o] EXCEPT !.at = "clear", !.stopped = TRUE]]
      BY <2>1
    <3> QED
      BY <1>1, <3>1 DEF Holding, RunRow, SlotBase, SlotTyped
  <2>3. ASSUME With(old, Demoted(old)), Fine PROVE SlotInv'
    <3>1. /\ slots' \in [Slots -> SlotRow] /\ slots'[old].state # "up" /\ slots'[old].ok = slots[old].ok
          /\ slots'[old].by = slots[old].by /\ slots'[run[o].new] = slots[run[o].new]
          /\ troubles' = troubles /\ old \in Slots
      BY <1>1, <1>4, <2>3, WithEffect, SlotForms, OtherSlot DEF Holding, SlotBase, Fine
    <3>2. ASSUME troubles = {} PROVE CleanDeploy(o, run[o])'
      <4>1. slots[old].state = "up"
        BY <1>1, <1>4, <3>2 DEF CleanDeploy, CleanOld, OldRuns, Up
      <4>2. slots'[old].state = "down"
        <5>1. Demoted(old) \in SlotRow /\ Demoted(old).state = "down"
          BY <3>1, <4>1, SlotForms DEF SlotBase
        <5> QED
          BY <2>3, <3>1, <5>1, WithEffect DEF SlotBase
      <4> QED
        BY <1>1, <1>2, <1>4, <2>1, <2>2, <3>1, <3>2, <4>2 DEF CleanDeploy, CleanOld, OldRuns, Stands, Serves, Up, Holding
    <3>3. ASSUME troubles \subseteq {"write", "read"} PROVE KeptDeploy(o, run[o])'
      BY <1>1, <1>2, <1>4, <2>1, <2>2, <3>1, <3>3 DEF KeptDeploy, KeptOld, Up, Holding
    <3> QED
      BY <1>1, <1>2, <1>4, <2>2, <3>1, <3>2, <3>3, OtherSlot, DeployGoesOn DEF OnHolds, SlotInv, GoesOn, Holding
  <2>4. ASSUME Trouble("docker") PROVE SlotInv'
    <3>1. "docker" \in troubles'
      BY <2>4 DEF Trouble
    <3> QED
      BY <1>1, <1>2, <1>4, <2>2, <3>1, OtherSlot, DeployGoesOn DEF OnHolds, SlotInv, GoesOn, Holding
  <2> QED
    BY <2>1, <2>3, <2>4
<1> QED
  BY <1>3, <1>4

LEMMA ComposeUpKeeps ==
  ASSUME SlotAssumption, SlotBase, SlotInv, NEW o \in Runs, ComposeUp(o)
  PROVE  SlotInv'
<1>1. /\ o \in Holders /\ Holding(o) /\ run[o].kind = "deploy" /\ run[o].at = "clear"
      /\ troubles = {} => CleanDeploy(o, run[o])
      /\ troubles \subseteq {"write", "read"} => KeptDeploy(o, run[o])
      /\ OnHolds => OnDeploy(o, run[o])
  BY DeployHold DEF ComposeUp
<1>2. /\ Moved(o, "started") /\ sweep' = sweep /\ overlap' = overlap /\ current' = current /\ pin' = pin
      /\ row' = row /\ troubles' = troubles /\ record' = record
  BY GoEffect DEF ComposeUp, Same, Unrecorded, Ats, SlotBase
<1>3. /\ slots' \in [Slots -> SlotRow] /\ slots'[run[o].new] = Fresh(o)
      /\ slots'[Other(run[o].new)] = slots[Other(run[o].new)]
  BY <1>1, WithEffect, FreshForms DEF ComposeUp, Holding, SlotBase
<1>4. ASSUME troubles = {} PROVE CleanDeploy(o, run[o])'
  BY <1>1, <1>2, <1>3, <1>4, FreshForms DEF CleanDeploy, CleanOld, OldRuns, Stands, Serves, Up, Holding, Moved
<1>5. ASSUME troubles \subseteq {"write", "read"} PROVE KeptDeploy(o, run[o])'
  BY <1>1, <1>2, <1>3, <1>5, FreshForms DEF KeptDeploy, KeptOld, Up, Holding, Moved
<1>6. ASSUME OnHolds PROVE OnDeploy(o, run[o])'
  BY <1>1, <1>2, <1>3, <1>6, FreshForms DEF OnDeploy, OnOld, Dirty, Up, Holding, Moved
<1> QED
  BY <1>1, <1>2, <1>4, <1>5, <1>6, OtherSlot, DeployGoesOn DEF OnHolds, SlotInv, GoesOn, Moved, Holding

LEMMA CheckAbortKeeps ==
  ASSUME SlotAssumption, SlotBase, SlotInv, NEW o \in Runs, CheckAbort(o)
  PROVE  SlotInv'
<1>1. /\ o \in Holders /\ Holding(o) /\ run[o].kind = "deploy" /\ run[o].at = "started"
      /\ troubles = {} => CleanDeploy(o, run[o])
      /\ troubles \subseteq {"write", "read"} => KeptDeploy(o, run[o])
      /\ OnHolds => OnDeploy(o, run[o])
  BY DeployHold DEF CheckAbort
<1>2. /\ Moved(o, "probing") /\ sweep' = sweep /\ overlap' = overlap /\ current' = current /\ pin' = pin
      /\ row' = row /\ troubles' = troubles /\ record' = record /\ slots' = slots
  BY GoEffect DEF CheckAbort, Same, Unrecorded, Ats, SlotBase
<1>4. ASSUME troubles = {} PROVE CleanDeploy(o, run[o])'
  BY <1>1, <1>2, <1>4 DEF CleanDeploy, CleanOld, OldRuns, Stands, Serves, Up, Holding, Moved
<1>5. ASSUME troubles \subseteq {"write", "read"} PROVE KeptDeploy(o, run[o])'
  BY <1>1, <1>2, <1>5 DEF KeptDeploy, KeptOld, Up, Holding, Moved
<1>6. ASSUME OnHolds PROVE OnDeploy(o, run[o])'
  BY <1>1, <1>2, <1>6 DEF OnDeploy, OnOld, Dirty, Up, Holding, Moved
<1> QED
  BY <1>1, <1>2, <1>4, <1>5, <1>6, OtherSlot, DeployGoesOn DEF OnHolds, SlotInv, GoesOn, Moved, Holding

LEMMA BecomeHealthyKeeps ==
  ASSUME SlotAssumption, SlotBase, SlotInv, NEW o \in Runs, BecomeHealthy(o)
  PROVE  SlotInv'
<1>1. /\ o \in Holders /\ Holding(o) /\ run[o].kind = "deploy" /\ run[o].at = "probing"
      /\ troubles = {} => CleanDeploy(o, run[o])
      /\ troubles \subseteq {"write", "read"} => KeptDeploy(o, run[o])
      /\ OnHolds => OnDeploy(o, run[o])
  BY DeployHold DEF BecomeHealthy
<1>2. /\ Moved(o, "healthy") /\ sweep' = sweep /\ overlap' = overlap /\ current' = current /\ pin' = pin
      /\ row' = row /\ record' = record
  BY GoEffect DEF BecomeHealthy, Same, Unrecorded, Ats, SlotBase
<1>a. /\ troubles \subseteq troubles' /\ (OnHolds' => troubles = {} \/ troubles' = troubles)
      /\ (troubles' = {} => troubles = {}) /\ (row = o \/ "read" \in troubles')
      /\ troubles' = troubles \/ troubles' = troubles \cup {"read"}
  BY FirstTrouble DEF BecomeHealthy, Fine, OnHolds
<1>3. /\ slots' \in [Slots -> SlotRow] /\ slots'[run[o].new].ok /\ slots'[run[o].new].state = "up"
      /\ slots'[run[o].new].keep = slots[run[o].new].keep /\ slots'[run[o].new].by = slots[run[o].new].by
      /\ slots'[Other(run[o].new)] = slots[Other(run[o].new)]
  <2>1. \A z \in SlotRow : LET y == [z EXCEPT !.ok = TRUE]
                           IN y \in SlotRow /\ y.ok /\ y.state = z.state /\ y.keep = z.keep /\ y.by = z.by
    BY DEF SlotRow
  <2> DEFINE y == [slots[run[o].new] EXCEPT !.ok = TRUE]
  <2>2. y \in SlotRow /\ y.ok /\ y.state = "up" /\ y.keep = slots[run[o].new].keep /\ y.by = slots[run[o].new].by
    BY <1>1, <2>1 DEF Holding, BecomeHealthy, Up
  <2>3. With(run[o].new, y)
    BY DEF BecomeHealthy
  <2> HIDE DEF y
  <2> QED
    BY <1>1, <2>2, <2>3, WithEffect DEF Holding, SlotBase
<1>4. ASSUME troubles' = {} PROVE CleanDeploy(o, run[o])'
  BY <1>1, <1>2, <1>3, <1>4, <1>a DEF CleanDeploy, CleanOld, OldRuns, Stands, Serves, Up, Holding, Moved
<1>5. ASSUME troubles' \subseteq {"write", "read"} PROVE KeptDeploy(o, run[o])'
  <2>1. KeptDeploy(o, run[o])
    BY <1>1, <1>5, <1>a
  <2>2. \A s \in Slots : s = run[o].new \/ s = Other(run[o].new)
    BY <1>1, TwoSlots DEF Holding
  <2>3. run[o].old = None => ~Up(Other(run[o].new))
    BY <1>1, <2>1 DEF KeptDeploy, KeptOld, Holding
  <2>4. Sound'
    BY <1>1, <1>3, <2>1, <2>2, <2>3 DEF Sound, Up, KeptDeploy, KeptOld, Holding
  <2> QED
    BY <1>1, <1>2, <1>3, <2>1, <2>4 DEF KeptDeploy, KeptOld, Up, Serves, Holding, Moved
<1>6. ASSUME OnHolds' PROVE OnDeploy(o, run[o])'
  <2>1. OnDeploy(o, run[o])
    BY <1>1, <1>2, <1>6, <1>a DEF OnHolds
  <2>2. \A s \in Slots : s = run[o].new \/ s = Other(run[o].new)
    BY <1>1, TwoSlots DEF Holding
  <2>3. OnNew(run[o])'
    BY <1>1, <1>2, <1>3, <1>a, <2>1, <2>2 DEF Sound, Up, OnDeploy, OnOld, OnNew, Holding, Moved, Serves, Dirty
  <2>4. OnOld(run[o])'
    BY <1>1, <1>2, <1>3, <1>a, <2>1 DEF Up, OnDeploy, OnOld, Holding, Moved, Dirty
  <2> QED
    BY <1>1, <1>2, <1>3, <2>1, <2>3, <2>4 DEF OnDeploy, Up, Holding, Moved
<1> QED
  BY <1>1, <1>2, <1>4, <1>5, <1>6, OtherSlot, DeployGoesOn DEF SlotInv, GoesOn, Moved, Holding

-------------------------------------------------------------------------------
(* Steps that leave the slots as they are.                                 *)

\* A step of a run that has no slots, before and after, and touches none.
Beside(o) ==
  /\ o \notin Holders /\ (run'[o].new = None \/ run'[o].at \in {"new", "over", "dead"})
  /\ \A p \in Runs \ {o} : run'[p] = run[p]
  /\ overlap' = overlap /\ slots' = slots /\ current' = current /\ pin' = pin /\ record' = record
  /\ sweep' = sweep /\ (row \in Runs \ {o} => row' = row)

LEMMA SameRest ==
  ASSUME slots' = slots, current' = current, pin' = pin, record' = record, overlap' = overlap
  PROVE  /\ CleanRest' = CleanRest /\ KeptRest' = KeptRest
         /\ troubles' = troubles => OnRest' = OnRest
BY DEF CleanRest, Stands, Serves, Up, KeptRest, Sound, OnRest, ActiveSlot, Dirty

\* Who has the slots is the same, and what is known of them is.
LEMMA SameKeeps ==
  ASSUME SlotInv, Holders' = Holders, \A q \in Holders : run'[q] = run[q] /\ (row = q => row' = q),
         overlap' = overlap, slots' = slots, current' = current, pin' = pin, record' = record,
         sweep' = sweep, troubles' = troubles
  PROVE  SlotInv'
<1>4. OneHolder'
  BY DEF SlotInv, OneHolder
<1>5. Clean'
  <2>1. ASSUME NEW q \in Holders, CleanDeploy(q, run[q]) PROVE CleanDeploy(q, run[q])'
    BY <2>1 DEF CleanDeploy, CleanOld, OldRuns, Stands, Serves, Up
  <2>2. ASSUME NEW q \in Holders, CleanRollback(q, run[q]) PROVE CleanRollback(q, run[q])'
    BY <2>2 DEF CleanRollback, CleanOld, OldRuns, Stands, Serves, Up
  <2> QED
    BY <2>1, <2>2, SameRest DEF Clean, SlotInv
<1>6. Kept'
  <2>1. ASSUME NEW q \in Holders, KeptDeploy(q, run[q]) PROVE KeptDeploy(q, run[q])'
    BY <2>1 DEF KeptDeploy, KeptOld, KeptRest, Sound, Serves, Up
  <2>2. ASSUME NEW q \in Holders, KeptRollback(q, run[q]) PROVE KeptRollback(q, run[q])'
    BY <2>2 DEF KeptRollback, KeptOld, Sound, Serves, Up
  <2>3. Up(current)' = Up(current)
    BY DEF Up
  <2> QED
    BY <2>1, <2>2, <2>3, SameRest DEF Kept, SlotInv
<1>7. On'
  <2>0. Dirty' = Dirty /\ OnRest' = OnRest /\ Up(current)' = Up(current)
    BY SameRest DEF Dirty, Up
  <2>1. ASSUME NEW q \in Holders, OnDeploy(q, run[q]) PROVE OnDeploy(q, run[q])'
    BY <2>0, <2>1 DEF OnDeploy, OnOld, OnNew, Sound, Serves, Up
  <2>2. ASSUME NEW q \in Holders, OnRollback(q, run[q]) PROVE OnRollback(q, run[q])'
    BY <2>0, <2>2 DEF OnRollback, OnOld, OnNew, Sound, Serves, Up
  <2> QED
    BY <2>0, <2>1, <2>2 DEF On, SlotInv
<1> QED
  BY <1>4, <1>5, <1>6, <1>7 DEF SlotInv

LEMMA BesideKeeps ==
  ASSUME SlotInv, NEW o \in Runs, Beside(o), troubles' = troubles
  PROVE  SlotInv'
<1>1. Holders' = Holders
  BY DEF Beside, Holders, Active
<1>2. \A q \in Holders : q \in Runs /\ run'[q] = run[q] /\ (row = q => row' = q)
  BY DEF Beside, Holders, Active
<1> QED
  BY <1>1, <1>2, SameKeeps DEF Beside

LEMMA LeaveEarlyKeeps ==
  ASSUME SlotAssumption, SlotBase, SlotInv, NEW o \in Runs, LeaveEarly(o)
  PROVE  SlotInv'
<1>2. /\ Moved(o, "over") /\ sweep' = sweep /\ overlap' = overlap /\ current' = current /\ pin' = pin
      /\ FreeRow(o) /\ troubles' = troubles /\ record' = record /\ slots' = slots
  BY GoEffect DEF LeaveEarly, Same, Unrecorded, Ats, SlotBase
<1>3. CASE Deploys(o, "claimed")
  <2>1. run[o].new = None
    BY <1>3, TypesOf DEF Deploys, At, Shaped
  <2>2. Beside(o)
    BY <1>2, <2>1 DEF Beside, Moved, FreeRow, Holders
  <2> QED
    BY <1>2, <2>2, BesideKeeps
<1>4. ASSUME NEW at \in {"picked", "cleared"}, Deploys(o, at) PROVE SlotInv'
  <2>1. /\ o \in Holders /\ Holding(o) /\ run[o].kind = "deploy" /\ run[o].at = at
        /\ troubles = {} => CleanDeploy(o, run[o])
        /\ troubles \subseteq {"write", "read"} => KeptDeploy(o, run[o])
        /\ OnHolds => OnDeploy(o, run[o])
    BY <1>4, DeployHold
  <2>2. \A s \in Slots : s = run[o].new \/ s = Other(run[o].new)
    BY <2>1, TwoSlots DEF Holding
  <2>3. ASSUME troubles = {} PROVE CleanRest'
    <3>1. CleanDeploy(o, run[o])
      BY <2>1, <2>3
    <3>2. ~Up(run[o].new) /\ CleanOld(run[o]) /\ pin = None /\ ~run[o].stopped
          /\ (record.op = 0 => slots[run[o].new].state = "gone")
      BY <1>4, <2>1, <3>1 DEF CleanDeploy, Up
    <3> QED
      <4>1. CASE record.op = 0
        BY <1>2, <2>1, <2>2, <3>2, <4>1 DEF CleanOld, CleanRest, Up, Holding
      <4>2. CASE record.op # 0
        BY <1>2, <2>1, <2>2, <3>2, <4>2, OtherSlot DEF CleanOld, OldRuns, CleanRest, Stands, Serves, Up, Holding
      <4> QED
        BY <4>1, <4>2
  <2>4. ASSUME troubles \subseteq {"write", "read"} PROVE KeptRest'
    <3>1. KeptDeploy(o, run[o])
      BY <2>1, <2>4
    <3>2. KeptOld(run[o], run[o].stopped) /\ (at = "picked" => KeptRest) /\ (at = "cleared" => slots[run[o].new].state = "gone")
          /\ ~run[o].stopped
      BY <1>4, <2>1, <3>1, TypesOf DEF KeptDeploy, Shaped
    <3> QED
      BY <1>2, <1>4, <2>1, <2>2, <3>2 DEF KeptOld, KeptRest, Sound, Up, Holding
  <2>5. ASSUME OnHolds PROVE OnRest'
    <3>1. OnDeploy(o, run[o])
      BY <2>1, <2>5
    <3>2. CASE at = "picked"
      BY <1>2, <2>1, <3>1, <3>2, SameRest DEF OnDeploy
    <3>3. CASE at = "cleared"
      <4>1. OnOld(run[o]) /\ ~Up(run[o].new)
        BY <2>1, <3>1, <3>3 DEF OnDeploy, Up
      <4>2. ActiveSlot = run[o].old
        BY <2>1, <2>2, <4>1, OtherSlot DEF ActiveSlot, OnOld, Holding, Slots, None
      <4>3. OnRest
        BY <2>1, <2>2, <4>1, <4>2 DEF OnRest, OnOld, Holding, Sound
      <4> QED
        BY <1>2, <4>3, SameRest
    <3> QED
      BY <1>4, <3>2, <3>3
  <2> QED
    BY <1>2, <2>1, <2>3, <2>4, <2>5, HoldEnds DEF OnHolds, SlotInv
<1> QED
  BY <1>3, <1>4 DEF LeaveEarly

-------------------------------------------------------------------------------
(* A deploy gives up.                                                      *)

\* The slot that served serves again, or none did.
LEMMA ReturnsClean ==
  ASSUME NEW o \in Holders, Holding(o), CleanOld(run[o]), slots' \in [Slots -> SlotRow],
         slots'[run[o].new].state # "up", record.op = 0 => slots'[run[o].new].state = "gone",
         current' = current, pin' = None, record' = record,
         run[o].old = None => slots'[Other(run[o].new)] = slots[Other(run[o].new)],
         run[o].old # None => /\ slots'[run[o].old].state = "up" /\ slots'[run[o].old].keep
                              /\ slots'[run[o].old].ok = slots[run[o].old].ok
                              /\ slots'[run[o].old].by = slots[run[o].old].by
  PROVE  CleanRest'
<1>1. \A s \in Slots : s = run[o].new \/ s = Other(run[o].new)
  BY TwoSlots DEF Holding
<1>2. CASE record.op = 0
  BY <1>1, <1>2 DEF CleanOld, CleanRest, Up, Holding
<1>3. CASE record.op # 0
  BY <1>1, <1>3, OtherSlot DEF CleanOld, CleanRest, Stands, Serves, Up, Holding
<1> QED
  BY <1>2, <1>3

LEMMA ReturnsKept ==
  ASSUME NEW o \in Holders, Holding(o), NEW away, KeptOld(run[o], away), slots' \in [Slots -> SlotRow],
         slots'[run[o].new].state # "up", current' = current, record' = record,
         run[o].old = None => slots'[Other(run[o].new)] = slots[Other(run[o].new)],
         run[o].old # None => slots'[run[o].old].state = "up" /\ slots'[run[o].old].ok = slots[run[o].old].ok
  PROVE  KeptRest'
<1>1. \A s \in Slots : s = run[o].new \/ s = Other(run[o].new)
  BY TwoSlots DEF Holding
<1> QED
  BY <1>1, OtherSlot DEF KeptOld, KeptRest, Sound, Up, Holding

LEMMA ReturnsOn ==
  ASSUME NEW o \in Holders, Holding(o), OnOld(run[o]), slots' \in [Slots -> SlotRow],
         slots'[run[o].new].state # "up", current' = current, record' = record, Dirty' = Dirty,
         slots'[Other(run[o].new)] = slots[Other(run[o].new)]
  PROVE  OnRest'
<1>1. \A s \in Slots : s = run[o].new \/ s = Other(run[o].new)
  BY TwoSlots DEF Holding
<1>2. ActiveSlot' = run[o].old
  BY <1>1, OtherSlot DEF ActiveSlot, OnOld, Holding, Slots, None, Up
<1>3. /\ run[o].old = None => slots'[Other(run[o].new)].state # "up"
      /\ run[o].old # None => slots'[run[o].old].state = "up" /\ slots'[run[o].old].ok = slots[run[o].old].ok
  BY <1>1, OtherSlot DEF OnOld, Holding, Up
<1> QED
  BY <1>1, <1>2, <1>3, OtherSlot DEF OnRest, OnOld, Holding, Sound, Up

\* The new slot serves.
LEMMA NewKept ==
  ASSUME NEW o \in Holders, Holding(o), (Serves(run[o].new) /\ Sound), slots' = slots
  PROVE  KeptRest'
BY DEF Holding, KeptRest, Serves, Sound, Up

LEMMA NewOn ==
  ASSUME NEW s \in Slots, current' \in Slots \cup {None}, slots'[s].state = "up", slots'[s].ok,
         current' = s \/ ~Dirty', ~Dirty' => Sound'
  PROVE  OnRest'
<1>1. \A t \in Slots : t = s \/ t = Other(s)
  BY TwoSlots
<1>2. ActiveSlot' \in Slots /\ slots'[ActiveSlot'].state = "up" /\ (current' = s => ActiveSlot' = s)
  BY <1>1, OtherSlot DEF ActiveSlot, Slots, Up
<1> QED
  BY <1>1, <1>2, OtherSlot DEF OnRest, Sound, Up

LEMMA GiveUpKeeps ==
  ASSUME SlotAssumption, SlotBase, SlotInv, NEW o \in Runs, GiveUp(o)
  PROVE  SlotInv'
<1> DEFINE old == run[o].old
           torn == [slots EXCEPT ![run[o].new] = NoContainers]
<1>0. PICK at \in {"clear", "started", "probing"} : Deploys(o, at)
  BY DEF GiveUp
<1>1. /\ o \in Holders /\ Holding(o) /\ run[o].kind = "deploy" /\ run[o].at = at
      /\ troubles = {} => CleanDeploy(o, run[o])
      /\ troubles \subseteq {"write", "read"} => KeptDeploy(o, run[o])
      /\ OnHolds => OnDeploy(o, run[o])
  BY <1>0, DeployHold
<1>2. /\ Moved(o, "over") /\ sweep' = sweep /\ overlap' = overlap /\ current' = current /\ pin' = None
      /\ record' = record
  BY GoEffect DEF GiveUp, Same, Unrecorded, Ats, SlotBase
<1>3. CASE slots' = (IF old = None THEN torn ELSE [torn EXCEPT ![old] = Restored(o)]) /\ Fine
  <2>1. torn \in [Slots -> SlotRow] /\ torn[run[o].new] = NoContainers
        /\ torn[Other(run[o].new)] = slots[Other(run[o].new)]
    BY <1>1, FreshForms, OtherSlot DEF Holding
  <2>2. old # None => /\ Restored(o) \in SlotRow /\ Restored(o).ok = slots[old].ok /\ Restored(o).by = slots[old].by
                      /\ IF run[o].stopped THEN Restored(o).state = "up" /\ Restored(o).keep
                         ELSE Restored(o) = slots[old]
    BY <1>1, SlotForms DEF Holding, Restored, SlotBase
  <2> HIDE DEF torn
  <2>3. /\ slots' \in [Slots -> SlotRow] /\ slots'[run[o].new] = NoContainers
        /\ IF old = None THEN slots'[Other(run[o].new)] = slots[Other(run[o].new)]
           ELSE slots'[old] = Restored(o)
    BY <1>1, <1>3, <2>1, <2>2 DEF Holding
  <2>4. troubles' = troubles /\ slots'[run[o].new].state # "up" /\ slots'[run[o].new].state = "gone"
    BY <1>3, <2>3, FreshForms DEF Fine
  <2>5. ASSUME troubles = {} PROVE CleanRest'
    <3>1. CleanDeploy(o, run[o])
      BY <1>1, <2>5
    <3>2. CleanOld(run[o])
      BY <1>1, <3>1 DEF CleanDeploy
    <3>3. old # None => slots'[old].state = "up" /\ slots'[old].keep
      BY <1>1, <2>2, <2>3, <3>2 DEF CleanOld, OldRuns, Up
    <3> QED
      BY <1>1, <1>2, <2>2, <2>3, <2>4, <3>2, <3>3, ReturnsClean
  <2>6. ASSUME troubles \subseteq {"write", "read"} PROVE KeptRest'
    <3>1. KeptDeploy(o, run[o])
      BY <1>1, <2>6
    <3>2. KeptOld(run[o], run[o].stopped)
      BY <1>1, <3>1 DEF KeptDeploy
    <3>3. old # None => slots'[old].state = "up"
      BY <1>1, <2>2, <2>3, <3>2 DEF KeptOld, Up
    <3> QED
      BY <1>1, <1>2, <2>2, <2>3, <2>4, <3>2, <3>3, ReturnsKept
  <2>7. ASSUME OnHolds PROVE OnRest'
    <3>1. OnOld(run[o])
      BY <1>1, <2>7 DEF OnDeploy
    <3>2. ~run[o].stopped
      BY <1>1, <2>7 DEF OnHolds, Holding
    <3>3. slots'[Other(run[o].new)] = slots[Other(run[o].new)] /\ Dirty' = Dirty
      BY <1>1, <2>2, <2>3, <2>4, <3>2 DEF Holding, Dirty
    <3> QED
      BY <1>1, <1>2, <2>3, <2>4, <3>1, <3>3, ReturnsOn
  <2> QED
    BY <1>1, <1>2, <2>4, <2>5, <2>6, <2>7, HoldEnds DEF OnHolds, SlotInv
<1>4. CASE run[o].stopped /\ Trouble("docker")
  <2>1. "docker" \in troubles' /\ ~overlap'
    BY <1>1, <1>2, <1>4 DEF Trouble, Holding
  <2> QED
    BY <1>1, <1>2, <2>1, HoldEnds DEF OnHolds, SlotInv
<1>5. CASE slots' = (IF old = None THEN slots ELSE [slots EXCEPT ![old] = Restored(o)]) /\ Trouble("docker")
  <2>1. "docker" \in troubles'
    BY <1>5 DEF Trouble
  <2>2. ASSUME OnHolds' PROVE OnRest'
    <3>1. troubles = {} /\ OnHolds /\ ~run[o].stopped
      BY <1>1, <1>2, <1>5, <2>2, FirstTrouble DEF OnHolds, Holding
    <3>2. CleanOld(run[o]) /\ OnOld(run[o])
      BY <1>1, <3>1 DEF CleanDeploy, OnDeploy
    <3>3. slots' = slots
      BY <1>1, <1>5, <3>1 DEF Restored, Holding
    <3>4. \A s \in Slots : s = run[o].new \/ s = Other(run[o].new)
      BY <1>1, TwoSlots DEF Holding
    <3>5. Dirty'
      BY <2>1 DEF Dirty
    <3>6. CASE old = None
      BY <1>1, <1>2, <3>2, <3>3, <3>4, <3>5, <3>6, OtherSlot DEF CleanOld, OnRest, ActiveSlot, Up, Slots, Holding
    <3>7. CASE old \in Slots
      BY <1>1, <1>2, <3>2, <3>3, <3>5, <3>7, OtherSlot DEF CleanOld, OnOld, OnRest, ActiveSlot, Up
    <3> QED
      BY <1>1, <3>6, <3>7 DEF Holding
  <2> QED
    BY <1>1, <1>2, <2>1, <2>2, HoldEnds DEF SlotInv
<1> QED
  BY <1>3, <1>4, <1>5 DEF GiveUp

LEMMA FailBeforeCommitKeeps ==
  ASSUME SlotAssumption, SlotBase, SlotInv, NEW o \in Runs, FailBeforeCommit(o)
  PROVE  SlotInv'
<1>1. /\ o \in Holders /\ Holding(o) /\ run[o].kind = "deploy" /\ run[o].at = "healthy"
      /\ troubles = {} => CleanDeploy(o, run[o])
      /\ troubles \subseteq {"write", "read"} => KeptDeploy(o, run[o])
      /\ OnHolds => OnDeploy(o, run[o])
  BY DeployHold DEF FailBeforeCommit
<1>2. /\ Moved(o, "over") /\ sweep' = sweep /\ overlap' = overlap /\ pin' = None /\ record' = record
  BY GoEffect DEF FailBeforeCommit, Same, Unrecorded, Ats, SlotBase
<1>3. troubles' = troubles \cup {"write"} /\ (MaxTroubles <= 1 /\ "crash" \notin troubles' => troubles' = {"write"})
  BY FirstTrouble DEF FailBeforeCommit
<1>4. CASE current' \in {current, run[o].new} /\ slots' = slots
  <2>1. ASSUME troubles' \subseteq {"write", "read"} PROVE KeptRest'
    BY <1>1, <1>3, <1>4, <2>1, NewKept DEF KeptDeploy
  <2>2. ASSUME OnHolds' PROVE OnRest'
    <3>1. OnNew(run[o]) /\ ~Dirty' /\ ~Dirty
      BY <1>1, <1>2, <1>3, <2>2 DEF OnDeploy, OnHolds, Dirty
    <3>2. slots'[run[o].new].state = "up" /\ slots'[run[o].new].ok /\ Sound'
      BY <1>4, <3>1 DEF OnNew, Serves, Sound, Up
    <3> QED
      BY <1>1, <1>4, <3>1, <3>2, NewOn DEF Holding
  <2> QED
    BY <1>1, <1>2, <1>3, <2>1, <2>2, HoldEnds DEF SlotInv
<1>5. CASE ~KeepsProven(o) /\ With(run[o].new, NoContainers) /\ UNCHANGED current
  <2>1. /\ slots' \in [Slots -> SlotRow] /\ slots'[run[o].new].state # "up"
        /\ slots'[Other(run[o].new)] = slots[Other(run[o].new)]
    BY <1>1, <1>5, WithEffect, FreshForms DEF Holding, SlotBase
  <2>2. run[o].old \in Slots /\ slots'[run[o].old] = slots[run[o].old] /\ slots[run[o].old].state = "up"
    BY <1>1, <1>5, <2>1 DEF KeepsProven, StopsLater, Up, Holding
  <2>3. ASSUME troubles' \subseteq {"write", "read"} PROVE KeptRest'
    BY <1>1, <1>2, <1>3, <1>5, <2>1, <2>2, <2>3, ReturnsKept, OtherSlot DEF KeptDeploy
  <2>4. ASSUME OnHolds' PROVE OnRest'
    <3>1. OnOld(run[o]) /\ Dirty' = Dirty
      BY <1>1, <1>2, <1>3, <2>4 DEF OnDeploy, OnHolds, Dirty
    <3> QED
      BY <1>1, <1>2, <1>5, <2>1, <3>1, ReturnsOn
  <2> QED
    BY <1>1, <1>2, <1>3, <2>3, <2>4, HoldEnds DEF SlotInv
<1> QED
  BY <1>4, <1>5 DEF FailBeforeCommit

-------------------------------------------------------------------------------
(* A deploy commits and cuts over.                                         *)

LEMMA CommitKeeps ==
  ASSUME SlotAssumption, SlotBase, SlotInv, NEW o \in Runs, Commit(o)
  PROVE  SlotInv'
<1>1. /\ o \in Holders /\ Holding(o) /\ run[o].kind = "deploy" /\ run[o].at = "healthy"
      /\ troubles = {} => CleanDeploy(o, run[o])
      /\ troubles \subseteq {"write", "read"} => KeptDeploy(o, run[o])
      /\ OnHolds => OnDeploy(o, run[o])
  BY DeployHold DEF Commit
<1>2. /\ Moved(o, "committed") /\ sweep' = sweep /\ overlap' = overlap /\ current' = current /\ pin' = pin
      /\ troubles' = troubles /\ slots' = slots
      /\ record'.op = o /\ record'.slot = run[o].new /\ record'.by = slots[run[o].new].by /\ o # 0
  BY GoEffect DEF Commit, Succeed, Same, Unrecorded, Ats, SlotBase, Runs
<1>4. ASSUME troubles = {} PROVE CleanDeploy(o, run[o])'
  <2>1. CleanDeploy(o, run[o]) /\ run[o].at = "healthy"
    BY <1>1, <1>4
  <2>2. /\ CleanOld(run[o]) /\ Serves(run[o].new) /\ slots[run[o].new].keep /\ slots[run[o].new].by = o
        /\ (pin = None \/ (overlap /\ run[o].old # None /\ pin = run[o].old))
        /\ (run[o].stopped <=> (~overlap /\ run[o].old # None))
    BY <1>1, <2>1 DEF CleanDeploy, Serves
  <2>3. /\ IF overlap /\ run[o].old # None THEN Serves(run[o].old) /\ slots[run[o].old].keep
           ELSE ~Up(Other(run[o].new))
        /\ run[o].old = None => slots[Other(run[o].new)].state = "gone"
    <3>1. CASE run[o].old = None
      BY <1>1, <2>2, <3>1, OtherSlot DEF CleanOld, Holding, Up
    <3>2. CASE run[o].old # None
      <4>1. run[o].old = Other(run[o].new)
        BY <1>1, <3>2 DEF Holding
      <4>2. /\ slots[run[o].old].ok
            /\ IF ~run[o].stopped THEN Up(run[o].old) /\ slots[run[o].old].keep ELSE ~Up(run[o].old)
        BY <1>1, <2>2, <3>2 DEF CleanOld, OldRuns, Up
      <4> QED
        BY <2>2, <3>2, <4>1, <4>2 DEF Serves
    <3> QED
      BY <3>1, <3>2
  <2>4. current = run[o].old
    BY <2>2 DEF CleanOld
  <2> QED
    BY <1>1, <1>2, <2>2, <2>3, <2>4 DEF CleanDeploy, Stands, Serves, Up, Holding, Moved
<1>5. ASSUME troubles \subseteq {"write", "read"} PROVE KeptDeploy(o, run[o])'
  BY <1>1, <1>2, <1>5 DEF KeptDeploy, Serves, Sound, Up, Moved
<1>6. ASSUME OnHolds PROVE OnDeploy(o, run[o])'
  BY <1>1, <1>2, <1>6 DEF OnDeploy, OnNew, Dirty, Serves, Sound, Up, Moved
<1> QED
  BY <1>1, <1>2, <1>4, <1>5, <1>6, OtherSlot, DeployGoesOn DEF OnHolds, SlotInv, GoesOn, Moved, Holding

LEMMA CommitRefusedKeeps ==
  ASSUME SlotAssumption, SlotBase, SlotInv, NEW o \in Runs, CommitRefused(o)
  PROVE  SlotInv'
<1>1. /\ o \in Holders /\ Holding(o) /\ run[o].kind = "deploy" /\ run[o].at = "healthy"
      /\ troubles = {} => CleanDeploy(o, run[o])
      /\ troubles \subseteq {"write", "read"} => KeptDeploy(o, run[o])
      /\ OnHolds => OnDeploy(o, run[o])
  BY DeployHold DEF CommitRefused
<1>2. /\ sweep' = sweep /\ overlap' = overlap /\ current' = current /\ row # o
      /\ troubles' = troubles /\ record' = record
  BY DEF CommitRefused, Commits, Same, Unrecorded
<1>3. ~(troubles \subseteq {"write", "read"})
  BY <1>1, <1>2 DEF KeptDeploy
<1>4. CASE StopsLater(o) /\ With(run[o].new, NoContainers) /\ pin' = None /\ Go(o, "over")
  <2>1. /\ slots' \in [Slots -> SlotRow] /\ slots'[run[o].new].state # "up"
        /\ slots'[Other(run[o].new)] = slots[Other(run[o].new)]
    BY <1>1, <1>4, WithEffect, FreshForms DEF Holding, SlotBase
  <2>2. ASSUME OnHolds PROVE OnRest'
    <3>1. OnOld(run[o]) /\ Dirty' = Dirty
      BY <1>1, <1>2, <2>2 DEF OnDeploy, Dirty
    <3> QED
      BY <1>1, <1>2, <2>1, <3>1, ReturnsOn
  <2>3. Moved(o, "over")
    BY <1>4, GoEffect DEF Ats, SlotBase
  <2> QED
    BY <1>1, <1>2, <1>3, <2>2, <2>3, HoldEnds DEF OnHolds, SlotInv
<1>5. CASE ~StopsLater(o) /\ Go(o, "committed") /\ UNCHANGED <<slots, pin>>
  <2>1. Moved(o, "committed")
    BY <1>5, GoEffect DEF Ats, SlotBase
  <2>2. ASSUME OnHolds PROVE OnDeploy(o, run[o])'
    BY <1>1, <1>2, <1>5, <2>1, <2>2 DEF OnDeploy, OnNew, Dirty, Serves, Sound, Up, Moved
  <2> QED
    BY <1>1, <1>2, <1>3, <2>1, <2>2, OtherSlot, DeployGoesOn DEF OnHolds, SlotInv, GoesOn, Moved, Holding
<1> QED
  BY <1>4, <1>5 DEF CommitRefused

LEMMA PointCurrentKeeps ==
  ASSUME SlotAssumption, SlotBase, SlotInv, NEW o \in Runs, PointCurrent(o)
  PROVE  SlotInv'
<1>1. /\ o \in Holders /\ Holding(o) /\ run[o].kind = "deploy" /\ run[o].at = "committed"
      /\ troubles = {} => CleanDeploy(o, run[o])
      /\ troubles \subseteq {"write", "read"} => KeptDeploy(o, run[o])
      /\ OnHolds => OnDeploy(o, run[o])
  BY DeployHold DEF PointCurrent
<1>2. /\ sweep' = sweep /\ overlap' = overlap /\ pin' = pin /\ slots' = slots /\ record' = record
      /\ current' \in Slots \cup {None}
  BY <1>1 DEF PointCurrent, Points, Same, Unrecorded, Holding
<1>3. \/ current' = run[o].new /\ troubles' = troubles
      \/ /\ current' = current /\ troubles' = troubles \cup {"write"}
         /\ MaxTroubles <= 1 /\ "crash" \notin troubles' => troubles = {} /\ troubles' = {"write"}
  BY FirstTrouble DEF PointCurrent, Points, Fine
<1>4. CASE StopsLater(o)
  <2>1. Moved(o, "pointed")
    BY <1>4, GoEffect DEF PointCurrent, Ats, SlotBase
  <2>2. ASSUME troubles' = {} PROVE CleanDeploy(o, run[o])'
    BY <1>1, <1>2, <1>3, <1>4, <2>1, <2>2 DEF CleanDeploy, StopsLater, Stands, Serves, Up, Holding, Moved
  <2>3. ASSUME troubles' \subseteq {"write", "read"} PROVE KeptDeploy(o, run[o])'
    BY <1>1, <1>2, <1>3, <2>1, <2>3 DEF KeptDeploy, Serves, Sound, Up, Moved
  <2>4. ASSUME OnHolds' PROVE OnDeploy(o, run[o])'
    <3>1. /\ OnDeploy(o, run[o])
          /\ Dirty' = Dirty
          /\ current' = run[o].new \/ ~Dirty'
      BY <1>1, <1>2, <1>3, <2>4 DEF OnHolds, Dirty
    <3>2. OnNew(run[o]) /\ (pin = None \/ (pin = run[o].old /\ Up(run[o].old)))
      BY <1>1, <3>1 DEF OnDeploy
    <3>3. OnNew(run[o])'
      BY <1>1, <1>2, <2>1, <3>1, <3>2 DEF OnNew, Serves, Sound, Up, Moved
    <3> QED
      BY <1>1, <1>2, <2>1, <3>1, <3>2, <3>3 DEF OnDeploy, Up, Moved
  <2> QED
    BY <1>1, <1>2, <2>1, <2>2, <2>3, <2>4, OtherSlot, DeployGoesOn DEF SlotInv, GoesOn, Moved, Holding
<1>5. CASE ~StopsLater(o)
  <2>1. Moved(o, "over")
    BY <1>5, GoEffect DEF PointCurrent, Ats, SlotBase
  <2>2. ASSUME troubles' = {} PROVE CleanRest'
    <3>1. CleanDeploy(o, run[o]) /\ current' = run[o].new
      BY <1>1, <1>3, <2>2
    <3>2. /\ record.op # 0 /\ record.slot = run[o].new /\ Stands(run[o].new) /\ ~Up(Other(run[o].new)) /\ pin = None
      BY <1>1, <1>5, <3>1 DEF CleanDeploy, StopsLater
    <3> QED
      BY <1>2, <3>1, <3>2 DEF CleanRest, Stands, Serves, Up
  <2>3. ASSUME troubles' \subseteq {"write", "read"} PROVE KeptRest'
    BY <1>1, <1>2, <1>3, <2>3, NewKept DEF KeptDeploy
  <2>4. ASSUME OnHolds' PROVE OnRest'
    <3>1. /\ OnDeploy(o, run[o])
          /\ Dirty' = Dirty
          /\ current' = run[o].new \/ ~Dirty'
      BY <1>1, <1>2, <1>3, <2>4 DEF OnHolds, Dirty
    <3>2. slots'[run[o].new].state = "up" /\ slots'[run[o].new].ok /\ (~Dirty' => Sound')
      BY <1>1, <1>2, <3>1 DEF OnDeploy, OnNew, Serves, Sound, Up
    <3> QED
      BY <1>1, <1>2, <3>1, <3>2, NewOn DEF Holding
  <2> QED
    BY <1>1, <1>2, <2>1, <2>2, <2>3, <2>4, HoldEnds DEF SlotInv
<1> QED
  BY <1>4, <1>5

LEMMA FailAfterCommitKeeps ==
  ASSUME SlotAssumption, SlotBase, SlotInv, NEW o \in Runs, FailAfterCommit(o)
  PROVE  SlotInv'
<1>0. PICK at \in {"committed", "pointed"} : Deploys(o, at)
  BY DEF FailAfterCommit
<1>1. /\ o \in Holders /\ Holding(o) /\ run[o].kind = "deploy" /\ run[o].at = at
      /\ troubles \subseteq {"write", "read"} => KeptDeploy(o, run[o])
      /\ OnHolds => OnDeploy(o, run[o])
  BY <1>0, DeployHold
<1>2. /\ Moved(o, "over") /\ sweep' = sweep /\ overlap' = overlap /\ slots' = slots /\ record' = record
      /\ current' = current
  BY GoEffect DEF FailAfterCommit, Same, Unrecorded, Ats, SlotBase
<1>3. troubles' = troubles \cup {"write"} /\ (MaxTroubles <= 1 /\ "crash" \notin troubles' => troubles' = {"write"})
  BY FirstTrouble DEF FailAfterCommit
<1>4. ASSUME troubles' \subseteq {"write", "read"} PROVE KeptRest'
  BY <1>1, <1>2, <1>3, <1>4, NewKept DEF KeptDeploy
<1>5. ASSUME OnHolds' PROVE OnRest'
  <2>1. OnNew(run[o]) /\ ~Dirty' /\ ~Dirty
    BY <1>1, <1>2, <1>3, <1>5 DEF OnDeploy, OnHolds, Dirty
  <2>2. slots'[run[o].new].state = "up" /\ slots'[run[o].new].ok /\ Sound'
    BY <1>2, <2>1 DEF OnNew, Serves, Sound, Up
  <2> QED
    BY <1>1, <1>2, <2>1, <2>2, NewOn DEF Holding
<1> QED
  BY <1>1, <1>2, <1>3, <1>4, <1>5, HoldEnds DEF SlotInv

LEMMA PinNewSlotKeeps ==
  ASSUME SlotAssumption, SlotBase, SlotInv, NEW o \in Runs, PinNewSlot(o)
  PROVE  SlotInv'
<1>1. /\ o \in Holders /\ Holding(o) /\ run[o].kind = "deploy" /\ run[o].at = "pointed"
      /\ troubles = {} => CleanDeploy(o, run[o])
      /\ troubles \subseteq {"write", "read"} => KeptDeploy(o, run[o])
      /\ OnHolds => OnDeploy(o, run[o])
  BY DeployHold DEF PinNewSlot
<1>2. /\ Moved(o, "pinned") /\ sweep' = sweep /\ overlap' = overlap /\ current' = current
      /\ pin' \in {run[o].new, None} /\ troubles' = troubles /\ record' = record /\ slots' = slots
  BY GoEffect DEF PinNewSlot, Same, Unrecorded, Ats, SlotBase
<1>4. ASSUME troubles = {} PROVE CleanDeploy(o, run[o])'
  BY <1>1, <1>2, <1>4 DEF CleanDeploy, Stands, Serves, Up, Moved
<1>5. ASSUME troubles \subseteq {"write", "read"} PROVE KeptDeploy(o, run[o])'
  BY <1>1, <1>2, <1>5 DEF KeptDeploy, Serves, Sound, Up, Moved
<1>6. ASSUME OnHolds PROVE OnDeploy(o, run[o])'
  BY <1>1, <1>2, <1>6 DEF OnDeploy, OnNew, Dirty, Serves, Sound, Up, Moved
<1> QED
  BY <1>1, <1>2, <1>4, <1>5, <1>6, OtherSlot, DeployGoesOn DEF OnHolds, SlotInv, GoesOn, Moved, Holding

LEMMA StopOldSlotKeeps ==
  ASSUME SlotAssumption, SlotBase, SlotInv, NEW o \in Runs, StopOldSlot(o)
  PROVE  SlotInv'
<1> DEFINE old == run[o].old
           new == run[o].new
<1>1. /\ o \in Holders /\ Holding(o) /\ run[o].kind = "deploy" /\ run[o].at = "pinned"
      /\ troubles = {} => CleanDeploy(o, run[o])
      /\ troubles \subseteq {"write", "read"} => KeptDeploy(o, run[o])
      /\ OnHolds => OnDeploy(o, run[o])
  BY DeployHold DEF StopOldSlot
<1>2. /\ Moved(o, "stopped") /\ sweep' = sweep /\ overlap' = overlap /\ current' = current /\ pin' = pin
      /\ record' = record
  BY GoEffect DEF StopOldSlot, Same, Unrecorded, Ats, SlotBase
<1>3. \/ With(old, Demoted(old)) /\ troubles' = troubles
      \/ /\ With(old, Pinned(old)) /\ "docker" \in troubles' /\ "docker" \notin troubles
         /\ troubles \subseteq troubles' /\ (MaxTroubles <= 1 /\ "crash" \notin troubles' => troubles = {} /\ troubles' = {"docker"})
  BY FirstTrouble DEF StopOldSlot, Fine, Trouble
<1>4. /\ slots'[new] = slots[new]
      /\ old \in Slots => /\ slots'[old].ok = slots[old].ok
                          /\ slots'[old].state = "up" => slots[old].state = "up"
                          /\ troubles' = troubles => slots'[old].state # "up"
      /\ old = None => slots' = slots
  <2>1. CASE old = None
    BY <1>1, <1>3, <2>1, OtherSlot DEF With, Holding
  <2>2. CASE old \in Slots
    <3>1. /\ Demoted(old) \in SlotRow /\ Pinned(old) \in SlotRow /\ Demoted(old).state # "up"
          /\ Demoted(old).ok = slots[old].ok /\ Pinned(old).ok = slots[old].ok /\ Pinned(old).state = slots[old].state
      BY <2>2, SlotForms DEF SlotBase
    <3>2. new = Other(old) /\ old # None
      BY <1>1, <2>2, OtherSlot DEF Holding
    <3>3. CASE With(old, Demoted(old)) /\ troubles' = troubles
      BY <2>2, <3>1, <3>2, <3>3, WithEffect DEF SlotBase
    <3>4. CASE With(old, Pinned(old)) /\ "docker" \in troubles' /\ "docker" \notin troubles
      <4>1. slots'[new] = slots[new] /\ slots'[old] = Pinned(old)
        BY <2>2, <3>1, <3>2, <3>4, WithEffect DEF SlotBase
      <4>2. ASSUME troubles' = troubles PROVE FALSE
        BY <3>4, <4>2
      <4> QED
        BY <3>1, <3>2, <4>1, <4>2
    <3> QED
      BY <1>3, <3>3, <3>4
  <2> QED
    BY <1>1, <2>1, <2>2 DEF Holding
<1>5. \A s \in Slots : s = new \/ (s = old /\ old \in Slots) \/ old = None
  BY <1>1, TwoSlots DEF Holding
<1>6. ASSUME troubles' = {} PROVE CleanDeploy(o, run[o])'
  <2>1. troubles' = troubles /\ CleanDeploy(o, run[o])
    BY <1>1, <1>3, <1>6
  <2>2. /\ record.op # 0 /\ record.slot = new /\ Stands(new) /\ overlap /\ old # None
        /\ current = new
    BY <1>1, <2>1 DEF CleanDeploy
  <2> QED
    BY <1>1, <1>2, <1>4, <2>1, <2>2 DEF CleanDeploy, Stands, Serves, Up, Holding, Moved
<1>7. ASSUME Sound, Serves(new) PROVE Sound' /\ slots'[new].state = "up" /\ slots'[new].ok
  BY <1>1, <1>4, <1>5, <1>7 DEF Sound, Up, Serves, Holding
<1>8. ASSUME troubles' \subseteq {"write", "read"} PROVE KeptDeploy(o, run[o])'
  BY <1>1, <1>2, <1>3, <1>7, <1>8 DEF KeptDeploy, Serves, Up, Moved
<1>9. ASSUME OnHolds' PROVE OnDeploy(o, run[o])'
  <2>1. OnHolds /\ (Dirty' = Dirty \/ (troubles = {} /\ Dirty'))
    BY <1>2, <1>3, <1>9 DEF OnHolds, Dirty
  <2>2. OnNew(run[o]) /\ pin \in {new, None} /\ (current = new \/ ~Dirty')
    BY <1>1, <2>1 DEF OnDeploy, CleanDeploy
  <2>3. slots'[new].state = "up" /\ slots'[new].ok /\ (~Dirty' => Sound')
    BY <1>4, <1>7, <2>1, <2>2 DEF OnNew, Serves, Up
  <2> QED
    BY <1>1, <1>2, <2>1, <2>2, <2>3 DEF OnDeploy, OnNew, Serves, Up, Moved
<1> QED
  BY <1>1, <1>2, <1>6, <1>8, <1>9, OtherSlot, DeployGoesOn DEF SlotInv, GoesOn, Moved, Holding

LEMMA UnpinKeeps ==
  ASSUME SlotAssumption, SlotBase, SlotInv, NEW o \in Runs, Unpin(o)
  PROVE  SlotInv'
<1>1. /\ o \in Holders /\ Holding(o) /\ run[o].kind = "deploy" /\ run[o].at = "stopped"
      /\ troubles = {} => CleanDeploy(o, run[o])
      /\ troubles \subseteq {"write", "read"} => KeptDeploy(o, run[o])
      /\ OnHolds => OnDeploy(o, run[o])
  BY DeployHold DEF Unpin
<1>2. /\ Moved(o, "over") /\ sweep' = sweep /\ overlap' = overlap /\ slots' = slots /\ record' = record
      /\ current' = current /\ pin' = None /\ troubles' = troubles
  BY GoEffect DEF Unpin, Same, Unrecorded, Ats, SlotBase
<1>3. ASSUME troubles = {} PROVE CleanRest'
  <2>1. /\ record.op # 0 /\ record.slot = run[o].new /\ Stands(run[o].new) /\ current = run[o].new
        /\ overlap /\ run[o].old # None /\ ~Up(run[o].old)
    BY <1>1, <1>3 DEF CleanDeploy
  <2>2. Other(run[o].new) = run[o].old
    BY <1>1, <2>1 DEF Holding
  <2> QED
    BY <1>2, <2>1, <2>2 DEF CleanRest, Stands, Serves, Up
<1>4. ASSUME troubles \subseteq {"write", "read"} PROVE KeptRest'
  BY <1>1, <1>2, <1>4, NewKept DEF KeptDeploy
<1>5. ASSUME OnHolds PROVE OnRest'
  <2>1. OnNew(run[o]) /\ Dirty' = Dirty /\ (current = run[o].new \/ ~Dirty)
    BY <1>1, <1>2, <1>5 DEF OnDeploy, Dirty
  <2>2. slots'[run[o].new].state = "up" /\ slots'[run[o].new].ok /\ (~Dirty' => Sound')
    BY <1>2, <2>1 DEF OnNew, Serves, Sound, Up
  <2> QED
    BY <1>1, <1>2, <2>1, <2>2, NewOn DEF Holding
<1> QED
  BY <1>1, <1>2, <1>3, <1>4, <1>5, HoldEnds DEF SlotInv, OnHolds

-------------------------------------------------------------------------------
(* An instant rollback.                                                    *)

LEMMA QuitMoves ==
  ASSUME SlotBase, NEW o \in Runs, Quit(o)
  PROVE  Moved(o, "over") /\ FreeRow(o)
BY QuitTyped DEF Quit

LEMMA RollbackPickKeeps ==
  ASSUME SlotAssumption, Prompt, SlotBase, SlotInv, Owns, NEW o \in Runs, RollbackPick(o)
  PROVE  SlotInv'
<1> DEFINE a == ActiveSlot
           can == a # None /\ slots[Other(a)].state # "gone"
<1>1. /\ Holders = {} /\ sweep = None /\ sweep' = sweep /\ run[o].at = "claimed" /\ run[o].kind = "instant"
      /\ slots' = slots /\ overlap' = overlap /\ current' = current
      /\ troubles' = troubles /\ record' = record
  BY DEF RollbackPick, Free, Same, Flips, At
<1>2. \/ /\ a # None /\ slots[Other(a)].state # "gone" /\ pin' = None /\ row' = row
         /\ run' = [run EXCEPT ![o].at = "flip", ![o].old = a, ![o].new = Other(a)]
      \/ Quit(o) /\ pin' = pin
  BY DEF RollbackPick
<1>3. run[o] \in RunRow /\ run \in [Runs -> RunRow] /\ ~run[o].stopped /\ run[o].new = None
  BY <1>1, TypesOf DEF SlotBase, SlotTyped, Shaped
<1>4. a \in Slots \cup {None} /\ Other(a) \in Slots /\ a # Other(a)
  BY ActiveSlotType, OtherSlot
<1>5. a = IF current # None THEN IF ~Up(current) /\ Up(Other(current)) THEN Other(current) ELSE current
          ELSE IF Up("blue") THEN "blue" ELSE IF Up("green") THEN "green" ELSE None
  BY DEF ActiveSlot
<1>6. ASSUME Quit(o), pin' = pin PROVE SlotInv'
  <2>1. Beside(o)
    BY <1>1, <1>3, <1>6, QuitMoves DEF Beside, Moved, FreeRow, Holders
  <2> QED
    BY <1>1, <2>1, BesideKeeps
<1>7. ASSUME a # None, pin' = None, row' = row,
             run' = [run EXCEPT ![o].at = "flip", ![o].old = a, ![o].new = Other(a)]
      PROVE  SlotInv'
  <2>0. a = ActiveSlot
    OBVIOUS
  <2> HIDE DEF a
  <2>1. run' = [run EXCEPT ![o] = [run[o] EXCEPT !.at = "flip", !.old = a, !.new = Other(a)]]
    BY <1>3, <1>7
  <2>2. /\ run'[o].at = "flip" /\ run'[o].kind = "instant" /\ ~run'[o].stopped
        /\ run'[o].old = a /\ run'[o].new = Other(a) /\ \A p \in Runs \ {o} : run'[p] = run[p]
    BY <1>1, <1>3, <1>4, <2>1 DEF RunRow
  <2>3. slots \in [Slots -> SlotRow] /\ current \in Slots \cup {None} /\ (record.op # 0 => record.slot \in Slots)
        /\ a \in Slots
    BY <1>4, <1>7, TypesOf DEF SlotBase
  <2>4. ASSUME troubles = {} PROVE CleanRollback(o, run[o])'
    <3>1. CleanRest /\ row = o
      BY <1>1, <2>4 DEF SlotInv, Clean, Owns
    <3>2. record.op # 0 /\ a = record.slot
      BY <1>5, <1>7, <2>3, <3>1 DEF CleanRest, Stands, Serves, Up, Slots, None, Other
    <3> QED
      BY <1>1, <1>7, <2>2, <2>3, <3>1, <3>2 DEF CleanRollback, CleanOld, OldRuns, CleanRest, Stands, Serves, Up
  <2>5. ASSUME troubles \subseteq {"write", "read"} PROVE KeptRollback(o, run[o])'
    <3>1. KeptRest
      BY <1>1, <2>5 DEF SlotInv, Kept
    <3>2. Up(a)
      BY <1>5, <1>7, <2>3, <3>1 DEF KeptRest, Up, Slots, None, Other
    <3> QED
      BY <1>1, <1>4, <1>7, <2>2, <2>3, <3>1, <3>2 DEF KeptRollback, KeptOld, KeptRest, Sound, Up
  <2>6. ASSUME OnHolds PROVE OnRollback(o, run[o])'
    <3>1. OnRest
      BY <1>1, <2>6 DEF SlotInv, On, OnHolds
    <3>2. OnRest'
      BY <1>1, <3>1 DEF OnRest, Sound, Up, ActiveSlot, Dirty
    <3>3. OnOld(run[o])'
      BY <1>1, <1>7, <2>0, <2>2, <2>3, <3>1 DEF OnOld, OnRest, Sound, Up, Dirty
    <3> QED
      BY <2>2, <3>2, <3>3 DEF OnRollback
  <2> QED
    BY <1>1, <1>4, <2>2, <2>4, <2>5, <2>6, OtherSlot, TakesSlots DEF OnHolds
<1> QED
  BY <1>2, <1>6, <1>7

LEMMA RollbackMakeWayKeeps ==
  ASSUME SlotAssumption, SlotBase, SlotInv, NEW o \in Runs, RollbackMakeWay(o)
  PROVE  SlotInv'
<1> DEFINE old == run[o].old
           new == run[o].new
<1>1. /\ o \in Holders /\ Holding(o) /\ run[o].kind = "instant" /\ run[o].at = "flip" /\ old \in Slots
      /\ troubles = {} => CleanRollback(o, run[o])
      /\ troubles \subseteq {"write", "read"} => KeptRollback(o, run[o])
      /\ OnHolds => OnRollback(o, run[o])
  BY RollbackHold DEF RollbackMakeWay
<1>2. sweep' = sweep /\ overlap' = overlap /\ current' = current /\ pin' = pin /\ record' = record
  BY DEF RollbackMakeWay, Same
<1>3. CASE ~overlap /\ Trouble("docker") /\ Quit(o)
  <2>1. "docker" \in troubles' /\ Moved(o, "over") /\ ~OnHolds'
    BY <1>2, <1>3, QuitMoves DEF Trouble, OnHolds
  <2> QED
    BY <1>1, <1>2, <2>1, HoldEnds DEF SlotInv
<1>4. CASE overlap /\ Go(o, "clear") /\ Fine /\ slots' = slots /\ row' = row
  <2>1. Moved(o, "clear") /\ troubles' = troubles
    BY <1>4, GoEffect DEF Ats, SlotBase, Fine
  <2>4. ASSUME troubles = {} PROVE CleanRollback(o, run[o])'
    BY <1>1, <1>2, <1>4, <2>1, <2>4 DEF CleanRollback, CleanOld, OldRuns, Up, Moved
  <2>5. ASSUME troubles \subseteq {"write", "read"} PROVE KeptRollback(o, run[o])'
    BY <1>1, <1>2, <1>4, <2>1, <2>5 DEF KeptRollback, KeptOld, Up, Moved
  <2>6. ASSUME OnHolds PROVE OnRollback(o, run[o])'
    BY <1>1, <1>2, <1>4, <2>1, <2>6, SameRest DEF OnRollback, OnOld, Dirty, Up, Moved
  <2> QED
    BY <1>1, <1>2, <2>1, <2>4, <2>5, <2>6, OtherSlot, RollbackGoesOn DEF OnHolds, SlotInv, GoesOn, Moved, Holding
<1>5. CASE ~overlap /\ With(old, Halted(old)) /\ Go(o, "clear") /\ Fine /\ row' = row
  <2>1. Moved(o, "clear") /\ troubles' = troubles
    BY <1>5, GoEffect DEF Ats, SlotBase, Fine
  <2>2. new = Other(old) /\ old # None
    BY <1>1, OtherSlot DEF Holding
  <2>3. /\ slots'[new] = slots[new] /\ slots'[old].state # "up" /\ slots'[old].ok = slots[old].ok
        /\ slots'[old].keep = slots[old].keep /\ slots'[old].by = slots[old].by
        /\ slots[old].state = "up" => slots'[old].state = "down"
    BY <1>1, <1>5, <2>2, SlotForms, WithEffect DEF SlotBase
  <2>4. ASSUME troubles = {} PROVE CleanRollback(o, run[o])'
    BY <1>1, <1>2, <1>5, <2>1, <2>2, <2>3, <2>4 DEF CleanRollback, CleanOld, OldRuns, Up, Moved
  <2>5. ASSUME troubles \subseteq {"write", "read"} PROVE KeptRollback(o, run[o])'
    BY <1>1, <1>2, <1>5, <2>1, <2>2, <2>3, <2>5 DEF KeptRollback, KeptOld, Up, Moved
  <2> QED
    BY <1>1, <1>2, <1>5, <2>1, <2>4, <2>5, OtherSlot, RollbackGoesOn DEF OnHolds, SlotInv, GoesOn, Moved, Holding
<1> QED
  BY <1>3, <1>4, <1>5 DEF RollbackMakeWay

LEMMA RollbackStartKeeps ==
  ASSUME SlotAssumption, SlotBase, SlotInv, NEW o \in Runs, RollbackStart(o)
  PROVE  SlotInv'
<1> DEFINE old == run[o].old
           new == run[o].new
<1>1. /\ o \in Holders /\ Holding(o) /\ run[o].kind = "instant" /\ run[o].at = "clear" /\ old \in Slots
      /\ troubles = {} => CleanRollback(o, run[o])
      /\ troubles \subseteq {"write", "read"} => KeptRollback(o, run[o])
      /\ OnHolds => OnRollback(o, run[o])
  BY RollbackHold DEF RollbackStart
<1>2. sweep' = sweep /\ overlap' = overlap /\ current' = current /\ pin' = pin /\ record' = record
  BY DEF RollbackStart, Same
<1> DEFINE half == [slots EXCEPT ![new].state = "up"]
<1>3. CASE slots' \in {Restarted(o, slots), Restarted(o, half)} /\ Quit(o) /\ Trouble("docker")
  <2>1. "docker" \in troubles' /\ Moved(o, "over") /\ troubles' = troubles \cup {"docker"}
    BY <1>2, <1>3, QuitMoves DEF Trouble
  <2>2. ASSUME OnHolds' PROVE OnRest'
    <3>1. troubles = {} /\ OnHolds /\ Dirty'
      BY <1>2, <1>3, <2>1, <2>2, FirstTrouble DEF OnHolds, Dirty
    <3>2. slots' \in {slots, half}
      BY <1>3, <3>1 DEF OnHolds, Restarted
    <3>3. slots'[old] = slots[old]
      BY <1>1, <3>2, OtherSlot DEF Holding
    <3>4. CleanOld(run[o]) /\ OnOld(run[o])
      BY <1>1, <3>1 DEF CleanRollback, OnRollback
    <3> HIDE DEF half
    <3> QED
      BY <1>1, <1>2, <3>1, <3>3, <3>4, OtherSlot DEF CleanOld, OnOld, OnRest, ActiveSlot, Up
  <2> QED
    BY <1>1, <1>2, <2>1, <2>2, HoldEnds DEF SlotInv
<1>4. CASE With(new, Started(new)) /\ Go(o, "probing") /\ Fine /\ row' = row
  <2>1. Moved(o, "probing") /\ troubles' = troubles
    BY <1>4, GoEffect DEF Ats, SlotBase, Fine
  <2>2. old = Other(new) /\ old # None /\ new \in Slots
    BY <1>1, OtherSlot DEF Holding
  <2>3. slots'[old] = slots[old] /\ slots'[new].state = "up" /\ slots'[new].keep
    BY <1>4, <2>2, SlotForms, WithEffect DEF SlotBase
  <2>4. ASSUME troubles = {} PROVE CleanRollback(o, run[o])'
    BY <1>1, <1>2, <1>4, <2>1, <2>2, <2>3, <2>4 DEF CleanRollback, CleanOld, OldRuns, Up, Moved
  <2>5. ASSUME troubles \subseteq {"write", "read"} PROVE KeptRollback(o, run[o])'
    BY <1>1, <1>2, <2>1, <2>2, <2>3, <2>5 DEF KeptRollback, KeptOld, Up, Moved
  <2>6. ASSUME OnHolds PROVE OnRollback(o, run[o])'
    BY <1>1, <1>2, <2>1, <2>2, <2>3, <2>6 DEF OnRollback, OnOld, Dirty, Up, Moved
  <2> QED
    BY <1>1, <1>2, <2>1, <2>4, <2>5, <2>6, OtherSlot, RollbackGoesOn DEF OnHolds, SlotInv, GoesOn, Moved, Holding
<1> QED
  BY <1>3, <1>4 DEF RollbackStart

LEMMA RollbackProbeKeeps ==
  ASSUME SlotAssumption, SlotBase, SlotInv, NEW o \in Runs, RollbackProbe(o)
  PROVE  SlotInv'
<1> DEFINE old == run[o].old
           new == run[o].new
           dropped == [slots EXCEPT ![new] = [Halted(new) EXCEPT !.ok = FALSE]]
<1>1. /\ o \in Holders /\ Holding(o) /\ run[o].kind = "instant" /\ run[o].at = "probing" /\ old \in Slots
      /\ troubles = {} => CleanRollback(o, run[o])
      /\ troubles \subseteq {"write", "read"} => KeptRollback(o, run[o])
      /\ OnHolds => OnRollback(o, run[o])
  BY RollbackHold DEF RollbackProbe
<1>2. /\ sweep' = sweep /\ overlap' = overlap /\ current' = current /\ pin' = pin /\ record' = record
      /\ troubles' = troubles
  BY DEF RollbackProbe, Same
<1>3. old = Other(new) /\ old # None /\ new \in Slots /\ new = Other(old) /\ slots \in [Slots -> SlotRow]
  BY <1>1, OtherSlot DEF Holding
<1>4. CASE slots' = Restarted(o, dropped) /\ Quit(o)
  <2>1. Moved(o, "over")
    BY <1>4, QuitMoves
  <2>2. /\ [Halted(new) EXCEPT !.ok = FALSE] \in SlotRow /\ [Halted(new) EXCEPT !.ok = FALSE].state # "up"
    <3>1. Halted(new) \in SlotRow /\ Halted(new).state # "up"
      BY <1>3, SlotForms DEF SlotBase
    <3> QED
      BY <3>1 DEF SlotRow
  <2>3. dropped \in [Slots -> SlotRow] /\ dropped[new].state # "up" /\ dropped[old] = slots[old]
    BY <1>3, <2>2, OtherSlot
  <2> HIDE DEF dropped
  <2>4. /\ slots' \in [Slots -> SlotRow] /\ slots'[new].state # "up"
        /\ slots'[old].ok = slots[old].ok /\ slots'[old].keep = slots[old].keep /\ slots'[old].by = slots[old].by
        /\ overlap => slots'[old] = slots[old]
        /\ ~overlap => slots'[old].state = (IF slots[old].state = "down" THEN "up" ELSE slots[old].state)
    BY <1>1, <1>3, <1>4, <2>3, RestartedType DEF SlotBase
  <2>5. ASSUME troubles = {} PROVE CleanRest'
    <3>1. CleanRollback(o, run[o])
      BY <1>1, <2>5
    <3>2. CleanOld(run[o]) /\ pin = None /\ (~overlap => slots[old].keep) /\ record.op # 0
      BY <1>1, <3>1 DEF CleanRollback
    <3>3. slots'[old].state = "up" /\ slots'[old].keep
      BY <1>1, <1>3, <2>4, <3>2 DEF CleanOld, OldRuns, Up
    <3> QED
      BY <1>1, <1>2, <1>3, <2>4, <3>2, <3>3, ReturnsClean
  <2>6. ASSUME troubles \subseteq {"write", "read"} PROVE KeptRest'
    <3>1. KeptOld(run[o], ~overlap) /\ (~overlap => slots[old].state = "down")
      BY <1>1, <2>6 DEF KeptRollback
    <3>2. slots'[old].state = "up"
      BY <1>3, <2>4, <3>1 DEF KeptOld, Up
    <3> QED
      BY <1>1, <1>2, <1>3, <2>4, <3>1, <3>2, ReturnsKept
  <2>7. ASSUME OnHolds PROVE OnRest'
    <3>1. OnOld(run[o]) /\ overlap
      BY <1>1, <2>7 DEF OnRollback, OnHolds
    <3>2. Dirty' = Dirty /\ slots'[Other(new)] = slots[Other(new)]
      BY <1>2, <1>3, <2>4, <3>1 DEF Dirty
    <3> QED
      BY <1>1, <1>2, <2>4, <3>1, <3>2, ReturnsOn
  <2> QED
    BY <1>1, <1>2, <2>1, <2>5, <2>6, <2>7, HoldEnds DEF SlotInv, OnHolds
<1>5. CASE Up(new) /\ With(new, [slots[new] EXCEPT !.ok = TRUE]) /\ Go(o, "healthy") /\ row' = row
  <2>1. Moved(o, "healthy")
    BY <1>5, GoEffect DEF Ats, SlotBase
  <2>2. /\ [slots[new] EXCEPT !.ok = TRUE] \in SlotRow /\ [slots[new] EXCEPT !.ok = TRUE].ok
        /\ [slots[new] EXCEPT !.ok = TRUE].state = slots[new].state
        /\ [slots[new] EXCEPT !.ok = TRUE].keep = slots[new].keep
    <3>1. slots[new] \in SlotRow
      BY <1>3
    <3> QED
      BY <3>1 DEF SlotRow
  <2>3. slots'[old] = slots[old] /\ slots'[new].state = "up" /\ slots'[new].ok /\ slots'[new].keep = slots[new].keep
    BY <1>3, <1>5, <2>2, WithEffect DEF SlotBase, Up
  <2>4. ASSUME troubles = {} PROVE CleanRollback(o, run[o])'
    BY <1>1, <1>2, <1>3, <1>5, <2>1, <2>3, <2>4 DEF CleanRollback, CleanOld, OldRuns, Up, Moved
  <2>0. \A s \in Slots : s = new \/ s = old
    BY <1>3, TwoSlots
  <2>5. ASSUME troubles \subseteq {"write", "read"} PROVE KeptRollback(o, run[o])'
    BY <1>1, <1>2, <1>3, <2>0, <2>1, <2>3, <2>5 DEF KeptRollback, KeptOld, Sound, Serves, Up, Moved
  <2>6. ASSUME OnHolds PROVE OnRollback(o, run[o])'
    <3>1. OnOld(run[o]) /\ OnOld(run[o])'
      BY <1>1, <1>2, <1>3, <2>1, <2>3, <2>6 DEF OnRollback, OnOld, Dirty, Up, Moved
    <3>2. OnNew(run[o])'
      BY <1>2, <1>3, <2>0, <2>1, <2>3, <3>1 DEF OnNew, OnOld, Sound, Serves, Dirty, Up, Moved
    <3> QED
      BY <2>1, <3>1, <3>2 DEF OnRollback, Moved
  <2> QED
    BY <1>1, <1>2, <2>1, <2>4, <2>5, <2>6, OtherSlot, RollbackGoesOn DEF OnHolds, SlotInv, GoesOn, Moved, Holding
<1> QED
  BY <1>4, <1>5 DEF RollbackProbe

LEMMA RollbackStopKeeps ==
  ASSUME SlotAssumption, SlotBase, SlotInv, NEW o \in Runs, RollbackStop(o)
  PROVE  SlotInv'
<1> DEFINE old == run[o].old
           new == run[o].new
<1>1. /\ o \in Holders /\ Holding(o) /\ run[o].kind = "instant" /\ run[o].at = "healthy" /\ old \in Slots
      /\ troubles = {} => CleanRollback(o, run[o])
      /\ troubles \subseteq {"write", "read"} => KeptRollback(o, run[o])
      /\ OnHolds => OnRollback(o, run[o])
  BY RollbackHold DEF RollbackStop
<1>2. /\ Moved(o, "stopped") /\ sweep' = sweep /\ overlap' = overlap /\ current' = current /\ pin' = pin
      /\ record' = record
  BY GoEffect DEF RollbackStop, Same, Unrecorded, Ats, SlotBase
<1>3. old = Other(new) /\ old # None /\ new \in Slots /\ new = Other(old) /\ slots \in [Slots -> SlotRow]
  BY <1>1, OtherSlot DEF Holding
<1>4. \/ With(old, Demoted(old)) /\ troubles' = troubles
      \/ /\ slots' = slots /\ "docker" \in troubles' /\ troubles' = troubles \cup {"docker"}
         /\ (MaxTroubles <= 1 /\ "crash" \notin troubles' => troubles = {} /\ troubles' = {"docker"})
  BY FirstTrouble DEF RollbackStop, Fine, Trouble
<1>5. CASE With(old, Demoted(old)) /\ troubles' = troubles
  <2>1. slots'[new] = slots[new] /\ slots'[old].state # "up" /\ slots'[old].ok = slots[old].ok
    BY <1>1, <1>3, <1>5, SlotForms, WithEffect DEF SlotBase
  <2>0. \A s \in Slots : s = new \/ s = old
    BY <1>3, TwoSlots
  <2>4. ASSUME troubles = {} PROVE CleanRollback(o, run[o])'
    BY <1>1, <1>2, <1>3, <2>1, <2>4 DEF CleanRollback, CleanOld, Up, Moved
  <2>5. ASSUME troubles \subseteq {"write", "read"} PROVE KeptRollback(o, run[o])'
    BY <1>1, <1>2, <1>3, <2>0, <2>1, <2>5 DEF KeptRollback, Sound, Serves, Up, Moved
  <2>6. ASSUME OnHolds PROVE OnRollback(o, run[o])'
    BY <1>1, <1>2, <1>3, <1>5, <2>0, <2>1, <2>6 DEF OnRollback, OnNew, Dirty, Sound, Serves, Up, Moved
  <2> QED
    BY <1>1, <1>2, <1>5, <2>4, <2>5, <2>6, OtherSlot, RollbackGoesOn DEF OnHolds, SlotInv, GoesOn, Moved, Holding
<1>6. ASSUME slots' = slots, "docker" \in troubles', troubles' = troubles \cup {"docker"},
             MaxTroubles <= 1 /\ "crash" \notin troubles' => troubles = {} /\ troubles' = {"docker"}
      PROVE  SlotInv'
  <2>1. ASSUME OnHolds' PROVE OnRollback(o, run[o])'
    <3>1. OnHolds /\ Dirty'
      BY <1>2, <1>6, <2>1 DEF OnHolds, Dirty
    <3>2. OnNew(run[o])
      BY <1>1, <3>1 DEF OnRollback
    <3> QED
      BY <1>2, <1>6, <3>1, <3>2 DEF OnRollback, OnNew, Serves, Up, Moved
  <2> QED
    BY <1>1, <1>2, <1>6, <2>1, OtherSlot, RollbackGoesOn DEF SlotInv, GoesOn, Moved, Holding
<1> QED
  BY <1>4, <1>5, <1>6

LEMMA RollbackPointKeeps ==
  ASSUME SlotAssumption, SlotBase, SlotInv, NEW o \in Runs, RollbackPoint(o)
  PROVE  SlotInv'
<1>1. /\ o \in Holders /\ Holding(o) /\ run[o].kind = "instant" /\ run[o].at = "stopped" /\ run[o].old \in Slots
      /\ troubles = {} => CleanRollback(o, run[o])
      /\ troubles \subseteq {"write", "read"} => KeptRollback(o, run[o])
      /\ OnHolds => OnRollback(o, run[o])
  BY RollbackHold DEF RollbackPoint
<1>2. /\ Moved(o, "pointed") /\ sweep' = sweep /\ overlap' = overlap /\ pin' = pin
      /\ record' = record /\ slots' = slots
  BY GoEffect DEF RollbackPoint, Same, Unrecorded, Ats, SlotBase
<1>4. \/ current' = run[o].new /\ troubles' = troubles
      \/ /\ current' = current /\ "write" \in troubles' /\ troubles' = troubles \cup {"write"}
         /\ (MaxTroubles <= 1 /\ "crash" \notin troubles' => troubles = {} /\ troubles' = {"write"})
  BY FirstTrouble DEF RollbackPoint, Fine, Trouble, Points
<1>5. ASSUME troubles' = {} PROVE CleanRollback(o, run[o])'
  BY <1>1, <1>2, <1>4, <1>5 DEF CleanRollback, Up, Moved
<1>6. ASSUME troubles' \subseteq {"write", "read"} PROVE KeptRollback(o, run[o])'
  BY <1>1, <1>2, <1>4, <1>6 DEF KeptRollback, Sound, Serves, Up, Moved
<1>7. ASSUME OnHolds' PROVE OnRollback(o, run[o])'
  <2>1. OnHolds /\ Dirty' = Dirty /\ (current' = run[o].new \/ ~Dirty)
    BY <1>2, <1>4, <1>7 DEF OnHolds, Dirty
  <2>2. OnNew(run[o])
    BY <1>1, <2>1 DEF OnRollback
  <2> QED
    BY <1>2, <2>1, <2>2 DEF OnRollback, OnNew, Sound, Serves, Up, Moved
<1> QED
  BY <1>1, <1>2, <1>5, <1>6, <1>7, OtherSlot, RollbackGoesOn DEF SlotInv, GoesOn, Moved, Holding

LEMMA RollbackDoneKeeps ==
  ASSUME SlotAssumption, SlotBase, SlotInv, NEW o \in Runs, RollbackDone(o)
  PROVE  SlotInv'
<1>1. /\ o \in Holders /\ Holding(o) /\ run[o].kind = "instant" /\ run[o].at = "pointed" /\ run[o].old \in Slots
      /\ troubles = {} => CleanRollback(o, run[o])
      /\ troubles \subseteq {"write", "read"} => KeptRollback(o, run[o])
      /\ OnHolds => OnRollback(o, run[o])
  BY RollbackHold DEF RollbackDone
<1>2. /\ Moved(o, "over") /\ sweep' = sweep /\ overlap' = overlap /\ pin' = pin /\ troubles' = troubles
      /\ slots' = slots /\ current' = current
      /\ record'.op = o /\ record'.slot = run[o].new /\ record'.by = slots[run[o].new].by /\ o # 0
  BY GoEffect DEF RollbackDone, Succeed, Same, Ats, SlotBase, Runs
<1>3. ASSUME troubles = {} PROVE CleanRest'
  <2>1. /\ pin = None /\ Up(run[o].new) /\ slots[run[o].new].keep /\ slots[run[o].new].ok
        /\ ~Up(run[o].old) /\ current = run[o].new
    BY <1>1, <1>3 DEF CleanRollback
  <2>2. Other(run[o].new) = run[o].old /\ run[o].new \in Slots
    BY <1>1 DEF Holding
  <2> QED
    BY <1>2, <2>1, <2>2 DEF CleanRest, Stands, Serves, Up
<1>4. ASSUME troubles \subseteq {"write", "read"} PROVE KeptRest'
  BY <1>1, <1>2, <1>4, NewKept DEF KeptRollback
<1>5. ASSUME OnHolds PROVE OnRest'
  <2>1. OnNew(run[o]) /\ Dirty' = Dirty /\ (current = run[o].new \/ ~Dirty)
    BY <1>1, <1>2, <1>5 DEF OnRollback, Dirty
  <2>2. slots'[run[o].new].state = "up" /\ slots'[run[o].new].ok /\ (~Dirty' => Sound')
    BY <1>2, <2>1 DEF OnNew, Serves, Sound, Up
  <2> QED
    BY <1>1, <1>2, <2>1, <2>2, NewOn DEF Holding
<1> QED
  BY <1>1, <1>2, <1>3, <1>4, <1>5, HoldEnds DEF SlotInv, OnHolds

LEMMA RollbackKeeps ==
  ASSUME SlotAssumption, Prompt, SlotBase, SlotInv, Owns, NEW o \in Runs, RollbackStep(o)
  PROVE  SlotInv'
BY RollbackPickKeeps, RollbackMakeWayKeeps, RollbackStartKeeps, RollbackProbeKeeps, RollbackStopKeeps,
   RollbackPointKeeps, RollbackDoneKeeps, Zenon DEF RollbackStep

LEMMA DeployKeeps ==
  ASSUME SlotAssumption, Prompt, SlotBase, SlotInv, Owns, NEW o \in Runs, DeployStep(o)
  PROVE  SlotInv'
BY PickSlotKeeps, ClearNewSlotKeeps, LeaveEarlyKeeps, PassFenceKeeps, MakeWayKeeps, ComposeUpKeeps,
   CheckAbortKeeps, GiveUpKeeps, BecomeHealthyKeeps, FailBeforeCommitKeeps, CommitKeeps, CommitRefusedKeeps,
   PointCurrentKeeps, FailAfterCommitKeeps, PinNewSlotKeeps, StopOldSlotKeeps, UnpinKeeps, Zenon DEF DeployStep

-------------------------------------------------------------------------------
(* What serves, and what Docker would bring back.                          *)

\* Some slot is up unless `current` names none: then so is the active one, if any.
LEMMA ActiveIsUp ==
  ASSUME current \in Slots \cup {None}, current = None \/ \E s \in Slots : Up(s)
  PROVE  ActiveSlot = None \/ Up(ActiveSlot)
BY OtherSlot DEF ActiveSlot, Slots, Other, None

LEMMA HolderPhase ==
  ASSUME SlotBase, NEW o \in Holders
  PROVE  /\ o \in Runs /\ run[o].new \in Slots
         /\ run[o].kind = "deploy" => run[o].at \in DeployAts \ {"claimed"}
         /\ run[o].kind = "instant" => run[o].at \in RollbackAts \ {"claimed"} /\ run[o].old \in Slots
<1>1. o \in Runs /\ run[o].at \notin {"new", "over", "dead"} /\ run[o].new # None
  BY DEF Holders, Active
<1>2. run[o] \in RunRow /\ Shaped(run[o])
  BY <1>1, TypesOf
<1> QED
  BY <1>1, <1>2 DEF Shaped, RunRow

\* A slot serves, or none has yet.
LEMMA OnServes ==
  ASSUME SlotBase, SlotInv, OnHolds
  PROVE  /\ record.op # 0 => \E s \in Slots : Serves(s)
         /\ ActiveSlot = None \/ Up(ActiveSlot)
<1>0. current \in Slots \cup {None}
  BY DEF SlotBase, SlotTyped
<1>1. CASE Holders = {}
  <2>1. OnRest
    BY <1>1 DEF SlotInv, On, OnHolds
  <2> QED
    BY <2>1, ActiveSlotType DEF OnRest, Serves
<1>2. ASSUME NEW o \in Holders PROVE (record.op # 0 => \E s \in Slots : Serves(s)) /\ (ActiveSlot = None \/ Up(ActiveSlot))
  <2>1. \/ run[o].kind = "deploy"  /\ OnDeploy(o, run[o])
        \/ run[o].kind = "instant" /\ OnRollback(o, run[o])
    BY DEF SlotInv, On, OnHolds
  <2>2. Holding(o) /\ o \in Runs
    BY Hold, HolderPhase DEF SlotInv
  <2>3. OnOld(run[o]) \/ OnNew(run[o])
    BY <2>1, HolderPhase DEF OnDeploy, OnRollback, DeployAts, RollbackAts
  <2>4. (record.op # 0 => \E s \in Slots : Serves(s)) /\ (current = None \/ \E s \in Slots : Up(s))
    BY <2>2, <2>3 DEF OnOld, OnNew, Serves, Holding
  <2> QED
    BY <1>0, <2>4, ActiveIsUp
<1> QED
  BY <1>1, <1>2

\* With nothing wrong so far, what Docker would bring back serves.
Firm ==
  \/ current # None /\ Serves(current) /\ slots[current].keep
  \/ current = None /\ record.op = 0
  \/ current = None /\ \E s \in Slots : Serves(s) /\ slots[s].keep /\ slots[Other(s)].state = "gone"
  \/ /\ current # None /\ slots[current].ok
     /\ Serves(Other(current)) /\ slots[Other(current)].keep

LEMMA FirmHolds ==
  ASSUME SlotBase, SlotInv, troubles = {}, overlap
  PROVE  Firm
<1>1. CASE Holders = {}
  <2>1. CleanRest
    BY <1>1 DEF SlotInv, Clean
  <2> QED
    BY <2>1, OtherSlot DEF CleanRest, Firm, Stands, Serves
<1>2. ASSUME NEW o \in Holders PROVE Firm
  <2>1. Holding(o) /\ o \in Runs
    BY Hold, HolderPhase DEF SlotInv
  <2>2. ASSUME CleanOld(run[o]), OldRuns(run[o]) PROVE Firm
    BY <2>1, <2>2, OtherSlot DEF CleanOld, Firm, Serves, Holding
  <2>3. CASE run[o].kind = "deploy" /\ CleanDeploy(o, run[o])
    <3>1. CASE run[o].at \in {"picked", "cleared", "fenced", "clear", "started", "probing", "healthy"}
      BY <2>1, <2>2, <2>3, <3>1 DEF CleanDeploy, OldRuns, Holding
    <3>2. CASE run[o].at = "committed"
      BY <2>1, <2>3, <3>2, OtherSlot DEF CleanDeploy, Stands, Firm, Serves, Holding
    <3>3. CASE run[o].at \in {"pointed", "pinned", "stopped"}
      BY <2>1, <2>3, <3>3, OtherSlot DEF CleanDeploy, Stands, Firm, Serves, Holding
    <3> QED
      BY <2>3, <3>1, <3>2, <3>3, HolderPhase DEF DeployAts
  <2>4. CASE run[o].kind = "instant" /\ CleanRollback(o, run[o])
    <3>1. CASE run[o].at \in {"flip", "clear", "probing", "healthy"}
      BY <2>2, <2>4, <3>1 DEF CleanRollback, OldRuns
    <3>2. CASE run[o].at \in {"stopped", "pointed"}
      BY <2>1, <2>4, <3>2, HolderPhase, OtherSlot DEF CleanRollback, Firm, Serves, Holding
    <3> QED
      BY <2>4, <3>1, <3>2, HolderPhase DEF RollbackAts
  <2> QED
    BY <2>3, <2>4 DEF SlotInv, Clean
<1> QED
  BY <1>1, <1>2

\* It does when the process or Docker has died.
LEMMA FirmLasts ==
  ASSUME Firm, Dirty', current \in Slots \cup {None}, current' = current, record' = record,
         \A s \in Slots : /\ slots'[s].ok = slots[s].ok
                          /\ slots[s].state = "up" /\ slots[s].keep => slots'[s].state = "up"
                          /\ slots[s].state = "gone" => slots'[s].state = "gone"
  PROVE  OnRest'
<1>1. ActiveSlot' = IF current # None
                    THEN IF slots'[current].state # "up" /\ slots'[Other(current)].state = "up" THEN Other(current) ELSE current
                    ELSE IF slots'["blue"].state = "up" THEN "blue" ELSE IF slots'["green"].state = "up" THEN "green" ELSE None
  BY DEF ActiveSlot, Up
<1>2. CASE current # None /\ Serves(current) /\ slots[current].keep
  <2>1. ActiveSlot' = current
    BY <1>1, <1>2 DEF Serves, Up
  <2> QED
    BY <1>2, <2>1 DEF OnRest, Serves, Up
<1>3. CASE current = None /\ record.op = 0
  <2>1. ActiveSlot' # None => slots'[ActiveSlot'].state = "up"
    BY <1>1, <1>3
  <2> QED
    BY <1>3, <2>1 DEF OnRest, Up
<1>4. ASSUME current = None, NEW s \in Slots, Serves(s), slots[s].keep, slots[Other(s)].state = "gone" PROVE OnRest'
  <2>1. slots'[s].state = "up" /\ slots'[Other(s)].state = "gone" /\ slots'[s].ok
    BY <1>4, OtherSlot DEF Serves, Up
  <2>2. ActiveSlot' = s
    BY <1>1, <1>4, <2>1 DEF Slots, Other
  <2> QED
    BY <1>4, <2>1, <2>2, OtherSlot DEF OnRest, Up
<1>5. CASE current # None /\ slots[current].ok /\ Serves(Other(current)) /\ slots[Other(current)].keep
  <2>1. slots'[Other(current)].state = "up" /\ slots'[Other(current)].ok /\ slots'[current].ok
    BY <1>5, OtherSlot DEF Serves, Up
  <2>2. (ActiveSlot' = current /\ slots'[current].state = "up") \/ ActiveSlot' = Other(current)
    BY <1>1, <1>5, <2>1
  <2> QED
    BY <1>5, <2>1, <2>2, OtherSlot DEF OnRest, Up
<1> QED
  BY <1>2, <1>3, <1>4, <1>5 DEF Firm

\* Nothing but the row and what has gone wrong changes.
LEMMA OnStays ==
  ASSUME On, Holders' = Holders, \A q \in Holders : run'[q] = run[q],
         overlap' = overlap, slots' = slots, current' = current, pin' = pin, record' = record,
         sweep' = sweep, OnHolds' => OnHolds /\ Dirty' = Dirty
  PROVE  On'
<1> SUFFICES ASSUME OnHolds' PROVE On'
  BY DEF On, OnHolds
<1>1. OnHolds /\ Dirty' = Dirty
  OBVIOUS
<1>2. OnRest' = OnRest /\ Up(current)' = Up(current)
  BY <1>1 DEF OnRest, ActiveSlot, Sound, Up
<1>3. ASSUME NEW q \in Holders, OnDeploy(q, run[q]) PROVE OnDeploy(q, run[q])'
  BY <1>1, <1>2, <1>3 DEF OnDeploy, OnOld, OnNew, Sound, Serves, Up
<1>4. ASSUME NEW q \in Holders, OnRollback(q, run[q]) PROVE OnRollback(q, run[q])'
  BY <1>1, <1>2, <1>4 DEF OnRollback, OnOld, OnNew, Sound, Serves, Up
<1> QED
  BY <1>1, <1>2, <1>3, <1>4 DEF On, OnHolds

-------------------------------------------------------------------------------
(* Deaths, the watch, the sweep and Docker.                                *)

LEMMA DieKeeps ==
  ASSUME SlotAssumption, SlotBase, SlotInv, NEW o \in Runs, Die(o)
  PROVE  SlotInv'
<1>1. /\ Moved(o, "dead") /\ "death" \in troubles' /\ Dirty'
      /\ sweep' = sweep /\ overlap' = overlap /\ slots' = slots /\ current' = current /\ pin' = pin /\ record' = record
  BY GoEffect DEF Die, Ats, SlotBase, Trouble, Dirty
<1>2. OnHolds' => troubles = {} /\ OnHolds /\ overlap
  BY <1>1, FirstTrouble DEF Die, OnHolds
<1>3. SlotBase /\ current \in Slots \cup {None}
  BY DEF SlotBase, SlotTyped
<1>4. ASSUME OnHolds' PROVE OnRest'
  <2>1. Firm
    BY <1>2, <1>4, FirmHolds
  <2> QED
    BY <1>1, <1>3, <2>1, FirmLasts
<1>5. CASE o \in Holders
  BY <1>1, <1>4, <1>5, HoldEnds DEF SlotInv
<1>6. CASE o \notin Holders
  <2>1. Holders' = Holders
    BY <1>1, <1>6 DEF Holders, Active, Moved
  <2>2. \A q \in Holders : q \in Runs /\ run'[q] = run[q]
    BY <1>1, <1>6 DEF Moved, Holders, Active
  <2>3. OneHolder'
    BY <1>1, <2>1 DEF SlotInv, OneHolder
  <2>4. ASSUME OnHolds' PROVE On'
    <3>1. troubles = {} /\ OnHolds /\ sweep = None /\ Up(current)' = Up(current)
      BY <1>1, <1>2, <2>4 DEF SlotInv, Clean, Up
    <3>2. ASSUME NEW q \in Holders, run[q].kind = "deploy", CleanDeploy(q, run[q]), OnDeploy(q, run[q])
          PROVE  OnDeploy(q, run[q])'
      <4>1. OnRest => OnRest'
        BY <1>4, <2>4
      <4>2. OnOld(run[q]) => OnOld(run[q])'
        BY <1>1, <2>2 DEF OnOld, Up
      <4>3. OnNew(run[q]) => OnNew(run[q])'
        BY <1>1, <2>2 DEF OnNew, Serves, Up
      <4>4. run[q].at \in {"pointed", "pinned", "stopped"} => current = run[q].new
        BY <3>2 DEF CleanDeploy
      <4> QED
        BY <1>1, <2>2, <3>2, <4>1, <4>2, <4>3, <4>4 DEF OnDeploy, Up
    <3>3. ASSUME NEW q \in Holders, run[q].kind = "instant", CleanRollback(q, run[q]), OnRollback(q, run[q])
          PROVE  OnRollback(q, run[q])'
      <4>1. OnRest => OnRest'
        BY <1>4, <2>4
      <4>2. OnOld(run[q]) => OnOld(run[q])'
        BY <1>1, <2>2 DEF OnOld, Up
      <4>3. OnNew(run[q]) => OnNew(run[q])'
        BY <1>1, <2>2 DEF OnNew, Serves, Up
      <4>4. run[q].at = "pointed" => current = run[q].new
        BY <3>3 DEF CleanRollback
      <4> QED
        BY <1>1, <2>2, <3>3, <4>1, <4>2, <4>3, <4>4 DEF OnRollback, Up
    <3>4. /\ \A q \in Holders : \/ run[q].kind = "deploy"  /\ CleanDeploy(q, run[q])
                                \/ run[q].kind = "instant" /\ CleanRollback(q, run[q])
          /\ \A q \in Holders : \/ run[q].kind = "deploy"  /\ OnDeploy(q, run[q])
                                \/ run[q].kind = "instant" /\ OnRollback(q, run[q])
      BY <3>1 DEF SlotInv, Clean, On, OnHolds
    <3> QED
      BY <1>1, <1>4, <2>1, <2>2, <2>4, <3>1, <3>2, <3>3, <3>4 DEF On
  <2>5. On'
    BY <2>4 DEF On, OnHolds
  <2> QED
    BY <1>1, <2>3, <2>5 DEF SlotInv, Clean, Kept
<1> QED
  BY <1>5, <1>6

LEMMA CloseKeeps ==
  ASSUME SlotAssumption, SlotBase, SlotInv, NEW o \in Runs, CloseElsewhere(o)
  PROVE  SlotInv'
<1>1. /\ sweep' = sweep /\ overlap' = overlap /\ current' = current /\ pin' = pin /\ record' = record /\ run' = run
      /\ Holders' = Holders
  BY DEF CloseElsewhere, Holders, Active
<1>2. /\ ~(troubles' \subseteq {"write", "read"})
      /\ OnHolds' => OnHolds /\ Dirty' = Dirty
  <2>1. CASE run[o].at = "dead" /\ Fine
    BY <1>1, <2>1 DEF SlotBase, Fine, OnHolds, Dirty
  <2>2. CASE Trouble("stall")
    BY <1>1, <2>2 DEF Trouble, OnHolds, Dirty
  <2> QED
    BY <2>1, <2>2 DEF CloseElsewhere
<1>3. OnHolds' => slots' = slots
  BY <1>2, OnServes DEF CloseElsewhere
<1>4. On'
  <2>1. CASE OnHolds'
    BY <1>1, <1>2, <1>3, <2>1, OnStays DEF SlotInv
  <2>2. CASE ~OnHolds'
    BY <2>2 DEF On, OnHolds
  <2> QED
    BY <2>1, <2>2
<1> QED
  BY <1>1, <1>2, <1>4 DEF SlotInv, OneHolder, Clean, Kept

\* The watch has nothing to do unless what the invariants exclude went wrong.
LEMMA WatchLookKeeps ==
  ASSUME SlotAssumption, Prompt, SlotBase, SlotInv, NEW o \in Runs, WatchLook(o)
  PROVE  SlotInv'
<1>1. /\ Holders = {} /\ sweep = None /\ sweep' = sweep /\ overlap' = overlap /\ troubles' = troubles
      /\ \A p \in Runs \ {o} : run'[p] = run[p]
  BY DEF WatchLook, Free, Same, SlotBase, SlotTyped
<1>2. record.op # 0 /\ record.slot \in Slots /\ ActiveSlot = record.slot /\ slots[record.slot].state = "down"
  BY DEF WatchLook, Crashed, SlotBase, None
<1>3. current \in Slots \cup {None} /\ ~Up(ActiveSlot) /\ ActiveSlot # None
  BY <1>2, OtherSlot DEF SlotBase, SlotTyped, Up
<1>4. current # None /\ \A s \in Slots : ~Up(s)
  BY <1>3, ActiveIsUp
<1>5. troubles # {}
  BY <1>1, <1>2, <1>4 DEF SlotInv, Clean, CleanRest, Stands, Serves
<1>6. ~(troubles \subseteq {"write", "read"})
  BY <1>1, <1>4 DEF SlotInv, Kept, KeptRest
<1>7. ~OnHolds
  BY <1>1, <1>3 DEF SlotInv, On, OnHolds, OnRest
<1>8. Holders' \subseteq {o}
  BY <1>1 DEF Holders, Active
<1> QED
  BY <1>1, <1>5, <1>6, <1>7, <1>8 DEF SlotInv, OneHolder, Clean, Kept, On, OnHolds

LEMMA WatchKeeps ==
  ASSUME SlotAssumption, SlotBase, SlotInv, NEW o \in Runs, WatchStep(o)
  PROVE  SlotInv'
<1>1. PICK at \in {"seen", "taken", "started", "pointed"} : Watches(o, at)
  BY DEF WatchStep, WatchTake, WatchRestore, WatchPoint, WatchVerify
<1>2. run[o].kind = "watch" /\ run[o].at = at /\ run[o].new \in Slots
  BY <1>1, WatchHas
<1>3. o \in Holders
  BY <1>2, OtherSlot DEF Holders, Active
<1>4. troubles # {} /\ ~(troubles \subseteq {"write", "read"}) /\ ~OnHolds
  BY <1>2, <1>3 DEF SlotInv, Clean, Kept, On, OnHolds
<1>5. overlap' = overlap /\ sweep' = sweep /\ troubles \subseteq troubles'
  BY DEF WatchStep, WatchTake, WatchRestore, WatchPoint, WatchVerify, Same, Fine, Trouble
<1>6. \A p \in Runs \ {o} : run'[p] = run[p]
  BY DEF WatchStep, WatchTake, WatchRestore, WatchPoint, WatchVerify, Go, SlotBase, SlotTyped
<1>7. Holders' \subseteq Holders
  BY <1>3, <1>6 DEF Holders, Active
<1> QED
  BY <1>4, <1>5, <1>7 DEF SlotInv, OneHolder, Clean, Kept, On, OnHolds

LEMMA TakesKeeps ==
  ASSUME SlotBase, SlotInv, NEW o \in Runs, NEW kind, Takes(o, kind)
  PROVE  SlotInv'
<1>1. run[o].new = None /\ run[o].at = "new" /\ run[o] \in RunRow /\ run \in [Runs -> RunRow]
  BY TypesOf DEF Takes, Shaped, SlotBase, SlotTyped
<1>2. run' = [run EXCEPT ![o] = [run[o] EXCEPT !.kind = kind, !.at = "claimed"]]
  BY <1>1 DEF Takes
<1>3. run'[o].new = None /\ \A p \in Runs \ {o} : run'[p] = run[p]
  BY <1>1, <1>2 DEF RunRow
<1>4. Beside(o) /\ troubles' = troubles
  BY <1>1, <1>3 DEF Takes, Beside, Holders, Active, Runs
<1> QED
  BY <1>4, BesideKeeps

LEMMA SweepLookKeeps ==
  ASSUME SlotBase, SlotInv, SweepLook
  PROVE  SlotInv'
<1>1. /\ Holders = {} /\ Holders' = {} /\ sweep' = Other(current) /\ current' = current /\ current \in Slots
      /\ overlap' = overlap /\ slots' = slots /\ pin' = pin /\ record' = record /\ troubles' = troubles
      /\ \A s \in Slots : Up(s)
  BY DEF SweepLook, Holders, Active, SlotBase, SlotTyped
<1>2. ASSUME troubles = {} PROVE FALSE
  <2>1. CleanRest
    BY <1>1, <1>2 DEF SlotInv, Clean
  <2> QED
    BY <1>1, <2>1, OtherSlot DEF CleanRest, Stands, Up
<1>3. Up(current)' /\ current # None
  BY <1>1, OtherSlot DEF Up
<1> QED
  BY <1>1, <1>2, <1>3, SameRest DEF SlotInv, OneHolder, Clean, Kept, On

LEMMA SweepStopKeeps ==
  ASSUME SlotAssumption, SlotBase, SlotInv, SweepStop
  PROVE  SlotInv'
<1>1. /\ Holders = {} /\ Holders' = {} /\ sweep' = None /\ current' = current /\ sweep \in Slots
      /\ overlap' = overlap /\ pin' = pin /\ record' = record
  BY DEF SweepStop, SlotInv, OneHolder, Holders, Active, SlotBase, SlotTyped
<1>2. troubles # {}
  BY DEF SweepStop, SlotInv, Clean
<1>3. CASE With(sweep, Pinned(sweep)) /\ Trouble("docker")
  <2>1. "docker" \in troubles' /\ ~(MaxTroubles <= 1 /\ "crash" \notin troubles')
    BY <1>2, <1>3, FirstTrouble DEF Trouble
  <2> QED
    BY <1>1, <2>1 DEF SlotInv, OneHolder, Clean, Kept, On
<1>4. CASE With(sweep, Demoted(sweep)) /\ Fine
  <2>1. slots'[sweep].state # "up" /\ slots'[Other(sweep)] = slots[Other(sweep)] /\ slots'[sweep].ok = slots[sweep].ok
    BY <1>1, <1>4, SlotForms, WithEffect DEF SlotBase
  <2>2. troubles' = troubles /\ Dirty' = Dirty /\ (OnHolds' => OnHolds)
    BY <1>1, <1>4 DEF Fine, Dirty, OnHolds
  <2>3. \A s \in Slots : s = sweep \/ s = Other(sweep)
    BY <1>1, TwoSlots
  <2>4. ASSUME troubles \subseteq {"write", "read"} PROVE KeptRest'
    <3>1. KeptRest /\ current # None /\ sweep = Other(current) /\ Up(current)
      BY <1>1, <2>4, OtherSlot DEF SlotInv, Kept
    <3>2. current = Other(sweep)
      BY <1>1, <3>1, OtherSlot DEF SlotBase, SlotTyped
    <3> QED
      BY <1>1, <2>1, <2>3, <3>1, <3>2, OtherSlot DEF KeptRest, Sound, Up
  <2>5. ASSUME OnHolds PROVE OnRest'
    <3>1. OnRest /\ current # None /\ sweep = Other(current) /\ Up(current)
      BY <1>1, <2>5, OtherSlot DEF SlotInv, On, OnHolds
    <3>2. current = Other(sweep) /\ current \in Slots
      BY <1>1, <3>1, OtherSlot DEF SlotBase, SlotTyped
    <3>3. ActiveSlot = current /\ slots'[current] = slots[current]
      BY <2>1, <3>1, <3>2 DEF ActiveSlot
    <3>4. ActiveSlot' = current
      BY <1>1, <3>1, <3>3 DEF ActiveSlot, Up
    <3> QED
      BY <1>1, <2>1, <2>2, <2>3, <3>1, <3>2, <3>3, <3>4 DEF OnRest, Sound, Up
  <2> QED
    BY <1>1, <1>2, <2>2, <2>4, <2>5, OtherSlot DEF SlotInv, OneHolder, Clean, Kept, On, OnHolds
<1> QED
  BY <1>3, <1>4 DEF SweepStop

LEMMA FallKeeps ==
  ASSUME SlotInv, Fall
  PROVE  SlotInv'
<1>1. Holders' = {} /\ "crash" \in troubles'
  BY DEF Fall, Holders, Active, Trouble
<1> QED
  BY <1>1 DEF SlotInv, OneHolder, Clean, Kept, On

LEMMA DaemonKeeps ==
  ASSUME SlotAssumption, SlotBase, SlotInv, DaemonRestart
  PROVE  SlotInv'
<1>1. /\ Holders' = {} /\ sweep' = None /\ "daemon" \in troubles' /\ Dirty'
      /\ overlap' = overlap /\ current' = current /\ record' = record /\ current \in Slots \cup {None}
  BY RestartEffect DEF DaemonRestart, Holders, Trouble, Dirty, SlotBase, SlotTyped
<1>2. ASSUME OnHolds' PROVE OnRest'
  <2>1. troubles = {} /\ overlap
    BY <1>1, <1>2, FirstTrouble DEF DaemonRestart, OnHolds
  <2>2. Firm
    BY <2>1, FirmHolds
  <2>3. \A s \in Slots : /\ slots'[s].ok = slots[s].ok
                         /\ slots[s].state = "up" /\ slots[s].keep => slots'[s].state = "up"
                         /\ slots[s].state = "gone" => slots'[s].state = "gone"
    BY RestartEffect, AfterRestartForms DEF SlotBase
  <2> QED
    BY <1>1, <2>2, <2>3, FirmLasts
<1> QED
  BY <1>1, <1>2 DEF SlotInv, OneHolder, Clean, Kept, On, OnHolds

LEMMA SlotInvStep ==
  ASSUME SlotAssumption, Prompt, SlotBase, SlotInv, Owns, [Next]_vars
  PROVE  SlotInv'
<1>1. CASE UNCHANGED vars
  <2>1. Holders' = Holders
    BY <1>1 DEF vars, Holders, Active
  <2> QED
    BY <1>1, <2>1, SameKeeps DEF vars
<1>2. ASSUME NEW o \in Runs, Abort(o) PROVE SlotInv'
  <2>1. Holders' = Holders
    BY <1>2 DEF Abort, Holders, Active
  <2> QED
    BY <1>2, <2>1, SameKeeps DEF Abort
<1>3. ASSUME NEW o \in Runs, StartDeploy(o) \/ StartRollback(o) PROVE SlotInv'
  BY <1>3, TakesKeeps DEF StartDeploy, StartRollback
<1> QED
  BY <1>1, <1>2, <1>3, DeployKeeps, RollbackKeeps, WatchKeeps, WatchLookKeeps, CloseKeeps, DieKeeps,
     SweepLookKeeps, SweepStopKeeps, FallKeeps, DaemonKeeps, Zenon DEF Next

LEMMA SlotInvStarts == ASSUME SlotAssumption, Init PROVE SlotInv /\ Owns
<1>1. Holders = {} /\ sweep = None /\ current = None /\ pin = None /\ record.op = 0
      /\ \A s \in Slots : slots[s].state = "gone"
  BY DEF Init, Holders, Active, NoContainers
<1>2. CleanRest /\ KeptRest
  BY <1>1 DEF CleanRest, KeptRest, Sound, Up
<1>3. OnRest
  <2>1. ActiveSlot = None
    BY <1>1 DEF ActiveSlot, Up, Slots
  <2> QED
    BY <1>1, <2>1 DEF OnRest, Sound, Up
<1>4. Owns
  BY DEF Init, Owns
<1> QED
  BY <1>1, <1>2, <1>3, <1>4 DEF SlotInv, OneHolder, Clean, Kept, On

-------------------------------------------------------------------------------
SlotsHold == SlotBase /\ SlotInv /\ Owns

LEMMA SlotsAlwaysHold ==
  ASSUME SlotAssumption, Prompt
  PROVE  Spec => []SlotsHold
<1>1. Init => SlotsHold
  BY SlotBaseStarts, SlotInvStarts DEF SlotsHold
<1>2. SlotsHold /\ [Next]_vars => SlotsHold'
  BY SlotBaseStep, SlotInvStep, OwnsStep DEF SlotsHold
<1> QED
  BY <1>1, <1>2, PTL DEF Spec

\* At rest, with nothing having failed, the newest success says what serves (RecordServes):
\* post-deploy.ts and instant-rollback.ts record what they moved traffic to.
THEOREM RecordedServes ==
  ASSUME SlotAssumption, Prompt
  PROVE  Spec => []RecordServes
<1>1. SlotsHold => RecordServes
  <2> SUFFICES ASSUME SlotsHold, AtRest, record.op # 0, troubles = {} PROVE RecordServes
    BY DEF RecordServes
  <2>1. Holders = {}
    BY DEF AtRest, Holders
  <2>2. CleanRest
    BY <2>1 DEF SlotsHold, SlotInv, Clean
  <2> QED
    BY <2>2 DEF RecordServes, CleanRest, Stands
<1> QED
  BY <1>1, SlotsAlwaysHold, PTL

\* Whatever writes and reads failed, at rest a slot of a deployed app serves
\* (OnlyHealthyStays): deploy.ts keeps a proven slot that has no other to fall back on.
THEOREM HealthyStays ==
  ASSUME SlotAssumption, Prompt
  PROVE  Spec => []OnlyHealthyStays
<1>1. SlotsHold => OnlyHealthyStays
  <2> SUFFICES ASSUME SlotsHold, AtRest, record.op # 0, troubles \subseteq {"write", "read"} PROVE OnlyHealthyStays
    BY DEF OnlyHealthyStays
  <2>1. Holders = {}
    BY DEF AtRest, Holders
  <2>2. KeptRest
    BY <2>1 DEF SlotsHold, SlotInv, Kept
  <2> QED
    BY <2>2 DEF OnlyHealthyStays, KeptRest, Sound, Serves
<1> QED
  BY <1>1, SlotsAlwaysHold, PTL

\* With slots that may overlap and one trouble at most, a healthy slot is up through each
\* swap, rollback and sweep, and traffic is moved to a slot that is up (AlwaysServing).
THEOREM ServesThroughout ==
  ASSUME SlotAssumption, Prompt, MaxTroubles <= 1
  PROVE  Spec => []AlwaysServing
<1>1. SlotsHold => AlwaysServing
  <2> SUFFICES ASSUME SlotsHold, OnHolds, record.op # 0 PROVE AlwaysServing
    BY DEF AlwaysServing, OnHolds
  <2>1. \E s \in Slots : Serves(s)
    BY OnServes DEF SlotsHold
  <2>2. ASSUME NEW o \in Runs, Swapping(o) PROVE pin = None \/ Up(pin)
    <3>1. run[o].kind = "deploy" /\ run[o].at \in DeployAts \ {"claimed", "picked", "cleared"} /\ o \in Holders
      <4>1. run[o] \in RunRow /\ Shaped(run[o])
        BY TypesOf DEF SlotsHold
      <4>2. run[o].kind = "deploy" /\ run[o].at \notin {"new", "over", "dead", "claimed", "picked", "cleared"}
        BY <2>2 DEF Swapping, Active
      <4>3. run[o].at \in DeployAts /\ run[o].new \in Slots
        BY <4>1, <4>2 DEF Shaped
      <4> QED
        BY <4>2, <4>3, OtherSlot DEF Holders, Active
    <3>2. OnDeploy(o, run[o])
      BY <3>1 DEF SlotsHold, SlotInv, On, OnHolds
    <3> QED
      BY <3>1, <3>2 DEF OnDeploy, OnNew, Serves, DeployAts
  <2> QED
    BY <2>1, <2>2 DEF AlwaysServing
<1> QED
  BY <1>1, SlotsAlwaysHold, PTL
===============================================================================
