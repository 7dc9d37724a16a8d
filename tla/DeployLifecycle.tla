---------------------------- MODULE DeployLifecycle ----------------------------
(***************************************************************************)
(* What the deploy queue promises, whoever calls it and in whatever order: *)
(* a deploy is asked for once, waits, runs with nothing else running in    *)
(* its app environment, and ends once.  While it has not ended it may go   *)
(* back to waiting.  How it ended never changes, except that a rollback    *)
(* marks the success it replaced; a rollback's own record is looser.       *)
(*                                                                         *)
(* One step may move several deploys: asking for one can end those it      *)
(* replaces, and one claim can start several.                              *)
(***************************************************************************)
CONSTANTS Deploys, NoScope

VARIABLES
  phase,   \* each deploy's status
  kind,    \* what was asked for, "none" before
  place    \* the app environment it was asked for in

lifecycleVars == <<phase, kind, place>>

Ended == {"success", "failed", "cancelled", "rolled_back", "superseded"}

Quiet == \A a, b \in Deploys :
           phase[a] = "running" /\ phase[b] = "running" /\ place[a] = place[b] => a = b

LifecycleInit ==
  /\ phase = [d \in Deploys |-> "absent"]
  /\ kind = [d \in Deploys |-> "none"]
  /\ place = [d \in Deploys |-> NoScope]

Stays(d) == phase'[d] = phase[d] /\ kind'[d] = kind[d] /\ place'[d] = place[d]

\* Only a rollback starts without waiting.
Asked(d) ==
  /\ phase[d] = "absent"
  /\ phase'[d] = IF kind'[d] = "rollback" THEN "running" ELSE "queued"

Moves(d) ==
  \/ phase[d] = "queued"  /\ phase'[d] = "running"
  \/ phase[d] = "running" /\ phase'[d] = "queued" /\ kind[d] # "rollback"
  \/ phase[d] = "queued"  /\ phase'[d] \in {"cancelled", "superseded"}
  \/ phase[d] = "running" /\ phase'[d] \in {"success", "failed", "cancelled", "superseded"}
  \/ phase[d] = "success" /\ phase'[d] = "rolled_back"
  \/ /\ kind[d] = "rollback" /\ phase[d] \notin {"absent", "queued", "deleted"}
     /\ phase'[d] \in {"success", "failed", "deleted"}

LifecycleNext ==
  /\ \A d \in Deploys : \/ Stays(d)
                        \/ Asked(d)
                        \/ Moves(d) /\ kind'[d] = kind[d] /\ place'[d] = place[d]
  /\ Quiet'

LifecycleSpec == LifecycleInit /\ [][LifecycleNext]_lifecycleVars

===============================================================================
