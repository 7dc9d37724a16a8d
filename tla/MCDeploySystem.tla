---------------------------- MODULE MCDeploySystem ----------------------------
(* Values for model checking DeploySystem. *)
EXTENDS DeploySystem, TLC

CONSTANTS d1, d2, d3, worker, console, console2, app, app2, self

\* The worker claims other apps' deploys, a console Vardo's own.
SplitClaims == [e \in Executors |-> IF e = worker THEN "others" ELSE "self"]
AllClaims   == [e \in Executors |-> "all"]

\* console2 is the console of the slot a self-deploy starts.
Slots == [e \in Executors |-> IF e = console2 THEN "green" ELSE "blue"]

Symmetry == Permutations(Deploys)
ExecutorSymmetry == {p @@ q : p \in Permutations(Deploys), q \in Permutations(Executors)}
ScopeSymmetry == {p @@ q : p \in Permutations(Deploys), q \in Permutations(Scopes)}
===============================================================================
