----------------------------- MODULE FencedLease -----------------------------
(***************************************************************************)
(* What a fenced lease promises, without saying how it is kept: each epoch *)
(* is granted to one process, a pass runs under an epoch its own process   *)
(* was granted, and fenced work is let through only under the newest one,  *)
(* so no work begins under an epoch once a later one was granted.          *)
(***************************************************************************)
EXTENDS Naturals, Sequences

CONSTANT Proc

VARIABLES
  grants,   \* who was granted epoch 1, 2, ...
  under,    \* the epoch each process's pass runs under, 0 while it runs none
  working   \* processes that were let through to fenced work and are at it

vars == <<grants, under, working>>

Init ==
  /\ grants = <<>>
  /\ under = [p \in Proc |-> 0]
  /\ working = {}

Grant(p) == grants' = Append(grants, p) /\ UNCHANGED <<under, working>>

Begin(p) ==
  /\ under[p] = 0
  /\ \E e \in DOMAIN grants : grants[e] = p /\ under' = [under EXCEPT ![p] = e]
  /\ UNCHANGED <<grants, working>>

\* A pass ends after its work, or is cut off at it.
End(p) ==
  /\ under' = [under EXCEPT ![p] = 0]
  /\ working' = working \ {p}
  /\ UNCHANGED grants

LetThrough(p) ==
  /\ under[p] # 0 /\ under[p] = Len(grants)
  /\ working' = working \cup {p}
  /\ UNCHANGED <<grants, under>>

WorkDone(p) == working' = working \ {p} /\ UNCHANGED <<grants, under>>

Next == \E p \in Proc : Grant(p) \/ Begin(p) \/ End(p) \/ LetThrough(p) \/ WorkDone(p)

Spec == Init /\ [][Next]_vars
===============================================================================
