------------------------------ MODULE MCBuildGate ------------------------------
(***************************************************************************)
(* Instances of BuildGate for TLC; the values are in the .cfg files.       *)
(***************************************************************************)
EXTENDS BuildGate
===============================================================================
