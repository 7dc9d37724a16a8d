------------------------------ MODULE MCSlotSwap ------------------------------
(***************************************************************************)
(* Instances of SlotSwap for TLC; the values are in the .cfg files.        *)
(***************************************************************************)
EXTENDS SlotSwap
===============================================================================
