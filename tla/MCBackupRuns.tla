----------------------------- MODULE MCBackupRuns -----------------------------
(***************************************************************************)
(* Instance of BackupRuns for TLC.  Each mix bounds the stops, the lapses, *)
(* the backups by hand, the first snapshots and the jobs switched off of   *)
(* one behaviour.                                                          *)
(***************************************************************************)
EXTENDS BackupRuns

CONSTANTS c1, c2, j1   \* model values

Mix(stop, lapse, manual, first, switch) ==
  [stop |-> stop, lapse |-> lapse, manual |-> manual, first |-> first, off |-> switch]

MixSet == {Mix(2, 0, 0, 0, 0), Mix(1, 0, 1, 0, 0), Mix(1, 0, 0, 0, 1),
           Mix(0, 1, 0, 0, 0), Mix(1, 0, 0, 1, 0)}
===============================================================================
