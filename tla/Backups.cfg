SPECIFICATION FairBackups
CONSTANTS
  c1 = c1
  c2 = c2
  j1 = j1
  Consoles = {c1, c2}
  Jobs = {j1}
  SlotLimit = 1
  Mixes <- MixSet
INVARIANTS BackupTypeOK OneRunOfAJob RequeuedOnce
PROPERTIES OutcomeSticks EveryJobReports
CHECK_DEADLOCK FALSE
