SPECIFICATION Spec
CONSTANTS
  b1 = b1
  b2 = b2
  t1 = t1
  None = None
  Backups = {b1, b2}
  Targets = {t1}
  MaxUploads = 1
  Faults = 2
  Rots = 1
  Crashes = 1
INVARIANTS TypeOK VerifiedIsWhole RowsHaveFiles PassShowsBackup TestStackEnds
PROPERTIES ToldIsKept
SYMMETRY Alike
