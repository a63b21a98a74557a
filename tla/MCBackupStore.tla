--------------------------- MODULE MCBackupStore ---------------------------
\* Two backups that may share a second, one test instance name used repeatedly.
EXTENDS BackupStore, TLC
CONSTANTS b1, b2, t1
Alike == Permutations({b1, b2})
=============================================================================
