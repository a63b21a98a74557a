------------------------- MODULE BackupStore_proofs -------------------------
(***************************************************************************)
(* What holds of the backups and test restores of an instance for every    *)
(* set of backup ids and test targets, and any number of uploads, failing  *)
(* steps, damaged files and deaths of the Agent.                           *)
(***************************************************************************)
EXTENDS BackupStore, TLAPS

\* The ids an action works on, and that a row is stored after its file.
Typed ==
  /\ TypeOK
  /\ rows <= files
  /\ op.step \in BackupSteps => op.b \in Backups
  /\ op.step \in TestSteps => op.b \in Backups /\ op.t \in Targets

\* The directory a backup action writes is its own: no client was told of it and
\* no test restore has read it.
Own ==
  /\ \A b \in told : dir[b].state # "none"
  /\ \A t \in Targets : target[t].from # None => dir[target[t].from].state # "none"
  /\ op.step \in BackupSteps => /\ dir[op.b].state = "made"
                                /\ op.b \notin told
                                /\ \A t \in Targets : target[t].from # op.b
  /\ op.step \in TestSteps => dir[op.b].state # "none"
  /\ \A b \in Backups : dir[b].state = "none" => dir[b].manifest = "none"

\* What the backup action has captured, and what a manifest says of it.
Captured ==
  /\ RowsHaveFiles
  /\ op.step \in {"capture", "manifest"} => dir[op.b].manifest = "none"
  /\ op.step = "capture" /\ op.n = 2 => dir[op.b].rows <= rows
  /\ op.step = "capture" /\ op.n > 2 => dir[op.b].rows <= dir[op.b].files
  /\ op.step \in {"manifest", "verify", "mark", "confirm"} => dir[op.b].rows <= dir[op.b].files

\* The artifacts written so far are whole until one rots.
Whole ==
  /\ VerifiedIsWhole
  /\ rots > 0 \/
       /\ op.step = "capture" => \A i \in 1..4 : i < op.n => dir[op.b].art[Order[i]] = "whole"
       /\ op.step \in {"manifest", "verify", "mark", "confirm"} =>
            \A a \in Artifacts : dir[op.b].art[a] = "whole"

\* What a test restore has put into its target.
Shown ==
  /\ PassShowsBackup
  /\ \A t \in Targets : ~target[t].root => target[t].files = 0 /\ target[t].verdict # "PASS"
  /\ op.step \in TestSteps \ {"stop"} => target[op.t].verdict # "PASS"
  /\ op.step \in {"infra", "database", "files", "migrate", "app", "gate"} => target[op.t].root
  /\ op.step \in {"create", "infra", "database", "files"} => target[op.t].files = 0
  /\ op.step \in {"files", "migrate", "app", "gate"} =>
       target[op.t].from = op.b /\ target[op.t].rows = dir[op.b].rows
  /\ op.step \in {"migrate", "app", "gate"} => target[op.t].files = dir[op.b].files

Sound == Typed /\ Own /\ Captured /\ Whole /\ Shown /\ TestStackEnds
-----------------------------------------------------------------------------
(* Types.                                                                  *)

LEMMA OrderFact ==
  /\ Len(Order) = 4
  /\ Order[1] = "database" /\ Order[2] = "media" /\ Order[3] = "env" /\ Order[4] = "logs"
  /\ \A n \in 1..4 : Order[n] \in Artifacts
BY DEF Order, Artifacts

LEMMA BrokenType ==
  ASSUME TypeOK, NEW d \in Dirs PROVE Broken(d) \in Dirs
<1>1. op.n \in 1..4 => Order[op.n] \in Artifacts
  BY OrderFact
<1>2. op.n \in 1..4
  BY DEF TypeOK, Ops
<1> QED BY <1>1, <1>2 DEF Broken, Dirs

LEMMA WithType ==
  ASSUME NEW d \in Dirs, NEW a \in Artifacts, rows \in 0..MaxUploads, files \in 0..MaxUploads
  PROVE  With(d, a) \in Dirs
<1>1. [d.art EXCEPT ![a] = "whole"] \in [Artifacts -> {"absent", "partial", "whole", "damaged"}]
  BY DEF Dirs
<1> QED BY <1>1 DEF With, Dirs

LEMMA WithoutType ==
  ASSUME NEW d \in Dirs, NEW gone \in SUBSET Artifacts PROVE Without(d, gone) \in Dirs
<1>1. [a \in Artifacts |-> IF a \in gone THEN "absent" ELSE d.art[a]]
        \in [Artifacts -> {"absent", "partial", "whole", "damaged"}]
  BY DEF Dirs
<1> QED BY <1>1 DEF Without, Dirs

LEMMA TypedInit == Init => Typed
BY BackupAssumption, BoundAssumption
   DEF Init, Typed, TypeOK, Ops, Idle, NoDir, NoTarget, Dirs, TargetsOf, Artifacts, BackupSteps, TestSteps

\* A restored target has been empty before, so that its files are a backup's.
LEMMA TypedNext == Typed /\ Shown /\ [Next]_vars => Typed'
<1> SUFFICES ASSUME Typed, Shown, [Next]_vars PROVE Typed'
  OBVIOUS
<1> USE BoundAssumption
<1>1. /\ Idle \in Ops /\ Idle.step = "idle" /\ NoDir \in Dirs /\ op \in Ops
      /\ dir \in [Backups -> Dirs] /\ target \in [Targets -> TargetsOf]
  BY DEF Idle, Ops, NoDir, Dirs, Artifacts, Typed, TypeOK
<1>2. CASE StoreFile
  BY <1>2 DEF StoreFile, Typed, TypeOK, NoFault, budgets
<1>3. CASE StoreRow
  BY <1>3 DEF StoreRow, Typed, TypeOK, NoFault, budgets
<1>4. ASSUME NEW b \in Backups, BeginBackup(b) PROVE Typed'
  <2>1. PICK v \in BOOLEAN : op' = [step |-> "capture", n |-> 1, b |-> b, t |-> None, verify |-> v]
    BY <1>4 DEF BeginBackup
  <2>2. op' \in Ops /\ op'.step = "capture" /\ op'.b = b
    BY <2>1 DEF Ops, BackupSteps
  <2>3. dir' \in [Backups -> Dirs]
    BY <1>1, <1>4 DEF BeginBackup, Dirs
  <2> QED BY <1>4, <2>2, <2>3 DEF BeginBackup, Typed, TypeOK, NoFault, budgets, TestSteps
<1>5. ASSUME NEW b \in Backups, VerifyExisting(b) PROVE Typed'
  BY <1>5 DEF VerifyExisting, Typed, TypeOK, NoFault, budgets
<1>6. CASE Capture
  <2>1. op.b \in Backups /\ op.n \in 1..4 /\ Order[op.n] \in Artifacts /\ rows \in 0..MaxUploads
        /\ files \in 0..MaxUploads
    BY <1>1, <1>6, OrderFact DEF Capture, At, Typed, TypeOK, Ops, BackupSteps
  <2>2. dir' \in [Backups -> Dirs]
    <3>1. dir[op.b] \in Dirs
      BY <1>1, <2>1
    <3> QED BY <1>1, <1>6, <2>1, <3>1, WithType DEF Capture
  <2>3. op' \in Ops /\ op'.step \in {"capture", "manifest"} /\ op'.b = op.b
    BY <1>1, <1>6, <2>1, OrderFact DEF Capture, At, Ops, BackupSteps
  <2> QED BY <1>6, <2>1, <2>2, <2>3 DEF Capture, Typed, TypeOK, NoFault, budgets, TestSteps
<1>7. CASE WriteManifest \/ MarkVerified
  <2>1. dir' \in [Backups -> Dirs] /\ op.b \in Backups
    <3>1. op.b \in Backups
      BY <1>7 DEF WriteManifest, MarkVerified, At, Typed, BackupSteps
    <3>2. ASSUME NEW m \in {"created", "verified"} PROVE [dir EXCEPT ![op.b].manifest = m] \in [Backups -> Dirs]
      BY <1>1, <3>1 DEF Dirs
    <3> QED BY <1>7, <3>1, <3>2 DEF WriteManifest, MarkVerified
  <2>2. op' \in Ops /\ op'.step \in {"idle", "verify", "confirm"} /\ (op'.b = op.b \/ op'.step = "idle")
    BY <1>1, <1>7 DEF WriteManifest, MarkVerified, At, GoTo, Ops, BackupSteps
  <2> QED BY <1>7, <2>1, <2>2
     DEF WriteManifest, MarkVerified, Typed, TypeOK, NoFault, budgets, TestSteps, BackupSteps
<1>8. CASE VerifyCreated \/ Confirm
  <2>1. op.b \in Backups
    BY <1>8 DEF VerifyCreated, Confirm, At, Typed, BackupSteps
  <2>2. op' \in Ops /\ op'.step \in {"idle", "mark", "cleanup"} /\ (op'.b = op.b \/ op'.step = "idle")
    BY <1>1, <1>8 DEF VerifyCreated, Confirm, At, GoTo, Ops, BackupSteps
  <2> QED BY <1>8, <2>1, <2>2
     DEF VerifyCreated, Confirm, Typed, TypeOK, NoFault, budgets, TestSteps, BackupSteps
<1>9. CASE StepFails
  <2>1. op.b \in Backups /\ Broken(dir[op.b]) \in Dirs
    BY <1>1, <1>9, BrokenType DEF StepFails, Typed
  <2>2. op' \in Ops /\ op'.step = "cleanup" /\ op'.b = op.b
    BY <1>1, <1>9 DEF StepFails, GoTo, Ops, BackupSteps
  <2> QED BY <1>1, <1>9, <2>1, <2>2 DEF StepFails, Typed, TypeOK, Fault, TestSteps
<1>10. CASE Cleanup
  BY <1>1, <1>10 DEF Cleanup, Typed, TypeOK, NoFault, budgets, TestSteps, BackupSteps
<1>11. CASE CleanupFails
  <2>1. dir' \in [Backups -> Dirs]
    <3>1. op.b \in Backups /\ dir[op.b] \in Dirs
      BY <1>1, <1>11 DEF CleanupFails, At, Typed, BackupSteps
    <3> QED BY <1>1, <1>11, <3>1, WithoutType DEF CleanupFails
  <2> QED BY <1>1, <1>11, <2>1 DEF CleanupFails, Typed, TypeOK, Fault, TestSteps, BackupSteps
<1>12. ASSUME NEW b \in Backups, NEW t \in Targets, BeginTest(b, t) PROVE Typed'
  <2>1. op' \in Ops /\ op'.step = "create" /\ op'.b = b /\ op'.t = t
    BY <1>12 DEF BeginTest, Ops, TestSteps
  <2> QED BY <1>12, <2>1 DEF BeginTest, Typed, TypeOK, NoFault, budgets, BackupSteps
<1>13. ASSUME NEW next \in TestSteps, NEW t \in TargetsOf, Onward(next, t), op.step \in TestSteps
       PROVE  Typed'
  <2>1. op' \in Ops /\ op'.step = next /\ op'.b = op.b /\ op'.t = op.t
    BY <1>1, <1>13 DEF Onward, GoTo, Ops
  <2>2. target' \in [Targets -> TargetsOf]
    BY <1>1, <1>13 DEF Onward
  <2> QED BY <1>13, <2>1, <2>2 DEF Onward, Typed, TypeOK, NoFault, budgets, BackupSteps, TestSteps
<1>14. ASSUME op.step \in TestSteps
       PROVE /\ op.b \in Backups /\ op.t \in Targets /\ target[op.t] \in TargetsOf /\ dir[op.b] \in Dirs
  BY <1>1, <1>14 DEF Typed
<1>15. CASE CreateTarget
  BY <1>13, <1>14, <1>15 DEF CreateTarget, At, TestSteps, TargetsOf
<1>16. CASE StartInfra
  BY <1>13, <1>14, <1>16 DEF StartInfra, At, TestSteps, TargetsOf
<1>17. CASE RestoreDatabase
  BY <1>13, <1>14, <1>17 DEF RestoreDatabase, At, TestSteps, TargetsOf, Dirs
<1>18. CASE RestoreMedia
  <2>1. op.step = "files" /\ target[op.t].files = 0
    BY <1>18 DEF RestoreMedia, At, Shown
  <2>2. [target[op.t] EXCEPT !.files = @ + dir[op.b].files] \in TargetsOf
    BY <1>14, <2>1 DEF TargetsOf, Dirs, TestSteps
  <2> QED BY <1>13, <1>14, <1>18, <2>1, <2>2 DEF RestoreMedia, TestSteps
<1>19. CASE Migrate \/ StartApp \/ PassGate
  BY <1>13, <1>14, <1>19 DEF Migrate, StartApp, PassGate, At, TestSteps, TargetsOf
<1>20. CASE TestFails
  <2>1. op.step \in TestSteps /\ op.t \in Targets /\ op.b \in Backups
    BY <1>14, <1>20 DEF TestFails
  <2>2. target' \in [Targets -> TargetsOf]
    <3>1. PICK root \in BOOLEAN, stack \in {"down", "up", "orphan"} :
            target' = [target EXCEPT ![op.t] = [@ EXCEPT !.root = root, !.stack = stack,
                                                         !.verdict = "FAILED"]]
      BY <1>14, <1>20, <2>1 DEF TestFails, TargetsOf
    <3>2. [target[op.t] EXCEPT !.root = root, !.stack = stack, !.verdict = "FAILED"] \in TargetsOf
      BY <1>14, <2>1 DEF TargetsOf
    <3> QED BY <1>1, <2>1, <3>1, <3>2
  <2>3. op' \in Ops /\ (op'.step = "idle" \/ (op'.step = "stop" /\ op'.b = op.b /\ op'.t = op.t))
    BY <1>1, <1>20 DEF TestFails, Ops, TestSteps
  <2>4. /\ faults' \in 0..Faults /\ rots' \in 0..Rots /\ crashes' \in 0..Crashes
        /\ UNCHANGED <<files, rows, dir, told>>
    BY <1>20 DEF TestFails, Fault, NoFault, budgets, Typed, TypeOK
  <2> QED BY <2>1, <2>2, <2>3, <2>4 DEF Typed, TypeOK, BackupSteps, TestSteps
<1>21. CASE StopTest \/ StopTestFails
  <2>1. op.step = "stop" /\ op.t \in Targets
    BY <1>14, <1>21 DEF StopTest, StopTestFails, At, TestSteps
  <2>2. target' \in [Targets -> TargetsOf]
    BY <1>1, <1>21, <2>1 DEF StopTest, StopTestFails, TargetsOf
  <2> QED BY <1>1, <1>21, <2>2
     DEF StopTest, StopTestFails, Typed, TypeOK, NoFault, Fault, budgets, BackupSteps, TestSteps
<1>22. CASE Crash
  <2>1. dir' \in [Backups -> Dirs]
    BY <1>1, <1>22, BrokenType DEF Crash, Typed
  <2>2. target' \in [Targets -> TargetsOf]
    BY <1>1, <1>22 DEF Crash, TargetsOf
  <2> QED BY <1>1, <1>22, <2>1, <2>2 DEF Crash, Typed, TypeOK, BackupSteps, TestSteps
<1>23. ASSUME NEW b \in Backups, NEW a \in Artifacts, Rot(b, a) PROVE Typed'
  <2>1. dir' \in [Backups -> Dirs]
    <3>1. PICK x \in {"absent", "damaged"} : dir' = [dir EXCEPT ![b].art[a] = x]
      BY <1>23 DEF Rot
    <3>2. dir[b] \in Dirs
      BY <1>1
    <3>3. [dir[b].art EXCEPT ![a] = x] \in [Artifacts -> {"absent", "partial", "whole", "damaged"}]
      BY <3>2 DEF Dirs
    <3>4. [dir[b] EXCEPT !.art[a] = x] \in Dirs
      BY <3>2, <3>3 DEF Dirs
    <3> QED BY <1>1, <3>1, <3>4
  <2> QED BY <1>23, <2>1 DEF Rot, Typed, TypeOK
<1>24. CASE UNCHANGED vars
  BY <1>24 DEF vars, Typed, TypeOK
<1> QED
  BY <1>2, <1>3, <1>4, <1>5, <1>6, <1>7, <1>8, <1>9, <1>10, <1>11, <1>12, <1>15, <1>16, <1>17, <1>18,
     <1>19, <1>20, <1>21, <1>22, <1>23, <1>24 DEF Next, Backup, TestRestore

-----------------------------------------------------------------------------
(* What an action of one kind leaves alone.                                *)

LEMMA SoundInit == Init => Sound
BY TypedInit
   DEF Init, Sound, Own, Captured, Whole, Shown, TestStackEnds, RowsHaveFiles, VerifiedIsWhole, PassShowsBackup,
       Idle, NoDir, NoTarget, BackupSteps, TestSteps

\* A step of a backup writes its own directory, which no target was made from.
LEMMA BackupStep ==
  ASSUME Sound, op.step \in BackupSteps, target' = target,
         op'.step \in BackupSteps \union {"idle"},
         op'.step # "idle" => op'.b = op.b /\ dir'[op.b].state = "made" /\ told' = told,
         told' \in {told, told \union {op.b}},
         told' # told => dir'[op.b].state # "none",
         dir'[op.b].state = "none" => dir'[op.b].manifest = "none",
         \A b \in Backups \ {op.b} : dir'[b] = dir[b]
  PROVE  Own' /\ Shown' /\ TestStackEnds'
<1>1. /\ op.b \in Backups /\ op.b \notin told /\ told \subseteq Backups
      /\ target \in [Targets -> TargetsOf]
      /\ \A t \in Targets : target[t].from \in Backups \union {None} /\ target[t].from # op.b
  BY DEF Sound, Typed, TypeOK, Own, TargetsOf
<1>2. \A t \in Targets : target[t].from # None => dir'[target[t].from] = dir[target[t].from]
  BY <1>1
<1>3. Own'
  BY <1>1, <1>2 DEF Sound, Own, BackupSteps, TestSteps
<1>4. op.step \notin TestSteps /\ op'.step \notin TestSteps
  BY DEF BackupSteps, TestSteps
<1>5. PassShowsBackup'
  BY <1>1, <1>2 DEF Sound, Shown, PassShowsBackup
<1>6. Shown'
  BY <1>4, <1>5 DEF Sound, Shown, TestSteps
<1> QED BY <1>3, <1>4, <1>6 DEF Sound, TestStackEnds

\* A step of a test restore writes no directory.
LEMMA TestStep ==
  ASSUME Sound, dir' = dir, rots' = rots, op'.step \notin BackupSteps
  PROVE  Captured' /\ Whole'
BY DEF Sound, Captured, Whole, RowsHaveFiles, VerifiedIsWhole, BackupSteps

\* Nor does it take another action's directory or target.
LEMMA TestOwn ==
  ASSUME Sound, dir' = dir, told' = told, op'.step \notin BackupSteps,
         op.step \in TestSteps, op'.step \in TestSteps => op'.b = op.b,
         \A t \in Targets : target'[t].from \in {target[t].from, op.b}
  PROVE  Own'
BY DEF Sound, Own, BackupSteps

\* What a step leaves of a target, other than the one it restores into.
LEMMA TestShown ==
  ASSUME Sound, Typed', dir' = dir, op.step \in TestSteps,
         \A t \in Targets \ {op.t} : target'[t] = target[t],
         op'.step \in TestSteps => op'.t = op.t /\ op'.b = op.b,
         target'[op.t].stack = "up" => op'.step \in TestSteps,
         target'[op.t].verdict = "PASS" =>
           /\ target'[op.t].from \in Backups
           /\ target'[op.t].rows = dir[target'[op.t].from].rows
           /\ target'[op.t].files = dir[target'[op.t].from].files,
         ~target'[op.t].root => target'[op.t].files = 0 /\ target'[op.t].verdict # "PASS",
         op'.step \in TestSteps \ {"stop"} => target'[op.t].verdict # "PASS",
         op'.step \in {"infra", "database", "files", "migrate", "app", "gate"} => target'[op.t].root,
         op'.step \in {"create", "infra", "database", "files"} => target'[op.t].files = 0,
         op'.step \in {"files", "migrate", "app", "gate"} =>
           target'[op.t].from = op.b /\ target'[op.t].rows = dir[op.b].rows,
         op'.step \in {"migrate", "app", "gate"} => target'[op.t].files = dir[op.b].files
  PROVE  Shown' /\ TestStackEnds'
<1>1. op.t \in Targets /\ op.b \in Backups
  BY DEF Sound, Typed
<1>2. PassShowsBackup'
  <2> SUFFICES ASSUME NEW t \in Targets, target'[t].verdict = "PASS"
               PROVE  /\ target'[t].from # None
                      /\ target'[t].rows = dir'[target'[t].from].rows
                      /\ target'[t].files = dir'[target'[t].from].files
    BY DEF PassShowsBackup
  <2>1. CASE t = op.t
    BY <2>1, BackupAssumption
  <2>2. CASE t # op.t
    BY <2>2 DEF Sound, Shown, PassShowsBackup
  <2> QED BY <2>1, <2>2
<1>3. Shown'
  BY <1>1, <1>2 DEF Sound, Shown, TestSteps
<1>4. TestStackEnds'
  BY <1>1 DEF Sound, TestStackEnds, TestSteps
<1> QED BY <1>3, <1>4

-----------------------------------------------------------------------------
(* Every step keeps what the runs have established.                        *)

LEMMA BackupKeeps ==
  ASSUME Sound, Typed', Capture \/ WriteManifest \/ VerifyCreated \/ MarkVerified \/ Confirm
                        \/ StepFails \/ Cleanup \/ CleanupFails
  PROVE  Sound'
<1>1. /\ op \in Ops /\ op.step \in BackupSteps /\ op.b \in Backups /\ dir \in [Backups -> Dirs]
      /\ dir[op.b] \in Dirs /\ dir[op.b].state = "made" /\ op.n \in 1..4 /\ rots \in Nat
      /\ rows \in Nat /\ files \in Nat /\ rows <= files
  BY DEF Capture, WriteManifest, VerifyCreated, MarkVerified, Confirm, StepFails, Cleanup, CleanupFails,
         At, BackupSteps, Sound, Typed, TypeOK, Own, Ops
<1>2. CASE Capture
  <2> DEFINE a == Order[op.n]
  <2>1. a \in Artifacts /\ op.step = "capture" /\ target' = target /\ told' = told /\ rots' = rots
        /\ rows' = rows /\ files' = files
    BY <1>1, <1>2, OrderFact DEF Capture, At, NoFault, budgets
  <2>2. dir'[op.b] = With(dir[op.b], a) /\ \A b \in Backups \ {op.b} : dir'[b] = dir[b]
    BY <1>1, <1>2 DEF Capture
  <2>3. /\ dir'[op.b].state = "made" /\ dir'[op.b].manifest = "none"
        /\ dir'[op.b].rows = IF a = "database" THEN rows ELSE dir[op.b].rows
        /\ dir'[op.b].files = IF a = "media" THEN files ELSE dir[op.b].files
        /\ \A x \in Artifacts : dir'[op.b].art[x] = IF x = a THEN "whole" ELSE dir[op.b].art[x]
    BY <1>1, <2>1, <2>2 DEF With, Dirs, Sound, Captured
  <2>4. /\ op.n < 4 => op'.step = "capture" /\ op'.n = op.n + 1 /\ op'.b = op.b
        /\ op.n = 4 => op'.step = "manifest" /\ op'.b = op.b
    BY <1>1, <1>2, <2>1, OrderFact DEF Capture, Ops
  <2>5. Own' /\ Shown' /\ TestStackEnds'
    BY <1>1, <2>1, <2>2, <2>3, <2>4, BackupStep DEF BackupSteps
  <2>6. Captured'
    <3>1. RowsHaveFiles'
      BY <1>1, <2>2, <2>3 DEF Sound, Captured, RowsHaveFiles
    <3>2. op.n = 1 => dir'[op.b].rows <= rows
      BY <1>1, <2>3, OrderFact
    <3>3. op.n = 2 => dir'[op.b].rows <= dir'[op.b].files
      BY <1>1, <2>1, <2>3, OrderFact DEF Sound, Captured, Dirs
    <3>4. op.n > 2 => dir'[op.b].rows <= dir'[op.b].files
      BY <1>1, <2>1, <2>3, OrderFact DEF Sound, Captured
    <3> QED BY <1>1, <2>1, <2>3, <2>4, <3>1, <3>2, <3>3, <3>4 DEF Captured
  <2>7. Whole'
    <3>1. VerifiedIsWhole'
      BY <1>1, <2>1, <2>2, <2>3 DEF Sound, Whole, VerifiedIsWhole
    <3>2. rots = 0 => \A i \in 1..4 : i <= op.n => dir'[op.b].art[Order[i]] = "whole"
      BY <1>1, <2>1, <2>3, OrderFact DEF Sound, Whole
    <3>3. rots = 0 /\ op.n = 4 => \A x \in Artifacts : dir'[op.b].art[x] = "whole"
      BY <3>2, OrderFact DEF Artifacts
    <3> QED BY <1>1, <2>1, <2>4, <3>1, <3>2, <3>3 DEF Whole
  <2> QED BY <2>5, <2>6, <2>7 DEF Sound
<1>3. ASSUME NEW m \in {"created", "verified"}, dir' = [dir EXCEPT ![op.b].manifest = m],
             op.step \in {"manifest", "mark"}, op'.step \in {"verify", "confirm", "idle"},
             op'.step # "idle" => op'.b = op.b, UNCHANGED <<target, told, rots>>
      PROVE  Sound'
  <2>1. /\ \A b \in Backups \ {op.b} : dir'[b] = dir[b]
        /\ dir'[op.b].state = "made" /\ dir'[op.b].rows = dir[op.b].rows
        /\ dir'[op.b].files = dir[op.b].files /\ dir'[op.b].art = dir[op.b].art
    BY <1>1, <1>3 DEF Dirs
  <2>2. Own' /\ Shown' /\ TestStackEnds'
    BY <1>1, <1>3, <2>1, BackupStep DEF BackupSteps
  <2>3. Captured'
    BY <1>1, <1>3, <2>1 DEF Sound, Captured, RowsHaveFiles
  <2>4. rots = 0 => \A a \in Artifacts : dir'[op.b].art[a] = "whole"
    BY <1>1, <1>3, <2>1 DEF Sound, Whole, Typed, TypeOK
  <2>5. Whole'
    <3>1. ASSUME NEW b \in Backups, dir'[b].manifest = "verified", dir'[b].state = "made", rots = 0
          PROVE  \A a \in Artifacts : dir'[b].art[a] = "whole"
      <4>1. CASE b = op.b
        BY <2>4, <3>1, <4>1
      <4>2. CASE b # op.b
        BY <1>1, <2>1, <3>1, <4>2 DEF Sound, Whole, VerifiedIsWhole
      <4> QED BY <4>1, <4>2
    <3>2. rots' = rots /\ (rots > 0 \/ rots = 0)
      BY <1>1, <1>3 DEF Sound, Typed, TypeOK
    <3>3. VerifiedIsWhole'
      BY <3>1, <3>2 DEF VerifiedIsWhole
    <3> QED BY <1>3, <2>4, <3>2, <3>3 DEF Whole
  <2> QED BY <2>2, <2>3, <2>5 DEF Sound
<1>4. CASE WriteManifest
  <2>1. op'.step \in {"verify", "idle"} /\ (op'.step # "idle" => op'.b = op.b)
    BY <1>1, <1>4 DEF WriteManifest, Ops, Idle
  <2> QED BY <1>3, <1>4, <2>1 DEF WriteManifest, At, NoFault, budgets
<1>5. CASE MarkVerified
  <2>1. op'.step = "confirm" /\ op'.b = op.b
    BY <1>1, <1>5 DEF MarkVerified, GoTo, Ops
  <2> QED BY <1>3, <1>5, <2>1 DEF MarkVerified, At, NoFault, budgets
<1>6. CASE VerifyCreated
  <2>1. op'.step \in {"mark", "cleanup"} /\ op'.b = op.b /\ op.step = "verify"
    BY <1>1, <1>6 DEF VerifyCreated, At, GoTo, Ops
  <2>2. UNCHANGED <<dir, target, told, rots>>
    BY <1>6 DEF VerifyCreated, NoFault, budgets
  <2>3. Own' /\ Shown' /\ TestStackEnds'
    BY <1>1, <2>1, <2>2, BackupStep DEF BackupSteps
  <2> QED BY <2>1, <2>2, <2>3 DEF Sound, Captured, Whole, RowsHaveFiles, VerifiedIsWhole
<1>7. CASE Confirm
  <2>1. op'.step \in {"idle", "cleanup"} /\ (op'.step # "idle" => op'.b = op.b /\ told' = told)
        /\ op.step = "confirm" /\ told' \in {told, told \union {op.b}}
    BY <1>1, <1>7 DEF Confirm, At, GoTo, Ops, Idle
  <2>2. UNCHANGED <<dir, target, rots>>
    BY <1>7 DEF Confirm, NoFault, budgets
  <2>3. Own' /\ Shown' /\ TestStackEnds'
    BY <1>1, <2>1, <2>2, BackupStep DEF BackupSteps
  <2> QED BY <2>1, <2>2, <2>3 DEF Sound, Captured, Whole, RowsHaveFiles, VerifiedIsWhole
<1>8. CASE StepFails
  <2>1. op'.step = "cleanup" /\ op'.b = op.b
    BY <1>1, <1>8 DEF StepFails, GoTo, Ops
  <2>2. UNCHANGED <<target, told, rots>>
    BY <1>8 DEF StepFails, Fault
  <2>3. /\ \A b \in Backups \ {op.b} : dir'[b] = dir[b]
        /\ dir'[op.b] = Broken(dir[op.b])
    BY <1>1, <1>8 DEF StepFails
  <2>4. /\ dir'[op.b].state = "made" /\ dir'[op.b].manifest \in {"torn", dir[op.b].manifest}
        /\ dir'[op.b].rows = dir[op.b].rows /\ dir'[op.b].files = dir[op.b].files
        /\ dir'[op.b].art = dir[op.b].art \/ op.step = "capture"
        /\ op.step = "capture" => dir'[op.b].manifest = "none"
    BY <1>1, <2>3 DEF Broken, At, Dirs, Sound, Captured
  <2>5. Own' /\ Shown' /\ TestStackEnds'
    BY <1>1, <2>1, <2>2, <2>3, <2>4, BackupStep DEF BackupSteps
  <2>6. Captured'
    BY <1>1, <2>1, <2>3, <2>4 DEF Sound, Captured, RowsHaveFiles
  <2>7. Whole'
    BY <1>1, <2>1, <2>2, <2>3, <2>4 DEF Sound, Whole, VerifiedIsWhole
  <2> QED BY <2>5, <2>6, <2>7 DEF Sound
<1>9. CASE Cleanup
  <2>1. op'.step = "idle" /\ op.step = "cleanup" /\ UNCHANGED <<target, told, rots>>
    BY <1>9 DEF Cleanup, At, Idle, NoFault, budgets
  <2>2. dir'[op.b] = NoDir /\ \A b \in Backups \ {op.b} : dir'[b] = dir[b]
    BY <1>1, <1>9 DEF Cleanup
  <2>3. Own' /\ Shown' /\ TestStackEnds'
    BY <1>1, <2>1, <2>2, BackupStep DEF BackupSteps, NoDir
  <2> QED BY <1>1, <2>1, <2>2, <2>3 DEF Sound, Captured, Whole, RowsHaveFiles, VerifiedIsWhole, NoDir
<1>10. CASE CleanupFails
  <2>1. op'.step = "idle" /\ op.step = "cleanup" /\ UNCHANGED <<target, told, rots>>
    BY <1>10 DEF CleanupFails, At, Idle, Fault
  <2>2. PICK gone \in SUBSET Artifacts : dir' = [dir EXCEPT ![op.b] = Without(@, gone)]
    BY <1>10 DEF CleanupFails
  <2>3. dir'[op.b] = Without(dir[op.b], gone) /\ \A b \in Backups \ {op.b} : dir'[b] = dir[b]
    BY <1>1, <2>2
  <2>4. /\ dir'[op.b].state = "remains" /\ dir'[op.b].manifest = dir[op.b].manifest
        /\ dir'[op.b].rows = dir[op.b].rows /\ dir'[op.b].files = dir[op.b].files
    BY <1>1, <2>3 DEF Without, Dirs
  <2>5. Own' /\ Shown' /\ TestStackEnds'
    BY <1>1, <2>1, <2>3, <2>4, BackupStep DEF BackupSteps
  <2> QED BY <1>1, <2>1, <2>3, <2>4, <2>5 DEF Sound, Captured, Whole, RowsHaveFiles, VerifiedIsWhole
<1> QED BY <1>2, <1>4, <1>5, <1>6, <1>7, <1>8, <1>9, <1>10

\* A step of a test restore that goes on.
LEMMA OnwardKeeps ==
  ASSUME Sound, Typed', NEW next \in TestSteps \ {"create"}, NEW x \in TargetsOf, Onward(next, x),
         op.step \in TestSteps \ {"stop"},
         x.verdict = "PASS" =>
           x.from \in Backups /\ x.rows = dir[x.from].rows /\ x.files = dir[x.from].files,
         ~x.root => x.files = 0 /\ x.verdict # "PASS",
         x.from \in {target[op.t].from, op.b},
         next # "stop" => x.root /\ x.verdict # "PASS",
         next \in {"infra", "database", "files"} => x.files = 0,
         next \in {"files", "migrate", "app", "gate"} => x.from = op.b /\ x.rows = dir[op.b].rows,
         next \in {"migrate", "app", "gate"} => x.files = dir[op.b].files
  PROVE  Sound'
<1>1. op \in Ops /\ op.t \in Targets /\ op.b \in Backups /\ target \in [Targets -> TargetsOf]
  BY DEF Sound, Typed, TypeOK
<1>2. /\ op'.step = next /\ op'.b = op.b /\ op'.t = op.t /\ UNCHANGED <<dir, told, rots>>
  BY <1>1 DEF Onward, GoTo, Ops, NoFault, budgets
<1>3. target'[op.t] = x /\ \A t \in Targets \ {op.t} : target'[t] = target[t]
  BY <1>1 DEF Onward
<1>4. op'.step \notin BackupSteps
  BY <1>2 DEF BackupSteps, TestSteps
<1>5. Captured' /\ Whole'
  BY <1>2, <1>4, TestStep
<1>6. Own'
  BY <1>1, <1>2, <1>3, <1>4, TestOwn
<1>7. Shown' /\ TestStackEnds'
  BY <1>1, <1>2, <1>3, TestShown DEF TestSteps
<1> QED BY <1>5, <1>6, <1>7 DEF Sound

LEMMA TestKeeps ==
  ASSUME Sound, Typed', CreateTarget \/ StartInfra \/ RestoreDatabase \/ RestoreMedia \/ Migrate
                        \/ StartApp \/ PassGate \/ TestFails \/ StopTest \/ StopTestFails
  PROVE  Sound'
<1> DEFINE now == target[op.t]
<1>1. /\ op \in Ops /\ op.step \in TestSteps /\ op.b \in Backups /\ op.t \in Targets
      /\ now \in TargetsOf /\ dir[op.b] \in Dirs /\ target \in [Targets -> TargetsOf]
  BY DEF CreateTarget, StartInfra, RestoreDatabase, RestoreMedia, Migrate, StartApp, PassGate, TestFails,
         StopTest, StopTestFails, At, TestSteps, Sound, Typed, TypeOK
<1>2. /\ ~now.root => now.files = 0 /\ now.verdict # "PASS"
      /\ op.step # "stop" => now.verdict # "PASS"
      /\ op.step \notin {"create", "stop"} => now.root
      /\ op.step \in {"create", "infra", "database", "files"} => now.files = 0
      /\ op.step \in {"files", "migrate", "app", "gate"} => now.from = op.b /\ now.rows = dir[op.b].rows
      /\ op.step \in {"migrate", "app", "gate"} => now.files = dir[op.b].files
  BY <1>1 DEF Sound, Shown, TestSteps
<1> HIDE DEF now
<1>3. CASE CreateTarget
  <2>1. op.step = "create" /\ Onward("infra", [now EXCEPT !.root = TRUE])
    BY <1>3 DEF CreateTarget, At, now
  <2> QED BY <1>1, <1>2, <2>1, OnwardKeeps DEF TestSteps, TargetsOf, now
<1>4. CASE StartInfra
  <2>1. op.step = "infra" /\ Onward("database", [now EXCEPT !.stack = "up"])
    BY <1>4 DEF StartInfra, At, now
  <2> QED BY <1>1, <1>2, <2>1, OnwardKeeps DEF TestSteps, TargetsOf, now
<1>5. CASE RestoreDatabase
  <2>1. op.step = "database" /\ Onward("files", [now EXCEPT !.rows = dir[op.b].rows, !.from = op.b])
    BY <1>5 DEF RestoreDatabase, At, now
  <2> QED BY <1>1, <1>2, <2>1, OnwardKeeps DEF TestSteps, TargetsOf, Dirs, now
<1>6. CASE RestoreMedia
  <2> DEFINE x == [now EXCEPT !.files = @ + dir[op.b].files]
  <2>1. op.step = "files" /\ Onward("migrate", x)
    BY <1>6 DEF RestoreMedia, At, now
  <2>2. x.files = dir[op.b].files
    BY <1>1, <1>2, <2>1 DEF TargetsOf, Dirs
  <2>3. /\ x \in TargetsOf /\ x.from = now.from /\ x.rows = now.rows /\ x.root = now.root
        /\ x.verdict = now.verdict
    BY <1>1, <2>2 DEF TargetsOf, Dirs
  <2>4. now.root
    BY <1>2, <2>1
  <2> HIDE DEF x
  <2> QED BY <1>1, <1>2, <2>1, <2>2, <2>3, <2>4, OnwardKeeps DEF TestSteps, now
<1>7. CASE Migrate
  <2>1. op.step = "migrate" /\ Onward("app", now)
    BY <1>7 DEF Migrate, At, now
  <2> QED BY <1>1, <1>2, <2>1, OnwardKeeps DEF TestSteps, now
<1>8. CASE StartApp
  <2>1. op.step = "app" /\ Onward("gate", now)
    BY <1>8 DEF StartApp, At, now
  <2> QED BY <1>1, <1>2, <2>1, OnwardKeeps DEF TestSteps, now
<1>9. CASE PassGate
  <2>1. op.step = "gate" /\ Onward("stop", [now EXCEPT !.verdict = "PASS"])
    BY <1>9 DEF PassGate, At, now
  <2> QED BY <1>1, <1>2, <2>1, OnwardKeeps DEF TestSteps, TargetsOf, now
<1>10. CASE TestFails
  <2>1. PICK root \in {now.root, TRUE}, stack \in {now.stack, "up"} :
          /\ stack = "up" => op.step # "create"
          /\ target' = [target EXCEPT ![op.t] = [@ EXCEPT !.root = root, !.stack = stack,
                                                          !.verdict = "FAILED"]]
    BY <1>10 DEF TestFails, At, now
  <2>2. /\ target'[op.t].verdict = "FAILED" /\ target'[op.t].from = now.from
        /\ target'[op.t].files = now.files /\ target'[op.t].stack = stack /\ target'[op.t].root = root
        /\ \A t \in Targets \ {op.t} : target'[t] = target[t]
    BY <1>1, <2>1 DEF TargetsOf, now
  <2>3. /\ op.step = "create" => op'.step = "idle"
        /\ op.step # "create" => op'.step = "stop" /\ op'.b = op.b /\ op'.t = op.t
    BY <1>1, <1>10 DEF TestFails, At, Ops, Idle
  <2>4. UNCHANGED <<dir, told, rots>>
    BY <1>10 DEF TestFails, Fault, NoFault, budgets
  <2>5. op'.step \notin BackupSteps
    BY <2>3 DEF BackupSteps
  <2>6. Own' /\ Captured' /\ Whole'
    BY <1>1, <2>2, <2>3, <2>4, <2>5, TestStep, TestOwn DEF TestSteps, now
  <2>7. Shown' /\ TestStackEnds'
    BY <1>1, <1>2, <2>1, <2>2, <2>3, <2>4, TestShown DEF TestSteps
  <2> QED BY <2>6, <2>7 DEF Sound
<1>11. CASE StopTest \/ StopTestFails
  <2>1. PICK stack \in {"down", "orphan", now.stack} :
          stack # "up" /\ target' = [target EXCEPT ![op.t].stack = stack]
    BY <1>1, <1>11 DEF StopTest, StopTestFails, TargetsOf, now
  <2>2. /\ target'[op.t].verdict = now.verdict /\ target'[op.t].from = now.from
        /\ target'[op.t].files = now.files /\ target'[op.t].rows = now.rows
        /\ target'[op.t].stack # "up" /\ target'[op.t].root = now.root
        /\ \A t \in Targets \ {op.t} : target'[t] = target[t]
    BY <1>1, <2>1 DEF TargetsOf, now
  <2>3. op'.step = "idle" /\ UNCHANGED <<dir, told, rots>>
    BY <1>11 DEF StopTest, StopTestFails, Idle, Fault, NoFault, budgets
  <2>4. now.verdict = "PASS" => /\ now.from \in Backups /\ now.rows = dir[now.from].rows
                                /\ now.files = dir[now.from].files
    BY <1>1 DEF Sound, Shown, PassShowsBackup, TargetsOf, now
  <2>5. Own' /\ Captured' /\ Whole'
    BY <1>1, <2>2, <2>3, TestStep, TestOwn DEF TestSteps, BackupSteps, now
  <2>6. Shown' /\ TestStackEnds'
    BY <1>1, <1>2, <2>2, <2>3, <2>4, TestShown DEF TestSteps
  <2> QED BY <2>5, <2>6 DEF Sound
<1> QED BY <1>3, <1>4, <1>5, <1>6, <1>7, <1>8, <1>9, <1>10, <1>11

\* What begins between two actions, and the application, the disk and death.
LEMMA OtherKeeps ==
  ASSUME Sound, Typed',
         \/ StoreFile \/ StoreRow \/ Crash \/ UNCHANGED vars
         \/ \E b \in Backups : BeginBackup(b) \/ VerifyExisting(b)
         \/ \E b \in Backups, t \in Targets : BeginTest(b, t)
         \/ \E b \in Backups, a \in Artifacts : Rot(b, a)
  PROVE  Sound'
<1>1. /\ op \in Ops /\ dir \in [Backups -> Dirs] /\ target \in [Targets -> TargetsOf] /\ rots \in Nat
      /\ rows \in Nat /\ files \in Nat /\ told \subseteq Backups
      /\ \A d \in Backups : dir[d].rows \in Nat /\ dir[d].files \in Nat
      /\ op.step \in BackupSteps => op.b \in Backups
      /\ op.step \in TestSteps => op.b \in Backups /\ op.t \in Targets
  BY DEF Sound, Typed, TypeOK, Dirs
<1>2. CASE StoreFile \/ StoreRow \/ UNCHANGED vars
  <2>1. UNCHANGED <<dir, target, op, told, rots>> /\ rows' \in Nat /\ rows <= rows'
    BY <1>1, <1>2 DEF StoreFile, StoreRow, vars, NoFault, budgets
  <2>2. Own' /\ Whole' /\ Shown' /\ TestStackEnds'
    BY <2>1 DEF Sound, Own, Whole, Shown, TestStackEnds, VerifiedIsWhole, PassShowsBackup
  <2>3. Captured'
    BY <1>1, <2>1 DEF Sound, Captured, RowsHaveFiles, BackupSteps
  <2> QED BY <2>2, <2>3 DEF Sound
<1>3. ASSUME NEW b \in Backups, BeginBackup(b) PROVE Sound'
  <2>1. /\ op'.step = "capture" /\ op'.b = b /\ op'.n = 1 /\ UNCHANGED <<target, told, rots>>
        /\ op.step = "idle" /\ dir[b].state = "none"
    BY <1>3 DEF BeginBackup, At, NoFault, budgets
  <2>2. /\ \A d \in Backups \ {b} : dir'[d] = dir[d]
        /\ dir'[b].state = "made" /\ dir'[b].manifest = dir[b].manifest
    BY <1>1, <1>3 DEF BeginBackup, Dirs
  <2>3. dir[b].manifest = "none" /\ b \notin told /\ \A u \in Targets : target[u].from # b
    BY <2>1, BackupAssumption DEF Sound, Own
  <2>4. \A u \in Targets : target[u].from \in Backups \union {None}
    BY <1>1 DEF TargetsOf
  <2>5. Own'
    BY <1>1, <2>1, <2>2, <2>3, <2>4 DEF Sound, Own, TestSteps
  <2>6. Captured' /\ Whole'
    BY <1>1, <2>1, <2>2, <2>3 DEF Sound, Captured, Whole, RowsHaveFiles, VerifiedIsWhole
  <2>7. Shown' /\ TestStackEnds'
    BY <1>1, <2>1, <2>2, <2>3, <2>4 DEF Sound, Shown, TestStackEnds, PassShowsBackup, TestSteps
  <2> QED BY <2>5, <2>6, <2>7 DEF Sound
<1>4. ASSUME NEW b \in Backups, VerifyExisting(b) PROVE Sound'
  <2>1. UNCHANGED <<dir, target, op, rots, rows>> /\ op.step = "idle" /\ dir[b].state # "none"
        /\ told' \in {told, told \union {b}}
    BY <1>4 DEF VerifyExisting, At, NoFault, budgets
  <2> QED BY <2>1
     DEF Sound, Own, Captured, Whole, Shown, TestStackEnds, RowsHaveFiles, VerifiedIsWhole, PassShowsBackup,
         BackupSteps, TestSteps
<1>5. ASSUME NEW b \in Backups, NEW t \in Targets, BeginTest(b, t) PROVE Sound'
  <2>1. /\ UNCHANGED <<dir, target, told, rots, rows>> /\ op.step = "idle" /\ dir[b].state # "none"
        /\ op'.step = "create" /\ op'.b = b /\ op'.t = t /\ ~target[t].root
    BY <1>5 DEF BeginTest, At, NoFault, budgets
  <2> QED BY <2>1
     DEF Sound, Own, Captured, Whole, Shown, TestStackEnds, RowsHaveFiles, VerifiedIsWhole, PassShowsBackup,
         BackupSteps, TestSteps
<1>6. ASSUME NEW b \in Backups, NEW a \in Artifacts, Rot(b, a) PROVE Sound'
  <2>1. UNCHANGED <<target, op, told, rows>> /\ rots' = rots + 1
    BY <1>6 DEF Rot
  <2>2. \A d \in Backups : /\ dir'[d].state = dir[d].state /\ dir'[d].manifest = dir[d].manifest
                           /\ dir'[d].rows = dir[d].rows /\ dir'[d].files = dir[d].files
    BY <1>1, <1>6 DEF Rot, Dirs
  <2>3. rots' > 0
    BY <1>1, <2>1
  <2>4. \A u \in Targets : target[u].from \in Backups \union {None}
    BY <1>1 DEF TargetsOf
  <2>5. Own' /\ Captured' /\ Whole'
    BY <1>1, <2>1, <2>2, <2>3, <2>4 DEF Sound, Own, Captured, Whole, RowsHaveFiles, VerifiedIsWhole, BackupSteps
  <2>6. Shown' /\ TestStackEnds'
    BY <1>1, <2>1, <2>2, <2>4 DEF Sound, Shown, TestStackEnds, PassShowsBackup, TestSteps
  <2> QED BY <2>5, <2>6 DEF Sound
<1>7. CASE Crash /\ op.step \in BackupSteps
  <2>1. op'.step = "idle" /\ UNCHANGED <<target, told, rots>>
    BY <1>7 DEF Crash, Idle
  <2>2. /\ dir'[op.b] \in {dir[op.b], Broken(dir[op.b])} /\ \A d \in Backups \ {op.b} : dir'[d] = dir[d]
    BY <1>1, <1>7 DEF Crash
  <2>3. dir[op.b] \in Dirs /\ op.n \in 1..4 /\ dir[op.b].state = "made"
    BY <1>1, <1>7 DEF Ops, Sound, Own
  <2>4. /\ dir'[op.b].state = "made" /\ dir'[op.b].manifest \in {"torn", dir[op.b].manifest}
        /\ dir'[op.b].rows = dir[op.b].rows /\ dir'[op.b].files = dir[op.b].files
        /\ dir'[op.b].art = dir[op.b].art \/ op.step = "capture"
        /\ op.step = "capture" => dir'[op.b].manifest = "none"
    BY <2>2, <2>3 DEF Broken, At, Dirs, Sound, Captured
  <2>5. Own' /\ Shown' /\ TestStackEnds'
    BY <1>7, <2>1, <2>2, <2>4, BackupStep
  <2>6. Captured'
    BY <1>1, <1>7, <2>1, <2>2, <2>4 DEF Sound, Captured, RowsHaveFiles, BackupSteps
  <2>7. Whole'
    <3>1. dir'[op.b].manifest = "verified"
            => dir[op.b].manifest = "verified" /\ dir'[op.b].art = dir[op.b].art
      BY <2>4
    <3>2. VerifiedIsWhole'
      BY <1>1, <1>7, <2>1, <2>2, <2>3, <3>1 DEF Sound, Whole, VerifiedIsWhole
    <3> QED BY <2>1, <3>2 DEF Whole
  <2> QED BY <2>5, <2>6, <2>7 DEF Sound
<1>8. CASE Crash /\ op.step \notin BackupSteps
  <2>1. op'.step = "idle" /\ UNCHANGED <<dir, told, rots>> /\ op.step \in TestSteps
    BY <1>1, <1>8 DEF Crash, At, Idle, Ops
  <2> DEFINE now == target[op.t]
  <2>2. /\ target'[op.t].verdict = now.verdict /\ target'[op.t].from = now.from
        /\ target'[op.t].files = now.files /\ target'[op.t].rows = now.rows
        /\ target'[op.t].stack # "up" /\ target'[op.t].root = now.root
        /\ \A u \in Targets \ {op.t} : target'[u] = target[u]
    BY <1>1, <1>8, <2>1 DEF Crash, TargetsOf
  <2>3. now.verdict = "PASS" => /\ now.from \in Backups /\ now.rows = dir[now.from].rows
                                /\ now.files = dir[now.from].files
    BY <1>1, <2>1 DEF Sound, Shown, PassShowsBackup, TargetsOf
  <2>4. ~now.root => now.files = 0 /\ now.verdict # "PASS"
    BY <1>1, <2>1 DEF Sound, Shown
  <2>5. Own' /\ Captured' /\ Whole'
    BY <1>1, <2>1, <2>2, TestStep, TestOwn DEF TestSteps, BackupSteps
  <2>6. Shown' /\ TestStackEnds'
    BY <1>1, <2>1, <2>2, <2>3, <2>4, TestShown DEF TestSteps
  <2> QED BY <2>5, <2>6 DEF Sound
<1> QED BY <1>2, <1>3, <1>4, <1>5, <1>6, <1>7, <1>8

LEMMA SoundNext == Sound /\ [Next]_vars => Sound'
<1> SUFFICES ASSUME Sound, [Next]_vars PROVE Sound'
  OBVIOUS
<1>1. Typed'
  BY TypedNext DEF Sound
<1> QED BY <1>1, BackupKeeps, TestKeeps, OtherKeeps DEF Next, Backup, TestRestore

\* What an action has established at each of its steps.
THEOREM SoundInvariant == Spec => []Sound
BY SoundInit, SoundNext, PTL DEF Spec

\* Type correctness of the backup store: a test restore leaves no more files in
\* its target than a backup has.
THEOREM Typing == Spec => []TypeOK
<1>1. Sound => TypeOK
  BY DEF Sound, Typed
<1> QED BY <1>1, SoundInvariant, PTL

\* A backup marked verified has all its artifacts, until one rots.
THEOREM VerifiedTheorem == Spec => []VerifiedIsWhole
<1>1. Sound => VerifiedIsWhole
  BY DEF Sound, Whole
<1> QED BY <1>1, SoundInvariant, PTL

\* The rows of a finished backup find their files in it.
THEOREM RowsTheorem == Spec => []RowsHaveFiles
<1>1. Sound => RowsHaveFiles
  BY DEF Sound, Captured
<1> QED BY <1>1, SoundInvariant, PTL

\* A passed test restore shows one backup and nothing else.
THEOREM PassTheorem == Spec => []PassShowsBackup
<1>1. Sound => PassShowsBackup
  BY DEF Sound, Shown
<1> QED BY <1>1, SoundInvariant, PTL

\* Containers of a test instance run only in their test.
THEOREM StackTheorem == Spec => []TestStackEnds
<1>1. Sound => TestStackEnds
  BY DEF Sound
<1> QED BY <1>1, SoundInvariant, PTL

\* Nothing but rot touches a backup a client was told is verified.
THEOREM ToldTheorem == Spec => ToldIsKept
<1>1. Sound /\ [Next]_vars => [KeepTold]_vars
  <2> SUFFICES ASSUME Sound, Next, NEW c \in told PROVE dir'[c] = dir[c] \/ rots' > rots
    BY DEF KeepTold
  <2>1. /\ dir \in [Backups -> Dirs] /\ c \in Backups /\ dir[c].state # "none" /\ rots \in Nat
        /\ op.step \in BackupSteps => op.b # c
    BY BoundAssumption DEF Sound, Typed, TypeOK, Own
  <2>2. CASE Backup \/ Crash
    BY <2>1, <2>2
       DEF Backup, BeginBackup, VerifyExisting, Capture, WriteManifest, VerifyCreated, MarkVerified, Confirm,
           StepFails, Cleanup, CleanupFails, Crash, At, BackupSteps
  <2>3. CASE TestRestore \/ StoreFile \/ StoreRow
    BY <2>3
       DEF TestRestore, BeginTest, CreateTarget, StartInfra, RestoreDatabase, RestoreMedia, Migrate, StartApp,
           PassGate, TestFails, StopTest, StopTestFails, Onward, StoreFile, StoreRow
  <2>4. CASE \E b \in Backups, a \in Artifacts : Rot(b, a)
    BY <2>1, <2>4 DEF Rot
  <2> QED BY <2>2, <2>3, <2>4 DEF Next
<1> QED BY <1>1, SoundInvariant, PTL DEF Spec, ToldIsKept
=============================================================================
