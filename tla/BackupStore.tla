----------------------------- MODULE BackupStore -----------------------------
(***************************************************************************)
(* The Agent's backups of one instance: creation and verification          *)
(* (kx_agent/backups/executor.py, verify.py), the backup handlers of       *)
(* actions.py, and the isolated test restore of restore.py.                *)
(*                                                                         *)
(* The Agent serves one action at a time, but the instance that is backed  *)
(* up keeps running and writing.  Its data is a number of uploads: a file  *)
(* in the media directory and a database row that names it.  A backup      *)
(* takes the rows and the files one after the other.                       *)
(***************************************************************************)
EXTENDS Naturals, Sequences

CONSTANTS
  Backups,        \* backup ids: instance, class and a timestamp in seconds
  Targets,        \* ids of the temporary instances of test restores
  None,           \* no backup, no target
  MaxUploads,     \* bound: how often the application stores a file
  Faults,         \* bound: commands and file operations that fail
  Rots,           \* bound: artifacts damaged or lost after they were written
  Crashes         \* bound: how often the Agent dies and comes back

ASSUME BackupAssumption == None \notin Backups \union Targets
ASSUME BoundAssumption == {MaxUploads, Faults, Rots, Crashes} \subseteq Nat

VARIABLES
  files, rows,    \* live media files, and database rows that name one
  dir,            \* the backup directories
  target,         \* the instances test restores made
  op,             \* the Agent action in progress
  told,           \* backups a client was told are verified
  faults, rots, crashes

budgets == <<faults, rots, crashes>>
vars == <<files, rows, dir, target, op, told, faults, rots, crashes>>

Artifacts == {"database", "media", "env", "logs"}
Required == {"database", "media", "env"}     \* allow_missing_logs only

\* A directory: its manifest, its artifacts, and how many rows and files the
\* dump and the media archive hold.  "partial": not written to the end;
\* "damaged": not what its checksum was made from; "remains": what a clean-up
\* could not remove.
Dirs == [manifest : {"none", "torn", "created", "verified"},
         art : [Artifacts -> {"absent", "partial", "whole", "damaged"}],
         state : {"none", "made", "remains"}, rows : 0..MaxUploads, files : 0..MaxUploads]
NoDir == [manifest |-> "none", art |-> [a \in Artifacts |-> "absent"],
          state |-> "none", rows |-> 0, files |-> 0]

\* A test instance: its directory, what was restored into it, its containers.
\* "orphan": containers the action could not or can no longer take down.
TargetsOf == [root : BOOLEAN, from : Backups \union {None}, rows : 0..MaxUploads,
              files : 0..MaxUploads, stack : {"down", "up", "orphan"},
              verdict : {"none", "PASS", "FAILED"}]
NoTarget == [root |-> FALSE, from |-> None, rows |-> 0, files |-> 0,
             stack |-> "down", verdict |-> "none"]

BackupSteps == {"capture", "manifest", "verify", "mark", "confirm", "cleanup"}
TestSteps == {"create", "infra", "database", "files", "migrate", "app", "gate", "stop"}
Idle == [step |-> "idle", n |-> 1, b |-> None, t |-> None, verify |-> FALSE]
Ops == [step : {"idle"} \union BackupSteps \union TestSteps, n : 1..4,
        b : Backups \union {None}, t : Targets \union {None}, verify : BOOLEAN]

TypeOK ==
  /\ files \in 0..MaxUploads /\ rows \in 0..MaxUploads
  /\ dir \in [Backups -> Dirs]
  /\ target \in [Targets -> TargetsOf]
  /\ op \in Ops
  /\ told \subseteq Backups
  /\ faults \in 0..Faults /\ rots \in 0..Rots /\ crashes \in 0..Crashes

Init ==
  /\ files = 0 /\ rows = 0
  /\ dir = [b \in Backups |-> NoDir]
  /\ target = [t \in Targets |-> NoTarget]
  /\ op = Idle
  /\ told = {}
  /\ faults = 0 /\ rots = 0 /\ crashes = 0

At(step) == op.step = step
GoTo(step) == op' = [op EXCEPT !.step = step]
Fault == faults < Faults /\ faults' = faults + 1 /\ UNCHANGED <<rots, crashes>>
NoFault == UNCHANGED budgets

\* Mutant: the media directory is archived before the database is dumped.
MediaFirst == <<"media", "database", "env", "logs">>

\* The order in which the artifacts are written.
Order == <<"database", "media", "env", "logs">>

\* verify_backup: a readable manifest, every required artifact there, and no
\* artifact that differs from the checksum made when the manifest was written,
\* which a partial file would not.  Missing logs are a warning.
Accepted(d) ==
  /\ d.manifest \in {"created", "verified"}
  /\ \A a \in Required : d.art[a] # "absent"
  /\ \A a \in Artifacts : d.art[a] # "damaged"

-----------------------------------------------------------------------------
(* The application of the instance: the file first, then its row.          *)

StoreFile ==
  /\ files < MaxUploads
  /\ files' = files + 1
  /\ NoFault
  /\ UNCHANGED <<rows, dir, target, op, told>>

StoreRow ==
  /\ rows < files
  /\ rows' = rows + 1
  /\ NoFault
  /\ UNCHANGED <<files, dir, target, op, told>>

-----------------------------------------------------------------------------
(* instance_backup: create_verified_instance_backup.                       *)

\* Mutant: mkdir with exist_ok, so an id of the same second is used again.
BeginBackupAgain(b) ==
  /\ At("idle")
  /\ dir' = [dir EXCEPT ![b].state = "made"]
  /\ \E v \in BOOLEAN : op' = [step |-> "capture", n |-> 1, b |-> b, t |-> None, verify |-> v]
  /\ NoFault
  /\ UNCHANGED <<files, rows, target, told>>

\* mkdir(exist_ok=False): an id that exists already is refused before the try
\* block, so nothing of the earlier backup is touched.
BeginBackup(b) ==
  /\ At("idle")
  /\ dir[b].state = "none"
  /\ dir' = [dir EXCEPT ![b].state = "made"]
  /\ \E v \in BOOLEAN : op' = [step |-> "capture", n |-> 1, b |-> b, t |-> None, verify |-> v]
  /\ NoFault
  /\ UNCHANGED <<files, rows, target, told>>

\* The next artifact: pg_dump takes the rows of one moment, the tar of the
\* media directory the files of a later one.
With(d, a) == [d EXCEPT !.art[a] = "whole",
                        !.rows = IF a = "database" THEN rows ELSE @,
                        !.files = IF a = "media" THEN files ELSE @]

Capture ==
  /\ At("capture")
  /\ dir' = [dir EXCEPT ![op.b] = With(@, Order[op.n])]
  /\ op' = IF op.n < Len(Order) THEN [op EXCEPT !.n = @ + 1]
                                ELSE [op EXCEPT !.step = "manifest"]
  /\ NoFault
  /\ UNCHANGED <<files, rows, target, told>>

\* The manifest with status "created"; without verification that is the end.
WriteManifest ==
  /\ At("manifest")
  /\ dir' = [dir EXCEPT ![op.b].manifest = "created"]
  /\ op' = IF op.verify THEN [op EXCEPT !.step = "verify"] ELSE Idle
  /\ NoFault
  /\ UNCHANGED <<files, rows, target, told>>

VerifyCreated ==
  /\ At("verify")
  /\ GoTo(IF Accepted(dir[op.b]) THEN "mark" ELSE "cleanup")
  /\ NoFault
  /\ UNCHANGED <<files, rows, dir, target, told>>

\* The manifest is written over with status "verified".
MarkVerified ==
  /\ At("mark")
  /\ dir' = [dir EXCEPT ![op.b].manifest = "verified"]
  /\ GoTo("confirm")
  /\ NoFault
  /\ UNCHANGED <<files, rows, target, told>>

\* The second verification, on the final manifest, and the answer.
Confirm ==
  /\ At("confirm")
  /\ IF Accepted(dir[op.b])
     THEN op' = Idle /\ told' = told \union {op.b}
     ELSE GoTo("cleanup") /\ told' = told
  /\ NoFault
  /\ UNCHANGED <<files, rows, dir, target>>

\* A step raises; the artifact or manifest it was writing is left incomplete.
Broken(d) ==
  CASE At("capture") -> [d EXCEPT !.art[Order[op.n]] = "partial"]
    [] At("manifest") \/ At("mark") -> [d EXCEPT !.manifest = "torn"]
    [] OTHER -> d

\* Mutant: the result of pg_dump, or an error of a tar, goes unnoticed.
StepFailsUnseen ==
  /\ op.step \in BackupSteps \ {"cleanup"}
  /\ Fault
  /\ dir' = [dir EXCEPT ![op.b] = Broken(@)]
  /\ op' = IF op.n < Len(Order) THEN [op EXCEPT !.n = @ + 1]
                                ELSE [op EXCEPT !.step = "manifest"]
  /\ UNCHANGED <<files, rows, target, told>>

StepFails ==
  /\ op.step \in BackupSteps \ {"cleanup"}
  /\ Fault
  /\ dir' = [dir EXCEPT ![op.b] = Broken(@)]
  /\ GoTo("cleanup")
  /\ UNCHANGED <<files, rows, target, told>>

\* The except block: rmtree of the directory, and the error goes to the client.
Cleanup ==
  /\ At("cleanup")
  /\ dir' = [dir EXCEPT ![op.b] = NoDir]
  /\ op' = Idle
  /\ NoFault
  /\ UNCHANGED <<files, rows, target, told>>

\* rmtree(ignore_errors=True) leaves some of the files behind.
Without(d, gone) ==
  [d EXCEPT !.state = "remains",
            !.art = [a \in Artifacts |-> IF a \in gone THEN "absent" ELSE d.art[a]]]

CleanupFails ==
  /\ At("cleanup")
  /\ Fault
  /\ \E gone \in SUBSET Artifacts : dir' = [dir EXCEPT ![op.b] = Without(@, gone)]
  /\ op' = Idle
  /\ UNCHANGED <<files, rows, target, told>>

\* backup_verify: verification by itself; it writes nothing.
VerifyExisting(b) ==
  /\ At("idle")
  /\ dir[b].state # "none"
  /\ told' = IF Accepted(dir[b]) THEN told \union {b} ELSE told
  /\ NoFault
  /\ UNCHANGED <<files, rows, dir, target, op>>

\* An artifact is damaged or lost on disk.
Rot(b, a) ==
  /\ rots < Rots
  /\ dir[b].art[a] = "whole"
  /\ \E r \in {"absent", "damaged"} : dir' = [dir EXCEPT ![b].art[a] = r]
  /\ rots' = rots + 1
  /\ UNCHANGED <<files, rows, target, op, told, faults, crashes>>

-----------------------------------------------------------------------------
(* backup_test_restore: a verified backup into a fresh instance.           *)

\* The target: written by one step of the action, which goes on at next.
Onward(next, t) ==
  /\ target' = [target EXCEPT ![op.t] = t]
  /\ GoTo(next)
  /\ NoFault
  /\ UNCHANGED <<files, rows, dir, told>>

\* Mutant: a target directory that exists is used again.
BeginTestAnywhere(b, t) ==
  /\ At("idle")
  /\ dir[b].state # "none" /\ Accepted(dir[b]) /\ dir[b].manifest = "verified"
  /\ op' = [step |-> "create", n |-> 1, b |-> b, t |-> t, verify |-> TRUE]
  /\ NoFault
  /\ UNCHANGED <<files, rows, dir, target, told>>

\* verify_backup accepts, RestoreRunner.preflight finds the manifest marked
\* verified, and the target has no directory yet.  Otherwise an error leaves
\* everything as it was.
BeginTest(b, t) ==
  /\ At("idle")
  /\ dir[b].state # "none" /\ Accepted(dir[b]) /\ dir[b].manifest = "verified"
  /\ ~target[t].root
  /\ op' = [step |-> "create", n |-> 1, b |-> b, t |-> t, verify |-> TRUE]
  /\ NoFault
  /\ UNCHANGED <<files, rows, dir, target, told>>

\* write_runtime_compose: local_only, private, no port bound.
CreateTarget == At("create") /\ Onward("infra", [target[op.t] EXCEPT !.root = TRUE])

\* up of postgres and redis
StartInfra == At("infra") /\ Onward("database", [target[op.t] EXCEPT !.stack = "up"])

\* pg_restore --single-transaction, of a dump that is still whole
RestoreDatabase ==
  /\ At("database")
  /\ dir[op.b].art["database"] = "whole"
  /\ Onward("files", [target[op.t] EXCEPT !.rows = dir[op.b].rows, !.from = op.b])

RestoreMedia ==
  /\ At("files")
  /\ dir[op.b].art["media"] = "whole"
  /\ Onward("migrate", [target[op.t] EXCEPT !.files = @ + dir[op.b].files])

Migrate == At("migrate") /\ Onward("app", target[op.t])

\* up of all services, health of all of them, the Django check
StartApp == At("app") /\ Onward("gate", target[op.t])

PassGate == At("gate") /\ Onward("stop", [target[op.t] EXCEPT !.verdict = "PASS"])

\* Mutant: only a test that passed is taken down.
TestFailsUp ==
  /\ op.step \in TestSteps \ {"stop"}
  /\ faults < Faults /\ faults' = faults + 1
  /\ target' = [target EXCEPT ![op.t].verdict = "FAILED"]
  /\ op' = Idle
  /\ UNCHANGED <<files, rows, dir, told, rots, crashes>>

\* A step raises: the result is FAILED.  A command can fail after it did part
\* of its work, so the containers of a failed up may be there.  Before the
\* Compose file is written there is nothing to take down.
TestFails ==
  /\ op.step \in TestSteps \ {"stop"}
  /\ \/ Fault
     \/ At("database") /\ dir[op.b].art["database"] # "whole" /\ NoFault
     \/ At("files") /\ dir[op.b].art["media"] # "whole" /\ NoFault
  /\ \E root \in {target[op.t].root, TRUE} : \E stack \in {target[op.t].stack, "up"} :
       /\ stack = "up" => ~At("create")
       /\ target' = [target EXCEPT ![op.t] = [@ EXCEPT !.root = root, !.stack = stack,
                                                       !.verdict = "FAILED"]]
  /\ op' = IF At("create") THEN Idle ELSE [op EXCEPT !.step = "stop"]
  /\ UNCHANGED <<files, rows, dir, told>>

\* The finally block: down, without the volumes.
StopTest ==
  /\ At("stop")
  /\ target' = [target EXCEPT ![op.t].stack = "down"]
  /\ op' = Idle
  /\ NoFault
  /\ UNCHANGED <<files, rows, dir, told>>

\* down fails: the result says so, and the containers stay.
StopTestFails ==
  /\ At("stop")
  /\ Fault
  /\ target' = [target EXCEPT ![op.t].stack = IF @ = "up" THEN "orphan" ELSE @]
  /\ op' = Idle
  /\ UNCHANGED <<files, rows, dir, told>>

-----------------------------------------------------------------------------
\* The Agent dies in an action: neither except nor finally block runs.
Crash ==
  /\ ~At("idle")
  /\ crashes < Crashes
  /\ crashes' = crashes + 1
  /\ IF op.step \in BackupSteps
     THEN /\ \E d \in {dir[op.b], Broken(dir[op.b])} : dir' = [dir EXCEPT ![op.b] = d]
          /\ target' = target
     ELSE /\ target' = [target EXCEPT ![op.t].stack = IF @ = "up" THEN "orphan" ELSE @]
          /\ dir' = dir
  /\ op' = Idle
  /\ UNCHANGED <<files, rows, told, faults, rots>>

Backup == \/ \E b \in Backups : BeginBackup(b) \/ VerifyExisting(b)
          \/ Capture \/ WriteManifest \/ VerifyCreated \/ MarkVerified \/ Confirm
          \/ StepFails \/ Cleanup \/ CleanupFails
TestRestore == \/ \E b \in Backups, t \in Targets : BeginTest(b, t)
               \/ CreateTarget \/ StartInfra \/ RestoreDatabase \/ RestoreMedia
               \/ Migrate \/ StartApp \/ PassGate \/ TestFails
               \/ StopTest \/ StopTestFails
Next == \/ StoreFile \/ StoreRow \/ Backup \/ TestRestore \/ Crash
        \/ \E b \in Backups, a \in Artifacts : Rot(b, a)

Spec == Init /\ [][Next]_vars
-----------------------------------------------------------------------------
(* Properties.                                                             *)

\* A backup whose manifest says "verified" can be restored: its artifacts are
\* all there, whatever failed or crashed while it or another one was made.
\* (Needs artifacts that do not rot.  What a failed clean-up leaves behind may
\* still hold such a manifest without its artifacts.)
VerifiedIsWhole ==
  \A b \in Backups : dir[b].manifest = "verified" /\ dir[b].state = "made" =>
    rots > 0 \/ \A a \in Artifacts : dir[b].art[a] = "whole"

\* Every database row of a finished backup finds its media file in the same
\* backup, although the instance goes on storing files while it is made.
RowsHaveFiles ==
  \A b \in Backups : dir[b].manifest \in {"created", "verified"} =>
    dir[b].rows <= dir[b].files

\* A backup that a client was told is verified is touched by no later action:
\* not by a backup of the same second, and not by the clean-up of a failed one.
KeepTold == \A b \in told : dir'[b] = dir[b] \/ rots' > rots
ToldIsKept == [][KeepTold]_vars

\* What a passed test restore shows is one backup: its rows and its files, and
\* nothing another test left in the target.
PassShowsBackup ==
  \A t \in Targets : target[t].verdict = "PASS" =>
    /\ target[t].from # None
    /\ target[t].rows = dir[target[t].from].rows
    /\ target[t].files = dir[target[t].from].files

\* Containers of a test instance run only while its test does, however it ends.
\* (Containers left by a failed down or by a crash are "orphan".)
TestStackEnds ==
  \A t \in Targets : target[t].stack = "up" => op.step \in TestSteps /\ op.t = t
=============================================================================
