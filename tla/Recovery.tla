------------------------------ MODULE Recovery ------------------------------
(***************************************************************************)
(* Restore and rollback of an instance: RestoreRunner of                   *)
(* kx_agent/backups/restore.py and rollback_instance of rollback.py.       *)
(*                                                                         *)
(* Both run a fixed order of operations that the caller passes in; what    *)
(* the operations themselves do is external, and modelled by what the two  *)
(* runners rely on: an operation does its work, or raises and leaves part  *)
(* of it.  The runs follow one another, since the Agent serves one action  *)
(* at a time, and may be cut off anywhere.                                 *)
(***************************************************************************)
EXTENDS Naturals

CONSTANTS
  Plans,          \* restore plans: target, optional steps, overwrite, dry run
  Capsules,       \* capsules a rollback may go to
  None,           \* no capsule
  Runs,           \* bound: restores and rollbacks that are started
  Faults,         \* bound: operations and file writes that fail
  Crashes         \* bound: how often the Agent dies and comes back

\* "home" is the instance itself, "spare" the new instance of a restore beside it.
Targets == {"home", "spare"}
Parts == {"database", "media", "env"}
Checks == {"migrate", "gate", "health"}

ASSUME PlanAssumption ==
  Plans \subseteq [t : Targets, steps : SUBSET ({"media", "env"} \union Checks),
                   overwrite : BOOLEAN, dry : BOOLEAN]
ASSUME RecoveryAssumption == None \notin Capsules /\ {Runs, Faults, Crashes} \subseteq Nat

VARIABLES
  data,           \* what each part of each instance holds
  copies,         \* history: the pre-restore backups that were made
  report,         \* restore-report.json of each instance
  current, previous,  \* the capsule pointers of the instance
  state,          \* the status in rollback-state.json
  op,             \* the run in progress, or the last one
  runs, faults, crashes

vars == <<data, copies, report, current, previous, state, op, runs, faults, crashes>>
budgets == <<runs, faults, crashes>>
restoreVars == <<data, copies, report>>
rollbackVars == <<current, previous, state>>

\* "live": what the instance held and wrote; "backup": the content of the source
\* backup; "torn": neither.
Contents == {"none", "live", "backup", "torn"}
Datas == [Parts -> Contents]
NoData == [p \in Parts |-> "none"]
LiveData == [p \in Parts |-> "live"]

RestoreSteps == {"preflight", "safety", "stop", "database", "media", "env", "migrate", "gate",
                 "health", "mark", "compensate", "report"}
RollbackSteps == {"begin", "halt", "previous", "current", "repointed", "data", "start", "complete"}
Statuses == {"none", "planned", "restored", "rolled_back", "failed",
             "running", "capsule_repointed", "data_restored", "completed"}

\* The fields of op: the step; a restore's plan, the copy made for it, whether a
\* check of it was negative; a rollback's target, the pointer it read, whether it
\* restores data, whether it is a dry run; and what the caller was answered.
Idle == [step |-> "idle", plan |-> {}, copy |-> NoData, bad |-> FALSE,
         to |-> None, old |-> None, data |-> FALSE, dry |-> FALSE, answer |-> "none"]

Ops == [step : {"idle"} \union RestoreSteps \union RollbackSteps,
        plan : {{}} \union {{q} : q \in Plans}, copy : Datas, bad : BOOLEAN,
        to : Capsules \union {None}, old : Capsules \union {None},
        data : BOOLEAN, dry : BOOLEAN, answer : Statuses]

TypeOK ==
  /\ data \in [Targets -> Datas]
  /\ copies \subseteq Datas
  /\ report \in [Targets -> {"none", "planned", "restored", "rolled_back", "failed", "torn"}]
  /\ {current, previous} \subseteq Capsules \union {None}
  /\ state \in Statuses
  /\ op \in Ops
  /\ runs \in 0..Runs /\ faults \in 0..Faults /\ crashes \in 0..Crashes

Init ==
  /\ data = [t \in Targets |-> IF t = "home" THEN LiveData ELSE NoData]
  /\ copies = {}
  /\ report = [t \in Targets |-> "none"]
  /\ current \in Capsules \union {None} /\ previous = None
  /\ state = "none"
  /\ op = Idle
  /\ runs = 0 /\ faults = 0 /\ crashes = 0

At(step) == op.step = step
GoTo(step) == op' = [op EXCEPT !.step = step]
Answer(status) == op' = [op EXCEPT !.step = "idle", !.answer = status]
Fault == faults < Faults /\ faults' = faults + 1 /\ UNCHANGED <<runs, crashes>>
NoFault == UNCHANGED budgets

Plan == CHOOSE q \in Plans : op.plan = {q}

-----------------------------------------------------------------------------
(* RestoreRunner.run.                                                      *)

\* Mutant: the instance is stopped and overwritten before it is backed up.
AfterSafetyLate ==
  [preflight |-> "stop", stop |-> "database", database |-> "safety", safety |-> "media", media |-> "env",
   env |-> "migrate", migrate |-> "gate", gate |-> "health", health |-> "mark"]

\* The order of the steps of the try block.
After ==
  [preflight |-> "safety", safety |-> "stop", stop |-> "database", database |-> "media", media |-> "env",
   env |-> "migrate", migrate |-> "gate", gate |-> "health", health |-> "mark"]

\* Only a same-instance restore makes a backup first, and a plan may leave out
\* the optional steps.
Planned(step) ==
  IF step = "safety" THEN Plan.t = "home"
  ELSE step \in {"media", "env"} \union Checks => step \in Plan.steps

Doing(steps) == op.step \in steps /\ Planned(op.step)

Skip ==
  /\ op.step \in DOMAIN After /\ ~Planned(op.step)
  /\ GoTo(After[op.step])
  /\ NoFault
  /\ UNCHANGED <<restoreVars, rollbackVars>>

\* The statuses written on the way have no reader and are left out.
BeginRestore(plan) ==
  /\ At("idle")
  /\ runs < Runs /\ runs' = runs + 1 /\ UNCHANGED <<faults, crashes>>
  /\ op' = [Idle EXCEPT !.step = "preflight", !.plan = {plan}, !.dry = plan.dry]
  /\ UNCHANGED <<data, copies, report, current, previous, state>>

\* A new instance must not be there unless it may be overwritten, and the report
\* of an earlier run makes its directory; anything else the preflight refuses is
\* a failing step.
Exists(t) == data[t] # NoData \/ report[t] # "none"
Allowed == Plan.t = "home" \/ Plan.overwrite \/ ~Exists(Plan.t)

Preflight ==
  /\ At("preflight")
  /\ GoTo(CASE ~Allowed -> "compensate"
            [] Allowed /\ Plan.dry -> "report"
            [] OTHER -> After["preflight"])
  /\ NoFault
  /\ UNCHANGED <<restoreVars, rollbackVars>>

\* create_pre_restore_backup, while the instance is still running.
Safety ==
  /\ Doing({"safety"})
  /\ copies' = copies \union {data[Plan.t]}
  /\ op' = [op EXCEPT !.copy = data[Plan.t], !.step = After["safety"]]
  /\ NoFault
  /\ UNCHANGED <<data, report, rollbackVars>>

\* stop_target_instance and run_migrations: nothing the model keeps.
Pass ==
  /\ Doing({"stop", "migrate"})
  /\ GoTo(After[op.step])
  /\ NoFault
  /\ UNCHANGED <<restoreVars, rollbackVars>>

RestorePart ==
  /\ Doing(Parts)
  /\ data' = [data EXCEPT ![Plan.t][op.step] = "backup"]
  /\ GoTo(After[op.step])
  /\ NoFault
  /\ UNCHANGED <<copies, report, rollbackVars>>

\* Mutant: a health check that is negative is not looked at.
CheckHealthUnseen ==
  /\ Doing({"gate", "health"})
  /\ \E bad \in BOOLEAN :
       op' = [op EXCEPT !.bad = @ \/ bad,
                        !.step = IF bad /\ op.step = "gate" THEN "compensate" ELSE After[op.step]]
  /\ NoFault
  /\ UNCHANGED <<restoreVars, rollbackVars>>

\* The security gate and the health checks give a verdict; a negative one raises.
Check ==
  /\ Doing({"gate", "health"})
  /\ \E bad \in BOOLEAN :
       op' = [op EXCEPT !.bad = @ \/ bad,
                        !.step = IF bad THEN "compensate" ELSE After[op.step]]
  /\ NoFault
  /\ UNCHANGED <<restoreVars, rollbackVars>>

MarkRestored ==
  /\ At("mark")
  /\ GoTo("report")
  /\ NoFault
  /\ UNCHANGED <<restoreVars, rollbackVars>>

\* Any step, or the status written before it, raises; a part may be half done.
StepFails ==
  /\ Doing(RestoreSteps \ {"compensate", "report"})
  /\ \E d \in IF op.step \in Parts THEN {data[Plan.t], [data[Plan.t] EXCEPT ![op.step] = "torn"]}
              ELSE {data[Plan.t]} :
       data' = [data EXCEPT ![Plan.t] = d]
  /\ GoTo("compensate")
  /\ Fault
  /\ UNCHANGED <<copies, report, rollbackVars>>

Finish(status) == op' = [op EXCEPT !.step = "report", !.answer = status]

\* rollback_failed_restore: the default operation does nothing, another one puts
\* the pre-restore backup back.  Whatever it returns, the run is "rolled back".
Compensate ==
  /\ At("compensate")
  /\ \/ UNCHANGED data
     \/ op.copy # NoData /\ data' = [data EXCEPT ![Plan.t] = op.copy]
  /\ Finish("rolled_back")
  /\ NoFault
  /\ UNCHANGED <<copies, report, rollbackVars>>

\* It raises: some parts are put back in part, and the run has failed.
CompensateFails ==
  /\ At("compensate")
  /\ \E torn \in SUBSET Parts :
       /\ op.copy = NoData => torn = {}
       /\ data' = [data EXCEPT ![Plan.t] = [p \in Parts |-> IF p \in torn THEN "torn" ELSE @[p]]]
  /\ Finish("failed")
  /\ Fault
  /\ UNCHANGED <<copies, report, rollbackVars>>

\* Mutant: the report is made before the status is final.
VerdictEarly == IF op.answer # "none" THEN op.answer ELSE "running"

Verdict == CASE op.answer # "none" -> op.answer [] Plan.dry -> "planned" [] OTHER -> "restored"

\* The report file, and the answer to the caller.
WriteReport ==
  /\ At("report")
  /\ report' = [report EXCEPT ![Plan.t] = Verdict]
  /\ Answer(Verdict)
  /\ NoFault
  /\ UNCHANGED <<data, copies, rollbackVars>>

\* The report of a success is written inside the try block, so a restore that
\* is complete is compensated; that of a failure is not, so the run raises.
\* The directory, or part of the file, may be there all the same.
WriteReportFails ==
  /\ At("report")
  /\ IF op.answer = "none" THEN GoTo("compensate") ELSE Answer("none")
  /\ \E r \in {report[Plan.t], "torn"} : report' = [report EXCEPT ![Plan.t] = r]
  /\ Fault
  /\ UNCHANGED <<data, copies, rollbackVars>>

-----------------------------------------------------------------------------
(* rollback_instance.                                                      *)

\* The state file says RUNNING before the preflight has looked at anything.
BeginRollback(c) ==
  /\ At("idle")
  /\ runs < Runs /\ runs' = runs + 1 /\ UNCHANGED <<faults, crashes>>
  /\ \E d, dry \in BOOLEAN :
       op' = [Idle EXCEPT !.step = "begin", !.to = c, !.data = d, !.dry = dry]
  /\ state' = "running"
  /\ UNCHANGED <<data, copies, report, current, previous>>

\* preflight, "docker compose down", or reading the pointer.
Prepare ==
  /\ op.step \in {"begin", "halt"}
  /\ op' = [op EXCEPT !.step = IF At("begin") THEN "halt" ELSE "previous",
                      !.old = IF At("halt") THEN current ELSE @]
  /\ NoFault
  /\ UNCHANGED <<restoreVars, rollbackVars>>

\* Mutant: the current pointer is written first.
SavePreviousLate ==
  /\ At("previous")
  /\ current' = IF op.dry THEN current ELSE op.to
  /\ GoTo("current")
  /\ NoFault
  /\ UNCHANGED <<previous, state, restoreVars>>

\* repoint_capsule: the pointer that was read becomes the previous one ...
SavePrevious ==
  /\ At("previous")
  /\ previous' = IF op.dry \/ op.old = None THEN previous ELSE op.old
  /\ GoTo("current")
  /\ NoFault
  /\ UNCHANGED <<current, state, restoreVars>>

\* Mutant: a dry run writes the pointer.
RepointAlways ==
  /\ At("current")
  /\ current' = op.to
  /\ GoTo("repointed")
  /\ NoFault
  /\ UNCHANGED <<previous, state, restoreVars>>

\* ... and then the target the current one.  A dry run writes neither.
Repoint ==
  /\ At("current")
  /\ current' = IF op.dry THEN current ELSE op.to
  /\ GoTo("repointed")
  /\ NoFault
  /\ UNCHANGED <<previous, state, restoreVars>>

Repointed ==
  /\ At("repointed")
  /\ state' = "capsule_repointed"
  /\ GoTo("data")
  /\ NoFault
  /\ UNCHANGED <<current, previous, restoreVars>>

\* restore_data: the hook, if there is one, restores the backup; no backup of
\* the present data is made before.
RestoreData ==
  /\ At("data")
  /\ IF op.data
     THEN /\ \/ UNCHANGED data
             \/ ~op.dry /\ data' = [data EXCEPT !["home"] = [p \in Parts |-> "backup"]]
          /\ state' = "data_restored"
     ELSE UNCHANGED <<data, state>>
  /\ GoTo("start")
  /\ NoFault
  /\ UNCHANGED <<copies, report, current, previous>>

\* "docker compose up" with the Compose file as it is, and the hooks for
\* migrations, gate and health, whose results nobody looks at.
Restart ==
  /\ At("start")
  /\ GoTo("complete")
  /\ NoFault
  /\ UNCHANGED <<restoreVars, rollbackVars>>

Complete ==
  /\ At("complete")
  /\ state' = "completed"
  /\ Answer("completed")
  /\ NoFault
  /\ UNCHANGED <<current, previous, restoreVars>>

\* A step raises: the status is FAILED, unless writing that raises too, and what
\* was done stays done.
RollbackFails ==
  /\ op.step \in RollbackSteps
  /\ \/ state' = "failed" /\ Answer("failed")
     \/ UNCHANGED state /\ Answer("none")
  /\ IF At("data") /\ op.data /\ ~op.dry
     THEN \E torn \in SUBSET Parts :
            data' = [data EXCEPT !["home"] = [p \in Parts |-> IF p \in torn THEN "torn" ELSE @[p]]]
     ELSE UNCHANGED data
  /\ Fault
  /\ UNCHANGED <<current, previous, copies, report>>

\* clear_failed_rollback_state, after an operator looked at it.
ClearFailed ==
  /\ At("idle")
  /\ state = "failed"
  /\ state' = "none"
  /\ NoFault
  /\ UNCHANGED <<op, current, previous, restoreVars>>

-----------------------------------------------------------------------------
\* The Agent dies in the middle of a run; nothing is taken up again.
Crash ==
  /\ ~At("idle")
  /\ crashes < Crashes
  /\ crashes' = crashes + 1
  /\ op' = [op EXCEPT !.step = "idle", !.answer = "none"]
  /\ UNCHANGED <<restoreVars, rollbackVars, runs, faults>>

Restore ==
  \/ \E plan \in Plans : BeginRestore(plan)
  \/ Preflight \/ Skip \/ Safety \/ Pass \/ RestorePart \/ Check \/ MarkRestored \/ StepFails
  \/ Compensate \/ CompensateFails \/ WriteReport \/ WriteReportFails

Rollback ==
  \/ \E c \in Capsules : BeginRollback(c)
  \/ Prepare \/ SavePrevious \/ Repoint \/ Repointed \/ RestoreData \/ Restart
  \/ Complete \/ RollbackFails \/ ClearFailed

Next == Restore \/ Rollback \/ Crash

Spec == Init /\ [][Next]_vars

-----------------------------------------------------------------------------
(* Properties.                                                             *)

\* A restore answers "restored" only if every part of its plan holds the backup
\* and no check of it was negative, whatever failed in earlier runs.
\* (Needs failing steps, negative verdicts and a second restore.)
RestoredIsWhole ==
  At("idle") /\ op.answer = "restored"
    => /\ \A p \in Parts : p = "database" \/ p \in Plan.steps => data[Plan.t][p] = "backup"
       /\ ~op.bad

\* A restore changes the instance it runs on only after it made a copy of it,
\* and this copy is the one its answer names (pre_restore_backup_id), also when
\* the step that changes the data is the one that fails or undoes.
\* (Needs failing steps and compensations.)
CopyFirst ==
  [][op.step \in RestoreSteps /\ data'["home"] # data["home"] => op.copy \in copies]_vars

\* No step of a rollback forgets the capsule the instance was on: when the
\* pointer changes, the previous one names what it was, also if the Agent dies
\* right then (repoint_capsule writes the two files in this order).
\* (Needs two rollbacks.)
PointerKept == [][current' # current /\ current # None => previous' = current]_vars

\* A rollback answers "completed" only if the pointer names its target.
\* (Needs failing steps and an earlier rollback to another capsule.)
CompletedIsTarget ==
  At("idle") /\ op.answer = "completed" /\ ~op.dry => current = op.to

\* The Agent answers that a restore or a rollback is complete only if it is.
AnswersAreTrue == RestoredIsWhole /\ CompletedIsTarget

\* A dry run changes neither data nor pointers, nor does what is done when one
\* is refused or fails.
DryRunIsDry == [][op.step # "idle" /\ op.dry => UNCHANGED <<data, current, previous>>]_vars
=============================================================================
