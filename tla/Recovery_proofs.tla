-------------------------- MODULE Recovery_proofs --------------------------
(***************************************************************************)
(* What holds of restores and rollbacks for every set of plans and of      *)
(* capsules, and any number of runs, failures and deaths of the Agent.     *)
(*                                                                         *)
(* Typed says where a run is; Copied, Whole, Dry and Pointed say what the  *)
(* run has done when it is there.                                          *)
(***************************************************************************)
EXTENDS Recovery, TLAPS

Typed ==
  /\ TypeOK
  /\ op.step \in RestoreSteps => op.plan # {}
  /\ op.step \in RestoreSteps \ {"report"} => op.answer = "none"
  /\ op.step = "report" => op.answer \in {"none", "rolled_back", "failed"}
  /\ op.step \in RollbackSteps => op.answer = "none"
  /\ op.answer = "restored" => op.plan # {}

\* The steps of the try block that come after the safety backup.
Changing == {"stop", "database", "media", "env", "migrate", "gate", "health", "mark"}

\* A same-instance restore past its backup has one, and the one it has was made.
Copied ==
  /\ op.step \in RestoreSteps /\ op.copy # NoData => op.copy \in copies
  /\ op.step \in Changing /\ Plan.t = "home" => op.copy \in copies

Before == [database |-> {"preflight", "safety", "stop", "database"},
           media |-> {"preflight", "safety", "stop", "database", "media"},
           env |-> {"preflight", "safety", "stop", "database", "media", "env"}]

\* The parts a restore has passed hold the backup, and no check was negative.
Whole ==
  /\ op.step \in (RestoreSteps \ {"compensate", "report"}) => ~op.bad
  /\ op.step = "report" /\ op.answer = "none" => ~op.bad
  /\ \A p \in Parts :
       /\ op.step \in (RestoreSteps \ {"compensate"}) \ Before[p]
       /\ op.answer = "none" /\ ~op.dry
       /\ p = "database" \/ p \in Plan.steps
       => data[Plan.t][p] = "backup"

\* A dry restore never gets past the preflight and has no copy to put back.
Dry ==
  op.step \in RestoreSteps
    => /\ op.dry = Plan.dry
       /\ op.dry => op.step \in {"preflight", "compensate", "report"} /\ op.copy = NoData

\* A rollback saves the pointer it has read, and has moved it when it says so.
Pointed ==
  /\ op.step = "previous" => op.old = current
  /\ op.step = "current" /\ ~op.dry /\ current # None => previous = current
  /\ op.step \in {"repointed", "data", "start", "complete"} /\ ~op.dry => current = op.to

Sound == Typed /\ Copied /\ Whole /\ Dry /\ Pointed /\ AnswersAreTrue

-----------------------------------------------------------------------------
(* Facts about the plan of a restore.                                      *)

LEMMA PlanFact ==
  ASSUME Typed, op.plan # {} PROVE Plan \in Plans /\ op.plan = {Plan}
<1>1. PICK q \in Plans : op.plan = {q}
  BY DEF Typed, TypeOK, Ops
<1> QED BY <1>1 DEF Plan

LEMMA PlanFields ==
  ASSUME Typed, op.plan # {}
  PROVE /\ Plan.t \in Targets /\ Plan.dry \in BOOLEAN /\ Plan.overwrite \in BOOLEAN
        /\ Plan.steps \subseteq {"media", "env"} \union Checks
BY PlanFact, PlanAssumption

LEMMA PlanStays ==
  ASSUME op'.plan = op.plan PROVE Plan' = Plan
BY DEF Plan

LEMMA PlanChosen ==
  ASSUME NEW q \in Plans, op'.plan = {q} PROVE Plan' = q
BY DEF Plan

\* Every step of the try block has a successor, which is a step past the backup.
LEMMA AfterFact ==
  /\ DOMAIN After = {"preflight", "safety"} \union (Changing \ {"mark"})
  /\ After["preflight"] = "safety"
  /\ \A step \in DOMAIN After \ {"preflight"} : After[step] \in Changing
BY DEF After, Changing

-----------------------------------------------------------------------------
(* Where a run is.                                                         *)

LEMMA TypedInit == Init => Typed
BY RecoveryAssumption
   DEF Init, Typed, TypeOK, Ops, Targets, Datas, Contents, NoData, LiveData, Idle, Parts, Statuses,
       RestoreSteps, RollbackSteps

LEMMA TypedNext == Typed /\ [Next]_vars => Typed'
<1> SUFFICES ASSUME Typed, [Next]_vars PROVE Typed'
  OBVIOUS
<1> USE RecoveryAssumption
<1>1. ASSUME NEW plan \in Plans, BeginRestore(plan) PROVE Typed'
  <2>1. [Idle EXCEPT !.step = "preflight", !.plan = {plan}, !.dry = plan.dry] \in Ops
    BY PlanAssumption DEF Ops, Idle, NoData, Datas, Contents, RestoreSteps, RollbackSteps, Statuses
  <2> QED BY <1>1, <2>1 DEF BeginRestore, Typed, TypeOK, Idle, RestoreSteps, RollbackSteps
<1>2. CASE Preflight
  BY <1>2, AfterFact DEF Preflight, Typed, TypeOK, Ops, At, GoTo, NoFault, budgets, restoreVars, rollbackVars,
     RestoreSteps, RollbackSteps
<1>3. CASE Skip
  BY <1>3, AfterFact DEF Skip, Typed, TypeOK, Ops, GoTo, NoFault, budgets, restoreVars, rollbackVars,
     RestoreSteps, RollbackSteps, Changing
<1>4. CASE Safety
  <2>1. data[Plan.t] \in Datas
    BY <1>4, PlanFields DEF Safety, Doing, Typed, TypeOK, Ops, RestoreSteps
  <2> QED BY <1>4, <2>1, AfterFact DEF Safety, Doing, Typed, TypeOK, Ops, NoFault, budgets, rollbackVars,
     RestoreSteps, RollbackSteps, Changing
<1>5. CASE Pass
  BY <1>5, AfterFact DEF Pass, Doing, Typed, TypeOK, Ops, GoTo, NoFault, budgets, restoreVars, rollbackVars,
     RestoreSteps, RollbackSteps, Changing
<1>6. CASE RestorePart
  <2>1. data' \in [Targets -> Datas]
    BY <1>6, PlanFields DEF RestorePart, Doing, Typed, TypeOK, Ops, Datas, Contents, Parts, RestoreSteps
  <2> QED BY <1>6, <2>1, AfterFact DEF RestorePart, Doing, Typed, TypeOK, Ops, GoTo, NoFault, budgets,
     rollbackVars, RestoreSteps, RollbackSteps, Changing, Parts
<1>7. CASE Check
  <2>1. /\ op.step \in DOMAIN After \ {"preflight"} /\ After[op.step] \in Changing
        /\ op.step \in RestoreSteps /\ op \in Ops /\ op.plan # {} /\ op.answer = "none"
    BY <1>7, AfterFact DEF Check, Doing, Typed, TypeOK, Ops, Changing, RestoreSteps
  <2>2. PICK bad \in BOOLEAN :
          op' = [op EXCEPT !.bad = @ \/ bad, !.step = IF bad THEN "compensate" ELSE After[op.step]]
    BY <1>7 DEF Check
  <2>3. op'.bad \in BOOLEAN
    BY <2>1, <2>2, Zenon DEF Ops
  <2>4. op'.step \in Changing \union {"compensate"} /\ op'.plan = op.plan /\ op'.answer = op.answer
    BY <2>1, <2>2 DEF Ops
  <2>5. op' \in Ops
    BY <2>1, <2>2, <2>3, <2>4 DEF Ops, Changing, RestoreSteps
  <2> QED BY <1>7, <2>1, <2>4, <2>5 DEF Check, Typed, TypeOK, Ops, NoFault, budgets, restoreVars, rollbackVars,
     RestoreSteps, RollbackSteps, Changing
<1>8. CASE MarkRestored
  BY <1>8 DEF MarkRestored, Typed, TypeOK, Ops, At, GoTo, NoFault, budgets, restoreVars, rollbackVars,
     RestoreSteps, RollbackSteps
<1>9. CASE StepFails
  <2>1. data' \in [Targets -> Datas]
    BY <1>9, PlanFields DEF StepFails, Doing, Typed, TypeOK, Ops, Datas, Contents, Parts, RestoreSteps
  <2> QED BY <1>9, <2>1 DEF StepFails, Doing, Typed, TypeOK, Ops, GoTo, Fault, rollbackVars,
     RestoreSteps, RollbackSteps
<1>10. CASE Compensate
  <2>1. data' \in [Targets -> Datas]
    BY <1>10, PlanFields DEF Compensate, Typed, TypeOK, Ops, At, RestoreSteps
  <2> QED BY <1>10, <2>1 DEF Compensate, Typed, TypeOK, Ops, At, Finish, NoFault, budgets, rollbackVars,
     RestoreSteps, RollbackSteps, Statuses
<1>11. CASE CompensateFails
  <2>1. data' \in [Targets -> Datas]
    BY <1>11, PlanFields DEF CompensateFails, Typed, TypeOK, Ops, At, RestoreSteps, Datas, Contents
  <2>2. op' \in Ops /\ op'.step = "report" /\ op'.plan = op.plan /\ op'.answer = "failed"
    BY <1>11 DEF CompensateFails, Typed, TypeOK, Ops, Finish, RestoreSteps, Statuses
  <2> QED BY <1>11, <2>1, <2>2 DEF CompensateFails, Typed, TypeOK, Ops, At, Fault, rollbackVars,
     RestoreSteps, RollbackSteps
<1>12. CASE WriteReport
  <2>1. op \in Ops /\ op.plan # {} /\ op.answer \in {"none", "rolled_back", "failed"}
    BY <1>12 DEF WriteReport, Typed, TypeOK, At, RestoreSteps
  <2>2. Verdict \in {"planned", "restored", "rolled_back", "failed"}
    BY <2>1 DEF Verdict
  <2>3. op' \in Ops /\ op'.step = "idle" /\ op'.plan = op.plan /\ op'.answer = Verdict
    BY <1>12, <2>1, <2>2 DEF WriteReport, Answer, Ops, Statuses
  <2>4. report' \in [Targets -> {"none", "planned", "restored", "rolled_back", "failed", "torn"}]
    BY <1>12, <2>2 DEF WriteReport, Typed, TypeOK
  <2>5. UNCHANGED <<data, copies, current, previous, state, runs, faults, crashes>>
    BY <1>12 DEF WriteReport, NoFault, budgets, rollbackVars
  <2>6. TypeOK'
    BY <2>3, <2>4, <2>5 DEF Typed, TypeOK
  <2> QED BY <2>1, <2>2, <2>3, <2>6 DEF Typed, RestoreSteps, RollbackSteps
<1>13. CASE WriteReportFails
  <2>1. report' \in [Targets -> {"none", "planned", "restored", "rolled_back", "failed", "torn"}]
    BY <1>13, PlanFields DEF WriteReportFails, Typed, TypeOK, Ops, At, RestoreSteps
  <2>2. /\ op' \in Ops /\ op'.step \in {"compensate", "idle"} /\ op'.plan = op.plan
        /\ op'.answer = "none" /\ op.plan # {}
    <3>1. op \in Ops /\ op.plan # {}
      BY <1>13 DEF WriteReportFails, Typed, TypeOK, At, RestoreSteps
    <3>2. CASE op.answer = "none" /\ GoTo("compensate")
      BY <3>1, <3>2 DEF Ops, GoTo, RestoreSteps
    <3>3. CASE Answer("none")
      BY <3>1, <3>3 DEF Ops, Answer, Statuses
    <3> QED BY <1>13, <3>2, <3>3 DEF WriteReportFails
  <2> QED BY <1>13, <2>1, <2>2 DEF WriteReportFails, Typed, TypeOK, Ops, Fault, rollbackVars,
     RestoreSteps, RollbackSteps
<1>14. ASSUME NEW c \in Capsules, BeginRollback(c) PROVE Typed'
  <2>1. PICK d, dry \in BOOLEAN :
          op' = [Idle EXCEPT !.step = "begin", !.to = c, !.data = d, !.dry = dry]
    BY <1>14 DEF BeginRollback
  <2>2. op' \in Ops
    BY <2>1 DEF Ops, Idle, NoData, Datas, Contents, RestoreSteps, RollbackSteps, Statuses
  <2>3. op'.step = "begin" /\ op'.answer = "none"
    BY <2>1 DEF Idle
  <2> QED BY <1>14, <2>2, <2>3 DEF BeginRollback, Typed, TypeOK, Ops, Statuses, RestoreSteps, RollbackSteps
<1>15. CASE Prepare
  BY <1>15 DEF Prepare, Typed, TypeOK, Ops, At, NoFault, budgets, restoreVars, rollbackVars,
     RestoreSteps, RollbackSteps
<1>16. CASE SavePrevious
  BY <1>16 DEF SavePrevious, Typed, TypeOK, Ops, At, GoTo, NoFault, budgets, restoreVars,
     RestoreSteps, RollbackSteps
<1>17. CASE Repoint
  BY <1>17 DEF Repoint, Typed, TypeOK, Ops, At, GoTo, NoFault, budgets, restoreVars,
     RestoreSteps, RollbackSteps
<1>18. CASE Repointed
  BY <1>18 DEF Repointed, Typed, TypeOK, Ops, At, GoTo, NoFault, budgets, restoreVars,
     RestoreSteps, RollbackSteps, Statuses
<1>19. CASE RestoreData
  BY <1>19 DEF RestoreData, Typed, TypeOK, Ops, At, GoTo, NoFault, budgets,
     RestoreSteps, RollbackSteps, Statuses, Datas, Contents, Targets
<1>20. CASE Restart
  BY <1>20 DEF Restart, Typed, TypeOK, Ops, At, GoTo, NoFault, budgets, restoreVars, rollbackVars,
     RestoreSteps, RollbackSteps
<1>21. CASE Complete
  BY <1>21 DEF Complete, Typed, TypeOK, Ops, At, Answer, NoFault, budgets, restoreVars,
     RestoreSteps, RollbackSteps, Statuses
<1>22. CASE RollbackFails
  <2>1. data' \in [Targets -> Datas]
    BY <1>22 DEF RollbackFails, Typed, TypeOK, Ops, Datas, Contents, Targets
  <2>2. op' \in Ops /\ op'.step = "idle" /\ op'.answer \in {"none", "failed"} /\ state' \in Statuses
    BY <1>22 DEF RollbackFails, Typed, TypeOK, Ops, Answer, Statuses
  <2> QED BY <1>22, <2>1, <2>2 DEF RollbackFails, Typed, TypeOK, Ops, Fault, RestoreSteps, RollbackSteps
<1>23. CASE ClearFailed
  BY <1>23 DEF ClearFailed, Typed, TypeOK, Ops, At, NoFault, budgets, restoreVars, Statuses
<1>24. CASE Crash
  <2>1. op' \in Ops /\ op'.step = "idle" /\ op'.answer = "none"
    BY <1>24 DEF Crash, Typed, TypeOK, Ops, Statuses
  <2> QED BY <1>24, <2>1 DEF Crash, Typed, TypeOK, Ops, restoreVars, rollbackVars, RestoreSteps, RollbackSteps
<1>25. CASE UNCHANGED vars
  BY <1>25 DEF vars, Typed, TypeOK
<1> QED
  BY <1>1, <1>2, <1>3, <1>4, <1>5, <1>6, <1>7, <1>8, <1>9, <1>10, <1>11, <1>12, <1>13, <1>14, <1>15,
     <1>16, <1>17, <1>18, <1>19, <1>20, <1>21, <1>22, <1>23, <1>24, <1>25 DEF Next, Restore, Rollback

\* Type correctness of restores and rollbacks.
THEOREM Typing == Spec => []TypeOK
<1>1. Typed => TypeOK
  BY DEF Typed
<1> QED BY <1>1, TypedInit, TypedNext, PTL DEF Spec
-----------------------------------------------------------------------------
(* What a run has done when it is where it is.                             *)

LEMMA SoundInit == Init => Sound
BY TypedInit
   DEF Init, Sound, Copied, Whole, Dry, Pointed, AnswersAreTrue, RestoredIsWhole, CompletedIsTarget,
       Idle, At, RestoreSteps, Changing

\* What a restore does keeps what is said of restores.
LEMMA RestoreKeeps ==
  ASSUME Sound, Typed', Restore
  PROVE Copied' /\ Whole' /\ Dry' /\ RestoredIsWhole'
<1> USE DEF Sound
<1>1. ASSUME NEW plan \in Plans, BeginRestore(plan) PROVE Copied' /\ Whole' /\ Dry' /\ RestoredIsWhole'
  <2>1. /\ op'.step = "preflight" /\ op'.plan = {plan} /\ op'.copy = NoData /\ ~op'.bad
        /\ op'.dry = plan.dry /\ op'.answer = "none"
    BY <1>1 DEF BeginRestore, Idle
  <2>2. Plan' = plan
    BY <2>1, PlanChosen
  <2> QED BY <2>1, <2>2 DEF Copied, Whole, Dry, RestoredIsWhole, At, Changing, Before, Parts
<1>2. ASSUME op.step \in RestoreSteps, op'.plan = op.plan
      PROVE  /\ Plan' = Plan /\ Plan \in Plans /\ Plan.t \in Targets
             /\ Plan.dry \in BOOLEAN /\ op \in Ops /\ op' \in Ops
  BY <1>2, PlanFact, PlanFields, PlanStays DEF Typed, TypeOK
<1>3. CASE Preflight
  <2>1. op \in Ops /\ op.step = "preflight" /\ op.step \in RestoreSteps
    BY <1>3 DEF Preflight, At, RestoreSteps, Typed, TypeOK
  <2>2. /\ op'.step \in {"compensate", "report", "safety"} /\ op'.plan = op.plan
        /\ op'.copy = op.copy /\ op'.bad = op.bad /\ op'.dry = op.dry /\ op'.answer = "none"
        /\ op'.step = "safety" => ~Plan.dry
        /\ op'.step = "report" => Plan.dry
    BY <1>3, <2>1, AfterFact DEF Preflight, GoTo, Ops, Typed
  <2> QED BY <1>2, <1>3, <2>1, <2>2
     DEF Preflight, restoreVars, Copied, Whole, Dry, RestoredIsWhole, At, Changing, Before, Parts, RestoreSteps
<1>4. CASE Skip
  <2>1. op \in Ops /\ op.step \in DOMAIN After /\ op.step \in RestoreSteps /\ ~Planned(op.step)
    BY <1>4, AfterFact DEF Skip, RestoreSteps, Typed, TypeOK, Changing
  <2>2. op' = [op EXCEPT !.step = After[op.step]]
    BY <1>4 DEF Skip, GoTo
  <2>3. op'.plan = op.plan /\ op'.copy = op.copy /\ op'.bad = op.bad /\ op'.dry = op.dry
        /\ op'.answer = op.answer /\ op.answer = "none"
    BY <2>1, <2>2, AfterFact DEF Ops, Typed, Changing
  <2>4. op.step \in {"safety", "media", "env", "migrate", "gate", "health"}
    BY <2>1 DEF After, Planned, Checks
  <2>5. ~op.dry
    BY <2>1, <2>4 DEF Dry
  <2>6. op'.step = After[op.step]
    BY <2>1, <2>2 DEF Ops
  <2>7. Copied' /\ Dry' /\ RestoredIsWhole'
    BY <1>2, <1>4, <2>1, <2>3, <2>4, <2>5, <2>6
       DEF Skip, restoreVars, Copied, Dry, RestoredIsWhole, At, Changing, RestoreSteps, Planned, After, Checks
  <2>8. Whole'
    BY <1>2, <1>4, <2>1, <2>3, <2>4, <2>5, <2>6
       DEF Skip, restoreVars, Whole, Changing, RestoreSteps, Planned, After, Checks, Before, Parts
  <2> QED BY <2>7, <2>8
<1>5. CASE Safety
  <2>1. op \in Ops /\ op.step = "safety" /\ op.step \in RestoreSteps
    BY <1>5 DEF Safety, Doing, RestoreSteps, Typed, TypeOK
  <2>2. /\ op'.step = "stop" /\ op'.plan = op.plan /\ op'.copy = data[Plan.t]
        /\ op'.bad = op.bad /\ op'.dry = op.dry
    BY <1>5, <2>1 DEF Safety, Ops, After
  <2> QED BY <1>2, <1>5, <2>1, <2>2
     DEF Safety, Copied, Whole, Dry, RestoredIsWhole, At, Changing, Before, Parts, RestoreSteps
<1>6. CASE Pass
  <2>1. op \in Ops /\ op.step \in {"stop", "migrate"} /\ op.step \in RestoreSteps
    BY <1>6 DEF Pass, Doing, RestoreSteps, Typed, TypeOK
  <2>2. /\ op'.step = After[op.step] /\ op'.plan = op.plan /\ op'.copy = op.copy
        /\ op'.bad = op.bad /\ op'.dry = op.dry /\ op'.answer = op.answer
    BY <1>6, <2>1 DEF Pass, Ops, GoTo
  <2> QED BY <1>2, <1>6, <2>1, <2>2
     DEF Pass, restoreVars, Copied, Whole, Dry, RestoredIsWhole, At, Changing, Before, Parts, RestoreSteps, After
<1>7. CASE RestorePart
  <2>1. op \in Ops /\ op.step \in Parts /\ op.step \in RestoreSteps /\ data \in [Targets -> Datas]
    BY <1>7 DEF RestorePart, Doing, RestoreSteps, Parts, Typed, TypeOK
  <2>2. /\ op'.step = After[op.step] /\ op'.plan = op.plan /\ op'.copy = op.copy
        /\ op'.bad = op.bad /\ op'.dry = op.dry /\ op'.answer = op.answer
    BY <1>7, <2>1 DEF RestorePart, Ops, GoTo
  <2>3. Copied' /\ Dry' /\ RestoredIsWhole'
    BY <1>2, <1>7, <2>1, <2>2
       DEF RestorePart, Copied, Dry, RestoredIsWhole, At, Changing, Parts, RestoreSteps, After
  <2>4. \A p \in Parts : data'[Plan.t][p] = IF p = op.step THEN "backup" ELSE data[Plan.t][p]
    BY <1>2, <1>7, <2>1, <2>2 DEF RestorePart, Datas
  <2>5. Whole'
    BY <1>2, <2>1, <2>2, <2>4 DEF Whole, Before, Parts, RestoreSteps, After
  <2> QED BY <2>3, <2>5
<1>8. CASE Check
  <2>1. op \in Ops /\ op.step \in {"gate", "health"} /\ op.step \in RestoreSteps
    BY <1>8 DEF Check, Doing, RestoreSteps, Typed, TypeOK
  <2>2. PICK bad \in BOOLEAN :
          op' = [op EXCEPT !.bad = @ \/ bad, !.step = IF bad THEN "compensate" ELSE After[op.step]]
    BY <1>8 DEF Check
  <2>3. /\ op'.plan = op.plan /\ op'.copy = op.copy /\ op'.dry = op.dry /\ op'.answer = op.answer
        /\ op'.step = "compensate" \/ (op'.step = After[op.step] /\ ~bad)
    BY <2>1, <2>2 DEF Ops
  <2>4. ~op.bad
    BY <2>1 DEF Whole
  <2>5. ~bad => ~op'.bad
    BY <2>1, <2>2, <2>4, Zenon DEF Ops
  <2> QED BY <1>2, <1>8, <2>1, <2>3, <2>5
     DEF Check, restoreVars, Copied, Whole, Dry, RestoredIsWhole, At, Changing, Before, Parts, RestoreSteps, After
<1>9. CASE MarkRestored
  <2>1. op \in Ops /\ op.step = "mark" /\ op.step \in RestoreSteps
    BY <1>9 DEF MarkRestored, At, RestoreSteps, Typed, TypeOK
  <2>2. /\ op'.step = "report" /\ op'.plan = op.plan /\ op'.copy = op.copy
        /\ op'.bad = op.bad /\ op'.dry = op.dry /\ op'.answer = op.answer
    BY <1>9, <2>1 DEF MarkRestored, GoTo, Ops
  <2> QED BY <1>2, <1>9, <2>1, <2>2
     DEF MarkRestored, restoreVars, Copied, Whole, Dry, RestoredIsWhole, At, Changing, Before, Parts, RestoreSteps
<1>10. CASE StepFails
  <2>1. op \in Ops /\ op.step \in RestoreSteps \ {"compensate", "report"}
    BY <1>10 DEF StepFails, Doing, Typed, TypeOK
  <2>2. /\ op'.step = "compensate" /\ op'.plan = op.plan /\ op'.copy = op.copy
        /\ op'.dry = op.dry /\ op'.answer = op.answer
    BY <1>10, <2>1 DEF StepFails, GoTo, Ops
  <2> QED BY <1>2, <1>10, <2>1, <2>2
     DEF StepFails, Copied, Whole, Dry, RestoredIsWhole, At, Changing, RestoreSteps
<1>11. CASE Compensate \/ CompensateFails
  <2>1. op \in Ops /\ op.step = "compensate" /\ op.step \in RestoreSteps
    BY <1>11 DEF Compensate, CompensateFails, At, Typed, TypeOK, RestoreSteps
  <2>2. /\ op'.step = "report" /\ op'.plan = op.plan /\ op'.copy = op.copy
        /\ op'.dry = op.dry /\ op'.answer \in {"rolled_back", "failed"} /\ copies' = copies
    <3>1. CASE Compensate
      BY <2>1, <3>1 DEF Compensate, Finish, Ops
    <3>2. CASE CompensateFails
      BY <2>1, <3>2 DEF CompensateFails, Finish, Ops
    <3> QED BY <1>11, <3>1, <3>2
  <2> QED BY <1>2, <2>1, <2>2 DEF Copied, Whole, Dry, RestoredIsWhole, At, Changing, RestoreSteps
<1>12. CASE WriteReport
  <2>1. op \in Ops /\ op.step = "report" /\ op.step \in RestoreSteps
    BY <1>12 DEF WriteReport, At, RestoreSteps, Typed, TypeOK
  <2>2. /\ op'.step = "idle" /\ op'.plan = op.plan /\ op'.bad = op.bad /\ op'.answer = Verdict
    BY <1>12, <2>1 DEF WriteReport, Answer, Ops
  <2>3. Verdict = "restored" => op.answer = "none" /\ ~Plan.dry
    BY <2>1 DEF Verdict, Typed
  <2>4. RestoredIsWhole'
    BY <1>2, <1>12, <2>1, <2>2, <2>3 DEF WriteReport, RestoredIsWhole, Whole, Dry, At, Before, Parts
  <2> QED BY <2>2, <2>4 DEF Copied, Whole, Dry, Changing, RestoreSteps
<1>13. CASE WriteReportFails
  <2>1. op \in Ops /\ op.step = "report" /\ op.step \in RestoreSteps
    BY <1>13 DEF WriteReportFails, At, RestoreSteps, Typed, TypeOK
  <2>2. /\ op'.step \in {"compensate", "idle"} /\ op'.plan = op.plan /\ op'.copy = op.copy
        /\ op'.dry = op.dry /\ op'.answer = "none" /\ copies' = copies
    <3>1. CASE op.answer = "none" /\ GoTo("compensate")
      BY <1>13, <2>1, <3>1 DEF WriteReportFails, GoTo, Ops
    <3>2. CASE Answer("none")
      BY <1>13, <2>1, <3>2 DEF WriteReportFails, Answer, Ops
    <3> QED BY <1>13, <3>1, <3>2 DEF WriteReportFails
  <2> QED BY <1>2, <2>1, <2>2 DEF Copied, Whole, Dry, RestoredIsWhole, At, Changing, RestoreSteps
<1> QED
  BY <1>1, <1>3, <1>4, <1>5, <1>6, <1>7, <1>8, <1>9, <1>10, <1>11, <1>12, <1>13 DEF Restore

\* A restore is not a rollback, and is no answer to one.
LEMMA RestoreIsNoRollback ==
  ASSUME Sound, Typed', Restore
  PROVE op'.step \notin RollbackSteps /\ op'.answer # "completed"
<1> USE DEF RollbackSteps, RestoreSteps
<1>1. op \in Ops /\ op' \in Ops
  BY DEF Sound, Typed, TypeOK
<1>2. CASE \E plan \in Plans : BeginRestore(plan)
  BY <1>2 DEF BeginRestore, Idle
<1>3. CASE Preflight
  BY <1>1, <1>3, AfterFact DEF Preflight, GoTo, At, Sound, Typed, Ops
<1>4. CASE Skip \/ Safety \/ Pass \/ RestorePart
  <2>1. op.step \in DOMAIN After \ {"preflight"} /\ After[op.step] \in Changing
    BY <1>4, AfterFact DEF Skip, Safety, Pass, RestorePart, Doing, Planned, Checks, Parts, Changing
  <2>2. op'.step = After[op.step] /\ op'.answer = op.answer
    BY <1>1, <1>4 DEF Skip, Safety, Pass, RestorePart, Doing, GoTo, Ops
  <2>3. op.answer = "none"
    BY <2>1, AfterFact DEF Sound, Typed, Changing
  <2> QED BY <2>1, <2>2, <2>3 DEF Changing
<1>5. CASE Check
  <2>1. op.step \in {"gate", "health"}
    BY <1>5 DEF Check, Doing
  <2>2. PICK bad \in BOOLEAN :
          op' = [op EXCEPT !.bad = @ \/ bad, !.step = IF bad THEN "compensate" ELSE After[op.step]]
    BY <1>5 DEF Check
  <2> QED BY <1>1, <2>1, <2>2, AfterFact DEF Changing, Sound, Typed, Ops
<1>6. CASE MarkRestored \/ StepFails
  BY <1>1, <1>6 DEF MarkRestored, StepFails, Doing, At, GoTo, Sound, Typed, Ops
<1>7. CASE Compensate \/ CompensateFails
  BY <1>1, <1>7 DEF Compensate, CompensateFails, Finish, Ops
<1>8. CASE WriteReport
  BY <1>1, <1>8 DEF WriteReport, Answer, Verdict, At, Sound, Typed, Ops
<1>9. CASE WriteReportFails
  <2>1. CASE op.answer = "none" /\ GoTo("compensate")
    BY <1>1, <2>1 DEF GoTo, Ops
  <2>2. CASE Answer("none")
    BY <1>1, <2>2 DEF Answer, Ops
  <2> QED BY <1>9, <2>1, <2>2 DEF WriteReportFails
<1> QED
  BY <1>2, <1>3, <1>4, <1>5, <1>6, <1>7, <1>8, <1>9 DEF Restore

\* What a rollback does keeps what is said of rollbacks, and the Agent's death both.
LEMMA RollbackKeeps ==
  ASSUME Sound, Typed', Rollback
  PROVE Pointed' /\ CompletedIsTarget'
<1>1. op \in Ops /\ op' \in Ops
  BY DEF Sound, Typed, TypeOK
<1>2. CASE \E c \in Capsules : BeginRollback(c)
  BY <1>2 DEF BeginRollback, Idle, Pointed, CompletedIsTarget, At
<1>3. CASE Prepare
  BY <1>1, <1>3 DEF Prepare, At, Pointed, CompletedIsTarget, rollbackVars, Ops
<1>4. CASE SavePrevious
  <2>1. /\ op'.step = "current" /\ op'.old = op.old /\ op'.dry = op.dry /\ current' = current
        /\ op.old = current
    BY <1>1, <1>4 DEF SavePrevious, At, GoTo, Sound, Pointed, Ops
  <2>2. ~op.dry /\ current # None => previous' = current
    BY <1>4, <2>1 DEF SavePrevious
  <2> QED BY <2>1, <2>2 DEF Pointed, CompletedIsTarget, At
<1>5. CASE Repoint
  BY <1>1, <1>5 DEF Repoint, At, GoTo, Pointed, CompletedIsTarget, Ops
<1>6. CASE Repointed
  BY <1>1, <1>6 DEF Repointed, At, GoTo, Sound, Pointed, CompletedIsTarget, Ops
<1>7. CASE RestoreData
  BY <1>1, <1>7 DEF RestoreData, At, GoTo, Sound, Pointed, CompletedIsTarget, Ops
<1>8. CASE Restart
  BY <1>1, <1>8 DEF Restart, At, GoTo, Sound, Pointed, CompletedIsTarget, rollbackVars, Ops
<1>9. CASE Complete
  BY <1>1, <1>9 DEF Complete, At, Answer, Sound, Pointed, CompletedIsTarget, Ops
<1>10. CASE RollbackFails
  <2>1. op'.step = "idle" /\ op'.answer \in {"failed", "none"}
    BY <1>1, <1>10 DEF RollbackFails, Answer, Ops
  <2> QED BY <2>1 DEF Pointed, CompletedIsTarget, At
<1>11. CASE ClearFailed
  BY <1>11 DEF ClearFailed, Sound, AnswersAreTrue, Pointed, CompletedIsTarget, At
<1> QED
  BY <1>2, <1>3, <1>4, <1>5, <1>6, <1>7, <1>8, <1>9, <1>10, <1>11 DEF Rollback

\* A rollback is not a restore, and is no answer to one.
LEMMA RollbackIsNoRestore ==
  ASSUME Sound, Typed', Rollback
  PROVE Copied' /\ Whole' /\ Dry' /\ RestoredIsWhole'
<1>1. op \in Ops /\ op' \in Ops
  BY DEF Sound, Typed, TypeOK
<1>2. ASSUME op'.step \notin RestoreSteps, op'.answer # "restored"
      PROVE  Copied' /\ Whole' /\ Dry' /\ RestoredIsWhole'
  BY <1>2 DEF Copied, Whole, Dry, RestoredIsWhole, Changing, RestoreSteps
<1> USE DEF RollbackSteps, RestoreSteps
<1>3. CASE \E c \in Capsules : BeginRollback(c)
  <2>1. op'.step = "begin" /\ op'.answer = "none"
    BY <1>3 DEF BeginRollback, Idle
  <2> QED BY <1>2, <2>1
<1>4. CASE Prepare
  BY <1>1, <1>2, <1>4 DEF Prepare, At, Sound, Typed, Ops
<1>5. CASE SavePrevious \/ Repoint \/ Repointed \/ RestoreData \/ Restart
  <2>1. op.step \in RollbackSteps /\ op'.step \in RollbackSteps /\ op'.answer = op.answer
    BY <1>1, <1>5 DEF SavePrevious, Repoint, Repointed, RestoreData, Restart, GoTo, At, Ops
  <2> QED BY <1>2, <2>1 DEF Sound, Typed
<1>6. CASE Complete
  BY <1>1, <1>2, <1>6 DEF Complete, Answer, Ops
<1>7. CASE RollbackFails
  <2>1. op'.step = "idle" /\ op'.answer \in {"failed", "none"}
    BY <1>1, <1>7 DEF RollbackFails, Answer, Ops
  <2> QED BY <1>2, <2>1
<1>8. CASE ClearFailed
  BY <1>8, PlanStays
     DEF ClearFailed, restoreVars, Sound, AnswersAreTrue, Copied, Whole, Dry, RestoredIsWhole, At, Changing
<1> QED
  BY <1>3, <1>4, <1>5, <1>6, <1>7, <1>8 DEF Rollback

LEMMA SoundNext == Sound /\ [Next]_vars => Sound'
<1> SUFFICES ASSUME Sound, [Next]_vars PROVE Sound'
  OBVIOUS
<1>1. Typed'
  BY TypedNext DEF Sound
<1>2. CASE Restore
  <2>1. op'.step \notin RollbackSteps /\ op'.answer # "completed"
    BY <1>1, <1>2, RestoreIsNoRollback
  <2>2. Pointed' /\ CompletedIsTarget'
    BY <2>1 DEF Pointed, CompletedIsTarget, RollbackSteps
  <2> QED BY <1>1, <1>2, <2>2, RestoreKeeps DEF Sound, AnswersAreTrue
<1>3. CASE Rollback
  BY <1>1, <1>3, RollbackKeeps, RollbackIsNoRestore DEF Sound, AnswersAreTrue
<1>4. CASE Crash
  <2>1. op'.step = "idle" /\ op'.answer = "none"
    BY <1>1, <1>4 DEF Crash, Sound, Typed, TypeOK, Ops
  <2> QED BY <1>1, <2>1 DEF Sound, AnswersAreTrue, Copied, Whole, Dry, Pointed, RestoredIsWhole,
     CompletedIsTarget, RestoreSteps, Changing
<1>5. CASE UNCHANGED vars
  BY <1>1, <1>5, PlanStays DEF vars, Sound, AnswersAreTrue, Copied, Whole, Dry, Pointed, RestoredIsWhole,
     CompletedIsTarget, At
<1> QED
  BY <1>2, <1>3, <1>4, <1>5 DEF Next

\* What a run has established at each of its steps.
THEOREM SoundInvariant == Spec => []Sound
BY SoundInit, SoundNext, PTL DEF Spec

\* A restore answered as restored holds the backup in every part of its plan
\* and passed its checks; a rollback answered as completed is at its target.
THEOREM AnswersTheorem == Spec => []AnswersAreTrue
<1>1. Sound => AnswersAreTrue
  BY DEF Sound
<1> QED BY <1>1, SoundInvariant, PTL

\* Data of the instance change in a restore only when a copy of them was made.
THEOREM CopyTheorem == Spec => CopyFirst
<1>1. Sound /\ [Next]_vars
        => [op.step \in RestoreSteps /\ data'["home"] # data["home"] => op.copy \in copies]_vars
  <2> SUFFICES ASSUME Sound, Next, op.step \in RestoreSteps, data'["home"] # data["home"]
               PROVE  op.copy \in copies
    OBVIOUS
  <2>1. Plan.t \in Targets /\ data \in [Targets -> Datas] /\ op.plan # {}
    BY PlanFields DEF Sound, Typed, TypeOK
  <2>2. Plan.t # "home" => data'["home"] = data["home"]
    BY <2>1
       DEF Next, Restore, Rollback, BeginRestore, Preflight, Skip, Safety, Pass, RestorePart, Check,
           MarkRestored, StepFails, Compensate, CompensateFails, WriteReport, WriteReportFails,
           BeginRollback, Prepare, SavePrevious, Repoint, Repointed, RestoreData, Restart, Complete,
           RollbackFails, ClearFailed, Crash, At, restoreVars, RestoreSteps, RollbackSteps, Targets
  <2>3. CASE RestorePart
    BY <2>2, <2>3 DEF RestorePart, Doing, Parts, Changing, Sound, Copied
  <2>4. CASE StepFails
    <3>1. op.step \notin Parts => data'["home"] = data["home"]
      BY <2>1, <2>4 DEF StepFails
    <3> QED BY <2>2, <3>1 DEF Parts, Changing, Sound, Copied
  <2>5. CASE Compensate
    BY <2>5 DEF Compensate, Sound, Copied, RestoreSteps
  <2>6. CASE CompensateFails
    <3>1. op.copy = NoData => data'["home"] = data["home"]
      <4>1. SUFFICES ASSUME op.copy = NoData PROVE data'["home"] = data["home"]
        OBVIOUS
      <4>2. data' = [data EXCEPT ![Plan.t] = [p \in Parts |-> @[p]]]
        BY <2>6, <4>1 DEF CompensateFails
      <4>3. data[Plan.t] = [p \in Parts |-> data[Plan.t][p]]
        BY <2>1 DEF Datas
      <4> QED BY <2>1, <2>2, <4>2, <4>3
    <3> QED BY <3>1 DEF Sound, Copied, RestoreSteps
  <2>7. ASSUME data' # data PROVE RestorePart \/ StepFails \/ Compensate \/ CompensateFails
    BY <2>7
       DEF Next, Restore, Rollback, BeginRestore, Preflight, Skip, Safety, Pass, Check,
           MarkRestored, WriteReport, WriteReportFails,
           BeginRollback, Prepare, SavePrevious, Repoint, Repointed, RestoreData, Restart, Complete,
           RollbackFails, ClearFailed, Crash, At, restoreVars, RestoreSteps, RollbackSteps
  <2> QED BY <2>3, <2>4, <2>5, <2>6, <2>7
<1> QED BY <1>1, SoundInvariant, PTL DEF Spec, CopyFirst

\* When the capsule pointer changes, the previous one names what it was.
THEOREM PointerTheorem == Spec => PointerKept
<1>1. Sound /\ [Next]_vars => [current' # current /\ current # None => previous' = current]_vars
  <2> SUFFICES ASSUME Sound, Next, current' # current, current # None PROVE previous' = current
    OBVIOUS
  <2>1. Repoint
    BY DEF Next, Restore, Rollback, BeginRestore, Preflight, Skip, Safety, Pass, RestorePart, Check,
           MarkRestored, StepFails, Compensate, CompensateFails, WriteReport, WriteReportFails,
           BeginRollback, Prepare, SavePrevious, Repointed, RestoreData, Restart, Complete,
           RollbackFails, ClearFailed, Crash, rollbackVars
  <2> QED BY <2>1 DEF Repoint, At, Sound, Pointed
<1> QED BY <1>1, SoundInvariant, PTL DEF Spec, PointerKept

\* A dry run changes neither data nor pointers.
THEOREM DryTheorem == Spec => DryRunIsDry
<1>1. Sound /\ [Next]_vars => [op.step # "idle" /\ op.dry => UNCHANGED <<data, current, previous>>]_vars
  <2> SUFFICES ASSUME Sound, Next, op.step # "idle", op.dry PROVE UNCHANGED <<data, current, previous>>
    OBVIOUS
  <2>1. CASE Restore
    <3>1. UNCHANGED rollbackVars
      BY <2>1 DEF Restore, BeginRestore, Preflight, Skip, Safety, Pass, RestorePart, Check,
           MarkRestored, StepFails, Compensate, CompensateFails, WriteReport, WriteReportFails,
           At, rollbackVars
    <3>2. op.step \in RestoreSteps
      BY <2>1 DEF Restore, BeginRestore, Preflight, Skip, Safety, Pass, RestorePart, Check, After,
           MarkRestored, StepFails, Compensate, CompensateFails, WriteReport, WriteReportFails,
           At, Doing, RestoreSteps, Parts
    <3>3. op.step \in {"preflight", "compensate", "report"} /\ op.copy = NoData
      BY <3>2 DEF Sound, Dry
    <3>4. data[Plan.t] = [p \in Parts |-> data[Plan.t][p]] /\ data = [data EXCEPT ![Plan.t] = @]
      BY <3>2, PlanFields DEF Sound, Typed, TypeOK, Datas
    <3>5. data' = data
      BY <2>1, <3>3, <3>4
         DEF Restore, BeginRestore, Preflight, Skip, Safety, Pass, RestorePart, Check, After,
           MarkRestored, StepFails, Compensate, CompensateFails, WriteReport, WriteReportFails,
           At, Doing, restoreVars, Parts
    <3> QED BY <3>1, <3>5 DEF rollbackVars
  <2>2. CASE Rollback
    BY <2>2 DEF Rollback, BeginRollback, Prepare, SavePrevious, Repoint, Repointed, RestoreData, Restart,
           Complete, RollbackFails, ClearFailed, At, restoreVars, rollbackVars
  <2>3. CASE Crash
    BY <2>3 DEF Crash, restoreVars, rollbackVars
  <2> QED BY <2>1, <2>2, <2>3 DEF Next
<1> QED BY <1>1, SoundInvariant, PTL DEF Spec, DryRunIsDry
=============================================================================
