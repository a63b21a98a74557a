-------------------------------- MODULE GoLive --------------------------------
(***************************************************************************)
(* The GO LIVE job of the Manager (kx_manager/services/operation_jobs.py,  *)
(* deploy.py) and the requests it sends to the Agent of the server through *)
(* SSH (kx_manager/ui/agent_execution_client.py).                          *)
(*                                                                         *)
(* Run r deploys capsule r.  A request that is not answered in time is     *)
(* sent again, and the Agent may still serve the copy the Manager has      *)
(* given up; it serves one request at a time, in the order they came.      *)
(* An operator may stop or start the instance at any time.                 *)
(***************************************************************************)
EXTENDS Naturals, Sequences

CONSTANTS
  Runs,           \* bound: GO LIVE jobs, one after the other
  Attempts,       \* KX_MANAGER_SSH_AGENT_ATTEMPTS
  None,           \* no Compose file, no containers, no database
  Faults,         \* bound: requests that fail, at the Agent or before it, Agent deaths
  Others          \* bound: requests of the operator

ASSUME BoundAssumption == /\ Runs \in Nat /\ Faults \in Nat /\ Others \in Nat
                          /\ Attempts \in Nat \ {0}

VARIABLES
  job,            \* the GO LIVE job in progress and its local variables
  result,         \* how each run ended
  queue,          \* copies of requests that wait at the Agent
  store,          \* capsules the Agent has imported
  file,           \* the Compose file of the instance
  stack,          \* its containers
  db,             \* the run that first migrated its database; 0: none of these
  saved,          \* history: runs that made a verified backup
  shown,          \* history: runs that were told of containers
  altered,        \* history: <<run, repair>>, a migration of another's database
  meddled,        \* history: the operator's requests were served in this run
  script,         \* a publication no run waits for any more goes on at the server
  faults, others

vars == <<job, result, queue, store, file, stack, db, saved, shown, altered,
          meddled, script, faults, others>>
instance == <<store, file, stack, db>>
history == <<saved, shown, altered, meddled>>
budgets == <<faults, others>>

Run == 1..Runs
Release == [capsule : 0..Runs, public : BOOLEAN]
ASSUME NoneAssumption == None \notin Release

NoStack == [up |-> "none", of |-> None]

\* The steps of a run, and the one each is followed by.  Between backup and import
\* two GETs read the Agent's health and version: they change nothing, and the job
\* goes on whatever they answer.
Follows ==
  [agent |-> "status", status |-> "backup", backup |-> "import", import |-> "instance",
   instance |-> "network", network |-> "check", check |-> "start", start |-> "universes",
   universes |-> "health", health |-> "https"]
Steps == DOMAIN Follows \union {"https"}
Local == {"agent", "universes", "https"}      \* SSH or HTTP, not the Agent's API
Idle == [run |-> 0, step |-> "idle", try |-> 0, fresh |-> FALSE, answer |-> "none"]

Copy == [run : Run, step : Steps \ Local, try : 1..Attempts, fresh : BOOLEAN]
        \union [run : {0}, step : {"stop", "start"}, try : {0}, fresh : {FALSE}]

TypeOK ==
  /\ job \in [run : 0..Runs, step : Steps \union {"idle"}, try : 0..Attempts,
              fresh : BOOLEAN, answer : {"none", "ok", "empty", "failed"}]
  /\ result \in [Run -> {"none", "running", "success", "failed"}]
  /\ queue \in Seq(Copy)
  /\ store \subseteq Run
  /\ file \in Release \union {None}
  /\ stack \in [up : {"none", "infra", "all"}, of : Release \union {None}]
  /\ db \in 0..Runs \union {None}
  /\ saved \subseteq Run /\ shown \subseteq Run
  /\ altered \subseteq Run \X BOOLEAN
  /\ meddled \in BOOLEAN /\ script \in BOOLEAN
  /\ faults \in 0..Faults /\ others \in 0..Others

\* No instance, one that runs, or one that was stopped: its database remains.
Init ==
  /\ job = Idle
  /\ result = [r \in Run |-> "none"]
  /\ queue = << >> /\ store = {}
  /\ \E old \in {None, [capsule |-> 0, public |-> TRUE]} :
       /\ file = old
       /\ db = IF old = None THEN None ELSE 0
       /\ stack \in {NoStack} \union
                    (IF old = None THEN {} ELSE {[up |-> "all", of |-> old]})
  /\ saved = {} /\ shown = {} /\ altered = {} /\ meddled = FALSE
  /\ script = FALSE /\ faults = 0 /\ others = 0

Fault == faults < Faults /\ faults' = faults + 1 /\ UNCHANGED others
At(step) == job.step = step

-----------------------------------------------------------------------------
(* The job: _run_one_click_release, deploy_droplet.                        *)

\* The operations pool starts the next job.
Begin(r) ==
  /\ job = Idle
  /\ result[r] = "none" /\ \A q \in 1..(r - 1) : result[q] # "none"
  /\ job' = [Idle EXCEPT !.run = r, !.step = "agent"]
  /\ result' = [result EXCEPT ![r] = "running"]
  /\ meddled' = FALSE
  /\ UNCHANGED <<queue, instance, saved, shown, altered, script, budgets>>

End(how) == job' = Idle /\ result' = [result EXCEPT ![job.run] = how]

\* The step after this one.  A first deployment is not backed up.
After == IF At("status") /\ job.answer = "empty" THEN "import" ELSE Follows[job.step]

\* data["update_existing"] = not instance_absent, from the status alone.
Classify == [job EXCEPT !.step = After, !.try = 0, !.answer = "none",
                        !.fresh = IF At("status") THEN @ \/ job.answer = "empty" ELSE @]

Onward == job' = Classify /\ UNCHANGED result

\* The history of a migration that run r makes with or without the repair.
Migrated(r, fresh) ==
  IF r # 0 /\ db \notin {None, r} THEN altered \union {<<r, fresh>>} ELSE altered

\* What "docker compose down" leaves when it fails or is cut off: it stops a
\* service before those it depends on.
Leftover == {stack, NoStack}
            \union (IF stack.up = "none" THEN {} ELSE {[stack EXCEPT !.up = "infra"]})

\* What an action that was cut off may have done: a start takes the stack down,
\* migrates and brings it up, create and update write the Compose file early.
Halfway(c) ==
  \/ UNCHANGED <<file, stack, db, altered>>
  \/ /\ c.step = "stop" \/ (c.step = "start" /\ file # None)
     /\ stack' \in Leftover
     /\ UNCHANGED <<file, db, altered>>
  \/ /\ c.step = "start" /\ file # None
     /\ stack' \in {NoStack} \union [up : {"infra", "all"}, of : {file}]
     /\ db' = IF db = None THEN c.run ELSE db
     /\ altered' = Migrated(c.run, c.fresh)
     /\ file' = file
  \/ /\ c.step = "instance"
     /\ file' = [capsule |-> c.run, public |-> c.fresh]
     /\ UNCHANGED <<stack, db, altered>>
  \/ /\ c.step = "network"
     /\ file' = [file EXCEPT !.public = TRUE]
     /\ UNCHANGED <<stack, db, altered>>

\* Mutant: the Agent's code is refreshed and its service not restarted.
PrepareAgentLive ==
  /\ At("agent")
  /\ Onward
  /\ UNCHANGED <<queue, instance, history, script, budgets>>

\* Health, then a refresh of the Agent's code or a full bootstrap.  Both restart
\* the service: what it was doing is cut off and what waited for it is gone.
PrepareAgent ==
  /\ At("agent")
  /\ IF queue = << >> THEN UNCHANGED <<file, stack, db, altered>>
                       ELSE Halfway(Head(queue))
  /\ queue' = << >>
  /\ Onward
  /\ UNCHANGED <<store, saved, shown, meddled, script, budgets>>

\* A request, or a connection that fails before it reaches the Agent.
Deliver(try) ==
  \/ queue' = queue
  \/ queue' = Append(queue, [run |-> job.run, step |-> job.step, try |-> try,
                             fresh |-> job.fresh])

Send ==
  /\ job.step \in Steps \ Local /\ job.try = 0
  /\ Deliver(1)
  /\ job' = [job EXCEPT !.try = 1]
  /\ UNCHANGED <<result, instance, history, script, budgets>>

\* Mutant: one attempt more than the setting allows.
RetryOneMore ==
  IF job.try <= Attempts
  THEN /\ Deliver(job.try + 1)
       /\ job' = [job EXCEPT !.try = @ + 1, !.answer = "none"]
       /\ UNCHANGED result
  ELSE End("failed") /\ UNCHANGED queue

\* After the last attempt the job fails; copies may be left at the Agent.
Retry ==
  IF job.try < Attempts
  THEN /\ Deliver(job.try + 1)
       /\ job' = [job EXCEPT !.try = @ + 1, !.answer = "none"]
       /\ UNCHANGED result
  ELSE End("failed") /\ UNCHANGED queue

\* Mutant: curl without --max-time, ssh without a timeout.
TimeoutNever == FALSE /\ UNCHANGED vars

\* No answer: curl --max-time, the timeout of ssh, or a broken connection.
Timeout ==
  /\ job.try > 0 /\ job.answer = "none"
  /\ Retry
  /\ UNCHANGED <<instance, history, script, budgets>>

\* A status that fails before the Agent, by an error whose text has "not found" or
\* "no such file" in it: it is not sent again, and the instance counts as absent.
TakenForAbsent ==
  /\ At("status") /\ job.try > 0 /\ job.answer = "none"
  /\ Fault
  /\ job' = [job EXCEPT !.answer = "empty"]
  /\ UNCHANGED <<result, queue, instance, history, script>>

\* Mutant: the answer of the pre-deploy backup is not looked at.
HearLenient ==
  /\ job.answer # "none"
  /\ IF job.answer \in {"ok", "empty"} \/ At("backup") THEN Onward ELSE End("failed")
  /\ shown' = IF At("status") /\ job.answer = "ok" THEN shown \union {job.run} ELSE shown
  /\ UNCHANGED <<queue, instance, saved, altered, meddled, script, budgets>>

\* The answer.  A failed action comes as HTTP 200 with ok = false, so that curl
\* succeeds and it is not sent again.
Hear ==
  /\ job.answer # "none"
  /\ IF job.answer \in {"ok", "empty"} THEN Onward ELSE End("failed")
  /\ shown' = IF At("status") /\ job.answer = "ok" THEN shown \union {job.run} ELSE shown
  /\ UNCHANGED <<queue, instance, saved, altered, meddled, script, budgets>>

\* docker compose up -d postgres redis
UpInfra ==
  /\ file # None
  /\ stack' = IF stack.up = "none" THEN [up |-> "infra", of |-> file] ELSE stack

\* _publish_packaged_universes: a script over SSH, past the Agent.
Publish ==
  /\ At("universes")
  /\ UpInfra
  /\ Onward
  /\ UNCHANGED <<queue, store, file, db, history, script, budgets>>

\* The script of a run that gave it up, at its SSH timeout or with the Manager.
LatePublish ==
  /\ script /\ script' \in BOOLEAN
  /\ UpInfra
  /\ UNCHANGED <<job, result, queue, store, file, db, history, budgets>>

\* The public address answers.
ProbeHttps ==
  /\ At("https")
  /\ stack.up = "all" /\ stack.of.public
  /\ End("success")
  /\ UNCHANGED <<queue, instance, history, script, budgets>>

\* Any other error of the job (the copy of the capsule, a bootstrap, 12 probes
\* without answer), or the death of the Manager.
JobFails ==
  /\ job # Idle
  /\ End("failed")
  /\ script' \in {script, script \/ At("universes")}
  /\ UNCHANGED <<queue, instance, history, budgets>>

-----------------------------------------------------------------------------
(* The Agent serves the first copy in its queue.                           *)

\* The answer reaches the job only while it waits for this very copy.
Reply(a) ==
  LET c == Head(queue) IN
    /\ job' = IF /\ job.run = c.run /\ job.step = c.step /\ job.try = c.try
                 /\ job.answer = "none"
              THEN [job EXCEPT !.answer = a] ELSE job
    /\ queue' = Tail(queue)
    /\ UNCHANGED <<result, script, others>>

First(step) == queue # << >> /\ Head(queue).step = step

\* instance_status: docker compose ps, which shows no stopped container.
ServeStatus ==
  /\ First("status")
  /\ Reply(IF stack.up = "none" THEN "empty" ELSE "ok")
  /\ UNCHANGED <<instance, history, faults>>

\* instance_backup (see BackupStore): pg_dump needs the database container.
ServeBackup ==
  /\ First("backup")
  /\ Reply(IF stack.up = "none" THEN "failed" ELSE "ok")
  /\ saved' = IF stack.up = "none" THEN saved ELSE saved \union {Head(queue).run}
  /\ UNCHANGED <<instance, shown, altered, meddled, faults>>

\* capsule_import (see ArtifactStore)
ServeImport ==
  /\ First("import")
  /\ Reply("ok")
  /\ store' = store \union {Head(queue).run}
  /\ UNCHANGED <<file, stack, db, history, faults>>

\* Mutant: the update does not say which capsule, and the one in the Compose
\* file is kept.
ServeInstanceUnnamed ==
  /\ First("instance")
  /\ Reply("ok")
  /\ file' = IF file = None THEN [capsule |-> Head(queue).run, public |-> Head(queue).fresh]
                            ELSE [file EXCEPT !.public = Head(queue).fresh]
  /\ UNCHANGED <<store, stack, db, history, faults>>

\* instance_create with the public profile, or instance_update, which sends no
\* profile and so renders the private default.
ServeInstance ==
  /\ First("instance")
  /\ Head(queue).run \in store
  /\ Reply("ok")
  /\ file' = [capsule |-> Head(queue).run, public |-> Head(queue).fresh]
  /\ UNCHANGED <<store, stack, db, history, faults>>

\* network_set_profile; containers change with the next start.
ServeNetwork ==
  /\ First("network")
  /\ Reply("ok")
  /\ file' = [file EXCEPT !.public = TRUE]
  /\ UNCHANGED <<store, stack, db, history, faults>>

ServeCheck ==
  /\ First("check")
  /\ Reply("ok")
  /\ UNCHANGED <<instance, history, faults>>

\* instance_start (see InstanceRuntime), of the job or of the operator.
ServeStart ==
  /\ First("start")
  /\ file # None
  /\ Reply("ok")
  /\ stack' = [up |-> "all", of |-> file]
  /\ LET r == Head(queue).run IN
       /\ db' = IF db = None THEN r ELSE db
       /\ altered' = Migrated(r, Head(queue).fresh)
       /\ meddled' = (meddled \/ r = 0)
  /\ UNCHANGED <<store, file, saved, shown, faults>>

\* instance_stop, of the operator: docker compose down.
ServeStop ==
  /\ First("stop")
  /\ Reply("ok")
  /\ stack' = NoStack
  /\ meddled' = TRUE
  /\ UNCHANGED <<store, file, db, saved, shown, altered, faults>>

ServeHealth ==
  /\ First("health")
  /\ Reply(IF stack.up = "all" THEN "ok" ELSE "failed")
  /\ UNCHANGED <<instance, history, faults>>

\* An action that fails, part of it done.  A failed status whose text has "not
\* found" or "no such file" in it, of Docker or of anything else, counts as empty.
ServeFails ==
  /\ queue # << >>
  /\ Halfway(Head(queue))
  /\ \E a \in {"failed", "empty"} : (a = "empty" => First("status")) /\ Reply(a)
  /\ IF Head(queue).step = "start" /\ file = None THEN UNCHANGED faults
     ELSE faults < Faults /\ faults' = faults + 1
  /\ meddled' = (meddled \/ Head(queue).run = 0)
  /\ UNCHANGED <<store, saved, shown>>

\* The Agent dies; systemd starts it again.
AgentDies ==
  /\ Fault
  /\ queue # << >> /\ queue' = << >>
  /\ Halfway(Head(queue))
  /\ meddled' = (meddled \/ Head(queue).run = 0)
  /\ UNCHANGED <<job, result, store, saved, shown, script>>

\* The operator presses a button.
Ask(what) ==
  /\ others < Others /\ others' = others + 1
  /\ queue' = Append(queue, [run |-> 0, step |-> what, try |-> 0, fresh |-> FALSE])
  /\ UNCHANGED <<job, result, instance, history, script, faults>>

-----------------------------------------------------------------------------
Manager == \/ \E r \in Run : Begin(r)
           \/ PrepareAgent \/ Send \/ Timeout \/ TakenForAbsent \/ Hear \/ Publish
           \/ ProbeHttps \/ JobFails
Agent == \/ ServeStatus \/ ServeBackup \/ ServeImport \/ ServeInstance \/ ServeNetwork
         \/ ServeCheck \/ ServeStart \/ ServeStop \/ ServeHealth \/ ServeFails \/ AgentDies
Next == Manager \/ Agent \/ LatePublish \/ \E what \in {"stop", "start"} : Ask(what)

Spec == Init /\ [][Next]_vars

\* Every wait of the Manager has a timeout; nothing is assumed of the Agent.
FairSpec == /\ Spec
            /\ \A r \in Run : WF_vars(Begin(r))
            /\ WF_vars(PrepareAgent) /\ WF_vars(Send) /\ WF_vars(Timeout) /\ WF_vars(Hear)
            /\ WF_vars(Publish) /\ WF_vars(JobFails /\ job.step \in Local)

-----------------------------------------------------------------------------
(* Properties.                                                             *)

\* When a run migrates a database that was there before it, and the instance
\* showed a container when the run asked, the run has a verified backup of it.
\* (Needs a container: see ExistingIsAlwaysSaved.)
ExistingIsSaved == \A a \in altered : a[1] \in shown => a[1] \in saved

\* The repair of migration records is for first deployments: no run that was
\* shown an existing instance asks for it, however often its start is repeated.
ExistingIsNotRepaired == \A a \in altered : a[1] \in shown => a[2] = FALSE

\* Both: what GO LIVE owes the data of an instance it was shown.
ExistingIsSpared == ExistingIsSaved /\ ExistingIsNotRepaired

\* "Existing production instance => verified pre-deploy backup": a migrated
\* database of an earlier deployment was backed up by the run that migrates it.
ExistingIsAlwaysSaved == \A a \in altered : a[1] \in saved

\* The job takes no step before the Agent is done with every copy of the steps
\* before it, and none of an earlier run is left once it asks its first question:
\* what waits at the Agent is the operator's, belongs to the step the job is in, or
\* is a late copy of the run's own status, which only reads.
InOrder ==
  job # Idle /\ ~At("agent") =>
    \A i \in DOMAIN queue : queue[i].run # 0 =>
      queue[i].run = job.run /\ queue[i].step \in {job.step, "status"}

\* A run that ends in success leaves its own capsule running, in public, unless
\* the operator's requests were served in between.
Served == \A r \in Run : result[r] # "success" /\ result'[r] = "success" =>
            meddled \/ stack = [up |-> "all", of |-> [capsule |-> r, public |-> TRUE]]
SuccessIsServed == [][Served]_vars

\* Every run ends, whether or not the Agent answers.
EveryRunEnds == \A r \in Run : result[r] = "running" ~> result[r] \in {"success", "failed"}

\* What the Agent's actions do to the instance, and where they stop halfway, is
\* what InstanceRuntime's handlers do to one whose starts recreate.
Life == INSTANCE Deployment WITH
  up <- stack.up, of <- IF stack.up = "none" THEN {} ELSE {stack.of}
InstanceIsDeployed == Life!DeploymentSpec
=============================================================================
