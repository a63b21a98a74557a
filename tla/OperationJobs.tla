--------------------------- MODULE OperationJobs ---------------------------
(***************************************************************************)
(* The Manager's persistent operation jobs                                 *)
(* (kx_manager/services/operation_jobs.py): request handlers record a job  *)
(* and submit it to a thread pool, a pool thread runs it, a heartbeat      *)
(* thread per job keeps touching the same JSON file until the job ends.    *)
(*                                                                         *)
(* The three kinds of thread share one file per job.  _update_job reads,   *)
(* merges and replaces the file under _job_write_lock, so a whole update   *)
(* is one step here; the reads that decide whether to update are outside   *)
(* the lock and are steps of their own.                                    *)
(*                                                                         *)
(* Of a record only "status" is kept: phase, progress, message, result and *)
(* the timestamps never decide anything.  A progress report is therefore a *)
(* stutter, unless its read of the file fails.                             *)
(***************************************************************************)
EXTENDS Naturals, Sequences, FiniteSets

CONSTANTS
  Jobs,           \* job ids (uuid4, never reused)
  NoJob,          \* latest-job.txt does not exist yet
  Concurrency,    \* max_workers of the pool
  WriteFaults,    \* bound: how many file writes or thread starts may raise
  ReadFaults,     \* bound: how many reads in _update_job may fail
  Crashes         \* bound: how often the Manager process dies and comes back

ASSUME JobsAssumption == NoJob \notin Jobs
ASSUME ConcurrencyAssumption == Concurrency \in Nat \ {0}
ASSUME BoundsAssumption == WriteFaults \in Nat /\ ReadFaults \in Nat /\ Crashes \in Nat

VARIABLES
  status,         \* <job-id>.json: its "status", "absent" without a file
  latest,         \* latest-job.txt
  request,        \* how far create_operation_job has come with a job
  queue,          \* the pool's work queue
  worker,         \* where the pool thread running a job stands in _run_job
  outcome,        \* what the operation itself did to the target host
  beat,           \* where the job's heartbeat thread stands
  stopped,        \* the job's stop_event
  writeFaults, readFaults, crashes

disk == <<status, latest>>
threads == <<request, queue, worker, beat, stopped>>
budgets == <<writeFaults, readFaults, crashes>>
vars == <<status, latest, request, queue, worker, outcome, beat, stopped,
          writeFaults, readFaults, crashes>>

Active == {"queued", "running"}
Final == {"succeeded", "failed"}      \* "interrupted" is declared, never written

\* "lost": the record was rewritten from scratch and has no status any more.
Statuses == {"absent", "lost"} \union Active \union Final

WorkerSteps == {"idle", "starting", "launching", "operating", "closing",
                "raised", "returning", "done"}

TypeOK ==
  /\ status \in [Jobs -> Statuses]
  /\ latest \in Jobs \union {NoJob}
  /\ request \in [Jobs -> {"none", "recorded", "named"}]
  /\ queue \in Seq(Jobs)
  /\ worker \in [Jobs -> WorkerSteps]
  /\ outcome \in [Jobs -> {"pending", "ok", "bad"}]
  /\ beat \in [Jobs -> {"none", "waiting", "writing"}]
  /\ stopped \in [Jobs -> BOOLEAN]
  /\ writeFaults \in 0..WriteFaults
  /\ readFaults \in 0..ReadFaults
  /\ crashes \in 0..Crashes

Init ==
  /\ status = [j \in Jobs |-> "absent"]
  /\ latest = NoJob
  /\ request = [j \in Jobs |-> "none"]
  /\ queue = <<>>
  /\ worker = [j \in Jobs |-> "idle"]
  /\ outcome = [j \in Jobs |-> "pending"]
  /\ beat = [j \in Jobs |-> "none"]
  /\ stopped = [j \in Jobs |-> FALSE]
  /\ writeFaults = 0
  /\ readFaults = 0
  /\ crashes = 0

Queued == {queue[i] : i \in 1..Len(queue)}
Busy == {j \in Jobs : worker[j] \notin {"idle", "done"}}
InRunJob == {"starting", "launching", "operating", "closing", "raised"}

\* A step of the pool thread of j, leaving the other threads alone.
GoTo(j, step) == worker' = [worker EXCEPT ![j] = step]

\* A write, an append to the log or a thread start raises.
Fault == writeFaults < WriteFaults /\ writeFaults' = writeFaults + 1
NoFault == UNCHANGED budgets

-----------------------------------------------------------------------------
(* create_operation_job.  The handlers are coroutines that never await in  *)
(* it, so at most one creation is in progress.                             *)

\* _write_job of a new uuid
CreateRecord(j) ==
  /\ status[j] = "absent"
  /\ \A k \in Jobs : request[k] = "none"
  /\ status' = [status EXCEPT ![j] = "queued"]
  /\ request' = [request EXCEPT ![j] = "recorded"]
  /\ NoFault
  /\ UNCHANGED <<latest, queue, worker, outcome, beat, stopped>>

NameLatest(j) ==
  /\ request[j] = "recorded"
  /\ latest' = j
  /\ request' = [request EXCEPT ![j] = "named"]
  /\ NoFault
  /\ UNCHANGED <<status, queue, worker, outcome, beat, stopped>>

Submit(j) ==
  /\ request[j] = "named"
  /\ queue' = Append(queue, j)
  /\ request' = [request EXCEPT ![j] = "none"]
  /\ NoFault
  /\ UNCHANGED <<status, latest, worker, outcome, beat, stopped>>

\* The first log line or latest-job.txt cannot be written: the exception
\* leaves the handler with the record on disk and nothing submitted.
CreateFails(j) ==
  /\ request[j] = "recorded"
  /\ Fault
  /\ request' = [request EXCEPT ![j] = "none"]
  /\ UNCHANGED <<status, latest, queue, worker, outcome, beat, stopped, readFaults, crashes>>

-----------------------------------------------------------------------------
(* _run_job, on a pool thread.                                             *)

\* Mutant: a thread per job instead of a pool.
TakeUnbounded ==
  /\ queue # <<>>
  /\ GoTo(Head(queue), "starting")
  /\ queue' = Tail(queue)
  /\ NoFault
  /\ UNCHANGED <<status, latest, request, outcome, beat, stopped>>

\* Mutant: a job stays in the queue when it is taken.
TakePeeks ==
  /\ queue # <<>>
  /\ Cardinality(Busy) < Concurrency
  /\ GoTo(Head(queue), "starting")
  /\ NoFault
  /\ UNCHANGED <<status, latest, request, queue, outcome, beat, stopped>>

Take ==
  /\ queue # <<>>
  /\ Cardinality(Busy) < Concurrency
  /\ GoTo(Head(queue), "starting")
  /\ queue' = Tail(queue)
  /\ NoFault
  /\ UNCHANGED <<status, latest, request, outcome, beat, stopped>>

MarkRunning(j) ==
  /\ worker[j] = "starting"
  /\ status' = [status EXCEPT ![j] = "running"]
  /\ GoTo(j, "launching")
  /\ NoFault
  /\ UNCHANGED <<latest, request, queue, outcome, beat, stopped>>

LaunchHeartbeat(j) ==
  /\ worker[j] = "launching"
  /\ beat' = [beat EXCEPT ![j] = "waiting"]
  /\ GoTo(j, "operating")
  /\ NoFault
  /\ UNCHANGED <<status, latest, request, queue, outcome, stopped>>

\* The operation returns a result that is ok or not.
Operate(j) ==
  /\ worker[j] = "operating"
  /\ \E o \in {"ok", "bad"} : outcome' = [outcome EXCEPT ![j] = o]
  /\ GoTo(j, "closing")
  /\ NoFault
  /\ UNCHANGED <<status, latest, request, queue, beat, stopped>>

\* Mutant: the exception skips the except block.
OperationRaisesUncaught(j) ==
  /\ worker[j] = "operating"
  /\ outcome' = [outcome EXCEPT ![j] = "bad"]
  /\ GoTo(j, "returning")
  /\ NoFault
  /\ UNCHANGED <<status, latest, request, queue, beat, stopped>>

\* The operation raises, or one of its progress reports does.
OperationRaises(j) ==
  /\ worker[j] = "operating"
  /\ outcome' = [outcome EXCEPT ![j] = "bad"]
  /\ GoTo(j, "raised")
  /\ NoFault
  /\ UNCHANGED <<status, latest, request, queue, beat, stopped>>

\* Mutant: a result that came back counts as a success, ok or not.
CloseAnyResult(j) ==
  /\ worker[j] = "closing"
  /\ status' = [status EXCEPT ![j] = "succeeded"]
  /\ GoTo(j, "returning")
  /\ NoFault
  /\ UNCHANGED <<latest, request, queue, outcome, beat, stopped>>

\* Mutant: the result's own state goes into the record.
CloseResultState(j) ==
  /\ worker[j] = "closing"
  /\ status' = [status EXCEPT ![j] = outcome[j]]
  /\ GoTo(j, "returning")
  /\ NoFault
  /\ UNCHANGED <<latest, request, queue, outcome, beat, stopped>>

\* The final _update_job of the try block.
Close(j) ==
  /\ worker[j] = "closing"
  /\ status' = [status EXCEPT ![j] = IF outcome[j] = "ok" THEN "succeeded" ELSE "failed"]
  /\ GoTo(j, "returning")
  /\ NoFault
  /\ UNCHANGED <<latest, request, queue, outcome, beat, stopped>>

\* A bookkeeping write of the try block raises: on to the except block.
Trip(j) ==
  /\ worker[j] \in {"starting", "launching", "closing"}
  /\ Fault
  /\ GoTo(j, "raised")
  /\ UNCHANGED <<status, latest, request, queue, outcome, beat, stopped, readFaults, crashes>>

\* The except block.
CloseRaised(j) ==
  /\ worker[j] = "raised"
  /\ status' = [status EXCEPT ![j] = "failed"]
  /\ GoTo(j, "returning")
  /\ NoFault
  /\ UNCHANGED <<latest, request, queue, outcome, beat, stopped>>

\* The except block raises in turn; the pool keeps the exception to itself.
CloseRaisedFails(j) ==
  /\ worker[j] = "raised"
  /\ Fault
  /\ GoTo(j, "returning")
  /\ UNCHANGED <<status, latest, request, queue, outcome, beat, stopped, readFaults, crashes>>

\* The finally block; the heartbeat thread is not joined.
Return(j) ==
  /\ worker[j] = "returning"
  /\ stopped' = [stopped EXCEPT ![j] = TRUE]
  /\ GoTo(j, "done")
  /\ NoFault
  /\ UNCHANGED <<status, latest, request, queue, outcome, beat>>

\* _update_job of a progress report cannot read the record: it starts a new
\* one that holds the job id and the report, and no status.
ProgressLost(j) ==
  /\ worker[j] = "operating"
  /\ readFaults < ReadFaults
  /\ readFaults' = readFaults + 1
  /\ status' = [status EXCEPT ![j] = "lost"]
  /\ UNCHANGED <<latest, threads, outcome, writeFaults, crashes>>

-----------------------------------------------------------------------------
(* _heartbeat, on a thread of its own.                                     *)

\* The wait times out; the record is read outside the lock.
BeatRead(j) ==
  /\ beat[j] = "waiting"
  /\ ~stopped[j]
  /\ beat' = [beat EXCEPT ![j] = IF status[j] \in Active THEN "writing" ELSE "none"]
  /\ NoFault
  /\ UNCHANGED <<disk, request, queue, worker, outcome, stopped>>

\* Mutant: the record read before the lock is written back.
BeatWriteStale(j) ==
  /\ beat[j] = "writing"
  /\ beat' = [beat EXCEPT ![j] = "waiting"]
  /\ status' = [status EXCEPT ![j] = "running"]
  /\ NoFault
  /\ UNCHANGED <<latest, request, queue, worker, outcome, stopped>>

\* The record cannot be read: the thread takes it for gone and ends.
BeatReadFails(j) ==
  /\ beat[j] = "waiting"
  /\ ~stopped[j]
  /\ readFaults < ReadFaults
  /\ readFaults' = readFaults + 1
  /\ beat' = [beat EXCEPT ![j] = "none"]
  /\ UNCHANGED <<disk, request, queue, worker, outcome, stopped, writeFaults, crashes>>

\* _update_job(heartbeat_at): merged into what the record says by now.
BeatWrite(j) ==
  /\ beat[j] = "writing"
  /\ beat' = [beat EXCEPT ![j] = "waiting"]
  /\ status' = status
  /\ NoFault
  /\ UNCHANGED <<latest, request, queue, worker, outcome, stopped>>

BeatWriteFails(j) ==
  /\ beat[j] = "writing"
  /\ Fault
  /\ beat' = [beat EXCEPT ![j] = "none"]
  /\ UNCHANGED <<disk, request, queue, worker, outcome, stopped, readFaults, crashes>>

BeatLost(j) ==
  /\ beat[j] = "writing"
  /\ readFaults < ReadFaults
  /\ readFaults' = readFaults + 1
  /\ beat' = [beat EXCEPT ![j] = "waiting"]
  /\ status' = [status EXCEPT ![j] = "lost"]
  /\ UNCHANGED <<latest, request, queue, worker, outcome, stopped, writeFaults, crashes>>

\* Mutant: one more beat instead of leaving the loop.
BeatStopOnceMore(j) ==
  /\ beat[j] = "waiting"
  /\ stopped[j]
  /\ beat' = [beat EXCEPT ![j] = "writing"]
  /\ NoFault
  /\ UNCHANGED <<disk, request, queue, worker, outcome, stopped>>

BeatStop(j) ==
  /\ beat[j] = "waiting"
  /\ stopped[j]
  /\ beat' = [beat EXCEPT ![j] = "none"]
  /\ NoFault
  /\ UNCHANGED <<disk, request, queue, worker, outcome, stopped>>

-----------------------------------------------------------------------------
\* The Manager dies and is started again: the files stay, the threads, the
\* pool and its queue are gone, and start-up only makes the job directory.
Crash ==
  /\ crashes < Crashes
  /\ crashes' = crashes + 1
  /\ request' = [j \in Jobs |-> "none"]
  /\ queue' = <<>>
  /\ worker' = [j \in Jobs |-> "idle"]
  /\ beat' = [j \in Jobs |-> "none"]
  /\ stopped' = [j \in Jobs |-> FALSE]
  /\ UNCHANGED <<disk, outcome, writeFaults, readFaults>>

Create(j) == CreateRecord(j) \/ NameLatest(j) \/ Submit(j) \/ CreateFails(j)

RunJob(j) == \/ MarkRunning(j) \/ LaunchHeartbeat(j)
             \/ Operate(j) \/ OperationRaises(j)
             \/ Close(j) \/ Trip(j) \/ CloseRaised(j) \/ CloseRaisedFails(j)
             \/ Return(j)

Heartbeat(j) == BeatRead(j) \/ BeatWrite(j) \/ BeatWriteFails(j) \/ BeatStop(j)

Next == \/ \E j \in Jobs : Create(j) \/ RunJob(j) \/ Heartbeat(j)
        \/ \E j \in Jobs : ProgressLost(j) \/ BeatLost(j) \/ BeatReadFails(j)
        \/ Take
        \/ Crash

Spec == Init /\ [][Next]_vars

(***************************************************************************)
(* Fairness.  A handler that began to create a job goes on; an idle pool   *)
(* thread takes work; a pool thread goes on, and the operation it runs     *)
(* comes back because every remote command and request has a timeout; a    *)
(* heartbeat thread wakes up every HEARTBEAT_SECONDS and once stop_event   *)
(* is set.  Nothing is said of new jobs, faults or crashes.                *)
(***************************************************************************)
Fairness ==
  /\ \A j \in Jobs : WF_vars(NameLatest(j) \/ Submit(j) \/ CreateFails(j))
  /\ WF_vars(Take)
  /\ \A j \in Jobs : WF_vars(RunJob(j))
  /\ \A j \in Jobs : WF_vars(Heartbeat(j))

FairSpec == Spec /\ Fairness
-----------------------------------------------------------------------------
(* Properties.                                                             *)

\* A record that says "succeeded" belongs to an operation that did succeed:
\* whatever fails or crashes around it, _run_job never reports success early.
SuccessIsReal ==
  \A j \in Jobs : status[j] = "succeeded" => outcome[j] = "ok"

\* Once _run_job has closed a job, its record says how the operation ended,
\* although the heartbeat thread may still be about to write the same file.
\* (Needs bookkeeping that does not fail.)
ClosedIsReported ==
  \A j \in Jobs : worker[j] \in {"returning", "done"} =>
    status[j] = IF outcome[j] = "ok" THEN "succeeded" ELSE "failed"

\* A record shown as queued or running is somebody's work: a handler is about
\* to submit it, it is in the pool's queue, or a pool thread is in _run_job
\* with it.  (Needs bookkeeping that does not fail and a Manager that stays up.)
ActiveIsOwned ==
  \A j \in Jobs : status[j] \in Active =>
    \/ request[j] # "none"
    \/ j \in Queued
    \/ worker[j] \in InRunJob

\* No more records say "running" than DEFAULT_OPERATION_CONCURRENCY allows.
\* (Same needs as ActiveIsOwned.)
RunningWithinPool ==
  Cardinality({j \in Jobs : status[j] = "running"}) <= Concurrency

\* latest-job.txt never names a job whose record does not exist.
LatestIsRecorded ==
  latest # NoJob => status[latest] # "absent"

\* What the files say of the jobs agrees with the threads that work on them:
\* an open record is somebody's work, a closed one tells how it ended, no more
\* run than the pool allows, and the latest job is one of them.
RecordsAgree == ActiveIsOwned /\ ClosedIsReported /\ RunningWithinPool /\ LatestIsRecorded

\* A verdict is the last thing a record says: no late heartbeat, no retry and
\* no restart takes a final status back, as long as no read has failed (see
\* ProgressLost and BeatLost).
\* (Needs failing writes and a restart.)
KeepFinal == \A j \in Jobs : status[j] \in Final => status'[j] = status[j]
FinalIsFrozen == [][readFaults' = 0 => KeepFinal]_vars

\* A pool thread starts a job at most once, and only a job that is recorded as
\* queued: a restart repeats no operation that may already have happened.
StartFresh ==
  \A j \in Jobs : worker[j] # "starting" /\ worker'[j] = "starting" =>
    status[j] = "queued" /\ outcome[j] = "pending"
StartsOnce == [][StartFresh]_vars

\* The heartbeat thread, which nobody joins, ends after its job.
HeartbeatEnds ==
  \A j \in Jobs : worker[j] = "done" ~> beat[j] = "none"

Board == INSTANCE JobBoard WITH board <- status

\* The job files implement the job board, with its liveness when nothing fails
\* and the Manager stays up, and its safety when writes fail and it crashes, up
\* to the first read that fails.
BoardSafe == Board!BoardInit /\ [][readFaults' = 0 => [Board!BoardNext]_status]_vars
BoardLive == Board!BoardSpec
=============================================================================
