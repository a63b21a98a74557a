----------------------- MODULE OperationJobs_proofs -----------------------
(***************************************************************************)
(* Proofs about OperationJobs, for any set of jobs, any pool size and any  *)
(* number of faults and crashes.                                           *)
(***************************************************************************)
EXTENDS OperationJobs, FiniteSetTheorems, TLAPS

-----------------------------------------------------------------------------
(* Queues.                                                                 *)

\* What the pool's queue holds after a submission.
LEMMA QueueAppend ==
  ASSUME NEW S, NEW q \in Seq(S), NEW x \in S
  PROVE  /\ Append(q, x) \in Seq(S)
         /\ Len(Append(q, x)) = Len(q) + 1
         /\ \A i \in 1..Len(q) : Append(q, x)[i] = q[i]
         /\ Append(q, x)[Len(q) + 1] = x
OBVIOUS

\* What the pool's queue holds after a pool thread took the oldest job.
LEMMA QueueTake ==
  ASSUME NEW S, NEW q \in Seq(S), q # <<>>
  PROVE  /\ Head(q) \in S
         /\ Head(q) = q[1]
         /\ 1 \in 1..Len(q)
         /\ Tail(q) \in Seq(S)
         /\ Len(Tail(q)) = Len(q) - 1
         /\ \A i \in 1..Len(Tail(q)) : Tail(q)[i] = q[i + 1] /\ i + 1 \in 1..Len(q)
OBVIOUS

-----------------------------------------------------------------------------
(* Typing.                                                                 *)

LEMMA TypingStep == TypeOK /\ [Next]_vars => TypeOK'
<1> SUFFICES ASSUME TypeOK, [Next]_vars PROVE TypeOK'
  OBVIOUS
<1> USE BoundsAssumption DEF TypeOK, NoFault, Fault, budgets, GoTo, disk, threads,
        Statuses, Active, Final, WorkerSteps
<1>1. ASSUME NEW j \in Jobs, Create(j) PROVE TypeOK'
  <2>1. CASE CreateRecord(j)
    BY <2>1 DEF CreateRecord
  <2>2. CASE NameLatest(j)
    BY <2>2 DEF NameLatest
  <2>3. CASE Submit(j)
    BY <2>3, QueueAppend DEF Submit
  <2>4. CASE CreateFails(j)
    BY <2>4 DEF CreateFails
  <2> QED BY <1>1, <2>1, <2>2, <2>3, <2>4 DEF Create
<1>2. ASSUME NEW j \in Jobs, RunJob(j) PROVE TypeOK'
  <2>1. CASE MarkRunning(j) \/ LaunchHeartbeat(j) \/ Return(j)
    BY <2>1 DEF MarkRunning, LaunchHeartbeat, Return
  <2>2. CASE OperationRaises(j)
    BY <2>2 DEF OperationRaises
  <2>5. CASE Operate(j)
    <3> PICK o \in {"ok", "bad"} : outcome' = [outcome EXCEPT ![j] = o]
      BY <2>5 DEF Operate
    <3> QED BY <2>5 DEF Operate
  <2>3. CASE Close(j) \/ CloseRaised(j)
    BY <2>3 DEF Close, CloseRaised
  <2>4. CASE Trip(j) \/ CloseRaisedFails(j)
    BY <2>4 DEF Trip, CloseRaisedFails
  <2> QED BY <1>2, <2>1, <2>2, <2>3, <2>4, <2>5 DEF RunJob
<1>3. ASSUME NEW j \in Jobs, Heartbeat(j) PROVE TypeOK'
  <2>1. CASE BeatRead(j)
    BY <2>1 DEF BeatRead
  <2>2. CASE BeatWrite(j) \/ BeatStop(j)
    BY <2>2 DEF BeatWrite, BeatStop
  <2>3. CASE BeatWriteFails(j)
    BY <2>3 DEF BeatWriteFails
  <2> QED BY <1>3, <2>1, <2>2, <2>3 DEF Heartbeat
<1>4. ASSUME NEW j \in Jobs, ProgressLost(j) \/ BeatLost(j) \/ BeatReadFails(j) PROVE TypeOK'
  BY <1>4 DEF ProgressLost, BeatLost, BeatReadFails
<1>5. ASSUME Take PROVE TypeOK'
  BY <1>5, QueueTake DEF Take
<1>6. ASSUME Crash PROVE TypeOK'
  BY <1>6 DEF Crash
<1>7. CASE UNCHANGED vars
  BY <1>7 DEF vars
<1> QED BY <1>1, <1>2, <1>3, <1>4, <1>5, <1>6, <1>7 DEF Next

\* Every variable of the job store keeps its type, for any constants.
THEOREM Typing == Spec => []TypeOK
<1>1. Init => TypeOK
  BY BoundsAssumption DEF Init, TypeOK, Statuses, Active, Final, WorkerSteps
<1> QED BY <1>1, TypingStep, PTL DEF Spec
-----------------------------------------------------------------------------
(* The flow of a job: what its record may say at each stage of its life.   *)

\* Handler, pool thread and heartbeat of one job against its record.
JobFlow(j) ==
  /\ request[j] # "none" => /\ status[j] = "queued" /\ worker[j] = "idle"
                            /\ outcome[j] = "pending" /\ beat[j] = "none"
  /\ status[j] = "absent" => /\ worker[j] = "idle" /\ outcome[j] = "pending"
                             /\ beat[j] = "none"
  /\ worker[j] = "starting" => status[j] = "queued" /\ outcome[j] = "pending"
  /\ worker[j] = "launching" => status[j] = "running" /\ outcome[j] = "pending"
  /\ worker[j] = "operating" => status[j] \in {"running", "lost"} /\ outcome[j] = "pending"
  /\ worker[j] = "closing" => status[j] \in {"running", "lost"}
  /\ worker[j] = "raised" => status[j] \in Active \union {"lost"}
  /\ beat[j] # "none" =>
       worker[j] \in {"operating", "closing", "raised", "returning", "done"}
  /\ status[j] = "succeeded" => outcome[j] = "ok"

\* The pool's queue holds recorded jobs nobody has begun, each of them once.
QueueFlow ==
  /\ \A i \in 1..Len(queue) :
       /\ status[queue[i]] = "queued" /\ worker[queue[i]] = "idle"
       /\ outcome[queue[i]] = "pending" /\ request[queue[i]] = "none"
       /\ beat[queue[i]] = "none"
  /\ \A i, k \in 1..Len(queue) : queue[i] = queue[k] => i = k

Flow == QueueFlow /\ \A j \in Jobs : JobFlow(j)

LEMMA QueueInJobs == TypeOK => \A i \in 1..Len(queue) : queue[i] \in Jobs
BY DEF TypeOK

\* A step of a job that is not queued leaves the queue's invariant alone.
LEMMA QueueUndisturbed ==
  ASSUME TypeOK, QueueFlow, NEW j \in Jobs,
         queue' = queue,
         \A i \in 1..Len(queue) : queue[i] # j,
         \A k \in Jobs \ {j} : /\ status'[k] = status[k] /\ worker'[k] = worker[k]
                               /\ outcome'[k] = outcome[k] /\ request'[k] = request[k]
                               /\ beat'[k] = beat[k]
  PROVE  QueueFlow'
BY QueueInJobs DEF QueueFlow

LEMMA CreateFlow ==
  ASSUME TypeOK, Flow, NEW j \in Jobs, Create(j)
  PROVE  Flow'
<1> USE DEF TypeOK, Statuses, Active, Final
<1>1. CASE CreateRecord(j)
  <2>1. \A i \in 1..Len(queue) : queue[i] # j
    BY <1>1 DEF CreateRecord, Flow, QueueFlow
  <2>2. QueueFlow'
    BY <1>1, <2>1, QueueUndisturbed DEF CreateRecord, Flow
  <2>3. ASSUME NEW k \in Jobs PROVE JobFlow(k)'
    BY <1>1, <2>3 DEF CreateRecord, Flow, JobFlow
  <2> QED BY <2>2, <2>3 DEF Flow
<1>2. CASE NameLatest(j) \/ CreateFails(j)
  <2>1. \A i \in 1..Len(queue) : queue[i] # j
    BY <1>2 DEF NameLatest, CreateFails, Flow, QueueFlow
  <2>2. QueueFlow'
    BY <1>2, <2>1, QueueUndisturbed DEF NameLatest, CreateFails, Flow
  <2>3. ASSUME NEW k \in Jobs PROVE JobFlow(k)'
    BY <1>2, <2>3 DEF NameLatest, CreateFails, Flow, JobFlow
  <2> QED BY <2>2, <2>3 DEF Flow
<1>3. CASE Submit(j)
  <2>1. /\ Len(queue') = Len(queue) + 1
        /\ \A i \in 1..Len(queue) : queue'[i] = queue[i]
        /\ queue'[Len(queue) + 1] = j
    BY <1>3, QueueAppend DEF Submit
  <2>2. \A i \in 1..Len(queue) : queue[i] # j
    BY <1>3 DEF Submit, Flow, QueueFlow
  <2>3. ASSUME NEW i \in 1..Len(queue')
        PROVE  /\ status'[queue'[i]] = "queued" /\ worker'[queue'[i]] = "idle"
               /\ outcome'[queue'[i]] = "pending" /\ request'[queue'[i]] = "none"
               /\ beat'[queue'[i]] = "none"
    <3>1. CASE i \in 1..Len(queue)
      BY <1>3, <2>1, <2>2, <3>1, QueueInJobs DEF Submit, Flow, QueueFlow
    <3>2. CASE i = Len(queue) + 1
      BY <1>3, <2>1, <3>2 DEF Submit, Flow, JobFlow
    <3> QED BY <2>1, <2>3, <3>1, <3>2
  <2>4. ASSUME NEW i \in 1..Len(queue'), NEW k \in 1..Len(queue'), queue'[i] = queue'[k]
        PROVE  i = k
    <3>1. Len(queue) \in Nat
      BY DEF TypeOK
    <3>2. CASE i \in 1..Len(queue) /\ k \in 1..Len(queue)
      BY <2>1, <2>4, <3>2 DEF Flow, QueueFlow
    <3>3. CASE i = Len(queue) + 1 /\ k \in 1..Len(queue)
      BY <2>1, <2>2, <2>4, <3>3
    <3>4. CASE i \in 1..Len(queue) /\ k = Len(queue) + 1
      BY <2>1, <2>2, <2>4, <3>4
    <3> QED BY <2>1, <3>1, <3>2, <3>3, <3>4
  <2>5. ASSUME NEW k \in Jobs PROVE JobFlow(k)'
    BY <1>3, <2>5 DEF Submit, Flow, JobFlow
  <2> QED BY <2>3, <2>4, <2>5 DEF Flow, QueueFlow
<1> QED BY <1>1, <1>2, <1>3 DEF Create

LEMMA TakeFlow ==
  ASSUME TypeOK, Flow, Take
  PROVE  Flow'
<1> DEFINE j == Head(queue)
<1>1. /\ j \in Jobs /\ j = queue[1] /\ 1 \in 1..Len(queue)
      /\ Len(queue') = Len(queue) - 1
      /\ \A i \in 1..Len(queue') : queue'[i] = queue[i + 1] /\ i + 1 \in 1..Len(queue)
  BY QueueTake DEF Take, TypeOK
<1>2. \A i \in 1..Len(queue') : queue'[i] # j /\ queue'[i] \in Jobs
  <2> TAKE i \in 1..Len(queue')
  <2>1. queue'[i] = queue[i + 1] /\ i + 1 \in 1..Len(queue) /\ i + 1 # 1
    BY <1>1
  <2>2. queue[i + 1] # queue[1]
    BY <1>1, <2>1 DEF Flow, QueueFlow
  <2> QED BY <1>1, <2>1, <2>2, QueueInJobs
<1>3. /\ status[j] = "queued" /\ worker[j] = "idle" /\ outcome[j] = "pending"
      /\ request[j] = "none" /\ beat[j] = "none"
  BY <1>1 DEF Flow, QueueFlow
<1> HIDE DEF j
<1>4. /\ worker' = [worker EXCEPT ![j] = "starting"]
      /\ UNCHANGED <<status, request, outcome, beat>>
  BY DEF Take, GoTo, j
<1>5. QueueFlow'
  <2>1. \A i \in 1..Len(queue') :
          /\ status'[queue'[i]] = "queued" /\ worker'[queue'[i]] = "idle"
          /\ outcome'[queue'[i]] = "pending" /\ request'[queue'[i]] = "none"
          /\ beat'[queue'[i]] = "none"
    <3> TAKE i \in 1..Len(queue')
    <3>1. queue'[i] = queue[i + 1] /\ i + 1 \in 1..Len(queue)
      BY <1>1
    <3>2. queue'[i] # j /\ queue'[i] \in Jobs
      BY <1>2
    <3>3. /\ status[queue[i + 1]] = "queued" /\ worker[queue[i + 1]] = "idle"
          /\ outcome[queue[i + 1]] = "pending" /\ request[queue[i + 1]] = "none"
          /\ beat[queue[i + 1]] = "none"
      BY <3>1 DEF Flow, QueueFlow
    <3> QED BY <1>4, <3>1, <3>2, <3>3 DEF TypeOK
  <2>2. \A i, k \in 1..Len(queue') : queue'[i] = queue'[k] => i = k
    <3> TAKE i, k \in 1..Len(queue')
    <3>1. queue'[i] = queue[i + 1] /\ queue'[k] = queue[k + 1]
          /\ i + 1 \in 1..Len(queue) /\ k + 1 \in 1..Len(queue)
      BY <1>1
    <3>2. queue[i + 1] = queue[k + 1] => i + 1 = k + 1
      BY <3>1 DEF Flow, QueueFlow
    <3>3. i + 1 = k + 1 => i = k
      OBVIOUS
    <3> QED BY <3>1, <3>2, <3>3
  <2> QED BY <2>1, <2>2 DEF QueueFlow
<1>6. ASSUME NEW k \in Jobs PROVE JobFlow(k)'
  BY <1>1, <1>3, <1>4, <1>6 DEF Flow, JobFlow, TypeOK
<1> QED BY <1>5, <1>6 DEF Flow
LEMMA RunJobFlow ==
  ASSUME TypeOK, Flow, NEW j \in Jobs, RunJob(j)
  PROVE  Flow'
<1> USE DEF TypeOK, Statuses, Active, Final, GoTo
<1>1. worker[j] # "idle"
  BY DEF RunJob, MarkRunning, LaunchHeartbeat, Operate, OperationRaises, Close, Trip,
         CloseRaised, CloseRaisedFails, Return
<1>2. \A i \in 1..Len(queue) : queue[i] # j
  BY <1>1 DEF Flow, QueueFlow
<1>3. CASE MarkRunning(j) \/ LaunchHeartbeat(j) \/ Return(j)
  <2>1. QueueFlow'
    BY <1>2, <1>3, QueueUndisturbed DEF MarkRunning, LaunchHeartbeat, Return, Flow
  <2>2. ASSUME NEW k \in Jobs PROVE JobFlow(k)'
    BY <1>3, <2>2 DEF MarkRunning, LaunchHeartbeat, Return, Flow, JobFlow
  <2> QED BY <2>1, <2>2 DEF Flow
<1>4. CASE Operate(j)
  <2> PICK o \in {"ok", "bad"} : outcome' = [outcome EXCEPT ![j] = o]
    BY <1>4 DEF Operate
  <2>1. QueueFlow'
    BY <1>2, <1>4, QueueUndisturbed DEF Operate, Flow
  <2>2. ASSUME NEW k \in Jobs PROVE JobFlow(k)'
    BY <1>4, <2>2 DEF Operate, Flow, JobFlow
  <2> QED BY <2>1, <2>2 DEF Flow
<1>5. CASE OperationRaises(j)
  <2>1. QueueFlow'
    BY <1>2, <1>5, QueueUndisturbed DEF OperationRaises, Flow
  <2>2. ASSUME NEW k \in Jobs PROVE JobFlow(k)'
    BY <1>5, <2>2 DEF OperationRaises, Flow, JobFlow
  <2> QED BY <2>1, <2>2 DEF Flow
<1>6. CASE Close(j) \/ CloseRaised(j)
  <2>1. QueueFlow'
    BY <1>2, <1>6, QueueUndisturbed DEF Close, CloseRaised, Flow
  <2>2. ASSUME NEW k \in Jobs PROVE JobFlow(k)'
    BY <1>6, <2>2 DEF Close, CloseRaised, Flow, JobFlow
  <2> QED BY <2>1, <2>2 DEF Flow
<1>7. CASE Trip(j) \/ CloseRaisedFails(j)
  <2>1. QueueFlow'
    BY <1>2, <1>7, QueueUndisturbed DEF Trip, CloseRaisedFails, Flow
  <2>2. ASSUME NEW k \in Jobs PROVE JobFlow(k)'
    BY <1>7, <2>2 DEF Trip, CloseRaisedFails, Flow, JobFlow
  <2> QED BY <2>1, <2>2 DEF Flow
<1> QED BY <1>3, <1>4, <1>5, <1>6, <1>7 DEF RunJob

\* The heartbeat thread, also when its read fails, and a lost progress report.
LEMMA BeatFlow ==
  ASSUME TypeOK, Flow, NEW j \in Jobs,
         Heartbeat(j) \/ ProgressLost(j) \/ BeatLost(j) \/ BeatReadFails(j)
  PROVE  Flow'
<1> USE DEF TypeOK, Statuses, Active, Final, disk, threads
<1>1. \A i \in 1..Len(queue) : queue[i] # j
  BY DEF Heartbeat, BeatRead, BeatWrite, BeatWriteFails, BeatStop, ProgressLost, BeatLost,
         BeatReadFails, Flow, QueueFlow
<1>2. CASE BeatRead(j) \/ BeatStop(j)
  <2>1. QueueFlow'
    BY <1>1, <1>2, QueueUndisturbed DEF BeatRead, BeatStop, Flow
  <2>2. ASSUME NEW k \in Jobs PROVE JobFlow(k)'
    BY <1>2, <2>2 DEF BeatRead, BeatStop, Flow, JobFlow
  <2> QED BY <2>1, <2>2 DEF Flow
<1>3. CASE BeatWrite(j) \/ BeatWriteFails(j)
  <2>1. QueueFlow'
    BY <1>1, <1>3, QueueUndisturbed DEF BeatWrite, BeatWriteFails, Flow
  <2>2. ASSUME NEW k \in Jobs PROVE JobFlow(k)'
    BY <1>3, <2>2 DEF BeatWrite, BeatWriteFails, Flow, JobFlow
  <2> QED BY <2>1, <2>2 DEF Flow
<1>4. CASE ProgressLost(j) \/ BeatLost(j) \/ BeatReadFails(j)
  <2>1. QueueFlow'
    BY <1>1, <1>4, QueueUndisturbed DEF ProgressLost, BeatLost, BeatReadFails, Flow
  <2>2. ASSUME NEW k \in Jobs PROVE JobFlow(k)'
    BY <1>4, <2>2 DEF ProgressLost, BeatLost, BeatReadFails, Flow, JobFlow
  <2> QED BY <2>1, <2>2 DEF Flow
<1> QED BY <1>2, <1>3, <1>4 DEF Heartbeat

LEMMA FlowStep == TypeOK /\ Flow /\ [Next]_vars => Flow'
<1> SUFFICES ASSUME TypeOK, Flow, [Next]_vars PROVE Flow'
  OBVIOUS
<1>1. CASE Crash
  BY <1>1 DEF Crash, TypeOK, disk, Flow, QueueFlow, JobFlow
<1>2. CASE UNCHANGED vars
  BY <1>2 DEF vars, Flow, QueueFlow, JobFlow
<1> QED BY <1>1, <1>2, CreateFlow, TakeFlow, RunJobFlow, BeatFlow DEF Next

\* Every record agrees with the threads that work on it, through any fault,
\* lost read and crash.
THEOREM FlowInvariant == Spec => [](TypeOK /\ Flow)
<1>1. Init => Flow
  BY DEF Init, Flow, QueueFlow, JobFlow, Active
<1> QED BY <1>1, FlowStep, Typing, PTL DEF Spec

\* A job recorded as succeeded did succeed, whatever failed around it.
THEOREM SuccessTheorem == Spec => []SuccessIsReal
<1>1. Flow => SuccessIsReal
  BY DEF Flow, JobFlow, SuccessIsReal
<1> QED BY <1>1, FlowInvariant, PTL
-----------------------------------------------------------------------------
(* Action properties.                                                      *)

LEMMA StartFreshStep == TypeOK /\ Flow /\ [Next]_vars => [StartFresh]_vars
<1> SUFFICES ASSUME TypeOK, Flow, Next, NEW j \in Jobs,
                    worker[j] # "starting", worker'[j] = "starting"
             PROVE  status[j] = "queued" /\ outcome[j] = "pending"
  BY DEF StartFresh
<1>1. ASSUME NEW k \in Jobs, Create(k) \/ Heartbeat(k) \/ ProgressLost(k) \/ BeatLost(k) \/ BeatReadFails(k)
      PROVE  FALSE
  BY <1>1 DEF Create, CreateRecord, NameLatest, Submit, CreateFails, Heartbeat, BeatRead,
              BeatWrite, BeatWriteFails, BeatStop, ProgressLost, BeatLost, BeatReadFails, threads
<1>2. ASSUME NEW k \in Jobs, RunJob(k) PROVE FALSE
  BY <1>2 DEF TypeOK, GoTo, RunJob, MarkRunning, LaunchHeartbeat, Operate, OperationRaises,
              Close, Trip, CloseRaised, CloseRaisedFails, Return
<1>3. CASE Crash
  BY <1>3 DEF Crash
<1>4. CASE Take
  <2>1. Head(queue) \in Jobs /\ Head(queue) = queue[1] /\ 1 \in 1..Len(queue)
    BY <1>4, QueueTake DEF Take, TypeOK
  <2>2. j = Head(queue)
    BY <1>4, <2>1 DEF Take, GoTo, TypeOK
  <2> QED BY <2>1, <2>2 DEF Flow, QueueFlow
<1> QED BY <1>1, <1>2, <1>3, <1>4 DEF Next

\* A pool thread starts a job at most once, across restarts of the Manager.
THEOREM StartsOnceTheorem == Spec => StartsOnce
BY FlowInvariant, StartFreshStep, PTL DEF Spec, StartsOnce

\* Before the first failing read in _update_job no record loses its status.
Intact == readFaults = 0 => \A j \in Jobs : status[j] # "lost"

\* A read that fails is counted.
LEMMA ReadCounted ==
  ASSUME TypeOK, NEW j \in Jobs, ProgressLost(j) \/ BeatLost(j) \/ BeatReadFails(j)
  PROVE  readFaults' # 0
<1>1. readFaults' = readFaults + 1
  BY DEF ProgressLost, BeatLost, BeatReadFails
<1>2. readFaults \in Nat
  BY BoundsAssumption DEF TypeOK
<1> QED BY <1>1, <1>2

LEMMA IntactStep == TypeOK /\ Intact /\ [Next]_vars => Intact'
<1> SUFFICES ASSUME TypeOK, Intact, [Next]_vars PROVE Intact'
  OBVIOUS
<1> USE DEF TypeOK, Intact, GoTo, disk, NoFault, Fault, budgets
<1>1. ASSUME NEW j \in Jobs, Create(j) PROVE Intact'
  BY <1>1 DEF Create, CreateRecord, NameLatest, Submit, CreateFails
<1>2. ASSUME NEW j \in Jobs, RunJob(j) PROVE Intact'
  BY <1>2 DEF RunJob, MarkRunning, LaunchHeartbeat, Operate, OperationRaises, Close, Trip,
              CloseRaised, CloseRaisedFails, Return
<1>3. ASSUME NEW j \in Jobs, Heartbeat(j) PROVE Intact'
  BY <1>3 DEF Heartbeat, BeatRead, BeatWrite, BeatWriteFails, BeatStop
<1>4. ASSUME NEW j \in Jobs, ProgressLost(j) \/ BeatLost(j) \/ BeatReadFails(j) PROVE Intact'
  BY <1>4, ReadCounted
<1>5. CASE Take
  BY <1>5 DEF Take
<1>6. CASE Crash
  BY <1>6 DEF Crash
<1>7. CASE UNCHANGED vars
  BY <1>7 DEF vars
<1> QED BY <1>1, <1>2, <1>3, <1>4, <1>5, <1>6, <1>7 DEF Next

LEMMA IntactInvariant == Spec => []Intact
<1>1. Init => Intact
  BY DEF Init, Intact
<1>2. TypeOK /\ Intact /\ [Next]_vars => Intact'
  BY IntactStep
<1> QED BY <1>1, <1>2, Typing, PTL DEF Spec

\* A step before which no read has failed leaves none failed behind it either.
LEMMA ReadsStay == TypeOK /\ [Next]_vars /\ readFaults' = 0 => readFaults = 0
<1> SUFFICES ASSUME TypeOK, [Next]_vars, readFaults' = 0 PROVE readFaults = 0
  OBVIOUS
<1> USE DEF GoTo, NoFault, Fault, budgets
<1>1. ASSUME NEW j \in Jobs, Create(j) PROVE readFaults' = readFaults
  BY <1>1 DEF Create, CreateRecord, NameLatest, Submit, CreateFails
<1>2. ASSUME NEW j \in Jobs, RunJob(j) PROVE readFaults' = readFaults
  BY <1>2 DEF RunJob, MarkRunning, LaunchHeartbeat, Operate, OperationRaises, Close, Trip,
              CloseRaised, CloseRaisedFails, Return
<1>3. ASSUME NEW j \in Jobs, Heartbeat(j) PROVE readFaults' = readFaults
  BY <1>3 DEF Heartbeat, BeatRead, BeatWrite, BeatWriteFails, BeatStop
<1>4. ASSUME NEW j \in Jobs, ProgressLost(j) \/ BeatLost(j) \/ BeatReadFails(j) PROVE FALSE
  BY <1>4, ReadCounted
<1>5. CASE Take \/ Crash \/ UNCHANGED vars
  BY <1>5 DEF Take, Crash, vars
<1> QED BY <1>1, <1>2, <1>3, <1>4, <1>5 DEF Next

\* Before the first failing read, every step of the job store is a step of the
\* job board or leaves it alone.
LEMMA BoardStep ==
  ASSUME TypeOK, Flow, Intact, Next, readFaults' = 0
  PROVE  [Board!BoardNext]_status
<1>0. \A j \in Jobs : status[j] # "lost"
  BY ReadsStay DEF Intact
<1> USE <1>0 DEF TypeOK, GoTo, disk, threads
<1>1. ASSUME NEW j \in Jobs, Create(j) PROVE [Board!BoardNext]_status
  <2>1. CASE CreateRecord(j)
    BY <2>1 DEF CreateRecord, Board!BoardNext, Board!Enqueue
  <2>2. CASE NameLatest(j) \/ Submit(j) \/ CreateFails(j)
    BY <2>2 DEF NameLatest, Submit, CreateFails
  <2> QED BY <1>1, <2>1, <2>2 DEF Create
<1>2. ASSUME NEW j \in Jobs, RunJob(j) PROVE [Board!BoardNext]_status
  <2>1. CASE MarkRunning(j)
    BY <2>1 DEF MarkRunning, Flow, JobFlow, Board!BoardNext, Board!Begin
  <2>2. CASE Close(j)
    <3>1. status[j] = "running"
      BY <2>2 DEF Close, Flow, JobFlow
    <3>2. PICK v \in {"succeeded", "failed"} : status' = [status EXCEPT ![j] = v]
      BY <2>2 DEF Close
    <3> QED BY <3>1, <3>2 DEF Board!BoardNext, Board!Finish, Board!Active, Board!Closed
  <2>3. CASE CloseRaised(j)
    <3>1. status[j] \in Active
      BY <2>3 DEF CloseRaised, Flow, JobFlow
    <3> QED BY <2>3, <3>1 DEF CloseRaised, Active, Board!BoardNext, Board!Finish,
                              Board!Active, Board!Closed
  <2>4. CASE \/ LaunchHeartbeat(j) \/ Operate(j) \/ OperationRaises(j)
             \/ Trip(j) \/ CloseRaisedFails(j) \/ Return(j)
    BY <2>4 DEF LaunchHeartbeat, Operate, OperationRaises, Trip, CloseRaisedFails, Return
  <2> QED BY <1>2, <2>1, <2>2, <2>3, <2>4 DEF RunJob
<1>3. ASSUME NEW j \in Jobs, Heartbeat(j) PROVE [Board!BoardNext]_status
  BY <1>3 DEF Heartbeat, BeatRead, BeatWrite, BeatWriteFails, BeatStop
<1>4. ASSUME NEW j \in Jobs, ProgressLost(j) \/ BeatLost(j) \/ BeatReadFails(j)
      PROVE  FALSE
  BY <1>4, ReadCounted
<1>5. CASE Take \/ Crash
  BY <1>5 DEF Take, Crash
<1> QED BY <1>1, <1>2, <1>3, <1>4, <1>5 DEF Next

\* Up to the first failing read the job files implement the job board, through
\* failing writes and crashes.
THEOREM BoardTheorem == Spec => BoardSafe
<1>1. Init => Board!BoardInit
  BY DEF Init, Board!BoardInit
<1>2. TypeOK /\ Flow /\ Intact /\ [Next]_vars => [readFaults' = 0 => [Board!BoardNext]_status]_vars
  BY BoardStep
<1> QED BY <1>1, <1>2, IntactInvariant, FlowInvariant, PTL DEF Spec, BoardSafe

LEMMA KeepFinalStep ==
  ASSUME TypeOK, [Board!BoardNext]_status
  PROVE  KeepFinal
BY DEF TypeOK, KeepFinal, Final, Board!BoardNext, Board!Enqueue, Board!Begin, Board!Finish,
       Board!Active

\* Up to the first failing read a final status is never overwritten, by a late
\* heartbeat, a failing write or a restart.
THEOREM FrozenTheorem == Spec => FinalIsFrozen
<1>1. TypeOK /\ Flow /\ Intact /\ [Next]_vars => [readFaults' = 0 => KeepFinal]_vars
  BY BoardStep, KeepFinalStep
<1> QED BY <1>1, IntactInvariant, FlowInvariant, PTL DEF Spec, FinalIsFrozen
-----------------------------------------------------------------------------
(* The records and the threads that own them.                              *)

\* latest-job.txt names a job whose record has been written, through any fault
\* and any restart.
THEOREM LatestTheorem == Spec => []LatestIsRecorded
<1>1. Init => LatestIsRecorded
  BY DEF Init, LatestIsRecorded
<1>2. TypeOK /\ Flow /\ LatestIsRecorded /\ [Next]_vars => LatestIsRecorded'
  <2> SUFFICES ASSUME TypeOK, Flow, LatestIsRecorded, [Next]_vars,
                      latest' # NoJob
               PROVE  status'[latest'] # "absent"
    BY DEF LatestIsRecorded
  <2>1. \A j \in Jobs : status[j] # "absent" => status'[j] # "absent"
    <3> USE DEF TypeOK, disk
    <3>1. ASSUME NEW j \in Jobs, Create(j) \/ RunJob(j)
          PROVE  \A k \in Jobs : status[k] # "absent" => status'[k] # "absent"
      BY <3>1 DEF Create, CreateRecord, NameLatest, Submit, CreateFails, RunJob, MarkRunning,
                  LaunchHeartbeat, Operate, OperationRaises, Close, Trip, CloseRaised,
                  CloseRaisedFails, Return
    <3>2. ASSUME NEW j \in Jobs, Heartbeat(j) \/ ProgressLost(j) \/ BeatLost(j) \/ BeatReadFails(j)
          PROVE  \A k \in Jobs : status[k] # "absent" => status'[k] # "absent"
      BY <3>2 DEF Heartbeat, BeatRead, BeatWrite, BeatWriteFails, BeatStop, ProgressLost,
                  BeatLost, BeatReadFails
    <3>3. CASE Take \/ Crash \/ UNCHANGED vars
      BY <3>3 DEF Take, Crash, vars
    <3> QED BY <3>1, <3>2, <3>3 DEF Next
  <2>2. ASSUME NEW j \in Jobs, NameLatest(j) PROVE status'[latest'] # "absent"
    BY <2>2 DEF NameLatest, Flow, JobFlow
  <2>3. CASE latest' = latest
    BY <2>1, <2>3 DEF LatestIsRecorded, TypeOK
  <2>4. latest' = latest \/ \E j \in Jobs : NameLatest(j)
    BY DEF Next, vars, disk, Create, CreateRecord, Submit, CreateFails, RunJob, MarkRunning,
           LaunchHeartbeat, Operate, OperationRaises, Close, Trip, CloseRaised, CloseRaisedFails,
           Return, Heartbeat, BeatRead, BeatWrite, BeatWriteFails, BeatStop, ProgressLost,
           BeatLost, BeatReadFails, Take, Crash
  <2> QED BY <2>2, <2>3, <2>4
<1> QED BY <1>1, <1>2, FlowInvariant, PTL DEF Spec

\* What a step does to the counts of failures: they never go down, and the steps
\* that stand for a failing write or a crash leave them above zero.
LEMMA FailuresCounted ==
  ASSUME TypeOK, [Next]_vars
  PROVE  /\ writeFaults' = 0 => writeFaults = 0
         /\ crashes' = 0 => crashes = 0 /\ ~Crash
         /\ \A j \in Jobs : CreateFails(j) \/ Trip(j) \/ CloseRaisedFails(j) \/ BeatWriteFails(j)
                              => writeFaults' # 0
<1>1. writeFaults \in Nat /\ crashes \in Nat
  BY BoundsAssumption DEF TypeOK
<1>2. ASSUME NEW j \in Jobs,
             CreateFails(j) \/ Trip(j) \/ CloseRaisedFails(j) \/ BeatWriteFails(j)
      PROVE  writeFaults' = writeFaults + 1 /\ crashes' = crashes
  BY <1>2 DEF CreateFails, Trip, CloseRaisedFails, BeatWriteFails, Fault
<1>3. ASSUME NEW j \in Jobs, Create(j) \/ RunJob(j) \/ Heartbeat(j)
      PROVE  writeFaults' \in {writeFaults, writeFaults + 1} /\ crashes' = crashes
  BY <1>2, <1>3 DEF NoFault, budgets, Create, CreateRecord, NameLatest, Submit, RunJob,
       MarkRunning, LaunchHeartbeat, Operate, OperationRaises, Close, CloseRaised, Return,
       Heartbeat, BeatRead, BeatWrite, BeatStop
<1>4. ASSUME NEW j \in Jobs, ProgressLost(j) \/ BeatLost(j) \/ BeatReadFails(j)
      PROVE  writeFaults' = writeFaults /\ crashes' = crashes
  BY <1>4 DEF ProgressLost, BeatLost, BeatReadFails
<1>5. Crash => crashes' = crashes + 1 /\ writeFaults' = writeFaults
  BY DEF Crash
<1>6. Take \/ UNCHANGED vars => crashes' = crashes /\ writeFaults' = writeFaults
  BY DEF Take, NoFault, budgets, vars
<1>7. /\ writeFaults' \in {writeFaults, writeFaults + 1}
      /\ crashes' \in {crashes, crashes + 1}
      /\ Crash => crashes' = crashes + 1
  BY <1>3, <1>4, <1>5, <1>6 DEF Next
<1> QED BY <1>1, <1>2, <1>7

\* A job in the queue stays there until it is the one a pool thread takes.
LEMMA QueuedStays ==
  ASSUME TypeOK, NEW k \in Queued, Take, k # Head(queue)
  PROVE  k \in Queued'
<1>1. PICK i \in 1..Len(queue) : queue[i] = k
  BY DEF Queued
<1>2. /\ Head(queue) = queue[1]
      /\ Len(queue) \in Nat
      /\ Len(Tail(queue)) = Len(queue) - 1
      /\ \A n \in 1..Len(Tail(queue)) : Tail(queue)[n] = queue[n + 1]
  BY QueueTake DEF Take, TypeOK
<1>3. i - 1 \in 1..Len(Tail(queue)) /\ Tail(queue)[i - 1] = k
  <2>1. i # 1 /\ i - 1 \in 1..(Len(queue) - 1) /\ (i - 1) + 1 = i
    BY <1>1, <1>2
  <2> QED BY <1>1, <1>2, <2>1
<1> QED BY <1>3 DEF Take, Queued

\* ActiveIsOwned as long as no write has failed and the Manager has not died.
OwnedSoFar == writeFaults = 0 /\ crashes = 0 => ActiveIsOwned

LEMMA OwnedStep == TypeOK /\ Flow /\ OwnedSoFar /\ [Next]_vars => OwnedSoFar'
<1> SUFFICES ASSUME TypeOK, Flow, OwnedSoFar, [Next]_vars, writeFaults' = 0, crashes' = 0,
                    NEW k \in Jobs, status'[k] \in Active
             PROVE  request'[k] # "none" \/ k \in Queued' \/ worker'[k] \in InRunJob
  BY DEF OwnedSoFar, ActiveIsOwned, Active, InRunJob
<1>0. /\ ~Crash
      /\ \A j \in Jobs : ~CreateFails(j) /\ ~Trip(j) /\ ~CloseRaisedFails(j) /\ ~BeatWriteFails(j)
      /\ status[k] \in Active => \/ request[k] # "none"
                                 \/ k \in Queued
                                 \/ worker[k] \in InRunJob
  BY FailuresCounted DEF OwnedSoFar, ActiveIsOwned
<1> USE DEF TypeOK, Active, InRunJob, GoTo, disk, threads
<1>1. ASSUME NEW j \in Jobs, Create(j)
      PROVE  request'[k] # "none" \/ k \in Queued' \/ worker'[k] \in InRunJob
  <2>1. CASE CreateRecord(j) \/ NameLatest(j)
    BY <1>0, <2>1 DEF CreateRecord, NameLatest, Queued
  <2>2. CASE Submit(j)
    <3>1. /\ Len(queue') = Len(queue) + 1 /\ Len(queue) \in Nat
          /\ \A i \in 1..Len(queue) : queue'[i] = queue[i]
          /\ queue'[Len(queue) + 1] = j
      BY <2>2, QueueAppend DEF Submit
    <3>2. j \in Queued'
      BY <3>1 DEF Queued
    <3>3. Queued \subseteq Queued'
      BY <3>1 DEF Queued
    <3> QED BY <1>0, <2>2, <3>2, <3>3 DEF Submit
  <2> QED BY <1>0, <1>1, <2>1, <2>2 DEF Create
<1>2. ASSUME NEW j \in Jobs, RunJob(j)
      PROVE  request'[k] # "none" \/ k \in Queued' \/ worker'[k] \in InRunJob
  <2>1. CASE MarkRunning(j) \/ LaunchHeartbeat(j) \/ Operate(j) \/ OperationRaises(j)
    BY <1>0, <2>1 DEF MarkRunning, LaunchHeartbeat, Operate, OperationRaises, Queued
  <2>2. CASE Close(j) \/ CloseRaised(j)
    BY <1>0, <2>2 DEF Close, CloseRaised, Queued
  <2>3. CASE Return(j)
    BY <1>0, <2>3 DEF Return, Queued
  <2> QED BY <1>0, <1>2, <2>1, <2>2, <2>3 DEF RunJob
<1>3. ASSUME NEW j \in Jobs, Heartbeat(j) \/ ProgressLost(j) \/ BeatLost(j) \/ BeatReadFails(j)
      PROVE  request'[k] # "none" \/ k \in Queued' \/ worker'[k] \in InRunJob
  BY <1>0, <1>3 DEF Heartbeat, BeatRead, BeatWrite, BeatStop, ProgressLost, BeatLost,
                    BeatReadFails, Queued
<1>4. CASE Take
  <2>1. Head(queue) \in Jobs
    BY <1>4, QueueTake DEF Take
  <2>2. CASE k = Head(queue)
    BY <1>4, <2>1, <2>2 DEF Take
  <2>3. CASE k # Head(queue)
    BY <1>0, <1>4, <2>1, <2>3, QueuedStays DEF Take
  <2> QED BY <2>2, <2>3
<1>5. CASE UNCHANGED vars
  BY <1>0, <1>5 DEF vars, Queued
<1> QED BY <1>0, <1>1, <1>2, <1>3, <1>4, <1>5 DEF Next

\* Until a write fails or the Manager dies, a record shown as queued or running
\* is the work of a handler, of the queue or of a pool thread, whatever reads fail.
THEOREM OwnedTheorem == Spec => [](writeFaults = 0 /\ crashes = 0 => ActiveIsOwned)
<1>1. Init => OwnedSoFar
  BY DEF Init, OwnedSoFar, ActiveIsOwned, Active
<1> QED BY <1>1, OwnedStep, FlowInvariant, PTL DEF Spec, OwnedSoFar

\* No more pool threads are busy than the pool has.
PoolBound == IsFiniteSet(Busy) /\ Cardinality(Busy) <= Concurrency

\* A set of busy threads that shrinks stays within the pool.
LEMMA BusyShrinks == PoolBound /\ Busy' \subseteq Busy => PoolBound'
<1> SUFFICES ASSUME PoolBound, Busy' \subseteq Busy PROVE PoolBound'
  OBVIOUS
<1>1. /\ IsFiniteSet(Busy') /\ Cardinality(Busy') <= Cardinality(Busy)
  BY FS_Subset DEF PoolBound
<1>2. Cardinality(Busy') \in Nat /\ Cardinality(Busy) \in Nat
  BY <1>1, FS_CardinalityType DEF PoolBound
<1> QED BY <1>1, <1>2, ConcurrencyAssumption DEF PoolBound

LEMMA PoolStep == TypeOK /\ PoolBound /\ [Next]_vars => PoolBound'
<1> SUFFICES ASSUME TypeOK, PoolBound, [Next]_vars PROVE PoolBound'
  OBVIOUS
<1>1. CASE Take
  <2>1. Head(queue) \in Jobs
    BY <1>1, QueueTake DEF Take, TypeOK
  <2>2. Busy' = Busy \union {Head(queue)}
    BY <1>1, <2>1 DEF Take, GoTo, Busy, TypeOK
  <2>3. /\ IsFiniteSet(Busy \union {Head(queue)})
        /\ Cardinality(Busy \union {Head(queue)}) \in {Cardinality(Busy), Cardinality(Busy) + 1}
    BY FS_AddElement DEF PoolBound
  <2>4. Cardinality(Busy) \in Nat /\ Cardinality(Busy) < Concurrency
    BY <1>1, FS_CardinalityType DEF PoolBound, Take
  <2> QED BY <2>2, <2>3, <2>4, ConcurrencyAssumption DEF PoolBound
<1>2. ASSUME NEW j \in Jobs, RunJob(j) PROVE Busy' \subseteq Busy
  BY <1>2 DEF TypeOK, GoTo, Busy, RunJob, MarkRunning, LaunchHeartbeat, Operate, OperationRaises,
              Close, Trip, CloseRaised, CloseRaisedFails, Return
<1>3. ASSUME NEW j \in Jobs, \/ Create(j) \/ Heartbeat(j)
                             \/ ProgressLost(j) \/ BeatLost(j) \/ BeatReadFails(j)
      PROVE  Busy' \subseteq Busy
  BY <1>3 DEF Busy, threads, Create, CreateRecord, NameLatest, Submit, CreateFails, Heartbeat,
              BeatRead, BeatWrite, BeatWriteFails, BeatStop, ProgressLost, BeatLost, BeatReadFails
<1>4. CASE Crash \/ UNCHANGED vars
  BY <1>4, BusyShrinks DEF Crash, vars, Busy
<1> QED BY <1>1, <1>2, <1>3, <1>4, BusyShrinks DEF Next

LEMMA PoolInvariant == Spec => []PoolBound
<1>1. Init => PoolBound
  <2> SUFFICES ASSUME Init PROVE PoolBound
    OBVIOUS
  <2>1. Busy = {}
    BY DEF Init, Busy
  <2> QED BY <2>1, FS_EmptySet, ConcurrencyAssumption DEF PoolBound
<1> QED BY <1>1, PoolStep, Typing, PTL DEF Spec

\* However jobs are submitted and whatever fails, no more of them are run at a
\* time than the pool has threads.
THEOREM PoolTheorem == Spec => [](Cardinality(Busy) <= Concurrency)
<1>1. PoolBound => Cardinality(Busy) <= Concurrency
  BY DEF PoolBound
<1> QED BY <1>1, PoolInvariant, PTL

\* The records that say "running" belong to busy threads.
LEMMA RunningAreBusy ==
  ASSUME TypeOK, Flow, PoolBound, ActiveIsOwned
  PROVE  RunningWithinPool
<1> DEFINE R == {j \in Jobs : status[j] = "running"}
<1>1. R \subseteq Busy
  <2> SUFFICES ASSUME NEW j \in Jobs, status[j] = "running" PROVE j \in Busy
    OBVIOUS
  <2>1. request[j] = "none"
    BY DEF Flow, JobFlow
  <2>2. j \notin Queued
    BY DEF Queued, Flow, QueueFlow
  <2> QED BY <2>1, <2>2 DEF ActiveIsOwned, Active, InRunJob, Busy
<1>2. /\ IsFiniteSet(R) /\ Cardinality(R) <= Cardinality(Busy)
  BY <1>1, FS_Subset DEF PoolBound
<1>3. Cardinality(R) \in Nat /\ Cardinality(Busy) \in Nat
  BY <1>2, FS_CardinalityType DEF PoolBound
<1> QED BY <1>2, <1>3, ConcurrencyAssumption DEF PoolBound, RunningWithinPool

\* Until a write fails or the Manager dies, no more records say "running" than
\* the pool has threads.
THEOREM RunningTheorem == Spec => [](writeFaults = 0 /\ crashes = 0 => RunningWithinPool)
<1>1. TypeOK /\ Flow /\ PoolBound /\ OwnedSoFar
        => (writeFaults = 0 /\ crashes = 0 => RunningWithinPool)
  BY RunningAreBusy DEF OwnedSoFar
<1>2. Spec => []OwnedSoFar
  BY OwnedTheorem DEF OwnedSoFar
<1> QED BY <1>1, <1>2, PoolInvariant, FlowInvariant, PTL

\* How far the record and the outcome of a job agree before it is closed.
ReportedSoFar ==
  writeFaults = 0 /\ readFaults = 0 =>
    /\ ClosedIsReported
    /\ \A j \in Jobs : worker[j] = "raised" => outcome[j] = "bad"

LEMMA ReportedStep == TypeOK /\ Flow /\ Intact /\ ReportedSoFar /\ [Next]_vars => ReportedSoFar'
<1> SUFFICES ASSUME TypeOK, Flow, Intact, ReportedSoFar, [Next]_vars,
                    writeFaults' = 0, readFaults' = 0,
                    NEW k \in Jobs
             PROVE  /\ worker'[k] \in {"returning", "done"} =>
                         status'[k] = IF outcome'[k] = "ok" THEN "succeeded" ELSE "failed"
                    /\ worker'[k] = "raised" => outcome'[k] = "bad"
  BY DEF ReportedSoFar, ClosedIsReported
<1>0. /\ \A j \in Jobs : /\ ~CreateFails(j) /\ ~Trip(j) /\ ~CloseRaisedFails(j) /\ ~BeatWriteFails(j)
                         /\ ~ProgressLost(j) /\ ~BeatLost(j) /\ ~BeatReadFails(j)
      /\ worker[k] \in {"returning", "done"} =>
           status[k] = IF outcome[k] = "ok" THEN "succeeded" ELSE "failed"
      /\ worker[k] = "raised" => outcome[k] = "bad"
  BY FailuresCounted, ReadCounted, ReadsStay DEF ReportedSoFar, ClosedIsReported
<1> USE DEF TypeOK, Active, GoTo, disk, threads
<1>1. ASSUME NEW j \in Jobs, Create(j) \/ Heartbeat(j)
      PROVE  /\ worker'[k] \in {"returning", "done"} =>
                  status'[k] = IF outcome'[k] = "ok" THEN "succeeded" ELSE "failed"
             /\ worker'[k] = "raised" => outcome'[k] = "bad"
  BY <1>0, <1>1 DEF Create, CreateRecord, NameLatest, Submit, Heartbeat, BeatRead, BeatWrite, BeatStop
<1>2. ASSUME NEW j \in Jobs, RunJob(j)
      PROVE  /\ worker'[k] \in {"returning", "done"} =>
                  status'[k] = IF outcome'[k] = "ok" THEN "succeeded" ELSE "failed"
             /\ worker'[k] = "raised" => outcome'[k] = "bad"
  <2>1. CASE MarkRunning(j) \/ LaunchHeartbeat(j)
    BY <1>0, <2>1 DEF MarkRunning, LaunchHeartbeat
  <2>2. CASE Operate(j)
    BY <1>0, <2>2 DEF Operate
  <2>3. CASE OperationRaises(j)
    BY <1>0, <2>3 DEF OperationRaises
  <2>4. CASE Close(j)
    BY <1>0, <2>4 DEF Close
  <2>5. CASE CloseRaised(j)
    <3>1. outcome[j] = "bad"
      BY <2>5, FailuresCounted, ReadsStay DEF CloseRaised, ReportedSoFar
    <3> QED BY <1>0, <2>5, <3>1 DEF CloseRaised
  <2>6. CASE Return(j)
    BY <1>0, <2>6 DEF Return
  <2> QED BY <1>0, <1>2, <2>1, <2>2, <2>3, <2>4, <2>5, <2>6 DEF RunJob
<1>3. CASE Take
  <2>1. Head(queue) \in Jobs
    BY <1>3, QueueTake DEF Take
  <2> QED BY <1>0, <1>3, <2>1 DEF Take
<1>4. CASE Crash
  BY <1>4 DEF Crash
<1>5. CASE UNCHANGED vars
  BY <1>0, <1>5 DEF vars
<1> QED BY <1>0, <1>1, <1>2, <1>3, <1>4, <1>5 DEF Next

\* Until a write or a read fails, a job that _run_job has closed is recorded with
\* the outcome of its operation, although its heartbeat still writes the file
\* and the Manager may die at any point.
THEOREM ReportedTheorem == Spec => [](writeFaults = 0 /\ readFaults = 0 => ClosedIsReported)
<1>1. Init => ReportedSoFar
  BY DEF Init, ReportedSoFar, ClosedIsReported
<1>2. ReportedSoFar => (writeFaults = 0 /\ readFaults = 0 => ClosedIsReported)
  BY DEF ReportedSoFar
<1> QED BY <1>1, <1>2, ReportedStep, IntactInvariant, FlowInvariant, PTL DEF Spec

\* As long as nothing has failed, the files agree with the threads: open records
\* are owned, closed ones tell the outcome, the pool's size is kept and the
\* latest job has a record.
THEOREM RecordsTheorem ==
  Spec => [](writeFaults = 0 /\ readFaults = 0 /\ crashes = 0 => RecordsAgree)
<1>1. /\ (writeFaults = 0 /\ crashes = 0 => ActiveIsOwned)
      /\ (writeFaults = 0 /\ crashes = 0 => RunningWithinPool)
      /\ (writeFaults = 0 /\ readFaults = 0 => ClosedIsReported)
      /\ LatestIsRecorded
      => (writeFaults = 0 /\ readFaults = 0 /\ crashes = 0 => RecordsAgree)
  BY DEF RecordsAgree
<1> QED BY <1>1, OwnedTheorem, RunningTheorem, ReportedTheorem, LatestTheorem, PTL
=============================================================================
