---------------------------- MODULE GoLive_proofs ----------------------------
(***************************************************************************)
(* What holds of GO LIVE for any number of runs, attempts, faults of the   *)
(* Agent and requests of an operator.                                      *)
(***************************************************************************)
EXTENDS GoLive, TLAPS

\* The places of the queue, and those that hold a copy of a run which can change
\* something: a late status only reads.
Places == 1..Len(queue)
Ours == {i \in Places : queue[i].run # 0 /\ queue[i].step # "status"}

\* While a run is past the preparation of the Agent, the Agent has no such copies
\* but those of its step, in the order they were sent; and none once the job knows
\* the answer, because it is the answer to the last of them.
Asking ==
  /\ job = Idle \/ (job.run # 0 /\ job.step # "idle")
  /\ job.step \in Local \union {"idle"} => job.try = 0
  /\ job.try = 0 => job.answer = "none"
  /\ job.answer = "empty" => job.step = "status"
  /\ \A i, k \in Ours : queue[i].run = queue[k].run /\ queue[i].step = queue[k].step
  /\ job.step = "agent" => \A i \in Ours : queue[i].run # job.run
  /\ job.step \notin {"idle", "agent"} =>
       /\ \A i \in Places : queue[i].run \in {0, job.run}
       /\ \A i \in Ours : /\ queue[i].run = job.run /\ queue[i].step = job.step
                          /\ queue[i].try <= job.try /\ queue[i].fresh = job.fresh
       /\ \A i, k \in Ours : i < k => queue[i].try < queue[k].try
       /\ job.try = 0 \/ job.answer # "none" => Ours = {}

\* A run that has not begun left no trace; one that has ended does not come back.
Started ==
  /\ job.run # 0 => result[job.run] = "running"
  /\ \A i \in Ours : result[queue[i].run] # "none"
  /\ \A r \in Run : result[r] = "none" => r \notin shown /\ \A a \in altered : a[1] # r

\* The steps up to the one that changes the database.
Early == {"agent", "status", "backup", "import", "instance", "network", "check"}
Late == {"import", "instance", "network", "check", "start", "universes", "health", "https"}

\* What the run knows of the instance when it migrates its database.
Careful ==
  /\ ExistingIsSpared
  /\ job.step \in Early => \A a \in altered : a[1] # job.run
  /\ job.step \in {"agent", "status"} => ~job.fresh /\ job.run \notin shown
  /\ job.step = "backup" /\ job.answer # "none" /\ job.answer # "failed" => job.run \in saved
  /\ job.step \notin {"idle", "agent", "status"} /\ job.fresh => job.run \notin shown
  /\ job.step \in Late /\ ~job.fresh => job.run \in saved
  /\ \A i \in Ours : queue[i].step = "start" /\ queue[i].run \in shown =>
                      queue[i].run \in saved /\ ~queue[i].fresh

\* What the run has made of the instance.
Deployed ==
  /\ \/ job.step \in {"network", "check", "start", "universes", "health", "https"}
     \/ job.step = "instance" /\ job.answer = "ok"
     => file # None /\ file.capsule = job.run
  /\ \A i \in Ours : queue[i].step = "network" => file # None
  /\ \/ job.step \in {"check", "start", "universes", "health", "https"}
     \/ job.step = "network" /\ job.answer = "ok"
     => file.public
  /\ \/ job.step \in {"universes", "health", "https"}
     \/ job.step = "start" /\ job.answer = "ok"
     => meddled \/ stack = [up |-> "all", of |-> file]

Sound == TypeOK /\ Asking /\ Started /\ Careful /\ Deployed

-----------------------------------------------------------------------------
(* Facts about the steps and the queue.                                    *)

LEMMA StepFact ==
  /\ Steps = {"agent", "status", "backup", "import", "instance", "network", "check", "start",
              "universes", "health", "https"}
  /\ \A step \in DOMAIN Follows : Follows[step] \in Steps \ {"agent"}
  /\ DOMAIN Follows = Steps \ {"https"}
<1>1. DOMAIN Follows = {"agent", "status", "backup", "import", "instance", "network", "check", "start",
                        "universes", "health"}
  BY DEF Follows
<1>2. \A step \in DOMAIN Follows :
        Follows[step] \in {"status", "backup", "import", "instance", "network", "check", "start",
                          "universes", "health", "https"}
  BY DEF Follows
<1> QED BY <1>1, <1>2 DEF Steps

LEMMA CopyFact ==
  ASSUME NEW c \in Copy
  PROVE  /\ c.run \in 0..Runs /\ c.fresh \in BOOLEAN
         /\ c.run # 0 => c.run \in Run /\ c.step \in Steps \ Local /\ c.try \in 1..Attempts
         /\ c.run = 0 => c.step \in {"stop", "start"}
<1>1. CASE c \in [run : Run, step : Steps \ Local, try : 1..Attempts, fresh : BOOLEAN]
  <2>1. c.run \in Run /\ c.step \in Steps \ Local /\ c.try \in 1..Attempts /\ c.fresh \in BOOLEAN
    BY <1>1
  <2>2. c.run \in 0..Runs /\ c.run # 0
    BY <2>1, BoundAssumption DEF Run
  <2> QED BY <2>1, <2>2
<1>2. CASE c \in [run : {0}, step : {"stop", "start"}, try : {0}, fresh : {FALSE}]
  <2>1. c.run = 0 /\ c.step \in {"stop", "start"} /\ c.fresh = FALSE
    BY <1>2
  <2>2. 0 \in 0..Runs
    BY BoundAssumption
  <2> QED BY <2>1, <2>2
<1> QED BY <1>1, <1>2 DEF Copy

LEMMA HeadFact ==
  ASSUME TypeOK, queue # << >>
  PROVE  /\ Head(queue) = queue[1] /\ 1 \in Places /\ Head(queue) \in Copy
         /\ Tail(queue) \in Seq(Copy) /\ Len(Tail(queue)) = Len(queue) - 1
         /\ \A i \in 1..Len(Tail(queue)) : i + 1 \in Places /\ Tail(queue)[i] = queue[i + 1]
BY DEF TypeOK, Places

LEMMA PlaceFact ==
  ASSUME TypeOK PROVE \A i \in Places : queue[i] \in Copy
BY DEF TypeOK, Places

\* A copy that is served is no longer there, and the others are still there.
LEMMA TailFact ==
  ASSUME TypeOK, queue # << >>, queue' = Tail(queue)
  PROVE  \A i \in Ours' : i + 1 \in Ours /\ queue'[i] = queue[i + 1]
BY HeadFact DEF Ours, Places

\* A copy that is sent is the last one.
LEMMA AppendFact ==
  ASSUME TypeOK, NEW c \in Copy, queue' = Append(queue, c)
  PROVE  /\ queue' \in Seq(Copy)
         /\ \A i \in Places' : (i \in Places /\ queue'[i] = queue[i]) \/ queue'[i] = c
         /\ \A i \in Ours' :
              \/ i \in Ours /\ queue'[i] = queue[i] /\ i < Len(queue')
              \/ i = Len(queue') /\ queue'[i] = c /\ c.run # 0 /\ c.step # "status"
<1>1. queue \in Seq(Copy) /\ queue' \in Seq(Copy) /\ Len(queue') = Len(queue) + 1
  BY DEF TypeOK
<1>2. \A i \in Places : queue'[i] = queue[i]
  BY <1>1 DEF Places
<1>3. queue'[Len(queue')] = c
  BY <1>1
<1>4. \A i \in Places' : (i \in Places /\ i < Len(queue')) \/ i = Len(queue')
  BY <1>1 DEF Places
<1>5. ASSUME NEW i \in Ours'
      PROVE  \/ i \in Ours /\ queue'[i] = queue[i] /\ i < Len(queue')
             \/ i = Len(queue') /\ queue'[i] = c /\ c.run # 0 /\ c.step # "status"
  <2>1. i \in Places' /\ queue'[i].run # 0 /\ queue'[i].step # "status"
    BY <1>5 DEF Ours
  <2>2. CASE i \in Places /\ i < Len(queue')
    BY <1>2, <2>1, <2>2 DEF Ours
  <2>3. CASE i = Len(queue')
    BY <1>3, <2>1, <2>3
  <2> QED BY <1>4, <2>1, <2>2, <2>3
<1>6. \A i \in Places' : (i \in Places /\ queue'[i] = queue[i]) \/ queue'[i] = c
  BY <1>2, <1>3, <1>4
<1> QED BY <1>1, <1>5, <1>6

\* What an action that was cut off can have done.
LEMMA HalfwayFact ==
  ASSUME TypeOK, NEW c \in Copy, c.step = "network" => file # None,
         Halfway(c)
  PROVE  /\ file' \in Release \union {None}
         /\ stack' \in [up : {"none", "infra", "all"}, of : Release \union {None}]
         /\ db' \in 0..Runs \union {None}
         /\ altered' \in {altered, Migrated(c.run, c.fresh)}
         /\ c.step # "start" => altered' = altered
         /\ c.step \notin {"start", "stop"} => stack' = stack
         /\ c.step \notin {"instance", "network"} => file' = file
         /\ file # None => file' # None
         /\ c.step = "network" =>
              file' = file \/ (file'.capsule = file.capsule /\ file'.public = TRUE)
<1>1. /\ file \in Release \union {None} /\ db \in 0..Runs \union {None}
      /\ stack \in [up : {"none", "infra", "all"}, of : Release \union {None}]
      /\ c.run \in 0..Runs /\ c.fresh \in BOOLEAN
  BY CopyFact DEF TypeOK
<1>2. file # None => file \in Release /\ [file EXCEPT !.public = TRUE] \in Release
  BY <1>1 DEF Release
<1>3. CASE UNCHANGED <<file, stack, db, altered>>
  BY <1>1, <1>3
<1>4. stack' \in Leftover => stack' \in [up : {"none", "infra", "all"}, of : Release \union {None}]
  BY <1>1 DEF Leftover, NoStack
<1>5. CASE /\ c.step = "start" /\ file # None
           /\ stack' \in {NoStack} \union [up : {"infra", "all"}, of : {file}]
           /\ db' = IF db = None THEN c.run ELSE db
           /\ altered' = Migrated(c.run, c.fresh)
           /\ file' = file
  BY <1>1, <1>5 DEF NoStack
<1>6. CASE /\ c.step \in {"start", "stop"}
           /\ stack' \in Leftover
           /\ UNCHANGED <<file, db, altered>>
  BY <1>1, <1>4, <1>6
<1>7. CASE /\ c.step = "instance"
           /\ file' = [capsule |-> c.run, public |-> c.fresh]
           /\ UNCHANGED <<stack, db, altered>>
  <2>1. file' \in Release /\ file' # None
    BY <1>1, <1>7, NoneAssumption DEF Release
  <2> QED BY <1>1, <1>7, <2>1
<1>8. CASE /\ c.step = "network"
           /\ file' = [file EXCEPT !.public = TRUE]
           /\ UNCHANGED <<stack, db, altered>>
  <2>1. file \in Release /\ file' \in Release
    BY <1>2, <1>8
  <2>2. file'.capsule = file.capsule /\ file'.public = TRUE
    BY <1>8, <2>1 DEF Release
  <2> QED BY <1>1, <1>8, <2>1, <2>2, NoneAssumption
<1> QED
  BY <1>3, <1>5, <1>6, <1>7, <1>8 DEF Halfway

-----------------------------------------------------------------------------
(* Types.                                                                  *)

JobType == [run : 0..Runs, step : Steps \union {"idle"}, try : 0..Attempts,
            fresh : BOOLEAN, answer : {"none", "ok", "empty", "failed"}]

LEMMA IdleFact == Idle \in JobType /\ Idle.run = 0 /\ Idle.step = "idle" /\ Idle.try = 0 /\ Idle.answer = "none"
BY BoundAssumption DEF Idle, JobType

LEMMA Initial == Init => Sound
<1> SUFFICES ASSUME Init PROVE Sound
  OBVIOUS
<1>1. job = Idle /\ queue = << >> /\ altered = {} /\ shown = {}
  BY DEF Init
<1>2. Ours = {} /\ Places = {}
  BY <1>1 DEF Ours, Places
<1>3. PICK old \in {None, [capsule |-> 0, public |-> TRUE]} :
        /\ file = old
        /\ db = IF old = None THEN None ELSE 0
        /\ stack \in {NoStack} \union (IF old = None THEN {} ELSE {[up |-> "all", of |-> old]})
  BY DEF Init
<1>4. file \in Release \union {None} /\ db \in 0..Runs \union {None}
      /\ stack \in [up : {"none", "infra", "all"}, of : Release \union {None}]
  <2>1. 0 \in 0..Runs
    BY BoundAssumption
  <2>2. old \in Release \union {None}
    <3>1. [capsule |-> 0, public |-> TRUE] \in Release
      BY <2>1 DEF Release
    <3> QED BY <1>3, <3>1
  <2>4. [up |-> "all", of |-> old] \in [up : {"none", "infra", "all"}, of : Release \union {None}]
    BY <2>2
  <2>3. NoStack \in [up : {"none", "infra", "all"}, of : Release \union {None}]
    BY DEF NoStack
  <2> QED BY <1>3, <2>1, <2>2, <2>3, <2>4
<1>5. TypeOK
  <2>1. queue \in Seq(Copy)
    BY <1>1
  <2>2. result \in [Run -> {"none", "running", "success", "failed"}]
    BY DEF Init
  <2>3. /\ store \subseteq Run /\ saved \subseteq Run /\ shown \subseteq Run
        /\ altered \subseteq Run \X BOOLEAN /\ meddled \in BOOLEAN /\ script \in BOOLEAN
    BY DEF Init
  <2>4. faults \in 0..Faults /\ others \in 0..Others
    BY BoundAssumption DEF Init
  <2> QED BY <1>1, <1>4, <2>1, <2>2, <2>3, <2>4, IdleFact DEF TypeOK, JobType
<1> QED
  BY <1>1, <1>2, <1>5, IdleFact
     DEF Sound, Asking, Started, Careful, Deployed, ExistingIsSpared, ExistingIsSaved, ExistingIsNotRepaired,
         Early, Late

\* Where the job is, and the fields of its record.
LEMMA JobFact ==
  ASSUME TypeOK
  PROVE  /\ job \in JobType
         /\ \A step \in Steps \union {"idle"} : [job EXCEPT !.step = step] \in JobType
BY DEF TypeOK, JobType

LEMMA OnwardFact ==
  ASSUME Sound, Onward, job.step \in Steps \ {"https"}
  PROVE  /\ job' \in JobType /\ job'.run = job.run /\ job'.try = 0 /\ job'.answer = "none"
         /\ job'.step = After /\ After \in Steps \ {"agent"} /\ result' = result
         /\ job'.fresh = IF job.step = "status" THEN job.fresh \/ job.answer = "empty" ELSE job.fresh
<1>1. job \in JobType
  BY JobFact DEF Sound
<1>2. After \in Steps \ {"agent"}
  BY StepFact DEF After
<1>3. (job.fresh \/ job.answer = "empty") \in BOOLEAN
  OBVIOUS
<1>4. job' = [job EXCEPT !.step = After, !.try = 0, !.answer = "none",
                         !.fresh = IF At("status") THEN @ \/ job.answer = "empty" ELSE @]
  BY DEF Onward, Classify
<1>5. job'.fresh = IF job.step = "status" THEN job.fresh \/ job.answer = "empty" ELSE job.fresh
  BY <1>1, <1>4, Zenon DEF At, JobType
<1>6. job'.run = job.run /\ job'.step = After /\ job'.try = 0 /\ job'.answer = "none"
  BY <1>1, <1>4 DEF JobType
<1>7. job' \in JobType
  <2>1. (IF At("status") THEN job.fresh \/ job.answer = "empty" ELSE job.fresh) \in BOOLEAN
    BY <1>1, <1>3 DEF JobType
  <2>2. 0 \in 0..Attempts
    BY BoundAssumption
  <2> QED BY <1>1, <1>2, <1>4, <2>1, <2>2 DEF JobType
<1> QED BY <1>2, <1>5, <1>6, <1>7 DEF Onward
-----------------------------------------------------------------------------
(* A step of the Agent.                                                    *)

\* What an action answered with a, in full or cut off, can have done for copy c.
Effect(c, a) ==
  /\ a \in {"ok", "empty", "failed"}
  /\ a = "empty" => c.step = "status"
  /\ store' \subseteq Run /\ db' \in 0..Runs \union {None} /\ faults' \in 0..Faults
  /\ saved' \subseteq Run /\ saved \subseteq saved'
  /\ c.step = "backup" /\ a = "ok" => c.run \in saved'
  /\ shown' = shown
  /\ altered' \in {altered, Migrated(c.run, c.fresh)}
  /\ c.step # "start" => altered' = altered
  /\ meddled' \in {meddled, TRUE}
  /\ file' \in Release \union {None}
  /\ file # None => file' # None
  /\ c.step \notin {"instance", "network"} => file' = file
  /\ c.step = "instance" /\ a = "ok" => file' = [capsule |-> c.run, public |-> c.fresh]
  /\ c.step = "network" => file' = file \/ (file'.capsule = file.capsule /\ file'.public = TRUE)
  /\ c.step = "network" /\ a = "ok" => file'.public = TRUE
  /\ stack' \in [up : {"none", "infra", "all"}, of : Release \union {None}]
  /\ meddled' \/ stack' = stack \/ (c.step = "start" /\ c.run # 0)
  /\ c.step = "start" /\ a = "ok" => stack' = [up |-> "all", of |-> file]

\* A migration is remembered for the run of the start, with what it asked for.
LEMMA AlteredFact ==
  ASSUME TypeOK, NEW c \in Copy, altered' \in {altered, Migrated(c.run, c.fresh)},
         c.step # "start" => altered' = altered
  PROVE  /\ altered' \subseteq Run \X BOOLEAN
         /\ \A a \in altered' : a \in altered \/ (a[1] = c.run /\ a[2] = c.fresh /\ c.run \in Run /\ c.step = "start")
<1>1. altered \subseteq Run \X BOOLEAN
  BY DEF TypeOK
<1>2. c.run # 0 => <<c.run, c.fresh>> \in Run \X BOOLEAN
  BY CopyFact
<1> QED BY <1>1, <1>2, CopyFact DEF Migrated

\* The answer reaches a job that waits for this copy, and it is the last one.
LEMMA ReplyFact ==
  ASSUME Sound, queue # << >>, NEW a \in {"ok", "empty", "failed"}, Reply(a),
         a = "empty" => Head(queue).step = "status"
  PROVE  /\ job' \in JobType /\ queue' \in Seq(Copy) /\ result' = result /\ others' = others
         /\ script' = script
         /\ \A i \in Ours' : i + 1 \in Ours /\ queue'[i] = queue[i + 1]
         /\ \/ job' = job
            \/ /\ job' = [job EXCEPT !.answer = a] /\ job.run = Head(queue).run
               /\ job.step = Head(queue).step /\ job.run # 0 /\ job.try # 0 /\ Ours' = {}
<1> DEFINE c == Head(queue)
<1>1. TypeOK /\ Asking
  BY DEF Sound
<1>2. queue' = Tail(queue) /\ result' = result /\ others' = others /\ script' = script
      /\ job' = IF job.run = c.run /\ job.step = c.step /\ job.try = c.try /\ job.answer = "none"
                THEN [job EXCEPT !.answer = a] ELSE job
  BY DEF Reply
<1>3. \A i \in Ours' : i + 1 \in Ours /\ queue'[i] = queue[i + 1]
  BY <1>1, <1>2, TailFact
<1>4. c \in Copy /\ queue' \in Seq(Copy) /\ c = queue[1] /\ 1 \in Places
  BY <1>1, <1>2, HeadFact
<1>5. CASE job.run = c.run /\ job.step = c.step /\ job.try = c.try /\ job.answer = "none"
  <2>1. job' = [job EXCEPT !.answer = a] /\ job' \in JobType
    BY <1>1, <1>2, <1>5, JobFact DEF JobType
  <2>2. job.run # 0
    <3>1. SUFFICES ASSUME job.run = 0 PROVE FALSE
      OBVIOUS
    <3>2. job.step = "idle" /\ c.step \in {"stop", "start"}
      BY <1>1, <1>4, <1>5, <3>1, CopyFact, IdleFact DEF Asking
    <3> QED BY <1>5, <3>2
  <2>3. c.step \in Steps \ Local /\ job.try \in 1..Attempts /\ (c.step # "status" => 1 \in Ours)
    BY <1>4, <1>5, <2>2, CopyFact DEF Ours
  <2>4. job.step \notin {"idle", "agent"}
    BY <1>5, <2>3, StepFact DEF Local
  <2>5. \A i \in Ours : /\ c.step # "status"
                        /\ queue[i].try <= job.try /\ (1 < i => queue[1].try < queue[i].try)
    BY <1>1, <1>5, <2>3, <2>4 DEF Asking, Ours
  <2>6. Ours' = {}
    <3>1. SUFFICES ASSUME NEW i \in Ours' PROVE FALSE
      OBVIOUS
    <3>2. i \in Nat /\ i >= 1 /\ i + 1 \in Ours
      BY <1>3 DEF Ours, Places
    <3>3. queue[i + 1].try <= job.try /\ queue[1].try < queue[i + 1].try
      BY <2>5, <3>2
    <3>4. queue[i + 1] \in Copy /\ queue[i + 1].run # 0
      BY <1>1, <3>2, PlaceFact DEF Ours
    <3>5. queue[i + 1].try \in 1..Attempts
      BY <3>4, CopyFact
    <3> QED BY <1>4, <1>5, <2>3, <3>3, <3>5, BoundAssumption
  <2>7. job.try # 0
    BY <2>3
  <2> QED BY <1>2, <1>3, <1>4, <1>5, <2>1, <2>2, <2>6, <2>7
<1>6. CASE ~(job.run = c.run /\ job.step = c.step /\ job.try = c.try /\ job.answer = "none")
  BY <1>1, <1>2, <1>3, <1>4, <1>6, JobFact
<1> QED BY <1>5, <1>6

\* Fewer copies, and an answer only after the last: the discipline holds on.
LEMMA AskingServed ==
  ASSUME Sound, queue # << >>, NEW a \in {"ok", "empty", "failed"}, Reply(a),
         a = "empty" => Head(queue).step = "status"
  PROVE  Asking'
<1>1. /\ job' \in JobType
      /\ \A i \in Ours' : i + 1 \in Ours /\ queue'[i] = queue[i + 1]
      /\ \/ job' = job
         \/ /\ job' = [job EXCEPT !.answer = a] /\ job.run = Head(queue).run
            /\ job.step = Head(queue).step /\ job.run # 0 /\ job.try # 0 /\ Ours' = {}
  BY ReplyFact
<1>2. Asking /\ TypeOK
  BY DEF Sound
<1>3. \A i \in Ours' : i \in Nat
  BY DEF Ours, Places
<1>6. ASSUME job.step \notin {"idle", "agent"}
      PROVE  \A i \in Places' : queue'[i].run \in {0, job.run}
  <2>1. \A i \in Places' : i + 1 \in Places /\ queue'[i] = queue[i + 1]
    BY <1>2, HeadFact DEF Reply, Places
  <2>2. \A i \in Places : queue[i].run \in {0, job.run}
    BY <1>2, <1>6 DEF Asking
  <2> QED BY <2>1, <2>2
<1>4. CASE job' = job
  <2>1. \A i, k \in Ours' : queue'[i].run = queue'[k].run /\ queue'[i].step = queue'[k].step
    BY <1>1, <1>2 DEF Asking
  <2>2. job'.step = "agent" => \A i \in Ours' : queue'[i].run # job'.run
    BY <1>1, <1>2, <1>4 DEF Asking
  <2>3. ASSUME job'.step \notin {"idle", "agent"}
        PROVE  /\ \A i \in Places' : queue'[i].run \in {0, job'.run}
               /\ \A i \in Ours' : /\ queue'[i].run = job'.run /\ queue'[i].step = job'.step
                                    /\ queue'[i].try <= job'.try /\ queue'[i].fresh = job'.fresh
               /\ \A i, k \in Ours' : i < k => queue'[i].try < queue'[k].try
               /\ job'.try = 0 \/ job'.answer # "none" => Ours' = {}
    <3>1. /\ \A i \in Ours : /\ queue[i].run = job.run /\ queue[i].step = job.step
                              /\ queue[i].try <= job.try /\ queue[i].fresh = job.fresh
          /\ \A i, k \in Ours : i < k => queue[i].try < queue[k].try
          /\ job.try = 0 \/ job.answer # "none" => Ours = {}
      BY <1>2, <1>4, <2>3 DEF Asking
    <3>2. \A i, k \in Ours' : i < k => i + 1 < k + 1
      BY <1>3
    <3>3. \A i \in Places' : queue'[i].run \in {0, job'.run}
      BY <1>4, <1>6, <2>3
    <3> QED BY <1>1, <1>4, <3>1, <3>2, <3>3
  <2> QED BY <1>2, <1>4, <2>1, <2>2, <2>3 DEF Asking
<1>5. CASE /\ job' = [job EXCEPT !.answer = a] /\ job.run = Head(queue).run
           /\ job.step = Head(queue).step /\ job.run # 0 /\ job.try # 0 /\ Ours' = {}
  <2>1. job'.run = job.run /\ job'.step = job.step /\ job'.try = job.try /\ job'.answer = a
    BY <1>2, <1>5, JobFact DEF JobType
  <2> QED BY <1>2, <1>5, <1>6, <2>1 DEF Asking
<1> QED BY <1>1, <1>4, <1>5
\* What the history and the instance owe each other survives what the Agent does
\* for a copy it holds.
LEMMA EffectFact ==
  ASSUME Sound, NEW c \in Copy, NEW a, Effect(c, a), result' = result,
         c.run # 0 /\ c.step # "status" => \E k \in Ours : queue[k] = c,
         \A i \in Ours' : \E k \in Ours : queue'[i] = queue[k],
         \/ job' = job
         \/ /\ job' = [job EXCEPT !.answer = a] /\ job.run = c.run
            /\ job.step = c.step /\ job.run # 0 /\ Ours' = {}
  PROVE  Started' /\ Careful' /\ Deployed'
<1>1. TypeOK /\ Asking /\ Started /\ Careful /\ Deployed
  BY DEF Sound
<1>2. /\ job \in JobType
      /\ job'.run = job.run /\ job'.step = job.step /\ job'.try = job.try /\ job'.fresh = job.fresh
      /\ job'.answer = job.answer \/ (job'.answer = a /\ c.run = job.run /\ c.step = job.step /\ c.run # 0)
  BY <1>1, JobFact DEF JobType
<1>3. /\ altered' \subseteq Run \X BOOLEAN
      /\ \A x \in altered' : x \in altered
                           \/ (x[1] = c.run /\ x[2] = c.fresh /\ c.run \in Run /\ c.step = "start")
  BY <1>1, AlteredFact DEF Effect
<1>4. c.run # 0 /\ c.step # "status" =>
                   /\ c.run \in Run /\ c.step \in Steps \ Local
                   /\ job.step \notin {"idle", "agent"} => c.run = job.run /\ c.step = job.step /\ c.fresh = job.fresh
                   /\ job.step = "agent" => c.run # job.run
                   /\ result[c.run] # "none"
                   /\ c.step = "start" /\ c.run \in shown => c.run \in saved /\ ~c.fresh
                   /\ c.step = "network" => file # None
  BY <1>1, CopyFact DEF Asking, Started, Careful, Deployed
<1>5. c.run = 0 => c.step \in {"stop", "start"}
  BY CopyFact
<1>6. c.run # 0 /\ c.step # "status" /\ job.step \notin {"idle", "agent"} /\ job.answer # "none" => FALSE
  BY <1>1 DEF Asking
<1>7. job.step = "idle" \/ job.run # 0
  BY <1>1, IdleFact DEF Asking
<1>8. Started'
  <2>1. job'.run # 0 => result'[job'.run] = "running"
    BY <1>1, <1>2 DEF Started
  <2>2. \A i \in Ours' : result'[queue'[i].run] # "none"
    BY <1>1 DEF Started
  <2>3. ASSUME NEW r \in Run, result'[r] = "none" PROVE r \notin shown' /\ \A x \in altered' : x[1] # r
    BY <1>1, <1>3, <1>4, <1>5, <2>3, BoundAssumption DEF Started, Run, Effect
  <2> QED BY <2>1, <2>2, <2>3 DEF Started
<1>9. Careful'
  <2>1. ExistingIsSpared'
    <3>1. ASSUME NEW x \in altered', x[1] \in shown' PROVE x[1] \in saved' /\ x[2] = FALSE
      <4>1. CASE x \in altered
        <5>1. x[1] \in shown
          BY <3>1 DEF Effect
        <5> QED BY <1>1, <4>1, <5>1 DEF Careful, ExistingIsSpared, ExistingIsSaved, ExistingIsNotRepaired, Effect
      <4>2. CASE x[1] = c.run /\ x[2] = c.fresh /\ c.run \in Run /\ c.step = "start"
        <5>1. c.run # 0 /\ shown' = shown
          BY <4>2, BoundAssumption DEF Run, Effect
        <5>2. c.run \in saved /\ ~c.fresh
          BY <1>4, <3>1, <4>2, <5>1
        <5>3. c.fresh \in BOOLEAN
          BY CopyFact
        <5> QED BY <4>2, <5>2, <5>3 DEF Effect
      <4> QED BY <1>3, <3>1, <4>1, <4>2
    <3> QED BY <3>1 DEF ExistingIsSpared, ExistingIsSaved, ExistingIsNotRepaired
  <2>2. job'.step \in Early => \A x \in altered' : x[1] # job'.run
    BY <1>1, <1>2, <1>3, <1>4, BoundAssumption DEF Careful, Early, Run
  <2>3. job'.step \in {"agent", "status"} => ~job'.fresh /\ job'.run \notin shown'
    BY <1>1, <1>2 DEF Careful, Effect
  <2>5. job'.step = "backup" /\ job'.answer # "none" /\ job'.answer # "failed" => job'.run \in saved'
    BY <1>1, <1>2 DEF Careful, Effect
  <2>6. job'.step \notin {"idle", "agent", "status"} /\ job'.fresh => job'.run \notin shown'
    BY <1>1, <1>2 DEF Careful, Effect
  <2>7. job'.step \in Late /\ ~job'.fresh => job'.run \in saved'
    BY <1>1, <1>2 DEF Careful, Effect
  <2>8. \A i \in Ours' : queue'[i].step = "start" /\ queue'[i].run \in shown' =>
                         queue'[i].run \in saved' /\ ~queue'[i].fresh
    BY <1>1 DEF Careful, Effect
  <2> QED BY <2>1, <2>2, <2>3, <2>5, <2>6, <2>7, <2>8 DEF Careful
<1>10. Deployed'
  <2>1. \/ job'.step \in {"network", "check", "start", "universes", "health", "https"}
        \/ job'.step = "instance" /\ job'.answer = "ok"
        => file' # None /\ file'.capsule = job'.run
    <3>1. CASE job.step \in {"network", "check", "start", "universes", "health", "https"}
      <4>1. file # None /\ file.capsule = job.run
        BY <1>1, <3>1 DEF Deployed
      <4>2. c.step # "instance"
        BY <1>4, <1>5, <3>1
      <4>3. file' # None /\ file'.capsule = file.capsule
        BY <4>1, <4>2 DEF Effect
      <4> QED BY <1>2, <4>1, <4>3
    <3>2. CASE job.step = "instance" /\ job.answer = "ok"
      <4>1. file # None /\ file.capsule = job.run
        BY <1>1, <3>2 DEF Deployed
      <4>2. c.step \notin {"instance", "network"}
        BY <1>5, <1>6, <3>2
      <4> QED BY <1>2, <4>1, <4>2 DEF Effect
    <3>3. CASE job.step = "instance" /\ a = "ok" /\ c.run = job.run /\ c.step = "instance"
      <4>1. file' = [capsule |-> c.run, public |-> c.fresh] /\ c.run \in 0..Runs /\ c.fresh \in BOOLEAN
        BY <3>3, CopyFact DEF Effect
      <4>2. file' \in Release
        BY <4>1 DEF Release
      <4> QED BY <1>2, <3>3, <4>1, <4>2, NoneAssumption
    <3> QED BY <1>2, <3>1, <3>2, <3>3
  <2>2. \A i \in Ours' : queue'[i].step = "network" => file' # None
    BY <1>1 DEF Deployed, Effect
  <2>3. \/ job'.step \in {"check", "start", "universes", "health", "https"}
        \/ job'.step = "network" /\ job'.answer = "ok"
        => file'.public
    BY <1>1, <1>2, <1>4, <1>5, <1>6 DEF Deployed, Effect
  <2>4. \/ job'.step \in {"universes", "health", "https"}
        \/ job'.step = "start" /\ job'.answer = "ok"
        => meddled' \/ stack' = [up |-> "all", of |-> file']
    <3>1. CASE job.step \in {"universes", "health", "https"}
      <4>1. c.step \notin {"instance", "network"} /\ (c.step = "start" => c.run = 0)
        BY <1>4, <1>5, <3>1
      <4> QED BY <1>1, <3>1, <4>1 DEF Deployed, Effect, TypeOK
    <3>2. CASE job.step = "start" /\ job.answer = "ok"
      <4>1. (c.run = 0 \/ c.step = "status") /\ c.step \notin {"instance", "network"}
        BY <1>5, <1>6, <3>2
      <4> QED BY <1>1, <3>2, <4>1 DEF Deployed, Effect, TypeOK
    <3>3. CASE job.step = "start" /\ a = "ok" /\ c.run # 0 /\ c.step = "start" /\ ~(job.answer = "ok")
      <4> QED BY <3>3 DEF Effect
    <3> QED BY <1>2, <3>1, <3>2, <3>3
  <2> QED BY <2>1, <2>2, <2>3, <2>4 DEF Deployed
<1> QED BY <1>8, <1>9, <1>10
\* What each handler does is such an effect.
LEMMA ServeFact ==
  ASSUME Sound, Agent, ~AgentDies
  PROVE  \E a \in {"ok", "empty", "failed"} : Reply(a) /\ Effect(Head(queue), a)
<1> DEFINE c == Head(queue)
<1>1. TypeOK /\ Deployed
  BY DEF Sound
<1>2. queue # << >>
  BY DEF Agent, First, ServeStatus, ServeBackup, ServeImport, ServeInstance, ServeNetwork, ServeCheck,
         ServeStart, ServeStop, ServeHealth, ServeFails
<1>3. c \in Copy /\ c = queue[1] /\ 1 \in Places
  BY <1>1, <1>2, HeadFact
<1>4. /\ c.run \in 0..Runs /\ c.fresh \in BOOLEAN
      /\ c.step \notin {"stop", "start"} => c.run \in Run
      /\ c.run # 0 => c.run \in Run
  BY <1>3, CopyFact
<1>5. c.step = "network" => file # None
  BY <1>1, <1>3, <1>4, CopyFact, BoundAssumption DEF Deployed, Ours, Run
<1>6. file # None => file \in Release
  BY <1>1 DEF TypeOK
<1>7. CASE ServeStatus
  <2>1. PICK a \in {"ok", "empty"} : Reply(a)
    BY <1>7 DEF ServeStatus
  <2>2. Effect(c, a)
    BY <1>1, <1>4, <1>7, <2>1 DEF ServeStatus, First, Effect, TypeOK, instance, history
  <2> QED BY <2>1, <2>2
<1>8. CASE ServeBackup
  <2>1. PICK a \in {"ok", "failed"} : Reply(a) /\ (a = "ok" => saved' = saved \union {c.run})
    BY <1>8 DEF ServeBackup
  <2>2. Effect(c, a)
    BY <1>1, <1>4, <1>8, <2>1 DEF ServeBackup, First, Effect, TypeOK, instance
  <2> QED BY <2>1, <2>2
<1>9. CASE ServeImport
  <2>1. Effect(c, "ok")
    BY <1>1, <1>4, <1>9 DEF ServeImport, First, Effect, TypeOK, history
  <2> QED BY <1>9, <2>1 DEF ServeImport
<1>10. CASE ServeInstance
  <2>1. file' \in Release
    BY <1>4, <1>10 DEF ServeInstance, Release
  <2>2. Effect(c, "ok")
    BY <1>1, <1>4, <1>10, <2>1, NoneAssumption DEF ServeInstance, First, Effect, TypeOK, history
  <2> QED BY <1>10, <2>2 DEF ServeInstance
<1>11. CASE ServeNetwork
  <2>1. file \in Release /\ file' = [file EXCEPT !.public = TRUE]
    BY <1>5, <1>6, <1>11 DEF ServeNetwork, First
  <2>2. file' \in Release /\ file'.capsule = file.capsule /\ file'.public = TRUE
    BY <2>1 DEF Release
  <2>3. Effect(c, "ok")
    BY <1>1, <1>4, <1>11, <2>2, NoneAssumption DEF ServeNetwork, First, Effect, TypeOK, history
  <2> QED BY <1>11, <2>3 DEF ServeNetwork
<1>12. CASE ServeCheck
  <2>1. Effect(c, "ok")
    BY <1>1, <1>4, <1>12 DEF ServeCheck, First, Effect, TypeOK, history, instance
  <2> QED BY <1>12, <2>1 DEF ServeCheck
<1>13. CASE ServeStart
  <2>1. Effect(c, "ok")
    BY <1>1, <1>4, <1>13 DEF ServeStart, First, Effect, TypeOK
  <2> QED BY <1>13, <2>1 DEF ServeStart
<1>14. CASE ServeStop
  <2>1. Effect(c, "ok")
    BY <1>1, <1>4, <1>14 DEF ServeStop, First, Effect, TypeOK, NoStack
  <2> QED BY <1>14, <2>1 DEF ServeStop
<1>15. CASE ServeHealth
  <2>1. PICK a \in {"ok", "failed"} : Reply(a)
    BY <1>15 DEF ServeHealth
  <2>2. Effect(c, a)
    BY <1>1, <1>4, <1>15, <2>1 DEF ServeHealth, First, Effect, TypeOK, history, instance
  <2> QED BY <2>1, <2>2
<1>16. CASE ServeFails
  <2>1. PICK a \in {"failed", "empty"} : (a = "empty" => First("status")) /\ Reply(a)
    BY <1>16 DEF ServeFails
  <2>2. Halfway(c)
    BY <1>16 DEF ServeFails
  <2>3. Effect(c, a)
    <3>1. /\ file' \in Release \union {None}
          /\ stack' \in [up : {"none", "infra", "all"}, of : Release \union {None}]
          /\ db' \in 0..Runs \union {None}
          /\ altered' \in {altered, Migrated(c.run, c.fresh)}
          /\ c.step # "start" => altered' = altered
          /\ c.step \notin {"start", "stop"} => stack' = stack
          /\ c.step \notin {"instance", "network"} => file' = file
          /\ file # None => file' # None
          /\ c.step = "network" =>
               file' = file \/ (file'.capsule = file.capsule /\ file'.public = TRUE)
      BY <1>1, <1>3, <1>5, <2>2, HalfwayFact
    <3>2. /\ store' = store /\ saved' = saved /\ faults' \in 0..Faults
          /\ meddled' = (meddled \/ c.run = 0)
          /\ shown' = shown
      <4>1. store' = store /\ saved' = saved /\ meddled' = (meddled \/ c.run = 0)
        BY <1>16 DEF ServeFails
      <4>2. shown' = shown
        BY <1>16 DEF ServeFails
      <4>3. faults' = faults \/ (faults < Faults /\ faults' = faults + 1)
        BY <1>16 DEF ServeFails
      <4>4. faults' \in 0..Faults
        BY <1>1, <4>3, BoundAssumption DEF TypeOK
      <4> QED BY <4>1, <4>2, <4>4
    <3>3. a = "empty" => c.step = "status"
      BY <2>1 DEF First
    <3>4. meddled' \in {meddled, TRUE} /\ (c.run = 0 => meddled')
      <4>1. meddled \in BOOLEAN
        BY <1>1 DEF TypeOK
      <4>2. CASE c.run = 0
        BY <3>2, <4>2, Zenon
      <4>3. CASE c.run # 0
        BY <3>2, <4>1, <4>3, Zenon
      <4> QED BY <4>2, <4>3
    <3>5. c.step = "stop" => c.run = 0
      <4>1. "stop" \notin Steps
        BY StepFact
      <4>2. c.run # 0 => c.step \in Steps
        BY <1>3, CopyFact
      <4> QED BY <4>1, <4>2
    <3>6. meddled' \/ stack' = stack \/ (c.step = "start" /\ c.run # 0)
      BY <3>1, <3>4, <3>5
    <3>8. store' \subseteq Run /\ saved' \subseteq Run
      BY <1>1, <3>2 DEF TypeOK
    <3> QED BY <2>1, <3>1, <3>2, <3>3, <3>4, <3>6, <3>8 DEF Effect
  <2> QED BY <2>1, <2>3
<1> QED
  BY <1>7, <1>8, <1>9, <1>10, <1>11, <1>12, <1>13, <1>14, <1>15, <1>16 DEF Agent
LEMMA ServeStep ==
  ASSUME Sound, Agent, ~AgentDies PROVE Sound'
<1> DEFINE c == Head(queue)
<1>1. PICK a \in {"ok", "empty", "failed"} : Reply(a) /\ Effect(c, a)
  BY ServeFact
<1>2. queue # << >>
  BY DEF Agent, First, ServeStatus, ServeBackup, ServeImport, ServeInstance, ServeNetwork, ServeCheck,
         ServeStart, ServeStop, ServeHealth, ServeFails
<1>3. a = "empty" => c.step = "status"
  BY <1>1 DEF Effect
<1>4. /\ job' \in JobType /\ queue' \in Seq(Copy) /\ result' = result /\ others' = others
      /\ script' = script
      /\ \A i \in Ours' : i + 1 \in Ours /\ queue'[i] = queue[i + 1]
      /\ \/ job' = job
         \/ /\ job' = [job EXCEPT !.answer = a] /\ job.run = c.run
            /\ job.step = c.step /\ job.run # 0 /\ job.try # 0 /\ Ours' = {}
  BY <1>1, <1>2, <1>3, ReplyFact
<1>5. Asking'
  BY <1>1, <1>2, <1>3, AskingServed
<1>6. TypeOK
  BY DEF Sound
<1>7. c \in Copy /\ (c.run # 0 /\ c.step # "status" => 1 \in Ours /\ queue[1] = c)
  BY <1>2, <1>6, HeadFact DEF Ours
<1>8. Started' /\ Careful' /\ Deployed'
  BY <1>1, <1>4, <1>7, EffectFact
<1>9. altered' \subseteq Run \X BOOLEAN
  BY <1>1, <1>6, <1>7, AlteredFact DEF Effect
<1>10. TypeOK'
  BY <1>1, <1>4, <1>6, <1>9 DEF TypeOK, JobType, Effect
<1> QED BY <1>5, <1>8, <1>10 DEF Sound

\* The Agent dies, or is restarted by the next run: its copies are gone.
LEMMA CutFact ==
  ASSUME Sound, queue # << >>, queue' = << >>, job' = job, result' = result, others' = others,
         Halfway(Head(queue)), meddled' = (meddled \/ Head(queue).run = 0),
         faults' \in 0..Faults, UNCHANGED <<store, saved, shown, script>>
  PROVE  Sound'
<1> DEFINE c == Head(queue)
<1>1. TypeOK /\ Asking /\ Deployed
  BY DEF Sound
<1>2. c \in Copy /\ c = queue[1] /\ (c.run # 0 /\ c.step # "status" => 1 \in Ours /\ queue[1] = c)
  BY <1>1, HeadFact DEF Ours
<1>3. c.step = "network" => file # None
  <2>1. c.step = "network" => c.run # 0
    BY <1>2, CopyFact
  <2> QED BY <1>1, <1>2, <2>1 DEF Deployed
<1>4. /\ file' \in Release \union {None}
      /\ stack' \in [up : {"none", "infra", "all"}, of : Release \union {None}]
      /\ db' \in 0..Runs \union {None}
      /\ altered' \in {altered, Migrated(c.run, c.fresh)}
      /\ c.step # "start" => altered' = altered
      /\ c.step \notin {"start", "stop"} => stack' = stack
      /\ c.step \notin {"instance", "network"} => file' = file
      /\ file # None => file' # None
      /\ c.step = "network" =>
           file' = file \/ (file'.capsule = file.capsule /\ file'.public = TRUE)
  BY <1>1, <1>2, <1>3, HalfwayFact
<1>5. c.step = "stop" => c.run = 0
  <2>1. "stop" \notin Steps
    BY StepFact
  <2>2. c.run # 0 => c.step \in Steps
    BY <1>2, CopyFact
  <2> QED BY <2>1, <2>2
<1>6. meddled' \in {meddled, TRUE} /\ (c.run = 0 => meddled')
  <2>1. meddled \in BOOLEAN
    BY <1>1 DEF TypeOK
  <2>2. CASE c.run = 0
    BY <2>2, Zenon
  <2>3. CASE c.run # 0
    BY <2>1, <2>3, Zenon
  <2> QED BY <2>2, <2>3
<1>7. meddled' \/ stack' = stack \/ (c.step = "start" /\ c.run # 0)
  BY <1>4, <1>5, <1>6
<1>8. store' \subseteq Run /\ saved' \subseteq Run /\ shown' \subseteq Run /\ saved' = saved /\ shown' = shown
  BY <1>1 DEF TypeOK
<1>9. Effect(c, "failed")
  BY <1>4, <1>6, <1>7, <1>8 DEF Effect
<1>10. Ours' = {} /\ Places' = {}
  BY DEF Ours, Places
<1>11. Started' /\ Careful' /\ Deployed'
  BY <1>2, <1>9, <1>10, EffectFact
<1>12. Asking'
  BY <1>1, <1>10 DEF Asking
<1>13. altered' \subseteq Run \X BOOLEAN
  BY <1>1, <1>2, <1>4, AlteredFact
<1>14. TypeOK'
  <2>1. queue' \in Seq(Copy)
    OBVIOUS
  <2>2. meddled' \in BOOLEAN
    BY <1>1, <1>6 DEF TypeOK
  <2> QED BY <1>1, <1>4, <1>8, <1>13, <2>1, <2>2 DEF TypeOK
<1> QED BY <1>11, <1>12, <1>14 DEF Sound

LEMMA AgentStep ==
  ASSUME Sound, Agent PROVE Sound'
<1>1. CASE AgentDies
  <2>1. faults' \in 0..Faults /\ others' = others
    BY <1>1, BoundAssumption DEF AgentDies, Fault, Sound, TypeOK
  <2> QED BY <1>1, <2>1, CutFact DEF AgentDies
<1> QED BY <1>1, ServeStep
-----------------------------------------------------------------------------
(* A step of the Manager.                                                  *)

LEMMA BeginStep ==
  ASSUME Sound, NEW r \in Run, Begin(r) PROVE Sound'
<1>1. TypeOK /\ Asking /\ Started /\ Careful /\ Deployed
  BY DEF Sound
<1>2. /\ job' = [Idle EXCEPT !.run = r, !.step = "agent"] /\ result[r] = "none"
      /\ result' = [result EXCEPT ![r] = "running"] /\ meddled' = FALSE
      /\ UNCHANGED <<queue, store, file, stack, db, saved, shown, altered, script, faults, others>>
  BY DEF Begin, instance, budgets
<1>3. r \in 0..Runs /\ r # 0 /\ 0 \in 0..Attempts
  BY BoundAssumption DEF Run
<1>4. /\ job' \in JobType /\ job'.run = r /\ job'.step = "agent" /\ job'.try = 0
      /\ job'.fresh = FALSE /\ job'.answer = "none"
  BY <1>2, <1>3, StepFact DEF Idle, JobType
<1>5. Ours' = Ours /\ queue' = queue
  BY <1>2 DEF Ours, Places
<1>6. result' \in [Run -> {"none", "running", "success", "failed"}] /\ result'[r] = "running"
      /\ \A q \in Run : q # r => result'[q] = result[q]
  BY <1>1, <1>2 DEF TypeOK
<1>7. \A i \in Ours : queue[i].run \in Run
  BY <1>1, PlaceFact, CopyFact DEF Ours
<1>8. \A i \in Ours : queue[i].run # r
  BY <1>1, <1>2 DEF Started
<1>9. TypeOK'
  BY <1>1, <1>2, <1>4, <1>6 DEF TypeOK, JobType
<1>10. Asking'
  BY <1>1, <1>3, <1>4, <1>5, <1>8 DEF Asking, Local
<1>11. Started'
  BY <1>1, <1>2, <1>4, <1>5, <1>6, <1>7 DEF Started
<1>12. Careful'
  <2>1. r \notin shown /\ \A a \in altered : a[1] # r
    BY <1>1, <1>2 DEF Started
  <2>2. ExistingIsSpared'
    BY <1>1, <1>2 DEF Careful, ExistingIsSpared, ExistingIsSaved, ExistingIsNotRepaired
  <2>3. \A i \in Ours' : queue'[i].step = "start" /\ queue'[i].run \in shown' =>
                         queue'[i].run \in saved' /\ ~queue'[i].fresh
    BY <1>1, <1>2, <1>5 DEF Careful
  <2> QED BY <1>2, <1>4, <2>1, <2>2, <2>3 DEF Careful, Late
<1>13. Deployed'
  BY <1>1, <1>2, <1>4, <1>5 DEF Deployed
<1> QED BY <1>9, <1>10, <1>11, <1>12, <1>13 DEF Sound

\* A run that ends leaves its copies at the Agent.
LEMMA EndStep ==
  ASSUME Sound, job.run # 0, NEW how \in {"success", "failed"}, End(how), script' \in BOOLEAN,
         UNCHANGED <<queue, instance, history, budgets>>
  PROVE  Sound'
<1>1. TypeOK /\ Asking /\ Started /\ Careful /\ Deployed
  BY DEF Sound
<1>2. /\ job' = Idle /\ result' = [result EXCEPT ![job.run] = how]
      /\ UNCHANGED <<queue, store, file, stack, db, saved, shown, altered, meddled, faults, others>>
  BY DEF End, instance, history, budgets
<1>3. Ours' = Ours /\ queue' = queue
  BY <1>2 DEF Ours, Places
<1>4. /\ result' \in [Run -> {"none", "running", "success", "failed"}]
      /\ \A q \in Run : result'[q] = "none" => result[q] = "none"
      /\ \A q \in Run : result[q] # "none" => result'[q] # "none"
  BY <1>1, <1>2 DEF TypeOK
<1>5. \A i \in Ours : queue[i].run \in Run
  BY <1>1, PlaceFact, CopyFact DEF Ours
<1>6. TypeOK'
  BY <1>1, <1>2, <1>4, IdleFact DEF TypeOK, JobType
<1>7. Asking'
  BY <1>1, <1>2, <1>3, IdleFact DEF Asking
<1>8. Started'
  BY <1>1, <1>2, <1>3, <1>4, <1>5, IdleFact DEF Started
<1>9. Careful'
  <2>1. ExistingIsSpared'
    BY <1>1, <1>2 DEF Careful, ExistingIsSpared, ExistingIsSaved, ExistingIsNotRepaired
  <2>2. \A i \in Ours' : queue'[i].step = "start" /\ queue'[i].run \in shown' =>
                         queue'[i].run \in saved' /\ ~queue'[i].fresh
    BY <1>1, <1>2, <1>3 DEF Careful
  <2> QED BY <1>2, <2>1, <2>2, IdleFact DEF Careful, Early, Late
<1>10. Deployed'
  BY <1>1, <1>2, <1>3, IdleFact DEF Deployed
<1> QED BY <1>6, <1>7, <1>8, <1>9, <1>10 DEF Sound

\* The operator's copy is nobody's.
LEMMA AskStep ==
  ASSUME Sound, NEW what \in {"stop", "start"}, Ask(what) PROVE Sound'
<1> DEFINE c == [run |-> 0, step |-> what, try |-> 0, fresh |-> FALSE]
<1>1. TypeOK /\ Asking /\ Started /\ Careful /\ Deployed
  BY DEF Sound
<1>2. /\ queue' = Append(queue, c) /\ others' = others + 1 /\ others < Others
      /\ UNCHANGED <<job, result, store, file, stack, db, saved, shown, altered, meddled, script, faults>>
  BY DEF Ask, instance, history
<1>3. c \in Copy /\ c.run = 0
  BY DEF Copy
<1>4. /\ queue' \in Seq(Copy) /\ \A i \in Ours' : i \in Ours /\ queue'[i] = queue[i]
      /\ \A i \in Places' : (i \in Places /\ queue'[i] = queue[i]) \/ queue'[i] = c
  BY <1>1, <1>2, <1>3, AppendFact
<1>5. TypeOK'
  <2>1. others' \in 0..Others
    BY <1>1, <1>2, BoundAssumption DEF TypeOK
  <2> QED BY <1>1, <1>2, <1>4, <2>1 DEF TypeOK
<1>6. Asking'
  <2>1. \A i, k \in Ours' : queue'[i].run = queue'[k].run /\ queue'[i].step = queue'[k].step
    BY <1>1, <1>4 DEF Asking
  <2>2. job.step = "agent" => \A i \in Ours' : queue'[i].run # job.run
    BY <1>1, <1>4 DEF Asking
  <2>3. job.step \notin {"idle", "agent"} =>
          /\ \A i \in Ours' : /\ queue'[i].run = job.run /\ queue'[i].step = job.step
                             /\ queue'[i].try <= job.try /\ queue'[i].fresh = job.fresh
          /\ \A i, k \in Ours' : i < k => queue'[i].try < queue'[k].try
    BY <1>1, <1>4 DEF Asking
  <2>4. job.step \notin {"idle", "agent"} /\ (job.try = 0 \/ job.answer # "none") => Ours' = {}
    BY <1>1, <1>4 DEF Asking
  <2>5. job' = job
    BY <1>2
  <2>6. job.step \notin {"idle", "agent"} => \A i \in Places' : queue'[i].run \in {0, job.run}
    BY <1>1, <1>3, <1>4 DEF Asking
  <2> QED BY <1>1, <2>1, <2>2, <2>3, <2>4, <2>5, <2>6 DEF Asking
<1>7. Started'
  BY <1>1, <1>2, <1>4 DEF Started
<1>8. Careful'
  BY <1>1, <1>2, <1>4 DEF Careful, ExistingIsSpared, ExistingIsSaved, ExistingIsNotRepaired
<1>9. Deployed'
  BY <1>1, <1>2, <1>4 DEF Deployed
<1> QED BY <1>5, <1>6, <1>7, <1>8, <1>9 DEF Sound
\* The next step begins when every copy of the step before it has been served.
LEMMA OnwardStep ==
  ASSUME Sound, job.step \in Steps \ {"https"}, Onward,
         job.answer \in {"ok", "empty"} \/ job.step \in Local,
         Ours' = {}, queue' \in Seq(Copy), \A i \in Places' : queue'[i].run \in {0, job.run},
         shown' = IF At("status") /\ job.answer = "ok" THEN shown \union {job.run} ELSE shown,
         UNCHANGED <<store, file, db, saved, altered, meddled, script, budgets>>,
         stack' \in [up : {"none", "infra", "all"}, of : Release \union {None}],
         stack.up # "none" => stack' = stack
  PROVE  Sound'
<1>1. TypeOK /\ Asking /\ Started /\ Careful /\ Deployed
  BY DEF Sound
<1>2. /\ job' \in JobType /\ job'.run = job.run /\ job'.try = 0 /\ job'.answer = "none"
      /\ job'.step = After /\ After \in Steps \ {"agent"} /\ result' = result
      /\ job'.fresh = IF job.step = "status" THEN job.fresh \/ job.answer = "empty" ELSE job.fresh
  BY OnwardFact
<1>3. UNCHANGED <<store, file, db, saved, altered, meddled, script, faults, others>>
  BY DEF budgets
<1>4. job.run # 0 /\ job.run \in Run
  <2>1. job.run # 0 /\ job.run \in 0..Runs
    BY <1>1, IdleFact, StepFact DEF Asking, TypeOK
  <2> QED BY <2>1, BoundAssumption DEF Run
<1>5. job.step \notin Local => job.answer = "ok" \/ (job.answer = "empty" /\ job.step = "status")
  BY <1>1 DEF Asking
<1>6. /\ job.step = "agent" => After = "status"
      /\ job.step = "status" => After = IF job.answer = "empty" THEN "import" ELSE "backup"
      /\ job.step = "backup" => After = "import"
      /\ job.step = "import" => After = "instance"
      /\ job.step = "instance" => After = "network"
      /\ job.step = "network" => After = "check"
      /\ job.step = "check" => After = "start"
      /\ job.step = "start" => After = "universes"
      /\ job.step = "universes" => After = "health"
      /\ job.step = "health" => After = "https"
  BY DEF After, At, Follows
<1>7. job.step \in {"agent", "status", "backup", "import", "instance", "network", "check", "start",
                    "universes", "health"}
  BY StepFact
<1>13. shown' = IF job.step = "status" /\ job.answer = "ok" THEN shown \union {job.run} ELSE shown
  BY DEF At
<1>8. TypeOK'
  <2>1. shown' \subseteq Run
    BY <1>1, <1>4, <1>13 DEF TypeOK
  <2> QED BY <1>1, <1>2, <1>3, <2>1 DEF TypeOK, JobType
<1>9. Asking'
  BY <1>1, <1>2, <1>4, StepFact DEF Asking
<1>10. Started'
  <2>1. result[job.run] = "running"
    BY <1>1, <1>4 DEF Started
  <2> QED BY <1>1, <1>2, <1>3, <1>13, <2>1 DEF Started
<1>11. Careful'
  <2>1. ExistingIsSpared'
    <3>1. job.step = "status" => \A a \in altered : a[1] # job.run
      BY <1>1 DEF Careful, Early
    <3>2. \A a \in altered : a[1] \in shown' => a[1] \in shown
      BY <1>13, <3>1
    <3> QED BY <1>1, <1>3, <3>2 DEF Careful, ExistingIsSpared, ExistingIsSaved, ExistingIsNotRepaired
  <2>2. After \in Early => job.step \in Early
    BY <1>6, <1>7 DEF Early
  <2>3. After = "status" => job.step = "agent"
    BY <1>6, <1>7
  <2>4. After \notin {"idle", "agent", "status"} /\ job'.fresh => job.run \notin shown'
    <3>1. CASE job.step = "agent"
      BY <1>6, <3>1
    <3>2. CASE job.step = "status"
      BY <1>1, <1>2, <1>13, <3>2 DEF Careful
    <3>3. CASE job.step \notin {"agent", "status"}
      BY <1>1, <1>2, <1>7, <1>13, <3>3 DEF Careful
    <3> QED BY <3>1, <3>2, <3>3
  <2>5. After \in Late /\ ~job'.fresh => job.run \in saved
    <3>1. CASE job.step = "agent"
      BY <1>6, <3>1 DEF Late
    <3>2. CASE job.step = "status"
      BY <1>2, <1>6, <3>2 DEF Late
    <3>3. CASE job.step = "backup"
      BY <1>1, <1>5, <3>3 DEF Careful, Local
    <3>4. CASE job.step \notin {"agent", "status", "backup"}
      BY <1>1, <1>2, <1>7, <3>4 DEF Careful, Late
    <3> QED BY <3>1, <3>2, <3>3, <3>4
  <2>6. job'.step \in {"agent", "status"} => ~job'.fresh /\ job'.run \notin shown'
    BY <1>1, <1>2, <1>13, <2>3 DEF Careful
  <2> QED BY <1>1, <1>2, <1>3, <2>1, <2>2, <2>4, <2>5, <2>6 DEF Careful
<1>12. Deployed'
  <2>1. After \in {"network", "check", "start", "universes", "health", "https"}
        => file # None /\ file.capsule = job.run
    BY <1>1, <1>5, <1>6, <1>7 DEF Deployed, Local
  <2>2. After \in {"check", "start", "universes", "health", "https"} => file.public
    BY <1>1, <1>5, <1>6, <1>7 DEF Deployed, Local
  <2>3. After \in {"universes", "health", "https"} => meddled \/ stack' = [up |-> "all", of |-> file]
    BY <1>1, <1>5, <1>6, <1>7 DEF Deployed, Local
  <2> QED BY <1>2, <1>3, <2>1, <2>2, <2>3 DEF Deployed
<1> QED BY <1>8, <1>9, <1>10, <1>11, <1>12 DEF Sound
\* A request sent, or sent again, is the youngest of its step.
LEMMA DeliverStep ==
  ASSUME Sound, job.step \in Steps \ Local, job.try < Attempts, job.answer = "none",
         \/ job' = [job EXCEPT !.try = job.try + 1, !.answer = "none"]
         \/ job' = [job EXCEPT !.try = job.try + 1],
         Deliver(job.try + 1),
         UNCHANGED <<result, instance, history, script, budgets>>
  PROVE  Sound'
<1> DEFINE c == [run |-> job.run, step |-> job.step, try |-> job.try + 1, fresh |-> job.fresh]
<1>1. TypeOK /\ Asking /\ Started /\ Careful /\ Deployed
  BY DEF Sound
<1>2. UNCHANGED <<result, store, file, stack, db, saved, shown, altered, meddled, script, faults, others>>
  BY DEF instance, history, budgets
<1>3. job \in JobType /\ job.try \in Nat /\ job.try + 1 \in 1..Attempts
  <2>1. job \in JobType /\ job.try \in 0..Attempts
    BY <1>1, JobFact DEF JobType
  <2> QED BY <2>1, BoundAssumption
<1>4. /\ job' \in JobType /\ job'.run = job.run /\ job'.step = job.step /\ job'.try = job.try + 1
      /\ job'.fresh = job.fresh /\ job'.answer = "none"
  <2>1. job.try + 1 \in 0..Attempts
    BY <1>3, BoundAssumption
  <2> QED BY <1>3, <2>1 DEF JobType
<1>5. job.step \notin {"idle", "agent"} /\ job.step \notin Local
  BY StepFact DEF Local
<1>6. job.run \in Run /\ job.run # 0
  BY <1>1, <1>3, <1>5, IdleFact DEF Asking, JobType, Run
<1>7. c \in Copy /\ c.run = job.run /\ c.step = job.step /\ c.try = job.try + 1 /\ c.fresh = job.fresh
  BY <1>3, <1>6 DEF Copy, JobType
<1>8. /\ queue' \in Seq(Copy)
      /\ \A i \in Places' : (i \in Places /\ queue'[i] = queue[i]) \/ queue'[i] = c
      /\ \/ queue' = queue /\ Ours' = Ours
         \/ \A i \in Ours' : \/ i \in Ours /\ queue'[i] = queue[i] /\ i < Len(queue')
                             \/ i = Len(queue') /\ queue'[i] = c
  <2>1. CASE queue' = queue
    BY <1>1, <2>1 DEF TypeOK, Ours, Places
  <2>2. CASE queue' = Append(queue, c)
    BY <1>1, <1>7, <2>2, AppendFact
  <2> QED BY <2>1, <2>2 DEF Deliver
<1>9. \A i \in Ours' : (i \in Ours /\ queue'[i] = queue[i]) \/ queue'[i] = c
  BY <1>8
<1>10. \A i \in Ours : /\ queue[i].run = job.run /\ queue[i].step = job.step
                       /\ queue[i].try <= job.try /\ queue[i].fresh = job.fresh
  BY <1>1, <1>5 DEF Asking
<1>11. \A i \in Ours : queue[i].try \in Nat
  BY <1>1, PlaceFact, CopyFact DEF Ours
<1>12. TypeOK'
  BY <1>1, <1>2, <1>4, <1>8 DEF TypeOK, JobType
<1>13. Asking'
  <2>1. \A i \in Ours' : /\ queue'[i].run = job'.run /\ queue'[i].step = job'.step
                         /\ queue'[i].try <= job'.try /\ queue'[i].fresh = job'.fresh
    BY <1>3, <1>4, <1>7, <1>9, <1>10, <1>11
  <2>2. \A i, k \in Ours' : i < k => queue'[i].try < queue'[k].try
    <3>1. CASE queue' = queue /\ Ours' = Ours
      BY <1>1, <1>5, <3>1 DEF Asking
    <3>2. CASE \A i \in Ours' : \/ i \in Ours /\ queue'[i] = queue[i] /\ i < Len(queue')
                                \/ i = Len(queue') /\ queue'[i] = c
      <4>1. SUFFICES ASSUME NEW i \in Ours', NEW k \in Ours', i < k
                     PROVE  queue'[i].try < queue'[k].try
        OBVIOUS
      <4>2. i \in Nat /\ k \in Nat /\ k <= Len(queue') /\ Len(queue') \in Nat
        BY <1>8 DEF Ours, Places
      <4>3. i \in Ours /\ queue'[i] = queue[i]
        BY <3>2, <4>1, <4>2
      <4>4. CASE k \in Ours /\ queue'[k] = queue[k]
        BY <1>1, <1>5, <4>1, <4>3, <4>4 DEF Asking
      <4>5. CASE queue'[k] = c
        BY <1>3, <1>7, <1>10, <1>11, <4>3, <4>5
      <4> QED BY <3>2, <4>1, <4>4, <4>5
    <3> QED BY <1>8, <3>1, <3>2
  <2>5. \A i \in Places' : queue'[i].run \in {0, job'.run}
    BY <1>1, <1>4, <1>5, <1>7, <1>8 DEF Asking
  <2>3. job'.try # 0 /\ job'.answer = "none"
    BY <1>3, <1>4
  <2>4. \A i, k \in Ours' : queue'[i].run = queue'[k].run /\ queue'[i].step = queue'[k].step
    BY <2>1
  <2> QED BY <1>4, <1>5, <1>6, <2>1, <2>2, <2>3, <2>4, <2>5 DEF Asking
<1>14. Started'
  BY <1>1, <1>2, <1>4, <1>6, <1>7, <1>9 DEF Started
<1>15. Careful'
  <2>1. ExistingIsSpared'
    BY <1>1, <1>2 DEF Careful, ExistingIsSpared, ExistingIsSaved, ExistingIsNotRepaired
  <2>3. job.step = "start" /\ job.run \in shown => job.run \in saved /\ ~job.fresh
    BY <1>1 DEF Careful, Late
  <2>4. \A i \in Ours' : queue'[i].step = "start" /\ queue'[i].run \in shown' =>
                         queue'[i].run \in saved' /\ ~queue'[i].fresh
    BY <1>1, <1>2, <1>7, <1>9, <2>3 DEF Careful
  <2> QED BY <1>1, <1>2, <1>4, <2>1, <2>4 DEF Careful
<1>16. Deployed'
  BY <1>1, <1>2, <1>4, <1>7, <1>9 DEF Deployed
<1> QED BY <1>12, <1>13, <1>14, <1>15, <1>16 DEF Sound
\* The Agent is restarted before anything is asked of it.
LEMMA PrepareStep ==
  ASSUME Sound, PrepareAgent PROVE Sound'
<1> DEFINE c == Head(queue)
<1>1. TypeOK /\ Asking /\ Started /\ Careful /\ Deployed
  BY DEF Sound
<1>2. job.step = "agent" /\ Onward /\ queue' = << >> /\ Ours' = {} /\ queue' \in Seq(Copy)
      /\ Places' = {} /\ UNCHANGED <<store, saved, shown, meddled, script, faults, others>>
  BY DEF PrepareAgent, At, Ours, Places, budgets
<1>3. CASE queue = << >>
  <2>1. /\ UNCHANGED <<store, file, db, saved, altered, meddled, script, budgets>> /\ stack' = stack
        /\ shown' = IF At("status") /\ job.answer = "ok" THEN shown \union {job.run} ELSE shown
    BY <1>2, <1>3 DEF PrepareAgent, budgets, At
  <2>2. stack' \in [up : {"none", "infra", "all"}, of : Release \union {None}]
    BY <1>1, <2>1 DEF TypeOK
  <2>3. job.step \in Steps \ {"https"} /\ job.step \in Local
    BY <1>2, StepFact DEF Local
  <2> QED BY <1>2, <2>1, <2>2, <2>3, OnwardStep
<1>4. CASE queue # << >>
  <2>1. Halfway(c) /\ c \in Copy /\ c = queue[1] /\ (c.run # 0 /\ c.step # "status" => 1 \in Ours /\ queue[1] = c)
    BY <1>1, <1>4, HeadFact DEF PrepareAgent, Ours
  <2>2. c.step = "network" => file # None
    <3>1. c.step = "network" => c.run # 0
      BY <2>1, CopyFact
    <3> QED BY <1>1, <2>1, <3>1 DEF Deployed
  <2>3. /\ file' \in Release \union {None}
        /\ stack' \in [up : {"none", "infra", "all"}, of : Release \union {None}]
        /\ db' \in 0..Runs \union {None}
        /\ altered' \in {altered, Migrated(c.run, c.fresh)}
        /\ c.step # "start" => altered' = altered
    BY <1>1, <2>1, <2>2, HalfwayFact
  <2>4. /\ altered' \subseteq Run \X BOOLEAN
        /\ \A x \in altered' : x \in altered
                             \/ (x[1] = c.run /\ x[2] = c.fresh /\ c.run \in Run /\ c.step = "start")
    BY <1>1, <2>1, <2>3, AlteredFact
  <2>5. /\ job' \in JobType /\ job'.run = job.run /\ job'.try = 0 /\ job'.answer = "none"
        /\ job'.step = "status" /\ result' = result /\ job'.fresh = job.fresh
    BY <1>1, <1>2, StepFact, OnwardFact DEF After, At, Follows
  <2>6. job.run # 0 /\ ~job.fresh /\ job.run \notin shown
    BY <1>1, <1>2, IdleFact DEF Asking, Careful
  <2>7. c.run # 0 /\ c.step # "status" =>
                     /\ c.run # job.run /\ result[c.run] # "none"
                     /\ c.step = "start" /\ c.run \in shown => c.run \in saved /\ ~c.fresh
    BY <1>1, <1>2, <2>1 DEF Asking, Started, Careful
  <2>8. \A x \in altered' : x \in altered \/ (x[1] = c.run /\ x[2] = c.fresh /\ c.run # 0 /\ c.step = "start")
    BY <2>4, BoundAssumption DEF Run
  <2>9. TypeOK'
    BY <1>1, <1>2, <2>3, <2>4, <2>5 DEF TypeOK, JobType
  <2>10. Asking'
    BY <1>2, <2>5, <2>6 DEF Asking
  <2>11. Started'
    BY <1>1, <1>2, <2>5, <2>7, <2>8 DEF Started
  <2>12. Careful'
    <3>1. ASSUME NEW x \in altered', x[1] \in shown PROVE x[1] \in saved /\ x[2] = FALSE
      <4>1. CASE x \in altered
        BY <1>1, <3>1, <4>1 DEF Careful, ExistingIsSpared, ExistingIsSaved, ExistingIsNotRepaired
      <4>2. CASE x[1] = c.run /\ x[2] = c.fresh /\ c.run # 0 /\ c.step = "start"
        <5>1. c.fresh \in BOOLEAN
          BY <2>1, CopyFact
        <5> QED BY <2>7, <3>1, <4>2, <5>1
      <4> QED BY <2>8, <4>1, <4>2
    <3>2. ExistingIsSpared'
      BY <1>2, <3>1 DEF ExistingIsSpared, ExistingIsSaved, ExistingIsNotRepaired
    <3>3. \A x \in altered' : x[1] # job.run
      BY <1>1, <1>2, <2>7, <2>8 DEF Careful, Early
    <3> QED BY <1>2, <2>5, <2>6, <3>2, <3>3 DEF Careful, Late
  <2>13. Deployed'
    BY <1>2, <2>5 DEF Deployed
  <2> QED BY <2>9, <2>10, <2>11, <2>12, <2>13 DEF Sound
<1> QED BY <1>3, <1>4

\* A status that failed before the Agent may have left a late copy of itself there.
LEMMA AbsentStep ==
  ASSUME Sound, TakenForAbsent PROVE Sound'
<1>1. TypeOK /\ Asking /\ Started /\ Careful /\ Deployed
  BY DEF Sound
<1>2. /\ job.step = "status" /\ job.try # 0 /\ job.answer = "none"
      /\ job' = [job EXCEPT !.answer = "empty"]
      /\ UNCHANGED <<result, queue, store, file, stack, db, saved, shown, altered, meddled, script, others>>
  BY DEF TakenForAbsent, Fault, At, instance, history
<1>3. /\ job' \in JobType /\ job'.run = job.run /\ job'.step = job.step /\ job'.try = job.try
      /\ job'.fresh = job.fresh /\ job'.answer = "empty"
  BY <1>1, <1>2, JobFact DEF JobType
<1>4. Ours = {} /\ Ours' = {} /\ Places' = Places
  BY <1>1, <1>2 DEF Asking, Ours, Places
<1>5. TypeOK'
  <2>1. faults' \in 0..Faults
    BY <1>1, BoundAssumption DEF TakenForAbsent, Fault, TypeOK
  <2> QED BY <1>1, <1>2, <1>3, <2>1 DEF TypeOK, JobType
<1>6. Asking'
  <2>1. \A i \in Places : queue[i].run \in {0, job.run}
    BY <1>1, <1>2 DEF Asking
  <2>2. job.run # 0
    BY <1>1, <1>2, IdleFact DEF Asking
  <2> QED BY <1>2, <1>3, <1>4, <2>1, <2>2 DEF Asking, Local
<1>7. Started'
  BY <1>1, <1>2, <1>3, <1>4 DEF Started
<1>8. Careful'
  BY <1>1, <1>2, <1>3, <1>4 DEF Careful, ExistingIsSpared, ExistingIsSaved, ExistingIsNotRepaired
<1>9. Deployed'
  BY <1>1, <1>2, <1>3, <1>4 DEF Deployed
<1> QED BY <1>5, <1>6, <1>7, <1>8, <1>9 DEF Sound

\* A script that goes on starts the database of an instance that is down.
LEMMA LateStep ==
  ASSUME Sound, LatePublish PROVE Sound'
<1>1. TypeOK /\ Asking /\ Started /\ Careful /\ Deployed
  BY DEF Sound
<1>2. /\ file # None /\ script' \in BOOLEAN
      /\ stack' = IF stack.up = "none" THEN [up |-> "infra", of |-> file] ELSE stack
      /\ UNCHANGED <<job, result, queue, store, file, db, saved, shown, altered, meddled, faults, others>>
  BY DEF LatePublish, UpInfra, history, budgets
<1>3. Ours' = Ours /\ Places' = Places
  BY <1>2 DEF Ours, Places
<1>4. TypeOK'
  BY <1>1, <1>2 DEF TypeOK
<1>5. Asking'
  BY <1>1, <1>2, <1>3 DEF Asking
<1>6. Started'
  BY <1>1, <1>2, <1>3 DEF Started
<1>7. Careful'
  BY <1>1, <1>2, <1>3 DEF Careful, ExistingIsSpared, ExistingIsSaved, ExistingIsNotRepaired
<1>8. Deployed'
  BY <1>1, <1>2, <1>3 DEF Deployed
<1> QED BY <1>4, <1>5, <1>6, <1>7, <1>8 DEF Sound

LEMMA ManagerStep ==
  ASSUME Sound, Manager PROVE Sound'
<1>1. TypeOK /\ Asking
  BY DEF Sound
<1>2. job \in JobType /\ (job = Idle \/ job.run # 0)
  BY <1>1, JobFact DEF Asking
<1>3. ASSUME NEW r \in Run, Begin(r) PROVE Sound'
  BY <1>3, BeginStep
<1>4. CASE PrepareAgent
  BY <1>4, PrepareStep
<1>5. CASE Send
  <2>1. job.step \in Steps \ Local /\ job.try = 0 /\ job.answer = "none" /\ 0 < Attempts
    BY <1>1, <1>5, BoundAssumption DEF Send, Asking
  <2>2. job' = [job EXCEPT !.try = 1]
    BY <1>5 DEF Send
  <2>3. job' = [job EXCEPT !.try = job.try + 1]
    BY <2>1, <2>2
  <2>4. Deliver(job.try + 1)
    <3>1. job.try + 1 = 1
      BY <2>1
    <3> QED BY <1>5, <3>1 DEF Send
  <2> QED BY <1>5, <2>1, <2>3, <2>4, DeliverStep DEF Send
<1>6. CASE Timeout
  <2>1. job.try # 0 /\ job.answer = "none" /\ Retry /\ UNCHANGED <<instance, history, script, budgets>>
    BY <1>6 DEF Timeout
  <2>2. job.step \in Steps \ Local /\ job.run # 0
    <3>1. job.step \notin Local /\ job.step # "idle" /\ job.run # 0
      BY <1>1, <1>2, <2>1, IdleFact DEF Asking
    <3> QED BY <1>2, <3>1 DEF JobType
  <2>3. CASE job.try < Attempts
    BY <2>1, <2>2, <2>3, DeliverStep DEF Retry
  <2>4. CASE ~(job.try < Attempts)
    BY <1>1, <2>1, <2>2, <2>4, EndStep DEF Retry, TypeOK
  <2> QED BY <2>3, <2>4
<1>7. CASE Hear
  <2>1. job.answer # "none" /\ UNCHANGED <<queue, instance, saved, altered, meddled, script, budgets>>
        /\ shown' = IF At("status") /\ job.answer = "ok" THEN shown \union {job.run} ELSE shown
    BY <1>7 DEF Hear
  <2>2. job.step \in Steps \ Local /\ job.run # 0 /\ job.step # "agent" /\ job.step # "idle"
    BY <1>1, <1>2, <2>1, IdleFact DEF Asking, JobType, Local
  <2>3. Ours = {}
    BY <1>1, <2>1, <2>2 DEF Asking
  <2>4. CASE job.answer \in {"ok", "empty"}
    <3>1. Onward
      BY <1>7, <2>4 DEF Hear
    <3>2. Ours' = {} /\ queue' \in Seq(Copy) /\ stack' = stack
          /\ stack' \in [up : {"none", "infra", "all"}, of : Release \union {None}]
          /\ UNCHANGED <<store, file, db>> /\ \A i \in Places' : queue'[i].run \in {0, job.run}
      BY <1>1, <2>1, <2>2, <2>3 DEF Asking, Ours, Places, TypeOK, instance
    <3>3. job.step \in Steps \ {"https"}
      BY <2>2 DEF Local
    <3> QED BY <2>1, <2>4, <3>1, <3>2, <3>3, OnwardStep
  <2>5. CASE job.answer \notin {"ok", "empty"}
    BY <1>1, <1>7, <2>1, <2>2, <2>5, EndStep DEF Hear, TypeOK, history
  <2> QED BY <2>4, <2>5
<1>8. CASE Publish
  <2>1. job.step = "universes" /\ Onward /\ file # None
        /\ UNCHANGED <<queue, store, file, db, saved, shown, altered, meddled, script, budgets>>
        /\ stack' = IF stack.up = "none" THEN [up |-> "infra", of |-> file] ELSE stack
    BY <1>8 DEF Publish, UpInfra, At, history
  <2>2. job.step \in Local /\ job.step \in Steps \ {"https"}
    BY <2>1, StepFact DEF Local
  <2>3. Ours = {}
    BY <1>1, <2>1, <2>2 DEF Asking
  <2>4. Ours' = {} /\ queue' \in Seq(Copy) /\ \A i \in Places' : queue'[i].run \in {0, job.run}
    BY <1>1, <2>1, <2>3 DEF Asking, Ours, Places, TypeOK
  <2>6. shown' = IF At("status") /\ job.answer = "ok" THEN shown \union {job.run} ELSE shown
    BY <2>1 DEF At
  <2>5. /\ stack' \in [up : {"none", "infra", "all"}, of : Release \union {None}]
        /\ stack.up # "none" => stack' = stack
    BY <1>1, <2>1 DEF TypeOK
  <2> QED BY <2>1, <2>2, <2>4, <2>5, <2>6, OnwardStep
<1>9. CASE ProbeHttps
  <2>1. job.run # 0
    BY <1>2, <1>9, IdleFact DEF ProbeHttps, At
  <2> QED BY <1>1, <1>9, <2>1, EndStep DEF ProbeHttps, TypeOK
<1>10. CASE JobFails
  <2>1. script' \in BOOLEAN
    BY <1>1, <1>10 DEF JobFails, TypeOK
  <2> QED BY <1>2, <1>10, <2>1, EndStep DEF JobFails
<1>11. CASE TakenForAbsent
  BY <1>11, AbsentStep
<1> QED
  BY <1>3, <1>4, <1>5, <1>6, <1>7, <1>8, <1>9, <1>10, <1>11 DEF Manager

-----------------------------------------------------------------------------
(* Theorems.                                                               *)

\* The invariant behind the others: who has asked what of the Agent, which run
\* knows what of the database, and what it has made of the instance.
THEOREM SoundInvariant == Spec => []Sound
<1>1. Sound /\ [Next]_vars => Sound'
  <2> SUFFICES ASSUME Sound, [Next]_vars PROVE Sound'
    OBVIOUS
  <2>1. CASE Manager
    BY <2>1, ManagerStep
  <2>2. CASE Agent
    BY <2>2, AgentStep
  <2>3. ASSUME NEW what \in {"stop", "start"}, Ask(what) PROVE Sound'
    BY <2>3, AskStep
  <2>5. CASE LatePublish
    BY <2>5, LateStep
  <2>4. CASE UNCHANGED vars
    <3>1. UNCHANGED <<job, result, queue, store, file, stack, db, saved, shown, altered, meddled, script, faults, others>>
      BY <2>4 DEF vars
    <3>2. Ours' = Ours /\ Places' = Places
      BY <3>1 DEF Ours, Places
    <3>3. TypeOK'
      BY <3>1 DEF Sound, TypeOK
    <3>4. Asking'
      BY <3>1, <3>2 DEF Sound, Asking
    <3>5. Started'
      BY <3>1, <3>2 DEF Sound, Started
    <3>6. Careful'
      BY <3>1, <3>2 DEF Sound, Careful, ExistingIsSpared, ExistingIsSaved, ExistingIsNotRepaired
    <3>7. Deployed'
      BY <3>1, <3>2 DEF Sound, Deployed
    <3> QED BY <3>3, <3>4, <3>5, <3>6, <3>7 DEF Sound
  <2> QED BY <2>1, <2>2, <2>3, <2>4, <2>5 DEF Next
<1> QED BY <1>1, Initial, PTL DEF Spec

\* Every variable keeps its type, whatever the Agent does with the copies it has.
THEOREM Typing == Spec => []TypeOK
<1>1. Sound => TypeOK
  BY DEF Sound
<1> QED BY <1>1, SoundInvariant, PTL

\* The Agent is done with a step before the job takes the next one.
THEOREM InOrderTheorem == Spec => []InOrder
<1>1. Sound => InOrder
  <2> SUFFICES ASSUME Sound, job # Idle, job.step # "agent",
                      NEW i \in DOMAIN queue, queue[i].run # 0
               PROVE  queue[i].run = job.run /\ queue[i].step \in {job.step, "status"}
    BY DEF InOrder, At
  <2>1. i \in Places /\ (queue[i].step # "status" => i \in Ours)
    BY DEF Sound, TypeOK, Ours, Places
  <2>2. job.step # "idle"
    BY DEF Sound, Asking
  <2> QED BY <2>1, <2>2 DEF Sound, Asking
<1> QED BY <1>1, SoundInvariant, PTL

\* An instance a run was shown is backed up before its database is migrated, and
\* its migration records are not repaired.
THEOREM SparedTheorem == Spec => []ExistingIsSpared
<1>1. Sound => ExistingIsSpared
  BY DEF Sound, Careful
<1> QED BY <1>1, SoundInvariant, PTL

\* A run that succeeds has its capsule running in public, or the operator came
\* in between.
THEOREM ServedTheorem == Spec => SuccessIsServed
<1>1. Sound /\ [Next]_vars => [Served]_vars
  <2> SUFFICES ASSUME Sound, [Next]_vars, NEW r \in Run, result[r] # "success", result'[r] = "success"
               PROVE  meddled \/ stack = [up |-> "all", of |-> [capsule |-> r, public |-> TRUE]]
    BY DEF Served
  <2>1. TypeOK /\ Asking /\ Deployed /\ result \in [Run -> {"none", "running", "success", "failed"}]
    BY DEF Sound, TypeOK
  <2>2. ASSUME End("failed") PROVE FALSE
    BY <2>1, <2>2 DEF End
  <2>3. ASSUME NEW q \in Run, Begin(q) PROVE FALSE
    BY <2>1, <2>3 DEF Begin
  <2>4. ASSUME result' = result PROVE FALSE
    BY <2>4
  <2>5. ProbeHttps
    <3>1. CASE Manager
      BY <2>2, <2>3, <2>4, <3>1
         DEF Manager, PrepareAgent, Send, Timeout, TakenForAbsent, Retry, Hear, Publish, JobFails, Onward
    <3>2. CASE Agent
      BY <2>4, <3>2
         DEF Agent, Reply, ServeStatus, ServeBackup, ServeImport, ServeInstance, ServeNetwork, ServeCheck,
             ServeStart, ServeStop, ServeHealth, ServeFails, AgentDies
    <3> QED BY <2>4, <3>1, <3>2 DEF Next, LatePublish, Ask, vars
  <2>6. job.step = "https" /\ stack.of.public /\ End("success")
    BY <2>5 DEF ProbeHttps, At
  <2>7. job.run = r
    BY <2>1, <2>6 DEF End
  <2>8. file # None /\ file.capsule = r /\ file.public /\ (meddled \/ stack = [up |-> "all", of |-> file])
    BY <2>1, <2>6, <2>7 DEF Deployed
  <2>9. file \in Release
    BY <2>1, <2>8 DEF TypeOK
  <2>10. file = [capsule |-> r, public |-> TRUE]
    BY <2>8, <2>9 DEF Release
  <2> QED BY <2>8, <2>10
<1> QED BY <1>1, SoundInvariant, PTL DEF Spec, SuccessIsServed

-----------------------------------------------------------------------------
(* The instance the requests work on.                                      *)

\* A network request is served only where a Compose file is.
LEMMA NetworkHasFile ==
  ASSUME Sound, queue # << >>, Head(queue).step = "network" PROVE file # None
<1>1. TypeOK /\ Deployed
  BY DEF Sound
<1>2. Head(queue) \in Copy /\ Head(queue) = queue[1] /\ 1 \in Places
  BY <1>1, HeadFact
<1> QED BY <1>1, <1>2, CopyFact, BoundAssumption DEF Deployed, Ours, Run

\* An action that was cut off has rewritten the file, taken containers down or
\* brought them up, as its handler does it, or nothing.
LEMMA HalfwayDeploys ==
  ASSUME TypeOK, NEW c \in Copy, c.step = "network" => file # None, Halfway(c)
  PROVE  [Life!DeploymentNext]_(Life!deployment)
<1>1. /\ file \in Release \union {None}
      /\ stack \in [up : {"none", "infra", "all"}, of : Release \union {None}]
      /\ c.run \in 0..Runs /\ c.fresh \in BOOLEAN
  BY CopyFact DEF TypeOK
<1>2. CASE UNCHANGED <<file, stack>>
  BY <1>2 DEF Life!deployment
<1>3. CASE stack' \in Leftover /\ file' = file
  <2>1. CASE stack' = stack
    BY <1>2, <1>3, <2>1
  <2>2. CASE stack' = NoStack
    <3>1. Life!TakeDown
      BY <1>3, <2>2 DEF Life!TakeDown, Life!NothingUp, NoStack
    <3> QED BY <3>1 DEF Life!DeploymentNext
  <2>3. CASE stack.up # "none" /\ stack' = [stack EXCEPT !.up = "infra"]
    <3>1. stack'.up = "infra" /\ stack'.of = stack.of
      BY <1>1, <2>3
    <3>2. Life!TakeDown
      BY <1>3, <2>3, <3>1 DEF Life!TakeDown
    <3> QED BY <3>2 DEF Life!DeploymentNext
  <2> QED BY <1>3, <2>1, <2>2, <2>3 DEF Leftover
<1>4. CASE /\ file # None /\ file' = file
           /\ stack' \in {NoStack} \union [up : {"infra", "all"}, of : {file}]
  <2>1. CASE stack' = NoStack
    BY <1>3, <1>4, <2>1 DEF Leftover
  <2>2. CASE stack' \in [up : {"infra", "all"}, of : {file}]
    <3>1. stack'.up \in {"infra", "all"} /\ stack'.of = file
      BY <2>2
    <3>2. Life!BringUp
      BY <1>4, <3>1 DEF Life!BringUp
    <3> QED BY <3>2 DEF Life!DeploymentNext
  <2> QED BY <1>4, <2>1, <2>2
<1>5. CASE file' \in Release /\ stack' = stack
  <2>1. Life!Rewrite
    BY <1>5 DEF Life!Rewrite
  <2> QED BY <2>1 DEF Life!DeploymentNext
<1>6. CASE c.step = "instance" /\ file' = [capsule |-> c.run, public |-> c.fresh] /\ stack' = stack
  BY <1>1, <1>5, <1>6 DEF Release
<1>7. CASE c.step = "network" /\ file' = [file EXCEPT !.public = TRUE] /\ stack' = stack
  BY <1>1, <1>5, <1>7 DEF Release
<1> QED BY <1>2, <1>3, <1>4, <1>6, <1>7 DEF Halfway

\* Whatever the Agent serves, the universes that are published past it and the
\* requests of the operator are steps of the deployment.
LEMMA LifeStep ==
  ASSUME Sound, [Next]_vars PROVE [Life!DeploymentNext]_(Life!deployment)
<1>1. TypeOK
  BY DEF Sound
<1>2. CASE UNCHANGED <<file, stack>>
  BY <1>2 DEF Life!deployment
<1>3. CASE UNCHANGED vars
  BY <1>2, <1>3 DEF vars
<1>4. CASE PrepareAgent \/ ServeFails \/ AgentDies
  <2>1. CASE UNCHANGED <<file, stack>>
    BY <1>2, <2>1
  <2>2. CASE queue # << >> /\ Halfway(Head(queue))
    <3>1. Head(queue) \in Copy
      BY <1>1, <2>2, HeadFact
    <3> QED BY <1>1, <2>2, <3>1, NetworkHasFile, HalfwayDeploys
  <2> QED BY <1>4, <2>1, <2>2 DEF PrepareAgent, ServeFails, AgentDies
<1>5. CASE Publish \/ LatePublish
  <2>1. CASE stack.up = "none"
    <3>1. stack'.up = "infra" /\ stack'.of = file /\ file # None /\ file' = file
      BY <1>5, <2>1 DEF Publish, LatePublish, UpInfra
    <3>2. Life!BringUp
      BY <3>1 DEF Life!BringUp
    <3> QED BY <3>2 DEF Life!DeploymentNext
  <2> QED BY <1>2, <1>5, <2>1 DEF Publish, LatePublish, UpInfra
<1>6. CASE ServeInstance \/ ServeNetwork
  <2>1. queue # << >> /\ Head(queue) \in Copy
    BY <1>1, <1>6, HeadFact DEF ServeInstance, ServeNetwork, First
  <2>2. Head(queue).run \in 0..Runs /\ Head(queue).fresh \in BOOLEAN
    BY <2>1, CopyFact
  <2>3. ServeNetwork => file \in Release
    BY <1>1, <2>1, NetworkHasFile DEF ServeNetwork, First, TypeOK
  <2>4. file' \in Release /\ stack' = stack
    <3>1. CASE ServeInstance
      <4>1. file' = [capsule |-> Head(queue).run, public |-> Head(queue).fresh] /\ stack' = stack
        BY <3>1 DEF ServeInstance
      <4> QED BY <2>2, <4>1 DEF Release
    <3>2. CASE ServeNetwork
      <4>1. file' = [file EXCEPT !.public = TRUE] /\ stack' = stack
        BY <3>2 DEF ServeNetwork
      <4> QED BY <2>3, <3>2, <4>1 DEF Release
    <3> QED BY <1>6, <3>1, <3>2
  <2>5. Life!Rewrite
    BY <2>4 DEF Life!Rewrite
  <2> QED BY <2>5 DEF Life!DeploymentNext
<1>7. CASE ServeStart
  <2>1. file # None /\ file' = file /\ stack'.up = "all" /\ stack'.of = file
    BY <1>7 DEF ServeStart
  <2>2. Life!BringUp
    BY <2>1 DEF Life!BringUp
  <2> QED BY <2>2 DEF Life!DeploymentNext
<1>8. CASE ServeStop
  <2>1. file' = file /\ stack'.up = "none"
    BY <1>8 DEF ServeStop, NoStack
  <2>2. Life!TakeDown
    BY <2>1 DEF Life!TakeDown, Life!NothingUp
  <2> QED BY <2>2 DEF Life!DeploymentNext
<1>9. CASE \/ \E r \in Run : Begin(r)
           \/ Send \/ Timeout \/ TakenForAbsent \/ Hear \/ ProbeHttps \/ JobFails
           \/ ServeStatus \/ ServeBackup \/ ServeImport \/ ServeCheck \/ ServeHealth
           \/ \E what \in {"stop", "start"} : Ask(what)
  BY <1>2, <1>9 DEF Begin, Send, Timeout, TakenForAbsent, Hear, ProbeHttps, JobFails, ServeStatus, ServeBackup,
                    ServeImport, ServeCheck, ServeHealth, Ask, instance
<1> QED BY <1>3, <1>4, <1>5, <1>6, <1>7, <1>8, <1>9 DEF Next, Manager, Agent

\* What GoLive lets the Agent do to the instance, halfway or all the way, is a
\* deployment: the same that InstanceRuntime's handlers implement step by step.
THEOREM DeploymentTheorem == Spec => InstanceIsDeployed
<1>1. Init => Life!DeploymentInit
  <2> SUFFICES ASSUME Init PROVE Life!DeploymentInit
    OBVIOUS
  <2>1. PICK old \in {None, [capsule |-> 0, public |-> TRUE]} :
          /\ file = old
          /\ stack \in {NoStack} \union (IF old = None THEN {} ELSE {[up |-> "all", of |-> old]})
    BY DEF Init
  <2>2. file \in Release \union {None}
    <3>1. 0 \in 0..Runs
      BY BoundAssumption
    <3>2. [capsule |-> 0, public |-> TRUE] \in Release
      BY <3>1 DEF Release
    <3> QED BY <2>1, <3>2
  <2>3. \/ stack.up = "none"
        \/ file # None /\ stack.up = "all" /\ stack.of = file
    BY <2>1 DEF NoStack
  <2> QED BY <2>2, <2>3 DEF Life!DeploymentInit, Life!NothingUp
<1>2. Sound /\ [Next]_vars => [Life!DeploymentNext]_(Life!deployment)
  BY LifeStep
<1> QED BY <1>1, <1>2, SoundInvariant, PTL DEF Spec, InstanceIsDeployed, Life!DeploymentSpec
=============================================================================
