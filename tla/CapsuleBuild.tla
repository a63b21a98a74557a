---------------------------- MODULE CapsuleBuild ----------------------------
(***************************************************************************)
(* Building capsules: the Manager's build jobs and releases                *)
(* (kx_manager/services/build_jobs.py, builder.py, release.py) and the     *)
(* builder processes they start (kx_builder/main.py, package.py,           *)
(* verify.py).                                                             *)
(*                                                                         *)
(* Every builder has a staging directory of its own, but all of them share *)
(* the Docker engine, whose image tags depend on the application version   *)
(* alone, and the directory the capsule files go to.  A builder is a       *)
(* process: it may outlive the job, and the Manager, that started it.      *)
(***************************************************************************)
EXTENDS Naturals, Sequences, FiniteSets

CONSTANTS
  Builds,         \* build requests, each with a source tree of its own
  Releases,       \* those made by GO LIVE in the operations pool
  Asks,           \* what each request may ask for
  Unready,        \* those whose source directory or signing key is not there
  Outputs,        \* capsule files
  OutputOf,       \* the capsule file of each request
  Threads,        \* KX_CAPSULE_BUILD_CONCURRENCY, 1 by default
  None,           \* no image, no file
  Faults          \* bound: commands and file operations that fail, and deaths
                  \* of the Manager, counted together

ASSUME BuildAssumption ==
  /\ Releases \subseteq Builds /\ Unready \subseteq Builds /\ None \notin Builds
  /\ Asks \in [Builds -> SUBSET {"build", "force", "rebuild"}]
  /\ \A b \in Releases : Asks[b] \subseteq {"force"}
  /\ OutputOf \in [Builds -> Outputs]
ASSUME BoundAssumption == Threads \in Nat \ {0} /\ Faults \in Nat

VARIABLES
  job,            \* the records of the build jobs
  asked,          \* what each request asks for
  proc,           \* the builder processes
  tag,            \* whose image each local tag names
  stage,          \* what each builder has in its staging directory
  path, file,     \* the file each output names, and the files written so far
  met,            \* history: the builds that were at work at the same time
  faults

vars == <<job, asked, proc, tag, stage, path, file, met, faults>>

Tags == {"django", "frontend"}
\* The archives of locally built images and the tag each is saved from; celery
\* stands for celeryworker and celerybeat.  The images of external services are
\* pulled once and never replaced.
Archives == <<"frontend-next", "django-api", "celery">>
ArchiveNames == {Archives[i] : i \in 1..Len(Archives)}
TagOf(a) == IF a = "frontend-next" THEN "frontend" ELSE "django"

Closed == {"succeeded", "failed"}
Working == {"preflight", "building", "waiting"}
Running == {"check", "django", "frontend", "save", "seal", "package", "clear",
            "open", "compress", "verify"}

NoImages == [a \in ArchiveNames |-> None]
NoStage == [image |-> NoImages, sums |-> NoImages]
NoFile == [by |-> {}, whole |-> FALSE, holds |-> NoStage]

\* The archives by whose image they hold, and checksums.txt by whose it sums.
Stages == [image : [ArchiveNames -> Builds \union {None}],
           sums : [ArchiveNames -> Builds \union {None}]]

TypeOK ==
  \* "waiting": the record says running; the time is up, and the thread waits for
  \* the builder's output to end.
  \* "lost": the record still says queued or running, the thread is gone.
  /\ job \in [Builds -> {"none", "queued", "lost"} \union Working \union Closed]
  /\ asked \in [Builds -> {"build", "force", "rebuild"}]
  /\ proc \in [Builds -> [step : {"none", "ok", "bad"} \union Running, n : 1..3]]
  /\ tag \in [Tags -> Builds \union {None}]
  /\ stage \in [Builds -> Stages]
  /\ path \in [Outputs -> Builds \union {None}]
  /\ file \in [Builds -> [by : SUBSET Builds, whole : BOOLEAN, holds : Stages]]
  /\ met \in [Builds -> SUBSET Builds]
  /\ faults \in 0..Faults

Init ==
  /\ job = [b \in Builds |-> "none"]
  /\ asked = [b \in Builds |-> "build"]
  /\ proc = [b \in Builds |-> [step |-> "none", n |-> 1]]
  /\ tag = [t \in Tags |-> None]
  /\ stage = [b \in Builds |-> NoStage]
  /\ path = [o \in Outputs |-> None]
  /\ file = [b \in Builds |-> NoFile]
  /\ met = [b \in Builds |-> {}]
  /\ faults = 0

Fault == faults < Faults /\ faults' = faults + 1
NoFault == UNCHANGED faults

At(b, step) == proc[b].step = step
GoTo(b, step) == proc' = [proc EXCEPT ![b] = [step |-> step, n |-> 1]]
IsRunning(b) == proc[b].step \in Running
\* The end of a builder: its staging directory, a temporary one, is of no use.
End(b, result) == GoTo(b, result) /\ stage' = [stage EXCEPT ![b] = NoStage]

\* A file lives while it has a name or a writer.
WritersOf(f) == {c \in Builds : At(c, "compress") /\ c \in file[f].by}
Unlink(o) ==
  /\ path' = [path EXCEPT ![o] = None]
  /\ file' = IF path[o] = None THEN file
             ELSE [file EXCEPT ![path[o]] = IF WritersOf(path[o]) = {} THEN NoFile ELSE @]

\* Mutant: store_true with the wrong default, so every build may overwrite.
ForcedAlways(b) == TRUE

\* --force: asked for, or added by rebuild_capsule and prepare_signed_release.
Forced(b) == asked[b] # "build"

-----------------------------------------------------------------------------
(* The Manager.                                                            *)

\* create_build_job, or the release step of a GO LIVE job.
Create(b) ==
  /\ job[b] = "none"
  /\ job' = [job EXCEPT ![b] = "queued"]
  /\ \E what \in Asks[b] : asked' = [asked EXCEPT ![b] = what]
  /\ NoFault
  /\ UNCHANGED <<proc, tag, stage, path, file, met>>

\* A pool thread takes the job.  The operations pool has a thread of its own,
\* so a release does not wait for the build pool, nor a build for a release.
Take(b) ==
  /\ job[b] = "queued"
  /\ LET lane == IF b \in Releases THEN Releases ELSE Builds \ Releases
         slots == IF b \in Releases THEN 1 ELSE Threads
     IN Cardinality({c \in lane : job[c] \in Working}) < slots
  /\ job' = [job EXCEPT ![b] = "preflight"]
  /\ NoFault
  /\ UNCHANGED <<asked, proc, tag, stage, path, file, met>>

\* No Docker engine, no source directory, no usable signing key.
PreflightFails(b) ==
  /\ job[b] = "preflight"
  /\ job' = [job EXCEPT ![b] = "failed"]
  /\ IF b \in Unready THEN NoFault ELSE Fault
  /\ UNCHANGED <<asked, proc, tag, stage, path, file, met>>

\* rebuild_capsule deletes the capsule before the builder is started.
StartBuilder(b) ==
  /\ job[b] = "preflight"
  /\ b \notin Unready
  /\ job' = [job EXCEPT ![b] = "building"]
  /\ GoTo(b, "check")
  /\ IF asked[b] = "rebuild" THEN Unlink(OutputOf[b]) ELSE UNCHANGED <<path, file>>
  /\ LET others == {c \in Builds : IsRunning(c) \/ job[c] = "building"} IN
       met' = [c \in Builds |-> IF c = b THEN met[b] \union others
                                ELSE IF c \in others THEN met[c] \union {b} ELSE met[c]]
  /\ NoFault
  /\ UNCHANGED <<asked, tag, stage>>

\* verify: the file is read at one moment, its archives against its checksums.
Accepted(o) ==
  /\ path[o] # None
  /\ file[path[o]].whole
  /\ file[path[o]].holds.image = file[path[o]].holds.sums

\* Mutant: the exit status of the builder is not looked at.
CloseAny(b) ==
  /\ job[b] = "building"
  /\ proc[b].step \in {"ok", "bad"}
  /\ job' = [job EXCEPT ![b] = IF path[OutputOf[b]] # None THEN "succeeded" ELSE "failed"]
  /\ NoFault
  /\ UNCHANGED <<asked, proc, tag, stage, path, file, met>>

\* The builder has ended.  Success is its exit status and a file that exists;
\* a release runs the verifier once more.
Close(b) ==
  /\ job[b] = "building"
  /\ proc[b].step \in {"ok", "bad"}
  /\ LET o == OutputOf[b]
         good == At(b, "ok") /\ path[o] # None /\ (b \in Releases => Accepted(o))
     IN job' = [job EXCEPT ![b] = IF good THEN "succeeded" ELSE "failed"]
  /\ NoFault
  /\ UNCHANGED <<asked, proc, tag, stage, path, file, met>>

\* Mutant: subprocess.run without a timeout.
TimeoutNever(b) == FALSE /\ UNCHANGED vars

\* The time of subprocess.run is up: "uv run" is killed.  The builder below it
\* dies with it, or goes on.  Where it goes on the call returns at once (POSIX), or
\* reads on until the builder has closed the output it inherited (Windows).
Timeout(b) ==
  /\ job[b] = "building"
  /\ IsRunning(b)
  /\ \/ job' = [job EXCEPT ![b] = "failed"] /\ (End(b, "bad") \/ UNCHANGED <<proc, stage>>)
     \/ job' = [job EXCEPT ![b] = "waiting"] /\ UNCHANGED <<proc, stage>>
  /\ NoFault
  /\ UNCHANGED <<asked, tag, path, file, met>>

\* The output has ended at last: TimeoutExpired, however the builder ended.
GiveUp(b) ==
  /\ job[b] = "waiting"
  /\ ~IsRunning(b)
  /\ job' = [job EXCEPT ![b] = "failed"]
  /\ NoFault
  /\ UNCHANGED <<asked, proc, tag, stage, path, file, met>>

\* The Manager dies and comes back; nothing looks at the old records, and any
\* of the builders may go on.
Crash ==
  /\ Fault
  /\ job' = [b \in Builds |-> IF job[b] \in {"queued"} \union Working THEN "lost" ELSE job[b]]
  /\ \E alive \in SUBSET {b \in Builds : IsRunning(b)} :
       LET dies(b) == IsRunning(b) /\ b \notin alive IN
       /\ proc' = [b \in Builds |-> IF dies(b) THEN [step |-> "bad", n |-> 1] ELSE proc[b]]
       /\ stage' = [b \in Builds |-> IF dies(b) THEN NoStage ELSE stage[b]]
  /\ UNCHANGED <<asked, tag, path, file, met>>

-----------------------------------------------------------------------------
(* The builder process: kx-builder capsule build.                          *)

\* The command line refuses an output that exists unless --force is given.
Check(b) ==
  /\ At(b, "check")
  /\ IF path[OutputOf[b]] # None /\ ~Forced(b) THEN End(b, "bad")
     ELSE GoTo(b, "django") /\ UNCHANGED stage
  /\ NoFault
  /\ UNCHANGED <<job, asked, tag, path, file, met>>

\* docker build --tag, first for the backend, then for the frontend.
Build(b) ==
  /\ proc[b].step \in Tags
  /\ tag' = [tag EXCEPT ![proc[b].step] = b]
  /\ GoTo(b, IF At(b, "django") THEN "frontend" ELSE "save")
  /\ NoFault
  /\ UNCHANGED <<job, asked, stage, path, file, met>>

\* Mutant: the loop runs once too often.
SaveOneMore(b) ==
  /\ At(b, "save")
  /\ LET a == Archives[proc[b].n] IN stage' = [stage EXCEPT ![b].image[a] = tag[TagOf(a)]]
  /\ IF proc[b].n <= Len(Archives) THEN proc' = [proc EXCEPT ![b].n = @ + 1]
                                   ELSE GoTo(b, "seal")
  /\ NoFault
  /\ UNCHANGED <<job, asked, tag, path, file, met>>

\* docker save of the next archive, from what the tag names now.
Save(b) ==
  /\ At(b, "save")
  /\ tag[TagOf(Archives[proc[b].n])] # None
  /\ LET a == Archives[proc[b].n] IN stage' = [stage EXCEPT ![b].image[a] = tag[TagOf(a)]]
  /\ IF proc[b].n < Len(Archives) THEN proc' = [proc EXCEPT ![b].n = @ + 1]
                                  ELSE GoTo(b, "seal")
  /\ NoFault
  /\ UNCHANGED <<job, asked, tag, path, file, met>>

\* checksums.txt over the staged files, and the signature over it.
Seal(b) ==
  /\ At(b, "seal")
  /\ stage' = [stage EXCEPT ![b].sums = stage[b].image]
  /\ GoTo(b, "package")
  /\ NoFault
  /\ UNCHANGED <<job, asked, tag, path, file, met>>

\* package_capsule: the staging is validated, the output is looked at once
\* more, and the tar archive is made.
Package(b) ==
  /\ At(b, "package")
  /\ IF path[OutputOf[b]] # None /\ ~Forced(b) THEN End(b, "bad")
     ELSE GoTo(b, "clear") /\ UNCHANGED stage
  /\ NoFault
  /\ UNCHANGED <<job, asked, tag, path, file, met>>

\* "if output.exists(): output.unlink()", in package_capsule and once more in
\* compress_tar_to_kxcap, whatever was decided before.
Clear(b) ==
  /\ At(b, "clear")
  /\ Unlink(OutputOf[b])
  /\ GoTo(b, "open")
  /\ NoFault
  /\ UNCHANGED <<job, asked, tag, stage, met>>

\* open("wb"): a new file, or a file another builder opened in between, which
\* is truncated and from then on may have two writers.
Open(b) ==
  /\ At(b, "open")
  /\ LET o == OutputOf[b]
         f == IF path[o] = None THEN b ELSE path[o]
     IN /\ path' = [path EXCEPT ![o] = f]
        /\ file' = [file EXCEPT ![f] = [NoFile EXCEPT !.by = {b} \union WritersOf(f)]]
  /\ GoTo(b, "compress")
  /\ NoFault
  /\ UNCHANGED <<job, asked, tag, stage, met>>

\* The last byte is written; the file may have lost its name meanwhile, and
\* what two builders wrote is no archive.
Compress(b) ==
  /\ At(b, "compress")
  /\ LET f == CHOOSE g \in Builds : b \in file[g].by IN
       file' = [file EXCEPT ![f] =
                 IF path[OutputOf[b]] # f /\ WritersOf(f) = {b} THEN NoFile
                 ELSE IF @.by = {b} THEN [by |-> {b}, whole |-> TRUE, holds |-> stage[b]]
                 ELSE @]
  /\ GoTo(b, "verify")
  /\ NoFault
  /\ UNCHANGED <<job, asked, tag, stage, path, met>>

\* The digest and the verification read the output by its name.
Verify(b) ==
  /\ At(b, "verify")
  /\ End(b, IF Accepted(OutputOf[b]) THEN "ok" ELSE "bad")
  /\ NoFault
  /\ UNCHANGED <<job, asked, tag, path, file, met>>

\* Mutant: the exit status of docker build is not looked at.
StepFailsUnseen(b) ==
  /\ IsRunning(b)
  /\ GoTo(b, CASE At(b, "django") -> "frontend" [] At(b, "frontend") -> "save" [] OTHER -> "bad")
  /\ Fault
  /\ UNCHANGED <<job, asked, tag, stage, path, file, met>>

\* A Docker command, a missing image, a full disk, a validation: the exception
\* ends the process, and a file that was opened stays as far as it got.
StepFails(b) ==
  /\ IsRunning(b)
  /\ End(b, "bad")
  /\ Fault
  /\ UNCHANGED <<job, asked, tag, path, file, met>>

-----------------------------------------------------------------------------
Manage(b) == \/ Take(b) \/ PreflightFails(b) \/ StartBuilder(b) \/ Close(b)
             \/ Timeout(b) \/ GiveUp(b)

Builder(b) ==
  \/ Check(b) \/ Build(b) \/ Save(b) \/ Seal(b) \/ Package(b) \/ Clear(b)
  \/ Open(b) \/ Compress(b) \/ Verify(b) \/ StepFails(b)

Next == Crash \/ \E b \in Builds : Create(b) \/ Manage(b) \/ Builder(b)

Spec == Init /\ [][Next]_vars

\* The threads of the pools run and the clock of subprocess.run with them; nothing
\* is asked of a builder, which may hang.
FairSpec == Spec /\ \A b \in Builds : WF_vars(Manage(b))

-----------------------------------------------------------------------------
(* Properties.                                                             *)

\* A capsule that was built while no other builder was at work holds the
\* images of its own source and of no earlier build whose tags it found
\* (_docker_build_image and _docker_save_image of package.py).
\* (Needs failing commands, and builders that follow one another.)
OwnImages ==
  \A o \in Outputs, w \in Builds :
    Accepted(o) /\ file[path[o]].by = {w} /\ met[w] = {}
      => \A a \in ArchiveNames : file[path[o]].holds.image[a] = w

\* Every capsule that is written to the end passes its own checksums, even
\* when another builder moved the tags while it was made: the sums come from
\* the archives (_write_checksums_file).
\* (Needs two builders at a time.)
Sealed ==
  \A f \in Builds : file[f].whole => file[f].holds.sums = file[f].holds.image

\* What is in a finished capsule is what was put there, by whom it says.
CapsulesAreSound == Sealed /\ OwnImages

\* A job is closed as succeeded only with its own capsule in place, verified,
\* unless a builder of the same file was at work with it (build_jobs.py takes
\* the exit status and the existence of the file).
\* (Needs failing steps, timeouts and rebuilds.)
Rivals(b) == {c \in met[b] : OutputOf[c] = OutputOf[b]}
SuccessIsOwn ==
  [][\A b \in Builds : job[b] # "succeeded" /\ job'[b] = "succeeded" /\ Rivals(b) = {}
       => Accepted(OutputOf[b]) /\ file[path[OutputOf[b]]].by = {b}]_vars

\* A good capsule is taken away only by a build that was told to replace it, or
\* that had a rival for the file since it looked: without --force nothing else
\* is overwritten (_validate_build_request, package_capsule).
\* (Needs two requests for one file.)
CapsuleKept ==
  [][\A o \in Outputs : Accepted(o) /\ path'[o] # path[o]
       => \E b \in Builds : /\ OutputOf[b] = o /\ (proc'[b] # proc[b])
                           /\ (asked[b] # "build" \/ Rivals(b) # {})]_vars

\* Every job that was queued is closed in the end, the ones behind a hanging
\* builder too, unless the Manager died with it: a lane is held for ever only by a
\* builder that outlives the "uv run" it was started with and keeps its output
\* open, where the platform waits for that.
\* (Needs builders that hang, with another job behind them; fairness of the pool
\* threads.  Builds is finite and no request is made twice.)
LaneHeld == \E c \in Builds : <>[](job[c] = "waiting")
Pending(b) == job[b] \in {"queued"} \union Working
QueuedIsClosed == ~LaneHeld => <>[](\A b \in Builds : ~Pending(b))
=============================================================================
