------------------------- MODULE CapsuleBuild_proofs -------------------------
(***************************************************************************)
(* What holds of the capsules for any number of builds, output files and   *)
(* pool threads, whatever commands fail and however often the Manager dies.*)
(***************************************************************************)
EXTENDS CapsuleBuild, TLAPS

Late == {"package", "clear", "open", "compress", "verify"}
Opened == {"compress", "verify", "ok", "bad"}
Steps == {"none", "ok", "bad"} \union Running

\* A builder is at work, or a job still waits for the one it started.
Busy(b) == IsRunning(b) \/ job[b] = "building"

\* A builder is started once, and those at work at the same time know each other.
Begun ==
  /\ \A b \in Builds : job[b] \in {"none", "queued", "preflight"} => proc[b].step = "none"
  /\ \A b, c \in Builds : b # c /\ Busy(b) /\ Busy(c) => c \in met[b]

\* Names and writers of the files: a builder writes one file, of its own output.
Files ==
  /\ \A o \in Outputs : path[o] # None => OutputOf[path[o]] = o
  /\ \A f, w \in Builds : w \in file[f].by => OutputOf[w] = OutputOf[f] /\ proc[w].step \in Opened
  /\ \A f, g, w \in Builds : w \in file[f].by /\ w \in file[g].by => f = g
  /\ \A b \in Builds : proc[b].step = "compress" => \E f \in Builds : b \in file[f].by

\* The images of a builder that met no other are its own, from the tags to the file.
Tagged(b) ==
  met[b] = {} =>
    /\ proc[b].step = "frontend" => tag["django"] = b
    /\ proc[b].step = "save" => tag["django"] = b /\ tag["frontend"] = b
Staged(b) ==
  met[b] = {} =>
    /\ proc[b].step = "save" => \A i \in 1..3 : i < proc[b].n => stage[b].image[Archives[i]] = b
    /\ proc[b].step \in {"seal"} \union Late => \A a \in ArchiveNames : stage[b].image[a] = b
Filled(f) ==
  \A w \in Builds : file[f].whole /\ file[f].by = {w} /\ met[w] = {} =>
    \A a \in ArchiveNames : file[f].holds.image[a] = w
Own == \A b \in Builds : Tagged(b) /\ Staged(b) /\ Filled(b)

\* The sums are of the images, in the staging directory and in the file.
Summed ==
  /\ \A b \in Builds : proc[b].step \in Late => stage[b].sums = stage[b].image
  /\ Sealed

\* What a builder without a rival for its file found there is still there.
Untouched(b) ==
  Rivals(b) = {} =>
    /\ proc[b].step \in {"clear", "open"} /\ asked[b] = "build" => path[OutputOf[b]] = None
    /\ proc[b].step \in {"compress", "verify"} =>
         path[OutputOf[b]] # None /\ file[path[OutputOf[b]]].by = {b}
    /\ proc[b].step = "ok" /\ job[b] = "building" =>
         Accepted(OutputOf[b]) /\ file[path[OutputOf[b]]].by = {b}
Alone == \A b \in Builds : Untouched(b)

Sound == TypeOK /\ Begun /\ Files /\ Own /\ Summed /\ Alone

-----------------------------------------------------------------------------
(* Facts about the tags, the archives and the files.                       *)

LEMMA ArchiveFact ==
  /\ Len(Archives) = 3 /\ \A i \in 1..3 : Archives[i] \in ArchiveNames
  /\ Archives[1] = "frontend-next" /\ Archives[2] = "django-api" /\ Archives[3] = "celery"
  /\ \A a \in ArchiveNames : \E i \in 1..3 : a = Archives[i]
  /\ \A a \in ArchiveNames : TagOf(a) \in Tags
BY DEF Archives, ArchiveNames, TagOf, Tags

LEMMA NoneFact ==
  NoStage \in Stages /\ NoFile \in [by : SUBSET Builds, whole : BOOLEAN, holds : Stages]
  /\ NoFile.by = {} /\ NoFile.whole = FALSE
BY DEF NoStage, NoImages, NoFile, Stages

LEMMA Initial == Init => Sound
<1> SUFFICES ASSUME Init PROVE Sound
  OBVIOUS
<1>1. TypeOK
  BY BoundAssumption, NoneFact DEF Init, TypeOK
<1>2. \A b \in Builds : proc[b].step = "none" /\ ~IsRunning(b) /\ job[b] = "none"
                       /\ file[b].by = {} /\ file[b].whole = FALSE
  BY NoneFact DEF Init, IsRunning, Running
<1>3. \A o \in Outputs : path[o] = None
  BY DEF Init
<1>4. Begun
  BY <1>2 DEF Begun, Busy
<1>5. Files
  BY <1>2, <1>3 DEF Files
<1>6. Own
  BY <1>2 DEF Own, Tagged, Staged, Filled, Late
<1>7. Summed
  BY <1>2 DEF Summed, Sealed, Late
<1>8. Alone
  BY <1>2 DEF Alone, Untouched
<1> QED BY <1>1, <1>4, <1>5, <1>6, <1>7, <1>8 DEF Sound

\* The record of one builder changes.
LEMMA GoToFact ==
  ASSUME TypeOK, NEW b \in Builds, NEW s \in Steps, GoTo(b, s)
  PROVE  /\ proc' \in [Builds -> [step : {"none", "ok", "bad"} \union Running, n : 1..3]]
         /\ proc'[b].step = s /\ proc'[b].n = 1
         /\ \A c \in Builds : c # b => proc'[c] = proc[c]
BY DEF TypeOK, GoTo, Steps

LEMMA EndFact ==
  ASSUME TypeOK, NEW b \in Builds, NEW s \in {"ok", "bad"}, End(b, s)
  PROVE  /\ proc' \in [Builds -> [step : {"none", "ok", "bad"} \union Running, n : 1..3]]
         /\ proc'[b].step = s /\ proc'[b].n = 1
         /\ \A c \in Builds : c # b => proc'[c] = proc[c]
         /\ stage' \in [Builds -> Stages]
         /\ \A c \in Builds : c # b => stage'[c] = stage[c]
BY GoToFact, NoneFact DEF TypeOK, End, Steps

\* The name goes, and the file with it unless somebody writes to it.
LEMMA UnlinkFact ==
  ASSUME Sound, NEW o \in Outputs, Unlink(o)
  PROVE  /\ path' \in [Outputs -> Builds \union {None}] /\ path'[o] = None
         /\ \A q \in Outputs : q # o => path'[q] = path[q]
         /\ file' \in [Builds -> [by : SUBSET Builds, whole : BOOLEAN, holds : Stages]]
         /\ \A f \in Builds : \/ file'[f] = file[f]
                              \/ file'[f] = NoFile /\ f = path[o] /\ WritersOf(f) = {}
<1>1. TypeOK
  BY DEF Sound
<1> QED BY <1>1, NoneFact DEF TypeOK, Unlink

-----------------------------------------------------------------------------
(* Jobs that change hands and builders that end.                           *)

\* Nothing is lost by a builder that ends badly, whatever becomes of its job.
LEMMA Retire ==
  ASSUME Sound,
         proc' \in [Builds -> [step : Steps, n : 1..3]],
         stage' \in [Builds -> Stages],
         job' \in [Builds -> {"none", "queued", "lost"} \union Working \union Closed],
         asked' \in [Builds -> {"build", "force", "rebuild"}],
         faults' \in 0..Faults,
         \A c \in Builds : proc'[c] = proc[c] \/ (IsRunning(c) /\ proc'[c].step = "bad"),
         \A c \in Builds : stage'[c] = stage[c] \/ proc'[c].step = "bad",
         \A c \in Builds : job'[c] = "building" => job[c] = "building",
         \A c \in Builds : job'[c] \in {"none", "queued", "preflight"} => job[c] \in {"none", "queued", "preflight"},
         \A c \in Builds : asked'[c] = asked[c] \/ job[c] = "none",
         UNCHANGED <<tag, path, file, met>>
  PROVE  Sound'
<1>1. TypeOK /\ Begun /\ Files /\ Own /\ Summed /\ Alone
  BY DEF Sound
<1>2. \A c \in Builds : IsRunning(c) => proc[c].step \notin {"none", "ok", "bad"}
  BY DEF IsRunning, Running
<1>3. \A c \in Builds : proc'[c].step \notin {"bad"} => proc'[c] = proc[c] /\ stage'[c] = stage[c]
  OBVIOUS
<1>4. \A c \in Builds : IsRunning(c)' => IsRunning(c) /\ proc'[c] = proc[c] /\ stage'[c] = stage[c]
  BY <1>2, <1>3 DEF IsRunning, Running
<1>5. TypeOK'
  BY <1>1 DEF TypeOK, Steps
<1>6. Begun'
  <2>1. \A b \in Builds : Busy(b)' => Busy(b)
    BY <1>4 DEF Busy
  <2>2. \A b \in Builds : job'[b] \in {"none", "queued", "preflight"} => proc'[b].step = "none"
    BY <1>1, <1>2 DEF Begun
  <2>3. \A b, c \in Builds : b # c /\ Busy(b)' /\ Busy(c)' => c \in met'[b]
    BY <1>1, <2>1 DEF Begun
  <2> QED BY <2>2, <2>3 DEF Begun
<1>7. Files'
  <2>1. \A w \in Builds : proc[w].step \in Opened => proc'[w].step \in Opened
    BY DEF Opened
  <2>2. \A b \in Builds : proc'[b].step = "compress" => proc[b].step = "compress"
    BY <1>3
  <2>3. file' = file /\ path' = path
    OBVIOUS
  <2> QED BY <1>1, <2>1, <2>2, <2>3 DEF Files
<1>8. Own'
  <2>1. tag' = tag /\ file' = file /\ met' = met
    OBVIOUS
  <2>2. ASSUME NEW b \in Builds PROVE Tagged(b)'
    <3>1. proc'[b].step \in {"frontend", "save"} => proc'[b].step = proc[b].step
      BY <1>3
    <3> QED BY <1>1, <2>1, <3>1 DEF Own, Tagged
  <2>3. ASSUME NEW b \in Builds PROVE Staged(b)'
    <3>1. CASE proc'[b].step = "bad"
      BY <3>1 DEF Staged, Late
    <3>2. CASE proc'[b] = proc[b] /\ stage'[b] = stage[b]
      BY <1>1, <2>1, <3>2 DEF Own, Staged
    <3> QED BY <1>3, <3>1, <3>2
  <2>4. ASSUME NEW f \in Builds PROVE Filled(f)'
    BY <1>1, <2>1 DEF Own, Filled
  <2> QED BY <2>2, <2>3, <2>4 DEF Own
<1>9. Summed'
  <2>1. \A b \in Builds : proc'[b].step \in Late => stage'[b].sums = stage'[b].image
    <3>1. \A b \in Builds : proc'[b].step \in Late => proc'[b] = proc[b] /\ stage'[b] = stage[b]
      BY <1>3 DEF Late
    <3> QED BY <1>1, <3>1 DEF Summed
  <2> QED BY <1>1, <2>1 DEF Summed, Sealed
<1>10. Alone'
  <2>1. ASSUME NEW b \in Builds PROVE Untouched(b)'
    <3>1. SUFFICES ASSUME Rivals(b)' = {} PROVE Untouched(b)'
      BY DEF Untouched
    <3>2. Rivals(b) = {}
      BY <3>1 DEF Rivals
    <3>3. CASE proc'[b].step = "bad"
      BY <3>3 DEF Untouched
    <3>4. CASE proc'[b] = proc[b]
      <4>1. asked'[b] = asked[b] \/ proc[b].step = "none"
        BY <1>1 DEF Begun
      <4>2. Accepted(OutputOf[b]) => Accepted(OutputOf[b])'
        BY DEF Accepted
      <4> QED BY <1>1, <3>2, <3>4, <4>1, <4>2 DEF Alone, Untouched
    <3> QED BY <3>3, <3>4
  <2> QED BY <2>1 DEF Alone
<1> QED BY <1>5, <1>6, <1>7, <1>8, <1>9, <1>10 DEF Sound

\* The record of a job alone.
LEMMA JobStep ==
  ASSUME Sound, NEW b \in Builds,
         NEW s \in {"queued", "preflight", "waiting", "failed", "succeeded"}, job' = [job EXCEPT ![b] = s],
         s \in {"queued", "preflight"} => job[b] \in {"none", "queued"},
         asked' \in [Builds -> {"build", "force", "rebuild"}],
         \A c \in Builds : asked'[c] = asked[c] \/ job[c] = "none",
         faults' \in 0..Faults, UNCHANGED <<proc, tag, stage, path, file, met>>
  PROVE  Sound'
<1>1. TypeOK
  BY DEF Sound
<1>2. /\ proc' \in [Builds -> [step : Steps, n : 1..3]] /\ stage' \in [Builds -> Stages]
      /\ job' \in [Builds -> {"none", "queued", "lost"} \union Working \union Closed]
  BY <1>1 DEF TypeOK, Steps, Working, Closed
<1>3. /\ \A c \in Builds : job'[c] = "building" => job[c] = "building"
      /\ \A c \in Builds : job'[c] \in {"none", "queued", "preflight"} => job[c] \in {"none", "queued", "preflight"}
  BY <1>1 DEF TypeOK
<1> QED BY <1>2, <1>3, Retire

\* A builder that ends badly.
LEMMA EndStep ==
  ASSUME Sound, NEW b \in Builds, IsRunning(b), End(b, "bad"), faults' \in 0..Faults,
         job' = job \/ job' = [job EXCEPT ![b] = "failed"],
         UNCHANGED <<asked, tag, path, file, met>>
  PROVE  Sound'
<1>1. TypeOK
  BY DEF Sound
<1>2. /\ proc' \in [Builds -> [step : Steps, n : 1..3]] /\ proc'[b].step = "bad"
      /\ \A c \in Builds : c # b => proc'[c] = proc[c] /\ stage'[c] = stage[c]
      /\ stage' \in [Builds -> Stages]
  BY <1>1, EndFact DEF Steps
<1>3. /\ job' \in [Builds -> {"none", "queued", "lost"} \union Working \union Closed]
      /\ \A c \in Builds : job'[c] = "building" => job[c] = "building"
      /\ \A c \in Builds : job'[c] \in {"none", "queued", "preflight"} => job[c] \in {"none", "queued", "preflight"}
  BY <1>1 DEF TypeOK, Closed
<1>4. asked' \in [Builds -> {"build", "force", "rebuild"}] /\ asked' = asked
  BY <1>1 DEF TypeOK
<1> QED BY <1>2, <1>3, <1>4, Retire

LEMMA FaultFact ==
  ASSUME TypeOK, Fault \/ NoFault PROVE faults' \in 0..Faults
BY BoundAssumption DEF TypeOK, Fault, NoFault

LEMMA CrashStep ==
  ASSUME Sound, Crash PROVE Sound'
<1>1. TypeOK /\ faults' \in 0..Faults
  BY FaultFact DEF Sound, Crash
<1>2. PICK alive \in SUBSET {b \in Builds : IsRunning(b)} :
        /\ proc' = [b \in Builds |-> IF IsRunning(b) /\ b \notin alive THEN [step |-> "bad", n |-> 1] ELSE proc[b]]
        /\ stage' = [b \in Builds |-> IF IsRunning(b) /\ b \notin alive THEN NoStage ELSE stage[b]]
  BY DEF Crash
<1>3. /\ job' = [b \in Builds |-> IF job[b] \in {"queued"} \union Working THEN "lost" ELSE job[b]]
      /\ UNCHANGED <<asked, tag, path, file, met>>
  BY DEF Crash
<1>4. /\ proc' \in [Builds -> [step : Steps, n : 1..3]]
      /\ \A c \in Builds : proc'[c] = proc[c] \/ (IsRunning(c) /\ proc'[c].step = "bad")
  BY <1>1, <1>2 DEF TypeOK, Steps
<1>5. /\ stage' \in [Builds -> Stages]
      /\ \A c \in Builds : stage'[c] = stage[c] \/ proc'[c].step = "bad"
  BY <1>1, <1>2, NoneFact DEF TypeOK
<1>6. /\ job' \in [Builds -> {"none", "queued", "lost"} \union Working \union Closed]
      /\ \A c \in Builds : job'[c] = "building" => job[c] = "building"
      /\ \A c \in Builds : job'[c] \in {"none", "queued", "preflight"} => job[c] \in {"none", "queued", "preflight"}
  BY <1>1, <1>3 DEF TypeOK, Working, Closed
<1>7. asked' \in [Builds -> {"build", "force", "rebuild"}] /\ asked' = asked
  BY <1>1, <1>3 DEF TypeOK
<1> QED BY <1>1, <1>3, <1>4, <1>5, <1>6, <1>7, Retire

-----------------------------------------------------------------------------
(* A builder that goes on, without a file.                                 *)

\* What it does for itself is nothing to the others.
LEMMA Advance ==
  ASSUME Sound, NEW b \in Builds, IsRunning(b), TypeOK',
         \A c \in Builds : c # b => proc'[c] = proc[c] /\ stage'[c] = stage[c],
         proc'[b].step \notin {"none", "compress"},
         proc[b].step \in Opened => proc'[b].step \in Opened,
         UNCHANGED <<job, asked, path, file, met>>,
         Tagged(b)', Staged(b)', Untouched(b)',
         proc'[b].step \in Late => stage'[b].sums = stage'[b].image
  PROVE  Sound'
<1>1. TypeOK /\ Begun /\ Files /\ Own /\ Summed /\ Alone
  BY DEF Sound
<1>2. Begun'
  <2>1. \A c \in Builds : Busy(c)' => Busy(c)
    BY DEF Busy, IsRunning
  <2>2. \A c, d \in Builds : c # d /\ Busy(c)' /\ Busy(d)' => d \in met'[c]
    BY <1>1, <2>1 DEF Begun
  <2>3. job[b] \notin {"none", "queued", "preflight"}
    BY <1>1 DEF Begun, IsRunning, Running
  <2>4. \A c \in Builds : job'[c] \in {"none", "queued", "preflight"} => proc'[c].step = "none"
    BY <1>1, <2>3 DEF Begun
  <2> QED BY <2>2, <2>4 DEF Begun
<1>3. Files'
  <2>1. \A w \in Builds : proc[w].step \in Opened => proc'[w].step \in Opened
    OBVIOUS
  <2>2. \A w \in Builds : proc'[w].step = "compress" => proc[w].step = "compress"
    OBVIOUS
  <2> QED BY <1>1, <2>1, <2>2 DEF Files
<1>4. Own'
  <2>1. ASSUME NEW c \in Builds, c # b PROVE Tagged(c)'
    <3>1. SUFFICES ASSUME met[c] = {}, proc[c].step \in {"frontend", "save"} PROVE FALSE
      BY <2>1 DEF Tagged
    <3>2. Busy(c) /\ Busy(b)
      BY <3>1 DEF Busy, IsRunning, Running
    <3> QED BY <1>1, <2>1, <3>1, <3>2 DEF Begun
  <2>2. ASSUME NEW c \in Builds, c # b PROVE Staged(c)'
    BY <1>1, <2>2 DEF Own, Staged
  <2>3. ASSUME NEW f \in Builds PROVE Filled(f)'
    BY <1>1 DEF Own, Filled
  <2> QED BY <2>1, <2>2, <2>3 DEF Own
<1>5. Summed'
  BY <1>1 DEF Summed, Sealed
<1>6. Alone'
  <2>1. ASSUME NEW c \in Builds, c # b PROVE Untouched(c)'
    <3>1. Rivals(c)' = Rivals(c) /\ (Accepted(OutputOf[c]) => Accepted(OutputOf[c])')
      BY DEF Rivals, Accepted
    <3> QED BY <1>1, <2>1, <3>1 DEF Alone, Untouched
  <2> QED BY <2>1 DEF Alone
<1> QED BY <1>2, <1>3, <1>4, <1>5, <1>6 DEF Sound

LEMMA CheckStep ==
  ASSUME Sound, NEW b \in Builds, Check(b) PROVE Sound'
<1>1. TypeOK /\ faults' \in 0..Faults /\ IsRunning(b) /\ proc[b].step = "check"
  BY FaultFact DEF Sound, Check, At, IsRunning, Running
<1>2. CASE End(b, "bad")
  BY <1>1, <1>2, EndStep DEF Check
<1>3. CASE GoTo(b, "django") /\ stage' = stage
  <2>1. /\ proc' \in [Builds -> [step : {"none", "ok", "bad"} \union Running, n : 1..3]]
        /\ proc'[b].step = "django" /\ \A c \in Builds : c # b => proc'[c] = proc[c]
    BY <1>1, <1>3, GoToFact DEF Steps, Running
  <2>2. TypeOK'
    BY <1>1, <1>3, <2>1 DEF TypeOK, Check
  <2>3. Tagged(b)' /\ Staged(b)' /\ Untouched(b)'
    BY <2>1 DEF Tagged, Staged, Untouched, Late
  <2> QED BY <1>1, <1>3, <2>1, <2>2, <2>3, Advance DEF Check, Opened, Late
<1> QED BY <1>2, <1>3 DEF Check

LEMMA BuildStep ==
  ASSUME Sound, NEW b \in Builds, Build(b) PROVE Sound'
<1>1. TypeOK /\ Own /\ faults' \in 0..Faults /\ IsRunning(b) /\ proc[b].step \in {"django", "frontend"}
  BY FaultFact DEF Sound, Build, IsRunning, Running, Tags
<1>2. PICK s \in {"frontend", "save"} : /\ GoTo(b, s)
                                        /\ s = "frontend" => proc[b].step = "django"
                                        /\ s = "save" => proc[b].step = "frontend"
  BY <1>1 DEF Build, At
<1>3. /\ proc' \in [Builds -> [step : {"none", "ok", "bad"} \union Running, n : 1..3]]
      /\ proc'[b].step = s /\ proc'[b].n = 1 /\ \A c \in Builds : c # b => proc'[c] = proc[c]
  BY <1>1, <1>2, GoToFact DEF Steps, Running
<1>4. /\ tag' = [tag EXCEPT ![proc[b].step] = b] /\ stage' = stage
      /\ UNCHANGED <<job, asked, path, file, met>>
  BY DEF Build
<1>5. tag' \in [Tags -> Builds \union {None}] /\ tag'[proc[b].step] = b
      /\ \A t \in Tags : t # proc[b].step => tag'[t] = tag[t]
  BY <1>1, <1>4 DEF TypeOK, Tags
<1>6. TypeOK'
  BY <1>1, <1>3, <1>4, <1>5 DEF TypeOK
<1>7. Tagged(b)'
  <2>1. SUFFICES ASSUME met[b] = {}
                 PROVE  /\ s = "frontend" => tag'["django"] = b
                        /\ s = "save" => tag'["django"] = b /\ tag'["frontend"] = b
    BY <1>3, <1>4 DEF Tagged
  <2>2. s = "save" => tag["django"] = b
    BY <1>1, <1>2, <2>1 DEF Own, Tagged
  <2> QED BY <1>2, <1>5, <2>2 DEF Tags
<1>8. Staged(b)' /\ Untouched(b)' /\ s \notin Late /\ s \notin Opened /\ proc[b].step \notin Opened
  <2>1. \A i \in 1..3 : ~(i < 1)
    OBVIOUS
  <2> QED BY <1>1, <1>3, <2>1 DEF Staged, Untouched, Late, Opened
<1> QED BY <1>1, <1>3, <1>4, <1>6, <1>7, <1>8, Advance DEF Opened

LEMMA SaveStep ==
  ASSUME Sound, NEW b \in Builds, Save(b) PROVE Sound'
<1> DEFINE a == Archives[proc[b].n]
           n == proc[b].n
<1>1. TypeOK /\ Own /\ faults' \in 0..Faults /\ IsRunning(b) /\ proc[b].step = "save" /\ n \in 1..3
  BY FaultFact DEF Sound, Save, At, IsRunning, Running, TypeOK
<1>2. a \in ArchiveNames /\ TagOf(a) \in {"django", "frontend"}
  BY <1>1, ArchiveFact DEF Tags
<1>3. /\ stage' = [stage EXCEPT ![b].image[a] = tag[TagOf(a)]]
      /\ UNCHANGED <<job, asked, tag, path, file, met>>
  BY DEF Save
<1>4. stage[b] \in Stages /\ tag[TagOf(a)] \in Builds \union {None}
  BY <1>1, <1>2 DEF TypeOK, Tags
<1>5. /\ stage' \in [Builds -> Stages] /\ \A c \in Builds : c # b => stage'[c] = stage[c]
      /\ stage'[b].image = [stage[b].image EXCEPT ![a] = tag[TagOf(a)]]
  BY <1>1, <1>2, <1>3, <1>4 DEF TypeOK, Stages
<1>6. /\ stage'[b].image[a] = tag[TagOf(a)]
      /\ \A x \in ArchiveNames : x # a => stage'[b].image[x] = stage[b].image[x]
  BY <1>2, <1>4, <1>5 DEF Stages
<1>7. met[b] = {} => /\ tag["django"] = b /\ tag["frontend"] = b
                     /\ \A i \in 1..3 : i < n => stage[b].image[Archives[i]] = b
  BY <1>1 DEF Own, Tagged, Staged
<1>8. met[b] = {} => \A i \in 1..3 : i <= n => stage'[b].image[Archives[i]] = b
  <2>1. SUFFICES ASSUME met[b] = {}, NEW i \in 1..3, i <= n
                 PROVE  stage'[b].image[Archives[i]] = b
    OBVIOUS
  <2>2. CASE i = n
    BY <1>2, <1>6, <1>7, <2>1, <2>2
  <2>3. CASE i < n /\ Archives[i] # a
    BY <1>6, <1>7, <2>1, <2>3, ArchiveFact
  <2>4. CASE Archives[i] = a
    BY <1>2, <1>6, <1>7, <2>1, <2>4
  <2> QED BY <1>1, <2>1, <2>2, <2>3, <2>4
<1>9. CASE n < 3 /\ proc' = [proc EXCEPT ![b].n = @ + 1]
  <2>1. /\ proc' \in [Builds -> [step : {"none", "ok", "bad"} \union Running, n : 1..3]]
        /\ proc'[b].step = "save" /\ proc'[b].n = n + 1 /\ \A c \in Builds : c # b => proc'[c] = proc[c]
    BY <1>1, <1>9 DEF TypeOK
  <2>2. TypeOK'
    BY <1>1, <1>3, <1>5, <2>1 DEF TypeOK
  <2>3. Tagged(b)'
    BY <1>3, <1>7, <2>1 DEF Tagged
  <2>4. Staged(b)'
    <3>1. \A i \in 1..3 : i < n + 1 => i <= n
      BY <1>1
    <3> QED BY <1>3, <1>8, <2>1, <3>1 DEF Staged, Late
  <2>5. Untouched(b)'
    BY <2>1 DEF Untouched
  <2> QED BY <1>1, <1>3, <1>5, <2>1, <2>2, <2>3, <2>4, <2>5, Advance DEF Opened, Late
<1>10. CASE n = 3 /\ GoTo(b, "seal")
  <2>1. /\ proc' \in [Builds -> [step : {"none", "ok", "bad"} \union Running, n : 1..3]]
        /\ proc'[b].step = "seal" /\ \A c \in Builds : c # b => proc'[c] = proc[c]
    BY <1>1, <1>10, GoToFact DEF Steps, Running
  <2>2. TypeOK'
    BY <1>1, <1>3, <1>5, <2>1 DEF TypeOK
  <2>3. Tagged(b)' /\ Untouched(b)'
    BY <2>1 DEF Tagged, Untouched
  <2>4. Staged(b)'
    <3>1. met[b] = {} => \A x \in ArchiveNames : stage'[b].image[x] = b
      BY <1>8, <1>10, ArchiveFact
    <3> QED BY <1>3, <2>1, <3>1 DEF Staged
  <2> QED BY <1>1, <1>3, <1>5, <2>1, <2>2, <2>3, <2>4, Advance DEF Opened, Late
<1> QED BY <1>1, <1>9, <1>10, ArchiveFact DEF Save

LEMMA SealStep ==
  ASSUME Sound, NEW b \in Builds, Seal(b) PROVE Sound'
<1>1. TypeOK /\ Own /\ faults' \in 0..Faults /\ IsRunning(b) /\ proc[b].step = "seal"
  BY FaultFact DEF Sound, Seal, At, IsRunning, Running
<1>2. /\ proc' \in [Builds -> [step : {"none", "ok", "bad"} \union Running, n : 1..3]]
      /\ proc'[b].step = "package" /\ \A c \in Builds : c # b => proc'[c] = proc[c]
  BY <1>1, GoToFact DEF Seal, Steps, Running
<1>3. /\ stage' = [stage EXCEPT ![b].sums = stage[b].image]
      /\ UNCHANGED <<job, asked, tag, path, file, met>>
  BY DEF Seal
<1>4. /\ stage' \in [Builds -> Stages] /\ \A c \in Builds : c # b => stage'[c] = stage[c]
      /\ stage'[b].image = stage[b].image /\ stage'[b].sums = stage[b].image
  <2>1. stage \in [Builds -> Stages] /\ stage[b] \in Stages
    BY <1>1 DEF TypeOK
  <2>2. stage'[b] = [stage[b] EXCEPT !.sums = stage[b].image] /\ \A c \in Builds : c # b => stage'[c] = stage[c]
    BY <1>3, <2>1
  <2>3. stage'[b].image = stage[b].image /\ stage'[b].sums = stage[b].image /\ stage'[b] \in Stages
    BY <2>1, <2>2 DEF Stages
  <2> QED BY <1>3, <2>1, <2>2, <2>3
<1>5. TypeOK'
  BY <1>1, <1>2, <1>3, <1>4 DEF TypeOK
<1>6. Tagged(b)' /\ Untouched(b)'
  BY <1>2 DEF Tagged, Untouched
<1>7. Staged(b)'
  BY <1>1, <1>2, <1>3, <1>4 DEF Own, Staged
<1> QED BY <1>1, <1>2, <1>3, <1>4, <1>5, <1>6, <1>7, Advance DEF Opened

LEMMA PackageStep ==
  ASSUME Sound, NEW b \in Builds, Package(b) PROVE Sound'
<1>1. /\ TypeOK /\ Own /\ Summed /\ faults' \in 0..Faults /\ IsRunning(b) /\ proc[b].step = "package"
      /\ UNCHANGED <<job, asked, tag, path, file, met>>
  BY FaultFact DEF Sound, Package, At, IsRunning, Running
<1>2. CASE End(b, "bad")
  BY <1>1, <1>2, EndStep
<1>3. CASE GoTo(b, "clear") /\ stage' = stage /\ (path[OutputOf[b]] = None \/ Forced(b))
  <2>1. /\ proc' \in [Builds -> [step : {"none", "ok", "bad"} \union Running, n : 1..3]]
        /\ proc'[b].step = "clear" /\ \A c \in Builds : c # b => proc'[c] = proc[c]
    BY <1>1, <1>3, GoToFact DEF Steps, Running
  <2>2. TypeOK'
    BY <1>1, <1>3, <2>1 DEF TypeOK
  <2>3. Tagged(b)' /\ Untouched(b)'
    BY <1>1, <1>3, <2>1 DEF Tagged, Untouched, Forced
  <2>4. Staged(b)'
    BY <1>1, <1>3, <2>1 DEF Own, Staged, Late
  <2>5. stage'[b].sums = stage'[b].image
    BY <1>1, <1>3 DEF Summed, Late
  <2> QED BY <1>1, <1>3, <2>1, <2>2, <2>3, <2>4, <2>5, Advance DEF Opened
<1> QED BY <1>2, <1>3 DEF Package

LEMMA VerifyStep ==
  ASSUME Sound, NEW b \in Builds, Verify(b) PROVE Sound'
<1>1. /\ TypeOK /\ Alone /\ faults' \in 0..Faults /\ IsRunning(b) /\ proc[b].step = "verify"
      /\ UNCHANGED <<job, asked, tag, path, file, met>>
  BY FaultFact DEF Sound, Verify, At, IsRunning, Running
<1>2. CASE End(b, "bad")
  BY <1>1, <1>2, EndStep
<1>3. CASE End(b, "ok") /\ Accepted(OutputOf[b])
  <2>1. /\ proc' \in [Builds -> [step : {"none", "ok", "bad"} \union Running, n : 1..3]]
        /\ proc'[b].step = "ok" /\ stage' \in [Builds -> Stages]
        /\ \A c \in Builds : c # b => proc'[c] = proc[c] /\ stage'[c] = stage[c]
    BY <1>1, <1>3, EndFact
  <2>2. TypeOK'
    BY <1>1, <2>1 DEF TypeOK
  <2>3. Tagged(b)' /\ Staged(b)'
    BY <2>1 DEF Tagged, Staged, Late
  <2>4. Untouched(b)'
    <3>1. Rivals(b)' = Rivals(b) /\ (Accepted(OutputOf[b]) => Accepted(OutputOf[b])')
      BY <1>1 DEF Rivals, Accepted
    <3>2. Rivals(b) = {} => file[path[OutputOf[b]]].by = {b}
      BY <1>1 DEF Alone, Untouched
    <3> QED BY <1>1, <1>3, <2>1, <3>1, <3>2 DEF Untouched
  <2> QED BY <1>1, <2>1, <2>2, <2>3, <2>4, Advance DEF Opened, Late
<1> QED BY <1>2, <1>3 DEF Verify

-----------------------------------------------------------------------------
(* The shared directory.                                                   *)

\* Whoever else is at work has this builder for a rival, if it writes its file.
LEMMA RivalFact ==
  ASSUME Sound, NEW b \in Builds, IsRunning(b), NEW c \in Builds, c # b, Busy(c),
         OutputOf[c] = OutputOf[b]
  PROVE  Rivals(c) # {}
<1>1. Busy(b) /\ b \in met[c]
  BY DEF Sound, Begun, Busy
<1> QED BY <1>1 DEF Rivals

LEMMA OutputFact == \A b \in Builds : OutputOf[b] \in Outputs
BY BuildAssumption

\* Two outputs never name one file.
LEMMA PathFact ==
  ASSUME Sound, NEW o \in Outputs, path[o] # None
  PROVE  /\ path[o] \in Builds /\ OutputOf[path[o]] = o
         /\ \A q \in Outputs : q # o => path[q] # path[o]
<1>1. path[o] \in Builds
  BY DEF Sound, TypeOK
<1>2. \A q \in Outputs : path[q] # None => OutputOf[path[q]] = q
  BY DEF Sound, Files
<1> QED BY <1>1, <1>2

\* A job starts its builder; one that was told to rebuild removes the file first.
LEMMA StartStep ==
  ASSUME Sound, NEW b \in Builds, StartBuilder(b) PROVE Sound'
<1> DEFINE others == {c \in Builds : IsRunning(c) \/ job[c] = "building"}
<1>1. TypeOK /\ Begun /\ Files /\ Own /\ Summed /\ Alone
  BY DEF Sound
<1>2. /\ job[b] = "preflight" /\ job' = [job EXCEPT ![b] = "building"] /\ GoTo(b, "check")
      /\ met' = [c \in Builds |-> IF c = b THEN met[b] \union others
                                  ELSE IF c \in others THEN met[c] \union {b} ELSE met[c]]
      /\ UNCHANGED <<asked, tag, stage>> /\ faults' \in 0..Faults
  BY <1>1, FaultFact DEF StartBuilder
<1>3. /\ proc' \in [Builds -> [step : {"none", "ok", "bad"} \union Running, n : 1..3]]
      /\ proc'[b].step = "check" /\ \A c \in Builds : c # b => proc'[c] = proc[c]
  BY <1>1, <1>2, GoToFact DEF Steps, Running
<1>4. proc[b].step = "none"
  BY <1>1, <1>2 DEF Begun
<1>5. /\ path' \in [Outputs -> Builds \union {None}]
      /\ \A q \in Outputs : q # OutputOf[b] => path'[q] = path[q]
      /\ path'[OutputOf[b]] \in {path[OutputOf[b]], None}
      /\ file' \in [Builds -> [by : SUBSET Builds, whole : BOOLEAN, holds : Stages]]
      /\ \A f \in Builds : \/ file'[f] = file[f]
                           \/ file'[f] = NoFile /\ f = path[OutputOf[b]] /\ WritersOf(f) = {}
  <2>1. CASE Unlink(OutputOf[b])
    BY <2>1, OutputFact, UnlinkFact
  <2>2. CASE UNCHANGED <<path, file>>
    BY <1>1, <2>2 DEF TypeOK
  <2> QED BY <2>1, <2>2 DEF StartBuilder
<1>6. /\ met' \in [Builds -> SUBSET Builds] /\ \A c \in Builds : met[c] \subseteq met'[c]
      /\ \A c \in Builds : c # b /\ Busy(c) => c \in met'[b] /\ b \in met'[c]
  BY <1>1, <1>2 DEF TypeOK, Busy
<1>7. TypeOK'
  BY <1>1, <1>2, <1>3, <1>5, <1>6 DEF TypeOK, Working
<1>8. job'[b] = "building" /\ \A c \in Builds : c # b => job'[c] = job[c]
  BY <1>1, <1>2 DEF TypeOK
<1>9. Begun'
  <2>1. \A c \in Builds : c # b => (Busy(c)' <=> Busy(c))
    BY <1>3, <1>8 DEF Busy, IsRunning
  <2>2. \A c, d \in Builds : c # d /\ Busy(c)' /\ Busy(d)' => d \in met'[c]
    BY <1>1, <1>6, <2>1 DEF Begun
  <2>3. \A c \in Builds : job'[c] \in {"none", "queued", "preflight"} => proc'[c].step = "none"
    BY <1>1, <1>3, <1>8 DEF Begun
  <2> QED BY <2>2, <2>3 DEF Begun
<1>10. \A f, w \in Builds : w \in file'[f].by => w \in file[f].by
  BY <1>5, NoneFact
<1>11. Files'
  <2>1. \A o \in Outputs : path'[o] # None => path[o] = path'[o]
    BY <1>5, OutputFact
  <2>2. \A w \in Builds : proc[w].step \in Opened => proc'[w].step \in Opened
    BY <1>3, <1>4 DEF Opened
  <2>3. ASSUME NEW c \in Builds, proc'[c].step = "compress" PROVE \E f \in Builds : c \in file'[f].by
    <3>1. proc[c].step = "compress"
      BY <1>3, <2>3
    <3>2. PICK f \in Builds : c \in file[f].by
      BY <1>1, <3>1 DEF Files
    <3>3. c \in WritersOf(f)
      BY <3>1, <3>2 DEF WritersOf, At
    <3> QED BY <1>5, <3>2, <3>3
  <2> QED BY <1>1, <1>10, <2>1, <2>2, <2>3 DEF Files
<1>12. \A c \in Builds : c # b => (met'[c] = {} => met[c] = {})
  BY <1>6
<1>13. Own'
  <2>1. ASSUME NEW c \in Builds PROVE Tagged(c)' /\ Staged(c)'
    <3>1. CASE c = b
      BY <1>3, <3>1 DEF Tagged, Staged, Late
    <3>2. CASE c # b
      BY <1>1, <1>2, <1>3, <1>12, <3>2 DEF Own, Tagged, Staged
    <3> QED BY <3>1, <3>2
  <2>2. ASSUME NEW f \in Builds PROVE Filled(f)'
    <3>1. CASE file'[f] = NoFile
      BY <3>1, NoneFact DEF Filled
    <3>2. CASE file'[f] = file[f]
      <4>1. \A w \in Builds : met'[w] = {} => met[w] = {}
        BY <1>6
      <4> QED BY <1>1, <3>2, <4>1 DEF Own, Filled
    <3> QED BY <1>5, <3>1, <3>2
  <2> QED BY <2>1, <2>2 DEF Own
<1>14. Summed'
  <2>1. \A c \in Builds : proc'[c].step \in Late => stage'[c].sums = stage'[c].image
    BY <1>1, <1>2, <1>3 DEF Summed, Late
  <2>2. Sealed'
    BY <1>1, <1>5, NoneFact DEF Summed, Sealed
  <2> QED BY <2>1, <2>2 DEF Summed
<1>15. Alone'
  <2>1. Untouched(b)'
    BY <1>3 DEF Untouched
  <2>2. ASSUME NEW c \in Builds, c # b PROVE Untouched(c)'
    <3>1. SUFFICES ASSUME Rivals(c)' = {} PROVE Untouched(c)'
      BY DEF Untouched
    <3>2. Rivals(c) = {}
      BY <1>6, <3>1 DEF Rivals
    <3>3. CASE ~Busy(c)
      BY <1>3, <1>8, <2>2, <3>3 DEF Untouched, Busy, IsRunning, Running
    <3>4. CASE Busy(c)
      <4>1. OutputOf[c] # OutputOf[b]
        BY <1>6, <2>2, <3>1, <3>4 DEF Rivals
      <4>2. path'[OutputOf[c]] = path[OutputOf[c]]
        BY <1>5, <4>1, OutputFact
      <4>3. path[OutputOf[c]] # None => path[OutputOf[c]] \in Builds /\ path[OutputOf[c]] # path[OutputOf[b]]
        BY <4>1, OutputFact, PathFact
      <4>4. path[OutputOf[c]] # None => file'[path[OutputOf[c]]] = file[path[OutputOf[c]]]
        BY <1>5, <4>3
      <4>5. Accepted(OutputOf[c]) => Accepted(OutputOf[c])' /\ path[OutputOf[c]] # None
        BY <4>2, <4>4 DEF Accepted
      <4>6. proc'[c] = proc[c] /\ asked'[c] = asked[c] /\ job'[c] = job[c]
        BY <1>2, <1>3, <1>8, <2>2
      <4>7. /\ proc[c].step \in {"clear", "open"} /\ asked[c] = "build" => path[OutputOf[c]] = None
            /\ proc[c].step \in {"compress", "verify"} =>
                 path[OutputOf[c]] # None /\ file[path[OutputOf[c]]].by = {c}
            /\ proc[c].step = "ok" /\ job[c] = "building" =>
                 Accepted(OutputOf[c]) /\ file[path[OutputOf[c]]].by = {c}
        BY <1>1, <3>2 DEF Alone, Untouched
      <4>8. proc'[c].step \in {"clear", "open"} /\ asked'[c] = "build" => path'[OutputOf[c]] = None
        BY <4>2, <4>6, <4>7
      <4>9. proc'[c].step \in {"compress", "verify"} =>
              path'[OutputOf[c]] # None /\ file'[path'[OutputOf[c]]].by = {c}
        BY <4>2, <4>4, <4>6, <4>7
      <4>10. proc'[c].step = "ok" /\ job'[c] = "building" =>
               Accepted(OutputOf[c])' /\ file'[path'[OutputOf[c]]].by = {c}
        BY <4>2, <4>4, <4>5, <4>6, <4>7
      <4> QED BY <4>8, <4>9, <4>10 DEF Untouched
    <3> QED BY <3>3, <3>4
  <2> QED BY <2>1, <2>2 DEF Alone
<1> QED BY <1>7, <1>9, <1>11, <1>13, <1>14, <1>15 DEF Sound

\* What a builder does to its own output is nothing to those who have another,
\* and whoever has the same one knows of the rival.
LEMMA Write ==
  ASSUME Sound, NEW b \in Builds, IsRunning(b), TypeOK',
         \A c \in Builds : c # b => proc'[c] = proc[c],
         proc[b].step \in {"clear", "open", "compress"},
         proc'[b].step \in {"open", "compress", "verify"},
         UNCHANGED <<job, asked, tag, stage, met>>,
         \A q \in Outputs : q # OutputOf[b] => path'[q] = path[q],
         \A f \in Builds : OutputOf[f] # OutputOf[b] => file'[f] = file[f],
         Files', Sealed', \A f \in Builds : Filled(f)', Untouched(b)'
  PROVE  Sound'
<1>1. TypeOK /\ Begun /\ Files /\ Own /\ Summed /\ Alone
  BY DEF Sound
<1>2. \A c \in Builds : Busy(c)' => Busy(c)
  BY DEF Busy, IsRunning
<1>3. Begun'
  <2>1. \A c, d \in Builds : c # d /\ Busy(c)' /\ Busy(d)' => d \in met'[c]
    BY <1>1, <1>2 DEF Begun
  <2>2. job[b] \notin {"none", "queued", "preflight"}
    BY <1>1 DEF Begun
  <2>3. \A c \in Builds : job'[c] \in {"none", "queued", "preflight"} => proc'[c].step = "none"
    BY <1>1, <2>2 DEF Begun
  <2> QED BY <2>1, <2>3 DEF Begun
<1>4. Own'
  <2>1. ASSUME NEW c \in Builds PROVE Tagged(c)' /\ Staged(c)'
    <3>1. CASE c # b
      BY <1>1, <3>1 DEF Own, Tagged, Staged
    <3>2. CASE c = b
      <4>1. Staged(b)
        BY <1>1 DEF Own
      <4> QED BY <3>2, <4>1 DEF Tagged, Staged, Late
    <3> QED BY <3>1, <3>2
  <2> QED BY <2>1 DEF Own
<1>5. Summed'
  <2>1. \A c \in Builds : proc'[c].step \in Late => proc[c].step \in Late
    BY DEF Late
  <2> QED BY <1>1, <2>1 DEF Summed
<1>6. Alone'
  <2>1. ASSUME NEW c \in Builds, c # b PROVE Untouched(c)'
    <3>1. SUFFICES ASSUME Rivals(c) = {} PROVE Untouched(c)'
      BY DEF Untouched, Rivals
    <3>2. proc'[c] = proc[c] /\ asked' = asked /\ job' = job
      BY <2>1
    <3>3. CASE ~Busy(c)
      BY <3>2, <3>3 DEF Untouched, Busy, IsRunning, Running
    <3>4. CASE Busy(c)
      <4>1. OutputOf[c] # OutputOf[b]
        BY <2>1, <3>1, <3>4, RivalFact
      <4>2. path'[OutputOf[c]] = path[OutputOf[c]]
        BY <4>1, OutputFact
      <4>3. path[OutputOf[c]] # None =>
              path[OutputOf[c]] \in Builds /\ file'[path[OutputOf[c]]] = file[path[OutputOf[c]]]
        BY <4>1, OutputFact, PathFact
      <4>4. Accepted(OutputOf[c]) => Accepted(OutputOf[c])' /\ path[OutputOf[c]] # None
        BY <4>2, <4>3 DEF Accepted
      <4>5. /\ proc[c].step \in {"clear", "open"} /\ asked[c] = "build" => path[OutputOf[c]] = None
            /\ proc[c].step \in {"compress", "verify"} =>
                 path[OutputOf[c]] # None /\ file[path[OutputOf[c]]].by = {c}
            /\ proc[c].step = "ok" /\ job[c] = "building" =>
                 Accepted(OutputOf[c]) /\ file[path[OutputOf[c]]].by = {c}
        BY <1>1, <3>1 DEF Alone, Untouched
      <4>6. proc'[c].step \in {"clear", "open"} /\ asked'[c] = "build" => path'[OutputOf[c]] = None
        BY <3>2, <4>2, <4>5
      <4>7. proc'[c].step \in {"compress", "verify"} =>
              path'[OutputOf[c]] # None /\ file'[path'[OutputOf[c]]].by = {c}
        BY <3>2, <4>2, <4>3, <4>5
      <4>8. proc'[c].step = "ok" /\ job'[c] = "building" =>
               Accepted(OutputOf[c])' /\ file'[path'[OutputOf[c]]].by = {c}
        BY <3>2, <4>2, <4>3, <4>4, <4>5
      <4> QED BY <4>6, <4>7, <4>8 DEF Untouched
    <3> QED BY <3>3, <3>4
  <2> QED BY <2>1 DEF Alone
<1> QED BY <1>3, <1>4, <1>5, <1>6 DEF Sound

LEMMA ClearStep ==
  ASSUME Sound, NEW b \in Builds, Clear(b) PROVE Sound'
<1> DEFINE o == OutputOf[b]
<1>1. /\ TypeOK /\ Files /\ Own /\ Summed /\ faults' \in 0..Faults /\ IsRunning(b) /\ proc[b].step = "clear"
      /\ UNCHANGED <<job, asked, tag, stage, met>> /\ o \in Outputs
  BY FaultFact, OutputFact DEF Sound, Clear, At, IsRunning, Running
<1>2. /\ proc' \in [Builds -> [step : {"none", "ok", "bad"} \union Running, n : 1..3]]
      /\ proc'[b].step = "open" /\ \A c \in Builds : c # b => proc'[c] = proc[c]
  BY <1>1, GoToFact DEF Clear, Steps, Running
<1>3. /\ path' \in [Outputs -> Builds \union {None}] /\ path'[o] = None
      /\ \A q \in Outputs : q # o => path'[q] = path[q]
      /\ file' \in [Builds -> [by : SUBSET Builds, whole : BOOLEAN, holds : Stages]]
      /\ \A f \in Builds : \/ file'[f] = file[f]
                           \/ file'[f] = NoFile /\ f = path[o] /\ WritersOf(f) = {}
  BY <1>1, UnlinkFact DEF Clear
<1>4. TypeOK'
  BY <1>1, <1>2, <1>3 DEF TypeOK
<1>5. \A f \in Builds : OutputOf[f] # o => file'[f] = file[f]
  <2>1. path[o] \in Builds => OutputOf[path[o]] = o
    BY <1>1, PathFact, BuildAssumption
  <2> QED BY <1>3, <2>1
<1>6. Files'
  <2>1. \A q \in Outputs : path'[q] # None => path[q] = path'[q]
    BY <1>3
  <2>2. \A f, w \in Builds : w \in file'[f].by => w \in file[f].by /\ proc[w].step \in Opened
    BY <1>1, <1>3, NoneFact DEF Files
  <2>3. \A f, w \in Builds : w \in file'[f].by => w # b
    BY <1>1, <2>2 DEF Opened
  <2>4. ASSUME NEW c \in Builds, proc'[c].step = "compress" PROVE \E f \in Builds : c \in file'[f].by
    <3>1. proc[c].step = "compress"
      BY <1>2, <2>4
    <3>2. PICK f \in Builds : c \in file[f].by
      BY <1>1, <3>1 DEF Files
    <3>3. c \in WritersOf(f)
      BY <3>1, <3>2 DEF WritersOf, At
    <3> QED BY <1>3, <3>2, <3>3
  <2>5. \A f, w \in Builds : w \in file'[f].by => OutputOf[w] = OutputOf[f] /\ proc'[w].step \in Opened
    BY <1>1, <1>2, <2>2, <2>3 DEF Files
  <2>6. \A f, g, w \in Builds : w \in file'[f].by /\ w \in file'[g].by => f = g
    BY <1>1, <2>2 DEF Files
  <2>7. \A q \in Outputs : path'[q] # None => OutputOf[path'[q]] = q
    BY <1>1, <2>1 DEF Files
  <2> QED BY <2>4, <2>5, <2>6, <2>7 DEF Files
<1>7. Sealed' /\ \A f \in Builds : Filled(f)'
  <2>1. Sealed'
    BY <1>1, <1>3, NoneFact DEF Summed, Sealed
  <2>2. ASSUME NEW f \in Builds PROVE Filled(f)'
    <3>1. CASE file'[f] = NoFile
      BY <3>1, NoneFact DEF Filled
    <3>2. CASE file'[f] = file[f]
      BY <1>1, <3>2 DEF Own, Filled
    <3> QED BY <1>3, <3>1, <3>2
  <2> QED BY <2>1, <2>2
<1>8. Untouched(b)'
  BY <1>2, <1>3 DEF Untouched
<1> QED BY <1>1, <1>2, <1>3, <1>4, <1>5, <1>6, <1>7, <1>8, Write

LEMMA OpenStep ==
  ASSUME Sound, NEW b \in Builds, Open(b) PROVE Sound'
<1> DEFINE o == OutputOf[b]
           f == IF path[o] = None THEN b ELSE path[o]
           new == [NoFile EXCEPT !.by = {b} \union WritersOf(f)]
<1>1. /\ TypeOK /\ Begun /\ Files /\ Own /\ Summed /\ faults' \in 0..Faults /\ IsRunning(b)
      /\ proc[b].step = "open" /\ o \in Outputs
      /\ UNCHANGED <<job, asked, tag, stage, met>>
  BY FaultFact, OutputFact DEF Sound, Open, At, IsRunning, Running
<1>2. /\ proc' \in [Builds -> [step : {"none", "ok", "bad"} \union Running, n : 1..3]]
      /\ proc'[b].step = "compress" /\ \A c \in Builds : c # b => proc'[c] = proc[c]
  BY <1>1, GoToFact DEF Open, Steps, Running
<1>3. f \in Builds /\ OutputOf[f] = o
  BY <1>1, PathFact
<1>4. /\ new \in [by : SUBSET Builds, whole : BOOLEAN, holds : Stages]
      /\ new.by = {b} \union WritersOf(f) /\ new.whole = FALSE
  BY NoneFact DEF WritersOf, NoFile
<1>5. path' = [path EXCEPT ![o] = f] /\ file' = [file EXCEPT ![f] = new]
  BY DEF Open
<1>6. /\ path' \in [Outputs -> Builds \union {None}] /\ path'[o] = f
      /\ \A q \in Outputs : q # o => path'[q] = path[q]
      /\ file' \in [Builds -> [by : SUBSET Builds, whole : BOOLEAN, holds : Stages]]
      /\ file'[f] = new /\ \A g \in Builds : g # f => file'[g] = file[g]
  BY <1>1, <1>3, <1>4, <1>5 DEF TypeOK
<1>7. TypeOK'
  BY <1>1, <1>2, <1>6 DEF TypeOK
<1>8. \A g \in Builds : OutputOf[g] # o => file'[g] = file[g]
  BY <1>3, <1>6
<1>9. \A c \in WritersOf(f) : c \in Builds /\ proc[c].step = "compress" /\ c \in file[f].by
  BY DEF WritersOf, At
<1>10. \A g \in Builds : b \notin file[g].by
  BY <1>1 DEF Files, Opened
<1>11. \A g, w \in Builds : w \in file'[g].by => (w = b /\ g = f) \/ (w # b /\ w \in file[g].by)
  BY <1>4, <1>6, <1>9, <1>10
<1>12. Files'
  <2>1. \A q \in Outputs : path'[q] # None => OutputOf[path'[q]] = q
    BY <1>1, <1>3, <1>6 DEF Files
  <2>2. \A g, w \in Builds : w \in file'[g].by => OutputOf[w] = OutputOf[g] /\ proc'[w].step \in Opened
    BY <1>1, <1>2, <1>3, <1>11 DEF Files, Opened
  <2>3. \A g, h, w \in Builds : w \in file'[g].by /\ w \in file'[h].by => g = h
    BY <1>1, <1>11 DEF Files
  <2>4. ASSUME NEW c \in Builds, proc'[c].step = "compress" PROVE \E g \in Builds : c \in file'[g].by
    <3>1. CASE c = b
      BY <1>3, <1>4, <1>6, <3>1
    <3>2. CASE c # b
      <4>1. proc[c].step = "compress"
        BY <1>2, <2>4, <3>2
      <4>2. PICK g \in Builds : c \in file[g].by
        BY <1>1, <4>1 DEF Files
      <4>3. c \in WritersOf(g)
        BY <4>1, <4>2 DEF WritersOf, At
      <4> QED BY <1>4, <1>6, <4>2, <4>3
    <3> QED BY <3>1, <3>2
  <2> QED BY <2>1, <2>2, <2>3, <2>4 DEF Files
<1>13. Sealed' /\ \A g \in Builds : Filled(g)'
  <2>1. Sealed'
    BY <1>1, <1>4, <1>6 DEF Summed, Sealed
  <2>2. ASSUME NEW g \in Builds PROVE Filled(g)'
    <3>1. CASE g = f
      BY <1>4, <1>6, <3>1 DEF Filled
    <3>2. CASE g # f
      BY <1>1, <1>6, <3>2 DEF Own, Filled
    <3> QED BY <3>1, <3>2
  <2> QED BY <2>1, <2>2
<1>14. Untouched(b)'
  <2>1. SUFFICES ASSUME Rivals(b) = {} PROVE new.by = {b}
    BY <1>1, <1>2, <1>3, <1>6, BuildAssumption DEF Untouched, Rivals
  <2>2. ASSUME NEW c \in WritersOf(f), c # b PROVE FALSE
    <3>1. c \in Builds /\ Busy(c) /\ OutputOf[c] = o
      BY <1>1, <1>3, <1>9, <2>2 DEF Files, Busy, IsRunning, Running
    <3>2. Busy(b)
      BY <1>1 DEF Busy
    <3>3. c \in met[b]
      BY <1>1, <2>2, <3>1, <3>2 DEF Begun
    <3> QED BY <2>1, <3>1, <3>3 DEF Rivals
  <2> QED BY <1>4, <2>2
<1> QED BY <1>1, <1>2, <1>6, <1>7, <1>8, <1>12, <1>13, <1>14, Write

LEMMA CompressStep ==
  ASSUME Sound, NEW b \in Builds, Compress(b) PROVE Sound'
<1> DEFINE o == OutputOf[b]
           full == [by |-> {b}, whole |-> TRUE, holds |-> stage[b]]
<1>1. /\ TypeOK /\ Files /\ Own /\ Summed /\ Alone /\ faults' \in 0..Faults /\ IsRunning(b)
      /\ proc[b].step = "compress" /\ o \in Outputs
      /\ UNCHANGED <<job, asked, tag, stage, path, met>>
  BY FaultFact, OutputFact DEF Sound, Compress, At, IsRunning, Running
<1>2. /\ proc' \in [Builds -> [step : {"none", "ok", "bad"} \union Running, n : 1..3]]
      /\ proc'[b].step = "verify" /\ \A c \in Builds : c # b => proc'[c] = proc[c]
  BY <1>1, GoToFact DEF Compress, Steps, Running
<1>3. PICK f \in Builds :
        /\ b \in file[f].by
        /\ file' = [file EXCEPT ![f] =
                     IF path[o] # f /\ WritersOf(f) = {b} THEN NoFile
                     ELSE IF @.by = {b} THEN full ELSE @]
  <2>1. \E g \in Builds : b \in file[g].by
    BY <1>1 DEF Files
  <2> DEFINE f == CHOOSE g \in Builds : b \in file[g].by
  <2>2. f \in Builds /\ b \in file[f].by
    BY <2>1
  <2> QED BY <2>2 DEF Compress
<1>4. OutputOf[f] = o /\ \A g \in Builds : b \in file[g].by => g = f
  BY <1>1, <1>3 DEF Files
<1>5. /\ full \in [by : SUBSET Builds, whole : BOOLEAN, holds : Stages]
      /\ full.by = {b} /\ full.whole = TRUE /\ full.holds = stage[b]
  BY <1>1 DEF TypeOK
<1>6. /\ file' \in [Builds -> [by : SUBSET Builds, whole : BOOLEAN, holds : Stages]]
      /\ \A g \in Builds : g # f => file'[g] = file[g]
      /\ \/ file'[f] = NoFile /\ path[o] # f /\ WritersOf(f) = {b}
         \/ file'[f] = full /\ file[f].by = {b}
         \/ file'[f] = file[f] /\ file[f].by # {b}
  BY <1>1, <1>3, <1>5, NoneFact DEF TypeOK
<1>7. TypeOK'
  BY <1>1, <1>2, <1>6 DEF TypeOK
<1>8. \A g \in Builds : OutputOf[g] # o => file'[g] = file[g]
  BY <1>4, <1>6
<1>9. \A g, w \in Builds : w \in file'[g].by => w \in file[g].by
  BY <1>5, <1>6, NoneFact
<1>10. Files'
  <2>1. \A g, w \in Builds : w \in file'[g].by => OutputOf[w] = OutputOf[g] /\ proc'[w].step \in Opened
    BY <1>1, <1>2, <1>9 DEF Files, Opened
  <2>2. \A g, h, w \in Builds : w \in file'[g].by /\ w \in file'[h].by => g = h
    BY <1>1, <1>9 DEF Files
  <2>3. ASSUME NEW c \in Builds, proc'[c].step = "compress" PROVE \E g \in Builds : c \in file'[g].by
    <3>1. c # b /\ proc[c].step = "compress"
      BY <1>2, <2>3
    <3>2. PICK g \in Builds : c \in file[g].by
      BY <1>1, <3>1 DEF Files
    <3>3. c \in WritersOf(g)
      BY <3>1, <3>2 DEF WritersOf, At
    <3> QED BY <1>6, <3>1, <3>2, <3>3
  <2>4. \A q \in Outputs : path'[q] # None => OutputOf[path'[q]] = q
    BY <1>1 DEF Files
  <2> QED BY <2>1, <2>2, <2>3, <2>4 DEF Files
<1>11. Sealed'
  <2>1. stage[b].sums = stage[b].image
    BY <1>1 DEF Summed, Late
  <2> QED BY <1>1, <1>5, <1>6, <2>1, NoneFact DEF Summed, Sealed
<1>12. ASSUME NEW g \in Builds PROVE Filled(g)'
  <2>1. CASE file'[g] = file[g]
    BY <1>1, <2>1 DEF Own, Filled
  <2>2. CASE file'[g] = NoFile
    BY <2>2, NoneFact DEF Filled
  <2>3. CASE file'[g] = full
    <3>1. met[b] = {} => \A a \in ArchiveNames : stage[b].image[a] = b
      BY <1>1 DEF Own, Staged, Late
    <3>2. \A w \in Builds : {b} = {w} => w = b
      OBVIOUS
    <3> QED BY <1>1, <1>5, <2>3, <3>1, <3>2 DEF Filled
  <2> QED BY <1>6, <2>1, <2>2, <2>3
<1>13. Untouched(b)'
  <2>1. SUFFICES ASSUME Rivals(b) = {} PROVE path[o] # None /\ file'[path[o]].by = {b}
    BY <1>1, <1>2 DEF Untouched, Rivals
  <2>2. path[o] # None /\ file[path[o]].by = {b}
    BY <1>1, <2>1 DEF Alone, Untouched
  <2>3. path[o] = f
    BY <1>1, <1>4, <2>2, PathFact
  <2> QED BY <1>5, <1>6, <2>2, <2>3
<1>14. \A q \in Outputs : path'[q] = path[q]
  BY <1>1
<1> QED BY <1>1, <1>2, <1>7, <1>8, <1>10, <1>11, <1>12, <1>13, <1>14, Write

-----------------------------------------------------------------------------
(* Theorems.                                                               *)

LEMMA Stepwise == Sound /\ [Next]_vars => Sound'
<1> SUFFICES ASSUME Sound, [Next]_vars PROVE Sound'
  OBVIOUS
<1>1. TypeOK
  BY DEF Sound
<1>2. ASSUME NEW b \in Builds, Create(b) PROVE Sound'
  <2>1. /\ job' = [job EXCEPT ![b] = "queued"] /\ job[b] = "none" /\ faults' \in 0..Faults
        /\ UNCHANGED <<proc, tag, stage, path, file, met>>
    BY <1>1, <1>2, FaultFact DEF Create
  <2>2. /\ asked' \in [Builds -> {"build", "force", "rebuild"}]
        /\ \A c \in Builds : asked'[c] = asked[c] \/ job[c] = "none"
    <3>1. PICK what \in Asks[b] : asked' = [asked EXCEPT ![b] = what]
      BY <1>2 DEF Create
    <3>2. Asks[b] \subseteq {"build", "force", "rebuild"}
      BY BuildAssumption
    <3> QED BY <1>1, <2>1, <3>1, <3>2 DEF TypeOK
  <2> QED BY <2>1, <2>2, JobStep
<1>3. ASSUME NEW b \in Builds, Manage(b) PROVE Sound'
  <2>1. asked \in [Builds -> {"build", "force", "rebuild"}]
    BY <1>1 DEF TypeOK
  <2>2. CASE Take(b)
    BY <1>1, <2>1, <2>2, FaultFact, JobStep DEF Take
  <2>3. CASE PreflightFails(b)
    BY <1>1, <2>1, <2>3, FaultFact, JobStep DEF PreflightFails
  <2>4. CASE StartBuilder(b)
    BY <2>4, StartStep
  <2>5. CASE Close(b)
    <3>1. PICK s \in {"succeeded", "failed"} : job' = [job EXCEPT ![b] = s]
      BY <2>5 DEF Close
    <3> QED BY <1>1, <2>1, <2>5, <3>1, FaultFact, JobStep DEF Close
  <2>6. CASE Timeout(b)
    <3>1. /\ faults' \in 0..Faults /\ asked' \in [Builds -> {"build", "force", "rebuild"}]
          /\ IsRunning(b) /\ UNCHANGED <<asked, tag, path, file, met>>
      BY <1>1, <2>1, <2>6, FaultFact DEF Timeout
    <3>2. CASE job' = [job EXCEPT ![b] = "failed"] /\ End(b, "bad")
      BY <3>1, <3>2, EndStep
    <3>3. CASE /\ job' = [job EXCEPT ![b] = "failed"] \/ job' = [job EXCEPT ![b] = "waiting"]
               /\ UNCHANGED <<proc, stage>>
      BY <3>1, <3>3, JobStep
    <3> QED BY <2>6, <3>2, <3>3 DEF Timeout
  <2>7. CASE GiveUp(b)
    BY <1>1, <2>1, <2>7, FaultFact, JobStep DEF GiveUp
  <2> QED BY <1>3, <2>2, <2>3, <2>4, <2>5, <2>6, <2>7 DEF Manage
<1>4. ASSUME NEW b \in Builds, Builder(b) PROVE Sound'
  <2>1. CASE StepFails(b)
    BY <1>1, <2>1, FaultFact, EndStep DEF StepFails
  <2> QED
    BY <1>4, <2>1, CheckStep, BuildStep, SaveStep, SealStep, PackageStep, ClearStep, OpenStep, CompressStep,
       VerifyStep DEF Builder
<1>5. CASE UNCHANGED vars
  <2>1. UNCHANGED <<job, asked, proc, tag, stage, path, file, met, faults>>
    BY <1>5 DEF vars
  <2>2. /\ proc' \in [Builds -> [step : Steps, n : 1..3]] /\ stage' \in [Builds -> Stages]
        /\ job' \in [Builds -> {"none", "queued", "lost"} \union Working \union Closed]
        /\ asked' \in [Builds -> {"build", "force", "rebuild"}] /\ faults' \in 0..Faults
    BY <1>1, <2>1 DEF TypeOK, Steps
  <2> QED BY <2>1, <2>2, Retire
<1> QED BY <1>2, <1>3, <1>4, <1>5, CrashStep DEF Next

\* The invariant behind the others: which builders know each other, whose a file
\* is, and what a builder without a rival finds where it left it.
THEOREM SoundInvariant == Spec => []Sound
BY Initial, Stepwise, PTL DEF Spec

\* Every variable keeps its type, whatever fails and whoever dies.
THEOREM Typing == Spec => []TypeOK
<1>1. Sound => TypeOK
  BY DEF Sound
<1> QED BY <1>1, SoundInvariant, PTL

\* Every finished capsule passes its own checksums, and one that was built with
\* no other builder at work holds the images of its own source.
THEOREM CapsulesTheorem == Spec => []CapsulesAreSound
<1>1. Sound => CapsulesAreSound
  <2> SUFFICES ASSUME Sound PROVE CapsulesAreSound
    OBVIOUS
  <2>1. Sealed
    BY DEF Sound, Summed
  <2>2. OwnImages
    <3>1. \A o \in Outputs : path[o] # None => path[o] \in Builds
      BY PathFact
    <3> QED BY <3>1 DEF Sound, Own, Filled, OwnImages, Accepted
  <2> QED BY <2>1, <2>2 DEF CapsulesAreSound
<1> QED BY <1>1, SoundInvariant, PTL

\* Success is the job's own verified capsule, where it has had no rival.
THEOREM SuccessTheorem == Spec => SuccessIsOwn
<1> DEFINE Succeeds == \A b \in Builds :
             job[b] # "succeeded" /\ job'[b] = "succeeded" /\ Rivals(b) = {}
               => Accepted(OutputOf[b]) /\ file[path[OutputOf[b]]].by = {b}
<1>1. Sound /\ [Next]_vars => [Succeeds]_vars
  <2> SUFFICES ASSUME Sound, Next, NEW b \in Builds,
                      job[b] # "succeeded", job'[b] = "succeeded", Rivals(b) = {}
               PROVE  Accepted(OutputOf[b]) /\ file[path[OutputOf[b]]].by = {b}
    OBVIOUS
  <2>1. TypeOK
    BY DEF Sound
  <2>2. ASSUME NEW c \in Builds, Builder(c) PROVE FALSE
    BY <2>2 DEF Builder, Check, Build, Save, Seal, Package, Clear, Open, Compress, Verify, StepFails
  <2>3. ASSUME NEW c \in Builds, Create(c) PROVE FALSE
    BY <2>1, <2>3 DEF Create, TypeOK
  <2>4. ASSUME Crash PROVE FALSE
    BY <2>1, <2>4 DEF Crash, TypeOK
  <2>5. PICK c \in Builds : Manage(c)
    BY <2>2, <2>3, <2>4 DEF Next
  <2>6. Close(c) /\ c = b
    BY <2>1, <2>5 DEF Manage, Take, PreflightFails, StartBuilder, Timeout, GiveUp, Close, TypeOK
  <2>7. job[b] = "building" /\ proc[b].step = "ok"
    BY <2>1, <2>6 DEF Close, At, TypeOK
  <2> QED BY <2>7 DEF Sound, Alone, Untouched
<1> QED BY <1>1, SoundInvariant, PTL DEF Spec, SuccessIsOwn

\* A good capsule goes only for a build that may replace it or that had a rival.
THEOREM KeptTheorem == Spec => CapsuleKept
<1> DEFINE Kept == \A o \in Outputs : Accepted(o) /\ path'[o] # path[o]
             => \E b \in Builds : /\ OutputOf[b] = o /\ (proc'[b] # proc[b])
                                 /\ (asked[b] # "build" \/ Rivals(b) # {})
<1>1. Sound /\ [Next]_vars => [Kept]_vars
  <2> SUFFICES ASSUME Sound, Next, NEW o \in Outputs, path[o] # None, path'[o] # path[o]
               PROVE  \E b \in Builds : /\ OutputOf[b] = o /\ (proc'[b] # proc[b])
                                       /\ (asked[b] # "build" \/ Rivals(b) # {})
    BY DEF Accepted
  <2>1. TypeOK /\ Begun /\ Alone
    BY DEF Sound
  <2>2. ASSUME path' = path PROVE FALSE
    BY <2>2
  <2>3. PICK b \in Builds : StartBuilder(b) \/ Clear(b) \/ Open(b)
    BY <2>2 DEF Next, Crash, Create, Manage, Take, PreflightFails, Close, Timeout, GiveUp,
                Builder, Check, Build, Save, Seal, Package, Compress, Verify, StepFails
  <2>4. CASE StartBuilder(b)
    <3>1. asked[b] = "rebuild" /\ Unlink(OutputOf[b]) /\ GoTo(b, "check") /\ job[b] = "preflight"
      BY <2>2, <2>4 DEF StartBuilder
    <3>2. OutputOf[b] = o
      BY <2>1, <3>1, OutputFact, UnlinkFact
    <3>3. proc[b].step = "none" /\ proc'[b].step = "check"
      BY <2>1, <3>1, GoToFact DEF Begun, Steps, Running
    <3> QED BY <3>1, <3>2, <3>3
  <2>5. CASE Clear(b)
    <3>1. Unlink(OutputOf[b]) /\ GoTo(b, "open") /\ proc[b].step = "clear"
      BY <2>5 DEF Clear, At
    <3>2. OutputOf[b] = o
      BY <2>1, <3>1, OutputFact, UnlinkFact
    <3>3. proc'[b].step = "open"
      BY <2>1, <3>1, GoToFact DEF Steps, Running
    <3>4. asked[b] # "build" \/ Rivals(b) # {}
      BY <2>1, <3>1, <3>2 DEF Alone, Untouched
    <3> QED BY <3>1, <3>2, <3>3, <3>4
  <2>6. CASE Open(b)
    <3>1. path' = [path EXCEPT ![OutputOf[b]] = IF path[OutputOf[b]] = None THEN b ELSE path[OutputOf[b]]]
      BY <2>6 DEF Open
    <3>2. path'[o] = path[o]
      BY <2>1, <3>1, OutputFact DEF TypeOK
    <3> QED BY <3>2
  <2> QED BY <2>3, <2>4, <2>5, <2>6
<1> QED BY <1>1, SoundInvariant, PTL DEF Spec, CapsuleKept
=============================================================================
