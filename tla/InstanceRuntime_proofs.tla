----------------------- MODULE InstanceRuntime_proofs -----------------------
(***************************************************************************)
(* Theorems about InstanceRuntime, for any instances, capsules, services   *)
(* and profiles, any sharing of image tags and any number of faults and    *)
(* crashes.                                                                *)
(***************************************************************************)
EXTENDS InstanceRuntime, TLAPS

\* What a start in progress has established: the gate passed the Compose file
\* as it still is, the archives loaded so far are what the tags name, and once
\* all are loaded the tags of the Compose file name images of one capsule.
Progress ==
  op \in Start =>
    /\ compose[op.instance] # Nothing
    /\ TagOf[op.capsule] = TagOf[compose[op.instance].capsule]
    /\ evidence[op.instance] =
         [capsule |-> op.capsule, compose |-> compose[op.instance], passed |-> TRUE]
    /\ op.step = "load" /\ ~op.failed =>
         \A s \in Services \ op.left : images[TagOf[op.capsule]][s] = op.capsule
    /\ op.step # "load" =>
         \A s \in Services : images[TagOf[op.capsule]][s] = op.capsule

Sound == TypeOK /\ Progress

\* The kind of a request follows from its step.
LEMMA Steps ==
  ASSUME op \in Render \union Start \union Stop \union {Idle}
  PROVE  /\ op.step \in {"env", "compose", "traefik"} => op \in Render
         /\ op.step \in {"load", "admit", "down", "migrate", "up"} <=> op \in Start
         /\ op.step = "stop" => op \in Stop
BY DEF Render, Start, Stop, Idle

LEMMA NotStart == ASSUME NEW r \in Render \union Stop \union {Idle} PROVE r \notin Start
BY DEF Render, Start, Stop, Idle

\* What the steps after the images are loaded may rely on.
LEMMA Ready ==
  ASSUME Sound, op.step \in {"admit", "down", "migrate", "up"}
  PROVE  /\ op \in Start
         /\ op.instance \in Instances
         /\ op.capsule \in Capsules
         /\ compose[op.instance] \in Rendered
         /\ \A s \in Services : Pulled(op.instance)[s] = op.capsule
         /\ \A s \in Services : Fresh(op.instance, s) =
              [image |-> op.capsule, config |-> compose[op.instance],
               admitted |-> op.admitted]
         /\ \A s \in Services : Fresh(op.instance, s) \in Container
<1>1. op \in Start
  BY Steps DEF Sound, TypeOK
<1>2. op.instance \in Instances /\ op.capsule \in Capsules /\ op.admitted \in BOOLEAN
  BY <1>1 DEF Start
<1>3. compose[op.instance] \in Rendered
  BY <1>1, <1>2 DEF Sound, Progress, TypeOK
<1>4. \A s \in Services : Pulled(op.instance)[s] = op.capsule
  BY <1>1 DEF Sound, Progress, Pulled
<1>5. \A s \in Services : Fresh(op.instance, s) =
        [image |-> op.capsule, config |-> compose[op.instance], admitted |-> op.admitted]
  BY <1>4 DEF Fresh
<1>6. \A s \in Services : Fresh(op.instance, s) \in Container
  BY <1>2, <1>3, <1>5 DEF Container
<1> QED BY <1>1, <1>2, <1>3, <1>4, <1>5, <1>6

\* Requests find the Agent idle.
LEMMA RequestSound ==
  ASSUME Sound, Request
  PROVE  Sound'
<1> USE RuntimeAssumption, BudgetAssumption
<1>1. ASSUME NEW c \in Capsules, Extract(c) \/ Discard(c)
      PROVE  Sound'
  <2>1. TypeOK'
    BY <1>1 DEF Extract, Discard, written, docker, budgets, Sound, TypeOK
  <2>2. Progress'
    BY <1>1, NotStart DEF Extract, Discard, Progress
  <2> QED BY <2>1, <2>2 DEF Sound
<1>2. ASSUME NEW i \in Instances, NEW r \in Rendered, NEW generate \in BOOLEAN,
             NEW says \in {"ready", "private"}, BeginRender(i, r, generate, says)
      PROVE  Sound'
  <2>1. op' \in Render
    BY <1>2 DEF BeginRender, Proceed, Render
  <2>2. TypeOK'
    BY <1>2, <2>1 DEF BeginRender, Proceed, written, docker, budgets, Sound, TypeOK
  <2>3. Progress'
    BY <2>1, NotStart DEF Progress
  <2> QED BY <2>2, <2>3 DEF Sound
<1>3. ASSUME NEW i \in Instances, NEW r \in Rendered, NEW generate \in EnvWrites,
             Create(i, r, generate)
      PROVE  Sound'
  BY <1>2, <1>3 DEF Create
<1>4. ASSUME NEW i \in Instances, NEW p \in Profiles,
             compose[i] # Nothing,
             NEW says \in {"ready", "private"},
             BeginRender(i, [compose[i] EXCEPT !.profile = p], TRUE, says)
      PROVE  Sound'
  <2>1. compose[i] \in Rendered
    BY <1>4 DEF Sound, TypeOK
  <2>2. [compose[i] EXCEPT !.profile = p] \in Rendered
    BY <2>1 DEF Rendered
  <2> HIDE RuntimeAssumption, BudgetAssumption
  <2> QED BY <1>2, <1>4, <2>2
<1>5. ASSUME NEW i \in Instances, NEW p \in Profiles, SetProfile(i, p)
      PROVE  Sound'
  BY <1>4, <1>5 DEF SetProfile
<1>6. ASSUME NEW i \in Instances, EndPublicMode(i)
      PROVE  Sound'
  BY <1>4, <1>6 DEF EndPublicMode
<1>7. ASSUME NEW i \in Instances, NEW named \in Named, compose[i] # Nothing,
             Checked(i, Resolve(i, named))
      PROVE  /\ compose[i] \in Rendered
             /\ Resolve(i, named) \in Capsules
             /\ GatePasses(i, Resolve(i, named)) \in BOOLEAN
             /\ evidence' \in [Instances -> Evidence \union {Nothing}]
             /\ evidence'[i] = [capsule |-> Resolve(i, named), compose |-> compose[i],
                                passed |-> GatePasses(i, Resolve(i, named))]
  <2>1. compose[i] \in Rendered
    BY <1>7 DEF Sound, TypeOK
  <2>2. Resolve(i, named) \in Capsules
    BY <2>1 DEF Resolve, Rendered
  <2>3. GatePasses(i, Resolve(i, named)) \in BOOLEAN
    BY DEF GatePasses
  <2>4. [capsule |-> Resolve(i, named), compose |-> compose[i],
         passed |-> GatePasses(i, Resolve(i, named))] \in Evidence
    BY <2>1, <2>2, <2>3 DEF Evidence
  <2> QED BY <1>7, <2>1, <2>2, <2>3, <2>4 DEF Checked, Sound, TypeOK
<1>8. ASSUME NEW i \in Instances, NEW named \in Named, Check(i, named) \/ StartBlocked(i, named)
      PROVE  Sound'
  <2>1. evidence' \in [Instances -> Evidence \union {Nothing}]
    BY <1>7, <1>8 DEF Check, StartBlocked
  <2>2. TypeOK'
    BY <1>8, <2>1 DEF Check, StartBlocked, written, docker, budgets, Sound, TypeOK
  <2>3. Progress'
    BY <1>8, NotStart DEF Check, StartBlocked, Progress
  <2> QED BY <2>2, <2>3 DEF Sound
<1>9. ASSUME NEW i \in Instances, NEW named \in Named, NEW recreate \in Recreates,
             BeginStart(i, named, recreate)
      PROVE  Sound'
  <2> DEFINE c == Resolve(i, named)
  <2>1. /\ compose[i] # Nothing /\ GatePasses(i, c) /\ Checked(i, c)
        /\ op' = [step |-> "load", instance |-> i, capsule |-> c,
                  recreate |-> recreate, left |-> Services, failed |-> FALSE,
                  admitted |-> FALSE]
        /\ UNCHANGED <<extracted, written, docker, told, budgets>>
    BY <1>9 DEF BeginStart, Proceed
  <2>2. /\ c \in Capsules
        /\ evidence' \in [Instances -> Evidence \union {Nothing}]
        /\ evidence'[i] = [capsule |-> c, compose |-> compose[i], passed |-> TRUE]
    BY <1>7, <2>1
  <2>3. op' \in Start
    BY <2>1, <2>2 DEF Start
  <2>4. TypeOK'
    BY <2>1, <2>2, <2>3 DEF written, docker, budgets, Sound, TypeOK
  <2>5. TagOf[c] = TagOf[compose[i].capsule]
    BY <2>1 DEF GatePasses
  <2>6. /\ op'.step = "load" /\ op'.instance = i /\ op'.capsule = c /\ op'.left = Services
    BY <2>1
  <2>7. Progress'
    BY <2>1, <2>2, <2>5, <2>6 DEF written, Progress
  <2> QED BY <2>4, <2>7 DEF Sound
<1>10. ASSUME NEW i \in Instances, BeginStop(i)
       PROVE  Sound'
  <2>1. op' \in Stop
    BY <1>10 DEF BeginStop, Proceed, Stop
  <2>2. TypeOK'
    BY <1>10, <2>1 DEF BeginStop, Proceed, written, docker, budgets, Sound, TypeOK
  <2>3. Progress'
    BY <2>1, NotStart DEF Progress
  <2> QED BY <2>2, <2>3 DEF Sound
<1> QED BY <1>1, <1>3, <1>5, <1>6, <1>8, <1>9, <1>10 DEF Request

\* The steps of write_runtime_compose.
LEMMA RenderSound ==
  ASSUME Sound, WriteEnv \/ WriteCompose \/ WriteTraefik \/ RenderFails
  PROVE  Sound'
<1> USE RuntimeAssumption, BudgetAssumption
<1>1. op \in Render /\ op.instance \in Instances /\ op.write \in Rendered
      /\ op.write.profile \in Profiles /\ op.says \in {"ready", "private"}
  BY Steps DEF WriteEnv, WriteCompose, WriteTraefik, RenderFails, Sound, TypeOK, Render, Rendered
<1>2. op' \in Render \union {Idle}
  BY <1>1 DEF WriteEnv, WriteCompose, WriteTraefik, RenderFails, Proceed, Done, Failed, Render
<1>3. Progress'
  BY <1>2, NotStart DEF Progress
<1>4. CASE WriteEnv
  BY <1>1, <1>2, <1>3, <1>4 DEF WriteEnv, Proceed, docker, budgets, Sound, TypeOK
<1>5. CASE WriteCompose
  BY <1>1, <1>2, <1>3, <1>5 DEF WriteCompose, Tell, docker, budgets, Sound, TypeOK
<1>6. CASE WriteTraefik
  BY <1>1, <1>2, <1>3, <1>6 DEF WriteTraefik, Done, Tell, written, docker, budgets, Sound, TypeOK
<1>7. CASE RenderFails
  BY <1>1, <1>2, <1>3, <1>7 DEF RenderFails, Failed, Fault, written, docker, Sound, TypeOK
<1> QED BY <1>4, <1>5, <1>6, <1>7

\* Loading an archive adds to what the tags name and takes nothing away.
LEMMA LoadSound ==
  ASSUME Sound, NEW s \in Services, Load(s) \/ LoadFails(s)
  PROVE  Sound'
<1> USE RuntimeAssumption, BudgetAssumption
<1>1. op.step = "load" /\ op \in Start /\ op.instance \in Instances /\ op.capsule \in Capsules
      /\ op.left \subseteq Services /\ TagOf[op.capsule] \in Tags
  BY Steps DEF Load, LoadFails, Sound, TypeOK, Start
<1>2. /\ Loaded(s) \in [Tags -> [Services -> Capsules \union {Nothing}]]
      /\ \A t \in Services : Loaded(s)[TagOf[op.capsule]][t] =
           IF t = s THEN op.capsule ELSE images[TagOf[op.capsule]][t]
  BY <1>1 DEF Loaded, Sound, TypeOK
<1>3. CASE Load(s)
  <2>1. op' = [op EXCEPT !.left = op.left \ {s}] /\ images' = Loaded(s)
    BY <1>3 DEF Load, Proceed
  <2>2. /\ op' \in Start /\ op'.step = "load" /\ op'.instance = op.instance
        /\ op'.capsule = op.capsule /\ op'.failed = op.failed /\ op'.left = op.left \ {s}
    BY <1>1, <2>1 DEF Start
  <2>3. TypeOK'
    BY <1>2, <1>3, <2>1, <2>2 DEF Load, Proceed, written, budgets, Sound, TypeOK
  <2>4. Progress'
    BY <1>1, <1>2, <1>3, <2>1, <2>2 DEF Load, written, Sound, Progress
  <2> QED BY <2>3, <2>4 DEF Sound
<1>4. CASE LoadFails(s)
  <2>1. op' = [op EXCEPT !.left = op.left \ {s}, !.failed = TRUE]
    BY <1>4 DEF LoadFails
  <2>2. /\ op' \in Start /\ op'.step = "load" /\ op'.instance = op.instance
        /\ op'.capsule = op.capsule /\ op'.failed
    BY <1>1, <2>1 DEF Start
  <2>3. TypeOK'
    BY <1>2, <1>4, <2>2 DEF LoadFails, Fault, written, budgets, Sound, TypeOK
  <2>4. Progress'
    BY <1>1, <1>4, <2>2 DEF LoadFails, written, Sound, Progress
  <2> QED BY <2>3, <2>4 DEF Sound
<1> QED BY <1>3, <1>4

\* A start that only moves on to its next step keeps what it has established.
LEMMA AdvanceSound ==
  ASSUME Sound, LoadedAll \/ Admit \/ Down \/ Migrate
  PROVE  Sound'
<1> USE RuntimeAssumption, BudgetAssumption
<1>1. op \in Start /\ op.instance \in Instances
  BY Steps DEF LoadedAll, Admit, Down, Migrate, Sound, TypeOK, Start
<1>2. \A s \in Services : images[TagOf[op.capsule]][s] = op.capsule
  BY <1>1 DEF LoadedAll, Admit, Down, Migrate, Sound, Progress
<1>3. /\ op' \in Start /\ op'.step # "load" /\ op'.instance = op.instance
      /\ op'.capsule = op.capsule
  <2>1. CASE LoadedAll
    BY <1>1, <2>1 DEF LoadedAll, Proceed, Start
  <2>2. CASE Admit
    <3>1. AfterAdmission \in {"down", "migrate"} /\ (env[op.instance] \in Public) \in BOOLEAN
      BY DEF AfterAdmission
    <3> QED BY <1>1, <2>2, <3>1 DEF Admit, Proceed, Start
  <2>3. CASE Down
    BY <1>1, <2>3 DEF Down, Proceed, Start
  <2>4. CASE Migrate
    BY <1>1, <2>4 DEF Migrate, Proceed, Start
  <2> QED BY <2>1, <2>2, <2>3, <2>4
<1>4. UNCHANGED <<extracted, env, compose, evidence, images, told, budgets>>
  BY DEF LoadedAll, Admit, Down, Migrate, Proceed, written, docker
<1>5. stack' \in [Instances -> [Services -> Container \union {Nothing}]]
  <2>1. Empty \in [Services -> Container \union {Nothing}]
    BY DEF Empty
  <2> QED BY <1>1, <2>1 DEF LoadedAll, Admit, Down, Migrate, docker, Sound, TypeOK
<1>6. schema' \in [Instances -> Capsules \union {Nothing}]
  <2>1. CASE Migrate
    <3>1. Pulled(op.instance)[App] \in Capsules
      BY <2>1, Ready DEF Migrate
    <3> QED BY <1>1, <2>1, <3>1 DEF Migrate, Sound, TypeOK
  <2> QED BY <2>1 DEF LoadedAll, Admit, Down, docker, Sound, TypeOK
<1>7. TypeOK'
  BY <1>3, <1>4, <1>5, <1>6 DEF budgets, Sound, TypeOK
<1>8. Progress'
  BY <1>1, <1>2, <1>3, <1>4 DEF Sound, Progress
<1> QED BY <1>7, <1>8 DEF Sound

\* What a failed down leaves of an instance's containers.
LEMMA RemovedContainers ==
  ASSUME TypeOK, op.instance \in Instances, DownFails \/ StopFails
  PROVE  /\ stack' \in [Instances -> [Services -> Container \union {Nothing}]]
         /\ \A i \in Instances : i # op.instance => stack'[i] = stack[i]
         /\ \A s \in Services : stack'[op.instance][s] \in {stack[op.instance][s], Nothing}
<1>1. PICK kept \in SUBSET Services :
        stack' = [stack EXCEPT ![op.instance] = Only(kept, op.instance)]
  BY DEF DownFails, StopFails
<1>2. /\ Only(kept, op.instance) \in [Services -> Container \union {Nothing}]
      /\ \A s \in Services : Only(kept, op.instance)[s] \in {stack[op.instance][s], Nothing}
  BY DEF Only, TypeOK
<1> QED BY <1>1, <1>2 DEF TypeOK

\* The containers an up leaves, whole or in part, are old ones and fresh ones.
LEMMA UpContainers ==
  ASSUME Sound, Up \/ UpFails
  PROVE  /\ stack' \in [Instances -> [Services -> Container \union {Nothing}]]
         /\ \A i \in Instances : i # op.instance => stack'[i] = stack[i]
         /\ \A s \in Services :
              stack'[op.instance][s] \in {stack[op.instance][s], Fresh(op.instance, s)}
<1>1. /\ op.instance \in Instances
      /\ \A s \in Services : Fresh(op.instance, s) \in Container
  BY Ready DEF Up, UpFails
<1>2. ASSUME NEW new \in SUBSET Services,
             stack' = [stack EXCEPT ![op.instance] =
               [s \in Services |-> IF s \in new THEN Fresh(op.instance, s)
                                   ELSE stack[op.instance][s]]]
      PROVE  /\ stack' \in [Instances -> [Services -> Container \union {Nothing}]]
             /\ \A i \in Instances : i # op.instance => stack'[i] = stack[i]
             /\ \A s \in Services :
                  stack'[op.instance][s] \in {stack[op.instance][s], Fresh(op.instance, s)}
  BY <1>1, <1>2 DEF Sound, TypeOK
<1>3. CASE UpFails
  BY <1>2, <1>3 DEF UpFails
<1>4. CASE Up
  <2>1. PICK kept \in SUBSET Kept(op.instance) :
          stack' = [stack EXCEPT ![op.instance] =
            [s \in Services |-> IF s \in kept THEN stack[op.instance][s]
                                ELSE Fresh(op.instance, s)]]
    BY <1>4 DEF Up
  <2>2. [s \in Services |-> IF s \in kept THEN stack[op.instance][s]
                            ELSE Fresh(op.instance, s)]
        = [s \in Services |-> IF s \in Services \ kept THEN Fresh(op.instance, s)
                              ELSE stack[op.instance][s]]
    OBVIOUS
  <2> QED BY <1>2, <2>1, <2>2
<1> QED BY <1>3, <1>4

\* The steps that end a start or a stop.
LEMMA EndSound ==
  ASSUME Sound,
         \/ LoadedSome \/ Deny \/ DownFails \/ MigrateFails \/ Up \/ UpFails
         \/ StopDown \/ StopFails
  PROVE  Sound'
<1> USE RuntimeAssumption, BudgetAssumption
<1>1. op' = Idle
  BY DEF LoadedSome, Deny, DownFails, MigrateFails, Up, UpFails, StopDown, StopFails,
         Proceed, Done, Failed
<1>2. Progress'
  BY <1>1, NotStart DEF Progress
<1>3. op.instance \in Instances
  BY Steps DEF LoadedSome, Deny, DownFails, MigrateFails, Up, UpFails, StopDown, StopFails,
               Sound, TypeOK, Start, Stop
<1>4. UNCHANGED <<extracted, env, compose, evidence, images>>
  BY DEF LoadedSome, Deny, DownFails, MigrateFails, Up, UpFails, StopDown, StopFails,
         written, docker
<1>5. told' \in [Instances -> {"nothing", "ready", "private", "started", "stopped"}]
  BY <1>3 DEF LoadedSome, Deny, DownFails, MigrateFails, Up, UpFails, StopDown, StopFails,
              Proceed, Done, Tell, Sound, TypeOK
<1>6. faults' \in 0..Faults /\ crashes' \in 0..Crashes
  BY DEF LoadedSome, Deny, DownFails, MigrateFails, Up, UpFails, StopDown, StopFails,
         Proceed, Done, Failed, Fault, budgets, Sound, TypeOK
<1>7. stack' \in [Instances -> [Services -> Container \union {Nothing}]]
  <2>1. CASE Up \/ UpFails
    BY <2>1, UpContainers
  <2>2. CASE DownFails \/ StopFails
    BY <1>3, <2>2, RemovedContainers DEF Sound
  <2>3. CASE StopDown
    BY <1>3, <2>3 DEF StopDown, Empty, Sound, TypeOK
  <2>4. CASE LoadedSome \/ Deny \/ MigrateFails
    BY <2>4 DEF LoadedSome, Deny, MigrateFails, docker, Sound, TypeOK
  <2> QED BY <2>1, <2>2, <2>3, <2>4
<1>8. schema' \in [Instances -> Capsules \union {Nothing}]
  <2>1. CASE MigrateFails
    <3>1. Pulled(op.instance)[App] \in Capsules
      BY <2>1, Ready DEF MigrateFails
    <3> QED BY <1>3, <2>1, <3>1 DEF MigrateFails, Sound, TypeOK
  <2> QED BY <2>1 DEF LoadedSome, Deny, DownFails, Up, UpFails, StopDown, StopFails, docker,
                      Sound, TypeOK
<1>9. TypeOK'
  BY <1>1, <1>4, <1>5, <1>6, <1>7, <1>8 DEF Sound, TypeOK
<1> QED BY <1>2, <1>9 DEF Sound

LEMMA CrashSound == ASSUME Sound, Crash PROVE Sound'
<1> USE RuntimeAssumption, BudgetAssumption
<1>1. op' = Idle
  BY DEF Crash
<1>2. told' \in [Instances -> {"nothing", "ready", "private", "started", "stopped"}]
  BY DEF Crash, Sound, TypeOK
<1>3. TypeOK'
  BY <1>1, <1>2 DEF Crash, written, docker, Sound, TypeOK
<1>4. Progress'
  BY <1>1, NotStart DEF Progress
<1> QED BY <1>3, <1>4 DEF Sound

LEMMA InitSound == Init => Sound
<1> SUFFICES ASSUME Init PROVE Sound
  OBVIOUS
<1>1. TypeOK
  BY BudgetAssumption DEF Init, TypeOK
<1>2. Progress
  BY NotStart DEF Init, Progress
<1> QED BY <1>1, <1>2 DEF Sound

LEMMA NextSound == Sound /\ [Next]_vars => Sound'
<1> SUFFICES ASSUME Sound, [Next]_vars PROVE Sound'
  OBVIOUS
<1>1. CASE UNCHANGED vars
  BY <1>1 DEF vars, Sound, TypeOK, Progress
<1>2. CASE Request
  BY <1>2, RequestSound
<1>3. CASE Step
  BY <1>3, RenderSound, LoadSound, AdvanceSound, EndSound DEF Step
<1>4. CASE Crash
  BY <1>4, CrashSound
<1> QED BY <1>1, <1>2, <1>3, <1>4 DEF Next

\* A request in progress is always one the code can be in.
THEOREM SoundInvariant == Spec => []Sound
BY InitSound, NextSound, PTL DEF Spec

\* Files, containers, images and requests keep their types.
THEOREM Typing == Spec => []TypeOK
<1>1. Sound => TypeOK
  BY DEF Sound
<1> QED BY <1>1, SoundInvariant, PTL

-----------------------------------------------------------------------------
(* What a step does to containers and to the start in progress             *)

\* Containers are created by up only, from the Compose file and the images of
\* the start in progress.
LEMMA StackStep ==
  ASSUME Sound, Next, NEW i \in Instances, NEW s \in Services
  PROVE  \/ stack'[i][s] \in {stack[i][s], Nothing}
         \/ (Up \/ UpFails) /\ i = op.instance /\ stack'[i][s] = Fresh(i, s)
<1>0. op.step \in {"down", "stop"} => op.instance \in Instances
  BY Steps DEF Sound, TypeOK, Start, Stop
<1>1. CASE Request
  BY <1>1 DEF Request, Extract, Discard, Create, SetProfile, EndPublicMode, BeginRender, Check,
              BeginStart, StartBlocked, BeginStop, docker
<1>2. CASE Up \/ UpFails
  BY <1>2, UpContainers
<1>3. CASE DownFails \/ StopFails
  <2>1. op.instance \in Instances
    BY <1>0, <1>3 DEF DownFails, StopFails
  <2> QED BY <1>3, <2>1, RemovedContainers DEF Sound
<1>4. CASE Down \/ StopDown
  BY <1>4, <1>0 DEF Down, StopDown, Empty, Sound, TypeOK
<1>5. CASE \/ WriteEnv \/ WriteCompose \/ WriteTraefik \/ RenderFails
           \/ \E t \in Services : Load(t) \/ LoadFails(t)
           \/ LoadedAll \/ LoadedSome \/ Admit \/ Deny \/ Migrate \/ MigrateFails \/ Crash
  BY <1>5 DEF WriteEnv, WriteCompose, WriteTraefik, RenderFails, Load, LoadFails, LoadedAll,
              LoadedSome, Admit, Deny, Migrate, MigrateFails, Crash, docker
<1> QED BY <1>1, <1>2, <1>3, <1>4, <1>5 DEF Next, Step

\* A start in progress has just begun, or was in progress and keeps its
\* instance, its capsule and the Compose file.
LEMMA StartKept ==
  ASSUME Sound, Next, op' \in Start
  PROVE  \/ \E i \in Instances, named \in Named, recreate \in Recreates :
              BeginStart(i, named, recreate)
         \/ /\ op \in Start
            /\ op'.instance = op.instance
            /\ op'.capsule = op.capsule
            /\ op'.recreate = op.recreate
            /\ compose' = compose
            /\ \/ LoadedAll \/ Admit \/ Down \/ Migrate
               \/ \E s \in Services : Load(s) \/ LoadFails(s)
<1>0. Idle \notin Start /\ \A r \in Render \union Stop : r \notin Start
  BY NotStart
<1>1. CASE Request
  <2>1. CASE \E c \in Capsules : Extract(c) \/ Discard(c)
    BY <1>0, <2>1 DEF Extract, Discard
  <2>2. ASSUME NEW i \in Instances, NEW r, NEW generate \in BOOLEAN, NEW says,
               BeginRender(i, r, generate, says)
        PROVE  FALSE
    BY <2>2 DEF BeginRender, Proceed, Start
  <2>3. ASSUME NEW i \in Instances, NEW r \in Rendered, NEW generate \in EnvWrites,
               Create(i, r, generate)
        PROVE  FALSE
    BY <2>2, <2>3, RuntimeAssumption DEF Create
  <2>4. ASSUME NEW i \in Instances,
               EndPublicMode(i) \/ \E p \in Profiles : SetProfile(i, p)
        PROVE  FALSE
    BY <2>2, <2>4 DEF EndPublicMode, SetProfile
  <2>5. ASSUME NEW i \in Instances, NEW named \in Named,
               Check(i, named) \/ StartBlocked(i, named)
        PROVE  FALSE
    BY <1>0, <2>5 DEF Check, StartBlocked
  <2>6. ASSUME NEW i \in Instances, BeginStop(i) PROVE FALSE
    BY <2>6 DEF BeginStop, Proceed, Start
  <2> QED BY <1>1, <2>1, <2>3, <2>4, <2>5, <2>6 DEF Request
<1>2. CASE \/ LoadedAll \/ Admit \/ Down \/ Migrate
           \/ \E s \in Services : Load(s) \/ LoadFails(s)
  <2>1. op \in Start
    BY <1>2, Steps DEF LoadedAll, Admit, Down, Migrate, Load, LoadFails, Sound, TypeOK
  <2>2. /\ op'.instance = op.instance
        /\ op'.capsule = op.capsule
        /\ op'.recreate = op.recreate
    BY <1>2, <2>1 DEF LoadedAll, Admit, Down, Migrate, Load, LoadFails, Proceed, Start
  <2>3. compose' = compose
    BY <1>2 DEF LoadedAll, Admit, Down, Migrate, Load, LoadFails, written
  <2> QED BY <1>2, <2>1, <2>2, <2>3
<1>3. CASE WriteEnv \/ WriteCompose \/ WriteTraefik \/ RenderFails
  <2>1. op \in Render
    BY <1>3, Steps DEF WriteEnv, WriteCompose, WriteTraefik, RenderFails, Sound, TypeOK
  <2>2. op' \in Render \union {Idle}
    BY <1>3, <2>1 DEF WriteEnv, WriteCompose, WriteTraefik, RenderFails, Proceed, Done, Failed,
                      Render
  <2> QED BY <1>0, <2>2
<1>4. CASE \/ LoadedSome \/ Deny \/ DownFails \/ MigrateFails \/ Up \/ UpFails
           \/ StopDown \/ StopFails \/ Crash
  BY <1>0, <1>4 DEF LoadedSome, Deny, DownFails, MigrateFails, Up, UpFails, StopDown, StopFails,
                    Crash, Proceed, Done, Failed
<1> QED BY <1>1, <1>2, <1>3, <1>4 DEF Next, Step

-----------------------------------------------------------------------------
(* Evidence                                                                *)

\* No container is created without gate evidence for the Compose file and the
\* capsule it is created from, whatever capsule a request names.
THEOREM EvidenceTheorem == Spec => StartedOnEvidence
<1> DEFINE OnEvidence ==
      \A i \in Instances, s \in Services :
        stack'[i][s] \notin {stack[i][s], Nothing} =>
          /\ evidence[i] # Nothing
          /\ evidence[i].passed
          /\ evidence[i].compose = stack'[i][s].config
          /\ evidence[i].capsule = stack'[i][s].image
<1>1. ASSUME Sound, Next PROVE OnEvidence
  <2> SUFFICES ASSUME NEW i \in Instances, NEW s \in Services,
                      stack'[i][s] \notin {stack[i][s], Nothing}
               PROVE  /\ evidence[i] # Nothing
                      /\ evidence[i].passed
                      /\ evidence[i].compose = stack'[i][s].config
                      /\ evidence[i].capsule = stack'[i][s].image
    OBVIOUS
  <2>1. (Up \/ UpFails) /\ i = op.instance /\ stack'[i][s] = Fresh(i, s)
    BY <1>1, StackStep
  <2>2. /\ op \in Start
        /\ Fresh(i, s) = [image |-> op.capsule, config |-> compose[i],
                          admitted |-> op.admitted]
        /\ stack'[i][s] \in Container
    BY <1>1, <2>1, Ready DEF Up, UpFails
  <2>3. evidence[i] = [capsule |-> op.capsule, compose |-> compose[i], passed |-> TRUE]
    BY <1>1, <2>1, <2>2 DEF Sound, Progress
  <2>4. evidence[i] # Nothing
    <3>1. op.capsule \in Capsules /\ compose[i] \in Rendered
      BY <1>1, <2>1, Ready DEF Up, UpFails
    <3>2. evidence[i] \in Evidence
      BY <2>3, <3>1 DEF Evidence
    <3> QED BY <3>2, RuntimeAssumption
  <2> QED BY <2>1, <2>2, <2>3, <2>4
<1>2. Sound /\ [Next]_vars => [OnEvidence]_vars
  BY <1>1
<1>3. Spec => [][OnEvidence]_vars
  BY <1>2, SoundInvariant, PTL DEF Spec
<1> QED BY <1>3 DEF StartedOnEvidence

-----------------------------------------------------------------------------
(* Images                                                                  *)

\* A start in progress works on the capsule of the Compose file.
OwnCapsule ==
  /\ op \in Start => op.capsule = compose[op.instance].capsule
  /\ StackRunsCapsule

LEMMA OwnCapsuleKept ==
  ASSUME Named \subseteq {Nothing}, Sound, OwnCapsule, Next
  PROVE  OwnCapsule'
<1>1. op' \in Start => op'.capsule = compose'[op'.instance].capsule
  <2> SUFFICES ASSUME op' \in Start PROVE op'.capsule = compose'[op'.instance].capsule
    OBVIOUS
  <2>1. CASE /\ op \in Start /\ op'.instance = op.instance /\ op'.capsule = op.capsule
             /\ compose' = compose
    BY <2>1 DEF OwnCapsule
  <2>2. ASSUME NEW i \in Instances, NEW named \in Named, NEW recreate \in Recreates,
               BeginStart(i, named, recreate)
        PROVE  op'.capsule = compose'[op'.instance].capsule
    BY <2>2 DEF BeginStart, Proceed, Resolve, written
  <2> QED BY <2>1, <2>2, StartKept
<1>2. ASSUME NEW i \in Instances, NEW s \in Services, stack'[i][s] # Nothing
      PROVE  stack'[i][s].image = stack'[i][s].config.capsule
  <2>1. CASE stack'[i][s] \in {stack[i][s], Nothing}
    BY <1>2, <2>1 DEF OwnCapsule, StackRunsCapsule, Running
  <2>2. CASE (Up \/ UpFails) /\ i = op.instance /\ stack'[i][s] = Fresh(i, s)
    <3>1. /\ op \in Start
          /\ Fresh(i, s) = [image |-> op.capsule, config |-> compose[i],
                            admitted |-> op.admitted]
      BY <2>2, Ready DEF Up, UpFails
    <3> QED BY <2>2, <3>1 DEF OwnCapsule
  <2> QED BY <2>1, <2>2, StackStep
<1> QED BY <1>1, <1>2 DEF OwnCapsule, StackRunsCapsule, Running

\* While start requests leave the capsule to the Compose file, every container
\* runs an image of the capsule its Compose file names.
THEOREM ImagesTheorem ==
  ASSUME Named \subseteq {Nothing}
  PROVE  Spec => []StackRunsCapsule
<1>1. Init => OwnCapsule
  BY NotStart DEF Init, OwnCapsule, StackRunsCapsule, Running
<1>2. Sound /\ OwnCapsule /\ [Next]_vars => OwnCapsule'
  <2>1. ASSUME OwnCapsule, UNCHANGED vars PROVE OwnCapsule'
    BY <2>1 DEF vars, OwnCapsule, StackRunsCapsule, Running
  <2> QED BY <2>1, OwnCapsuleKept
<1>3. OwnCapsule => StackRunsCapsule
  BY DEF OwnCapsule
<1> QED BY <1>1, <1>2, <1>3, SoundInvariant, PTL DEF Spec

-----------------------------------------------------------------------------
(* Schema                                                                  *)

\* A start that recreates the containers has none left when it migrates, and
\* brings up the application whose migrations it has run.
Recreated ==
  /\ op \in Start =>
       /\ op.recreate
       /\ op.step \in {"migrate", "up"} =>
            \A s \in Services : stack[op.instance][s] = Nothing
       /\ op.step = "up" => schema[op.instance] = op.capsule
  /\ AppMatchesSchema

LEMMA RecreatedKept ==
  ASSUME Recreates \subseteq {TRUE}, Sound, Recreated, Next
  PROVE  Recreated'
<1>1. ASSUME op' \in Start
      PROVE  /\ op'.recreate
             /\ op'.step \in {"migrate", "up"} =>
                  \A s \in Services : stack'[op'.instance][s] = Nothing
             /\ op'.step = "up" => schema'[op'.instance] = op'.capsule
  <2>1. ASSUME NEW i \in Instances, NEW named \in Named, NEW recreate \in Recreates,
               BeginStart(i, named, recreate)
        PROVE  op'.recreate /\ op'.step = "load"
    BY <2>1 DEF BeginStart, Proceed
  <2>2. CASE /\ op \in Start
             /\ op'.instance = op.instance
             /\ op'.capsule = op.capsule
             /\ op'.recreate = op.recreate
             /\ \/ LoadedAll \/ Admit \/ Down \/ Migrate
                \/ \E s \in Services : Load(s) \/ LoadFails(s)
    <3>1. op.recreate /\ op.instance \in Instances
      BY <2>2 DEF Recreated, Start
    <3>2. CASE LoadedAll \/ Admit \/ \E s \in Services : Load(s) \/ LoadFails(s)
      <4>1. op'.step \in {"load", "admit", "down"}
        BY <2>2, <3>1, <3>2 DEF LoadedAll, Admit, Load, LoadFails, Proceed, AfterAdmission, Start
      <4> QED BY <2>2, <3>1, <4>1
    <3>3. CASE Down
      <4>1. op'.step = "migrate"
        BY <2>2, <3>3 DEF Down, Proceed, Start
      <4>2. stack'[op.instance] = Empty
        BY <3>1, <3>3 DEF Down, Sound, TypeOK
      <4>3. \A s \in Services : stack'[op'.instance][s] = Nothing
        BY <2>2, <4>2 DEF Empty
      <4> QED BY <2>2, <3>1, <4>1, <4>3
    <3>4. CASE Migrate
      <4>1. op'.step = "up" /\ op.step = "migrate" /\ stack' = stack
        BY <2>2, <3>4 DEF Migrate, Proceed, Start
      <4>2. schema'[op.instance] = op.capsule
        BY <3>1, <3>4, Ready, RuntimeAssumption DEF Migrate, Sound, TypeOK
      <4>3. \A s \in Services : stack'[op'.instance][s] = Nothing
        BY <2>2, <4>1 DEF Recreated
      <4> QED BY <2>2, <3>1, <4>2, <4>3
    <3> QED BY <2>2, <3>2, <3>3, <3>4
  <2> QED BY <1>1, <2>1, <2>2, StartKept
<1>2. ASSUME NEW i \in Instances, stack'[i][App] # Nothing
      PROVE  stack'[i][App].image = schema'[i]
  <2>1. CASE (Up \/ UpFails) /\ i = op.instance /\ stack'[i][App] = Fresh(i, App)
    <3>1. /\ op \in Start
          /\ Fresh(i, App) = [image |-> op.capsule, config |-> compose[i],
                              admitted |-> op.admitted]
      BY <2>1, Ready, RuntimeAssumption DEF Up, UpFails
    <3>2. schema' = schema /\ op.step = "up"
      BY <2>1 DEF Up, UpFails
    <3> QED BY <2>1, <3>1, <3>2 DEF Recreated
  <2>2. CASE stack'[i][App] = stack[i][App]
    <3>1. App \in Running(i)
      BY <1>2, <2>2, RuntimeAssumption DEF Running
    <3>2. stack[i][App].image = schema[i]
      BY <3>1 DEF Recreated, AppMatchesSchema
    <3>3. schema'[i] = schema[i]
      <4>1. CASE Migrate \/ MigrateFails
        <5>1. op \in Start /\ op.step = "migrate" /\ op.instance \in Instances
          BY <4>1, Ready DEF Migrate, MigrateFails
        <5>2. i # op.instance
          BY <1>2, <2>2, <5>1, RuntimeAssumption DEF Recreated
        <5> QED BY <4>1, <5>1, <5>2 DEF Migrate, MigrateFails, Sound, TypeOK
      <4>2. CASE Request
        BY <4>2 DEF Request, Extract, Discard, Create, SetProfile, EndPublicMode, BeginRender,
                    Check, BeginStart, StartBlocked, BeginStop, docker
      <4>3. CASE \/ WriteEnv \/ WriteCompose \/ WriteTraefik \/ RenderFails
                 \/ \E t \in Services : Load(t) \/ LoadFails(t)
                 \/ LoadedAll \/ LoadedSome \/ Admit \/ Deny \/ Down \/ DownFails
                 \/ Up \/ UpFails \/ StopDown \/ StopFails \/ Crash
        BY <4>3 DEF WriteEnv, WriteCompose, WriteTraefik, RenderFails, Load, LoadFails,
                    LoadedAll, LoadedSome, Admit, Deny, Down, DownFails, Up, UpFails,
                    StopDown, StopFails, Crash, docker
      <4> QED BY <4>1, <4>2, <4>3 DEF Next, Step
    <3> QED BY <2>2, <3>2, <3>3
  <2> QED BY <1>2, <2>1, <2>2, StackStep, RuntimeAssumption
<1> QED BY <1>1, <1>2, RuntimeAssumption DEF Recreated, AppMatchesSchema, Running

LEMMA RecreatedInvariant ==
  ASSUME Recreates \subseteq {TRUE}
  PROVE  Spec => [](Sound /\ Recreated)
<1>1. Init => Recreated
  BY NotStart, RuntimeAssumption DEF Init, Recreated, AppMatchesSchema, Running
<1>2. Sound /\ Recreated /\ [Next]_vars => Recreated'
  <2>1. ASSUME Recreated, UNCHANGED vars PROVE Recreated'
    BY <2>1 DEF vars, Recreated, AppMatchesSchema, Running
  <2> QED BY <2>1, RecreatedKept
<1> QED BY <1>1, <1>2, SoundInvariant, PTL DEF Spec

\* While starts recreate the containers, django-api never runs on a database
\* that another capsule's migrations have changed.
THEOREM SchemaTheorem ==
  ASSUME Recreates \subseteq {TRUE}
  PROVE  Spec => []AppMatchesSchema
<1>1. Recreated => AppMatchesSchema
  BY DEF Recreated
<1> QED BY <1>1, RecreatedInvariant, PTL

-----------------------------------------------------------------------------
(* Deployment                                                              *)

\* All containers of an instance are of one Compose file.
Uniform ==
  \A i \in Instances : \A s, t \in Running(i) : stack[i][s].config = stack[i][t].config

\* The containers that appear when a start recreates them appear on an empty
\* stack, and are of its Compose file.
LEMMA FreshStack ==
  ASSUME Sound, Recreated, Next, NEW i \in Instances
  PROVE  \/ \A s \in Services : stack'[i][s] \in {stack[i][s], Nothing}
         \/ /\ Running(i) = {}
            /\ compose[i] # Nothing /\ compose' = compose
            /\ \A s \in Running(i)' : stack'[i][s].config = compose[i]
<1>1. SUFFICES ASSUME (Up \/ UpFails) /\ i = op.instance
               PROVE  /\ Running(i) = {}
                      /\ compose[i] # Nothing /\ compose' = compose
                      /\ \A s \in Running(i)' : stack'[i][s].config = compose[i]
  BY StackStep
<1>2. op.step = "up" /\ op \in Start /\ compose' = compose
  BY <1>1, Ready DEF Up, UpFails, written
<1>3. compose[i] # Nothing /\ \A s \in Services : Fresh(i, s).config = compose[i]
  BY <1>1, <1>2, Ready, RuntimeAssumption
<1>4. \A s \in Services : stack[i][s] = Nothing
  BY <1>1, <1>2 DEF Recreated
<1>5. \A s \in Services : stack'[i][s] \in {Nothing, Fresh(i, s)}
  BY <1>1, <1>4, UpContainers
<1> QED BY <1>2, <1>3, <1>4, <1>5 DEF Running

\* A Compose file is rewritten while the containers stay.
LEMMA ComposeStep ==
  ASSUME Sound, Next, NEW i \in Instances
  PROVE  compose'[i] = compose[i] \/ (compose'[i] \in Rendered /\ stack' = stack)
<1>1. CASE WriteCompose
  <2>1. op.instance \in Instances /\ op.write \in Rendered
    BY <1>1, Steps DEF WriteCompose, Sound, TypeOK, Render
  <2> QED BY <1>1, <2>1 DEF WriteCompose, docker, Sound, TypeOK
<1>2. CASE Request
  BY <1>2 DEF Request, Extract, Discard, Create, SetProfile, EndPublicMode, BeginRender, Check,
              BeginStart, StartBlocked, BeginStop, written
<1>3. CASE \/ WriteEnv \/ WriteTraefik \/ RenderFails
           \/ \E t \in Services : Load(t) \/ LoadFails(t)
           \/ LoadedAll \/ LoadedSome \/ Admit \/ Deny \/ Down \/ DownFails \/ Migrate
           \/ MigrateFails \/ Up \/ UpFails \/ StopDown \/ StopFails \/ Crash
  BY <1>3 DEF WriteEnv, WriteTraefik, RenderFails, Load, LoadFails, LoadedAll, LoadedSome, Admit,
              Deny, Down, DownFails, Migrate, MigrateFails, Up, UpFails, StopDown, StopFails,
              Crash, written
<1> QED BY <1>1, <1>2, <1>3 DEF Next, Step

LEMMA UniformKept ==
  ASSUME Sound, Recreated, Uniform, Next
  PROVE  Uniform'
<1> SUFFICES ASSUME NEW i \in Instances, NEW s \in Running(i)', NEW t \in Running(i)'
             PROVE  stack'[i][s].config = stack'[i][t].config
  BY DEF Uniform
<1>1. s \in Services /\ t \in Services /\ stack'[i][s] # Nothing /\ stack'[i][t] # Nothing
  BY DEF Running
<1>2. CASE \A x \in Services : stack'[i][x] \in {stack[i][x], Nothing}
  <2>1. stack'[i][s] = stack[i][s] /\ stack'[i][t] = stack[i][t]
    BY <1>1, <1>2
  <2>2. s \in Running(i) /\ t \in Running(i)
    BY <1>1, <2>1 DEF Running
  <2> QED BY <2>1, <2>2 DEF Uniform
<1>3. CASE \A x \in Running(i)' : stack'[i][x].config = compose[i]
  BY <1>3
<1> QED BY <1>2, <1>3, FreshStack

\* Every step of the handlers is a step of the deployment of each instance.
LEMMA DeploymentStep ==
  ASSUME Sound, Recreated, Uniform, Next, NEW i \in Instances
  PROVE  [Deployed(i)!DeploymentNext]_(Deployed(i)!deployment)
<1> DEFINE Of == {stack[i][s].config : s \in Running(i)}
<1>1. CASE compose'[i] # compose[i]
  <2>1. compose'[i] \in Rendered /\ stack' = stack
    BY <1>1, ComposeStep
  <2>2. UpOf(i)' = UpOf(i) /\ Of' = Of
    BY <2>1 DEF UpOf, Running
  <2>3. Deployed(i)!Rewrite
    BY <2>1, <2>2 DEF Deployed!Rewrite
  <2> QED BY <2>3 DEF Deployed!DeploymentNext
<1>2. CASE compose'[i] = compose[i] /\ \A s \in Services : stack'[i][s] \in {stack[i][s], Nothing}
  <2>1. /\ Running(i)' \subseteq Running(i) /\ Running(i) \subseteq Services
        /\ \A s \in Running(i)' : stack'[i][s] = stack[i][s]
    BY <1>2 DEF Running
  <2>2. CASE Running(i)' = {}
    <3>1. UpOf(i)' = "none" /\ Of' = {}
      BY <2>2 DEF UpOf
    <3>2. Deployed(i)!TakeDown
      BY <1>2, <3>1 DEF Deployed!TakeDown, Deployed!NothingUp
    <3> QED BY <3>2 DEF Deployed!DeploymentNext
  <2>3. CASE Running(i)' # {} /\ Running(i)' # Running(i)
    <3>1. UpOf(i)' = "infra" /\ UpOf(i) # "none"
      BY <2>1, <2>3 DEF UpOf
    <3>2. PICK s \in Running(i)' : TRUE
      BY <2>3
    <3>3. Of = {stack[i][s].config}
      BY <2>1, <3>2 DEF Uniform
    <3>4. Of' = {stack[i][s].config}
      BY <2>1, <3>2 DEF Uniform
    <3>5. Deployed(i)!TakeDown
      BY <1>2, <3>1, <3>3, <3>4 DEF Deployed!TakeDown
    <3> QED BY <3>5 DEF Deployed!DeploymentNext
  <2>4. CASE Running(i)' = Running(i)
    <3>1. UpOf(i)' = UpOf(i) /\ Of' = Of
      BY <2>1, <2>4 DEF UpOf
    <3> QED BY <1>2, <3>1 DEF Deployed!deployment
  <2> QED BY <2>2, <2>3, <2>4
<1>3. CASE /\ compose'[i] = compose[i] /\ Running(i) = {} /\ compose[i] # Nothing
           /\ \A s \in Running(i)' : stack'[i][s].config = compose[i]
  <2>1. CASE Running(i)' = {}
    <3>1. UpOf(i)' = "none" /\ Of' = {}
      BY <2>1 DEF UpOf
    <3>2. Deployed(i)!TakeDown
      BY <1>3, <3>1 DEF Deployed!TakeDown, Deployed!NothingUp
    <3> QED BY <3>2 DEF Deployed!DeploymentNext
  <2>2. CASE Running(i)' # {}
    <3>1. UpOf(i)' \in {"infra", "all"}
      BY <2>2 DEF UpOf
    <3>2. Of' = {compose[i]}
      BY <1>3, <2>2
    <3>3. Deployed(i)!BringUp
      BY <1>3, <3>1, <3>2 DEF Deployed!BringUp
    <3> QED BY <3>3 DEF Deployed!DeploymentNext
  <2> QED BY <2>1, <2>2
<1> QED BY <1>1, <1>2, <1>3, FreshStack

\* While starts recreate the containers, each instance is deployed as the
\* Manager takes it to be: whatever fails or dies, containers of one Compose
\* file never run beside those of another.
THEOREM DeploymentTheorem ==
  ASSUME Recreates \subseteq {TRUE}
  PROVE  Spec => StacksAreDeployed
<1>1. Init => Uniform /\ \A i \in Instances : Deployed(i)!DeploymentInit
  BY DEF Init, Uniform, Running, UpOf, Deployed!DeploymentInit, Deployed!NothingUp
<1>2. Sound /\ Recreated /\ Uniform /\ [Next]_vars => Uniform'
  <2>1. ASSUME Uniform, UNCHANGED vars PROVE Uniform'
    BY <2>1 DEF vars, Uniform, Running
  <2> QED BY <2>1, UniformKept
<1>3. Sound /\ Recreated /\ Uniform /\ [Next]_vars =>
        [\A i \in Instances : [Deployed(i)!DeploymentNext]_(Deployed(i)!deployment)]_vars
  BY DeploymentStep
<1> QED BY <1>1, <1>2, <1>3, RecreatedInvariant, PTL DEF Spec, StacksAreDeployed

-----------------------------------------------------------------------------
(* Stops                                                                   *)

\* Only a successful down makes an answer say that an instance is stopped, and
\* a start that ends takes the word back.
LEMMA ToldStopped ==
  ASSUME Sound, Next, NEW i \in Instances, told'[i] = "stopped"
  PROVE  /\ told[i] = "stopped" \/ (StopDown /\ i = op.instance)
         /\ (Up \/ UpFails) => i # op.instance
<1>1. CASE Request
  <2>1. told' = told /\ op = Idle
    BY <1>1 DEF Request, Extract, Discard, Create, SetProfile, EndPublicMode, BeginRender, Check,
                BeginStart, StartBlocked, BeginStop, Proceed
  <2> QED BY <2>1 DEF Idle, Up, UpFails
<1>2. CASE \/ WriteEnv \/ RenderFails \/ LoadedAll \/ LoadedSome \/ Admit \/ Deny \/ Down \/ Migrate
           \/ \E s \in Services : Load(s) \/ LoadFails(s)
  <2>1. told' = told /\ op.step # "up"
    BY <1>2 DEF WriteEnv, RenderFails, LoadedAll, LoadedSome, Admit, Deny, Down, Migrate, Load,
                LoadFails, Proceed
  <2> QED BY <2>1 DEF Up, UpFails
<1>3. CASE WriteCompose \/ DownFails \/ MigrateFails \/ StopFails \/ Crash
  BY <1>3 DEF WriteCompose, DownFails, MigrateFails, StopFails, Crash, Tell, Up, UpFails, Done,
              Failed, Idle, Sound, TypeOK
<1>4. CASE WriteTraefik
  <2>1. op.says \in {"ready", "private"} /\ op.step = "traefik"
    BY <1>4, Steps DEF WriteTraefik, Sound, TypeOK, Render
  <2> QED BY <1>4, <2>1 DEF WriteTraefik, Done, Tell, Up, UpFails, Sound, TypeOK
<1>5. CASE Up \/ UpFails
  BY <1>5 DEF Up, UpFails, Done, Tell, Sound, TypeOK
<1>6. CASE StopDown
  BY <1>6 DEF StopDown, Done, Tell, Up, UpFails, Sound, TypeOK
<1> QED BY <1>1, <1>2, <1>3, <1>4, <1>5, <1>6 DEF Next, Step

\* After "Instance stopped." no container is left until the next start,
\* whatever fails or dies in between.
THEOREM StopTheorem == Spec => []StoppedIsDown
<1>1. Init => StoppedIsDown
  BY DEF Init, StoppedIsDown
<1>2. ASSUME Sound, StoppedIsDown, Next PROVE StoppedIsDown'
  <2> SUFFICES ASSUME NEW i \in Instances, told'[i] = "stopped", NEW s \in Services
               PROVE  stack'[i][s] = Nothing
    BY DEF StoppedIsDown, Running
  <2>1. CASE StopDown /\ i = op.instance
    BY <1>2, <2>1 DEF StopDown, Empty, Sound, TypeOK
  <2>2. CASE told[i] = "stopped"
    <3>1. stack[i][s] = Nothing
      BY <1>2, <2>2 DEF StoppedIsDown, Running
    <3>2. stack'[i][s] \in {stack[i][s], Nothing}
      BY <1>2, StackStep, ToldStopped
    <3> QED BY <3>1, <3>2
  <2> QED BY <1>2, <2>1, <2>2, ToldStopped
<1>3. Sound /\ StoppedIsDown /\ [Next]_vars => StoppedIsDown'
  <2>1. ASSUME StoppedIsDown, UNCHANGED vars PROVE StoppedIsDown'
    BY <2>1 DEF vars, StoppedIsDown, Running
  <2> QED BY <1>2, <2>1
<1> QED BY <1>1, <1>3, SoundInvariant, PTL DEF Spec
-----------------------------------------------------------------------------
(* Admission                                                               *)

\* A start that was admitted works on a released capsule: the images that were
\* measured are those of its capsule, and nothing replaces them before up.
Admitted ==
  /\ op \in Start /\ op.admitted => op.capsule \in Released
  /\ AdmittedIsReleased

LEMMA AdmittedKept ==
  ASSUME Sound, Admitted, Next
  PROVE  Admitted'
<1>1. ASSUME op' \in Start, op'.admitted
      PROVE  op'.capsule \in Released
  <2>1. ASSUME NEW i \in Instances, NEW named \in Named, NEW recreate \in Recreates,
               BeginStart(i, named, recreate)
        PROVE  ~op'.admitted
    BY <2>1 DEF BeginStart, Proceed
  <2>2. CASE /\ op \in Start
             /\ op'.capsule = op.capsule
             /\ \/ LoadedAll \/ Down \/ Migrate
                \/ \E s \in Services : Load(s) \/ LoadFails(s)
    <3>1. op'.admitted = op.admitted
      BY <2>2 DEF LoadedAll, Down, Migrate, Load, LoadFails, Proceed, Start
    <3> QED BY <1>1, <2>2, <3>1 DEF Admitted
  <2>3. CASE op \in Start /\ op'.capsule = op.capsule /\ Admit
    <3>1. op'.admitted = (env[op.instance] \in Public)
      BY <2>3 DEF Admit, Proceed, Start
    <3>2. Measured(op.instance)
      BY <1>1, <2>3, <3>1 DEF Admit
    <3>3. PICK c \in Released : \A s \in Services : Pulled(op.instance)[s] = c
      BY <3>2 DEF Measured
    <3>4. \A s \in Services : Pulled(op.instance)[s] = op.capsule
      BY <2>3, Ready DEF Admit
    <3>5. c = op.capsule
      BY <3>3, <3>4, RuntimeAssumption
    <3> QED BY <2>3, <3>5
  <2> QED BY <1>1, <2>1, <2>2, <2>3, StartKept
<1>2. ASSUME NEW i \in Instances, NEW s \in Services, stack'[i][s] # Nothing,
             stack'[i][s].admitted
      PROVE  stack'[i][s].image \in Released
  <2>1. CASE stack'[i][s] \in {stack[i][s], Nothing}
    BY <1>2, <2>1 DEF Admitted, AdmittedIsReleased, Running
  <2>2. CASE (Up \/ UpFails) /\ i = op.instance /\ stack'[i][s] = Fresh(i, s)
    <3>1. /\ op \in Start
          /\ Fresh(i, s) = [image |-> op.capsule, config |-> compose[i],
                            admitted |-> op.admitted]
      BY <2>2, Ready DEF Up, UpFails
    <3> QED BY <1>2, <2>2, <3>1 DEF Admitted
  <2> QED BY <2>1, <2>2, StackStep
<1> QED BY <1>1, <1>2 DEF Admitted, AdmittedIsReleased, Running

\* Every container from an admitted start has a released image, whatever is
\* loaded, started or rewritten between the measurement and up.
THEOREM AdmissionTheorem == Spec => []AdmittedIsReleased
<1>1. Init => Admitted
  BY NotStart DEF Init, Admitted, AdmittedIsReleased, Running
<1>2. Sound /\ Admitted /\ [Next]_vars => Admitted'
  <2>1. ASSUME Admitted, UNCHANGED vars PROVE Admitted'
    BY <2>1 DEF vars, Admitted, AdmittedIsReleased, Running
  <2> QED BY <2>1, AdmittedKept
<1>3. Admitted => AdmittedIsReleased
  BY DEF Admitted
<1> QED BY <1>1, <1>2, <1>3, SoundInvariant, PTL DEF Spec

\* While starts recreate the containers, what runs fits both its database and
\* its admission, after whatever the Agent serves, fails in or dies in.
THEOREM ContainersTheorem ==
  ASSUME Recreates \subseteq {TRUE}
  PROVE  Spec => []ContainersAreSound
<1>1. AppMatchesSchema /\ AdmittedIsReleased => ContainersAreSound
  BY DEF ContainersAreSound
<1> QED BY <1>1, SchemaTheorem, AdmissionTheorem, PTL

-----------------------------------------------------------------------------
(* Answers                                                                 *)

\* All services of instance i run with its Compose file and its migrations.
Complete(i) ==
  /\ compose[i] # Nothing
  /\ schema[i] = compose[i].capsule
  /\ \A s \in Services : stack[i][s] # Nothing /\ stack[i][s].config = compose[i]

\* The containers or the schema of i may be in between: a start of it has got as
\* far as the migrations, and whatever becomes of it the answer will be another.
InBetween(i) == op \in Start /\ op.instance = i /\ op.step \in {"migrate", "up"}

StartedSoFar ==
  /\ op \in Start /\ op.step = "up" => schema[op.instance] = op.capsule
  /\ \A i \in Instances : told[i] = "started" => Complete(i) \/ InBetween(i)

\* A start that is about to bring the containers up has migrated the database to
\* its capsule.
LEMMA MigratedKept ==
  ASSUME Sound, StartedSoFar, Next, op' \in Start, op'.step = "up"
  PROVE  schema'[op'.instance] = op'.capsule
<1>1. ASSUME NEW i \in Instances, NEW named \in Named, NEW recreate \in Recreates,
             BeginStart(i, named, recreate)
      PROVE  FALSE
  BY <1>1 DEF BeginStart, Proceed
<1>2. CASE /\ op \in Start
           /\ op'.instance = op.instance
           /\ op'.capsule = op.capsule
           /\ \/ LoadedAll \/ Admit \/ Down \/ Migrate
              \/ \E s \in Services : Load(s) \/ LoadFails(s)
  <2>1. Migrate
    BY <1>2 DEF LoadedAll, Admit, Down, Load, LoadFails, Proceed, AfterAdmission, Start
  <2>2. schema'[op.instance] = op.capsule
    BY <2>1, Ready, RuntimeAssumption DEF Migrate, Sound, TypeOK
  <2> QED BY <1>2, <2>2
<1> QED BY <1>1, <1>2, StartKept

\* Nothing that belongs to instance i changes.
Untouched(i) ==
  told'[i] = told[i] /\ compose'[i] = compose[i] /\ schema'[i] = schema[i] /\ stack'[i] = stack[i]

\* What is complete and left alone stays complete.
LEMMA CompleteStays ==
  ASSUME NEW i \in Instances, Untouched(i), StartedSoFar, ~InBetween(i), told'[i] = "started"
  PROVE  Complete(i)'
BY DEF Untouched, StartedSoFar, Complete

\* Only the request in progress touches an instance.
LEMMA OthersUntouched ==
  ASSUME Sound, Step \/ Crash, NEW i \in Instances, i # op.instance
  PROVE  Untouched(i)
<1> USE DEF Untouched, Sound, TypeOK
<1>1. CASE WriteEnv \/ WriteCompose \/ WriteTraefik \/ RenderFails
  BY <1>1 DEF WriteEnv, WriteCompose, WriteTraefik, RenderFails, Proceed, Done, Tell, written, docker
<1>2. CASE \/ LoadedAll \/ LoadedSome \/ Admit \/ Deny
           \/ \E s \in Services : Load(s) \/ LoadFails(s)
  BY <1>2 DEF LoadedAll, LoadedSome, Admit, Deny, Load, LoadFails, Proceed, written, docker
<1>3. CASE Down \/ Migrate \/ MigrateFails \/ StopDown
  BY <1>3 DEF Down, Migrate, MigrateFails, StopDown, Proceed, Done, Failed, Tell, written
<1>4. CASE DownFails \/ StopFails
  BY <1>4 DEF DownFails, StopFails, Tell, written
<1>5. CASE Up \/ UpFails
  <2>1. stack'[i] = stack[i]
    BY <1>5, UpContainers
  <2> QED BY <1>5, <2>1 DEF Up, UpFails, Done, Tell, written
<1>6. CASE Crash
  BY <1>6 DEF Crash, written, docker
<1> QED BY <1>1, <1>2, <1>3, <1>4, <1>5, <1>6 DEF Step

LEMMA StartedKept ==
  ASSUME Sound, OwnCapsule, StartedSoFar, Next
  PROVE  StartedSoFar'
<1> SUFFICES ASSUME NEW i \in Instances, told'[i] = "started"
             PROVE  Complete(i)' \/ InBetween(i)'
  BY MigratedKept DEF StartedSoFar
<1>1. CASE Request
  <2>1. Untouched(i) /\ op = Idle
    BY <1>1 DEF Request, Extract, Discard, Create, SetProfile, EndPublicMode, BeginRender, Check,
                BeginStart, StartBlocked, BeginStop, Proceed, written, docker, Untouched
  <2> QED BY <2>1, CompleteStays, NotStart DEF InBetween
<1>2. CASE (Step \/ Crash) /\ i # op.instance
  BY <1>2, OthersUntouched, CompleteStays DEF InBetween
<1>3. CASE Step /\ i = op.instance
  <2>1. CASE WriteEnv \/ WriteTraefik \/ RenderFails
    <3>1. op \in Render
      BY <2>1, Steps DEF WriteEnv, WriteTraefik, RenderFails, Sound, TypeOK
    <3>2. told'[i] = told[i]
      BY <1>3, <2>1, <3>1 DEF WriteEnv, WriteTraefik, RenderFails, Proceed, Done, Tell, Render,
                              Sound, TypeOK
    <3>3. Untouched(i)
      BY <2>1, <3>2 DEF WriteEnv, WriteTraefik, RenderFails, written, docker, Untouched
    <3> QED BY <3>1, <3>3, CompleteStays, NotStart DEF InBetween
  <2>2. CASE \/ LoadedAll \/ LoadedSome \/ Admit \/ Deny
             \/ \E s \in Services : Load(s) \/ LoadFails(s)
    <3>1. Untouched(i)
      BY <2>2 DEF LoadedAll, LoadedSome, Admit, Deny, Load, LoadFails, Proceed, written, docker,
                  Untouched
    <3>2. op.step \in {"load", "admit"}
      BY <2>2 DEF LoadedAll, LoadedSome, Admit, Deny, Load, LoadFails
    <3> QED BY <3>1, <3>2, CompleteStays DEF InBetween
  <2>3. CASE Down \/ Migrate
    <3>1. op \in Start
      BY <2>3, Steps DEF Down, Migrate, Sound, TypeOK
    <3>2. op' \in Start /\ op'.instance = i /\ op'.step \in {"migrate", "up"}
      BY <1>3, <2>3, <3>1 DEF Down, Migrate, Proceed, Start
    <3> QED BY <3>2 DEF InBetween
  <2>4. CASE WriteCompose \/ DownFails \/ MigrateFails \/ UpFails \/ StopDown \/ StopFails
    BY <1>3, <2>4 DEF WriteCompose, DownFails, MigrateFails, UpFails, StopDown, StopFails, Done,
                      Tell, Sound, TypeOK
  <2>5. CASE Up
    <3>1. op \in Start /\ op.step = "up" /\ compose[i] \in Rendered
      BY <1>3, <2>5, Ready DEF Up
    <3>2. schema[i] = compose[i].capsule
      BY <1>3, <3>1 DEF StartedSoFar, OwnCapsule
    <3>3. PICK kept \in SUBSET Kept(i) :
            stack' = [stack EXCEPT ![i] =
              [s \in Services |-> IF s \in kept THEN stack[i][s] ELSE Fresh(i, s)]]
      BY <1>3, <2>5 DEF Up
    <3>4. \A s \in Services : /\ Fresh(i, s).config = compose[i]
                              /\ Fresh(i, s) \in Container
      BY <1>3, <2>5, Ready DEF Up
    <3>5. \A s \in Services : stack'[i][s] # Nothing /\ stack'[i][s].config = compose[i]
      BY <3>3, <3>4, RuntimeAssumption DEF Kept, Sound, TypeOK
    <3>6. UNCHANGED <<compose, schema>> /\ compose[i] # Nothing
      BY <2>5, <3>1, RuntimeAssumption DEF Up, written
    <3> QED BY <3>2, <3>5, <3>6 DEF Complete
  <2> QED BY <1>3, <2>1, <2>2, <2>3, <2>4, <2>5 DEF Step
<1>4. CASE Crash /\ i = op.instance
  <2>1. op.step \notin {"migrate", "up"}
    BY <1>4 DEF Crash, Sound, TypeOK
  <2>2. Untouched(i)
    BY <1>4, <2>1 DEF Crash, written, docker, Untouched
  <2> QED BY <2>1, <2>2, CompleteStays DEF InBetween
<1> QED BY <1>1, <1>2, <1>3, <1>4 DEF Next

\* What the Agent last answered of an instance is how its containers are: after
\* "Instance stopped." there are none, and after "Instance started." all its
\* services run with its Compose file and its migrations, whatever was blocked,
\* denied, failed or cut off by a crash since, as long as start requests leave
\* the capsule to the Compose file.
THEOREM AnswersTheorem ==
  ASSUME Named \subseteq {Nothing}
  PROVE  Spec => []AnswersAreTrue
<1>1. Init => OwnCapsule /\ StartedSoFar
  BY NotStart DEF Init, OwnCapsule, StackRunsCapsule, Running, StartedSoFar
<1>2. Sound /\ OwnCapsule /\ StartedSoFar /\ [Next]_vars => (OwnCapsule /\ StartedSoFar)'
  <2>1. ASSUME OwnCapsule, StartedSoFar, UNCHANGED vars PROVE (OwnCapsule /\ StartedSoFar)'
    BY <2>1 DEF vars, OwnCapsule, StackRunsCapsule, Running, StartedSoFar, Complete, InBetween
  <2> QED BY <2>1, OwnCapsuleKept, StartedKept
<1>3. TypeOK /\ StartedSoFar => StartedIsComplete
  <2> SUFFICES ASSUME TypeOK, StartedSoFar, NEW i \in Instances, told[i] = "started", ~Busy(i)
               PROVE  /\ compose[i] # Nothing
                      /\ schema[i] = compose[i].capsule
                      /\ \A s \in Services : s \in Running(i) /\ stack[i][s].config = compose[i]
    BY DEF StartedIsComplete
  <2>1. ~InBetween(i)
    BY NotStart DEF Busy, InBetween
  <2> QED BY <2>1 DEF StartedSoFar, Complete, Running
<1>4. StartedIsComplete /\ StoppedIsDown => AnswersAreTrue
  BY DEF AnswersAreTrue
<1> QED BY <1>1, <1>2, <1>3, <1>4, SoundInvariant, Typing, StopTheorem, PTL DEF Spec
=============================================================================
