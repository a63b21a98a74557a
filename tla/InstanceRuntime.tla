-------------------------- MODULE InstanceRuntime --------------------------
(***************************************************************************)
(* The Agent's instance actions (kx_agent/actions.py): create, update,     *)
(* network profile changes, security check, start and stop.                *)
(*                                                                         *)
(* A request rewrites files (env files, Compose file, Traefik file, gate   *)
(* evidence) and drives Docker (load images, down, migrate, up) one step   *)
(* after another.  Every step may fail or time out, and the Agent may die  *)
(* between two of them; nothing is undone.  The Agent serves one request   *)
(* at a time.  Containers change only by Docker commands: files rewritten  *)
(* under a running stack wait for the next start.                          *)
(*                                                                         *)
(* Image tags belong to the host, not to an instance: capsules with the    *)
(* same tag load their images over each other's.                           *)
(***************************************************************************)
EXTENDS FiniteSets, Naturals

CONSTANTS
  Instances, Capsules, Tags,
  Services,       \* the services whose images a capsule brings
  App,            \* django-api, the service that runs the migrations
  Profiles,       \* network profiles
  Private,        \* the profile that ends public mode (intranet_private)
  Public,         \* the profiles that need release admission
  Nothing,        \* no file, no container, no image, no capsule id

  TagOf,          \* the image tag a capsule's services use
  Trusted,        \* capsules whose signature and checksums verify
  Released,       \* capsules whose images a signed ReleaseSet lists
  Pinned,         \* capsules whose Compose images are pinned by digest
  Named,          \* the capsule ids start and check requests name, or Nothing
  Recreates,      \* the values of force_recreate_after_image_load
  EnvWrites,      \* the values of generate_secrets

  Faults,         \* bound: how many steps fail
  Crashes         \* bound: how often the Agent dies and comes back

Rendered == [capsule : Capsules, profile : Profiles]

\* A container: the capsule its image came from, the Compose file it was
\* created with, and whether that start was admitted.
Container == [image : Capsules, config : Rendered, admitted : BOOLEAN]

\* What the gate writes about a capsule and the Compose file it has checked.
Evidence == [capsule : Capsules, compose : Rendered, passed : BOOLEAN]

ASSUME RuntimeAssumption ==
  /\ App \in Services
  /\ Private \in Profiles /\ Public \subseteq Profiles /\ Private \notin Public
  /\ Nothing \notin Capsules \union Profiles \union Rendered \union Container \union Evidence
  /\ TagOf \in [Capsules -> Tags]
  /\ Trusted \subseteq Capsules /\ Released \subseteq Capsules /\ Pinned \subseteq Capsules
  /\ Named \subseteq Capsules \union {Nothing}
  /\ Recreates \subseteq BOOLEAN /\ EnvWrites \subseteq BOOLEAN

ASSUME BudgetAssumption == Faults \in Nat /\ Crashes \in Nat

VARIABLES
  extracted,      \* capsules with an extraction directory
  env,            \* KX_NETWORK_PROFILE in each instance's env files
  compose,        \* docker-compose.runtime.yml
  evidence,       \* the security gate evidence file
  images,         \* what each tag and service names in Docker's image store
  stack,          \* the containers of each instance
  schema,         \* the capsule whose migrations its database has
  op,             \* the request in progress
  told,           \* what the last successful answer said of each instance
  faults, crashes

vars == <<extracted, env, compose, evidence, images, stack, schema, op, told,
          faults, crashes>>
written == <<env, compose>>
docker == <<images, stack, schema>>
budgets == <<faults, crashes>>

\* A request: how far it has come and its local variables.
Render == [step : {"env", "compose", "traefik"}, instance : Instances,
           write : Rendered, says : {"ready", "private"}]
Start == [step : {"load", "admit", "down", "migrate", "up"}, instance : Instances,
          capsule : Capsules, recreate : BOOLEAN, left : SUBSET Services,
          failed : BOOLEAN, admitted : BOOLEAN]
Stop == [step : {"stop"}, instance : Instances]
Idle == [step |-> "idle"]

TypeOK ==
  /\ extracted \subseteq Capsules
  /\ env \in [Instances -> Profiles \union {Nothing}]
  /\ compose \in [Instances -> Rendered \union {Nothing}]
  /\ evidence \in [Instances -> Evidence \union {Nothing}]
  /\ images \in [Tags -> [Services -> Capsules \union {Nothing}]]
  /\ stack \in [Instances -> [Services -> Container \union {Nothing}]]
  /\ schema \in [Instances -> Capsules \union {Nothing}]
  /\ op \in Render \union Start \union Stop \union {Idle}
  /\ told \in [Instances -> {"nothing", "ready", "private", "started", "stopped"}]
  /\ faults \in 0..Faults
  /\ crashes \in 0..Crashes

Init ==
  /\ extracted = {}
  /\ env = [i \in Instances |-> Nothing]
  /\ compose = [i \in Instances |-> Nothing]
  /\ evidence = [i \in Instances |-> Nothing]
  /\ images = [t \in Tags |-> [s \in Services |-> Nothing]]
  /\ stack = [i \in Instances |-> [s \in Services |-> Nothing]]
  /\ schema = [i \in Instances |-> Nothing]
  /\ op = Idle
  /\ told = [i \in Instances |-> "nothing"]
  /\ faults = 0
  /\ crashes = 0

Tell(i, what) == told' = [told EXCEPT ![i] = what]
Busy(i) == op # Idle /\ op.instance = i
Fault == faults < Faults /\ faults' = faults + 1 /\ UNCHANGED crashes

\* A step of the request in progress that succeeds, and one that fails.
Proceed(next) == op' = next /\ UNCHANGED <<told, budgets>>
Done(what) == op' = Idle /\ Tell(op.instance, what) /\ UNCHANGED budgets
Failed == op' = Idle /\ Fault

-----------------------------------------------------------------------------
(* Capsules come and go between requests (see ArtifactStore).              *)

Extract(c) ==
  /\ op = Idle
  /\ extracted' = extracted \union {c}
  /\ UNCHANGED <<written, evidence, docker, op, told, budgets>>

Discard(c) ==
  /\ op = Idle
  /\ extracted' = extracted \ {c}
  /\ UNCHANGED <<written, evidence, docker, op, told, budgets>>

-----------------------------------------------------------------------------
(* write_runtime_compose: env files, then Compose file, then Traefik file. *)

BeginRender(i, r, generate, says) ==
  /\ op = Idle
  /\ Proceed([step |-> IF generate THEN "env" ELSE "compose", instance |-> i,
              write |-> r, says |-> says])
  /\ UNCHANGED <<extracted, written, evidence, docker>>

\* instance_create, and instance_update which delegates to it
Create(i, r, generate) == BeginRender(i, r, generate, "ready")

\* network_set_profile keeps the capsule of the Compose file
SetProfile(i, p) ==
  /\ compose[i] # Nothing
  /\ BeginRender(i, [compose[i] EXCEPT !.profile = p], TRUE, "ready")

\* network_disable_public, network_expire_temporary_public
EndPublicMode(i) ==
  /\ compose[i] # Nothing
  /\ BeginRender(i, [compose[i] EXCEPT !.profile = Private], TRUE, "private")

WriteEnv ==
  /\ op.step = "env"
  /\ env' = [env EXCEPT ![op.instance] = op.write.profile]
  /\ Proceed([op EXCEPT !.step = "compose"])
  /\ UNCHANGED <<extracted, compose, evidence, docker>>

WriteCompose ==
  /\ op.step = "compose"
  /\ compose' = [compose EXCEPT ![op.instance] = op.write]
  /\ op' = [op EXCEPT !.step = "traefik"]
  /\ Tell(op.instance, "nothing")
  /\ UNCHANGED <<extracted, env, evidence, docker, budgets>>

WriteTraefik ==
  /\ op.step = "traefik"
  /\ Done(op.says)
  /\ UNCHANGED <<extracted, written, evidence, docker>>

\* A file cannot be written: the files before it stay as they are.
RenderFails ==
  /\ op.step \in {"env", "compose", "traefik"}
  /\ Failed
  /\ UNCHANGED <<extracted, written, evidence, docker, told>>

-----------------------------------------------------------------------------
(* handle_security_check                                                   *)

\* Mutant: only the request is asked.
ResolveNamed(i, named) == named

\* _resolve_capsule_id: the request's capsule id, else the Compose file's
Resolve(i, named) == IF named = Nothing THEN compose[i].capsule ELSE named

\* run_security_gate: the capsule directory verifies, the images of the
\* Compose file are among its manifest's, the env files hold the secrets.
GatePasses(i, c) ==
  /\ c \in extracted \intersect Trusted
  /\ TagOf[c] = TagOf[compose[i].capsule]
  /\ env[i] # Nothing

Checked(i, c) ==
  evidence' = [evidence EXCEPT ![i] =
    [capsule |-> c, compose |-> compose[i], passed |-> GatePasses(i, c)]]

\* The check by itself.
Check(i, named) ==
  /\ op = Idle
  /\ compose[i] # Nothing
  /\ Checked(i, Resolve(i, named))
  /\ UNCHANGED <<extracted, written, docker, op, told, budgets>>

-----------------------------------------------------------------------------
(* handle_instance_start                                                   *)

\* Mutant: a start goes on whatever the gate says.
BeginStartUngated(i, named, recreate) ==
  /\ op = Idle
  /\ compose[i] # Nothing
  /\ LET c == Resolve(i, named) IN
       /\ Checked(i, c)
       /\ Proceed([step |-> "load", instance |-> i, capsule |-> c,
                   recreate |-> recreate, left |-> Services, failed |-> FALSE,
                   admitted |-> FALSE])
  /\ UNCHANGED <<extracted, written, docker>>

\* The gate passes and its evidence is written.
BeginStart(i, named, recreate) ==
  /\ op = Idle
  /\ compose[i] # Nothing
  /\ LET c == Resolve(i, named) IN
       /\ GatePasses(i, c)
       /\ Checked(i, c)
       /\ Proceed([step |-> "load", instance |-> i, capsule |-> c,
                   recreate |-> recreate, left |-> Services, failed |-> FALSE,
                   admitted |-> FALSE])
  /\ UNCHANGED <<extracted, written, docker>>

StartBlocked(i, named) ==
  /\ op = Idle
  /\ compose[i] # Nothing
  /\ ~GatePasses(i, Resolve(i, named))
  /\ Checked(i, Resolve(i, named))
  /\ UNCHANGED <<extracted, written, docker, op, told, budgets>>

\* docker load of one archive; the loop goes on after a failure.
Loaded(s) == [images EXCEPT ![TagOf[op.capsule]][s] = op.capsule]

Load(s) ==
  /\ op.step = "load"
  /\ s \in op.left
  /\ images' = Loaded(s)
  /\ Proceed([op EXCEPT !.left = op.left \ {s}])
  /\ UNCHANGED <<extracted, written, evidence, stack, schema>>

\* It fails, or times out after it was done.
LoadFails(s) ==
  /\ op.step = "load"
  /\ s \in op.left
  /\ Fault
  /\ images' \in {images, Loaded(s)}
  /\ op' = [op EXCEPT !.left = op.left \ {s}, !.failed = TRUE]
  /\ UNCHANGED <<extracted, written, evidence, stack, schema, told>>

\* Mutant: an archive that failed to load does not stop the start.
LoadedAnyhow ==
  /\ op.step = "load"
  /\ op.left = {}
  /\ Proceed([op EXCEPT !.step = "admit"])
  /\ UNCHANGED <<extracted, written, evidence, docker>>

\* (Loading is skipped without images.yaml or archives.  A capsule the gate has
\* passed has both: the builder signs none without them.)
LoadedAll ==
  /\ op.step = "load"
  /\ op.left = {}
  /\ ~op.failed
  /\ Proceed([op EXCEPT !.step = "admit"])
  /\ UNCHANGED <<extracted, written, evidence, docker>>

LoadedSome ==
  /\ op.step = "load"
  /\ op.left = {}
  /\ op.failed
  /\ Proceed(Idle)
  /\ UNCHANGED <<extracted, written, evidence, docker>>

\* The images the Compose file of an instance names.
Pulled(i) == images[TagOf[compose[i].capsule]]

\* check_activation: the Compose file pins its images by digest, Docker has them
\* under these digests, and they are those of a signed release.
Measured(i) ==
  LET c == compose[i].capsule
  IN  c \in Pinned \intersect Released /\ \A s \in Services : Pulled(i)[s] = c

\* Mutant: no start takes the old containers down.
AfterAdmissionOnward == "migrate"

AfterAdmission == IF op.recreate THEN "down" ELSE "migrate"

\* Mutant: admission is checked by the profile alone.
AdmitUnmeasured ==
  /\ op.step = "admit"
  /\ Proceed([op EXCEPT !.step = AfterAdmission,
                        !.admitted = env[op.instance] \in Public])
  /\ UNCHANGED <<extracted, written, evidence, docker>>

Admit ==
  /\ op.step = "admit"
  /\ env[op.instance] \in Public => Measured(op.instance)
  /\ Proceed([op EXCEPT !.step = AfterAdmission,
                        !.admitted = env[op.instance] \in Public])
  /\ UNCHANGED <<extracted, written, evidence, docker>>

Deny ==
  /\ op.step = "admit"
  /\ env[op.instance] \in Public /\ ~Measured(op.instance)
  /\ Proceed(Idle)
  /\ UNCHANGED <<extracted, written, evidence, docker>>

Empty == [s \in Services |-> Nothing]
Only(kept, i) == [s \in Services |-> IF s \in kept THEN stack[i][s] ELSE Nothing]

Down ==
  /\ op.step = "down"
  /\ stack' = [stack EXCEPT ![op.instance] = Empty]
  /\ Proceed([op EXCEPT !.step = "migrate"])
  /\ UNCHANGED <<extracted, written, evidence, images, schema>>

\* Mutant: a failed down is not looked at.
DownFailsUnseen ==
  /\ op.step = "down"
  /\ Fault
  /\ \E kept \in SUBSET Services :
       stack' = [stack EXCEPT ![op.instance] = Only(kept, op.instance)]
  /\ op' = [op EXCEPT !.step = "migrate"]
  /\ Tell(op.instance, "nothing")
  /\ UNCHANGED <<extracted, written, evidence, images, schema>>

\* It fails or times out: some containers are gone.
DownFails ==
  /\ op.step = "down"
  /\ Failed
  /\ \E kept \in SUBSET Services :
       stack' = [stack EXCEPT ![op.instance] = Only(kept, op.instance)]
  /\ Tell(op.instance, "nothing")
  /\ UNCHANGED <<extracted, written, evidence, images, schema>>

\* run_django_migrations, with the image that django-api's tag names now
Migrate ==
  /\ op.step = "migrate"
  /\ schema' = [schema EXCEPT ![op.instance] = Pulled(op.instance)[App]]
  /\ Proceed([op EXCEPT !.step = "up"])
  /\ UNCHANGED <<extracted, written, evidence, images, stack>>

\* The migrations fail before or after the database was changed, or the
\* schema does not match afterwards.
MigrateFails ==
  /\ op.step = "migrate"
  /\ Failed
  /\ schema' \in {schema, [schema EXCEPT ![op.instance] = Pulled(op.instance)[App]]}
  /\ Tell(op.instance, "nothing")
  /\ UNCHANGED <<extracted, written, evidence, images, stack>>

Fresh(i, s) ==
  [image |-> Pulled(i)[s], config |-> compose[i], admitted |-> op.admitted]

\* docker compose up: a container whose configuration is unchanged may be kept
\* although its tag names another image.
Kept(i) == {s \in Services : stack[i][s] # Nothing /\ stack[i][s].config = compose[i]}

Up ==
  /\ op.step = "up"
  /\ \E kept \in SUBSET Kept(op.instance) :
       stack' = [stack EXCEPT ![op.instance] =
         [s \in Services |-> IF s \in kept THEN stack[op.instance][s]
                             ELSE Fresh(op.instance, s)]]
  /\ Done("started")
  /\ UNCHANGED <<extracted, written, evidence, images, schema>>

\* Mutant: the outcome of up is not looked at.
UpFailsUnseen ==
  /\ op.step = "up"
  /\ Failed
  /\ \E up \in SUBSET Services :
       stack' = [stack EXCEPT ![op.instance] =
         [s \in Services |-> IF s \in up THEN Fresh(op.instance, s)
                             ELSE stack[op.instance][s]]]
  /\ Tell(op.instance, "started")
  /\ UNCHANGED <<extracted, written, evidence, images, schema>>

\* Some services are not up, or all are and the readiness checks fail.
UpFails ==
  /\ op.step = "up"
  /\ Failed
  /\ \E up \in SUBSET Services :
       stack' = [stack EXCEPT ![op.instance] =
         [s \in Services |-> IF s \in up THEN Fresh(op.instance, s)
                             ELSE stack[op.instance][s]]]
  /\ Tell(op.instance, "nothing")
  /\ UNCHANGED <<extracted, written, evidence, images, schema>>

-----------------------------------------------------------------------------
(* handle_instance_stop                                                    *)

BeginStop(i) ==
  /\ op = Idle
  /\ Proceed([step |-> "stop", instance |-> i])
  /\ UNCHANGED <<extracted, written, evidence, docker>>

StopDown ==
  /\ op.step = "stop"
  /\ stack' = [stack EXCEPT ![op.instance] = Empty]
  /\ Done("stopped")
  /\ UNCHANGED <<extracted, written, evidence, images, schema>>

\* docker compose down fails or times out.
StopFails ==
  /\ op.step = "stop"
  /\ Failed
  /\ \E kept \in SUBSET Services :
       stack' = [stack EXCEPT ![op.instance] = Only(kept, op.instance)]
  /\ Tell(op.instance, "nothing")
  /\ UNCHANGED <<extracted, written, evidence, images, schema>>

-----------------------------------------------------------------------------
\* The Agent dies between two steps and comes back idle.
Crash ==
  /\ crashes < Crashes
  /\ op # Idle
  /\ crashes' = crashes + 1
  /\ op' = Idle
  /\ told' = IF op.step \in {"migrate", "up"}
             THEN [told EXCEPT ![op.instance] = "nothing"] ELSE told
  /\ UNCHANGED <<extracted, written, evidence, docker, faults>>

Request ==
  \/ \E c \in Capsules : Extract(c) \/ Discard(c)
  \/ \E i \in Instances :
       \/ \E r \in Rendered, generate \in EnvWrites : Create(i, r, generate)
       \/ \E p \in Profiles : SetProfile(i, p)
       \/ EndPublicMode(i)
       \/ \E named \in Named :
            \/ Check(i, named)
            \/ \E recreate \in Recreates : BeginStart(i, named, recreate)
            \/ StartBlocked(i, named)
       \/ BeginStop(i)

Step ==
  \/ WriteEnv \/ WriteCompose \/ WriteTraefik \/ RenderFails
  \/ \E s \in Services : Load(s) \/ LoadFails(s)
  \/ LoadedAll \/ LoadedSome \/ Admit \/ Deny
  \/ Down \/ DownFails \/ Migrate \/ MigrateFails \/ Up \/ UpFails
  \/ StopDown \/ StopFails

Next == Request \/ Step \/ Crash

Spec == Init /\ [][Next]_vars

-----------------------------------------------------------------------------
(* What starts and stops guarantee                                         *)

Running(i) == {s \in Services : stack[i][s] # Nothing}

\* Every container runs the image of the capsule its Compose file names: no
\* start of another instance with the same image tags, no archive that failed
\* to load and no crash makes an instance come up with somebody else's images
\* (the archives are loaded again by every start).
\* (Needs requests that leave the capsule to the Compose file.)
StackRunsCapsule ==
  \A i \in Instances : \A s \in Running(i) :
    stack[i][s].image = stack[i][s].config.capsule

\* django-api never runs against a database that another capsule's migrations
\* have changed: the old containers are gone before the migrations run.
\* (Needs starts that recreate the containers, the default.)
AppMatchesSchema ==
  \A i \in Instances : App \in Running(i) => stack[i][App].image = schema[i]

\* After "Instance started.", and until a request that changes something
\* reaches its containers or its Compose file, all of the instance's services
\* run with its Compose file and its migrations: neither blocked or failed
\* starts nor other instances' requests take anything away.
\* (Needs requests that leave the capsule to the Compose file.)
StartedIsComplete ==
  \A i \in Instances : told[i] = "started" /\ ~Busy(i) =>
    /\ compose[i] # Nothing
    /\ schema[i] = compose[i].capsule
    /\ \A s \in Services :
         /\ s \in Running(i)
         /\ stack[i][s].config = compose[i]

\* After "Instance stopped." no container is left until the next start.
StoppedIsDown ==
  \A i \in Instances : told[i] = "stopped" => Running(i) = {}

\* What the Agent last answered of an instance is how its containers are.
AnswersAreTrue == StartedIsComplete /\ StoppedIsDown

\* Containers appear only while the evidence file of the instance says that
\* the gate passed the Compose file they are created from, for the capsule
\* their images come from.
StartedOnEvidence ==
  [][\A i \in Instances, s \in Services :
       stack'[i][s] \notin {stack[i][s], Nothing} =>
         /\ evidence[i] # Nothing
         /\ evidence[i].passed
         /\ evidence[i].compose = stack'[i][s].config
         /\ evidence[i].capsule = stack'[i][s].image]_vars

\* What a start was admitted for is what runs: a container from an admitted
\* start has a released image, although images are measured before the old
\* containers go, the migrations run and the new containers are created.
AdmittedIsReleased ==
  \A i \in Instances : \A s \in Running(i) :
    stack[i][s].admitted => stack[i][s].image \in Released

\* Both at once: what runs fits its database and its admission.
\* (Needs starts that recreate.)
ContainersAreSound == AppMatchesSchema /\ AdmittedIsReleased

\* Every instance is deployed as the Manager takes it to be: after a start that
\* recreates the containers, also one that failed halfway, none is left of
\* another Compose file than the new ones are of.
\* (Needs starts that recreate.)
UpOf(i) ==
  IF Running(i) = {} THEN "none" ELSE IF Running(i) = Services THEN "all" ELSE "infra"
Deployed(i) == INSTANCE Deployment WITH
  Release <- Rendered, None <- Nothing,
  file <- compose[i], up <- UpOf(i), of <- {stack[i][s].config : s \in Running(i)}
StacksAreDeployed ==
  /\ \A i \in Instances : Deployed(i)!DeploymentInit
  /\ [][\A i \in Instances : [Deployed(i)!DeploymentNext]_(Deployed(i)!deployment)]_vars

-----------------------------------------------------------------------------
(* What release_admission.py says it requires, and the code does not do    *)

\* "Require strict admission for public VPS": a container with a public profile
\* comes from an admitted start.
PublicIsAdmitted ==
  \A i \in Instances : \A s \in Running(i) :
    stack[i][s].config.profile \in Public => stack[i][s].admitted
=============================================================================
